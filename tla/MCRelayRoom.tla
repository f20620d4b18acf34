----------------------------- MODULE MCRelayRoom -----------------------------
(* RelayRoom for TLC: model values for the connections, and who dials them. *)
EXTENDS RelayRoom, TLC

CONSTANTS a1, a2, v1, v2, mine, other, r1, r2, t1, t2, none

TwoAgents    == {a1, a2}
OneViewer    == {v1}
NoViewer     == {}
TwoViewers   == {v1, v2}
OneProcess   == {mine}
TwoProcesses == {mine, other}
\* both connections the session's own agent's, or one of them a stranger's
SameAgent == [c \in {a1, a2} |-> mine]
Stranger  == [c \in {a1, a2} |-> IF c = a1 THEN mine ELSE other]
Token(p) == [token |-> p, pin |-> none]
Pin(p)   == [token |-> none, pin |-> p]
Both(p)  == [token |-> p, pin |-> p]
\* a stranger with a token of its own; an old agent and the upgraded one
TokenOrBoth == [c \in {a1, a2} |-> IF c = a1 THEN {Both(mine), Pin(mine)} ELSE {Token(other)}]
TokenTwice  == [c \in {a1, a2} |-> {Token(mine)}]
OneRoom   == {r1}
TwoRooms  == {r1, r2}
OneTimer  == {t1}
TwoTimers == {t1, t2}

SymRooms == Permutations({r1, r2}) \cup Permutations({t1, t2})

\* What is left of a room nobody holds, of a connection that is gone, and of a
\* reservation a room's agent has met, is never read again (Garbage, AttachAdd,
\* Proves): states that differ only there are one.
Kept(r) ==
  IF Garbage(r) THEN None
  ELSE <<agent[r], pending[r], viewers[r], token[r], pinHash[r],
         IF AgentAuthed(r) THEN None ELSE ownerHash[r], cleanup[r]>>
Live == {c \in Conn : pc[c] # "idle" \/ ~Fresh(c)}
Control == <<[r \in RoomId |-> Kept(r)], cur, owner, authed \cap Live, parked \cap Live,
             pc, ref, target, todo, timers, [v \in ViewerConn \cap Live |-> parkedUnder[v]],
             claim, lost>>
\* no step reads what the peers were told: a run that asks nothing of it leaves it out
View == <<Control, counted, [v \in ViewerConn \cap Live |-> told[v]],
          [a \in AgentConn \cap Live |-> count[a]]>>
==============================================================================
