------------------------------ MODULE RelayRoom ------------------------------
(***************************************************************************)
(* One session of the self-hosted relay (internal/relay/server.go): the    *)
(* room a host agent and its viewers meet in, from the first connection to *)
(* the clearing of the room and the reservation that outlives it.          *)
(*                                                                         *)
(* Every connection has a handler goroutine.  The Server's map is guarded  *)
(* by s.mu and each room by r.mu; a step below is one critical section (or *)
(* one write to a socket), so handlers, timers and the steps they run      *)
(* after letting a lock go interleave as the goroutines do.  A room taken  *)
(* from the map is used after the map has moved on: refs holds it.         *)
(***************************************************************************)
EXTENDS Naturals, FiniteSets

CONSTANTS
  AgentConn,   \* connections dialled on the agent's path
  ViewerConn,  \* connections dialled on the viewer's path
  Process,     \* agent processes; each has a token and a pin_hash of its own
  ProcessOf,   \* the process behind each agent connection
  Presents,    \* what each agent connection authenticates with: token, pin_hash, both
  RoomId,      \* rooms in memory: the one in the map and those still in hand
  TimerId,     \* cleanup timers armed or still running
  None

Conn == AgentConn \cup ViewerConn

ASSUME RelayConstants ==
  /\ AgentConn \cap ViewerConn = {}
  /\ IsFiniteSet(ViewerConn)
  /\ ProcessOf \in [AgentConn -> Process]
  /\ \A c \in AgentConn :
       Presents[c] \subseteq [token : {ProcessOf[c], None}, pin : {ProcessOf[c], None}]
  /\ None \notin Conn \cup Process \cup RoomId \cup TimerId

VARIABLES
  \* the room (server.go, type room), one function per field
  agent, pending, viewers, token, pinHash, ownerHash, cleanup,
  \* the Server: the session's entry in rooms and in owners
  cur, owner,
  \* the peers: who has authenticated, who is parked. A socket the relay closes is
  \* out of its room by then, and its handler bails or finds the socket gone
  authed, parked,
  \* the handlers: position, the room in hand, and what is still to be written
  pc, ref, counted, target, todo,
  \* the cleanup timers: position, the room in hand, the credential to reserve
  timer, tref, towner,
  \* what each peer was last told: presence at a viewer, the count at an agent
  told, count,
  \* history: who holds the session ID, the agent a viewer parked under, and
  \* whether the ID was ever let go without its reservation
  claim, parkedUnder, lost

room    == <<agent, pending, viewers, cleanup>>
creds   == <<token, pinHash, ownerHash>>
server  == <<cur, owner>>
peers   == <<authed, parked>>
handler == <<pc, ref, counted, target, todo>>
timers  == <<timer, tref, towner>>
heard   == <<told, count>>
history == <<claim, parkedUnder, lost>>
vars == <<room, creds, server, peers, handler, timers, heard, history>>

Hash == {"token", "pin_hash"} \X Process
Untold == None   \* nothing said yet

------------------------------------------------------------------------------
(* The room's questions, asked under r.mu *)

AgentAuthed(r) == token[r] # None \/ pinHash[r] # None

\* credentialHash: what is kept of a room's credential
CredentialHash(r) ==
  IF token[r] # None THEN <<"token", token[r]>>
  ELSE IF pinHash[r] # None THEN <<"pin_hash", pinHash[r]>> ELSE None

\* peerByConn: the handler's own peer, still in the room
PeerIn(r, c) == c = agent[r] \/ c \in pending[r] \/ c \in viewers[r]

InSession(c) == cur # None /\ PeerIn(cur, c)

\* activeViewersLocked: all but the parked, authenticated or not
ActiveViewers(r) == Cardinality(viewers[r] \ parked)

\* the condition detach removes a room on
Empty(r) == agent[r] = None /\ pending[r] = {} /\ viewers[r] = {} /\ cleanup[r] = None

Garbage(r) == cur # r /\ (\A c \in Conn : ref[c] # r) /\ (\A t \in TimerId : tref[t] # r)

\* Bounds of the model: names are used again only when nothing in memory still
\* holds them, so that a reused name is a new connection, room or timer.
Fresh(c) ==
  /\ \A r \in RoomId : PeerIn(r, c) => Garbage(r)
  /\ \A v \in ViewerConn : target[v] # c
  /\ \A a \in AgentConn : c \notin todo[a]
Idle(t) == timer[t] = "off" /\ \A r \in RoomId : cleanup[r] = t => Garbage(r)

\* The session ID goes out of the map while its holder has no reservation.
Unreserved(o) == claim # None /\ (o = None \/ o[2] # claim)

------------------------------------------------------------------------------
Init ==
  /\ agent     = [r \in RoomId |-> None]
  /\ pending   = [r \in RoomId |-> {}]
  /\ viewers   = [r \in RoomId |-> {}]
  /\ token     = [r \in RoomId |-> None]
  /\ pinHash   = [r \in RoomId |-> None]
  /\ ownerHash = [r \in RoomId |-> None]
  /\ cleanup   = [r \in RoomId |-> None]
  /\ cur = None /\ owner = None
  /\ authed = {} /\ parked = {}
  /\ pc      = [c \in Conn |-> "idle"]
  /\ ref     = [c \in Conn |-> None]
  /\ counted = [c \in ViewerConn |-> 0]
  /\ target  = [c \in ViewerConn |-> None]
  /\ todo    = [c \in AgentConn |-> {}]
  /\ timer   = [t \in TimerId |-> "off"]
  /\ tref    = [t \in TimerId |-> None]
  /\ towner  = [t \in TimerId |-> None]
  /\ told    = [c \in ViewerConn |-> Untold]
  /\ count   = [c \in AgentConn |-> Untold]
  /\ claim = None
  /\ parkedUnder = [c \in ViewerConn |-> None]
  /\ lost = FALSE

Goto(c, label) == pc' = [pc EXCEPT ![c] = label]

\* The handler is done with its peer.
Gone(c) ==
  /\ Goto(c, "idle")
  /\ ref' = [ref EXCEPT ![c] = None]

\* The handler returns, and its deferred detach takes the session's room.
Leave(c) ==
  /\ Goto(c, IF cur = None THEN "idle" ELSE "detaching")
  /\ ref' = [ref EXCEPT ![c] = cur]

------------------------------------------------------------------------------
(* attach, under s.mu: the session's room, or for an agent a fresh one that *)
(* remembers whose the session ID is. Without a room a viewer is refused.   *)
AttachLookup(c) ==
  /\ pc[c] = "idle" /\ Fresh(c)
  /\ \/ /\ cur # None
        /\ ref' = [ref EXCEPT ![c] = cur]
        /\ UNCHANGED <<room, creds, cur>>
     \/ /\ cur = None /\ c \in AgentConn
        /\ \E r \in RoomId :
             /\ Garbage(r)
             /\ cur' = r
             /\ ref' = [ref EXCEPT ![c] = r]
             /\ agent'     = [agent EXCEPT ![r] = None]
             /\ pending'   = [pending EXCEPT ![r] = {}]
             /\ viewers'   = [viewers EXCEPT ![r] = {}]
             /\ cleanup'   = [cleanup EXCEPT ![r] = None]
             /\ token'     = [token EXCEPT ![r] = None]
             /\ pinHash'   = [pinHash EXCEPT ![r] = None]
             /\ ownerHash' = [ownerHash EXCEPT ![r] = owner]
  /\ Goto(c, "attaching")
  /\ UNCHANGED <<owner, peers, counted, target, todo, timers, heard, history>>

\* attach, under r.mu: the connection becomes a peer of the room in hand. A
\* viewer is let in once some agent has authenticated there.
AttachAdd(c) ==
  /\ pc[c] = "attaching"
  /\ LET r == ref[c] IN
     \/ /\ c \in AgentConn
        /\ pending' = [pending EXCEPT ![r] = @ \cup {c}]
        /\ count' = [count EXCEPT ![c] = Untold]
        /\ Goto(c, "reading")
        /\ UNCHANGED <<viewers, told>>
     \/ /\ c \in ViewerConn /\ AgentAuthed(r)
        /\ viewers' = [viewers EXCEPT ![r] = @ \cup {c}]
        /\ told' = [told EXCEPT ![c] = Untold]
        /\ Goto(c, "reading")
        /\ UNCHANGED <<pending, count>>
     \/ /\ c \in ViewerConn /\ ~AgentAuthed(r)
        /\ Goto(c, "idle")
        /\ UNCHANGED <<pending, viewers, heard>>
  /\ ref' = [ref EXCEPT ![c] = None]
  /\ authed' = authed \ {c} /\ parked' = parked \ {c}
  /\ UNCHANGED <<agent, cleanup, creds, server, counted, target, todo, timers, history>>

------------------------------------------------------------------------------
(* Authentication *)

\* The room for the first message, taken under s.mu before r.mu.
ReadAuth(c) ==
  /\ pc[c] = "reading" /\ c \notin authed
  /\ ref' = [ref EXCEPT ![c] = cur]
  /\ Goto(c, IF cur = None THEN "idle" ELSE "auth")
  /\ UNCHANGED <<room, creds, server, peers, counted, target, todo, timers, heard, history>>

\* credentialMatches: a reservation met by either of the two.
CredentialMatches(h, tok, pin) == h \in {<<"token", tok>>, <<"pin_hash", pin>>}

\* As Proves, but a reservation is not asked for, a token stands in for the
\* pin_hash it replaces, or only a reservation's token is tried.
Proves_NoReservation(r, tok, pin) ==
  /\ tok # None \/ pin # None
  /\ \/ ~AgentAuthed(r)
     \/ token[r] # None /\ tok = token[r]
     \/ token[r] = None /\ pinHash[r] # None /\ pin = pinHash[r]
Proves_AnyToken(r, tok, pin) ==
  /\ tok # None \/ pin # None
  /\ \/ token[r] # None /\ tok = token[r]
     \/ token[r] = None /\ pinHash[r] # None /\ (tok # None \/ pin = pinHash[r])
     \/ ~AgentAuthed(r) /\ (ownerHash[r] = None \/ CredentialMatches(ownerHash[r], tok, pin))
Proves_TokenReservation(r, tok, pin) ==
  /\ tok # None \/ pin # None
  /\ \/ token[r] # None /\ tok = token[r]
     \/ token[r] = None /\ pinHash[r] # None /\ pin = pinHash[r]
     \/ ~AgentAuthed(r) /\ ownerHash[r] \in {None, <<"token", tok>>}

\* handleAuthLocked: does a process presenting tok and pin prove room r's credential?
\* The token where there is one, else the pin_hash; in a room without either, the
\* reservation, if the session ID was cleared.
Proves(r, tok, pin) ==
  /\ tok # None \/ pin # None
  /\ \/ token[r] # None /\ tok = token[r]
     \/ token[r] = None /\ pinHash[r] # None /\ pin = pinHash[r]
     \/ ~AgentAuthed(r) /\ (ownerHash[r] = None \/ CredentialMatches(ownerHash[r], tok, pin))

\* handleAuthLocked: what the room keeps. A token replaces a pin_hash; nothing
\* replaces a token.
Register(r, tok, pin) ==
  IF token[r] # None THEN UNCHANGED <<token, pinHash>>
  ELSE IF tok # None
  THEN /\ token' = [token EXCEPT ![r] = tok]
       /\ pinHash' = [pinHash EXCEPT ![r] = None]
  ELSE /\ pinHash' = [pinHash EXCEPT ![r] = pin]
       /\ UNCHANGED token

\* A timer already fired is not stopped.
StopCleanup(r) ==
  timer' = [t \in TimerId |-> IF t = cleanup[r] /\ timer[t] = "armed" THEN "off" ELSE timer[t]]

\* dropParkedLocked: the parked sockets leave the room and are closed.
DropParked_Keeps(r) == UNCHANGED viewers
DropParked(r) ==
  viewers' = [viewers EXCEPT ![r] = @ \ parked]

\* superseded: c takes the slot; the old agent and the other pending
\* connections are out of the room, told so and closed.
Supersede(r, c) ==
  /\ agent' = [agent EXCEPT ![r] = c]
  /\ pending' = [pending EXCEPT ![r] = {}]

\* The first message proves the credential: this connection is the agent now.
AuthAgent(c, m) ==
  /\ pc[c] = "auth" /\ c \in AgentConn
  /\ LET r == ref[c] IN
     /\ PeerIn(r, c) /\ Proves(r, m.token, m.pin)
     /\ Register(r, m.token, m.pin)
     /\ Supersede(r, c)
     /\ StopCleanup(r)
     /\ cleanup' = [cleanup EXCEPT ![r] = None]
     /\ DropParked(r)
     /\ authed' = authed \cup {c}
     /\ Goto(c, IF viewers[r] \cap (authed \ parked) # {} THEN "announce" ELSE "reading")
     /\ claim' = IF r = cur /\ ~AgentAuthed(r) THEN ProcessOf[c] ELSE claim
  /\ ref' = [ref EXCEPT ![c] = None]
  /\ UNCHANGED <<ownerHash, server, parked, counted, target, todo, tref, towner, heard,
                 parkedUnder, lost>>

\* A viewer only needs a session some agent has authenticated; whether the
\* agent is here is read now and told later.
AuthViewer(c) ==
  /\ pc[c] = "auth" /\ c \in ViewerConn
  /\ PeerIn(ref[c], c) /\ AgentAuthed(ref[c])
  /\ authed' = authed \cup {c}
  /\ Goto(c, IF agent[ref[c]] # None THEN "greetOnline" ELSE "greetOffline")
  /\ ref' = [ref EXCEPT ![c] = None]
  /\ UNCHANGED <<room, creds, server, parked, counted, target, todo, timers,
                 heard, history>>

\* Refused, or no longer a peer of the room: the handler returns.
AuthRefused(c) ==
  /\ pc[c] = "auth"
  /\ \/ ~PeerIn(ref[c], c)
     \/ c \in ViewerConn /\ ~AgentAuthed(ref[c])
     \/ c \in AgentConn /\ \E m \in Presents[c] : ~Proves(ref[c], m.token, m.pin)
  /\ Leave(c)
  /\ UNCHANGED <<room, creds, server, peers, counted, target, todo, timers, heard, history>>

------------------------------------------------------------------------------
(* After the lock is let go: what the handler writes, step by step *)

\* AuthOK, then whether the agent is here, as it was under the lock.
Greet(c) ==
  /\ pc[c] \in {"greetOnline", "greetOffline"}
  /\ told' = [told EXCEPT ![c] = IF pc[c] = "greetOnline" THEN "online" ELSE "offline"]
  /\ Goto(c, IF pc[c] = "greetOnline" THEN "count" ELSE "reading")
  /\ UNCHANGED <<room, creds, server, peers, ref, counted, target, todo, timers, count, history>>

\* viewerCount, under its own lock, and then notifyPeer under another.
CountViewers(c) ==
  /\ pc[c] = "count"
  /\ counted' = [counted EXCEPT ![c] = IF cur = None THEN 0 ELSE ActiveViewers(cur)]
  /\ Goto(c, "notify")
  /\ UNCHANGED <<room, creds, server, peers, ref, target, todo, timers, heard, history>>

NotifyAgent(c) ==
  /\ pc[c] = "notify"
  /\ count' = [a \in AgentConn |->
                IF cur # None /\ a = agent[cur] THEN counted[c] ELSE count[a]]
  /\ counted' = [counted EXCEPT ![c] = 0]
  /\ Goto(c, "reading")
  /\ UNCHANGED <<room, creds, server, peers, ref, target, todo, timers, told, history>>

\* broadcastViewers: the targets under the lock, then a write to each.
Announce(c) ==
  /\ pc[c] = "announce"
  /\ todo' = [todo EXCEPT ![c] = IF cur = None THEN {} ELSE viewers[cur] \cap (authed \ parked)]
  /\ Goto(c, "telling")
  /\ UNCHANGED <<room, creds, server, peers, ref, counted, target, timers, heard, history>>

TellOnline(c) ==
  /\ pc[c] = "telling"
  /\ \/ \E v \in todo[c] :
          /\ told' = [told EXCEPT ![v] = "online"]
          /\ todo' = [todo EXCEPT ![c] = @ \ {v}]
          /\ UNCHANGED pc
     \/ /\ todo[c] = {}
        /\ Goto(c, "reading")
        /\ UNCHANGED <<told, todo>>
  /\ UNCHANGED <<room, creds, server, peers, ref, counted, target, timers, count, history>>

------------------------------------------------------------------------------
(* park: a viewer's warm socket leaves the agent's audience and comes back. *)
(* The pace (takePark) may refuse either; unparking needs an agent. The room *)
(* is looked up again once the message is read: the socket may be out of it. *)
Park(c) ==
  /\ pc[c] = "reading" /\ c \in authed \cap ViewerConn /\ c \notin parked
  /\ cur # None
  /\ parked' = parked \cup {c}
  /\ parkedUnder' = [parkedUnder EXCEPT ![c] = agent[cur]]
  /\ counted' = [counted EXCEPT ![c] = Cardinality(viewers[cur] \ parked')]
  /\ target' = [target EXCEPT ![c] = agent[cur]]
  /\ Goto(c, "tellCount")
  /\ UNCHANGED <<room, creds, server, authed, ref, todo, timers, heard, claim, lost>>

Unpark(c) ==
  /\ pc[c] = "reading" /\ c \in authed \cap parked
  /\ cur # None /\ agent[cur] # None
  /\ parked' = parked \ {c}
  /\ counted' = [counted EXCEPT ![c] = Cardinality(viewers[cur] \ parked')]
  /\ target' = [target EXCEPT ![c] = agent[cur]]
  /\ Goto(c, "tellCount")
  /\ UNCHANGED <<room, creds, server, authed, ref, todo, timers, heard, history>>

\* The count goes to the agent that was there under the lock.
TellCount(c) ==
  /\ pc[c] = "tellCount"
  /\ count' = [a \in AgentConn |-> IF a = target[c] THEN counted[c] ELSE count[a]]
  /\ target' = [target EXCEPT ![c] = None]
  /\ counted' = [counted EXCEPT ![c] = 0]
  /\ Goto(c, "reading")
  /\ UNCHANGED <<room, creds, server, peers, ref, todo, timers, told, history>>

------------------------------------------------------------------------------
(* Leaving *)

\* The read fails: the peer or the network closed the socket, the relay did
\* (superseded, closeParked, expireRoom), a silent connection ran into its
\* deadline, or an unauthenticated one said something else.
HangUp(c) ==
  /\ pc[c] = "reading"
  /\ Leave(c)
  /\ UNCHANGED <<room, creds, server, peers, counted, target, todo, timers, heard, history>>

\* A message from a connection the session's room does not know: bail.
Bail(c) ==
  /\ pc[c] = "reading" /\ ~InSession(c)
  /\ Leave(c)
  /\ UNCHANGED <<room, creds, server, peers, counted, target, todo, timers, heard, history>>

\* Where detach goes from its critical section: to remove an empty room, or out.
DetachDone_NoSweep(c, r) == Gone(c)
DetachDone(c, r) ==
  IF agent'[r] = None /\ pending'[r] = {} /\ viewers'[r] = {} /\ cleanup'[r] = None
  THEN Goto(c, "empty") /\ UNCHANGED ref
  ELSE Gone(c)

\* A connection that never became the agent, or was superseded.
DetachPending(c) ==
  /\ pc[c] = "detaching" /\ c \in AgentConn
  /\ LET r == ref[c] IN
     /\ agent[r] # c
     /\ pending' = [pending EXCEPT ![r] = @ \ {c}]
     /\ UNCHANGED <<agent, viewers, cleanup>>
     /\ DetachDone(c, r)
  /\ UNCHANGED <<creds, server, peers, counted, target, todo, timers, heard, history>>

\* The room's own timer, stopping the one it had.
ArmCleanup(r) ==
  \E t \in TimerId :
    /\ Idle(t)
    /\ cleanup' = [cleanup EXCEPT ![r] = t]
    /\ timer' = [u \in TimerId |-> IF u = t THEN "armed"
                  ELSE IF u = cleanup[r] /\ timer[u] = "armed" THEN "off" ELSE timer[u]]

\* The agent: parked sockets go, the viewers are told, and the room's time runs.
DetachAgent(c) ==
  /\ pc[c] = "detaching" /\ c \in AgentConn
  /\ LET r == ref[c] IN
     /\ agent[r] = c
     /\ agent' = [agent EXCEPT ![r] = None]
     /\ DropParked(r)
     /\ told' = [v \in ViewerConn |->
                  IF v \in viewers[r] \cap (authed \ parked) THEN "offline" ELSE told[v]]
     /\ ArmCleanup(r)
     /\ UNCHANGED pending
     /\ DetachDone(c, r)
  /\ UNCHANGED <<creds, server, authed, parked, counted, target, todo, tref, towner, count, history>>

\* detach's counted: a parked socket was no viewer to the agent.
Counted_Parked(r, c) == c \in viewers[r]
Counted(r, c) == c \in viewers[r] \ parked

\* A viewer: the agent is told how many are left, unless this one was parked
\* or had been dropped already.
DetachViewer(c) ==
  /\ pc[c] = "detaching" /\ c \in ViewerConn
  /\ LET r == ref[c] IN
     /\ viewers' = [viewers EXCEPT ![r] = @ \ {c}]
     /\ count' = [a \in AgentConn |->
                   IF Counted(r, c) /\ a = agent[r]
                   THEN ActiveViewers(r) - 1 ELSE count[a]]
     /\ UNCHANGED <<agent, pending, cleanup>>
     /\ DetachDone(c, r)
  /\ UNCHANGED <<creds, server, peers, counted, target, todo, timers, told, history>>

\* detach, under s.mu and again r.mu: a room still empty leaves the map.
DropEmpty(c) ==
  /\ pc[c] = "empty"
  /\ LET drop == cur = ref[c] /\ Empty(cur) IN
     /\ cur' = IF drop THEN None ELSE cur
     /\ lost' = (lost \/ (drop /\ Unreserved(owner)))
  /\ Gone(c)
  /\ UNCHANGED <<room, creds, owner, peers, counted, target, todo, timers, heard, claim, parkedUnder>>

------------------------------------------------------------------------------
(* expireRoom, on the timer's own goroutine *)

\* The timer fires and its goroutine takes the session's room, whichever it is now.
TimerFires(t) ==
  /\ timer[t] = "armed"
  /\ timer' = [timer EXCEPT ![t] = IF cur = None THEN "off" ELSE "expiring"]
  /\ tref' = [tref EXCEPT ![t] = cur]
  /\ UNCHANGED <<room, creds, server, peers, handler, towner, heard, history>>

\* Under r.mu: the agent is back, or the viewers are told and closed.
ExpireRoom(t) ==
  /\ timer[t] = "expiring"
  /\ LET r == tref[t] IN
     /\ cleanup' = [cleanup EXCEPT ![r] = None]
     /\ \/ /\ agent[r] # None
           /\ timer' = [timer EXCEPT ![t] = "off"]
           /\ tref' = [tref EXCEPT ![t] = None]
           /\ UNCHANGED <<viewers, told, towner>>
        \/ /\ agent[r] = None
           /\ told' = [v \in ViewerConn |-> IF v \in viewers[r] THEN "closed" ELSE told[v]]
           /\ viewers' = [viewers EXCEPT ![r] = {}]
           /\ towner' = [towner EXCEPT ![t] = CredentialHash(r)]
           /\ timer' = [timer EXCEPT ![t] = "clearing"]
           /\ UNCHANGED tref
  /\ UNCHANGED <<agent, pending, creds, server, authed, parked, handler, count, history>>

\* Under s.mu: the room leaves the map and keepOwnerLocked reserves its ID for
\* the credential read in the step before.
ExpireClear(t) ==
  /\ timer[t] = "clearing"
  /\ LET here == cur = tref[t]
         kept == IF here /\ towner[t] # None THEN towner[t] ELSE owner IN
     /\ cur' = IF here THEN None ELSE cur
     /\ owner' = kept
     /\ lost' = (lost \/ (here /\ Unreserved(kept)))
  /\ timer' = [timer EXCEPT ![t] = "off"]
  /\ tref' = [tref EXCEPT ![t] = None]
  /\ towner' = [towner EXCEPT ![t] = None]
  /\ UNCHANGED <<room, creds, peers, handler, heard, claim, parkedUnder>>

\* ownerKeep runs out. The ID is free again unless a room holds it.
OwnerLapses ==
  /\ owner # None
  /\ owner' = None
  /\ claim' = IF cur # None /\ AgentAuthed(cur) THEN claim ELSE None
  /\ UNCHANGED <<room, creds, cur, peers, handler, timers, heard, parkedUnder, lost>>

------------------------------------------------------------------------------
AgentNext(c) ==
  \/ \E m \in Presents[c] : AuthAgent(c, m)
  \/ Announce(c) \/ TellOnline(c) \/ DetachPending(c) \/ DetachAgent(c)

ViewerNext(c) ==
  \/ AuthViewer(c) \/ Greet(c) \/ CountViewers(c) \/ NotifyAgent(c)
  \/ Park(c) \/ Unpark(c) \/ TellCount(c) \/ DetachViewer(c)

ConnNext(c) ==
  \/ AttachLookup(c) \/ AttachAdd(c) \/ ReadAuth(c) \/ AuthRefused(c)
  \/ HangUp(c) \/ Bail(c) \/ DropEmpty(c)

TimerNext(t) == TimerFires(t) \/ ExpireRoom(t) \/ ExpireClear(t)

Next ==
  \/ \E c \in AgentConn : AgentNext(c)
  \/ \E c \in ViewerConn : ViewerNext(c)
  \/ \E c \in Conn : ConnNext(c)
  \/ \E t \in TimerId : TimerNext(t)
  \/ OwnerLapses

Spec == Init /\ [][Next]_vars

------------------------------------------------------------------------------
(* Properties *)

Positions == {"idle", "attaching", "reading", "auth", "detaching", "empty",      \* both
              "announce", "telling",                                            \* agents
              "greetOnline", "greetOffline", "count", "notify", "tellCount"}    \* viewers

\* Every variable has its type; no count sent to an agent leaves 0 .. the viewers there are.
RoomOK ==
  /\ agent \in [RoomId -> AgentConn \cup {None}]
  /\ pending \in [RoomId -> SUBSET AgentConn]
  /\ viewers \in [RoomId -> SUBSET ViewerConn]
  /\ cleanup \in [RoomId -> TimerId \cup {None}]
CredsOK ==
  /\ token \in [RoomId -> Process \cup {None}]
  /\ pinHash \in [RoomId -> Process \cup {None}]
  /\ ownerHash \in [RoomId -> Hash \cup {None}]
ServerOK ==
  /\ cur \in RoomId \cup {None}
  /\ owner \in Hash \cup {None}
  /\ authed \subseteq Conn /\ parked \subseteq ViewerConn
HandlerOK ==
  /\ pc \in [Conn -> Positions]
  /\ ref \in [Conn -> RoomId \cup {None}]
  /\ counted \in [ViewerConn -> 0 .. Cardinality(ViewerConn)]
  /\ target \in [ViewerConn -> AgentConn \cup {None}]
  /\ todo \in [AgentConn -> SUBSET ViewerConn]
TimersOK ==
  /\ timer \in [TimerId -> {"off", "armed", "expiring", "clearing"}]
  /\ tref \in [TimerId -> RoomId \cup {None}]
  /\ towner \in [TimerId -> Hash \cup {None}]
HeardOK ==
  /\ told \in [ViewerConn -> {Untold, "online", "offline", "closed"}]
  /\ count \in [AgentConn -> {Untold} \cup 0 .. Cardinality(ViewerConn)]
HistoryOK ==
  /\ claim \in Process \cup {None}
  /\ parkedUnder \in [ViewerConn -> AgentConn \cup {None}]
  /\ lost \in BOOLEAN
TypeOK == RoomOK /\ CredsOK /\ ServerOK /\ HandlerOK /\ TimersOK /\ HeardOK /\ HistoryOK

\* Whoever is in the agent's slot of the room in the map is the process that
\* registered the session's credential, through superseding, reconnecting and
\* the move from pin_hash to token (handleAuthLocked, superseded).
AgentIsHolder ==
  cur # None /\ agent[cur] # None => ProcessOf[agent[cur]] = claim

\* A session ID passes from its agent to another only once its reservation has
\* run out: not by a disconnect, nor by the clearing of the room, whoever knocks
\* (keepOwnerLocked, handleAuthLocked) - unless the ID was let go unreserved.
HolderKeepsSession ==
  [][claim # None /\ ~lost /\ claim' # claim => claim' = None /\ owner # None /\ owner' = None]_vars

\* The session's own agent is never refused: one that presents both its
\* credentials to the room in the map is let in, however often the room was
\* cleared and whoever knocked meanwhile (handleAuthLocked, attach).
HolderGetsIn ==
  cur # None /\ claim # None /\ ~lost => Proves(cur, claim, claim)

\* A cleared room's session ID stays reserved for the agent that had it
\* (server.go, handleAuthLocked's default case): while no room is in the map,
\* the holder's credential is in owners.
ClearedRoomReserved == cur = None => ~Unreserved(owner)

\* A parked viewer still in the room parked under the agent that is there now:
\* parked sockets hold a key from before any other (dropParkedLocked), and an
\* unpark takes the viewer straight back without a handshake.
ParkedUnderThisAgent ==
  \A r \in RoomId : \A v \in viewers[r] \cap parked :
    r = cur /\ agent[r] # None => parkedUnder[v] = agent[r]

\* A handler that will put an agent into the room, or look whether it is empty.
Tends(c, r) ==
  /\ ref[c] = r
  /\ pc[c] \in {"detaching", "empty"} \/ (c \in AgentConn /\ pc[c] = "attaching")

\* A timer that will clear the room, armed or already at it.
Timed(r) ==
  \E t \in TimerId : tref[t] = r \/ (cleanup[r] = t /\ timer[t] = "armed")

\* A room without an agent is somebody's to remove: a connection waits in it
\* and its handler still runs, one is on its way in or out, or a cleanup timer
\* runs. Otherwise the room, and with it the session ID, would stay in the map
\* for good (detach, expireRoom).
NoLeakedRoom ==
  cur # None /\ agent[cur] = None =>
    \/ \E c \in pending[cur] : pc[c] # "idle"
    \/ \E c \in Conn : Tends(c, cur)
    \/ Timed(cur)

\* Nothing under way: every handler waits for a message or is gone.
Quiet == \A c \in Conn : pc[c] \in {"idle", "reading"} /\ (pc[c] = "reading" => c \in authed)

\* Once nothing is under way, every viewer of the agent's was last told the
\* truth about whether the agent is here (handleSessionConn: "Tell the
\* freshly-authed viewer whether the agent is here", detach).
PresenceSettles ==
  Quiet /\ cur # None =>
    \A v \in viewers[cur] \ parked :
      told[v] = IF agent[cur] # None THEN "online" ELSE "offline"
==============================================================================
