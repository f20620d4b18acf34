---------------------------- MODULE MCSavedSessions ----------------------------
(* SavedSessions for TLC: two agents and two other processes.                   *)
EXTENDS SavedSessions, TLC

CONSTANTS a1, a2, d1, d2

TwoAgents == {a1, a2}
TwoDoers  == {d1, d2}
FiveFiles == 1 .. 5

\* What a later step can tell apart: what a process is for and whether its wake
\* is marked, who marked it asleep, and who could write it when it was ended,
\* while it matters; a registry record of a live process, or none; and files of
\* no name but for who has them open.
For_(p) ==
  IF pc[p] \in {"migrate", "listed", "spawn", "wait", "told", "asked", "clear", "clearing"}
             \cup IF p \in Agent THEN {} ELSE {"sealing", "dropping"}
  THEN why[p] ELSE "none"
Marked(d) == marked[d] /\ pc[d] \in {"spawn", "wait"}
Opens(p) == <<fd[p] # 0 /\ fd[p] = path, {q \in Proc : fd[q] # 0 /\ fd[q] = fd[p]}>>
Stopped(a) == stop[a] /\ pc[a] \in {"starting", "up", "clear", "clearing", "leaving", "settling"}
Slept == IF asleep /\ \E a \in Agent : pc[a] # "off" THEN slept ELSE None
Active == IF Running THEN active ELSE None
Late == IF HasRecord THEN {} ELSE late
\* What may still be begun, and fail.
Left == <<IF ended THEN 0 ELSE MaxDone - done, MaxFaults - faults>>
View ==
  <<record, marks, Active, lock, path = 0, [p \in Proc |-> Opens(p)], holds, pc,
    [p \in Proc |-> For_(p)], save, nap, [a \in Agent |-> Stopped(a)], paused,
    child, [d \in Doer |-> Marked(d)], saved \/ ended, ended, Late, Slept, Left>>

Symmetric == Permutations(Agent) \cup Permutations(Doer)
==============================================================================
