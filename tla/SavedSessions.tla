----------------------------- MODULE SavedSessions -----------------------------
(***************************************************************************)
(* What reminal keeps of one session so that it can come back              *)
(* (internal/session restore.go, sleep.go; internal/client restore.go,     *)
(* restoreguard.go, sleep.go): its sealed record and its sleep marks, the   *)
(* lock its agent holds while it runs, and the processes that save, sleep, *)
(* wake, restore and end it.                                               *)
(*                                                                         *)
(* An agent serves the session.  A doer is any other process: the daemon   *)
(* (restoring at its start, acting for a viewer) or a command.  The record *)
(* is there or not; a plain one is from a version before sealing.          *)
(***************************************************************************)
EXTENDS Naturals

CONSTANTS Agent, Doer, None,
  Stale,   \* a registry record of a process that is gone
  Files,   \* inodes of the live lock file; enough for a new one always
  LockFails,          \* the live lock's file may be impossible to open
  MaxDone, MaxFaults  \* bounds: on what is asked for, and on faults

Proc == Agent \cup Doer
ASSUME SessionConstants ==
  /\ Agent \cap Doer = {} /\ {None, Stale, "save"} \cap Proc = {}
  /\ None # Stale /\ None # "save"
  /\ Files \subseteq Nat \ {0} /\ 1 \in Files /\ LockFails \in BOOLEAN
  /\ MaxDone \in Nat /\ MaxFaults \in Nat

VARIABLES
  \* <ID>.sealed, <ID>.json; <ID>.asleep, <ID>.waking; the registry's record
  sealed, plain, asleep, waking, active,
  \* .<ID>.lock: who holds it ("save": the save of an agent)
  lock,
  \* live/<ID>.lock: the file at the path, the one a process has open, and
  \* whether it holds the lock on it
  path, fd, holds,
  \* what each process is at, and what for
  pc, why,
  \* an agent: the save that has its restoreMu, its going to sleep, that it was
  \* ended by a signal, that it stopped sharing ("saving": saves past their look
  \* at that were waiting for restoreMu then)
  save, nap, stop, paused,
  \* a doer: the agent it started, and whether its wake is marked still
  child, marked,
  \* history: a record was saved; the session was ended, and who could still
  \* write its record then; who marked it asleep since an agent came up
  saved, ended, late, slept,
  \* bounds
  done, faults

record == <<sealed, plain>>
marks  == <<asleep, waking>>
live   == <<path, fd, holds>>
agent  == <<save, nap, stop, paused>>
doer   == <<child, marked>>
past   == <<saved, ended, late, slept>>
bounds == <<done, faults>>
vars == <<record, marks, active, lock, live, pc, why, agent, doer, past, bounds>>

Goto(p, l) == pc' = [pc EXCEPT ![p] = l]
For(p, w)  == why' = [why EXCEPT ![p] = w]

HasRecord == sealed \/ plain
\* ActiveState: a live process has the registry's record.
Running == active \in Agent
\* An agent has the record it restores from; it serves the session, ready or not.
Loading == {"migrate", "sealing", "dropping", "loaded"}
Serving(a) == pc[a] \notin {"off", "spawned", "claim", "load"} \cup Loading

Fresh(a) ==
  /\ sealed = FALSE /\ plain = FALSE /\ active = a
  /\ path = 1 /\ fd = [p \in Proc |-> IF p = a THEN 1 ELSE 0] /\ holds = [p \in Proc |-> p = a]
  /\ pc = [p \in Proc |-> IF p = a THEN "up" ELSE IF p \in Agent THEN "off" ELSE "idle"]
Older ==
  /\ sealed = FALSE /\ plain = TRUE /\ active \in {None, Stale}
  /\ path = 0 /\ fd = [p \in Proc |-> 0] /\ holds = [p \in Proc |-> FALSE]
  /\ pc = [p \in Proc |-> IF p \in Agent THEN "off" ELSE "idle"]

\* A session just started, or one an older version left when it ended.
Init ==
  /\ (\E a \in Agent : Fresh(a)) \/ Older
  /\ asleep = FALSE /\ waking = "no" /\ lock = None
  /\ why = [p \in Proc |-> "none"]
  /\ save = [a \in Agent |-> "no"] /\ nap = [a \in Agent |-> "no"]
  /\ stop = [a \in Agent |-> FALSE] /\ paused = [a \in Agent |-> "no"]
  /\ child = [d \in Doer |-> None] /\ marked = [d \in Doer |-> FALSE]
  /\ saved = plain /\ ended = FALSE /\ late = {} /\ slept = None
  /\ done = 0 /\ faults = 0

------------------------------------------------------------------------------
(* The lock of the record, lockSession: waited for 5 s *)

Take(p) == lock = None /\ lock' = p
Held(p) == lock \notin {None, p}
Drop == lock' = None

(* The live lock, tryLockFile: opened, made if there is none, then locked *)

NewFile(f) == f # path /\ \A p \in Proc : fd[p] # f
OpenFile ==
  IF path # 0 THEN {path}
  ELSE {f \in Files : NewFile(f) /\ \A g \in Files : g < f => ~NewFile(g)}
Locked(f) == \E q \in Proc : fd[q] = f /\ holds[q]
Close(p) == fd' = [fd EXCEPT ![p] = 0] /\ holds' = [holds EXCEPT ![p] = FALSE]

\* The process of an agent is gone: the kernel lets go of its locks.
Gone(a) ==
  /\ Goto(a, "off") /\ Close(a) /\ UNCHANGED path
  /\ stop' = [stop EXCEPT ![a] = FALSE] /\ paused' = [paused EXCEPT ![a] = "no"]
  /\ nap' = [nap EXCEPT ![a] = "no"] /\ save' = [save EXCEPT ![a] = "no"]

\* ClearWaking, ClearAsleep: the mark of every wake under way goes.
ClearWaking == waking' = "no" /\ marked' = [d \in Doer |-> FALSE]
ClearAsleep == asleep' = FALSE /\ ClearWaking

------------------------------------------------------------------------------
(* Saving: saveRestore, WriteRestore *)

\* Not settled: restoreSettled is not set.
Unsettled(a) ==
  Serving(a) /\ ~(pc[a] \in {"clear", "clearing"} /\ why[a] = "settle")
             /\ pc[a] \notin {"release", "unlock"}

\* One save at a time has restoreMu, of any number that wait for it.  Before the
\* agent pauses, one that waits is as one not begun; settled, it does nothing.
SaveBegin(a) ==
  /\ save[a] = "no" /\ Unsettled(a) /\ paused[a] # "yes"
  /\ save' = [save EXCEPT ![a] = "passed"]
  /\ UNCHANGED <<record, marks, active, lock, live, pc, why, nap, stop, paused, doer, past>>

\* Under the lock, sealed and written whole; or there is no key now, or no
\* lock, and nothing is.
SaveWrite(a) ==
  /\ save[a] = "passed"
  /\ \/ /\ lock = None /\ sealed' = TRUE /\ saved' = TRUE
        /\ lock' = IF plain THEN "save" ELSE None
        /\ save' = [save EXCEPT ![a] = IF plain THEN "wrote" ELSE "no"]
     \/ save' = [save EXCEPT ![a] = "no"] /\ UNCHANGED <<lock, sealed, saved>>
  /\ UNCHANGED <<plain, marks, active, live, pc, why, nap, stop, paused, doer, ended, late, slept>>

\* It opens: what an older version left in the clear goes.
SaveDone(a) ==
  /\ save[a] = "wrote"
  /\ plain' = FALSE /\ save' = [save EXCEPT ![a] = "no"] /\ Drop
  /\ UNCHANGED <<sealed, marks, active, live, pc, why, nap, stop, paused, doer, past>>

(* Reading a plain record: readLegacyRestore *)

AfterRead(p) == Goto(p, IF p \in Agent THEN "loaded" ELSE "listed")

\* A plain record beside a sealed one is never read; alone, it is sealed on
\* the way unless the session still runs.
Read(p) ==
  IF sealed \/ Running THEN AfterRead(p) /\ plain' = (plain /\ ~sealed)
  ELSE Goto(p, "migrate") /\ UNCHANGED plain

\* Read again under the lock: it may have been sealed, or ended, meanwhile.
MigrateLock_NotReread(p) ==
  /\ pc[p] = "migrate"
  /\ \/ Take(p) /\ Goto(p, "sealing")
     \/ Held(p) /\ AfterRead(p) /\ UNCHANGED lock
  /\ UNCHANGED <<record, marks, active, live, why, agent, doer, past>>
MigrateLock(p) ==
  /\ pc[p] = "migrate"
  /\ \/ plain /\ Take(p) /\ Goto(p, "sealing")
     \/ (~plain \/ Held(p)) /\ AfterRead(p) /\ UNCHANGED lock
  /\ UNCHANGED <<record, marks, active, live, why, agent, doer, past>>

Migrate_DropsFirst(p) ==
  /\ pc[p] = "sealing"
  /\ IF plain THEN plain' = FALSE /\ UNCHANGED <<sealed, pc>>
     ELSE sealed' = TRUE /\ Goto(p, "dropping") /\ UNCHANGED plain
  /\ UNCHANGED <<marks, active, lock, live, why, agent, doer, past>>
Migrate(p) ==
  /\ pc[p] = "sealing"
  /\ sealed' = TRUE /\ Goto(p, "dropping")
  /\ UNCHANGED <<plain, marks, active, lock, live, why, agent, doer, past>>
Migrated(p) ==
  /\ pc[p] = "dropping"
  /\ plain' = FALSE /\ AfterRead(p) /\ Drop
  /\ UNCHANGED <<sealed, marks, active, live, why, agent, doer, past>>

------------------------------------------------------------------------------
(* Forgetting it: clearRestoreIf *)

\* Everything goes; who could write it again is noted: who seals it, and an
\* agent that has read it, or serves it and is not settled.
CanSave(p) ==
  \/ pc[p] = "sealing"
  \/ p \in Agent /\ pc[p] \in Loading
  \/ p \in Agent /\ Unsettled(p) /\ (save[p] # "no" \/ paused[p] # "yes")
Forget ==
  /\ sealed' = FALSE /\ plain' = FALSE /\ ClearAsleep
  /\ ended' = TRUE /\ late' = {p \in Proc : CanSave(p)} /\ UNCHANGED <<saved, slept>>

\* ClearRestore goes on without the lock when it cannot be had.
ClearLock(p) ==
  /\ pc[p] = "clear"
  /\ Goto(p, "clearing")
  /\ Take(p) \/ (Held(p) /\ UNCHANGED lock)
  /\ UNCHANGED <<record, marks, active, live, why, agent, doer, past>>

AfterClear_AllIdle(p) == IF why[p] = "terminate" THEN "unlist" ELSE "idle"
AfterClear(p) ==
  CASE why[p] = "pause"     -> "up"
    [] why[p] = "settle"    -> "release"
    [] why[p] = "terminate" -> "unlist"
    [] OTHER                -> "idle"
Clear(p) ==
  /\ pc[p] = "clearing"
  /\ Forget /\ Goto(p, AfterClear(p))
  /\ lock' = IF lock = p THEN None ELSE lock
  /\ UNCHANGED <<active, live, why, agent, child>>

------------------------------------------------------------------------------
(* An agent that restores the session: claimForRestore, LoadRestoreState *)

Open(a) ==
  /\ pc[a] = "spawned" /\ Goto(a, "claim")
  /\ \E f \in OpenFile : path' = f /\ fd' = [fd EXCEPT ![a] = f]
  /\ UNCHANGED <<record, marks, active, lock, holds, why, agent, doer, past>>
\* A fault: the file cannot be opened.
OpenFails(a) ==
  /\ pc[a] = "spawned" /\ LockFails /\ Goto(a, "claim")
  /\ UNCHANGED <<record, marks, active, lock, live, why, agent, doer, past>>

\* Its record stays, if it wrote one, and names a process that is gone.
Unnamed(a) == active' = IF active = a THEN Stale ELSE active
Exits(a) == Gone(a) /\ Unnamed(a) /\ UNCHANGED <<record, marks, lock, why, doer, past>>

\* holdLive; runningElsewhere, which tries a lock not had again; the record.
\* An agent that cannot open the file goes on without the lock.
Taken(a) == Locked(fd[a]) \/ (fd[a] = 0 /\ Locked(path))
Claim(a) ==
  /\ pc[a] = "claim"
  /\ \/ (Taken(a) \/ Running) /\ Exits(a)
     \/ /\ ~(Locked(fd[a]) \/ Running)
        /\ holds' = [holds EXCEPT ![a] = fd[a] # 0] /\ Goto(a, "load")
        /\ UNCHANGED <<record, marks, active, lock, path, fd, why, agent, doer, past>>
Load(a) ==
  /\ pc[a] = "load"
  /\ \/ ~HasRecord /\ Exits(a)
     \/ /\ HasRecord /\ Read(a)
        /\ UNCHANGED <<sealed, marks, active, lock, live, why, agent, doer, past>>

\* holdLive once more, whatever it says, and recordActive; then, reachable,
\* markAwake and the handshake.
HoldLive(a) ==
  \/ (holds[a] \/ LockFails \/ Locked(path)) /\ UNCHANGED live
  \/ /\ ~holds[a] /\ ~Locked(path)
     /\ \E f \in OpenFile : path' = f /\ fd' = [fd EXCEPT ![a] = f]
     /\ holds' = [holds EXCEPT ![a] = TRUE]
Record(a) ==
  /\ pc[a] = "loaded"
  /\ HoldLive(a) /\ active' = a /\ Goto(a, "starting")
  /\ UNCHANGED <<record, marks, lock, why, agent, doer, past>>
\* Written again and again while it shares: its viewers, its name, its folder.
Rerecord(a) ==
  /\ Serving(a) /\ paused[a] = "no" /\ active # a
  /\ active' = a
  /\ UNCHANGED <<record, marks, lock, live, pc, why, agent, doer, past>>
Handshake(a) ==
  pc' = [p \in Proc |-> IF p = a THEN "up"
                        ELSE IF p \in Doer /\ pc[p] = "wait" /\ child[p] = a THEN "told"
                        ELSE pc[p]]
Up_NotMarked(a) ==
  /\ pc[a] = "starting"
  /\ Handshake(a) /\ slept' = None
  /\ UNCHANGED <<record, marks, active, lock, live, why, agent, doer, saved, ended, late>>
Up(a) ==
  /\ pc[a] = "starting"
  /\ ClearAsleep /\ Handshake(a) /\ slept' = None
  /\ UNCHANGED <<record, active, lock, live, why, agent, child, saved, ended, late>>

------------------------------------------------------------------------------
(* An agent going: asleep (sleepNow), paused, or ended *)

Nap(a, n) == nap' = [nap EXCEPT ![a] = n]

\* Its record, just saved, reads back.
SleepBegin(a) ==
  /\ pc[a] = "up" /\ nap[a] = "no" /\ paused[a] = "no" /\ sealed
  /\ Nap(a, "mark")
  /\ UNCHANGED <<record, marks, active, lock, live, pc, why, save, stop, paused, doer, past>>
SleepMark(a) ==
  /\ nap[a] = "mark"
  /\ asleep' = TRUE /\ Nap(a, "going") /\ slept' = a
  /\ UNCHANGED <<record, waking, active, lock, live, pc, why, save, stop, paused, doer,
                 saved, ended, late>>

\* goToSleep: used meanwhile, it stays awake; else it goes, its record kept.
SleepGo(a) ==
  /\ nap[a] = "going"
  /\ \/ ClearAsleep /\ UNCHANGED <<pc, stop>>
     \/ /\ stop' = [stop EXCEPT ![a] = TRUE] /\ UNCHANGED <<marks, marked>>
        /\ IF pc[a] = "up" THEN Goto(a, "leaving") ELSE UNCHANGED pc
  /\ Nap(a, "no")
  /\ UNCHANGED <<record, active, lock, live, why, save, paused, child, past>>

\* ClearActiveIfOwn: its own record, or no live process's.
ClearOwn(a) == active' = IF active \in {a, Stale} THEN None ELSE active

Pause(a) ==
  /\ pc[a] = "up" /\ paused[a] = "no"
  /\ \E p \in {"saving", "yes"} : paused' = [paused EXCEPT ![a] = p]
  /\ ClearOwn(a)
  /\ Goto(a, "clear") /\ For(a, "pause")
  /\ UNCHANGED <<record, marks, lock, live, save, nap, stop, doer, past>>

\* Its shell exits, by itself or by a signal; or it is told to shut down.
Ends(a) ==
  /\ pc[a] \in {"starting", "up"} /\ Goto(a, "leaving")
  /\ \E s \in BOOLEAN : stop' = [stop EXCEPT ![a] = @ \/ s]
  /\ UNCHANGED <<record, marks, active, lock, live, why, save, nap, paused, doer, past>>

Leave(a) ==
  /\ pc[a] = "leaving"
  /\ ClearOwn(a) /\ Goto(a, "settling")
  /\ UNCHANGED <<record, marks, lock, live, why, agent, doer, past>>

\* settleRestore: no save from here on; one under way finishes first, the ones
\* that wait for restoreMu do nothing.
Settle_NoWait(a) ==
  /\ pc[a] = "settling"
  /\ IF stop[a] \/ Running THEN Goto(a, "release") /\ UNCHANGED why
     ELSE Goto(a, "clear") /\ For(a, "settle")
  /\ UNCHANGED <<record, marks, active, lock, live, agent, doer, past>>
Settle(a) ==
  /\ pc[a] = "settling" /\ save[a] = "no"
  /\ IF stop[a] \/ Running THEN Goto(a, "release") /\ UNCHANGED why
     ELSE Goto(a, "clear") /\ For(a, "settle")
  /\ UNCHANGED <<record, marks, active, lock, live, agent, doer, past>>

\* releaseLive: the file goes first, then the lock, and the process.
Release(a) ==
  /\ pc[a] = "release"
  /\ path' = 0 /\ Goto(a, "unlock")
  /\ UNCHANGED <<record, marks, active, lock, fd, holds, why, agent, doer, past>>
Unlock(a) == pc[a] = "unlock" /\ Exits(a)

------------------------------------------------------------------------------
(* Restoring at start (restoreAtStart), and waking (WakeSession) *)

StartBegin(d) ==
  /\ pc[d] = "idle" /\ HasRecord
  /\ For(d, "start") /\ Read(d)
  /\ UNCHANGED <<sealed, marks, active, lock, live, agent, doer, past>>
WakeBegin(d) ==
  /\ pc[d] = "idle" /\ HasRecord /\ asleep
  /\ For(d, "wake") /\ Read(d)
  /\ UNCHANGED <<sealed, marks, active, lock, live, agent, doer, past>>

SleepsOn == asleep /\ waking # "recent"
Listed(d) ==
  /\ pc[d] = "listed"
  /\ Goto(d, CASE why[d] = "wake" -> IF asleep THEN "begin" ELSE "idle"
               [] OTHER           -> IF SleepsOn THEN "idle" ELSE "probe")
  /\ UNCHANGED <<record, marks, active, lock, live, why, agent, doer, past>>

\* runningElsewhere: the live lock, held for a moment when it is free; then the
\* registry.
Found(d) == IF pc[d] = "probe" THEN "idle" ELSE "awake"
Probe(d) ==
  /\ pc[d] \in {"probe", "reprobe"}
  /\ \/ Locked(path) /\ Goto(d, Found(d)) /\ UNCHANGED live
     \/ /\ ~Locked(path)
        /\ \E f \in OpenFile : path' = f /\ fd' = [fd EXCEPT ![d] = f]
        /\ holds' = [holds EXCEPT ![d] = TRUE]
        /\ Goto(d, IF pc[d] = "probe" THEN "probing" ELSE "reprobing")
  /\ UNCHANGED <<record, marks, active, lock, why, agent, doer, past>>
Probed(d) ==
  /\ pc[d] \in {"probing", "reprobing"}
  /\ Close(d)
  /\ IF pc[d] = "probing"
     THEN /\ Goto(d, IF Running THEN "idle" ELSE IF asleep THEN "begin" ELSE "spawn")
          /\ For(d, IF asleep THEN "wake" ELSE "start")
     ELSE Goto(d, IF Running THEN "awake" ELSE "unwake") /\ UNCHANGED why
  /\ UNCHANGED <<record, marks, active, lock, path, agent, doer, past>>

Mark(d, m) == marked' = [marked EXCEPT ![d] = m]

\* BeginWake, under the lock; a wake goes on without its mark if it could not
\* have the lock.
Marks(d) ==
  IF asleep THEN waking' = "recent" /\ Mark(d, TRUE) /\ Goto(d, "spawn")
  ELSE Goto(d, "idle") /\ UNCHANGED <<waking, marked>>
BeginWake(d) ==
  /\ pc[d] = "begin"
  /\ \/ lock = None /\ Marks(d)
     \/ Held(d) /\ Goto(d, "spawn") /\ UNCHANGED <<waking, marked>>
  /\ UNCHANGED <<record, asleep, active, lock, live, why, agent, child, past>>

\* RestoreSession: a headless agent, and what it reports.
Spawn(d) ==
  /\ pc[d] = "spawn"
  /\ \E a \in Agent :
       /\ pc[a] = "off" /\ \A e \in Doer : child[e] # a
       /\ pc' = [pc EXCEPT ![a] = "spawned", ![d] = "wait"]
       /\ child' = [child EXCEPT ![d] = a]
  /\ UNCHANGED <<record, marks, active, lock, live, why, agent, marked, past>>

\* It is up; or it ended, or has not reported in time.
Reports(d) ==
  /\ pc[d] \in {"wait", "told"}
  /\ Goto(d, IF why[d] # "wake" THEN "idle" ELSE IF pc[d] = "told" THEN "awake" ELSE "reprobe")
  /\ child' = [child EXCEPT ![d] = None]
  /\ UNCHANGED <<record, marks, active, lock, live, why, agent, marked, past>>

\* ClearAsleep: it woke, or it runs.  ClearWaking: it sleeps on.
Awake(d) ==
  /\ pc[d] = "awake"
  /\ ClearAsleep /\ Goto(d, "idle")
  /\ UNCHANGED <<record, active, lock, live, why, agent, child, past>>
Unwake(d) ==
  /\ pc[d] = "unwake"
  /\ ClearWaking /\ Goto(d, "idle")
  /\ UNCHANGED <<record, asleep, active, lock, live, why, agent, child, past>>

------------------------------------------------------------------------------
(* Ending it: killLocalSession, terminateAgent, ForgetSleeper *)

\* Asked to end: SIGTERM, which keeps the record, or a quit.
Asked(d, s) ==
  /\ stop' = [stop EXCEPT ![active] = @ \/ s]
  /\ LET leaves == IF pc[active] \in {"starting", "up"} THEN {active} ELSE {}
     IN pc' = [p \in Proc |-> IF p = d THEN "asked"
                              ELSE IF p \in leaves THEN "leaving" ELSE pc[p]]

\* killLocalSession does not wait for it.  terminateAgent does, and ends it for
\* sure (Crash), or is refused: the agent may not have heard of it.
KillBegin(d) ==
  /\ pc[d] = "idle" /\ Running
  /\ For(d, "kill") /\ Asked(d, TRUE)
  /\ UNCHANGED <<record, marks, active, lock, live, save, nap, paused, doer, past>>
TerminateBegin(d) ==
  /\ pc[d] = "idle" /\ Running
  /\ For(d, "terminate")
  /\ (\E s \in BOOLEAN : Asked(d, s)) \/ (Goto(d, "asked") /\ UNCHANGED stop)
  /\ UNCHANGED <<record, marks, active, lock, live, save, nap, paused, doer, past>>

\* The record goes, the agent gone or not.
ClearNow(d) ==
  /\ pc[d] = "asked"
  /\ active' = (IF why[d] = "kill" THEN None ELSE active)
  /\ Goto(d, "clear")
  /\ UNCHANGED <<record, marks, lock, live, why, agent, doer, past>>
\* ClearActive, whoever's it is.
Unlist(d) ==
  /\ pc[d] = "unlist"
  /\ active' = None /\ Goto(d, "idle")
  /\ UNCHANGED <<record, marks, lock, live, why, agent, doer, past>>

\* ForgetAsleep: only asleep, and not while a wake is under way.
ForgetAsleep_Woken(d) ==
  /\ pc[d] = "idle" /\ asleep /\ ~Running
  /\ Take(d) /\ Goto(d, "clearing") /\ For(d, "forget")
  /\ UNCHANGED <<record, marks, active, live, agent, doer, past>>
ForgetAsleep(d) ==
  /\ pc[d] = "idle" /\ asleep /\ ~Running
  /\ waking # "recent"
  /\ Take(d) /\ Goto(d, "clearing") /\ For(d, "forget")
  /\ UNCHANGED <<record, marks, active, live, agent, doer, past>>

------------------------------------------------------------------------------
(* What happens to them *)

\* A process dies: killed, or the machine goes down.
Crash(a) ==
  /\ pc[a] # "off" /\ Gone(a) /\ Unnamed(a)
  /\ lock' = IF lock = a \/ (lock = "save" /\ save[a] = "wrote")
             THEN None ELSE lock
  /\ UNCHANGED <<record, marks, why, doer, past>>
Stops(d) ==
  /\ pc[d] # "idle" /\ Goto(d, "idle") /\ Close(d)
  /\ child' = [child EXCEPT ![d] = None] /\ Mark(d, FALSE)
  /\ lock' = IF lock = d THEN None ELSE lock
  /\ UNCHANGED <<record, marks, active, path, why, agent, past>>

\* wakeRetryWithin passes: longer than any wake is waited for.
Ages ==
  /\ waking = "recent" /\ \A d \in Doer : pc[d] = "idle"
  /\ waking' = "old"
  /\ UNCHANGED <<record, asleep, active, lock, live, pc, why, agent, doer, past>>

Saving(a) == SaveBegin(a) \/ SaveWrite(a) \/ SaveDone(a)
Restoring(a) == Open(a) \/ Claim(a) \/ Load(a) \/ Record(a) \/ Rerecord(a) \/ Up(a)
Going(a) ==
  \/ SleepMark(a) \/ SleepGo(a) \/ Ends(a) \/ Leave(a)
  \/ Settle(a) \/ Release(a) \/ Unlock(a)
Clearing(p) == ClearLock(p) \/ Clear(p)
Migrating(p) == MigrateLock(p) \/ Migrate(p) \/ Migrated(p)
Waking(d) ==
  \/ Listed(d) \/ Probe(d) \/ Probed(d)
  \/ BeginWake(d) \/ Spawn(d) \/ Reports(d) \/ Awake(d) \/ Unwake(d)
Ending(d) == ClearNow(d) \/ Unlist(d)
Begins(d) ==
  StartBegin(d) \/ WakeBegin(d) \/ KillBegin(d) \/ TerminateBegin(d) \/ ForgetAsleep(d)

Next ==
  \/ /\ \/ \E a \in Agent : Saving(a) \/ Restoring(a) \/ Going(a)
        \/ \E d \in Doer : Waking(d) \/ Ending(d)
        \/ \E p \in Proc : Migrating(p) \/ Clearing(p)
        \/ Ages
     /\ UNCHANGED bounds
  \/ /\ done < MaxDone /\ ~ended /\ done' = done + 1 /\ UNCHANGED faults
     /\ (\E d \in Doer : Begins(d)) \/ (\E a \in Agent : SleepBegin(a) \/ Pause(a))
  \/ /\ faults < MaxFaults /\ faults' = faults + 1 /\ UNCHANGED done
     /\ (\E a \in Agent : Crash(a) \/ OpenFails(a)) \/ (\E d \in Doer : Stops(d))

Spec == Init /\ [][Next]_vars

------------------------------------------------------------------------------
AgentSteps ==
  {"off", "spawned", "claim", "load", "migrate", "sealing", "dropping", "loaded",
   "starting", "up", "clear", "clearing", "leaving", "settling", "release", "unlock"}
DoerSteps ==
  {"idle", "migrate", "sealing", "dropping", "listed", "probe", "probing", "reprobe",
   "reprobing", "begin", "spawn", "wait", "told", "awake", "unwake", "asked",
   "clear", "clearing", "unlist"}

Purposes == {"none", "start", "wake", "kill", "terminate", "forget", "pause", "settle"}

FilesOK ==
  /\ sealed \in BOOLEAN /\ plain \in BOOLEAN /\ asleep \in BOOLEAN
  /\ waking \in {"no", "recent", "old"} /\ active \in Agent \cup {None, Stale}
  /\ lock \in Proc \cup {"save", None}
LiveOK ==
  path \in Files \cup {0} /\ fd \in [Proc -> Files \cup {0}] /\ holds \in [Proc -> BOOLEAN]
StepsOK ==
  /\ pc \in [Proc -> AgentSteps \cup DoerSteps] /\ why \in [Proc -> Purposes]
  /\ \A a \in Agent : pc[a] \in AgentSteps
  /\ \A d \in Doer : pc[d] \in DoerSteps
AgentsOK ==
  /\ save \in [Agent -> {"no", "passed", "wrote"}] /\ nap \in [Agent -> {"no", "mark", "going"}]
  /\ stop \in [Agent -> BOOLEAN] /\ paused \in [Agent -> {"no", "saving", "yes"}]
DoersOK == child \in [Doer -> Agent \cup {None}] /\ marked \in [Doer -> BOOLEAN]
PastOK ==
  /\ saved \in BOOLEAN /\ ended \in BOOLEAN /\ late \subseteq Proc
  /\ slept \in Agent \cup {None}
  /\ done \in 0 .. MaxDone /\ faults \in 0 .. MaxFaults
TypeOK == FilesOK /\ LiveOK /\ StepsOK /\ AgentsOK /\ DoersOK /\ PastOK

\* A session saved once has a record, until it is ended: whoever dies while it
\* is written, or sealed from an older version's.
SavedNotLost == saved /\ ~ended => HasRecord

\* A session that was ended comes back only by the write of one who could still
\* write it when it was ended: not of an agent that was settled, nor of a process
\* that had read it and not begun to seal it.
Writes(p) ==
  \/ pc[p] = "sealing" /\ pc'[p] # "sealing"
  \/ p \in Agent /\ save[p] = "passed" /\ save'[p] # "passed"
EndedStaysEnded ==
  [][ended /\ ~HasRecord /\ HasRecord' => \E p \in late : Writes(p)]_vars

\* The end of a sleeping session and a wake of it never cross: it is not
\* forgotten while the agent of a wake is waited for whose mark stands.
EndNeverCrossesWake ==
  [][\A d, e \in Doer :
       (pc[d] = "clearing" /\ why[d] = "forget" /\ pc'[d] = "idle" /\ ended')
         => ~(pc[e] = "wait" /\ marked[e])]_vars

\* A session is served by one agent at a time.
OneServes ==
  \A a, b \in Agent :
    pc[a] = "up" /\ paused[a] = "no" /\ pc[b] = "up" /\ paused[b] = "no" => a = b

\* An agent that is up is not left marked asleep from a sleep before it, nor
\* from one of its own it did not go to, whoever woke it and died meanwhile.
UpIsAwake ==
  \A a \in Agent :
    pc[a] = "up" /\ nap[a] = "no" /\ asleep => slept \notin {None, a}
==============================================================================
