-------------------------- MODULE SavedSessionsProofs --------------------------
(* What holds of SavedSessions whatever the constants: the types; that a saved  *)
(* session is not lost, an ended one is saved again only by a save it was ended *)
(* without waiting for, an agent that is up is awake, and a wake and an end of  *)
(* a sleeper never cross.                                                       *)
EXTENDS SavedSessions, TLAPS

------------------------------------------------------------------------------
(* Types *)

\* What a record is cleared for says what its process does next.
ClearsFor ==
  /\ \A a \in Agent : pc[a] \in {"clear", "clearing"} => why[a] \in {"pause", "settle"}
  /\ \A d \in Doer :
       /\ pc[d] \in {"asked", "clear"} => why[d] \in {"kill", "terminate"}
       /\ pc[d] = "clearing" => why[d] \in {"kill", "terminate", "forget"}
TypeInv == TypeOK /\ ClearsFor

\* A session starts with its agent up, or with nobody.
LEMMA InitSteps ==
  ASSUME SessionConstants, Init
  PROVE  /\ pc \in [Proc -> {"up", "off", "idle"}]
         /\ \A a \in Agent : pc[a] \in {"up", "off"}
         /\ \A d \in Doer : pc[d] = "idle"
<1> USE DEF Proc, SessionConstants
<1> DEFINE P == /\ pc \in [Proc -> {"up", "off", "idle"}]
                /\ \A a \in Agent : pc[a] \in {"up", "off"}
                /\ \A d \in Doer : pc[d] = "idle"
<1>1. ASSUME NEW a \in Agent, Fresh(a) PROVE P
  BY <1>1 DEF Fresh
<1>2. CASE Older
  BY <1>2 DEF Older
<1> QED BY <1>1, <1>2 DEF Init

LEMMA InitTypes == ASSUME SessionConstants, Init PROVE TypeInv
<1>1. AgentsOK /\ DoersOK
  BY DEF Init, AgentsOK, DoersOK
<1>2. PastOK /\ why \in [Proc -> Purposes]
  <2>1. plain \in BOOLEAN
    BY DEF Init, Fresh, Older
  <2>2. 0 \in 0 .. MaxDone /\ 0 \in 0 .. MaxFaults
    BY DEF SessionConstants
  <2>3. PastOK
    BY <2>1, <2>2 DEF Init, PastOK
  <2> QED BY <2>3 DEF Init, Purposes
<1>3. FilesOK
  BY DEF Init, Fresh, Older, FilesOK, Proc
<1>4. LiveOK
  <2>1. ASSUME NEW a \in Agent, Fresh(a) PROVE LiveOK
    <3>1. 1 \in Files
      BY DEF SessionConstants
    <3> QED BY <2>1, <3>1 DEF Fresh, LiveOK
  <2>2. CASE Older
    BY <2>2 DEF Older, LiveOK
  <2> QED BY <2>1, <2>2 DEF Init
<1>5. StepsOK /\ ClearsFor
  BY <1>2, InitSteps DEF StepsOK, ClearsFor, AgentSteps, DoerSteps
<1> QED BY <1>1, <1>2, <1>3, <1>4, <1>5 DEF TypeInv, TypeOK

\* An agent that is gone has nothing open and nothing under way.
LEMMA GoneTypes ==
  ASSUME SessionConstants, TypeInv, NEW a \in Agent, Gone(a), why' = why
  PROVE  LiveOK' /\ StepsOK' /\ AgentsOK' /\ ClearsFor'
<1> USE DEF TypeInv, TypeOK, Gone, Goto, SessionConstants, Proc
<1>1. LiveOK' BY DEF Close, LiveOK
<1>2. AgentsOK' BY DEF AgentsOK
<1>3. StepsOK' BY DEF StepsOK, AgentSteps
<1>4. ClearsFor' BY DEF StepsOK, ClearsFor
<1> QED BY <1>1, <1>2, <1>3, <1>4

LEMMA ExitsTypes ==
  ASSUME SessionConstants, TypeInv, NEW a \in Agent, Exits(a), UNCHANGED bounds
  PROVE  TypeInv'
<1>1. LiveOK' /\ StepsOK' /\ AgentsOK' /\ ClearsFor'
  BY GoneTypes DEF Exits
<1>2. FilesOK' /\ DoersOK' /\ PastOK'
  BY DEF Exits, Unnamed, TypeInv, TypeOK, FilesOK, DoersOK, PastOK, record, marks, doer, past, bounds
<1> QED BY <1>1, <1>2 DEF TypeInv, TypeOK

\* Whatever a step does, the bounds hold.
LEMMA BoundsOK ==
  ASSUME SessionConstants, TypeInv, Next
  PROVE  done' \in 0 .. MaxDone /\ faults' \in 0 .. MaxFaults
  BY DEF Next, SessionConstants, TypeInv, TypeOK, PastOK, bounds

LEMMA TypesStep == ASSUME SessionConstants, TypeInv, Next PROVE TypeInv'
<1> USE DEF TypeInv, TypeOK, record, marks, live, agent, doer, past, Goto,
      For, Proc
<1>0. done' \in 0 .. MaxDone /\ faults' \in 0 .. MaxFaults
  BY BoundsOK
<1>1. ASSUME NEW a \in Agent, SaveBegin(a), UNCHANGED bounds PROVE TypeInv'
  <2>1. ClearsFor'
    BY <1>0, <1>1 DEF SaveBegin, Unsettled, Serving, Loading,
        ClearsFor, StepsOK
  <2>2. FilesOK'
    BY <1>0, <1>1 DEF SaveBegin, Unsettled, Serving, Loading,
        FilesOK
  <2>3. LiveOK'
    BY <1>0, <1>1 DEF SaveBegin, Unsettled, Serving, Loading,
        LiveOK
  <2>4. StepsOK'
    BY <1>0, <1>1 DEF SaveBegin, Unsettled, Serving, Loading,
        ClearsFor, StepsOK, AgentSteps, DoerSteps, Purposes
  <2>5. AgentsOK'
    BY <1>0, <1>1 DEF SaveBegin, Unsettled, Serving, Loading,
        AgentsOK
  <2>6. DoersOK'
    BY <1>0, <1>1 DEF SaveBegin, Unsettled, Serving, Loading,
        DoersOK
  <2>7. PastOK'
    BY <1>0, <1>1 DEF SaveBegin, Unsettled, Serving, Loading,
        PastOK
  <2> QED BY <2>1, <2>2, <2>3, <2>4, <2>5, <2>6, <2>7
<1>2. ASSUME NEW a \in Agent, SaveWrite(a), UNCHANGED bounds PROVE TypeInv'
  <2>1. ClearsFor'
    BY <1>0, <1>2 DEF SaveWrite, ClearsFor, StepsOK
  <2>2. FilesOK'
    BY <1>0, <1>2 DEF SaveWrite, FilesOK
  <2>3. LiveOK'
    BY <1>0, <1>2 DEF SaveWrite, LiveOK
  <2>4. StepsOK'
    BY <1>0, <1>2 DEF SaveWrite, ClearsFor, StepsOK,
        AgentSteps, DoerSteps, Purposes
  <2>5. AgentsOK'
    BY <1>0, <1>2 DEF SaveWrite, AgentsOK
  <2>6. DoersOK'
    BY <1>0, <1>2 DEF SaveWrite, DoersOK
  <2>7. PastOK'
    BY <1>0, <1>2 DEF SaveWrite, PastOK
  <2> QED BY <2>1, <2>2, <2>3, <2>4, <2>5, <2>6, <2>7
<1>3. ASSUME NEW a \in Agent, SaveDone(a), UNCHANGED bounds PROVE TypeInv'
  BY <1>0, <1>3 DEF SaveDone, Drop, ClearsFor, FilesOK, LiveOK, StepsOK,
        AgentsOK, DoersOK, PastOK, AgentSteps, DoerSteps, Purposes
<1>4. ASSUME NEW a \in Agent, Open(a), UNCHANGED bounds PROVE TypeInv'
  BY <1>0, <1>4 DEF Open, OpenFile, NewFile, ClearsFor, FilesOK, LiveOK,
        StepsOK, AgentsOK, DoersOK, PastOK, AgentSteps, DoerSteps, Purposes
<1>5. ASSUME NEW a \in Agent, Claim(a), UNCHANGED bounds PROVE TypeInv'
  <2>1. CASE Exits(a)
    BY <1>5, <2>1, ExitsTypes
  <2>2. CASE ~Exits(a)
    <3>1. ClearsFor'
      BY <1>0, <1>5, <2>2 DEF Claim, Taken, Locked, Running,
          ClearsFor, StepsOK
    <3>2. FilesOK'
      BY <1>0, <1>5, <2>2 DEF Claim, Taken, Locked, Running,
          FilesOK
    <3>3. LiveOK'
      BY <1>0, <1>5, <2>2 DEF Claim, Taken, Locked, Running, LiveOK
    <3>4. StepsOK'
      BY <1>0, <1>5, <2>2 DEF Claim, Taken, Locked, Running,
          ClearsFor, StepsOK, AgentSteps, DoerSteps, Purposes
    <3>5. AgentsOK'
      BY <1>0, <1>5, <2>2 DEF Claim, Taken, Locked, Running,
          AgentsOK
    <3>6. DoersOK'
      BY <1>0, <1>5, <2>2 DEF Claim, Taken, Locked, Running,
          DoersOK
    <3>7. PastOK'
      BY <1>0, <1>5, <2>2 DEF Claim, Taken, Locked, Running, PastOK
    <3> QED BY <3>1, <3>2, <3>3, <3>4, <3>5, <3>6, <3>7
  <2> QED BY <2>1, <2>2
<1>6. ASSUME NEW a \in Agent, Load(a), UNCHANGED bounds PROVE TypeInv'
  <2>1. CASE Exits(a)
    BY <1>6, <2>1, ExitsTypes
  <2>2. CASE ~Exits(a)
    <3>1. ClearsFor'
      BY <1>0, <1>6, <2>2 DEF Load, HasRecord, Read,
          Running, AfterRead, ClearsFor, StepsOK
    <3>2. FilesOK'
      BY <1>0, <1>6, <2>2 DEF Load, HasRecord, Read,
          Running, AfterRead, FilesOK
    <3>3. LiveOK'
      BY <1>0, <1>6, <2>2 DEF Load, HasRecord, Read,
          Running, AfterRead, LiveOK
    <3>4. StepsOK'
      BY <1>0, <1>6, <2>2 DEF Load, HasRecord, Read,
          Running, AfterRead, ClearsFor, StepsOK, AgentSteps, DoerSteps,
          Purposes
    <3>5. AgentsOK'
      BY <1>0, <1>6, <2>2 DEF Load, HasRecord, Read,
          Running, AfterRead, AgentsOK
    <3>6. DoersOK'
      BY <1>0, <1>6, <2>2 DEF Load, HasRecord, Read,
          Running, AfterRead, DoersOK
    <3>7. PastOK'
      BY <1>0, <1>6, <2>2 DEF Load, HasRecord, Read,
          Running, AfterRead, PastOK
    <3> QED BY <3>1, <3>2, <3>3, <3>4, <3>5, <3>6, <3>7
  <2> QED BY <2>1, <2>2
<1>7. ASSUME NEW a \in Agent, Record(a), UNCHANGED bounds PROVE TypeInv'
  <2>1. LiveOK'
    <3>1. CASE UNCHANGED live
      BY <3>1 DEF LiveOK
    <3>2. CASE holds' = [holds EXCEPT ![a] = TRUE]
      BY <1>7, <3>1, <3>2 DEF Record, HoldLive, OpenFile, NewFile, LiveOK
    <3> QED BY <1>7, <3>1, <3>2 DEF Record, HoldLive
  <2>2. StepsOK' /\ ClearsFor'
    BY <1>7 DEF Record, ClearsFor, StepsOK, AgentSteps, DoerSteps, Purposes
  <2>3. FilesOK' /\ AgentsOK' /\ DoersOK' /\ PastOK'
    BY <1>0, <1>7 DEF Record, FilesOK, AgentsOK, DoersOK, PastOK
  <2> QED BY <2>1, <2>2, <2>3
<1>8. ASSUME NEW a \in Agent, Up(a), UNCHANGED bounds PROVE TypeInv'
  <2>1. ClearsFor'
    BY <1>0, <1>8 DEF Up, ClearAsleep, ClearWaking,
        Handshake, ClearsFor, StepsOK
  <2>2. FilesOK'
    BY <1>0, <1>8 DEF Up, ClearAsleep, ClearWaking,
        Handshake, FilesOK
  <2>3. LiveOK'
    BY <1>0, <1>8 DEF Up, ClearAsleep, ClearWaking, Handshake,
        LiveOK
  <2>4. StepsOK'
    BY <1>0, <1>8 DEF Up, ClearAsleep, ClearWaking,
        Handshake, ClearsFor, StepsOK, AgentSteps, DoerSteps, Purposes
  <2>5. AgentsOK'
    BY <1>0, <1>8 DEF Up, ClearAsleep, ClearWaking,
        Handshake, AgentsOK
  <2>6. DoersOK'
    BY <1>0, <1>8 DEF Up, ClearAsleep, ClearWaking,
        Handshake, DoersOK
  <2>7. PastOK'
    BY <1>0, <1>8 DEF Up, ClearAsleep, ClearWaking, Handshake,
        PastOK
  <2> QED BY <2>1, <2>2, <2>3, <2>4, <2>5, <2>6, <2>7
<1>9. ASSUME NEW a \in Agent, SleepMark(a), UNCHANGED bounds PROVE TypeInv'
  <2>1. ClearsFor'
    BY <1>0, <1>9 DEF SleepMark, Nap, ClearsFor, StepsOK
  <2>2. FilesOK'
    BY <1>0, <1>9 DEF SleepMark, Nap, FilesOK
  <2>3. LiveOK'
    BY <1>0, <1>9 DEF SleepMark, Nap, LiveOK
  <2>4. StepsOK'
    BY <1>0, <1>9 DEF SleepMark, Nap, ClearsFor, StepsOK,
        AgentSteps, DoerSteps, Purposes
  <2>5. AgentsOK'
    BY <1>0, <1>9 DEF SleepMark, Nap, AgentsOK
  <2>6. DoersOK'
    BY <1>0, <1>9 DEF SleepMark, Nap, DoersOK
  <2>7. PastOK'
    BY <1>0, <1>9 DEF SleepMark, Nap, PastOK
  <2> QED BY <2>1, <2>2, <2>3, <2>4, <2>5, <2>6, <2>7
<1>10. ASSUME NEW a \in Agent, SleepGo(a), UNCHANGED bounds PROVE TypeInv'
  <2>1. ClearsFor'
    BY <1>0, <1>10 DEF SleepGo, ClearAsleep, ClearWaking,
        Nap, ClearsFor, StepsOK
  <2>2. FilesOK'
    BY <1>0, <1>10 DEF SleepGo, ClearAsleep, ClearWaking,
        Nap, FilesOK
  <2>3. LiveOK'
    BY <1>0, <1>10 DEF SleepGo, ClearAsleep, ClearWaking, Nap,
        LiveOK
  <2>4. StepsOK'
    BY <1>0, <1>10 DEF SleepGo, ClearAsleep, ClearWaking,
        Nap, ClearsFor, StepsOK, AgentSteps, DoerSteps, Purposes
  <2>5. AgentsOK'
    BY <1>0, <1>10 DEF SleepGo, ClearAsleep, ClearWaking,
        Nap, AgentsOK
  <2>6. DoersOK'
    BY <1>0, <1>10 DEF SleepGo, ClearAsleep, ClearWaking,
        Nap, DoersOK
  <2>7. PastOK'
    BY <1>0, <1>10 DEF SleepGo, ClearAsleep, ClearWaking, Nap,
        PastOK
  <2> QED BY <2>1, <2>2, <2>3, <2>4, <2>5, <2>6, <2>7
<1>11. ASSUME NEW a \in Agent, Ends(a), UNCHANGED bounds PROVE TypeInv'
  <2>1. ClearsFor'
    BY <1>0, <1>11 DEF Ends, ClearsFor, StepsOK
  <2>2. FilesOK'
    BY <1>0, <1>11 DEF Ends, FilesOK
  <2>3. LiveOK'
    BY <1>0, <1>11 DEF Ends, LiveOK
  <2>4. StepsOK'
    BY <1>0, <1>11 DEF Ends, ClearsFor, StepsOK, AgentSteps,
        DoerSteps, Purposes
  <2>5. AgentsOK'
    BY <1>0, <1>11 DEF Ends, AgentsOK
  <2>6. DoersOK'
    BY <1>0, <1>11 DEF Ends, DoersOK
  <2>7. PastOK'
    BY <1>0, <1>11 DEF Ends, PastOK
  <2> QED BY <2>1, <2>2, <2>3, <2>4, <2>5, <2>6, <2>7
<1>12. ASSUME NEW a \in Agent, Leave(a), UNCHANGED bounds PROVE TypeInv'
  BY <1>0, <1>12 DEF Leave, ClearOwn, ClearsFor, FilesOK, LiveOK, StepsOK,
        AgentsOK, DoersOK, PastOK, AgentSteps, DoerSteps, Purposes
<1>13. ASSUME NEW a \in Agent, Settle(a), UNCHANGED bounds PROVE TypeInv'
  <2>1. ClearsFor'
    BY <1>0, <1>13 DEF Settle, Running, ClearsFor, StepsOK
  <2>2. FilesOK'
    BY <1>0, <1>13 DEF Settle, Running, FilesOK
  <2>3. LiveOK'
    BY <1>0, <1>13 DEF Settle, Running, LiveOK
  <2>4. StepsOK'
    BY <1>0, <1>13 DEF Settle, Running, ClearsFor, StepsOK,
        AgentSteps, DoerSteps, Purposes
  <2>5. AgentsOK'
    BY <1>0, <1>13 DEF Settle, Running, AgentsOK
  <2>6. DoersOK'
    BY <1>0, <1>13 DEF Settle, Running, DoersOK
  <2>7. PastOK'
    BY <1>0, <1>13 DEF Settle, Running, PastOK
  <2> QED BY <2>1, <2>2, <2>3, <2>4, <2>5, <2>6, <2>7
<1>14. ASSUME NEW a \in Agent, Release(a), UNCHANGED bounds PROVE TypeInv'
  BY <1>0, <1>14 DEF Release, ClearsFor, FilesOK, LiveOK, StepsOK, AgentsOK,
        DoersOK, PastOK, AgentSteps, DoerSteps, Purposes
<1>15. ASSUME NEW a \in Agent, Unlock(a), UNCHANGED bounds PROVE TypeInv'
  BY <1>15, ExitsTypes DEF Unlock
<1>16. ASSUME NEW a \in Agent, SleepBegin(a) PROVE TypeInv'
  BY <1>0, <1>16 DEF SleepBegin, Nap, ClearsFor, FilesOK, LiveOK, StepsOK,
        AgentsOK, DoersOK, PastOK, AgentSteps, DoerSteps, Purposes
<1>17. ASSUME NEW a \in Agent, Pause(a) PROVE TypeInv'
  BY <1>0, <1>17 DEF Pause, ClearOwn, ClearsFor, FilesOK, LiveOK, StepsOK,
        AgentsOK, DoersOK, PastOK, AgentSteps, DoerSteps, Purposes
<1>18. ASSUME NEW a \in Agent, Crash(a) PROVE TypeInv'
  <2>1. LiveOK' /\ StepsOK' /\ AgentsOK' /\ ClearsFor'
    BY <1>18, GoneTypes DEF Crash
  <2>2. FilesOK' /\ DoersOK' /\ PastOK'
    BY <1>0, <1>18 DEF Crash, Unnamed, FilesOK, DoersOK, PastOK
  <2> QED BY <2>1, <2>2
<1>19. ASSUME NEW d \in Doer, Listed(d), UNCHANGED bounds PROVE TypeInv'
  BY <1>0, <1>19 DEF Listed, SleepsOn, ClearsFor, FilesOK, LiveOK, StepsOK,
        AgentsOK, DoersOK, PastOK, AgentSteps, DoerSteps, Purposes
<1>20. ASSUME NEW d \in Doer, Probe(d), UNCHANGED bounds PROVE TypeInv'
  <2>1. ClearsFor'
    <3>1. PICK s \in {"idle", "awake", "probing", "reprobing"} : pc' = [pc EXCEPT ![d] = s]
      BY <1>20 DEF Probe, Found
    <3> QED BY <1>20, <3>1 DEF Probe, StepsOK, ClearsFor, AgentSteps, DoerSteps, SessionConstants
  <2>2. FilesOK'
    BY <1>0, <1>20 DEF Probe, Locked, Found, OpenFile,
        NewFile, FilesOK
  <2>3. LiveOK'
    <3>1. CASE UNCHANGED live
      BY <3>1 DEF LiveOK
    <3>2. CASE holds' = [holds EXCEPT ![d] = TRUE]
      BY <1>20, <3>1, <3>2 DEF Probe, OpenFile, NewFile, LiveOK
    <3> QED BY <1>20, <3>1, <3>2 DEF Probe
  <2>4. StepsOK'
    <3>1. PICK s \in {"idle", "awake", "probing", "reprobing"} : pc' = [pc EXCEPT ![d] = s]
      BY <1>20 DEF Probe, Found
    <3> QED BY <1>20, <3>1 DEF Probe, StepsOK, ClearsFor, AgentSteps, DoerSteps, SessionConstants
  <2>5. AgentsOK'
    BY <1>0, <1>20 DEF Probe, Locked, Found, OpenFile,
        NewFile, AgentsOK
  <2>6. DoersOK'
    BY <1>0, <1>20 DEF Probe, Locked, Found, OpenFile,
        NewFile, DoersOK
  <2>7. PastOK'
    BY <1>0, <1>20 DEF Probe, Locked, Found, OpenFile,
        NewFile, PastOK
  <2> QED BY <2>1, <2>2, <2>3, <2>4, <2>5, <2>6, <2>7
<1>21. ASSUME NEW d \in Doer, Probed(d), UNCHANGED bounds PROVE TypeInv'
  <2>1. ClearsFor'
    BY <1>0, <1>21 DEF Probed, Close, Running, ClearsFor,
        StepsOK
  <2>2. FilesOK'
    BY <1>0, <1>21 DEF Probed, Close, Running, FilesOK
  <2>3. LiveOK'
    BY <1>0, <1>21 DEF Probed, Close, Running, LiveOK
  <2>4. StepsOK'
    BY <1>0, <1>21 DEF Probed, Close, Running, ClearsFor,
        StepsOK, AgentSteps, DoerSteps, Purposes
  <2>5. AgentsOK'
    BY <1>0, <1>21 DEF Probed, Close, Running, AgentsOK
  <2>6. DoersOK'
    BY <1>0, <1>21 DEF Probed, Close, Running, DoersOK
  <2>7. PastOK'
    BY <1>0, <1>21 DEF Probed, Close, Running, PastOK
  <2> QED BY <2>1, <2>2, <2>3, <2>4, <2>5, <2>6, <2>7
<1>22. ASSUME NEW d \in Doer, BeginWake(d), UNCHANGED bounds PROVE TypeInv'
  <2>1. ClearsFor'
    BY <1>0, <1>22 DEF BeginWake, Marks, Mark, Held,
        ClearsFor, StepsOK
  <2>2. FilesOK'
    BY <1>0, <1>22 DEF BeginWake, Marks, Mark, Held, FilesOK
  <2>3. LiveOK'
    BY <1>0, <1>22 DEF BeginWake, Marks, Mark, Held, LiveOK
  <2>4. StepsOK'
    BY <1>0, <1>22 DEF BeginWake, Marks, Mark, Held,
        ClearsFor, StepsOK, AgentSteps, DoerSteps, Purposes
  <2>5. AgentsOK'
    BY <1>0, <1>22 DEF BeginWake, Marks, Mark, Held,
        AgentsOK
  <2>6. DoersOK'
    BY <1>0, <1>22 DEF BeginWake, Marks, Mark, Held, DoersOK
  <2>7. PastOK'
    BY <1>0, <1>22 DEF BeginWake, Marks, Mark, Held, PastOK
  <2> QED BY <2>1, <2>2, <2>3, <2>4, <2>5, <2>6, <2>7
<1>23. ASSUME NEW d \in Doer, Spawn(d), UNCHANGED bounds PROVE TypeInv'
  <2>1. ClearsFor'
    BY <1>0, <1>23 DEF Spawn, ClearsFor, StepsOK
  <2>2. FilesOK'
    BY <1>0, <1>23 DEF Spawn, FilesOK
  <2>3. LiveOK'
    BY <1>0, <1>23 DEF Spawn, LiveOK
  <2>4. StepsOK'
    BY <1>0, <1>23 DEF Spawn, ClearsFor, StepsOK, AgentSteps,
        DoerSteps, Purposes
  <2>5. AgentsOK'
    BY <1>0, <1>23 DEF Spawn, AgentsOK
  <2>6. DoersOK'
    BY <1>0, <1>23 DEF Spawn, DoersOK
  <2>7. PastOK'
    BY <1>0, <1>23 DEF Spawn, PastOK
  <2> QED BY <2>1, <2>2, <2>3, <2>4, <2>5, <2>6, <2>7
<1>24. ASSUME NEW d \in Doer, Reports(d), UNCHANGED bounds PROVE TypeInv'
  BY <1>0, <1>24 DEF Reports, ClearsFor, FilesOK, LiveOK, StepsOK, AgentsOK,
        DoersOK, PastOK, AgentSteps, DoerSteps, Purposes
<1>25. ASSUME NEW d \in Doer, Awake(d), UNCHANGED bounds PROVE TypeInv'
  <2>1. ClearsFor'
    BY <1>0, <1>25 DEF Awake, ClearAsleep, ClearWaking,
        ClearsFor, StepsOK
  <2>2. FilesOK'
    BY <1>0, <1>25 DEF Awake, ClearAsleep, ClearWaking,
        FilesOK
  <2>3. LiveOK'
    BY <1>0, <1>25 DEF Awake, ClearAsleep, ClearWaking, LiveOK
  <2>4. StepsOK'
    BY <1>0, <1>25 DEF Awake, ClearAsleep, ClearWaking,
        ClearsFor, StepsOK, AgentSteps, DoerSteps, Purposes
  <2>5. AgentsOK'
    BY <1>0, <1>25 DEF Awake, ClearAsleep, ClearWaking,
        AgentsOK
  <2>6. DoersOK'
    BY <1>0, <1>25 DEF Awake, ClearAsleep, ClearWaking,
        DoersOK
  <2>7. PastOK'
    BY <1>0, <1>25 DEF Awake, ClearAsleep, ClearWaking, PastOK
  <2> QED BY <2>1, <2>2, <2>3, <2>4, <2>5, <2>6, <2>7
<1>26. ASSUME NEW d \in Doer, Unwake(d), UNCHANGED bounds PROVE TypeInv'
  <2>1. ClearsFor'
    BY <1>0, <1>26 DEF Unwake, ClearWaking, ClearsFor,
        StepsOK
  <2>2. FilesOK'
    BY <1>0, <1>26 DEF Unwake, ClearWaking, FilesOK
  <2>3. LiveOK'
    BY <1>0, <1>26 DEF Unwake, ClearWaking, LiveOK
  <2>4. StepsOK'
    BY <1>0, <1>26 DEF Unwake, ClearWaking, ClearsFor,
        StepsOK, AgentSteps, DoerSteps, Purposes
  <2>5. AgentsOK'
    BY <1>0, <1>26 DEF Unwake, ClearWaking, AgentsOK
  <2>6. DoersOK'
    BY <1>0, <1>26 DEF Unwake, ClearWaking, DoersOK
  <2>7. PastOK'
    BY <1>0, <1>26 DEF Unwake, ClearWaking, PastOK
  <2> QED BY <2>1, <2>2, <2>3, <2>4, <2>5, <2>6, <2>7
<1>27. ASSUME NEW d \in Doer, ClearNow(d), UNCHANGED bounds PROVE TypeInv'
  <2>1. ClearsFor'
    BY <1>0, <1>27 DEF ClearNow, ClearsFor, StepsOK
  <2>2. FilesOK'
    BY <1>0, <1>27 DEF ClearNow, FilesOK
  <2>3. LiveOK'
    BY <1>0, <1>27 DEF ClearNow, LiveOK
  <2>4. StepsOK'
    BY <1>0, <1>27 DEF ClearNow, ClearsFor, StepsOK,
        AgentSteps, DoerSteps, Purposes
  <2>5. AgentsOK'
    BY <1>0, <1>27 DEF ClearNow, AgentsOK
  <2>6. DoersOK'
    BY <1>0, <1>27 DEF ClearNow, DoersOK
  <2>7. PastOK'
    BY <1>0, <1>27 DEF ClearNow, PastOK
  <2> QED BY <2>1, <2>2, <2>3, <2>4, <2>5, <2>6, <2>7
<1>28. ASSUME NEW d \in Doer, Unlist(d), UNCHANGED bounds PROVE TypeInv'
  <2>1. ClearsFor'
    BY <1>0, <1>28 DEF Unlist, ClearsFor, StepsOK
  <2>2. FilesOK'
    BY <1>0, <1>28 DEF Unlist, FilesOK
  <2>3. LiveOK'
    BY <1>0, <1>28 DEF Unlist, LiveOK
  <2>4. StepsOK'
    BY <1>0, <1>28 DEF Unlist, ClearsFor, StepsOK,
        AgentSteps, DoerSteps, Purposes
  <2>5. AgentsOK'
    BY <1>0, <1>28 DEF Unlist, AgentsOK
  <2>6. DoersOK'
    BY <1>0, <1>28 DEF Unlist, DoersOK
  <2>7. PastOK'
    BY <1>0, <1>28 DEF Unlist, PastOK
  <2> QED BY <2>1, <2>2, <2>3, <2>4, <2>5, <2>6, <2>7
<1>29. ASSUME NEW d \in Doer, StartBegin(d) PROVE TypeInv'
  <2>1. ClearsFor'
    BY <1>0, <1>29 DEF StartBegin, HasRecord, Read,
        Running, AfterRead, ClearsFor, StepsOK
  <2>2. FilesOK'
    BY <1>0, <1>29 DEF StartBegin, HasRecord, Read, Running,
        AfterRead, FilesOK
  <2>3. LiveOK'
    BY <1>0, <1>29 DEF StartBegin, HasRecord, Read, Running,
        AfterRead, LiveOK
  <2>4. StepsOK'
    BY <1>0, <1>29 DEF StartBegin, HasRecord, Read, Running,
        AfterRead, ClearsFor, StepsOK, AgentSteps, DoerSteps, Purposes
  <2>5. AgentsOK'
    BY <1>0, <1>29 DEF StartBegin, HasRecord, Read, Running,
        AfterRead, AgentsOK
  <2>6. DoersOK'
    BY <1>0, <1>29 DEF StartBegin, HasRecord, Read, Running,
        AfterRead, DoersOK
  <2>7. PastOK'
    BY <1>0, <1>29 DEF StartBegin, HasRecord, Read, Running,
        AfterRead, PastOK
  <2> QED BY <2>1, <2>2, <2>3, <2>4, <2>5, <2>6, <2>7
<1>30. ASSUME NEW d \in Doer, WakeBegin(d) PROVE TypeInv'
  <2>1. ClearsFor'
    BY <1>0, <1>30 DEF WakeBegin, HasRecord, Read, Running,
        AfterRead, ClearsFor, StepsOK
  <2>2. FilesOK'
    BY <1>0, <1>30 DEF WakeBegin, HasRecord, Read, Running,
        AfterRead, FilesOK
  <2>3. LiveOK'
    BY <1>0, <1>30 DEF WakeBegin, HasRecord, Read, Running,
        AfterRead, LiveOK
  <2>4. StepsOK'
    BY <1>0, <1>30 DEF WakeBegin, HasRecord, Read, Running,
        AfterRead, ClearsFor, StepsOK, AgentSteps, DoerSteps, Purposes
  <2>5. AgentsOK'
    BY <1>0, <1>30 DEF WakeBegin, HasRecord, Read, Running,
        AfterRead, AgentsOK
  <2>6. DoersOK'
    BY <1>0, <1>30 DEF WakeBegin, HasRecord, Read, Running,
        AfterRead, DoersOK
  <2>7. PastOK'
    BY <1>0, <1>30 DEF WakeBegin, HasRecord, Read, Running,
        AfterRead, PastOK
  <2> QED BY <2>1, <2>2, <2>3, <2>4, <2>5, <2>6, <2>7
<1>31. ASSUME NEW d \in Doer, KillBegin(d) PROVE TypeInv'
  <2>1. ClearsFor'
    BY <1>0, <1>31 DEF KillBegin, Running, Asked,
        ClearsFor, StepsOK
  <2>2. FilesOK'
    BY <1>0, <1>31 DEF KillBegin, Running, Asked, FilesOK
  <2>3. LiveOK'
    BY <1>0, <1>31 DEF KillBegin, Running, Asked, LiveOK
  <2>4. StepsOK'
    BY <1>0, <1>31 DEF KillBegin, Running, Asked, ClearsFor,
        StepsOK, AgentSteps, DoerSteps, Purposes
  <2>5. AgentsOK'
    BY <1>0, <1>31 DEF KillBegin, Running, Asked, AgentsOK
  <2>6. DoersOK'
    BY <1>0, <1>31 DEF KillBegin, Running, Asked, DoersOK
  <2>7. PastOK'
    BY <1>0, <1>31 DEF KillBegin, Running, Asked, PastOK
  <2> QED BY <2>1, <2>2, <2>3, <2>4, <2>5, <2>6, <2>7
<1>32. ASSUME NEW d \in Doer, TerminateBegin(d) PROVE TypeInv'
  <2>1. ClearsFor'
    BY <1>0, <1>32 DEF TerminateBegin, Running, Asked,
        ClearsFor, StepsOK
  <2>2. FilesOK'
    BY <1>0, <1>32 DEF TerminateBegin, Running, Asked,
        FilesOK
  <2>3. LiveOK'
    BY <1>0, <1>32 DEF TerminateBegin, Running, Asked, LiveOK
  <2>4. StepsOK'
    BY <1>0, <1>32 DEF TerminateBegin, Running, Asked,
        ClearsFor, StepsOK, AgentSteps, DoerSteps, Purposes
  <2>5. AgentsOK'
    BY <1>0, <1>32 DEF TerminateBegin, Running, Asked,
        AgentsOK
  <2>6. DoersOK'
    BY <1>0, <1>32 DEF TerminateBegin, Running, Asked,
        DoersOK
  <2>7. PastOK'
    BY <1>0, <1>32 DEF TerminateBegin, Running, Asked, PastOK
  <2> QED BY <2>1, <2>2, <2>3, <2>4, <2>5, <2>6, <2>7
<1>33. ASSUME NEW d \in Doer, ForgetAsleep(d) PROVE TypeInv'
  BY <1>0, <1>33 DEF ForgetAsleep, Running, Take, ClearsFor, FilesOK, LiveOK,
        StepsOK, AgentsOK, DoersOK, PastOK, AgentSteps, DoerSteps, Purposes
<1>34. ASSUME NEW d \in Doer, Stops(d) PROVE TypeInv'
  <2>1. ClearsFor'
    BY <1>0, <1>34 DEF Stops, Close, Mark, ClearsFor,
        StepsOK
  <2>2. FilesOK'
    BY <1>0, <1>34 DEF Stops, Close, Mark, FilesOK
  <2>3. LiveOK'
    BY <1>0, <1>34 DEF Stops, Close, Mark, LiveOK
  <2>4. StepsOK'
    BY <1>0, <1>34 DEF Stops, Close, Mark, ClearsFor,
        StepsOK, AgentSteps, DoerSteps, Purposes
  <2>5. AgentsOK'
    BY <1>0, <1>34 DEF Stops, Close, Mark, AgentsOK
  <2>6. DoersOK'
    BY <1>0, <1>34 DEF Stops, Close, Mark, DoersOK
  <2>7. PastOK'
    BY <1>0, <1>34 DEF Stops, Close, Mark, PastOK
  <2> QED BY <2>1, <2>2, <2>3, <2>4, <2>5, <2>6, <2>7
<1>35. ASSUME NEW p \in Proc, MigrateLock(p), UNCHANGED bounds PROVE TypeInv'
  BY <1>0, <1>35 DEF MigrateLock, Take, Held, AfterRead, ClearsFor, FilesOK,
        LiveOK, StepsOK, AgentsOK, DoersOK, PastOK, AgentSteps, DoerSteps,
        Purposes
<1>36. ASSUME NEW p \in Proc, Migrate(p), UNCHANGED bounds PROVE TypeInv'
  BY <1>0, <1>36 DEF Migrate, ClearsFor, FilesOK, LiveOK, StepsOK, AgentsOK,
        DoersOK, PastOK, AgentSteps, DoerSteps, Purposes
<1>37. ASSUME NEW p \in Proc, Migrated(p), UNCHANGED bounds PROVE TypeInv'
  <2>1. ClearsFor'
    BY <1>0, <1>37 DEF Migrated, AfterRead, Drop,
        ClearsFor, StepsOK
  <2>2. FilesOK'
    BY <1>0, <1>37 DEF Migrated, AfterRead, Drop, FilesOK
  <2>3. LiveOK'
    BY <1>0, <1>37 DEF Migrated, AfterRead, Drop, LiveOK
  <2>4. StepsOK'
    BY <1>0, <1>37 DEF Migrated, AfterRead, Drop, ClearsFor,
        StepsOK, AgentSteps, DoerSteps, Purposes
  <2>5. AgentsOK'
    BY <1>0, <1>37 DEF Migrated, AfterRead, Drop, AgentsOK
  <2>6. DoersOK'
    BY <1>0, <1>37 DEF Migrated, AfterRead, Drop, DoersOK
  <2>7. PastOK'
    BY <1>0, <1>37 DEF Migrated, AfterRead, Drop, PastOK
  <2> QED BY <2>1, <2>2, <2>3, <2>4, <2>5, <2>6, <2>7
<1>38. ASSUME NEW p \in Proc, ClearLock(p), UNCHANGED bounds PROVE TypeInv'
  BY <1>0, <1>38 DEF ClearLock, Take, Held, ClearsFor, FilesOK, LiveOK,
        StepsOK, AgentsOK, DoersOK, PastOK, AgentSteps, DoerSteps, Purposes
<1>39. ASSUME NEW p \in Proc, Clear(p), UNCHANGED bounds PROVE TypeInv'
  <2>1. ClearsFor'
    BY <1>0, <1>39 DEF Clear, Forget, ClearAsleep,
        ClearWaking, CanSave, Serving, Unsettled, Loading, AfterClear, ClearsFor, StepsOK
  <2>2. FilesOK'
    BY <1>0, <1>39 DEF Clear, Forget, ClearAsleep,
        ClearWaking, CanSave, Serving, Unsettled, Loading, AfterClear, FilesOK
  <2>3. LiveOK'
    BY <1>0, <1>39 DEF Clear, Forget, ClearAsleep,
        ClearWaking, CanSave, Serving, Unsettled, Loading, AfterClear, LiveOK
  <2>4. StepsOK'
    BY <1>0, <1>39 DEF Clear, Forget, ClearAsleep,
        ClearWaking, CanSave, Serving, Unsettled, Loading, AfterClear, ClearsFor,
        StepsOK, AgentSteps, DoerSteps, Purposes
  <2>5. AgentsOK'
    BY <1>0, <1>39 DEF Clear, Forget, ClearAsleep,
        ClearWaking, CanSave, Serving, Unsettled, Loading, AfterClear, AgentsOK
  <2>6. DoersOK'
    BY <1>0, <1>39 DEF Clear, Forget, ClearAsleep,
        ClearWaking, CanSave, Serving, Unsettled, Loading, AfterClear, DoersOK
  <2>7. PastOK'
    BY <1>0, <1>39 DEF Clear, Forget, ClearAsleep,
        ClearWaking, CanSave, Serving, Unsettled, Loading, AfterClear, PastOK
  <2> QED BY <2>1, <2>2, <2>3, <2>4, <2>5, <2>6, <2>7
<1>40. ASSUME Ages PROVE TypeInv'
  BY <1>0, <1>40 DEF Ages, ClearsFor, FilesOK, LiveOK, StepsOK, AgentsOK, DoersOK, PastOK
<1>41. ASSUME NEW a \in Agent, Rerecord(a), UNCHANGED bounds PROVE TypeInv'
  BY <1>0, <1>41 DEF Rerecord, ClearsFor, FilesOK, LiveOK, StepsOK, AgentsOK,
        DoersOK, PastOK, AgentSteps, DoerSteps, Purposes
<1>42. ASSUME NEW a \in Agent, OpenFails(a) PROVE TypeInv'
  BY <1>0, <1>42 DEF OpenFails, ClearsFor, FilesOK, LiveOK, StepsOK, AgentsOK,
        DoersOK, PastOK, AgentSteps, DoerSteps, Purposes
<1> HIDE DEF TypeInv, TypeOK, Proc
<1> QED
  BY <1>1, <1>2, <1>3, <1>4, <1>5, <1>6, <1>7, <1>8, <1>9, <1>10,
      <1>11, <1>12, <1>13, <1>14, <1>15, <1>16, <1>17, <1>18, <1>19, <1>20,
      <1>21, <1>22, <1>23, <1>24, <1>25, <1>26, <1>27, <1>28, <1>29, <1>30,
      <1>31, <1>32, <1>33, <1>34, <1>35, <1>36, <1>37, <1>38, <1>39, <1>40,
      <1>41, <1>42
  DEF Next, Saving, Restoring, Going, Waking, Ending, Begins, Migrating, Clearing

LEMMA TypeInvariant == Spec => []TypeInv
<1>1. ASSUME TypeInv, UNCHANGED vars PROVE TypeInv'
  BY <1>1 DEF vars, record, marks, live, agent, doer, past, bounds, TypeInv, ClearsFor, TypeOK,
       FilesOK, LiveOK, StepsOK, AgentsOK, DoersOK, PastOK
<1>2. ASSUME TypeInv, [Next]_vars PROVE TypeInv'
  BY <1>1, <1>2, TypesStep, SessionConstants
<1>3. Init => TypeInv
  BY InitTypes, SessionConstants
<1> QED BY <1>2, <1>3, PTL DEF Spec

\* Every variable stays in its range, whatever dies and whoever comes between.
THEOREM Types == Spec => []TypeOK
  BY TypeInvariant, PTL DEF TypeInv

------------------------------------------------------------------------------
(* A saved session is not lost *)

\* Whoever takes a plain record away has sealed it before, or it was ended.
KeptInv ==
  /\ SavedNotLost
  /\ \A p \in Proc : pc[p] = "dropping" => sealed \/ ended
  /\ \A a \in Agent : save[a] = "wrote" => sealed \/ ended

\* Only Forget takes a sealed record away.
LEMMA SavedNotLostHoldsStep == ASSUME SessionConstants, TypeInv, KeptInv, Next PROVE KeptInv'
<1> USE DEF TypeInv, TypeOK, FilesOK, StepsOK, AgentsOK, PastOK, KeptInv,
      SavedNotLost, HasRecord, record, marks, live, agent, doer, past, Goto,
      For, Proc
<1>1. ASSUME NEW a \in Agent, SaveBegin(a) PROVE KeptInv'
  BY <1>1 DEF SaveBegin, Unsettled, Serving, Loading
<1>2. ASSUME NEW a \in Agent, SaveWrite(a) PROVE KeptInv'
  BY <1>2 DEF SaveWrite
<1>3. ASSUME NEW a \in Agent, SaveDone(a) PROVE KeptInv'
  BY <1>3 DEF SaveDone, Drop
<1>4. ASSUME NEW a \in Agent, Open(a) PROVE KeptInv'
  BY <1>4 DEF Open, OpenFile, NewFile
<1>5. ASSUME NEW a \in Agent, Claim(a) PROVE KeptInv'
  BY <1>5 DEF Claim, Taken, Locked, Running, Exits, Unnamed, Gone, Close
<1>6. ASSUME NEW a \in Agent, Load(a) PROVE KeptInv'
  BY <1>6 DEF Load, Exits, Unnamed, Gone, Close, Read, Running, AfterRead
<1>7. ASSUME NEW a \in Agent, Record(a) PROVE KeptInv'
  BY <1>7 DEF Record, HoldLive, OpenFile, NewFile, Locked
<1>8. ASSUME NEW a \in Agent, Up(a) PROVE KeptInv'
  BY <1>8 DEF Up, ClearAsleep, ClearWaking, Handshake
<1>9. ASSUME NEW a \in Agent, SleepMark(a) PROVE KeptInv'
  BY <1>9 DEF SleepMark, Nap
<1>10. ASSUME NEW a \in Agent, SleepGo(a) PROVE KeptInv'
  BY <1>10 DEF SleepGo, ClearAsleep, ClearWaking, Nap
<1>11. ASSUME NEW a \in Agent, Ends(a) PROVE KeptInv'
  BY <1>11 DEF Ends
<1>12. ASSUME NEW a \in Agent, Leave(a) PROVE KeptInv'
  BY <1>12 DEF Leave, ClearOwn
<1>13. ASSUME NEW a \in Agent, Settle(a) PROVE KeptInv'
  BY <1>13 DEF Settle, Running
<1>14. ASSUME NEW a \in Agent, Release(a) PROVE KeptInv'
  BY <1>14 DEF Release
<1>15. ASSUME NEW a \in Agent, Unlock(a) PROVE KeptInv'
  BY <1>15 DEF Unlock, Exits, Unnamed, Gone, Close
<1>16. ASSUME NEW a \in Agent, SleepBegin(a) PROVE KeptInv'
  BY <1>16 DEF SleepBegin, Nap
<1>17. ASSUME NEW a \in Agent, Pause(a) PROVE KeptInv'
  BY <1>17 DEF Pause, ClearOwn
<1>18. ASSUME NEW a \in Agent, Crash(a) PROVE KeptInv'
  BY <1>18 DEF Crash, Unnamed, Gone, Close
<1>19. ASSUME NEW d \in Doer, Listed(d) PROVE KeptInv'
  BY <1>19 DEF Listed, SleepsOn
<1>20. ASSUME NEW d \in Doer, Probe(d) PROVE KeptInv'
  BY <1>20 DEF Probe, Locked, Found, OpenFile, NewFile
<1>21. ASSUME NEW d \in Doer, Probed(d) PROVE KeptInv'
  BY <1>21 DEF Probed, Close, Running
<1>22. ASSUME NEW d \in Doer, BeginWake(d) PROVE KeptInv'
  BY <1>22 DEF BeginWake, Marks, Mark, Held
<1>23. ASSUME NEW d \in Doer, Spawn(d) PROVE KeptInv'
  BY <1>23 DEF Spawn
<1>24. ASSUME NEW d \in Doer, Reports(d) PROVE KeptInv'
  BY <1>24 DEF Reports
<1>25. ASSUME NEW d \in Doer, Awake(d) PROVE KeptInv'
  BY <1>25 DEF Awake, ClearAsleep, ClearWaking
<1>26. ASSUME NEW d \in Doer, Unwake(d) PROVE KeptInv'
  BY <1>26 DEF Unwake, ClearWaking
<1>27. ASSUME NEW d \in Doer, ClearNow(d) PROVE KeptInv'
  BY <1>27 DEF ClearNow
<1>28. ASSUME NEW d \in Doer, Unlist(d) PROVE KeptInv'
  BY <1>28 DEF Unlist
<1>29. ASSUME NEW d \in Doer, StartBegin(d) PROVE KeptInv'
  BY <1>29 DEF StartBegin, Read, Running, AfterRead
<1>30. ASSUME NEW d \in Doer, WakeBegin(d) PROVE KeptInv'
  BY <1>30 DEF WakeBegin, Read, Running, AfterRead
<1>31. ASSUME NEW d \in Doer, KillBegin(d) PROVE KeptInv'
  BY <1>31 DEF KillBegin, Running, Asked
<1>32. ASSUME NEW d \in Doer, TerminateBegin(d) PROVE KeptInv'
  BY <1>32 DEF TerminateBegin, Running, Asked
<1>33. ASSUME NEW d \in Doer, ForgetAsleep(d) PROVE KeptInv'
  BY <1>33 DEF ForgetAsleep, Running, Take
<1>34. ASSUME NEW d \in Doer, Stops(d) PROVE KeptInv'
  BY <1>34 DEF Stops, Close, Mark
<1>35. ASSUME NEW p \in Proc, MigrateLock(p) PROVE KeptInv'
  BY <1>35 DEF MigrateLock, Take, Held, AfterRead
<1>36. ASSUME NEW p \in Proc, Migrate(p) PROVE KeptInv'
  BY <1>36 DEF Migrate
<1>37. ASSUME NEW p \in Proc, Migrated(p) PROVE KeptInv'
  BY <1>37 DEF Migrated, AfterRead, Drop
<1>38. ASSUME NEW p \in Proc, ClearLock(p) PROVE KeptInv'
  BY <1>38 DEF ClearLock, Take, Held
<1>39. ASSUME NEW p \in Proc, Clear(p) PROVE KeptInv'
  BY <1>39 DEF Clear, Forget, ClearAsleep, ClearWaking, CanSave, Serving,
        Unsettled, Loading, AfterClear
<1>40. ASSUME Ages PROVE KeptInv'
  BY <1>40 DEF Ages
<1>41. ASSUME NEW a \in Agent, Rerecord(a) PROVE KeptInv'
  BY <1>41 DEF Rerecord
<1>42. ASSUME NEW a \in Agent, OpenFails(a) PROVE KeptInv'
  BY <1>42 DEF OpenFails
<1> HIDE DEF TypeInv, KeptInv, Proc
<1> QED
  BY <1>1, <1>2, <1>3, <1>4, <1>5, <1>6, <1>7, <1>8, <1>9, <1>10,
      <1>11, <1>12, <1>13, <1>14, <1>15, <1>16, <1>17, <1>18, <1>19, <1>20,
      <1>21, <1>22, <1>23, <1>24, <1>25, <1>26, <1>27, <1>28, <1>29, <1>30,
      <1>31, <1>32, <1>33, <1>34, <1>35, <1>36, <1>37, <1>38, <1>39, <1>40,
      <1>41, <1>42
  DEF Next, Saving, Restoring, Going, Waking, Ending, Begins, Migrating, Clearing

\* A session saved once has a record until it is ended, for any number of agents
\* and other processes, and of faults.
THEOREM SavedNotLostHolds == Spec => []SavedNotLost
<1>1. ASSUME KeptInv, UNCHANGED vars PROVE KeptInv'
  BY <1>1 DEF vars, record, marks, live, agent, doer, past, KeptInv,
        SavedNotLost, HasRecord
<1>2. ASSUME TypeInv, KeptInv, [Next]_vars PROVE KeptInv'
  BY <1>1, <1>2, SavedNotLostHoldsStep, SessionConstants
<1>3. Init => KeptInv
  BY SessionConstants DEF Init, Fresh, Older, KeptInv, SavedNotLost, HasRecord, Proc, SessionConstants
<1>4. TypeInv /\ KeptInv => SavedNotLost
  BY DEF KeptInv
<1> QED BY <1>2, <1>3, <1>4, TypeInvariant, PTL DEF Spec

------------------------------------------------------------------------------
(* An ended session stays ended *)

\* While it has no record, only those noted can write it; who saves is not
\* settled; who drops a plain record has sealed it, or neither is there.
OverInv ==
  /\ ended /\ ~HasRecord => \A p \in Proc : CanSave(p) => p \in late
  /\ \A a \in Agent : save[a] # "no" => Unsettled(a)
  /\ \A a \in Agent : save[a] = "wrote" => sealed \/ ~plain
  /\ \A p \in Proc : pc[p] = "dropping" => sealed \/ ~plain

\* Only Forget ends it, and it notes who can save it still.
LEMMA EndedStaysEndedHoldsStep == ASSUME SessionConstants, TypeInv, OverInv, Next PROVE OverInv'
<1> USE DEF TypeInv, TypeOK, FilesOK, StepsOK, AgentsOK, PastOK, ClearsFor,
      OverInv, HasRecord, CanSave, Serving, Unsettled, Loading, record, marks, live, agent, doer,
      past, Goto, For, Proc
<1>1. ASSUME NEW a \in Agent, SaveBegin(a) PROVE OverInv'
  BY <1>1 DEF SaveBegin
<1>2. ASSUME NEW a \in Agent, SaveWrite(a) PROVE OverInv'
  BY <1>2 DEF SaveWrite
<1>3. ASSUME NEW a \in Agent, SaveDone(a) PROVE OverInv'
  BY <1>3 DEF SaveDone, Drop
<1>4. ASSUME NEW a \in Agent, Open(a) PROVE OverInv'
  BY <1>4 DEF Open, OpenFile, NewFile
<1>5. ASSUME NEW a \in Agent, Claim(a) PROVE OverInv'
  BY <1>5 DEF Claim, Taken, Locked, Running, Exits, Unnamed, Gone, Close
<1>6. ASSUME NEW a \in Agent, Load(a) PROVE OverInv'
  BY <1>6 DEF Load, HasRecord, Exits, Unnamed, Gone, Close, Read, Running, AfterRead
<1>7. ASSUME NEW a \in Agent, Record(a) PROVE OverInv'
  BY <1>7 DEF Record, HoldLive, OpenFile, NewFile, Locked
<1>8. ASSUME NEW a \in Agent, Up(a) PROVE OverInv'
  BY <1>8 DEF Up, ClearAsleep, ClearWaking, Handshake
<1>9. ASSUME NEW a \in Agent, SleepMark(a) PROVE OverInv'
  BY <1>9 DEF SleepMark, Nap
<1>10. ASSUME NEW a \in Agent, SleepGo(a) PROVE OverInv'
  BY <1>10 DEF SleepGo, ClearAsleep, ClearWaking, Nap
<1>11. ASSUME NEW a \in Agent, Ends(a) PROVE OverInv'
  BY <1>11 DEF Ends
<1>12. ASSUME NEW a \in Agent, Leave(a) PROVE OverInv'
  BY <1>12 DEF Leave, ClearOwn
<1>13. ASSUME NEW a \in Agent, Settle(a) PROVE OverInv'
  BY <1>13 DEF Settle, Running
<1>14. ASSUME NEW a \in Agent, Release(a) PROVE OverInv'
  BY <1>14 DEF Release
<1>15. ASSUME NEW a \in Agent, Unlock(a) PROVE OverInv'
  BY <1>15 DEF Unlock, Exits, Unnamed, Gone, Close
<1>16. ASSUME NEW a \in Agent, SleepBegin(a) PROVE OverInv'
  BY <1>16 DEF SleepBegin, Nap
<1>17. ASSUME NEW a \in Agent, Pause(a) PROVE OverInv'
  BY <1>17 DEF Pause, ClearOwn
<1>18. ASSUME NEW a \in Agent, Crash(a) PROVE OverInv'
  BY <1>18 DEF Crash, Unnamed, Gone, Close
<1>19. ASSUME NEW d \in Doer, Listed(d) PROVE OverInv'
  BY <1>19 DEF Listed, SleepsOn
<1>20. ASSUME NEW d \in Doer, Probe(d) PROVE OverInv'
  BY <1>20 DEF Probe, Locked, Found, OpenFile, NewFile
<1>21. ASSUME NEW d \in Doer, Probed(d) PROVE OverInv'
  BY <1>21 DEF Probed, Close, Running
<1>22. ASSUME NEW d \in Doer, BeginWake(d) PROVE OverInv'
  BY <1>22 DEF BeginWake, Marks, Mark, Held
<1>23. ASSUME NEW d \in Doer, Spawn(d) PROVE OverInv'
  BY <1>23 DEF Spawn
<1>24. ASSUME NEW d \in Doer, Reports(d) PROVE OverInv'
  BY <1>24 DEF Reports
<1>25. ASSUME NEW d \in Doer, Awake(d) PROVE OverInv'
  BY <1>25 DEF Awake, ClearAsleep, ClearWaking
<1>26. ASSUME NEW d \in Doer, Unwake(d) PROVE OverInv'
  BY <1>26 DEF Unwake, ClearWaking
<1>27. ASSUME NEW d \in Doer, ClearNow(d) PROVE OverInv'
  BY <1>27 DEF ClearNow
<1>28. ASSUME NEW d \in Doer, Unlist(d) PROVE OverInv'
  BY <1>28 DEF Unlist
<1>29. ASSUME NEW d \in Doer, StartBegin(d) PROVE OverInv'
  BY <1>29 DEF StartBegin, HasRecord, Read, Running, AfterRead
<1>30. ASSUME NEW d \in Doer, WakeBegin(d) PROVE OverInv'
  BY <1>30 DEF WakeBegin, HasRecord, Read, Running, AfterRead
<1>31. ASSUME NEW d \in Doer, KillBegin(d) PROVE OverInv'
  BY <1>31 DEF KillBegin, Running, Asked
<1>32. ASSUME NEW d \in Doer, TerminateBegin(d) PROVE OverInv'
  BY <1>32 DEF TerminateBegin, Running, Asked
<1>33. ASSUME NEW d \in Doer, ForgetAsleep(d) PROVE OverInv'
  BY <1>33 DEF ForgetAsleep, Running, Take
<1>34. ASSUME NEW d \in Doer, Stops(d) PROVE OverInv'
  BY <1>34 DEF Stops, Close, Mark
<1>35. ASSUME NEW p \in Proc, MigrateLock(p) PROVE OverInv'
  BY <1>35 DEF MigrateLock, Take, Held, AfterRead
<1>36. ASSUME NEW p \in Proc, Migrate(p) PROVE OverInv'
  BY <1>36 DEF Migrate
<1>37. ASSUME NEW p \in Proc, Migrated(p) PROVE OverInv'
  BY <1>37 DEF Migrated, AfterRead, Drop
<1>38. ASSUME NEW p \in Proc, ClearLock(p) PROVE OverInv'
  BY <1>38 DEF ClearLock, Take, Held
<1>39. ASSUME NEW p \in Proc, Clear(p) PROVE OverInv'
  BY <1>39 DEF Clear, Forget, ClearAsleep, ClearWaking, AfterClear
<1>40. ASSUME Ages PROVE OverInv'
  BY <1>40 DEF Ages
<1>41. ASSUME NEW a \in Agent, Rerecord(a) PROVE OverInv'
  BY <1>41 DEF Rerecord
<1>42. ASSUME NEW a \in Agent, OpenFails(a) PROVE OverInv'
  BY <1>42 DEF OpenFails
<1> HIDE DEF TypeInv, OverInv, Proc
<1> QED
  BY <1>1, <1>2, <1>3, <1>4, <1>5, <1>6, <1>7, <1>8, <1>9, <1>10,
      <1>11, <1>12, <1>13, <1>14, <1>15, <1>16, <1>17, <1>18, <1>19, <1>20,
      <1>21, <1>22, <1>23, <1>24, <1>25, <1>26, <1>27, <1>28, <1>29, <1>30,
      <1>31, <1>32, <1>33, <1>34, <1>35, <1>36, <1>37, <1>38, <1>39, <1>40,
      <1>41, <1>42
  DEF Next, Saving, Restoring, Going, Waking, Ending, Begins, Migrating, Clearing

\* A record is there again only by the write of a save or of a migration.
LEMMA WhoWrites ==
  ASSUME SessionConstants, TypeInv, Next, ~HasRecord, HasRecord'
  PROVE  \/ \E a \in Agent : SaveWrite(a) /\ save[a] = "passed" /\ save'[a] # "passed"
         \/ \E p \in Proc : Migrate(p)
<1> USE DEF HasRecord, record, marks, live, agent, doer, past
<1> DEFINE Q == \/ \E a \in Agent : SaveWrite(a) /\ save[a] = "passed" /\ save'[a] # "passed"
                \/ \E p \in Proc : Migrate(p)
<1>1. ASSUME NEW a \in Agent, SaveBegin(a) PROVE FALSE
  BY <1>1 DEF SaveBegin
<1>2. ASSUME NEW a \in Agent, SaveWrite(a) PROVE Q
  <2>1. save[a] = "passed" /\ save'[a] # "passed"
    BY <1>2 DEF SaveWrite, TypeInv, TypeOK, AgentsOK
  <2> QED BY <1>2, <2>1
<1>3. ASSUME NEW a \in Agent, SaveDone(a) PROVE FALSE
  BY <1>3 DEF SaveDone, Drop
<1>4. ASSUME NEW a \in Agent, Open(a) PROVE FALSE
  BY <1>4 DEF Open
<1>5. ASSUME NEW a \in Agent, Claim(a) PROVE FALSE
  BY <1>5 DEF Claim, Exits
<1>6. ASSUME NEW a \in Agent, Load(a) PROVE FALSE
  BY <1>6 DEF Load, Exits, Read, AfterRead
<1>7. ASSUME NEW a \in Agent, Record(a) PROVE FALSE
  BY <1>7 DEF Record
<1>8. ASSUME NEW a \in Agent, Up(a) PROVE FALSE
  BY <1>8 DEF Up, ClearAsleep, ClearWaking
<1>9. ASSUME NEW a \in Agent, SleepMark(a) PROVE FALSE
  BY <1>9 DEF SleepMark
<1>10. ASSUME NEW a \in Agent, SleepGo(a) PROVE FALSE
  BY <1>10 DEF SleepGo, ClearAsleep, ClearWaking
<1>11. ASSUME NEW a \in Agent, Ends(a) PROVE FALSE
  BY <1>11 DEF Ends
<1>12. ASSUME NEW a \in Agent, Leave(a) PROVE FALSE
  BY <1>12 DEF Leave
<1>13. ASSUME NEW a \in Agent, Settle(a) PROVE FALSE
  BY <1>13 DEF Settle
<1>14. ASSUME NEW a \in Agent, Release(a) PROVE FALSE
  BY <1>14 DEF Release
<1>15. ASSUME NEW a \in Agent, Unlock(a) PROVE FALSE
  BY <1>15 DEF Unlock, Exits
<1>16. ASSUME NEW a \in Agent, SleepBegin(a) PROVE FALSE
  BY <1>16 DEF SleepBegin
<1>17. ASSUME NEW a \in Agent, Pause(a) PROVE FALSE
  BY <1>17 DEF Pause
<1>18. ASSUME NEW a \in Agent, Crash(a) PROVE FALSE
  BY <1>18 DEF Crash
<1>19. ASSUME NEW d \in Doer, Listed(d) PROVE FALSE
  BY <1>19 DEF Listed
<1>20. ASSUME NEW d \in Doer, Probe(d) PROVE FALSE
  BY <1>20 DEF Probe
<1>21. ASSUME NEW d \in Doer, Probed(d) PROVE FALSE
  BY <1>21 DEF Probed
<1>22. ASSUME NEW d \in Doer, BeginWake(d) PROVE FALSE
  BY <1>22 DEF BeginWake
<1>23. ASSUME NEW d \in Doer, Spawn(d) PROVE FALSE
  BY <1>23 DEF Spawn
<1>24. ASSUME NEW d \in Doer, Reports(d) PROVE FALSE
  BY <1>24 DEF Reports
<1>25. ASSUME NEW d \in Doer, Awake(d) PROVE FALSE
  BY <1>25 DEF Awake, ClearAsleep, ClearWaking
<1>26. ASSUME NEW d \in Doer, Unwake(d) PROVE FALSE
  BY <1>26 DEF Unwake, ClearWaking
<1>27. ASSUME NEW d \in Doer, ClearNow(d) PROVE FALSE
  BY <1>27 DEF ClearNow
<1>28. ASSUME NEW d \in Doer, Unlist(d) PROVE FALSE
  BY <1>28 DEF Unlist
<1>29. ASSUME NEW d \in Doer, StartBegin(d) PROVE FALSE
  BY <1>29 DEF StartBegin, Read, AfterRead
<1>30. ASSUME NEW d \in Doer, WakeBegin(d) PROVE FALSE
  BY <1>30 DEF WakeBegin, Read, AfterRead
<1>31. ASSUME NEW d \in Doer, KillBegin(d) PROVE FALSE
  BY <1>31 DEF KillBegin
<1>32. ASSUME NEW d \in Doer, TerminateBegin(d) PROVE FALSE
  BY <1>32 DEF TerminateBegin
<1>33. ASSUME NEW d \in Doer, ForgetAsleep(d) PROVE FALSE
  BY <1>33 DEF ForgetAsleep
<1>34. ASSUME NEW d \in Doer, Stops(d) PROVE FALSE
  BY <1>34 DEF Stops
<1>35. ASSUME NEW p \in Proc, MigrateLock(p) PROVE FALSE
  BY <1>35 DEF MigrateLock, AfterRead
<1>36. ASSUME NEW p \in Proc, Migrate(p) PROVE Q
  BY <1>36
<1>37. ASSUME NEW p \in Proc, Migrated(p) PROVE FALSE
  BY <1>37 DEF Migrated, AfterRead, Drop
<1>38. ASSUME NEW p \in Proc, ClearLock(p) PROVE FALSE
  BY <1>38 DEF ClearLock
<1>39. ASSUME NEW p \in Proc, Clear(p) PROVE FALSE
  BY <1>39 DEF Clear, Forget, ClearAsleep, ClearWaking
<1>40. ASSUME Ages PROVE FALSE
  BY <1>40 DEF Ages
<1>41. ASSUME NEW a \in Agent, Rerecord(a) PROVE FALSE
  BY <1>41 DEF Rerecord
<1>42. ASSUME NEW a \in Agent, OpenFails(a) PROVE FALSE
  BY <1>42 DEF OpenFails
<1> QED
  BY <1>1, <1>2, <1>3, <1>4, <1>5, <1>6, <1>7, <1>8, <1>9, <1>10,
      <1>11, <1>12, <1>13, <1>14, <1>15, <1>16, <1>17, <1>18, <1>19, <1>20,
      <1>21, <1>22, <1>23, <1>24, <1>25, <1>26, <1>27, <1>28, <1>29, <1>30,
      <1>31, <1>32, <1>33, <1>34, <1>35, <1>36, <1>37, <1>38, <1>39, <1>40,
      <1>41, <1>42
  DEF Next, Saving, Restoring, Going, Waking, Ending, Begins, Migrating, Clearing

\* Once ended, and while it has no record, the session gets one again only from
\* a process that could write it when it was ended.
THEOREM EndedStaysEndedHolds == Spec => EndedStaysEnded
<1>1. ASSUME OverInv, UNCHANGED vars PROVE OverInv'
  BY <1>1 DEF vars, record, marks, live, agent, doer, past, OverInv, HasRecord, CanSave,
        Serving, Unsettled, Loading
<1>2. ASSUME TypeInv, OverInv, [Next]_vars PROVE OverInv'
  BY <1>1, <1>2, EndedStaysEndedHoldsStep, SessionConstants
<1>3. Init => OverInv
  BY InitSteps, SessionConstants DEF Init, OverInv, Proc
<1>4. ASSUME TypeInv, OverInv, [Next]_vars
      PROVE  [ended /\ ~HasRecord /\ HasRecord' => \E p \in late : Writes(p)]_vars
  <2> SUFFICES ASSUME Next, ended, ~HasRecord, HasRecord' PROVE \E p \in late : Writes(p)
    BY <1>4
  <2>1. ASSUME NEW a \in Agent, save[a] = "passed", save'[a] # "passed"
        PROVE  \E p \in late : Writes(p)
    <3>1. CanSave(a)
      BY <1>4, <2>1 DEF OverInv, CanSave
    <3>2. a \in late
      BY <1>4, <3>1 DEF OverInv, Proc
    <3> QED BY <2>1, <3>2 DEF Writes
  <2>2. ASSUME NEW p \in Proc, Migrate(p) PROVE \E q \in late : Writes(q)
    <3>1. pc[p] = "sealing" /\ pc'[p] # "sealing"
      BY <1>4, <2>2 DEF Migrate, Goto, TypeInv, TypeOK, StepsOK
    <3>2. p \in late
      BY <1>4, <3>1 DEF OverInv, CanSave
    <3> QED BY <3>1, <3>2 DEF Writes
  <2> QED BY <1>4, <2>1, <2>2, WhoWrites, SessionConstants
<1> QED BY <1>2, <1>3, <1>4, TypeInvariant, PTL DEF Spec, EndedStaysEnded

------------------------------------------------------------------------------
(* One that is up is awake *)

\* It is marked asleep by someone.
AwakeInv == UpIsAwake /\ (asleep => slept # None)

\* Coming up takes the mark away, and going to sleep leaves.
LEMMA UpIsAwakeHoldsStep == ASSUME SessionConstants, TypeInv, AwakeInv, Next PROVE AwakeInv'
<1> USE DEF TypeInv, TypeOK, FilesOK, StepsOK, AgentsOK, ClearsFor, AwakeInv,
      UpIsAwake, record, marks, live, agent, doer, past, Goto, For, Proc
<1>1. ASSUME NEW a \in Agent, SaveBegin(a) PROVE AwakeInv'
  BY <1>1 DEF SaveBegin, Unsettled, Serving, Loading
<1>2. ASSUME NEW a \in Agent, SaveWrite(a) PROVE AwakeInv'
  BY <1>2 DEF SaveWrite
<1>3. ASSUME NEW a \in Agent, SaveDone(a) PROVE AwakeInv'
  BY <1>3 DEF SaveDone, Drop
<1>4. ASSUME NEW a \in Agent, Open(a) PROVE AwakeInv'
  BY <1>4 DEF Open, OpenFile, NewFile
<1>5. ASSUME NEW a \in Agent, Claim(a) PROVE AwakeInv'
  BY <1>5 DEF Claim, Taken, Locked, Running, Exits, Unnamed, Gone, Close
<1>6. ASSUME NEW a \in Agent, Load(a) PROVE AwakeInv'
  BY <1>6 DEF Load, HasRecord, Exits, Unnamed, Gone, Close, Read, Running, AfterRead
<1>7. ASSUME NEW a \in Agent, Record(a) PROVE AwakeInv'
  BY <1>7 DEF Record, HoldLive, OpenFile, NewFile, Locked
<1>8. ASSUME NEW a \in Agent, Up(a) PROVE AwakeInv'
  BY <1>8 DEF Up, ClearAsleep, ClearWaking, Handshake
<1>9. ASSUME NEW a \in Agent, SleepMark(a) PROVE AwakeInv'
  BY <1>9 DEF SleepMark, Nap
<1>10. ASSUME NEW a \in Agent, SleepGo(a) PROVE AwakeInv'
  BY <1>10 DEF SleepGo, ClearAsleep, ClearWaking, Nap
<1>11. ASSUME NEW a \in Agent, Ends(a) PROVE AwakeInv'
  BY <1>11 DEF Ends
<1>12. ASSUME NEW a \in Agent, Leave(a) PROVE AwakeInv'
  BY <1>12 DEF Leave, ClearOwn
<1>13. ASSUME NEW a \in Agent, Settle(a) PROVE AwakeInv'
  BY <1>13 DEF Settle, Running
<1>14. ASSUME NEW a \in Agent, Release(a) PROVE AwakeInv'
  BY <1>14 DEF Release
<1>15. ASSUME NEW a \in Agent, Unlock(a) PROVE AwakeInv'
  BY <1>15 DEF Unlock, Exits, Unnamed, Gone, Close
<1>16. ASSUME NEW a \in Agent, SleepBegin(a) PROVE AwakeInv'
  BY <1>16 DEF SleepBegin, Nap
<1>17. ASSUME NEW a \in Agent, Pause(a) PROVE AwakeInv'
  BY <1>17 DEF Pause, ClearOwn
<1>18. ASSUME NEW a \in Agent, Crash(a) PROVE AwakeInv'
  BY <1>18 DEF Crash, Unnamed, Gone, Close
<1>19. ASSUME NEW d \in Doer, Listed(d) PROVE AwakeInv'
  BY <1>19 DEF Listed, SleepsOn
<1>20. ASSUME NEW d \in Doer, Probe(d) PROVE AwakeInv'
  BY <1>20 DEF Probe, Locked, Found, OpenFile, NewFile
<1>21. ASSUME NEW d \in Doer, Probed(d) PROVE AwakeInv'
  BY <1>21 DEF Probed, Close, Running
<1>22. ASSUME NEW d \in Doer, BeginWake(d) PROVE AwakeInv'
  BY <1>22 DEF BeginWake, Marks, Mark, Held
<1>23. ASSUME NEW d \in Doer, Spawn(d) PROVE AwakeInv'
  BY <1>23 DEF Spawn
<1>24. ASSUME NEW d \in Doer, Reports(d) PROVE AwakeInv'
  BY <1>24 DEF Reports
<1>25. ASSUME NEW d \in Doer, Awake(d) PROVE AwakeInv'
  BY <1>25 DEF Awake, ClearAsleep, ClearWaking
<1>26. ASSUME NEW d \in Doer, Unwake(d) PROVE AwakeInv'
  BY <1>26 DEF Unwake, ClearWaking
<1>27. ASSUME NEW d \in Doer, ClearNow(d) PROVE AwakeInv'
  BY <1>27 DEF ClearNow
<1>28. ASSUME NEW d \in Doer, Unlist(d) PROVE AwakeInv'
  BY <1>28 DEF Unlist
<1>29. ASSUME NEW d \in Doer, StartBegin(d) PROVE AwakeInv'
  BY <1>29 DEF StartBegin, HasRecord, Read, Running, AfterRead
<1>30. ASSUME NEW d \in Doer, WakeBegin(d) PROVE AwakeInv'
  BY <1>30 DEF WakeBegin, HasRecord, Read, Running, AfterRead
<1>31. ASSUME NEW d \in Doer, KillBegin(d) PROVE AwakeInv'
  BY <1>31 DEF KillBegin, Running, Asked
<1>32. ASSUME NEW d \in Doer, TerminateBegin(d) PROVE AwakeInv'
  BY <1>32 DEF TerminateBegin, Running, Asked
<1>33. ASSUME NEW d \in Doer, ForgetAsleep(d) PROVE AwakeInv'
  BY <1>33 DEF ForgetAsleep, Running, Take
<1>34. ASSUME NEW d \in Doer, Stops(d) PROVE AwakeInv'
  BY <1>34 DEF Stops, Close, Mark
<1>35. ASSUME NEW p \in Proc, MigrateLock(p) PROVE AwakeInv'
  BY <1>35 DEF MigrateLock, Take, Held, AfterRead
<1>36. ASSUME NEW p \in Proc, Migrate(p) PROVE AwakeInv'
  BY <1>36 DEF Migrate
<1>37. ASSUME NEW p \in Proc, Migrated(p) PROVE AwakeInv'
  BY <1>37 DEF Migrated, AfterRead, Drop
<1>38. ASSUME NEW p \in Proc, ClearLock(p) PROVE AwakeInv'
  BY <1>38 DEF ClearLock, Take, Held
<1>39. ASSUME NEW p \in Proc, Clear(p) PROVE AwakeInv'
  BY <1>39 DEF Clear, Forget, ClearAsleep, ClearWaking, CanSave, Serving,
        Unsettled, Loading, AfterClear
<1>40. ASSUME Ages PROVE AwakeInv'
  BY <1>40 DEF Ages
<1>41. ASSUME NEW a \in Agent, Rerecord(a) PROVE AwakeInv'
  BY <1>41 DEF Rerecord
<1>42. ASSUME NEW a \in Agent, OpenFails(a) PROVE AwakeInv'
  BY <1>42 DEF OpenFails
<1> HIDE DEF TypeInv, AwakeInv, Proc
<1> QED
  BY <1>1, <1>2, <1>3, <1>4, <1>5, <1>6, <1>7, <1>8, <1>9, <1>10,
      <1>11, <1>12, <1>13, <1>14, <1>15, <1>16, <1>17, <1>18, <1>19, <1>20,
      <1>21, <1>22, <1>23, <1>24, <1>25, <1>26, <1>27, <1>28, <1>29, <1>30,
      <1>31, <1>32, <1>33, <1>34, <1>35, <1>36, <1>37, <1>38, <1>39, <1>40,
      <1>41, <1>42
  DEF Next, Saving, Restoring, Going, Waking, Ending, Begins, Migrating, Clearing

\* An agent that is up is not left marked asleep.
THEOREM UpIsAwakeHolds == Spec => []UpIsAwake
<1>1. ASSUME AwakeInv, UNCHANGED vars PROVE AwakeInv'
  BY <1>1 DEF vars, record, marks, live, agent, doer, past, AwakeInv,
        UpIsAwake
<1>2. ASSUME TypeInv, AwakeInv, [Next]_vars PROVE AwakeInv'
  BY <1>1, <1>2, UpIsAwakeHoldsStep, SessionConstants
<1>3. Init => AwakeInv
  BY DEF Init, AwakeInv, UpIsAwake
<1>4. TypeInv /\ AwakeInv => UpIsAwake
  BY DEF AwakeInv
<1> QED BY <1>2, <1>3, <1>4, TypeInvariant, PTL DEF Spec

------------------------------------------------------------------------------
(* An end and a wake never cross *)

\* Who holds the lock of the record.
LockInv ==
  /\ \A p \in Proc : pc[p] \in {"sealing", "dropping"} => lock = p
  /\ \A a \in Agent : save[a] = "wrote" => lock = "save"
  /\ \A a, b \in Agent : save[a] = "wrote" /\ save[b] = "wrote" => a = b
\* A session is being forgotten under the lock, no wake marked; a marked wake
\* is still under way; only a wake marks.
CrossInv ==
  /\ LockInv
  /\ \A d \in Doer : pc[d] = "clearing" /\ why[d] = "forget" => lock = d /\ waking # "recent"
  /\ \A d \in Doer : pc[d] = "begin" => why[d] = "wake"
  /\ \A d \in Doer :
       marked[d] =>
         /\ waking = "recent" /\ why[d] = "wake"
         /\ pc[d] \in {"spawn", "wait", "told", "reprobe", "reprobing", "awake", "unwake"}

\* A wake is marked under the lock, and forgetting looks under it.
LEMMA EndNeverCrossesWakeHoldsStep == ASSUME SessionConstants, TypeInv, CrossInv, Next PROVE CrossInv'
<1> USE DEF TypeInv, TypeOK, FilesOK, StepsOK, AgentsOK, DoersOK, ClearsFor,
      CrossInv, LockInv, record, marks, live, agent, doer, past, Goto, For,
      Proc
<1>1. ASSUME NEW a \in Agent, SaveBegin(a) PROVE CrossInv'
  BY <1>1 DEF SaveBegin, Unsettled, Serving, Loading
<1>2. ASSUME NEW a \in Agent, SaveWrite(a) PROVE CrossInv'
  BY <1>2 DEF SaveWrite
<1>3. ASSUME NEW a \in Agent, SaveDone(a) PROVE CrossInv'
  BY <1>3 DEF SaveDone, Drop
<1>4. ASSUME NEW a \in Agent, Open(a) PROVE CrossInv'
  BY <1>4 DEF Open, OpenFile, NewFile
<1>5. ASSUME NEW a \in Agent, Claim(a) PROVE CrossInv'
  BY <1>5 DEF Claim, Taken, Locked, Running, Exits, Unnamed, Gone, Close
<1>6. ASSUME NEW a \in Agent, Load(a) PROVE CrossInv'
  BY <1>6 DEF Load, HasRecord, Exits, Unnamed, Gone, Close, Read, Running, AfterRead
<1>7. ASSUME NEW a \in Agent, Record(a) PROVE CrossInv'
  BY <1>7 DEF Record, HoldLive, OpenFile, NewFile, Locked
<1>8. ASSUME NEW a \in Agent, Up(a) PROVE CrossInv'
  BY <1>8 DEF Up, ClearAsleep, ClearWaking, Handshake
<1>9. ASSUME NEW a \in Agent, SleepMark(a) PROVE CrossInv'
  BY <1>9 DEF SleepMark, Nap
<1>10. ASSUME NEW a \in Agent, SleepGo(a) PROVE CrossInv'
  BY <1>10 DEF SleepGo, ClearAsleep, ClearWaking, Nap
<1>11. ASSUME NEW a \in Agent, Ends(a) PROVE CrossInv'
  BY <1>11 DEF Ends
<1>12. ASSUME NEW a \in Agent, Leave(a) PROVE CrossInv'
  BY <1>12 DEF Leave, ClearOwn
<1>13. ASSUME NEW a \in Agent, Settle(a) PROVE CrossInv'
  BY <1>13 DEF Settle, Running
<1>14. ASSUME NEW a \in Agent, Release(a) PROVE CrossInv'
  BY <1>14 DEF Release
<1>15. ASSUME NEW a \in Agent, Unlock(a) PROVE CrossInv'
  BY <1>15 DEF Unlock, Exits, Unnamed, Gone, Close
<1>16. ASSUME NEW a \in Agent, SleepBegin(a) PROVE CrossInv'
  BY <1>16 DEF SleepBegin, Nap
<1>17. ASSUME NEW a \in Agent, Pause(a) PROVE CrossInv'
  BY <1>17 DEF Pause, ClearOwn
<1>18. ASSUME NEW a \in Agent, Crash(a) PROVE CrossInv'
  BY <1>18 DEF Crash, Unnamed, Gone, Close
<1>19. ASSUME NEW d \in Doer, Listed(d) PROVE CrossInv'
  BY <1>19 DEF Listed, SleepsOn
<1>20. ASSUME NEW d \in Doer, Probe(d) PROVE CrossInv'
  BY <1>20 DEF Probe, Locked, Found, OpenFile, NewFile
<1>21. ASSUME NEW d \in Doer, Probed(d) PROVE CrossInv'
  BY <1>21 DEF Probed, Close, Running
<1>22. ASSUME NEW d \in Doer, BeginWake(d) PROVE CrossInv'
  <2>1. CASE Held(d) /\ Goto(d, "spawn") /\ UNCHANGED <<waking, marked>>
    BY <1>22, <2>1 DEF BeginWake, Held
  <2>2. CASE lock = None /\ ~asleep /\ Goto(d, "idle") /\ UNCHANGED <<waking, marked>>
    BY <1>22, <2>2 DEF BeginWake
  <2>3. CASE lock = None /\ waking' = "recent" /\ Mark(d, TRUE) /\ Goto(d, "spawn")
    <3>1. LockInv'
      BY <1>22, <2>3, SessionConstants DEF BeginWake, Mark, SessionConstants
    <3>2. \A e \in Doer : ~(pc'[e] = "clearing" /\ why'[e] = "forget")
      BY <1>22, <2>3, SessionConstants DEF BeginWake, Mark, SessionConstants
    <3>3. why[d] = "wake"
      BY <1>22 DEF BeginWake, CrossInv
    <3> QED BY <1>22, <2>3, <3>1, <3>2, <3>3 DEF BeginWake, Mark
  <2> QED BY <1>22, <2>1, <2>2, <2>3 DEF BeginWake, Marks
<1>23. ASSUME NEW d \in Doer, Spawn(d) PROVE CrossInv'
  BY <1>23 DEF Spawn
<1>24. ASSUME NEW d \in Doer, Reports(d) PROVE CrossInv'
  BY <1>24 DEF Reports
<1>25. ASSUME NEW d \in Doer, Awake(d) PROVE CrossInv'
  BY <1>25 DEF Awake, ClearAsleep, ClearWaking
<1>26. ASSUME NEW d \in Doer, Unwake(d) PROVE CrossInv'
  BY <1>26 DEF Unwake, ClearWaking
<1>27. ASSUME NEW d \in Doer, ClearNow(d) PROVE CrossInv'
  BY <1>27 DEF ClearNow
<1>28. ASSUME NEW d \in Doer, Unlist(d) PROVE CrossInv'
  BY <1>28 DEF Unlist
<1>29. ASSUME NEW d \in Doer, StartBegin(d) PROVE CrossInv'
  BY <1>29 DEF StartBegin, HasRecord, Read, Running, AfterRead
<1>30. ASSUME NEW d \in Doer, WakeBegin(d) PROVE CrossInv'
  BY <1>30 DEF WakeBegin, HasRecord, Read, Running, AfterRead
<1>31. ASSUME NEW d \in Doer, KillBegin(d) PROVE CrossInv'
  BY <1>31 DEF KillBegin, Running, Asked
<1>32. ASSUME NEW d \in Doer, TerminateBegin(d) PROVE CrossInv'
  BY <1>32 DEF TerminateBegin, Running, Asked
<1>33. ASSUME NEW d \in Doer, ForgetAsleep(d) PROVE CrossInv'
  BY <1>33 DEF ForgetAsleep, Running, Take
<1>34. ASSUME NEW d \in Doer, Stops(d) PROVE CrossInv'
  BY <1>34 DEF Stops, Close, Mark
<1>35. ASSUME NEW p \in Proc, MigrateLock(p) PROVE CrossInv'
  BY <1>35 DEF MigrateLock, Take, Held, AfterRead
<1>36. ASSUME NEW p \in Proc, Migrate(p) PROVE CrossInv'
  BY <1>36 DEF Migrate
<1>37. ASSUME NEW p \in Proc, Migrated(p) PROVE CrossInv'
  BY <1>37 DEF Migrated, AfterRead, Drop
<1>38. ASSUME NEW p \in Proc, ClearLock(p) PROVE CrossInv'
  BY <1>38 DEF ClearLock, Take, Held
<1>39. ASSUME NEW p \in Proc, Clear(p) PROVE CrossInv'
  BY <1>39 DEF Clear, Forget, ClearAsleep, ClearWaking, CanSave, Serving,
        Unsettled, Loading, AfterClear
<1>40. ASSUME Ages PROVE CrossInv'
  BY <1>40 DEF Ages
<1>41. ASSUME NEW a \in Agent, Rerecord(a) PROVE CrossInv'
  BY <1>41 DEF Rerecord
<1>42. ASSUME NEW a \in Agent, OpenFails(a) PROVE CrossInv'
  BY <1>42 DEF OpenFails
<1> HIDE DEF TypeInv, CrossInv, Proc
<1> QED
  BY <1>1, <1>2, <1>3, <1>4, <1>5, <1>6, <1>7, <1>8, <1>9, <1>10,
      <1>11, <1>12, <1>13, <1>14, <1>15, <1>16, <1>17, <1>18, <1>19, <1>20,
      <1>21, <1>22, <1>23, <1>24, <1>25, <1>26, <1>27, <1>28, <1>29, <1>30,
      <1>31, <1>32, <1>33, <1>34, <1>35, <1>36, <1>37, <1>38, <1>39, <1>40,
      <1>41, <1>42
  DEF Next, Saving, Restoring, Going, Waking, Ending, Begins, Migrating, Clearing

\* A session that sleeps is never forgotten while the agent of a marked wake is
\* waited for.
THEOREM EndNeverCrossesWakeHolds == Spec => EndNeverCrossesWake
<1>1. ASSUME CrossInv, UNCHANGED vars PROVE CrossInv'
  BY <1>1 DEF vars, record, marks, live, agent, doer, past, CrossInv, LockInv
<1>2. ASSUME TypeInv, CrossInv, [Next]_vars PROVE CrossInv'
  BY <1>1, <1>2, EndNeverCrossesWakeHoldsStep, SessionConstants
<1>3. Init => CrossInv
  BY SessionConstants DEF Init, Fresh, Older, CrossInv, LockInv, Proc, SessionConstants
<1>4. ASSUME CrossInv
      PROVE  [\A d, e \in Doer :
                (pc[d] = "clearing" /\ why[d] = "forget" /\ pc'[d] = "idle" /\ ended')
                  => ~(pc[e] = "wait" /\ marked[e])]_vars
  BY <1>4 DEF CrossInv
<1> QED BY <1>2, <1>3, <1>4, TypeInvariant, PTL DEF Spec, EndNeverCrossesWake
==============================================================================
