------------------------ MODULE RelayRoomUpkeepProofs ------------------------
(* That no room is left behind, and that a parked viewer is never handed to  *)
(* another agent, for any connections, rooms and timers.                     *)
EXTENDS RelayRoomProofs

USE DEF room, creds, server, peers, handler, timers, heard, history,
        RoomOK, CredsOK, ServerOK, HandlerOK, TimersOK, HeardOK, HistoryOK

(* Why a room without an agent is removed.  Only a room an agent has           *)
(* authenticated in has viewers or a timer, and an agent that leaves one sets  *)
(* the timer.  A timer is one room's: a name is armed again when no room in    *)
(* memory has it.  In a room nobody authenticated in, somebody waits, is about *)
(* to, or sweeps; and whoever waits there is still served.                     *)
Proven == \A r \in RoomId : viewers[r] # {} \/ cleanup[r] # None => AgentAuthed(r)
OwnTimer ==
  \A r, s \in RoomId :
    r # s /\ cleanup[r] # None /\ cleanup[r] = cleanup[s] => Garbage(r) \/ Garbage(s)
Expires == cur # None /\ agent[cur] = None /\ AgentAuthed(cur) => Timed(cur)
Swept ==
  cur # None /\ agent[cur] = None /\ ~AgentAuthed(cur) =>
    pending[cur] # {} \/ \E c \in Conn : Tends(c, cur)
Served ==
  cur # None =>
    /\ \A c \in pending[cur] :
         /\ agent[cur] # c
         /\ pc[c] = "reading" \/ (pc[c] \in {"auth", "detaching"} /\ ref[c] = cur)
    /\ \A c \in AgentConn : pc[c] = "attaching" => ~PeerIn(cur, c)

Upkeep == Proven /\ OwnTimer /\ Expires /\ Swept /\ Served
UpkeepInv == IInv /\ Upkeep

LEMMA UpkeepMeans == ASSUME UpkeepInv PROVE NoLeakedRoom
<1>1. SUFFICES ASSUME cur # None, agent[cur] = None
               PROVE  \/ \E c \in pending[cur] : pc[c] # "idle"
                      \/ \E c \in Conn : Tends(c, cur)
                      \/ Timed(cur)
  BY DEF NoLeakedRoom
<1>2. CASE AgentAuthed(cur)
  BY <1>1, <1>2 DEF UpkeepInv, Upkeep, Expires
<1>3. CASE ~AgentAuthed(cur)
  BY <1>1, <1>3 DEF UpkeepInv, Upkeep, Swept, Served
<1> QED
  BY <1>2, <1>3

LEMMA UpkeepInit == ASSUME Init PROVE Upkeep
  BY DEF Init, Upkeep, Proven, OwnTimer, Expires, Swept, Served

------------------------------------------------------------------------------
(* What a step takes in hand, and what it proves *)

\* A handler or a timer keeps the room it has, takes the one in the map or lets
\* go; a room comes into the map from nobody's hands.
LEMMA Hands ==
  ASSUME Typed, [Next]_vars
  PROVE  /\ \A c \in Conn : ref'[c] \in {ref[c], cur, cur', None}
         /\ \A t \in TimerId : tref'[t] \in {tref[t], cur, None}
         /\ cur' \in {cur, None} \/ (cur' \in RoomId /\ Garbage(cur'))
<1> DEFINE P == /\ \A c \in Conn : ref'[c] \in {ref[c], cur, cur', None}
                /\ \A t \in TimerId : tref'[t] \in {tref[t], cur, None}
                /\ cur' \in {cur, None} \/ (cur' \in RoomId /\ Garbage(cur'))
<1>0. ref \in [Conn -> RoomId \cup {None}] /\ tref \in [TimerId -> RoomId \cup {None}]
  BY DEF Typed, TypeOK
<1>1. ASSUME NEW c \in AgentConn, AgentNext(c) PROVE P
  <2>1. tref' = tref /\ cur' = cur /\ (ref' = ref \/ ref' = [ref EXCEPT ![c] = None])
    BY <1>1 DEF AgentNext, AuthAgent, Announce, TellOnline, DetachPending, DetachAgent, DetachDone, Gone
  <2> QED BY <1>0, <2>1
<1>2. ASSUME NEW c \in ViewerConn, ViewerNext(c) PROVE P
  <2>1. tref' = tref /\ cur' = cur /\ (ref' = ref \/ ref' = [ref EXCEPT ![c] = None])
    BY <1>2 DEF ViewerNext, AuthViewer, Greet, CountViewers, NotifyAgent, Park, Unpark, TellCount,
                DetachViewer, DetachDone, Gone
  <2> QED BY <1>0, <2>1
<1>3. ASSUME NEW c \in Conn, ConnNext(c) PROVE P
  <2>1. CASE AttachLookup(c)
    <3>1. tref' = tref
      BY <2>1 DEF AttachLookup
    <3>2. \/ cur' = cur /\ ref' = [ref EXCEPT ![c] = cur]
          \/ cur' \in RoomId /\ Garbage(cur') /\ ref' = [ref EXCEPT ![c] = cur']
      BY <2>1 DEF AttachLookup
    <3> QED BY <1>0, <3>1, <3>2
  <2>2. CASE AttachAdd(c)
    BY <1>0, <2>2 DEF AttachAdd
  <2>3. CASE ReadAuth(c) \/ AuthRefused(c) \/ HangUp(c) \/ Bail(c)
    <3>1. tref' = tref /\ cur' = cur /\ ref' = [ref EXCEPT ![c] = cur]
      BY <2>3 DEF ReadAuth, AuthRefused, HangUp, Bail, Leave
    <3> QED BY <1>0, <3>1
  <2>4. CASE DropEmpty(c)
    <3>1. tref' = tref /\ cur' \in {cur, None} /\ ref' = [ref EXCEPT ![c] = None]
      BY <2>4 DEF DropEmpty, Gone
    <3> QED BY <1>0, <3>1
  <2> QED BY <1>3, <2>1, <2>2, <2>3, <2>4 DEF ConnNext
<1>4. ASSUME NEW t \in TimerId, TimerNext(t) PROVE P
  <2>1. ref' = ref /\ cur' \in {cur, None}
    BY <1>4 DEF TimerNext, TimerFires, ExpireRoom, ExpireClear
  <2>2. tref' = tref \/ tref' = [tref EXCEPT ![t] = cur] \/ tref' = [tref EXCEPT ![t] = None]
    BY <1>4 DEF TimerNext, TimerFires, ExpireRoom, ExpireClear
  <2> QED BY <1>0, <2>1, <2>2
<1>5. OwnerLapses \/ UNCHANGED vars => P
  BY <1>0 DEF OwnerLapses, vars
<1> QED BY <1>1, <1>2, <1>3, <1>4, <1>5 DEF Next

\* A room nobody holds is held by nobody until it is the map's again.
LEMMA GarbageStays ==
  ASSUME Typed, [Next]_vars, NEW r \in RoomId, Garbage(r), cur' # r
  PROVE  Garbage(r)'
<1>1. r # None
  BY RelayConstants
<1>2. cur # r /\ (\A c \in Conn : ref[c] # r) /\ (\A t \in TimerId : tref[t] # r)
  BY DEF Garbage
<1>3. (\A c \in Conn : ref'[c] # r) /\ (\A t \in TimerId : tref'[t] # r)
  BY <1>1, <1>2, Hands
<1> QED BY <1>3 DEF Garbage

\* A step registers a credential, makes a fresh room, or leaves the credentials.
LEMMA Credentials ==
  ASSUME Typed, [Next]_vars,
         NEW r \in RoomId, AgentAuthed(r), cur' = cur \/ cur' # r
  PROVE  AgentAuthed(r)'
<1>0. Typed /\ token \in [RoomId -> Process \cup {None}] /\ pinHash \in [RoomId -> Process \cup {None}]
  BY DEF Typed, TypeOK
<1>1. UNCHANGED <<token, pinHash>> => AgentAuthed(r)'
  BY DEF AgentAuthed
<1>2. ASSUME NEW c \in AgentConn, NEW m \in Presents[c], AuthAgent(c, m) PROVE AgentAuthed(r)'
  <2>1. PICK s \in RoomId : s = ref[c]
    BY <1>2, <1>0 DEF InHand, Typed, AuthAgent, Conn
  <2>2. Proves(s, m.token, m.pin) /\ Register(s, m.token, m.pin)
    BY <1>2, <2>1 DEF AuthAgent
  <2>3. AgentAuthed(s)' /\ \A q \in RoomId \ {s} : token'[q] = token[q] /\ pinHash'[q] = pinHash[q]
    BY <1>0, <2>2, RegisterHolder DEF Typed
  <2> QED BY <2>3 DEF AgentAuthed
<1>3. ASSUME NEW c \in Conn, AttachLookup(c) PROVE AgentAuthed(r)'
  <2>1. CASE UNCHANGED creds
    BY <2>1, <1>1
  <2>2. ASSUME NEW s \in RoomId, Garbage(s), cur' = s,
               token' = [token EXCEPT ![s] = None], pinHash' = [pinHash EXCEPT ![s] = None]
        PROVE  AgentAuthed(r)'
    <3>1. s # r
      BY <2>2 DEF Garbage
    <3> QED BY <1>0, <2>2, <3>1 DEF AgentAuthed
  <2> QED BY <1>3, <2>1, <2>2 DEF AttachLookup
<1>4. ASSUME NEW c \in AgentConn, AgentNext(c) PROVE AgentAuthed(r)'
  <2>1. (\E m \in Presents[c] : AuthAgent(c, m)) \/ UNCHANGED <<token, pinHash>>
    BY <1>4 DEF AgentNext, Announce, TellOnline, DetachPending, DetachAgent
  <2> QED BY <1>1, <1>2, <2>1
<1>5. ASSUME NEW c \in ViewerConn, ViewerNext(c) PROVE AgentAuthed(r)'
  BY <1>1, <1>5
  DEF ViewerNext, AuthViewer, Greet, CountViewers, NotifyAgent, Park, Unpark, TellCount, DetachViewer
<1>6. ASSUME NEW c \in Conn, ConnNext(c) PROVE AgentAuthed(r)'
  <2>1. AttachLookup(c) \/ UNCHANGED <<token, pinHash>>
    BY <1>6 DEF ConnNext, AttachAdd, ReadAuth, AuthRefused, HangUp, Bail, DropEmpty
  <2> QED BY <1>1, <1>3, <2>1
<1>7. ASSUME NEW t \in TimerId, TimerNext(t) PROVE AgentAuthed(r)'
  BY <1>1, <1>7 DEF TimerNext, TimerFires, ExpireRoom, ExpireClear
<1>8. OwnerLapses \/ UNCHANGED vars => AgentAuthed(r)'
  BY <1>1 DEF OwnerLapses, vars
<1> QED BY <1>4, <1>5, <1>6, <1>7, <1>8 DEF Next
------------------------------------------------------------------------------
(* Rooms with viewers or a timer *)

\* The rooms' viewers and timers: what a step adds to them, and where.
LEMMA ProvenStep ==
  ASSUME IInv, Proven, [Next]_vars
  PROVE  Proven'
<1>0. /\ Typed /\ SessionInv
      /\ viewers \in [RoomId -> SUBSET ViewerConn] /\ cleanup \in [RoomId -> TimerId \cup {None}]
  BY DEF IInv, Typed, TypeOK
<1>1. ASSUME cur' = cur \/ cur' = None,
             \A r \in RoomId : viewers'[r] # {} \/ cleanup'[r] # None
                => viewers[r] # {} \/ cleanup[r] # None \/ AgentAuthed(r)
      PROVE  Proven'
  <2>1. \A r \in RoomId : r # None
    BY RelayConstants
  <2>2. \A r \in RoomId : AgentAuthed(r) => AgentAuthed(r)'
    BY <1>0, <1>1, <2>1, Credentials
  <2> QED BY <1>1, <2>2 DEF Proven
<1>2. ASSUME NEW c \in AgentConn, AgentNext(c) PROVE Proven'
  <2>1. ASSUME NEW m \in Presents[c], AuthAgent(c, m) PROVE Proven'
    <3>1. PICK s \in RoomId : s = ref[c]
      BY <2>1, <1>0 DEF InHand, Typed, AuthAgent, Conn
    <3>2. /\ viewers' = [viewers EXCEPT ![s] = @ \ parked] /\ cleanup' = [cleanup EXCEPT ![s] = None]
          /\ cur' = cur
      BY <2>1, <3>1 DEF AuthAgent, DropParked
    <3> QED BY <1>0, <1>1, <3>2
  <2>2. CASE DetachAgent(c)
    <3>1. PICK s \in RoomId : s = ref[c]
      BY <2>2, <1>0 DEF InHand, Typed, DetachAgent, Conn
    <3>2. agent[s] = c /\ c # None
      BY <2>2, <3>1, RelayConstants DEF DetachAgent, Conn
    <3>3. AgentAuthed(s)
      BY <1>0, <3>2 DEF SessionInv
    <3>4. /\ viewers' = [viewers EXCEPT ![s] = @ \ parked] /\ cur' = cur
          /\ \E t \in TimerId : cleanup' = [cleanup EXCEPT ![s] = t]
      BY <2>2, <3>1 DEF DetachAgent, DropParked, ArmCleanup
    <3> QED BY <1>0, <1>1, <3>3, <3>4
  <2>3. CASE Announce(c) \/ TellOnline(c) \/ DetachPending(c)
    BY <1>1, <2>3 DEF Announce, TellOnline, DetachPending
  <2> QED BY <1>2, <2>1, <2>2, <2>3 DEF AgentNext
<1>3. ASSUME NEW c \in ViewerConn, ViewerNext(c) PROVE Proven'
  <2>1. CASE DetachViewer(c)
    <3>1. viewers' = [viewers EXCEPT ![ref[c]] = @ \ {c}] /\ cleanup' = cleanup /\ cur' = cur
      BY <2>1 DEF DetachViewer
    <3> QED BY <1>0, <1>1, <3>1
  <2>2. CASE UNCHANGED <<viewers, cleanup, cur>>
    BY <1>1, <2>2
  <2> QED
    BY <1>3, <2>1, <2>2
    DEF ViewerNext, AuthViewer, Greet, CountViewers, NotifyAgent, Park, Unpark, TellCount
<1>4. ASSUME NEW c \in Conn, ConnNext(c) PROVE Proven'
  <2>1. CASE AttachLookup(c)
    <3>1. CASE UNCHANGED <<room, creds, cur>>
      BY <1>1, <3>1
    <3>2. ASSUME NEW s \in RoomId, cur' = s,
                 viewers' = [viewers EXCEPT ![s] = {}], cleanup' = [cleanup EXCEPT ![s] = None]
          PROVE  Proven'
      <4>1. ASSUME NEW r \in RoomId, viewers'[r] # {} \/ cleanup'[r] # None PROVE AgentAuthed(r)'
        <5>1. r # s /\ AgentAuthed(r)
          BY <1>0, <3>2, <4>1 DEF Proven
        <5> QED BY <1>0, <3>2, <5>1, Credentials
      <4> QED BY <4>1 DEF Proven
    <3> QED BY <2>1, <3>1, <3>2 DEF AttachLookup
  <2>2. CASE AttachAdd(c)
    <3>1. \/ viewers' = viewers
          \/ viewers' = [viewers EXCEPT ![ref[c]] = @ \cup {c}] /\ AgentAuthed(ref[c])
      BY <2>2 DEF AttachAdd
    <3>2. cleanup' = cleanup /\ cur' = cur
      BY <2>2 DEF AttachAdd
    <3> QED BY <1>0, <1>1, <3>1, <3>2
  <2>3. CASE ReadAuth(c) \/ AuthRefused(c) \/ HangUp(c) \/ Bail(c) \/ DropEmpty(c)
    BY <1>1, <2>3 DEF ReadAuth, AuthRefused, HangUp, Bail, DropEmpty
  <2> QED BY <1>4, <2>1, <2>2, <2>3 DEF ConnNext
<1>5. ASSUME NEW t \in TimerId, TimerNext(t) PROVE Proven'
  <2>1. CASE ExpireRoom(t)
    <3>1. /\ cleanup' = [cleanup EXCEPT ![tref[t]] = None] /\ cur' = cur
          /\ viewers' = viewers \/ viewers' = [viewers EXCEPT ![tref[t]] = {}]
      BY <2>1 DEF ExpireRoom
    <3> QED BY <1>0, <1>1, <3>1
  <2>2. CASE TimerFires(t) \/ ExpireClear(t)
    BY <1>1, <2>2 DEF TimerFires, ExpireClear
  <2> QED BY <1>5, <2>1, <2>2 DEF TimerNext
<1>6. OwnerLapses \/ UNCHANGED vars => Proven'
  BY <1>1 DEF OwnerLapses, vars
<1> QED BY <1>2, <1>3, <1>4, <1>5, <1>6 DEF Next

\* The timers the rooms have: a step gives one to a room no room in memory has.
LEMMA OwnTimerStep ==
  ASSUME Typed, OwnTimer, [Next]_vars
  PROVE  OwnTimer'
<1>0. cleanup \in [RoomId -> TimerId \cup {None}]
  BY DEF Typed, TypeOK
<1>1. ASSUME \A r \in RoomId : cleanup'[r] \in {cleanup[r], None}, cur' = cur \/ cur' = None
      PROVE  OwnTimer'
  <2>1. \A r \in RoomId : r # None
    BY RelayConstants
  <2>2. \A r \in RoomId : Garbage(r) => Garbage(r)'
    BY <1>1, <2>1, GarbageStays DEF Garbage
  <2> QED BY <1>1, <2>2 DEF OwnTimer
<1>2. ASSUME NEW c \in AgentConn, AgentNext(c) PROVE OwnTimer'
  <2>1. ASSUME NEW m \in Presents[c], AuthAgent(c, m) PROVE OwnTimer'
    <3>1. cleanup' = [cleanup EXCEPT ![ref[c]] = None] /\ cur' = cur
      BY <2>1 DEF AuthAgent
    <3> QED BY <1>0, <1>1, <3>1
  <2>2. CASE DetachAgent(c)
    <3>1. PICK t \in TimerId : Idle(t) /\ cleanup' = [cleanup EXCEPT ![ref[c]] = t]
      BY <2>2 DEF DetachAgent, ArmCleanup
    <3>2. cur' = cur
      BY <2>2 DEF DetachAgent
    <3>3. \A r \in RoomId : r # None
      BY RelayConstants
    <3>4. \A r \in RoomId : Garbage(r) => Garbage(r)'
      BY <3>2, <3>3, GarbageStays DEF Garbage
    <3>5. \A r \in RoomId : cleanup[r] = t => Garbage(r)
      BY <3>1 DEF Idle
    <3> QED BY <1>0, <3>1, <3>4, <3>5 DEF OwnTimer
  <2>3. CASE Announce(c) \/ TellOnline(c) \/ DetachPending(c)
    BY <1>1, <2>3 DEF Announce, TellOnline, DetachPending
  <2> QED BY <1>2, <2>1, <2>2, <2>3 DEF AgentNext
<1>3. ASSUME NEW c \in ViewerConn, ViewerNext(c) PROVE OwnTimer'
  BY <1>1, <1>3
  DEF ViewerNext, AuthViewer, Greet, CountViewers, NotifyAgent, Park, Unpark, TellCount, DetachViewer
<1>4. ASSUME NEW c \in Conn, ConnNext(c) PROVE OwnTimer'
  <2>1. CASE AttachLookup(c)
    <3>1. CASE UNCHANGED <<room, creds, cur>>
      BY <1>1, <3>1
    <3>2. ASSUME NEW s \in RoomId, cur' = s, cleanup' = [cleanup EXCEPT ![s] = None]
          PROVE  OwnTimer'
      <4>1. \A r \in RoomId \ {s} : Garbage(r) => Garbage(r)'
        BY <3>2, GarbageStays
      <4> QED BY <1>0, <3>2, <4>1 DEF OwnTimer
    <3> QED BY <2>1, <3>1, <3>2 DEF AttachLookup
  <2>2. CASE AttachAdd(c) \/ ReadAuth(c) \/ AuthRefused(c) \/ HangUp(c) \/ Bail(c) \/ DropEmpty(c)
    BY <1>1, <2>2 DEF AttachAdd, ReadAuth, AuthRefused, HangUp, Bail, DropEmpty
  <2> QED BY <1>4, <2>1, <2>2 DEF ConnNext
<1>5. ASSUME NEW t \in TimerId, TimerNext(t) PROVE OwnTimer'
  <2>1. cleanup' = cleanup \/ cleanup' = [cleanup EXCEPT ![tref[t]] = None]
    BY <1>5 DEF TimerNext, TimerFires, ExpireRoom, ExpireClear
  <2>2. cur' \in {cur, None}
    BY <1>5 DEF TimerNext, TimerFires, ExpireRoom, ExpireClear
  <2> QED BY <1>0, <1>1, <2>1, <2>2
<1>6. OwnerLapses \/ UNCHANGED vars => OwnTimer'
  BY <1>1 DEF OwnerLapses, vars
<1> QED BY <1>2, <1>3, <1>4, <1>5, <1>6 DEF Next
\* The timer of another room somebody holds is not the one of the room in the map.
LEMMA NotTheMapsTimer ==
  ASSUME TypeOK, OwnTimer, cur # None, NEW c \in Conn, ref[c] \in RoomId, ref[c] # cur,
         cleanup[cur] # None
  PROVE  cleanup[cur] # cleanup[ref[c]]
  BY DEF TypeOK, OwnTimer, Garbage

LEMMA ExpiresStep ==
  ASSUME IInv, OwnTimer, Expires, [Next]_vars
  PROVE  Expires'
<1>0. /\ Typed /\ TypeOK /\ SessionInv
      /\ agent \in [RoomId -> AgentConn \cup {None}] /\ cleanup \in [RoomId -> TimerId \cup {None}]
      /\ cur \in RoomId \cup {None} /\ None \notin RoomId \cup TimerId \cup AgentConn
      /\ timer \in [TimerId -> {"off", "armed", "expiring", "clearing"}]
      /\ tref \in [TimerId -> RoomId \cup {None}]
  BY RelayConstants DEF IInv, Typed, TypeOK, Conn
<1>1. ASSUME cur' = None \/ UNCHANGED <<cur, agent, creds, cleanup, timer, tref>> PROVE Expires'
  BY <1>1 DEF Expires, Timed, AgentAuthed
<1>2. ASSUME NEW c \in AgentConn, AgentNext(c) PROVE Expires'
  <2>1. ASSUME NEW m \in Presents[c], AuthAgent(c, m) PROVE Expires'
    <3>1. PICK s \in RoomId : s = ref[c]
      BY <2>1, <1>0 DEF InHand, Typed, AuthAgent, Conn
    <3>2. /\ agent' = [agent EXCEPT ![s] = c] /\ cleanup' = [cleanup EXCEPT ![s] = None]
          /\ UNCHANGED <<cur, tref>> /\ StopCleanup(s)
          /\ Proves(s, m.token, m.pin) /\ Register(s, m.token, m.pin)
      BY <2>1, <3>1 DEF AuthAgent, Supersede
    <3>3. CASE cur = s
      BY <1>0, <3>2, <3>3 DEF Expires
    <3>4. ASSUME cur # s, cur # None, agent'[cur] = None, AgentAuthed(cur)' PROVE Timed(cur)'
      <4>1. token'[cur] = token[cur] /\ pinHash'[cur] = pinHash[cur]
        BY <1>0, <3>2, <3>4, RegisterHolder
      <4>2. AgentAuthed(cur)
        BY <3>2, <3>4, <4>1 DEF AgentAuthed
      <4>3. Timed(cur)
        BY <1>0, <3>2, <3>4, <4>2 DEF Expires
      <4>4. cleanup[cur] # None => cleanup[cur] # cleanup[s]
        BY <1>0, <3>1, <3>4, NotTheMapsTimer DEF Conn
      <4> QED BY <1>0, <3>2, <3>4, <4>3, <4>4 DEF Timed, StopCleanup
    <3> QED BY <3>2, <3>3, <3>4 DEF Expires
  <2>2. CASE DetachAgent(c)
    <3>1. PICK s \in RoomId : s = ref[c]
      BY <2>2, <1>0 DEF InHand, Typed, DetachAgent, Conn
    <3>2. /\ agent' = [agent EXCEPT ![s] = None] /\ UNCHANGED <<cur, tref, creds>>
      BY <2>2, <3>1 DEF DetachAgent
    <3>3. PICK t \in TimerId :
            /\ cleanup' = [cleanup EXCEPT ![s] = t]
            /\ timer' = [u \in TimerId |-> IF u = t THEN "armed"
                          ELSE IF u = cleanup[s] /\ timer[u] = "armed" THEN "off" ELSE timer[u]]
      BY <2>2, <3>1 DEF DetachAgent, ArmCleanup
    <3>4. CASE cur = s
      BY <1>0, <3>2, <3>3, <3>4 DEF Expires, Timed
    <3>5. ASSUME cur # s, cur # None, agent'[cur] = None, AgentAuthed(cur)' PROVE Timed(cur)'
      <4>1. AgentAuthed(cur) /\ agent[cur] = None
        BY <1>0, <3>2, <3>5 DEF AgentAuthed
      <4>2. Timed(cur)
        BY <3>5, <4>1 DEF Expires
      <4>3. cleanup[cur] # None => cleanup[cur] # cleanup[s]
        BY <1>0, <3>1, <3>5, NotTheMapsTimer DEF Conn
      <4> QED BY <1>0, <3>2, <3>3, <3>5, <4>2, <4>3 DEF Timed
    <3> QED BY <3>2, <3>4, <3>5 DEF Expires
  <2>3. CASE Announce(c) \/ TellOnline(c) \/ DetachPending(c)
    BY <1>1, <2>3 DEF Announce, TellOnline, DetachPending
  <2> QED BY <1>2, <2>1, <2>2, <2>3 DEF AgentNext
<1>3. ASSUME NEW c \in ViewerConn, ViewerNext(c) PROVE Expires'
  BY <1>1, <1>3
  DEF ViewerNext, AuthViewer, Greet, CountViewers, NotifyAgent, Park, Unpark, TellCount, DetachViewer
<1>4. ASSUME NEW c \in Conn, ConnNext(c) PROVE Expires'
  <2>1. CASE AttachLookup(c)
    <3>1. CASE UNCHANGED <<room, creds, cur>>
      BY <1>1, <2>1, <3>1 DEF AttachLookup
    <3>2. ASSUME NEW s \in RoomId, cur' = s,
                 token' = [token EXCEPT ![s] = None], pinHash' = [pinHash EXCEPT ![s] = None]
          PROVE  Expires'
      <4>1. ~AgentAuthed(cur)'
        BY <1>0, <3>2 DEF AgentAuthed, TypeOK
      <4> QED BY <4>1 DEF Expires
    <3> QED BY <2>1, <3>1, <3>2 DEF AttachLookup
  <2>2. CASE DropEmpty(c)
    <3>1. UNCHANGED <<agent, creds, cleanup, timer, tref>> /\ cur' \in {cur, None}
      BY <2>2 DEF DropEmpty
    <3> QED BY <1>1, <3>1
  <2>3. CASE AttachAdd(c) \/ ReadAuth(c) \/ AuthRefused(c) \/ HangUp(c) \/ Bail(c)
    BY <1>1, <2>3 DEF AttachAdd, ReadAuth, AuthRefused, HangUp, Bail
  <2> QED BY <1>4, <2>1, <2>2, <2>3 DEF ConnNext
<1>5. ASSUME NEW t \in TimerId, TimerNext(t) PROVE Expires'
  <2>1. CASE TimerFires(t)
    <3>1. /\ UNCHANGED <<agent, creds, cleanup, cur>> /\ timer[t] = "armed"
          /\ timer' = [timer EXCEPT ![t] = IF cur = None THEN "off" ELSE "expiring"]
          /\ tref' = [tref EXCEPT ![t] = cur]
      BY <2>1 DEF TimerFires
    <3>2. tref'[t] = cur
      BY <1>0, <3>1
    <3> QED BY <3>1, <3>2 DEF Expires, Timed
  <2>2. CASE ExpireRoom(t)
    <3>1. PICK s \in RoomId : s = tref[t]
      BY <2>2, <1>0 DEF InHand, Typed, ExpireRoom
    <3>2. /\ UNCHANGED <<agent, creds, cur>> /\ timer[t] = "expiring"
          /\ cleanup' = [cleanup EXCEPT ![s] = None]
          /\ (\A u \in TimerId \ {t} : timer'[u] = timer[u] /\ tref'[u] = tref[u])
          /\ (agent[s] = None => tref' = tref)
      BY <1>0, <2>2, <3>1 DEF ExpireRoom
    <3>3. CASE cur = s
      BY <3>1, <3>2, <3>3 DEF Expires, Timed
    <3>4. CASE cur # s /\ Timed(cur)
      <4>1. Timed(cur)'
        BY <1>0, <3>1, <3>2, <3>4 DEF Timed
      <4> QED BY <3>2, <4>1 DEF Expires
    <3>5. CASE ~Timed(cur)
      BY <3>2, <3>5 DEF Expires, AgentAuthed
    <3> QED BY <3>3, <3>4, <3>5
  <2>3. CASE ExpireClear(t)
    <3>1. /\ UNCHANGED <<agent, creds, cleanup>> /\ timer[t] = "clearing"
          /\ cur' = IF cur = tref[t] THEN None ELSE cur
          /\ (\A u \in TimerId \ {t} : timer'[u] = timer[u] /\ tref'[u] = tref[u])
      BY <1>0, <2>3 DEF ExpireClear
    <3>2. CASE cur = tref[t]
      BY <1>1, <3>1, <3>2
    <3>3. CASE cur # tref[t]
      <4>1. Timed(cur) => Timed(cur)'
        BY <1>0, <3>1, <3>3 DEF Timed
      <4> QED BY <3>1, <3>3, <4>1 DEF Expires, AgentAuthed
    <3> QED BY <3>2, <3>3
  <2> QED BY <1>5, <2>1, <2>2, <2>3 DEF TimerNext
<1>6. OwnerLapses \/ UNCHANGED vars => Expires'
  BY <1>1 DEF OwnerLapses, vars
<1> QED BY <1>2, <1>3, <1>4, <1>5, <1>6 DEF Next
------------------------------------------------------------------------------
(* A room nobody has authenticated in *)

\* A room without a credential has no agent, no viewers and no timer.
LEMMA Unproven ==
  ASSUME IInv, Proven, NEW r \in RoomId, ~AgentAuthed(r)
  PROVE  agent[r] = None /\ viewers[r] = {} /\ cleanup[r] = None
  BY DEF IInv, SessionInv, Proven

LEMMA SweptStep ==
  ASSUME IInv, Proven, Swept, [Next]_vars
  PROVE  Swept'
<1>0. /\ Typed /\ TypeOK /\ SessionInv
      /\ pending \in [RoomId -> SUBSET AgentConn] /\ pc \in [Conn -> Positions]
      /\ ref \in [Conn -> RoomId \cup {None}]
      /\ cur \in RoomId \cup {None} /\ None \notin RoomId \cup Conn
      /\ AgentConn \cap ViewerConn = {} /\ Conn = AgentConn \cup ViewerConn
  BY RelayConstants DEF IInv, Typed, TypeOK, Conn
\* It had no agent, and somebody waited there or swept.
<1>1. ASSUME cur # None, cur' = cur, ~AgentAuthed(cur)'
      PROVE  /\ agent[cur] = None /\ viewers[cur] = {} /\ cleanup[cur] = None
             /\ pending[cur] # {} \/ \E c \in Conn : Tends(c, cur)
  <2>1. ~AgentAuthed(cur)
    BY <1>0, <1>1, Credentials DEF AgentAuthed
  <2> QED BY <1>0, <1>1, <2>1, Unproven DEF Swept
\* Every step of a handler that does not tend a room, and keeps who is pending.
<1>2. ASSUME cur' \in {cur, None},
             cur # None => pending[cur] = {} \/ pending'[cur] # {},
             \A d \in Conn : cur # None /\ cur' = cur /\ Tends(d, cur)
                              => Tends(d, cur)' \/ pending'[cur] # {}
      PROVE  Swept'
  <2>1. SUFFICES ASSUME cur' # None, agent'[cur'] = None, ~AgentAuthed(cur)'
                 PROVE  pending'[cur] # {} \/ \E c \in Conn : Tends(c, cur)'
    BY <1>2 DEF Swept, Tends, AgentAuthed
  <2>2. pending[cur] # {} \/ \E c \in Conn : Tends(c, cur)
    BY <1>1, <1>2, <2>1
  <2> QED BY <1>2, <2>1, <2>2
<1>3. ASSUME NEW c \in Conn, cur' \in {cur, None}, pending' = pending,
             pc[c] \notin {"attaching", "detaching", "empty"},
             \A d \in Conn \ {c} : pc'[d] = pc[d] /\ ref'[d] = ref[d]
      PROVE  Swept'
  BY <1>2, <1>3 DEF Tends
\* A handler that leaves the room it detaches from leaves it to somebody.
<1>4. ASSUME NEW c \in Conn, NEW r \in RoomId, r = ref[c], pc[c] = "detaching", cur' = cur,
             viewers'[cur] = {} \/ viewers[cur] # {}, UNCHANGED <<agent, cleanup>>,
             \A q \in RoomId \ {r} : pending'[q] = pending[q],
             DetachDone(c, r)
      PROVE  Swept'
  <2>1. \A d \in Conn \ {c} : pc'[d] = pc[d] /\ ref'[d] = ref[d]
    BY <1>0, <1>4 DEF DetachDone, Gone, Goto
  <2>2. CASE cur # r
    BY <1>0, <1>2, <1>4, <2>1, <2>2 DEF Tends
  <2>3. CASE cur = r
    <3>1. SUFFICES ASSUME ~AgentAuthed(cur)', pending'[r] = {} PROVE Tends(c, cur)'
      BY <1>4, <2>3 DEF Swept
    <3>2. agent'[r] = None /\ viewers'[r] = {} /\ cleanup'[r] = None
      BY <1>0, <1>1, <1>4, <2>3, <3>1
    <3>3. Goto(c, "empty") /\ UNCHANGED ref
      BY <1>4, <3>1, <3>2 DEF DetachDone
    <3> QED BY <1>0, <1>4, <2>3, <3>3 DEF Tends, Goto
  <2> QED BY <2>2, <2>3
<1>5. ASSUME NEW c \in AgentConn, AgentNext(c) PROVE Swept'
  <2>1. ASSUME NEW m \in Presents[c], AuthAgent(c, m) PROVE Swept'
    <3>1. PICK s \in RoomId : s = ref[c]
      BY <2>1, <1>0 DEF InHand, Typed, AuthAgent
    <3>2. /\ cur' = cur /\ pc[c] = "auth" /\ agent' = [agent EXCEPT ![s] = c]
          /\ pending' = [pending EXCEPT ![s] = {}]
          /\ \A d \in Conn \ {c} : pc'[d] = pc[d] /\ ref'[d] = ref[d]
      BY <1>0, <2>1, <3>1 DEF AuthAgent, Supersede, Goto
    <3>3. CASE cur = s
      <4>1. agent'[cur] = c /\ c # None
        BY <1>0, <3>2, <3>3 DEF TypeOK
      <4> QED BY <3>2, <4>1 DEF Swept
    <3>4. CASE cur # s
      BY <1>0, <1>2, <3>2, <3>4 DEF Tends
    <3> QED BY <3>3, <3>4
  <2>2. CASE Announce(c) \/ TellOnline(c)
    <3>1. /\ cur' = cur /\ pending' = pending /\ pc[c] \in {"announce", "telling"} /\ ref' = ref
          /\ \A d \in Conn \ {c} : pc'[d] = pc[d]
      BY <1>0, <2>2 DEF Announce, TellOnline, Goto
    <3> QED BY <1>0, <1>3, <3>1
  <2>3. CASE DetachPending(c)
    <3>1. PICK r \in RoomId : r = ref[c]
      BY <2>3, <1>0 DEF InHand, Typed, DetachPending
    <3>2. /\ pc[c] = "detaching" /\ cur' = cur /\ UNCHANGED <<agent, cleanup, viewers>>
          /\ pending' = [pending EXCEPT ![r] = @ \ {c}] /\ DetachDone(c, r)
      BY <2>3, <3>1 DEF DetachPending
    <3> QED BY <1>0, <1>4, <3>1, <3>2
  <2>4. CASE DetachAgent(c)
    <3>1. PICK r \in RoomId : r = ref[c]
      BY <2>4, <1>0 DEF InHand, Typed, DetachAgent
    <3>2. /\ cur' = cur /\ pending' = pending /\ UNCHANGED creds /\ agent[r] = c /\ DetachDone(c, r)
      BY <2>4, <3>1 DEF DetachAgent
    <3>3. \A d \in Conn \ {c} : pc'[d] = pc[d] /\ ref'[d] = ref[d]
      BY <1>0, <3>2 DEF DetachDone, Gone, Goto
    <3>4. CASE cur = r
      BY <1>0, <3>2, <3>4 DEF Swept, SessionInv, AgentAuthed
    <3>5. CASE cur # r
      BY <1>0, <1>2, <3>1, <3>2, <3>3, <3>5 DEF Tends
    <3> QED BY <3>4, <3>5
  <2> QED BY <1>5, <2>1, <2>2, <2>3, <2>4 DEF AgentNext
<1>6. ASSUME NEW c \in ViewerConn, ViewerNext(c) PROVE Swept'
  <2>1. CASE DetachViewer(c)
    <3>1. PICK r \in RoomId : r = ref[c]
      BY <2>1, <1>0 DEF InHand, Typed, DetachViewer
    <3>2. /\ pc[c] = "detaching" /\ cur' = cur /\ UNCHANGED <<agent, cleanup, pending>>
          /\ viewers' = [viewers EXCEPT ![r] = @ \ {c}] /\ DetachDone(c, r)
      BY <2>1, <3>1 DEF DetachViewer
    <3>3. cur # None => viewers'[cur] = {} \/ viewers[cur] # {}
      BY <1>0, <3>2 DEF TypeOK
    <3>4. CASE cur # None
      BY <1>0, <1>4, <3>1, <3>2, <3>3, <3>4
    <3> QED BY <3>2, <3>4 DEF Swept
  <2>2. CASE ~DetachViewer(c)
    <3>1. /\ cur' = cur /\ pending' = pending
          /\ pc[c] \in {"auth", "greetOnline", "greetOffline", "count", "notify", "reading", "tellCount"}
          /\ \A d \in Conn \ {c} : pc'[d] = pc[d] /\ ref'[d] = ref[d]
      BY <1>0, <1>6, <2>2
      DEF ViewerNext, AuthViewer, Greet, CountViewers, NotifyAgent, Park, Unpark, TellCount, Goto
    <3> QED BY <1>0, <1>3, <3>1
  <2> QED BY <2>1, <2>2
<1>7. ASSUME NEW c \in Conn, ConnNext(c) PROVE Swept'
  <2>1. CASE AttachLookup(c)
    <3>1. pc[c] = "idle" /\ pc' = [pc EXCEPT ![c] = "attaching"]
      BY <2>1 DEF AttachLookup, Goto
    <3>2. CASE UNCHANGED <<room, creds, cur>> /\ ref' = [ref EXCEPT ![c] = cur]
      BY <1>0, <1>3, <3>1, <3>2
    <3>3. CASE c \in AgentConn /\ cur' \in RoomId /\ ref' = [ref EXCEPT ![c] = cur']
      BY <1>0, <3>1, <3>3 DEF Swept, Tends
    <3> QED BY <2>1, <3>2, <3>3 DEF AttachLookup
  <2>2. CASE AttachAdd(c)
    <3>1. /\ cur' = cur /\ pc[c] = "attaching" /\ ref[c] \in RoomId
          /\ \A d \in Conn \ {c} : pc'[d] = pc[d] /\ ref'[d] = ref[d]
      BY <1>0, <2>2 DEF AttachAdd, Goto, InHand, Typed
    <3>2. /\ c \in AgentConn => pending' = [pending EXCEPT ![ref[c]] = @ \cup {c}]
          /\ c \in ViewerConn => pending' = pending
      BY <1>0, <2>2 DEF AttachAdd
    <3> QED BY <1>0, <1>2, <3>1, <3>2 DEF Tends
  <2>3. CASE ReadAuth(c) \/ AuthRefused(c) \/ HangUp(c) \/ Bail(c)
    <3>1. /\ cur' = cur /\ pending' = pending /\ pc[c] \in {"reading", "auth"}
          /\ \A d \in Conn \ {c} : pc'[d] = pc[d] /\ ref'[d] = ref[d]
      BY <1>0, <2>3 DEF ReadAuth, AuthRefused, HangUp, Bail, Leave, Goto
    <3> QED BY <1>0, <1>3, <3>1
  <2>4. CASE DropEmpty(c)
    <3>1. /\ UNCHANGED <<agent, pending, viewers, cleanup, creds>>
          /\ cur' = IF cur = ref[c] /\ Empty(cur) THEN None ELSE cur
          /\ \A d \in Conn \ {c} : pc'[d] = pc[d] /\ ref'[d] = ref[d]
      BY <1>0, <2>4 DEF DropEmpty, Gone, Goto
    <3>2. ASSUME cur # None, cur' = cur, cur = ref[c], ~AgentAuthed(cur)' PROVE pending'[cur] # {}
      BY <1>1, <3>1, <3>2 DEF Empty
    <3>3. CASE cur = ref[c]
      BY <3>1, <3>2, <3>3 DEF Swept
    <3>4. CASE cur # ref[c]
      BY <1>0, <1>2, <3>1, <3>4 DEF Tends
    <3> QED BY <3>3, <3>4
  <2> QED BY <1>7, <2>1, <2>2, <2>3, <2>4 DEF ConnNext
<1>8. ASSUME NEW t \in TimerId, TimerNext(t) PROVE Swept'
  <2>1. cur' \in {cur, None} /\ pending' = pending /\ UNCHANGED <<pc, ref>>
    BY <1>8 DEF TimerNext, TimerFires, ExpireRoom, ExpireClear
  <2> QED BY <1>2, <2>1 DEF Tends
<1>9. ASSUME OwnerLapses \/ UNCHANGED vars PROVE Swept'
  <2>1. UNCHANGED <<cur, pending, pc, ref>>
    BY <1>9 DEF OwnerLapses, vars
  <2> QED BY <1>2, <2>1 DEF Tends
<1> QED BY <1>5, <1>6, <1>7, <1>8, <1>9 DEF Next

LEMMA ServedStep ==
  ASSUME IInv, Served, [Next]_vars
  PROVE  Served'
<1>0. /\ Typed /\ TypeOK
      /\ agent \in [RoomId -> AgentConn \cup {None}] /\ viewers \in [RoomId -> SUBSET ViewerConn]
      /\ pending \in [RoomId -> SUBSET AgentConn] /\ pc \in [Conn -> Positions]
      /\ ref \in [Conn -> RoomId \cup {None}]
      /\ cur \in RoomId \cup {None} /\ None \notin RoomId \cup Conn
      /\ AgentConn \cap ViewerConn = {} /\ Conn = AgentConn \cup ViewerConn
  BY RelayConstants DEF IInv, Typed, TypeOK, Conn
<1>1. Typed'
  BY TypedStep DEF IInv
\* An agent is in a room as the agent or pending.
<1>2. /\ \A r \in RoomId, c \in AgentConn : PeerIn(r, c) <=> c = agent[r] \/ c \in pending[r]
      /\ \A r \in RoomId, c \in AgentConn : PeerIn(r, c)' <=> c = agent'[r] \/ c \in pending'[r]
  <2>1. viewers' \in [RoomId -> SUBSET ViewerConn]
    BY <1>1 DEF Typed, TypeOK
  <2> QED BY <1>0, <2>1 DEF PeerIn
\* A step that lets nobody more into the room in the map, of a handler that is
\* not pending there.
<1>3. ASSUME NEW c \in Conn, cur' \in {cur, None},
             cur # None => /\ agent'[cur] \in {agent[cur], None}
                           /\ pending'[cur] \subseteq pending[cur] \ {c},
             \A d \in Conn \ {c} : pc'[d] = pc[d] /\ ref'[d] = ref[d],
             pc'[c] # "attaching"
      PROVE  Served'
  <2>1. SUFFICES ASSUME cur # None, cur' = cur PROVE Served'
    BY <1>3 DEF Served
  <2>2. \A d \in pending'[cur] : d \in pending[cur] /\ d # c /\ d \in AgentConn
    BY <1>0, <1>3, <2>1
  <2> QED BY <1>0, <1>2, <1>3, <2>1, <2>2 DEF Served
<1>4. ASSUME NEW c \in AgentConn, AgentNext(c) PROVE Served'
  <2>1. ASSUME NEW m \in Presents[c], AuthAgent(c, m) PROVE Served'
    <3>1. PICK s \in RoomId : s = ref[c]
      BY <2>1, <1>0 DEF InHand, Typed, AuthAgent
    <3>2. /\ cur' = cur /\ pc[c] = "auth" /\ agent' = [agent EXCEPT ![s] = c]
          /\ pending' = [pending EXCEPT ![s] = {}] /\ pc'[c] # "attaching"
          /\ \A d \in Conn \ {c} : pc'[d] = pc[d] /\ ref'[d] = ref[d]
      BY <1>0, <2>1, <3>1 DEF AuthAgent, Supersede, Goto
    <3>3. CASE cur = s
      <4>1. agent'[cur] = c /\ pending'[cur] = {}
        BY <1>0, <3>2, <3>3
      <4> QED BY <1>0, <1>2, <3>2, <3>3, <4>1 DEF Served
    <3>4. CASE cur # s
      BY <1>0, <1>3, <3>1, <3>2, <3>4 DEF Served
    <3> QED BY <3>3, <3>4
  <2>2. CASE Announce(c) \/ TellOnline(c)
    <3>1. /\ UNCHANGED <<cur, pending, agent, ref>> /\ pc[c] \in {"announce", "telling"}
          /\ pc'[c] # "attaching" /\ \A d \in Conn \ {c} : pc'[d] = pc[d]
      BY <1>0, <2>2 DEF Announce, TellOnline, Goto
    <3> QED BY <1>0, <1>3, <3>1 DEF Served
  <2>3. ASSUME DetachPending(c) \/ DetachAgent(c) PROVE Served'
    <3>1. PICK r \in RoomId : r = ref[c]
      BY <2>3, <1>0 DEF InHand, Typed, DetachPending, DetachAgent
    <3>2. /\ pc[c] = "detaching" /\ cur' = cur /\ DetachDone(c, r)
          /\ \/ agent' = agent /\ pending' = [pending EXCEPT ![r] = @ \ {c}]
             \/ agent[r] = c /\ agent' = [agent EXCEPT ![r] = None] /\ pending' = pending
      BY <2>3, <3>1 DEF DetachPending, DetachAgent
    <3>3. (\A d \in Conn \ {c} : pc'[d] = pc[d] /\ ref'[d] = ref[d]) /\ pc'[c] # "attaching"
      BY <1>0, <3>2 DEF DetachDone, Gone, Goto
    <3>4. cur # None => agent'[cur] \in {agent[cur], None} /\ pending'[cur] \subseteq pending[cur] \ {c}
      BY <1>0, <3>1, <3>2 DEF Served
    <3> QED BY <1>0, <1>3, <3>2, <3>3, <3>4
  <2> QED BY <1>4, <2>1, <2>2, <2>3 DEF AgentNext
<1>5. ASSUME NEW c \in ViewerConn, ViewerNext(c) PROVE Served'
  <2>1. /\ UNCHANGED <<cur, agent, pending>> /\ pc'[c] # "attaching"
        /\ \A d \in Conn \ {c} : pc'[d] = pc[d] /\ ref'[d] = ref[d]
    BY <1>0, <1>5
    DEF ViewerNext, AuthViewer, Greet, CountViewers, NotifyAgent, Park, Unpark, TellCount,
        DetachViewer, DetachDone, Gone, Goto
  <2> QED BY <1>0, <1>3, <2>1
<1>6. ASSUME NEW c \in Conn, ConnNext(c) PROVE Served'
  <2>1. CASE AttachLookup(c)
    <3>1. Fresh(c) /\ pc[c] = "idle" /\ \A d \in Conn \ {c} : pc'[d] = pc[d] /\ ref'[d] = ref[d]
      BY <1>0, <2>1 DEF AttachLookup, Goto
    <3>2. CASE UNCHANGED <<room, creds, cur>>
      <4>1. cur # None => ~PeerIn(cur, c)
        BY <1>0, <3>1 DEF Fresh, Garbage
      <4> QED BY <1>0, <1>2, <3>1, <3>2, <4>1 DEF Served
    <3>3. ASSUME NEW s \in RoomId, cur' = s, agent' = [agent EXCEPT ![s] = None],
                 pending' = [pending EXCEPT ![s] = {}]
          PROVE  Served'
      <4>1. agent'[cur'] = None /\ pending'[cur'] = {}
        BY <1>0, <3>3
      <4> QED BY <1>0, <1>2, <3>3, <4>1 DEF Served
    <3> QED BY <2>1, <3>2, <3>3 DEF AttachLookup
  <2>2. CASE AttachAdd(c)
    <3>1. /\ UNCHANGED <<cur, agent>> /\ pc[c] = "attaching" /\ ref[c] \in RoomId
          /\ \A d \in Conn \ {c} : pc'[d] = pc[d] /\ ref'[d] = ref[d]
      BY <1>0, <2>2 DEF AttachAdd, Goto, InHand, Typed
    <3>2. CASE c \in AgentConn
      <4>1. pending' = [pending EXCEPT ![ref[c]] = @ \cup {c}] /\ pc'[c] = "reading"
        BY <1>0, <2>2, <3>2 DEF AttachAdd, Goto
      <4>2. cur # None => ~PeerIn(cur, c)
        BY <3>1, <3>2 DEF Served
      <4> QED BY <1>0, <1>2, <3>1, <3>2, <4>1, <4>2 DEF Served
    <3>3. CASE c \in ViewerConn
      <4>1. pending' = pending /\ pc'[c] # "attaching"
        BY <1>0, <2>2, <3>3 DEF AttachAdd, Goto
      <4> QED BY <1>0, <1>3, <3>1, <3>3, <4>1
    <3> QED BY <1>0, <3>2, <3>3
  <2>3. CASE ReadAuth(c) \/ AuthRefused(c) \/ HangUp(c) \/ Bail(c)
    <3>1. /\ UNCHANGED <<cur, agent, pending>> /\ ref'[c] = cur
          /\ pc'[c] \in IF cur = None THEN {"idle"} ELSE {"auth", "detaching"}
          /\ \A d \in Conn \ {c} : pc'[d] = pc[d] /\ ref'[d] = ref[d]
      BY <1>0, <2>3 DEF ReadAuth, AuthRefused, HangUp, Bail, Leave, Goto
    <3> QED BY <1>0, <1>2, <3>1 DEF Served
  <2>4. CASE DropEmpty(c)
    <3>1. /\ UNCHANGED <<agent, pending>> /\ cur' \in {cur, None}
          /\ pc[c] = "empty" /\ pc'[c] = "idle"
          /\ \A d \in Conn \ {c} : pc'[d] = pc[d] /\ ref'[d] = ref[d]
      BY <1>0, <2>4 DEF DropEmpty, Gone, Goto
    <3> QED BY <1>0, <1>3, <3>1 DEF Served
  <2> QED BY <1>6, <2>1, <2>2, <2>3, <2>4 DEF ConnNext
<1>7. ASSUME UNCHANGED <<agent, pending, pc, ref>>, cur' \in {cur, None} PROVE Served'
  BY <1>0, <1>2, <1>7 DEF Served
<1>8. ASSUME NEW t \in TimerId, TimerNext(t) PROVE Served'
  BY <1>7, <1>8 DEF TimerNext, TimerFires, ExpireRoom, ExpireClear
<1>9. OwnerLapses \/ UNCHANGED vars => Served'
  BY <1>7 DEF OwnerLapses, vars
<1> QED BY <1>4, <1>5, <1>6, <1>8, <1>9 DEF Next

------------------------------------------------------------------------------
\* A room without an agent is removed by somebody: a connection that waits in
\* it and is served, a handler on its way in or out, or a timer (detach,
\* expireRoom).
THEOREM NoRoomIsLeaked == Spec => []NoLeakedRoom
<1>1. Init => UpkeepInv
  BY TypedInit, SessionInit, UpkeepInit DEF UpkeepInv, IInv
<1>2. UpkeepInv /\ [Next]_vars => UpkeepInv'
  BY TypedStep, SessionStep, ProvenStep, OwnTimerStep, ExpiresStep, SweptStep, ServedStep
  DEF UpkeepInv, Upkeep, IInv
<1>3. UpkeepInv => NoLeakedRoom
  BY UpkeepMeans
<1> QED BY <1>1, <1>2, <1>3, PTL DEF Spec
------------------------------------------------------------------------------
(* Parked viewers *)

\* A viewer parks under the agent of the room in the map; an agent that comes
\* finds no parked viewer left in its room.
LEMMA ParkedStep ==
  ASSUME Typed, ParkedUnderThisAgent, [Next]_vars
  PROVE  ParkedUnderThisAgent'
<1>0. /\ agent \in [RoomId -> AgentConn \cup {None}] /\ viewers \in [RoomId -> SUBSET ViewerConn]
      /\ cur \in RoomId \cup {None} /\ None \notin RoomId \cup Conn
      /\ parkedUnder \in [ViewerConn -> AgentConn \cup {None}]
  BY RelayConstants DEF Typed, TypeOK
\* No agent comes and nobody parks.
<1>1. ASSUME cur' \in {cur, None}, \A r \in RoomId : agent'[r] \in {agent[r], None},
             \A r \in RoomId : viewers'[r] \cap parked' \subseteq viewers[r] \cap parked,
             parkedUnder' = parkedUnder
      PROVE  ParkedUnderThisAgent'
  BY <1>0, <1>1 DEF ParkedUnderThisAgent
<1>2. ASSUME NEW c \in AgentConn, AgentNext(c) PROVE ParkedUnderThisAgent'
  <2>1. ASSUME NEW m \in Presents[c], AuthAgent(c, m) PROVE ParkedUnderThisAgent'
    <3>1. PICK s \in RoomId : s = ref[c]
      BY <2>1 DEF InHand, Typed, AuthAgent, Conn
    <3>2. /\ agent' = [agent EXCEPT ![s] = c] /\ viewers' = [viewers EXCEPT ![s] = @ \ parked]
          /\ UNCHANGED <<cur, parked, parkedUnder>>
      BY <2>1, <3>1 DEF AuthAgent, Supersede, DropParked
    <3>3. /\ viewers'[s] \cap parked' = {}
          /\ \A r \in RoomId \ {s} : agent'[r] = agent[r] /\ viewers'[r] = viewers[r]
      BY <1>0, <3>2
    <3> QED BY <3>2, <3>3 DEF ParkedUnderThisAgent
  <2>2. CASE DetachAgent(c)
    <3>1. /\ agent' = [agent EXCEPT ![ref[c]] = None]
          /\ viewers' = [viewers EXCEPT ![ref[c]] = @ \ parked]
          /\ UNCHANGED <<cur, parked, parkedUnder>>
      BY <2>2 DEF DetachAgent, DropParked
    <3> QED BY <1>0, <1>1, <3>1
  <2>3. CASE Announce(c) \/ TellOnline(c) \/ DetachPending(c)
    BY <1>1, <2>3 DEF Announce, TellOnline, DetachPending
  <2> QED BY <1>2, <2>1, <2>2, <2>3 DEF AgentNext
<1>3. ASSUME NEW c \in ViewerConn, ViewerNext(c) PROVE ParkedUnderThisAgent'
  <2>1. CASE Park(c)
    <3>1. /\ parked' = parked \cup {c} /\ parkedUnder' = [parkedUnder EXCEPT ![c] = agent[cur]]
          /\ UNCHANGED <<agent, viewers, cur>>
      BY <2>1 DEF Park
    <3> QED BY <1>0, <3>1 DEF ParkedUnderThisAgent
  <2>2. CASE Unpark(c)
    <3>1. parked' = parked \ {c} /\ UNCHANGED <<agent, viewers, cur, parkedUnder>>
      BY <2>2 DEF Unpark
    <3> QED BY <1>1, <3>1
  <2>3. CASE DetachViewer(c)
    <3>1. viewers' = [viewers EXCEPT ![ref[c]] = @ \ {c}] /\ UNCHANGED <<agent, cur, parked, parkedUnder>>
      BY <2>3 DEF DetachViewer
    <3> QED BY <1>0, <1>1, <3>1
  <2>4. CASE AuthViewer(c) \/ Greet(c) \/ CountViewers(c) \/ NotifyAgent(c) \/ TellCount(c)
    BY <1>1, <2>4 DEF AuthViewer, Greet, CountViewers, NotifyAgent, TellCount
  <2> QED BY <1>3, <2>1, <2>2, <2>3, <2>4 DEF ViewerNext
<1>4. ASSUME NEW c \in Conn, ConnNext(c) PROVE ParkedUnderThisAgent'
  <2>1. CASE AttachLookup(c)
    <3>1. CASE UNCHANGED <<room, creds, cur>>
      BY <1>1, <2>1, <3>1 DEF AttachLookup
    <3>2. ASSUME NEW s \in RoomId, cur' = s, agent' = [agent EXCEPT ![s] = None]
          PROVE  ParkedUnderThisAgent'
      BY <1>0, <3>2 DEF ParkedUnderThisAgent
    <3> QED BY <2>1, <3>1, <3>2 DEF AttachLookup
  <2>2. CASE AttachAdd(c)
    <3>1. /\ parked' = parked \ {c} /\ UNCHANGED <<agent, cur, parkedUnder>>
          /\ viewers' = viewers \/ viewers' = [viewers EXCEPT ![ref[c]] = @ \cup {c}]
      BY <2>2 DEF AttachAdd
    <3> QED BY <1>0, <1>1, <3>1
  <2>3. CASE ReadAuth(c) \/ AuthRefused(c) \/ HangUp(c) \/ Bail(c) \/ DropEmpty(c)
    <3>1. UNCHANGED <<agent, viewers, parked, parkedUnder>> /\ cur' \in {cur, None}
      BY <2>3 DEF ReadAuth, AuthRefused, HangUp, Bail, DropEmpty
    <3> QED BY <1>1, <3>1
  <2> QED BY <1>4, <2>1, <2>2, <2>3 DEF ConnNext
<1>5. ASSUME NEW t \in TimerId, TimerNext(t) PROVE ParkedUnderThisAgent'
  <2>1. /\ cur' \in {cur, None} /\ UNCHANGED <<agent, parked, parkedUnder>>
        /\ viewers' = viewers \/ viewers' = [viewers EXCEPT ![tref[t]] = {}]
    BY <1>5 DEF TimerNext, TimerFires, ExpireRoom, ExpireClear
  <2> QED BY <1>0, <1>1, <2>1
<1>6. OwnerLapses \/ UNCHANGED vars => ParkedUnderThisAgent'
  BY <1>1 DEF OwnerLapses, vars
<1> QED BY <1>2, <1>3, <1>4, <1>5, <1>6 DEF Next

\* A parked viewer that is still in the room parked under the agent there now,
\* whose key it has (dropParkedLocked, park, unpark).
THEOREM ParkedViewerKeepsItsAgent == Spec => []ParkedUnderThisAgent
<1>1. Init => Typed /\ ParkedUnderThisAgent
  BY TypedInit DEF Init, ParkedUnderThisAgent
<1>2. Typed /\ ParkedUnderThisAgent /\ [Next]_vars => (Typed /\ ParkedUnderThisAgent)'
  BY TypedStep, ParkedStep
<1> QED BY <1>1, <1>2, PTL DEF Spec
==============================================================================
