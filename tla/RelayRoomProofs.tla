--------------------------- MODULE RelayRoomProofs ---------------------------
(* What RelayRoom promises of a session ID, for any connections and rooms.   *)
EXTENDS RelayRoom, FiniteSetTheorems, TLAPS

USE DEF room, creds, server, peers, handler, timers, heard, history,
        RoomOK, CredsOK, ServerOK, HandlerOK, TimersOK, HeardOK, HistoryOK

\* A handler or a timer past the Server's map has a room in hand.
InHand ==
  /\ \A c \in Conn : pc[c] \in {"attaching", "auth", "detaching", "empty"} => ref[c] \in RoomId
  /\ \A t \in TimerId : timer[t] \in {"expiring", "clearing"} => tref[t] \in RoomId

Typed == TypeOK /\ InHand

------------------------------------------------------------------------------
(* Counting viewers *)

LEMMA ViewerCount ==
  ASSUME NEW S \in SUBSET ViewerConn
  PROVE  Cardinality(S) \in 0 .. Cardinality(ViewerConn)
<1>1. IsFiniteSet(ViewerConn)
  BY RelayConstants
<1>2. IsFiniteSet(S) /\ Cardinality(S) <= Cardinality(ViewerConn)
  BY <1>1, FS_Subset
<1>3. Cardinality(S) \in Nat /\ Cardinality(ViewerConn) \in Nat
  BY <1>1, <1>2, FS_CardinalityType
<1> QED
  BY <1>2, <1>3

\* Leaving takes one from the count.
LEMMA OneViewerLess ==
  ASSUME NEW S \in SUBSET ViewerConn, NEW c \in S
  PROVE  Cardinality(S) - 1 \in 0 .. Cardinality(ViewerConn)
<1>1. IsFiniteSet(S) /\ Cardinality(S) \in Nat
  BY RelayConstants, FS_Subset, FS_CardinalityType
<1>2. Cardinality(S) # 0
  BY <1>1, FS_EmptySet
<1> QED
  BY <1>1, <1>2, ViewerCount

------------------------------------------------------------------------------
(* Types *)

LEMMA TypedInit == Init => Typed
<1>1. SUFFICES ASSUME Init PROVE Typed
  OBVIOUS
<1>2. 0 \in 0 .. Cardinality(ViewerConn)
  BY FS_CardinalityType, RelayConstants
<1>3. TypeOK
  BY <1>1, <1>2, RelayConstants
  DEF Init, TypeOK, Positions, Untold, Conn
<1>4. InHand
  BY <1>1 DEF Init, InHand
<1> QED
  BY <1>3, <1>4 DEF Typed
\* Where detach leaves its handler.
LEMMA DetachDoneTyped ==
  ASSUME Typed, NEW c \in Conn, ref[c] \in RoomId, DetachDone(c, ref[c])
  PROVE  /\ pc' \in [Conn -> Positions] /\ ref' \in [Conn -> RoomId \cup {None}]
         /\ \A d \in Conn : pc'[d] \in {"attaching", "auth", "detaching", "empty"} => ref'[d] \in RoomId
<1>1. CASE Goto(c, "empty") /\ UNCHANGED ref
  BY <1>1 DEF Goto, Typed, TypeOK, InHand, Positions
<1>2. CASE Gone(c)
  BY <1>2 DEF Gone, Goto, Typed, TypeOK, InHand, Positions
<1> QED
  BY <1>1, <1>2 DEF DetachDone

\* A set loses or keeps some of its members.
LEMMA Fewer ==
  ASSUME NEW D, NEW X, NEW F \in [D -> SUBSET X], NEW r \in D, NEW T
  PROVE  [F EXCEPT ![r] = @ \ T] \in [D -> SUBSET X]
OBVIOUS

\* Every step keeps the types: the agents' steps, the viewers', those of both,
\* and the timers'.
LEMMA TypedAgent ==
  ASSUME Typed, NEW c \in AgentConn, AgentNext(c)
  PROVE  Typed'
<1> USE RelayConstants
    DEF Typed, TypeOK, InHand, Positions, Conn, Goto, Untold
<1>1. ASSUME NEW m \in Presents[c], AuthAgent(c, m) PROVE Typed'
  <2>1. m.token \in Process \cup {None} /\ m.pin \in Process \cup {None}
    OBVIOUS
  <2>2. ref[c] \in RoomId
    BY <1>1 DEF AuthAgent
  <2>3. viewers' \in [RoomId -> SUBSET ViewerConn]
    BY <1>1, <2>2, Fewer DEF AuthAgent, DropParked
  <2>4. RoomOK'
    BY <1>1, <2>2, <2>3 DEF AuthAgent, Supersede
  <2>5. CredsOK'
    <3>1. Register(ref[c], m.token, m.pin) /\ UNCHANGED ownerHash
      BY <1>1 DEF AuthAgent
    <3>2. token' \in [RoomId -> Process \cup {None}]
      BY <2>1, <2>2, <3>1 DEF Register
    <3>3. pinHash' \in [RoomId -> Process \cup {None}]
      BY <2>1, <2>2, <3>1 DEF Register
    <3> QED
      BY <3>1, <3>2, <3>3
  <2>10. ServerOK'
    BY <1>1 DEF AuthAgent
  <2>6. HandlerOK'
    BY <1>1 DEF AuthAgent
  <2>7. TimersOK'
    BY <1>1 DEF AuthAgent, StopCleanup
  <2>8. HeardOK' /\ HistoryOK'
    BY <1>1 DEF AuthAgent
  <2>9. InHand'
    BY <1>1 DEF AuthAgent, StopCleanup
  <2> QED
    BY <2>4, <2>5, <2>6, <2>7, <2>8, <2>9, <2>10
<1>2. ASSUME Announce(c) PROVE Typed'
  <2>1. RoomOK' /\ CredsOK' /\ ServerOK'
    BY <1>2 DEF Announce
  <2>2. HandlerOK'
    BY <1>2 DEF Announce
  <2>3. TimersOK'
    BY <1>2 DEF Announce
  <2>4. HeardOK' /\ HistoryOK'
    BY <1>2 DEF Announce
  <2>5. InHand'
    BY <1>2 DEF Announce
  <2> QED
    BY <2>1, <2>2, <2>3, <2>4, <2>5
<1>3. ASSUME TellOnline(c) PROVE Typed'
  <2>1. RoomOK' /\ CredsOK' /\ ServerOK'
    BY <1>3 DEF TellOnline
  <2>2. HandlerOK'
    <3>1. todo' \in [AgentConn -> SUBSET ViewerConn]
      <4>1. \A v : [todo EXCEPT ![c] = @ \ {v}] \in [AgentConn -> SUBSET ViewerConn]
        BY Fewer
      <4>2. todo' = todo \/ \E v \in todo[c] : todo' = [todo EXCEPT ![c] = @ \ {v}]
        BY <1>3 DEF TellOnline
      <4> QED
        BY <4>1, <4>2
    <3>2. pc' \in [Conn -> Positions]
      BY <1>3 DEF TellOnline
    <3> QED
      BY <1>3, <3>1, <3>2 DEF TellOnline
  <2>3. TimersOK'
    BY <1>3 DEF TellOnline
  <2>4. HeardOK' /\ HistoryOK'
    BY <1>3 DEF TellOnline
  <2>5. InHand'
    BY <1>3 DEF TellOnline
  <2> QED
    BY <2>1, <2>2, <2>3, <2>4, <2>5
<1>4. ASSUME DetachPending(c) PROVE Typed'
  <2>0. ref[c] \in RoomId /\ DetachDone(c, ref[c])
    BY <1>4 DEF DetachPending
  <2>1. RoomOK' /\ CredsOK' /\ ServerOK'
    BY <1>4, <2>0 DEF DetachPending
  <2>2. HandlerOK'
    BY <1>4, <2>0, DetachDoneTyped DEF DetachPending
  <2>3. TimersOK'
    BY <1>4, <2>0 DEF DetachPending
  <2>4. HeardOK' /\ HistoryOK'
    BY <1>4, <2>0 DEF DetachPending
  <2>5. InHand'
    BY <1>4, <2>0, DetachDoneTyped DEF DetachPending
  <2> QED
    BY <2>1, <2>2, <2>3, <2>4, <2>5
<1>5. ASSUME DetachAgent(c) PROVE Typed'
  <2>0. ref[c] \in RoomId /\ DetachDone(c, ref[c])
    BY <1>5 DEF DetachAgent
  <2>1. viewers' \in [RoomId -> SUBSET ViewerConn]
    BY <1>5, <2>0, Fewer DEF DetachAgent, DropParked
  <2>2. RoomOK' /\ TimersOK'
    <3>1. PICK t \in TimerId :
            /\ cleanup' = [cleanup EXCEPT ![ref[c]] = t]
            /\ timer' = [u \in TimerId |-> IF u = t THEN "armed"
                          ELSE IF u = cleanup[ref[c]] /\ timer[u] = "armed" THEN "off" ELSE timer[u]]
      BY <1>5 DEF DetachAgent, ArmCleanup
    <3>2. RoomOK'
      BY <1>5, <2>0, <2>1, <3>1 DEF DetachAgent
    <3>3. TimersOK'
      BY <1>5, <3>1 DEF DetachAgent
    <3> QED
      BY <3>2, <3>3
  <2>3. CredsOK' /\ ServerOK'
    BY <1>5 DEF DetachAgent
  <2>4. HandlerOK'
    BY <1>5, <2>0, DetachDoneTyped DEF DetachAgent
  <2>5. HeardOK' /\ HistoryOK'
    BY <1>5 DEF DetachAgent
  <2>6. \A t \in TimerId : timer'[t] \in {"expiring", "clearing"} => tref'[t] \in RoomId
    BY <1>5 DEF DetachAgent, ArmCleanup
  <2>7. InHand'
    BY <2>0, <2>6, DetachDoneTyped
  <2> QED
    BY <2>2, <2>3, <2>4, <2>5, <2>7
<1> QED
  BY <1>1, <1>2, <1>3, <1>4, <1>5 DEF AgentNext

LEMMA TypedViewer ==
  ASSUME Typed, NEW c \in ViewerConn, ViewerNext(c)
  PROVE  Typed'
<1> USE RelayConstants
    DEF Typed, TypeOK, InHand, Positions, Conn, Goto, Untold
<1>0. 0 \in 0 .. Cardinality(ViewerConn)
  BY FS_CardinalityType
<1>1. ASSUME AuthViewer(c) PROVE Typed'
  BY <1>1 DEF AuthViewer
<1>2. ASSUME Greet(c) PROVE Typed'
  BY <1>2 DEF Greet
<1>3. ASSUME CountViewers(c) PROVE Typed'
  <2>1. \A r \in RoomId : ActiveViewers(r) \in 0 .. Cardinality(ViewerConn)
    BY ViewerCount DEF ActiveViewers
  <2> QED
    BY <1>0, <1>3, <2>1 DEF CountViewers
<1>4. ASSUME NotifyAgent(c) PROVE Typed'
  BY <1>0, <1>4 DEF NotifyAgent
<1>5. ASSUME Park(c) PROVE Typed'
  <2>1. cur \in RoomId
    BY <1>5 DEF Park
  <2>2. Cardinality(viewers[cur] \ parked') \in 0 .. Cardinality(ViewerConn)
    BY <2>1, ViewerCount
  <2> QED
    BY <1>5, <2>1, <2>2 DEF Park
<1>6. ASSUME Unpark(c) PROVE Typed'
  <2>1. cur \in RoomId
    BY <1>6 DEF Unpark
  <2>2. Cardinality(viewers[cur] \ parked') \in 0 .. Cardinality(ViewerConn)
    BY <2>1, ViewerCount
  <2> QED
    BY <1>6, <2>1, <2>2 DEF Unpark
<1>7. ASSUME TellCount(c) PROVE Typed'
  BY <1>0, <1>7 DEF TellCount
<1>8. ASSUME DetachViewer(c) PROVE Typed'
  <2>1. ref[c] \in RoomId
    BY <1>8 DEF DetachViewer
  <2>2. c \in viewers[ref[c]] \ parked => ActiveViewers(ref[c]) - 1 \in 0 .. Cardinality(ViewerConn)
    <3>1. viewers[ref[c]] \ parked \in SUBSET ViewerConn
      BY <2>1
    <3> QED
      BY <3>1, OneViewerLess DEF ActiveViewers
  <2>3. DetachDone(c, ref[c])
    BY <1>8 DEF DetachViewer
  <2>4. RoomOK' /\ CredsOK' /\ ServerOK' /\ TimersOK'
    BY <1>8, <2>1, Fewer DEF DetachViewer
  <2>5. HandlerOK' /\ InHand'
    BY <1>8, <2>1, <2>3, DetachDoneTyped DEF DetachViewer
  <2>6. HeardOK' /\ HistoryOK'
    BY <1>8, <2>2 DEF DetachViewer, Counted
  <2> QED
    BY <2>4, <2>5, <2>6
<1> QED
  BY <1>1, <1>2, <1>3, <1>4, <1>5, <1>6, <1>7, <1>8 DEF ViewerNext

LEMMA TypedConn ==
  ASSUME Typed, NEW c \in Conn, ConnNext(c)
  PROVE  Typed'
<1> USE RelayConstants
    DEF Typed, TypeOK, InHand, Positions, Conn, Goto, Untold, Leave, Gone
<1>1. ASSUME AttachLookup(c) PROVE Typed'
  <2>1. RoomOK'
    BY <1>1 DEF AttachLookup
  <2>6. CredsOK'
    <3>1. CASE UNCHANGED creds
      BY <3>1
    <3>2. CASE \E r \in RoomId :
                 /\ token' = [token EXCEPT ![r] = None]
                 /\ pinHash' = [pinHash EXCEPT ![r] = None]
                 /\ ownerHash' = [ownerHash EXCEPT ![r] = owner]
      BY <3>2
    <3> QED
      BY <1>1, <3>1, <3>2 DEF AttachLookup
  <2>7. ServerOK'
    BY <1>1 DEF AttachLookup
  <2>2. HandlerOK'
    BY <1>1 DEF AttachLookup
  <2>3. TimersOK'
    BY <1>1 DEF AttachLookup
  <2>4. HeardOK' /\ HistoryOK'
    BY <1>1 DEF AttachLookup
  <2>5. InHand'
    BY <1>1 DEF AttachLookup
  <2> QED
    BY <2>1, <2>2, <2>3, <2>4, <2>5, <2>6, <2>7
<1>2. ASSUME AttachAdd(c) PROVE Typed'
  <2>1. ref[c] \in RoomId
    BY <1>2 DEF AttachAdd
  <2>2. RoomOK'
    <3>1. CASE c \in AgentConn
      <4>1. pending' = [pending EXCEPT ![ref[c]] = @ \cup {c}] /\ UNCHANGED <<agent, viewers, cleanup>>
        BY <1>2, <3>1 DEF AttachAdd
      <4> QED
        BY <2>1, <3>1, <4>1
    <3>2. CASE c \in ViewerConn
      <4>1. /\ viewers' = viewers \/ viewers' = [viewers EXCEPT ![ref[c]] = @ \cup {c}]
            /\ UNCHANGED <<agent, pending, cleanup>>
        BY <1>2, <3>2 DEF AttachAdd
      <4> QED
        BY <2>1, <3>2, <4>1
    <3> QED
      BY <3>1, <3>2
  <2>6. CredsOK' /\ ServerOK'
    BY <1>2 DEF AttachAdd
  <2>3. HandlerOK' /\ TimersOK'
    BY <1>2, <2>1 DEF AttachAdd
  <2>4. HeardOK' /\ HistoryOK'
    BY <1>2, <2>1 DEF AttachAdd
  <2>5. InHand'
    BY <1>2, <2>1 DEF AttachAdd
  <2> QED
    BY <2>2, <2>3, <2>4, <2>5, <2>6
<1>3. ASSUME ReadAuth(c) PROVE Typed'
  BY <1>3 DEF ReadAuth
<1>4. ASSUME AuthRefused(c) PROVE Typed'
  BY <1>4 DEF AuthRefused
<1>5. ASSUME HangUp(c) PROVE Typed'
  BY <1>5 DEF HangUp
<1>6. ASSUME Bail(c) PROVE Typed'
  BY <1>6 DEF Bail
<1>7. ASSUME DropEmpty(c) PROVE Typed'
  BY <1>7 DEF DropEmpty
<1> QED
  BY <1>1, <1>2, <1>3, <1>4, <1>5, <1>6, <1>7 DEF ConnNext

LEMMA TypedTimer ==
  ASSUME Typed, NEW t \in TimerId, TimerNext(t)
  PROVE  Typed'
<1> USE RelayConstants DEF Typed, TypeOK, InHand, Positions, Conn, Untold
<1>1. ASSUME TimerFires(t) PROVE Typed'
  BY <1>1 DEF TimerFires
<1>2. ASSUME ExpireRoom(t) PROVE Typed'
  <2>1. tref[t] \in RoomId
    BY <1>2 DEF ExpireRoom
  <2>2. CredentialHash(tref[t]) \in Hash \cup {None}
    BY <2>1 DEF CredentialHash, Hash
  <2>3. RoomOK' /\ CredsOK' /\ ServerOK' /\ HandlerOK'
    BY <1>2, <2>1 DEF ExpireRoom
  <2>4. TimersOK'
    <3>1. CASE agent[tref[t]] # None
      BY <1>2, <3>1 DEF ExpireRoom
    <3>2. CASE agent[tref[t]] = None
      <4>1. /\ timer' = [timer EXCEPT ![t] = "clearing"]
            /\ towner' = [towner EXCEPT ![t] = CredentialHash(tref[t])]
            /\ tref' = tref
        BY <1>2, <3>2 DEF ExpireRoom
      <4> QED
        BY <2>2, <4>1
    <3> QED
      BY <3>1, <3>2
  <2>5. HeardOK' /\ HistoryOK'
    BY <1>2, <2>1 DEF ExpireRoom
  <2>6. InHand'
    BY <1>2, <2>1 DEF ExpireRoom
  <2> QED
    BY <2>3, <2>4, <2>5, <2>6
<1>3. ASSUME ExpireClear(t) PROVE Typed'
  BY <1>3 DEF ExpireClear
<1> QED
  BY <1>1, <1>2, <1>3 DEF TimerNext

LEMMA TypedStep == Typed /\ [Next]_vars => Typed'
<1>1. SUFFICES ASSUME Typed, [Next]_vars PROVE Typed'
  OBVIOUS
<1>2. CASE UNCHANGED vars
  BY <1>1, <1>2
  DEF vars, Typed, TypeOK, InHand
<1>3. CASE OwnerLapses
  BY <1>1, <1>3 DEF OwnerLapses, Typed, TypeOK, InHand
<1> QED
  BY <1>1, <1>2, <1>3, TypedAgent, TypedViewer, TypedConn, TypedTimer DEF Next

\* Every variable has its type in every state, whatever the connections, rooms
\* and timers; counts sent to an agent never exceed the viewers there are.
THEOREM Types == Spec => []TypeOK
<1>1. Typed => TypeOK
  BY DEF Typed
<1> QED
  BY <1>1, TypedInit, TypedStep, PTL DEF Spec
------------------------------------------------------------------------------
(* The session ID and its holder *)

\* the process behind a room's credential
CredentialOf(r) == IF token[r] # None THEN token[r] ELSE pinHash[r]

\* Why the session stays with its agent: a room's agent is the process behind
\* the room's credential; the holder is the process behind the credential of
\* the room in the map; without such a room, or in a fresh one, the holder has
\* the reservation; and a timer about to clear a room reserves its ID for the
\* process that registered there, whatever became of the room meanwhile.
SessionInv ==
  /\ \A r \in RoomId : agent[r] # None =>
       AgentAuthed(r) /\ ProcessOf[agent[r]] = CredentialOf(r)
  /\ cur # None => (AgentAuthed(cur) => claim = CredentialOf(cur))
  /\ ~lost /\ claim # None /\ cur = None => owner # None /\ owner[2] = claim
  /\ ~lost /\ claim # None /\ cur # None =>
       (~AgentAuthed(cur) => ownerHash[cur] # None /\ ownerHash[cur][2] = claim)
  /\ \A t \in TimerId : towner[t] # None =>
       /\ timer[t] = "clearing" /\ AgentAuthed(tref[t])
       /\ CredentialOf(tref[t]) = towner[t][2]

IInv == Typed /\ SessionInv

LEMMA SessionInit == Init => SessionInv
BY RelayConstants DEF Init, SessionInv, AgentAuthed

\* A reservation is met only by the process it is for.
LEMMA ProvesHolder ==
  ASSUME TypeOK, NEW r \in RoomId, NEW c \in AgentConn, NEW m \in Presents[c],
         Proves(r, m.token, m.pin)
  PROVE  /\ AgentAuthed(r) => CredentialOf(r) = ProcessOf[c]
         /\ ~AgentAuthed(r) /\ ownerHash[r] # None => ownerHash[r][2] = ProcessOf[c]
<1>1. /\ m.token \in {ProcessOf[c], None} /\ m.pin \in {ProcessOf[c], None}
      /\ ProcessOf[c] \in Process /\ ProcessOf[c] # None
  BY RelayConstants
<1>2. CASE token[r] # None
  BY <1>1, <1>2 DEF Proves, CredentialMatches, AgentAuthed, CredentialOf
<1>3. CASE token[r] = None /\ pinHash[r] # None
  BY <1>1, <1>3 DEF Proves, CredentialMatches, AgentAuthed, CredentialOf
<1>4. CASE token[r] = None /\ pinHash[r] = None
  <2>1. ownerHash[r] # None => ownerHash[r] \in Hash
    BY DEF TypeOK
  <2>2. ownerHash[r] = None \/ ownerHash[r] \in {<<"token", m.token>>, <<"pin_hash", m.pin>>}
    BY <1>4 DEF Proves, CredentialMatches
  <2>3. ownerHash[r] # None => ownerHash[r][2] \in Process
    BY <2>1 DEF Hash
  <2>4. ownerHash[r] # None => ownerHash[r][2] = m.token \/ ownerHash[r][2] = m.pin
    BY <2>2
  <2>5. None \notin Process
    BY RelayConstants
  <2> QED
    BY <1>1, <1>4, <2>3, <2>4, <2>5 DEF AgentAuthed
<1> QED
  BY <1>2, <1>3, <1>4

\* What authentication leaves in the room: a credential of the same process.
LEMMA RegisterHolder ==
  ASSUME TypeOK, NEW r \in RoomId, NEW c \in AgentConn, NEW m \in Presents[c],
         Proves(r, m.token, m.pin), Register(r, m.token, m.pin)
  PROVE  /\ AgentAuthed(r)' /\ CredentialOf(r)' = ProcessOf[c]
         /\ \A s \in RoomId \ {r} : token'[s] = token[s] /\ pinHash'[s] = pinHash[s]
<1>1. /\ m.token \in {ProcessOf[c], None} /\ m.pin \in {ProcessOf[c], None}
      /\ ProcessOf[c] \in Process /\ ProcessOf[c] # None
      /\ m.token # None \/ m.pin # None
  BY RelayConstants DEF Proves, CredentialMatches
<1>2. token \in [RoomId -> Process \cup {None}] /\ pinHash \in [RoomId -> Process \cup {None}]
  BY DEF TypeOK
<1>3. AgentAuthed(r) => CredentialOf(r) = ProcessOf[c]
  BY ProvesHolder
<1> QED
  BY <1>1, <1>2, <1>3 DEF Register, AgentAuthed, CredentialOf

LEMMA SessionAuthAgent ==
  ASSUME IInv, NEW c \in AgentConn, NEW m \in Presents[c], AuthAgent(c, m)
  PROVE  SessionInv'
<1>0. TypeOK /\ ref[c] \in RoomId
  BY DEF IInv, Typed, InHand, AuthAgent, Conn
<1>1. PICK r \in RoomId : r = ref[c] /\ TypeOK
  BY <1>0
<1>2. /\ Proves(r, m.token, m.pin) /\ Register(r, m.token, m.pin)
      /\ agent' = [agent EXCEPT ![r] = c]
      /\ claim' = IF r = cur /\ ~AgentAuthed(r) THEN ProcessOf[c] ELSE claim
      /\ UNCHANGED <<ownerHash, cur, owner, towner, tref, lost>>
  BY <1>1 DEF AuthAgent, Supersede
<1>3. /\ AgentAuthed(r)' /\ CredentialOf(r)' = ProcessOf[c]
      /\ \A s \in RoomId \ {r} : token'[s] = token[s] /\ pinHash'[s] = pinHash[s]
  BY <1>1, <1>2, RegisterHolder
<1>4. AgentAuthed(r) => CredentialOf(r) = ProcessOf[c]
  BY <1>1, <1>2, ProvesHolder
<1>5. \A s \in RoomId \ {r} : /\ AgentAuthed(s)' <=> AgentAuthed(s)
                              /\ CredentialOf(s)' = CredentialOf(s)
  BY <1>3 DEF AgentAuthed, CredentialOf
<1>6. \A s \in RoomId : AgentAuthed(s) => AgentAuthed(s)' /\ CredentialOf(s)' = CredentialOf(s)
  BY <1>3, <1>4, <1>5
<1>7. \A s \in RoomId : agent'[s] # None =>
        AgentAuthed(s)' /\ ProcessOf[agent'[s]] = CredentialOf(s)'
  BY <1>1, <1>2, <1>3, <1>5 DEF IInv, SessionInv, TypeOK
<1>8. cur' # None => (AgentAuthed(cur)' => claim' = CredentialOf(cur)')
  <2>1. cur # None => cur \in RoomId
    BY <1>1 DEF TypeOK
  <2>2. CASE cur = r
    BY <1>1, <1>2, <1>3, <1>4, <2>2, RelayConstants DEF IInv, SessionInv
  <2>3. CASE cur # r
    BY <1>2, <1>5, <2>1, <2>3 DEF IInv, SessionInv, AgentAuthed, CredentialOf
  <2> QED
    BY <2>2, <2>3
<1>9. ~lost' /\ claim' # None /\ cur' = None => owner' # None /\ owner'[2] = claim'
  BY <1>1, <1>2, RelayConstants DEF IInv, SessionInv
<1>10. ~lost' /\ claim' # None /\ cur' # None =>
         (~AgentAuthed(cur)' => ownerHash'[cur'] # None /\ ownerHash'[cur'][2] = claim')
  <2>1. cur # None => cur \in RoomId
    BY <1>1 DEF TypeOK
  <2> QED
    BY <1>2, <1>3, <1>5, <2>1 DEF IInv, SessionInv, AgentAuthed
<1>11. \A t \in TimerId : towner'[t] # None =>
         /\ timer'[t] = "clearing" /\ AgentAuthed(tref[t])'
         /\ CredentialOf(tref[t])' = towner'[t][2]
  <2>1. \A t \in TimerId : timer[t] = "clearing" => timer'[t] = "clearing" /\ tref[t] \in RoomId
    BY DEF AuthAgent, StopCleanup, IInv, Typed, InHand
  <2> QED
    BY <1>2, <1>6, <2>1 DEF IInv, SessionInv
<1> QED
  BY <1>2, <1>7, <1>8, <1>9, <1>10, <1>11 DEF SessionInv, AgentAuthed, CredentialOf
\* A fresh room remembers whose the session ID is, and nobody has proved
\* anything in it yet.
LEMMA SessionAttachLookup ==
  ASSUME IInv, NEW c \in Conn, AttachLookup(c)
  PROVE  SessionInv'
<1>1. CASE cur # None /\ UNCHANGED <<room, creds, cur>>
  BY <1>1 DEF AttachLookup, IInv, SessionInv, AgentAuthed, CredentialOf
<1>2. ASSUME cur = None,
             NEW r \in RoomId, Garbage(r), cur' = r,
             agent' = [agent EXCEPT ![r] = None],
             token' = [token EXCEPT ![r] = None],
             pinHash' = [pinHash EXCEPT ![r] = None],
             ownerHash' = [ownerHash EXCEPT ![r] = owner]
      PROVE  SessionInv'
  <2>1. TypeOK /\ SessionInv
    BY DEF IInv, Typed
  <2>2. UNCHANGED <<claim, lost, owner, timer, tref, towner>>
    BY DEF AttachLookup
  <2>3. \A s \in RoomId \ {r} : /\ AgentAuthed(s)' <=> AgentAuthed(s)
                                /\ CredentialOf(s)' = CredentialOf(s)
    BY <1>2, <2>1 DEF AgentAuthed, CredentialOf, TypeOK
  <2>4. ~AgentAuthed(r)' /\ agent'[r] = None
    BY <1>2, <2>1 DEF AgentAuthed, TypeOK
  <2>5. \A s \in RoomId : agent'[s] # None =>
          AgentAuthed(s)' /\ ProcessOf[agent'[s]] = CredentialOf(s)'
    BY <1>2, <2>1, <2>3, <2>4 DEF SessionInv, TypeOK
  <2>6. ~lost' /\ claim' # None => ownerHash'[r] # None /\ ownerHash'[r][2] = claim'
    BY <1>2, <2>1, <2>2 DEF SessionInv, TypeOK
  <2>7. \A t \in TimerId : timer[t] = "clearing" => tref[t] \in RoomId \ {r}
    BY <1>2 DEF Garbage, IInv, Typed, InHand
  <2>8. \A t \in TimerId : towner'[t] # None =>
          /\ timer'[t] = "clearing" /\ AgentAuthed(tref[t])'
          /\ CredentialOf(tref[t])' = towner'[t][2]
    <3>1. \A t \in TimerId : AgentAuthed(tref[t])' <=> token'[tref[t]] # None \/ pinHash'[tref[t]] # None
      BY <2>2 DEF AgentAuthed
    <3> QED
      BY <1>2, <2>1, <2>2, <2>7 DEF SessionInv, AgentAuthed, CredentialOf, TypeOK
  <2>9. r # None
    BY RelayConstants
  <2>10. AgentAuthed(cur)' <=> AgentAuthed(r)'
    BY <1>2 DEF AgentAuthed
  <2> QED
    BY <1>2, <2>4, <2>5, <2>6, <2>8, <2>9, <2>10 DEF SessionInv
<1> QED
  BY <1>1, <1>2 DEF AttachLookup

\* The timer notes the credential of the room it is about to clear.
LEMMA SessionTimer ==
  ASSUME IInv, NEW t \in TimerId, TimerNext(t)
  PROVE  SessionInv'
<1>0. TypeOK /\ SessionInv
  BY DEF IInv, Typed
<1>1. CASE TimerFires(t)
  <2>1. \A u \in TimerId : timer[u] = "clearing" => u # t /\ timer'[u] = "clearing" /\ tref'[u] = tref[u]
    BY <1>0, <1>1 DEF TimerFires, TypeOK
  <2>2. UNCHANGED <<room, creds, server, towner, claim, lost>>
    BY <1>1 DEF TimerFires
  <2> QED
    BY <1>0, <2>1, <2>2 DEF SessionInv, AgentAuthed, CredentialOf
<1>2. CASE ExpireRoom(t)
  <2>1. UNCHANGED <<agent, creds, server, claim, lost>>
    BY <1>2 DEF ExpireRoom
  <2>2. \A u \in TimerId : tref'[u] # tref[u] => u = t /\ towner' = towner
    BY <1>0, <1>2 DEF ExpireRoom, TypeOK
  <2>3. towner[t] = None
    BY <1>0, <1>2 DEF ExpireRoom, SessionInv
  <2>4. \A u \in TimerId : towner'[u] # None =>
          /\ timer'[u] = "clearing" /\ AgentAuthed(tref'[u])
          /\ CredentialOf(tref'[u]) = towner'[u][2]
    <3>1. CASE agent[tref[t]] # None
      BY <1>0, <1>2, <2>2, <2>3, <3>1 DEF ExpireRoom, SessionInv, TypeOK
    <3>2. CASE agent[tref[t]] = None
      <4>1. /\ timer' = [timer EXCEPT ![t] = "clearing"] /\ tref' = tref
            /\ towner' = [towner EXCEPT ![t] = CredentialHash(tref[t])]
        BY <1>2, <3>2 DEF ExpireRoom
      <4>2. CredentialHash(tref[t]) # None =>
              AgentAuthed(tref[t]) /\ CredentialOf(tref[t]) = CredentialHash(tref[t])[2]
        BY DEF CredentialHash, AgentAuthed, CredentialOf
      <4> QED
        BY <1>0, <4>1, <4>2 DEF SessionInv, TypeOK
    <3> QED
      BY <3>1, <3>2
  <2> QED
    BY <1>0, <2>1, <2>4 DEF SessionInv, AgentAuthed, CredentialOf
<1>3. CASE ExpireClear(t)
  <2>1. /\ UNCHANGED <<room, creds, claim>>
        /\ timer' = [timer EXCEPT ![t] = "off"]
        /\ tref' = [tref EXCEPT ![t] = None] /\ towner' = [towner EXCEPT ![t] = None]
    BY <1>3 DEF ExpireClear
  <2>2. \A u \in TimerId : towner'[u] # None =>
          /\ timer'[u] = "clearing" /\ AgentAuthed(tref'[u])
          /\ CredentialOf(tref'[u]) = towner'[u][2]
    BY <1>0, <2>1 DEF SessionInv, TypeOK
  <2>3. \A r \in RoomId : agent'[r] # None =>
          AgentAuthed(r)' /\ ProcessOf[agent'[r]] = CredentialOf(r)'
    BY <1>0, <2>1 DEF SessionInv, AgentAuthed, CredentialOf
  <2>4. CASE cur = tref[t]
    <3>1. cur' = None /\ lost' = (lost \/ Unreserved(owner'))
      BY <1>3, <2>4 DEF ExpireClear, Unreserved
    <3> QED
      BY <2>1, <2>2, <2>3, <3>1 DEF SessionInv, AgentAuthed, CredentialOf, Unreserved
  <2>5. CASE cur # tref[t]
    <3>1. UNCHANGED <<cur, owner, lost>>
      BY <1>0, <1>3, <2>5 DEF ExpireClear, TypeOK
    <3> QED
      BY <1>0, <2>1, <2>2, <2>3, <3>1 DEF SessionInv, AgentAuthed, CredentialOf
  <2> QED
    BY <2>4, <2>5
<1> QED
  BY <1>1, <1>2, <1>3 DEF TimerNext
\* The steps that leave the agents, the credentials, the map and the timers that
\* clear a room alone.
LEMMA SessionUntouched ==
  ASSUME SessionInv, UNCHANGED <<agent, creds, server, towner, tref, timer, claim, lost>>
  PROVE  SessionInv'
BY DEF SessionInv, AgentAuthed, CredentialOf

LEMMA SessionDetachAgent ==
  ASSUME IInv, NEW c \in AgentConn, DetachAgent(c)
  PROVE  SessionInv'
<1>1. TypeOK /\ SessionInv /\ ref[c] \in RoomId
  BY DEF IInv, Typed, InHand, DetachAgent, Conn
<1>2. /\ agent' = [agent EXCEPT ![ref[c]] = None]
      /\ UNCHANGED <<creds, server, towner, tref, claim, lost>>
  BY DEF DetachAgent
<1>3. \A t \in TimerId : timer[t] = "clearing" => timer'[t] = "clearing"
  <2>1. PICK u \in TimerId :
          /\ Idle(u)
          /\ timer' = [t \in TimerId |-> IF t = u THEN "armed"
                        ELSE IF t = cleanup[ref[c]] /\ timer[t] = "armed" THEN "off" ELSE timer[t]]
    BY DEF DetachAgent, ArmCleanup
  <2> QED
    BY <2>1 DEF Idle
<1> QED
  BY <1>1, <1>2, <1>3 DEF SessionInv, AgentAuthed, CredentialOf, TypeOK

LEMMA SessionDropEmpty ==
  ASSUME IInv, NEW c \in Conn, DropEmpty(c)
  PROVE  SessionInv'
<1>1. TypeOK /\ SessionInv
  BY DEF IInv, Typed
<1>2. UNCHANGED <<agent, creds, owner, timer, tref, towner, claim>>
  BY DEF DropEmpty
<1>3. \/ cur' = None /\ lost' = (lost \/ Unreserved(owner))
      \/ UNCHANGED <<cur, lost>>
  BY <1>1 DEF DropEmpty, TypeOK
<1> QED
  BY <1>1, <1>2, <1>3 DEF SessionInv, Unreserved, AgentAuthed, CredentialOf

LEMMA SessionOwnerLapses ==
  ASSUME IInv, OwnerLapses
  PROVE  SessionInv'
<1>1. UNCHANGED <<agent, creds, cur, timer, tref, towner, lost>> /\ SessionInv
  BY DEF IInv, OwnerLapses
<1>2. CASE cur # None /\ AgentAuthed(cur)
  BY <1>1, <1>2 DEF OwnerLapses, SessionInv, AgentAuthed, CredentialOf
<1>3. CASE ~(cur # None /\ AgentAuthed(cur))
  BY <1>1, <1>3 DEF OwnerLapses, SessionInv, AgentAuthed, CredentialOf
<1> QED
  BY <1>2, <1>3

LEMMA SessionStep == IInv /\ [Next]_vars => SessionInv'
<1>1. SUFFICES ASSUME IInv, [Next]_vars PROVE SessionInv'
  OBVIOUS
<1>2. SessionInv
  BY <1>1 DEF IInv
<1>3. ASSUME NEW c \in AgentConn, AgentNext(c) PROVE SessionInv'
  <2>1. ASSUME NEW m \in Presents[c], AuthAgent(c, m) PROVE SessionInv'
    BY <1>1, <2>1, SessionAuthAgent
  <2>2. CASE DetachAgent(c)
    BY <1>1, <2>2, SessionDetachAgent
  <2>3. CASE Announce(c)
    BY <1>2, <2>3, SessionUntouched DEF Announce
  <2>4. CASE TellOnline(c)
    BY <1>2, <2>4, SessionUntouched DEF TellOnline
  <2>5. CASE DetachPending(c)
    BY <1>2, <2>5, SessionUntouched DEF DetachPending
  <2> QED
    BY <1>3, <2>1, <2>2, <2>3, <2>4, <2>5 DEF AgentNext
<1>4. ASSUME NEW c \in ViewerConn, ViewerNext(c) PROVE SessionInv'
  BY <1>2, <1>4, SessionUntouched
  DEF ViewerNext, AuthViewer, Greet, CountViewers, NotifyAgent, Park, Unpark, TellCount, DetachViewer
<1>5. ASSUME NEW c \in Conn, ConnNext(c) PROVE SessionInv'
  <2>1. CASE AttachLookup(c)
    BY <1>1, <2>1, SessionAttachLookup
  <2>2. CASE DropEmpty(c)
    BY <1>1, <2>2, SessionDropEmpty
  <2>3. CASE AttachAdd(c) \/ ReadAuth(c) \/ AuthRefused(c) \/ HangUp(c) \/ Bail(c)
    BY <1>2, <2>3, SessionUntouched DEF AttachAdd, ReadAuth, AuthRefused, HangUp, Bail
  <2> QED
    BY <1>5, <2>1, <2>2, <2>3 DEF ConnNext
<1>6. ASSUME NEW t \in TimerId, TimerNext(t) PROVE SessionInv'
  BY <1>1, <1>6, SessionTimer
<1>7. CASE OwnerLapses
  BY <1>1, <1>7, SessionOwnerLapses
<1>8. CASE UNCHANGED vars
  BY <1>2, <1>8, SessionUntouched DEF vars
<1> QED
  BY <1>1, <1>3, <1>4, <1>5, <1>6, <1>7, <1>8 DEF Next

LEMMA SessionInductive == Spec => []IInv
<1>1. Init => IInv
  BY TypedInit, SessionInit DEF IInv
<1>2. IInv /\ [Next]_vars => IInv'
  BY TypedStep, SessionStep DEF IInv
<1> QED
  BY <1>1, <1>2, PTL DEF Spec

\* Whoever is in the agent's slot of the room in the map registered the
\* session's credential (handleAuthLocked, superseded).
THEOREM AgentHoldsSession == Spec => []AgentIsHolder
<1>1. IInv => AgentIsHolder
  BY DEF IInv, Typed, TypeOK, SessionInv, AgentIsHolder
<1> QED
  BY <1>1, SessionInductive, PTL

\* The session's own agent, presenting both its credentials, is never refused
\* (handleAuthLocked, attach).
THEOREM HolderIsAdmitted == Spec => []HolderGetsIn
<1>1. ASSUME IInv PROVE HolderGetsIn
  <2>1. SUFFICES ASSUME cur # None, claim # None, ~lost PROVE Proves(cur, claim, claim)
    BY DEF HolderGetsIn
  <2>2. cur \in RoomId /\ SessionInv /\ TypeOK
    BY <1>1, <2>1 DEF IInv, Typed, TypeOK
  <2>3. CASE AgentAuthed(cur)
    BY <2>1, <2>2, <2>3 DEF SessionInv, CredentialOf, AgentAuthed, Proves, CredentialMatches
  <2>4. CASE ~AgentAuthed(cur)
    <3>1. ownerHash[cur] \in Hash /\ ownerHash[cur][2] = claim
      BY <2>1, <2>2, <2>4 DEF SessionInv, TypeOK
    <3>2. ownerHash[cur] \in {<<"token", claim>>, <<"pin_hash", claim>>}
      BY <3>1 DEF Hash
    <3> QED
      BY <2>1, <2>4, <3>2 DEF Proves, CredentialMatches
  <2> QED
    BY <2>3, <2>4
<1> QED
  BY <1>1, SessionInductive, PTL

\* A session ID passes to another agent only once its reservation has run out,
\* as long as the ID was never let go unreserved (keepOwnerLocked).
THEOREM SessionStaysWithItsAgent == Spec => HolderKeepsSession
<1> DEFINE Kept == claim # None /\ ~lost /\ claim' # claim
                    => claim' = None /\ owner # None /\ owner' = None
<1>1. ASSUME IInv, [Next]_vars PROVE Kept
  <2>1. SUFFICES ASSUME claim # None, ~lost, claim' # claim
                 PROVE  claim' = None /\ owner # None /\ owner' = None
    OBVIOUS
  <2>2. ASSUME NEW c \in AgentConn, NEW m \in Presents[c], AuthAgent(c, m) PROVE FALSE
    <3>1. PICK r \in RoomId : r = ref[c] /\ TypeOK /\ SessionInv
      BY <1>1, <2>2 DEF IInv, Typed, InHand, AuthAgent, Conn
    <3>2. /\ Proves(r, m.token, m.pin)
          /\ r = cur /\ ~AgentAuthed(r) /\ claim' = ProcessOf[c]
      BY <2>1, <2>2, <3>1 DEF AuthAgent
    <3>3. ownerHash[r] # None /\ ownerHash[r][2] = claim
      BY <2>1, <3>1, <3>2, RelayConstants DEF SessionInv
    <3>4. ownerHash[r][2] = ProcessOf[c]
      BY <3>1, <3>2, <3>3, ProvesHolder
    <3> QED
      BY <2>1, <3>2, <3>3, <3>4
  <2>3. CASE OwnerLapses
    BY <2>1, <2>3 DEF OwnerLapses
  <2>4. ASSUME NEW c \in AgentConn, AgentNext(c) PROVE FALSE
    BY <2>1, <2>2, <2>4 DEF AgentNext, Announce, TellOnline, DetachPending, DetachAgent
  <2>5. ASSUME NEW c \in ViewerConn, ViewerNext(c) PROVE FALSE
    BY <2>1, <2>5
    DEF ViewerNext, AuthViewer, Greet, CountViewers, NotifyAgent, Park, Unpark, TellCount, DetachViewer
  <2>6. ASSUME NEW c \in Conn, ConnNext(c) PROVE FALSE
    BY <2>1, <2>6
    DEF ConnNext, AttachLookup, AttachAdd, ReadAuth, AuthRefused, HangUp, Bail, DropEmpty
  <2>7. ASSUME NEW t \in TimerId, TimerNext(t) PROVE FALSE
    BY <2>1, <2>7 DEF TimerNext, TimerFires, ExpireRoom, ExpireClear
  <2>8. CASE UNCHANGED vars
    BY <2>1, <2>8 DEF vars
  <2> QED
    BY <1>1, <2>3, <2>4, <2>5, <2>6, <2>7, <2>8 DEF Next
<1>2. IInv /\ [Next]_vars => [Kept]_vars
  BY <1>1
<1> QED
  BY <1>2, SessionInductive, PTL DEF Spec, HolderKeepsSession
=============================================================================
