------------------------- MODULE StreamDeliveryProofs -------------------------
(* What holds of StreamDelivery whatever the constants: the types, that no   *)
(* viewer is left behind a parked sender, and that a host whose only         *)
(* connection is the relay's misses no tick.                                 *)
EXTENDS StreamDelivery, SequenceTheorems, FiniteSetTheorems, LeastNumber, TLAPS

------------------------------------------------------------------------------
(* Types *)

\* A resume is some viewer's; a count is no more than there are viewers.
Places == {"away", "authed", "joined", "parked", "back", "reading"}
Owed == [cursor : Nat, of : Viewer]
UpMessage ==
  [type : {"resume"}, from : Nat, of : Viewer]
    \cup [type : {"count"}, n : 0 .. Cardinality(Viewer), late : BOOLEAN]
\* What is written, and what is on its way, is output still, or no output.
Emitted == (1 .. newest) \ marks
BatchFrame == [kind : {"mark", "snap"}, seq : 0 .. newest] \cup [kind : {"out"}, seq : Emitted]
DownFrame ==
  [kind : {"snap", "online", "offline"}, seq : 0 .. newest] \cup [kind : {"out"}, seq : Emitted]

RingOK ==
  /\ newest \in Nat /\ oldest \in 0 .. newest /\ marks \subseteq 1 .. newest
  /\ appending \in BOOLEAN /\ tick \in BOOLEAN
ReaderOK ==
  /\ viewers \in 0 .. Cardinality(Viewer)
  /\ up \in [Link -> Seq(UpMessage)]
  /\ resuming \in [Link -> Owed \cup {None}]
  /\ full \in [Link -> BOOLEAN] /\ \A l \in Link : full[l] => resuming[l] # None
SenderOK ==
  /\ spc \in [Link -> {"down", "parked", "top", "snapping", "reading", "writing"}]
  /\ queue \in [Link -> Seq(Owed)] /\ \A l \in Link : Len(queue[l]) <= CursorCap
  /\ cursor \in [Link -> Nat]
  /\ batch \in [Link -> Seq(BatchFrame)]
ViewerOK ==
  /\ vpc \in [Viewer -> Places] /\ live \in [Viewer -> BOOLEAN]
  /\ seen \in [Viewer -> Nat]
  /\ down \in [Viewer -> Seq(DownFrame)]
  /\ telling \in [Viewer -> {None} \cup 0 .. Cardinality(Viewer)]
  /\ dropped \subseteq Viewer /\ shutOut \subseteq Viewer
  /\ shown \in [Viewer -> SUBSET Emitted]
Typed == RingOK /\ ReaderOK /\ SenderOK /\ ViewerOK

LEMMA InitTyped == ASSUME StreamConstants, Init PROVE Typed
<1>1. RingOK
  <2>1. newest \in Nat /\ oldest \in 0 .. newest /\ marks \subseteq 1 .. newest
    BY DEF Init
  <2>2. appending \in BOOLEAN /\ tick \in BOOLEAN
    BY Zenon DEF Init
  <2> QED BY <2>1, <2>2 DEF RingOK
<1>2. Cardinality(Viewer) \in Nat
  BY FS_CardinalityType DEF StreamConstants
<1>3. ReaderOK
  <2>1. viewers \in 0 .. Cardinality(Viewer) /\ up \in [Link -> Seq(UpMessage)]
        /\ resuming \in [Link -> Owed \cup {None}]
    BY <1>2 DEF Init
  <2>2. full \in [Link -> BOOLEAN] /\ \A l \in Link : ~full[l]
    BY Zenon DEF Init
  <2> QED BY <2>1, <2>2 DEF ReaderOK
<1>4. SenderOK
  BY DEF Init, SenderOK, StreamConstants
<1>5. ViewerOK
  <2>1. vpc \in [Viewer -> Places] /\ live \in [Viewer -> BOOLEAN]
        /\ telling \in [Viewer -> {None} \cup 0 .. Cardinality(Viewer)]
        /\ dropped \subseteq Viewer /\ shutOut \subseteq Viewer
    BY DEF Init, Places
  <2>2. seen \in [Viewer -> Nat]
    BY DEF Init, StreamConstants
  <2>3. down \in [Viewer -> Seq(DownFrame)] /\ shown \in [Viewer -> SUBSET Emitted]
    BY DEF Init
  <2> QED BY <2>1, <2>2, <2>3 DEF ViewerOK
<1> QED BY <1>1, <1>3, <1>4, <1>5 DEF Typed

\* Eviction ends in the ring: at the newest entry, if not before, the output
\* fits.
LEMMA EvictedInRing ==
  ASSUME StreamConstants, RingOK
  PROVE  Evicted(newest + 1) \in 1 .. newest + 1
<1> DEFINE n == newest + 1
           low == IF oldest = 0 THEN n ELSE oldest
           Fits(k) == Cardinality((k .. n) \ marks) <= Keep
           fit == {k \in low .. n : Fits(k)}
<1>1. newest \in Nat /\ oldest \in 0 .. newest /\ marks \subseteq 1 .. newest /\ Keep \in Nat \ {0}
  BY DEF RingOK, StreamConstants
<1>2. n \in Nat /\ low \in 1 .. n /\ n \notin marks /\ fit \subseteq Nat
  BY <1>1
<1>3. n \in fit
  <2>1. (n .. n) \ marks = {n}
    BY <1>2
  <2>2. Cardinality({n}) = 1
    BY FS_Singleton, Zenon
  <2>3. Fits(n)
    <3>1. Cardinality((n .. n) \ marks) = 1
      BY <2>1, <2>2
    <3> HIDE DEF n
    <3> QED BY <1>1, <3>1
  <2> QED BY <1>2, <2>3
<1>4. PICK k \in fit : \A j \in fit : k <= j
  <2> HIDE DEF fit
  <2> QED BY <1>2, <1>3, Least
<1>5. \E i \in low .. n : Fits(i) /\ \A j \in low .. i - 1 : ~Fits(j)
  <2>1. k \in low .. n /\ Fits(k)
    BY <1>4
  <2>2. ASSUME NEW j \in low .. k - 1 PROVE ~Fits(j)
    <3>1. j \in low .. n /\ ~(k <= j)
      BY <1>2, <2>1
    <3>2. j \notin fit
      BY <1>4, <3>1
    <3> HIDE DEF Fits
    <3> QED BY <3>1, <3>2
  <2> QED BY <2>1, <2>2
<1>6. Evicted(n) = CHOOSE i \in low .. n : Fits(i) /\ \A j \in low .. i - 1 : ~Fits(j)
  BY DEF Evicted
<1>7. Evicted(n) \in low .. n
  <2> HIDE DEF Fits, low, n
  <2> QED BY <1>5, <1>6, Zenon
<1> QED BY <1>2, <1>7

\* Numbers only grow, and what was output stays output.
LEMMA RingStep ==
  ASSUME StreamConstants, RingOK, [Next]_vars
  PROVE  RingOK' /\ newest <= newest' /\ Emitted \subseteq Emitted'
<1> USE DEF RingOK
<1>1. CASE Record
  <2>1. newest' = newest + 1 /\ oldest' = Evicted(newest + 1) /\ marks' = marks
        /\ appending' = TRUE /\ tick' = tick
    BY <1>1 DEF Record
  <2>2. oldest' \in 1 .. newest + 1
    BY <2>1, EvictedInRing
  <2> QED BY <2>1, <2>2 DEF Emitted
<1>2. CASE Tick
  <2>1. newest' = newest /\ oldest' = oldest /\ marks' = marks /\ appending' = FALSE /\ tick' = TRUE
    BY <1>2 DEF Tick
  <2>2. Emitted' = Emitted /\ newest <= newest'
    BY <2>1 DEF Emitted
  <2> QED BY <2>1, <2>2
<1>3. CASE AppendResize
  BY <1>3 DEF AppendResize, Emitted
<1>4. ASSUME UNCHANGED ring, tick' \in {tick, FALSE}
      PROVE RingOK' /\ newest <= newest' /\ Emitted \subseteq Emitted'
  <2>1. newest' = newest /\ oldest' = oldest /\ marks' = marks /\ appending' = appending
    BY <1>4 DEF ring
  <2>2. tick' \in BOOLEAN
    BY <1>4
  <2> QED BY <2>1, <2>2 DEF Emitted
<1>5. ASSUME NEW l \in Link, Pumps(l) PROVE UNCHANGED ring /\ tick' \in {tick, FALSE}
  BY <1>5
  DEF Pumps, Receive, PushCursor, MakeRoom, TakeCursor, TakeTick, Gate, Snapshot, Read, Write
<1>6. ASSUME NEW gone \in BOOLEAN, NEW missed \in SUBSET Viewer, Reconnect(gone, missed)
      PROVE UNCHANGED <<ring, tick>>
  BY <1>6 DEF Reconnect
<1>7. ASSUME NEW v \in Viewer,
             Handler(v) \/ Reads(v) \/ Discard(v) \/ Join(v) \/ Park(v) \/ Unpark(v) \/ Leave(v)
      PROVE UNCHANGED <<ring, tick>>
  BY <1>7
  DEF Handler, CountViewers, Tell, Reads, SendResume, Paint, HostOffline, HostOnline, Discard,
      Join, Park, Unpark, Leave
<1>8. ASSUME UNCHANGED vars PROVE UNCHANGED <<ring, tick>>
  BY <1>8 DEF vars
<1> QED BY <1>1, <1>2, <1>3, <1>4, <1>5, <1>6, <1>7, <1>8 DEF Next, Host

\* So what was written or under way may still be.
LEMMA FramesStay ==
  ASSUME StreamConstants, RingOK, [Next]_vars
  PROVE  /\ BatchFrame \subseteq BatchFrame' /\ DownFrame \subseteq DownFrame'
         /\ \A q \in Seq(BatchFrame) : q \in Seq(BatchFrame')
         /\ \A q \in Seq(DownFrame) : q \in Seq(DownFrame')
<1>1. newest \in Nat /\ newest' \in Nat /\ newest <= newest' /\ Emitted \subseteq Emitted'
  BY RingStep DEF RingOK
<1>2. BatchFrame \subseteq BatchFrame'
  BY <1>1 DEF BatchFrame
<1>3. DownFrame \subseteq DownFrame'
  BY <1>1 DEF DownFrame
<1> QED BY <1>2, <1>3
\* Who is on the relay: a viewer that joins makes one more, and one that goes one
\* less, none of them outside Viewer.
LEMMA Counted ==
  ASSUME StreamConstants
  PROVE  /\ Cardinality(Viewer) \in Nat
         /\ \A l : Cardinality(On(l)) \in 0 .. Cardinality(Viewer)
         /\ \A l : \A v \in Viewer \ On(l) : Cardinality(On(l)) + 1 <= Cardinality(Viewer)
         /\ \A l : \A v \in On(l) : Cardinality(On(l)) >= 1
         /\ \A l : \A v, w \in On(l) : v # w => Cardinality(On(l)) >= 2
<1>1. IsFiniteSet(Viewer) /\ Cardinality(Viewer) \in Nat
  BY FS_CardinalityType DEF StreamConstants
<1>2. ASSUME NEW S \in SUBSET Viewer
      PROVE  IsFiniteSet(S) /\ Cardinality(S) \in 0 .. Cardinality(Viewer)
  <2>1. IsFiniteSet(S) /\ Cardinality(S) <= Cardinality(Viewer)
    BY <1>1, FS_Subset
  <2>2. Cardinality(S) \in Nat
    BY <2>1, FS_CardinalityType
  <2> QED BY <1>1, <2>1, <2>2
<1>3. \A l : On(l) \in SUBSET Viewer
  BY DEF On
<1>4. ASSUME NEW l, NEW v \in Viewer \ On(l) PROVE Cardinality(On(l)) + 1 <= Cardinality(Viewer)
  <2>1. On(l) \cup {v} \in SUBSET Viewer
    BY <1>3
  <2>2. Cardinality(On(l) \cup {v}) <= Cardinality(Viewer)
    <3>1. Cardinality(On(l) \cup {v}) \in 0 .. Cardinality(Viewer)
      BY <2>1, <1>2
    <3> QED BY <1>1, <3>1
  <2>3. IsFiniteSet(On(l))
    BY <1>2, <1>3
  <2>4. Cardinality(On(l) \cup {v}) = Cardinality(On(l)) + 1
    BY <1>4, <2>3, FS_AddElement
  <2> QED BY <2>2, <2>4
<1>5. ASSUME NEW l, NEW v \in On(l)
      PROVE  /\ Cardinality(On(l)) >= 1
             /\ \A w \in On(l) : v # w => Cardinality(On(l)) >= 2
  <2>1. IsFiniteSet(On(l)) /\ Cardinality(On(l)) \in Nat
    BY <1>1, <1>2, <1>3
  <2>2. IsFiniteSet(On(l) \ {v}) /\ Cardinality(On(l) \ {v}) = Cardinality(On(l)) - 1
    BY <2>1, <1>5, FS_RemoveElement
  <2>3. Cardinality(On(l) \ {v}) \in Nat
    BY <2>2, FS_CardinalityType
  <2>4. ASSUME NEW w \in On(l), v # w PROVE Cardinality(On(l)) >= 2
    <3>1. Cardinality(On(l) \ {v}) # 0
      BY <2>2, <2>4, FS_EmptySet
    <3> QED BY <2>1, <2>2, <2>3, <3>1
  <2>5. Cardinality(On(l)) >= 1
    BY <2>1, <2>2, <2>3
  <2> QED BY <2>4, <2>5
<1> QED BY <1>1, <1>2, <1>3, <1>4, <1>5

\* What a handler at the relay says of its viewers: no more than there are, and
\* while somebody is there no one's departure makes them none, nor does a count
\* that was taken before.
LEMMA CountSent ==
  ASSUME StreamConstants, NEW n \in 0 .. Cardinality(Viewer), NEW late \in BOOLEAN
  PROVE  Count(n, late) \in UpMessage /\ Count(n, late).type = "count"
         /\ Count(n, late).n = n /\ Count(n, late).late = late
BY DEF UpMessage, Count

LEMMA ResumeSent ==
  ASSUME StreamConstants, Typed, NEW v \in Viewer
  PROVE  /\ Resume(v) \in UpMessage /\ Resume(v).type = "resume" /\ Resume(v).of = v
         /\ Via[v] \in Link /\ up = [l \in Link |-> up[l]]
BY DEF Typed, ViewerOK, ReaderOK, UpMessage, Resume, StreamConstants

\* A viewer goes from where it is.
LEMMA AwayTold ==
  ASSUME StreamConstants, ReaderOK, NEW v \in Viewer, vpc[v] # "away", Away(v)
  PROVE  /\ up' \in [Link -> Seq(UpMessage)] /\ resuming' \in [Link -> Owed \cup {None}]
         /\ full' \in [Link -> BOOLEAN] /\ \A l \in Link : full'[l] => resuming'[l] # None
<1>1. Via[v] \in Link /\ up \in [Link -> Seq(UpMessage)] /\ resuming \in [Link -> Owed \cup {None}]
      /\ full \in [Link -> BOOLEAN] /\ \A l \in Link : full[l] => resuming[l] # None
  BY DEF StreamConstants, ReaderOK
<1>2. CASE Via[v] = relay
  <2>1. resuming' = resuming /\ full' = full
    BY <1>2 DEF Away
  <2>2. CASE vpc[v] = "parked"
    BY <1>1, <1>2, <2>1, <2>2 DEF Away
  <2>3. CASE vpc[v] # "parked"
    <3> DEFINE m == Count(Cardinality(On(relay)) - 1, FALSE)
    <3>1. up' = [up EXCEPT ![relay] = Append(@, m)]
      BY <1>2, <2>3 DEF Away
    <3>2. v \in On(relay)
      BY <1>2, <2>3 DEF On
    <3>3. Cardinality(On(relay)) - 1 \in 0 .. Cardinality(Viewer)
      BY <3>2, Counted
    <3>4. m \in UpMessage
      BY <3>3, CountSent
    <3> HIDE DEF m
    <3> QED BY <1>1, <1>2, <2>1, <3>1, <3>4
  <2> QED BY <2>2, <2>3
<1>3. CASE Via[v] # relay
  <2>1. up' = [up EXCEPT ![Via[v]] = <<>>] /\ resuming' = [resuming EXCEPT ![Via[v]] = None]
    BY <1>3 DEF Away
  <2>2. full' = [full EXCEPT ![Via[v]] = FALSE]
    BY <1>3 DEF Away
  <2>3. full' \in [Link -> BOOLEAN]
    BY <1>1, <2>2
  <2>4. \A l \in Link : full'[l] => l # Via[v] /\ full[l]
    BY <1>1, <2>2, Zenon
  <2>5. \A l \in Link : full'[l] => resuming'[l] # None
    BY <1>1, <2>1, <2>4
  <2>6. up' \in [Link -> Seq(UpMessage)] /\ resuming' \in [Link -> Owed \cup {None}]
    BY <1>1, <2>1
  <2> QED BY <2>3, <2>5, <2>6
<1> QED BY <1>2, <1>3

LEMMA StepReader ==
  ASSUME StreamConstants, Typed, [Next]_vars
  PROVE  ReaderOK'
<1>0. /\ viewers \in 0 .. Cardinality(Viewer) /\ Cardinality(Viewer) \in Nat
      /\ up \in [Link -> Seq(UpMessage)] /\ resuming \in [Link -> Owed \cup {None}]
      /\ full \in [Link -> BOOLEAN] /\ (\A l \in Link : full[l] => resuming[l] # None)
      /\ \A v \in Viewer : seen[v] \in Nat /\ Via[v] \in Link
      /\ newest \in Nat /\ relay \in Link
      /\ \A l \in Link : queue[l] \in Seq(Owed)
  BY Counted DEF Typed, ReaderOK, ViewerOK, RingOK, SenderOK, StreamConstants
<1>1. ASSUME viewers' \in 0 .. Cardinality(Viewer), up' \in [Link -> Seq(UpMessage)],
             resuming' \in [Link -> Owed \cup {None}], full' \in [Link -> BOOLEAN],
             \A l \in Link : full'[l] => resuming'[l] # None
      PROVE ReaderOK'
  BY <1>1 DEF ReaderOK, UpMessage, Owed
\* A message comes up a link, or none does.
<1>2. ASSUME UNCHANGED <<viewers, resuming, full>>, up' \in [Link -> Seq(UpMessage)]
      PROVE ReaderOK'
  BY <1>0, <1>1, <1>2
<1>3. ASSUME NEW l \in Link, NEW m \in UpMessage, UNCHANGED <<viewers, resuming, full>>,
             up' = [up EXCEPT ![l] = Append(@, m)]
      PROVE ReaderOK'
  <2>1. up' \in [Link -> Seq(UpMessage)]
    BY <1>0, <1>3
  <2> QED BY <1>2, <1>3, <2>1
<1>4. ASSUME NEW v \in Viewer, vpc[v] # "away", Away(v), viewers' = viewers PROVE ReaderOK'
  <2>1. ReaderOK
    BY DEF Typed
  <2> QED BY <1>0, <1>1, <1>4, <2>1, AwayTold
<1>5. ASSUME UNCHANGED <<viewers, reader>> PROVE ReaderOK'
  BY <1>0, <1>2, <1>5 DEF reader
<1>6. ASSUME NEW l \in Link, Receive(l) PROVE ReaderOK'
  <2> DEFINE m == Head(up[l])
             late == {v \in On(l) : vpc[v] = "reading"}
  <2>1. up[l] # <<>> /\ up' = [up EXCEPT ![l] = Tail(@)] /\ full' = full /\ resuming[l] = None
    BY <1>6 DEF Receive
  <2>2. m \in UpMessage /\ up' \in [Link -> Seq(UpMessage)]
    BY <1>0, <2>1
  <2>3. CASE m.type = "count" /\ viewers' = m.n /\ resuming' = resuming
    <3>1. m.n \in 0 .. Cardinality(Viewer)
      BY <2>2, <2>3 DEF UpMessage
    <3> QED BY <1>0, <1>1, <2>1, <2>2, <2>3, <3>1
  <2>4. CASE m.type = "resume" /\ viewers' = Bump(viewers)
             /\ resuming' = [resuming EXCEPT ![l] = [cursor |-> CursorAfter(m.from), of |-> m.of]]
    <3>1. m.from \in Nat /\ m.of \in Viewer
      BY <2>2, <2>4 DEF UpMessage
    <3>2. CursorAfter(m.from) \in Nat
      BY <1>0, <3>1 DEF CursorAfter
    <3>3. Cardinality(Viewer) >= 1
      <4>1. Cardinality(Viewer) # 0
        BY <3>1, FS_EmptySet DEF StreamConstants
      <4> QED BY <1>0, <4>1
    <3>4. viewers' \in 0 .. Cardinality(Viewer)
      BY <1>0, <2>4, <3>3 DEF Bump
    <3>5. [cursor |-> CursorAfter(m.from), of |-> m.of] \in Owed
      <4> HIDE DEF m
      <4> QED BY <3>1, <3>2 DEF Owed
    <3>6. resuming' \in [Link -> Owed \cup {None}] /\ \A k \in Link : resuming[k] # None => resuming'[k] # None
      <4>1. None \notin Owed
        BY DEF Owed, StreamConstants
      <4> HIDE DEF m
      <4> QED BY <1>0, <2>4, <3>5, <4>1
    <3> QED BY <1>0, <1>1, <2>1, <2>2, <3>4, <3>6
  <2> QED BY <1>6, <2>3, <2>4 DEF Receive
<1>7. ASSUME NEW l \in Link, PushCursor(l) PROVE ReaderOK'
  <2>1. up' = up /\ viewers' = viewers /\ resuming[l] # None /\ ~full[l]
    BY <1>7 DEF PushCursor
  <2>2. CASE resuming' = [resuming EXCEPT ![l] = None] /\ full' = full
    BY <1>0, <1>1, <2>1, <2>2
  <2>3. CASE resuming' = resuming /\ full' = [full EXCEPT ![l] = TRUE]
    <3>1. full' \in [Link -> BOOLEAN]
      BY <1>0, <2>3
    <3>2. \A k \in Link : full'[k] => k = l \/ full[k]
      BY <1>0, <2>3, Zenon
    <3>3. \A k \in Link : full'[k] => resuming'[k] # None
      BY <1>0, <2>1, <2>3, <3>2
    <3> QED BY <1>0, <1>1, <2>1, <2>3, <3>1, <3>3
  <2> QED BY <1>7, <2>2, <2>3 DEF PushCursor
<1>8. ASSUME NEW l \in Link, MakeRoom(l) PROVE ReaderOK'
  <2>1. up' = up /\ viewers' = viewers /\ full' = [full EXCEPT ![l] = FALSE]
    BY <1>8 DEF MakeRoom
  <2>2. resuming' \in {resuming, [resuming EXCEPT ![l] = None]}
    BY <1>8 DEF MakeRoom
  <2>3. full' \in [Link -> BOOLEAN] /\ resuming' \in [Link -> Owed \cup {None}]
    BY <1>0, <2>1, <2>2
  <2>4. \A k \in Link : full'[k] => k # l /\ full[k]
    BY <1>0, <2>1, Zenon
  <2>5. \A k \in Link : full'[k] => resuming'[k] # None
    BY <1>0, <2>2, <2>4
  <2> QED BY <1>0, <1>1, <2>1, <2>3, <2>5
<1>9. ASSUME NEW gone \in BOOLEAN, NEW missed \in SUBSET Viewer, Reconnect(gone, missed)
      PROVE ReaderOK'
  <2>1. viewers' = 0 /\ up' = [up EXCEPT ![relay] = <<>>]
        /\ resuming' = [resuming EXCEPT ![relay] = None]
    BY <1>9 DEF Reconnect
  <2>2. full' = [full EXCEPT ![relay] = FALSE]
    BY <1>9 DEF Reconnect
  <2>3. full' \in [Link -> BOOLEAN] /\ up' \in [Link -> Seq(UpMessage)]
    BY <1>0, <2>1, <2>2
  <2>4. \A k \in Link : full'[k] => k # relay /\ full[k]
    BY <1>0, <2>2, Zenon
  <2>5. resuming' \in [Link -> Owed \cup {None}] /\ \A k \in Link : full'[k] => resuming'[k] # None
    BY <1>0, <2>1, <2>4
  <2> QED BY <1>0, <1>1, <2>1, <2>3, <2>5
<1>10. ASSUME NEW v \in Viewer, Tell(v) PROVE ReaderOK'
  <2> DEFINE late == telling[v] = 0 /\ On(relay) # {}
  <2>1. UNCHANGED <<viewers, resuming, full>> /\ telling[v] # None
        /\ up' = [up EXCEPT ![relay] = Append(@, Count(telling[v], late))]
    BY <1>10 DEF Tell
  <2>2. telling[v] \in 0 .. Cardinality(Viewer)
    BY <2>1 DEF Typed, ViewerOK
  <2>3. late \in BOOLEAN
    OBVIOUS
  <2> HIDE DEF late
  <2>4. Count(telling[v], late) \in UpMessage
    BY <2>2, <2>3, CountSent
  <2> QED BY <1>0, <1>3, <2>1, <2>4
<1>11. ASSUME NEW v \in Viewer, SendResume(v) PROVE ReaderOK'
  BY <1>0, <1>3, <1>11, ResumeSent DEF SendResume
<1>12. ASSUME NEW v \in Viewer, HostOnline(v) PROVE ReaderOK'
  <2>1. viewers' = viewers /\ vpc[v] # "away"
    BY <1>12 DEF HostOnline
  <2>2. CASE live[v]
    <3>1. UNCHANGED <<viewers, resuming, full>>
          /\ up' = [up EXCEPT ![Via[v]] = Append(@, Resume(v))]
      BY <1>12, <2>2 DEF HostOnline
    <3> QED BY <1>0, <1>3, <3>1, ResumeSent
  <2>3. CASE ~live[v]
    BY <1>4, <1>12, <2>1, <2>3 DEF HostOnline
  <2> QED BY <2>2, <2>3
<1>13. ASSUME NEW v \in Viewer, Leave(v) PROVE ReaderOK'
  BY <1>4, <1>13 DEF Leave
<1>14. ASSUME NEW v \in Viewer,
              Join(v) \/ CountViewers(v) \/ Park(v) \/ Unpark(v) \/ Discard(v) \/ Paint(v)
                \/ HostOffline(v)
       PROVE UNCHANGED <<viewers, reader>>
  BY <1>14 DEF Join, CountViewers, Park, Unpark, Discard, Paint, HostOffline
<1>15. ASSUME NEW l \in Link,
              TakeCursor(l) \/ TakeTick(l) \/ Gate(l) \/ Snapshot(l) \/ Read(l) \/ Write(l)
       PROVE UNCHANGED <<viewers, reader>>
  BY <1>15 DEF TakeCursor, TakeTick, Gate, Snapshot, Read, Write
<1>16. ASSUME Host PROVE UNCHANGED <<viewers, reader>>
  BY <1>16 DEF Host, Record, Tick, AppendResize
<1>17. ASSUME UNCHANGED vars PROVE UNCHANGED <<viewers, reader>>
  BY <1>17 DEF vars
<1> QED
  BY <1>5, <1>6, <1>7, <1>8, <1>9, <1>10, <1>11, <1>12, <1>13, <1>14, <1>15, <1>16, <1>17
  DEF Next, Pumps, Reads, Handler

\* A link's sender begins again, parked or not there at all.
LEMMA SenderReset ==
  ASSUME StreamConstants, Typed, [Next]_vars, NEW l \in Link, NEW p \in {"down", "parked"},
         spc' = [spc EXCEPT ![l] = p], queue' = [queue EXCEPT ![l] = <<>>],
         cursor' = [cursor EXCEPT ![l] = 0], batch' = [batch EXCEPT ![l] = <<>>]
  PROVE  SenderOK'
<1>1. \A q \in Seq(BatchFrame) : q \in Seq(BatchFrame')
  BY FramesStay DEF Typed
<1>2. SenderOK /\ CursorCap \in Nat
  BY DEF Typed, StreamConstants
<1>3. spc' \in [Link -> {"down", "parked", "top", "snapping", "reading", "writing"}]
      /\ cursor' \in [Link -> Nat]
  BY <1>2 DEF SenderOK
<1>4. queue' \in [Link -> Seq(Owed)] /\ \A k \in Link : Len(queue'[k]) <= CursorCap
  BY <1>2 DEF SenderOK
<1>5. batch' \in [Link -> Seq(BatchFrame')]
  BY <1>1, <1>2 DEF SenderOK
<1> QED BY <1>3, <1>4, <1>5 DEF SenderOK

\* What Read takes from the ring.
LEMMA ReadBatch ==
  ASSUME StreamConstants, Typed, NEW l \in Link, Read(l)
  PROVE  /\ batch' = [batch EXCEPT ![l] = batch'[l]]
         /\ batch'[l] \in Seq(BatchFrame)
         /\ \/ batch'[l] = <<>> /\ (oldest = 0 \/ cursor[l] > newest)
            \/ batch'[l] # <<>> /\ batch'[l][Len(batch'[l])].seq = newest
<1> DEFINE first == IF cursor[l] > oldest THEN cursor[l] ELSE oldest
           b == Entries(first, newest)
<1>0. newest \in Nat /\ oldest \in 0 .. newest /\ cursor[l] \in Nat /\ Len(batch[l]) \in Nat
      /\ batch = [k \in Link |-> batch[k]]
  BY DEF Typed, RingOK, SenderOK
<1>1. batch' = [batch EXCEPT ![l] = IF oldest = 0 THEN <<>> ELSE b]
  BY DEF Read, From
<1>2. batch' = [batch EXCEPT ![l] = batch'[l]] /\ batch'[l] = (IF oldest = 0 THEN <<>> ELSE b)
  <2> HIDE DEF b
  <2> QED BY <1>0, <1>1
<1>3. first \in Nat /\ (oldest # 0 => first \in Nat \ {0})
  BY <1>0
<1>4. ASSUME oldest # 0
      PROVE  b \in Seq(BatchFrame)
             /\ (b = <<>> => cursor[l] > newest) /\ (b # <<>> => b[Len(b)].seq = newest)
  <2> DEFINE k == newest + 1 - first
  <2>0. b = [i \in 1 .. k |->
              Frame(IF first + i - 1 \in marks THEN "mark" ELSE "out", first + i - 1)]
    BY DEF Entries
  <2> HIDE DEF b
  <2>1. ASSUME NEW i \in 1 .. k
        PROVE  b[i] \in BatchFrame /\ b[i].seq = first + i - 1
    <3>1. first + i - 1 \in 1 .. newest
      BY <1>0, <1>3, <1>4
    <3>2. b[i] = Frame(IF first + i - 1 \in marks THEN "mark" ELSE "out", first + i - 1)
      BY <2>0
    <3> HIDE DEF first
    <3>3. CASE first + i - 1 \in marks
      BY <3>1, <3>2, <3>3, <1>0 DEF Frame, BatchFrame
    <3>4. CASE first + i - 1 \notin marks
      BY <3>1, <3>2, <3>4 DEF Frame, BatchFrame, Emitted
    <3> QED BY <3>3, <3>4
  <2>2. CASE k <= 0
    <3>1. 1 .. k = {} /\ cursor[l] > newest
      BY <1>0, <1>3, <2>2
    <3>2. b = <<>>
      BY <2>0, <3>1
    <3> QED BY <3>1, <3>2
  <2>3. CASE k > 0
    <3>1. k \in Nat /\ k \in 1 .. k /\ first + k - 1 = newest
      <4> HIDE DEF first
      <4> QED BY <1>0, <1>3, <2>3
    <3>2. b \in [1 .. k -> BatchFrame]
      <4>1. b = [i \in 1 .. k |-> b[i]]
        BY <2>0
      <4> QED BY <2>1, <4>1
    <3>3. b \in Seq(BatchFrame) /\ Len(b) = k
      BY <3>1, <3>2
    <3>4. b # <<>> /\ b[k].seq = newest
      BY <3>1, <3>3, <2>1
    <3> QED BY <3>3, <3>4
  <2>4. k \in Int
    BY <1>0, <1>3
  <2> HIDE DEF k
  <2> QED BY <2>2, <2>3, <2>4
<1> HIDE DEF b
<1> QED BY <1>2, <1>4

LEMMA StepSender ==
  ASSUME StreamConstants, Typed, [Next]_vars
  PROVE  SenderOK'
<1>0. /\ spc \in [Link -> {"down", "parked", "top", "snapping", "reading", "writing"}]
      /\ queue \in [Link -> Seq(Owed)] /\ (\A l \in Link : Len(queue[l]) <= CursorCap)
      /\ cursor \in [Link -> Nat]
      /\ batch \in [Link -> Seq(BatchFrame)]
      /\ CursorCap \in Nat \ {0} /\ relay \in Link /\ newest \in Nat
      /\ \A v \in Viewer : Via[v] \in Link
  BY DEF Typed, SenderOK, RingOK, StreamConstants
<1>1. \A q \in Seq(BatchFrame) : q \in Seq(BatchFrame')
  BY FramesStay DEF Typed
<1>2. batch \in [Link -> Seq(BatchFrame')]
  BY <1>0, <1>1
<1>3. ASSUME NEW l \in Link, NEW p \in {"top", "snapping", "reading", "writing", "parked"},
             spc' = [spc EXCEPT ![l] = p] \/ spc' = spc
      PROVE spc' \in [Link -> {"down", "parked", "top", "snapping", "reading", "writing"}]
  BY <1>0, <1>3
<1>4. ASSUME NEW l \in Link, TakeCursor(l) PROVE SenderOK'
  <2>1. queue[l] # <<>> /\ cursor' = [cursor EXCEPT ![l] = Head(queue[l]).cursor]
        /\ queue' = [queue EXCEPT ![l] = Tail(queue[l])]
        /\ spc' = [spc EXCEPT ![l] = "top"] /\ batch' = batch
    BY <1>4 DEF TakeCursor
  <2>2. Head(queue[l]).cursor \in Nat
        /\ Tail(queue[l]) \in Seq(Owed) /\ Len(Tail(queue[l])) <= CursorCap
    <3>1. Head(queue[l]) \in Owed
      BY <1>0, <2>1
    <3>2. Head(queue[l]).cursor \in Nat
      BY <3>1 DEF Owed
    <3> QED BY <1>0, <2>1, <3>2
  <2> QED BY <1>0, <1>2, <2>1, <2>2 DEF SenderOK
<1>5. ASSUME NEW l \in Link, TakeTick(l) PROVE SenderOK'
  BY <1>0, <1>2, <1>5 DEF TakeTick, SenderOK
<1>6. ASSUME NEW l \in Link, Gate(l) PROVE SenderOK'
  <2>1. queue' = queue /\ batch' = batch
    BY <1>6 DEF Gate
  <2>2. cursor' \in [Link -> Nat]
    BY <1>0, <1>6 DEF Gate
  <2>3. spc' \in [Link -> {"down", "parked", "top", "snapping", "reading", "writing"}]
    BY <1>0, <1>6 DEF Gate
  <2> QED BY <1>0, <1>2, <2>1, <2>2, <2>3 DEF SenderOK
<1>7. ASSUME NEW l \in Link, Snapshot(l) PROVE SenderOK'
  <2>1. batch' = [batch EXCEPT ![l] = <<Frame("snap", newest)>>]
        /\ spc' = [spc EXCEPT ![l] = "reading"] /\ queue' = queue /\ cursor' = cursor
    BY <1>7 DEF Snapshot
  <2>2. Frame("snap", newest) \in BatchFrame
    BY <1>0 DEF Frame, BatchFrame
  <2>3. <<Frame("snap", newest)>> \in Seq(BatchFrame')
    <3>1. \A f \in BatchFrame : <<f>> \in Seq(BatchFrame)
      OBVIOUS
    <3> QED BY <1>1, <2>2, <3>1
  <2>4. batch' \in [Link -> Seq(BatchFrame')]
    BY <1>2, <2>1, <2>3
  <2> QED BY <1>0, <2>1, <2>4 DEF SenderOK
<1>8. ASSUME NEW l \in Link, Read(l) PROVE SenderOK'
  <2>1. spc' = [spc EXCEPT ![l] = "writing"] /\ queue' = queue /\ cursor' = cursor
    BY <1>8 DEF Read
  <2>2. batch' = [batch EXCEPT ![l] = batch'[l]] /\ batch'[l] \in Seq(BatchFrame)
    BY <1>8, ReadBatch
  <2>3. batch'[l] \in Seq(BatchFrame')
    BY <1>1, <2>2
  <2>4. batch' \in [Link -> Seq(BatchFrame')]
    BY <1>2, <2>2, <2>3
  <2> QED BY <1>0, <2>1, <2>4 DEF SenderOK
<1>9. ASSUME NEW l \in Link, Write(l) PROVE SenderOK'
  <2> DEFINE f == Head(batch[l])
  <2>1. batch[l] # <<>> /\ cursor' = [cursor EXCEPT ![l] = f.seq + 1]
        /\ batch' = [batch EXCEPT ![l] = Tail(@)] /\ spc' = spc /\ queue' = queue
    BY <1>9 DEF Write
  <2>2. f \in BatchFrame /\ Tail(batch[l]) \in Seq(BatchFrame)
    BY <1>0, <2>1
  <2>3. f.seq \in Nat
    BY <1>0, <2>2 DEF BatchFrame, Emitted
  <2>4. Tail(batch[l]) \in Seq(BatchFrame')
    BY <1>1, <2>2
  <2>5. batch' \in [Link -> Seq(BatchFrame')]
    BY <1>2, <2>1, <2>4
  <2>6. cursor' \in [Link -> Nat]
    BY <1>0, <2>1, <2>3
  <2> QED BY <1>0, <2>1, <2>5, <2>6 DEF SenderOK
<1>10. ASSUME NEW l \in Link, PushCursor(l) \/ MakeRoom(l) PROVE SenderOK'
  <2>1. spc' = spc /\ cursor' = cursor /\ batch' = batch
    BY <1>10 DEF PushCursor, MakeRoom
  <2>2. resuming[l] \in Owed
    BY <1>10 DEF PushCursor, MakeRoom, Typed, ReaderOK
  <2>3. \/ queue' = queue
        \/ Len(queue[l]) < CursorCap /\ queue' = [queue EXCEPT ![l] = Append(@, resuming[l])]
        \/ queue[l] # <<>> /\ queue' = [queue EXCEPT ![l] = Tail(@)]
    BY <1>10 DEF PushCursor, MakeRoom
  <2>4. queue' \in [Link -> Seq(Owed)] /\ \A k \in Link : Len(queue'[k]) <= CursorCap
    <3>1. CASE queue' = queue
      BY <1>0, <3>1
    <3>2. CASE Len(queue[l]) < CursorCap /\ queue' = [queue EXCEPT ![l] = Append(@, resuming[l])]
      BY <1>0, <2>2, <3>2
    <3>3. CASE queue[l] # <<>> /\ queue' = [queue EXCEPT ![l] = Tail(@)]
      BY <1>0, <3>3
    <3> QED BY <2>3, <3>1, <3>2, <3>3
  <2> QED BY <1>0, <1>2, <2>1, <2>4 DEF SenderOK
<1>11. ASSUME NEW gone \in BOOLEAN, NEW missed \in SUBSET Viewer, Reconnect(gone, missed)
       PROVE SenderOK'
  BY <1>0, <1>11, SenderReset DEF Reconnect
<1>12. ASSUME UNCHANGED sender PROVE SenderOK'
  <2>1. spc' = spc /\ queue' = queue /\ cursor' = cursor /\ batch' = batch
    BY <1>12 DEF sender
  <2> QED BY <1>0, <1>2, <2>1 DEF SenderOK
<1>13. ASSUME NEW v \in Viewer, Join(v) PROVE SenderOK'
  BY <1>0, <1>2, <1>13 DEF Join, SenderOK
<1>14. ASSUME NEW v \in Viewer, Away(v) PROVE SenderOK'
  <2>1. CASE Via[v] = relay
    BY <1>12, <1>14, <2>1 DEF Away
  <2>2. CASE Via[v] # relay
    BY <1>0, <1>14, <2>2, SenderReset DEF Away
  <2> QED BY <2>1, <2>2
<1>15. ASSUME NEW v \in Viewer, Reads(v) PROVE UNCHANGED sender \/ Away(v)
  BY <1>15 DEF Reads, SendResume, Paint, HostOffline, HostOnline
<1>16. ASSUME NEW v \in Viewer, Handler(v) \/ Discard(v) \/ Park(v) \/ Unpark(v) \/ Leave(v)
       PROVE UNCHANGED sender \/ Away(v)
  BY <1>16 DEF Handler, CountViewers, Tell, Discard, Park, Unpark, Leave
<1>17. ASSUME NEW l \in Link, Receive(l) PROVE UNCHANGED sender
  BY <1>17 DEF Receive
<1>18. ASSUME Host PROVE UNCHANGED sender
  BY <1>18 DEF Host, Record, Tick, AppendResize
<1>19. ASSUME UNCHANGED vars PROVE UNCHANGED sender
  BY <1>19 DEF vars
<1> QED
  BY <1>4, <1>5, <1>6, <1>7, <1>8, <1>9, <1>10, <1>11, <1>12, <1>13, <1>14, <1>15, <1>16,
     <1>17, <1>18, <1>19
  DEF Next, Pumps

LEMMA StepViewer ==
  ASSUME StreamConstants, Typed, [Next]_vars
  PROVE  ViewerOK'
<1>0. /\ vpc \in [Viewer -> Places] /\ live \in [Viewer -> BOOLEAN]
      /\ seen \in [Viewer -> Nat] /\ down \in [Viewer -> Seq(DownFrame)]
      /\ telling \in [Viewer -> {None} \cup 0 .. Cardinality(Viewer)]
      /\ dropped \subseteq Viewer /\ shutOut \subseteq Viewer
      /\ shown \in [Viewer -> SUBSET Emitted]
      /\ newest \in Nat /\ marks \subseteq 1 .. newest
      /\ batch \in [Link -> Seq(BatchFrame)] /\ up \in [Link -> Seq(UpMessage)]
      /\ queue \in [Link -> Seq(Owed)] /\ resuming \in [Link -> Owed \cup {None}]
      /\ \A l \in Link : full[l] => resuming[l] # None
  BY DEF Typed, ViewerOK, RingOK, SenderOK, ReaderOK
<1>1. /\ \A q \in Seq(DownFrame) : q \in Seq(DownFrame')
      /\ Emitted \subseteq Emitted'
  BY FramesStay, RingStep DEF Typed
<1>2. down \in [Viewer -> Seq(DownFrame')] /\ shown \in [Viewer -> SUBSET Emitted']
  BY <1>0, <1>1
\* A viewer's own place, what it has seen and shown, what is on its way to it, and
\* what its handler and the host owe it.
<1> DEFINE Place == vpc \in [Viewer -> Places] /\ live \in [Viewer -> BOOLEAN]
           Screen == seen \in [Viewer -> Nat] /\ shown \in [Viewer -> SUBSET Emitted]
           Down == down \in [Viewer -> Seq(DownFrame)]
           Dues == /\ telling \in [Viewer -> {None} \cup 0 .. Cardinality(Viewer)]
                   /\ dropped \subseteq Viewer /\ shutOut \subseteq Viewer
<1>3. ASSUME Place', Screen', Down', Dues' PROVE ViewerOK'
  BY <1>3 DEF ViewerOK
<1>4. ASSUME UNCHANGED <<vpc, live>> PROVE Place'
  BY <1>0, <1>4
<1>5. ASSUME UNCHANGED screen PROVE Screen'
  BY <1>0, <1>2, <1>5 DEF screen
<1>6. ASSUME NEW v \in Viewer, NEW q \in Seq(DownFrame), down' = [down EXCEPT ![v] = q] PROVE Down'
  BY <1>1, <1>2, <1>6
<1>7. ASSUME down' = down PROVE Down'
  BY <1>2, <1>7
<1>8. ASSUME NEW v \in Viewer, down[v] # <<>>, down' = [down EXCEPT ![v] = Tail(@)] PROVE Down'
  <2>1. Tail(down[v]) \in Seq(DownFrame)
    BY <1>0, <1>8
  <2> HIDE DEF Down
  <2> QED BY <1>6, <1>8, <2>1
<1>9. <<>> \in Seq(DownFrame)
  OBVIOUS
<1>10. ASSUME UNCHANGED <<telling, lost>> PROVE Dues'
  BY <1>0, <1>10 DEF lost
<1>11. ASSUME NEW v \in Viewer, NEW n \in {None} \cup 0 .. Cardinality(Viewer),
              telling' = [telling EXCEPT ![v] = n], UNCHANGED lost \/ Forget(v)
       PROVE Dues'
  <2>1. dropped' \subseteq Viewer /\ shutOut' \subseteq Viewer
    BY <1>0, <1>11 DEF Forget, lost
  <2> QED BY <1>0, <1>11, <2>1
<1>12. ASSUME NEW v \in Viewer, telling' = telling, Forget(v) PROVE Dues'
  BY <1>0, <1>12 DEF Forget
<1> HIDE DEF Place, Screen, Down, Dues
<1>13. ASSUME NEW l \in Link, Write(l) PROVE ViewerOK'
  <2> DEFINE f == Head(batch[l])
  <2>1. f \in BatchFrame
    BY <1>0, <1>13 DEF Write
  <2>2. f.kind # "mark" => f \in DownFrame
    BY <2>1 DEF BatchFrame, DownFrame
  <2>3. \A v \in Viewer : down'[v] \in Seq(DownFrame)
    <3>1. \A v \in Viewer : down'[v] = IF v \in On(l) /\ f.kind # "mark" THEN Append(down[v], f) ELSE down[v]
      BY <1>13 DEF Write
    <3>2. \A q \in Seq(DownFrame) : \A x \in DownFrame : Append(q, x) \in Seq(DownFrame)
      OBVIOUS
    <3> HIDE DEF f
    <3>3. ASSUME NEW v \in Viewer PROVE down'[v] \in Seq(DownFrame)
      <4>1. down[v] \in Seq(DownFrame)
        BY <1>0
      <4>2. down'[v] = down[v] \/ (f \in DownFrame /\ down'[v] = Append(down[v], f))
        BY <2>2, <3>1
      <4> QED BY <3>2, <4>1, <4>2
    <3> QED BY <3>3
  <2>4. down' = [v \in Viewer |-> down'[v]]
    BY <1>13 DEF Write
  <2>5. Down'
    BY <1>1, <2>3, <2>4 DEF Down
  <2>6. UNCHANGED <<vpc, live>> /\ UNCHANGED screen /\ UNCHANGED <<telling, lost>>
    BY <1>13 DEF Write
  <2> QED BY <1>3, <1>4, <1>5, <1>10, <2>5, <2>6
<1>14. ASSUME NEW gone \in BOOLEAN, NEW missed \in SUBSET Viewer, Reconnect(gone, missed)
       PROVE ViewerOK'
  <2>1. Frame("offline", 0) \in DownFrame /\ Frame("online", 0) \in DownFrame
    BY <1>0 DEF Frame, DownFrame
  <2>2. PICK r \in Seq(DownFrame), t \in Seq(DownFrame) :
          \A v \in Viewer : down'[v] = IF v \notin On(relay) THEN down[v] ELSE down[v] \o r \o t
    <3>1. <<Frame("offline", 0)>> \in Seq(DownFrame) /\ <<Frame("online", 0)>> \in Seq(DownFrame)
      BY <2>1
    <3>2. CASE gone
      BY <1>14, <3>1, <3>2 DEF Reconnect
    <3>3. CASE ~gone
      BY <1>9, <1>14, <3>1, <3>3 DEF Reconnect
    <3> QED BY <3>2, <3>3
  <2>3. \A v \in Viewer : down'[v] \in Seq(DownFrame)
    <3>1. \A q \in Seq(DownFrame) : q \o r \o t \in Seq(DownFrame)
      OBVIOUS
    <3>2. ASSUME NEW v \in Viewer PROVE down'[v] \in Seq(DownFrame)
      <4>1. down[v] \in Seq(DownFrame)
        BY <1>0
      <4>2. down'[v] = down[v] \/ down'[v] = down[v] \o r \o t
        BY <2>2
      <4> QED BY <3>1, <4>1, <4>2
    <3> QED BY <3>2
  <2>4. down' = [v \in Viewer |-> down'[v]]
    BY <1>14 DEF Reconnect
  <2>5. Down'
    BY <1>1, <2>3, <2>4 DEF Down
  <2>6. Place'
    BY <1>0, <1>14 DEF Reconnect, Place, Places
  <2>7. Dues'
    BY <1>0, <1>14 DEF Reconnect, Dues, lost
  <2>8. UNCHANGED screen
    BY <1>14 DEF Reconnect
  <2> QED BY <1>3, <1>5, <2>5, <2>6, <2>7, <2>8
\* A viewer moves on; its handler may have taken a count.
<1>15. ASSUME NEW v \in Viewer, NEW p \in Places, vpc' = [vpc EXCEPT ![v] = p],
              live' = live \/ live' = [live EXCEPT ![v] = TRUE]
       PROVE Place'
  BY <1>0, <1>15 DEF Place
<1>16. ASSUME NEW v \in Viewer, Join(v) PROVE ViewerOK'
  <2>1. Place'
    BY <1>15, <1>16 DEF Join, Places
  <2>2. UNCHANGED screen /\ down' = down /\ UNCHANGED <<telling, lost>>
    BY <1>16 DEF Join
  <2> QED BY <1>3, <1>5, <1>7, <1>10, <2>1, <2>2
<1>17. ASSUME NEW v \in Viewer, CountViewers(v) PROVE ViewerOK'
  <2>1. Place'
    BY <1>15, <1>17 DEF CountViewers, Places
  <2>2. Dues'
    BY <1>11, <1>17, Counted DEF CountViewers
  <2>3. UNCHANGED screen /\ down' = down
    BY <1>17 DEF CountViewers
  <2> QED BY <1>3, <1>5, <1>7, <2>1, <2>2, <2>3
<1>18. ASSUME NEW v \in Viewer, Park(v) PROVE ViewerOK'
  <2>1. Place'
    BY <1>15, <1>18 DEF Park, Places
  <2>2. v \in On(relay)
    BY <1>18 DEF Park, On
  <2>3. Cardinality(On(relay)) - 1 \in 0 .. Cardinality(Viewer)
    BY <2>2, Counted
  <2>4. Dues'
    BY <1>11, <1>18, <2>3 DEF Park
  <2>5. UNCHANGED screen /\ down' = [down EXCEPT ![v] = <<>>]
    BY <1>18 DEF Park
  <2> QED BY <1>3, <1>5, <1>6, <1>9, <2>1, <2>4, <2>5
<1>19. ASSUME NEW v \in Viewer, Unpark(v) PROVE ViewerOK'
  <2>1. Place'
    BY <1>15, <1>19 DEF Unpark, Places
  <2>2. v \in Viewer \ On(relay)
    BY <1>19 DEF Unpark, On
  <2>3. Cardinality(On(relay)) + 1 \in 0 .. Cardinality(Viewer)
    BY <2>2, Counted
  <2>4. Dues'
    BY <1>11, <1>19, <2>3 DEF Unpark
  <2>5. UNCHANGED screen /\ down' = down
    BY <1>19 DEF Unpark
  <2> QED BY <1>3, <1>5, <1>7, <2>1, <2>4, <2>5
<1>20. ASSUME NEW v \in Viewer, Tell(v) PROVE ViewerOK'
  <2>1. UNCHANGED <<vpc, live>> /\ UNCHANGED screen /\ down' = down
        /\ UNCHANGED lost /\ telling' = [telling EXCEPT ![v] = None]
    BY <1>20 DEF Tell
  <2> QED BY <1>3, <1>4, <1>5, <1>7, <1>11, <2>1
<1>21. ASSUME NEW v \in Viewer, Discard(v) PROVE ViewerOK'
  <2>1. UNCHANGED <<vpc, live>> /\ UNCHANGED screen /\ UNCHANGED <<telling, lost>>
        /\ down[v] # <<>> /\ down' = [down EXCEPT ![v] = Tail(@)]
    BY <1>21 DEF Discard
  <2> QED BY <1>3, <1>4, <1>5, <1>8, <1>10, <2>1
<1>22. ASSUME NEW v \in Viewer, SendResume(v) PROVE ViewerOK'
  <2>1. Place'
    BY <1>15, <1>22 DEF SendResume, Places
  <2>2. UNCHANGED screen /\ down' = down /\ UNCHANGED <<telling, lost>>
    BY <1>22 DEF SendResume
  <2> QED BY <1>3, <1>5, <1>7, <1>10, <2>1, <2>2
<1>23. ASSUME NEW v \in Viewer, Paint(v) PROVE ViewerOK'
  <2> DEFINE f == Head(down[v])
  <2>1. down[v] # <<>> /\ down' = [down EXCEPT ![v] = Tail(@)] /\ UNCHANGED <<vpc, live>>
        /\ f.kind \in {"out", "snap"} /\ UNCHANGED ring /\ UNCHANGED <<telling, lost>>
    BY <1>23 DEF Paint
  <2>2. f \in DownFrame
    BY <1>0, <2>1
  <2>3. f.seq \in 0 .. newest /\ (f.kind = "out" => f.seq \in Emitted)
    BY <1>0, <2>2 DEF DownFrame, Emitted
  <2>4. Screen'
    <3>1. CASE Accepts(f.seq, seen[v])
      <4>1. seen' = [seen EXCEPT ![v] = IF f.seq = 0 THEN @ ELSE f.seq]
            /\ shown' = [shown EXCEPT ![v] =
                 IF f.kind = "snap" THEN (1 .. f.seq) \ marks ELSE @ \cup {f.seq}]
        BY <1>23, <3>1 DEF Paint
      <4>2. (1 .. f.seq) \ marks \subseteq Emitted
        BY <1>0, <2>3 DEF Emitted
      <4>3. seen' \in [Viewer -> Nat]
        BY <1>0, <2>3, <4>1
      <4>4. (IF f.kind = "snap" THEN (1 .. f.seq) \ marks ELSE shown[v] \cup {f.seq}) \subseteq Emitted
        <5> HIDE DEF f
        <5> QED BY <1>0, <2>1, <2>3, <4>2
      <4>5. shown' \in [Viewer -> SUBSET Emitted]
        <5> HIDE DEF f
        <5> QED BY <1>0, <4>1, <4>4
      <4> QED BY <1>1, <4>3, <4>5 DEF Screen
    <3>2. CASE ~Accepts(f.seq, seen[v])
      BY <1>5, <1>23, <3>2 DEF Paint
    <3> QED BY <3>1, <3>2
  <2> QED BY <1>3, <1>4, <1>8, <1>10, <2>1, <2>4
<1>24. ASSUME NEW v \in Viewer, HostOffline(v) PROVE ViewerOK'
  <2>1. down[v] # <<>> /\ down' = [down EXCEPT ![v] = Tail(@)] /\ UNCHANGED screen
        /\ UNCHANGED <<telling, lost>>
        /\ vpc' = vpc /\ live' = [live EXCEPT ![v] = FALSE]
    BY <1>24 DEF HostOffline
  <2>2. Place'
    BY <1>0, <2>1 DEF Place
  <2> QED BY <1>3, <1>5, <1>8, <1>10, <2>1, <2>2
<1>25. ASSUME NEW v \in Viewer, Away(v), live' = live \/ live' = [live EXCEPT ![v] = TRUE],
              UNCHANGED screen, telling' = telling
       PROVE ViewerOK'
  <2>1. Place'
    BY <1>15, <1>25 DEF Away, Places
  <2>2. down' = [down EXCEPT ![v] = <<>>] /\ Forget(v)
    BY <1>25 DEF Away
  <2> QED BY <1>3, <1>5, <1>6, <1>9, <1>12, <1>25, <2>1, <2>2
<1>26. ASSUME NEW v \in Viewer, HostOnline(v) PROVE ViewerOK'
  <2>1. UNCHANGED screen /\ live' = [live EXCEPT ![v] = TRUE] /\ down[v] # <<>>
        /\ telling' = telling
    BY <1>26 DEF HostOnline
  <2>2. CASE live[v]
    <3>1. down' = [down EXCEPT ![v] = Tail(@)] /\ vpc' = vpc /\ UNCHANGED lost
      BY <1>26, <2>2 DEF HostOnline
    <3>2. Place'
      BY <1>0, <2>1, <3>1 DEF Place
    <3> QED BY <1>3, <1>5, <1>8, <1>10, <2>1, <3>1, <3>2
  <2>3. CASE ~live[v]
    BY <1>25, <1>26, <2>1, <2>3 DEF HostOnline
  <2> QED BY <2>2, <2>3
<1>27. ASSUME NEW v \in Viewer, Leave(v) PROVE ViewerOK'
  BY <1>25, <1>27 DEF Leave
\* The host lets a resume go, or takes one up.
<1>28. ASSUME NEW l \in Link, Receive(l) PROVE ViewerOK'
  <2>1. dropped' \subseteq dropped /\ telling' = telling
        /\ (shutOut' \subseteq shutOut \/ shutOut' = {v \in On(l) : vpc[v] = "reading"})
    BY <1>28 DEF Receive
  <2>2. Dues'
    BY <1>0, <2>1 DEF Dues, On
  <2>3. UNCHANGED <<vpc, live>> /\ UNCHANGED screen /\ down' = down
    BY <1>28 DEF Receive
  <2> QED BY <1>3, <1>4, <1>5, <1>7, <2>2, <2>3
<1>29. ASSUME NEW l \in Link, MakeRoom(l) PROVE ViewerOK'
  <2>1. resuming[l] \in Owed
    BY <1>0, <1>29 DEF MakeRoom
  <2>2. resuming[l].of \in Viewer
    BY <2>1 DEF Owed
  <2>3. queue[l] # <<>> => Head(queue[l]).of \in Viewer
    <3>1. queue[l] # <<>> => Head(queue[l]) \in Owed
      BY <1>0
    <3> QED BY <3>1 DEF Owed
  <2>4. dropped' \subseteq Viewer
    BY <1>0, <1>29, <2>2, <2>3 DEF MakeRoom
  <2>5. Dues'
    BY <1>0, <1>29, <2>4 DEF Dues, MakeRoom
  <2>6. UNCHANGED <<vpc, live>> /\ UNCHANGED screen /\ down' = down
    BY <1>29 DEF MakeRoom
  <2> QED BY <1>3, <1>4, <1>5, <1>7, <2>5, <2>6
<1>30. ASSUME UNCHANGED viewer PROVE ViewerOK'
  <2>1. UNCHANGED <<vpc, live>> /\ UNCHANGED screen /\ down' = down /\ UNCHANGED <<telling, lost>>
    BY <1>30 DEF viewer
  <2> QED BY <1>3, <1>4, <1>5, <1>7, <1>10, <2>1
<1>31. ASSUME NEW l \in Link,
              PushCursor(l) \/ TakeCursor(l) \/ TakeTick(l) \/ Gate(l) \/ Snapshot(l) \/ Read(l)
       PROVE UNCHANGED viewer
  BY <1>31 DEF PushCursor, TakeCursor, TakeTick, Gate, Snapshot, Read
<1>32. ASSUME Host PROVE UNCHANGED viewer
  BY <1>32 DEF Host, Record, Tick, AppendResize
<1>33. ASSUME UNCHANGED vars PROVE UNCHANGED viewer
  BY <1>33 DEF vars
<1> QED
  BY <1>13, <1>14, <1>16, <1>17, <1>18, <1>19, <1>20, <1>21, <1>22, <1>23, <1>24, <1>26, <1>27,
     <1>28, <1>29, <1>30, <1>31, <1>32, <1>33
  DEF Next, Pumps, Reads, Handler

LEMMA Inductive == ASSUME StreamConstants, Typed, [Next]_vars PROVE Typed'
  BY RingStep, StepReader, StepSender, StepViewer DEF Typed

\* Every variable keeps its type: no more cursors wait than cursorCh holds, what
\* is evicted leaves the ring's numbers in order, and no viewer is shown a number
\* that was not output (buffer.go, pushCursor, runViewer).
THEOREM Types == Spec => []TypeOK
<1>1. Init => Typed
  BY InitTyped, StreamConstants
<1>2. Typed /\ [Next]_vars => Typed'
  BY Inductive, StreamConstants
<1>3. Typed => TypeOK
  <2>1. ASSUME Typed PROVE TypeOK
    <3>1. \A l \in Link : \A i \in 1 .. Len(batch[l]) :
            batch[l][i] \in [kind : {"out", "mark", "snap"}, seq : 0 .. newest]
      <4>1. BatchFrame \subseteq [kind : {"out", "mark", "snap"}, seq : 0 .. newest]
        BY <2>1 DEF BatchFrame, Emitted, Typed, RingOK
      <4> QED BY <2>1, <4>1 DEF Typed, SenderOK
    <3> QED BY <2>1, <3>1 DEF TypeOK, Typed, RingOK, ReaderOK, SenderOK, ViewerOK, Emitted, Places, Owed
  <2> QED BY <2>1
<1> QED BY <1>1, <1>2, <1>3, PTL DEF Spec
------------------------------------------------------------------------------
(* Ticks *)

\* Where a sender will be once it has written what it read.
ReachedOf(c, b) == IF b = <<>> THEN c ELSE b[Len(b)].seq + 1
Reached(l) == ReachedOf(cursor[l], batch[l])
Behind(l) == (Reached(l) .. newest) \ marks # {}

\* A sender that has read the ring has read all of it, or is told of the rest. One
\* that reads does so from an entry on, never from nothing.
Told(l) ==
  /\ spc[l] \in {"reading", "writing"} => Reached(l) >= 1
  /\ spc[l] = "writing" /\ Behind(l) => tick \/ appending
Ticked == (newest # 0 => oldest # 0) /\ \A l \in Link : Told(l)

LEMMA ReachedIs ==
  ASSUME StreamConstants, Typed, NEW l \in Link
  PROVE  /\ Reached(l) \in Nat
         /\ batch[l] # <<>> => Reached(l) >= 1
<1>1. cursor[l] \in Nat /\ batch[l] \in Seq(BatchFrame) /\ newest \in Nat
  BY DEF Typed, SenderOK, RingOK
<1>2. CASE batch[l] = <<>>
  BY <1>1, <1>2 DEF Reached, ReachedOf
<1>3. CASE batch[l] # <<>>
  <2>1. batch[l][Len(batch[l])] \in BatchFrame
    BY <1>1, <1>3
  <2>2. batch[l][Len(batch[l])].seq \in Nat
    BY <1>1, <2>1 DEF BatchFrame, Emitted
  <2> QED BY <1>3, <2>2 DEF Reached, ReachedOf
<1> QED BY <1>2, <1>3

\* A sequence ends as it did without its head.
LEMMA TailEnds ==
  ASSUME NEW S, NEW q \in Seq(S), q # <<>>
  PROVE  /\ Len(q) = 1 => Tail(q) = <<>>
         /\ Len(q) # 1 => Tail(q) # <<>> /\ Len(Tail(q)) = Len(q) - 1 /\ Tail(q)[Len(q) - 1] = q[Len(q)]
<1>1. Len(q) \in Nat \ {0} /\ Tail(q) \in Seq(S) /\ Len(Tail(q)) = Len(q) - 1
  OBVIOUS
<1>2. Tail(q) = <<>> <=> Len(Tail(q)) = 0
  BY <1>1, EmptySeq
<1>3. CASE Len(q) = 1
  BY <1>1, <1>2, <1>3
<1>4. CASE Len(q) # 1
  <2>1. Len(q) - 1 \in 1 .. Len(Tail(q))
    BY <1>1, <1>4
  <2>2. Tail(q)[Len(q) - 1] = q[(Len(q) - 1) + 1]
    BY <1>1, <2>1
  <2> QED BY <1>1, <1>2, <1>4, <2>2
<1> QED BY <1>3, <1>4

\* Writing what was read does not change where the sender will be.
LEMMA WriteReaches ==
  ASSUME StreamConstants, Typed, NEW l \in Link, Write(l)
  PROVE  Reached(l)' = Reached(l)
<1> DEFINE b == batch[l]
<1>1. b # <<>> /\ cursor' = [cursor EXCEPT ![l] = Head(b).seq + 1]
      /\ batch' = [batch EXCEPT ![l] = Tail(b)]
  BY DEF Write
<1>2. b \in Seq(BatchFrame) /\ cursor'[l] = Head(b).seq + 1 /\ batch'[l] = Tail(b)
  BY <1>1 DEF Typed, SenderOK
<1>3. ReachedOf(Head(b).seq + 1, Tail(b)) = ReachedOf(cursor[l], b)
  <2>1. Len(b) \in Nat \ {0} /\ Head(b) = b[1]
    BY <1>1, <1>2
  <2>2. (Len(b) = 1 => Tail(b) = <<>>)
        /\ (Len(b) # 1 => Tail(b) # <<>> /\ Len(Tail(b)) = Len(b) - 1 /\ Tail(b)[Len(b) - 1] = b[Len(b)])
    <3> HIDE DEF b
    <3> QED BY <1>1, <1>2, TailEnds
  <2>3. CASE Len(b) = 1
    <3> HIDE DEF b
    <3> QED BY <1>1, <2>1, <2>2, <2>3 DEF ReachedOf
  <2>4. CASE Len(b) # 1
    <3> HIDE DEF b
    <3> QED BY <1>1, <2>2, <2>4 DEF ReachedOf
  <2> QED BY <2>3, <2>4
<1> QED BY <1>2, <1>3 DEF Reached

LEMMA TickedStep ==
  ASSUME StreamConstants, Link = {relay}, Typed, Ticked, [Next]_vars
  PROVE  Ticked'
<1>0. /\ newest \in Nat /\ oldest \in 0 .. newest /\ marks \subseteq 1 .. newest
      /\ spc \in [Link -> {"down", "parked", "top", "snapping", "reading", "writing"}]
      /\ cursor = [l \in Link |-> cursor[l]] /\ batch = [l \in Link |-> batch[l]]
      /\ \A l \in Link : Reached(l) \in Nat /\ cursor[l] \in Nat
      /\ \A v \in Viewer : Via[v] = relay
  BY ReachedIs DEF Typed, RingOK, SenderOK, StreamConstants
<1>1. /\ newest # 0 => oldest # 0
      /\ \A l \in Link : spc[l] \in {"reading", "writing"} => Reached(l) >= 1
      /\ \A l \in Link : spc[l] = "writing" /\ Behind(l) => tick \/ appending
  BY DEF Ticked, Told
\* What leaves the senders as they are.
<1>2. ASSUME UNCHANGED <<spc, cursor, batch>>, appending' \/ tick', newest' # 0 => oldest' # 0
      PROVE Ticked'
  BY <1>1, <1>2 DEF Ticked, Told, Reached
<1>3. CASE Record
  <2>1. newest' = newest + 1 /\ oldest' = Evicted(newest + 1) /\ appending' = TRUE
        /\ UNCHANGED <<spc, cursor, batch>>
    BY <1>3 DEF Record, sender
  <2>2. oldest' \in 1 .. newest + 1
    BY <2>1, EvictedInRing DEF Typed
  <2> QED BY <1>2, <2>1, <2>2
<1>4. CASE Tick
  BY <1>1, <1>2, <1>4 DEF Tick, sender
<1>5. CASE AppendResize
  <2>1. newest' = newest + 1 /\ marks' = marks \cup {newest + 1} /\ oldest' # 0
        /\ UNCHANGED <<spc, cursor, batch>> /\ UNCHANGED <<tick, appending>>
    BY <1>0, <1>5 DEF AppendResize, sender
  <2>2. \A l \in Link : Reached(l)' = Reached(l)
    BY <2>1 DEF Reached
  <2>3. \A l \in Link : Behind(l)' => Behind(l)
    BY <1>0, <2>1, <2>2 DEF Behind
  <2> QED BY <1>1, <2>1, <2>2, <2>3 DEF Ticked, Told
<1>6. ASSUME UNCHANGED <<ring, tick, spc, cursor, batch>> PROVE Ticked'
  BY <1>1, <1>6 DEF Ticked, Told, Behind, Reached, ring
\* The one sender: a step that leaves it where it neither reads nor writes, and the
\* others.
<1>7. ASSUME UNCHANGED ring, NEW l \in Link, spc'[l] \notin {"reading", "writing"} PROVE Ticked'
  <2>1. \A k \in Link : k = l
    OBVIOUS
  <2>2. newest' # 0 => oldest' # 0
    BY <1>1, <1>7 DEF ring
  <2> QED BY <1>7, <2>1, <2>2 DEF Ticked, Told
<1>8. ASSUME UNCHANGED <<ring, tick>>, NEW l \in Link, spc'[l] = "reading", Reached(l)' >= 1
      PROVE Ticked'
  <2>1. \A k \in Link : k = l
    OBVIOUS
  <2>2. newest' # 0 => oldest' # 0
    BY <1>1, <1>8 DEF ring
  <2> QED BY <1>8, <2>1, <2>2 DEF Ticked, Told
<1>9. ASSUME NEW l \in Link, TakeCursor(l) \/ TakeTick(l) PROVE Ticked'
  <2>1. UNCHANGED ring /\ spc' = [spc EXCEPT ![l] = "top"]
    BY <1>9 DEF TakeCursor, TakeTick
  <2> QED BY <1>0, <1>7, <2>1
<1>10. ASSUME NEW l \in Link, Gate(l) PROVE Ticked'
  <2>1. UNCHANGED <<ring, tick>> /\ batch' = batch
    BY <1>10 DEF Gate
  <2>2. CASE spc'[l] = "reading"
    <3>1. cursor'[l] = cursor[l] /\ cursor[l] > oldest
      BY <1>0, <1>10, <2>2 DEF Gate
    <3>2. Reached(l)' = Reached(l)
      BY <2>1, <3>1 DEF Reached
    <3>3. Reached(l) >= 1
      <4>1. CASE batch[l] = <<>>
        BY <1>0, <3>1, <4>1 DEF Reached, ReachedOf
      <4>2. CASE batch[l] # <<>>
        BY <4>2, ReachedIs
      <4> QED BY <4>1, <4>2
    <3> QED BY <1>8, <2>1, <2>2, <3>2, <3>3
  <2>3. CASE spc'[l] # "reading"
    <3>1. spc'[l] \notin {"reading", "writing"}
      BY <1>0, <1>10, <2>3 DEF Gate
    <3> QED BY <1>7, <2>1, <3>1
  <2> QED BY <2>2, <2>3
<1>11. ASSUME NEW l \in Link, Snapshot(l) PROVE Ticked'
  <2>1. UNCHANGED <<ring, tick>> /\ spc'[l] = "reading" /\ batch'[l] = <<Frame("snap", newest)>>
    BY <1>0, <1>11 DEF Snapshot
  <2>2. Reached(l)' = newest + 1
    BY <2>1 DEF Reached, ReachedOf, Frame
  <2> QED BY <1>0, <1>8, <2>1, <2>2
<1>12. ASSUME NEW l \in Link, Read(l) PROVE Ticked'
  <2>1. UNCHANGED <<ring, tick, cursor>> /\ spc[l] = "reading" /\ batch[l] = <<>>
        /\ newest' = newest /\ oldest' = oldest /\ marks' = marks
    BY <1>12 DEF Read, ring
  <2>2. cursor[l] >= 1
    BY <1>1, <2>1 DEF Reached, ReachedOf
  <2>3. Reached(l)' >= 1 /\ Reached(l)' > newest /\ Reached(l)' \in Nat
    <3>1. CASE batch'[l] = <<>>
      <4>1. Reached(l)' = cursor[l]
        BY <2>1, <3>1 DEF Reached, ReachedOf
      <4>2. oldest = 0 \/ cursor[l] > newest
        BY <1>12, <3>1, ReadBatch
      <4> QED BY <1>0, <1>1, <2>2, <4>1, <4>2
    <3>2. CASE batch'[l] # <<>>
      <4>1. batch'[l][Len(batch'[l])].seq = newest
        BY <1>12, <3>2, ReadBatch
      <4>2. Reached(l)' = newest + 1
        BY <3>2, <4>1 DEF Reached, ReachedOf
      <4> QED BY <1>0, <4>2
    <3> QED BY <3>1, <3>2
  <2>4. ~Behind(l)'
    <3>1. Reached(l)' .. newest = {}
      BY <1>0, <2>3
    <3> QED BY <2>1, <3>1 DEF Behind
  <2>5. \A k \in Link : k = l
    OBVIOUS
  <2> QED BY <1>1, <2>1, <2>3, <2>4, <2>5 DEF Ticked, Told
<1>13. ASSUME NEW l \in Link, Write(l) PROVE Ticked'
  <2>1. UNCHANGED <<tick, spc>> /\ newest' = newest /\ oldest' = oldest /\ marks' = marks
        /\ appending' = appending
    BY <1>13 DEF Write, ring
  <2>2. Reached(l)' = Reached(l)
    BY <1>13, WriteReaches DEF Typed
  <2>3. \A k \in Link : k = l
    OBVIOUS
  <2>4. Behind(l)' => Behind(l)
    BY <2>1, <2>2 DEF Behind
  <2> QED BY <1>1, <2>1, <2>2, <2>3, <2>4 DEF Ticked, Told
<1>14. ASSUME NEW gone \in BOOLEAN, NEW missed \in SUBSET Viewer, Reconnect(gone, missed)
       PROVE Ticked'
  <2>1. UNCHANGED ring /\ spc' = [spc EXCEPT ![relay] = "parked"]
    BY <1>14 DEF Reconnect
  <2> QED BY <1>0, <1>7, <2>1
<1>15. ASSUME NEW v \in Viewer,
              Handler(v) \/ Discard(v) \/ Join(v) \/ Park(v) \/ Unpark(v) \/ Leave(v)
       PROVE UNCHANGED <<ring, tick, spc, cursor, batch>>
  BY <1>0, <1>15
  DEF Handler, CountViewers, Tell, Discard, Join, Park, Unpark, Leave, Away, sender
<1>16. ASSUME NEW v \in Viewer, Reads(v) PROVE UNCHANGED <<ring, tick, spc, cursor, batch>>
  BY <1>0, <1>16 DEF Reads, SendResume, Paint, HostOffline, HostOnline, Away, sender
<1>17. ASSUME NEW l \in Link, Receive(l) \/ PushCursor(l) \/ MakeRoom(l)
       PROVE UNCHANGED <<ring, tick, spc, cursor, batch>>
  BY <1>17 DEF Receive, PushCursor, MakeRoom, sender
<1>18. ASSUME UNCHANGED vars PROVE UNCHANGED <<ring, tick, spc, cursor, batch>>
  BY <1>18 DEF vars, sender
<1> QED
  BY <1>3, <1>4, <1>5, <1>6, <1>9, <1>10, <1>11, <1>12, <1>13, <1>14, <1>15, <1>16, <1>17, <1>18
  DEF Next, Host, Pumps

\* A host nobody is attached to locally misses no tick: while its sender waits
\* with output in the ring that it has not read, a tick is in the channel or on
\* its way there (buffer.go, Notify). With a second sender on the channel this is
\* not so, and the run StreamTick shows it.
THEOREM LoneSenderIsTold == ASSUME Link = {relay} PROVE Spec => []NoTickMissed
<1>1. Init => Typed /\ Ticked
  <2>1. ASSUME Init PROVE Ticked
    BY <2>1 DEF Init, Ticked, Told
  <2> QED BY <2>1, InitTyped, StreamConstants
<1>2. Typed /\ Ticked /\ [Next]_vars => (Typed /\ Ticked)'
  BY Inductive, TickedStep, StreamConstants
<1>3. Ticked => NoTickMissed
  BY DEF Ticked, Told, NoTickMissed, Waiting, Behind, Reached, ReachedOf
<1> QED BY <1>1, <1>2, <1>3, PTL DEF Spec
------------------------------------------------------------------------------
(* Nobody waits behind a parked sender *)

\* Only the relay counts viewers, and a resume comes up its viewer's own link.
Belongs(l, m) ==
  /\ m.type = "resume" => Via[m.of] = l
  /\ m.type = "count" => l = relay
OwnMessages == \A l \in Link : \A i \in 1 .. Len(up[l]) : Belongs(l, up[l][i])

\* A local viewer that is not there has nothing under way and does not park, a
\* resume half handled has opened the gate, and a channel found full holds a cursor still, or the
\* sender has taken it and is at work.
Pending ==
  /\ \A v \in Viewer :
       Via[v] # relay /\ vpc[v] = "away" => up[Via[v]] = <<>> /\ resuming[Via[v]] = None
  /\ \A v \in Viewer : vpc[v] = "parked" => Via[v] = relay
  /\ resuming[relay] # None => viewers >= 1
  /\ \A l \in Link : full[l] => queue[l] # <<>> \/ spc[l] # "parked"

\* No count that comes after i says that nobody watches, but a late one.
Harmless(m) == m.type = "count" => m.n >= 1 \/ m.late
OpenAfter(q, i) == \A j \in i + 1 .. Len(q) : Harmless(q[j])
Asks(q) == \E i \in 1 .. Len(q) : q[i].type = "resume" /\ OpenAfter(q, i)
Working == spc[relay] # "parked" \/ resuming[relay] # None \/ queue[relay] # <<>>
OpenFor(v) ==
  OpenAfter(up[relay], 0) /\ (v \in shutOut \/ (viewers >= 1 /\ Working))

NoneOnline(q) == \A i \in 1 .. Len(q) : q[i].kind # "online"

\* A viewer at the relay that has not been told of a new connection has its resume
\* on the way, with nothing behind it that shuts the gate on it unseen; or the gate
\* is open and the sender at work or about to be, or a late count has shut it out.
\* A local viewer's gate never shuts.
Served(v) ==
  vpc[v] = "reading" =>
    /\ Via[v] = relay /\ NoneOnline(down[v]) => Asks(up[relay]) \/ OpenFor(v)
    /\ Via[v] # relay => spc[Via[v]] # "parked" \/ ResumeUnderWay(Via[v])

LEMMA AppendAsks ==
  ASSUME NEW q \in Seq(UpMessage), NEW m \in UpMessage
  PROVE  /\ m.type = "resume" => Asks(Append(q, m))
         /\ Harmless(m) => /\ Asks(q) => Asks(Append(q, m))
                           /\ OpenAfter(q, 0) => OpenAfter(Append(q, m), 0)
<1> DEFINE p == Append(q, m)
<1>1. Len(p) = Len(q) + 1 /\ Len(q) \in Nat /\ p[Len(q) + 1] = m
      /\ \A i \in 1 .. Len(q) : p[i] = q[i]
  OBVIOUS
<1> HIDE DEF p
<1>2. ASSUME m.type = "resume" PROVE Asks(p)
  <2>1. Len(q) + 1 \in 1 .. Len(p) /\ (Len(q) + 1) + 1 .. Len(p) = {}
    BY <1>1
  <2> QED BY <1>1, <1>2, <2>1 DEF Asks, OpenAfter
<1>3. ASSUME Harmless(m), NEW i \in Nat, OpenAfter(q, i) PROVE OpenAfter(p, i)
  <2>1. ASSUME NEW j \in i + 1 .. Len(p) PROVE Harmless(p[j])
    <3>1. CASE j \in i + 1 .. Len(q)
      <4>1. j \in 1 .. Len(q)
        BY <1>1, <3>1
      <4>2. p[j] = q[j] /\ Harmless(q[j])
        BY <1>1, <1>3, <3>1, <4>1 DEF OpenAfter
      <4> QED BY <4>2
    <3>2. CASE j = Len(q) + 1
      BY <1>1, <1>3, <3>2
    <3> QED BY <1>1, <3>1, <3>2
  <2> QED BY <2>1 DEF OpenAfter
<1>4. ASSUME Harmless(m), Asks(q) PROVE Asks(p)
  <2>1. PICK i \in 1 .. Len(q) : q[i].type = "resume" /\ OpenAfter(q, i)
    BY <1>4 DEF Asks
  <2>2. i \in 1 .. Len(p) /\ i \in Nat /\ p[i] = q[i]
    BY <1>1
  <2> QED BY <1>3, <1>4, <2>1, <2>2 DEF Asks
<1>5. 0 \in Nat
  OBVIOUS
<1> QED BY <1>2, <1>3, <1>4, <1>5 DEF p

LEMMA TailAsks ==
  ASSUME NEW q \in Seq(UpMessage), q # <<>>
  PROVE  /\ Asks(q) => Asks(Tail(q)) \/ (Head(q).type = "resume" /\ OpenAfter(Tail(q), 0))
         /\ OpenAfter(q, 0) => OpenAfter(Tail(q), 0) /\ Harmless(Head(q))
<1>1. Len(q) \in Nat \ {0} /\ Len(Tail(q)) = Len(q) - 1 /\ Head(q) = q[1]
      /\ \A j \in 1 .. Len(q) - 1 : Tail(q)[j] = q[j + 1]
  OBVIOUS
<1>2. ASSUME NEW i \in Nat, OpenAfter(q, i + 1) PROVE OpenAfter(Tail(q), i)
  <2>1. ASSUME NEW j \in i + 1 .. Len(Tail(q))
        PROVE j \in 1 .. Len(q) - 1 /\ j + 1 \in (i + 1) + 1 .. Len(q)
    BY <1>1
  <2>2. ASSUME NEW j \in i + 1 .. Len(Tail(q)) PROVE Harmless(Tail(q)[j])
    <3>1. Tail(q)[j] = q[j + 1] /\ Harmless(q[j + 1])
      BY <1>1, <1>2, <2>1 DEF OpenAfter
    <3> QED BY <3>1
  <2> QED BY <2>2 DEF OpenAfter
<1>3. ASSUME Asks(q) PROVE Asks(Tail(q)) \/ (Head(q).type = "resume" /\ OpenAfter(Tail(q), 0))
  <2>1. PICK i \in 1 .. Len(q) : q[i].type = "resume" /\ OpenAfter(q, i)
    BY <1>3 DEF Asks
  <2>2. CASE i = 1
    <3>1. 0 \in Nat /\ 0 + 1 = i
      BY <2>2
    <3>2. OpenAfter(Tail(q), 0)
      BY <1>2, <2>1, <3>1
    <3> QED BY <1>1, <2>1, <2>2, <3>2
  <2>3. CASE i # 1
    <3>1. i - 1 \in 1 .. Len(Tail(q)) /\ i - 1 \in 1 .. Len(q) - 1 /\ (i - 1) + 1 = i
          /\ i - 1 \in Nat
      BY <1>1, <2>3
    <3>2. Tail(q)[i - 1] = q[i]
      BY <1>1, <3>1
    <3>3. OpenAfter(Tail(q), i - 1)
      BY <1>2, <2>1, <3>1
    <3> QED BY <2>1, <3>1, <3>2, <3>3 DEF Asks
  <2> QED BY <2>2, <2>3
<1>4. ASSUME OpenAfter(q, 0) PROVE OpenAfter(Tail(q), 0) /\ Harmless(Head(q))
  <2>1. 1 \in 0 + 1 .. Len(q)
    BY <1>1
  <2>2. Harmless(q[1])
    BY <1>4, <2>1 DEF OpenAfter
  <2>3. ASSUME NEW j \in 0 + 1 .. Len(Tail(q)) PROVE Harmless(Tail(q)[j])
    <3>1. j \in 1 .. Len(q) - 1 /\ j + 1 \in 0 + 1 .. Len(q)
      BY <1>1, <2>3
    <3>2. Tail(q)[j] = q[j + 1] /\ Harmless(q[j + 1])
      BY <1>1, <1>4, <3>1 DEF OpenAfter
    <3> QED BY <3>2
  <2> QED BY <1>1, <2>2, <2>3 DEF OpenAfter
<1> QED BY <1>3, <1>4

\* What comes up a link, if anything does: while somebody stays at the relay,
\* nothing that shuts the gate on it unseen.
Stays == \E v \in Viewer : Via[v] = relay /\ vpc[v] = "reading" /\ vpc'[v] = "reading"
Adds(l) ==
  \E m \in UpMessage :
    /\ up'[l] = Append(up[l], m) /\ Belongs(l, m)
    /\ m.type = "resume" => vpc'[m.of] = "reading"
    /\ Stays => Harmless(m)

\* A link that a step leaves as it is, but for what comes up it.
Calm(l) ==
  /\ spc'[l] = spc[l] /\ resuming'[l] = resuming[l] /\ queue'[l] = queue[l] /\ full'[l] = full[l]
  /\ up'[l] = up[l] \/ Adds(l)

LEMMA Untouched ==
  ASSUME NEW l \in Link, spc'[l] = spc[l], resuming'[l] = resuming[l], queue'[l] = queue[l],
         full'[l] = full[l], up'[l] = up[l]
  PROVE  Calm(l)
BY DEF Calm

LEMMA OwnFunctions ==
  ASSUME StreamConstants, Typed
  PROVE  /\ up = [k \in Link |-> up[k]] /\ resuming = [k \in Link |-> resuming[k]]
         /\ full = [k \in Link |-> full[k]]
         /\ spc = [k \in Link |-> spc[k]] /\ queue = [k \in Link |-> queue[k]]
         /\ vpc = [v \in Viewer |-> vpc[v]]
         /\ relay \in Link /\ \A v \in Viewer : Via[v] \in Link
BY DEF StreamConstants, Typed, ReaderOK, SenderOK, ViewerOK

\* A viewer that goes leaves the others' links alone, but for the relay's count, and
\* that is not nought while one of them is there.
LEMMA AwayStep ==
  ASSUME StreamConstants, Typed, NEW w \in Viewer, vpc[w] # "away", Away(w),
         NEW l \in Link, Via[w] # l \/ l = relay
  PROVE  Calm(l)
<1>0. Via[w] \in Link /\ up = [k \in Link |-> up[k]] /\ resuming = [k \in Link |-> resuming[k]]
      /\ spc = [k \in Link |-> spc[k]] /\ queue = [k \in Link |-> queue[k]]
      /\ full = [k \in Link |-> full[k]]
  BY OwnFunctions
<1>1. CASE Via[w] = relay
  <2> DEFINE n == Cardinality(On(relay)) - 1
             m == Count(n, FALSE)
  <2>1. resuming' = resuming /\ spc' = spc /\ queue' = queue /\ full' = full
    BY <1>1 DEF Away, sender
  <2>2. CASE vpc[w] = "parked" \/ l # relay
    <3>1. up'[l] = up[l]
      BY <1>0, <1>1, <2>2 DEF Away
    <3> QED BY <2>1, <3>1, Untouched
  <2>3. CASE vpc[w] # "parked" /\ l = relay
    <3>1. up' = [up EXCEPT ![relay] = Append(@, m)]
      BY <1>1, <2>3 DEF Away
    <3>2. w \in On(relay) /\ vpc' = [vpc EXCEPT ![w] = "away"]
      BY <1>1, <2>3 DEF On, Away
    <3>3. n \in 0 .. Cardinality(Viewer)
      BY <3>2, Counted
    <3>4. m \in UpMessage /\ m.type = "count" /\ m.n = n
      BY <3>3, CountSent
    <3>5. ASSUME Stays PROVE n >= 1
      <4>1. PICK v \in Viewer : Via[v] = relay /\ vpc[v] = "reading" /\ vpc'[v] = "reading"
        BY <3>5 DEF Stays
      <4>2. v # w /\ v \in On(relay)
        BY <3>2, <4>1, OwnFunctions DEF On
      <4>3. Cardinality(On(relay)) >= 2 /\ Cardinality(On(relay)) \in 0 .. Cardinality(Viewer)
            /\ Cardinality(Viewer) \in Nat
        BY <3>2, <4>2, Counted
      <4> QED BY <4>3
    <3> HIDE DEF m, n
    <3>6. up'[l] = Append(up[l], m) /\ Belongs(l, m)
      BY <1>0, <2>3, <3>1, <3>4 DEF Belongs
    <3>7. Adds(l)
      BY <3>4, <3>5, <3>6 DEF Adds, Harmless
    <3> QED BY <2>1, <3>7 DEF Calm
  <2> QED BY <2>2, <2>3
<1>2. CASE Via[w] # relay
  <2>1. Via[w] # l
    BY <1>2
  <2>2. spc'[l] = spc[l] /\ resuming'[l] = resuming[l] /\ queue'[l] = queue[l]
        /\ full'[l] = full[l] /\ up'[l] = up[l]
    BY <1>0, <1>2, <2>1 DEF Away
  <2> QED BY <2>2, Untouched
<1> QED BY <1>1, <1>2

\* A handler's count: of none while somebody is there, it is late.
LEMMA TellStep ==
  ASSUME StreamConstants, Typed, NEW w \in Viewer, Tell(w), NEW l \in Link
  PROVE  Calm(l)
<1> DEFINE late == telling[w] = 0 /\ On(relay) # {}
           m == Count(telling[w], late)
<1>1. up' = [up EXCEPT ![relay] = Append(@, m)] /\ telling[w] # None
      /\ up = [k \in Link |-> up[k]]
  BY OwnFunctions DEF Tell
<1>2. telling[w] \in 0 .. Cardinality(Viewer) /\ Cardinality(Viewer) \in Nat
  BY <1>1, Counted DEF Typed, ViewerOK
<1>3. late \in BOOLEAN
  OBVIOUS
<1>4. late <=> telling[w] = 0 /\ On(relay) # {}
  OBVIOUS
<1>5. spc' = spc /\ resuming' = resuming /\ queue' = queue /\ full' = full
  BY DEF Tell, sender
<1> HIDE DEF late
<1>6. m \in UpMessage /\ m.type = "count" /\ m.n = telling[w] /\ m.late = late
  BY <1>2, <1>3, CountSent
<1> HIDE DEF m
<1>7. CASE l = relay
  <2>1. up'[l] = Append(up[l], m) /\ Belongs(l, m)
    BY <1>1, <1>6, <1>7 DEF Belongs
  <2>2. ASSUME Stays PROVE Harmless(m)
    <3>1. On(relay) # {}
      BY <2>2 DEF Stays, On
    <3>2. CASE telling[w] = 0
      <4>1. late
        BY <1>4, <3>1, <3>2
      <4> QED BY <1>6, <4>1, Zenon DEF Harmless
    <3>3. CASE telling[w] # 0
      BY <1>2, <1>6, <3>3 DEF Harmless
    <3> QED BY <3>2, <3>3
  <2>3. Adds(l)
    BY <1>6, <2>1, <2>2 DEF Adds
  <2> QED BY <1>5, <2>3 DEF Calm
<1>8. CASE l # relay
  <2>1. up'[l] = up[l]
    BY <1>1, <1>8
  <2> QED BY <1>5, <2>1, Untouched
<1> QED BY <1>7, <1>8

LEMMA ResumeStep ==
  ASSUME StreamConstants, Typed, NEW w \in Viewer, vpc'[w] = "reading",
         up' = [up EXCEPT ![Via[w]] = Append(@, Resume(w))],
         UNCHANGED <<resuming, full, sender>>, NEW l \in Link
  PROVE  Calm(l)
<1>1. spc' = spc /\ resuming' = resuming /\ queue' = queue /\ full' = full
  BY DEF sender
<1>2. CASE l = Via[w]
  <2>1. up'[l] = Append(up[l], Resume(w))
    BY <1>2, OwnFunctions
  <2>2. Resume(w) \in UpMessage /\ Resume(w).type = "resume" /\ Resume(w).of = w
    BY ResumeSent
  <2>3. Belongs(l, Resume(w)) /\ Harmless(Resume(w)) /\ vpc'[Resume(w).of] = "reading"
    BY <1>2, <2>2 DEF Belongs, Harmless
  <2>4. Adds(l)
    BY <2>1, <2>2, <2>3 DEF Adds
  <2> QED BY <1>1, <2>4 DEF Calm
<1>3. CASE l # Via[w]
  <2>1. up'[l] = up[l]
    BY <1>3, OwnFunctions
  <2> QED BY <1>1, <2>1, Untouched
<1> QED BY <1>2, <1>3

\* What a step does to a link: its pumps run, or the relay's connection is made
\* anew, or a local link's viewer comes or goes, or it is left alone.
LEMMA LinkStep ==
  ASSUME StreamConstants, Typed, [Next]_vars, NEW l \in Link
  PROVE  \/ Pumps(l)
         \/ Calm(l)
         \/ l = relay /\ \E gone \in BOOLEAN, missed \in SUBSET Viewer : Reconnect(gone, missed)
         \/ l # relay /\ \E w \in Viewer : Via[w] = l /\ (Join(w) \/ (vpc[w] # "away" /\ Away(w)))
<1>0. /\ up = [k \in Link |-> up[k]] /\ resuming = [k \in Link |-> resuming[k]]
      /\ full = [k \in Link |-> full[k]]
      /\ spc = [k \in Link |-> spc[k]] /\ queue = [k \in Link |-> queue[k]]
      /\ vpc = [v \in Viewer |-> vpc[v]]
      /\ relay \in Link /\ \A v \in Viewer : Via[v] \in Link
  BY OwnFunctions
<1> DEFINE Left == spc'[l] = spc[l] /\ resuming'[l] = resuming[l] /\ queue'[l] = queue[l]
                   /\ full'[l] = full[l] /\ up'[l] = up[l]
<1>1. Left => Calm(l)
  BY Untouched
<1>2. ASSUME UNCHANGED <<reader, sender>> PROVE Left
  BY <1>2 DEF reader, sender
<1>3. ASSUME NEW k \in Link, k # l, Pumps(k) PROVE Left
  <2>1. CASE Receive(k)
    BY <1>0, <1>3, <2>1 DEF Receive, sender
  <2>2. CASE PushCursor(k)
    BY <1>0, <1>3, <2>2 DEF PushCursor
  <2>3. CASE MakeRoom(k)
    BY <1>0, <1>3, <2>3 DEF MakeRoom
  <2>4. CASE TakeCursor(k) \/ TakeTick(k) \/ Gate(k)
    BY <1>0, <1>3, <2>4 DEF TakeCursor, TakeTick, Gate, reader
  <2>5. CASE Snapshot(k) \/ Read(k) \/ Write(k)
    BY <1>0, <1>3, <2>5 DEF Snapshot, Read, Write, reader
  <2> QED BY <1>3, <2>1, <2>2, <2>3, <2>4, <2>5 DEF Pumps
<1>4. ASSUME NEW gone \in BOOLEAN, NEW missed \in SUBSET Viewer, Reconnect(gone, missed), l # relay
      PROVE Left
  BY <1>0, <1>4 DEF Reconnect
<1>5. ASSUME NEW w \in Viewer, Join(w), ~(Via[w] = l /\ l # relay) PROVE Left
  <2>1. UNCHANGED <<reader, queue>>
    BY <1>5 DEF Join
  <2>2. spc'[l] = spc[l]
    BY <1>0, <1>5 DEF Join
  <2> QED BY <2>1, <2>2 DEF reader
<1>6. ASSUME NEW w \in Viewer,
             CountViewers(w) \/ Park(w) \/ Unpark(w) \/ Discard(w) \/ Paint(w) \/ HostOffline(w)
      PROVE Left
  <2>1. UNCHANGED <<reader, sender>>
    BY <1>6 DEF CountViewers, Park, Unpark, Discard, Paint, HostOffline
  <2> QED BY <1>2, <2>1
<1>7. ASSUME NEW w \in Viewer, SendResume(w) \/ (HostOnline(w) /\ live[w]) PROVE Calm(l)
  <2>1. /\ up' = [up EXCEPT ![Via[w]] = Append(@, Resume(w))]
        /\ UNCHANGED <<resuming, full, sender>> /\ vpc'[w] = "reading"
    BY <1>0, <1>7 DEF SendResume, HostOnline
  <2> QED BY <2>1, ResumeStep
<1>8. ASSUME NEW w \in Viewer, Leave(w) \/ (HostOnline(w) /\ ~live[w])
      PROVE vpc[w] # "away" /\ Away(w)
  BY <1>8 DEF Leave, HostOnline
<1>9. ASSUME Host \/ UNCHANGED vars PROVE Left
  <2>1. UNCHANGED <<reader, sender>>
    BY <1>9 DEF Host, Record, Tick, AppendResize, vars
  <2> QED BY <1>2, <2>1
<1>10. ASSUME NEW w \in Viewer, Via[w] # l \/ l = relay, vpc[w] # "away", Away(w) PROVE Calm(l)
  BY <1>10, AwayStep
<1> HIDE DEF Left
<1>11. CASE \E k \in Link : Pumps(k)
  BY <1>1, <1>3, <1>11
<1>12. CASE \E gone \in BOOLEAN, missed \in SUBSET Viewer : Reconnect(gone, missed)
  BY <1>1, <1>4, <1>12
<1>13. CASE \E w \in Viewer : Handler(w) \/ Reads(w) \/ Discard(w)
  <2>1. PICK w \in Viewer : Handler(w) \/ Reads(w) \/ Discard(w)
    BY <1>13
  <2> QED BY <1>1, <1>6, <1>7, <1>8, <1>10, <2>1, TellStep DEF Handler, Reads
<1>14. CASE \E w \in Viewer : Join(w) \/ Park(w) \/ Unpark(w) \/ Leave(w)
  <2>1. PICK w \in Viewer : Join(w) \/ Park(w) \/ Unpark(w) \/ Leave(w)
    BY <1>14
  <2> QED BY <1>1, <1>5, <1>6, <1>8, <1>10, <2>1
<1> QED BY <1>1, <1>9, <1>11, <1>12, <1>13, <1>14 DEF Next

LEMMA OwnStep ==
  ASSUME StreamConstants, Typed, OwnMessages, [Next]_vars
  PROVE  OwnMessages'
<1> DEFINE Owns(l, q) == \A i \in 1 .. Len(q) : Belongs(l, q[i])
<1>0. up \in [Link -> Seq(UpMessage)] /\ relay \in Link
      /\ \A l \in Link : Owns(l, up[l]) /\ up[l] \in Seq(UpMessage)
  BY DEF Typed, ReaderOK, OwnMessages, StreamConstants
<1>1. ASSUME NEW l \in Link PROVE Owns(l, up'[l])
  <2>1. Owns(l, <<>>)
    OBVIOUS
  <2>2. ASSUME up[l] # <<>> PROVE Owns(l, Tail(up[l]))
    <3>1. \A i \in 1 .. Len(Tail(up[l])) : i + 1 \in 1 .. Len(up[l]) /\ Tail(up[l])[i] = up[l][i + 1]
      BY <1>0, <2>2
    <3> QED BY <1>0, <3>1
  <2>3. ASSUME NEW m \in UpMessage, Belongs(l, m) PROVE Owns(l, Append(up[l], m))
    <3>1. ASSUME NEW i \in 1 .. Len(Append(up[l], m)) PROVE Belongs(l, Append(up[l], m)[i])
      <4>1. CASE i \in 1 .. Len(up[l])
        <5>1. Append(up[l], m)[i] = up[l][i]
          BY <1>0, <4>1
        <5> QED BY <1>0, <4>1, <5>1
      <4>2. CASE i = Len(up[l]) + 1
        <5>1. Append(up[l], m)[i] = m
          BY <1>0, <4>2
        <5> QED BY <2>3, <5>1
      <4> QED BY <1>0, <4>1, <4>2
    <3> QED BY <3>1
  <2> HIDE DEF Owns
  <2>4. CASE Pumps(l)
    <3>1. CASE Receive(l)
      <4>1. up[l] # <<>> /\ up'[l] = Tail(up[l])
        BY <1>0, <3>1 DEF Receive
      <4> QED BY <2>2, <4>1
    <3>2. CASE ~Receive(l)
      <4>1. up' = up
        BY <2>4, <3>2
        DEF Pumps, PushCursor, MakeRoom, TakeCursor, TakeTick, Gate, Snapshot, Read, Write, reader
      <4> QED BY <1>0, <4>1
    <3> QED BY <3>1, <3>2
  <2>5. CASE Calm(l)
    BY <1>0, <2>3, <2>5 DEF Calm, Adds
  <2>6. ASSUME l = relay, NEW gone \in BOOLEAN, NEW missed \in SUBSET Viewer, Reconnect(gone, missed)
        PROVE Owns(l, up'[l])
    BY <1>0, <2>1, <2>6 DEF Reconnect
  <2>7. ASSUME l # relay, NEW w \in Viewer, Via[w] = l, Join(w) \/ Away(w) PROVE Owns(l, up'[l])
    <3>1. up'[l] \in {up[l], <<>>}
      BY <1>0, <2>7 DEF Join, Away, reader
    <3> QED BY <1>0, <2>1, <3>1
  <2> QED BY <2>4, <2>5, <2>6, <2>7, LinkStep
<1> QED BY <1>1 DEF OwnMessages

\* The count falls only by what the relay says, or with the connection; and a viewer
\* comes out of shutOut only by its own resume.
LEMMA CountKept ==
  ASSUME StreamConstants, Typed, OwnMessages, [Next]_vars, ~Receive(relay),
         \A gone \in BOOLEAN, missed \in SUBSET Viewer : ~Reconnect(gone, missed)
  PROVE  /\ viewers >= 1 => viewers' >= 1
         /\ \A v \in Viewer : Via[v] = relay /\ vpc'[v] = "reading" /\ v \in shutOut => v \in shutOut'
<1>0. viewers \in Nat /\ up \in [Link -> Seq(UpMessage)] /\ vpc = [v \in Viewer |-> vpc[v]]
  BY Counted DEF Typed, ReaderOK, ViewerOK
<1> DEFINE Goal == /\ viewers >= 1 => viewers' >= 1
                   /\ \A v \in Viewer : Via[v] = relay /\ vpc'[v] = "reading" /\ v \in shutOut => v \in shutOut'
<1>1. ASSUME UNCHANGED <<viewers, shutOut>> PROVE Goal
  BY <1>1
<1>2. ASSUME NEW l \in Link, l # relay, Receive(l) PROVE Goal
  <2> DEFINE m == Head(up[l])
  <2>1. m \in UpMessage /\ Belongs(l, m)
    <3>1. up[l] # <<>> /\ up[l] \in Seq(UpMessage)
      BY <1>0, <1>2 DEF Receive
    <3>2. 1 \in 1 .. Len(up[l]) /\ m = up[l][1] /\ m \in UpMessage
      BY <3>1
    <3> QED BY <3>2 DEF OwnMessages
  <2>2. m.type # "count"
    BY <1>2, <2>1 DEF Belongs
  <2>3. m.type = "resume" /\ viewers' = Bump(viewers) /\ shutOut' = shutOut \ {m.of}
    BY <1>2, <2>2 DEF Receive
  <2>4. Via[m.of] = l
    BY <2>1, <2>3 DEF Belongs
  <2>5. viewers >= 1 => viewers' >= 1
    BY <1>0, <2>3 DEF Bump
  <2> HIDE DEF m
  <2> QED BY <1>2, <2>3, <2>4, <2>5
<1>3. ASSUME NEW w \in Viewer, viewers' = viewers, shutOut' = shutOut \ {w}, vpc'[w] # "reading"
      PROVE Goal
  BY <1>3
<1> SUFFICES Goal
  OBVIOUS
<1> HIDE DEF Goal
<1>4. ASSUME NEW w \in Viewer, Park(w) \/ Leave(w) \/ (HostOnline(w) /\ ~live[w]) PROVE Goal
  <2>1. viewers' = viewers /\ shutOut' = shutOut \ {w} /\ vpc'[w] # "reading"
    BY <1>0, <1>4 DEF Park, Leave, HostOnline, Away, Forget
  <2> QED BY <1>3, <2>1
<1>5. ASSUME NEW w \in Viewer,
             CountViewers(w) \/ Tell(w) \/ Unpark(w) \/ Discard(w) \/ Paint(w) \/ HostOffline(w)
               \/ Join(w) \/ SendResume(w) \/ (HostOnline(w) /\ live[w])
      PROVE Goal
  <2>1. UNCHANGED <<viewers, shutOut>>
    BY <1>5
    DEF CountViewers, Tell, Unpark, Discard, Paint, HostOffline, Join, SendResume, HostOnline, lost
  <2> QED BY <1>1, <2>1
<1>6. ASSUME NEW l \in Link, Pumps(l), ~Receive(l) PROVE Goal
  <2>1. UNCHANGED <<viewers, shutOut>>
    BY <1>6
    DEF Pumps, PushCursor, MakeRoom, TakeCursor, TakeTick, Gate, Snapshot, Read, Write, viewer, lost
  <2> QED BY <1>1, <2>1
<1>7. ASSUME Host \/ UNCHANGED vars PROVE Goal
  <2>1. UNCHANGED <<viewers, shutOut>>
    BY <1>7 DEF Host, Record, Tick, AppendResize, vars, viewer, lost
  <2> QED BY <1>1, <2>1
<1>8. CASE \E l \in Link : Pumps(l)
  <2>1. PICK l \in Link : Pumps(l)
    BY <1>8
  <2>2. CASE Receive(l)
    <3>1. l # relay
      BY <2>2
    <3> QED BY <1>2, <2>2, <3>1
  <2>3. CASE ~Receive(l)
    BY <1>6, <2>1, <2>3
  <2> QED BY <2>2, <2>3
<1>9. CASE \E w \in Viewer : Handler(w) \/ Reads(w) \/ Discard(w)
  <2>1. PICK w \in Viewer : Handler(w) \/ Reads(w) \/ Discard(w)
    BY <1>9
  <2> QED BY <1>4, <1>5, <2>1 DEF Handler, Reads
<1>10. CASE \E w \in Viewer : Join(w) \/ Park(w) \/ Unpark(w) \/ Leave(w)
  <2>1. PICK w \in Viewer : Join(w) \/ Park(w) \/ Unpark(w) \/ Leave(w)
    BY <1>10
  <2> QED BY <1>4, <1>5, <2>1
<1>11. ~\E gone \in BOOLEAN, missed \in SUBSET Viewer : Reconnect(gone, missed)
  OBVIOUS
<1> QED BY <1>7, <1>8, <1>9, <1>10, <1>11 DEF Next

\* Where a viewer goes from where it is.
LEMMA Moves ==
  ASSUME StreamConstants, Typed, [Next]_vars, NEW v \in Viewer, vpc'[v] # vpc[v]
  PROVE  \/ Join(v) \/ CountViewers(v) \/ Park(v) \/ Unpark(v) \/ SendResume(v)
         \/ vpc'[v] = "away" /\ vpc[v] # "away" /\ Away(v)
         \/ /\ \E gone \in BOOLEAN, missed \in SUBSET Viewer : Reconnect(gone, missed)
            /\ vpc'[v] = "joined" \/ (vpc'[v] = "away" /\ vpc[v] = "parked")
<1>0. vpc = [w \in Viewer |-> vpc[w]]
  BY OwnFunctions
<1>1. ASSUME Host \/ (\E l \in Link : Pumps(l)) \/ UNCHANGED vars PROVE FALSE
  <2>1. vpc' = vpc
    BY <1>1
    DEF Host, Record, Tick, AppendResize, Pumps, Receive, PushCursor, MakeRoom, TakeCursor,
        TakeTick, Gate, Snapshot, Read, Write, vars, viewer
  <2> QED BY <2>1
<1>2. ASSUME NEW gone \in BOOLEAN, NEW missed \in SUBSET Viewer, Reconnect(gone, missed)
      PROVE vpc'[v] = "joined" \/ (vpc'[v] = "away" /\ vpc[v] = "parked")
  BY <1>2 DEF Reconnect
<1>3. ASSUME NEW w \in Viewer, Handler(w) \/ Reads(w) \/ Discard(w)
      PROVE CountViewers(v) \/ SendResume(v) \/ (vpc'[v] = "away" /\ vpc[v] # "away" /\ Away(v))
  <2>1. CASE Tell(w) \/ Discard(w) \/ Paint(w) \/ HostOffline(w) \/ (HostOnline(w) /\ live[w])
    <3>1. vpc' = vpc
      BY <2>1 DEF Tell, Discard, Paint, HostOffline, HostOnline
    <3> QED BY <3>1
  <2>2. CASE CountViewers(w) \/ SendResume(w)
    <3>1. w = v
      BY <1>0, <2>2 DEF CountViewers, SendResume
    <3> QED BY <2>2, <3>1
  <2>3. CASE HostOnline(w) /\ ~live[w]
    <3>1. Away(w) /\ vpc[w] = "reading" /\ vpc' = [vpc EXCEPT ![w] = "away"]
      BY <2>3 DEF HostOnline, Away
    <3>2. w = v /\ vpc'[v] = "away"
      BY <1>0, <3>1
    <3> QED BY <3>1, <3>2
  <2> QED BY <1>3, <2>1, <2>2, <2>3 DEF Handler, Reads
<1>4. ASSUME NEW w \in Viewer, Join(w) \/ Park(w) \/ Unpark(w) \/ Leave(w)
      PROVE \/ Join(v) \/ Park(v) \/ Unpark(v)
            \/ vpc'[v] = "away" /\ vpc[v] # "away" /\ Away(v)
  <2>1. w = v
    BY <1>0, <1>4 DEF Join, Park, Unpark, Leave, Away
  <2>2. CASE Leave(v)
    BY <1>0, <2>2 DEF Leave, Away
  <2> QED BY <1>4, <2>1, <2>2
<1>5. CASE \E gone \in BOOLEAN, missed \in SUBSET Viewer : Reconnect(gone, missed)
  BY <1>2, <1>5
<1>6. CASE \E w \in Viewer : Handler(w) \/ Reads(w) \/ Discard(w)
  BY <1>3, <1>6
<1>7. CASE \E w \in Viewer : Join(w) \/ Park(w) \/ Unpark(w) \/ Leave(w)
  BY <1>4, <1>7
<1> QED BY <1>1, <1>5, <1>6, <1>7 DEF Next

LEMMA PendingStep ==
  ASSUME StreamConstants, Typed, OwnMessages, Pending, [Next]_vars
  PROVE  Pending'
<1>0. /\ up = [k \in Link |-> up[k]] /\ resuming = [k \in Link |-> resuming[k]]
      /\ full = [k \in Link |-> full[k]] /\ vpc = [v \in Viewer |-> vpc[v]]
      /\ spc = [k \in Link |-> spc[k]] /\ queue = [k \in Link |-> queue[k]]
      /\ relay \in Link /\ (\A v \in Viewer : Via[v] \in Link)
      /\ viewers \in Nat /\ \A l \in Link : full[l] => resuming[l] # None
  BY OwnFunctions, Counted DEF Typed, ReaderOK
<1>1. ASSUME NEW v \in Viewer, vpc'[v] = "parked" PROVE Via[v] = relay
  <2>1. CASE vpc[v] = "parked"
    BY <2>1 DEF Pending
  <2>2. CASE vpc[v] # "parked"
    <3>1. Park(v)
      BY <1>0, <1>1, <2>2, Moves DEF Join, CountViewers, Unpark, SendResume
    <3> QED BY <3>1 DEF Park
  <2> QED BY <2>1, <2>2
<1>2. ASSUME NEW v \in Viewer, Via[v] # relay, vpc'[v] = "away"
      PROVE up'[Via[v]] = <<>> /\ resuming'[Via[v]] = None
  <2> DEFINE l == Via[v]
  <2>1. CASE vpc[v] # "away"
    <3>1. Away(v)
      BY <1>0, <1>2, <2>1, Moves DEF Pending, Join, CountViewers, Park, Unpark, SendResume
    <3> QED BY <1>0, <1>2, <3>1 DEF Away
  <2>2. CASE vpc[v] = "away"
    <3>1. l \in Link /\ up[l] = <<>> /\ resuming[l] = None /\ ~full[l] /\ l # relay
      BY <1>0, <1>2, <2>2 DEF Pending
    <3>2. ASSUME NEW w \in Viewer, Via[w] = l PROVE w = v
      BY <1>2, <3>2 DEF StreamConstants
    <3>3. CASE Pumps(l)
      <4>1. up' = up /\ resuming' = resuming
        <5>1. ~Receive(l) /\ ~PushCursor(l) /\ ~MakeRoom(l)
          BY <3>1 DEF Receive, PushCursor, MakeRoom
        <5> QED BY <3>3, <5>1 DEF Pumps, TakeCursor, TakeTick, Gate, Snapshot, Read, Write, reader
      <4> QED BY <3>1, <4>1
    <3>4. CASE Calm(l)
      <4>1. ASSUME Adds(l) PROVE FALSE
        <5>1. PICK m \in UpMessage : Belongs(l, m) /\ (m.type = "resume" => vpc'[m.of] = "reading")
          BY <4>1 DEF Adds
        <5>2. m.type = "resume" /\ m.of \in Viewer
          BY <3>1, <5>1 DEF Belongs, UpMessage
        <5>3. m.of = v
          BY <3>2, <5>1, <5>2 DEF Belongs
        <5> QED BY <1>2, <5>1, <5>2, <5>3
      <4> QED BY <3>1, <3>4, <4>1 DEF Calm
    <3>5. ASSUME NEW w \in Viewer, Via[w] = l, Join(w) \/ (vpc[w] # "away" /\ Away(w)) PROVE FALSE
      BY <1>0, <1>2, <2>2, <3>2, <3>5 DEF Join
    <3> QED BY <3>1, <3>3, <3>4, <3>5, LinkStep
  <2> QED BY <2>1, <2>2
<1>3. ASSUME resuming'[relay] # None PROVE viewers' >= 1
  <2>1. CASE Receive(relay)
    <3>1. Head(up[relay]).type = "resume" /\ viewers' = Bump(viewers)
      BY <1>0, <1>3, <2>1 DEF Receive
    <3> QED BY <1>0, <3>1 DEF Bump
  <2>2. CASE \E gone \in BOOLEAN, missed \in SUBSET Viewer : Reconnect(gone, missed)
    BY <1>0, <1>3, <2>2 DEF Reconnect
  <2>3. CASE /\ ~Receive(relay)
             /\ \A gone \in BOOLEAN, missed \in SUBSET Viewer : ~Reconnect(gone, missed)
    <3>1. viewers >= 1 => viewers' >= 1
      BY <2>3, CountKept
    <3>2. resuming[relay] # None
      <4>1. CASE Pumps(relay)
        BY <1>0, <1>3, <2>3, <4>1
        DEF Pumps, PushCursor, MakeRoom, TakeCursor, TakeTick, Gate, Snapshot, Read, Write, reader
      <4>2. CASE Calm(relay)
        BY <1>3, <4>2 DEF Calm
      <4> QED BY <1>0, <2>3, <4>1, <4>2, LinkStep
    <3> QED BY <3>1, <3>2 DEF Pending
  <2> QED BY <2>1, <2>2, <2>3
<1>4. ASSUME NEW l \in Link, full'[l] PROVE queue'[l] # <<>> \/ spc'[l] # "parked"
  <2>1. CASE full[l] /\ queue'[l] = queue[l] /\ spc'[l] = spc[l]
    BY <2>1 DEF Pending
  <2>2. CASE Pumps(l)
    <3>1. CASE Receive(l)
      <4>1. full' = full /\ queue' = queue /\ spc' = spc
        BY <3>1 DEF Receive, sender
      <4> QED BY <1>4, <2>1, <4>1
    <3>2. CASE PushCursor(l)
      <4>1. CASE Len(queue[l]) < CursorCap
        <5>1. ~full[l] /\ full' = full
          BY <3>2, <4>1 DEF PushCursor
        <5> QED BY <1>4, <5>1
      <4>2. CASE ~(Len(queue[l]) < CursorCap)
        <5>1. queue' = queue
          BY <3>2, <4>2 DEF PushCursor
        <5>2. queue[l] # <<>>
          BY <4>2 DEF StreamConstants
        <5> QED BY <5>1, <5>2
      <4> QED BY <4>1, <4>2
    <3>3. CASE MakeRoom(l)
      <4>1. full' = [full EXCEPT ![l] = FALSE]
        BY <3>3 DEF MakeRoom
      <4>2. ~full'[l]
        BY <1>0, <4>1, Zenon
      <4> QED BY <1>4, <4>2
    <3>4. CASE TakeCursor(l) \/ TakeTick(l) \/ Snapshot(l) \/ Read(l)
      BY <1>0, <3>4 DEF TakeCursor, TakeTick, Snapshot, Read
    <3>5. CASE Gate(l)
      <4>1. full[l]
        BY <1>4, <3>5 DEF Gate, reader
      <4>2. ~(l = relay /\ viewers = 0)
        BY <1>0, <4>1 DEF Pending
      <4>3. spc' = [spc EXCEPT ![l] = IF cursor[l] <= oldest THEN "snapping" ELSE "reading"]
        BY <3>5, <4>2 DEF Gate
      <4> QED BY <1>0, <4>3
    <3>6. CASE Write(l)
      <4>1. full' = full /\ queue' = queue /\ spc' = spc
        BY <3>6 DEF Write, reader
      <4> QED BY <1>4, <2>1, <4>1
    <3> QED BY <2>2, <3>1, <3>2, <3>3, <3>4, <3>5, <3>6 DEF Pumps
  <2>3. CASE Calm(l)
    BY <1>4, <2>1, <2>3 DEF Calm
  <2>4. ASSUME l = relay, NEW gone \in BOOLEAN, NEW missed \in SUBSET Viewer, Reconnect(gone, missed)
        PROVE FALSE
    <3>1. full' = [full EXCEPT ![l] = FALSE]
      BY <2>4 DEF Reconnect
    <3> QED BY <1>0, <1>4, <3>1, Zenon
  <2>5. ASSUME l # relay, NEW w \in Viewer, Via[w] = l, Join(w) PROVE FALSE
    <3>1. resuming[l] = None /\ full' = full
      BY <2>5 DEF Pending, Join, reader
    <3> QED BY <1>0, <1>4, <3>1
  <2>6. ASSUME l # relay, NEW w \in Viewer, Via[w] = l, Away(w) PROVE FALSE
    <3>1. full' = [full EXCEPT ![l] = FALSE]
      BY <2>6 DEF Away
    <3> QED BY <1>0, <1>4, <3>1, Zenon
  <2> QED BY <2>2, <2>3, <2>4, <2>5, <2>6, LinkStep
<1> QED BY <1>1, <1>2, <1>3, <1>4 DEF Pending

\* What the pumps do with a resume: it is on its way, half handled, in the channel
\* or with a sender at work, until the sender comes to the gate.
LEMMA PumpsWork ==
  ASSUME StreamConstants, Typed, Pending, NEW l \in Link, Pumps(l), ~Receive(l)
  PROVE  /\ up' = up
         /\ resuming[l] # None => resuming'[l] # None \/ queue'[l] # <<>> \/ spc'[l] # "parked"
         /\ queue[l] # <<>> => resuming'[l] # None \/ queue'[l] # <<>> \/ spc'[l] # "parked"
         /\ spc[l] # "parked" => spc'[l] # "parked" \/ (l = relay /\ viewers = 0)
<1> DEFINE Busy == resuming'[l] # None \/ queue'[l] # <<>> \/ spc'[l] # "parked"
<1>0. /\ resuming = [k \in Link |-> resuming[k]] /\ spc = [k \in Link |-> spc[k]]
      /\ queue = [k \in Link |-> queue[k]] /\ queue[l] \in Seq(Owed)
      /\ full[l] => resuming[l] # None
  BY OwnFunctions DEF Typed, ReaderOK, SenderOK
<1>1. CASE PushCursor(l)
  <2>1. up' = up /\ spc' = spc
    BY <1>1 DEF PushCursor
  <2>2. CASE Len(queue[l]) < CursorCap
    <3>1. queue'[l] = Append(queue[l], resuming[l])
      BY <1>0, <1>1, <2>2 DEF PushCursor
    <3>2. queue'[l] # <<>>
      BY <1>0, <3>1
    <3> QED BY <2>1, <3>2
  <2>3. CASE ~(Len(queue[l]) < CursorCap)
    BY <1>1, <2>1, <2>3 DEF PushCursor
  <2> QED BY <2>2, <2>3
<1>2. CASE MakeRoom(l)
  <2>1. up' = up /\ spc' = spc /\ full[l] /\ resuming[l] # None
    BY <1>0, <1>2 DEF MakeRoom
  <2>2. CASE queue[l] # <<>>
    BY <1>2, <2>1, <2>2 DEF MakeRoom
  <2>3. CASE queue[l] = <<>>
    BY <2>1, <2>3 DEF Pending
  <2> QED BY <2>2, <2>3
<1>3. CASE TakeCursor(l) \/ TakeTick(l) \/ Snapshot(l) \/ Read(l)
  BY <1>0, <1>3 DEF TakeCursor, TakeTick, Snapshot, Read, reader
<1>4. CASE Gate(l)
  <2>1. up' = up /\ resuming' = resuming /\ queue' = queue /\ spc[l] # "parked"
    BY <1>4 DEF Gate, reader
  <2>2. CASE l = relay /\ viewers = 0
    <3>1. ~(resuming[l] # None)
      BY <2>2 DEF Pending, Typed, ReaderOK
    <3> QED BY <2>1, <2>2, <3>1
  <2>3. CASE ~(l = relay /\ viewers = 0)
    <3>1. spc' = [spc EXCEPT ![l] = IF cursor[l] <= oldest THEN "snapping" ELSE "reading"]
      BY <1>4, <2>3 DEF Gate
    <3> QED BY <1>0, <2>1, <3>1
  <2> QED BY <2>2, <2>3
<1>5. CASE Write(l)
  BY <1>5 DEF Write, reader
<1> QED BY <1>1, <1>2, <1>3, <1>4, <1>5 DEF Pumps

LEMMA RelayStep ==
  ASSUME StreamConstants, Typed, OwnMessages, Pending, [Next]_vars, NEW v \in Viewer,
         Via[v] = relay, vpc[v] = "reading", vpc'[v] = "reading",
         \A gone \in BOOLEAN, missed \in SUBSET Viewer : ~Reconnect(gone, missed),
         Asks(up[relay]) \/ OpenFor(v)
  PROVE  Asks(up'[relay]) \/ OpenFor(v)'
<1> DEFINE q == up[relay]
<1>0. /\ q \in Seq(UpMessage) /\ relay \in Link /\ viewers \in Nat
      /\ up = [k \in Link |-> up[k]] /\ resuming = [k \in Link |-> resuming[k]]
  BY OwnFunctions, Counted DEF Typed, ReaderOK
<1>1. CASE Receive(relay)
  <2> DEFINE m == Head(q)
  <2>1. q # <<>> /\ up'[relay] = Tail(q) /\ spc' = spc /\ queue' = queue /\ m \in UpMessage
    BY <1>0, <1>1 DEF Receive, sender
  <2>2. v \in On(relay)
    BY DEF On
  <2>3. ASSUME m.type = "resume", OpenAfter(Tail(q), 0) PROVE OpenFor(v)'
    <3>1. viewers' = Bump(viewers)
          /\ resuming' = [resuming EXCEPT ![relay] = [cursor |-> CursorAfter(m.from), of |-> m.of]]
      BY <1>1, <2>3 DEF Receive
    <3>2. viewers' >= 1
      BY <1>0, <3>1 DEF Bump
    <3>3. resuming'[relay] # None
      <4>1. m.from \in Nat /\ m.of \in Viewer
        BY <2>1, <2>3 DEF UpMessage
      <4>2. CursorAfter(m.from) \in Nat
        BY <4>1 DEF CursorAfter, Typed, RingOK
      <4> HIDE DEF m
      <4> QED BY <1>0, <3>1, <4>1, <4>2 DEF StreamConstants
    <3> QED BY <2>1, <2>3, <3>2, <3>3 DEF OpenFor, Working
  <2>4. CASE Asks(q)
    <3>1. Asks(Tail(q)) \/ (m.type = "resume" /\ OpenAfter(Tail(q), 0))
      BY <1>0, <2>1, <2>4, TailAsks
    <3> QED BY <2>1, <2>3, <3>1
  <2>5. CASE OpenFor(v)
    <3>1. OpenAfter(Tail(q), 0) /\ Harmless(m)
      BY <1>0, <2>1, <2>5, TailAsks DEF OpenFor
    <3>2. CASE m.type = "resume"
      BY <2>3, <3>1, <3>2
    <3>3. CASE m.type = "count" /\ m.late
      <4>1. shutOut' = {w \in On(relay) : vpc[w] = "reading"}
        BY <1>1, <3>3 DEF Receive
      <4> QED BY <2>1, <2>2, <3>1, <4>1 DEF OpenFor
    <3>4. CASE m.type = "count" /\ ~m.late
      <4>1. viewers' = m.n /\ shutOut' = shutOut /\ resuming' = resuming
        BY <1>1, <3>4 DEF Receive
      <4>2. m.n >= 1
        BY <3>1, <3>4 DEF Harmless
      <4>3. CASE v \in shutOut
        BY <2>1, <3>1, <4>1, <4>3 DEF OpenFor
      <4>4. CASE v \notin shutOut
        <5>1. Working
          BY <2>5, <4>4 DEF OpenFor
        <5>2. Working'
          BY <2>1, <4>1, <5>1 DEF Working
        <5>3. viewers' >= 1
          BY <4>1, <4>2
        <5> QED BY <2>1, <3>1, <5>2, <5>3 DEF OpenFor
      <4> QED BY <4>3, <4>4
    <3>5. m.type \in {"resume", "count"}
      BY <2>1 DEF UpMessage
    <3> QED BY <3>2, <3>3, <3>4, <3>5
  <2> QED BY <2>4, <2>5
<1>2. CASE ~Receive(relay)
  <2>1. /\ viewers >= 1 => viewers' >= 1
        /\ v \in shutOut => v \in shutOut'
    BY <1>2, CountKept
  <2>2. ASSUME up'[relay] = q, viewers >= 1 /\ Working => Working'
        PROVE  Asks(up'[relay]) \/ OpenFor(v)'
    BY <2>1, <2>2 DEF OpenFor
  <2>3. CASE Pumps(relay)
    <3>1. up' = up /\ (viewers >= 1 /\ Working => Working')
      BY <1>0, <1>2, <2>3, PumpsWork DEF Working
    <3> QED BY <2>2, <3>1
  <2>4. CASE Calm(relay)
    <3>1. Working => Working'
      BY <2>4 DEF Calm, Working
    <3>2. CASE up'[relay] = q
      BY <2>2, <3>1, <3>2
    <3>3. CASE Adds(relay)
      <4>1. PICK m \in UpMessage : up'[relay] = Append(q, m) /\ (Stays => Harmless(m))
        BY <3>3 DEF Adds
      <4>2. Harmless(m)
        BY <4>1 DEF Stays
      <4>3. CASE Asks(q)
        BY <1>0, <4>1, <4>2, <4>3, AppendAsks
      <4>4. CASE OpenFor(v)
        <5>1. OpenAfter(up'[relay], 0)
          BY <1>0, <4>1, <4>2, <4>4, AppendAsks DEF OpenFor
        <5> QED BY <2>1, <3>1, <4>4, <5>1 DEF OpenFor
      <4> QED BY <4>3, <4>4
    <3> QED BY <2>4, <3>2, <3>3 DEF Calm
  <2> QED BY <1>0, <2>3, <2>4, LinkStep
<1> QED BY <1>1, <1>2

LEMMA LocalStep ==
  ASSUME StreamConstants, Typed, OwnMessages, Pending, [Next]_vars, NEW v \in Viewer,
         Via[v] # relay, vpc[v] = "reading", vpc'[v] = "reading",
         spc[Via[v]] # "parked" \/ ResumeUnderWay(Via[v])
  PROVE  spc'[Via[v]] # "parked" \/ ResumeUnderWay(Via[v])'
<1> DEFINE l == Via[v]
           q == up[l]
<1>0. /\ q \in Seq(UpMessage) /\ l \in Link /\ l # relay
      /\ up = [k \in Link |-> up[k]] /\ resuming = [k \in Link |-> resuming[k]]
      /\ spc = [k \in Link |-> spc[k]] /\ vpc = [w \in Viewer |-> vpc[w]]
  BY OwnFunctions DEF Typed, ReaderOK
<1>1. ASSUME NEW w \in Viewer, Via[w] = l PROVE w = v
  BY <1>0, <1>1 DEF StreamConstants
<1>2. CASE Receive(l)
  <2> DEFINE m == Head(q)
  <2>1. q # <<>> /\ m \in UpMessage /\ Belongs(l, m)
    <3>1. q # <<>>
      BY <1>2 DEF Receive
    <3>2. 1 \in 1 .. Len(q) /\ m = q[1] /\ m \in UpMessage
      BY <1>0, <3>1
    <3> QED BY <1>0, <3>1, <3>2 DEF OwnMessages
  <2>2. m.type = "resume" /\ m.from \in Nat /\ m.of \in Viewer
    BY <1>0, <2>1 DEF Belongs, UpMessage
  <2>3. resuming' = [resuming EXCEPT ![l] = [cursor |-> CursorAfter(m.from), of |-> m.of]]
    BY <1>2, <2>2 DEF Receive
  <2>4. CursorAfter(m.from) \in Nat
    BY <2>2 DEF CursorAfter, Typed, RingOK
  <2> HIDE DEF m
  <2>5. resuming'[l] # None
    BY <1>0, <2>2, <2>3, <2>4 DEF StreamConstants
  <2> QED BY <2>5 DEF ResumeUnderWay
<1>3. CASE Pumps(l) /\ ~Receive(l)
  <2>1. /\ up' = up
        /\ resuming[l] # None \/ queue[l] # <<>> \/ spc[l] # "parked" =>
             resuming'[l] # None \/ queue'[l] # <<>> \/ spc'[l] # "parked"
    BY <1>0, <1>3, PumpsWork
  <2> QED BY <2>1 DEF ResumeUnderWay
<1>4. CASE Calm(l)
  <2>1. CASE up'[l] = q
    BY <1>4, <2>1 DEF Calm, ResumeUnderWay
  <2>2. CASE Adds(l)
    <3>1. PICK m \in UpMessage : up'[l] = Append(q, m)
      BY <2>2 DEF Adds
    <3>2. \A i \in 1 .. Len(q) : i \in 1 .. Len(up'[l]) /\ up'[l][i] = q[i]
      BY <1>0, <3>1
    <3> QED BY <1>4, <3>2 DEF Calm, ResumeUnderWay
  <2> QED BY <1>4, <2>1, <2>2 DEF Calm
<1>5. ASSUME NEW w \in Viewer, Via[w] = l, Join(w) \/ (vpc[w] # "away" /\ Away(w)) PROVE FALSE
  BY <1>0, <1>1, <1>5 DEF Join, Away
<1> QED BY <1>0, <1>2, <1>3, <1>4, <1>5, LinkStep

\* Only reading it takes the word of a new connection from what is on its way.
LEMMA OnlineStays ==
  ASSUME StreamConstants, Typed, [Next]_vars, NEW v \in Viewer,
         vpc[v] = "reading", vpc'[v] = "reading", NoneOnline(down'[v]), ~HostOnline(v)
  PROVE  /\ NoneOnline(down[v])
         /\ Via[v] = relay => \A gone \in BOOLEAN, missed \in SUBSET Viewer : ~Reconnect(gone, missed)
<1>0. /\ down \in [Viewer -> Seq(DownFrame)] /\ batch \in [Link -> Seq(BatchFrame)]
      /\ down[v] \in Seq(DownFrame)
      /\ vpc \in [Viewer -> Places]
  BY DEF Typed, ViewerOK, SenderOK
<1>1. ASSUME down'[v] = down[v] PROVE NoneOnline(down[v])
  BY <1>1
<1>2. ASSUME NEW f, down'[v] = Append(down[v], f), f \in DownFrame PROVE NoneOnline(down[v])
  <2>1. Len(down'[v]) = Len(down[v]) + 1 /\ \A i \in 1 .. Len(down[v]) : down'[v][i] = down[v][i]
    BY <1>0, <1>2
  <2>2. Len(down[v]) \in Nat /\ \A i \in 1 .. Len(down[v]) : i \in 1 .. Len(down'[v])
    BY <1>0, <2>1
  <2> QED BY <2>1, <2>2 DEF NoneOnline
<1>3. ASSUME down[v] # <<>>, down'[v] = Tail(down[v]), Head(down[v]).kind # "online"
      PROVE NoneOnline(down[v])
  <2>1. ASSUME NEW i \in 1 .. Len(down[v]) PROVE down[v][i].kind # "online"
    <3>1. CASE i = 1
      BY <1>0, <1>3, <3>1
    <3>2. CASE i # 1
      <4>1. i - 1 \in 1 .. Len(Tail(down[v])) /\ Tail(down[v])[i - 1] = down[v][i]
        BY <1>0, <1>3, <3>2
      <4> QED BY <1>3, <4>1 DEF NoneOnline
    <3> QED BY <3>1, <3>2
  <2> QED BY <2>1 DEF NoneOnline
<1>4. ASSUME NEW gone \in BOOLEAN, NEW missed \in SUBSET Viewer, Reconnect(gone, missed)
      PROVE Via[v] # relay /\ down'[v] = down[v]
  <2>1. CASE v \in On(relay)
    <3>1. PICK r \in Seq([kind : {"offline", "online"}, seq : {0}]) :
            down'[v] = down[v] \o r \o <<Frame("online", 0)>>
      <4>1. <<Frame("offline", 0)>> \in Seq([kind : {"offline", "online"}, seq : {0}])
            /\ <<>> \in Seq([kind : {"offline", "online"}, seq : {0}])
        BY DEF Frame
      <4>2. CASE gone
        BY <1>4, <2>1, <4>1, <4>2 DEF Reconnect
      <4>3. CASE ~gone
        BY <1>4, <2>1, <4>1, <4>3 DEF Reconnect
      <4> QED BY <4>2, <4>3
    <3>2. Len(down'[v]) \in 1 .. Len(down'[v]) /\ down'[v][Len(down'[v])] = Frame("online", 0)
      BY <1>0, <3>1
    <3> QED BY <3>2 DEF NoneOnline, Frame
  <2>2. CASE v \notin On(relay)
    BY <1>4, <2>2 DEF Reconnect, On
  <2> QED BY <2>1, <2>2
<1>5. ASSUME NEW l \in Link, Write(l) PROVE NoneOnline(down[v])
  <2> DEFINE f == Head(batch[l])
  <2>1. f \in BatchFrame
    BY <1>0, <1>5 DEF Write
  <2>2. f.kind # "mark" => f \in DownFrame
    BY <2>1 DEF BatchFrame, DownFrame
  <2>3. down'[v] = IF v \in On(l) /\ f.kind # "mark" THEN Append(down[v], f) ELSE down[v]
    BY <1>5 DEF Write
  <2> HIDE DEF f
  <2> QED BY <1>1, <1>2, <2>2, <2>3
<1>6. ASSUME NEW w \in Viewer,
             Handler(w) \/ Reads(w) \/ Discard(w) \/ Join(w) \/ Park(w) \/ Unpark(w) \/ Leave(w)
      PROVE NoneOnline(down[v])
  <2>1. CASE w = v
    <3>1. CASE Paint(v) \/ HostOffline(v)
      <4>1. down[v] # <<>> /\ down'[v] = Tail(down[v]) /\ Head(down[v]).kind # "online"
        BY <1>0, <3>1 DEF Paint, HostOffline
      <4> QED BY <1>3, <4>1
    <3>2. CASE Leave(v) \/ Park(v)
      BY <1>0, <3>2 DEF Leave, Away, Park
    <3>3. CASE Handler(v) \/ SendResume(v) \/ Join(v) \/ Unpark(v)
      <4>1. down' = down
        BY <3>3 DEF Handler, CountViewers, Tell, SendResume, Join, Unpark
      <4> QED BY <1>1, <4>1
    <3>4. ~Discard(v)
      BY DEF Discard
    <3> QED BY <1>6, <2>1, <3>1, <3>2, <3>3, <3>4 DEF Reads
  <2>2. CASE w # v
    <3>1. CASE Handler(w) \/ SendResume(w) \/ Join(w) \/ Unpark(w)
      BY <3>1 DEF Handler, CountViewers, Tell, SendResume, Join, Unpark
    <3>2. CASE Paint(w) \/ HostOffline(w) \/ Discard(w)
      BY <1>0, <2>2, <3>2 DEF Paint, HostOffline, Discard
    <3>3. CASE HostOnline(w) \/ Leave(w) \/ Park(w)
      BY <1>0, <2>2, <3>3 DEF HostOnline, Leave, Away, Park
    <3> QED BY <1>6, <3>1, <3>2, <3>3 DEF Reads
  <2> QED BY <2>1, <2>2
<1>7. ASSUME NEW l \in Link, Pumps(l), ~Write(l) PROVE down' = down
  BY <1>7
  DEF Pumps, Receive, PushCursor, MakeRoom, TakeCursor, TakeTick, Gate, Snapshot, Read, viewer
<1>8. ASSUME Host \/ UNCHANGED vars PROVE down' = down
  BY <1>8 DEF Host, Record, Tick, AppendResize, vars, viewer
<1>9. NoneOnline(down[v])
  <2>1. CASE \E l \in Link : Pumps(l)
    <3>1. PICK l \in Link : Pumps(l)
      BY <2>1
    <3>2. CASE Write(l)
      BY <1>5, <3>2
    <3>3. CASE ~Write(l)
      BY <1>1, <1>7, <3>1, <3>3
    <3> QED BY <3>2, <3>3
  <2>2. CASE \E gone \in BOOLEAN, missed \in SUBSET Viewer : Reconnect(gone, missed)
    BY <1>1, <1>4, <2>2
  <2>3. CASE \E w \in Viewer : Handler(w) \/ Reads(w) \/ Discard(w)
    BY <1>6, <2>3
  <2>4. CASE \E w \in Viewer : Join(w) \/ Park(w) \/ Unpark(w) \/ Leave(w)
    BY <1>6, <2>4
  <2>5. CASE Host \/ UNCHANGED vars
    BY <1>1, <1>8, <2>5
  <2> QED BY <2>1, <2>2, <2>3, <2>4, <2>5 DEF Next
<1>10. Via[v] = relay => \A gone \in BOOLEAN, missed \in SUBSET Viewer : ~Reconnect(gone, missed)
  BY <1>4
<1> QED BY <1>9, <1>10

LEMMA ServedStep ==
  ASSUME StreamConstants, Typed, OwnMessages, Pending, [Next]_vars, NEW v \in Viewer, Served(v)
  PROVE  Served(v)'
<1>0. /\ up \in [Link -> Seq(UpMessage)] /\ Via[v] \in Link
      /\ vpc \in [Viewer -> Places] /\ vpc = [w \in Viewer |-> vpc[w]]
  BY OwnFunctions DEF Typed, ReaderOK, ViewerOK
<1> SUFFICES ASSUME vpc'[v] = "reading"
             PROVE  /\ Via[v] = relay /\ NoneOnline(down'[v]) => Asks(up'[relay]) \/ OpenFor(v)'
                    /\ Via[v] # relay => spc'[Via[v]] # "parked" \/ ResumeUnderWay(Via[v])'
  BY DEF Served
<1>1. ASSUME up' = [up EXCEPT ![Via[v]] = Append(@, Resume(v))]
      PROVE  Asks(up'[Via[v]]) /\ ResumeUnderWay(Via[v])'
  <2>1. up'[Via[v]] = Append(up[Via[v]], Resume(v)) /\ up[Via[v]] \in Seq(UpMessage)
    BY <1>0, <1>1
  <2>2. Asks(up'[Via[v]])
    BY <2>1, ResumeSent, AppendAsks
  <2> QED BY <2>2 DEF Asks, ResumeUnderWay
<1>2. CASE vpc[v] # "reading"
  <2>1. SendResume(v)
    BY <1>0, <1>2, Moves DEF Join, CountViewers, Park, Unpark, Places
  <2> QED BY <1>1, <2>1 DEF SendResume
<1>3. CASE vpc[v] = "reading" /\ HostOnline(v)
  <2>1. live[v]
    BY <1>0, <1>3 DEF HostOnline, Away
  <2> QED BY <1>1, <1>3, <2>1 DEF HostOnline
<1>4. CASE vpc[v] = "reading" /\ ~HostOnline(v)
  <2>1. ASSUME Via[v] = relay, NoneOnline(down'[v]) PROVE Asks(up'[relay]) \/ OpenFor(v)'
    <3>1. NoneOnline(down[v])
          /\ \A gone \in BOOLEAN, missed \in SUBSET Viewer : ~Reconnect(gone, missed)
      BY <1>4, <2>1, OnlineStays
    <3>2. Asks(up[relay]) \/ OpenFor(v)
      BY <1>4, <2>1, <3>1 DEF Served
    <3> QED BY <1>4, <2>1, <3>1, <3>2, RelayStep
  <2>2. ASSUME Via[v] # relay PROVE spc'[Via[v]] # "parked" \/ ResumeUnderWay(Via[v])'
    BY <1>4, <2>2, LocalStep DEF Served
  <2> QED BY <2>1, <2>2
<1> QED BY <1>2, <1>3, <1>4

\* A viewer that is reading, with nothing on its way to it, is never left behind a
\* parked sender, unless the host went by a count of none that was taken before the
\* viewer came: its resume is under way, through every other count that overtakes
\* it, every connection made anew, every viewer that parks and every resume that
\* crosses it (runReader's TypeResume, runSender's gate, server.go's park).
THEOREM NobodyIsStranded == Spec => []NoViewerStranded
<1> DEFINE AllServed == \A v \in Viewer : Served(v)
<1>1. Init => Typed /\ OwnMessages /\ Pending /\ AllServed
  <2>1. ASSUME Init PROVE OwnMessages /\ Pending /\ AllServed
    <3>1. \A l \in Link : up[l] = <<>> /\ resuming[l] = None /\ ~full[l]
      BY <2>1 DEF Init
    <3>2. \A v \in Viewer : Via[v] \in Link /\ vpc[v] = "away"
      BY <2>1, StreamConstants DEF Init, StreamConstants
    <3>3. relay \in Link
      BY StreamConstants DEF StreamConstants
    <3> QED BY <3>1, <3>2, <3>3, StreamConstants DEF OwnMessages, Pending, Served
  <2> QED BY <2>1, InitTyped, StreamConstants
<1>2. Typed /\ OwnMessages /\ Pending /\ AllServed /\ [Next]_vars
        => (Typed /\ OwnMessages /\ Pending /\ AllServed)'
  <2>1. ASSUME Typed, OwnMessages, Pending, AllServed, [Next]_vars
        PROVE Typed' /\ OwnMessages' /\ Pending' /\ AllServed'
    <3>1. ASSUME NEW v \in Viewer PROVE Served(v)'
      BY <2>1, ServedStep, StreamConstants
    <3> QED BY <2>1, <3>1, Inductive, OwnStep, PendingStep, StreamConstants
  <2> QED BY <2>1
<1>3. AllServed => NoViewerStranded
  <2>1. ASSUME AllServed, NEW v \in Viewer, vpc[v] = "reading", down[v] = <<>>,
               spc[Via[v]] = "parked"
        PROVE ResumeUnderWay(Via[v]) \/ v \in shutOut
    <3>1. Served(v) /\ NoneOnline(down[v])
      BY <2>1 DEF NoneOnline
    <3>2. CASE Via[v] = relay
      BY <2>1, <3>1, <3>2 DEF Served, Asks, OpenFor, Working, ResumeUnderWay
    <3>3. CASE Via[v] # relay
      BY <2>1, <3>1, <3>3 DEF Served
    <3> QED BY <3>2, <3>3
  <2> QED BY <2>1 DEF NoViewerStranded
<1> QED BY <1>1, <1>2, <1>3, PTL DEF Spec
==============================================================================
