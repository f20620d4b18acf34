-------------------------- MODULE SealedFramesProofs --------------------------
(* What holds of SealedFrames whatever the constants: the types and the bound *)
(* on what is remembered, that no frame is acted on twice or out of order on  *)
(* its stream, that a keyed viewer refuses a frame of the host's only if one  *)
(* of a later connection has overtaken it, and that no two viewers send on    *)
(* one stream.                                                                *)
EXTENDS SealedFrames, FiniteSetTheorems, LeastNumber, TLAPS

(* A stream issued goes on from nothing accepted, one remembered from the last *)
(* counter accepted on it; what has been forgotten is never remembered again,  *)
(* since every stream remembered anew is past those issued.                    *)
StreamInv ==
  /\ \A s \in known : \A i \in 1 .. Len(acted[s]) : acted[s][i] <= last[s]
  /\ \A s \in StreamId : s > nextStream => acted[s] = <<>>
  /\ AcceptedInOrder

IInv == Typed /\ StreamInv

\* The streams of the handshakes before, and the new one's, are all that can be remembered.
LEMMA RememberedFew ==
  ASSUME NEW s PROVE Remembered(s) \subseteq known \cup {s}
  BY DEF Remembered

LEMMA InitTyped == ASSUME SealConstants, Init PROVE IInv
<1>1. StreamsOK
  BY DEF Init, StreamsOK, StreamId, SealConstants
<1>2. OutputOK
  BY DEF Init, OutputOK
<1>3. ReadersOK
  BY DEF Init, ReadersOK
<1>4. ViewersOK
  BY DEF Init, ViewersOK
<1>5. HistoryOK
  <2>1. <<>> \in Seq(Nat)
    OBVIOUS
  <2> QED BY <2>1 DEF Init, HistoryOK
<1>6. StreamInv
  BY DEF Init, StreamInv, AcceptedInOrder
<1>7. RelayedOK
  BY DEF Init, RelayedOK, Conn, SealConstants
<1> QED BY <1>1, <1>2, <1>3, <1>4, <1>5, <1>6, <1>7 DEF IInv, Typed

(* The streams and what has been accepted on them, step by step *)

\* A number past all of a rising sequence goes on it.
LEMMA RisesOn ==
  ASSUME NEW q \in Seq(Nat), NEW n \in Nat, NEW k \in Nat, k < n,
         \A i \in 1 .. Len(q) : q[i] <= k,
         \A i, j \in 1 .. Len(q) : i < j => q[i] < q[j]
  PROVE  /\ Append(q, n) \in Seq(Nat)
         /\ \A i \in 1 .. Len(Append(q, n)) : Append(q, n)[i] <= n
         /\ \A i, j \in 1 .. Len(Append(q, n)) : i < j => Append(q, n)[i] < Append(q, n)[j]
<1> DEFINE p == Append(q, n)
<1>1. p \in Seq(Nat) /\ Len(p) = Len(q) + 1 /\ Len(q) \in Nat /\ p[Len(q) + 1] = n
      /\ \A i \in 1 .. Len(q) : p[i] = q[i] /\ q[i] \in Nat
  OBVIOUS
<1> HIDE DEF p
<1>2. ASSUME NEW i \in 1 .. Len(q) PROVE p[i] = q[i] /\ q[i] \in Nat /\ q[i] < n
  BY <1>1
<1>3. ASSUME NEW i \in 1 .. Len(p) PROVE p[i] <= n
  <2>1. i \in 1 .. Len(q) \/ i = Len(q) + 1
    BY <1>1
  <2> QED BY <1>1, <1>2, <2>1
<1>4. ASSUME NEW i \in 1 .. Len(p), NEW j \in 1 .. Len(p), i < j PROVE p[i] < p[j]
  <2>1. i \in 1 .. Len(q)
    BY <1>1, <1>4
  <2>2. CASE j = Len(q) + 1
    BY <1>1, <1>2, <2>1, <2>2
  <2>3. CASE j \in 1 .. Len(q)
    BY <1>2, <1>4, <2>1, <2>3
  <2> QED BY <1>1, <2>2, <2>3
<1> QED BY <1>1, <1>3, <1>4 DEF p

\* What is acted on, on a stream remembered, comes after all that was.
LEMMA StepStreams ==
  ASSUME SealConstants, IInv, [Next]_vars
  PROVE  StreamsOK' /\ acted' \in [StreamId -> Seq(Nat)] /\ StreamInv'
<1>0. /\ nextStream \in 0 .. MaxStream /\ MaxStream \in Nat /\ known \subseteq 1 .. nextStream
      /\ last \in [StreamId -> Nat] /\ used \in [StreamId -> Nat] /\ tick \in Nat
      /\ acted \in [StreamId -> Seq(Nat)]
  BY DEF IInv, Typed, StreamsOK, HistoryOK, SealConstants
<1>00. /\ \A s \in known : \A i \in 1 .. Len(acted[s]) : acted[s][i] <= last[s]
       /\ \A s \in StreamId : s > nextStream => acted[s] = <<>>
       /\ AcceptedInOrder
  BY DEF IInv, StreamInv
<1>01. known \subseteq StreamId
  BY <1>0 DEF StreamId
<1>1. ASSUME NEW r \in Reader, Issue(r)
      PROVE StreamsOK' /\ acted' \in [StreamId -> Seq(Nat)] /\ StreamInv'
  <2> DEFINE n == nextStream + 1
  <2>1. n \in StreamId /\ n > nextStream /\ nextStream' = n /\ acted' = acted
    BY <1>0, <1>1 DEF Issue, history, StreamId
  <2>2. known' \subseteq known \cup {n}
    BY <1>1, RememberedFew DEF Issue
  <2>3. known' \subseteq 1 .. nextStream' /\ nextStream' \in 0 .. MaxStream
    BY <1>0, <2>1, <2>2 DEF StreamId
  <2>4. last' = [last EXCEPT ![n] = 0] /\ used' = [used EXCEPT ![n] = tick + 1] /\ tick' = tick + 1
    BY <1>1 DEF Issue
  <2>5. StreamsOK'
    <3> HIDE DEF n
    <3> QED BY <1>0, <2>1, <2>3, <2>4 DEF StreamsOK
  <2>6. ASSUME NEW s \in known' PROVE \A i \in 1 .. Len(acted'[s]) : acted'[s][i] <= last'[s]
    <3>1. CASE s = n
      <4>1. acted'[s] = <<>>
        BY <1>00, <3>1, <2>1
      <4> QED BY <4>1
    <3>2. CASE s # n
      <4>1. s \in known /\ s \in StreamId
        BY <1>01, <2>2, <3>2
      <4>2. last'[s] = last[s] /\ acted'[s] = acted[s]
        <5> HIDE DEF n
        <5> QED BY <1>0, <2>1, <2>4, <3>2, <4>1
      <4> QED BY <1>00, <4>1, <4>2
    <3> QED BY <3>1, <3>2
  <2>7. AcceptedInOrder'
    BY <1>00, <2>1 DEF AcceptedInOrder
  <2>8. (\A s \in StreamId : s > nextStream => acted[s] = <<>>)'
    <3>1. ASSUME NEW s \in StreamId, s > n PROVE s > nextStream
      BY <1>0, <3>1 DEF StreamId
    <3> HIDE DEF n
    <3> QED BY <1>00, <2>1, <3>1
  <2> QED BY <1>0, <2>1, <2>5, <2>6, <2>7, <2>8 DEF StreamInv
<1>2. ASSUME NEW r \in Reader, Admit(r)
      PROVE StreamsOK' /\ acted' \in [StreamId -> Seq(Nat)] /\ StreamInv'
  <2> DEFINE f == hand[r]
  <2>1. f \in ViewerFrame
    BY <1>2 DEF Admit, IInv, Typed, ReadersOK
  <2>2. nextStream' = nextStream /\ known' = known
    BY <1>2 DEF Admit
  <2>3. CASE ~StillPasses(f)
    <3>1. UNCHANGED <<last, used, tick, acted>>
      BY <1>2, <2>3 DEF Admit
    <3>2. AcceptedInOrder'
      BY <1>00, <3>1 DEF AcceptedInOrder
    <3> QED BY <1>0, <1>00, <2>2, <3>1, <3>2 DEF StreamsOK, StreamInv
  <2>4. CASE StillPasses(f)
    <3> DEFINE t == f.stream
               k == last[t]
               q == acted[t]
    <3>1. t \in known /\ t \in StreamId /\ f.ctr \in Nat /\ f.ctr > k
      BY <2>1, <2>4 DEF StillPasses, Passes, ViewerFrame
    <3>2. last' = [last EXCEPT ![t] = f.ctr] /\ acted' = [acted EXCEPT ![t] = Append(@, f.ctr)]
          /\ used' = [used EXCEPT ![t] = tick + 1] /\ tick' = tick + 1
      BY <1>2, <2>4 DEF Admit
    <3>3. StreamsOK'
      <4> HIDE DEF f, t
      <4> QED BY <1>0, <2>2, <3>1, <3>2 DEF StreamsOK
    <3>4. /\ q \in Seq(Nat) /\ k \in Nat /\ \A i \in 1 .. Len(q) : q[i] <= k
          /\ \A i, j \in 1 .. Len(q) : i < j => q[i] < q[j]
      BY <1>0, <1>00, <3>1 DEF AcceptedInOrder
    <3>5. last'[t] = f.ctr /\ acted'[t] = Append(q, f.ctr)
      BY <1>0, <3>1, <3>2
    <3>6. ASSUME NEW s \in StreamId, s # t PROVE last'[s] = last[s] /\ acted'[s] = acted[s]
      BY <1>0, <3>2, <3>6
    <3> DEFINE g == f.ctr
    <3>70. g \in Nat /\ k < g
      BY <3>1, <3>4
    <3> HIDE DEF f, t, k, q, g
    <3>7. /\ Append(q, g) \in Seq(Nat)
          /\ \A i \in 1 .. Len(Append(q, g)) : Append(q, g)[i] <= g
          /\ \A i, j \in 1 .. Len(Append(q, g)) : i < j => Append(q, g)[i] < Append(q, g)[j]
      BY <3>4, <3>70, RisesOn
    <3>71. last'[t] = g /\ acted'[t] = Append(q, g)
      BY <3>5 DEF g
    <3>8. acted' \in [StreamId -> Seq(Nat)]
      <4>1. \A s \in StreamId : acted'[s] \in Seq(Nat)
        BY <1>0, <3>6, <3>7, <3>71
      <4>2. acted' = [s \in StreamId |-> acted'[s]]
        BY <1>0, <3>2
      <4> QED BY <4>1, <4>2
    <3>9. \A s \in known : \A i \in 1 .. Len(acted'[s]) : acted'[s][i] <= last'[s]
      BY <1>00, <1>01, <3>6, <3>7, <3>71
    <3>10. \A s \in StreamId : s > nextStream => acted'[s] = <<>>
      <4>1. \A s \in StreamId : s > nextStream => s # t
        BY <1>0, <3>1
      <4> HIDE DEF StreamId
      <4> QED BY <1>00, <3>6, <4>1
    <3>11. AcceptedInOrder'
      <4> HIDE DEF StreamId
      <4> QED BY <1>00, <3>6, <3>7, <3>71 DEF AcceptedInOrder
    <3> QED BY <2>2, <3>3, <3>8, <3>9, <3>10, <3>11 DEF StreamInv
  <2> QED BY <2>3, <2>4
<1>3. ASSUME UNCHANGED <<streams, acted>>
      PROVE StreamsOK' /\ acted' \in [StreamId -> Seq(Nat)] /\ StreamInv'
  <2>1. nextStream' = nextStream /\ known' = known /\ last' = last /\ used' = used
        /\ tick' = tick /\ acted' = acted
    BY <1>3 DEF streams
  <2>2. StreamsOK'
    BY <1>0, <2>1 DEF StreamsOK
  <2>3. AcceptedInOrder'
    BY <1>00, <2>1 DEF AcceptedInOrder
  <2> QED BY <1>0, <1>00, <2>1, <2>2, <2>3 DEF StreamInv
<1>4. ASSUME NEW r \in Reader, ReadCounter(r) \/ WriteAnswer(r) \/ Check(r)
      PROVE UNCHANGED <<streams, acted>>
  BY <1>4 DEF ReadCounter, WriteAnswer, Check, history
<1>5. ASSUME NEW w \in Writer, WriterNext(w) PROVE UNCHANGED <<streams, acted>>
  BY <1>5 DEF WriterNext, BeginWrite, FinishWrite, history
<1>6. ASSUME NEW v \in Viewer, ViewerNext(v) PROVE UNCHANGED <<streams, acted>>
  BY <1>6 DEF ViewerNext, Hello, Key, Leave, Send, Receive, history
<1>7. ASSUME UNCHANGED vars PROVE UNCHANGED <<streams, acted>>
  BY <1>7 DEF vars, history
<1>8. ASSUME RelayNext PROVE UNCHANGED <<streams, acted>>
  BY <1>8 DEF RelayNext, Forward, Reconnect, Deliver, history
<1> QED BY <1>1, <1>2, <1>3, <1>4, <1>5, <1>6, <1>7, <1>8 DEF Next, ReaderNext

(* The types of the rest *)

LEMMA StepOutput ==
  ASSUME SealConstants, IInv, [Next]_vars
  PROVE  OutputOK'
<1> USE DEF IInv, Typed, OutputOK
<1>1. ASSUME NEW w \in Writer, BeginWrite(w) PROVE OutputOK'
  <2>1. PICK l \in Link : \E c \in ConnsOf(l) :
          writing' = [writing EXCEPT ![w] = [link |-> l, on |-> c, ctr |-> outCtr + 1]]
    BY <1>1 DEF BeginWrite
  <2>2. PICK c \in ConnsOf(l) :
          writing' = [writing EXCEPT ![w] = [link |-> l, on |-> c, ctr |-> outCtr + 1]]
    BY <2>1
  <2>3. c \in Nat
    BY <2>2 DEF ConnsOf, RelayedOK, Conn, SealConstants
  <2> QED BY <1>1, <2>2, <2>3 DEF BeginWrite
<1>2. ASSUME NEW w \in Writer, FinishWrite(w) PROVE OutputOK'
  BY <1>2 DEF FinishWrite
<1>3. ASSUME UNCHANGED output PROVE OutputOK'
  BY <1>3 DEF output
<1>4. ASSUME NEW r \in Reader, ReaderNext(r) PROVE UNCHANGED output
  BY <1>4 DEF ReaderNext, Issue, ReadCounter, WriteAnswer, Check, Admit
<1>5. ASSUME NEW v \in Viewer, ViewerNext(v) PROVE UNCHANGED output
  BY <1>5 DEF ViewerNext, Hello, Key, Leave, Send, Receive
<1>6. ASSUME RelayNext \/ UNCHANGED vars PROVE UNCHANGED output
  BY <1>6 DEF RelayNext, Forward, Reconnect, Deliver, vars
<1> QED BY <1>1, <1>2, <1>3, <1>4, <1>5, <1>6 DEF Next, WriterNext

\* A connection something is written to has a number, and what a handler has in hand is
\* a message for somebody, or nothing.
LEMMA Numbers ==
  ASSUME SealConstants, RelayedOK
  PROVE  /\ conn \in Nat /\ \A l : ConnsOf(l) \subseteq Nat
         /\ \A m \in Message, S \in SUBSET Viewer :
              Carried(m, S) \in [msg : Message, to : SUBSET Viewer] \cup {None}
BY DEF RelayedOK, Conn, SealConstants, ConnsOf, Carried

LEMMA WriteToTyped ==
  ASSUME RelayedOK, ViewersOK, NEW l, NEW c, NEW m \in Message, WriteTo(l, c, m)
  PROVE  pipe' \in Seq(Message) /\ down' \in [Viewer -> Seq(Message)]
<1> USE DEF RelayedOK, ViewersOK
<1>1. CASE l = relay
  <2>1. pipe' = (IF c = conn THEN Append(pipe, m) ELSE pipe) /\ down' = down
    BY <1>1 DEF WriteTo
  <2>2. Append(pipe, m) \in Seq(Message)
    OBVIOUS
  <2> QED BY <2>1, <2>2
<1>2. CASE l # relay
  <2>1. down' = [v \in Viewer |-> IF v \in On(l) THEN Append(down[v], m) ELSE down[v]]
        /\ pipe' = pipe
    BY <1>2 DEF WriteTo
  <2>2. ASSUME NEW v \in Viewer PROVE down'[v] \in Seq(Message)
    BY <2>1
  <2> QED BY <2>1, <2>2
<1> QED BY <1>1, <1>2

\* What is written, answered or sealed, is a message.
LEMMA Messages ==
  ASSUME IInv
  PROVE  /\ \A r \in Reader : rpc[r] = "answering" => Answer(hand[r]) \in Message
         /\ \A w \in Writer : writing[w] # None => Frame(writing[w]) \in Message
<1>1. ASSUME NEW r \in Reader, rpc[r] = "answering" PROVE Answer(hand[r]) \in Message
  <2>1. hand[r] \in Answering
    BY <1>1 DEF IInv, Typed, ReadersOK
  <2> QED BY <2>1 DEF Answer, Answering, Message
<1>2. ASSUME NEW w \in Writer, writing[w] # None PROVE Frame(writing[w]) \in Message
  <2>1. writing[w] \in [link : Link, on : Nat, ctr : Nat]
    BY <1>2 DEF IInv, Typed, OutputOK
  <2> QED BY <2>1 DEF Frame, Message
<1> QED BY <1>1, <1>2

LEMMA StepRelayed ==
  ASSUME SealConstants, IInv, [Next]_vars
  PROVE  RelayedOK'
<1> USE DEF RelayedOK
<1>0. RelayedOK /\ ViewersOK
  BY DEF IInv, Typed
<1>1. CASE Forward
  <2>1. Head(pipe) \in Message /\ pipe' \in Seq(Message) /\ On(relay) \in SUBSET Viewer
    BY <1>0, <1>1 DEF Forward, On
  <2>2. carrying' = [carrying EXCEPT ![conn] = Carried(Head(pipe), On(relay))] /\ conn' = conn
    BY <1>1 DEF Forward
  <2> QED BY <1>0, <2>1, <2>2, Numbers
<1>2. ASSUME NEW c \in Conn, NEW v \in Viewer, Deliver(c, v) PROVE RelayedOK'
  <2>1. carrying[c] \in [msg : Message, to : SUBSET Viewer]
    BY <1>0, <1>2 DEF Deliver
  <2>2. Carried(carrying[c].msg, carrying[c].to \ {v}) \in [msg : Message, to : SUBSET Viewer] \cup {None}
    BY <1>0, <2>1, Numbers
  <2>3. carrying' = [carrying EXCEPT ![c] = Carried(carrying[c].msg, carrying[c].to \ {v})]
        /\ conn' = conn /\ pipe' = pipe
    BY <1>2 DEF Deliver
  <2> QED BY <1>0, <2>2, <2>3
<1>3. CASE Reconnect
  BY <1>0, <1>3 DEF Reconnect, Conn, SealConstants
<1>4. ASSUME NEW v \in Viewer, Leave(v) PROVE RelayedOK'
  <2>1. ASSUME NEW c \in Conn
        PROVE (IF carrying[c] = None THEN None ELSE Carried(carrying[c].msg, carrying[c].to \ {v}))
                \in [msg : Message, to : SUBSET Viewer] \cup {None}
    <3>1. CASE carrying[c] = None
      BY <3>1
    <3>2. CASE carrying[c] # None
      <4>1. carrying[c].msg \in Message /\ carrying[c].to \ {v} \in SUBSET Viewer
        BY <1>0, <3>2
      <4> QED BY <1>0, <3>2, <4>1, Numbers
    <3> QED BY <3>1, <3>2
  <2>2. /\ conn' = conn /\ pipe' = pipe
        /\ carrying' = [c \in Conn |->
             IF carrying[c] = None THEN None ELSE Carried(carrying[c].msg, carrying[c].to \ {v})]
    BY <1>4 DEF Leave
  <2> QED BY <1>0, <2>1, <2>2
<1>5. ASSUME UNCHANGED <<conn, carrying>>, pipe' \in Seq(Message) PROVE RelayedOK'
  BY <1>0, <1>5
<1>6. ASSUME NEW r \in Reader, WriteAnswer(r) PROVE RelayedOK'
  <2>1. WriteTo(ReaderOn[r], hand[r].on, Answer(hand[r])) /\ Answer(hand[r]) \in Message
        /\ UNCHANGED <<conn, carrying>>
    BY <1>6, Messages DEF WriteAnswer
  <2> QED BY <1>0, <1>5, <2>1, WriteToTyped
<1>7. ASSUME NEW w \in Writer, FinishWrite(w) PROVE RelayedOK'
  <2>1. WriteTo(writing[w].link, writing[w].on, Frame(writing[w])) /\ Frame(writing[w]) \in Message
        /\ UNCHANGED <<conn, carrying>>
    BY <1>7, Messages DEF FinishWrite
  <2> QED BY <1>0, <1>5, <2>1, WriteToTyped
<1>8. ASSUME UNCHANGED relayed PROVE RelayedOK'
  BY <1>0, <1>8 DEF relayed
<1>9. ASSUME NEW r \in Reader, Issue(r) \/ ReadCounter(r) \/ Check(r) \/ Admit(r)
      PROVE UNCHANGED relayed
  BY <1>9 DEF Issue, ReadCounter, Check, Admit
<1>10. ASSUME NEW w \in Writer, BeginWrite(w) PROVE UNCHANGED relayed
  BY <1>10 DEF BeginWrite
<1>11. ASSUME NEW v \in Viewer, Hello(v) \/ Key(v) \/ Send(v) \/ Receive(v) PROVE UNCHANGED relayed
  BY <1>11 DEF Hello, Key, Send, Receive
<1>12. ASSUME UNCHANGED vars PROVE UNCHANGED relayed
  BY <1>12 DEF vars
<1> QED
  BY <1>1, <1>2, <1>3, <1>4, <1>6, <1>7, <1>8, <1>9, <1>10, <1>11, <1>12
  DEF Next, RelayNext, ReaderNext, WriterNext, ViewerNext

LEMMA StepReaders ==
  ASSUME SealConstants, IInv, [Next]_vars
  PROVE  ReadersOK'
<1> USE DEF IInv, Typed, ReadersOK, SealConstants
<1>1. ASSUME NEW r \in Reader, Issue(r) PROVE ReadersOK'
  <2>1. PICK a \in asked, c \in ConnsOf(ReaderOn[r]) :
          hand' = [hand EXCEPT ![r] =
                     [to |-> a.from, exID |-> a.exID, stream |-> nextStream + 1, on |-> c]]
          /\ asked' = asked \ {a}
    BY <1>1 DEF Issue
  <2>2. [to |-> a.from, exID |-> a.exID, stream |-> nextStream + 1, on |-> c] \in Pending
    BY <1>1, <2>1, Numbers DEF Issue, Pending, StreamsOK, StreamId
  <2>3. rpc' = [rpc EXCEPT ![r] = "issued"]
    BY <1>1 DEF Issue
  <2> QED BY <2>1, <2>2, <2>3
<1>2. ASSUME NEW r \in Reader, ReadCounter(r) PROVE ReadersOK'
  <2> DEFINE h == [to |-> hand[r].to, exID |-> hand[r].exID, stream |-> hand[r].stream,
                   on |-> hand[r].on, at |-> outCtr]
  <2>1. hand' = [hand EXCEPT ![r] = h] /\ rpc' = [rpc EXCEPT ![r] = "answering"] /\ asked' = asked
    BY <1>2 DEF ReadCounter
  <2>2. h \in Answering
    BY <1>2 DEF ReadCounter, Pending, Answering, OutputOK
  <2> QED BY <2>1, <2>2
<1>3. ASSUME NEW r \in Reader, WriteAnswer(r) \/ Admit(r) PROVE ReadersOK'
  <2>1. hand' = [hand EXCEPT ![r] = None] /\ rpc' = [rpc EXCEPT ![r] = "idle"] /\ asked' = asked
    BY <1>3 DEF WriteAnswer, Admit
  <2> QED BY <2>1
<1>4. ASSUME NEW r \in Reader, Check(r) PROVE ReadersOK'
  <2>1. PICK f \in wire : hand' = [hand EXCEPT ![r] = f]
    BY <1>4 DEF Check
  <2>2. f \in ViewerFrame
    BY DEF ViewersOK
  <2>3. rpc' = [rpc EXCEPT ![r] = "opening"] /\ asked' = asked
    BY <1>4 DEF Check
  <2> QED BY <2>1, <2>2, <2>3
<1>5. ASSUME NEW v \in Viewer, Hello(v) PROVE ReadersOK'
  <2>1. rpc' = rpc /\ hand' = hand
    BY <1>5 DEF Hello
  <2>2. asked' \subseteq [from : Viewer, exID : Nat]
    BY <1>5 DEF Hello, ViewersOK
  <2> QED BY <2>1, <2>2
<1>6. ASSUME UNCHANGED readers PROVE ReadersOK'
  <2>1. rpc' = rpc /\ hand' = hand /\ asked' = asked
    BY <1>6 DEF readers
  <2> QED BY <2>1
<1>7. ASSUME NEW w \in Writer, WriterNext(w) PROVE UNCHANGED readers
  BY <1>7 DEF WriterNext, BeginWrite, FinishWrite
<1>8. ASSUME NEW v \in Viewer, Key(v) \/ Leave(v) \/ Send(v) \/ Receive(v)
      PROVE UNCHANGED readers
  BY <1>8 DEF Key, Leave, Send, Receive
<1>9. ASSUME RelayNext \/ UNCHANGED vars PROVE UNCHANGED readers
  BY <1>9 DEF RelayNext, Forward, Reconnect, Deliver, vars
<1> QED
  BY <1>1, <1>2, <1>3, <1>4, <1>5, <1>6, <1>7, <1>8, <1>9 DEF Next, ReaderNext, ViewerNext

LEMMA StepViewers ==
  ASSUME SealConstants, IInv, [Next]_vars
  PROVE  ViewersOK'
<1> USE DEF IInv, Typed, ViewersOK, SealConstants
<1>1. ASSUME NEW r \in Reader, WriteAnswer(r) PROVE ViewersOK'
  <2>1. WriteTo(ReaderOn[r], hand[r].on, Answer(hand[r])) /\ Answer(hand[r]) \in Message
    BY <1>1, Messages DEF WriteAnswer
  <2>4. down' \in [Viewer -> Seq(Message)]
    BY <2>1, WriteToTyped
  <2>5. vpc' = vpc /\ exID' = exID /\ stream' = stream /\ sent' = sent /\ inLast' = inLast /\ wire' = wire
    BY <1>1 DEF WriteAnswer
  <2> QED BY <2>4, <2>5
<1>2. ASSUME NEW w \in Writer, FinishWrite(w) PROVE ViewersOK'
  <2>1. WriteTo(writing[w].link, writing[w].on, Frame(writing[w])) /\ Frame(writing[w]) \in Message
    BY <1>2, Messages DEF FinishWrite
  <2>4. down' \in [Viewer -> Seq(Message)]
    BY <2>1, WriteToTyped
  <2>5. vpc' = vpc /\ exID' = exID /\ stream' = stream /\ sent' = sent /\ inLast' = inLast /\ wire' = wire
    BY <1>2 DEF FinishWrite
  <2> QED BY <2>4, <2>5
<1>3. ASSUME NEW v \in Viewer, Hello(v) PROVE ViewersOK'
  <2>1. vpc' = [vpc EXCEPT ![v] = "keying"] /\ exID' = [exID EXCEPT ![v] = @ + 1]
        /\ UNCHANGED <<stream, sent, inLast, down, wire>>
    BY <1>3 DEF Hello
  <2> QED BY <2>1
<1>4. ASSUME NEW v \in Viewer, Key(v) PROVE ViewersOK'
  <2> DEFINE m == Head(down[v])
  <2>1. m \in Message /\ Tail(down[v]) \in Seq(Message)
    BY <1>4 DEF Key
  <2>2. down' = [down EXCEPT ![v] = Tail(@)] /\ exID' = exID /\ wire' = wire
    BY <1>4 DEF Key
  <2>3. CASE Mine(v, m)
    <3>1. m.kind = "answer"
      BY <2>3 DEF Mine
    <3>2. m.stream \in StreamId /\ m.at \in Nat
      BY <2>1, <3>1 DEF Message
    <3>3. vpc' = [vpc EXCEPT ![v] = "keyed"] /\ stream' = [stream EXCEPT ![v] = m.stream]
          /\ sent' = [sent EXCEPT ![v] = 0] /\ inLast' = [inLast EXCEPT ![v] = m.at]
      BY <1>4, <2>3 DEF Key
    <3> QED BY <2>1, <2>2, <3>2, <3>3
  <2>4. CASE ~Mine(v, m)
    <3>1. UNCHANGED <<vpc, stream, sent, inLast>>
      BY <1>4, <2>4 DEF Key
    <3> QED BY <2>1, <2>2, <3>1
  <2> QED BY <2>3, <2>4
<1>5. ASSUME NEW v \in Viewer, Leave(v) PROVE ViewersOK'
  <2>1. vpc' = [vpc EXCEPT ![v] = "away"] /\ down' = [down EXCEPT ![v] = <<>>]
        /\ stream' = [stream EXCEPT ![v] = 0] /\ sent' = [sent EXCEPT ![v] = 0]
        /\ inLast' = [inLast EXCEPT ![v] = 0] /\ UNCHANGED <<exID, wire>>
    BY <1>5 DEF Leave
  <2>2. <<>> \in Seq(Message)
    OBVIOUS
  <2> QED BY <2>1, <2>2
<1>6. ASSUME NEW v \in Viewer, Send(v) PROVE ViewersOK'
  <2>1. [stream |-> stream[v], ctr |-> sent[v] + 1] \in ViewerFrame
    BY <1>6 DEF Send, ViewerFrame
  <2>2. sent' = [sent EXCEPT ![v] = @ + 1]
        /\ wire' = wire \cup {[stream |-> stream[v], ctr |-> sent[v] + 1]}
        /\ UNCHANGED <<vpc, exID, stream, inLast, down>>
    BY <1>6 DEF Send
  <2> QED BY <2>1, <2>2
<1>7. ASSUME NEW v \in Viewer, Receive(v) PROVE ViewersOK'
  <2> DEFINE m == Head(down[v])
  <2>1. m \in Message /\ Tail(down[v]) \in Seq(Message)
    BY <1>7 DEF Receive
  <2>2. down' = [down EXCEPT ![v] = Tail(@)] /\ UNCHANGED <<vpc, exID, stream, sent, wire>>
    BY <1>7 DEF Receive
  <2>3. m.kind = "frame" => m.ctr \in Nat
    BY <2>1 DEF Message
  <2>4. inLast' \in [Viewer -> Nat]
    BY <1>7, <2>3 DEF Receive
  <2> QED BY <2>1, <2>2, <2>4
<1>8. ASSUME UNCHANGED <<viewers, wire>> PROVE ViewersOK'
  <2>1. UNCHANGED <<vpc, exID, stream, sent, inLast, down, wire>>
    BY <1>8 DEF viewers
  <2> QED BY <2>1
<1>9. ASSUME NEW r \in Reader, Issue(r) \/ ReadCounter(r) \/ Check(r) \/ Admit(r)
      PROVE UNCHANGED <<viewers, wire>>
  BY <1>9 DEF Issue, ReadCounter, Check, Admit
<1>10. ASSUME NEW w \in Writer, BeginWrite(w) PROVE UNCHANGED <<viewers, wire>>
  BY <1>10 DEF BeginWrite
<1>11. ASSUME Forward \/ Reconnect \/ UNCHANGED vars PROVE UNCHANGED <<viewers, wire>>
  BY <1>11 DEF Forward, Reconnect, vars
<1>12. ASSUME NEW c \in Conn, NEW v \in Viewer, Deliver(c, v) PROVE ViewersOK'
  <2>1. carrying[c].msg \in Message
    BY <1>12 DEF Deliver, RelayedOK
  <2>2. down' = [down EXCEPT ![v] = Append(@, carrying[c].msg)]
        /\ UNCHANGED <<vpc, exID, stream, sent, inLast, wire>>
    BY <1>12 DEF Deliver
  <2> QED BY <2>1, <2>2
<1> QED
  BY <1>1, <1>2, <1>3, <1>4, <1>5, <1>6, <1>7, <1>8, <1>9, <1>10, <1>11, <1>12
  DEF Next, RelayNext, ReaderNext, WriterNext, ViewerNext

LEMMA StepHistory ==
  ASSUME SealConstants, IInv, [Next]_vars
  PROVE  heard' \in [Viewer -> Nat] /\ refused' \in BOOLEAN
<1>0. heard \in [Viewer -> Nat] /\ refused \in BOOLEAN /\ down \in [Viewer -> Seq(Message)]
  BY DEF IInv, Typed, HistoryOK, ViewersOK
<1>1. ASSUME NEW v \in Viewer, Key(v) \/ Receive(v)
      PROVE heard' \in [Viewer -> Nat] /\ refused' \in BOOLEAN
  <2>1. Head(down[v]) \in Message
    BY <1>0, <1>1 DEF Key, Receive
  <2>2. Head(down[v]).on \in Nat
    BY <2>1 DEF Message
  <2>3. heard' \in [Viewer -> Nat]
    BY <1>0, <1>1, <2>2 DEF Key, Receive
  <2>4. refused' \in BOOLEAN
    <3>1. CASE Key(v)
      BY <1>0, <3>1 DEF Key
    <3>2. CASE Receive(v)
      BY <1>0, <3>2 DEF Receive
    <3> QED BY <1>1, <3>1, <3>2
  <2> QED BY <2>3, <2>4
<1>2. ASSUME NEW v \in Viewer, Leave(v) PROVE heard' \in [Viewer -> Nat] /\ refused' \in BOOLEAN
  <2>1. heard' = [heard EXCEPT ![v] = 0] /\ refused' = refused
    BY <1>2 DEF Leave
  <2> QED BY <1>0, <2>1
<1>3. ASSUME UNCHANGED <<heard, refused>> PROVE heard' \in [Viewer -> Nat] /\ refused' \in BOOLEAN
  BY <1>0, <1>3
<1>4. ASSUME NEW v \in Viewer, Hello(v) \/ Send(v) PROVE UNCHANGED <<heard, refused>>
  BY <1>4 DEF Hello, Send, history
<1>5. ASSUME NEW r \in Reader, ReaderNext(r) PROVE UNCHANGED <<heard, refused>>
  BY <1>5 DEF ReaderNext, Issue, ReadCounter, WriteAnswer, Check, Admit, history
<1>6. ASSUME NEW w \in Writer, WriterNext(w) PROVE UNCHANGED <<heard, refused>>
  BY <1>6 DEF WriterNext, BeginWrite, FinishWrite, history
<1>7. ASSUME RelayNext \/ UNCHANGED vars PROVE UNCHANGED <<heard, refused>>
  BY <1>7 DEF RelayNext, Forward, Reconnect, Deliver, history, vars
<1> QED BY <1>1, <1>2, <1>3, <1>4, <1>5, <1>6, <1>7 DEF Next, ViewerNext

LEMMA Inductive == ASSUME SealConstants, IInv, [Next]_vars PROVE IInv'
  BY StepStreams, StepOutput, StepRelayed, StepReaders, StepViewers, StepHistory
  DEF IInv, Typed, HistoryOK

------------------------------------------------------------------------------
\* Every variable keeps its type, and only streams a handshake issued are
\* remembered (sealState, viewerSeal).
THEOREM Types == Spec => []Typed
<1>1. Init => IInv
  BY InitTyped, SealConstants
<1>2. IInv /\ [Next]_vars => IInv'
  BY Inductive, SealConstants
<1>3. IInv => Typed
  BY DEF IInv
<1> QED BY <1>1, <1>2, <1>3, PTL DEF Spec

\* No sealed frame is acted on twice, not even twice in a row, or out of order on its
\* stream, however many streams, readers and bounds there are (openSealed, sealInfoFor).
THEOREM FramesOnceInOrder == Spec => []AcceptedInOrder
<1>1. Init => IInv
  BY InitTyped, SealConstants
<1>2. IInv /\ [Next]_vars => IInv'
  BY Inductive, SealConstants
<1>3. IInv => AcceptedInOrder
  BY DEF IInv, StreamInv
<1> QED BY <1>1, <1>2, <1>3, PTL DEF Spec

------------------------------------------------------------------------------
(* The bound on the streams remembered *)

Bounded == Cardinality(known) <= MaxKnown

\* A stream issued past the bound costs at least one of those remembered: some
\* was used no later than any other.
LEMMA OldestGoes ==
  ASSUME SealConstants, Typed, Bounded
  PROVE  Cardinality(Remembered(nextStream + 1)) <= MaxKnown
<1> DEFINE n == nextStream + 1
           all == known \cup {n}
           oldest == {t \in known : \A u \in known : used[t] <= used[u]}
<1>1. nextStream \in Nat /\ known \subseteq 1 .. nextStream /\ n \notin known
  BY DEF Typed, StreamsOK, SealConstants
<1>2. IsFiniteSet(known)
  <2>1. IsFiniteSet(1 .. nextStream)
    BY <1>1, FS_Interval
  <2> QED BY <1>1, <2>1, FS_Subset
<1>3. Cardinality(known) \in Nat /\ MaxKnown \in Nat \ {0} /\ Cardinality(known) <= MaxKnown
  BY <1>2, FS_CardinalityType DEF SealConstants, Bounded
<1>4. IsFiniteSet(all) /\ Cardinality(all) = Cardinality(known) + 1
  BY <1>1, <1>2, FS_AddElement
<1>5. CASE Cardinality(all) <= MaxKnown
  BY <1>5, <1>3, <1>4 DEF Remembered
<1>6. CASE Cardinality(all) > MaxKnown
  <2>1. known # {}
    <3>1. ASSUME known = {} PROVE FALSE
      <4>1. Cardinality(known) = 0
        BY <3>1, FS_EmptySet, Zenon
      <4> HIDE DEF all
      <4> QED BY <4>1, <1>3, <1>4, <1>6
    <3> QED BY <3>1
  <2>2. \A t \in known : used[t] \in Nat
    BY DEF Typed, StreamsOK, StreamId, SealConstants
  <2> DEFINE ticks == {used[t] : t \in known}
  <2>3. ticks \in SUBSET Nat /\ ticks # {}
    BY <2>1, <2>2
  <2>4. PICK k \in ticks : \A j \in ticks : k <= j
    <3> HIDE DEF ticks
    <3> QED BY <2>3, Least
  <2>5. PICK t \in known : used[t] = k
    BY <2>4
  <2>6. t \in all \cap oldest
    BY <2>4, <2>5
  <2>7. Cardinality(all \ oldest) <= Cardinality(all) - 1
    <3> HIDE DEF all, oldest
    <3> QED BY <1>4, <2>6, SmallerWithout
  <2>8. Remembered(n) = all \ oldest
    BY <1>6 DEF Remembered
  <2>9. IsFiniteSet(all \ oldest) /\ Cardinality(all \ oldest) \in Nat
    <3> HIDE DEF all, oldest
    <3> QED BY <1>4, FS_Subset, FS_CardinalityType
  <2>10. Cardinality(all \ oldest) <= MaxKnown
    <3> HIDE DEF all, oldest
    <3> QED BY <1>3, <1>4, <2>7, <2>9
  <2> QED BY <2>8, <2>10, Zenon
<1> QED
  <2>1. Cardinality(all) \in Nat
    BY <1>4, <1>3
  <2> QED BY <1>3, <1>5, <1>6, <2>1

LEMMA BoundedStep ==
  ASSUME SealConstants, Typed, Bounded, [Next]_vars
  PROVE  Bounded'
<1>1. ASSUME NEW r \in Reader, Issue(r) PROVE Bounded'
  <2>1. known' = Remembered(nextStream + 1)
    BY <1>1 DEF Issue
  <2> QED BY <2>1, OldestGoes DEF Bounded
<1>2. ASSUME known' = known PROVE Bounded'
  BY <1>2 DEF Bounded
<1>3. ASSUME NEW r \in Reader, ReadCounter(r) \/ WriteAnswer(r) \/ Check(r) \/ Admit(r)
      PROVE known' = known
  BY <1>3 DEF ReadCounter, WriteAnswer, Check, Admit, streams
<1>4. ASSUME NEW w \in Writer, WriterNext(w) PROVE known' = known
  BY <1>4 DEF WriterNext, BeginWrite, FinishWrite, streams
<1>5. ASSUME NEW v \in Viewer, ViewerNext(v) PROVE known' = known
  BY <1>5 DEF ViewerNext, Hello, Key, Leave, Send, Receive, streams
<1>6. ASSUME RelayNext \/ UNCHANGED vars PROVE known' = known
  BY <1>6 DEF RelayNext, Forward, Reconnect, Deliver, vars, streams
<1> QED BY <1>1, <1>2, <1>3, <1>4, <1>5, <1>6 DEF Next, ReaderNext

\* Every variable keeps its type, and the host never remembers more streams than
\* maxStreams, however many handshakes come (sealInfoFor).
THEOREM TypesAndBound == Spec => []TypeOK
<1>1. Init => IInv /\ Bounded
  <2>1. ASSUME Init PROVE Bounded
    BY <2>1, SealConstants, FS_EmptySet DEF Init, Bounded, SealConstants
  <2> QED BY <2>1, InitTyped, SealConstants
<1>2. IInv /\ Bounded /\ [Next]_vars => (IInv /\ Bounded)'
  BY Inductive, BoundedStep, SealConstants DEF IInv
<1>3. IInv /\ Bounded => TypeOK
  BY DEF IInv, Bounded, TypeOK
<1> QED BY <1>1, <1>2, <1>3, PTL DEF Spec
------------------------------------------------------------------------------
(* What is on its way to a viewer *)

In(q, m) == \E i \in 1 .. Len(q) : q[i] = m
Before(q, m, n) == \E j \in 1 .. Len(q) : \E i \in 1 .. j - 1 : q[i] = m /\ q[j] = n

LEMMA TailIn ==
  ASSUME NEW q \in Seq(Message), q # <<>>
  PROVE  /\ Tail(q) \in Seq(Message) /\ Head(q) \in Message /\ In(q, Head(q))
         /\ \A m : In(Tail(q), m) => In(q, m) /\ Before(q, Head(q), m)
         /\ \A m, n : Before(Tail(q), m, n) => Before(q, m, n)
<1>1. /\ Len(Tail(q)) = Len(q) - 1 /\ Len(q) \in Nat \ {0} /\ Head(q) = q[1]
      /\ Tail(q) \in Seq(Message) /\ Head(q) \in Message
  OBVIOUS
<1>2. \A i \in 1 .. Len(Tail(q)) : i + 1 \in 1 .. Len(q) /\ Tail(q)[i] = q[i + 1]
  BY <1>1
<1>3. ASSUME NEW m, In(Tail(q), m) PROVE In(q, m) /\ Before(q, Head(q), m)
  <2>1. PICK i \in 1 .. Len(Tail(q)) : Tail(q)[i] = m
    BY <1>3 DEF In
  <2>2. i + 1 \in 1 .. Len(q) /\ q[i + 1] = m /\ 1 \in 1 .. (i + 1) - 1
    BY <1>2, <2>1
  <2> QED BY <1>1, <2>2 DEF In, Before
<1>4. ASSUME NEW m, NEW n, Before(Tail(q), m, n) PROVE Before(q, m, n)
  <2>1. PICK j \in 1 .. Len(Tail(q)) : \E i \in 1 .. j - 1 : Tail(q)[i] = m /\ Tail(q)[j] = n
    BY <1>4 DEF Before
  <2>2. PICK i \in 1 .. j - 1 : Tail(q)[i] = m /\ Tail(q)[j] = n
    BY <2>1
  <2>3. i \in 1 .. Len(Tail(q)) /\ i + 1 \in 1 .. (j + 1) - 1 /\ j + 1 \in 1 .. Len(q)
    BY <1>1, <2>1, <2>2
  <2>4. q[i + 1] = m /\ q[j + 1] = n
    BY <1>2, <2>2, <2>3
  <2> QED BY <2>3, <2>4 DEF Before
<1>5. In(q, Head(q))
  BY <1>1 DEF In
<1> QED BY <1>1, <1>3, <1>4, <1>5

LEMMA AppendIn ==
  ASSUME NEW q \in Seq(Message), NEW x \in Message
  PROVE  /\ \A m : In(Append(q, x), m) => In(q, m) \/ m = x
         /\ \A m, n : Before(Append(q, x), m, n) => Before(q, m, n) \/ (In(q, m) /\ n = x)
<1> DEFINE p == Append(q, x)
<1>1. Len(p) = Len(q) + 1 /\ Len(q) \in Nat /\ p[Len(q) + 1] = x
      /\ \A i \in 1 .. Len(q) : p[i] = q[i]
  OBVIOUS
<1> HIDE DEF p
<1>2. ASSUME NEW m, In(p, m) PROVE In(q, m) \/ m = x
  <2>1. PICK i \in 1 .. Len(p) : p[i] = m
    BY <1>2 DEF In
  <2>2. i \in 1 .. Len(q) \/ i = Len(q) + 1
    BY <1>1
  <2> QED BY <1>1, <2>1, <2>2 DEF In
<1>3. ASSUME NEW m, NEW n, Before(p, m, n) PROVE Before(q, m, n) \/ (In(q, m) /\ n = x)
  <2>1. PICK j \in 1 .. Len(p) : \E i \in 1 .. j - 1 : p[i] = m /\ p[j] = n
    BY <1>3 DEF Before
  <2>2. PICK i \in 1 .. j - 1 : p[i] = m /\ p[j] = n
    BY <2>1
  <2>3. i \in 1 .. Len(q) /\ q[i] = m
    BY <1>1, <2>1, <2>2
  <2>4. CASE j = Len(q) + 1
    BY <1>1, <2>2, <2>3, <2>4 DEF In
  <2>5. CASE j \in 1 .. Len(q)
    BY <1>1, <2>2, <2>3, <2>5 DEF Before
  <2>6. j = Len(q) + 1 \/ j \in 1 .. Len(q)
    BY <1>1
  <2> QED BY <2>4, <2>5, <2>6
<1> QED BY <1>2, <1>3 DEF p

LEMMA NoneIn == \A m, n : ~In(<<>>, m) /\ ~Before(<<>>, m, n)
BY DEF In, Before

\* A message on its way to a viewer is in its queue, in the hand of a handler that is
\* yet to write it to the viewer, or, for one at the relay, in the connection.
InDown(v, m) == In(down[v], m)
Holds(h, v, m) == h # None /\ v \in h.to /\ h.msg = m
InPipe(v, m) == Via[v] = relay /\ In(pipe, m)
Coming(v, m) == InDown(v, m) \/ (\E c \in Conn : Holds(carrying[c], v, m)) \/ InPipe(v, m)

\* The first of two may reach it first. Of two handlers either may.
Ahead(v, m, n) ==
  \/ Before(down[v], m, n)
  \/ InDown(v, m) /\ (InPipe(v, n) \/ \E c \in Conn : Holds(carrying[c], v, n))
  \/ \E c \in Conn : Holds(carrying[c], v, m) /\ (InPipe(v, n) \/ \E d \in Conn \ {c} : Holds(carrying[d], v, n))
  \/ Via[v] = relay /\ Before(pipe, m, n)

\* What the connection holds was written to it, and what a handler has in hand, to its own.
Routed ==
  /\ \A m : In(pipe, m) => m.on = conn
  /\ \A c \in Conn : carrying[c] # None =>
       c <= conn /\ carrying[c].msg.on = c /\ \A v \in carrying[c].to : Via[v] = relay

\* The message a step writes.
Written(m) ==
  \/ \E w \in Writer : FinishWrite(w) /\ m = Frame(writing[w])
  \/ \E r \in Reader : WriteAnswer(r) /\ m = Answer(hand[r])

\* What a handler has in hand once a step has taken from it.
LEMMA CarriedOn ==
  ASSUME NEW m \in Message, NEW S \in SUBSET Viewer, Carried(m, S) # None
  PROVE  Carried(m, S).msg = m /\ Carried(m, S).to = S
BY DEF Carried

LEMMA RoutedStep ==
  ASSUME SealConstants, Typed, Routed, [Next]_vars
  PROVE  Routed'
<1>0. /\ conn \in Conn /\ conn \in Nat /\ pipe \in Seq(Message)
      /\ carrying \in [Conn -> [msg : Message, to : SUBSET Viewer] \cup {None}]
  BY DEF Typed, RelayedOK, Conn, SealConstants
<1> DEFINE Piped == \A m : In(pipe', m) => m.on = conn'
           Held(c) == carrying'[c] # None =>
             c <= conn' /\ carrying'[c].msg.on = c /\ \A v \in carrying'[c].to : Via[v] = relay
<1>1. ASSUME Piped, \A c \in Conn : Held(c) PROVE Routed'
  BY <1>1 DEF Routed
<1>2. ASSUME NEW c \in Conn, carrying'[c] = carrying[c], conn' = conn PROVE Held(c)
  BY <1>2 DEF Routed
<1>3. ASSUME UNCHANGED <<conn, pipe>> PROVE Piped
  BY <1>3 DEF Routed
\* A handler's message goes to fewer.
<1>4. ASSUME NEW c \in Conn, conn' = conn, carrying[c] # None, NEW v \in Viewer,
             carrying'[c] = Carried(carrying[c].msg, carrying[c].to \ {v})
      PROVE Held(c)
  <2>1. carrying[c].msg \in Message /\ carrying[c].to \ {v} \in SUBSET Viewer
    BY <1>0, <1>4
  <2>2. carrying'[c] # None =>
          carrying'[c].msg = carrying[c].msg /\ carrying'[c].to = carrying[c].to \ {v}
    BY <1>4, <2>1, CarriedOn
  <2> QED BY <1>4, <2>2 DEF Routed
<1>5. CASE Forward
  <2>1. /\ pipe # <<>> /\ pipe' = Tail(pipe) /\ conn' = conn
        /\ carrying' = [carrying EXCEPT ![conn] = Carried(Head(pipe), On(relay))]
    BY <1>5 DEF Forward
  <2>2. Piped
    BY <1>0, <2>1, TailIn DEF Routed
  <2>3. Head(pipe) \in Message /\ Head(pipe).on = conn
    BY <1>0, <2>1, TailIn DEF Routed
  <2>4. On(relay) \in SUBSET Viewer /\ \A v \in On(relay) : Via[v] = relay
    BY DEF On
  <2>5. carrying'[conn] # None => carrying'[conn].msg = Head(pipe) /\ carrying'[conn].to = On(relay)
    BY <1>0, <2>1, <2>3, <2>4, CarriedOn
  <2>6. Held(conn)
    BY <1>0, <2>1, <2>3, <2>4, <2>5
  <2>7. \A c \in Conn : c # conn => carrying'[c] = carrying[c]
    BY <1>0, <2>1
  <2> HIDE DEF Piped, Held
  <2> QED BY <1>1, <1>2, <2>1, <2>2, <2>6, <2>7
<1>6. ASSUME NEW c \in Conn, NEW v \in Viewer, Deliver(c, v) PROVE Routed'
  <2>1. carrying' = [carrying EXCEPT ![c] = Carried(carrying[c].msg, carrying[c].to \ {v})]
        /\ carrying[c] # None /\ UNCHANGED <<conn, pipe>>
    BY <1>6 DEF Deliver
  <2>2. carrying'[c] = Carried(carrying[c].msg, carrying[c].to \ {v})
        /\ \A d \in Conn : d # c => carrying'[d] = carrying[d]
    BY <1>0, <2>1
  <2> HIDE DEF Piped, Held
  <2> QED BY <1>1, <1>2, <1>3, <1>4, <2>1, <2>2
<1>7. CASE Reconnect
  <2>1. conn' = conn + 1 /\ pipe' = <<>> /\ carrying' = carrying
    BY <1>7 DEF Reconnect
  <2>2. Piped
    BY <2>1, NoneIn
  <2>3. \A c \in Conn : Held(c)
    BY <1>0, <2>1 DEF Routed, Conn
  <2> HIDE DEF Piped, Held
  <2> QED BY <1>1, <2>2, <2>3
<1>8. ASSUME NEW v \in Viewer, Leave(v) PROVE Routed'
  <2>1. /\ UNCHANGED <<conn, pipe>>
        /\ carrying' = [c \in Conn |->
             IF carrying[c] = None THEN None ELSE Carried(carrying[c].msg, carrying[c].to \ {v})]
    BY <1>8 DEF Leave
  <2>2. ASSUME NEW c \in Conn PROVE Held(c)
    <3>1. CASE carrying[c] = None
      BY <2>1, <3>1
    <3>2. CASE carrying[c] # None
      <4>1. carrying'[c] = Carried(carrying[c].msg, carrying[c].to \ {v})
        BY <2>1, <3>2
      <4> HIDE DEF Held
      <4> QED BY <1>4, <2>1, <3>2, <4>1
    <3> QED BY <3>1, <3>2
  <2> HIDE DEF Piped, Held
  <2> QED BY <1>1, <1>3, <2>1, <2>2
<1>9. ASSUME NEW l, NEW c, NEW m \in Message, m.on = c, WriteTo(l, c, m), UNCHANGED <<conn, carrying>>
      PROVE Routed'
  <2>1. pipe' = pipe \/ (c = conn /\ pipe' = Append(pipe, m))
    BY <1>9 DEF WriteTo
  <2>2. \A x : In(Append(pipe, m), x) => In(pipe, x) \/ x = m
    BY <1>0, AppendIn
  <2>3. ASSUME pipe' = pipe PROVE Piped
    BY <1>9, <2>3 DEF Routed
  <2>4. ASSUME c = conn, pipe' = Append(pipe, m) PROVE Piped
    BY <1>9, <2>2, <2>4 DEF Routed
  <2>5. Piped
    BY <2>1, <2>3, <2>4
  <2> HIDE DEF Piped, Held
  <2> QED BY <1>1, <1>2, <1>9, <2>5
<1>10. ASSUME NEW r \in Reader, WriteAnswer(r) PROVE Routed'
  <2>1. WriteTo(ReaderOn[r], hand[r].on, Answer(hand[r])) /\ UNCHANGED <<conn, carrying>>
        /\ hand[r] \in Answering
    BY <1>10 DEF WriteAnswer, Typed, ReadersOK
  <2>2. Answer(hand[r]) \in Message /\ Answer(hand[r]).on = hand[r].on
    BY <2>1 DEF Answer, Answering, Message
  <2> QED BY <1>9, <2>1, <2>2
<1>11. ASSUME NEW w \in Writer, FinishWrite(w) PROVE Routed'
  <2>1. WriteTo(writing[w].link, writing[w].on, Frame(writing[w])) /\ UNCHANGED <<conn, carrying>>
        /\ writing[w] \in [link : Link, on : Nat, ctr : Nat]
    BY <1>11 DEF FinishWrite, Typed, OutputOK
  <2>2. Frame(writing[w]) \in Message /\ Frame(writing[w]).on = writing[w].on
    BY <2>1 DEF Frame, Message
  <2> QED BY <1>9, <2>1, <2>2
<1>12. ASSUME UNCHANGED relayed PROVE Routed'
  <2>1. UNCHANGED <<conn, pipe, carrying>>
    BY <1>12 DEF relayed
  <2> HIDE DEF Piped, Held
  <2> QED BY <1>1, <1>2, <1>3, <2>1
<1>13. ASSUME NEW r \in Reader, Issue(r) \/ ReadCounter(r) \/ Check(r) \/ Admit(r)
       PROVE UNCHANGED relayed
  BY <1>13 DEF Issue, ReadCounter, Check, Admit
<1>14. ASSUME NEW w \in Writer, BeginWrite(w) PROVE UNCHANGED relayed
  BY <1>14 DEF BeginWrite
<1>15. ASSUME NEW v \in Viewer, Hello(v) \/ Key(v) \/ Send(v) \/ Receive(v) PROVE UNCHANGED relayed
  BY <1>15 DEF Hello, Key, Send, Receive
<1>16. ASSUME UNCHANGED vars PROVE UNCHANGED relayed
  BY <1>16 DEF vars
<1> QED
  BY <1>5, <1>6, <1>7, <1>8, <1>10, <1>11, <1>12, <1>13, <1>14, <1>15, <1>16
  DEF Next, RelayNext, ReaderNext, WriterNext, ViewerNext

\* Every step but a write only moves what is on its way along, or loses it: the order
\* in which it may come stays, and what is written comes after all that was.
LEMMA WayStep ==
  ASSUME SealConstants, Typed, Routed, [Next]_vars,
         NEW v \in Viewer, NEW m \in Message, NEW n \in Message
  PROVE  /\ Coming(v, m)' => Coming(v, m) \/ Written(m)
         /\ Ahead(v, m, n)' /\ m.on <= n.on => Ahead(v, m, n) \/ (Coming(v, m) /\ Written(n))
<1>0. /\ conn \in Conn /\ pipe \in Seq(Message) /\ Conn \subseteq Nat
      /\ carrying \in [Conn -> [msg : Message, to : SUBSET Viewer] \cup {None}]
      /\ down \in [Viewer -> Seq(Message)]
  BY DEF Typed, RelayedOK, ViewersOK, Conn, SealConstants
<1> DEFINE Moved ==
      /\ Coming(v, m)' => Coming(v, m) \/ Written(m)
      /\ Ahead(v, m, n)' /\ m.on <= n.on => Ahead(v, m, n) \/ (Coming(v, m) /\ Written(n))
<1> SUFFICES Moved
  OBVIOUS
\* What a handler is yet to write to the viewer is there still.
<1>1. ASSUME NEW c \in Conn, NEW x \in Viewer, NEW y, carrying[c] # None,
             carrying'[c] = Carried(carrying[c].msg, carrying[c].to \ {x}), Holds(carrying'[c], v, y)
      PROVE Holds(carrying[c], v, y) /\ v # x
  <2>1. carrying[c].msg \in Message /\ carrying[c].to \ {x} \in SUBSET Viewer
    BY <1>0, <1>1
  <2> DEFINE k == Carried(carrying[c].msg, carrying[c].to \ {x})
  <2>2. k # None => k.msg = carrying[c].msg /\ k.to = carrying[c].to \ {x}
    BY <2>1, CarriedOn
  <2>3. carrying'[c] = k
    BY <1>1
  <2> HIDE DEF k
  <2> QED BY <1>1, <2>2, <2>3 DEF Holds
\* Nothing comes nearer.
<1>2. ASSUME \A y, z : Before(down'[v], y, z) => Before(down[v], y, z),
             \A y : In(down'[v], y) => In(down[v], y),
             \A y, z : Before(pipe', y, z) => Before(pipe, y, z),
             \A y : In(pipe', y) => In(pipe, y),
             \A c \in Conn : \A y : Holds(carrying'[c], v, y) => Holds(carrying[c], v, y)
      PROVE Moved
  <2>1. Coming(v, m)' => Coming(v, m)
    BY <1>2 DEF Coming, InDown, InPipe
  <2>2. Ahead(v, m, n)' => Ahead(v, m, n)
    BY <1>2 DEF Ahead, InDown, InPipe
  <2> QED BY <2>1, <2>2
<1>3. ASSUME UNCHANGED carrying PROVE \A c \in Conn : \A y : Holds(carrying'[c], v, y) => Holds(carrying[c], v, y)
  BY <1>3 DEF Holds
<1>4. CASE Forward
  <2> DEFINE h == Head(pipe)
  <2>1. /\ pipe # <<>> /\ pipe' = Tail(pipe) /\ carrying[conn] = None
        /\ carrying' = [carrying EXCEPT ![conn] = Carried(h, On(relay))]
        /\ down' = down
    BY <1>4 DEF Forward, viewers
  <2>2. /\ h \in Message /\ h.on = conn /\ In(pipe, h)
        /\ \A y : In(pipe', y) => In(pipe, y) /\ Before(pipe, h, y)
        /\ \A y, z : Before(pipe', y, z) => Before(pipe, y, z)
    BY <1>0, <2>1, TailIn DEF Routed
  <2>3. \A y : Holds(carrying'[conn], v, y) => y = h /\ Via[v] = relay
    <3>1. On(relay) \in SUBSET Viewer /\ \A u \in On(relay) : Via[u] = relay
      BY DEF On
    <3>2. carrying'[conn] = Carried(h, On(relay))
      BY <1>0, <2>1
    <3> HIDE DEF h
    <3> DEFINE k == Carried(h, On(relay))
    <3>3. k # None => k.msg = h /\ k.to = On(relay)
      BY <2>2, <3>1, CarriedOn
    <3> HIDE DEF k
    <3>4. carrying'[conn] = k
      BY <3>2 DEF k
    <3> QED BY <3>1, <3>3, <3>4 DEF Holds
  <2>4. \A c \in Conn \ {conn} : \A y : Holds(carrying'[c], v, y) => Holds(carrying[c], v, y)
    BY <1>0, <2>1 DEF Holds
  <2>5. \A c \in Conn : \A y : Holds(carrying'[c], v, y) => Holds(carrying[c], v, y) \/ (c = conn /\ y = h /\ Via[v] = relay)
    BY <2>3, <2>4
  <2>6. \A y : InDown(v, y)' => InDown(v, y)
    BY <2>1 DEF InDown
  <2>7. \A y : InPipe(v, y)' => InPipe(v, y)
    BY <2>2 DEF InPipe
  <2>8. Via[v] = relay => InPipe(v, h)
    BY <2>2 DEF InPipe
  <2>9. Coming(v, m)' => Coming(v, m)
    <3> HIDE DEF h
    <3> QED BY <2>5, <2>6, <2>7, <2>8 DEF Coming
  <2>10. ASSUME Before(down[v], m, n)', m.on <= n.on PROVE Ahead(v, m, n)
    BY <2>1, <2>10 DEF Ahead
  <2>11. ASSUME InDown(v, m)', InPipe(v, n)' PROVE Ahead(v, m, n)
    BY <2>6, <2>7, <2>11 DEF Ahead
  <2>12. ASSUME InDown(v, m)', NEW c \in Conn, Holds(carrying'[c], v, n) PROVE Ahead(v, m, n)
    <3> HIDE DEF h
    <3> QED BY <2>5, <2>6, <2>8, <2>12 DEF Ahead
  <2>13. ASSUME NEW c \in Conn, Holds(carrying'[c], v, m), InPipe(v, n)' PROVE Ahead(v, m, n)
    <3>1. CASE Holds(carrying[c], v, m)
      BY <2>7, <2>13, <3>1 DEF Ahead
    <3>2. CASE m = h /\ Via[v] = relay
      BY <2>2, <2>13, <3>2 DEF Ahead, InPipe
    <3> QED BY <2>5, <2>13, <3>1, <3>2
  <2>14. ASSUME NEW c \in Conn, NEW d \in Conn \ {c}, Holds(carrying'[c], v, m), Holds(carrying'[d], v, n), m.on <= n.on
         PROVE Ahead(v, m, n)
    <3>1. CASE c = conn
      <4>1. m = h /\ Holds(carrying[d], v, n)
        BY <2>3, <2>4, <2>14, <3>1
      <4>2. n.on = d /\ d <= conn /\ m.on = conn
        BY <2>2, <4>1 DEF Routed, Holds
      <4>3. d \in Nat /\ conn \in Nat /\ d # conn
        BY <1>0, <3>1
      <4> QED BY <2>14, <4>2, <4>3
    <3>2. CASE d = conn
      <4>1. n = h /\ Via[v] = relay /\ Holds(carrying[c], v, m)
        BY <2>3, <2>4, <2>14, <3>2
      <4> QED BY <2>8, <4>1 DEF Ahead
    <3>3. CASE c # conn /\ d # conn
      BY <2>4, <2>14, <3>3 DEF Ahead
    <3> QED BY <3>1, <3>2, <3>3
  <2>15. ASSUME Via[v] = relay, Before(pipe, m, n)' PROVE Ahead(v, m, n)
    BY <2>2, <2>15 DEF Ahead
  <2>16. Ahead(v, m, n)' /\ m.on <= n.on => Ahead(v, m, n)
    <3>1. Ahead(v, m, n)' =>
            \/ Before(down[v], m, n)'
            \/ InDown(v, m)' /\ (InPipe(v, n)' \/ \E c \in Conn : Holds(carrying'[c], v, n))
            \/ \E c \in Conn : Holds(carrying'[c], v, m) /\ (InPipe(v, n)' \/ \E d \in Conn \ {c} : Holds(carrying'[d], v, n))
            \/ Via[v] = relay /\ Before(pipe, m, n)'
      BY DEF Ahead
    <3> QED BY <2>10, <2>11, <2>12, <2>13, <2>14, <2>15, <3>1
  <2> QED BY <2>9, <2>16
<1>5. ASSUME NEW c \in Conn, NEW x \in Viewer, Deliver(c, x) PROVE Moved
  <2> DEFINE h == carrying[c].msg
  <2>1. /\ carrying[c] # None /\ x \in carrying[c].to /\ pipe' = pipe
        /\ carrying' = [carrying EXCEPT ![c] = Carried(carrying[c].msg, carrying[c].to \ {x})]
        /\ down' = [down EXCEPT ![x] = Append(@, h)]
    BY <1>5 DEF Deliver
  <2>2. h \in Message /\ carrying'[c] = Carried(carrying[c].msg, carrying[c].to \ {x})
    BY <1>0, <2>1
  <2>3. \A d \in Conn \ {c} : \A y : Holds(carrying'[d], v, y) => Holds(carrying[d], v, y)
    BY <1>0, <2>1 DEF Holds
  <2>4. \A y : Holds(carrying'[c], v, y) => Holds(carrying[c], v, y) /\ v # x
    BY <1>1, <2>1, <2>2
  <2>5. CASE v # x
    <3>1. down'[v] = down[v]
      BY <1>0, <2>1, <2>5
    <3> HIDE DEF Moved, h
    <3> QED BY <1>2, <2>1, <2>3, <2>4, <3>1
  <2>6. CASE v = x
    <3>1. down'[v] = Append(down[v], h) /\ Holds(carrying[c], v, h) /\ v = x
      BY <1>0, <2>1, <2>6 DEF Holds
    <3> HIDE DEF h
    <3>2. /\ \A y : In(down'[v], y) => In(down[v], y) \/ y = h
          /\ \A y, z : Before(down'[v], y, z) => Before(down[v], y, z) \/ (In(down[v], y) /\ z = h)
      BY <1>0, <2>2, <3>1, AppendIn
    <3>3. \A d \in Conn : \A y : Holds(carrying'[d], v, y) => Holds(carrying[d], v, y) /\ d # c
      BY <2>3, <2>4, <3>1
    <3>4. \A y : InDown(v, y)' => InDown(v, y) \/ y = h
      BY <3>2 DEF InDown
    <3>5. \A y : InPipe(v, y)' => InPipe(v, y)
      BY <2>1 DEF InPipe
    <3>6. Coming(v, m)' => Coming(v, m)
      BY <3>1, <3>3, <3>4, <3>5 DEF Coming
    <3>7. ASSUME Before(down[v], m, n)' PROVE Ahead(v, m, n)
      BY <3>1, <3>2, <3>7 DEF Ahead, InDown
    <3>8. ASSUME InDown(v, m)', InPipe(v, n)' PROVE Ahead(v, m, n)
      BY <3>1, <3>4, <3>5, <3>8 DEF Ahead
    <3>9. ASSUME InDown(v, m)', NEW d \in Conn, Holds(carrying'[d], v, n) PROVE Ahead(v, m, n)
      <4>1. Holds(carrying[d], v, n) /\ d \in Conn \ {c}
        BY <3>3, <3>9
      <4> QED BY <3>1, <3>4, <3>9, <4>1 DEF Ahead
    <3>10. ASSUME NEW d \in Conn, Holds(carrying'[d], v, m), InPipe(v, n)' PROVE Ahead(v, m, n)
      BY <3>3, <3>5, <3>10 DEF Ahead
    <3>11. ASSUME NEW d \in Conn, NEW e \in Conn \ {d}, Holds(carrying'[d], v, m), Holds(carrying'[e], v, n)
           PROVE Ahead(v, m, n)
      BY <3>3, <3>11 DEF Ahead
    <3>12. ASSUME Via[v] = relay, Before(pipe, m, n)' PROVE Ahead(v, m, n)
      BY <2>1, <3>12 DEF Ahead
    <3>13. Ahead(v, m, n)' => Ahead(v, m, n)
      <4>1. Ahead(v, m, n)' =>
              \/ Before(down[v], m, n)'
              \/ InDown(v, m)' /\ (InPipe(v, n)' \/ \E d \in Conn : Holds(carrying'[d], v, n))
              \/ \E d \in Conn : Holds(carrying'[d], v, m) /\ (InPipe(v, n)' \/ \E e \in Conn \ {d} : Holds(carrying'[e], v, n))
              \/ Via[v] = relay /\ Before(pipe, m, n)'
        BY DEF Ahead
      <4> QED BY <3>7, <3>8, <3>9, <3>10, <3>11, <3>12, <4>1
    <3> QED BY <3>6, <3>13
  <2> HIDE DEF Moved
  <2> QED BY <2>5, <2>6
<1>6. CASE Reconnect
  <2>1. pipe' = <<>> /\ down' = down /\ carrying' = carrying
    BY <1>6 DEF Reconnect, viewers
  <2> HIDE DEF Moved
  <2> QED BY <1>2, <1>3, <2>1, NoneIn
<1>7. ASSUME NEW x \in Viewer, Leave(x) PROVE Moved
  <2>1. /\ pipe' = pipe /\ down' = [down EXCEPT ![x] = <<>>]
        /\ carrying' = [c \in Conn |->
             IF carrying[c] = None THEN None ELSE Carried(carrying[c].msg, carrying[c].to \ {x})]
    BY <1>7 DEF Leave
  <2>2. ASSUME NEW c \in Conn, NEW y, Holds(carrying'[c], v, y) PROVE Holds(carrying[c], v, y)
    <3>1. carrying[c] # None /\ carrying'[c] = Carried(carrying[c].msg, carrying[c].to \ {x})
      BY <2>1, <2>2 DEF Holds
    <3> QED BY <1>1, <2>2, <3>1
  <2>3. down'[v] = down[v] \/ down'[v] = <<>>
    BY <1>0, <2>1
  <2> HIDE DEF Moved
  <2>4. CASE down'[v] = down[v]
    BY <1>2, <2>1, <2>2, <2>4
  <2>5. CASE down'[v] = <<>>
    <3>1. \A y, z : ~In(down'[v], y) /\ ~Before(down'[v], y, z)
      BY <2>5 DEF In, Before
    <3> QED BY <1>2, <2>1, <2>2, <3>1
  <2> QED BY <2>3, <2>4, <2>5
<1>8. ASSUME NEW x \in Viewer, Key(x) \/ Receive(x) PROVE Moved
  <2>1. down[x] # <<>> /\ down' = [down EXCEPT ![x] = Tail(@)] /\ UNCHANGED <<pipe, carrying>>
    BY <1>8 DEF Key, Receive, relayed
  <2> HIDE DEF Moved
  <2>2. CASE v = x
    <3>1. down'[v] = Tail(down[v]) /\ down[v] # <<>> /\ down[v] \in Seq(Message)
      BY <1>0, <2>1, <2>2
    <3> QED BY <1>2, <1>3, <2>1, <3>1, TailIn
  <2>3. CASE v # x
    <3>1. down'[v] = down[v]
      BY <1>0, <2>1, <2>3
    <3> QED BY <1>2, <1>3, <2>1, <3>1
  <2> QED BY <2>2, <2>3
\* What is written goes behind the rest.
<1>9. ASSUME NEW l, NEW c, NEW x \in Message, Written(x), WriteTo(l, c, x), UNCHANGED carrying
      PROVE Moved
  <2>1. \A d \in Conn : \A y : Holds(carrying'[d], v, y) => Holds(carrying[d], v, y)
    BY <1>3, <1>9
  <2>2. CASE l = relay
    <3>1. down' = down /\ (pipe' = pipe \/ pipe' = Append(pipe, x))
      BY <1>9, <2>2 DEF WriteTo
    <3>2. CASE pipe' = pipe
      <4> HIDE DEF Moved
      <4> QED BY <1>2, <2>1, <3>1, <3>2
    <3>3. CASE pipe' = Append(pipe, x)
      <4>1. /\ \A y : In(pipe', y) => In(pipe, y) \/ y = x
            /\ \A y, z : Before(pipe', y, z) => Before(pipe, y, z) \/ (In(pipe, y) /\ z = x)
        BY <1>0, <3>3, AppendIn
      <4>2. Coming(v, m)' => Coming(v, m) \/ Written(m)
        BY <1>9, <2>1, <3>1, <4>1 DEF Coming, InDown, InPipe
      <4>3. Ahead(v, m, n)' => Ahead(v, m, n) \/ (Coming(v, m) /\ n = x)
        BY <2>1, <3>1, <4>1 DEF Ahead, Coming, InDown, InPipe
      <4> QED BY <1>9, <4>2, <4>3
    <3> HIDE DEF Moved
    <3> QED BY <3>1, <3>2, <3>3
  <2>3. CASE l # relay
    <3>1. /\ down' = [u \in Viewer |-> IF u \in On(l) THEN Append(down[u], x) ELSE down[u]]
          /\ pipe' = pipe
      BY <1>9, <2>3 DEF WriteTo
    <3>2. CASE v \notin On(l)
      <4>1. down'[v] = down[v]
        BY <3>1, <3>2
      <4> HIDE DEF Moved
      <4> QED BY <1>2, <2>1, <3>1, <4>1
    <3>3. CASE v \in On(l)
      <4>1. Via[v] # relay
        BY <2>3, <3>3 DEF On
      <4>2. \A d \in Conn : \A y : ~Holds(carrying[d], v, y)
        BY <4>1 DEF Routed, Holds
      <4>3. down'[v] = Append(down[v], x)
        BY <3>1, <3>3
      <4>4. /\ \A y : In(down'[v], y) => In(down[v], y) \/ y = x
            /\ \A y, z : Before(down'[v], y, z) => Before(down[v], y, z) \/ (In(down[v], y) /\ z = x)
        BY <1>0, <4>3, AppendIn
      <4>5. Coming(v, m)' => Coming(v, m) \/ Written(m)
        BY <1>9, <2>1, <4>1, <4>4 DEF Coming, InDown, InPipe
      <4>6. Ahead(v, m, n)' => Ahead(v, m, n) \/ (Coming(v, m) /\ n = x)
        BY <2>1, <4>1, <4>2, <4>4 DEF Ahead, Coming, InDown, InPipe
      <4> QED BY <1>9, <4>5, <4>6
    <3> HIDE DEF Moved
    <3> QED BY <3>2, <3>3
  <2> HIDE DEF Moved
  <2> QED BY <2>2, <2>3
<1>10. ASSUME NEW r \in Reader, WriteAnswer(r) PROVE Moved
  <2>1. WriteTo(ReaderOn[r], hand[r].on, Answer(hand[r])) /\ UNCHANGED carrying
        /\ hand[r] \in Answering
    BY <1>10 DEF WriteAnswer, Typed, ReadersOK
  <2>2. Answer(hand[r]) \in Message /\ Written(Answer(hand[r]))
    BY <1>10, <2>1 DEF Answer, Answering, Message, Written
  <2> HIDE DEF Moved
  <2> QED BY <1>9, <2>1, <2>2
<1>11. ASSUME NEW w \in Writer, FinishWrite(w) PROVE Moved
  <2>1. WriteTo(writing[w].link, writing[w].on, Frame(writing[w])) /\ UNCHANGED carrying
        /\ writing[w] \in [link : Link, on : Nat, ctr : Nat]
    BY <1>11 DEF FinishWrite, Typed, OutputOK
  <2>2. Frame(writing[w]) \in Message /\ Written(Frame(writing[w]))
    BY <1>11, <2>1 DEF Frame, Message, Written
  <2> HIDE DEF Moved
  <2> QED BY <1>9, <2>1, <2>2
<1>12. ASSUME UNCHANGED <<down, pipe, carrying>> PROVE Moved
  <2> HIDE DEF Moved
  <2> QED BY <1>2, <1>3, <1>12
<1>13. ASSUME NEW r \in Reader, Issue(r) \/ ReadCounter(r) \/ Check(r) \/ Admit(r)
       PROVE UNCHANGED <<down, pipe, carrying>>
  BY <1>13 DEF Issue, ReadCounter, Check, Admit, relayed, viewers
<1>14. ASSUME NEW w \in Writer, BeginWrite(w) PROVE UNCHANGED <<down, pipe, carrying>>
  BY <1>14 DEF BeginWrite, relayed, viewers
<1>15. ASSUME NEW x \in Viewer, Hello(x) \/ Send(x) PROVE UNCHANGED <<down, pipe, carrying>>
  BY <1>15 DEF Hello, Send, relayed
<1>16. ASSUME UNCHANGED vars PROVE UNCHANGED <<down, pipe, carrying>>
  BY <1>16 DEF vars, relayed, viewers
<1> HIDE DEF Moved
<1> QED
  BY <1>4, <1>5, <1>6, <1>7, <1>8, <1>10, <1>11, <1>12, <1>13, <1>14, <1>15, <1>16
  DEF Next, RelayNext, ReaderNext, WriterNext, ViewerNext

------------------------------------------------------------------------------
(* What a keyed viewer refuses *)

\* The last counter written: the one in hand under the lock is still to come.
Out == IF holder = None THEN outCtr ELSE outCtr - 1

\* Who holds the lock is the only one with a counter in hand, the last one given.
OneWriter ==
  \A w \in Writer : writing[w] # None => holder = w /\ writing[w].ctr = outCtr

\* A message's place among the counters: a frame's own, the one an answer names.
Mark(m) == IF m.kind = "answer" THEN m.at ELSE m.ctr

\* What is on its way was written; a frame a viewer is sent after a message, on the same
\* connection or a newer one, has a counter past the message's.
Numbered ==
  /\ \A r \in Reader : rpc[r] = "answering" => hand[r].at <= Out
  /\ \A v \in Viewer, m \in Message : Coming(v, m) => Mark(m) <= Out
InOrder ==
  \A v \in Viewer, m, n \in Message :
    Ahead(v, m, n) /\ m.on <= n.on /\ n.kind = "frame" => Mark(m) < n.ctr

\* A keyed viewer is past no frame on its way to it, but those of connections older than
\* one it has heard from.
Expected ==
  \A v \in Viewer : vpc[v] = "keyed" =>
    /\ inLast[v] <= Out
    /\ \A n \in Message : Coming(v, n) /\ n.kind = "frame" /\ heard[v] <= n.on => inLast[v] < n.ctr

ComesInv == Typed /\ Routed /\ OneWriter /\ Numbered /\ InOrder /\ Expected /\ RefusedOnlyOvertaken

LEMMA Marked ==
  ASSUME NEW m \in Message
  PROVE  /\ Mark(m) \in Nat /\ m.on \in Nat /\ m.kind \in {"answer", "frame"}
         /\ m.kind = "frame" => Mark(m) = m.ctr
         /\ m.kind = "answer" => Mark(m) = m.at
  BY DEF Mark, Message

LEMMA OneWriterStep ==
  ASSUME SealConstants, Typed, OneWriter, [Next]_vars
  PROVE  OneWriter'
<1>0. writing \in [Writer -> [link : Link, on : Nat, ctr : Nat] \cup {None}] /\ outCtr \in Nat
      /\ None \notin Writer
  BY DEF Typed, OutputOK, SealConstants
<1>1. ASSUME UNCHANGED output PROVE OneWriter'
  <2>1. UNCHANGED <<outCtr, holder, writing>>
    BY <1>1 DEF output
  <2> QED BY <2>1 DEF OneWriter
<1>2. ASSUME NEW w \in Writer, BeginWrite(w) PROVE OneWriter'
  <2>1. PICK l \in Link : \E c \in ConnsOf(l) :
          writing' = [writing EXCEPT ![w] = [link |-> l, on |-> c, ctr |-> outCtr + 1]]
    BY <1>2 DEF BeginWrite
  <2>2. PICK c \in ConnsOf(l) :
          writing' = [writing EXCEPT ![w] = [link |-> l, on |-> c, ctr |-> outCtr + 1]]
    BY <2>1
  <2>3. holder = None /\ holder' = w /\ outCtr' = outCtr + 1
    BY <1>2 DEF BeginWrite, Free
  <2>4. \A u \in Writer : writing[u] = None
    BY <1>0, <2>3 DEF OneWriter
  <2> QED BY <1>0, <2>2, <2>3, <2>4 DEF OneWriter
<1>3. ASSUME NEW w \in Writer, FinishWrite(w) PROVE OneWriter'
  <2>1. writing[w] # None /\ writing' = [writing EXCEPT ![w] = None]
    BY <1>3 DEF FinishWrite
  <2>2. \A u \in Writer : u # w => writing[u] = None
    BY <2>1 DEF OneWriter
  <2>3. \A u \in Writer : writing'[u] = None
    BY <1>0, <2>1, <2>2
  <2> QED BY <2>3 DEF OneWriter
<1>4. ASSUME NEW r \in Reader, ReaderNext(r) PROVE UNCHANGED output
  BY <1>4 DEF ReaderNext, Issue, ReadCounter, WriteAnswer, Check, Admit
<1>5. ASSUME NEW v \in Viewer, ViewerNext(v) PROVE UNCHANGED output
  BY <1>5 DEF ViewerNext, Hello, Key, Leave, Send, Receive
<1>6. ASSUME RelayNext \/ UNCHANGED vars PROVE UNCHANGED output
  BY <1>6 DEF RelayNext, Forward, Reconnect, Deliver, vars
<1> QED BY <1>1, <1>2, <1>3, <1>4, <1>5, <1>6 DEF Next, WriterNext

\* What has been written stays written, and a frame just finished is the next one.
LEMMA OutStep ==
  ASSUME SealConstants, Typed, OneWriter, [Next]_vars
  PROVE  /\ Out \in Int /\ Out' \in Int /\ Out <= Out'
         /\ \A w \in Writer : FinishWrite(w) => writing[w].ctr = Out + 1 /\ Out' = Out + 1
<1>0. outCtr \in Nat /\ None \notin Writer /\ holder \in Writer \cup {None}
  BY DEF Typed, OutputOK, SealConstants
<1>1. Out \in Int
  BY <1>0 DEF Out
<1>2. ASSUME UNCHANGED output PROVE Out' = Out
  BY <1>2 DEF Out, output
<1>3. ASSUME NEW w \in Writer, BeginWrite(w) PROVE Out' = Out
  BY <1>0, <1>3 DEF BeginWrite, Free, Out
<1>4. ASSUME NEW w \in Writer, FinishWrite(w)
      PROVE writing[w].ctr = Out + 1 /\ Out' = Out + 1
  <2>1. holder = w /\ writing[w].ctr = outCtr /\ holder' = None /\ outCtr' = outCtr
    BY <1>4 DEF FinishWrite, OneWriter
  <2> QED BY <1>0, <2>1 DEF Out
<1>5. ASSUME NEW r \in Reader, ReaderNext(r) PROVE UNCHANGED output
  BY <1>5 DEF ReaderNext, Issue, ReadCounter, WriteAnswer, Check, Admit
<1>6. ASSUME NEW v \in Viewer, ViewerNext(v) PROVE UNCHANGED output
  BY <1>6 DEF ViewerNext, Hello, Key, Leave, Send, Receive
<1>7. ASSUME RelayNext \/ UNCHANGED vars PROVE UNCHANGED output
  BY <1>7 DEF RelayNext, Forward, Reconnect, Deliver, vars
<1>8. (\E w \in Writer : FinishWrite(w)) \/ Out' = Out
  BY <1>2, <1>3, <1>5, <1>6, <1>7 DEF Next, WriterNext
<1> QED BY <1>1, <1>4, <1>8

\* A frame written has the counter after those written before it, an answer names one
\* of those.
LEMMA WrittenMark ==
  ASSUME SealConstants, ComesInv, [Next]_vars, NEW m \in Message, Written(m)
  PROVE  Mark(m) <= Out' /\ (m.kind = "frame" => Out < m.ctr)
<1>0. Typed /\ OneWriter /\ Numbered
  BY DEF ComesInv
<1>1. ASSUME NEW w \in Writer, FinishWrite(w), m = Frame(writing[w])
      PROVE Mark(m) <= Out' /\ (m.kind = "frame" => Out < m.ctr)
  <2>1. writing[w].ctr = Out + 1 /\ Out' = Out + 1 /\ Out \in Int
    BY <1>0, <1>1, OutStep
  <2>2. m.kind = "frame" /\ m.ctr = writing[w].ctr
    BY <1>1 DEF Frame
  <2> QED BY <2>1, <2>2, Marked
<1>2. ASSUME NEW r \in Reader, WriteAnswer(r), m = Answer(hand[r])
      PROVE Mark(m) <= Out' /\ (m.kind = "frame" => Out < m.ctr)
  <2>1. hand[r] \in Answering /\ hand[r].at <= Out
    BY <1>0, <1>2 DEF WriteAnswer, Typed, ReadersOK, Numbered
  <2>2. m.kind = "answer" /\ m.at = hand[r].at /\ hand[r].at \in Nat
    BY <1>2, <2>1 DEF Answer, Answering
  <2>3. Out \in Int /\ Out' \in Int /\ Out <= Out'
    BY <1>0, OutStep
  <2> QED BY <2>1, <2>2, <2>3, Marked
<1> QED BY <1>1, <1>2 DEF Written

LEMMA NumberedStep ==
  ASSUME SealConstants, ComesInv, [Next]_vars
  PROVE  Numbered'
<1>0. /\ Typed /\ Routed /\ Numbered /\ OneWriter /\ outCtr \in Nat
      /\ rpc \in [Reader -> {"idle", "issued", "answering", "opening"}]
      /\ \A r \in Reader : rpc[r] = "answering" => hand[r] \in Answering
      /\ hand = [r \in Reader |-> hand[r]]
  BY DEF ComesInv, Typed, ReadersOK, OutputOK
<1>1. Out \in Int /\ Out' \in Int /\ Out <= Out'
  BY <1>0, OutStep
<1>2. ASSUME NEW v \in Viewer, NEW m \in Message, Coming(v, m)' PROVE Mark(m) <= Out'
  <2>1. CASE Coming(v, m)
    <3>1. Mark(m) <= Out /\ Mark(m) \in Nat
      BY <1>0, <2>1, Marked DEF Numbered
    <3> QED BY <1>1, <3>1
  <2>2. CASE Written(m)
    BY <2>2, WrittenMark
  <2> QED BY <1>0, <1>2, <2>1, <2>2, WayStep
\* An answer in hand names a counter that stood when it was read.
<1>3. ASSUME NEW r \in Reader, rpc'[r] = rpc[r], hand'[r] = hand[r], rpc'[r] = "answering"
      PROVE hand'[r].at <= Out'
  <2>1. hand[r].at \in Nat /\ hand[r].at <= Out
    BY <1>0, <1>3 DEF Numbered, Answering
  <2> QED BY <1>1, <1>3, <2>1
<1>4. ASSUME NEW r \in Reader, rpc'[r] = "answering" PROVE hand'[r].at <= Out'
  <2>1. ASSUME NEW q \in Reader, ReaderNext(q), q # r PROVE hand'[r].at <= Out'
    <3>1. PICK x, h : rpc' = [rpc EXCEPT ![q] = x] /\ hand' = [hand EXCEPT ![q] = h]
      BY <2>1 DEF ReaderNext, Issue, ReadCounter, WriteAnswer, Check, Admit
    <3> QED BY <1>0, <1>3, <1>4, <2>1, <3>1
  <2>2. CASE ReadCounter(r)
    <3>1. hand'[r].at = outCtr /\ Out = outCtr
      BY <1>0, <2>2 DEF ReadCounter, Out
    <3> QED BY <1>0, <1>1, <3>1
  <2>3. CASE Issue(r) \/ WriteAnswer(r) \/ Check(r) \/ Admit(r)
    <3>1. rpc'[r] \in {"issued", "idle", "opening"}
      BY <1>0, <2>3 DEF Issue, WriteAnswer, Check, Admit
    <3> QED BY <1>4, <3>1
  <2>4. ASSUME UNCHANGED <<rpc, hand>> PROVE hand'[r].at <= Out'
    BY <1>3, <1>4, <2>4
  <2>5. ASSUME NEW w \in Writer, WriterNext(w) PROVE UNCHANGED <<rpc, hand>>
    BY <2>5 DEF WriterNext, BeginWrite, FinishWrite, readers
  <2>6. ASSUME NEW u \in Viewer, ViewerNext(u) PROVE UNCHANGED <<rpc, hand>>
    BY <2>6 DEF ViewerNext, Hello, Key, Leave, Send, Receive, readers
  <2>7. ASSUME RelayNext \/ UNCHANGED vars PROVE UNCHANGED <<rpc, hand>>
    BY <2>7 DEF RelayNext, Forward, Reconnect, Deliver, vars, readers
  <2> QED BY <2>1, <2>2, <2>3, <2>4, <2>5, <2>6, <2>7 DEF Next, ReaderNext
<1> QED BY <1>2, <1>4 DEF Numbered

LEMMA InOrderStep ==
  ASSUME SealConstants, ComesInv, [Next]_vars
  PROVE  InOrder'
<1>1. ASSUME NEW v \in Viewer, NEW m \in Message, NEW n \in Message,
             Ahead(v, m, n)', m.on <= n.on, n.kind = "frame"
      PROVE Mark(m) < n.ctr
  <2>1. CASE Ahead(v, m, n)
    BY <1>1, <2>1 DEF ComesInv, InOrder
  <2>2. CASE Coming(v, m) /\ Written(n)
    <3>1. Mark(m) <= Out /\ Out < n.ctr
      BY <1>1, <2>2, WrittenMark DEF ComesInv, Numbered
    <3>2. Mark(m) \in Nat /\ n.ctr \in Nat
      BY <1>1, Marked
    <3>3. Out \in Int
      BY OutStep DEF ComesInv
    <3> QED BY <3>1, <3>2, <3>3
  <2> QED BY <1>1, <2>1, <2>2, WayStep DEF ComesInv
<1> QED BY <1>1 DEF InOrder

\* What comes to a viewer after the head of its queue.
LEMMA AfterHead ==
  ASSUME SealConstants, ComesInv, [Next]_vars, NEW v \in Viewer, Key(v) \/ Receive(v), NEW n \in Message,
         Coming(v, n)', Head(down[v]).on <= n.on, n.kind = "frame"
  PROVE  Mark(Head(down[v])) < n.ctr
<1> DEFINE m == Head(down[v])
<1>0. down \in [Viewer -> Seq(Message)]
  BY DEF ComesInv, Typed, ViewersOK
<1>1. /\ down[v] # <<>> /\ down' = [down EXCEPT ![v] = Tail(@)]
      /\ UNCHANGED <<carrying, pipe>>
  BY DEF Key, Receive, relayed
<1>2. down'[v] = Tail(down[v])
  BY <1>0, <1>1
<1>3. m \in Message /\ In(down[v], m) /\ \A y : In(down'[v], y) => Before(down[v], m, y)
  BY <1>0, <1>1, <1>2, TailIn
<1> HIDE DEF m
<1>4. Ahead(v, m, n)
  <2>1. CASE InDown(v, n)'
    BY <1>3, <2>1 DEF InDown, Ahead
  <2>2. ASSUME NEW c \in Conn, Holds(carrying'[c], v, n) PROVE Ahead(v, m, n)
    BY <1>1, <1>3, <2>2 DEF InDown, Ahead
  <2>3. CASE InPipe(v, n)'
    BY <1>1, <1>3, <2>3 DEF InDown, InPipe, Ahead
  <2> QED BY <2>1, <2>2, <2>3 DEF Coming
<1>5. m.on <= n.on
  BY DEF m
<1>6. Mark(m) < n.ctr
  BY <1>3, <1>4, <1>5 DEF ComesInv, InOrder
<1> QED BY <1>6 DEF m

LEMMA ExpectedStep ==
  ASSUME SealConstants, ComesInv, [Next]_vars
  PROVE  Expected' /\ RefusedOnlyOvertaken'
<1>0. /\ down \in [Viewer -> Seq(Message)] /\ inLast \in [Viewer -> Nat]
      /\ vpc \in [Viewer -> {"away", "keying", "keyed"}] /\ heard \in [Viewer -> Nat]
      /\ refused \in BOOLEAN /\ ~refused /\ Expected
  BY DEF ComesInv, Typed, ViewersOK, HistoryOK, RefusedOnlyOvertaken
<1>1. Out \in Int /\ Out' \in Int /\ Out <= Out'
  BY OutStep DEF ComesInv
<1> DEFINE Kept(v) == vpc'[v] = "keyed" =>
             /\ inLast'[v] <= Out'
             /\ \A n \in Message :
                  Coming(v, n)' /\ n.kind = "frame" /\ heard'[v] <= n.on => inLast'[v] < n.ctr
\* What is written since has a counter past all that a viewer may have accepted.
<1>2. ASSUME NEW v \in Viewer, vpc[v] = "keyed", NEW n \in Message,
             Coming(v, n)', n.kind = "frame", heard[v] <= n.on
      PROVE inLast[v] < n.ctr
  <2>1. CASE Coming(v, n)
    BY <1>0, <1>2, <2>1 DEF Expected
  <2>2. CASE Written(n)
    <3>1. Out < n.ctr /\ inLast[v] <= Out /\ inLast[v] \in Nat /\ n.ctr \in Nat
      BY <1>0, <1>2, <2>2, WrittenMark, Marked DEF Expected
    <3> QED BY <1>1, <3>1
  <2> QED BY <1>2, <2>1, <2>2, WayStep DEF ComesInv
<1>3. ASSUME NEW v \in Viewer, vpc'[v] = vpc[v], inLast'[v] = inLast[v], heard'[v] = heard[v]
      PROVE Kept(v)
  <2>1. vpc[v] = "keyed" => inLast[v] <= Out' /\ inLast[v] \in Nat
    BY <1>0, <1>1 DEF Expected
  <2> QED BY <1>2, <1>3, <2>1
<1>4. ASSUME UNCHANGED <<vpc, inLast, heard, refused>> PROVE (\A v \in Viewer : Kept(v)) /\ ~refused'
  <2> HIDE DEF Kept
  <2> QED BY <1>0, <1>3, <1>4
<1>5. ASSUME NEW x \in Viewer, Key(x) PROVE (\A v \in Viewer : Kept(v)) /\ ~refused'
  <2> DEFINE m == Head(down[x])
  <2>1. refused' = refused
    BY <1>5 DEF Key
  <2>2. CASE ~Mine(x, m)
    <3>1. UNCHANGED <<vpc, inLast, heard, refused>>
      BY <1>5, <2>2 DEF Key
    <3> HIDE DEF Kept
    <3> QED BY <1>4, <3>1
  <2>3. CASE Mine(x, m)
    <3>1. /\ vpc' = [vpc EXCEPT ![x] = "keyed"] /\ inLast' = [inLast EXCEPT ![x] = m.at]
          /\ heard' = [heard EXCEPT ![x] = m.on] /\ down[x] # <<>>
      BY <1>5, <2>3 DEF Key
    <3>2. m \in Message /\ In(down[x], m) /\ m.kind = "answer"
      BY <1>0, <2>3, <3>1, TailIn DEF Mine
    <3>3. Mark(m) = m.at /\ Mark(m) \in Nat /\ m.on \in Nat /\ Mark(m) <= Out
      BY <3>2, Marked DEF ComesInv, Numbered, Coming, InDown
    <3>4. ASSUME NEW n \in Message, Coming(x, n)', n.kind = "frame", m.on <= n.on PROVE m.at < n.ctr
      <4>1. Mark(m) < n.ctr
        BY <1>5, <3>4, AfterHead
      <4> QED BY <3>3, <4>1
    <3>5. inLast'[x] = m.at /\ heard'[x] = m.on
      BY <1>0, <3>1
    <3>6. m.at <= Out'
      BY <1>1, <3>3
    <3>7. Kept(x)
      <4> HIDE DEF m
      <4> QED BY <3>4, <3>5, <3>6
    <3>8. \A v \in Viewer : v # x => vpc'[v] = vpc[v] /\ inLast'[v] = inLast[v] /\ heard'[v] = heard[v]
      BY <1>0, <3>1
    <3> HIDE DEF Kept
    <3> QED BY <1>0, <1>3, <2>1, <3>7, <3>8
  <2> HIDE DEF Kept
  <2> QED BY <2>2, <2>3
<1>6. ASSUME NEW x \in Viewer, Receive(x) PROVE (\A v \in Viewer : Kept(v)) /\ ~refused'
  <2> DEFINE m == Head(down[x])
  <2>1. vpc' = vpc /\ vpc[x] = "keyed" /\ down[x] # <<>>
    BY <1>6 DEF Receive
  <2>2. m \in Message /\ In(down[x], m) /\ Coming(x, m) /\ m.on \in Nat
    BY <1>0, <2>1, TailIn, Marked DEF Coming, InDown
  <2>3. CASE m.kind = "frame" /\ m.ctr > inLast[x]
    <3>1. /\ inLast' = [inLast EXCEPT ![x] = m.ctr]
          /\ heard' = [heard EXCEPT ![x] = IF m.on > @ THEN m.on ELSE @] /\ refused' = refused
      BY <1>6, <2>3 DEF Receive
    <3>2. Mark(m) = m.ctr /\ Mark(m) \in Nat /\ Mark(m) <= Out
      BY <2>2, <2>3, Marked DEF ComesInv, Numbered
    <3>3. inLast'[x] = m.ctr /\ heard'[x] = (IF m.on > heard[x] THEN m.on ELSE heard[x])
      BY <1>0, <3>1
    <3>4. m.on <= heard'[x] /\ heard'[x] \in Nat
      <4> HIDE DEF m
      <4> QED BY <1>0, <2>2, <3>3
    <3>5. ASSUME NEW n \in Message, Coming(x, n)', n.kind = "frame", heard'[x] <= n.on PROVE m.ctr < n.ctr
      <4>1. m.on <= n.on
        <5>1. n.on \in Nat
          BY Marked
        <5> HIDE DEF m
        <5> QED BY <2>2, <3>4, <3>5, <5>1
      <4>2. Mark(m) < n.ctr
        BY <1>6, <3>5, <4>1, AfterHead
      <4> QED BY <3>2, <4>2
    <3>6. m.ctr <= Out'
      BY <1>1, <3>2
    <3>7. Kept(x)
      <4> HIDE DEF m
      <4> QED BY <3>3, <3>5, <3>6
    <3>8. \A v \in Viewer : v # x => inLast'[v] = inLast[v] /\ heard'[v] = heard[v]
      BY <1>0, <3>1
    <3> HIDE DEF Kept
    <3> QED BY <1>0, <1>3, <2>1, <3>1, <3>7, <3>8
  <2>4. CASE ~(m.kind = "frame" /\ m.ctr > inLast[x])
    <3>1. inLast' = inLast /\ heard' = heard /\ refused' = (refused \/ (m.kind = "frame" /\ m.on >= heard[x]))
      BY <1>6, <2>4 DEF Receive
    <3>2. ~(m.kind = "frame" /\ m.on >= heard[x])
      <4>1. ASSUME m.kind = "frame", m.on >= heard[x] PROVE FALSE
        <5>1. heard[x] <= m.on
          BY <1>0, <2>2, <4>1
        <5>2. inLast[x] < m.ctr
          BY <1>0, <2>1, <2>2, <4>1, <5>1 DEF Expected
        <5>3. inLast[x] \in Nat /\ m.ctr \in Nat
          BY <1>0, <2>2, <4>1, Marked
        <5> QED BY <2>4, <4>1, <5>2, <5>3
      <4> QED BY <4>1
    <3>3. refused' = refused
      <4> HIDE DEF m
      <4> QED BY <1>0, <3>1, <3>2, Zenon
    <3>4. UNCHANGED <<vpc, inLast, heard, refused>>
      BY <2>1, <3>1, <3>3
    <3> HIDE DEF Kept
    <3> QED BY <1>4, <3>4
  <2> HIDE DEF Kept
  <2> QED BY <2>3, <2>4
<1>7. ASSUME NEW x \in Viewer, Hello(x) \/ Leave(x) PROVE (\A v \in Viewer : Kept(v)) /\ ~refused'
  <2>1. /\ refused' = refused /\ vpc'[x] # "keyed"
        /\ \A v \in Viewer : v # x => vpc'[v] = vpc[v] /\ inLast'[v] = inLast[v] /\ heard'[v] = heard[v]
    BY <1>0, <1>7 DEF Hello, Leave, history
  <2>2. Kept(x)
    BY <2>1
  <2> HIDE DEF Kept
  <2> QED BY <1>0, <1>3, <2>1, <2>2
<1>8. ASSUME NEW x \in Viewer, Send(x) PROVE UNCHANGED <<vpc, inLast, heard, refused>>
  BY <1>8 DEF Send, history
<1>9. ASSUME NEW r \in Reader, ReaderNext(r) PROVE UNCHANGED <<vpc, inLast, heard, refused>>
  BY <1>9 DEF ReaderNext, Issue, ReadCounter, WriteAnswer, Check, Admit, viewers, history
<1>10. ASSUME NEW w \in Writer, WriterNext(w) PROVE UNCHANGED <<vpc, inLast, heard, refused>>
  BY <1>10 DEF WriterNext, BeginWrite, FinishWrite, viewers, history
<1>11. ASSUME RelayNext \/ UNCHANGED vars PROVE UNCHANGED <<vpc, inLast, heard, refused>>
  BY <1>11 DEF RelayNext, Forward, Reconnect, Deliver, viewers, history, vars
<1>12. (\A v \in Viewer : Kept(v)) /\ ~refused'
  <2> HIDE DEF Kept
  <2> QED BY <1>4, <1>5, <1>6, <1>7, <1>8, <1>9, <1>10, <1>11 DEF Next, ViewerNext
<1> QED BY <1>12 DEF Expected, RefusedOnlyOvertaken

\* Whoever writes, whichever of the host's connections speaks for it and however its
\* handlers and the viewers interleave, a keyed viewer refuses a frame only if one of a
\* later connection reached it before (writeSessionMsg and sealInfoFor under writeMu,
\* forward, viewerSeal.in).
THEOREM OnlyTheOvertakenIsRefused == Spec => []RefusedOnlyOvertaken
<1>1. Init => IInv /\ ComesInv
  <2>1. ASSUME Init PROVE OneWriter /\ Routed /\ Numbered /\ InOrder /\ Expected /\ RefusedOnlyOvertaken
    <3>1. /\ pipe = <<>> /\ \A v \in Viewer : down[v] = <<>> /\ vpc[v] = "away"
          /\ \A c \in Conn : carrying[c] = None
          /\ \A r \in Reader : rpc[r] = "idle"
          /\ \A w \in Writer : writing[w] = None
          /\ ~refused
      BY <2>1 DEF Init
    <3>2. \A v \in Viewer : \A m, n : ~Coming(v, m) /\ ~Ahead(v, m, n)
      BY <3>1 DEF Coming, Ahead, InDown, InPipe, Holds, In, Before
    <3>3. Routed
      BY <3>1 DEF Routed, In
    <3> QED BY <3>1, <3>2, <3>3 DEF OneWriter, Numbered, InOrder, Expected, RefusedOnlyOvertaken
  <2> QED BY <2>1, InitTyped, SealConstants DEF IInv, ComesInv
<1>2. IInv /\ ComesInv /\ [Next]_vars => (IInv /\ ComesInv)'
  <2>1. ASSUME IInv, ComesInv, [Next]_vars PROVE IInv' /\ ComesInv'
    <3>1. IInv'
      BY <2>1, Inductive, SealConstants
    <3>2. OneWriter' /\ Routed'
      BY <2>1, OneWriterStep, RoutedStep, SealConstants DEF ComesInv
    <3>3. Numbered' /\ InOrder'
      BY <2>1, NumberedStep, InOrderStep, SealConstants
    <3>4. Expected' /\ RefusedOnlyOvertaken'
      BY <2>1, ExpectedStep, SealConstants
    <3> QED BY <3>1, <3>2, <3>3, <3>4 DEF IInv, ComesInv
  <2> QED BY <2>1
<1>3. ComesInv => RefusedOnlyOvertaken
  BY DEF ComesInv
<1> QED BY <1>1, <1>2, <1>3, PTL DEF Spec

------------------------------------------------------------------------------
(* Whose a stream is *)

\* A stream is claimed for a viewer by the handshake it is being issued to, by
\* an answer on its way, to whomever it is carried, and by the viewer keyed with
\* it.
InHand(r, v, s) == rpc[r] \in {"issued", "answering"} /\ hand[r].to = v /\ hand[r].stream = s
Carries(m, v, s) == m.kind = "answer" /\ m.to = v /\ m.stream = s
KeyedWith(v, s) == vpc[v] = "keyed" /\ stream[v] = s
Claims(v, s) ==
  \/ \E r \in Reader : InHand(r, v, s)
  \/ \E u \in Viewer, m \in Message : Coming(u, m) /\ Carries(m, v, s)
  \/ KeyedWith(v, s)

\* A stream is claimed once it is issued, and for one viewer.
OneClaim ==
  \A s \in StreamId : \A v, u \in Viewer :
    /\ Claims(v, s) => s <= nextStream
    /\ Claims(v, s) /\ Claims(u, s) => v = u

\* A handshake in hand is the one it was, or is issued its stream now.
LEMMA InHandStep ==
  ASSUME SealConstants, Typed, [Next]_vars,
         NEW r \in Reader, NEW v \in Viewer, NEW s \in StreamId, InHand(r, v, s)'
  PROVE  InHand(r, v, s) \/ (Issue(r) /\ s = nextStream + 1)
<1>0. /\ rpc \in [Reader -> {"idle", "issued", "answering", "opening"}]
      /\ hand = [q \in Reader |-> hand[q]]
  BY DEF Typed, ReadersOK
<1>1. ASSUME rpc'[r] = rpc[r], hand'[r] = hand[r] PROVE InHand(r, v, s)
  BY <1>1 DEF InHand
<1>2. ASSUME NEW q \in Reader, ReaderNext(q), q # r PROVE InHand(r, v, s)
  <2>1. PICK x, h : rpc' = [rpc EXCEPT ![q] = x] /\ hand' = [hand EXCEPT ![q] = h]
    BY <1>2 DEF ReaderNext, Issue, ReadCounter, WriteAnswer, Check, Admit
  <2> QED BY <1>0, <1>1, <1>2, <2>1
<1>3. CASE Issue(r)
  <2>1. PICK a \in asked, c \in ConnsOf(ReaderOn[r]) :
          hand' = [hand EXCEPT ![r] = [to |-> a.from, exID |-> a.exID, stream |-> nextStream + 1, on |-> c]]
    BY <1>3 DEF Issue
  <2>2. hand'[r].stream = nextStream + 1
    BY <1>0, <2>1
  <2> QED BY <1>3, <2>2 DEF InHand
<1>4. CASE ReadCounter(r)
  <2>1. rpc[r] = "issued"
        /\ hand' = [hand EXCEPT ![r] = [to |-> hand[r].to, exID |-> hand[r].exID,
                                        stream |-> hand[r].stream, on |-> hand[r].on, at |-> outCtr]]
    BY <1>4 DEF ReadCounter
  <2>2. hand'[r].to = hand[r].to /\ hand'[r].stream = hand[r].stream
    BY <1>0, <2>1
  <2> QED BY <2>1, <2>2 DEF InHand
<1>5. CASE WriteAnswer(r) \/ Check(r) \/ Admit(r)
  <2>1. rpc'[r] \in {"idle", "opening"}
    BY <1>0, <1>5 DEF WriteAnswer, Check, Admit
  <2> QED BY <2>1 DEF InHand
<1>6. ASSUME UNCHANGED <<rpc, hand>> PROVE InHand(r, v, s)
  BY <1>1, <1>6
<1>7. ASSUME NEW w \in Writer, WriterNext(w) PROVE UNCHANGED <<rpc, hand>>
  BY <1>7 DEF WriterNext, BeginWrite, FinishWrite, readers
<1>8. ASSUME NEW u \in Viewer, ViewerNext(u) PROVE UNCHANGED <<rpc, hand>>
  BY <1>8 DEF ViewerNext, Hello, Key, Leave, Send, Receive, readers
<1>9. ASSUME RelayNext \/ UNCHANGED vars PROVE UNCHANGED <<rpc, hand>>
  BY <1>9 DEF RelayNext, Forward, Reconnect, Deliver, vars, readers
<1> QED BY <1>2, <1>3, <1>4, <1>5, <1>6, <1>7, <1>8, <1>9 DEF Next, ReaderNext

\* An answer on its way was on its way, or was in the hand that wrote it.
LEMMA CarriedStep ==
  ASSUME SealConstants, Typed, Routed, [Next]_vars,
         NEW u \in Viewer, NEW m \in Message, NEW v \in Viewer, NEW s \in StreamId,
         Coming(u, m)', Carries(m, v, s)
  PROVE  Claims(v, s)
<1>1. CASE Coming(u, m)
  BY <1>1 DEF Claims
<1>2. ASSUME NEW w \in Writer, m = Frame(writing[w]) PROVE FALSE
  BY <1>2 DEF Frame, Carries
<1>3. ASSUME NEW r \in Reader, WriteAnswer(r), m = Answer(hand[r]) PROVE Claims(v, s)
  <2>1. hand[r] \in Answering /\ rpc[r] = "answering"
    BY <1>3 DEF WriteAnswer, Typed, ReadersOK
  <2>2. m.to = hand[r].to /\ m.stream = hand[r].stream
    BY <1>3, <2>1 DEF Answer
  <2>3. InHand(r, v, s)
    BY <2>1, <2>2 DEF Carries, InHand
  <2> QED BY <2>3 DEF Claims
<1> QED BY <1>1, <1>2, <1>3, WayStep DEF Written

\* A viewer keyed with a stream was keyed with it, or has just read its answer.
LEMMA KeyedStep ==
  ASSUME SealConstants, Typed, [Next]_vars, NEW v \in Viewer, NEW s \in StreamId, KeyedWith(v, s)'
  PROVE  Claims(v, s)
<1>0. /\ down \in [Viewer -> Seq(Message)] /\ stream \in [Viewer -> StreamId \cup {0}]
      /\ vpc \in [Viewer -> {"away", "keying", "keyed"}]
  BY DEF Typed, ViewersOK
<1>1. ASSUME vpc'[v] = vpc[v], stream'[v] = stream[v] PROVE Claims(v, s)
  BY <1>1 DEF KeyedWith, Claims
<1>2. ASSUME NEW x \in Viewer, Hello(x) \/ Leave(x) PROVE Claims(v, s)
  <2>1. vpc'[x] # "keyed" /\ (v # x => vpc'[v] = vpc[v] /\ stream'[v] = stream[v])
    BY <1>0, <1>2 DEF Hello, Leave
  <2> QED BY <1>1, <2>1 DEF KeyedWith
<1>3. ASSUME NEW x \in Viewer, Key(x) PROVE Claims(v, s)
  <2> DEFINE m == Head(down[x])
  <2>1. CASE v = x /\ Mine(x, m)
    <3>1. m.kind = "answer" /\ m.to = v
      BY <2>1 DEF Mine
    <3>2. stream' = [stream EXCEPT ![v] = m.stream] /\ down[v] # <<>>
      BY <1>3, <2>1 DEF Key
    <3>3. m.stream = s
      BY <1>0, <3>2 DEF KeyedWith
    <3>4. m \in Message /\ Coming(v, m)
      BY <1>0, <2>1, <3>2, TailIn DEF Coming, InDown
    <3>5. Carries(m, v, s)
      BY <3>1, <3>3 DEF Carries
    <3> QED BY <3>4, <3>5 DEF Claims
  <2>2. CASE ~(v = x /\ Mine(x, m))
    <3>1. vpc'[v] = vpc[v] /\ stream'[v] = stream[v]
      BY <1>0, <1>3, <2>2 DEF Key
    <3> QED BY <1>1, <3>1
  <2> QED BY <2>1, <2>2
<1>4. ASSUME UNCHANGED <<vpc, stream>> PROVE Claims(v, s)
  BY <1>1, <1>4
<1>5. ASSUME NEW r \in Reader, ReaderNext(r) PROVE UNCHANGED <<vpc, stream>>
  BY <1>5 DEF ReaderNext, Issue, ReadCounter, WriteAnswer, Check, Admit, viewers
<1>6. ASSUME NEW w \in Writer, WriterNext(w) PROVE UNCHANGED <<vpc, stream>>
  BY <1>6 DEF WriterNext, BeginWrite, FinishWrite, viewers
<1>7. ASSUME NEW x \in Viewer, Send(x) \/ Receive(x) PROVE UNCHANGED <<vpc, stream>>
  BY <1>7 DEF Send, Receive
<1>8. ASSUME RelayNext \/ UNCHANGED vars PROVE UNCHANGED <<vpc, stream>>
  BY <1>8 DEF RelayNext, Forward, Reconnect, Deliver, vars, viewers
<1> QED BY <1>2, <1>3, <1>4, <1>5, <1>6, <1>7, <1>8 DEF Next, ViewerNext

\* Only Issue makes a claim, for the stream it issues: every other step passes on
\* what was claimed already.
LEMMA ClaimStep ==
  ASSUME SealConstants, Typed, Routed, [Next]_vars, NEW v \in Viewer, NEW s \in StreamId, Claims(v, s)'
  PROVE  \/ Claims(v, s)
         \/ \E r \in Reader : Issue(r) /\ hand'[r].to = v /\ s = nextStream + 1
<1>1. ASSUME NEW r \in Reader, InHand(r, v, s)'
      PROVE Claims(v, s) \/ (Issue(r) /\ hand'[r].to = v /\ s = nextStream + 1)
  BY <1>1, InHandStep DEF InHand, Claims
<1>2. ASSUME NEW u \in Viewer, NEW m \in Message, Coming(u, m)', Carries(m, v, s)
      PROVE Claims(v, s)
  BY <1>2, CarriedStep
<1>3. ASSUME KeyedWith(v, s)' PROVE Claims(v, s)
  BY <1>3, KeyedStep
<1>4. (\E r \in Reader : InHand(r, v, s)')
      \/ (\E u \in Viewer, m \in Message : Coming(u, m)' /\ Carries(m, v, s))
      \/ KeyedWith(v, s)'
  BY DEF Claims, Carries
<1> QED BY <1>1, <1>2, <1>3, <1>4

\* One reader issues at a time: two claims made by one step are one.
LEMMA OneIssue ==
  ASSUME SealConstants, Typed, NEW r \in Reader, NEW q \in Reader, Issue(r), Issue(q)
  PROVE  hand'[r].to = hand'[q].to
<1>0. hand = [x \in Reader |-> hand[x]] /\ rpc \in [Reader -> {"idle", "issued", "answering", "opening"}]
  BY DEF Typed, ReadersOK
<1>1. rpc[r] = "idle" /\ rpc[q] = "idle" /\ rpc' = [rpc EXCEPT ![r] = "issued"]
      /\ rpc' = [rpc EXCEPT ![q] = "issued"]
  BY DEF Issue
<1>2. r = q
  BY <1>0, <1>1
<1> QED BY <1>2

LEMMA OneClaimStep ==
  ASSUME SealConstants, Typed, Routed, OneClaim, [Next]_vars
  PROVE  OneClaim'
<1>0. nextStream \in Nat /\ nextStream' \in Nat /\ nextStream <= nextStream'
      /\ \A r \in Reader : Issue(r) => nextStream' = nextStream + 1
  <2>1. nextStream \in Nat
    BY DEF Typed, StreamsOK
  <2>2. ASSUME NEW r \in Reader, Issue(r) PROVE nextStream' = nextStream + 1
    BY <2>2 DEF Issue
  <2>3. ASSUME NEW r \in Reader, ReadCounter(r) \/ WriteAnswer(r) \/ Check(r) \/ Admit(r)
        PROVE nextStream' = nextStream
    BY <2>3 DEF ReadCounter, WriteAnswer, Check, Admit, streams
  <2>4. ASSUME NEW w \in Writer, WriterNext(w) PROVE nextStream' = nextStream
    BY <2>4 DEF WriterNext, BeginWrite, FinishWrite, streams
  <2>5. ASSUME NEW v \in Viewer, ViewerNext(v) PROVE nextStream' = nextStream
    BY <2>5 DEF ViewerNext, Hello, Key, Leave, Send, Receive, streams
  <2>6. ASSUME RelayNext \/ UNCHANGED vars PROVE nextStream' = nextStream
    BY <2>6 DEF RelayNext, Forward, Reconnect, Deliver, vars, streams
  <2>7. nextStream' = nextStream \/ nextStream' = nextStream + 1
    BY <2>2, <2>3, <2>4, <2>5, <2>6 DEF Next, ReaderNext
  <2> QED BY <2>1, <2>2, <2>7
<1>1. StreamId \subseteq Nat
  BY DEF StreamId
<1>2. ASSUME NEW s \in StreamId, NEW v \in Viewer, Claims(v, s)'
      PROVE s <= nextStream'
  <2>1. CASE Claims(v, s)
    <3>1. s <= nextStream /\ s \in Nat
      BY <1>1, <2>1 DEF OneClaim
    <3> QED BY <1>0, <3>1
  <2>2. ASSUME NEW r \in Reader, Issue(r), s = nextStream + 1 PROVE s <= nextStream'
    BY <1>0, <2>2
  <2> QED BY <1>2, <2>1, <2>2, ClaimStep
<1>3. ASSUME NEW s \in StreamId, NEW v \in Viewer, NEW u \in Viewer, Claims(v, s)', Claims(u, s)'
      PROVE v = u
  <2>1. CASE Claims(v, s) /\ Claims(u, s)
    BY <2>1 DEF OneClaim
  <2>2. ASSUME NEW x \in Viewer, Claims(x, s) PROVE s # nextStream + 1
    <3>1. s <= nextStream /\ s \in Nat
      BY <1>1, <2>2 DEF OneClaim
    <3> QED BY <1>0, <3>1
  <2>3. CASE ~Claims(v, s) /\ ~Claims(u, s)
    <3>1. PICK r \in Reader : Issue(r) /\ hand'[r].to = v
      BY <1>3, <2>3, ClaimStep
    <3>2. PICK q \in Reader : Issue(q) /\ hand'[q].to = u
      BY <1>3, <2>3, ClaimStep
    <3> QED BY <3>1, <3>2, OneIssue
  <2> QED BY <1>3, <2>1, <2>2, <2>3, ClaimStep
<1> QED BY <1>2, <1>3 DEF OneClaim

\* No two viewers keyed at a time send on one stream, whoever answers whom and
\* over whichever connection, however late an answer comes (sealInfoFor,
\* newViewerSeal).
THEOREM EachHasItsOwnStream == Spec => []StreamIsOwn
<1>1. Init => IInv /\ Routed /\ OneClaim
  <2>1. ASSUME Init PROVE Routed /\ OneClaim
    <3>1. /\ pipe = <<>> /\ \A v \in Viewer : down[v] = <<>> /\ vpc[v] = "away"
          /\ \A c \in Conn : carrying[c] = None
          /\ \A r \in Reader : rpc[r] = "idle"
      BY <2>1 DEF Init
    <3>2. \A v \in Viewer : \A m : ~Coming(v, m)
      BY <3>1 DEF Coming, InDown, InPipe, Holds, In
    <3>3. Routed
      BY <3>1 DEF Routed, In
    <3> QED BY <3>1, <3>2, <3>3 DEF OneClaim, Claims, InHand, KeyedWith
  <2> QED BY <2>1, InitTyped, SealConstants
<1>2. IInv /\ Routed /\ OneClaim /\ [Next]_vars => (IInv /\ Routed /\ OneClaim)'
  BY Inductive, RoutedStep, OneClaimStep, SealConstants DEF IInv
<1>3. IInv /\ OneClaim => StreamIsOwn
  <2>1. ASSUME IInv, OneClaim, NEW v \in Viewer, NEW w \in Viewer, v # w,
               vpc[v] = "keyed", vpc[w] = "keyed", stream[v] = stream[w]
        PROVE FALSE
    <3>1. stream[v] \in StreamId
      BY <2>1 DEF IInv, Typed, ViewersOK
    <3>2. Claims(v, stream[v]) /\ Claims(w, stream[v])
      BY <2>1 DEF Claims, KeyedWith
    <3> QED BY <2>1, <3>1, <3>2 DEF OneClaim
  <2> QED BY <2>1 DEF StreamIsOwn
<1> QED BY <1>1, <1>2, <1>3, PTL DEF Spec
==============================================================================
