----------------------------- MODULE SealedFrames -----------------------------
(***************************************************************************)
(* The numbering that lets each sealed session message be acted on once    *)
(* and in order (client/sealedframes.go, client/sealedviewer.go).          *)
(*                                                                         *)
(* A viewer's handshake is issued a stream of its own for what it sends;   *)
(* the host forgets the least recently used past a bound.  A frame is      *)
(* checked against its stream, opened outside the lock, and checked again. *)
(* What the host sends carries one counter for the whole process, taken    *)
(* under the lock the write is made under, and the handshake's answer says *)
(* where it stands.  Viewers that predate sealed frames are not here.      *)
(*                                                                         *)
(* A viewer's frame may reach any of the host's readers - of the relay     *)
(* connection, of the one it replaces, of a local attach - late, out of    *)
(* order, more than once or never.  What the host writes to a local attach *)
(* arrives in order.  What it writes to the relay a handler takes from the *)
(* connection, one message at a time: to whom it goes is decided under the *)
(* room's lock and written after it (server.go, forward).  A connection    *)
(* that takes the place of another has a handler of its own, which does    *)
(* not wait for what the old one's has in hand.                            *)
(***************************************************************************)
EXTENDS Naturals, Sequences, FiniteSets

CONSTANTS
  Viewer, Link, relay,
  Via,          \* the link each viewer is reached over
  Reader,       \* the host's reader goroutines
  ReaderOn,     \* the link each of them answers on
  Writer,       \* goroutines that write to the viewers (senders, pings, ...)
  MaxKnown,     \* maxStreams
  MaxConn,      \* bound: connections to the relay
  MaxStream, MaxCtr, MaxOut, MaxDown,   \* bounds: handshakes, frames each way, in flight
  None

Conn == 1 .. MaxConn

ASSUME SealConstants ==
  /\ relay \in Link /\ Via \in [Viewer -> Link] /\ ReaderOn \in [Reader -> Link]
  /\ MaxKnown \in Nat \ {0} /\ MaxStream \in Nat /\ MaxConn \in Nat \ {0}
  /\ None \notin Nat \cup Viewer \cup Writer

VARIABLES
  \* sealState, under seal.mu: streams issued, those remembered, the last
  \* counter accepted on each and the tick it was used at
  nextStream, known, last, used, tick,
  \* outCtr and who holds writeMu, the connection written to and the counter in hand
  outCtr, holder, writing,
  \* the relay's side: which of the host's connections speaks for it, what has
  \* been written to that one and not taken from it, and what each one's handler
  \* has in hand, with the viewers it is yet to be written to
  conn, pipe, carrying,
  \* each reader: position, the frame or the handshake in hand
  rpc, hand,
  \* handshakes sent and not yet read
  asked,
  \* each viewer: position, the number of its handshake, its stream, the last
  \* counter it sent and accepted (viewerSeal), and what is on its way to it
  vpc, exID, stream, sent, inLast, down,
  \* every frame a viewer has written: any may still arrive
  wire,
  \* history: the counters acted on, by stream; the newest connection a viewer
  \* has heard from; whether a viewer refused a frame of that one or a newer one
  acted, heard, refused

streams == <<nextStream, known, last, used, tick>>
output  == <<outCtr, holder, writing>>
relayed == <<conn, pipe, carrying>>
readers == <<rpc, hand, asked>>
viewers == <<vpc, exID, stream, sent, inLast, down>>
history == <<acted, heard, refused>>
vars == <<streams, output, relayed, readers, viewers, wire, history>>

StreamId == 1 .. MaxStream
\* The connection a message was written to is kept for the history only.
Answer(h) ==
  [kind |-> "answer", to |-> h.to, exID |-> h.exID, stream |-> h.stream, at |-> h.at, on |-> h.on]
Frame(h) == [kind |-> "frame", ctr |-> h.ctr, on |-> h.on]

\* The connections of a link that something may still be written to.
ConnsOf(l) == IF l = relay THEN 1 .. conn ELSE {0}

On(l) == {v \in Viewer : Via[v] = l /\ vpc[v] # "away"}

Init ==
  /\ nextStream = 0 /\ known = {} /\ tick = 0
  /\ last = [s \in StreamId |-> 0] /\ used = [s \in StreamId |-> 0]
  /\ outCtr = 0 /\ holder = None /\ writing = [w \in Writer |-> None]
  /\ conn = 1 /\ pipe = <<>> /\ carrying = [c \in Conn |-> None]
  /\ rpc = [r \in Reader |-> "idle"] /\ hand = [r \in Reader |-> None] /\ asked = {}
  /\ vpc = [v \in Viewer |-> "away"] /\ exID = [v \in Viewer |-> 0]
  /\ stream = [v \in Viewer |-> 0] /\ sent = [v \in Viewer |-> 0]
  /\ inLast = [v \in Viewer |-> 0] /\ down = [v \in Viewer |-> <<>>]
  /\ wire = {}
  /\ acted = [s \in StreamId |-> <<>>] /\ heard = [v \in Viewer |-> 0] /\ refused = FALSE

------------------------------------------------------------------------------
(* Between the host and its viewers *)

\* To a local attach a message goes at once; at the relay, into the connection,
\* and what comes on one that has been replaced is dropped.
WriteTo(l, c, m) ==
  IF l = relay
  THEN pipe' = (IF c = conn THEN Append(pipe, m) ELSE pipe) /\ UNCHANGED down
  ELSE /\ down' = [v \in Viewer |-> IF v \in On(l) THEN Append(down[v], m) ELSE down[v]]
       /\ UNCHANGED pipe

Carried(m, to) == IF to = {} THEN None ELSE [msg |-> m, to |-> to]

\* forward: the handler takes the next message and, under r.mu, who is to get it.
Forward ==
  /\ pipe # <<>> /\ carrying[conn] = None
  /\ pipe' = Tail(pipe)
  /\ carrying' = [carrying EXCEPT ![conn] = Carried(Head(pipe), On(relay))]
  /\ UNCHANGED <<streams, output, conn, readers, viewers, wire, history>>

\* The lock let go, it is written to one after the other.
Deliver(c, v) ==
  /\ carrying[c] # None /\ v \in carrying[c].to /\ Len(down[v]) < MaxDown
  /\ down' = [down EXCEPT ![v] = Append(@, carrying[c].msg)]
  /\ carrying' = [carrying EXCEPT ![c] = Carried(@.msg, @.to \ {v})]
  /\ UNCHANGED <<streams, output, conn, pipe, readers, vpc, exID, stream, sent, inLast, wire,
                 history>>

\* superseded: a new connection of the host's speaks for it from here on.
Reconnect ==
  /\ conn < MaxConn
  /\ conn' = conn + 1
  /\ pipe' = <<>>
  /\ UNCHANGED <<streams, output, carrying, readers, viewers, wire, history>>

------------------------------------------------------------------------------
(* The handshake *)

\* A new connection, its viewerSeal empty. It sends a handshake with an ex_id of its own.
Hello(v) ==
  /\ vpc[v] = "away" /\ nextStream + Cardinality(asked) < MaxStream
  /\ vpc' = [vpc EXCEPT ![v] = "keying"]
  /\ exID' = [exID EXCEPT ![v] = @ + 1]
  /\ asked' = asked \cup {[from |-> v, exID |-> exID[v] + 1]}
  /\ UNCHANGED <<streams, output, relayed, rpc, hand, stream, sent, inLast, down, wire, history>>

\* The streams remembered with s issued: past the bound, all but the least
\* recently used.
Remembered_All(s) == known \cup {s}
Remembered(s) ==
  LET all == known \cup {s} IN
  IF Cardinality(all) > MaxKnown
  THEN all \ {t \in known : \A u \in known : used[t] <= used[u]}
  ELSE all

\* sealInfoFor, under seal.mu: a stream for the handshake just read.
Issue(r) ==
  /\ rpc[r] = "idle" /\ nextStream < MaxStream
  /\ \E a \in asked, c \in ConnsOf(ReaderOn[r]) :
       /\ Via[a.from] = ReaderOn[r]
       /\ asked' = asked \ {a}
       /\ hand' = [hand EXCEPT ![r] =
                   [to |-> a.from, exID |-> a.exID, stream |-> nextStream + 1, on |-> c]]
  /\ nextStream' = nextStream + 1
  /\ known' = Remembered(nextStream + 1)
  /\ last' = [last EXCEPT ![nextStream + 1] = 0]
  /\ used' = [used EXCEPT ![nextStream + 1] = tick + 1]
  /\ tick' = tick + 1
  /\ rpc' = [rpc EXCEPT ![r] = "issued"]
  /\ UNCHANGED <<output, relayed, viewers, wire, history>>

\* Then, under writeMu, where the counter stands.
ReadCounter(r) ==
  /\ rpc[r] = "issued" /\ holder = None
  /\ LET h == hand[r] IN
     hand' = [hand EXCEPT ![r] = [to |-> h.to, exID |-> h.exID, stream |-> h.stream,
                                  on |-> h.on, at |-> outCtr]]
  /\ rpc' = [rpc EXCEPT ![r] = "answering"]
  /\ UNCHANGED <<streams, output, relayed, asked, viewers, wire, history>>

\* The answer, unsealed, to whoever is on the link.
WriteAnswer(r) ==
  /\ rpc[r] = "answering" /\ holder = None
  /\ WriteTo(ReaderOn[r], hand[r].on, Answer(hand[r]))
  /\ rpc' = [rpc EXCEPT ![r] = "idle"]
  /\ hand' = [hand EXCEPT ![r] = None]
  /\ UNCHANGED <<streams, output, conn, carrying, asked, vpc, exID, stream, sent, inLast, wire,
                 history>>

Mine_Any(v, m) == m.kind = "answer"
Mine(v, m) == m.kind = "answer" /\ m.to = v /\ m.exID = exID[v]

\* newViewerSeal: keyed by its own handshake's answer; anything else is read past.
Key(v) ==
  /\ vpc[v] = "keying" /\ down[v] # <<>>
  /\ LET m == Head(down[v]) IN
     IF Mine(v, m)
     THEN /\ vpc' = [vpc EXCEPT ![v] = "keyed"]
          /\ stream' = [stream EXCEPT ![v] = m.stream]
          /\ sent' = [sent EXCEPT ![v] = 0]
          /\ inLast' = [inLast EXCEPT ![v] = m.at]
          /\ heard' = [heard EXCEPT ![v] = m.on]
     ELSE UNCHANGED <<vpc, stream, sent, inLast, heard>>
  /\ down' = [down EXCEPT ![v] = Tail(@)]
  /\ UNCHANGED <<streams, output, relayed, readers, exID, wire, acted, refused>>

\* The connection is closed, and its viewerSeal with it; what a handler has in hand
\* for it goes nowhere.
Leave(v) ==
  /\ vpc[v] # "away"
  /\ vpc' = [vpc EXCEPT ![v] = "away"]
  /\ stream' = [stream EXCEPT ![v] = 0] /\ sent' = [sent EXCEPT ![v] = 0]
  /\ inLast' = [inLast EXCEPT ![v] = 0] /\ heard' = [heard EXCEPT ![v] = 0]
  /\ down' = [down EXCEPT ![v] = <<>>]
  /\ carrying' = [c \in Conn |->
       IF carrying[c] = None THEN None ELSE Carried(carrying[c].msg, carrying[c].to \ {v})]
  /\ UNCHANGED <<streams, output, conn, pipe, readers, exID, wire, acted, refused>>

------------------------------------------------------------------------------
(* Viewer to host *)

\* viewerSeal.out
Send(v) ==
  /\ vpc[v] = "keyed" /\ sent[v] < MaxCtr
  /\ sent' = [sent EXCEPT ![v] = @ + 1]
  /\ wire' = wire \cup {[stream |-> stream[v], ctr |-> sent[v] + 1]}
  /\ UNCHANGED <<streams, output, relayed, readers, vpc, exID, stream, inLast, down, history>>

\* openSealed: the check under the lock.
Passes(f) == f.stream \in known /\ f.ctr > last[f.stream]

\* A frame that does not pass is dropped, and nothing has changed.
Check(r) ==
  /\ rpc[r] = "idle"
  /\ \E f \in wire : Passes(f) /\ hand' = [hand EXCEPT ![r] = f]
  /\ rpc' = [rpc EXCEPT ![r] = "opening"]
  /\ UNCHANGED <<streams, output, relayed, asked, viewers, wire, history>>

\* Opened outside the lock: the check again, under it.
StillPasses_Again(f) == f.stream \in known /\ f.ctr >= last[f.stream]
StillPasses(f) == Passes(f)

Admit(r) ==
  /\ rpc[r] = "opening"
  /\ LET f == hand[r] IN
     IF StillPasses(f)
     THEN /\ last' = [last EXCEPT ![f.stream] = f.ctr]
          /\ used' = [used EXCEPT ![f.stream] = tick + 1]
          /\ tick' = tick + 1
          /\ acted' = [acted EXCEPT ![f.stream] = Append(@, f.ctr)]
     ELSE UNCHANGED <<last, used, tick, acted>>
  /\ rpc' = [rpc EXCEPT ![r] = "idle"]
  /\ hand' = [hand EXCEPT ![r] = None]
  /\ UNCHANGED <<nextStream, known, output, relayed, asked, viewers, wire, heard, refused>>

------------------------------------------------------------------------------
(* Host to viewer *)

\* writeSessionMsg takes writeMu, and then the next counter.
Free_Unlocked == TRUE
Free == holder = None

BeginWrite(w) ==
  /\ writing[w] = None /\ Free /\ outCtr < MaxOut
  /\ \E l \in Link : \E c \in ConnsOf(l) :
       writing' = [writing EXCEPT ![w] = [link |-> l, on |-> c, ctr |-> outCtr + 1]]
  /\ outCtr' = outCtr + 1
  /\ holder' = w
  /\ UNCHANGED <<streams, relayed, readers, viewers, wire, history>>

\* The sealed frame is made and written to the connection, under the lock.
FinishWrite(w) ==
  /\ writing[w] # None
  /\ LET h == writing[w] IN
     /\ IF h.link = relay
        THEN Len(pipe) < MaxDown
        ELSE \A v \in On(h.link) : Len(down[v]) < MaxDown
     /\ WriteTo(h.link, h.on, Frame(h))
  /\ writing' = [writing EXCEPT ![w] = None]
  /\ holder' = None
  /\ UNCHANGED <<streams, outCtr, conn, carrying, readers, vpc, exID, stream, sent, inLast, wire,
                 history>>

\* viewerSeal.in: accepted past the last one, and past where the answer stood.
Receive(v) ==
  /\ vpc[v] = "keyed" /\ down[v] # <<>>
  /\ LET m == Head(down[v]) IN
     IF m.kind = "frame" /\ m.ctr > inLast[v]
     THEN /\ inLast' = [inLast EXCEPT ![v] = m.ctr]
          /\ heard' = [heard EXCEPT ![v] = IF m.on > @ THEN m.on ELSE @]
          /\ UNCHANGED refused
     ELSE /\ refused' = (refused \/ (m.kind = "frame" /\ m.on >= heard[v]))
          /\ UNCHANGED <<inLast, heard>>
  /\ down' = [down EXCEPT ![v] = Tail(@)]
  /\ UNCHANGED <<streams, output, relayed, readers, vpc, exID, stream, sent, wire, acted>>

------------------------------------------------------------------------------
ReaderNext(r) == Issue(r) \/ ReadCounter(r) \/ WriteAnswer(r) \/ Check(r) \/ Admit(r)
WriterNext(w) == BeginWrite(w) \/ FinishWrite(w)
ViewerNext(v) == Hello(v) \/ Key(v) \/ Leave(v) \/ Send(v) \/ Receive(v)

RelayNext == Forward \/ Reconnect \/ \E c \in Conn, v \in Viewer : Deliver(c, v)

Next ==
  \/ RelayNext
  \/ \E r \in Reader : ReaderNext(r)
  \/ \E w \in Writer : WriterNext(w)
  \/ \E v \in Viewer : ViewerNext(v)

Spec == Init /\ [][Next]_vars

------------------------------------------------------------------------------
(* Properties *)

ViewerFrame == [stream : StreamId, ctr : Nat]
Pending == [to : Viewer, exID : Nat, stream : StreamId, on : Nat]
Answering == [to : Viewer, exID : Nat, stream : StreamId, on : Nat, at : Nat]
Message ==
  [kind : {"answer"}, to : Viewer, exID : Nat, stream : StreamId, at : Nat, on : Nat]
    \cup [kind : {"frame"}, ctr : Nat, on : Nat]

\* Every variable has its type; no more streams are remembered than maxStreams.
StreamsOK ==
  /\ nextStream \in 0 .. MaxStream /\ known \subseteq 1 .. nextStream
  /\ last \in [StreamId -> Nat] /\ used \in [StreamId -> Nat] /\ tick \in Nat
OutputOK ==
  /\ outCtr \in Nat /\ holder \in Writer \cup {None}
  /\ writing \in [Writer -> [link : Link, on : Nat, ctr : Nat] \cup {None}]
RelayedOK ==
  /\ conn \in Conn /\ pipe \in Seq(Message)
  /\ carrying \in [Conn -> [msg : Message, to : SUBSET Viewer] \cup {None}]
ReadersOK ==
  /\ rpc \in [Reader -> {"idle", "issued", "answering", "opening"}]
  /\ \A r \in Reader :
       /\ rpc[r] = "issued" => hand[r] \in Pending
       /\ rpc[r] = "answering" => hand[r] \in Answering
       /\ rpc[r] = "opening" => hand[r] \in ViewerFrame
  /\ hand = [r \in Reader |-> hand[r]]
  /\ asked \subseteq [from : Viewer, exID : Nat]
ViewersOK ==
  /\ vpc \in [Viewer -> {"away", "keying", "keyed"}] /\ exID \in [Viewer -> Nat]
  /\ stream \in [Viewer -> StreamId \cup {0}] /\ sent \in [Viewer -> Nat]
  /\ inLast \in [Viewer -> Nat] /\ down \in [Viewer -> Seq(Message)]
  /\ \A v \in Viewer : vpc[v] = "keyed" => stream[v] \in StreamId
  /\ wire \subseteq ViewerFrame
HistoryOK ==
  acted \in [StreamId -> Seq(Nat)] /\ heard \in [Viewer -> Nat] /\ refused \in BOOLEAN
Typed == StreamsOK /\ OutputOK /\ RelayedOK /\ ReadersOK /\ ViewersOK /\ HistoryOK
TypeOK == Typed /\ Cardinality(known) <= MaxKnown

\* What is acted on, on a stream, comes in the order it was sent and once: no frame
\* is acted on twice, not even twice in a row, through two readers that open it at
\* once, a stream forgotten and a reconnect (sealedframes.go: "a sealed frame is
\* accepted once, from a stream a handshake issued, in order"; a forgotten stream's
\* frame is "refused, never accepted afresh").
AcceptedInOrder ==
  \A s \in StreamId : \A i, j \in 1 .. Len(acted[s]) : i < j => acted[s][i] < acted[s][j]

\* A keyed viewer refuses a frame the host wrote only if it has heard from a later
\* connection of the host's before: on one connection the counters arrive as they
\* were given, whoever writes, and none the answer left out comes after it
\* (writeSessionMsg under writeMu: "so counters go out in the order they are given";
\* sealInfoFor's AgentAt).
RefusedOnlyOvertaken == ~refused

\* No two viewers keyed at a time send on one stream: what the one sends would
\* be refused for what the other sent (sealInfoFor).
StreamIsOwn ==
  \A v, w \in Viewer :
    v # w /\ vpc[v] = "keyed" /\ vpc[w] = "keyed" => stream[v] # stream[w]
==============================================================================
