---------------------------- MODULE StreamDelivery ----------------------------
(***************************************************************************)
(* How a session's terminal output reaches its viewers: the host's ring of *)
(* numbered output (client/buffer.go), one reader and one sender goroutine *)
(* per connection (agent.go, runReader and runSender), and the viewer that *)
(* resumes from the last number it has (client/viewer.go).                 *)
(*                                                                         *)
(* The host has one connection to the relay, which hands what it says to   *)
(* every viewer there, and one per viewer attached on the same machine.    *)
(* Every sender waits on the same notify channel.  The relay counts its    *)
(* viewers under the room's lock and, but for a viewer that leaves, tells  *)
(* the host after letting it go.  A step is one critical section of the    *)
(* ring or the room, one channel operation or one message.                 *)
(***************************************************************************)
EXTENDS Naturals, Sequences, FiniteSets

CONSTANTS
  Viewer,
  Link,         \* the host's connections
  relay,        \* the one to the relay; the others are local attaches
  Via,          \* the link each viewer is on
  Keep,         \* chunks of output the ring holds (maxBytes)
  CursorCap,    \* the depth of cursorCh
  RestartGap,   \* how far back a number must jump to mean the host restarted
  Tallies,      \* what viewers may have counted before, from an earlier host
  MaxSeq, MaxTurns, MaxDown,   \* bounds
  None

\* A connection other than the one to the relay is a local viewer's own.
ASSUME StreamConstants ==
  /\ relay \in Link /\ Via \in [Viewer -> Link] /\ IsFiniteSet(Viewer)
  /\ \A v, w \in Viewer : Via[v] = Via[w] => v = w \/ Via[v] = relay
  /\ Tallies \subseteq Nat
  /\ Keep \in Nat \ {0} /\ CursorCap \in Nat \ {0}
  /\ None \notin Nat \cup [cursor : Nat, of : Viewer]

VARIABLES
  \* the ring: numbers of the newest and oldest entry (0: none), the resize
  \* markers among them, an append that has not notified yet, the channel
  newest, oldest, marks, appending, tick,
  \* viewerCount, as the relay last said or a resume bumped it
  viewers,
  \* a link's reader: what has been sent to it, a resume half handled, and
  \* whether its cursor found cursorCh full
  up, resuming, full,
  \* a link's sender: position, cursorCh, cursor, frames still to write
  spc, queue, cursor, batch,
  \* a viewer: attached or not, whether it thinks the host is there, lastSeq,
  \* the frames on their way to it
  vpc, live, seen, down,
  \* the count its handler at the relay has taken and not yet told the host
  telling,
  \* history: the output on its screen; the viewers whose resume made way for
  \* another or was given up; the viewers a late count of none has shut out
  shown, dropped, shutOut,
  \* bound: viewers come and connections made anew so far
  turns

ring   == <<newest, oldest, marks, appending>>
reader == <<up, resuming, full>>
sender == <<spc, queue, cursor, batch>>
screen == <<seen, shown>>
lost   == <<dropped, shutOut>>
viewer == <<vpc, live, down, telling, screen, lost>>
vars == <<ring, tick, viewers, reader, sender, viewer, turns>>

Frame(kind, n) == [kind |-> kind, seq |-> n]
\* A link's viewers, but for those that have parked their socket.
On(l) == {v \in Viewer : Via[v] = l /\ vpc[v] \notin {"away", "parked"}}

Resume(v) == [type |-> "resume", from |-> seen[v], of |-> v]
\* A count is late if it is of none and somebody has come since.
Count(n, late) == [type |-> "count", n |-> n, late |-> late]

\* the output after number n that is in or has been through the ring
Output(n) == (n + 1 .. newest) \ marks

Init ==
  /\ newest = 0 /\ oldest = 0 /\ marks = {} /\ appending = FALSE /\ tick = FALSE
  /\ viewers = 0
  /\ up = [l \in Link |-> <<>>] /\ resuming = [l \in Link |-> None]
  /\ full = [l \in Link |-> FALSE]
  /\ spc = [l \in Link |-> IF l = relay THEN "parked" ELSE "down"]
  /\ queue = [l \in Link |-> <<>>]
  /\ cursor = [l \in Link |-> 0]
  /\ batch = [l \in Link |-> <<>>]
  /\ vpc = [v \in Viewer |-> "away"] /\ live = [v \in Viewer |-> TRUE]
  /\ seen \in [Viewer -> Tallies]
  /\ down = [v \in Viewer |-> <<>>]
  /\ telling = [v \in Viewer |-> None]
  /\ shown = [v \in Viewer |-> {}] /\ dropped = {} /\ shutOut = {}
  /\ turns = 0

------------------------------------------------------------------------------
(* The ring *)

\* Eviction stops once the output fits, and leaves one entry whatever its size.
Evicted(n) ==
  LET low == IF oldest = 0 THEN n ELSE oldest
      Fits(k) == Cardinality((k .. n) \ marks) <= Keep
  IN CHOOSE k \in low .. n : Fits(k) /\ \A j \in low .. k - 1 : ~Fits(j)

\* record, append: the entry, under the lock. screenMu is held until the tick.
Record ==
  /\ ~appending /\ newest < MaxSeq
  /\ newest' = newest + 1
  /\ oldest' = Evicted(newest + 1)
  /\ appending' = TRUE
  /\ UNCHANGED <<marks, tick, viewers, reader, sender, viewer, turns>>

\* Where a sender waits on its channels: everything it read is written.
Waiting(l) == spc[l] = "writing" /\ batch[l] = <<>>

\* append: then the tick, into a channel of depth one. With none it would be
\* lost unless a sender waits just then.
Tick_Unbuffered ==
  /\ appending
  /\ appending' = FALSE
  /\ tick' = (\E l \in Link : Waiting(l))
  /\ UNCHANGED <<newest, oldest, marks, viewers, reader, sender, viewer, turns>>
Tick ==
  /\ appending
  /\ appending' = FALSE
  /\ tick' = TRUE
  /\ UNCHANGED <<newest, oldest, marks, viewers, reader, sender, viewer, turns>>

\* AppendResize: a marker takes a number and tells no one; a marker that is
\* the newest entry already is only changed.
AppendResize ==
  /\ ~appending /\ newest < MaxSeq /\ newest \notin marks
  /\ newest' = newest + 1
  /\ marks' = marks \cup {newest + 1}
  /\ oldest' = IF oldest = 0 THEN newest + 1 ELSE oldest
  /\ UNCHANGED <<appending, tick, viewers, reader, sender, viewer, turns>>

------------------------------------------------------------------------------
(* runReader: the viewer count and the resumes *)

\* The next number to send a viewer that has all through n; one from a count
\* this host never reached starts over.
CursorAfter_Unclamped(n) == n + 1
CursorAfter(n) == IF n + 1 > newest + 1 THEN 0 ELSE n + 1

\* TypeConnected and TypeClosed carry the count. A resume opens the gate
\* before its cursor is queued.
Bump_Never(n) == n
Bump(n) == IF n < 1 THEN 1 ELSE n

Receive(l) ==
  /\ up[l] # <<>> /\ resuming[l] = None
  /\ LET m == Head(up[l]) IN
     \/ /\ m.type = "count"
        /\ viewers' = m.n
        /\ shutOut' = IF m.late THEN {v \in On(l) : vpc[v] = "reading"} ELSE shutOut
        /\ UNCHANGED <<resuming, dropped>>
     \/ /\ m.type = "resume"
        /\ viewers' = Bump(viewers)
        /\ dropped' = dropped \ {m.of} /\ shutOut' = shutOut \ {m.of}
        /\ resuming' = [resuming EXCEPT ![l] = [cursor |-> CursorAfter(m.from), of |-> m.of]]
  /\ up' = [up EXCEPT ![l] = Tail(@)]
  /\ UNCHANGED <<ring, tick, full, sender, vpc, live, down, telling, screen, turns>>

\* pushCursor: the cursor goes into cursorCh if there is room.
PushCursor(l) ==
  /\ resuming[l] # None /\ ~full[l]
  /\ IF Len(queue[l]) < CursorCap
     THEN /\ queue' = [queue EXCEPT ![l] = Append(@, resuming[l])]
          /\ resuming' = [resuming EXCEPT ![l] = None]
          /\ UNCHANGED full
     ELSE /\ full' = [full EXCEPT ![l] = TRUE]
          /\ UNCHANGED <<queue, resuming>>
  /\ UNCHANGED <<ring, tick, viewers, up, spc, cursor, batch, viewer, turns>>

\* pushCursor: the oldest cursor makes room and it tries again; but if the
\* sender has emptied the channel meanwhile, it gives up.
MakeRoom(l) ==
  /\ full[l]
  /\ full' = [full EXCEPT ![l] = FALSE]
  /\ IF queue[l] # <<>>
     THEN /\ queue' = [queue EXCEPT ![l] = Tail(@)]
          /\ dropped' = dropped \cup ({Head(queue[l]).of} \ {resuming[l].of})
          /\ UNCHANGED resuming
     ELSE /\ resuming' = [resuming EXCEPT ![l] = None]
          /\ dropped' = dropped \cup {resuming[l].of}
          /\ UNCHANGED queue
  /\ UNCHANGED <<ring, tick, viewers, up, spc, cursor, batch, vpc, live, down, telling,
                 screen, shutOut, turns>>

------------------------------------------------------------------------------
(* runSender *)

\* Parked, or waiting with everything written: a resume's cursor.
TakeCursor(l) ==
  /\ spc[l] = "parked" \/ Waiting(l)
  /\ queue[l] # <<>>
  /\ cursor' = [cursor EXCEPT ![l] = Head(queue[l]).cursor]
  /\ queue' = [queue EXCEPT ![l] = Tail(@)]
  /\ spc' = [spc EXCEPT ![l] = "top"]
  /\ UNCHANGED <<ring, tick, viewers, reader, batch, viewer, turns>>

\* Waiting: the tick, which only one sender gets.
TakeTick(l) ==
  /\ Waiting(l) /\ tick
  /\ tick' = FALSE
  /\ spc' = [spc EXCEPT ![l] = "top"]
  /\ UNCHANGED <<ring, viewers, reader, queue, cursor, batch, viewer, turns>>

\* A relay nobody watches through is sent nothing: the cursor is forgotten.
\* A cursor at or below the oldest entry is owed a snapshot.
Gate(l) ==
  /\ spc[l] = "top"
  /\ LET shut == l = relay /\ viewers = 0 IN
     /\ spc' = [spc EXCEPT ![l] =
                 IF shut THEN "parked" ELSE IF cursor[l] <= oldest THEN "snapping" ELSE "reading"]
     /\ cursor' = [cursor EXCEPT ![l] = IF shut THEN 0 ELSE @]
  /\ UNCHANGED <<ring, tick, viewers, reader, queue, batch, viewer, turns>>

\* snapshotFrame, under screenMu: the screen and the number it shows all through.
Snapshot(l) ==
  /\ spc[l] = "snapping" /\ ~appending
  /\ batch' = [batch EXCEPT ![l] = <<Frame("snap", newest)>>]
  /\ spc' = [spc EXCEPT ![l] = "reading"]
  /\ UNCHANGED <<ring, tick, viewers, reader, queue, cursor, viewer, turns>>

\* From(n): a copy of the entries from number n that are still there.
Entries(first, last) ==
  [i \in 1 .. last + 1 - first |->
     Frame(IF first + i - 1 \in marks THEN "mark" ELSE "out", first + i - 1)]
From_OnePast(n) ==
  IF oldest = 0 THEN <<>> ELSE Entries(IF n > oldest THEN n ELSE oldest, newest + 1)
From(n) ==
  IF oldest = 0 THEN <<>> ELSE Entries(IF n > oldest THEN n ELSE oldest, newest)

Read(l) ==
  /\ spc[l] = "reading" /\ batch[l] = <<>>
  /\ batch' = [batch EXCEPT ![l] = From(cursor[l])]
  /\ spc' = [spc EXCEPT ![l] = "writing"]
  /\ UNCHANGED <<ring, tick, viewers, reader, queue, cursor, viewer, turns>>

\* A frame to everyone on the link. A marker has no payload: a viewer cannot
\* open it and goes on before it looks at its number.
Write(l) ==
  /\ batch[l] # <<>>
  /\ LET f == Head(batch[l]) IN
     /\ \A v \in On(l) : Len(down[v]) < MaxDown
     /\ down' = [v \in Viewer |->
          IF v \in On(l) /\ f.kind # "mark" THEN Append(down[v], f) ELSE down[v]]
     /\ cursor' = [cursor EXCEPT ![l] = f.seq + 1]
  /\ batch' = [batch EXCEPT ![l] = Tail(@)]
  /\ UNCHANGED <<ring, tick, viewers, reader, spc, queue, vpc, live, telling, screen,
                 lost, turns>>

\* The relay's connection drops and a new one takes its place: new pumps, a
\* count of zero. The viewers there hear that the host is back, and first that
\* it was gone unless the new connection superseded one the relay still had;
\* the parked ones are dropped. A count of an unparked viewer goes to the old
\* connection; one of a new viewer goes to either, or is not told at all.
Reconnect(gone, missed) ==
  LET parked == {v \in Viewer : vpc[v] = "parked"} IN
  /\ turns < MaxTurns
  /\ turns' = turns + 1
  /\ missed \subseteq {v \in On(relay) : vpc[v] = "authed" \/ (vpc[v] = "joined" /\ telling[v] # None)}
  /\ viewers' = 0
  /\ up' = [up EXCEPT ![relay] = <<>>]
  /\ resuming' = [resuming EXCEPT ![relay] = None]
  /\ full' = [full EXCEPT ![relay] = FALSE]
  /\ spc' = [spc EXCEPT ![relay] = "parked"]
  /\ queue' = [queue EXCEPT ![relay] = <<>>]
  /\ cursor' = [cursor EXCEPT ![relay] = 0]
  /\ batch' = [batch EXCEPT ![relay] = <<>>]
  /\ down' = [v \in Viewer |->
       IF v \notin On(relay) THEN down[v]
       ELSE down[v] \o (IF gone THEN <<Frame("offline", 0)>> ELSE <<>>) \o <<Frame("online", 0)>>]
  /\ vpc' = [v \in Viewer |->
       IF v \in parked THEN "away" ELSE IF v \in missed THEN "joined" ELSE vpc[v]]
  /\ telling' = [v \in Viewer |->
       IF v \in parked \cup missed \/ vpc[v] = "back" THEN None ELSE telling[v]]
  /\ UNCHANGED <<ring, tick, live, screen, lost>>

------------------------------------------------------------------------------
(* The viewer, and its handler at the relay *)

\* At the relay, authenticated: it is sent what the others are from here on.
\* On this machine: a connection of its own.
Join(v) ==
  /\ vpc[v] = "away" /\ turns < MaxTurns
  /\ turns' = turns + 1
  /\ live' = [live EXCEPT ![v] = TRUE]
  /\ IF Via[v] = relay
     THEN /\ vpc' = [vpc EXCEPT ![v] = "authed"]
          /\ UNCHANGED spc
     ELSE /\ vpc' = [vpc EXCEPT ![v] = "joined"]
          /\ spc' = [spc EXCEPT ![Via[v]] = "parked"]
  /\ UNCHANGED <<ring, tick, viewers, reader, queue, cursor, batch, down, telling, screen, lost>>

\* viewerCount, under the lock again.
CountViewers(v) ==
  /\ vpc[v] = "authed"
  /\ vpc' = [vpc EXCEPT ![v] = "joined"]
  /\ telling' = [telling EXCEPT ![v] = Cardinality(On(relay))]
  /\ UNCHANGED <<ring, tick, viewers, reader, sender, live, down, screen, lost, turns>>

\* What became of its resume matters no more.
Forget(v) == dropped' = dropped \ {v} /\ shutOut' = shutOut \ {v}

\* A viewer that turns to another session keeps its socket and is counted and
\* sent nothing; it comes back with its key.
Park(v) ==
  /\ vpc[v] = "reading" /\ Via[v] = relay
  /\ vpc' = [vpc EXCEPT ![v] = "parked"]
  /\ down' = [down EXCEPT ![v] = <<>>]
  /\ telling' = [telling EXCEPT ![v] = Cardinality(On(relay)) - 1]
  /\ Forget(v)
  /\ UNCHANGED <<ring, tick, viewers, reader, sender, live, screen, turns>>

Unpark(v) ==
  /\ vpc[v] = "parked" /\ telling[v] = None /\ turns < MaxTurns
  /\ turns' = turns + 1
  /\ vpc' = [vpc EXCEPT ![v] = "back"]
  /\ telling' = [telling EXCEPT ![v] = Cardinality(On(relay)) + 1]
  /\ UNCHANGED <<ring, tick, viewers, reader, sender, live, down, screen, lost>>

\* notifyPeer, and park: the count is told after the lock is let go.
Tell(v) ==
  /\ telling[v] # None
  /\ up' = [up EXCEPT ![relay] =
       Append(@, Count(telling[v], telling[v] = 0 /\ On(relay) # {}))]
  /\ telling' = [telling EXCEPT ![v] = None]
  /\ UNCHANGED <<ring, tick, viewers, resuming, full, sender, vpc, live, down, screen,
                 lost, turns>>

\* negotiateSessionKey reads past what is not its answer.
Discard(v) ==
  /\ vpc[v] \in {"authed", "joined"} /\ down[v] # <<>>
  /\ down' = [down EXCEPT ![v] = Tail(@)]
  /\ UNCHANGED <<ring, tick, viewers, reader, sender, vpc, live, telling, screen, lost,
                 turns>>

\* Keyed: it resumes, and only then reads. Its handler has told its count.
SendResume(v) ==
  /\ vpc[v] \in {"joined", "back"} /\ telling[v] = None
  /\ vpc' = [vpc EXCEPT ![v] = "reading"]
  /\ up' = [up EXCEPT ![Via[v]] = Append(@, Resume(v))]
  /\ UNCHANGED <<ring, tick, viewers, resuming, full, sender, live, down, telling, screen,
                 lost, turns>>

\* A number far back, or 1, is a host that restarted; one it has is skipped.
Restarted(n, cur) == n = 1 \/ n + RestartGap < cur
Accepts(n, cur) == n = 0 \/ Restarted(n, cur) \/ n > cur

\* TypeData: what it accepts it writes to the terminal. A snapshot repaints all.
Paint(v) ==
  /\ vpc[v] = "reading" /\ down[v] # <<>> /\ Head(down[v]).kind \in {"out", "snap"}
  /\ LET f == Head(down[v]) IN
     IF Accepts(f.seq, seen[v])
     THEN /\ seen' = [seen EXCEPT ![v] = IF f.seq = 0 THEN @ ELSE f.seq]
          /\ shown' = [shown EXCEPT ![v] =
               IF f.kind = "snap" THEN (1 .. f.seq) \ marks ELSE @ \cup {f.seq}]
     ELSE UNCHANGED screen
  /\ down' = [down EXCEPT ![v] = Tail(@)]
  /\ UNCHANGED <<ring, tick, viewers, reader, sender, vpc, live, telling, lost, turns>>

\* The connection is over, on the relay's side and on the host's. The relay's
\* detach counts and tells under the lock, unless the viewer was parked.
Away(v) ==
  /\ vpc' = [vpc EXCEPT ![v] = "away"]
  /\ down' = [down EXCEPT ![v] = <<>>]
  /\ Forget(v)
  /\ LET l == Via[v] IN
     IF l = relay
     THEN /\ up' = IF vpc[v] = "parked" THEN up
                   ELSE [up EXCEPT ![l] = Append(@, Count(Cardinality(On(l)) - 1, FALSE))]
          /\ UNCHANGED <<resuming, full, sender>>
     ELSE /\ up' = [up EXCEPT ![l] = <<>>]
          /\ resuming' = [resuming EXCEPT ![l] = None]
          /\ full' = [full EXCEPT ![l] = FALSE]
          /\ spc' = [spc EXCEPT ![l] = "down"]
          /\ queue' = [queue EXCEPT ![l] = <<>>]
          /\ cursor' = [cursor EXCEPT ![l] = 0]
          /\ batch' = [batch EXCEPT ![l] = <<>>]

\* TypeAgentOffline and TypeAgentOnline: back after it was gone means a new
\* key, so it reconnects; a host that only came again is sent a resume.
HostOffline(v) ==
  /\ vpc[v] = "reading" /\ down[v] # <<>> /\ Head(down[v]).kind = "offline"
  /\ live' = [live EXCEPT ![v] = FALSE]
  /\ down' = [down EXCEPT ![v] = Tail(@)]
  /\ UNCHANGED <<ring, tick, viewers, reader, sender, vpc, telling, screen, lost, turns>>

HostOnline(v) ==
  /\ vpc[v] = "reading" /\ down[v] # <<>> /\ Head(down[v]).kind = "online"
  /\ IF live[v]
     THEN /\ up' = [up EXCEPT ![Via[v]] = Append(@, Resume(v))]
          /\ down' = [down EXCEPT ![v] = Tail(@)]
          /\ UNCHANGED <<resuming, full, sender, vpc, lost>>
     ELSE Away(v)
  /\ live' = [live EXCEPT ![v] = TRUE]
  /\ UNCHANGED <<ring, tick, viewers, telling, screen, turns>>

\* The handler ends once it has said what it had to.
Leave(v) ==
  /\ vpc[v] \notin {"away", "authed"} /\ telling[v] = None
  /\ Away(v)
  /\ UNCHANGED <<ring, tick, viewers, live, telling, screen, turns>>

------------------------------------------------------------------------------
Host == Record \/ Tick \/ AppendResize

Pumps(l) ==
  \/ Receive(l) \/ PushCursor(l) \/ MakeRoom(l)
  \/ TakeCursor(l) \/ TakeTick(l) \/ Gate(l) \/ Snapshot(l) \/ Read(l) \/ Write(l)

Reads(v) == SendResume(v) \/ Paint(v) \/ HostOffline(v) \/ HostOnline(v)

Handler(v) == CountViewers(v) \/ Tell(v)

Next ==
  \/ Host
  \/ \E l \in Link : Pumps(l)
  \/ \E gone \in BOOLEAN, missed \in SUBSET Viewer : Reconnect(gone, missed)
  \/ \E v \in Viewer : Handler(v) \/ Reads(v) \/ Discard(v)
  \/ \E v \in Viewer : Join(v) \/ Park(v) \/ Unpark(v) \/ Leave(v)

Spec == Init /\ [][Next]_vars

\* Goroutines run, and the network delivers on a connection that is up. Output,
\* joining, leaving and dropping are nobody's duty.
Fairness ==
  /\ WF_vars(Tick)
  /\ \A l \in Link :
       /\ WF_vars(Receive(l) \/ PushCursor(l) \/ MakeRoom(l))
       /\ WF_vars(TakeCursor(l) \/ TakeTick(l) \/ Gate(l) \/ Snapshot(l) \/ Read(l) \/ Write(l))
  /\ \A v \in Viewer : WF_vars(Handler(v)) /\ WF_vars(Reads(v))

FairSpec == Spec /\ Fairness

------------------------------------------------------------------------------
(* Properties *)

\* Every variable has its type; no more cursors wait than cursorCh holds.
TypeOK ==
  /\ newest \in Nat /\ oldest \in 0 .. newest /\ marks \subseteq 1 .. newest
  /\ appending \in BOOLEAN /\ tick \in BOOLEAN /\ viewers \in 0 .. Cardinality(Viewer)
  /\ spc \in [Link -> {"down", "parked", "top", "snapping", "reading", "writing"}]
  /\ \A l \in Link :
       /\ Len(queue[l]) <= CursorCap
       /\ resuming[l] \in {None} \cup [cursor : Nat, of : Viewer]
       /\ full[l] \in BOOLEAN /\ (full[l] => resuming[l] # None) /\ cursor[l] \in Nat
       /\ \A i \in 1 .. Len(batch[l]) :
            batch[l][i] \in [kind : {"out", "mark", "snap"}, seq : 0 .. newest]
  /\ vpc \in [Viewer -> {"away", "authed", "joined", "parked", "back", "reading"}]
  /\ telling \in [Viewer -> {None} \cup 0 .. Cardinality(Viewer)]
  /\ dropped \subseteq Viewer /\ shutOut \subseteq Viewer
  /\ live \in [Viewer -> BOOLEAN] /\ seen \in [Viewer -> Nat]
  /\ shown \in [Viewer -> SUBSET ((1 .. newest) \ marks)]

\* A sender that waits while output it has not read is in the ring has a tick
\* coming (buffer.go, Notify: "a sender that misses a tick just loops back and
\* reads the buffer again, so no data is lost").
NoTickMissed ==
  \A l \in Link :
    Waiting(l) /\ queue[l] = <<>> /\ (cursor[l] .. newest) \ marks # {} => tick \/ appending

ResumeUnderWay(l) ==
  \/ resuming[l] # None \/ queue[l] # <<>>
  \/ \E i \in 1 .. Len(up[l]) : up[l][i].type = "resume"

\* A viewer that is reading is never left behind a parked sender, whatever
\* counts came before its resume and however often the host's connection was
\* made anew (runReader's TypeResume, runSender's gate); unless the host went by a
\* count of none that was taken before the viewer came and told after its resume
\* (server.go, park).
NoViewerStranded ==
  \A v \in Viewer :
    vpc[v] = "reading" /\ down[v] = <<>> /\ spc[Via[v]] = "parked" =>
      ResumeUnderWay(Via[v]) \/ v \in shutOut

\* By number, a viewer has everything up to the newest output.
CaughtUp(v) == Output(0) = {} \/ (seen[v] <= newest /\ Output(seen[v]) = {})

\* Nothing here counts as near it; or it counts nothing.
Tells(n) == n = 0 \/ n > MaxSeq + RestartGap

\* A viewer that stays comes to the newest output, from wherever it resumed,
\* if it came with no count or with one that no number of this host is near
\* (NotFilteredAfterRestart has the others), unless the host let go of its
\* resume: for another's or given up, or for a late count (runSender,
\* TypeResume, pushCursor).
CatchesUp(v) ==
  Tells(seen[v]) =>
    (vpc[v] = "reading" ~> (vpc[v] # "reading" \/ CaughtUp(v) \/ v \in dropped \cup shutOut))

\* Nothing is under way to the viewer, and its sender waits with all sent.
Settled(v) ==
  LET l == Via[v] IN
  /\ vpc[v] = "reading" /\ down[v] = <<>> /\ up[l] = <<>>
  /\ ~ResumeUnderWay(l) /\ Waiting(l) /\ Output(cursor[l] - 1) = {}

\* A viewer that has been sent everything counts this host's output, not an
\* earlier one's (viewer.go, on a number that goes backward: "reset our
\* high-water mark so we don't silently filter the new stream forever";
\* agent.go, TypeResume: "so the viewer sees all our new output instead of being
\* silently filtered").
NotFilteredAfterRestart ==
  \A v \in Viewer : Settled(v) /\ Output(0) # {} => seen[v] <= newest

\* Once it has caught up, no output is missing from a viewer's screen (agent.go,
\* record: a snapshot is "tagged with that seq without duplicating or dropping a
\* chunk on the joiner"; buffer.go: "a reconnecting viewer can replay everything").
NothingMissed ==
  \A v \in Viewer : Settled(v) => Output(0) \subseteq shown[v]
==============================================================================
