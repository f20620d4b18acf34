# Reminal in TLA+

Reminal shares a terminal: an *agent* on the host runs a shell in a pty and
connects out to a *relay*; *viewers* (the Go client, the browser) connect to the
same relay room, or straight to the host from the same machine. Everything
between agent and viewer is end-to-end encrypted. These modules model the parts
of the Go code where several goroutines, connections or processes have to agree;
TLC checks them on small instances and TLAPS proves what matters most for every
instance. Every definition is translated from the source; `PROJECT.json` ("map")
names the lines each stands for.

    tlc -workers 2 -config RelayRoomSession.cfg MCRelayRoom.tla
    tlapm RelayRoomProofs.tla

## The system and its components

| component | state | operations, interactions | what is hard | what makes it correct | module |
|---|---|---|---|---|---|
| **Relay session room** (`internal/relay/server.go`) | `Server.rooms`, `owners`; a room's `agent`, `pending`, `viewers`, `token`, `pinHash`, `ownerHash`, `cleanup` | attach, authenticate, supersede, park/unpark, presence and viewer counts to peers, detach, expiry, reservation; forward; legacy join | one goroutine per connection and per timer, two levels of locks, writes after unlocking | a session ID stays its agent's; the agent is never locked out; rooms are cleared; parked sockets never meet another key | `RelayRoom` |
| Relay pacing (`handshakelimit.go`) | token buckets | take, refund | borrowing against late proof | nobody is starved by one source | planned |
| Relay rendezvous (`relay/rendezvous.go`, `client/copypaste.go`) | one room per code | source, paste, close | a leaving source against a pairing paste | one transfer per code | planned |
| **Terminal stream delivery** (`client/buffer.go`, `agent.go`, `viewer.go`, `attach.go`) | the ring, its notification, per-connection cursor and cursor channel, viewer count; the viewer's `lastSeq` | record, resize, resume, gate, snapshot, send; join, resume, paint, reconnect | several senders on one notification, resumes against live frames, eviction, reconnects | a viewer that stays catches up; no sender sleeps on output | `StreamDelivery` |
| Paced snapshots (`snapshot_parts.go`) | joiners and transfers shared by the senders | offer, ack, next part | parts interleaved with live output | history complete and before what follows | planned |
| **Sealed frames** (`sealedframes.go`, `sealedviewer.go`, `crypto/frames.go`) | streams issued, last counter of each, LRU; the outgoing counter; the viewer's counters | issue at a handshake, check-open-check, counter under the write lock | readers of an old and a new connection, replays, a bounded memory | each frame acted on once, in order; none refused wrongly | `SealedFrames` |
| Sealed memory (`sealedmemory.go`) | which machines seal, in a file | note, ask | file I/O | no downgrade of a machine known to seal | not modelled: small, sequential |
| Handshake throttle (`agent.go`, `handshake.go`) | bucket, per-source shares and debts | allowKexFrom, markProvenSource | late proofs | a prover is not starved | planned |
| **At-rest key store** (`internal/atrest`) | a key in the OS keystore or a file, `atrest.json`, two file locks; each process's memory of keys | seal, open, mint, adopt, fall back, promote, heal, repair | several processes, crashes between steps, a keystore that answers late or not | one key, held where it is named; none overwritten; none called gone that is held | `AtRestKeys`, refining `OneKey` |
| **Saved session records** (`session/restore.go`, `client/restore*.go`) | one sealed record per session, plain ones from before; the record's lock, the live lock | save, migrate, read, claim, restore, forget | agents, daemon and commands on the same files; deaths between two writes | a record is not lost before its session ends nor back after; which agent serves | `SavedSessions` |
| Atomic file writes (`atomicfile`) | - | write, rename | crash | old or new, whole | assumed by its users |
| **Session registry**, hook state (`session/active.go`, `hookstate.go`) | a file per running session | register, clear, is it running | stale files of dead processes | lists what runs | its record in `SavedSessions`; hook state not modelled |
| **Sleep and wake** (`client/sleep.go`, `session/sleep.go`) | a sleeping session's marks | sleep, wake, end a sleeper | two wakers, wakers that die, an end against a wake | awake sessions are not marked asleep; an end and a marked wake are ordered by the record's lock | `SavedSessions` |
| Cloudflare relay (`cloudflare/src`) | the room as a Durable Object, socket attachments | the relay's operations, one event at a time | forgotten on eviction, alarms | as the relay room | planned, beside `RelayRoom` |
| Tunnel (`client/tunnel.go`) | open requests, gate | request, chunks, cancel | late chunks, flow control | a response goes to its request | planned |
| Machine channel, host election (`directoryhost.go`, `dirhostlock*.go`, `machineagent.go`) | a lock file | acquire, hand over, answer | upgrade hands the lock to another process | one host per machine | planned |
| Ownership and trust (`owners.go`, `revoked.go`, `machinetrust.go`, ...) | lists of keys in files | pair, revoke, check | lost updates | revoked stays revoked | not modelled: cryptography and whole-file lists |
| Upgrade, hot restart (`updater`, `upgraderun.go`, `restart_unix.go`) | the binary, inherited descriptors | download, check, exec, hand on | crash between steps; numbering across exec | the session survives | planned in part |
| Window size negotiation (`viewersize.go`, `resize_anchor.go`) | sizes per viewer | report, leave, pick | departed viewers | smallest of those present | candidate |
| Window mirroring (`windows.go`, `webrtc.go`, native capture) | capture sessions | start, stop, signal | the OS and WebRTC | - | not modelled: outside this code |
| Attention and push (`attention_probe.go`, `push*.go`) | subscriptions | probe, send | HTTP | - | not modelled: heuristics |
| Notes (`notes*.go`) | documents | read, write | two writers | no lost update | not read closely yet |
| Terminal emulation, pty (`internal/pty`, vendored emulator) | screen, modes | parse, resize | data | - | not modelled: data |
| Web client (`web/app.js`) | as the Go viewer | as the Go viewer | as the Go viewer | as the Go viewer | not modelled |
| Protocol messages (`protocol/messages.go`) | - | declarations | - | - | named where used |
| Command line, service, editor extension | - | front ends | - | - | not modelled |
| Site, scripts, tooling | - | - | - | - | not part of the running system |

How they meet: the relay room tells the agent a viewer count (TypeConnected,
TypeClosed) and each viewer whether the agent is here. The count opens and shuts
the gate of the stream's sender; presence makes a viewer resume or reconnect. A
handshake after joining gives the viewer its key and its sealed stream; terminal
frames and resumes then travel sealed. The hazards of each part, at their lines,
are in `PROJECT.json` ("hazards") with the properties that answer them.

## RelayRoom: a session ID on the self-hosted relay

One session ID, any number of connections, rooms and timers. A connection's
handler goroutine is a program counter (`pc`), the room it took from the map
(`ref`) and what it has read under a lock and not yet written (`counted`,
`target`, `todo`). One action is one critical section or one write.

| code | actions |
|---|---|
| `attach` | `AttachLookup` (s.mu), `AttachAdd` (r.mu) |
| `handleSessionConn`, `handleAuthLocked`, `superseded` | `ReadAuth`, `AuthAgent`, `AuthViewer`, `AuthRefused` with `Proves`, `Register`, `Supersede`, `DropParked` |
| the writes after unlocking | `Greet`, `CountViewers`, `NotifyAgent`, `Announce`, `TellOnline` |
| `park` | `Park`, `Unpark`, `TellCount` |
| read errors, deadlines, bail | `HangUp`, `Bail` |
| `detach` | `DetachPending`, `DetachAgent`, `DetachViewer`, then `DropEmpty` |
| `expireRoom`, `keepOwnerLocked` | `TimerFires`, `ExpireRoom`, `ExpireClear`, `OwnerLapses` |

A detached or removed room lives on while a handler or timer holds it, so an
agent may still authenticate in a room that has left the map. A timer that has
fired is not stopped by `Stop`, and `expireRoom` does not ask whether it is the
room's current timer; both are as in the code. An agent process has a token and
a pin_hash of its own, and `Presents` says which of the two each connection
sends, so that the move from the one to the other (an upgrade) is covered.
`Park` needs a room in the map but not membership: the message may have been
read before the socket was dropped. History variables record who holds the ID
(`claim`), the agent a viewer parked under, and whether an ID was ever let go
unreserved (`lost`).

Left out: `forward`, the legacy join, the pace of `takePark` (it may refuse at
any time), pings and push. Locks are taken in the order s.mu, r.mu throughout,
so the actions need not model waiting for them.

### Runs

| run | instance | shows |
|---|---|---|
| `RelayRoomSession` | holder's connection (both credentials, or only the pin_hash) and a stranger's, no viewer, two rooms, two timers | `AgentIsHolder`, `HolderKeepsSession`, `HolderGetsIn`, `NoLeakedRoom` |
| `RelayRoomViewers` | two connections of the session's own agent with one token, so that each takes the other's place, one viewer, one room, two timers | `TypeOK`, `ParkedUnderThisAgent` |
| `RelayRoomLost` | both agents, a viewer, two rooms, one timer | `ClearedRoomReserved` **violated** (finding 1) |
| `RelayRoomPresence` | two connections of one agent and a viewer | `PresenceSettles` **violated** (finding 2) |

Bounds: connections, rooms and timers are reused once nothing in memory names
the old ones (`Fresh`, `Garbage`, `Idle`), so two agent connections stand for any
number in succession, with two at once; two rooms give the room in the map and
one still in hand, and two timers the current one and one that fired late. `VIEW`
drops what no step reads (a garbage room's fields, what a gone connection was
told); `RelayRoomViewers` also drops what peers were last told, which no step reads.
`SYMMETRY` permutes rooms and timers only.

No liveness is claimed of the room. That a room without an agent is cleared in the
end would need an unauthenticated connection to be dropped after `authWait`, and
the deadline is set again at each frame that is not JSON (`server.go:206-221`): such
a connection may stay for as long as it goes on sending. `NoLeakedRoom` is the part
that holds without it: somebody is always left whose end clears the room.

## StreamDelivery: output from the ring to the screens

The ring (`newest`, `oldest`, resize `marks`) and its notification of depth one;
per connection of the host a reader (`Receive`, `PushCursor`, `MakeRoom`:
`runReader`, `pushCursor`) and a sender (`TakeCursor`, `TakeTick`, `Gate`, `Snapshot`,
`Read`, `Write`: `runSender`, `snapshotFrame`, `From`); viewers that join, wait for
their key, resume and paint (`viewer.go`); and their handlers at the relay, which
count the viewers under the room's lock (`CountViewers`, `Park`, `Unpark`) and tell the
host after it (`Tell`). Only a departure is counted and told under the lock (`Away`).
`append` and its tick are two steps (`Record`, `Tick`), and so are `pushCursor`'s try
and its making room. A viewer may come with a count from an earlier host process
(`Tallies`). A local attach has a connection, and so a sender, of its own.

What is abstract: a chunk is its number and the ring holds `Keep` of them; a
resize marker takes a number and no room, and reaches no viewer, for its frame
has no payload to open. A viewer is modelled from its authentication on.
`Reconnect` replaces the pumps in one step; the counts then under way go to the old
connection, to the new or to neither. The frames a handler still had in hand are the
affair of `SealedFrames`. Parking is the browser's (`web/app.js`); the Go viewer never
parks. Snapshots go whole (the code's parts are planned), the handshake is one wait,
and legacy frames are absent.

The host may let go of a resume in three ways, which the history variables record.
Another's may take its place in a full `cursorCh`, or it may be given up when the
sender empties the channel between the try and the making room (`dropped`). Or a
count of none, taken before the viewer came and told after its resume, may shut the
gate and make the sender forget its cursor (`shutOut`): `park` counts at
`server.go:809` and writes at 813. `NoViewerStranded` excepts `shutOut` only, and
`FirstCatchesUp` both.

| run | instance | shows |
|---|---|---|
| `StreamLive` | two remote viewers with a far count; ring of 1, cursor channel of 1, restart gap 1, 2 numbers, 2 turns | `TypeOK`, `NoTickMissed`, `NoViewerStranded`, `FirstCatchesUp` |
| `StreamTick` | one remote viewer, one local | `NoTickMissed` **violated** (finding 3) |
| `StreamMissed` | one viewer, joining a running session | `NothingMissed` **violated** (finding 4) |
| `StreamRestart` | one viewer that counts just past this host's numbers, the code's gap of 32 | `NotFilteredAfterRestart` **violated** (finding 5) |

Bounds: a turn is a join, an unpark or a reconnect; `MaxSeq` 2 exceeds the ring of 1,
so output is evicted; `CursorCap` 1 makes `pushCursor` make room; `MaxDown` 1 makes a
writer wait for a slow viewer. With two turns the exception of `shutOut` is needed
and that of `dropped` is not: to lose a resume to another's takes a third. The far
count is one this host's numbers never come near (`Tells`), which `CatchesUp` asks
for; `StreamRestart` is about the others. Viewers on one link are alike, so
`FirstCatchesUp` asks one of them. The counters are bounded, so the system stops when
they are used up and these configurations do not check deadlock. Fairness: every
goroutine keeps running (`WF` on the tick, and on each reader, sender, viewer loop and
relay handler); output, joining, leaving, parking, dropping and the code's
discarding of frames before the key are not owed.

## SealedFrames: once and in order

`Issue`, `ReadCounter`, `WriteAnswer` are `sealInfoFor` and the reply: the stream
under seal.mu, the counter under writeMu, then the write, each a step. `Check`
and `Admit` are `openSealed`: the check, the opening outside the lock, the check
again. `BeginWrite`/`FinishWrite` are `writeSessionMsg` (counter and write under
one lock). `Hello`, `Key`, `Send`, `Receive` are the viewer's seal. Viewers'
frames, once written, may reach any reader at any time and any number of times.

What the host writes to a local attach arrives in order. What it writes to the relay
goes through that connection's handler (`pipe`, `carrying`): `Forward` takes the next
message and, under r.mu, copies who is to get it; `Deliver` writes it to them after
the lock is let go, one by one in any order. A connection that takes another's place
(`Reconnect`) has a handler of its own, while the old one may still be at its
last message, so a viewer may get an older frame after a newer one. It then drops the
older (`viewerSeal.in`), and `RefusedOnlyOvertaken` says it drops nothing else. Output
is not lost by it: the viewer resumes when the host is announced.

The cryptography is one rule: a frame opens only if the other side sealed it. The
earlier unsealed form and the retry of a busy handshake are not here.

`SealedFrames.cfg`: two viewers at the relay, two connections of the host one after the
other (`MaxConn`), two readers (of the connection and of the one it replaced), two
writers, a memory of one stream (`MaxKnown`), two handshakes, two frames each way,
one in flight. It checks `TypeOK`, `AcceptedInOrder`, `RefusedOnlyOvertaken` and
`StreamIsOwn`. A memory of one with two handshakes makes forgetting happen; two
readers suffice for a frame to be opened twice at once; two writers, for two counters
to be taken in one order and written in another; two connections, for one handler to
be overtaken by the next. `AcceptedInOrder` is about every counter acted on, one after
the other (`acted`), so that the same one twice in a row breaks it too.

## AtRestKeys: one key for what is kept on disk

The processes of one login share `~/.reminal`. The key that seals what is kept
there is in the OS keystore (`main`: the slot of this home) or in `atrest.key`
(`file`); `atrest.json` (`meta`) names the store and the key. While a keystore
does not answer, blobs are sealed under a key of the file, which is moved later
into a keystore slot of its own (`byId`). A process does one thing at a time
(`keyMu`), keeps every key it has seen (`mem`) and knows which it seals with
(`cur`). One action is one look at a store, one write, or one lock taken or given
up on; what a process read and has yet to act on is in `seen` and `key`.

| code | actions |
|---|---|
| `sealingKey`, `confirmCurrent` | `SealBegin`, `Confirm`, `Ask`, `Minted`, ending in `Seal` |
| `fileFallback` | `FallbackRead`, `FallbackMake`, `FallbackTimeout` |
| `healCurrent`, `RestoreKey` | `Repair`, `HealLock`, `HealTimeout`, `Heal` |
| `mint`, `promoteFileKey` | `MintLock`, `MintTimeout`, `MintNamed`, `MintOS`, `MintFile`, `MintMove`, `MintPut`, `MintPutFile`, `Name`, `NameMoved`, `Unfile` |
| `promoteFileMeta` | `PromoteLock`, `PromoteTimeout`, `PromotePut`, `NameMoved`, `Unfile` |
| `promoteFallback`, `notePromoted` | `MoveLock`, `MovePut`, `Note`, `NoteWrite`, `Moved` |
| `openingKey` | `OpenBegin`, `OpenAsk`, `NotFound` (`CallsGone`: with ErrKeyGone) |
| death of a process; a key deleted from outside | `Crash`, `Lose` |

`Heal` writes into the store `atrest.json` names once its lock is held; what is sealed
then still names the store read before it (`sealingKey` keeps the first reading).

A keystore may fail to answer whenever it is asked (`Answers`), and a write to it
may fail, or succeed and not be seen to (`Put`). `confirmEvery` and the back-off
list are that same choice. A host says whether every login has a keystore
(`hasDesktopKeystore`), which processes reach one, and which stores may lose their
key. A key the program itself removes with the file (observation 7 below) is
counted as `lost` too, so every promise is "unless lost".

Left out: a damaged `atrest.json`, an unreadable key file, `REMINAL_KEYSTORE=file`,
the account names, and the quarantine of what does not open.

`OneKey` is the abstract specification: one key is chosen, what the keystore is to
open is sealed under the chosen key, and another is chosen only once the first was
taken from outside, with what it had sealed. `AgreeOnOneKey` is the refinement,
with `chosen` the key named unless lost, and `under` the keys of the blobs whose
header names the keystore, unless lost.

| run | instance | shows |
|---|---|---|
| `AtRestKeys` | two processes, two keys, one loss; a desktop, or a machine where one process reaches the keyring | `TypeOK`, `NamedKeyHeld`, `GoneOnlyWhenGone`, `NothingOverwritten`, `AgreeOnOneKey` |

Bounds: two processes suffice for every race over two locks; two keys give the
named key and a fallback key, or a key and its replacement; one loss makes each
repair happen. A key once made is not made again, so the keys bound what can be
minted. `VIEW` drops what a process no longer reads; `SYMMETRY` permutes keys.

## SavedSessions: a session that can come back

One session: its sealed record and a plain one of an older version (`sealed`,
`plain`), its sleep marks (`asleep`, `waking`), the registry's record (`active`),
the record's lock (`lock`), and the lock its agent holds while it runs, a file at
a path (`path`) that processes open (`fd`), lock (`holds`) and remove. Agents serve
it; doers (the daemon at its start or acting for a viewer, commands) restore, wake
and end it.

| code | actions |
|---|---|
| `saveRestore`, `WriteRestore` | `SaveBegin`, `SaveWrite`, `SaveDone` |
| `ReadRestore`, `readLegacyRestore` | `Read` (in `Load`, `StartBegin`, `WakeBegin`), `MigrateLock`, `Migrate`, `Migrated` |
| `clearRestoreIf` | `ClearLock`, `Clear` |
| `claimForRestore`, `holdLive`, `LoadRestoreState`, `recordActive`, `markAwake` | `Open`, `OpenFails`, `Claim`, `Load`, `Record`, `Rerecord`, `Up` |
| `sleepNow`, `goToSleep`, control "sleep" | `SleepBegin`, `SleepMark`, `SleepGo` |
| `pause`; the end of `Run`, `settleRestore`, `releaseLive` | `Pause`; `Ends`, `Leave`, `Settle`, `Release`, `Unlock` |
| `restoreAtStart`, `Restorable`, `runningElsewhere` | `StartBegin`, `Listed`, `Probe`, `Probed`, `Spawn`, `Reports` |
| `sleepAct`, `WakeSession`, `BeginWake` | `WakeBegin`, `Listed`, `BeginWake`, `Spawn`, `Reports`, `Probe`, `Probed`, `Awake`, `Unwake` |
| `killLocalSession`, `terminateAgent`, `ForgetSleeper` | `KillBegin`, `TerminateBegin`, `ClearNow`, `Unlist`, `ForgetAsleep` |
| deaths; `wakeRetryWithin` passing | `Crash`, `Stops`, `Ages` |

What is one step though the code makes several calls: seal and write under the
lock; the removals of `clearRestoreIf`, and of `ClearAsleep`; the check and the mark
of `BeginWake`, both under the lock. `ReadRestore`'s record is there or not; what it
says, the scrollback, the conversation files, the awake pin, a registry record that
cannot be read, hot restart and an agent started without restoring are left out.

| run | instance | shows |
|---|---|---|
| `SavedSessions` | two agents, two other processes, five lock files that may be impossible to open; three things asked for, one fault | `TypeOK`, `SavedNotLost`, `UpIsAwake`, `EndedStaysEnded`, `EndNeverCrossesWake` |
| `SavedTwice` | the same, lock files that always open | `OneServes` **violated** (finding 6) |

Where the code carries on, so does the model: an agent that cannot open the live
lock's file goes on without it and tries again later (`restoreguard.go:104-112`,
`agent.go:898`); `terminateAgent` forgets the record whether or not the agent went
(`main.go:2646-2651`); `ClearRestore` goes on without the record's lock. Any number of
saves may wait for restoreMu: before a pause one that waits is as one not begun, and
`paused = "saving"` are those that had passed their look at it when the agent paused.

`EndedStaysEnded` says who may write a forgotten record again: one of `late`, which
holds those who could still write it when it was forgotten. They are an unsettled
agent with a save begun, waiting or to come, an agent that had read the record and
was restoring, and a process already sealing a plain one when `ClearRestore` went on
without the lock. A settled agent, and a process that only read the record, are not
among them: `settleRestore` waits for the save under way (the mutant leaves the
wait out), and a migration reads the plain record again under the lock
(`MigrateLock_NotReread` breaks it too).

Bounds: `MaxDone` bounds what is begun (a sleep, a pause, a start, a wake, an end),
`MaxFaults` what fails (a death, a lock file that cannot be opened); three and one are a
sleep, a wake, and a second wake or an end, with a fault between any two steps. Nothing
is begun after the session is forgotten, since it then has no record to act on; what
is under way goes on. Five files: each of four processes has one open and one is at the
path. The session may be over, so deadlock is not checked. Agents and doers are
symmetric, and `VIEW` drops what no later step can tell apart.

## What the runs found

1. **A cleared ID can go unreserved** (`server.go:675`). `expireRoom` empties the
   room under r.mu, lets it go, and removes and reserves under s.mu. A `detach`
   between the two removes the empty room first; `expireRoom` then finds it gone
   and reserves nothing, against the comment at `server.go:409`.
2. **A greeting can overtake the news** (`server.go:279`). Presence is read under
   the lock and told after it; an agent that leaves in between is announced
   offline before the greeting says connected.
3. **A tick shared by senders can be missed** (`buffer.go:72`). One notification of
   depth one serves every sender: the one that takes it leaves another asleep on
   output until more comes, against the comment at `buffer.go:158`.
4. **A joiner can drop its own snapshot** (`viewer.go:950`). A live frame between
   key and resume raises `lastSeq`, and the snapshot, if at most 32 behind, is
   skipped as seen.
5. **A restarted host can be filtered** (`viewer.go:943`). A viewer takes a number for
   a new host's if it is 1 or more than 32 below its own. A count at most 32 past the
   new numbering is neither, and all it is sent is skipped as seen, against the
   comments at `agent.go:3538` and `viewer.go:938`.
6. **Two agents can serve one session** (`restoreguard.go:66`). `releaseLive` removes the
   lock's file and then unlocks it. An agent that had opened the file locks it then,
   without a name; another finds no file and locks a new one; neither is in the
   registry yet when the other looks. The comments at `restoreguard.go:16` and 55-57 say
   otherwise. Where the file cannot be opened an agent goes on without the lock, by
   design ("best effort", `agent.go:897`); the run leaves that out.

Met while modelling. The first three contradict no document that promises otherwise;
the last three do, and the properties state what holds with the exception named:

7. `promoteFileMeta` and `promoteFileKey` remove `atrest.key` under `atrest.lock`
   (`atrest.go:505`, `554`) whatever it holds; a fallback key put there meanwhile
   under `atrest-file.lock` goes with it. `Unfile` counts it as `lost`.
8. `ErrCurrentKeyMissing` wraps `ErrLocked` (`heal.go:29`), so a `sealingKey` whose
   `mint` finds the named key missing falls back to the key file
   (`atrest.go:334`) where it otherwise refuses to save.
9. A keyed viewer may drop a frame of the host's old connection that a handler of the
   relay writes after one of the new (`server.go:736`).
10. A kill from a viewer (`directoryhost.go:377`), `terminateAgent` when it is refused
   (`main.go:2646`) and a pause (`agent.go:2369`) forget the record while the agent may
   be past the checks of a save, or waiting for restoreMu, and the save then writes it
   back. Their comments say without qualification "killed on purpose: never to be
   restored" and "stopped on purpose: not to come back"; `EndedStaysEnded` excepts those
   writers (`late`).
11. A wake that fails removes the mark of any wake under way (`ClearWaking`), and one
   that could not have the record's lock goes on unmarked (`client/sleep.go:454`):
   `EndNeverCrossesWake` is about wakes whose mark stands, though `session/sleep.go:83`
   says "so a wake and an end never cross".
12. A count of none, taken by `park` before a viewer came and told after its resume,
   makes the sender forget that resume and park (`server.go:809`, `agent.go:3798`), until
   a viewer resumes again; the agent's comment (`agent.go:3551`) has the next count
   exact. `NoViewerStranded` excepts it (`shutOut`).

`HolderGetsIn` and `HolderKeepsSession` are stated under `~lost`: the promise
holds until finding 1 happens, and only its reservation's loss breaks it.

## What is proved

`RelayRoomProofs` proves, for any connections, processes, rooms and timers, from
`RelayConstants` alone:

- `Types`: `Spec => []TypeOK`. `TypeOK` is made inductive by `InHand`: a handler or
  timer past the map has a room in hand.
- `AgentHoldsSession`, `HolderIsAdmitted`, `SessionStaysWithItsAgent`: the session
  invariants. `AgentIsHolder` is not inductive, since a step decides by the
  credentials stored in the room, by the reservation the room was made with, and
  by the reservation the server keeps. `SessionInv` ties these to `claim`: a
  room's agent is the process behind the room's credential; the holder is the
  process behind the credential of the room in the map, or, in a fresh room or
  without one, has the reservation (unless the ID was let go unreserved); and a
  timer about to clear a room carries the credential registered there, whatever
  became of the room meanwhile. The proof has a lemma per action that touches these (authenticate,
  attach, expire, drop, lapse) and one for all the others.

`RelayRoomUpkeepProofs` goes on from there, with the same invariant:

- `NoRoomIsLeaked`: `Spec => []NoLeakedRoom`. `NoLeakedRoom` asks for a connection
  that waits in the room *and* a handler that still serves it; a socket nobody
  reads would keep the room for ever. Two ways lead into a room without an agent.
  In a room an agent authenticated in, its leaving set the timer (`Expires`), which
  is this room's alone (`OwnTimer`: a timer is armed again only once no room in
  memory names it); `Proven` says only such a room has viewers or a timer. In a room
  nobody authenticated in, somebody waits, is on the way in, or sweeps (`Swept`); and
  whoever waits there is served (`Served`).
- `ParkedViewerKeepsItsAgent`: `Spec => []ParkedUnderThisAgent`, from the types and
  the step: who takes the agent's slot with another key drops the parked first.

`SealedFramesProofs` proves, from `SealConstants`, for any streams, readers, writers
and viewers:

- `TypesAndBound`: `Spec => []TypeOK`. That the memory keeps its bound is the one part
  that is about finite sets: `LeastNumber` shows the oldest stream exists and that
  forgetting it makes room.
- `FramesOnceInOrder`: `Spec => []AcceptedInOrder`: the counters acted on, on a stream,
  increase from the first to the last. On a remembered stream the last counter is the
  highest acted on, and nothing was acted on, on a stream not yet issued. So a stream
  forgotten stays forgotten, and the second check under the lock suffices whoever
  opened the frame meanwhile.
- `OnlyTheOvertakenIsRefused`: `Spec => []RefusedOnlyOvertaken`. A viewer is keyed from
  the counter its answer carries, which was read before the answer was written, and
  takes frames above it only. `OneWriter`: who has a counter in hand has the lock, and
  it is the last one given. `Routed` says what each stretch of the way holds: what is
  in a handler's hand or on its way to a viewer over a connection was written to that
  connection. `Numbered` and `InOrder`: along one connection, from the writer through
  the pipe and the handler to the viewer, counters increase and an answer's is at most
  that of the frames behind it (`Coming`, `Ahead`, lemma `WayStep`). `Expected`: what is
  on its way to a keyed viewer from the newest connection it has heard from, or a
  newer one, is above what it last took.
- `EachHasItsOwnStream`: `Spec => []StreamIsOwn`. A stream is claimed by a handshake
  in hand, by an answer on its way, and by the viewer keyed with it; `OneClaim` says
  all its claims are one viewer's, and only `Issue` makes a claim.

`StreamDeliveryProofs` proves, from `StreamConstants` (finitely many viewers; each link
that is not the relay's is one viewer's own; counts are numbers):

- `Types`: `Spec => []TypeOK`, with the ring's own invariant: there is always an entry
  to evict when there is no room for one (`EvictedInRing`), so that `Evicted` means
  something.
- `LoneSenderIsTold`: `Spec => []NoTickMissed` where the only link is the relay's. The
  hypothesis is the finding: `StreamTick` shows a second link breaking it. `Ticked`:
  a sender that has read the ring and is writing has read all of it, or a tick is
  there or about to be; and it never reads from nothing.
- `NobodyIsStranded`: `Spec => []NoViewerStranded`, for any viewers, links, and counts told
  in any order; a count that shuts the gate on a reader is late, and puts it in
  `shutOut`. `Served`
  says how: a viewer at the relay that has not been told of a new connection has its
  resume on the way with nothing behind it that shuts the gate (`Asks`), or the gate
  is open and the sender at work or about to be (`Open`); a local viewer's gate never
  shuts, since only the relay counts (`RelayCounts`).

`AtRestKeysProofs` proves, for any processes, keys, machines and losses, from
`KeyConstants`:

- `Types`: `Spec => []TypeOK`, with `AboutOK`: a process that acts on an
  `atrest.json` it read, or on a key, has one.
- `NothingOverwrittenHolds`. Two writes do not look first (`MintPut`, `MintMove`);
  `LockInv` says that who is there holds `atrest.lock` and that the keystore's slot,
  which only its holder writes, was seen to be empty.
- `NamedKeyHeldHolds`. The name and the store are written apart, by several
  processes; `NameInv` says what each process in the middle knows. `StageInv`: what
  is being made is made while there is no `atrest.json`, and what is moved is moved
  once the keystore has the named key for good. `ReadInv`: what was read is true
  still, as far as it is acted on (in particular a key of the keystore, once named,
  is named for ever, and no key of the keystore is ever adopted in its place).
  `PlaceInv`: the key about to be named is in place. `SealedInv`: what the keystore
  is to open is sealed under the named key.
- `AgreeOnOneKeyHolds`: the refinement, `Init` to `Init` and each step to a step of
  `OneKey` or a stutter. `KeepsStep` says what a step may change of the name.

`AtRestSearchProofs` proves `NoKeyIsCalledGone`: `Spec => []GoneOnlyWhenGone`. A search
looks at one store after another while other processes move keys between them, so
what it found out must stay true. `Forward` is the reason, as a property of every
step: a store comes to hold a key blobs are sealed under only from a store the search
asks before it, or where the key was lost before. That rests on `MadeInv` (a key just
made is no blob's yet), `FileInv` (until `atrest.json` names a key of the keystore, all
blobs' keys are the file's, unless lost), and `MoveInv` (a key on its way to a slot of
its own is still in the file, or in the keystore). `SeenInv` and `HomeStays` cover the
process that reaches no keystore: it calls a key gone only where the file is the one
store that counts. `SearchInv` then says, for each state of the search, which stores do
not hold the key.

`SavedSessionsProofs` proves, for any agents, doers, lock files and bounds, from
`SessionConstants`: `Types` (with `ClearsFor`: who forgets the record knows why), and
one theorem per property of the passing run, each from an invariant of its own.
`KeptInv`: a migration that drops the plain record has the sealed one. `OverInv`: once
the session is forgotten, whoever has a save or a migration past its checks is one of
`late`; `WhoWrites` names the steps that write a record. `AwakeInv`: an asleep mark has
the sleep that made it. `CrossInv` with `LockInv`: who forgets a sleeper has the
record's lock, and no marked wake began since it looked.

Every invariant and action property of the passing runs is thus proved, `NoTickMissed`
for one connection. Each inductive invariant was checked by TLC on the runs' instances
before it was proved. Model-checked only: liveness (`FirstCatchesUp`), which is beyond
the prover.

## Plan

1. Proofs: an abstract "session ID with one holder" that `RelayRoom` implements, and an
   abstract in-order stream that `SealedFrames` does; `SavedSessions` as one session
   that is up, asleep or over.
2. `SealedFrames` with the earlier form and its grace (`legacyWanted`,
   `lastViewerLeft`); the handshake throttle and its debts.
3. `RelayRoom` with `forward` and the legacy join, and the hosted relay as a second
   implementation of one abstract "session ID with one holder".
4. `StreamDelivery` with paced snapshots, refining the whole snapshot.
5. The rendezvous, the tunnel's requests, the host election lock, the records of
   hot restart.
