------------------------------ MODULE AtRestKeys ------------------------------
(***************************************************************************)
(* The key that seals what reminal keeps on disk (internal/atrest): where  *)
(* it is made, moved, found again and put back by the processes that share *)
(* one ~/.reminal.                                                         *)
(*                                                                         *)
(* The key is kept in the OS keystore, or in atrest.key where there is     *)
(* none; atrest.json names it.  While the keystore does not answer, blobs  *)
(* are sealed under a key of the file, moved into a keystore slot of its   *)
(* own later.  A process does one thing at a time (keyMu) and keeps every  *)
(* key it has seen; a step is one look at a store, one write or one lock.  *)
(***************************************************************************)
EXTENDS Naturals, Sequences, FiniteSets

CONSTANTS
  Process,
  Key,
  Host,       \* the machines: whether every login has a keystore (desktop), which
              \* processes can reach one (elsewhere it takes a session bus), and
              \* which stores may lose their key to something outside
  MaxLosses,  \* bound
  None, Locked

\* atrest.json: the store of the key, its name, and the keys moved elsewhere.
Meta == [source : {"file", "os"}, id : Key, promoted : SUBSET Key]

ASSUME KeyConstants ==
  /\ None \notin Process \cup Key \cup Meta /\ Locked \notin Key /\ None # Locked
  /\ Host \subseteq [desktop : BOOLEAN, reach : [Process -> BOOLEAN],
                     loses : SUBSET {"file", "os"}]
  /\ \A h \in Host : h.desktop => \A p \in Process : h.reach[p]
  /\ MaxLosses \in Nat

VARIABLES
  host,
  \* atrest.json; atrest.key; the keystore's slot for this home, and the slots
  \* that keep a key under its own id
  meta, file, main, byId,
  \* atrest.lock, atrest-file.lock
  dirLock, fileLock,
  \* a process: the keys it has seen, the one it seals with
  mem, cur,
  \* what it is doing, for what, with the atrest.json it read (or is to write)
  \* and the key it is about
  pc, why, seen, key,
  \* a search: the stores still to ask, and whether one could not answer
  asks, unsure,
  \* history: keys made, blobs sealed, and keys a store lost to something
  \* outside or to a move (Unfile); a bound
  made, sealed, lost, losses

stores == <<meta, file, main, byId>>
locks  == <<dirLock, fileLock>>
known  == <<mem, cur>>
search == <<asks, unsure>>
outside == <<lost, losses>>
past == <<made, outside>>
vars == <<host, stores, locks, known, pc, why, seen, key, search, sealed, past>>

Blob == [key : Key, src : {"file", "os"}]

Reaches(p) == host.reach[p]
Slot(s) == IF s = "file" THEN file ELSE main

\* fromStore: the key a store holds, None, or no answer. A keystore may be
\* locked or slow whenever it is asked, or on the back-off list.
Answers(p, s) ==
  IF s = "file" THEN {file} ELSE IF Reaches(p) THEN {main, Locked} ELSE {Locked}

\* What a keystore may hold after k was written over `old', and whether the
\* write and its reading back were seen to work.
Put_NotReadBack(old, k, new, ok) == new \in {old, k} /\ ok
Put(old, k, new, ok) == new \in {old, k} /\ (ok => new = k)

\* putNew leaves a key that is there alone; a key that reads back is as good.
PutNew_Replaces(p, s, k, new, ok) ==
  \/ s = "file" /\ new = k /\ ok
  \/ s = "os" /\ Reaches(p) /\ Put(main, k, new, ok)
  \/ s = "os" /\ ~Reaches(p) /\ new = main /\ ~ok
PutNew(p, s, k, new, ok) ==
  \/ Slot(s) # None /\ new = Slot(s) /\ (ok => new = k)
  \/ Slot(s) = None /\ s = "file" /\ new = k /\ ok
  \/ Slot(s) = None /\ s = "os" /\ Reaches(p) /\ Put(main, k, new, ok)
  \/ Slot(s) = None /\ s = "os" /\ ~Reaches(p) /\ new = main /\ ~ok

SetSlot(s, k) == IF s = "file" THEN file' = k /\ UNCHANGED main
                 ELSE main' = k /\ UNCHANGED file

Init ==
  /\ host \in Host
  /\ meta = None /\ file = None /\ main = None /\ byId = {}
  /\ dirLock = None /\ fileLock = None
  /\ mem = [p \in Process |-> {}] /\ cur = [p \in Process |-> None]
  /\ pc = [p \in Process |-> "idle"] /\ why = [p \in Process |-> "seal"]
  /\ seen = [p \in Process |-> None] /\ key = [p \in Process |-> None]
  /\ asks = [p \in Process |-> <<>>] /\ unsure = [p \in Process |-> FALSE]
  /\ made = {} /\ sealed = {} /\ lost = {} /\ losses = 0

Goto(p, l) == pc' = [pc EXCEPT ![p] = l]
For(p, w)  == why' = [why EXCEPT ![p] = w]
Reads(p, m) == seen' = [seen EXCEPT ![p] = m]
About(p, k) == key' = [key EXCEPT ![p] = k]
Remembers(p, k) == mem' = [mem EXCEPT ![p] = @ \cup {k}]
SealsWith(p, k) == cur' = [cur EXCEPT ![p] = k]

\* SealIn: the blob, and the store its header names.
Seal(p, k, s) ==
  /\ sealed' = sealed \cup {[key |-> k, src |-> s]}
  /\ Goto(p, "idle")

------------------------------------------------------------------------------
(* Sealing: sealingKey *)

\* Read atrest.json: confirm the key in memory if it is the one named, make
\* the key if there is no atrest.json, ask its store otherwise.
SealBegin(p) ==
  /\ pc[p] = "idle"
  /\ Reads(p, meta) /\ For(p, "seal")
  /\ IF meta = None
     THEN Goto(p, "mint") /\ UNCHANGED <<cur, key>>
     ELSE /\ About(p, meta.id)
          /\ IF cur[p] = meta.id THEN Goto(p, "confirm") /\ UNCHANGED cur
             ELSE Goto(p, "ask") /\ SealsWith(p, None)
  /\ UNCHANGED <<host, stores, locks, mem, search, sealed, past>>

\* confirmCurrent found the key in its store, or could not ask: it stands. On
\* a desktop a key in the file is moved into the keystore, now and then.
Stands(p) ==
  IF why[p] = "open" THEN Goto(p, "idle") /\ UNCHANGED sealed
  ELSE \/ Seal(p, key[p], seen[p].source)
       \/ /\ seen[p].source = "file" /\ host.desktop
          /\ Goto(p, "promote") /\ UNCHANGED sealed

\* Another key is in its place: read again what is current.
Fails(p) ==
  IF why[p] = "open" THEN Goto(p, "idle") /\ UNCHANGED cur
  ELSE Goto(p, "ask") /\ SealsWith(p, None)

\* confirmCurrent: any key file will do, a keystore must hold this very key.
Confirm(p) ==
  /\ pc[p] = "confirm"
  /\ \E a \in Answers(p, seen[p].source) :
       \/ /\ a = None
          /\ Goto(p, "heal") /\ UNCHANGED <<cur, sealed>>
       \/ /\ a \in {key[p], Locked} \/ (a # None /\ seen[p].source = "file")
          /\ Stands(p) /\ UNCHANGED cur
       \/ /\ a \notin {None, key[p], Locked} /\ seen[p].source = "os"
          /\ Fails(p) /\ UNCHANGED sealed
  /\ UNCHANGED <<host, stores, locks, mem, why, seen, key, search, past>>

\* The store atrest.json names, asked for its key: the one named, another
\* (adopted), none (put back from memory, or refused), or no answer.
Ask(p) ==
  /\ pc[p] = "ask"
  /\ \E a \in Answers(p, seen[p].source) :
       \/ /\ a = Locked
          /\ Goto(p, "fallback") /\ UNCHANGED <<known, why, key, sealed>>
       \/ /\ a = None
          /\ IF seen[p].id \in mem[p] THEN Goto(p, "heal") /\ For(p, "putBack")
             ELSE Goto(p, "idle") /\ UNCHANGED why
          /\ UNCHANGED <<known, key, sealed>>
       \/ /\ a = seen[p].id
          /\ Remembers(p, a) /\ SealsWith(p, a)
          /\ IF seen[p].source = "os" /\ file # None
             THEN Goto(p, "move") /\ UNCHANGED sealed
             ELSE Seal(p, a, seen[p].source)
          /\ UNCHANGED <<why, key>>
       \/ /\ a \in Key \ {seen[p].id}
          /\ Remembers(p, a) /\ About(p, a) /\ Goto(p, "mint")
          /\ For(p, IF seen[p].source = "os" THEN "adoptOS" ELSE "adoptFile")
          /\ UNCHANGED <<cur, sealed>>
  /\ UNCHANGED <<host, stores, locks, seen, search, past>>

------------------------------------------------------------------------------
(* The key file while the keystore does not answer: fileFallback *)

FallbackRead(p) ==
  /\ pc[p] = "fallback"
  /\ IF file # None THEN Remembers(p, file) /\ Seal(p, file, "file")
     ELSE Goto(p, "fallbackLock") /\ UNCHANGED <<mem, sealed>>
  /\ UNCHANGED <<host, stores, locks, cur, why, seen, key, search, past>>

\* Under atrest-file.lock: read again, or make one; create-only.
FallbackMake(p) ==
  /\ pc[p] = "fallbackLock"
  /\ fileLock = None
  /\ IF file # None
     THEN Remembers(p, file) /\ Seal(p, file, "file") /\ UNCHANGED <<file, made>>
     ELSE \E k \in Key \ made :
            /\ file' = k /\ made' = made \cup {k}
            /\ Remembers(p, k) /\ Seal(p, k, "file")
  /\ UNCHANGED <<host, meta, main, byId, locks, cur, why, seen, key, search, outside>>

FallbackTimeout(p) ==
  /\ pc[p] = "fallbackLock"
  /\ fileLock \notin {None, p}
  /\ Goto(p, "idle")
  /\ UNCHANGED <<host, stores, locks, known, why, seen, key, search, sealed, past>>

(* Putting the named key back: healCurrent, RestoreKey *)

\* `reminal doctor --repair-key': another process hands over the key it holds.
Repair(p) ==
  /\ pc[p] = "idle" /\ meta # None
  /\ \E q \in Process \ {p} : meta.id \in mem[q]
  /\ About(p, meta.id) /\ For(p, "repair") /\ Goto(p, "heal")
  /\ UNCHANGED <<host, stores, locks, known, seen, search, sealed, past>>

HealFails(p) ==
  IF why[p] = "seal" THEN Fails(p) ELSE Goto(p, "idle") /\ UNCHANGED cur

\* Only while atrest.json, read again under its lock, still names the key.
StillNamed(p) == meta # None /\ meta.id = key[p]
HealLock(p) ==
  /\ pc[p] = "heal"
  /\ dirLock = None
  /\ IF StillNamed(p)
     THEN dirLock' = p /\ Goto(p, "healing") /\ UNCHANGED cur
     ELSE HealFails(p) /\ UNCHANGED dirLock
  /\ UNCHANGED <<host, stores, fileLock, mem, why, seen, key, search, sealed, past>>

HealTimeout(p) ==
  /\ pc[p] = "heal"
  /\ dirLock \notin {None, p}
  /\ HealFails(p)
  /\ UNCHANGED <<host, stores, locks, mem, why, seen, key, search, sealed, past>>

\* Create-only, read back, and atrest.json read once more.
\* Into the store it was seen to name then: no one else moves it meanwhile. A
\* blob's header still says what was read before.
Heal(p) ==
  /\ pc[p] = "healing"
  /\ \E new \in {Slot(meta.source), key[p]}, ok \in BOOLEAN :
       /\ PutNew(p, meta.source, key[p], new, ok) /\ SetSlot(meta.source, new)
       /\ IF ~(ok /\ StillNamed(p)) THEN HealFails(p) /\ UNCHANGED <<mem, sealed>>
          ELSE CASE why[p] \in {"seal", "open"} ->
                      Stands(p) /\ UNCHANGED known
                 [] why[p] = "putBack" ->
                      Seal(p, key[p], seen[p].source) /\ SealsWith(p, key[p]) /\ UNCHANGED mem
                 [] OTHER ->
                      /\ Remembers(p, key[p]) /\ SealsWith(p, key[p])
                      /\ Goto(p, "idle") /\ UNCHANGED sealed
  /\ dirLock' = None
  /\ UNCHANGED <<host, meta, byId, fileLock, why, seen, key, search, past>>

------------------------------------------------------------------------------
(* Making the key, or adopting one: mint, under atrest.lock *)

MintLock_NotReread(p) ==
  /\ pc[p] = "mint"
  /\ dirLock = None
  /\ dirLock' = p /\ UNCHANGED seen
  /\ Goto(p, IF seen[p] = None THEN "mintOS" ELSE "mintNamed")
  /\ UNCHANGED <<host, stores, fileLock, known, why, key, search, sealed, past>>
MintLock(p) ==
  /\ pc[p] = "mint"
  /\ dirLock = None
  /\ dirLock' = p /\ Reads(p, meta)
  /\ Goto(p, IF meta = None THEN "mintOS" ELSE "mintNamed")
  /\ UNCHANGED <<host, stores, fileLock, known, why, key, search, sealed, past>>

Adopts(p) == why[p] \in {"adoptOS", "adoptFile"}

\* ErrLocked sends the blob to the key file, unless a key was to be adopted.
MintFails(p) == Goto(p, IF Adopts(p) THEN "idle" ELSE "fallback")

MintTimeout(p) ==
  /\ pc[p] = "mint"
  /\ dirLock \notin {None, p}
  /\ MintFails(p)
  /\ UNCHANGED <<host, stores, locks, known, why, seen, key, search, sealed, past>>

\* Someone made it while we waited; or the store holds another key, which
\* atrest.json is to name. Nothing is made over a key that is named.
MintNamed(p) ==
  /\ pc[p] = "mintNamed"
  /\ \E a \in Answers(p, seen[p].source) :
       \/ /\ a \in {None, Locked}
          /\ MintFails(p) /\ dirLock' = None /\ UNCHANGED <<mem, seen>>
       \/ /\ a = seen[p].id
          /\ Remembers(p, a)
          /\ Goto(p, "minted") /\ dirLock' = None /\ UNCHANGED seen
       \/ /\ a \in Key \ {seen[p].id}
          /\ Remembers(p, a) /\ Reads(p, [seen[p] EXCEPT !.id = a])
          /\ Goto(p, "name") /\ UNCHANGED dirLock
  /\ UNCHANGED <<host, stores, fileLock, cur, why, key, search, sealed, past>>

\* atrest.json is to name k, in store s.
Draft(p, s, k) ==
  /\ Reads(p, [source |-> s, id |-> k, promoted |-> {}])
  /\ Remembers(p, k)
  /\ Goto(p, "name")

\* No atrest.json: a key the keystore holds already, the file's, or a new one.
\* A keystore that cannot be reached is not asked; one that is locked ends it.
MintOS(p) ==
  /\ pc[p] = "mintOS"
  /\ \/ /\ Reaches(p) /\ main # None
        /\ Draft(p, "os", main) /\ UNCHANGED dirLock
     \/ /\ Reaches(p)
        /\ MintFails(p) /\ dirLock' = None /\ UNCHANGED <<mem, seen>>
     \/ /\ ~Reaches(p) \/ main = None
        /\ Goto(p, "mintFile") /\ UNCHANGED <<mem, seen, dirLock>>
  /\ UNCHANGED <<host, stores, fileLock, cur, why, key, search, sealed, past>>

MintFile(p) ==
  /\ pc[p] = "mintFile"
  /\ IF file # None
     THEN /\ About(p, file) /\ UNCHANGED made
          /\ IF Reaches(p)
             THEN /\ Goto(p, "mintMove") /\ Remembers(p, file) /\ UNCHANGED seen
             ELSE Draft(p, "file", file)
     ELSE \E k \in Key \ made :
            /\ About(p, k) /\ made' = made \cup {k}
            /\ Goto(p, IF Reaches(p) THEN "mintPut" ELSE "mintPutFile")
            /\ UNCHANGED <<mem, seen>>
  /\ UNCHANGED <<host, stores, locks, cur, why, search, sealed, outside>>

\* promoteFileKey: put writes over what is there; nothing was, under the lock.
MintMove(p) ==
  /\ pc[p] = "mintMove"
  /\ \E new \in {main, key[p]}, ok \in BOOLEAN :
       /\ Put(main, key[p], new, ok) /\ main' = new
       /\ IF ok THEN /\ Reads(p, [source |-> "os", id |-> key[p], promoted |-> {key[p]}])
                       /\ Goto(p, "nameMoved")
          ELSE Reads(p, [source |-> "file", id |-> key[p], promoted |-> {}]) /\ Goto(p, "name")
  /\ UNCHANGED <<host, meta, file, byId, locks, known, why, key, search, sealed, past>>

MintPut(p) ==
  /\ pc[p] = "mintPut"
  /\ \E new \in {main, key[p]}, ok \in BOOLEAN :
       /\ Put(main, key[p], new, ok) /\ main' = new
       /\ IF ok THEN Draft(p, "os", key[p])
          ELSE Goto(p, "mintPutFile") /\ UNCHANGED <<mem, seen>>
  /\ UNCHANGED <<host, meta, file, byId, locks, cur, why, key, search, sealed, past>>

\* A fallback key blobs may be sealed with already is kept, and named.
MintPutFile(p) ==
  /\ pc[p] = "mintPutFile"
  /\ file' = IF file = None THEN key[p] ELSE file
  /\ Draft(p, "file", file')
  /\ UNCHANGED <<host, meta, main, byId, locks, cur, why, key, search, sealed, past>>

\* writeMeta: the name written, atomically.
Name(p) ==
  /\ pc[p] = "name"
  /\ meta' = seen[p]
  /\ dirLock' = None /\ Goto(p, "minted")
  /\ UNCHANGED <<host, file, main, byId, fileLock, known, why, seen, key, search, sealed, past>>

\* sealingKey, after mint: the key adopted, or the one named now.
Minted(p) ==
  /\ pc[p] = "minted"
  /\ \/ /\ Adopts(p)
        /\ SealsWith(p, key[p])
        /\ Seal(p, key[p], IF why[p] = "adoptOS" THEN "os" ELSE "file")
     \/ /\ ~Adopts(p) /\ meta # None /\ meta.id \in mem[p]
        /\ SealsWith(p, meta.id) /\ Seal(p, meta.id, meta.source)
     \/ /\ ~Adopts(p) /\ (meta = None \/ meta.id \notin mem[p])
        /\ Goto(p, "idle") /\ UNCHANGED <<cur, sealed>>
  /\ UNCHANGED <<host, stores, locks, mem, why, seen, key, search, past>>

------------------------------------------------------------------------------
(* Moving a key from the file into the keystore *)

\* promoteFileMeta: the named key, with atrest.json read again under the lock.
PromoteLock(p) ==
  /\ pc[p] = "promote"
  /\ dirLock = None
  /\ IF StillNamed(p) /\ meta.source = "file" /\ Reaches(p)
     THEN Reads(p, meta) /\ dirLock' = p /\ Goto(p, "promoting") /\ UNCHANGED sealed
     ELSE Seal(p, key[p], seen[p].source) /\ UNCHANGED <<seen, dirLock>>
  /\ UNCHANGED <<host, stores, fileLock, known, why, key, search, past>>

PromoteTimeout(p) ==
  /\ pc[p] = "promote"
  /\ dirLock \notin {None, p}
  /\ Seal(p, key[p], seen[p].source)
  /\ UNCHANGED <<host, stores, locks, known, why, seen, key, search, past>>

PromotePut(p) ==
  /\ pc[p] = "promoting"
  /\ \E new \in {main, key[p]}, ok \in BOOLEAN :
       /\ PutNew(p, "os", key[p], new, ok) /\ main' = new
       /\ IF ok THEN /\ Reads(p, [seen[p] EXCEPT !.source = "os"])
                       /\ Goto(p, "nameMoved") /\ UNCHANGED <<sealed, dirLock>>
          ELSE Seal(p, key[p], "file") /\ dirLock' = None /\ UNCHANGED seen
  /\ UNCHANGED <<host, meta, file, byId, fileLock, known, why, key, search, past>>

\* promoteFileMeta, promoteFileKey: the name first, then the file goes.
NameMoved(p) ==
  /\ pc[p] = "nameMoved"
  /\ meta' = seen[p] /\ Goto(p, "unfile")
  /\ UNCHANGED <<host, file, main, byId, locks, known, why, seen, key, search, sealed, past>>

\* The file goes whatever it holds by now: a fallback key put there meanwhile,
\* after another move or a loss had emptied it, is lost.
Unfile(p) ==
  /\ pc[p] = "unfile"
  /\ file' = None /\ dirLock' = None
  /\ lost' = lost \cup ({file} \ {key[p], None})
  /\ IF cur[p] = key[p] THEN Seal(p, key[p], "os")
     ELSE Goto(p, "minted") /\ UNCHANGED sealed
  /\ UNCHANGED <<host, meta, main, byId, fileLock, known, why, seen, key, search, made, losses>>

\* promoteFallback, once the keystore answers: the file's key, whichever it
\* is, into a slot under its id. Under atrest-file.lock, not waited for.
MoveLock(p) ==
  /\ pc[p] = "move"
  /\ IF fileLock = None /\ file # None
     THEN About(p, file) /\ fileLock' = p /\ Goto(p, "moving") /\ UNCHANGED sealed
     ELSE Seal(p, cur[p], "os") /\ UNCHANGED <<key, fileLock>>
  /\ UNCHANGED <<host, stores, dirLock, known, why, seen, search, past>>

MovePut(p) ==
  /\ pc[p] = "moving"
  /\ \/ /\ byId' = byId \cup {key[p]}
        /\ Remembers(p, key[p]) /\ Goto(p, "note") /\ UNCHANGED <<sealed, fileLock>>
     \/ /\ byId' \in {byId, byId \cup {key[p]}}
        /\ Seal(p, cur[p], "os") /\ fileLock' = None /\ UNCHANGED mem
  /\ UNCHANGED <<host, meta, file, main, dirLock, cur, why, seen, key, search, past>>

\* notePromoted: read, add and write, under another lock than atrest.json's.
Note(p) ==
  /\ pc[p] = "note"
  /\ IF meta = None \/ key[p] \in meta.promoted
     THEN Goto(p, "moved") /\ UNCHANGED seen
     ELSE Reads(p, [meta EXCEPT !.promoted = meta.promoted \cup {key[p]}]) /\ Goto(p, "noting")
  /\ UNCHANGED <<host, stores, locks, known, why, key, search, sealed, past>>

NoteWrite(p) ==
  /\ pc[p] = "noting"
  /\ meta' = seen[p] /\ Goto(p, "moved")
  /\ UNCHANGED <<host, file, main, byId, locks, known, why, seen, key, search, sealed, past>>

Moved(p) ==
  /\ pc[p] = "moved"
  /\ file' = None /\ fileLock' = None
  /\ Seal(p, cur[p], "os")
  /\ UNCHANGED <<host, meta, main, byId, dirLock, known, why, seen, key, search, past>>

------------------------------------------------------------------------------
(* Opening: openingKey *)

\* Only a home that has only ever used the key file need not ask a keystore.
FileOnlyHome(m) == m # None /\ m.source = "file" /\ m.promoted = {}

Order(s) == IF s = "file" THEN <<"file", "main", "byId">> ELSE <<"main", "byId", "file">>

\* A key in memory opens at once, and is confirmed if it is the one named;
\* for any other the stores are asked, the one the blob names first.
NoAnswer_Never(p, b) == FALSE
NoAnswer(p, b) == ~Reaches(p) /\ ~(b.src = "file" /\ FileOnlyHome(meta))
OpenBegin(p, b) ==
  /\ pc[p] = "idle"
  /\ Reads(p, meta) /\ About(p, b.key) /\ For(p, "open")
  /\ IF b.key \in mem[p]
     THEN meta # None /\ meta.id = b.key /\ Goto(p, "confirm") /\ UNCHANGED search
     ELSE /\ Goto(p, "open")
          /\ asks' = [asks EXCEPT ![p] = Order(b.src)]
          /\ unsure' = [unsure EXCEPT ![p] = NoAnswer(p, b)]
  /\ UNCHANGED <<host, stores, locks, known, sealed, past>>

Found(p, s) ==
  IF s = "file" THEN {file} ELSE IF ~Reaches(p) THEN {None}
  ELSE IF s = "main" THEN {main, Locked}
  ELSE {IF key[p] \in byId THEN key[p] ELSE None, Locked}

Kept_Unchecked(a) == {a}
Kept(a) == {a} \cap Key

\* The next store; what it holds is remembered, whichever key it is.
OpenAsk(p) ==
  /\ pc[p] = "open" /\ asks[p] # <<>>
  /\ \E a \in Found(p, Head(asks[p])) :
       /\ mem' = [mem EXCEPT ![p] = @ \cup Kept(a)]
       /\ unsure' = [unsure EXCEPT ![p] = @ \/ a = Locked]
       /\ asks' = [asks EXCEPT ![p] = IF a = key[p] THEN <<>> ELSE Tail(@)]
       /\ IF a = key[p] THEN Goto(p, "idle") ELSE UNCHANGED pc
  /\ UNCHANGED <<host, stores, locks, cur, why, seen, key, sealed, past>>

\* ErrKeyGone, unless a store did not answer or the key is the one named.
CallsGone(p) ==
  /\ pc[p] = "open" /\ asks[p] = <<>>
  /\ ~unsure[p] /\ ~(seen[p] # None /\ seen[p].id = key[p])
NotFound(p) ==
  /\ pc[p] = "open" /\ asks[p] = <<>>
  /\ Goto(p, "idle")
  /\ UNCHANGED <<host, stores, locks, known, why, seen, key, search, sealed, past>>

------------------------------------------------------------------------------
(* What happens to them *)

\* A process dies, and starts again with nothing in memory; the kernel lets
\* go of its locks.
Crash(p) ==
  /\ Goto(p, "idle")
  /\ mem' = [mem EXCEPT ![p] = {}] /\ SealsWith(p, None)
  /\ dirLock' = IF dirLock = p THEN None ELSE dirLock
  /\ fileLock' = IF fileLock = p THEN None ELSE fileLock
  /\ UNCHANGED <<host, stores, why, seen, key, search, sealed, past>>

\* A store loses its key: the file is deleted, the keystore's entry removed.
Lose(s) ==
  /\ losses < MaxLosses /\ Slot(s) # None
  /\ losses' = losses + 1 /\ lost' = lost \cup {Slot(s)}
  /\ SetSlot(s, None)
  /\ UNCHANGED <<host, meta, byId, locks, known, pc, why, seen, key, search, sealed, made>>

Save(p) ==
  \/ SealBegin(p) \/ Confirm(p) \/ Ask(p)
  \/ FallbackRead(p) \/ FallbackMake(p) \/ FallbackTimeout(p)
PutBack(p) == Repair(p) \/ HealLock(p) \/ HealTimeout(p) \/ Heal(p)
Mint(p) ==
  \/ MintLock(p) \/ MintTimeout(p) \/ MintNamed(p) \/ MintOS(p) \/ MintFile(p)
  \/ MintMove(p) \/ MintPut(p) \/ MintPutFile(p) \/ Name(p) \/ Minted(p)
Move(p) ==
  \/ PromoteLock(p) \/ PromoteTimeout(p) \/ PromotePut(p) \/ NameMoved(p) \/ Unfile(p)
  \/ MoveLock(p) \/ MovePut(p) \/ Note(p) \/ NoteWrite(p) \/ Moved(p)
Open(p) == (\E b \in sealed : OpenBegin(p, b)) \/ OpenAsk(p) \/ NotFound(p)

Next ==
  \/ \E p \in Process : Save(p) \/ PutBack(p) \/ Mint(p) \/ Move(p) \/ Open(p) \/ Crash(p)
  \/ \E s \in host.loses : Lose(s)

Spec == Init /\ [][Next]_vars

------------------------------------------------------------------------------
Steps ==
  {"idle", "confirm", "ask", "fallback", "fallbackLock", "heal", "healing", "mint",
   "mintNamed", "mintOS", "mintFile", "mintMove", "mintPut", "mintPutFile", "name",
   "minted", "promote", "promoting", "nameMoved", "unfile", "move", "moving", "note",
   "noting", "moved", "open"}

StoresOK ==
  /\ host \in Host /\ meta \in Meta \cup {None}
  /\ file \in Key \cup {None} /\ main \in Key \cup {None} /\ byId \subseteq Key
  /\ dirLock \in Process \cup {None} /\ fileLock \in Process \cup {None}
KnownOK == mem \in [Process -> SUBSET Key] /\ cur \in [Process -> Key \cup {None}]
DoingOK ==
  /\ pc \in [Process -> Steps]
  /\ why \in [Process -> {"seal", "putBack", "adoptOS", "adoptFile", "repair", "open"}]
  /\ seen \in [Process -> Meta \cup {None}] /\ key \in [Process -> Key \cup {None}]
SearchOK ==
  asks \in [Process -> Seq({"file", "main", "byId"})] /\ unsure \in [Process -> BOOLEAN]
PastOK ==
  /\ made \subseteq Key /\ sealed \subseteq Blob /\ lost \subseteq Key
  /\ losses \in 0 .. MaxLosses
TypeOK == StoresOK /\ KnownOK /\ DoingOK /\ SearchOK /\ PastOK

Held == {file, main} \cup byId

\* The key atrest.json names is in the store it names, whoever crashes between
\* the writes that make or move it, unless something outside took it.
NamedKeyHeld == meta # None => Slot(meta.source) = meta.id \/ meta.id \in lost

\* No key is called gone that a store holds, whatever was moved meanwhile.
GoneOnlyWhenGone ==
  \A p \in Process : CallsGone(p) => key[p] \notin Held \/ key[p] \in lost

\* A key that is in a store is never written over with another.
NothingOverwritten ==
  [][/\ file # None => file' \in {file, None}
     /\ main # None => main' \in {main, None}]_vars

\* The processes agree on one key, seal under it alone what the keystore is to
\* open, and change it only when something outside took it from its store.
Chosen == IF meta = None \/ meta.id \in lost THEN None ELSE meta.id
Under  == {k \in Key : [key |-> k, src |-> "os"] \in sealed} \ lost
Agreed == INSTANCE OneKey WITH chosen <- Chosen, under <- Under
AgreeOnOneKey == Agreed!Spec
==============================================================================
