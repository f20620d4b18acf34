-------------------------- MODULE AtRestSearchProofs --------------------------
(* That AtRestKeys calls no key gone that a store holds, for any number of      *)
(* processes, keys and losses. The search asks one store after another while    *)
(* keys are moved between them: what makes it right is that a key blobs are     *)
(* sealed under moves only the way the search goes.                             *)
EXTENDS AtRestKeysProofs

------------------------------------------------------------------------------
(* What is known of a key *)

\* A key in use was made: a key that is made is not one a blob is sealed under.
MadeInv ==
  /\ {file, main} \subseteq made \cup {None}
  /\ meta # None => meta.id \in made
  /\ \A b \in sealed : b.key \in made
  /\ \A p \in Process :
       /\ {key[p], cur[p]} \subseteq made \cup {None}
       /\ seen[p] # None => seen[p].id \in made

LEMMA MadeStep ==
  ASSUME KeyConstants, TypeInv, NameInv, MadeInv, Next PROVE MadeInv'
<1> USE DEF stores, locks, known, search, outside, past, Goto, For, Reads,
      About, Remembers, SealsWith
<1>1. ASSUME NEW p \in Process, SealBegin(p) PROVE MadeInv'
  BY <1>1 DEF SealBegin, MadeInv, TypeInv, TypeOK, StoresOK, KnownOK, DoingOK,
        PastOK, AboutOK, Meta, Blob, KeyConstants
<1>2. ASSUME NEW p \in Process, Confirm(p) PROVE MadeInv'
  BY <1>2 DEF Confirm, Answers, Reaches, Stands, Seal, Fails, MadeInv,
        TypeInv, TypeOK, StoresOK, KnownOK, DoingOK, PastOK, AboutOK, Meta,
        Blob, KeyConstants
<1>3. ASSUME NEW p \in Process, Ask(p) PROVE MadeInv'
  BY <1>3 DEF Ask, Answers, Reaches, Seal, MadeInv, TypeInv, TypeOK, StoresOK,
        KnownOK, DoingOK, PastOK, AboutOK, Meta, Blob, KeyConstants
<1>4. ASSUME NEW p \in Process, FallbackRead(p) PROVE MadeInv'
  BY <1>4 DEF FallbackRead, Seal, MadeInv, TypeInv, TypeOK, StoresOK, KnownOK,
        DoingOK, PastOK, AboutOK, Meta, Blob, KeyConstants
<1>5. ASSUME NEW p \in Process, FallbackMake(p) PROVE MadeInv'
  BY <1>5 DEF FallbackMake, Seal, MadeInv, TypeInv, TypeOK, StoresOK, KnownOK,
        DoingOK, PastOK, AboutOK, Meta, Blob, KeyConstants
<1>6. ASSUME NEW p \in Process, FallbackTimeout(p) PROVE MadeInv'
  BY <1>6 DEF FallbackTimeout, MadeInv, TypeInv, TypeOK, StoresOK, KnownOK,
        DoingOK, PastOK, AboutOK, Meta, Blob, KeyConstants
<1>7. ASSUME NEW p \in Process, Repair(p) PROVE MadeInv'
  BY <1>7 DEF Repair, MadeInv, TypeInv, TypeOK, StoresOK, KnownOK, DoingOK,
        PastOK, AboutOK, Meta, Blob, KeyConstants
<1>8. ASSUME NEW p \in Process, HealLock(p) PROVE MadeInv'
  BY <1>8 DEF HealLock, StillNamed, HealFails, Fails, MadeInv, TypeInv,
        TypeOK, StoresOK, KnownOK, DoingOK, PastOK, AboutOK, Meta, Blob,
        KeyConstants
<1>9. ASSUME NEW p \in Process, HealTimeout(p) PROVE MadeInv'
  BY <1>9 DEF HealTimeout, HealFails, Fails, MadeInv, TypeInv, TypeOK,
        StoresOK, KnownOK, DoingOK, PastOK, AboutOK, Meta, Blob, KeyConstants
<1>10. ASSUME NEW p \in Process, Heal(p) PROVE MadeInv'
  BY <1>10 DEF Heal, Slot, PutNew, Reaches, Put, SetSlot, StillNamed,
        HealFails, Fails, Stands, Seal, MadeInv, TypeInv, TypeOK, StoresOK,
        KnownOK, DoingOK, PastOK, AboutOK, Meta, Blob, KeyConstants
<1>11. ASSUME NEW p \in Process, MintLock(p) PROVE MadeInv'
  BY <1>11 DEF MintLock, MadeInv, TypeInv, TypeOK, StoresOK, KnownOK, DoingOK,
        PastOK, AboutOK, Meta, Blob, KeyConstants
<1>12. ASSUME NEW p \in Process, MintTimeout(p) PROVE MadeInv'
  BY <1>12 DEF MintTimeout, MintFails, Adopts, MadeInv, TypeInv, TypeOK,
        StoresOK, KnownOK, DoingOK, PastOK, AboutOK, Meta, Blob, KeyConstants
<1>13. ASSUME NEW p \in Process, MintNamed(p) PROVE MadeInv'
  BY <1>13 DEF MintNamed, Answers, Reaches, MintFails, Adopts, MadeInv,
        TypeInv, TypeOK, StoresOK, KnownOK, DoingOK, PastOK, AboutOK, Meta,
        Blob, KeyConstants
<1>14. ASSUME NEW p \in Process, MintOS(p) PROVE MadeInv'
  BY <1>14 DEF MintOS, Reaches, Draft, MintFails, Adopts, MadeInv, TypeInv,
        TypeOK, StoresOK, KnownOK, DoingOK, PastOK, AboutOK, Meta, Blob,
        KeyConstants
<1>15. ASSUME NEW p \in Process, MintFile(p) PROVE MadeInv'
  BY <1>15 DEF MintFile, Reaches, Draft, MadeInv, TypeInv, TypeOK, StoresOK,
        KnownOK, DoingOK, PastOK, AboutOK, Meta, Blob, KeyConstants
<1>16. ASSUME NEW p \in Process, MintMove(p) PROVE MadeInv'
  BY <1>16 DEF MintMove, Put, MadeInv, TypeInv, TypeOK, StoresOK, KnownOK,
        DoingOK, PastOK, AboutOK, Meta, Blob, KeyConstants
<1>17. ASSUME NEW p \in Process, MintPut(p) PROVE MadeInv'
  BY <1>17 DEF MintPut, Put, Draft, MadeInv, TypeInv, TypeOK, StoresOK,
        KnownOK, DoingOK, PastOK, AboutOK, Meta, Blob, KeyConstants
<1>18. ASSUME NEW p \in Process, MintPutFile(p) PROVE MadeInv'
  BY <1>18 DEF MintPutFile, Draft, MadeInv, TypeInv, TypeOK, StoresOK,
        KnownOK, DoingOK, PastOK, AboutOK, Meta, Blob, KeyConstants
<1>19. ASSUME NEW p \in Process, Name(p) PROVE MadeInv'
  BY <1>19 DEF Name, MadeInv, TypeInv, TypeOK, StoresOK, KnownOK, DoingOK,
        PastOK, AboutOK, Meta, Blob, KeyConstants
<1>20. ASSUME NEW p \in Process, Minted(p) PROVE MadeInv'
  BY <1>20 DEF Minted, Adopts, Seal, MadeInv, TypeInv, TypeOK, StoresOK,
        KnownOK, DoingOK, PastOK, AboutOK, Meta, Blob, KeyConstants
<1>21. ASSUME NEW p \in Process, PromoteLock(p) PROVE MadeInv'
  BY <1>21 DEF PromoteLock, StillNamed, Reaches, Seal, MadeInv, TypeInv,
        TypeOK, StoresOK, KnownOK, DoingOK, PastOK, AboutOK, Meta, Blob,
        KeyConstants
<1>22. ASSUME NEW p \in Process, PromoteTimeout(p) PROVE MadeInv'
  BY <1>22 DEF PromoteTimeout, Seal, MadeInv, TypeInv, TypeOK, StoresOK,
        KnownOK, DoingOK, PastOK, AboutOK, Meta, Blob, KeyConstants
<1>23. ASSUME NEW p \in Process, PromotePut(p) PROVE MadeInv'
  BY <1>23 DEF PromotePut, PutNew, Slot, Reaches, Put, Seal, MadeInv, TypeInv,
        TypeOK, StoresOK, KnownOK, DoingOK, PastOK, AboutOK, Meta, Blob,
        KeyConstants
<1>24. ASSUME NEW p \in Process, NameMoved(p) PROVE MadeInv'
  BY <1>24 DEF NameMoved, MadeInv, TypeInv, TypeOK, StoresOK, KnownOK,
        DoingOK, PastOK, AboutOK, Meta, Blob, KeyConstants
<1>25. ASSUME NEW p \in Process, Unfile(p) PROVE MadeInv'
  BY <1>25 DEF Unfile, Seal, MadeInv, TypeInv, TypeOK, StoresOK, KnownOK,
        DoingOK, PastOK, AboutOK, Meta, Blob, KeyConstants
<1>26. ASSUME NEW p \in Process, MoveLock(p) PROVE MadeInv'
  BY <1>26 DEF MoveLock, Seal, MadeInv, TypeInv, TypeOK, StoresOK, KnownOK,
        DoingOK, PastOK, AboutOK, Meta, Blob, KeyConstants
<1>27. ASSUME NEW p \in Process, MovePut(p) PROVE MadeInv'
  BY <1>27 DEF MovePut, Seal, MadeInv, TypeInv, TypeOK, StoresOK, KnownOK,
        DoingOK, PastOK, AboutOK, Meta, Blob, KeyConstants
<1>28. ASSUME NEW p \in Process, Note(p) PROVE MadeInv'
  BY <1>28 DEF Note, MadeInv, TypeInv, TypeOK, StoresOK, KnownOK, DoingOK,
        PastOK, AboutOK, Meta, Blob, KeyConstants
<1>29. ASSUME NEW p \in Process, NoteWrite(p) PROVE MadeInv'
  BY <1>29 DEF NoteWrite, MadeInv, TypeInv, TypeOK, StoresOK, KnownOK,
        DoingOK, PastOK, AboutOK, Meta, Blob, KeyConstants
<1>30. ASSUME NEW p \in Process, Moved(p) PROVE MadeInv'
  BY <1>30 DEF Moved, Seal, MadeInv, TypeInv, TypeOK, StoresOK, KnownOK,
        DoingOK, PastOK, AboutOK, Meta, Blob, KeyConstants
<1>31. ASSUME NEW p \in Process, NEW b \in sealed, OpenBegin(p, b) PROVE MadeInv'
  BY <1>31 DEF OpenBegin, Order, NoAnswer, Reaches, FileOnlyHome, MadeInv,
        TypeInv, TypeOK, StoresOK, KnownOK, DoingOK, PastOK, AboutOK, Meta,
        Blob, KeyConstants
<1>32. ASSUME NEW p \in Process, OpenAsk(p) PROVE MadeInv'
  BY <1>32 DEF OpenAsk, Found, Reaches, Kept, MadeInv, TypeInv, TypeOK,
        StoresOK, KnownOK, DoingOK, PastOK, AboutOK, Meta, Blob, KeyConstants
<1>33. ASSUME NEW p \in Process, NotFound(p) PROVE MadeInv'
  BY <1>33 DEF NotFound, MadeInv, TypeInv, TypeOK, StoresOK, KnownOK, DoingOK,
        PastOK, AboutOK, Meta, Blob, KeyConstants
<1>34. ASSUME NEW p \in Process, Crash(p) PROVE MadeInv'
  BY <1>34 DEF Crash, MadeInv, TypeInv, TypeOK, StoresOK, KnownOK, DoingOK,
        PastOK, AboutOK, Meta, Blob, KeyConstants
<1>35. ASSUME NEW s \in host.loses, Lose(s) PROVE MadeInv'
  BY <1>35 DEF Lose, Slot, SetSlot, MadeInv, TypeInv, TypeOK, StoresOK,
        KnownOK, DoingOK, PastOK, AboutOK, Meta, Blob, KeyConstants
<1> QED
  BY <1>1, <1>2, <1>3, <1>4, <1>5, <1>6, <1>7, <1>8, <1>9, <1>10, <1>11,
        <1>12, <1>13, <1>14, <1>15, <1>16, <1>17, <1>18, <1>19, <1>20, <1>21,
        <1>22, <1>23, <1>24, <1>25, <1>26, <1>27, <1>28, <1>29, <1>30, <1>31,
        <1>32, <1>33, <1>34, <1>35
  DEF Next, Save, PutBack, Mint, Move, Open

------------------------------------------------------------------------------
(* What is sealed under the file's key *)

\* Who confirms, puts back, adopts or moves has seen a name; a key is moved out
\* of the file on a desktop, or before any is named.
SeenInv ==
  \A p \in Process :
    /\ pc[p] \in {"confirm", "ask", "heal", "promote", "promoting"} \/ Adopts(p) => meta # None
    /\ pc[p] \in {"promote", "promoting"} => host.desktop
    /\ pc[p] = "nameMoved" => host.desktop \/ meta = None

LEMMA SeenStep ==
  ASSUME KeyConstants, TypeInv, LockInv, NameInv, SeenInv, Next PROVE SeenInv'
<1> USE DEF stores, locks, known, search, outside, past, Goto, For, Reads,
      About, Remembers, SealsWith, Adopts
<1>1. ASSUME NEW p \in Process, SealBegin(p) PROVE SeenInv'
  BY <1>1 DEF SealBegin, SeenInv, NameInv, StageInv, ReadInv, LockInv,
        DirSteps, FileSteps, OsNamed, TypeInv, TypeOK, StoresOK, KnownOK,
        DoingOK, PastOK, AboutOK, Meta, Blob, KeyConstants
<1>2. ASSUME NEW p \in Process, Confirm(p) PROVE SeenInv'
  BY <1>2 DEF Confirm, Answers, Reaches, Stands, Seal, Fails, SeenInv,
        NameInv, StageInv, ReadInv, LockInv, DirSteps, FileSteps, OsNamed,
        TypeInv, TypeOK, StoresOK, KnownOK, DoingOK, PastOK, AboutOK, Meta,
        Blob, KeyConstants
<1>3. ASSUME NEW p \in Process, Ask(p) PROVE SeenInv'
  BY <1>3 DEF Ask, Answers, Reaches, Seal, SeenInv, NameInv, StageInv,
        ReadInv, LockInv, DirSteps, FileSteps, OsNamed, TypeInv, TypeOK,
        StoresOK, KnownOK, DoingOK, PastOK, AboutOK, Meta, Blob, KeyConstants
<1>4. ASSUME NEW p \in Process, FallbackRead(p) PROVE SeenInv'
  BY <1>4 DEF FallbackRead, Seal, SeenInv, NameInv, StageInv, ReadInv,
        LockInv, DirSteps, FileSteps, OsNamed, TypeInv, TypeOK, StoresOK,
        KnownOK, DoingOK, PastOK, AboutOK, Meta, Blob, KeyConstants
<1>5. ASSUME NEW p \in Process, FallbackMake(p) PROVE SeenInv'
  BY <1>5 DEF FallbackMake, Seal, SeenInv, NameInv, StageInv, ReadInv,
        LockInv, DirSteps, FileSteps, OsNamed, TypeInv, TypeOK, StoresOK,
        KnownOK, DoingOK, PastOK, AboutOK, Meta, Blob, KeyConstants
<1>6. ASSUME NEW p \in Process, FallbackTimeout(p) PROVE SeenInv'
  BY <1>6 DEF FallbackTimeout, SeenInv, NameInv, StageInv, ReadInv, LockInv,
        DirSteps, FileSteps, OsNamed, TypeInv, TypeOK, StoresOK, KnownOK,
        DoingOK, PastOK, AboutOK, Meta, Blob, KeyConstants
<1>7. ASSUME NEW p \in Process, Repair(p) PROVE SeenInv'
  BY <1>7 DEF Repair, SeenInv, NameInv, StageInv, ReadInv, LockInv, DirSteps,
        FileSteps, OsNamed, TypeInv, TypeOK, StoresOK, KnownOK, DoingOK,
        PastOK, AboutOK, Meta, Blob, KeyConstants
<1>8. ASSUME NEW p \in Process, HealLock(p) PROVE SeenInv'
  BY <1>8 DEF HealLock, StillNamed, HealFails, Fails, SeenInv, NameInv,
        StageInv, ReadInv, LockInv, DirSteps, FileSteps, OsNamed, TypeInv,
        TypeOK, StoresOK, KnownOK, DoingOK, PastOK, AboutOK, Meta, Blob,
        KeyConstants
<1>9. ASSUME NEW p \in Process, HealTimeout(p) PROVE SeenInv'
  BY <1>9 DEF HealTimeout, HealFails, Fails, SeenInv, NameInv, StageInv,
        ReadInv, LockInv, DirSteps, FileSteps, OsNamed, TypeInv, TypeOK,
        StoresOK, KnownOK, DoingOK, PastOK, AboutOK, Meta, Blob, KeyConstants
<1>10. ASSUME NEW p \in Process, Heal(p) PROVE SeenInv'
  BY <1>10 DEF Heal, Slot, PutNew, Reaches, Put, SetSlot, StillNamed,
        HealFails, Fails, Stands, Seal, SeenInv, NameInv, StageInv, ReadInv,
        LockInv, DirSteps, FileSteps, OsNamed, TypeInv, TypeOK, StoresOK,
        KnownOK, DoingOK, PastOK, AboutOK, Meta, Blob, KeyConstants
<1>11. ASSUME NEW p \in Process, MintLock(p) PROVE SeenInv'
  BY <1>11 DEF MintLock, SeenInv, NameInv, StageInv, ReadInv, LockInv,
        DirSteps, FileSteps, OsNamed, TypeInv, TypeOK, StoresOK, KnownOK,
        DoingOK, PastOK, AboutOK, Meta, Blob, KeyConstants
<1>12. ASSUME NEW p \in Process, MintTimeout(p) PROVE SeenInv'
  BY <1>12 DEF MintTimeout, MintFails, Adopts, SeenInv, NameInv, StageInv,
        ReadInv, LockInv, DirSteps, FileSteps, OsNamed, TypeInv, TypeOK,
        StoresOK, KnownOK, DoingOK, PastOK, AboutOK, Meta, Blob, KeyConstants
<1>13. ASSUME NEW p \in Process, MintNamed(p) PROVE SeenInv'
  BY <1>13 DEF MintNamed, Answers, Reaches, MintFails, Adopts, SeenInv,
        NameInv, StageInv, ReadInv, LockInv, DirSteps, FileSteps, OsNamed,
        TypeInv, TypeOK, StoresOK, KnownOK, DoingOK, PastOK, AboutOK, Meta,
        Blob, KeyConstants
<1>14. ASSUME NEW p \in Process, MintOS(p) PROVE SeenInv'
  BY <1>14 DEF MintOS, Reaches, Draft, MintFails, Adopts, SeenInv, NameInv,
        StageInv, ReadInv, LockInv, DirSteps, FileSteps, OsNamed, TypeInv,
        TypeOK, StoresOK, KnownOK, DoingOK, PastOK, AboutOK, Meta, Blob,
        KeyConstants
<1>15. ASSUME NEW p \in Process, MintFile(p) PROVE SeenInv'
  BY <1>15 DEF MintFile, Reaches, Draft, SeenInv, NameInv, StageInv, ReadInv,
        LockInv, DirSteps, FileSteps, OsNamed, TypeInv, TypeOK, StoresOK,
        KnownOK, DoingOK, PastOK, AboutOK, Meta, Blob, KeyConstants
<1>16. ASSUME NEW p \in Process, MintMove(p) PROVE SeenInv'
  BY <1>16 DEF MintMove, Put, SeenInv, NameInv, StageInv, ReadInv, LockInv,
        DirSteps, FileSteps, OsNamed, TypeInv, TypeOK, StoresOK, KnownOK,
        DoingOK, PastOK, AboutOK, Meta, Blob, KeyConstants
<1>17. ASSUME NEW p \in Process, MintPut(p) PROVE SeenInv'
  BY <1>17 DEF MintPut, Put, Draft, SeenInv, NameInv, StageInv, ReadInv,
        LockInv, DirSteps, FileSteps, OsNamed, TypeInv, TypeOK, StoresOK,
        KnownOK, DoingOK, PastOK, AboutOK, Meta, Blob, KeyConstants
<1>18. ASSUME NEW p \in Process, MintPutFile(p) PROVE SeenInv'
  BY <1>18 DEF MintPutFile, Draft, SeenInv, NameInv, StageInv, ReadInv,
        LockInv, DirSteps, FileSteps, OsNamed, TypeInv, TypeOK, StoresOK,
        KnownOK, DoingOK, PastOK, AboutOK, Meta, Blob, KeyConstants
<1>19. ASSUME NEW p \in Process, Name(p) PROVE SeenInv'
  BY <1>19 DEF Name, SeenInv, NameInv, StageInv, ReadInv, LockInv, DirSteps,
        FileSteps, OsNamed, TypeInv, TypeOK, StoresOK, KnownOK, DoingOK,
        PastOK, AboutOK, Meta, Blob, KeyConstants
<1>20. ASSUME NEW p \in Process, Minted(p) PROVE SeenInv'
  BY <1>20 DEF Minted, Adopts, Seal, SeenInv, NameInv, StageInv, ReadInv,
        LockInv, DirSteps, FileSteps, OsNamed, TypeInv, TypeOK, StoresOK,
        KnownOK, DoingOK, PastOK, AboutOK, Meta, Blob, KeyConstants
<1>21. ASSUME NEW p \in Process, PromoteLock(p) PROVE SeenInv'
  BY <1>21 DEF PromoteLock, StillNamed, Reaches, Seal, SeenInv, NameInv,
        StageInv, ReadInv, LockInv, DirSteps, FileSteps, OsNamed, TypeInv,
        TypeOK, StoresOK, KnownOK, DoingOK, PastOK, AboutOK, Meta, Blob,
        KeyConstants
<1>22. ASSUME NEW p \in Process, PromoteTimeout(p) PROVE SeenInv'
  BY <1>22 DEF PromoteTimeout, Seal, SeenInv, NameInv, StageInv, ReadInv,
        LockInv, DirSteps, FileSteps, OsNamed, TypeInv, TypeOK, StoresOK,
        KnownOK, DoingOK, PastOK, AboutOK, Meta, Blob, KeyConstants
<1>23. ASSUME NEW p \in Process, PromotePut(p) PROVE SeenInv'
  BY <1>23 DEF PromotePut, PutNew, Slot, Reaches, Put, Seal, SeenInv, NameInv,
        StageInv, ReadInv, LockInv, DirSteps, FileSteps, OsNamed, TypeInv,
        TypeOK, StoresOK, KnownOK, DoingOK, PastOK, AboutOK, Meta, Blob,
        KeyConstants
<1>24. ASSUME NEW p \in Process, NameMoved(p) PROVE SeenInv'
  BY <1>24 DEF NameMoved, SeenInv, NameInv, StageInv, ReadInv, LockInv,
        DirSteps, FileSteps, OsNamed, TypeInv, TypeOK, StoresOK, KnownOK,
        DoingOK, PastOK, AboutOK, Meta, Blob, KeyConstants
<1>25. ASSUME NEW p \in Process, Unfile(p) PROVE SeenInv'
  BY <1>25 DEF Unfile, Seal, SeenInv, NameInv, StageInv, ReadInv, LockInv,
        DirSteps, FileSteps, OsNamed, TypeInv, TypeOK, StoresOK, KnownOK,
        DoingOK, PastOK, AboutOK, Meta, Blob, KeyConstants
<1>26. ASSUME NEW p \in Process, MoveLock(p) PROVE SeenInv'
  BY <1>26 DEF MoveLock, Seal, SeenInv, NameInv, StageInv, ReadInv, LockInv,
        DirSteps, FileSteps, OsNamed, TypeInv, TypeOK, StoresOK, KnownOK,
        DoingOK, PastOK, AboutOK, Meta, Blob, KeyConstants
<1>27. ASSUME NEW p \in Process, MovePut(p) PROVE SeenInv'
  BY <1>27 DEF MovePut, Seal, SeenInv, NameInv, StageInv, ReadInv, LockInv,
        DirSteps, FileSteps, OsNamed, TypeInv, TypeOK, StoresOK, KnownOK,
        DoingOK, PastOK, AboutOK, Meta, Blob, KeyConstants
<1>28. ASSUME NEW p \in Process, Note(p) PROVE SeenInv'
  BY <1>28 DEF Note, SeenInv, NameInv, StageInv, ReadInv, LockInv, DirSteps,
        FileSteps, OsNamed, TypeInv, TypeOK, StoresOK, KnownOK, DoingOK,
        PastOK, AboutOK, Meta, Blob, KeyConstants
<1>29. ASSUME NEW p \in Process, NoteWrite(p) PROVE SeenInv'
  BY <1>29 DEF NoteWrite, SeenInv, NameInv, StageInv, ReadInv, LockInv,
        DirSteps, FileSteps, OsNamed, TypeInv, TypeOK, StoresOK, KnownOK,
        DoingOK, PastOK, AboutOK, Meta, Blob, KeyConstants
<1>30. ASSUME NEW p \in Process, Moved(p) PROVE SeenInv'
  BY <1>30 DEF Moved, Seal, SeenInv, NameInv, StageInv, ReadInv, LockInv,
        DirSteps, FileSteps, OsNamed, TypeInv, TypeOK, StoresOK, KnownOK,
        DoingOK, PastOK, AboutOK, Meta, Blob, KeyConstants
<1>31. ASSUME NEW p \in Process, NEW b \in sealed, OpenBegin(p, b) PROVE SeenInv'
  BY <1>31 DEF OpenBegin, Order, NoAnswer, Reaches, FileOnlyHome, SeenInv,
        NameInv, StageInv, ReadInv, LockInv, DirSteps, FileSteps, OsNamed,
        TypeInv, TypeOK, StoresOK, KnownOK, DoingOK, PastOK, AboutOK, Meta,
        Blob, KeyConstants
<1>32. ASSUME NEW p \in Process, OpenAsk(p) PROVE SeenInv'
  BY <1>32 DEF OpenAsk, Found, Reaches, Kept, SeenInv, NameInv, StageInv,
        ReadInv, LockInv, DirSteps, FileSteps, OsNamed, TypeInv, TypeOK,
        StoresOK, KnownOK, DoingOK, PastOK, AboutOK, Meta, Blob, KeyConstants
<1>33. ASSUME NEW p \in Process, NotFound(p) PROVE SeenInv'
  BY <1>33 DEF NotFound, SeenInv, NameInv, StageInv, ReadInv, LockInv,
        DirSteps, FileSteps, OsNamed, TypeInv, TypeOK, StoresOK, KnownOK,
        DoingOK, PastOK, AboutOK, Meta, Blob, KeyConstants
<1>34. ASSUME NEW p \in Process, Crash(p) PROVE SeenInv'
  BY <1>34 DEF Crash, SeenInv, NameInv, StageInv, ReadInv, LockInv, DirSteps,
        FileSteps, OsNamed, TypeInv, TypeOK, StoresOK, KnownOK, DoingOK,
        PastOK, AboutOK, Meta, Blob, KeyConstants
<1>35. ASSUME NEW s \in host.loses, Lose(s) PROVE SeenInv'
  BY <1>35 DEF Lose, Slot, SetSlot, SeenInv, NameInv, StageInv, ReadInv,
        LockInv, DirSteps, FileSteps, OsNamed, TypeInv, TypeOK, StoresOK,
        KnownOK, DoingOK, PastOK, AboutOK, Meta, Blob, KeyConstants
<1> QED
  BY <1>1, <1>2, <1>3, <1>4, <1>5, <1>6, <1>7, <1>8, <1>9, <1>10, <1>11,
        <1>12, <1>13, <1>14, <1>15, <1>16, <1>17, <1>18, <1>19, <1>20, <1>21,
        <1>22, <1>23, <1>24, <1>25, <1>26, <1>27, <1>28, <1>29, <1>30, <1>31,
        <1>32, <1>33, <1>34, <1>35
  DEF Next, Save, PutBack, Mint, Move, Open

InFile(k) == k \in {file} \cup lost

\* About to be sealed under, as the file's key.
ForFile(p) ==
  \/ pc[p] \in {"confirm", "promote"}
  \/ pc[p] = "heal" /\ why[p] = "seal"
  \/ Adopts(p) /\ pc[p] \in {"mint", "mintNamed", "name", "minted"}

\* Until atrest.json names a key of the keystore, the file has every key a blob
\* is sealed under, or lost it.
FileInv ==
  ~OsNamed =>
    /\ \A b \in sealed : InFile(b.key)
    /\ \A p \in Process : ForFile(p) => InFile(key[p])

LEMMA FileStep ==
  ASSUME KeyConstants, TypeInv, LockInv, NameInv, SeenInv, FileInv, Next PROVE FileInv'
<1> USE DEF stores, locks, known, search, outside, past, Goto, For, Reads,
      About, Remembers, SealsWith, InFile, ForFile, Adopts
<1>1. ASSUME NEW p \in Process, SealBegin(p) PROVE FileInv'
  BY <1>1 DEF SealBegin, FileInv, SeenInv, NameInv, StageInv, ReadInv,
        PlaceInv, SealedInv, NamedKeyHeld, InPlace, Slot, LockInv, DirSteps,
        FileSteps, OsNamed, TypeInv, TypeOK, StoresOK, KnownOK, DoingOK,
        PastOK, AboutOK, Meta, Blob, KeyConstants
<1>2. ASSUME NEW p \in Process, Confirm(p) PROVE FileInv'
  BY <1>2 DEF Confirm, Answers, Reaches, Stands, Seal, Fails, FileInv,
        SeenInv, NameInv, StageInv, ReadInv, PlaceInv, SealedInv,
        NamedKeyHeld, InPlace, Slot, LockInv, DirSteps, FileSteps, OsNamed,
        TypeInv, TypeOK, StoresOK, KnownOK, DoingOK, PastOK, AboutOK, Meta,
        Blob, KeyConstants
<1>3. ASSUME NEW p \in Process, Ask(p) PROVE FileInv'
  BY <1>3 DEF Ask, Answers, Reaches, Seal, FileInv, SeenInv, NameInv,
        StageInv, ReadInv, PlaceInv, SealedInv, NamedKeyHeld, InPlace, Slot,
        LockInv, DirSteps, FileSteps, OsNamed, TypeInv, TypeOK, StoresOK,
        KnownOK, DoingOK, PastOK, AboutOK, Meta, Blob, KeyConstants
<1>4. ASSUME NEW p \in Process, FallbackRead(p) PROVE FileInv'
  BY <1>4 DEF FallbackRead, Seal, FileInv, SeenInv, NameInv, StageInv,
        ReadInv, PlaceInv, SealedInv, NamedKeyHeld, InPlace, Slot, LockInv,
        DirSteps, FileSteps, OsNamed, TypeInv, TypeOK, StoresOK, KnownOK,
        DoingOK, PastOK, AboutOK, Meta, Blob, KeyConstants
<1>5. ASSUME NEW p \in Process, FallbackMake(p) PROVE FileInv'
  BY <1>5 DEF FallbackMake, Seal, FileInv, SeenInv, NameInv, StageInv,
        ReadInv, PlaceInv, SealedInv, NamedKeyHeld, InPlace, Slot, LockInv,
        DirSteps, FileSteps, OsNamed, TypeInv, TypeOK, StoresOK, KnownOK,
        DoingOK, PastOK, AboutOK, Meta, Blob, KeyConstants
<1>6. ASSUME NEW p \in Process, FallbackTimeout(p) PROVE FileInv'
  BY <1>6 DEF FallbackTimeout, FileInv, SeenInv, NameInv, StageInv, ReadInv,
        PlaceInv, SealedInv, NamedKeyHeld, InPlace, Slot, LockInv, DirSteps,
        FileSteps, OsNamed, TypeInv, TypeOK, StoresOK, KnownOK, DoingOK,
        PastOK, AboutOK, Meta, Blob, KeyConstants
<1>7. ASSUME NEW p \in Process, Repair(p) PROVE FileInv'
  BY <1>7 DEF Repair, FileInv, SeenInv, NameInv, StageInv, ReadInv, PlaceInv,
        SealedInv, NamedKeyHeld, InPlace, Slot, LockInv, DirSteps, FileSteps,
        OsNamed, TypeInv, TypeOK, StoresOK, KnownOK, DoingOK, PastOK, AboutOK,
        Meta, Blob, KeyConstants
<1>8. ASSUME NEW p \in Process, HealLock(p) PROVE FileInv'
  BY <1>8 DEF HealLock, StillNamed, HealFails, Fails, FileInv, SeenInv,
        NameInv, StageInv, ReadInv, PlaceInv, SealedInv, NamedKeyHeld,
        InPlace, Slot, LockInv, DirSteps, FileSteps, OsNamed, TypeInv, TypeOK,
        StoresOK, KnownOK, DoingOK, PastOK, AboutOK, Meta, Blob, KeyConstants
<1>9. ASSUME NEW p \in Process, HealTimeout(p) PROVE FileInv'
  BY <1>9 DEF HealTimeout, HealFails, Fails, FileInv, SeenInv, NameInv,
        StageInv, ReadInv, PlaceInv, SealedInv, NamedKeyHeld, InPlace, Slot,
        LockInv, DirSteps, FileSteps, OsNamed, TypeInv, TypeOK, StoresOK,
        KnownOK, DoingOK, PastOK, AboutOK, Meta, Blob, KeyConstants
<1>10. ASSUME NEW p \in Process, Heal(p) PROVE FileInv'
  BY <1>10 DEF Heal, Slot, PutNew, Reaches, Put, SetSlot, StillNamed,
        HealFails, Fails, Stands, Seal, FileInv, SeenInv, NameInv, StageInv,
        ReadInv, PlaceInv, SealedInv, NamedKeyHeld, InPlace, LockInv,
        DirSteps, FileSteps, OsNamed, TypeInv, TypeOK, StoresOK, KnownOK,
        DoingOK, PastOK, AboutOK, Meta, Blob, KeyConstants
<1>11. ASSUME NEW p \in Process, MintLock(p) PROVE FileInv'
  BY <1>11 DEF MintLock, FileInv, SeenInv, NameInv, StageInv, ReadInv,
        PlaceInv, SealedInv, NamedKeyHeld, InPlace, Slot, LockInv, DirSteps,
        FileSteps, OsNamed, TypeInv, TypeOK, StoresOK, KnownOK, DoingOK,
        PastOK, AboutOK, Meta, Blob, KeyConstants
<1>12. ASSUME NEW p \in Process, MintTimeout(p) PROVE FileInv'
  BY <1>12 DEF MintTimeout, MintFails, Adopts, FileInv, SeenInv, NameInv,
        StageInv, ReadInv, PlaceInv, SealedInv, NamedKeyHeld, InPlace, Slot,
        LockInv, DirSteps, FileSteps, OsNamed, TypeInv, TypeOK, StoresOK,
        KnownOK, DoingOK, PastOK, AboutOK, Meta, Blob, KeyConstants
<1>13. ASSUME NEW p \in Process, MintNamed(p) PROVE FileInv'
  BY <1>13 DEF MintNamed, Answers, Reaches, MintFails, Adopts, FileInv,
        SeenInv, NameInv, StageInv, ReadInv, PlaceInv, SealedInv,
        NamedKeyHeld, InPlace, Slot, LockInv, DirSteps, FileSteps, OsNamed,
        TypeInv, TypeOK, StoresOK, KnownOK, DoingOK, PastOK, AboutOK, Meta,
        Blob, KeyConstants
<1>14. ASSUME NEW p \in Process, MintOS(p) PROVE FileInv'
  BY <1>14 DEF MintOS, Reaches, Draft, MintFails, Adopts, FileInv, SeenInv,
        NameInv, StageInv, ReadInv, PlaceInv, SealedInv, NamedKeyHeld,
        InPlace, Slot, LockInv, DirSteps, FileSteps, OsNamed, TypeInv, TypeOK,
        StoresOK, KnownOK, DoingOK, PastOK, AboutOK, Meta, Blob, KeyConstants
<1>15. ASSUME NEW p \in Process, MintFile(p) PROVE FileInv'
  BY <1>15 DEF MintFile, Reaches, Draft, FileInv, SeenInv, NameInv, StageInv,
        ReadInv, PlaceInv, SealedInv, NamedKeyHeld, InPlace, Slot, LockInv,
        DirSteps, FileSteps, OsNamed, TypeInv, TypeOK, StoresOK, KnownOK,
        DoingOK, PastOK, AboutOK, Meta, Blob, KeyConstants
<1>16. ASSUME NEW p \in Process, MintMove(p) PROVE FileInv'
  BY <1>16 DEF MintMove, Put, FileInv, SeenInv, NameInv, StageInv, ReadInv,
        PlaceInv, SealedInv, NamedKeyHeld, InPlace, Slot, LockInv, DirSteps,
        FileSteps, OsNamed, TypeInv, TypeOK, StoresOK, KnownOK, DoingOK,
        PastOK, AboutOK, Meta, Blob, KeyConstants
<1>17. ASSUME NEW p \in Process, MintPut(p) PROVE FileInv'
  BY <1>17 DEF MintPut, Put, Draft, FileInv, SeenInv, NameInv, StageInv,
        ReadInv, PlaceInv, SealedInv, NamedKeyHeld, InPlace, Slot, LockInv,
        DirSteps, FileSteps, OsNamed, TypeInv, TypeOK, StoresOK, KnownOK,
        DoingOK, PastOK, AboutOK, Meta, Blob, KeyConstants
<1>18. ASSUME NEW p \in Process, MintPutFile(p) PROVE FileInv'
  BY <1>18 DEF MintPutFile, Draft, FileInv, SeenInv, NameInv, StageInv,
        ReadInv, PlaceInv, SealedInv, NamedKeyHeld, InPlace, Slot, LockInv,
        DirSteps, FileSteps, OsNamed, TypeInv, TypeOK, StoresOK, KnownOK,
        DoingOK, PastOK, AboutOK, Meta, Blob, KeyConstants
<1>19. ASSUME NEW p \in Process, Name(p) PROVE FileInv'
  BY <1>19 DEF Name, FileInv, SeenInv, NameInv, StageInv, ReadInv, PlaceInv,
        SealedInv, NamedKeyHeld, InPlace, Slot, LockInv, DirSteps, FileSteps,
        OsNamed, TypeInv, TypeOK, StoresOK, KnownOK, DoingOK, PastOK, AboutOK,
        Meta, Blob, KeyConstants
<1>20. ASSUME NEW p \in Process, Minted(p) PROVE FileInv'
  BY <1>20 DEF Minted, Adopts, Seal, FileInv, SeenInv, NameInv, StageInv,
        ReadInv, PlaceInv, SealedInv, NamedKeyHeld, InPlace, Slot, LockInv,
        DirSteps, FileSteps, OsNamed, TypeInv, TypeOK, StoresOK, KnownOK,
        DoingOK, PastOK, AboutOK, Meta, Blob, KeyConstants
<1>21. ASSUME NEW p \in Process, PromoteLock(p) PROVE FileInv'
  BY <1>21 DEF PromoteLock, StillNamed, Reaches, Seal, FileInv, SeenInv,
        NameInv, StageInv, ReadInv, PlaceInv, SealedInv, NamedKeyHeld,
        InPlace, Slot, LockInv, DirSteps, FileSteps, OsNamed, TypeInv, TypeOK,
        StoresOK, KnownOK, DoingOK, PastOK, AboutOK, Meta, Blob, KeyConstants
<1>22. ASSUME NEW p \in Process, PromoteTimeout(p) PROVE FileInv'
  BY <1>22 DEF PromoteTimeout, Seal, FileInv, SeenInv, NameInv, StageInv,
        ReadInv, PlaceInv, SealedInv, NamedKeyHeld, InPlace, Slot, LockInv,
        DirSteps, FileSteps, OsNamed, TypeInv, TypeOK, StoresOK, KnownOK,
        DoingOK, PastOK, AboutOK, Meta, Blob, KeyConstants
<1>23. ASSUME NEW p \in Process, PromotePut(p) PROVE FileInv'
  BY <1>23 DEF PromotePut, PutNew, Slot, Reaches, Put, Seal, FileInv, SeenInv,
        NameInv, StageInv, ReadInv, PlaceInv, SealedInv, NamedKeyHeld,
        InPlace, LockInv, DirSteps, FileSteps, OsNamed, TypeInv, TypeOK,
        StoresOK, KnownOK, DoingOK, PastOK, AboutOK, Meta, Blob, KeyConstants
<1>24. ASSUME NEW p \in Process, NameMoved(p) PROVE FileInv'
  BY <1>24 DEF NameMoved, FileInv, SeenInv, NameInv, StageInv, ReadInv,
        PlaceInv, SealedInv, NamedKeyHeld, InPlace, Slot, LockInv, DirSteps,
        FileSteps, OsNamed, TypeInv, TypeOK, StoresOK, KnownOK, DoingOK,
        PastOK, AboutOK, Meta, Blob, KeyConstants
<1>25. ASSUME NEW p \in Process, Unfile(p) PROVE FileInv'
  BY <1>25 DEF Unfile, Seal, FileInv, SeenInv, NameInv, StageInv, ReadInv,
        PlaceInv, SealedInv, NamedKeyHeld, InPlace, Slot, LockInv, DirSteps,
        FileSteps, OsNamed, TypeInv, TypeOK, StoresOK, KnownOK, DoingOK,
        PastOK, AboutOK, Meta, Blob, KeyConstants
<1>26. ASSUME NEW p \in Process, MoveLock(p) PROVE FileInv'
  BY <1>26 DEF MoveLock, Seal, FileInv, SeenInv, NameInv, StageInv, ReadInv,
        PlaceInv, SealedInv, NamedKeyHeld, InPlace, Slot, LockInv, DirSteps,
        FileSteps, OsNamed, TypeInv, TypeOK, StoresOK, KnownOK, DoingOK,
        PastOK, AboutOK, Meta, Blob, KeyConstants
<1>27. ASSUME NEW p \in Process, MovePut(p) PROVE FileInv'
  BY <1>27 DEF MovePut, Seal, FileInv, SeenInv, NameInv, StageInv, ReadInv,
        PlaceInv, SealedInv, NamedKeyHeld, InPlace, Slot, LockInv, DirSteps,
        FileSteps, OsNamed, TypeInv, TypeOK, StoresOK, KnownOK, DoingOK,
        PastOK, AboutOK, Meta, Blob, KeyConstants
<1>28. ASSUME NEW p \in Process, Note(p) PROVE FileInv'
  BY <1>28 DEF Note, FileInv, SeenInv, NameInv, StageInv, ReadInv, PlaceInv,
        SealedInv, NamedKeyHeld, InPlace, Slot, LockInv, DirSteps, FileSteps,
        OsNamed, TypeInv, TypeOK, StoresOK, KnownOK, DoingOK, PastOK, AboutOK,
        Meta, Blob, KeyConstants
<1>29. ASSUME NEW p \in Process, NoteWrite(p) PROVE FileInv'
  BY <1>29 DEF NoteWrite, FileInv, SeenInv, NameInv, StageInv, ReadInv,
        PlaceInv, SealedInv, NamedKeyHeld, InPlace, Slot, LockInv, DirSteps,
        FileSteps, OsNamed, TypeInv, TypeOK, StoresOK, KnownOK, DoingOK,
        PastOK, AboutOK, Meta, Blob, KeyConstants
<1>30. ASSUME NEW p \in Process, Moved(p) PROVE FileInv'
  BY <1>30 DEF Moved, Seal, FileInv, SeenInv, NameInv, StageInv, ReadInv,
        PlaceInv, SealedInv, NamedKeyHeld, InPlace, Slot, LockInv, DirSteps,
        FileSteps, OsNamed, TypeInv, TypeOK, StoresOK, KnownOK, DoingOK,
        PastOK, AboutOK, Meta, Blob, KeyConstants
<1>31. ASSUME NEW p \in Process, NEW b \in sealed, OpenBegin(p, b) PROVE FileInv'
  BY <1>31 DEF OpenBegin, Order, NoAnswer, Reaches, FileOnlyHome, FileInv,
        SeenInv, NameInv, StageInv, ReadInv, PlaceInv, SealedInv,
        NamedKeyHeld, InPlace, Slot, LockInv, DirSteps, FileSteps, OsNamed,
        TypeInv, TypeOK, StoresOK, KnownOK, DoingOK, PastOK, AboutOK, Meta,
        Blob, KeyConstants
<1>32. ASSUME NEW p \in Process, OpenAsk(p) PROVE FileInv'
  BY <1>32 DEF OpenAsk, Found, Reaches, Kept, FileInv, SeenInv, NameInv,
        StageInv, ReadInv, PlaceInv, SealedInv, NamedKeyHeld, InPlace, Slot,
        LockInv, DirSteps, FileSteps, OsNamed, TypeInv, TypeOK, StoresOK,
        KnownOK, DoingOK, PastOK, AboutOK, Meta, Blob, KeyConstants
<1>33. ASSUME NEW p \in Process, NotFound(p) PROVE FileInv'
  BY <1>33 DEF NotFound, FileInv, SeenInv, NameInv, StageInv, ReadInv,
        PlaceInv, SealedInv, NamedKeyHeld, InPlace, Slot, LockInv, DirSteps,
        FileSteps, OsNamed, TypeInv, TypeOK, StoresOK, KnownOK, DoingOK,
        PastOK, AboutOK, Meta, Blob, KeyConstants
<1>34. ASSUME NEW p \in Process, Crash(p) PROVE FileInv'
  BY <1>34 DEF Crash, FileInv, SeenInv, NameInv, StageInv, ReadInv, PlaceInv,
        SealedInv, NamedKeyHeld, InPlace, Slot, LockInv, DirSteps, FileSteps,
        OsNamed, TypeInv, TypeOK, StoresOK, KnownOK, DoingOK, PastOK, AboutOK,
        Meta, Blob, KeyConstants
<1>35. ASSUME NEW s \in host.loses, Lose(s) PROVE FileInv'
  BY <1>35 DEF Lose, Slot, SetSlot, FileInv, SeenInv, NameInv, StageInv,
        ReadInv, PlaceInv, SealedInv, NamedKeyHeld, InPlace, LockInv,
        DirSteps, FileSteps, OsNamed, TypeInv, TypeOK, StoresOK, KnownOK,
        DoingOK, PastOK, AboutOK, Meta, Blob, KeyConstants
<1> QED
  BY <1>1, <1>2, <1>3, <1>4, <1>5, <1>6, <1>7, <1>8, <1>9, <1>10, <1>11,
        <1>12, <1>13, <1>14, <1>15, <1>16, <1>17, <1>18, <1>19, <1>20, <1>21,
        <1>22, <1>23, <1>24, <1>25, <1>26, <1>27, <1>28, <1>29, <1>30, <1>31,
        <1>32, <1>33, <1>34, <1>35
  DEF Next, Save, PutBack, Mint, Move, Open

\* A key on its way to a slot of its own is in the file, or in the keystore
\* already, or lost.
MoveInv == \A p \in Process : pc[p] = "moving" => key[p] \in {file, main} \cup lost

LEMMA MoveStep ==
  ASSUME KeyConstants, TypeInv, LockInv, NameInv, MoveInv, Next PROVE MoveInv'
<1> USE DEF stores, locks, known, search, outside, past, Goto, For, Reads,
      About, Remembers, SealsWith
<1>1. ASSUME NEW p \in Process, SealBegin(p) PROVE MoveInv'
  BY <1>1 DEF SealBegin, MoveInv, NameInv, StageInv, PlaceInv, NamedKeyHeld,
        Slot, LockInv, DirSteps, FileSteps, OsNamed, TypeInv, TypeOK,
        StoresOK, KnownOK, DoingOK, PastOK, AboutOK, Meta, Blob, KeyConstants
<1>2. ASSUME NEW p \in Process, Confirm(p) PROVE MoveInv'
  BY <1>2 DEF Confirm, Answers, Reaches, Stands, Seal, Fails, MoveInv,
        NameInv, StageInv, PlaceInv, NamedKeyHeld, Slot, LockInv, DirSteps,
        FileSteps, OsNamed, TypeInv, TypeOK, StoresOK, KnownOK, DoingOK,
        PastOK, AboutOK, Meta, Blob, KeyConstants
<1>3. ASSUME NEW p \in Process, Ask(p) PROVE MoveInv'
  BY <1>3 DEF Ask, Answers, Reaches, Seal, MoveInv, NameInv, StageInv,
        PlaceInv, NamedKeyHeld, Slot, LockInv, DirSteps, FileSteps, OsNamed,
        TypeInv, TypeOK, StoresOK, KnownOK, DoingOK, PastOK, AboutOK, Meta,
        Blob, KeyConstants
<1>4. ASSUME NEW p \in Process, FallbackRead(p) PROVE MoveInv'
  BY <1>4 DEF FallbackRead, Seal, MoveInv, NameInv, StageInv, PlaceInv,
        NamedKeyHeld, Slot, LockInv, DirSteps, FileSteps, OsNamed, TypeInv,
        TypeOK, StoresOK, KnownOK, DoingOK, PastOK, AboutOK, Meta, Blob,
        KeyConstants
<1>5. ASSUME NEW p \in Process, FallbackMake(p) PROVE MoveInv'
  BY <1>5 DEF FallbackMake, Seal, MoveInv, NameInv, StageInv, PlaceInv,
        NamedKeyHeld, Slot, LockInv, DirSteps, FileSteps, OsNamed, TypeInv,
        TypeOK, StoresOK, KnownOK, DoingOK, PastOK, AboutOK, Meta, Blob,
        KeyConstants
<1>6. ASSUME NEW p \in Process, FallbackTimeout(p) PROVE MoveInv'
  BY <1>6 DEF FallbackTimeout, MoveInv, NameInv, StageInv, PlaceInv,
        NamedKeyHeld, Slot, LockInv, DirSteps, FileSteps, OsNamed, TypeInv,
        TypeOK, StoresOK, KnownOK, DoingOK, PastOK, AboutOK, Meta, Blob,
        KeyConstants
<1>7. ASSUME NEW p \in Process, Repair(p) PROVE MoveInv'
  BY <1>7 DEF Repair, MoveInv, NameInv, StageInv, PlaceInv, NamedKeyHeld,
        Slot, LockInv, DirSteps, FileSteps, OsNamed, TypeInv, TypeOK,
        StoresOK, KnownOK, DoingOK, PastOK, AboutOK, Meta, Blob, KeyConstants
<1>8. ASSUME NEW p \in Process, HealLock(p) PROVE MoveInv'
  BY <1>8 DEF HealLock, StillNamed, HealFails, Fails, MoveInv, NameInv,
        StageInv, PlaceInv, NamedKeyHeld, Slot, LockInv, DirSteps, FileSteps,
        OsNamed, TypeInv, TypeOK, StoresOK, KnownOK, DoingOK, PastOK, AboutOK,
        Meta, Blob, KeyConstants
<1>9. ASSUME NEW p \in Process, HealTimeout(p) PROVE MoveInv'
  BY <1>9 DEF HealTimeout, HealFails, Fails, MoveInv, NameInv, StageInv,
        PlaceInv, NamedKeyHeld, Slot, LockInv, DirSteps, FileSteps, OsNamed,
        TypeInv, TypeOK, StoresOK, KnownOK, DoingOK, PastOK, AboutOK, Meta,
        Blob, KeyConstants
<1>10. ASSUME NEW p \in Process, Heal(p) PROVE MoveInv'
  BY <1>10 DEF Heal, Slot, PutNew, Reaches, Put, SetSlot, StillNamed,
        HealFails, Fails, Stands, Seal, MoveInv, NameInv, StageInv, PlaceInv,
        NamedKeyHeld, LockInv, DirSteps, FileSteps, OsNamed, TypeInv, TypeOK,
        StoresOK, KnownOK, DoingOK, PastOK, AboutOK, Meta, Blob, KeyConstants
<1>11. ASSUME NEW p \in Process, MintLock(p) PROVE MoveInv'
  BY <1>11 DEF MintLock, MoveInv, NameInv, StageInv, PlaceInv, NamedKeyHeld,
        Slot, LockInv, DirSteps, FileSteps, OsNamed, TypeInv, TypeOK,
        StoresOK, KnownOK, DoingOK, PastOK, AboutOK, Meta, Blob, KeyConstants
<1>12. ASSUME NEW p \in Process, MintTimeout(p) PROVE MoveInv'
  BY <1>12 DEF MintTimeout, MintFails, Adopts, MoveInv, NameInv, StageInv,
        PlaceInv, NamedKeyHeld, Slot, LockInv, DirSteps, FileSteps, OsNamed,
        TypeInv, TypeOK, StoresOK, KnownOK, DoingOK, PastOK, AboutOK, Meta,
        Blob, KeyConstants
<1>13. ASSUME NEW p \in Process, MintNamed(p) PROVE MoveInv'
  BY <1>13 DEF MintNamed, Answers, Reaches, MintFails, Adopts, MoveInv,
        NameInv, StageInv, PlaceInv, NamedKeyHeld, Slot, LockInv, DirSteps,
        FileSteps, OsNamed, TypeInv, TypeOK, StoresOK, KnownOK, DoingOK,
        PastOK, AboutOK, Meta, Blob, KeyConstants
<1>14. ASSUME NEW p \in Process, MintOS(p) PROVE MoveInv'
  BY <1>14 DEF MintOS, Reaches, Draft, MintFails, Adopts, MoveInv, NameInv,
        StageInv, PlaceInv, NamedKeyHeld, Slot, LockInv, DirSteps, FileSteps,
        OsNamed, TypeInv, TypeOK, StoresOK, KnownOK, DoingOK, PastOK, AboutOK,
        Meta, Blob, KeyConstants
<1>15. ASSUME NEW p \in Process, MintFile(p) PROVE MoveInv'
  BY <1>15 DEF MintFile, Reaches, Draft, MoveInv, NameInv, StageInv, PlaceInv,
        NamedKeyHeld, Slot, LockInv, DirSteps, FileSteps, OsNamed, TypeInv,
        TypeOK, StoresOK, KnownOK, DoingOK, PastOK, AboutOK, Meta, Blob,
        KeyConstants
<1>16. ASSUME NEW p \in Process, MintMove(p) PROVE MoveInv'
  BY <1>16 DEF MintMove, Put, MoveInv, NameInv, StageInv, PlaceInv,
        NamedKeyHeld, Slot, LockInv, DirSteps, FileSteps, OsNamed, TypeInv,
        TypeOK, StoresOK, KnownOK, DoingOK, PastOK, AboutOK, Meta, Blob,
        KeyConstants
<1>17. ASSUME NEW p \in Process, MintPut(p) PROVE MoveInv'
  BY <1>17 DEF MintPut, Put, Draft, MoveInv, NameInv, StageInv, PlaceInv,
        NamedKeyHeld, Slot, LockInv, DirSteps, FileSteps, OsNamed, TypeInv,
        TypeOK, StoresOK, KnownOK, DoingOK, PastOK, AboutOK, Meta, Blob,
        KeyConstants
<1>18. ASSUME NEW p \in Process, MintPutFile(p) PROVE MoveInv'
  BY <1>18 DEF MintPutFile, Draft, MoveInv, NameInv, StageInv, PlaceInv,
        NamedKeyHeld, Slot, LockInv, DirSteps, FileSteps, OsNamed, TypeInv,
        TypeOK, StoresOK, KnownOK, DoingOK, PastOK, AboutOK, Meta, Blob,
        KeyConstants
<1>19. ASSUME NEW p \in Process, Name(p) PROVE MoveInv'
  BY <1>19 DEF Name, MoveInv, NameInv, StageInv, PlaceInv, NamedKeyHeld, Slot,
        LockInv, DirSteps, FileSteps, OsNamed, TypeInv, TypeOK, StoresOK,
        KnownOK, DoingOK, PastOK, AboutOK, Meta, Blob, KeyConstants
<1>20. ASSUME NEW p \in Process, Minted(p) PROVE MoveInv'
  BY <1>20 DEF Minted, Adopts, Seal, MoveInv, NameInv, StageInv, PlaceInv,
        NamedKeyHeld, Slot, LockInv, DirSteps, FileSteps, OsNamed, TypeInv,
        TypeOK, StoresOK, KnownOK, DoingOK, PastOK, AboutOK, Meta, Blob,
        KeyConstants
<1>21. ASSUME NEW p \in Process, PromoteLock(p) PROVE MoveInv'
  BY <1>21 DEF PromoteLock, StillNamed, Reaches, Seal, MoveInv, NameInv,
        StageInv, PlaceInv, NamedKeyHeld, Slot, LockInv, DirSteps, FileSteps,
        OsNamed, TypeInv, TypeOK, StoresOK, KnownOK, DoingOK, PastOK, AboutOK,
        Meta, Blob, KeyConstants
<1>22. ASSUME NEW p \in Process, PromoteTimeout(p) PROVE MoveInv'
  BY <1>22 DEF PromoteTimeout, Seal, MoveInv, NameInv, StageInv, PlaceInv,
        NamedKeyHeld, Slot, LockInv, DirSteps, FileSteps, OsNamed, TypeInv,
        TypeOK, StoresOK, KnownOK, DoingOK, PastOK, AboutOK, Meta, Blob,
        KeyConstants
<1>23. ASSUME NEW p \in Process, PromotePut(p) PROVE MoveInv'
  BY <1>23 DEF PromotePut, PutNew, Slot, Reaches, Put, Seal, MoveInv, NameInv,
        StageInv, PlaceInv, NamedKeyHeld, LockInv, DirSteps, FileSteps,
        OsNamed, TypeInv, TypeOK, StoresOK, KnownOK, DoingOK, PastOK, AboutOK,
        Meta, Blob, KeyConstants
<1>24. ASSUME NEW p \in Process, NameMoved(p) PROVE MoveInv'
  BY <1>24 DEF NameMoved, MoveInv, NameInv, StageInv, PlaceInv, NamedKeyHeld,
        Slot, LockInv, DirSteps, FileSteps, OsNamed, TypeInv, TypeOK,
        StoresOK, KnownOK, DoingOK, PastOK, AboutOK, Meta, Blob, KeyConstants
<1>25. ASSUME NEW p \in Process, Unfile(p) PROVE MoveInv'
  BY <1>25 DEF Unfile, Seal, MoveInv, NameInv, StageInv, PlaceInv,
        NamedKeyHeld, Slot, LockInv, DirSteps, FileSteps, OsNamed, TypeInv,
        TypeOK, StoresOK, KnownOK, DoingOK, PastOK, AboutOK, Meta, Blob,
        KeyConstants
<1>26. ASSUME NEW p \in Process, MoveLock(p) PROVE MoveInv'
  BY <1>26 DEF MoveLock, Seal, MoveInv, NameInv, StageInv, PlaceInv,
        NamedKeyHeld, Slot, LockInv, DirSteps, FileSteps, OsNamed, TypeInv,
        TypeOK, StoresOK, KnownOK, DoingOK, PastOK, AboutOK, Meta, Blob,
        KeyConstants
<1>27. ASSUME NEW p \in Process, MovePut(p) PROVE MoveInv'
  BY <1>27 DEF MovePut, Seal, MoveInv, NameInv, StageInv, PlaceInv,
        NamedKeyHeld, Slot, LockInv, DirSteps, FileSteps, OsNamed, TypeInv,
        TypeOK, StoresOK, KnownOK, DoingOK, PastOK, AboutOK, Meta, Blob,
        KeyConstants
<1>28. ASSUME NEW p \in Process, Note(p) PROVE MoveInv'
  BY <1>28 DEF Note, MoveInv, NameInv, StageInv, PlaceInv, NamedKeyHeld, Slot,
        LockInv, DirSteps, FileSteps, OsNamed, TypeInv, TypeOK, StoresOK,
        KnownOK, DoingOK, PastOK, AboutOK, Meta, Blob, KeyConstants
<1>29. ASSUME NEW p \in Process, NoteWrite(p) PROVE MoveInv'
  BY <1>29 DEF NoteWrite, MoveInv, NameInv, StageInv, PlaceInv, NamedKeyHeld,
        Slot, LockInv, DirSteps, FileSteps, OsNamed, TypeInv, TypeOK,
        StoresOK, KnownOK, DoingOK, PastOK, AboutOK, Meta, Blob, KeyConstants
<1>30. ASSUME NEW p \in Process, Moved(p) PROVE MoveInv'
  BY <1>30 DEF Moved, Seal, MoveInv, NameInv, StageInv, PlaceInv,
        NamedKeyHeld, Slot, LockInv, DirSteps, FileSteps, OsNamed, TypeInv,
        TypeOK, StoresOK, KnownOK, DoingOK, PastOK, AboutOK, Meta, Blob,
        KeyConstants
<1>31. ASSUME NEW p \in Process, NEW b \in sealed, OpenBegin(p, b) PROVE MoveInv'
  BY <1>31 DEF OpenBegin, Order, NoAnswer, Reaches, FileOnlyHome, MoveInv,
        NameInv, StageInv, PlaceInv, NamedKeyHeld, Slot, LockInv, DirSteps,
        FileSteps, OsNamed, TypeInv, TypeOK, StoresOK, KnownOK, DoingOK,
        PastOK, AboutOK, Meta, Blob, KeyConstants
<1>32. ASSUME NEW p \in Process, OpenAsk(p) PROVE MoveInv'
  BY <1>32 DEF OpenAsk, Found, Reaches, Kept, MoveInv, NameInv, StageInv,
        PlaceInv, NamedKeyHeld, Slot, LockInv, DirSteps, FileSteps, OsNamed,
        TypeInv, TypeOK, StoresOK, KnownOK, DoingOK, PastOK, AboutOK, Meta,
        Blob, KeyConstants
<1>33. ASSUME NEW p \in Process, NotFound(p) PROVE MoveInv'
  BY <1>33 DEF NotFound, MoveInv, NameInv, StageInv, PlaceInv, NamedKeyHeld,
        Slot, LockInv, DirSteps, FileSteps, OsNamed, TypeInv, TypeOK,
        StoresOK, KnownOK, DoingOK, PastOK, AboutOK, Meta, Blob, KeyConstants
<1>34. ASSUME NEW p \in Process, Crash(p) PROVE MoveInv'
  BY <1>34 DEF Crash, MoveInv, NameInv, StageInv, PlaceInv, NamedKeyHeld,
        Slot, LockInv, DirSteps, FileSteps, OsNamed, TypeInv, TypeOK,
        StoresOK, KnownOK, DoingOK, PastOK, AboutOK, Meta, Blob, KeyConstants
<1>35. ASSUME NEW s \in host.loses, Lose(s) PROVE MoveInv'
  BY <1>35 DEF Lose, Slot, SetSlot, MoveInv, NameInv, StageInv, PlaceInv,
        NamedKeyHeld, LockInv, DirSteps, FileSteps, OsNamed, TypeInv, TypeOK,
        StoresOK, KnownOK, DoingOK, PastOK, AboutOK, Meta, Blob, KeyConstants
<1> QED
  BY <1>1, <1>2, <1>3, <1>4, <1>5, <1>6, <1>7, <1>8, <1>9, <1>10, <1>11,
        <1>12, <1>13, <1>14, <1>15, <1>16, <1>17, <1>18, <1>19, <1>20, <1>21,
        <1>22, <1>23, <1>24, <1>25, <1>26, <1>27, <1>28, <1>29, <1>30, <1>31,
        <1>32, <1>33, <1>34, <1>35
  DEF Next, Save, PutBack, Mint, Move, Open

------------------------------------------------------------------------------
(* Keys move the way a search goes *)

\* A store comes to hold a key blobs are sealed under only from one that is
\* asked before it: the keystore from the file, a slot of its own from either.
Forward ==
  /\ sealed \subseteq sealed' /\ lost \subseteq lost'
  /\ \A b \in sealed :
       b.key \notin lost' =>
         /\ file' = b.key => file = b.key
         /\ main' = b.key => b.key \in {file, main}
         /\ b.key \in byId' => b.key \in {file, main} \cup byId

LEMMA ForwardStep ==
  ASSUME KeyConstants, TypeInv, LockInv, NameInv, MadeInv, FileInv, MoveInv, Next
  PROVE  Forward
<1> USE DEF stores, locks, known, search, outside, past, Goto, For, Reads,
      About, Remembers, SealsWith, Forward, InFile
<1>1. ASSUME NEW p \in Process, SealBegin(p) PROVE Forward
  BY <1>1 DEF SealBegin, MadeInv, FileInv, MoveInv, NameInv, StageInv,
        ReadInv, PlaceInv, SealedInv, NamedKeyHeld, InPlace, Slot, LockInv,
        DirSteps, FileSteps, OsNamed, TypeInv, TypeOK, StoresOK, KnownOK,
        DoingOK, PastOK, AboutOK, Meta, Blob, KeyConstants
<1>2. ASSUME NEW p \in Process, Confirm(p) PROVE Forward
  BY <1>2 DEF Confirm, Answers, Reaches, Stands, Seal, Fails, MadeInv,
        FileInv, MoveInv, NameInv, StageInv, ReadInv, PlaceInv, SealedInv,
        NamedKeyHeld, InPlace, Slot, LockInv, DirSteps, FileSteps, OsNamed,
        TypeInv, TypeOK, StoresOK, KnownOK, DoingOK, PastOK, AboutOK, Meta,
        Blob, KeyConstants
<1>3. ASSUME NEW p \in Process, Ask(p) PROVE Forward
  BY <1>3 DEF Ask, Answers, Reaches, Seal, MadeInv, FileInv, MoveInv, NameInv,
        StageInv, ReadInv, PlaceInv, SealedInv, NamedKeyHeld, InPlace, Slot,
        LockInv, DirSteps, FileSteps, OsNamed, TypeInv, TypeOK, StoresOK,
        KnownOK, DoingOK, PastOK, AboutOK, Meta, Blob, KeyConstants
<1>4. ASSUME NEW p \in Process, FallbackRead(p) PROVE Forward
  BY <1>4 DEF FallbackRead, Seal, MadeInv, FileInv, MoveInv, NameInv,
        StageInv, ReadInv, PlaceInv, SealedInv, NamedKeyHeld, InPlace, Slot,
        LockInv, DirSteps, FileSteps, OsNamed, TypeInv, TypeOK, StoresOK,
        KnownOK, DoingOK, PastOK, AboutOK, Meta, Blob, KeyConstants
<1>5. ASSUME NEW p \in Process, FallbackMake(p) PROVE Forward
  BY <1>5 DEF FallbackMake, Seal, MadeInv, FileInv, MoveInv, NameInv,
        StageInv, ReadInv, PlaceInv, SealedInv, NamedKeyHeld, InPlace, Slot,
        LockInv, DirSteps, FileSteps, OsNamed, TypeInv, TypeOK, StoresOK,
        KnownOK, DoingOK, PastOK, AboutOK, Meta, Blob, KeyConstants
<1>6. ASSUME NEW p \in Process, FallbackTimeout(p) PROVE Forward
  BY <1>6 DEF FallbackTimeout, MadeInv, FileInv, MoveInv, NameInv, StageInv,
        ReadInv, PlaceInv, SealedInv, NamedKeyHeld, InPlace, Slot, LockInv,
        DirSteps, FileSteps, OsNamed, TypeInv, TypeOK, StoresOK, KnownOK,
        DoingOK, PastOK, AboutOK, Meta, Blob, KeyConstants
<1>7. ASSUME NEW p \in Process, Repair(p) PROVE Forward
  BY <1>7 DEF Repair, MadeInv, FileInv, MoveInv, NameInv, StageInv, ReadInv,
        PlaceInv, SealedInv, NamedKeyHeld, InPlace, Slot, LockInv, DirSteps,
        FileSteps, OsNamed, TypeInv, TypeOK, StoresOK, KnownOK, DoingOK,
        PastOK, AboutOK, Meta, Blob, KeyConstants
<1>8. ASSUME NEW p \in Process, HealLock(p) PROVE Forward
  BY <1>8 DEF HealLock, StillNamed, HealFails, Fails, MadeInv, FileInv,
        MoveInv, NameInv, StageInv, ReadInv, PlaceInv, SealedInv,
        NamedKeyHeld, InPlace, Slot, LockInv, DirSteps, FileSteps, OsNamed,
        TypeInv, TypeOK, StoresOK, KnownOK, DoingOK, PastOK, AboutOK, Meta,
        Blob, KeyConstants
<1>9. ASSUME NEW p \in Process, HealTimeout(p) PROVE Forward
  BY <1>9 DEF HealTimeout, HealFails, Fails, MadeInv, FileInv, MoveInv,
        NameInv, StageInv, ReadInv, PlaceInv, SealedInv, NamedKeyHeld,
        InPlace, Slot, LockInv, DirSteps, FileSteps, OsNamed, TypeInv, TypeOK,
        StoresOK, KnownOK, DoingOK, PastOK, AboutOK, Meta, Blob, KeyConstants
<1>10. ASSUME NEW p \in Process, Heal(p) PROVE Forward
  BY <1>10 DEF Heal, Slot, PutNew, Reaches, Put, SetSlot, StillNamed,
        HealFails, Fails, Stands, Seal, MadeInv, FileInv, MoveInv, NameInv,
        StageInv, ReadInv, PlaceInv, SealedInv, NamedKeyHeld, InPlace,
        LockInv, DirSteps, FileSteps, OsNamed, TypeInv, TypeOK, StoresOK,
        KnownOK, DoingOK, PastOK, AboutOK, Meta, Blob, KeyConstants
<1>11. ASSUME NEW p \in Process, MintLock(p) PROVE Forward
  BY <1>11 DEF MintLock, MadeInv, FileInv, MoveInv, NameInv, StageInv,
        ReadInv, PlaceInv, SealedInv, NamedKeyHeld, InPlace, Slot, LockInv,
        DirSteps, FileSteps, OsNamed, TypeInv, TypeOK, StoresOK, KnownOK,
        DoingOK, PastOK, AboutOK, Meta, Blob, KeyConstants
<1>12. ASSUME NEW p \in Process, MintTimeout(p) PROVE Forward
  BY <1>12 DEF MintTimeout, MintFails, Adopts, MadeInv, FileInv, MoveInv,
        NameInv, StageInv, ReadInv, PlaceInv, SealedInv, NamedKeyHeld,
        InPlace, Slot, LockInv, DirSteps, FileSteps, OsNamed, TypeInv, TypeOK,
        StoresOK, KnownOK, DoingOK, PastOK, AboutOK, Meta, Blob, KeyConstants
<1>13. ASSUME NEW p \in Process, MintNamed(p) PROVE Forward
  BY <1>13 DEF MintNamed, Answers, Reaches, MintFails, Adopts, MadeInv,
        FileInv, MoveInv, NameInv, StageInv, ReadInv, PlaceInv, SealedInv,
        NamedKeyHeld, InPlace, Slot, LockInv, DirSteps, FileSteps, OsNamed,
        TypeInv, TypeOK, StoresOK, KnownOK, DoingOK, PastOK, AboutOK, Meta,
        Blob, KeyConstants
<1>14. ASSUME NEW p \in Process, MintOS(p) PROVE Forward
  BY <1>14 DEF MintOS, Reaches, Draft, MintFails, Adopts, MadeInv, FileInv,
        MoveInv, NameInv, StageInv, ReadInv, PlaceInv, SealedInv,
        NamedKeyHeld, InPlace, Slot, LockInv, DirSteps, FileSteps, OsNamed,
        TypeInv, TypeOK, StoresOK, KnownOK, DoingOK, PastOK, AboutOK, Meta,
        Blob, KeyConstants
<1>15. ASSUME NEW p \in Process, MintFile(p) PROVE Forward
  BY <1>15 DEF MintFile, Reaches, Draft, MadeInv, FileInv, MoveInv, NameInv,
        StageInv, ReadInv, PlaceInv, SealedInv, NamedKeyHeld, InPlace, Slot,
        LockInv, DirSteps, FileSteps, OsNamed, TypeInv, TypeOK, StoresOK,
        KnownOK, DoingOK, PastOK, AboutOK, Meta, Blob, KeyConstants
<1>16. ASSUME NEW p \in Process, MintMove(p) PROVE Forward
  BY <1>16 DEF MintMove, Put, MadeInv, FileInv, MoveInv, NameInv, StageInv,
        ReadInv, PlaceInv, SealedInv, NamedKeyHeld, InPlace, Slot, LockInv,
        DirSteps, FileSteps, OsNamed, TypeInv, TypeOK, StoresOK, KnownOK,
        DoingOK, PastOK, AboutOK, Meta, Blob, KeyConstants
<1>17. ASSUME NEW p \in Process, MintPut(p) PROVE Forward
  BY <1>17 DEF MintPut, Put, Draft, MadeInv, FileInv, MoveInv, NameInv,
        StageInv, ReadInv, PlaceInv, SealedInv, NamedKeyHeld, InPlace, Slot,
        LockInv, DirSteps, FileSteps, OsNamed, TypeInv, TypeOK, StoresOK,
        KnownOK, DoingOK, PastOK, AboutOK, Meta, Blob, KeyConstants
<1>18. ASSUME NEW p \in Process, MintPutFile(p) PROVE Forward
  BY <1>18 DEF MintPutFile, Draft, MadeInv, FileInv, MoveInv, NameInv,
        StageInv, ReadInv, PlaceInv, SealedInv, NamedKeyHeld, InPlace, Slot,
        LockInv, DirSteps, FileSteps, OsNamed, TypeInv, TypeOK, StoresOK,
        KnownOK, DoingOK, PastOK, AboutOK, Meta, Blob, KeyConstants
<1>19. ASSUME NEW p \in Process, Name(p) PROVE Forward
  BY <1>19 DEF Name, MadeInv, FileInv, MoveInv, NameInv, StageInv, ReadInv,
        PlaceInv, SealedInv, NamedKeyHeld, InPlace, Slot, LockInv, DirSteps,
        FileSteps, OsNamed, TypeInv, TypeOK, StoresOK, KnownOK, DoingOK,
        PastOK, AboutOK, Meta, Blob, KeyConstants
<1>20. ASSUME NEW p \in Process, Minted(p) PROVE Forward
  BY <1>20 DEF Minted, Adopts, Seal, MadeInv, FileInv, MoveInv, NameInv,
        StageInv, ReadInv, PlaceInv, SealedInv, NamedKeyHeld, InPlace, Slot,
        LockInv, DirSteps, FileSteps, OsNamed, TypeInv, TypeOK, StoresOK,
        KnownOK, DoingOK, PastOK, AboutOK, Meta, Blob, KeyConstants
<1>21. ASSUME NEW p \in Process, PromoteLock(p) PROVE Forward
  BY <1>21 DEF PromoteLock, StillNamed, Reaches, Seal, MadeInv, FileInv,
        MoveInv, NameInv, StageInv, ReadInv, PlaceInv, SealedInv,
        NamedKeyHeld, InPlace, Slot, LockInv, DirSteps, FileSteps, OsNamed,
        TypeInv, TypeOK, StoresOK, KnownOK, DoingOK, PastOK, AboutOK, Meta,
        Blob, KeyConstants
<1>22. ASSUME NEW p \in Process, PromoteTimeout(p) PROVE Forward
  BY <1>22 DEF PromoteTimeout, Seal, MadeInv, FileInv, MoveInv, NameInv,
        StageInv, ReadInv, PlaceInv, SealedInv, NamedKeyHeld, InPlace, Slot,
        LockInv, DirSteps, FileSteps, OsNamed, TypeInv, TypeOK, StoresOK,
        KnownOK, DoingOK, PastOK, AboutOK, Meta, Blob, KeyConstants
<1>23. ASSUME NEW p \in Process, PromotePut(p) PROVE Forward
  BY <1>23 DEF PromotePut, PutNew, Slot, Reaches, Put, Seal, MadeInv, FileInv,
        MoveInv, NameInv, StageInv, ReadInv, PlaceInv, SealedInv,
        NamedKeyHeld, InPlace, LockInv, DirSteps, FileSteps, OsNamed, TypeInv,
        TypeOK, StoresOK, KnownOK, DoingOK, PastOK, AboutOK, Meta, Blob,
        KeyConstants
<1>24. ASSUME NEW p \in Process, NameMoved(p) PROVE Forward
  BY <1>24 DEF NameMoved, MadeInv, FileInv, MoveInv, NameInv, StageInv,
        ReadInv, PlaceInv, SealedInv, NamedKeyHeld, InPlace, Slot, LockInv,
        DirSteps, FileSteps, OsNamed, TypeInv, TypeOK, StoresOK, KnownOK,
        DoingOK, PastOK, AboutOK, Meta, Blob, KeyConstants
<1>25. ASSUME NEW p \in Process, Unfile(p) PROVE Forward
  BY <1>25 DEF Unfile, Seal, MadeInv, FileInv, MoveInv, NameInv, StageInv,
        ReadInv, PlaceInv, SealedInv, NamedKeyHeld, InPlace, Slot, LockInv,
        DirSteps, FileSteps, OsNamed, TypeInv, TypeOK, StoresOK, KnownOK,
        DoingOK, PastOK, AboutOK, Meta, Blob, KeyConstants
<1>26. ASSUME NEW p \in Process, MoveLock(p) PROVE Forward
  BY <1>26 DEF MoveLock, Seal, MadeInv, FileInv, MoveInv, NameInv, StageInv,
        ReadInv, PlaceInv, SealedInv, NamedKeyHeld, InPlace, Slot, LockInv,
        DirSteps, FileSteps, OsNamed, TypeInv, TypeOK, StoresOK, KnownOK,
        DoingOK, PastOK, AboutOK, Meta, Blob, KeyConstants
<1>27. ASSUME NEW p \in Process, MovePut(p) PROVE Forward
  BY <1>27 DEF MovePut, Seal, MadeInv, FileInv, MoveInv, NameInv, StageInv,
        ReadInv, PlaceInv, SealedInv, NamedKeyHeld, InPlace, Slot, LockInv,
        DirSteps, FileSteps, OsNamed, TypeInv, TypeOK, StoresOK, KnownOK,
        DoingOK, PastOK, AboutOK, Meta, Blob, KeyConstants
<1>28. ASSUME NEW p \in Process, Note(p) PROVE Forward
  BY <1>28 DEF Note, MadeInv, FileInv, MoveInv, NameInv, StageInv, ReadInv,
        PlaceInv, SealedInv, NamedKeyHeld, InPlace, Slot, LockInv, DirSteps,
        FileSteps, OsNamed, TypeInv, TypeOK, StoresOK, KnownOK, DoingOK,
        PastOK, AboutOK, Meta, Blob, KeyConstants
<1>29. ASSUME NEW p \in Process, NoteWrite(p) PROVE Forward
  BY <1>29 DEF NoteWrite, MadeInv, FileInv, MoveInv, NameInv, StageInv,
        ReadInv, PlaceInv, SealedInv, NamedKeyHeld, InPlace, Slot, LockInv,
        DirSteps, FileSteps, OsNamed, TypeInv, TypeOK, StoresOK, KnownOK,
        DoingOK, PastOK, AboutOK, Meta, Blob, KeyConstants
<1>30. ASSUME NEW p \in Process, Moved(p) PROVE Forward
  BY <1>30 DEF Moved, Seal, MadeInv, FileInv, MoveInv, NameInv, StageInv,
        ReadInv, PlaceInv, SealedInv, NamedKeyHeld, InPlace, Slot, LockInv,
        DirSteps, FileSteps, OsNamed, TypeInv, TypeOK, StoresOK, KnownOK,
        DoingOK, PastOK, AboutOK, Meta, Blob, KeyConstants
<1>31. ASSUME NEW p \in Process, NEW b \in sealed, OpenBegin(p, b) PROVE Forward
  BY <1>31 DEF OpenBegin, Order, NoAnswer, Reaches, FileOnlyHome, MadeInv,
        FileInv, MoveInv, NameInv, StageInv, ReadInv, PlaceInv, SealedInv,
        NamedKeyHeld, InPlace, Slot, LockInv, DirSteps, FileSteps, OsNamed,
        TypeInv, TypeOK, StoresOK, KnownOK, DoingOK, PastOK, AboutOK, Meta,
        Blob, KeyConstants
<1>32. ASSUME NEW p \in Process, OpenAsk(p) PROVE Forward
  BY <1>32 DEF OpenAsk, Found, Reaches, Kept, MadeInv, FileInv, MoveInv,
        NameInv, StageInv, ReadInv, PlaceInv, SealedInv, NamedKeyHeld,
        InPlace, Slot, LockInv, DirSteps, FileSteps, OsNamed, TypeInv, TypeOK,
        StoresOK, KnownOK, DoingOK, PastOK, AboutOK, Meta, Blob, KeyConstants
<1>33. ASSUME NEW p \in Process, NotFound(p) PROVE Forward
  BY <1>33 DEF NotFound, MadeInv, FileInv, MoveInv, NameInv, StageInv,
        ReadInv, PlaceInv, SealedInv, NamedKeyHeld, InPlace, Slot, LockInv,
        DirSteps, FileSteps, OsNamed, TypeInv, TypeOK, StoresOK, KnownOK,
        DoingOK, PastOK, AboutOK, Meta, Blob, KeyConstants
<1>34. ASSUME NEW p \in Process, Crash(p) PROVE Forward
  BY <1>34 DEF Crash, MadeInv, FileInv, MoveInv, NameInv, StageInv, ReadInv,
        PlaceInv, SealedInv, NamedKeyHeld, InPlace, Slot, LockInv, DirSteps,
        FileSteps, OsNamed, TypeInv, TypeOK, StoresOK, KnownOK, DoingOK,
        PastOK, AboutOK, Meta, Blob, KeyConstants
<1>35. ASSUME NEW s \in host.loses, Lose(s) PROVE Forward
  BY <1>35 DEF Lose, Slot, SetSlot, MadeInv, FileInv, MoveInv, NameInv,
        StageInv, ReadInv, PlaceInv, SealedInv, NamedKeyHeld, InPlace,
        LockInv, DirSteps, FileSteps, OsNamed, TypeInv, TypeOK, StoresOK,
        KnownOK, DoingOK, PastOK, AboutOK, Meta, Blob, KeyConstants
<1> QED
  BY <1>1, <1>2, <1>3, <1>4, <1>5, <1>6, <1>7, <1>8, <1>9, <1>10, <1>11,
        <1>12, <1>13, <1>14, <1>15, <1>16, <1>17, <1>18, <1>19, <1>20, <1>21,
        <1>22, <1>23, <1>24, <1>25, <1>26, <1>27, <1>28, <1>29, <1>30, <1>31,
        <1>32, <1>33, <1>34, <1>35
  DEF Next, Save, PutBack, Mint, Move, Open

\* The machine stays what it is; where some process reaches no keystore, the
\* name of a key of the file stands.
FileHome == ~host.desktop /\ meta # None /\ meta.source = "file"
HomeStays == host' = host /\ (FileHome => FileHome')

LEMMA HomeStep ==
  ASSUME KeyConstants, TypeInv, NameInv, SeenInv, Next PROVE HomeStays
<1> USE DEF stores, locks, known, search, outside, past, Goto, For, Reads,
      About, Remembers, SealsWith, HomeStays, FileHome
<1>1. ASSUME NEW p \in Process, SealBegin(p) PROVE HomeStays
  BY <1>1 DEF SealBegin, SeenInv, NameInv, StageInv, ReadInv, PlaceInv,
        OsNamed, TypeInv, TypeOK, StoresOK, KnownOK, DoingOK, PastOK, AboutOK,
        Meta, Blob, KeyConstants
<1>2. ASSUME NEW p \in Process, Confirm(p) PROVE HomeStays
  BY <1>2 DEF Confirm, Answers, Reaches, Stands, Seal, Fails, SeenInv,
        NameInv, StageInv, ReadInv, PlaceInv, OsNamed, TypeInv, TypeOK,
        StoresOK, KnownOK, DoingOK, PastOK, AboutOK, Meta, Blob, KeyConstants
<1>3. ASSUME NEW p \in Process, Ask(p) PROVE HomeStays
  BY <1>3 DEF Ask, Answers, Reaches, Seal, SeenInv, NameInv, StageInv,
        ReadInv, PlaceInv, OsNamed, TypeInv, TypeOK, StoresOK, KnownOK,
        DoingOK, PastOK, AboutOK, Meta, Blob, KeyConstants
<1>4. ASSUME NEW p \in Process, FallbackRead(p) PROVE HomeStays
  BY <1>4 DEF FallbackRead, Seal, SeenInv, NameInv, StageInv, ReadInv,
        PlaceInv, OsNamed, TypeInv, TypeOK, StoresOK, KnownOK, DoingOK,
        PastOK, AboutOK, Meta, Blob, KeyConstants
<1>5. ASSUME NEW p \in Process, FallbackMake(p) PROVE HomeStays
  BY <1>5 DEF FallbackMake, Seal, SeenInv, NameInv, StageInv, ReadInv,
        PlaceInv, OsNamed, TypeInv, TypeOK, StoresOK, KnownOK, DoingOK,
        PastOK, AboutOK, Meta, Blob, KeyConstants
<1>6. ASSUME NEW p \in Process, FallbackTimeout(p) PROVE HomeStays
  BY <1>6 DEF FallbackTimeout, SeenInv, NameInv, StageInv, ReadInv, PlaceInv,
        OsNamed, TypeInv, TypeOK, StoresOK, KnownOK, DoingOK, PastOK, AboutOK,
        Meta, Blob, KeyConstants
<1>7. ASSUME NEW p \in Process, Repair(p) PROVE HomeStays
  BY <1>7 DEF Repair, SeenInv, NameInv, StageInv, ReadInv, PlaceInv, OsNamed,
        TypeInv, TypeOK, StoresOK, KnownOK, DoingOK, PastOK, AboutOK, Meta,
        Blob, KeyConstants
<1>8. ASSUME NEW p \in Process, HealLock(p) PROVE HomeStays
  BY <1>8 DEF HealLock, StillNamed, HealFails, Fails, SeenInv, NameInv,
        StageInv, ReadInv, PlaceInv, OsNamed, TypeInv, TypeOK, StoresOK,
        KnownOK, DoingOK, PastOK, AboutOK, Meta, Blob, KeyConstants
<1>9. ASSUME NEW p \in Process, HealTimeout(p) PROVE HomeStays
  BY <1>9 DEF HealTimeout, HealFails, Fails, SeenInv, NameInv, StageInv,
        ReadInv, PlaceInv, OsNamed, TypeInv, TypeOK, StoresOK, KnownOK,
        DoingOK, PastOK, AboutOK, Meta, Blob, KeyConstants
<1>10. ASSUME NEW p \in Process, Heal(p) PROVE HomeStays
  BY <1>10 DEF Heal, Slot, PutNew, Reaches, Put, SetSlot, StillNamed,
        HealFails, Fails, Stands, Seal, SeenInv, NameInv, StageInv, ReadInv,
        PlaceInv, OsNamed, TypeInv, TypeOK, StoresOK, KnownOK, DoingOK,
        PastOK, AboutOK, Meta, Blob, KeyConstants
<1>11. ASSUME NEW p \in Process, MintLock(p) PROVE HomeStays
  BY <1>11 DEF MintLock, SeenInv, NameInv, StageInv, ReadInv, PlaceInv,
        OsNamed, TypeInv, TypeOK, StoresOK, KnownOK, DoingOK, PastOK, AboutOK,
        Meta, Blob, KeyConstants
<1>12. ASSUME NEW p \in Process, MintTimeout(p) PROVE HomeStays
  BY <1>12 DEF MintTimeout, MintFails, Adopts, SeenInv, NameInv, StageInv,
        ReadInv, PlaceInv, OsNamed, TypeInv, TypeOK, StoresOK, KnownOK,
        DoingOK, PastOK, AboutOK, Meta, Blob, KeyConstants
<1>13. ASSUME NEW p \in Process, MintNamed(p) PROVE HomeStays
  BY <1>13 DEF MintNamed, Answers, Reaches, MintFails, Adopts, SeenInv,
        NameInv, StageInv, ReadInv, PlaceInv, OsNamed, TypeInv, TypeOK,
        StoresOK, KnownOK, DoingOK, PastOK, AboutOK, Meta, Blob, KeyConstants
<1>14. ASSUME NEW p \in Process, MintOS(p) PROVE HomeStays
  BY <1>14 DEF MintOS, Reaches, Draft, MintFails, Adopts, SeenInv, NameInv,
        StageInv, ReadInv, PlaceInv, OsNamed, TypeInv, TypeOK, StoresOK,
        KnownOK, DoingOK, PastOK, AboutOK, Meta, Blob, KeyConstants
<1>15. ASSUME NEW p \in Process, MintFile(p) PROVE HomeStays
  BY <1>15 DEF MintFile, Reaches, Draft, SeenInv, NameInv, StageInv, ReadInv,
        PlaceInv, OsNamed, TypeInv, TypeOK, StoresOK, KnownOK, DoingOK,
        PastOK, AboutOK, Meta, Blob, KeyConstants
<1>16. ASSUME NEW p \in Process, MintMove(p) PROVE HomeStays
  BY <1>16 DEF MintMove, Put, SeenInv, NameInv, StageInv, ReadInv, PlaceInv,
        OsNamed, TypeInv, TypeOK, StoresOK, KnownOK, DoingOK, PastOK, AboutOK,
        Meta, Blob, KeyConstants
<1>17. ASSUME NEW p \in Process, MintPut(p) PROVE HomeStays
  BY <1>17 DEF MintPut, Put, Draft, SeenInv, NameInv, StageInv, ReadInv,
        PlaceInv, OsNamed, TypeInv, TypeOK, StoresOK, KnownOK, DoingOK,
        PastOK, AboutOK, Meta, Blob, KeyConstants
<1>18. ASSUME NEW p \in Process, MintPutFile(p) PROVE HomeStays
  BY <1>18 DEF MintPutFile, Draft, SeenInv, NameInv, StageInv, ReadInv,
        PlaceInv, OsNamed, TypeInv, TypeOK, StoresOK, KnownOK, DoingOK,
        PastOK, AboutOK, Meta, Blob, KeyConstants
<1>19. ASSUME NEW p \in Process, Name(p) PROVE HomeStays
  BY <1>19 DEF Name, SeenInv, NameInv, StageInv, ReadInv, PlaceInv, OsNamed,
        TypeInv, TypeOK, StoresOK, KnownOK, DoingOK, PastOK, AboutOK, Meta,
        Blob, KeyConstants
<1>20. ASSUME NEW p \in Process, Minted(p) PROVE HomeStays
  BY <1>20 DEF Minted, Adopts, Seal, SeenInv, NameInv, StageInv, ReadInv,
        PlaceInv, OsNamed, TypeInv, TypeOK, StoresOK, KnownOK, DoingOK,
        PastOK, AboutOK, Meta, Blob, KeyConstants
<1>21. ASSUME NEW p \in Process, PromoteLock(p) PROVE HomeStays
  BY <1>21 DEF PromoteLock, StillNamed, Reaches, Seal, SeenInv, NameInv,
        StageInv, ReadInv, PlaceInv, OsNamed, TypeInv, TypeOK, StoresOK,
        KnownOK, DoingOK, PastOK, AboutOK, Meta, Blob, KeyConstants
<1>22. ASSUME NEW p \in Process, PromoteTimeout(p) PROVE HomeStays
  BY <1>22 DEF PromoteTimeout, Seal, SeenInv, NameInv, StageInv, ReadInv,
        PlaceInv, OsNamed, TypeInv, TypeOK, StoresOK, KnownOK, DoingOK,
        PastOK, AboutOK, Meta, Blob, KeyConstants
<1>23. ASSUME NEW p \in Process, PromotePut(p) PROVE HomeStays
  BY <1>23 DEF PromotePut, PutNew, Slot, Reaches, Put, Seal, SeenInv, NameInv,
        StageInv, ReadInv, PlaceInv, OsNamed, TypeInv, TypeOK, StoresOK,
        KnownOK, DoingOK, PastOK, AboutOK, Meta, Blob, KeyConstants
<1>24. ASSUME NEW p \in Process, NameMoved(p) PROVE HomeStays
  BY <1>24 DEF NameMoved, SeenInv, NameInv, StageInv, ReadInv, PlaceInv,
        OsNamed, TypeInv, TypeOK, StoresOK, KnownOK, DoingOK, PastOK, AboutOK,
        Meta, Blob, KeyConstants
<1>25. ASSUME NEW p \in Process, Unfile(p) PROVE HomeStays
  BY <1>25 DEF Unfile, Seal, SeenInv, NameInv, StageInv, ReadInv, PlaceInv,
        OsNamed, TypeInv, TypeOK, StoresOK, KnownOK, DoingOK, PastOK, AboutOK,
        Meta, Blob, KeyConstants
<1>26. ASSUME NEW p \in Process, MoveLock(p) PROVE HomeStays
  BY <1>26 DEF MoveLock, Seal, SeenInv, NameInv, StageInv, ReadInv, PlaceInv,
        OsNamed, TypeInv, TypeOK, StoresOK, KnownOK, DoingOK, PastOK, AboutOK,
        Meta, Blob, KeyConstants
<1>27. ASSUME NEW p \in Process, MovePut(p) PROVE HomeStays
  BY <1>27 DEF MovePut, Seal, SeenInv, NameInv, StageInv, ReadInv, PlaceInv,
        OsNamed, TypeInv, TypeOK, StoresOK, KnownOK, DoingOK, PastOK, AboutOK,
        Meta, Blob, KeyConstants
<1>28. ASSUME NEW p \in Process, Note(p) PROVE HomeStays
  BY <1>28 DEF Note, SeenInv, NameInv, StageInv, ReadInv, PlaceInv, OsNamed,
        TypeInv, TypeOK, StoresOK, KnownOK, DoingOK, PastOK, AboutOK, Meta,
        Blob, KeyConstants
<1>29. ASSUME NEW p \in Process, NoteWrite(p) PROVE HomeStays
  BY <1>29 DEF NoteWrite, SeenInv, NameInv, StageInv, ReadInv, PlaceInv,
        OsNamed, TypeInv, TypeOK, StoresOK, KnownOK, DoingOK, PastOK, AboutOK,
        Meta, Blob, KeyConstants
<1>30. ASSUME NEW p \in Process, Moved(p) PROVE HomeStays
  BY <1>30 DEF Moved, Seal, SeenInv, NameInv, StageInv, ReadInv, PlaceInv,
        OsNamed, TypeInv, TypeOK, StoresOK, KnownOK, DoingOK, PastOK, AboutOK,
        Meta, Blob, KeyConstants
<1>31. ASSUME NEW p \in Process, NEW b \in sealed, OpenBegin(p, b) PROVE HomeStays
  BY <1>31 DEF OpenBegin, Order, NoAnswer, Reaches, FileOnlyHome, SeenInv,
        NameInv, StageInv, ReadInv, PlaceInv, OsNamed, TypeInv, TypeOK,
        StoresOK, KnownOK, DoingOK, PastOK, AboutOK, Meta, Blob, KeyConstants
<1>32. ASSUME NEW p \in Process, OpenAsk(p) PROVE HomeStays
  BY <1>32 DEF OpenAsk, Found, Reaches, Kept, SeenInv, NameInv, StageInv,
        ReadInv, PlaceInv, OsNamed, TypeInv, TypeOK, StoresOK, KnownOK,
        DoingOK, PastOK, AboutOK, Meta, Blob, KeyConstants
<1>33. ASSUME NEW p \in Process, NotFound(p) PROVE HomeStays
  BY <1>33 DEF NotFound, SeenInv, NameInv, StageInv, ReadInv, PlaceInv,
        OsNamed, TypeInv, TypeOK, StoresOK, KnownOK, DoingOK, PastOK, AboutOK,
        Meta, Blob, KeyConstants
<1>34. ASSUME NEW p \in Process, Crash(p) PROVE HomeStays
  BY <1>34 DEF Crash, SeenInv, NameInv, StageInv, ReadInv, PlaceInv, OsNamed,
        TypeInv, TypeOK, StoresOK, KnownOK, DoingOK, PastOK, AboutOK, Meta,
        Blob, KeyConstants
<1>35. ASSUME NEW s \in host.loses, Lose(s) PROVE HomeStays
  BY <1>35 DEF Lose, Slot, SetSlot, SeenInv, NameInv, StageInv, ReadInv,
        PlaceInv, OsNamed, TypeInv, TypeOK, StoresOK, KnownOK, DoingOK,
        PastOK, AboutOK, Meta, Blob, KeyConstants
<1> QED
  BY <1>1, <1>2, <1>3, <1>4, <1>5, <1>6, <1>7, <1>8, <1>9, <1>10, <1>11,
        <1>12, <1>13, <1>14, <1>15, <1>16, <1>17, <1>18, <1>19, <1>20, <1>21,
        <1>22, <1>23, <1>24, <1>25, <1>26, <1>27, <1>28, <1>29, <1>30, <1>31,
        <1>32, <1>33, <1>34, <1>35
  DEF Next, Save, PutBack, Mint, Move, Open

\* A search is disturbed by no step but its own.
Searches(q) ==
  pc[q] = "open" /\ key'[q] = key[q] /\ asks'[q] = asks[q] /\ unsure'[q] = unsure[q]
Undisturbed(p) == \A q \in Process \ {p} : pc'[q] = "open" => Searches(q)

LEMMA SearchesStep ==
  ASSUME KeyConstants, TypeInv, Next
  PROVE  \/ \E p \in Process, b \in sealed : OpenBegin(p, b) /\ Undisturbed(p)
         \/ \E p \in Process : OpenAsk(p) /\ Undisturbed(p)
         \/ \A q \in Process : pc'[q] = "open" => Searches(q)
<1> USE DEF stores, locks, known, search, outside, past, Goto, For, Reads,
      About, Remembers, SealsWith, Searches, Undisturbed
<1>1. ASSUME NEW p \in Process, SealBegin(p)
      PROVE  \A q \in Process : pc'[q] = "open" => Searches(q)
  BY <1>1 DEF SealBegin, TypeInv, TypeOK, DoingOK, SearchOK
<1>2. ASSUME NEW p \in Process, Confirm(p)
      PROVE  \A q \in Process : pc'[q] = "open" => Searches(q)
  BY <1>2 DEF Confirm, Answers, Reaches, Stands, Seal, Fails, TypeInv, TypeOK,
        DoingOK, SearchOK
<1>3. ASSUME NEW p \in Process, Ask(p)
      PROVE  \A q \in Process : pc'[q] = "open" => Searches(q)
  BY <1>3 DEF Ask, Answers, Reaches, Seal, TypeInv, TypeOK, DoingOK, SearchOK
<1>4. ASSUME NEW p \in Process, FallbackRead(p)
      PROVE  \A q \in Process : pc'[q] = "open" => Searches(q)
  BY <1>4 DEF FallbackRead, Seal, TypeInv, TypeOK, DoingOK, SearchOK
<1>5. ASSUME NEW p \in Process, FallbackMake(p)
      PROVE  \A q \in Process : pc'[q] = "open" => Searches(q)
  BY <1>5 DEF FallbackMake, Seal, TypeInv, TypeOK, DoingOK, SearchOK
<1>6. ASSUME NEW p \in Process, FallbackTimeout(p)
      PROVE  \A q \in Process : pc'[q] = "open" => Searches(q)
  BY <1>6 DEF FallbackTimeout, TypeInv, TypeOK, DoingOK, SearchOK
<1>7. ASSUME NEW p \in Process, Repair(p)
      PROVE  \A q \in Process : pc'[q] = "open" => Searches(q)
  BY <1>7 DEF Repair, TypeInv, TypeOK, DoingOK, SearchOK
<1>8. ASSUME NEW p \in Process, HealLock(p)
      PROVE  \A q \in Process : pc'[q] = "open" => Searches(q)
  BY <1>8 DEF HealLock, StillNamed, HealFails, Fails, TypeInv, TypeOK,
        DoingOK, SearchOK
<1>9. ASSUME NEW p \in Process, HealTimeout(p)
      PROVE  \A q \in Process : pc'[q] = "open" => Searches(q)
  BY <1>9 DEF HealTimeout, HealFails, Fails, TypeInv, TypeOK, DoingOK,
        SearchOK
<1>10. ASSUME NEW p \in Process, Heal(p)
      PROVE  \A q \in Process : pc'[q] = "open" => Searches(q)
  BY <1>10 DEF Heal, Slot, PutNew, Reaches, Put, SetSlot, StillNamed,
        HealFails, Fails, Stands, Seal, TypeInv, TypeOK, DoingOK, SearchOK
<1>11. ASSUME NEW p \in Process, MintLock(p)
      PROVE  \A q \in Process : pc'[q] = "open" => Searches(q)
  BY <1>11 DEF MintLock, TypeInv, TypeOK, DoingOK, SearchOK
<1>12. ASSUME NEW p \in Process, MintTimeout(p)
      PROVE  \A q \in Process : pc'[q] = "open" => Searches(q)
  BY <1>12 DEF MintTimeout, MintFails, Adopts, TypeInv, TypeOK, DoingOK,
        SearchOK
<1>13. ASSUME NEW p \in Process, MintNamed(p)
      PROVE  \A q \in Process : pc'[q] = "open" => Searches(q)
  BY <1>13 DEF MintNamed, Answers, Reaches, MintFails, Adopts, TypeInv,
        TypeOK, DoingOK, SearchOK
<1>14. ASSUME NEW p \in Process, MintOS(p)
      PROVE  \A q \in Process : pc'[q] = "open" => Searches(q)
  BY <1>14 DEF MintOS, Reaches, Draft, MintFails, Adopts, TypeInv, TypeOK,
        DoingOK, SearchOK
<1>15. ASSUME NEW p \in Process, MintFile(p)
      PROVE  \A q \in Process : pc'[q] = "open" => Searches(q)
  BY <1>15 DEF MintFile, Reaches, Draft, TypeInv, TypeOK, DoingOK, SearchOK
<1>16. ASSUME NEW p \in Process, MintMove(p)
      PROVE  \A q \in Process : pc'[q] = "open" => Searches(q)
  BY <1>16 DEF MintMove, Put, TypeInv, TypeOK, DoingOK, SearchOK
<1>17. ASSUME NEW p \in Process, MintPut(p)
      PROVE  \A q \in Process : pc'[q] = "open" => Searches(q)
  BY <1>17 DEF MintPut, Put, Draft, TypeInv, TypeOK, DoingOK, SearchOK
<1>18. ASSUME NEW p \in Process, MintPutFile(p)
      PROVE  \A q \in Process : pc'[q] = "open" => Searches(q)
  BY <1>18 DEF MintPutFile, Draft, TypeInv, TypeOK, DoingOK, SearchOK
<1>19. ASSUME NEW p \in Process, Name(p)
      PROVE  \A q \in Process : pc'[q] = "open" => Searches(q)
  BY <1>19 DEF Name, TypeInv, TypeOK, DoingOK, SearchOK
<1>20. ASSUME NEW p \in Process, Minted(p)
      PROVE  \A q \in Process : pc'[q] = "open" => Searches(q)
  BY <1>20 DEF Minted, Adopts, Seal, TypeInv, TypeOK, DoingOK, SearchOK
<1>21. ASSUME NEW p \in Process, PromoteLock(p)
      PROVE  \A q \in Process : pc'[q] = "open" => Searches(q)
  BY <1>21 DEF PromoteLock, StillNamed, Reaches, Seal, TypeInv, TypeOK,
        DoingOK, SearchOK
<1>22. ASSUME NEW p \in Process, PromoteTimeout(p)
      PROVE  \A q \in Process : pc'[q] = "open" => Searches(q)
  BY <1>22 DEF PromoteTimeout, Seal, TypeInv, TypeOK, DoingOK, SearchOK
<1>23. ASSUME NEW p \in Process, PromotePut(p)
      PROVE  \A q \in Process : pc'[q] = "open" => Searches(q)
  BY <1>23 DEF PromotePut, PutNew, Slot, Reaches, Put, Seal, TypeInv, TypeOK,
        DoingOK, SearchOK
<1>24. ASSUME NEW p \in Process, NameMoved(p)
      PROVE  \A q \in Process : pc'[q] = "open" => Searches(q)
  BY <1>24 DEF NameMoved, TypeInv, TypeOK, DoingOK, SearchOK
<1>25. ASSUME NEW p \in Process, Unfile(p)
      PROVE  \A q \in Process : pc'[q] = "open" => Searches(q)
  BY <1>25 DEF Unfile, Seal, TypeInv, TypeOK, DoingOK, SearchOK
<1>26. ASSUME NEW p \in Process, MoveLock(p)
      PROVE  \A q \in Process : pc'[q] = "open" => Searches(q)
  BY <1>26 DEF MoveLock, Seal, TypeInv, TypeOK, DoingOK, SearchOK
<1>27. ASSUME NEW p \in Process, MovePut(p)
      PROVE  \A q \in Process : pc'[q] = "open" => Searches(q)
  BY <1>27 DEF MovePut, Seal, TypeInv, TypeOK, DoingOK, SearchOK
<1>28. ASSUME NEW p \in Process, Note(p)
      PROVE  \A q \in Process : pc'[q] = "open" => Searches(q)
  BY <1>28 DEF Note, TypeInv, TypeOK, DoingOK, SearchOK
<1>29. ASSUME NEW p \in Process, NoteWrite(p)
      PROVE  \A q \in Process : pc'[q] = "open" => Searches(q)
  BY <1>29 DEF NoteWrite, TypeInv, TypeOK, DoingOK, SearchOK
<1>30. ASSUME NEW p \in Process, Moved(p)
      PROVE  \A q \in Process : pc'[q] = "open" => Searches(q)
  BY <1>30 DEF Moved, Seal, TypeInv, TypeOK, DoingOK, SearchOK
<1>31. ASSUME NEW p \in Process, NEW b \in sealed, OpenBegin(p, b) PROVE Undisturbed(p)
  BY <1>31 DEF OpenBegin, Order, NoAnswer, Reaches, FileOnlyHome, TypeInv,
        TypeOK, DoingOK, SearchOK
<1>32. ASSUME NEW p \in Process, OpenAsk(p) PROVE Undisturbed(p)
  BY <1>32 DEF OpenAsk, Found, Reaches, Kept, TypeInv, TypeOK, DoingOK,
        SearchOK
<1>33. ASSUME NEW p \in Process, NotFound(p)
      PROVE  \A q \in Process : pc'[q] = "open" => Searches(q)
  BY <1>33 DEF NotFound, TypeInv, TypeOK, DoingOK, SearchOK
<1>34. ASSUME NEW p \in Process, Crash(p)
      PROVE  \A q \in Process : pc'[q] = "open" => Searches(q)
  BY <1>34 DEF Crash, TypeInv, TypeOK, DoingOK, SearchOK
<1>35. ASSUME NEW s \in host.loses, Lose(s)
      PROVE  \A q \in Process : pc'[q] = "open" => Searches(q)
  BY <1>35 DEF Lose, Slot, SetSlot, TypeInv, TypeOK, DoingOK, SearchOK
<1> QED
  BY <1>1, <1>2, <1>3, <1>4, <1>5, <1>6, <1>7, <1>8, <1>9, <1>10, <1>11,
        <1>12, <1>13, <1>14, <1>15, <1>16, <1>17, <1>18, <1>19, <1>20, <1>21,
        <1>22, <1>23, <1>24, <1>25, <1>26, <1>27, <1>28, <1>29, <1>30, <1>31,
        <1>32, <1>33, <1>34, <1>35
  DEF Next, Save, PutBack, Mint, Move, Open

------------------------------------------------------------------------------
(* The search *)

AskAll   == <<"file", "main", "byId">>
AskSlots == <<"main", "byId">>
AskById  == <<"byId">>
AskOS    == <<"main", "byId", "file">>
AskRest  == {<<"byId", "file">>, <<"file">>}

LEMMA Asks ==
  /\ Order("file") = AskAll /\ Order("os") = AskOS
  /\ Head(AskAll) = "file" /\ Tail(AskAll) = AskSlots
  /\ Head(AskSlots) = "main" /\ Tail(AskSlots) = AskById
  /\ Head(AskById) = "byId" /\ Tail(AskById) = << >>
  /\ Head(AskOS) = "main" /\ Tail(AskOS) \in AskRest
  /\ \A a \in AskRest : Tail(a) \in AskRest \cup {<< >>}
  /\ AskAll \notin {AskSlots, AskById, AskOS, << >>} /\ AskSlots \notin {AskById, AskOS, << >>}
  /\ AskById \notin {AskOS, << >>} /\ AskOS # << >>
  /\ {AskAll, AskSlots, AskById, AskOS, << >>} \cap AskRest = {}
  BY DEF Order, AskAll, AskSlots, AskById, AskOS, AskRest

\* What a search without a doubt has found out of a key that is not lost: the
\* stores asked do not hold it, and can no longer come to. Without a keystore
\* there is no doubt only where the file is the one store there is; the key of
\* a blob the keystore is to open is found at once.
NotAmong(q) ==
  /\ ~Reaches(q) => FileHome
  /\ asks[q] = AskOS => Reaches(q) /\ [key |-> key[q], src |-> "os"] \in sealed
  /\ asks[q] \notin AskRest
  /\ asks[q] \in {AskSlots, AskById, << >>} => file # key[q]
  /\ asks[q] \in {AskById, << >>} => main # key[q]
  /\ asks[q] = << >> => key[q] \notin byId
Searched(q) ==
  /\ \E b \in sealed : b.key = key[q]
  /\ asks[q] \in {AskAll, AskSlots, AskById, AskOS, << >>} \cup AskRest
  /\ ~unsure[q] /\ key[q] \notin lost => NotAmong(q)
SearchInv == \A q \in Process : pc[q] = "open" => Searched(q)

\* What was found out stays true, whatever the others move meanwhile.
LEMMA SearchedStays ==
  ASSUME Forward, HomeStays, NEW q \in Process, Searches(q), Searched(q)
  PROVE  Searched(q)'
<1>1. PICK b \in sealed : b.key = key[q]
  BY DEF Searched
<1>2. b \in sealed' /\ b.key = key'[q] /\ asks'[q] = asks[q] /\ unsure'[q] = unsure[q]
  BY <1>1 DEF Forward, Searches
<1>3. ASSUME ~unsure'[q], key'[q] \notin lost' PROVE NotAmong(q)'
  <2>1. key[q] \notin lost /\ ~unsure[q]
    BY <1>3 DEF Forward, Searches
  <2>2. NotAmong(q)
    BY <2>1 DEF Searched
  <2>3. /\ file' = key[q] => file = key[q]
        /\ main' = key[q] => key[q] \in {file, main}
        /\ key[q] \in byId' => key[q] \in {file, main} \cup byId
    BY <1>1, <1>2, <1>3 DEF Forward
  <2>4. ~Reaches(q)' => FileHome'
    BY <2>2 DEF NotAmong, HomeStays, Reaches
  <2>5. asks'[q] = AskOS => Reaches(q)' /\ [key |-> key'[q], src |-> "os"] \in sealed'
    BY <1>2, <2>2 DEF NotAmong, HomeStays, Reaches, Forward, Searches
  <2>6. asks'[q] \notin AskRest
    BY <1>2, <2>2 DEF NotAmong
  <2>7. /\ asks'[q] \in {AskSlots, AskById, << >>} => file' # key'[q]
        /\ asks'[q] \in {AskById, << >>} => main' # key'[q]
        /\ asks'[q] = << >> => key'[q] \notin byId'
    BY <1>2, <2>2, <2>3 DEF NotAmong, Searches
  <2> QED BY <2>4, <2>5, <2>6, <2>7 DEF NotAmong
<1> QED BY <1>2, <1>3 DEF Searched

\* A search begins with every store to ask; one that cannot ask a keystore is
\* in doubt but where atrest.json has only ever named a key of the file.
LEMMA SearchBegins ==
  ASSUME KeyConstants, TypeInv, NEW p \in Process, NEW b \in sealed, OpenBegin(p, b)
  PROVE  pc'[p] = "open" => Searched(p)'
<1>1. ASSUME pc'[p] = "open" PROVE Searched(p)'
  <2>0. b \in Blob /\ pc \in [Process -> Steps]
        /\ asks \in [Process -> Seq({"file", "main", "byId"})]
        /\ unsure \in [Process -> BOOLEAN] /\ key \in [Process -> Key \cup {None}]
    BY DEF TypeInv, TypeOK, DoingOK, SearchOK, PastOK
  <2>1. b.key \notin mem[p]
    BY <1>1, <2>0 DEF OpenBegin, Goto
  <2>2. key'[p] = b.key /\ asks'[p] = Order(b.src) /\ unsure'[p] = NoAnswer(p, b)
    BY <2>0, <2>1 DEF OpenBegin, About
  <2>3. UNCHANGED <<host, meta, file, main, byId, sealed, lost>>
    BY DEF OpenBegin, stores, past, outside
  <2>4. b = [key |-> b.key, src |-> b.src] /\ b.src \in {"file", "os"}
    BY <2>0 DEF Blob
  <2>5. ~NoAnswer(p, b) /\ ~Reaches(p) => b.src = "file" /\ FileHome
    <3>1. host.desktop => Reaches(p)
      BY DEF KeyConstants, TypeInv, TypeOK, StoresOK, Reaches
    <3> QED BY <3>1 DEF NoAnswer, FileOnlyHome, FileHome
  <2>6. CASE b.src = "file"
    <3>1. asks'[p] = AskAll
      BY <2>2, <2>6, Asks
    <3>2. ~unsure'[p] => NotAmong(p)'
      BY <2>2, <2>3, <2>5, <3>1, Asks DEF NotAmong, FileHome, Reaches
    <3> QED BY <2>2, <2>3, <3>1, <3>2 DEF Searched
  <2>7. CASE b.src = "os"
    <3>1. asks'[p] = AskOS /\ [key |-> key'[p], src |-> "os"] \in sealed'
      BY <2>2, <2>3, <2>4, <2>7, Asks
    <3>2. ~unsure'[p] => Reaches(p)'
      BY <2>2, <2>3, <2>5, <2>7 DEF Reaches
    <3>3. ~unsure'[p] => NotAmong(p)'
      BY <3>1, <3>2, Asks DEF NotAmong
    <3> QED BY <2>2, <2>3, <3>1, <3>3 DEF Searched
  <2> QED BY <2>4, <2>6, <2>7
<1> QED BY <1>1

\* A store asked for the key either holds another, or did not answer, or the
\* search is over; a key for the keystore is in its slot unless it was lost.
LEMMA SearchGoesOn ==
  ASSUME KeyConstants, TypeInv, NameInv, FileInv, NEW p \in Process, OpenAsk(p), Searched(p)
  PROVE  pc'[p] = "open" => Searched(p)'
<1>0. /\ pc \in [Process -> Steps] /\ asks \in [Process -> Seq({"file", "main", "byId"})]
      /\ unsure \in [Process -> BOOLEAN] /\ key \in [Process -> Key \cup {None}]
      /\ sealed \subseteq Blob
  BY DEF TypeInv, TypeOK, DoingOK, SearchOK, PastOK
<1>1. PICK b \in sealed : b.key = key[p]
  BY DEF Searched
<1>2. key[p] \in Key /\ key[p] # None /\ key[p] # Locked
  BY <1>0, <1>1 DEF Blob, KeyConstants
<1>3. PICK a \in Found(p, Head(asks[p])) :
        /\ unsure'[p] = (unsure[p] \/ a = Locked)
        /\ asks'[p] = IF a = key[p] THEN << >> ELSE Tail(asks[p])
        /\ a = key[p] => pc'[p] = "idle"
  <2>1. PICK a \in Found(p, Head(asks[p])) :
          /\ unsure' = [unsure EXCEPT ![p] = @ \/ a = Locked]
          /\ asks' = [asks EXCEPT ![p] = IF a = key[p] THEN << >> ELSE Tail(@)]
          /\ IF a = key[p] THEN pc' = [pc EXCEPT ![p] = "idle"] ELSE UNCHANGED pc
    BY DEF OpenAsk, Goto
  <2>2. /\ unsure'[p] = (unsure[p] \/ a = Locked)
        /\ asks'[p] = IF a = key[p] THEN << >> ELSE Tail(asks[p])
    BY <1>0, <2>1
  <2>3. a = key[p] => pc'[p] = "idle"
    BY <1>0, <2>1
  <2> QED BY <2>1, <2>2, <2>3
<1>4. UNCHANGED <<host, meta, file, main, byId, sealed, lost, key>> /\ asks[p] # << >>
  BY DEF OpenAsk, stores, past, outside
<1>5. ASSUME pc'[p] = "open" PROVE Searched(p)'
  <2>1. a # key[p] /\ asks'[p] = Tail(asks[p])
    BY <1>3, <1>5
  <2>2. /\ asks[p] = AskAll => asks'[p] = AskSlots
        /\ asks[p] = AskSlots => asks'[p] = AskById
        /\ asks[p] = AskById => asks'[p] = << >>
        /\ asks[p] = AskOS => asks'[p] \in AskRest
        /\ asks[p] \in AskRest => asks'[p] \in AskRest \cup {<< >>}
    BY <2>1, Asks
  <2>3. asks[p] \in {AskAll, AskSlots, AskById, AskOS} \cup AskRest
    BY <1>4 DEF Searched
  <2>4. asks'[p] \in {AskAll, AskSlots, AskById, AskOS, << >>} \cup AskRest
    BY <2>2, <2>3
  <2>5. ASSUME ~unsure'[p], key[p] \notin lost PROVE NotAmong(p)'
    <3>1. ~unsure[p] /\ a # Locked /\ NotAmong(p)
      BY <1>3, <2>5 DEF Searched
    <3>2. asks[p] \in {AskAll, AskSlots, AskById}
      <4>1. asks[p] # AskOS
        <5>1. SUFFICES ASSUME asks[p] = AskOS PROVE FALSE
          OBVIOUS
        <5>2. Reaches(p) /\ [key |-> key[p], src |-> "os"] \in sealed
          BY <3>1, <5>1 DEF NotAmong
        <5>3. main = key[p]
          BY <2>5, <5>2 DEF NameInv, SealedInv, PlaceInv, NamedKeyHeld, OsNamed, Slot
        <5>4. a \in {main, Locked}
          BY <1>3, <5>1, <5>2, Asks DEF Found
        <5> QED BY <2>1, <3>1, <5>3, <5>4
      <4> QED BY <2>3, <3>1, <4>1 DEF NotAmong
    <3>3. FileHome => file = key[p]
      BY <1>1, <2>5 DEF FileHome, FileInv, InFile, OsNamed
    <3>4. CASE asks[p] = AskAll
      <4>1. asks'[p] = AskSlots /\ a = file
        BY <1>3, <2>2, <3>4, Asks DEF Found
      <4> QED BY <1>4, <2>1, <3>1, <4>1, Asks DEF NotAmong, FileHome, Reaches
    <3>5. CASE asks[p] = AskSlots
      <4>1. asks'[p] = AskById /\ file # key[p]
        BY <2>2, <3>1, <3>5 DEF NotAmong
      <4>2. Reaches(p)
        BY <3>1, <3>3, <4>1 DEF NotAmong
      <4>3. main # key[p]
        BY <1>3, <2>1, <3>1, <3>5, <4>2, Asks DEF Found
      <4> QED BY <1>4, <4>1, <4>2, <4>3, Asks DEF NotAmong, Reaches
    <3>6. CASE asks[p] = AskById
      <4>1. asks'[p] = << >> /\ file # key[p] /\ main # key[p]
        BY <2>2, <3>1, <3>6 DEF NotAmong
      <4>2. Reaches(p)
        BY <3>1, <3>3, <4>1 DEF NotAmong
      <4>3. key[p] \notin byId
        BY <1>3, <2>1, <3>1, <3>6, <4>2, Asks DEF Found
      <4> QED BY <1>4, <4>1, <4>2, <4>3, Asks DEF NotAmong, Reaches
    <3> QED BY <3>2, <3>4, <3>5, <3>6
  <2> QED BY <1>1, <1>4, <2>4, <2>5 DEF Searched
<1> QED BY <1>5

LEMMA SearchStep ==
  ASSUME KeyConstants, TypeInv, LockInv, NameInv, MadeInv, SeenInv, FileInv, MoveInv,
         SearchInv, Next
  PROVE  SearchInv'
<1>1. Forward /\ HomeStays
  BY ForwardStep, HomeStep
<1>2. ASSUME NEW q \in Process, Searches(q) PROVE Searched(q)'
  <2>1. Searched(q)
    BY <1>2 DEF Searches, SearchInv
  <2> QED BY <1>1, <1>2, <2>1, SearchedStays
<1>3. ASSUME NEW p \in Process, NEW b \in sealed, OpenBegin(p, b), Undisturbed(p)
      PROVE  SearchInv'
  BY <1>2, <1>3, SearchBegins DEF SearchInv, Undisturbed
<1>4. ASSUME NEW p \in Process, OpenAsk(p), Undisturbed(p) PROVE SearchInv'
  <2>1. Searched(p)
    BY <1>4 DEF OpenAsk, SearchInv
  <2> QED BY <1>2, <1>4, <2>1, SearchGoesOn DEF SearchInv, Undisturbed
<1>5. CASE \A q \in Process : pc'[q] = "open" => Searches(q)
  BY <1>2, <1>5 DEF SearchInv
<1> QED BY <1>3, <1>4, <1>5, SearchesStep

GoneInv == MadeInv /\ SeenInv /\ FileInv /\ MoveInv /\ SearchInv

LEMMA GoneInvariant == Spec => []GoneInv
<1> USE DEF GoneInv, MadeInv, SeenInv, FileInv, MoveInv, SearchInv
<1>1. ASSUME GoneInv, UNCHANGED vars PROVE GoneInv'
  BY <1>1 DEF vars, stores, locks, known, search, outside, past, OsNamed, InFile, ForFile,
       Adopts, Searched, NotAmong, FileHome, Reaches
<1>2. ASSUME TypeInv, LockInv, NameInv, GoneInv, [Next]_vars PROVE GoneInv'
  <2>1. CASE Next
    BY <1>2, <2>1, MadeStep, SeenStep, FileStep, MoveStep, SearchStep, KeyConstants
  <2> QED BY <1>1, <1>2, <2>1
<1>3. Init => GoneInv
  BY KeyConstants DEF Init, OsNamed, ForFile, Adopts
<1> QED BY <1>2, <1>3, TypeInvariant, LockInvariant, NameInvariant, PTL DEF Spec

\* For any number of processes, keys and losses, a blob's key is called gone only
\* when no store holds it, or something outside had taken it: no search misses a
\* key that is moved while it goes on.
THEOREM NoKeyIsCalledGone == Spec => []GoneOnlyWhenGone
<1>1. ASSUME TypeInv, SearchInv PROVE GoneOnlyWhenGone
  <2>1. SUFFICES ASSUME NEW p \in Process, CallsGone(p), key[p] \notin lost
                 PROVE  key[p] \notin Held
    BY DEF GoneOnlyWhenGone
  <2>2. Searched(p) /\ asks[p] = << >> /\ ~unsure[p]
    BY <1>1, <2>1 DEF CallsGone, SearchInv
  <2> QED BY <2>1, <2>2 DEF Searched, NotAmong, Held
<1> QED BY <1>1, TypeInvariant, GoneInvariant, PTL DEF GoneInv
==============================================================================
