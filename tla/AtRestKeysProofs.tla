--------------------------- MODULE AtRestKeysProofs ---------------------------
(* What holds of AtRestKeys for any number of processes, keys and losses: the   *)
(* types; that no key is written over; that the key atrest.json names is where  *)
(* it says; and that the processes agree on one key (OneKey).                   *)
EXTENDS AtRestKeys, TLAPS

------------------------------------------------------------------------------
(* What is in a record *)

LEMMA MetaFacts ==
  ASSUME NEW m \in Meta, NEW k \in Key
  PROVE  /\ m.source \in {"file", "os"} /\ m.id \in Key
         /\ [m EXCEPT !.id = k] \in Meta
         /\ [m EXCEPT !.id = k].id = k /\ [m EXCEPT !.id = k].source = m.source
         /\ [m EXCEPT !.source = "os"] \in Meta
         /\ [m EXCEPT !.source = "os"].id = m.id /\ [m EXCEPT !.source = "os"].source = "os"
         /\ [m EXCEPT !.promoted = m.promoted \cup {k}] \in Meta
         /\ [m EXCEPT !.promoted = m.promoted \cup {k}].id = m.id
         /\ [m EXCEPT !.promoted = m.promoted \cup {k}].source = m.source
  BY DEF Meta

LEMMA DraftFacts ==
  ASSUME NEW s \in {"file", "os"}, NEW k \in Key, NEW ks \in SUBSET Key
  PROVE  LET m == [source |-> s, id |-> k, promoted |-> ks]
         IN m \in Meta /\ m.source = s /\ m.id = k
  BY DEF Meta

LEMMA SealFacts ==
  ASSUME sealed \subseteq Blob, NEW p, NEW k \in Key, NEW s \in {"file", "os"}, Seal(p, k, s)
  PROVE  sealed' \subseteq Blob
  BY DEF Seal, Blob

------------------------------------------------------------------------------
(* Types *)

\* A process that acts on what it read, on a key, or on its own, has it.
AboutOK ==
  \A p \in Process :
    /\ pc[p] \in {"confirm", "ask", "mintNamed", "name", "promote", "promoting",
                  "nameMoved", "noting"} => seen[p] \in Meta
    /\ pc[p] \in {"heal", "healing"} /\ why[p] # "repair" => seen[p] \in Meta
    /\ pc[p] = "healing" => meta \in Meta
    /\ pc[p] \in {"confirm", "ask", "heal", "healing", "promote", "promoting", "nameMoved",
                  "unfile", "mintMove", "mintPut", "mintPutFile", "moving", "note", "noting"}
         => key[p] \in Key
    /\ pc[p] \in {"mint", "mintNamed", "mintOS", "mintFile", "name", "minted"} /\ Adopts(p)
         => key[p] \in Key
    /\ pc[p] \in {"move", "moving", "note", "noting", "moved"} => cur[p] \in Key
TypeInv == TypeOK /\ AboutOK

LEMMA InitTypes == ASSUME KeyConstants, Init PROVE TypeInv
  BY DEF KeyConstants, Init, TypeInv, AboutOK, TypeOK, StoresOK, KnownOK, DoingOK, SearchOK,
         PastOK, Steps

LEMMA TypesStep == ASSUME KeyConstants, TypeInv, Next PROVE TypeInv'
<1> USE DEF TypeInv, TypeOK, stores, locks, known, search, outside, past,
      Goto, For, Reads, About, Remembers, SealsWith, SetSlot, Slot
<1>m. meta # None => meta \in Meta /\ meta.id \in Key /\ meta.source \in {"file", "os"}
  BY DEF StoresOK, Meta
<1>s. \A p \in Process : seen[p] \in Meta => seen[p].id \in Key /\ seen[p].source \in {"file", "os"}
  BY DEF Meta
<1>1. ASSUME NEW p \in Process, SealBegin(p) PROVE TypeInv'
  <2>1. StoresOK'
    BY <1>1 DEF SealBegin, StoresOK, AboutOK, Seal
  <2>2. KnownOK'
    BY <1>1, <1>m DEF SealBegin, KnownOK, StoresOK, AboutOK, Seal
  <2>3. DoingOK'
    BY <1>1, <1>m DEF SealBegin, DoingOK, StoresOK, Steps, AboutOK, Seal
  <2>4. AboutOK'
    BY <1>1, <1>m DEF SealBegin, AboutOK, StoresOK, KnownOK, DoingOK, Adopts,
          Seal
  <2>5. SearchOK'
    BY <1>1 DEF SealBegin, SearchOK, Seal
  <2>6. PastOK'
    BY <1>1, <1>m DEF SealBegin, PastOK, StoresOK
  <2> QED BY <2>1, <2>2, <2>3, <2>4, <2>5, <2>6
<1>2. ASSUME NEW p \in Process, Confirm(p) PROVE TypeInv'
  <2>1. StoresOK'
    BY <1>2 DEF Confirm, Answers, Reaches, Stands, Fails, StoresOK, AboutOK,
          Seal
  <2>2. KnownOK'
    BY <1>2, <1>s DEF Confirm, Answers, Reaches, Stands, Fails, KnownOK,
          StoresOK, AboutOK, Seal
  <2>3. DoingOK'
    BY <1>2, <1>s DEF Confirm, Answers, Reaches, Stands, Fails, DoingOK,
          StoresOK, Steps, AboutOK, Seal
  <2>4. AboutOK'
    BY <1>2, <1>s DEF Confirm, Answers, Reaches, Stands, Fails, AboutOK,
          StoresOK, KnownOK, DoingOK, Adopts, Seal
  <2>5. SearchOK'
    BY <1>2 DEF Confirm, Answers, Reaches, Stands, Fails, SearchOK, Seal
  <2>6. PastOK'
    BY <1>2, <1>s, SealFacts DEF Confirm, Answers, Reaches, Stands, Fails,
          PastOK, StoresOK, KnownOK, DoingOK, AboutOK
  <2> QED BY <2>1, <2>2, <2>3, <2>4, <2>5, <2>6
<1>3. ASSUME NEW p \in Process, Ask(p) PROVE TypeInv'
  <2>1. StoresOK'
    BY <1>3 DEF Ask, Answers, Reaches, StoresOK, AboutOK, Seal
  <2>2. KnownOK'
    BY <1>3, <1>s DEF Ask, Answers, Reaches, KnownOK, StoresOK, AboutOK, Seal
  <2>3. DoingOK'
    BY <1>3, <1>s DEF Ask, Answers, Reaches, DoingOK, StoresOK, Steps,
          AboutOK, Seal
  <2>4. AboutOK'
    BY <1>3, <1>s DEF Ask, Answers, Reaches, AboutOK, StoresOK, KnownOK,
          DoingOK, Adopts, Seal
  <2>5. SearchOK'
    BY <1>3 DEF Ask, Answers, Reaches, SearchOK, Seal
  <2>6. PastOK'
    BY <1>3, <1>s, SealFacts DEF Ask, Answers, Reaches, PastOK, StoresOK,
          KnownOK, DoingOK, AboutOK
  <2> QED BY <2>1, <2>2, <2>3, <2>4, <2>5, <2>6
<1>4. ASSUME NEW p \in Process, FallbackRead(p) PROVE TypeInv'
  <2>1. StoresOK'
    BY <1>4 DEF FallbackRead, StoresOK, AboutOK, Seal
  <2>2. KnownOK'
    BY <1>4 DEF FallbackRead, KnownOK, StoresOK, AboutOK, Seal
  <2>3. DoingOK'
    BY <1>4 DEF FallbackRead, DoingOK, StoresOK, Steps, AboutOK, Seal
  <2>4. AboutOK'
    BY <1>4 DEF FallbackRead, AboutOK, StoresOK, KnownOK, DoingOK, Adopts,
          Seal
  <2>5. SearchOK'
    BY <1>4 DEF FallbackRead, SearchOK, Seal
  <2>6. PastOK'
    BY <1>4, SealFacts DEF FallbackRead, PastOK, StoresOK, KnownOK, DoingOK,
          AboutOK
  <2> QED BY <2>1, <2>2, <2>3, <2>4, <2>5, <2>6
<1>5. ASSUME NEW p \in Process, FallbackMake(p) PROVE TypeInv'
  <2>1. StoresOK'
    BY <1>5 DEF FallbackMake, StoresOK, AboutOK, Seal
  <2>2. KnownOK'
    BY <1>5 DEF FallbackMake, KnownOK, StoresOK, AboutOK, Seal
  <2>3. DoingOK'
    BY <1>5 DEF FallbackMake, DoingOK, StoresOK, Steps, AboutOK, Seal
  <2>4. AboutOK'
    BY <1>5 DEF FallbackMake, AboutOK, StoresOK, KnownOK, DoingOK, Adopts,
          Seal
  <2>5. SearchOK'
    BY <1>5 DEF FallbackMake, SearchOK, Seal
  <2>6. PastOK'
    BY <1>5, SealFacts DEF FallbackMake, PastOK, StoresOK, KnownOK, DoingOK,
          AboutOK
  <2> QED BY <2>1, <2>2, <2>3, <2>4, <2>5, <2>6
<1>6. ASSUME NEW p \in Process, FallbackTimeout(p) PROVE TypeInv'
  <2>1. StoresOK'
    BY <1>6 DEF FallbackTimeout, StoresOK, AboutOK, Seal
  <2>2. KnownOK'
    BY <1>6 DEF FallbackTimeout, KnownOK, StoresOK, AboutOK, Seal
  <2>3. DoingOK'
    BY <1>6 DEF FallbackTimeout, DoingOK, StoresOK, Steps, AboutOK, Seal
  <2>4. AboutOK'
    BY <1>6 DEF FallbackTimeout, AboutOK, StoresOK, KnownOK, DoingOK, Adopts,
          Seal
  <2>5. SearchOK'
    BY <1>6 DEF FallbackTimeout, SearchOK, Seal
  <2>6. PastOK'
    BY <1>6 DEF FallbackTimeout, PastOK, StoresOK
  <2> QED BY <2>1, <2>2, <2>3, <2>4, <2>5, <2>6
<1>7. ASSUME NEW p \in Process, Repair(p) PROVE TypeInv'
  <2>1. StoresOK'
    BY <1>7 DEF Repair, StoresOK, AboutOK, Seal
  <2>2. KnownOK'
    BY <1>7, <1>m DEF Repair, KnownOK, StoresOK, AboutOK, Seal
  <2>3. DoingOK'
    BY <1>7, <1>m DEF Repair, DoingOK, StoresOK, Steps, AboutOK, Seal
  <2>4. AboutOK'
    BY <1>7, <1>m DEF Repair, AboutOK, StoresOK, KnownOK, DoingOK, Adopts,
          Seal
  <2>5. SearchOK'
    BY <1>7 DEF Repair, SearchOK, Seal
  <2>6. PastOK'
    BY <1>7, <1>m DEF Repair, PastOK, StoresOK
  <2> QED BY <2>1, <2>2, <2>3, <2>4, <2>5, <2>6
<1>8. ASSUME NEW p \in Process, HealLock(p) PROVE TypeInv'
  <2>1. StoresOK'
    BY <1>8 DEF HealLock, StillNamed, HealFails, Fails, StoresOK, AboutOK,
          Seal
  <2>2. KnownOK'
    BY <1>8, <1>m DEF HealLock, StillNamed, HealFails, Fails, KnownOK,
          StoresOK, AboutOK, Seal
  <2>3. DoingOK'
    BY <1>8, <1>m DEF HealLock, StillNamed, HealFails, Fails, DoingOK,
          StoresOK, Steps, AboutOK, Seal
  <2>4. AboutOK'
    BY <1>8, <1>m DEF HealLock, StillNamed, HealFails, Fails, AboutOK,
          StoresOK, KnownOK, DoingOK, Adopts, Seal
  <2>5. SearchOK'
    BY <1>8 DEF HealLock, StillNamed, HealFails, Fails, SearchOK, Seal
  <2>6. PastOK'
    BY <1>8, <1>m DEF HealLock, StillNamed, HealFails, Fails, PastOK, StoresOK
  <2> QED BY <2>1, <2>2, <2>3, <2>4, <2>5, <2>6
<1>9. ASSUME NEW p \in Process, HealTimeout(p) PROVE TypeInv'
  <2>1. StoresOK'
    BY <1>9 DEF HealTimeout, HealFails, Fails, StoresOK, AboutOK, Seal
  <2>2. KnownOK'
    BY <1>9 DEF HealTimeout, HealFails, Fails, KnownOK, StoresOK, AboutOK,
          Seal
  <2>3. DoingOK'
    BY <1>9 DEF HealTimeout, HealFails, Fails, DoingOK, StoresOK, Steps,
          AboutOK, Seal
  <2>4. AboutOK'
    BY <1>9 DEF HealTimeout, HealFails, Fails, AboutOK, StoresOK, KnownOK,
          DoingOK, Adopts, Seal
  <2>5. SearchOK'
    BY <1>9 DEF HealTimeout, HealFails, Fails, SearchOK, Seal
  <2>6. PastOK'
    BY <1>9 DEF HealTimeout, HealFails, Fails, PastOK, StoresOK
  <2> QED BY <2>1, <2>2, <2>3, <2>4, <2>5, <2>6
<1>10. ASSUME NEW p \in Process, Heal(p) PROVE TypeInv'
  <2>1. StoresOK'
    BY <1>10 DEF Heal, PutNew, Reaches, Put, StillNamed, HealFails, Fails,
          Stands, StoresOK, AboutOK, Seal
  <2>2. KnownOK'
    BY <1>10, <1>s, <1>m DEF Heal, PutNew, Reaches, Put, StillNamed,
          HealFails, Fails, Stands, KnownOK, StoresOK, AboutOK, Seal
  <2>3. DoingOK'
    BY <1>10, <1>s, <1>m DEF Heal, PutNew, Reaches, Put, StillNamed,
          HealFails, Fails, Stands, DoingOK, StoresOK, Steps, AboutOK, Seal
  <2>4. AboutOK'
    BY <1>10, <1>s, <1>m DEF Heal, PutNew, Reaches, Put, StillNamed,
          HealFails, Fails, Stands, AboutOK, StoresOK, KnownOK, DoingOK,
          Adopts, Seal
  <2>5. SearchOK'
    BY <1>10 DEF Heal, PutNew, Reaches, Put, StillNamed, HealFails, Fails,
          Stands, SearchOK, Seal
  <2>6. PastOK'
    BY <1>10, <1>s, <1>m, SealFacts DEF Heal, PutNew, Reaches, Put,
          StillNamed, HealFails, Fails, Stands, PastOK, StoresOK, KnownOK,
          DoingOK, AboutOK
  <2> QED BY <2>1, <2>2, <2>3, <2>4, <2>5, <2>6
<1>11. ASSUME NEW p \in Process, MintLock(p) PROVE TypeInv'
  <2>1. StoresOK'
    BY <1>11 DEF MintLock, StoresOK, AboutOK, Seal
  <2>2. KnownOK'
    BY <1>11, <1>m DEF MintLock, KnownOK, StoresOK, AboutOK, Seal
  <2>3. DoingOK'
    BY <1>11, <1>m DEF MintLock, DoingOK, StoresOK, Steps, AboutOK, Seal
  <2>4. AboutOK'
    BY <1>11, <1>m DEF MintLock, AboutOK, StoresOK, KnownOK, DoingOK, Adopts,
          Seal
  <2>5. SearchOK'
    BY <1>11 DEF MintLock, SearchOK, Seal
  <2>6. PastOK'
    BY <1>11, <1>m DEF MintLock, PastOK, StoresOK
  <2> QED BY <2>1, <2>2, <2>3, <2>4, <2>5, <2>6
<1>12. ASSUME NEW p \in Process, MintTimeout(p) PROVE TypeInv'
  <2>1. StoresOK'
    BY <1>12 DEF MintTimeout, MintFails, Adopts, StoresOK, AboutOK, Seal
  <2>2. KnownOK'
    BY <1>12 DEF MintTimeout, MintFails, Adopts, KnownOK, StoresOK, AboutOK,
          Seal
  <2>3. DoingOK'
    BY <1>12 DEF MintTimeout, MintFails, Adopts, DoingOK, StoresOK, Steps,
          AboutOK, Seal
  <2>4. AboutOK'
    BY <1>12 DEF MintTimeout, MintFails, AboutOK, StoresOK, KnownOK, DoingOK,
          Adopts, Seal
  <2>5. SearchOK'
    BY <1>12 DEF MintTimeout, MintFails, Adopts, SearchOK, Seal
  <2>6. PastOK'
    BY <1>12 DEF MintTimeout, MintFails, Adopts, PastOK, StoresOK
  <2> QED BY <2>1, <2>2, <2>3, <2>4, <2>5, <2>6
<1>13. ASSUME NEW p \in Process, MintNamed(p) PROVE TypeInv'
  <2>0. \A a \in Key : [seen[p] EXCEPT !.id = a] \in Meta
    BY <1>13, MetaFacts DEF MintNamed, AboutOK
  <2>1. StoresOK'
    BY <1>13 DEF MintNamed, Answers, Reaches, MintFails, Adopts, StoresOK,
          AboutOK, Seal
  <2>2. KnownOK'
    BY <1>13, <2>0, <1>s DEF MintNamed, Answers, Reaches, MintFails, Adopts,
          KnownOK, StoresOK, AboutOK, Seal
  <2>3. DoingOK'
    BY <1>13, <2>0, <1>s DEF MintNamed, Answers, Reaches, MintFails, Adopts,
          DoingOK, StoresOK, Steps, AboutOK, Seal
  <2>4. AboutOK'
    BY <1>13, <2>0, <1>s DEF MintNamed, Answers, Reaches, MintFails, AboutOK,
          StoresOK, KnownOK, DoingOK, Adopts, Seal
  <2>5. SearchOK'
    BY <1>13, <2>0 DEF MintNamed, Answers, Reaches, MintFails, Adopts,
          SearchOK, Seal
  <2>6. PastOK'
    BY <1>13, <1>s DEF MintNamed, Answers, Reaches, MintFails, Adopts, PastOK,
          StoresOK
  <2> QED BY <2>1, <2>2, <2>3, <2>4, <2>5, <2>6
<1>14. ASSUME NEW p \in Process, MintOS(p) PROVE TypeInv'
  <2>1. StoresOK'
    BY <1>14 DEF MintOS, Reaches, Draft, MintFails, Adopts, StoresOK, AboutOK,
          Seal
  <2>2. KnownOK'
    BY <1>14 DEF MintOS, Reaches, Draft, MintFails, Adopts, KnownOK, StoresOK,
          AboutOK, Seal
  <2>3. DoingOK'
    BY <1>14, DraftFacts DEF MintOS, Reaches, Draft, MintFails, Adopts,
          DoingOK, StoresOK, Steps, AboutOK, Seal
  <2>4. AboutOK'
    BY <1>14, DraftFacts DEF MintOS, Reaches, Draft, MintFails, AboutOK,
          StoresOK, KnownOK, DoingOK, Adopts, Seal
  <2>5. SearchOK'
    BY <1>14 DEF MintOS, Reaches, Draft, MintFails, Adopts, SearchOK, Seal
  <2>6. PastOK'
    BY <1>14 DEF MintOS, Reaches, Draft, MintFails, Adopts, PastOK, StoresOK
  <2> QED BY <2>1, <2>2, <2>3, <2>4, <2>5, <2>6
<1>15. ASSUME NEW p \in Process, MintFile(p) PROVE TypeInv'
  <2>1. StoresOK'
    BY <1>15 DEF MintFile, Reaches, Draft, StoresOK, AboutOK, Seal
  <2>2. KnownOK'
    BY <1>15 DEF MintFile, Reaches, Draft, KnownOK, StoresOK, AboutOK, Seal
  <2>3. DoingOK'
    BY <1>15, DraftFacts DEF MintFile, Reaches, Draft, DoingOK, StoresOK,
          Steps, AboutOK, Seal
  <2>4. AboutOK'
    BY <1>15, DraftFacts DEF MintFile, Reaches, Draft, AboutOK, StoresOK,
          KnownOK, DoingOK, Adopts, Seal
  <2>5. SearchOK'
    BY <1>15 DEF MintFile, Reaches, Draft, SearchOK, Seal
  <2>6. PastOK'
    BY <1>15 DEF MintFile, Reaches, Draft, PastOK, StoresOK
  <2> QED BY <2>1, <2>2, <2>3, <2>4, <2>5, <2>6
<1>16. ASSUME NEW p \in Process, MintMove(p) PROVE TypeInv'
  <2>1. StoresOK'
    BY <1>16 DEF MintMove, Put, StoresOK, AboutOK, Seal
  <2>2. KnownOK'
    BY <1>16 DEF MintMove, Put, KnownOK, StoresOK, AboutOK, Seal
  <2>3. DoingOK'
    BY <1>16, DraftFacts DEF MintMove, Put, DoingOK, StoresOK, Steps, AboutOK,
          Seal
  <2>4. AboutOK'
    BY <1>16, DraftFacts DEF MintMove, Put, AboutOK, StoresOK, KnownOK,
          DoingOK, Adopts, Seal
  <2>5. SearchOK'
    BY <1>16 DEF MintMove, Put, SearchOK, Seal
  <2>6. PastOK'
    BY <1>16 DEF MintMove, Put, PastOK, StoresOK
  <2> QED BY <2>1, <2>2, <2>3, <2>4, <2>5, <2>6
<1>17. ASSUME NEW p \in Process, MintPut(p) PROVE TypeInv'
  <2>1. StoresOK'
    BY <1>17 DEF MintPut, Put, Draft, StoresOK, AboutOK, Seal
  <2>2. KnownOK'
    BY <1>17 DEF MintPut, Put, Draft, KnownOK, StoresOK, AboutOK, Seal
  <2>3. DoingOK'
    BY <1>17, DraftFacts DEF MintPut, Put, Draft, DoingOK, StoresOK, Steps,
          AboutOK, Seal
  <2>4. AboutOK'
    BY <1>17, DraftFacts DEF MintPut, Put, Draft, AboutOK, StoresOK, KnownOK,
          DoingOK, Adopts, Seal
  <2>5. SearchOK'
    BY <1>17 DEF MintPut, Put, Draft, SearchOK, Seal
  <2>6. PastOK'
    BY <1>17 DEF MintPut, Put, Draft, PastOK, StoresOK
  <2> QED BY <2>1, <2>2, <2>3, <2>4, <2>5, <2>6
<1>18. ASSUME NEW p \in Process, MintPutFile(p) PROVE TypeInv'
  <2>1. StoresOK'
    BY <1>18 DEF MintPutFile, Draft, StoresOK, AboutOK, Seal
  <2>2. KnownOK'
    BY <1>18 DEF MintPutFile, Draft, KnownOK, StoresOK, AboutOK, Seal
  <2>3. DoingOK'
    BY <1>18, DraftFacts DEF MintPutFile, Draft, DoingOK, StoresOK, Steps,
          AboutOK, Seal
  <2>4. AboutOK'
    BY <1>18, DraftFacts DEF MintPutFile, Draft, AboutOK, StoresOK, KnownOK,
          DoingOK, Adopts, Seal
  <2>5. SearchOK'
    BY <1>18 DEF MintPutFile, Draft, SearchOK, Seal
  <2>6. PastOK'
    BY <1>18 DEF MintPutFile, Draft, PastOK, StoresOK
  <2> QED BY <2>1, <2>2, <2>3, <2>4, <2>5, <2>6
<1>19. ASSUME NEW p \in Process, Name(p) PROVE TypeInv'
  <2>1. StoresOK'
    BY <1>19 DEF Name, StoresOK, AboutOK, Seal
  <2>2. KnownOK'
    BY <1>19 DEF Name, KnownOK, StoresOK, AboutOK, Seal
  <2>3. DoingOK'
    BY <1>19 DEF Name, DoingOK, StoresOK, Steps, AboutOK, Seal
  <2>4. AboutOK'
    BY <1>19 DEF Name, AboutOK, StoresOK, KnownOK, DoingOK, Adopts, Seal
  <2>5. SearchOK'
    BY <1>19 DEF Name, SearchOK, Seal
  <2>6. PastOK'
    BY <1>19 DEF Name, PastOK, StoresOK
  <2> QED BY <2>1, <2>2, <2>3, <2>4, <2>5, <2>6
<1>20. ASSUME NEW p \in Process, Minted(p) PROVE TypeInv'
  <2>1. StoresOK'
    BY <1>20 DEF Minted, Adopts, StoresOK, AboutOK, Seal
  <2>2. KnownOK'
    BY <1>20, <1>m DEF Minted, Adopts, KnownOK, StoresOK, AboutOK, Seal
  <2>3. DoingOK'
    BY <1>20, <1>m DEF Minted, Adopts, DoingOK, StoresOK, Steps, AboutOK, Seal
  <2>4. AboutOK'
    BY <1>20, <1>m DEF Minted, AboutOK, StoresOK, KnownOK, DoingOK, Adopts,
          Seal
  <2>5. SearchOK'
    BY <1>20 DEF Minted, Adopts, SearchOK, Seal
  <2>6. PastOK'
    BY <1>20, <1>m, SealFacts DEF Minted, Adopts, PastOK, StoresOK, KnownOK,
          DoingOK, AboutOK
  <2> QED BY <2>1, <2>2, <2>3, <2>4, <2>5, <2>6
<1>21. ASSUME NEW p \in Process, PromoteLock(p) PROVE TypeInv'
  <2>1. StoresOK'
    BY <1>21 DEF PromoteLock, StillNamed, Reaches, StoresOK, AboutOK, Seal
  <2>2. KnownOK'
    BY <1>21, <1>s, <1>m DEF PromoteLock, StillNamed, Reaches, KnownOK,
          StoresOK, AboutOK, Seal
  <2>3. DoingOK'
    BY <1>21, <1>s, <1>m DEF PromoteLock, StillNamed, Reaches, DoingOK,
          StoresOK, Steps, AboutOK, Seal
  <2>4. AboutOK'
    BY <1>21, <1>s, <1>m DEF PromoteLock, StillNamed, Reaches, AboutOK,
          StoresOK, KnownOK, DoingOK, Adopts, Seal
  <2>5. SearchOK'
    BY <1>21 DEF PromoteLock, StillNamed, Reaches, SearchOK, Seal
  <2>6. PastOK'
    BY <1>21, <1>s, <1>m, SealFacts DEF PromoteLock, StillNamed, Reaches,
          PastOK, StoresOK, KnownOK, DoingOK, AboutOK
  <2> QED BY <2>1, <2>2, <2>3, <2>4, <2>5, <2>6
<1>22. ASSUME NEW p \in Process, PromoteTimeout(p) PROVE TypeInv'
  <2>1. StoresOK'
    BY <1>22 DEF PromoteTimeout, StoresOK, AboutOK, Seal
  <2>2. KnownOK'
    BY <1>22, <1>s DEF PromoteTimeout, KnownOK, StoresOK, AboutOK, Seal
  <2>3. DoingOK'
    BY <1>22, <1>s DEF PromoteTimeout, DoingOK, StoresOK, Steps, AboutOK, Seal
  <2>4. AboutOK'
    BY <1>22, <1>s DEF PromoteTimeout, AboutOK, StoresOK, KnownOK, DoingOK,
          Adopts, Seal
  <2>5. SearchOK'
    BY <1>22 DEF PromoteTimeout, SearchOK, Seal
  <2>6. PastOK'
    BY <1>22, <1>s, SealFacts DEF PromoteTimeout, PastOK, StoresOK, KnownOK,
          DoingOK, AboutOK
  <2> QED BY <2>1, <2>2, <2>3, <2>4, <2>5, <2>6
<1>23. ASSUME NEW p \in Process, PromotePut(p) PROVE TypeInv'
  <2>0. [seen[p] EXCEPT !.source = "os"] \in Meta
    BY <1>23, MetaFacts DEF PromotePut, AboutOK
  <2>1. StoresOK'
    BY <1>23 DEF PromotePut, PutNew, Reaches, Put, StoresOK, AboutOK, Seal
  <2>2. KnownOK'
    BY <1>23, <2>0 DEF PromotePut, PutNew, Reaches, Put, KnownOK, StoresOK,
          AboutOK, Seal
  <2>3. DoingOK'
    BY <1>23, <2>0 DEF PromotePut, PutNew, Reaches, Put, DoingOK, StoresOK,
          Steps, AboutOK, Seal
  <2>4. AboutOK'
    BY <1>23, <2>0 DEF PromotePut, PutNew, Reaches, Put, AboutOK, StoresOK,
          KnownOK, DoingOK, Adopts, Seal
  <2>5. SearchOK'
    BY <1>23, <2>0 DEF PromotePut, PutNew, Reaches, Put, SearchOK, Seal
  <2>6. PastOK'
    BY <1>23, SealFacts DEF PromotePut, PutNew, Reaches, Put, PastOK,
          StoresOK, KnownOK, DoingOK, AboutOK
  <2> QED BY <2>1, <2>2, <2>3, <2>4, <2>5, <2>6
<1>24. ASSUME NEW p \in Process, NameMoved(p) PROVE TypeInv'
  <2>1. StoresOK'
    BY <1>24 DEF NameMoved, StoresOK, AboutOK, Seal
  <2>2. KnownOK'
    BY <1>24 DEF NameMoved, KnownOK, StoresOK, AboutOK, Seal
  <2>3. DoingOK'
    BY <1>24 DEF NameMoved, DoingOK, StoresOK, Steps, AboutOK, Seal
  <2>4. AboutOK'
    BY <1>24 DEF NameMoved, AboutOK, StoresOK, KnownOK, DoingOK, Adopts, Seal
  <2>5. SearchOK'
    BY <1>24 DEF NameMoved, SearchOK, Seal
  <2>6. PastOK'
    BY <1>24 DEF NameMoved, PastOK, StoresOK
  <2> QED BY <2>1, <2>2, <2>3, <2>4, <2>5, <2>6
<1>25. ASSUME NEW p \in Process, Unfile(p) PROVE TypeInv'
  <2>1. StoresOK'
    BY <1>25 DEF Unfile, StoresOK, AboutOK, Seal
  <2>2. KnownOK'
    BY <1>25 DEF Unfile, KnownOK, StoresOK, AboutOK, Seal
  <2>3. DoingOK'
    BY <1>25 DEF Unfile, DoingOK, StoresOK, Steps, AboutOK, Seal
  <2>4. AboutOK'
    BY <1>25 DEF Unfile, AboutOK, StoresOK, KnownOK, DoingOK, Adopts, Seal
  <2>5. SearchOK'
    BY <1>25 DEF Unfile, SearchOK, Seal
  <2>6. PastOK'
    BY <1>25, SealFacts DEF Unfile, PastOK, StoresOK, KnownOK, DoingOK,
          AboutOK
  <2> QED BY <2>1, <2>2, <2>3, <2>4, <2>5, <2>6
<1>26. ASSUME NEW p \in Process, MoveLock(p) PROVE TypeInv'
  <2>1. StoresOK'
    BY <1>26 DEF MoveLock, StoresOK, AboutOK, Seal
  <2>2. KnownOK'
    BY <1>26 DEF MoveLock, KnownOK, StoresOK, AboutOK, Seal
  <2>3. DoingOK'
    BY <1>26 DEF MoveLock, DoingOK, StoresOK, Steps, AboutOK, Seal
  <2>4. AboutOK'
    BY <1>26 DEF MoveLock, AboutOK, StoresOK, KnownOK, DoingOK, Adopts, Seal
  <2>5. SearchOK'
    BY <1>26 DEF MoveLock, SearchOK, Seal
  <2>6. PastOK'
    BY <1>26, SealFacts DEF MoveLock, PastOK, StoresOK, KnownOK, DoingOK,
          AboutOK
  <2> QED BY <2>1, <2>2, <2>3, <2>4, <2>5, <2>6
<1>27. ASSUME NEW p \in Process, MovePut(p) PROVE TypeInv'
  <2>1. StoresOK'
    BY <1>27 DEF MovePut, StoresOK, AboutOK, Seal
  <2>2. KnownOK'
    BY <1>27 DEF MovePut, KnownOK, StoresOK, AboutOK, Seal
  <2>3. DoingOK'
    BY <1>27 DEF MovePut, DoingOK, StoresOK, Steps, AboutOK, Seal
  <2>4. AboutOK'
    BY <1>27 DEF MovePut, AboutOK, StoresOK, KnownOK, DoingOK, Adopts, Seal
  <2>5. SearchOK'
    BY <1>27 DEF MovePut, SearchOK, Seal
  <2>6. PastOK'
    BY <1>27, SealFacts DEF MovePut, PastOK, StoresOK, KnownOK, DoingOK,
          AboutOK
  <2> QED BY <2>1, <2>2, <2>3, <2>4, <2>5, <2>6
<1>28. ASSUME NEW p \in Process, Note(p) PROVE TypeInv'
  <2>0. seen' \in [Process -> Meta \cup {None}] /\ (pc'[p] = "noting" => seen'[p] \in Meta)
    <3> DEFINE m == [meta EXCEPT !.promoted = meta.promoted \cup {key[p]}]
    <3>1. CASE pc' = [pc EXCEPT ![p] = "moved"] /\ UNCHANGED seen
      BY <1>28, <3>1 DEF DoingOK
    <3>2. CASE meta # None /\ seen' = [seen EXCEPT ![p] = m]
      <4>1. m \in Meta
        BY <1>28, <1>m, <3>2, MetaFacts DEF Note, AboutOK
      <4> HIDE DEF m
      <4> QED BY <3>2, <4>1 DEF DoingOK
    <3> QED BY <1>28, <3>1, <3>2 DEF Note
  <2>1. StoresOK'
    BY <1>28 DEF Note, StoresOK, AboutOK, Seal
  <2>2. KnownOK'
    BY <1>28, <2>0, <1>m DEF Note, KnownOK, StoresOK, AboutOK, Seal
  <2>3. DoingOK'
    BY <1>28, <2>0, <1>m DEF Note, DoingOK, StoresOK, Steps, AboutOK, Seal
  <2>4. AboutOK'
    BY <1>28, <2>0, <1>m DEF Note, AboutOK, StoresOK, KnownOK, DoingOK,
          Adopts, Seal
  <2>5. SearchOK'
    BY <1>28, <2>0 DEF Note, SearchOK, Seal
  <2>6. PastOK'
    BY <1>28, <1>m DEF Note, PastOK, StoresOK
  <2> QED BY <2>1, <2>2, <2>3, <2>4, <2>5, <2>6
<1>29. ASSUME NEW p \in Process, NoteWrite(p) PROVE TypeInv'
  <2>1. StoresOK'
    BY <1>29 DEF NoteWrite, StoresOK, AboutOK, Seal
  <2>2. KnownOK'
    BY <1>29 DEF NoteWrite, KnownOK, StoresOK, AboutOK, Seal
  <2>3. DoingOK'
    BY <1>29 DEF NoteWrite, DoingOK, StoresOK, Steps, AboutOK, Seal
  <2>4. AboutOK'
    BY <1>29 DEF NoteWrite, AboutOK, StoresOK, KnownOK, DoingOK, Adopts, Seal
  <2>5. SearchOK'
    BY <1>29 DEF NoteWrite, SearchOK, Seal
  <2>6. PastOK'
    BY <1>29 DEF NoteWrite, PastOK, StoresOK
  <2> QED BY <2>1, <2>2, <2>3, <2>4, <2>5, <2>6
<1>30. ASSUME NEW p \in Process, Moved(p) PROVE TypeInv'
  <2>1. StoresOK'
    BY <1>30 DEF Moved, StoresOK, AboutOK, Seal
  <2>2. KnownOK'
    BY <1>30 DEF Moved, KnownOK, StoresOK, AboutOK, Seal
  <2>3. DoingOK'
    BY <1>30 DEF Moved, DoingOK, StoresOK, Steps, AboutOK, Seal
  <2>4. AboutOK'
    BY <1>30 DEF Moved, AboutOK, StoresOK, KnownOK, DoingOK, Adopts, Seal
  <2>5. SearchOK'
    BY <1>30 DEF Moved, SearchOK, Seal
  <2>6. PastOK'
    BY <1>30, SealFacts DEF Moved, PastOK, StoresOK, KnownOK, DoingOK, AboutOK
  <2> QED BY <2>1, <2>2, <2>3, <2>4, <2>5, <2>6
<1>31. ASSUME NEW p \in Process, NEW b \in sealed, OpenBegin(p, b) PROVE TypeInv'
  <2>0. b.key \in Key /\ Order(b.src) \in Seq({"file", "main", "byId"})
    <3>1. b \in Blob
      BY DEF PastOK
    <3>2. b.key \in Key /\ b.src \in {"file", "os"}
      BY <3>1 DEF Blob
    <3>3. CASE b.src = "file"
      BY <3>2, <3>3 DEF Order
    <3>4. CASE b.src # "file"
      BY <3>2, <3>4 DEF Order
    <3> QED BY <3>2, <3>3, <3>4
  <2>1. StoresOK'
    BY <1>31 DEF OpenBegin, NoAnswer, Reaches, FileOnlyHome, StoresOK,
          AboutOK, Seal
  <2>2. KnownOK'
    BY <1>31, <2>0, <1>m DEF OpenBegin, NoAnswer, Reaches, FileOnlyHome,
          KnownOK, StoresOK, AboutOK, Seal
  <2>3. DoingOK'
    BY <1>31, <2>0, <1>m DEF OpenBegin, NoAnswer, Reaches, FileOnlyHome,
          DoingOK, StoresOK, Steps, AboutOK, Seal
  <2>4. AboutOK'
    BY <1>31, <2>0, <1>m DEF OpenBegin, NoAnswer, Reaches, FileOnlyHome,
          AboutOK, StoresOK, KnownOK, DoingOK, Adopts, Seal
  <2>5. SearchOK'
    BY <1>31, <2>0 DEF OpenBegin, NoAnswer, Reaches, FileOnlyHome, SearchOK,
          Seal
  <2>6. PastOK'
    BY <1>31, <1>m DEF OpenBegin, NoAnswer, Reaches, FileOnlyHome, PastOK,
          StoresOK
  <2> QED BY <2>1, <2>2, <2>3, <2>4, <2>5, <2>6
<1>32. ASSUME NEW p \in Process, OpenAsk(p) PROVE TypeInv'
  <2>1. StoresOK'
    BY <1>32 DEF OpenAsk, Found, Reaches, Kept, StoresOK, AboutOK, Seal
  <2>2. KnownOK'
    BY <1>32 DEF OpenAsk, Found, Reaches, Kept, KnownOK, StoresOK, AboutOK,
          Seal
  <2>3. DoingOK'
    BY <1>32 DEF OpenAsk, Found, Reaches, Kept, DoingOK, StoresOK, Steps,
          AboutOK, Seal
  <2>4. AboutOK'
    BY <1>32 DEF OpenAsk, Found, Reaches, Kept, AboutOK, StoresOK, KnownOK,
          DoingOK, Adopts, Seal
  <2>5. SearchOK'
    BY <1>32 DEF OpenAsk, Found, Reaches, Kept, SearchOK, Seal
  <2>6. PastOK'
    BY <1>32 DEF OpenAsk, Found, Reaches, Kept, PastOK, StoresOK
  <2> QED BY <2>1, <2>2, <2>3, <2>4, <2>5, <2>6
<1>33. ASSUME NEW p \in Process, NotFound(p) PROVE TypeInv'
  <2>1. StoresOK'
    BY <1>33 DEF NotFound, StoresOK, AboutOK, Seal
  <2>2. KnownOK'
    BY <1>33 DEF NotFound, KnownOK, StoresOK, AboutOK, Seal
  <2>3. DoingOK'
    BY <1>33 DEF NotFound, DoingOK, StoresOK, Steps, AboutOK, Seal
  <2>4. AboutOK'
    BY <1>33 DEF NotFound, AboutOK, StoresOK, KnownOK, DoingOK, Adopts, Seal
  <2>5. SearchOK'
    BY <1>33 DEF NotFound, SearchOK, Seal
  <2>6. PastOK'
    BY <1>33 DEF NotFound, PastOK, StoresOK
  <2> QED BY <2>1, <2>2, <2>3, <2>4, <2>5, <2>6
<1>34. ASSUME NEW p \in Process, Crash(p) PROVE TypeInv'
  <2>1. StoresOK'
    BY <1>34 DEF Crash, StoresOK, AboutOK, Seal
  <2>2. KnownOK'
    BY <1>34 DEF Crash, KnownOK, StoresOK, AboutOK, Seal
  <2>3. DoingOK'
    BY <1>34 DEF Crash, DoingOK, StoresOK, Steps, AboutOK, Seal
  <2>4. AboutOK'
    BY <1>34 DEF Crash, AboutOK, StoresOK, KnownOK, DoingOK, Adopts, Seal
  <2>5. SearchOK'
    BY <1>34 DEF Crash, SearchOK, Seal
  <2>6. PastOK'
    BY <1>34 DEF Crash, PastOK, StoresOK
  <2> QED BY <2>1, <2>2, <2>3, <2>4, <2>5, <2>6
<1>35. ASSUME NEW s \in host.loses, Lose(s) PROVE TypeInv'
  <2>1. StoresOK'
    BY <1>35 DEF Lose, StoresOK, AboutOK, Seal
  <2>2. KnownOK'
    BY <1>35 DEF Lose, KnownOK, StoresOK, AboutOK, Seal
  <2>3. DoingOK'
    BY <1>35 DEF Lose, DoingOK, StoresOK, Steps, AboutOK, Seal
  <2>4. AboutOK'
    BY <1>35 DEF Lose, AboutOK, StoresOK, KnownOK, DoingOK, Adopts, Seal
  <2>5. SearchOK'
    BY <1>35 DEF Lose, SearchOK, Seal
  <2>6. PastOK'
    BY <1>35 DEF Lose, PastOK, StoresOK
  <2> QED BY <2>1, <2>2, <2>3, <2>4, <2>5, <2>6
<1> HIDE DEF TypeInv
<1> QED
  BY <1>1, <1>2, <1>3, <1>4, <1>5, <1>6, <1>7, <1>8, <1>9, <1>10, <1>11,
        <1>12, <1>13, <1>14, <1>15, <1>16, <1>17, <1>18, <1>19, <1>20, <1>21,
        <1>22, <1>23, <1>24, <1>25, <1>26, <1>27, <1>28, <1>29, <1>30, <1>31,
        <1>32, <1>33, <1>34, <1>35
  DEF Next, Save, PutBack, Mint, Move, Open

LEMMA TypeInvariant == Spec => []TypeInv
<1>1. ASSUME TypeInv, UNCHANGED vars PROVE TypeInv'
  BY <1>1 DEF vars, stores, locks, known, search, outside, past, TypeInv, AboutOK, Adopts,
       TypeOK, StoresOK, KnownOK, DoingOK, SearchOK, PastOK
<1>2. ASSUME TypeInv, [Next]_vars PROVE TypeInv'
  BY <1>1, <1>2, TypesStep, KeyConstants
<1>3. Init => TypeInv
  BY InitTypes, KeyConstants
<1> QED BY <1>2, <1>3, PTL DEF Spec

\* Every variable stays in its range, whoever dies and whatever is lost.
THEOREM Types == Spec => []TypeOK
  BY TypeInvariant, PTL DEF TypeInv

------------------------------------------------------------------------------
(* The locks, and what is written under them *)

DirSteps ==
  {"healing", "mintNamed", "mintOS", "mintFile", "mintMove", "mintPut", "mintPutFile", "name",
   "promoting", "nameMoved", "unfile"}
FileSteps == {"moving", "note", "noting", "moved"}

\* Who reads and writes under a lock holds it; and a new key is put where the
\* keystore was seen to hold none.
LockInv ==
  \A p \in Process :
    /\ pc[p] \in DirSteps => dirLock = p
    /\ pc[p] \in FileSteps => fileLock = p
    /\ pc[p] \in {"mintMove", "mintPut"} => main = None
    /\ pc[p] = "mintFile" /\ Reaches(p) => main = None

\* Only who holds atrest.lock writes to the slot of this home.
LEMMA LockStep ==
  ASSUME KeyConstants, TypeInv, LockInv, Next PROVE LockInv'
<1> USE DEF stores, locks, known, search, outside, past, Goto, For, Reads,
      About, Remembers, SealsWith
<1>1. ASSUME NEW p \in Process, SealBegin(p) PROVE LockInv'
  BY <1>1 DEF SealBegin, KeyConstants, LockInv, Reaches, DirSteps, FileSteps,
        TypeInv, TypeOK, StoresOK, DoingOK
<1>2. ASSUME NEW p \in Process, Confirm(p) PROVE LockInv'
  BY <1>2 DEF Confirm, Answers, Reaches, Stands, Seal, Fails, KeyConstants,
        LockInv, DirSteps, FileSteps, TypeInv, TypeOK, StoresOK, DoingOK
<1>3. ASSUME NEW p \in Process, Ask(p) PROVE LockInv'
  BY <1>3 DEF Ask, Answers, Reaches, Seal, KeyConstants, LockInv, DirSteps,
        FileSteps, TypeInv, TypeOK, StoresOK, DoingOK
<1>4. ASSUME NEW p \in Process, FallbackRead(p) PROVE LockInv'
  BY <1>4 DEF FallbackRead, Seal, KeyConstants, LockInv, Reaches, DirSteps,
        FileSteps, TypeInv, TypeOK, StoresOK, DoingOK
<1>5. ASSUME NEW p \in Process, FallbackMake(p) PROVE LockInv'
  BY <1>5 DEF FallbackMake, Seal, KeyConstants, LockInv, Reaches, DirSteps,
        FileSteps, TypeInv, TypeOK, StoresOK, DoingOK
<1>6. ASSUME NEW p \in Process, FallbackTimeout(p) PROVE LockInv'
  BY <1>6 DEF FallbackTimeout, KeyConstants, LockInv, Reaches, DirSteps,
        FileSteps, TypeInv, TypeOK, StoresOK, DoingOK
<1>7. ASSUME NEW p \in Process, Repair(p) PROVE LockInv'
  BY <1>7 DEF Repair, KeyConstants, LockInv, Reaches, DirSteps, FileSteps,
        TypeInv, TypeOK, StoresOK, DoingOK
<1>8. ASSUME NEW p \in Process, HealLock(p) PROVE LockInv'
  BY <1>8 DEF HealLock, StillNamed, HealFails, Fails, KeyConstants, LockInv,
        Reaches, DirSteps, FileSteps, TypeInv, TypeOK, StoresOK, DoingOK
<1>9. ASSUME NEW p \in Process, HealTimeout(p) PROVE LockInv'
  BY <1>9 DEF HealTimeout, HealFails, Fails, KeyConstants, LockInv, Reaches,
        DirSteps, FileSteps, TypeInv, TypeOK, StoresOK, DoingOK
<1>10. ASSUME NEW p \in Process, Heal(p) PROVE LockInv'
  BY <1>10 DEF Heal, Slot, PutNew, Reaches, Put, SetSlot, StillNamed,
        HealFails, Fails, Stands, Seal, KeyConstants, LockInv, DirSteps,
        FileSteps, TypeInv, TypeOK, StoresOK, DoingOK
<1>11. ASSUME NEW p \in Process, MintLock(p) PROVE LockInv'
  BY <1>11 DEF MintLock, KeyConstants, LockInv, Reaches, DirSteps, FileSteps,
        TypeInv, TypeOK, StoresOK, DoingOK
<1>12. ASSUME NEW p \in Process, MintTimeout(p) PROVE LockInv'
  BY <1>12 DEF MintTimeout, MintFails, Adopts, KeyConstants, LockInv, Reaches,
        DirSteps, FileSteps, TypeInv, TypeOK, StoresOK, DoingOK
<1>13. ASSUME NEW p \in Process, MintNamed(p) PROVE LockInv'
  BY <1>13 DEF MintNamed, Answers, Reaches, MintFails, Adopts, KeyConstants,
        LockInv, DirSteps, FileSteps, TypeInv, TypeOK, StoresOK, DoingOK
<1>14. ASSUME NEW p \in Process, MintOS(p) PROVE LockInv'
  BY <1>14 DEF MintOS, Reaches, Draft, MintFails, Adopts, KeyConstants,
        LockInv, DirSteps, FileSteps, TypeInv, TypeOK, StoresOK, DoingOK
<1>15. ASSUME NEW p \in Process, MintFile(p) PROVE LockInv'
  BY <1>15 DEF MintFile, Reaches, Draft, KeyConstants, LockInv, DirSteps,
        FileSteps, TypeInv, TypeOK, StoresOK, DoingOK
<1>16. ASSUME NEW p \in Process, MintMove(p) PROVE LockInv'
  BY <1>16 DEF MintMove, Put, KeyConstants, LockInv, Reaches, DirSteps,
        FileSteps, TypeInv, TypeOK, StoresOK, DoingOK
<1>17. ASSUME NEW p \in Process, MintPut(p) PROVE LockInv'
  BY <1>17 DEF MintPut, Put, Draft, KeyConstants, LockInv, Reaches, DirSteps,
        FileSteps, TypeInv, TypeOK, StoresOK, DoingOK
<1>18. ASSUME NEW p \in Process, MintPutFile(p) PROVE LockInv'
  BY <1>18 DEF MintPutFile, Draft, KeyConstants, LockInv, Reaches, DirSteps,
        FileSteps, TypeInv, TypeOK, StoresOK, DoingOK
<1>19. ASSUME NEW p \in Process, Name(p) PROVE LockInv'
  BY <1>19 DEF Name, KeyConstants, LockInv, Reaches, DirSteps, FileSteps,
        TypeInv, TypeOK, StoresOK, DoingOK
<1>20. ASSUME NEW p \in Process, Minted(p) PROVE LockInv'
  BY <1>20 DEF Minted, Adopts, Seal, KeyConstants, LockInv, Reaches, DirSteps,
        FileSteps, TypeInv, TypeOK, StoresOK, DoingOK
<1>21. ASSUME NEW p \in Process, PromoteLock(p) PROVE LockInv'
  BY <1>21 DEF PromoteLock, StillNamed, Reaches, Seal, KeyConstants, LockInv,
        DirSteps, FileSteps, TypeInv, TypeOK, StoresOK, DoingOK
<1>22. ASSUME NEW p \in Process, PromoteTimeout(p) PROVE LockInv'
  BY <1>22 DEF PromoteTimeout, Seal, KeyConstants, LockInv, Reaches, DirSteps,
        FileSteps, TypeInv, TypeOK, StoresOK, DoingOK
<1>23. ASSUME NEW p \in Process, PromotePut(p) PROVE LockInv'
  BY <1>23 DEF PromotePut, PutNew, Slot, Reaches, Put, Seal, KeyConstants,
        LockInv, DirSteps, FileSteps, TypeInv, TypeOK, StoresOK, DoingOK
<1>24. ASSUME NEW p \in Process, NameMoved(p) PROVE LockInv'
  BY <1>24 DEF NameMoved, KeyConstants, LockInv, Reaches, DirSteps, FileSteps,
        TypeInv, TypeOK, StoresOK, DoingOK
<1>25. ASSUME NEW p \in Process, Unfile(p) PROVE LockInv'
  BY <1>25 DEF Unfile, Seal, KeyConstants, LockInv, Reaches, DirSteps,
        FileSteps, TypeInv, TypeOK, StoresOK, DoingOK
<1>26. ASSUME NEW p \in Process, MoveLock(p) PROVE LockInv'
  BY <1>26 DEF MoveLock, Seal, KeyConstants, LockInv, Reaches, DirSteps,
        FileSteps, TypeInv, TypeOK, StoresOK, DoingOK
<1>27. ASSUME NEW p \in Process, MovePut(p) PROVE LockInv'
  BY <1>27 DEF MovePut, Seal, KeyConstants, LockInv, Reaches, DirSteps,
        FileSteps, TypeInv, TypeOK, StoresOK, DoingOK
<1>28. ASSUME NEW p \in Process, Note(p) PROVE LockInv'
  BY <1>28 DEF Note, KeyConstants, LockInv, Reaches, DirSteps, FileSteps,
        TypeInv, TypeOK, StoresOK, DoingOK
<1>29. ASSUME NEW p \in Process, NoteWrite(p) PROVE LockInv'
  BY <1>29 DEF NoteWrite, KeyConstants, LockInv, Reaches, DirSteps, FileSteps,
        TypeInv, TypeOK, StoresOK, DoingOK
<1>30. ASSUME NEW p \in Process, Moved(p) PROVE LockInv'
  BY <1>30 DEF Moved, Seal, KeyConstants, LockInv, Reaches, DirSteps,
        FileSteps, TypeInv, TypeOK, StoresOK, DoingOK
<1>31. ASSUME NEW p \in Process, NEW b \in sealed, OpenBegin(p, b) PROVE LockInv'
  BY <1>31 DEF OpenBegin, Order, NoAnswer, Reaches, FileOnlyHome,
        KeyConstants, LockInv, DirSteps, FileSteps, TypeInv, TypeOK, StoresOK,
        DoingOK
<1>32. ASSUME NEW p \in Process, OpenAsk(p) PROVE LockInv'
  BY <1>32 DEF OpenAsk, Found, Reaches, Kept, KeyConstants, LockInv, DirSteps,
        FileSteps, TypeInv, TypeOK, StoresOK, DoingOK
<1>33. ASSUME NEW p \in Process, NotFound(p) PROVE LockInv'
  BY <1>33 DEF NotFound, KeyConstants, LockInv, Reaches, DirSteps, FileSteps,
        TypeInv, TypeOK, StoresOK, DoingOK
<1>34. ASSUME NEW p \in Process, Crash(p) PROVE LockInv'
  BY <1>34 DEF Crash, KeyConstants, LockInv, Reaches, DirSteps, FileSteps,
        TypeInv, TypeOK, StoresOK, DoingOK
<1>35. ASSUME NEW s \in host.loses, Lose(s) PROVE LockInv'
  BY <1>35 DEF Lose, Slot, SetSlot, KeyConstants, LockInv, Reaches, DirSteps,
        FileSteps, TypeInv, TypeOK, StoresOK, DoingOK
<1> QED
  BY <1>1, <1>2, <1>3, <1>4, <1>5, <1>6, <1>7, <1>8, <1>9, <1>10, <1>11,
        <1>12, <1>13, <1>14, <1>15, <1>16, <1>17, <1>18, <1>19, <1>20, <1>21,
        <1>22, <1>23, <1>24, <1>25, <1>26, <1>27, <1>28, <1>29, <1>30, <1>31,
        <1>32, <1>33, <1>34, <1>35
  DEF Next, Save, PutBack, Mint, Move, Open

LEMMA LockInvariant == Spec => []LockInv
<1>1. ASSUME LockInv, UNCHANGED vars PROVE LockInv'
  BY <1>1 DEF vars, stores, locks, LockInv, Reaches
<1>2. ASSUME TypeInv, LockInv, [Next]_vars PROVE LockInv'
  BY <1>1, <1>2, LockStep, KeyConstants
<1>3. Init => LockInv
  BY DEF Init, LockInv, DirSteps, FileSteps
<1> QED BY <1>2, <1>3, TypeInvariant, PTL DEF Spec

\* No store's key is written over by a step.
NoneOver ==
  /\ file # None => file' \in {file, None}
  /\ main # None => main' \in {main, None}

\* Only a new key is put without looking, where there is none.
LEMMA NoneOverStep == ASSUME KeyConstants, TypeInv, LockInv, Next PROVE NoneOver
<1> USE DEF stores, locks, known, search, outside, past, Goto, For, Reads,
      About, Remembers, SealsWith, NoneOver
<1>1. ASSUME NEW p \in Process, SealBegin(p) PROVE NoneOver
  BY <1>1 DEF SealBegin
<1>2. ASSUME NEW p \in Process, Confirm(p) PROVE NoneOver
  BY <1>2 DEF Confirm, Answers, Reaches, Stands, Seal, Fails
<1>3. ASSUME NEW p \in Process, Ask(p) PROVE NoneOver
  BY <1>3 DEF Ask, Answers, Reaches, Seal
<1>4. ASSUME NEW p \in Process, FallbackRead(p) PROVE NoneOver
  BY <1>4 DEF FallbackRead, Seal
<1>5. ASSUME NEW p \in Process, FallbackMake(p) PROVE NoneOver
  BY <1>5 DEF FallbackMake, Seal, TypeInv, TypeOK, StoresOK, LockInv, Reaches
<1>6. ASSUME NEW p \in Process, FallbackTimeout(p) PROVE NoneOver
  BY <1>6 DEF FallbackTimeout
<1>7. ASSUME NEW p \in Process, Repair(p) PROVE NoneOver
  BY <1>7 DEF Repair
<1>8. ASSUME NEW p \in Process, HealLock(p) PROVE NoneOver
  BY <1>8 DEF HealLock, StillNamed, HealFails, Fails
<1>9. ASSUME NEW p \in Process, HealTimeout(p) PROVE NoneOver
  BY <1>9 DEF HealTimeout, HealFails, Fails
<1>10. ASSUME NEW p \in Process, Heal(p) PROVE NoneOver
  <2>1. PICK new \in {Slot(meta.source), key[p]}, ok \in BOOLEAN :
          PutNew(p, meta.source, key[p], new, ok) /\ SetSlot(meta.source, new)
    BY <1>10 DEF Heal
  <2>2. Slot(meta.source) # None => new = Slot(meta.source)
    BY <2>1 DEF PutNew
  <2> QED BY <2>1, <2>2 DEF SetSlot, Slot
<1>11. ASSUME NEW p \in Process, MintLock(p) PROVE NoneOver
  BY <1>11 DEF MintLock
<1>12. ASSUME NEW p \in Process, MintTimeout(p) PROVE NoneOver
  BY <1>12 DEF MintTimeout, MintFails, Adopts
<1>13. ASSUME NEW p \in Process, MintNamed(p) PROVE NoneOver
  BY <1>13 DEF MintNamed, Answers, Reaches, MintFails, Adopts
<1>14. ASSUME NEW p \in Process, MintOS(p) PROVE NoneOver
  BY <1>14 DEF MintOS, Reaches, Draft, MintFails, Adopts
<1>15. ASSUME NEW p \in Process, MintFile(p) PROVE NoneOver
  BY <1>15 DEF MintFile, Reaches, Draft
<1>16. ASSUME NEW p \in Process, MintMove(p) PROVE NoneOver
  BY <1>16 DEF MintMove, Put, TypeInv, TypeOK, StoresOK, LockInv, Reaches
<1>17. ASSUME NEW p \in Process, MintPut(p) PROVE NoneOver
  BY <1>17 DEF MintPut, Put, Draft, TypeInv, TypeOK, StoresOK, LockInv,
        Reaches
<1>18. ASSUME NEW p \in Process, MintPutFile(p) PROVE NoneOver
  BY <1>18 DEF MintPutFile, Draft, TypeInv, TypeOK, StoresOK, LockInv, Reaches
<1>19. ASSUME NEW p \in Process, Name(p) PROVE NoneOver
  BY <1>19 DEF Name
<1>20. ASSUME NEW p \in Process, Minted(p) PROVE NoneOver
  BY <1>20 DEF Minted, Adopts, Seal
<1>21. ASSUME NEW p \in Process, PromoteLock(p) PROVE NoneOver
  BY <1>21 DEF PromoteLock, StillNamed, Reaches, Seal
<1>22. ASSUME NEW p \in Process, PromoteTimeout(p) PROVE NoneOver
  BY <1>22 DEF PromoteTimeout, Seal
<1>23. ASSUME NEW p \in Process, PromotePut(p) PROVE NoneOver
  BY <1>23 DEF PromotePut, PutNew, Slot, Reaches, Put, Seal, TypeInv, TypeOK,
        StoresOK, LockInv
<1>24. ASSUME NEW p \in Process, NameMoved(p) PROVE NoneOver
  BY <1>24 DEF NameMoved
<1>25. ASSUME NEW p \in Process, Unfile(p) PROVE NoneOver
  BY <1>25 DEF Unfile, Seal, TypeInv, TypeOK, StoresOK, LockInv, Reaches
<1>26. ASSUME NEW p \in Process, MoveLock(p) PROVE NoneOver
  BY <1>26 DEF MoveLock, Seal
<1>27. ASSUME NEW p \in Process, MovePut(p) PROVE NoneOver
  BY <1>27 DEF MovePut, Seal
<1>28. ASSUME NEW p \in Process, Note(p) PROVE NoneOver
  BY <1>28 DEF Note
<1>29. ASSUME NEW p \in Process, NoteWrite(p) PROVE NoneOver
  BY <1>29 DEF NoteWrite
<1>30. ASSUME NEW p \in Process, Moved(p) PROVE NoneOver
  BY <1>30 DEF Moved, Seal, TypeInv, TypeOK, StoresOK, LockInv, Reaches
<1>31. ASSUME NEW p \in Process, NEW b \in sealed, OpenBegin(p, b) PROVE NoneOver
  BY <1>31 DEF OpenBegin, Order, NoAnswer, Reaches, FileOnlyHome
<1>32. ASSUME NEW p \in Process, OpenAsk(p) PROVE NoneOver
  BY <1>32 DEF OpenAsk, Found, Reaches, Kept
<1>33. ASSUME NEW p \in Process, NotFound(p) PROVE NoneOver
  BY <1>33 DEF NotFound
<1>34. ASSUME NEW p \in Process, Crash(p) PROVE NoneOver
  BY <1>34 DEF Crash
<1>35. ASSUME NEW s \in host.loses, Lose(s) PROVE NoneOver
  BY <1>35 DEF Lose, Slot, SetSlot, TypeInv, TypeOK, StoresOK, LockInv,
        Reaches
<1> QED
  BY <1>1, <1>2, <1>3, <1>4, <1>5, <1>6, <1>7, <1>8, <1>9, <1>10, <1>11,
        <1>12, <1>13, <1>14, <1>15, <1>16, <1>17, <1>18, <1>19, <1>20, <1>21,
        <1>22, <1>23, <1>24, <1>25, <1>26, <1>27, <1>28, <1>29, <1>30, <1>31,
        <1>32, <1>33, <1>34, <1>35
  DEF Next, Save, PutBack, Mint, Move, Open

\* No process writes over a key that is in a store, whatever the others do.
THEOREM NothingOverwrittenHolds == Spec => NothingOverwritten
<1>1. ASSUME TypeInv, LockInv, [Next]_vars
      PROVE  [/\ file # None => file' \in {file, None}
              /\ main # None => main' \in {main, None}]_vars
  BY <1>1, NoneOverStep, KeyConstants DEF NoneOver
<1> QED BY <1>1, TypeInvariant, LockInvariant, PTL DEF Spec, NothingOverwritten

------------------------------------------------------------------------------
(* Where the key atrest.json names is *)

OsNamed == meta # None /\ meta.source = "os"
InPlace(m) == Slot(m.source) = m.id \/ m.id \in lost

\* What is being made is made while there is no atrest.json; what is moved out
\* of the file's way, once the keystore has the key that is named, for good.
StageInv ==
  \A p \in Process :
    /\ pc[p] \in {"mintOS", "mintFile", "mintMove", "mintPut", "mintPutFile"} => meta = None
    /\ pc[p] \in {"move"} \cup FileSteps => OsNamed /\ cur[p] = meta.id
    /\ pc[p] = "unfile" => OsNamed /\ meta.id = key[p]

\* What a process has read of atrest.json is true still, as far as it acts on it.
ReadInv ==
  \A p \in Process :
    /\ why[p] # "adoptOS"
    /\ pc[p] \in {"confirm", "ask"} \/ (pc[p] \in {"heal", "healing"} /\ why[p] # "repair") =>
         (seen[p].source = "os" => OsNamed /\ meta.id = seen[p].id)
    /\ pc[p] = "confirm" \/ (pc[p] = "heal" /\ why[p] = "seal") => key[p] = seen[p].id
    /\ pc[p] \in {"mintNamed", "promoting"} =>
         meta # None /\ meta.source = seen[p].source /\ meta.id = seen[p].id
    /\ pc[p] = "healing" => meta # None /\ meta.id = key[p]
    /\ pc[p] = "promoting" => key[p] = seen[p].id
    /\ pc[p] \in {"promote", "promoting"} => seen[p].source = "file"
    /\ pc[p] = "noting" => OsNamed /\ seen[p].source = "os" /\ seen[p].id = meta.id

\* The key named is where it is said to be, and the one to be named will be.
PlaceInv ==
  /\ NamedKeyHeld
  /\ OsNamed => main \in {meta.id, None}
  /\ \A p \in Process :
       /\ pc[p] = "mintMove" => file = key[p] \/ key[p] \in lost
       /\ pc[p] = "name" =>
            /\ InPlace(seen[p])
            /\ seen[p].source = "os" => meta = None /\ main \in {seen[p].id, None}
            /\ meta # None => meta.source = "file" /\ meta.id \in lost
       /\ pc[p] = "nameMoved" =>
            /\ InPlace(seen[p])
            /\ seen[p].source = "os" /\ seen[p].id = key[p] /\ main \in {seen[p].id, None}
            /\ meta # None => meta.source = "file" /\ meta.id = seen[p].id

\* What the keystore is to open is sealed under the key that is named.
SealedInv ==
  \A b \in sealed : b.src = "os" => b.key \in lost \/ (OsNamed /\ meta.id = b.key)

NameInv == StageInv /\ ReadInv /\ PlaceInv /\ SealedInv

\* A step leaves the key that is named in its place.
LEMMA NameStep == ASSUME KeyConstants, TypeInv, LockInv, NameInv, Next PROVE NameInv'
<1> USE DEF stores, locks, known, search, outside, past, Goto, For, Reads,
      About, Remembers, SealsWith
<1>1. ASSUME NEW p \in Process, SealBegin(p) PROVE NameInv'
  <2>1. StageInv'
    BY <1>1 DEF SealBegin, NameInv, StageInv, OsNamed, FileSteps, TypeInv,
          TypeOK, DoingOK, KnownOK
  <2>2. ReadInv'
    BY <1>1 DEF SealBegin, NameInv, ReadInv, OsNamed, TypeInv, TypeOK,
          DoingOK, AboutOK, StoresOK
  <2>3. PlaceInv'
    BY <1>1 DEF SealBegin, NameInv, PlaceInv, NamedKeyHeld, InPlace, Slot,
          OsNamed, TypeInv, TypeOK, DoingOK, StoresOK, AboutOK, ReadInv,
          StageInv, FileSteps
  <2>4. SealedInv'
    BY <1>1 DEF SealBegin, NameInv, SealedInv, OsNamed, TypeInv, TypeOK,
          PastOK, Blob
  <2> QED BY <2>1, <2>2, <2>3, <2>4 DEF NameInv
<1>2. ASSUME NEW p \in Process, Confirm(p) PROVE NameInv'
  <2>1. StageInv'
    BY <1>2 DEF Confirm, Answers, Reaches, Stands, Seal, Fails, NameInv,
          StageInv, OsNamed, FileSteps, TypeInv, TypeOK, DoingOK, KnownOK,
          ReadInv, AboutOK
  <2>2. ReadInv'
    BY <1>2 DEF Confirm, Answers, Reaches, Stands, Seal, Fails, NameInv,
          ReadInv, OsNamed, TypeInv, TypeOK, DoingOK, AboutOK, StoresOK
  <2>3. PlaceInv'
    BY <1>2 DEF Confirm, Answers, Reaches, Stands, Seal, Fails, NameInv,
          PlaceInv, NamedKeyHeld, InPlace, Slot, OsNamed, TypeInv, TypeOK,
          DoingOK, StoresOK, AboutOK, ReadInv, StageInv, FileSteps
  <2>4. SealedInv'
    BY <1>2 DEF Confirm, Answers, Reaches, Stands, Seal, Fails, NameInv,
          SealedInv, OsNamed, TypeInv, TypeOK, PastOK, Blob, ReadInv,
          StageInv, AboutOK, FileSteps, Adopts
  <2> QED BY <2>1, <2>2, <2>3, <2>4 DEF NameInv
<1>3. ASSUME NEW p \in Process, Ask(p) PROVE NameInv'
  <2>1. StageInv'
    BY <1>3 DEF Ask, Answers, Reaches, Seal, NameInv, StageInv, OsNamed,
          FileSteps, TypeInv, TypeOK, DoingOK, KnownOK, ReadInv, AboutOK
  <2>2. ReadInv'
    BY <1>3 DEF Ask, Answers, Reaches, Seal, NameInv, ReadInv, OsNamed,
          TypeInv, TypeOK, DoingOK, AboutOK, StoresOK, PlaceInv, Slot
  <2>3. PlaceInv'
    BY <1>3 DEF Ask, Answers, Reaches, Seal, NameInv, PlaceInv, NamedKeyHeld,
          InPlace, Slot, OsNamed, TypeInv, TypeOK, DoingOK, StoresOK, AboutOK,
          ReadInv, StageInv, FileSteps
  <2>4. SealedInv'
    BY <1>3 DEF Ask, Answers, Reaches, Seal, NameInv, SealedInv, OsNamed,
          TypeInv, TypeOK, PastOK, Blob, ReadInv, StageInv, AboutOK,
          FileSteps, Adopts
  <2> QED BY <2>1, <2>2, <2>3, <2>4 DEF NameInv
<1>4. ASSUME NEW p \in Process, FallbackRead(p) PROVE NameInv'
  <2>1. StageInv'
    BY <1>4 DEF FallbackRead, Seal, NameInv, StageInv, OsNamed, FileSteps,
          TypeInv, TypeOK, DoingOK, KnownOK
  <2>2. ReadInv'
    BY <1>4 DEF FallbackRead, Seal, NameInv, ReadInv, OsNamed, TypeInv,
          TypeOK, DoingOK, AboutOK, StoresOK
  <2>3. PlaceInv'
    BY <1>4 DEF FallbackRead, Seal, NameInv, PlaceInv, NamedKeyHeld, InPlace,
          Slot, OsNamed, TypeInv, TypeOK, DoingOK, StoresOK, AboutOK, ReadInv,
          StageInv, FileSteps
  <2>4. SealedInv'
    BY <1>4 DEF FallbackRead, Seal, NameInv, SealedInv, OsNamed, TypeInv,
          TypeOK, PastOK, Blob, ReadInv, StageInv, AboutOK, FileSteps, Adopts
  <2> QED BY <2>1, <2>2, <2>3, <2>4 DEF NameInv
<1>5. ASSUME NEW p \in Process, FallbackMake(p) PROVE NameInv'
  <2>1. StageInv'
    BY <1>5 DEF FallbackMake, Seal, NameInv, StageInv, OsNamed, FileSteps,
          TypeInv, TypeOK, DoingOK, KnownOK
  <2>2. ReadInv'
    BY <1>5 DEF FallbackMake, Seal, NameInv, ReadInv, OsNamed, TypeInv,
          TypeOK, DoingOK, AboutOK, StoresOK
  <2>3. PlaceInv'
    <3>1. \A q \in Process : pc[q] = "name" \/ pc[q] = "nameMoved" => seen[q].id \in Key
      BY DEF TypeInv, AboutOK, Meta
    <3>2. meta # None => meta.id \in Key
      BY DEF TypeInv, TypeOK, StoresOK, Meta
    <3>3. file # None => file' = file
      BY <1>5 DEF FallbackMake
    <3>4. /\ UNCHANGED <<meta, main, lost, seen, key>>
          /\ \A q \in Process : q # p => pc'[q] = pc[q]
          /\ pc'[p] = "idle"
      BY <1>5 DEF FallbackMake, Seal, TypeInv, TypeOK, DoingOK
    <3>5. NamedKeyHeld'
      BY <3>2, <3>3, <3>4, KeyConstants DEF KeyConstants, NameInv, PlaceInv, NamedKeyHeld, Slot
    <3>6. ASSUME NEW q \in Process, pc[q] \in {"name", "nameMoved"}, InPlace(seen[q])
          PROVE  InPlace(seen[q])'
      BY <3>1, <3>3, <3>4, <3>6, KeyConstants DEF KeyConstants, InPlace, Slot
    <3>7. \A q \in Process : pc[q] = "mintMove" => key[q] \in Key
      BY DEF TypeInv, AboutOK
    <3> QED BY <3>3, <3>4, <3>5, <3>6, <3>7, KeyConstants
            DEF KeyConstants, NameInv, PlaceInv, OsNamed
  <2>4. SealedInv'
    BY <1>5 DEF FallbackMake, Seal, NameInv, SealedInv, OsNamed, TypeInv,
          TypeOK, PastOK, Blob, ReadInv, StageInv, AboutOK, FileSteps, Adopts
  <2> QED BY <2>1, <2>2, <2>3, <2>4 DEF NameInv
<1>6. ASSUME NEW p \in Process, FallbackTimeout(p) PROVE NameInv'
  <2>1. StageInv'
    BY <1>6 DEF FallbackTimeout, NameInv, StageInv, OsNamed, FileSteps,
          TypeInv, TypeOK, DoingOK, KnownOK
  <2>2. ReadInv'
    BY <1>6 DEF FallbackTimeout, NameInv, ReadInv, OsNamed, TypeInv, TypeOK,
          DoingOK, AboutOK, StoresOK
  <2>3. PlaceInv'
    BY <1>6 DEF FallbackTimeout, NameInv, PlaceInv, NamedKeyHeld, InPlace,
          Slot, OsNamed, TypeInv, TypeOK, DoingOK, StoresOK, AboutOK, ReadInv,
          StageInv, FileSteps
  <2>4. SealedInv'
    BY <1>6 DEF FallbackTimeout, NameInv, SealedInv, OsNamed, TypeInv, TypeOK,
          PastOK, Blob
  <2> QED BY <2>1, <2>2, <2>3, <2>4 DEF NameInv
<1>7. ASSUME NEW p \in Process, Repair(p) PROVE NameInv'
  <2>1. StageInv'
    BY <1>7 DEF Repair, NameInv, StageInv, OsNamed, FileSteps, TypeInv,
          TypeOK, DoingOK, KnownOK
  <2>2. ReadInv'
    BY <1>7 DEF Repair, NameInv, ReadInv, OsNamed, TypeInv, TypeOK, DoingOK,
          AboutOK, StoresOK
  <2>3. PlaceInv'
    BY <1>7 DEF Repair, NameInv, PlaceInv, NamedKeyHeld, InPlace, Slot,
          OsNamed, TypeInv, TypeOK, DoingOK, StoresOK, AboutOK, ReadInv,
          StageInv, FileSteps
  <2>4. SealedInv'
    BY <1>7 DEF Repair, NameInv, SealedInv, OsNamed, TypeInv, TypeOK, PastOK,
          Blob
  <2> QED BY <2>1, <2>2, <2>3, <2>4 DEF NameInv
<1>8. ASSUME NEW p \in Process, HealLock(p) PROVE NameInv'
  <2>1. StageInv'
    BY <1>8 DEF HealLock, StillNamed, HealFails, Fails, NameInv, StageInv,
          OsNamed, FileSteps, TypeInv, TypeOK, DoingOK, KnownOK
  <2>2. ReadInv'
    BY <1>8 DEF HealLock, StillNamed, HealFails, Fails, NameInv, ReadInv,
          OsNamed, TypeInv, TypeOK, DoingOK, AboutOK, StoresOK
  <2>3. PlaceInv'
    BY <1>8 DEF HealLock, StillNamed, HealFails, Fails, NameInv, PlaceInv,
          NamedKeyHeld, InPlace, Slot, OsNamed, TypeInv, TypeOK, DoingOK,
          StoresOK, AboutOK, ReadInv, StageInv, FileSteps
  <2>4. SealedInv'
    BY <1>8 DEF HealLock, StillNamed, HealFails, Fails, NameInv, SealedInv,
          OsNamed, TypeInv, TypeOK, PastOK, Blob
  <2> QED BY <2>1, <2>2, <2>3, <2>4 DEF NameInv
<1>9. ASSUME NEW p \in Process, HealTimeout(p) PROVE NameInv'
  <2>1. StageInv'
    BY <1>9 DEF HealTimeout, HealFails, Fails, NameInv, StageInv, OsNamed,
          FileSteps, TypeInv, TypeOK, DoingOK, KnownOK
  <2>2. ReadInv'
    BY <1>9 DEF HealTimeout, HealFails, Fails, NameInv, ReadInv, OsNamed,
          TypeInv, TypeOK, DoingOK, AboutOK, StoresOK
  <2>3. PlaceInv'
    BY <1>9 DEF HealTimeout, HealFails, Fails, NameInv, PlaceInv,
          NamedKeyHeld, InPlace, Slot, OsNamed, TypeInv, TypeOK, DoingOK,
          StoresOK, AboutOK, ReadInv, StageInv, FileSteps
  <2>4. SealedInv'
    BY <1>9 DEF HealTimeout, HealFails, Fails, NameInv, SealedInv, OsNamed,
          TypeInv, TypeOK, PastOK, Blob
  <2> QED BY <2>1, <2>2, <2>3, <2>4 DEF NameInv
<1>10. ASSUME NEW p \in Process, Heal(p) PROVE NameInv'
  <2>1. StageInv'
    BY <1>10 DEF Heal, Slot, PutNew, Reaches, Put, SetSlot, StillNamed,
          HealFails, Fails, Stands, Seal, NameInv, StageInv, OsNamed,
          FileSteps, TypeInv, TypeOK, DoingOK, KnownOK
  <2>2. ReadInv'
    BY <1>10 DEF Heal, Slot, PutNew, Reaches, Put, SetSlot, StillNamed,
          HealFails, Fails, Stands, Seal, NameInv, ReadInv, OsNamed, TypeInv,
          TypeOK, DoingOK, AboutOK, StoresOK
  <2>3. PlaceInv'
    BY <1>10 DEF Heal, Slot, PutNew, Reaches, Put, SetSlot, StillNamed,
          HealFails, Fails, Stands, Seal, NameInv, PlaceInv, NamedKeyHeld,
          InPlace, OsNamed, TypeInv, TypeOK, DoingOK, StoresOK, AboutOK,
          ReadInv, StageInv, FileSteps, LockInv, DirSteps
  <2>4. SealedInv'
    BY <1>10 DEF Heal, Slot, PutNew, Reaches, Put, SetSlot, StillNamed,
          HealFails, Fails, Stands, Seal, NameInv, SealedInv, OsNamed,
          TypeInv, TypeOK, PastOK, Blob, ReadInv, StageInv, AboutOK,
          FileSteps, Adopts
  <2> QED BY <2>1, <2>2, <2>3, <2>4 DEF NameInv
<1>11. ASSUME NEW p \in Process, MintLock(p) PROVE NameInv'
  <2>1. StageInv'
    BY <1>11 DEF MintLock, NameInv, StageInv, OsNamed, FileSteps, TypeInv,
          TypeOK, DoingOK, KnownOK
  <2>2. ReadInv'
    BY <1>11 DEF MintLock, NameInv, ReadInv, OsNamed, TypeInv, TypeOK,
          DoingOK, AboutOK, StoresOK
  <2>3. PlaceInv'
    BY <1>11 DEF MintLock, NameInv, PlaceInv, NamedKeyHeld, InPlace, Slot,
          OsNamed, TypeInv, TypeOK, DoingOK, StoresOK, AboutOK, ReadInv,
          StageInv, FileSteps
  <2>4. SealedInv'
    BY <1>11 DEF MintLock, NameInv, SealedInv, OsNamed, TypeInv, TypeOK,
          PastOK, Blob
  <2> QED BY <2>1, <2>2, <2>3, <2>4 DEF NameInv
<1>12. ASSUME NEW p \in Process, MintTimeout(p) PROVE NameInv'
  <2>1. StageInv'
    BY <1>12 DEF MintTimeout, MintFails, Adopts, NameInv, StageInv, OsNamed,
          FileSteps, TypeInv, TypeOK, DoingOK, KnownOK
  <2>2. ReadInv'
    BY <1>12 DEF MintTimeout, MintFails, Adopts, NameInv, ReadInv, OsNamed,
          TypeInv, TypeOK, DoingOK, AboutOK, StoresOK
  <2>3. PlaceInv'
    BY <1>12 DEF MintTimeout, MintFails, Adopts, NameInv, PlaceInv,
          NamedKeyHeld, InPlace, Slot, OsNamed, TypeInv, TypeOK, DoingOK,
          StoresOK, AboutOK, ReadInv, StageInv, FileSteps
  <2>4. SealedInv'
    BY <1>12 DEF MintTimeout, MintFails, Adopts, NameInv, SealedInv, OsNamed,
          TypeInv, TypeOK, PastOK, Blob
  <2> QED BY <2>1, <2>2, <2>3, <2>4 DEF NameInv
<1>13. ASSUME NEW p \in Process, MintNamed(p) PROVE NameInv'
  <2>1. StageInv'
    BY <1>13 DEF MintNamed, Answers, Reaches, MintFails, Adopts, NameInv,
          StageInv, OsNamed, FileSteps, TypeInv, TypeOK, DoingOK, KnownOK
  <2>2. ReadInv'
    BY <1>13 DEF MintNamed, Answers, Reaches, MintFails, Adopts, NameInv,
          ReadInv, OsNamed, TypeInv, TypeOK, DoingOK, AboutOK, StoresOK
  <2>3. PlaceInv'
    <3>1. seen[p] \in Meta /\ meta # None /\ meta.source = seen[p].source /\ meta.id = seen[p].id
      BY <1>13 DEF MintNamed, TypeInv, AboutOK, NameInv, ReadInv
    <3>2. UNCHANGED <<meta, file, main, lost, key>> /\ \A q \in Process : q # p => pc'[q] = pc[q] /\ seen'[q] = seen[q]
      BY <1>13 DEF MintNamed, MintFails, TypeInv, TypeOK, DoingOK
    <3>3. NamedKeyHeld' /\ (OsNamed => main \in {meta.id, None})'
      BY <3>2 DEF NameInv, PlaceInv, NamedKeyHeld, OsNamed, Slot
    <3>4. ASSUME NEW q \in Process, q # p, pc[q] \in {"name", "nameMoved"}, InPlace(seen[q])
          PROVE  InPlace(seen[q])'
      BY <3>2, <3>4 DEF InPlace, Slot
    <3>5. ASSUME pc'[p] = "name"
          PROVE  InPlace(seen[p])' /\ seen'[p].source = "file" /\ meta.source = "file" /\ meta.id \in lost
      <4>1. PICK a \in Key \ {seen[p].id} : a \in Answers(p, seen[p].source) /\ seen' = [seen EXCEPT ![p] = [seen[p] EXCEPT !.id = a]]
        BY <1>13, <3>5 DEF MintNamed, MintFails, TypeInv, TypeOK, DoingOK
      <4>2. a = Slot(seen[p].source)
        BY <4>1, KeyConstants DEF Answers, Slot, KeyConstants
      <4>3. seen'[p].id = a /\ seen'[p].source = seen[p].source
        BY <3>1, <4>1, MetaFacts DEF TypeInv, TypeOK, DoingOK
      <4>4. seen[p].source = "file"
        BY <3>1, <4>1, <4>2, KeyConstants, MetaFacts DEF NameInv, PlaceInv, OsNamed, Slot, KeyConstants
      <4>5. meta.id \in lost
        BY <3>1, <4>1, <4>2, <4>4 DEF NameInv, PlaceInv, NamedKeyHeld
      <4> QED BY <3>1, <3>2, <4>2, <4>3, <4>4, <4>5 DEF InPlace, Slot
    <3>6. pc'[p] \notin {"mintMove", "nameMoved"}
      BY <1>13 DEF MintNamed, MintFails, TypeInv, TypeOK, DoingOK
    <3> QED BY <3>2, <3>3, <3>4, <3>5, <3>6 DEF NameInv, PlaceInv, OsNamed
  <2>4. SealedInv'
    BY <1>13 DEF MintNamed, Answers, Reaches, MintFails, Adopts, NameInv,
          SealedInv, OsNamed, TypeInv, TypeOK, PastOK, Blob
  <2> QED BY <2>1, <2>2, <2>3, <2>4 DEF NameInv
<1>14. ASSUME NEW p \in Process, MintOS(p) PROVE NameInv'
  <2>1. StageInv'
    BY <1>14 DEF MintOS, Reaches, Draft, MintFails, Adopts, NameInv, StageInv,
          OsNamed, FileSteps, TypeInv, TypeOK, DoingOK, KnownOK
  <2>2. ReadInv'
    BY <1>14 DEF MintOS, Reaches, Draft, MintFails, Adopts, NameInv, ReadInv,
          OsNamed, TypeInv, TypeOK, DoingOK, AboutOK, StoresOK
  <2>3. PlaceInv'
    BY <1>14 DEF MintOS, Reaches, Draft, MintFails, Adopts, NameInv, PlaceInv,
          NamedKeyHeld, InPlace, Slot, OsNamed, TypeInv, TypeOK, DoingOK,
          StoresOK, AboutOK, ReadInv, StageInv, FileSteps
  <2>4. SealedInv'
    BY <1>14 DEF MintOS, Reaches, Draft, MintFails, Adopts, NameInv,
          SealedInv, OsNamed, TypeInv, TypeOK, PastOK, Blob
  <2> QED BY <2>1, <2>2, <2>3, <2>4 DEF NameInv
<1>15. ASSUME NEW p \in Process, MintFile(p) PROVE NameInv'
  <2>1. StageInv'
    BY <1>15 DEF MintFile, Reaches, Draft, NameInv, StageInv, OsNamed,
          FileSteps, TypeInv, TypeOK, DoingOK, KnownOK
  <2>2. ReadInv'
    BY <1>15 DEF MintFile, Reaches, Draft, NameInv, ReadInv, OsNamed, TypeInv,
          TypeOK, DoingOK, AboutOK, StoresOK
  <2>3. PlaceInv'
    BY <1>15 DEF MintFile, Reaches, Draft, NameInv, PlaceInv, NamedKeyHeld,
          InPlace, Slot, OsNamed, TypeInv, TypeOK, DoingOK, StoresOK, AboutOK,
          ReadInv, StageInv, FileSteps
  <2>4. SealedInv'
    BY <1>15 DEF MintFile, Reaches, Draft, NameInv, SealedInv, OsNamed,
          TypeInv, TypeOK, PastOK, Blob
  <2> QED BY <2>1, <2>2, <2>3, <2>4 DEF NameInv
<1>16. ASSUME NEW p \in Process, MintMove(p) PROVE NameInv'
  <2>1. StageInv'
    BY <1>16 DEF MintMove, Put, NameInv, StageInv, OsNamed, FileSteps,
          TypeInv, TypeOK, DoingOK, KnownOK
  <2>2. ReadInv'
    BY <1>16 DEF MintMove, Put, NameInv, ReadInv, OsNamed, TypeInv, TypeOK,
          DoingOK, AboutOK, StoresOK
  <2>3. PlaceInv'
    BY <1>16 DEF MintMove, Put, NameInv, PlaceInv, NamedKeyHeld, InPlace,
          Slot, OsNamed, TypeInv, TypeOK, DoingOK, StoresOK, AboutOK, ReadInv,
          StageInv, FileSteps, LockInv, DirSteps
  <2>4. SealedInv'
    BY <1>16 DEF MintMove, Put, NameInv, SealedInv, OsNamed, TypeInv, TypeOK,
          PastOK, Blob
  <2> QED BY <2>1, <2>2, <2>3, <2>4 DEF NameInv
<1>17. ASSUME NEW p \in Process, MintPut(p) PROVE NameInv'
  <2>1. StageInv'
    BY <1>17 DEF MintPut, Put, Draft, NameInv, StageInv, OsNamed, FileSteps,
          TypeInv, TypeOK, DoingOK, KnownOK
  <2>2. ReadInv'
    BY <1>17 DEF MintPut, Put, Draft, NameInv, ReadInv, OsNamed, TypeInv,
          TypeOK, DoingOK, AboutOK, StoresOK
  <2>3. PlaceInv'
    BY <1>17 DEF MintPut, Put, Draft, NameInv, PlaceInv, NamedKeyHeld,
          InPlace, Slot, OsNamed, TypeInv, TypeOK, DoingOK, StoresOK, AboutOK,
          ReadInv, StageInv, FileSteps, LockInv, DirSteps
  <2>4. SealedInv'
    BY <1>17 DEF MintPut, Put, Draft, NameInv, SealedInv, OsNamed, TypeInv,
          TypeOK, PastOK, Blob
  <2> QED BY <2>1, <2>2, <2>3, <2>4 DEF NameInv
<1>18. ASSUME NEW p \in Process, MintPutFile(p) PROVE NameInv'
  <2>1. StageInv'
    BY <1>18 DEF MintPutFile, Draft, NameInv, StageInv, OsNamed, FileSteps,
          TypeInv, TypeOK, DoingOK, KnownOK
  <2>2. ReadInv'
    BY <1>18 DEF MintPutFile, Draft, NameInv, ReadInv, OsNamed, TypeInv,
          TypeOK, DoingOK, AboutOK, StoresOK
  <2>3. PlaceInv'
    BY <1>18 DEF MintPutFile, Draft, NameInv, PlaceInv, NamedKeyHeld, InPlace,
          Slot, OsNamed, TypeInv, TypeOK, DoingOK, StoresOK, AboutOK, ReadInv,
          StageInv, FileSteps, LockInv, DirSteps
  <2>4. SealedInv'
    BY <1>18 DEF MintPutFile, Draft, NameInv, SealedInv, OsNamed, TypeInv,
          TypeOK, PastOK, Blob
  <2> QED BY <2>1, <2>2, <2>3, <2>4 DEF NameInv
<1>19. ASSUME NEW p \in Process, Name(p) PROVE NameInv'
  <2>1. StageInv'
    BY <1>19 DEF Name, NameInv, StageInv, OsNamed, FileSteps, TypeInv, TypeOK,
          DoingOK, KnownOK, PlaceInv, LockInv, DirSteps, ReadInv, AboutOK,
          InPlace
  <2>2. ReadInv'
    BY <1>19 DEF Name, NameInv, ReadInv, OsNamed, TypeInv, TypeOK, DoingOK,
          AboutOK, StoresOK, PlaceInv, LockInv, DirSteps
  <2>3. PlaceInv'
    BY <1>19 DEF Name, NameInv, PlaceInv, NamedKeyHeld, InPlace, Slot,
          OsNamed, TypeInv, TypeOK, DoingOK, StoresOK, AboutOK, ReadInv,
          StageInv, FileSteps, LockInv, DirSteps
  <2>4. SealedInv'
    BY <1>19 DEF Name, NameInv, SealedInv, OsNamed, TypeInv, TypeOK, PastOK,
          Blob, PlaceInv, ReadInv, StageInv, LockInv, FileSteps
  <2> QED BY <2>1, <2>2, <2>3, <2>4 DEF NameInv
<1>20. ASSUME NEW p \in Process, Minted(p) PROVE NameInv'
  <2>1. StageInv'
    BY <1>20 DEF Minted, Adopts, Seal, NameInv, StageInv, OsNamed, FileSteps,
          TypeInv, TypeOK, DoingOK, KnownOK
  <2>2. ReadInv'
    BY <1>20 DEF Minted, Adopts, Seal, NameInv, ReadInv, OsNamed, TypeInv,
          TypeOK, DoingOK, AboutOK, StoresOK
  <2>3. PlaceInv'
    BY <1>20 DEF Minted, Adopts, Seal, NameInv, PlaceInv, NamedKeyHeld,
          InPlace, Slot, OsNamed, TypeInv, TypeOK, DoingOK, StoresOK, AboutOK,
          ReadInv, StageInv, FileSteps
  <2>4. SealedInv'
    BY <1>20 DEF Minted, Adopts, Seal, NameInv, SealedInv, OsNamed, TypeInv,
          TypeOK, PastOK, Blob, ReadInv, StageInv, AboutOK, FileSteps
  <2> QED BY <2>1, <2>2, <2>3, <2>4 DEF NameInv
<1>21. ASSUME NEW p \in Process, PromoteLock(p) PROVE NameInv'
  <2>1. StageInv'
    BY <1>21 DEF PromoteLock, StillNamed, Reaches, Seal, NameInv, StageInv,
          OsNamed, FileSteps, TypeInv, TypeOK, DoingOK, KnownOK
  <2>2. ReadInv'
    BY <1>21 DEF PromoteLock, StillNamed, Reaches, Seal, NameInv, ReadInv,
          OsNamed, TypeInv, TypeOK, DoingOK, AboutOK, StoresOK
  <2>3. PlaceInv'
    BY <1>21 DEF PromoteLock, StillNamed, Reaches, Seal, NameInv, PlaceInv,
          NamedKeyHeld, InPlace, Slot, OsNamed, TypeInv, TypeOK, DoingOK,
          StoresOK, AboutOK, ReadInv, StageInv, FileSteps
  <2>4. SealedInv'
    BY <1>21 DEF PromoteLock, StillNamed, Reaches, Seal, NameInv, SealedInv,
          OsNamed, TypeInv, TypeOK, PastOK, Blob, ReadInv, StageInv, AboutOK,
          FileSteps, Adopts
  <2> QED BY <2>1, <2>2, <2>3, <2>4 DEF NameInv
<1>22. ASSUME NEW p \in Process, PromoteTimeout(p) PROVE NameInv'
  <2>1. StageInv'
    BY <1>22 DEF PromoteTimeout, Seal, NameInv, StageInv, OsNamed, FileSteps,
          TypeInv, TypeOK, DoingOK, KnownOK
  <2>2. ReadInv'
    BY <1>22 DEF PromoteTimeout, Seal, NameInv, ReadInv, OsNamed, TypeInv,
          TypeOK, DoingOK, AboutOK, StoresOK
  <2>3. PlaceInv'
    BY <1>22 DEF PromoteTimeout, Seal, NameInv, PlaceInv, NamedKeyHeld,
          InPlace, Slot, OsNamed, TypeInv, TypeOK, DoingOK, StoresOK, AboutOK,
          ReadInv, StageInv, FileSteps
  <2>4. SealedInv'
    BY <1>22 DEF PromoteTimeout, Seal, NameInv, SealedInv, OsNamed, TypeInv,
          TypeOK, PastOK, Blob, ReadInv, StageInv, AboutOK, FileSteps, Adopts
  <2> QED BY <2>1, <2>2, <2>3, <2>4 DEF NameInv
<1>23. ASSUME NEW p \in Process, PromotePut(p) PROVE NameInv'
  <2>1. StageInv'
    BY <1>23 DEF PromotePut, PutNew, Slot, Reaches, Put, Seal, NameInv,
          StageInv, OsNamed, FileSteps, TypeInv, TypeOK, DoingOK, KnownOK
  <2>2. ReadInv'
    BY <1>23 DEF PromotePut, PutNew, Slot, Reaches, Put, Seal, NameInv,
          ReadInv, OsNamed, TypeInv, TypeOK, DoingOK, AboutOK, StoresOK
  <2>3. PlaceInv'
    <3>1. /\ seen[p] \in Meta /\ meta # None /\ meta.source = "file" /\ meta.id = seen[p].id
          /\ key[p] = seen[p].id /\ dirLock = p
      BY <1>23 DEF PromotePut, TypeInv, AboutOK, NameInv, ReadInv, LockInv, DirSteps
    <3>2. /\ UNCHANGED <<meta, file, lost, key>>
          /\ \A q \in Process : q # p => pc'[q] = pc[q] /\ seen'[q] = seen[q] /\ pc[q] \notin DirSteps
          /\ pc'[p] \in {"nameMoved", "idle"}
      BY <1>23, <3>1 DEF PromotePut, Seal, TypeInv, TypeOK, DoingOK, LockInv
    <3>3. NamedKeyHeld'
      BY <3>1, <3>2 DEF NameInv, PlaceInv, NamedKeyHeld, Slot
    <3>4. ASSUME pc'[p] = "nameMoved"
          PROVE  seen'[p].source = "os" /\ seen'[p].id = key[p] /\ main' = key[p]
      <4>1. PICK new \in {main, key[p]}, ok \in BOOLEAN :
              /\ PutNew(p, "os", key[p], new, ok) /\ main' = new
              /\ IF ok THEN /\ seen' = [seen EXCEPT ![p] = [seen[p] EXCEPT !.source = "os"]]
                            /\ pc' = [pc EXCEPT ![p] = "nameMoved"]
                 ELSE pc' = [pc EXCEPT ![p] = "idle"]
        BY <1>23 DEF PromotePut, Seal
      <4>2. ok
        BY <3>4, <4>1 DEF TypeInv, TypeOK, DoingOK
      <4>3. main' = key[p]
        BY <4>1, <4>2 DEF PutNew, Put
      <4>4. seen'[p] = [seen[p] EXCEPT !.source = "os"] /\ key[p] \in Key
        BY <1>23, <4>1, <4>2 DEF PromotePut, TypeInv, TypeOK, DoingOK, AboutOK
      <4> QED BY <3>1, <4>3, <4>4, MetaFacts
    <3> QED BY <3>1, <3>2, <3>3, <3>4 DEF NameInv, PlaceInv, OsNamed, InPlace, Slot, DirSteps
  <2>4. SealedInv'
    BY <1>23 DEF PromotePut, PutNew, Slot, Reaches, Put, Seal, NameInv,
          SealedInv, OsNamed, TypeInv, TypeOK, PastOK, Blob, ReadInv,
          StageInv, AboutOK, FileSteps, Adopts
  <2> QED BY <2>1, <2>2, <2>3, <2>4 DEF NameInv
<1>24. ASSUME NEW p \in Process, NameMoved(p) PROVE NameInv'
  <2>1. StageInv'
    BY <1>24 DEF NameMoved, NameInv, StageInv, OsNamed, FileSteps, TypeInv,
          TypeOK, DoingOK, KnownOK, PlaceInv, LockInv, DirSteps, ReadInv,
          AboutOK, InPlace
  <2>2. ReadInv'
    BY <1>24 DEF NameMoved, NameInv, ReadInv, OsNamed, TypeInv, TypeOK,
          DoingOK, AboutOK, StoresOK, PlaceInv, LockInv, DirSteps
  <2>3. PlaceInv'
    BY <1>24 DEF NameMoved, NameInv, PlaceInv, NamedKeyHeld, InPlace, Slot,
          OsNamed, TypeInv, TypeOK, DoingOK, StoresOK, AboutOK, ReadInv,
          StageInv, FileSteps, LockInv, DirSteps
  <2>4. SealedInv'
    BY <1>24 DEF NameMoved, NameInv, SealedInv, OsNamed, TypeInv, TypeOK,
          PastOK, Blob, PlaceInv, ReadInv, StageInv, LockInv, FileSteps
  <2> QED BY <2>1, <2>2, <2>3, <2>4 DEF NameInv
<1>25. ASSUME NEW p \in Process, Unfile(p) PROVE NameInv'
  <2>1. StageInv'
    BY <1>25 DEF Unfile, Seal, NameInv, StageInv, OsNamed, FileSteps, TypeInv,
          TypeOK, DoingOK, KnownOK, ReadInv, AboutOK
  <2>2. ReadInv'
    BY <1>25 DEF Unfile, Seal, NameInv, ReadInv, OsNamed, TypeInv, TypeOK,
          DoingOK, AboutOK, StoresOK
  <2>3. PlaceInv'
    BY <1>25 DEF Unfile, Seal, NameInv, PlaceInv, NamedKeyHeld, InPlace, Slot,
          OsNamed, TypeInv, TypeOK, DoingOK, StoresOK, AboutOK, ReadInv,
          StageInv, FileSteps, LockInv, DirSteps
  <2>4. SealedInv'
    BY <1>25 DEF Unfile, Seal, NameInv, SealedInv, OsNamed, TypeInv, TypeOK,
          PastOK, Blob, ReadInv, StageInv, AboutOK, FileSteps, Adopts
  <2> QED BY <2>1, <2>2, <2>3, <2>4 DEF NameInv
<1>26. ASSUME NEW p \in Process, MoveLock(p) PROVE NameInv'
  <2>1. StageInv'
    BY <1>26 DEF MoveLock, Seal, NameInv, StageInv, OsNamed, FileSteps,
          TypeInv, TypeOK, DoingOK, KnownOK
  <2>2. ReadInv'
    BY <1>26 DEF MoveLock, Seal, NameInv, ReadInv, OsNamed, TypeInv, TypeOK,
          DoingOK, AboutOK, StoresOK
  <2>3. PlaceInv'
    BY <1>26 DEF MoveLock, Seal, NameInv, PlaceInv, NamedKeyHeld, InPlace,
          Slot, OsNamed, TypeInv, TypeOK, DoingOK, StoresOK, AboutOK, ReadInv,
          StageInv, FileSteps
  <2>4. SealedInv'
    BY <1>26 DEF MoveLock, Seal, NameInv, SealedInv, OsNamed, TypeInv, TypeOK,
          PastOK, Blob, ReadInv, StageInv, AboutOK, FileSteps, Adopts
  <2> QED BY <2>1, <2>2, <2>3, <2>4 DEF NameInv
<1>27. ASSUME NEW p \in Process, MovePut(p) PROVE NameInv'
  <2>1. StageInv'
    BY <1>27 DEF MovePut, Seal, NameInv, StageInv, OsNamed, FileSteps,
          TypeInv, TypeOK, DoingOK, KnownOK
  <2>2. ReadInv'
    BY <1>27 DEF MovePut, Seal, NameInv, ReadInv, OsNamed, TypeInv, TypeOK,
          DoingOK, AboutOK, StoresOK
  <2>3. PlaceInv'
    BY <1>27 DEF MovePut, Seal, NameInv, PlaceInv, NamedKeyHeld, InPlace,
          Slot, OsNamed, TypeInv, TypeOK, DoingOK, StoresOK, AboutOK, ReadInv,
          StageInv, FileSteps
  <2>4. SealedInv'
    BY <1>27 DEF MovePut, Seal, NameInv, SealedInv, OsNamed, TypeInv, TypeOK,
          PastOK, Blob, ReadInv, StageInv, AboutOK, FileSteps, Adopts
  <2> QED BY <2>1, <2>2, <2>3, <2>4 DEF NameInv
<1>28. ASSUME NEW p \in Process, Note(p) PROVE NameInv'
  <2>1. StageInv'
    BY <1>28 DEF Note, NameInv, StageInv, OsNamed, FileSteps, TypeInv, TypeOK,
          DoingOK, KnownOK
  <2>2. ReadInv'
    <3>1. OsNamed /\ UNCHANGED <<meta, why, key>> /\ \A q \in Process : q # p => pc'[q] = pc[q] /\ seen'[q] = seen[q]
      BY <1>28 DEF Note, TypeInv, TypeOK, DoingOK, NameInv, StageInv, FileSteps
    <3>2. pc'[p] \in {"moved", "noting"}
      BY <1>28 DEF Note, TypeInv, TypeOK, DoingOK
    <3>3. ASSUME pc'[p] = "noting" PROVE seen'[p].source = meta.source /\ seen'[p].id = meta.id
      <4>1. meta \in Meta /\ key[p] \in Key
        BY <1>28, <3>1 DEF Note, OsNamed, TypeInv, TypeOK, StoresOK, AboutOK
      <4>2. seen' = [seen EXCEPT ![p] = [meta EXCEPT !.promoted = meta.promoted \cup {key[p]}]]
        BY <1>28, <3>3 DEF Note, TypeInv, TypeOK, DoingOK
      <4>3. seen'[p] = [meta EXCEPT !.promoted = meta.promoted \cup {key[p]}]
        BY <4>2 DEF TypeInv, TypeOK, DoingOK
      <4> QED BY <4>1, <4>3, MetaFacts
    <3> QED BY <3>1, <3>2, <3>3 DEF NameInv, ReadInv, OsNamed
  <2>3. PlaceInv'
    BY <1>28 DEF Note, NameInv, PlaceInv, NamedKeyHeld, InPlace, Slot,
          OsNamed, TypeInv, TypeOK, DoingOK, StoresOK, AboutOK, ReadInv,
          StageInv, FileSteps
  <2>4. SealedInv'
    BY <1>28 DEF Note, NameInv, SealedInv, OsNamed, TypeInv, TypeOK, PastOK,
          Blob
  <2> QED BY <2>1, <2>2, <2>3, <2>4 DEF NameInv
<1>29. ASSUME NEW p \in Process, NoteWrite(p) PROVE NameInv'
  <2>1. StageInv'
    BY <1>29 DEF NoteWrite, NameInv, StageInv, OsNamed, FileSteps, TypeInv,
          TypeOK, DoingOK, KnownOK, PlaceInv, LockInv, DirSteps, ReadInv,
          AboutOK
  <2>2. ReadInv'
    BY <1>29 DEF NoteWrite, NameInv, ReadInv, OsNamed, TypeInv, TypeOK,
          DoingOK, AboutOK, StoresOK, PlaceInv, LockInv, DirSteps, StageInv,
          FileSteps
  <2>3. PlaceInv'
    BY <1>29 DEF NoteWrite, NameInv, PlaceInv, NamedKeyHeld, InPlace, Slot,
          OsNamed, TypeInv, TypeOK, DoingOK, StoresOK, AboutOK, ReadInv,
          StageInv, FileSteps, LockInv, DirSteps
  <2>4. SealedInv'
    <3>1. OsNamed /\ seen[p] \in Meta /\ seen[p].source = "os" /\ seen[p].id = meta.id
      BY <1>29 DEF NoteWrite, TypeInv, AboutOK, NameInv, ReadInv
    <3>2. meta' = seen[p] /\ UNCHANGED <<sealed, lost>>
      BY <1>29 DEF NoteWrite
    <3> QED BY <3>1, <3>2, KeyConstants DEF KeyConstants, NameInv, SealedInv, OsNamed
  <2> QED BY <2>1, <2>2, <2>3, <2>4 DEF NameInv
<1>30. ASSUME NEW p \in Process, Moved(p) PROVE NameInv'
  <2>1. StageInv'
    BY <1>30 DEF Moved, Seal, NameInv, StageInv, OsNamed, FileSteps, TypeInv,
          TypeOK, DoingOK, KnownOK
  <2>2. ReadInv'
    BY <1>30 DEF Moved, Seal, NameInv, ReadInv, OsNamed, TypeInv, TypeOK,
          DoingOK, AboutOK, StoresOK
  <2>3. PlaceInv'
    BY <1>30 DEF Moved, Seal, NameInv, PlaceInv, NamedKeyHeld, InPlace, Slot,
          OsNamed, TypeInv, TypeOK, DoingOK, StoresOK, AboutOK, ReadInv,
          StageInv, FileSteps, LockInv, DirSteps
  <2>4. SealedInv'
    BY <1>30 DEF Moved, Seal, NameInv, SealedInv, OsNamed, TypeInv, TypeOK,
          PastOK, Blob, ReadInv, StageInv, AboutOK, FileSteps, Adopts
  <2> QED BY <2>1, <2>2, <2>3, <2>4 DEF NameInv
<1>31. ASSUME NEW p \in Process, NEW b \in sealed, OpenBegin(p, b) PROVE NameInv'
  <2>1. StageInv'
    BY <1>31 DEF OpenBegin, Order, NoAnswer, Reaches, FileOnlyHome, NameInv,
          StageInv, OsNamed, FileSteps, TypeInv, TypeOK, DoingOK, KnownOK
  <2>2. ReadInv'
    BY <1>31 DEF OpenBegin, Order, NoAnswer, Reaches, FileOnlyHome, NameInv,
          ReadInv, OsNamed, TypeInv, TypeOK, DoingOK, AboutOK, StoresOK
  <2>3. PlaceInv'
    BY <1>31 DEF OpenBegin, Order, NoAnswer, Reaches, FileOnlyHome, NameInv,
          PlaceInv, NamedKeyHeld, InPlace, Slot, OsNamed, TypeInv, TypeOK,
          DoingOK, StoresOK, AboutOK, ReadInv, StageInv, FileSteps
  <2>4. SealedInv'
    BY <1>31 DEF OpenBegin, Order, NoAnswer, Reaches, FileOnlyHome, NameInv,
          SealedInv, OsNamed, TypeInv, TypeOK, PastOK, Blob
  <2> QED BY <2>1, <2>2, <2>3, <2>4 DEF NameInv
<1>32. ASSUME NEW p \in Process, OpenAsk(p) PROVE NameInv'
  <2>1. StageInv'
    BY <1>32 DEF OpenAsk, Found, Reaches, Kept, NameInv, StageInv, OsNamed,
          FileSteps, TypeInv, TypeOK, DoingOK, KnownOK
  <2>2. ReadInv'
    BY <1>32 DEF OpenAsk, Found, Reaches, Kept, NameInv, ReadInv, OsNamed,
          TypeInv, TypeOK, DoingOK, AboutOK, StoresOK
  <2>3. PlaceInv'
    BY <1>32 DEF OpenAsk, Found, Reaches, Kept, NameInv, PlaceInv,
          NamedKeyHeld, InPlace, Slot, OsNamed, TypeInv, TypeOK, DoingOK,
          StoresOK, AboutOK, ReadInv, StageInv, FileSteps
  <2>4. SealedInv'
    BY <1>32 DEF OpenAsk, Found, Reaches, Kept, NameInv, SealedInv, OsNamed,
          TypeInv, TypeOK, PastOK, Blob
  <2> QED BY <2>1, <2>2, <2>3, <2>4 DEF NameInv
<1>33. ASSUME NEW p \in Process, NotFound(p) PROVE NameInv'
  <2>1. StageInv'
    BY <1>33 DEF NotFound, NameInv, StageInv, OsNamed, FileSteps, TypeInv,
          TypeOK, DoingOK, KnownOK
  <2>2. ReadInv'
    BY <1>33 DEF NotFound, NameInv, ReadInv, OsNamed, TypeInv, TypeOK,
          DoingOK, AboutOK, StoresOK
  <2>3. PlaceInv'
    BY <1>33 DEF NotFound, NameInv, PlaceInv, NamedKeyHeld, InPlace, Slot,
          OsNamed, TypeInv, TypeOK, DoingOK, StoresOK, AboutOK, ReadInv,
          StageInv, FileSteps
  <2>4. SealedInv'
    BY <1>33 DEF NotFound, NameInv, SealedInv, OsNamed, TypeInv, TypeOK,
          PastOK, Blob
  <2> QED BY <2>1, <2>2, <2>3, <2>4 DEF NameInv
<1>34. ASSUME NEW p \in Process, Crash(p) PROVE NameInv'
  <2>1. StageInv'
    BY <1>34 DEF Crash, NameInv, StageInv, OsNamed, FileSteps, TypeInv,
          TypeOK, DoingOK, KnownOK
  <2>2. ReadInv'
    BY <1>34 DEF Crash, NameInv, ReadInv, OsNamed, TypeInv, TypeOK, DoingOK,
          AboutOK, StoresOK
  <2>3. PlaceInv'
    BY <1>34 DEF Crash, NameInv, PlaceInv, NamedKeyHeld, InPlace, Slot,
          OsNamed, TypeInv, TypeOK, DoingOK, StoresOK, AboutOK, ReadInv,
          StageInv, FileSteps
  <2>4. SealedInv'
    BY <1>34 DEF Crash, NameInv, SealedInv, OsNamed, TypeInv, TypeOK, PastOK,
          Blob
  <2> QED BY <2>1, <2>2, <2>3, <2>4 DEF NameInv
<1>35. ASSUME NEW s \in host.loses, Lose(s) PROVE NameInv'
  <2>1. StageInv'
    BY <1>35 DEF Lose, Slot, SetSlot, NameInv, StageInv, OsNamed, FileSteps,
          TypeInv, TypeOK, DoingOK, KnownOK
  <2>2. ReadInv'
    BY <1>35 DEF Lose, Slot, SetSlot, NameInv, ReadInv, OsNamed, TypeInv,
          TypeOK, DoingOK, AboutOK, StoresOK
  <2>3. PlaceInv'
    BY <1>35 DEF Lose, Slot, SetSlot, NameInv, PlaceInv, NamedKeyHeld,
          InPlace, OsNamed, TypeInv, TypeOK, DoingOK, StoresOK, AboutOK,
          ReadInv, StageInv, FileSteps, LockInv, DirSteps
  <2>4. SealedInv'
    BY <1>35 DEF Lose, Slot, SetSlot, NameInv, SealedInv, OsNamed, TypeInv,
          TypeOK, PastOK, Blob
  <2> QED BY <2>1, <2>2, <2>3, <2>4 DEF NameInv
<1> QED
  BY <1>1, <1>2, <1>3, <1>4, <1>5, <1>6, <1>7, <1>8, <1>9, <1>10, <1>11,
        <1>12, <1>13, <1>14, <1>15, <1>16, <1>17, <1>18, <1>19, <1>20, <1>21,
        <1>22, <1>23, <1>24, <1>25, <1>26, <1>27, <1>28, <1>29, <1>30, <1>31,
        <1>32, <1>33, <1>34, <1>35
  DEF Next, Save, PutBack, Mint, Move, Open

LEMMA NameInvariant == Spec => []NameInv
<1> USE DEF NameInv, StageInv, ReadInv, PlaceInv, SealedInv
<1>1. ASSUME NameInv, UNCHANGED vars PROVE NameInv'
  BY <1>1 DEF vars, stores, locks, known, search, outside, past, OsNamed, InPlace, NamedKeyHeld,
       Slot
<1>2. ASSUME TypeInv, LockInv, NameInv, [Next]_vars PROVE NameInv'
  BY <1>1, <1>2, NameStep, KeyConstants
<1>3. Init => NameInv
  BY KeyConstants DEF Init, NamedKeyHeld, OsNamed, FileSteps
<1> QED BY <1>2, <1>3, TypeInvariant, LockInvariant, PTL DEF Spec

\* The key atrest.json names is in the store it names, or something outside took
\* it, whoever crashes and whatever is moved meanwhile.
THEOREM NamedKeyHeldHolds == Spec => []NamedKeyHeld
  BY NameInvariant, PTL DEF NameInv, PlaceInv

------------------------------------------------------------------------------
(* The processes agree on one key *)

\* Another key is named only when the one before is lost; nothing is unsealed.
Keeps ==
  /\ sealed \subseteq sealed' /\ lost \subseteq lost'
  /\ meta' # meta =>
       /\ sealed' = sealed /\ meta' # None
       /\ meta = None \/ meta.id \in lost \/ meta'.id = meta.id

\* What names a key looked under the lock what was named.
LEMMA KeepsStep == ASSUME KeyConstants, TypeInv, LockInv, NameInv, Next PROVE Keeps
<1> USE DEF stores, locks, known, search, outside, past, Goto, For, Reads,
      About, Remembers, SealsWith, Keeps
<1>1. ASSUME NEW p \in Process, SealBegin(p) PROVE Keeps
  BY <1>1 DEF SealBegin
<1>2. ASSUME NEW p \in Process, Confirm(p) PROVE Keeps
  BY <1>2 DEF Confirm, Answers, Reaches, Stands, Seal, Fails
<1>3. ASSUME NEW p \in Process, Ask(p) PROVE Keeps
  BY <1>3 DEF Ask, Answers, Reaches, Seal
<1>4. ASSUME NEW p \in Process, FallbackRead(p) PROVE Keeps
  BY <1>4 DEF FallbackRead, Seal
<1>5. ASSUME NEW p \in Process, FallbackMake(p) PROVE Keeps
  BY <1>5 DEF FallbackMake, Seal
<1>6. ASSUME NEW p \in Process, FallbackTimeout(p) PROVE Keeps
  BY <1>6 DEF FallbackTimeout
<1>7. ASSUME NEW p \in Process, Repair(p) PROVE Keeps
  BY <1>7 DEF Repair
<1>8. ASSUME NEW p \in Process, HealLock(p) PROVE Keeps
  BY <1>8 DEF HealLock, StillNamed, HealFails, Fails
<1>9. ASSUME NEW p \in Process, HealTimeout(p) PROVE Keeps
  BY <1>9 DEF HealTimeout, HealFails, Fails
<1>10. ASSUME NEW p \in Process, Heal(p) PROVE Keeps
  BY <1>10 DEF Heal, Slot, PutNew, Reaches, Put, SetSlot, StillNamed,
        HealFails, Fails, Stands, Seal
<1>11. ASSUME NEW p \in Process, MintLock(p) PROVE Keeps
  BY <1>11 DEF MintLock
<1>12. ASSUME NEW p \in Process, MintTimeout(p) PROVE Keeps
  BY <1>12 DEF MintTimeout, MintFails, Adopts
<1>13. ASSUME NEW p \in Process, MintNamed(p) PROVE Keeps
  BY <1>13 DEF MintNamed, Answers, Reaches, MintFails, Adopts
<1>14. ASSUME NEW p \in Process, MintOS(p) PROVE Keeps
  BY <1>14 DEF MintOS, Reaches, Draft, MintFails, Adopts
<1>15. ASSUME NEW p \in Process, MintFile(p) PROVE Keeps
  BY <1>15 DEF MintFile, Reaches, Draft
<1>16. ASSUME NEW p \in Process, MintMove(p) PROVE Keeps
  BY <1>16 DEF MintMove, Put
<1>17. ASSUME NEW p \in Process, MintPut(p) PROVE Keeps
  BY <1>17 DEF MintPut, Put, Draft
<1>18. ASSUME NEW p \in Process, MintPutFile(p) PROVE Keeps
  BY <1>18 DEF MintPutFile, Draft
<1>19. ASSUME NEW p \in Process, Name(p) PROVE Keeps
  BY <1>19 DEF Name, TypeInv, AboutOK, NameInv, PlaceInv, ReadInv, OsNamed,
        InPlace, KeyConstants
<1>20. ASSUME NEW p \in Process, Minted(p) PROVE Keeps
  BY <1>20 DEF Minted, Adopts, Seal
<1>21. ASSUME NEW p \in Process, PromoteLock(p) PROVE Keeps
  BY <1>21 DEF PromoteLock, StillNamed, Reaches, Seal
<1>22. ASSUME NEW p \in Process, PromoteTimeout(p) PROVE Keeps
  BY <1>22 DEF PromoteTimeout, Seal
<1>23. ASSUME NEW p \in Process, PromotePut(p) PROVE Keeps
  BY <1>23 DEF PromotePut, PutNew, Slot, Reaches, Put, Seal
<1>24. ASSUME NEW p \in Process, NameMoved(p) PROVE Keeps
  BY <1>24 DEF NameMoved, TypeInv, AboutOK, NameInv, PlaceInv, ReadInv,
        OsNamed, InPlace, KeyConstants
<1>25. ASSUME NEW p \in Process, Unfile(p) PROVE Keeps
  BY <1>25 DEF Unfile, Seal
<1>26. ASSUME NEW p \in Process, MoveLock(p) PROVE Keeps
  BY <1>26 DEF MoveLock, Seal
<1>27. ASSUME NEW p \in Process, MovePut(p) PROVE Keeps
  BY <1>27 DEF MovePut, Seal
<1>28. ASSUME NEW p \in Process, Note(p) PROVE Keeps
  BY <1>28 DEF Note
<1>29. ASSUME NEW p \in Process, NoteWrite(p) PROVE Keeps
  BY <1>29 DEF NoteWrite, TypeInv, AboutOK, NameInv, PlaceInv, ReadInv,
        OsNamed, InPlace, KeyConstants
<1>30. ASSUME NEW p \in Process, Moved(p) PROVE Keeps
  BY <1>30 DEF Moved, Seal
<1>31. ASSUME NEW p \in Process, NEW b \in sealed, OpenBegin(p, b) PROVE Keeps
  BY <1>31 DEF OpenBegin, Order, NoAnswer, Reaches, FileOnlyHome
<1>32. ASSUME NEW p \in Process, OpenAsk(p) PROVE Keeps
  BY <1>32 DEF OpenAsk, Found, Reaches, Kept
<1>33. ASSUME NEW p \in Process, NotFound(p) PROVE Keeps
  BY <1>33 DEF NotFound
<1>34. ASSUME NEW p \in Process, Crash(p) PROVE Keeps
  BY <1>34 DEF Crash
<1>35. ASSUME NEW s \in host.loses, Lose(s) PROVE Keeps
  BY <1>35 DEF Lose, Slot, SetSlot
<1> QED
  BY <1>1, <1>2, <1>3, <1>4, <1>5, <1>6, <1>7, <1>8, <1>9, <1>10, <1>11,
        <1>12, <1>13, <1>14, <1>15, <1>16, <1>17, <1>18, <1>19, <1>20, <1>21,
        <1>22, <1>23, <1>24, <1>25, <1>26, <1>27, <1>28, <1>29, <1>30, <1>31,
        <1>32, <1>33, <1>34, <1>35
  DEF Next, Save, PutBack, Mint, Move, Open

\* Every step chooses, seals, loses or changes nothing of it; what is sealed for
\* the keystore is sealed under the key that is chosen.
LEMMA AgreeStep ==
  ASSUME KeyConstants, TypeInv, NameInv, TypeInv', NameInv', Keeps
  PROVE  [Agreed!Next]_(Agreed!vars)
<1> USE DEF KeyConstants, Keeps
<1>1. Chosen' \in Key \cup {None} /\ (Chosen # None => Chosen = meta.id /\ meta # None /\ meta.id \notin lost)
  <2>1. meta' # None => meta'.id \in Key
    BY DEF TypeInv, TypeOK, StoresOK, Meta
  <2>2. meta # None => meta.id \in Key
    BY DEF TypeInv, TypeOK, StoresOK, Meta
  <2> QED BY <2>1, <2>2 DEF Chosen
<1>2. ASSUME NEW k \in Under PROVE Chosen # None /\ k = Chosen
  BY <1>2 DEF Under, Chosen, NameInv, SealedInv, OsNamed
<1>3. ASSUME NEW k \in Under' PROVE Chosen' # None /\ k = Chosen'
  BY <1>3 DEF Under, Chosen, NameInv, SealedInv, OsNamed
<1>4. CASE Chosen = None /\ Chosen' = None
  <2>1. Under = {} /\ Under' = {}
    BY <1>2, <1>3, <1>4
  <2> QED BY <1>4, <2>1 DEF Agreed!vars
<1>5. CASE Chosen = None /\ Chosen' # None
  <2>1. sealed' = sealed
    BY <1>5 DEF Chosen
  <2>2. Under' \subseteq Under
    BY <2>1 DEF Under
  <2>3. Under = {} /\ Under' = {}
    BY <1>2, <1>5, <2>2
  <2> QED BY <1>1, <1>5, <2>3 DEF Agreed!Next, Agreed!Choose
<1>6. CASE Chosen # None /\ Chosen' = None
  <2>1. Under' = {} /\ Under \subseteq {Chosen}
    BY <1>2, <1>3, <1>6
  <2> QED BY <1>6, <2>1 DEF Agreed!Next, Agreed!Lose
<1>7. CASE Chosen # None /\ Chosen' # None
  <2>1. Chosen' = Chosen /\ Chosen \notin lost'
    BY <1>1, <1>7 DEF Chosen
  <2>2. Under \subseteq Under'
    BY <1>2, <2>1 DEF Under
  <2>3. Under' = Under \/ Under' = Under \cup {Chosen}
    BY <1>2, <1>3, <2>1, <2>2
  <2> QED BY <1>7, <2>1, <2>3 DEF Agreed!Next, Agreed!Seal, Agreed!vars
<1> QED BY <1>1, <1>4, <1>5, <1>6, <1>7

\* For any number of processes, keys and losses, the store keeps the promise of
\* OneKey.
THEOREM AgreeOnOneKeyHolds == Spec => AgreeOnOneKey
<1>1. Init => Agreed!Init
  BY DEF Init, Agreed!Init, Chosen, Under
<1>2. ASSUME TypeInv, LockInv, NameInv, TypeInv', NameInv', [Next]_vars
      PROVE  [Agreed!Next]_(Agreed!vars)
  <2>1. CASE Next
    BY <1>2, <2>1, KeepsStep, AgreeStep, KeyConstants
  <2>2. CASE UNCHANGED vars
    BY <2>2 DEF vars, stores, outside, past, Agreed!vars, Chosen, Under
  <2> QED BY <1>2, <2>1, <2>2
<1> QED
  BY <1>1, <1>2, TypeInvariant, LockInvariant, NameInvariant, PTL
  DEF Spec, AgreeOnOneKey, Agreed!Spec
==============================================================================
