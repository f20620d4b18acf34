----------------------------- MODULE MCAtRestKeys -----------------------------
(* AtRestKeys for TLC: two processes on a desktop, or on a machine where one of *)
(* them cannot reach the keyring.                                               *)
EXTENDS AtRestKeys, TLC

CONSTANTS p1, p2, k1, k2, k3

Processes == {p1, p2}
TwoKeys   == {k1, k2}
ThreeKeys == {k1, k2, k3}
Both    == [p \in {p1, p2} |-> TRUE]
OnlyOne == [p \in {p1, p2} |-> p = p1]
Desktop  == [desktop |-> TRUE, reach |-> Both, loses |-> {"os"}]
Keyring  == [desktop |-> FALSE, reach |-> OnlyOne, loses |-> {"file", "os"}]
Hosts == {Desktop, Keyring}

\* What a process no longer reads of what it is about makes no difference.
Doing(p) ==
  CASE pc[p] \in {"idle", "fallback", "fallbackLock", "move", "moved"} -> <<pc[p]>>
    [] pc[p] \in {"mint", "mintOS", "mintFile", "mintNamed", "minted"} ->
         <<pc[p], IF Adopts(p) THEN <<why[p], key[p]>> ELSE <<>>,
           IF pc[p] = "mintNamed" THEN seen[p] ELSE None>>
    [] pc[p] \in {"mintPut", "mintPutFile", "mintMove", "moving", "note"} -> <<pc[p], key[p]>>
    [] pc[p] \in {"ask", "noting"} -> <<pc[p], seen[p]>>
    [] pc[p] = "open" -> <<FileOnlyHome(seen[p]), seen[p] # None /\ seen[p].id = key[p],
                           key[p], asks[p], unsure[p]>>
    [] OTHER -> <<pc[p], why[p], seen[p], key[p]>>
View == <<host, stores, locks, known, [p \in Process |-> Doing(p)], sealed, past>>

SymKeys == Permutations(Key)
==============================================================================
