-------------------------------- MODULE OneKey --------------------------------
(* What the key store promises the processes that share it: one key is chosen,  *)
(* what is sealed is sealed under it, and another is chosen only once something *)
(* outside has taken it away, with all it had sealed.                           *)
CONSTANTS Key, None
VARIABLES chosen, under

vars == <<chosen, under>>

Init == chosen = None /\ under = {}

Choose(k) == chosen = None /\ chosen' = k /\ UNCHANGED under
Seal == chosen # None /\ under' = under \cup {chosen} /\ UNCHANGED chosen
Lose == chosen # None /\ chosen' = None /\ under' = under \ {chosen}

Next == (\E k \in Key : Choose(k)) \/ Seal \/ Lose

Spec == Init /\ [][Next]_vars
==============================================================================
