---------------------------- MODULE MCSealedFrames ----------------------------
(* SealedFrames for TLC: two viewers at the relay, whose host connects to it anew. *)
EXTENDS SealedFrames, TLC

CONSTANTS v1, v2, local, rd1, rd2, w1, w2

Viewers  == {v1, v2}
Links    == {relay, local}
AtRelay  == [v \in {v1, v2} |-> relay]
Readers  == {rd1, rd2}
\* of the connection now, and still of the one before it
InTurn   == [r \in {rd1, rd2} |-> relay]
Writers  == {w1, w2}

Sym ==
  Permutations({v1, v2}) \cup Permutations({w1, w2}) \cup Permutations({rd1, rd2})
==============================================================================
