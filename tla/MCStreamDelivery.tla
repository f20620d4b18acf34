--------------------------- MODULE MCStreamDelivery ---------------------------
(* StreamDelivery for TLC: viewers at the relay and on the host's machine. *)
EXTENDS StreamDelivery, TLC

CONSTANTS v1, v2, local

OneViewer  == {v1}
TwoViewers == {v1, v2}
RelayOnly  == {relay}
WithLocal  == {relay, local}
BothRemote == [v \in {v1, v2} |-> relay]
OneRemote  == [v \in {v1} |-> relay]
Beside     == [v \in {v1, v2} |-> IF v = v1 THEN relay ELSE local]

\* a viewer that counts from nothing; or with an earlier host's count far beyond
\* this one's numbering, or one that the numbering soon reaches
Fresh    == {0}
FromFar  == {MaxSeq + RestartGap + 1}
NearOnly == {MaxSeq + 1}

\* Viewers on the same link are alike, so that it is enough to ask one of them.
FirstCatchesUp == CatchesUp(v1)
==============================================================================
