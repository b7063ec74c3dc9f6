-------------------------- MODULE MCDxgiDuplication --------------------------
EXTENDS DxgiDuplication, TLC

CONSTANTS f1, f2, m, gone

\* Two outputs, a capturer of the whole desktop with both its frames, another one of
\* the second monitor and one of a monitor that is gone.
TwoOutputs == [b \in {1, 2} |-> b]
Sources == (f1 :> Full) @@ (f2 :> Full) @@ (m :> 2) @@ (gone :> Absent)
=============================================================================
