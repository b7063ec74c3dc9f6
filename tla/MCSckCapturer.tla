---------------------------- MODULE MCSckCapturer ----------------------------
EXTENDS SckCapturer, TLC

CONSTANTS d1, d2, d3

\* Three displays; the second and the third may be gone, are alike and have one size.
Sizes == [d \in Displays |-> IF d = d1 THEN 1 ELSE 2]
AnyContent == {{}, {d1}, Displays}
Others == Permutations({d2, d3})
=============================================================================
