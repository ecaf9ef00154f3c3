--------------------------- MODULE MCJobHeapCheck ---------------------------
(* Instantiates JobHeapCheck with six interchangeable elements.            *)
EXTENDS JobHeapCheck, TLC

CONSTANTS e1, e2, e3, e4, e5, e6

MCElems == {e1, e2, e3, e4, e5, e6}

\* The keys are chosen in Init, so renaming elements maps behaviours to
\* behaviours.
Symmetry == Permutations(MCElems)
==============================================================================
