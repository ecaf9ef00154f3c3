\* Six elements, keys 0..3 (ties possible), every Push/Pop/Remove order.
\* Six elements give a heap of three levels whose last element can sit
\* in the other subtree from a removed one.
CONSTANTS
    e1 = e1  e2 = e2  e3 = e3  e4 = e4  e5 = e5  e6 = e6
    Elems <- MCElems
    Ranks = {0, 1, 2, 3}
SPECIFICATION Spec
SYMMETRY Symmetry
 
INVARIANT HeapShape
