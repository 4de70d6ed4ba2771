--------------------------- MODULE MCProductCache ---------------------------
(* Products do not depend on each other, but for the order of the pages:    *)
(* one product, two scans at a time and a targeted read.                    *)
EXTENDS ProductCache, TLC

CONSTANTS p1, p2, f1, f2, r1

Symmetric == Permutations(Scanner)
=============================================================================
