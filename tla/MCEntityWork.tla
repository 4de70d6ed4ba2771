---------------------------- MODULE MCEntityWork ----------------------------
(* Two or three receipts about one product, one or two runner processes.  A *)
(* row number is needed for the active row and for each row a late runner   *)
(* still refers to.                                                          *)
EXTENDS EntityWork, TLC

CONSTANTS r1, r2, r3, w1, w2, k1, k2, k3

\* Row numbers are chosen, and so not symmetric.
Symmetric == Permutations(Runner)
=============================================================================
