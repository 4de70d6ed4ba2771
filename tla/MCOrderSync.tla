---------------------------- MODULE MCOrderSync ----------------------------
(* Two runners and a stream of three events, the first and the last of the *)
(* same order, in pages of two.  TimeLimit is TRUE in MCServices.cfg and in *)
(* the run that shows what the operation timeout leaves behind.             *)
EXTENDS OrderSync

CONSTANTS o1, o2

MCOrderOf == <<o1, o2, o1>>
=============================================================================
