------------------------------ MODULE MCApply ------------------------------
(* Two operations that share a Listing, two Listings on two Channels, two
   requests at a time: j1 writes to both Channels, j2 to the second only. *)
EXTENDS Apply, TLC

CONSTANTS j1, j2, l1, l2, c1, c2, s1, s2

MCScope == (j1 :> {l1, l2}) @@ (j2 :> {l2})
MCChannelOf == (l1 :> c1) @@ (l2 :> c2)

\* The operation on one Listing can be claimed by two reconciliations.
MCMaxFence == (j1 :> 2) @@ (j2 :> 3)

\* Where a session may be overtaken: where a check of the lease follows; also
\* while it waits to claim the job; also between check and DISPATCHED commit.
StallChecked == CheckedPoints
StallClaim == CheckedPoints \cup {"claim"}
StallDispatch == CheckedPoints \cup {"dispatch"}
=============================================================================
