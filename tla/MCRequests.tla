----------------------------- MODULE MCRequests -----------------------------
(* Requests of a provider, whose receipts runs process later, and requests of *)
(* users in a Workspace, explored in one run: which of the two is chosen in    *)
(* the initial state, and the other rests in its own.                        *)
EXTENDS OrderReceipts, WorkspaceReview, TLC

CONSTANTS ra, rb, rc, pa, pc, pab, pbc

VARIABLE from

requestsVars == <<from, receiptsVars, reviewVars>>

\* Item requests in a batch, in another batch, and alone; pc is the oldest.
MCRequestIds == pab :> {ra, rb} @@ pa :> {ra} @@ pc :> {rc} @@ pbc :> {rb, rc}
MCOccurredAt == pab :> 2 @@ pa :> 2 @@ pc :> 1 @@ pbc :> 3

\* Items are selected one by one: each selection can be all of a manifest.
SelectEach == {{item} : item \in Item}

RequestsInit == from \in {"provider", "user"} /\ ReceiptsInit /\ ReviewInit

RequestsNext ==
    /\ UNCHANGED from
    /\ \/ from = "provider" /\ ReceiptsNext /\ UNCHANGED reviewVars
       \/ from = "user" /\ ReviewNext /\ UNCHANGED receiptsVars

\* An idle Workspace has no step it must take, an idle runner looks for receipts.
RequestsFairness ==
    /\ WF_receiptsVars(from = "provider" /\ \E w \in Worker : StartRun(w))
    /\ RunFairness
    /\ ReviewFairness

RequestsSpec == RequestsInit /\ [][RequestsNext]_requestsVars /\ RequestsFairness

\* The rows of both, and what their sessions remember, have their types.
RequestsTypeOK == ReceiptsTypeOK /\ WorkspaceTypeOK
=============================================================================
