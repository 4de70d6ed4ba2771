--------------------------- MODULE WriteOwnership ---------------------------
(***************************************************************************)
(* What Apply promises of external writes, whatever crashes, recovers or   *)
(* is retried: a job writes to a Listing at most once, only while it owns  *)
(* the Listing, and a Listing changes hands only when nothing can still    *)
(* reach it and the local Current shows what the provider has.  Of the      *)
(* Current nothing is promised where a Listing is adrift.                  *)
(***************************************************************************)
CONSTANTS
    Job,
    Listing,
    NoJob       \* not a member of Job

VARIABLES
    owner,      \* the job that owns a Listing, or NoJob
    phase,      \* phase[j][l] of the write of j to l
    remote,     \* the write the provider's Listing reflects
    shown,      \* the write the local Current of a Listing reflects
    adrift      \* Listings whose local Current is nobody's promise

vars == <<owner, phase, remote, shown, adrift>>

Init ==
    /\ owner = [l \in Listing |-> NoJob]
    /\ phase = [j \in Job |-> [l \in Listing |-> "unsent"]]
    /\ remote = [l \in Listing |-> NoJob]
    /\ shown = [l \in Listing |-> NoJob]
    /\ adrift \subseteq Listing

\* Nothing can still change l, and what it became is known.
AtRest(l) == /\ \A j \in Job : phase[j][l] # "flying"
             /\ l \notin adrift => shown[l] = remote[l]

\* A job takes Listings that nobody owns or whose owner is done with them.
Take(j, L) ==
    /\ \A l \in L : AtRest(l)
    /\ owner' = [l \in Listing |-> IF l \in L THEN j ELSE owner[l]]
    /\ UNCHANGED <<phase, remote, shown, adrift>>

\* Writes are issued, each for the only time.
Send(j, L) ==
    /\ \A l \in L : owner[l] = j /\ phase[j][l] = "unsent"
    /\ phase' = [phase EXCEPT ![j] =
          [l \in Listing |-> IF l \in L THEN "flying" ELSE @[l]]]
    /\ UNCHANGED <<owner, remote, shown, adrift>>

\* A write takes effect, or it never will.
Land(j, l) ==
    /\ phase[j][l] = "flying"
    /\ phase' = [phase EXCEPT ![j][l] = "done"]
    /\ remote' = [remote EXCEPT ![l] = j]
    /\ UNCHANGED <<owner, shown, adrift>>

Drop(j, l) ==
    /\ phase[j][l] = "flying"
    /\ phase' = [phase EXCEPT ![j][l] = "done"]
    /\ UNCHANGED <<owner, remote, shown, adrift>>

\* A job shows its verified writes to L and lets go of F: to what is not adrift only
\* the owner's.
Settle(j, L, F) ==
    /\ \A l \in L \ adrift : owner[l] = j /\ remote[l] = j
    /\ shown' = [l \in Listing |-> IF l \in L THEN j ELSE shown[l]]
    /\ \A l \in F : /\ owner[l] = j
                    /\ \A k \in Job : phase[k][l] # "flying"
                    /\ l \notin adrift => shown'[l] = remote[l]
    /\ owner' = [l \in Listing |-> IF l \in F THEN NoJob ELSE owner[l]]
    /\ UNCHANGED <<phase, remote, adrift>>

\* More Listings go adrift.
Drift ==
    /\ adrift \subseteq adrift' /\ adrift' \subseteq Listing
    /\ UNCHANGED <<owner, phase, remote, shown>>

Held(j) == {l \in Listing : owner[l] = j}

Next ==
    \/ \E j \in Job :
        \/ \E L \in SUBSET {l \in Listing : AtRest(l)} : Take(j, L)
        \/ \E L \in SUBSET Held(j) : Send(j, L)
        \/ \E L \in SUBSET (Held(j) \cup adrift), F \in SUBSET Held(j) : Settle(j, L, F)
        \/ \E l \in Listing : Land(j, l) \/ Drop(j, l)
    \/ Drift

Spec == Init /\ [][Next]_vars
=============================================================================
