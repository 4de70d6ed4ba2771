-------------------------- MODULE PricingDecision --------------------------
(***************************************************************************)
(* Which pricing decision a Channel is under (pricing_matrix/service.py,   *)
(* pricing_authority/service.py): two append-only logs, of activations of  *)
(* a pricing policy and of changes of the pricing authority, each with one *)
(* head row that moves by compare-and-swap, the revisions of the Channel's *)
(* unit, and a Workspace that binds to all three and has the binding       *)
(* verified before it writes.  Every read is a statement of its own.       *)
(***************************************************************************)
EXTENDS Naturals, Sequences

CONSTANTS
    Admin,              \* requests that move a head, one each at a time
    MaxPolicyEvents,    \* bound on lifecycle events
    MaxAuthorityEvents, \* bound on authority events
    MaxUnits            \* bound on the revisions of the Channel's unit

ASSUME PricingDecisionAssumption ==
    MaxPolicyEvents \in Nat /\ MaxAuthorityEvents \in Nat /\ MaxUnits \in Nat

VARIABLES
    unit,               \* revision_number of the latest PricingChannelConfigRevision
    policyLog,          \* PricingPolicyLifecycleEvents
    policyHead,         \* ChannelPricingPolicyHead: [event, activation, version]
    authorityLog,       \* ChannelPricingAuthorityEvents after the seed, which is number 0
    authorityHead,      \* ChannelPricingAuthorityHead: [event, authority, version]
    admin,              \* what each request has read
    binding,            \* the WorkspacePricingBinding
    check,             \* what a request of the Workspace has read
    wasCurrent          \* history: the binding held when the check under way began

policyVars == <<policyLog, policyHead>>
authorityVars == <<authorityLog, authorityHead>>
bindingVars == <<binding, check, wasCurrent>>
pricingVars == <<unit, policyVars, authorityVars, admin, bindingVars>>

Authority == {"legacy_formula_engine", "migration_locked", "pricing_matrix"}

PolicyEvent == [kind : {"activate", "deactivate"}, predecessor : Nat, supersedes : Nat, unit : Nat]
AuthorityEvent == [from : Authority, to : Authority, predecessor : Nat]

NoAdmin == [at |-> "idle", unit |-> 0, head |-> [event |-> 0, activation |-> 0, version |-> 0],
            seat |-> [event |-> 0, authority |-> "legacy_formula_engine", version |-> 0],
            to |-> "legacy_formula_engine"]

PolicyHead == [event : Nat, activation : Nat, version : Nat]
AuthorityHead == [event : Nat, authority : Authority, version : Nat]

AdminRecord == [at : {"idle", "activate", "activating", "deactivating", "transition"},
                unit : Nat, head : PolicyHead, seat : AuthorityHead, to : Authority]

NoBinding == [activation |-> 0, unit |-> 0, event |-> 0, version |-> 0]

PricingTypeOK ==
    /\ unit \in Nat
    /\ policyLog \in Seq(PolicyEvent) /\ policyHead \in PolicyHead
    /\ authorityLog \in Seq(AuthorityEvent) /\ authorityHead \in AuthorityHead
    /\ admin \in [Admin -> AdminRecord]
    /\ binding \in [activation : Nat, unit : Nat, event : Nat, version : Nat]
    /\ check \in [at : {"idle", "seat", "unit", "authority"}, activation : Nat, unit : Nat]
    /\ wasCurrent \in BOOLEAN

\* Heads are seeded with the Channel; ensure_channel_head writes the first
\* authority event, the legacy default, with it.
PricingInit ==
    /\ unit = 0
    /\ policyLog = <<>> /\ policyHead = NoAdmin.head
    /\ authorityLog = <<>> /\ authorityHead = NoAdmin.seat
    /\ admin = [a \in Admin |-> NoAdmin]
    /\ binding = NoBinding
    /\ check = [at |-> "idle", activation |-> 0, unit |-> 0]
    /\ wasCurrent = FALSE

Reads(a, step) == admin[a].at = step
GiveUp(a) == admin' = [admin EXCEPT ![a] = NoAdmin]

------------------------------------------------------------------------------
(* PricingMatrixService: declare_unit, activate, deactivate                *)

\* Another currency or unit.  revision_number is unique, so that of two requests
\* that number the same revision one fails.
DeclareUnit ==
    /\ unit < MaxUnits
    /\ unit' = unit + 1
    /\ UNCHANGED <<policyVars, authorityVars, admin, bindingVars>>

\* activate reads the unit, and validates the policy's rules against it ...
ReadUnit(a) ==
    /\ Reads(a, "idle")
    /\ unit # 0
    /\ admin' = [admin EXCEPT ![a] = [NoAdmin EXCEPT !.at = "activate", !.unit = unit]]
    /\ UNCHANGED <<unit, policyVars, authorityVars, bindingVars>>

\* ... then the head, which must have the version the user has seen.
OpenActivation(a) ==
    /\ Reads(a, "activate")
    /\ admin' = [admin EXCEPT ![a].at = "activating", ![a].head = policyHead]
    /\ UNCHANGED <<unit, policyVars, authorityVars, bindingVars>>

OpenDeactivation(a) ==
    /\ Reads(a, "idle")
    /\ policyHead.activation # 0
    /\ admin' = [admin EXCEPT ![a].at = "deactivating", ![a].head = policyHead]
    /\ UNCHANGED <<unit, policyVars, authorityVars, bindingVars>>

\* An error: the UPDATE has no version in its WHERE.
AnyPolicyVersion(a) == admin[a].head.version \in Nat

SamePolicyVersion(a) == policyHead.version = admin[a].head.version

\* _append_lifecycle_event: the event and the swap of the head commit together.
AppendLifecycleEvent(a) ==
    LET seen == admin[a].head
        new == Len(policyLog) + 1
        isActivation == Reads(a, "activating")
    IN  /\ admin[a].at \in {"activating", "deactivating"}
        /\ IF SamePolicyVersion(a)
           THEN /\ new <= MaxPolicyEvents
                /\ policyLog' = Append(policyLog,
                        [kind |-> IF isActivation THEN "activate" ELSE "deactivate",
                         predecessor |-> seen.event, supersedes |-> seen.activation, unit |-> admin[a].unit])
                /\ policyHead' = [event |-> new, activation |-> IF isActivation THEN new ELSE 0,
                                  version |-> seen.version + 1]
           ELSE UNCHANGED policyVars
        /\ GiveUp(a)
        /\ UNCHANGED <<unit, authorityVars, bindingVars>>

------------------------------------------------------------------------------
(* ChannelPricingAuthorityService: transition                              *)

AllowedTransitions ==
    {<<"legacy_formula_engine", "migration_locked">>, <<"migration_locked", "legacy_formula_engine">>,
     <<"migration_locked", "pricing_matrix">>, <<"pricing_matrix", "migration_locked">>}

OpenTransition(a) ==
    /\ Reads(a, "idle")
    /\ \E new \in Authority :
          /\ <<authorityHead.authority, new>> \in AllowedTransitions
          /\ admin' = [admin EXCEPT ![a] = [NoAdmin EXCEPT !.at = "transition",
                                                           !.seat = authorityHead, !.to = new]]
    /\ UNCHANGED <<unit, policyVars, authorityVars, bindingVars>>

SameAuthorityVersion(a) == authorityHead.version = admin[a].seat.version

CommitTransition(a) ==
    LET seen == admin[a].seat
        new == Len(authorityLog) + 1
    IN  /\ Reads(a, "transition")
        /\ IF SameAuthorityVersion(a)
           THEN /\ new <= MaxAuthorityEvents
                /\ authorityLog' = Append(authorityLog,
                        [from |-> seen.authority, to |-> admin[a].to, predecessor |-> seen.event])
                /\ authorityHead' = [event |-> new, authority |-> admin[a].to, version |-> seen.version + 1]
           ELSE UNCHANGED authorityVars
        /\ GiveUp(a)
        /\ UNCHANGED <<unit, policyVars, bindingVars>>

\* An exception, or the process dies.
AbandonChange(a) ==
    /\ ~Reads(a, "idle")
    /\ GiveUp(a)
    /\ UNCHANGED <<unit, policyVars, authorityVars, bindingVars>>

------------------------------------------------------------------------------
(* bind_workspace_channels                                                 *)

\* The effective activation, which must be of the latest unit ...
ReadDecision ==
    /\ check.at = "idle" /\ binding = NoBinding
    /\ policyHead.activation # 0
    /\ policyLog[policyHead.activation].unit = unit
    /\ check' = [at |-> "seat", activation |-> policyHead.activation, unit |-> unit]
    /\ UNCHANGED <<unit, policyVars, authorityVars, admin, binding, wasCurrent>>

\* ... and the authority, which must be the matrix.
Bind ==
    /\ check.at = "seat"
    /\ binding' = IF authorityHead.authority = "pricing_matrix"
                  THEN [activation |-> check.activation, unit |-> check.unit,
                        event |-> authorityHead.event, version |-> authorityHead.version]
                  ELSE NoBinding
    /\ check' = [check EXCEPT !.at = "idle"]
    /\ UNCHANGED <<unit, policyVars, authorityVars, admin, wasCurrent>>

------------------------------------------------------------------------------
(* _binding_issue, before a Dry Run, an Apply and its dispatch             *)

\* An error: any activation will do.
AnyActivation == policyHead.activation # 0

SameActivation == policyHead.activation = binding.activation

\* An error: what the authority is, not since when.
IsMatrix == authorityHead.authority = "pricing_matrix"

\* assert_write_authorized with the bound event and version
SameAuthority ==
    /\ authorityHead.event = binding.event
    /\ authorityHead.version = binding.version
    /\ authorityHead.authority = "pricing_matrix"

\* Policy, unit and authority of the binding are all in force.
BindingIsCurrent ==
    /\ policyHead.activation = binding.activation
    /\ unit = binding.unit
    /\ authorityHead = [event |-> binding.event, authority |-> "pricing_matrix", version |-> binding.version]

CheckActivation ==
    /\ check.at = "idle" /\ binding # NoBinding
    /\ SameActivation
    /\ check' = [check EXCEPT !.at = "unit"]
    /\ wasCurrent' = BindingIsCurrent
    /\ UNCHANGED <<unit, policyVars, authorityVars, admin, binding>>

CheckUnit ==
    /\ check.at = "unit"
    /\ check' = [check EXCEPT !.at = IF unit = binding.unit THEN "authority" ELSE "idle"]
    /\ UNCHANGED <<unit, policyVars, authorityVars, admin, binding, wasCurrent>>

ApproveBinding ==
    /\ check.at = "authority"
    /\ SameAuthority
    /\ check' = [check EXCEPT !.at = "idle"]
    /\ UNCHANGED <<unit, policyVars, authorityVars, admin, binding, wasCurrent>>

RefuseBinding ==
    /\ check.at = "authority"
    /\ ~SameAuthority
    /\ check' = [check EXCEPT !.at = "idle"]
    /\ UNCHANGED <<unit, policyVars, authorityVars, admin, binding, wasCurrent>>

PricingNext ==
    \/ \E a \in Admin :
          \/ ReadUnit(a) \/ OpenActivation(a) \/ OpenDeactivation(a) \/ AppendLifecycleEvent(a)
          \/ OpenTransition(a) \/ CommitTransition(a) \/ AbandonChange(a)
    \/ DeclareUnit
    \/ ReadDecision \/ Bind
    \/ CheckActivation \/ CheckUnit \/ ApproveBinding \/ RefuseBinding

PricingSpec == PricingInit /\ [][PricingNext]_pricingVars

------------------------------------------------------------------------------

\* Each log is one line of events that ends at its head, without a fork or an
\* orphan, although events name as predecessor what their request read before the
\* swap ("the chain is data, not the concurrency guard", PRICING_MATRIX_DESIGN.md).
EffectiveAfter(n) == IF n > 0 /\ policyLog[n].kind = "activate" THEN n ELSE 0
AuthorityAfter(n) == IF n > 0 THEN authorityLog[n].to ELSE "legacy_formula_engine"

PolicyLogIsLinear ==
    /\ policyHead = [event |-> Len(policyLog), activation |-> EffectiveAfter(Len(policyLog)),
                     version |-> Len(policyLog)]
    /\ \A n \in DOMAIN policyLog :
          policyLog[n].predecessor = n - 1 /\ policyLog[n].supersedes = EffectiveAfter(n - 1)

AuthorityLogIsLinear ==
    /\ authorityHead = [event |-> Len(authorityLog), authority |-> AuthorityAfter(Len(authorityLog)),
                        version |-> Len(authorityLog)]
    /\ \A n \in DOMAIN authorityLog :
          /\ authorityLog[n].predecessor = n - 1
          /\ authorityLog[n].from = AuthorityAfter(n - 1)
          /\ <<authorityLog[n].from, authorityLog[n].to>> \in AllowedTransitions

LogsAreLinear == PolicyLogIsLinear /\ AuthorityLogIsLinear

\* The check of a binding reads policy, unit and authority one after the other and
\* locks none; still, what it approves was in force as a whole when it began, also
\* when policy or authority went away and came back.
ApprovedWasCurrent == [][ApproveBinding => wasCurrent]_pricingVars
=============================================================================
