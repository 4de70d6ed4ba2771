---------------------------- MODULE MCOrderRunner ----------------------------
(* The work of the order runner, explored in one run: it polls a channel's   *)
(* orders, or its ticks recover the refresh jobs of a channel.  The jobs are *)
(* those of one of two kinds of channels: up to three marketplace runs, or   *)
(* two WooCommerce runs and one fault.                                       *)
EXTENDS MCOrderSync, RefreshJobs

CONSTANTS s1, s2, s3

VARIABLE work

workVars == <<work, vars, jobsVars>>

WorkInit == work \in {"orders", "marketplace", "woocommerce"} /\ Init /\ JobsInit

WorkNext ==
    /\ UNCHANGED work
    /\ \/ work = "orders" /\ Next /\ UNCHANGED jobsVars
       \/ /\ work = "marketplace"
          /\ JobsNext /\ UNCHANGED vars
          /\ runFaults' = 0 /\ \A s \in Session : runKind'[s] \in {"none", "replace"}
       \/ /\ work = "woocommerce"
          /\ JobsNext /\ UNCHANGED vars
          /\ runStep'[s3] = "idle" /\ \A s \in Session : runKind'[s] # "replace"

\* Polls are due only where orders are polled.
WorkFairness ==
    /\ \A w \in Worker : WF_vars(RunStep(w))
    /\ SF_vars(work = "orders" /\ \E w \in Worker : StartPoll(w))
    /\ WF_vars(Expire)
    /\ JobsFairness

WorkSpec == WorkInit /\ [][WorkNext]_workVars /\ WorkFairness

\* Marketplace runs: "Locking only an already-running row leaves two pending
\* jobs free to promote themselves at the same time" - one run owns the channel.
OneMarketplaceOwner == work = "marketplace" => OneOwner

\* Marketplace runs: each settles its own job and no other run's.
MarketplaceSettlesOwnJob ==
    [][work = "marketplace" => SettlesOwn]_workVars
=============================================================================
