----------------------------- MODULE MCServices -----------------------------
(* Seven services that do not wait for each other, explored in one run: which  *)
(* one is at work is chosen in the initial state, and the others rest in      *)
(* theirs.                                                                   *)
EXTENDS AcquisitionRuns, SourceLifecycle, PricingDecision, ProductCache,
        WorkspaceDraft, ExchangeRates, MCOrderSync, TLC

CONSTANT FirstProduct

VARIABLE service

servicesVars == <<service, acquisitionVars, lifecycleVars, pricingVars, cacheVars,
                  draftVars, ratesVars, vars>>

ServicesInit ==
    /\ service \in {"acquisition", "source", "pricing", "cache", "draft", "rates", "orders"}
    /\ AcquisitionInit /\ LifecycleInit /\ PricingInit /\ CacheInit
    /\ DraftInit /\ RatesInit /\ Init
    /\ service = "source" \/ (kind = "sheet" /\ listing.product = FirstProduct)

ServicesNext ==
    /\ UNCHANGED service
    /\ \/ /\ service = "acquisition" /\ AcquisitionNext
          /\ UNCHANGED <<lifecycleVars, pricingVars, cacheVars, draftVars, ratesVars, vars>>
       \/ /\ service = "source" /\ LifecycleNext
          /\ UNCHANGED <<acquisitionVars, pricingVars, cacheVars, draftVars, ratesVars, vars>>
       \/ /\ service = "pricing" /\ PricingNext
          /\ UNCHANGED <<acquisitionVars, lifecycleVars, cacheVars, draftVars, ratesVars, vars>>
       \/ /\ service = "cache" /\ CacheNext
          /\ UNCHANGED <<acquisitionVars, lifecycleVars, pricingVars, draftVars, ratesVars, vars>>
       \/ /\ service = "draft" /\ DraftNext
          /\ UNCHANGED <<acquisitionVars, lifecycleVars, pricingVars, cacheVars, ratesVars, vars>>
       \/ /\ service = "rates" /\ RatesNext
          /\ UNCHANGED <<acquisitionVars, lifecycleVars, pricingVars, cacheVars, draftVars, vars>>
       \/ /\ service = "orders" /\ Next
          /\ UNCHANGED <<acquisitionVars, lifecycleVars, pricingVars, cacheVars, draftVars, ratesVars>>

ServicesSpec == ServicesInit /\ [][ServicesNext]_servicesVars

\* Which of two executors, users, administrators, scans, editors, callers or workers
\* is which makes no difference, and neither does which of two Cells.  The actors
\* have the same names, since only one service is at work.
Symmetric == {actors @@ cells : actors \in Permutations(Scanner), cells \in Permutations(Cell)}

\* The rows of every service, and what its requests remember, have their types.
ServicesTypeOK ==
    /\ AcquisitionTypeOK /\ LifecycleTypeOK /\ PricingTypeOK /\ CacheTypeOK
    /\ DraftTypeOK /\ RatesTypeOK /\ TypeOK
=============================================================================
