--------------------------- MODULE ServicesProofs ---------------------------
(***************************************************************************)
(* Proofs about PricingDecision, ExchangeRates, ProductCache and            *)
(* WorkspaceDraft, for any number of administrators, events, operations,    *)
(* scans, readers, products, editors and revisions: the logs are linear, an *)
(* approved binding was in force as a whole, no day pays for more requests  *)
(* to the exchange-rate provider than its limit, the newest observation of  *)
(* a product is kept, a full scan marks as gone what it has not seen and    *)
(* nothing else, and no edit of a Draft is lost.  Last, the types of the    *)
(* services of MCServices together.                                        *)
(***************************************************************************)
EXTENDS MCServices, OrderSyncProofs, SourceProofs, SequenceTheorems, FiniteSetTheorems,
        WellFoundedInduction, TLAPS

(* PricingDecision *)

\* What a request has read of a head is the head itself as long as the version is.
ReadIsHead ==
    \A a \in Admin :
        /\ admin[a].at \in {"activating", "deactivating"} =>
              /\ admin[a].head.version <= policyHead.version
              /\ admin[a].head.version = policyHead.version => admin[a].head = policyHead
        /\ admin[a].at = "transition" =>
              /\ admin[a].seat.version <= authorityHead.version
              /\ admin[a].seat.version = authorityHead.version => admin[a].seat = authorityHead
              /\ <<admin[a].seat.authority, admin[a].to>> \in AllowedTransitions

LogInv == PricingTypeOK /\ ReadIsHead /\ LogsAreLinear

\* Records of requests.
LEMMA NoAdminType == NoAdmin \in AdminRecord
BY DEF NoAdmin, AdminRecord, PolicyHead, AuthorityHead, Authority

\* A log that stays or gets one more event.
LEMMA AppendType ==
    ASSUME NEW S, NEW log \in Seq(S), NEW e \in S, NEW new, new = log \/ new = Append(log, e)
    PROVE  new \in Seq(S)
BY AppendProperties

\* At first both logs are empty and the heads say so.
LEMMA InitLog == PricingInit => LogInv
<1> SUFFICES ASSUME PricingInit PROVE LogInv
  OBVIOUS
<1>1. policyHead = [event |-> 0, activation |-> 0, version |-> 0] /\ policyLog = <<>>
  BY DEF PricingInit, NoAdmin
<1>2. /\ authorityHead = [event |-> 0, authority |-> "legacy_formula_engine", version |-> 0]
      /\ authorityLog = <<>>
  BY DEF PricingInit, NoAdmin
<1>3. admin \in [Admin -> AdminRecord]
  BY NoAdminType DEF PricingInit
<1>4. PricingTypeOK
  <2>1. policyHead \in PolicyHead /\ authorityHead \in AuthorityHead
    BY <1>1, <1>2 DEF PolicyHead, AuthorityHead, Authority
  <2>2. policyLog \in Seq(PolicyEvent) /\ authorityLog \in Seq(AuthorityEvent)
    BY <1>1, <1>2
  <2> QED BY <1>3, <2>1, <2>2 DEF PricingInit, PricingTypeOK, NoBinding
<1>5. ReadIsHead
  BY DEF PricingInit, ReadIsHead, NoAdmin
<1>6. LogsAreLinear
  BY <1>1, <1>2 DEF LogsAreLinear, PolicyLogIsLinear, AuthorityLogIsLinear, EffectiveAfter, AuthorityAfter
<1> QED BY <1>4, <1>5, <1>6 DEF LogInv

\* Every step keeps the types.
LEMMA StepType == PricingTypeOK /\ [PricingNext]_pricingVars => PricingTypeOK'
<1> SUFFICES ASSUME PricingTypeOK, [PricingNext]_pricingVars PROVE PricingTypeOK'
  OBVIOUS
<1> USE DEF PricingTypeOK, policyVars, authorityVars, bindingVars, Reads, GiveUp
<1>1. ASSUME NEW a \in Admin, ReadUnit(a) PROVE PricingTypeOK'
  <2>1. [NoAdmin EXCEPT !.at = "activate", !.unit = unit] \in AdminRecord
    BY DEF NoAdmin, AdminRecord, PolicyHead, AuthorityHead, Authority
  <2> QED BY <1>1, <2>1 DEF ReadUnit
<1>2. ASSUME NEW a \in Admin, OpenActivation(a) PROVE PricingTypeOK'
  <2>1. [admin[a] EXCEPT !.at = "activating", !.head = policyHead] \in AdminRecord
    BY DEF AdminRecord
  <2> QED BY <1>2, <2>1 DEF OpenActivation
<1>3. ASSUME NEW a \in Admin, OpenDeactivation(a) PROVE PricingTypeOK'
  <2>1. [admin[a] EXCEPT !.at = "deactivating", !.head = policyHead] \in AdminRecord
    BY DEF AdminRecord
  <2> QED BY <1>3, <2>1 DEF OpenDeactivation
<1>4. ASSUME NEW a \in Admin, AppendLifecycleEvent(a) PROVE PricingTypeOK'
  <2>1. admin[a].head \in PolicyHead /\ admin[a].unit \in Nat
    BY DEF AdminRecord
  <2>2. /\ admin[a].head.event \in Nat /\ admin[a].head.activation \in Nat
        /\ admin[a].head.version \in Nat
    BY <2>1 DEF PolicyHead
  <2>3. policyLog' \in Seq(PolicyEvent)
    <3> DEFINE e == [kind |-> IF admin[a].at = "activating" THEN "activate" ELSE "deactivate",
                     predecessor |-> admin[a].head.event, supersedes |-> admin[a].head.activation,
                     unit |-> admin[a].unit]
    <3>1. e \in PolicyEvent
      BY <2>1, <2>2 DEF PolicyEvent
    <3>2. policyLog' = policyLog \/ policyLog' = Append(policyLog, e)
      BY <1>4 DEF AppendLifecycleEvent
    <3> HIDE DEF e
    <3>3. policyLog \in Seq(PolicyEvent)
      OBVIOUS
    <3> QED BY <3>1, <3>2, <3>3, AppendType
  <2>4. policyHead' \in PolicyHead
    <3> DEFINE new == Len(policyLog) + 1
               h == [event |-> new, activation |-> IF admin[a].at = "activating" THEN new ELSE 0,
                     version |-> admin[a].head.version + 1]
    <3>1. new \in Nat
      OBVIOUS
    <3>2. policyHead' = policyHead \/ policyHead' = h
      BY <1>4 DEF AppendLifecycleEvent
    <3>3. h \in PolicyHead
      <4> HIDE DEF new
      <4> QED BY SMTT(30), <2>2, <3>1 DEF PolicyHead
    <3> QED BY <3>2, <3>3
  <2>5. admin' \in [Admin -> AdminRecord]
    BY <1>4, NoAdminType DEF AppendLifecycleEvent
  <2> QED BY <1>4, <2>3, <2>4, <2>5 DEF AppendLifecycleEvent
<1>5. ASSUME NEW a \in Admin, OpenTransition(a) PROVE PricingTypeOK'
  <2>1. PICK new \in Authority :
            admin' = [admin EXCEPT ![a] = [NoAdmin EXCEPT !.at = "transition", !.seat = authorityHead, !.to = new]]
    BY <1>5 DEF OpenTransition
  <2>2. [NoAdmin EXCEPT !.at = "transition", !.seat = authorityHead, !.to = new] \in AdminRecord
    BY NoAdminType DEF AdminRecord
  <2> QED BY <1>5, <2>1, <2>2 DEF OpenTransition
<1>6. ASSUME NEW a \in Admin, CommitTransition(a) PROVE PricingTypeOK'
  <2>1. admin[a].seat \in AuthorityHead /\ admin[a].to \in Authority
    BY DEF AdminRecord
  <2>2. /\ admin[a].seat.event \in Nat /\ admin[a].seat.authority \in Authority
        /\ admin[a].seat.version \in Nat
    BY <2>1 DEF AuthorityHead
  <2>3. authorityLog' \in Seq(AuthorityEvent)
    <3> DEFINE e == [from |-> admin[a].seat.authority, to |-> admin[a].to, predecessor |-> admin[a].seat.event]
    <3>1. e \in AuthorityEvent
      BY <2>1, <2>2 DEF AuthorityEvent
    <3>2. authorityLog' = authorityLog \/ authorityLog' = Append(authorityLog, e)
      BY <1>6 DEF CommitTransition
    <3> HIDE DEF e
    <3>3. authorityLog \in Seq(AuthorityEvent)
      OBVIOUS
    <3> QED BY <3>1, <3>2, <3>3, AppendType
  <2>4. authorityHead' \in AuthorityHead
    <3>1. Len(authorityLog) \in Nat
      OBVIOUS
    <3> QED BY SMTT(30), <1>6, <2>1, <2>2, <3>1 DEF CommitTransition, AuthorityHead
  <2>5. admin' \in [Admin -> AdminRecord]
    BY <1>6, NoAdminType DEF CommitTransition
  <2> QED BY <1>6, <2>3, <2>4, <2>5 DEF CommitTransition
<1>7. ASSUME NEW a \in Admin, AbandonChange(a) PROVE PricingTypeOK'
  BY <1>7, NoAdminType DEF AbandonChange
<1>8. CASE DeclareUnit
  BY <1>8 DEF DeclareUnit
<1>9. CASE ReadDecision
  BY <1>9 DEF ReadDecision, PolicyHead
<1>10. CASE Bind
  BY <1>10 DEF Bind, NoBinding, AuthorityHead
<1>11. CASE CheckActivation
  BY <1>11 DEF CheckActivation, BindingIsCurrent
<1>12. CASE CheckUnit
  BY <1>12 DEF CheckUnit
<1>13. CASE ApproveBinding \/ RefuseBinding
  BY <1>13 DEF ApproveBinding, RefuseBinding
<1>14. CASE UNCHANGED pricingVars
  BY <1>14 DEF pricingVars
<1> QED BY <1>1, <1>2, <1>3, <1>4, <1>5, <1>6, <1>7, <1>8, <1>9, <1>10, <1>11, <1>12, <1>13, <1>14
        DEF PricingNext

\* One request's part of ReadIsHead.
RequestOK(b) ==
    /\ admin[b].at \in {"activating", "deactivating"} =>
          /\ admin[b].head.version <= policyHead.version
          /\ admin[b].head.version = policyHead.version => admin[b].head = policyHead
    /\ admin[b].at = "transition" =>
          /\ admin[b].seat.version <= authorityHead.version
          /\ admin[b].seat.version = authorityHead.version => admin[b].seat = authorityHead
          /\ <<admin[b].seat.authority, admin[b].to>> \in AllowedTransitions

\* A request that is not changed still names the head or an older one, when heads
\* stay or move to a higher version.
LEMMA KeptRequest ==
    ASSUME PricingTypeOK, NEW b \in Admin, RequestOK(b), admin'[b] = admin[b],
           policyHead' = policyHead \/ policyHead'.version = policyHead.version + 1,
           authorityHead' = authorityHead \/ authorityHead'.version = authorityHead.version + 1
    PROVE  RequestOK(b)'
<1>1. /\ policyHead.version \in Nat /\ authorityHead.version \in Nat
      /\ admin[b].head.version \in Nat /\ admin[b].seat.version \in Nat
  BY DEF PricingTypeOK, PolicyHead, AuthorityHead, AdminRecord
<1>2. CASE policyHead' = policyHead /\ authorityHead' = authorityHead
  BY <1>2 DEF RequestOK
<1>3. CASE policyHead' = policyHead /\ authorityHead'.version = authorityHead.version + 1
  BY <1>1, <1>3 DEF RequestOK
<1>4. CASE policyHead'.version = policyHead.version + 1 /\ authorityHead' = authorityHead
  BY <1>1, <1>4 DEF RequestOK
<1>5. CASE policyHead'.version = policyHead.version + 1 /\ authorityHead'.version = authorityHead.version + 1
  BY <1>1, <1>5 DEF RequestOK
<1> QED BY <1>2, <1>3, <1>4, <1>5

\* What a request has read stays what the head is, or is older.
LEMMA StepRead ==
    PricingTypeOK /\ ReadIsHead /\ [PricingNext]_pricingVars => ReadIsHead'
<1> SUFFICES ASSUME PricingTypeOK, ReadIsHead, [PricingNext]_pricingVars, NEW b \in Admin
             PROVE  RequestOK(b)'
  BY DEF ReadIsHead, RequestOK
<1>1. RequestOK(b) /\ admin \in [Admin -> AdminRecord]
  BY DEF ReadIsHead, RequestOK, PricingTypeOK
<1>2. NoAdmin.at = "idle"
  BY DEF NoAdmin
<1> USE DEF policyVars, authorityVars, bindingVars, Reads, GiveUp
<1>3. CASE admin'[b] = admin[b] /\ policyHead' = policyHead /\ authorityHead' = authorityHead
  BY <1>1, <1>3, KeptRequest
<1>4. ASSUME NEW a \in Admin, ReadUnit(a), a = b PROVE RequestOK(b)'
  <2>1. admin'[b].at = "activate"
    BY <1>1, <1>4 DEF ReadUnit, NoAdmin
  <2> QED BY <2>1 DEF RequestOK
<1>5. ASSUME NEW a \in Admin, OpenActivation(a), a = b PROVE RequestOK(b)'
  <2>1. admin'[b].at = "activating" /\ admin'[b].head = policyHead /\ policyHead' = policyHead
    BY <1>1, <1>5 DEF OpenActivation, AdminRecord
  <2>2. policyHead.version \in Nat
    BY DEF PricingTypeOK, PolicyHead
  <2> QED BY <2>1, <2>2 DEF RequestOK
<1>6. ASSUME NEW a \in Admin, OpenDeactivation(a), a = b PROVE RequestOK(b)'
  <2>1. admin'[b].at = "deactivating" /\ admin'[b].head = policyHead /\ policyHead' = policyHead
    BY <1>1, <1>6 DEF OpenDeactivation, AdminRecord
  <2>2. policyHead.version \in Nat
    BY DEF PricingTypeOK, PolicyHead
  <2> QED BY <2>1, <2>2 DEF RequestOK
<1>7. ASSUME NEW a \in Admin, OpenTransition(a), a = b PROVE RequestOK(b)'
  <2>1. PICK new \in Authority :
            /\ <<authorityHead.authority, new>> \in AllowedTransitions
            /\ admin' = [admin EXCEPT ![a] = [NoAdmin EXCEPT !.at = "transition", !.seat = authorityHead, !.to = new]]
    BY <1>7 DEF OpenTransition
  <2>2. /\ admin'[b].at = "transition" /\ admin'[b].seat = authorityHead
        /\ admin'[b].to = new /\ authorityHead' = authorityHead
    BY <1>1, <1>7, <2>1 DEF OpenTransition, NoAdmin
  <2>3. authorityHead.version \in Nat
    BY DEF PricingTypeOK, AuthorityHead
  <2> QED BY <2>1, <2>2, <2>3 DEF RequestOK
<1>8. ASSUME NEW a \in Admin, AppendLifecycleEvent(a) PROVE RequestOK(b)'
  <2>1. admin'[b] = NoAdmin \/ admin'[b] = admin[b]
    BY <1>1, <1>8 DEF AppendLifecycleEvent
  <2>2. authorityHead' = authorityHead
    BY <1>8 DEF AppendLifecycleEvent
  <2>3. policyHead' = policyHead \/ policyHead'.version = policyHead.version + 1
    BY <1>8 DEF AppendLifecycleEvent, SamePolicyVersion
  <2>4. CASE admin'[b] = NoAdmin
    BY <1>2, <2>4 DEF RequestOK
  <2>5. CASE admin'[b] = admin[b]
    BY <1>1, <2>2, <2>3, <2>5, KeptRequest
  <2> QED BY <2>1, <2>4, <2>5
<1>9. ASSUME NEW a \in Admin, CommitTransition(a) PROVE RequestOK(b)'
  <2>1. admin'[b] = NoAdmin \/ admin'[b] = admin[b]
    BY <1>1, <1>9 DEF CommitTransition
  <2>2. policyHead' = policyHead
    BY <1>9 DEF CommitTransition
  <2>3. authorityHead' = authorityHead \/ authorityHead'.version = authorityHead.version + 1
    BY <1>9 DEF CommitTransition, SameAuthorityVersion
  <2>4. CASE admin'[b] = NoAdmin
    BY <1>2, <2>4 DEF RequestOK
  <2>5. CASE admin'[b] = admin[b]
    BY <1>1, <2>2, <2>3, <2>5, KeptRequest
  <2> QED BY <2>1, <2>4, <2>5
<1>10. ASSUME NEW a \in Admin, AbandonChange(a), a = b PROVE RequestOK(b)'
  <2>1. admin'[b] = NoAdmin
    BY <1>1, <1>10 DEF AbandonChange
  <2> QED BY <1>2, <2>1 DEF RequestOK
<1>11. ASSUME NEW a \in Admin, a # b,
              ReadUnit(a) \/ OpenActivation(a) \/ OpenDeactivation(a) \/ OpenTransition(a) \/ AbandonChange(a)
       PROVE  RequestOK(b)'
  <2>1. admin'[b] = admin[b] /\ policyHead' = policyHead /\ authorityHead' = authorityHead
    BY <1>1, <1>11 DEF ReadUnit, OpenActivation, OpenDeactivation, OpenTransition, AbandonChange
  <2> QED BY <1>3, <2>1
<1>12. CASE DeclareUnit \/ ReadDecision \/ Bind \/ CheckActivation \/ CheckUnit
            \/ ApproveBinding \/ RefuseBinding \/ UNCHANGED pricingVars
  BY <1>3, <1>12 DEF DeclareUnit, ReadDecision, Bind, CheckActivation, CheckUnit,
                     ApproveBinding, RefuseBinding, pricingVars
<1> QED BY <1>4, <1>5, <1>6, <1>7, <1>8, <1>9, <1>10, <1>11, <1>12 DEF PricingNext

\* A swap of the policy head extends its log by one event that continues it.
LEMMA StepPolicyLog ==
    PricingTypeOK /\ ReadIsHead /\ PolicyLogIsLinear /\ [PricingNext]_pricingVars => PolicyLogIsLinear'
<1> SUFFICES ASSUME PricingTypeOK, ReadIsHead, PolicyLogIsLinear, [PricingNext]_pricingVars
             PROVE  PolicyLogIsLinear'
  OBVIOUS
<1>1. CASE UNCHANGED policyVars
  BY <1>1 DEF policyVars, PolicyLogIsLinear, EffectiveAfter
<1>2. ASSUME NEW a \in Admin, AppendLifecycleEvent(a), SamePolicyVersion(a) PROVE PolicyLogIsLinear'
  <2>n. PICK n \in Nat : n = Len(policyLog)
    BY DEF PricingTypeOK
  <2> DEFINE what == IF admin[a].at = "activating" THEN "activate" ELSE "deactivate"
             e == [kind |-> what, predecessor |-> admin[a].head.event,
                   supersedes |-> admin[a].head.activation, unit |-> admin[a].unit]
  <2>1. /\ policyLog' = Append(policyLog, e)
        /\ policyHead' = [event |-> n + 1, activation |-> IF admin[a].at = "activating" THEN n + 1 ELSE 0,
                          version |-> admin[a].head.version + 1]
    BY <1>2, <2>n DEF AppendLifecycleEvent, Reads
  <2>2. admin[a].head = policyHead
    BY <1>2 DEF ReadIsHead, AppendLifecycleEvent, SamePolicyVersion
  <2>3. policyHead = [event |-> n, activation |-> EffectiveAfter(n), version |-> n]
    BY <2>n DEF PolicyLogIsLinear
  <2>4. n = Len(policyLog) /\ policyLog \in Seq(PolicyEvent)
    BY <2>n DEF PricingTypeOK
  <2>5. e.kind = what /\ e.predecessor = n /\ e.supersedes = EffectiveAfter(n)
    BY <2>2, <2>3
  <2> HIDE DEF e
  <2>6. /\ Len(policyLog') = n + 1
        /\ policyLog'[n + 1] = e
        /\ \A m \in 1..n : policyLog'[m] = policyLog[m]
    BY <2>1, <2>4
  <2>7. \A m \in 0..n : EffectiveAfter(m)' = EffectiveAfter(m)
    BY <2>4, <2>6 DEF EffectiveAfter
  <2>8. EffectiveAfter(n + 1)' = IF admin[a].at = "activating" THEN n + 1 ELSE 0
    BY <2>4, <2>5, <2>6 DEF EffectiveAfter
  <2>9. policyHead' = [event |-> Len(policyLog'), activation |-> EffectiveAfter(n + 1)', version |-> Len(policyLog')]
    BY <2>1, <2>2, <2>3, <2>6, <2>8
  <2>10. \A m \in 1..n : policyLog[m].predecessor = m - 1 /\ policyLog[m].supersedes = EffectiveAfter(m - 1)
    BY <2>4 DEF PolicyLogIsLinear
  <2>11. ASSUME NEW m \in 1..(n + 1)
         PROVE  policyLog'[m].predecessor = m - 1 /\ policyLog'[m].supersedes = EffectiveAfter(m - 1)'
    <3>1. CASE m \in 1..n
      <4>1. m - 1 \in 0..n
        BY <2>4, <3>1
      <4> QED BY <2>6, <2>7, <2>10, <3>1, <4>1
    <3>2. CASE m = n + 1
      <4>1. n \in 0..n /\ m - 1 = n
        BY <2>4, <3>2
      <4> QED BY <2>5, <2>6, <2>7, <3>2, <4>1
    <3> QED BY <2>4, <3>1, <3>2
  <2>12. DOMAIN policyLog' = 1..(n + 1)
    BY <2>1, <2>4, <2>6
  <2>13. policyHead' = [event |-> Len(policyLog'), activation |-> EffectiveAfter(Len(policyLog))',
                       version |-> Len(policyLog')]
    BY <2>6, <2>9 DEF EffectiveAfter
  <2>14. \A m \in DOMAIN policyLog' :
            policyLog'[m].predecessor = m - 1 /\ policyLog'[m].supersedes = EffectiveAfter(m - 1)'
    BY <2>11, <2>12
  <2> QED BY <2>13, <2>14 DEF PolicyLogIsLinear
<1>3. \/ UNCHANGED policyVars
      \/ \E a \in Admin : AppendLifecycleEvent(a) /\ SamePolicyVersion(a)
  BY DEF PricingNext, ReadUnit, OpenActivation, OpenDeactivation, AppendLifecycleEvent, OpenTransition,
         CommitTransition, AbandonChange, DeclareUnit, ReadDecision, Bind, CheckActivation, CheckUnit,
         ApproveBinding, RefuseBinding, pricingVars
<1> QED BY <1>1, <1>2, <1>3

\* The same of the authority head, whose events are allowed transitions.
LEMMA StepAuthorityLog ==
    PricingTypeOK /\ ReadIsHead /\ AuthorityLogIsLinear /\ [PricingNext]_pricingVars => AuthorityLogIsLinear'
<1> SUFFICES ASSUME PricingTypeOK, ReadIsHead, AuthorityLogIsLinear, [PricingNext]_pricingVars
             PROVE  AuthorityLogIsLinear'
  OBVIOUS
<1>1. CASE UNCHANGED authorityVars
  BY <1>1 DEF authorityVars, AuthorityLogIsLinear, AuthorityAfter
<1>2. ASSUME NEW a \in Admin, CommitTransition(a), SameAuthorityVersion(a) PROVE AuthorityLogIsLinear'
  <2>n. PICK n \in Nat : n = Len(authorityLog)
    BY DEF PricingTypeOK
  <2> DEFINE e == [from |-> admin[a].seat.authority, to |-> admin[a].to, predecessor |-> admin[a].seat.event]
  <2>1. /\ authorityLog' = Append(authorityLog, e)
        /\ authorityHead' = [event |-> n + 1, authority |-> admin[a].to, version |-> admin[a].seat.version + 1]
    BY <1>2, <2>n DEF CommitTransition
  <2>2. /\ admin[a].seat = authorityHead
        /\ <<admin[a].seat.authority, admin[a].to>> \in AllowedTransitions
    BY <1>2 DEF ReadIsHead, CommitTransition, SameAuthorityVersion, Reads
  <2>3. authorityHead = [event |-> n, authority |-> AuthorityAfter(n), version |-> n]
    BY <2>n DEF AuthorityLogIsLinear
  <2>4. n = Len(authorityLog) /\ authorityLog \in Seq(AuthorityEvent)
    BY <2>n DEF PricingTypeOK
  <2>5. /\ e.from = AuthorityAfter(n) /\ e.to = admin[a].to /\ e.predecessor = n
        /\ <<e.from, e.to>> \in AllowedTransitions
    BY <2>2, <2>3
  <2> HIDE DEF e
  <2>6. /\ Len(authorityLog') = n + 1
        /\ authorityLog'[n + 1] = e
        /\ \A m \in 1..n : authorityLog'[m] = authorityLog[m]
    BY <2>1, <2>4
  <2>7. \A m \in 0..n : AuthorityAfter(m)' = AuthorityAfter(m)
    BY <2>4, <2>6 DEF AuthorityAfter
  <2>8. AuthorityAfter(n + 1)' = admin[a].to
    BY <2>4, <2>5, <2>6 DEF AuthorityAfter
  <2>9. authorityHead' = [event |-> Len(authorityLog'), authority |-> AuthorityAfter(n + 1)', version |-> Len(authorityLog')]
    BY <2>1, <2>2, <2>3, <2>6, <2>8
  <2>10. \A m \in 1..n : /\ authorityLog[m].predecessor = m - 1
                         /\ authorityLog[m].from = AuthorityAfter(m - 1)
                         /\ <<authorityLog[m].from, authorityLog[m].to>> \in AllowedTransitions
    BY <2>4 DEF AuthorityLogIsLinear
  <2>11. ASSUME NEW m \in 1..(n + 1)
         PROVE  /\ authorityLog'[m].predecessor = m - 1
                /\ authorityLog'[m].from = AuthorityAfter(m - 1)'
                /\ <<authorityLog'[m].from, authorityLog'[m].to>> \in AllowedTransitions
    <3>1. CASE m \in 1..n
      <4>1. m - 1 \in 0..n
        BY <2>4, <3>1
      <4> QED BY <2>6, <2>7, <2>10, <3>1, <4>1
    <3>2. CASE m = n + 1
      <4>1. n \in 0..n /\ m - 1 = n
        BY <2>4, <3>2
      <4> QED BY <2>5, <2>6, <2>7, <3>2, <4>1
    <3> QED BY <2>4, <3>1, <3>2
  <2>12. DOMAIN authorityLog' = 1..(n + 1)
    BY <2>1, <2>4, <2>6
  <2>13. AllowedTransitions' = AllowedTransitions
    BY DEF AllowedTransitions
  <2>14. authorityHead' = [event |-> Len(authorityLog'), authority |-> AuthorityAfter(Len(authorityLog))',
                       version |-> Len(authorityLog')]
    BY <2>6, <2>9 DEF AuthorityAfter
  <2>15. \A m \in DOMAIN authorityLog' :
            /\ authorityLog'[m].predecessor = m - 1
            /\ authorityLog'[m].from = AuthorityAfter(m - 1)'
            /\ <<authorityLog'[m].from, authorityLog'[m].to>> \in AllowedTransitions'
    BY <2>11, <2>12, <2>13
  <2> QED BY <2>14, <2>15 DEF AuthorityLogIsLinear
<1>3. \/ UNCHANGED authorityVars
      \/ \E a \in Admin : CommitTransition(a) /\ SameAuthorityVersion(a)
  BY DEF PricingNext, ReadUnit, OpenActivation, OpenDeactivation, AppendLifecycleEvent, OpenTransition,
         CommitTransition, AbandonChange, DeclareUnit, ReadDecision, Bind, CheckActivation, CheckUnit,
         ApproveBinding, RefuseBinding, pricingVars
<1> QED BY <1>1, <1>2, <1>3

\* Whatever administrators do at the same time, each log is one line of events
\* that ends at its head.
THEOREM LogsStayLinear == PricingSpec => []LogsAreLinear
<1>1. LogInv /\ [PricingNext]_pricingVars => LogInv'
  BY StepType, StepRead, StepPolicyLog, StepAuthorityLog DEF LogInv, LogsAreLinear
<1>2. LogInv => LogsAreLinear
  BY DEF LogInv
<1> QED BY InitLog, <1>1, <1>2, PTL DEF PricingSpec

\* Every variable of PricingDecision keeps its type.
THEOREM PricingTypes == PricingSpec => []PricingTypeOK
<1>1. PricingInit => PricingTypeOK
  BY InitLog DEF LogInv
<1> QED BY <1>1, StepType, PTL DEF PricingSpec

------------------------------------------------------------------------------

\* Units and versions only grow, so that what a check has found to be outdated, or
\* would find, stays outdated until the check ends.
BindingInv ==
    /\ check.at = "seat" => check.unit <= unit
    /\ binding # NoBinding =>
          /\ binding.unit <= unit
          /\ binding.version <= authorityHead.version
          /\ binding.version = authorityHead.version =>
                authorityHead = [event |-> binding.event, authority |-> "pricing_matrix", version |-> binding.version]
    /\ check.at \in {"unit", "authority"} => binding # NoBinding
    /\ check.at = "unit" /\ ~wasCurrent => unit # binding.unit \/ authorityHead.version # binding.version
    /\ check.at = "authority" /\ ~wasCurrent => authorityHead.version # binding.version

\* Every step keeps what the checks of a binding have found out of date.
LEMMA StepBinding == PricingTypeOK /\ BindingInv /\ [PricingNext]_pricingVars => BindingInv'
<1> SUFFICES ASSUME PricingTypeOK, BindingInv, [PricingNext]_pricingVars PROVE BindingInv'
  OBVIOUS
<1>ty. /\ unit \in Nat /\ binding.unit \in Nat /\ binding.version \in Nat
       /\ authorityHead.version \in Nat /\ authorityHead \in AuthorityHead
       /\ check.unit \in Nat
  BY DEF PricingTypeOK, AuthorityHead
<1> USE DEF policyVars, authorityVars, bindingVars
<1>1. CASE UNCHANGED <<unit, authorityHead, bindingVars>>
  BY <1>1 DEF BindingInv, NoBinding
<1>2. CASE UNCHANGED <<unit, bindingVars>> /\ authorityHead'.version = authorityHead.version + 1
  BY <1>2, <1>ty DEF BindingInv, NoBinding
<1>3. CASE DeclareUnit
  <2>1. unit' = unit + 1 /\ UNCHANGED <<authorityHead, bindingVars>>
    BY <1>3 DEF DeclareUnit
  <2> QED BY <2>1, <1>ty DEF BindingInv, NoBinding
<1>4. CASE ReadDecision
  <2>1. check'.at = "seat" /\ check'.unit = unit /\ binding' = binding /\ binding = NoBinding /\ unit' = unit
    BY <1>4 DEF ReadDecision
  <2> QED BY <2>1, <1>ty DEF BindingInv, NoBinding
<1>5. CASE Bind
  <2>1. /\ check.unit <= unit /\ unit' = unit /\ authorityHead' = authorityHead
        /\ check' = [check EXCEPT !.at = "idle"]
    BY <1>5 DEF Bind, BindingInv
  <2>2. check'.at = "idle"
    BY <2>1 DEF PricingTypeOK
  <2>3. CASE authorityHead.authority = "pricing_matrix"
    <3>1. /\ binding'.unit = check.unit /\ binding'.version = authorityHead.version
          /\ binding'.event = authorityHead.event
      BY <1>5, <2>3 DEF Bind
    <3>2. authorityHead = [event |-> authorityHead.event, authority |-> "pricing_matrix", version |-> authorityHead.version]
      BY <1>ty, <2>3 DEF AuthorityHead
    <3> QED BY <1>ty, <2>1, <2>2, <3>1, <3>2 DEF BindingInv
  <2>4. CASE authorityHead.authority # "pricing_matrix"
    <3>1. binding' = NoBinding
      BY <1>5, <2>4 DEF Bind
    <3> QED BY <2>2, <3>1 DEF BindingInv, NoBinding
  <2> QED BY <2>3, <2>4
<1>6. CASE CheckActivation
  <2>1. /\ check'.at = "unit" /\ binding # NoBinding /\ binding' = binding
        /\ unit' = unit /\ authorityHead' = authorityHead
    BY <1>6 DEF CheckActivation, PricingTypeOK
  <2>2. wasCurrent' = BindingIsCurrent /\ policyHead.activation = binding.activation
    BY <1>6 DEF CheckActivation, SameActivation
  <2>3. ~wasCurrent' => unit # binding.unit \/ authorityHead.version # binding.version
    BY <2>1, <2>2 DEF BindingInv, BindingIsCurrent
  <2> QED BY <2>1, <2>3 DEF BindingInv, NoBinding
<1>7. CASE CheckUnit
  <2>1. /\ check.at = "unit" /\ check'.at = (IF unit = binding.unit THEN "authority" ELSE "idle")
        /\ binding' = binding /\ unit' = unit /\ authorityHead' = authorityHead /\ wasCurrent' = wasCurrent
    BY <1>7 DEF CheckUnit, PricingTypeOK
  <2> QED BY <2>1 DEF BindingInv, NoBinding
<1>8. CASE ApproveBinding \/ RefuseBinding
  <2>1. /\ check'.at = "idle" /\ binding' = binding /\ unit' = unit /\ authorityHead' = authorityHead
    BY <1>8 DEF ApproveBinding, RefuseBinding, PricingTypeOK
  <2> QED BY <2>1 DEF BindingInv, NoBinding
<1>9. ASSUME NEW a \in Admin,
             \/ ReadUnit(a) \/ OpenActivation(a) \/ OpenDeactivation(a) \/ AppendLifecycleEvent(a)
             \/ OpenTransition(a) \/ AbandonChange(a)
      PROVE  UNCHANGED <<unit, authorityHead, bindingVars>>
  BY <1>9 DEF ReadUnit, OpenActivation, OpenDeactivation, AppendLifecycleEvent, OpenTransition, AbandonChange
<1>10. ASSUME NEW a \in Admin, CommitTransition(a)
       PROVE  /\ UNCHANGED <<unit, bindingVars>>
              /\ authorityHead' = authorityHead \/ authorityHead'.version = authorityHead.version + 1
  BY <1>10 DEF CommitTransition, SameAuthorityVersion
<1>11. CASE UNCHANGED pricingVars
  BY <1>1, <1>11 DEF pricingVars
<1> QED BY <1>1, <1>2, <1>3, <1>4, <1>5, <1>6, <1>7, <1>8, <1>9, <1>10, <1>11 DEF PricingNext

\* A binding that is approved was in force as a whole when its check began,
\* although policy, unit and authority are read one after the other.
THEOREM ApprovalIsLinearizable == PricingSpec => ApprovedWasCurrent
<1>1. PricingInit => BindingInv
  BY DEF PricingInit, BindingInv
<1>2. BindingInv /\ [PricingNext]_pricingVars => [ApproveBinding => wasCurrent]_pricingVars
  <2> SUFFICES ASSUME BindingInv, ApproveBinding PROVE wasCurrent
    OBVIOUS
  <2>1. check.at = "authority" /\ authorityHead.version = binding.version
    BY DEF ApproveBinding, SameAuthority
  <2>2. wasCurrent \/ ~wasCurrent
    OBVIOUS
  <2> QED BY <2>1 DEF BindingInv
<1>3. PricingSpec => []PricingTypeOK
  BY PricingTypes
<1> QED BY <1>1, <1>2, <1>3, StepBinding, PTL DEF PricingSpec, ApprovedWasCurrent

------------------------------------------------------------------------------
(* The request budget of the exchange-rate provider.                       *)

\* Operations that have reserved a request of a day and not sent it yet.
Pending(d) == {c \in Caller : call[c].at \in {"check", "send"} /\ call[c].day = d}

\* What a day has promised to pay for.
Promised(d) == spent[d] + Cardinality(Pending(d))

\* Only the holder of the lock comes late, with a reservation; while it is at work
\* nobody gets beyond the lock, and the new day has paid for nothing.
LateOK ==
    \A c \in Caller : Late(c) =>
        /\ rateLock = c /\ Reserved(c) /\ call[c].day < day
        /\ \A b \in Caller : b # c => call[b].at \in {"idle", "lock"}
        /\ spent[day] = 0

\* An operation at work today finds the counters of today.
TodayOK ==
    \A c \in Caller : call[c].at \notin {"idle", "lock", "reset"} /\ call[c].day = day =>
        /\ budget.date = day
        /\ call[c].at = "reserve" => call[c].seen.date = day

CountOK ==
    /\ \A d \in 1..MaxDay : IsFiniteSet(Pending(d))
    /\ \A d \in 1..MaxDay : Promised(d) <= SafeLimit
    /\ budget.date <= day
    /\ \A d \in 1..MaxDay : d > day => spent[d] = 0 
    /\ IF budget.date = day THEN Promised(day) <= budget.count ELSE spent[day] = 0

RatesInv == RatesTypeOK /\ LateOK /\ TodayOK /\ CountOK

CallSteps == {"idle", "lock", "reset", "reserve", "retry", "check", "send", "answer", "record",
              "release"}
CallRecord == [at : CallSteps, day : 1..MaxDay, seen : Budget]

\* Rows and calls stay what they are when a field of them changes.
LEMMA BudgetRecords ==
    /\ \A d \in 1..MaxDay : Zero(d) \in Budget /\ Zero(d).date = d /\ Zero(d).count = 0
    /\ \A row \in Budget : row.date \in 1..MaxDay /\ row.count \in 0..SafeLimit
                           /\ row.usage \in 0..SafeLimit
    /\ \A row \in Budget, n \in 0..SafeLimit :
          /\ [row EXCEPT !.count = n] \in Budget
          /\ [row EXCEPT !.usage = n] \in Budget
BY ExchangeRatesAssumption DEF Zero, Budget

\* The records of a caller of the exchange rate provider are closed under its steps.
LEMMA CallRecords ==
    /\ NoCall \in CallRecord /\ NoCall.at = "idle"
    /\ \A r \in CallRecord : r.at \in CallSteps /\ r.day \in 1..MaxDay /\ r.seen \in Budget
    /\ \A r \in CallRecord, step \in CallSteps, row \in Budget :
          /\ [r EXCEPT !.at = step] \in CallRecord
          /\ [r EXCEPT !.at = step, !.seen = row] \in CallRecord
    /\ \A d \in 1..MaxDay, step \in CallSteps, row \in Budget :
          [at |-> step, day |-> d, seen |-> row] \in CallRecord
<1>1. 1 \in 1..MaxDay /\ Zero(1) \in Budget
  BY BudgetRecords, ExchangeRatesAssumption
<1>2. QED
  BY <1>1 DEF NoCall, CallRecord, CallSteps

RatesTyped ==
    /\ day \in 1..MaxDay /\ budget \in Budget /\ rateBlocked \in BOOLEAN
    /\ rateLock \in Caller \cup {NoCaller}
    /\ call \in [Caller -> CallRecord]
    /\ spent \in [1..MaxDay -> Nat]

\* RatesTypeOK, its records abbreviated.
LEMMA RatesTyping == RatesTypeOK <=> RatesTyped
BY DEF RatesTypeOK, RatesTyped, CallRecord, CallSteps

\* At first nothing is reserved and nobody is at work.
LEMMA RatesInitially == RatesInit => RatesInv
<1> SUFFICES ASSUME RatesInit PROVE RatesInv
  OBVIOUS
<1>1. RatesTypeOK
  <2>1. 1 \in 1..MaxDay
    BY ExchangeRatesAssumption
  <2>2. RatesTyped
    BY <2>1, BudgetRecords, CallRecords DEF RatesInit, RatesTyped
  <2>3. QED
    BY <2>2, RatesTyping
<1>2. \A d \in 1..MaxDay : Pending(d) = {}
  BY DEF RatesInit, NoCall, Pending
<1>3. LateOK /\ TodayOK
  BY DEF RatesInit, LateOK, TodayOK, Late, CallAt, NoCall
<1>4. CountOK
  <2>1. \A d \in 1..MaxDay : IsFiniteSet(Pending(d)) /\ Promised(d) = 0
    BY <1>2, FS_EmptySet DEF RatesInit, Promised
  <2>2. budget.date = 1 /\ budget.count = 0 /\ day = 1 /\ 1 \in 1..MaxDay
    BY BudgetRecords, ExchangeRatesAssumption DEF RatesInit
  <2>3. QED
    BY <2>1, <2>2, ExchangeRatesAssumption DEF RatesInit, CountOK
<1>5. QED
  BY <1>1, <1>3, <1>4 DEF RatesInv

\* Every step keeps the types of the budget and the callers.
LEMMA RatesTypeStep == RatesTypeOK /\ [RatesNext]_ratesVars => RatesTypeOK'
<1> SUFFICES ASSUME RatesTyped, [RatesNext]_ratesVars PROVE RatesTyped'
  BY DEF RatesTypeOK, RatesTyped, CallRecord, CallSteps
<1>reset. \A d \in 1..MaxDay : ResetFor(d) => budget' \in Budget
  BY BudgetRecords DEF RatesTyped, ResetFor
<1>step. ASSUME NEW c \in Caller, NEW step \in CallSteps, NextStep(c, step)
         PROVE  call' \in [Caller -> CallRecord]
  BY <1>step, CallRecords DEF RatesTyped, NextStep
<1>none. ASSUME NEW c \in Caller, call' = [call EXCEPT ![c] = NoCall]
         PROVE  call' \in [Caller -> CallRecord]
  BY <1>none, CallRecords DEF RatesTyped
<1>day. \A c \in Caller : call[c].day \in 1..MaxDay /\ call[c].seen \in Budget
  BY CallRecords DEF RatesTyped
<1> USE DEF CallSteps
<1>1. ASSUME NEW c \in Caller, BeginCall(c) PROVE RatesTyped'
  BY <1>1, CallRecords DEF RatesTyped, BeginCall
<1>2. ASSUME NEW c \in Caller, AcquireRateLock(c) PROVE RatesTyped'
  BY <1>2, <1>step, <1>none DEF RatesTyped, AcquireRateLock
<1>3. ASSUME NEW c \in Caller, ResetDay(c) PROVE RatesTyped'
  <2>1. PICK row \in Budget :
           call' = [call EXCEPT ![c].at = "reserve", ![c].seen = row]
    BY <1>3, <1>reset, <1>day, BudgetRecords DEF ResetDay
  <2>2. call' \in [Caller -> CallRecord]
    BY <2>1, CallRecords DEF RatesTyped
  <2>3. QED
    BY <1>3, <1>reset, <1>day, <2>2 DEF RatesTyped, ResetDay
<1>4. ASSUME NEW c \in Caller, ReserveRequest(c) PROVE RatesTyped'
  <2>1. call' \in [Caller -> CallRecord]
    BY <1>4, <1>step DEF ReserveRequest
  <2>2. budget' \in Budget
    <3>1. Used(call[c].seen) < SafeLimit => call[c].seen.count + 1 \in 0..SafeLimit
      BY <1>day, BudgetRecords, ExchangeRatesAssumption DEF Used
    <3>2. QED
      BY <1>4, <3>1, BudgetRecords DEF RatesTyped, ReserveRequest
  <2>3. QED
    BY <1>4, <2>1, <2>2 DEF RatesTyped, ReserveRequest
<1>5. ASSUME NEW c \in Caller, RereadBudget(c) PROVE RatesTyped'
  BY <1>5, CallRecords DEF RatesTyped, RereadBudget
<1>6. ASSUME NEW c \in Caller, CheckReserved(c) PROVE RatesTyped'
  BY <1>6, <1>step, <1>reset, <1>day DEF RatesTyped, CheckReserved
<1>7. ASSUME NEW c \in Caller, SendRequest(c) PROVE RatesTyped'
  <2>1. spent' \in [1..MaxDay -> Nat]
    BY <1>7, <1>day DEF RatesTyped, SendRequest
  <2>2. QED
    BY <1>7, <1>step, <2>1 DEF RatesTyped, SendRequest
<1>8. ASSUME NEW c \in Caller, MarkCompleted(c) PROVE RatesTyped'
  BY <1>8, <1>step, <1>reset, <1>day DEF RatesTyped, MarkCompleted
<1>9. ASSUME NEW c \in Caller, RecordOutcome(c) PROVE RatesTyped'
  <2>1. call' \in [Caller -> CallRecord]
    BY <1>9, <1>step DEF RecordOutcome
  <2>2. QED
    BY <1>9, <2>1, BudgetRecords DEF RatesTyped, RecordOutcome
<1>10. ASSUME NEW c \in Caller, ReleaseRateLock(c) PROVE RatesTyped'
  BY <1>10, <1>none DEF RatesTyped, ReleaseRateLock
<1>11. ASSUME NEW c \in Caller, CrashCall(c) PROVE RatesTyped'
  BY <1>11, <1>none DEF RatesTyped, CrashCall
<1>12. ASSUME LapseRateLock \/ ChangeKey PROVE RatesTyped'
  BY <1>12 DEF RatesTyped, LapseRateLock, ChangeKey
<1>13. ASSUME Midnight PROVE RatesTyped'
  BY <1>13, ExchangeRatesAssumption DEF RatesTyped, Midnight
<1>14. ASSUME ReadDiagnostics PROVE RatesTyped'
  BY <1>14, <1>reset DEF RatesTyped, ReadDiagnostics
<1>15. CASE UNCHANGED ratesVars
  BY <1>15 DEF RatesTyped, ratesVars
<1>16. QED
  BY <1>1, <1>2, <1>3, <1>4, <1>5, <1>6, <1>7, <1>8, <1>9, <1>10, <1>11, <1>12, <1>13, <1>14,
     <1>15
     DEF RatesNext

\* A day promises no more when an operation of it sends, ends or dies.
LEMMA PromisedFrame ==
    ASSUME CountOK, RatesTypeOK, RatesTypeOK', NEW d \in 1..MaxDay,
           NEW c \in Caller, \A b \in Caller : b # c => call'[b] = call[b],
           \/ spent'[d] = spent[d] /\ Pending(d)' \in {Pending(d), Pending(d) \ {c}}
           \/ spent'[d] = spent[d] + 1 /\ c \in Pending(d) /\ Pending(d)' = Pending(d) \ {c}
    PROVE  IsFiniteSet(Pending(d)') /\ Promised(d)' <= Promised(d)
<1> USE DEF Promised
<1>1. IsFiniteSet(Pending(d)) /\ spent[d] \in Nat /\ spent'[d] \in Nat
  BY DEF CountOK, RatesTypeOK
<1>2. Cardinality(Pending(d)) \in Nat /\ (c \in Pending(d) => Cardinality(Pending(d)) # 0)
  BY <1>1, FS_CardinalityType, FS_EmptySet
<1>3. /\ IsFiniteSet(Pending(d) \ {c})
      /\ Cardinality(Pending(d) \ {c})
            = IF c \in Pending(d) THEN Cardinality(Pending(d)) - 1 ELSE Cardinality(Pending(d))
  BY <1>1, FS_RemoveElement
<1>4. CASE spent'[d] = spent[d] /\ Pending(d)' = Pending(d)
  BY <1>1, <1>2, <1>4
<1>5. CASE spent'[d] = spent[d] /\ Pending(d)' = Pending(d) \ {c}
  BY <1>1, <1>2, <1>3, <1>5
<1>6. CASE spent'[d] = spent[d] + 1 /\ c \in Pending(d) /\ Pending(d)' = Pending(d) \ {c}
  BY <1>1, <1>2, <1>3, <1>6
<1>7. QED
  BY <1>4, <1>5, <1>6

\* What a step of one operation means for the counts, when it reserves nothing.
LEMMA CountFrame ==
    ASSUME CountOK, RatesTypeOK, RatesTypeOK', NEW c \in Caller,
           \A b \in Caller : b # c => call'[b] = call[b],
           day' = day, spent' = spent,
           budget'.date = budget.date, budget'.count = budget.count,
           call'[c].at \in {"check", "send"} =>
              call[c].at \in {"check", "send"} /\ call'[c].day = call[c].day
    PROVE  CountOK'
<1>1. \A d \in 1..MaxDay : Pending(d)' \in {Pending(d), Pending(d) \ {c}}
  BY DEF Pending
<1>2. \A d \in 1..MaxDay : IsFiniteSet(Pending(d)') /\ Promised(d)' <= Promised(d)
  BY <1>1, PromisedFrame
<1>3. \A d \in 1..MaxDay : Promised(d) \in Nat /\ Promised(d)' \in Nat
  <2>1. spent \in [1..MaxDay -> Nat] /\ spent' \in [1..MaxDay -> Nat]
    BY DEF RatesTypeOK
  <2>2. \A d \in 1..MaxDay : /\ Cardinality(Pending(d)) \in Nat
                              /\ Cardinality(Pending(d)') \in Nat
    BY <1>2, FS_CardinalityType DEF CountOK
  <2>3. QED
    BY <2>1, <2>2 DEF Promised
<1>4. day \in 1..MaxDay /\ budget.count \in Nat /\ budget.date \in Nat
  BY BudgetRecords DEF RatesTypeOK
<1>5. QED
  BY <1>2, <1>3, <1>4, ExchangeRatesAssumption DEF CountOK

\* An operation that has its reservation resets the counters to its own day: to
\* those of today only if they are, and to those of a day gone by when it is late
\* and today has paid for nothing.
LEMMA ResetKeeps ==
    ASSUME LateOK, TodayOK, CountOK, RatesTypeOK, RatesTypeOK', NEW c \in Caller,
           call[c].at \in {"check", "answer"}, ResetFor(call[c].day),
           \A b \in Caller : b # c => call'[b] = call[b],
           day' = day, spent' = spent, call'[c].day = call[c].day,
           call'[c].at \in {"send", "record", "release"},
           call'[c].at = "send" => call[c].at = "check"
    PROVE  TodayOK' /\ CountOK'
<1>1. call[c].day \in 1..MaxDay /\ budget.date \in 1..MaxDay /\ day \in 1..MaxDay
  BY BudgetRecords DEF RatesTypeOK
<1>2. CASE budget' = budget
  BY <1>2, CountFrame DEF TodayOK
<1>3. CASE budget.date # call[c].day
  <2>1. budget' = Zero(call[c].day) /\ budget'.date = call[c].day
    BY <1>1, <1>3, BudgetRecords DEF ResetFor
  <2>2. Late(c)
    BY <1>3 DEF TodayOK, Late, CallAt
  <2>3. /\ call[c].day < day /\ spent[day] = 0
        /\ \A b \in Caller : b # c => call[b].at \in {"idle", "lock"}
    BY <2>2 DEF LateOK
  <2>4. TodayOK'
    BY <1>1, <2>1, <2>3 DEF TodayOK
  <2>5. \A d \in 1..MaxDay : Pending(d)' \in {Pending(d), Pending(d) \ {c}}
    BY DEF Pending
  <2>6. \A d \in 1..MaxDay : IsFiniteSet(Pending(d)') /\ Promised(d)' <= Promised(d)
    BY <2>5, PromisedFrame
  <2>7. \A d \in 1..MaxDay : Promised(d) \in Nat /\ Promised(d)' \in Nat
    <3>1. spent \in [1..MaxDay -> Nat] /\ spent' \in [1..MaxDay -> Nat]
      BY DEF RatesTypeOK
    <3>2. \A d \in 1..MaxDay : /\ Cardinality(Pending(d)) \in Nat
                                /\ Cardinality(Pending(d)') \in Nat
      BY <2>6, FS_CardinalityType DEF CountOK
    <3>3. QED
      BY <3>1, <3>2 DEF Promised
  <2>8. CountOK'
    BY <1>1, <2>1, <2>3, <2>6, <2>7, ExchangeRatesAssumption DEF CountOK
  <2>9. QED
    BY <2>4, <2>8
<1>4. QED
  BY <1>2, <1>3 DEF ResetFor

\* Every step keeps the count of a day above what it has been charged and promised.
LEMMA RatesStep ==
    ASSUME ~OutlivesMidnight, RatesInv, [RatesNext]_ratesVars PROVE RatesInv'
<1>ok. RatesTypeOK /\ RatesTypeOK'
  BY RatesTypeStep DEF RatesInv
<1>ty. RatesTyped /\ RatesTyped'
  BY <1>ok DEF RatesTypeOK, RatesTyped, CallRecord, CallSteps
<1>inv. LateOK /\ TodayOK /\ CountOK
  BY DEF RatesInv
<1>day. \A c \in Caller : call[c].at \in CallSteps /\ call[c].day \in 1..MaxDay
                          /\ call[c].seen \in Budget
  BY <1>ty, CallRecords DEF RatesTyped
<1>now. /\ day \in 1..MaxDay /\ budget.date \in 1..MaxDay /\ budget.count \in 0..SafeLimit
        /\ SafeLimit \in Nat /\ MaxDay \in Nat /\ NoCaller \notin Caller
  BY <1>ty, BudgetRecords, ExchangeRatesAssumption DEF RatesTyped
<1>prom. \A d \in 1..MaxDay : IsFiniteSet(Pending(d)) /\ Promised(d) \in Nat
  BY SMTT(30), <1>ty, <1>inv, FS_CardinalityType DEF RatesTyped, CountOK, Promised
<1>next. ASSUME NEW c \in Caller, NEW step \in CallSteps, NextStep(c, step)
         PROVE  /\ call'[c].at = step /\ call'[c].day = call[c].day
                /\ call'[c].seen = call[c].seen
                /\ \A b \in Caller : b # c => call'[b] = call[b]
  BY <1>ty, <1>next DEF NextStep, RatesTyped, CallRecord
\* Who is between the lock and the reservation is alone with today.
<1>alone. ASSUME NEW c \in Caller, call[c].at \in {"reset", "reserve", "retry"}
          PROVE  call[c].day = day /\ \A b \in Caller : ~Late(b)
  BY <1>inv, <1>alone DEF LateOK, Late, CallAt, Reserved
<1> USE DEF CallAt, CallSteps
<1>1. ASSUME NEW c \in Caller, BeginCall(c) PROVE RatesInv'
  <2>1. /\ call[c].at = "idle" /\ call'[c].at = "lock" /\ call'[c].day = day
        /\ \A b \in Caller : b # c => call'[b] = call[b]
        /\ UNCHANGED <<day, budget, rateLock, spent>>
    BY <1>1, <1>ty DEF BeginCall, RatesTyped
  <2>2. LateOK'
    BY <1>inv, <2>1 DEF LateOK, Late, Reserved
  <2>3. TodayOK'
    BY <1>inv, <2>1 DEF TodayOK
  <2>4. CountOK'
    BY <1>ok, <1>inv, <2>1, CountFrame
  <2>5. QED
    BY <1>ok, <2>2, <2>3, <2>4 DEF RatesInv
<1>2. ASSUME NEW c \in Caller, AcquireRateLock(c) PROVE RatesInv'
  <2>1. /\ call[c].at = "lock" /\ call'[c].at \in {"idle", "reset"}
        /\ call'[c].at = "reset" => rateLock = NoCaller /\ call'[c].day = call[c].day
        /\ call'[c].at = "idle" => rateLock' = rateLock
        /\ \A b \in Caller : b # c => call'[b] = call[b]
        /\ UNCHANGED <<day, budget, spent>>
    <3>1. CASE rateLock = NoCaller
      BY <1>2, <1>next, <3>1 DEF AcquireRateLock
    <3>2. CASE rateLock # NoCaller
      BY <1>2, <1>ty, <3>2, CallRecords DEF AcquireRateLock, RatesTyped
    <3>3. QED
      BY <3>1, <3>2
  <2>2. LateOK'
    BY <1>inv, <1>now, <2>1 DEF LateOK, Late, Reserved
  <2>3. TodayOK'
    BY <1>inv, <2>1 DEF TodayOK
  <2>4. CountOK'
    BY <1>ok, <1>inv, <2>1, CountFrame
  <2>5. QED
    BY <1>ok, <2>2, <2>3, <2>4 DEF RatesInv
<1>3. ASSUME NEW c \in Caller, ResetDay(c) PROVE RatesInv'
  <2>0. call[c].day = day /\ \A b \in Caller : ~Late(b)
    BY <1>3, <1>alone DEF ResetDay
  <2>1. /\ call[c].at = "reset" /\ call'[c].at = "reserve" /\ call'[c].day = day
        /\ \A b \in Caller : b # c => call'[b] = call[b]
        /\ UNCHANGED <<day, rateLock, spent>>
        /\ budget' = IF budget.date = day THEN budget ELSE Zero(day)
    BY <1>3, <1>ty, <2>0 DEF ResetDay, ResetFor, RatesTyped
  <2>2. budget'.date = day /\ call'[c].seen.date = day
    <3>1. budget'.date = day
      BY <1>now, <2>1, BudgetRecords
    <3>2. call'[c].seen \in {budget', IF call[c].seen.date = day THEN call[c].seen ELSE Zero(day)}
      BY <1>3, <1>ty, <2>0 DEF ResetDay, RatesTyped
    <3>3. QED
      BY <1>now, <3>1, <3>2, BudgetRecords
  <2>3. LateOK'
    BY <2>0, <2>1 DEF LateOK, Late
  <2>4. TodayOK'
    BY <1>inv, <2>1, <2>2 DEF TodayOK
  <2>5. CountOK'
    <3>1. CASE budget.date = day
      BY <1>ok, <1>inv, <2>1, <3>1, CountFrame
    <3>2. CASE budget.date # day
      <4>1. \A d \in 1..MaxDay : Pending(d)' = Pending(d) /\ Promised(d)' = Promised(d)
        BY <2>1 DEF Pending, Promised
      <4>2. Pending(day) = {}
        BY <1>inv, <3>2 DEF TodayOK, Pending
      <4>3. Promised(day) = 0
        BY <1>inv, <3>2, <4>2, FS_EmptySet DEF CountOK, Promised
      <4>4. budget'.count = 0
        BY <1>now, <2>1, <3>2, BudgetRecords
      <4>5. QED
        BY <1>inv, <1>now, <2>1, <2>2, <4>1, <4>3, <4>4 DEF CountOK
    <3>3. QED
      BY <3>1, <3>2
  <2>6. QED
    BY <1>ok, <2>3, <2>4, <2>5 DEF RatesInv
<1>4. ASSUME NEW c \in Caller, ReserveRequest(c) PROVE RatesInv'
  <2>0. call[c].at = "reserve" /\ call[c].day = day /\ \A b \in Caller : ~Late(b)
    BY <1>4, <1>alone DEF ReserveRequest
  <2>1. /\ call'[c].day = day /\ call'[c].at \in {"release", "check", "retry"}
        /\ \A b \in Caller : b # c => call'[b] = call[b]
        /\ UNCHANGED <<day, rateLock, spent>>
        /\ call'[c].at # "check" => UNCHANGED budget
    BY <1>4, <1>next, <2>0 DEF ReserveRequest
  <2>2. budget.date = day
    BY <1>inv, <2>0 DEF TodayOK
  <2>3. budget'.date = day
    BY <1>4, <1>ty, <2>2 DEF ReserveRequest, RatesTyped, Budget
  <2>4. LateOK'
    BY <2>0, <2>1 DEF LateOK, Late
  <2>5. TodayOK'
    BY <1>inv, <2>1, <2>3 DEF TodayOK
  <2>6. CountOK'
    <3>1. CASE call'[c].at # "check"
      BY <1>ok, <1>inv, <2>1, <3>1, CountFrame
    <3>2. CASE call'[c].at = "check"
      <4>1. /\ Used(call[c].seen) < SafeLimit /\ budget = call[c].seen
            /\ budget' = [budget EXCEPT !.count = call[c].seen.count + 1]
        BY <1>4, <1>next, <3>2 DEF ReserveRequest, SameBudget
      <4>2. budget.count < SafeLimit /\ budget'.count = budget.count + 1
        BY SMTT(30), <1>ty, <1>now, <4>1, BudgetRecords DEF Used, Budget, RatesTyped
      <4>3. \A d \in 1..MaxDay : Pending(d)' = IF d = day THEN Pending(d) \cup {c} ELSE Pending(d)
        BY <2>0, <2>1, <3>2 DEF Pending
      <4>4. \A d \in 1..MaxDay : d # day => Promised(d)' = Promised(d)
        BY <2>1, <4>3 DEF Promised
      <4>5. IsFiniteSet(Pending(day)') /\ Promised(day)' <= Promised(day) + 1
        <5>1. /\ IsFiniteSet(Pending(day) \cup {c})
              /\ Cardinality(Pending(day) \cup {c}) <= Cardinality(Pending(day)) + 1
          <6>1. IsFiniteSet(Pending(day))
            BY <1>now, <1>prom
          <6>2. Cardinality(Pending(day)) \in Nat
            BY <6>1, FS_CardinalityType
          <6>3. QED
            BY <6>1, <6>2, FS_AddElement
        <5>2. spent[day] \in Nat /\ Cardinality(Pending(day)) \in Nat
              /\ Cardinality(Pending(day) \cup {c}) \in Nat
          BY <1>ty, <1>now, <1>prom, <5>1, FS_CardinalityType DEF RatesTyped
        <5>3. Pending(day)' = Pending(day) \cup {c}
          BY <1>now, <2>1, <4>3
        <5>4. QED
          BY <2>1, <5>1, <5>2, <5>3 DEF Promised
      <4>6. Promised(day) <= budget.count
        BY <1>inv, <2>2 DEF CountOK
      <4>7. \A d \in 1..MaxDay : IsFiniteSet(Pending(d)') /\ Promised(d)' <= SafeLimit
        <5>1. Promised(day)' \in Nat
          BY SMTT(30), <1>ty, <1>now, <4>5, FS_CardinalityType DEF Promised, RatesTyped
        <5>2. Promised(day)' <= SafeLimit
          BY <1>now, <1>prom, <4>2, <4>5, <4>6, <5>1
        <5>3. ASSUME NEW d \in 1..MaxDay, d # day
              PROVE  IsFiniteSet(Pending(d)') /\ Promised(d)' <= SafeLimit
          <6>1. Pending(d)' = Pending(d)
            BY <4>3, <5>3
          <6>2. QED
            BY <1>inv, <4>4, <5>3, <6>1 DEF CountOK
        <5>4. QED
          BY <2>1, <4>5, <5>2, <5>3
      <4>8. Promised(day)' <= budget'.count
        <5>1. Promised(day)' \in Nat
          BY SMTT(30), <1>ty, <1>now, <4>5, FS_CardinalityType DEF Promised, RatesTyped
        <5>2. QED
          BY <1>now, <1>prom, <4>2, <4>5, <4>6, <5>1
      <4>9. QED
        BY <1>inv, <2>1, <2>3, <4>7, <4>8, <1>now DEF CountOK
    <3>3. QED
      BY <3>1, <3>2
  <2>7. QED
    BY <1>ok, <2>4, <2>5, <2>6 DEF RatesInv
<1>5. ASSUME NEW c \in Caller, RereadBudget(c) PROVE RatesInv'
  <2>0. call[c].at = "retry" /\ call[c].day = day /\ \A b \in Caller : ~Late(b)
    BY <1>5, <1>alone DEF RereadBudget
  <2>1. /\ call'[c].at = "reserve" /\ call'[c].day = day /\ call'[c].seen = budget
        /\ \A b \in Caller : b # c => call'[b] = call[b]
        /\ UNCHANGED <<day, budget, rateLock, spent>>
    BY <1>5, <1>ty, <2>0 DEF RereadBudget, RatesTyped, CallRecord
  <2>2. LateOK' /\ TodayOK'
    BY <1>inv, <2>0, <2>1 DEF LateOK, TodayOK, Late
  <2>3. CountOK'
    BY <1>ok, <1>inv, <2>1, CountFrame
  <2>4. QED
    BY <1>ok, <2>2, <2>3 DEF RatesInv
<1>6. ASSUME NEW c \in Caller, CheckReserved(c) PROVE RatesInv'
  <2>1. /\ call[c].at = "check" /\ call'[c].at = "send" /\ call'[c].day = call[c].day
        /\ \A b \in Caller : b # c => call'[b] = call[b]
        /\ UNCHANGED <<day, rateLock, spent>> /\ ResetFor(call[c].day)
    BY <1>6, <1>next DEF CheckReserved
  <2>2. LateOK'
    BY <1>inv, <2>1 DEF LateOK, Late, Reserved
  <2>3. TodayOK' /\ CountOK'
    BY <1>ok, <1>inv, <1>now, <1>day, <1>prom, <2>1, ResetKeeps
  <2>4. QED
    BY <1>ok, <2>2, <2>3 DEF RatesInv
<1>7. ASSUME NEW c \in Caller, SendRequest(c) PROVE RatesInv'
  <2> DEFINE e == call[c].day
  <2>1. /\ call[c].at = "send" /\ call'[c].at = "answer" /\ call'[c].day = e
        /\ \A b \in Caller : b # c => call'[b] = call[b]
        /\ UNCHANGED <<day, budget, rateLock>> /\ e \in 1..MaxDay
        /\ \A d \in 1..MaxDay : spent'[d] = IF d = e THEN spent[d] + 1 ELSE spent[d]
    BY <1>7, <1>next, <1>day, <1>ty DEF SendRequest, RatesTyped
  <2>2. e = day \/ (Late(c) /\ e < day /\ spent[day] = 0)
    BY <1>inv, <2>1 DEF Late, LateOK
  <2>3. LateOK'
    BY <1>inv, <1>now, <2>1, <2>2 DEF LateOK, Late, Reserved
  <2>4. TodayOK'
    BY <1>inv, <2>1 DEF TodayOK
  <2>5. CountOK'
    <3>1. \A d \in 1..MaxDay : IF d = e THEN c \in Pending(d) /\ Pending(d)' = Pending(d) \ {c}
                                        ELSE Pending(d)' = Pending(d)
      BY <2>1 DEF Pending
    <3>2. \A d \in 1..MaxDay : IsFiniteSet(Pending(d)') /\ Promised(d)' <= Promised(d)
      BY <1>ok, <1>inv, <2>1, <3>1, PromisedFrame
    <3>3. \A d \in 1..MaxDay : Promised(d)' \in Nat
      <4>1. \A d \in 1..MaxDay : Cardinality(Pending(d)') \in Nat
        BY <3>2, FS_CardinalityType
      <4>2. QED
        BY <1>ty, <4>1 DEF Promised, RatesTyped
    <3>4. budget.date # day => e # day
      BY <1>inv, <2>1 DEF TodayOK
    <3>5. QED
      BY <1>inv, <1>now, <1>prom, <2>1, <2>2, <3>2, <3>3, <3>4 DEF CountOK
  <2>6. QED
    BY <1>ok, <2>3, <2>4, <2>5 DEF RatesInv
<1>8. ASSUME NEW c \in Caller, MarkCompleted(c) PROVE RatesInv'
  <2>1. /\ call[c].at = "answer" /\ call'[c].at \in {"record", "release"}
        /\ call'[c].day = call[c].day
        /\ \A b \in Caller : b # c => call'[b] = call[b]
        /\ UNCHANGED <<day, rateLock, spent>>
        /\ ResetFor(call[c].day) \/ UNCHANGED budget
    BY <1>8, <1>next DEF MarkCompleted
  <2>2. LateOK'
    BY <1>inv, <2>1 DEF LateOK, Late, Reserved
  <2>3. TodayOK' /\ CountOK'
    <3>1. CASE UNCHANGED budget
      BY <1>ok, <1>inv, <2>1, <3>1, CountFrame DEF TodayOK
    <3>2. CASE ResetFor(call[c].day)
      BY <1>ok, <1>inv, <1>now, <1>day, <1>prom, <2>1, <3>2, ResetKeeps
    <3>3. QED
      BY <2>1, <3>1, <3>2
  <2>4. QED
    BY <1>ok, <2>2, <2>3 DEF RatesInv
<1>9. ASSUME NEW c \in Caller, RecordOutcome(c) PROVE RatesInv'
  <2>1. /\ call[c].at = "record" /\ call'[c].at = "release" /\ call'[c].day = call[c].day
        /\ \A b \in Caller : b # c => call'[b] = call[b]
        /\ UNCHANGED <<day, rateLock, spent>>
    BY <1>9, <1>next DEF RecordOutcome
  <2>2. budget'.date = budget.date /\ budget'.count = budget.count
    BY <1>9, <1>ty DEF RecordOutcome, RatesTyped, Budget
  <2>3. LateOK' /\ TodayOK'
    BY <1>inv, <2>1, <2>2 DEF LateOK, TodayOK, Late, Reserved
  <2>4. CountOK'
    BY <1>ok, <1>inv, <2>1, <2>2, CountFrame
  <2>5. QED
    BY <1>ok, <2>3, <2>4 DEF RatesInv
<1>10. ASSUME NEW c \in Caller, ReleaseRateLock(c) \/ CrashCall(c) PROVE RatesInv'
  <2>1. /\ call'[c].at = "idle" /\ \A b \in Caller : b # c => call'[b] = call[b]
        /\ UNCHANGED <<day, budget, spent>>
        /\ rateLock' = rateLock \/ (rateLock = c /\ rateLock' = NoCaller)
    BY <1>10, <1>ty, CallRecords DEF ReleaseRateLock, CrashCall, RatesTyped
  <2>2. LateOK' /\ TodayOK'
    BY <1>inv, <2>1 DEF LateOK, TodayOK, Late, Reserved
  <2>3. CountOK'
    BY <1>ok, <1>inv, <2>1, CountFrame
  <2>4. QED
    BY <1>ok, <2>2, <2>3 DEF RatesInv
<1>11. ASSUME LapseRateLock \/ ChangeKey \/ UNCHANGED ratesVars PROVE RatesInv'
  <2>1. /\ UNCHANGED <<day, budget, call, spent>>
        /\ rateLock' = rateLock \/ ~Late(rateLock)
    BY <1>11 DEF LapseRateLock, ChangeKey, ratesVars
  <2>2. LateOK' /\ TodayOK'
    BY <1>inv, <2>1 DEF LateOK, TodayOK, Late, Reserved
  <2>3. CountOK'
    BY <1>inv, <2>1 DEF CountOK, Promised, Pending
  <2>4. QED
    BY <1>ok, <2>2, <2>3 DEF RatesInv
<1>12. ASSUME Midnight PROVE RatesInv'
  <2>1. /\ day' = day + 1 /\ day < MaxDay /\ UNCHANGED <<budget, rateLock, call, spent>>
        /\ \A c \in Caller : call[c].at = "idle" \/ (rateLock = c /\ Reserved(c))
    BY <1>12 DEF Midnight
  <2>2. \A c \in Caller : call[c].at # "idle" => call[c].day <= day
    <3>1. \A c \in Caller : Late(c) => call[c].day < day
      BY <1>inv DEF LateOK
    <3>2. QED
      BY <1>now, <1>day, <3>1 DEF Late
  <2>3. LateOK'
    BY <1>inv, <1>now, <1>day, <2>1, <2>2 DEF LateOK, Late, Reserved, CountOK
  <2>4. TodayOK'
    BY <1>now, <1>day, <2>1, <2>2 DEF TodayOK
  <2>5. CountOK'
    <3>1. \A d \in 1..MaxDay : Pending(d)' = Pending(d) /\ Promised(d)' = Promised(d)
      BY <2>1 DEF Pending, Promised
    <3>2. QED
      BY <1>inv, <1>now, <2>1, <3>1 DEF CountOK
  <2>6. QED
    BY <1>ok, <2>3, <2>4, <2>5 DEF RatesInv
<1>13. ASSUME ReadDiagnostics PROVE RatesInv'
  <2>1. UNCHANGED <<day, rateLock, call, spent>> /\ ResetFor(day)
    BY <1>13 DEF ReadDiagnostics
  <2>2. LateOK'
    BY <1>inv, <2>1 DEF LateOK, Late, Reserved
  <2>3. budget'.date = day /\ (budget.date # day => budget'.count = 0)
    BY <1>now, <2>1, BudgetRecords DEF ResetFor
  <2>4. TodayOK'
    BY <1>inv, <2>1, <2>3 DEF TodayOK
  <2>5. CountOK'
    <3>1. \A d \in 1..MaxDay : Pending(d)' = Pending(d) /\ Promised(d)' = Promised(d)
      BY <2>1 DEF Pending, Promised
    <3>2. budget.date = day => budget' = budget
      BY <2>1 DEF ResetFor
    <3>3. budget.date # day => Promised(day) = 0
      <4>1. budget.date # day => Pending(day) = {}
        BY <1>inv DEF TodayOK, Pending
      <4>2. QED
        BY <1>inv, <4>1, FS_EmptySet DEF CountOK, Promised
    <3>4. QED
      BY <1>inv, <1>now, <2>1, <2>3, <3>1, <3>2, <3>3 DEF CountOK
  <2>6. QED
    BY <1>ok, <2>2, <2>4, <2>5 DEF RatesInv
<1>14. QED
  BY <1>1, <1>2, <1>3, <1>4, <1>5, <1>6, <1>7, <1>8, <1>9, <1>10, <1>11, <1>12, <1>13
     DEF RatesNext

\* The requests of a day, and those it has still to pay for, do not exceed the limit
\* whose reservation reserve() makes before the request is sent, as long as only an
\* operation that has its reservation and the refresh lock outlives midnight.
THEOREM RatesKeepBudget ==
    ASSUME ~OutlivesMidnight PROVE RatesSpec => []BudgetIsKept
<1>1. RatesInv => BudgetIsKept
  <2> SUFFICES ASSUME RatesInv, NEW d \in 1..MaxDay PROVE spent[d] <= SafeLimit
    BY DEF BudgetIsKept
  <2>1. IsFiniteSet(Pending(d)) /\ Promised(d) <= SafeLimit /\ spent[d] \in Nat
    BY DEF RatesInv, CountOK, RatesTypeOK
  <2>2. Cardinality(Pending(d)) \in Nat
    BY <2>1, FS_CardinalityType
  <2>3. QED
    BY <2>1, <2>2, ExchangeRatesAssumption DEF Promised
<1>2. QED
  BY RatesInitially, RatesStep, <1>1, PTL DEF RatesSpec

-----------------------------------------------------------------------------
(* ProductCache *)

\* Answers of the provider; a page is about a product it has.
ReaderAnswer == [product : Product, exists : BOOLEAN, observed : 0..MaxVer]

AnswersOK ==
    /\ inHand \in [Scanner -> ReaderAnswer \cup {NoPage}] /\ read \in [Reader -> ReaderAnswer \cup {NoPage}]
    /\ \A s \in Scanner :
          inHand[s] # NoPage => inHand[s].exists /\ inHand[s].observed <= ver[inHand[s].product]
    /\ \A r \in Reader : read[r] # NoPage => read[r].observed <= ver[read[r].product]

\* There is nothing in a row that does not exist.
RowsOK == \A p \in Product : ~cache[p].cached => cache[p].observed = 0 /\ ~cache[p].exists

\* A scan that is over remembers nothing.
ScansOK ==
    \A s \in Scanner :
        /\ started[s] <= scans
        /\ ~ScanAt(s, "page") => inHand[s] = NoPage /\ seen[s] = {} /\ left[s] = {} /\ gone[s] = {}

\* The row of p has been fetched since the scan s started.
FetchedSince(s, p) == cache[p].fetched >= started[s]

InHand(s, p) == inHand[s] # NoPage /\ inHand[s].product = p

\* What a scan has seen and not left out was fetched since it started, but for the
\* page in hand: if that is fenced off, a newer observation has been stored since.
SeenOK ==
    \A s \in Scanner, p \in Product :
       /\ ScanAt(s, "page") /\ p \in seen[s] \ left[s] /\ ~InHand(s, p) /\ cache[p].cached => FetchedSince(s, p)
       /\ InHand(s, p) /\ cache[p].observed > inHand[s].observed => FetchedSince(s, p)

\* The provider does not have the product, and no answer on its way says it does.
Absent(p) ==
    /\ p \notin here
    /\ \A s \in Scanner : ~InHand(s, p)
    /\ \A r \in Reader : read[r] # NoPage /\ read[r].exists => read[r].product # p

\* Products that were gone when a scan started: a row that shows them was fetched
\* before, and will be swept.
GoneOK ==
    /\ \A s \in Scanner : \A p \in gone[s] : Absent(p) /\ (cache[p].exists => ~FetchedSince(s, p))
    /\ \A p \in settled : Absent(p) /\ ~cache[p].exists

CacheInv == CacheTypeOK /\ AnswersOK /\ RowsOK /\ ScansOK /\ SeenOK /\ GoneOK

\* Marking a row as gone changes nothing else of it.
LEMMA RowTyping ==
    ASSUME NEW row \in CacheRow, NEW n \in 0..MaxScan
    PROVE  /\ [row EXCEPT !.exists = FALSE] \in CacheRow
           /\ [row EXCEPT !.exists = FALSE].cached = row.cached
           /\ [row EXCEPT !.exists = FALSE].exists = FALSE
           /\ [row EXCEPT !.exists = FALSE].observed = row.observed
           /\ [row EXCEPT !.exists = FALSE].fetched = row.fetched
           /\ [row EXCEPT !.exists = FALSE, !.fetched = n] \in CacheRow
           /\ [row EXCEPT !.exists = FALSE, !.fetched = n].cached = row.cached
           /\ [row EXCEPT !.exists = FALSE, !.fetched = n].exists = FALSE
           /\ [row EXCEPT !.exists = FALSE, !.fetched = n].observed = row.observed
           /\ [row EXCEPT !.exists = FALSE, !.fetched = n].fetched = n
BY DEF CacheRow

\* A row is stored as it was observed, dated now.
LEMMA FetchedTyping ==
    ASSUME NEW o \in ReaderAnswer, scans \in 0..MaxScan
    PROVE  /\ Fetched(o) \in CacheRow /\ Fetched(o).cached /\ Fetched(o).exists = o.exists
           /\ Fetched(o).observed = o.observed /\ Fetched(o).fetched = scans
BY DEF ReaderAnswer, Fetched, CacheRow

\* What the provider answers about a product.
LEMMA ObservationTyping ==
    ASSUME CacheInv, NEW p \in Product
    PROVE  /\ Observation(p) \in ReaderAnswer /\ Observation(p) # NoPage
           /\ Observation(p).product = p /\ Observation(p).observed = ver[p]
           /\ Observation(p).exists = (p \in here)
<1> USE ProductCacheAssumption
<1>1. ver[p] \in 0..MaxVer BY DEF CacheInv, CacheTypeOK
<1>2. Observation(p) # NoPage
  <2>1. "exists" \in DOMAIN Observation(p) /\ "exists" \notin DOMAIN NoPage BY DEF Observation, NoPage
  <2> QED BY <2>1
<1> QED BY <1>1, <1>2 DEF Observation, ReaderAnswer

\* No answer is the empty one.
LEMMA NoPageIsNone == NoPage \notin ReaderAnswer
<1>1. "exists" \notin DOMAIN NoPage BY DEF NoPage
<1>2. \A o \in ReaderAnswer : "exists" \in DOMAIN o BY DEF ReaderAnswer
<1> QED BY <1>1, <1>2

\* Rows, answers on their way and scans stay as they are: so does the rest.
LEMMA OthersStep ==
    ASSUME CacheInv, CacheTypeOK', UNCHANGED <<cache, inHand, seen, left, gone, read, settled, started>>,
           here' \subseteq here, \A p \in Product : ver[p] <= ver'[p], scans <= scans',
           \A s \in Scanner : ScanAt(s, "page")' <=> ScanAt(s, "page")
    PROVE  CacheInv'
<1>1. AnswersOK'
  <2>1. \A o \in ReaderAnswer : \A p \in Product :
           o.product = p /\ o.observed <= ver[p] => o.observed <= ver'[p]
    BY DEF CacheInv, CacheTypeOK, ReaderAnswer
  <2> QED BY <2>1, NoPageIsNone DEF CacheInv, AnswersOK, ReaderAnswer
<1>2. RowsOK' BY DEF CacheInv, RowsOK
<1>3. ScansOK' BY DEF CacheInv, ScansOK, CacheTypeOK
<1>4. SeenOK' BY DEF CacheInv, SeenOK, InHand, FetchedSince
<1>5. GoneOK' BY DEF CacheInv, GoneOK, Absent, InHand, FetchedSince
<1> QED BY <1>1, <1>2, <1>3, <1>4, <1>5 DEF CacheInv

\* A scan ends: nothing of it remains.
LEMMA EndScanStep ==
    ASSUME CacheInv, NEW s \in Scanner, EndScan(s)
    PROVE  /\ scanStep' \in [Scanner -> {"idle", "page", "copy", "store"}]
           /\ started' \in [Scanner -> 0..MaxScan] /\ hook' \in [Scanner -> BOOLEAN]
           /\ todo' \in [Scanner -> SUBSET Product] /\ seen' \in [Scanner -> SUBSET Product]
           /\ left' \in [Scanner -> SUBSET Product] /\ gone' \in [Scanner -> SUBSET Product]
           /\ inHand' \in [Scanner -> ReaderAnswer \cup {NoPage}]
           /\ scanStep'[s] # "page" /\ started'[s] = 0 /\ inHand'[s] = NoPage
           /\ seen'[s] = {} /\ left'[s] = {} /\ gone'[s] = {}
           /\ \A t \in Scanner \ {s} :
                 /\ scanStep'[t] = scanStep[t] /\ started'[t] = started[t] /\ inHand'[t] = inHand[t]
                 /\ seen'[t] = seen[t] /\ left'[t] = left[t] /\ gone'[t] = gone[t]
<1> USE ProductCacheAssumption DEF CacheInv, CacheTypeOK, AnswersOK, EndScan, ScanGoto
<1>1. /\ scanStep' \in [Scanner -> {"idle", "page", "copy", "store"}]
      /\ started' \in [Scanner -> 0..MaxScan] /\ hook' \in [Scanner -> BOOLEAN]
      /\ inHand' \in [Scanner -> ReaderAnswer \cup {NoPage}]
  OBVIOUS
<1>2. /\ todo' \in [Scanner -> SUBSET Product] /\ seen' \in [Scanner -> SUBSET Product]
      /\ left' \in [Scanner -> SUBSET Product] /\ gone' \in [Scanner -> SUBSET Product]
  OBVIOUS
<1>3. /\ scanStep'[s] # "page" /\ started'[s] = 0 /\ inHand'[s] = NoPage
      /\ seen'[s] = {} /\ left'[s] = {} /\ gone'[s] = {}
  OBVIOUS
<1>4. \A t \in Scanner \ {s} :
         /\ scanStep'[t] = scanStep[t] /\ started'[t] = started[t] /\ inHand'[t] = inHand[t]
         /\ seen'[t] = seen[t] /\ left'[t] = left[t] /\ gone'[t] = gone[t]
  OBVIOUS
<1> QED BY <1>1, <1>2, <1>3, <1>4

\* What a row says is at most as new as what the provider has said.
Bounded == \A p \in Product : cache[p].observed <= ver[p] /\ cache[p].fetched <= scans

\* Every step of the scans, of the readers, of Apply and of the provider keeps the
\* invariant of the product cache.
LEMMA CacheStep ==
    ASSUME CacheInv, [CacheNext]_cacheVars
    PROVE  CacheInv'
<1> USE ProductCacheAssumption
<1>t. /\ ver \in [Product -> 1..MaxVer] /\ here \subseteq Product /\ owned \subseteq Product
      /\ settled \subseteq Product /\ cache \in [Product -> CacheRow]
      /\ locks \in 0..MaxLock /\ scans \in 0..MaxScan
      /\ displayed \in [Product -> 0..MaxVer] /\ verified \in [Product -> 0..MaxVer]
      /\ rows \in [Scanner -> [Product -> 0..MaxVer]]
      /\ scanStep \in [Scanner -> {"idle", "page", "copy", "store"}]
      /\ started \in [Scanner -> 0..MaxScan] /\ hook \in [Scanner -> BOOLEAN]
  BY DEF CacheInv, CacheTypeOK
<1>s. /\ todo \in [Scanner -> SUBSET Product] /\ seen \in [Scanner -> SUBSET Product]
      /\ left \in [Scanner -> SUBSET Product] /\ gone \in [Scanner -> SUBSET Product]
      /\ Bounded /\ AnswersOK /\ RowsOK /\ ScansOK /\ SeenOK /\ GoneOK
      /\ inHand \in [Scanner -> ReaderAnswer \cup {NoPage}] /\ read \in [Reader -> ReaderAnswer \cup {NoPage}]
      /\ \A p \in Product : cache[p].observed \in 0..MaxVer /\ cache[p].fetched \in 0..MaxScan
  BY DEF CacheInv, CacheTypeOK, AnswersOK, Bounded, CacheRow
<1>1. ASSUME NEW s \in Scanner, StartScan(s) PROVE CacheInv'
  <2>1. /\ scanStep' = [scanStep EXCEPT ![s] = "page"] /\ started' = [started EXCEPT ![s] = scans + 1]
        /\ scans' = scans + 1 /\ scans' \in 0..MaxScan /\ scanStep[s] = "idle"
        /\ gone' = [gone EXCEPT ![s] = Product \ (here \cup OnTheWay)]
        /\ UNCHANGED <<ver, here, displayed, verified, rows, cache, owned, locks, inHand, seen, left, read, settled>>
    BY <1>1, <1>t DEF StartScan, ScanAt, ScanGoto, provVars, workspaceVars
  <2>2. hook' \in [Scanner -> BOOLEAN] /\ todo' \in [Scanner -> SUBSET Product] BY <1>1, <1>t, <1>s DEF StartScan
  <2>3. CacheTypeOK'
    <3>1. gone' \in [Scanner -> SUBSET Product] BY <1>s, <2>1
    <3>2. Bounded' BY <1>t, <1>s, <2>1 DEF Bounded
    <3> QED BY <1>t, <1>s, <2>1, <2>2, <3>1, <3>2 DEF CacheTypeOK, Bounded
  <2>4. AnswersOK' /\ RowsOK' BY <1>s, <2>1 DEF AnswersOK, RowsOK
  <2>5. ScansOK' BY <1>t, <1>s, <2>1 DEF ScansOK, ScanAt
  <2>6. SeenOK'
    <3>1. seen[s] = {} /\ inHand[s] = NoPage BY <1>s, <2>1 DEF ScansOK, ScanAt
    <3>2. \A t \in Scanner \ {s} : started'[t] = started[t] /\ scanStep'[t] = scanStep[t] BY <1>t, <2>1
    <3> QED BY <1>s, <2>1, <3>1, <3>2 DEF SeenOK, ScanAt, InHand, FetchedSince
  <2>7. GoneOK'
    <3>1. \A q \in Product : Absent(q) => Absent(q)' BY <2>1 DEF Absent, InHand
    <3>2. \A q \in gone'[s] : Absent(q)
      BY <1>s, <2>1 DEF Absent, InHand, OnTheWay
    <3>3. \A q \in gone'[s] : ~FetchedSince(s, q)'
      BY <1>t, <1>s, <2>1 DEF FetchedSince, Bounded
    <3>4. \A t \in Scanner \ {s} : gone'[t] = gone[t] /\ started'[t] = started[t] BY <1>t, <1>s, <2>1
    <3>5. \A t \in Scanner : gone'[t] \subseteq Product BY <2>3 DEF CacheTypeOK
    <3>6. ASSUME NEW t \in Scanner, NEW q \in gone'[t]
          PROVE  Absent(q)' /\ (cache'[q].exists => ~FetchedSince(t, q)')
      <4>1. CASE t = s BY <3>1, <3>2, <3>3, <3>5, <3>6, <4>1
      <4>2. CASE t # s BY <1>s, <2>1, <3>1, <3>4, <3>5, <3>6, <4>2 DEF GoneOK, FetchedSince
      <4> QED BY <4>1, <4>2
    <3> QED BY <1>t, <1>s, <2>1, <3>1, <3>6 DEF GoneOK
  <2> QED BY <2>3, <2>4, <2>5, <2>6, <2>7 DEF CacheInv
<1>2. ASSUME NEW s \in Scanner, ReadPage(s) PROVE CacheInv'
  <2>1. PICK q \in todo[s] : /\ todo' = [todo EXCEPT ![s] = @ \ {q}]
                             /\ IF q \in here
                                THEN /\ inHand' = [inHand EXCEPT ![s] = Observation(q)]
                                     /\ seen' = [seen EXCEPT ![s] = @ \cup {q}]
                                ELSE UNCHANGED <<inHand, seen>>
    BY <1>2 DEF ReadPage
  <2>2. /\ scanStep[s] = "page" /\ inHand[s] = NoPage /\ q \in Product
        /\ UNCHANGED <<ver, here, displayed, verified, rows, cache, owned, locks, scans, scanStep, started, hook,
                       left, read, gone, settled>>
    BY <1>2, <1>s DEF ReadPage, ScanAt, provVars, workspaceVars
  <2>3. CASE q \notin here
    <3>1. UNCHANGED <<inHand, seen>> /\ todo' \in [Scanner -> SUBSET Product] BY <1>s, <2>1, <2>3
    <3>2. CacheTypeOK' BY <1>t, <1>s, <2>2, <3>1 DEF CacheTypeOK, Bounded
    <3> QED BY <1>t, <2>2, <3>1, <3>2, OthersStep DEF ScanAt
  <2>4. CASE q \in here
    <3> DEFINE o == Observation(q)
    <3>1. /\ o \in ReaderAnswer /\ o # NoPage /\ o.product = q /\ o.observed = ver[q] /\ o.exists
      BY <2>2, <2>4, ObservationTyping
    <3>2. /\ inHand' = [inHand EXCEPT ![s] = o] /\ seen' = [seen EXCEPT ![s] = @ \cup {q}] BY <2>1, <2>4
    <3> HIDE DEF o
    <3>3. /\ inHand'[s] = o /\ \A t \in Scanner \ {s} : inHand'[t] = inHand[t] /\ seen'[t] = seen[t]
          /\ seen'[s] = seen[s] \cup {q}
      BY <1>s, <3>2
    <3>4. CacheTypeOK'
      <4>1. todo' \in [Scanner -> SUBSET Product] /\ seen' \in [Scanner -> SUBSET Product]
        BY <1>s, <2>1, <2>2, <3>2
      <4> QED BY <1>t, <1>s, <2>2, <4>1 DEF CacheTypeOK, Bounded
    <3>5. AnswersOK'
      <4>1. inHand' \in [Scanner -> ReaderAnswer \cup {NoPage}] BY <1>s, <3>1, <3>2
      <4>2. ver[q] \in 1..MaxVer BY <1>t, <2>2
      <4>3. \A t \in Scanner : inHand'[t] # NoPage
              => inHand'[t].exists /\ inHand'[t].observed <= ver[inHand'[t].product]
        BY <1>s, <3>1, <3>3, <4>2 DEF AnswersOK
      <4> QED BY <1>s, <2>2, <4>1, <4>3 DEF AnswersOK
    <3>6. RowsOK' /\ ScansOK' BY <1>s, <2>2, <3>3 DEF RowsOK, ScansOK, ScanAt
    <3>7. SeenOK'
      <4> SUFFICES ASSUME NEW t \in Scanner, NEW r \in Product
                   PROVE  /\ ScanAt(t, "page")' /\ r \in seen'[t] \ left'[t] /\ ~InHand(t, r)' /\ cache'[r].cached
                             => FetchedSince(t, r)'
                          /\ InHand(t, r)' /\ cache'[r].observed > inHand'[t].observed => FetchedSince(t, r)'
        BY DEF SeenOK
      <4>0. FetchedSince(t, r)' <=> FetchedSince(t, r) BY <2>2 DEF FetchedSince
      <4>1. CASE t # s BY <1>s, <2>2, <3>3, <4>0, <4>1 DEF SeenOK, ScanAt, InHand
      <4>2. CASE t = s /\ r # q BY <1>s, <2>2, <3>1, <3>3, <4>0, <4>2 DEF SeenOK, ScanAt, InHand
      <4>3. CASE t = s /\ r = q
        <5>1. ~(cache'[r].observed > inHand'[t].observed) BY <1>t, <1>s, <2>2, <3>1, <3>3, <4>3 DEF Bounded
        <5> QED BY <3>1, <3>3, <4>3, <5>1 DEF InHand
      <4> QED BY <4>1, <4>2, <4>3
    <3>8. GoneOK'
      <4>1. \A r \in Product : Absent(r) => Absent(r)'
        BY <2>2, <2>4, <3>1, <3>3 DEF Absent, InHand
      <4> QED BY <1>t, <1>s, <2>2, <4>1 DEF GoneOK, FetchedSince
    <3> QED BY <3>4, <3>5, <3>6, <3>7, <3>8 DEF CacheInv
  <2> QED BY <2>3, <2>4
<1>3. ASSUME NEW s \in Scanner, StorePage(s) PROVE CacheInv'
  <2> DEFINE o == inHand[s]
  <2> HIDE DEF o
  <2>1. /\ scanStep[s] = "page" /\ o # NoPage /\ o = inHand[s]
        /\ cache' = IF o.product \notin owned /\ Passes(cache[o.product], o)
                    THEN [cache EXCEPT ![o.product] = Fetched(o)] ELSE cache
        /\ left' = [left EXCEPT ![s] = IF o.product \in owned THEN @ \cup {o.product} ELSE @]
        /\ inHand' = [inHand EXCEPT ![s] = NoPage]
        /\ UNCHANGED <<ver, here, displayed, verified, rows, owned, locks, scans, scanStep, started, hook, todo,
                       seen, read, gone, settled>>
    BY <1>3 DEF StorePage, ScanAt, provVars, workspaceVars, o
  <2>2. PICK q \in Product : q = o.product BY <1>s, <2>1 DEF ReaderAnswer
  <2>3. o \in ReaderAnswer /\ InHand(s, q) /\ o.exists /\ o.observed <= ver[q]
    BY <1>s, <2>1, <2>2 DEF AnswersOK, InHand
  <2>4. /\ inHand'[s] = NoPage /\ \A t \in Scanner \ {s} : inHand'[t] = inHand[t] /\ left'[t] = left[t]
        /\ left'[s] = IF q \in owned THEN left[s] \cup {q} ELSE left[s]
    BY <1>s, <2>1, <2>2
  <2>5. \A r \in Product : r # q => cache'[r] = cache[r] BY <1>t, <2>1, <2>2
  <2>6. \/ cache' = cache
        \/ /\ cache'[q] \in CacheRow /\ cache'[q].cached /\ cache'[q].observed = o.observed
           /\ cache'[q].fetched = scans
    BY <1>t, <2>1, <2>2, <2>3, FetchedTyping
  <2>7. CacheTypeOK'
    <3>1. cache' \in [Product -> CacheRow] BY <1>t, <2>1, <2>3, FetchedTyping
    <3>2. Bounded' BY <1>t, <1>s, <2>1, <2>3, <2>5, <2>6 DEF Bounded
    <3>3. left' \in [Scanner -> SUBSET Product] BY <1>s, <2>1, <2>2
    <3> QED BY <1>t, <1>s, <2>1, <3>1, <3>2, <3>3 DEF CacheTypeOK, Bounded
  <2>8. AnswersOK'
    <3>1. inHand' \in [Scanner -> ReaderAnswer \cup {NoPage}] BY <1>s, <2>1
    <3> QED BY <1>s, <2>1, <2>4, <3>1 DEF AnswersOK
  <2>9. RowsOK' BY <1>s, <2>5, <2>6 DEF RowsOK
  <2>10. ScansOK' BY <1>s, <2>1, <2>4 DEF ScansOK, ScanAt
  <2>11. SeenOK'
    <3> SUFFICES ASSUME NEW t \in Scanner, NEW r \in Product
                 PROVE  /\ ScanAt(t, "page")' /\ r \in seen'[t] \ left'[t] /\ ~InHand(t, r)' /\ cache'[r].cached
                           => FetchedSince(t, r)'
                        /\ InHand(t, r)' /\ cache'[r].observed > inHand'[t].observed => FetchedSince(t, r)'
      BY DEF SeenOK
    <3>1. CASE r # q
      <4>1. cache'[r] = cache[r] /\ ~InHand(s, r) BY <2>3, <2>5, <3>1 DEF InHand
      <4>2. left[t] \subseteq left'[t] BY <2>4
      <4> QED BY <1>s, <2>1, <2>4, <4>1, <4>2 DEF SeenOK, ScanAt, InHand, FetchedSince
    <3>2. CASE r = q /\ cache' # cache
      <4>1. FetchedSince(t, r)' BY <1>t, <1>s, <2>1, <2>6, <3>2 DEF FetchedSince, ScansOK
      <4> QED BY <4>1
    <3>3. CASE r = q /\ cache' = cache /\ t # s
      BY <1>s, <2>1, <2>4, <3>3 DEF SeenOK, ScanAt, InHand, FetchedSince
    <3>4. CASE r = q /\ cache' = cache /\ t = s /\ q \notin owned
      <4>1. CASE Passes(cache[q], o)
        <5>1. cache' = [cache EXCEPT ![q] = Fetched(o)] BY <2>1, <2>2, <3>4, <4>1
        <5>2. cache'[q].fetched = scans BY <1>t, <2>3, <5>1, FetchedTyping
        <5>3. FetchedSince(t, r)' BY <1>t, <1>s, <2>1, <3>4, <5>2 DEF FetchedSince, ScansOK
        <5> QED BY <5>3
      <4>2. CASE ~Passes(cache[q], o)
        <5>1. cache[q].observed > o.observed BY <1>s, <2>3, <4>2 DEF Passes, ReaderAnswer
        <5>2. FetchedSince(s, q) BY <1>s, <2>1, <2>3, <5>1 DEF SeenOK
        <5> QED BY <2>1, <3>4, <5>2 DEF FetchedSince
      <4> QED BY <4>1, <4>2
    <3>5. CASE r = q /\ t = s /\ q \in owned BY <2>4, <3>5 DEF InHand
    <3> QED BY <3>1, <3>2, <3>3, <3>4, <3>5
  <2>12. GoneOK'
    <3>1. \A r \in Product : Absent(r) => Absent(r)' /\ r # q
      BY <2>1, <2>3, <2>4 DEF Absent, InHand
    <3> QED BY <1>t, <1>s, <2>1, <2>5, <3>1 DEF GoneOK, FetchedSince
  <2> QED BY <2>7, <2>8, <2>9, <2>10, <2>11, <2>12 DEF CacheInv
\* A scan ends, with rows marked that have not been fetched since it started.
<1>4. ASSUME NEW s \in Scanner, EndScan(s), ScanAt(s, "page"),
             UNCHANGED <<ver, here, displayed, verified, rows, owned, locks, scans, read>>,
             cache' \in [Product -> CacheRow],
             \A q \in Product : /\ cache'[q].cached = cache[q].cached /\ cache'[q].observed = cache[q].observed
                                /\ cache'[q].fetched = cache[q].fetched /\ (cache'[q].exists => cache[q].exists),
             settled \subseteq settled', \A q \in settled' \ settled : q \in gone[s] /\ ~cache'[q].exists
      PROVE  CacheInv'
  <2>1. /\ scanStep' \in [Scanner -> {"idle", "page", "copy", "store"}]
        /\ started' \in [Scanner -> 0..MaxScan] /\ hook' \in [Scanner -> BOOLEAN]
        /\ todo' \in [Scanner -> SUBSET Product] /\ seen' \in [Scanner -> SUBSET Product]
        /\ left' \in [Scanner -> SUBSET Product] /\ gone' \in [Scanner -> SUBSET Product]
        /\ inHand' \in [Scanner -> ReaderAnswer \cup {NoPage}]
    BY <1>4, EndScanStep
  <2>2. /\ scanStep'[s] # "page" /\ started'[s] = 0 /\ inHand'[s] = NoPage
        /\ seen'[s] = {} /\ left'[s] = {} /\ gone'[s] = {}
    BY <1>4, EndScanStep
  <2>3. \A t \in Scanner \ {s} :
           /\ scanStep'[t] = scanStep[t] /\ started'[t] = started[t] /\ inHand'[t] = inHand[t]
           /\ seen'[t] = seen[t] /\ left'[t] = left[t] /\ gone'[t] = gone[t]
    BY <1>4, EndScanStep
  <2>4. CacheTypeOK'
    <3>1. Bounded' BY <1>s, <1>4 DEF Bounded
    <3>2. settled' \subseteq Product BY <1>t, <1>s, <1>4
    <3> QED BY <1>4, <1>t, <2>1, <3>1, <3>2 DEF CacheTypeOK, Bounded
  <2>5. AnswersOK' BY <1>s, <1>4, <2>1, <2>2, <2>3 DEF AnswersOK
  <2>6. RowsOK' BY <1>s, <1>4 DEF RowsOK
  <2>7. ScansOK'
    <3>1. started'[s] <= scans BY <1>t, <2>2
    <3>2. \A t \in Scanner \ {s} : started'[t] <= scans BY <1>s, <2>3 DEF ScansOK
    <3> QED BY <1>s, <1>4, <2>2, <2>3, <3>1, <3>2 DEF ScansOK, ScanAt
  <2>8. SeenOK'
    <3> SUFFICES ASSUME NEW t \in Scanner, NEW r \in Product
                 PROVE  /\ ScanAt(t, "page")' /\ r \in seen'[t] \ left'[t] /\ ~InHand(t, r)' /\ cache'[r].cached
                           => FetchedSince(t, r)'
                        /\ InHand(t, r)' /\ cache'[r].observed > inHand'[t].observed => FetchedSince(t, r)'
      BY DEF SeenOK
    <3>1. CASE t = s BY <2>2, <3>1 DEF InHand
    <3>2. CASE t # s BY <1>s, <1>4, <2>3, <3>2 DEF SeenOK, ScanAt, InHand, FetchedSince
    <3> QED BY <3>1, <3>2
  <2>9. GoneOK'
    <3>1. \A r \in Product : Absent(r) => Absent(r)' BY <1>4, <2>2, <2>3 DEF Absent, InHand
    <3>2. \A t \in Scanner : \A q \in gone'[t] : Absent(q)' /\ (cache'[q].exists => ~FetchedSince(t, q)')
      BY <1>s, <1>4, <2>2, <2>3, <3>1 DEF GoneOK, FetchedSince
    <3>3. \A q \in settled : Absent(q)' /\ ~cache'[q].exists BY <1>t, <1>s, <1>4, <3>1 DEF GoneOK
    <3>4. \A q \in settled' \ settled : Absent(q)' /\ ~cache'[q].exists BY <1>s, <1>4, <3>1 DEF GoneOK
    <3> QED BY <3>2, <3>3, <3>4 DEF GoneOK
  <2> QED BY <2>4, <2>5, <2>6, <2>7, <2>8, <2>9 DEF CacheInv
<1>5. ASSUME NEW s \in Scanner, AbortScan(s) PROVE CacheInv'
  BY <1>4, <1>5, <1>t DEF AbortScan, provVars, workspaceVars
<1>6. ASSUME NEW s \in Scanner, Sweep(s) PROVE CacheInv'
  <2>1. /\ EndScan(s) /\ ScanAt(s, "page") /\ settled' = settled \cup (gone[s] \ here)
        /\ UNCHANGED <<ver, here, displayed, verified, rows, owned, locks, scans, read>>
        /\ cache' = [q \in Product |-> IF Swept(s, q) THEN [cache[q] EXCEPT !.exists = FALSE] ELSE cache[q]]
    BY <1>6 DEF Sweep, provVars, workspaceVars
  <2>2. ASSUME NEW q \in Product
        PROVE  /\ cache'[q] \in CacheRow /\ cache'[q].cached = cache[q].cached
               /\ cache'[q].observed = cache[q].observed /\ cache'[q].fetched = cache[q].fetched
               /\ cache'[q].exists => cache[q].exists /\ ~Swept(s, q)
    <3>1. cache'[q] = IF Swept(s, q) THEN [cache[q] EXCEPT !.exists = FALSE] ELSE cache[q] BY <2>1
    <3>2. cache[q] \in CacheRow BY <1>t
    <3> QED BY ZenonT(60), <1>t, <3>1, <3>2, RowTyping
  <2>3. cache' \in [Product -> CacheRow] BY <2>1, <2>2
  <2>4. ASSUME NEW q \in gone[s] PROVE ~cache'[q].exists
    <3>1. q \in Product /\ (cache[q].exists => cache[q].cached /\ ~FetchedSince(s, q))
      BY <1>s DEF GoneOK, RowsOK
    <3>2. cache[q].exists => Swept(s, q) BY <1>t, <1>s, <3>1 DEF Swept, Unseen, FetchedSince
    <3> QED BY <2>2, <3>1, <3>2
  <2> QED BY <1>4, <2>1, <2>2, <2>3, <2>4
<1>7. ASSUME NEW s \in Scanner, ReadRows(s) PROVE CacheInv'
  <2>1. /\ scanStep[s] = "copy" /\ \E p \in {"idle", "store"} : scanStep' = [scanStep EXCEPT ![s] = p]
        /\ UNCHANGED <<ver, here, cache, displayed, verified, owned, locks, scans, started, hook, todo, inHand,
                       seen, left, read, gone, settled>>
    BY <1>7 DEF ReadRows, ScanAt, ScanGoto, provVars
  <2>2. rows' \in [Scanner -> [Product -> 0..MaxVer]]
    <3>1. [q \in Product |-> IF cache[q].cached THEN cache[q].observed ELSE 0] \in [Product -> 0..MaxVer]
      BY <1>s
    <3> QED BY <1>7, <1>t, <3>1 DEF ReadRows
  <2>3. CacheTypeOK' BY <1>t, <1>s, <2>1, <2>2 DEF CacheTypeOK, Bounded
  <2>4. \A t \in Scanner : ScanAt(t, "page")' <=> ScanAt(t, "page") BY <1>t, <2>1 DEF ScanAt
  <2> QED BY <1>t, <2>1, <2>3, <2>4, OthersStep
<1>8. ASSUME NEW s \in Scanner, StoreRows(s) PROVE CacheInv'
  <2>1. /\ scanStep[s] = "store" /\ scanStep' = [scanStep EXCEPT ![s] = "idle"]
        /\ UNCHANGED <<ver, here, cache, verified, owned, locks, scans, started, hook, todo, inHand,
                       seen, left, read, gone, settled>>
    BY <1>8 DEF StoreRows, ScanAt, ScanGoto, provVars
  <2>2. rows' \in [Scanner -> [Product -> 0..MaxVer]] /\ displayed' \in [Product -> 0..MaxVer]
    BY <1>8, <1>t DEF StoreRows
  <2>3. CacheTypeOK' BY <1>t, <1>s, <2>1, <2>2 DEF CacheTypeOK, Bounded
  <2>4. \A t \in Scanner : ScanAt(t, "page")' <=> ScanAt(t, "page") BY <1>t, <2>1 DEF ScanAt
  <2> QED BY <1>t, <2>1, <2>3, <2>4, OthersStep
\* The answer a reader has changes; nothing is stored.
<1>9. ASSUME UNCHANGED <<ver, here, displayed, verified, rows, cache, owned, locks, scans, scanStep, started, hook,
                         todo, inHand, seen, left, gone, settled>>,
             NEW r \in Reader, NEW x \in ReaderAnswer \cup {NoPage}, read' = [read EXCEPT ![r] = x],
             x # NoPage => x.observed <= ver[x.product] /\ (x.exists => x.product \in here)
      PROVE  CacheInv'
  <2>1. CacheTypeOK' BY <1>9, <1>t, <1>s DEF CacheTypeOK, Bounded
  <2>2. read'[r] = x /\ \A u \in Reader \ {r} : read'[u] = read[u] BY <1>9, <1>s
  <2>3. read' \in [Reader -> ReaderAnswer \cup {NoPage}] BY <1>9, <1>s
  <2>4. AnswersOK' BY <1>9, <1>s, <2>2, <2>3 DEF AnswersOK
  <2>5. RowsOK' /\ ScansOK' /\ SeenOK' BY <1>9, <1>s DEF RowsOK, ScansOK, SeenOK, ScanAt, InHand, FetchedSince
  <2>6. \A q \in Product : Absent(q) => Absent(q)' BY <1>9, <2>2 DEF Absent, InHand
  <2>7. GoneOK' BY <1>9, <1>t, <1>s, <2>6 DEF GoneOK, FetchedSince
  <2> QED BY <2>1, <2>4, <2>5, <2>7 DEF CacheInv
<1>10. ASSUME NEW r \in Reader, ReadEntity(r) PROVE CacheInv'
  <2>1. PICK q \in Product : read' = [read EXCEPT ![r] = Observation(q)] BY <1>10 DEF ReadEntity
  <2> DEFINE x == Observation(q)
  <2>2. x \in ReaderAnswer /\ x.product = q /\ x.observed = ver[q] /\ (x.exists => q \in here) BY ObservationTyping
  <2>3. read' = [read EXCEPT ![r] = x] BY <2>1
  <2> HIDE DEF x
  <2>4. ver[q] <= ver[q] BY <1>t
  <2> QED BY <1>9, <1>10, <2>2, <2>3, <2>4 DEF ReadEntity, provVars, workspaceVars, scanVars
<1>11. ASSUME NEW r \in Reader, RejectEntity(r) PROVE CacheInv'
  <2>1. read' = [read EXCEPT ![r] = NoPage] BY <1>11 DEF RejectEntity
  <2> QED BY <1>9, <1>11, <2>1 DEF RejectEntity, provVars, workspaceVars, scanVars
<1>12. ASSUME NEW r \in Reader, StoreEntity(r) PROVE CacheInv'
  <2> DEFINE o == read[r]
  <2>1. /\ o # NoPage
        /\ cache' = [cache EXCEPT ![o.product] =
                        IF o.exists THEN Fetched(o)
                        ELSE IF @.cached THEN [@ EXCEPT !.exists = FALSE, !.fetched = scans] ELSE @]
        /\ seen' = [s \in Scanner |-> IF o.exists /\ ScanAt(s, "page") THEN seen[s] \cup {o.product} ELSE seen[s]]
        /\ read' = [read EXCEPT ![r] = NoPage]
        /\ left' = [s \in Scanner |-> left[s] \ {o.product}]
        /\ UNCHANGED <<ver, here, displayed, verified, rows, owned, locks, scans, scanStep, started, hook, todo,
                       inHand, gone, settled>>
    BY <1>12 DEF StoreEntity, provVars, workspaceVars
  <2>2. o \in ReaderAnswer /\ o.observed <= ver[o.product] BY <1>s, <2>1 DEF AnswersOK
  <2>a. o = read[r] OBVIOUS
  <2> HIDE DEF o
  <2>3. PICK q \in Product : q = o.product BY <2>2 DEF ReaderAnswer
  <2>4. \A p \in Product : p # q => cache'[p] = cache[p] BY <1>t, <2>1, <2>3
  <2>5. \/ /\ o.exists /\ cache'[q] \in CacheRow /\ cache'[q].cached /\ cache'[q].observed = o.observed
           /\ cache'[q].fetched = scans
        \/ /\ ~o.exists /\ cache'[q] \in CacheRow /\ cache'[q].cached /\ ~cache'[q].exists
           /\ cache'[q].observed = cache[q].observed /\ cache'[q].fetched = scans
        \/ ~o.exists /\ ~cache[q].cached /\ cache'[q] = cache[q]
    <3>1. CASE o.exists
      <4>1. cache'[q] = Fetched(o) BY <1>t, <2>1, <2>3, <3>1
      <4> QED BY <1>t, <2>2, <3>1, <4>1, FetchedTyping
    <3>2. CASE ~o.exists /\ cache[q].cached
      <4>1. cache'[q] = [cache[q] EXCEPT !.exists = FALSE, !.fetched = scans] BY <1>t, <2>1, <2>3, <3>2
      <4>2. cache[q] \in CacheRow BY <1>t
      <4>3. \A row \in CacheRow : row.cached =>
               /\ [row EXCEPT !.exists = FALSE, !.fetched = scans] \in CacheRow
               /\ [row EXCEPT !.exists = FALSE, !.fetched = scans].cached
               /\ ~[row EXCEPT !.exists = FALSE, !.fetched = scans].exists
               /\ [row EXCEPT !.exists = FALSE, !.fetched = scans].observed = row.observed
               /\ [row EXCEPT !.exists = FALSE, !.fetched = scans].fetched = scans
        BY <1>t DEF CacheRow
      <4> QED BY <3>2, <4>1, <4>2, <4>3
    <3>3. CASE ~o.exists /\ ~cache[q].cached BY <1>t, <2>1, <2>3, <3>3
    <3> QED BY <3>1, <3>2, <3>3
  <2>6. \A s \in Scanner : left'[s] = left[s] \ {q} /\ seen[s] \subseteq seen'[s] /\ seen'[s] \subseteq seen[s] \cup {q}
                           /\ (scanStep[s] # "page" => seen'[s] = seen[s])
    BY <2>1, <2>3 DEF ScanAt
  <2>7. read'[r] = NoPage /\ \A u \in Reader \ {r} : read'[u] = read[u] BY <1>s, <2>1
  <2>8. CacheTypeOK'
    <3>1. cache' \in [Product -> CacheRow]
      <4>1. \A p \in Product : cache'[p] \in CacheRow BY <1>t, <2>4, <2>5
      <4>2. cache' = [p \in Product |-> cache'[p]] BY <1>t, <2>1
      <4> QED BY <4>1, <4>2
    <3>2. Bounded' BY <1>t, <1>s, <2>1, <2>2, <2>3, <2>4, <2>5 DEF Bounded
    <3>3. left' \in [Scanner -> SUBSET Product] /\ seen' \in [Scanner -> SUBSET Product] BY <1>s, <2>1, <2>3
    <3> QED BY <1>t, <1>s, <2>1, <3>1, <3>2, <3>3 DEF CacheTypeOK, Bounded
  <2>9. AnswersOK'
    <3>1. read' \in [Reader -> ReaderAnswer \cup {NoPage}] BY <1>s, <2>1
    <3> QED BY <1>s, <2>1, <2>7, <3>1 DEF AnswersOK
  <2>10. RowsOK' BY <1>s, <2>4, <2>5 DEF RowsOK
  <2>11. ScansOK' BY <1>s, <2>1, <2>6 DEF ScansOK, ScanAt
  <2>12. SeenOK'
    <3> SUFFICES ASSUME NEW t \in Scanner, NEW p \in Product
                 PROVE  /\ ScanAt(t, "page")' /\ p \in seen'[t] \ left'[t] /\ ~InHand(t, p)' /\ cache'[p].cached
                           => FetchedSince(t, p)'
                        /\ InHand(t, p)' /\ cache'[p].observed > inHand'[t].observed => FetchedSince(t, p)'
      BY DEF SeenOK
    <3>1. CASE p # q BY ZenonT(60), <1>s, <2>1, <2>4, <2>6, <3>1 DEF SeenOK, ScanAt, InHand, FetchedSince
    <3>2. CASE p = q /\ cache'[q].cached
      <4>1. cache'[q].fetched = scans BY <1>s, <2>5, <3>2
      <4>2. FetchedSince(t, p)' BY <1>t, <1>s, <2>1, <3>2, <4>1 DEF FetchedSince, ScansOK
      <4> QED BY <4>2
    <3>3. CASE p = q /\ ~cache'[q].cached
      <4>1. cache'[q] = cache[q] /\ cache[q].observed = 0 BY <1>s, <2>5, <3>3 DEF RowsOK
      <4>2. InHand(t, p)' => inHand'[t] \in ReaderAnswer BY <1>s, <2>1 DEF InHand
      <4>3. ~(InHand(t, p)' /\ cache'[p].observed > inHand'[t].observed) BY <3>3, <4>1, <4>2 DEF ReaderAnswer
      <4> QED BY <3>3, <4>3
    <3> QED BY <3>1, <3>2, <3>3
  <2>13. GoneOK'
    <3>1. \A p \in Product : Absent(p) => Absent(p)' /\ (p = q => ~o.exists)
      BY <2>1, <2>a, <2>3, <2>7 DEF Absent, InHand
    <3>2. ASSUME NEW p \in Product, Absent(p) PROVE cache'[p].exists => cache'[p] = cache[p]
      BY <1>s, <2>4, <2>5, <3>1, <3>2 DEF RowsOK
    <3> QED BY <1>t, <1>s, <2>1, <3>1, <3>2 DEF GoneOK, FetchedSince
  <2> QED BY <2>8, <2>9, <2>10, <2>11, <2>12, <2>13 DEF CacheInv
<1>13. CASE Change
  <2>1. PICK p \in here : ver[p] < MaxVer /\ ver' = [ver EXCEPT ![p] = @ + 1] BY <1>13 DEF Change
  <2>2. ver' \in [Product -> 1..MaxVer] /\ \A q \in Product : ver[q] <= ver'[q] BY <1>t, <2>1
  <2>3. UNCHANGED <<here, displayed, verified, rows, cache, owned, locks, scans, scanStep, started, hook, todo,
                    inHand, seen, left, gone, read, settled>>
    BY <1>13 DEF Change, workspaceVars, scanVars
  <2>4. Bounded' BY <1>t, <1>s, <2>2, <2>3 DEF Bounded
  <2>5. CacheTypeOK' BY <1>t, <1>s, <2>2, <2>3, <2>4 DEF CacheTypeOK, Bounded
  <2> QED BY <1>t, <2>2, <2>3, <2>5, OthersStep DEF ScanAt
<1>14. CASE Delete
  <2>1. here' \subseteq here BY <1>14 DEF Delete
  <2>2. UNCHANGED <<ver, displayed, verified, rows, cache, owned, locks, scans, scanStep, started, hook, todo,
                    inHand, seen, left, gone, read, settled>>
    BY <1>14 DEF Delete, workspaceVars, scanVars
  <2>3. CacheTypeOK' BY <1>t, <1>s, <2>1, <2>2 DEF CacheTypeOK, Bounded
  <2> QED BY <1>t, <2>1, <2>2, <2>3, OthersStep DEF ScanAt
<1>15. CASE Restore
  <2>1. PICK p \in Product \ here : /\ ver[p] < MaxVer /\ here' = here \cup {p} /\ ver' = [ver EXCEPT ![p] = @ + 1]
                                    /\ settled' = settled \ {p} /\ gone' = [s \in Scanner |-> gone[s] \ {p}]
    BY <1>15 DEF Restore
  <2>2. ver' \in [Product -> 1..MaxVer] /\ \A q \in Product : ver[q] <= ver'[q] BY <1>t, <2>1
  <2>3. UNCHANGED <<displayed, verified, rows, cache, owned, locks, scans, scanStep, started, hook, todo,
                    inHand, seen, left, read>>
    BY <1>15 DEF Restore, workspaceVars
  <2>4. Bounded' BY <1>t, <1>s, <2>2, <2>3 DEF Bounded
  <2>5. \A s \in Scanner : gone'[s] = gone[s] \ {p} BY <2>1
  <2>6. CacheTypeOK'
    <3>1. gone' \in [Scanner -> SUBSET Product] /\ here' \subseteq Product /\ settled' \subseteq Product
      BY <1>t, <1>s, <2>1
    <3> QED BY <1>t, <1>s, <2>2, <2>3, <2>4, <3>1 DEF CacheTypeOK, Bounded
  <2>7. AnswersOK'
    <3>1. \A o \in ReaderAnswer : \A q \in Product : o.product = q /\ o.observed <= ver[q] => o.observed <= ver'[q]
      BY <1>t, <2>2 DEF ReaderAnswer
    <3> QED BY <1>s, <2>3, <3>1, NoPageIsNone DEF AnswersOK, ReaderAnswer
  <2>8. RowsOK' /\ ScansOK' /\ SeenOK'
    BY <1>s, <2>3, <2>5 DEF RowsOK, ScansOK, SeenOK, ScanAt, InHand, FetchedSince
  <2>9. \A q \in Product : q # p /\ Absent(q) => Absent(q)' BY <2>1, <2>3 DEF Absent, InHand
  <2>10. GoneOK' BY <1>t, <1>s, <2>1, <2>3, <2>5, <2>9 DEF GoneOK, FetchedSince
  <2> QED BY <2>6, <2>7, <2>8, <2>10 DEF CacheInv
<1>16. CASE TakeListing \/ ReleaseListing
  <2>1. owned' \subseteq Product /\ locks' \in 0..MaxLock BY <1>16, <1>t DEF TakeListing, ReleaseListing
  <2>2. UNCHANGED <<ver, here, displayed, verified, rows, cache, scans, scanStep, started, hook, todo,
                    inHand, seen, left, gone, read, settled>>
    BY <1>16 DEF TakeListing, ReleaseListing, provVars, workspaceVars, scanVars
  <2>3. CacheTypeOK' BY <1>t, <1>s, <2>1, <2>2 DEF CacheTypeOK, Bounded
  <2> QED BY <1>t, <2>2, <2>3, OthersStep DEF ScanAt
<1>17. CASE VerifyWrite
  <2>1. PICK p \in owned \cap here : /\ ver[p] < MaxVer /\ ver' = [ver EXCEPT ![p] = @ + 1]
                                     /\ displayed' = [displayed EXCEPT ![p] = ver[p] + 1]
                                     /\ verified' = [verified EXCEPT ![p] = ver[p] + 1]
    BY <1>17 DEF VerifyWrite
  <2>2. ver' \in [Product -> 1..MaxVer] /\ \A q \in Product : ver[q] <= ver'[q] BY <1>t, <2>1
  <2>3. displayed' \in [Product -> 0..MaxVer] /\ verified' \in [Product -> 0..MaxVer] BY <1>t, <2>1
  <2>4. UNCHANGED <<here, rows, cache, owned, locks, scans, scanStep, started, hook, todo,
                    inHand, seen, left, gone, read, settled>>
    BY <1>17 DEF VerifyWrite, scanVars
  <2>5. Bounded' BY <1>t, <1>s, <2>2, <2>4 DEF Bounded
  <2>6. CacheTypeOK' BY <1>t, <1>s, <2>2, <2>3, <2>4, <2>5 DEF CacheTypeOK, Bounded
  <2> QED BY <1>t, <2>2, <2>4, <2>6, OthersStep DEF ScanAt
<1>18. CASE UNCHANGED cacheVars
  <2>1. UNCHANGED <<ver, here, displayed, verified, rows, cache, owned, locks, scans, scanStep, started, hook, todo,
                    inHand, seen, left, gone, read, settled>>
    BY <1>18 DEF cacheVars, provVars, workspaceVars, scanVars
  <2>2. CacheTypeOK' BY <1>t, <1>s, <2>1 DEF CacheTypeOK, Bounded
  <2> QED BY <1>t, <2>1, <2>2, OthersStep DEF ScanAt
<1> QED
  BY <1>1, <1>2, <1>3, <1>5, <1>6, <1>7, <1>8, <1>10, <1>11, <1>12, <1>13, <1>14, <1>15, <1>16, <1>17, <1>18
     DEF CacheNext

\* The empty cache satisfies the invariant.
LEMMA CacheStart == CacheInit => CacheInv
<1> SUFFICES ASSUME CacheInit PROVE CacheInv OBVIOUS
<1> USE ProductCacheAssumption
<1>1. Empty \in CacheRow /\ ~Empty.cached /\ ~Empty.exists /\ Empty.observed = 0 /\ Empty.fetched = 0
  BY DEF Empty, CacheRow
<1>2. \A p \in Product : cache[p] = Empty /\ ver[p] = 1 BY DEF CacheInit
<1>3. CacheTypeOK
  <2>1. cache \in [Product -> CacheRow] BY <1>1 DEF CacheInit
  <2>2. /\ todo \in [Scanner -> SUBSET Product] /\ seen \in [Scanner -> SUBSET Product]
        /\ left \in [Scanner -> SUBSET Product] /\ gone \in [Scanner -> SUBSET Product]
    BY DEF CacheInit
  <2>3. rows \in [Scanner -> [Product -> 0..MaxVer]] BY DEF CacheInit
  <2> QED BY <1>1, <1>2, <2>1, <2>2, <2>3 DEF CacheInit, CacheTypeOK
<1>4. AnswersOK BY DEF CacheInit, AnswersOK
<1>5. RowsOK BY <1>1, <1>2 DEF RowsOK
<1>6. ScansOK BY DEF CacheInit, ScansOK
<1>7. SeenOK BY DEF CacheInit, SeenOK, InHand
<1>8. GoneOK BY DEF CacheInit, GoneOK
<1> QED BY <1>3, <1>4, <1>5, <1>6, <1>7, <1>8 DEF CacheInv

\* Rows a scan has seen were fetched since it started, and rows of products that
\* were gone before it were not, in every reachable state.
THEOREM CacheInvariant == CacheSpec => []CacheInv
<1>1. CacheInv /\ [CacheNext]_cacheVars => CacheInv' BY CacheStep
<1> QED BY CacheStart, <1>1, PTL DEF CacheSpec

\* Type correctness of the product cache; no row tells more than the provider has said.
THEOREM CacheTypeIsOK == CacheSpec => []CacheTypeOK
<1>1. CacheInv => CacheTypeOK BY DEF CacheInv
<1> QED BY <1>1, CacheInvariant, PTL

\* A full scan that is through has marked every product that was gone when it
\* started, whichever reads and scans run beside it.
THEOREM SettledProductsAreGone == CacheSpec => []GoneIsMarked
<1>1. CacheInv => GoneIsMarked BY DEF CacheInv, GoneOK, GoneIsMarked
<1> QED BY <1>1, CacheInvariant, PTL

\* No write of the cache goes back to an older observation, but that of a targeted
\* read, and none replaces what an Apply that owns the Listing shows.
LEMMA NewestStep ==
    ASSUME CacheInv, CacheNext, NEW p \in Product
    PROVE  /\ read' = read => cache'[p].observed >= cache[p].observed
           /\ p \in owned => /\ cache'[p].observed = cache[p].observed
                             /\ displayed'[p] = displayed[p] \/ displayed'[p] = verified'[p]
<1> USE ProductCacheAssumption
<1>t. /\ cache \in [Product -> CacheRow] /\ cache[p] \in CacheRow /\ cache[p].observed \in 0..MaxVer
      /\ read \in [Reader -> ReaderAnswer \cup {NoPage}] /\ RowsOK
      /\ displayed \in [Product -> 0..MaxVer] /\ verified \in [Product -> 0..MaxVer]
  BY DEF CacheInv, CacheTypeOK, AnswersOK, CacheRow
<1>u. UNCHANGED cache => cache'[p].observed >= cache[p].observed /\ cache'[p].observed = cache[p].observed
  BY <1>t
<1>1. ASSUME NEW s \in Scanner, StartScan(s) \/ ReadPage(s) \/ AbortScan(s) \/ ReadRows(s)
      PROVE  UNCHANGED cache /\ UNCHANGED displayed
  BY <1>1 DEF StartScan, ReadPage, AbortScan, ReadRows, workspaceVars
<1>2. ASSUME NEW r \in Reader, ReadEntity(r) \/ RejectEntity(r) PROVE UNCHANGED cache /\ UNCHANGED displayed
  BY <1>2 DEF ReadEntity, RejectEntity, workspaceVars
<1>3. ASSUME Change \/ Delete \/ Restore \/ TakeListing \/ ReleaseListing
      PROVE  UNCHANGED cache /\ UNCHANGED displayed
  BY <1>3 DEF Change, Delete, Restore, TakeListing, ReleaseListing, workspaceVars
<1>4. ASSUME VerifyWrite PROVE UNCHANGED cache /\ (displayed'[p] = displayed[p] \/ displayed'[p] = verified'[p])
  BY <1>4, <1>t DEF VerifyWrite
<1>5. ASSUME NEW s \in Scanner, StorePage(s)
      PROVE  /\ cache'[p].observed >= cache[p].observed /\ UNCHANGED displayed
             /\ p \in owned => cache'[p].observed = cache[p].observed
  <2> DEFINE o == inHand[s]
  <2>1. o \in ReaderAnswer BY <1>5 DEF StorePage, CacheInv, AnswersOK
  <2>2. /\ cache' = IF o.product \notin owned /\ Passes(cache[o.product], o)
                    THEN [cache EXCEPT ![o.product] = Fetched(o)] ELSE cache
        /\ UNCHANGED displayed
    BY <1>5 DEF StorePage, workspaceVars
  <2> HIDE DEF o
  <2>3. CASE cache' = cache BY <1>u, <2>2, <2>3
  <2>4. CASE cache' # cache /\ o.product # p BY <1>t, <2>2, <2>4
  <2>5. CASE cache' # cache /\ o.product = p
    <3>1. p \notin owned /\ Passes(cache[p], o) /\ cache'[p] = Fetched(o) BY <1>t, <2>2, <2>5
    <3>2. cache'[p].observed = o.observed /\ o.observed \in 0..MaxVer BY <2>1, <3>1 DEF Fetched, ReaderAnswer
    <3>3. o.observed >= cache[p].observed BY <1>t, <3>1, <3>2 DEF Passes, RowsOK
    <3> QED BY <2>2, <3>1, <3>2, <3>3
  <2> QED BY <2>3, <2>4, <2>5
<1>6. ASSUME NEW s \in Scanner, Sweep(s)
      PROVE  UNCHANGED displayed /\ cache'[p].observed = cache[p].observed
  <2>1. UNCHANGED displayed
        /\ cache'[p] = IF Swept(s, p) THEN [cache[p] EXCEPT !.exists = FALSE] ELSE cache[p]
    BY <1>6 DEF Sweep, workspaceVars
  <2>2. \A row \in CacheRow : [row EXCEPT !.exists = FALSE].observed = row.observed BY DEF CacheRow
  <2> QED BY <1>t, <2>1, <2>2
<1>7. ASSUME NEW s \in Scanner, StoreRows(s) PROVE UNCHANGED cache /\ (p \in owned => displayed'[p] = displayed[p])
  BY <1>7 DEF StoreRows, RowsFree
<1>8. ASSUME NEW r \in Reader, StoreEntity(r)
      PROVE  /\ read' # read /\ UNCHANGED displayed
             /\ p \in owned => cache'[p].observed = cache[p].observed
  <2>1. read[r] # NoPage /\ read' = [read EXCEPT ![r] = NoPage] /\ read[r].product \notin owned /\ UNCHANGED displayed
    BY <1>8 DEF StoreEntity, ListingFree, workspaceVars
  <2>2. p \in owned => cache'[p] = cache[p] BY <1>8, <1>t, <2>1 DEF StoreEntity
  <2> QED BY <1>t, <2>1, <2>2
<1> QED
  BY <1>t, <1>u, <1>1, <1>2, <1>3, <1>4, <1>5, <1>6, <1>7, <1>8 DEF CacheNext

\* "Newest external observation wins", for the pages of any number of scans.
THEOREM NewestObservationIsKept == CacheSpec => NewestIsKept
<1>1. CacheInv /\ [CacheNext]_cacheVars =>
        [\A p \in Product :
            /\ read' = read => cache'[p].observed >= cache[p].observed
            /\ p \in owned => /\ cache'[p].observed = cache[p].observed
                              /\ displayed'[p] = displayed[p] \/ displayed'[p] = verified'[p]]_cacheVars
  BY NewestStep
<1> QED BY <1>1, CacheInvariant, PTL DEF CacheSpec, NewestIsKept

\* What a sweep marks as gone its scan has not seen, or has left out.
LEMMA SweepStep ==
    ASSUME CacheInv, CacheNext, NEW s \in Scanner, NEW p \in Product, SweepsSeen(s, p)
    PROVE  p \in left[s]
<1> USE ProductCacheAssumption
<1>t. /\ scanStep \in [Scanner -> {"idle", "page", "copy", "store"}] /\ scanStep[s] = "page"
      /\ started \in [Scanner -> 0..MaxScan] /\ cache[p] \in CacheRow /\ cache[p].fetched \in 0..MaxScan
      /\ scanStep'[s] # "page" /\ p \in seen[s] /\ cache[p].exists /\ ~cache'[p].exists
      /\ cache' # cache
  BY DEF CacheInv, CacheTypeOK, SweepsSeen, ScanAt, CacheRow
<1>1. Sweep(s)
  <2>1. ASSUME NEW t \in Scanner, Sweep(t) PROVE t = s
    <3>1. \A u \in Scanner \ {t} : scanStep'[u] = scanStep[u] BY <2>1, <1>t DEF Sweep, EndScan, ScanGoto
    <3> QED BY <1>t, <3>1
  <2>2. ASSUME NEW t \in Scanner, StorePage(t) PROVE FALSE BY <1>t, <2>2 DEF StorePage
  <2>3. ASSUME NEW r \in Reader, StoreEntity(r) PROVE FALSE BY <1>t, <2>3 DEF StoreEntity
  <2> QED
    BY <1>t, <2>1, <2>2, <2>3
       DEF CacheNext, StartScan, ReadPage, AbortScan, ReadRows, StoreRows, ReadEntity, RejectEntity, Change, Delete,
           Restore, TakeListing, VerifyWrite, ReleaseListing, workspaceVars
<1>2. cache'[p] = IF Swept(s, p) THEN [cache[p] EXCEPT !.exists = FALSE] ELSE cache[p] BY <1>1 DEF Sweep
<1>3. cache[p].cached /\ cache[p].fetched < started[s] BY <1>t, <1>2 DEF Swept, Unseen
<1>4. ~FetchedSince(s, p) BY <1>t, <1>3 DEF FetchedSince
<1>5. inHand[s] = NoPage BY <1>1 DEF Sweep
<1> QED BY <1>t, <1>3, <1>4, <1>5 DEF CacheInv, SeenOK, InHand, ScanAt

\* A product that a scan has stored, or that was read meanwhile, is not swept by it.
THEOREM StoredProductsAreKept == CacheSpec => StoredIsKept
<1>1. CacheInv /\ [CacheNext]_cacheVars =>
        [\A s \in Scanner, p \in Product : SweepsSeen(s, p) => p \in left[s]]_cacheVars
  BY SweepStep
<1> QED BY <1>1, CacheInvariant, PTL DEF CacheSpec, StoredIsKept

-----------------------------------------------------------------------------
(* WorkspaceDraft *)

EditRecord == [at : {"idle", "merge", "insert", "commit"},
               answer : {"none", "saved", "nothing to save", "conflict", "error"},
               seen : 0..MaxDraft, version : 0..MaxDraft,
               how : {"none", "merge", "replace", "restore"}, asked : CellChanges,
               row : DraftRevision \cup {NoDraftRow}]

\* A row that was made from the version its editor had seen, and of the changes of
\* the revision that has that version.
MadeFrom(row, version) ==
    /\ row \in DraftRevision
    /\ row.number = version + 1 /\ row.parent = version /\ row.seen = version
    /\ row.how = "merge" =>
          \A c \in Cell : row.asked[c] = NoChange => row.changes[c] = CurrentChanges(version)[c]

\* A request was made from the version it has seen; the row that is committed next
\* was made from the current one.
EditsOK ==
    /\ edit \in [Editor -> EditRecord]
    /\ \A e \in Editor :
          /\ edit[e].at # "idle" => /\ edit[e].seen = edit[e].version /\ edit[e].version <= draft.version
                                    /\ edit[e].version < MaxDraft
          /\ edit[e].at = "merge" => edit[e].how \in {"merge", "replace"}
          /\ edit[e].at \in {"insert", "commit"} => MadeFrom(edit[e].row, edit[e].version)
          /\ edit[e].at = "commit" => edit[e].version = draft.version
    /\ \A e, f \in Editor : edit[e].at = "commit" /\ edit[f].at = "commit" => e = f

DraftTyped ==
    /\ draft \in [version : 0..MaxDraft, current : 0..MaxDraft]
    /\ draftRevisions \subseteq DraftRevision
    /\ cached \in [Cell -> Target] /\ cacheWrites \in 0..MaxCacheWrites

DraftInv == DraftTyped /\ EditsOK /\ NoEditIsLost

\* The inductive invariant of the Draft implies its type invariant.
LEMMA DraftTyping ==
    ASSUME DraftInv
    PROVE  DraftTypeOK
BY DEF DraftInv, DraftTyped, EditsOK, DraftTypeOK, EditRecord

\* Whatever the number, the changes of the revision that has it are changes of cells.
LEMMA ChangesTyping ==
    ASSUME DraftInv
    PROVE  /\ NoCells \in CellChanges
           /\ \A n : CurrentChanges(n) \in CellChanges
<1>1. NoCells \in CellChanges BY DEF NoCells, CellChanges
<1>2. ASSUME NEW n PROVE CurrentChanges(n) \in CellChanges
  <2>1. CASE Revisions(n) = {} BY <1>1, <2>1 DEF CurrentChanges
  <2>2. CASE Revisions(n) # {}
    <3>1. (CHOOSE r \in Revisions(n) : TRUE) \in Revisions(n) BY <2>2
    <3>2. Revisions(n) \subseteq DraftRevision BY DEF DraftInv, DraftTyped, Revisions
    <3>3. (CHOOSE r \in Revisions(n) : TRUE).changes \in CellChanges BY <3>1, <3>2 DEF DraftRevision
    <3> QED BY <2>2, <3>3 DEF CurrentChanges
  <2> QED BY <2>1, <2>2
<1> QED BY <1>1, <1>2

\* Records of requests.
LEMMA EditTyping ==
    ASSUME NoCells \in CellChanges
    PROVE  Unasked \in EditRecord /\ Unasked.at = "idle"
<1> USE WorkspaceDraftAssumption
<1> QED BY DEF Unasked, EditRecord

\* A request that has been answered is idle again (the returns of save_draft).
LEMMA AnswerTyping ==
    ASSUME NoCells \in CellChanges, NEW code \in {"none", "saved", "nothing to save", "conflict", "error"},
           NEW known \in 0..MaxDraft, NEW version \in 0..MaxDraft
    PROVE  /\ [Unasked EXCEPT !.answer = code, !.seen = known, !.version = version] \in EditRecord
           /\ [Unasked EXCEPT !.answer = code, !.seen = known, !.version = version].at = "idle"
BY EditTyping DEF EditRecord

\* One request goes on while the Draft stays.
LEMMA EditStep ==
    ASSUME DraftInv, NEW e \in Editor, NEW x \in EditRecord, edit' = [edit EXCEPT ![e] = x],
           UNCHANGED <<draft, draftRevisions>>, cached' \in [Cell -> Target],
           cacheWrites' \in 0..MaxCacheWrites,
           x.at # "idle" => x.seen = x.version /\ x.version <= draft.version /\ x.version < MaxDraft,
           x.at = "merge" => x.how \in {"merge", "replace"},
           x.at \in {"insert", "commit"} => MadeFrom(x.row, x.version),
           x.at = "commit" => /\ x.version = draft.version
                              /\ \A f \in Editor \ {e} : edit[f].at # "commit"
    PROVE  DraftInv'
<1>1. edit'[e] = x /\ \A f \in Editor : f # e => edit'[f] = edit[f]
  BY DEF DraftInv, EditsOK
<1>2. \A row, version : MadeFrom(row, version)' <=> MadeFrom(row, version)
  BY DEF MadeFrom, CurrentChanges, Revisions
<1>3. edit' \in [Editor -> EditRecord] BY DEF DraftInv, EditsOK
<1>4. EditsOK'
  <2>1. ASSUME NEW f \in Editor, NEW y, y = edit'[f]
        PROVE  /\ y.at # "idle" => /\ y.seen = y.version /\ y.version <= draft.version
                                   /\ y.version < MaxDraft
               /\ y.at = "merge" => y.how \in {"merge", "replace"}
               /\ y.at \in {"insert", "commit"} => MadeFrom(y.row, y.version)'
               /\ y.at = "commit" => y.version = draft.version
    <3>1. CASE f = e BY <1>1, <1>2, <2>1, <3>1
    <3>2. CASE f # e BY <1>1, <1>2, <2>1, <3>2 DEF DraftInv, EditsOK
    <3> QED BY <3>1, <3>2
  <2>2. \A f, g \in Editor : edit'[f].at = "commit" /\ edit'[g].at = "commit" => f = g
    BY <1>1 DEF DraftInv, EditsOK
  <2> QED BY <1>3, <2>1, <2>2 DEF EditsOK, MadeFrom, CurrentChanges, Revisions
<1>5. DraftTyped' BY DEF DraftInv, DraftTyped
<1>6. NoEditIsLost' BY DEF DraftInv, NoEditIsLost, CurrentChanges, Revisions
<1> QED BY <1>4, <1>5, <1>6 DEF DraftInv

\* Every step of save_draft and restore, and of those who change ChannelCache
\* values, keeps the Draft's invariant.
LEMMA DraftStep ==
    ASSUME DraftInv, [DraftNext]_draftVars
    PROVE  DraftInv'
<1> USE WorkspaceDraftAssumption
<1>t. /\ DraftTyped /\ NoEditIsLost /\ edit \in [Editor -> EditRecord]
      /\ draft.version \in 0..MaxDraft /\ draft.current \in 0..MaxDraft
      /\ \A e \in Editor : /\ edit[e].seen \in 0..MaxDraft /\ edit[e].version \in 0..MaxDraft
                           /\ edit[e].asked \in CellChanges
      /\ NoCells \in CellChanges /\ \A n : CurrentChanges(n) \in CellChanges
      /\ cached \in [Cell -> Target] /\ cacheWrites \in 0..MaxCacheWrites
  BY ChangesTyping DEF DraftInv, DraftTyped, EditsOK, EditRecord
<1>q. ASSUME NEW e \in Editor, NEW code \in {"none", "saved", "nothing to save", "conflict", "error"},
             NEW known \in 0..MaxDraft, NEW version \in 0..MaxDraft,
             edit' = [edit EXCEPT ![e] = [Unasked EXCEPT !.answer = code, !.seen = known, !.version = version]],
             UNCHANGED <<draft, draftRevisions, cached, cacheWrites>>
      PROVE  DraftInv'
  <2> DEFINE x == [Unasked EXCEPT !.answer = code, !.seen = known, !.version = version]
  <2>0. NoCells \in CellChanges BY <1>t
  <2>1. x \in EditRecord /\ x.at = "idle"
    <3> HIDE DEF x
    <3> QED BY ZenonT(60), <2>0, AnswerTyping DEF x
  <2>2. edit' = [edit EXCEPT ![e] = x] BY <1>q
  <2> HIDE DEF x
  <2> QED BY <1>t, <1>q, <2>1, <2>2, EditStep
<1>1. ASSUME NEW e \in Editor, NEW known \in 0..draft.version, NEW how \in {"merge", "replace"},
             NEW asked \in CellChanges, OpenSave(e, known, how, asked)
      PROVE  DraftInv'
  <2>1. UNCHANGED <<draft, draftRevisions, cached, cacheWrites>> /\ draft.version < MaxDraft
        /\ known \in 0..MaxDraft
    BY <1>1, <1>t DEF OpenSave
  <2>2. CASE RefuseObsolete(e, known) BY <1>t, <1>q, <2>1, <2>2 DEF RefuseObsolete
  <2>3. CASE ~Obsolete(known) /\ Ask(e, known, how, asked, "merge", NoDraftRow)
    <3> DEFINE x == [at |-> "merge", answer |-> "none", seen |-> known, version |-> draft.version, how |-> how,
                     asked |-> asked, row |-> NoDraftRow]
    <3>1. x \in EditRecord BY <1>t, <2>1 DEF EditRecord
    <3>2. /\ x.at = "merge" /\ x.seen = x.version /\ x.version = draft.version /\ x.how = how
      BY <2>3 DEF Obsolete
    <3>3. edit' = [edit EXCEPT ![e] = x] BY <2>3 DEF Ask
    <3> HIDE DEF x
    <3>4. x.version <= draft.version /\ x.version < MaxDraft BY <1>t, <2>1, <3>2
    <3> QED BY <1>t, <2>1, <3>1, <3>2, <3>3, <3>4, EditStep
  <2> QED BY <1>1, <2>2, <2>3 DEF OpenSave
<1>2. ASSUME NEW e \in Editor, Merge(e) PROVE DraftInv'
  <2>1. /\ UNCHANGED <<draft, draftRevisions, cached, cacheWrites>> /\ edit[e].at = "merge"
        /\ edit[e].seen = edit[e].version /\ edit[e].version <= draft.version /\ edit[e].version < MaxDraft
        /\ edit[e].how \in {"merge", "replace"}
    BY <1>2 DEF Merge, EditAt, DraftInv, EditsOK
  <2>2. CASE Answer(e, "nothing to save", edit[e].version)
    BY <1>t, <1>q, <2>1, <2>2 DEF Answer
  <2> DEFINE row == [number |-> edit[e].version + 1, parent |-> edit[e].version,
                     seen |-> edit[e].seen, changes |-> Merged(e), asked |-> edit[e].asked, how |-> edit[e].how,
                     checksum |-> SavedAs(Merged(e))]
  <2>3. CASE edit' = [edit EXCEPT ![e].at = "insert", ![e].row = row]
    <3>1. Merged(e) \in CellChanges
      <4>1. \A c \in Cell : edit[e].asked[c] \in Target \cup {NoChange} BY <1>t DEF CellChanges
      <4>2. \A n, c : c \in Cell => /\ CurrentChanges(n)[c] \in Target \cup {NoChange}
                                    /\ NoCells[c] \in Target \cup {NoChange}
        BY <1>t DEF CellChanges
      <4> QED BY <4>1, <4>2 DEF Merged, CellChanges
    <3>2. SavedAs(Merged(e)) \in Checksum BY <3>1 DEF SavedAs, Checksum
    <3>3. row \in DraftRevision BY <1>t, <2>1, <3>1, <3>2 DEF DraftRevision
    <3>4. edit[e].how = "merge" =>
             \A c \in Cell : edit[e].asked[c] = NoChange => Merged(e)[c] = CurrentChanges(edit[e].version)[c]
      BY <1>t DEF Merged, NoChange
    <3>5. MadeFrom(row, edit[e].version) BY <2>1, <3>3, <3>4 DEF MadeFrom
    <3> HIDE DEF row
    <3> DEFINE x == [edit[e] EXCEPT !.at = "insert", !.row = row]
    <3>6. edit' = [edit EXCEPT ![e] = x] BY <1>t, <2>3
    <3>7. /\ x \in EditRecord /\ x.at = "insert" /\ x.seen = edit[e].seen /\ x.version = edit[e].version
          /\ x.row = row
      BY ZenonT(60), <1>t, <3>5 DEF EditRecord, MadeFrom
    <3> HIDE DEF x
    <3> QED BY <1>t, <2>1, <3>5, <3>6, <3>7, EditStep
  <2> QED BY <1>2, <2>2, <2>3 DEF Merge
<1>3. ASSUME NEW e \in Editor, NEW known \in 0..draft.version, NEW restored \in draftRevisions,
             OpenRestore(e, known, restored)
      PROVE  DraftInv'
  <2>1. UNCHANGED <<draft, draftRevisions, cached, cacheWrites>> /\ draft.version < MaxDraft
        /\ known \in 0..MaxDraft
    BY <1>3, <1>t DEF OpenRestore
  <2>2. CASE RefuseObsolete(e, known) BY <1>t, <1>q, <2>1, <2>2 DEF RefuseObsolete
  <2> DEFINE row == [number |-> draft.version + 1, parent |-> draft.version, seen |-> known,
                     changes |-> restored.changes, asked |-> NoCells, how |-> "restore",
                     checksum |-> [of |-> NoCells, restored |-> restored.number, number |-> draft.version + 1]]
  <2>3. CASE ~Obsolete(known) /\ Ask(e, known, "restore", NoCells, "insert", row)
    <3>1. restored.changes \in CellChanges /\ restored.number \in 1..MaxDraft
      BY <1>t DEF DraftTyped, DraftRevision
    <3>2. row.checksum \in Checksum BY <1>t, <2>1, <3>1 DEF Checksum
    <3>3. row \in DraftRevision BY <1>t, <2>1, <3>1, <3>2 DEF DraftRevision
    <3>4. MadeFrom(row, draft.version) BY <2>3, <3>3 DEF MadeFrom, Obsolete
    <3> HIDE DEF row
    <3> DEFINE x == [at |-> "insert", answer |-> "none", seen |-> known, version |-> draft.version,
                     how |-> "restore", asked |-> NoCells, row |-> row]
    <3>5. x \in EditRecord BY <1>t, <2>1, <3>4 DEF EditRecord, MadeFrom
    <3>6. x.at = "insert" /\ x.seen = x.version /\ x.version = draft.version /\ x.row = row
      BY <2>3 DEF Obsolete
    <3>7. edit' = [edit EXCEPT ![e] = x] BY <2>3 DEF Ask
    <3> HIDE DEF x
    <3>8. x.version <= draft.version /\ x.version < MaxDraft BY <1>t, <2>1, <3>6
    <3> QED BY <1>t, <2>1, <3>4, <3>5, <3>6, <3>7, <3>8, EditStep
  <2> QED BY <1>3, <2>2, <2>3 DEF OpenRestore
<1>4. ASSUME NEW e \in Editor, InsertRevision(e) PROVE DraftInv'
  <2>1. /\ UNCHANGED <<draft, draftRevisions, cached, cacheWrites>> /\ edit[e].at = "insert"
        /\ edit[e].seen = edit[e].version /\ edit[e].version <= draft.version /\ edit[e].version < MaxDraft
        /\ MadeFrom(edit[e].row, edit[e].version)
    BY <1>4 DEF InsertRevision, EditAt, DraftInv, EditsOK
  <2>2. ASSUME NEW code \in {"error", "conflict"}, Answer(e, code, draft.version) PROVE DraftInv'
    BY <1>t, <1>q, <2>1, <2>2 DEF Answer
  <2>3. CASE /\ edit' = [edit EXCEPT ![e].at = "commit"]
             /\ ~\E r \in draftRevisions : Duplicates(edit[e].row, r)
    <3> DEFINE x == [edit[e] EXCEPT !.at = "commit"]
    <3>1. edit' = [edit EXCEPT ![e] = x] BY <1>t, <2>3
    <3>2. /\ x \in EditRecord /\ x.at = "commit" /\ x.seen = edit[e].seen /\ x.version = edit[e].version
          /\ x.row = edit[e].row
      BY <1>t DEF EditRecord
    <3>3. edit[e].version = draft.version
      <4> SUFFICES ASSUME edit[e].version < draft.version PROVE FALSE BY <1>t, <2>1
      <4>1. edit[e].version + 1 \in 1..draft.version BY <1>t
      <4>2. \E r \in draftRevisions : r.number = edit[e].row.number
        BY <1>t, <2>1, <4>1 DEF NoEditIsLost, MadeFrom
      <4> QED BY <2>3, <4>2 DEF Duplicates
    <3>4. \A f \in Editor \ {e} : edit[f].at # "commit"
      <4> SUFFICES ASSUME NEW f \in Editor \ {e}, edit[f].at = "commit" PROVE FALSE OBVIOUS
      <4>1. edit[f].row.number = edit[e].row.number
        BY <2>1, <3>3 DEF DraftInv, EditsOK, MadeFrom
      <4> QED BY <1>4, <4>1 DEF InsertRevision, EditAt, Duplicates
    <3> HIDE DEF x
    <3> QED BY <1>t, <2>1, <3>1, <3>2, <3>3, <3>4, EditStep
  <2> QED BY <1>4, <2>2, <2>3 DEF InsertRevision
<1>5. ASSUME NEW e \in Editor, CommitRevision(e) PROVE DraftInv'
  <2> DEFINE row == edit[e].row
  <2> DEFINE v == draft.version
  <2>1. /\ edit[e].at = "commit" /\ edit[e].version = v /\ v < MaxDraft /\ MadeFrom(row, v)
        /\ draftRevisions' = draftRevisions \cup {row}
        /\ draft' = [version |-> v + 1, current |-> row.number]
        /\ Answer(e, "saved", v + 1) /\ UNCHANGED <<cached, cacheWrites>>
    BY <1>5 DEF CommitRevision, EditAt, DraftInv, EditsOK
  <2>2. v \in Nat /\ v + 1 \in 0..MaxDraft /\ row.number = v + 1 BY <1>t, <2>1 DEF MadeFrom
  <2>3. draft'.version = v + 1 /\ draft'.current = v + 1 BY <2>1, <2>2
  <2> DEFINE x == [Unasked EXCEPT !.answer = "saved", !.seen = edit[e].seen, !.version = v + 1]
  <2>4. x \in EditRecord /\ x.at = "idle"
    <3>1. edit[e].seen \in 0..MaxDraft BY <1>t
    <3> QED BY <1>t, <2>2, <3>1, AnswerTyping
  <2>5. edit' = [edit EXCEPT ![e] = x] BY <2>1 DEF Answer
  <2> HIDE DEF x
  <2>6. /\ edit' \in [Editor -> EditRecord] /\ edit'[e].at = "idle"
        /\ \A f \in Editor : f # e => edit'[f] = edit[f] /\ edit[f].at # "commit"
    BY <1>t, <2>1, <2>4, <2>5 DEF DraftInv, EditsOK
  <2>7. \A r \in draftRevisions : r.number \in 1..v BY <1>t DEF NoEditIsLost
  <2>8. \A n \in 0..v : Revisions(n)' = Revisions(n) BY <2>1, <2>2 DEF Revisions
  <2>9. ASSUME NEW n \in 0..v PROVE CurrentChanges(n)' = CurrentChanges(n)
    <3>1. CASE Revisions(n) = {} BY <2>8, <3>1 DEF CurrentChanges
    <3>2. CASE Revisions(n) # {}
      <4>1. PICK r : r \in Revisions(n) BY <3>2
      <4>2. \A q \in Revisions(n) : q = r BY <1>t, <4>1 DEF Revisions, NoEditIsLost
      <4>3. Revisions(n) = {r} /\ Revisions(n)' = {r} BY <2>8, <4>1, <4>2
      <4>4. CurrentChanges(n) = r.changes BY <4>3 DEF CurrentChanges
      <4>5. CurrentChanges(n)' = r.changes BY <4>3 DEF CurrentChanges
      <4> QED BY <4>4, <4>5
    <3> QED BY <3>1, <3>2
  <2>10. DraftTyped' BY <1>t, <2>1, <2>2 DEF DraftTyped, MadeFrom
  <2>11. EditsOK'
    <3>1. ASSUME NEW f \in Editor, edit'[f].at # "idle", NEW y, y = edit'[f]
          PROVE  /\ y.seen = y.version /\ y.version <= v + 1 /\ y.version < MaxDraft
                 /\ y.at = "merge" => y.how \in {"merge", "replace"}
                 /\ y.at = "insert" => MadeFrom(y.row, y.version)'
                 /\ y.at # "commit"
      <4>1. f # e /\ y = edit[f] /\ y.at # "commit" BY <2>6, <3>1
      <4>2. /\ y.seen = y.version /\ y.version <= v /\ y.version < MaxDraft
            /\ y.at = "merge" => y.how \in {"merge", "replace"}
            /\ y.at = "insert" => MadeFrom(y.row, y.version)
        BY <3>1, <4>1 DEF DraftInv, EditsOK
      <4>3. y.version \in 0..v BY <1>t, <4>1, <4>2
      <4>4. MadeFrom(y.row, y.version) => MadeFrom(y.row, y.version)' BY <2>9, <4>3 DEF MadeFrom
      <4> QED BY <2>2, <4>1, <4>2, <4>3, <4>4
    <3> QED BY <2>3, <2>6, <3>1 DEF EditsOK, MadeFrom, CurrentChanges, Revisions
  <2>12. NoEditIsLost'
    <3>1. {r.number : r \in draftRevisions'} = 1..v + 1
      <4>1. {r.number : r \in draftRevisions} = 1..v BY <1>t DEF NoEditIsLost
      <4>2. draftRevisions' = draftRevisions \cup {row} /\ row.number = v + 1 BY <2>1, <2>2
      <4> HIDE DEF row
      <4>3. {r.number : r \in draftRevisions'} = {r.number : r \in draftRevisions} \cup {v + 1} BY ONLY <4>2
      <4>4. v \in Nat BY <2>2
      <4> QED BY ONLY <4>1, <4>3, <4>4
    <3>2. \A r, s \in draftRevisions' : r.number = s.number => r = s
      BY <1>t, <2>1, <2>2, <2>7 DEF NoEditIsLost
    <3>3. ASSUME NEW r \in draftRevisions'
          PROVE  /\ r.parent = r.number - 1 /\ r.seen = r.parent
                 /\ r.how = "merge" =>
                       \A c \in Cell : r.asked[c] = NoChange => r.changes[c] = CurrentChanges(r.parent)'[c]
      <4>1. CASE r = row BY <2>1, <2>2, <2>9, <4>1 DEF MadeFrom
      <4>2. CASE r \in draftRevisions
        <5>1. /\ r.parent = r.number - 1 /\ r.seen = r.parent
              /\ r.how = "merge" =>
                    \A c \in Cell : r.asked[c] = NoChange => r.changes[c] = CurrentChanges(r.parent)[c]
          BY <1>t, <4>2 DEF NoEditIsLost
        <5>2. r.parent \in 0..v BY <2>2, <2>7, <4>2, <5>1
        <5> QED BY <2>9, <5>1, <5>2
      <4> QED BY <2>1, <4>1, <4>2
    <3> QED BY <2>3, <3>1, <3>2, <3>3 DEF NoEditIsLost, CurrentChanges, Revisions
  <2> QED BY <2>10, <2>11, <2>12 DEF DraftInv
<1>6. ASSUME NEW e \in Editor, LoseEdit(e) PROVE DraftInv'
  <2>1. Unasked \in EditRecord /\ Unasked.at = "idle" BY <1>t, EditTyping
  <2> QED BY <1>6, <1>t, <2>1, EditStep DEF LoseEdit
<1>7. ASSUME NEW c \in Cell, WriteCache(c) PROVE DraftInv'
  <2>1. /\ UNCHANGED <<draft, draftRevisions, edit>> /\ cached' \in [Cell -> Target]
        /\ cacheWrites' \in 0..MaxCacheWrites
    BY <1>7, <1>t DEF WriteCache
  <2> QED BY <2>1 DEF DraftInv, DraftTyped, EditsOK, MadeFrom, NoEditIsLost, CurrentChanges, Revisions
<1>8. CASE UNCHANGED draftVars
  BY <1>8 DEF draftVars, DraftInv, DraftTyped, EditsOK, MadeFrom, NoEditIsLost, CurrentChanges, Revisions
<1> QED BY <1>1, <1>2, <1>3, <1>4, <1>5, <1>6, <1>7, <1>8 DEF DraftNext

\* A Draft without revisions satisfies the invariant.
LEMMA DraftStart == DraftInit => DraftInv
<1> SUFFICES ASSUME DraftInit PROVE DraftInv OBVIOUS
<1> USE WorkspaceDraftAssumption
<1>1. NoCells \in CellChanges BY DEF NoCells, CellChanges
<1>2. draft.version = 0 /\ draft.current = 0 /\ draftRevisions = {} BY DEF DraftInit
<1>3. DraftTyped BY DEF DraftInit, DraftTyped
<1>4. edit \in [Editor -> EditRecord] /\ \A e \in Editor : edit[e].at = "idle"
  BY <1>1, EditTyping DEF DraftInit
<1>5. NoEditIsLost BY <1>2 DEF NoEditIsLost
<1> QED BY <1>3, <1>4, <1>5 DEF DraftInv, EditsOK

\* Edits are made from the version their editors have seen, in every reachable state.
THEOREM DraftInvariant == DraftSpec => []DraftInv
<1>1. DraftInv /\ [DraftNext]_draftVars => DraftInv' BY DraftStep
<1> QED BY DraftStart, <1>1, PTL DEF DraftSpec

\* Type correctness of the Draft, its revisions and the requests on it.
THEOREM DraftTypeIsOK == DraftSpec => []DraftTypeOK
BY DraftInvariant, DraftTyping, PTL

\* No edit is lost by the optimistic saves of save_draft, however many requests
\* compare, insert and commit at the same time.
THEOREM NoEditGetsLost == DraftSpec => []NoEditIsLost
<1>1. DraftInv => NoEditIsLost BY DEF DraftInv
<1> QED BY <1>1, DraftInvariant, PTL

-----------------------------------------------------------------------------
(* The services side by side *)

\* Every row of every service keeps its type, whichever service is at work and whatever
\* its requests have read before: each service's own invariant is preserved by its own
\* steps, and by those of the others, which leave its tables alone.
THEOREM ServicesTypesAreOK == ServicesSpec => []ServicesTypeOK
<1> DEFINE Inv == /\ AcquisitionInv /\ LifecycleInv /\ PricingTypeOK /\ CacheInv
                  /\ DraftInv /\ RatesTypeOK /\ TypeOK
<1>1. ServicesInit => Inv
  BY AcquisitionStart, LifecycleStart, InitLog, CacheStart, DraftStart, RatesInitially,
     TypeInit DEF ServicesInit, LogInv, RatesInv
<1>2. Inv /\ [ServicesNext]_servicesVars => Inv'
  <2> SUFFICES ASSUME Inv, [ServicesNext]_servicesVars PROVE Inv'
    OBVIOUS
  <2>1. /\ [AcquisitionNext]_acquisitionVars /\ [LifecycleNext]_lifecycleVars
        /\ [PricingNext]_pricingVars /\ [CacheNext]_cacheVars
        /\ [DraftNext]_draftVars /\ [RatesNext]_ratesVars /\ [Next]_vars
    BY DEF ServicesNext, servicesVars
  <2>2. QED
    BY <2>1, AcquisitionStep, LifecycleStep, StepType, CacheStep, DraftStep, RatesTypeStep,
       TypeStep
<1>3. Inv => ServicesTypeOK
  BY DraftTyping DEF AcquisitionInv, LifecycleInv, CacheInv, ServicesTypeOK
<1>4. QED
  BY <1>1, <1>2, <1>3, PTL DEF ServicesSpec
=============================================================================
