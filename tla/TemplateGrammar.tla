------------------------------ MODULE TemplateGrammar ------------------------------
(***************************************************************************)
(* What validation promises the scheduler: a walk over any template that      *)
(* validate_template accepts, taking at each node any outcome the node's      *)
(* kind may produce and the edge _select_edge then picks.  The proofs show     *)
(* that validation is enough for the scheduler, for every set of templates:    *)
(* in the executor's grammar no outcome is left without an edge, and no retry  *)
(* edge is followed past its limit.                                         *)
(***************************************************************************)
EXTENDS WorkflowTemplates, FiniteSetTheorems, TLAPS

CONSTANT Universe   \* the templates submitted to validation

\* What the contract types give before validation.
IsTemplate(t) ==
    /\ t.kind \in [t.nodes -> NodeKinds]
    /\ \A e \in t.edges : e.kind \in EdgeKinds /\ e.guard \in Guards \cup {NoGuard}
    /\ {t.maxNodeRetries, t.maxReplans} \subseteq Nat

VARIABLES template, node, via

vars == <<template, node, via>>

Init ==
    /\ template \in {t \in Universe : IsTemplate(t) /\ ValidTemplate(t)}
    /\ node = Entry(template)
    /\ via = [k \in {e.key : e \in template.edges} |-> 0]

\* Only RETRY edges are limited, so the other counts stay at zero.
Follow ==
    /\ \E outcome \in KindOutcomes[template.kind[node]] :
         \E e \in SelectEdge(template, node, outcome, via) :
           /\ node' = Owner(template, e.target)
           /\ via' = IF e.kind = "RETRY" THEN [via EXCEPT ![e.key] = @ + 1] ELSE via
    /\ UNCHANGED template

Spec == Init /\ [][Follow]_vars

--------------------------------------------------------------------------------
\* The scheduler stands on a node of the template, and never inside a loop region it
\* did not start in.
TypeOK ==
    /\ node \in template.nodes
    /\ node \in RegionMembers(template) => node \in DOMAIN template.region \cup {Entry(template)}
    /\ via \in [{e.key : e \in template.edges} -> Nat]

\* The executor's grammar: what the code-defined templates and the materializer
\* write.  Edges are of the kinds the scheduler follows, a RETRY edge waits for a
\* failure, and ON_REPLAN_AVAILABLE is only on RETRY edges.
Executable(t) ==
    \A e \in t.edges :
      /\ e.kind \in {"NORMAL", "CONDITION", "APPROVAL", "RETRY", "LOOP_BACK"}
      /\ e.kind = "RETRY" => e.guard \in {"ON_FAIL", "ON_REPLAN_AVAILABLE"}
      /\ e.guard = "ON_REPLAN_AVAILABLE" => e.kind = "RETRY"

\* A validated template in the executor's grammar always gives the scheduler an
\* edge: no outcome of a node outside the loop regions ends in
\* GRAPH_NO_ELIGIBLE_EDGE or GRAPH_AMBIGUOUS_EDGES, however often it has retried.
NeverStuck ==
    Executable(template) /\ node \notin RegionMembers(template) =>
      \A outcome \in KindOutcomes[template.kind[node]] :
        SelectEdge(template, node, outcome, via) # {}

\* A retry edge is never followed more often than the template's budget policy
\* allows.
RetriesWithinLimit ==
    \A e \in template.edges : e.kind = "RETRY" => via[e.key] <= RetryLimit(template, e)

--------------------------------------------------------------------------------
(* The proofs. *)

Outcomes == {"SUCCESS", "FAIL", "INCONCLUSIVE", "APPROVED", "DENIED"}

\* A node hands one of five outcomes to its edges (_KIND_OUTCOMES).
LEMMA OutcomesOfKinds == ASSUME NEW k \in NodeKinds PROVE KindOutcomes[k] \subseteq Outcomes
  BY DEF KindOutcomes, NodeKinds, Outcomes

\* Which guards wait for which outcome (_GUARD_MATCHES).
LEMMA GuardOfOutcome ==
  ASSUME NEW g \in Guards
  PROVE  /\ GuardMatches[g] = "SUCCESS" <=> g = "ON_SUCCESS"
         /\ GuardMatches[g] = "FAIL" <=>
              g \in {"ON_FAIL", "ON_REPLAN_AVAILABLE", "ON_REPLAN_EXHAUSTED"}
         /\ GuardMatches[g] = "INCONCLUSIVE" <=> g = "ON_INCONCLUSIVE"
         /\ GuardMatches[g] = "APPROVED" <=> g = "ON_APPROVED"
         /\ GuardMatches[g] = "DENIED" <=> g = "ON_DENIED"
  BY DEF GuardMatches, Guards

\* For an outcome of a node outside the loop regions, the edge that validation counts
\* as covering it is the only edge that _select_edge finds when no retry is open.
LEMMA CoveredIsSelected ==
  ASSUME NEW t, IsTemplate(t), EdgesWellFormed(t), GuardCoverage(t), Executable(t),
         NEW n \in t.nodes \ RegionMembers(t), NEW outcome \in KindOutcomes[t.kind[n]],
         NEW counts
  PROVE  SelectEdge(t, n, outcome, counts) # {}
<1> DEFINE retry == {e \in Out(t, n) : /\ e.kind = "RETRY"
                                       /\ Matches(e, outcome)
                                       /\ RetryOpen(t, e, counts)}
           guarded == {e \in Out(t, n) : e.kind \in {"CONDITION", "APPROVAL"}
                                         /\ Matches(e, outcome)}
           plain == {e \in Out(t, n) : e.kind = "NORMAL" /\ e.guard = NoGuard}
<1>1. PICK e \in Covering(t, n, outcome) : Covering(t, n, outcome) = {e}
  BY DEF GuardCoverage
<1>2. outcome \in Outcomes
  BY OutcomesOfKinds DEF IsTemplate
<1>3. \A f \in Out(t, n) :
        /\ f \in t.edges
        /\ f.kind \in {"NORMAL", "CONDITION", "APPROVAL", "RETRY", "LOOP_BACK"}
        /\ f.guard \in Guards \cup {NoGuard}
        /\ f.kind \in {"NORMAL", "LOOP_BACK"} => f.guard = NoGuard
        /\ f.kind \in {"CONDITION", "APPROVAL", "RETRY"} => f.guard # NoGuard
        /\ f.kind = "RETRY" => f.guard \in {"ON_FAIL", "ON_REPLAN_AVAILABLE"}
        /\ f.guard = "ON_REPLAN_AVAILABLE" => f.kind = "RETRY"
  BY DEF Out, IsTemplate, EdgesWellFormed, Executable
<1>4. NoGuard \notin Guards
  BY DEF NoGuard, Guards
<1>5. outcome # "SUCCESS" => guarded = {e}
  <2>1. CASE outcome = "FAIL"
    <3>1. Covering(t, n, outcome) =
            {f \in Out(t, n) : f.kind # "RETRY" /\ f.guard \in {"ON_FAIL", "ON_REPLAN_EXHAUSTED"}}
      BY <2>1 DEF Covering
    <3>2. \A f \in Out(t, n) : f \in guarded <=> f \in Covering(t, n, outcome)
      BY <1>3, <1>4, <2>1, <3>1, GuardOfOutcome DEF Matches, Guards, NoGuard
    <3> QED BY <1>1, <3>1, <3>2
  <2>2. CASE outcome \in {"INCONCLUSIVE", "APPROVED", "DENIED"}
    <3>1. Covering(t, n, outcome) = {f \in Out(t, n) : Matches(f, outcome)}
      BY <2>2 DEF Covering
    <3>2. \A f \in Out(t, n) : f \in guarded <=> f \in Covering(t, n, outcome)
      BY <1>3, <1>4, <2>2, <3>1, GuardOfOutcome DEF Matches, Guards, NoGuard
    <3> QED BY <1>1, <3>1, <3>2
  <2> QED BY <1>2, <2>1, <2>2 DEF Outcomes
<1>6. outcome = "SUCCESS" => guarded = {e} \/ (guarded = {} /\ plain = {e})
  <2> SUFFICES ASSUME outcome = "SUCCESS" PROVE guarded = {e} \/ (guarded = {} /\ plain = {e})
    OBVIOUS
  <2>1. Covering(t, n, outcome) =
          {f \in Out(t, n) : (f.kind = "NORMAL" /\ f.guard = NoGuard) \/ f.guard = "ON_SUCCESS"}
    BY DEF Covering
  <2>2. \A f \in Out(t, n) : f \in Covering(t, n, outcome) <=> f \in guarded \/ f \in plain
    BY <1>3, <1>4, <2>1, GuardOfOutcome DEF Matches, Guards, NoGuard
  <2> QED BY <1>1, <2>1, <2>2
<1>7. retry # {} => SelectEdge(t, n, outcome, counts) = retry
  BY DEF SelectEdge
<1>8. retry = {} /\ guarded = {e} => SelectEdge(t, n, outcome, counts) = {e}
  BY DEF SelectEdge
<1>9. retry = {} /\ guarded = {} /\ plain = {e} /\ outcome = "SUCCESS"
        => SelectEdge(t, n, outcome, counts) = {e}
  BY DEF SelectEdge
<1> HIDE DEF retry, guarded, plain
<1> QED BY <1>5, <1>6, <1>7, <1>8, <1>9

\* What validation leaves true of the template a walk is on.
Checked == template \in {t \in Universe : IsTemplate(t) /\ ValidTemplate(t)}

\* The LOOP node that stands for a region member is a node of the template and no
\* member of another region's inside (region_owner).
LEMMA OwnerIsOutside ==
  ASSUME NEW t, RegionsWellFormed(t), NEW n \in t.nodes
  PROVE  /\ Owner(t, n) \in t.nodes
         /\ Owner(t, n) \in RegionMembers(t) => Owner(t, n) \in DOMAIN t.region
<1>1. DOMAIN t.region \subseteq t.nodes
  BY DEF RegionsWellFormed
<1>2. CASE \E l \in DOMAIN t.region : n \in t.region[l] \ {l}
  BY <1>1, <1>2 DEF Owner
<1>3. CASE ~ \E l \in DOMAIN t.region : n \in t.region[l] \ {l}
  <2>1. Owner(t, n) = n
    BY <1>3 DEF Owner
  <2>2. n \in RegionMembers(t) => \E l \in DOMAIN t.region : n \in t.region[l]
    BY DEF RegionMembers, Range
  <2> QED BY <1>3, <2>1, <2>2
<1> QED BY <1>2, <1>3

\* A validated template has an entry node (validate_template).
LEMMA EntryIsNode == ASSUME NEW t, Reachable(t) PROVE Entry(t) \in t.nodes
<1>1. Cardinality({n \in t.nodes : In(t, n) = {}}) = 1
  BY DEF Reachable
<1>2. {n \in t.nodes : In(t, n) = {}} # {}
  BY <1>1, FS_EmptySet
<1> QED BY <1>2 DEF Entry

\* The edge _select_edge picks leaves the node and, if it is a retry, is still open.
LEMMA SelectedEdge ==
  ASSUME NEW t, NEW n, NEW outcome, NEW counts, NEW e \in SelectEdge(t, n, outcome, counts)
  PROVE  e \in Out(t, n) /\ (e.kind = "RETRY" => RetryOpen(t, e, counts))
  BY DEF SelectEdge

\* Every step keeps the walk on the nodes of one validated template, outside the regions.
THEOREM TemplateTypes == Spec => [](Checked /\ TypeOK)
<1>1. Init => Checked /\ TypeOK
  <2> SUFFICES ASSUME Init PROVE Checked /\ TypeOK
    OBVIOUS
  <2>1. Entry(template) \in template.nodes
    BY EntryIsNode DEF Init, ValidTemplate
  <2> QED BY <2>1 DEF Init, Checked, TypeOK
<1>2. Checked /\ TypeOK /\ [Follow]_vars => (Checked /\ TypeOK)'
  <2> SUFFICES ASSUME Checked, TypeOK, [Follow]_vars PROVE (Checked /\ TypeOK)'
    OBVIOUS
  <2>1. CASE Follow
    <3>1. PICK outcome \in KindOutcomes[template.kind[node]] :
            \E e \in SelectEdge(template, node, outcome, via) :
              /\ node' = Owner(template, e.target)
              /\ via' = IF e.kind = "RETRY" THEN [via EXCEPT ![e.key] = @ + 1] ELSE via
      BY <2>1 DEF Follow
    <3>2. PICK e \in SelectEdge(template, node, outcome, via) :
            /\ node' = Owner(template, e.target)
            /\ via' = IF e.kind = "RETRY" THEN [via EXCEPT ![e.key] = @ + 1] ELSE via
      BY <3>1
    <3>3. e \in template.edges
      BY SelectedEdge DEF Out
    <3>4. e.target \in template.nodes
      BY <3>3 DEF Checked, ValidTemplate, EdgesWellFormed
    <3>5. template' = template
      BY <2>1 DEF Follow
    <3>6. /\ node' \in template.nodes
          /\ node' \in RegionMembers(template) => node' \in DOMAIN template.region
      BY <3>2, <3>4, OwnerIsOutside DEF Checked, ValidTemplate
    <3>7. via' \in [{f.key : f \in template.edges} -> Nat]
      <4> DEFINE keys == {f.key : f \in template.edges}
      <4>1. e.key \in keys /\ via \in [keys -> Nat]
        BY <3>3 DEF TypeOK
      <4> HIDE DEF keys
      <4>2. via' \in [keys -> Nat]
        BY <3>2, <4>1
      <4> QED BY <4>2 DEF keys
    <3> QED BY <3>5, <3>6, <3>7 DEF Checked, TypeOK
  <2>2. CASE UNCHANGED vars
    BY <2>2 DEF vars, Checked, TypeOK
  <2> QED BY <2>1, <2>2
<1> QED BY <1>1, <1>2, PTL DEF Spec

\* The scheduler is never stuck on a validated template of the executor's grammar:
\* _select_edge finds an edge for every outcome its nodes can have, at any count of
\* retries, whatever set of templates is submitted.
THEOREM TemplateNeverStuck == Spec => []NeverStuck
<1>1. Checked /\ TypeOK => NeverStuck
  <2> SUFFICES ASSUME Checked, TypeOK, Executable(template),
                      node \notin RegionMembers(template),
                      NEW outcome \in KindOutcomes[template.kind[node]]
               PROVE  SelectEdge(template, node, outcome, via) # {}
    BY DEF NeverStuck
  <2> QED BY CoveredIsSelected DEF Checked, ValidTemplate, TypeOK
<1> QED BY <1>1, TemplateTypes, PTL

\* No retry edge is followed more often than the limits of the budget policy allow,
\* on any validated template.
THEOREM TemplateRetries == Spec => []RetriesWithinLimit
<1>1. Init /\ Checked => RetriesWithinLimit
  BY DEF Init, Checked, RetriesWithinLimit, RetryLimit, IsTemplate
<1>2. Checked /\ TypeOK /\ RetriesWithinLimit /\ [Follow]_vars => RetriesWithinLimit'
  <2> SUFFICES ASSUME Checked, TypeOK, RetriesWithinLimit, [Follow]_vars
               PROVE  RetriesWithinLimit'
    OBVIOUS
  <2>1. CASE Follow
    <3>0. PICK outcome \in KindOutcomes[template.kind[node]] :
            \E e \in SelectEdge(template, node, outcome, via) :
              via' = IF e.kind = "RETRY" THEN [via EXCEPT ![e.key] = @ + 1] ELSE via
      BY <2>1 DEF Follow
    <3>1. PICK e \in SelectEdge(template, node, outcome, via) :
            via' = IF e.kind = "RETRY" THEN [via EXCEPT ![e.key] = @ + 1] ELSE via
      BY <3>0
    <3>2. e \in template.edges /\ (e.kind = "RETRY" => RetryOpen(template, e, via))
      BY SelectedEdge DEF Out
    <3>3. template' = template
      BY <2>1 DEF Follow
    <3> SUFFICES ASSUME NEW f \in template.edges, f.kind = "RETRY"
                 PROVE  via'[f.key] <= RetryLimit(template, f)
      BY <3>3 DEF RetriesWithinLimit, RetryLimit
    <3>4. via[f.key] \in Nat /\ RetryLimit(template, f) \in Nat
      BY DEF TypeOK, Checked, IsTemplate, RetryLimit
    <3>5. via[f.key] <= RetryLimit(template, f)
      BY DEF RetriesWithinLimit
    <3>6. CASE e.kind = "RETRY" /\ f.key = e.key
      <4>1. f = e
        BY <3>2, <3>6 DEF Checked, ValidTemplate, EdgesWellFormed
      <4>2. via'[f.key] = via[f.key] + 1
        BY <3>1, <3>6, <4>1 DEF TypeOK
      <4> QED BY <3>2, <3>4, <3>6, <4>1, <4>2 DEF RetryOpen
    <3>7. CASE ~(e.kind = "RETRY" /\ f.key = e.key)
      BY <3>1, <3>5, <3>7 DEF TypeOK
    <3> QED BY <3>6, <3>7
  <2>2. CASE UNCHANGED vars
    BY <2>2 DEF vars, RetriesWithinLimit, RetryLimit
  <2> QED BY <2>1, <2>2
<1> QED BY <1>1, <1>2, TemplateTypes, PTL DEF Spec
====================================================================================
