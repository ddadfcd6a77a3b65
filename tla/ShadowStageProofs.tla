------------------------------ MODULE ShadowStageProofs ------------------------------
(***************************************************************************)
(* What every step of the shadow stage keeps, for every set of budgets, any    *)
(* caps and any number of receipts and slots.                               *)
(*                                                                         *)
(* Budgets.  Load(v) counts the rows of a version today and what its rollouts  *)
(* in flight may still add: two for one before its SHADOW arm, one for one     *)
(* before its CONTROL arm.  The check raises a load whose rows are below the   *)
(* cap by at most 2 * Slots; an arm moves one unit from the future to the      *)
(* rows.  So the load, not only the rows, stays below the cap + 2 * Slots.     *)
(*                                                                         *)
(* Trials.  A receipt is rolled out once, so the trial derived from the stored *)
(* arms is 0, the two arms of a receipt share it, and counting complete        *)
(* (decision, trial) pairs counts receipts for which both arms ran.           *)
(***************************************************************************)
EXTENDS ShadowStage, FiniteSetTheorems, TLAPS

\* The receipts whose rollout of a version is at a stage.
In(v, s) == {r \in Receipts : stage[r] = s /\ picked[r] = v}

\* The arms of a version that completed on a day.
Rows(v, d) == Cardinality(RowsOn(v, d))

\* Today's rows and those that are to come from rollouts past the check.
Load(v) == Rows(v, day) + 2 * Cardinality(In(v, "shadow_arm")) + Cardinality(In(v, "control_arm"))

\* Both caps with the overshoot of the rollouts in flight.
Bounded(v, n) == n < TrialCap[BudgetOf(v)] + 2 * Slots /\ n < CostCap[BudgetOf(v)] + 2 * Slots

\* Today the load is bounded, on the days before the rows are.
WithinLimits(v) ==
    Bounded(v, Load(v)) /\ \A d \in 0..day : d # day => Bounded(v, Rows(v, d))

\* The part of the invariant that is about budgets.
BudgetInv ==
    /\ DOMAIN stage = Receipts /\ DOMAIN picked = Receipts
    /\ day \in Nat
    /\ IsFiniteSet(results)
    /\ \A x \in results : x.day \in 0..day
    /\ Cardinality(Busy) <= Slots
    /\ \A v : BudgetOf(v) \in Budgets => WithinLimits(v)

\* The part that is about trials: rows have trial 0, a receipt whose SHADOW arm has not run has
\* none, and one whose SHADOW arm has run has the one row.
OneTrial ==
    /\ \A x \in results : x.receipt \in Receipts /\ x.trial = 0
    /\ \A r \in Receipts :
         /\ stage[r] \notin {"control_arm", "done"} => \A x \in results : x.receipt # r
         /\ stage[r] = "control_arm" => Cardinality(Arms(r, "SHADOW")) = 1

\* What holds of the shadow stage at every moment.
StageInv == BudgetInv /\ OneTrial

--------------------------------------------------------------------------------
(* Budgets. *)

\* What the invariant counts are natural numbers, and today's rows are part of the load.
LEMMA Counts ==
    ASSUME BudgetInv, NEW v
    PROVE  /\ \A d : IsFiniteSet(RowsOn(v, d)) /\ Rows(v, d) \in Nat
           /\ \A s : IsFiniteSet(In(v, s)) /\ Cardinality(In(v, s)) \in Nat
           /\ Load(v) \in Nat /\ Rows(v, day) <= Load(v)
           /\ IsFiniteSet(Busy) /\ Cardinality(Busy) \in Nat
<1>1. ASSUME NEW d
      PROVE  IsFiniteSet(RowsOn(v, d)) /\ Rows(v, d) \in Nat
  <2>1. RowsOn(v, d) \subseteq results
    BY DEF RowsOn
  <2> QED
    BY <2>1, FS_Subset, FS_CardinalityType DEF BudgetInv, Rows
<1>2. ASSUME NEW S \in SUBSET Receipts
      PROVE  IsFiniteSet(S) /\ Cardinality(S) \in Nat
  BY FS_Subset, FS_CardinalityType, ShadowAssumption
<1>3. ASSUME NEW s
      PROVE  In(v, s) \in SUBSET Receipts
  BY DEF In
<1>4. Busy \in SUBSET Receipts
  BY DEF Busy
<1>5. Load(v) \in Nat /\ Rows(v, day) <= Load(v)
  <2>1. /\ Rows(v, day) \in Nat /\ Cardinality(In(v, "shadow_arm")) \in Nat
        /\ Cardinality(In(v, "control_arm")) \in Nat
    BY <1>1, <1>2, <1>3
  <2> QED
    BY <2>1 DEF Load
<1> QED
  BY <1>1, <1>2, <1>3, <1>4, <1>5

\* Two disjoint sets of receipts in flight hold no more than the receipts in flight.
LEMMA DisjointParts ==
    ASSUME NEW B, B \subseteq Receipts, NEW S, S \subseteq B, NEW T, T \subseteq B, S \cap T = {}
    PROVE  /\ Cardinality(B) \in Nat /\ Cardinality(S) \in Nat /\ Cardinality(T) \in Nat
           /\ Cardinality(S) + Cardinality(T) <= Cardinality(B)
<1>1. IsFiniteSet(B)
  BY FS_Subset, ShadowAssumption
<1>2. IsFiniteSet(S) /\ IsFiniteSet(T) /\ Cardinality(S \cup T) <= Cardinality(B)
  <2>1. S \cup T \in SUBSET B
    OBVIOUS
  <2> QED
    BY <1>1, <2>1, FS_Subset
<1>3. Cardinality(S) \in Nat /\ Cardinality(T) \in Nat /\ Cardinality(B) \in Nat
  BY <1>1, <1>2, FS_CardinalityType
<1>4. Cardinality(S \cup T) = Cardinality(S) + Cardinality(T)
  <2>1. Cardinality(S \cup T) = Cardinality(S) + Cardinality(T) - Cardinality(S \cap T)
    BY <1>2, FS_Union
  <2>2. Cardinality(S \cap T) = 0
    BY FS_EmptySet
  <2> QED
    BY <1>3, <2>1, <2>2
<1> QED
  BY <1>2, <1>3, <1>4

\* A smaller number is within a bound that a greater one keeps.
LEMMA LoadNotAbove ==
    ASSUME NEW v, NEW n \in Nat, NEW m \in Nat, m <= n, BudgetOf(v) \in Budgets, Bounded(v, n)
    PROVE  Bounded(v, m)
<1>1. /\ TrialCap[BudgetOf(v)] \in Nat /\ CostCap[BudgetOf(v)] \in Nat /\ Slots \in Nat
  BY ShadowAssumption
<1> QED
  BY <1>1 DEF Bounded

\* A step that adds no row to another day and does not raise the load of a version keeps its
\* limits: an arm's row was charged to the load before it ran.
LEMMA LoadStep ==
    ASSUME BudgetInv, NEW v, BudgetOf(v) \in Budgets, day' = day,
           \A d : d # day => RowsOn(v, d)' = RowsOn(v, d),
           Load(v)' \in Nat, Load(v)' <= Load(v)
    PROVE  WithinLimits(v)'
<1>1. WithinLimits(v) /\ Load(v) \in Nat
  BY Counts DEF BudgetInv
<1>2. PICK m : m = Load(v)'
  OBVIOUS
<1>3. Bounded(v, m)
  BY <1>1, <1>2, LoadNotAbove DEF WithinLimits
<1>4. \A d \in 0..day' : d # day' => Bounded(v, Rows(v, d)')
  BY <1>1 DEF WithinLimits, Rows
<1> QED
  BY <1>2, <1>3, <1>4 DEF WithinLimits, Bounded

\* In particular one that leaves a version's rows and its receipts in the arms alone.
LEMMA LoadSame ==
    ASSUME BudgetInv, NEW v, BudgetOf(v) \in Budgets, day' = day,
           \A d : RowsOn(v, d)' = RowsOn(v, d),
           \A s \in {"shadow_arm", "control_arm"} : In(v, s)' = In(v, s)
    PROVE  WithinLimits(v)'
<1>1. Load(v)' = Load(v)
  BY DEF Load, Rows
<1> QED
  BY <1>1, Counts, LoadStep

\* The limiter keeps its slots: a receipt only enters while one is free.
LEMMA BusyNotAbove ==
    ASSUME BudgetInv, NEW r \in Receipts, NEW s, Goto(r, s),
           r \in Busy \/ Cardinality(Busy) < Slots
    PROVE  DOMAIN stage' = Receipts /\ Cardinality(Busy)' <= Slots
<1>1. /\ DOMAIN stage' = Receipts
      /\ Busy' \subseteq Busy \cup {r}
  BY DEF BudgetInv, Goto, Busy
<1>2. IsFiniteSet(Busy) /\ Cardinality(Busy) \in Nat /\ Cardinality(Busy) <= Slots
  BY Counts DEF BudgetInv
<1>3. /\ IsFiniteSet(Busy \cup {r})
      /\ Cardinality(Busy \cup {r}) = IF r \in Busy THEN Cardinality(Busy) ELSE Cardinality(Busy) + 1
  BY <1>2, FS_AddElement
<1>4. Cardinality(Busy \cup {r}) \in Nat /\ Cardinality(Busy \cup {r}) <= Slots
  BY <1>2, <1>3, ShadowAssumption
<1>5. Cardinality(Busy') <= Cardinality(Busy \cup {r}) /\ Cardinality(Busy') \in Nat
  BY <1>1, <1>3, FS_Subset, FS_CardinalityType
<1> QED
  BY <1>1, <1>4, <1>5, ShadowAssumption

\* A step between two stages that are no arms leaves every load as it is.
LEMMA NoArmStarts ==
    ASSUME BudgetInv, NEW r \in Receipts, NEW s, NEW v, Goto(r, s),
           r \in Busy \/ Cardinality(Busy) < Slots,
           picked' = picked \/ picked' = [picked EXCEPT ![r] = v],
           UNCHANGED <<day, results>>,
           s \notin {"shadow_arm", "control_arm"},
           stage[r] \notin {"shadow_arm", "control_arm"}
    PROVE  BudgetInv'
<1>1. DOMAIN stage' = Receipts /\ Cardinality(Busy)' <= Slots
  BY BusyNotAbove
<1>2. DOMAIN picked' = Receipts
  BY DEF BudgetInv
<1>3. ASSUME NEW w, BudgetOf(w) \in Budgets
      PROVE  WithinLimits(w)'
  <2>1. \A d : RowsOn(w, d)' = RowsOn(w, d)
    BY DEF RowsOn
  <2>2. ASSUME NEW k \in {"shadow_arm", "control_arm"}
        PROVE  In(w, k)' = In(w, k)
    <3>1. \A q \in Receipts \ {r} : stage'[q] = stage[q] /\ picked'[q] = picked[q]
      BY DEF Goto, BudgetInv
    <3>2. stage'[r] # k /\ stage[r] # k
      BY <2>2 DEF Goto, BudgetInv
    <3> QED
      BY <3>1, <3>2 DEF In
  <2> QED
    BY <1>3, <2>1, <2>2, LoadSame
<1> QED
  BY <1>1, <1>2, <1>3 DEF BudgetInv

\* _within_budget: a rollout it lets through adds two to a load whose rows are below the caps,
\* and there are at most Slots of them.
LEMMA CheckBudgetSafe ==
    ASSUME BudgetInv, NEW r \in Receipts, CheckBudget(r)
    PROVE  BudgetInv'
<1>1. UNCHANGED <<day, results, picked>> /\ stage[r] = "checking" /\ r \in Busy
  BY DEF CheckBudget, Busy, InFlight
<1>2. CASE ~WithinBudget(picked[r])
  <2>1. Goto(r, "done")
    BY <1>2 DEF CheckBudget
  <2> QED
    BY <1>1, <2>1, NoArmStarts
<1>3. CASE WithinBudget(picked[r])
  <2>1. Goto(r, "shadow_arm")
    BY <1>3 DEF CheckBudget
  <2>2. DOMAIN stage' = Receipts /\ Cardinality(Busy)' <= Slots
    BY <1>1, <2>1, BusyNotAbove
  <2>3. ASSUME NEW w, BudgetOf(w) \in Budgets
        PROVE  WithinLimits(w)'
    <3>1. \A d : RowsOn(w, d)' = RowsOn(w, d)
      BY <1>1 DEF RowsOn
    <3>2. CASE w # picked[r]
      <4>1. \A k : In(w, k)' = In(w, k)
        BY <1>1, <2>1, <3>2 DEF In, Goto, BudgetInv
      <4> QED
        BY <1>1, <2>3, <3>1, <4>1, LoadSame
    <3>3. CASE w = picked[r]
      <4>1. /\ Rows(w, day) < CostCap[BudgetOf(w)] /\ Rows(w, day) < TrialCap[BudgetOf(w)]
            /\ Rows(w, day) \in Nat
        BY <1>3, <3>3, Counts DEF WithinBudget, Rows
      <4>2. /\ Cardinality(Busy)' \in Nat
            /\ Cardinality(In(w, "shadow_arm"))' \in Nat
            /\ Cardinality(In(w, "control_arm"))' \in Nat
            /\ Cardinality(In(w, "shadow_arm"))' + Cardinality(In(w, "control_arm"))'
                 <= Cardinality(Busy)'
        <5>1. /\ Busy' \subseteq Receipts
              /\ In(w, "shadow_arm")' \subseteq Busy' /\ In(w, "control_arm")' \subseteq Busy'
              /\ In(w, "shadow_arm")' \cap In(w, "control_arm")' = {}
          BY DEF In, Busy, InFlight
        <5> QED
          BY <5>1, DisjointParts, Zenon
      <4>3. /\ TrialCap[BudgetOf(w)] \in Nat /\ CostCap[BudgetOf(w)] \in Nat /\ Slots \in Nat
        BY <2>3, ShadowAssumption
      <4>4. PICK a, b, c : /\ a = Cardinality(In(w, "shadow_arm"))' /\ c = Cardinality(Busy)'
                           /\ b = Cardinality(In(w, "control_arm"))'
        OBVIOUS
      <4>5. PICK n : n = Rows(w, day)
        OBVIOUS
      <4>6. Load(w)' = n + 2 * a + b
        BY <1>1, <3>1, <4>4, <4>5 DEF Load, Rows
      <4>7. a \in Nat /\ b \in Nat /\ c \in Nat /\ n \in Nat /\ a + b <= c /\ c <= Slots
        BY <2>2, <4>1, <4>2, <4>4, <4>5
      <4>8. n < TrialCap[BudgetOf(w)] /\ n < CostCap[BudgetOf(w)]
        BY <4>1, <4>5
      <4>9. Bounded(w, n + 2 * a + b)
        BY <4>3, <4>7, <4>8 DEF Bounded
      <4>10. \A d \in 0..day' : d # day' => Bounded(w, Rows(w, d)')
        BY <1>1, <2>3, <3>1 DEF BudgetInv, WithinLimits, Rows
      <4> QED
        BY <4>6, <4>9, <4>10 DEF WithinLimits, Bounded
    <3> QED
      BY <3>2, <3>3
  <2> QED
    BY <1>1, <2>2, <2>3 DEF BudgetInv
<1> QED
  BY <1>2, <1>3

\* _run_arm: the row an arm adds was in the load already.
LEMMA ArmSafe ==
    ASSUME BudgetInv, NEW r \in Receipts, RunShadowArm(r) \/ RunControlArm(r)
    PROVE  BudgetInv'
<1>1. UNCHANGED <<day, picked>> /\ r \in Busy
  BY DEF RunShadowArm, RunControlArm, Busy, InFlight
<1>2. PICK x : results' = results \cup {x} /\ x.version = picked[r] /\ x.day = day
  <2>1. ASSUME NEW kind, NEW trial, AddArm(r, kind, trial)
        PROVE  \E x : results' = results \cup {x} /\ x.version = picked[r] /\ x.day = day
    <3> DEFINE x == [receipt |-> r, version |-> picked[r], kind |-> kind, trial |-> trial,
                     day |-> day]
    <3>1. x.version = picked[r] /\ x.day = day /\ results' = results \cup {x}
      BY <2>1 DEF AddArm
    <3> QED
      BY <3>1, Zenon
  <2> QED
    BY <2>1 DEF RunShadowArm, RunControlArm
<1>3. DOMAIN stage' = Receipts /\ Cardinality(Busy)' <= Slots
  <2>1. PICK s : Goto(r, s)
    BY DEF RunShadowArm, RunControlArm
  <2> QED
    BY <1>1, <2>1, BusyNotAbove
<1>4. IsFiniteSet(results') /\ day \in Nat
  BY <1>2, FS_AddElement DEF BudgetInv
<1>5. \A y \in results' : y.day \in 0..day'
  BY <1>1, <1>2, <1>4 DEF BudgetInv
<1>6. ASSUME NEW w, BudgetOf(w) \in Budgets
      PROVE  WithinLimits(w)'
  <2>1. \A q \in Receipts \ {r} : stage'[q] = stage[q]
    BY DEF RunShadowArm, RunControlArm, Goto, BudgetInv
  <2>2. CASE w # picked[r]
    <3>1. \A d : RowsOn(w, d)' = RowsOn(w, d)
      BY <1>2, <2>2 DEF RowsOn
    <3>2. \A k : In(w, k)' = In(w, k)
      BY <1>1, <2>1, <2>2 DEF In
    <3> QED
      BY <1>1, <1>6, <3>1, <3>2, LoadSame
  <2>3. CASE w = picked[r]
    <3> DEFINE n == Rows(w, day)
               a == Cardinality(In(w, "shadow_arm"))
               b == Cardinality(In(w, "control_arm"))
    <3>1. \A d : d # day => RowsOn(w, d)' = RowsOn(w, d)
      BY <1>2 DEF RowsOn
    <3>2. /\ n \in Nat /\ a \in Nat /\ b \in Nat
          /\ IsFiniteSet(RowsOn(w, day)) /\ IsFiniteSet(In(w, "shadow_arm"))
          /\ IsFiniteSet(In(w, "control_arm"))
      BY Counts
    <3>3. Rows(w, day)' \in Nat /\ Rows(w, day)' <= n + 1
      <4>1. RowsOn(w, day)' = RowsOn(w, day) \cup {x}
        BY <1>1, <1>2, <2>3 DEF RowsOn
      <4>2. /\ Cardinality(RowsOn(w, day) \cup {x}) \in Nat
            /\ Cardinality(RowsOn(w, day) \cup {x}) <= n + 1
        <5>1. Cardinality(RowsOn(w, day) \cup {x}) = n
                \/ Cardinality(RowsOn(w, day) \cup {x}) = n + 1
          BY <3>2, FS_AddElement, Zenon DEF Rows
        <5> HIDE DEF n
        <5> QED
          BY <3>2, <5>1
      <4>3. Rows(w, day)' = Cardinality(RowsOn(w, day) \cup {x})
        BY <4>1 DEF Rows
      <4> QED
        BY <4>2, <4>3
    <3>4. CASE RunShadowArm(r)
      <4>1. stage[r] = "shadow_arm" /\ stage'[r] = "control_arm"
        BY <3>4 DEF RunShadowArm, Goto, BudgetInv
      <4>2. /\ In(w, "shadow_arm")' = In(w, "shadow_arm") \ {r} /\ r \in In(w, "shadow_arm")
            /\ In(w, "control_arm")' = In(w, "control_arm") \cup {r}
            /\ r \notin In(w, "control_arm")
        BY <1>1, <2>1, <2>3, <4>1 DEF In
      <4>3. Cardinality(In(w, "shadow_arm"))' = a - 1
        BY <3>2, <4>2, FS_RemoveElement
      <4>4. Cardinality(In(w, "control_arm"))' = b + 1
        BY <3>2, <4>2, FS_AddElement, Zenon
      <4>5. a - 1 \in Nat
        <5>1. IsFiniteSet(In(w, "shadow_arm") \ {r})
          BY <3>2, FS_RemoveElement
        <5> QED
          BY <4>2, <4>3, <5>1, FS_CardinalityType, Zenon
      <4>6. PICK m : m = Rows(w, day)'
        OBVIOUS
      <4>7. Load(w)' = m + 2 * (a - 1) + (b + 1) /\ Load(w) = n + 2 * a + b
        BY <1>1, <4>3, <4>4, <4>6 DEF Load
      <4>8. m \in Nat /\ m <= n + 1
        BY <3>3, <4>6
      <4> HIDE DEF n, a, b
      <4>9. Load(w)' \in Nat /\ Load(w)' <= Load(w)
        BY <3>2, <4>5, <4>7, <4>8
      <4> QED
        BY <1>1, <1>6, <3>1, <4>9, LoadStep
    <3>5. CASE RunControlArm(r)
      <4>1. stage[r] = "control_arm" /\ stage'[r] = "done"
        BY <3>5 DEF RunControlArm, Goto, BudgetInv
      <4>2. /\ In(w, "shadow_arm")' = In(w, "shadow_arm")
            /\ In(w, "control_arm")' = In(w, "control_arm") \ {r}
            /\ r \in In(w, "control_arm")
        BY <1>1, <2>1, <2>3, <4>1 DEF In
      <4>3. Cardinality(In(w, "shadow_arm"))' = a
        BY <4>2
      <4>4. Cardinality(In(w, "control_arm"))' = b - 1
        BY <3>2, <4>2, FS_RemoveElement
      <4>5. b - 1 \in Nat
        <5>1. IsFiniteSet(In(w, "control_arm") \ {r})
          BY <3>2, FS_RemoveElement
        <5> QED
          BY <4>2, <4>4, <5>1, FS_CardinalityType, Zenon
      <4>6. PICK m : m = Rows(w, day)'
        OBVIOUS
      <4>7. Load(w)' = m + 2 * a + (b - 1) /\ Load(w) = n + 2 * a + b
        BY <1>1, <4>3, <4>4, <4>6 DEF Load
      <4>8. m \in Nat /\ m <= n + 1
        BY <3>3, <4>6
      <4> HIDE DEF n, a, b
      <4>9. Load(w)' \in Nat /\ Load(w)' <= Load(w)
        BY <3>2, <4>5, <4>7, <4>8
      <4> QED
        BY <1>1, <1>6, <3>1, <4>9, LoadStep
    <3> QED
      BY <3>4, <3>5
  <2> QED
    BY <2>2, <2>3
<1> QED
  BY <1>1, <1>3, <1>4, <1>5, <1>6 DEF BudgetInv

\* Rollouts that end without an arm's row lower the load.
LEMMA Fewer ==
    ASSUME BudgetInv, UNCHANGED <<day, results, picked>>, DOMAIN stage' = Receipts,
           Cardinality(Busy)' <= Slots,
           \A w : \A k \in {"shadow_arm", "control_arm"} : In(w, k)' \subseteq In(w, k)
    PROVE  BudgetInv'
<1>1. ASSUME NEW w, BudgetOf(w) \in Budgets
      PROVE  WithinLimits(w)'
  <2>1. \A d : RowsOn(w, d)' = RowsOn(w, d)
    BY DEF RowsOn
  <2>2. ASSUME NEW k \in {"shadow_arm", "control_arm"}
        PROVE  /\ Cardinality(In(w, k))' \in Nat /\ Cardinality(In(w, k)) \in Nat
               /\ Cardinality(In(w, k))' <= Cardinality(In(w, k))
    <3>1. IsFiniteSet(In(w, k)) /\ Cardinality(In(w, k)) \in Nat
      BY Counts
    <3>2. In(w, k)' \in SUBSET In(w, k)
      BY <2>2
    <3> QED
      BY <3>1, <3>2, FS_Subset, FS_CardinalityType
  <2>3. Rows(w, day) \in Nat /\ Rows(w, day)' = Rows(w, day)
    BY <2>1, Counts DEF Rows
  <2>4. Load(w)' \in Nat /\ Load(w)' <= Load(w)
    BY <2>2, <2>3 DEF Load
  <2> QED
    BY <1>1, <2>1, <2>4, LoadStep
<1> QED
  BY <1>1 DEF BudgetInv

\* A new day starts with no rows, and with at most Slots rollouts that passed the check before.
LEMMA NextDaySafe ==
    ASSUME BudgetInv, NextDay
    PROVE  BudgetInv'
<1>1. /\ day' = day + 1 /\ UNCHANGED <<results, stage, picked>>
      /\ day \in Nat /\ day' \in Nat
  BY DEF NextDay, BudgetInv
<1>2. Busy' = Busy
  BY <1>1 DEF Busy
<1>3. \A x \in results' : x.day \in 0..day'
  BY <1>1 DEF BudgetInv
<1>4. ASSUME NEW w, BudgetOf(w) \in Budgets
      PROVE  WithinLimits(w)'
  <2> DEFINE a == Cardinality(In(w, "shadow_arm"))
             b == Cardinality(In(w, "control_arm"))
  <2>1. \A d : RowsOn(w, d)' = RowsOn(w, d)
    BY <1>1 DEF RowsOn
  <2>2. RowsOn(w, day + 1) = {}
    BY <1>1 DEF RowsOn, BudgetInv
  <2>3. Rows(w, day)' = 0
    <3>1. RowsOn(w, day)' = {}
      BY <1>1, <2>2 DEF RowsOn
    <3> QED
      BY <3>1, FS_EmptySet DEF Rows
  <2>4. \A k : In(w, k)' = In(w, k)
    BY <1>1 DEF In
  <2>5. /\ Cardinality(Busy) \in Nat /\ a \in Nat /\ b \in Nat
        /\ a + b <= Cardinality(Busy)
    <3>1. /\ Busy \subseteq Receipts
          /\ In(w, "shadow_arm") \subseteq Busy /\ In(w, "control_arm") \subseteq Busy
          /\ In(w, "shadow_arm") \cap In(w, "control_arm") = {}
      BY DEF In, Busy, InFlight
    <3> QED
      BY <3>1, DisjointParts, Zenon
  <2>6. Load(w)' = 0 + 2 * a + b
    BY <2>3, <2>4 DEF Load
  <2>7. /\ TrialCap[BudgetOf(w)] \in Nat \ {0} /\ CostCap[BudgetOf(w)] \in Nat \ {0}
        /\ Slots \in Nat /\ Cardinality(Busy) <= Slots
    BY <1>4, ShadowAssumption DEF BudgetInv
  <2> HIDE DEF a, b
  <2>8. Bounded(w, 0 + 2 * a + b)
    BY <2>5, <2>7 DEF Bounded
  <2>9. ASSUME NEW d \in 0..day', d # day'
        PROVE  Bounded(w, Rows(w, d)')
    <3>1. PICK n : n = Rows(w, d) /\ n \in Nat
      BY Counts
    <3>2. Rows(w, d)' = n
      BY <2>1, <3>1 DEF Rows
    <3>3. WithinLimits(w)
      BY <1>4 DEF BudgetInv
    <3>4. Bounded(w, n)
      <4>1. CASE d = day
        BY <1>4, <3>1, <3>3, <4>1, Counts, LoadNotAbove DEF WithinLimits
      <4>2. CASE d # day
        <5>1. d \in 0..day
          BY <1>1, <2>9
        <5> QED
          BY <3>1, <3>3, <4>2, <5>1 DEF WithinLimits
      <4> QED
        BY <4>1, <4>2
    <3> QED
      BY <3>2, <3>4
  <2>10. Bounded(w, Load(w)')
    BY <2>6, <2>8
  <2> QED
    BY <2>9, <2>10 DEF WithinLimits, Bounded
<1> QED
  BY <1>1, <1>2, <1>3, <1>4 DEF BudgetInv

--------------------------------------------------------------------------------
(* Trials. *)

\* A step that runs no arm keeps the rows a receipt has, unless it leaves the rollout.
LEMMA NoArmRuns ==
    ASSUME StageInv, NEW r \in Receipts, NEW s, NEW v, Goto(r, s), results' = results,
           picked' = picked \/ picked' = [picked EXCEPT ![r] = v],
           s # "control_arm",
           s # "done" => stage[r] \notin {"control_arm", "done"}
    PROVE  OneTrial'
<1>1. /\ DOMAIN stage' = Receipts /\ DOMAIN picked' = Receipts
      /\ stage'[r] = s
      /\ \A q \in Receipts \ {r} : stage'[q] = stage[q] /\ picked'[q] = picked[q]
  BY DEF Goto, StageInv, BudgetInv
<1>2. ASSUME NEW q \in Receipts
      PROVE  /\ stage'[q] \notin {"control_arm", "done"} => \A x \in results' : x.receipt # q
             /\ stage'[q] = "control_arm" => Cardinality(Arms(q, "SHADOW"))' = 1
  <2>1. CASE q = r
    BY <1>1, <2>1 DEF StageInv, OneTrial
  <2>2. CASE q # r
    <3>1. Arms(q, "SHADOW")' = Arms(q, "SHADOW") /\ stage'[q] = stage[q]
      BY <1>1, <2>2 DEF Arms
    <3> QED
      BY <3>1 DEF StageInv, OneTrial
  <2> QED
    BY <2>1, <2>2
<1> QED
  BY <1>1, <1>2 DEF StageInv, OneTrial

\* _next_trial: the SHADOW arm finds no row of its receipt and the CONTROL arm finds one, so
\* both are stored under trial 0.
LEMMA ArmTrials ==
    ASSUME StageInv, NEW r \in Receipts, RunShadowArm(r) \/ RunControlArm(r)
    PROVE  OneTrial'
<1>1. picked' = picked /\ DOMAIN stage' = Receipts /\ DOMAIN picked' = Receipts
  BY DEF RunShadowArm, RunControlArm, Goto, StageInv, BudgetInv
<1>2. \A q \in Receipts \ {r} : stage'[q] = stage[q]
  BY DEF RunShadowArm, RunControlArm, Goto, StageInv, BudgetInv
<1>3. ASSUME NEW x, results' = results \cup {x}, x.receipt = r, NEW q \in Receipts \ {r}
      PROVE  /\ stage'[q] \notin {"control_arm", "done"} => \A y \in results' : y.receipt # q
             /\ stage'[q] = "control_arm" => Cardinality(Arms(q, "SHADOW"))' = 1
  <2>1. Arms(q, "SHADOW")' = Arms(q, "SHADOW")
    BY <1>1, <1>3 DEF Arms
  <2> QED
    BY <1>2, <1>3, <2>1 DEF StageInv, OneTrial
<1>4. CASE RunShadowArm(r)
  <2> DEFINE x == [receipt |-> r, version |-> picked[r], kind |-> "SHADOW",
                   trial |-> NextTrial(r), day |-> day]
  <2>1. stage[r] = "shadow_arm" /\ stage'[r] = "control_arm" /\ results' = results \cup {x}
    BY <1>4 DEF RunShadowArm, Goto, AddArm, StageInv, BudgetInv
  <2>2. \A y \in results : y.receipt # r
    BY <2>1 DEF StageInv, OneTrial
  <2>3. NextTrial(r) = 0
    <3>1. Arms(r, "SHADOW") = {}
      BY <2>2 DEF Arms
    <3> QED
      BY <3>1, FS_EmptySet DEF NextTrial
  <2>4. x.receipt = r /\ x.trial = 0 /\ x.version = picked[r] /\ x.kind = "SHADOW"
    BY <2>3
  <2> HIDE DEF x
  <2>5. Cardinality(Arms(r, "SHADOW"))' = 1
    <3>1. Arms(r, "SHADOW")' = {x}
      BY <1>1, <2>1, <2>2, <2>4 DEF Arms
    <3> QED
      BY <3>1, FS_Singleton, Zenon
  <2>6. \A y \in results' : y.receipt \in Receipts /\ y.trial = 0
    BY <2>1, <2>4 DEF StageInv, OneTrial
  <2> QED
    BY <1>1, <1>3, <2>1, <2>4, <2>5, <2>6 DEF OneTrial
<1>5. CASE RunControlArm(r)
  <2> DEFINE x == [receipt |-> r, version |-> picked[r], kind |-> "CONTROL",
                   trial |-> NextTrial(r) - 1, day |-> day]
  <2>1. stage[r] = "control_arm" /\ stage'[r] = "done" /\ results' = results \cup {x}
    BY <1>5 DEF RunControlArm, Goto, AddArm, StageInv, BudgetInv
  <2>2. NextTrial(r) = 1
    BY <2>1 DEF StageInv, OneTrial, NextTrial
  <2>3. x.receipt = r /\ x.trial = 0
    BY <2>2
  <2> HIDE DEF x
  <2>4. \A y \in results' : y.receipt \in Receipts /\ y.trial = 0
    BY <2>1, <2>3 DEF StageInv, OneTrial
  <2> QED
    BY <1>1, <1>3, <2>1, <2>3, <2>4 DEF OneTrial
<1> QED
  BY <1>4, <1>5

--------------------------------------------------------------------------------
(* The steps of the stage. *)

\* A step of a hook or a rollout between two stages that are neither arms nor the end.
LEMMA StageMoves ==
    ASSUME StageInv, NEW r \in Receipts, NEW s, NEW v, Goto(r, s), UNCHANGED <<day, results>>,
           picked' = picked \/ picked' = [picked EXCEPT ![r] = v],
           r \in Busy \/ Cardinality(Busy) < Slots,
           s \notin {"shadow_arm", "control_arm"},
           stage[r] \notin {"shadow_arm", "control_arm", "done"}
    PROVE  StageInv'
<1>1. BudgetInv'
  BY NoArmStarts DEF StageInv
<1>2. OneTrial'
  BY NoArmRuns
<1> QED
  BY <1>1, <1>2 DEF StageInv

\* A step that leaves the stage alone.
LEMMA StageLeft ==
    ASSUME StageInv, UNCHANGED <<day, results, stage, picked>>
    PROVE  StageInv'
<1>1. Busy' = Busy
  BY DEF Busy
<1>2. \A w : \A k \in {"shadow_arm", "control_arm"} : In(w, k)' \subseteq In(w, k)
  BY DEF In
<1>3. BudgetInv'
  BY <1>1, <1>2, Fewer DEF StageInv, BudgetInv
<1>4. OneTrial'
  BY DEF StageInv, OneTrial, Arms
<1> QED
  BY <1>3, <1>4 DEF StageInv

\* A crash ends every hook and every rollout in flight; the rows stay.
LEMMA StageCrashes ==
    ASSUME StageInv, UNCHANGED <<day, results, picked>>,
           stage' = [r \in Receipts |-> IF r \in Busy THEN "done" ELSE stage[r]]
    PROVE  StageInv'
<1>1. Busy' = {}
  BY DEF Busy, InFlight
<1>2. Cardinality(Busy)' <= Slots
  BY <1>1, FS_EmptySet, ShadowAssumption
<1>3. \A w : \A k \in {"shadow_arm", "control_arm"} : In(w, k)' \subseteq In(w, k)
  BY DEF In
<1>4. BudgetInv'
  BY <1>2, <1>3, Fewer DEF StageInv
<1>5. OneTrial'
  <2>1. \A r \in Receipts : Arms(r, "SHADOW")' = Arms(r, "SHADOW")
    BY DEF Arms
  <2> QED
    BY <2>1 DEF StageInv, OneTrial
<1> QED
  BY <1>4, <1>5 DEF StageInv

\* Every step of the shadow stage keeps its invariant, the versions and the rows there are.
LEMMA StageSteps ==
    ASSUME StageInv, ShadowStep
    PROVE  StageInv' /\ versions' = versions /\ results \subseteq results'
<1>1. CASE NextDay
  <2>1. BudgetInv' /\ versions' = versions /\ results' = results
    BY <1>1, NextDaySafe DEF StageInv, NextDay
  <2>2. OneTrial'
    BY <1>1 DEF NextDay, StageInv, OneTrial, Arms
  <2> QED
    BY <2>1, <2>2 DEF StageInv
<1>2. ASSUME NEW r \in Receipts, CommitReceipt(r) \/ RecordDecision(r) \/ HookFails(r)
      PROVE  StageInv' /\ versions' = versions /\ results \subseteq results'
  <2>1. UNCHANGED <<versions, day, results, picked>>
    BY <1>2 DEF CommitReceipt, RecordDecision, HookFails
  <2>2. /\ r \in Busy \/ Cardinality(Busy) < Slots
        /\ stage[r] \notin {"shadow_arm", "control_arm", "done"}
    BY <1>2 DEF CommitReceipt, RecordDecision, HookFails, Busy, InFlight
  <2>3. PICK s \in {"listing", "executing"} : Goto(r, s)
    BY <1>2 DEF CommitReceipt, RecordDecision, HookFails
  <2> QED
    BY <2>1, <2>2, <2>3, StageMoves
<1>3. ASSUME NEW r \in Receipts, PickShadow(r) \/ StartRollout(r)
      PROVE  StageInv' /\ versions' = versions /\ results \subseteq results'
  <2>1. UNCHANGED <<versions, day, results>>
    BY <1>3 DEF PickShadow, StartRollout
  <2>2. r \in Busy /\ stage[r] \notin {"shadow_arm", "control_arm", "done"}
    BY <1>3 DEF PickShadow, StartRollout, Busy, InFlight
  <2>3. PICK s, v : /\ s \in {"recording", "executing", "checking", "done"}
                    /\ Goto(r, s)
                    /\ picked' = picked \/ picked' = [picked EXCEPT ![r] = v]
    <3>1. CASE PickShadow(r)
      BY <3>1 DEF PickShadow
    <3>2. CASE StartRollout(r)
      BY <3>2 DEF StartRollout
    <3> QED
      BY <1>3, <3>1, <3>2
  <2> QED
    BY <2>1, <2>2, <2>3, StageMoves
<1>4. ASSUME NEW r \in Receipts, CheckBudget(r)
      PROVE  StageInv' /\ versions' = versions /\ results \subseteq results'
  <2>1. UNCHANGED <<versions, results, picked>> /\ stage[r] = "checking"
    BY <1>4 DEF CheckBudget
  <2>2. PICK s \in {"shadow_arm", "done"} : Goto(r, s)
    BY <1>4 DEF CheckBudget
  <2>3. OneTrial'
    BY <2>1, <2>2, NoArmRuns
  <2> QED
    BY <1>4, <2>1, <2>3, CheckBudgetSafe DEF StageInv
<1>5. ASSUME NEW r \in Receipts, RunShadowArm(r) \/ RunControlArm(r)
      PROVE  StageInv' /\ versions' = versions /\ results \subseteq results'
  <2>1. versions' = versions /\ results \subseteq results'
    BY <1>5 DEF RunShadowArm, RunControlArm, AddArm
  <2> QED
    BY <1>5, <2>1, ArmSafe, ArmTrials DEF StageInv
<1>6. ASSUME NEW r \in Receipts, ArmFails(r)
      PROVE  StageInv' /\ versions' = versions /\ results \subseteq results'
  <2>1. UNCHANGED <<versions, day, results, picked>> /\ Goto(r, "done") /\ r \in Busy
    BY <1>6 DEF ArmFails, Busy, InFlight
  <2>2. DOMAIN stage' = Receipts /\ Cardinality(Busy)' <= Slots
    BY <2>1, BusyNotAbove DEF StageInv
  <2>3. \A w : \A k \in {"shadow_arm", "control_arm"} : In(w, k)' \subseteq In(w, k)
    BY <2>1 DEF In, Goto, StageInv, BudgetInv
  <2>4. BudgetInv'
    BY <2>1, <2>2, <2>3, Fewer DEF StageInv
  <2>5. OneTrial'
    BY <2>1, NoArmRuns
  <2> QED
    BY <2>1, <2>4, <2>5 DEF StageInv
<1> QED
  BY <1>1, <1>2, <1>3, <1>4, <1>5, <1>6 DEF ShadowStep

\* A stage that starts with no hook and no rollout in flight, after rows of finished receipts
\* within the caps.
LEMMA StageStarts ==
    ASSUME NEW finished, finished \subseteq Receipts, day = 0, IsFiniteSet(results),
           stage = [r \in Receipts |-> IF r \in finished THEN "done" ELSE "waiting"],
           picked = [r \in Receipts |-> None],
           \A x \in results : x.receipt \in finished /\ x.trial = 0 /\ x.day = 0,
           \A v : BudgetOf(v) \in Budgets /\ RowsOn(v, 0) # {} => Bounded(v, Rows(v, 0))
    PROVE  StageInv
<1>1. Busy = {} /\ \A w : In(w, "shadow_arm") = {} /\ In(w, "control_arm") = {}
  BY DEF Busy, In, InFlight
<1>2. ASSUME NEW w, BudgetOf(w) \in Budgets
      PROVE  WithinLimits(w)
  <2>1. Load(w) = Rows(w, day) + 2 * 0 + 0
    BY <1>1, FS_EmptySet DEF Load
  <2>2. Rows(w, day) \in Nat
    <3>1. RowsOn(w, day) \in SUBSET results
      BY DEF RowsOn
    <3> QED
      BY <3>1, FS_Subset, FS_CardinalityType DEF Rows
  <2>3. Bounded(w, Rows(w, day))
    <3>1. CASE RowsOn(w, day) = {}
      <4>1. Rows(w, day) = 0
        BY <3>1, FS_EmptySet DEF Rows
      <4>2. /\ TrialCap[BudgetOf(w)] \in Nat \ {0} /\ CostCap[BudgetOf(w)] \in Nat \ {0}
            /\ Slots \in Nat
        BY <1>2, ShadowAssumption
      <4> QED
        BY <4>1, <4>2 DEF Bounded
    <3>2. CASE RowsOn(w, day) # {}
      BY <1>2, <3>2
    <3> QED
      BY <3>1, <3>2
  <2>4. Load(w) = Rows(w, day)
    BY <2>1, <2>2
  <2>5. 0..day = {day}
    OBVIOUS
  <2> QED
    BY <2>3, <2>4, <2>5 DEF WithinLimits
<1>3. Cardinality(Busy) <= Slots
  BY <1>1, FS_EmptySet, ShadowAssumption
<1>4. BudgetInv
  BY <1>2, <1>3 DEF BudgetInv
<1>5. OneTrial
  BY DEF OneTrial
<1> QED
  BY <1>4, <1>5 DEF StageInv

--------------------------------------------------------------------------------
(* What the invariant says of budgets and of evidence. *)

\* On no day has a version more arms than its caps and the rollouts in flight allow.
LEMMA StageWithinCaps ==
    ASSUME StageInv, \A v \in ShadowVersions : BudgetOf(v) \in Budgets
    PROVE  OvershootBounded
<1> SUFFICES ASSUME NEW v \in ShadowVersions, NEW d \in 0..MaxDay
             PROVE  Bounded(v, Rows(v, d))
  BY DEF OvershootBounded, Bounded, Rows
<1>1. BudgetOf(v) \in Budgets /\ WithinLimits(v)
  BY DEF StageInv, BudgetInv
<1>2. Rows(v, d) \in Nat /\ Rows(v, day) \in Nat /\ Load(v) \in Nat /\ Rows(v, day) <= Load(v)
  BY Counts DEF StageInv
<1>3. CASE d = day
  BY <1>1, <1>2, <1>3, LoadNotAbove DEF WithinLimits
<1>4. CASE d \in 0..day /\ d # day
  BY <1>1, <1>4 DEF WithinLimits
<1>5. CASE d \notin 0..day
  <2>1. RowsOn(v, d) = {}
    BY <1>5 DEF RowsOn, StageInv, BudgetInv
  <2>2. Rows(v, d) = 0
    BY <2>1, FS_EmptySet DEF Rows
  <2>3. /\ TrialCap[BudgetOf(v)] \in Nat \ {0} /\ CostCap[BudgetOf(v)] \in Nat \ {0}
        /\ Slots \in Nat
    BY <1>1, ShadowAssumption
  <2> QED
    BY <2>2, <2>3 DEF Bounded
<1> QED
  BY <1>3, <1>4, <1>5

\* More rows never show fewer receipts with both arms.
LEMMA TriedGrows ==
    ASSUME NEW v, NEW S, NEW T, S \subseteq T
    PROVE  /\ Cardinality(Tried(S, v)) \in Nat /\ Cardinality(Tried(T, v)) \in Nat
           /\ Cardinality(Tried(S, v)) <= Cardinality(Tried(T, v))
<1>1. Tried(S, v) \subseteq Tried(T, v) /\ Tried(T, v) \subseteq Receipts
  BY DEF Tried
<1>2. IsFiniteSet(Tried(T, v))
  BY <1>1, ShadowAssumption, FS_Subset
<1> QED
  BY <1>1, <1>2, FS_Subset, FS_CardinalityType

\* paired_deltas: the pairs shadow_gate counts are no more than the receipts both arms ran for.
LEMMA PairsAreReceipts ==
    ASSUME StageInv, NEW v, NEW heard
    PROVE  /\ Cardinality(Complete(v, heard)) \in Nat
           /\ Cardinality(Tried(results, v)) \in Nat
           /\ Cardinality(Complete(v, heard)) <= Cardinality(Tried(results, v))
<1> DEFINE C == Complete(v, heard)
           T == Tried(results, v)
           f == [p \in C |-> p[1]]
<1>1. ASSUME NEW p \in C
      PROVE  p = <<p[1], 0>> /\ p[1] \in T
  <2>1. PICK x \in results : /\ p = <<x.receipt, x.trial>> /\ x.version = v /\ x.kind = "SHADOW"
    BY DEF Complete, ArmsOf
  <2>2. PICK y \in results : /\ p = <<y.receipt, y.trial>> /\ y.version = v /\ y.kind = "CONTROL"
    BY DEF Complete, ArmsOf
  <2>3. x.receipt \in Receipts /\ x.trial = 0 /\ p[1] = x.receipt /\ p[1] = y.receipt
    BY <2>1, <2>2 DEF StageInv, OneTrial
  <2> QED
    BY <2>1, <2>2, <2>3, Zenon DEF Tried
<1>2. IsFiniteSet(T)
  <2>1. T \subseteq Receipts
    BY DEF Tried
  <2> QED
    BY <2>1, ShadowAssumption, FS_Subset
<1>3. f \in Injection(C, T)
  <2> HIDE DEF C, T
  <2> QED
    BY <1>1 DEF Injection, IsInjective
<1> HIDE DEF C, T, f
<1>4. Cardinality(C) <= Cardinality(T) /\ Cardinality(C) \in Nat /\ Cardinality(T) \in Nat
  BY <1>2, <1>3, FS_Injection, FS_CardinalityType
<1> QED
  BY <1>4 DEF C, T

================================================================================
