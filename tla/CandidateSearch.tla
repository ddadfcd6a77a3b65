------------------------------ MODULE CandidateSearch ------------------------------
(***************************************************************************)
(* Candidate search at a graph node (orchestration/search.py): candidates run in *)
(* worktrees of their own, in waves, under the concurrency limiter; verification  *)
(* scores them; the winner's patch is promoted into the parent workspace.         *)
(* Around it: cancellation, a crash at any point and the reconciliation at        *)
(* startup, experiences that are retracted, and the run being cancelled.          *)
(*                                                                         *)
(* x[s].pc names the store, runtime or worktree call search s waits for, and       *)
(* w[s][i].pc the one candidate i waits for.  Turns stand for both budgets the     *)
(* code keeps, turns and tool calls, which it treats alike.                       *)
(***************************************************************************)
EXTENDS Sequences, SequencesExt, ExperienceReuse

CONSTANT Scenarios
    \* Scenarios: records with plans (a function of the searches), limits, health of the
    \* providers, rivals (providers on which another run holds a slot), experiences, query,
    \* worlds (what the repository and the installation may become), outcomes (what a candidate may come to),
    \* events (what else may happen) and maxCrashes (a bound on crashes)

VARIABLES sc, search, cand, promotion, tree, account, lock, x, w, rivals, refs, world,
          retracted, canceller, up, crashes, late

vars == <<sc, search, cand, promotion, tree, account, lock, x, w, rivals, refs, world,
          retracted, canceller, up, crashes, late>>
durable == <<search, cand, promotion, tree, account>>
volatile == <<lock, x, w, rivals, refs, canceller>>
outside == <<sc, world, retracted, up, crashes, late>>

Searches == DOMAIN sc.plans
Plan(s) == sc.plans[s]
Providers == {"CLAUDE", "CODEX"}
NoStop == [status |-> "none", reason |-> "none", selected |-> 0]
Settled == {"SUCCEEDED", "STOPPED", "CANCELLED", "REQUIRES_HUMAN"}

NewRecord == [status |-> "PLANNED", reason |-> "none", selected |-> 0, spent |-> 0,
              snapshot |-> <<>>, revision |-> 1]

\* The bounds a plan is stored under.
PlanValid(p) ==
    /\ p.branches \in 1..4 /\ p.parallel \in 1..p.branches
    /\ p.perBranch > 0 /\ p.perBranch <= p.total
    /\ p.mode = "REPLAY_BRANCH" => p.branches = 1 + Len(p.seeds)
    /\ p.mode # "REPLAY_BRANCH" => p.seeds = <<>>
\* create_plan: a run that is pending or paused, an agent node without capabilities of an
\* accepted graph, and no more than the task and the rest of its budget allow.
PlanAdmitted(p) ==
    /\ PlanValid(p)
    /\ p.run \in {"PENDING", "PAUSED"} /\ p.accepted
    /\ p.node = "AGENT" /\ ~p.capabilities
    /\ p.mode = "GENERATOR_REVIEWER" => p.branches = 2 /\ p.perBranch >= 2
    /\ p.mode = "CROSS_PROVIDER" => p.branches \in {2, 4}
    /\ p.parallel <= p.taskParallel
    /\ p.total <= p.taskTurns - p.alreadySpent

\* What the run had spent when the search begins: since planning, other nodes ran.
Before(s) == Plan(s).alreadySpent + Plan(s).since
IdleExecutor == [pc |-> "enter", seen |-> 0, snapshot |-> <<>>, offset |-> 0,
                 left |-> 0, wave |-> {}, base |-> 0, stop |-> NoStop, winner |-> 0]
IdleWorker == [pc |-> "idle", turns |-> 0, borrowed |-> FALSE, slots |-> 0,
               interrupted |-> FALSE, end |-> "none"]

Init ==
    /\ sc \in Scenarios
    /\ \A s \in Searches : PlanAdmitted(Plan(s))
    /\ search = [s \in Searches |-> NewRecord]
    /\ cand = [s \in Searches |-> <<>>]
    /\ promotion = [s \in Searches |-> [status |-> "none", winner |-> 0, before |-> <<>>]]
    /\ tree = [s \in Searches |-> <<>>]
    /\ account = [s \in Searches |-> Before(s)]
    /\ lock = [s \in Searches |-> "free"]
    /\ x = [s \in Searches |-> IdleExecutor]
    /\ w = [s \in Searches |-> [i \in 1..4 |-> IdleWorker]]
    /\ rivals = sc.rivals
    /\ refs = [s \in Searches |-> {}]
    /\ world = 1
    /\ retracted = {}
    /\ canceller = [s \in Searches |-> [pc |-> "ready", seen |-> 0]]
    /\ up = "serving"
    /\ crashes = 0
    /\ late = {}

--------------------------------------------------------------------------------
(* The record: read, then write if nobody wrote in between. *)

At(s, pc) == up = "serving" /\ x[s].pc = pc
Recovering(s, pc) == up = "starting" /\ x[s].pc = pc
Go(s, update) == x' = [x EXCEPT ![s] = update]
To(s, pc) == Go(s, [x[s] EXCEPT !.pc = pc])
\* 0: the record was cancelled when it was read, and is left alone.
Seen(s) == IF search[s].status = "CANCELLED" THEN 0 ELSE search[s].revision
ReadThen(s, pc) == Go(s, [x[s] EXCEPT !.pc = pc, !.seen = Seen(s)])
UpdateSearch(s, new) == search' = [search EXCEPT ![s] = [new EXCEPT !.revision = @ + 1]]

\* _update_record: a write over a revision that has moved on raises.
Update(s, new, next) ==
    IF x[s].seen = 0 THEN UNCHANGED search /\ To(s, next)
    ELSE IF search[s].revision = x[s].seen THEN UpdateSearch(s, new) /\ To(s, next)
    ELSE UNCHANGED search /\ To(s, "raised")

Release(s) == lock' = IF lock[s] = "executor" THEN [lock EXCEPT ![s] = "free"] ELSE lock
StopWith(s, status, reason, selected) ==
    Go(s, [x[s] EXCEPT !.pc = "stop read",
                       !.stop = [status |-> status, reason |-> reason, selected |-> selected]])
\* _stop, outside or inside the search lock; leaving promotion releases the lock.
StopRead(s) ==
    /\ At(s, "stop read")
    /\ IF search[s].status = "CANCELLED"
         THEN To(s, "returned") /\ Release(s)
         ELSE ReadThen(s, "stop write") /\ UNCHANGED lock
    /\ UNCHANGED <<durable, w, rivals, refs, canceller, outside>>
StopWrite(s) ==
    /\ At(s, "stop write")
    /\ Update(s, [search[s] EXCEPT !.status = x[s].stop.status, !.reason = x[s].stop.reason,
                                   !.selected = x[s].stop.selected], "returned")
    /\ refs' = IF x'[s].pc = "returned" THEN [refs EXCEPT ![s] = {}] ELSE refs
    /\ Release(s)
    /\ UNCHANGED <<cand, promotion, tree, account, w, rivals, canceller, outside>>

--------------------------------------------------------------------------------
(* Seeds of past experience. *)

World == sc.worlds[world]
Experience(e) == [sc.experiences[e] EXCEPT !.retracted = e \in retracted]
Accepts(e, provider) ==
    /\ World.enabled
    /\ e.segments = "VALID" /\ e.polarity = "POSITIVE"
    /\ ReplayEligible(World, sc.query, e, provider)
    /\ Disposition(World, sc.query, e, provider) = "ACCEPTED"

\* _revalidate_replay_candidate: a fresh candidate passes; a seed must have been frozen
\* and its experience must still be eligible.
SeedValid(c) == c.seed = 0 \/ (c.seeded /\ Accepts(Experience(c.seed), c.provider))
Reject(c) == [c EXCEPT !.status = "PRUNED"]

--------------------------------------------------------------------------------
(* Who runs the candidates. *)

RuntimeScore(p, own) ==
    35 * sc.health[p].quality + 25 + (IF p = own THEN 15 ELSE 7)
      - 10 * sc.health[p].pressure - 10 * sc.health[p].latency
Available == {p \in Providers : sc.health[p].ready}
\* The router's choice: the best score, then the provider's name.
Selected(own) ==
    CHOOSE p \in Available :
        \A q \in Available : \/ RuntimeScore(p, own) > RuntimeScore(q, own)
                             \/ RuntimeScore(p, own) = RuntimeScore(q, own)
                                  /\ (p = "CLAUDE" \/ q = "CODEX")
TwoProviders(s) == Plan(s).mode \in {"CROSS_PROVIDER", "GENERATOR_REVIEWER"}
RuntimeAssignments(s) ==
    IF IF TwoProviders(s) THEN Available # Providers ELSE Available = {}
      THEN <<>>
      ELSE [i \in 1..Plan(s).branches |->
              [provider |-> IF ~TwoProviders(s) THEN Selected(Plan(s).provider)
                            ELSE IF i % 2 = 1 THEN "CLAUDE" ELSE "CODEX",
               reviewer |-> Plan(s).mode = "GENERATOR_REVIEWER"]]
CreateCandidates(s) ==
    [i \in 1..Plan(s).branches |->
       LET seed == IF Plan(s).mode = "REPLAY_BRANCH" /\ i > 1 THEN Plan(s).seeds[i - 1] ELSE 0
       IN [status |-> "PENDING", provider |-> RuntimeAssignments(s)[i].provider,
           reviewer |-> RuntimeAssignments(s)[i].reviewer, seed |-> seed,
           seeded |-> seed # 0 /\ Experience(seed).segments = "VALID",
           spent |-> 0, patch |-> 0, verdict |-> "none", total |-> 0]]

--------------------------------------------------------------------------------
(* The search at the node. *)

Enter(s) ==
    /\ At(s, "enter")
    /\ IF search[s].status = "PLANNED" THEN ReadThen(s, "claim") ELSE To(s, "returned")
    /\ UNCHANGED <<durable, lock, w, rivals, refs, canceller, outside>>
Claim(s) ==
    /\ At(s, "claim")
    /\ Update(s, [search[s] EXCEPT !.status = "RUNNING"], "snapshot")
    /\ UNCHANGED <<cand, promotion, tree, account, lock, w, rivals, refs, canceller, outside>>
\* The parent's diff is taken, then kept on the record.
Snapshot(s) ==
    /\ At(s, "snapshot")
    /\ Go(s, [x[s] EXCEPT !.pc = "keep snapshot", !.seen = Seen(s), !.snapshot = tree[s]])
    /\ UNCHANGED <<durable, lock, w, rivals, refs, canceller, outside>>
KeepSnapshot(s) ==
    /\ At(s, "keep snapshot")
    /\ Update(s, [search[s] EXCEPT !.snapshot = x[s].snapshot], "assign")
    /\ UNCHANGED <<cand, promotion, tree, account, lock, w, rivals, refs, canceller, outside>>

Least(a, b) == IF a < b THEN a ELSE b
Budget(s) ==
    LET rest == Plan(s).taskTurns - account[s]
    IN Least(Plan(s).total, IF rest > 0 THEN rest ELSE 0)
Assign(s) ==
    /\ At(s, "assign")
    /\ IF RuntimeAssignments(s) = <<>>
         THEN UNCHANGED cand /\ StopWith(s, "STOPPED", "PROVIDER_UNAVAILABLE", 0)
         ELSE /\ cand' = [cand EXCEPT ![s] = CreateCandidates(s)]
              /\ IF Budget(s) = 0
                   THEN StopWith(s, "STOPPED", "BUDGET_EXHAUSTED", 0)
                   ELSE Go(s, [x[s] EXCEPT !.pc = "wave", !.left = Budget(s), !.offset = 0])
    /\ UNCHANGED <<search, promotion, tree, account, lock, w, rivals, refs, canceller, outside>>

Width(s) == Least(Plan(s).parallel, Least(sc.limits.global, Least(sc.limits.provider,
                                                                   sc.limits.project)))
Wave(s) == (x[s].offset + 1)..Least(x[s].offset + Width(s), Len(cand[s]))

\* What candidate i of the wave may spend after the ones before it took their share.
Share(s, i) ==
    LET before == (i - x[s].offset - 1) * Plan(s).perBranch
        rest == x[s].left - before
    IN IF rest > 0 THEN Least(Plan(s).perBranch, rest) ELSE 0
BorrowedCandidate(s) ==
    LET own == {i \in Wave(s) : cand[s][i].provider = Plan(s).provider}
        pool == IF own = {} THEN Wave(s) ELSE own
    IN CHOOSE i \in pool : \A j \in pool : i <= j
LaunchWave(s) ==
    LET funded == {i \in Wave(s) : Share(s, i) > 0}
        reserved == Least(x[s].left, Cardinality(Wave(s)) * Plan(s).perBranch)
    IN /\ w' = [w EXCEPT ![s] = [i \in 1..4 |->
                   IF i \in funded
                     THEN [IdleWorker EXCEPT !.pc = "launch", !.turns = Share(s, i),
                                             !.borrowed = i = BorrowedCandidate(s)]
                     ELSE w[s][i]]]
       /\ cand' = [cand EXCEPT ![s] = [i \in DOMAIN @ |->
                     IF i \in Wave(s) \ funded THEN Reject(@[i]) ELSE @[i]]]
       /\ Go(s, [x[s] EXCEPT !.pc = "gather", !.left = @ - reserved, !.wave = funded,
                             !.offset = @ + Width(s)])
StartWave(s) ==
    /\ At(s, "wave")
    /\ IF search[s].status = "CANCELLED"
         THEN To(s, "returned") /\ UNCHANGED <<cand, w>>
         ELSE \/ LaunchWave(s)
              \/ /\ "deadline" \in sc.events
                 /\ StopWith(s, "STOPPED", "BUDGET_EXHAUSTED", 0)
                 /\ UNCHANGED <<cand, w>>
    /\ UNCHANGED <<search, promotion, tree, account, lock, rivals, refs, canceller, outside>>

SpentBy(cs) == FoldSeq(LAMBDA c, sum : c.spent + sum, 0, cs)
\* gather returns; _persist_spend reads the record.
Gather(s) ==
    /\ At(s, "gather")
    /\ \A i \in x[s].wave : w[s][i].pc = "done"
    /\ Go(s, [x[s] EXCEPT !.pc = "spend", !.seen = Seen(s), !.base = search[s].spent])
    /\ UNCHANGED <<durable, lock, w, rivals, refs, canceller, outside>>
PersistSpend(s) ==
    /\ At(s, "spend")
    /\ Update(s, [search[s] EXCEPT !.spent = SpentBy(cand[s])], "charge")
    /\ UNCHANGED <<cand, promotion, tree, account, lock, w, rivals, refs, canceller, outside>>
ChargeAll(s) == SpentBy(cand[s])
Charge(s) == LET more == SpentBy(cand[s]) - x[s].base IN IF more > 0 THEN more ELSE 0
AddBudgetSpent(s) ==
    /\ At(s, "charge")
    /\ account' = [account EXCEPT ![s] = @ + Charge(s)]
    /\ IF /\ Plan(s).mode # "REPLAY_BRANCH"
          /\ \E i \in DOMAIN cand[s] : cand[s][i].verdict = "PASS"
         THEN /\ cand' = [cand EXCEPT ![s] = [i \in DOMAIN @ |->
                            IF i > x[s].offset THEN Reject(@[i]) ELSE @[i]]]
              /\ To(s, "closing")
         ELSE /\ UNCHANGED cand
              /\ To(s, IF x[s].offset < Len(cand[s]) THEN "wave" ELSE "closing")
    /\ UNCHANGED <<search, promotion, tree, lock, w, rivals, refs, canceller, outside>>

--------------------------------------------------------------------------------
(* One candidate.  Its steps change its own row and its worker. *)

Running(s, i, pc) == up = "serving" /\ w[s][i].pc = pc
Worker(s, i, update) == w' = [w EXCEPT ![s][i] = update]
Row(s, i, update) == cand' = [cand EXCEPT ![s][i] = update]
WorkerOnly == UNCHANGED <<search, promotion, tree, account, lock, x, rivals, canceller, outside>>
\* The candidate's coroutine ends: the async with releases the slots it holds.
Finish(s, i) == Worker(s, i, [w[s][i] EXCEPT !.pc = "done", !.slots = 0])

Launch(s, i) ==
    /\ Running(s, i, "launch")
    /\ IF SeedValid(cand[s][i])
         THEN /\ Worker(s, i, [w[s][i] EXCEPT !.pc = IF w[s][i].borrowed THEN "start"
                                              ELSE "slot"])
              /\ UNCHANGED cand
         ELSE Row(s, i, Reject(cand[s][i])) /\ Finish(s, i)
    /\ UNCHANGED refs /\ WorkerOnly

\* The limiter: the global semaphore, then the provider's, then the project's.  A parent run
\* holds all three for its own provider; the searches of a scenario share a project.
Executing(s) == x[s].pc \notin {"returned", "raised", "abandoned"}
Holding(k) == {c \in Searches \X (1..4) : w[c[1]][c[2]].slots >= k}
ParentsOn(p) == {s \in Searches : Executing(s) /\ Plan(s).provider = p}
HoldersOf(p) == {c \in Holding(2) : cand[c[1]][c[2]].provider = p}
SlotFree(k, p) ==
    LET parents == Cardinality({s \in Searches : Executing(s)})
    IN CASE k = 1 -> parents + Cardinality(rivals) + Cardinality(Holding(1)) < sc.limits.global
         [] k = 2 -> Cardinality(ParentsOn(p)) + Cardinality(HoldersOf(p))
                       + Cardinality(rivals \cap {p}) < sc.limits.provider
         [] k = 3 -> parents + Cardinality(Holding(3)) < sc.limits.project
Acquire(s, i) ==
    /\ Running(s, i, "slot")
    /\ SlotFree(w[s][i].slots + 1, cand[s][i].provider)
    /\ Worker(s, i, [w[s][i] EXCEPT !.slots = @ + 1, !.pc = IF w[s][i].slots = 2 THEN "start"
                                                            ELSE "slot"])
    /\ UNCHANGED <<cand, refs>> /\ WorkerOnly

\* Any call of the candidate may raise: it failed, and nothing is charged for it.
Fault(s, i) ==
    /\ "fault" \in sc.events
    /\ \E pc \in {"start", "submit", "run", "review"} : Running(s, i, pc)
    /\ Row(s, i, [cand[s][i] EXCEPT !.status = "FAILED"])
    /\ Finish(s, i)
    /\ UNCHANGED refs /\ WorkerOnly
\* A worktree of its own with the parent's patch applied, a session, the row RUNNING.
Start(s, i) ==
    /\ Running(s, i, "start")
    /\ Row(s, i, [cand[s][i] EXCEPT !.status = "RUNNING"])
    /\ Worker(s, i, [w[s][i] EXCEPT !.pc = "submit"])
    /\ UNCHANGED refs /\ WorkerOnly
\* A generator leaves one turn to its reviewer; a request for no turn is refused.
Submit(s, i) ==
    /\ Running(s, i, "submit")
    /\ IF cand[s][i].reviewer /\ w[s][i].turns < 2
         THEN /\ Row(s, i, [cand[s][i] EXCEPT !.status = "FAILED"])
              /\ Finish(s, i) /\ UNCHANGED refs
         ELSE /\ refs' = [refs EXCEPT ![s] = @ \cup {i}]
              /\ Worker(s, i, [w[s][i] EXCEPT !.pc = "run"])
              /\ UNCHANGED cand
    /\ WorkerOnly

Status(end) == IF end = "cancelled" THEN "CANCELLED"
               ELSE IF end = "completed" THEN "COMPLETED" ELSE "FAILED"
\* The diff is captured, verified and scored; an interrupted or timed out call is cancelled.
Judge(s, i, end) ==
    \E o \in sc.outcomes[i] :
        /\ Row(s, i, [cand[s][i] EXCEPT !.status = Status(end), !.patch = o.patch,
                                        !.spent = IF cand[s][i].reviewer THEN 2 ELSE 1,
                                        !.verdict = o.verdict,
                                        !.total = IF o.verdict = "PASS" THEN o.total ELSE 0])
        /\ Finish(s, i)
Ends(s, i) == IF w[s][i].interrupted THEN {"cancelled"} ELSE sc.ends
CallEnds(s, i) ==
    /\ Running(s, i, "run")
    /\ \E end \in Ends(s, i) :
         IF cand[s][i].reviewer /\ end = "completed"
           THEN /\ Worker(s, i, [w[s][i] EXCEPT !.pc = "review", !.interrupted = FALSE])
                /\ UNCHANGED cand
           ELSE Judge(s, i, end)
    /\ UNCHANGED refs /\ WorkerOnly
\* The reviewer's call is submitted under the generator's slot; a review that does not
\* complete fails the candidate.
ReviewEnds(s, i) ==
    /\ Running(s, i, "review")
    /\ \E end \in Ends(s, i) : Judge(s, i, IF end = "completed" THEN end ELSE "failed")
    /\ UNCHANGED refs /\ WorkerOnly

--------------------------------------------------------------------------------
(* Selection and promotion. *)

Closing(s) ==
    /\ At(s, "closing")
    /\ To(s, IF search[s].status = "CANCELLED" THEN "returned" ELSE "selecting read")
    /\ UNCHANGED <<durable, lock, w, rivals, refs, canceller, outside>>
SelectingRead(s) ==
    /\ At(s, "selecting read")
    /\ ReadThen(s, "selecting write")
    /\ UNCHANGED <<durable, lock, w, rivals, refs, canceller, outside>>
SelectingWrite(s) ==
    /\ At(s, "selecting write")
    /\ Update(s, [search[s] EXCEPT !.status = "SELECTING"], "select")
    /\ UNCHANGED <<cand, promotion, tree, account, lock, w, rivals, refs, canceller, outside>>

Revalidated(cs) ==
    [i \in DOMAIN cs |-> IF cs[i].status = "COMPLETED" /\ ~SeedValid(cs[i]) THEN Reject(cs[i])
                         ELSE cs[i]]
Eligible(cs) == {i \in DOMAIN cs : cs[i].verdict = "PASS" /\ cs[i].status = "COMPLETED"}
Ranked(cs) == SetToSortSeq(Eligible(cs), LAMBDA i, j : cs[i].total > cs[j].total
                                              \/ (cs[i].total = cs[j].total /\ i < j))
Decision(cs, gain) ==
    LET ranked == Ranked(cs)
        patches == {cs[i].patch : i \in Eligible(cs)} \ {0}
        lead == cs[ranked[1]].total - cs[ranked[2]].total
        stop(status, reason) == [status |-> status, reason |-> reason, winner |-> 0]
    IN IF ranked = <<>>
         THEN IF \E i \in DOMAIN cs : cs[i].verdict = "INCONCLUSIVE"
                THEN stop("REQUIRES_HUMAN", "VERIFIER_UNCERTAIN")
                ELSE stop("STOPPED", "CANDIDATE_FAILURE")
       ELSE IF Len(ranked) > 1 /\ Cardinality(patches) <= 1 THEN stop("STOPPED", "LOW_DIVERSITY")
       ELSE IF Len(ranked) > 1 /\ lead = 0 THEN stop("REQUIRES_HUMAN", "VERIFIER_UNCERTAIN")
       ELSE IF Len(ranked) > 1 /\ lead < gain THEN stop("STOPPED", "LOW_EXPECTED_GAIN")
       ELSE IF cs[ranked[1]].patch = 0 THEN stop("REQUIRES_HUMAN", "VERIFIER_UNCERTAIN")
       ELSE [status |-> "none", reason |-> "none", winner |-> ranked[1]]
SelectWinner(s) ==
    /\ At(s, "select")
    /\ cand' = [cand EXCEPT ![s] = Revalidated(@)]
    /\ LET d == Decision(Revalidated(cand[s]), Plan(s).gain)
       IN IF d.winner = 0 THEN StopWith(s, d.status, d.reason, 0)
          ELSE Go(s, [x[s] EXCEPT !.pc = "lock", !.winner = d.winner])
    /\ UNCHANGED <<search, promotion, tree, account, lock, w, rivals, refs, canceller, outside>>

\* Under the search lock: the status, the seed, the verifications (immutable rows, which
\* accepted the winner) and the parent's digest are looked at again.
PromoteWinner(s) ==
    /\ At(s, "lock") /\ lock[s] = "free"
    /\ IF search[s].status = "CANCELLED"
         THEN To(s, "returned") /\ UNCHANGED <<cand, lock>>
         ELSE /\ lock' = [lock EXCEPT ![s] = "executor"]
              /\ IF ~SeedValid(cand[s][x[s].winner])
                   THEN /\ Row(s, x[s].winner, Reject(cand[s][x[s].winner]))
                        /\ StopWith(s, "REQUIRES_HUMAN", "VERIFIER_UNCERTAIN", 0)
                   ELSE /\ UNCHANGED cand
                        /\ IF tree[s] # search[s].snapshot
                             THEN StopWith(s, "REQUIRES_HUMAN", "VERIFIER_UNCERTAIN", 0)
                             ELSE Go(s, [x[s] EXCEPT !.pc = "intent", !.snapshot = tree[s]])
    /\ UNCHANGED <<search, promotion, tree, account, w, rivals, refs, canceller, outside>>
SaveIntent(s) ==
    /\ At(s, "intent")
    /\ promotion' = [promotion EXCEPT ![s] = [status |-> "INTENT", winner |-> x[s].winner,
                                              before |-> x[s].snapshot]]
    /\ To(s, "apply")
    /\ UNCHANGED <<search, cand, tree, account, lock, w, rivals, refs, canceller, outside>>
\* git apply takes the patch as a whole or not at all.
ApplyDiff(s) ==
    /\ At(s, "apply")
    /\ \/ /\ tree' = [tree EXCEPT ![s] = Append(@, cand[s][x[s].winner].patch)]
          /\ To(s, "complete")
       \/ /\ tree[s] # promotion[s].before \/ "fault" \in sc.events
          /\ UNCHANGED tree /\ To(s, "conflict")
    /\ UNCHANGED <<search, cand, promotion, account, lock, w, rivals, refs, canceller, outside>>
SaveConflict(s) ==
    /\ At(s, "conflict")
    /\ promotion' = [promotion EXCEPT ![s].status = "CONFLICT"]
    /\ StopWith(s, "REQUIRES_HUMAN", "VERIFIER_UNCERTAIN", 0)
    /\ UNCHANGED <<search, cand, tree, account, lock, w, rivals, refs, canceller, outside>>
SaveCompleted(s) ==
    /\ At(s, "complete")
    /\ promotion' = [promotion EXCEPT ![s].status = "COMPLETED"]
    /\ To(s, "mark")
    /\ UNCHANGED <<search, cand, tree, account, lock, w, rivals, refs, canceller, outside>>
Outcome(cs, winner) ==
    [i \in DOMAIN cs |-> IF i = winner THEN [cs[i] EXCEPT !.status = "SELECTED"]
                         ELSE IF cs[i].status = "COMPLETED" THEN Reject(cs[i]) ELSE cs[i]]
MarkCandidates(s) ==
    /\ At(s, "mark")
    /\ cand' = [cand EXCEPT ![s] = Outcome(@, x[s].winner)]
    /\ StopWith(s, "SUCCEEDED", "ACCEPTED", x[s].winner)
    /\ UNCHANGED <<search, promotion, tree, account, lock, w, rivals, refs, canceller, outside>>

--------------------------------------------------------------------------------
(* The operator cancels the search. *)

Cancelling(s, pc) == up = "serving" /\ canceller[s].pc = pc
CancelAt(s, pc) == canceller' = [canceller EXCEPT ![s].pc = pc]
CancelReadUnlocked(s) ==
    /\ "cancel" \in sc.events
    /\ Cancelling(s, "ready")
    /\ IF search[s].status \in {"PLANNED", "RUNNING", "SELECTING"}
         THEN canceller' = [canceller EXCEPT ![s] = [pc |-> "write", seen |-> search[s].revision]]
         ELSE CancelAt(s, "done")
    /\ UNCHANGED <<durable, lock, x, w, rivals, refs, outside>>
CancelRead(s) ==
    /\ "cancel" \in sc.events
    /\ Cancelling(s, "ready") /\ lock[s] = "free"
    /\ IF search[s].status \in {"PLANNED", "RUNNING", "SELECTING"}
         THEN /\ lock' = [lock EXCEPT ![s] = "canceller"]
              /\ canceller' = [canceller EXCEPT ![s] = [pc |-> "write",
                                                        seen |-> search[s].revision]]
         ELSE CancelAt(s, "done") /\ UNCHANGED lock
    /\ UNCHANGED <<durable, x, w, rivals, refs, outside>>
CancelWrite(s) ==
    /\ Cancelling(s, "write")
    /\ lock' = [lock EXCEPT ![s] = IF @ = "canceller" THEN "free" ELSE @]
    /\ IF search[s].revision = canceller[s].seen
         THEN /\ UpdateSearch(s, [search[s] EXCEPT !.status = "CANCELLED",
                                                   !.reason = "OPERATOR_CANCELLED"])
              /\ CancelAt(s, "interrupt")
         ELSE UNCHANGED search /\ CancelAt(s, "conflict")
    /\ UNCHANGED <<cand, promotion, tree, account, x, w, rivals, refs, outside>>
\* Only the calls that had been submitted by now are interrupted.
Interrupt(s) ==
    /\ Cancelling(s, "interrupt")
    /\ w' = [w EXCEPT ![s] = [i \in 1..4 |-> [@[i] EXCEPT !.interrupted =
                 @ \/ (i \in refs[s] /\ w[s][i].pc \in {"run", "review"})]]]
    /\ CancelAt(s, "done")
    /\ UNCHANGED <<durable, lock, x, rivals, refs, outside>>

--------------------------------------------------------------------------------
(* What happens around a search. *)

\* The run is cancelled: its task is cancelled, and with it the candidates.  The search
\* and its running candidates stay as they are on record until the next start.
Abandon(s) ==
    /\ "abandon" \in sc.events /\ up = "serving"
    /\ Executing(s) /\ x[s].pc # "enter"
    /\ To(s, "abandoned")
    /\ w' = [w EXCEPT ![s] = [i \in 1..4 |-> IdleWorker]]
    /\ Release(s)
    /\ UNCHANGED <<durable, rivals, refs, canceller, outside>>
\* Somebody edits the parent workspace; 9 stands for the edit.
Touch(s) ==
    /\ "touch" \in sc.events /\ ~Contains(tree[s], 9)
    /\ tree' = [tree EXCEPT ![s] = Append(@, 9)]
    /\ UNCHANGED <<search, cand, promotion, account, volatile, outside>>
Patches(s) == {k \in DOMAIN tree[s] : tree[s][k] # 9}
\* Promotion's last look at the seed lies behind it.
PastLastCheck(s) == x[s].pc \in {"intent", "apply", "complete", "mark", "recovery apply",
                                 "recovery complete"} \/ Patches(s) # {}
RetractExperience ==
    /\ "retract" \in sc.events
    /\ \E e \in DOMAIN sc.experiences \ retracted : retracted' = retracted \cup {e}
    /\ late' = {s \in Searches : PastLastCheck(s)}
    /\ UNCHANGED <<sc, world, up, crashes, durable, volatile>>
WorldChanges ==
    /\ world < Len(sc.worlds) /\ world' = world + 1
    /\ UNCHANGED <<sc, retracted, up, crashes, late, durable, volatile>>
RivalReleases ==
    /\ rivals # {} /\ rivals' = {}
    /\ UNCHANGED <<durable, lock, x, w, refs, canceller, outside>>

Crash ==
    /\ up # "down" /\ crashes < sc.maxCrashes
    /\ up' = "down" /\ crashes' = crashes + 1
    /\ lock' = [s \in Searches |-> "free"]
    /\ x' = [s \in Searches |-> IdleExecutor]
    /\ w' = [s \in Searches |-> [i \in 1..4 |-> IdleWorker]]
    /\ refs' = [s \in Searches |-> {}]
    /\ canceller' = [s \in Searches |-> [canceller[s] EXCEPT !.pc = IF @ = "ready" THEN @ ELSE "done"]]
    /\ rivals' = {}
    /\ UNCHANGED <<durable, sc, world, retracted, late>>
ActiveRunning(s) == search[s].status = "RUNNING"
Active(s) == search[s].status \in {"RUNNING", "SELECTING"}
Restart ==
    /\ up = "down" /\ up' = "starting"
    /\ x' = [s \in Searches |-> [IdleExecutor EXCEPT !.pc = IF Active(s) THEN "recovery mark"
                                                            ELSE "enter"]]
    /\ UNCHANGED <<durable, sc, world, retracted, crashes, late, lock, w, rivals, refs, canceller>>
Serve ==
    /\ up = "starting" /\ \A s \in Searches : x[s].pc \in {"enter", "returned"}
    /\ up' = "serving"
    /\ UNCHANGED <<durable, volatile, sc, world, retracted, crashes, late>>

\* reconcile: calls in flight are charged a whole branch; the spend is kept, then charged.
MarkInterrupted(s) ==
    /\ Recovering(s, "recovery mark")
    /\ cand' = [cand EXCEPT ![s] = [i \in DOMAIN @ |->
                  IF @[i].status = "RUNNING"
                    THEN [@[i] EXCEPT !.status = "INTERRUPTED", !.spent = Plan(s).perBranch]
                    ELSE @[i]]]
    /\ Go(s, [x[s] EXCEPT !.pc = "recovery spend", !.seen = Seen(s), !.base = search[s].spent])
    /\ UNCHANGED <<search, promotion, tree, account, lock, w, rivals, refs, canceller, outside>>
RecoverySpend(s) ==
    /\ Recovering(s, "recovery spend")
    /\ Update(s, [search[s] EXCEPT !.spent = SpentBy(cand[s])], "recovery charge")
    /\ UNCHANGED <<cand, promotion, tree, account, lock, w, rivals, refs, canceller, outside>>
RecoveryCharge(s) ==
    /\ Recovering(s, "recovery charge")
    /\ account' = [account EXCEPT ![s] = @ + Charge(s)]
    /\ To(s, IF promotion[s].status = "INTENT" THEN "recovery check" ELSE "recovery stop")
    /\ UNCHANGED <<search, cand, promotion, tree, lock, w, rivals, refs, canceller, outside>>
ResumableAlways(s) == TRUE
Resumable(s) == tree[s] = promotion[s].before
\* _resume_promotion: only while the seed holds and the parent is as it was.
ResumeCheck(s) ==
    LET winner == promotion[s].winner
    IN /\ Recovering(s, "recovery check")
       /\ IF SeedValid(cand[s][winner]) /\ Resumable(s)
            THEN To(s, "recovery apply") /\ UNCHANGED <<promotion, cand>>
            ELSE /\ promotion' = [promotion EXCEPT ![s].status = "CONFLICT"]
                 /\ cand' = IF SeedValid(cand[s][winner]) THEN cand
                            ELSE [cand EXCEPT ![s][winner] = Reject(@)]
                 /\ To(s, "recovery stop")
       /\ UNCHANGED <<search, tree, account, lock, w, rivals, refs, canceller, outside>>
ResumeApply(s) ==
    /\ Recovering(s, "recovery apply")
    /\ tree' = [tree EXCEPT ![s] = Append(@, cand[s][promotion[s].winner].patch)]
    /\ To(s, "recovery complete")
    /\ UNCHANGED <<search, cand, promotion, account, lock, w, rivals, refs, canceller, outside>>
ResumeComplete(s) ==
    /\ Recovering(s, "recovery complete")
    /\ promotion' = [promotion EXCEPT ![s].status = "COMPLETED"]
    /\ cand' = [cand EXCEPT ![s] = Outcome(@, promotion[s].winner)]
    /\ Go(s, [x[s] EXCEPT !.pc = "recovery stop", !.winner = promotion[s].winner])
    /\ UNCHANGED <<search, tree, account, lock, w, rivals, refs, canceller, outside>>
RecoveryStop(s) ==
    /\ Recovering(s, "recovery stop")
    /\ UpdateSearch(s, IF x[s].winner # 0
         THEN [search[s] EXCEPT !.status = "SUCCEEDED", !.reason = "ACCEPTED",
                                !.selected = x[s].winner]
         ELSE [search[s] EXCEPT !.status = "REQUIRES_HUMAN", !.reason = "VERIFIER_UNCERTAIN"])
    /\ To(s, "returned")
    /\ UNCHANGED <<cand, promotion, tree, account, lock, w, rivals, refs, canceller, outside>>

Reconcile(s) ==
    \/ MarkInterrupted(s) \/ RecoverySpend(s) \/ RecoveryCharge(s) \/ ResumeCheck(s)
    \/ ResumeApply(s) \/ ResumeComplete(s) \/ RecoveryStop(s)
Execute(s) ==
    \/ Enter(s) \/ Claim(s) \/ Snapshot(s) \/ KeepSnapshot(s) \/ Assign(s) \/ StartWave(s)
    \/ Gather(s) \/ PersistSpend(s) \/ AddBudgetSpent(s) \/ Closing(s) \/ SelectingRead(s)
    \/ SelectingWrite(s) \/ SelectWinner(s) \/ PromoteWinner(s) \/ SaveIntent(s)
    \/ ApplyDiff(s) \/ SaveConflict(s) \/ SaveCompleted(s) \/ MarkCandidates(s)
    \/ StopRead(s) \/ StopWrite(s)
Explore(s, i) ==
    \/ Launch(s, i) \/ Acquire(s, i) \/ Start(s, i) \/ Submit(s, i) \/ CallEnds(s, i)
    \/ ReviewEnds(s, i)
Cancel(s) == CancelRead(s) \/ CancelWrite(s) \/ Interrupt(s)

Next ==
    \/ \E s \in Searches : \/ Execute(s) \/ Reconcile(s) \/ Cancel(s) \/ Abandon(s) \/ Touch(s)
                           \/ \E i \in 1..4 : Explore(s, i) \/ Fault(s, i)
    \/ RetractExperience \/ WorldChanges \/ RivalReleases \/ Crash \/ Restart \/ Serve

Fairness ==
    /\ \A s \in {"a", "b"} :
         /\ WF_vars(s \in Searches /\ (Execute(s) \/ Reconcile(s)))
         /\ WF_vars(s \in Searches /\ (CancelWrite(s) \/ Interrupt(s)))
         /\ \A i \in 1..4 : WF_vars(s \in Searches /\ Explore(s, i))
    /\ WF_vars(RivalReleases) /\ WF_vars(Restart) /\ WF_vars(Serve)
Spec == Init /\ [][Next]_vars /\ Fairness

--------------------------------------------------------------------------------
(* Properties. *)

\* A patch reaches the parent workspace at most once, however the process is stopped and
\* resumed: it is the recorded winner's, and verification had passed it.  A search that
\* succeeded has it in the workspace.  A candidate seeded by an experience that was retracted
\* is not promoted, except where the retraction came after promotion had looked at the seed
\* for the last time.
PromotedOnce ==
    \A s \in Searches :
        /\ Cardinality(Patches(s)) <= 1
        /\ \A k \in Patches(s) :
             LET winner == promotion[s].winner
             IN /\ promotion[s].status \in {"INTENT", "COMPLETED", "CONFLICT"}
                /\ tree[s][k] = cand[s][winner].patch
                /\ cand[s][winner].verdict = "PASS"
                /\ cand[s][winner].seed # 0 /\ s \notin late => cand[s][winner].seed \notin retracted
        /\ search[s].status = "SUCCEEDED" => Patches(s) # {}

\* A search that has been cancelled never changes the parent workspace any more.
CancelledNeverPromotes ==
    [][\A s \in Searches : search[s].status = "CANCELLED" => Patches(s)' = Patches(s)]_vars

\* What the run is charged is never more than what its candidates spent, and all of it once
\* the search has returned in a process that neither crashed nor dropped it.  Candidates never
\* spend more than the plan's total, nor the run more than its task allows; calls a restart
\* interrupted, charged a whole branch each, are the exception.
ChargedOnce ==
    \A s \in Searches :
        LET charged == account[s] - Before(s)
        IN /\ charged <= SpentBy(cand[s])
           /\ x[s].pc = "returned" /\ crashes = 0 => charged = SpentBy(cand[s])
           /\ (\A i \in DOMAIN cand[s] : cand[s][i].status # "INTERRUPTED")
                => SpentBy(cand[s]) <= Plan(s).total /\ account[s] <= Plan(s).taskTurns

\* Searches that wait for slots which searches hold.
CircularWait ==
    /\ \E s \in Searches, i \in 1..4 : w[s][i].pc = "slot"
    /\ \A s \in Searches : Executing(s)
         => \E i \in 1..4 : w[s][i].pc = "slot" /\ ~SlotFree(w[s][i].slots + 1, cand[s][i].provider)
\* A search that has begun settles, whatever is cancelled or crashes on the way, unless its
\* run is cancelled under it or the searches hold every slot their candidates wait for.
SearchSettles ==
    \A s \in {"a", "b"} :
        (s \in Searches /\ Active(s))
          ~> (s \in Searches /\ (search[s].status \in Settled \/ x[s].pc = "abandoned"
                                 \/ CircularWait))

================================================================================
