----------------------------- MODULE DynamicWorkflow -----------------------------
(***************************************************************************)
(* The dynamic workflow service (orchestration/service.py) with what its      *)
(* requests call: the planner and validator (WorkflowProposals), the run       *)
(* manager's installation of a graph, the selection of past experience for     *)
(* the task's context (experience/service.py), and the store.                   *)
(*                                                                         *)
(* One task, one dynamic run.  at[o] names the store or runtime call request   *)
(* o waits for; an action is that call's effect and the code up to the next.   *)
(* The walk over the installed graph stands for the scheduler (GraphScheduler). *)
(***************************************************************************)
EXTENDS Sequences, WorkflowProposals

CONSTANT Scenarios
    \* records: task, plans (what the planner may answer), worlds (first the current
    \* one), ops (kind of each request)

VARIABLES sc, world, features, context, retracted, run, proposals, validations,
          revisions, requests, statics, walk, at, local

vars == <<sc, world, features, context, retracted, run, proposals, validations,
          revisions, requests, statics, walk, at, local>>

stored == <<proposals, validations, revisions, requests, statics>>
outside == <<sc, world, features, context, retracted>>

Ops == DOMAIN sc.ops
TerminalStates == {"SUCCEEDED", "FAILED", "CANCELLED", "REQUIRES_HUMAN"}
WorkKinds == {"AGENT", "TOOL", "LOOP"}
NoWalk == [node |-> "none", via |-> [k \in {} |-> 0], done |-> {}, unchecked |-> {},
           verified |-> FALSE]
Idle == [proposal |-> 0, world |-> 0, context |-> 0, matches |-> {}, latest |-> 0,
         graphRevision |-> 0]

Init ==
    /\ sc \in Scenarios
    /\ world = 1
    /\ features = [dynamic |-> TRUE, search |-> TRUE, experience |-> TRUE, revision |-> 1]
    /\ context = [id |-> 1, matches |-> {}]
    /\ retracted = FALSE
    /\ run = [state |-> "NONE", ended |-> FALSE, graph |-> 0, graphRevision |-> 0,
              background |-> FALSE, pauseRequested |-> FALSE]
    /\ proposals = <<>>
    /\ validations = <<>>
    /\ revisions = <<>>
    /\ requests = [o \in Ops |-> "NONE"]
    /\ statics = <<>>
    /\ walk = NoWalk
    /\ at = [o \in Ops |-> "start"]
    /\ local = [o \in Ops |-> Idle]

World(i) == sc.worlds[i]
Plan(i) == proposals[i].plan
Graph == Materialize(Plan(run.graph))
Goto(o, place) == at' = [at EXCEPT ![o] = place]
Refuse(o) == Goto(o, "refused") /\ UNCHANGED local
Keep(o, update) == local' = [local EXCEPT ![o] = update]
Kind(o) == sc.ops[o]

--------------------------------------------------------------------------------
(* Requests begin.  _require_enabled reads the project's features. *)

\* An operator turns a feature off; what depends on it goes with it.
UpdateFeatures(o) ==
    /\ at[o] = "start" /\ Kind(o) \in {"disable dynamic", "disable search"}
    /\ Goto(o, "done")
    /\ LET dynamic == features.dynamic /\ Kind(o) # "disable dynamic"
           search == features.search /\ dynamic /\ Kind(o) # "disable search"
       IN  features' = [dynamic |-> dynamic, search |-> search,
                        experience |-> features.experience /\ search,
                        revision |-> features.revision + 1]
    /\ UNCHANGED <<sc, world, context, retracted, run, stored, walk, local>>

BeginPropose(o) ==
    /\ at[o] = "start" /\ Kind(o) = "propose"
    /\ IF features.dynamic THEN Goto(o, "planning") /\ UNCHANGED local ELSE Refuse(o)
    /\ UNCHANGED <<outside, run, stored, walk>>

\* _require_proposal
BeginOnProposal(o) ==
    /\ at[o] = "start" /\ Kind(o) \in {"validate", "activate"}
    /\ \E i \in DOMAIN proposals :
         IF ~features.dynamic \/ (Kind(o) = "activate" /\ proposals[i].based > 0)
         THEN Refuse(o)
         ELSE /\ Goto(o, IF Kind(o) = "validate" THEN "snapshots" ELSE "latest validation")
              /\ Keep(o, [Idle EXCEPT !.proposal = i])
    /\ UNCHANGED <<outside, run, stored, walk>>

BeginReplan(o) ==
    /\ at[o] = "start" /\ Kind(o) = "replan"
    /\ run.state # "NONE"
    /\ IF ~features.dynamic \/ revisions = <<>> THEN Refuse(o)
       ELSE Goto(o, "settle") /\ Keep(o, [Idle EXCEPT !.latest = Len(revisions)])
    /\ UNCHANGED <<outside, run, stored, walk>>

--------------------------------------------------------------------------------
(* Experience selected for the task's context: select, and the store's           *)
(* revise_context_with_experience.  The match was ACCEPTED when it was queried.   *)

BeginSelect(o) ==
    /\ at[o] = "start" /\ Kind(o) = "select"
    /\ IF ~features.experience \/ context.matches # {} THEN Refuse(o)
       ELSE Goto(o, "experience") /\ Keep(o, [Idle EXCEPT !.context = context.id])
    /\ UNCHANGED <<outside, run, stored, walk>>

ReadExperience(o) ==
    /\ at[o] = "experience"
    /\ IF retracted THEN Refuse(o) ELSE Goto(o, "revise context") /\ UNCHANGED local
    /\ UNCHANGED <<outside, run, stored, walk>>

ContextOpen(o) == proposals = <<>> /\ context.id = local[o].context

ReviseContext(o) ==
    /\ at[o] = "revise context"
    /\ IF ContextOpen(o)
       THEN /\ context' = [id |-> context.id + 1, matches |-> {o}]
            /\ Goto(o, "done")
       ELSE Goto(o, "refused") /\ UNCHANGED context
    /\ UNCHANGED <<sc, world, features, retracted, run, stored, walk, local>>

Retract ==
    /\ ~retracted
    /\ \E o \in Ops : Kind(o) = "select"
    /\ retracted' = TRUE
    /\ UNCHANGED <<sc, world, features, context, run, stored, walk, at, local>>

--------------------------------------------------------------------------------
(* propose *)

ReadPlanning(o) ==
    /\ at[o] = "planning"
    /\ Keep(o, [Idle EXCEPT !.matches = context.matches])
    /\ Goto(o, "prepare run")
    /\ UNCHANGED <<outside, run, stored, walk>>

\* prepare_dynamic_run
PrepareRun(o) ==
    /\ at[o] = "prepare run"
    /\ run' = [run EXCEPT !.state = "PENDING"]
    /\ Goto(o, "save proposal")
    /\ UNCHANGED <<outside, stored, walk, local>>

\* save_workflow_proposal: of propose, of a replan, or of a repair.
SaveProposal(o) ==
    /\ at[o] \in {"save proposal", "save repair"}
    /\ \E plan \in IF at[o] = "save repair" THEN {Repair(Plan(local[o].proposal))}
                   ELSE sc.plans :
         proposals' = Append(proposals, [plan |-> plan, based |-> local[o].latest,
                                         matches |-> local[o].matches, by |-> o])
    /\ Keep(o, [local[o] EXCEPT !.proposal = Len(proposals) + 1])
    /\ Goto(o, IF at[o] = "save repair" THEN "save validation"
               ELSE IF Kind(o) = "replan" THEN "snapshots" ELSE "done")
    /\ requests' = IF Kind(o) = "replan" THEN [requests EXCEPT ![o] = "VALIDATING"]
                   ELSE requests
    /\ UNCHANGED <<outside, run, validations, revisions, statics, walk>>

--------------------------------------------------------------------------------
(* _validate_with_bounded_repair *)

Snapshots(o) ==
    /\ at[o] = "snapshots"
    /\ Keep(o, [local[o] EXCEPT !.world = world])
    /\ Goto(o, "save validation")
    /\ UNCHANGED <<outside, run, stored, walk>>

\* The verdict is on the snapshot; the repair is validated against the same one.
SaveValidation(o) ==
    /\ at[o] = "save validation"
    /\ \E status \in {Validate(Plan(local[o].proposal), World(local[o].world), sc.task)} :
         /\ validations' = Append(validations, [proposal |-> local[o].proposal,
                                                status |-> status, world |-> local[o].world])
         /\ Goto(o, CASE status = "REPAIRABLE" -> "save repair"
                      [] status = "ACCEPT" -> IF Kind(o) = "replan" THEN "preserve" ELSE "done"
                      [] OTHER -> IF proposals[local[o].proposal].based > 0 THEN "done"
                                  ELSE "fall back")
         /\ requests' = IF Kind(o) = "replan" /\ status = "REJECT"
                        THEN [requests EXCEPT ![o] = "REQUIRES_HUMAN"] ELSE requests
    /\ UNCHANGED <<outside, run, proposals, revisions, statics, walk, local>>

\* fallback_dynamic_run: an installed graph cannot fall back.
CheckFallback(o) ==
    /\ at[o] = "fall back"
    /\ Goto(o, IF run.graph > 0 THEN "refused" ELSE "cancel run")
    /\ UNCHANGED <<outside, run, stored, walk, local>>

\* _commit_run_terminal of the fallback and of an operator's cancel, with the
\* scheduler's task stopped.
CommitCancelled(o) ==
    /\ \/ at[o] = "cancel run"
       \/ at[o] = "start" /\ Kind(o) = "cancel" /\ run.state \notin TerminalStates \cup {"NONE"}
    /\ run' = [run EXCEPT !.state = IF @ \in TerminalStates THEN @ ELSE "CANCELLED",
                          !.ended = TRUE,
                          !.background = IF Kind(o) = "cancel" THEN FALSE ELSE @]
    /\ Goto(o, IF Kind(o) = "cancel" THEN "done" ELSE "start static run")
    /\ UNCHANGED <<outside, stored, walk, local>>

\* start_run of the task's static strategy
StartStatic(o) ==
    /\ at[o] = "start static run"
    /\ statics' = Append(statics, local[o].proposal)
    /\ Goto(o, "done")
    /\ UNCHANGED <<outside, run, proposals, validations, revisions, requests, walk, local>>

--------------------------------------------------------------------------------
(* activate *)

\* _accepted_validation: the latest one.
AcceptedValidation(i) ==
    LET mine == SelectSeq(validations, LAMBDA v : v.proposal = i)
    IN  mine # <<>> /\ mine[Len(mine)].status = "ACCEPT"

ReadValidation(o) ==
    /\ at[o] = "latest validation"
    /\ IF ~AcceptedValidation(local[o].proposal) THEN Refuse(o)
       ELSE /\ Goto(o, IF ValidTemplate(Materialize(Plan(local[o].proposal)))
                       THEN "install" ELSE "not materialized")
            /\ UNCHANGED local
    /\ UNCHANGED <<outside, run, stored, walk>>

\* install_dynamic_graph: two checks, then two writes that repeat neither.
CheckInstall(o) ==
    /\ at[o] = "install"
    /\ IF run.state # "PENDING" \/ run.graph > 0 THEN Refuse(o)
       ELSE Goto(o, "write pending") /\ UNCHANGED local
    /\ UNCHANGED <<outside, run, stored, walk>>

WritePending(o) ==
    /\ at[o] = "write pending"
    /\ run' = [run EXCEPT !.state = "PENDING"]
    /\ Goto(o, "create graph")
    /\ UNCHANGED <<outside, stored, walk, local>>

\* create_run_graph refuses a second graph of the run.
CreateGraph(o) ==
    /\ at[o] = "create graph"
    /\ IF run.graph > 0 THEN Refuse(o) /\ UNCHANGED run
       ELSE /\ run' = [run EXCEPT !.graph = local[o].proposal, !.graphRevision = 1]
            /\ Goto(o, "save revision") /\ UNCHANGED local
    /\ UNCHANGED <<outside, stored, walk>>

\* Mutant of NextRevision: a revision is stored whatever its number.
AnyRevision(n) == TRUE

\* save_graph_revision: numbers are contiguous, and a stored one is immutable.
NextRevision(n) == n = Len(revisions) + 1

SaveRevision(o) ==
    /\ at[o] = "save revision"
    /\ IF NextRevision(local[o].latest + 1)
       THEN /\ revisions' = Append(revisions, [number |-> local[o].latest + 1,
                                               proposal |-> local[o].proposal])
            /\ requests' = IF Kind(o) = "replan" THEN [requests EXCEPT ![o] = "ACTIVATED"]
                           ELSE requests
            /\ Goto(o, IF Kind(o) = "replan" THEN "resume" ELSE "launch")
       ELSE Goto(o, "refused") /\ UNCHANGED <<revisions, requests>>
    /\ UNCHANGED <<outside, run, proposals, validations, statics, walk, local>>

\* The scheduler starts at the entry of the installed graph.
StartWalk ==
    walk' = [NoWalk EXCEPT !.node = Entry(Graph),
                           !.via = [k \in {e.key : e \in Graph.edges} |-> 0]]

\* launch_dynamic_run, and resume at the end of a replan.
Launch(o) ==
    /\ at[o] \in {"launch", "resume"}
    /\ IF run.state = (IF at[o] = "launch" THEN "PENDING" ELSE "PAUSED") /\ ~run.background
       THEN /\ run' = [run EXCEPT !.state = "RUNNING", !.background = TRUE,
                                  !.pauseRequested = FALSE]
            /\ StartWalk
       ELSE UNCHANGED <<run, walk>>
    /\ Goto(o, "done")
    /\ UNCHANGED <<outside, stored, local>>

--------------------------------------------------------------------------------
(* replan *)

\* _settle_for_replan: pause, and wait for the scheduler up to a time limit.
Settle(o) ==
    /\ at[o] = "settle"
    /\ run' = IF run.state = "RUNNING" THEN [run EXCEPT !.pauseRequested = TRUE] ELSE run
    /\ Goto(o, IF run.state = "RUNNING" THEN "settling" ELSE "save request")
    /\ UNCHANGED <<outside, stored, walk, local>>

Settled(o) ==
    /\ at[o] = "settling"
    /\ Goto(o, IF run.background THEN "refused" ELSE "save request")
    /\ UNCHANGED <<outside, run, stored, walk, local>>

SaveRequest(o) ==
    /\ at[o] = "save request"
    /\ IF run.state # "PAUSED" THEN Refuse(o) /\ UNCHANGED requests
       ELSE /\ requests' = [requests EXCEPT ![o] = "REQUESTED"]
            /\ Goto(o, "save proposal") /\ UNCHANGED local
    /\ UNCHANGED <<outside, run, proposals, validations, revisions, statics, walk>>

\* _assert_protected_nodes_preserved, against the revision the request began with.
Preserve(o) ==
    /\ at[o] = "preserve"
    /\ LET old == Plan(revisions[local[o].latest].proposal)
           new == Plan(local[o].proposal)
           kept == {n \in walk.done : n \in Nodes(Plan(run.graph))}
       IN  IF \A n \in kept : /\ n \in Nodes(new)
                              /\ n \in Nodes(old) => /\ old.kind[n] = new.kind[n]
                                                     /\ old.risk[n] = new.risk[n]
           THEN Goto(o, "install replan") /\ UNCHANGED local
           ELSE Refuse(o)
    /\ UNCHANGED <<outside, run, stored, walk>>

\* install_dynamic_replan: checks, the graph replaced if its revision is the one read,
\* the run marked PAUSED, and a checkpoint that a finished run refuses.
CheckReplan(o) ==
    /\ at[o] = "install replan"
    /\ IF run.state # "PAUSED" \/ ~ValidTemplate(Materialize(Plan(local[o].proposal)))
       THEN Refuse(o)
       ELSE /\ Keep(o, [local[o] EXCEPT !.graphRevision = run.graphRevision])
            /\ Goto(o, "replace graph")
    /\ UNCHANGED <<outside, run, stored, walk>>

ReplaceGraph(o) ==
    /\ at[o] = "replace graph"
    /\ IF run.graphRevision # local[o].graphRevision THEN Refuse(o) /\ UNCHANGED run
       ELSE /\ run' = [run EXCEPT !.graph = local[o].proposal, !.graphRevision = @ + 1]
            /\ Goto(o, "write paused") /\ UNCHANGED local
    /\ UNCHANGED <<outside, stored, walk>>

WritePaused(o) ==
    /\ at[o] = "write paused"
    /\ run' = [run EXCEPT !.state = "PAUSED"]
    /\ Goto(o, "checkpoint")
    /\ UNCHANGED <<outside, stored, walk, local>>

Checkpoint(o) ==
    /\ at[o] = "checkpoint"
    /\ Goto(o, IF run.state \in TerminalStates THEN "refused" ELSE "save revision")
    /\ UNCHANGED <<outside, run, stored, walk, local>>

--------------------------------------------------------------------------------
(* The scheduler, and the world. *)

\* One node of the installed graph: an outcome its kind may have, and the edge that
\* _select_edge takes; at a TERMINAL the run's state is committed.
Walk ==
    /\ run.background /\ ~run.pauseRequested
    /\ \E outcome \in KindOutcomes[Graph.kind[walk.node]] :
         \E e \in SelectEdge(Graph, walk.node, outcome, walk.via) :
           LET here == walk.node
               gated == \E n \in walk.done : Graph.kind[n] = "GATE"
           IN  /\ walk' = [node |-> Owner(Graph, e.target),
                           via |-> IF e.kind = "RETRY" THEN [walk.via EXCEPT ![e.key] = @ + 1]
                                   ELSE walk.via,
                           done |-> walk.done \cup {here},
                           unchecked |-> IF Graph.kind[here] \in WorkKinds /\ ~gated
                                         THEN walk.unchecked \cup {here} ELSE walk.unchecked,
                           verified |-> IF Graph.kind[here] = "VERIFIER" THEN outcome = "SUCCESS"
                                        ELSE walk.verified /\ Graph.kind[here] \notin WorkKinds]
               /\ run' = IF Graph.kind[e.target] = "TERMINAL"
                         THEN [run EXCEPT !.state = TerminalState(e), !.ended = TRUE,
                                          !.background = FALSE]
                         ELSE run
    /\ UNCHANGED <<outside, stored, at, local>>

\* The scheduler honours a pause at a node boundary.
Pause ==
    /\ run.background /\ run.pauseRequested
    /\ run' = [run EXCEPT !.state = "PAUSED", !.background = FALSE, !.pauseRequested = FALSE]
    /\ UNCHANGED <<outside, stored, walk, at, local>>

\* A capability, connector or runtime comes or goes.
WorldChanges ==
    /\ world < Len(sc.worlds)
    /\ world' = world + 1
    /\ UNCHANGED <<sc, features, context, retracted, run, stored, walk, at, local>>

Step(o) ==
    \/ UpdateFeatures(o) \/ BeginPropose(o) \/ BeginOnProposal(o) \/ BeginReplan(o)
    \/ BeginSelect(o) \/ ReadExperience(o) \/ ReviseContext(o)
    \/ ReadPlanning(o) \/ PrepareRun(o) \/ SaveProposal(o)
    \/ Snapshots(o) \/ SaveValidation(o) \/ CheckFallback(o) \/ CommitCancelled(o)
    \/ StartStatic(o)
    \/ ReadValidation(o) \/ CheckInstall(o) \/ WritePending(o) \/ CreateGraph(o)
    \/ SaveRevision(o) \/ Launch(o)
    \/ Settle(o) \/ Settled(o) \/ SaveRequest(o) \/ Preserve(o) \/ CheckReplan(o)
    \/ ReplaceGraph(o) \/ WritePaused(o) \/ Checkpoint(o)

Next == (\E o \in Ops : Step(o)) \/ Retract \/ Walk \/ Pause \/ WorldChanges

Spec == Init /\ [][Next]_vars

--------------------------------------------------------------------------------
\* A dynamic run succeeds only after a VERIFIER node of its graph ran, and no node
\* that was protected in the validated snapshot (high risk, or a capability with side
\* effects) runs before a gate.  In the graphs of the reviewed planner the last
\* verdict before success is a pass, with no work after it.
NoUncheckedWork ==
    run.graph > 0 =>
      /\ run.state = "SUCCEEDED" => \E n \in walk.done : Graph.kind[n] = "VERIFIER"
      /\ run.state = "SUCCEEDED" /\ Plan(run.graph) = Propose(sc.task) => walk.verified
      /\ \A n \in walk.unchecked \cap Nodes(Plan(run.graph)) :
           \E v \in DOMAIN validations :
             /\ validations[v].proposal = run.graph /\ validations[v].status = "ACCEPT"
             /\ ~Protected(Plan(run.graph), n, World(validations[v].world))

\* What the planner proposes and the validator accepts always compiles to a template
\* the scheduler can run: an activation never ends in DynamicMaterializationError.
AcceptedMaterializes ==
    \A o \in Ops : at[o] = "not materialized" =>
      Plan(local[o].proposal) \notin {Propose(sc.task), Repair(Propose(sc.task))}

\* Revisions are numbered without gaps, each is of an accepted proposal, and the graph
\* the scheduler walks is the latest one, unless a replan that installed it lost the
\* number to another replan.
RevisionsTellGraph ==
    /\ \A i \in DOMAIN revisions :
         /\ revisions[i].number = i
         /\ \E v \in DOMAIN validations :
              validations[v] = [proposal |-> revisions[i].proposal, status |-> "ACCEPT",
                                world |-> validations[v].world]
    /\ run.background =>
         \/ revisions[Len(revisions)].proposal = run.graph
         \/ \E o \in Ops : /\ Kind(o) = "replan" /\ local[o].proposal = run.graph
                           /\ at[o] \notin {"done", "resume"}

==================================================================================
