--------------------------- MODULE RunLifecycleProofs ---------------------------
(***************************************************************************)
(* Three results on a run, for any number of tasks, requests, iterations,   *)
(* crashes and restarts.  It announces its end at most once: a thread        *)
(* between its check for a terminal event and its own event holds the        *)
(* terminal lock, and while it is there no event exists.  Its iterations are *)
(* counted: whoever closes an attempt does it under the optimistic check on  *)
(* the loop row.  A restart leaves its records in order: nothing else runs   *)
(* while reconciliation does, so what it has read still holds when it writes. *)
(***************************************************************************)
EXTENDS RunLifecycle, TLAPS

Framed ==
    /\ DOMAIN pc = Threads /\ DOMAIN scope = Threads /\ DOMAIN why = Threads
    /\ DOMAIN seen = Threads /\ DOMAIN goal = Threads /\ DOMAIN attempt = Threads

--------------------------------------------------------------------------------
(* The invariants.  Mutual exclusion first: where _commit_run_terminal is about    *)
(* to write, and where it holds the lock.                                          *)

Announcing == {"commit_state", "commit_event"}
Locked == Announcing \cup {"commit_recover"}

CommitInv ==
    /\ \A x \in Threads : pc[x] \in Locked => lock = x
    /\ \A x \in Threads : pc[x] \in Announcing => terminals = <<>>
    /\ terminals = <<>> \/ terminals = <<terminals[1]>>

(* Iterations.  A thread that will write the row of an attempt knows its number    *)
(* from a snapshot of the loop, and the optimistic check lets it write only while   *)
(* that snapshot is current: then the attempt is the one the loop counts next.     *)

\* Where a thread holds an attempt whose row it may write.
InAttempt == {"submit", "call", "append", "interrupt_row", "close_write"}

\* A snapshot of the loop that is not ahead of it.
SeenSound(x) ==
    /\ seen[x].revision \in Nat /\ seen[x].iteration \in Nat
    /\ seen[x].revision <= loop.revision
    /\ seen[x].revision = loop.revision => seen[x].iteration = loop.iteration

\* The attempt a thread holds is one that was started under the next number of its snapshot.
AttemptSound(x) ==
    pc[x] \in InAttempt =>
        /\ attempt[x] \in 1 .. Len(started)
        /\ started[attempt[x]] = seen[x].iteration + 1

RowsCounted ==
    /\ rows \in Seq(Nat) /\ started \in Seq(Nat)
    /\ loop.iteration = Len(rows) /\ loop.revision \in Nat
    /\ loop.revision = 0 => loop.iteration = 0
    /\ \A i \in 1 .. Len(rows) : rows[i] \in 1 .. Len(started) /\ started[rows[i]] = i

CountInv ==
    /\ RowsCounted
    /\ \A x \in Threads : SeenSound(x) /\ AttemptSound(x)

(* Reconciliation.  While it runs nothing else does, so that what it has read of    *)
(* the run, the loop and the log is still so when it writes.                       *)

\* Where the reconciliation has settled for a terminal state, and what it knows there.
Settling == {"rec_state", "commit", "commit_state", "commit_event"}

Decided ==
    /\ goal["reconcile"] \in Terminal
    /\ loop.status \in Terminal => goal["reconcile"] = loop.status

\* Where it has found the loop open and no terminal event.
OpenPlaces == {"rec_mark", "escalate_read", "close_read", "close_write", "loop_write",
               "set_paused", "pause_event"}

RecAt(p) ==
    /\ p \in {"rec_read", "rec_recover"} \cup Settling \cup OpenPlaces
    /\ p = "rec_recover" => loop.status \notin Terminal /\ terminals # <<>>
    /\ p \in Settling => Decided
    /\ p = "rec_state" => loop.status \in Terminal
    /\ p = "commit" => terminals = <<>> \/ runState = goal["reconcile"]
    /\ p \in {"commit_state", "commit_event"} => terminals = <<>>
    /\ p = "commit_event" => runState = goal["reconcile"]
    /\ p \in OpenPlaces => loop.status \notin Terminal /\ terminals = <<>>
    /\ p \in {"close_read", "close_write"} => why["reconcile"] = "reconcile"
    /\ p = "loop_write" => why["reconcile"] \in {"reconcile", "escalate"}
    /\ p \in {"close_read", "close_write", "loop_write"} => seen["reconcile"] = loop
    /\ p \in {"set_paused", "pause_event"} => loop.status = "PAUSED"
    /\ p = "pause_event" => runState = "PAUSED"

RecInv ==
    /\ phase \in {"up", "closing", "down", "reconciling"}
    /\ scope["reconcile"] = "bare"
    /\ phase # "reconciling" => pc["reconcile"] = "idle"
    /\ phase \in {"down", "reconciling"} =>
         cancelled = {} /\ \A x \in Threads \ {"reconcile"} : pc[x] = "idle"
    /\ phase = "reconciling" => RecAt(pc["reconcile"])

LifeInv == Framed /\ CommitInv /\ CountInv /\ RecInv

\* A run starts anew, paused, or where a lost process left it.
AnyInit == Init \/ InitPaused \/ InitLost
AnySpec == AnyInit /\ [][Next]_vars

\* Each start has nobody in the section, counts what it has and reconciles nothing.
THEOREM InitLifeInv == AnyInit => LifeInv
<1>0. "reconcile" \in Threads  BY DEF Threads
<1>1. ASSUME Init PROVE LifeInv
  <2>1. PICK first \in Tasks :
          /\ pc = [x \in Threads |-> IF x = first THEN "starting" ELSE "idle"]
          /\ scope = [x \in Threads |-> IF x = first THEN "new" ELSE "bare"]
    BY <1>1 DEF Init
  <2>2. first # "reconcile"  BY LifecycleAssumption
  <2>3. /\ seen = [x \in Threads |-> NoLoop] /\ attempt = [x \in Threads |-> 0]
        /\ loop.revision = 0 /\ loop.iteration = 0 /\ terminals = <<>> /\ phase = "up"
    BY <1>1 DEF Init
  <2>4. Framed  BY <1>1, <2>1 DEF Init, Framed
  <2>5. CommitInv  BY <2>1, <2>3 DEF CommitInv, Locked, Announcing
  <2>6. RowsCounted  BY <1>1 DEF Init, RowsCounted
  <2>7. ASSUME NEW x \in Threads PROVE SeenSound(x) /\ AttemptSound(x)
    BY <2>1, <2>3 DEF SeenSound, AttemptSound, NoLoop, InAttempt
  <2>8. RecInv  BY <1>0, <2>1, <2>2, <2>3 DEF RecInv
  <2> QED BY <2>4, <2>5, <2>6, <2>7, <2>8 DEF LifeInv, CountInv
<1>2. ASSUME InitPaused \/ InitLost PROVE LifeInv
  <2>1. /\ pc = [x \in Threads |-> "idle"] /\ scope = [x \in Threads |-> "bare"]
        /\ seen = [x \in Threads |-> NoLoop] /\ attempt = [x \in Threads |-> 0]
        /\ cancelled = {} /\ phase \in {"up", "down"}
        /\ terminals \in {<<>>, <<"CANCELLED">>}
    BY <1>2 DEF InitPaused, InitLost
  <2>2. Framed  BY <1>2 DEF InitPaused, InitLost, Framed
  <2>3. CommitInv  BY <2>1 DEF CommitInv, Locked, Announcing
  <2>4. RowsCounted
    <3>1. CASE InitPaused  BY <3>1 DEF InitPaused, RowsCounted
    <3>2. CASE InitLost  BY <3>2 DEF InitLost, RowsCounted
    <3> QED BY <1>2, <3>1, <3>2
  <2>5. ASSUME NEW x \in Threads PROVE SeenSound(x) /\ AttemptSound(x)
    <3>1. NoLoop.revision = 0 /\ NoLoop.iteration = 0  BY DEF NoLoop
    <3>2. loop.revision = 1 \/ loop.revision = 3  BY <1>2 DEF InitPaused, InitLost
    <3>3. seen[x] = NoLoop /\ pc[x] = "idle"  BY <2>1
    <3> QED BY <3>1, <3>2, <3>3 DEF SeenSound, AttemptSound, InAttempt
  <2>6. RecInv  BY <1>0, <2>1 DEF RecInv
  <2> QED BY <2>2, <2>3, <2>4, <2>5, <2>6 DEF LifeInv, CountInv
<1> QED BY <1>1, <1>2 DEF AnyInit

\* What reconciliation leaves behind, and when it has to.
Ready ==
    /\ runState \in Terminal \cup {"PAUSED"}
    /\ runState \in Terminal <=> terminals # <<>>
    /\ loop.status \in Terminal => runState = loop.status
    /\ runState = "PAUSED" => loop.status = "PAUSED" /\ pausedEvent

Outcome == phase = "reconciling" /\ phase' = "up" => Ready'

--------------------------------------------------------------------------------
(* What a step of one thread does to the frames, and what it leaves alone. *)

\* Thread x moves.  Only reconciliation opens the process to requests; any other thread is
\* under way, cancelled, or called while the process is up.
Moves(x) ==
    /\ Framed'
    /\ \A y \in Threads : y # x =>
         /\ pc'[y] = pc[y] /\ scope'[y] = scope[y]
         /\ seen'[y] = seen[y] /\ attempt'[y] = attempt[y]
    /\ pc[x] # "idle" \/ x \in cancelled \/ phase = "up"
    /\ x # "reconcile" => phase' = phase

\* It is then outside every attempt and outside the lock's section; the snapshot it holds is
\* the one it had, none, or the loop before or after the step.
Leaves(x) ==
    /\ Moves(x)
    /\ pc'[x] \notin InAttempt \cup Locked
    /\ seen'[x] \in {seen[x], NoLoop, loop, loop'}

\* It moves within an attempt.
Stays(x) ==
    /\ Moves(x)
    /\ pc[x] \in InAttempt /\ pc'[x] \notin Locked
    /\ seen' = seen /\ attempt' = attempt

Unwritten == UNCHANGED <<loop, rows, started>>
Unlocked == UNCHANGED <<lock, terminals>>
Quiet(x) == Leaves(x) /\ Unwritten /\ Unlocked

\* The invariants after the step, what reconciliation itself does excepted.
Keeps(x) ==
    /\ Framed' /\ CommitInv' /\ CountInv'
    /\ x # "reconcile" => RecInv' /\ Outcome

\* A step that leaves the lock and the log alone and lets nobody into the lock's section
\* keeps the exclusion.
LEMMA OutsideSafe ==
    ASSUME LifeInv, NEW x \in Threads, Moves(x), pc'[x] \notin Locked, Unlocked
    PROVE  CommitInv'
<1>1. \A y \in Threads : pc'[y] \in Locked => pc'[y] = pc[y]
  BY DEF Moves
<1> QED BY <1>1 DEF LifeInv, CommitInv, Unlocked, Locked

\* A step of another thread than the reconciliation shows that none is going on.
LEMMA AsideKeeps ==
    ASSUME LifeInv, NEW x \in Threads, x # "reconcile", Moves(x) PROVE RecInv' /\ Outcome
<1>1. phase \in {"up", "closing"}  BY DEF LifeInv, RecInv, Moves
<1>2. pc["reconcile"] = "idle" /\ scope["reconcile"] = "bare"  BY <1>1 DEF LifeInv, RecInv
<1>3. /\ phase' = phase /\ pc'["reconcile"] = pc["reconcile"]
      /\ scope'["reconcile"] = scope["reconcile"]
  BY DEF Moves, Threads
<1> QED BY <1>1, <1>2, <1>3 DEF RecInv, Outcome

\* A step that writes neither the loop nor a row, and starts no attempt, counts nothing.
LEMMA LeavesCounts ==
    ASSUME LifeInv, NEW x \in Threads, Leaves(x), Unwritten PROVE CountInv'
<1>1. RowsCounted'  BY DEF LifeInv, CountInv, RowsCounted, Unwritten
<1>2. ASSUME NEW y \in Threads PROVE SeenSound(y)' /\ AttemptSound(y)'
  <2>1. SeenSound(y) /\ AttemptSound(y) /\ RowsCounted  BY DEF LifeInv, CountInv
  <2>2. loop.iteration \in Nat  BY <2>1 DEF RowsCounted
  <2>3. SeenSound(y)'
    <3>1. loop' = loop /\ seen'[y] \in {seen[y], NoLoop, loop}
      BY DEF Leaves, Moves, Unwritten
    <3>2. NoLoop.revision = 0 /\ NoLoop.iteration = 0  BY DEF NoLoop
    <3>3. CASE seen'[y] = seen[y]  BY <2>1, <3>1, <3>3 DEF SeenSound
    <3>4. CASE seen'[y] = NoLoop
      <4>1. seen'[y].revision = 0 /\ seen'[y].iteration = 0  BY <3>2, <3>4
      <4>2. loop.revision \in Nat /\ (loop.revision = 0 => loop.iteration = 0)
        BY <2>1, Zenon DEF RowsCounted
      <4> QED BY <3>1, <4>1, <4>2 DEF SeenSound
    <3>5. CASE seen'[y] = loop  BY <2>1, <2>2, <3>1, <3>5 DEF SeenSound, RowsCounted
    <3> QED BY <3>1, <3>3, <3>4, <3>5
  <2>4. AttemptSound(y)'
    BY <2>1 DEF AttemptSound, Leaves, Moves, Unwritten
  <2> QED BY <2>3, <2>4
<1> QED BY <1>1, <1>2 DEF CountInv

\* Nor does a step within an attempt.
LEMMA StaysCounts ==
    ASSUME LifeInv, NEW x \in Threads, Stays(x), Unwritten PROVE CountInv'
<1>1. RowsCounted'  BY DEF LifeInv, CountInv, RowsCounted, Unwritten
<1>2. ASSUME NEW y \in Threads PROVE SeenSound(y)' /\ AttemptSound(y)'
  <2>1. SeenSound(y) /\ AttemptSound(y)  BY DEF LifeInv, CountInv
  <2> QED BY <2>1 DEF SeenSound, AttemptSound, Stays, Moves, Unwritten
<1> QED BY <1>1, <1>2 DEF CountInv

\* A write of the loop row alone leaves every other snapshot behind.
LEMMA LoopCounts ==
    ASSUME LifeInv, NEW x \in Threads, NEW status, Leaves(x),
           loop' = LoopAs(status, 0), UNCHANGED <<rows, started>>
    PROVE  CountInv'
<1>0. loop'.revision = loop.revision + 1 /\ loop'.iteration = loop.iteration + 0
  BY DEF LoopAs
<1>1. RowsCounted'  BY <1>0 DEF LifeInv, CountInv, RowsCounted
<1>2. ASSUME NEW y \in Threads PROVE SeenSound(y)' /\ AttemptSound(y)'
  <2>1. SeenSound(y) /\ AttemptSound(y) /\ RowsCounted  BY DEF LifeInv, CountInv
  <2>2. loop.iteration \in Nat  BY <2>1 DEF RowsCounted
  <2>3. SeenSound(y)'
    <3>1. seen'[y] \in {seen[y], NoLoop, loop, loop'}  BY DEF Leaves, Moves
    <3>2. NoLoop.revision = 0 /\ NoLoop.iteration = 0  BY DEF NoLoop
    <3>3. CASE seen'[y] = loop'
      BY <1>0, <2>1, <2>2, <3>3 DEF SeenSound, RowsCounted
    <3>4. CASE seen'[y] \in {seen[y], NoLoop, loop}
      <4>1. /\ seen'[y].revision \in Nat /\ seen'[y].iteration \in Nat
            /\ seen'[y].revision <= loop.revision /\ loop.revision \in Nat
        BY <2>1, <2>2, <3>2, <3>4 DEF SeenSound, RowsCounted
      <4> QED BY <1>0, <4>1 DEF SeenSound
    <3> QED BY <3>1, <3>3, <3>4
  <2>4. AttemptSound(y)'
    BY <2>1 DEF AttemptSound, Leaves, Moves
  <2> QED BY <2>3, <2>4
<1> QED BY <1>1, <1>2 DEF CountInv

\* The row of an attempt, written under the optimistic check, is the one the loop counts
\* next (append_loop_iteration).
LEMMA RowCounts ==
    ASSUME LifeInv, NEW x \in Threads, NEW status, Leaves(x), pc[x] \in InAttempt, Current(x),
           loop' = LoopAs(status, 1), rows' = Append(rows, attempt[x]), started' = started
    PROVE  CountInv'
<1>0. loop'.revision = loop.revision + 1 /\ loop'.iteration = loop.iteration + 1
  BY DEF LoopAs
<1>1. RowsCounted'
  <2>1. SeenSound(x) /\ AttemptSound(x) /\ RowsCounted  BY DEF LifeInv, CountInv
  <2>2. attempt[x] \in 1 .. Len(started) /\ started[attempt[x]] = Len(rows) + 1
    <3>1. seen[x].iteration = Len(rows)  BY <2>1 DEF SeenSound, Current, RowsCounted
    <3> QED BY <2>1, <3>1 DEF AttemptSound
  <2>3. PICK a : a = attempt[x]  OBVIOUS
  <2>4. rows \in Seq(Nat) /\ started \in Seq(Nat) /\ a \in Nat /\ rows' = Append(rows, a)
    BY <2>1, <2>2, <2>3 DEF RowsCounted
  <2>5. rows' \in Seq(Nat) /\ Len(rows') = Len(rows) + 1 /\ Len(rows) \in Nat
    BY <2>4
  <2>6. ASSUME NEW i \in 1 .. Len(rows') PROVE rows'[i] \in 1 .. Len(started) /\ started[rows'[i]] = i
    <3>1. CASE i = Len(rows) + 1
      <4>1. rows'[i] = a  BY <2>4, <2>5, <3>1
      <4> QED BY <4>1, <2>2, <2>3, <3>1
    <3>2. CASE i \in 1 .. Len(rows)
      <4>1. rows'[i] = rows[i]  BY <2>4, <3>2
      <4> QED BY <4>1, <2>1, <3>2 DEF RowsCounted
    <3> QED BY <3>1, <3>2, <2>5
  <2>7. /\ loop'.iteration = Len(rows') /\ loop'.revision \in Nat
        /\ loop'.revision = 0 => loop'.iteration = 0
    BY <1>0, <2>1, <2>5 DEF RowsCounted
  <2> QED BY <2>4, <2>5, <2>6, <2>7 DEF RowsCounted
<1>2. ASSUME NEW y \in Threads PROVE SeenSound(y)' /\ AttemptSound(y)'
  <2>1. SeenSound(y) /\ AttemptSound(y) /\ RowsCounted  BY DEF LifeInv, CountInv
  <2>2. loop.iteration \in Nat  BY <2>1 DEF RowsCounted
  <2>3. SeenSound(y)'
    <3>1. seen'[y] \in {seen[y], NoLoop, loop, loop'}  BY DEF Leaves, Moves
    <3>2. NoLoop.revision = 0 /\ NoLoop.iteration = 0  BY DEF NoLoop
    <3>3. CASE seen'[y] = loop'
      BY <1>0, <2>1, <2>2, <3>3 DEF SeenSound, RowsCounted
    <3>4. CASE seen'[y] \in {seen[y], NoLoop, loop}
      <4>1. /\ seen'[y].revision \in Nat /\ seen'[y].iteration \in Nat
            /\ seen'[y].revision <= loop.revision /\ loop.revision \in Nat
        BY <2>1, <2>2, <3>2, <3>4 DEF SeenSound, RowsCounted
      <4> QED BY <1>0, <4>1 DEF SeenSound
    <3> QED BY <3>1, <3>3, <3>4
  <2>4. AttemptSound(y)'
    BY <2>1 DEF AttemptSound, Leaves, Moves
  <2> QED BY <2>3, <2>4
<1> QED BY <1>1, <1>2 DEF CountInv

\* Nor does a move outside every attempt to anywhere else.
LEMMA MovesCounts ==
    ASSUME LifeInv, NEW x \in Threads, Moves(x), pc'[x] \notin InAttempt, seen' = seen, Unwritten
    PROVE  CountInv'
<1>1. RowsCounted'  BY DEF LifeInv, CountInv, RowsCounted, Unwritten
<1>2. ASSUME NEW y \in Threads PROVE SeenSound(y)' /\ AttemptSound(y)'
  <2>1. SeenSound(y) /\ AttemptSound(y)  BY DEF LifeInv, CountInv
  <2> QED BY <2>1 DEF SeenSound, AttemptSound, Moves, Unwritten
<1> QED BY <1>1, <1>2 DEF CountInv

\* Nor does a step of the environment.
LEMMA StutterKeeps ==
    ASSUME LifeInv,
           UNCHANGED <<loop, rows, started, terminals, lock, pc, scope, why, seen, goal, attempt>>
    PROVE  Framed' /\ CommitInv' /\ CountInv'
<1>1. Framed' /\ CommitInv'  BY DEF LifeInv, Framed, CommitInv
<1>2. RowsCounted'  BY DEF LifeInv, CountInv, RowsCounted
<1>3. ASSUME NEW y \in Threads PROVE SeenSound(y)' /\ AttemptSound(y)'
  <2>1. SeenSound(y) /\ AttemptSound(y)  BY DEF LifeInv, CountInv
  <2> QED BY <2>1 DEF SeenSound, AttemptSound
<1> QED BY <1>1, <1>2, <1>3 DEF CountInv

\* So much for a step that writes nothing the invariants are about.
LEMMA QuietKeeps == ASSUME LifeInv, NEW x \in Threads, Quiet(x) PROVE Keeps(x)
<1>1. Framed' /\ Moves(x) /\ pc'[x] \notin Locked  BY DEF Quiet, Leaves, Moves
<1>2. CommitInv'  BY <1>1, OutsideSafe DEF Quiet
<1>3. CountInv'  BY LeavesCounts DEF Quiet
<1>4. x # "reconcile" => RecInv' /\ Outcome  BY <1>1, AsideKeeps
<1> QED BY <1>1, <1>2, <1>3, <1>4 DEF Keeps

LEMMA StayKeeps ==
    ASSUME LifeInv, NEW x \in Threads, Stays(x), Unwritten, Unlocked PROVE Keeps(x)
<1>1. Framed' /\ Moves(x) /\ pc'[x] \notin Locked  BY DEF Stays, Moves
<1>2. CommitInv'  BY <1>1, OutsideSafe
<1>3. CountInv'  BY StaysCounts
<1>4. x # "reconcile" => RecInv' /\ Outcome  BY <1>1, AsideKeeps
<1> QED BY <1>1, <1>2, <1>3, <1>4 DEF Keeps

\* A write of the loop row, or of a row of its own attempt, by a thread.
LEMMA WriteKeeps ==
    ASSUME LifeInv, NEW x \in Threads, NEW status, Leaves(x), Unlocked, started' = started,
           \/ loop' = LoopAs(status, 0) /\ rows' = rows
           \/ /\ pc[x] \in InAttempt /\ Current(x)
              /\ loop' = LoopAs(status, 1) /\ rows' = Append(rows, attempt[x])
    PROVE  Keeps(x)
<1>1. Framed' /\ Moves(x) /\ pc'[x] \notin Locked  BY DEF Leaves, Moves
<1>2. CommitInv'  BY <1>1, OutsideSafe
<1>3. CountInv'  BY LoopCounts, RowCounts
<1>4. x # "reconcile" => RecInv' /\ Outcome  BY <1>1, AsideKeeps
<1> QED BY <1>1, <1>2, <1>3, <1>4 DEF Keeps

\* Leaving a try statement and raising end the thread's attempt, outside the lock.
LEMMA ExitLeaves ==
    ASSUME LifeInv, NEW x \in Threads, Exit(x), pc[x] # "idle" \/ x \in cancelled
    PROVE  Leaves(x)
<1>1. Moves(x)  BY DEF LifeInv, Framed, Exit, Goto, Moves
<1>2. pc'[x] = "idle" /\ seen'[x] = NoLoop  BY DEF LifeInv, Framed, Exit, Goto
<1> QED BY <1>1, <1>2 DEF Leaves, InAttempt, Locked, Announcing

LEMMA RaiseLeaves ==
    ASSUME LifeInv, NEW x \in Threads, Raise(x), pc[x] # "idle" PROVE Leaves(x)
<1>1. CASE /\ Goto(x, "fail_read") /\ scope' = [scope EXCEPT ![x] = "handler"]
           /\ UNCHANGED <<why, seen, goal, attempt, phase>>
  BY <1>1 DEF LifeInv, Framed, Goto, Moves, Leaves, InAttempt, Locked, Announcing
<1>2. CASE Exit(x)  BY <1>2, ExitLeaves
<1> QED BY <1>1, <1>2 DEF Raise, envVars

\* What follows a write of the loop row is outside every attempt, and outside the lock.
LEMMA ProceedLeaves ==
    ASSUME LifeInv, NEW x \in Threads, Proceed(x), pc[x] # "idle",
           seen' = seen \/ seen' = [seen EXCEPT ![x] = loop']
    PROVE  Leaves(x)
<1>1. PICK p : p = AfterWrite(why[x]) /\ pc' = [pc EXCEPT ![x] = p]  BY Zenon DEF Proceed, Goto
<1>2. p \notin InAttempt \cup Locked  BY <1>1 DEF AfterWrite, InAttempt, Locked, Announcing
<1>3. DOMAIN goal' = DOMAIN goal  BY Zenon DEF Proceed
<1>4. UNCHANGED <<scope, why, attempt, phase>>  BY DEF Proceed, envVars
<1> QED BY <1>1, <1>2, <1>3, <1>4 DEF LifeInv, Framed, Moves, Leaves

--------------------------------------------------------------------------------
(* Every step keeps the invariants. *)

\* The steps of a background task.  An attempt starts under the number that follows the
\* task's snapshot; a cancelled task lets the lock go as it leaves the section.
LEMMA TaskKeeps == ASSUME LifeInv, NEW x \in Threads, TaskStep(x) PROVE Keeps(x)
<1>1. CASE NewStarting(x)
  <2>1. Quiet(x)
    BY <1>1 DEF NewStarting, At, Goto, frameVars, loopVars, logVars, envVars,
       LifeInv, Framed, Moves, Leaves, Quiet, Unwritten, Unlocked, InAttempt, Locked, Announcing
  <2> QED BY <2>1, QuietKeeps
<1>2. CASE NewPaused(x)
  <2>1. Quiet(x)
    BY <1>2 DEF NewPaused, At, Goto, frameVars, loopVars, logVars, envVars,
       LifeInv, Framed, Moves, Leaves, Quiet, Unwritten, Unlocked, InAttempt, Locked, Announcing
  <2> QED BY <2>1, QuietKeeps
<1>3. CASE NewRead(x)
  <2>1. Quiet(x)
    BY <1>3 DEF NewRead, At, Goto, frameVars, loopVars, logVars, envVars,
       LifeInv, Framed, Moves, Leaves, Quiet, Unwritten, Unlocked, InAttempt, Locked, Announcing
  <2> QED BY <2>1, QuietKeeps
<1>4. CASE NewRunning(x)
  <2>1. Quiet(x)
    BY <1>4 DEF NewRunning, At, Goto, frameVars, loopVars, logVars, envVars,
       LifeInv, Framed, Moves, Leaves, Quiet, Unwritten, Unlocked, InAttempt, Locked, Announcing
  <2> QED BY <2>1, QuietKeeps
<1>5. CASE ResumeRead(x)
  <2>1. Quiet(x)
    BY <1>5 DEF ResumeRead, At, Goto, frameVars, loopVars, logVars, envVars,
       LifeInv, Framed, Moves, Leaves, Quiet, Unwritten, Unlocked, InAttempt, Locked, Announcing
  <2> QED BY <2>1, QuietKeeps
<1>6. CASE ResumeRunning(x)
  <2>1. Quiet(x)
    BY <1>6 DEF ResumeRunning, At, Goto, frameVars, loopVars, logVars, envVars,
       LifeInv, Framed, Moves, Leaves, Quiet, Unwritten, Unlocked, InAttempt, Locked, Announcing
  <2> QED BY <2>1, QuietKeeps
<1>7. CASE EnterLoop(x)
  <2>1. Quiet(x)
    BY <1>7 DEF EnterLoop, At, Goto, frameVars, loopVars, logVars, envVars,
       LifeInv, Framed, Moves, Leaves, Quiet, Unwritten, Unlocked, InAttempt, Locked, Announcing
  <2> QED BY <2>1, QuietKeeps
<1>8. CASE LoopTop(x)
  <2>1. Quiet(x)
    BY <1>8 DEF LoopTop, Begin, At, Goto, frameVars, loopVars, logVars, envVars,
       LifeInv, Framed, Moves, Leaves, Quiet, Unwritten, Unlocked, InAttempt, Locked, Announcing
  <2> QED BY <2>1, QuietKeeps
<1>9. CASE Appended(x)
  <2>1. Quiet(x)
    BY <1>9 DEF Appended, Begin, At, Goto, frameVars, loopVars, logVars, envVars,
       LifeInv, Framed, Moves, Leaves, Quiet, Unwritten, Unlocked, InAttempt, Locked, Announcing
  <2> QED BY <2>1, QuietKeeps
<1>10. CASE NewSession(x)
  <2>1. Unwritten /\ Unlocked  BY <1>10 DEF NewSession, Unwritten, Unlocked, loopVars, logVars
  <2>2. pc[x] # "idle"  BY <1>10 DEF NewSession, At
  <2>3. CASE Raise(x)  BY <2>1, <2>2, <2>3, RaiseLeaves, QuietKeeps DEF Quiet
  <2>4. CASE ~Raise(x)
    <3>1. Leaves(x)
      BY <1>10, <2>4 DEF NewSession, At, Goto, frameVars, envVars, LifeInv, Framed,
         Moves, Leaves, InAttempt, Locked, Announcing
    <3> QED BY <3>1, <2>1, QuietKeeps DEF Quiet
  <2> QED BY <2>3, <2>4
<1>11. CASE ResumeSession(x)
  <2>1. Unwritten /\ Unlocked  BY <1>11 DEF ResumeSession, Unwritten, Unlocked, loopVars, logVars
  <2>2. pc[x] # "idle"  BY <1>11 DEF ResumeSession, At
  <2>3. CASE Raise(x)  BY <2>1, <2>2, <2>3, RaiseLeaves, QuietKeeps DEF Quiet
  <2>4. CASE ~Raise(x)
    <3>1. Leaves(x)
      BY <1>11, <2>4 DEF ResumeSession, At, Goto, frameVars, envVars, LifeInv, Framed,
         Moves, Leaves, InAttempt, Locked, Announcing
    <3> QED BY <3>1, <2>1, QuietKeeps DEF Quiet
  <2> QED BY <2>3, <2>4
<1>12. CASE Submit(x)
  <2>1. Unwritten /\ Unlocked  BY <1>12 DEF Submit, Unwritten, Unlocked, loopVars, logVars
  <2>2. pc[x] # "idle"  BY <1>12 DEF Submit, At
  <2>3. CASE Raise(x)  BY <2>1, <2>2, <2>3, RaiseLeaves, QuietKeeps DEF Quiet
  <2>4. CASE ~Raise(x)
    <3>1. Stays(x)
      BY <1>12, <2>4 DEF Submit, At, Goto, frameVars, envVars, LifeInv, Framed,
         Moves, Stays, InAttempt, Locked, Announcing
    <3> QED BY <3>1, <2>1, StayKeeps
  <2> QED BY <2>3, <2>4
<1>13. CASE CallEnds(x)
  <2>1. Unwritten /\ Unlocked  BY <1>13 DEF CallEnds, Unwritten, Unlocked, loopVars, logVars
  <2>2. pc[x] # "idle"  BY <1>13 DEF CallEnds, At
  <2>3. CASE Raise(x)  BY <2>1, <2>2, <2>3, RaiseLeaves, QuietKeeps DEF Quiet
  <2>4. CASE ~Raise(x)
    <3>1. Stays(x)
      BY <1>13, <2>4 DEF CallEnds, At, Goto, frameVars, envVars, LifeInv, Framed,
         Moves, Stays, InAttempt, Locked, Announcing
    <3> QED BY <3>1, <2>1, StayKeeps
  <2> QED BY <2>3, <2>4
<1>14. CASE TaskCancelled(x)
  <2>1. /\ Unwritten /\ terminals' = terminals /\ lock' = (IF lock = x THEN "none" ELSE lock)
        /\ x \in cancelled
    BY <1>14 DEF TaskCancelled, Unwritten, loopVars, logVars
  <2>2. Leaves(x)
    <3>1. CASE Exit(x)  BY <2>1, <3>1, ExitLeaves
    <3>2. CASE ~Exit(x)
      BY <1>14, <3>2 DEF TaskCancelled, Goto, envVars, LifeInv, Framed, Moves, Leaves,
         InAttempt, Locked, Announcing
    <3> QED BY <3>1, <3>2
  <2>3. Moves(x) /\ Framed' /\ pc'[x] \notin Locked  BY <2>2 DEF Leaves, Moves
  <2>4. CommitInv'
    <3>1. ASSUME NEW y \in Threads, pc'[y] \in Locked PROVE lock' = y
      <4>1. y # x /\ pc[y] \in Locked  BY <2>3, <3>1 DEF Moves
      <4>2. lock = y  BY <4>1 DEF LifeInv, CommitInv
      <4> QED BY <4>1, <4>2, <2>1
    <3>2. \A y \in Threads : pc'[y] \in Announcing => pc[y] \in Announcing
      BY <2>3 DEF Moves, Locked
    <3> QED BY <2>1, <3>1, <3>2 DEF LifeInv, CommitInv
  <2>5. CountInv'  BY <2>1, <2>2, LeavesCounts
  <2> QED BY <2>3, <2>4, <2>5, AsideKeeps DEF Keeps
<1>15. CASE StartIteration(x)
  <2>1. PICK k : k = seen[x].iteration + 1  OBVIOUS
  <2>2. k \in Nat /\ started \in Seq(Nat) /\ RowsCounted
    BY <2>1 DEF LifeInv, CountInv, SeenSound, RowsCounted
  <2>3. started' = Append(started, k) /\ UNCHANGED <<loop, rows, seen>>
    BY <1>15, <2>1 DEF StartIteration, loopVars
  <2>4. /\ pc' = [pc EXCEPT ![x] = "submit"]
        /\ attempt' = [attempt EXCEPT ![x] = Len(started) + 1]
    BY <1>15 DEF StartIteration, Goto
  <2>5. /\ started' \in Seq(Nat) /\ Len(started') = Len(started) + 1 /\ Len(started) \in Nat
        /\ started'[Len(started) + 1] = k
        /\ \A i \in 1 .. Len(started) : started'[i] = started[i]
    BY <2>2, <2>3
  <2>6. RowsCounted'
    <3>1. ASSUME NEW i \in 1 .. Len(rows)
          PROVE  rows[i] \in 1 .. Len(started') /\ started'[rows[i]] = i
      <4>1. rows[i] \in 1 .. Len(started) /\ started[rows[i]] = i  BY <2>2 DEF RowsCounted
      <4> QED BY <4>1, <2>5
    <3> QED BY <2>2, <2>3, <2>5, <3>1 DEF RowsCounted
  <2>7. ASSUME NEW y \in Threads PROVE SeenSound(y)' /\ AttemptSound(y)'
    <3>1. SeenSound(y) /\ AttemptSound(y)  BY DEF LifeInv, CountInv
    <3>2. SeenSound(y)'  BY <3>1, <2>3 DEF SeenSound
    <3>3. CASE y = x  BY <2>1, <2>3, <2>4, <2>5, <3>2, <3>3 DEF LifeInv, Framed, CountInv, AttemptSound
    <3>4. CASE y # x  BY <2>3, <2>4, <2>5, <3>1, <3>2, <3>4 DEF LifeInv, Framed, CountInv, AttemptSound
    <3> QED BY <3>3, <3>4
  <2>8. CountInv'  BY <2>6, <2>7 DEF CountInv
  <2>9. Moves(x) /\ pc'[x] \notin Locked /\ Unlocked
    BY <1>15 DEF StartIteration, At, Goto, envVars, LifeInv, Framed, Moves, Unlocked, Locked,
       Announcing
  <2> QED BY <2>8, <2>9, OutsideSafe, AsideKeeps DEF Keeps, Moves
<1>16. CASE AppendRow(x)
  <2>1. started' = started /\ Unlocked /\ pc[x] # "idle" /\ pc[x] \in InAttempt
    BY <1>16 DEF AppendRow, At, logVars, Unlocked, InAttempt
  <2>2. CASE Current(x)
    <3>1. PICK status : loop' = LoopAs(status, 1) /\ rows' = Append(rows, attempt[x])
      BY <1>16, <2>2, Zenon DEF AppendRow
    <3>2. /\ UNCHANGED <<scope, why, attempt, phase>>
          /\ Goto(x, "appended") \/ Goto(x, "commit")
          /\ seen' = seen \/ seen' = [seen EXCEPT ![x] = loop']
          /\ goal' = goal \/ \E g : goal' = [goal EXCEPT ![x] = g]
      BY <1>16, <2>2, Zenon DEF AppendRow, envVars
    <3>3. Leaves(x)
      BY <2>1, <3>2 DEF Goto, LifeInv, Framed, Moves, Leaves, InAttempt, Locked, Announcing
    <3> QED BY <2>1, <2>2, <3>1, <3>3, WriteKeeps
  <2>3. CASE ~Current(x)
    <3>1. Raise(x) /\ Unwritten  BY <1>16, <2>1, <2>3 DEF AppendRow, Unwritten, loopVars
    <3> QED BY <3>1, <2>1, RaiseLeaves, QuietKeeps DEF Quiet
  <2> QED BY <2>2, <2>3
<1>17. CASE InterruptRow(x)
  <2>1. started' = started /\ Unlocked /\ pc[x] # "idle" /\ pc[x] \in InAttempt
    BY <1>17 DEF InterruptRow, At, logVars, Unlocked, InAttempt
  <2>2. CASE Current(x)
    <3>1. loop' = LoopAs("PAUSED", 1) /\ rows' = Append(rows, attempt[x])
      BY <1>17, <2>2 DEF InterruptRow
    <3>2. Leaves(x)
      BY <1>17, <2>1, <2>2 DEF InterruptRow, Goto, frameVars, envVars, LifeInv, Framed, Moves,
         Leaves, InAttempt, Locked, Announcing
    <3> QED BY <2>1, <2>2, <3>1, <3>2, WriteKeeps
  <2>3. CASE ~Current(x)
    <3>1. Raise(x) /\ Unwritten  BY <1>17, <2>1, <2>3 DEF InterruptRow, Unwritten, loopVars
    <3> QED BY <3>1, <2>1, RaiseLeaves, QuietKeeps DEF Quiet
  <2> QED BY <2>2, <2>3
<1> QED
  BY <1>1, <1>2, <1>3, <1>4, <1>5, <1>6, <1>7, <1>8, <1>9, <1>10, <1>11, <1>12, <1>13, <1>14, <1>15, <1>16, <1>17
  DEF TaskStep

\* The steps of an operator request.
LEMMA CallerKeeps ==
    ASSUME LifeInv, NEW x \in Threads, x # "reconcile", CallerStep(x) \/ Operator(x)
    PROVE  Keeps(x)
<1>1. CASE PauseInterrupt(x)
  <2>1. Quiet(x)
    BY <1>1 DEF PauseInterrupt, At, Goto, frameVars, loopVars, logVars, envVars,
       LifeInv, Framed, Moves, Leaves, Quiet, Unwritten, Unlocked, InAttempt, Locked, Announcing
  <2> QED BY <2>1, QuietKeeps
<1>2. CASE PauseRead(x)
  <2>1. Quiet(x)
    BY <1>2 DEF PauseRead, At, Goto, frameVars, loopVars, logVars, envVars,
       LifeInv, Framed, Moves, Leaves, Quiet, Unwritten, Unlocked, InAttempt, Locked, Announcing
  <2> QED BY <2>1, QuietKeeps
<1>3. CASE Terminate(x)
  <2>1. Quiet(x)
    BY <1>3 DEF Terminate, At, Goto, frameVars, loopVars, logVars, envVars,
       LifeInv, Framed, Moves, Leaves, Quiet, Unwritten, Unlocked, InAttempt, Locked, Announcing
  <2> QED BY <2>1, QuietKeeps
<1>4. CASE PauseCall(x)
  <2>1. Quiet(x)
    BY <1>4 DEF PauseCall, Calling, At, Goto, frameVars, loopVars, logVars, envVars,
       LifeInv, Framed, Moves, Leaves, Quiet, Unwritten, Unlocked, InAttempt, Locked, Announcing
  <2> QED BY <2>1, QuietKeeps
<1>5. CASE ResumeCall(x)
  <2>1. Quiet(x)
    BY <1>5 DEF ResumeCall, Calling, At, Goto, frameVars, loopVars, logVars, envVars,
       LifeInv, Framed, Moves, Leaves, Quiet, Unwritten, Unlocked, InAttempt, Locked, Announcing
  <2> QED BY <2>1, QuietKeeps
<1>6. CASE CancelCall(x)
  <2>1. Quiet(x)
    BY <1>6 DEF CancelCall, Calling, At, Goto, frameVars, loopVars, logVars, envVars,
       LifeInv, Framed, Moves, Leaves, Quiet, Unwritten, Unlocked, InAttempt, Locked, Announcing
  <2> QED BY <2>1, QuietKeeps
<1>7. CASE PauseRun(x)
  <2>1. Unwritten /\ Unlocked  BY <1>7 DEF PauseRun, Unwritten, Unlocked, loopVars, logVars
  <2>2. Exit(x) /\ pc[x] # "idle"  BY <1>7 DEF PauseRun, At
  <2> QED BY <2>1, <2>2, ExitLeaves, QuietKeeps DEF Quiet
<1>8. CASE ResumeActive(x)
  <2>1. Unwritten /\ Unlocked  BY <1>8 DEF ResumeActive, Unwritten, Unlocked, loopVars, logVars
  <2>2. Exit(x) /\ pc[x] # "idle"  BY <1>8 DEF ResumeActive, At
  <2> QED BY <2>1, <2>2, ExitLeaves, QuietKeeps DEF Quiet
<1>9. CASE ResumeRun(x)
  <2>1. /\ Unwritten /\ Unlocked /\ pc[x] # "idle"
        /\ UNCHANGED <<scope, why, seen, goal, attempt, phase>>
    BY <1>9 DEF ResumeRun, At, Unwritten, Unlocked, loopVars, logVars, frameVars, envVars
  <2>2. PICK t \in Tasks : pc' = [pc EXCEPT ![x] = "idle", ![t] = "resume_read"]
    BY <1>9, Zenon DEF ResumeRun
  <2>3. DOMAIN pc' = Threads
    BY <2>2 DEF LifeInv, Framed
  <2>4. \A y \in Threads : pc'[y] = pc[y] \/ pc'[y] \in {"idle", "resume_read"}
    BY <2>2 DEF LifeInv, Framed
  <2>5. \A y \in Threads : pc'[y] \in InAttempt \cup Locked => pc'[y] = pc[y]
    BY <2>4 DEF InAttempt, Locked, Announcing
  <2>6. CommitInv'
    BY <2>1, <2>5 DEF LifeInv, CommitInv, Unlocked, Locked
  <2>7. CountInv'
    <3>1. RowsCounted'  BY <2>1 DEF LifeInv, CountInv, RowsCounted, Unwritten
    <3>2. ASSUME NEW y \in Threads PROVE SeenSound(y)' /\ AttemptSound(y)'
      <4>1. SeenSound(y) /\ AttemptSound(y)  BY DEF LifeInv, CountInv
      <4> QED BY <4>1, <2>1, <2>5 DEF SeenSound, AttemptSound, Unwritten
    <3> QED BY <3>1, <3>2 DEF CountInv
  <2>8. RecInv' /\ Outcome
    <3>1. phase \in {"up", "closing"}  BY <2>1 DEF LifeInv, RecInv
    <3>2. pc["reconcile"] = "idle"  BY <3>1 DEF LifeInv, RecInv
    <3>3. t # "reconcile"  BY LifecycleAssumption
    <3>4. pc'["reconcile"] = "idle"  BY <2>2, <3>2, <3>3 DEF LifeInv, Framed, Threads
    <3> QED BY <2>1, <3>1, <3>4 DEF LifeInv, RecInv, Outcome
  <2> QED BY <2>1, <2>3, <2>6, <2>7, <2>8 DEF Keeps, LifeInv, Framed
<1> QED
  BY <1>1, <1>2, <1>3, <1>4, <1>5, <1>6, <1>7, <1>8, <1>9
  DEF CallerStep, Operator

LOCAL INSTANCE WellFoundedInduction

\* The attempt that _close_dangling_iteration finds under a number was started under it.
LEMMA LastStartedIs ==
    ASSUME started \in Seq(Nat), NEW n, LastStarted(n) # 0
    PROVE  LastStarted(n) \in 1 .. Len(started) /\ started[LastStarted(n)] = n
<1> DEFINE m == Len(started)
           ids == {i \in 1 .. m : started[i] = n}
           T == {k \in 0 .. m : m - k \in ids}
<1>0. m \in Nat  OBVIOUS
<1>1. ids # {} /\ LastStarted(n) = CHOOSE i \in ids : \A j \in ids : j <= i
  <2>1. LastStarted(n) = IF ids = {} THEN 0 ELSE CHOOSE i \in ids : \A j \in ids : j <= i
    BY Zenon DEF LastStarted
  <2> HIDE DEF ids
  <2> QED BY <2>1, Zenon
<1> SUFFICES \E i \in ids : \A j \in ids : j <= i
  BY <1>1
<1> HIDE DEF m
<1>2. T \subseteq Nat /\ T # {}
  <2>1. PICK x : x \in ids  BY <1>1
  <2>2. m - x \in 0 .. m /\ m - (m - x) = x  BY <1>0, <2>1
  <2>3. m - x \in T  BY <2>1, <2>2
  <2> QED BY <2>3
<1>3. PICK t \in T : \A u \in T : ~(<<u, t>> \in OpToRel(<, Nat))
  BY <1>2, NatLessThanWellFounded, WFMin
<1>4. \A u \in T : ~(u < t)
  <2>1. ASSUME NEW u \in Nat, NEW v \in Nat, u < v PROVE <<u, v>> \in OpToRel(<, Nat)
    BY <2>1 DEF OpToRel
  <2> QED BY <1>2, <1>3, <2>1
<1>5. ASSUME NEW j \in ids PROVE j <= m - t
  <2>1. j \in 1 .. m /\ t \in 0 .. m  OBVIOUS
  <2>2. m - j \in 0 .. m /\ m - (m - j) = j  BY <1>0, <2>1
  <2>3. m - j \in T  BY <2>2
  <2> QED BY <1>0, <1>4, <2>1, <2>3
<1>6. m - t \in ids  OBVIOUS
<1> QED BY <1>5, <1>6

\* The steps any thread may take.  _commit_run_terminal enters the section when the lock is
\* free, and nobody else is then inside; an attempt left without a row is closed under the
\* check, or found counted.
LEMMA SharedKeeps == ASSUME LifeInv, NEW x \in Threads, SharedStep(x) PROVE Keeps(x)
<1>1. CASE SetPaused(x)
  <2>1. Quiet(x)
    BY <1>1 DEF SetPaused, At, Goto, frameVars, loopVars, logVars, envVars,
       LifeInv, Framed, Moves, Leaves, Quiet, Unwritten, Unlocked, InAttempt, Locked, Announcing
  <2> QED BY <2>1, QuietKeeps
<1>2. CASE EscalateRead(x)
  <2>1. Quiet(x)
    BY <1>2 DEF EscalateRead, Resolve, At, Goto, frameVars, loopVars, logVars, envVars,
       LifeInv, Framed, Moves, Leaves, Quiet, Unwritten, Unlocked, InAttempt, Locked, Announcing
  <2> QED BY <2>1, QuietKeeps
<1>3. CASE PauseEvent(x)
  <2>1. Unwritten /\ Unlocked  BY <1>3 DEF PauseEvent, Unwritten, Unlocked, loopVars, logVars
  <2>2. Exit(x) /\ pc[x] # "idle"  BY <1>3 DEF PauseEvent, At
  <2> QED BY <2>1, <2>2, ExitLeaves, QuietKeeps DEF Quiet
<1>4. CASE CancelRead(x)
  <2>1. Unwritten /\ Unlocked  BY <1>4 DEF CancelRead, Unwritten, Unlocked, loopVars, logVars
  <2>2. pc[x] # "idle"  BY <1>4 DEF CancelRead, At
  <2>3. CASE Exit(x)  BY <2>1, <2>2, <2>3, ExitLeaves, QuietKeeps DEF Quiet
  <2>4. CASE ~Exit(x)
    <3>1. Leaves(x)
      BY <1>4, <2>4 DEF CancelRead, Resolve, At, Goto, frameVars, envVars, LifeInv, Framed,
         Moves, Leaves, InAttempt, Locked, Announcing
    <3> QED BY <3>1, <2>1, QuietKeeps DEF Quiet
  <2> QED BY <2>3, <2>4
<1>5. CASE FailRead(x)
  <2>1. Unwritten /\ Unlocked  BY <1>5 DEF FailRead, Unwritten, Unlocked, loopVars, logVars
  <2>2. pc[x] # "idle"  BY <1>5 DEF FailRead, At
  <2>3. CASE Exit(x)  BY <2>1, <2>2, <2>3, ExitLeaves, QuietKeeps DEF Quiet
  <2>4. CASE ~Exit(x)
    <3>1. Leaves(x)
      BY <1>5, <2>4 DEF FailRead, Resolve, At, Goto, frameVars, envVars, LifeInv, Framed,
         Moves, Leaves, InAttempt, Locked, Announcing
    <3> QED BY <3>1, <2>1, QuietKeeps DEF Quiet
  <2> QED BY <2>3, <2>4
<1>6. CASE LoopWrite(x)
  <2>1. UNCHANGED <<rows, started>> /\ Unlocked /\ pc[x] # "idle"
    BY <1>6 DEF LoopWrite, At, logVars, Unlocked
  <2>2. CASE Current(x)
    <3>1. Proceed(x) /\ seen' = [seen EXCEPT ![x] = loop']  BY <1>6, <2>2, Zenon DEF LoopWrite
    <3>2. Leaves(x)  BY <2>1, <3>1, ProceedLeaves, Zenon
    <3>3. PICK status : loop' = LoopAs(status, 0)  BY <1>6, <2>2, Zenon DEF LoopWrite
    <3> QED BY <2>1, <3>2, <3>3, WriteKeeps
  <2>3. CASE ~Current(x)
    <3>1. Raise(x) /\ Unwritten  BY <1>6, <2>1, <2>3 DEF LoopWrite, Unwritten
    <3> QED BY <3>1, <2>1, RaiseLeaves, QuietKeeps DEF Quiet
  <2> QED BY <2>2, <2>3
<1>7. CASE CloseRead(x)
  <2>1. Unwritten /\ Unlocked /\ UNCHANGED <<seen, scope, why, phase>> /\ pc[x] # "idle"
    BY <1>7 DEF CloseRead, At, Unwritten, Unlocked, loopVars, logVars, envVars
  <2>2. CASE Proceed(x)  BY <2>1, <2>2, ProceedLeaves, QuietKeeps DEF Quiet
  <2>3. CASE Goto(x, "loop_write") /\ UNCHANGED <<goal, attempt>>
    <3>1. Leaves(x)
      BY <2>1, <2>3 DEF Goto, LifeInv, Framed, Moves, Leaves, InAttempt, Locked, Announcing
    <3> QED BY <3>1, <2>1, QuietKeeps DEF Quiet
  <2>4. ASSUME NEW id, id = LastStarted(seen[x].iteration + 1), id # 0, UNCHANGED goal,
               attempt' = [attempt EXCEPT ![x] = id], Goto(x, "close_write")
        PROVE  Keeps(x)
    <3>1. id \in 1 .. Len(started) /\ started[id] = seen[x].iteration + 1
      BY <2>4, LastStartedIs DEF LifeInv, CountInv, RowsCounted
    <3>2. pc' = [pc EXCEPT ![x] = "close_write"]  BY <2>4 DEF Goto
    <3>3. RowsCounted'  BY <2>1 DEF LifeInv, CountInv, RowsCounted, Unwritten
    <3>4. ASSUME NEW y \in Threads PROVE SeenSound(y)' /\ AttemptSound(y)'
      <4>1. SeenSound(y) /\ AttemptSound(y)  BY DEF LifeInv, CountInv
      <4>2. SeenSound(y)'  BY <4>1, <2>1 DEF SeenSound, Unwritten
      <4>3. pc'[y] \in InAttempt => (y = x \/ pc[y] \in InAttempt) /\ (y # x => attempt'[y] = attempt[y])
        BY <3>2, <2>4 DEF LifeInv, Framed
      <4>4. attempt'[x] = id  BY <2>4 DEF LifeInv, Framed
      <4>5. AttemptSound(y)'
        BY <4>1, <4>3, <4>4, <3>1, <2>1 DEF AttemptSound, Unwritten
      <4> QED BY <4>2, <4>5
    <3>5. Moves(x) /\ pc'[x] \notin Locked
      BY <2>1, <2>4, <3>2 DEF LifeInv, Framed, Moves, Locked, Announcing
    <3>6. CountInv'  BY <3>3, <3>4 DEF CountInv
    <3> QED BY <2>1, <3>5, <3>6, OutsideSafe, AsideKeeps DEF Keeps, Moves
  <2> QED BY <1>7, <2>2, <2>3, <2>4 DEF CloseRead
<1>8. CASE CloseWrite(x)
  <2>1. started' = started /\ Unlocked /\ pc[x] # "idle" /\ pc[x] \in InAttempt
    BY <1>8 DEF CloseWrite, At, logVars, Unlocked, InAttempt
  <2>2. CASE Current(x)
    <3>1. PICK status : loop' = LoopAs(status, 1) /\ rows' = Append(rows, attempt[x])
      BY <1>8, <2>2, Zenon DEF CloseWrite
    <3>2. Leaves(x)  BY <1>8, <2>1, <2>2, ProceedLeaves DEF CloseWrite
    <3> QED BY <2>1, <2>2, <3>1, <3>2, WriteKeeps
  <2>3. CASE ~Current(x)
    <3>1. Unwritten /\ (Raise(x) \/ (Proceed(x) /\ seen' = seen))
      BY <1>8, <2>1, <2>3 DEF CloseWrite, Unwritten, loopVars
    <3> QED BY <3>1, <2>1, RaiseLeaves, ProceedLeaves, QuietKeeps DEF Quiet
  <2> QED BY <2>2, <2>3
<1>9. CASE Commit(x)
  <2>1. lock = "none" /\ Unwritten /\ terminals' = terminals /\ pc[x] # "idle"
    BY <1>9 DEF Commit, At, Unwritten, loopVars, logVars
  <2>2. \A y \in Threads : pc[y] \notin Locked
    BY <2>1, LifecycleAssumption DEF LifeInv, CommitInv, Threads
  <2>3. CASE Exit(x) /\ lock' = lock
    BY <2>1, <2>3, ExitLeaves, QuietKeeps DEF Quiet, Unlocked
  <2>4. ASSUME NEW p, p \in {"commit_state", "commit_recover"}, Goto(x, p), lock' = x,
               p = "commit_state" => terminals = <<>>, UNCHANGED <<frameVars, phase>>
        PROVE  Keeps(x)
    <3>1. pc'[x] = p /\ \A y \in Threads : y # x => pc'[y] = pc[y]
      BY <2>4 DEF Goto, LifeInv, Framed
    <3>2. Moves(x)  BY <2>1, <2>4 DEF Goto, LifeInv, Framed, Moves, frameVars
    <3>3. CommitInv'
      BY <2>1, <2>2, <2>4, <3>1 DEF LifeInv, CommitInv, Locked, Announcing
    <3>4. CountInv'
      <4>1. pc'[x] \notin InAttempt /\ seen' = seen  BY <2>4, <3>1 DEF InAttempt, frameVars
      <4> QED BY <2>1, <3>2, <4>1, MovesCounts
    <3> QED BY <3>2, <3>3, <3>4, AsideKeeps DEF Keeps, Moves
  <2> QED BY <1>9, <2>3, <2>4 DEF Commit, envVars
<1>10. CASE CommitRecover(x)
  <2>1. pc[x] = "commit_recover" /\ lock' = "none" /\ terminals' = terminals /\ Unwritten /\ Exit(x)
    BY <1>10 DEF CommitRecover, At, Unwritten, loopVars, logVars
  <2>2. \A y \in Threads : y # x => pc[y] \notin Locked
    BY <2>1 DEF LifeInv, CommitInv, Locked
  <2>3. Leaves(x)  BY <2>1, ExitLeaves
  <2>4. \A y \in Threads : pc'[y] \notin Locked  BY <2>2, <2>3 DEF Leaves, Moves
  <2>5. CommitInv'  BY <2>1, <2>4 DEF LifeInv, CommitInv, Locked
  <2>6. CountInv'  BY <2>1, <2>3, LeavesCounts
  <2> QED BY <2>3, <2>5, <2>6, AsideKeeps DEF Keeps, Leaves, Moves
<1>11. CASE CommitState(x)
  <2>1. /\ pc[x] = "commit_state" /\ Unlocked /\ Unwritten /\ seen' = seen
        /\ pc' = [pc EXCEPT ![x] = "commit_event"]
    BY <1>11 DEF CommitState, At, Goto, Unlocked, Unwritten, loopVars, logVars, frameVars
  <2>2. Moves(x)  BY <1>11 DEF CommitState, At, Goto, frameVars, envVars, LifeInv, Framed, Moves
  <2>3. pc'[x] = "commit_event"  BY <2>1 DEF LifeInv, Framed
  <2>4. CommitInv'
    BY <2>1, <2>2, <2>3 DEF LifeInv, CommitInv, Moves, Unlocked, Locked, Announcing
  <2>5. CountInv'  BY <2>1, <2>2, <2>3, MovesCounts DEF InAttempt
  <2> QED BY <2>2, <2>4, <2>5, AsideKeeps DEF Keeps, Moves
<1>12. CASE CommitEvent(x)
  <2>1. pc[x] = "commit_event" /\ lock' = "none" /\ Unwritten /\ Exit(x)
    BY <1>12 DEF CommitEvent, At, Unwritten, loopVars
  <2>2. terminals = <<>> /\ \A y \in Threads : y # x => pc[y] \notin Locked
    BY <2>1 DEF LifeInv, CommitInv, Locked, Announcing
  <2>3. Leaves(x)  BY <2>1, ExitLeaves
  <2>4. \A y \in Threads : pc'[y] \notin Locked  BY <2>2, <2>3 DEF Leaves, Moves
  <2>5. terminals' = <<terminals'[1]>>
    <3>1. PICK g : g = goal[x] /\ terminals' = Append(terminals, g)
      BY <1>12, Zenon DEF CommitEvent
    <3> QED BY <2>2, <3>1
  <2>6. CommitInv'  BY <2>4, <2>5 DEF CommitInv, Locked
  <2>7. CountInv'  BY <2>1, <2>3, LeavesCounts
  <2> QED BY <2>3, <2>6, <2>7, AsideKeeps DEF Keeps, Leaves, Moves
<1> QED
  BY <1>1, <1>2, <1>3, <1>4, <1>5, <1>6, <1>7, <1>8, <1>9, <1>10, <1>11, <1>12
  DEF SharedStep

\* The steps of the process and of its reconciliation start and close no attempt; a lost
\* process takes its snapshots with it.
LEMMA ProcessKeeps ==
    ASSUME LifeInv, Reconciliation \/ Shutdown \/ Crash \/ Restart
    PROVE  Framed' /\ CommitInv' /\ CountInv'
<1>0. PICK x \in Threads : x = "reconcile"  BY DEF Threads
<1>1. CASE RecRead
  <2>1. Unwritten /\ Unlocked /\ pc[x] # "idle"
    BY <1>0, <1>1 DEF RecRead, At, Unwritten, Unlocked, loopVars, logVars
  <2>2. CASE Exit(x)  BY <2>1, <2>2, ExitLeaves, QuietKeeps DEF Quiet, Keeps
  <2>3. CASE ~Exit(x)
    <3>1. Leaves(x)
      BY <1>0, <1>1, <2>3 DEF RecRead, At, Goto, frameVars, envVars, LifeInv, Framed, Moves,
         Leaves, InAttempt, Locked, Announcing
    <3> QED BY <3>1, <2>1, QuietKeeps DEF Quiet, Keeps
  <2> QED BY <2>2, <2>3
<1>2. CASE RecState
  <2>1. Quiet(x)
    BY <1>0, <1>2 DEF RecState, At, Goto, frameVars, loopVars, logVars, envVars,
       LifeInv, Framed, Moves, Leaves, Quiet, Unwritten, Unlocked, InAttempt, Locked, Announcing
  <2> QED BY <2>1, QuietKeeps DEF Keeps
<1>3. CASE RecMark
  <2>1. Quiet(x)
    BY <1>0, <1>3 DEF RecMark, At, Goto, frameVars, loopVars, logVars, envVars,
       LifeInv, Framed, Moves, Leaves, Quiet, Unwritten, Unlocked, InAttempt, Locked, Announcing
  <2> QED BY <2>1, QuietKeeps DEF Keeps
<1>4. CASE RecRecover
  <2>1. Unwritten /\ Unlocked /\ pc[x] # "idle" /\ Exit(x)
    BY <1>0, <1>4 DEF RecRecover, At, Unwritten, Unlocked, loopVars, logVars
  <2> QED BY <2>1, ExitLeaves, QuietKeeps DEF Quiet, Keeps
<1>5. CASE Shutdown
  <2>1. UNCHANGED <<loop, rows, started, terminals, lock, pc, scope, why, seen, goal, attempt>>
    BY <1>5 DEF Shutdown, loopVars, logVars, frameVars
  <2> QED BY <2>1, StutterKeeps
<1>6. CASE Crash
  <2>1. /\ Unwritten /\ terminals' = terminals
        /\ pc' = [y \in Threads |-> "idle"] /\ seen' = [y \in Threads |-> NoLoop]
    BY <1>6 DEF Crash, Unwritten, loopVars, logVars
  <2>2. Framed'  BY <1>6 DEF Crash, Framed
  <2>3. CommitInv'  BY <2>1 DEF LifeInv, CommitInv, Locked, Announcing
  <2>4. RowsCounted'  BY <2>1 DEF LifeInv, CountInv, RowsCounted, Unwritten
  <2>5. ASSUME NEW y \in Threads PROVE SeenSound(y)' /\ AttemptSound(y)'
    BY <2>1, <2>4 DEF SeenSound, AttemptSound, RowsCounted, NoLoop, InAttempt
  <2> QED BY <2>2, <2>3, <2>4, <2>5 DEF CountInv
<1>7. CASE Restart
  <2>1. /\ pc' = [pc EXCEPT ![x] = "rec_read"] /\ Unlocked /\ Unwritten
        /\ UNCHANGED <<scope, why, seen, goal, attempt>>
    BY <1>0, <1>7 DEF Restart, Goto, Unlocked, Unwritten, loopVars, logVars, frameVars
  <2>2. Framed' /\ \A y \in Threads : pc'[y] \in InAttempt \cup Locked => pc'[y] = pc[y]
    BY <2>1 DEF LifeInv, Framed, InAttempt, Locked, Announcing
  <2>3. CommitInv'  BY <2>1, <2>2 DEF LifeInv, CommitInv, Unlocked, Locked
  <2>4. RowsCounted'  BY <2>1 DEF LifeInv, CountInv, RowsCounted, Unwritten
  <2>5. ASSUME NEW y \in Threads PROVE SeenSound(y)' /\ AttemptSound(y)'
    <3>1. SeenSound(y) /\ AttemptSound(y)  BY DEF LifeInv, CountInv
    <3> QED BY <3>1, <2>1, <2>2 DEF SeenSound, AttemptSound, Unwritten
  <2> QED BY <2>2, <2>3, <2>4, <2>5 DEF CountInv
<1> QED
  BY <1>1, <1>2, <1>3, <1>4, <1>5, <1>6, <1>7
  DEF Reconciliation

--------------------------------------------------------------------------------
(* What reconciliation itself does. *)

\* The reconciliation goes on to p, ...
RecMoves(p) ==
    /\ pc' = [pc EXCEPT !["reconcile"] = p]
    /\ UNCHANGED <<phase, cancelled, scope>>

LEMMA RecMovesKeeps ==
    ASSUME LifeInv, phase = "reconciling", NEW p, RecMoves(p), RecAt(p)'
    PROVE  RecInv' /\ Outcome
<1>1. "reconcile" \in Threads  BY DEF Threads
<1>2. pc'["reconcile"] = p /\ \A x \in Threads \ {"reconcile"} : pc'[x] = pc[x]
  BY <1>1 DEF LifeInv, Framed, RecMoves
<1>3. phase' = "reconciling" /\ cancelled' = cancelled /\ scope' = scope  BY DEF RecMoves
<1>4. RecAt(pc["reconcile"])'  BY <1>2
<1> QED BY <1>2, <1>3, <1>4 DEF LifeInv, RecInv, Outcome

\* ... or ends, with the records as they should be.
LEMMA RecEndsKeeps ==
    ASSUME LifeInv, Exit("reconcile"), Ready' PROVE RecInv' /\ Outcome
<1>1. "reconcile" \in Threads  BY DEF Threads
<1>2. pc'["reconcile"] = "idle" /\ scope'["reconcile"] = "bare" /\ phase' = "up"
  BY <1>1 DEF Exit, Goto, LifeInv, Framed
<1> QED BY <1>2 DEF RecInv, Outcome

\* Only while reconciling does the thread have a place, and one of its own.
LEMMA RecPlace ==
    ASSUME LifeInv, pc["reconcile"] # "idle"
    PROVE  phase = "reconciling" /\ RecAt(pc["reconcile"]) /\ "reconcile" \in Threads
BY DEF LifeInv, RecInv, Threads

\* What follows its write of the loop row.
LEMMA RecProceeds ==
    ASSUME LifeInv, Proceed("reconcile"), cancelled' = cancelled,
           NEW p, AfterWrite(why["reconcile"]) = p
    PROVE  RecMoves(p)
<1>1. pc' = [pc EXCEPT !["reconcile"] = p]  BY Zenon DEF Proceed, Goto
<1>2. UNCHANGED <<scope, phase>>  BY DEF Proceed, envVars
<1> QED BY <1>1, <1>2 DEF RecMoves

\* What the reconciliation writes.
LEMMA RecWrites ==
    /\ WriteStatus("reconcile") = "PAUSED" /\ AfterWrite("reconcile") = "set_paused"
    /\ WriteStatus("escalate") = "REQUIRES_HUMAN" /\ AfterWrite("escalate") = "commit"
BY DEF WriteStatus, AfterWrite

\* A terminal event stands for a terminal state.
LEMMA FromEventTerminal == ASSUME NEW e, NEW h PROVE FromEvent(e, h) \in Terminal
BY DEF FromEvent, Terminal

\* The attempt found without a row is really without one: rows are counted, and this number
\* comes after all of them.
LEMMA DanglingHasNoRow ==
    ASSUME LifeInv, NEW n, n = loop.iteration + 1, LastStarted(n) # 0
    PROVE  ~Persisted(LastStarted(n))
<1>1. RowsCounted  BY DEF LifeInv, CountInv
<1>2. started[LastStarted(n)] = n  BY <1>1, LastStartedIs DEF RowsCounted
<1>3. SUFFICES ASSUME NEW i \in 1 .. Len(rows), rows[i] = LastStarted(n) PROVE FALSE
  BY DEF Persisted
<1>4. started[rows[i]] = i /\ n = Len(rows) + 1 /\ Len(rows) \in Nat  BY <1>1 DEF RowsCounted
<1> QED BY <1>2, <1>3, <1>4

\* The reconciliation's own reads and its writes of the run's state.
LEMMA ReconciliationKeeps ==
    ASSUME LifeInv, Reconciliation PROVE RecInv' /\ Outcome
<1>1. CASE RecRead
  <2>1. pc["reconcile"] = "rec_read"  BY <1>1 DEF RecRead, At
  <2>2. phase = "reconciling" /\ "reconcile" \in Threads  BY <2>1, RecPlace
  <2>3. UNCHANGED <<runState, loop, terminals, pausedEvent, cancelled>>
    BY <1>1 DEF RecRead, runVars, loopVars, logVars
  <2>4. ASSUME loop.status \in Terminal, goal' = [goal EXCEPT !["reconcile"] = loop.status],
               Goto("reconcile", IF runState = loop.status THEN "commit" ELSE "rec_state"),
               UNCHANGED <<scope, why, seen, phase>>
        PROVE  RecInv' /\ Outcome
    <3>1. goal'["reconcile"] = loop.status  BY <2>2, <2>4 DEF LifeInv, Framed
    <3>2. CASE runState = loop.status
      <4>1. RecMoves("commit")  BY <2>3, <2>4, <3>2 DEF RecMoves, Goto
      <4>2. RecAt("commit")'
        BY <2>3, <2>4, <3>1, <3>2 DEF RecAt, Settling, OpenPlaces, Decided
      <4> QED BY <2>2, <4>1, <4>2, RecMovesKeeps
    <3>3. CASE runState # loop.status
      <4>1. RecMoves("rec_state")  BY <2>3, <2>4, <3>3 DEF RecMoves, Goto
      <4>2. RecAt("rec_state")'
        BY <2>3, <2>4, <3>1, <3>3 DEF RecAt, Settling, OpenPlaces, Decided
      <4> QED BY <2>2, <4>1, <4>2, RecMovesKeeps
    <3> QED BY <3>2, <3>3
  <2>5. ASSUME loop.status \notin Terminal, terminals # <<>>, Exit("reconcile"),
               \E e, h : runState = FromEvent(e, h)
        PROVE  RecInv' /\ Outcome
    <3>1. runState \in Terminal  BY <2>5, FromEventTerminal
    <3>2. Ready'  BY <2>3, <2>5, <3>1 DEF Ready, Terminal
    <3> QED BY <2>5, <3>2, RecEndsKeeps
  <2>6. ASSUME loop.status \notin Terminal, terminals # <<>>, Goto("reconcile", "rec_recover"),
               UNCHANGED <<frameVars, phase>>
        PROVE  RecInv' /\ Outcome
    <3>1. RecMoves("rec_recover")
      BY <2>3, <2>6 DEF RecMoves, Goto, frameVars
    <3>2. RecAt("rec_recover")'  BY <2>3, <2>6 DEF RecAt, Settling, OpenPlaces
    <3> QED BY <2>2, <3>1, <3>2, RecMovesKeeps
  <2>7. ASSUME loop.status \notin Terminal, terminals = <<>>, runState \in Terminal,
               goal' = [goal EXCEPT !["reconcile"] = runState], Goto("reconcile", "commit"),
               UNCHANGED <<scope, why, seen, phase>>
        PROVE  RecInv' /\ Outcome
    <3>1. goal'["reconcile"] = runState  BY <2>2, <2>7 DEF LifeInv, Framed
    <3>2. RecMoves("commit")  BY <2>3, <2>7 DEF RecMoves, Goto
    <3>3. RecAt("commit")'  BY <2>3, <2>7, <3>1 DEF RecAt, Settling, OpenPlaces, Decided
    <3> QED BY <2>2, <3>2, <3>3, RecMovesKeeps
  <2>8. ASSUME loop.status = "PAUSED", terminals = <<>>, runState = "PAUSED",
               Goto("reconcile", "pause_event"), UNCHANGED <<frameVars, phase>>
        PROVE  RecInv' /\ Outcome
    <3>1. RecMoves("pause_event")
      BY <2>3, <2>8 DEF RecMoves, Goto, frameVars
    <3>2. RecAt("pause_event")'  BY <2>3, <2>8 DEF RecAt, Settling, OpenPlaces, Terminal
    <3> QED BY <2>2, <3>1, <3>2, RecMovesKeeps
  <2>9. ASSUME loop.status \notin Terminal, terminals = <<>>,
               Goto("reconcile", "rec_mark"), UNCHANGED <<frameVars, phase>>
        PROVE  RecInv' /\ Outcome
    <3>1. RecMoves("rec_mark")
      BY <2>3, <2>9 DEF RecMoves, Goto, frameVars
    <3>2. RecAt("rec_mark")'  BY <2>3, <2>9 DEF RecAt, Settling, OpenPlaces
    <3> QED BY <2>2, <3>1, <3>2, RecMovesKeeps
  <2> QED BY <1>1, <2>4, <2>5, <2>6, <2>7, <2>8, <2>9 DEF RecRead, envVars
<1>2. CASE RecState
  <2>1. pc["reconcile"] = "rec_state"  BY <1>2 DEF RecState, At
  <2>2. phase = "reconciling" /\ RecAt("rec_state")  BY <2>1, RecPlace
  <2>3. /\ runState' = loop.status /\ UNCHANGED <<loop, terminals, goal>>
        /\ loop.status = goal["reconcile"] /\ goal["reconcile"] \in Terminal
    BY <1>2, <2>2 DEF RecState, RecAt, Settling, Decided, loopVars, logVars, frameVars
  <2>4. RecMoves("commit")
    BY <1>2 DEF RecState, RecMoves, Goto, frameVars, envVars, flagVars
  <2>5. RecAt("commit")'  BY <2>3 DEF RecAt, Settling, OpenPlaces, Decided
  <2> QED BY <2>2, <2>4, <2>5, RecMovesKeeps
<1>3. CASE RecRecover
  <2>1. pc["reconcile"] = "rec_recover"  BY <1>3 DEF RecRecover, At
  <2>2. RecAt("rec_recover")  BY <2>1, RecPlace
  <2>3. loop.status \notin Terminal /\ terminals # <<>>  BY <2>2 DEF RecAt
  <2>4. runState' \in Terminal  BY <1>3, FromEventTerminal DEF RecRecover
  <2>5. Exit("reconcile") /\ UNCHANGED <<loop, terminals>>
    BY <1>3 DEF RecRecover, loopVars, logVars
  <2>6. Ready'  BY <2>3, <2>4, <2>5 DEF Ready, Terminal
  <2> QED BY <2>5, <2>6, RecEndsKeeps
<1>4. CASE RecMark
  <2>1. pc["reconcile"] = "rec_mark"  BY <1>4 DEF RecMark, At
  <2>2. phase = "reconciling" /\ RecAt("rec_mark") /\ "reconcile" \in Threads  BY <2>1, RecPlace
  <2>3. loop.status \notin Terminal /\ terminals = <<>>  BY <2>2 DEF RecAt, OpenPlaces
  <2>4. UNCHANGED <<loop, terminals, goal, scope, phase, cancelled>>
    BY <1>4 DEF RecMark, loopVars, logVars, flagVars, envVars
  <2>5. CASE Goto("reconcile", "escalate_read") /\ UNCHANGED <<why, seen>>
    <3>1. RecMoves("escalate_read")  BY <2>4, <2>5 DEF RecMoves, Goto
    <3>2. RecAt("escalate_read")'  BY <2>3, <2>4 DEF RecAt, Settling, OpenPlaces
    <3> QED BY <2>2, <3>1, <3>2, RecMovesKeeps
  <2>6. CASE /\ why' = [why EXCEPT !["reconcile"] = "reconcile"]
             /\ seen' = [seen EXCEPT !["reconcile"] = loop]
             /\ Goto("reconcile", "close_read")
    <3>1. RecMoves("close_read")  BY <2>4, <2>6 DEF RecMoves, Goto
    <3>2. why'["reconcile"] = "reconcile" /\ seen'["reconcile"] = loop
      BY <2>2, <2>6 DEF LifeInv, Framed
    <3>3. RecAt("close_read")'  BY <2>3, <2>4, <3>2 DEF RecAt, Settling, OpenPlaces
    <3> QED BY <2>2, <3>1, <3>3, RecMovesKeeps
  <2> QED BY <1>4, <2>5, <2>6 DEF RecMark
<1> QED BY <1>1, <1>2, <1>3, <1>4 DEF Reconciliation

\* What it does of the steps any thread may take.
LEMMA SharedReconciles ==
    ASSUME LifeInv, SharedStep("reconcile") PROVE RecInv' /\ Outcome
<1> DEFINE r == "reconcile"
<1>0. "reconcile" \in Threads /\ DOMAIN goal = Threads /\ DOMAIN why = Threads /\ DOMAIN seen = Threads
  BY DEF LifeInv, Framed, Threads
<1>1. CASE SetPaused(r)
  <2>1. pc[r] = "set_paused"  BY <1>1 DEF SetPaused, At
  <2>2. phase = "reconciling" /\ RecAt("set_paused")  BY <2>1, RecPlace
  <2>3. loop.status = "PAUSED" /\ terminals = <<>>  BY <2>2 DEF RecAt, OpenPlaces
  <2>4. runState' = "PAUSED" /\ UNCHANGED <<loop, terminals>>
    BY <1>1 DEF SetPaused, loopVars, logVars
  <2>5. RecMoves("pause_event")
    BY <1>1 DEF SetPaused, RecMoves, Goto, frameVars, envVars, flagVars
  <2>6. RecAt("pause_event")'  BY <2>3, <2>4 DEF RecAt, Settling, OpenPlaces, Terminal
  <2> QED BY <2>2, <2>5, <2>6, RecMovesKeeps
<1>2. CASE PauseEvent(r)
  <2>1. pc[r] = "pause_event"  BY <1>2 DEF PauseEvent, At
  <2>2. RecAt("pause_event")  BY <2>1, RecPlace
  <2>3. loop.status = "PAUSED" /\ terminals = <<>> /\ runState = "PAUSED"
    BY <2>2 DEF RecAt, OpenPlaces
  <2>4. Exit("reconcile") /\ pausedEvent' = TRUE /\ UNCHANGED <<runState, loop, terminals>>
    BY <1>2 DEF PauseEvent, runVars, loopVars
  <2>5. Ready'  BY <2>3, <2>4 DEF Ready, Terminal
  <2> QED BY <2>4, <2>5, RecEndsKeeps
<1>3. CASE LoopWrite(r)
  <2>1. pc[r] = "loop_write"  BY <1>3 DEF LoopWrite, At
  <2>2. phase = "reconciling" /\ RecAt("loop_write")  BY <2>1, RecPlace
  <2>3. /\ why[r] \in {"reconcile", "escalate"} /\ seen[r] = loop
        /\ loop.status \notin Terminal /\ terminals = <<>>
    BY <2>2 DEF RecAt, OpenPlaces
  <2>4. Current(r)  BY <2>3 DEF Current
  <2>5. /\ loop'.status = WriteStatus(why[r]) /\ Proceed(r) /\ terminals' = terminals
        /\ seen' = [seen EXCEPT ![r] = loop'] /\ cancelled' = cancelled
    BY <1>3, <2>4 DEF LoopWrite, LoopAs, logVars
  <2>6. CASE why[r] = "reconcile"
    <3>0. AfterWrite(why[r]) = "set_paused"  BY <2>6, RecWrites
    <3>1. RecMoves("set_paused")  BY <2>5, <3>0, RecProceeds, Zenon
    <3>2. RecAt("set_paused")'
      BY <2>3, <2>5, <2>6, RecWrites DEF RecAt, Settling, OpenPlaces, Terminal
    <3> QED BY <2>2, <3>1, <3>2, RecMovesKeeps
  <2>7. CASE why[r] = "escalate"
    <3>0. AfterWrite(why[r]) = "commit"  BY <2>7, RecWrites
    <3>1. RecMoves("commit")  BY <2>5, <3>0, RecProceeds, Zenon
    <3>2. goal'[r] = "REQUIRES_HUMAN"  BY <1>0, <2>5, <2>7, RecWrites DEF Proceed
    <3>3. RecAt("commit")'
      BY <2>3, <2>5, <2>7, <3>2, RecWrites DEF RecAt, Settling, OpenPlaces, Decided, Terminal
    <3> QED BY <2>2, <3>1, <3>3, RecMovesKeeps
  <2> QED BY <2>3, <2>6, <2>7
<1>4. CASE CloseRead(r)
  <2>1. pc[r] = "close_read"  BY <1>4 DEF CloseRead, At
  <2>2. phase = "reconciling" /\ RecAt("close_read")  BY <2>1, RecPlace
  <2>3. /\ why[r] = "reconcile" /\ seen[r] = loop
        /\ loop.status \notin Terminal /\ terminals = <<>>
    BY <2>2 DEF RecAt, OpenPlaces
  <2>4. UNCHANGED <<loop, terminals, scope, why, seen, phase, cancelled>>
    BY <1>4 DEF CloseRead, loopVars, logVars, flagVars, envVars
  <2>5. PICK n : n = loop.iteration + 1  OBVIOUS
  <2>6. \/ Goto(r, "loop_write") /\ UNCHANGED goal
        \/ Goto(r, "close_write") /\ UNCHANGED goal
    <3>1. LastStarted(n) # 0 => ~Persisted(LastStarted(n))  BY <2>5, DanglingHasNoRow
    <3> QED BY <1>4, <2>3, <2>5, <3>1 DEF CloseRead
  <2>7. CASE Goto(r, "loop_write") /\ UNCHANGED goal
    <3>1. RecMoves("loop_write")  BY <2>4, <2>7 DEF RecMoves, Goto
    <3>2. RecAt("loop_write")'  BY <2>3, <2>4 DEF RecAt, Settling, OpenPlaces
    <3> QED BY <2>2, <3>1, <3>2, RecMovesKeeps
  <2>8. CASE Goto(r, "close_write") /\ UNCHANGED goal
    <3>1. RecMoves("close_write")  BY <2>4, <2>8 DEF RecMoves, Goto
    <3>2. RecAt("close_write")'  BY <2>3, <2>4 DEF RecAt, Settling, OpenPlaces
    <3> QED BY <2>2, <3>1, <3>2, RecMovesKeeps
  <2> QED BY <2>6, <2>7, <2>8
<1>5. CASE CloseWrite(r)
  <2>1. pc[r] = "close_write"  BY <1>5 DEF CloseWrite, At
  <2>2. phase = "reconciling" /\ RecAt("close_write")  BY <2>1, RecPlace
  <2>3. /\ why[r] = "reconcile" /\ seen[r] = loop
        /\ loop.status \notin Terminal /\ terminals = <<>>
    BY <2>2 DEF RecAt, OpenPlaces
  <2>4. Current(r)  BY <2>3 DEF Current
  <2>5. /\ loop'.status = WriteStatus(why[r]) /\ Proceed(r) /\ terminals' = terminals
        /\ seen' = seen /\ cancelled' = cancelled
    BY <1>5, <2>4 DEF CloseWrite, LoopAs, logVars
  <2>6. RecMoves("set_paused")
    <3>1. AfterWrite(why[r]) = "set_paused"  BY <2>3, RecWrites
    <3> QED BY <2>5, <3>1, RecProceeds, Zenon
  <2>7. RecAt("set_paused")'
    BY <2>3, <2>5, RecWrites DEF RecAt, Settling, OpenPlaces, Terminal
  <2> QED BY <2>2, <2>6, <2>7, RecMovesKeeps
<1>6. CASE CancelRead(r) \/ FailRead(r) \/ CommitRecover(r)
  <2>1. pc[r] \in {"cancel_read", "fail_read", "commit_recover"}
    BY <1>6 DEF CancelRead, FailRead, CommitRecover, At
  <2>2. RecAt(pc[r])  BY <2>1, RecPlace
  <2> QED BY <2>1, <2>2 DEF RecAt, Settling, OpenPlaces
<1>7. CASE EscalateRead(r)
  <2>1. pc[r] = "escalate_read"  BY <1>7 DEF EscalateRead, At
  <2>2. phase = "reconciling" /\ RecAt("escalate_read")  BY <2>1, RecPlace
  <2>3. loop.status \notin Terminal /\ terminals = <<>>  BY <2>2 DEF RecAt, OpenPlaces
  <2>4. /\ why' = [why EXCEPT ![r] = "escalate"] /\ seen' = [seen EXCEPT ![r] = loop]
        /\ Goto(r, "loop_write")
        /\ UNCHANGED <<loop, terminals, goal, scope, phase, cancelled>>
    BY <1>7, <2>3 DEF EscalateRead, Resolve, loopVars, logVars, flagVars, envVars
  <2>5. RecMoves("loop_write")  BY <2>4 DEF RecMoves, Goto
  <2>6. why'[r] = "escalate" /\ seen'[r] = loop'  BY <1>0, <2>4
  <2>7. RecAt("loop_write")'  BY <2>3, <2>4, <2>6 DEF RecAt, Settling, OpenPlaces
  <2> QED BY <2>2, <2>5, <2>7, RecMovesKeeps
<1>8. CASE Commit(r)
  <2>1. pc[r] = "commit"  BY <1>8 DEF Commit, At
  <2>2. phase = "reconciling" /\ RecAt("commit")  BY <2>1, RecPlace
  <2>3. Decided /\ (terminals = <<>> \/ runState = goal[r])  BY <2>2 DEF RecAt, Settling
  <2>4. UNCHANGED <<runState, loop, terminals, cancelled>>
    BY <1>8 DEF Commit, runVars, loopVars, logVars
  <2>5. CASE terminals = <<>>
    <3>1. Goto(r, "commit_state") /\ UNCHANGED <<scope, why, seen, goal, phase>>
      BY <1>8, <2>5 DEF Commit, frameVars, envVars
    <3>2. RecMoves("commit_state")  BY <2>4, <3>1 DEF RecMoves, Goto
    <3>3. RecAt("commit_state")'
      BY <2>3, <2>4, <2>5, <3>1 DEF RecAt, Settling, OpenPlaces, Decided
    <3> QED BY <2>2, <3>2, <3>3, RecMovesKeeps
  <2>6. CASE terminals # <<>>
    <3>1. runState = goal[r] /\ runState \in Terminal  BY <2>3, <2>6 DEF Decided
    <3>2. Exit("reconcile")  BY <1>8, <2>6, <3>1 DEF Commit
    <3>3. Ready'  BY <2>3, <2>4, <2>6, <3>1 DEF Ready, Decided, Terminal
    <3> QED BY <3>2, <3>3, RecEndsKeeps
  <2> QED BY <2>5, <2>6
<1>9. CASE CommitState(r)
  <2>1. pc[r] = "commit_state"  BY <1>9 DEF CommitState, At
  <2>2. phase = "reconciling" /\ RecAt("commit_state")  BY <2>1, RecPlace
  <2>3. Decided /\ terminals = <<>>  BY <2>2 DEF RecAt, Settling
  <2>4. runState' = goal[r] /\ UNCHANGED <<loop, terminals, goal>>
    BY <1>9 DEF CommitState, loopVars, logVars, frameVars
  <2>5. RecMoves("commit_event")
    BY <1>9 DEF CommitState, RecMoves, Goto, frameVars, envVars, flagVars
  <2>6. RecAt("commit_event")'  BY <2>3, <2>4 DEF RecAt, Settling, OpenPlaces, Decided
  <2> QED BY <2>2, <2>5, <2>6, RecMovesKeeps
<1>10. CASE CommitEvent(r)
  <2>1. pc[r] = "commit_event"  BY <1>10 DEF CommitEvent, At
  <2>2. RecAt("commit_event")  BY <2>1, RecPlace
  <2>3. Decided /\ terminals = <<>> /\ runState = goal[r]  BY <2>2 DEF RecAt, Settling
  <2>4. /\ Exit("reconcile") /\ terminals' = Append(terminals, goal[r])
        /\ UNCHANGED <<runState, loop>>
    BY <1>10 DEF CommitEvent, runVars, loopVars
  <2>5. terminals' # <<>>
    <3>1. PICK g : g = goal[r]  OBVIOUS
    <3>2. Append(<<>>, g) = <<g>> /\ <<g>> # <<>>  OBVIOUS
    <3> QED BY <2>3, <2>4, <3>1, <3>2
  <2>6. Ready'  BY <2>3, <2>4, <2>5 DEF Ready, Decided, Terminal
  <2> QED BY <2>4, <2>6, RecEndsKeeps
<1> QED BY <1>1, <1>2, <1>3, <1>4, <1>5, <1>6, <1>7, <1>8, <1>9, <1>10 DEF SharedStep

\* Reconciliation begins when the process has been lost and nothing runs.
LEMMA ProcessReconciles ==
    ASSUME LifeInv, Shutdown \/ Crash \/ Restart PROVE RecInv' /\ Outcome
<1>1. CASE Shutdown
  <2>1. phase = "up" /\ phase' = "closing" /\ UNCHANGED <<pc, scope>>
    BY <1>1 DEF Shutdown, frameVars
  <2> QED BY <2>1 DEF LifeInv, RecInv, Outcome
<1>2. CASE Crash
  <2>1. /\ phase' = "down" /\ cancelled' = {}
        /\ pc' = [x \in Threads |-> "idle"] /\ scope' = [x \in Threads |-> "bare"]
    BY <1>2 DEF Crash
  <2> QED BY <2>1 DEF RecInv, Outcome, Threads
<1>3. CASE Restart
  <2>1. /\ phase = "down" /\ phase' = "reconciling" /\ UNCHANGED <<cancelled, scope>>
        /\ pc' = [pc EXCEPT !["reconcile"] = "rec_read"]
    BY <1>3 DEF Restart, Goto, flagVars, frameVars
  <2>2. /\ pc'["reconcile"] = "rec_read"
        /\ \A x \in Threads \ {"reconcile"} : pc'[x] = pc[x]
    BY <2>1 DEF LifeInv, Framed, Threads
  <2>3. RecAt("rec_read")'  BY DEF RecAt, Settling, OpenPlaces
  <2>4. RecAt(pc["reconcile"])'  BY <2>2, <2>3
  <2> QED BY <2>1, <2>2, <2>4 DEF LifeInv, RecInv, Outcome
<1> QED BY <1>1, <1>2, <1>3

--------------------------------------------------------------------------------
(* The invariants hold of every run. *)

\* No step, of whichever thread, breaks them, and one that ends a reconciliation leaves the
\* records in order.
THEOREM NextLifeInv == LifeInv /\ [Next]_vars => LifeInv' /\ Outcome
<1> SUFFICES ASSUME LifeInv, [Next]_vars PROVE LifeInv' /\ Outcome
  OBVIOUS
<1>1. CASE \E t \in Tasks : TaskStep(t)
  BY <1>1, TaskKeeps, LifecycleAssumption DEF Threads, Keeps, LifeInv
<1>2. CASE \E c \in Callers : CallerStep(c) \/ Operator(c)
  BY <1>2, CallerKeeps, LifecycleAssumption DEF Threads, Keeps, LifeInv
<1>3. CASE \E x \in Threads : SharedStep(x)
  BY <1>3, SharedKeeps, SharedReconciles DEF Keeps, LifeInv
<1>4. CASE Reconciliation  BY <1>4, ProcessKeeps, ReconciliationKeeps DEF LifeInv
<1>5. CASE Shutdown \/ Crash \/ Restart  BY <1>5, ProcessKeeps, ProcessReconciles DEF LifeInv
<1>6. CASE UNCHANGED vars
  <2>1. /\ UNCHANGED <<loop, rows, started, terminals, lock, pc, scope, why, seen, goal, attempt>>
        /\ UNCHANGED <<runState, cancelled, phase>>
    BY <1>6 DEF vars, runVars, loopVars, logVars, flagVars, frameVars, envVars
  <2>2. RecAt(pc["reconcile"])' <=> RecAt(pc["reconcile"])
    BY <2>1 DEF RecAt, Decided
  <2>3. RecInv' /\ Outcome  BY <2>1, <2>2 DEF LifeInv, RecInv, Outcome
  <2> QED BY <2>1, <2>3, StutterKeeps DEF LifeInv
<1> QED BY <1>1, <1>2, <1>3, <1>4, <1>5, <1>6 DEF Next

\* A run announces its end at most once, whatever tasks, requests, cancellations, crashes
\* and restarts do (_commit_run_terminal).
THEOREM RunOneTerminalEvent == AnySpec => []OneTerminalEvent
<1>1. LifeInv => OneTerminalEvent
  <2> SUFFICES ASSUME LifeInv PROVE OneTerminalEvent
    OBVIOUS
  <2>1. CASE terminals = <<>>  BY <2>1 DEF OneTerminalEvent
  <2>2. CASE terminals = <<terminals[1]>>
    <3>1. Len(<<terminals[1]>>) = 1  OBVIOUS
    <3> QED BY <2>2, <3>1 DEF OneTerminalEvent
  <2> QED BY <2>1, <2>2 DEF LifeInv, CommitInv
<1>2. LifeInv /\ [Next]_vars => LifeInv'  BY NextLifeInv
<1> QED BY <1>1, <1>2, InitLifeInv, PTL DEF AnySpec

\* However the task, pauses, cancellations and restarts race to close an attempt, its row
\* is written once and counted once (append_loop_iteration, _close_dangling_iteration).
THEOREM RunIterationsCounted == AnySpec => []IterationsCounted
<1>1. LifeInv => IterationsCounted
  <2> SUFFICES ASSUME RowsCounted PROVE IterationsCounted  BY DEF LifeInv, CountInv
  <2>1. \A i \in 1 .. Len(rows) : started[rows[i]] = i  BY DEF RowsCounted
  <2>2. \A i, j \in 1 .. Len(rows) : rows[i] = rows[j] => i = j  BY <2>1, Zenon
  <2> QED BY <2>1, <2>2 DEF RowsCounted, IterationsCounted
<1>2. LifeInv /\ [Next]_vars => LifeInv'  BY NextLifeInv
<1> QED BY <1>1, <1>2, InitLifeInv, PTL DEF AnySpec

\* Whatever step the lost process stopped at, with whatever requests in flight, a restart
\* leaves the run over with its event and its loop's verdict, or paused with its loop
\* (RunManager.reconcile).
THEOREM RunReconciled == AnySpec => Reconciled
<1>1. LifeInv /\ [Next]_vars =>
        [phase = "reconciling" /\ phase' = "up" =>
            /\ runState' \in Terminal \cup {"PAUSED"}
            /\ runState' \in Terminal <=> terminals' # <<>>
            /\ loop'.status \in Terminal => runState' = loop'.status
            /\ runState' = "PAUSED" => loop'.status = "PAUSED" /\ pausedEvent']_vars
  BY NextLifeInv DEF Outcome, Ready
<1>2. LifeInv /\ [Next]_vars => LifeInv'  BY NextLifeInv
<1> QED BY <1>1, <1>2, InitLifeInv, PTL DEF AnySpec, Reconciled

================================================================================
