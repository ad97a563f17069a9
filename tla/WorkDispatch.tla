---------------------------- MODULE WorkDispatch ----------------------------
(***************************************************************************)
(* The dispatch of one work task to its executors and the cancellation of  *)
(* the whole task (src/main/work-items, with the tree fence of             *)
(* src/main/workflow).  A request is one durable command: Main records it, *)
(* claims it, starts one executor run and links the run to the task.  A    *)
(* cancellation freezes the commands of the task, stops every executor     *)
(* once and reads the outcome back; it races the dispatches, the projected *)
(* executor events, single run controls, failing writes and restarts.      *)
(*                                                                         *)
(* Every durable mutation of WorkItemStore is one action, since the store  *)
(* serialises them.  The expected revision of a request is left out: a     *)
(* conflict changes nothing.  "paused" stands for a paused or failed       *)
(* workflow run, "queued" for a queued or waiting one.                     *)
(***************************************************************************)
EXTENDS Naturals

CONSTANTS
  Request,        \* the dispatch requests (and their commands) of the task
  Employee,       \* those that may name an employee as their executor
  Workflow,       \* those that may name a workflow or an employee method
  Controlled,     \* those whose run the user may also cancel or resume by itself
  MaxRestarts,    \* bound on the restarts of the process
  MaxFaults       \* bound on failing writes and lost leases

ASSUME RequestAssumption ==
  Employee \cup Workflow = Request /\ Controlled \subseteq Request
ASSUME BoundsAssumption == MaxRestarts \in Nat /\ MaxFaults \in Nat

VARIABLES
  stage,      \* stage of the dispatch receipt of each request
  run,        \* status of the task's run reference of each request
  known,      \* requests whose run reference carries the executor's run id
  target,     \* frozen cancellation target of each request
  cancel,     \* state of the task's cancellation
  task,       \* status of the task
  exec,       \* the executor each request names, and its own durable record
  calls,      \* how often an executor was asked to start a command (history)
  pc,         \* the step of WorkItemExecutionService each request is at
  seen,       \* the executor status that step carries
  co,         \* the cancellation coordinator, serialised per task
  wake,       \* a reconciliation of the task is queued
  news,       \* runs with an executor event that is not observed yet
  ctl,        \* the run control of each request
  restarts, faults

store    == <<stage, run, known, target, cancel, task>>
dispatch == <<pc, seen>>
vars     == <<store, exec, calls, dispatch, co, wake, news, ctl,
              restarts, faults>>

Final    == {"completed", "failed", "cancelled"}
Active   == {"queued", "running", "paused", "cancelling", "interrupted"}
Settled  == {"cancelled", "settled"}

NoTarget == [state |-> "none", known |-> FALSE, final |-> "none", err |-> "none"]
NoExec   == [flow |-> FALSE, root |-> "none", asked |-> FALSE, child |-> "none",
             casked |-> FALSE, tree |-> "none", err |-> {}]
NoCtl    == [at |-> "idle", status |-> "none"]
Rest     == [at |-> "idle", todo |-> {}, r |-> "none", upd |-> NoTarget]

Init ==
  /\ stage = [r \in Request |-> "none"]   /\ run = [r \in Request |-> "none"]
  /\ known = {}                           /\ target = [r \in Request |-> NoTarget]
  /\ cancel = "none"                      /\ task = "open"
  /\ exec \in {f \in [Request -> {NoExec, [NoExec EXCEPT !.flow = TRUE]}] :
                 \A r \in Request : r \in IF f[r].flow THEN Workflow ELSE Employee}
  /\ calls = [r \in Request |-> 0]
  /\ pc = [r \in Request |-> "idle"]      /\ seen = [r \in Request |-> "none"]
  /\ co = Rest                            /\ wake = FALSE
  /\ news = {}
  /\ ctl = [r \in Request |-> NoCtl]
  /\ restarts = 0                         /\ faults = 0

Fault == faults < MaxFaults /\ faults' = faults + 1

\* What a committed change of the task announces: without a cancellation every
\* linked run is projected again, with one nothing is.
Announce == news' = news \cup (IF cancel' = "none" THEN known' ELSE {})

-----------------------------------------------------------------------------
(* The executors' own records.                                             *)

\* Faulty variant of Open, under FencedTreesRest: the tree is its root.
OpenRoot(e) == {t \in {"root"} : e.root \notin Final}

\* State of a fenced tree: an unknown target outweighs an open one.
Open(e) == {t \in {"root", "child"} :
              \/ t = "root"  /\ e.root \notin Final
              \/ t = "child" /\ e.child \notin {"none", "done"}}

Refresh(e) ==
  LET err == e.err \cap Open(e)
  IN  [e EXCEPT !.err = err,
                !.tree = CASE err # {} -> "unknown"
                           [] err = {} /\ Open(e) # {} -> "cancelling"
                           [] OTHER -> "done"]

\* A saved workflow record refreshes the fence it is under.
Saved(e) == IF e.tree = "none" THEN e ELSE Refresh(e)

\* One target of the tree is asked to stop: what waits is cancelled at once,
\* what runs is marked for its worker.
StopChild(e) ==
  IF e.child = "running" THEN [e EXCEPT !.casked = TRUE]
  ELSE IF e.child \in {"queued", "paused"} THEN [e EXCEPT !.child = "done"]
  ELSE e

StopRoot(e, recoverable) ==
  IF e.root = "running" THEN [e EXCEPT !.asked = TRUE]
  ELSE IF e.root = "queued" \/ (recoverable /\ e.root = "paused")
    THEN [e EXCEPT !.root = "cancelled", !.asked = TRUE]
  ELSE e

\* The outcomes of EmployeeRunService.cancel: asked records an accepted receipt
\* of a run that is still observed.
EmployeeCancelled(e) ==
  CASE e.root = "queued"  -> {[e EXCEPT !.root = "cancelled"]}
    [] e.root = "running" -> {[e EXCEPT !.root = "cancelling", !.asked = a] : a \in BOOLEAN}
    [] OTHER -> {e}

EmployeeNext(e) ==
  CASE e.root = "queued"     -> {[e EXCEPT !.root = "running"]}
    [] e.root = "running"    -> {[e EXCEPT !.root = s] :
                                   s \in {"completed", "failed", "interrupted"}}
    [] e.root = "cancelling" -> {[e EXCEPT !.root = s] : s \in Final}
                                  \cup {[e EXCEPT !.asked = FALSE]}
    [] OTHER -> {}

\* A queued run is claimed only outside a fence; a claimed run that was asked to
\* stop is cancelled, unless it completes or fails first.
RootNext(e) ==
  CASE e.root = "queued" /\ e.tree = "none" -> {[e EXCEPT !.root = "running"]}
    [] e.root = "running" -> {[e EXCEPT !.root = s] : s \in
                                {"completed", "paused"}
                                  \cup (IF e.asked THEN {"cancelled"} ELSE {})}
    [] OTHER -> {}

\* A child is enqueued and claimed only outside a fence of its root.
ChildNext(e) ==
  CASE e.child = "none" /\ e.root = "running" /\ e.tree = "none" ->
         {[e EXCEPT !.child = "queued"]}
    [] e.child = "queued" /\ e.tree = "none" -> {[e EXCEPT !.child = "running"]}
    [] e.child = "running" -> {[e EXCEPT !.child = s] : s \in {"done", "paused"}}
    [] OTHER -> {}

RootRuns(r) ==
  /\ \E e \in IF exec[r].flow THEN RootNext(exec[r]) ELSE EmployeeNext(exec[r]) :
       exec' = [exec EXCEPT ![r] = Saved(e)]
  /\ news' = news \cup {r}
  /\ UNCHANGED <<store, calls, dispatch, co, wake, ctl, restarts, faults>>

ChildRuns(r) ==
  /\ exec[r].flow
  /\ \E e \in ChildNext(exec[r]) : exec' = [exec EXCEPT ![r] = Saved(e)]
  /\ news' = IF exec[r].tree = "none" THEN news ELSE news \cup {r}
  /\ UNCHANGED <<store, calls, dispatch, co, wake, ctl, restarts, faults>>

\* A worker that lost its lease or could not save gives the run back in the
\* store alone: no event is sent and no fence refreshed.
LeaseLost(r) ==
  /\ Fault /\ exec[r].root = "running" /\ exec[r].flow
  /\ \E s \in {"paused", IF exec[r].asked THEN "cancelled" ELSE "queued"} :
       exec' = [exec EXCEPT ![r].root = s]
  /\ UNCHANGED <<store, calls, dispatch, co, wake, news, ctl, restarts>>

-----------------------------------------------------------------------------
(* WorkItemExecutionService: one request, serialised with its own retries. *)

\* Faulty variant of Execute, under StartedOnce: the replay of a dispatch that
\* is not linked starts the command again instead of looking for it.
ExecuteRestarts(r) ==
  /\ pc[r] = "idle"
  /\ \/ /\ stage[r] = "none" /\ cancel = "none"
        /\ stage' = [stage EXCEPT ![r] = "recorded"]
        /\ run' = [run EXCEPT ![r] = "queued"]
        /\ task' = "active"
        /\ pc' = [pc EXCEPT ![r] = "claim"]
        /\ UNCHANGED <<cancel, known>> /\ Announce
     \/ /\ stage[r] \notin {"none", "linked"}
        /\ pc' = [pc EXCEPT ![r] = IF stage[r] = "recorded" THEN "claim" ELSE "start"]
        /\ UNCHANGED <<stage, run, task, cancel, known, news>>
  /\ UNCHANGED <<target, exec, calls, seen, co, wake, ctl, restarts, faults>>

\* A new request is recorded unless the task is being cancelled; a replay goes
\* on from the stage of its receipt.
Execute(r) ==
  /\ pc[r] = "idle"
  /\ \/ /\ stage[r] = "none" /\ cancel = "none"
        /\ stage' = [stage EXCEPT ![r] = "recorded"]
        /\ run' = [run EXCEPT ![r] = "queued"]
        /\ task' = "active"
        /\ pc' = [pc EXCEPT ![r] = "claim"]
        /\ UNCHANGED <<cancel, known>> /\ Announce
     \/ /\ stage[r] \notin {"none", "linked"}
        /\ pc' = [pc EXCEPT ![r] = IF stage[r] = "recorded" THEN "claim" ELSE "find"]
        /\ UNCHANGED <<stage, run, task, cancel, known, news>>
  /\ UNCHANGED <<target, exec, calls, seen, co, wake, ctl, restarts, faults>>

\* claimDispatch: the only way from the record to the executor.
Claim(r) ==
  /\ pc[r] = "claim"
  /\ \/ /\ stage[r] = "recorded"
        /\ stage' = [stage EXCEPT ![r] = "dispatching"]
        /\ pc' = [pc EXCEPT ![r] = "start"]
        /\ UNCHANGED <<cancel, known, faults>> /\ Announce
     \/ /\ stage[r] # "recorded"
        /\ pc' = [pc EXCEPT ![r] = IF stage[r] = "cancelled" THEN "idle" ELSE "find"]
        /\ UNCHANGED <<stage, cancel, known, news, faults>>
     \/ /\ Fault /\ pc' = [pc EXCEPT ![r] = "idle"]
        /\ UNCHANGED <<stage, cancel, known, news>>
  /\ UNCHANGED <<run, target, task, exec, calls, seen, co, wake, ctl, restarts>>

\* The executor records the run under the command before it answers; it may
\* throw before or after that.
Start(r) ==
  /\ pc[r] = "start"
  /\ calls' = [calls EXCEPT ![r] = @ + 1]
  /\ \E stored, answered \in BOOLEAN :
       /\ stored \/ ~answered
       /\ IF stored
          THEN /\ exec' = [exec EXCEPT ![r].root = IF @ = "none" THEN "queued" ELSE @]
               /\ news' = news \cup {r}
          ELSE UNCHANGED <<exec, news>>
       /\ IF answered
          THEN /\ pc' = [pc EXCEPT ![r] = "link"]
               /\ seen' = [seen EXCEPT ![r] = exec'[r].root]
               /\ UNCHANGED faults
          ELSE pc' = [pc EXCEPT ![r] = "fail"] /\ UNCHANGED seen /\ Fault
  /\ UNCHANGED <<store, co, wake, ctl, restarts>>

\* A replay never starts: it looks the command up in the executor.
Find(r) ==
  /\ pc[r] = "find"
  /\ IF exec[r].root = "none"
     THEN pc' = [pc EXCEPT ![r] = "fail"] /\ UNCHANGED seen
     ELSE /\ pc' = [pc EXCEPT ![r] = "link"]
          /\ seen' = [seen EXCEPT ![r] = exec[r].root]
  /\ UNCHANGED <<store, exec, calls, co, wake, news, ctl, restarts, faults>>

\* Faulty variant of Link, under FinalIsProjected: the linked run is not
\* projected again, so an event that came before the link is lost.
LinkSilently(r) ==
  /\ pc[r] = "link" /\ pc' = [pc EXCEPT ![r] = "idle"]
  /\ seen' = [seen EXCEPT ![r] = "none"]
  /\ IF stage[r] \in {"linked", "cancelled"}
     THEN UNCHANGED <<stage, run, known, target>>
     ELSE /\ stage' = [stage EXCEPT ![r] = "linked"]
          /\ run' = [run EXCEPT ![r] = seen[r]]
          /\ known' = known \cup {r}
          /\ target' = [target EXCEPT ![r].known = target[r].state # "none"]
  /\ UNCHANGED <<cancel, task, exec, calls, co, wake, news, ctl, restarts, faults>>

Link(r) ==
  /\ pc[r] = "link" /\ pc' = [pc EXCEPT ![r] = "idle"]
  /\ seen' = [seen EXCEPT ![r] = "none"]
  /\ \/ /\ stage[r] \in {"linked", "cancelled"}
        /\ UNCHANGED <<stage, run, known, target, cancel, news, faults>>
     \/ /\ stage[r] \notin {"linked", "cancelled"}
        /\ stage' = [stage EXCEPT ![r] = "linked"]
        /\ run' = [run EXCEPT ![r] = seen[r]]
        /\ known' = known \cup {r}
        /\ target' = [target EXCEPT ![r].known = target[r].state # "none"]
        /\ UNCHANGED <<cancel, faults>> /\ Announce
     \/ Fault /\ UNCHANGED <<stage, run, known, target, cancel, news>>
  /\ UNCHANGED <<task, exec, calls, co, wake, ctl, restarts>>

\* markDispatchOutcomeUnknown: the command may or may not be running.
Fail(r) ==
  /\ pc[r] = "fail" /\ pc' = [pc EXCEPT ![r] = "idle"]
  /\ seen' = [seen EXCEPT ![r] = "none"]
  /\ \/ /\ stage[r] \in {"linked", "cancelled"}
        /\ UNCHANGED <<stage, run, cancel, known, news, faults>>
     \/ /\ stage[r] \notin {"linked", "cancelled"}
        /\ stage' = [stage EXCEPT ![r] = "outcome-unknown"]
        /\ run' = [run EXCEPT ![r] = "interrupted"]
        /\ UNCHANGED <<cancel, known, faults>> /\ Announce
     \/ Fault /\ UNCHANGED <<stage, run, cancel, known, news>>
  /\ UNCHANGED <<target, task, exec, calls, co, wake, ctl, restarts>>

-----------------------------------------------------------------------------
(* The observation chains (one per kind of executor) and single run        *)
(* controls.                                                               *)

\* A run frozen by the cancellation takes no projection from an event.
Owned(r) == target[r].state # "none"

\* An event makes the chain read the run again, project it (syncRun) and then
\* have the task reconciled, also when the run is not linked yet.  Each change
\* of a run sends an event, so that what was read is projected in one step here.
Observe(r) ==
  /\ r \in news
  /\ \/ /\ IF r \in known /\ ~Owned(r) /\ run[r] # exec[r].root
           THEN run' = [run EXCEPT ![r] = exec[r].root]
                /\ news' = (news \ {r}) \cup (IF cancel = "none" THEN known ELSE {})
           ELSE news' = news \ {r} /\ UNCHANGED run
        /\ wake' = TRUE /\ UNCHANGED faults
     \/ Fault /\ news' = news \ {r} /\ UNCHANGED <<run, wake>>
  /\ UNCHANGED <<stage, known, target, cancel, task, exec, calls, dispatch, co, ctl, restarts>>

\* beginRunControl: refused from the moment the task is being cancelled.
AskControl(r) ==
  /\ r \in Controlled /\ ctl[r].at = "idle" /\ cancel = "none" /\ r \in known
  /\ \E a \in {"cancel", "resume"} :
       /\ IF a = "cancel" THEN run[r] \in {"queued", "running", "cancelling"}
                          ELSE exec[r].flow /\ run[r] = "paused"
       /\ ctl' = [ctl EXCEPT ![r].at = a]
  /\ UNCHANGED <<store, exec, calls, dispatch, co, wake, news, restarts, faults>>

\* The executor is told; a resume of a run that is no longer paused is refused.
ActControl(r) ==
  /\ ctl[r].at \in {"cancel", "resume"}
  /\ \E e \in IF ctl[r].at = "resume"
              THEN {[exec[r] EXCEPT !.root = IF @ = "paused" THEN "queued" ELSE @]}
              ELSE IF exec[r].flow THEN {StopRoot(exec[r], FALSE)}
              ELSE EmployeeCancelled(exec[r]) :
       /\ exec' = [exec EXCEPT ![r] = e]
       /\ ctl' = [ctl EXCEPT ![r] = IF ctl[r].at = "resume" /\ e = exec[r] THEN NoCtl
                                    ELSE [at |-> "done", status |-> e.root]]
       /\ news' = IF ctl[r].at = "cancel" \/ e # exec[r] THEN news \cup {r} ELSE news
  /\ UNCHANGED <<store, calls, dispatch, co, wake, restarts, faults>>

\* completeRunControl: what the executor answered, unless a final cancellation
\* came first.
EndControl(r) ==
  /\ ctl[r].at = "done"
  /\ ctl' = [ctl EXCEPT ![r] = NoCtl]
  /\ run' = [run EXCEPT ![r] = IF target[r].state \in Settled THEN @ ELSE ctl[r].status]
  /\ UNCHANGED <<cancel, known>> /\ Announce
  /\ UNCHANGED <<stage, target, task, exec, calls, dispatch, co, wake, restarts, faults>>

-----------------------------------------------------------------------------
(* WorkItemCancellationService, serialised per task.                       *)

\* What a read of the executor's record says about a frozen target; ask is set
\* where the run is still free to go on.
Outcome(s, f, e) == [state |-> s, final |-> f, err |-> e, ask |-> FALSE]
Unknown == Outcome("unknown", "none", "other")
Free == [state |-> "pending", final |-> "none", err |-> "none", ask |-> TRUE]

EmployeeDecision(e) ==
  CASE e.root = "cancelled"             -> Outcome("cancelled", "cancelled", "none")
    [] e.root \in {"completed", "failed"} -> Outcome("settled", e.root, "none")
    [] e.root = "interrupted"           -> Unknown
    [] e.root = "cancelling" /\ e.asked -> Outcome("cancelling", "none", "none")
    [] e.root = "cancelling" /\ ~e.asked -> Unknown
    [] OTHER -> Free

WorkflowDecision(e) ==
  CASE e.tree = "unknown"    -> Unknown
    [] e.tree = "cancelling" -> Outcome("cancelling", "none", "none")
    [] e.root = "cancelled" /\ e.tree \in {"none", "done"} ->
         Outcome("cancelled", "cancelled", "none")
    [] e.root = "completed" /\ e.tree \in {"none", "done"} ->
         Outcome("settled", "completed", "none")
    [] e.root = "running" /\ e.asked /\ e.tree = "none" ->
         Outcome("cancelling", "none", "none")
    [] OTHER -> Free

Decision(r) == IF exec[r].flow THEN WorkflowDecision(exec[r])
                                 ELSE EmployeeDecision(exec[r])

\* cancellationStage.
Aggregate(t) ==
  CASE \E r \in Request : t[r].state = "unknown" -> "unknown"
    [] /\ \A r \in Request : t[r].state # "unknown"
       /\ \E r \in Request : t[r].state \in {"pending", "cancelling"} -> "cancelling"
    [] OTHER -> "cancelled"

\* Faulty variant of BeginCancel, under NeverAfterCancel: the receipt of a
\* command that was not dispatched is left recorded.
BeginCancelReceiptLeft ==
  /\ cancel = "none" /\ co.at = "idle"
  /\ LET frozen == {r \in Request : stage[r] # "none" /\ (run[r] \in Active \/ exec[r].flow)}
         early == {r \in frozen : stage[r] = "recorded"}
         t == [r \in Request |-> IF r \notin frozen THEN NoTarget
                ELSE IF r \in early THEN [state |-> "cancelled", known |-> FALSE,
                                          final |-> "cancelled", err |-> "none"]
                ELSE [NoTarget EXCEPT !.state = "pending", !.known = r \in known]]
     IN  /\ target' = t
         /\ run' = [r \in Request |-> IF r \in early THEN "cancelled" ELSE run[r]]
         /\ cancel' = IF frozen = early THEN "cancelled"
                      ELSE IF early = {} THEN "requested" ELSE Aggregate(t)
         /\ task' = IF frozen = early THEN "cancelled" ELSE task
         /\ co' = [Rest EXCEPT !.at = "pass", !.todo = frozen \ early]
  /\ UNCHANGED <<stage, known, exec, calls, dispatch, wake, news, ctl, restarts, faults>>

\* beginTaskCancellation: every command that may be running is frozen, and every
\* linked workflow; a recorded command is cancelled before any executor hears
\* of it.
BeginCancel ==
  /\ cancel = "none" /\ co.at = "idle"
  /\ LET frozen == {r \in Request : stage[r] # "none" /\ (run[r] \in Active \/ exec[r].flow)}
         early == {r \in frozen : stage[r] = "recorded"}
         t == [r \in Request |-> IF r \notin frozen THEN NoTarget
                ELSE IF r \in early THEN [state |-> "cancelled", known |-> FALSE,
                                          final |-> "cancelled", err |-> "none"]
                ELSE [NoTarget EXCEPT !.state = "pending", !.known = r \in known]]
     IN  /\ target' = t
         /\ run' = [r \in Request |-> IF r \in early THEN "cancelled" ELSE run[r]]
         /\ stage' = [r \in Request |-> IF r \in early THEN "cancelled" ELSE stage[r]]
         /\ cancel' = IF frozen = early THEN "cancelled"
                      ELSE IF early = {} THEN "requested" ELSE Aggregate(t)
         /\ task' = IF frozen = early THEN "cancelled" ELSE task
         /\ co' = [Rest EXCEPT !.at = "pass", !.todo = frozen \ early]
  /\ UNCHANGED <<known, exec, calls, dispatch, wake, news, ctl, restarts, faults>>

\* A pass over the targets that are not final: woken by an executor event or by
\* the start of the process, or asked for again by the user.
Reconcile ==
  /\ co.at = "idle" /\ wake' = FALSE
  /\ IF cancel \in {"none", "cancelled"}
     THEN wake /\ UNCHANGED co
     ELSE co' = [Rest EXCEPT !.at = "pass", !.todo =
                  {r \in Request : target[r].state \notin {"none"} \cup Settled}]
  /\ UNCHANGED <<store, exec, calls, dispatch, news, ctl, restarts, faults>>

\* An unknown target is asked again only where the first look found no run.
MayAskFirst(r) == target[r].state = "pending" \/ target[r].err = "unverified"

\* Faulty variant of Look, under RunsStop: a target whose run was not found at
\* the first look is never asked.
LookOnce(r) ==
  /\ co.at = "pass" /\ r \in co.todo
  /\ LET d == Decision(r)
         write(o) == [co EXCEPT !.at = "write", !.r = r, !.upd = o]
     IN  co' = IF exec[r].root = "none"
               THEN write(Outcome("unknown", "none", "unverified"))
               ELSE IF \/ d.ask /\ target[r].state = "pending"
                       \/ exec[r].flow /\ target[r].state = "pending" /\ exec[r].tree = "none"
               THEN [co EXCEPT !.at = IF exec[r].flow THEN "fence" ELSE "ask", !.r = r]
               ELSE write(IF d.ask THEN Unknown ELSE d)
  /\ UNCHANGED <<store, exec, calls, dispatch, wake, news, ctl, restarts, faults>>

\* Faulty variant of Look, under RootsStopped: a run that could not be found is
\* taken for one that never started.
LookTrusting(r) ==
  /\ co.at = "pass" /\ r \in co.todo
  /\ co' = [co EXCEPT !.at = "write", !.r = r, !.upd =
              IF exec[r].root = "none" THEN Outcome("cancelled", "cancelled", "none")
                                       ELSE Decision(r)]
  /\ UNCHANGED <<store, exec, calls, dispatch, wake, news, ctl, restarts, faults>>

Look(r) ==
  /\ co.at = "pass" /\ r \in co.todo
  /\ LET d == Decision(r)
         held == exec[r].root = "paused" /\ exec[r].asked
         write(o) == [co EXCEPT !.at = "write", !.r = r, !.upd = o]
     IN  co' = IF exec[r].root = "none"
               THEN write(Outcome("unknown", "none", "unverified"))
               ELSE IF \/ d.ask /\ (MayAskFirst(r) \/ (exec[r].flow /\ held))
                       \/ exec[r].flow /\ target[r].state = "pending" /\ exec[r].tree = "none"
               THEN [co EXCEPT !.at = IF exec[r].flow THEN "fence" ELSE "ask", !.r = r]
               ELSE write(IF d.ask THEN Unknown ELSE d)
  /\ UNCHANGED <<store, exec, calls, dispatch, wake, news, ctl, restarts, faults>>

\* The look-up throws: the target becomes unknown without a run id.
LookThrows(r) ==
  /\ co.at = "pass" /\ r \in co.todo /\ Fault
  /\ co' = [co EXCEPT !.at = "write", !.r = r, !.upd = Outcome("unknown", "none", "threw")]
  /\ UNCHANGED <<store, exec, calls, dispatch, wake, news, ctl, restarts>>

\* EmployeeRunService.cancel answers with the run, or throws.
AskEmployee ==
  /\ co.at = "ask"
  /\ \/ \E e \in EmployeeCancelled(exec[co.r]) :
          /\ exec' = [exec EXCEPT ![co.r] = e]
          /\ co' = [co EXCEPT !.at = "write", !.upd = EmployeeDecision(e)]
          /\ news' = IF e = exec[co.r] THEN news ELSE news \cup {co.r}
          /\ UNCHANGED faults
     \/ Fault /\ co' = [co EXCEPT !.at = "write", !.upd = Unknown] /\ UNCHANGED <<exec, news>>
  /\ UNCHANGED <<store, calls, dispatch, wake, ctl, restarts>>

\* beginWorkTaskCancellation: the fence is durable before any run is touched.
Fence ==
  /\ co.at = "fence"
  /\ \/ /\ exec' = [exec EXCEPT ![co.r] = Refresh(@)]
        /\ co' = [co EXCEPT !.at = "stop"] /\ UNCHANGED faults
     \/ Fault /\ co' = [co EXCEPT !.at = "write", !.upd = Unknown] /\ UNCHANGED exec
  /\ UNCHANGED <<store, calls, dispatch, wake, news, ctl, restarts>>

\* cancelForWorkTask comes to the targets of the tree from the leaf to the root;
\* one that cannot be asked becomes unknown and is not asked again.
StopTree(e, asked, bad) ==
  LET e1 == IF "child" \in asked \ (bad \cup e.err) THEN StopChild(e) ELSE e
      e2 == IF "root" \in asked \ (bad \cup e.err) THEN StopRoot(e1, TRUE) ELSE e1
  IN  Refresh([e2 EXCEPT !.err = @ \cup bad])

Stop ==
  /\ co.at = "stop"
  /\ \E bad \in SUBSET Open(exec[co.r]) :
       LET e == StopTree(exec[co.r], {"child", "root"}, bad)
       IN  /\ exec' = [exec EXCEPT ![co.r] = e]
           /\ co' = [co EXCEPT !.at = "write", !.upd = WorkflowDecision(e)]
           /\ IF bad = {} THEN UNCHANGED faults ELSE Fault
  /\ news' = news \cup {co.r}
  /\ UNCHANGED <<store, calls, dispatch, wake, ctl, restarts>>

\* It throws on its way, for a write of the fence itself that fails.
StopThrows ==
  /\ co.at = "stop" /\ Fault
  /\ \E asked \in {{}, {"child"}, {"child", "root"}} :
     \E bad \in SUBSET (asked \cap Open(exec[co.r])) :
       \/ exec' = [exec EXCEPT ![co.r] = StopTree(@, asked, bad)]
       \/ UNCHANGED exec
  /\ co' = [co EXCEPT !.at = "write", !.upd = Unknown]
  /\ news' \in {news, news \cup {co.r}}
  /\ UNCHANGED <<store, calls, dispatch, wake, ctl, restarts>>

\* updateTaskCancellationTarget: the target, the run and the aggregate in one
\* commit; a run found through its command recovers the lost dispatch link.
Write ==
  /\ co.at = "write"
  /\ LET r == co.r
         u == co.upd
         found == u.err \notin {"unverified", "threw"}
     IN  \/ /\ target' = [target EXCEPT ![r] =
                 [state |-> u.state, known |-> found \/ r \in known,
                  final |-> u.final, err |-> u.err]]
            /\ run' = [run EXCEPT ![r] = IF u.final # "none" THEN u.final
                          ELSE IF u.state = "cancelling" THEN "cancelling" ELSE @]
            /\ known' = IF found THEN known \cup {r} ELSE known
            /\ stage' = [stage EXCEPT ![r] = IF found THEN "linked" ELSE @]
            /\ cancel' = Aggregate(target')
            /\ task' = IF cancel' = "cancelled" THEN "cancelled" ELSE task
            /\ LET left == co.todo \ {r}
               IN  co' = IF left = {} THEN Rest ELSE [Rest EXCEPT !.at = "pass", !.todo = left]
            /\ UNCHANGED faults
         \/ Fault /\ co' = Rest /\ UNCHANGED store
  /\ UNCHANGED <<exec, calls, dispatch, wake, news, ctl, restarts>>

\* The pass of a task with no open target ends at once.
PassDone ==
  /\ co.at = "pass" /\ co.todo = {} /\ co' = Rest
  /\ UNCHANGED <<store, exec, calls, dispatch, wake, news, ctl, restarts, faults>>

-----------------------------------------------------------------------------
\* recoverInterruptedRuns: a run whose process is gone is queued again or parked;
\* one that was asked to stop ends.
Requeued(s, asked, end) ==
  IF s # "running" THEN {s} ELSE {"paused"} \cup {IF asked THEN end ELSE "queued"}

\* recoverWorkTaskCancellations: a fence is applied to its tree once more.
Fenced(e) ==
  LET e1 == IF "child" \in e.err THEN e ELSE StopChild(e)
  IN  Refresh(IF "root" \in e.err THEN e1 ELSE StopRoot(e1, TRUE))

\* What start-up makes of an executor's record.  An employee run is observed
\* again as it was left.
Recovered(e) ==
  LET back == {[e EXCEPT !.root = s[1], !.child = s[2]] :
                 s \in Requeued(e.root, e.asked, "cancelled")
                         \X Requeued(e.child, e.casked, "done")}
  IN  IF ~e.flow THEN {e}
      ELSE IF e.tree = "none" THEN back ELSE {Fenced(Refresh(f)) : f \in back}

\* The process dies and starts again: both observation chains read every run
\* before the pending cancellation is reconciled.
Restart ==
  /\ restarts < MaxRestarts /\ restarts' = restarts + 1
  /\ exec' \in {f \in [Request -> UNION {Recovered(exec[r]) : r \in Request}] :
                  \A r \in Request : f[r] \in Recovered(exec[r])}
  /\ pc' = [r \in Request |-> "idle"] /\ seen' = [r \in Request |-> "none"]
  /\ co' = Rest /\ wake' = TRUE
  /\ news' = {r \in Request : exec[r].root # "none"}
  /\ ctl' = [r \in Request |-> NoCtl]
  /\ UNCHANGED <<store, calls, faults>>

Dispatch(r) == Claim(r) \/ Start(r) \/ Find(r) \/ Link(r) \/ Fail(r)
Pass == \/ \E r \in Request : Look(r) \/ LookThrows(r)
        \/ AskEmployee \/ Fence \/ Stop \/ StopThrows \/ Write \/ PassDone

Next ==
  \/ \E r \in Request : \/ Execute(r) \/ Dispatch(r) \/ Observe(r)
                        \/ RootRuns(r) \/ ChildRuns(r) \/ LeaseLost(r)
                        \/ AskControl(r) \/ ActControl(r) \/ EndControl(r)
  \/ BeginCancel \/ Reconcile \/ Pass \/ Restart

Spec == Init /\ [][Next]_vars

\* A started dispatch, the observation chains and the coordinator go on by
\* themselves; the coordinator rests until it is woken.  Executors and users may
\* be slow for ever.
Fairness ==
  /\ \A r \in Request : WF_vars(Dispatch(r)) /\ WF_vars(Observe(r))
  /\ WF_vars(wake /\ Reconcile)
  /\ WF_vars(Pass)

FairSpec == Spec /\ Fairness

-----------------------------------------------------------------------------
TypeOK ==
  /\ stage \in [Request -> {"none", "recorded", "dispatching", "linked",
                            "outcome-unknown", "cancelled"}]
  /\ run \in [Request -> {"none"} \cup Active \cup Final]
  /\ known \subseteq Request /\ news \subseteq Request
  /\ target \in [Request ->
       [state : {"none", "pending", "cancelling", "unknown"} \cup Settled,
        known : BOOLEAN, final : {"none"} \cup Final,
        err : {"none", "unverified", "threw", "other"}]]
  /\ cancel \in {"none", "requested", "cancelling", "unknown", "cancelled"}
  /\ task \in {"open", "active", "cancelled"}
  /\ exec \in [Request ->
       [flow : BOOLEAN, root : {"none"} \cup Active \cup Final, asked : BOOLEAN,
        child : {"none", "queued", "running", "paused", "done"}, casked : BOOLEAN,
        tree : {"none", "cancelling", "unknown", "done"},
        err : SUBSET {"root", "child"}]]
  /\ \A r \in Request :
       IF exec[r].flow THEN exec[r].root \notin {"cancelling", "interrupted", "failed"}
       ELSE exec[r].root # "paused" /\ exec[r].child = "none" /\ exec[r].tree = "none"
  /\ calls \in [Request -> Nat]
  /\ pc \in [Request -> {"idle", "claim", "start", "find", "link", "fail"}]
  /\ seen \in [Request -> {"none"} \cup Active \cup Final]
  /\ co.at \in {"idle", "pass", "ask", "fence", "stop", "write"}
  /\ co.todo \subseteq Request /\ co.r \in Request \cup {"none"}
  /\ wake \in BOOLEAN
  /\ \A r \in Request : /\ ctl[r].at \in {"idle", "cancel", "resume", "done"}
                        /\ ctl[r].status \in {"none"} \cup Active \cup Final
  /\ restarts \in 0..MaxRestarts /\ faults \in 0..MaxFaults

\* A command is handed to an executor at most once, over replays, faults and
\* restarts: what was claimed is looked up, never started again
\* (work-item-execution-service.ts 83-118, work-item-store.ts 1780-1787).
StartedOnce == \A r \in Request : calls[r] <= 1

\* A command cancelled before its dispatch never reaches an executor, whatever
\* its own retries do: its receipt is cancelled with it
\* (work-item-execution-service.ts 85-88, work-item-store.ts 1237-1243, 1287-1292).
NeverAfterCancel ==
  \A r \in Request : run[r] = "cancelled" /\ r \notin known => calls[r] = 0

\* assertTaskCancellationIntegrity (work-item-store.ts 750-830) holds of every
\* state the mutations produce, so that no commit is refused by it.
CommitsAreSound ==
  /\ cancel = "none" => \A r \in Request : target[r].state = "none"
  /\ cancel \notin {"none", "requested"} => cancel = Aggregate(target)
  /\ cancel = "requested" => \A r \in Request : target[r].state \in {"none", "pending"}
  /\ cancel = "cancelled" <=> task = "cancelled"
  /\ \A r \in Request :
       /\ r \in known <=> stage[r] = "linked"
       /\ target[r].state # "none" => (target[r].known <=> r \in known)
       /\ target[r].final # "none" => run[r] = target[r].final
       /\ target[r].state \in Settled <=> target[r].final # "none"

\* A task reported cancelled has no executor run left that could go on, and no
\* command that could still start one (work-item-cancellation-service.ts 88-164).
RootsStopped ==
  task = "cancelled" =>
    \A r \in Request : IF exec[r].root = "none" THEN stage[r] \in {"none", "cancelled"}
                                                ELSE exec[r].root \in Final

\* The same of the children a workflow started: a fence is final only when its
\* whole tree is at rest (workflow-run-store.ts 410-457).
FencedTreesRest ==
  task = "cancelled" =>
    \A r \in Request : exec[r].tree # "none" => exec[r].child \in {"none", "done"}

\* work-item-store.ts 1221-1223: "A completed top-level Workflow can still own an
\* asynchronous child. Freeze every linked Workflow root so the Workflow service
\* can audit its whole durable execution tree before the WorkTask becomes final."
TreesAudited ==
  task = "cancelled" => \A r \in Request : exec[r].child \in {"none", "done"}

\* Nothing takes a final outcome back: not a late event, link or control, and
\* not a replay (work-item-store.ts 1793-1799, 1907-1911, 2062-2064).
FinalIsFinal ==
  [][/\ task = "cancelled" => task' = "cancelled"
     /\ \A r \in Request :
          /\ target[r].state \in Settled => target'[r] = target[r] /\ run'[r] = run[r]
          /\ r \in known => r \in known']_vars

\* A cancellation reaches every run that is waiting or running, also one whose
\* dispatch was still on its way at the first look, as long as no write fails
\* (work-item-cancellation-service.ts 150-164, 249-257).
RunsStop ==
  [](faults = 0) =>
    \A r \in Request :
      cancel # "none" /\ exec[r].root \in {"queued", "running"} /\ ~exec[r].asked
        ~> exec[r].root \notin {"queued", "running"} \/ exec[r].asked

\* A final run is projected onto the task although its last event may come
\* before the dispatch is linked (work-item-workspace.ts 190-205).
FinalIsProjected ==
  [](faults = 0) =>
    \A r \in Request :
      cancel = "none" /\ r \in known /\ exec[r].root \in Final
        ~> run[r] = exec[r].root \/ cancel # "none"

\* work-item-task-cancellation-service.test.ts:238 "terminalizes a Workflow that
\* pauses behind an already durable task-cancellation fence".
PausedIsTerminated ==
  [](faults = 0) =>
    \A r \in Request :
      exec[r].tree # "none" /\ exec[r].root = "paused" ~> exec[r].root # "paused"
=============================================================================
