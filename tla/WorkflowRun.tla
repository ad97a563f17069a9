------------------------------ MODULE WorkflowRun ------------------------------
(***************************************************************************)
(* One durable workflow run: the record the run store keeps, the worker    *)
(* that claims it under a lease, the executor that walks the graph on a    *)
(* private copy of the record, the stop of the service, crashes, and the   *)
(* people who cancel, approve, resume and reconcile.                       *)
(*                                                                         *)
(* WorkflowRunStore serialises every change of the record (mutate), and    *)
(* while one is being written get() still returns the record before it     *)
(* (mutationBaseline): rec is the record after the change under way, base  *)
(* what readers see and what a crash may fall back to.  They are equal     *)
(* when nothing is being written.  All the nodes that are ready together   *)
(* run together and share the executor's one copy, mem.                    *)
(***************************************************************************)
EXTENDS Naturals

CONSTANTS
  Node,         \* the nodes of the workflow
  Deps,         \* Deps[n]: the nodes n waits for
  Kind,         \* Kind[n]: how n reaches the outside world (see KindAssumption)
  Retried,      \* the nodes that carry a retryPolicy
  MaxAttempts,  \* retryPolicy.maxAttempts
  NoNode,       \* waitingApprovalNodeId is absent
  MaxClaims,    \* bound: claims of the run by the worker
  MaxFaults,    \* bound: crashes and heartbeats that could not be written
  MaxStops      \* bound: orderly stops of the service

(***************************************************************************)
(* "pure":       ai-task, transform, output ...: no journal of effects.    *)
(* "session":    employee, skill and code: the abort signal is read right  *)
(*               before the call.                                          *)
(* "direct":     mcp, shell and file: called whatever the signal says.     *)
(* "idempotent": a managed HTTP write with dispatch hooks: journalled as   *)
(*               prepared before the call and as dispatched after it.      *)
(* "approval":   stops the run until somebody decides.                     *)
(***************************************************************************)
Kinds == {"pure", "session", "direct", "idempotent", "approval"}
Effectful == {n \in Node : Kind[n] \in {"session", "direct", "idempotent"}}
Once == {n \in Node : Kind[n] \in {"session", "direct"}}  \* not safe to repeat

ASSUME KindAssumption == Kind \in [Node -> Kinds]
ASSUME DepsAssumption == Deps \in [Node -> SUBSET Node]
ASSUME RetryAssumption ==
  /\ Retried \subseteq {n \in Node : Kind[n] # "approval"}
  /\ MaxAttempts \in Nat \ {0}
ASSUME NoNodeAssumption == NoNode \notin Node
ASSUME BoundsAssumption == MaxClaims \in Nat /\ MaxFaults \in Nat /\ MaxStops \in Nat

VARIABLES
  rec,        \* the record in the store's map, the change under way included
  base,       \* what get() returns while that change is written
  service,    \* WorkflowRunService.lifecycleState
  worker,     \* where the worker's only drain loop is with this run
  mem,        \* the record execute() read and works on
  todo,       \* execute()'s pending set
  task,       \* where each executeReadyNode of this round is
  active,     \* ActiveRun: cancelled, pauseRequested ("pause") and leaseLost
  canceller,  \* cancelRun: idle, or between its persistence and its abort
  copy,       \* the record finishStop read
  claims,     \* claims made: the identity of the newest lease
  calls,      \* ghost: calls of n since a person last said there was none
  faults, stops

store == <<rec, base>>
executor == <<mem, todo, task, active>>
people == <<canceller, copy>>
ghosts == <<claims, calls, faults, stops>>
vars == <<store, service, worker, executor, people, ghosts>>
-----------------------------------------------------------------------------
(***************************************************************************)
(* The record.                                                             *)
(***************************************************************************)
Status == {"queued", "running", "paused", "waiting-approval", "failed",
           "completed", "cancelled"}
NodeStatus == {"pending", "running", "completed", "failed", "cancelled"}
EffectState == {"undefined", "none", "prepared", "dispatched", "confirmed",
                "unknown"}

Record == [status : Status,
           cancel : {"no", "requested"},     \* cancellationRequestedAt
           lease  : 0..MaxClaims,            \* 0: no lease
           wait   : Node \cup {NoNode},
           node   : [Node -> NodeStatus],
           effect : [Node -> EffectState],
           attempt : [Node -> 0..MaxAttempts],
           targets : SUBSET Node]            \* effectReconciliationTargets

NewRecord == [status |-> "queued", cancel |-> "no", lease |-> 0,
              wait |-> NoNode,
              node |-> [n \in Node |-> "pending"],
              effect |-> [n \in Node |-> "undefined"],
              attempt |-> [n \in Node |-> 0],
              targets |-> {}]

WithNode(r, n, s) == [r EXCEPT !.node = [r.node EXCEPT ![n] = s]]
WithEffect(r, n, e) == [r EXCEPT !.effect = [r.effect EXCEPT ![n] = e]]

\* Attempts past the policy's maximum are not told apart.
WithAttempt(r, n) ==
  IF r.attempt[n] < MaxAttempts
  THEN [r EXCEPT !.attempt = [r.attempt EXCEPT ![n] = @ + 1]]
  ELSE r

Marked == {"prepared", "dispatched", "confirmed"}
TerminalNode == {"completed", "failed", "cancelled"}

\* The effect may have happened without its outcome being on record.
Uncertain(r, n) == \/ r.effect[n] \in {"prepared", "dispatched", "unknown"}
                   \/ r.effect[n] = "confirmed" /\ r.node[n] # "completed"
SomeUncertain(r) == \E n \in Node : Uncertain(r, n)

\* saveRecord: a writer whose lease is not the stored one changes nothing, a
\* requested cancellation is never dropped, and only a running record keeps
\* a lease.
Merge(current, new) ==
  IF current.lease # new.lease
  THEN current
  ELSE [new EXCEPT
          !.cancel = IF current.cancel = "requested" THEN "requested" ELSE @,
          !.lease = IF new.status = "running" THEN @ ELSE 0]

\* syncEffectReconciliationTargets: what a person will be asked to check.
\* Only the service's own saves refresh it.
Synced(r) == [r EXCEPT !.targets = {n \in Node : r.effect[n] = "unknown"}]

ParkUncertain(r) ==
  [r EXCEPT !.status = "paused", !.lease = 0,
            !.node = [n \in Node |-> IF Uncertain(r, n) THEN "cancelled" ELSE r.node[n]],
            !.effect = [n \in Node |-> IF Uncertain(r, n) THEN "unknown" ELSE r.effect[n]]]

Requeue(r) ==
  [r EXCEPT !.status = "queued", !.lease = 0,
            !.node = [n \in Node |-> IF r.node[n] = "running" THEN "pending" ELSE r.node[n]]]

\* Faulty variants of Recovered: nothing is taken back (under RunningIsOwned),
\* and everything is queued again (under NoBlindReplay).
RecoveredNever(r) == r
RecoveredBlindly(r) == IF r.status # "running" \/ r.lease = 0 THEN r ELSE Requeue(r)

\* recoverInterruptedRuns of a leased running record.
Recovered(r) ==
  IF r.status # "running" \/ r.lease = 0 THEN r
  ELSE IF SomeUncertain(r) THEN ParkUncertain(r)
  ELSE Requeue(r)

\* Faulty variant of Released, under RunComesToRest: only the lease is cleared.
ReleasedOnly(r, recover) == [r EXCEPT !.lease = 0]

\* releaseLease; ownership is by process, so any lease on the record is ours.
Released(r, recover) ==
  IF ~recover \/ r.status # "running" \/ r.lease = 0 THEN [r EXCEPT !.lease = 0]
  ELSE IF SomeUncertain(r) THEN ParkUncertain(r)
  ELSE IF r.cancel = "requested" THEN [r EXCEPT !.status = "cancelled", !.lease = 0]
  ELSE Requeue(r)
-----------------------------------------------------------------------------
(***************************************************************************)
(* Writing the record.  Mutations queue behind one another: a new one      *)
(* starts when the previous one is written, and finishStop's save, asked   *)
(* for right after its read, comes before any later one.                   *)
(***************************************************************************)
Written == base = rec
Write(new) == /\ Written
              /\ rec' = new
              /\ base' = rec
Mutate(new) == service # "pausing" /\ Write(new)
Save(r) == Mutate(Merge(rec, Synced(r)))

\* persist() returns: readers see the change.
Flush == /\ ~Written
         /\ base' = rec
         /\ UNCHANGED <<rec, service, worker, executor, people, ghosts>>
-----------------------------------------------------------------------------
(***************************************************************************)
(* The worker.                                                             *)
(***************************************************************************)
Executing == worker \in {"starting", "rounds", "joining", "noting", "ending"}

TaskState == {"idle", "started", "attempt", "working", "prepared", "dispatched",
              "calling", "returned", "confirmed", "done", "waiting", "stopped"}
Idle == [n \in Node |-> "idle"]

\* claimNextDue picks this run once it is due.
Claim ==
  /\ service = "accepting" /\ worker = "idle" /\ claims < MaxClaims
  /\ rec.status = "queued"
  /\ Mutate([rec EXCEPT !.status = "running", !.lease = claims + 1])
  /\ claims' = claims + 1
  /\ worker' = "claimed"
  /\ UNCHANGED <<service, executor, people, calls, faults, stops>>

\* A claim that returns after stop() is handed back, never executed.
HandBack ==
  /\ worker = "claimed" /\ service # "accepting"
  /\ Mutate(Released(rec, TRUE))
  /\ worker' = "idle"
  /\ UNCHANGED <<service, executor, people, ghosts>>

\* Faulty variant of Begin, under AbortIsDelivered: a cancellation that was
\* persisted before the execution began is not looked at.
BeginUnaware ==
  /\ worker = "claimed" /\ service = "accepting" /\ base.lease = claims
  /\ mem' = [base EXCEPT !.status = "running"]
  /\ todo' = {n \in Node : base.node[n] = "pending"}
  /\ worker' = "starting"
  /\ active' = {}
  /\ UNCHANGED <<store, service, task, people, ghosts>>

\* execute() registers the run as active and reads its record.
Begin ==
  /\ worker = "claimed" /\ service = "accepting" /\ base.lease = claims
  /\ mem' = [base EXCEPT !.status = IF base.cancel = "requested"
                                    THEN "cancelled" ELSE "running"]
  /\ todo' = {n \in Node : base.node[n] = "pending"}
  /\ worker' = "starting"
  /\ active' = {}
  /\ UNCHANGED <<store, service, task, people, ghosts>>

SaveBegin ==
  /\ worker = "starting"
  /\ Save(mem)
  /\ worker' = IF mem.status = "running" THEN "rounds" ELSE "ending"
  /\ UNCHANGED <<service, executor, people, ghosts>>

\* A heartbeat finds the run no longer running under this worker, or cannot
\* be written.  Aborting the execution also asks it to pause.
LoseLease ==
  /\ Executing /\ "leaseLost" \notin active
  /\ \/ /\ Written /\ (rec.status # "running" \/ rec.lease = 0)
        /\ UNCHANGED faults
     \/ /\ faults < MaxFaults
        /\ faults' = faults + 1
  /\ active' = active \cup {"leaseLost", "pause"}
  /\ UNCHANGED <<store, service, worker, mem, todo, task, people, claims, calls, stops>>

\* execute() returned: the worker gives its lease back.
Release ==
  /\ worker = "ending"
  /\ Mutate(Released(rec, "leaseLost" \in active))
  /\ worker' = "idle"
  /\ mem' = NewRecord /\ todo' = {} /\ task' = Idle /\ active' = {}
  /\ UNCHANGED <<service, people, ghosts>>
-----------------------------------------------------------------------------
(***************************************************************************)
(* execute(): rounds of ready nodes.                                       *)
(***************************************************************************)
Halted == "cancelled" \in active \/ "leaseLost" \in active
Ready == {n \in todo : /\ mem.node[n] = "pending"
                       /\ \A d \in Deps[n] : mem.node[d] \in TerminalNode}

\* Promise.all: every ready node starts before any of them is saved.
Round ==
  /\ worker = "rounds" /\ ~Halted /\ todo # {} /\ Ready # {} /\ Written
  /\ mem' = [mem EXCEPT !.node = [n \in Node |-> IF n \in Ready THEN "running"
                                                  ELSE mem.node[n]]]
  /\ task' = [n \in Node |-> IF n \in Ready THEN "started" ELSE "idle"]
  /\ todo' = todo \ Ready
  /\ worker' = "joining"
  /\ UNCHANGED <<store, service, active, people, ghosts>>

\* Nothing is ready: execute() throws, and fails the record it reads afresh.
Stuck ==
  /\ worker = "rounds" /\ ~Halted /\ todo # {} /\ Ready = {}
  /\ Save([base EXCEPT !.status = "failed"])
  /\ worker' = "ending"
  /\ UNCHANGED <<service, executor, people, ghosts>>

Join ==
  /\ worker = "joining" /\ Written
  /\ \A n \in Node : task[n] \in {"idle", "done", "waiting", "stopped"}
  /\ worker' = IF \E n \in Node : task[n] \in {"waiting", "stopped"}
               THEN "ending" ELSE "rounds"
  /\ UNCHANGED <<store, service, executor, people, ghosts>>

LeaveLost ==
  /\ worker = "rounds" /\ "leaseLost" \in active
  /\ worker' = "ending"
  /\ UNCHANGED <<store, service, executor, people, ghosts>>

Verdict ==
  IF "cancelled" \in active
  THEN IF "pause" \in active THEN "paused" ELSE "cancelled"
  ELSE IF \E n \in Node : mem.node[n] = "failed" THEN "failed" ELSE "completed"

Finish ==
  /\ worker = "rounds" /\ "leaseLost" \notin active
  /\ todo = {} \/ "cancelled" \in active
  /\ mem' = [mem EXCEPT !.status = Verdict]
  /\ Save(mem')
  /\ worker' = IF Verdict = "completed" THEN "noting" ELSE "ending"
  /\ UNCHANGED <<service, todo, task, active, people, ghosts>>

\* A completed run is noted in its definition (markLastRun).  When that is
\* rejected, execute() fails the run it has just saved as completed.
Noted ==
  /\ worker = "noting" /\ Written
  /\ worker' = "ending"
  /\ UNCHANGED <<store, service, executor, people, ghosts>>

NoteFails ==
  /\ worker = "noting" /\ "leaseLost" \notin active
  /\ Save([base EXCEPT !.status = "failed"])
  /\ worker' = "ending"
  /\ UNCHANGED <<service, executor, people, ghosts>>
-----------------------------------------------------------------------------
(***************************************************************************)
(* One ready node.  A task's await of its own save is the Written guard.   *)
(***************************************************************************)
Goes(n, from, to) == /\ worker = "joining" /\ task[n] = from
                     /\ task' = [task EXCEPT ![n] = to]
                     /\ UNCHANGED <<service, worker, todo, active, people, claims, faults, stops>>

SaveStart(n) ==
  /\ Goes(n, "started", "attempt")
  /\ Save(mem)
  /\ UNCHANGED <<mem, calls>>

\* The cancelled flag is read at the head of every attempt.
Attempt(n) ==
  /\ Kind[n] \in {"pure", "session", "idempotent"}
  /\ Written /\ "cancelled" \notin active
  /\ Goes(n, "attempt", "working")
  /\ mem' = WithAttempt(mem, n)
  /\ UNCHANGED <<store, calls>>

AskApproval(n) ==
  /\ Kind[n] = "approval" /\ "cancelled" \notin active /\ "leaseLost" \notin active
  /\ Goes(n, "attempt", "waiting")
  /\ mem' = [WithNode(WithAttempt(mem, n), n, "pending")
               EXCEPT !.status = "waiting-approval", !.wait = n]
  /\ Save(mem')
  /\ UNCHANGED calls

\* markEffect(prepared).  A direct node gets here in the attempt's own turn.
Prepare(n) ==
  \/ /\ Kind[n] \in {"session", "idempotent"}
     /\ Goes(n, "working", "prepared")
     /\ mem' = WithEffect(mem, n, "prepared")
     /\ Save(mem')
     /\ UNCHANGED calls
  \/ /\ Kind[n] = "direct" /\ "cancelled" \notin active
     /\ Goes(n, "attempt", "prepared")
     /\ mem' = WithEffect(WithAttempt(mem, n), n, "prepared")
     /\ Save(mem')
     /\ UNCHANGED calls

\* markEffect(dispatched): before the call, or after it for a managed write.
Dispatch(n) ==
  /\ \/ Kind[n] \in {"session", "direct"} /\ Goes(n, "prepared", "dispatched")
     \/ Kind[n] = "idempotent" /\ Goes(n, "calling", "returned")
  /\ mem' = WithEffect(mem, n, "dispatched")
  /\ Save(mem')
  /\ UNCHANGED calls

\* The outside world is reached.  Only a direct node ignores the signal.
Call(n) ==
  /\ Written
  /\ \/ Kind[n] = "session" /\ active = {} /\ Goes(n, "dispatched", "calling")
     \/ Kind[n] = "direct" /\ Goes(n, "dispatched", "calling")
     \/ Kind[n] = "idempotent" /\ active = {} /\ Goes(n, "prepared", "calling")
  /\ calls' = [calls EXCEPT ![n] = IF @ < 2 THEN @ + 1 ELSE @]
  /\ UNCHANGED <<store, mem>>

Confirm(n) ==
  /\ \/ Kind[n] \in {"session", "direct"} /\ Goes(n, "calling", "confirmed")
     \/ Kind[n] = "idempotent" /\ Goes(n, "returned", "confirmed")
  /\ mem' = WithEffect(mem, n, "confirmed")
  /\ Save(mem')
  /\ UNCHANGED calls

\* Faulty variant of Complete, under CompletionIsSaved: left for a later save.
CompleteUnsaved(n) ==
  /\ "leaseLost" \notin active /\ Written
  /\ \/ Kind[n] = "pure" /\ Goes(n, "working", "done")
     \/ Goes(n, "confirmed", "done")
  /\ mem' = WithNode(mem, n, "completed")
  /\ UNCHANGED <<store, calls>>

Complete(n) ==
  /\ "leaseLost" \notin active
  /\ \/ Kind[n] = "pure" /\ Goes(n, "working", "done")
     \/ Goes(n, "confirmed", "done")
  /\ mem' = WithNode(mem, n, "completed")
  /\ Save(mem')
  /\ UNCHANGED calls


(***************************************************************************)
(* A node's errors: refused before its first call, cancelled at the head   *)
(* of the attempt, failing or aborted under way.                           *)
(***************************************************************************)
Thrown(n) ==
  \/ task[n] \in {"attempt", "working", "calling"}
  \/ Kind[n] = "session" /\ task[n] = "dispatched" /\ active # {}
  \/ Kind[n] = "idempotent" /\ task[n] = "prepared"

\* preDispatch refuses a managed write that is prepared and not aborted: it
\* takes the mark back, since nothing was sent.
Refused(n) == Kind[n] = "idempotent" /\ task[n] = "prepared" /\ active = {}
UnmarkedAlways(n) == WithEffect(mem, n, "none")  \* faulty, under CallsAreJournalled
Unmarked(n) == IF Refused(n) THEN WithEffect(mem, n, "none") ELSE mem

\* Errors raised inside the attempt are put to planWorkflowRetry; a direct node
\* may fail inside it before it has marked anything.
Planned(n) == /\ task[n] # "attempt" \/ Kind[n] = "direct"
              /\ "cancelled" \notin active /\ n \in Retried
MayRetry(n) == /\ Planned(n) /\ ~Refused(n)
               /\ Kind[n] \in {"pure", "idempotent"}
               /\ mem.attempt[n] < MaxAttempts
Ambiguous(n) == Planned(n) /\ Kind[n] \in {"session", "direct"}

\* A transient error of a node that may be replayed: back to the queue.
Retry(n) ==
  /\ Thrown(n) /\ MayRetry(n)
  /\ Goes(n, task[n], "stopped")
  /\ mem' = [WithNode(mem, n, "pending") EXCEPT !.status = "queued"]
  /\ Save(mem')
  /\ UNCHANGED calls

\* The outcome of a node is not recorded once the lease is lost.
Abandon(n) ==
  /\ "leaseLost" \in active /\ Written
  /\ Thrown(n) \/ task[n] = "confirmed" \/ task[n] = "working"
  /\ Goes(n, task[n], "stopped")
  /\ UNCHANGED <<store, mem, calls>>

\* Faulty variant of Park, under UncertainIsMarked: the journal is left as it is.
ParkUnmarked(n) ==
  /\ Thrown(n) /\ "leaseLost" \notin active /\ ~Refused(n)
  /\ mem.effect[n] \in Marked \/ Ambiguous(n)
  /\ Goes(n, task[n], "stopped")
  /\ mem' = [WithNode(mem, n, "pending") EXCEPT !.status = "paused"]
  /\ Save(mem')
  /\ UNCHANGED calls

\* The effect may have happened: unknown, and the run pauses for a person.
Park(n) ==
  /\ Thrown(n) /\ "leaseLost" \notin active /\ ~Refused(n)
  /\ mem.effect[n] \in Marked \/ Ambiguous(n)
  /\ Goes(n, task[n], "stopped")
  /\ mem' = [WithEffect(WithNode(mem, n, "pending"), n, "unknown")
               EXCEPT !.status = "paused"]
  /\ Save(mem')
  /\ UNCHANGED calls

\* Faulty variant of FailNode, under DurableSpec: the journal is not looked at
\* before the node is failed.
FailBlindly(n) ==
  /\ Thrown(n) /\ "leaseLost" \notin active
  /\ Goes(n, task[n], "stopped")
  /\ mem' = [WithNode(Unmarked(n), n, "failed") EXCEPT !.status = "failed"]
  /\ Save(mem')
  /\ UNCHANGED calls

FailNode(n) ==
  /\ Thrown(n) /\ "leaseLost" \notin active
  /\ Unmarked(n).effect[n] \notin Marked
  /\ Goes(n, task[n], "stopped")
  /\ LET ends == IF "pause" \in active THEN <<"pending", "paused">>
                 ELSE IF "cancelled" \in active THEN <<"cancelled", "cancelled">>
                 ELSE <<"failed", "failed">>
     IN mem' = [WithNode(Unmarked(n), n, ends[1]) EXCEPT !.status = ends[2]]
  /\ Save(mem')
  /\ UNCHANGED calls

NodeStep(n) ==
  \/ SaveStart(n) \/ Attempt(n) \/ AskApproval(n)
  \/ Prepare(n) \/ Dispatch(n) \/ Call(n) \/ Confirm(n) \/ Complete(n)
  \/ Retry(n) \/ Abandon(n) \/ Park(n) \/ FailNode(n)
-----------------------------------------------------------------------------
(***************************************************************************)
(* Stopping the service, crashing, and starting again.                     *)
(***************************************************************************)
Stop ==
  /\ service = "accepting" /\ stops < MaxStops
  /\ service' = "stopping"
  /\ active' = IF Executing THEN active \cup {"cancelled", "pause"} ELSE active
  /\ stops' = stops + 1
  /\ UNCHANGED <<store, worker, mem, todo, task, people, claims, calls, faults>>

\* finishStop reads the run of each active execution ...
StopReads ==
  /\ service = "stopping"
  /\ IF Executing /\ base.status \in {"queued", "running"}
     THEN copy' = [base EXCEPT !.status = "paused"] /\ service' = "pausing"
     ELSE copy' = NewRecord /\ service' = "draining"
  /\ UNCHANGED <<store, worker, executor, canceller, ghosts>>

\* Faulty variant of StopPauses, under CancellationSticks: the copy is not merged.
StopPausesOver ==
  /\ service = "pausing"
  /\ Write(copy)
  /\ service' = "draining"
  /\ copy' = NewRecord
  /\ UNCHANGED <<worker, executor, canceller, ghosts>>

\* ... and saves it as paused, behind whatever was being written meanwhile.
StopPauses ==
  /\ service = "pausing"
  /\ Write(Merge(rec, Synced(copy)))
  /\ service' = "draining"
  /\ copy' = NewRecord
  /\ UNCHANGED <<worker, executor, canceller, ghosts>>

Stopped ==
  /\ service = "draining" /\ worker = "idle"
  /\ service' = "stopped"
  /\ UNCHANGED <<store, worker, executor, people, ghosts>>

Crash ==
  /\ service # "down" /\ faults < MaxFaults
  /\ \E left \in {rec, base} : rec' = left /\ base' = left
  /\ service' = "down" /\ worker' = "idle" /\ canceller' = "idle"
  /\ mem' = NewRecord /\ copy' = NewRecord
  /\ todo' = {} /\ task' = Idle /\ active' = {}
  /\ faults' = faults + 1
  /\ UNCHANGED <<claims, calls, stops>>

\* A new service instance takes back every lease before its worker starts.
Boot ==
  /\ service \in {"down", "stopped"} /\ canceller = "idle"
  /\ Mutate(Recovered(rec))
  /\ service' = "accepting"
  /\ UNCHANGED <<worker, executor, people, ghosts>>
-----------------------------------------------------------------------------
(***************************************************************************)
(* People.  Their commands on one run exclude one another (the keyed       *)
(* mutex), so a command waits while a cancellation is half way.            *)
(***************************************************************************)
Commands == service = "accepting" /\ canceller = "idle"

\* requestCancellation is persisted first: an execution is told, a run at rest
\* ends (a paused or failed one only when its whole work task is cancelled), and
\* for others nothing is written ...
Cancel ==
  /\ service # "down" /\ canceller = "idle"
  /\ \/ /\ rec.status = "running"
        /\ Mutate([rec EXCEPT !.cancel = "requested"])
     \/ /\ rec.status \in {"queued", "waiting-approval", "paused", "failed"}
        /\ Mutate([rec EXCEPT !.cancel = "requested", !.status = "cancelled",
                              !.wait = NoNode])
     \/ /\ rec.status \notin {"queued", "running", "waiting-approval"}
        /\ Executing /\ Written
        /\ UNCHANGED store
  /\ canceller' = "persisted"
  /\ UNCHANGED <<service, worker, executor, copy, ghosts>>

\* ... and then aborts the execution, also one that began in between.
CancelAborts ==
  /\ canceller = "persisted" /\ Written
  /\ active' = IF Executing THEN active \cup {"cancelled"} ELSE active
  /\ canceller' = "idle"
  /\ UNCHANGED <<store, service, worker, mem, todo, task, copy, ghosts>>

\* prepareQueuedRecord; the store puts a requested cancellation back.
Prepared(r) == [r EXCEPT !.status = "queued", !.lease = 0, !.cancel = "no"]

Approve ==
  /\ Commands /\ Written /\ rec.status = "waiting-approval"
  /\ Save(Prepared([WithNode(rec, rec.wait, "completed") EXCEPT !.wait = NoNode]))
  /\ UNCHANGED <<service, worker, executor, people, ghosts>>

Reject ==
  /\ Commands /\ Written /\ rec.status = "waiting-approval"
  /\ Save([WithNode(rec, rec.wait, "failed") EXCEPT !.wait = NoNode,
                                                    !.status = "failed"])
  /\ UNCHANGED <<service, worker, executor, people, ghosts>>

\* assertRunMutationAvailable
Busy == Executing /\ (\/ rec.status \in {"queued", "running"}
                      \/ \E n \in Node : rec.node[n] = "running")

\* evaluateRecovery: no unresolved effect, and no effectful node that was
\* interrupted without any journal.
SafeToResume(r) ==
  /\ r.status \in {"paused", "failed"} /\ r.cancel = "no"
  /\ ~SomeUncertain(r)
  /\ \A n \in Effectful : ~(/\ r.effect[n] = "undefined"
                            /\ r.node[n] \in {"failed", "running", "cancelled"})

Resume ==
  /\ Commands /\ Written /\ ~Busy /\ SafeToResume(rec)
  /\ Mutate(Merge(rec, Prepared([rec EXCEPT !.node =
       [n \in Node |-> IF rec.node[n] \in {"failed", "running", "cancelled"}
                       THEN "pending" ELSE rec.node[n]]])))
  /\ UNCHANGED <<service, worker, executor, people, ghosts>>

\* reconcileEffect: somebody checked outside whether the effect happened.
Reconcilable(n) ==
  /\ Commands /\ Written /\ ~Busy
  /\ \/ rec.status \in {"paused", "failed"}
     \/ rec.status = "cancelled" /\ rec.cancel = "requested"
  /\ n \in rec.targets /\ rec.effect[n] = "unknown"

ReconcileDispatched(n) ==
  /\ Reconcilable(n)
  /\ Save([WithEffect(WithNode(rec, n, "failed"), n, "confirmed")
             EXCEPT !.status = IF @ = "cancelled" THEN "cancelled" ELSE "failed"])
  /\ UNCHANGED <<service, worker, executor, people, ghosts>>

\* The run goes back to the queue with its last unknown effect; interrupted
\* nodes that have no journal are then taken for safe.
SafeNodesReset(r) ==
  [r EXCEPT !.node = [n \in Node |->
     IF /\ r.node[n] \in {"running", "failed", "cancelled"}
        /\ r.effect[n] \in {"undefined", "none"}
     THEN "pending" ELSE r.node[n]]]

ReconcileNotDispatched(n) ==
  /\ Reconcilable(n)
  /\ LET clear == WithEffect(WithNode(rec, n, "pending"), n, "none")
     IN Save(IF rec.status = "cancelled" THEN clear
             ELSE IF SomeUncertain(clear) THEN [clear EXCEPT !.status = "paused"]
             ELSE Prepared(SafeNodesReset(clear)))
  /\ calls' = [calls EXCEPT ![n] = 0]
  /\ UNCHANGED <<service, worker, executor, people, claims, faults, stops>>
-----------------------------------------------------------------------------
Init ==
  /\ rec = NewRecord /\ base = NewRecord
  /\ service = "accepting" /\ worker = "idle"
  /\ mem = NewRecord /\ todo = {} /\ task = Idle /\ active = {}
  /\ canceller = "idle" /\ copy = NewRecord
  /\ claims = 0 /\ calls = [n \in Node |-> 0] /\ faults = 0 /\ stops = 0

WorkerStep == \/ Claim \/ HandBack \/ Begin \/ SaveBegin \/ Release
              \/ Round \/ Stuck \/ Join \/ LeaveLost \/ Finish \/ Noted \/ NoteFails
NodeSteps == \E n \in Node : NodeStep(n)
StopStep == StopReads \/ StopPauses \/ Stopped

Person ==
  \/ Cancel \/ Approve \/ Reject \/ Resume
  \/ \E n \in Node : ReconcileDispatched(n) \/ ReconcileNotDispatched(n)

Next == \/ Flush \/ WorkerStep \/ NodeSteps \/ StopStep \/ CancelAborts
        \/ LoseLease \/ Stop \/ Crash \/ Boot \/ Person

Spec == Init /\ [][Next]_vars

\* Writes return, the event loop runs what is ready, a node's call ends
\* (every adapter has a timeout) and timers fire.  Nobody has to act, and
\* nothing has to fail or to be started again.
FairSpec == /\ Spec
            /\ WF_vars(Flush) /\ WF_vars(WorkerStep) /\ WF_vars(NodeSteps)
            /\ WF_vars(StopStep) /\ WF_vars(CancelAborts)
-----------------------------------------------------------------------------
(***************************************************************************)
(* Properties.                                                             *)
(***************************************************************************)
\* Type correctness of the record in the store, the executor's copy of it and
\* the control state of the worker, the service and the people.
TypeOK ==
  /\ rec \in Record /\ base \in Record /\ mem \in Record /\ copy \in Record
  /\ service \in {"accepting", "stopping", "pausing", "draining", "stopped", "down"}
  /\ worker \in {"idle", "claimed", "starting", "rounds", "joining", "noting", "ending"}
  /\ todo \subseteq Node
  /\ task \in [Node -> TaskState]
  /\ active \subseteq {"cancelled", "pause", "leaseLost"}
  /\ canceller \in {"idle", "persisted"}
  /\ claims \in 0..MaxClaims /\ faults \in 0..MaxFaults /\ stops \in 0..MaxStops
  /\ calls \in [Node -> 0..2]

\* A running record has an owner: exactly the running records carry a lease,
\* and while the service is up the lease is the one its worker is acting
\* under.  No run is left running with nobody to finish it.
RunningIsOwned ==
  /\ rec.status = "running" <=> rec.lease # 0
  /\ rec.lease # 0 /\ service # "down" => worker # "idle" /\ rec.lease = claims

\* An external call is never made twice without a person having said that the
\* first one did not happen ("never replayed automatically").
NoBlindReplay == \A n \in Once : calls[n] <= 1

\* Every external call that was made is in the journal of the stored record,
\* whatever crashed, stopped or was aborted since.
Journalled(n) == calls[n] > 0 => rec.effect[n] \in Marked \cup {"unknown"}
CallsAreJournalled == \A n \in Once : Journalled(n)

\* The same of the managed writes, whose journal is written before the fetch.
ManagedCallsAreJournalled == \A n \in Effectful \ Once : Journalled(n)

\* A run that came to rest without its executor holds no effect in a half-way
\* state: the uncertain ones are marked unknown, the only mark a person can
\* reconcile.
UncertainIsMarked ==
  rec.status \in {"paused", "failed"} /\ ~Executing
    => \A n \in Node : Uncertain(rec, n) =>
         \/ rec.effect[n] = "unknown"
         \/ rec.effect[n] = "confirmed" /\ rec.node[n] = "failed"

\* Whatever is left for a person to check can be checked: an unknown effect of
\* a run at rest is among the targets reconcileEffect accepts.
UnknownIsReconcilable ==
  rec.status \in {"paused", "failed"} /\ ~Executing
    => \A n \in Node : rec.effect[n] = "unknown" => n \in rec.targets

\* A run is completed only when every node of it is.
CompletedMeansDone ==
  rec.status = "completed" => \A n \in Node : rec.node[n] = "completed"

\* Once a persisted cancellation has been through its abort, an execution of
\* the run knows of it, whichever of the two began first.
AbortIsDelivered ==
  /\ rec.cancel = "requested" /\ canceller = "idle" /\ Written
  /\ worker \in {"starting", "rounds", "joining"}
  => "cancelled" \in active \/ mem.status = "cancelled"

\* No late save, recovery or command reopens a finished run: a cancelled one
\* stays cancelled, and a completed one completed, unless its own execution has
\* yet to note it in its definition and fails it for that.
\* (In the words of its readers this is part of DurableSpec.)
TerminalIsFinal ==
  [][/\ Written /\ rec.status \in {"completed", "cancelled"}
     => \/ rec'.status = rec.status
        \/ rec.status = "completed" /\ rec'.status = "failed" /\ worker = "noting"]_vars

\* A requested cancellation is never forgotten by a writer with an older copy.
CancellationSticks ==
  [][rec.cancel = "requested" /\ Written => rec'.cancel = "requested"]_vars

\* A node that completed under a live lease is completed in the stored record.
CompletionIsSaved ==
  [][\A n \in Node :
       /\ task[n] # "done" /\ task'[n] = "done" /\ active = {}
       => rec'.node[n] = "completed"]_vars

\* A queued or running run comes to rest by itself, unless the service is
\* stopped or the bound on claims is reached.
RunComesToRest ==
  rec.status \in {"queued", "running"}
    ~> \/ rec.status \notin {"queued", "running"}
       \/ service # "accepting"
       \/ claims = MaxClaims
-----------------------------------------------------------------------------
(***************************************************************************)
(* The inductive invariant behind RunningIsOwned and AbortIsDelivered.     *)
(***************************************************************************)
\* Leases are only ever the newest claim's, and only running records have one.
Owned(r) == /\ r.status = "running" <=> r.lease # 0
            /\ r.lease \in {0, claims}

LeaseInv ==
  /\ Owned(rec) /\ Owned(base)
  /\ rec.lease # 0 /\ service # "down" => worker # "idle"
  /\ worker # "idle" => claims # 0 /\ service # "down"
  /\ Executing => mem.lease = claims
  /\ copy.status # "running"

\* An execution that ends still under its lease has saved a resting status.
RestInv ==
  /\ \/ worker \in {"noting", "ending"}
     \/ worker = "joining" /\ \E n \in Node : task[n] \in {"waiting", "stopped"}
  /\ "leaseLost" \notin active
  => rec.status # "running"

\* Nobody holds news of a cancellation that the store does not; a request that
\* nobody is delivering is visible to readers and known to the execution.
CancelInv ==
  /\ base.cancel = "requested" => rec.cancel = "requested"
  /\ Executing /\ mem.cancel = "requested" => rec.cancel = "requested"
  /\ service = "pausing" /\ copy.cancel = "requested" => rec.cancel = "requested"
  /\ rec.cancel = "requested" /\ canceller = "idle" =>
       /\ base.cancel = "requested"
       /\ worker = "starting" => "cancelled" \in active \/ mem.status = "cancelled"
       /\ worker \in {"rounds", "joining"} => "cancelled" \in active

IInv == TypeOK /\ LeaseInv /\ RestInv /\ CancelInv
-----------------------------------------------------------------------------
(***************************************************************************)
(* Refinement.  The abstract run is what get() returns, and what a crash   *)
(* can never take back: the record before the change under way.            *)
(***************************************************************************)
CompletedNodes(r) == {n \in Node : r.node[n] = "completed"}
CalledNodes == {n \in Once : calls[n] > 0}

Durable == INSTANCE DurableRun WITH
  status <- base.status,
  cancel <- base.cancel = "requested",
  done   <- CompletedNodes(base),
  called <- CalledNodes

\* The record keeps the promises of a durable run, read at any instant.
DurableSpec == Durable!Spec
=============================================================================
