------------------------------ MODULE RunQueue ------------------------------
(***************************************************************************)
(* workflow-run-store.ts as the queue of all workflow runs, and the one     *)
(* worker of workflow-run-worker.ts that drains it.                         *)
(*                                                                          *)
(* WorkflowRun follows one run through its nodes; here a run is only a      *)
(* record with a status and a place in the queue, and what matters is what  *)
(* the records share: the admission limits, the turn of each environment,   *)
(* the idempotency keys, the one worker, and the one file.                  *)
(*                                                                          *)
(* Every change goes through mutate(): the records in memory are changed,   *)
(* the admission guard of persist() looks at them, the file is replaced,    *)
(* and a failure puts the snapshot back.  A mutation is two steps here, its *)
(* begin and its end (Settle or Rollback), and the process may die between  *)
(* them; meanwhile readers are given the snapshot.                          *)
(*                                                                          *)
(* Left out: pruneExpired and the deletions (MutationJournal), cancellation *)
(* fences (WorkDispatch), the graceful stop (WorkflowRun), and what a run   *)
(* does between its claim and the save that ends its execution.             *)
(***************************************************************************)
EXTENDS Integers, FiniteSets, FiniteSetsExt

CONSTANTS
    Run,          \* ids of runs, numbers in the order of their creation
    Bucket,       \* queue buckets, numbers in the order of compareText
    Local,        \* the bucket of runs without an environment
    Key,          \* idempotency keys, naming the workflow and revision too
    Global,       \* queueLimits.global
    PerBucket,    \* queueLimits.perEnvironment
    MaxTime,      \* bound on the clock
    MaxFaults,    \* bound on the writes and heartbeats that fail
    MaxRestarts   \* bound on the times the process dies

NoKey == "no key"
None == 0         \* no run, no bucket

ASSUME QueueAssumption ==
    /\ Run \subseteq Nat \ {None} /\ IsFiniteSet(Run)
    /\ Bucket \subseteq Nat \ {None} /\ IsFiniteSet(Bucket)
    /\ Local \in Bucket
    /\ NoKey \notin Key
ASSUME LimitAssumption == Global \in Nat \ {0} /\ PerBucket \in Nat \ {0}
ASSUME BoundAssumption ==
    MaxTime \in Nat /\ MaxFaults \in Nat /\ MaxRestarts \in Nat

VARIABLES
    mem,       \* this.runs and this.lastClaimedBucket
    disk,      \* workflow-runs.json
    base,      \* mutationBaseline and the cursor kept with it, {} outside mutate
    op,        \* the mutation whose write is under way
    pc,        \* where initialize() or the worker's loop stands
    top,       \* the claimed run that the worker executes
    sub,       \* the synchronous child that runs in top's slot
    lost,      \* the heartbeat aborted the execution of top
    clock,
    replies,   \* <<bucket, key, run>> that callers of enqueue were given
    passed,    \* per bucket, those served since it was served or had nothing due
    faults, restarts

image == <<mem, disk, base, op>>
worker == <<pc, top, sub, lost>>
bounds == <<faults, restarts>>
vars == <<image, worker, clock, replies, passed, bounds>>

-----------------------------------------------------------------------------
(* Records and admission.                                                   *)

\* "waiting" is waiting-approval or waiting-question, "paused" also failed,
\* which a person may resume, "ended" is completed or cancelled.
Status == {"none", "queued", "running", "waiting", "paused", "ended"}

\* One WorkflowRunRecord: `queue` says that it has queue metadata, `at` is its
\* availableAt; the id stands for enqueuedAt too.
Record ==
    [st : Status, bucket : Bucket, key : Key \cup {NoKey}, queue : BOOLEAN,
     at : 0 .. MaxTime, lease : BOOLEAN]

NoRun == [st |-> "none", bucket |-> Local, key |-> NoKey, queue |-> FALSE,
          at |-> 0, lease |-> FALSE]

\* Of a run that has ended nothing but its key is read any more, also by the
\* catch that saves it as failed after all.
Ended(record) == [NoRun EXCEPT !.st = "ended", !.bucket = record.bucket, !.key = record.key]

NewRun(b, k) == [NoRun EXCEPT !.st = "queued", !.bucket = b, !.key = k,
                              !.queue = TRUE, !.at = clock]

runs == mem.runs

\* The id of the next record.
Fresh == {r \in Run : runs[r].st = "none" /\ \A s \in Run : s < r => runs[s].st # "none"}

\* What list(), get(), queueSnapshot() and nextDueAt() read.
Visible == IF base = {} THEN runs ELSE (CHOOSE i \in base : TRUE).runs

Admitted(rs) == {r \in Run : rs[r].st \in {"queued", "running", "waiting"}}
AdmittedIn(rs, b) == {r \in Admitted(rs) : rs[r].bucket = b}

\* Faulty variant of Refused, under NeverGrowsPast: only the sum is looked at.
RefusedGlobalOnly(old, new) ==
    Cardinality(Admitted(new)) > Max({Global, Cardinality(Admitted(old))})

\* The guard of persist(): legacy excess can drain, never grow.
Refused(old, new) ==
    \/ Cardinality(Admitted(new)) > Max({Global, Cardinality(Admitted(old))})
    \/ \E b \in Bucket :
           Cardinality(AdmittedIn(new, b))
               > Max({PerBucket, Cardinality(AdmittedIn(old, b))})

\* compareQueuedRuns.
Before(rs, r, s) == rs[r].at < rs[s].at \/ (rs[r].at = rs[s].at /\ r < s)

Due(rs) ==
    {r \in Run : rs[r].st = "queued" /\ (rs[r].queue => rs[r].at <= clock)}
DueBuckets(rs) == {rs[r].bucket : r \in Due(rs)}

\* Faulty variant of NextBucket, under ServedInTurn: the cursor's own bucket is
\* taken again while it has work.
NextBucketSame(rs, cursor) ==
    IF \E b \in DueBuckets(rs) : b >= cursor
    THEN Min({b \in DueBuckets(rs) : b >= cursor})
    ELSE Min(DueBuckets(rs))

\* The first due bucket behind the cursor, from the start when there is none.
NextBucket(rs, cursor) ==
    IF \E b \in DueBuckets(rs) : b > cursor
    THEN Min({b \in DueBuckets(rs) : b > cursor})
    ELSE Min(DueBuckets(rs))

Candidate(rs, b) ==
    CHOOSE r \in Due(rs) :
        /\ rs[r].bucket = b
        /\ \A s \in Due(rs) \ {r} : rs[s].bucket = b => Before(rs, r, s)

-----------------------------------------------------------------------------
(* mutate().                                                                *)

NoOp == [kind |-> "none", run |-> None]

\* The records and the cursor are changed in memory and the write begins; the
\* gate is free, for WorkflowMutationCoordinator.run() serialises mutations.
Begin(kind, r, rs, cursor) ==
    /\ op = NoOp
    /\ ~Refused(runs, rs)
    /\ mem' = [runs |-> rs, cursor |-> cursor]
    /\ base' = {mem}
    /\ op' = [kind |-> kind, run |-> r]
    /\ UNCHANGED <<disk, worker, clock, replies, passed, bounds>>

\* A mutation of one record that leaves the cursor alone.
Put(kind, r, record) == Begin(kind, r, [runs EXCEPT ![r] = record], mem.cursor)

\* The new file is in place.  `passed` is history: a bucket that has something
\* due is passed by the one whose claim is written.
Land ==
    /\ disk' = mem
    /\ passed' = [c \in Bucket |->
                     IF c \notin DueBuckets(mem.runs) THEN {}
                     ELSE IF op.kind # "claim" THEN passed[c]
                     ELSE IF c = mem.cursor THEN {} ELSE passed[c] \cup {mem.cursor}]

\* Where the caller of the mutation goes on when it was written ...
Continue ==
    /\ pc' = CASE op.kind = "claim" -> "exec"
               [] op.kind \in {"finish", "fail"} -> "release"
               [] op.kind = "end" -> "note"
               [] op.kind = "leave" -> "exec"
               [] op.kind = "release" -> "poll"
               [] op.kind = "recover" -> "pause"
               [] op.kind = "pause" -> "poll"
               [] OTHER -> pc
    /\ top' = CASE op.kind = "claim" -> op.run
                [] op.kind = "release" -> None
                [] OTHER -> top
    /\ sub' = CASE op.kind = "spawn" -> op.run
                [] op.kind = "leave" -> None
                [] OTHER -> sub
    /\ lost' = (lost /\ op.kind # "release")
    /\ replies' = IF op.kind = "enqueue" /\ runs[op.run].key # NoKey
                  THEN replies \cup {<<runs[op.run].bucket, runs[op.run].key, op.run>>}
                  ELSE replies

Settle ==
    /\ op # NoOp
    /\ Land
    /\ base' = {}
    /\ op' = NoOp
    /\ Continue
    /\ UNCHANGED <<mem, clock, bounds>>

\* ... and when the write failed.  A claim that failed is tried again after a
\* delay; a save that failed ends the execution in handleWorkerExecutionError,
\* or, of the child, in its caller; a release that failed is swallowed.
Failed ==
    /\ pc' = CASE op.kind = "finish" \/ (op.kind = "end" /\ sub = None) -> "fail"
               [] op.kind = "end" /\ sub # None -> "unnoted"
               [] op.kind = "fail" -> "release"
               [] op.kind = "leave" -> "exec"
               [] op.kind = "release" -> "poll"
               [] op.kind = "pause" -> "off"
               [] OTHER -> pc
    /\ top' = IF op.kind = "release" THEN None ELSE top
    /\ sub' = IF op.kind \in {"leave", "yield", "again"} THEN None ELSE sub
    /\ lost' = (lost /\ op.kind # "release")

\* Faulty variant of Rollback, under MemoryIsOnDisk: the cursor is not put back.
RollbackRuns ==
    /\ op # NoOp /\ faults < MaxFaults
    /\ mem' = [(CHOOSE i \in base : TRUE) EXCEPT !.cursor = mem.cursor]
    /\ base' = {}
    /\ op' = NoOp
    /\ faults' = faults + 1
    /\ Failed
    /\ UNCHANGED <<disk, clock, replies, passed, restarts>>

Rollback ==
    /\ op # NoOp /\ faults < MaxFaults
    /\ mem' = CHOOSE i \in base : TRUE
    /\ base' = {}
    /\ op' = NoOp
    /\ faults' = faults + 1
    /\ Failed
    /\ UNCHANGED <<disk, clock, replies, passed, restarts>>

-----------------------------------------------------------------------------
(* Callers of the service.                                                  *)

Ready == pc \notin {"off", "pause"}

Duplicate(b, k) == {r \in Run : runs[r].st # "none" /\ runs[r].bucket = b /\ runs[r].key = k}

\* start(), startReleased() and an asynchronous child: the duplicate of a key is
\* answered before the fence and the limits are looked at.  A caller without a
\* key is like one whose key nobody repeats.
Enqueue(r, b, k) ==
    /\ Ready /\ r \in Fresh
    /\ Duplicate(b, k) = {}
    /\ Put("enqueue", r, NewRun(b, k))

EnqueueAgain(b, k) ==
    /\ Ready /\ op = NoOp
    /\ \E r \in Duplicate(b, k) : replies' = replies \cup {<<b, k, r>>}
    /\ UNCHANGED <<image, worker, clock, passed, bounds>>

\* requestCancellation: what no execution holds ends at once, a running run gets
\* the mark that its execution will see.
Cancel(r) ==
    /\ Ready
    /\ \/ runs[r].st \in {"queued", "waiting"}
          /\ Put("cancel", r, Ended(runs[r]))
       \/ runs[r].st = "running" /\ ~runs[r].queue
          /\ Put("cancel", r, [runs[r] EXCEPT !.queue = TRUE])

\* resume() of a paused or failed run, which needs a slot again, and approve()
\* or answer() of a waiting one, which has kept its slot.  Time goes on between
\* two of them (a bound of the model: `at` grows with each).
Requeue(r) ==
    /\ Ready
    /\ runs[r].st \in {"paused", "waiting"} /\ runs[r].at < clock
    /\ Put("requeue", r, [runs[r] EXCEPT !.st = "queued", !.queue = TRUE, !.at = clock])

-----------------------------------------------------------------------------
(* The worker and the execution it waits for.                               *)

Claim ==
    /\ pc = "poll" /\ Due(runs) # {}
    /\ LET b == NextBucket(runs, mem.cursor)
           r == Candidate(runs, b)
       IN  Begin("claim", r,
                 [runs EXCEPT ![r].st = "running", ![r].queue = TRUE, ![r].lease = TRUE],
                 b)

\* How an execution may leave its record: settled, waiting for a person, or put
\* back for a retry (at a later time); leaving "running" drops the lease.
Left(record) ==
    {Ended(record)} \cup {[record EXCEPT !.st = s, !.lease = FALSE] : s \in {"paused", "waiting"}}
    \cup (IF clock < MaxTime
          THEN {[record EXCEPT !.st = "queued", !.queue = TRUE, !.at = clock + 1,
                               !.lease = FALSE]}
          ELSE {})

Executing == pc = "exec" /\ op = NoOp

\* A run that ended is completed, or cancelled; a completed one is noted in the
\* definition of its workflow afterwards.
Finish ==
    /\ Executing /\ sub = None /\ ~lost
    /\ \E record \in Left(runs[top]) :
          \/ Put("finish", top, record)
          \/ record.st = "ended" /\ Put("end", top, record)

\* A synchronous child is saved as running and takes a slot of its own.
Spawn(r) ==
    /\ Executing /\ sub = None /\ ~lost /\ r \in Fresh
    /\ Put("spawn", r, [NoRun EXCEPT !.st = "running"])

\* At the limit the child is not created and the caller fails at once.
SpawnRefused ==
    /\ Executing /\ sub = None /\ ~lost
    /\ \E r \in Fresh : Refused(runs, [runs EXCEPT ![r] = [NoRun EXCEPT !.st = "running"]])
    /\ pc' = "full"
    /\ UNCHANGED <<image, top, sub, lost, clock, replies, passed, bounds>>

\* The child's execution ends; after a retry was scheduled its caller waits for
\* the time and executes it again, in its own slot.
SubFinish ==
    /\ Executing /\ sub # None
    /\ runs[sub].st = "running"
    /\ \E record \in Left(runs[sub]) :
          /\ lost => record.st = "paused"
          /\ \/ Put(IF record.st = "queued" THEN "yield" ELSE "leave", sub, record)
             \/ record.st = "ended" /\ Put("end", sub, record)

\* The execution that has just saved its end: a child's while it has one.
Current == IF sub = None THEN top ELSE sub

\* markLastRun(), within the try of executeRun: the execution is over, or its
\* catch goes on with the completed record.
Noted ==
    /\ pc = "note" /\ op = NoOp
    /\ pc' = IF sub = None THEN "release" ELSE "exec"
    /\ sub' = None
    /\ UNCHANGED <<image, top, lost, clock, replies, passed, bounds>>

NoteFails ==
    /\ pc = "note" /\ op = NoOp /\ faults < MaxFaults
    /\ pc' = "unnoted"
    /\ faults' = faults + 1
    /\ UNCHANGED <<image, top, sub, lost, clock, replies, passed, restarts>>

\* The catch saves the run as failed, over the end that is on disk.
Misreport ==
    /\ pc = "unnoted"
    /\ Put(IF sub = None THEN "fail" ELSE "leave", Current,
           [runs[Current] EXCEPT !.st = "paused", !.lease = FALSE])

\* Faulty variant of SubAgain, under QueuedIsServed: the child queues for the
\* worker, which waits for the child's caller.
SubAgainQueues ==
    /\ Executing /\ sub # None
    /\ runs[sub].st = "queued" /\ lost
    /\ Put("leave", sub, Ended(runs[sub]))

SubAgain ==
    /\ Executing /\ sub # None
    /\ runs[sub].st = "queued"
    /\ \/ ~lost /\ runs[sub].at <= clock
          /\ Put("again", sub, [runs[sub] EXCEPT !.st = "running"])
       \/ lost /\ Put("leave", sub, Ended(runs[sub]))

\* Somebody cancelled the child between two of its attempts.
SubGone ==
    /\ Executing /\ sub # None
    /\ runs[sub].st \notin {"running", "queued"}
    /\ sub' = None
    /\ UNCHANGED <<image, pc, top, lost, clock, replies, passed, bounds>>

\* renewLease fails: the execution is aborted and saves nothing more.
LoseHeartbeat ==
    /\ Executing /\ ~lost /\ faults < MaxFaults
    /\ lost' = TRUE
    /\ faults' = faults + 1
    /\ UNCHANGED <<image, pc, top, sub, clock, replies, passed, restarts>>

Abort ==
    /\ Executing /\ sub = None /\ lost
    /\ pc' = "release"
    /\ UNCHANGED <<image, top, sub, lost, clock, replies, passed, bounds>>

\* The node that fails for want of a slot, and handleWorkerExecutionError.
Fail ==
    /\ pc \in {"full", "fail"}
    /\ Put(IF pc = "full" THEN "finish" ELSE "fail", top, [runs[top] EXCEPT !.st = "paused", !.lease = FALSE])

\* What becomes of an interrupted run: a fresh turn, a person's review when an
\* external effect may be out, or its end when that was asked for.
Interrupted(record) ==
    {[record EXCEPT !.st = "queued", !.queue = TRUE, !.at = clock, !.lease = FALSE],
     [record EXCEPT !.st = "paused", !.lease = FALSE], Ended(record)}

\* releaseLease, with recoverInterrupted when the heartbeat was lost.
Release ==
    /\ pc = "release"
    /\ IF runs[top].lease
       THEN IF lost /\ runs[top].st = "running"
            THEN \E record \in Interrupted(runs[top]) : Put("release", top, record)
            ELSE Put("release", top, [runs[top] EXCEPT !.lease = FALSE])
       ELSE /\ op = NoOp
            /\ pc' = "poll" /\ top' = None /\ lost' = FALSE
            /\ UNCHANGED <<image, sub, clock, replies, passed, bounds>>

-----------------------------------------------------------------------------
(* Time, in units that are long against a write, and the life of the        *)
(* process.                                                                 *)

Tick ==
    /\ clock < MaxTime /\ op = NoOp
    /\ clock' = clock + 1
    /\ UNCHANGED <<image, worker, replies, passed, bounds>>

\* The file is replaced by a rename: a crash under a write leaves the old
\* content or the new.
Crash ==
    /\ restarts < MaxRestarts /\ pc # "off"
    /\ restarts' = restarts + 1
    /\ \/ Land /\ mem' = mem
       \/ mem' = disk /\ UNCHANGED <<disk, passed>>
    /\ base' = {} /\ op' = NoOp
    /\ pc' = "off" /\ top' = None /\ sub' = None /\ lost' = FALSE
    /\ UNCHANGED <<clock, replies, faults>>

\* initialize(): recoverInterruptedRuns(now, force), then pauseActiveRuns, one
\* mutation each, and none where nothing is to be changed.
Recover ==
    /\ pc = "off" /\ op = NoOp
    /\ LET held == {r \in Run : runs[r].st = "running" /\ runs[r].lease}
       IN  IF held = {}
           THEN /\ pc' = "pause"
                /\ UNCHANGED <<image, top, sub, lost, clock, replies, passed, bounds>>
           ELSE \E again \in SUBSET held :
                    Begin("recover", None,
                          [r \in Run |->
                              IF r \in again
                              THEN [runs[r] EXCEPT !.st = "queued", !.at = clock, !.lease = FALSE]
                              ELSE IF r \in held
                              THEN [runs[r] EXCEPT !.st = "paused", !.lease = FALSE]
                              ELSE runs[r]],
                          mem.cursor)

PauseLegacy ==
    /\ pc = "pause" /\ op = NoOp
    /\ LET old == {r \in Run : runs[r].st \in {"queued", "running"} /\ ~runs[r].queue}
       IN  IF old = {}
           THEN /\ pc' = "poll"
                /\ UNCHANGED <<image, top, sub, lost, clock, replies, passed, bounds>>
           ELSE Begin("pause", None,
                      [r \in Run |-> IF r \in old THEN [runs[r] EXCEPT !.st = "paused"]
                                     ELSE runs[r]],
                      mem.cursor)

-----------------------------------------------------------------------------
\* The file may hold more queued runs than today's limits admit.
Init ==
    /\ clock = 0
    /\ \E older \in {{}, {Min(Run)}, Run} :
          disk = [runs |-> [r \in Run |-> IF r \in older THEN NewRun(Local, NoKey) ELSE NoRun],
                  cursor |-> None]
    /\ mem = disk /\ base = {} /\ op = NoOp
    /\ pc = "off" /\ top = None /\ sub = None /\ lost = FALSE
    /\ replies = {}
    /\ passed = [b \in Bucket |-> {}]
    /\ faults = 0 /\ restarts = 0

Client ==
    \/ \E b \in Bucket, k \in Key : EnqueueAgain(b, k) \/ \E r \in Run : Enqueue(r, b, k)
    \/ \E r \in Run : Cancel(r) \/ Requeue(r)

Work ==
    \/ Claim \/ Finish \/ SubFinish \/ SubAgain \/ SubGone \/ SpawnRefused
    \/ Noted \/ Misreport \/ Abort \/ Fail \/ Release \/ Recover \/ PauseLegacy

Next ==
    \/ Client \/ Work
    \/ \E r \in Run : Spawn(r)
    \/ Settle \/ Rollback \/ NoteFails \/ LoseHeartbeat \/ Tick \/ Crash

Spec == Init /\ [][Next]_vars

\* Writes end, timers fire, executions end, and the application is started
\* again after a crash: one of them happens while one can.
FairSpec == Spec /\ WF_vars(Settle \/ Work \/ Tick)

-----------------------------------------------------------------------------
(* Properties.                                                              *)

\* Types; and what the phases of the worker mean for the run it holds.
TypeOK ==
    /\ mem \in [runs : [Run -> Record], cursor : Bucket \cup {None}]
    /\ disk \in [runs : [Run -> Record], cursor : Bucket \cup {None}]
    /\ \A i \in base : i \in [runs : [Run -> Record], cursor : Bucket \cup {None}]
    /\ pc \in {"off", "pause", "poll", "exec", "full", "fail", "note", "unnoted", "release"}
    /\ {top, sub} \subseteq Run \cup {None} /\ lost \in BOOLEAN
    /\ (pc \notin {"off", "pause", "poll"}) = (top # None)
    /\ sub # None => pc \in {"exec", "note", "unnoted"} /\ sub # top
    /\ clock \in 0 .. MaxTime
    /\ passed \in [Bucket -> SUBSET Bucket]

\* Readers are shown what the file holds, a mutation under way or not, and
\* between two mutations the memory is the file, its cursor too: a failed write
\* is undone as a whole (mutate, run-store 909-928, list and get 366-378).
MemoryIsOnDisk ==
    /\ Visible = disk.runs
    /\ op = NoOp => mem = disk

\* One key of an environment names one run for ever: callers that repeat it are
\* given the same run, it is in the file by then, and a crash or a failed write
\* between the two does not make another (enqueue, run-store 575-601).
OneRunPerKey ==
    /\ \A x, y \in replies : x[1] = y[1] /\ x[2] = y[2] => x = y
    /\ \A x \in replies : disk.runs[x[3]].st # "none"
    /\ \A r, s \in Run : \/ r = s
                         \/ disk.runs[r].key = NoKey
                         \/ <<disk.runs[r].bucket, disk.runs[r].key>>
                                # <<disk.runs[s].bucket, disk.runs[s].key>>

\* No write takes the admitted runs, or those of a bucket, past the limit, while
\* an excess of before may stay and drain, whichever operation makes the write
\* (persist, run-store 858-870).
NeverGrowsPast ==
    [][LET within(was, is, limit) ==
               Cardinality(is) <= limit \/ Cardinality(is) <= Cardinality(was)
       IN  /\ within(Admitted(disk.runs), Admitted(disk'.runs), Global)
           /\ \A b \in Bucket :
                  within(AdmittedIn(disk.runs, b), AdmittedIn(disk'.runs, b), PerBucket)
      ]_vars

\* The claims take turns: while a bucket has work that is due, no other bucket is
\* served twice before it, also over restarts, failed claims and arrivals
\* (claimNextDue, run-store 603-634).
ServedInTurn ==
    [][\A r \in Run :
           /\ disk.runs[r].st = "queued" /\ disk'.runs[r].st = "running"
           /\ disk'.runs[r].lease
           => \A b \in DueBuckets(disk.runs) : disk.runs[r].bucket \notin passed[b]
      ]_vars

\* A run that was completed or cancelled stays so: no claim, retry of a child,
\* recovery or error path of its caller reopens it.  The one exception is its own
\* execution, which saves it as failed when it cannot mark the completed run in
\* the definition of its workflow (executeRun, run-service 1985-1993).
EndedIsFinal ==
    [][\A r \in Run :
           disk.runs[r].st = "ended" =>
               \/ disk'.runs[r].st = "ended"
               \/ pc = "unnoted" /\ r = Current /\ disk'.runs[r].st = "paused"]_vars

\* A queued run is claimed, cancelled or set aside in the end, whatever the other
\* buckets hold and though claims, saves and releases fail and the process dies.
QueuedIsServed ==
    \A r \in Run : disk.runs[r].st = "queued" ~> disk.runs[r].st # "queued"

\* Refuted (run queue_stranded): a run that is running is being executed, "Durable
\* queue records are recovered through leases" (comment, run-store 353).  A
\* synchronous child has no lease; once it has queue metadata no recovery sees it.
NoneIsStranded ==
    Ready /\ op = NoOp => \A r \in Run : runs[r].st = "running" => r \in {top, sub}
=============================================================================
