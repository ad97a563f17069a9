-------------------------- MODULE WorkflowRun_proofs --------------------------
(***************************************************************************)
(* Proofs about WorkflowRun, for every graph, every kind of node and every *)
(* bound: the lease discipline, the delivery of cancellations, the order   *)
(* of the graph, the journal of effects, what is completed, and the        *)
(* durable run that readers see.                                           *)
(***************************************************************************)
EXTENDS WorkflowRun, TLAPS

-----------------------------------------------------------------------------
(***************************************************************************)
(* What the operators on records return.                                   *)
(***************************************************************************)
\* q is a record with r's status, lease and request for cancellation.
Alike(r, q) == /\ q \in Record
               /\ q.status = r.status /\ q.lease = r.lease /\ q.cancel = r.cancel

\* Replacing one field: the record keeps its type and its other fields.
LEMMA SetStatus ==
  ASSUME NEW r \in Record, NEW s \in Status
  PROVE  LET q == [r EXCEPT !.status = s]
         IN  q \in Record /\ q.status = s /\ q.lease = r.lease /\ q.cancel = r.cancel
  BY DEF Record

\* The same for the lease.
LEMMA SetLease ==
  ASSUME NEW r \in Record, NEW l \in 0..MaxClaims
  PROVE  LET q == [r EXCEPT !.lease = l]
         IN  q \in Record /\ q.lease = l /\ q.status = r.status /\ q.cancel = r.cancel
  BY DEF Record

\* The same for the request for cancellation.
LEMMA SetCancel ==
  ASSUME NEW r \in Record, NEW c \in {"no", "requested"}
  PROVE  LET q == [r EXCEPT !.cancel = c]
         IN  q \in Record /\ q.cancel = c /\ q.status = r.status /\ q.lease = r.lease
  BY DEF Record

\* The same for the node that waits for a person.
LEMMA SetWait ==
  ASSUME NEW r \in Record, NEW w \in Node \cup {NoNode}
  PROVE  Alike(r, [r EXCEPT !.wait = w])
  BY DEF Alike, Record

\* The same for the states of the nodes.
LEMMA SetNode ==
  ASSUME NEW r \in Record, NEW f \in [Node -> NodeStatus]
  PROVE  Alike(r, [r EXCEPT !.node = f])
  BY DEF Alike, Record

\* The same for the journal of effects.
LEMMA SetEffect ==
  ASSUME NEW r \in Record, NEW f \in [Node -> EffectState]
  PROVE  Alike(r, [r EXCEPT !.effect = f])
  BY DEF Alike, Record

\* Refreshing the targets of reconciliation leaves the rest of the run alone.
LEMMA SyncedAlike ==
  ASSUME NEW r \in Record
  PROVE  Alike(r, Synced(r))
  BY DEF Alike, Synced, Record

\* Setting the state of one node leaves the rest of the run alone.
LEMMA WithNodeAlike ==
  ASSUME NEW r \in Record, NEW n \in Node, NEW s \in NodeStatus
  PROVE  Alike(r, WithNode(r, n, s))
  BY DEF Alike, WithNode, Record

\* So does marking the effect of one node.
LEMMA WithEffectAlike ==
  ASSUME NEW r \in Record, NEW n \in Node, NEW e \in EffectState
  PROVE  Alike(r, WithEffect(r, n, e))
  BY DEF Alike, WithEffect, Record

\* So does counting an attempt.
LEMMA WithAttemptAlike ==
  ASSUME NEW r \in Record, NEW n \in Node
  PROVE  Alike(r, WithAttempt(r, n))
<1>1. CASE r.attempt[n] < MaxAttempts
  <2>1. r.attempt \in [Node -> 0..MaxAttempts]
    BY DEF Record
  <2>2. [r.attempt EXCEPT ![n] = @ + 1] \in [Node -> 0..MaxAttempts]
    BY <1>1, <2>1, RetryAssumption
  <2> QED BY <1>1, <2>2 DEF Alike, WithAttempt, Record
<1>2. CASE ~(r.attempt[n] < MaxAttempts)
  BY <1>2 DEF Alike, WithAttempt
<1> QED BY <1>1, <1>2

\* A save by a writer that does not hold the stored lease changes nothing.
LEMMA MergeStale ==
  ASSUME NEW current, NEW new, current.lease # new.lease
  PROVE  Merge(current, new) = current
  BY DEF Merge

\* A save keeps the lease of a running record only, and never loses a request
\* for cancellation.
LEMMA MergeFresh ==
  ASSUME NEW current \in Record, NEW new \in Record, current.lease = new.lease
  PROVE  /\ Merge(current, new) \in Record
         /\ Merge(current, new).status = new.status
         /\ Merge(current, new).lease = IF new.status = "running" THEN new.lease ELSE 0
         /\ Merge(current, new).cancel = "requested" <=>
              current.cancel = "requested" \/ new.cancel = "requested"
<1> DEFINE c == IF current.cancel = "requested" THEN "requested" ELSE new.cancel
           l == IF new.status = "running" THEN new.lease ELSE 0
           q == [new EXCEPT !.cancel = c]
<1>1. c \in {"no", "requested"} /\ l \in 0..MaxClaims
  <2>1. new.cancel \in {"no", "requested"} /\ new.lease \in 0..MaxClaims
    BY DEF Record
  <2> QED BY <2>1, BoundsAssumption
<1>2. Merge(current, new) = [q EXCEPT !.lease = l]
  BY DEF Merge
<1> HIDE DEF l
<1>3. q \in Record /\ q.status = new.status /\ q.cancel = c
  <2> HIDE DEF c
  <2> QED BY <1>1, SetCancel
<1> HIDE DEF q
<1>4. LET m == [q EXCEPT !.lease = l]
      IN  m \in Record /\ m.lease = l /\ m.status = q.status /\ m.cancel = q.cancel
  BY <1>1, <1>3, SetLease
<1>5. Merge(current, new) \in Record /\ Merge(current, new).lease = l
      /\ Merge(current, new).status = new.status /\ Merge(current, new).cancel = c
  BY <1>2, <1>3, <1>4
<1> QED BY <1>5 DEF l

\* The record a recovery parks is paused and without a lease.
LEMMA ParkFacts ==
  ASSUME NEW r \in Record
  PROVE  LET q == ParkUncertain(r)
         IN  q \in Record /\ q.status = "paused" /\ q.lease = 0 /\ q.cancel = r.cancel
<1> DEFINE f == [n \in Node |-> IF Uncertain(r, n) THEN "cancelled" ELSE r.node[n]]
           g == [n \in Node |-> IF Uncertain(r, n) THEN "unknown" ELSE r.effect[n]]
           r1 == [r EXCEPT !.status = "paused"]
           r2 == [r1 EXCEPT !.lease = 0]
           r3 == [r2 EXCEPT !.node = f]
           r4 == [r3 EXCEPT !.effect = g]
<1>1. f \in [Node -> NodeStatus] /\ g \in [Node -> EffectState]
  BY DEF Record, NodeStatus, EffectState
<1>2. ParkUncertain(r) = r4
  BY DEF ParkUncertain
<1> HIDE DEF f, g
<1>3. r1 \in Record /\ r1.status = "paused" /\ r1.cancel = r.cancel
  BY SetStatus DEF Status
<1> HIDE DEF r1
<1>4. r2 \in Record /\ r2.status = "paused" /\ r2.cancel = r.cancel /\ r2.lease = 0
  BY <1>3, SetLease, BoundsAssumption
<1> HIDE DEF r2
<1>5. Alike(r2, r3)
  BY <1>1, <1>4, SetNode
<1> HIDE DEF r3
<1>6. Alike(r3, r4)
  BY <1>1, <1>5, SetEffect DEF Alike
<1> HIDE DEF r4
<1> QED BY <1>2, <1>4, <1>5, <1>6 DEF Alike

\* The record a recovery puts back is queued and without a lease.
LEMMA RequeueFacts ==
  ASSUME NEW r \in Record
  PROVE  LET q == Requeue(r)
         IN  q \in Record /\ q.status = "queued" /\ q.lease = 0 /\ q.cancel = r.cancel
<1> DEFINE f == [n \in Node |-> IF r.node[n] = "running" THEN "pending" ELSE r.node[n]]
           r1 == [r EXCEPT !.status = "queued"]
           r2 == [r1 EXCEPT !.lease = 0]
           r3 == [r2 EXCEPT !.node = f]
<1>1. f \in [Node -> NodeStatus]
  BY DEF Record, NodeStatus
<1>2. Requeue(r) = r3
  BY DEF Requeue
<1> HIDE DEF f
<1>3. r1 \in Record /\ r1.status = "queued" /\ r1.cancel = r.cancel
  BY SetStatus DEF Status
<1> HIDE DEF r1
<1>4. r2 \in Record /\ r2.status = "queued" /\ r2.cancel = r.cancel /\ r2.lease = 0
  BY <1>3, SetLease, BoundsAssumption
<1> HIDE DEF r2
<1>5. Alike(r2, r3)
  BY <1>1, <1>4, SetNode
<1> HIDE DEF r3
<1> QED BY <1>2, <1>4, <1>5 DEF Alike

\* Recovery takes an interrupted run off the worker and leaves others alone.
LEMMA RecoveredFacts ==
  ASSUME NEW r \in Record
  PROVE  /\ Recovered(r) \in Record
         /\ Recovered(r).cancel = r.cancel
         /\ r.status = "running" /\ r.lease # 0 =>
              Recovered(r).status # "running" /\ Recovered(r).lease = 0
         /\ ~(r.status = "running" /\ r.lease # 0) => Recovered(r) = r
  BY ParkFacts, RequeueFacts DEF Recovered

\* A released record has no lease; one released for recovery is not running.
LEMMA ReleasedFacts ==
  ASSUME NEW r \in Record, NEW recover \in BOOLEAN
  PROVE  LET q == Released(r, recover)
         IN  /\ q \in Record /\ q.cancel = r.cancel /\ q.lease = 0
             /\ recover /\ (r.status = "running" <=> r.lease # 0) => q.status # "running"
             /\ r.status # "running" => q.status # "running"
<1> DEFINE r1 == [r EXCEPT !.lease = 0]
           r2 == [r EXCEPT !.status = "cancelled"]
           r3 == [r2 EXCEPT !.lease = 0]
<1>1. r1 \in Record /\ r1.cancel = r.cancel /\ r1.lease = 0 /\ r1.status = r.status
  BY SetLease, BoundsAssumption
<1>2. r2 \in Record /\ r2.cancel = r.cancel /\ r2.status = "cancelled"
  BY SetStatus DEF Status
<1>3. r3 \in Record /\ r3.cancel = r.cancel /\ r3.status = "cancelled" /\ r3.lease = 0
  <2> HIDE DEF r2
  <2> QED BY <1>2, SetLease, BoundsAssumption
<1>4. \/ Released(r, recover) = r1 /\ (~recover \/ r.status # "running" \/ r.lease = 0)
      \/ Released(r, recover) = ParkUncertain(r)
      \/ Released(r, recover) = r3
      \/ Released(r, recover) = Requeue(r)
  BY DEF Released
<1> HIDE DEF r1, r2, r3
<1> QED BY <1>1, <1>3, <1>4, ParkFacts, RequeueFacts
-----------------------------------------------------------------------------
(***************************************************************************)
(* What a save does to the stored record when the invariant holds.         *)
(***************************************************************************)
\* A writer that claims to be running holds the newest lease, and knows of no
\* cancellation that the store does not.
MayWrite(r) == /\ r \in Record
               /\ r.status = "running" => r.lease = claims /\ claims # 0
               /\ r.cancel = "requested" => rec.cancel = "requested"

\* The stored record after such a save: owned, with the same request for
\* cancellation, and not running if it or, under its lease, the writer is not.
LEMMA SaveFacts ==
  ASSUME IInv, NEW r, MayWrite(r)
  PROVE  LET q == Merge(rec, r)
         IN  /\ q \in Record /\ Owned(q)
             /\ q.cancel = "requested" <=> rec.cancel = "requested"
             /\ rec.status # "running" => q.status # "running"
             /\ r.lease = claims /\ claims # 0 /\ r.status # "running" => q.status # "running"
<1>1. rec \in Record /\ Owned(rec)
  BY DEF IInv, TypeOK, LeaseInv
<1>2. CASE rec.lease # r.lease
  <2>1. Merge(rec, r) = rec
    BY <1>2, MergeStale
  <2> QED BY <1>1, <1>2, <2>1 DEF Owned
<1>3. CASE rec.lease = r.lease
  <2>1. r \in Record
    BY DEF MayWrite
  <2>2. LET q == Merge(rec, r)
        IN  /\ q \in Record /\ q.status = r.status
            /\ q.lease = IF r.status = "running" THEN r.lease ELSE 0
            /\ q.cancel = "requested" <=> rec.cancel = "requested" \/ r.cancel = "requested"
    BY <1>1, <1>3, <2>1, MergeFresh
  <2>3. Owned(Merge(rec, r))
    BY <2>2 DEF Owned, MayWrite
  <2> QED BY <1>1, <1>3, <2>2, <2>3 DEF Owned, MayWrite
<1> QED BY <1>2, <1>3

\* Every save of the service writes the copy with its targets refreshed.
LEMMA SyncedMayWrite ==
  ASSUME NEW r, MayWrite(r)
  PROVE  MayWrite(Synced(r)) /\ Synced(r).status = r.status /\ Synced(r).lease = r.lease
  BY SyncedAlike DEF MayWrite, Alike

\* A step of one node that saves the executor's copy of the record: it keeps
\* the copy's lease, and rests the run when it ends the execution.
LEMMA NodeSaves ==
  ASSUME IInv, NEW n \in Node, NEW from, NEW to \in TaskState,
         Goes(n, from, to), Save(mem'),
         mem' \in Record, mem'.lease = mem.lease, mem'.cancel = mem.cancel,
         mem'.status = mem.status \/ mem'.status # "running",
         to \in {"waiting", "stopped"} => mem'.status # "running",
         calls' \in [Node -> 0..2]
  PROVE  IInv'
<1>1. /\ rec' = Merge(rec, Synced(mem')) /\ base' = rec
      /\ worker = "joining" /\ worker' = "joining" /\ service' = service
      /\ task' = [task EXCEPT ![n] = to]
      /\ UNCHANGED <<todo, active, canceller, copy, claims, faults, stops>>
  BY DEF Goes, Save, Mutate, Write, people
<1>2. mem.lease = claims /\ claims # 0 /\ service # "down"
  BY <1>1 DEF IInv, LeaseInv, Executing
<1>3. MayWrite(mem')
  BY <1>1, <1>2 DEF IInv, CancelInv, Executing, MayWrite
<1> DEFINE q == Merge(rec, Synced(mem'))
<1>4. /\ q \in Record /\ Owned(q)
      /\ q.cancel = "requested" <=> rec.cancel = "requested"
      /\ rec.status # "running" => q.status # "running"
      /\ mem'.status # "running" => q.status # "running"
  BY <1>2, <1>3, SyncedMayWrite, SaveFacts
<1> HIDE DEF q
<1>5. rec' = q
  BY <1>1 DEF q
<1>6. TypeOK'
  BY <1>1, <1>4, <1>5 DEF IInv, TypeOK
<1>7. LeaseInv'
  BY <1>1, <1>2, <1>4, <1>5 DEF IInv, LeaseInv, Owned, Executing
<1>8. RestInv'
  <2> SUFFICES ASSUME \E k \in Node : task'[k] \in {"waiting", "stopped"},
                      "leaseLost" \notin active
               PROVE  q.status # "running"
    BY <1>1, <1>5 DEF RestInv
  <2>1. CASE to \in {"waiting", "stopped"}
    BY <2>1, <1>4
  <2>2. CASE to \notin {"waiting", "stopped"}
    <3>1. \E k \in Node : task[k] \in {"waiting", "stopped"}
      BY <1>1, <2>2 DEF IInv, TypeOK
    <3>2. rec.status # "running"
      BY <1>1, <3>1 DEF IInv, RestInv
    <3> QED BY <3>2, <1>4
  <2> QED BY <2>1, <2>2
<1>9. CancelInv'
  BY <1>1, <1>3, <1>4, <1>5 DEF IInv, CancelInv, Executing, MayWrite
<1> QED BY <1>6, <1>7, <1>8, <1>9 DEF IInv

\* A step of one node that saves nothing: it counts an attempt, makes a call,
\* or ends a task whose lease is lost.
LEMMA NodeKeeps ==
  ASSUME IInv, NEW n \in Node, NEW from, NEW to \in TaskState,
         Goes(n, from, to), UNCHANGED store, Alike(mem, mem'),
         to \in {"waiting", "stopped"} => "leaseLost" \in active,
         calls' \in [Node -> 0..2]
  PROVE  IInv'
<1>1. /\ rec' = rec /\ base' = base
      /\ worker = "joining" /\ worker' = "joining" /\ service' = service
      /\ task' = [task EXCEPT ![n] = to]
      /\ UNCHANGED <<todo, active, canceller, copy, claims, faults, stops>>
  BY DEF Goes, store, people
<1>2. TypeOK'
  BY <1>1 DEF IInv, TypeOK, Alike
<1>3. LeaseInv'
  BY <1>1 DEF IInv, LeaseInv, Owned, Executing, Alike
<1>4. RestInv'
  <2> SUFFICES ASSUME \E k \in Node : task'[k] \in {"waiting", "stopped"},
                      "leaseLost" \notin active
               PROVE  rec.status # "running"
    BY <1>1 DEF RestInv
  <2>1. \E k \in Node : task[k] \in {"waiting", "stopped"}
    BY <1>1 DEF IInv, TypeOK
  <2> QED BY <1>1, <2>1 DEF IInv, RestInv
<1>5. CancelInv'
  BY <1>1 DEF IInv, CancelInv, Executing, Alike
<1> QED BY <1>2, <1>3, <1>4, <1>5 DEF IInv
\* Every step of a node preserves the invariant.
LEMMA NodeStepInv ==
  ASSUME IInv, NEW n \in Node, NodeStep(n)
  PROVE  IInv'
<1> USE DEF TaskState
<1>1. mem \in Record /\ task[n] \in TaskState /\ calls \in [Node -> 0..2]
  BY DEF IInv, TypeOK
<1>2. \A r \in Record : /\ \A s \in NodeStatus : Alike(r, WithNode(r, n, s))
                        /\ \A e \in EffectState : Alike(r, WithEffect(r, n, e))
                        /\ Alike(r, WithAttempt(r, n))
  BY WithNodeAlike, WithEffectAlike, WithAttemptAlike
<1>3. CASE SaveStart(n)
  BY <1>1, <1>3, NodeSaves DEF SaveStart
<1>4. CASE Attempt(n)
  BY <1>1, <1>2, <1>4, NodeKeeps DEF Attempt
<1>5. CASE AskApproval(n)
  <2> DEFINE r1 == WithAttempt(mem, n)
             r2 == WithNode(r1, n, "pending")
             r3 == [r2 EXCEPT !.status = "waiting-approval"]
             r4 == [r3 EXCEPT !.wait = n]
  <2>1. Goes(n, "attempt", "waiting") /\ Save(mem') /\ calls' = calls /\ mem' = r4
    BY <1>5 DEF AskApproval
  <2>2. Alike(mem, r1)
    BY <1>1, <1>2
  <2> HIDE DEF r1
  <2>3. Alike(r1, r2)
    BY <1>2, <2>2 DEF Alike, NodeStatus
  <2> HIDE DEF r2
  <2>4. r3 \in Record /\ r3.status = "waiting-approval" /\ r3.lease = r2.lease
        /\ r3.cancel = r2.cancel
    BY <2>3, SetStatus DEF Alike, Status
  <2> HIDE DEF r3
  <2>5. Alike(r3, r4)
    BY <2>4, SetWait
  <2> HIDE DEF r4
  <2>6. /\ mem' \in Record /\ mem'.lease = mem.lease /\ mem'.cancel = mem.cancel
        /\ mem'.status # "running"
    BY <2>1, <2>2, <2>3, <2>4, <2>5 DEF Alike
  <2> QED BY <1>1, <2>1, <2>6, NodeSaves
<1>6. CASE Prepare(n)
  <2>1. Alike(mem, mem')
    <3>1. CASE mem' = WithEffect(mem, n, "prepared")
      BY <1>1, <1>2, <3>1 DEF EffectState
    <3>2. CASE mem' = WithEffect(WithAttempt(mem, n), n, "prepared")
      <4> DEFINE r1 == WithAttempt(mem, n)
      <4>1. Alike(mem, r1)
        BY <1>1, <1>2
      <4> HIDE DEF r1
      <4>2. Alike(r1, WithEffect(r1, n, "prepared"))
        BY <1>2, <4>1 DEF Alike, EffectState
      <4> QED BY <3>2, <4>1, <4>2 DEF Alike, r1
    <3> QED BY <1>6, <3>1, <3>2 DEF Prepare
  <2>2. \E from \in TaskState : Goes(n, from, "prepared") /\ Save(mem') /\ calls' = calls
    BY <1>6 DEF Prepare
  <2> QED BY <1>1, <2>1, <2>2, NodeSaves DEF Alike
<1>7. CASE Dispatch(n)
  <2>1. Alike(mem, mem')
    BY <1>1, <1>2, <1>7 DEF Dispatch, EffectState
  <2>2. \E from, to \in TaskState : /\ Goes(n, from, to) /\ Save(mem') /\ calls' = calls
                                    /\ to \notin {"waiting", "stopped"}
    BY <1>7 DEF Dispatch
  <2> QED BY <1>1, <2>1, <2>2, NodeSaves DEF Alike
<1>8. CASE Call(n)
  <2>1. Alike(mem, mem')
    BY <1>1, <1>8 DEF Call, Alike
  <2> QED BY <1>1, <1>8, <2>1, NodeKeeps DEF Call
<1>9. CASE Confirm(n)
  <2>1. Alike(mem, mem')
    BY <1>1, <1>2, <1>9 DEF Confirm, EffectState
  <2>2. \E from \in TaskState : Goes(n, from, "confirmed") /\ Save(mem') /\ calls' = calls
    BY <1>9 DEF Confirm
  <2> QED BY <1>1, <2>1, <2>2, NodeSaves DEF Alike
<1>10. CASE Complete(n)
  <2>1. Alike(mem, mem')
    BY <1>1, <1>2, <1>10 DEF Complete, NodeStatus
  <2>2. \E from \in TaskState : Goes(n, from, "done") /\ Save(mem') /\ calls' = calls
    BY <1>10 DEF Complete
  <2> QED BY <1>1, <2>1, <2>2, NodeSaves DEF Alike
<1>11. CASE Retry(n)
  <2> DEFINE r1 == WithNode(mem, n, "pending")
             r2 == [r1 EXCEPT !.status = "queued"]
  <2>1. Goes(n, task[n], "stopped") /\ Save(mem') /\ calls' = calls /\ mem' = r2
    BY <1>11 DEF Retry
  <2>2. Alike(mem, r1)
    BY <1>1, <1>2 DEF NodeStatus
  <2> HIDE DEF r1
  <2>3. r2 \in Record /\ r2.status = "queued" /\ r2.lease = r1.lease /\ r2.cancel = r1.cancel
    BY <2>2, SetStatus DEF Alike, Status
  <2> HIDE DEF r2
  <2> QED BY <1>1, <2>1, <2>2, <2>3, NodeSaves DEF Alike
<1>12. CASE Abandon(n)
  <2>1. Alike(mem, mem')
    BY <1>1, <1>12 DEF Abandon, Alike
  <2> QED BY <1>1, <1>12, <2>1, NodeKeeps DEF Abandon
<1>13. CASE Park(n)
  <2> DEFINE r1 == WithNode(mem, n, "pending")
             r2 == WithEffect(r1, n, "unknown")
             r3 == [r2 EXCEPT !.status = "paused"]
  <2>1. Goes(n, task[n], "stopped") /\ Save(mem') /\ calls' = calls /\ mem' = r3
    BY <1>13 DEF Park
  <2>2. Alike(mem, r1)
    BY <1>1, <1>2 DEF NodeStatus
  <2> HIDE DEF r1
  <2>3. Alike(r1, r2)
    BY <1>2, <2>2 DEF Alike, EffectState
  <2> HIDE DEF r2
  <2>4. r3 \in Record /\ r3.status = "paused" /\ r3.lease = r2.lease /\ r3.cancel = r2.cancel
    BY <2>3, SetStatus DEF Alike, Status
  <2> HIDE DEF r3
  <2> QED BY <1>1, <2>1, <2>2, <2>3, <2>4, NodeSaves DEF Alike
<1>14. CASE FailNode(n)
  <2> DEFINE r1 == Unmarked(n)
  <2>1. PICK s \in NodeStatus, t \in Status :
          /\ Goes(n, task[n], "stopped") /\ Save(mem') /\ calls' = calls
          /\ mem' = [WithNode(r1, n, s) EXCEPT !.status = t]
          /\ t # "running"
    BY <1>14, Zenon DEF FailNode, NodeStatus, Status
  <2>2. Alike(mem, r1)
    BY <1>1, <1>2 DEF Unmarked, EffectState, Alike
  <2> HIDE DEF r1
  <2> DEFINE r2 == WithNode(r1, n, s)
             r3 == [r2 EXCEPT !.status = t]
  <2>3. Alike(r1, r2)
    BY <1>2, <2>2 DEF Alike
  <2>4. mem' = r3
    BY <2>1
  <2> HIDE DEF r2
  <2>5. r3 \in Record /\ r3.status = t /\ r3.lease = r2.lease /\ r3.cancel = r2.cancel
    BY <2>3, SetStatus DEF Alike
  <2> HIDE DEF r3
  <2> QED BY <1>1, <2>1, <2>2, <2>3, <2>4, <2>5, NodeSaves DEF Alike
<1> QED BY <1>3, <1>4, <1>5, <1>6, <1>7, <1>8, <1>9, <1>10, <1>11, <1>12, <1>13, <1>14
        DEF NodeStep
-----------------------------------------------------------------------------
(***************************************************************************)
(* The commands of people.                                                 *)
(***************************************************************************)
\* A command that writes a record at rest preserves the invariant.
LEMMA PersonWrites ==
  ASSUME IInv, NEW r, r \in Record, r.status # "running",
         r.cancel = "requested" => rec.cancel = "requested",
         Mutate(Merge(rec, r)),
         UNCHANGED <<service, worker, executor, people, claims, faults, stops>>,
         calls' \in [Node -> 0..2]
  PROVE  IInv'
<1>1. /\ rec' = Merge(rec, r) /\ base' = rec
      /\ UNCHANGED <<service, worker, mem, todo, task, active, canceller, copy>>
      /\ UNCHANGED <<claims, faults, stops>>
  BY DEF Mutate, Write, executor, people
<1> DEFINE q == Merge(rec, r)
<1>2. /\ q \in Record /\ Owned(q)
      /\ q.cancel = "requested" <=> rec.cancel = "requested"
      /\ rec.status # "running" => q.status # "running"
  <2>1. MayWrite(r)
    BY DEF MayWrite
  <2> QED BY <2>1, SaveFacts
<1>3. rec' = q
  BY <1>1
<1> HIDE DEF q
<1>4. TypeOK'
  BY <1>1, <1>2, <1>3 DEF IInv, TypeOK
<1>5. LeaseInv'
  BY <1>1, <1>2, <1>3 DEF IInv, LeaseInv, Owned, Executing
<1>6. RestInv'
  BY <1>1, <1>2, <1>3 DEF IInv, RestInv
<1>7. CancelInv'
  BY <1>1, <1>2, <1>3 DEF IInv, CancelInv, Executing
<1> QED BY <1>4, <1>5, <1>6, <1>7 DEF IInv

\* So does one that refreshes the targets of reconciliation as it saves.
LEMMA PersonSaves ==
  ASSUME IInv, NEW r, r \in Record, r.status # "running",
         r.cancel = "requested" => rec.cancel = "requested",
         Save(r), UNCHANGED <<service, worker, executor, people, claims, faults, stops>>,
         calls' \in [Node -> 0..2]
  PROVE  IInv'
<1>1. Alike(r, Synced(r))
  BY SyncedAlike
<1>2. Mutate(Merge(rec, Synced(r)))
  BY DEF Save
<1> QED BY <1>1, <1>2, PersonWrites DEF Alike

\* A record put back in the queue is queued, free and not being cancelled.
LEMMA PreparedFacts ==
  ASSUME NEW r \in Record
  PROVE  LET q == Prepared(r)
         IN  q \in Record /\ q.status = "queued" /\ q.cancel = "no"
<1> DEFINE r1 == [r EXCEPT !.status = "queued"]
           r2 == [r1 EXCEPT !.lease = 0]
           r3 == [r2 EXCEPT !.cancel = "no"]
<1>1. Prepared(r) = r3
  BY DEF Prepared
<1>2. r1 \in Record /\ r1.status = "queued"
  BY SetStatus DEF Status
<1> HIDE DEF r1
<1>3. r2 \in Record /\ r2.status = "queued"
  BY <1>2, SetLease, BoundsAssumption
<1> HIDE DEF r2
<1>4. r3 \in Record /\ r3.status = "queued" /\ r3.cancel = "no"
  BY <1>3, SetCancel
<1> QED BY <1>1, <1>4

\* Deciding about the node that waits, which leaves the rest of the run alone.
LEMMA DecidedAlike ==
  ASSUME NEW r \in Record, NEW s \in NodeStatus
  PROVE  /\ Alike(r, WithNode(r, r.wait, s))
         /\ Alike(r, [WithNode(r, r.wait, s) EXCEPT !.wait = NoNode])
<1> DEFINE r1 == WithNode(r, r.wait, s)
<1>1. Alike(r, r1)
  BY DEF Alike, WithNode, Record
<1> HIDE DEF r1
<1>2. Alike(r1, [r1 EXCEPT !.wait = NoNode])
  BY <1>1, SetWait DEF Alike
<1> QED BY <1>1, <1>2 DEF Alike, r1

\* Approving the node that waits preserves the invariant.
LEMMA ApproveInv == ASSUME IInv, Approve PROVE IInv'
<1> DEFINE r == [WithNode(rec, rec.wait, "completed") EXCEPT !.wait = NoNode]
<1>1. r \in Record
  BY DecidedAlike DEF IInv, TypeOK, Alike, NodeStatus
<1>2. Save(Prepared(r)) /\ UNCHANGED <<service, worker, executor, people, ghosts>>
  BY DEF Approve
<1> HIDE DEF r
<1>3. calls' \in [Node -> 0..2] /\ UNCHANGED <<claims, faults, stops>>
  BY <1>2 DEF IInv, TypeOK, ghosts
<1> QED BY <1>1, <1>2, <1>3, PreparedFacts, PersonSaves

\* Rejecting it does too.
LEMMA RejectInv == ASSUME IInv, Reject PROVE IInv'
<1> DEFINE r1 == WithNode(rec, rec.wait, "failed")
           r2 == [r1 EXCEPT !.wait = NoNode]
           r3 == [r2 EXCEPT !.status = "failed"]
<1>1. Save(r3) /\ UNCHANGED <<service, worker, executor, people, ghosts>>
  BY DEF Reject
<1>2. Alike(rec, r2)
  BY DecidedAlike DEF IInv, TypeOK, NodeStatus
<1> HIDE DEF r2
<1>3. r3 \in Record /\ r3.status = "failed" /\ r3.cancel = rec.cancel
  BY <1>2, SetStatus DEF Alike, Status
<1>4. calls' \in [Node -> 0..2] /\ UNCHANGED <<claims, faults, stops>>
  BY <1>1 DEF IInv, TypeOK, ghosts
<1> HIDE DEF r3
<1> QED BY <1>1, <1>3, <1>4, PersonSaves

\* Resuming the run does too.
LEMMA ResumeInv == ASSUME IInv, Resume PROVE IInv'
<1> DEFINE f == [n \in Node |-> IF rec.node[n] \in {"failed", "running", "cancelled"}
                                THEN "pending" ELSE rec.node[n]]
           r == [rec EXCEPT !.node = f]
<1>1. rec \in Record /\ f \in [Node -> NodeStatus]
  BY DEF IInv, TypeOK, Record, NodeStatus
<1>2. Mutate(Merge(rec, Prepared(r))) /\ UNCHANGED <<service, worker, executor, people, ghosts>>
  BY DEF Resume
<1> HIDE DEF f
<1>3. r \in Record
  BY <1>1, SetNode DEF Alike
<1>4. calls' \in [Node -> 0..2] /\ UNCHANGED <<claims, faults, stops>>
  BY <1>2 DEF IInv, TypeOK, ghosts
<1> HIDE DEF r
<1> QED BY <1>2, <1>3, <1>4, PreparedFacts, PersonWrites

\* Saying that an uncertain effect happened preserves the invariant.
LEMMA ReconcileDispatchedInv ==
  ASSUME IInv, NEW n \in Node, ReconcileDispatched(n) PROVE IInv'
<1> DEFINE s == IF rec.status = "cancelled" THEN "cancelled" ELSE "failed"
           r1 == WithNode(rec, n, "failed")
           r2 == WithEffect(r1, n, "confirmed")
           r3 == [r2 EXCEPT !.status = s]
<1>1. rec \in Record /\ s \in Status /\ s # "running"
  BY DEF IInv, TypeOK, Status
<1>2. Alike(rec, r1)
  BY <1>1, WithNodeAlike DEF NodeStatus
<1>3. Alike(r1, r2)
  BY <1>2, WithEffectAlike DEF Alike, EffectState
<1>4. Save(r3) /\ UNCHANGED <<service, worker, executor, people, ghosts>>
  <2>1. r2.status = rec.status
    BY <1>2, <1>3 DEF Alike
  <2>2. [r2 EXCEPT !.status = IF @ = "cancelled" THEN "cancelled" ELSE "failed"] = r3
    BY <2>1
  <2> QED BY <2>2 DEF ReconcileDispatched
<1> HIDE DEF r2, s
<1>5. r3 \in Record /\ r3.status = s /\ r3.cancel = rec.cancel
  BY <1>1, <1>2, <1>3, SetStatus DEF Alike
<1>6. calls' \in [Node -> 0..2] /\ UNCHANGED <<claims, faults, stops>>
  BY <1>4 DEF IInv, TypeOK, ghosts
<1> HIDE DEF r3
<1> QED BY <1>1, <1>4, <1>5, <1>6, PersonSaves

\* Saying that it did not does too.
LEMMA ReconcileNotDispatchedInv ==
  ASSUME IInv, NEW n \in Node, ReconcileNotDispatched(n) PROVE IInv'
<1> DEFINE r1 == WithNode(rec, n, "pending")
           clear == WithEffect(r1, n, "none")
           parked == [clear EXCEPT !.status = "paused"]
           again == Prepared(SafeNodesReset(clear))
           saved == IF rec.status = "cancelled" THEN clear
                    ELSE IF SomeUncertain(clear) THEN parked ELSE again
<1>1. Save(saved) /\ UNCHANGED <<service, worker, executor, people, claims, faults, stops>>
  BY DEF ReconcileNotDispatched
<1>2. calls' \in [Node -> 0..2]
  BY DEF ReconcileNotDispatched, IInv, TypeOK
<1>3. Alike(rec, r1)
  BY WithNodeAlike DEF IInv, TypeOK, NodeStatus
<1>4. Alike(r1, clear)
  BY <1>3, WithEffectAlike DEF Alike, EffectState
<1> HIDE DEF clear
<1>5. Alike(rec, clear)
  BY <1>3, <1>4 DEF Alike
<1>6. parked \in Record /\ parked.status = "paused" /\ parked.cancel = rec.cancel
  BY <1>5, SetStatus DEF Alike, Status
<1>7. again \in Record /\ again.status = "queued" /\ again.cancel = "no"
  <2>1. SafeNodesReset(clear) \in Record
    BY <1>5 DEF SafeNodesReset, Alike, Record, NodeStatus
  <2> QED BY <2>1, PreparedFacts
<1> HIDE DEF parked, again
<1>8. saved \in Record /\ saved.status # "running"
      /\ (saved.cancel = "requested" => rec.cancel = "requested")
  BY <1>5, <1>6, <1>7 DEF Alike
<1> HIDE DEF saved
<1> QED BY <1>1, <1>2, <1>8, PersonSaves

\* Persisting a cancellation preserves the invariant.
LEMMA CancelPersists == ASSUME IInv, Cancel PROVE IInv'
<1> DEFINE r1 == [rec EXCEPT !.cancel = "requested"]
           r2 == [r1 EXCEPT !.status = "cancelled"]
           r3 == [r2 EXCEPT !.wait = NoNode]
<1>1. /\ \/ rec' = r1 /\ base' = rec /\ rec.status = "running"
         \/ rec' = r3 /\ base' = rec /\ rec.status # "running"
         \/ rec' = rec /\ base' = base
      /\ canceller' = "persisted"
      /\ UNCHANGED <<service, worker, mem, todo, task, active, copy>>
      /\ UNCHANGED <<claims, calls, faults, stops>>
  BY DEF Cancel, Mutate, Write, store, executor, ghosts
<1>2. rec \in Record /\ base \in Record /\ Owned(rec) /\ Owned(base) /\ claims \in 0..MaxClaims
  BY DEF IInv, TypeOK, LeaseInv
<1>3. r1 \in Record /\ r1.cancel = "requested" /\ r1.status = rec.status /\ r1.lease = rec.lease
  BY <1>2, SetCancel
<1> HIDE DEF r1
<1>4. r2 \in Record /\ r2.status = "cancelled" /\ r2.cancel = r1.cancel /\ r2.lease = r1.lease
  BY <1>3, SetStatus DEF Status
<1> HIDE DEF r2
<1>5. Alike(r2, r3)
  BY <1>4, SetWait
<1> HIDE DEF r3
<1>6. /\ rec' \in Record /\ rec'.lease = rec.lease /\ base' \in {rec, base}
      /\ rec'.status = rec.status \/ (rec.status # "running" /\ rec'.status = "cancelled")
      /\ rec'.cancel = "requested" \/ (rec' = rec /\ base' = base)
  <2>1. /\ r3 \in Record /\ r3.cancel = "requested" /\ r3.lease = rec.lease
        /\ r3.status = "cancelled"
    BY <1>3, <1>4, <1>5 DEF Alike
  <2>2. CASE rec' = r1 /\ base' = rec /\ rec.status = "running"
    BY <1>3, <2>2
  <2>3. CASE rec' = r3 /\ base' = rec /\ rec.status # "running"
    BY <2>1, <2>3
  <2>4. CASE rec' = rec /\ base' = base
    BY <1>2, <2>4
  <2> QED BY <1>1, <2>2, <2>3, <2>4
<1>7. TypeOK'
  BY <1>1, <1>2, <1>6 DEF IInv, TypeOK
<1>8. LeaseInv'
  <2>1. Owned(rec)' /\ Owned(base)'
    BY <1>1, <1>2, <1>6 DEF Owned
  <2> QED BY <1>1, <1>6, <2>1 DEF IInv, LeaseInv, Executing
<1>9. RestInv'
  BY <1>1, <1>6 DEF IInv, RestInv
<1>10. CancelInv'
  BY <1>1, <1>6 DEF IInv, CancelInv, Executing
<1> QED BY <1>7, <1>8, <1>9, <1>10 DEF IInv

-----------------------------------------------------------------------------
(***************************************************************************)
(* The worker and the executor.                                            *)
(***************************************************************************)
\* The blank record an idle executor is left with.
LEMMA NewRecordFacts == NewRecord \in Record /\ NewRecord.status = "queued"
                        /\ NewRecord.cancel = "no" /\ Idle \in [Node -> TaskState]
  BY BoundsAssumption, RetryAssumption
  DEF NewRecord, Record, Status, NodeStatus, EffectState, Idle, TaskState

\* Claiming a queued run under a new lease preserves the invariant.
LEMMA ClaimInv == ASSUME IInv, Claim PROVE IInv'
<1> DEFINE r1 == [rec EXCEPT !.status = "running"]
           q == [r1 EXCEPT !.lease = claims + 1]
<1>1. /\ rec' = q /\ base' = rec /\ claims' = claims + 1 /\ worker' = "claimed"
      /\ service = "accepting" /\ worker = "idle" /\ rec.status = "queued"
      /\ UNCHANGED <<service, mem, todo, task, active, canceller, copy>>
      /\ UNCHANGED <<calls, faults, stops>>
  BY DEF Claim, Mutate, Write, executor, people
<1>2. claims \in Nat /\ claims + 1 \in 0..MaxClaims /\ claims + 1 # 0
  BY BoundsAssumption DEF Claim, IInv, TypeOK
<1>3. r1 \in Record /\ r1.status = "running" /\ r1.cancel = rec.cancel
  BY SetStatus DEF IInv, TypeOK, Status
<1> HIDE DEF r1
<1>4. q \in Record /\ q.status = "running" /\ q.cancel = rec.cancel /\ q.lease = claims + 1
  BY <1>2, <1>3, SetLease
<1> HIDE DEF q
<1>5. TypeOK'
  BY <1>1, <1>2, <1>4 DEF IInv, TypeOK
<1>6. LeaseInv'
  BY <1>1, <1>2, <1>4 DEF IInv, LeaseInv, Owned, Executing
<1>7. RestInv'
  BY <1>1 DEF RestInv
<1>8. CancelInv'
  BY <1>1, <1>4 DEF IInv, CancelInv, Executing
<1> QED BY <1>5, <1>6, <1>7, <1>8 DEF IInv

\* Handing a late claim back preserves it.
LEMMA HandBackInv == ASSUME IInv, HandBack PROVE IInv'
<1> DEFINE q == Released(rec, TRUE)
<1>1. /\ rec' = q /\ base' = rec /\ worker' = "idle" /\ worker = "claimed"
      /\ UNCHANGED <<service, mem, todo, task, active, canceller, copy>>
      /\ UNCHANGED <<claims, calls, faults, stops>>
  BY DEF HandBack, Mutate, Write, executor, people, ghosts
<1>2. q \in Record /\ q.cancel = rec.cancel /\ q.lease = 0 /\ q.status # "running"
  BY ReleasedFacts DEF IInv, TypeOK, LeaseInv, Owned
<1> HIDE DEF q
<1>3. TypeOK'
  BY <1>1, <1>2 DEF IInv, TypeOK
<1>4. LeaseInv'
  BY <1>1, <1>2 DEF IInv, LeaseInv, Owned, Executing
<1>5. RestInv' /\ CancelInv'
  BY <1>1, <1>2 DEF IInv, RestInv, CancelInv, Executing
<1> QED BY <1>3, <1>4, <1>5 DEF IInv

\* Beginning an execution on a fresh copy of the record preserves it.
LEMMA BeginInv == ASSUME IInv, Begin PROVE IInv'
<1> DEFINE s == IF base.cancel = "requested" THEN "cancelled" ELSE "running"
           m == [base EXCEPT !.status = s]
<1>1. /\ mem' = m /\ worker' = "starting" /\ worker = "claimed" /\ active' = {}
      /\ service = "accepting" /\ base.lease = claims /\ todo' \subseteq Node
      /\ UNCHANGED <<rec, base, service, task, canceller, copy, claims, calls, faults, stops>>
  BY DEF Begin, store, people, ghosts
<1>2. m \in Record /\ m.status = s /\ m.lease = claims /\ m.cancel = base.cancel
  <2>1. s \in Status /\ base \in Record
    BY DEF Status, IInv, TypeOK
  <2> HIDE DEF s
  <2> QED BY <1>1, <2>1, SetStatus
<1> HIDE DEF m
<1>3. TypeOK'
  BY <1>1, <1>2 DEF IInv, TypeOK
<1>4. LeaseInv'
  BY <1>1, <1>2 DEF IInv, LeaseInv, Owned, Executing
<1>5. RestInv' /\ CancelInv'
  BY <1>1, <1>2 DEF IInv, RestInv, CancelInv, Executing
<1> QED BY <1>3, <1>4, <1>5 DEF IInv

\* A save of the executor that moves it on: to the rounds if nobody cancelled
\* the run, or to the end with a record at rest.
LEMMA ExecutorSaves ==
  ASSUME IInv, NEW r, MayWrite(r), Save(r), Executing,
         UNCHANGED <<service, todo, task, active, people, ghosts>>,
         mem' \in Record, mem'.lease = mem.lease, mem'.cancel = mem.cancel,
         \/ /\ worker' \in {"noting", "ending"} /\ r.status # "running"
            /\ r.lease = claims \/ r.lease = rec.lease
         \/ worker' = "rounds" /\ worker = "starting" /\ mem.status # "cancelled"
  PROVE  IInv'
<1>1. /\ rec' = Merge(rec, Synced(r)) /\ base' = rec
      /\ UNCHANGED <<service, todo, task, active, canceller, copy>>
      /\ UNCHANGED <<claims, calls, faults, stops>>
  BY DEF Save, Mutate, Write, people, ghosts
<1>2. rec \in Record /\ Owned(rec) /\ claims # 0 /\ service # "down"
  BY DEF IInv, TypeOK, LeaseInv, Executing
<1> DEFINE q == Merge(rec, Synced(r))
<1>3. /\ q \in Record /\ Owned(q)
      /\ q.cancel = "requested" <=> rec.cancel = "requested"
      /\ rec.status # "running" => q.status # "running"
      /\ r.lease = claims /\ r.status # "running" => q.status # "running"
  BY <1>2, SyncedMayWrite, SaveFacts
<1>4. rec' = q
  BY <1>1
<1> HIDE DEF q
<1>5. worker' \in {"noting", "ending"} => q.status # "running"
  BY <1>2, <1>3 DEF Owned
<1>6. TypeOK'
  BY <1>1, <1>3, <1>4 DEF IInv, TypeOK
<1>7. LeaseInv'
  BY <1>1, <1>2, <1>3, <1>4 DEF IInv, LeaseInv, Owned, Executing
<1>8. RestInv'
  BY <1>1, <1>4, <1>5 DEF RestInv
<1>9. CancelInv'
  BY <1>1, <1>3, <1>4 DEF IInv, CancelInv, Executing
<1> QED BY <1>6, <1>7, <1>8, <1>9 DEF IInv

\* Saving the record the execution begins with preserves the invariant.
LEMMA SaveBeginInv == ASSUME IInv, SaveBegin PROVE IInv'
<1>1. Executing /\ worker = "starting" /\ Save(mem) /\ mem' = mem
      /\ UNCHANGED <<service, todo, task, active, people, ghosts>>
      /\ worker' = IF mem.status = "running" THEN "rounds" ELSE "ending"
  BY DEF SaveBegin, Executing, executor
<1>2. MayWrite(mem) /\ mem \in Record /\ mem.lease = claims
  BY <1>1 DEF MayWrite, IInv, TypeOK, LeaseInv, CancelInv, Executing
<1> QED BY <1>1, <1>2, ExecutorSaves

\* Failing a run that cannot go on, or that cannot be noted, does too.
LEMMA StuckInv == ASSUME IInv, Stuck \/ NoteFails PROVE IInv'
<1> DEFINE r == [base EXCEPT !.status = "failed"]
<1>1. Executing /\ Save(r) /\ mem' = mem /\ worker' = "ending" /\ base = rec
      /\ UNCHANGED <<service, todo, task, active, people, ghosts>>
  BY DEF Stuck, NoteFails, Executing, executor, Save, Mutate, Write, Written
<1>2. r \in Record /\ r.status = "failed" /\ r.lease = rec.lease /\ r.cancel = rec.cancel
  <2>1. base \in Record /\ "failed" \in Status
    BY DEF IInv, TypeOK, Status
  <2>2. r \in Record /\ r.status = "failed" /\ r.lease = base.lease /\ r.cancel = base.cancel
    BY <2>1, SetStatus
  <2> QED BY <1>1, <2>2
<1> HIDE DEF r
<1>3. MayWrite(r) /\ mem \in Record
  BY <1>2 DEF MayWrite, IInv, TypeOK
<1> QED BY <1>1, <1>2, <1>3, ExecutorSaves

\* Saving the verdict of the execution does too.
LEMMA FinishInv == ASSUME IInv, Finish PROVE IInv'
<1> DEFINE m == [mem EXCEPT !.status = Verdict]
<1>1. Executing /\ Save(m) /\ mem' = m /\ worker' \in {"noting", "ending"}
      /\ UNCHANGED <<service, todo, task, active, people, ghosts>>
  BY DEF Finish, Executing
<1>2. Verdict \in Status /\ Verdict # "running" /\ mem \in Record
  BY DEF Verdict, Status, IInv, TypeOK
<1>3. m \in Record /\ m.status # "running" /\ m.lease = mem.lease /\ m.cancel = mem.cancel
  BY <1>2, SetStatus
<1> HIDE DEF m
<1>4. MayWrite(m) /\ m.lease = claims
  BY <1>1, <1>3 DEF MayWrite, IInv, LeaseInv, CancelInv
<1> QED BY <1>1, <1>3, <1>4, ExecutorSaves

\* Losing the lease, and aborting for it, preserves the invariant.
LEMMA LoseLeaseInv == ASSUME IInv, LoseLease PROVE IInv'
<1>1. /\ active' = active \cup {"leaseLost", "pause"}
      /\ UNCHANGED <<rec, base, service, worker, mem, todo, task, canceller, copy>>
      /\ UNCHANGED <<claims, calls, stops>>
  BY DEF LoseLease, store, people
<1>2. faults' \in 0..MaxFaults
  BY BoundsAssumption DEF LoseLease, IInv, TypeOK
<1>3. TypeOK'
  BY <1>1, <1>2 DEF IInv, TypeOK
<1>4. LeaseInv'
  BY <1>1 DEF IInv, LeaseInv, Owned, Executing
<1>5. RestInv' /\ CancelInv'
  BY <1>1 DEF IInv, RestInv, CancelInv, Executing
<1> QED BY <1>3, <1>4, <1>5 DEF IInv

\* Releasing the lease at the end of an execution preserves it.
LEMMA ReleaseInv == ASSUME IInv, Release PROVE IInv'
<1> DEFINE q == Released(rec, "leaseLost" \in active)
<1>1. /\ rec' = q /\ base' = rec /\ worker' = "idle" /\ worker = "ending"
      /\ mem' = NewRecord /\ todo' = {} /\ task' = Idle /\ active' = {}
      /\ UNCHANGED <<service, canceller, copy, claims, calls, faults, stops>>
  BY DEF Release, Mutate, Write, people, ghosts
<1>2. rec \in Record /\ (rec.status = "running" <=> rec.lease # 0)
      /\ ("leaseLost" \notin active => rec.status # "running")
  BY <1>1 DEF IInv, TypeOK, LeaseInv, Owned, RestInv
<1>3. q \in Record /\ q.cancel = rec.cancel /\ q.lease = 0 /\ q.status # "running"
  <2> DEFINE lost == "leaseLost" \in active
  <2>1. lost \in BOOLEAN /\ (lost \/ rec.status # "running")
    BY <1>2
  <2> HIDE DEF lost
  <2>2. LET r == Released(rec, lost)
        IN  /\ r \in Record /\ r.cancel = rec.cancel /\ r.lease = 0
            /\ lost /\ (rec.status = "running" <=> rec.lease # 0) => r.status # "running"
            /\ rec.status # "running" => r.status # "running"
    BY <1>2, <2>1, ReleasedFacts, Zenon
  <2>3. LET r == Released(rec, lost)
        IN  r \in Record /\ r.cancel = rec.cancel /\ r.lease = 0 /\ r.status # "running"
    BY <1>2, <2>1, <2>2, Zenon
  <2> QED BY <2>3 DEF lost
<1> HIDE DEF q
<1>4. TypeOK'
  BY <1>1, <1>3, NewRecordFacts DEF IInv, TypeOK
<1>5. LeaseInv'
  BY <1>1, <1>3 DEF IInv, LeaseInv, Owned, Executing
<1>6. RestInv' /\ CancelInv'
  BY <1>1, <1>3 DEF IInv, RestInv, CancelInv, Executing
<1> QED BY <1>4, <1>5, <1>6 DEF IInv

\* Starting a round, joining it, leaving a lost execution and noting a completed
\* one do too.
LEMMA RoundsInv == ASSUME IInv, Round \/ Join \/ LeaveLost \/ Noted PROVE IInv'
<1>1. CASE Round
  <2> DEFINE f == [n \in Node |-> IF n \in Ready THEN "running" ELSE mem.node[n]]
             m == [mem EXCEPT !.node = f]
  <2>1. /\ mem' = m /\ worker' = "joining" /\ worker = "rounds"
        /\ task' = [n \in Node |-> IF n \in Ready THEN "started" ELSE "idle"]
        /\ todo' = todo \ Ready
        /\ UNCHANGED <<rec, base, service, active, canceller, copy>>
        /\ UNCHANGED <<claims, calls, faults, stops>>
    BY <1>1 DEF Round, store, people, ghosts
  <2>2. mem \in Record /\ f \in [Node -> NodeStatus]
    BY DEF IInv, TypeOK, Record, NodeStatus
  <2> HIDE DEF f
  <2>3. Alike(mem, m)
    BY <2>2, SetNode
  <2> HIDE DEF m
  <2>4. task' \in [Node -> TaskState] /\ todo' \subseteq Node
    BY <2>1 DEF TaskState, IInv, TypeOK
  <2>5. TypeOK'
    BY <2>1, <2>3, <2>4 DEF IInv, TypeOK, Alike
  <2>6. LeaseInv' /\ CancelInv'
    BY <2>1, <2>3 DEF IInv, LeaseInv, Owned, Executing, CancelInv, Alike
  <2>7. RestInv'
    BY <2>1 DEF RestInv
  <2> QED BY <2>5, <2>6, <2>7 DEF IInv
<1>2. CASE Join
  <2>1. /\ worker = "joining" /\ worker' \in {"ending", "rounds"}
        /\ worker' = "ending" => \E n \in Node : task[n] \in {"waiting", "stopped"}
        /\ UNCHANGED <<rec, base, service, mem, todo, task, active, canceller, copy>>
        /\ UNCHANGED <<claims, calls, faults, stops>>
    BY <1>2 DEF Join, store, executor, people, ghosts
  <2>2. TypeOK' /\ LeaseInv' /\ CancelInv'
    BY <2>1 DEF IInv, TypeOK, LeaseInv, Owned, Executing, CancelInv
  <2>3. RestInv'
    BY <2>1 DEF IInv, RestInv
  <2> QED BY <2>2, <2>3 DEF IInv
<1>3. CASE LeaveLost \/ Noted
  BY <1>3 DEF LeaveLost, Noted, store, executor, people, ghosts, IInv, TypeOK, LeaseInv,
              Owned, Executing, RestInv, CancelInv
<1> QED BY <1>1, <1>2, <1>3
-----------------------------------------------------------------------------
(***************************************************************************)
(* The store, the service and its crashes.                                 *)
(***************************************************************************)
\* The end of a write preserves the invariant.
LEMMA FlushInv == ASSUME IInv, Flush PROVE IInv'
<1>1. /\ base' = rec
      /\ UNCHANGED <<rec, service, worker, mem, todo, task, active, canceller, copy>>
      /\ UNCHANGED <<claims, calls, faults, stops>>
  BY DEF Flush, executor, people, ghosts
<1>2. TypeOK'
  BY <1>1 DEF IInv, TypeOK
<1>3. LeaseInv'
  BY <1>1 DEF IInv, LeaseInv, Owned, Executing
<1>4. RestInv' /\ CancelInv'
  BY <1>1 DEF IInv, RestInv, CancelInv, Executing
<1> QED BY <1>2, <1>3, <1>4 DEF IInv

\* Asking the service to stop, which aborts the execution, does too.
LEMMA StopInv == ASSUME IInv, Stop PROVE IInv'
<1>1. /\ active' \in {active, active \cup {"cancelled", "pause"}}
      /\ service = "accepting" /\ service' = "stopping"
      /\ UNCHANGED <<rec, base, worker, mem, todo, task, canceller, copy>>
      /\ UNCHANGED <<claims, calls, faults>>
  BY DEF Stop, store, people
<1>2. stops' \in 0..MaxStops
  BY BoundsAssumption DEF Stop, IInv, TypeOK
<1>3. TypeOK'
  BY <1>1, <1>2 DEF IInv, TypeOK
<1>4. LeaseInv'
  BY <1>1 DEF IInv, LeaseInv, Owned, Executing
<1>5. RestInv' /\ CancelInv'
  BY <1>1 DEF IInv, RestInv, CancelInv, Executing
<1> QED BY <1>3, <1>4, <1>5 DEF IInv

\* So does reading the run to pause.
LEMMA StopReadsInv == ASSUME IInv, StopReads PROVE IInv'
<1> DEFINE r == [base EXCEPT !.status = "paused"]
<1>1. /\ \/ copy' = r /\ service' = "pausing"
         \/ copy' = NewRecord /\ service' = "draining"
      /\ service = "stopping"
      /\ UNCHANGED <<rec, base, worker, mem, todo, task, active, canceller>>
      /\ UNCHANGED <<claims, calls, faults, stops>>
  BY DEF StopReads, store, executor, ghosts
<1>2. r \in Record /\ r.status = "paused" /\ r.cancel = base.cancel
  BY SetStatus DEF IInv, TypeOK, Status
<1> HIDE DEF r
<1>3. TypeOK'
  BY <1>1, <1>2, NewRecordFacts DEF IInv, TypeOK
<1>4. LeaseInv'
  BY <1>1, <1>2, NewRecordFacts DEF IInv, LeaseInv, Owned, Executing
<1>5. RestInv'
  BY <1>1 DEF IInv, RestInv
<1>6. CancelInv'
  BY <1>1, <1>2 DEF IInv, CancelInv, Executing
<1> QED BY <1>3, <1>4, <1>5, <1>6 DEF IInv

\* So does saving it as paused, however old the copy is.
LEMMA StopPausesInv == ASSUME IInv, StopPauses PROVE IInv'
<1> DEFINE q == Merge(rec, Synced(copy))
<1>1. /\ rec' = q /\ base' = rec /\ service = "pausing" /\ service' = "draining"
      /\ copy' = NewRecord
      /\ UNCHANGED <<worker, mem, todo, task, active, canceller>>
      /\ UNCHANGED <<claims, calls, faults, stops>>
  BY DEF StopPauses, Write, executor, ghosts
<1>2. MayWrite(copy)
  BY <1>1 DEF MayWrite, IInv, TypeOK, LeaseInv, CancelInv
<1>3. /\ q \in Record /\ Owned(q)
      /\ q.cancel = "requested" <=> rec.cancel = "requested"
      /\ rec.status # "running" => q.status # "running"
  BY <1>2, SyncedMayWrite, SaveFacts
<1> HIDE DEF q
<1>4. TypeOK'
  BY <1>1, <1>3, NewRecordFacts DEF IInv, TypeOK
<1>5. LeaseInv'
  BY <1>1, <1>3, NewRecordFacts DEF IInv, LeaseInv, Owned, Executing
<1>6. RestInv'
  BY <1>1, <1>3 DEF IInv, RestInv
<1>7. CancelInv'
  BY <1>1, <1>3 DEF IInv, CancelInv, Executing
<1> QED BY <1>4, <1>5, <1>6, <1>7 DEF IInv

\* So does the end of the stop.
LEMMA StoppedInv == ASSUME IInv, Stopped PROVE IInv'
<1>1. /\ service' = "stopped" /\ service = "draining"
      /\ UNCHANGED <<rec, base, worker, mem, todo, task, active, canceller, copy>>
      /\ UNCHANGED <<claims, calls, faults, stops>>
  BY DEF Stopped, store, executor, people, ghosts
<1>2. TypeOK'
  BY <1>1 DEF IInv, TypeOK
<1>3. LeaseInv'
  BY <1>1 DEF IInv, LeaseInv, Owned, Executing
<1>4. RestInv' /\ CancelInv'
  BY <1>1 DEF IInv, RestInv, CancelInv, Executing
<1> QED BY <1>2, <1>3, <1>4 DEF IInv

\* So does a crash, whether or not the change being written survives it.
LEMMA CrashInv == ASSUME IInv, Crash PROVE IInv'
<1>1. /\ rec' \in {rec, base} /\ base' = rec'
      /\ service' = "down" /\ worker' = "idle" /\ canceller' = "idle"
      /\ mem' = NewRecord /\ copy' = NewRecord
      /\ todo' = {} /\ task' = Idle /\ active' = {}
      /\ UNCHANGED <<claims, calls, stops>>
  BY DEF Crash
<1>2. faults' \in 0..MaxFaults
  BY BoundsAssumption DEF Crash, IInv, TypeOK
<1>3. rec' \in Record /\ Owned(rec')
  BY <1>1 DEF IInv, TypeOK, LeaseInv
<1>4. TypeOK'
  BY <1>1, <1>2, <1>3, NewRecordFacts DEF IInv, TypeOK
<1>5. LeaseInv'
  BY <1>1, <1>3, NewRecordFacts DEF LeaseInv, Owned, Executing
<1>6. RestInv' /\ CancelInv'
  BY <1>1 DEF RestInv, CancelInv, Executing
<1> QED BY <1>4, <1>5, <1>6 DEF IInv

\* So does a start, which takes interrupted runs back.
LEMMA BootInv == ASSUME IInv, Boot PROVE IInv'
<1> DEFINE q == Recovered(rec)
<1>1. /\ rec' = q /\ base' = rec /\ service' = "accepting"
      /\ UNCHANGED <<worker, mem, todo, task, active, canceller, copy>>
      /\ UNCHANGED <<claims, calls, faults, stops>>
  BY DEF Boot, Mutate, Write, executor, people, ghosts
<1>2. rec \in Record /\ Owned(rec)
  BY DEF IInv, TypeOK, LeaseInv
<1>3. q \in Record /\ q.cancel = rec.cancel /\ q.status # "running" /\ q.lease = 0
  BY <1>2, RecoveredFacts DEF Owned
<1> HIDE DEF q
<1>4. TypeOK'
  BY <1>1, <1>3 DEF IInv, TypeOK
<1>5. LeaseInv'
  BY <1>1, <1>3 DEF IInv, LeaseInv, Owned, Executing
<1>6. RestInv' /\ CancelInv'
  BY <1>1, <1>3 DEF IInv, RestInv, CancelInv, Executing
<1> QED BY <1>4, <1>5, <1>6 DEF IInv

\* So does the abort that follows a persisted cancellation.
LEMMA CancelAbortsInv == ASSUME IInv, CancelAborts PROVE IInv'
<1>1. /\ active' = IF Executing THEN active \cup {"cancelled"} ELSE active
      /\ canceller' = "idle" /\ base = rec
      /\ UNCHANGED <<rec, base, service, worker, mem, todo, task, copy>>
      /\ UNCHANGED <<claims, calls, faults, stops>>
  BY DEF CancelAborts, Written, store, ghosts
<1>2. TypeOK'
  BY <1>1 DEF IInv, TypeOK
<1>3. LeaseInv'
  BY <1>1 DEF IInv, LeaseInv, Owned, Executing
<1>4. RestInv' /\ CancelInv'
  BY <1>1 DEF IInv, RestInv, CancelInv, Executing
<1> QED BY <1>2, <1>3, <1>4 DEF IInv
-----------------------------------------------------------------------------
(***************************************************************************)
(* The theorems.                                                           *)
(***************************************************************************)
\* A new run satisfies the invariant.
LEMMA Initially == Init => IInv
<1> SUFFICES ASSUME Init PROVE IInv
  OBVIOUS
<1>1. TypeOK
  BY NewRecordFacts, BoundsAssumption DEF Init, TypeOK
<1>2. LeaseInv /\ RestInv /\ CancelInv
  BY DEF Init, NewRecord, LeaseInv, Owned, Executing, RestInv, CancelInv
<1> QED BY <1>1, <1>2 DEF IInv

\* Every step preserves it.
LEMMA Inductive == IInv /\ [Next]_vars => IInv'
<1> SUFFICES ASSUME IInv, [Next]_vars PROVE IInv'
  OBVIOUS
<1>1. CASE Flush
  BY <1>1, FlushInv
<1>2. CASE WorkerStep
  BY <1>2, ClaimInv, HandBackInv, BeginInv, SaveBeginInv, ReleaseInv, RoundsInv,
     StuckInv, FinishInv DEF WorkerStep
<1>3. CASE NodeSteps
  BY <1>3, NodeStepInv DEF NodeSteps
<1>4. CASE StopStep
  BY <1>4, StopReadsInv, StopPausesInv, StoppedInv DEF StopStep
<1>5. CASE Person
  BY <1>5, CancelPersists, ApproveInv, RejectInv, ResumeInv, ReconcileDispatchedInv,
     ReconcileNotDispatchedInv DEF Person
<1>6. CASE CancelAborts \/ LoseLease \/ Stop \/ Crash \/ Boot
  BY <1>6, CancelAbortsInv, LoseLeaseInv, StopInv, CrashInv, BootInv
<1>7. CASE UNCHANGED vars
  <2>1. /\ UNCHANGED <<rec, base, service, worker, mem, todo, task, active, canceller, copy>>
        /\ UNCHANGED <<claims, calls, faults, stops>>
    BY <1>7 DEF vars, store, executor, people, ghosts
  <2>2. TypeOK'
    BY <2>1 DEF IInv, TypeOK
  <2>3. LeaseInv'
    BY <2>1 DEF IInv, LeaseInv, Owned, Executing
  <2>4. RestInv' /\ CancelInv'
    BY <2>1 DEF IInv, RestInv, CancelInv, Executing
  <2> QED BY <2>2, <2>3, <2>4 DEF IInv
<1> QED BY <1>1, <1>2, <1>3, <1>4, <1>5, <1>6, <1>7 DEF Next

\* The inductive invariant holds in every reachable state.
THEOREM Invariance == Spec => []IInv
<1> QED BY Initially, Inductive, PTL DEF Spec

\* The store, the copies and the control state have their types throughout.
THEOREM TypeCorrect == Spec => []TypeOK
<1>1. IInv => TypeOK
  BY DEF IInv
<1> QED BY <1>1, Invariance, PTL

\* No run is ever left running with nobody to finish it: the running records
\* are those under a lease, and the lease is that of the acting worker.
THEOREM NoOrphanedRun == Spec => []RunningIsOwned
<1>1. IInv => RunningIsOwned
  BY DEF IInv, LeaseInv, Owned, RunningIsOwned
<1> QED BY <1>1, Invariance, PTL

\* A cancellation that went through its abort is known to the execution,
\* however the two raced.
THEOREM AbortReachesExecution == Spec => []AbortIsDelivered
<1>1. IInv => AbortIsDelivered
  BY DEF IInv, CancelInv, AbortIsDelivered
<1> QED BY <1>1, Invariance, PTL
\* A step leaves the stored record alone, or replaces it while readers still
\* see the old one, or is a crash.
LEMMA OneWriteAtATime == ASSUME Next PROVE rec' = rec \/ base' = rec \/ Crash
<1>1. ASSUME NEW r, Save(r) PROVE base' = rec
  BY <1>1 DEF Save, Mutate, Write
<1>2. CASE WorkerStep
  BY <1>1, <1>2 DEF WorkerStep, Claim, HandBack, Begin, SaveBegin, Release, Round, Stuck,
                    Join, LeaveLost, Finish, Noted, NoteFails, Mutate, Write, store
<1>3. CASE NodeSteps
  <2>1. PICK n \in Node : NodeStep(n)
    BY <1>3 DEF NodeSteps
  <2>2. Save(mem') \/ Save(mem) \/ UNCHANGED store
    BY <2>1 DEF NodeStep, SaveStart, Attempt, AskApproval, Prepare, Dispatch, Call, Confirm,
                Complete, Retry, Abandon, Park, FailNode, store
  <2> QED BY <1>1, <2>2 DEF store
<1>4. CASE StopStep \/ CancelAborts \/ LoseLease \/ Stop \/ Boot \/ Flush
  BY <1>4 DEF StopStep, StopReads, StopPauses, Stopped, CancelAborts, LoseLease, Stop, Boot,
              Flush, Mutate, Write, store
<1>5. CASE Person
  <2>1. Cancel => base' = rec \/ rec' = rec
    BY DEF Cancel, Mutate, Write, store
  <2>2. Approve \/ Reject => \E r : Save(r)
    BY Zenon DEF Approve, Reject
  <2>3. ASSUME NEW n \in Node, ReconcileDispatched(n) \/ ReconcileNotDispatched(n)
        PROVE  \E r : Save(r)
    BY <2>3, Zenon DEF ReconcileDispatched, ReconcileNotDispatched
  <2>4. Resume => base' = rec
    BY DEF Resume, Mutate, Write
  <2> QED BY <1>1, <1>5, <2>1, <2>2, <2>3, <2>4, Zenon DEF Person
<1> QED BY <1>2, <1>3, <1>4, <1>5 DEF Next

\* A request for cancellation is never lost, whoever writes with an older copy
\* and whatever crashes.
THEOREM CancellationIsKept == Spec => CancellationSticks
<1>1. ASSUME IInv, IInv', [Next]_vars
      PROVE  [rec.cancel = "requested" /\ Written => rec'.cancel = "requested"]_vars
  <2> SUFFICES ASSUME Next, rec.cancel = "requested", Written
               PROVE  rec'.cancel = "requested"
    BY <1>1
  <2>1. CASE Crash
    BY <2>1 DEF Crash, Written
  <2>2. CASE base' = rec
    BY <1>1, <2>2 DEF IInv, CancelInv
  <2> QED BY <1>1, <2>1, <2>2, OneWriteAtATime
<1> QED BY <1>1, Invariance, PTL DEF Spec, CancellationSticks
-----------------------------------------------------------------------------
(***************************************************************************)
(* The graph: no node begins before the nodes it waits for are completed,  *)
(* and what is recorded of a node agrees with the task that executes it.   *)
(***************************************************************************)
\* n was started, or its journal says that it reached for the outside world.
Begun(r, n) == r.node[n] # "pending" \/ r.effect[n] \notin {"undefined", "none"}

\* The journal of a record follows the graph, and a completed node's effect is
\* certain.
Journal(r) == \A n \in Node :
  /\ r.node[n] = "completed" => r.effect[n] \in {"undefined", "none", "confirmed"}
  /\ n \notin Effectful => r.effect[n] = "undefined"
  /\ Begun(r, n) => \A d \in Deps[n] : r.node[d] = "completed"

\* A run that goes on has no failed node, and what waits for a person is an
\* approval whose turn has come.
Going == {"pending", "running", "completed"}
AllGoing(r) == \A n \in Node : r.node[n] \in Going
Stands(r) ==
  /\ r.status \in {"queued", "running", "waiting-approval"} => AllGoing(r)
  /\ r.status = "waiting-approval" =>
       /\ r.wait \in Node /\ Kind[r.wait] = "approval" /\ r.node[r.wait] = "pending"
       /\ \A d \in Deps[r.wait] : r.node[d] = "completed"

\* An execution goes on unless one of the round's tasks ended it.
Ended == \E n \in Node : task[n] \in {"waiting", "stopped"}
Live == \/ worker \in {"starting", "rounds"}
        \/ worker = "joining" /\ ~Ended
Under == {"started", "attempt", "working", "prepared", "dispatched", "calling",
          "returned", "confirmed"}

\* The executor's copy agrees with its tasks.
TasksInv == worker = "joining" => \A n \in Node :
  /\ task[n] \in Under => mem.node[n] = "running"
  /\ task[n] = "confirmed" => mem.effect[n] = "confirmed"
  /\ task[n] = "done" => mem.node[n] = "completed"

\* What goes on has no failed node and no other outcome yet.
GraphOf(r) == Journal(r) /\ Stands(r)
GraphInv ==
  /\ GraphOf(rec) /\ GraphOf(base) /\ GraphOf(copy) /\ Journal(mem)
  /\ Executing /\ (rec.status = "running" \/ Live) =>
       AllGoing(mem) /\ mem.status \in {"running", "cancelled"}
  /\ TasksInv

\* Only the fields that a graph is read from matter to these.
Same(r, q) == /\ q.node = r.node /\ q.effect = r.effect
              /\ q.status = r.status /\ q.wait = r.wait

\* The journal is read from the states and effects of the nodes alone.
LEMMA JournalSame ==
  ASSUME NEW r, NEW q, q.node = r.node, q.effect = r.effect, Journal(r)
  PROVE  Journal(q)
BY DEF Journal, Begun

\* Where a run stands is read from the same fields and its status.
LEMMA StandsSame ==
  ASSUME NEW r, NEW q, Same(r, q), Stands(r)
  PROVE  Stands(q)
BY DEF Stands, AllGoing, Same

\* Saving under the stored lease stores the writer's graph.
LEMMA MergeSame ==
  ASSUME NEW current \in Record, NEW new \in Record, current.lease = new.lease
  PROVE  Same(new, Merge(current, Synced(new)))
<1> DEFINE q == Synced(new)
<1>1. q \in Record /\ Same(new, q) /\ q.lease = new.lease
  BY DEF Synced, Same, Record
<1> HIDE DEF q
<1>2. Same(q, Merge(current, q))
  BY <1>1 DEF Merge, Same, Record
<1> QED BY <1>1, <1>2 DEF Same, q

\* What parking an interrupted run writes.
LEMMA ParkIs ==
  ASSUME NEW r \in Record
  PROVE  LET q == ParkUncertain(r)
         IN  /\ q.status = "paused"
             /\ \A n \in Node :
                  /\ q.node[n] = IF Uncertain(r, n) THEN "cancelled" ELSE r.node[n]
                  /\ q.effect[n] = IF Uncertain(r, n) THEN "unknown" ELSE r.effect[n]
BY DEF ParkUncertain, Record

\* What putting it back to the queue writes.
LEMMA RequeueIs ==
  ASSUME NEW r \in Record
  PROVE  LET q == Requeue(r)
         IN  /\ q.status = "queued" /\ q.effect = r.effect
             /\ \A n \in Node :
                  q.node[n] = IF r.node[n] = "running" THEN "pending" ELSE r.node[n]
BY DEF Requeue, Record

\* A completed node of a journal has no uncertain effect.
LEMMA CompletedIsCertain ==
  ASSUME NEW r, Journal(r), NEW n \in Node, r.node[n] = "completed"
  PROVE  ~Uncertain(r, n)
BY DEF Journal, Uncertain

\* Recovery keeps to the graph.
LEMMA ParkGraph ==
  ASSUME NEW r \in Record, Journal(r)
  PROVE  Journal(ParkUncertain(r)) /\ Stands(ParkUncertain(r))
<1> DEFINE q == ParkUncertain(r)
<1>1. /\ q.status = "paused"
      /\ \A n \in Node :
           /\ q.node[n] = IF Uncertain(r, n) THEN "cancelled" ELSE r.node[n]
           /\ q.effect[n] = IF Uncertain(r, n) THEN "unknown" ELSE r.effect[n]
  BY ParkIs
<1> HIDE DEF q
<1>2. ASSUME NEW n \in Node
      PROVE  /\ q.node[n] = "completed" => q.effect[n] \in {"undefined", "none", "confirmed"}
             /\ n \notin Effectful => q.effect[n] = "undefined"
             /\ Begun(q, n) => \A d \in Deps[n] : q.node[d] = "completed"
  <2>1. Begun(q, n) => Begun(r, n)
    BY <1>1 DEF Begun, Uncertain
  <2>2. \A d \in Deps[n] : d \in Node
    BY DepsAssumption
  <2>3. Begun(q, n) => \A d \in Deps[n] : q.node[d] = "completed"
    BY <1>1, <2>1, <2>2, CompletedIsCertain DEF Journal
  <2>4. n \notin Effectful => q.effect[n] = "undefined"
    BY <1>1 DEF Journal, Uncertain
  <2> QED BY <1>1, <2>3, <2>4 DEF Journal
<1>3. Journal(q)
  BY <1>2 DEF Journal
<1>4. Stands(q)
  BY <1>1 DEF Stands
<1> QED BY <1>3, <1>4 DEF q

\* So does queueing again a run that went on.
LEMMA RequeueGraph ==
  ASSUME NEW r \in Record, Journal(r), AllGoing(r)
  PROVE  Journal(Requeue(r)) /\ Stands(Requeue(r))
<1> DEFINE q == Requeue(r)
<1>1. /\ q.status = "queued" /\ q.effect = r.effect
      /\ \A n \in Node :
           q.node[n] = IF r.node[n] = "running" THEN "pending" ELSE r.node[n]
  BY RequeueIs
<1> HIDE DEF q
<1>2. ASSUME NEW n \in Node
      PROVE  Begun(q, n) => \A d \in Deps[n] : q.node[d] = "completed"
  <2>1. \A d \in Deps[n] : d \in Node
    BY DepsAssumption
  <2> QED BY <1>1, <2>1 DEF Begun, Journal
<1>3. Journal(q)
  BY <1>1, <1>2 DEF Journal
<1>4. Stands(q)
  BY <1>1 DEF Stands, AllGoing, Going
<1> QED BY <1>3, <1>4 DEF q

\* What a boot takes back keeps to the graph.
LEMMA RecoveredGraph ==
  ASSUME NEW r \in Record, Journal(r), Stands(r)
  PROVE  Journal(Recovered(r)) /\ Stands(Recovered(r))
BY ParkGraph, RequeueGraph DEF Recovered, Stands

\* So does what the end of an execution writes as it gives the lease back.
LEMMA ReleasedGraph ==
  ASSUME NEW r \in Record, Journal(r), Stands(r), NEW recover \in BOOLEAN
  PROVE  Journal(Released(r, recover)) /\ Stands(Released(r, recover))
<1> DEFINE r1 == [r EXCEPT !.lease = 0]
           r2 == [r EXCEPT !.status = "cancelled", !.lease = 0]
<1>1. Same(r, r1)
  BY DEF Same, Record
<1>2. r2.status = "cancelled" /\ r2.node = r.node /\ r2.effect = r.effect
  BY DEF Record
<1>3. \/ Released(r, recover) = r1
      \/ r.status = "running" /\ Released(r, recover) = ParkUncertain(r)
      \/ Released(r, recover) = r2
      \/ r.status = "running" /\ Released(r, recover) = Requeue(r)
  BY DEF Released
<1> HIDE DEF r1, r2
<1>4. Journal(r1) /\ Stands(r1)
  BY <1>1, JournalSame, StandsSame DEF Same
<1>5. Journal(r2) /\ Stands(r2)
  BY <1>2, JournalSame DEF Stands
<1>6. r.status = "running" => AllGoing(r)
  BY DEF Stands
<1> QED BY <1>3, <1>4, <1>5, <1>6, ParkGraph, RequeueGraph
-----------------------------------------------------------------------------
(***************************************************************************)
(* What a step of a node does, in the terms of the graph.                  *)
(***************************************************************************)
\* Its task moves to a place and the copy's entries for the node change.
Moves(n, to, s, e) ==
  /\ worker = "joining" /\ task' = [task EXCEPT ![n] = to]
  /\ UNCHANGED <<service, worker, todo, active, canceller, copy, claims, faults, stops>>
  /\ mem' \in Record /\ mem'.lease = mem.lease /\ mem'.cancel = mem.cancel
  /\ mem'.node = [mem.node EXCEPT ![n] = s]
  /\ mem'.effect = [mem.effect EXCEPT ![n] = e]

\* Nothing is saved: an attempt is counted, the outside world is reached, or
\* a task gives up because the lease is lost.
Tries(n, to, s, e) ==
  /\ UNCHANGED store
  /\ s = mem.node[n] /\ e = mem.effect[n] /\ mem'.status = mem.status
  /\ \/ to = "working" /\ task[n] = "attempt" /\ calls' = calls
     \/ /\ to = "stopped" /\ task[n] \in Under \ {"started"}
        /\ "leaseLost" \in active /\ calls' = calls
     \/ /\ to = "calling" /\ Written
        /\ task[n] = IF n \in Once THEN "dispatched" ELSE "prepared"
        /\ calls' = [calls EXCEPT ![n] = IF @ < 2 THEN @ + 1 ELSE @]

\* The task goes on, and what it did is saved.
Works(n, to, s, e) ==
  /\ Save(mem') /\ calls' = calls
  /\ s = mem.node[n] /\ mem'.status = mem.status
  /\ \/ to = "attempt" /\ task[n] = "started" /\ e = mem.effect[n]
     \/ /\ to = "prepared" /\ task[n] \in {"attempt", "working"}
        /\ n \in Effectful /\ e = "prepared"
     \/ to = "dispatched" /\ task[n] = "prepared" /\ n \in Once /\ e = "dispatched"
     \/ /\ to = "returned" /\ task[n] = "calling"
        /\ n \in Effectful \ Once /\ e = "dispatched"
     \/ /\ to = "confirmed" /\ task[n] \in {"calling", "returned"}
        /\ n \in Effectful /\ e = "confirmed"

\* The task ends, and its outcome is saved.
Ends(n, to, s, e) ==
  /\ Save(mem') /\ calls' = calls
  /\ \/ /\ to = "done" /\ s = "completed" /\ e = mem.effect[n]
        /\ mem'.status = mem.status
        /\ \/ task[n] = "confirmed"
           \/ task[n] = "working" /\ n \notin Effectful
     \/ /\ to = "waiting" /\ s = "pending" /\ e = mem.effect[n]
        /\ task[n] = "attempt" /\ Kind[n] = "approval"
        /\ mem'.status = "waiting-approval" /\ mem'.wait = n
     \/ /\ to = "stopped" /\ task[n] \in Under
        /\ \/ /\ s = "pending" /\ e = mem.effect[n] /\ mem'.status = "queued"
              /\ n \notin Once
           \/ /\ s = "pending" /\ e = "unknown" /\ mem'.status = "paused"
              /\ n \in Effectful
           \/ /\ s \in {"pending", "failed", "cancelled"}
              /\ mem'.status \in {"paused", "failed", "cancelled"}
              /\ e \notin Marked
              /\ \/ e = mem.effect[n]
                 \/ e = "none" /\ n \in Effectful \ Once
              /\ "leaseLost" \notin active
              /\ mem'.status = "cancelled" => "cancelled" \in active

\* Which of the classes of nodes a kind belongs to.
LEMMA KindClass ==
  ASSUME NEW n \in Node
  PROVE  /\ Kind[n] \in {"session", "direct"} <=> n \in Once
         /\ Kind[n] = "idempotent" <=> n \in Effectful \ Once
         /\ Kind[n] \in {"pure", "approval"} <=> n \notin Effectful
BY KindAssumption DEF Once, Effectful, Kinds

\* q is r with the entries of n in the graph set to s and e.
Sets(r, q, n, s, e) ==
  /\ q \in Record /\ q.lease = r.lease /\ q.status = r.status /\ q.wait = r.wait
  /\ q.cancel = r.cancel
  /\ q.node = [r.node EXCEPT ![n] = s]
  /\ q.effect = [r.effect EXCEPT ![n] = e]

\* Counting an attempt, setting a node's state and marking its effect.
LEMMA StepSets ==
  ASSUME NEW r \in Record, NEW n \in Node
  PROVE  /\ Sets(r, r, n, r.node[n], r.effect[n])
         /\ Sets(r, WithAttempt(r, n), n, r.node[n], r.effect[n])
         /\ \A s \in NodeStatus : Sets(r, WithNode(r, n, s), n, s, r.effect[n])
         /\ \A e \in EffectState : Sets(r, WithEffect(r, n, e), n, r.node[n], e)
<1>1. r.node \in [Node -> NodeStatus] /\ r.effect \in [Node -> EffectState]
  BY DEF Record
<1>2. Sets(r, r, n, r.node[n], r.effect[n])
  BY <1>1 DEF Sets
<1>3. Sets(r, WithAttempt(r, n), n, r.node[n], r.effect[n])
  <2>1. /\ WithAttempt(r, n) \in Record /\ WithAttempt(r, n).lease = r.lease
        /\ WithAttempt(r, n).cancel = r.cancel
    BY WithAttemptAlike DEF Alike
  <2>2. /\ WithAttempt(r, n).node = r.node /\ WithAttempt(r, n).effect = r.effect
        /\ WithAttempt(r, n).status = r.status /\ WithAttempt(r, n).wait = r.wait
    BY DEF WithAttempt, Record
  <2> QED BY <1>1, <2>1, <2>2 DEF Sets
<1>4. ASSUME NEW s \in NodeStatus
      PROVE  Sets(r, WithNode(r, n, s), n, s, r.effect[n])
  BY <1>1 DEF Sets, WithNode, Record
<1>5. ASSUME NEW e \in EffectState
      PROVE  Sets(r, WithEffect(r, n, e), n, r.node[n], e)
  BY <1>1 DEF Sets, WithEffect, Record
<1> QED BY <1>2, <1>3, <1>4, <1>5

\* One such change after another.
LEMMA SetsThenSets ==
  ASSUME NEW r \in Record, NEW q, NEW p, NEW n \in Node, NEW s, NEW e, NEW t, NEW f,
         Sets(r, q, n, s, e), Sets(q, p, n, t, f)
  PROVE  Sets(r, p, n, t, f)
<1>1. r.node \in [Node -> NodeStatus] /\ r.effect \in [Node -> EffectState]
  BY DEF Record
<1>2. [[r.node EXCEPT ![n] = s] EXCEPT ![n] = t] = [r.node EXCEPT ![n] = t]
  BY <1>1
<1>3. [[r.effect EXCEPT ![n] = e] EXCEPT ![n] = f] = [r.effect EXCEPT ![n] = f]
  BY <1>1
<1> QED BY <1>2, <1>3 DEF Sets

\* The entries a change leaves.
LEMMA SetsAt ==
  ASSUME NEW r \in Record, NEW q, NEW n \in Node, NEW s, NEW e, Sets(r, q, n, s, e)
  PROVE  q \in Record /\ q.node[n] = s /\ q.effect[n] = e
<1>1. r.node \in [Node -> NodeStatus] /\ r.effect \in [Node -> EffectState]
  BY DEF Record
<1> QED BY <1>1 DEF Sets

\* Setting the status.
LEMMA WithStatusIs ==
  ASSUME NEW r \in Record, NEW t \in Status
  PROVE  LET q == [r EXCEPT !.status = t]
         IN  /\ q \in Record /\ q.node = r.node /\ q.effect = r.effect
             /\ q.wait = r.wait /\ q.lease = r.lease /\ q.cancel = r.cancel /\ q.status = t
BY DEF Record

\* A step of a node is one of these moves.
LEMMA NodeMoves ==
  ASSUME IInv, Journal(mem), NEW n \in Node, NodeStep(n)
  PROVE  \E to \in TaskState, s \in NodeStatus, e \in EffectState :
           Moves(n, to, s, e) /\ (Tries(n, to, s, e) \/ Works(n, to, s, e) \/ Ends(n, to, s, e))
<1> USE DEF TaskState, NodeStatus, EffectState
<1> DEFINE Move(to, s, e) ==
      Moves(n, to, s, e) /\ (Tries(n, to, s, e) \/ Works(n, to, s, e) \/ Ends(n, to, s, e))
           s0 == mem.node[n]
           e0 == mem.effect[n]
<1>1. mem \in Record /\ s0 \in NodeStatus /\ e0 \in EffectState
  BY DEF IInv, TypeOK, Record
<1>2. /\ Sets(mem, mem, n, s0, e0)
      /\ Sets(mem, WithAttempt(mem, n), n, s0, e0)
      /\ \A s \in NodeStatus : Sets(mem, WithNode(mem, n, s), n, s, e0)
      /\ \A e \in EffectState : Sets(mem, WithEffect(mem, n, e), n, s0, e)
  BY <1>1, StepSets
<1>3. /\ Kind[n] \in {"session", "direct"} <=> n \in Once
      /\ Kind[n] = "idempotent" <=> n \in Effectful \ Once
      /\ Kind[n] \in {"pure", "approval"} <=> n \notin Effectful
  BY KindClass
\* A step that keeps the copy's status.
<1>4. ASSUME NEW from, NEW to, NEW s, NEW e, Goes(n, from, to), Sets(mem, mem', n, s, e)
      PROVE  Moves(n, to, s, e) /\ task[n] = from /\ mem'.status = mem.status
  BY <1>4 DEF Goes, people, Moves, Sets
\* One that sets it.
<1>5. ASSUME NEW from, NEW to, NEW s, NEW e, Goes(n, from, to), NEW q, Sets(mem, q, n, s, e),
             NEW t \in Status, mem' = [q EXCEPT !.status = t]
      PROVE  Moves(n, to, s, e) /\ task[n] = from /\ mem'.status = t
  <2>1. q \in Record
    BY <1>5 DEF Sets
  <2>2. LET p == [q EXCEPT !.status = t]
        IN  /\ p \in Record /\ p.node = q.node /\ p.effect = q.effect
            /\ p.lease = q.lease /\ p.cancel = q.cancel /\ p.status = t
    BY <2>1, WithStatusIs
  <2> QED BY <1>5, <2>2 DEF Goes, people, Moves, Sets
<1> HIDE DEF s0, e0
<1>7. CASE SaveStart(n)
  <2>1. Goes(n, "started", "attempt") /\ mem' = mem /\ Save(mem') /\ calls' = calls
    BY <1>7 DEF SaveStart
  <2>2. Moves(n, "attempt", s0, e0) /\ task[n] = "started" /\ mem'.status = mem.status
    BY <1>2, <1>4, <2>1
  <2>3. Works(n, "attempt", s0, e0)
    BY <2>1, <2>2 DEF Works, s0, e0
  <2> QED BY <1>1, <2>2, <2>3
<1>8. CASE Attempt(n)
  <2>1. Goes(n, "attempt", "working") /\ mem' = WithAttempt(mem, n) /\ UNCHANGED <<store, calls>>
    BY <1>8 DEF Attempt
  <2>2. Moves(n, "working", s0, e0) /\ task[n] = "attempt" /\ mem'.status = mem.status
    BY <1>2, <1>4, <2>1
  <2>3. Tries(n, "working", s0, e0)
    BY <2>1, <2>2 DEF Tries, s0, e0
  <2> QED BY <1>1, <2>2, <2>3
<1>9. CASE AskApproval(n)
  <2> DEFINE r1 == WithAttempt(mem, n)
             r2 == WithNode(r1, n, "pending")
             r3 == [r2 EXCEPT !.status = "waiting-approval"]
  <2>1. /\ Goes(n, "attempt", "waiting") /\ Save(mem') /\ calls' = calls /\ Kind[n] = "approval"
        /\ mem' = [r3 EXCEPT !.wait = n]
    BY <1>9 DEF AskApproval
  <2>2. r1 \in Record /\ r1.node[n] = s0 /\ r1.effect[n] = e0
    BY <1>1, <1>2, SetsAt
  <2>3. Sets(r1, r2, n, "pending", r1.effect[n])
    <3> HIDE DEF r1
    <3> QED BY <2>2, StepSets
  <2>4. Sets(mem, r2, n, "pending", e0)
    <3>1. Sets(mem, r1, n, s0, e0)
      BY <1>2
    <3> HIDE DEF r1, r2
    <3> QED BY <1>1, <2>2, <2>3, <3>1, SetsThenSets
  <2> HIDE DEF r2
  <2>5. r2 \in Record /\ "waiting-approval" \in Status
    BY <2>4 DEF Sets, Status
  <2>6. /\ r3 \in Record /\ r3.node = r2.node /\ r3.effect = r2.effect
        /\ r3.lease = r2.lease /\ r3.cancel = r2.cancel /\ r3.status = "waiting-approval"
    BY <2>5, WithStatusIs
  <2> HIDE DEF r3
  <2>7. /\ mem' \in Record /\ mem'.node = r3.node /\ mem'.effect = r3.effect
        /\ mem'.lease = r3.lease /\ mem'.cancel = r3.cancel
        /\ mem'.status = r3.status /\ mem'.wait = n
    BY <2>1, <2>6 DEF Record
  <2>8. Moves(n, "waiting", "pending", e0) /\ task[n] = "attempt"
    BY <2>1, <2>4, <2>6, <2>7 DEF Goes, people, Moves, Sets
  <2>9. Ends(n, "waiting", "pending", e0)
    BY <2>1, <2>6, <2>7, <2>8 DEF Ends, e0
  <2> QED BY <1>1, <2>8, <2>9
<1>10. CASE Prepare(n)
  <2>1. PICK from \in {"attempt", "working"} :
          Goes(n, from, "prepared") /\ Save(mem') /\ calls' = calls
    BY <1>10 DEF Prepare
  <2>2. n \in Effectful
    BY <1>3, <1>10 DEF Prepare
  <2>3. Sets(mem, mem', n, s0, "prepared")
    <3>1. CASE mem' = WithEffect(mem, n, "prepared")
      BY <1>2, <3>1
    <3>2. CASE mem' = WithEffect(WithAttempt(mem, n), n, "prepared")
      <4> DEFINE r1 == WithAttempt(mem, n)
      <4>1. Sets(mem, r1, n, s0, e0)
        BY <1>2
      <4> HIDE DEF r1
      <4>2. r1 \in Record /\ r1.node[n] = s0
        BY <1>1, <4>1, SetsAt
      <4>3. Sets(r1, WithEffect(r1, n, "prepared"), n, s0, "prepared")
        BY <4>2, StepSets
      <4>4. mem' = WithEffect(r1, n, "prepared")
        BY <3>2 DEF r1
      <4> QED BY <1>1, <4>1, <4>3, <4>4, SetsThenSets
    <3> QED BY <1>10, <3>1, <3>2 DEF Prepare
  <2>4. Moves(n, "prepared", s0, "prepared") /\ task[n] = from /\ mem'.status = mem.status
    BY <1>4, <2>1, <2>3
  <2>5. Works(n, "prepared", s0, "prepared")
    BY <2>1, <2>2, <2>4 DEF Works, s0
  <2> QED BY <1>1, <2>4, <2>5
<1>11. CASE Dispatch(n)
  <2>1. Sets(mem, mem', n, s0, "dispatched") /\ Save(mem') /\ calls' = calls
    BY <1>2, <1>11 DEF Dispatch
  <2>2. CASE Goes(n, "prepared", "dispatched") /\ n \in Once
    <3>1. Moves(n, "dispatched", s0, "dispatched") /\ task[n] = "prepared" /\ mem'.status = mem.status
      BY <1>4, <2>1, <2>2
    <3>2. Works(n, "dispatched", s0, "dispatched")
      BY <2>1, <2>2, <3>1 DEF Works, s0
    <3> QED BY <1>1, <3>1, <3>2
  <2>3. CASE Goes(n, "calling", "returned") /\ n \in Effectful \ Once
    <3>1. Moves(n, "returned", s0, "dispatched") /\ task[n] = "calling" /\ mem'.status = mem.status
      BY <1>4, <2>1, <2>3
    <3>2. Works(n, "returned", s0, "dispatched")
      BY <2>1, <2>3, <3>1 DEF Works, s0
    <3> QED BY <1>1, <3>1, <3>2
  <2> QED BY <1>3, <1>11, <2>2, <2>3 DEF Dispatch
<1>12. CASE Call(n)
  <2> DEFINE from == IF n \in Once THEN "dispatched" ELSE "prepared"
  <2>1. /\ Goes(n, from, "calling") /\ mem' = mem /\ UNCHANGED store /\ Written
        /\ calls' = [calls EXCEPT ![n] = IF @ < 2 THEN @ + 1 ELSE @]
    BY <1>3, <1>12 DEF Call
  <2>2. Moves(n, "calling", s0, e0) /\ task[n] = from /\ mem'.status = mem.status
    <3> HIDE DEF from
    <3> QED BY <1>2, <1>4, <2>1
  <2>3. Tries(n, "calling", s0, e0)
    BY <2>1, <2>2 DEF Tries, s0, e0
  <2> QED BY <1>1, <2>2, <2>3
<1>13. CASE Confirm(n)
  <2>1. Sets(mem, mem', n, s0, "confirmed") /\ Save(mem') /\ calls' = calls /\ n \in Effectful
    BY <1>2, <1>3, <1>13 DEF Confirm
  <2>2. PICK from \in {"calling", "returned"} : Goes(n, from, "confirmed")
    BY <1>13 DEF Confirm
  <2>3. Moves(n, "confirmed", s0, "confirmed") /\ task[n] = from /\ mem'.status = mem.status
    BY <1>4, <2>1, <2>2
  <2>4. Works(n, "confirmed", s0, "confirmed")
    BY <2>1, <2>2, <2>3 DEF Works, s0
  <2> QED BY <1>1, <2>3, <2>4
<1>14. CASE Complete(n)
  <2>1. Sets(mem, mem', n, "completed", e0) /\ Save(mem') /\ calls' = calls
    BY <1>2, <1>14 DEF Complete
  <2>2. PICK from \in {"working", "confirmed"} :
          Goes(n, from, "done") /\ (from = "working" => Kind[n] = "pure")
    BY <1>14 DEF Complete
  <2>3. Moves(n, "done", "completed", e0) /\ task[n] = from /\ mem'.status = mem.status
    BY <1>4, <2>1, <2>2
  <2>4. Ends(n, "done", "completed", e0)
    BY <1>3, <2>1, <2>2, <2>3 DEF Ends, e0
  <2> QED BY <1>1, <2>3, <2>4
<1>15. CASE Retry(n)
  <2> DEFINE r1 == WithNode(mem, n, "pending")
  <2>1. /\ Goes(n, task[n], "stopped") /\ Save(mem') /\ calls' = calls
        /\ mem' = [r1 EXCEPT !.status = "queued"]
    BY <1>15 DEF Retry
  <2>2. Sets(mem, r1, n, "pending", e0) /\ "queued" \in Status
    BY <1>2 DEF Status
  <2> HIDE DEF r1
  <2>3. Moves(n, "stopped", "pending", e0) /\ mem'.status = "queued"
    BY <1>5, <2>1, <2>2
  <2>4. task[n] \in Under /\ n \notin Once
    BY <1>3, <1>15 DEF Retry, MayRetry, Thrown, Under
  <2>5. Ends(n, "stopped", "pending", e0)
    BY <2>1, <2>3, <2>4 DEF Ends, e0
  <2> QED BY <1>1, <2>3, <2>5
<1>16. CASE Abandon(n)
  <2>1. /\ Goes(n, task[n], "stopped") /\ mem' = mem /\ UNCHANGED <<store, calls>>
        /\ "leaseLost" \in active /\ task[n] \in Under \ {"started"}
    BY <1>16 DEF Abandon, Thrown, Under
  <2>2. Moves(n, "stopped", s0, e0) /\ mem'.status = mem.status
    BY <1>2, <1>4, <2>1
  <2>3. Tries(n, "stopped", s0, e0)
    BY <2>1, <2>2 DEF Tries, s0, e0
  <2> QED BY <1>1, <2>2, <2>3
<1>17. CASE Park(n)
  <2> DEFINE r1 == WithNode(mem, n, "pending")
             r2 == WithEffect(r1, n, "unknown")
  <2>1. /\ Goes(n, task[n], "stopped") /\ Save(mem') /\ calls' = calls
        /\ mem' = [r2 EXCEPT !.status = "paused"]
    BY <1>17 DEF Park
  <2>2. Sets(mem, r1, n, "pending", e0) /\ "paused" \in Status
    BY <1>2 DEF Status
  <2> HIDE DEF r1
  <2>3. r1 \in Record /\ r1.node[n] = "pending"
    BY <1>1, <2>2, SetsAt
  <2>4. Sets(r1, r2, n, "pending", "unknown")
    BY <2>3, StepSets
  <2> HIDE DEF r2
  <2>5. Sets(mem, r2, n, "pending", "unknown")
    BY <1>1, <2>2, <2>4, SetsThenSets
  <2>6. Moves(n, "stopped", "pending", "unknown") /\ mem'.status = "paused"
    BY <1>5, <2>1, <2>2, <2>5
  <2>7. task[n] \in Under
    BY <1>17 DEF Park, Thrown, Under
  <2>8. n \in Effectful
    <3>1. CASE mem.effect[n] \in Marked
      BY <3>1 DEF Journal, Marked
    <3>2. CASE Ambiguous(n)
      BY <3>2, <1>3 DEF Ambiguous, Once, Effectful
    <3> QED BY <1>17, <3>1, <3>2 DEF Park
  <2>9. Ends(n, "stopped", "pending", "unknown")
    BY <2>1, <2>6, <2>7, <2>8 DEF Ends
  <2> QED BY <2>6, <2>9
<1>18. CASE FailNode(n)
  <2> DEFINE r1 == Unmarked(n)
             r2(s) == WithNode(r1, n, s)
  <2>1. PICK s \in {"pending", "cancelled", "failed"}, t \in {"paused", "cancelled", "failed"} :
          mem' = [r2(s) EXCEPT !.status = t] /\ (t = "cancelled" => "cancelled" \in active)
    BY <1>18, Zenon DEF FailNode
  <2>2. /\ Goes(n, task[n], "stopped") /\ Save(mem') /\ calls' = calls
        /\ "leaseLost" \notin active /\ r1.effect[n] \notin Marked
    BY <1>18 DEF FailNode
  <2>3. PICK e \in EffectState :
          Sets(mem, r1, n, s0, e) /\ (e = e0 \/ (e = "none" /\ n \in Effectful \ Once))
    <3>1. CASE Refused(n)
      <4>1. n \in Effectful \ Once
        BY <1>3, <3>1 DEF Refused
      <4>2. r1 = WithEffect(mem, n, "none")
        BY <3>1 DEF Unmarked
      <4> QED BY <1>2, <4>1, <4>2
    <3>2. CASE ~Refused(n)
      <4>1. r1 = mem
        BY <3>2 DEF Unmarked
      <4> QED BY <1>1, <1>2, <4>1
    <3> QED BY <3>1, <3>2
  <2> HIDE DEF r1
  <2>4. r1 \in Record /\ r1.effect[n] = e
    BY <1>1, <2>3, SetsAt
  <2>5. s \in NodeStatus /\ t \in Status
    BY DEF Status
  <2>6. Sets(r1, r2(s), n, s, e)
    BY <2>4, <2>5, StepSets
  <2> HIDE DEF r2
  <2>7. Sets(mem, r2(s), n, s, e)
    BY <1>1, <2>3, <2>6, SetsThenSets
  <2>8. Moves(n, "stopped", s, e) /\ mem'.status = t
    BY <1>5, <2>1, <2>2, <2>5, <2>7
  <2>9. task[n] \in Under
    BY <1>18 DEF FailNode, Thrown, Under
  <2>10. Ends(n, "stopped", s, e)
    BY <2>1, <2>2, <2>3, <2>4, <2>8, <2>9 DEF Ends, e0
  <2> QED BY <2>5, <2>8, <2>10
<1> QED
  BY <1>7, <1>8, <1>9, <1>10, <1>11, <1>12, <1>13, <1>14, <1>15, <1>16, <1>17, <1>18
     DEF NodeStep
-----------------------------------------------------------------------------
(***************************************************************************)
(* The steps that write the record, seen in the graph.                     *)
(***************************************************************************)
\* The executor's saves reach the store while the run is running there.
LEMMA ExecutorWrites ==
  ASSUME IInv, Executing, NEW x \in Record, x.lease = mem.lease, Save(x)
  PROVE  /\ base' = rec /\ base = rec
         /\ rec.status = "running" => Same(x, rec')
         /\ rec.status # "running" => rec' = rec
<1>1. /\ rec' = Merge(rec, Synced(x)) /\ base' = rec /\ base = rec
  BY DEF Save, Mutate, Write, Written
<1>2. /\ rec \in Record /\ claims # 0 /\ mem.lease = claims
      /\ rec.status = "running" <=> rec.lease # 0
      /\ rec.lease \in {0, claims}
  BY DEF IInv, TypeOK, LeaseInv, Owned, Executing
<1>3. CASE rec.status = "running"
  BY <1>1, <1>2, <1>3, MergeSame
<1>4. CASE rec.status # "running"
  <2>1. Synced(x).lease = x.lease
    BY SyncedAlike DEF Alike
  <2> QED BY <1>1, <1>2, <1>4, <2>1, MergeStale
<1> QED BY <1>1, <1>3, <1>4

\* People write records at rest.
LEMMA PersonWritten ==
  ASSUME IInv, NEW x \in Record, x.lease = 0, rec.status # "running",
         Save(x) \/ Mutate(Merge(rec, x))
  PROVE  base' = rec /\ base = rec /\ Same(x, rec')
<1>1. rec \in Record /\ rec.lease = 0
  BY DEF IInv, TypeOK, LeaseInv, Owned
<1>2. base' = rec /\ base = rec
  BY DEF Save, Mutate, Write, Written
<1>3. CASE Save(x)
  BY <1>1, <1>2, <1>3, MergeSame DEF Save, Mutate, Write
<1>4. CASE Mutate(Merge(rec, x))
  <2>1. Same(x, Merge(rec, x))
    BY <1>1 DEF Merge, Same, Record
  <2> QED BY <1>2, <1>4, <2>1 DEF Mutate, Write
<1> QED BY <1>2, <1>3, <1>4

\* A record with the same graph is as sound.
LEMMA GraphSame ==
  ASSUME NEW r, NEW q, Same(r, q), GraphOf(r)
  PROVE  GraphOf(q)
BY JournalSame, StandsSame DEF Same, GraphOf

\* So is one whose status makes no claim.
LEMMA GraphAtRest ==
  ASSUME NEW r, NEW q, q.node = r.node, q.effect = r.effect, Journal(r),
         q.status \in {"paused", "failed", "completed", "cancelled"}
  PROVE  GraphOf(q)
BY JournalSame DEF GraphOf, Stands

\* The blank record.
LEMMA GraphNew == GraphOf(NewRecord)
BY DEF GraphOf, Journal, Stands, NewRecord, Begun, AllGoing, Going

\* A step beside the execution.
LEMMA GraphBeside ==
  ASSUME GraphInv, GraphOf(rec'), GraphOf(base'), GraphOf(copy'),
         UNCHANGED <<worker, mem, task>>, Executing /\ rec'.status = "running" => rec.status = "running"
  PROVE  GraphInv'
BY DEF GraphInv, GraphOf, Executing, Live, Ended, TasksInv

\* A step that leaves no execution behind.
LEMMA GraphLeft ==
  ASSUME GraphInv, GraphOf(rec'), GraphOf(base'), GraphOf(copy'),
         mem' \in {mem, NewRecord}, worker' \in {"idle", "claimed"}
  PROVE  GraphInv'
BY GraphNew DEF GraphInv, GraphOf, Executing, Live, TasksInv

\* Claiming the run and giving it back.
LEMMA ClaimGraph ==
  ASSUME IInv, GraphInv, Claim \/ HandBack \/ Release \/ Crash PROVE GraphInv'
<1>1. GraphOf(rec) /\ GraphOf(base) /\ GraphOf(copy) /\ rec \in Record
  BY DEF GraphInv, IInv, TypeOK
<1>2. CASE Claim
  <2> DEFINE q == [rec EXCEPT !.status = "running", !.lease = claims + 1]
  <2>1. /\ rec' = q /\ base' = rec /\ copy' = copy /\ mem' = mem
        /\ worker' = "claimed" /\ rec.status = "queued"
    BY <1>2 DEF Claim, Mutate, Write, executor, people
  <2>2. q.node = rec.node /\ q.effect = rec.effect /\ q.status = "running"
    BY <1>1 DEF Record
  <2> HIDE DEF q
  <2>3. GraphOf(q)
    BY <1>1, <2>1, <2>2 DEF GraphOf, Journal, Begun, Stands, AllGoing
  <2> QED BY <1>1, <2>1, <2>3, GraphLeft
<1>3. CASE HandBack \/ Release
  <2>1. PICK recover \in BOOLEAN : rec' = Released(rec, recover) /\ base' = rec
    <3>1. CASE HandBack
      BY <3>1 DEF HandBack, Mutate, Write
    <3>2. CASE Release
      <4> DEFINE lost == "leaseLost" \in active
      <4>1. lost \in BOOLEAN /\ rec' = Released(rec, lost) /\ base' = rec
        BY <3>2 DEF Release, Mutate, Write
      <4> HIDE DEF lost
      <4> QED BY <4>1
    <3> QED BY <1>3, <3>1, <3>2
  <2>2. copy' = copy /\ mem' \in {mem, NewRecord} /\ worker' = "idle"
    BY <1>3 DEF HandBack, Release, executor, people
  <2>3. GraphOf(rec')
    BY <1>1, <2>1, ReleasedGraph DEF GraphOf
  <2> QED BY <1>1, <2>1, <2>2, <2>3, GraphLeft
<1>4. CASE Crash
  <2>1. rec' \in {rec, base} /\ base' \in {rec, base} /\ copy' = NewRecord /\ mem' = NewRecord /\ worker' = "idle"
    BY <1>4 DEF Crash
  <2> QED BY <1>1, <2>1, GraphNew, GraphLeft
<1> QED BY <1>2, <1>3, <1>4

\* Reading the record an execution works on.
LEMMA BeginGraph == ASSUME IInv, GraphInv, Begin PROVE GraphInv'
<1> DEFINE s == IF base.cancel = "requested" THEN "cancelled" ELSE "running"
           m == [base EXCEPT !.status = s]
<1>1. /\ UNCHANGED <<rec, base, copy>> /\ worker' = "starting" /\ mem' = m
      /\ base.lease = claims /\ worker = "claimed"
  BY DEF Begin, store, people
<1>2. base \in Record /\ base.status = "running"
  BY <1>1 DEF IInv, TypeOK, LeaseInv, Owned
<1>3. m.node = base.node /\ m.effect = base.effect /\ m.status = s
  BY <1>2 DEF Record
<1> HIDE DEF m
<1>4. Journal(m) /\ AllGoing(m) /\ m.status \in {"running", "cancelled"}
  BY <1>2, <1>3, JournalSame DEF GraphInv, GraphOf, Stands, AllGoing
<1> QED BY <1>1, <1>4 DEF GraphInv, GraphOf, TasksInv

\* A completed run that cannot be noted is failed as it is.
LEMMA NoteFailsIs ==
  ASSUME IInv, NoteFails
  PROVE  /\ base = rec /\ base' = rec /\ rec'.status = "failed"
         /\ rec'.node = rec.node /\ rec'.effect = rec.effect /\ rec'.cancel = rec.cancel
         /\ worker = "noting" /\ worker' = "ending"
         /\ UNCHANGED <<service, executor, people, ghosts>>
<1> DEFINE x == [base EXCEPT !.status = "failed"]
<1>1. /\ base = rec /\ base' = rec /\ rec \in Record /\ rec' = Merge(rec, Synced(x))
      /\ worker = "noting" /\ worker' = "ending"
      /\ UNCHANGED <<service, executor, people, ghosts>>
  BY DEF NoteFails, Save, Mutate, Write, Written, IInv, TypeOK
<1>2. /\ x \in Record /\ x.node = rec.node /\ x.effect = rec.effect /\ x.status = "failed"
      /\ x.lease = rec.lease /\ x.cancel = rec.cancel
  BY <1>1 DEF Record, Status
<1> HIDE DEF x
<1>3. Same(x, rec')
  BY <1>1, <1>2, MergeSame
<1>4. rec'.cancel = rec.cancel
  BY <1>1, <1>2 DEF Merge, Synced, Record
<1> QED BY <1>1, <1>2, <1>3, <1>4 DEF Same

\* The executor's own saves, outside the rounds.
LEMMA ExecutorGraph ==
  ASSUME IInv, GraphInv, SaveBegin \/ Stuck \/ Finish PROVE GraphInv'
<1>1. mem \in Record /\ base \in Record /\ rec \in Record /\ Executing /\ copy' = copy
      /\ worker \in {"starting", "rounds"}
  BY DEF IInv, TypeOK, SaveBegin, Stuck, Finish, Executing, people
<1>2. CASE SaveBegin
  <2>1. Save(mem) /\ mem' = mem /\ worker = "starting" /\ worker' \in {"rounds", "ending"}
    BY <1>2 DEF SaveBegin, executor
  <2>2. AllGoing(mem) /\ mem.status \in {"running", "cancelled"}
    BY <1>1, <2>1 DEF GraphInv, Live
  <2>3. GraphOf(mem)
    BY <2>2 DEF GraphInv, GraphOf, Stands
  <2>4. base' = rec /\ (Same(mem, rec') \/ rec' = rec)
    BY <1>1, <2>1, ExecutorWrites
  <2>5. GraphOf(rec')
    BY <2>3, <2>4, GraphSame DEF GraphInv
  <2> QED BY <1>1, <2>1, <2>2, <2>4, <2>5 DEF GraphInv, TasksInv
<1>3. CASE Stuck
  <2> DEFINE x == [base EXCEPT !.status = "failed"]
  <2>1. Save(x) /\ mem' = mem /\ worker' = "ending" /\ base = rec /\ base' = rec
    BY <1>3 DEF Stuck, executor, Save, Mutate, Write, Written
  <2>2. x \in Record /\ x.node = rec.node /\ x.effect = rec.effect /\ x.status = "failed"
        /\ x.lease = rec.lease
    BY <1>1, <2>1 DEF Record, Status
  <2> HIDE DEF x
  <2>3. Same(x, rec')
    BY <1>1, <2>1, <2>2, MergeSame DEF Save, Mutate, Write
  <2>4. rec'.node = rec.node /\ rec'.effect = rec.effect /\ rec'.status = "failed"
    BY <2>2, <2>3 DEF Same
  <2>5. GraphOf(rec')
    BY <2>4, GraphAtRest DEF GraphInv, GraphOf
  <2> QED BY <1>1, <2>1, <2>4, <2>5 DEF GraphInv, TasksInv, Live
<1>4. CASE Finish
  <2>1. Save(mem') /\ mem' = [mem EXCEPT !.status = Verdict] /\ worker' \in {"noting", "ending"}
    BY <1>4 DEF Finish
  <2>2. Verdict \in {"paused", "failed", "completed", "cancelled"}
    BY DEF Verdict
  <2>3. /\ mem' \in Record /\ mem'.node = mem.node /\ mem'.effect = mem.effect
        /\ mem'.lease = mem.lease /\ mem'.status = Verdict
    <3> DEFINE t == Verdict
    <3>1. t \in Status
      BY <2>2 DEF Status
    <3>2. mem' = [mem EXCEPT !.status = t]
      BY <2>1
    <3> HIDE DEF t
    <3>3. /\ mem' \in Record /\ mem'.node = mem.node /\ mem'.effect = mem.effect
          /\ mem'.lease = mem.lease /\ mem'.status = t
      BY <1>1, <3>1, <3>2 DEF Record
    <3> QED BY <3>3 DEF t
  <2>4. GraphOf(mem')
    BY <2>2, <2>3, GraphAtRest DEF GraphInv
  <2>5. base' = rec /\ (Same(mem', rec') \/ (rec' = rec /\ rec.status # "running"))
    BY <1>1, <2>1, <2>3, ExecutorWrites
  <2>6. GraphOf(rec') /\ rec'.status # "running"
    BY <2>2, <2>3, <2>4, <2>5, GraphSame DEF GraphInv, Same
  <2> QED BY <1>1, <2>1, <2>4, <2>5, <2>6 DEF GraphInv, TasksInv, Live, GraphOf
<1> QED BY <1>2, <1>3, <1>4
\* A round starts the nodes whose turn has come.
LEMMA RoundIs ==
  ASSUME IInv, Round
  PROVE  /\ worker = "rounds" /\ worker' = "joining" /\ todo' = todo \ Ready
         /\ UNCHANGED <<rec, base, copy, service, active, canceller, claims, calls, faults, stops>>
         /\ mem \in Record /\ mem' \in Record /\ mem'.effect = mem.effect
         /\ mem'.status = mem.status /\ mem'.lease = mem.lease
         /\ \A n \in Node : mem'.node[n] = IF n \in Ready THEN "running" ELSE mem.node[n]
         /\ task' = [n \in Node |-> IF n \in Ready THEN "started" ELSE "idle"]
<1> DEFINE f == [n \in Node |-> IF n \in Ready THEN "running" ELSE mem.node[n]]
           m == [mem EXCEPT !.node = f]
<1>1. mem \in Record /\ f \in [Node -> NodeStatus]
  BY DEF IInv, TypeOK, Record, NodeStatus
<1>2. mem' = m
  BY DEF Round
<1>3. \A n \in Node : f[n] = IF n \in Ready THEN "running" ELSE mem.node[n]
  OBVIOUS
<1> HIDE DEF f
<1>4. m \in Record /\ m.effect = mem.effect /\ m.status = mem.status
      /\ m.lease = mem.lease /\ m.node = f
  BY <1>1 DEF Record
<1> HIDE DEF m
<1>5. \A n \in Node : mem'.node[n] = IF n \in Ready THEN "running" ELSE mem.node[n]
  BY <1>2, <1>3, <1>4
<1> QED BY <1>1, <1>2, <1>4, <1>5 DEF Round, store, people, ghosts

\* It keeps to the graph.
LEMMA RoundGraph == ASSUME IInv, GraphInv, Round PROVE GraphInv'
<1>1. /\ worker = "rounds" /\ worker' = "joining"
      /\ UNCHANGED <<rec, base, copy>> /\ mem'.effect = mem.effect /\ mem'.status = mem.status
      /\ \A n \in Node : mem'.node[n] = IF n \in Ready THEN "running" ELSE mem.node[n]
      /\ task' = [n \in Node |-> IF n \in Ready THEN "started" ELSE "idle"]
  BY RoundIs
<1>2. AllGoing(mem) /\ mem.status \in {"running", "cancelled"} /\ Journal(mem)
  BY <1>1 DEF GraphInv, Live, Executing
<1>3. \A n \in Node : n \in Ready => mem.node[n] = "pending" /\ \A d \in Deps[n] : mem.node[d] = "completed"
  BY <1>2, DepsAssumption DEF Ready, AllGoing, Going, TerminalNode
<1>4. \A n \in Node : mem.node[n] = "completed" <=> mem'.node[n] = "completed"
  BY <1>1, <1>3
<1>5. \A n \in Node : \A d \in Deps[n] : d \in Node
  BY DepsAssumption
<1>6. Journal(mem')
  <2> SUFFICES ASSUME NEW n \in Node
               PROVE  /\ mem'.node[n] = "completed" => mem'.effect[n] \in {"undefined", "none", "confirmed"}
                      /\ n \notin Effectful => mem'.effect[n] = "undefined"
                      /\ Begun(mem', n) => \A d \in Deps[n] : mem'.node[d] = "completed"
    BY DEF Journal
  <2>1. Begun(mem', n) => \A d \in Deps[n] : mem.node[d] = "completed"
    BY <1>1, <1>2, <1>3 DEF Journal, Begun
  <2> QED BY <1>1, <1>2, <1>4, <1>5, <2>1 DEF Journal
<1>7. AllGoing(mem') /\ mem'.status \in {"running", "cancelled"}
  BY <1>1, <1>2 DEF AllGoing, Going
<1>8. TasksInv'
  BY <1>1 DEF TasksInv, Under
<1> QED BY <1>1, <1>6, <1>7, <1>8 DEF GraphInv

\* A step of a node is of a node under way, and the store sees what it saves
\* while the run is running there.
LEMMA MovesFrom ==
  ASSUME IInv, GraphInv, NEW n \in Node, NEW to, NEW s, NEW e,
         Moves(n, to, s, e), Tries(n, to, s, e) \/ Works(n, to, s, e) \/ Ends(n, to, s, e)
  PROVE  /\ task[n] \in Under /\ mem.node[n] = "running"
         /\ mem.node \in [Node -> NodeStatus] /\ mem.effect \in [Node -> EffectState]
         /\ base' \in {rec, base}
         /\ Tries(n, to, s, e) => rec' = rec /\ base' = base
         /\ ~Tries(n, to, s, e) => base' = rec /\ base = rec
         /\ rec.status # "running" => rec' = rec
         /\ rec.status = "running" /\ ~Tries(n, to, s, e) => Same(mem', rec')
<1>1. task[n] \in Under
  BY DEF Tries, Works, Ends, Under
<1>2. mem.node[n] = "running" /\ Executing /\ mem \in Record
  BY <1>1 DEF GraphInv, TasksInv, Moves, Executing, IInv, TypeOK
<1>3. Tries(n, to, s, e) => rec' = rec /\ base' = base
  BY DEF Tries, store
<1>4. mem' \in Record /\ mem'.lease = mem.lease
  BY DEF Moves
<1>5. Save(mem') => /\ base' = rec /\ base = rec
                    /\ rec.status = "running" => Same(mem', rec')
                    /\ rec.status # "running" => rec' = rec
  BY <1>2, <1>4, ExecutorWrites
<1>6. Tries(n, to, s, e) \/ Save(mem')
  BY DEF Works, Ends
<1> QED BY <1>1, <1>2, <1>3, <1>5, <1>6 DEF Record

\* The steps of the nodes keep to the graph.
LEMMA MovesGraph ==
  ASSUME IInv, GraphInv, NEW n \in Node, NEW to, NEW s \in NodeStatus, NEW e \in EffectState,
         Moves(n, to, s, e), Tries(n, to, s, e) \/ Works(n, to, s, e) \/ Ends(n, to, s, e)
  PROVE  GraphInv'
<1>1. /\ task[n] \in Under /\ mem.node[n] = "running"
      /\ mem.node \in [Node -> NodeStatus] /\ mem.effect \in [Node -> EffectState]
      /\ base' \in {rec, base}
      /\ rec' = rec \/ (rec.status = "running" /\ Same(mem', rec'))
      /\ ~Tries(n, to, s, e) /\ rec.status = "running" => Same(mem', rec')
  BY MovesFrom
<1>2. /\ worker = "joining" /\ worker' = "joining" /\ copy' = copy
      /\ task' = [task EXCEPT ![n] = to] /\ task \in [Node -> TaskState]
      /\ mem'.node = [mem.node EXCEPT ![n] = s] /\ mem'.effect = [mem.effect EXCEPT ![n] = e]
  BY DEF Moves, IInv, TypeOK
<1>3. /\ mem'.node[n] = s /\ mem'.effect[n] = e /\ task'[n] = to
      /\ \A m \in Node \ {n} : /\ mem'.node[m] = mem.node[m] /\ mem'.effect[m] = mem.effect[m]
                               /\ task'[m] = task[m]
  BY <1>1, <1>2
<1>4. Journal(mem) /\ Begun(mem, n) /\ \A m \in Node : \A d \in Deps[m] : d \in Node
  BY <1>1, DepsAssumption DEF GraphInv, Begun
\* What the step writes about the node itself.
<1>5. /\ s = "completed" => e \in {"undefined", "none", "confirmed"} /\ to = "done"
      /\ n \notin Effectful => e = "undefined"
      /\ to \in Under => s = "running"
      /\ to = "confirmed" => e = "confirmed"
      /\ to = "done" => s = "completed"
  <2>1. n \notin Effectful => mem.effect[n] = "undefined"
    BY <1>4 DEF Journal
  <2>2. task[n] = "confirmed" => mem.effect[n] = "confirmed"
    BY <1>2 DEF GraphInv, TasksInv
  <2>3. CASE Tries(n, to, s, e)
    BY <1>1, <2>1, <2>3 DEF Tries
  <2>4. CASE Works(n, to, s, e)
    BY <1>1, <2>1, <2>4 DEF Works, Once, Effectful
  <2>5. CASE Ends(n, to, s, e)
    BY <1>1, <2>1, <2>2, <2>5 DEF Ends, Under
  <2> QED BY <2>3, <2>4, <2>5
<1>6. Journal(mem')
  <2> SUFFICES ASSUME NEW m \in Node
               PROVE  /\ mem'.node[m] = "completed" => mem'.effect[m] \in {"undefined", "none", "confirmed"}
                      /\ m \notin Effectful => mem'.effect[m] = "undefined"
                      /\ Begun(mem', m) => \A d \in Deps[m] : mem'.node[d] = "completed"
    BY DEF Journal
  <2>1. Begun(mem', m) => Begun(mem, m)
    BY <1>3, <1>4 DEF Begun
  <2>2. Begun(mem', m) => \A d \in Deps[m] : mem'.node[d] = "completed"
    <3>1. Begun(mem, m) => \A d \in Deps[m] : mem.node[d] = "completed" /\ d # n
      BY <1>1, <1>4 DEF Journal
    <3> QED BY <1>3, <1>4, <2>1, <3>1
  <2> QED BY <1>3, <1>4, <1>5, <2>2 DEF Journal
<1>7. TasksInv'
  <2> SUFFICES ASSUME NEW m \in Node
               PROVE  /\ task'[m] \in Under => mem'.node[m] = "running"
                      /\ task'[m] = "confirmed" => mem'.effect[m] = "confirmed"
                      /\ task'[m] = "done" => mem'.node[m] = "completed"
    BY DEF TasksInv
  <2> QED BY <1>2, <1>3, <1>5 DEF GraphInv, TasksInv
\* What it leaves of a run that goes on.
<1>8. rec.status = "running" \/ Live => AllGoing(mem) /\ mem.status \in {"running", "cancelled"}
  BY <1>2 DEF GraphInv, Executing
<1>9. Live' => Live /\ to \notin {"waiting", "stopped"}
  BY <1>1, <1>2, <1>3 DEF Live, Ended, Under
<1>10. \/ s \in Going /\ mem'.status = mem.status
       \/ /\ s = "pending" /\ to = "waiting" /\ mem'.status = "waiting-approval" /\ mem'.wait = n
          /\ Kind[n] = "approval" /\ ~Tries(n, to, s, e)
       \/ s = "pending" /\ to = "stopped" /\ mem'.status = "queued" /\ ~Tries(n, to, s, e)
       \/ to = "stopped" /\ mem'.status \in {"paused", "failed", "cancelled"} /\ ~Tries(n, to, s, e)
  <2>1. CASE Tries(n, to, s, e)
    BY <1>1, <2>1 DEF Tries, Going
  <2>2. CASE Works(n, to, s, e) /\ ~Tries(n, to, s, e)
    BY <1>1, <2>2 DEF Works, Going
  <2>3. CASE Ends(n, to, s, e) /\ ~Tries(n, to, s, e)
    BY <2>3 DEF Ends, Going
  <2> QED BY <2>1, <2>2, <2>3
<1>11. AllGoing(mem) /\ s \in Going => AllGoing(mem')
  BY <1>3 DEF AllGoing
<1>12. rec'.status = "running" \/ Live' => AllGoing(mem') /\ mem'.status \in {"running", "cancelled"}
  <2>1. CASE Live'
    BY <1>8, <1>9, <1>10, <1>11, <2>1
  <2>2. CASE rec'.status = "running"
    <3>1. rec.status = "running" /\ (mem'.status = rec'.status \/ Tries(n, to, s, e))
      BY <1>1, <2>2 DEF Same
    <3> QED BY <1>8, <1>10, <1>11, <2>2, <3>1
  <2> QED BY <2>1, <2>2
<1>13. rec.status = "running" /\ ~Tries(n, to, s, e) => GraphOf(mem')
  <2> SUFFICES ASSUME rec.status = "running", ~Tries(n, to, s, e) PROVE Stands(mem')
    BY <1>6 DEF GraphOf
  <2>1. AllGoing(mem) /\ mem.status \in {"running", "cancelled"}
    BY <1>8
  <2>2. \A d \in Deps[n] : mem'.node[d] = "completed"
    BY <1>1, <1>3, <1>4 DEF Journal
  <2>3. AllGoing(mem') \/ mem'.status \in {"paused", "failed", "cancelled"}
    BY <1>10, <1>11, <2>1 DEF Going
  <2> QED BY <1>3, <1>10, <2>1, <2>2, <2>3 DEF Stands
<1>14. GraphOf(rec')
  BY <1>1, <1>13, GraphSame DEF GraphInv, Tries, store
<1> QED BY <1>1, <1>2, <1>6, <1>7, <1>12, <1>14 DEF GraphInv, GraphOf, Executing
\* The service's own steps keep to the graph.
LEMMA ServiceGraph ==
  ASSUME IInv, GraphInv, Flush \/ StopStep \/ Boot \/ CancelAborts \/ LoseLease \/ Stop
  PROVE  GraphInv'
<1>1. GraphOf(rec) /\ GraphOf(base) /\ GraphOf(copy) /\ rec \in Record /\ copy \in Record
      /\ base \in Record
  BY DEF GraphInv, IInv, TypeOK
<1>2. CASE Flush \/ Stopped \/ CancelAborts \/ LoseLease \/ Stop
  <2>1. /\ rec' = rec /\ base' \in {rec, base} /\ UNCHANGED <<copy, worker, mem, task>>
    BY <1>2 DEF Flush, Stopped, CancelAborts, LoseLease, Stop, store, executor, people
  <2> QED BY <1>1, <2>1, GraphBeside
<1>3. CASE StopReads
  <2> DEFINE q == [base EXCEPT !.status = "paused"]
  <2>1. /\ UNCHANGED <<rec, base, worker, mem, task>>
        /\ copy' \in {q, NewRecord}
    BY <1>3 DEF StopReads, store, executor
  <2>2. q.node = base.node /\ q.effect = base.effect /\ q.status = "paused"
    BY <1>1 DEF Record
  <2> HIDE DEF q
  <2>3. GraphOf(q)
    BY <1>1, <2>2, GraphAtRest DEF GraphOf
  <2> QED BY <1>1, <2>1, <2>3, GraphNew, GraphBeside
<1>4. CASE StopPauses
  <2>1. /\ rec' = Merge(rec, Synced(copy)) /\ base' = rec /\ copy' = NewRecord
        /\ UNCHANGED <<worker, mem, task>>
    BY <1>4 DEF StopPauses, Write, executor
  <2>2. rec' = rec \/ Same(copy, rec')
    <3>1. CASE rec.lease = copy.lease
      BY <1>1, <2>1, <3>1, MergeSame
    <3>2. CASE rec.lease # copy.lease
      BY <1>1, <2>1, <3>2, MergeStale, SyncedAlike DEF Alike
    <3> QED BY <3>1, <3>2
  <2>3. GraphOf(rec') /\ (rec'.status = "running" => rec.status = "running")
    BY <1>1, <2>2, GraphSame DEF IInv, LeaseInv, Same
  <2> QED BY <1>1, <2>1, <2>3, GraphNew, GraphBeside
<1>5. CASE Boot
  <2>1. rec' = Recovered(rec) /\ base' = rec /\ UNCHANGED <<copy, worker, mem, task>>
    BY <1>5 DEF Boot, Mutate, Write, executor, people
  <2>2. GraphOf(rec')
    BY <1>1, <2>1, RecoveredGraph DEF GraphOf
  <2>3. rec'.status # "running"
    BY <1>1, <2>1, RecoveredFacts DEF IInv, LeaseInv, Owned
  <2> QED BY <1>1, <2>1, <2>2, <2>3, GraphBeside
<1> QED BY <1>2, <1>3, <1>4, <1>5 DEF StopStep

\* The records people ask for: approved, rejected, resumed ...
Decided(s) == [WithNode(rec, rec.wait, s) EXCEPT !.wait = NoNode]
Resumed == [rec EXCEPT !.node = [n \in Node |->
              IF rec.node[n] \in {"failed", "running", "cancelled"}
              THEN "pending" ELSE rec.node[n]]]
\* ... and with an uncertain effect cleared.
Cleared(n) == WithEffect(WithNode(rec, n, "pending"), n, "none")

\* What these records hold.
LEMMA DecidedIs ==
  ASSUME rec \in Record, rec.wait \in Node, NEW s \in NodeStatus
  PROVE  /\ Decided(s) \in Record /\ Decided(s).lease = rec.lease
         /\ Decided(s).effect = rec.effect
         /\ Decided(s).node = [rec.node EXCEPT ![rec.wait] = s]
BY DEF Decided, WithNode, Record

\* Queueing a record leaves its graph alone.
LEMMA PreparedIs ==
  ASSUME NEW r \in Record
  PROVE  /\ Prepared(r) \in Record /\ Prepared(r).status = "queued" /\ Prepared(r).lease = 0
         /\ Prepared(r).node = r.node /\ Prepared(r).effect = r.effect
<1>1. Prepared(r) \in Record
  BY PreparedFacts
<1> QED BY <1>1 DEF Prepared, Record

\* The resumed record has only completed and pending nodes.
LEMMA ResumedIs ==
  ASSUME rec \in Record
  PROVE  /\ Resumed \in Record /\ Resumed.effect = rec.effect
         /\ \A n \in Node : Resumed.node[n] = IF rec.node[n] = "completed"
                                             THEN "completed" ELSE "pending"
<1> DEFINE f == [n \in Node |-> IF rec.node[n] \in {"failed", "running", "cancelled"}
                                THEN "pending" ELSE rec.node[n]]
<1>1. f \in [Node -> NodeStatus]
  BY DEF Record, NodeStatus
<1>2. \A n \in Node : f[n] = IF rec.node[n] = "completed" THEN "completed" ELSE "pending"
  BY DEF Record, NodeStatus
<1>3. Resumed = [rec EXCEPT !.node = f]
  BY DEF Resumed
<1> HIDE DEF f
<1>4. Resumed \in Record /\ Resumed.node = f /\ Resumed.effect = rec.effect
  BY <1>1, <1>3 DEF Record
<1> QED BY <1>2, <1>4

\* A cleared effect leaves the rest as it is, or as safe to start again.
LEMMA ClearedIs ==
  ASSUME rec \in Record, NEW n \in Node
  PROVE  /\ Sets(rec, Cleared(n), n, "pending", "none")
         /\ LET r == SafeNodesReset(Cleared(n))
            IN  /\ r \in Record /\ r.effect = Cleared(n).effect
                /\ \A m \in Node : r.node[m] =
                     IF /\ Cleared(n).node[m] \in {"running", "failed", "cancelled"}
                        /\ Cleared(n).effect[m] \in {"undefined", "none"}
                     THEN "pending" ELSE Cleared(n).node[m]
<1> DEFINE r1 == WithNode(rec, n, "pending")
           c == Cleared(n)
           f == [m \in Node |-> IF /\ c.node[m] \in {"running", "failed", "cancelled"}
                                   /\ c.effect[m] \in {"undefined", "none"}
                                THEN "pending" ELSE c.node[m]]
<1>1. Sets(rec, r1, n, "pending", rec.effect[n])
  BY StepSets DEF NodeStatus
<1>2. r1 \in Record /\ r1.node[n] = "pending"
  <2> HIDE DEF r1
  <2> QED BY <1>1, SetsAt
<1>3. Sets(r1, WithEffect(r1, n, "none"), n, "pending", "none")
  <2> HIDE DEF r1
  <2> QED BY <1>2, StepSets DEF EffectState
<1>4. c = WithEffect(r1, n, "none")
  BY DEF Cleared
<1> HIDE DEF r1
<1>5. Sets(rec, c, n, "pending", "none")
  BY <1>1, <1>3, <1>4, SetsThenSets
<1> HIDE DEF c
<1>6. c \in Record
  BY <1>5 DEF Sets
<1>7. f \in [Node -> NodeStatus]
  BY <1>6 DEF Record, NodeStatus
<1>8. SafeNodesReset(c) = [c EXCEPT !.node = f]
  BY DEF SafeNodesReset
<1>9. \A m \in Node : f[m] = IF /\ c.node[m] \in {"running", "failed", "cancelled"}
                                /\ c.effect[m] \in {"undefined", "none"}
                             THEN "pending" ELSE c.node[m]
  OBVIOUS
<1> HIDE DEF f
<1>10. /\ SafeNodesReset(c) \in Record /\ SafeNodesReset(c).effect = c.effect
       /\ SafeNodesReset(c).node = f
  BY <1>6, <1>7, <1>8 DEF Record
<1> QED BY <1>5, <1>9, <1>10 DEF c

\* A person's command that saves a record with a sound graph.
LEMMA PersonGraph ==
  ASSUME IInv, GraphInv, NEW x \in Record, x.lease = 0, rec.status # "running",
         Save(x) \/ Mutate(Merge(rec, x)), x.status # "running", GraphOf(x),
         UNCHANGED <<service, worker, executor, people>>
  PROVE  GraphInv'
<1>1. base' = rec /\ Same(x, rec') /\ UNCHANGED <<worker, mem, task, copy>>
  BY PersonWritten DEF executor, people
<1>2. GraphOf(rec') /\ rec'.status # "running"
  BY <1>1, GraphSame DEF Same
<1> QED BY <1>1, <1>2, GraphBeside DEF GraphInv

\* A decision about the node that waits.
LEMMA DecisionGraph == ASSUME IInv, GraphInv, Approve \/ Reject PROVE GraphInv'
<1>1. /\ rec \in Record /\ rec.status = "waiting-approval" /\ rec.lease = 0
      /\ UNCHANGED <<service, worker, executor, people>>
  BY DEF IInv, TypeOK, LeaseInv, Owned, Approve, Reject
<1>2. /\ Journal(rec) /\ AllGoing(rec) /\ rec.wait \in Node /\ rec.wait \notin Effectful
      /\ rec.node[rec.wait] = "pending" /\ \A d \in Deps[rec.wait] : rec.node[d] = "completed"
  BY <1>1 DEF GraphInv, GraphOf, Stands, Effectful
<1>3. ASSUME NEW s \in {"completed", "failed"}, NEW r, r.effect = rec.effect,
             r.node = [rec.node EXCEPT ![rec.wait] = s]
      PROVE  Journal(r) /\ (s = "completed" => AllGoing(r))
  <2>1. rec.node \in [Node -> NodeStatus]
    BY <1>1 DEF Record
  <2>2. \A n \in Node : r.node[n] = IF n = rec.wait THEN s ELSE rec.node[n]
    BY <1>2, <1>3, <2>1
  <2>3. ASSUME NEW n \in Node
        PROVE  /\ r.node[n] = "completed" => r.effect[n] \in {"undefined", "none", "confirmed"}
               /\ n \notin Effectful => r.effect[n] = "undefined"
               /\ Begun(r, n) => \A d \in Deps[n] : r.node[d] = "completed"
    <3>1. \A d \in Deps[n] : d \in Node
      BY DepsAssumption
    <3>2. Begun(r, n) => \A d \in Deps[n] : rec.node[d] = "completed"
      BY <1>2, <1>3, <2>2 DEF Begun, Journal
    <3> QED BY <1>2, <1>3, <2>2, <3>1, <3>2 DEF Journal
  <2> QED BY <1>2, <2>2, <2>3 DEF Journal, AllGoing, Going
<1>4. CASE Approve
  <2> DEFINE d == Decided("completed")
             x == Prepared(d)
  <2>1. Save(x)
    BY <1>4 DEF Approve, Decided
  <2>2. d \in Record /\ d.effect = rec.effect /\ d.node = [rec.node EXCEPT ![rec.wait] = "completed"]
    BY <1>1, <1>2, DecidedIs DEF NodeStatus
  <2> HIDE DEF d
  <2>3. x \in Record /\ x.status = "queued" /\ x.lease = 0 /\ x.node = d.node /\ x.effect = d.effect
    BY <2>2, PreparedIs
  <2> HIDE DEF x
  <2>4. GraphOf(x)
    BY <1>3, <2>2, <2>3 DEF GraphOf, Stands
  <2> QED BY <1>1, <2>1, <2>3, <2>4, PersonGraph
<1>5. CASE Reject
  <2> DEFINE d == Decided("failed")
             x == [d EXCEPT !.status = "failed"]
  <2>1. Save(x)
    BY <1>5 DEF Reject, Decided
  <2>2. /\ d \in Record /\ d.effect = rec.effect /\ d.lease = rec.lease
        /\ d.node = [rec.node EXCEPT ![rec.wait] = "failed"]
    BY <1>1, <1>2, DecidedIs DEF NodeStatus
  <2> HIDE DEF d
  <2>3. /\ x \in Record /\ x.status = "failed" /\ x.lease = d.lease
        /\ x.node = d.node /\ x.effect = d.effect
    BY <2>2, WithStatusIs DEF Status
  <2> HIDE DEF x
  <2>4. GraphOf(x)
    BY <1>3, <2>2, <2>3 DEF GraphOf, Stands
  <2> QED BY <1>1, <2>1, <2>2, <2>3, <2>4, PersonGraph
<1> QED BY <1>4, <1>5

\* Resuming.
LEMMA ResumeGraph == ASSUME IInv, GraphInv, Resume PROVE GraphInv'
<1> DEFINE x == Prepared(Resumed)
<1>1. /\ rec \in Record /\ rec.status \in {"paused", "failed"} /\ Mutate(Merge(rec, x))
      /\ UNCHANGED <<service, worker, executor, people>>
  BY DEF IInv, TypeOK, Resume, SafeToResume, Resumed
<1>2. /\ Resumed \in Record /\ Resumed.effect = rec.effect
      /\ \A n \in Node : Resumed.node[n] = IF rec.node[n] = "completed"
                                          THEN "completed" ELSE "pending"
  BY <1>1, ResumedIs
<1>3. x \in Record /\ x.status = "queued" /\ x.lease = 0 /\ x.node = Resumed.node
      /\ x.effect = rec.effect
  BY <1>2, PreparedIs
<1> HIDE DEF x
<1>4. Journal(rec) /\ \A n \in Node : \A d \in Deps[n] : d \in Node
  BY DepsAssumption DEF GraphInv, GraphOf
<1>5. Journal(x)
  <2> SUFFICES ASSUME NEW n \in Node
               PROVE  /\ x.node[n] = "completed" => x.effect[n] \in {"undefined", "none", "confirmed"}
                      /\ n \notin Effectful => x.effect[n] = "undefined"
                      /\ Begun(x, n) => \A d \in Deps[n] : x.node[d] = "completed"
    BY DEF Journal
  <2>1. Begun(x, n) => Begun(rec, n)
    BY <1>2, <1>3 DEF Begun
  <2> QED BY <1>2, <1>3, <1>4, <2>1 DEF Journal
<1>6. GraphOf(x)
  BY <1>2, <1>3, <1>5 DEF GraphOf, Stands, AllGoing, Going
<1> QED BY <1>1, <1>3, <1>6, PersonGraph
\* The records a reconciliation saves.
LEMMA ReconciledIs ==
  ASSUME IInv, NEW n \in Node, ReconcileDispatched(n) \/ ReconcileNotDispatched(n)
  PROVE  /\ rec \in Record /\ rec.lease = 0 /\ rec.effect[n] = "unknown"
         /\ rec.status \in {"paused", "failed", "cancelled"} /\ Commands /\ ~Busy
         /\ UNCHANGED <<service, worker, executor, people>>
         /\ \/ \E x \in Record :
                 /\ Save(x) /\ x.lease = 0 /\ (x.cancel = "requested" => rec.cancel = "requested")
                 /\ x.status = IF rec.status = "cancelled" THEN "cancelled" ELSE "failed"
                 /\ x.node = [rec.node EXCEPT ![n] = "failed"]
                 /\ x.effect = [rec.effect EXCEPT ![n] = "confirmed"]
                 /\ calls' = calls
            \/ \E x \in Record :
                 /\ Save(x) /\ x.lease = 0 /\ (x.cancel = "requested" => rec.cancel = "requested")
                 /\ x.effect = [rec.effect EXCEPT ![n] = "none"]
                 /\ calls' = [calls EXCEPT ![n] = 0]
                 /\ x.status = "cancelled" <=> rec.status = "cancelled"
                 /\ \/ /\ x.status \in {"paused", "cancelled"}
                       /\ x.node = [rec.node EXCEPT ![n] = "pending"]
                    \/ /\ x.status = "queued" /\ ~SomeUncertain(x)
                       /\ \A m \in Node : x.node[m] =
                            IF rec.node[m] = "completed" /\ m # n THEN "completed" ELSE "pending"
<1> DEFINE clear == Cleared(n)
<1>1. /\ rec \in Record /\ rec.lease = 0 /\ rec.effect[n] = "unknown"
      /\ rec.status \in {"paused", "failed", "cancelled"} /\ Commands /\ ~Busy
      /\ UNCHANGED <<service, worker, executor, people>>
  BY DEF IInv, TypeOK, LeaseInv, Owned, ReconcileDispatched, ReconcileNotDispatched, Reconcilable
<1>2. CASE ReconcileDispatched(n)
  <2> DEFINE s == IF rec.status = "cancelled" THEN "cancelled" ELSE "failed"
             r1 == WithNode(rec, n, "failed")
             r2 == WithEffect(r1, n, "confirmed")
             x == [r2 EXCEPT !.status = s]
  <2>1. Sets(rec, r1, n, "failed", rec.effect[n])
    BY <1>1, StepSets DEF NodeStatus
  <2>2. r1 \in Record /\ r1.node[n] = "failed"
    <3> HIDE DEF r1
    <3> QED BY <1>1, <2>1, SetsAt
  <2>3. Sets(r1, r2, n, "failed", "confirmed")
    <3> HIDE DEF r1
    <3> QED BY <2>2, StepSets DEF EffectState
  <2>4. Sets(rec, r2, n, "failed", "confirmed")
    <3> HIDE DEF r1, r2
    <3> QED BY <1>1, <2>1, <2>3, SetsThenSets
  <2>5. Save(x)
    <3>1. r2.status = rec.status
      BY <2>4 DEF Sets
    <3>2. [r2 EXCEPT !.status = IF @ = "cancelled" THEN "cancelled" ELSE "failed"] = x
      BY <3>1
    <3> QED BY <1>2, <3>2 DEF ReconcileDispatched
  <2>6. s \in Status /\ s \in {"failed", "cancelled"}
    BY DEF Status
  <2> HIDE DEF r2, s
  <2>7. /\ x \in Record /\ x.lease = r2.lease /\ x.status = s /\ x.node = r2.node
        /\ x.effect = r2.effect /\ x.cancel = r2.cancel
    BY <2>4, <2>6, WithStatusIs DEF Sets
  <2> HIDE DEF x
  <2>8. /\ x \in Record /\ Save(x) /\ x.lease = 0 /\ x.cancel = rec.cancel
        /\ x.status = IF rec.status = "cancelled" THEN "cancelled" ELSE "failed"
        /\ x.node = [rec.node EXCEPT ![n] = "failed"]
        /\ x.effect = [rec.effect EXCEPT ![n] = "confirmed"]
        /\ calls' = calls
    BY <1>1, <1>2, <2>4, <2>5, <2>6, <2>7 DEF Sets, ReconcileDispatched, ghosts, s
  <2> QED BY <1>1, <2>8
<1>3. CASE ReconcileNotDispatched(n)
  <2> DEFINE again == SafeNodesReset(clear)
             parked == [clear EXCEPT !.status = "paused"]
             queued == Prepared(again)
  <2>1. /\ Sets(rec, clear, n, "pending", "none")
        /\ again \in Record /\ again.effect = clear.effect
        /\ \A m \in Node : again.node[m] =
             IF /\ clear.node[m] \in {"running", "failed", "cancelled"}
                /\ clear.effect[m] \in {"undefined", "none"}
             THEN "pending" ELSE clear.node[m]
    BY <1>1, ClearedIs
  <2>2. /\ calls' = [calls EXCEPT ![n] = 0]
        /\ \/ Save(clear) /\ rec.status = "cancelled"
           \/ Save(parked) /\ rec.status # "cancelled"
           \/ Save(queued) /\ rec.status # "cancelled" /\ ~SomeUncertain(clear)
    BY <1>3 DEF ReconcileNotDispatched, Cleared
  <2> HIDE DEF clear, again
  <2>3. clear \in Record /\ clear.status = rec.status /\ clear.lease = 0
        /\ clear.cancel = rec.cancel
        /\ clear.node = [rec.node EXCEPT ![n] = "pending"]
        /\ clear.effect = [rec.effect EXCEPT ![n] = "none"]
    BY <1>1, <2>1 DEF Sets
  <2>4. CASE Save(clear) /\ rec.status = "cancelled"
    BY <1>1, <2>2, <2>3, <2>4
  <2>5. CASE Save(parked) /\ rec.status # "cancelled"
    <3>1. /\ parked \in Record /\ parked.status = "paused" /\ parked.lease = 0
          /\ parked.node = clear.node /\ parked.effect = clear.effect
          /\ parked.cancel = clear.cancel
      BY <2>3, WithStatusIs DEF Status
    <3> HIDE DEF parked
    <3> QED BY <1>1, <2>2, <2>3, <2>5, <3>1
  <2>6. CASE Save(queued) /\ rec.status # "cancelled" /\ ~SomeUncertain(clear)
    <3>1. /\ queued \in Record /\ queued.status = "queued" /\ queued.lease = 0
          /\ queued.node = again.node /\ queued.effect = clear.effect /\ queued.cancel = "no"
      BY <2>1, PreparedIs, PreparedFacts
    <3> HIDE DEF queued
    <3>2. rec.node \in [Node -> NodeStatus] /\ clear.effect \in [Node -> EffectState]
      BY <1>1, <2>3 DEF Record
    <3>3. \A m \in Node : queued.node[m] =
            IF rec.node[m] = "completed" /\ m # n THEN "completed" ELSE "pending"
      <4> SUFFICES ASSUME NEW m \in Node
                   PROVE  queued.node[m] = IF rec.node[m] = "completed" /\ m # n
                                           THEN "completed" ELSE "pending"
        OBVIOUS
      <4>1. clear.node[m] = IF m = n THEN "pending" ELSE rec.node[m]
        BY <2>3, <3>2
      <4>2. ~Uncertain(clear, m)
        BY <2>6 DEF SomeUncertain
      <4>3. rec.node[m] \in NodeStatus /\ clear.effect[m] \in EffectState
        BY <3>2
      <4>4. queued.node[m] = IF /\ clear.node[m] \in {"running", "failed", "cancelled"}
                                /\ clear.effect[m] \in {"undefined", "none"}
                             THEN "pending" ELSE clear.node[m]
        BY <2>1, <3>1
      <4> QED BY <4>1, <4>2, <4>3, <4>4 DEF Uncertain, NodeStatus, EffectState
    <3>4. ~SomeUncertain(queued)
      <4> SUFFICES ASSUME NEW m \in Node PROVE ~Uncertain(queued, m)
        BY DEF SomeUncertain
      <4>1. ~Uncertain(clear, m)
        BY <2>6 DEF SomeUncertain
      <4>2. clear.node[m] = IF m = n THEN "pending" ELSE rec.node[m]
        BY <2>3, <3>2
      <4>3. clear.node[m] = "completed" => queued.node[m] = "completed"
        BY <3>3, <4>2
      <4> QED BY <3>1, <4>1, <4>3 DEF Uncertain
    <3> QED BY <1>1, <2>2, <2>3, <2>6, <3>1, <3>3, <3>4
  <2> QED BY <2>2, <2>4, <2>5, <2>6
<1> QED BY <1>2, <1>3

\* A node that somebody decides about was not completed, and its turn had come.
LEMMA ReconcileGraph ==
  ASSUME IInv, GraphInv, NEW n \in Node, ReconcileDispatched(n) \/ ReconcileNotDispatched(n)
  PROVE  GraphInv'
<1>1. /\ rec \in Record /\ rec.lease = 0 /\ rec.effect[n] = "unknown"
      /\ rec.status \in {"paused", "failed", "cancelled"}
      /\ UNCHANGED <<service, worker, executor, people>>
  BY ReconciledIs
<1>2. Journal(rec) /\ n \in Effectful /\ rec.node[n] # "completed"
      /\ \A d \in Deps[n] : rec.node[d] = "completed"
  BY <1>1 DEF GraphInv, GraphOf, Journal, Begun
<1>3. rec.node \in [Node -> NodeStatus] /\ rec.effect \in [Node -> EffectState]
  BY <1>1 DEF Record
<1>4. ASSUME NEW x, NEW e \in {"none", "confirmed"}, x.effect = [rec.effect EXCEPT ![n] = e],
             x.node[n] # "completed",
             \A m \in Node \ {n} : \/ x.node[m] = rec.node[m]
                                   \/ x.node[m] = "pending" /\ rec.node[m] # "completed"
      PROVE  Journal(x)
  <2> SUFFICES ASSUME NEW m \in Node
               PROVE  /\ x.node[m] = "completed" => x.effect[m] \in {"undefined", "none", "confirmed"}
                      /\ m \notin Effectful => x.effect[m] = "undefined"
                      /\ Begun(x, m) => \A d \in Deps[m] : x.node[d] = "completed"
    BY DEF Journal
  <2>1. x.effect[m] = IF m = n THEN e ELSE rec.effect[m]
    BY <1>3, <1>4
  <2>2. Begun(x, m) => \A d \in Deps[m] : rec.node[d] = "completed" /\ d # n
    BY <1>2, <1>4, <2>1 DEF Begun, Journal
  <2>3. Begun(x, m) => \A d \in Deps[m] : x.node[d] = "completed"
    BY <1>4, <2>2, DepsAssumption
  <2> QED BY <1>2, <1>4, <2>1, <2>3 DEF Journal
<1>5. ASSUME NEW x \in Record, Save(x), x.lease = 0, x.status \in {"failed", "cancelled"},
             x.node = [rec.node EXCEPT ![n] = "failed"],
             x.effect = [rec.effect EXCEPT ![n] = "confirmed"]
      PROVE  GraphInv'
  <2>1. Journal(x)
    BY <1>3, <1>4, <1>5
  <2>2. GraphOf(x)
    BY <1>5, <2>1 DEF GraphOf, Stands
  <2> QED BY <1>1, <1>5, <2>2, PersonGraph
<1>6. ASSUME NEW x \in Record, Save(x), x.lease = 0, x.effect = [rec.effect EXCEPT ![n] = "none"],
             \/ /\ x.status \in {"paused", "cancelled"}
                /\ x.node = [rec.node EXCEPT ![n] = "pending"]
             \/ /\ x.status = "queued"
                /\ \A m \in Node : x.node[m] =
                     IF rec.node[m] = "completed" /\ m # n THEN "completed" ELSE "pending"
      PROVE  GraphInv'
  <2>1. /\ x.node[n] # "completed"
        /\ \A m \in Node \ {n} : \/ x.node[m] = rec.node[m]
                                 \/ x.node[m] = "pending" /\ rec.node[m] # "completed"
    BY <1>3, <1>6
  <2>2. Journal(x)
    BY <1>4, <1>6, <2>1
  <2>3. GraphOf(x) /\ x.status # "running"
    BY <1>6, <2>2 DEF GraphOf, Stands, AllGoing, Going
  <2> QED BY <1>1, <1>6, <2>3, PersonGraph
<1> QED BY ReconciledIs, <1>5, <1>6

\* Cancelling.
LEMMA CancelIs ==
  ASSUME IInv, Cancel
  PROVE  /\ UNCHANGED <<service, worker, executor, copy, claims, calls, faults, stops>>
         /\ rec'.node = rec.node /\ rec'.effect = rec.effect
         /\ \/ rec' = rec /\ base' = base
            \/ base' = rec /\ base = rec /\ rec.status = "running" /\ Same(rec, rec')
               /\ rec'.lease = rec.lease
            \/ base' = rec /\ base = rec /\ rec.status # "running" /\ rec'.status = "cancelled"
               /\ rec.status \in {"queued", "waiting-approval", "paused", "failed"}
<1>1. rec \in Record
  BY DEF IInv, TypeOK
<1> QED BY <1>1 DEF Cancel, Mutate, Write, Written, store, executor, ghosts, Record, Same

\* It leaves the graph alone.
LEMMA CancelGraph == ASSUME IInv, GraphInv, Cancel PROVE GraphInv'
<1>1. GraphOf(rec) /\ GraphOf(base) /\ GraphOf(copy)
  BY DEF GraphInv
<1>2. /\ UNCHANGED <<worker, mem, task, copy>> /\ base' \in {rec, base}
      /\ rec'.node = rec.node /\ rec'.effect = rec.effect
      /\ rec' = rec \/ Same(rec, rec') \/ rec'.status = "cancelled"
  BY CancelIs DEF executor
<1>3. GraphOf(rec') /\ (rec'.status = "running" => rec.status = "running")
  BY <1>1, <1>2, GraphSame, GraphAtRest DEF GraphOf, Same
<1> QED BY <1>1, <1>2, <1>3, GraphBeside

\* The graph is respected at the start ...
LEMMA GraphInitially == Init => GraphInv
<1> SUFFICES ASSUME Init PROVE GraphInv
  OBVIOUS
<1>1. GraphOf(NewRecord) /\ Journal(NewRecord)
  BY GraphNew DEF GraphOf
<1> QED BY <1>1 DEF Init, GraphInv, Executing, TasksInv, Live

\* ... and by every step.
LEMMA GraphInductive == IInv /\ GraphInv /\ [Next]_vars => GraphInv'
<1> SUFFICES ASSUME IInv, GraphInv, [Next]_vars PROVE GraphInv'
  OBVIOUS
<1>1. CASE Flush \/ StopStep \/ Boot \/ CancelAborts \/ LoseLease \/ Stop
  BY <1>1, ServiceGraph
<1>2. CASE WorkerStep
  <2>1. CASE Join \/ LeaveLost
    <3>1. /\ UNCHANGED <<rec, base, copy, mem, task>> /\ worker' \in {"rounds", "ending"}
          /\ worker \in {"joining", "rounds"} /\ (worker' = "rounds" => Live)
      BY <2>1 DEF Join, LeaveLost, store, executor, people, Live, Ended
    <3> QED BY <3>1 DEF GraphInv, GraphOf, TasksInv, Executing, Live
  <2>2. CASE Noted \/ NoteFails
    <3>1. /\ worker = "noting" /\ worker' = "ending" /\ UNCHANGED <<copy, mem, task>>
          /\ \/ UNCHANGED <<rec, base>>
             \/ /\ base' = rec /\ rec'.status = "failed"
                /\ rec'.node = rec.node /\ rec'.effect = rec.effect
      BY <2>2, NoteFailsIs DEF Noted, store, executor, people
    <3>2. GraphOf(rec') /\ GraphOf(base')
      BY <3>1, GraphAtRest DEF GraphInv, GraphOf
    <3> QED BY <3>1, <3>2 DEF GraphInv, GraphOf, TasksInv, Executing, Live
  <2> QED BY <1>2, <2>1, <2>2, ClaimGraph, BeginGraph, ExecutorGraph, RoundGraph DEF WorkerStep
<1>3. CASE NodeSteps
  <2>1. PICK n \in Node : NodeStep(n)
    BY <1>3 DEF NodeSteps
  <2>2. Journal(mem)
    BY DEF GraphInv
  <2> QED BY <2>1, <2>2, NodeMoves, MovesGraph
<1>4. CASE Crash
  BY <1>4, ClaimGraph
<1>5. CASE Person
  BY <1>5, CancelGraph, DecisionGraph, ResumeGraph, ReconcileGraph DEF Person
<1>6. CASE UNCHANGED vars
  BY <1>6 DEF vars, store, executor, people, GraphInv, GraphOf, TasksInv, Executing, Live, Ended
<1> QED BY <1>1, <1>2, <1>3, <1>4, <1>5, <1>6 DEF Next

\* The invariants of the graph and of the lease hold together.
THEOREM GraphInvariance == Spec => [](IInv /\ GraphInv)
<1>1. Init => IInv /\ GraphInv
  BY Initially, GraphInitially
<1>2. IInv /\ GraphInv /\ [Next]_vars => (IInv /\ GraphInv)'
  BY Inductive, GraphInductive
<1> QED BY <1>1, <1>2, PTL DEF Spec

\* A node of the stored run has been started, or has reached for the outside
\* world, only when every node it depends on is completed: whatever crashed, was
\* stopped, parked, resumed or reconciled in between, no node runs ahead of its
\* inputs.
THEOREM DependenciesFirst ==
  Spec => [](\A n \in Node : Begun(rec, n) => \A d \in Deps[n] : rec.node[d] = "completed")
<1>1. GraphInv => \A n \in Node : Begun(rec, n) => \A d \in Deps[n] : rec.node[d] = "completed"
  BY DEF GraphInv, GraphOf, Journal
<1> QED BY <1>1, GraphInvariance, PTL
-----------------------------------------------------------------------------
(***************************************************************************)
(* Nodes in line: one that waits, directly or not, for every node that     *)
(* does not wait for it runs in a round of its own.                        *)
(***************************************************************************)
\* m is among the nodes n waits for, or among those they wait for, or is n.
Before(m, n) == \A S \in SUBSET Node :
                  n \in S /\ (\A k \in S : Deps[k] \subseteq S) => m \in S
InLine(S) == \A n \in S, m \in Node : Before(m, n) \/ Before(n, m)

\* While a node of S is under way nothing else is.
Solo(S) == worker = "joining" =>
  \A n \in S, m \in Node : task[n] # "idle" /\ m # n => task[m] = "idle"

\* A node that starts comes before no other one that starts with it.
LEMMA StartsTogether ==
  ASSUME Journal(mem), NEW n \in Node, NEW m \in Node, m # n,
         mem.node[m] # "completed", \A d \in Deps[n] : mem.node[d] = "completed"
  PROVE  ~Before(m, n)
<1> DEFINE S == {k \in Node : mem.node[k] = "completed"} \cup {n}
<1>1. S \in SUBSET Node /\ n \in S /\ m \notin S
  OBVIOUS
<1>2. ASSUME NEW k \in S PROVE Deps[k] \subseteq S
  <2>1. k \in Node /\ Deps[k] \subseteq Node
    BY DepsAssumption
  <2>2. \A d \in Deps[k] : mem.node[d] = "completed"
    BY <2>1 DEF Journal, Begun
  <2> QED BY <2>1, <2>2
<1> HIDE DEF S
<1> QED BY <1>1, <1>2 DEF Before

\* The steps of the nodes start none.
LEMMA MovesSolo ==
  ASSUME NEW S \in SUBSET Node, Solo(S), NEW n \in Node, NEW to, NEW s, NEW e,
         Moves(n, to, s, e), task[n] \in Under, task \in [Node -> TaskState]
  PROVE  Solo(S)'
BY DEF Solo, Moves, Under

\* Every step leaves at most one node of S under way.
LEMMA SoloInductive ==
  ASSUME NEW S \in SUBSET Node, InLine(S)
  PROVE  IInv /\ GraphInv /\ Solo(S) /\ [Next]_vars => Solo(S)'
<1> SUFFICES ASSUME IInv, GraphInv, Solo(S), [Next]_vars PROVE Solo(S)'
  OBVIOUS
<1>1. CASE worker' # "joining"
  BY <1>1 DEF Solo
<1>2. CASE worker' = worker /\ task' = task
  BY <1>2 DEF Solo
<1>3. CASE Round
  <2>1. /\ AllGoing(mem) /\ Journal(mem)
    BY <1>3 DEF GraphInv, Round, Executing, Live
  <2>2. task' = [k \in Node |-> IF k \in Ready THEN "started" ELSE "idle"]
    BY <1>3 DEF Round
  <2> SUFFICES ASSUME NEW n \in S, NEW m \in Node, n \in Ready, m # n, m \in Ready
               PROVE  FALSE
    BY <2>2 DEF Solo
  <2>3. \A k \in {n, m} : /\ k \in Node /\ mem.node[k] = "pending"
                          /\ \A d \in Deps[k] : mem.node[d] = "completed"
    BY <2>1, DepsAssumption DEF Ready, AllGoing, Going, TerminalNode
  <2>4. ~Before(m, n) /\ ~Before(n, m)
    BY <2>1, <2>3, StartsTogether
  <2> QED BY <2>4 DEF InLine
<1>4. CASE NodeSteps
  <2>1. PICK n \in Node : NodeStep(n)
    BY <1>4 DEF NodeSteps
  <2>2. PICK to \in TaskState, s \in NodeStatus, e \in EffectState :
          Moves(n, to, s, e) /\ (Tries(n, to, s, e) \/ Works(n, to, s, e) \/ Ends(n, to, s, e))
    BY <2>1, NodeMoves DEF GraphInv
  <2>3. task[n] \in Under
    BY <2>2, MovesFrom
  <2> QED BY <2>2, <2>3, MovesSolo DEF IInv, TypeOK
<1>5. [Next]_vars => \/ worker' # "joining" \/ (worker' = worker /\ task' = task)
                     \/ Round \/ NodeSteps
  BY DEF Next, Flush, WorkerStep, Claim, HandBack, Begin, SaveBegin, Release, Stuck, Join,
         LeaveLost, Finish, Noted, NoteFails, StopStep, StopReads, StopPauses, Stopped,
         CancelAborts, LoseLease, Stop, Crash, Boot, Person, Cancel, Approve, Reject, Resume,
         ReconcileDispatched, ReconcileNotDispatched, executor, vars
<1> QED BY <1>1, <1>2, <1>3, <1>4, <1>5

\* A node in line with all others is never under way beside another one, however
\* often the run was interrupted, requeued or resumed.
THEOREM InLineRunsAlone ==
  ASSUME NEW S \in SUBSET Node, InLine(S)
  PROVE  Spec => []Solo(S)
<1>1. Init => Solo(S)
  BY DEF Init, Solo
<1>2. IInv /\ GraphInv /\ Solo(S) /\ [Next]_vars => Solo(S)'
  BY SoloInductive
<1> QED BY <1>1, <1>2, GraphInvariance, PTL DEF Spec
-----------------------------------------------------------------------------
(***************************************************************************)
(* The hold an execution has on the stored run.                            *)
(***************************************************************************)
\* Until the service is asked to stop, what the worker claimed or executes is
\* running in the store, and what has yet to be noted as completed is completed
\* there; a stopping service has told the execution.
HoldInv ==
  /\ worker = "claimed" => rec.status = "running" /\ service # "pausing"
  /\ Live /\ service = "accepting" => rec.status = "running"
  /\ worker = "noting" /\ service = "accepting" => rec.status = "completed"
  /\ Executing /\ service # "accepting" => "cancelled" \in active
  /\ service = "stopped" => worker = "idle"
  /\ worker = "rounds" \/ (worker = "joining" /\ ~Ended) => mem.status = "running"

\* A step beside the execution that leaves a running record running.
LEMMA HoldBeside ==
  ASSUME HoldInv, UNCHANGED <<service, worker, mem, task, active, stops>>,
         rec.status \in {"running", "completed"} => rec'.status = rec.status
  PROVE  HoldInv'
BY DEF HoldInv, Executing, Live, Ended

\* The worker's steps keep its hold.
LEMMA WorkerHold == ASSUME IInv, GraphInv, HoldInv, WorkerStep PROVE HoldInv'
<1>1. mem \in Record /\ rec \in Record
  BY DEF IInv, TypeOK
<1>2. CASE Claim
  <2> DEFINE q == [rec EXCEPT !.status = "running", !.lease = claims + 1]
  <2>1. /\ rec' = q /\ worker' = "claimed" /\ service = "accepting" /\ worker = "idle"
        /\ UNCHANGED <<service, mem, task, active, stops>>
    BY <1>2 DEF Claim, Mutate, Write, executor
  <2>2. q.status = "running"
    BY <1>1 DEF Record
  <2> HIDE DEF q
  <2> QED BY <2>1, <2>2 DEF HoldInv, Executing, Live
<1>3. CASE HandBack \/ Release
  <2>1. worker' = "idle" /\ service' = service /\ stops' = stops /\ active' \in {active, {}}
    BY <1>3 DEF HandBack, Release, executor, ghosts
  <2> QED BY <2>1 DEF HoldInv, Executing, Live
<1>4. CASE Begin
  <2>1. /\ worker' = "starting" /\ service = "accepting" /\ worker = "claimed" /\ active' = {}
        /\ UNCHANGED <<rec, service, stops>>
    BY <1>4 DEF Begin, store, ghosts
  <2> QED BY <2>1 DEF HoldInv, Executing, Live
<1>5. CASE SaveBegin
  <2>1. /\ worker = "starting" /\ worker' = IF mem.status = "running" THEN "rounds" ELSE "ending"
        /\ Save(mem) /\ Executing
        /\ UNCHANGED <<mem, service, active, stops>>
    BY <1>5 DEF SaveBegin, executor, ghosts, Executing
  <2>2. rec.status = "running" => rec'.status = mem.status
    BY <1>1, <2>1, ExecutorWrites DEF Same
  <2> QED BY <2>1, <2>2 DEF HoldInv, Executing, Live
<1>6. CASE Stuck \/ LeaveLost \/ Noted \/ NoteFails
  <2>1. /\ worker' = "ending" /\ worker \in {"rounds", "noting"}
        /\ UNCHANGED <<service, active, stops>>
    BY <1>6 DEF Stuck, LeaveLost, Noted, NoteFails, executor, ghosts
  <2> QED BY <2>1 DEF HoldInv, Executing, Live
<1>9. CASE Finish
  <2>1. /\ worker = "rounds" /\ Save(mem') /\ mem' = [mem EXCEPT !.status = Verdict]
        /\ worker' \in {"noting", "ending"} /\ (worker' = "noting" => Verdict = "completed")
        /\ UNCHANGED <<service, active, stops>>
    BY <1>9 DEF Finish, ghosts
  <2>2. ASSUME worker' = "noting", service = "accepting"
        PROVE  rec'.status = "completed"
    <3>1. mem' = [mem EXCEPT !.status = "completed"]
      BY <2>1, <2>2
    <3>2. mem' \in Record /\ mem'.lease = mem.lease /\ mem'.status = "completed"
      BY <1>1, <3>1 DEF Record, Status
    <3>3. rec.status = "running"
      BY <2>1, <2>2 DEF HoldInv, Live
    <3> QED BY <2>1, <3>2, <3>3, ExecutorWrites DEF Executing, Same
  <2> QED BY <2>1, <2>2 DEF HoldInv, Executing, Live
<1>7. CASE Round
  <2>1. /\ worker = "rounds" /\ worker' = "joining" /\ mem'.status = mem.status
        /\ UNCHANGED <<rec, service, active, stops>>
    BY <1>7, RoundIs
  <2> QED BY <2>1 DEF HoldInv, Executing, Live
<1>8. CASE Join
  <2>1. /\ worker = "joining" /\ worker' = IF Ended THEN "ending" ELSE "rounds"
        /\ UNCHANGED <<rec, service, mem, active, stops>>
    BY <1>8 DEF Join, Ended, store, executor, ghosts
  <2> QED BY <2>1 DEF HoldInv, Executing, Live
<1> QED BY <1>2, <1>3, <1>4, <1>5, <1>6, <1>7, <1>8, <1>9 DEF WorkerStep

\* So do the nodes' steps.
LEMMA MovesHold ==
  ASSUME IInv, GraphInv, HoldInv, NEW n \in Node, NEW to, NEW s, NEW e,
         Moves(n, to, s, e), Tries(n, to, s, e) \/ Works(n, to, s, e) \/ Ends(n, to, s, e)
  PROVE  HoldInv'
<1>1. /\ task[n] \in Under /\ task \in [Node -> TaskState]
      /\ rec.status # "running" => rec' = rec
      /\ Tries(n, to, s, e) => rec' = rec
      /\ rec.status = "running" /\ ~Tries(n, to, s, e) => rec'.status = mem'.status
  BY MovesFrom DEF Same, IInv, TypeOK
<1>2. /\ worker = "joining" /\ worker' = "joining" /\ task' = [task EXCEPT ![n] = to]
      /\ UNCHANGED <<service, active, stops>>
  BY DEF Moves
<1>3. to \in {"waiting", "stopped"} \/ mem'.status = mem.status
  BY DEF Tries, Works, Ends
<1>4. ~Ended' => ~Ended /\ mem'.status = mem.status
  BY <1>1, <1>2, <1>3 DEF Ended, Under
<1> QED BY <1>1, <1>2, <1>4 DEF HoldInv, Executing, Live

\* And the service's, and people's.
LEMMA ServiceHold ==
  ASSUME IInv, GraphInv, HoldInv,
         Flush \/ StopStep \/ Boot \/ CancelAborts \/ LoseLease \/ Stop \/ Crash \/ Person
  PROVE  HoldInv'
<1>1. rec \in Record /\ copy \in Record /\ stops \in Nat
  BY DEF IInv, TypeOK
<1>2. CASE Flush
  BY <1>2, HoldBeside DEF Flush, executor, ghosts
<1>3. CASE CancelAborts \/ LoseLease
  <2>1. /\ active' \in {active, active \cup {"cancelled"}, active \cup {"leaseLost", "pause"}}
        /\ UNCHANGED <<rec, service, worker, mem, task, stops>>
    BY <1>3 DEF CancelAborts, LoseLease, store, ghosts
  <2> QED BY <2>1 DEF HoldInv, Executing, Live, Ended
<1>4. CASE Stop
  <2>1. /\ service = "accepting" /\ service' = "stopping" /\ stops' = stops + 1
        /\ Executing => "cancelled" \in active'
        /\ UNCHANGED <<rec, worker, mem, task>>
    BY <1>4 DEF Stop, store
  <2> QED BY <1>1, <2>1 DEF HoldInv, Executing, Live, Ended
<1>5. CASE StopReads
  <2>1. /\ service = "stopping"
        /\ \/ service' = "pausing" /\ Executing
           \/ service' = "draining"
        /\ UNCHANGED <<rec, worker, mem, task, active, stops>>
    BY <1>5 DEF StopReads, store, executor, ghosts
  <2> QED BY <2>1 DEF HoldInv, Executing, Live, Ended
<1>6. CASE StopPauses
  <2>1. /\ service = "pausing" /\ service' = "draining"
        /\ UNCHANGED <<worker, mem, task, active, stops>>
    BY <1>6 DEF StopPauses, executor, ghosts
  <2> QED BY <2>1 DEF HoldInv, Executing, Live, Ended
<1>7. CASE Stopped \/ Boot \/ Crash
  <2>1. worker' = "idle" /\ stops' = stops /\ active' \in {active, {}}
        /\ service' \in {"stopped", "accepting", "down"} /\ (service' = "stopped" => service = "draining")
    BY <1>7 DEF Stopped, Boot, Crash, HoldInv, IInv, LeaseInv, executor, ghosts
  <2> QED BY <2>1 DEF HoldInv, Executing, Live
<1>8. CASE Person
  <2>1. CASE Cancel
    BY <2>1, CancelIs, HoldBeside DEF executor, Same
  <2>2. CASE ~Cancel
    <3>1. /\ rec.status \notin {"running", "completed"}
          /\ UNCHANGED <<service, worker, mem, task, active, stops>>
      BY <1>8, <2>2 DEF Person, Approve, Reject, Resume, SafeToResume, ReconcileDispatched,
         ReconcileNotDispatched, Reconcilable, executor, ghosts
    <3> QED BY <3>1, HoldBeside
  <2> QED BY <2>1, <2>2
<1> QED BY <1>2, <1>3, <1>4, <1>5, <1>6, <1>7, <1>8 DEF StopStep

\* It holds from the start ...
LEMMA HoldInitially == Init => HoldInv
BY DEF Init, HoldInv, Executing, Live

\* ... and through every step.
LEMMA HoldInductive == IInv /\ GraphInv /\ HoldInv /\ [Next]_vars => HoldInv'
<1> SUFFICES ASSUME IInv, GraphInv, HoldInv, [Next]_vars PROVE HoldInv'
  OBVIOUS
<1>1. CASE NodeSteps
  <2>1. PICK n \in Node : NodeStep(n)
    BY <1>1 DEF NodeSteps
  <2> QED BY <2>1, NodeMoves, MovesHold DEF GraphInv
<1>2. CASE UNCHANGED vars
  BY <1>2, HoldBeside DEF vars, store, executor, ghosts
<1> QED BY <1>1, <1>2, WorkerHold, ServiceHold DEF Next

\* The graph, the lease and the hold of the execution, together.
Sound == IInv /\ GraphInv /\ HoldInv
LEMMA SoundInductive == Sound /\ [Next]_vars => Sound'
BY Inductive, GraphInductive, HoldInductive DEF Sound

\* The three invariants hold in every reachable state.
LEMMA Soundness == Spec => []Sound
<1>1. Init => Sound
  BY Initially, GraphInitially, HoldInitially DEF Sound
<1> QED BY <1>1, SoundInductive, PTL DEF Spec

\* No orderly stop of the service has caught an execution under way: it was
\* stopped, if at all, between two of them.  Nothing but a lost lease pauses a
\* run then.
Unstopped == Executing => service = "accepting"
Steady == Unstopped /\ service # "pausing" /\ ("pause" \in active => "leaseLost" \in active)

\* It stays so until such a stop.
LEMMA SteadyInductive ==
  ASSUME Sound, Steady, [Next]_vars, Unstopped'
  PROVE  Steady'
<1>1. CASE Stop
  <2>1. service' = "stopping" /\ (Executing' <=> Executing) /\ (~Executing => active' = active)
    BY <1>1 DEF Stop, Executing
  <2> QED BY <2>1 DEF Steady, Unstopped
<1>2. CASE StopStep
  <2>1. active' = active /\ (StopReads /\ ~Executing => service' = "draining")
        /\ (~StopReads => service' # "pausing")
    BY <1>2 DEF StopStep, StopReads, StopPauses, Stopped, executor
  <2>2. StopReads => ~Executing
    BY DEF StopReads, Steady, Unstopped
  <2> QED BY <2>1, <2>2 DEF Steady
<1>3. CASE LoseLease \/ CancelAborts \/ Boot
  BY <1>3 DEF LoseLease, CancelAborts, Boot, Steady, executor
<1>4. CASE Crash \/ Begin \/ Release
  BY <1>4 DEF Crash, Begin, Release, Steady
<1>5. CASE UNCHANGED <<service, active>>
  BY <1>5 DEF Steady
<1>6. CASE NodeSteps
  <2>1. PICK n \in Node : NodeStep(n)
    BY <1>6 DEF NodeSteps
  <2>2. \E to \in TaskState, s \in NodeStatus, e \in EffectState : Moves(n, to, s, e)
    BY <2>1, NodeMoves DEF Sound, GraphInv
  <2> QED BY <1>5, <2>2 DEF Moves
<1>7. CASE Flush \/ Claim \/ HandBack \/ SaveBegin \/ Round \/ Stuck \/ Join \/ LeaveLost
           \/ Finish \/ Noted \/ NoteFails \/ Person \/ UNCHANGED vars
  BY <1>5, <1>7 DEF Flush, Claim, HandBack, SaveBegin, Round, Stuck, Join, LeaveLost, Finish,
     Noted, NoteFails, Person, Cancel, Approve, Reject, Resume, ReconcileDispatched, ReconcileNotDispatched,
     executor, vars
<1> QED BY <1>1, <1>2, <1>3, <1>4, <1>6, <1>7 DEF Next, WorkerStep

\* So in every behaviour without one.
LEMMA Steadiness == Spec /\ []Unstopped => []Steady
<1>1. Init => Steady
  BY DEF Init, Steady, Unstopped
<1>2. Sound /\ Steady /\ [Next]_vars /\ Unstopped' => Steady'
  BY SteadyInductive
<1> QED BY <1>1, <1>2, Soundness, PTL DEF Spec

\* The saves of a stopped or outrun writer do not reach a finished run; that of
\* an execution which could not note its completion does.
LEMMA FinishedStays ==
  ASSUME Sound, [Next]_vars, Steady,
         rec.status \in {"completed", "cancelled"}, Written
  PROVE  \/ rec'.status = rec.status
         \/ rec.status = "completed" /\ rec'.status = "failed" /\ worker = "noting"
<1>1. IInv /\ GraphInv /\ HoldInv /\ rec \in Record /\ mem \in Record /\ rec.lease = 0 /\ base = rec
  BY DEF Sound, IInv, TypeOK, LeaseInv, Owned, Written
<1>2. service # "pausing" /\ worker # "claimed" /\ ~Live
  BY <1>1 DEF HoldInv, Live, Steady, Unstopped, Executing
<1>3. CASE Claim \/ HandBack \/ StopStep
  BY <1>2, <1>3 DEF Claim, HandBack, StopStep, StopReads, StopPauses, Stopped, store
<1>4. CASE SaveBegin \/ Stuck \/ Finish \/ Round \/ LeaveLost
  BY <1>2, <1>4 DEF SaveBegin, Stuck, Finish, Round, LeaveLost, Live
<1>10. CASE Noted \/ NoteFails
  <2>1. NoteFails => worker = "noting" /\ rec'.status = "failed" /\ service = "accepting"
    BY <1>1, NoteFailsIs DEF Steady, Unstopped, Executing
  <2> QED BY <1>1, <1>10, <2>1 DEF Noted, store, HoldInv
<1>5. CASE Release
  <2> DEFINE lost == "leaseLost" \in active
  <2>1. rec' = Released(rec, lost)
    BY <1>5 DEF Release, Mutate, Write
  <2> HIDE DEF lost
  <2>2. rec' = [rec EXCEPT !.lease = 0]
    BY <2>1 DEF Released
  <2> QED BY <1>1, <2>2 DEF Record
<1>6. CASE NodeSteps
  <2>1. PICK n \in Node : NodeStep(n)
    BY <1>6 DEF NodeSteps
  <2> QED BY <1>1, <2>1, NodeMoves, MovesFrom DEF GraphInv
<1>7. CASE Flush \/ CancelAborts \/ LoseLease \/ Stop \/ Crash \/ Begin \/ Join \/ UNCHANGED vars
  BY <1>1, <1>7 DEF Flush, CancelAborts, LoseLease, Stop, Crash, Begin, Join, vars, store
<1>8. CASE Boot
  BY <1>1, <1>8 DEF Boot, Mutate, Write, Recovered
<1>9. CASE Person
  <2>1. CASE Cancel
    BY <1>1, <2>1, CancelIs
  <2>2. CASE Approve \/ Reject \/ Resume
    BY <2>2 DEF Approve, Reject, Resume, SafeToResume
  <2>3. ASSUME NEW n \in Node, ReconcileDispatched(n) \/ ReconcileNotDispatched(n)
        PROVE  rec'.status = rec.status
    <3>1. PICK x \in Record : Save(x) /\ x.lease = 0 /\ (x.status = "cancelled" <=> rec.status = "cancelled")
      BY <1>1, <2>3, ReconciledIs
    <3>2. rec'.status = x.status
      BY <1>1, <3>1, PersonWritten DEF Same
    <3>3. rec.status \in {"paused", "failed", "cancelled"}
      BY <1>1, <2>3, ReconciledIs
    <3> QED BY <3>1, <3>2, <3>3
  <2> QED BY <1>9, <2>1, <2>2, <2>3 DEF Person
<1> QED BY <1>3, <1>4, <1>5, <1>6, <1>7, <1>8, <1>9, <1>10 DEF Next, WorkerStep

\* While no orderly stop catches an execution, neither a late save of the
\* execution, nor a recovery, nor a command reopens a finished run: a cancelled
\* one stays cancelled, and a completed one is at most failed by the execution
\* that completed it, when that cannot note it in its definition.
THEOREM FinishedIsFinal == Spec /\ []Unstopped => TerminalIsFinal
<1>1. Sound /\ Steady /\ [Next]_vars =>
        [/\ Written /\ rec.status \in {"completed", "cancelled"}
         => \/ rec'.status = rec.status
            \/ rec.status = "completed" /\ rec'.status = "failed" /\ worker = "noting"]_vars
  BY FinishedStays
<1> QED BY <1>1, Soundness, Steadiness, PTL DEF Spec, TerminalIsFinal

\* In a workflow whose nodes are all in line, what a node completes under a live
\* lease is completed in the stored record at once, for any stops and crashes.
THEOREM CompletionReachesStore ==
  ASSUME InLine(Node)
  PROVE  Spec => CompletionIsSaved
<1>1. Sound /\ Solo(Node) /\ [Next]_vars =>
        \A n \in Node : task[n] # "done" /\ task'[n] = "done" /\ active = {}
                        => rec'.node[n] = "completed"
  <2> SUFFICES ASSUME Sound, Solo(Node), [Next]_vars,
                      NEW n \in Node, task[n] # "done", task'[n] = "done", active = {}
               PROVE  rec'.node[n] = "completed"
    OBVIOUS
  <2>1. IInv /\ GraphInv /\ HoldInv /\ task \in [Node -> TaskState]
    BY DEF Sound, IInv, TypeOK
  <2>2. NodeSteps
    <3>1. ~(task' = task) /\ ~(task' = Idle) /\ ~Round
      BY DEF Idle, Round
    <3> QED BY <3>1 DEF Next, Flush, WorkerStep, Claim, HandBack, Begin, SaveBegin, Release, Stuck,
         Join, LeaveLost, Finish, Noted, NoteFails, StopStep, StopReads, StopPauses, Stopped,
         CancelAborts, LoseLease, Stop, Crash, Boot, Person, Cancel, Approve, Reject, Resume,
         ReconcileDispatched, ReconcileNotDispatched, executor, vars
  <2>3. PICK m \in Node, to \in TaskState, s \in NodeStatus, e \in EffectState :
          /\ Moves(m, to, s, e)
          /\ Tries(m, to, s, e) \/ Works(m, to, s, e) \/ Ends(m, to, s, e)
    BY <2>1, <2>2, NodeMoves DEF NodeSteps, GraphInv
  <2>4. m = n /\ to = "done"
    BY <2>1, <2>3 DEF Moves
  <2>5. s = "completed" /\ ~Tries(m, to, s, e)
    BY <2>3, <2>4 DEF Tries, Works, Ends
  <2>6. task[n] \in Under /\ worker = "joining"
    <3>1. task[m] \in Under
      BY <2>1, <2>3, MovesFrom
    <3> QED BY <2>3, <2>4, <3>1 DEF Moves
  <2>7. Live
    <3>1. \A k \in Node : k # n => task[k] = "idle"
      BY <2>6 DEF Solo, Under
    <3> QED BY <2>6, <3>1 DEF Live, Ended, Under
  <2>8. rec.status = "running"
    BY <2>1, <2>6, <2>7 DEF HoldInv, Executing
  <2>9. Same(mem', rec') /\ mem.node \in [Node -> NodeStatus]
    BY <2>1, <2>3, <2>5, <2>8, MovesFrom
  <2>10. mem'.node = [mem.node EXCEPT ![m] = s]
    BY <2>3 DEF Moves
  <2> QED BY <2>4, <2>5, <2>9, <2>10 DEF Same
<1>2. Init => Solo(Node)
  BY DEF Init, Solo
<1>3. Sound /\ Solo(Node) /\ [Next]_vars => Solo(Node)'
  BY SoloInductive DEF Sound
<1>4. Spec => []Solo(Node)
  BY <1>2, <1>3, Soundness, PTL DEF Spec
<1>5. Sound /\ Solo(Node) /\ [Next]_vars =>
        [\A n \in Node :
           /\ task[n] # "done" /\ task'[n] = "done" /\ active = {}
           => rec'.node[n] = "completed"]_vars
  BY <1>1
<1> QED BY <1>4, <1>5, Soundness, PTL DEF Spec, CompletionIsSaved
-----------------------------------------------------------------------------
(***************************************************************************)
(* The effects of a run whose effectful nodes are in line, until a stop    *)
(* of the service catches an execution under way.                          *)
(***************************************************************************)
Known == Marked \cup {"unknown"}

\* What may be executed again holds no effect in doubt but those of managed
\* writes that wait to be repeated.
Resumable(r) == \A n \in Node : Uncertain(r, n) =>
                  n \notin Once /\ r.node[n] = "pending" /\ r.effect[n] # "unknown"

\* What rests holds only doubts that a person can settle.
Rested(r) == \A n \in Node : Uncertain(r, n) =>
               \/ r.effect[n] = "unknown"
               \/ r.effect[n] = "confirmed" /\ r.node[n] = "failed"

ByStatus(r) == /\ r.status = "queued" => Resumable(r)
               /\ r.status \in {"paused", "failed"} => Rested(r)
               /\ r.status \in {"waiting-approval", "completed"} => ~SomeUncertain(r)

\* The store holds the graph of r, except what a starting task has not saved.
Agree(r) == /\ rec.effect = r.effect
            /\ \A n \in Node : \/ rec.node[n] = r.node[n]
                               \/ worker = "joining" /\ task[n] = "started"

\* The journal of a task of a running run: what is idle or done is certain, and
\* what reaches outside once is marked in the store from its preparation on.
TaskMarks(n) ==
  /\ task[n] \in {"idle", "done"} => ~Uncertain(mem, n)
  /\ mem.effect[n] # "unknown"
  /\ n \in Once /\ task[n] \in {"started", "attempt", "working"} =>
       mem.effect[n] \in {"undefined", "none"}
  /\ n \in Once /\ task[n] \in {"prepared", "dispatched", "calling", "confirmed"} =>
       rec.effect[n] \in Marked

\* What was called is marked in every copy that may be saved or fallen back to,
\* and nothing that is on its way to a call has been called.
CallsMarked == \A n \in Once : calls[n] > 0 =>
  /\ rec.effect[n] \in Known /\ base.effect[n] \in Known
  /\ Executing => mem.effect[n] \in Known
CallsOnce == \A n \in Once :
  /\ calls[n] <= 1
  /\ /\ worker = "joining"
     /\ task[n] \in {"started", "attempt", "working", "prepared", "dispatched"}
     => calls[n] = 0

EffectInv ==
  /\ ByStatus(rec) /\ ByStatus(base)
  /\ worker = "claimed" => Resumable(rec) /\ (base.lease = claims => Agree(base))
  /\ worker \in {"starting", "rounds"} => Resumable(mem)
  /\ Executing /\ rec.status = "running" =>
       Agree(mem) /\ todo = {n \in Node : mem.node[n] = "pending"}
  /\ worker = "joining" /\ rec.status = "running" => \A n \in Node : TaskMarks(n)
  /\ CallsMarked /\ CallsOnce

\* Doubts are read from a node's state and effect.
LEMMA ByStatusSame ==
  ASSUME NEW r, NEW q, Same(r, q)
  PROVE  /\ Resumable(r) => Resumable(q)
         /\ ByStatus(r) => ByStatus(q)
BY DEF Same, Resumable, Rested, ByStatus, SomeUncertain, Uncertain

\* Parking leaves only doubts for a person, queueing again leaves none, and
\* neither takes a mark back.
LEMMA ParkMarks ==
  ASSUME NEW r \in Record
  PROVE  /\ ByStatus(ParkUncertain(r))
         /\ \A n \in Node : r.effect[n] \in Known => ParkUncertain(r).effect[n] \in Known
<1> DEFINE q == ParkUncertain(r)
<1>1. /\ q.status = "paused"
      /\ \A n \in Node :
           /\ q.node[n] = IF Uncertain(r, n) THEN "cancelled" ELSE r.node[n]
           /\ q.effect[n] = IF Uncertain(r, n) THEN "unknown" ELSE r.effect[n]
  BY ParkIs
<1> HIDE DEF q
<1>2. Rested(q)
  BY <1>1 DEF Rested, Uncertain
<1>3. \A n \in Node : r.effect[n] \in Known => q.effect[n] \in Known
  BY <1>1 DEF Known
<1> QED BY <1>1, <1>2, <1>3 DEF ByStatus, q

\* So for a run without doubts that is queued again.
LEMMA RequeueMarks ==
  ASSUME NEW r \in Record, ~SomeUncertain(r)
  PROVE  ByStatus(Requeue(r)) /\ Requeue(r).effect = r.effect
<1> DEFINE q == Requeue(r)
<1>1. /\ q.status = "queued" /\ q.effect = r.effect
      /\ \A n \in Node :
           q.node[n] = IF r.node[n] = "running" THEN "pending" ELSE r.node[n]
  BY RequeueIs
<1> HIDE DEF q
<1>2. \A n \in Node : ~Uncertain(q, n)
  BY <1>1 DEF Uncertain, SomeUncertain
<1> QED BY <1>1, <1>2 DEF ByStatus, Resumable, q

\* So recovery and the release of a lease keep the journal.
LEMMA TakenBackMarks ==
  ASSUME NEW r \in Record, ByStatus(r), r.status = "running" <=> r.lease # 0,
         NEW q, \/ q = Recovered(r)
                \/ \E recover \in BOOLEAN : q = Released(r, recover) /\ (recover \/ r.status # "running")
  PROVE  /\ ByStatus(q)
         /\ \A n \in Node : r.effect[n] \in Known => q.effect[n] \in Known
<1> DEFINE r1 == [r EXCEPT !.lease = 0]
           r2 == [r EXCEPT !.status = "cancelled", !.lease = 0]
<1>1. Same(r, r1)
  BY DEF Same, Record
<1>2. r2.status = "cancelled" /\ r2.effect = r.effect
  BY DEF Record
<1>3. \/ q = r \/ q = ParkUncertain(r) \/ q = r1 \/ q = r2
      \/ ~SomeUncertain(r) /\ q = Requeue(r)
  BY DEF Recovered, Released
<1> HIDE DEF r1, r2
<1>4. ByStatus(r1) /\ r1.effect = r.effect
  BY <1>1, ByStatusSame DEF Same
<1>5. ByStatus(r2)
  BY <1>2 DEF ByStatus
<1> QED BY <1>2, <1>3, <1>4, <1>5, ParkMarks, RequeueMarks

\* The blank record has no doubts.
LEMMA NewIsCertain == ByStatus(NewRecord) /\ Resumable(NewRecord)
BY DEF NewRecord, ByStatus, Resumable, Uncertain

\* A run that goes on, and that no stop has caught, is running.
LEMMA LiveIsRunning ==
  ASSUME Sound, Steady, Live
  PROVE  rec.status = "running" /\ service = "accepting"
BY DEF Sound, HoldInv, Steady, Unstopped, Executing, Live

\* So is the run of an effectful node under way.
LEMMA CallerIsAlone ==
  ASSUME Sound, Steady, Solo(Effectful), worker = "joining",
         NEW n \in Effectful, task[n] \in Under
  PROVE  /\ \A m \in Node : m # n => task[m] = "idle"
         /\ rec.status = "running"
<1>1. \A m \in Node : m # n => task[m] = "idle"
  BY DEF Solo, Under
<1>2. Live
  BY <1>1 DEF Live, Ended, Under
<1> QED BY <1>1, <1>2, LiveIsRunning

\* A node that is under way has no doubt beside it.
LEMMA OthersAreCertain ==
  ASSUME Sound, Solo(Effectful), EffectInv, worker = "joining", rec.status = "running",
         NEW n \in Node, task[n] # "idle", NEW m \in Node, m # n
  PROVE  ~Uncertain(mem, m)
<1>1. CASE m \in Effectful
  <2>1. task[m] = "idle"
    BY <1>1 DEF Solo
  <2> QED BY <2>1 DEF EffectInv, TaskMarks
<1>2. CASE m \notin Effectful
  BY <1>2 DEF Sound, GraphInv, Journal, Uncertain
<1> QED BY <1>1, <1>2

\* A step beside the worker that keeps the graph of a running record.
LEMMA EffectBeside ==
  ASSUME EffectInv, UNCHANGED <<worker, mem, todo, task, claims, calls>>, ByStatus(rec'),
         rec'.effect = rec.effect, rec'.node = rec.node,
         rec'.status = "running" => rec.status = "running",
         base' = rec \/ base' = base
  PROVE  EffectInv'
<1>1. ByStatus(base')
  BY DEF EffectInv
<1>2. worker = "claimed" => Resumable(rec') /\ (base'.lease = claims => Agree(base)')
  BY DEF EffectInv, Agree, Resumable, Uncertain
<1>3. Executing /\ rec'.status = "running" => Agree(mem)'
  BY DEF EffectInv, Agree
<1>4. worker = "joining" /\ rec'.status = "running" => \A n \in Node : TaskMarks(n)'
  BY DEF EffectInv, TaskMarks
<1>5. CallsMarked' /\ CallsOnce'
  BY DEF EffectInv, CallsMarked, CallsOnce, Executing
<1> QED BY <1>1, <1>2, <1>3, <1>4, <1>5 DEF EffectInv, Executing

\* A person's command on a run at rest.
LEMMA PersonEffect ==
  ASSUME Sound, EffectInv, NEW x \in Record, x.lease = 0, rec.status # "running",
         Save(x) \/ Mutate(Merge(rec, x)), x.status # "running", ByStatus(x),
         UNCHANGED <<service, worker, executor, people>>,
         \A n \in Once : /\ calls'[n] \in {calls[n], 0}
                         /\ calls'[n] > 0 /\ rec.effect[n] \in Known => x.effect[n] \in Known
  PROVE  EffectInv'
<1>1. base' = rec /\ Same(x, rec') /\ UNCHANGED <<worker, mem, todo, task, copy>>
  BY PersonWritten DEF Sound, executor, people
<1>2. ByStatus(rec') /\ rec'.status # "running" /\ rec'.effect = x.effect
  BY <1>1, ByStatusSame DEF Same
<1>3. worker # "claimed"
  BY DEF Sound, HoldInv
<1>4. \A n \in Once : calls[n] \in 0..2
  BY DEF Once, Sound, IInv, TypeOK
<1>5. CallsMarked'
  BY <1>1, <1>2, <1>4 DEF EffectInv, CallsMarked, Executing
<1>6. CallsOnce'
  BY <1>1, <1>4 DEF EffectInv, CallsOnce
<1> QED BY <1>1, <1>2, <1>3, <1>5, <1>6 DEF EffectInv
\* The worker takes the run, and gives it back, with its journal whole.
LEMMA ClaimEffect ==
  ASSUME Sound, Steady, EffectInv, Claim \/ HandBack \/ Release \/ Crash
  PROVE  EffectInv'
<1>1. /\ rec \in Record /\ base \in Record /\ ByStatus(rec) /\ ByStatus(base)
      /\ rec.status = "running" <=> rec.lease # 0
  BY DEF Sound, IInv, TypeOK, LeaseInv, Owned, EffectInv
<1>2. ASSUME worker' = "idle", ByStatus(rec'), base' = rec \/ base' = rec' \/ base' = base, ByStatus(base'),
             calls' = calls,
             \A n \in Once : rec.effect[n] \in Known /\ base.effect[n] \in Known => rec'.effect[n] \in Known
      PROVE  EffectInv'
  BY <1>2 DEF EffectInv, Executing, CallsMarked, CallsOnce
<1>3. CASE Claim
  <2> DEFINE q == [rec EXCEPT !.status = "running", !.lease = claims + 1]
  <2>1. /\ rec' = q /\ base' = rec /\ worker' = "claimed" /\ rec.status = "queued"
        /\ claims' = claims + 1 /\ calls' = calls
    BY <1>3 DEF Claim, Mutate, Write
  <2>2. q.node = rec.node /\ q.effect = rec.effect /\ q.status = "running"
    BY <1>1 DEF Record
  <2> HIDE DEF q
  <2>3. Resumable(rec') /\ ByStatus(rec')
    BY <1>1, <2>1, <2>2 DEF ByStatus, Resumable, Uncertain
  <2>4. base'.lease # claims'
    <3>1. rec.lease = 0 /\ claims \in Nat
      BY <1>1, <2>1 DEF Sound, IInv, TypeOK
    <3> QED BY <2>1, <3>1
  <2> QED BY <1>1, <2>1, <2>2, <2>3, <2>4 DEF EffectInv, Executing, CallsMarked, CallsOnce
<1>4. CASE HandBack \/ Release
  <2>1. PICK recover \in BOOLEAN : /\ rec' = Released(rec, recover) /\ base' = rec
                                  /\ (recover \/ rec.status # "running")
    <3>1. CASE HandBack
      BY <3>1 DEF HandBack, Mutate, Write
    <3>2. CASE Release
      <4> DEFINE lost == "leaseLost" \in active
      <4>1. lost \in BOOLEAN /\ rec' = Released(rec, lost) /\ base' = rec
        BY <3>2 DEF Release, Mutate, Write
      <4>2. lost \/ rec.status # "running"
        BY <3>2 DEF Release, Sound, IInv, RestInv
      <4> HIDE DEF lost
      <4> QED BY <4>1, <4>2
    <3> QED BY <1>4, <3>1, <3>2
  <2>2. worker' = "idle" /\ calls' = calls
    BY <1>4 DEF HandBack, Release, ghosts
  <2>3. ByStatus(rec') /\ \A n \in Node : rec.effect[n] \in Known => rec'.effect[n] \in Known
    BY <1>1, <2>1, TakenBackMarks
  <2> QED BY <1>1, <1>2, <2>1, <2>2, <2>3 DEF Once
<1>5. CASE Crash
  <2>1. /\ rec' \in {rec, base} /\ base' = rec' /\ worker' = "idle" /\ calls' = calls
    BY <1>5 DEF Crash
  <2> QED BY <1>1, <1>2, <2>1
<1> QED BY <1>3, <1>4, <1>5

\* An execution begins on the stored graph.
LEMMA BeginEffect == ASSUME Sound, Steady, EffectInv, Begin PROVE EffectInv'
<1> DEFINE s == IF base.cancel = "requested" THEN "cancelled" ELSE "running"
           m == [base EXCEPT !.status = s]
<1>1. /\ UNCHANGED <<rec, base, calls>> /\ worker' = "starting" /\ mem' = m
      /\ base.lease = claims /\ worker = "claimed" /\ todo' = {n \in Node : base.node[n] = "pending"}
  BY DEF Begin, store, people, ghosts
<1>2. m.node = base.node /\ m.effect = base.effect
  BY DEF Sound, IInv, TypeOK, Record
<1> HIDE DEF m
<1>3. rec.effect = base.effect /\ \A n \in Node : rec.node[n] = base.node[n]
  BY <1>1 DEF EffectInv, Agree
<1>4. Resumable(mem') /\ Agree(mem)'
  BY <1>1, <1>2, <1>3 DEF EffectInv, Resumable, Uncertain, Agree
<1>5. todo' = {n \in Node : mem'.node[n] = "pending"}
  BY <1>1, <1>2
<1>6. CallsMarked' /\ CallsOnce'
  BY <1>1, <1>2 DEF EffectInv, CallsMarked, CallsOnce
<1> QED BY <1>1, <1>4, <1>5, <1>6 DEF EffectInv

\* Its own saves, outside the rounds, record no doubt that a person could not
\* settle.
LEMMA ExecutorEffect ==
  ASSUME Sound, Steady, EffectInv, SaveBegin \/ Stuck \/ Finish
  PROVE  EffectInv'
<1>1. /\ mem \in Record /\ base \in Record /\ rec \in Record /\ Executing /\ IInv /\ GraphInv
      /\ Live /\ rec.status = "running" /\ worker' \in {"rounds", "noting", "ending"}
      /\ UNCHANGED <<todo, task, calls>>
  <2>1. Live /\ UNCHANGED <<todo, task, calls>> /\ worker' \in {"rounds", "noting", "ending"}
    BY DEF SaveBegin, Stuck, Finish, Live, executor, ghosts
  <2> QED BY <2>1, LiveIsRunning DEF Sound, IInv, TypeOK, Live, Executing
<1>2. /\ rec.effect = mem.effect /\ (worker \in {"starting", "rounds"} => rec.node = mem.node)
      /\ todo = {n \in Node : mem.node[n] = "pending"}
  <2>1. Agree(mem) /\ todo = {n \in Node : mem.node[n] = "pending"}
    BY <1>1 DEF EffectInv
  <2>2. rec.node \in [Node -> NodeStatus] /\ mem.node \in [Node -> NodeStatus]
    BY <1>1 DEF Record
  <2> QED BY <2>1, <2>2 DEF Agree
<1>3. AllGoing(mem) /\ Journal(mem) /\ mem.status \in {"running", "cancelled"}
  BY <1>1 DEF GraphInv
\* Saving the same graph under another status.
<1>4. ASSUME base' = rec, rec'.effect = mem.effect, mem'.effect = mem.effect, ByStatus(rec'),
             \/ worker' \in {"noting", "ending"} /\ rec'.status # "running"
             \/ worker' = "rounds" /\ Resumable(mem') /\ rec'.node = mem'.node /\ mem' = mem
             \/ worker' = "ending" /\ rec'.node = mem'.node /\ mem' = mem
      PROVE  EffectInv'
  <2>1. CallsMarked' /\ CallsOnce'
    BY <1>1, <1>2, <1>4 DEF EffectInv, CallsMarked, CallsOnce, Executing
  <2>2. rec'.status = "running" => Agree(mem)' /\ todo' = {n \in Node : mem'.node[n] = "pending"}
    BY <1>1, <1>2, <1>4 DEF Agree
  <2> QED BY <1>1, <1>4, <2>1, <2>2 DEF EffectInv
<1>5. CASE SaveBegin
  <2>1. /\ Save(mem) /\ mem' = mem /\ worker = "starting" /\ worker' \in {"rounds", "ending"}
    BY <1>5 DEF SaveBegin, executor
  <2>2. base' = rec /\ Same(mem, rec')
    BY <1>1, <2>1, ExecutorWrites
  <2>3. ByStatus(rec')
    BY <1>3, <2>2 DEF ByStatus, Same
  <2>4. Resumable(mem)
    BY <2>1 DEF EffectInv
  <2> QED BY <1>1, <1>4, <2>1, <2>2, <2>3, <2>4 DEF Same
<1>6. CASE Stuck
  <2> DEFINE x == [base EXCEPT !.status = "failed"]
  <2>1. /\ Save(x) /\ mem' = mem /\ worker' = "ending" /\ worker = "rounds" /\ Ready = {}
        /\ base = rec /\ base' = rec
    BY <1>6 DEF Stuck, executor, Save, Mutate, Write, Written
  <2>2. /\ x \in Record /\ x.node = rec.node /\ x.effect = rec.effect /\ x.status = "failed"
        /\ x.lease = rec.lease
    BY <1>1, <2>1 DEF Record, Status
  <2> HIDE DEF x
  <2>3. Same(x, rec')
    BY <1>1, <2>1, <2>2, MergeSame DEF Save, Mutate, Write
  <2>4. ASSUME NEW n \in Node PROVE ~Uncertain(mem, n)
    <3> SUFFICES ASSUME Uncertain(mem, n) PROVE FALSE
      OBVIOUS
    <3>1. mem.node[n] = "pending"
      BY <2>1 DEF EffectInv, Resumable
    <3>2. \A d \in Deps[n] : mem.node[d] = "completed"
      BY <1>3 DEF Journal, Begun, Uncertain
    <3>3. n \in Ready
      BY <1>2, <3>1, <3>2 DEF Ready, TerminalNode
    <3> QED BY <2>1, <3>3
  <2>5. /\ rec'.status = "failed" /\ rec'.effect = mem.effect
        /\ \A n \in Node : ~Uncertain(rec', n)
    BY <1>2, <2>1, <2>2, <2>3, <2>4 DEF Same, Uncertain
  <2>6. ByStatus(rec')
    BY <2>5 DEF ByStatus, Rested
  <2> QED BY <1>4, <2>1, <2>5, <2>6
<1>7. CASE Finish
  <2>1. /\ Save(mem') /\ mem' = [mem EXCEPT !.status = Verdict]
        /\ worker = "rounds" /\ worker' \in {"noting", "ending"}
        /\ "leaseLost" \notin active /\ (todo = {} \/ "cancelled" \in active)
    BY <1>7 DEF Finish
  <2>2. Verdict \in {"completed", "cancelled"}
    <3>1. "pause" \notin active
      BY <2>1 DEF Steady
    <3>2. \A n \in Node : mem.node[n] # "failed"
      BY <1>3 DEF AllGoing, Going
    <3> QED BY <3>1, <3>2 DEF Verdict
  <2>3. /\ mem' \in Record /\ mem'.node = mem.node /\ mem'.effect = mem.effect
        /\ mem'.lease = mem.lease /\ mem'.status \in {"completed", "cancelled"}
    <3> DEFINE t == Verdict
    <3>1. t \in Status /\ t \in {"completed", "cancelled"}
      BY <2>2 DEF Status
    <3>2. mem' = [mem EXCEPT !.status = t]
      BY <2>1
    <3> HIDE DEF t
    <3> QED BY <1>1, <3>1, <3>2 DEF Record
  <2>4. base' = rec /\ Same(mem', rec')
    BY <1>1, <2>1, <2>3, ExecutorWrites
  <2>5. rec'.status # "running" /\ rec'.effect = mem.effect /\ rec'.node = mem.node
        /\ rec'.status = Verdict
    <3>1. mem'.status = Verdict
      BY <1>1, <2>1 DEF Record
    <3> QED BY <2>3, <2>4, <3>1 DEF Same
  <2>6. ASSUME Verdict = "completed" PROVE ~SomeUncertain(rec')
    <3>1. todo = {}
      BY <2>1, <2>6 DEF Verdict
    <3>2. \A n \in Node : ~Uncertain(mem, n)
      BY <1>2, <2>1, <3>1 DEF EffectInv, Resumable
    <3> QED BY <2>5, <3>2 DEF SomeUncertain, Uncertain
  <2>7. ByStatus(rec')
    BY <2>2, <2>5, <2>6 DEF ByStatus
  <2> QED BY <1>4, <2>1, <2>3, <2>4, <2>5, <2>7
<1> QED BY <1>5, <1>6, <1>7

\* Noting a completed run, or failing it, leaves its calls as they are.
LEMMA NotedEffect ==
  ASSUME Sound, Steady, EffectInv, Noted \/ NoteFails
  PROVE  EffectInv'
<1>1. CASE Noted
  <2>1. worker = "noting" /\ worker' = "ending" /\ UNCHANGED <<rec, base, mem, todo, task, calls>>
    BY <1>1 DEF Noted, store, executor, ghosts
  <2> QED BY <2>1 DEF EffectInv, Executing, Agree, CallsMarked, CallsOnce
<1>2. CASE NoteFails
  <2>1. /\ base' = rec /\ rec'.status = "failed" /\ rec'.node = rec.node
        /\ rec'.effect = rec.effect /\ worker = "noting" /\ worker' = "ending"
        /\ UNCHANGED <<mem, todo, task, calls>>
    BY <1>2, NoteFailsIs DEF Sound, executor, ghosts
  <2>2. rec.status = "completed"
    BY <2>1 DEF Sound, HoldInv, Steady, Unstopped, Executing
  <2>3. \A n \in Node : ~Uncertain(rec', n)
    BY <2>1, <2>2 DEF EffectInv, ByStatus, SomeUncertain, Uncertain
  <2>4. ByStatus(rec') /\ ByStatus(base')
    BY <2>1, <2>3 DEF EffectInv, ByStatus, Rested
  <2>5. CallsMarked' /\ CallsOnce'
    BY <2>1 DEF EffectInv, CallsMarked, CallsOnce, Executing
  <2> QED BY <2>1, <2>4, <2>5 DEF EffectInv
<1> QED BY <1>1, <1>2

\* A round starts with everything else certain.
LEMMA RoundEffect == ASSUME Sound, Steady, EffectInv, Round PROVE EffectInv'
<1>1. /\ worker = "rounds" /\ worker' = "joining" /\ todo' = todo \ Ready
      /\ UNCHANGED <<rec, base, calls>>
      /\ mem'.effect = mem.effect
      /\ \A n \in Node : mem'.node[n] = IF n \in Ready THEN "running" ELSE mem.node[n]
      /\ task' = [n \in Node |-> IF n \in Ready THEN "started" ELSE "idle"]
  BY RoundIs DEF Sound
<1>2. Live /\ Executing /\ rec.status = "running"
  <2>1. Live
    BY <1>1 DEF Live
  <2> QED BY <1>1, <2>1, LiveIsRunning DEF Executing
<1>3. /\ rec.effect = mem.effect /\ \A n \in Node : rec.node[n] = mem.node[n]
      /\ todo = {n \in Node : mem.node[n] = "pending"} /\ Resumable(mem)
  BY <1>1, <1>2 DEF EffectInv, Agree
<1>4. Agree(mem)' /\ todo' = {n \in Node : mem'.node[n] = "pending"}
  BY <1>1, <1>3 DEF Agree, Ready
<1>5. ASSUME NEW n \in Node, Uncertain(mem, n) PROVE n \in Ready /\ n \notin Once /\ mem.effect[n] # "unknown"
  <2>1. mem.node[n] = "pending" /\ n \notin Once /\ mem.effect[n] # "unknown"
    BY <1>3, <1>5 DEF Resumable
  <2>2. \A d \in Deps[n] : mem.node[d] = "completed"
    BY <1>5 DEF Sound, GraphInv, Journal, Begun, Uncertain
  <2> QED BY <1>3, <2>1, <2>2 DEF Ready, TerminalNode
<1>6. ASSUME NEW n \in Node PROVE TaskMarks(n)'
  <2>1. mem.effect[n] \in EffectState
    BY DEF Sound, IInv, TypeOK, Record
  <2>2. n \notin Ready => ~Uncertain(mem', n)
    BY <1>1, <1>5 DEF Uncertain
  <2>3. mem.effect[n] # "unknown"
    BY <1>5 DEF Uncertain
  <2>4. n \in Once /\ n \in Ready => mem.effect[n] \in {"undefined", "none"}
    BY <1>5, <2>1 DEF Uncertain, Ready, EffectState
  <2> QED BY <1>1, <2>2, <2>3, <2>4 DEF TaskMarks
<1>7. CallsMarked'
  BY <1>1, <1>2 DEF EffectInv, CallsMarked, Executing
<1>8. CallsOnce'
  <2> SUFFICES ASSUME NEW n \in Once, n \in Ready PROVE calls[n] = 0
    BY <1>1 DEF EffectInv, CallsOnce, Once
  <2>1. n \in Node /\ calls[n] \in 0..2
    BY DEF Once, Sound, IInv, TypeOK
  <2>2. ~(mem.effect[n] \in Known)
    BY <1>5, <2>1 DEF Known, Marked, Uncertain, Ready
  <2>3. ~(calls[n] > 0)
    BY <1>2, <2>2 DEF EffectInv, CallsMarked
  <2> QED BY <2>1, <2>3
<1> QED BY <1>1, <1>4, <1>6, <1>7, <1>8 DEF EffectInv
\* A step of a node that saves nothing.
LEMMA TriesEffect ==
  ASSUME Sound, Steady, EffectInv, Solo(Effectful), NEW n \in Node,
         NEW to, NEW s, NEW e, Moves(n, to, s, e), Tries(n, to, s, e)
  PROVE  EffectInv'
<1>1. /\ task[n] \in Under /\ task \in [Node -> TaskState] /\ calls \in [Node -> 0..2]
      /\ mem.node \in [Node -> NodeStatus] /\ mem.effect \in [Node -> EffectState]
  BY MovesFrom DEF Sound, IInv, TypeOK
<1>2. /\ worker = "joining" /\ worker' = "joining" /\ todo' = todo /\ claims' = claims
      /\ task' = [task EXCEPT ![n] = to] /\ UNCHANGED <<rec, base>>
      /\ mem'.node = mem.node /\ mem'.effect = mem.effect
  BY <1>1 DEF Moves, Tries, store
<1>3. /\ \A m \in Node \ {n} : task'[m] = task[m]
      /\ task'[n] = to /\ to \in {"working", "calling", "stopped"}
      /\ to = "working" => task[n] = "attempt"
      /\ task[n] # "started"
  BY <1>1, <1>2 DEF Tries
<1>4. rec.status = "running" => Agree(mem)' /\ todo' = {m \in Node : mem'.node[m] = "pending"}
  BY <1>2, <1>3 DEF EffectInv, Agree, Executing
<1>5. rec.status = "running" => \A m \in Node : TaskMarks(m)'
  <2> SUFFICES ASSUME rec.status = "running", NEW m \in Node PROVE TaskMarks(m)'
    OBVIOUS
  <2>1. TaskMarks(m)
    BY <1>2 DEF EffectInv
  <2>2. CASE m # n
    BY <1>2, <1>3, <2>1, <2>2 DEF TaskMarks, Uncertain
  <2>3. CASE m = n
    <3>1. to = "calling" /\ n \in Once => task[n] \in {"dispatched"}
      BY DEF Tries
    <3> QED BY <1>2, <1>3, <2>1, <2>3, <3>1 DEF TaskMarks
  <2> QED BY <2>2, <2>3
<1>6. CASE calls' = calls
  <2>1. CallsMarked' /\ CallsOnce'
    <3>1. \A m \in Node : task'[m] \in {"started", "attempt", "working", "prepared", "dispatched"}
             => task[m] \in {"started", "attempt", "working", "prepared", "dispatched"}
      BY <1>3
    <3>2. CallsMarked'
      BY <1>2, <1>6 DEF EffectInv, CallsMarked, Executing
    <3>3. CallsOnce'
      BY <1>2, <1>6, <3>1 DEF EffectInv, CallsOnce, Once
    <3> QED BY <3>2, <3>3
  <2> QED BY <1>2, <1>4, <1>5, <2>1 DEF EffectInv
<1>7. CASE calls' # calls
  <2>1. /\ to = "calling" /\ base = rec
        /\ task[n] = IF n \in Once THEN "dispatched" ELSE "prepared"
        /\ calls' = [calls EXCEPT ![n] = IF @ < 2 THEN @ + 1 ELSE @]
    BY <1>7 DEF Tries, Written
  <2>2. \A m \in Node : m # n => calls'[m] = calls[m]
    BY <1>1, <2>1
  <2>3. ASSUME n \in Once
        PROVE  calls'[n] = 1 /\ rec.effect[n] \in Marked /\ mem.effect[n] \in Marked
    <3>1. calls[n] = 0
      BY <1>2, <2>1, <2>3 DEF EffectInv, CallsOnce
    <3>2. n \in Effectful
      BY <2>3 DEF Once, Effectful
    <3>3. rec.status = "running"
      BY <1>1, <1>2, <3>2, CallerIsAlone
    <3>4. rec.effect[n] \in Marked /\ rec.effect = mem.effect
      BY <1>2, <2>1, <2>3, <3>3 DEF EffectInv, TaskMarks, Agree, Executing
    <3> QED BY <1>1, <2>1, <3>1, <3>4
  <2>4. CallsMarked'
    <3> SUFFICES ASSUME NEW m \in Once, calls'[m] > 0
                 PROVE  /\ rec.effect[m] \in Known /\ base.effect[m] \in Known
                        /\ mem.effect[m] \in Known
      BY <1>2 DEF CallsMarked, Executing
    <3>1. CASE m = n
      BY <2>1, <2>3, <3>1 DEF Known
    <3>2. CASE m # n
      <4>1. calls[m] > 0
        BY <2>2, <3>2 DEF Once
      <4> QED BY <1>2, <4>1 DEF EffectInv, CallsMarked, Executing
    <3> QED BY <3>1, <3>2
  <2>5. CallsOnce'
    <3> SUFFICES ASSUME NEW m \in Once
                 PROVE  /\ calls'[m] <= 1
                        /\ task'[m] \in {"started", "attempt", "working", "prepared", "dispatched"}
                             => calls'[m] = 0
      BY <1>2 DEF CallsOnce
    <3>1. CASE m = n
      BY <1>3, <2>1, <2>3, <3>1
    <3>2. CASE m # n
      BY <1>2, <1>3, <2>2, <3>2 DEF EffectInv, CallsOnce, Once
    <3> QED BY <3>1, <3>2
  <2> QED BY <1>2, <1>4, <1>5, <2>4, <2>5 DEF EffectInv
<1> QED BY <1>6, <1>7

\* What a saved step of a node leaves alone, and what it leaves of the node.
LEMMA SavedStep ==
  ASSUME Sound, Steady, EffectInv, NEW n \in Node, NEW to, NEW s, NEW e,
         Moves(n, to, s, e), Works(n, to, s, e) \/ Ends(n, to, s, e)
  PROVE  /\ task[n] \in Under /\ task \in [Node -> TaskState]
         /\ worker = "joining" /\ worker' = "joining" /\ todo' = todo /\ claims' = claims
         /\ calls' = calls /\ base' = rec /\ base = rec
         /\ mem'.node[n] = s /\ mem'.effect[n] = e /\ task'[n] = to
         /\ \A m \in Node \ {n} : /\ mem'.node[m] = mem.node[m] /\ mem'.effect[m] = mem.effect[m]
                                  /\ task'[m] = task[m]
         /\ rec.status # "running" => rec' = rec
         /\ rec.status = "running" => Same(mem', rec')
         /\ to \in Under \cup {"done"} => mem'.status = mem.status /\ s # "pending"
         /\ mem.node[n] = "running"
<1>1. /\ task[n] \in Under /\ mem.node[n] = "running" /\ task \in [Node -> TaskState]
      /\ mem.node \in [Node -> NodeStatus] /\ mem.effect \in [Node -> EffectState]
  BY MovesFrom DEF Sound, IInv, TypeOK
<1>2. Save(mem') /\ calls' = calls
  BY DEF Works, Ends
<1>3. /\ worker = "joining" /\ mem' \in Record /\ mem'.lease = mem.lease /\ Executing
  BY DEF Moves, Executing
<1>4. /\ base' = rec /\ base = rec
      /\ rec.status = "running" => Same(mem', rec')
      /\ rec.status # "running" => rec' = rec
  BY <1>2, <1>3, ExecutorWrites DEF Sound
<1>5. to \in Under \cup {"done"} => mem'.status = mem.status /\ s # "pending"
  BY <1>1 DEF Works, Ends, Under
<1>6. /\ worker' = "joining" /\ todo' = todo /\ claims' = claims
      /\ task' = [task EXCEPT ![n] = to]
      /\ mem'.node = [mem.node EXCEPT ![n] = s] /\ mem'.effect = [mem.effect EXCEPT ![n] = e]
  BY DEF Moves
<1>7. /\ mem'.node[n] = s /\ mem'.effect[n] = e /\ task'[n] = to
      /\ \A m \in Node \ {n} : /\ mem'.node[m] = mem.node[m] /\ mem'.effect[m] = mem.effect[m]
                               /\ task'[m] = task[m]
  BY <1>1, <1>6
<1> QED BY <1>1, <1>2, <1>3, <1>4, <1>5, <1>6, <1>7

\* The marks of calls survive it.
LEMMA SavedCalls ==
  ASSUME Sound, Steady, EffectInv, Solo(Effectful), NEW n \in Node, NEW to, NEW s, NEW e,
         Moves(n, to, s, e), Works(n, to, s, e) \/ Ends(n, to, s, e)
  PROVE  CallsMarked' /\ CallsOnce'
<1>1. /\ task[n] \in Under
      /\ worker = "joining" /\ worker' = "joining" /\ calls' = calls /\ base' = rec
      /\ mem'.effect[n] = e /\ task'[n] = to
      /\ \A m \in Node \ {n} : mem'.effect[m] = mem.effect[m] /\ task'[m] = task[m]
      /\ rec.status # "running" => rec' = rec
      /\ rec.status = "running" => Same(mem', rec')
  BY SavedStep
<1>2. n \in Once => e \in Known \/ e = mem.effect[n]
  BY DEF Works, Ends, Known, Marked, Once, Effectful
<1>3. ASSUME NEW m \in Once, calls[m] > 0
      PROVE  rec'.effect[m] \in Known /\ mem'.effect[m] \in Known /\ rec.effect[m] \in Known
  <2>1. rec.effect[m] \in Known /\ mem.effect[m] \in Known /\ m \in Node
    BY <1>1, <1>3 DEF EffectInv, CallsMarked, Executing, Once
  <2>2. mem'.effect[m] \in Known
    BY <1>1, <1>2, <2>1
  <2> QED BY <1>1, <2>1, <2>2 DEF Same
<1>4. CallsMarked'
  BY <1>1, <1>3 DEF CallsMarked
<1>5. n \in Once /\ to \in {"started", "attempt", "working", "prepared", "dispatched"}
        => task[n] \in {"started", "attempt", "working", "prepared", "dispatched"}
  BY DEF Works, Ends
<1>6. CallsOnce'
  BY <1>1, <1>5 DEF EffectInv, CallsOnce, Once
<1> QED BY <1>4, <1>6
\* A node's progress is saved while the run is running, and marked before it is
\* called.
LEMMA WorksEffect ==
  ASSUME Sound, Steady, EffectInv, Solo(Effectful), NEW n \in Node,
         NEW to, NEW s, NEW e, Moves(n, to, s, e), Works(n, to, s, e)
  PROVE  EffectInv'
<1>1. /\ task[n] \in Under
      /\ worker = "joining" /\ worker' = "joining" /\ todo' = todo /\ base' = rec
      /\ mem'.node[n] = s /\ mem'.effect[n] = e /\ task'[n] = to
      /\ \A m \in Node \ {n} : /\ mem'.node[m] = mem.node[m] /\ mem'.effect[m] = mem.effect[m]
                               /\ task'[m] = task[m]
      /\ rec.status # "running" => rec' = rec
      /\ rec.status = "running" => Same(mem', rec')
      /\ mem.node[n] = "running"
  BY SavedStep
<1>2. CallsMarked' /\ CallsOnce' /\ ByStatus(rec) /\ Executing
  BY <1>1, SavedCalls DEF EffectInv, Executing
<1>3. CASE rec.status # "running"
  BY <1>1, <1>2, <1>3 DEF EffectInv
<1>4. CASE rec.status = "running"
  <2>1. mem'.status \in {"running", "cancelled"}
    BY <1>1, <1>2, <1>4 DEF Works, Sound, GraphInv
  <2>2. ByStatus(rec') /\ rec'.node = mem'.node /\ rec'.effect = mem'.effect
    BY <1>1, <1>4, <2>1 DEF ByStatus, Same
  <2>3. Agree(mem)' /\ rec.effect = mem.effect /\ todo = {m \in Node : mem.node[m] = "pending"}
    BY <1>2, <1>4, <2>2 DEF EffectInv, Agree
  <2>4. todo' = {m \in Node : mem'.node[m] = "pending"}
    BY <1>1, <2>3 DEF Works
  <2>5. ASSUME NEW m \in Node PROVE TaskMarks(m)'
    <3>1. TaskMarks(m)
      BY <1>1, <1>4 DEF EffectInv
    <3>2. CASE m # n
      BY <1>1, <2>2, <2>3, <3>1, <3>2 DEF TaskMarks, Uncertain
    <3>3. CASE m = n
      <4>1. /\ to \in {"attempt", "prepared", "dispatched", "returned", "confirmed"}
            /\ to = "attempt" => task[n] = "started" /\ e = mem.effect[n]
            /\ to # "attempt" => e \in Marked
        BY DEF Works, Marked
      <4> QED BY <1>1, <2>2, <3>1, <3>3, <4>1 DEF TaskMarks, Marked
    <3> QED BY <3>2, <3>3
  <2> QED BY <1>1, <1>2, <2>2, <2>3, <2>4, <2>5 DEF EffectInv
<1> QED BY <1>3, <1>4

\* A node's end is saved with nothing in doubt but what the outcome says.
LEMMA EndsEffect ==
  ASSUME Sound, Steady, EffectInv, Solo(Effectful), NEW n \in Node,
         NEW to, NEW s \in NodeStatus, NEW e \in EffectState, Moves(n, to, s, e), Ends(n, to, s, e)
  PROVE  EffectInv'
<1>1. /\ task[n] \in Under
      /\ worker = "joining" /\ worker' = "joining" /\ todo' = todo /\ base' = rec
      /\ mem'.node[n] = s /\ mem'.effect[n] = e /\ task'[n] = to
      /\ \A m \in Node \ {n} : /\ mem'.node[m] = mem.node[m] /\ mem'.effect[m] = mem.effect[m]
                               /\ task'[m] = task[m]
      /\ rec.status # "running" => rec' = rec
      /\ rec.status = "running" => Same(mem', rec')
      /\ mem.node[n] = "running"
  BY SavedStep
<1>2. CallsMarked' /\ CallsOnce' /\ ByStatus(rec) /\ Executing
  BY <1>1, SavedCalls DEF EffectInv, Executing
<1>3. CASE rec.status # "running"
  BY <1>1, <1>2, <1>3 DEF EffectInv
<1>4. CASE rec.status = "running" /\ to = "done"
  <2>1. s = "completed" /\ e = mem.effect[n] /\ mem'.status = mem.status
    BY <1>4 DEF Ends
  <2>2. mem'.status \in {"running", "cancelled"}
    BY <1>2, <1>4, <2>1 DEF Sound, GraphInv
  <2>3. ByStatus(rec') /\ rec'.node = mem'.node /\ rec'.effect = mem'.effect
    BY <1>1, <1>4, <2>2 DEF ByStatus, Same
  <2>4. Agree(mem)' /\ rec.effect = mem.effect /\ todo = {m \in Node : mem.node[m] = "pending"}
    BY <1>2, <1>4, <2>3 DEF EffectInv, Agree
  <2>5. todo' = {m \in Node : mem'.node[m] = "pending"}
    BY <1>1, <2>1, <2>4
  <2>6. ASSUME NEW m \in Node PROVE TaskMarks(m)'
    <3>1. TaskMarks(m)
      BY <1>1, <1>4 DEF EffectInv
    <3>2. CASE m # n
      BY <1>1, <2>3, <2>4, <3>1, <3>2 DEF TaskMarks, Uncertain
    <3>3. CASE m = n
      <4>1. e \in {"undefined", "none", "confirmed"}
        <5>1. task[n] = "confirmed" => mem.effect[n] = "confirmed"
          BY <1>1 DEF Sound, GraphInv, TasksInv
        <5>2. n \notin Effectful => mem.effect[n] = "undefined"
          BY DEF Sound, GraphInv, Journal
        <5> QED BY <1>4, <2>1, <5>1, <5>2 DEF Ends
      <4> QED BY <1>1, <1>4, <2>1, <3>3, <4>1 DEF TaskMarks, Uncertain
    <3> QED BY <3>2, <3>3
  <2> QED BY <1>1, <1>2, <2>3, <2>4, <2>5, <2>6 DEF EffectInv
<1>5. CASE rec.status = "running" /\ to # "done"
  <2>1. ASSUME NEW m \in Node, m # n PROVE ~Uncertain(mem', m)
    <3>1. ~Uncertain(mem, m)
      BY <1>1, <1>5, <2>1, OthersAreCertain DEF Under
    <3> QED BY <1>1, <2>1, <3>1 DEF Uncertain
  <2>2. mem.effect[n] # "unknown" /\ (n \notin Effectful => mem.effect[n] = "undefined")
    BY <1>1, <1>5 DEF EffectInv, TaskMarks, Sound, GraphInv, Journal
  <2>3. ByStatus(mem') /\ mem'.status # "running"
    <3>1. CASE to = "waiting"
      <4>1. mem'.status = "waiting-approval" /\ e = "undefined"
        BY <2>2, <3>1 DEF Ends, Effectful
      <4>2. ~Uncertain(mem', n)
        BY <1>1, <4>1 DEF Uncertain
      <4> QED BY <2>1, <4>1, <4>2 DEF ByStatus, SomeUncertain
    <3>2. CASE to = "stopped" /\ mem'.status = "queued"
      <4>1. s = "pending" /\ e = mem.effect[n] /\ n \notin Once
        BY <1>5, <3>2 DEF Ends
      <4>2. Resumable(mem')
        BY <1>1, <2>1, <2>2, <4>1 DEF Resumable
      <4> QED BY <3>2, <4>2 DEF ByStatus
    <3>3. CASE to = "stopped" /\ mem'.status # "queued"
      <4>1. mem'.status \in {"paused", "failed", "cancelled"} /\ (e = "unknown" \/ e \notin Known)
        BY <1>5, <2>2, <3>3 DEF Ends, Known
      <4>2. Rested(mem')
        BY <1>1, <2>1, <4>1 DEF Rested, Uncertain, Known, Marked
      <4> QED BY <4>1, <4>2 DEF ByStatus
    <3> QED BY <1>5, <3>1, <3>2, <3>3 DEF Ends
  <2>4. ByStatus(rec') /\ rec'.status # "running"
    BY <1>1, <1>5, <2>3, ByStatusSame DEF Same
  <2> QED BY <1>1, <1>2, <2>4 DEF EffectInv
<1> QED BY <1>3, <1>4, <1>5

\* The service's steps keep the journal.
LEMMA ServiceEffect ==
  ASSUME Sound, Steady, EffectInv,
         \/ Flush \/ StopStep \/ Stop \/ Boot \/ CancelAborts \/ LoseLease \/ LeaveLost \/ Join
  PROVE  EffectInv'
<1>1. /\ rec \in Record /\ ByStatus(rec)
      /\ rec.status = "running" <=> rec.lease # 0
  BY DEF Sound, IInv, TypeOK, LeaseInv, Owned, EffectInv
<1>2. CASE Flush \/ Stop \/ CancelAborts \/ LoseLease
  <2>1. /\ UNCHANGED <<rec, worker, mem, todo, task, claims, calls>> /\ base' \in {rec, base}
    BY <1>2 DEF Flush, Stop, CancelAborts, LoseLease, store, executor, ghosts
  <2> QED BY <1>1, <2>1, EffectBeside
<1>3. CASE StopStep
  <2>1. UNCHANGED <<rec, base, worker, mem, todo, task, claims, calls>>
    BY <1>3 DEF StopStep, StopReads, StopPauses, Stopped, Steady, store, executor, ghosts
  <2> QED BY <1>1, <2>1, EffectBeside
<1>4. CASE Boot
  <2>1. /\ rec' = Recovered(rec) /\ base' = rec /\ service \in {"down", "stopped"}
        /\ UNCHANGED <<worker, mem, todo, task, calls>>
    BY <1>1, <1>4 DEF Boot, Mutate, Write, executor, ghosts
  <2>2. ByStatus(rec') /\ \A n \in Node : rec.effect[n] \in Known => rec'.effect[n] \in Known
    BY <1>1, <2>1, TakenBackMarks
  <2>3. worker = "idle"
    BY <2>1 DEF Sound, HoldInv, IInv, LeaseInv
  <2>4. CallsMarked' /\ CallsOnce'
    BY <2>1, <2>2, <2>3 DEF EffectInv, CallsMarked, CallsOnce, Once, Executing
  <2> QED BY <1>1, <2>1, <2>2, <2>3, <2>4 DEF EffectInv, Executing
<1>5. CASE LeaveLost
  <2>1. worker = "rounds" /\ worker' = "ending" /\ UNCHANGED <<rec, base, mem, todo, task, calls>>
    BY <1>5 DEF LeaveLost, store, executor, ghosts
  <2> QED BY <2>1 DEF EffectInv, Executing, Agree, CallsMarked, CallsOnce
<1>6. CASE Join
  <2>1. /\ worker = "joining" /\ worker' = IF Ended THEN "ending" ELSE "rounds"
        /\ \A n \in Node : task[n] \in {"idle", "done", "waiting", "stopped"}
        /\ UNCHANGED <<rec, base, mem, todo, task, calls>>
    BY <1>6 DEF Join, Ended, store, executor, ghosts
  <2>2. rec.status = "running" => Agree(mem)' /\ todo' = {n \in Node : mem'.node[n] = "pending"}
    BY <2>1 DEF EffectInv, Executing, Agree
  <2>3. worker' = "rounds" => Resumable(mem)
    <3> SUFFICES ASSUME ~Ended PROVE \A n \in Node : ~Uncertain(mem, n)
      BY <2>1 DEF Resumable
    <3>1. rec.status = "running"
      BY <2>1, LiveIsRunning DEF Live
    <3>2. \A n \in Node : task[n] \in {"idle", "done"}
      BY <2>1 DEF Ended
    <3> QED BY <2>1, <3>1, <3>2 DEF EffectInv, TaskMarks
  <2>4. CallsMarked' /\ CallsOnce'
    BY <2>1 DEF EffectInv, CallsMarked, CallsOnce, Executing
  <2> QED BY <2>1, <2>2, <2>3, <2>4 DEF EffectInv
<1> QED BY <1>2, <1>3, <1>4, <1>5, <1>6

\* So do the commands of people, who take marks back one by one.
LEMMA CommandEffect == ASSUME Sound, Steady, EffectInv, Person PROVE EffectInv'
<1>1. /\ IInv /\ rec \in Record /\ ByStatus(rec) /\ Journal(rec) /\ Stands(rec)
      /\ calls \in [Node -> 0..2]
      /\ rec.status = "running" <=> rec.lease # 0
  BY DEF Sound, IInv, TypeOK, LeaseInv, Owned, EffectInv, GraphInv, GraphOf
<1>2. CASE Cancel
  <2>1. /\ UNCHANGED <<worker, mem, todo, task, claims, calls>>
        /\ rec'.node = rec.node /\ rec'.effect = rec.effect
        /\ base' = rec \/ base' = base
        /\ rec' = rec \/ Same(rec, rec') \/ rec'.status = "cancelled"
    BY <1>1, <1>2, CancelIs DEF executor
  <2>2. ByStatus(rec') /\ (rec'.status = "running" => rec.status = "running")
    BY <1>1, <2>1, ByStatusSame DEF ByStatus, Same
  <2> QED BY <2>1, <2>2, EffectBeside
<1>3. CASE Approve \/ Reject
  <2>1. /\ rec.status = "waiting-approval" /\ rec.wait \in Node /\ rec.lease = 0
        /\ calls' = calls /\ UNCHANGED <<service, worker, executor, people>>
    BY <1>1, <1>3 DEF Approve, Reject, Stands, ghosts
  <2>2. /\ ~SomeUncertain(rec) /\ rec.effect[rec.wait] = "undefined"
    BY <1>1, <2>1 DEF ByStatus, Stands, Journal, Effectful
  <2>3. ASSUME NEW s \in {"completed", "failed"}, NEW r, r.effect = rec.effect,
               r.node = [rec.node EXCEPT ![rec.wait] = s]
        PROVE  ~SomeUncertain(r)
    <3>1. \A n \in Node : n # rec.wait => r.node[n] = rec.node[n]
      BY <1>1, <2>1, <2>3 DEF Record
    <3> QED BY <2>2, <2>3, <3>1 DEF SomeUncertain, Uncertain
  <2>4. CASE Approve
    <3> DEFINE d == Decided("completed")
               x == Prepared(d)
    <3>1. Save(x)
      BY <2>4 DEF Approve, Decided
    <3>2. d \in Record /\ d.effect = rec.effect /\ d.node = [rec.node EXCEPT ![rec.wait] = "completed"]
      BY <1>1, <2>1, DecidedIs DEF NodeStatus
    <3> HIDE DEF d
    <3>3. x \in Record /\ x.status = "queued" /\ x.lease = 0 /\ x.node = d.node /\ x.effect = d.effect
      BY <3>2, PreparedIs
    <3> HIDE DEF x
    <3>4. ByStatus(x)
      BY <2>3, <3>2, <3>3 DEF ByStatus, Resumable, SomeUncertain
    <3> QED BY <2>1, <3>1, <3>2, <3>3, <3>4, PersonEffect
  <2>5. CASE Reject
    <3> DEFINE d == Decided("failed")
               x == [d EXCEPT !.status = "failed"]
    <3>1. Save(x)
      BY <2>5 DEF Reject, Decided
    <3>2. /\ d \in Record /\ d.effect = rec.effect /\ d.lease = rec.lease
          /\ d.node = [rec.node EXCEPT ![rec.wait] = "failed"]
      BY <1>1, <2>1, DecidedIs DEF NodeStatus
    <3> HIDE DEF d
    <3>3. /\ x \in Record /\ x.status = "failed" /\ x.lease = d.lease
          /\ x.node = d.node /\ x.effect = d.effect
      BY <3>2, WithStatusIs DEF Status
    <3> HIDE DEF x
    <3>4. ByStatus(x)
      BY <2>3, <3>2, <3>3 DEF ByStatus, Rested, SomeUncertain
    <3> QED BY <2>1, <3>1, <3>2, <3>3, <3>4, PersonEffect
  <2> QED BY <1>3, <2>4, <2>5
<1>4. CASE Resume
  <2> DEFINE x == Prepared(Resumed)
  <2>1. /\ rec.status \in {"paused", "failed"} /\ Mutate(Merge(rec, x)) /\ ~SomeUncertain(rec)
        /\ calls' = calls /\ UNCHANGED <<service, worker, executor, people>>
    BY <1>4 DEF Resume, SafeToResume, Resumed, ghosts
  <2>2. /\ Resumed \in Record /\ Resumed.effect = rec.effect
        /\ \A n \in Node : Resumed.node[n] = IF rec.node[n] = "completed"
                                            THEN "completed" ELSE "pending"
    BY <1>1, ResumedIs
  <2>3. x \in Record /\ x.status = "queued" /\ x.lease = 0 /\ x.node = Resumed.node
        /\ x.effect = rec.effect
    BY <2>2, PreparedIs
  <2> HIDE DEF x
  <2>4. \A n \in Node : ~Uncertain(x, n)
    BY <2>1, <2>2, <2>3 DEF SomeUncertain, Uncertain
  <2>5. ByStatus(x)
    BY <2>3, <2>4 DEF ByStatus, Resumable
  <2> QED BY <2>1, <2>3, <2>5, PersonEffect
<1>5. ASSUME NEW n \in Node, ReconcileDispatched(n) \/ ReconcileNotDispatched(n)
      PROVE  EffectInv'
  <2>1. /\ rec.lease = 0 /\ rec.status \in {"paused", "failed", "cancelled"}
        /\ UNCHANGED <<service, worker, executor, people>>
    BY <1>1, <1>5, ReconciledIs
  <2>2. rec.node \in [Node -> NodeStatus] /\ rec.effect \in [Node -> EffectState]
    BY <1>1 DEF Record
  <2>3. ASSUME NEW x \in Record, Save(x), x.lease = 0,
               x.status = IF rec.status = "cancelled" THEN "cancelled" ELSE "failed",
               x.node = [rec.node EXCEPT ![n] = "failed"],
               x.effect = [rec.effect EXCEPT ![n] = "confirmed"], calls' = calls
        PROVE  EffectInv'
    <3>1. /\ x.node[n] = "failed" /\ x.effect[n] = "confirmed"
          /\ \A m \in Node \ {n} : x.node[m] = rec.node[m] /\ x.effect[m] = rec.effect[m]
      BY <2>2, <2>3
    <3>2. rec.status # "cancelled" => Rested(x)
      BY <1>1, <2>1, <3>1 DEF ByStatus, Rested, Uncertain
    <3>3. ByStatus(x) /\ x.status # "running"
      BY <2>3, <3>2 DEF ByStatus
    <3>4. \A m \in Node : rec.effect[m] \in Known => x.effect[m] \in Known
      BY <3>1 DEF Known, Marked
    <3> QED BY <2>1, <2>3, <3>3, <3>4, PersonEffect DEF Once
  <2>4. ASSUME NEW x \in Record, Save(x), x.lease = 0,
               x.effect = [rec.effect EXCEPT ![n] = "none"], calls' = [calls EXCEPT ![n] = 0],
               x.status = "cancelled" <=> rec.status = "cancelled",
               \/ /\ x.status \in {"paused", "cancelled"}
                  /\ x.node = [rec.node EXCEPT ![n] = "pending"]
               \/ /\ x.status = "queued" /\ ~SomeUncertain(x)
        PROVE  EffectInv'
    <3>1. /\ x.effect[n] = "none"
          /\ \A m \in Node \ {n} : x.effect[m] = rec.effect[m] /\ calls'[m] = calls[m]
          /\ calls'[n] = 0
      BY <1>1, <2>2, <2>4
    <3>2. ASSUME x.status \in {"paused", "cancelled"}, x.node = [rec.node EXCEPT ![n] = "pending"]
          PROVE  ByStatus(x)
      <4>1. \A m \in Node \ {n} : x.node[m] = rec.node[m]
        BY <2>2, <3>2
      <4>2. rec.status # "cancelled" => Rested(x)
        BY <1>1, <2>1, <3>1, <4>1 DEF ByStatus, Rested, Uncertain
      <4> QED BY <2>4, <3>2, <4>2 DEF ByStatus
    <3>3. ASSUME x.status = "queued", ~SomeUncertain(x)
          PROVE  ByStatus(x)
      BY <3>3 DEF ByStatus, Resumable, SomeUncertain
    <3>4. ByStatus(x) /\ x.status # "running"
      BY <2>4, <3>2, <3>3
    <3>5. \A m \in Once : /\ calls'[m] \in {calls[m], 0}
                          /\ calls'[m] > 0 /\ rec.effect[m] \in Known => x.effect[m] \in Known
      BY <3>1 DEF Once
    <3> QED BY <2>1, <2>4, <3>4, <3>5, PersonEffect
  <2> QED BY <1>1, <1>5, <2>3, <2>4, ReconciledIs
<1> QED BY <1>2, <1>3, <1>4, <1>5 DEF Person

\* A new run has no effects.
LEMMA EffectInitially == Init => EffectInv
<1> SUFFICES ASSUME Init PROVE EffectInv
  OBVIOUS
<1>1. /\ rec = NewRecord /\ base = NewRecord /\ worker = "idle"
      /\ calls = [n \in Node |-> 0]
  BY DEF Init
<1>2. \A n \in Once : calls[n] = 0
  BY <1>1 DEF Once
<1>3. ByStatus(rec) /\ ByStatus(base)
  BY <1>1, NewIsCertain
<1> QED BY <1>1, <1>2, <1>3 DEF EffectInv, CallsMarked, CallsOnce, Executing

\* Every step keeps the journal of effects.
LEMMA EffectInductive ==
  ASSUME Sound, Solo(Effectful), Steady, EffectInv, [Next]_vars
  PROVE  EffectInv'
<1>1. CASE Claim \/ HandBack \/ Release \/ Crash
  BY <1>1, ClaimEffect
<1>2. CASE Begin
  BY <1>2, BeginEffect
<1>3. CASE SaveBegin \/ Stuck \/ Finish
  BY <1>3, ExecutorEffect
<1>4. CASE Round
  BY <1>4, RoundEffect
<1>5. CASE Flush \/ StopStep \/ Stop \/ Boot \/ CancelAborts \/ LoseLease \/ LeaveLost \/ Join
  BY <1>5, ServiceEffect
<1>6. CASE NodeSteps
  <2>1. PICK n \in Node : NodeStep(n)
    BY <1>6 DEF NodeSteps
  <2>2. IInv /\ Journal(mem)
    <3>1. worker = "joining"
      BY <2>1 DEF NodeStep, SaveStart, Attempt, AskApproval, Prepare, Dispatch, Call, Confirm,
           Complete, Retry, Abandon, Park, FailNode, Goes
    <3> QED BY <3>1 DEF Sound, GraphInv, Executing
  <2>3. PICK to \in TaskState, s \in NodeStatus, e \in EffectState :
          Moves(n, to, s, e) /\ (Tries(n, to, s, e) \/ Works(n, to, s, e) \/ Ends(n, to, s, e))
    BY <2>1, <2>2, NodeMoves
  <2>4. CASE Tries(n, to, s, e)
    BY <2>3, <2>4, TriesEffect
  <2>5. CASE Works(n, to, s, e)
    BY <2>3, <2>5, WorksEffect
  <2>6. CASE Ends(n, to, s, e)
    BY <2>3, <2>6, EndsEffect
  <2> QED BY <2>3, <2>4, <2>5, <2>6
<1>7. CASE Person
  BY <1>7, CommandEffect
<1>8. CASE UNCHANGED vars
  <2>1. UNCHANGED <<rec, base, worker, mem, todo, task, claims, calls>>
    BY <1>8 DEF vars, store, executor, ghosts
  <2>2. ByStatus(rec')
    BY <2>1 DEF EffectInv
  <2> QED BY <2>1, <2>2, EffectBeside
<1>9. CASE Noted \/ NoteFails
  BY <1>9, NotedEffect
<1> QED BY <1>1, <1>2, <1>3, <1>4, <1>5, <1>6, <1>7, <1>8, <1>9 DEF Next, WorkerStep

\* So the invariant holds in every behaviour without a stop that catches an
\* execution.
LEMMA EffectInvariance ==
  ASSUME InLine(Effectful)
  PROVE  Spec /\ []Unstopped => []EffectInv
<1>1. /\ Init => Solo(Effectful)
      /\ Sound /\ Solo(Effectful) /\ [Next]_vars => Solo(Effectful)'
  <2>1. Effectful \in SUBSET Node
    BY DEF Effectful
  <2>2. Init => Solo(Effectful)
    BY DEF Init, Solo
  <2> HIDE DEF Effectful
  <2> QED BY <2>1, <2>2, SoloInductive DEF Sound
<1>2. Init => EffectInv
  BY EffectInitially
<1>3. Sound /\ Solo(Effectful) /\ Steady /\ EffectInv /\ [Next]_vars => EffectInv'
  BY EffectInductive
<1> QED BY <1>1, <1>2, <1>3, Soundness, Steadiness, PTL DEF Spec

\* A call that reaches outside, and that is not safe to repeat, is made at most
\* once until a person has said that it did not happen, for every interleaving
\* of claims, crashes, lost leases, cancellations, approvals, resumes and
\* reconciliations, when the effectful nodes are in line with all others and
\* no orderly stop of the service catches an execution under way.
THEOREM CallsAreNotReplayed ==
  ASSUME InLine(Effectful)
  PROVE  Spec /\ []Unstopped => []NoBlindReplay
<1>1. EffectInv => NoBlindReplay
  BY DEF EffectInv, CallsOnce, NoBlindReplay
<1> QED BY <1>1, EffectInvariance, PTL

\* Under the same conditions whatever was called stands in the stored journal.
THEOREM CallsStayJournalled ==
  ASSUME InLine(Effectful)
  PROVE  Spec /\ []Unstopped => []CallsAreJournalled
<1>1. EffectInv => CallsAreJournalled
  BY DEF EffectInv, CallsMarked, CallsAreJournalled, Journalled, Known
<1> QED BY <1>1, EffectInvariance, PTL

\* And a run at rest holds no doubt that a person could not settle.
THEOREM DoubtsAreMarked ==
  ASSUME InLine(Effectful)
  PROVE  Spec /\ []Unstopped => []UncertainIsMarked
<1>1. EffectInv => UncertainIsMarked
  BY DEF EffectInv, ByStatus, Rested, UncertainIsMarked
<1> QED BY <1>1, EffectInvariance, PTL
-----------------------------------------------------------------------------
(***************************************************************************)
(* Completion of a run whose nodes are all in line.                        *)
(***************************************************************************)
\* No node of r is under way, every one is completed; what is to be executed
\* again is the former, what is completed is the latter.
Calm(r) == \A n \in Node : r.node[n] # "running"
AllDone(r) == \A n \in Node : r.node[n] = "completed"
Fits(r) == /\ r.status \in {"queued", "waiting-approval"} => Calm(r)
           /\ r.status = "completed" => AllDone(r)

\* An execution that goes on has every node before it, behind it or under way.
OnItsWay == Live => \A n \in Node :
  IF n \in todo THEN mem.node[n] = "pending"
  ELSE mem.node[n] = "completed" \/ (worker = "joining" /\ task[n] # "idle")

DoneInv ==
  /\ Fits(rec) /\ Fits(base)
  /\ service = "pausing" => copy.status = "paused"
  /\ worker = "claimed" => Calm(rec) /\ (base.lease = claims => Calm(base))
  /\ OnItsWay

\* Only the graph and the status matter to these.
LEMMA FitsSame ==
  ASSUME NEW r, NEW q, q.node = r.node,
         q.status = r.status \/ q.status \in {"running", "paused", "failed", "cancelled"}
  PROVE  /\ Fits(r) => Fits(q)
         /\ Calm(r) => Calm(q)
BY DEF Fits, Calm, AllDone

\* What recovery and a release leave is fit for its status.
LEMMA TakenBackFits ==
  ASSUME NEW r \in Record, Fits(r), NEW q,
         q = Recovered(r) \/ \E recover \in BOOLEAN : q = Released(r, recover)
  PROVE  Fits(q)
<1> DEFINE r1 == [r EXCEPT !.lease = 0]
           r2 == [r EXCEPT !.status = "cancelled", !.lease = 0]
<1>1. r1.node = r.node /\ r1.status = r.status
  BY DEF Record
<1>2. r2.status = "cancelled"
  BY DEF Record
<1>3. q = r \/ q = ParkUncertain(r) \/ q = r1 \/ q = r2 \/ q = Requeue(r)
  BY DEF Recovered, Released
<1> HIDE DEF r1, r2
<1>4. Fits(ParkUncertain(r))
  BY ParkIs DEF Fits
<1>5. Fits(Requeue(r))
  <2> DEFINE p == Requeue(r)
  <2>1. /\ p.status = "queued"
        /\ \A n \in Node : p.node[n] = IF r.node[n] = "running" THEN "pending" ELSE r.node[n]
    BY RequeueIs
  <2> HIDE DEF p
  <2>2. Fits(p)
    BY <2>1 DEF Fits, Calm
  <2> QED BY <2>2 DEF p
<1>6. Fits(r1) /\ Fits(r2)
  BY <1>1, <1>2, FitsSame DEF Fits
<1> QED BY <1>3, <1>4, <1>5, <1>6

\* A step beside the worker that leaves the graph of the record alone.
LEMMA DoneBeside ==
  ASSUME DoneInv, UNCHANGED <<worker, mem, todo, task, claims>>,
         Fits(rec'), worker = "claimed" => rec'.node = rec.node,
         base' = rec \/ base' = base,
         service' = "pausing" => copy'.status = "paused"
  PROVE  DoneInv'
<1>1. Fits(base') /\ OnItsWay'
  BY DEF DoneInv, OnItsWay, Live, Ended
<1>2. worker = "claimed" => Calm(rec') /\ (base'.lease = claims => Calm(base'))
  BY FitsSame DEF DoneInv, Calm
<1> QED BY <1>1, <1>2 DEF DoneInv

\* A step after which no execution goes on and no claim is held.
LEMMA DoneLeft ==
  ASSUME DoneInv, Fits(rec'), base' \in {rec, base, rec'}, worker' \in {"idle", "noting", "ending"},
         service' = "pausing" => copy'.status = "paused"
  PROVE  DoneInv'
BY DEF DoneInv, OnItsWay, Live

\* A person's command on a run at rest.
LEMMA PersonDone ==
  ASSUME Sound, DoneInv, NEW x \in Record, x.lease = 0, rec.status # "running",
         Save(x) \/ Mutate(Merge(rec, x)), Fits(x),
         UNCHANGED <<service, worker, executor, people, claims>>
  PROVE  DoneInv'
<1>1. base' = rec /\ Same(x, rec') /\ UNCHANGED <<worker, mem, todo, task, copy, service, claims>>
  BY PersonWritten DEF Sound, executor, people
<1>2. Fits(rec') /\ worker # "claimed"
  BY <1>1, FitsSame DEF Same, Sound, HoldInv
<1> QED BY <1>1, <1>2, DoneBeside DEF DoneInv

\* The worker takes the run and gives it back.
LEMMA ClaimDone ==
  ASSUME Sound, DoneInv, Claim \/ HandBack \/ Release \/ Crash
  PROVE  DoneInv'
<1>1. /\ rec \in Record /\ Fits(rec) /\ Fits(base) /\ claims \in Nat
      /\ rec.status = "running" <=> rec.lease # 0
      /\ service = "pausing" => copy.status = "paused"
  BY DEF Sound, IInv, TypeOK, LeaseInv, Owned, DoneInv
<1>2. CASE Claim
  <2> DEFINE q == [rec EXCEPT !.status = "running", !.lease = claims + 1]
  <2>1. /\ rec' = q /\ base' = rec /\ worker' = "claimed" /\ rec.status = "queued"
        /\ claims' = claims + 1 /\ UNCHANGED <<service, copy>>
    BY <1>2 DEF Claim, Mutate, Write, people
  <2>2. q.node = rec.node /\ q.status = "running"
    BY <1>1 DEF Record
  <2> HIDE DEF q
  <2>3. Calm(rec') /\ Fits(rec')
    BY <1>1, <2>1, <2>2 DEF Fits, Calm
  <2>4. base'.lease # claims'
    BY <1>1, <2>1
  <2> QED BY <1>1, <2>1, <2>3, <2>4 DEF DoneInv, OnItsWay, Live
<1>3. CASE HandBack \/ Release
  <2>1. PICK recover \in BOOLEAN : rec' = Released(rec, recover) /\ base' = rec
    <3>1. CASE HandBack
      BY <3>1 DEF HandBack, Mutate, Write
    <3>2. CASE Release
      <4> DEFINE lost == "leaseLost" \in active
      <4>1. lost \in BOOLEAN /\ rec' = Released(rec, lost) /\ base' = rec
        BY <3>2 DEF Release, Mutate, Write
      <4> HIDE DEF lost
      <4> QED BY <4>1
    <3> QED BY <1>3, <3>1, <3>2
  <2>2. UNCHANGED <<service, copy>> /\ worker' = "idle"
    BY <1>3 DEF HandBack, Release, people
  <2>3. Fits(rec')
    BY <1>1, <2>1, TakenBackFits
  <2> QED BY <1>1, <2>1, <2>2, <2>3, DoneLeft
<1>4. CASE Crash
  <2>1. /\ rec' \in {rec, base} /\ base' = rec' /\ worker' = "idle" /\ service' = "down"
    BY <1>4 DEF Crash
  <2> QED BY <1>1, <2>1, DoneLeft
<1> QED BY <1>2, <1>3, <1>4

\* An execution begins with every node behind it or before it, and ends with a
\* verdict of completion only when all are behind it.
LEMMA ExecutorDone ==
  ASSUME Sound, DoneInv, \/ Begin \/ SaveBegin \/ Stuck \/ Finish \/ Round \/ Join \/ LeaveLost
                         \/ Noted \/ NoteFails
  PROVE  DoneInv'
<1>1. /\ rec \in Record /\ base \in Record /\ mem \in Record /\ Fits(rec) /\ Fits(base)
      /\ UNCHANGED <<service, copy, claims>>
      /\ service = "pausing" => copy.status = "paused"
      /\ IInv /\ GraphInv /\ HoldInv
  BY DEF Sound, IInv, TypeOK, DoneInv, Begin, SaveBegin, Stuck, Finish, Round, Join, LeaveLost,
         Noted, NoteFails, people, ghosts
<1>2. CASE Begin
  <2> DEFINE s == IF base.cancel = "requested" THEN "cancelled" ELSE "running"
             m == [base EXCEPT !.status = s]
  <2>1. /\ UNCHANGED <<rec, base>> /\ worker' = "starting" /\ mem' = m
        /\ base.lease = claims /\ worker = "claimed" /\ todo' = {n \in Node : base.node[n] = "pending"}
    BY <1>2 DEF Begin, store
  <2>2. m.node = base.node
    BY <1>1 DEF Record
  <2> HIDE DEF m
  <2>3. base.status = "running"
    BY <1>1, <2>1 DEF IInv, LeaseInv, Owned
  <2>4. AllGoing(base) /\ Calm(base)
    BY <1>1, <2>1, <2>3 DEF GraphInv, GraphOf, Stands, DoneInv
  <2>5. OnItsWay'
    BY <2>1, <2>2, <2>4 DEF OnItsWay, AllGoing, Going, Calm
  <2> QED BY <1>1, <2>1, <2>5 DEF DoneInv
<1>3. CASE SaveBegin
  <2>1. /\ Save(mem) /\ UNCHANGED <<mem, todo, task>> /\ worker = "starting"
        /\ worker' \in {"rounds", "ending"}
    BY <1>3 DEF SaveBegin, executor
  <2>2. base' = rec /\ (rec' = rec \/ Same(mem, rec'))
    BY <1>1, <2>1, ExecutorWrites DEF Executing
  <2>3. mem.status \in {"running", "cancelled"}
    BY <1>1, <2>1 DEF GraphInv, Executing, Live
  <2>4. Fits(rec')
    BY <1>1, <2>2, <2>3 DEF Fits, Same
  <2>5. OnItsWay'
    BY <2>1 DEF DoneInv, OnItsWay, Live
  <2> QED BY <1>1, <2>1, <2>2, <2>4, <2>5 DEF DoneInv
<1>4. CASE Stuck
  <2> DEFINE x == [base EXCEPT !.status = "failed"]
  <2>1. rec' = Merge(rec, Synced(x)) /\ base' = rec /\ worker' = "ending"
    BY <1>4 DEF Stuck, Save, Mutate, Write
  <2>2. x \in Record /\ x.status = "failed"
    BY <1>1 DEF Record, Status
  <2> HIDE DEF x
  <2>3. rec' = rec \/ Same(x, rec')
    BY <1>1, <2>1, <2>2, MergeSame, MergeStale, SyncedAlike DEF Alike
  <2>4. Fits(rec')
    BY <1>1, <2>2, <2>3 DEF Fits, Same
  <2> QED BY <1>1, <2>1, <2>4, DoneLeft
<1>5. CASE Finish
  <2>1. Save(mem') /\ mem' = [mem EXCEPT !.status = Verdict] /\ worker' \in {"noting", "ending"}
        /\ worker = "rounds" /\ (todo = {} \/ "cancelled" \in active)
    BY <1>5 DEF Finish
  <2>2. /\ Verdict \in {"paused", "cancelled", "failed", "completed"}
        /\ Verdict = "completed" => todo = {}
    BY <2>1 DEF Verdict
  <2>3. /\ mem' \in Record /\ mem'.node = mem.node /\ mem'.lease = mem.lease
        /\ mem'.status \in {"paused", "cancelled", "failed", "completed"}
        /\ mem'.status = "completed" => todo = {}
    <3> DEFINE t == Verdict
    <3>1. t \in Status /\ t \in {"paused", "cancelled", "failed", "completed"}
          /\ (t = "completed" => todo = {})
      BY <2>2 DEF Status
    <3>2. mem' = [mem EXCEPT !.status = t]
      BY <2>1
    <3> HIDE DEF t
    <3> QED BY <1>1, <3>1, <3>2 DEF Record
  <2>4. base' = rec /\ (rec' = rec \/ Same(mem', rec'))
    BY <1>1, <2>1, <2>3, ExecutorWrites DEF Executing
  <2>5. todo = {} => AllDone(mem)
    BY <2>1 DEF DoneInv, OnItsWay, Live, AllDone
  <2>6. Fits(rec')
    BY <1>1, <2>3, <2>4, <2>5 DEF Fits, Same, AllDone
  <2> QED BY <1>1, <2>1, <2>4, <2>6, DoneLeft
<1>6. CASE Round
  <2>1. /\ worker = "rounds" /\ worker' = "joining" /\ todo' = todo \ Ready
        /\ UNCHANGED <<rec, base>>
        /\ \A n \in Node : mem'.node[n] = IF n \in Ready THEN "running" ELSE mem.node[n]
        /\ task' = [n \in Node |-> IF n \in Ready THEN "started" ELSE "idle"]
    BY <1>1, <1>6, RoundIs
  <2>2. OnItsWay'
    BY <2>1 DEF DoneInv, OnItsWay, Live
  <2> QED BY <1>1, <2>1, <2>2 DEF DoneInv
<1>7. CASE Join
  <2>1. /\ UNCHANGED <<rec, base, mem, todo, task>> /\ worker = "joining"
        /\ \A n \in Node : task[n] \in {"idle", "done", "waiting", "stopped"}
        /\ worker' = IF Ended THEN "ending" ELSE "rounds"
    BY <1>7 DEF Join, store, executor, Ended
  <2>2. OnItsWay'
    BY <1>1, <2>1 DEF DoneInv, OnItsWay, Live, Ended, GraphInv, TasksInv
  <2> QED BY <1>1, <2>1, <2>2 DEF DoneInv
<1>8. CASE LeaveLost \/ Noted
  BY <1>1, <1>8, DoneLeft DEF LeaveLost, Noted, store
<1>9. CASE NoteFails
  <2>1. base' = rec /\ rec'.status = "failed" /\ worker' = "ending"
    BY <1>1, <1>9, NoteFailsIs
  <2>2. Fits(rec')
    BY <2>1 DEF Fits
  <2> QED BY <1>1, <2>1, <2>2, DoneLeft
<1> QED BY <1>2, <1>3, <1>4, <1>5, <1>6, <1>7, <1>8, <1>9

\* The service's steps.
LEMMA ServiceDone ==
  ASSUME Sound, DoneInv, Flush \/ StopStep \/ Boot \/ CancelAborts \/ LoseLease \/ Stop
  PROVE  DoneInv'
<1>1. /\ rec \in Record /\ base \in Record /\ copy \in Record /\ Fits(rec)
      /\ service = "pausing" => copy.status = "paused"
  BY DEF Sound, IInv, TypeOK, DoneInv
<1>2. UNCHANGED <<worker, mem, todo, task, claims>>
  BY DEF Flush, StopStep, StopReads, StopPauses, Stopped, Boot, CancelAborts, LoseLease, Stop,
         executor, ghosts
<1>3. CASE Flush \/ Stopped \/ CancelAborts \/ LoseLease \/ Stop
  <2>1. /\ rec' = rec /\ base' \in {rec, base} /\ copy' = copy
        /\ service' = service \/ service' \in {"stopped", "stopping"}
    BY <1>3 DEF Flush, Stopped, CancelAborts, LoseLease, Stop, store, people
  <2> QED BY <1>1, <1>2, <2>1, DoneBeside
<1>4. CASE StopReads
  <2> DEFINE q == [base EXCEPT !.status = "paused"]
  <2>1. UNCHANGED <<rec, base>> /\ (service' = "pausing" => copy' = q)
    BY <1>4 DEF StopReads, store
  <2>2. q.status = "paused"
    BY <1>1 DEF Record
  <2> QED BY <1>1, <1>2, <2>1, <2>2, DoneBeside
<1>5. CASE StopPauses
  <2>1. /\ rec' = Merge(rec, Synced(copy)) /\ base' = rec /\ service' = "draining"
        /\ copy.status = "paused" /\ worker # "claimed"
    BY <1>1, <1>5 DEF StopPauses, Write, Sound, HoldInv
  <2>2. rec' = rec \/ Same(copy, rec')
    BY <1>1, <2>1, MergeSame, MergeStale, SyncedAlike DEF Alike
  <2>3. Fits(rec')
    BY <1>1, <2>1, <2>2 DEF Fits, Same
  <2> QED BY <1>2, <2>1, <2>3, DoneBeside
<1>6. CASE Boot
  <2>1. /\ rec' = Recovered(rec) /\ base' = rec /\ service' = "accepting"
        /\ service \in {"down", "stopped"}
    BY <1>6 DEF Boot, Mutate, Write
  <2>2. worker = "idle"
    BY <2>1 DEF Sound, HoldInv, IInv, LeaseInv
  <2>3. Fits(rec')
    BY <1>1, <2>1, TakenBackFits
  <2> QED BY <1>2, <2>1, <2>2, <2>3, DoneBeside
<1> QED BY <1>3, <1>4, <1>5, <1>6 DEF StopStep

\* A node's steps: it is under way, and ends a round with the others at rest.
LEMMA NodeDone ==
  ASSUME Sound, DoneInv, Solo(Node), NodeSteps
  PROVE  DoneInv'
<1>1. IInv /\ GraphInv /\ HoldInv /\ DoneInv /\ Fits(rec) /\ Fits(base)
  BY DEF Sound, DoneInv
<1>2. PICK n \in Node : NodeStep(n)
  BY DEF NodeSteps
<1>3. PICK to \in TaskState, s \in NodeStatus, e \in EffectState :
        Moves(n, to, s, e) /\ (Tries(n, to, s, e) \/ Works(n, to, s, e) \/ Ends(n, to, s, e))
  BY <1>1, <1>2, NodeMoves DEF GraphInv
<1>4. /\ task[n] \in Under /\ mem.node[n] = "running" /\ worker = "joining"
      /\ mem.node \in [Node -> NodeStatus] /\ base' \in {rec, base}
      /\ rec' = rec \/ (Same(mem', rec') /\ ~Tries(n, to, s, e))
  BY <1>1, <1>3, MovesFrom DEF Moves
<1>5. /\ UNCHANGED <<service, worker, todo, copy, claims>>
      /\ task' = [task EXCEPT ![n] = to] /\ mem'.node = [mem.node EXCEPT ![n] = s]
      /\ task \in [Node -> TaskState]
  BY <1>1, <1>3 DEF Moves, IInv, TypeOK
<1>6. /\ mem'.node[n] = s /\ task'[n] = to
      /\ \A m \in Node : m # n => mem'.node[m] = mem.node[m] /\ task'[m] = task[m] /\ task[m] = "idle"
  BY <1>4, <1>5 DEF Solo, Under
<1>7. Live /\ mem.status = "running"
  <2>1. ~Ended
    BY <1>4, <1>6 DEF Ended, Under
  <2> QED BY <1>1, <1>4, <2>1 DEF Live, HoldInv
<1>8. /\ n \notin todo
      /\ \A m \in Node : m # n => mem.node[m] \in {"pending", "completed"}
  BY <1>1, <1>4, <1>6, <1>7 DEF DoneInv, OnItsWay
<1>9. OnItsWay'
  <2> SUFFICES ASSUME NEW m \in Node
               PROVE  IF m \in todo' THEN mem'.node[m] = "pending"
                      ELSE mem'.node[m] = "completed" \/ (worker' = "joining" /\ task'[m] # "idle")
    BY DEF OnItsWay
  <2>1. to # "idle"
    BY <1>3 DEF Tries, Works, Ends
  <2> QED BY <1>1, <1>4, <1>5, <1>6, <1>7, <1>8, <2>1 DEF DoneInv, OnItsWay
<1>10. Fits(rec')
  <2>1. CASE rec' = rec
    BY <1>1, <2>1
  <2>2. CASE Same(mem', rec') /\ ~Tries(n, to, s, e)
    <3>1. \/ mem'.status \in {"running", "paused", "failed", "cancelled"}
          \/ mem'.status \in {"queued", "waiting-approval"} /\ s = "pending"
      BY <1>3, <1>7, <2>2 DEF Works, Ends
    <3>2. s = "pending" => Calm(mem')
      BY <1>6, <1>8 DEF Calm
    <3> QED BY <2>2, <3>1, <3>2 DEF Fits, Same, Calm
  <2> QED BY <1>4, <2>1, <2>2
<1> QED BY <1>1, <1>4, <1>5, <1>9, <1>10 DEF DoneInv

\* What people ask for.
LEMMA CommandDone == ASSUME Sound, DoneInv, Person PROVE DoneInv'
<1>1. /\ IInv /\ rec \in Record /\ Fits(rec) /\ Stands(rec)
      /\ rec.status = "running" <=> rec.lease # 0
      /\ service = "pausing" => copy.status = "paused"
  BY DEF Sound, IInv, TypeOK, LeaseInv, Owned, DoneInv, GraphInv, GraphOf
<1>2. CASE Cancel
  <2>1. /\ UNCHANGED <<service, worker, mem, todo, task, claims, copy>>
        /\ rec'.node = rec.node
        /\ base' = rec \/ base' = base
        /\ rec' = rec \/ Same(rec, rec') \/ rec'.status = "cancelled"
    BY <1>1, <1>2, CancelIs DEF executor
  <2>2. Fits(rec')
    BY <1>1, <2>1 DEF Same, Fits, Calm, AllDone
  <2> QED BY <1>1, <2>1, <2>2, DoneBeside
<1>3. CASE Approve
  <2> DEFINE d == Decided("completed")
             x == Prepared(d)
  <2>1. Save(x) /\ rec.status = "waiting-approval" /\ UNCHANGED <<service, worker, executor, people, claims>>
    BY <1>3 DEF Approve, Decided, ghosts
  <2>2. rec.wait \in Node
    BY <1>1, <2>1 DEF Stands
  <2>3. d \in Record /\ d.node = [rec.node EXCEPT ![rec.wait] = "completed"]
    BY <1>1, <2>2, DecidedIs DEF NodeStatus
  <2> HIDE DEF d
  <2>4. x \in Record /\ x.status = "queued" /\ x.lease = 0 /\ x.node = d.node
    BY <2>3, PreparedIs
  <2> HIDE DEF x
  <2>5. Calm(x)
    BY <1>1, <2>1, <2>2, <2>3, <2>4 DEF Fits, Calm, Record
  <2>6. Fits(x)
    BY <2>4, <2>5 DEF Fits
  <2> QED BY <2>1, <2>4, <2>6, PersonDone
<1>4. CASE Reject
  <2> DEFINE d == Decided("failed")
             x == [d EXCEPT !.status = "failed"]
  <2>1. Save(x) /\ rec.status = "waiting-approval" /\ UNCHANGED <<service, worker, executor, people, claims>>
    BY <1>4 DEF Reject, Decided, ghosts
  <2>2. d \in Record /\ d.lease = rec.lease
    BY <1>1, <2>1, DecidedIs DEF NodeStatus, Stands
  <2> HIDE DEF d
  <2>3. x \in Record /\ x.status = "failed" /\ x.lease = 0
    BY <1>1, <2>1, <2>2, WithStatusIs DEF Status
  <2> HIDE DEF x
  <2> QED BY <2>1, <2>3, PersonDone DEF Fits
<1>5. CASE Resume
  <2> DEFINE x == Prepared(Resumed)
  <2>1. /\ rec.status \in {"paused", "failed"} /\ Mutate(Merge(rec, x))
        /\ UNCHANGED <<service, worker, executor, people, claims>>
    BY <1>5 DEF Resume, SafeToResume, Resumed, ghosts
  <2>2. /\ Resumed \in Record
        /\ \A n \in Node : Resumed.node[n] = IF rec.node[n] = "completed"
                                            THEN "completed" ELSE "pending"
    BY <1>1, ResumedIs
  <2>3. x \in Record /\ x.status = "queued" /\ x.lease = 0 /\ x.node = Resumed.node
    BY <2>2, PreparedIs
  <2> HIDE DEF x
  <2>4. Fits(x)
    BY <2>2, <2>3 DEF Fits, Calm
  <2> QED BY <2>1, <2>3, <2>4, PersonDone
<1>6. ASSUME NEW n \in Node, ReconcileDispatched(n) \/ ReconcileNotDispatched(n)
      PROVE  DoneInv'
  <2>1. /\ rec.lease = 0 /\ rec.status \in {"paused", "failed", "cancelled"}
        /\ UNCHANGED <<service, worker, executor, people>>
    BY <1>1, <1>6, ReconciledIs
  <2>2. claims' = claims
    BY <1>6 DEF ReconcileDispatched, ReconcileNotDispatched, ghosts
  <2>3. ASSUME NEW x \in Record, Save(x), x.lease = 0, Fits(x)
        PROVE  DoneInv'
    BY <2>1, <2>2, <2>3, PersonDone
  <2>4. ASSUME NEW x \in Record, Save(x), x.lease = 0,
               x.status = IF rec.status = "cancelled" THEN "cancelled" ELSE "failed"
        PROVE  DoneInv'
    BY <2>3, <2>4 DEF Fits
  <2>5. ASSUME NEW x \in Record, Save(x), x.lease = 0,
               \/ /\ x.status \in {"paused", "cancelled"}
                  /\ x.node = [rec.node EXCEPT ![n] = "pending"]
               \/ /\ x.status = "queued" /\ ~SomeUncertain(x)
                  /\ \A m \in Node : x.node[m] =
                       IF rec.node[m] = "completed" /\ m # n THEN "completed" ELSE "pending"
        PROVE  DoneInv'
    <3>1. Fits(x)
      BY <2>5 DEF Fits, Calm
    <3> QED BY <2>3, <2>5, <3>1
  <2> QED BY <1>1, <1>6, <2>4, <2>5, ReconciledIs
<1> QED BY <1>2, <1>3, <1>4, <1>5, <1>6 DEF Person

\* Every step of a run whose nodes are in line keeps the invariant.
LEMMA DoneInductive ==
  ASSUME Sound, Solo(Node), DoneInv, [Next]_vars
  PROVE  DoneInv'
<1>1. CASE UNCHANGED vars
  <2>1. UNCHANGED <<rec, base, service, worker, mem, todo, task, copy, claims>>
    BY <1>1 DEF vars, store, executor, people, ghosts
  <2> QED BY <2>1, DoneBeside DEF DoneInv
<1> QED BY <1>1, ClaimDone, ExecutorDone, ServiceDone, NodeDone, CommandDone DEF Next, WorkerStep

\* A run is completed only when every node of it is, when the nodes are in line,
\* for any stops, crashes, approvals and commands in between.
THEOREM CompletionIsWhole ==
  ASSUME InLine(Node)
  PROVE  Spec => []CompletedMeansDone
<1>1. Init => Solo(Node) /\ DoneInv
  <2> SUFFICES ASSUME Init PROVE Solo(Node) /\ DoneInv
    OBVIOUS
  <2>1. /\ rec = NewRecord /\ base = NewRecord /\ worker = "idle" /\ service = "accepting"
    BY DEF Init
  <2>2. Fits(rec) /\ Fits(base)
    BY <2>1 DEF Fits, Calm, NewRecord
  <2> QED BY <2>1, <2>2 DEF Solo, DoneInv, OnItsWay, Live
<1>2. Sound /\ Solo(Node) /\ DoneInv /\ [Next]_vars => Solo(Node)' /\ DoneInv'
  BY SoloInductive, DoneInductive DEF Sound
<1>3. DoneInv => CompletedMeansDone
  BY DEF DoneInv, Fits, AllDone, CompletedMeansDone
<1> QED BY <1>1, <1>2, <1>3, Soundness, PTL DEF Spec
-----------------------------------------------------------------------------
(***************************************************************************)
(* The record as a durable run.  Readers see a change when it is written,  *)
(* so what is proved of every write is that it leads from what readers see *)
(* to something a durable run may show next.                               *)
(***************************************************************************)
\* r and q have the same completed nodes; r has every call on record.
AsDone(r, q) == \A n \in Node : q.node[n] = "completed" <=> r.node[n] = "completed"
Clear(r) == \A n \in Once : calls[n] > 0 => r.node[n] = "completed"

\* The run changes its status, or not even that.
Resting == {"paused", "failed"}
Turns(r, q) ==
  /\ AsDone(r, q) /\ q.cancel = r.cancel
  /\ \/ q.status = r.status
     \/ r.status = "queued" /\ q.status = "running" /\ Clear(r)
     \/ r.status = "running" /\ q.status = "paused"
     \/ r.status = "running" /\ q.status \in {"queued", "waiting-approval", "failed"} /\ Clear(r)
     \/ r.status = "running" /\ q.status = "cancelled" /\ r.cancel = "requested" /\ Clear(r)
     \/ r.status = "running" /\ q.status = "completed" /\ AllDone(r)
     \/ r.status \in {"waiting-approval", "completed"} /\ q.status = "failed"
     \/ r.status \in Resting /\ q.status \in Resting
     \/ r.status \in Resting /\ q.status = "queued" /\ Clear(r)

\* A node whose turn it is completes, by its execution or by an approval.
Gains(r, q, n) ==
  /\ r.node[n] # "completed" /\ \A d \in Deps[n] : r.node[d] = "completed"
  /\ \A m \in Node : q.node[m] = "completed" <=> r.node[m] = "completed" \/ m = n
  /\ q.cancel = r.cancel
  /\ \/ r.status = "running" /\ q.status = "running" /\ (n \in Once => calls[n] > 0)
     \/ r.status = "waiting-approval" /\ q.status = "queued" /\ n \notin Once /\ Clear(r)

\* Its cancellation is requested, which ends it unless it is being executed.
Cancels(r, q) ==
  /\ AsDone(r, q) /\ q.cancel = "requested"
  /\ r.status \notin {"completed", "cancelled"} /\ q.status \in {r.status, "cancelled"}
  /\ r.status = "queued" => q.status = "cancelled"

Follows(r, q) == Turns(r, q) \/ Cancels(r, q) \/ \E n \in Node : Gains(r, q, n)
FollowInv == Follows(base, rec)

\* Who ends a run as cancelled knows of a request, and who knows of one is told
\* by the store: also while a command is between its request and its abort.
AbortInv ==
  /\ Live /\ ("cancelled" \in active \/ mem.status = "cancelled") => rec.cancel = "requested"
  /\ canceller = "persisted" => \/ rec.cancel = "requested"
                                \/ rec.status \in {"paused", "failed", "completed", "cancelled"}

\* A call that is under way or confirmed has been made, and a node that starts
\* is not on record as completed.
TasksMade == worker = "joining" =>
  /\ \A n \in Once : task[n] \in {"calling", "returned", "confirmed"} => calls[n] > 0
  /\ \A n \in Node : task[n] = "started" => rec.node[n] # "completed"

\* All that is known of a run whose nodes are in line and that no stop caught.
Whole == Sound /\ Solo(Node) /\ Steady /\ EffectInv /\ DoneInv /\ AbortInv /\ TasksMade

\* What is in line with every node is in line with the effectful ones.
LEMMA SoloEffects == ASSUME Solo(Node) PROVE Solo(Effectful)
BY DEF Solo, Effectful

\* A step that writes nothing, or finishes a write, follows.
LEMMA FollowsKept ==
  ASSUME FollowInv, rec' = rec, base' \in {base, rec}, calls' = calls
  PROVE  FollowInv'
BY DEF FollowInv, Follows, Turns, Cancels, Gains, AsDone, Clear, AllDone

\* So does any step after which nothing is being written.
LEMMA FollowsItself ==
  ASSUME rec' = base'
  PROVE  FollowInv'
BY DEF FollowInv, Follows, Turns, AsDone

\* A queued run, one that waits, and one that its executor takes up have every
\* call on record.
LEMMA QueuedIsClear ==
  ASSUME EffectInv, NEW r \in {rec, base}, r.status \in {"queued", "waiting-approval"}
  PROVE  Clear(r)
<1> SUFFICES ASSUME NEW n \in Once, calls[n] > 0 PROVE r.node[n] = "completed"
  BY DEF Clear
<1>1. r.effect[n] \in Known /\ n \in Node
  BY DEF EffectInv, CallsMarked, Once
<1>2. ~Uncertain(r, n)
  BY <1>1 DEF EffectInv, ByStatus, Resumable, SomeUncertain
<1> QED BY <1>1, <1>2 DEF Uncertain, Known, Marked

\* So has a run between its rounds.
LEMMA RoundsAreClear ==
  ASSUME Whole, worker \in {"starting", "rounds"}, rec.status = "running"
  PROVE  Clear(rec) /\ AsDone(rec, mem)
<1>1. \A n \in Node : rec.node[n] = mem.node[n]
  BY DEF Whole, EffectInv, Agree, Executing
<1> SUFFICES ASSUME NEW n \in Once, calls[n] > 0 PROVE mem.node[n] = "completed"
  BY <1>1 DEF Clear, AsDone, Once
<1>2. mem.effect[n] \in Known /\ n \in Node
  BY DEF Whole, EffectInv, CallsMarked, Executing, Once
<1>3. ~Uncertain(mem, n)
  BY <1>2 DEF Whole, EffectInv, Resumable
<1> QED BY <1>2, <1>3 DEF Uncertain, Known, Marked

\* A save by somebody who knows of no cancellation but the stored one.
LEMMA SaveKeepsCancel ==
  ASSUME IInv, NEW x, MayWrite(x), Save(x) \/ Mutate(Merge(rec, x))
  PROVE  rec'.cancel = rec.cancel
<1>1. MayWrite(Synced(x))
  BY SyncedMayWrite
<1>2. rec' = Merge(rec, x) \/ rec' = Merge(rec, Synced(x))
  BY DEF Save, Mutate, Write
<1>3. rec' \in Record /\ (rec'.cancel = "requested" <=> rec.cancel = "requested")
  BY <1>1, <1>2, SaveFacts
<1>4. rec.cancel \in {"no", "requested"} /\ rec'.cancel \in {"no", "requested"}
  BY <1>3 DEF IInv, TypeOK, Record
<1> QED BY <1>3, <1>4

\* What a recovery or a released lease leaves of a running record.
LEMMA TakenBackFollows ==
  ASSUME NEW r \in Record, Journal(r), r.status = "running" <=> r.lease # 0,
         NEW q, \/ q = Recovered(r)
                \/ \E recover \in BOOLEAN : q = Released(r, recover) /\ (recover \/ r.status # "running")
  PROVE  /\ AsDone(r, q) /\ q.cancel = r.cancel
         /\ \/ q.status = r.status
            \/ r.status = "running" /\ q.status \in {"paused", "queued"}
            \/ r.status = "running" /\ q.status = "cancelled" /\ r.cancel = "requested" /\ ~SomeUncertain(r)
<1> DEFINE r1 == [r EXCEPT !.lease = 0]
           r2 == [r EXCEPT !.status = "cancelled", !.lease = 0]
<1>1. /\ r1.node = r.node /\ r1.status = r.status /\ r1.cancel = r.cancel
      /\ r2.node = r.node /\ r2.status = "cancelled" /\ r2.cancel = r.cancel
  BY DEF Record
<1>2. \/ q = r \/ q = r1
      \/ r.status = "running" /\ q = ParkUncertain(r)
      \/ r.status = "running" /\ q = Requeue(r)
      \/ r.status = "running" /\ q = r2 /\ r.cancel = "requested" /\ ~SomeUncertain(r)
  BY DEF Recovered, Released
<1> HIDE DEF r1, r2
<1>3. ParkUncertain(r).cancel = r.cancel /\ Requeue(r).cancel = r.cancel
  BY ParkFacts, RequeueFacts
<1>4. ParkUncertain(r).status = "paused" /\ AsDone(r, ParkUncertain(r))
  BY ParkIs, CompletedIsCertain DEF AsDone
<1>5. Requeue(r).status = "queued" /\ AsDone(r, Requeue(r))
  BY RequeueIs DEF AsDone
<1> QED BY <1>1, <1>2, <1>3, <1>4, <1>5 DEF AsDone

\* The worker's claim, and its giving the run back.
LEMMA ClaimFollows ==
  ASSUME Whole, FollowInv, EffectInv', Claim \/ HandBack \/ Release \/ Boot
  PROVE  FollowInv'
<1>1. /\ rec \in Record /\ Journal(rec) /\ calls' = calls /\ base' = rec
      /\ rec.status = "running" <=> rec.lease # 0
  BY DEF Whole, Sound, IInv, TypeOK, LeaseInv, Owned, GraphInv, GraphOf, Claim, HandBack, Release,
         Boot, Mutate, Write, ghosts
<1>2. CASE Claim
  <2> DEFINE q == [rec EXCEPT !.status = "running", !.lease = claims + 1]
  <2>1. rec' = q /\ rec.status = "queued"
    BY <1>2 DEF Claim, Mutate, Write
  <2>2. q.node = rec.node /\ q.status = "running" /\ q.cancel = rec.cancel
    BY <1>1 DEF Record
  <2> HIDE DEF q
  <2>3. Clear(rec)
    BY <2>1, QueuedIsClear DEF Whole
  <2> QED BY <1>1, <2>1, <2>2, <2>3 DEF FollowInv, Follows, Turns, AsDone, Clear
<1>3. CASE HandBack \/ Release \/ Boot
  <2>1. \/ rec' = Recovered(rec)
        \/ \E recover \in BOOLEAN :
             rec' = Released(rec, recover) /\ (recover \/ rec.status # "running")
    <3>1. CASE HandBack
      BY <3>1 DEF HandBack, Mutate, Write
    <3>2. CASE Release
      <4> DEFINE lost == "leaseLost" \in active
      <4>1. lost \in BOOLEAN /\ rec' = Released(rec, lost)
        BY <3>2 DEF Release, Mutate, Write
      <4>2. lost \/ rec.status # "running"
        BY <3>2 DEF Release, Whole, Sound, IInv, RestInv
      <4> HIDE DEF lost
      <4> QED BY <4>1, <4>2
    <3>3. CASE Boot
      BY <3>3 DEF Boot, Mutate, Write
    <3> QED BY <1>3, <3>1, <3>2, <3>3
  <2>2. /\ AsDone(rec, rec') /\ rec'.cancel = rec.cancel
        /\ \/ rec'.status = rec.status
           \/ rec.status = "running" /\ rec'.status \in {"paused", "queued"}
           \/ /\ rec.status = "running" /\ rec'.status = "cancelled" /\ rec.cancel = "requested"
              /\ ~SomeUncertain(rec)
    BY <1>1, <2>1, TakenBackFollows
  <2>3. rec'.status = "queued" /\ rec.status # "queued" => Clear(rec)
    <3>1. ASSUME rec'.status = "queued", NEW n \in Once, calls[n] > 0
          PROVE  rec'.node[n] = "completed"
      <4>1. rec'.effect[n] \in Known /\ n \in Node
        BY <1>1, <3>1 DEF EffectInv, CallsMarked, Once
      <4>2. Resumable(rec')
        BY <3>1 DEF EffectInv, ByStatus
      <4> QED BY <4>1, <4>2 DEF Resumable, Uncertain, Known, Marked
    <3> QED BY <2>2, <3>1 DEF Clear, AsDone, Once
  <2>4. ~SomeUncertain(rec) => Clear(rec)
    BY DEF Whole, EffectInv, CallsMarked, Clear, SomeUncertain, Uncertain, Known, Marked, Once
  <2> QED BY <1>1, <2>2, <2>3, <2>4 DEF FollowInv, Follows, Turns, AsDone, Clear
<1> QED BY <1>2, <1>3

\* What the executor saves between its rounds.
LEMMA ExecutorFollows ==
  ASSUME Whole, FollowInv, DoneInv', SaveBegin \/ Stuck \/ Finish
  PROVE  FollowInv'
<1>1. /\ mem \in Record /\ base \in Record /\ rec \in Record /\ Executing /\ IInv /\ GraphInv
      /\ Live /\ rec.status = "running" /\ worker \in {"starting", "rounds"} /\ calls' = calls
  <2>1. Live /\ calls' = calls /\ worker \in {"starting", "rounds"}
    BY DEF SaveBegin, Stuck, Finish, Live, ghosts
  <2> QED BY <2>1, LiveIsRunning DEF Whole, Sound, IInv, TypeOK, Live, Executing
<1>2. Clear(rec) /\ AsDone(rec, mem)
  BY <1>1, RoundsAreClear
<1>3. AllGoing(mem) /\ mem.status \in {"running", "cancelled"} /\ mem.lease = claims /\ claims # 0
      /\ (mem.cancel = "requested" => rec.cancel = "requested")
  BY <1>1 DEF GraphInv, IInv, LeaseInv, CancelInv, Executing
<1>4. ASSUME base' = rec, AsDone(mem, rec'), rec'.cancel = rec.cancel,
             \/ rec'.status \in {"running", "failed", "completed"}
             \/ rec'.status = "cancelled" /\ rec.cancel = "requested"
      PROVE  FollowInv'
  <2>1. AsDone(rec, rec')
    BY <1>2, <1>4 DEF AsDone
  <2>2. rec'.status = "completed" => AllDone(rec)
    <3>1. rec'.status = "completed" => AllDone(rec')
      BY DEF DoneInv, Fits
    <3> QED BY <2>1, <3>1 DEF AsDone, AllDone
  <2> QED BY <1>1, <1>2, <1>4, <2>1, <2>2 DEF FollowInv, Follows, Turns, AsDone, Clear, AllDone
<1>5. CASE SaveBegin
  <2>1. Save(mem) /\ worker = "starting"
    BY <1>5 DEF SaveBegin
  <2>2. base' = rec /\ Same(mem, rec')
    BY <1>1, <2>1, ExecutorWrites
  <2>3. rec'.cancel = rec.cancel
    <3>1. MayWrite(mem)
      BY <1>1, <1>3 DEF MayWrite
    <3> QED BY <1>1, <2>1, <3>1, SaveKeepsCancel
  <2>4. mem.status = "cancelled" => rec.cancel = "requested"
    BY <1>1 DEF Whole, AbortInv
  <2> QED BY <1>3, <1>4, <2>2, <2>3, <2>4 DEF Same, AsDone
<1>6. CASE Stuck
  <2> DEFINE x == [base EXCEPT !.status = "failed"]
  <2>1. Save(x) /\ base = rec /\ base' = rec
    BY <1>6 DEF Stuck, Save, Mutate, Write, Written
  <2>2. /\ x \in Record /\ x.node = rec.node /\ x.status = "failed"
        /\ x.lease = rec.lease /\ x.cancel = rec.cancel
    BY <1>1, <2>1 DEF Record, Status
  <2> HIDE DEF x
  <2>3. Same(x, rec')
    BY <1>1, <2>1, <2>2, MergeSame DEF Save, Mutate, Write
  <2>4. rec'.cancel = rec.cancel
    BY <1>1, <2>1, <2>2, SaveKeepsCancel DEF MayWrite
  <2> QED BY <1>2, <1>4, <2>1, <2>2, <2>3, <2>4 DEF Same, AsDone
<1>7. CASE Finish
  <2>1. Save(mem') /\ mem' = [mem EXCEPT !.status = Verdict] /\ "leaseLost" \notin active
    BY <1>7 DEF Finish
  <2>2. /\ Verdict \in {"completed", "cancelled"}
        /\ Verdict = "cancelled" => rec.cancel = "requested"
    <3>1. "pause" \notin active
      BY <2>1 DEF Whole, Steady
    <3>2. \A n \in Node : mem.node[n] # "failed"
      BY <1>3 DEF AllGoing, Going
    <3>3. "cancelled" \in active => rec.cancel = "requested"
      BY <1>1 DEF Whole, AbortInv
    <3> QED BY <3>1, <3>2, <3>3 DEF Verdict
  <2>3. /\ mem' \in Record /\ mem'.node = mem.node /\ mem'.lease = mem.lease
        /\ mem'.cancel = mem.cancel /\ mem'.status \in {"completed", "cancelled"}
        /\ mem'.status = "cancelled" => rec.cancel = "requested"
    <3> DEFINE t == Verdict
    <3>1. t \in Status /\ t \in {"completed", "cancelled"}
          /\ (t = "cancelled" => rec.cancel = "requested")
      BY <2>2 DEF Status
    <3>2. mem' = [mem EXCEPT !.status = t]
      BY <2>1
    <3> HIDE DEF t
    <3> QED BY <1>1, <3>1, <3>2, WithStatusIs
  <2>4. base' = rec /\ Same(mem', rec')
    BY <1>1, <2>1, <2>3, ExecutorWrites
  <2>5. rec'.cancel = rec.cancel
    <3>1. MayWrite(mem')
      BY <1>3, <2>3 DEF MayWrite
    <3> QED BY <1>1, <2>1, <3>1, SaveKeepsCancel
  <2> QED BY <1>4, <2>3, <2>4, <2>5 DEF Same, AsDone
<1> QED BY <1>5, <1>6, <1>7

\* Noting a completed run, or failing it because it could not be noted.
LEMMA NotedFollows ==
  ASSUME Whole, FollowInv, Noted \/ NoteFails
  PROVE  FollowInv'
<1>1. CASE Noted
  BY <1>1, FollowsKept DEF Noted, store, ghosts
<1>2. CASE NoteFails
  <2>1. /\ base' = rec /\ rec'.status = "failed" /\ rec'.node = rec.node
        /\ rec'.cancel = rec.cancel /\ worker = "noting"
    BY <1>2, NoteFailsIs DEF Whole, Sound
  <2>2. rec.status = "completed"
    BY <2>1 DEF Whole, Sound, HoldInv, Steady, Unstopped, Executing
  <2> QED BY <2>1, <2>2 DEF FollowInv, Follows, Turns, AsDone
<1> QED BY <1>1, <1>2

\* What a step of a node saves.
LEMMA NodeFollows ==
  ASSUME Whole, FollowInv, EffectInv', NodeSteps
  PROVE  FollowInv'
<1>1. IInv /\ GraphInv /\ HoldInv /\ Solo(Effectful) /\ Sound /\ Steady /\ EffectInv
  BY SoloEffects DEF Whole, Sound
<1>2. PICK n \in Node : NodeStep(n)
  BY DEF NodeSteps
<1>3. PICK to \in TaskState, s \in NodeStatus, e \in EffectState :
        Moves(n, to, s, e) /\ (Tries(n, to, s, e) \/ Works(n, to, s, e) \/ Ends(n, to, s, e))
  BY <1>1, <1>2, NodeMoves DEF GraphInv
<1>4. CASE Tries(n, to, s, e)
  <2>1. rec' = rec /\ base' = base /\ (calls' = calls \/ base = rec)
    BY <1>4 DEF Tries, store, Written
  <2> QED BY <2>1, FollowsKept, FollowsItself
<1>5. CASE (Works(n, to, s, e) \/ Ends(n, to, s, e)) /\ rec.status # "running"
  BY <1>1, <1>3, <1>5, SavedStep, FollowsItself
<1>6. CASE (Works(n, to, s, e) \/ Ends(n, to, s, e)) /\ rec.status = "running"
  <2>1. /\ task[n] \in Under /\ worker = "joining" /\ calls' = calls /\ base' = rec /\ base = rec
        /\ mem'.node[n] = s /\ mem'.effect[n] = e
        /\ \A m \in Node \ {n} : mem'.node[m] = mem.node[m] /\ mem'.effect[m] = mem.effect[m]
        /\ Same(mem', rec') /\ mem.node[n] = "running" /\ Save(mem')
    BY <1>1, <1>3, <1>6, SavedStep DEF Works, Ends
  <2>2. /\ Executing /\ Live /\ \A m \in Node : m # n => task[m] = "idle"
    <3>1. \A m \in Node : m # n => task[m] = "idle"
      BY <2>1 DEF Whole, Solo, Under
    <3> QED BY <2>1, <3>1 DEF Live, Ended, Under, Executing
  <2>3. /\ mem.status = "running" /\ mem.lease = claims /\ claims # 0
        /\ mem.cancel = "requested" => rec.cancel = "requested"
    BY <1>1, <2>1, <2>2 DEF HoldInv, Live, IInv, LeaseInv, CancelInv
  <2>4. rec'.cancel = rec.cancel
    <3>1. MayWrite(mem')
      BY <1>3, <2>3 DEF MayWrite, Moves
    <3> QED BY <1>1, <2>1, <3>1, SaveKeepsCancel
  <2>5. \A d \in Deps[n] : d \in Node /\ d # n /\ mem.node[d] = "completed"
    <3>1. Begun(mem, n) /\ Deps[n] \subseteq Node
      BY <2>1, DepsAssumption DEF Begun
    <3> QED BY <1>1, <2>1, <2>2, <3>1 DEF GraphInv, Journal
  <2>6. Agree(mem)
    BY <1>1, <1>6, <2>2 DEF EffectInv
  <2>7. /\ rec.node[n] # "completed"
        /\ \A m \in Node : m # n => rec.node[m] = mem.node[m]
    BY <2>1, <2>2, <2>6 DEF Whole, TasksMade, Agree
  <2>8. /\ rec'.node[n] = s /\ rec'.status = mem'.status
        /\ \A m \in Node : m # n => rec'.node[m] = rec.node[m]
    BY <2>1, <2>7 DEF Same
  <2>9. s # "completed" => AsDone(rec, rec')
    BY <2>7, <2>8 DEF AsDone
  <2>10. CASE Works(n, to, s, e)
    <3>1. s # "completed" /\ rec'.status = "running"
      BY <2>1, <2>3, <2>8, <2>10 DEF Works
    <3> QED BY <1>6, <2>1, <2>4, <2>9, <3>1 DEF FollowInv, Follows, Turns, AsDone
  <2>11. CASE Ends(n, to, s, e) /\ to = "done"
    <3>1. s = "completed" /\ rec'.status = "running"
      BY <2>3, <2>8, <2>11 DEF Ends
    <3>2. n \in Once => calls[n] > 0
      BY <2>1, <2>11 DEF Ends, Whole, TasksMade, Once, Effectful
    <3>3. Gains(rec, rec', n)
      BY <1>6, <2>1, <2>4, <2>5, <2>7, <2>8, <3>1, <3>2 DEF Gains
    <3> QED BY <2>1, <3>3 DEF FollowInv, Follows, Gains, Clear
  <2>12. CASE Ends(n, to, s, e) /\ to # "done"
    <3>1. /\ s # "completed"
          /\ rec'.status \in {"waiting-approval", "queued", "paused", "failed", "cancelled"}
      BY <2>8, <2>12 DEF Ends
    <3>2. rec'.status \in {"waiting-approval", "queued"} => Clear(rec)
      <4> SUFFICES ASSUME rec'.status \in {"waiting-approval", "queued"},
                          NEW m \in Once, calls[m] > 0
                   PROVE  rec'.node[m] = "completed"
        BY <2>9, <3>1 DEF Clear, AsDone, Once
      <4>1. rec'.effect[m] \in Known /\ m \in Node
        BY <2>1 DEF EffectInv, CallsMarked, Once
      <4>2. ~Uncertain(rec', m)
        BY <4>1 DEF EffectInv, ByStatus, Resumable, SomeUncertain
      <4> QED BY <4>1, <4>2 DEF Uncertain, Known, Marked
    <3>3. rec'.status \in {"failed", "cancelled"} => Clear(rec)
      <4> SUFFICES ASSUME rec'.status \in {"failed", "cancelled"}, NEW m \in Once, calls[m] > 0
                   PROVE  rec.node[m] = "completed"
        BY DEF Clear
      <4>1. mem.effect[m] \in Known /\ m \in Node
        BY <1>1, <2>2 DEF EffectInv, CallsMarked, Once
      <4>2. CASE m # n
        <5>1. ~Uncertain(mem, m)
          BY <1>1, <1>6, <2>1, <4>1, <4>2, OthersAreCertain DEF Under
        <5> QED BY <2>7, <4>1, <4>2, <5>1 DEF Uncertain, Known, Marked
      <4>3. CASE m = n
        <5>1. e \notin Marked /\ e = mem.effect[n]
          BY <2>8, <2>12, <4>3 DEF Ends
        <5>2. mem.effect[n] # "unknown"
          BY <1>1, <1>6, <2>1 DEF EffectInv, TaskMarks
        <5> QED BY <4>1, <4>3, <5>1, <5>2 DEF Known
      <4> QED BY <4>2, <4>3
    <3>4. rec'.status = "cancelled" => rec.cancel = "requested"
      <4>1. rec'.status = "cancelled" => "cancelled" \in active
        BY <2>8, <2>12 DEF Ends
      <4> QED BY <2>2, <4>1 DEF Whole, AbortInv
    <3> QED BY <1>6, <2>1, <2>4, <2>9, <3>1, <3>2, <3>3, <3>4
        DEF FollowInv, Follows, Turns, AsDone, Clear
  <2> QED BY <1>6, <2>10, <2>11, <2>12
<1> QED BY <1>3, <1>4, <1>5, <1>6

\* The service's steps and what happens to it.
LEMMA ServiceFollows ==
  ASSUME Whole, FollowInv, \/ Flush \/ StopStep \/ Stop \/ CancelAborts \/ LoseLease \/ Crash
                           \/ Begin \/ Round \/ Join \/ LeaveLost
  PROVE  FollowInv'
<1>1. CASE Crash
  <2>1. rec' = base'
    BY <1>1 DEF Crash
  <2> QED BY <2>1, FollowsItself
<1>2. CASE ~Crash
  <2>1. rec' = rec /\ base' \in {base, rec} /\ calls' = calls
    BY <1>2 DEF Flush, StopStep, StopReads, StopPauses, Stopped, Stop, CancelAborts, LoseLease,
       Begin, Round, Join, LeaveLost, store, ghosts, Whole, Steady
  <2> QED BY <2>1, FollowsKept
<1> QED BY <1>1, <1>2

\* What people ask for.
LEMMA PersonFollows ==
  ASSUME Whole, FollowInv, EffectInv', Person
  PROVE  FollowInv'
<1>1. /\ IInv /\ rec \in Record /\ Journal(rec) /\ Stands(rec)
      /\ rec.status = "running" <=> rec.lease # 0
  BY DEF Whole, Sound, IInv, TypeOK, LeaseInv, Owned, GraphInv, GraphOf
<1>2. CASE Cancel
  <2>1. CASE rec' = rec /\ base' = base
    BY <1>2, <2>1, FollowsKept DEF Cancel, ghosts
  <2>2. CASE ~(rec' = rec /\ base' = base)
    <3>1. /\ rec'.cancel = "requested" /\ base' = rec /\ rec'.node = rec.node
          /\ \/ rec.status = "running" /\ rec'.status = "running"
             \/ /\ rec.status \in {"queued", "waiting-approval", "paused", "failed"}
                /\ rec'.status = "cancelled"
      BY <1>1, <1>2, <2>2 DEF Cancel, Mutate, Write, store, Record
    <3>2. Cancels(rec, rec')
      BY <3>1 DEF Cancels, AsDone
    <3> QED BY <3>1, <3>2 DEF FollowInv, Follows, Cancels, AsDone
  <2> QED BY <2>1, <2>2
\* A saved command keeps the request for cancellation, and is what readers see next.
<1>3. ASSUME rec.status # "running", NEW x \in Record, x.lease = 0, x.status # "running",
             x.cancel = "requested" => rec.cancel = "requested",
             Save(x) \/ Mutate(Merge(rec, x))
      PROVE  base' = rec /\ base = rec /\ Same(x, rec') /\ rec'.cancel = rec.cancel
  <2>1. MayWrite(x)
    BY <1>3 DEF MayWrite
  <2> QED BY <1>1, <1>3, <2>1, PersonWritten, SaveKeepsCancel
\* A queued record has every call on record, then and before.
<1>4. ASSUME rec'.status = "queued", AsDone(rec, rec'), base' = rec
      PROVE  Clear(base)'
  <2> SUFFICES ASSUME NEW m \in Once, calls'[m] > 0
               PROVE  rec'.node[m] = "completed"
    BY <1>4 DEF Clear, AsDone, Once
  <2>1. rec'.effect[m] \in Known /\ m \in Node
    BY DEF EffectInv, CallsMarked, Once
  <2>2. ~Uncertain(rec', m)
    BY <1>4, <2>1 DEF EffectInv, ByStatus, Resumable
  <2> QED BY <2>1, <2>2 DEF Uncertain, Known, Marked
<1>5. CASE Approve
  <2> DEFINE d == Decided("completed")
             x == Prepared(d)
  <2>1. Save(x) /\ rec.status = "waiting-approval" /\ calls' = calls
    BY <1>5 DEF Approve, Decided, ghosts
  <2>2. /\ rec.wait \in Node /\ Kind[rec.wait] = "approval" /\ rec.node[rec.wait] = "pending"
        /\ \A m \in Deps[rec.wait] : rec.node[m] = "completed"
    BY <1>1, <2>1 DEF Stands
  <2>3. d \in Record /\ d.node = [rec.node EXCEPT ![rec.wait] = "completed"]
    BY <1>1, <2>2, DecidedIs DEF NodeStatus
  <2> HIDE DEF d
  <2>4. x \in Record /\ x.status = "queued" /\ x.lease = 0 /\ x.node = d.node /\ x.cancel = "no"
    BY <2>3, PreparedIs, PreparedFacts
  <2> HIDE DEF x
  <2>5. base' = rec /\ base = rec /\ Same(x, rec') /\ rec'.cancel = rec.cancel
    BY <1>3, <2>1, <2>4
  <2>6. \A m \in Node : rec'.node[m] = IF m = rec.wait THEN "completed" ELSE rec.node[m]
    BY <1>1, <2>2, <2>3, <2>4, <2>5 DEF Same, Record
  <2>7. Clear(rec)
    BY <2>1, QueuedIsClear DEF Whole
  <2>8. rec.wait \notin Once
    BY <2>2 DEF Once
  <2>9. Gains(rec, rec', rec.wait)
    BY <2>1, <2>2, <2>4, <2>5, <2>6, <2>7, <2>8 DEF Gains, Same
  <2> QED BY <2>1, <2>2, <2>5, <2>9 DEF FollowInv, Follows, Gains, Clear
<1>6. CASE Reject
  <2> DEFINE d == Decided("failed")
             x == [d EXCEPT !.status = "failed"]
  <2>1. Save(x) /\ rec.status = "waiting-approval" /\ calls' = calls
    BY <1>6 DEF Reject, Decided, ghosts
  <2>2. rec.wait \in Node /\ rec.node[rec.wait] = "pending"
    BY <1>1, <2>1 DEF Stands
  <2>3. /\ d \in Record /\ d.lease = rec.lease /\ d.cancel = rec.cancel
        /\ d.node = [rec.node EXCEPT ![rec.wait] = "failed"]
    BY <1>1, <2>2, DecidedIs DEF NodeStatus, Decided, WithNode, Record
  <2> HIDE DEF d
  <2>4. x \in Record /\ x.status = "failed" /\ x.lease = 0 /\ x.node = d.node /\ x.cancel = d.cancel
    BY <1>1, <2>1, <2>3, WithStatusIs DEF Status
  <2> HIDE DEF x
  <2>5. base' = rec /\ base = rec /\ Same(x, rec') /\ rec'.cancel = rec.cancel
    BY <1>3, <2>1, <2>3, <2>4
  <2>6. AsDone(rec, rec')
    BY <1>1, <2>2, <2>3, <2>4, <2>5 DEF AsDone, Same, Record
  <2>7. Turns(rec, rec')
    BY <2>1, <2>4, <2>5, <2>6 DEF Turns, Same
  <2> QED BY <2>1, <2>5, <2>7 DEF FollowInv, Follows, Turns, AsDone, Clear, AllDone
<1>7. CASE Resume
  <2> DEFINE x == Prepared(Resumed)
  <2>1. rec.status \in {"paused", "failed"} /\ Mutate(Merge(rec, x)) /\ calls' = calls
    BY <1>7 DEF Resume, SafeToResume, Resumed, ghosts
  <2>2. /\ Resumed \in Record
        /\ \A m \in Node : Resumed.node[m] = IF rec.node[m] = "completed"
                                            THEN "completed" ELSE "pending"
    BY <1>1, ResumedIs
  <2>3. x \in Record /\ x.status = "queued" /\ x.lease = 0 /\ x.node = Resumed.node /\ x.cancel = "no"
    BY <2>2, PreparedIs, PreparedFacts
  <2> HIDE DEF x
  <2>4. base' = rec /\ base = rec /\ Same(x, rec') /\ rec'.cancel = rec.cancel
    BY <1>3, <2>1, <2>3
  <2>5. AsDone(rec, rec') /\ rec'.status = "queued"
    BY <2>2, <2>3, <2>4 DEF AsDone, Same
  <2>6. Clear(base)'
    BY <1>4, <2>4, <2>5
  <2> QED BY <2>1, <2>4, <2>5, <2>6 DEF FollowInv, Follows, Turns, AsDone, Resting
<1>8. ASSUME NEW n \in Node, ReconcileDispatched(n) \/ ReconcileNotDispatched(n)
      PROVE  FollowInv'
  <2>1. /\ rec.lease = 0 /\ rec.status \in {"paused", "failed", "cancelled"}
        /\ rec.effect[n] = "unknown"
    BY <1>1, <1>8, ReconciledIs
  <2>2. rec.node[n] # "completed" /\ rec.node \in [Node -> NodeStatus]
    BY <1>1, <2>1 DEF Journal, Record
  <2> DEFINE to == IF rec.status = "cancelled" THEN {"cancelled"} ELSE {"paused", "failed", "queued"}
  <2>3. ASSUME NEW x \in Record, Save(x), x.lease = 0, x.cancel = "requested" => rec.cancel = "requested",
               AsDone(rec, x), x.status \in to
        PROVE  FollowInv'
    <3>1. x.status # "running" /\ rec.status # "running"
      BY <2>1, <2>3
    <3>2. base' = rec /\ base = rec /\ Same(x, rec') /\ rec'.cancel = rec.cancel
      BY <1>3, <2>3, <3>1
    <3>3. AsDone(rec, rec') /\ rec'.status \in to
      BY <2>3, <3>2 DEF AsDone, Same
    <3>4. rec'.status = "queued" => Clear(base)'
      BY <1>4, <3>2, <3>3
    <3> QED BY <2>1, <3>2, <3>3, <3>4 DEF FollowInv, Follows, Turns, AsDone, Resting
  <2>4. ASSUME NEW x \in Record, NEW t, t # "completed",
               \/ x.node = [rec.node EXCEPT ![n] = t]
               \/ \A m \in Node : x.node[m] =
                    IF rec.node[m] = "completed" /\ m # n THEN "completed" ELSE "pending"
        PROVE  AsDone(rec, x)
    BY <2>2, <2>4 DEF AsDone
  <2>5. \E x \in Record :
          /\ Save(x) /\ x.lease = 0 /\ (x.cancel = "requested" => rec.cancel = "requested")
          /\ x.status \in to /\ AsDone(rec, x)
    <3>1. CASE \E x \in Record :
                 /\ Save(x) /\ x.lease = 0 /\ (x.cancel = "requested" => rec.cancel = "requested")
                 /\ x.status = IF rec.status = "cancelled" THEN "cancelled" ELSE "failed"
                 /\ x.node = [rec.node EXCEPT ![n] = "failed"]
                 /\ x.effect = [rec.effect EXCEPT ![n] = "confirmed"]
                 /\ calls' = calls
      BY <2>4, <3>1
    <3>2. CASE \E x \in Record :
                 /\ Save(x) /\ x.lease = 0 /\ (x.cancel = "requested" => rec.cancel = "requested")
                 /\ x.effect = [rec.effect EXCEPT ![n] = "none"]
                 /\ calls' = [calls EXCEPT ![n] = 0]
                 /\ x.status = "cancelled" <=> rec.status = "cancelled"
                 /\ \/ /\ x.status \in {"paused", "cancelled"}
                       /\ x.node = [rec.node EXCEPT ![n] = "pending"]
                    \/ /\ x.status = "queued" /\ ~SomeUncertain(x)
                       /\ \A m \in Node : x.node[m] =
                            IF rec.node[m] = "completed" /\ m # n THEN "completed" ELSE "pending"
      BY <2>4, <3>2
    <3> QED BY <1>1, <1>8, <3>1, <3>2, ReconciledIs
  <2> QED BY <2>3, <2>5
<1> QED BY <1>2, <1>5, <1>6, <1>7, <1>8 DEF Person


\* A request for cancellation that is stored stays so, but for a crash.
LEMMA RequestSticks ==
  ASSUME IInv', Next, ~Crash, rec.cancel = "requested"
  PROVE  rec'.cancel = "requested"
BY OneWriteAtATime DEF IInv, CancelInv

\* A run at rest stays as it is while a command is half way, but for a completed
\* one that cannot be noted.
LEMMA RestStays ==
  ASSUME Whole, Next, ~Crash, canceller = "persisted", rec.status \notin {"queued", "running"},
         rec.status # "waiting-approval"
  PROVE  rec'.status = rec.status \/ rec'.status = "failed"
<1>1. IInv /\ GraphInv /\ HoldInv /\ rec \in Record /\ rec.lease = 0
  BY DEF Whole, Sound, IInv, TypeOK, LeaseInv, Owned
<1>2. service # "pausing" /\ worker # "claimed" /\ ~Live
  <2>1. ~Live
    BY <1>1, LiveIsRunning DEF Whole
  <2> QED BY <1>1, <2>1 DEF HoldInv, Whole, Steady
<1>3. CASE Claim \/ HandBack \/ StopStep
  BY <1>1, <1>2, <1>3 DEF Claim, HandBack, StopStep, StopReads, StopPauses, Stopped, store
<1>4. CASE SaveBegin \/ Stuck \/ Finish \/ Round \/ LeaveLost
  BY <1>2, <1>4 DEF SaveBegin, Stuck, Finish, Round, LeaveLost, Live
<1>5. CASE Release
  <2> DEFINE lost == "leaseLost" \in active
  <2>1. rec' = Released(rec, lost)
    BY <1>5 DEF Release, Mutate, Write
  <2> HIDE DEF lost
  <2>2. rec' = [rec EXCEPT !.lease = 0]
    BY <1>1, <2>1 DEF Released
  <2> QED BY <1>1, <2>2 DEF Record
<1>6. CASE NodeSteps
  <2>1. PICK n \in Node : NodeStep(n)
    BY <1>6 DEF NodeSteps
  <2> QED BY <1>1, <2>1, NodeMoves, MovesFrom DEF GraphInv
<1>7. CASE Flush \/ CancelAborts \/ LoseLease \/ Stop \/ Begin \/ Join
  BY <1>1, <1>7 DEF Flush, CancelAborts, LoseLease, Stop, Begin, Join, store
<1>8. CASE Boot \/ Person
  BY <1>8 DEF Boot, Person, Cancel, Approve, Reject, Resume, ReconcileDispatched,
     ReconcileNotDispatched, Reconcilable, Commands
<1>9. CASE Noted \/ NoteFails
  BY <1>1, <1>9, NoteFailsIs DEF Noted, store
<1> QED BY <1>3, <1>4, <1>5, <1>6, <1>7, <1>8, <1>9 DEF Next, WorkerStep

\* What a step does to what an execution knows of a cancellation: it hears of
\* one that is being delivered, or begins with the stored one.
LEMMA AbortHeard ==
  ASSUME Whole, Steady', Next, Live', "cancelled" \in active' \/ mem'.status = "cancelled"
  PROVE  /\ ~Crash
         /\ \/ Live /\ ("cancelled" \in active \/ mem.status = "cancelled")
            \/ Live /\ canceller = "persisted" /\ rec' = rec
            \/ base.cancel = "requested" /\ rec' = rec
<1>1. Sound /\ IInv /\ GraphInv /\ HoldInv /\ mem \in Record /\ mem.status \in Status
  BY DEF Whole, Sound, IInv, TypeOK, Record
<1>2. Live' => Executing'
  BY DEF Live, Executing
<1>3. CASE NodeSteps
  <2>1. PICK n \in Node : NodeStep(n)
    BY <1>3 DEF NodeSteps
  <2>2. PICK to \in TaskState, s \in NodeStatus, e \in EffectState :
          Moves(n, to, s, e) /\ (Tries(n, to, s, e) \/ Works(n, to, s, e) \/ Ends(n, to, s, e))
    BY <1>1, <2>1, NodeMoves DEF GraphInv
  <2>3. task[n] \in Under /\ task \in [Node -> TaskState]
    BY <1>1, <2>2, MovesFrom DEF IInv, TypeOK
  <2>4. worker = "joining" /\ worker' = "joining" /\ task' = [task EXCEPT ![n] = to] /\ active' = active
    BY <2>2 DEF Moves
  <2>5. ~Ended /\ mem'.status = mem.status
    <3>1. ~Ended'
      BY <2>4 DEF Live
    <3>2. to \notin {"waiting", "stopped"}
      BY <2>3, <2>4, <3>1 DEF Ended
    <3> QED BY <2>2, <2>3, <2>4, <3>1, <3>2 DEF Ended, Under, Tries, Works, Ends
  <2>6. ~Crash
    BY <2>4 DEF Crash
  <2> QED BY <2>4, <2>5, <2>6 DEF Live
<1>4. CASE Crash \/ Claim \/ HandBack \/ Release \/ Stuck \/ Finish \/ LeaveLost \/ Noted \/ NoteFails
  BY <1>4 DEF Crash, Claim, HandBack, Release, Stuck, Finish, LeaveLost, Noted, NoteFails, Live
<1>5. CASE Stop
  BY <1>2, <1>5 DEF Stop, Steady, Unstopped
<1>6. CASE Begin
  <2> DEFINE t == IF base.cancel = "requested" THEN "cancelled" ELSE "running"
  <2>1. active' = {} /\ mem' = [base EXCEPT !.status = t] /\ rec' = rec /\ worker' = "starting"
    BY <1>6 DEF Begin, store
  <2>2. base \in Record /\ t \in Status
    BY <1>1 DEF IInv, TypeOK, Status
  <2> HIDE DEF t
  <2>3. mem'.status = t
    BY <2>1, <2>2, WithStatusIs
  <2> QED BY <2>1, <2>3 DEF t, Crash
<1>7. CASE SaveBegin \/ Join \/ Round
  <2>1. Live /\ active' = active /\ mem'.status = mem.status /\ worker' # "idle"
    <3>1. CASE SaveBegin
      BY <3>1 DEF SaveBegin, executor, Live
    <3>2. CASE Join
      BY <3>2 DEF Join, executor, Live, Ended
    <3>3. CASE Round
      BY <1>1, <3>3, RoundIs DEF Live
    <3> QED BY <1>7, <3>1, <3>2, <3>3
  <2> QED BY <2>1 DEF Crash
<1>8. CASE CancelAborts
  BY <1>8, <1>2 DEF CancelAborts, store, Live, Ended, Crash
<1>9. CASE Flush \/ LoseLease \/ StopStep \/ Boot \/ Person
  <2>1. UNCHANGED <<worker, mem, task>> /\ ("cancelled" \in active' => "cancelled" \in active)
    BY <1>9 DEF Flush, LoseLease, StopStep, StopReads, StopPauses, Stopped, Boot, Person, Cancel,
       Approve, Reject, Resume, ReconcileDispatched, ReconcileNotDispatched, executor
  <2>2. Live
    BY <2>1 DEF Live, Ended
  <2> QED BY <2>1, <2>2 DEF Crash, Live
<1> QED BY <1>3, <1>4, <1>5, <1>6, <1>7, <1>8, <1>9 DEF Next, WorkerStep

\* So every execution that ends as cancelled was asked to.
LEMMA AbortInductive ==
  ASSUME Whole, Steady', IInv', [Next]_vars
  PROVE  AbortInv'
<1>1. CASE UNCHANGED vars
  BY <1>1 DEF Whole, AbortInv, vars, store, executor, people, Live, Ended
<1>2. CASE Next
  <2>1. ASSUME Live', "cancelled" \in active' \/ mem'.status = "cancelled"
        PROVE  rec'.cancel = "requested"
    <3>1. /\ ~Crash
          /\ \/ Live /\ ("cancelled" \in active \/ mem.status = "cancelled")
             \/ Live /\ canceller = "persisted" /\ rec' = rec
             \/ base.cancel = "requested" /\ rec' = rec
      BY <1>2, <2>1, AbortHeard
    <3>2. Live => rec.status = "running"
      BY LiveIsRunning DEF Whole
    <3>3. rec.cancel = "requested"
      BY <3>1, <3>2 DEF Whole, AbortInv, Sound, IInv, CancelInv
    <3> QED BY <1>2, <3>1, <3>3, RequestSticks
  <2>2. ASSUME canceller' = "persisted"
        PROVE  \/ rec'.cancel = "requested"
               \/ rec'.status \in {"paused", "failed", "completed", "cancelled"}
    <3>1. rec \in Record /\ ~Crash
      BY <2>2 DEF Whole, Sound, IInv, TypeOK, Crash
    <3>2. CASE Cancel
      <4>1. \/ rec'.cancel = "requested"
            \/ rec' = rec /\ rec.status \notin {"queued", "running", "waiting-approval"}
        BY <3>1, <3>2 DEF Cancel, Mutate, Write, store, Record
      <4> QED BY <3>1, <4>1 DEF Record, Status
    <3>3. CASE ~Cancel
      <4>1. canceller = "persisted"
        <5>1. CASE NodeSteps
          <6>1. PICK n \in Node : NodeStep(n)
            BY <5>1 DEF NodeSteps
          <6>2. IInv /\ Journal(mem)
            BY DEF Whole, Sound, GraphInv
          <6>3. \E to \in TaskState, s \in NodeStatus, e \in EffectState : Moves(n, to, s, e)
            BY <6>1, <6>2, NodeMoves
          <6> QED BY <2>2, <6>3 DEF Moves
        <5>2. CASE ~NodeSteps
          BY <1>2, <2>2, <3>1, <3>3, <5>2 DEF Next, Flush, WorkerStep, Claim, HandBack, Begin, SaveBegin,
             Release, Round, Stuck, Join, LeaveLost, Finish, Noted, NoteFails, StopStep, StopReads,
             StopPauses, Stopped, CancelAborts, LoseLease, Stop, Boot, Person, Approve, Reject, Resume,
             ReconcileDispatched, ReconcileNotDispatched, people
        <5> QED BY <5>1, <5>2
      <4>2. CASE rec.cancel = "requested"
        BY <1>2, <3>1, <4>2, RequestSticks
      <4>3. CASE rec.cancel # "requested"
        <5>1. rec.status \in {"paused", "failed", "completed", "cancelled"}
          BY <4>1, <4>3 DEF Whole, AbortInv
        <5> QED BY <1>2, <3>1, <4>1, <5>1, RestStays
      <4> QED BY <4>2, <4>3
    <3> QED BY <3>2, <3>3
  <2> QED BY <2>1, <2>2 DEF AbortInv
<1> QED BY <1>1, <1>2

\* A task under way is alone, and its run is running.
LEMMA TaskIsAlone ==
  ASSUME Sound, Steady, Solo(Node), worker = "joining", NEW n \in Node, task[n] \in Under
  PROVE  /\ \A m \in Node : m # n => task[m] = "idle"
         /\ Live /\ rec.status = "running"
<1>1. \A m \in Node : m # n => task[m] = "idle"
  BY DEF Solo, Under
<1>2. Live
  BY <1>1 DEF Live, Ended, Under
<1> QED BY <1>1, <1>2, LiveIsRunning

\* No task is on its way from a call that was not made, or started anew.
LEMMA TasksMadeInductive ==
  ASSUME Whole, [Next]_vars
  PROVE  TasksMade'
<1>1. /\ Sound /\ Steady /\ Solo(Node) /\ IInv /\ GraphInv /\ HoldInv
      /\ calls \in [Node -> 0..2] /\ task \in [Node -> TaskState]
  BY DEF Whole, Sound, IInv, TypeOK
<1>2. CASE worker' # "joining"
  BY <1>2 DEF TasksMade
<1>3. CASE UNCHANGED <<worker, task, calls>> /\ rec'.node = rec.node
  BY <1>3 DEF Whole, TasksMade
<1>4. CASE Round
  <2>1. /\ worker = "rounds" /\ rec' = rec
        /\ task' = [n \in Node |-> IF n \in Ready THEN "started" ELSE "idle"]
    BY <1>1, <1>4, RoundIs
  <2>2. Executing /\ rec.status = "running"
    BY <1>1, <2>1, LiveIsRunning DEF Live, Executing
  <2>3. \A n \in Ready : n \in Node /\ rec.node[n] # "completed"
    BY <2>1, <2>2 DEF Ready, Whole, EffectInv, Agree
  <2>4. Once \subseteq Node
    BY DEF Once
  <2> QED BY <2>1, <2>3, <2>4 DEF TasksMade
<1>5. CASE NodeSteps
  <2>1. PICK n \in Node : NodeStep(n)
    BY <1>5 DEF NodeSteps
  <2>2. PICK to \in TaskState, s \in NodeStatus, e \in EffectState :
          Moves(n, to, s, e) /\ (Tries(n, to, s, e) \/ Works(n, to, s, e) \/ Ends(n, to, s, e))
    BY <1>1, <2>1, NodeMoves DEF GraphInv
  <2>3. /\ worker = "joining" /\ task' = [task EXCEPT ![n] = to] /\ task[n] \in Under
        /\ to # "started"
    <3>1. to # "started"
      BY <2>2 DEF Tries, Works, Ends
    <3>2. task[n] \in Under
      BY <1>1, <2>2, MovesFrom
    <3> QED BY <2>2, <3>1, <3>2 DEF Moves
  <2>4. \A m \in Node : m # n => task[m] = "idle"
    BY <1>1, <2>3, TaskIsAlone
  <2>5. \A m \in Node : task'[m] = IF m = n THEN to ELSE "idle"
    BY <1>1, <2>3, <2>4
  <2>6. ASSUME n \in Once, to \in {"calling", "returned", "confirmed"}
        PROVE  calls'[n] > 0
    <3>1. CASE to = "calling"
      <4>1. calls' = [calls EXCEPT ![n] = IF @ < 2 THEN @ + 1 ELSE @]
        BY <2>2, <3>1 DEF Tries, Works, Ends
      <4>2. calls'[n] = IF calls[n] < 2 THEN calls[n] + 1 ELSE calls[n]
        BY <1>1, <4>1
      <4> QED BY <1>1, <4>2
    <3>2. CASE to = "confirmed"
      BY <2>2, <2>3, <2>6, <3>2 DEF Tries, Works, Ends, Whole, TasksMade
    <3>3. CASE to = "returned"
      BY <2>2, <2>6, <3>3 DEF Tries, Works, Ends
    <3> QED BY <2>6, <3>1, <3>2, <3>3
  <2>7. Once \subseteq Node
    BY DEF Once
  <2> QED BY <2>3, <2>5, <2>6, <2>7 DEF TasksMade
<1>6. CASE Boot
  <2>1. worker' = "idle"
    BY <1>1, <1>6 DEF Boot, IInv, LeaseInv, HoldInv
  <2> QED BY <1>2, <2>1
<1>7. CASE Cancel
  BY <1>1, <1>3, <1>7, CancelIs DEF executor
<1>8. CASE Person /\ ~Cancel
  <2>1. rec.status # "running" /\ UNCHANGED <<worker, task>>
    BY <1>8 DEF Person, Approve, Reject, Resume, SafeToResume, ReconcileDispatched,
       ReconcileNotDispatched, Reconcilable, executor
  <2> SUFFICES ASSUME worker = "joining" PROVE TasksMade'
    BY <2>1 DEF TasksMade
  <2>2. \A n \in Node : task[n] \notin Under
    BY <1>1, <2>1, TaskIsAlone
  <2>3. Once \subseteq Node
    BY DEF Once
  <2> QED BY <2>1, <2>2, <2>3 DEF TasksMade, Under
<1>9. CASE \/ Claim \/ HandBack \/ Begin \/ SaveBegin \/ Release \/ Stuck \/ Join \/ LeaveLost
           \/ Finish \/ Noted \/ NoteFails \/ Crash
  <2>1. worker' # "joining"
    BY <1>9 DEF Claim, HandBack, Begin, SaveBegin, Release, Stuck, Join, LeaveLost, Finish, Noted,
       NoteFails, Crash
  <2> QED BY <1>2, <2>1
<1>10. CASE Flush \/ StopStep \/ Stop \/ CancelAborts \/ LoseLease \/ UNCHANGED vars
  <2>1. UNCHANGED <<worker, task, calls, rec>>
    BY <1>10 DEF Flush, StopStep, StopReads, StopPauses, Stopped, Stop, CancelAborts, LoseLease,
       vars, store, executor, ghosts, Whole, Steady
  <2> QED BY <1>3, <2>1
<1> QED BY <1>4, <1>5, <1>6, <1>7, <1>8, <1>9, <1>10 DEF Next, WorkerStep

\* All this holds at the start ...
LEMMA WholeInitially == Init => Whole /\ FollowInv
<1> SUFFICES ASSUME Init PROVE Whole /\ FollowInv
  OBVIOUS
<1>1. Sound /\ EffectInv
  BY Initially, GraphInitially, HoldInitially, EffectInitially DEF Sound
<1>2. /\ rec = NewRecord /\ base = NewRecord /\ worker = "idle" /\ service = "accepting"
      /\ active = {} /\ canceller = "idle"
  BY DEF Init
<1>3. DoneInv
  <2>1. Fits(rec) /\ Fits(base)
    BY <1>2 DEF Fits, Calm, NewRecord
  <2> QED BY <1>2, <2>1 DEF DoneInv, OnItsWay, Live
<1>4. Solo(Node) /\ Steady /\ AbortInv /\ TasksMade
  BY <1>2 DEF Solo, Steady, Unstopped, AbortInv, TasksMade, Live
<1>5. FollowInv
  BY <1>2 DEF FollowInv, Follows, Turns, AsDone
<1> QED BY <1>1, <1>3, <1>4, <1>5 DEF Whole

\* ... and through every step, until a stop catches an execution.
LEMMA WholeInductive ==
  ASSUME InLine(Node), Whole, [Next]_vars, Unstopped'
  PROVE  Whole'
<1>1. Sound' /\ IInv'
  BY SoundInductive DEF Whole, Sound
<1>2. Steady'
  BY SteadyInductive DEF Whole
<1>3. Solo(Node)'
  BY SoloInductive DEF Whole, Sound
<1>4. EffectInv'
  BY SoloEffects, EffectInductive DEF Whole
<1>5. DoneInv'
  BY DoneInductive DEF Whole
<1> QED BY <1>1, <1>2, <1>3, <1>4, <1>5, AbortInductive, TasksMadeInductive DEF Whole

\* What is being written follows from what readers see, at every step.
LEMMA FollowInductive ==
  ASSUME Whole, FollowInv, Whole', [Next]_vars
  PROVE  FollowInv'
<1>1. EffectInv' /\ DoneInv'
  BY DEF Whole
<1>2. CASE UNCHANGED vars
  BY <1>2, FollowsKept DEF vars, store, ghosts
<1> QED BY <1>1, <1>2, ClaimFollows, ExecutorFollows, NotedFollows, NodeFollows, ServiceFollows,
           PersonFollows
    DEF Next, WorkerStep
-----------------------------------------------------------------------------
(***************************************************************************)
(* Refinement: where the mapped state of DurableRun moves.                 *)
(***************************************************************************)
\* A new run is a new durable run.
LEMMA DurableInitially == Init => Durable!Init
<1> SUFFICES ASSUME Init PROVE Durable!Init
  OBVIOUS
<1>1. /\ base.status = "queued" /\ base.cancel = "no" /\ calls = [n \in Node |-> 0]
      /\ \A n \in Node : base.node[n] = "pending"
  BY DEF Init, NewRecord
<1>2. CompletedNodes(base) = {} /\ CalledNodes = {}
  BY <1>1 DEF CompletedNodes, CalledNodes, Once
<1> QED BY <1>1, <1>2 DEF Durable!Init

\* Every call on record leaves none open.
LEMMA ClearIsClosed == Clear(base) => Durable!Open = {}
BY DEF Clear, Durable!Open, CalledNodes, CompletedNodes, Once

\* A change of the run's status.
LEMMA TurnsMap ==
  ASSUME base \in Record, Turns(base, rec), base' = rec, calls' = calls
  PROVE  Durable!Next \/ UNCHANGED Durable!vars
<1>1. /\ CompletedNodes(base)' = CompletedNodes(base) /\ CalledNodes' = CalledNodes
      /\ (base.cancel = "requested")' = (base.cancel = "requested")
      /\ base'.status = rec.status
  BY DEF Turns, AsDone, CompletedNodes, CalledNodes
<1>2. UNCHANGED <<base.cancel = "requested", CompletedNodes(base), CalledNodes>>
  BY <1>1
<1>3. Clear(base) => Durable!Open = {}
  BY ClearIsClosed
<1>4. AllDone(base) => CompletedNodes(base) = Node /\ Clear(base)
  BY DEF AllDone, CompletedNodes, Clear, Once
<1>5. CASE rec.status = base.status
  BY <1>1, <1>2, <1>5 DEF Durable!vars
<1>6. CASE base.status = "queued" /\ rec.status = "running" /\ Clear(base)
  <2>1. Durable!Claim
    BY <1>1, <1>2, <1>3, <1>6 DEF Durable!Claim, Durable!Turns
  <2> QED BY <2>1 DEF Durable!Next
<1>7. CASE base.status = "running" /\ rec.status = "paused"
  <2>1. Durable!Pause
    BY <1>1, <1>2, <1>7 DEF Durable!Pause, Durable!Turns
  <2> QED BY <2>1 DEF Durable!Next
<1>8. CASE /\ base.status = "running" /\ Clear(base)
           /\ \/ rec.status \in {"queued", "waiting-approval", "failed"}
              \/ rec.status = "cancelled" /\ base.cancel = "requested"
  <2>1. Durable!End
    BY <1>1, <1>2, <1>3, <1>8 DEF Durable!End, Durable!Turns
  <2> QED BY <2>1 DEF Durable!Next
<1>9. CASE base.status = "running" /\ rec.status = "completed" /\ AllDone(base)
  <2>1. Durable!End
    BY <1>1, <1>2, <1>3, <1>4, <1>9 DEF Durable!End, Durable!Turns
  <2> QED BY <2>1 DEF Durable!Next
<1>10. CASE base.status = "waiting-approval" /\ rec.status = "failed"
  <2>1. Durable!Reject
    BY <1>1, <1>2, <1>10 DEF Durable!Reject, Durable!Turns
  <2> QED BY <2>1 DEF Durable!Next
<1>13. CASE base.status = "completed" /\ rec.status = "failed"
  <2>1. Durable!Misreport
    BY <1>1, <1>2, <1>13 DEF Durable!Misreport, Durable!Turns
  <2> QED BY <2>1 DEF Durable!Next
<1>11. CASE base.status \in Resting /\ (rec.status \in Resting \/ (rec.status = "queued" /\ Clear(base)))
  <2>1. Durable!Settle
    BY <1>1, <1>2, <1>3, <1>11 DEF Durable!Settle, Durable!Turns, Durable!Resting, Resting
  <2> QED BY <2>1 DEF Durable!Next
<1>12. \/ rec.status = base.status
       \/ base.status = "queued" /\ rec.status = "running" /\ Clear(base)
       \/ base.status = "running" /\ rec.status = "paused"
       \/ /\ base.status = "running" /\ Clear(base)
          /\ \/ rec.status \in {"queued", "waiting-approval", "failed"}
             \/ rec.status = "cancelled" /\ base.cancel = "requested"
       \/ base.status = "running" /\ rec.status = "completed" /\ AllDone(base)
       \/ base.status \in {"waiting-approval", "completed"} /\ rec.status = "failed"
       \/ base.status \in Resting /\ (rec.status \in Resting \/ (rec.status = "queued" /\ Clear(base)))
  BY DEF Turns
<1> QED BY <1>5, <1>6, <1>7, <1>8, <1>9, <1>10, <1>11, <1>12, <1>13

\* A request for its cancellation.
LEMMA CancelsMap ==
  ASSUME Cancels(base, rec), base' = rec, calls' = calls
  PROVE  Durable!Next
<1>1. /\ CompletedNodes(base)' = CompletedNodes(base) /\ CalledNodes' = CalledNodes
      /\ (base.cancel = "requested")' = TRUE
      /\ base'.status = rec.status
  BY DEF Cancels, AsDone, CompletedNodes, CalledNodes
<1>2. Durable!Cancel
  BY <1>1 DEF Cancels, Durable!Cancel, Durable!Over
<1> QED BY <1>2 DEF Durable!Next

\* The completion of a node.
LEMMA GainsMap ==
  ASSUME NEW n \in Node, Gains(base, rec, n), base' = rec, calls' = calls
  PROVE  Durable!Next
<1>1. /\ CompletedNodes(base)' = CompletedNodes(base) \cup {n} /\ CalledNodes' = CalledNodes
      /\ (base.cancel = "requested")' = (base.cancel = "requested")
      /\ base'.status = rec.status
  BY DEF Gains, CompletedNodes, CalledNodes
<1>2. n \notin CompletedNodes(base) /\ Deps[n] \subseteq CompletedNodes(base)
  BY DepsAssumption DEF Gains, CompletedNodes
<1>3. Durable!Due(n)
  BY <1>2 DEF Durable!Due
<1>4. CASE base.status = "running" /\ rec.status = "running" /\ (n \in Once => calls[n] > 0)
  <2>1. n \in Once => n \in CalledNodes
    BY <1>4 DEF CalledNodes
  <2>2. Durable!Complete(n)
    BY <1>1, <1>3, <1>4, <2>1 DEF Durable!Complete
  <2> QED BY <2>2 DEF Durable!Next
<1>5. CASE base.status = "waiting-approval" /\ rec.status = "queued" /\ n \notin Once /\ Clear(base)
  <2>1. Durable!Approve(n)
    BY <1>1, <1>3, <1>5, ClearIsClosed DEF Durable!Approve, Durable!Turns
  <2> QED BY <2>1 DEF Durable!Next
<1> QED BY <1>4, <1>5 DEF Gains

\* A write that becomes visible.
LEMMA WriteMaps ==
  ASSUME Whole, FollowInv, base' = rec, calls' = calls
  PROVE  Durable!Next \/ UNCHANGED Durable!vars
<1>1. base \in Record
  BY DEF Whole, Sound, IInv, TypeOK
<1> QED BY <1>1, TurnsMap, CancelsMap, GainsMap DEF FollowInv, Follows

\* The call of a node: its turn has come, and it was not called before.
LEMMA CallMaps ==
  ASSUME Whole, NEW n \in Node, Written, base' = base, worker = "joining",
         task[n] = IF n \in Once THEN "dispatched" ELSE "prepared",
         calls' = [calls EXCEPT ![n] = IF @ < 2 THEN @ + 1 ELSE @]
  PROVE  Durable!Next \/ UNCHANGED Durable!vars
<1>1. /\ Sound /\ Steady /\ Solo(Node) /\ GraphInv /\ calls \in [Node -> 0..2] /\ base = rec
  BY DEF Whole, Sound, IInv, TypeOK, Written
<1>2. \A m \in Node : calls'[m] = IF m # n THEN calls[m]
                                  ELSE IF calls[n] < 2 THEN calls[n] + 1 ELSE calls[n]
  BY <1>1
<1>3. Once \subseteq Node
  BY DEF Once
<1>4. CompletedNodes(base)' = CompletedNodes(base)
  BY DEF CompletedNodes
<1>5. CASE n \in Once
  <2>1. rec.status = "running" /\ Executing
    BY <1>1, <1>5, TaskIsAlone DEF Under, Executing
  <2>2. rec.node[n] = "running"
    <3>1. mem.node[n] = "running"
      BY <1>1, <1>5 DEF GraphInv, TasksInv, Under
    <3> QED BY <1>5, <2>1, <3>1 DEF Whole, EffectInv, Agree
  <2>3. n \notin CompletedNodes(base) /\ Deps[n] \subseteq CompletedNodes(base)
    BY <1>1, <2>2, DepsAssumption DEF GraphInv, GraphOf, Journal, Begun, CompletedNodes
  <2>4. calls[n] = 0
    BY <1>5 DEF Whole, EffectInv, CallsOnce
  <2>5. n \notin CalledNodes /\ CalledNodes' = CalledNodes \cup {n}
    BY <1>1, <1>2, <1>3, <1>5, <2>4 DEF CalledNodes
  <2>6. Durable!Call(n)
    BY <1>1, <1>4, <1>5, <2>1, <2>3, <2>5 DEF Durable!Call, Durable!Due
  <2> QED BY <2>6 DEF Durable!Next
<1>6. CASE n \notin Once
  <2>1. CalledNodes' = CalledNodes
    BY <1>2, <1>3, <1>6 DEF CalledNodes
  <2> QED BY <1>4, <2>1 DEF Durable!vars
<1> QED BY <1>5, <1>6

\* Somebody says that a call did not happen.
LEMMA VouchMaps ==
  ASSUME Whole, NEW n \in Node, ReconcileNotDispatched(n)
  PROVE  Durable!Next \/ UNCHANGED Durable!vars
<1>1. /\ rec.effect[n] = "unknown" /\ rec.status \in {"paused", "failed", "cancelled"}
      /\ calls' = [calls EXCEPT ![n] = 0] /\ calls \in [Node -> 0..2] /\ base = rec /\ Journal(rec)
      /\ base' = rec
  BY ReconciledIs DEF Whole, Sound, IInv, TypeOK, GraphInv, GraphOf, ReconcileNotDispatched,
     Reconcilable, Written, Save, Mutate, Write
<1>2. \A m \in Node : calls'[m] = IF m = n THEN 0 ELSE calls[m]
  BY <1>1
<1>3. Once \subseteq Node
  BY DEF Once
<1>4. CompletedNodes(base)' = CompletedNodes(base) /\ n \notin CompletedNodes(base)
  BY <1>1 DEF CompletedNodes, Journal
<1>5. CalledNodes' = CalledNodes \ {n}
  BY <1>2, <1>3 DEF CalledNodes
<1>6. CASE n \in CalledNodes
  <2>1. Durable!Vouch(n)
    BY <1>1, <1>4, <1>5, <1>6 DEF Durable!Vouch, Durable!Open, Durable!Resting
  <2> QED BY <2>1 DEF Durable!Next
<1>7. CASE n \notin CalledNodes
  BY <1>1, <1>4, <1>5, <1>7 DEF Durable!vars
<1> QED BY <1>6, <1>7

\* Readers see a step when it is written; a crash shows them nothing else.
LEMMA DurableStep ==
  ASSUME Whole, FollowInv, [Next]_vars
  PROVE  Durable!Next \/ UNCHANGED Durable!vars
<1>1. ASSUME base' \in {base, rec}, calls' = calls
      PROVE  Durable!Next \/ UNCHANGED Durable!vars
  <2>1. CASE base' = rec
    BY <1>1, <2>1, WriteMaps
  <2>2. CASE base' = base
    BY <1>1, <2>2 DEF Durable!vars, CompletedNodes, CalledNodes
  <2> QED BY <1>1, <2>1, <2>2
<1>2. CASE NodeSteps
  <2>1. PICK n \in Node : NodeStep(n)
    BY <1>2 DEF NodeSteps
  <2>2. IInv /\ GraphInv
    BY DEF Whole, Sound
  <2>3. PICK to \in TaskState, s \in NodeStatus, e \in EffectState :
          Moves(n, to, s, e) /\ (Tries(n, to, s, e) \/ Works(n, to, s, e) \/ Ends(n, to, s, e))
    BY <2>1, <2>2, NodeMoves DEF GraphInv
  <2>4. base' \in {base, rec} /\ (Tries(n, to, s, e) => base' = base)
    BY <2>2, <2>3, MovesFrom
  <2>5. CASE calls' = calls
    BY <1>1, <2>4, <2>5
  <2>6. CASE calls' # calls
    <3>1. /\ Written /\ base' = base /\ worker = "joining"
          /\ task[n] = IF n \in Once THEN "dispatched" ELSE "prepared"
          /\ calls' = [calls EXCEPT ![n] = IF @ < 2 THEN @ + 1 ELSE @]
      BY <2>3, <2>4, <2>6 DEF Moves, Tries, Works, Ends
    <3> QED BY <3>1, CallMaps
  <2> QED BY <2>5, <2>6
<1>3. CASE Person
  <2>1. CASE Cancel
    BY <1>1, <2>1, CancelIs DEF Whole, Sound
  <2>2. CASE Approve \/ Reject \/ Resume
    BY <1>1, <2>2 DEF Approve, Reject, Resume, Save, Mutate, Write, ghosts
  <2>3. ASSUME NEW n \in Node, ReconcileDispatched(n)
        PROVE  base' \in {base, rec} /\ calls' = calls
    BY <2>3 DEF ReconcileDispatched, Save, Mutate, Write, ghosts
  <2> QED BY <1>1, <1>3, <2>1, <2>2, <2>3, VouchMaps DEF Person
<1>4. CASE Flush \/ WorkerStep \/ StopStep \/ CancelAborts \/ LoseLease \/ Stop \/ Crash \/ Boot
           \/ UNCHANGED vars
  BY <1>1, <1>4 DEF Flush, WorkerStep, Claim, HandBack, Begin, SaveBegin, Release, Round, Stuck,
     Join, LeaveLost, Finish, Noted, NoteFails, StopStep, StopReads, StopPauses, Stopped,
     CancelAborts, LoseLease, Stop, Crash, Boot, Save, Mutate, Write, vars, store, ghosts
<1> QED BY <1>2, <1>3, <1>4 DEF Next

\* The record of a run is a durable run to whoever reads it: for every graph
\* whose nodes are in line, every kind of node and every interleaving of
\* claims, crashes, lost leases, retries, cancellations, approvals, resumes and
\* reconciliations, until an orderly stop of the service catches an execution.
THEOREM ImplementsDurableRun ==
  ASSUME InLine(Node)
  PROVE  Spec /\ []Unstopped => DurableSpec
<1>1. Init => Whole /\ FollowInv
  BY WholeInitially
<1>2. Whole /\ FollowInv /\ [Next]_vars /\ Unstopped' => Whole' /\ FollowInv'
  BY WholeInductive, FollowInductive
<1>3. Init => Durable!Init
  BY DurableInitially
<1>4. Whole /\ FollowInv /\ [Next]_vars => [Durable!Next]_(Durable!vars)
  BY DurableStep
<1> QED BY <1>1, <1>2, <1>3, <1>4, PTL DEF Spec, DurableSpec, Durable!Spec
=============================================================================
