--------------------------- MODULE RunQueue_proofs ---------------------------
(***************************************************************************)
(* What RunQueue promises for any number of runs, environments and keys,   *)
(* any limits, and any number of faults and restarts.                      *)
(*                                                                         *)
(* The invariant says of a mutation under way what memory holds beyond the *)
(* file (OpOK), of the worker which run it holds (WorkerOK), of the keys   *)
(* who was answered what (KeyOK), and of the turns of the environments     *)
(* that those passed since lie between a waiting bucket and the cursor, in *)
(* the circular order in which buckets are served (TurnOK).                *)
(***************************************************************************)
EXTENDS RunQueue, FiniteSetTheorems, WellFoundedInduction, TLAPS

Image == [runs : [Run -> Record], cursor : Bucket \cup {None}]
Kinds == {"enqueue", "cancel", "requeue", "claim", "finish", "end", "fail", "spawn", "leave",
          "yield", "again", "release", "recover", "pause"}

\* The records by themselves: leases, and keys that name one run.
RecordsOK(rs) ==
  \A r \in Run : /\ rs[r].lease => rs[r].st = "running" /\ rs[r].queue
                 /\ rs[r].st = "none" => rs[r].key = NoKey
                 /\ \A s \in Run : \/ r = s \/ rs[r].key = NoKey
                                   \/ rs[r].bucket # rs[s].bucket \/ rs[r].key # rs[s].key
Img(i) == i \in Image /\ RecordsOK(i.runs)

\* A run is for ever, and so is its key ...
Follows(old, new) ==
  \A r \in Run :
    old[r].st # "none" => /\ new[r].st # "none" /\ new[r].bucket = old[r].bucket
                          /\ new[r].key = old[r].key

\* ... and its end, but for the execution that could not be noted.
Stays(r, was, is) == was = "ended" => is = "ended" \/ (pc = "unnoted" /\ r = Current /\ is = "paused")

\* top is in the middle of its execution, a child of its in its slot or not.
Busy == pc \in {"exec", "full", "fail"} \/ (pc \in {"note", "unnoted"} /\ sub # None)

\* The claim under way takes the first run that is due in the next bucket.
Claimed ==
  /\ pc = "poll"
  /\ op.run \in Due(disk.runs) /\ disk.runs[op.run].bucket = mem.cursor
  /\ mem.cursor = NextBucket(disk.runs, disk.cursor)
  /\ mem.runs = [disk.runs EXCEPT ![op.run].st = "running", ![op.run].queue = TRUE,
                                  ![op.run].lease = TRUE]

KindOK ==
  /\ op.kind \in {"claim", "enqueue", "spawn"} => op.run \in Run /\ mem.runs[op.run].st # "none"
  /\ op.kind = "claim" => Claimed
  /\ op.kind # "claim" =>
       /\ mem.cursor = disk.cursor
       /\ \A r \in Run : disk.runs[r].st = "queued" /\ mem.runs[r].st = "running"
                           => ~mem.runs[r].lease
  /\ op.kind = "finish" => pc \in {"exec", "full"} /\ sub = None
  /\ op.kind = "spawn" => pc = "exec" /\ disk.runs[op.run].st = "none"
  /\ op.kind \in {"end", "yield", "again"} => pc = "exec"
  /\ op.kind = "leave" => pc \in {"exec", "unnoted"} /\ sub # None
  /\ op.kind = "fail" => pc = "fail" \/ (pc = "unnoted" /\ sub = None)
  /\ op.kind = "release" => pc = "release"
  /\ op.kind = "recover" => pc = "off"
  /\ op.kind = "pause" => pc = "pause"
  /\ Busy /\ op.kind \notin {"finish", "fail"} /\ ~(op.kind = "end" /\ sub = None)
       => mem.runs[top].st = "running"
  /\ \A r \in Run : Stays(r, disk.runs[r].st, mem.runs[r].st)

OpOK ==
  \/ op = NoOp /\ base = {} /\ mem = disk
  \/ /\ op \in [kind : Kinds, run : Run \cup {None}] /\ base = {disk}
     /\ ~Refused(disk.runs, mem.runs) /\ Follows(disk.runs, mem.runs) /\ KindOK

WorkerOK ==
  /\ pc \in {"off", "pause", "poll", "exec", "full", "fail", "note", "unnoted", "release"}
  /\ {top, sub} \subseteq Run \cup {None} /\ lost \in BOOLEAN
  /\ pc \notin {"off", "pause", "poll"} <=> top # None
  /\ sub # None => pc \in {"exec", "note", "unnoted"} /\ sub # top
  /\ top # None => disk.runs[top].st # "none"
  /\ Busy => disk.runs[top].st = "running"

KeyOK ==
  \A x \in replies :
    \E b \in Bucket, k \in Key, r \in Run :
      /\ x = <<b, k, r>> /\ disk.runs[r].st # "none"
      /\ disk.runs[r].bucket = b /\ disk.runs[r].key = k

\* x was served after c, and m is the last that was: c, x, m in circular order.
Between(c, x, m) == m # None /\ ((c < x /\ x <= m) \/ (m < c /\ c < x) \/ (x <= m /\ m < c))
TurnOK ==
  /\ passed \in [Bucket -> SUBSET Bucket]
  /\ \A c \in Bucket : \A x \in passed[c] : Between(c, x, disk.cursor)

IInv == /\ Img(mem) /\ Img(disk) /\ OpOK /\ WorkerOK /\ KeyOK /\ TurnOK
        /\ clock \in 0 .. MaxTime

LEMMA Constants ==
  /\ Run \subseteq Nat \ {None} /\ Bucket \subseteq Nat \ {None} /\ Local \in Bucket
  /\ NoKey \notin Key /\ None = 0 /\ None \notin Run /\ None \notin Bucket
  /\ Global \in Nat /\ PerBucket \in Nat /\ MaxTime \in Nat
  BY QueueAssumption, LimitAssumption, BoundAssumption DEF None

-----------------------------------------------------------------------------
(* The next bucket and the candidate exist.                                *)

\* A set of buckets has a least one: its set of smaller ones is minimal.
LEMMA LeastBucket ==
  ASSUME NEW T \in SUBSET Bucket, T # {}
  PROVE  Min(T) \in T /\ \A y \in T : Min(T) <= y
<1> DEFINE below(x) == {y \in Bucket : y < x}
           B == {below(x) : x \in T}
<1>1. IsFiniteSet(Bucket) /\ Bucket \subseteq Nat
  BY QueueAssumption
<1>2. ASSUME NEW x \in T PROVE below(x) \in FiniteSubsetsOf(Bucket)
  <2>1. below(x) \in SUBSET Bucket
    OBVIOUS
  <2> HIDE DEF below
  <2> QED
    BY <1>1, <2>1, FS_Subset DEF FiniteSubsetsOf
<1>3. IsWellFoundedOn(StrictSubsetOrdering(Bucket), FiniteSubsetsOf(Bucket))
  BY FS_StrictSubsetOrderingWellFounded
<1>4. PICK w \in B : \A v \in B : ~(<<v, w>> \in StrictSubsetOrdering(Bucket))
  <2>1. B \subseteq FiniteSubsetsOf(Bucket) /\ B # {}
    BY <1>2
  <2> HIDE DEF B
  <2> QED
    BY <1>3, <2>1, WFMin
<1>5. PICK x \in T : w = below(x)
  BY <1>4
<1>6. ASSUME NEW y \in T PROVE x <= y
  <2>1. x \in Nat /\ y \in Nat /\ y \in Bucket
    BY <1>1
  <2>2. SUFFICES ASSUME y < x PROVE FALSE
    BY <2>1
  <2>3. \A z \in Bucket : z < y => z < x
    BY <1>1, <2>1, <2>2
  <2>4. below(y) \subseteq below(x)
    BY <2>3
  <2>5. y \in below(x) /\ y \notin below(y)
    BY <2>1, <2>2
  <2>6. <<below(y), below(x)>> \in StrictSubsetOrdering(Bucket)
    BY <2>4, <2>5 DEF StrictSubsetOrdering
  <2> QED
    BY <1>4, <1>5, <2>6
<1> QED
  BY <1>6 DEF Min

\* compareQueuedRuns is a strict order ...
LEMMA BeforeOrders ==
  ASSUME NEW rs \in [Run -> Record], NEW r \in Run, NEW s \in Run, r # s
  PROVE  /\ Before(rs, r, s) \/ Before(rs, s, r)
         /\ ~Before(rs, r, r)
         /\ \A x \in Run : Before(rs, x, r) /\ Before(rs, r, s) => Before(rs, x, s)
<1>1. Run \subseteq Nat /\ \A x \in Run : rs[x].at \in Nat
  BY Constants DEF Record
<1> QED
  BY <1>1 DEF Before

\* ... so that a bucket with due runs has a first one.
LEMMA FirstCandidate ==
  ASSUME NEW rs \in [Run -> Record], NEW b \in DueBuckets(rs)
  PROVE  Candidate(rs, b) \in Due(rs) /\ rs[Candidate(rs, b)].bucket = b
<1> DEFINE T == {r \in Due(rs) : rs[r].bucket = b}
           ahead(r) == {s \in Run : Before(rs, s, r)}
           B == {ahead(r) : r \in T}
<1>1. IsFiniteSet(Run) /\ T \subseteq Run /\ T # {}
  BY QueueAssumption DEF Due, DueBuckets
<1>2. ASSUME NEW r \in T PROVE ahead(r) \in FiniteSubsetsOf(Run)
  <2>1. ahead(r) \in SUBSET Run
    OBVIOUS
  <2> HIDE DEF ahead
  <2> QED
    BY <1>1, <2>1, FS_Subset DEF FiniteSubsetsOf
<1>3. IsWellFoundedOn(StrictSubsetOrdering(Run), FiniteSubsetsOf(Run))
  BY FS_StrictSubsetOrderingWellFounded
<1>4. PICK w \in B : \A v \in B : ~(<<v, w>> \in StrictSubsetOrdering(Run))
  <2>1. B \subseteq FiniteSubsetsOf(Run) /\ B # {}
    BY <1>1, <1>2
  <2> HIDE DEF B
  <2> QED
    BY <1>3, <2>1, WFMin
<1>5. PICK r \in T : w = ahead(r)
  BY <1>4
<1>6. ASSUME NEW s \in T, s # r PROVE Before(rs, r, s)
  <2>1. SUFFICES ASSUME Before(rs, s, r) PROVE FALSE
    BY <1>1, <1>6, BeforeOrders
  <2>2. ahead(s) \subseteq ahead(r) /\ s \in ahead(r) /\ s \notin ahead(s)
    BY <1>1, <1>6, <2>1, BeforeOrders
  <2>3. <<ahead(s), ahead(r)>> \in StrictSubsetOrdering(Run)
    BY <2>2 DEF StrictSubsetOrdering
  <2> QED
    BY <1>4, <1>5, <2>3
<1>7. \E c \in Due(rs) : /\ rs[c].bucket = b
                         /\ \A s \in Due(rs) \ {c} : rs[s].bucket = b => Before(rs, c, s)
  BY <1>5, <1>6
<1> QED
  BY <1>7 DEF Candidate

-----------------------------------------------------------------------------
(* A mutation begins.                                                      *)

\* Between two mutations the memory is the file.
LEMMA Idle ==
  ASSUME IInv, op = NoOp
  PROVE  base = {} /\ mem = disk
<1>1. "none" \notin Kinds
  BY DEF Kinds
<1> QED
  BY <1>1 DEF IInv, OpOK, NoOp

LEMMA BeginStep ==
  ASSUME IInv, NEW kind \in Kinds, NEW r \in Run \cup {None}, NEW rs, NEW c,
         Begin(kind, r, rs, c), Img([runs |-> rs, cursor |-> c]), Follows(runs, rs), KindOK'
  PROVE  IInv'
<1> USE DEF Begin, worker, bounds
<1>1. base = {} /\ mem = disk
  BY Idle
<1>2. mem' = [runs |-> rs, cursor |-> c] /\ disk' = disk /\ base' = {disk}
      /\ op' = [kind |-> kind, run |-> r] /\ ~Refused(disk.runs, rs)
  BY <1>1 DEF runs
<1>3. OpOK'
  <2>1. mem'.runs = rs
    BY <1>2
  <2>2. ~Refused(disk'.runs, mem'.runs)
    BY <1>2, <2>1
  <2>3. Follows(disk'.runs, mem'.runs)
    BY <1>1, <1>2, <2>1 DEF runs
  <2>4. op' \in [kind : Kinds, run : Run \cup {None}]
    BY <1>2
  <2> QED
    BY <1>2, <2>2, <2>3, <2>4 DEF OpOK, Refused, Follows, Admitted, AdmittedIn
<1>4. Img(mem') /\ Img(disk')
  BY <1>2 DEF IInv
<1>5. WorkerOK' /\ KeyOK' /\ TurnOK' /\ clock' \in 0 .. MaxTime
  BY <1>2 DEF IInv, WorkerOK, KeyOK, TurnOK, Busy
<1> QED
  BY <1>3, <1>4, <1>5 DEF IInv, Img, RecordsOK

\* A mutation of one record, which is not a claim.
LEMMA PutStep ==
  ASSUME IInv, NEW kind \in Kinds \ {"claim"}, NEW r \in Run, NEW d \in Record,
         Put(kind, r, d),
         d.lease => d.st = "running" /\ d.queue, d.st # "none",
         runs[r].st # "none" => d.bucket = runs[r].bucket /\ d.key = runs[r].key,
         Stays(r, runs[r].st, d.st),
         runs[r].st = "queued" /\ d.st = "running" => ~d.lease,
         runs[r].st = "none" => \/ d.key = NoKey
                                \/ \A s \in Run : runs[s].key = d.key => runs[s].bucket # d.bucket,
         kind = "finish" => pc \in {"exec", "full"} /\ sub = None,
         kind = "spawn" => pc = "exec" /\ runs[r].st = "none",
         kind \in {"end", "yield", "again"} => pc = "exec",
         kind = "leave" => pc \in {"exec", "unnoted"} /\ sub # None,
         kind = "fail" => pc = "fail" \/ (pc = "unnoted" /\ sub = None),
         kind = "release" => pc = "release",
         kind \notin {"recover", "pause"},
         Busy /\ kind \notin {"finish", "fail"} /\ ~(kind = "end" /\ sub = None)
           => r # top \/ d.st = "running"
  PROVE  IInv'
<1>1. PICK rs : rs = [runs EXCEPT ![r] = d]
  OBVIOUS
<1>2. op = NoOp /\ Begin(kind, r, rs, mem.cursor)
  BY <1>1 DEF Put, Begin
<1>3. mem = disk /\ mem \in Image /\ RecordsOK(runs) /\ runs \in [Run -> Record]
  BY <1>2, Idle DEF IInv, Img, Image, runs
<1>4. rs \in [Run -> Record] /\ rs[r] = d /\ \A s \in Run \ {r} : rs[s] = runs[s]
  BY <1>1, <1>3
<1>5. RecordsOK(rs)
  BY <1>3, <1>4 DEF RecordsOK
<1>6. Img([runs |-> rs, cursor |-> mem.cursor])
  BY <1>3, <1>4, <1>5 DEF Img, Image
<1>7. Follows(runs, rs)
  BY <1>3, <1>4 DEF Follows
<1>8. KindOK'
  <2>1. mem'.runs = rs /\ mem'.cursor = mem.cursor /\ disk' = disk /\ disk.runs = runs
        /\ op'.kind = kind /\ op'.run = r /\ UNCHANGED <<pc, top, sub>>
    BY <1>2, <1>3 DEF Begin, worker, runs
  <2>2. \A s \in Run : runs[s].st = "queued" /\ rs[s].st = "running" => ~rs[s].lease
    BY <1>4
  <2>3. Busy /\ kind \notin {"finish", "fail"} /\ ~(kind = "end" /\ sub = None)
          => rs[top].st = "running"
    <3>1. Busy => top \in Run /\ runs[top].st = "running"
      BY <2>1 DEF IInv, WorkerOK, Busy
    <3> QED
      BY <1>4, <3>1
  <2>4. \A s \in Run : Stays(s, runs[s].st, rs[s].st)
    BY <1>4 DEF Stays
  <2>5. (\A s \in Run : Stays(s, disk.runs[s].st, mem.runs[s].st))'
    BY <2>1, <2>4 DEF Stays, Current
  <2>6. Busy' = Busy
    BY <2>1 DEF Busy
  <2> QED
    BY <1>3, <1>4, <2>1, <2>2, <2>3, <2>5, <2>6 DEF KindOK
<1> QED
  BY <1>2, <1>6, <1>7, <1>8, BeginStep DEF Image

-----------------------------------------------------------------------------
(* The records that the operations write.                                  *)

LEMMA NoRunIs ==
  /\ NoRun \in Record /\ NoRun.st = "none" /\ NoRun.key = NoKey /\ ~NoRun.lease
  /\ [NoRun EXCEPT !.st = "running"] \in Record
  /\ [NoRun EXCEPT !.st = "running"].st = "running"
  /\ [NoRun EXCEPT !.st = "running"].key = NoKey
  /\ ~[NoRun EXCEPT !.st = "running"].lease
<1>1. NoRun \in Record /\ NoRun.st = "none" /\ NoRun.key = NoKey /\ ~NoRun.lease
  BY Constants DEF NoRun, Record, Status
<1> QED
  BY <1>1 DEF Record, Status

LEMMA EndedIs ==
  ASSUME NEW d \in Record
  PROVE  /\ Ended(d) \in Record /\ Ended(d).st = "ended" /\ ~Ended(d).lease
         /\ Ended(d).bucket = d.bucket /\ Ended(d).key = d.key
<1>1. NoRun \in Record /\ ~NoRun.lease
  BY NoRunIs
<1>2. d.bucket \in Bucket /\ d.key \in Key \cup {NoKey}
  BY DEF Record
<1> QED
  BY <1>1, <1>2 DEF Ended, Record, Status

LEMMA NewRunIs ==
  ASSUME NEW b \in Bucket, NEW k \in Key, clock \in 0 .. MaxTime
  PROVE  /\ NewRun(b, k) \in Record /\ NewRun(b, k).st = "queued" /\ ~NewRun(b, k).lease
         /\ NewRun(b, k).bucket = b /\ NewRun(b, k).key = k
  BY Constants DEF NewRun, NoRun, Record, Status

LEMMA LeftIs ==
  ASSUME NEW d \in Record, NEW e \in Left(d), clock \in 0 .. MaxTime
  PROVE  /\ e \in Record /\ ~e.lease /\ e.bucket = d.bucket /\ e.key = d.key
         /\ e.st \in {"ended", "paused", "waiting", "queued"}
<1>1. CASE e = Ended(d)
  BY <1>1, EndedIs
<1>2. CASE \E s \in {"paused", "waiting"} : e = [d EXCEPT !.st = s, !.lease = FALSE]
  BY <1>2 DEF Record, Status
<1>3. CASE clock < MaxTime /\ e = [d EXCEPT !.st = "queued", !.queue = TRUE, !.at = clock + 1,
                                            !.lease = FALSE]
  <2>1. clock + 1 \in 0 .. MaxTime
    BY <1>3, Constants
  <2> QED
    BY <1>3, <2>1 DEF Record, Status
<1> QED
  BY <1>1, <1>2, <1>3 DEF Left

LEMMA InterruptedIs ==
  ASSUME NEW d \in Record, NEW e \in Interrupted(d), clock \in 0 .. MaxTime
  PROVE  /\ e \in Record /\ ~e.lease /\ e.bucket = d.bucket /\ e.key = d.key
         /\ e.st \in {"ended", "paused", "queued"}
<1>1. CASE e = Ended(d)
  BY <1>1, EndedIs
<1>2. CASE e = [d EXCEPT !.st = "queued", !.queue = TRUE, !.at = clock, !.lease = FALSE]
  BY <1>2 DEF Record, Status
<1>3. CASE e = [d EXCEPT !.st = "paused", !.lease = FALSE]
  BY <1>3 DEF Record, Status
<1> QED
  BY <1>1, <1>2, <1>3 DEF Interrupted

\* What the invariant says of the records, and of the run that is executed.
LEMMA OfRuns ==
  ASSUME IInv
  PROVE  /\ runs \in [Run -> Record] /\ clock \in 0 .. MaxTime
         /\ Busy => top \in Run /\ (op = NoOp => runs[top].st = "running")
         /\ pc \in {"exec", "full", "fail"} => Busy
         /\ sub # None => sub \in Run /\ sub # top
  BY Idle DEF IInv, Img, Image, WorkerOK, runs, Busy

-----------------------------------------------------------------------------
(* The operations that write one record.                                   *)

LEMMA EnqueueStep ==
  ASSUME NEW r \in Run, NEW b \in Bucket, NEW k \in Key, IInv, Enqueue(r, b, k)
  PROVE  IInv'
<1>1. runs[r].st = "none" /\ Put("enqueue", r, NewRun(b, k)) /\ op = NoOp
  BY DEF Enqueue, Fresh, Put, Begin
<1>2. \A s \in Run : runs[s].key = k => runs[s].bucket # b
  <2>1. RecordsOK(runs)
    BY DEF IInv, Img, runs
  <2>2. \A s \in Run : runs[s].st = "none" => runs[s].key # k
    BY <2>1, Constants DEF RecordsOK
  <2> QED
    BY <2>2 DEF Enqueue, Duplicate
<1>3. Busy => r # top
  BY <1>1, OfRuns
<1>4. "enqueue" \in Kinds \ {"claim"} /\ clock \in 0 .. MaxTime
  BY OfRuns DEF Kinds
<1> QED
  BY <1>1, <1>2, <1>3, <1>4, NewRunIs, PutStep DEF Stays

LEMMA CancelStep == ASSUME NEW r \in Run, IInv, Cancel(r) PROVE IInv'
<1>1. "cancel" \in Kinds \ {"claim"} /\ runs[r] \in Record
  BY OfRuns DEF Kinds
<1>2. CASE runs[r].st \in {"queued", "waiting"} /\ Put("cancel", r, Ended(runs[r]))
  <2>1. Busy => r # top
    BY <1>2, OfRuns DEF Put, Begin
  <2> QED
    BY <1>1, <1>2, <2>1, EndedIs, PutStep DEF Stays
<1>3. CASE runs[r].st = "running" /\ Put("cancel", r, [runs[r] EXCEPT !.queue = TRUE])
  <2>1. PICK d : d = [runs[r] EXCEPT !.queue = TRUE]
    OBVIOUS
  <2>2. d \in Record /\ d.st = "running" /\ d.bucket = runs[r].bucket /\ d.key = runs[r].key
        /\ d.lease = runs[r].lease /\ d.queue
    BY <1>1, <1>3, <2>1 DEF Record
  <2> QED
    BY <1>1, <1>3, <2>1, <2>2, PutStep DEF Stays
<1> QED
  BY <1>2, <1>3 DEF Cancel

LEMMA RequeueStep == ASSUME NEW r \in Run, IInv, Requeue(r) PROVE IInv'
<1>1. "requeue" \in Kinds \ {"claim"} /\ runs[r] \in Record /\ clock \in 0 .. MaxTime
  BY OfRuns DEF Kinds
<1>2. PICK d : d = [runs[r] EXCEPT !.st = "queued", !.queue = TRUE, !.at = clock]
  OBVIOUS
<1>3. d \in Record /\ d.st = "queued" /\ d.bucket = runs[r].bucket /\ d.key = runs[r].key
      /\ d.lease = runs[r].lease
  BY <1>1, <1>2 DEF Record, Status
<1>4. RecordsOK(runs) /\ runs[r].st \in {"paused", "waiting"} /\ Put("requeue", r, d)
  BY <1>2 DEF Requeue, IInv, Img, runs
<1>5. ~d.lease
  BY <1>3, <1>4 DEF RecordsOK
<1>6. Busy => r # top
  BY <1>4, OfRuns DEF Put, Begin
<1> QED
  BY <1>1, <1>3, <1>4, <1>5, <1>6, PutStep DEF Stays

LEMMA FinishStep == ASSUME IInv, Finish PROVE IInv'
<1>1. {"finish", "end"} \subseteq Kinds \ {"claim"} /\ top \in Run /\ runs[top] \in Record
      /\ clock \in 0 .. MaxTime /\ runs[top].st = "running"
  BY OfRuns DEF Kinds, Finish, Executing
<1>2. PICK d \in Left(runs[top]), kind \in {"finish", "end"} : Put(kind, top, d)
  BY DEF Finish
<1>3. pc = "exec" /\ sub = None
  BY DEF Finish, Executing
<1> QED
  BY <1>1, <1>2, <1>3, LeftIs, PutStep DEF Stays

LEMMA SpawnStep == ASSUME NEW r \in Run, IInv, Spawn(r) PROVE IInv'
<1>1. "spawn" \in Kinds \ {"claim"} /\ runs[r].st = "none" /\ pc = "exec" /\ op = NoOp
      /\ Put("spawn", r, [NoRun EXCEPT !.st = "running"])
  BY DEF Kinds, Spawn, Fresh, Executing
<1>2. r # top
  BY <1>1, OfRuns
<1> QED
  BY <1>1, <1>2, NoRunIs, PutStep DEF Stays

LEMMA SubFinishStep == ASSUME IInv, SubFinish PROVE IInv'
<1>1. {"yield", "leave", "end"} \subseteq Kinds \ {"claim"} /\ sub \in Run /\ runs[sub] \in Record
      /\ clock \in 0 .. MaxTime /\ runs[sub].st = "running" /\ pc = "exec" /\ sub # top
      /\ sub # None
  BY OfRuns DEF Kinds, SubFinish, Executing
<1>2. PICK d \in Left(runs[sub]), kind \in {"yield", "leave", "end"} : Put(kind, sub, d)
  BY DEF SubFinish
<1> QED
  BY <1>1, <1>2, LeftIs, PutStep DEF Stays

LEMMA SubAgainStep == ASSUME IInv, SubAgain PROVE IInv'
<1>1. {"again", "leave"} \subseteq Kinds \ {"claim"} /\ sub \in Run /\ runs[sub] \in Record
      /\ runs[sub].st = "queued" /\ pc = "exec" /\ sub # top /\ sub # None
  BY OfRuns DEF Kinds, SubAgain, Executing
<1>2. CASE Put("again", sub, [runs[sub] EXCEPT !.st = "running"])
  <2>1. PICK d : d = [runs[sub] EXCEPT !.st = "running"]
    OBVIOUS
  <2>2. d \in Record /\ d.st = "running" /\ d.bucket = runs[sub].bucket
        /\ d.key = runs[sub].key /\ d.lease = runs[sub].lease
    BY <1>1, <2>1 DEF Record, Status
  <2>3. ~runs[sub].lease
    BY <1>1 DEF IInv, Img, RecordsOK, runs
  <2> QED
    BY <1>1, <1>2, <2>1, <2>2, <2>3, PutStep DEF Stays
<1>3. CASE Put("leave", sub, Ended(runs[sub]))
  BY <1>1, <1>3, EndedIs, PutStep DEF Stays
<1> QED
  BY <1>2, <1>3 DEF SubAgain

\* The catch that saves the current execution as failed, whatever is on disk.
LEMMA MisreportStep == ASSUME IInv, Misreport PROVE IInv'
<1>1. PICK r : r = Current
  OBVIOUS
<1>2. PICK kind : kind = (IF sub = None THEN "fail" ELSE "leave")
  OBVIOUS
<1>3. PICK d : d = [runs[r] EXCEPT !.st = "paused", !.lease = FALSE]
  OBVIOUS
<1>4. pc = "unnoted" /\ Put(kind, r, d) /\ kind \in Kinds \ {"claim"}
  BY <1>1, <1>2, <1>3 DEF Misreport, Kinds
<1>5. r \in Run /\ runs[r] \in Record /\ RecordsOK(runs) /\ (sub # None => r # top)
  BY <1>1, <1>4, OfRuns DEF Current, IInv, WorkerOK, Img, runs
<1>6. d \in Record /\ d.st = "paused" /\ d.bucket = runs[r].bucket /\ d.key = runs[r].key
      /\ ~d.lease
  BY <1>3, <1>5 DEF Record, Status
<1>7. runs[r].st = "none" => d.key = NoKey
  BY <1>5, <1>6 DEF RecordsOK
<1>8. Stays(r, runs[r].st, d.st)
  BY <1>1, <1>4, <1>6 DEF Stays
<1>9. Busy => r # top
  BY <1>4, <1>5 DEF Busy
<1> QED
  BY <1>2, <1>4, <1>5, <1>6, <1>7, <1>8, <1>9, PutStep

LEMMA FailStep == ASSUME IInv, Fail PROVE IInv'
<1>1. top \in Run /\ runs[top] \in Record /\ pc \in {"full", "fail"}
  BY OfRuns DEF Fail
<1>2. PICK d : d = [runs[top] EXCEPT !.st = "paused", !.lease = FALSE]
  OBVIOUS
<1>3. d \in Record /\ d.st = "paused" /\ d.bucket = runs[top].bucket /\ d.key = runs[top].key
      /\ ~d.lease
  BY <1>1, <1>2 DEF Record, Status
<1>4. PICK kind : kind = (IF pc = "full" THEN "finish" ELSE "fail")
  OBVIOUS
<1>5. Put(kind, top, d) /\ kind \in Kinds \ {"claim"}
  BY <1>2, <1>4 DEF Fail, Kinds
<1>6. op = NoOp /\ sub = None /\ runs[top].st = "running"
  BY <1>1, <1>5, OfRuns DEF Put, Begin, IInv, WorkerOK
<1> QED
  BY <1>1, <1>3, <1>4, <1>5, <1>6, PutStep DEF Stays

-----------------------------------------------------------------------------
(* The rest of the worker.                                                 *)

\* A step of the worker that writes nothing.
LEMMA WorkerStep ==
  ASSUME IInv, op = NoOp, WorkerOK', UNCHANGED <<image, replies, passed, clock>>
  PROVE  IInv'
<1> USE DEF image
<1>1. base = {} /\ mem = disk /\ op' = NoOp /\ base' = {} /\ mem' = mem /\ disk' = disk
  BY Idle
<1>2. OpOK'
  BY <1>1 DEF OpOK
<1>3. KeyOK' /\ TurnOK' /\ clock' \in 0 .. MaxTime
  BY <1>1 DEF IInv, KeyOK, TurnOK
<1>4. Img(mem)' /\ Img(disk)'
  BY <1>1 DEF IInv, Img, RecordsOK
<1> QED
  BY <1>2, <1>3, <1>4 DEF IInv

LEMMA ReleaseStep == ASSUME IInv, Release PROVE IInv'
<1>1. pc = "release" /\ top \in Run /\ sub = None /\ runs[top] \in Record /\ clock \in 0 .. MaxTime
  BY OfRuns DEF Release, IInv, WorkerOK
<1>2. "release" \in Kinds \ {"claim"} /\ RecordsOK(runs)
  BY DEF Kinds, IInv, Img, runs
<1>3. CASE runs[top].lease
  <2>1. runs[top].st = "running"
    BY <1>1, <1>2, <1>3 DEF RecordsOK
  <2>2. CASE \E d \in Interrupted(runs[top]) : Put("release", top, d)
    BY <1>1, <1>2, <2>1, <2>2, InterruptedIs, PutStep DEF Stays, Busy
  <2>3. CASE Put("release", top, [runs[top] EXCEPT !.lease = FALSE])
    <3>1. PICK d : d = [runs[top] EXCEPT !.lease = FALSE]
      OBVIOUS
    <3>2. d \in Record /\ d.st = "running" /\ d.bucket = runs[top].bucket
          /\ d.key = runs[top].key /\ ~d.lease
      BY <1>1, <2>1, <3>1 DEF Record
    <3> QED
      BY <1>1, <1>2, <2>1, <2>3, <3>1, <3>2, PutStep DEF Stays, Busy
  <2> QED
    BY <1>3, <2>2, <2>3 DEF Release
<1>4. CASE ~runs[top].lease
  <2>1. op = NoOp /\ pc' = "poll" /\ top' = None /\ lost' = FALSE /\ UNCHANGED <<image, sub>>
        /\ UNCHANGED <<clock, replies, passed>>
    BY <1>4 DEF Release
  <2>2. WorkerOK'
    BY <1>1, <2>1, Constants DEF WorkerOK, image, Busy
  <2> QED
    BY <2>1, <2>2, WorkerStep
<1> QED
  BY <1>3, <1>4

LEMMA NoteSteps == ASSUME IInv, Noted \/ NoteFails PROVE IInv'
<1>1. op = NoOp /\ pc = "note" /\ UNCHANGED <<image, replies, passed, clock, top, lost>>
  BY DEF Noted, NoteFails
<1>2. disk' = disk /\ top \in Run /\ top # None /\ sub \in Run \cup {None}
  BY <1>1, Constants DEF image, IInv, WorkerOK
<1>3. WorkerOK'
  <2>1. CASE Noted
    BY <1>1, <1>2, <2>1, Constants DEF Noted, IInv, WorkerOK, Busy
  <2>2. CASE NoteFails
    BY <1>1, <1>2, <2>2, Constants DEF NoteFails, IInv, WorkerOK, Busy
  <2> QED
    BY <2>1, <2>2
<1> QED
  BY <1>1, <1>3, WorkerStep

LEMMA SmallSteps ==
  ASSUME IInv, SpawnRefused \/ SubGone \/ LoseHeartbeat \/ Abort
  PROVE  IInv'
<1>1. op = NoOp /\ pc = "exec" /\ UNCHANGED <<image, replies, passed, clock, top>>
  BY DEF SpawnRefused, SubGone, LoseHeartbeat, Abort, Executing
<1>2. /\ pc' \in {"exec", "full", "release"} /\ sub' \in {sub, None} /\ lost' \in BOOLEAN
      /\ pc' # "exec" => sub' = None
  BY <1>1 DEF SpawnRefused, SubGone, LoseHeartbeat, Abort, Executing, IInv, WorkerOK
<1>3. WorkerOK'
  <2>1. disk' = disk /\ top' = top /\ top \in Run /\ top # None
    BY <1>1, Constants DEF image, IInv, WorkerOK
  <2> QED
    BY <1>1, <1>2, <2>1, Constants DEF IInv, WorkerOK, Busy
<1> QED
  BY <1>1, <1>3, WorkerStep

\* A mutation of many records, when the process starts.
LEMMA StartupStep ==
  ASSUME IInv, NEW kind \in {"recover", "pause"}, kind = "recover" => pc = "off",
         kind = "pause" => pc = "pause",
         NEW rs \in [Run -> Record], Begin(kind, None, rs, mem.cursor),
         \A r \in Run : \/ rs[r] = runs[r]
                        \/ /\ runs[r].st \in {"queued", "running"}
                           /\ rs[r].st \in {"queued", "paused"} /\ ~rs[r].lease
                           /\ rs[r].bucket = runs[r].bucket /\ rs[r].key = runs[r].key
  PROVE  IInv'
<1>1. op = NoOp /\ mem = disk /\ RecordsOK(runs) /\ mem \in Image
  BY Idle DEF Begin, IInv, Img, runs
<1>2. RecordsOK(rs)
  <2>1. \A r \in Run : rs[r].key = runs[r].key /\ rs[r].bucket = runs[r].bucket
    OBVIOUS
  <2>2. \A r \in Run : (rs[r].lease => rs[r].st = "running" /\ rs[r].queue) /\ (rs[r].st = "none" => rs[r].key = NoKey)
    BY <1>1 DEF RecordsOK
  <2> QED
    BY <1>1, <2>1, <2>2 DEF RecordsOK
<1>3. Img([runs |-> rs, cursor |-> mem.cursor])
  BY <1>1, <1>2 DEF Img, Image
<1>4. Follows(runs, rs)
  BY <1>1 DEF Follows
<1>5. KindOK'
  <2>1. mem'.runs = rs /\ mem'.cursor = mem.cursor /\ disk' = disk /\ disk.runs = runs
        /\ op'.kind = kind /\ UNCHANGED <<pc, top, sub>>
    BY <1>1 DEF Begin, worker, runs
  <2>2. \A r \in Run : runs[r].st = "queued" /\ rs[r].st = "running" => ~rs[r].lease
    BY <1>1 DEF RecordsOK
  <2>3. \A r \in Run : runs[r].st = "ended" => rs[r].st = "ended"
    OBVIOUS
  <2> QED
    BY <1>1, <2>1, <2>2, <2>3 DEF KindOK, Stays, Busy
<1>6. kind \in Kinds
  BY DEF Kinds
<1> QED
  BY <1>3, <1>4, <1>5, <1>6, BeginStep DEF Image

LEMMA RecoverStep == ASSUME IInv, Recover PROVE IInv'
<1> DEFINE held == {r \in Run : runs[r].st = "running" /\ runs[r].lease}
<1>1. CASE held = {}
  <2>1. op = NoOp /\ pc = "off" /\ pc' = "pause" /\ UNCHANGED <<image, top, sub, lost>>
        /\ UNCHANGED <<clock, replies, passed>>
    BY <1>1 DEF Recover
  <2>2. WorkerOK'
    BY <2>1 DEF IInv, WorkerOK, image, Busy
  <2> QED
    BY <2>1, <2>2, WorkerStep
<1>2. CASE held # {}
  <2>1. PICK again \in SUBSET held :
          Begin("recover", None,
                [r \in Run |->
                    IF r \in again
                    THEN [runs[r] EXCEPT !.st = "queued", !.at = clock, !.lease = FALSE]
                    ELSE IF r \in held
                    THEN [runs[r] EXCEPT !.st = "paused", !.lease = FALSE]
                    ELSE runs[r]],
                mem.cursor)
    BY <1>2 DEF Recover
  <2>2. PICK rs : rs = [r \in Run |->
                    IF r \in again
                    THEN [runs[r] EXCEPT !.st = "queued", !.at = clock, !.lease = FALSE]
                    ELSE IF r \in held
                    THEN [runs[r] EXCEPT !.st = "paused", !.lease = FALSE]
                    ELSE runs[r]]
    OBVIOUS
  <2>3. ASSUME NEW r \in Run
        PROVE  /\ rs[r] \in Record
               /\ \/ rs[r] = runs[r]
                  \/ /\ runs[r].st \in {"queued", "running"}
                     /\ rs[r].st \in {"queued", "paused"} /\ ~rs[r].lease
                     /\ rs[r].bucket = runs[r].bucket /\ rs[r].key = runs[r].key
    <3>1. runs[r] \in Record /\ clock \in 0 .. MaxTime
      BY OfRuns
    <3>2. CASE r \in again
      BY <2>2, <3>1, <3>2 DEF Record, Status
    <3>3. CASE r \notin again /\ r \in held
      BY <2>2, <3>1, <3>3 DEF Record, Status
    <3>4. CASE r \notin held
      BY <2>2, <3>1, <3>4
    <3> QED
      BY <3>2, <3>3, <3>4
  <2>4. rs \in [Run -> Record]
    BY <2>2, <2>3
  <2>5. pc = "off"
    BY DEF Recover
  <2> HIDE DEF held
  <2> QED
    BY <2>1, <2>2, <2>3, <2>4, <2>5, StartupStep
<1> QED
  BY <1>1, <1>2

LEMMA PauseLegacyStep == ASSUME IInv, PauseLegacy PROVE IInv'
<1> DEFINE old == {r \in Run : runs[r].st \in {"queued", "running"} /\ ~runs[r].queue}
<1>1. CASE old = {}
  <2>1. op = NoOp /\ pc = "pause" /\ pc' = "poll" /\ UNCHANGED <<image, top, sub, lost>>
        /\ UNCHANGED <<clock, replies, passed>>
    BY <1>1 DEF PauseLegacy
  <2>2. WorkerOK'
    BY <2>1 DEF IInv, WorkerOK, image, Busy
  <2> QED
    BY <2>1, <2>2, WorkerStep
<1>2. CASE old # {}
  <2>1. PICK rs : rs = [r \in Run |-> IF r \in old THEN [runs[r] EXCEPT !.st = "paused"]
                                      ELSE runs[r]]
    OBVIOUS
  <2>2. Begin("pause", None, rs, mem.cursor) /\ pc = "pause"
    BY <1>2, <2>1 DEF PauseLegacy
  <2>3. ASSUME NEW r \in Run
        PROVE  /\ rs[r] \in Record
               /\ \/ rs[r] = runs[r]
                  \/ /\ runs[r].st \in {"queued", "running"}
                     /\ rs[r].st \in {"queued", "paused"} /\ ~rs[r].lease
                     /\ rs[r].bucket = runs[r].bucket /\ rs[r].key = runs[r].key
    <3>1. runs[r] \in Record /\ (runs[r].lease => runs[r].queue)
      BY OfRuns DEF IInv, Img, RecordsOK, runs
    <3>2. CASE r \in old
      <4>1. rs[r] = [runs[r] EXCEPT !.st = "paused"]
        BY <2>1, <3>2
      <4> QED
        BY <3>1, <3>2, <4>1 DEF Record, Status
    <3>3. CASE r \notin old
      BY <2>1, <3>1, <3>3
    <3> QED
      BY <3>2, <3>3
  <2>4. rs \in [Run -> Record]
    BY <2>1, <2>3
  <2> HIDE DEF old
  <2> QED
    BY <2>2, <2>3, <2>4, StartupStep
<1> QED
  BY <1>1, <1>2

-----------------------------------------------------------------------------
(* Claims and turns.                                                       *)

LEMMA NextIs ==
  ASSUME NEW rs \in [Run -> Record], Due(rs) # {}, NEW m \in Bucket \cup {None}
  PROVE  LET n == NextBucket(rs, m)
             D == DueBuckets(rs)
         IN  /\ n \in D /\ D \subseteq Bucket
             /\ (\E d \in D : d > m) => n > m /\ \A d \in D : d > m => n <= d
             /\ ~(\E d \in D : d > m) => \A d \in D : n <= d
<1> DEFINE D == DueBuckets(rs)
           U == {d \in D : d > m}
<1>1. D \subseteq Bucket /\ D # {}
  BY DEF DueBuckets, Due, Record
<1> HIDE DEF D
<1>2. CASE \E d \in D : d > m
  <2>1. U \subseteq Bucket /\ U # {}
    BY <1>1, <1>2
  <2>2. Min(U) \in U /\ \A y \in U : Min(U) <= y
    <3> HIDE DEF U
    <3> QED
      BY <2>1, LeastBucket
  <2> QED
    BY <1>1, <1>2, <2>2 DEF NextBucket, D
<1>3. CASE ~(\E d \in D : d > m)
  <2>1. Min(D) \in D /\ \A y \in D : Min(D) <= y
    BY <1>1, LeastBucket
  <2> QED
    BY <1>1, <1>3, <2>1 DEF NextBucket, D
<1> QED
  BY <1>2, <1>3 DEF D

LEMMA ClaimStep == ASSUME IInv, Claim PROVE IInv'
<1>1. PICK b : b = NextBucket(runs, mem.cursor)
  OBVIOUS
<1>2. PICK r : r = Candidate(runs, b)
  OBVIOUS
<1>3. PICK rs : rs = [runs EXCEPT ![r].st = "running", ![r].queue = TRUE, ![r].lease = TRUE]
  OBVIOUS
<1>4. Begin("claim", r, rs, b) /\ pc = "poll" /\ Due(runs) # {}
  BY <1>1, <1>2, <1>3 DEF Claim
<1>5. op = NoOp /\ mem = disk /\ RecordsOK(runs) /\ runs \in [Run -> Record]
      /\ mem.cursor \in Bucket \cup {None} /\ disk.runs = runs
  BY <1>4, Idle DEF Begin, IInv, Img, Image, runs
<1>6. b \in DueBuckets(runs) /\ b \in Bucket
  BY <1>1, <1>4, <1>5, NextIs
<1>7. r \in Due(runs) /\ runs[r].bucket = b
  BY <1>2, <1>5, <1>6, FirstCandidate
<1>8. r \in Run /\ runs[r].st = "queued"
  BY <1>7 DEF Due
<1>9. rs \in [Run -> Record] /\ (\A s \in Run \ {r} : rs[s] = runs[s])
      /\ rs[r].st = "running" /\ rs[r].bucket = b /\ rs[r].key = runs[r].key /\ rs[r].queue
  <2>1. PICK d : d = [runs[r] EXCEPT !.st = "running", !.queue = TRUE, !.lease = TRUE]
    OBVIOUS
  <2>2. d \in Record /\ d.st = "running" /\ d.bucket = b /\ d.key = runs[r].key /\ d.queue
    BY <1>5, <1>7, <1>8, <2>1 DEF Record, Status
  <2>3. rs = [runs EXCEPT ![r] = d]
    BY <1>3, <1>5, <1>8, <2>1
  <2> QED
    BY <1>5, <1>8, <2>2, <2>3
<1>10. RecordsOK(rs)
  <2>1. \A s \in Run : rs[s].key = runs[s].key /\ rs[s].bucket = runs[s].bucket
    BY <1>7, <1>9
  <2>2. \A s \in Run : (rs[s].lease => rs[s].st = "running" /\ rs[s].queue)
                       /\ (rs[s].st = "none" => rs[s].key = NoKey)
    BY <1>5, <1>9 DEF RecordsOK
  <2> QED
    BY <1>5, <2>1, <2>2 DEF RecordsOK
<1>11. Img([runs |-> rs, cursor |-> b])
  BY <1>6, <1>9, <1>10 DEF Img, Image
<1>12. Follows(runs, rs)
  BY <1>7, <1>8, <1>9 DEF Follows
<1>13. KindOK'
  <2>1. mem'.runs = rs /\ mem'.cursor = b /\ disk' = disk /\ op'.kind = "claim" /\ op'.run = r
        /\ UNCHANGED <<pc, top, sub, clock>>
    BY <1>4 DEF Begin, worker
  <2>2. Claimed'
    <3>1. Due(disk.runs)' = Due(disk.runs)
      BY <2>1 DEF Due
    <3>2. NextBucket(disk.runs, disk.cursor)' = NextBucket(disk.runs, disk.cursor)
      BY <2>1, <3>1 DEF NextBucket, DueBuckets
    <3> QED
      BY <1>1, <1>3, <1>4, <1>5, <1>7, <2>1, <3>1, <3>2 DEF Claimed
  <2>3. \A s \in Run : runs[s].st = "ended" => rs[s].st = "ended"
    BY <1>8, <1>9
  <2> QED
    BY <1>4, <1>5, <1>8, <1>9, <2>1, <2>2, <2>3 DEF KindOK, Stays, Busy
<1>14. "claim" \in Kinds /\ r \in Run \cup {None}
  BY <1>8 DEF Kinds
<1> QED
  BY <1>4, <1>11, <1>12, <1>13, <1>14, BeginStep

\* A claim whose write lands moves the cursor on, and no bucket is passed twice.
LEMMA TurnStep ==
  ASSUME NEW rs \in [Run -> Record], Due(rs) # {}, NEW m \in Bucket \cup {None},
         NEW c \in DueBuckets(rs), NEW x \in Bucket, Between(c, x, m)
  PROVE  /\ NextBucket(rs, m) # x
         /\ NextBucket(rs, m) # c => Between(c, x, NextBucket(rs, m))
<1>1. PICK n : n = NextBucket(rs, m)
  OBVIOUS
<1>2. PICK D : D = DueBuckets(rs)
  OBVIOUS
<1>3. /\ n \in D /\ D \subseteq Bucket
      /\ (\E d \in D : d > m) => n > m /\ \A d \in D : d > m => n <= d
      /\ ~(\E d \in D : d > m) => \A d \in D : n <= d
  BY <1>1, <1>2, NextIs
<1>4. Bucket \subseteq Nat /\ n \in Nat /\ c \in Nat /\ x \in Nat /\ m \in Nat /\ n # None
      /\ c \in D /\ m # None
  BY <1>2, <1>3, Constants DEF Between
<1>5. CASE n > m
  <2>1. c > m => n <= c
    BY <1>3, <1>4, <1>5
  <2> QED
    BY <1>1, <1>4, <1>5, <2>1 DEF Between
<1>6. CASE ~(n > m)
  <2>1. n <= c /\ ~(c > m)
    BY <1>3, <1>4, <1>6
  <2> QED
    BY <1>1, <1>4, <1>6, <2>1 DEF Between
<1> QED
  BY <1>5, <1>6

-----------------------------------------------------------------------------
(* A mutation ends.                                                        *)

LEMMA FollowsMem == ASSUME IInv PROVE Follows(disk.runs, mem.runs)
  BY DEF IInv, OpOK, Follows

LEMMA LandTurns == ASSUME IInv, Land PROVE TurnOK'
<1> DEFINE D == DueBuckets(mem.runs)
<1>1. /\ disk' = mem /\ passed \in [Bucket -> SUBSET Bucket]
      /\ passed' = [c \in Bucket |->
                     IF c \notin D THEN {}
                     ELSE IF op.kind # "claim" THEN passed[c]
                     ELSE IF c = mem.cursor THEN {} ELSE passed[c] \cup {mem.cursor}]
      /\ \A c \in Bucket : \A x \in passed[c] : Between(c, x, disk.cursor)
  BY DEF Land, IInv, TurnOK
<1>2. CASE op.kind # "claim"
  <2>1. mem.cursor = disk.cursor
    BY <1>2 DEF IInv, OpOK, KindOK
  <2> QED
    BY <1>1, <1>2, <2>1 DEF TurnOK
<1>3. CASE op.kind = "claim"
  <2>1. op # NoOp /\ Claimed /\ op.run \in Run
    BY <1>3 DEF IInv, OpOK, KindOK, NoOp
  <2>2. PICK rs \in [Run -> Record] : rs = disk.runs
    BY DEF IInv, Img, Image
  <2>3. disk.cursor \in Bucket \cup {None} /\ Due(rs) # {} /\ mem.cursor = NextBucket(rs, disk.cursor)
    BY <2>1, <2>2 DEF IInv, Img, Image, Claimed
  <2>4. mem.cursor \in Bucket
    BY <2>2, <2>3, NextIs
  <2>5. D \subseteq DueBuckets(rs)
    <3>1. \A s \in Run : s # op.run => mem.runs[s] = rs[s]
      BY <2>1, <2>2 DEF Claimed
    <3>2. mem.runs[op.run].st = "running"
      BY <2>1, <2>2 DEF Claimed, Record
    <3>3. Due(mem.runs) \subseteq Due(rs) /\ \A s \in Due(mem.runs) : mem.runs[s] = rs[s]
      BY <3>1, <3>2 DEF Due
    <3> QED
      BY <3>3 DEF DueBuckets
  <2>6. ASSUME NEW c \in Bucket, NEW x \in passed'[c] PROVE x \in Bucket /\ Between(c, x, mem.cursor)
    <3>1. c \in DueBuckets(rs) /\ c # mem.cursor /\ x \in passed[c] \cup {mem.cursor} /\ x \in Bucket
      BY <1>1, <1>3, <2>4, <2>5, <2>6
    <3>2. CASE x \in passed[c]
      BY <1>1, <2>2, <2>3, <3>1, <3>2, TurnStep
    <3>3. CASE x = mem.cursor
      BY <2>4, <3>1, <3>3, Constants DEF Between
    <3> QED
      BY <3>1, <3>2, <3>3
  <2>7. passed' \in [Bucket -> SUBSET Bucket]
    BY <1>1, <2>4
  <2> QED
    BY <1>1, <2>6, <2>7 DEF TurnOK
<1> QED
  BY <1>2, <1>3

LEMMA LandKeys ==
  ASSUME IInv, disk' = mem, replies' = replies
  PROVE  KeyOK'
<1> SUFFICES ASSUME NEW x \in replies
             PROVE  \E b \in Bucket, k \in Key, r \in Run :
                      /\ x = <<b, k, r>> /\ mem.runs[r].st # "none"
                      /\ mem.runs[r].bucket = b /\ mem.runs[r].key = k
  BY DEF KeyOK
<1>1. PICK b \in Bucket, k \in Key, r \in Run :
        /\ x = <<b, k, r>> /\ disk.runs[r].st # "none"
        /\ disk.runs[r].bucket = b /\ disk.runs[r].key = k
  BY DEF IInv, KeyOK
<1> QED
  BY <1>1, FollowsMem DEF Follows

LEMMA SettleStep == ASSUME IInv, Settle PROVE IInv'
<1> USE DEF Settle
<1>1. /\ op # NoOp /\ disk' = mem /\ mem' = mem /\ base' = {} /\ op' = NoOp /\ clock' = clock
      /\ op \in [kind : Kinds, run : Run \cup {None}] /\ KindOK
      /\ Follows(disk.runs, mem.runs) /\ mem \in Image /\ RecordsOK(mem.runs)
  BY DEF Land, IInv, OpOK, Img
<1>2. OpOK'
  BY <1>1 DEF OpOK
<1>3. Img(mem)' /\ Img(disk)'
  BY <1>1 DEF Img, RecordsOK
<1>4. TurnOK'
  BY LandTurns
<1>5. KeyOK'
  <2>1. CASE replies' = replies
    BY <1>1, <2>1, LandKeys
  <2>2. CASE replies' # replies
    <3>1. op.kind = "enqueue" /\ runs[op.run].key # NoKey
          /\ replies' = replies \cup {<<runs[op.run].bucket, runs[op.run].key, op.run>>}
      BY <2>2 DEF Continue
    <3>2. op.run \in Run /\ mem.runs[op.run].st # "none" /\ mem.runs[op.run] \in Record
      BY <1>1, <3>1 DEF KindOK, Image
    <3>3. mem.runs[op.run].key \in Key /\ mem.runs[op.run].bucket \in Bucket
      BY <3>1, <3>2 DEF Record, runs
    <3>4. \A x \in replies : \E b \in Bucket, k \in Key, r \in Run :
            /\ x = <<b, k, r>> /\ mem.runs[r].st # "none"
            /\ mem.runs[r].bucket = b /\ mem.runs[r].key = k
      <4> SUFFICES ASSUME NEW x \in replies
                   PROVE  \E b \in Bucket, k \in Key, r \in Run :
                            /\ x = <<b, k, r>> /\ mem.runs[r].st # "none"
                            /\ mem.runs[r].bucket = b /\ mem.runs[r].key = k
        OBVIOUS
      <4>1. PICK b \in Bucket, k \in Key, r \in Run :
              /\ x = <<b, k, r>> /\ disk.runs[r].st # "none"
              /\ disk.runs[r].bucket = b /\ disk.runs[r].key = k
        BY DEF IInv, KeyOK
      <4> QED
        BY <4>1, FollowsMem DEF Follows
    <3> QED
      BY <1>1, <3>1, <3>2, <3>3, <3>4 DEF KeyOK, runs
  <2> QED
    BY <2>1, <2>2
<1>6. WorkerOK'
  <2>1. /\ pc \in {"off", "pause", "poll", "exec", "full", "fail", "note", "unnoted", "release"}
        /\ top \in Run \cup {None} /\ sub \in Run \cup {None} /\ lost \in BOOLEAN
        /\ pc \notin {"off", "pause", "poll"} <=> top # None
        /\ sub # None => pc \in {"exec", "note", "unnoted"} /\ sub # top
        /\ top # None => disk.runs[top].st # "none" /\ mem.runs[top].st # "none"
        /\ None \notin Run
    BY <1>1, Constants DEF IInv, WorkerOK, Follows
  <2>2. lost' \in BOOLEAN
    BY <2>1 DEF Continue
  <2>3. CASE op.kind = "claim"
    <3>1. pc' = "exec" /\ top' = op.run /\ sub' = sub /\ op.run \in Run /\ pc = "poll"
          /\ mem.runs[op.run].st = "running"
      BY <1>1, <2>3 DEF Continue, KindOK, Claimed, IInv, Img, Image, Record
    <3> QED
      BY <1>1, <2>1, <2>2, <3>1 DEF WorkerOK, Busy
  <2>4. CASE op.kind = "spawn"
    <3>1. pc' = pc /\ top' = top /\ sub' = op.run /\ op.run \in Run /\ pc = "exec"
          /\ disk.runs[op.run].st = "none" /\ mem.runs[top].st = "running"
      BY <1>1, <2>4 DEF Continue, KindOK, Busy
    <3> QED
      BY <1>1, <2>1, <2>2, <3>1 DEF WorkerOK
  <2>5. CASE op.kind \in {"finish", "fail"}
    <3>1. pc' = "release" /\ top' = top /\ sub' = sub /\ sub = None
          /\ pc \in {"exec", "full", "fail", "unnoted"}
      BY <1>1, <2>1, <2>5 DEF Continue, KindOK
    <3> QED
      BY <1>1, <2>1, <2>2, <3>1 DEF WorkerOK, Busy
  <2>6. CASE op.kind = "release"
    <3>1. pc' = "poll" /\ top' = None /\ sub' = sub /\ pc = "release"
      BY <1>1, <2>6 DEF Continue, KindOK
    <3> QED
      BY <1>1, <2>1, <2>2, <3>1 DEF WorkerOK, Busy
  <2>7. CASE op.kind \in {"recover", "pause"}
    <3>1. pc' \in {"pause", "poll"} /\ top' = top /\ sub' = sub /\ pc \in {"off", "pause"}
      BY <1>1, <2>7 DEF Continue, KindOK
    <3> QED
      BY <1>1, <2>1, <2>2, <3>1 DEF WorkerOK, Busy
  <2>8. CASE op.kind \in {"enqueue", "cancel", "requeue", "yield", "again"}
    <3>1. pc' = pc /\ top' = top /\ sub' = sub /\ (Busy => mem.runs[top].st = "running")
      BY <1>1, <2>8 DEF Continue, KindOK
    <3> QED
      BY <1>1, <2>1, <2>2, <3>1 DEF WorkerOK, Busy
  <2>9. CASE op.kind = "leave"
    <3>1. pc' = "exec" /\ top' = top /\ sub' = None /\ pc \in {"exec", "unnoted"}
          /\ mem.runs[top].st = "running"
      BY <1>1, <2>9 DEF Continue, KindOK, Busy
    <3> QED
      BY <1>1, <2>1, <2>2, <3>1 DEF WorkerOK
  <2>10. CASE op.kind = "end"
    <3>1. pc' = "note" /\ top' = top /\ sub' = sub /\ pc = "exec"
          /\ (sub # None => mem.runs[top].st = "running")
      BY <1>1, <2>10 DEF Continue, KindOK, Busy
    <3> QED
      BY <1>1, <2>1, <2>2, <3>1 DEF WorkerOK, Busy
  <2> QED
    BY <1>1, <2>3, <2>4, <2>5, <2>6, <2>7, <2>8, <2>9, <2>10 DEF Kinds
<1> QED
  BY <1>1, <1>2, <1>3, <1>4, <1>5, <1>6 DEF IInv

LEMMA RollbackStep == ASSUME IInv, Rollback PROVE IInv'
<1> USE DEF Rollback
<1>1. /\ op # NoOp /\ base = {disk} /\ op \in [kind : Kinds, run : Run \cup {None}] /\ KindOK
      /\ UNCHANGED <<disk, clock, replies, passed>> /\ base' = {} /\ op' = NoOp
  BY DEF IInv, OpOK
<1>2. mem' = disk
  BY <1>1
<1>3. OpOK' /\ Img(mem)' /\ Img(disk)' /\ KeyOK' /\ TurnOK'
  BY <1>1, <1>2 DEF IInv, OpOK, Img, RecordsOK, KeyOK, TurnOK
<1>4. WorkerOK'
  <2>1. /\ pc \in {"off", "pause", "poll", "exec", "full", "fail", "note", "unnoted", "release"}
        /\ top \in Run \cup {None} /\ sub \in Run \cup {None} /\ lost \in BOOLEAN
        /\ pc \notin {"off", "pause", "poll"} <=> top # None
        /\ sub # None => pc \in {"exec", "note", "unnoted"} /\ sub # top
        /\ top # None => disk.runs[top].st # "none"
        /\ Busy => disk.runs[top].st = "running"
        /\ None \notin Run
    BY Constants DEF IInv, WorkerOK
  <2>2. lost' \in BOOLEAN /\ sub' \in {sub, None} /\ (op.kind = "finish" => sub = None)
    BY <1>1, <2>1 DEF Failed, KindOK
  <2>3. CASE op.kind \in {"finish", "fail"}
    <3>1. /\ pc' = IF op.kind = "finish" THEN "fail" ELSE "release"
          /\ top' = top /\ sub' = None /\ top # None
          /\ op.kind = "finish" => pc \in {"exec", "full"}
      BY <1>1, <2>1, <2>2, <2>3 DEF Failed, KindOK
    <3> QED
      BY <1>1, <2>1, <2>2, <3>1 DEF WorkerOK, Busy
  <2>4. CASE op.kind = "end"
    <3>1. /\ pc' = IF sub = None THEN "fail" ELSE "unnoted"
          /\ top' = top /\ sub' = sub /\ pc = "exec"
      BY <1>1, <2>4 DEF Failed, KindOK
    <3> QED
      BY <1>1, <2>1, <2>2, <3>1 DEF WorkerOK, Busy
  <2>5. CASE op.kind = "leave"
    <3>1. pc' = "exec" /\ top' = top /\ sub' = None /\ pc \in {"exec", "unnoted"} /\ sub # None
      BY <1>1, <2>5 DEF Failed, KindOK
    <3> QED
      BY <1>1, <2>1, <2>2, <3>1 DEF WorkerOK, Busy
  <2>6. CASE op.kind = "release"
    <3>1. pc' = "poll" /\ top' = None /\ sub' = sub /\ pc = "release"
      BY <1>1, <2>6 DEF Failed, KindOK
    <3> QED
      BY <1>1, <2>1, <2>2, <3>1 DEF WorkerOK, Busy
  <2>7. CASE op.kind = "pause"
    <3>1. pc' = "off" /\ top' = top /\ sub' = sub /\ pc = "pause"
      BY <1>1, <2>7 DEF Failed, KindOK
    <3> QED
      BY <1>1, <2>1, <2>2, <3>1 DEF WorkerOK, Busy
  <2>8. CASE op.kind \notin {"finish", "end", "fail", "leave", "release", "pause"}
    <3>1. /\ pc' = pc /\ top' = top /\ sub' \in {sub, None}
          /\ sub' # sub => pc = "exec"
      BY <1>1, <2>8 DEF Failed, KindOK
    <3> QED
      BY <1>1, <2>1, <2>2, <3>1 DEF WorkerOK, Busy
  <2> QED
    BY <2>3, <2>4, <2>5, <2>6, <2>7, <2>8
<1> QED
  BY <1>1, <1>3, <1>4 DEF IInv

LEMMA CrashStep == ASSUME IInv, Crash PROVE IInv'
<1> USE DEF Crash
<1>1. base' = {} /\ op' = NoOp /\ pc' = "off" /\ top' = None /\ sub' = None /\ lost' = FALSE
      /\ clock' = clock /\ replies' = replies
  OBVIOUS
<1>2. WorkerOK'
  BY <1>1 DEF WorkerOK, Busy
<1>3. CASE Land /\ mem' = mem
  <2>1. disk' = mem /\ TurnOK' /\ KeyOK'
    BY <1>1, <1>3, LandTurns, LandKeys DEF Land
  <2> QED
    BY <1>1, <1>2, <1>3, <2>1 DEF IInv, OpOK, Img, RecordsOK
<1>4. CASE mem' = disk /\ UNCHANGED <<disk, passed>>
  BY <1>1, <1>2, <1>4 DEF IInv, OpOK, Img, RecordsOK, KeyOK, TurnOK
<1> QED
  BY <1>3, <1>4

LEMMA EnqueueAgainStep ==
  ASSUME NEW b \in Bucket, NEW k \in Key, IInv, EnqueueAgain(b, k)
  PROVE  IInv'
<1>1. PICK r \in Run : /\ runs[r].st # "none" /\ runs[r].bucket = b /\ runs[r].key = k
                       /\ replies' = replies \cup {<<b, k, r>>}
  BY DEF EnqueueAgain, Duplicate
<1>2. op = NoOp /\ UNCHANGED <<mem, disk, base, op, pc, top, sub, lost, clock, passed>>
  BY DEF EnqueueAgain, image, worker
<1>3. disk.runs = runs
  BY <1>2, Idle DEF runs
<1>4. KeyOK'
  BY <1>1, <1>2, <1>3 DEF IInv, KeyOK
<1>5. OpOK'
  BY <1>2, Idle DEF OpOK
<1> QED
  BY <1>2, <1>4, <1>5 DEF IInv, Img, RecordsOK, WorkerOK, TurnOK, Busy

LEMMA TickStep == ASSUME IInv, Tick PROVE IInv'
<1>1. op = NoOp /\ UNCHANGED <<mem, disk, base, op, pc, top, sub, lost, replies, passed>>
      /\ clock' = clock + 1 /\ clock < MaxTime
  BY DEF Tick, image, worker
<1>2. OpOK'
  BY <1>1, Idle DEF OpOK
<1>3. clock' \in 0 .. MaxTime
  BY <1>1, Constants DEF IInv
<1> QED
  BY <1>1, <1>2, <1>3 DEF IInv, Img, RecordsOK, KeyOK, WorkerOK, TurnOK, Busy

LEMMA Stuttering == ASSUME IInv, UNCHANGED vars PROVE IInv'
<1> USE DEF vars, image, worker
<1>1. OpOK'
  <2>1. CASE op = NoOp
    BY <2>1, Idle DEF OpOK
  <2>2. CASE op # NoOp
    <3>1. Refused(disk.runs, mem.runs)' <=> Refused(disk.runs, mem.runs)
      BY DEF Refused, Admitted, AdmittedIn
    <3>2. KindOK => KindOK'
      BY DEF KindOK, Claimed, NextBucket, DueBuckets, Due, Busy, Stays, Current
    <3>3. Follows(disk.runs, mem.runs) => Follows(disk.runs, mem.runs)'
      BY DEF Follows
    <3> QED
      BY <2>2, <3>1, <3>2, <3>3 DEF IInv, OpOK
  <2> QED
    BY <2>1, <2>2
<1> QED
  BY <1>1 DEF IInv, Img, RecordsOK, KeyOK, WorkerOK, TurnOK, Busy

LEMMA Initially == Init => IInv
<1> SUFFICES ASSUME Init PROVE IInv
  OBVIOUS
<1>1. PICK older : disk = [runs |-> [r \in Run |-> IF r \in older THEN NewRun(Local, NoKey) ELSE NoRun],
                           cursor |-> None]
  BY DEF Init
<1>2. clock \in 0 .. MaxTime
  BY Constants DEF Init
<1>3. /\ NewRun(Local, NoKey) \in Record /\ NewRun(Local, NoKey).key = NoKey
      /\ NewRun(Local, NoKey).st = "queued" /\ ~NewRun(Local, NoKey).lease
  BY <1>2, NoRunIs, Constants DEF NewRun, Record, Status
<1>4. /\ disk.runs \in [Run -> Record] /\ disk.cursor = None /\ disk \in Image
      /\ \A r \in Run : ~disk.runs[r].lease /\ disk.runs[r].key = NoKey
  BY <1>1, <1>3, NoRunIs DEF Image
<1>5. Img(disk)
  BY <1>4 DEF Img, RecordsOK
<1>6. Img(mem)
  BY <1>4 DEF Img, RecordsOK, Init
<1>7. OpOK /\ WorkerOK /\ KeyOK /\ TurnOK
  BY <1>4 DEF Init, OpOK, WorkerOK, KeyOK, TurnOK, Busy
<1> QED
  BY <1>2, <1>5, <1>6, <1>7 DEF IInv

LEMMA Steps == ASSUME IInv, [Next]_vars PROVE IInv'
<1>1. CASE Client
  BY <1>1, EnqueueStep, EnqueueAgainStep, CancelStep, RequeueStep DEF Client
<1>2. CASE Work
  BY <1>2, ClaimStep, FinishStep, SubFinishStep, SubAgainStep, SmallSteps, NoteSteps, MisreportStep,
     FailStep, ReleaseStep, RecoverStep, PauseLegacyStep DEF Work
<1>3. CASE NoteFails \/ LoseHeartbeat
  BY <1>3, NoteSteps, SmallSteps
<1>4. CASE (\E r \in Run : Spawn(r)) \/ Settle \/ Rollback \/ Tick \/ Crash
  BY <1>4, SpawnStep, SettleStep, RollbackStep, TickStep, CrashStep
<1> QED
  BY <1>1, <1>2, <1>3, <1>4, Stuttering DEF Next

-----------------------------------------------------------------------------
(* The theorems.                                                           *)

\* The strengthened invariant holds of every state of every run.
THEOREM Invariance == Spec => []IInv
<1>1. Init => IInv
  BY Initially
<1>2. IInv /\ [Next]_vars => IInv'
  BY Steps
<1> QED
  BY <1>1, <1>2, PTL DEF Spec

\* Records, the worker's phase and what it holds keep their types.
THEOREM TypeCorrect == Spec => []TypeOK
<1>1. IInv => TypeOK
  <2> SUFFICES ASSUME IInv PROVE TypeOK
    OBVIOUS
  <2>1. \A i \in base : i \in Image
    BY DEF IInv, OpOK, Img
  <2> QED
    BY <2>1 DEF IInv, Img, Image, WorkerOK, TurnOK, TypeOK
<1> QED
  BY <1>1, Invariance, PTL

\* Readers see the file, and a failed write is undone as a whole.
THEOREM MemoryOnDisk == Spec => []MemoryIsOnDisk
<1>1. IInv => MemoryIsOnDisk
  <2> SUFFICES ASSUME IInv PROVE MemoryIsOnDisk
    OBVIOUS
  <2>1. CASE op = NoOp
    BY <2>1, Idle DEF MemoryIsOnDisk, Visible, runs
  <2>2. CASE op # NoOp
    BY <2>2 DEF IInv, OpOK, MemoryIsOnDisk, Visible
  <2> QED
    BY <2>1, <2>2
<1> QED
  BY <1>1, Invariance, PTL

\* One key of an environment names one run for ever.
THEOREM KeysAreKept == Spec => []OneRunPerKey
<1>1. IInv => OneRunPerKey
  <2> SUFFICES ASSUME IInv PROVE OneRunPerKey
    OBVIOUS
  <2>1. RecordsOK(disk.runs)
    BY DEF IInv, Img
  <2>2. ASSUME NEW x \in replies, NEW y \in replies, x[1] = y[1], x[2] = y[2] PROVE x = y
    <3>1. PICK b \in Bucket, k \in Key, r \in Run :
            x = <<b, k, r>> /\ disk.runs[r].bucket = b /\ disk.runs[r].key = k
      BY DEF IInv, KeyOK
    <3>2. PICK c \in Bucket, l \in Key, s \in Run :
            y = <<c, l, s>> /\ disk.runs[s].bucket = c /\ disk.runs[s].key = l
      BY DEF IInv, KeyOK
    <3>3. b = c /\ k = l /\ k # NoKey
      BY <2>2, <3>1, <3>2, Constants
    <3>4. r = s
      BY <2>1, <3>1, <3>2, <3>3 DEF RecordsOK
    <3> QED
      BY <3>1, <3>2, <3>3, <3>4
  <2>3. \A x \in replies : disk.runs[x[3]].st # "none"
    BY DEF IInv, KeyOK
  <2>4. \A r, s \in Run : \/ r = s
                          \/ disk.runs[r].key = NoKey
                          \/ <<disk.runs[r].bucket, disk.runs[r].key>>
                                 # <<disk.runs[s].bucket, disk.runs[s].key>>
    BY <2>1 DEF RecordsOK
  <2> QED
    BY <2>2, <2>3, <2>4 DEF OneRunPerKey
<1> QED
  BY <1>1, Invariance, PTL

\* The file changes only to what the mutation under way has left in memory.
LEMMA FileSteps ==
  ASSUME IInv, [Next]_vars
  PROVE  disk' = disk \/ (op # NoOp /\ disk' = mem)
<1>1. CASE Settle \/ Crash
  <2>1. disk' = disk \/ disk' = mem
    BY <1>1 DEF Settle, Crash, Land
  <2> QED
    BY <2>1, Idle
<1>2. CASE Client
  BY <1>2 DEF Client, Enqueue, EnqueueAgain, Cancel, Requeue, Put, Begin, image
<1>3. CASE Work
  <2>1. CASE Claim \/ Finish \/ SubFinish \/ SubAgain \/ Misreport \/ Fail
    BY <2>1 DEF Claim, Finish, SubFinish, SubAgain, Misreport, Fail, Put, Begin
  <2>2. CASE SubGone \/ SpawnRefused \/ Noted \/ Abort
    BY <2>2 DEF SubGone, SpawnRefused, Noted, Abort, image
  <2>3. CASE Release
    BY <2>3 DEF Release, Put, Begin, image
  <2>4. CASE Recover
    BY <2>4 DEF Recover, Begin, image
  <2>5. CASE PauseLegacy
    BY <2>5 DEF PauseLegacy, Begin, image
  <2> QED
    BY <1>3, <2>1, <2>2, <2>3, <2>4, <2>5 DEF Work
<1>4. CASE (\E r \in Run : Spawn(r)) \/ Rollback \/ NoteFails \/ LoseHeartbeat \/ Tick
  BY <1>4 DEF Spawn, Rollback, NoteFails, LoseHeartbeat, Tick, Put, Begin, image
<1>5. CASE UNCHANGED vars
  BY <1>5 DEF vars, image
<1> QED
  BY <1>1, <1>2, <1>3, <1>4, <1>5 DEF Next

\* A run that was completed or cancelled stays so, but for a completed one whose
\* own execution could not be noted and saves it as failed.
THEOREM EndIsFinal == Spec => EndedIsFinal
<1>1. ASSUME IInv, [Next]_vars, NEW r \in Run, disk.runs[r].st = "ended"
      PROVE  \/ disk'.runs[r].st = "ended"
             \/ pc = "unnoted" /\ r = Current /\ disk'.runs[r].st = "paused"
  <2>1. CASE disk' = disk
    BY <1>1, <2>1
  <2>2. CASE op # NoOp /\ disk' = mem
    BY <1>1, <2>2 DEF IInv, OpOK, KindOK, Stays
  <2> QED
    BY <1>1, <2>1, <2>2, FileSteps
<1>2. IInv /\ [Next]_vars =>
        [\A r \in Run :
           disk.runs[r].st = "ended" =>
             \/ disk'.runs[r].st = "ended"
             \/ pc = "unnoted" /\ r = Current /\ disk'.runs[r].st = "paused"]_vars
  BY <1>1
<1> QED
  BY <1>2, Invariance, PTL DEF Spec, EndedIsFinal

\* The larger of two numbers.
LEMMA MaxOfTwo == ASSUME NEW m \in Nat, NEW n \in Nat PROVE Max({m, n}) = IF m >= n THEN m ELSE n
<1>1. \E x \in {m, n} : \A y \in {m, n} : x >= y
  OBVIOUS
<1>2. Max({m, n}) \in {m, n} /\ \A y \in {m, n} : Max({m, n}) >= y
  BY <1>1 DEF Max
<1> QED
  BY <1>2

\* No write takes the admitted runs past the limit; an excess may only drain.
THEOREM GrowthIsBounded == Spec => NeverGrowsPast
<1> DEFINE Within(was, is, limit) ==
             Cardinality(is) <= limit \/ Cardinality(is) <= Cardinality(was)
           Bounded == /\ Within(Admitted(disk.runs), Admitted(disk'.runs), Global)
                      /\ \A b \in Bucket :
                           Within(AdmittedIn(disk.runs, b), AdmittedIn(disk'.runs, b), PerBucket)
<1>0. \A limit, m, n \in Nat : ~(m > Max({limit, n})) => m <= limit \/ m <= n
  <2>1. ASSUME NEW limit \in Nat, NEW m \in Nat, NEW n \in Nat, ~(m > Max({limit, n}))
        PROVE  m <= limit \/ m <= n
    <3>1. Max({limit, n}) = limit \/ Max({limit, n}) = n
      BY MaxOfTwo
    <3> QED
      BY <2>1, <3>1
  <2> QED
    BY <2>1
<1>1. \A rs : Cardinality(Admitted(rs)) \in Nat
              /\ \A b \in Bucket : Cardinality(AdmittedIn(rs, b)) \in Nat
  <2>1. \A T \in SUBSET Run : Cardinality(T) \in Nat
    BY QueueAssumption, FS_Subset, FS_CardinalityType
  <2> QED
    BY <2>1 DEF Admitted, AdmittedIn
<1>2. ASSUME IInv, disk' = mem, op # NoOp PROVE Bounded
  <2>1. ~Refused(disk.runs, mem.runs)
    BY <1>2 DEF IInv, OpOK
  <2>3. Cardinality(Admitted(mem.runs)) <= Global
        \/ Cardinality(Admitted(mem.runs)) <= Cardinality(Admitted(disk.runs))
    BY <1>0, <1>1, <2>1, Constants DEF Refused
  <2>4. ASSUME NEW b \in Bucket
        PROVE  Cardinality(AdmittedIn(mem.runs, b)) <= PerBucket
               \/ Cardinality(AdmittedIn(mem.runs, b)) <= Cardinality(AdmittedIn(disk.runs, b))
    BY <1>0, <1>1, <2>1, Constants DEF Refused
  <2> QED
    BY <1>2, <2>3, <2>4
<1>3. ASSUME disk' = disk PROVE Bounded
  BY <1>1, <1>3
<1>4. IInv /\ [Next]_vars => [Bounded]_vars
  BY <1>2, <1>3, FileSteps
<1> QED
  BY <1>4, Invariance, PTL DEF Spec, NeverGrowsPast

\* While a bucket has work that is due, no other is served twice before it.
THEOREM TurnsAreTaken == Spec => ServedInTurn
<1>1. ASSUME IInv, [Next]_vars, NEW r \in Run, disk.runs[r].st = "queued",
             disk'.runs[r].st = "running", disk'.runs[r].lease,
             NEW b \in DueBuckets(disk.runs)
      PROVE  disk.runs[r].bucket \notin passed[b]
  <2>1. op # NoOp /\ disk' = mem
    BY <1>1, FileSteps
  <2>2. KindOK
    BY <1>1, <2>1 DEF IInv, OpOK
  <2>3. op.kind = "claim" /\ Claimed
    BY <1>1, <2>1, <2>2 DEF KindOK
  <2>4. r = op.run
    <3>1. disk.runs[r] \in Record /\ r # op.run => mem.runs[r] = disk.runs[r]
      BY <1>1, <2>3 DEF Claimed, IInv, Img, Image
    <3> QED
      BY <1>1, <2>1, <3>1 DEF IInv, Img, Image
  <2>5. PICK rs \in [Run -> Record] : rs = disk.runs
    BY <1>1 DEF IInv, Img, Image
  <2>6. disk.runs[r].bucket = NextBucket(rs, disk.cursor) /\ Due(rs) # {}
        /\ disk.cursor \in Bucket \cup {None}
    BY <1>1, <2>3, <2>4, <2>5 DEF Claimed, IInv, Img, Image
  <2>7. b \in Bucket
    BY <1>1, <2>5 DEF DueBuckets, Due, Record
  <2>8. SUFFICES ASSUME disk.runs[r].bucket \in passed[b] PROVE FALSE
    OBVIOUS
  <2>9. disk.runs[r].bucket \in Bucket /\ Between(b, disk.runs[r].bucket, disk.cursor)
    BY <1>1, <2>7, <2>8 DEF IInv, TurnOK
  <2> QED
    BY <1>1, <2>5, <2>6, <2>9, TurnStep
<1>2. IInv /\ [Next]_vars =>
        [\A r \in Run :
           /\ disk.runs[r].st = "queued" /\ disk'.runs[r].st = "running"
           /\ disk'.runs[r].lease
           => \A b \in DueBuckets(disk.runs) : disk.runs[r].bucket \notin passed[b]]_vars
  BY <1>1
<1> QED
  BY <1>2, Invariance, PTL DEF Spec, ServedInTurn
=============================================================================
