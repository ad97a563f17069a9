------------------------- MODULE EmployeeRuns_proofs -------------------------
(***************************************************************************)
(* What EmployeeRuns promises for any number of runs, sessions, faults and *)
(* restarts: one prompt for each run, exact locks, and no turn or answer   *)
(* of another run in a session nobody unlocked by force.                   *)
(*                                                                         *)
(* The invariant is a conjunction of a part about each run by itself       *)
(* (RunInv), of the locks (LockInv), and of the turns the Runtime holds or *)
(* has ended (TurnInv, EndInv).  Every action is shown to change one run   *)
(* or one session and to leave the others alone.                           *)
(***************************************************************************)
EXTENDS EmployeeRuns, FiniteSetTheorems, SequenceTheorems, TLAPS

Record == [status : Status, session : Session \cup {"none"}, born : Nat,
           cursor : Nat, asked : BOOLEAN, forced : BOOLEAN, end : Run \cup {"none"}]
Busy(r) == Is(r, {"running", "cancelling", "interrupted"})

\* A dispatch goes on only before there is an observer; a prompt that was
\* submitted is behind it; who was asked to stop is not running.
RunOK(r) ==
  /\ job[r] # "none" => obs[r].at = "off" /\ ~Is(r, {"none"})
  /\ job[r] \in {"cursor", "claim"} => Is(r, {"queued", "cancelled"})
  /\ lane[r] = "call" => ~Is(r, {"none"})
  /\ rec[r].forced => rec[r].asked
  /\ rec[r].asked => ~Is(r, {"none", "queued", "running"})
  /\ prompts[r] # 0 => /\ prompts[r] = 1 /\ ~Is(r, {"none", "queued"})
                       /\ job[r] \in {"none", "observe"}
RunInv == \A r \in Run : RunOK(r)

\* A lock names a run of its session, and a dispatch that may still submit
\* holds it, also while failures cannot be recorded.
Holds(r) == lock[SessionOf(r)] = r
MaySubmit(r) == job[r] \in {"cursor", "claim", "submit"} /\ Is(r, {"queued", "running"})
LockInv ==
  /\ \A s \in Session : lock[s] # "none" => SessionOf(lock[s]) = s
  /\ \A r \in Run : MaySubmit(r) => Holds(r)

\* The locks are exact: Owes(r) is what LocksAreExact says of r.
Owes(r) == \/ Busy(r) /\ ~rec[r].forced
           \/ job[r] \in {"cursor", "claim"} /\ Is(r, {"queued"})
ExactOK(r) == IF Owes(r) THEN Holds(r) ELSE \A s \in Session : lock[s] # r

\* In a session that nobody unlocked by force the only turn is that of the run
\* that holds it, and it ends behind all the history that run has seen.
HeadOK(q, s) == /\ SessionOf(q) = s /\ Busy(q) /\ prompts[q] = 1
                /\ Len(ended[s]) <= rec[q].cursor
                /\ obs[q].at # "off" => Len(ended[s]) <= obs[q].after
TurnOK(s) == Len(queue[s]) <= 1 /\ (queue[s] # <<>> => HeadOK(Head(queue[s]), s))
TurnInv == lost = {} => \A s \in Session : Unforced(s) => TurnOK(s)

\* Every end behind the cursor of a busy run is its own.
OwnFrom(r, c) == \A i \in 1..Len(Seen(r)) : i > c => Seen(r)[i].run = r
EndOK(r) ==
  /\ rec[r].end \in {"none", r}
  /\ job[r] = "claim" /\ Is(r, {"queued"}) => Len(Seen(r)) <= from[r]
  /\ job[r] = "submit" /\ Busy(r) => Len(Seen(r)) <= rec[r].cursor
  /\ Busy(r) => OwnFrom(r, rec[r].cursor)
  /\ Busy(r) /\ obs[r].at # "off" => OwnFrom(r, obs[r].after)
EndInv ==
  lost = {} => \A r \in Run : SessionOf(r) \in Session /\ Unforced(SessionOf(r)) => EndOK(r)

Safe == TypeOK /\ RunInv /\ LockInv /\ LocksAreExact
IInv == Safe /\ TurnInv /\ EndInv

LEMMA Bounds == MaxRestarts \in Nat /\ MaxFaults \in Nat
  BY BoundsAssumption

LEMMA Nobody == "none" \notin Run /\ "none" \notin Session
  BY NoneAssumption

LEMMA TypeIs == TypeOK => rec \in [Run -> Record]
  BY DEF TypeOK, Record

LEMMA Initially == Init => IInv
<1> SUFFICES ASSUME Init PROVE IInv
  OBVIOUS
<1> USE Bounds, Nobody DEF Init
<1>1. TypeOK
  <2>1. NoRec \in Record
    BY DEF NoRec, Record, Status, Terminal, Results
  <2>2. rec \in [Run -> Record] /\ \A r \in Run : rec[r] = NoRec
    BY <2>1
  <2>3. queue \in [Session -> Seq(Run)] /\ ended \in [Session -> Seq([run : Run, how : Results])]
    OBVIOUS
  <2> QED
    BY <2>2, <2>3 DEF TypeOK, Record, NoRec, Off, Is, Seen, SessionOf
<1>2. RunInv
  BY DEF RunInv, RunOK, Is, NoRec, Off
<1>3. LockInv /\ LocksAreExact
  BY DEF LockInv, MaySubmit, LocksAreExact, Is, NoRec, SessionOf
<1>4. TurnInv /\ EndInv
  BY DEF TurnInv, TurnOK, EndInv, NoRec, SessionOf
<1> QED
  BY <1>1, <1>2, <1>3, <1>4 DEF IInv, Safe

-----------------------------------------------------------------------------
(* What a step of one run leaves alone.                                    *)

\* Everything of the other runs stays as it is.
Spares(r) ==
  \A q \in Run \ {r} : /\ rec'[q] = rec[q]   /\ job'[q] = job[q]
                       /\ from'[q] = from[q] /\ lane'[q] = lane[q]
                       /\ obs'[q] = obs[q]   /\ prompts'[q] = prompts[q]

\* A session and a forced unlock are for ever.
Keeps(r) == rec'[r].session = rec[r].session /\ (rec[r].forced => rec'[r].forced)

\* A record may be changed in any of its fields.
LEMMA RecordSet ==
  ASSUME NEW d \in Record, NEW st \in Status, NEW c \in Nat, NEW a \in BOOLEAN,
         NEW f \in BOOLEAN, NEW e \in Run \cup {"none"}
  PROVE  [d EXCEPT !.status = st, !.cursor = c, !.asked = a, !.forced = f, !.end = e]
           \in Record
  BY DEF Record

LEMMA RunsElsewhere ==
  ASSUME NEW r \in Run, RunInv, Spares(r), RunOK(r)'
  PROVE  RunInv'
<1> SUFFICES ASSUME NEW q \in Run, q # r PROVE RunOK(q)'
  BY DEF RunInv
<1> QED
  BY DEF RunInv, RunOK, Spares, Is

\* A step of r that takes or gives back at most r's own lock.
LEMMA LocksElsewhere ==
  ASSUME NEW r \in Run, TypeOK, LockInv, Spares(r), Keeps(r),
         \A s \in Session : lock'[s] = lock[s] \/ (lock[s] = r /\ lock'[s] = "none"),
         MaySubmit(r)' => Holds(r)'
  PROVE  LockInv'
<1>1. ASSUME NEW s \in Session, lock'[s] # "none"
      PROVE  rec'[lock'[s]].session = s
  <2>1. lock'[s] = lock[s] /\ lock[s] \in Run /\ rec[lock[s]].session = s
    BY <1>1 DEF TypeOK, LockInv, SessionOf
  <2>2. CASE lock[s] = r
    BY <2>1, <2>2 DEF Keeps, SessionOf
  <2>3. CASE lock[s] # r
    BY <2>1, <2>3 DEF Spares
  <2> QED
    BY <2>1, <2>2, <2>3
<1>2. ASSUME NEW q \in Run, q # r, MaySubmit(q)'
      PROVE  Holds(q)'
  <2>1. MaySubmit(q) /\ SessionOf(q)' = SessionOf(q)
    BY <1>2 DEF Spares, MaySubmit, Is, SessionOf
  <2>2. SessionOf(q) \in Session /\ lock[SessionOf(q)] = q
    BY <2>1 DEF TypeOK, LockInv, MaySubmit, Holds, Is, SessionOf
  <2> QED
    BY <1>2, <2>1, <2>2 DEF Holds
<1> QED
  BY <1>1, <1>2 DEF LockInv, SessionOf

LEMMA ExactElsewhere ==
  ASSUME NEW r \in Run, TypeOK, LocksAreExact, Spares(r), lost' = {} => lost = {},
         \A s \in Session : lock'[s] = lock[s] \/ (lock[s] = r /\ lock'[s] = "none"),
         lost' = {} => ExactOK(r)'
  PROVE  LocksAreExact'
<1> SUFFICES ASSUME lost' = {}, NEW q \in Run, q # r PROVE ExactOK(q)'
  BY DEF LocksAreExact, ExactOK, Owes, Busy, Holds, Is, SessionOf
<1>1. ExactOK(q)
  BY DEF LocksAreExact, ExactOK, Owes, Busy, Holds, Is, SessionOf
<1>2. Owes(q)' <=> Owes(q)
  BY DEF Spares, Owes, Busy, Is
<1>3. CASE Owes(q)
  <2>1. SessionOf(q) \in Session
    BY <1>3 DEF TypeOK, Owes, Busy, Is, SessionOf
  <2> QED
    BY <1>1, <1>2, <1>3, <2>1 DEF ExactOK, Holds, Spares, SessionOf
<1>4. CASE ~Owes(q)
  BY <1>1, <1>2, <1>4, Nobody DEF ExactOK
<1> QED
  BY <1>3, <1>4

\* A session that is not unlocked by force now was not before.
LEMMA UnforcedBefore ==
  ASSUME NEW r \in Run, Spares(r), Keeps(r), NEW s \in Session, Unforced(s)'
  PROVE  Unforced(s)
  BY DEF Spares, Keeps, Unforced, SessionOf

LEMMA TurnsElsewhere ==
  ASSUME NEW r \in Run, TypeOK, TurnInv, EndInv, Spares(r), Keeps(r), lost' = {} => lost = {},
         ended' = ended,
         \A s \in Session : queue'[s] = queue[s] \/ (lost' = {} /\ Unforced(s)' => TurnOK(s)'),
         ASSUME NEW s \in Session, lost' = {}, ~rec'[r].forced, HeadOK(r, s)
         PROVE  HeadOK(r, s)',
         ASSUME lost' = {}, ~rec'[r].forced, EndOK(r) PROVE EndOK(r)'
  PROVE  TurnInv' /\ EndInv'
<1>1. TurnInv'
  <2> SUFFICES ASSUME lost' = {}, NEW s \in Session, Unforced(s)', queue'[s] = queue[s]
               PROVE  TurnOK(s)'
    BY DEF TurnInv
  <2>1. TurnOK(s)
    BY UnforcedBefore DEF TurnInv
  <2>2. CASE queue[s] # <<>>
    <3>1. Head(queue[s]) \in Run
      BY <2>2, HeadTailProperties DEF TypeOK
    <3>2. HeadOK(Head(queue[s]), s)'
      <4>1. CASE Head(queue[s]) = r
        <5>1. HeadOK(r, s) /\ SessionOf(r) = s
          BY <2>1, <2>2, <4>1 DEF TurnOK, HeadOK
        <5>2. ~rec'[r].forced
          BY <5>1 DEF Unforced, Keeps, SessionOf
        <5> QED
          BY <4>1, <5>1, <5>2
      <4>2. CASE Head(queue[s]) # r
        BY <2>1, <2>2, <3>1, <4>2 DEF TurnOK, HeadOK, Spares, SessionOf, Busy, Is
      <4> QED
        BY <4>1, <4>2
    <3> QED
      BY <2>1, <3>2 DEF TurnOK
  <2>3. CASE queue[s] = <<>>
    BY <2>1, <2>3 DEF TurnOK
  <2> QED
    BY <2>2, <2>3
<1>2. EndInv'
  <2> SUFFICES ASSUME lost' = {}, NEW q \in Run, SessionOf(q)' \in Session,
                      Unforced(SessionOf(q))'
               PROVE  EndOK(q)'
    BY DEF EndInv
  <2>1. SessionOf(q)' = SessionOf(q)
    BY DEF Spares, Keeps, SessionOf
  <2>2. EndOK(q) /\ ~rec'[q].forced
    <3>1. PICK s \in Session : s = SessionOf(q)
      BY <2>1
    <3>2. Unforced(s)'
      BY <2>1, <3>1 DEF Unforced
    <3>3. EndOK(q)
      BY <3>1, <3>2, UnforcedBefore DEF EndInv
    <3> QED
      BY <2>1, <3>1, <3>2, <3>3 DEF Unforced
  <2>3. CASE q # r
    BY <2>1, <2>2, <2>3 DEF EndOK, OwnFrom, Seen, Spares, SessionOf, Busy, Is
  <2>4. CASE q = r
    BY <2>2, <2>4
  <2> QED
    BY <2>3, <2>4
<1> QED
  BY <1>1, <1>2

-----------------------------------------------------------------------------
\* What TypeOK says of the fields of one run together.
Fits(r) ==
  /\ Is(r, {"none"}) <=> rec[r].session = "none"
  /\ ~Is(r, {"none"}) => rec[r].session \in Session
  /\ job[r] \in {"submit", "observe"} \/ obs[r].at # "off" => ~Is(r, {"none", "queued"})
  /\ rec[r].end # "none" => Is(r, Results)
  /\ obs[r].at = "apply" => Len(Seen(r)) > obs[r].after

\* The types of what a step of one run changes.
Shapes ==
  /\ rec \in [Run -> Record]
  /\ lock \in [Session -> Run \cup {"none"}]
  /\ job \in [Run -> {"none", "cursor", "claim", "submit", "observe"}]
  /\ from \in [Run -> Nat]
  /\ lane \in [Run -> {"free", "call"}]
  /\ obs \in [Run -> [at : {"off", "poll", "apply"}, after : Nat]]
  /\ stopping \in [Session -> Run \cup {"none"}]
  /\ prompts \in [Run -> Nat]
  /\ lost \subseteq Run
  /\ restarts \in 0..MaxRestarts
  /\ faults \in 0..MaxFaults

LEMMA TypeSplit ==
  TypeOK <=> /\ Shapes /\ queue \in [Session -> Seq(Run)]
             /\ ended \in [Session -> Seq([run : Run, how : Results])]
             /\ \A r \in Run : Fits(r)
  BY DEF TypeOK, Shapes, Fits, Record

LEMMA ExactSplit == LocksAreExact <=> (lost = {} => \A r \in Run : ExactOK(r))
  BY DEF LocksAreExact, ExactOK, Owes, Busy, Holds, Is, SessionOf

\* A step of r that ends no turn.
LEMMA OneRun ==
  ASSUME NEW r \in Run, IInv, Shapes', Spares(r), Keeps(r), lost \subseteq lost',
         ended' = ended, queue' \in [Session -> Seq(Run)],
         \A s \in Session : queue'[s] = queue[s] \/ (lost' = {} /\ Unforced(s)' => TurnOK(s)'),
         \A s \in Session : lock'[s] = lock[s] \/ (lock[s] = r /\ lock'[s] = "none"),
         Fits(r)', RunOK(r)', MaySubmit(r)' => Holds(r)',
         lost' = {} => ExactOK(r)',
         ASSUME NEW s \in Session, lost' = {}, ~rec'[r].forced, HeadOK(r, s)
         PROVE  HeadOK(r, s)',
         ASSUME lost' = {}, ~rec'[r].forced, EndOK(r) PROVE EndOK(r)'
  PROVE  IInv'
<1>1. TypeOK'
  <2>1. ASSUME NEW q \in Run, q # r PROVE Fits(q)'
    <3>1. Fits(q)
      BY TypeSplit DEF IInv, Safe
    <3> QED
      BY <2>1, <3>1 DEF Fits, Spares, Is, Seen, SessionOf
  <2>2. ended' \in [Session -> Seq([run : Run, how : Results])]
    BY DEF IInv, Safe, TypeOK
  <2> QED
    BY <2>1, <2>2 DEF TypeOK, Shapes, Fits, Record
<1>2. RunInv'
  BY RunsElsewhere DEF IInv, Safe
<1>3. LockInv'
  BY LocksElsewhere DEF IInv, Safe
<1>4. LocksAreExact'
  BY ExactElsewhere DEF IInv, Safe
<1>5. TurnInv' /\ EndInv'
  BY TurnsElsewhere DEF IInv, Safe
<1> QED
  BY <1>1, <1>2, <1>3, <1>4, <1>5 DEF IInv, Safe

\* What the invariant says of one run.
LEMMA OfRun ==
  ASSUME NEW r \in Run, IInv
  PROVE  /\ Shapes /\ rec[r] \in Record /\ Fits(r) /\ RunOK(r) /\ (MaySubmit(r) => Holds(r))
         /\ lost = {} => ExactOK(r)
         /\ lost = {} /\ SessionOf(r) \in Session /\ Unforced(SessionOf(r)) => EndOK(r)
<1>1. Shapes /\ Fits(r)
  BY TypeSplit DEF IInv, Safe
<1>2. rec[r] \in Record
  BY <1>1 DEF Shapes
<1> QED
  BY <1>1, <1>2, ExactSplit DEF IInv, Safe, RunInv, LockInv, EndInv

\* Releasing takes nobody else's lock, and leaves none of r.
LEMMA Released ==
  ASSUME NEW r \in Run, IInv, Release(r)
  PROVE  /\ lock' \in [Session -> Run \cup {"none"}]
         /\ \A s \in Session : lock'[s] = lock[s] \/ (lock[s] = r /\ lock'[s] = "none")
         /\ \A s \in Session : lock'[s] # r
  BY Nobody DEF Release, IInv, Safe, TypeOK, LockInv, SessionOf

-----------------------------------------------------------------------------
(* The steps of one run.                                                   *)

LEMMA ObserveStep == ASSUME NEW r \in Run, IInv, Observe(r) PROVE IInv'
<1> USE OfRun DEF Observe, memory, runtime, bounds
<1>1. Shapes' /\ Spares(r) /\ Keeps(r)
  BY DEF Shapes, Spares, Keeps, Record
<1>2. obs'[r].at # "off" /\ obs'[r] = [at |-> "poll", after |-> rec[r].cursor]
  BY DEF RunOK, Shapes
<1>3. job'[r] = "none" /\ rec' = rec /\ lock' = lock /\ lost' = lost /\ prompts' = prompts
  BY DEF Shapes
<1>4. Fits(r)' /\ RunOK(r)' /\ ~MaySubmit(r)'
  BY <1>2, <1>3 DEF Fits, RunOK, MaySubmit, Is, Seen, SessionOf
<1>5. lost' = {} => ExactOK(r)'
  BY <1>3 DEF ExactOK, Owes, Busy, Holds, Is, SessionOf
<1>6. \A s \in Session : HeadOK(r, s) => HeadOK(r, s)'
  BY <1>2, <1>3 DEF HeadOK, Busy, Is, SessionOf
<1>7. EndOK(r) => EndOK(r)'
  BY <1>2, <1>3 DEF EndOK, OwnFrom, Busy, Is, Seen, SessionOf
<1>8. ended' = ended /\ queue' = queue /\ queue \in [Session -> Seq(Run)]
  BY DEF IInv, Safe, TypeOK
<1> QED
  BY <1>1, <1>3, <1>4, <1>5, <1>6, <1>7, <1>8, OneRun

\* A run that gives up its dispatch and its lock, with the status it then has.
LEMMA GivesUp ==
  ASSUME NEW r \in Run, IInv, job[r] \in {"cursor", "claim", "submit"},
         Is(r, {"queued", "running", "cancelled"}), NEW st \in Status,
         rec' = [rec EXCEPT ![r].status = st],
         NEW n \in Nat, prompts' = [prompts EXCEPT ![r] = n],
         \/ n = prompts[r]
         \/ Is(r, {"running"}) /\ n = prompts[r] + 1,
         \/ st = "failed" /\ lost' = lost
         \/ st = rec[r].status /\ Is(r, {"cancelled"}) /\ lost' = lost
         \/ st = rec[r].status /\ lost' = lost \cup {r},
         faults' \in 0..MaxFaults,
         Release(r), job' = [job EXCEPT ![r] = "none"],
         UNCHANGED <<from, lane, obs, runtime, restarts>>
  PROVE  IInv'
<1> USE OfRun DEF runtime
<1>1. prompts[r] = 0 /\ obs[r].at = "off"
  BY DEF RunOK
<1>2. rec'[r] = [rec[r] EXCEPT !.status = st] /\ job'[r] = "none" /\ prompts'[r] \in {0, 1}
  BY <1>1 DEF Shapes
<1>3. Shapes'
  <2>1. rec'[r] \in Record
    BY <1>2 DEF Record
  <2>2. rec' \in [Run -> Record] /\ prompts' \in [Run -> Nat]
    BY <2>1 DEF Shapes
  <2> QED
    BY <2>2, Released DEF Shapes
<1>4. Spares(r) /\ Keeps(r)
  BY DEF Shapes, Spares, Keeps, Record
<1>5. Fits(r)' /\ RunOK(r)' /\ ~MaySubmit(r)'
  <2>1. rec[r].end # "none" => st \in Results
    BY DEF Fits, Is, Results
  <2>2. Fits(r)'
    BY <1>1, <1>2, <2>1 DEF Fits, Is, Results, Record, Shapes
  <2>3. RunOK(r)'
    BY <1>1, <1>2 DEF RunOK, Is, Record
  <2> QED
    BY <1>2, <2>2, <2>3 DEF MaySubmit
<1>6. lost' = {} => ExactOK(r)'
  BY <1>2, Released DEF ExactOK, Owes, Busy, Is, Record
<1>7. \A s \in Session : ~HeadOK(r, s)
  BY <1>1 DEF HeadOK
<1>8. lost' = {} /\ EndOK(r) => EndOK(r)'
  BY <1>2 DEF EndOK, Busy, Is, Record
<1>9. ended' = ended /\ queue' = queue /\ queue \in [Session -> Seq(Run)]
  BY DEF IInv, Safe, TypeOK
<1> QED
  BY <1>3, <1>4, <1>5, <1>6, <1>7, <1>8, <1>9, Released, OneRun

LEMMA FaultBound == ASSUME Shapes, Fault PROVE faults' \in 0..MaxFaults
  BY Bounds DEF Shapes, Fault

\* A failure of the dispatch, recorded or not.
LEMMA FailStep ==
  ASSUME NEW r \in Run, IInv, job[r] \in {"cursor", "submit"},
         Is(r, {"queued", "running", "cancelled"}), Fail(r),
         NEW n \in Nat, prompts' = [prompts EXCEPT ![r] = n],
         \/ n = prompts[r]
         \/ Is(r, {"running"}) /\ n = prompts[r] + 1,
         UNCHANGED <<from, lane, obs, runtime, restarts>>
  PROVE  IInv'
<1> USE OfRun
<1>1. rec = [rec EXCEPT ![r].status = rec[r].status]
  BY DEF Shapes, Record
<1>2. rec[r].status \in Status /\ "failed" \in Status
  BY DEF Record, Status, Terminal, Results
<1>3. CASE rec' = [rec EXCEPT ![r].status = IF Is(r, Terminal) THEN @ ELSE "failed"]
           /\ UNCHANGED <<lost, faults>>
  <2>1. faults' \in 0..MaxFaults
    BY <1>3 DEF Shapes
  <2>2. CASE Is(r, Terminal)
    <3>1. Is(r, {"cancelled"}) /\ rec' = [rec EXCEPT ![r].status = rec[r].status]
      BY <1>1, <1>3, <2>2 DEF Is, Terminal, Results, Shapes, Record
    <3> QED
      BY <1>2, <1>3, <2>1, <3>1, GivesUp DEF Fail
  <2>3. CASE ~Is(r, Terminal)
    <3>1. rec' = [rec EXCEPT ![r].status = "failed"]
      BY <1>3, <2>3
    <3> QED
      BY <1>2, <1>3, <2>1, <3>1, GivesUp DEF Fail
  <2> QED
    BY <2>2, <2>3
<1>4. CASE Fault /\ lost' = lost \cup {r} /\ rec' = rec
  BY <1>1, <1>2, <1>4, FaultBound, GivesUp DEF Fail
<1> QED
  BY <1>3, <1>4 DEF Fail

LEMMA ReadCursorStep == ASSUME NEW r \in Run, IInv, ReadCursor(r) PROVE IInv'
<1> USE OfRun DEF ReadCursor
<1>1. CASE /\ from' = [from EXCEPT ![r] = Len(Seen(r))] /\ job' = [job EXCEPT ![r] = "claim"]
           /\ UNCHANGED <<rec, lock, lost, faults>>
  <2> USE <1>1 DEF runtime
  <2>1. SessionOf(r) \in Session /\ Len(Seen(r)) \in Nat
    <3>1. SessionOf(r) \in Session
      BY DEF RunOK, Fits, SessionOf
    <3>2. ended[SessionOf(r)] \in Seq([run : Run, how : Results])
      BY <3>1 DEF IInv, Safe, TypeOK
    <3> QED
      BY <3>1, <3>2, LenProperties DEF Seen
  <2>2. from'[r] = Len(Seen(r)) /\ job'[r] = "claim" /\ rec' = rec /\ lock' = lock
    BY DEF Shapes
  <2>3. Shapes' /\ Spares(r) /\ Keeps(r)
    BY <2>1 DEF Shapes, Spares, Keeps, Record
  <2>4. Fits(r)' /\ RunOK(r)' /\ (MaySubmit(r)' => Holds(r)')
    BY <2>2 DEF Fits, RunOK, MaySubmit, Holds, Is, Seen, SessionOf
  <2>5. lost' = {} => ExactOK(r)'
    BY <2>2 DEF ExactOK, Owes, Busy, Holds, Is, SessionOf
  <2>6. \A s \in Session : HeadOK(r, s) => HeadOK(r, s)'
    BY <2>2 DEF HeadOK, Busy, Is, SessionOf
  <2>7. EndOK(r) => EndOK(r)'
    BY <2>1, <2>2 DEF EndOK, OwnFrom, Busy, Is, Seen, SessionOf
  <2>8. ended' = ended /\ queue' = queue /\ queue \in [Session -> Seq(Run)]
    BY DEF IInv, Safe, TypeOK
  <2> QED
    BY <2>2, <2>3, <2>4, <2>5, <2>6, <2>7, <2>8, OneRun
<1>2. CASE Fail(r) /\ from' = from
  <2>1. Is(r, {"queued", "running", "cancelled"}) /\ prompts[r] \in Nat
    BY DEF RunOK, Is, Shapes
  <2>2. prompts' = [prompts EXCEPT ![r] = prompts[r]]
    BY DEF Shapes
  <2> QED
    BY <1>2, <2>1, <2>2, FailStep
<1> QED
  BY <1>1, <1>2

LEMMA ClaimStep == ASSUME NEW r \in Run, IInv, Claim(r) PROVE IInv'
<1> USE OfRun DEF Claim
<1>1. CASE /\ Is(r, {"queued"})
           /\ rec' = [rec EXCEPT ![r].status = "running", ![r].cursor = from[r]]
           /\ job' = [job EXCEPT ![r] = "submit"] /\ UNCHANGED <<lock, lost, faults>>
  <2> USE <1>1 DEF runtime
  <2>1. rec'[r] = [rec[r] EXCEPT !.status = "running", !.cursor = from[r]]
        /\ job'[r] = "submit" /\ from[r] \in Nat
    BY DEF Shapes
  <2>2. rec'[r] \in Record
    <3>1. "running" \in Status /\ rec[r] \in Record
      BY DEF Status
    <3> QED
      BY ONLY <2>1, <3>1 DEF Record
  <2>3. rec' \in [Run -> Record]
    BY <2>2 DEF Shapes
  <2>4. Shapes' /\ Spares(r) /\ Keeps(r)
    BY <2>3 DEF Shapes, Spares, Keeps, Record
  <2>5. rec'[r].status = "running" /\ rec'[r].cursor = from[r] /\ obs[r].at = "off"
        /\ rec'[r].session = rec[r].session /\ rec'[r].end = "none" /\ rec[r].end = "none"
        /\ rec'[r].forced = rec[r].forced /\ rec'[r].asked = rec[r].asked
    <3>1. rec[r].end = "none"
      BY DEF Fits, Is, Results
    <3>2. obs[r].at = "off"
      BY DEF RunOK
    <3>3. rec[r] \in Record
      OBVIOUS
    <3> QED
      BY ONLY <2>1, <3>1, <3>2, <3>3 DEF Record
  <2>6. Fits(r)' /\ RunOK(r)' /\ (MaySubmit(r)' => Holds(r)')
    <3>1. Fits(r)'
      BY <2>1, <2>5 DEF Fits, Is, Record
    <3>2. RunOK(r)' /\ (MaySubmit(r)' => Holds(r)')
      BY <2>1, <2>5 DEF RunOK, MaySubmit, Holds, Is, SessionOf
    <3> QED
      BY <3>1, <3>2
  <2>7. lost' = {} => ExactOK(r)'
    BY <2>1, <2>5 DEF ExactOK, Owes, Busy, Holds, Is, SessionOf, RunOK
  <2>8. \A s \in Session : ~HeadOK(r, s)
    BY DEF HeadOK, Busy, Is
  <2>9. EndOK(r) => EndOK(r)'
    <3>1. Len(Seen(r)) <= from[r] => OwnFrom(r, from[r])
      <4>1. SessionOf(r) \in Session
        BY DEF RunOK, Fits, SessionOf
      <4>2. Len(Seen(r)) \in Nat
        BY <4>1, LenProperties DEF Seen, IInv, Safe, TypeOK
      <4> QED
        BY <2>1, <4>2 DEF OwnFrom
    <3> QED
      <4>1. Seen(r)' = Seen(r)
        BY <2>5 DEF Seen, SessionOf
      <4>2. EndOK(r) => rec'[r].end \in {"none", r} /\ Len(Seen(r)) <= from[r]
        BY <2>5 DEF EndOK
      <4> QED
        <5>1. obs' = obs /\ job'[r] = "submit" /\ rec'[r].cursor = from[r] /\ obs[r].at = "off"
          BY <2>1, <2>5
        <5>2. OwnFrom(r, from[r])' <=> OwnFrom(r, from[r])
          BY ONLY <4>1, Claim(r) DEF OwnFrom, Claim
        <5> QED
          BY ONLY <3>1, <4>1, <4>2, <5>1, <5>2 DEF EndOK, OwnFrom
  <2>10. ended' = ended /\ queue' = queue /\ queue \in [Session -> Seq(Run)]
    BY DEF IInv, Safe, TypeOK
  <2> QED
    BY <2>4, <2>6, <2>7, <2>8, <2>9, <2>10, OneRun
<1>2. CASE ~Is(r, {"queued"}) /\ Release(r) /\ job' = [job EXCEPT ![r] = "none"]
           /\ UNCHANGED <<rec, lost, faults>>
  <2>1. Is(r, {"cancelled"})
    BY <1>2 DEF RunOK, Is
  <2>2. rec' = [rec EXCEPT ![r].status = rec[r].status] /\ rec[r].status \in Status
        /\ prompts' = [prompts EXCEPT ![r] = prompts[r]] /\ prompts[r] \in Nat
        /\ faults' \in 0..MaxFaults
    BY <1>2 DEF Shapes, Record
  <2> QED
    BY <1>2, <2>1, <2>2, GivesUp DEF Is
<1>3. CASE /\ Is(r, {"queued"}) /\ Fault /\ rec' = [rec EXCEPT ![r].status = "failed"]
           /\ Release(r) /\ job' = [job EXCEPT ![r] = "none"] /\ lost' = lost
  <2>1. prompts' = [prompts EXCEPT ![r] = prompts[r]] /\ prompts[r] \in Nat
    BY DEF Shapes
  <2>2. "failed" \in Status /\ Is(r, {"queued", "running", "cancelled"})
    BY <1>3 DEF Status, Terminal, Results, Is
  <2> QED
    BY <1>3, <2>1, <2>2, FaultBound, GivesUp
<1> QED
  BY <1>1, <1>2, <1>3

\* Nobody's turn waits in the session of a run that may still submit.
LEMMA NoTurnWaits ==
  ASSUME NEW r \in Run, IInv, MaySubmit(r), prompts[r] = 0, lost = {}, Unforced(SessionOf(r))
  PROVE  queue[SessionOf(r)] = <<>>
<1>1. SessionOf(r) \in Session /\ lock[SessionOf(r)] = r
  BY OfRun DEF MaySubmit, Fits, Is, SessionOf, Holds
<1>2. PICK s \in Session : s = SessionOf(r)
  BY <1>1
<1>3. TurnOK(s)
  BY <1>2 DEF IInv, TurnInv
<1>4. SUFFICES ASSUME queue[s] # <<>> PROVE FALSE
  BY <1>2
<1>5. PICK q \in Run : q = Head(queue[s])
  BY <1>4, HeadTailProperties DEF IInv, Safe, TypeOK
<1>6. HeadOK(q, s)
  BY <1>3, <1>4, <1>5 DEF TurnOK
<1>7. Owes(q) /\ q # r
  BY <1>2, <1>6 DEF HeadOK, Owes, Unforced
<1>8. lock[s] = q
  BY <1>6, <1>7, OfRun DEF ExactOK, Holds, HeadOK
<1> QED
  BY <1>1, <1>2, <1>7, <1>8

\* The prompt went out: it was rejected, or the Runtime may hold its turn.
LEMMA SentStep ==
  ASSUME NEW r \in Run, IInv, job[r] = "submit", Is(r, {"running"}),
         prompts' = [prompts EXCEPT ![r] = @ + 1],
         NEW j \in {"none", "observe"}, job' = [job EXCEPT ![r] = j],
         NEW st \in {"running", "interrupted"}, rec' = [rec EXCEPT ![r].status = st],
         lost' = lost \/ lost' = lost \cup {r}, faults' \in 0..MaxFaults,
         queue' \in {queue, [queue EXCEPT ![SessionOf(r)] = Append(@, r)]},
         UNCHANGED <<lock, from, lane, obs, ended, stopping, restarts>>
  PROVE  IInv'
<1> USE OfRun
<1>1. prompts[r] = 0 /\ obs[r].at = "off" /\ MaySubmit(r) /\ prompts'[r] = 1
  BY DEF RunOK, MaySubmit, Is, Shapes
<1>2. PICK s \in Session : s = SessionOf(r)
  BY DEF Fits, Is, SessionOf
<1>3. rec'[r] = [rec[r] EXCEPT !.status = st] /\ job'[r] = j
  BY DEF Shapes
<1>4. /\ rec'[r].status = st /\ rec'[r].session = rec[r].session /\ rec'[r].end = rec[r].end
      /\ rec'[r].forced = rec[r].forced /\ rec'[r].asked = rec[r].asked
      /\ rec'[r].cursor = rec[r].cursor
  BY ONLY <1>3, OfRun, IInv, r \in Run DEF Record
<1>5. Shapes' /\ Spares(r) /\ Keeps(r)
  <2>1. st \in Status
    BY DEF Status, Terminal
  <2>2. rec'[r] \in Record
    BY ONLY <1>3, <2>1, OfRun, IInv, r \in Run DEF Record
  <2>3. rec' \in [Run -> Record]
    BY <2>2 DEF Shapes
  <2>4. prompts' \in [Run -> Nat] /\ job' \in [Run -> {"none", "cursor", "claim", "submit", "observe"}]
    BY DEF Shapes
  <2>5. Shapes'
    BY ONLY <2>3, <2>4, OfRun, IInv, r \in Run, faults' \in 0..MaxFaults,
            lost' = lost \/ lost' = lost \cup {r},
            UNCHANGED <<lock, from, lane, obs, ended, stopping, restarts>> DEF Shapes
  <2> QED
    BY <1>4, <2>5 DEF Spares, Keeps, Shapes
<1>6. rec[r].end = "none" /\ ~rec[r].asked /\ ~rec[r].forced
  BY DEF Fits, RunOK, Is, Results
<1>7. Fits(r)' /\ RunOK(r)' /\ ~MaySubmit(r)'
  <2>1. Fits(r)'
    BY <1>1, <1>3, <1>4, <1>6 DEF Fits, Is
  <2>2. RunOK(r)' /\ ~MaySubmit(r)'
    BY <1>1, <1>3, <1>4, <1>6 DEF RunOK, MaySubmit, Is
  <2> QED
    BY <2>1, <2>2
<1>8. ExactOK(r)'
  <2>1. Holds(r) /\ SessionOf(r)' = SessionOf(r)
    BY <1>1, <1>4 DEF SessionOf
  <2> QED
    BY <1>3, <1>4, <1>6, <2>1 DEF ExactOK, Owes, Busy, Is, Holds
<1>9. \A t \in Session : ~HeadOK(r, t)
  BY <1>1 DEF HeadOK
<1>10. EndOK(r) => EndOK(r)'
  <2>1. Seen(r)' = Seen(r)
    BY <1>4 DEF Seen, SessionOf
  <2>2. Busy(r)
    BY DEF Busy, Is
  <2>3. OwnFrom(r, rec[r].cursor)' <=> OwnFrom(r, rec[r].cursor)
    BY ONLY <1>4, <2>1 DEF OwnFrom
  <2> QED
    BY <1>1, <1>3, <1>4, <2>1, <2>2, <2>3 DEF EndOK
<1>11. ended' = ended /\ queue' \in [Session -> Seq(Run)] /\ Len(ended[s]) \in Nat
  <2>1. queue \in [Session -> Seq(Run)] /\ ended[s] \in Seq([run : Run, how : Results])
    BY DEF IInv, Safe, TypeOK
  <2>2. Append(queue[s], r) \in Seq(Run)
    BY <2>1
  <2> QED
    BY <1>2, <2>1, <2>2, LenProperties
<1>12. ASSUME lost' = {}, Unforced(s)', queue'[s] # queue[s]
       PROVE  TurnOK(s)'
  <2>1. lost = {} /\ Unforced(s)
    BY <1>5, <1>12, UnforcedBefore
  <2>2. queue[s] = <<>>
    BY <1>1, <1>2, <2>1, NoTurnWaits
  <2>3. queue'[s] = <<r>>
    BY <1>2, <1>12, <2>2 DEF IInv, Safe, TypeOK
  <2>4. Len(ended[s]) <= rec[r].cursor
    BY <1>2, <2>1 DEF EndOK, Seen, Busy, Is
  <2>5. HeadOK(r, s)'
    BY <1>1, <1>2, <1>4, <2>4 DEF HeadOK, Busy, Is, SessionOf
  <2> QED
    BY <2>3, <2>5 DEF TurnOK
<1>13. \A t \in Session : queue'[t] = queue[t] \/ (lost' = {} /\ Unforced(t)' => TurnOK(t)')
  BY <1>2, <1>12 DEF IInv, Safe, TypeOK
<1> QED
  BY <1>5, <1>7, <1>8, <1>9, <1>10, <1>11, <1>13, OneRun

LEMMA SubmitStep == ASSUME NEW r \in Run, IInv, Submit(r) PROVE IInv'
<1> USE OfRun DEF Submit
<1>1. CASE ~Is(r, {"running"}) /\ job' = [job EXCEPT ![r] = "none"]
           /\ UNCHANGED <<rec, lock, queue, prompts, lost, faults>>
  <2> USE <1>1
  <2>1. job'[r] = "none" /\ rec' = rec /\ lock' = lock /\ obs' = obs
    BY DEF Shapes
  <2>2. Shapes' /\ Spares(r) /\ Keeps(r)
    BY DEF Shapes, Spares, Keeps, Record
  <2>3. Fits(r)' /\ RunOK(r)' /\ ~MaySubmit(r)'
    BY <2>1 DEF Fits, RunOK, MaySubmit, Is, Seen, SessionOf
  <2>4. lost' = {} => ExactOK(r)'
    BY <2>1 DEF ExactOK, Owes, Busy, Holds, Is, SessionOf
  <2>5. \A s \in Session : HeadOK(r, s) => HeadOK(r, s)'
    BY <2>1 DEF HeadOK, Busy, Is, SessionOf
  <2>6. EndOK(r) => EndOK(r)'
    BY <2>1 DEF EndOK, OwnFrom, Busy, Is, Seen, SessionOf
  <2>7. ended' = ended /\ queue' = queue /\ queue \in [Session -> Seq(Run)]
    BY DEF IInv, Safe, TypeOK
  <2> QED
    BY <2>1, <2>2, <2>3, <2>4, <2>5, <2>6, <2>7, OneRun
<1>2. CASE Is(r, {"running"}) /\ prompts' = [prompts EXCEPT ![r] = @ + 1] /\ Fail(r) /\ queue' = queue
  <2>1. prompts[r] + 1 \in Nat /\ prompts' = [prompts EXCEPT ![r] = prompts[r] + 1]
        /\ Is(r, {"queued", "running", "cancelled"}) /\ prompts[r] \in Nat
    BY <1>2 DEF Shapes, Is
  <2> QED
    BY <1>2, <2>1, FailStep DEF runtime
<1>3. CASE /\ Is(r, {"running"}) /\ prompts' = [prompts EXCEPT ![r] = @ + 1]
           /\ job' = [job EXCEPT ![r] = "observe"]
           /\ queue' = [queue EXCEPT ![SessionOf(r)] = Append(@, r)]
           /\ UNCHANGED <<rec, lock, lost, faults>>
  <2>1. rec' = [rec EXCEPT ![r].status = "running"] /\ faults' \in 0..MaxFaults
    BY <1>3 DEF Shapes, Record, Is
  <2> QED
    BY <1>3, <2>1, SentStep
<1>4. CASE /\ Is(r, {"running"}) /\ prompts' = [prompts EXCEPT ![r] = @ + 1]
           /\ ObserverStop(r) /\ job' = [job EXCEPT ![r] = "none"]
           /\ queue' \in {queue, [queue EXCEPT ![SessionOf(r)] = Append(@, r)]}
           /\ lock' = lock
  <2>1. CASE rec' = [rec EXCEPT ![r].status = IF @ = "running" THEN "interrupted" ELSE @]
             /\ UNCHANGED <<lost, faults>>
    <3>1. rec' = [rec EXCEPT ![r].status = "interrupted"] /\ faults' \in 0..MaxFaults
      BY <1>4, <2>1 DEF Shapes, Record, Is
    <3> QED
      BY <1>4, <2>1, <3>1, SentStep
  <2>2. CASE Fault /\ lost' = lost \cup {r} /\ rec' = rec
    <3>1. rec' = [rec EXCEPT ![r].status = "running"]
      BY <1>4, <2>2 DEF Shapes, Record, Is
    <3> QED
      BY <1>4, <2>2, <3>1, FaultBound, SentStep
  <2> QED
    BY <1>4, <2>1, <2>2 DEF ObserverStop
<1> QED
  BY <1>1, <1>2, <1>3, <1>4

\* A status is taken from running to interrupted, or not at all, and the
\* observer stops: what a deadline and a write that fails have in common.
LEMMA ObserverGone ==
  ASSUME NEW r \in Run, IInv, obs[r].at # "off", obs' = [obs EXCEPT ![r] = Off],
         NEW st \in Status, rec' = [rec EXCEPT ![r].status = st],
         st = rec[r].status \/ (Is(r, {"running"}) /\ st = "interrupted"),
         lost' = lost \/ lost' = lost \cup {r}, faults' \in 0..MaxFaults,
         UNCHANGED <<lock, job, from, lane, queue, ended, stopping, prompts, restarts>>
  PROVE  IInv'
<1> USE OfRun
<1>1. rec'[r] = [rec[r] EXCEPT !.status = st] /\ obs'[r].at = "off" /\ job[r] = "none"
      /\ Off \in [at : {"off", "poll", "apply"}, after : Nat]
  BY DEF Shapes, Off, RunOK
<1>2. /\ rec'[r].status = st /\ rec'[r].session = rec[r].session /\ rec'[r].end = rec[r].end
      /\ rec'[r].forced = rec[r].forced /\ rec'[r].asked = rec[r].asked
      /\ rec'[r].cursor = rec[r].cursor
  BY ONLY <1>1, OfRun, IInv, r \in Run DEF Record
<1>3. Shapes' /\ Spares(r) /\ Keeps(r)
  <2>1. rec'[r] \in Record
    BY ONLY <1>1, st \in Status, OfRun, IInv, r \in Run DEF Record
  <2>2. rec' \in [Run -> Record] /\ obs' \in [Run -> [at : {"off", "poll", "apply"}, after : Nat]]
    BY <1>1, <2>1 DEF Shapes
  <2> QED
    BY <1>2, <2>2 DEF Shapes, Spares, Keeps
<1>4. Fits(r)' /\ RunOK(r)' /\ ~MaySubmit(r)'
  <2>1. Fits(r)'
    BY <1>1, <1>2 DEF Fits, Is, Results
  <2>2. RunOK(r)' /\ ~MaySubmit(r)'
    BY <1>1, <1>2 DEF RunOK, MaySubmit, Is
  <2> QED
    BY <2>1, <2>2
<1>5. lost' = {} => ExactOK(r)'
  BY <1>1, <1>2 DEF ExactOK, Owes, Busy, Is, Holds, SessionOf
<1>6. \A s \in Session : HeadOK(r, s) => HeadOK(r, s)'
  BY <1>1, <1>2 DEF HeadOK, Busy, Is, SessionOf
<1>7. EndOK(r) => EndOK(r)'
  <2>1. Seen(r)' = Seen(r) /\ Busy(r)' = Busy(r)
    BY <1>2 DEF Seen, SessionOf, Busy, Is
  <2>2. OwnFrom(r, rec[r].cursor)' <=> OwnFrom(r, rec[r].cursor)
    BY ONLY <1>2, <2>1 DEF OwnFrom
  <2> QED
    BY <1>1, <1>2, <2>1, <2>2 DEF EndOK
<1>8. ended' = ended /\ queue' = queue /\ queue \in [Session -> Seq(Run)]
  BY DEF IInv, Safe, TypeOK
<1> QED
  BY <1>3, <1>4, <1>5, <1>6, <1>7, <1>8, OneRun

\* The status an observer that stops leaves, and when it cannot be written.
LEMMA Interrupting ==
  ASSUME NEW r \in Run, IInv,
         \/ rec' = [rec EXCEPT ![r].status = IF @ = "running" THEN "interrupted" ELSE @]
         \/ rec' = rec
  PROVE  \E st \in Status : /\ rec' = [rec EXCEPT ![r].status = st]
                            /\ st = rec[r].status \/ (Is(r, {"running"}) /\ st = "interrupted")
<1> USE OfRun
<1>1. rec[r].status \in Status /\ "interrupted" \in Status
  BY DEF Record, Status, Terminal
<1>2. rec = [rec EXCEPT ![r].status = rec[r].status]
  BY DEF Shapes, Record
<1>3. CASE Is(r, {"running"})
  BY <1>1, <1>2, <1>3 DEF Is, Shapes
<1>4. CASE ~Is(r, {"running"})
  BY <1>1, <1>2, <1>4 DEF Is, Shapes
<1> QED
  BY <1>3, <1>4

LEMMA StopObservingStep == ASSUME NEW r \in Run, IInv, StopObserving(r) PROVE IInv'
<1>1. PICK st \in Status : /\ rec' = [rec EXCEPT ![r].status = st]
                           /\ st = rec[r].status \/ (Is(r, {"running"}) /\ st = "interrupted")
  BY Interrupting DEF StopObserving, ObserverStop
<1>2. faults' \in 0..MaxFaults /\ (lost' = lost \/ lost' = lost \cup {r})
  BY OfRun, FaultBound DEF StopObserving, ObserverStop, Shapes
<1> QED
  BY <1>1, <1>2, ObserverGone DEF StopObserving, runtime

LEMMA PollStep == ASSUME NEW r \in Run, IInv, Poll(r) PROVE IInv'
<1> USE OfRun DEF Poll
<1>1. SessionOf(r) \in Session /\ Len(Seen(r)) \in Nat
  <2>1. SessionOf(r) \in Session
    BY DEF Fits, SessionOf, Is
  <2> QED
    BY <2>1, LenProperties DEF Seen, IInv, Safe, TypeOK
<1>2. CASE /\ rec' = [rec EXCEPT ![r].cursor = IF Is(r, Terminal) THEN @ ELSE Len(Seen(r))]
           /\ obs' = [obs EXCEPT ![r].at = "apply"] /\ UNCHANGED <<lost, faults>>
  <2> USE <1>2
  <2>1. PICK c \in Nat : /\ c = IF Is(r, Terminal) THEN rec[r].cursor ELSE Len(Seen(r))
                         /\ rec'[r] = [rec[r] EXCEPT !.cursor = c]
    BY <1>1 DEF Shapes, Record
  <2>2. /\ rec'[r].status = rec[r].status /\ rec'[r].session = rec[r].session
        /\ rec'[r].end = rec[r].end /\ rec'[r].forced = rec[r].forced
        /\ rec'[r].asked = rec[r].asked /\ rec'[r].cursor = c
    BY ONLY <2>1, OfRun, IInv, r \in Run DEF Record
  <2>3. obs'[r].at = "apply" /\ obs'[r].after = obs[r].after /\ job[r] = "none"
        /\ obs' \in [Run -> [at : {"off", "poll", "apply"}, after : Nat]]
    BY DEF Shapes, RunOK
  <2>4. Shapes' /\ Spares(r) /\ Keeps(r)
    <3>1. rec'[r] \in Record
      BY ONLY <2>1, OfRun, IInv, r \in Run, c \in Nat DEF Record
    <3>2. rec' \in [Run -> Record]
      BY <3>1 DEF Shapes
    <3> QED
      BY <2>2, <2>3, <3>2 DEF Shapes, Spares, Keeps, runtime
  <2>5. Seen(r)' = Seen(r) /\ Busy(r)' = Busy(r) /\ SessionOf(r)' = SessionOf(r) /\ lock' = lock
    BY <2>2 DEF Seen, SessionOf, Busy, Is, runtime
  <2>6. Fits(r)' /\ RunOK(r)' /\ ~MaySubmit(r)'
    <3>1. Fits(r)'
      BY <2>2, <2>3, <2>5 DEF Fits, Is
    <3>2. RunOK(r)' /\ ~MaySubmit(r)'
      BY <2>2, <2>3 DEF RunOK, MaySubmit, Is
    <3> QED
      BY <3>1, <3>2
  <2>7. lost' = {} => ExactOK(r)'
    BY <2>2, <2>3, <2>5 DEF ExactOK, Owes, Is, Holds
  <2>8. \A s \in Session : ~HeadOK(r, s)
    BY <1>1, OfRun DEF HeadOK, Seen, Shapes
  <2>9. EndOK(r) => EndOK(r)'
    <3>1. OwnFrom(r, Len(Seen(r)))
      BY <1>1 DEF OwnFrom
    <3>2. Busy(r) /\ EndOK(r) => OwnFrom(r, c) /\ OwnFrom(r, obs[r].after)
      BY <2>1, <3>1 DEF EndOK
    <3>3. (OwnFrom(r, c) => OwnFrom(r, rec[r].cursor)')
          /\ (OwnFrom(r, obs[r].after) => OwnFrom(r, obs[r].after)')
      BY ONLY <2>2, <2>3, <2>5 DEF OwnFrom
    <3> QED
      BY <2>2, <2>3, <2>5, <3>2, <3>3 DEF EndOK
  <2>10. ended' = ended /\ queue' = queue /\ queue \in [Session -> Seq(Run)]
    BY DEF IInv, Safe, TypeOK, runtime
  <2> QED
    BY <2>4, <2>5, <2>6, <2>7, <2>8, <2>9, <2>10, OneRun
<1>3. CASE /\ Fault /\ obs' = [obs EXCEPT ![r] = Off] /\ lost' = lost
           /\ rec' = [rec EXCEPT ![r].status = IF @ = "running" THEN "interrupted" ELSE @]
  <2>1. PICK st \in Status : /\ rec' = [rec EXCEPT ![r].status = st]
                             /\ st = rec[r].status \/ (Is(r, {"running"}) /\ st = "interrupted")
    BY <1>3, Interrupting
  <2> QED
    BY <1>3, <2>1, FaultBound, ObserverGone DEF runtime
<1> QED
  BY <1>2, <1>3

\* A run that is decided, or unlocked by force, and gives its lock back.
LEMMA Settles ==
  ASSUME NEW r \in Run, IInv, ~Is(r, {"none"}), Release(r),
         NEW d \in Record, rec' = [rec EXCEPT ![r] = d],
         d.session = rec[r].session, d.status \notin {"none", "queued", "running"},
         d.forced => d.asked, rec[r].forced => d.forced, d.forced \/ d.status \in Results,
         d.end # "none" => d.status \in Results,
         job[r] \in {"cursor", "claim"} => d.status = "cancelled",
         NEW o \in {obs[r], Off}, obs' = [obs EXCEPT ![r] = o],
         NEW l \in {"free", "call"}, lane' = [lane EXCEPT ![r] = l],
         lost = {} /\ ~d.forced /\ EndOK(r) => d.end \in {"none", r},
         ~d.forced => \A s \in Session : ~HeadOK(r, s),
         UNCHANGED <<job, from, queue, ended, stopping, prompts, lost, restarts, faults>>
  PROVE  IInv'
<1> USE OfRun
<1>1. rec'[r] = d /\ obs'[r] = o /\ lane'[r] = l /\ rec' \in [Run -> Record]
  BY DEF Shapes
<1>2. o \in [at : {"off", "poll", "apply"}, after : Nat] /\ (o.at = "off" \/ o = obs[r])
  BY DEF Shapes, Off
<1>3. Shapes' /\ Spares(r) /\ Keeps(r)
  <2>1. /\ obs' \in [Run -> [at : {"off", "poll", "apply"}, after : Nat]]
        /\ lane' \in [Run -> {"free", "call"}]
    BY <1>2 DEF Shapes
  <2> QED
    BY <1>1, <2>1, Released DEF Shapes, Spares, Keeps
<1>4. Fits(r)' /\ RunOK(r)' /\ ~MaySubmit(r)'
  <2>1. Fits(r)'
    <3>1. Seen(r)' = Seen(r)
      BY <1>1 DEF Seen, SessionOf
    <3> QED
      BY <1>1, <1>2, <3>1 DEF Fits, Is, SessionOf
  <2>2. RunOK(r)'
    BY <1>1, <1>2 DEF RunOK, Is
  <2>3. ~MaySubmit(r)'
    BY <1>1 DEF MaySubmit, Is
  <2> QED
    BY <2>1, <2>2, <2>3
<1>5. ExactOK(r)'
  <2>1. ~Owes(r)'
    BY <1>1 DEF Owes, Busy, Is, Results
  <2> QED
    BY <2>1, Released DEF ExactOK
<1>6. ASSUME lost' = {}, ~rec'[r].forced, EndOK(r) PROVE EndOK(r)'
  BY <1>1, <1>6 DEF EndOK, Busy, Is, Results
<1>7. ended' = ended /\ queue' = queue /\ queue \in [Session -> Seq(Run)]
  BY DEF IInv, Safe, TypeOK
<1> QED
  BY <1>1, <1>3, <1>4, <1>5, <1>6, <1>7, Released, OneRun

LEMMA ApplyStep == ASSUME NEW r \in Run, IInv, Apply(r) PROVE IInv'
<1> USE OfRun DEF Apply
<1> DEFINE k == obs[r].after + 1
           e == Seen(r)[k]
           result == IF Is(r, {"cancelling"}) /\ rec[r].forced THEN "failed" ELSE e.how
<1>1. /\ SessionOf(r) \in Session /\ k \in 1..Len(Seen(r)) /\ e.run \in Run
      /\ result \in Results /\ job[r] = "none" /\ ~Is(r, {"none", "queued"})
  <2>1. SessionOf(r) \in Session /\ Len(Seen(r)) > obs[r].after /\ obs[r].after \in Nat
        /\ job[r] = "none" /\ ~Is(r, {"none", "queued"})
    BY DEF Fits, SessionOf, Is, Shapes, RunOK
  <2>2. Seen(r) \in Seq([run : Run, how : Results])
    BY <2>1 DEF Seen, IInv, Safe, TypeOK
  <2>3. k \in 1..Len(Seen(r))
    BY <2>1, <2>2, LenProperties
  <2>4. e \in [run : Run, how : Results]
    BY <2>2, <2>3, ElementOfSeq
  <2> QED
    BY <2>1, <2>3, <2>4 DEF Results
<1>2. \A s \in Session : ~HeadOK(r, s)
  <2>1. Len(ended[SessionOf(r)]) > obs[r].after /\ Len(ended[SessionOf(r)]) \in Nat
        /\ obs[r].after \in Nat /\ obs[r].at # "off"
    BY <1>1, LenProperties DEF Fits, Seen, Shapes, IInv, Safe, TypeOK
  <2> QED
    BY <2>1 DEF HeadOK
<1>3. CASE /\ ~Is(r, Terminal) /\ Release(r) /\ UNCHANGED faults
           /\ rec' = [rec EXCEPT ![r].status = result, ![r].end = e.run]
  <2>1. PICK d : d = [rec[r] EXCEPT !.status = result, !.end = e.run]
    OBVIOUS
  <2>2. rec' = [rec EXCEPT ![r] = d]
    BY <1>3, <2>1 DEF Shapes
  <2>3. result \in Status /\ e.run \in Run \cup {"none"} /\ rec[r] \in Record
    BY <1>1 DEF Status, Terminal, Results
  <2>4. /\ d \in Record /\ d.status = result /\ d.end = e.run /\ d.session = rec[r].session
        /\ d.forced = rec[r].forced /\ d.asked = rec[r].asked
    BY ONLY <2>1, <2>3 DEF Record
  <2>5. lane' = [lane EXCEPT ![r] = lane[r]] /\ lane[r] \in {"free", "call"}
        /\ obs' = [obs EXCEPT ![r] = Off] /\ ~Is(r, {"none"}) /\ (rec[r].forced => rec[r].asked)
    BY <1>1 DEF Shapes, Is, RunOK
  <2>6. EndOK(r) => e.run = r
    <3>1. Busy(r) /\ obs[r].at # "off"
      BY <1>1, <1>3 DEF Busy, Is, Terminal, Results, Status, Record
    <3> QED
      BY <1>1, <3>1 DEF EndOK, OwnFrom, Shapes
  <2>7. result \notin {"none", "queued", "running"}
    BY <1>1 DEF Results
  <2>8. UNCHANGED <<job, from, queue, ended, stopping, prompts, lost, restarts, faults>>
    BY <1>3 DEF runtime
  <2> HIDE DEF result, e, Apply
  <2> QED
    BY <1>1, <1>2, <1>3, <2>2, <2>4, <2>5, <2>6, <2>7, <2>8, Settles
<1>4. CASE Is(r, Terminal) /\ UNCHANGED <<rec, lock, faults>>
  <2>1. rec' = rec \/ rec' = [rec EXCEPT ![r].status = IF @ = "running" THEN "interrupted" ELSE @]
    BY <1>4
  <2>2. faults' \in 0..MaxFaults
    BY <1>4 DEF Shapes
  <2>3. PICK st \in Status : /\ rec' = [rec EXCEPT ![r].status = st]
                             /\ st = rec[r].status \/ (Is(r, {"running"}) /\ st = "interrupted")
    BY <2>1, Interrupting
  <2> QED
    BY <1>4, <2>2, <2>3, ObserverGone DEF runtime
<1>5. CASE /\ Fault /\ lock' = lock
           /\ rec' = [rec EXCEPT ![r].status = IF @ = "running" THEN "interrupted" ELSE @]
  <2>1. PICK st \in Status : /\ rec' = [rec EXCEPT ![r].status = st]
                             /\ st = rec[r].status \/ (Is(r, {"running"}) /\ st = "interrupted")
    BY <1>5, Interrupting
  <2> QED
    BY <1>5, <2>1, FaultBound, ObserverGone DEF runtime
<1> QED
  BY <1>3, <1>4, <1>5

LEMMA CancelStep == ASSUME NEW r \in Run, IInv, Cancel(r) PROVE IInv'
<1> USE OfRun DEF Cancel, runtime, bounds
<1>1. CASE Is(r, {"queued"})
  <2> USE <1>1
  <2>1. PICK d : d = [rec[r] EXCEPT !.status = "cancelled", !.asked = TRUE]
    OBVIOUS
  <2>2. rec' = [rec EXCEPT ![r] = d] /\ Release(r) /\ lane' = lane
    BY <2>1 DEF Shapes, Record, Is
  <2>3. "cancelled" \in Status /\ "cancelled" \in Results /\ rec[r] \in Record
    BY DEF Status, Terminal, Results
  <2>4. /\ d \in Record /\ d.status = "cancelled" /\ d.end = rec[r].end
        /\ d.session = rec[r].session /\ d.forced = rec[r].forced /\ d.asked = TRUE
    BY ONLY <2>1, <2>3 DEF Record
  <2>5. lane' = [lane EXCEPT ![r] = lane[r]] /\ lane[r] \in {"free", "call"} /\ ~Is(r, {"none"})
        /\ obs' = [obs EXCEPT ![r] = obs[r]]
    BY <2>2 DEF Shapes, Is
  <2>6. \A s \in Session : ~HeadOK(r, s)
    BY DEF HeadOK, Busy, Is
  <2>7. EndOK(r) => d.end \in {"none", r}
    BY <2>4 DEF EndOK
  <2>8. UNCHANGED <<job, from, queue, ended, stopping, prompts, lost, restarts, faults>>
    OBVIOUS
  <2> HIDE DEF Cancel
  <2> QED
    BY <2>2, <2>3, <2>4, <2>5, <2>6, <2>7, <2>8, Settles
<1>2. CASE ~Is(r, {"queued"})
  <2> USE <1>2
  <2>1. rec'[r] = [rec[r] EXCEPT !.status = "cancelling", !.asked = TRUE] /\ lane'[r] = "call"
        /\ rec[r].status = "running" /\ lock' = lock /\ lane' = [lane EXCEPT ![r] = "call"]
    BY DEF Shapes, Is
  <2>2. /\ rec'[r].status = "cancelling" /\ rec'[r].session = rec[r].session
        /\ rec'[r].end = rec[r].end /\ rec'[r].forced = rec[r].forced
        /\ rec'[r].asked /\ rec'[r].cursor = rec[r].cursor
    BY ONLY <2>1, OfRun, IInv, r \in Run DEF Record
  <2>3. Shapes' /\ Spares(r) /\ Keeps(r)
    <3>1. "cancelling" \in Status
      BY DEF Status
    <3>2. rec'[r] \in Record
      BY ONLY <2>1, <3>1, OfRun, IInv, r \in Run DEF Record
    <3>3. rec' \in [Run -> Record]
      BY <3>2 DEF Shapes
    <3> QED
      BY <2>1, <2>2, <3>3 DEF Shapes, Spares, Keeps
  <2>4. Fits(r)' /\ RunOK(r)' /\ ~MaySubmit(r)'
    <3>1. Fits(r)'
      <4>1. Seen(r)' = Seen(r)
        BY <2>2 DEF Seen, SessionOf
      <4> QED
        BY <2>1, <2>2, <4>1 DEF Fits, Is, Results
    <3>2. RunOK(r)' /\ ~MaySubmit(r)'
      BY <2>1, <2>2 DEF RunOK, MaySubmit, Is
    <3> QED
      BY <3>1, <3>2
  <2>5. lost' = {} => ExactOK(r)'
    BY <2>1, <2>2 DEF ExactOK, Owes, Busy, Is, Holds, SessionOf
  <2>6. \A s \in Session : HeadOK(r, s) => HeadOK(r, s)'
    BY <2>1, <2>2 DEF HeadOK, Busy, Is, SessionOf
  <2>7. EndOK(r) => EndOK(r)'
    <3>1. Seen(r)' = Seen(r) /\ Busy(r) /\ Busy(r)' /\ obs' = obs /\ job' = job
      BY <2>1, <2>2 DEF Seen, SessionOf, Busy, Is
    <3>2. /\ OwnFrom(r, rec[r].cursor)' <=> OwnFrom(r, rec[r].cursor)
          /\ OwnFrom(r, obs[r].after)' <=> OwnFrom(r, obs[r].after)
      BY ONLY <2>2, <3>1 DEF OwnFrom
    <3> QED
      BY <2>1, <2>2, <3>1, <3>2 DEF EndOK, Is
  <2>8. ended' = ended /\ queue' = queue /\ queue \in [Session -> Seq(Run)]
    BY DEF IInv, Safe, TypeOK
  <2> QED
    BY <2>1, <2>3, <2>4, <2>5, <2>6, <2>7, <2>8, OneRun
<1> QED
  BY <1>1, <1>2

LEMMA ForceUnlockStep == ASSUME NEW r \in Run, IInv, ForceUnlock(r) PROVE IInv'
<1> USE OfRun DEF ForceUnlock, runtime, bounds
<1>1. PICK st : st = CASE rec[r].status = "queued"      -> "cancelled"
                       [] rec[r].status = "interrupted" -> "interrupted"
                       [] OTHER                         -> "cancelling"
  OBVIOUS
<1>2. PICK d : d = [rec[r] EXCEPT !.status = st, !.asked = TRUE, !.forced = TRUE]
  OBVIOUS
<1>3. rec' = [rec EXCEPT ![r] = d]
  BY <1>1, <1>2 DEF Shapes, Record, Is
<1>4. st \in {"cancelled", "interrupted", "cancelling"} /\ rec[r] \in Record /\ st \in Status
      /\ (rec[r].status = "queued" => st = "cancelled")
  BY <1>1 DEF Status, Terminal, Results
<1>5. /\ d \in Record /\ d.status = st /\ d.end = rec[r].end
      /\ d.session = rec[r].session /\ d.forced = TRUE /\ d.asked = TRUE
  BY ONLY <1>2, <1>4 DEF Record
<1>6. obs' = [obs EXCEPT ![r] = obs[r]] /\ ~Is(r, {"none"}) /\ rec[r].end = "none"
  BY DEF Shapes, Is, Fits, Results
<1>7. job[r] \in {"cursor", "claim"} => d.status = "cancelled"
  BY <1>4, <1>5 DEF RunOK, Is
<1>8. UNCHANGED <<job, from, queue, ended, stopping, prompts, lost, restarts, faults>>
      /\ Release(r) /\ lane' = [lane EXCEPT ![r] = "call"]
  OBVIOUS
<1> HIDE DEF ForceUnlock
<1> QED
  BY <1>3, <1>4, <1>5, <1>6, <1>7, <1>8, Settles

LEMMA CallStep == ASSUME NEW r \in Run, IInv, Call(r) PROVE IInv'
<1> USE OfRun DEF Call
<1>1. lane'[r] = "free" /\ rec' = rec /\ job' = job /\ obs' = obs /\ lock' = lock
      /\ prompts' = prompts /\ ended' = ended /\ from' = from /\ lost' = lost
  BY DEF Shapes, bounds
<1>2. stopping' \in [Session -> Run \cup {"none"}]
  <2>1. SessionOf(r) \in Session
    BY DEF RunOK, Fits, SessionOf
  <2>2. queue[SessionOf(r)] # <<>> => Head(queue[SessionOf(r)]) \in Run
    BY <2>1, HeadTailProperties DEF IInv, Safe, TypeOK
  <2> QED
    BY <2>2 DEF Shapes
<1>3. Shapes' /\ Spares(r) /\ Keeps(r)
  BY <1>1, <1>2 DEF Shapes, Spares, Keeps, Record, bounds
<1>4. Fits(r)' /\ RunOK(r)' /\ (MaySubmit(r)' => Holds(r)')
  BY <1>1 DEF Fits, RunOK, MaySubmit, Holds, Is, Seen, SessionOf
<1>5. lost' = {} => ExactOK(r)'
  BY <1>1 DEF ExactOK, Owes, Busy, Holds, Is, SessionOf
<1>6. \A s \in Session : HeadOK(r, s) => HeadOK(r, s)'
  BY <1>1 DEF HeadOK, Busy, Is, SessionOf
<1>7. EndOK(r) => EndOK(r)'
  BY <1>1 DEF EndOK, OwnFrom, Busy, Is, Seen, SessionOf
<1>8. ended' = ended /\ queue' = queue /\ queue \in [Session -> Seq(Run)]
  BY DEF IInv, Safe, TypeOK
<1> QED
  BY <1>1, <1>3, <1>4, <1>5, <1>6, <1>7, <1>8, OneRun

-----------------------------------------------------------------------------
(* A command, a turn that ends, and a restart.                             *)

LEMMA StartStep == ASSUME NEW r \in Run, NEW s \in Session, IInv, Start(r, s) PROVE IInv'
<1> USE OfRun, Nobody DEF Start, runtime, bounds
<1> DEFINE n == Cardinality({q \in Run : ~Is(q, {"none"})}) + 1
<1>1. n \in Nat
  <2>1. IsFiniteSet({q \in Run : ~Is(q, {"none"})})
    BY RunAssumption, FS_Subset
  <2> QED
    BY <2>1, FS_CardinalityType
<1>2. PICK d : d = [rec[r] EXCEPT !.status = "queued", !.session = s, !.born = n]
  OBVIOUS
<1>3. rec' = [rec EXCEPT ![r] = d]
  BY <1>2 DEF Shapes, Record
<1>4. /\ d \in Record /\ d.status = "queued" /\ d.end = rec[r].end /\ d.session = s
      /\ d.forced = rec[r].forced /\ d.asked = rec[r].asked
  <2>1. "queued" \in Status /\ rec[r] \in Record
    BY DEF Status
  <2> QED
    BY ONLY <1>1, <1>2, <2>1, s \in Session DEF Record
<1>5. rec[r].end = "none" /\ ~rec[r].asked /\ ~rec[r].forced /\ rec[r].session = "none"
      /\ job[r] = "none" /\ obs[r].at = "off" /\ lane[r] # "call" /\ prompts[r] = 0
  BY DEF Fits, RunOK, Is, Results
<1>6. rec'[r] = d /\ job'[r] = "cursor" /\ lock'[s] = r /\ rec' \in [Run -> Record]
      /\ UNCHANGED <<from, lane, obs, queue, ended, stopping, prompts, lost, restarts, faults>>
  <2>1. rec'[r] = d /\ rec' \in [Run -> Record]
    BY ONLY <1>3, <1>4, OfRun, IInv, r \in Run DEF Shapes
  <2>2. job'[r] = "cursor" /\ lock'[s] = r
    BY DEF Shapes
  <2> QED
    BY <2>1, <2>2
<1>7. \A q \in Run \ {r} : rec'[q] = rec[q] /\ job'[q] = job[q]
  BY <1>3 DEF Shapes
<1>8. \A t \in Session \ {s} : lock'[t] = lock[t]
  BY DEF Shapes
<1>9. Fits(r)' /\ RunOK(r)'
  BY <1>4, <1>5, <1>6 DEF Fits, RunOK, Is
<1> HIDE DEF Start
<1>10. TypeOK'
  <2>1. Shapes'
    <3>1. lock' \in [Session -> Run \cup {"none"}]
          /\ job' \in [Run -> {"none", "cursor", "claim", "submit", "observe"}]
      BY DEF Shapes, Start
    <3> QED
      BY <1>6, <3>1 DEF Shapes, Start
  <2>2. ASSUME NEW q \in Run, q # r PROVE Fits(q)'
    BY <1>6, <1>7, <2>2 DEF Fits, Is, Seen, SessionOf
  <2>3. /\ queue' \in [Session -> Seq(Run)]
        /\ ended' \in [Session -> Seq([run : Run, how : Results])]
    BY <1>6 DEF IInv, Safe, TypeOK
  <2>4. \A q \in Run : Fits(q)'
    BY <1>9, <2>2
  <2> QED
    BY ONLY <2>1, <2>3, <2>4 DEF TypeOK, Shapes, Fits, Record
<1>11. RunInv'
  <2>1. ASSUME NEW q \in Run, q # r PROVE RunOK(q)'
    BY <1>6, <1>7, <2>1 DEF RunOK, Is
  <2> QED
    BY <1>9, <2>1 DEF RunInv
<1>12. \A q \in Run \ {r} : /\ SessionOf(q)' = SessionOf(q) /\ Busy(q)' = Busy(q)
                            /\ Owes(q)' = Owes(q) /\ MaySubmit(q)' = MaySubmit(q)
                            /\ Holds(q) /\ SessionOf(q) \in Session => Holds(q)'
  <2> SUFFICES ASSUME NEW q \in Run \ {r}
               PROVE  /\ SessionOf(q)' = SessionOf(q) /\ Busy(q)' = Busy(q)
                      /\ Owes(q)' = Owes(q) /\ MaySubmit(q)' = MaySubmit(q)
                      /\ Holds(q) /\ SessionOf(q) \in Session => Holds(q)'
    OBVIOUS
  <2>1. SessionOf(q)' = SessionOf(q) /\ Busy(q)' = Busy(q) /\ Owes(q)' = Owes(q)
        /\ MaySubmit(q)' = MaySubmit(q)
    BY <1>7 DEF SessionOf, Busy, Owes, MaySubmit, Is
  <2>2. Holds(q) /\ SessionOf(q) \in Session => Holds(q)'
    BY <1>8, <2>1 DEF Holds, Start
  <2> QED
    BY <2>1, <2>2
<1>13. LockInv'
  <2>1. ASSUME NEW t \in Session, lock'[t] # "none" PROVE rec'[lock'[t]].session = t
    <3>1. CASE t = s
      BY <1>4, <1>6, <3>1
    <3>2. CASE t # s
      <4>1. lock'[t] = lock[t] /\ lock[t] \in Run /\ rec[lock[t]].session = t
        BY <1>8, <2>1, <3>2 DEF IInv, Safe, LockInv, SessionOf, Shapes
      <4>2. lock[t] # r
        BY <1>5, <4>1
      <4> QED
        BY <1>7, <4>1, <4>2
    <3> QED
      BY <3>1, <3>2
  <2>2. ASSUME NEW q \in Run, MaySubmit(q)' PROVE Holds(q)'
    <3>1. CASE q = r
      BY <1>4, <1>6, <3>1 DEF Holds, SessionOf
    <3>2. CASE q # r
      BY <1>12, <2>2, <3>2 DEF MaySubmit, Fits, Is, SessionOf
    <3> QED
      BY <3>1, <3>2
  <2> QED
    BY <2>1, <2>2 DEF LockInv, SessionOf
<1>14. LocksAreExact'
  <2> SUFFICES ASSUME lost' = {}, NEW q \in Run PROVE ExactOK(q)'
    BY DEF LocksAreExact, ExactOK, Owes, Busy, Holds, Is, SessionOf
  <2>1. CASE q = r
    <3>1. Owes(r)'
      BY <1>4, <1>6 DEF Owes, Is
    <3>2. Holds(r)'
      BY <1>4, <1>6 DEF Holds, SessionOf
    <3> QED
      BY <2>1, <3>1, <3>2 DEF ExactOK
  <2>2. CASE q # r
    <3>1. ExactOK(q)
      BY <1>6
    <3>2. CASE Owes(q)
      <4>1. SessionOf(q) \in Session
        BY <3>2 DEF Owes, Busy, Is, Fits, SessionOf
      <4> QED
        BY <1>12, <2>2, <3>1, <3>2, <4>1 DEF ExactOK
    <3>3. CASE ~Owes(q)
      BY <1>6, <1>8, <1>12, <2>2, <3>1, <3>3 DEF ExactOK
    <3> QED
      BY <3>2, <3>3
  <2> QED
    BY <2>1, <2>2
<1>15. ASSUME NEW t \in Session, Unforced(t)' PROVE Unforced(t)
  BY <1>5, <1>7, <1>15 DEF Unforced, SessionOf
<1>16. TurnInv'
  <2> SUFFICES ASSUME lost' = {}, NEW t \in Session, Unforced(t)' PROVE TurnOK(t)'
    BY DEF TurnInv
  <2>1. TurnOK(t)
    BY <1>6, <1>15 DEF IInv, TurnInv
  <2>2. ASSUME NEW q \in Run, HeadOK(q, t) PROVE HeadOK(q, t)'
    <3>1. q # r
      BY <2>2 DEF HeadOK, Busy, Is, Start
    <3> QED
      BY <1>6, <1>7, <1>12, <2>2, <3>1 DEF HeadOK
  <2>3. queue[t] # <<>> => Head(queue[t]) \in Run
    BY HeadTailProperties DEF IInv, Safe, TypeOK
  <2> QED
    BY <1>6, <2>1, <2>2, <2>3 DEF TurnOK
<1>17. EndInv'
  <2> SUFFICES ASSUME lost' = {}, NEW q \in Run, SessionOf(q)' \in Session,
                      Unforced(SessionOf(q))'
               PROVE  EndOK(q)'
    BY DEF EndInv
  <2>1. CASE q = r
    BY <1>4, <1>5, <1>6, <2>1 DEF EndOK, Busy, Is
  <2>2. CASE q # r
    <3>1. PICK t : t = SessionOf(q) /\ t \in Session
      BY <1>12, <2>2
    <3>2. Unforced(t)'
      BY <1>12, <2>2, <3>1 DEF Unforced
    <3>3. EndOK(q)
      BY <1>6, <1>15, <3>1, <3>2
    <3> QED
      BY <1>6, <1>7, <1>12, <2>2, <3>3 DEF EndOK, OwnFrom, Seen, Is
  <2> QED
    BY <2>1, <2>2
<1> QED
  BY <1>10, <1>11, <1>13, <1>14, <1>16, <1>17 DEF IInv, Safe

LEMMA EndTurnStep == ASSUME NEW s \in Session, IInv, EndTurn(s) PROVE IInv'
<1> USE OfRun DEF EndTurn, memory, bounds
<1>1. UNCHANGED <<rec, lock, job, from, lane, obs, prompts, lost, restarts, faults>>
  OBVIOUS
<1>2. PICK h \in Run : h = Head(queue[s])
  BY HeadTailProperties DEF IInv, Safe, TypeOK
<1>3. PICK how \in Results : ended' = [ended EXCEPT ![s] = Append(@, [run |-> h, how |-> how])]
  BY <1>2 DEF Results
<1>4. /\ queue' = [queue EXCEPT ![s] = Tail(@)]
      /\ stopping' = [stopping EXCEPT ![s] = IF @ = Head(queue[s]) THEN "none" ELSE @]
  OBVIOUS
<1>5. queue[s] # <<>> /\ queue[s] \in Seq(Run) /\ ended[s] \in Seq([run : Run, how : Results])
      /\ Shapes /\ \A q \in Run : Fits(q)
  BY DEF IInv, Safe, TypeOK
<1>6. /\ ended'[s] = Append(ended[s], [run |-> h, how |-> how])
      /\ Len(ended[s]) \in Nat /\ Len(ended'[s]) = Len(ended[s]) + 1
      /\ ended'[s][Len(ended[s]) + 1].run = h
      /\ \A i \in 1..Len(ended[s]) : ended'[s][i] = ended[s][i]
      /\ \A t \in Session \ {s} : ended'[t] = ended[t] /\ queue'[t] = queue[t]
  <2>1. PICK x \in [run : Run, how : Results] : x = [run |-> h, how |-> how]
    OBVIOUS
  <2>2. ended'[s] = Append(ended[s], x)
    BY <1>3, <2>1 DEF IInv, Safe, TypeOK
  <2>3. /\ Len(ended[s]) \in Nat /\ Len(ended'[s]) = Len(ended[s]) + 1
        /\ ended'[s][Len(ended[s]) + 1] = x
        /\ \A i \in 1..Len(ended[s]) : ended'[s][i] = ended[s][i]
    BY ONLY <2>2, <1>5, x \in [run : Run, how : Results], AppendProperties, LenProperties
  <2>4. \A t \in Session \ {s} : ended'[t] = ended[t] /\ queue'[t] = queue[t]
    BY <1>3, <1>4 DEF IInv, Safe, TypeOK
  <2> QED
    BY <2>1, <2>2, <2>3, <2>4
<1> HIDE DEF EndTurn
<1>7. TypeOK'
  <2>1. queue' \in [Session -> Seq(Run)]
    <3>1. Tail(queue[s]) \in Seq(Run)
      BY <1>5, HeadTailProperties
    <3> QED
      BY <1>4, <3>1 DEF IInv, Safe, TypeOK
  <2>2. ended' \in [Session -> Seq([run : Run, how : Results])]
    <3>1. Append(ended[s], [run |-> h, how |-> how]) \in Seq([run : Run, how : Results])
      BY <1>5
    <3> QED
      BY <1>3, <3>1 DEF IInv, Safe, TypeOK
  <2>3. Shapes'
    <3>1. stopping' \in [Session -> Run \cup {"none"}]
      BY <1>4, <1>5 DEF Shapes
    <3> QED
      BY <1>1, <1>5, <3>1 DEF Shapes, Record
  <2>4. ASSUME NEW q \in Run PROVE Fits(q)'
    <3>1. obs[q].at = "apply" => Len(Seen(q))' > obs[q].after
      <4>1. CASE SessionOf(q) = s
        <5>1. obs[q].at = "apply" => Len(ended[s]) > obs[q].after
          BY <4>1 DEF Fits, Seen
        <5>2. SessionOf(q)' = s /\ obs' = obs /\ obs[q].after \in Nat
          BY <1>1, <1>5, <4>1 DEF SessionOf, Shapes
        <5> QED
          BY <1>6, <5>1, <5>2 DEF Seen
      <4>2. CASE SessionOf(q) # s
        BY <1>1, <1>5, <1>6, <4>2 DEF Fits, Seen, SessionOf, Is
      <4> QED
        BY <4>1, <4>2
    <3> QED
      BY <1>1, <1>5, <3>1 DEF Fits, Is
  <2> QED
    BY ONLY <2>1, <2>2, <2>3, <2>4 DEF TypeOK, Shapes, Fits, Record
<1>8. RunInv'
  BY <1>1 DEF IInv, Safe, RunInv, RunOK, Is
<1>9. LockInv' /\ LocksAreExact'
  BY <1>1 DEF IInv, Safe, LockInv, LocksAreExact, MaySubmit, Holds, Is, SessionOf
<1>10. \A t \in Session : Unforced(t)' => Unforced(t)
  BY <1>1 DEF Unforced, SessionOf
<1>11. TurnInv'
  <2> SUFFICES ASSUME lost = {}, NEW t \in Session, Unforced(t) PROVE TurnOK(t)'
    BY <1>1, <1>10 DEF TurnInv
  <2>1. TurnOK(t)
    BY DEF IInv, TurnInv
  <2>2. CASE t = s
    <3>1. queue'[s] = <<>>
      BY <1>4, <1>5, <2>1, <2>2 DEF TurnOK, IInv, Safe, TypeOK
    <3> QED
      BY <2>2, <3>1 DEF TurnOK
  <2>3. CASE t # s
    <3>1. queue'[t] = queue[t] /\ ended'[t] = ended[t]
      BY <1>6, <2>3
    <3> QED
      BY <1>1, <2>1, <3>1 DEF TurnOK, HeadOK, Busy, Is, SessionOf
  <2> QED
    BY <2>2, <2>3
<1>12. EndInv'
  <2> SUFFICES ASSUME lost = {}, NEW q \in Run, SessionOf(q) \in Session, Unforced(SessionOf(q))
               PROVE  EndOK(q)'
    BY <1>1 DEF EndInv, SessionOf, Unforced
  <2>1. EndOK(q)
    BY DEF IInv, EndInv
  <2>2. CASE SessionOf(q) # s
    <3>1. Seen(q)' = Seen(q)
      BY <1>1, <1>6, <2>2 DEF Seen, SessionOf
    <3> QED
      BY <1>1, <2>1, <3>1 DEF EndOK, OwnFrom, Busy, Is
  <2>3. CASE SessionOf(q) = s
    <3>1. TurnOK(s)
      BY <2>3 DEF IInv, TurnInv
    <3>2. HeadOK(h, s)
      BY <1>2, <1>5, <3>1 DEF TurnOK
    <3>3. lock[s] = h
      <4>1. Owes(h) /\ SessionOf(h) = s
        BY <2>3, <3>2 DEF HeadOK, Owes, Unforced
      <4> QED
        BY <4>1 DEF ExactOK, Holds
    <3>4. q # h => ~Busy(q) /\ ~MaySubmit(q)
      BY <2>3, <3>3 DEF ExactOK, Owes, Unforced, Holds
    <3>5. Seen(q)' = ended'[s] /\ Seen(q) = ended[s]
      BY <1>1, <2>3 DEF Seen, SessionOf
    <3>6. CASE q = h
      <4>1. job[h] \in {"none", "observe"}
        BY <3>2 DEF HeadOK, RunOK
      <4>2. ASSUME NEW c \in Nat, OwnFrom(h, c) PROVE OwnFrom(h, c)'
        BY <1>6, <3>5, <3>6, <4>2 DEF OwnFrom
      <4>3. rec[h].cursor \in Nat /\ obs[h].after \in Nat
        BY <1>5 DEF Shapes, Record
      <4>4. rec' = rec /\ obs' = obs /\ job' = job /\ Busy(h)' = Busy(h)
        BY <1>1 DEF Busy, Is
      <4>5. /\ OwnFrom(h, rec[h].cursor) => OwnFrom(h, rec[h].cursor)'
            /\ OwnFrom(h, obs[h].after) => OwnFrom(h, obs[h].after)'
        BY <4>2, <4>3, <4>4
      <4> QED
        BY <2>1, <3>6, <4>1, <4>4, <4>5 DEF EndOK
    <3>7. CASE q # h
      <4>1. ~Busy(q) /\ ~(job[q] = "claim" /\ Is(q, {"queued"}))
        BY <3>4, <3>7 DEF MaySubmit, Is
      <4> QED
        BY <1>1, <2>1, <4>1 DEF EndOK, Busy, Is
    <3> QED
      BY <3>6, <3>7
  <2> QED
    BY <2>2, <2>3
<1> QED
  BY <1>7, <1>8, <1>9, <1>11, <1>12 DEF IInv, Safe

LEMMA RestartStep == ASSUME IInv, Restart PROVE IInv'
<1> USE OfRun DEF Restart
<1>1. /\ UNCHANGED <<rec, from, ended, prompts, lost, faults>>
      /\ obs' = [r \in Run |-> IF Is(r, {"running", "cancelling"})
                                 THEN [at |-> "poll", after |-> rec[r].cursor] ELSE Off]
      /\ job' = [r \in Run |-> "none"] /\ lane' = [r \in Run |-> "free"]
      /\ restarts' \in 0..MaxRestarts
      /\ lock' \in [Session -> Run \cup {"none"}]
  BY Bounds DEF Relock, IInv, Safe, TypeOK
<1>2. \A s \in Session : (Held(s) = {} /\ lock'[s] = "none") \/ lock'[s] \in Held(s)
  BY DEF Relock
<1>3. /\ queue' \in [Session -> Seq(Run)] /\ stopping' \in [Session -> Run \cup {"none"}]
      /\ \A s \in Session : queue'[s] = queue[s] \/ queue'[s] = <<>>
  <2>1. queue \in [Session -> Seq(Run)] /\ stopping \in [Session -> Run \cup {"none"}]
    BY DEF IInv, Safe, TypeOK
  <2>2. <<>> \in Seq(Run)
    OBVIOUS
  <2>3. CASE UNCHANGED <<queue, stopping>>
    BY <2>1, <2>3
  <2>4. CASE queue' = [s \in Session |-> <<>>] /\ stopping' = [s \in Session |-> "none"]
    BY ONLY <2>2, <2>4
  <2> QED
    BY <2>3, <2>4
<1>4. /\ rec \in [Run -> Record] /\ from \in [Run -> Nat] /\ prompts \in [Run -> Nat]
      /\ lost \subseteq Run /\ faults \in 0..MaxFaults
      /\ ended \in [Session -> Seq([run : Run, how : Results])]
  BY TypeIs DEF IInv, Safe, TypeOK
<1>5. \A r \in Run : rec[r].cursor \in Nat
  BY <1>4 DEF Record
<1> HIDE DEF Restart
<1>6. TypeOK'
  <2>1. obs' \in [Run -> [at : {"off", "poll", "apply"}, after : Nat]]
    BY <1>1, <1>5 DEF Off
  <2>2. Shapes'
    BY <1>1, <1>3, <1>4, <2>1 DEF Shapes, Record
  <2>3. ASSUME NEW r \in Run PROVE Fits(r)'
    <3>1. Fits(r) /\ job'[r] = "none" /\ obs'[r].at # "apply"
          /\ (obs'[r].at # "off" => Is(r, {"running", "cancelling"}))
      BY <1>1 DEF Off
    <3> QED
      BY <1>1, <3>1 DEF Fits, Is
  <2> QED
    BY ONLY <1>1, <1>3, <1>4, <2>2, <2>3 DEF TypeOK, Shapes, Fits, Record
<1>7. RunInv'
  BY <1>1 DEF IInv, Safe, RunInv, RunOK, Is
<1>8. LockInv'
  BY <1>1, <1>2, Nobody DEF LockInv, Held, MaySubmit, SessionOf
<1>9. LocksAreExact'
  <2> SUFFICES ASSUME lost = {}, NEW r \in Run PROVE ExactOK(r)'
    BY <1>1 DEF LocksAreExact, ExactOK, Owes, Busy, Holds, Is, SessionOf
  <2>1. Owes(r)' <=> Busy(r) /\ ~rec[r].forced
    BY <1>1 DEF Owes, Busy, Is
  <2>2. ASSUME NEW s \in Session, NEW q \in Held(s) PROVE Owes(q) /\ lock[s] = q
    <3>1. q \in Run /\ SessionOf(q) = s /\ Busy(q) /\ ~rec[q].forced
      BY <2>2 DEF Held, Busy
    <3> QED
      BY <3>1 DEF Owes, ExactOK, Holds
  <2>3. CASE Owes(r)'
    <3>1. PICK s \in Session : s = SessionOf(r) /\ s = SessionOf(r)'
      BY <1>1, <2>1, <2>3 DEF Fits, Busy, Is, SessionOf
    <3>2. r \in Held(s)
      BY <2>1, <2>3, <3>1 DEF Held, Busy
    <3>3. lock'[s] = r
      BY <1>2, <2>2, <3>2
    <3> QED
      BY <2>3, <3>1, <3>3 DEF ExactOK, Holds
  <2>4. CASE ~Owes(r)'
    <3>1. \A s \in Session : r \notin Held(s)
      BY <2>1, <2>4 DEF Held, Busy
    <3>2. \A s \in Session : lock'[s] # r
      BY <1>2, <3>1, Nobody
    <3> QED
      BY <2>4, <3>2 DEF ExactOK
  <2> QED
    BY <2>3, <2>4
<1>10. TurnInv'
  <2> SUFFICES ASSUME lost = {}, NEW s \in Session, Unforced(s) PROVE TurnOK(s)'
    BY <1>1 DEF TurnInv, Unforced, SessionOf
  <2>1. TurnOK(s)
    BY DEF IInv, TurnInv
  <2>2. CASE queue'[s] = <<>>
    BY <2>2 DEF TurnOK
  <2>3. CASE queue'[s] = queue[s] /\ queue[s] # <<>>
    <3>1. PICK q \in Run : q = Head(queue[s])
      BY <2>3, HeadTailProperties DEF IInv, Safe, TypeOK
    <3>2. HeadOK(q, s)
      BY <2>1, <2>3, <3>1 DEF TurnOK
    <3>3. HeadOK(q, s)'
      BY <1>1, <3>2 DEF HeadOK, Busy, Is, SessionOf, Off
    <3> QED
      BY <2>1, <2>3, <3>1, <3>3 DEF TurnOK
  <2> QED
    BY <1>3, <2>2, <2>3
<1>11. EndInv'
  <2> SUFFICES ASSUME lost = {}, NEW r \in Run, SessionOf(r) \in Session, Unforced(SessionOf(r))
               PROVE  EndOK(r)'
    BY <1>1 DEF EndInv, SessionOf, Unforced
  <2>1. EndOK(r)
    BY DEF IInv, EndInv
  <2>2. Seen(r)' = Seen(r) /\ rec' = rec /\ job'[r] = "none" /\ Busy(r)' = Busy(r)
    BY <1>1 DEF Seen, SessionOf, Busy, Is
  <2>3. OwnFrom(r, rec[r].cursor)' <=> OwnFrom(r, rec[r].cursor)
    BY ONLY <2>2 DEF OwnFrom
  <2>4. obs'[r].at # "off" => obs'[r].after = rec[r].cursor
    BY <1>1 DEF Off
  <2>5. obs'[r].at # "off" /\ OwnFrom(r, rec[r].cursor) => OwnFrom(r, obs[r].after)'
    BY ONLY <2>2, <2>4 DEF OwnFrom
  <2> QED
    BY <2>1, <2>2, <2>3, <2>5 DEF EndOK
<1> QED
  BY <1>6, <1>7, <1>8, <1>9, <1>10, <1>11 DEF IInv, Safe

LEMMA Stuttering == ASSUME IInv, UNCHANGED vars PROVE IInv'
<1> USE DEF vars, memory, runtime, bounds
<1>1. TypeOK'
  BY DEF IInv, Safe, TypeOK, Is, Seen, SessionOf
<1>2. RunInv' /\ LockInv' /\ LocksAreExact'
  BY DEF IInv, Safe, RunInv, RunOK, LockInv, LocksAreExact, MaySubmit, Holds, Is, SessionOf
<1>3. TurnInv'
  BY DEF IInv, TurnInv, TurnOK, HeadOK, Unforced, Busy, Is, SessionOf
<1>4. EndInv'
  BY DEF IInv, EndInv, EndOK, OwnFrom, Unforced, Busy, Is, Seen, SessionOf
<1> QED
  BY <1>1, <1>2, <1>3, <1>4 DEF IInv, Safe

LEMMA Steps == ASSUME IInv, [Next]_vars PROVE IInv'
<1>1. ASSUME NEW r \in Run, Dispatch(r) PROVE IInv'
  BY <1>1, ReadCursorStep, ClaimStep, SubmitStep, ObserveStep DEF Dispatch
<1>2. ASSUME NEW r \in Run, Poll(r) \/ Apply(r) \/ StopObserving(r) PROVE IInv'
  BY <1>2, PollStep, ApplyStep, StopObservingStep
<1>3. ASSUME NEW r \in Run, Cancel(r) \/ ForceUnlock(r) \/ Call(r) PROVE IInv'
  BY <1>3, CancelStep, ForceUnlockStep, CallStep
<1> QED
  BY <1>1, <1>2, <1>3, StartStep, EndTurnStep, RestartStep, Stuttering DEF Next

-----------------------------------------------------------------------------
(* The theorems.                                                           *)

\* The strengthened invariant holds of every state of every run.
THEOREM Invariance == Spec => []IInv
<1>1. Init => IInv
  BY Initially
<1>2. IInv /\ [Next]_vars => IInv'
  BY Steps
<1> QED
  BY <1>1, <1>2, PTL DEF Spec

\* Records, locks, cursors and observers keep their types, whoever runs first.
THEOREM TypeCorrect == Spec => []TypeOK
  BY Invariance, PTL DEF IInv, Safe

\* The prompt of a run is submitted at most once, over restarts and lost answers.
THEOREM PromptsOnce == Spec => []PromptedOnce
<1>1. IInv => PromptedOnce
  <2> SUFFICES ASSUME IInv, NEW r \in Run PROVE prompts[r] <= 1
    BY DEF PromptedOnce
  <2> QED
    BY OfRun DEF RunOK, Shapes
<1> QED
  BY <1>1, Invariance, PTL

\* No lock outlives its run and none is given up early.
THEOREM ExactLocks == Spec => []LocksAreExact
  BY Invariance, PTL DEF IInv, Safe

\* Two turns wait in one session only behind a forced unlock.
THEOREM TurnsAlone == Spec => []AloneInSession
<1>1. IInv => AloneInSession
  BY DEF IInv, TurnInv, TurnOK, AloneInSession
<1> QED
  BY <1>1, Invariance, PTL

\* A run takes the end of another run's turn only behind a forced unlock.
THEOREM OwnAnswers == Spec => []OwnEnd
<1>1. IInv => OwnEnd
  <2> SUFFICES ASSUME IInv, lost = {}, NEW r \in Run, Unforced(SessionOf(r))
               PROVE  rec[r].end \in {"none", r}
    BY DEF OwnEnd
  <2>1. CASE SessionOf(r) \in Session
    BY <2>1, OfRun DEF EndOK
  <2>2. CASE SessionOf(r) \notin Session
    BY <2>2, OfRun DEF Fits, Is, SessionOf, Results
  <2> QED
    BY <2>1, <2>2
<1> QED
  BY <1>1, Invariance, PTL

\* A prompt goes out only for a running run that holds its session and that
\* nobody has asked to stop.
THEOREM SubmitsWanted == Spec => SubmitsAreWanted
<1>1. ASSUME IInv, [Next]_vars, NEW r \in Run, prompts'[r] # prompts[r]
      PROVE  ~rec[r].asked /\ Is(r, {"running"}) /\ lock[SessionOf(r)] = r
  <2>1. PICK q \in Run : Submit(q) /\ Is(q, {"running"}) /\ prompts' = [prompts EXCEPT ![q] = @ + 1]
    <3>1. CASE UNCHANGED vars
      BY <1>1, <3>1 DEF vars
    <3>2. CASE Restart
      BY <1>1, <3>2 DEF Restart
    <3>3. CASE \E s \in Session : EndTurn(s)
      BY <1>1, <3>3 DEF EndTurn
    <3>4. CASE \E q \in Run, s \in Session : Start(q, s)
      BY <1>1, <3>4 DEF Start
    <3>5. CASE \E q \in Run : Poll(q) \/ Apply(q) \/ StopObserving(q)
      BY <1>1, <3>5 DEF Poll, Apply, StopObserving
    <3>6. CASE \E q \in Run : Cancel(q) \/ ForceUnlock(q) \/ Call(q)
      BY <1>1, <3>6 DEF Cancel, ForceUnlock, Call
    <3>7. CASE \E q \in Run : ReadCursor(q) \/ Claim(q) \/ Observe(q)
      BY <1>1, <3>7 DEF ReadCursor, Claim, Observe
    <3>8. CASE \E q \in Run : Submit(q)
      BY <1>1, <3>8 DEF Submit
    <3> QED
      BY <1>1, <3>1, <3>2, <3>3, <3>4, <3>5, <3>6, <3>7, <3>8 DEF Next, Dispatch
  <2>2. q = r
    BY <1>1, <2>1, OfRun DEF Shapes
  <2>3. RunOK(r) /\ (MaySubmit(r) => Holds(r)) /\ rec[r] \in Record
    BY <1>1, OfRun
  <2> QED
    BY <2>1, <2>2, <2>3 DEF RunOK, MaySubmit, Holds, Submit, Is, Record
<1>2. IInv /\ [Next]_vars =>
        [\A r \in Run : prompts'[r] # prompts[r] =>
           ~rec[r].asked /\ Is(r, {"running"}) /\ lock[SessionOf(r)] = r]_vars
  BY <1>1
<1> QED
  BY <1>2, Invariance, PTL DEF Spec, SubmitsAreWanted

Advances(r) == \/ rec'[r].status = rec[r].status
               \/ Is(r, {"none"})       /\ rec'[r].status = "queued"
               \/ Is(r, {"queued"})     /\ rec'[r].status \in {"running", "failed", "cancelled"}
               \/ Is(r, {"running"})    /\ rec'[r].status \in Terminal \cup {"cancelling"}
               \/ Is(r, {"cancelling"}) /\ rec'[r].status \in Results

\* No late answer takes a status back.
THEOREM StatusesMove == Spec => StatusMoves
<1> USE OfRun DEF Is, Shapes, Terminal, Results
<1>1. ASSUME IInv, NEW r \in Run, Fail(r), job[r] \in {"cursor", "submit"},
             Is(r, {"queued", "running", "cancelled"}), NEW q \in Run
      PROVE  Advances(q)
  BY <1>1 DEF Fail, Advances, Record
<1>2. ASSUME IInv, NEW r \in Run, ObserverStop(r), NEW q \in Run PROVE Advances(q)
  BY <1>2 DEF ObserverStop, Advances, Record
<1>3. ASSUME IInv, NEW r \in Run, Dispatch(r), NEW q \in Run PROVE Advances(q)
  <2>1. CASE ReadCursor(r)
    <3>1. Is(r, {"queued", "cancelled"})
      BY <1>3, <2>1 DEF ReadCursor, RunOK
    <3> QED
      BY <1>1, <1>3, <2>1, <3>1 DEF ReadCursor, Advances
  <2>2. CASE Claim(r)
    BY <1>3, <2>2 DEF Claim, Advances, Record
  <2>3. CASE Submit(r)
    BY <1>1, <1>2, <1>3, <2>3 DEF Submit, Advances
  <2>4. CASE Observe(r)
    BY <1>3, <2>4 DEF Observe, Advances
  <2> QED
    BY <1>3, <2>1, <2>2, <2>3, <2>4 DEF Dispatch
<1>4. ASSUME IInv, NEW r \in Run, Poll(r), NEW q \in Run PROVE Advances(q)
  <2>1. CASE rec' = [rec EXCEPT ![r].cursor = IF Is(r, Terminal) THEN @ ELSE Len(Seen(r))]
    <3>1. PICK c : rec' = [rec EXCEPT ![r].cursor = c]
      BY <2>1
    <3>2. rec'[q].status = rec[q].status
      BY <1>4, <3>1 DEF Record
    <3> QED
      BY <3>2 DEF Advances
  <2>2. CASE rec' = [rec EXCEPT ![r].status = IF @ = "running" THEN "interrupted" ELSE @]
    BY <1>4, <2>2 DEF Advances, Record
  <2> QED
    BY <1>4, <2>1, <2>2 DEF Poll
<1>5. ASSUME IInv, NEW r \in Run, Apply(r), NEW q \in Run PROVE Advances(q)
  <2>1. ~Is(r, {"none", "queued"})
    BY <1>5 DEF Apply, Fits
  <2>2. CASE UNCHANGED rec
    BY <2>2 DEF Advances
  <2>3. CASE rec' = [rec EXCEPT ![r].status = IF @ = "running" THEN "interrupted" ELSE @]
    BY <1>5, <2>1, <2>3 DEF Advances, Record
  <2>4. CASE ~Is(r, Terminal) /\ \E h \in Results, e \in Run :
               rec' = [rec EXCEPT ![r].status = h, ![r].end = e]
    <3>1. PICK h \in Results : rec'[r].status = h /\ \A p \in Run \ {r} : rec'[p] = rec[p]
      BY <1>5, <2>4 DEF Record
    <3>2. rec[r].status \in {"running", "cancelling"}
      BY <1>5, <2>1, <2>4 DEF Record, Status
    <3> QED
      BY <3>1, <3>2 DEF Advances
  <2>5. Seen(r)[obs[r].after + 1] \in [run : Run, how : Results]
    <3>1. SessionOf(r) \in Session /\ Len(Seen(r)) > obs[r].after /\ obs[r].after \in Nat
      BY <1>5 DEF Apply, Fits, SessionOf
    <3>2. Seen(r) \in Seq([run : Run, how : Results])
      BY <1>5, <3>1 DEF Seen, IInv, Safe, TypeOK
    <3>3. obs[r].after + 1 \in 1..Len(Seen(r))
      BY ONLY <3>1, <3>2, LenProperties
    <3> QED
      BY ONLY <3>2, <3>3, ElementOfSeq
  <2> QED
    BY <1>5, <2>2, <2>3, <2>4, <2>5 DEF Apply
<1>6. ASSUME IInv, NEW r \in Run, StopObserving(r), NEW q \in Run PROVE Advances(q)
  BY <1>2, <1>6 DEF StopObserving
<1>7. ASSUME IInv, NEW r \in Run, Cancel(r) \/ ForceUnlock(r), NEW q \in Run PROVE Advances(q)
  <2>1. CASE Cancel(r)
    BY <1>7, <2>1 DEF Cancel, Advances, Record
  <2>2. CASE ForceUnlock(r)
    BY <1>7, <2>2 DEF ForceUnlock, Advances, Record
  <2> QED
    BY <1>7, <2>1, <2>2
<1>8. ASSUME IInv, NEW r \in Run, NEW s \in Session, Start(r, s), NEW q \in Run PROVE Advances(q)
  BY <1>8 DEF Start, Advances, Record
<1>9. ASSUME UNCHANGED rec, NEW q \in Run PROVE Advances(q)
  BY <1>9 DEF Advances
<1>10. ASSUME IInv, [Next]_vars, NEW q \in Run PROVE Advances(q)
  <2>1. CASE UNCHANGED vars
    BY <1>9, <2>1 DEF vars
  <2>2. CASE Restart \/ \E s \in Session : EndTurn(s)
    BY <1>9, <2>2 DEF Restart, EndTurn
  <2>3. CASE \E r \in Run : Call(r)
    BY <1>9, <2>3 DEF Call
  <2> QED
    BY <1>3, <1>4, <1>5, <1>6, <1>7, <1>8, <1>10, <2>1, <2>2, <2>3 DEF Next
<1>11. IInv /\ [Next]_vars => [\A r \in Run : Advances(r)]_vars
  BY <1>10
<1> QED
  BY <1>11, Invariance, PTL DEF Spec, StatusMoves, Advances
=============================================================================
