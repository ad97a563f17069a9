--------------------------- MODULE WorkDuty_proofs ---------------------------
(***************************************************************************)
(* What WorkDuty promises for every schedule and every bound: the types,   *)
(* the claims and their one catch-up, the single request and its result.   *)
(* Only NextOccurrence needs arithmetic; it is dealt with first.           *)
(***************************************************************************)
EXTENDS WorkDuty, TLAPS

LEMMA Bounds == /\ MaxEdits \in Nat /\ MaxSwitches \in Nat
                /\ MaxRestarts \in Nat /\ MaxFaults \in Nat
  BY BoundsAssumption

LEMMA Schedule == First \in Nat /\ Every \in Nat \ {0} /\ MaxTime \in Nat
  BY ScheduleAssumption

LEMMA Multiple ==
  ASSUME NEW a \in Nat, NEW k \in Nat, NEW b \in Nat \ {0}, a = k * b
  PROVE  a % b = 0
  BY SMT

\* The next slot is one of the schedule and lies after now.
LEMMA NextSlotIsLater ==
  ASSUME NEW o \in Nat, NEW now \in Nat, First <= o, (o - First) % Every = 0,
         o <= now
  PROVE  LET n == NextOccurrence(o, now)
         IN  n \in Nat /\ now < n /\ (n - First) % Every = 0
<1> DEFINE q == (now - o) \div Every
           p == (o - First) \div Every
           n == o + (q + 1) * Every
<1>1. q \in Nat /\ (now - o) % Every < Every
        /\ now - o = Every * q + ((now - o) % Every)
  BY Schedule, SMT
<1>2. p \in Nat /\ o - First = p * Every
  BY Schedule, SMT
<1>3. (q + 1) * Every = Every * q + Every
  BY <1>1, Schedule, SMT
<1>4. n \in Nat
  BY <1>1, Schedule, SMT
<1>5. now < n
  <2>1. n = o + Every * q + Every
    BY <1>1, <1>3, Schedule, SMT
  <2>2. Every * q \in Nat /\ (now - o) % Every \in Nat
    BY <1>1, Schedule, SMT
  <2> QED
    BY <1>1, <2>1, <2>2, Schedule, SMT
<1>6. (n - First) % Every = 0
  <2>1. n - First = p * Every + (q + 1) * Every
    BY <1>1, <1>2, <1>4, Schedule, SMT
  <2>2. p * Every + (q + 1) * Every = (p + q + 1) * Every
    BY <1>1, <1>2, Schedule, SMT
  <2>3. n - First \in Nat /\ p + q + 1 \in Nat /\ n - First = (p + q + 1) * Every
    BY <1>1, <1>2, <1>4, <1>5, <2>1, <2>2, Schedule
  <2> HIDE DEF n, p, q
  <2> QED
    BY <2>3, Schedule, Multiple
<1> QED
  BY <1>4, <1>5, <1>6 DEF NextOccurrence

-----------------------------------------------------------------------------
\* The two ways a schedule changes: a claim moves it on, a person pauses it.
Duty == [next : Nat, paused : BOOLEAN, rev : Nat]

LEMMA MovedOn ==
  ASSUME NEW d \in Duty, NEW n \in Nat
  PROVE  LET e == [d EXCEPT !.next = n, !.rev = @ + 1] IN e \in Duty /\ e.next = n
<1>1. PICK m \in Nat : m = d.rev + 1
  BY DEF Duty
<1> QED
  BY <1>1 DEF Duty

LEMMA PauseSet ==
  ASSUME NEW d \in Duty, NEW b \in BOOLEAN
  PROVE  LET e == [d EXCEPT !.paused = b, !.rev = @ + 1]
         IN  e \in Duty /\ e.next = d.next
<1>1. PICK m \in Nat : m = d.rev + 1
  BY DEF Duty
<1> QED
  BY <1>1 DEF Duty

\* A call that reports a submission was accepted.
ReportsAreTrue == at = "submitted" => snap.next \in started

IInv == /\ TypeOK /\ ClaimsAreDue /\ CatchUpOnce /\ ExecutedOnce /\ ResultsAreTrue
        /\ ReportsAreTrue

LEMMA Initially == Init => IInv
<1> SUFFICES ASSUME Init PROVE IInv
  OBVIOUS
<1> USE Bounds, Schedule DEF Init, Time, Never
<1>1. TypeOK
  BY DEF TypeOK
<1>2. ClaimsAreDue /\ CatchUpOnce /\ ExecutedOnce /\ ResultsAreTrue /\ ReportsAreTrue
  BY DEF ClaimsAreDue, CatchUpOnce, ExecutedOnce, ResultsAreTrue, ReportsAreTrue, Claimed
<1> QED
  BY <1>1, <1>2 DEF IInv

\* What holds of the duty, its claims, requests and results holds as long as none
\* of them moves.
LEMMA Unmoved ==
  ASSUME IInv, TypeOK', ReportsAreTrue',
         UNCHANGED <<duty.next, claims, result, started, asks>>
  PROVE  IInv'
  BY DEF IInv, ClaimsAreDue, CatchUpOnce, ExecutedOnce, ResultsAreTrue, Claimed

LEMMA ClaimStep == IInv /\ Claim => IInv'
<1> SUFFICES ASSUME IInv, Claim PROVE IInv'
  OBVIOUS
<1> USE DEF IInv
<1>1. CASE at' = "idle" /\ UNCHANGED <<duty, claims>> /\ (Fault \/ UNCHANGED faults)
  <2>1. TypeOK'
    BY <1>1, Bounds DEF Claim, items, TypeOK, Fault
  <2> QED
    BY <1>1, <2>1, Unmoved DEF Claim, items, ReportsAreTrue
<1>2. CASE /\ snap.next = duty.next /\ Due /\ at' = "claimed"
           /\ claims' = [claims EXCEPT ![duty.next] = clock]
           /\ duty' = [duty EXCEPT !.next = NextOccurrence(@, clock), !.rev = @ + 1]
           /\ UNCHANGED faults
  <2>o. PICK o : o = duty.next
    OBVIOUS
  <2>n. PICK n : n = NextOccurrence(o, clock)
    OBVIOUS
  <2>1. o \in Nat /\ clock \in Nat /\ First <= o /\ (o - First) % Every = 0
          /\ o <= clock /\ clock <= MaxTime
    BY <1>2, <2>o, Schedule DEF TypeOK, ClaimsAreDue, Due, Time
  <2>2. o \in Occurrence
    BY <2>1, Schedule DEF Occurrence, Time
  <2>3. n \in Nat /\ clock < n /\ (n - First) % Every = 0
    BY <2>1, <2>n, NextSlotIsLater
  <2>4. First <= n
    BY <2>1, <2>3, Schedule
  <2>5. duty'.next = n /\ duty' \in [next : Nat, paused : BOOLEAN, rev : Nat]
    <3>1. duty' = [duty EXCEPT !.next = n, !.rev = @ + 1]
      BY <1>2, <2>o, <2>n
    <3> QED
      BY <3>1, <2>3, MovedOn DEF TypeOK, Duty
  <2>6. claims'[o] = clock /\ \A p \in Occurrence \ {o} : claims'[p] = claims[p]
    BY <1>2, <2>2, <2>o DEF TypeOK
  <2>7. ~Claimed(o) /\ asks[o] = 0
    BY <2>1, <2>2, <2>o DEF ClaimsAreDue, ExecutedOnce, Claimed, TypeOK, Occurrence, Time, Never
  <2>8. \A p \in Occurrence : Claimed(p) <=> claims[p] # Never
    BY DEF Claimed
  <2>9. claims' \in [Occurrence -> Time \cup {Never}] /\ clock # Never /\ clock \in Time
    BY <1>2, <2>1, <2>2, <2>o, Schedule DEF TypeOK, Never, Time
  <2>10. \A p \in Occurrence : Claimed(p)' <=> p = o \/ Claimed(p)
    BY <2>2, <2>6, <2>9 DEF Claimed, Never
  <2>11. TypeOK'
    <3>1. UNCHANGED <<result, task, started, asks, clock, snap, live, online,
                     edits, switches, restarts, faults>>
      BY <1>2 DEF Claim, items
    <3>2. at' = "claimed" /\ snap'.next = o
      BY <1>2, <2>o, <3>1
    <3>3. o \in Occurrence /\ Claimed(o)' /\ asks'[o] = 0
      BY <2>2, <2>7, <2>10, <3>1
    <3> QED
      BY <2>5, <2>9, <3>1, <3>2, <3>3 DEF TypeOK, Claimed, Never
  <2>12. ClaimsAreDue'
    <3>1. \A p \in Occurrence : Claimed(p)' => p <= claims'[p] /\ claims'[p] < n
      <4> SUFFICES ASSUME NEW p \in Occurrence, Claimed(p)'
                   PROVE  p <= claims'[p] /\ claims'[p] < n
        OBVIOUS
      <4>1. CASE p = o
        BY <4>1, <2>1, <2>3, <2>6
      <4>2. CASE p # o
        <5>1. p <= claims[p] /\ claims[p] < o /\ claims[p] = claims'[p]
          BY <4>2, <2>o, <2>6, <2>10 DEF ClaimsAreDue
        <5>2. claims[p] \in Nat
          BY Schedule DEF TypeOK, Time, Never
        <5> QED
          BY <5>1, <5>2, <2>1, <2>3
      <4> QED
        BY <4>1, <4>2
    <3> QED
      BY <3>1, <2>3, <2>4, <2>5 DEF ClaimsAreDue, Claimed, Never
  <2>13. CatchUpOnce'
    <3> SUFFICES ASSUME NEW p \in Occurrence, NEW s \in Occurrence, p < s,
                        Claimed(p)', Claimed(s)'
                 PROVE  claims'[p] < s
      BY DEF CatchUpOnce, Claimed, Never
    <3>1. p # o
      <4> SUFFICES ASSUME p = o PROVE FALSE
        OBVIOUS
      <4>1. s # o /\ s \in Nat /\ claims[s] \in Nat
        BY <2>1, Schedule DEF TypeOK, Time, Never, Occurrence
      <4>2. s <= claims[s] /\ claims[s] < o
        BY <4>1, <2>o, <2>10 DEF ClaimsAreDue
      <4> QED
        BY <4>1, <4>2, <2>1
    <3>2. CASE s = o
      BY <3>1, <3>2, <2>o, <2>6, <2>10 DEF ClaimsAreDue
    <3>3. CASE s # o
      BY <3>1, <3>3, <2>6, <2>10 DEF CatchUpOnce
    <3> QED
      BY <3>2, <3>3
  <2>14. ExecutedOnce' /\ ResultsAreTrue'
    <3>1. UNCHANGED <<result, started, asks>>
      BY <1>2 DEF Claim, items
    <3> QED
      BY <2>10, <3>1 DEF ExecutedOnce, ResultsAreTrue
  <2> QED
    BY <1>2, <2>11, <2>12, <2>13, <2>14 DEF ReportsAreTrue
<1> QED
  BY <1>1, <1>2 DEF Claim

LEMMA ExecuteStep == IInv /\ Execute => IInv'
<1> SUFFICES ASSUME IInv, Execute PROVE IInv'
  OBVIOUS
<1> USE DEF IInv, Execute
<1> DEFINE o == snap.next
<1>1. o \in Occurrence /\ Claimed(o) /\ asks[o] = 0
  BY DEF TypeOK
<1>2. asks' \in [Occurrence -> Nat] /\ asks'[o] = 1
        /\ \A p \in Occurrence \ {o} : asks'[p] = asks[p]
  BY <1>1 DEF TypeOK
<1>3. started' \subseteq Occurrence /\ started' \subseteq started \cup {o}
        /\ started \subseteq started'
  BY <1>1 DEF TypeOK
<1>4. UNCHANGED <<duty, claims, result, snap>> /\ at' \in {"submitted", "failed"}
  BY DEF durable
<1>5. TypeOK'
  BY <1>1, <1>2, <1>3, <1>4 DEF TypeOK, Claimed, durable, bounds
<1>6. ClaimsAreDue' /\ CatchUpOnce'
  BY <1>4 DEF ClaimsAreDue, CatchUpOnce, Claimed
<1>7. ExecutedOnce'
  BY <1>1, <1>2, <1>4 DEF ExecutedOnce, Claimed
<1>8. ResultsAreTrue' /\ ReportsAreTrue'
  BY <1>1, <1>3, <1>4 DEF ResultsAreTrue, ReportsAreTrue, Claimed
<1> QED
  BY <1>5, <1>6, <1>7, <1>8

LEMMA RecordStep == IInv /\ Record => IInv'
<1> SUFFICES ASSUME IInv, Record PROVE IInv'
  OBVIOUS
<1> USE DEF IInv, Record
<1>1. snap.next \in Occurrence /\ Claimed(snap.next)
  BY DEF TypeOK
<1>2. TypeOK'
  BY <1>1, Bounds DEF TypeOK, items, Fault
<1>3. ClaimsAreDue' /\ CatchUpOnce' /\ ExecutedOnce' /\ ReportsAreTrue'
  BY DEF items, ClaimsAreDue, CatchUpOnce, ExecutedOnce, ReportsAreTrue, Claimed
<1>4. ResultsAreTrue'
  BY <1>1 DEF items, ResultsAreTrue, ReportsAreTrue, Claimed, TypeOK
<1> QED
  BY <1>2, <1>3, <1>4

\* The other steps of a poll move neither a claim nor a request.
LEMMA PollSteps ==
  IInv /\ (List \/ Consider \/ AskTask \/ AutoPause \/ AskAgain) => IInv'
<1> SUFFICES ASSUME IInv, List \/ Consider \/ AskTask \/ AutoPause \/ AskAgain
             PROVE  IInv'
  OBVIOUS
<1> USE Bounds DEF IInv, durable, items, bounds, Fault
<1>1. CASE List
  BY <1>1, Unmoved DEF List, TypeOK, ReportsAreTrue
<1>2. CASE Consider
  BY <1>2, Unmoved DEF Consider, TypeOK, ReportsAreTrue
<1>3. CASE AskTask
  BY <1>3, Unmoved DEF AskTask, TypeOK, ReportsAreTrue
<1>4. CASE AutoPause
  <2>2. duty' = duty \/ duty' = [duty EXCEPT !.paused = TRUE, !.rev = @ + 1]
    BY <1>4 DEF AutoPause
  <2>3. duty' \in [next : Nat, paused : BOOLEAN, rev : Nat] /\ duty'.next = duty.next
    BY <2>2, PauseSet DEF TypeOK, Duty
  <2>1. TypeOK'
    BY <1>4, <2>3 DEF AutoPause, TypeOK
  <2> QED
    BY <1>4, <2>1, <2>3, Unmoved DEF AutoPause, ReportsAreTrue
<1>5. CASE AskAgain
  BY <1>5, Unmoved DEF AskAgain, TypeOK, ReportsAreTrue, Claimed
<1> QED
  BY <1>1, <1>2, <1>3, <1>4, <1>5

LEMMA Surroundings ==
  IInv /\ (Tick \/ SetPaused \/ CloseTask \/ Switch \/ Restart) => IInv'
<1> SUFFICES ASSUME IInv, Tick \/ SetPaused \/ CloseTask \/ Switch \/ Restart
             PROVE  IInv'
  OBVIOUS
<1> USE Bounds DEF IInv, durable, items, poll, bounds
<1>1. CASE Tick
  BY <1>1, Unmoved DEF Tick, TypeOK, ReportsAreTrue, Claimed
<1>2. CASE SetPaused
  <2>1. TypeOK'
    <3>1. duty' = [duty EXCEPT !.paused = ~duty.paused, !.rev = @ + 1]
      BY <1>2 DEF SetPaused
    <3>2. duty' \in [next : Nat, paused : BOOLEAN, rev : Nat]
      BY <3>1, PauseSet DEF TypeOK, Duty
    <3> QED
      BY <1>2, <3>2 DEF SetPaused, TypeOK, Claimed
  <2>2. duty'.next = duty.next
    BY <1>2 DEF SetPaused, TypeOK
  <2> QED
    BY <1>2, <2>1, <2>2, Unmoved DEF SetPaused, ReportsAreTrue
<1>3. CASE CloseTask
  BY <1>3, Unmoved DEF CloseTask, TypeOK, ReportsAreTrue, Claimed
<1>4. CASE Switch
  <2>1. live' \in BOOLEAN /\ online' \in BOOLEAN
    BY <1>4 DEF Switch, TypeOK
  <2>2. TypeOK'
    BY <1>4, <2>1 DEF Switch, TypeOK, Claimed
  <2> QED
    BY <1>4, <2>2, Unmoved DEF Switch, ReportsAreTrue
<1>5. CASE Restart
  BY <1>5, Unmoved DEF Restart, TypeOK, ReportsAreTrue
<1> QED
  BY <1>1, <1>2, <1>3, <1>4, <1>5

\* The invariant of the schedule, its claims and the requests made for them, in
\* every reachable state (work-duty-store.ts, work-duty-scheduler.ts).
THEOREM Invariance == Spec => []IInv
<1>1. IInv /\ UNCHANGED vars => IInv'
  BY DEF IInv, vars, durable, items, poll, bounds, TypeOK, ClaimsAreDue, CatchUpOnce,
         ExecutedOnce, ResultsAreTrue, ReportsAreTrue, Claimed
<1>2. IInv /\ [Next]_vars => IInv'
  BY <1>1, ClaimStep, ExecuteStep, RecordStep, PollSteps, Surroundings DEF Next, Step
<1> QED
  BY Initially, <1>2, PTL DEF Spec

\* Every variable keeps its type, and a poll between its claim and its record
\* holds a claimed occurrence that nobody else asked for.
THEOREM TypeCorrect == Spec => []TypeOK
  BY Invariance, PTL DEF IInv

\* Claims are made in slots of the schedule, never early, and the schedule has
\* moved past each of them.
THEOREM NothingIsEarly == Spec => []ClaimsAreDue
  BY Invariance, PTL DEF IInv

\* However long the process or the clock was away, the slots missed meanwhile
\* are claimed once together.
THEOREM OneCatchUp == Spec => []CatchUpOnce
  BY Invariance, PTL DEF IInv

\* A claimed occurrence is asked for at most once, whatever fails or restarts.
THEOREM AskedOnce == Spec => []ExecutedOnce
  BY Invariance, PTL DEF IInv

\* What is recorded as submitted was accepted.
THEOREM RecordsAreTrue == Spec => []ResultsAreTrue
  BY Invariance, PTL DEF IInv

\* A duty that is paused when the claim is written claims nothing, also one
\* paused after the poll has looked at it.
THEOREM PauseIsObeyed == Spec => PausedClaimsNothing
<1>1. [Next]_vars => [duty.paused => claims' = claims]_claims
  BY DEF Next, Step, List, Consider, AskTask, AutoPause, Claim, AskAgain, Execute,
         Record, Tick, SetPaused, CloseTask, Switch, Restart, vars, durable
<1> QED
  BY <1>1, PTL DEF Spec, PausedClaimsNothing
=============================================================================
