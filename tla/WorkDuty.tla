------------------------------ MODULE WorkDuty ------------------------------
(***************************************************************************)
(* A periodic duty of a work task (work-duty-store.ts) and the scheduler   *)
(* that turns its due occurrences into work item requests                  *)
(* (work-duty-scheduler.ts).  The scheduler polls a snapshot of the duty,  *)
(* claims the due occurrence in one durable write, submits it and records  *)
(* the result, while the clock jumps, the user pauses and resumes the      *)
(* duty, the task is closed, execution goes offline, writes fail and the   *)
(* process restarts.                                                       *)
(*                                                                         *)
(* Duties share nothing but the poll, whose time on the others is the      *)
(* delay after List.  A pause or resume that names an old revision, and a  *)
(* replayed request, change nothing and are left out.                      *)
(***************************************************************************)
EXTENDS Naturals

CONSTANTS
  First, Every,   \* the first occurrence and the interval of the duty
  MaxTime,        \* bound on the clock
  MaxEdits,       \* bound on what the user does to the duty
  MaxSwitches,    \* bound on losses of the Runtime and stops of the scheduler
  MaxRestarts,    \* bound on restarts of the process
  MaxFaults       \* bound on failing writes and reads

ASSUME ScheduleAssumption == First \in Nat /\ Every \in Nat \ {0} /\ MaxTime \in Nat
ASSUME BoundsAssumption ==
  {MaxEdits, MaxSwitches, MaxRestarts, MaxFaults} \subseteq Nat

VARIABLES
  duty,       \* durable schedule: next occurrence, paused, revision
  claims,     \* durable receipts: when each occurrence was claimed
  result,     \* durable result recorded for an occurrence
  task,       \* the work task, "closed" once it is cancelled or archived
  started,    \* occurrences for which a work item request was accepted
  asks,       \* how often a request was sent for an occurrence (history)
  clock,
  at, snap,   \* the scheduler's step and its snapshot of the duty
  live,       \* the scheduler is started
  online,     \* canExecute()
  edits, switches, restarts, faults

durable == <<duty, claims, result>>
items   == <<task, started, asks>>
poll    == <<at, snap>>
bounds  == <<edits, switches, restarts, faults>>
vars    == <<durable, items, clock, poll, live, online, bounds>>

Time       == 0..MaxTime
Occurrence == {t \in Time : t >= First /\ (t - First) % Every = 0}
Never      == MaxTime + 1      \* not claimed

Init ==
  /\ duty = [next |-> First, paused |-> FALSE, rev |-> 1]
  /\ claims = [o \in Occurrence |-> Never]
  /\ result = [o \in Occurrence |-> "none"]
  /\ task = "open"  /\ started = {}  /\ asks = [o \in Occurrence |-> 0]
  /\ clock = 0
  /\ at = "idle"    /\ snap = duty
  /\ live = TRUE    /\ online = TRUE
  /\ edits = 0      /\ switches = 0     /\ restarts = 0     /\ faults = 0

Claimed(o) == claims[o] # Never
Fault == faults < MaxFaults /\ faults' = faults + 1
Due == duty.next <= clock

\* Faulty variant of NextOccurrence, under CatchUpOnce: one slot at a time.
NextSlot(o, now) == o + Every

\* The first slot after now: the missed ones are skipped.
NextOccurrence(o, now) == o + ((now - o) \div Every + 1) * Every

-----------------------------------------------------------------------------
(* One poll of the scheduler.                                              *)

\* Faulty variant of List, under DueIsClaimed: the first snapshot is kept.
ListCached ==
  /\ at = "idle" /\ live /\ online
  /\ at' = "listed" /\ snap' = snap
  /\ UNCHANGED <<durable, items, clock, live, online, bounds>>

List ==
  /\ at = "idle" /\ live /\ online
  /\ at' = "listed" /\ snap' = duty
  /\ UNCHANGED <<durable, items, clock, live, online, bounds>>

Consider ==
  /\ at = "listed"
  /\ at' = IF live /\ ~snap.paused /\ snap.next <= clock THEN "task" ELSE "idle"
  /\ UNCHANGED <<durable, items, clock, snap, live, online, bounds>>

\* Faulty variant of AskTask, under ClosedIsPaused: a closed task is passed over.
AskTaskPass ==
  /\ at = "task"
  /\ \/ at' = (IF task = "open" THEN "claim" ELSE "idle") /\ UNCHANGED faults
     \/ Fault /\ at' = "idle"
  /\ UNCHANGED <<durable, items, clock, snap, live, online, edits, switches, restarts>>

AskTask ==
  /\ at = "task"
  /\ \/ at' = (IF task = "open" THEN "claim" ELSE "pause") /\ UNCHANGED faults
     \/ Fault /\ at' = "idle"
  /\ UNCHANGED <<durable, items, clock, snap, live, online, edits, switches, restarts>>

\* pauseTerminalDuty: the revision is the one of the snapshot, a conflict is
\* only logged.
AutoPause ==
  /\ at = "pause"
  /\ \/ /\ duty.rev = snap.rev
        /\ duty' = [duty EXCEPT !.paused = TRUE, !.rev = @ + 1]
        /\ UNCHANGED faults
     \/ duty.rev # snap.rev /\ UNCHANGED <<duty, faults>>
     \/ Fault /\ duty' = duty
  /\ at' = "idle"
  /\ UNCHANGED <<claims, result, items, clock, snap, live, online,
                 edits, switches, restarts>>

\* Faulty variant of Claim, under ExecutedOnce: the occurrence is not claimed
\* before it is executed.
ClaimNothing ==
  /\ at = "claim"
  /\ at' = "claimed"
  /\ UNCHANGED <<durable, items, clock, snap, live, online, bounds>>

\* claimDueOccurrence, from the observed occurrence.
Claim ==
  /\ at = "claim"
  /\ \/ /\ snap.next = duty.next /\ ~duty.paused /\ Due
        /\ claims' = [claims EXCEPT ![duty.next] = clock]
        /\ duty' = [duty EXCEPT !.next = NextOccurrence(@, clock), !.rev = @ + 1]
        /\ at' = "claimed"
        /\ UNCHANGED faults
     \/ /\ snap.next # duty.next \/ duty.paused \/ ~Due
        /\ at' = "idle"
        /\ UNCHANGED <<duty, claims, faults>>
     \/ Fault /\ at' = "idle" /\ UNCHANGED <<duty, claims>>
  /\ UNCHANGED <<result, items, clock, snap, live, online, edits, switches, restarts>>

\* Offline now: the occurrence is left as it is.
AskAgain ==
  /\ at = "claimed"
  /\ \/ ~online /\ at' = "idle" /\ UNCHANGED faults
     \/ online /\ at' = (IF task = "open" THEN "execute" ELSE "pause") /\ UNCHANGED faults
     \/ online /\ Fault /\ at' = "failed"
  /\ UNCHANGED <<durable, items, clock, snap, live, online, edits, switches, restarts>>

\* The request carries the occurrence's stable id and the revision just read:
\* it is accepted, refused, or accepted although the call fails.
Execute ==
  /\ at = "execute"
  /\ asks' = [asks EXCEPT ![snap.next] = @ + 1]
  /\ \/ /\ task = "open"
        /\ started' = started \cup {snap.next}
        /\ at' \in {"submitted", "failed"}
     \/ at' = "failed" /\ started' = started
  /\ UNCHANGED <<durable, task, clock, snap, live, online, bounds>>

Record ==
  /\ at \in {"submitted", "failed"}
  /\ \/ result' = [result EXCEPT ![snap.next] = at] /\ UNCHANGED faults
     \/ Fault /\ result' = result
  /\ at' = "idle"
  /\ UNCHANGED <<duty, claims, items, clock, snap, live, online,
                 edits, switches, restarts>>

-----------------------------------------------------------------------------
(* Everything around it.                                                   *)

\* The clock runs on, or jumps while the machine sleeps.
Tick ==
  /\ clock' \in {t \in Time : t > clock}
  /\ UNCHANGED <<durable, items, poll, live, online, bounds>>

SetPaused ==
  /\ edits < MaxEdits /\ edits' = edits + 1
  /\ duty' = [duty EXCEPT !.paused = ~@, !.rev = @ + 1]
  /\ UNCHANGED <<claims, result, items, clock, poll, live, online,
                 switches, restarts, faults>>

CloseTask ==
  /\ task = "open" /\ task' = "closed"
  /\ UNCHANGED <<durable, started, asks, clock, poll, live, online, bounds>>

\* The Runtime or the workflow worker goes offline and comes back; the
\* scheduler is stopped between two steps of its poll and started again.
Switch ==
  /\ switches < MaxSwitches /\ switches' = switches + 1
  /\ \/ online' = ~online /\ live' = live
     \/ live' = ~live /\ online' = online
  /\ UNCHANGED <<durable, items, clock, poll, edits, restarts, faults>>

Restart ==
  /\ restarts < MaxRestarts /\ restarts' = restarts + 1
  /\ at' = "idle" /\ live' = TRUE
  /\ UNCHANGED <<durable, items, clock, snap, online, edits, switches, faults>>

Step == List \/ Consider \/ AskTask \/ AutoPause \/ Claim \/ AskAgain
          \/ Execute \/ Record
Next == Step \/ Tick \/ SetPaused \/ CloseTask \/ Switch \/ Restart

Spec == Init /\ [][Next]_vars

\* The poll is a loop on a timer; nothing else has to happen.
FairSpec == Spec /\ WF_vars(Step)

-----------------------------------------------------------------------------
(* Properties.                                                             *)

TypeOK ==
  /\ duty \in [next : Nat, paused : BOOLEAN, rev : Nat]
  /\ claims \in [Occurrence -> Time \cup {Never}]
  /\ result \in [Occurrence -> {"none", "submitted", "failed"}]
  /\ task \in {"open", "closed"}
  /\ started \subseteq Occurrence
  /\ asks \in [Occurrence -> Nat]
  /\ clock \in Time
  /\ at \in {"idle", "listed", "task", "pause", "claim", "claimed", "execute",
             "submitted", "failed"}
  /\ snap \in [next : Nat, paused : BOOLEAN, rev : Nat]
  /\ at \in {"claimed", "execute"} =>
       snap.next \in Occurrence /\ Claimed(snap.next) /\ asks[snap.next] = 0
  /\ at \in {"submitted", "failed"} => snap.next \in Occurrence /\ Claimed(snap.next)
  /\ live \in BOOLEAN /\ online \in BOOLEAN
  /\ edits \in 0..MaxEdits /\ switches \in 0..MaxSwitches
  /\ restarts \in 0..MaxRestarts /\ faults \in 0..MaxFaults

\* An occurrence is claimed in a slot of the schedule, never early, and its
\* schedule has moved on with the claim (work-duty-store.ts 305-352).
ClaimsAreDue ==
  /\ duty.next >= First /\ (duty.next - First) % Every = 0
  /\ \A o \in Occurrence : Claimed(o) => o <= claims[o] /\ claims[o] < duty.next

\* "A long sleep/restart produces one catch-up receipt at most; all later missed
\* slots are skipped" (work-duty-store.ts 298-300).
CatchUpOnce ==
  \A o, p \in Occurrence : o < p /\ Claimed(o) /\ Claimed(p) => claims[o] < p

\* A claimed occurrence is asked for once at most, over failing records, failing
\* calls and restarts (work-duty-scheduler.ts 103-140).
ExecutedOnce ==
  \A o \in Occurrence : asks[o] <= 1 /\ (asks[o] = 1 => Claimed(o))

\* A recorded submission was accepted by the work items.
ResultsAreTrue ==
  \A o \in Occurrence : /\ result[o] = "submitted" => o \in started
                        /\ o \in started \/ result[o] # "none" => Claimed(o)

\* A duty the user pauses after the poll has looked at it claims nothing
\* (work-duty-scheduler.ts 94-100, work-duty-store.ts 319).
PausedClaimsNothing == [][duty.paused => claims' = claims]_claims

\* While the scheduler is up and nothing is paused, closed or failing, every due
\* occurrence is claimed.
DueIsClaimed ==
  [](live /\ online /\ ~duty.paused /\ task = "open" /\ faults = 0) =>
    \A o \in Occurrence : duty.next = o /\ Due ~> Claimed(o)

\* A duty whose task is closed is paused, or has moved on to a later slot: the
\* pause after a claim names the revision before it and always fails (lines
\* 117-120, 146-149).
ClosedIsPaused ==
  [](live /\ online /\ faults = 0 /\ edits = 0) =>
    (task = "closed" /\ Due ~> duty.paused \/ ~Due)

\* work-duty-scheduler.ts:38-40 "the Store claims one occurrence, then this worker
\* submits a normal Work Item request": a claimed occurrence of an open task is
\* submitted, or its failure is recorded, when execution is available again.
ClaimedIsSubmitted ==
  [](faults = 0 /\ restarts = 0 /\ task = "open") /\ <>[](live /\ online) =>
    \A o \in Occurrence : Claimed(o) ~> result[o] # "none"
=============================================================================
