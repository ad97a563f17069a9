---------------------------- MODULE EmployeeRuns ----------------------------
(***************************************************************************)
(* Employee runs (src/main/employees): a command creates one durable run,  *)
(* locks the session it talks to, submits one prompt to the DSH Runtime    *)
(* and observes the session's history for the end of a turn.  Runs may be  *)
(* cancelled and sessions force-unlocked while that goes on; writes fail,  *)
(* the Runtime rejects or drops a prompt, and Main restarts.               *)
(*                                                                         *)
(* EmployeeRunStore serialises its transitions, and what follows one in    *)
(* the same continuation (releasing the lock) belongs to its action.  A    *)
(* start or cancellation whose own write fails changes nothing and is left *)
(* out, as is a replayed command; a second failing write right after the   *)
(* first is left out too, except where a failure is recorded.  The history *)
(* counts turn ends only: text deltas never move a cursor past an end.     *)
(***************************************************************************)
EXTENDS Naturals, Sequences, FiniteSets

CONSTANTS
  Run,            \* the commands, each the run it creates
  Session,        \* the sessions of the Runtime
  MaxRestarts,    \* bound on the restarts of Main
  MaxFaults       \* bound on failing writes

ASSUME RunAssumption == IsFiniteSet(Run)
ASSUME NoneAssumption == "none" \notin Run \cup Session
ASSUME BoundsAssumption == MaxRestarts \in Nat /\ MaxFaults \in Nat

VARIABLES
  rec,        \* durable record of each run
  lock,       \* the run holding each session, in Main's memory
  job,        \* the step of the dispatch of each run
  from,       \* the history cursor that dispatch has read
  lane,       \* the cancellation call that occupies the operations of a run
  obs,        \* the observer of each run, and the cursor it started from
  queue,      \* turns the Runtime has accepted in each session
  ended,      \* turn ends in the history of each session
  stopping,   \* the turn the Runtime was told to stop in each session
  prompts,    \* how often the prompt of each run was submitted (history)
  lost,       \* runs whose failure or observer stop could not be recorded
  restarts, faults

memory  == <<lock, job, from, lane, obs>>
runtime == <<queue, ended, stopping>>
bounds  == <<restarts, faults>>
vars    == <<rec, memory, runtime, prompts, lost, bounds>>

Results   == {"completed", "failed", "cancelled"}
Terminal  == Results \cup {"interrupted"}
Status    == Terminal \cup {"none", "queued", "running", "cancelling"}

NoRec == [status |-> "none", session |-> "none", born |-> 0, cursor |-> 0,
          asked |-> FALSE, forced |-> FALSE, end |-> "none"]
Off   == [at |-> "off", after |-> 0]

Init ==
  /\ rec = [r \in Run |-> NoRec]         /\ lock = [s \in Session |-> "none"]
  /\ job = [r \in Run |-> "none"]        /\ from = [r \in Run |-> 0]
  /\ lane = [r \in Run |-> "free"]       /\ obs = [r \in Run |-> Off]
  /\ queue = [s \in Session |-> <<>>]    /\ ended = [s \in Session |-> <<>>]
  /\ stopping = [s \in Session |-> "none"]
  /\ prompts = [r \in Run |-> 0]         /\ lost = {}
  /\ restarts = 0                        /\ faults = 0

Is(r, statuses) == rec[r].status \in statuses
SessionOf(r) == rec[r].session
Seen(r)  == ended[SessionOf(r)]
Fault    == faults < MaxFaults /\ faults' = faults + 1

-----------------------------------------------------------------------------
(* Locks and failures.                                                     *)

\* Faulty variant of Release, under LocksAreExact: whoever holds the session.
ReleaseAny(r) == lock' = [lock EXCEPT ![SessionOf(r)] = "none"]

Release(r) ==
  lock' = [s \in Session |-> IF s = SessionOf(r) /\ lock[s] = r THEN "none" ELSE lock[s]]

\* recordDispatchFailure, whose own write may fail silently, and the release.
Fail(r) ==
  /\ \/ rec' = [rec EXCEPT ![r].status = IF Is(r, Terminal) THEN @ ELSE "failed"]
        /\ UNCHANGED <<lost, faults>>
     \/ ~Is(r, Terminal) /\ Fault /\ lost' = lost \cup {r} /\ rec' = rec
  /\ Release(r)
  /\ job' = [job EXCEPT ![r] = "none"]

\* Faulty variant of ObserverStop, under RunsMoveOn: the run stays running.
ObserverStopSilent(r) == UNCHANGED <<rec, lost, faults>>

\* recordObserverStop: the outcome is unknown, the session stays locked.
ObserverStop(r) ==
  \/ rec' = [rec EXCEPT ![r].status = IF @ = "running" THEN "interrupted" ELSE @]
     /\ UNCHANGED <<lost, faults>>
  \/ ~Is(r, Terminal) /\ Fault /\ lost' = lost \cup {r} /\ rec' = rec

-----------------------------------------------------------------------------
(* Start and dispatch.                                                     *)

\* Faulty variant of Start, under AloneInSession: the lock is not looked at.
StartUnlocked(r, s) ==
  /\ Is(r, {"none"})
  /\ rec' = [rec EXCEPT ![r].status = "queued", ![r].session = s,
                        ![r].born = Cardinality({q \in Run : ~Is(q, {"none"})}) + 1]
  /\ lock' = [lock EXCEPT ![s] = r]
  /\ job' = [job EXCEPT ![r] = "cursor"]
  /\ UNCHANGED <<from, lane, obs, runtime, prompts, lost, bounds>>

Start(r, s) ==
  /\ Is(r, {"none"})
  /\ lock[s] = "none"
  /\ rec' = [rec EXCEPT ![r].status = "queued", ![r].session = s,
                        ![r].born = Cardinality({q \in Run : ~Is(q, {"none"})}) + 1]
  /\ lock' = [lock EXCEPT ![s] = r]
  /\ job' = [job EXCEPT ![r] = "cursor"]
  /\ UNCHANGED <<from, lane, obs, runtime, prompts, lost, bounds>>

\* Faulty variant of ReadCursor, under OwnEnd: the history is read from its start.
ReadCursorStart(r) ==
  /\ job[r] = "cursor"
  /\ from' = [from EXCEPT ![r] = 0]
  /\ job' = [job EXCEPT ![r] = "claim"]
  /\ UNCHANGED <<rec, lock, lost, faults, lane, obs, runtime, prompts, restarts>>

ReadCursor(r) ==
  /\ job[r] = "cursor"
  /\ \/ /\ from' = [from EXCEPT ![r] = Len(Seen(r))]
        /\ job' = [job EXCEPT ![r] = "claim"]
        /\ UNCHANGED <<rec, lock, lost, faults>>
     \/ Fail(r) /\ from' = from
  /\ UNCHANGED <<lane, obs, runtime, prompts, restarts>>

Claim(r) ==
  /\ job[r] = "claim"
  /\ \/ /\ Is(r, {"queued"})
        /\ rec' = [rec EXCEPT ![r].status = "running", ![r].cursor = from[r]]
        /\ job' = [job EXCEPT ![r] = "submit"]
        /\ UNCHANGED <<lock, lost, faults>>
     \/ /\ ~Is(r, {"queued"})
        /\ Release(r)
        /\ job' = [job EXCEPT ![r] = "none"]
        /\ UNCHANGED <<rec, lost, faults>>
     \/ /\ Is(r, {"queued"}) /\ Fault      \* the claim is not written
        /\ rec' = [rec EXCEPT ![r].status = "failed"]
        /\ Release(r)
        /\ job' = [job EXCEPT ![r] = "none"]
        /\ lost' = lost
  /\ UNCHANGED <<from, lane, obs, runtime, prompts, restarts>>

\* The prompt is accepted, rejected, or its fate is unknown.
Submit(r) ==
  /\ job[r] = "submit" /\ lane[r] = "free"
  /\ \/ /\ ~Is(r, {"running"})
        /\ job' = [job EXCEPT ![r] = "none"]
        /\ UNCHANGED <<rec, lock, queue, prompts, lost, faults>>
     \/ /\ Is(r, {"running"})
        /\ prompts' = [prompts EXCEPT ![r] = @ + 1]
        /\ \/ /\ job' = [job EXCEPT ![r] = "observe"]
              /\ queue' = [queue EXCEPT ![SessionOf(r)] = Append(@, r)]
              /\ UNCHANGED <<rec, lock, lost, faults>>
           \/ Fail(r) /\ queue' = queue
           \/ /\ ObserverStop(r)
              /\ job' = [job EXCEPT ![r] = "none"]
              /\ queue' \in {queue, [queue EXCEPT ![SessionOf(r)] = Append(@, r)]}
              /\ lock' = lock
  /\ UNCHANGED <<from, lane, obs, ended, stopping, restarts>>

Observe(r) ==
  /\ job[r] = "observe"
  /\ job' = [job EXCEPT ![r] = "none"]
  /\ obs' = [obs EXCEPT ![r] =
               IF @.at = "off" THEN [at |-> "poll", after |-> rec[r].cursor] ELSE @]
  /\ UNCHANGED <<rec, lock, from, lane, runtime, prompts, lost, bounds>>

-----------------------------------------------------------------------------
(* Observation.                                                            *)

\* A poll finds an end; each event moves the durable cursor first.
Poll(r) ==
  /\ obs[r].at = "poll" /\ Len(Seen(r)) > obs[r].after
  /\ \/ /\ rec' = [rec EXCEPT ![r].cursor = IF Is(r, Terminal) THEN @ ELSE Len(Seen(r))]
        /\ obs' = [obs EXCEPT ![r].at = "apply"]
        /\ UNCHANGED <<lost, faults>>
     \/ /\ ~Is(r, Terminal) /\ Fault       \* the cursor is not written
        /\ rec' = [rec EXCEPT ![r].status = IF @ = "running" THEN "interrupted" ELSE @]
        /\ obs' = [obs EXCEPT ![r] = Off]
        /\ lost' = lost
  /\ UNCHANGED <<lock, job, from, lane, runtime, prompts, restarts>>

\* The first end after the observer's cursor decides the run.
Apply(r) ==
  LET e == Seen(r)[obs[r].after + 1]
      result == IF Is(r, {"cancelling"}) /\ rec[r].forced THEN "failed" ELSE e.how
  IN  /\ obs[r].at = "apply"
      /\ obs' = [obs EXCEPT ![r] = Off]
      /\ \/ /\ ~Is(r, Terminal)
            /\ rec' = [rec EXCEPT ![r].status = result, ![r].end = e.run]
            /\ Release(r)
            /\ UNCHANGED faults
         \/ Is(r, Terminal) /\ UNCHANGED <<rec, lock, faults>>
         \/ /\ ~Is(r, Terminal) /\ Fault   \* the result is not written
            /\ rec' = [rec EXCEPT ![r].status = IF @ = "running" THEN "interrupted" ELSE @]
            /\ lock' = lock
      /\ UNCHANGED <<job, from, lane, runtime, prompts, lost, restarts>>

\* A deadline, or a Runtime that cannot be read, ends only the observer.
StopObserving(r) ==
  /\ obs[r].at = "poll"
  /\ ObserverStop(r)
  /\ obs' = [obs EXCEPT ![r] = Off]
  /\ UNCHANGED <<lock, job, from, lane, runtime, prompts, restarts>>

-----------------------------------------------------------------------------
(* Cancellation and forced unlocking.                                      *)

Cancel(r) ==
  /\ Is(r, {"queued", "running"}) /\ lane[r] = "free"
  /\ rec' = [rec EXCEPT ![r].status = IF @ = "queued" THEN "cancelled" ELSE "cancelling",
                        ![r].asked = TRUE]
  /\ IF Is(r, {"queued"}) THEN Release(r) /\ lane' = lane
     ELSE lane' = [lane EXCEPT ![r] = "call"] /\ lock' = lock
  /\ UNCHANGED <<job, from, obs, runtime, prompts, lost, bounds>>

ForceUnlock(r) ==
  /\ Is(r, {"queued", "running", "cancelling", "interrupted"}) /\ ~rec[r].forced
  /\ lock[SessionOf(r)] = r /\ lane[r] = "free"
  /\ rec' = [rec EXCEPT ![r].status = CASE @ = "queued"      -> "cancelled"
                                        [] @ = "interrupted" -> @
                                        [] OTHER             -> "cancelling",
                        ![r].asked = TRUE, ![r].forced = TRUE]
  /\ Release(r)
  /\ lane' = [lane EXCEPT ![r] = "call"]
  /\ UNCHANGED <<job, from, obs, runtime, prompts, lost, bounds>>

\* session.cancel names the session: it stops the turn that is current there.
Call(r) ==
  LET s == SessionOf(r)
  IN  /\ lane[r] = "call"
      /\ lane' = [lane EXCEPT ![r] = "free"]
      /\ \/ queue[s] # <<>> /\ stopping' = [stopping EXCEPT ![s] = Head(queue[s])]
         \/ UNCHANGED stopping             \* not accepted, unsupported or failed
      /\ UNCHANGED <<rec, lock, job, from, obs, queue, ended, prompts, lost, bounds>>

-----------------------------------------------------------------------------
(* The Runtime, and a restart of Main.                                     *)

EndTurn(s) ==
  /\ queue[s] # <<>>
  /\ \E how \in {"completed", "failed"} \cup
                (IF stopping[s] = Head(queue[s]) THEN {"cancelled"} ELSE {}) :
       ended' = [ended EXCEPT ![s] = Append(@, [run |-> Head(queue[s]), how |-> how])]
  /\ queue' = [queue EXCEPT ![s] = Tail(@)]
  /\ stopping' = [stopping EXCEPT ![s] = IF @ = Head(queue[s]) THEN "none" ELSE @]
  /\ UNCHANGED <<rec, memory, prompts, lost, bounds>>

Held(s) == {r \in Run : /\ SessionOf(r) = s /\ ~rec[r].forced
                        /\ Is(r, {"running", "cancelling", "interrupted"})}

\* A held session is locked again by its oldest run.
Relock ==
  lock' \in {f \in [Session -> Run \cup {"none"}] :
              \A s \in Session :
                IF Held(s) = {} THEN f[s] = "none"
                ELSE f[s] \in Held(s) /\ \A q \in Held(s) : rec[f[s]].born <= rec[q].born}

\* Faulty variant of Restart, under PromptedOnce: running runs are dispatched.
RestartResubmits ==
  /\ restarts < MaxRestarts /\ restarts' = restarts + 1
  /\ Relock
  /\ obs' = [r \in Run |-> Off]
  /\ job' = [r \in Run |-> IF Is(r, {"running"}) THEN "submit" ELSE "none"]
  /\ lane' = [r \in Run |-> "free"]
  /\ UNCHANGED <<rec, from, runtime, prompts, lost, faults>>

\* The runs that may still be executing are observed, never submitted.  The
\* Runtime keeps its turns or dies with Main.
Restart ==
  /\ restarts < MaxRestarts /\ restarts' = restarts + 1
  /\ Relock
  /\ obs' = [r \in Run |-> IF Is(r, {"running", "cancelling"})
                             THEN [at |-> "poll", after |-> rec[r].cursor] ELSE Off]
  /\ job' = [r \in Run |-> "none"] /\ lane' = [r \in Run |-> "free"]
  /\ \/ UNCHANGED <<queue, stopping>>
     \/ /\ queue' = [s \in Session |-> <<>>]
        /\ stopping' = [s \in Session |-> "none"]
  /\ UNCHANGED <<rec, from, ended, prompts, lost, faults>>

Dispatch(r) == ReadCursor(r) \/ Claim(r) \/ Submit(r) \/ Observe(r)
Next ==
  \/ \E r \in Run, s \in Session : Start(r, s)
  \/ \E r \in Run : Dispatch(r) \/ Poll(r) \/ Apply(r) \/ StopObserving(r)
                      \/ Cancel(r) \/ ForceUnlock(r) \/ Call(r)
  \/ \E s \in Session : EndTurn(s)
  \/ Restart

Spec == Init /\ [][Next]_vars

\* Main runs its continuations and an observation has a deadline; a client call
\* returns.  Nothing makes the Runtime end a turn.
Fairness == \A r \in Run : /\ WF_vars(Dispatch(r)) /\ WF_vars(Call(r))
                           /\ WF_vars(Apply(r))    /\ WF_vars(StopObserving(r))
FairSpec == Spec /\ Fairness

-----------------------------------------------------------------------------
(* Properties.                                                             *)

TypeOK ==
  /\ rec \in [Run -> [status : Status, session : Session \cup {"none"}, born : Nat,
                      cursor : Nat, asked : BOOLEAN, forced : BOOLEAN,
                      end : Run \cup {"none"}]]
  /\ lock \in [Session -> Run \cup {"none"}]
  /\ job \in [Run -> {"none", "cursor", "claim", "submit", "observe"}]
  /\ from \in [Run -> Nat]
  /\ lane \in [Run -> {"free", "call"}]
  /\ obs \in [Run -> [at : {"off", "poll", "apply"}, after : Nat]]
  /\ queue \in [Session -> Seq(Run)]
  /\ ended \in [Session -> Seq([run : Run, how : Results])]
  /\ stopping \in [Session -> Run \cup {"none"}]
  /\ prompts \in [Run -> Nat]
  /\ lost \subseteq Run
  /\ restarts \in 0..MaxRestarts
  /\ faults \in 0..MaxFaults
  /\ \A r \in Run : /\ Is(r, {"none"}) <=> rec[r].session = "none"
                    /\ ~Is(r, {"none"}) => rec[r].session \in Session
                    /\ job[r] \in {"submit", "observe"} \/ obs[r].at # "off"
                         => ~Is(r, {"none", "queued"})
                    /\ rec[r].end # "none" => Is(r, Results)
                    /\ obs[r].at = "apply" => Len(Seen(r)) > obs[r].after

\* "Reattach observers to persisted runs without ever submitting their prompt
\* again" (employee-run-service.ts 174-180, 385-470).
PromptedOnce == \A r \in Run : prompts[r] <= 1

\* A session is locked by r exactly while r's turn may be executing there, over
\* restarts and races of results, cancellations and unlocks: no lock outlives
\* its run and none is given up early (lines 100-170, 193-224, 583-607).
LocksAreExact ==
  lost = {} =>
    \A r \in Run :
      IF \/ rec[r].status \in {"running", "cancelling", "interrupted"} /\ ~rec[r].forced
         \/ job[r] \in {"cursor", "claim"} /\ Is(r, {"queued"})
      THEN lock[SessionOf(r)] = r
      ELSE \A s \in Session : lock[s] # r

\* No run of the session was unlocked by force.
Unforced(s) == \A r \in Run : SessionOf(r) = s => ~rec[r].forced

\* Two turns wait in one session only behind a forced unlock.
AloneInSession ==
  lost = {} => \A s \in Session : Unforced(s) => Len(queue[s]) <= 1

\* A run takes the end of another run's turn for its own only behind a forced
\* unlock in its session (employee-run-service.ts 491-545, dsh-session.ts 432-488).
OwnEnd ==
  lost = {} =>
    \A r \in Run : Unforced(SessionOf(r)) => rec[r].end \in {"none", r}

\* A prompt goes out only for a run that holds its session and that nobody has
\* asked to stop, although the claim and the submission are two steps
\* (employee-run-service.ts 434-462).
SubmitsAreWanted ==
  [][\A r \in Run : prompts'[r] # prompts[r] =>
       ~rec[r].asked /\ Is(r, {"running"}) /\ lock[SessionOf(r)] = r]_vars

\* Late answers of the dispatch, the observer, a cancellation or an unlock never
\* take a status back (lines 104-119, 197-218, 517-545, 559-571, 609-622).
StatusMoves ==
  [][\A r \in Run :
       \/ rec'[r].status = rec[r].status
       \/ Is(r, {"none"})       /\ rec'[r].status = "queued"
       \/ Is(r, {"queued"})     /\ rec'[r].status \in {"running", "failed", "cancelled"}
       \/ Is(r, {"running"})    /\ rec'[r].status \in Terminal \cup {"cancelling"}
       \/ Is(r, {"cancelling"}) /\ rec'[r].status \in Results]_vars

\* A started run is dispatched and leaves "running", whatever the Runtime does,
\* unless its outcome cannot be written or Main dies before the claim: no code
\* dispatches a queued run again (lines 174-180, 337).
RunsMoveOn ==
  \A r \in Run :
    Is(r, {"queued", "running"}) /\ r \notin lost
      ~> \/ ~Is(r, {"queued", "running"}) \/ r \in lost
         \/ Is(r, {"queued"}) /\ job[r] = "none"

\* docs/employee-dispatch-prd.md:73 describes an employee run as one delegation
\* with a session, a status and a result of its own: it is cancelled only when
\* its own cancellation was asked for.
StoppedWhenAsked == \A r \in Run : Is(r, {"cancelled"}) => rec[r].asked
=============================================================================
