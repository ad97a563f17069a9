------------------------ MODULE RuntimeManager_proofs ------------------------
(***************************************************************************)
(* Proofs about RuntimeManager, for every set of launch contexts, number of *)
(* retries and bound: no Runtime is lost sight of, a ready one is served in *)
(* the context that is held, and a stop that found no other one is obeyed.  *)
(***************************************************************************)
EXTENDS RuntimeManager, TLAPS

-----------------------------------------------------------------------------
(***************************************************************************)
(* The inductive invariant                                                 *)
(***************************************************************************)
\* The child is the last process launched.  One that was not told to end is
\* either awaited by its startup or ready, in the context that is held.
ChildInv ==
  /\ child # NoProcess => child \in alive /\ child = spawned
  /\ NoStrayProcess
  /\ child # NoProcess /\ child \notin signalled =>
        startup.at = "health" \/ phase = "ready"
  /\ phase = "ready" => startup.at = "none" /\ child # NoProcess /\ served = launch
  /\ startup.at = "health" => served = launch
  /\ stop.of <= spawned
  /\ stop.awaits = "exit" /\ stop.of \in alive => stop.of \in signalled

\* What a stop that found no other one has reached, unless it still waits for
\* a startup: no startup can launch a process any more.
Obeyed ==
  /\ startup.at \in {"none", "health", "cleanup"}
  /\ child # NoProcess => stop = [awaits |-> "exit", of |-> child] /\ stopping
  /\ child = NoProcess => phase \in Down

\* A child is awaited by its startup, ready, or awaited by the stop.
StopInv ==
  /\ stop.awaits = "none" => stop = NoStop
  /\ startup.at = "none" => startup = NoStartup
  /\ child # NoProcess => \/ startup.at \in {"health", "cleanup"}
                          \/ phase = "ready"
                          \/ stop = [awaits |-> "exit", of |-> child]
  /\ last = "stop" => stopRequested /\ (stop.awaits = "startup" \/ Obeyed)

IInv == TypeOK /\ ChildInv /\ StopInv

-----------------------------------------------------------------------------
(***************************************************************************)
(* Types of what the actions assign                                        *)
(***************************************************************************)
\* A call that is counted is within the bound.
LEMMA CallTyped ==
  ASSUME TypeOK, Call
  PROVE  calls' \in 0..MaxCalls
  BY BoundAssumption DEF TypeOK, Call

\* What startInternal assigns to its place.
LEMMA StartupTyped ==
  /\ NoStartup \in Startup
  /\ \A allow \in BOOLEAN : [at |-> "layout", allow |-> allow, tries |-> 0] \in Startup
  /\ \A s \in Startup, a \in Awaits : [s EXCEPT !.at = a] \in Startup
  /\ \A s \in Startup : s.tries < PortRetries =>
        [s EXCEPT !.at = "log", !.tries = @ + 1] \in Startup
  <1>0. 0 \in 0..PortRetries
    BY BoundAssumption
  <1>1. NoStartup \in Startup
    BY <1>0 DEF NoStartup, Startup, Awaits
  <1>2. ASSUME NEW allow \in BOOLEAN
        PROVE  [at |-> "layout", allow |-> allow, tries |-> 0] \in Startup
    BY <1>0 DEF Startup, Awaits
  <1>3. ASSUME NEW s \in Startup, NEW a \in Awaits
        PROVE  [s EXCEPT !.at = a] \in Startup
    BY DEF Startup
  <1>4. ASSUME NEW s \in Startup, s.tries < PortRetries
        PROVE  [s EXCEPT !.at = "log", !.tries = @ + 1] \in Startup
    <2>1. s.tries \in 0..PortRetries
      BY DEF Startup
    <2>2. s.tries + 1 \in 0..PortRetries
      BY <1>4, <2>1, BoundAssumption
    <2> QED  BY <2>2 DEF Startup, Awaits
  <1> QED  BY <1>1, <1>2, <1>3, <1>4

\* Where a startup stands after it moved on.
LEMMA GotoAt ==
  ASSUME startup \in Startup, NEW a, NEW p, Goto(a, p)
  PROVE  startup'.at = a /\ phase' = p
  BY DEF Goto, Startup

\* Where it stands after its end.
LEMMA MarkStoppedAt ==
  ASSUME MarkStopped
  PROVE  startup' = NoStartup /\ startup'.at = "none" /\ phase' = "stopped"
  BY DEF MarkStopped, NoStartup

\* What a stop assigns to its place.
LEMMA StopTyped ==
  ASSUME child \in Pid \cup {NoProcess}
  PROVE  /\ NoStop \in Stop
         /\ [awaits |-> "exit", of |-> child] \in Stop
         /\ [awaits |-> "startup", of |-> NoProcess] \in Stop
  BY DEF Stop, NoStop

\* What is at most b is below its successor.
LEMMA Below ==
  ASSUME NEW a \in Nat, NEW b \in Nat, a <= b
  PROVE  a <= b + 1 /\ a # b + 1
  OBVIOUS

\* The number of a new process.
LEMMA SpawnTyped ==
  ASSUME TypeOK, spawned < MaxSpawns
  PROVE  /\ spawned + 1 \in Pid
         /\ spawned + 1 \in 0..MaxSpawns
  BY BoundAssumption DEF TypeOK, Pid

-----------------------------------------------------------------------------
(***************************************************************************)
(* The invariant is preserved, one lemma per action.                       *)
(***************************************************************************)
\* Before the launch a startup only moves on: a child that is still there is
\* one that the stop awaits.
LEMMA BeforeLaunch ==
  ASSUME IInv,
         startup.at \in {"layout", "mode", "hook", "port", "log"},
         startup'.at \in {"none", "mode", "hook", "port", "log", "report"},
         startup'.at = "none" => startup' = NoStartup,
         phase' # "ready",
         UNCHANGED <<process, stop, stopRequested, caller>>
  PROVE  ChildInv' /\ StopInv'
  <1>1. ChildInv'
    BY DEF IInv, ChildInv, NoStrayProcess, process
  <1>2. StopInv'
    BY DEF IInv, ChildInv, StopInv, Obeyed, process, caller
  <1> QED  BY <1>1, <1>2

\* A start that a ready Runtime answers changes nothing.
LEMMA StartReadyKeeps ==
  ASSUME IInv, NEW c \in Context \cup {Unsaid}, StartReady(c)
  PROVE  IInv'
  <1> USE DEF IInv, StartReady
  <1>1. TypeOK'
    BY CallTyped DEF TypeOK, Phases, CallKinds, context, process, caller
  <1>2. ChildInv'
    BY <1>1 DEF Call, ChildInv, NoStrayProcess, TypeOK, Pid, NoProcess, context,
       process, caller
  <1>3. StopInv'
    BY <1>1, <1>2 DEF Call, StopInv, ChildInv, Obeyed, Down, NoStop, NoStartup,
       TypeOK, Pid, NoProcess, context, process, caller
  <1> QED  BY <1>1, <1>2, <1>3

\* A joined start changes nothing.
LEMMA StartJoinedKeeps ==
  ASSUME IInv, StartJoined
  PROVE  IInv'
  <1> USE DEF IInv, StartJoined
  <1>1. TypeOK'
    BY CallTyped DEF TypeOK, Phases, CallKinds, context, process, caller
  <1>2. ChildInv'
    BY <1>1 DEF Call, ChildInv, NoStrayProcess, TypeOK, Pid, NoProcess, context,
       process, caller
  <1>3. StopInv'
    BY <1>1, <1>2 DEF Call, StopInv, ChildInv, Obeyed, Down, NoStop, NoStartup,
       TypeOK, Pid, NoProcess, context, process, caller
  <1> QED  BY <1>1, <1>2, <1>3

\* A new startup finds no child that was not told to end.
LEMMA StartNewKeeps ==
  ASSUME IInv, NEW c \in Context \cup {Unsaid}, NEW allow \in BOOLEAN, StartNew(c, allow)
  PROVE  IInv'
  <1> USE DEF IInv, StartNew
  <1>1. TypeOK'
    BY CallTyped, StartupTyped DEF TypeOK, Phases, CallKinds, context, process,
       caller
  <1>2. ChildInv'
    BY <1>1 DEF Call, ChildInv, NoStrayProcess, TypeOK, Pid, NoProcess, context,
       process, caller
  <1>3. StopInv'
    BY <1>1, <1>2 DEF Call, StopInv, ChildInv, Obeyed, Down, NoStop, NoStartup,
       TypeOK, Pid, NoProcess, context, process, caller
  <1> QED  BY <1>1, <1>2, <1>3

\* The directories exist.
LEMMA LayoutReadyKeeps ==
  ASSUME IInv, LayoutReady
  PROVE  IInv'
  <1> USE DEF IInv, LayoutReady
  <1>1. TypeOK'
    BY StartupTyped DEF Awaits, Goto, MarkStopped, Selected, TypeOK, Phases,
       CallKinds, context, process, caller
  <1>2. /\ startup'.at \in {"none", "mode", "hook"}
        /\ startup'.at = "none" => startup' = NoStartup
        /\ phase' # "ready"
    BY GotoAt, MarkStoppedAt DEF TypeOK, Awaiting, Selected, ChildInv
  <1>3. ChildInv' /\ StopInv'
    BY <1>2, BeforeLaunch DEF Awaiting
  <1> QED  BY <1>1, <1>3

\* The saved mode was read.
LEMMA ModeReadKeeps ==
  ASSUME IInv, NEW c \in Context, ModeRead(c)
  PROVE  IInv'
  <1> USE DEF IInv, ModeRead
  <1>1. TypeOK'
    BY StartupTyped DEF Awaits, Goto, MarkStopped, Selected, TypeOK, Phases,
       CallKinds, context, process, caller
  <1>2. /\ startup'.at \in {"none", "hook"}
        /\ startup'.at = "none" => startup' = NoStartup
        /\ phase' # "ready"
    BY GotoAt, MarkStoppedAt DEF TypeOK, Awaiting, Selected, ChildInv
  <1>3. ChildInv' /\ StopInv'
    BY <1>2, BeforeLaunch DEF Awaiting
  <1> QED  BY <1>1, <1>3

\* The hook has run.
LEMMA HookDoneKeeps ==
  ASSUME IInv, HookDone
  PROVE  IInv'
  <1> USE DEF IInv, HookDone
  <1>1. TypeOK'
    BY StartupTyped DEF Awaits, Goto, MarkStopped, TypeOK, Phases, CallKinds,
       context, process, caller
  <1>2. /\ startup'.at \in {"none", "port"}
        /\ startup'.at = "none" => startup' = NoStartup
        /\ phase' # "ready"
    BY GotoAt, MarkStoppedAt DEF TypeOK, Awaiting, ChildInv
  <1>3. ChildInv' /\ StopInv'
    BY <1>2, BeforeLaunch DEF Awaiting
  <1> QED  BY <1>1, <1>3

\* A port was found.
LEMMA PortAllocatedKeeps ==
  ASSUME IInv, PortAllocated
  PROVE  IInv'
  <1> USE DEF IInv, PortAllocated
  <1>1. TypeOK'
    BY StartupTyped DEF Awaits, Goto, MarkStopped, TypeOK, Phases, CallKinds,
       context, process, caller
  <1>2. /\ startup'.at \in {"none", "log"}
        /\ startup'.at = "none" => startup' = NoStartup
        /\ phase' # "ready"
    BY GotoAt, MarkStoppedAt DEF TypeOK, Awaiting, ChildInv
  <1>3. ChildInv' /\ StopInv'
    BY <1>2, BeforeLaunch DEF Awaiting
  <1> QED  BY <1>1, <1>3

\* An await before the launch rejects.
LEMMA StepFailsKeeps ==
  ASSUME IInv, StepFails
  PROVE  IInv'
  <1> USE DEF IInv, StepFails
  <1>1. TypeOK'
    BY StartupTyped DEF Awaits, Failing, Goto, MarkStopped, TypeOK, Phases,
       CallKinds, context, process, caller
  <1>2. /\ startup'.at \in {"none", "report"}
        /\ startup'.at = "none" => startup' = NoStartup
        /\ phase' # "ready"
    BY GotoAt, MarkStoppedAt DEF TypeOK, Awaiting, Failing, ChildInv
  <1>3. ChildInv' /\ StopInv'
    BY <1>2, BeforeLaunch DEF Awaiting
  <1> QED  BY <1>1, <1>3

\* A child that is replaced was told to end.
LEMMA SpawnKeeps ==
  ASSUME IInv, Spawn
  PROVE  IInv'
  <1> USE DEF IInv, Spawn
  <1>1. TypeOK'
    BY StartupTyped, SpawnTyped DEF Awaits, Goto, TypeOK, Phases, CallKinds,
       context, process, caller
  <1>2. startup'.at = "health" /\ phase' = phase
    BY GotoAt DEF TypeOK
  <1>3. /\ spawned' \in Pid /\ child' = spawned' /\ spawned' = spawned + 1
        /\ NoProcess \notin Pid
    BY SpawnTyped DEF TypeOK, Pid, NoProcess
  <1>4. phase # "ready" /\ alive \subseteq signalled
    BY DEF Awaiting, ChildInv, NoStrayProcess, TypeOK, Pid, NoProcess
  <1>5. ChildInv'
    <2>0. stop.of \in Nat /\ spawned \in Nat /\ stop.of <= spawned
      BY DEF ChildInv, TypeOK, Stop, Pid, NoProcess
    <2>1. stop.of <= spawned' /\ stop.of # spawned'
      BY <1>3, <2>0, Below
    <2> QED  BY <1>2, <1>3, <1>4, <2>1 DEF ChildInv, NoStrayProcess, context
  <1>6. StopInv'
    BY <1>2, <1>3, <1>4 DEF Awaiting, StopInv, Obeyed, caller
  <1> QED  BY <1>1, <1>5, <1>6

\* The child answers.
LEMMA HealthyKeeps ==
  ASSUME IInv, Healthy
  PROVE  IInv'
  <1> USE DEF IInv, Healthy
  <1>1. TypeOK'
    BY StartupTyped DEF TypeOK, Phases, CallKinds, context, process, caller
  <1>2. ChildInv'
    BY <1>1 DEF Awaiting, NoStartup, ChildInv, NoStrayProcess, TypeOK, Pid,
       NoProcess, context, process, caller
  <1>3. StopInv'
    BY <1>1, <1>2 DEF Awaiting, StopInv, ChildInv, Obeyed, Down, NoStop,
       NoStartup, TypeOK, Pid, NoProcess, context, process, caller
  <1> QED  BY <1>1, <1>2, <1>3

\* The child is told to end.
LEMMA HealthFailsKeeps ==
  ASSUME IInv, HealthFails
  PROVE  IInv'
  <1> USE DEF IInv, HealthFails
  <1>0. child # NoProcess => child \in alive
    BY DEF IInv, ChildInv
  <1>1. TypeOK'
    BY StartupTyped, <1>0 DEF Awaits, SignalChild, TypeOK, Phases, CallKinds,
       context, process, caller
  <1>2. ChildInv'
    BY <1>1 DEF Awaiting, SignalChild, ChildInv, NoStrayProcess, TypeOK, Pid,
       NoProcess, context, process, caller
  <1>3. StopInv'
    BY <1>1, <1>2 DEF Awaiting, SignalChild, StopInv, ChildInv, Obeyed, Down,
       NoStop, NoStartup, TypeOK, Pid, NoProcess, context, process, caller
  <1> QED  BY <1>1, <1>2, <1>3

\* The child of a failed attempt was told to end.
LEMMA CleanedUpKeeps ==
  ASSUME IInv, CleanedUp
  PROVE  IInv'
  <1> USE DEF IInv, CleanedUp
  <1>1. TypeOK'
    BY StartupTyped DEF Awaits, ChildAfter, PhaseAfter, ResetStopping, Goto,
       TypeOK, Phases, CallKinds, context, process, caller
  <1>2. /\ phase # "ready" /\ child \in {NoProcess, spawned}
        /\ child' = NoProcess /\ alive \subseteq signalled
    BY DEF ChildAfter, ChildInv, NoStrayProcess, TypeOK, Pid, NoProcess
  <1>3. phase' # "ready" /\ startup'.at \in {"none", "log", "report"}
    <2>1. CASE startup' = NoStartup /\ phase' = PhaseAfter(spawned)
      BY <1>2, <2>1 DEF PhaseAfter, NoStartup
    <2>2. CASE Goto("report", "failed")
      BY <2>2, GotoAt DEF TypeOK
    <2>3. CASE startup' = [startup EXCEPT !.at = "log", !.tries = @ + 1]
               /\ phase' = "starting"
      BY <2>3 DEF TypeOK, Startup
    <2> QED  BY <2>1, <2>2, <2>3
  <1>4. ChildInv'
    BY <1>2, <1>3 DEF ChildInv, NoStrayProcess
  <1>5. startup'.at = "none" => startup' = NoStartup
    <2>1. CASE stopRequested
      BY <2>1
    <2>2. CASE Goto("report", "failed")
      BY <2>2, GotoAt DEF TypeOK
    <2>3. CASE startup' = [startup EXCEPT !.at = "log", !.tries = @ + 1]
      BY <2>3 DEF TypeOK, Startup
    <2> QED  BY <2>1, <2>2, <2>3
  <1>6. ASSUME last = "stop", stop.awaits # "startup"
        PROVE  Obeyed'
    <2>1. stopRequested /\ Obeyed
      BY <1>6 DEF StopInv
    <2>2. startup' = NoStartup /\ phase' = PhaseAfter(spawned)
      BY <2>1
    <2> QED  BY <1>2, <2>1, <2>2 DEF Obeyed, NoStartup, PhaseAfter, Down
  <1>7. StopInv'
    BY <1>2, <1>5, <1>6 DEF StopInv, caller
  <1> QED  BY <1>1, <1>4, <1>7

\* The failure is written down.
LEMMA ReportedKeeps ==
  ASSUME IInv, Reported
  PROVE  IInv'
  <1> USE DEF IInv, Reported
  <1>1. TypeOK'
    BY StartupTyped DEF TypeOK, Phases, CallKinds, context, process, caller
  <1>2. ChildInv'
    BY <1>1 DEF Awaiting, NoStartup, ChildInv, NoStrayProcess, TypeOK, Pid,
       NoProcess, context, process, caller
  <1>3. StopInv'
    BY <1>1, <1>2 DEF Awaiting, StopInv, ChildInv, Obeyed, Down, NoStop,
       NoStartup, TypeOK, Pid, NoProcess, context, process, caller
  <1> QED  BY <1>1, <1>2, <1>3

\* A joined stop changes nothing.
LEMMA StopJoinedKeeps ==
  ASSUME IInv, StopJoined
  PROVE  IInv'
  <1> USE DEF IInv, StopJoined
  <1>1. TypeOK'
    BY CallTyped DEF TypeOK, Phases, CallKinds, context, process, caller
  <1>2. ChildInv'
    BY <1>1 DEF Call, ChildInv, NoStrayProcess, TypeOK, Pid, NoProcess, context,
       process, caller
  <1>3. StopInv'
    BY <1>1, <1>2 DEF Call, StopInv, ChildInv, Obeyed, Down, NoStop, NoStartup,
       TypeOK, Pid, NoProcess, context, process, caller
  <1> QED  BY <1>1, <1>2, <1>3

\* A stop signals the child, or waits for the startup.
LEMMA StopNewKeeps ==
  ASSUME IInv, StopNew
  PROVE  IInv'
  <1> USE DEF IInv, StopNew
  <1>0. child # NoProcess => child \in alive
    BY DEF IInv, ChildInv
  <1>1. TypeOK'
    BY CallTyped, StopTyped, <1>0 DEF StopChild, SignalChild, NothingToStop,
       TypeOK, Phases, CallKinds, context, process, caller
  <1>2. ChildInv'
    BY <1>1 DEF Call, StopChild, SignalChild, NothingToStop, NoStop, ChildInv,
       NoStrayProcess, TypeOK, Pid, NoProcess, context, process, caller
  <1>3. StopInv'
    BY <1>1, <1>2 DEF Call, StopChild, SignalChild, NothingToStop, StopInv,
       ChildInv, Obeyed, Down, NoStop, NoStartup, TypeOK, Pid, NoProcess,
       context, process, caller
  <1> QED  BY <1>1, <1>2, <1>3

\* A stop goes on after the startup.
LEMMA StartupSettledKeeps ==
  ASSUME IInv, StartupSettled
  PROVE  IInv'
  <1> USE DEF IInv, StartupSettled
  <1>0. child # NoProcess => child \in alive
    BY DEF IInv, ChildInv
  <1>1. TypeOK'
    BY StopTyped, <1>0 DEF StopChild, SignalChild, NothingToStop, TypeOK,
       Phases, CallKinds, context, process, caller
  <1>2. ChildInv'
    BY <1>1 DEF StopChild, SignalChild, NothingToStop, NoStop, ChildInv,
       NoStrayProcess, TypeOK, Pid, NoProcess, context, process, caller
  <1>3. StopInv'
    BY <1>1, <1>2 DEF StopChild, SignalChild, NothingToStop, StopInv, ChildInv,
       Obeyed, Down, NoStop, NoStartup, TypeOK, Pid, NoProcess, context,
       process, caller
  <1> QED  BY <1>1, <1>2, <1>3

\* The process that was stopped was told to end.
LEMMA StopEndsKeeps ==
  ASSUME IInv, StopEnds
  PROVE  IInv'
  <1> USE DEF IInv, StopEnds
  <1>1. TypeOK'
    BY StopTyped DEF ChildAfter, PhaseAfter, ResetStopping, TypeOK, Phases,
       CallKinds, context, process, caller
  <1>2. ChildInv'
    BY <1>1 DEF ChildAfter, PhaseAfter, ResetStopping, NoStop, ChildInv,
       NoStrayProcess, TypeOK, Pid, NoProcess, context, process, caller
  <1>3. StopInv'
    BY <1>1, <1>2 DEF ChildAfter, PhaseAfter, ResetStopping, StopInv, ChildInv,
       Obeyed, Down, NoStop, NoStartup, TypeOK, Pid, NoProcess, context,
       process, caller
  <1> QED  BY <1>1, <1>2, <1>3

\* An exit is noted for the child it belongs to.
LEMMA ExitKeeps ==
  ASSUME IInv, NEW p \in Pid, Exit(p)
  PROVE  IInv'
  <1> USE DEF IInv, Exit
  <1>1. TypeOK'
    BY StartupTyped DEF Awaits, TypeOK, Phases, CallKinds, context, process,
       caller
  <1>2. ChildInv'
    BY <1>1 DEF ChildInv, NoStrayProcess, TypeOK, Pid, NoProcess, context
  <1>3. CASE child # p
    BY <1>1, <1>2, <1>3 DEF StopInv, Obeyed, caller
  <1>4. CASE child = p
    <2>1. child # NoProcess /\ child' = NoProcess
      BY <1>4 DEF Pid, NoProcess
    <2>2. startup'.at \in {startup.at, "cleanup"}
      BY <1>4 DEF TypeOK, Startup
    <2>3. startup'.at = "none" => startup' = NoStartup
      BY <1>4, <2>2 DEF StopInv, TypeOK, Startup
    <2>4. ASSUME last = "stop", stop.awaits # "startup"
          PROVE  Obeyed'
      <3>1. Obeyed /\ stopping
        BY <2>1, <2>4 DEF StopInv, Obeyed
      <3>2. startup' = startup /\ phase' = "stopped"
        BY <1>4, <3>1
      <3>3. startup'.at \in {"none", "health", "cleanup"}
        BY <3>1, <3>2 DEF Obeyed
      <3>4. phase' \in Down
        BY <3>2 DEF Down
      <3> QED  BY <2>1, <3>3, <3>4 DEF Obeyed
    <2> QED  BY <1>1, <1>2, <2>1, <2>3, <2>4 DEF StopInv, caller
  <1> QED  BY <1>1, <1>2, <1>3, <1>4

-----------------------------------------------------------------------------
(***************************************************************************)
(* The theorems                                                            *)
(***************************************************************************)
\* The invariant holds when the manager is created.
LEMMA InitKeeps ==
  ASSUME Init
  PROVE  IInv
  <1> USE DEF Init
  <1>1. TypeOK
    <2>1. calls \in 0..MaxCalls /\ spawned \in 0..MaxSpawns
      BY BoundAssumption
    <2>2. launch \in Context /\ served \in Context
      BY ContextAssumption
    <2>3. startup \in Startup /\ stop \in Stop /\ child \in Pid \cup {NoProcess}
      BY StartupTyped, StopTyped
    <2> QED  BY <2>1, <2>2, <2>3 DEF TypeOK, Phases, CallKinds
  <1>2. ChildInv
    BY DEF ChildInv, NoStrayProcess, NoProcess, NoStop, NoStartup
  <1>3. StopInv
    BY DEF StopInv
  <1> QED  BY <1>1, <1>2, <1>3 DEF IInv

\* A step that changes nothing keeps it.
LEMMA StutterKeeps ==
  ASSUME IInv, UNCHANGED vars
  PROVE  IInv'
  <1>1. TypeOK'
    BY DEF IInv, TypeOK, vars
  <1>2. ChildInv' /\ StopInv'
    BY DEF IInv, ChildInv, NoStrayProcess, StopInv, Obeyed, vars
  <1> QED  BY <1>1, <1>2 DEF IInv

\* Every step keeps it.
LEMMA NextKeeps ==
  ASSUME IInv, [Next]_vars
  PROVE  IInv'
  <1>1. CASE UNCHANGED vars
    BY <1>1, StutterKeeps
  <1>2. CASE Caller
    BY <1>2, StartReadyKeeps, StartJoinedKeeps, StartNewKeeps, StopJoinedKeeps,
       StopNewKeeps DEF Caller
  <1>3. CASE StartStep
    BY <1>3, LayoutReadyKeeps, ModeReadKeeps, HookDoneKeeps, PortAllocatedKeeps,
       StepFailsKeeps, SpawnKeeps, HealthyKeeps, HealthFailsKeeps, CleanedUpKeeps,
       ReportedKeeps DEF StartStep
  <1>4. CASE StopStep
    BY <1>4, StartupSettledKeeps, StopEndsKeeps DEF StopStep
  <1>5. CASE \E p \in Pid : Exit(p)
    BY <1>5, ExitKeeps
  <1> QED  BY <1>1, <1>2, <1>3, <1>4, <1>5 DEF Next

\* The inductive invariant holds in every reachable state, for every set of
\* launch contexts, number of port retries and bound.
THEOREM Invariance == Spec => []IInv
  <1>1. Init => IInv
    BY InitKeeps
  <1>2. IInv /\ [Next]_vars => IInv'
    BY NextKeeps
  <1> QED  BY <1>1, <1>2, PTL DEF Spec

\* Every variable of the manager keeps its type.
THEOREM TypeCorrect == Spec => []TypeOK
  <1>1. IInv => TypeOK
    BY DEF IInv
  <1> QED  BY <1>1, Invariance, PTL

\* Every process that may run is the manager's child or was told to end,
\* however starts, stops, port retries, kills and late exits interleave.
THEOREM NoProcessIsLost == Spec => []NoStrayProcess
  <1>1. IInv => NoStrayProcess
    BY DEF IInv, ChildInv
  <1> QED  BY <1>1, Invariance, PTL

\* A ready Runtime has a child, in the launch context start() compares with.
THEOREM ReadyMeansServed == Spec => []ReadyIsServed
  <1>1. IInv => ReadyIsServed
    BY DEF IInv, ChildInv, ReadyIsServed
  <1> QED  BY <1>1, Invariance, PTL

\* A stop() that found no other stop open leaves nothing running that was not
\* told to end, unless start() was called after it.
THEOREM StopIsObeyed == Spec => []StopTakesEffect
  <1>1. IInv => StopTakesEffect
    BY DEF IInv, ChildInv, NoStrayProcess, StopInv, Obeyed, StopTakesEffect, Quiet,
       NoStop, TypeOK, Pid, NoProcess
  <1> QED  BY <1>1, Invariance, PTL

-----------------------------------------------------------------------------
(***************************************************************************)
(* What a start reaches, and that the phase settles                        *)
(***************************************************************************)
\* Since a start that found no stop open, no stop was asked for: only the
\* failure of a health check tells the child to end, and the startup leads to
\* a Runtime or to a failure that is shown.
StartInv ==
  last = "start" =>
    /\ stop = NoStop /\ ~stopRequested /\ startup.allow
    /\ stopping => startup.at = "cleanup"
    /\ startup.at = "report" => phase = "failed"
    /\ startup.at = "none" => phase \in {"ready", "failed"}

\* A stop asked for before the launch waits for the startup.  A phase that
\* waits for a promise has one: the startup, the
\* stop that waits for it, or the stop that awaits the child's exit.
Passing == {"starting", "stopping"}
SettledInv ==
  /\ stopRequested /\ startup.at \in {"layout", "mode", "hook", "port", "log"} =>
       stop.awaits = "startup"
  /\ startup.at = "report" => phase \in {"failed", "stopped"}
  /\ /\ startup.at \in {"health", "cleanup"}
     /\ stopRequested /\ stop.awaits # "startup"
     => IF child # NoProcess THEN stopping ELSE phase \notin Passing
  /\ startup.at = "none" /\ stop.awaits # "startup" /\ phase \in Passing =>
       /\ phase = "stopping" /\ stopping /\ child # NoProcess
       /\ stop = [awaits |-> "exit", of |-> child]

\* A call of start().
LEMMA StartCalls ==
  ASSUME IInv, StartInv, SettledInv, NEW c \in Context \cup {Unsaid},
         \/ StartReady(c)
         \/ \E allow \in BOOLEAN : StartNew(c, allow)
         \/ StartJoined
  PROVE  StartInv' /\ SettledInv'
  <1>1. CASE StartReady(c)
    BY <1>1 DEF StartReady, StartInv, SettledInv, Passing, context, process
  <1>2. ASSUME NEW allow \in BOOLEAN, StartNew(c, allow)
        PROVE  StartInv' /\ SettledInv'
    BY <1>2 DEF StartNew, StartInv, SettledInv, Passing
  <1>3. CASE StartJoined
    BY <1>3 DEF StartJoined, StartInv, SettledInv, Passing, context, process
  <1> QED  BY <1>1, <1>2, <1>3

\* A call of stop().
LEMMA StopCalls ==
  ASSUME IInv, StartInv, SettledInv, StopJoined \/ StopNew
  PROVE  StartInv' /\ SettledInv'
  <1>1. CASE StopJoined
    BY <1>1 DEF StopJoined, StartInv, SettledInv, Passing, context, process
  <1>2. CASE StopNew
    BY <1>2 DEF StopNew, StopChild, SignalChild, NothingToStop, Down, StartInv,
       SettledInv, Passing, IInv, TypeOK, Phases, NoStop, ChildInv, StopInv
  <1> QED  BY <1>1, <1>2

\* An await before the launch: only a request to stop, or a normal mode that
\* may not be started, ends the startup there without a failure.
LEMMA BeforeLaunchLeads ==
  ASSUME IInv, StartInv, SettledInv,
         \/ LayoutReady
         \/ \E c \in Context : ModeRead(c)
         \/ HookDone
         \/ PortAllocated
         \/ StepFails
  PROVE  StartInv' /\ SettledInv'
  <1>1. /\ startup \in Startup
        /\ startup.at \in {"layout", "mode", "hook", "port", "log"}
        /\ UNCHANGED <<process, stop, stopRequested, caller>>
    BY DEF LayoutReady, ModeRead, HookDone, PortAllocated, StepFails, Awaiting,
       IInv, TypeOK
  <1>2. \/ MarkStopped /\ (stopRequested \/ ~startup.allow)
        \/ \E a \in {"mode", "hook", "port", "log"}, p \in Phases : Goto(a, p)
        \/ Goto("report", "failed")
    BY DEF LayoutReady, ModeRead, HookDone, PortAllocated, StepFails, Selected,
       Failing, IInv, TypeOK, Phases
  <1>3. CASE MarkStopped /\ (stopRequested \/ ~startup.allow)
    BY <1>1, <1>3, MarkStoppedAt DEF StartInv, SettledInv, Passing, process, caller
  <1>4. ASSUME NEW a \in {"mode", "hook", "port", "log"}, NEW p \in Phases, Goto(a, p)
        PROVE  StartInv' /\ SettledInv'
    <2>1. startup'.at = a /\ startup'.allow = startup.allow
      BY <1>1, <1>4 DEF Goto, Startup
    <2> QED  BY <1>1, <2>1 DEF StartInv, SettledInv, process, caller
  <1>5. CASE Goto("report", "failed")
    <2>1. startup'.at = "report" /\ startup'.allow = startup.allow /\ phase' = "failed"
      BY <1>1, <1>5 DEF Goto, Startup
    <2> QED  BY <1>1, <2>1 DEF StartInv, SettledInv, process, caller
  <1> QED  BY <1>2, <1>3, <1>4, <1>5

\* The launch, the health of the process and the report of a failure.
LEMMA LaunchLeads ==
  ASSUME IInv, IInv', StartInv, SettledInv, Spawn \/ Healthy \/ HealthFails \/ Reported
  PROVE  StartInv' /\ SettledInv'
  <1>0. startup \in Startup
    BY DEF IInv, TypeOK
  <1>1. CASE Spawn
    <2>1. startup'.at = "health" /\ startup'.allow = startup.allow /\ startup.at = "log"
      BY <1>0, <1>1 DEF Spawn, Awaiting, Goto, Startup
    <2> QED  BY <1>1, <2>1 DEF Spawn, StartInv, SettledInv, caller
  <1>2. CASE Healthy
    BY <1>2 DEF Healthy, Awaiting, NoStartup, StartInv, SettledInv, Passing, process, caller
  <1>3. CASE HealthFails
    <2>1. startup'.at = "cleanup" /\ startup'.allow = startup.allow
      BY <1>0, <1>3 DEF HealthFails, Startup
    <2> QED  BY <1>3, <2>1 DEF HealthFails, Awaiting, SignalChild, StartInv, SettledInv,
             Passing, caller
  <1>4. CASE Reported
    BY <1>4 DEF Reported, Awaiting, NoStartup, StartInv, SettledInv, Passing, process, caller
  <1> QED  BY <1>1, <1>2, <1>3, <1>4

\* The end of a failed attempt: the next port, or a failure that is shown.
LEMMA CleanupLeads ==
  ASSUME IInv, StartInv, SettledInv, CleanedUp
  PROVE  StartInv' /\ SettledInv'
  <1>1. /\ startup \in Startup /\ startup.at = "cleanup"
        /\ UNCHANGED <<stop, stopRequested, last>>
        /\ stopping' = (stopping /\ stopRequested)
    BY DEF CleanedUp, ResetStopping, caller, IInv, TypeOK
  <1>2. child \in {NoProcess, spawned} /\ child' = NoProcess /\ phase \in Phases
    BY DEF CleanedUp, ChildAfter, IInv, ChildInv, TypeOK
  <1>3. CASE stopRequested /\ startup' = NoStartup /\ phase' = PhaseAfter(spawned)
    BY <1>1, <1>2, <1>3 DEF PhaseAfter, NoStartup, NoProcess, StartInv, SettledInv, Passing
  <1>4. CASE /\ ~stopRequested
             /\ startup' = [startup EXCEPT !.at = "log", !.tries = @ + 1]
    <2>1. startup'.at = "log" /\ startup'.allow = startup.allow
      BY <1>1, <1>4 DEF Startup
    <2> QED  BY <1>1, <1>4, <2>1 DEF StartInv, SettledInv
  <1>5. CASE ~stopRequested /\ Goto("report", "failed")
    <2>1. startup'.at = "report" /\ startup'.allow = startup.allow /\ phase' = "failed"
      BY <1>1, <1>5 DEF Goto, Startup
    <2> QED  BY <1>1, <1>5, <2>1 DEF StartInv, SettledInv
  <1> QED  BY <1>3, <1>4, <1>5 DEF CleanedUp

\* The two halves of a stop.
LEMMA StopLeads ==
  ASSUME IInv, StartInv, SettledInv, StopStep
  PROVE  StartInv' /\ SettledInv'
  <1>1. CASE StartupSettled
    BY <1>1 DEF StartupSettled, StopChild, SignalChild, NothingToStop, Down, StartInv,
       SettledInv, Passing, NoStop, caller, IInv, TypeOK, Phases
  <1>2. CASE StopEnds
    BY <1>2 DEF StopEnds, ChildAfter, PhaseAfter, ResetStopping, StartInv, SettledInv,
       Passing, NoStop, caller, IInv, TypeOK, ChildInv, StopInv
  <1> QED  BY <1>1, <1>2 DEF StopStep

\* An exit is shown as a failure, unless the process was told to end.
LEMMA ExitLeads ==
  ASSUME IInv, IInv', StartInv, SettledInv, NEW p \in Pid, Exit(p)
  PROVE  StartInv' /\ SettledInv'
  <1>1. startup \in Startup /\ UNCHANGED <<stop, stopping, stopRequested, last>>
    BY DEF Exit, caller, IInv, TypeOK
  <1>2. CASE child # p
    BY <1>1, <1>2 DEF Exit, StartInv, SettledInv
  <1>3. CASE child = p
    <2>1. /\ child # NoProcess /\ child' = NoProcess
          /\ phase' = IF stopping THEN "stopped"
                      ELSE IF phase = "ready" THEN "failed" ELSE phase
      BY <1>3 DEF Exit, Pid, NoProcess
    <2>2. /\ startup'.allow = startup.allow
          /\ \/ startup' = startup
             \/ startup.at = "health" /\ startup'.at = "cleanup" /\ ~stopping
      BY <1>1, <1>3 DEF Exit, Startup
    <2>3. StartInv'
      BY <1>1, <2>1, <2>2 DEF StartInv
    <2>4. SettledInv'
      BY <1>1, <2>1, <2>2 DEF SettledInv, Passing
    <2> QED  BY <2>3, <2>4
  <1> QED  BY <1>2, <1>3

\* Every step keeps both.
LEMMA NextLeads ==
  ASSUME IInv, IInv', StartInv, SettledInv, [Next]_vars
  PROVE  StartInv' /\ SettledInv'
  <1>1. CASE UNCHANGED vars
    BY <1>1 DEF vars, StartInv, SettledInv
  <1>2. CASE Caller
    BY <1>2, StartCalls, StopCalls DEF Caller
  <1>3. CASE StartStep
    BY <1>3, BeforeLaunchLeads, LaunchLeads, CleanupLeads DEF StartStep
  <1>4. CASE StopStep
    BY <1>4, StopLeads
  <1>5. CASE \E p \in Pid : Exit(p)
    BY <1>5, ExitLeads
  <1> QED  BY <1>1, <1>2, <1>3, <1>4, <1>5 DEF Next

\* Both hold in every reachable state.
LEMMA Leads == Spec => [](StartInv /\ SettledInv)
  <1>1. Init => StartInv /\ SettledInv
    BY DEF Init, StartInv, SettledInv, Passing, NoStartup
  <1>2. IInv /\ IInv' /\ StartInv /\ SettledInv /\ [Next]_vars
          => StartInv' /\ SettledInv'
    BY NextLeads
  <1> QED  BY <1>1, <1>2, Invariance, PTL DEF Spec

\* A start() that began a startup when no stop was open ends with a Runtime or
\* with a failure the person is shown, unless a later call stops it.
THEOREM StartIsAnswered == Spec => []StartTakesEffect
  <1>1. StartInv => StartTakesEffect
    BY DEF StartInv, StartTakesEffect, Quiet, NoStartup
  <1> QED  BY <1>1, Leads, PTL

\* When no promise is open, the phase is not one that waits for a promise, and
\* a child exists exactly when it is "ready": the window, which shows what the
\* phase says, never waits for something nobody is doing.
THEOREM QuietMeansSettled == Spec => []QuietIsSettled
  <1>1. IInv /\ SettledInv => QuietIsSettled
    BY DEF IInv, ChildInv, StopInv, SettledInv, Passing, QuietIsSettled, Quiet,
       NoStartup, NoStop
  <1> QED  BY <1>1, Leads, Invariance, PTL
=============================================================================
