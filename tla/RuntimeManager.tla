--------------------------- MODULE RuntimeManager ---------------------------
(***************************************************************************)
(* RuntimeManager: the owner of the DSH child process.  Its callers (the    *)
(* window, the recovery modes, the proxy settings, plugin changes, the      *)
(* shutdown) call start() and stop() without knowing of each other; a       *)
(* restart is a stop() followed by a start().  A startup is one promise     *)
(* that later start() calls share, a stop is one promise that later stop()  *)
(* calls share, and between two of their awaits anything may happen: a      *)
(* call, the exit of any process, a timer.                                  *)
(*                                                                         *)
(* Processes are numbered in the order of their launch.  A process is alive *)
(* until its 'exit' event is handled.  Ports, URLs, logs and the snapshot's *)
(* message are left out; a launch context is a model value.                 *)
(***************************************************************************)
EXTENDS Naturals

CONSTANTS
    Context,      \* launch contexts: a mode with its home and profile
    Normal,       \* the context of the normal mode
    Unsaid,       \* start() is called without a context
    PortRetries,  \* portRetryCount
    MaxSpawns,    \* bound: processes launched
    MaxCalls      \* bound: calls of start() and stop()

ASSUME ContextAssumption == Normal \in Context /\ Unsaid \notin Context

ASSUME BoundAssumption ==
    PortRetries \in Nat /\ MaxSpawns \in Nat /\ MaxCalls \in Nat

VARIABLES
    phase,          \* snapshot().phase
    launch,         \* launchContext
    initialized,    \* launchContextInitialized
    child,          \* this.child, or NoProcess
    startup,        \* startPromise: where startInternal stands
    stop,           \* stopPromise: what it awaits, and the process it ends
    stopping,       \* the flag the exit handler looks at
    stopRequested,  \* the flag a startup looks at after each await
    alive,          \* processes whose exit was not handled yet
    signalled,      \* those of them that were told to end
    spawned,        \* the last process launched
    served,         \* the context it was launched in
    calls,          \* counts calls
    last            \* the last call, for the properties

vars == <<phase, launch, initialized, child, startup, stop, stopping,
          stopRequested, alive, signalled, spawned, served, calls, last>>
context == <<launch, initialized>>
process == <<child, stopping, alive, signalled, spawned, served>>
caller == <<calls, last>>

NoProcess == 0
Pid == 1..MaxSpawns

Phases == {"idle", "starting", "ready", "stopping", "stopped", "failed"}
Down == {"idle", "stopped"}

(* The await a startup is suspended in: the directories, the saved mode, the *)
(* hook before a start, the port, the log file, the health of the process,  *)
(* its end after a failure, the report of the failure.                       *)
Awaits == {"none", "layout", "mode", "hook", "port", "log",
           "health", "cleanup", "report"}

(* What a call found.  "overlapping start" is one during a stop, or one on   *)
(* whose behalf the normal mode may not be started.                          *)
CallKinds == {"none", "start", "joined start", "overlapping start",
              "stop", "joined stop"}

Startup == [at : Awaits, allow : BOOLEAN, tries : 0..PortRetries]
Stop == [awaits : {"none", "startup", "exit"}, of : Pid \cup {NoProcess}]

TypeOK ==
    /\ phase \in Phases
    /\ launch \in Context
    /\ initialized \in BOOLEAN
    /\ child \in Pid \cup {NoProcess}
    /\ startup \in Startup
    /\ stop \in Stop
    /\ stopping \in BOOLEAN
    /\ stopRequested \in BOOLEAN
    /\ alive \subseteq Pid
    /\ signalled \subseteq alive
    /\ spawned \in 0..MaxSpawns
    /\ served \in Context
    /\ calls \in 0..MaxCalls
    /\ last \in CallKinds

NoStartup == [at |-> "none", allow |-> TRUE, tries |-> 0]
NoStop == [awaits |-> "none", of |-> NoProcess]

Init ==
    /\ phase = "idle"
    /\ launch = Normal
    /\ initialized = FALSE
    /\ child = NoProcess
    /\ startup = NoStartup
    /\ stop = NoStop
    /\ stopping = FALSE
    /\ stopRequested = FALSE
    /\ alive = {}
    /\ signalled = {}
    /\ spawned = 0
    /\ served = Normal
    /\ calls = 0
    /\ last = "none"

-----------------------------------------------------------------------------
(* The event loop: a continuation whose promise is settled runs before the  *)
(* next event.                                                              *)

Exited(p) == p \notin alive

Drained ==
    /\ ~(startup.at = "cleanup" /\ Exited(spawned))
    /\ ~(stop.awaits = "exit" /\ Exited(stop.of))
    /\ ~(stop.awaits = "startup" /\ startup.at = "none")

Call == Drained /\ calls < MaxCalls /\ calls' = calls + 1

-----------------------------------------------------------------------------
(* stopInternal()                                                           *)

(* It signals the child and awaits its exit, or the timer that kills it. *)
SignalChild ==
    /\ stopping' = TRUE
    /\ phase' = "stopping"
    /\ signalled' = signalled \cup {child}

(* Faulty variant of Ended, under CallsSettle: no timer kills the process. *)
EndedBySelf(p) == Exited(p)

(* It leaves alone a child that was launched in the meantime. *)
Ended(p) == Exited(p) \/ Drained
ChildAfter(p) == IF child = p THEN NoProcess ELSE child

PhaseAfter(p) == IF child = p THEN "stopped" ELSE phase

ResetStopping == stopping' = (stopping /\ stopRequested)

-----------------------------------------------------------------------------
(* start()                                                                  *)

(* A ready Runtime answers itself, or refuses another context. *)
StartReady(c) ==
    /\ Call
    /\ phase = "ready"
    /\ last' = IF c \notin {Unsaid, launch} THEN last
               ELSE IF stop = NoStop THEN "joined start" ELSE "overlapping start"
    /\ UNCHANGED <<phase, context, process, startup, stop, stopRequested>>

StartJoined ==
    /\ Call
    /\ phase # "ready"
    /\ startup.at # "none"
    /\ last' = IF startup.allow /\ stop = NoStop THEN "joined start"
               ELSE "overlapping start"
    /\ UNCHANGED <<phase, context, process, startup, stop, stopRequested>>

(* Faulty variants of StartNew: a ready Runtime is started again (under      *)
(* NoStrayProcess), or an old stop request stays (under StartTakesEffect).   *)
StartNewBeside(c, allow) ==
    /\ Call
    /\ startup.at = "none"
    /\ IF c = Unsaid THEN UNCHANGED context
       ELSE launch' = c /\ initialized' = TRUE
    /\ stopRequested' = FALSE
    /\ stopping' = FALSE
    /\ startup' = [at |-> "layout", allow |-> allow, tries |-> 0]
    /\ last' = IF allow /\ stop = NoStop THEN "start" ELSE "overlapping start"
    /\ UNCHANGED <<phase, child, stop, alive, signalled, spawned, served>>

StartNewStopped(c, allow) ==
    /\ Call
    /\ phase # "ready"
    /\ startup.at = "none"
    /\ IF c = Unsaid THEN UNCHANGED context
       ELSE launch' = c /\ initialized' = TRUE
    /\ startup' = [at |-> "layout", allow |-> allow, tries |-> 0]
    /\ last' = IF allow /\ stop = NoStop THEN "start" ELSE "overlapping start"
    /\ UNCHANGED <<phase, process, stop, stopRequested>>

StartNew(c, allow) ==
    /\ Call
    /\ phase # "ready"
    /\ startup.at = "none"
    /\ IF c = Unsaid THEN UNCHANGED context
       ELSE launch' = c /\ initialized' = TRUE
    /\ stopRequested' = FALSE
    /\ stopping' = FALSE
    /\ startup' = [at |-> "layout", allow |-> allow, tries |-> 0]
    /\ last' = IF allow /\ stop = NoStop THEN "start" ELSE "overlapping start"
    /\ UNCHANGED <<phase, child, stop, alive, signalled, spawned, served>>

-----------------------------------------------------------------------------
(* startInternal() and startOnPort(), from one await to the next            *)

Awaiting(a) == startup.at = a /\ Drained

Goto(a, p) ==
    /\ startup' = [startup EXCEPT !.at = a]
    /\ phase' = p

MarkStopped == startup' = NoStartup /\ phase' = "stopped"

(* A rejected await: fail() shows the failure and then writes it down. *)
Failing == IF stopRequested THEN MarkStopped ELSE Goto("report", "failed")

Selected(c, p) ==
    IF ~startup.allow /\ c = Normal THEN MarkStopped ELSE Goto("hook", p)

LayoutReady ==
    /\ Awaiting("layout")
    /\ IF stopRequested THEN MarkStopped
       ELSE IF ~initialized THEN Goto("mode", "starting")
       ELSE Selected(launch, "starting")
    /\ UNCHANGED <<context, process, stop, stopRequested, caller>>

ModeRead(c) ==
    /\ Awaiting("mode")
    /\ IF stopRequested
       THEN MarkStopped /\ UNCHANGED context
       ELSE launch' = c /\ initialized' = TRUE /\ Selected(c, phase)
    /\ UNCHANGED <<process, stop, stopRequested, caller>>

HookDone ==
    /\ Awaiting("hook")
    /\ IF stopRequested THEN MarkStopped ELSE Goto("port", phase)
    /\ UNCHANGED <<context, process, stop, stopRequested, caller>>

PortAllocated ==
    /\ Awaiting("port")
    /\ IF stopRequested THEN MarkStopped ELSE Goto("log", "starting")
    /\ UNCHANGED <<context, process, stop, stopRequested, caller>>

(* Any of these awaits, or the launch itself, may reject. *)
StepFails ==
    /\ \E a \in {"layout", "mode", "hook", "port", "log"} : Awaiting(a)
    /\ Failing
    /\ UNCHANGED <<context, process, stop, stopRequested, caller>>

Spawn ==
    /\ Awaiting("log")
    /\ spawned < MaxSpawns
    /\ spawned' = spawned + 1
    /\ child' = spawned'
    /\ alive' = alive \cup {spawned'}
    /\ served' = launch
    /\ Goto("health", phase)
    /\ UNCHANGED <<context, stop, stopping, stopRequested, signalled, caller>>

(* Faulty variant of Healthy, under ReadyIsServed: any answer will do. *)
HealthyUnchecked ==
    /\ Awaiting("health")
    /\ phase' = "ready"
    /\ startup' = NoStartup
    /\ UNCHANGED <<context, process, stop, stopRequested, caller>>

Healthy ==
    /\ Awaiting("health")
    /\ child # NoProcess
    /\ phase' = "ready"
    /\ startup' = NoStartup
    /\ UNCHANGED <<context, process, stop, stopRequested, caller>>

(* The time is up, the process reports an error, or it answered but ended. *)
HealthFails ==
    /\ Awaiting("health")
    /\ startup' = [startup EXCEPT !.at = "cleanup"]
    /\ IF child = NoProcess THEN UNCHANGED <<stopping, phase, signalled>>
       ELSE SignalChild
    /\ UNCHANGED <<context, child, alive, spawned, served, stop, stopRequested,
                   caller>>

(* The catch of startOnPort(): the process is gone.  An occupied port is    *)
(* followed by the next one.                                                *)
CleanedUp ==
    /\ startup.at = "cleanup"
    /\ Ended(spawned)
    /\ child' = ChildAfter(spawned)
    /\ ResetStopping
    /\ \/ stopRequested /\ startup' = NoStartup /\ phase' = PhaseAfter(spawned)
       \/ /\ ~stopRequested
          /\ startup.tries < PortRetries
          /\ startup' = [startup EXCEPT !.at = "log", !.tries = @ + 1]
          /\ phase' = "starting"
       \/ ~stopRequested /\ Goto("report", "failed")
    /\ UNCHANGED <<context, alive, signalled, spawned, served, stop,
                   stopRequested, caller>>

Reported ==
    /\ Awaiting("report")
    /\ startup' = NoStartup
    /\ UNCHANGED <<phase, context, process, stop, stopRequested, caller>>

-----------------------------------------------------------------------------
(* stop()                                                                   *)

StopJoined ==
    /\ Call
    /\ stop # NoStop
    /\ last' = "joined stop"
    /\ UNCHANGED <<phase, context, process, startup, stop, stopRequested>>

StopChild ==
    /\ child # NoProcess
    /\ SignalChild
    /\ stop' = [awaits |-> "exit", of |-> child]

NothingToStop ==
    /\ child = NoProcess
    /\ phase' = IF phase \in Down THEN phase ELSE "stopped"
    /\ stop' = NoStop
    /\ UNCHANGED <<stopping, signalled>>

StopNew ==
    /\ Call
    /\ stop = NoStop
    /\ last' = "stop"
    /\ stopRequested' = TRUE
    /\ \/ StopChild
       \/ startup.at = "none" /\ NothingToStop
       \/ /\ startup.at # "none"
          /\ child = NoProcess
          /\ stop' = [awaits |-> "startup", of |-> NoProcess]
          /\ UNCHANGED <<phase, stopping, signalled>>
    /\ UNCHANGED <<context, child, startup, alive, spawned, served>>

(* Faulty variant of StartupSettled, under StopTakesEffect: the startup is   *)
(* taken to have seen the request.                                          *)
StartupSettledBelieved ==
    /\ stop.awaits = "startup"
    /\ startup.at = "none"
    /\ phase' = "stopped"
    /\ stop' = NoStop
    /\ UNCHANGED <<context, process, startup, stopRequested, caller>>

(* The startup it waited for has come to its end. *)
StartupSettled ==
    /\ stop.awaits = "startup"
    /\ startup.at = "none"
    /\ StopChild \/ NothingToStop
    /\ UNCHANGED <<context, child, startup, stopRequested, alive, spawned, served,
                   caller>>

StopEnds ==
    /\ stop.awaits = "exit"
    /\ Ended(stop.of)
    /\ child' = ChildAfter(stop.of)
    /\ phase' = PhaseAfter(stop.of)
    /\ ResetStopping
    /\ stop' = NoStop
    /\ UNCHANGED <<context, startup, stopRequested, alive, signalled, spawned,
                   served, caller>>

-----------------------------------------------------------------------------
(* The 'exit' event of a process, told to end or not.                       *)
Exit(p) ==
    /\ Drained
    /\ p \in alive
    /\ alive' = alive \ {p}
    /\ signalled' = signalled \ {p}
    /\ IF child # p THEN UNCHANGED <<child, phase, startup>>
       ELSE /\ child' = NoProcess
            /\ phase' = IF stopping THEN "stopped"
                        ELSE IF phase = "ready" THEN "failed" ELSE phase
            /\ startup' = IF ~stopping /\ phase # "ready" /\ startup.at = "health"
                          THEN [startup EXCEPT !.at = "cleanup"] ELSE startup
    /\ UNCHANGED <<context, stop, stopping, stopRequested, spawned, served, caller>>

-----------------------------------------------------------------------------
StartStep ==
    \/ LayoutReady
    \/ \E c \in Context : ModeRead(c)
    \/ HookDone
    \/ PortAllocated
    \/ StepFails
    \/ Spawn
    \/ Healthy
    \/ HealthFails
    \/ CleanedUp
    \/ Reported

StopStep == StartupSettled \/ StopEnds

Caller ==
    \/ \E c \in Context \cup {Unsaid} :
          StartReady(c) \/ \E allow \in BOOLEAN : StartNew(c, allow)
    \/ StartJoined
    \/ StopJoined
    \/ StopNew

Next == Caller \/ StartStep \/ StopStep \/ \E p \in Pid : Exit(p)

(* Every await of a startup is a file operation, a port, or ends with        *)
(* startupTimeoutMs; a stop ends with stopTimeoutMs.  No process has to exit *)
(* and nobody has to call.                                                   *)
Fairness == WF_vars(StartStep) /\ WF_vars(StopStep)

Spec == Init /\ [][Next]_vars /\ Fairness

-----------------------------------------------------------------------------
(* Properties                                                               *)

Quiet == startup = NoStartup /\ stop = NoStop

(* Every process that may still run is the one the manager knows and can    *)
(* stop, or was already told to end: no interleaving of starts, stops, port *)
(* retries, kills and late exits leaves a second Runtime on the same data.  *)
NoStrayProcess == alive \subseteq signalled \cup {child}

(* "ready" is only shown for a child whose exit was not seen, launched in   *)
(* the context the manager holds: start() answers from exactly these two.   *)
ReadyIsServed ==
    phase = "ready" => child # NoProcess /\ child = spawned /\ served = launch

(* When no promise is open, the phase is not one of those that wait for one, *)
(* and a child exists exactly in the phase "ready".                          *)
QuietIsSettled ==
    Quiet => /\ phase \notin {"starting", "stopping"}
             /\ (child # NoProcess) = (phase = "ready")

(* A stop() that found no other stop open is obeyed: unless start() was     *)
(* called after it, nothing runs that was not told to end.                  *)
StopTakesEffect ==
    Quiet /\ last = "stop" => phase \in Down /\ alive \subseteq signalled

(* The same of every stop(): test/runtime/runtime-manager.test.ts:280 'does *)
(* not spawn a Runtime after shutdown is requested during startup'.          *)
EveryStopTakesEffect ==
    Quiet /\ last \in {"stop", "joined stop"} => alive \subseteq signalled

(* A start() that began a startup when no stop was open ends with a Runtime *)
(* or with a failure the person is shown, unless a later call stops it.      *)
StartTakesEffect == Quiet /\ last = "start" => phase \in {"ready", "failed"}

(* The same of a start() that joined a startup when no stop was open, as a  *)
(* restart does: runtime-manager.test.ts:259 'lets an explicit normal       *)
(* restart supersede an in-flight initial safe mode read'.                   *)
EveryStartTakesEffect ==
    Quiet /\ last \in {"start", "joined start"} => phase \in {"ready", "failed"}

(* Every startup and every stop settles, so no caller waits forever: not a  *)
(* stop for a startup nor a startup for a process that is already gone.     *)
CallsSettle ==
    /\ startup # NoStartup ~> startup = NoStartup
    /\ stop # NoStop ~> stop = NoStop
=============================================================================
