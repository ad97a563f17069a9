------------------------------ MODULE Recovery ------------------------------
(***************************************************************************)
(* Changes of DSH plugins under a recovery transaction                     *)
(* (plugin-recovery-coordinator.ts), the snapshots and the transaction     *)
(* they rest on, and the restoration of a snapshot by renaming whole       *)
(* directories (recovery-manager.ts, recovery-restore-coordinator.ts),     *)
(* while the Runtime boots, fails and is started again by the user, the    *)
(* run stores write, file operations fail and the process dies.            *)
(*                                                                         *)
(* A file operation and the publication that follows it are one step; one  *)
(* that fails is not followed by a publication.  A snapshot is taken in    *)
(* one step.  Of the Runtime (RuntimeManager) only its phase, its mode and *)
(* the plugins it was started with are kept.                               *)
(***************************************************************************)
EXTENDS Naturals, FiniteSets

CONSTANTS
  Change,       \* changes of plugins the user may ask for, each once
  Callers,      \* plugin operations the Store page runs at a time
  MaxSnapshots, \* snapshots kept of a kind (7 by default)
  MaxBoots,     \* bound on the launches the user asks for
  MaxRestores,  \* bound on restorations
  MaxWrites,    \* bound on the writes of the run stores
  MaxFaults,    \* bound on failing file operations and Runtime exits
  MaxRestarts   \* bound on restarts of the process

ASSUME BoundsAssumption ==
  /\ {Callers, MaxSnapshots} \subseteq Nat \ {0}
  /\ {MaxBoots, MaxRestores, MaxWrites, MaxFaults, MaxRestarts} \subseteq Nat

VARIABLES
  live,      \* which restoration put a directory there, 0: it is missing
  profile,   \* the changes made to the profile in harness/
  stored,    \* version of the run records in state/
  cached,    \* version of the run records the stores hold in memory
  snaps,     \* the complete snapshots in backups/
  made,      \* number of snapshots made so far
  file,      \* the pending transaction on disk
  mem,       \* ... and in memory
  failure,   \* a Runtime failure without a transaction is shown
  rt,        \* the Runtime
  tasks,     \* listeners of the Runtime that have not finished
  op,        \* the plugin operation of a change
  rs,        \* the restoration under way
  verified,  \* changes a normal boot came up with (history)
  excused,   \* changes no boot had to prove, or that a race forgot (history)
  early,     \* snapshots deleted when no transaction named them (history)
  due,       \* which restoration each directory should stem from (history)
  torn,      \* the process died while directories were moved (history)
  boots, restores, faults, restarts

data    == <<live, profile, stored>>
backups == <<snaps, made>>
pending == <<file, mem, failure>>
history == <<verified, excused, early, due, torn>>
bounds  == <<boots, restores, faults, restarts>>
vars    == <<data, cached, backups, pending, rt, tasks, op, rs, history, bounds>>

\* harness (1), state (2) and workflow (3), in this order.  An archive holds
\* them up to its last: a legacy one is without the third.
Dir  == 1..3
None == [change |-> "none"]
Idle == [phase |-> "idle"]
NoDir == [put |-> 0, profile |-> {}, stored |-> 0]
NoOp == [pc |-> "idle"]

\* A snapshot is left from a restoration in an earlier session, perhaps by a
\* version that knew two components only.
Init ==
  /\ live = [d \in Dir |-> 1]  /\ profile = {}  /\ stored = 1  /\ cached = 1
  /\ \E last \in {2, 3} :
       snaps = {[id |-> 1, kind |-> "pre-restore", profile |-> {}, stored |-> 0,
                 last |-> last]}
  /\ made = 1
  /\ file = None  /\ mem = None  /\ failure = FALSE
  /\ rt = [phase |-> "stopped", mode |-> "normal", loaded |-> {}]
  /\ tasks = {}  /\ op = [c \in Change |-> NoOp]  /\ rs = Idle
  /\ verified = {}  /\ excused = {}  /\ early = {}
  /\ due = [d \in Dir |-> 1]  /\ torn = FALSE
  /\ boots = 0  /\ restores = 0  /\ faults = 0  /\ restarts = 0

Fault == faults < MaxFaults /\ faults' = faults + 1

\* A file operation fails, which it does without a fault if it cannot succeed.
FailsUnless(possible) == IF possible THEN Fault ELSE UNCHANGED faults

Whole == \A d \in Dir : live[d] # 0
Ids   == {s.id : s \in snaps}
Snap(i) == CHOOSE s \in snaps : s.id = i

-----------------------------------------------------------------------------
(* Snapshots and the transaction                                           *)

\* rotate: of a kind the newest are kept, and the one named.
Rotated(all, kind, keep, kept) ==
  {s \in all : \/ s.kind # kind \/ s.id = kept
               \/ Cardinality({t \in all : t.kind = kind /\ t.id > s.id}) < keep}

CreateSnapshot(kind, keep, kept) ==
  /\ made' = made + 1
  /\ snaps' = Rotated(snaps \union {[id |-> made + 1, kind |-> kind,
                                     profile |-> profile, stored |-> stored,
                                     last |-> 3]},
                      kind, keep, kept)

\* deleteSnapshot: refused for the snapshot of the pending transaction.
Required(i) == mem # None /\ mem.snap = i


DeleteSnapshot(i) ==
  /\ i \in Ids /\ ~Required(i)
  /\ snaps' = {s \in snaps : s.id # i}
  /\ early' = early \union {i}
  /\ UNCHANGED <<data, cached, made, pending, rt, tasks, op, rs, verified, excused,
                 due, torn, bounds>>

Write(p) == file' = p /\ mem' = p

\* A removal of the file or a write to it, after which the state is published;
\* one that fails changes neither.  No failure is shown beside a transaction.
Clear == Write(None) /\ failure' = FALSE /\ UNCHANGED faults
Mark(p) == Write([p EXCEPT !.phase = "failed"]) /\ failure' = FALSE /\ UNCHANGED faults
Lost  == Fault /\ UNCHANGED pending

\* completePendingTransaction without a transaction.
Forget == failure' = FALSE /\ UNCHANGED <<file, mem, faults>>

-----------------------------------------------------------------------------
(* The Runtime and its listeners                                           *)

Moving == rs.phase \in {"aside", "in", "undo"}

\* A boot that finds the directories half moved says nothing of the changes.
Boot(mode) ==
  /\ rt' = [phase |-> "starting", mode |-> mode, loaded |-> profile]
  /\ excused' = IF Moving THEN Change ELSE excused

\* runtime:start, runtime:restart and the changes of mode wait for the
\* coordinator's restoration, though not for a rollback.
Launch(mode) ==
  /\ boots < MaxBoots  /\ rt.phase # "starting"  /\ (rs # Idle => rs.kind = "rollback")
  /\ boots' = boots + 1
  /\ Boot(mode)
  /\ UNCHANGED <<data, cached, backups, pending, tasks, op, rs, verified, early, due, torn,
                 restores, faults, restarts>>

\* A deep link starts a Runtime that is not running, and waits for nothing.
DeepLink ==
  /\ boots < MaxBoots  /\ rt.phase \in {"stopped", "failed"}
  /\ boots' = boots + 1
  /\ Boot(rt.mode)
  /\ UNCHANGED <<data, cached, backups, pending, tasks, op, rs, verified, early, due, torn,
                 restores, faults, restarts>>

At(c, pc)   == op[c].pc = pc
Goto(c, pc) == op' = [op EXCEPT ![c].pc = pc]
Busy        == {c \in Change : op[c].pc \notin {"idle", "done"}}

\* What a plugin operation and a rollback do when the start they wait for is
\* over.  A stop in the middle of it makes it fail.
Booted(c, ok) ==
  IF ~ok THEN "mark" ELSE IF op[c].mode = "normal" THEN "complete" ELSE "done"
Answered(ok) ==
  [c \in Change |-> IF At(c, "wait") THEN [op[c] EXCEPT !.pc = Booted(c, ok)] ELSE op[c]]
RollbackAnswered(ok) ==
  IF rs.phase # "wait" THEN rs ELSE IF ok THEN [rs EXCEPT !.phase = "resolve"] ELSE Idle

Completing(p) == [task |-> "complete", pending |-> p]
Marking(p) == [task |-> "mark", pending |-> p]
Failing    == [task |-> "fail"]
Showing    == [task |-> "show"]

\* Faulty variant of Proves, under VerifiedBeforeForgotten: any boot does.
ProvesAnything(mode) == TRUE

\* What the listener does at once when the Runtime is ready: a restricted
\* mode proves nothing, an idle recovery has nothing to complete.
Proves(mode) == mode = "normal"

Ready ==
  /\ rt.phase = "starting"
  /\ rt' = [rt EXCEPT !.phase = "ready"]
  /\ verified' = IF rt.mode = "normal" THEN verified \union rt.loaded ELSE verified
  /\ excused' = IF rt.mode = "normal"
                THEN excused \union {c \in Change : op[c].pc \in {"mutate", "persist"}}
                ELSE excused
  /\ IF ~Proves(rt.mode) THEN UNCHANGED <<tasks, failure>>
     ELSE IF mem # None THEN tasks' = tasks \union {Completing(mem)} /\ UNCHANGED failure
     ELSE failure' = FALSE /\ UNCHANGED tasks
  /\ op' = Answered(TRUE)  /\ rs' = RollbackAnswered(TRUE)
  /\ UNCHANGED <<data, cached, backups, file, mem, early, due, torn, bounds>>

\* A boot fails, without a fault over a change no boot came up with yet, or a
\* ready Runtime exits: the failure of a normal Runtime is recorded by
\* handleRuntimeBootFailure.
Fails ==
  /\ \/ /\ rt.phase = "starting" /\ rt.mode = "normal"
        /\ ~(rt.loaded \subseteq verified)
        /\ UNCHANGED faults
     \/ rt.phase \in {"starting", "ready"} /\ Fault
  /\ rt' = [rt EXCEPT !.phase = "failed"]
  /\ tasks' = IF rt.mode = "normal"
              THEN tasks \union {IF mem = None THEN Failing ELSE Marking(mem)}
              ELSE tasks
  /\ op' = Answered(FALSE)  /\ rs' = RollbackAnswered(FALSE)
  /\ UNCHANGED <<data, cached, backups, pending, history, boots, restores, restarts>>

\* The file is removed, whichever transaction it holds by now.
CompleteTask(p) ==
  /\ Completing(p) \in tasks
  /\ tasks' = tasks \ {Completing(p)}
  /\ \/ /\ Clear
        /\ excused' = IF file = None \/ file.change = p.change THEN excused
                      ELSE excused \union {file.change}
     \/ Lost /\ UNCHANGED excused
  /\ UNCHANGED <<data, cached, backups, rt, op, rs, verified, early, due, torn, boots,
                 restores, restarts>>

\* markBootFailure writes the transaction it found when it was called.
MarkTask(p) ==
  /\ Marking(p) \in tasks
  /\ tasks' = tasks \ {Marking(p)}
  /\ Mark(p) \/ Lost
  /\ UNCHANGED <<data, cached, backups, rt, op, rs, history, boots, restores, restarts>>

\* markRuntimeFailure, called when the plugins are listed: a transaction that has
\* come up meanwhile takes the failure.
FailTask ==
  /\ Failing \in tasks
  /\ tasks' = (tasks \ {Failing}) \union {IF mem # None THEN Marking(mem) ELSE Showing}
  /\ UNCHANGED <<data, cached, backups, pending, rt, op, rs, history, bounds>>

\* ... one that comes up while the snapshots are listed is no longer shown, though
\* its file stays.
ShowTask ==
  /\ Showing \in tasks
  /\ tasks' = tasks \ {Showing}
  /\ mem' = None  /\ failure' = TRUE
  /\ UNCHANGED <<data, cached, backups, file, rt, op, rs, history, bounds>>

-----------------------------------------------------------------------------
(* PluginRecoveryCoordinator.run                                           *)

\* Refused while a transaction is pending, whoever began it.  A deferred change,
\* an installation, leaves a ready Runtime running.
Ask(c, deferred) ==
  /\ At(c, "idle")  /\ Cardinality(Busy) < Callers  /\ mem = None
  /\ LET ran == rt.phase = "ready" IN
     op' = [op EXCEPT ![c] =
       [pc |-> IF ran /\ ~deferred THEN "stop" ELSE "snapshot", ran |-> ran,
        deferred |-> deferred, mode |-> rt.mode, snap |-> 0]]
  /\ UNCHANGED <<data, cached, backups, pending, rt, tasks, rs, history, bounds>>

StopFor(c) ==
  /\ At(c, "stop")
  /\ rt' = [rt EXCEPT !.phase = "stopped"]
  /\ op' = [Answered(FALSE) EXCEPT ![c].pc = "snapshot"]
  /\ rs' = RollbackAnswered(FALSE)
  /\ UNCHANGED <<data, cached, backups, pending, tasks, history, bounds>>

\* preparePluginChange, in its two durable steps.  Until the transaction is
\* written a failure ends the operation and leaves a stopped Runtime stopped.
TakeSnapshot(c) ==
  /\ At(c, "snapshot")
  /\ \/ /\ Whole
        /\ CreateSnapshot("pre-plugin-change", MaxSnapshots, 0)
        /\ op' = [op EXCEPT ![c].pc = "publish", ![c].snap = made + 1]
        /\ UNCHANGED faults
     \/ /\ FailsUnless(Whole)
        /\ Goto(c, "done")
        /\ UNCHANGED backups
  /\ UNCHANGED <<data, cached, pending, rt, tasks, rs, history, boots, restores,
                 restarts>>

Prepare(c) ==
  /\ At(c, "publish")
  /\ \/ /\ Write([change |-> c, phase |-> "prepared", snap |-> op[c].snap])
        /\ failure' = FALSE
        /\ Goto(c, "mutate")
        /\ UNCHANGED faults
     \/ Fault /\ Goto(c, "done") /\ UNCHANGED pending
  /\ UNCHANGED <<data, cached, backups, rt, tasks, rs, history, boots, restores,
                 restarts>>

Mutate(c) ==
  /\ At(c, "mutate")
  /\ \/ /\ live[1] # 0
        /\ profile' = profile \union {c}
        /\ excused' = IF rt.phase = "starting" THEN excused \union {c} ELSE excused
        /\ Goto(c, "persist")
        /\ UNCHANGED faults
     \/ /\ FailsUnless(live[1] # 0)
        /\ Goto(c, "abort")
        /\ UNCHANGED <<profile, excused>>
  /\ UNCHANGED <<live, stored, cached, backups, pending, rt, tasks, rs, verified,
                 early, due, torn, boots, restores, restarts>>

\* A change made while a normal Runtime was down needs no boot.
AfterPersist(c) ==
  IF op[c].ran THEN IF op[c].deferred THEN "done" ELSE "boot"
  ELSE IF op[c].mode = "normal" THEN "complete" ELSE "done"

Persist(c) ==
  /\ At(c, "persist")
  /\ \/ /\ Goto(c, AfterPersist(c))
        /\ excused' = IF AfterPersist(c) = "complete" THEN excused \union {c} ELSE excused
        /\ UNCHANGED faults
     \/ Fault /\ Goto(c, "mark") /\ UNCHANGED excused
  /\ UNCHANGED <<data, cached, backups, pending, rt, tasks, rs, verified, early, due,
                 torn, boots, restores, restarts>>

\* runtime.start in a mode does not boot again: a start under way is joined,
\* whatever its mode, a Runtime that is ready in another mode refuses.
Up            == rt.phase \in {"starting", "ready"}
Refuses(mode) == rt.phase = "ready" /\ rt.mode # mode

\* The Runtime is started in the mode it had.
BootFor(c) ==
  /\ At(c, "boot")
  /\ LET mode == IF op[c].mode = "normal" THEN "normal" ELSE rt.mode IN
     /\ Goto(c, IF rt.phase # "ready" THEN "wait" ELSE Booted(c, ~Refuses(mode)))
     /\ IF Up THEN excused' = excused \union {c} /\ UNCHANGED rt ELSE Boot(mode)
  /\ UNCHANGED <<data, cached, backups, pending, tasks, rs, verified, early, due, torn,
                 bounds>>

Concluded(c) ==
  /\ Goto(c, "done")
  /\ UNCHANGED <<data, cached, backups, rt, tasks, rs, verified, early, due, torn, boots,
                 restores, restarts>>

\* completePendingTransaction after success and abortPendingTransaction when
\* nothing was changed.
Resolve(c) ==
  /\ op[c].pc \in {"complete", "abort"}  /\ mem # None
  /\ Clear
  /\ excused' = IF file.change = c THEN excused ELSE excused \union {file.change}
  /\ Concluded(c)

\* markBootFailure when something was changed.
Report(c) ==
  /\ At(c, "mark")  /\ mem # None
  /\ Mark(mem) \/ Lost
  /\ UNCHANGED excused
  /\ Concluded(c)

\* Without a transaction only a completion has something to forget.
Pass(c) ==
  /\ op[c].pc \in {"complete", "abort", "mark"}  /\ mem = None
  /\ IF At(c, "complete") THEN Forget ELSE UNCHANGED <<pending, faults>>
  /\ UNCHANGED excused
  /\ Concluded(c)

\* The file cannot be removed: after a completion the failure is reported.
ResolveFails(c) ==
  /\ op[c].pc \in {"complete", "abort"}  /\ mem # None
  /\ Lost
  /\ Goto(c, IF At(c, "complete") THEN "mark" ELSE "done")
  /\ UNCHANGED <<data, cached, backups, rt, tasks, rs, history, boots, restores,
                 restarts>>

Conclude(c) == Resolve(c) \/ Report(c) \/ Pass(c) \/ ResolveFails(c)

-----------------------------------------------------------------------------
(* RecoveryRestoreCoordinator.restore and rollback-pending-plugin around   *)
(* RecoveryManager.restore                                                 *)

\* A restoration of a snapshot the user picked, or the rollback of the pending
\* transaction, which the page offers once it failed and recovery is required;
\* the page runs one at a time.
Restore(kind, i) ==
  /\ rs = Idle  /\ restores < MaxRestores
  /\ IF kind = "rollback" THEN mem # None /\ mem.phase = "failed" /\ mem.snap = i
     ELSE i \in Ids
  /\ restores' = restores + 1
  /\ rs' = [phase |-> "stop", kind |-> kind, src |-> i, at |-> 1, last |-> 3,
            put |-> 0, profile |-> {}, stored |-> 0, old |-> [d \in Dir |-> NoDir]]
  /\ UNCHANGED <<data, cached, backups, pending, rt, tasks, op, history, boots,
                 faults, restarts>>

\* stopApplicationComponents, or only the Runtime before a rollback.
StopAll ==
  /\ rs.phase = "stop"
  /\ rt' = [rt EXCEPT !.phase = "stopped"]
  /\ op' = Answered(FALSE)
  /\ rs' = [rs EXCEPT !.phase = "save"]
  /\ UNCHANGED <<data, cached, backups, pending, tasks, history, bounds>>

Kept == rs.src

\* The state is saved before it is replaced; the snapshot to be restored
\* outlives the rotation this causes.  A failure that was shown is forgotten, unless
\* the snapshot does not pass its check.
Save ==
  /\ rs.phase = "save"
  /\ \/ /\ rs.src \in Ids  /\ Whole
        /\ CreateSnapshot("pre-restore", 1, Kept)
        /\ failure' = FALSE
        /\ rs' = [rs EXCEPT !.phase = "extract", !.put = made + 1]
        /\ UNCHANGED faults
     \/ /\ FailsUnless(rs.src \in Ids /\ Whole)
        /\ failure' \in {failure, FALSE}
        /\ rs' = Idle
        /\ UNCHANGED backups
  /\ UNCHANGED <<data, cached, file, mem, rt, tasks, op, history, boots, restores,
                 restarts>>

\* Extraction and validation in a staging directory.
Extract ==
  /\ rs.phase = "extract"
  /\ \/ /\ rs.src \in Ids
        /\ rs' = [rs EXCEPT !.phase = "aside", !.last = Snap(rs.src).last,
                            !.profile = Snap(rs.src).profile,
                            !.stored = Snap(rs.src).stored]
        /\ UNCHANGED <<faults, failure>>
     \/ /\ FailsUnless(rs.src \in Ids)
        /\ rs' = Idle  /\ failure' = FALSE
  /\ UNCHANGED <<data, cached, backups, file, mem, rt, tasks, op, history, boots,
                 restores, restarts>>

\* Directory d gets what put, with the changes p and the records v.
Place(d, put, p, v) ==
  /\ live' = [live EXCEPT ![d] = put]
  /\ profile' = IF d = 1 THEN p ELSE profile
  /\ stored' = IF d = 2 THEN v ELSE stored

\* The first rename of a directory; it fails before the directory is touched.
MoveAside ==
  /\ rs.phase = "aside"  /\ rs.at <= rs.last
  /\ \/ /\ Place(rs.at, 0, {}, 0)
        /\ rs' = [rs EXCEPT !.phase = "in", !.old[rs.at] =
                    [put |-> live[rs.at], profile |-> profile, stored |-> stored]]
        /\ UNCHANGED faults
     \/ /\ Fault
        /\ rs' = [rs EXCEPT !.phase = "undo", !.at = rs.at - 1]
        /\ UNCHANGED data
  /\ UNCHANGED <<cached, backups, pending, rt, tasks, op, history, boots, restores,
                 restarts>>

\* Changes whose operation has still to make them.
Undone == {c \in Change : op[c].pc \in {"publish", "mutate"}}

\* Faulty variant of MoveIn, under RestoresWhole: a directory is noted as
\* touched only when the snapshot's is in its place.
MoveInUnnoted ==
  /\ rs.phase = "in"
  /\ \/ /\ Place(rs.at, rs.put, rs.profile, rs.stored)
        /\ rs' = [rs EXCEPT !.phase = "aside", !.at = rs.at + 1]
        /\ excused' = IF rs.at = 1 THEN excused \union rs.profile \union Undone ELSE excused
        /\ UNCHANGED faults
     \/ /\ Fault
        /\ rs' = [rs EXCEPT !.phase = "undo", !.at = rs.at - 1]
        /\ UNCHANGED <<data, excused>>
  /\ UNCHANGED <<cached, backups, pending, rt, tasks, op, verified, early, due, torn, boots,
                 restores, restarts>>

\* The second rename, which counts as touched before it is tried.  The changes
\* it brings back were the user's choice; those still undone escape it.
MoveIn ==
  /\ rs.phase = "in"
  /\ \/ /\ Place(rs.at, rs.put, rs.profile, rs.stored)
        /\ rs' = [rs EXCEPT !.phase = "aside", !.at = rs.at + 1]
        /\ excused' = IF rs.at = 1 THEN excused \union rs.profile \union Undone ELSE excused
        /\ UNCHANGED faults
     \/ /\ Fault
        /\ rs' = [rs EXCEPT !.phase = "undo"]
        /\ UNCHANGED <<data, excused>>
  /\ UNCHANGED <<cached, backups, pending, rt, tasks, op, verified, early, due, torn, boots,
                 restores, restarts>>

\* The touched directories are put back, the last one first.
Undo ==
  /\ rs.phase = "undo"
  /\ IF rs.at = 0 THEN rs' = Idle /\ failure' = FALSE /\ UNCHANGED data
     ELSE LET old == rs.old[rs.at] IN
          /\ Place(rs.at, old.put, old.profile, old.stored)
          /\ rs' = [rs EXCEPT !.at = rs.at - 1]
          /\ UNCHANGED failure
  /\ UNCHANGED <<cached, backups, file, mem, rt, tasks, op, history, bounds>>

\* Where the directories stem from once all in the archive are renamed.
Restored == [d \in Dir |-> IF d <= rs.last THEN rs.put ELSE due[d]]

\* The credentials come last, and a failure still undoes everything.  A
\* rollback goes on to a normal boot; the data moved aside is removed.
Finish ==
  /\ rs.phase = "aside"  /\ rs.at > rs.last
  /\ \/ /\ rs' = IF rs.kind = "rollback" THEN [rs EXCEPT !.phase = "boot"] ELSE Idle
        /\ due' = Restored  /\ failure' = FALSE
        /\ UNCHANGED faults
     \/ /\ Fault
        /\ rs' = [rs EXCEPT !.phase = "undo", !.at = rs.last]
        /\ UNCHANGED <<due, failure>>
  /\ UNCHANGED <<data, cached, backups, file, mem, rt, tasks, op, verified, excused,
                 early, torn, boots, restores, restarts>>

RollbackBoots ==
  /\ rs.phase = "boot"
  /\ IF Up THEN UNCHANGED <<rt, excused>> ELSE Boot("normal")
  /\ rs' = IF Refuses("normal") THEN Idle
           ELSE [rs EXCEPT !.phase = IF rt.phase = "ready" THEN "resolve" ELSE "wait"]
  /\ UNCHANGED <<data, cached, backups, pending, tasks, op, verified, early, due, torn,
                 bounds>>

\* resolveRecovery, once the Runtime is up again: whatever transaction is
\* pending by then.
RollbackEnds ==
  /\ rs.phase = "resolve"
  /\ rs' = Idle
  /\ \/ /\ mem # None  /\ Clear
        /\ excused' = IF file.snap = rs.src THEN excused ELSE excused \union {file.change}
     \/ /\ IF mem = None THEN Forget ELSE Lost
        /\ UNCHANGED excused
  /\ UNCHANGED <<data, cached, backups, rt, tasks, op, verified, early, due, torn, boots,
                 restores, restarts>>

-----------------------------------------------------------------------------
(* The run stores and the process                                          *)

\* A store writes what it holds in memory over the file (EmployeeRunStore);
\* nothing reloads it after a restoration.
StoreWrite ==
  /\ cached <= MaxWrites  /\ live[2] # 0
  /\ cached' = cached + 1
  /\ stored' = cached + 1
  /\ UNCHANGED <<live, profile, backups, pending, rt, tasks, op, rs, history, bounds>>

\* The layout is created again, the transaction and the runs are read.  The
\* data an interrupted restoration moved aside is not looked for.
Restart ==
  /\ restarts < MaxRestarts
  /\ restarts' = restarts + 1
  /\ made' = made + 1
  /\ live' = [d \in Dir |-> IF live[d] = 0 THEN made + 1 ELSE live[d]]
  /\ due' = IF rs.phase = "aside" /\ rs.at > rs.last THEN Restored ELSE due
  /\ torn' = (torn \/ live # due')
  /\ cached' = stored
  /\ mem' = file  /\ failure' = FALSE
  /\ rt' = [phase |-> "stopped", mode |-> "normal", loaded |-> {}]
  /\ tasks' = {}  /\ rs' = Idle
  /\ op' = [c \in Change |-> IF op[c] = NoOp THEN NoOp ELSE [op[c] EXCEPT !.pc = "done"]]
  /\ UNCHANGED <<profile, stored, snaps, file, verified, excused, early, boots,
                 restores, faults>>

Plugins ==
  \E c \in Change : \/ \E deferred \in BOOLEAN : Ask(c, deferred)
                    \/ StopFor(c) \/ TakeSnapshot(c) \/ Prepare(c) \/ Mutate(c)
                    \/ Persist(c) \/ BootFor(c) \/ Conclude(c)

Restoration ==
  \/ \E kind \in {"restore", "rollback"}, i \in 1..made : Restore(kind, i)
  \/ StopAll \/ Save \/ Extract \/ MoveAside \/ MoveIn \/ Undo \/ Finish
  \/ RollbackBoots \/ RollbackEnds

Listeners ==
  \/ FailTask \/ ShowTask
  \/ \E p \in {t.pending : t \in tasks \ {Failing, Showing}} : CompleteTask(p) \/ MarkTask(p)

Next ==
  \/ Plugins \/ Restoration \/ Listeners
  \/ Ready \/ Fails
  \/ \E mode \in {"normal", "restricted"} : Launch(mode)
  \/ DeepLink
  \/ \E i \in Ids : DeleteSnapshot(i)
  \/ StoreWrite \/ Restart

Spec == Init /\ [][Next]_vars

\* Listeners are never blocked.
FairSpec == Spec /\ WF_vars(Listeners)

-----------------------------------------------------------------------------
(* Properties                                                              *)

Transactions == [change : Change, phase : {"prepared", "failed"}, snap : 1..made]

\* The variables have their types, and a transaction in memory is the one in its
\* file between two steps (writePendingTransaction, publish).
TypeOK ==
  /\ live \in [Dir -> 0..made]  /\ due \in [Dir -> 0..made]  /\ profile \subseteq Change
  /\ {stored, cached} \subseteq 0..MaxWrites + 1
  /\ snaps \subseteq [id : 1..made, profile : SUBSET Change, stored : 0..MaxWrites + 1,
                      kind : {"pre-plugin-change", "pre-restore"}, last : {2, 3}]
  /\ {file, mem} \subseteq Transactions \union {None}  /\ mem \in {None, file}
  /\ failure \in BOOLEAN
  /\ rt.phase \in {"stopped", "starting", "ready", "failed"}
  /\ rt.mode \in {"normal", "restricted"}  /\ rt.loaded \subseteq Change

\* A restoration that fails at any of its renames leaves all the directories
\* as they were, one that succeeds replaces all of its archive and nothing else, which
\* for a legacy archive leaves workflow/: between restorations every directory stems
\* from the last one that succeeded and held it, unless the process died in the middle
\* (recovery-manager.ts, restore, touched and saved, LEGACY_COMPONENTS).
RestoresWhole ==
  rs.phase \in {"idle", "stop", "save", "extract", "boot", "wait", "resolve"} /\ ~torn =>
    \A d \in Dir : live[d] = due[d] /\ live[d] # 0


\* Saving the state before a restoration never rotates the snapshot that is
\* about to be restored away, be it an older pre-restore one
\* (restore, preserveArchiveName).
SourceIsKept ==
  [][rs.phase = "save" /\ rs'.phase = "extract" => rs.src \in {s.id : s \in snaps'}]_vars

\* The transaction of a change that was made is only forgotten once a normal
\* boot came up with the change, not after a boot in a restricted mode.  Excused
\* are changes made while a normal Runtime was down or while it booted, or whose
\* operation found the Runtime started by somebody else, those a restoration brought
\* back or overtook, a boot in the middle of a restoration, and a completion or the
\* end of a rollback so late that it meets another transaction (run, start, onChange
\* of the Runtime).
VerifiedBeforeForgotten ==
  [][file # None /\ file' = None =>
       \/ file.change \notin profile
       \/ file.change \in verified \union excused']_vars

\* Refuted: a failure of a normal Runtime gets reported while it stays down, with
\* the transaction that is pending by then or without one.  The write of
\* markBootFailure may fail, which is logged only (handleRuntimeBootFailure).
Shown == failure \/ (mem # None /\ mem.phase = "failed")
FailedBootIsShown ==
  (\E t \in tasks : t.task # "complete") ~> (Shown \/ rt.phase # "failed")

\* Refuted: a transaction in its file is pending in memory, so that no other change
\* begins.  One that is written while markRuntimeFailure lists the snapshots is
\* overwritten by what that publishes.
PendingIsShown == file # None => mem # None

\* Refuted: what a restoration brought back is what the run stores hold
\* (RecoveryRestoreCoordinator.restoreInternal resumes the work item scope only).
RestoreSticks == rs = Idle /\ live[2] # 0 => cached = stored

\* Refuted: a plugin is changed under a transaction of its own.  A Runtime that
\* becomes ready meanwhile, or a second operation that was asked for before the
\* first one's transaction was written, takes it away.
ChangesAreRecoverable ==
  \A c \in Change : op[c].pc = "mutate" => file # None /\ file.change = c
=============================================================================
