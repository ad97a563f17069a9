--------------------------- MODULE MutationJournal ---------------------------
(***************************************************************************)
(* WorkflowMutationCoordinator: the write-ahead intent journal under the    *)
(* workflow stores.  A mutation replaces two files (save) or four (delete). *)
(* Its intent, with the digest of every file before and after, is published *)
(* by one atomic rename; then each file is replaced by a rename of its own; *)
(* then the intent is unlinked.  A process that starts and finds an intent  *)
(* rolls it forward, unless a file holds content that is neither its before *)
(* nor its after image: such content is never overwritten.                  *)
(*                                                                         *)
(* A file's content is a version tag: what is told apart is which write     *)
(* produced it.  Equality of tags stands for equality of digests.  One      *)
(* mutation writes the same tag to all its files.                           *)
(***************************************************************************)
EXTENDS Naturals, Sequences

CONSTANTS
    Image,        \* contents that validateImage accepts
    Absent,       \* the file does not exist
    Malformed,    \* content that validateImage refuses
    NoIntent,     \* there is no journal file
    BadIntent,    \* a journal file that parse() refuses
    MaxTamper,    \* bound: edits made while no process runs
    MaxFaults     \* bound: crashes and failing file operations

FILES == {"versions", "workflows", "runs", "tombstones"}

(* The order in which save() and delete() list, and apply() writes, files. *)
SaveOrder   == <<"versions", "workflows">>
DeleteOrder == <<"tombstones", "workflows", "versions", "runs">>
Orders == {SaveOrder, DeleteOrder}

Content == Image \cup {Absent, Malformed}

Participants(order) == {order[i] : i \in 1..Len(order)}

(* What a mutation does, as its caller sees it. *)
Images(order, c) == [f \in Participants(order) |-> c]
Mutations == {Images(o, c) : o \in Orders, c \in Image}
Calls == [images : Mutations, stage : {"asked", "done"}]

(* The journal's content. *)
Intent == [order : Orders, before : [FILES -> Content], after : Image]

ASSUME SentinelAssumption ==
    /\ Absent \notin Image
    /\ Malformed \notin Image
    /\ Absent # Malformed
    /\ NoIntent \notin Intent
    /\ BadIntent \notin Intent
    /\ NoIntent # BadIntent
    /\ NoIntent \notin Calls

(* There is something to write. *)
ASSUME ImageAssumption == Image # {}

ASSUME BoundAssumption == MaxTamper \in Nat /\ MaxFaults \in Nat

VARIABLES
    disk,       \* the state files                               (persistent)
    journal,    \* workflow-mutation-intent.json                 (persistent)
    phase,      \* "down", "starting", "ready", or "blocked" as `blocked` is set
    step,       \* where the running commit or recovery stands
    op,         \* the intent that commit or recovery works on
    idx,        \* the next image apply() writes
    tombstones, \* the coordinator's copy of the tombstones file
    tampered,   \* counts edits from outside
    faults      \* counts crashes and failures

vars == <<disk, journal, phase, step, op, idx, tombstones, tampered, faults>>
task == <<step, op, idx>>

Steps == {"idle", "open", "prepare", "publish", "check", "apply", "clear", "load"}

TypeOK ==
    /\ disk \in [FILES -> Content]
    /\ journal \in Intent \cup {NoIntent, BadIntent}
    /\ phase \in {"down", "starting", "ready", "blocked"}
    /\ step \in Steps
    /\ op \in Intent
    /\ idx \in 1..5
    /\ tombstones \in Content
    /\ tampered \in 0..MaxTamper
    /\ faults \in 0..MaxFaults

(* op between mutations: what it holds then is never read. *)
NoOp == [order  |-> SaveOrder,
         before |-> [f \in FILES |-> Absent],
         after  |-> CHOOSE c \in Image : TRUE]

Idle == step = "idle" /\ op = NoOp /\ idx = 1

Init ==
    /\ disk = [f \in FILES |-> Absent]
    /\ journal = NoIntent
    /\ phase = "down"
    /\ Idle
    /\ tombstones = Absent
    /\ tampered = 0
    /\ faults = 0

-----------------------------------------------------------------------------
(* Entering and leaving.                                                    *)

GoIdle == step' = "idle" /\ op' = NoOp /\ idx' = 1

(* A new coordinator: nothing in memory, initialize() calls recover(). *)
Start ==
    /\ phase = "down"
    /\ phase' = "starting"
    /\ step' = "open"
    /\ tombstones' = Absent
    /\ UNCHANGED <<disk, journal, op, idx, tampered, faults>>

(* Any error from publication on, or in recovery, sets `blocked`, which only *)
(* a new process clears.                                                     *)
Block ==
    /\ phase' = "blocked"
    /\ GoIdle

Crash ==
    /\ phase # "down"
    /\ faults < MaxFaults
    /\ faults' = faults + 1
    /\ phase' = "down"
    /\ GoIdle
    /\ tombstones' = Absent
    /\ UNCHANGED <<disk, journal, tampered>>

(* The person quits between mutations. *)
Quit ==
    /\ phase \in {"ready", "blocked"}
    /\ step = "idle"
    /\ phase' = "down"
    /\ tombstones' = Absent
    /\ UNCHANGED <<disk, journal, task, tampered, faults>>

-----------------------------------------------------------------------------
(* commit()                                                                 *)

(* The caller holds the queue of run(), so no other mutation is under way. *)
Request(order, c) ==
    /\ phase = "ready"
    /\ step = "idle"
    /\ step' = "prepare"
    /\ op' = [order |-> order, before |-> NoOp.before, after |-> c]
    /\ UNCHANGED <<disk, journal, phase, idx, tombstones, tampered, faults>>

(* delete() also refuses a runs file whose present content is malformed. *)
RunsUnreadable ==
    op.order = DeleteOrder /\ disk["runs"] = Malformed

(* Before the intent is published an error, that of a read included, leaves *)
(* the coordinator usable.                                                  *)
Refuse ==
    /\ step = "prepare"
    /\ \/ /\ journal # NoIntent \/ RunsUnreadable
          /\ UNCHANGED faults
       \/ /\ faults < MaxFaults
          /\ faults' = faults + 1
    /\ GoIdle
    /\ UNCHANGED <<disk, journal, phase, tombstones, tampered>>

ReadBefore ==
    /\ step = "prepare"
    /\ journal = NoIntent
    /\ ~RunsUnreadable
    /\ op' = [op EXCEPT !.before = disk]
    /\ step' = "publish"
    /\ UNCHANGED <<disk, journal, phase, idx, tombstones, tampered, faults>>

Publish ==
    /\ step = "publish"
    /\ journal' = op
    /\ step' = "check"
    /\ UNCHANGED <<disk, phase, op, idx, tombstones, tampered, faults>>

-----------------------------------------------------------------------------
(* apply(), for a commit (phase "ready") and for recovery ("starting").     *)

Conflict(f) == disk[f] \notin {op.before[f], op.after}

(* Faulty variant of CheckAll, under UnknownIsKept: nothing is validated. *)
CheckNothing ==
    /\ step = "check"
    /\ step' = "apply"
    /\ UNCHANGED <<disk, journal, phase, op, idx, tombstones, tampered, faults>>

(* Validate every participant before touching any. *)
CheckAll ==
    /\ step = "check"
    /\ UNCHANGED <<disk, journal, tombstones, tampered, faults>>
    /\ \/ /\ \A f \in Participants(op.order) : ~Conflict(f)
          /\ step' = "apply"
          /\ UNCHANGED <<phase, op, idx>>
       \/ /\ \E f \in Participants(op.order) : Conflict(f)
          /\ Block

Current == op.order[idx]

(* One image: recovery skips a file that already holds it. *)
ApplyOne ==
    /\ step = "apply"
    /\ idx <= Len(op.order)
    /\ UNCHANGED <<journal, tombstones, tampered, faults>>
    /\ \/ /\ Conflict(Current)
          /\ Block
          /\ UNCHANGED disk
       \/ /\ ~Conflict(Current)
          /\ disk' = IF phase = "starting" /\ disk[Current] = op.after
                     THEN disk
                     ELSE [disk EXCEPT ![Current] = op.after]
          /\ idx' = idx + 1
          /\ UNCHANGED <<phase, step, op>>

(* Faulty variant of Unlink, under NothingTorn: the last file is missed. *)
UnlinkEarly ==
    /\ step = "apply"
    /\ idx >= Len(op.order)
    /\ journal' = NoIntent
    /\ step' = IF phase = "starting" THEN "load" ELSE "clear"
    /\ UNCHANGED <<disk, phase, op, idx, tombstones, tampered, faults>>

Unlink ==
    /\ step = "apply"
    /\ idx > Len(op.order)
    /\ journal' = NoIntent
    /\ step' = IF phase = "starting" THEN "load" ELSE "clear"
    /\ UNCHANGED <<disk, phase, op, idx, tombstones, tampered, faults>>

(* commit() has returned: delete() publishes its tombstones in memory. *)
Return ==
    /\ step = "clear"
    /\ tombstones' = IF op.order = DeleteOrder THEN op.after ELSE tombstones
    /\ GoIdle
    /\ UNCHANGED <<disk, journal, phase, tampered, faults>>

(* A file operation that rejects, with or without its effect on the disk. *)
IOError ==
    /\ step \in {"publish", "check", "apply", "open", "load"}
    /\ faults < MaxFaults
    /\ faults' = faults + 1
    /\ Block
    /\ \/ UNCHANGED <<disk, journal>>
       \/ /\ step = "publish"
          /\ journal' = op
          /\ UNCHANGED disk
       \/ /\ step = "apply"
          /\ idx <= Len(op.order)
          /\ ~Conflict(Current)
          /\ disk' = [disk EXCEPT ![Current] = op.after]
          /\ UNCHANGED journal
       \/ /\ step = "apply"
          /\ idx > Len(op.order)
          /\ journal' = NoIntent
          /\ UNCHANGED disk
    /\ UNCHANGED <<tombstones, tampered>>

-----------------------------------------------------------------------------
(* recover()                                                                *)

(* Faulty variants of Open: the intent is dropped (under AtomicSpec), or       *)
(* passed over when it is malformed (under IntentIsResolved).                *)
OpenDropping ==
    /\ step = "open"
    /\ journal' = NoIntent
    /\ step' = "load"
    /\ UNCHANGED <<disk, phase, op, idx, tombstones, tampered, faults>>

OpenPassing ==
    /\ step = "open"
    /\ IF journal \in {NoIntent, BadIntent}
       THEN step' = "load" /\ UNCHANGED op
       ELSE step' = "check" /\ op' = journal
    /\ UNCHANGED <<disk, journal, phase, idx, tombstones, tampered, faults>>

Open ==
    /\ step = "open"
    /\ \/ /\ journal = NoIntent
          /\ step' = "load"
          /\ UNCHANGED <<phase, op, idx>>
       \/ /\ journal = BadIntent
          /\ Block
       \/ /\ journal \notin {NoIntent, BadIntent}
          /\ op' = journal
          /\ step' = "check"
          /\ UNCHANGED <<phase, idx>>
    /\ UNCHANGED <<disk, journal, tombstones, tampered, faults>>

Load ==
    /\ step = "load"
    /\ \/ /\ disk["tombstones"] = Malformed
          /\ Block
          /\ UNCHANGED tombstones
       \/ /\ disk["tombstones"] # Malformed
          /\ tombstones' = disk["tombstones"]
          /\ phase' = "ready"
          /\ GoIdle
    /\ UNCHANGED <<disk, journal, tampered, faults>>

-----------------------------------------------------------------------------
(* The rest of the system.                                                  *)

(* WorkflowRunStore.persist replaces the runs file under the same queue. *)
PersistRuns(c) ==
    /\ phase = "ready"
    /\ step = "idle"
    /\ disk' = [disk EXCEPT !["runs"] = c]
    /\ UNCHANGED <<journal, phase, task, tombstones, tampered, faults>>

(* While no process runs, a person or a tool changes a file or the journal. *)
Tamper ==
    /\ phase = "down"
    /\ tampered < MaxTamper
    /\ tampered' = tampered + 1
    /\ \/ \E f \in FILES, c \in Content : disk' = [disk EXCEPT ![f] = c]
          /\ UNCHANGED journal
       \/ /\ journal # NoIntent
          /\ journal' = BadIntent
          /\ UNCHANGED disk
    /\ UNCHANGED <<phase, task, tombstones, faults>>

Progress == Start \/ Refuse \/ ReadBefore \/ Publish \/ CheckAll \/ ApplyOne
            \/ Unlink \/ Return \/ Open \/ Load

Next ==
    \/ Progress
    \/ \E order \in Orders, c \in Image : Request(order, c)
    \/ \E c \in Image : PersistRuns(c)
    \/ IOError
    \/ Quit
    \/ Crash
    \/ Tamper

Spec == Init /\ [][Next]_vars

(* The event loop runs every step it has started to its end, and the person *)
(* who uses the application starts it again.                                *)
FairSpec == Spec /\ WF_vars(Progress)

-----------------------------------------------------------------------------
(* Properties                                                               *)

(* The two files every mutation replaces together came from one mutation.   *)
Paired(content) == content["versions"] = content["workflows"]

(* The definitions and their archive of versions are the two files every    *)
(* mutation replaces together: without a pending intent they come from the  *)
(* same mutation, whatever crashed or failed on the way (commit, apply).    *)
NothingTorn ==
    (journal = NoIntent /\ tampered = 0) => Paired(disk)

(* A process that accepts mutations has no intent left from an earlier one, *)
(* so WORKFLOW_MUTATION_PENDING is never the answer; and its tombstones,    *)
(* which every save and run write is checked against, are those on disk.    *)
ReadyIsClean ==
    (phase = "ready" /\ step = "idle") =>
        /\ journal = NoIntent
        /\ tombstones = disk["tombstones"]

(* "Unknown content is never overwritten": a start that finds one file of a *)
(* pending intent holding neither of its images touches no file at all and  *)
(* keeps the intent.                                                        *)
Unknown(f) ==
    /\ journal \notin {NoIntent, BadIntent}
    /\ f \in Participants(journal.order)
    /\ disk[f] \notin {journal.before[f], journal.after}

UnknownIsKept ==
    [][phase # "down" /\ (\E f \in FILES : Unknown(f))
          => disk' = disk /\ journal' = journal]_vars

(* An intent is rolled forward, or the process says it cannot be used. *)
IntentIsResolved ==
    (journal # NoIntent) ~> (journal = NoIntent \/ phase = "blocked")

(* Why NothingTorn and ReadyIsClean hold: what each step of a commit or a    *)
(* recovery may rely on.                                                    *)
PhaseInv ==
    /\ phase \in {"down", "blocked"} => step = "idle"
    /\ phase = "ready" => step \notin {"open", "load"}
    /\ phase = "starting" => step \in {"open", "check", "apply", "load"}
    /\ step \notin {"apply", "clear", "load"} => idx = 1

IntentInv ==
    /\ step \in {"check", "apply"} => journal = op
    /\ step \in {"prepare", "publish", "clear", "load"} => journal = NoIntent
    /\ (step = "idle" /\ phase = "ready") => journal = NoIntent

ProgressInv ==
    /\ step = "publish" => op.before = disk
    /\ step = "check" /\ phase = "ready" => op.before = disk
    /\ step = "apply" =>
          \A i \in 1..Len(op.order) :
              /\ i < idx => disk[op.order[i]] = op.after
              /\ i >= idx => ~Conflict(op.order[i])
    /\ step = "clear" => \A f \in Participants(op.order) : disk[f] = op.after

TombstonesInv ==
    phase = "ready" =>
        \/ tombstones = disk["tombstones"]
        \/ step \in {"check", "apply", "clear"} /\ op.order = DeleteOrder

PairInv ==
    tampered = 0 =>
        /\ journal # BadIntent
        /\ journal = NoIntent => Paired(disk)
        /\ journal # NoIntent =>
              /\ Paired(journal.before)
              /\ \A f \in Participants(journal.order) :
                    disk[f] \in {journal.before[f], journal.after}

IInv == TypeOK /\ PhaseInv /\ IntentInv /\ ProgressInv /\ TombstonesInv /\ PairInv

(* Refinement: a file of the published intent logically holds its after     *)
(* image already, unless somebody put unknown content there.                *)
Pending(f) ==
    /\ journal \notin {NoIntent, BadIntent}
    /\ f \in Participants(journal.order)
    /\ disk[f] \in {journal.before[f], journal.after}

LogicalStore == [f \in FILES |-> IF Pending(f) THEN journal.after ELSE disk[f]]

AbstractCall ==
    IF phase = "ready" /\ step # "idle"
    THEN [images |-> Images(op.order, op.after),
          stage  |-> IF step \in {"check", "apply", "clear"} THEN "done" ELSE "asked"]
    ELSE NoIntent

Atomic == INSTANCE AtomicCommit WITH
    File     <- FILES,
    Mutation <- Mutations,
    Solo     <- {"runs"},
    NoCall   <- NoIntent,
    store    <- LogicalStore,
    up       <- phase # "down",
    call     <- AbstractCall

AtomicSpec == Atomic!Spec
=============================================================================
