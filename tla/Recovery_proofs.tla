--------------------------- MODULE Recovery_proofs ---------------------------
(***************************************************************************)
(* Proofs about Recovery, for every set of changes, number of callers and  *)
(* bound: a restoration replaces all the directories of its archive or     *)
(* none of them, and the transaction of a change is not forgotten before a *)
(* normal boot came up with the change, but in the cases Recovery names.   *)
(***************************************************************************)
EXTENDS Recovery, TLAPS

-----------------------------------------------------------------------------
(***************************************************************************)
(* The inductive invariant                                                 *)
(***************************************************************************)
Modes   == {"normal", "restricted"}
Early   == {"idle", "stop", "snapshot", "publish"}
Steps   == Early \union {"mutate", "persist", "boot", "wait", "complete", "abort",
                         "mark", "done"}
Stages  == {"stop", "save", "extract", "aside", "in", "undo", "boot", "wait", "resolve"}
Kinds   == {"pre-plugin-change", "pre-restore"}
Backups == [id : Nat, kind : Kinds, profile : SUBSET Change, stored : Nat,
            last : {2, 3}]
Pending == [change : Change, phase : {"prepared", "failed"}, snap : Nat]
Ops     == [pc : Steps \ {"idle"}, ran : BOOLEAN, deferred : BOOLEAN, mode : Modes, snap : Nat]
Moved   == [put : Nat, profile : SUBSET Change, stored : Nat]
Under   == [phase : Stages, kind : {"restore", "rollback"}, src : Nat, at : 0..4,
            last : {2, 3}, put : Nat, profile : SUBSET Change, stored : Nat,
            old : [Dir -> Moved]]

\* What the steps assign, without the bounds.
Typed ==
  /\ live \in [Dir -> Nat]  /\ profile \subseteq Change
  /\ stored \in Nat  /\ cached \in Nat
  /\ snaps \subseteq Backups  /\ made \in Nat \ {0}
  /\ file \in Pending \union {None}  /\ mem \in {None, file}
  /\ rt \in [phase : {"stopped", "starting", "ready", "failed"}, mode : Modes,
             loaded : SUBSET Change]
  /\ op \in [Change -> Ops \union {NoOp}]
  /\ rs \in Under \union {Idle}
  /\ verified \subseteq Change  /\ excused \subseteq Change
  /\ due \in [Dir -> Nat]  /\ torn \in BOOLEAN

\* Where a restoration stands.
Standing ==
  /\ rs.phase \in {"stop", "save", "extract"} => rs.at = 1
  /\ rs.phase = "aside" => rs.at \in 1..rs.last + 1
  /\ rs.phase = "in" => rs.at \in 1..rs.last
  /\ rs.phase = "undo" => rs.at \in 0..rs.last
  /\ Moving \/ rs.phase = "extract" => rs.put # 0

Settled == {"idle", "stop", "save", "extract", "boot", "wait", "resolve"}

\* Of the directories that were there when a restoration began, those before
\* the one it has come to are noted, those after it are in their place.
Halfway ==
  \A d \in Dir :
    CASE rs.phase = "aside" -> IF d < rs.at THEN live[d] = rs.put /\ rs.old[d].put = due[d]
                               ELSE live[d] = due[d]
      [] rs.phase = "in"    -> IF d < rs.at THEN live[d] = rs.put /\ rs.old[d].put = due[d]
                               ELSE IF d = rs.at THEN rs.old[d].put = due[d]
                               ELSE live[d] = due[d]
      [] rs.phase = "undo"  -> IF d <= rs.at THEN rs.old[d].put = due[d]
                               ELSE live[d] = due[d]

WholeInv ==
  ~torn => /\ \A d \in Dir : due[d] # 0
           /\ rs.phase \in Settled => \A d \in Dir : live[d] = due[d]
           /\ Moving => Halfway

\* A change that needs no more proof.
Proved(c) == c \in verified \union excused

\* A change is in the profile, or is brought back if the restoration fails.
Noted(c)   == rs.phase \in {"aside", "in", "undo"} /\ c \in rs.old[1].profile
Present(c) == c \in profile \/ Noted(c)

\* A change whose transaction may be forgotten, for good.
Undrawn == {"idle", "stop", "snapshot"}
Unmade  == Early \union {"mutate"}
Safe(c) == Proved(c) \/ (~Present(c) /\ op[c].pc \notin Unmade)

\* A transaction that was published by the operation of its change.
Begun(p) == p \in Pending /\ op[p.change].pc \notin Early /\ op[p.change].snap = p.snap

PublishedInv ==
  /\ file # None => Begun(file)
  /\ \A t \in tasks \ {Failing, Showing} : t.task \in {"complete", "mark"} /\ Begun(t.pending)
  /\ \A t \in tasks : t.task = "complete" => Safe(t.pending.change)

NumberInv ==
  /\ \A c \in Change : op[c].pc # "idle" => op[c].snap <= made
  /\ \A c \in Change : op[c].pc \in {"stop", "snapshot"} => op[c].snap = 0
  /\ rs.phase # "idle" => rs.src \in 1..made

\* A restoration notes what it moves aside, and nothing before.
NotedInv ==
  \/ rs.phase \in {"stop", "save", "extract"}
  \/ rs.phase = "aside" /\ rs.at = 1
  => rs.old[1].profile = {}

\* A change that is not made is not there, one that is there when a Runtime
\* starts is started with it, and an operation waits for a start of its mode.
StartInv ==
  /\ \A c \in Change : op[c].pc \in Unmade => Proved(c) \/ ~Present(c)
  /\ rt.phase = "starting" =>
       \A c \in Change : Present(c) => Proved(c) \/ c \in rt.loaded
  /\ \A c \in Change : op[c].pc = "wait" =>
       Proved(c) \/ (rt.phase = "starting" /\ (op[c].mode = "normal" => rt.mode = "normal"))
  /\ \A c \in Change : op[c].pc \in {"complete", "abort"} => Safe(c)

\* Once the profile is replaced, no change is left whose snapshot this was.
Replaced == \/ rs.phase \in {"aside", "in"} /\ rs.at > 1
            \/ rs.phase \in {"boot", "wait", "resolve"}
ReplacedInv ==
  Replaced =>
    \A c \in Change : op[c].pc \notin Undrawn /\ op[c].snap = rs.src =>
      Proved(c) \/ (c \notin profile /\ op[c].pc \notin Unmade)

ForgetInv == PublishedInv /\ NumberInv /\ NotedInv /\ StartInv /\ ReplacedInv
-----------------------------------------------------------------------------
(***************************************************************************)
(* What the helpers assign                                                 *)
(***************************************************************************)
\* An operation that was asked for is a record, and none waits before.
LEMMA AskedIs ==
  ASSUME Typed, NEW c \in Change, op[c].pc # "idle"
  PROVE  op[c] \in Ops
  BY DEF Typed, NoOp

\* An operation that goes on keeps all but its step.
LEMMA GotoIs ==
  ASSUME Typed, NEW c \in Change, op[c].pc # "idle", NEW pc \in Steps \ {"idle"}, Goto(c, pc)
  PROVE  /\ op' \in [Change -> Ops \union {NoOp}]
         /\ op'[c].pc = pc  /\ op'[c].snap = op[c].snap  /\ op'[c].mode = op[c].mode
         /\ \A d \in Change \ {c} : op'[d] = op[d]
  BY AskedIs DEF Typed, Ops, Goto

\* So do those that waited for a start.
LEMMA AnsweredIs ==
  ASSUME Typed, NEW ok \in BOOLEAN, NEW c \in Change
  PROVE  /\ Answered(ok) \in [Change -> Ops \union {NoOp}]
         /\ At(c, "wait") => /\ Answered(ok)[c].pc = Booted(c, ok)
                             /\ Answered(ok)[c].snap = op[c].snap
                             /\ Answered(ok)[c].mode = op[c].mode
         /\ ~At(c, "wait") => Answered(ok)[c] = op[c]
  <1>1. ASSUME NEW d \in Change, At(d, "wait")
        PROVE  /\ [op[d] EXCEPT !.pc = Booted(d, ok)] \in Ops
               /\ [op[d] EXCEPT !.pc = Booted(d, ok)].pc = Booted(d, ok)
               /\ [op[d] EXCEPT !.pc = Booted(d, ok)].snap = op[d].snap
               /\ [op[d] EXCEPT !.pc = Booted(d, ok)].mode = op[d].mode
    BY <1>1, AskedIs DEF At, Ops, Booted, Steps
  <1>2. ASSUME NEW d \in Change, ~At(d, "wait")
        PROVE  op[d] \in Ops \union {NoOp}
    BY DEF Typed
  <1> QED
    BY <1>1, <1>2 DEF Answered

\* A restoration under way is a record.
LEMMA UnderIs ==
  ASSUME Typed, rs.phase # "idle"
  PROVE  rs \in Under
  BY DEF Typed, Idle

\* A rollback that waited for a start goes on or ends.
LEMMA RollbackAnsweredIs ==
  ASSUME Typed, NEW ok \in BOOLEAN
  PROVE  /\ RollbackAnswered(ok) \in Under \union {Idle}
         /\ rs.phase # "wait" => RollbackAnswered(ok) = rs
         /\ rs.phase = "wait" =>
              \/ RollbackAnswered(ok) = Idle
              \/ RollbackAnswered(ok).phase = "resolve" /\ RollbackAnswered(ok).src = rs.src
  BY UnderIs DEF Typed, RollbackAnswered, Under, Stages

\* A start is recorded with the plugins there are.
LEMMA BootIs ==
  ASSUME Typed, NEW mode \in Modes, Boot(mode)
  PROVE  /\ rt' \in [phase : {"stopped", "starting", "ready", "failed"}, mode : Modes,
                     loaded : SUBSET Change]
         /\ rt'.phase = "starting" /\ rt'.mode = mode /\ rt'.loaded = profile
         /\ excused \subseteq excused' /\ excused' \subseteq Change
         /\ Moving => excused' = Change
  BY DEF Typed, Boot

\* A stop and an exit leave the mode of the Runtime.
LEMMA DownIs ==
  ASSUME Typed, NEW phase \in {"stopped", "ready", "failed"},
         rt' = [rt EXCEPT !.phase = phase]
  PROVE  /\ rt' \in [phase : {"stopped", "starting", "ready", "failed"}, mode : Modes,
                     loaded : SUBSET Change]
         /\ rt'.phase = phase
  BY DEF Typed

\* The directory of a file that is put in its place.
LEMMA PlaceIs ==
  ASSUME Typed, NEW d \in Dir, NEW put \in Nat, NEW p \in SUBSET Change, NEW v \in Nat,
         Place(d, put, p, v)
  PROVE  /\ live' \in [Dir -> Nat]  /\ profile' \subseteq Change  /\ stored' \in Nat
         /\ live'[d] = put  /\ \A e \in Dir \ {d} : live'[e] = live[e]
         /\ profile' = IF d = 1 THEN p ELSE profile
  BY DEF Typed, Place

\* A snapshot that is taken is one of the data, and only others are dropped.
LEMMA CreateIs ==
  ASSUME Typed, NEW kind \in Kinds, NEW keep, NEW kept, CreateSnapshot(kind, keep, kept)
  PROVE  made' \in Nat \ {0} /\ made' = made + 1 /\ snaps' \subseteq Backups
  <1>1. [id |-> made + 1, kind |-> kind, profile |-> profile, stored |-> stored,
         last |-> 3] \in Backups
    BY DEF Typed, Backups
  <1> QED
    BY <1>1 DEF Typed, CreateSnapshot, Rotated

\* What a snapshot holds.
LEMMA SnapIs ==
  ASSUME Typed, NEW i \in Ids
  PROVE  Snap(i) \in snaps /\ Snap(i) \in Backups /\ Snap(i).id = i
  BY DEF Typed, Snap, Ids
-----------------------------------------------------------------------------
(***************************************************************************)
(* Every step keeps the types                                              *)
(***************************************************************************)
\* What a boot, an exit and a stop of the Runtime assign.
LEMMA RuntimeTyped ==
  ASSUME Typed,
         \/ \E mode \in Modes : Launch(mode)
         \/ DeepLink \/ Ready \/ Fails
  PROVE  Typed'
  <1>1. ASSUME NEW mode \in Modes, Launch(mode)  PROVE Typed'
    BY <1>1, BootIs DEF Launch, Typed, data, backups, pending
  <1>2. CASE DeepLink
    <2>1. rt.mode \in Modes
      BY DEF Typed
    <2> QED  BY <1>2, <2>1, BootIs DEF DeepLink, Typed, data, backups, pending
  <1>3. CASE Ready
    <2>1. verified' \subseteq Change /\ excused' \subseteq Change
      BY <1>3 DEF Ready, Typed
    <2>2. op' \in [Change -> Ops \union {NoOp}] /\ rs' \in Under \union {Idle}
      <3>1. op' = Answered(TRUE) /\ rs' = RollbackAnswered(TRUE)
        BY <1>3 DEF Ready
      <3> QED  BY <3>1, AnsweredIs, RollbackAnsweredIs DEF Answered
    <2>3. rt' \in [phase : {"stopped", "starting", "ready", "failed"}, mode : Modes,
                   loaded : SUBSET Change]
      BY <1>3, DownIs DEF Ready
    <2> QED  BY <1>3, <2>1, <2>2, <2>3 DEF Ready, Typed, data, backups
  <1>4. CASE Fails
    <2>2. op' \in [Change -> Ops \union {NoOp}] /\ rs' \in Under \union {Idle}
      <3>1. op' = Answered(FALSE) /\ rs' = RollbackAnswered(FALSE)
        BY <1>4 DEF Fails
      <3> QED  BY <3>1, AnsweredIs, RollbackAnsweredIs DEF Answered
    <2>3. rt' \in [phase : {"stopped", "starting", "ready", "failed"}, mode : Modes,
                   loaded : SUBSET Change]
      BY <1>4, DownIs DEF Fails
    <2> QED  BY <1>4, <2>2, <2>3 DEF Fails, Typed, data, backups, pending, history
  <1> QED  BY <1>1, <1>2, <1>3, <1>4

\* What a transaction becomes when it failed.
LEMMA MarkIs ==
  ASSUME NEW p \in Pending, Mark(p)
  PROVE  file' \in Pending /\ mem' = file' /\ file'.change = p.change /\ file'.snap = p.snap
  BY DEF Mark, Write, Pending

\* A transaction is not the absence of one.
LEMMA PendingIs == None \notin Pending
  <1>1. SUFFICES ASSUME None \in Pending  PROVE FALSE
    OBVIOUS
  <1>2. DOMAIN None = {"change", "phase", "snap"} /\ DOMAIN None = {"change"}
    BY <1>1 DEF Pending, None
  <1> QED  BY <1>2

\* What is removed, and what a failing file operation leaves.
LEMMA ClearIs ==
  ASSUME Typed, Clear \/ Lost \/ Forget
  PROVE  /\ file' \in Pending \union {None} /\ mem' \in {None, file'}
         /\ file' = file \/ file' = None
  BY DEF Typed, Clear, Lost, Forget, Write, pending

\* The transaction in memory, if there is one, is the one in the file.
LEMMA MemIs ==
  ASSUME Typed, mem # None
  PROVE  file = mem /\ mem \in Pending /\ file # None
  BY DEF Typed

\* What the listeners of the Runtime assign.
LEMMA ListenersTyped ==
  ASSUME Typed, PublishedInv, Listeners
  PROVE  Typed'
  <1>1. CASE FailTask
    BY <1>1 DEF FailTask, Typed, data, backups, pending, history
  <1>2. CASE ShowTask
    BY <1>2 DEF ShowTask, Typed, data, backups, history
  <1>3. ASSUME NEW t \in tasks \ {Failing, Showing}, CompleteTask(t.pending)
        PROVE  Typed'
    <2>1. file' \in Pending \union {None} /\ mem' \in {None, file'}
      BY <1>3, ClearIs DEF CompleteTask
    <2>2. excused' \subseteq Change
      BY <1>3 DEF CompleteTask, Typed, Pending
    <2> QED  BY <1>3, <2>1, <2>2 DEF CompleteTask, Typed, data, backups
  <1>4. ASSUME NEW t \in tasks \ {Failing, Showing}, MarkTask(t.pending)
        PROVE  Typed'
    <2>1. t.pending \in Pending
      BY <1>4 DEF PublishedInv, Begun
    <2>2. file' \in Pending \union {None} /\ mem' \in {None, file'}
      BY <1>4, <2>1, MarkIs, ClearIs DEF MarkTask
    <2> QED  BY <1>4, <2>2 DEF MarkTask, Typed, data, backups, history
  <1> QED  BY <1>1, <1>2, <1>3, <1>4 DEF Listeners

\* What a plugin operation assigns.
LEMMA PluginsTyped ==
  ASSUME Typed, NumberInv, NEW c \in Change,
         \/ \E deferred \in BOOLEAN : Ask(c, deferred)
         \/ StopFor(c) \/ TakeSnapshot(c) \/ Prepare(c) \/ Mutate(c)
         \/ Persist(c) \/ BootFor(c) \/ Conclude(c)
  PROVE  Typed'
  <1> USE DEF At
  <1>1. ASSUME NEW deferred \in BOOLEAN, Ask(c, deferred)  PROVE Typed'
    <2> DEFINE new == [pc |-> IF rt.phase = "ready" /\ ~deferred THEN "stop" ELSE "snapshot",
                       ran |-> rt.phase = "ready", deferred |-> deferred,
                       mode |-> rt.mode, snap |-> 0]
    <2>1. new \in Ops
      BY DEF Typed, Ops, Steps, Early
    <2>2. op' = [op EXCEPT ![c] = new]
      BY <1>1 DEF Ask
    <2> HIDE DEF new
    <2>3. op' \in [Change -> Ops \union {NoOp}]
      BY <2>1, <2>2 DEF Typed
    <2> QED  BY <1>1, <2>3 DEF Ask, Typed, data, backups, pending, history
  <1>2. CASE StopFor(c)
    <2>1. op' = [Answered(FALSE) EXCEPT ![c].pc = "snapshot"]
          /\ rs' = RollbackAnswered(FALSE)
      BY <1>2 DEF StopFor
    <2>2. Answered(FALSE)[c] = op[c] /\ op[c] \in Ops
      BY <1>2, AnsweredIs, AskedIs DEF StopFor
    <2>3. [op[c] EXCEPT !.pc = "snapshot"] \in Ops
      BY <2>2 DEF Ops, Steps, Early
    <2>4. op' \in [Change -> Ops \union {NoOp}]
      BY <2>1, <2>2, <2>3, AnsweredIs
    <2>5. rs' \in Under \union {Idle}
      BY <2>1, RollbackAnsweredIs
    <2> QED  BY <1>2, <2>4, <2>5, DownIs DEF StopFor, Typed, data, backups, pending, history
  <1>3. CASE TakeSnapshot(c)
    <2>1. op[c] \in Ops
      BY <1>3, AskedIs DEF TakeSnapshot
    <2>2. CASE Goto(c, "done") /\ UNCHANGED backups
      BY <1>3, <2>2, GotoIs DEF TakeSnapshot, Typed, data, backups, pending, history, Steps
    <2>3. CASE /\ CreateSnapshot("pre-plugin-change", MaxSnapshots, 0)
               /\ op' = [op EXCEPT ![c].pc = "publish", ![c].snap = made + 1]
      <3>1. op' \in [Change -> Ops \union {NoOp}]
        <4>1. [op[c] EXCEPT !.pc = "publish", !.snap = made + 1] \in Ops
          <5>1. made + 1 \in Nat
            BY DEF Typed
          <5> QED  BY <2>1, <5>1 DEF Ops, Steps, Early
        <4>2. op' = [op EXCEPT ![c] = [op[c] EXCEPT !.pc = "publish", !.snap = made + 1]]
          BY <2>3 DEF Typed
        <4> QED  BY <4>1, <4>2 DEF Typed
      <3> QED  BY <1>3, <2>3, <3>1, CreateIs DEF TakeSnapshot, Typed, data, pending, history, Kinds
    <2> QED  BY <1>3, <2>2, <2>3 DEF TakeSnapshot
  <1>4. CASE Prepare(c)
    <2>1. op[c] \in Ops
      BY <1>4, AskedIs DEF Prepare
    <2>2. file' \in Pending \union {None} /\ mem' \in {None, file'}
      BY <1>4, <2>1 DEF Prepare, Write, Pending, Ops, Typed, pending
    <2> QED  BY <1>4, <2>2, GotoIs DEF Prepare, Typed, data, backups, history, Steps
  <1>5. CASE Mutate(c)
    <2>1. op' \in [Change -> Ops \union {NoOp}]
      BY <1>5, GotoIs DEF Mutate, Steps
    <2> QED  BY <1>5, <2>1 DEF Mutate, Typed, backups, pending
  <1>6. CASE Persist(c)
    <2>1. AfterPersist(c) \in Steps \ {"idle"}
      BY DEF AfterPersist, Steps
    <2>2. op' \in [Change -> Ops \union {NoOp}]
      BY <1>6, <2>1, GotoIs DEF Persist, Steps
    <2> QED  BY <1>6, <2>2 DEF Persist, Typed, data, backups, pending
  <1>7. CASE BootFor(c)
    <2> DEFINE mode == IF op[c].mode = "normal" THEN "normal" ELSE rt.mode
    <2>1. mode \in Modes
      BY DEF Typed, Modes
    <2>2. op' \in [Change -> Ops \union {NoOp}]
      BY <1>7, GotoIs DEF BootFor, Steps, Booted
    <2>3. CASE Up
      BY <1>7, <2>2, <2>3 DEF BootFor, Typed, data, backups, pending
    <2>4. CASE ~Up
      <3>1. Boot(mode)
        BY <1>7, <2>4 DEF BootFor
      <3> QED  BY <1>7, <2>1, <2>2, <3>1, BootIs DEF BootFor, Typed, data, backups, pending
    <2> QED  BY <2>3, <2>4
  <1>8. CASE Conclude(c)
    <2>1. op' \in [Change -> Ops \union {NoOp}]
      BY <1>8, GotoIs DEF Conclude, Resolve, Report, Pass, ResolveFails, Concluded, Steps
    <2>2. CASE Resolve(c)
      <3>1. file' \in Pending \union {None} /\ mem' \in {None, file'}
        BY <2>2, ClearIs DEF Resolve
      <3>2. excused' \subseteq Change
        BY <2>2, MemIs DEF Resolve, Typed, Pending
      <3> QED  BY <2>1, <2>2, <3>1, <3>2 DEF Resolve, Concluded, Typed, data, backups
    <2>3. CASE Report(c)
      <3>1. file' \in Pending \union {None} /\ mem' \in {None, file'}
        BY <2>3, MemIs, MarkIs, ClearIs DEF Report
      <3> QED  BY <2>1, <2>3, <3>1 DEF Report, Concluded, Typed, data, backups
    <2>4. CASE Pass(c)
      <3>1. file' \in Pending \union {None} /\ mem' \in {None, file'}
        BY <2>4, ClearIs DEF Pass, Typed, pending
      <3> QED  BY <2>1, <2>4, <3>1 DEF Pass, Concluded, Typed, data, backups
    <2>5. CASE ResolveFails(c)
      BY <2>1, <2>5 DEF ResolveFails, Lost, Typed, data, backups, pending, history
    <2> QED  BY <1>8, <2>2, <2>3, <2>4, <2>5 DEF Conclude
  <1> QED  BY <1>1, <1>2, <1>3, <1>4, <1>5, <1>6, <1>7, <1>8
\* What a restoration assigns.
LEMMA RestorationTyped ==
  ASSUME Typed, Standing, Restoration
  PROVE  Typed'
  <1> USE DEF Modes
  <1>1. ASSUME NEW kind \in {"restore", "rollback"}, NEW i \in 1..made, Restore(kind, i)
        PROVE  Typed'
    <2>1. [put |-> 0, profile |-> {}, stored |-> 0] \in Moved
      BY DEF Moved
    <2>2. rs' \in Under
      BY <1>1, <2>1 DEF Restore, Under, Stages, NoDir, Typed
    <2> QED  BY <1>1, <2>2 DEF Restore, Typed, data, backups, pending, history
  <1>2. CASE StopAll
    <2>1. rs' \in Under
      BY <1>2, UnderIs DEF StopAll, Under, Stages
    <2>2. op' \in [Change -> Ops \union {NoOp}]
      BY <1>2, AnsweredIs DEF StopAll, Answered
    <2> QED  BY <1>2, <2>1, <2>2, DownIs DEF StopAll, Typed, data, backups, pending, history
  <1>3. CASE Save
    <2>1. CASE /\ CreateSnapshot("pre-restore", 1, Kept)
               /\ rs' = [rs EXCEPT !.phase = "extract", !.put = made + 1]
      <3>0. made + 1 \in Nat /\ rs \in Under
        BY <1>3, UnderIs DEF Save, Typed
      <3>1. rs' \in Under
        BY <2>1, <3>0 DEF Under, Stages
      <3> QED  BY <1>3, <2>1, <3>1, CreateIs DEF Save, Typed, data, history, Kinds
    <2>2. CASE rs' = Idle /\ UNCHANGED backups
      BY <1>3, <2>2 DEF Save, Typed, data, backups, history
    <2> QED  BY <1>3, <2>1, <2>2 DEF Save
  <1>4. CASE Extract
    <2>1. rs' \in Under \union {Idle}
      <3>1. CASE rs.src \in Ids
        BY <1>4, <3>1, UnderIs, SnapIs DEF Extract, Under, Stages, Backups
      <3> QED  BY <1>4, <3>1 DEF Extract
    <2> QED  BY <1>4, <2>1 DEF Extract, Typed, data, backups, pending, history
  <1>5. CASE MoveAside
    <2>0. rs \in Under /\ rs.at \in Dir
      BY <1>5, UnderIs DEF MoveAside, Standing, Under, Dir
    <2>1. CASE /\ Place(rs.at, 0, {}, 0)
               /\ rs' = [rs EXCEPT !.phase = "in", !.old[rs.at] =
                           [put |-> live[rs.at], profile |-> profile, stored |-> stored]]
      <3>1. [put |-> live[rs.at], profile |-> profile, stored |-> stored] \in Moved
        BY <2>0 DEF Typed, Moved
      <3>2. [rs.old EXCEPT ![rs.at] =
               [put |-> live[rs.at], profile |-> profile, stored |-> stored]] \in [Dir -> Moved]
        BY <2>0, <3>1 DEF Under
      <3>3. rs' \in Under
        BY <2>0, <2>1, <3>2 DEF Under, Stages
      <3> QED  BY <1>5, <2>0, <2>1, <3>3, PlaceIs DEF MoveAside, Typed, backups, pending, history
    <2>2. CASE rs' = [rs EXCEPT !.phase = "undo", !.at = rs.at - 1] /\ UNCHANGED data
      <3>0. rs.at - 1 \in 0..4
        BY <2>0 DEF Dir
      <3>1. rs' \in Under
        BY <2>0, <2>2, <3>0 DEF Under, Stages
      <3> QED  BY <1>5, <2>2, <3>1 DEF MoveAside, Typed, data, backups, pending, history
    <2> QED  BY <1>5, <2>1, <2>2 DEF MoveAside
  <1>6. CASE MoveIn
    <2>0. rs \in Under /\ rs.at \in Dir
      BY <1>6, UnderIs DEF MoveIn, Standing, Under, Dir
    <2>1. CASE /\ Place(rs.at, rs.put, rs.profile, rs.stored)
               /\ rs' = [rs EXCEPT !.phase = "aside", !.at = rs.at + 1]
               /\ excused' = IF rs.at = 1 THEN excused \union rs.profile \union Undone
                             ELSE excused
      <3>0. rs.at + 1 \in 0..4
        BY <2>0 DEF Dir
      <3>1. rs' \in Under
        BY <2>0, <2>1, <3>0 DEF Under, Stages
      <3>2. excused' \subseteq Change
        BY <2>0, <2>1 DEF Under, Typed, Undone
      <3>3. /\ rs.put \in Nat /\ rs.profile \in SUBSET Change /\ rs.stored \in Nat
        BY <2>0 DEF Under
      <3> QED  BY <1>6, <2>0, <2>1, <3>1, <3>2, <3>3, PlaceIs DEF MoveIn, Typed, backups, pending
    <2>2. CASE rs' = [rs EXCEPT !.phase = "undo"] /\ UNCHANGED <<data, excused>>
      <3>1. rs' \in Under
        BY <2>0, <2>2 DEF Under, Stages, Dir
      <3> QED  BY <1>6, <2>2, <3>1 DEF MoveIn, Typed, data, backups, pending
    <2> QED  BY <1>6, <2>1, <2>2 DEF MoveIn
  <1>7. CASE Undo
    <2>0. rs \in Under
      BY <1>7, UnderIs DEF Undo
    <2>1. CASE rs.at = 0
      BY <1>7, <2>1 DEF Undo, Typed, data, backups, pending, history
    <2>2. CASE rs.at # 0
      <3>1. rs.at \in Dir
        BY <1>7, <2>0, <2>2 DEF Undo, Standing, Under, Dir
      <3>2. rs.old[rs.at] \in Moved
        BY <2>0, <3>1 DEF Under
      <3>3. /\ Place(rs.at, rs.old[rs.at].put, rs.old[rs.at].profile, rs.old[rs.at].stored)
            /\ rs' = [rs EXCEPT !.at = rs.at - 1]
        BY <1>7, <2>2 DEF Undo
      <3>4. rs' \in Under
        BY <2>0, <3>1, <3>3 DEF Under, Dir
      <3>5. live' \in [Dir -> Nat] /\ profile' \subseteq Change /\ stored' \in Nat
        BY <3>1, <3>2, <3>3, PlaceIs DEF Moved
      <3> QED  BY <1>7, <3>4, <3>5 DEF Undo, Typed, backups, pending, history
    <2> QED  BY <2>1, <2>2
  <1>8. CASE Finish
    <2>1. rs' \in Under \union {Idle}
      <3>0. rs \in Under
        BY <1>8, UnderIs DEF Finish
      <3>1. \/ rs' = [rs EXCEPT !.phase = "boot"]
            \/ rs' = Idle
            \/ rs' = [rs EXCEPT !.phase = "undo", !.at = rs.last]
        BY <1>8 DEF Finish
      <3>2. [rs EXCEPT !.phase = "boot"] \in Under
        BY <3>0 DEF Under, Stages
      <3>3. [rs EXCEPT !.phase = "undo", !.at = rs.last] \in Under
        <4>1. rs.last \in 0..4
          BY <3>0 DEF Under
        <4> QED  BY <3>0, <4>1 DEF Under, Stages
      <3> QED  BY <3>1, <3>2, <3>3
    <2>2. due' \in [Dir -> Nat]
      BY <1>8, UnderIs DEF Finish, Restored, Typed, Under
    <2> QED  BY <1>8, <2>1, <2>2 DEF Finish, Typed, data, backups
  <1>9. CASE RollbackBoots
    <2>1. rs' \in Under \union {Idle}
      BY <1>9, UnderIs DEF RollbackBoots, Under, Stages
    <2>2. CASE Up
      BY <1>9, <2>1, <2>2 DEF RollbackBoots, Typed, data, backups, pending
    <2>3. CASE ~Up
      <3>1. Boot("normal")
        BY <1>9, <2>3 DEF RollbackBoots
      <3> QED  BY <1>9, <2>1, <3>1, BootIs DEF RollbackBoots, Typed, data, backups, pending
    <2> QED  BY <2>2, <2>3
  <1>10. CASE RollbackEnds
    <2>1. file' \in Pending \union {None} /\ mem' \in {None, file'}
      BY <1>10, ClearIs DEF RollbackEnds
    <2>2. excused' \subseteq Change
      BY <1>10, MemIs DEF RollbackEnds, Typed, Pending
    <2> QED  BY <1>10, <2>1, <2>2 DEF RollbackEnds, Typed, data, backups
  <1> QED
    BY <1>1, <1>2, <1>3, <1>4, <1>5, <1>6, <1>7, <1>8, <1>9, <1>10 DEF Restoration

\* What a write, a deletion and a restart assign.
LEMMA OthersTyped ==
  ASSUME Typed, (\E i \in Ids : DeleteSnapshot(i)) \/ StoreWrite \/ Restart
  PROVE  Typed'
  <1>1. ASSUME NEW i \in Ids, DeleteSnapshot(i)  PROVE Typed'
    BY <1>1 DEF DeleteSnapshot, Typed, data, pending, bounds
  <1>2. CASE StoreWrite
    BY <1>2 DEF StoreWrite, Typed, backups, pending, history
  <1>3. CASE Restart
    <2>1. live' \in [Dir -> Nat]
      BY <1>3 DEF Restart, Typed
    <2>2. op' \in [Change -> Ops \union {NoOp}]
      <3>1. ASSUME NEW c \in Change, op[c] # NoOp  PROVE [op[c] EXCEPT !.pc = "done"] \in Ops
        BY <3>1 DEF Typed, Ops, Steps
      <3> QED  BY <1>3, <3>1 DEF Restart
    <2>3. rt' \in [phase : {"stopped", "starting", "ready", "failed"}, mode : Modes,
                   loaded : SUBSET Change]
      BY <1>3 DEF Restart, Modes
    <2>4. torn' \in BOOLEAN
      BY <1>3 DEF Restart, Typed
    <2>5. due' \in [Dir -> Nat]
      <3>1. CASE due' = due
        BY <3>1 DEF Typed
      <3>2. CASE rs.phase = "aside" /\ due' = Restored
        <4>1. rs \in Under
          BY <3>2, UnderIs
        <4> QED  BY <3>2, <4>1 DEF Restored, Typed, Under
      <3> QED  BY <1>3, <3>1, <3>2 DEF Restart
    <2> QED  BY <1>3, <2>5, <2>1, <2>2, <2>3, <2>4 DEF Restart, Typed
  <1> QED  BY <1>1, <1>2, <1>3
-----------------------------------------------------------------------------
(***************************************************************************)
(* All the directories or none                                             *)
(***************************************************************************)
\* Nothing changes while no directory is moved.
LEMMA WholeKept ==
  ASSUME Standing, WholeInv, UNCHANGED <<live, due, torn>>,
         \/ rs' = rs
         \/ /\ rs.phase \in Settled /\ rs'.phase \in Settled
            /\ rs'.phase \in {"stop", "save", "extract"} => rs'.at = 1
            /\ rs'.phase = "extract" => rs'.put # 0
  PROVE  Standing' /\ WholeInv'
  <1>1. CASE rs' = rs
    <2>1. ASSUME Halfway  PROVE Halfway'
      BY <1>1, <2>1 DEF Halfway
    <2> QED  BY <1>1, <2>1 DEF Standing, WholeInv, Moving, Settled
  <1>2. CASE /\ rs.phase \in Settled /\ rs'.phase \in Settled
             /\ rs'.phase \in {"stop", "save", "extract"} => rs'.at = 1
             /\ rs'.phase = "extract" => rs'.put # 0
    BY <1>2 DEF Standing, WholeInv, Moving, Settled
  <1> QED  BY <1>1, <1>2

\* What the answers to those who wait do to a restoration.
LEMMA AnswerSettles ==
  ASSUME Typed, NEW ok \in BOOLEAN, rs' = RollbackAnswered(ok)
  PROVE  \/ rs' = rs
         \/ /\ rs.phase \in Settled /\ rs'.phase \in Settled
            /\ rs'.phase \in {"stop", "save", "extract"} => rs'.at = 1
            /\ rs'.phase = "extract" => rs'.put # 0
  BY RollbackAnsweredIs DEF Settled, Idle

\* The first rename of a directory, or its failure.
LEMMA MoveAsideWhole ==
  ASSUME Typed, Standing, WholeInv, MoveAside
  PROVE  Standing' /\ WholeInv'
  <1>0. /\ rs \in Under /\ rs.at \in Dir /\ rs.at \in 1..rs.last /\ rs.phase = "aside"
        /\ rs.last \in {2, 3} /\ rs.put # 0 /\ torn' = torn /\ due' = due
    BY UnderIs DEF MoveAside, Standing, Moving, Under, Dir, history
  <1>1. CASE /\ Place(rs.at, 0, {}, 0)
             /\ rs' = [rs EXCEPT !.phase = "in", !.old[rs.at] =
                         [put |-> live[rs.at], profile |-> profile, stored |-> stored]]
    <2>1. /\ rs'.phase = "in" /\ rs'.at = rs.at /\ rs'.put = rs.put /\ rs'.last = rs.last
          /\ rs'.old[rs.at].put = live[rs.at]
          /\ \A d \in Dir \ {rs.at} : rs'.old[d] = rs.old[d]
      BY <1>0, <1>1 DEF Under
    <2>2. \A d \in Dir \ {rs.at} : live'[d] = live[d]
      BY <1>0, <1>1, PlaceIs
    <2>3. ASSUME Halfway  PROVE Halfway'
      BY <1>0, <2>1, <2>2, <2>3 DEF Halfway, Dir
    <2> QED  BY <1>0, <2>1, <2>3 DEF Standing, WholeInv, Moving, Settled
  <1>2. CASE rs' = [rs EXCEPT !.phase = "undo", !.at = rs.at - 1] /\ UNCHANGED data
    <2>1. /\ rs'.phase = "undo" /\ rs'.at = rs.at - 1 /\ rs'.put = rs.put
          /\ rs'.old = rs.old /\ rs'.last = rs.last
      BY <1>0, <1>2 DEF Under
    <2>2. live' = live
      BY <1>2 DEF data
    <2>3. ASSUME Halfway  PROVE Halfway'
      BY <1>0, <2>1, <2>2, <2>3 DEF Halfway, Dir
    <2> QED  BY <1>0, <2>1, <2>3 DEF Standing, WholeInv, Moving, Settled, Dir
  <1> QED  BY <1>1, <1>2 DEF MoveAside

\* The second rename of a directory, or its failure.
LEMMA MoveInWhole ==
  ASSUME Typed, Standing, WholeInv, MoveIn
  PROVE  Standing' /\ WholeInv'
  <1>0. /\ rs \in Under /\ rs.at \in Dir /\ rs.at \in 1..rs.last /\ rs.phase = "in"
        /\ rs.last \in {2, 3} /\ rs.put # 0 /\ torn' = torn /\ due' = due
    BY UnderIs DEF MoveIn, Standing, Moving, Under, Dir
  <1>1. CASE /\ Place(rs.at, rs.put, rs.profile, rs.stored)
             /\ rs' = [rs EXCEPT !.phase = "aside", !.at = rs.at + 1]
    <2>1. /\ rs'.phase = "aside" /\ rs'.at = rs.at + 1 /\ rs'.put = rs.put
          /\ rs'.old = rs.old /\ rs'.last = rs.last
      BY <1>0, <1>1 DEF Under
    <2>2. live'[rs.at] = rs.put /\ \A d \in Dir \ {rs.at} : live'[d] = live[d]
      BY <1>0, <1>1, PlaceIs DEF Under
    <2>3. ASSUME Halfway  PROVE Halfway'
      BY <1>0, <2>1, <2>2, <2>3 DEF Halfway, Dir
    <2> QED  BY <1>0, <2>1, <2>3 DEF Standing, WholeInv, Moving, Settled, Dir
  <1>2. CASE rs' = [rs EXCEPT !.phase = "undo"] /\ UNCHANGED <<data, excused>>
    <2>1. /\ rs'.phase = "undo" /\ rs'.at = rs.at /\ rs'.put = rs.put
          /\ rs'.old = rs.old /\ rs'.last = rs.last
      BY <1>0, <1>2 DEF Under
    <2>2. live' = live
      BY <1>2 DEF data
    <2>3. ASSUME Halfway  PROVE Halfway'
      BY <1>0, <2>1, <2>2, <2>3 DEF Halfway, Dir
    <2> QED  BY <1>0, <2>1, <2>3 DEF Standing, WholeInv, Moving, Settled, Dir
  <1> QED  BY <1>1, <1>2 DEF MoveIn

\* A directory is put back.
LEMMA UndoWhole ==
  ASSUME Typed, Standing, WholeInv, Undo
  PROVE  Standing' /\ WholeInv'
  <1>0. /\ rs \in Under /\ rs.at \in 0..rs.last /\ rs.last \in {2, 3} /\ rs.phase = "undo"
        /\ rs.put # 0 /\ torn' = torn /\ due' = due
    BY UnderIs DEF Undo, Standing, Moving, Under, history
  <1>1. CASE rs.at = 0
    <2>1. rs' = Idle /\ live' = live
      BY <1>1 DEF Undo, data
    <2>2. ASSUME Halfway  PROVE \A d \in Dir : live[d] = due[d]
      BY <1>0, <1>1, <2>2 DEF Halfway, Dir
    <2> QED  BY <1>0, <2>1, <2>2 DEF Standing, WholeInv, Moving, Settled, Idle
  <1>2. CASE rs.at # 0
    <2>0. rs.at \in Dir /\ rs.at \in 1..rs.last /\ rs.old[rs.at] \in Moved
      BY <1>0, <1>2 DEF Dir, Under
    <2>1. /\ Place(rs.at, rs.old[rs.at].put, rs.old[rs.at].profile, rs.old[rs.at].stored)
          /\ rs' = [rs EXCEPT !.at = rs.at - 1]
      BY <1>2 DEF Undo
    <2>2. /\ rs'.phase = "undo" /\ rs'.at = rs.at - 1 /\ rs'.put = rs.put
          /\ rs'.old = rs.old /\ rs'.last = rs.last
      BY <1>0, <2>1 DEF Under
    <2>3. live'[rs.at] = rs.old[rs.at].put /\ \A d \in Dir \ {rs.at} : live'[d] = live[d]
      BY <2>0, <2>1, PlaceIs DEF Moved
    <2>4. ASSUME Halfway  PROVE Halfway'
      BY <1>0, <2>0, <2>2, <2>3, <2>4 DEF Halfway, Dir
    <2> QED  BY <1>0, <2>0, <2>2, <2>4 DEF Standing, WholeInv, Moving, Settled, Dir
  <1> QED  BY <1>1, <1>2

\* The end of the renames, or the failure of what comes after them.
LEMMA FinishWhole ==
  ASSUME Typed, Standing, WholeInv, Finish
  PROVE  Standing' /\ WholeInv'
  <1>0. /\ rs \in Under /\ rs.at = rs.last + 1 /\ rs.last \in {2, 3} /\ rs.phase = "aside"
        /\ rs.put # 0 /\ torn' = torn /\ live' = live
    BY UnderIs DEF Finish, Standing, Moving, Under, data
  <1>1. CASE /\ rs' = IF rs.kind = "rollback" THEN [rs EXCEPT !.phase = "boot"] ELSE Idle
             /\ due' = Restored
    <2>1. rs'.phase \in {"boot", "idle"}
      BY <1>0, <1>1 DEF Under, Idle
    <2>2. ASSUME Halfway, \A d \in Dir : due[d] # 0
          PROVE  \A d \in Dir : live[d] = due'[d] /\ due'[d] # 0
      BY <1>0, <1>1, <2>2 DEF Halfway, Restored, Dir
    <2> QED  BY <1>0, <2>1, <2>2 DEF Standing, WholeInv, Moving, Settled
  <1>2. CASE rs' = [rs EXCEPT !.phase = "undo", !.at = rs.last] /\ due' = due
    <2>1. /\ rs'.phase = "undo" /\ rs'.at = rs.last /\ rs'.put = rs.put
          /\ rs'.old = rs.old /\ rs'.last = rs.last
      BY <1>0, <1>2 DEF Under
    <2>3. ASSUME Halfway  PROVE Halfway'
      BY <1>0, <1>2, <2>1, <2>3 DEF Halfway, Dir
    <2> QED  BY <1>0, <1>2, <2>1, <2>3 DEF Standing, WholeInv, Moving, Settled, Dir
  <1> QED  BY <1>1, <1>2 DEF Finish

\* The layout is created again: nothing that was whole is torn.
LEMMA RestartWhole ==
  ASSUME Typed, Standing, WholeInv, Restart
  PROVE  Standing' /\ WholeInv'
  <1>1. rs' = Idle /\ rs'.phase = "idle"
    BY DEF Restart, Idle
  <1>2. ~torn' => ~torn /\ live = due'
    BY DEF Restart, Typed
  <1>3. ASSUME ~torn  PROVE \A d \in Dir : due'[d] # 0
    <2>1. \A d \in Dir : due[d] # 0
      BY <1>3 DEF WholeInv
    <2>2. CASE due' = due
      BY <2>1, <2>2
    <2>3. CASE rs.phase = "aside" /\ due' = Restored
      BY <2>1, <2>3 DEF Restored, Standing, Moving
    <2> QED  BY <2>2, <2>3 DEF Restart
  <1>4. ASSUME ~torn'  PROVE live' = [d \in Dir |-> live[d]]
    BY <1>2, <1>3, <1>4 DEF Restart
  <1>5. ~torn' => \A d \in Dir : live'[d] = due'[d] /\ due'[d] # 0
    BY <1>2, <1>3, <1>4
  <1> QED  BY <1>1, <1>5 DEF Standing, WholeInv, Moving, Settled
\* The other steps of a restoration move no directory.
LEMMA RestorationWhole ==
  ASSUME Typed, Standing, WholeInv, Restoration
  PROVE  Standing' /\ WholeInv'
  <1>1. ASSUME NEW kind \in {"restore", "rollback"}, NEW i \in 1..made, Restore(kind, i)
        PROVE  Standing' /\ WholeInv'
    BY <1>1, WholeKept DEF Restore, Idle, Settled, data, history
  <1>2. CASE StopAll
    <2>1. rs'.phase = "save" /\ rs'.at = rs.at
      BY <1>2, UnderIs DEF StopAll, Under
    <2> QED  BY <1>2, <2>1, WholeKept DEF StopAll, Standing, Settled, data, history
  <1>3. CASE Save
    <2>1. rs' = Idle \/ (rs'.phase = "extract" /\ rs'.at = rs.at /\ rs'.put = made + 1)
      BY <1>3, UnderIs DEF Save, Under
    <2>2. made + 1 # 0
      BY DEF Typed
    <2> QED  BY <1>3, <2>1, <2>2, WholeKept DEF Save, Standing, Idle, Settled, data, history
  <1>4. CASE Extract
    <2>1. /\ torn' = torn /\ live' = live /\ due' = due /\ rs.phase = "extract" /\ rs \in Under
          /\ rs.at = 1
      BY <1>4, UnderIs DEF Extract, Standing, data, history
    <2>2. CASE rs' = Idle
      BY <2>1, <2>2, WholeKept DEF Idle, Settled
    <2>3. CASE rs.src \in Ids /\ rs' = [rs EXCEPT !.phase = "aside",
                                             !.last = Snap(rs.src).last,
                                             !.profile = Snap(rs.src).profile,
                                             !.stored = Snap(rs.src).stored]
      <3>1. /\ rs'.phase = "aside" /\ rs'.at = 1 /\ rs'.put = rs.put /\ rs.put # 0
            /\ rs'.last \in {2, 3}
        BY <2>1, <2>3, SnapIs DEF Under, Standing, Backups
      <3>2. (\A d \in Dir : live[d] = due[d]) => Halfway'
        BY <2>1, <3>1 DEF Halfway, Dir
      <3> QED  BY <2>1, <3>1, <3>2 DEF Standing, WholeInv, Moving, Settled, Dir
    <2> QED  BY <1>4, <2>2, <2>3 DEF Extract
  <1>5. CASE RollbackBoots
    <2>1. rs' = Idle \/ rs'.phase \in {"resolve", "wait"}
      BY <1>5, UnderIs DEF RollbackBoots, Under
    <2> QED  BY <1>5, <2>1, WholeKept DEF RollbackBoots, Idle, Settled, data
  <1>6. CASE RollbackEnds
    BY <1>6, WholeKept DEF RollbackEnds, Idle, Settled, data
  <1> QED
    BY <1>1, <1>2, <1>3, <1>4, <1>5, <1>6, MoveAsideWhole, MoveInWhole, UndoWhole,
       FinishWhole DEF Restoration

\* Neither a plugin operation nor the Runtime moves a directory.
LEMMA OthersWhole ==
  ASSUME Typed, Standing, WholeInv,
         \/ Plugins \/ Listeners \/ Ready \/ Fails \/ DeepLink \/ StoreWrite \/ Restart
         \/ \E mode \in Modes : Launch(mode)
         \/ \E i \in Ids : DeleteSnapshot(i)
  PROVE  Standing' /\ WholeInv'
  <1>1. CASE Ready \/ Fails
    <2>1. \E ok \in BOOLEAN : rs' = RollbackAnswered(ok)
      BY <1>1 DEF Ready, Fails
    <2> QED  BY <1>1, <2>1, AnswerSettles, WholeKept DEF Ready, Fails, data, history
  <1>2. ASSUME NEW c \in Change, StopFor(c)  PROVE Standing' /\ WholeInv'
    BY <1>2, AnswerSettles, WholeKept DEF StopFor, data, history
  <1>3. ASSUME NEW c \in Change,
               \/ \E deferred \in BOOLEAN : Ask(c, deferred)
               \/ TakeSnapshot(c) \/ Prepare(c) \/ Persist(c) \/ Conclude(c)
        PROVE  Standing' /\ WholeInv'
    BY <1>3, WholeKept DEF Ask, TakeSnapshot, Prepare, Persist, Conclude, Resolve, Report, Pass,
       ResolveFails, Concluded, data, history
  <1>4. ASSUME NEW c \in Change, Mutate(c) \/ BootFor(c)  PROVE Standing' /\ WholeInv'
    BY <1>4, WholeKept DEF Mutate, BootFor, data, history
  <1>5. CASE Listeners
    BY <1>5, WholeKept DEF Listeners, FailTask, ShowTask, CompleteTask, MarkTask, data, history
  <1>6. CASE \/ DeepLink \/ StoreWrite \/ \E mode \in Modes : Launch(mode)
             \/ \E i \in Ids : DeleteSnapshot(i)
    BY <1>6, WholeKept DEF DeepLink, StoreWrite, Launch, DeleteSnapshot, data, history
  <1> QED  BY <1>1, <1>2, <1>3, <1>4, <1>5, <1>6, RestartWhole DEF Plugins
-----------------------------------------------------------------------------
(***************************************************************************)
(* What every step does to the changes, and what follows from it           *)
(***************************************************************************)
Made(c) == op[c].pc = "mutate" /\ op'[c].pc = "persist"

\* A change comes into the profile by its operation or is excused; a proof is
\* not lost, and an operation goes on.
Forward ==
  /\ verified \subseteq verified' /\ excused \subseteq excused'
  /\ \A c \in Change : Present(c)' => Present(c) \/ Proved(c)' \/ Made(c)
  /\ \A c \in Change : op[c].pc \notin Unmade => op'[c].pc \notin Unmade
  /\ \A c \in Change : op[c].pc \notin Early => op'[c].pc \notin Early
  /\ \A c \in Change : op[c].pc \notin Undrawn =>
                         op'[c].pc \notin Undrawn /\ op'[c].snap = op[c].snap

\* A Runtime that is starting was so, or starts with all there is.
RuntimeGoes ==
  rt'.phase = "starting" =>
    \/ rt' = rt /\ \A c \in Change : Made(c) => Proved(c)'
    \/ \A c \in Change : Present(c)' => Proved(c)' \/ c \in rt'.loaded

\* An operation that waits did so before, or waits for a start of its mode.
WaitsGo ==
  \A c \in Change : op'[c].pc = "wait" =>
    \/ Proved(c)'
    \/ op[c].pc = "wait" /\ op'[c].mode = op[c].mode /\ rt' = rt
    \/ rt'.phase = "starting" /\ (op'[c].mode = "normal" => rt'.mode = "normal")

EndsGo ==
  \A c \in Change : op'[c].pc \in {"complete", "abort"} =>
    op[c].pc \in {"complete", "abort"} \/ Safe(c)'

\* A transaction was there before, or is published by its operation.
TransactionsGo ==
  /\ file' # None => \/ /\ file # None /\ file' \in Pending
                        /\ file'.change = file.change /\ file'.snap = file.snap
                     \/ Begun(file)'
  /\ \A t \in tasks' \ {Failing, Showing} : t \notin tasks =>
       /\ t.task \in {"complete", "mark"} /\ file # None /\ t.pending = file
       /\ t.task = "complete" => Safe(t.pending.change)'

NumbersGo ==
  /\ made <= made' /\ made' \in Nat
  /\ \A c \in Change : op'[c].pc # "idle" =>
       \/ op[c].pc # "idle" /\ op'[c].snap = op[c].snap
       \/ op'[c].snap <= made'
  /\ \A c \in Change : op'[c].pc \in {"stop", "snapshot"} =>
       \/ op[c].pc \in {"stop", "snapshot"} /\ op'[c].snap = op[c].snap
       \/ op'[c].snap = 0
  /\ rs'.phase # "idle" => \/ rs.phase # "idle" /\ rs'.src = rs.src
                           \/ rs'.src \in 1..made'

\* A profile that was replaced stays, but for what operations make, and no
\* operation draws the snapshot it was replaced with.
ReplacedGoes ==
  Replaced' =>
    /\ Replaced /\ rs'.src = rs.src
    /\ \A c \in Change : c \in profile' => c \in profile \/ Proved(c)' \/ Made(c)
    /\ \A c \in Change : op[c].pc \in Undrawn /\ op'[c].pc \notin Undrawn =>
                           op'[c].snap # rs.src

\* What is proved stays proved, and what is safe stays safe.
LEMMA ForwardKeeps ==
  ASSUME Forward, NEW c \in Change
  PROVE  /\ Proved(c) => Proved(c)'
         /\ Safe(c) => Safe(c)'
         /\ op'[c].pc \in Unmade => op[c].pc \in Unmade /\ ~Made(c)
         /\ Made(c) => op[c].pc \in Unmade
  BY DEF Forward, Proved, Safe, Made, Unmade, Early

\* What is known of starts and operations stays so.
LEMMA StartKept ==
  ASSUME StartInv, Forward, RuntimeGoes, WaitsGo, EndsGo
  PROVE  StartInv'
  <1>1. ASSUME NEW c \in Change, op'[c].pc \in Unmade  PROVE Proved(c)' \/ ~Present(c)'
    BY <1>1, ForwardKeeps DEF StartInv, Forward
  <1>2. ASSUME rt'.phase = "starting", NEW c \in Change, Present(c)'
        PROVE  Proved(c)' \/ c \in rt'.loaded
    BY <1>2, ForwardKeeps DEF StartInv, Forward, RuntimeGoes
  <1>3. ASSUME NEW c \in Change, op'[c].pc = "wait"
        PROVE  \/ Proved(c)'
               \/ rt'.phase = "starting" /\ (op'[c].mode = "normal" => rt'.mode = "normal")
    BY <1>3, ForwardKeeps DEF StartInv, WaitsGo
  <1>4. ASSUME NEW c \in Change, op'[c].pc \in {"complete", "abort"}  PROVE Safe(c)'
    BY <1>4, ForwardKeeps DEF StartInv, EndsGo
  <1> QED  BY <1>1, <1>2, <1>3, <1>4 DEF StartInv

\* Transactions and listeners still belong to operations that published them.
LEMMA PublishedKept ==
  ASSUME PublishedInv, Forward, TransactionsGo
  PROVE  PublishedInv'
  <1>1. ASSUME NEW p, Begun(p)  PROVE Begun(p)'
    BY <1>1 DEF Begun, Forward, Pending, Early, Undrawn
  <1>2. ASSUME file' # None  PROVE Begun(file)'
    <2>1. ASSUME file # None, file' \in Pending, file'.change = file.change,
                 file'.snap = file.snap
          PROVE  Begun(file)'
      <3>1. Begun(file)
        BY <2>1 DEF PublishedInv
      <3> QED  BY <1>1, <2>1, <3>1 DEF Begun
    <2> QED  BY <1>2, <2>1 DEF TransactionsGo
  <1>3. ASSUME NEW t \in tasks' \ {Failing, Showing}
        PROVE  /\ t.task \in {"complete", "mark"} /\ Begun(t.pending)'
               /\ t.task = "complete" => Safe(t.pending.change)'
    <2>1. CASE t \in tasks
      <3>1. /\ t.task \in {"complete", "mark"} /\ Begun(t.pending)
            /\ t.task = "complete" => Safe(t.pending.change)
        BY <1>3, <2>1 DEF PublishedInv
      <3>2. t.pending.change \in Change
        BY <3>1 DEF Begun, Pending
      <3> QED  BY <1>1, <3>1, <3>2, ForwardKeeps
    <2>2. CASE t \notin tasks
      <3>1. /\ t.task \in {"complete", "mark"} /\ file # None /\ t.pending = file
            /\ t.task = "complete" => Safe(t.pending.change)'
        BY <1>3, <2>2 DEF TransactionsGo
      <3>2. Begun(t.pending)
        BY <3>1 DEF PublishedInv
      <3> QED  BY <1>1, <3>1, <3>2
    <2> QED  BY <2>1, <2>2
  <1>4. Failing.task # "complete" /\ Showing.task # "complete"
    BY DEF Failing, Showing
  <1> QED  BY <1>2, <1>3, <1>4 DEF PublishedInv

\* Snapshots are still numbered in the order they were taken.
LEMMA NumberKept ==
  ASSUME Typed, NumberInv, NumbersGo
  PROVE  NumberInv'
  <1>1. ASSUME NEW c \in Change, op'[c].pc # "idle"  PROVE op'[c].snap <= made'
    <2>1. CASE op'[c].snap <= made'
      BY <2>1
    <2>2. CASE op[c].pc # "idle" /\ op'[c].snap = op[c].snap
      <3>1. op[c].snap \in Nat /\ op[c].snap <= made
        BY <2>2, AskedIs DEF Ops, NumberInv
      <3> QED  BY <2>2, <3>1 DEF NumbersGo, Typed
    <2> QED  BY <1>1, <2>1, <2>2 DEF NumbersGo
  <1>2. ASSUME rs'.phase # "idle"  PROVE rs'.src \in 1..made'
    BY <1>2 DEF NumberInv, NumbersGo, Typed
  <1>3. ASSUME NEW c \in Change, op'[c].pc \in {"stop", "snapshot"}  PROVE op'[c].snap = 0
    BY <1>3 DEF NumberInv, NumbersGo
  <1> QED  BY <1>1, <1>2, <1>3 DEF NumberInv

\* A profile that was replaced is still without what came after the snapshot.
LEMMA ReplacedKept ==
  ASSUME ReplacedInv, Forward, ReplacedGoes
  PROVE  ReplacedInv'
  <1> SUFFICES ASSUME Replaced', NEW c \in Change, op'[c].pc \notin Undrawn,
                      op'[c].snap = rs'.src
               PROVE  Proved(c)' \/ (c \notin profile' /\ op'[c].pc \notin Unmade)
    BY DEF ReplacedInv
  <1>1. Replaced /\ rs'.src = rs.src /\ op[c].pc \notin Undrawn /\ op[c].snap = rs.src
    BY DEF ReplacedGoes, Forward
  <1>2. Proved(c) \/ (c \notin profile /\ op[c].pc \notin Unmade)
    BY <1>1 DEF ReplacedInv
  <1> QED  BY <1>2, ForwardKeeps DEF ReplacedGoes, Forward
\* All of this.
Goes == /\ Forward /\ RuntimeGoes /\ WaitsGo /\ EndsGo
        /\ TransactionsGo /\ NumbersGo /\ ReplacedGoes /\ NotedInv'

\* Together they keep the invariant about transactions.
LEMMA GoesKeeps ==
  ASSUME Typed, ForgetInv, Goes
  PROVE  ForgetInv'
  BY StartKept, PublishedKept, NumberKept, ReplacedKept DEF Goes, ForgetInv

\* A step that leaves the operations, the Runtime and the restoration.
LEMMA StillGoes ==
  ASSUME Typed, NotedInv, UNCHANGED <<profile, op, rs, rt, made>>,
         verified \subseteq verified', excused \subseteq excused'
  PROVE  /\ Forward /\ RuntimeGoes /\ WaitsGo /\ EndsGo
         /\ NumbersGo /\ ReplacedGoes /\ NotedInv'
  <1>1. Forward
    BY DEF Forward, Present, Noted, Proved
  <1>2. RuntimeGoes
    BY DEF RuntimeGoes, Made
  <1>3. NumbersGo
    BY DEF NumbersGo, Typed
  <1>4. ReplacedGoes /\ NotedInv'
    BY DEF ReplacedGoes, Replaced, NotedInv
  <1> QED  BY <1>1, <1>2, <1>3, <1>4 DEF WaitsGo, EndsGo

\* Neither the pending transaction nor a listener that has one is new.
LEMMA OldTransactionsGo ==
  ASSUME Typed, file' = file \/ file' = None, tasks' \subseteq tasks \union {Failing, Showing}
  PROVE  TransactionsGo
  BY DEF TransactionsGo, Typed

\* A transaction that was begun is marked, or is left.
LEMMA MarkedTransactionsGo ==
  ASSUME Typed, NEW p, Begun(p), Mark(p) \/ Lost, tasks' \subseteq tasks,
         op'[p.change].pc \notin Early, op'[p.change].snap = op[p.change].snap
  PROVE  TransactionsGo
  <1>1. CASE Mark(p)
    <2>1. file' \in Pending /\ file'.change = p.change /\ file'.snap = p.snap
      BY <1>1, MarkIs DEF Begun
    <2>2. Begun(file)'
      BY <2>1 DEF Begun
    <2> QED  BY <2>2 DEF TransactionsGo
  <1>2. CASE Lost
    BY <1>2, OldTransactionsGo DEF Lost, pending
  <1> QED  BY <1>1, <1>2

\* Listeners leave all but the transaction.
LEMMA ListenersGo ==
  ASSUME Typed, ForgetInv, Listeners
  PROVE  Goes
  <1>1. CASE FailTask
    <2>1. UNCHANGED <<profile, made, file, mem, rt, op, rs, verified, excused>>
      BY <1>1 DEF FailTask, data, backups, pending, history
    <2>2. TransactionsGo
      <3> SUFFICES ASSUME NEW t \in tasks' \ {Failing, Showing}, t \notin tasks
                   PROVE  t.task = "mark" /\ file # None /\ t.pending = file
        BY <2>1 DEF TransactionsGo, Typed
      <3>1. mem # None /\ t = Marking(mem)
        BY <1>1 DEF FailTask
      <3> QED  BY <3>1, MemIs DEF Marking
    <2> QED  BY <2>1, <2>2, StillGoes DEF Goes, ForgetInv
  <1>2. CASE ShowTask
    <2>1. UNCHANGED <<profile, made, file, rt, op, rs, verified, excused>> /\ tasks' \subseteq tasks
      BY <1>2 DEF ShowTask, data, backups, history
    <2> QED  BY <2>1, OldTransactionsGo, StillGoes DEF Goes, ForgetInv
  <1>3. ASSUME NEW t \in tasks \ {Failing, Showing}, CompleteTask(t.pending)
        PROVE  Goes
    <2>1. TransactionsGo
      BY <1>3, ClearIs, OldTransactionsGo DEF CompleteTask
    <2>2. excused \subseteq excused'
      BY <1>3 DEF CompleteTask
    <2> QED
      BY <1>3, <2>1, <2>2, StillGoes DEF CompleteTask, Goes, ForgetInv, data, backups
  <1>4. ASSUME NEW t \in tasks \ {Failing, Showing}, MarkTask(t.pending)
        PROVE  Goes
    <2>1. Begun(t.pending)
      BY <1>4 DEF ForgetInv, PublishedInv
    <2>2. op' = op /\ tasks' \subseteq tasks /\ (Mark(t.pending) \/ Lost)
      BY <1>4 DEF MarkTask
    <2>3. TransactionsGo
      BY <2>1, <2>2, MarkedTransactionsGo DEF Begun
    <2> QED
      BY <1>4, <2>3, StillGoes DEF MarkTask, Goes, ForgetInv, data, backups, history
  <1> QED  BY <1>1, <1>2, <1>3, <1>4 DEF Listeners

\* A start finds all there is in the profile.
LEMMA BootGoes ==
  ASSUME Typed, NEW mode \in Modes, Boot(mode), profile' = profile,
         \A c \in Change : Noted(c)' => Moving
  PROVE  RuntimeGoes
  BY BootIs DEF RuntimeGoes, Present, Proved

\* No operation waits without a proof when no start is under way.
LEMMA NoneWaits ==
  ASSUME StartInv, NEW c \in Change, op[c].pc = "wait", rt.phase # "starting"
  PROVE  Proved(c)
  BY DEF StartInv

\* A start that was asked for.
LEMMA LaunchGoes ==
  ASSUME Typed, ForgetInv, (\E mode \in Modes : Launch(mode)) \/ DeepLink
  PROVE  Goes
  <1>1. PICK mode \in Modes : Boot(mode)
    BY DEF Launch, DeepLink, Typed
  <1>2. /\ UNCHANGED <<data, backups, pending, tasks, op, rs, verified>>
        /\ rt.phase # "starting"
    BY DEF Launch, DeepLink
  <1>3. excused \subseteq excused'
    BY <1>1, BootIs
  <1>4. Forward
    BY <1>2, <1>3 DEF Forward, Present, Noted, Proved, data
  <1>5. RuntimeGoes
    BY <1>1, <1>2, BootGoes DEF Noted, Moving, data
  <1>6. WaitsGo /\ EndsGo
    BY <1>2, <1>4, NoneWaits, ForwardKeeps DEF WaitsGo, EndsGo, ForgetInv
  <1>7. TransactionsGo
    BY <1>2, OldTransactionsGo DEF pending
  <1>8. NumbersGo
    BY <1>2 DEF NumbersGo, Typed, backups
  <1>9. ReplacedGoes /\ NotedInv'
    BY <1>2 DEF ReplacedGoes, Replaced, ForgetInv, NotedInv, data
  <1> QED  BY <1>4, <1>5, <1>6, <1>7, <1>8, <1>9 DEF Goes

\* Answers to those who wait make no operation go back.
LEMMA AnsweredForward ==
  ASSUME Typed, NEW ok \in BOOLEAN, NEW c \in Change, op'[c] = Answered(ok)[c]
  PROVE  /\ op'[c].pc \in IF At(c, "wait") THEN {"mark", "complete", "done"} ELSE {op[c].pc}
         /\ op'[c].snap = op[c].snap
         /\ op'[c].pc = "complete" => op[c].pc = "complete" \/ (ok /\ op[c].mode = "normal")
         /\ op'[c].pc # "wait" /\ ~Made(c)
  BY AnsweredIs DEF At, Booted, Made
\* The same of a rollback that waits.
LEMMA RollbackForward ==
  ASSUME Typed, NotedInv, NEW ok \in BOOLEAN, rs' = RollbackAnswered(ok)
  PROVE  /\ NotedInv'
         /\ \A c \in Change : Noted(c)' <=> Noted(c)
         /\ Replaced' => Replaced /\ rs'.src = rs.src
         /\ rs'.phase # "idle" => rs.phase # "idle" /\ rs'.src = rs.src
  <1>1. CASE rs.phase # "wait"
    <2>1. rs' = rs
      BY <1>1, RollbackAnsweredIs
    <2> QED  BY <2>1 DEF NotedInv, Noted, Replaced
  <1>2. CASE rs.phase = "wait"
    <2>1. rs' = Idle \/ (rs'.phase = "resolve" /\ rs'.src = rs.src)
      BY <1>2, RollbackAnsweredIs
    <2> QED  BY <1>2, <2>1 DEF NotedInv, Noted, Replaced, Idle
  <1> QED  BY <1>1, <1>2

\* The numbers of snapshots stay.
LEMMA AnsweredNumbers ==
  ASSUME Typed, NotedInv, NEW ok \in BOOLEAN, op' = Answered(ok),
         rs' = RollbackAnswered(ok), made' = made
  PROVE  NumbersGo
  <1>1. ASSUME NEW c \in Change, op'[c].pc # "idle"
        PROVE  op[c].pc # "idle" /\ op'[c].snap = op[c].snap
    BY <1>1, AnsweredForward DEF At
  <1>2. ASSUME NEW c \in Change, op'[c].pc \in {"stop", "snapshot"}
        PROVE  op[c].pc = op'[c].pc /\ op'[c].snap = op[c].snap
    BY <1>2, AnsweredForward DEF At
  <1> QED  BY <1>1, <1>2, RollbackForward DEF NumbersGo, Typed

\* The Runtime is ready: those that waited go on, and the listener is told.
LEMMA ReadyGoes ==
  ASSUME Typed, ForgetInv, Ready
  PROVE  Goes
  <1>1. /\ rt.phase = "starting" /\ op' = Answered(TRUE) /\ rs' = RollbackAnswered(TRUE)
        /\ UNCHANGED <<data, backups, file, mem>>
    BY DEF Ready
  <1>2. verified \subseteq verified' /\ excused \subseteq excused'
    BY DEF Ready
  <1>3. Forward
    BY <1>1, <1>2, AnsweredForward, RollbackForward
       DEF Forward, Present, Proved, ForgetInv, At, Early, Unmade, Undrawn, data
  <1>4. rt'.phase = "ready"
    BY DownIs DEF Ready
  <1>5. WaitsGo
    BY <1>1, AnsweredForward DEF WaitsGo
  <1>6. ASSUME NEW c \in Change, Present(c)', rt.mode = "normal"
        PROVE  Proved(c)'
    <2>1. Present(c)
      BY <1>1, <1>6, RollbackForward DEF Present, ForgetInv, data
    <2>2. Proved(c) \/ c \in rt.loaded
      BY <1>1, <2>1 DEF ForgetInv, StartInv
    <2> QED  BY <1>2, <1>6, <2>2 DEF Ready, Proved
  <1>7. EndsGo
    <2> SUFFICES ASSUME NEW c \in Change, op'[c].pc \in {"complete", "abort"},
                        op[c].pc \notin {"complete", "abort"}
                 PROVE  Safe(c)'
      BY DEF EndsGo
    <2>1. At(c, "wait") /\ op'[c].pc = "complete" /\ op[c].mode = "normal"
      BY <1>1, AnsweredForward DEF At
    <2>2. Proved(c) \/ rt.mode = "normal"
      BY <2>1 DEF ForgetInv, StartInv, At
    <2> QED  BY <1>3, <1>6, <2>1, <2>2, ForwardKeeps DEF Safe, Unmade, Early
  <1>11. ASSUME NEW c \in Change, op[c].pc \notin Early, rt.mode = "normal"
         PROVE  Safe(c)'
    <2>1. CASE op[c].pc = "mutate"
      BY <1>11, <2>1 DEF Ready, Safe, Proved
    <2>2. CASE op[c].pc # "mutate"
      BY <1>3, <1>6, <1>11, <2>2 DEF Safe, Forward, Unmade
    <2> QED  BY <2>1, <2>2
  <1>8. TransactionsGo
    <2> SUFFICES ASSUME NEW t \in tasks', t \notin tasks
                 PROVE  /\ t.task = "complete" /\ file # None /\ t.pending = file
                        /\ Safe(t.pending.change)'
      BY <1>1 DEF TransactionsGo, Typed
    <2>1. rt.mode = "normal" /\ mem # None /\ t = Completing(mem)
      BY DEF Ready, Proves
    <2>2. t.task = "complete" /\ t.pending = mem /\ mem = file /\ file # None
      BY <2>1, MemIs DEF Completing
    <2>3. t.pending.change \in Change /\ op[t.pending.change].pc \notin Early
      BY <2>1, <2>2 DEF ForgetInv, PublishedInv, Begun, Pending
    <2> QED  BY <1>11, <2>1, <2>2, <2>3
  <1>9. NumbersGo
    BY <1>1, AnsweredNumbers DEF ForgetInv, backups
  <1>10. ReplacedGoes /\ NotedInv'
    BY <1>1, AnsweredForward, RollbackForward DEF ReplacedGoes, ForgetInv, data, At, Undrawn
  <1> QED  BY <1>3, <1>4, <1>5, <1>7, <1>8, <1>9, <1>10 DEF Goes, RuntimeGoes

\* It failed: those that waited are told.
LEMMA FailsGoes ==
  ASSUME Typed, ForgetInv, Fails
  PROVE  Goes
  <1>1. /\ op' = Answered(FALSE) /\ rs' = RollbackAnswered(FALSE)
        /\ UNCHANGED <<data, backups, pending, verified, excused>>
    BY DEF Fails, history
  <1>3. Forward
    BY <1>1, AnsweredForward, RollbackForward
       DEF Forward, Present, Proved, ForgetInv, At, Early, Unmade, Undrawn, data
  <1>4. rt'.phase = "failed"
    BY DownIs DEF Fails
  <1>5. WaitsGo /\ EndsGo
    BY <1>1, AnsweredForward DEF WaitsGo, EndsGo, At
  <1>8. TransactionsGo
    <2> SUFFICES ASSUME NEW t \in tasks' \ {Failing, Showing}, t \notin tasks
                 PROVE  t.task = "mark" /\ file # None /\ t.pending = file
      BY <1>1 DEF TransactionsGo, Typed, pending
    <2>1. mem # None /\ t = Marking(mem)
      BY DEF Fails
    <2> QED  BY <2>1, MemIs DEF Marking
  <1>9. NumbersGo
    BY <1>1, AnsweredNumbers DEF ForgetInv, backups
  <1>10. ReplacedGoes /\ NotedInv'
    BY <1>1, AnsweredForward, RollbackForward DEF ReplacedGoes, ForgetInv, data, At, Undrawn
  <1> QED  BY <1>3, <1>4, <1>5, <1>8, <1>9, <1>10 DEF Goes, RuntimeGoes
\* A step of an operation that leaves the restoration and the snapshots.
LEMMA OpGoes ==
  ASSUME Typed, NotedInv, NEW c \in Change, op[c].pc \notin {"idle", "snapshot", "publish"},
         \A d \in Change \ {c} : op'[d] = op[d],
         op'[c].snap = op[c].snap, op'[c].pc \in Steps \ Early,
         op[c].pc \notin Undrawn,
         op[c].pc # "mutate" => op'[c].pc # "mutate",
         UNCHANGED <<rs, made>>, profile' \subseteq profile \union {c},
         profile' = profile \/ Made(c),
         verified \subseteq verified', excused \subseteq excused'
  PROVE  Forward /\ NumbersGo /\ ReplacedGoes /\ NotedInv'
  <1>1. Forward
    BY DEF Forward, Present, Noted, Proved, Made, Early, Unmade, Undrawn, Steps
  <1>2. NumbersGo
    BY DEF NumbersGo, Typed, Early, Steps, Undrawn
  <1>3. ReplacedGoes /\ NotedInv'
    BY DEF ReplacedGoes, Replaced, NotedInv, Undrawn
  <1> QED  BY <1>1, <1>2, <1>3

\* A change is asked for.
LEMMA AskGoes ==
  ASSUME Typed, ForgetInv, NEW c \in Change, NEW deferred \in BOOLEAN, Ask(c, deferred)
  PROVE  Goes
  <1>1. /\ op[c].pc = "idle" /\ op'[c].pc \in {"stop", "snapshot"} /\ op'[c].snap = 0
        /\ \A d \in Change \ {c} : op'[d] = op[d]
        /\ UNCHANGED <<data, backups, pending, rt, tasks, rs, history>>
    BY DEF Ask, At, Typed
  <1>2. Forward
    BY <1>1 DEF Forward, Present, Noted, Proved, Early, Unmade, Undrawn, data, history
  <1>3. RuntimeGoes
    BY <1>1 DEF RuntimeGoes, Made
  <1>4. WaitsGo /\ EndsGo
    BY <1>1 DEF WaitsGo, EndsGo
  <1>5. TransactionsGo
    BY <1>1, OldTransactionsGo DEF pending
  <1>6. NumbersGo
    BY <1>1 DEF NumbersGo, Typed, backups
  <1>7. ReplacedGoes /\ NotedInv'
    BY <1>1 DEF ReplacedGoes, Replaced, NotedInv, Undrawn, ForgetInv, data
  <1> QED  BY <1>2, <1>3, <1>4, <1>5, <1>6, <1>7 DEF Goes

\* The Runtime is stopped for it.
LEMMA StopForGoes ==
  ASSUME Typed, ForgetInv, NEW c \in Change, StopFor(c)
  PROVE  Goes
  <1>1. /\ op[c].pc = "stop" /\ rs' = RollbackAnswered(FALSE)
        /\ op' = [Answered(FALSE) EXCEPT ![c].pc = "snapshot"]
        /\ UNCHANGED <<data, backups, pending, tasks, history>>
    BY DEF StopFor, At
  <1>2. Answered(FALSE)[c] = op[c] /\ op[c] \in Ops
    BY <1>1, AnsweredIs, AskedIs DEF At
  <1>3. op'[c].pc = "snapshot" /\ op'[c].snap = op[c].snap
    BY <1>1, <1>2, AnsweredIs DEF Ops
  <1>4. \A d \in Change \ {c} : op'[d] = Answered(FALSE)[d]
    BY <1>1, AnsweredIs
  <1>5. \A d \in Change \ {c} :
          /\ op'[d].pc \in IF At(d, "wait") THEN {"mark", "complete", "done"} ELSE {op[d].pc}
          /\ op'[d].snap = op[d].snap
          /\ op'[d].pc = "complete" => op[d].pc = "complete"
          /\ op'[d].pc # "wait" /\ ~Made(d)
    BY <1>4, AnsweredForward
  <1>6. /\ NotedInv'
        /\ \A d \in Change : Noted(d)' <=> Noted(d)
        /\ Replaced' => Replaced /\ rs'.src = rs.src
        /\ rs'.phase # "idle" => rs.phase # "idle" /\ rs'.src = rs.src
    BY <1>1, RollbackForward DEF ForgetInv
  <1>7. ~Made(c) /\ op[c].pc = "stop" /\ op'[c].pc = "snapshot" /\ op'[c].snap = op[c].snap
        /\ UNCHANGED <<profile, verified, excused, made>>
    BY <1>1, <1>3 DEF Made, data, history, backups
  <1>8. Forward
    BY <1>5, <1>6, <1>7 DEF Forward, Present, Proved, At, Early, Unmade, Undrawn
  <1>9. rt'.phase = "stopped"
    BY DownIs DEF StopFor
  <1>10. WaitsGo /\ EndsGo
    BY <1>5, <1>7 DEF WaitsGo, EndsGo, At
  <1>11. TransactionsGo
    BY <1>1, OldTransactionsGo DEF pending
  <1>12. NumbersGo
    <2>1. ASSUME NEW d \in Change, op'[d].pc # "idle"
          PROVE  op[d].pc # "idle" /\ op'[d].snap = op[d].snap
      BY <1>5, <1>7, <2>1 DEF At
    <2>2. ASSUME NEW d \in Change, op'[d].pc \in {"stop", "snapshot"}
          PROVE  op[d].pc \in {"stop", "snapshot"} /\ op'[d].snap = op[d].snap
      BY <1>5, <1>7, <2>2 DEF At
    <2> QED  BY <1>6, <1>7, <2>1, <2>2 DEF NumbersGo, Typed
  <1>13. ReplacedGoes
    BY <1>5, <1>6, <1>7 DEF ReplacedGoes, At, Undrawn
  <1> QED  BY <1>6, <1>8, <1>9, <1>10, <1>11, <1>12, <1>13 DEF Goes, RuntimeGoes

\* The snapshot before it, or none.
LEMMA TakeSnapshotGoes ==
  ASSUME Typed, ForgetInv, NEW c \in Change, TakeSnapshot(c)
  PROVE  Goes
  <1>1. /\ op[c].pc = "snapshot" /\ op[c] \in Ops
        /\ UNCHANGED <<data, pending, rt, tasks, rs, history>>
    BY AskedIs DEF TakeSnapshot, At
  <1>2. \/ made' = made /\ op'[c].pc = "done" /\ op'[c].snap = op[c].snap
        \/ made' = made + 1 /\ op'[c].pc = "publish" /\ op'[c].snap = made + 1
    <2>1. CASE Goto(c, "done") /\ UNCHANGED backups
      BY <1>1, <2>1, GotoIs DEF Steps, backups
    <2>2. CASE /\ CreateSnapshot("pre-plugin-change", MaxSnapshots, 0)
               /\ op' = [op EXCEPT ![c].pc = "publish", ![c].snap = made + 1]
      BY <1>1, <2>2 DEF CreateSnapshot, Typed, Ops
    <2> QED  BY <2>1, <2>2 DEF TakeSnapshot
  <1>3. \A d \in Change \ {c} : op'[d] = op[d]
    BY DEF TakeSnapshot, Goto, Typed
  <1>4. Forward
    BY <1>1, <1>2, <1>3 DEF Forward, Present, Noted, Proved, Early, Unmade, Undrawn, data, history
  <1>5. RuntimeGoes
    BY <1>1, <1>3 DEF RuntimeGoes, Made
  <1>6. WaitsGo /\ EndsGo
    BY <1>1, <1>2, <1>3 DEF WaitsGo, EndsGo
  <1>7. TransactionsGo
    BY <1>1, OldTransactionsGo DEF pending
  <1>8. NumbersGo
    BY <1>1, <1>2, <1>3 DEF NumbersGo, Typed, ForgetInv, NumberInv
  <1>9. ReplacedGoes /\ NotedInv'
    <2>1. rs.phase # "idle" => rs.src \in 1..made
      BY DEF ForgetInv, NumberInv
    <2>2. Replaced => op'[c].snap # rs.src
      BY <1>1, <1>2, <2>1 DEF Replaced, ForgetInv, NumberInv, Typed
    <2> QED  BY <1>1, <1>2, <1>3, <2>2 DEF ReplacedGoes, Replaced, NotedInv, Undrawn, ForgetInv, data
  <1> QED  BY <1>4, <1>5, <1>6, <1>7, <1>8, <1>9 DEF Goes

\* The transaction is published, or the operation ends.
LEMMA PrepareGoes ==
  ASSUME Typed, ForgetInv, NEW c \in Change, Prepare(c)
  PROVE  Goes
  <1>1. /\ op[c].pc = "publish" /\ op[c] \in Ops
        /\ UNCHANGED <<data, backups, rt, tasks, rs, history>>
    BY AskedIs DEF Prepare, At
  <1>2. /\ op'[c].pc \in {"mutate", "done"} /\ op'[c].snap = op[c].snap
        /\ \A d \in Change \ {c} : op'[d] = op[d]
    BY <1>1, GotoIs DEF Prepare, Steps
  <1>4. Forward
    BY <1>1, <1>2 DEF Forward, Present, Noted, Proved, Early, Unmade, Undrawn, data, history
  <1>5. RuntimeGoes
    BY <1>1, <1>2 DEF RuntimeGoes, Made
  <1>6. WaitsGo /\ EndsGo
    BY <1>1, <1>2 DEF WaitsGo, EndsGo
  <1>7. TransactionsGo
    <2>1. CASE file' = [change |-> c, phase |-> "prepared", snap |-> op[c].snap]
               /\ Goto(c, "mutate")
      <3>1. op'[c].pc = "mutate"
        BY <1>1, <2>1, GotoIs DEF Steps
      <3>2. file' \in Pending /\ file'.change = c /\ file'.snap = op[c].snap
        BY <1>1, <2>1 DEF Pending, Ops
      <3>3. Begun(file)'
        BY <1>2, <3>1, <3>2 DEF Begun, Early
      <3> QED  BY <1>1, <3>3 DEF TransactionsGo
    <2>2. CASE UNCHANGED pending
      BY <1>1, <2>2, OldTransactionsGo DEF pending
    <2> QED  BY <2>1, <2>2 DEF Prepare, Write
  <1>8. NumbersGo
    BY <1>1, <1>2 DEF NumbersGo, Typed, backups
  <1>9. ReplacedGoes /\ NotedInv'
    BY <1>1, <1>2 DEF ReplacedGoes, Replaced, NotedInv, Undrawn, ForgetInv, data
  <1> QED  BY <1>4, <1>5, <1>6, <1>7, <1>8, <1>9 DEF Goes
\* The change is made, or cannot be.
LEMMA MutateGoes ==
  ASSUME Typed, ForgetInv, NEW c \in Change, Mutate(c)
  PROVE  Goes
  <1>1. /\ op[c].pc = "mutate" /\ UNCHANGED <<backups, pending, rt, tasks, rs, verified>>
        /\ excused \subseteq excused'
    BY DEF Mutate, At
  <1>2. /\ op'[c].snap = op[c].snap
        /\ \A d \in Change \ {c} : op'[d] = op[d]
        /\ \/ op'[c].pc = "abort" /\ profile' = profile
           \/ /\ op'[c].pc = "persist" /\ profile' = profile \union {c}
              /\ rt.phase = "starting" => c \in excused'
    BY <1>1, GotoIs DEF Mutate, Steps
  <1>3. Forward /\ NumbersGo /\ ReplacedGoes /\ NotedInv'
    <2>1. op'[c].pc \in Steps \ Early /\ op[c].pc \notin Undrawn
      BY <1>1, <1>2 DEF Steps, Early, Undrawn
    <2>2. profile' \subseteq profile \union {c} /\ (profile' = profile \/ Made(c))
      BY <1>1, <1>2 DEF Made
    <2> QED  BY <1>1, <1>2, <2>1, <2>2, OpGoes DEF ForgetInv, backups
  <1>4. RuntimeGoes
    BY <1>1, <1>2 DEF RuntimeGoes, Made, Proved
  <1>5. WaitsGo
    BY <1>1, <1>2 DEF WaitsGo
  <1>6. EndsGo
    <2>1. ASSUME op'[c].pc = "abort"  PROVE Safe(c)'
      <3>1. Proved(c) \/ ~Present(c)
        BY <1>1 DEF ForgetInv, StartInv, Unmade
      <3>2. ~Made(c)
        BY <2>1 DEF Made
      <3> QED  BY <1>3, <2>1, <3>1, <3>2, ForwardKeeps DEF Forward, Safe, Unmade, Early
    <2> QED  BY <1>2, <2>1 DEF EndsGo
  <1>7. TransactionsGo
    BY <1>1, OldTransactionsGo DEF pending
  <1> QED  BY <1>3, <1>4, <1>5, <1>6, <1>7 DEF Goes

\* What is recorded of it is written.
LEMMA PersistGoes ==
  ASSUME Typed, ForgetInv, NEW c \in Change, Persist(c)
  PROVE  Goes
  <1>1. /\ op[c].pc = "persist" /\ UNCHANGED <<data, backups, pending, rt, tasks, rs, verified>>
        /\ excused \subseteq excused'
    BY DEF Persist, At
  <1>2. /\ op'[c].snap = op[c].snap
        /\ \A d \in Change \ {c} : op'[d] = op[d]
        /\ op'[c].pc \in {"done", "boot", "complete", "mark"}
        /\ op'[c].pc = "complete" => c \in excused'
    <2>1. AfterPersist(c) \in {"done", "boot", "complete"}
      BY DEF AfterPersist
    <2> QED  BY <1>1, <2>1, GotoIs DEF Persist, Steps
  <1>3. Forward /\ NumbersGo /\ ReplacedGoes /\ NotedInv'
    <2>1. op'[c].pc \in Steps \ Early /\ op[c].pc \notin Undrawn
      BY <1>1, <1>2 DEF Steps, Early, Undrawn
    <2> QED  BY <1>1, <1>2, <2>1, OpGoes DEF ForgetInv, backups, data
  <1>4. RuntimeGoes
    BY <1>1, <1>2 DEF RuntimeGoes, Made
  <1>5. WaitsGo /\ EndsGo
    BY <1>1, <1>2 DEF WaitsGo, EndsGo, Safe, Proved
  <1>7. TransactionsGo
    BY <1>1, OldTransactionsGo DEF pending
  <1> QED  BY <1>3, <1>4, <1>5, <1>7 DEF Goes

\* The Runtime is started with it.
LEMMA BootForGoes ==
  ASSUME Typed, ForgetInv, NEW c \in Change, BootFor(c)
  PROVE  Goes
  <1> DEFINE mode == IF op[c].mode = "normal" THEN "normal" ELSE rt.mode
             pc == IF rt.phase # "ready" THEN "wait" ELSE Booted(c, ~Refuses(mode))
  <1>1. /\ op[c].pc = "boot" /\ UNCHANGED <<data, backups, pending, tasks, rs, verified>>
        /\ IF Up THEN excused' = excused \union {c} /\ rt' = rt ELSE Boot(mode)
        /\ Goto(c, pc) /\ mode \in Modes
    BY DEF BootFor, At, Typed, Modes
  <1>2. /\ op'[c].snap = op[c].snap /\ op'[c].mode = op[c].mode /\ op'[c].pc = pc
        /\ \A d \in Change \ {c} : op'[d] = op[d]
        /\ pc \in {"wait", "mark", "complete", "done"}
    BY <1>1, GotoIs DEF Booted, Steps
  <1>3. excused \subseteq excused'
    BY <1>1, BootIs
  <1>4. Forward /\ NumbersGo /\ ReplacedGoes /\ NotedInv'
    <2>1. op'[c].pc \in Steps \ Early /\ op[c].pc \notin Undrawn
      BY <1>1, <1>2 DEF Steps, Early, Undrawn
    <2> QED  BY <1>1, <1>2, <1>3, <2>1, OpGoes DEF ForgetInv, backups, data
  <1>5. TransactionsGo
    BY <1>1, OldTransactionsGo DEF pending
  <1>6. CASE Up
    <2>1. RuntimeGoes
      BY <1>1, <1>2, <1>6 DEF RuntimeGoes, Made
    <2>2. WaitsGo /\ EndsGo
      BY <1>1, <1>2, <1>6 DEF WaitsGo, EndsGo, Safe, Proved
    <2> QED  BY <1>4, <1>5, <2>1, <2>2 DEF Goes
  <1>7. CASE ~Up
    <2>0. Boot(mode) /\ rt.phase \notin {"starting", "ready"} /\ pc = "wait"
      BY <1>1, <1>7 DEF Up
    <2>1. RuntimeGoes
      BY <1>1, <2>0, BootGoes DEF Noted, Moving, data
    <2>2. rt'.phase = "starting" /\ rt'.mode = mode
      BY <1>1, <2>0, BootIs
    <2>3. WaitsGo
      <3>1. ASSUME NEW d \in Change \ {c}, op'[d].pc = "wait"  PROVE Proved(d)'
        BY <1>2, <1>4, <2>0, <3>1, NoneWaits, ForwardKeeps DEF ForgetInv
      <3> QED  BY <1>2, <2>2, <3>1 DEF WaitsGo
    <2>4. EndsGo
      BY <1>2, <2>0 DEF EndsGo
    <2> QED  BY <1>4, <1>5, <2>1, <2>3, <2>4 DEF Goes
  <1> QED  BY <1>6, <1>7

\* The operation ends.
LEMMA ConcludeGoes ==
  ASSUME Typed, ForgetInv, NEW c \in Change, Conclude(c)
  PROVE  Goes
  <1>1. /\ op[c].pc \in {"complete", "abort", "mark"}
        /\ UNCHANGED <<data, backups, rt, tasks, rs, verified>>
        /\ excused \subseteq excused'
    BY DEF Conclude, Resolve, Report, Pass, ResolveFails, Concluded, At, history
  <1>2. /\ op'[c].snap = op[c].snap /\ op'[c].pc \in {"mark", "done"}
        /\ \A d \in Change \ {c} : op'[d] = op[d]
    BY <1>1, GotoIs DEF Conclude, Resolve, Report, Pass, ResolveFails, Concluded, Steps
  <1>3. Forward /\ NumbersGo /\ ReplacedGoes /\ NotedInv'
    <2>1. op'[c].pc \in Steps \ Early /\ op[c].pc \notin Undrawn
      BY <1>1, <1>2 DEF Steps, Early, Undrawn
    <2> QED  BY <1>1, <1>2, <2>1, OpGoes DEF ForgetInv, backups, data
  <1>4. RuntimeGoes /\ WaitsGo /\ EndsGo
    BY <1>1, <1>2 DEF RuntimeGoes, Made, WaitsGo, EndsGo
  <1>5. TransactionsGo
    <2>1. CASE Report(c)
      <3>1. Begun(mem) /\ (Mark(mem) \/ Lost)
        BY <2>1, MemIs DEF Report, ForgetInv, PublishedInv
      <3>2. op'[mem.change].pc \notin Early /\ op'[mem.change].snap = op[mem.change].snap
        BY <1>1, <1>2, <3>1 DEF Begun, Early, Pending
      <3> QED  BY <1>1, <3>1, <3>2, MarkedTransactionsGo
    <2>2. CASE Clear \/ Lost \/ Forget \/ UNCHANGED pending
      BY <1>1, <2>2, ClearIs, OldTransactionsGo DEF pending
    <2> QED  BY <2>1, <2>2 DEF Conclude, Resolve, Pass, ResolveFails
  <1> QED  BY <1>3, <1>4, <1>5 DEF Goes
\* A step of a restoration that leaves the operations and the Runtime.
LEMMA RestoringGoes ==
  ASSUME Typed, UNCHANGED <<op, rt, file, tasks, verified>>, excused \subseteq excused',
         made <= made', made' \in Nat,
         \A c \in Change : Present(c)' => Present(c) \/ Proved(c)',
         rs'.phase # "idle" => rs.phase # "idle" /\ rs'.src = rs.src
  PROVE  Forward /\ RuntimeGoes /\ WaitsGo /\ EndsGo /\ TransactionsGo /\ NumbersGo
  <1>1. Forward
    BY DEF Forward, Proved
  <1>2. RuntimeGoes /\ WaitsGo /\ EndsGo
    BY DEF RuntimeGoes, Made, WaitsGo, EndsGo
  <1>3. TransactionsGo
    BY DEF TransactionsGo, Typed
  <1>4. NumbersGo
    BY DEF NumbersGo, Typed
  <1> QED  BY <1>1, <1>2, <1>3, <1>4

\* A restoration begins, saves and extracts.
LEMMA BeginningGoes ==
  ASSUME Typed, Standing, ForgetInv,
         \/ \E kind \in {"restore", "rollback"}, i \in 1..made : Restore(kind, i)
         \/ Save \/ Extract
  PROVE  Goes
  <1>1. ASSUME NEW kind \in {"restore", "rollback"}, NEW i \in 1..made, Restore(kind, i)
        PROVE  Goes
    <2>1. /\ rs.phase = "idle" /\ rs'.phase = "stop" /\ rs'.src = i
          /\ rs'.old[1].profile = {}
          /\ UNCHANGED <<data, cached, backups, pending, rt, tasks, op, history>>
      BY <1>1 DEF Restore, Idle, NoDir, Dir
    <2>2. Forward
      BY <2>1 DEF Forward, Present, Noted, Proved, data, history
    <2>3. RuntimeGoes /\ WaitsGo /\ EndsGo
      BY <2>1 DEF RuntimeGoes, Made, WaitsGo, EndsGo
    <2>4. TransactionsGo
      BY <2>1, OldTransactionsGo DEF pending
    <2>5. NumbersGo
      BY <2>1 DEF NumbersGo, Typed, backups
    <2>6. ReplacedGoes /\ NotedInv'
      BY <2>1 DEF ReplacedGoes, Replaced, NotedInv
    <2> QED  BY <2>2, <2>3, <2>4, <2>5, <2>6 DEF Goes
  <1>2. CASE Save \/ Extract
    <2>1. /\ rs \in Under /\ rs.phase \in {"save", "extract"} /\ rs.at = 1
          /\ UNCHANGED <<data, rt, tasks, op, verified, excused, file>>
          /\ made' \in {made, made + 1}
      BY <1>2, UnderIs DEF Save, Extract, Standing, history, backups, pending, CreateSnapshot
    <2>2. \/ rs' = Idle
          \/ /\ rs'.phase \in {"extract", "aside"} /\ rs'.src = rs.src /\ rs'.at = 1
             /\ rs'.old = rs.old
      BY <1>2, <2>1 DEF Save, Extract, Under
    <2>3. rs.old[1].profile = {}
      BY <2>1 DEF ForgetInv, NotedInv
    <2>4. \A c \in Change : Present(c)' => Present(c)
      BY <2>1, <2>2, <2>3 DEF Present, Noted, Idle, data
    <2>5. rs'.phase # "idle" => rs.phase # "idle" /\ rs'.src = rs.src
      BY <2>1, <2>2 DEF Idle
    <2>6. made <= made' /\ made' \in Nat
      BY <2>1 DEF Typed
    <2>7. /\ Forward /\ RuntimeGoes /\ WaitsGo /\ EndsGo /\ TransactionsGo /\ NumbersGo
      BY <2>1, <2>4, <2>5, <2>6, RestoringGoes
    <2>8. ReplacedGoes /\ NotedInv'
      BY <2>1, <2>2, <2>3 DEF ReplacedGoes, Replaced, NotedInv, Idle
    <2> QED  BY <2>7, <2>8 DEF Goes
  <1> QED  BY <1>1, <1>2

\* The components are stopped for it.
LEMMA StopAllGoes ==
  ASSUME Typed, ForgetInv, StopAll
  PROVE  Goes
  <1>1. /\ op' = Answered(FALSE) /\ rs.phase = "stop" /\ rs \in Under
        /\ UNCHANGED <<data, backups, pending, tasks, history>>
    BY UnderIs DEF StopAll
  <1>2. rs'.phase = "save" /\ rs'.src = rs.src /\ rs'.old = rs.old
    BY <1>1 DEF StopAll, Under
  <1>3. rt'.phase = "stopped"
    BY DownIs DEF StopAll
  <1>4. Forward
    BY <1>1, <1>2, AnsweredForward
       DEF Forward, Present, Noted, Proved, At, Early, Unmade, Undrawn, data, history
  <1>5. WaitsGo /\ EndsGo
    BY <1>1, AnsweredForward DEF WaitsGo, EndsGo, At
  <1>6. TransactionsGo
    BY <1>1, OldTransactionsGo DEF pending
  <1>7. NumbersGo
    <2>1. ASSUME NEW c \in Change, op'[c].pc # "idle"
          PROVE  op[c].pc # "idle" /\ op'[c].snap = op[c].snap
      BY <1>1, <2>1, AnsweredForward DEF At
    <2>2. ASSUME NEW c \in Change, op'[c].pc \in {"stop", "snapshot"}
          PROVE  op[c].pc = op'[c].pc /\ op'[c].snap = op[c].snap
      BY <1>1, <2>2, AnsweredForward DEF At
    <2>3. made' = made
      BY <1>1 DEF backups
    <2>4. made <= made' /\ made' \in Nat
      BY <2>3 DEF Typed
    <2> QED  BY <1>1, <1>2, <2>1, <2>2, <2>4 DEF NumbersGo
  <1>8. ReplacedGoes /\ NotedInv'
    BY <1>1, <1>2 DEF ReplacedGoes, Replaced, NotedInv, ForgetInv
  <1> QED  BY <1>3, <1>4, <1>5, <1>6, <1>7, <1>8 DEF Goes, RuntimeGoes

\* A directory is moved aside, put back, or all are in place.
LEMMA MovingGoes ==
  ASSUME Typed, Standing, ForgetInv, MoveAside \/ Undo \/ Finish
  PROVE  Goes
  <1>1. /\ rs \in Under /\ rs.phase \in {"aside", "undo"} /\ rs.at \in 0..4
        /\ UNCHANGED <<op, rt, file, tasks, verified, excused, made>>
    BY UnderIs DEF MoveAside, Undo, Finish, Under, history, pending, backups
  <1>2. CASE MoveAside
    <2>1. CASE /\ Place(rs.at, 0, {}, 0)
               /\ rs' = [rs EXCEPT !.phase = "in", !.old[rs.at] =
                           [put |-> live[rs.at], profile |-> profile, stored |-> stored]]
      <3>0. rs.at \in Dir
        BY <1>1, <1>2 DEF MoveAside, Standing, Under, Dir
      <3>1. /\ rs'.phase = "in" /\ rs'.at = rs.at /\ rs'.src = rs.src
            /\ rs'.old[rs.at].profile = profile
            /\ \A d \in Dir \ {rs.at} : rs'.old[d] = rs.old[d]
        BY <1>1, <2>1, <3>0 DEF Under
      <3>2. profile' = IF rs.at = 1 THEN {} ELSE profile
        BY <2>1 DEF Place
      <3>3. \A c \in Change : Present(c)' => Present(c)
        BY <1>1, <1>2, <3>0, <3>1, <3>2 DEF MoveAside, Present, Noted, Dir
      <3>4. Forward /\ RuntimeGoes /\ WaitsGo /\ EndsGo /\ TransactionsGo /\ NumbersGo
        BY <1>1, <1>2, <3>1, <3>3, RestoringGoes DEF Typed, MoveAside
      <3>5. ReplacedGoes /\ NotedInv'
        BY <1>1, <1>2, <3>1, <3>2 DEF MoveAside, ReplacedGoes, Replaced, NotedInv, Undrawn
      <3> QED  BY <3>4, <3>5 DEF Goes
    <2>2. CASE rs' = [rs EXCEPT !.phase = "undo", !.at = rs.at - 1] /\ UNCHANGED data
      <3>1. rs'.phase = "undo" /\ rs'.src = rs.src /\ rs'.old = rs.old
        BY <1>1, <2>2 DEF Under
      <3>3. \A c \in Change : Present(c)' => Present(c)
        BY <1>1, <1>2, <2>2, <3>1 DEF MoveAside, Present, Noted, data
      <3>4. Forward /\ RuntimeGoes /\ WaitsGo /\ EndsGo /\ TransactionsGo /\ NumbersGo
        BY <1>1, <1>2, <3>1, <3>3, RestoringGoes DEF Typed, MoveAside
      <3>5. ReplacedGoes /\ NotedInv'
        BY <3>1 DEF ReplacedGoes, Replaced, NotedInv
      <3> QED  BY <3>4, <3>5 DEF Goes
    <2> QED  BY <1>2, <2>1, <2>2 DEF MoveAside
  <1>3. CASE Undo
    <2>1. /\ rs.phase = "undo"
          /\ \/ rs' = Idle /\ profile' = profile
             \/ /\ rs'.phase = "undo" /\ rs'.src = rs.src /\ rs'.old = rs.old
                /\ profile' = IF rs.at = 1 THEN rs.old[1].profile ELSE profile
      BY <1>1, <1>3 DEF Undo, Under, Place, data
    <2>2. \A c \in Change : Present(c)' => Present(c)
      BY <2>1 DEF Present, Noted, Idle
    <2>3. rs'.phase # "idle" => rs.phase # "idle" /\ rs'.src = rs.src
      BY <2>1 DEF Idle
    <2>4. Forward /\ RuntimeGoes /\ WaitsGo /\ EndsGo /\ TransactionsGo /\ NumbersGo
      BY <1>1, <2>2, <2>3, RestoringGoes DEF Typed
    <2>5. ReplacedGoes /\ NotedInv'
      BY <2>1 DEF ReplacedGoes, Replaced, NotedInv, Idle
    <2> QED  BY <2>4, <2>5 DEF Goes
  <1>4. CASE Finish
    <2>1. /\ rs.phase = "aside" /\ rs.at > 1 /\ profile' = profile
          /\ \/ rs' = Idle
             \/ rs'.phase \in {"undo", "boot"} /\ rs'.src = rs.src /\ rs'.old = rs.old
      <3>1. rs.phase = "aside" /\ rs.at > 1 /\ profile' = profile
        BY <1>1, <1>4 DEF Finish, Under, data
      <3>2. \/ rs' = [rs EXCEPT !.phase = "boot"]
            \/ rs' = Idle
            \/ rs' = [rs EXCEPT !.phase = "undo", !.at = rs.last]
        BY <1>4 DEF Finish
      <3> QED  BY <1>1, <3>1, <3>2 DEF Under
    <2>2. \A c \in Change : Present(c)' => Present(c)
      BY <2>1 DEF Present, Noted, Idle
    <2>3. rs'.phase # "idle" => rs.phase # "idle" /\ rs'.src = rs.src
      BY <2>1 DEF Idle
    <2>4. Forward /\ RuntimeGoes /\ WaitsGo /\ EndsGo /\ TransactionsGo /\ NumbersGo
      BY <1>1, <2>2, <2>3, RestoringGoes DEF Typed
    <2>5. ReplacedGoes /\ NotedInv'
      BY <1>1, <2>1 DEF ReplacedGoes, Replaced, NotedInv, Idle, Undrawn
    <2> QED  BY <2>4, <2>5 DEF Goes
  <1> QED  BY <1>2, <1>3, <1>4

\* A directory is put in place; with the first of them the profile is replaced.
LEMMA MoveInForgets ==
  ASSUME Typed, Standing, ForgetInv, MoveIn
  PROVE  ForgetInv'
  <1>1. /\ rs \in Under /\ rs.phase = "in" /\ rs.at \in Dir
        /\ UNCHANGED <<op, rt, file, tasks, verified, made>>
    BY UnderIs DEF MoveIn, Standing, Under, Dir, pending, backups
  <1>2. \/ /\ rs'.phase = "aside" /\ rs'.at = rs.at + 1
           /\ IF rs.at = 1 THEN /\ profile' = rs.profile
                                /\ excused' = excused \union rs.profile \union Undone
              ELSE profile' = profile /\ excused' = excused
        \/ rs'.phase = "undo" /\ profile' = profile /\ excused' = excused
    BY <1>1 DEF MoveIn, Under, Place, data
  <1>3. rs'.src = rs.src /\ rs'.old = rs.old /\ rs'.phase # "idle"
    BY <1>1 DEF MoveIn, Under
  <1>4. \A c \in Change : Present(c)' => Present(c) \/ Proved(c)'
    BY <1>1, <1>2, <1>3 DEF Present, Noted, Proved
  <1>5. excused \subseteq excused'
    BY <1>2
  <1>6. Forward /\ RuntimeGoes /\ WaitsGo /\ EndsGo /\ TransactionsGo /\ NumbersGo
    BY <1>1, <1>3, <1>4, <1>5, RestoringGoes DEF Typed
  <1>7. NotedInv'
    BY <1>1, <1>2 DEF NotedInv, Dir
  <1>8. CASE rs'.phase = "aside" /\ rs.at = 1
    <2>1. ASSUME NEW c \in Change, op'[c].pc \notin Undrawn
          PROVE  Proved(c)' \/ (c \notin profile' /\ op'[c].pc \notin Unmade)
      BY <1>1, <1>2, <1>8, <2>1 DEF Proved, Undone, Undrawn, Unmade, Early
    <2>2. ReplacedInv'
      BY <2>1 DEF ReplacedInv
    <2> QED  BY <1>6, <1>7, <2>2, StartKept, PublishedKept, NumberKept DEF ForgetInv
  <1>9. CASE ~(rs'.phase = "aside" /\ rs.at = 1)
    <2>1. ReplacedGoes
      BY <1>1, <1>2, <1>3, <1>9 DEF ReplacedGoes, Replaced, Undrawn, Dir
    <2> QED  BY <1>6, <1>7, <2>1, GoesKeeps DEF Goes
  <1> QED  BY <1>8, <1>9

\* The boot and the end of a rollback.
LEMMA RollbackGoes ==
  ASSUME Typed, ForgetInv, RollbackBoots \/ RollbackEnds
  PROVE  Goes
  <1>1. CASE RollbackBoots
    <2>1. /\ rs \in Under /\ rs.phase = "boot" /\ (rs' = Idle \/ rs'.phase \in {"resolve", "wait"})
          /\ rs'.phase # "idle" => rs'.src = rs.src
          /\ UNCHANGED <<data, backups, pending, tasks, op, verified>>
      BY <1>1, UnderIs DEF RollbackBoots, Under, Idle
    <2>2. CASE Up
      <3>1. rt' = rt /\ excused' = excused
        BY <1>1, <2>2 DEF RollbackBoots
      <3>2. \A c \in Change : Present(c)' => Present(c)
        BY <2>1 DEF Present, Noted, Idle, data
      <3>3. Forward /\ RuntimeGoes /\ WaitsGo /\ EndsGo /\ TransactionsGo /\ NumbersGo
        BY <2>1, <3>1, <3>2, RestoringGoes DEF Typed, backups, pending
      <3>4. ReplacedGoes /\ NotedInv'
        BY <2>1 DEF ReplacedGoes, Replaced, NotedInv, Idle, Undrawn, data
      <3> QED  BY <3>3, <3>4 DEF Goes
    <2>3. CASE ~Up
      <3>1. Boot("normal") /\ rt.phase # "starting"
        BY <1>1, <2>3 DEF RollbackBoots, Up
      <3>2. excused \subseteq excused'
        BY <3>1, BootIs DEF Modes
      <3>3. Forward
        BY <2>1, <3>2 DEF Forward, Present, Noted, Proved, data, Idle
      <3>4. RuntimeGoes
        BY <2>1, <3>1, BootGoes DEF Noted, Idle, data, Modes
      <3>5. WaitsGo /\ EndsGo
        BY <2>1, <3>1, <3>3, NoneWaits, ForwardKeeps DEF WaitsGo, EndsGo, ForgetInv
      <3>6. TransactionsGo
        BY <2>1, OldTransactionsGo DEF pending
      <3>7. NumbersGo
        BY <2>1 DEF NumbersGo, Typed, backups
      <3>8. ReplacedGoes /\ NotedInv'
        BY <2>1 DEF ReplacedGoes, Replaced, NotedInv, Idle, Undrawn, data
      <3> QED  BY <3>3, <3>4, <3>5, <3>6, <3>7, <3>8 DEF Goes
    <2> QED  BY <2>2, <2>3
  <1>2. CASE RollbackEnds
    <2>1. /\ rs.phase = "resolve" /\ rs' = Idle /\ excused \subseteq excused'
          /\ UNCHANGED <<data, backups, rt, tasks, op, verified>>
          /\ file' = file \/ file' = None
      BY <1>2, ClearIs DEF RollbackEnds
    <2>2. Forward
      BY <2>1 DEF Forward, Present, Noted, Proved, data, Idle
    <2>3. RuntimeGoes /\ WaitsGo /\ EndsGo
      BY <2>1 DEF RuntimeGoes, Made, WaitsGo, EndsGo
    <2>4. TransactionsGo
      BY <2>1, OldTransactionsGo
    <2>5. NumbersGo
      BY <2>1 DEF NumbersGo, Typed, backups, Idle
    <2>6. ReplacedGoes /\ NotedInv'
      BY <2>1 DEF ReplacedGoes, Replaced, NotedInv, Idle
    <2> QED  BY <2>2, <2>3, <2>4, <2>5, <2>6 DEF Goes
  <1> QED  BY <1>1, <1>2
\* A restart ends what was under way.
LEMMA RestartGoes ==
  ASSUME Typed, ForgetInv, Restart
  PROVE  Goes
  <1>1. /\ rs' = Idle /\ rs'.phase = "idle" /\ rt'.phase = "stopped" /\ tasks' = {}
        /\ file' = file /\ made' = made + 1
        /\ UNCHANGED <<profile, verified, excused>>
    BY DEF Restart, Idle
  <1>2. ASSUME NEW c \in Change
        PROVE  /\ op'[c].pc = IF op[c] = NoOp THEN "idle" ELSE "done"
               /\ op[c] = NoOp => op'[c] = op[c] /\ op[c].pc = "idle"
               /\ op[c] # NoOp => op'[c].snap = op[c].snap
    BY DEF Restart, Typed, Ops, NoOp
  <1>3. ASSUME NEW c \in Change, op[c] # NoOp
        PROVE  op[c].pc # "idle" /\ op'[c].snap <= made'
    <2>1. op[c] \in Ops
      BY <1>3 DEF Typed
    <2>2. op[c].pc # "idle" /\ op[c].snap \in Nat
      BY <2>1 DEF Ops
    <2>3. op[c].snap <= made /\ made \in Nat
      BY <2>2 DEF ForgetInv, NumberInv, Typed
    <2> QED  BY <1>1, <1>2, <1>3, <2>2, <2>3
  <1>4. Forward
    BY <1>1, <1>2 DEF Forward, Present, Noted, Proved, Early, Unmade, Undrawn
  <1>5. RuntimeGoes /\ WaitsGo /\ EndsGo
    BY <1>1, <1>2 DEF RuntimeGoes, WaitsGo, EndsGo
  <1>6. TransactionsGo
    BY <1>1, OldTransactionsGo DEF Typed
  <1>7. NumbersGo
    <2>1. made <= made' /\ made' \in Nat
      BY <1>1 DEF Typed
    <2>2. ASSUME NEW c \in Change, op'[c].pc # "idle"
          PROVE  op'[c].pc \notin {"stop", "snapshot"} /\ op'[c].snap <= made'
      BY <1>2, <1>3, <2>2
    <2> QED  BY <1>1, <2>1, <2>2 DEF NumbersGo
  <1>8. ReplacedGoes /\ NotedInv'
    BY <1>1 DEF ReplacedGoes, Replaced, NotedInv
  <1> QED  BY <1>4, <1>5, <1>6, <1>7, <1>8 DEF Goes

-----------------------------------------------------------------------------
(***************************************************************************)
(* The invariant                                                           *)
(***************************************************************************)
IInv == Typed /\ Standing /\ WholeInv /\ ForgetInv

\* The first state.
LEMMA InitIInv == Init => IInv
  <1> SUFFICES ASSUME Init  PROVE IInv
    OBVIOUS
  <1>1. Typed
    <2>1. live \in [Dir -> Nat] /\ op \in [Change -> Ops \union {NoOp}]
      BY DEF Init
    <2>2. snaps \subseteq Backups
      BY DEF Init, Backups, Kinds
    <2>3. rt \in [phase : {"stopped", "starting", "ready", "failed"}, mode : Modes,
                 loaded : SUBSET Change]
      BY DEF Init, Modes
    <2>4. profile \subseteq Change /\ verified \subseteq Change /\ excused \subseteq Change
      BY DEF Init
    <2>5. stored \in Nat /\ cached \in Nat /\ made \in Nat \ {0}
      BY DEF Init
    <2>6. file \in Pending \union {None} /\ mem \in {None, file} /\ rs \in Under \union {Idle}
      BY DEF Init
    <2>7. torn \in BOOLEAN /\ due \in [Dir -> Nat]
      BY DEF Init
    <2> QED  BY <2>1, <2>2, <2>3, <2>4, <2>5, <2>6, <2>7 DEF Typed
  <1>2. Standing /\ WholeInv
    <2>1. rs.phase = "idle" /\ \A d \in Dir : live[d] = 1 /\ due[d] = 1
      BY DEF Init, Idle
    <2> QED  BY <2>1 DEF Standing, WholeInv, Moving, Settled
  <1>3. PublishedInv /\ NumberInv /\ NotedInv /\ StartInv /\ ReplacedInv
    BY DEF Init, PublishedInv, NumberInv, NotedInv, StartInv, ReplacedInv, Replaced,
           Present, Noted, NoOp, Idle
  <1> QED  BY <1>1, <1>2, <1>3 DEF IInv, ForgetInv

\* Every step.
LEMMA NextIInv ==
  ASSUME IInv, [Next]_vars
  PROVE  IInv'
  <1> USE DEF IInv
  <1>1. CASE UNCHANGED vars
    <2>1. UNCHANGED <<live, profile, stored, cached, snaps, made, file, mem, failure, rt,
                      tasks, op, rs, verified, excused, due, torn>>
      BY <1>1 DEF vars, data, backups, pending, history
    <2>2. Typed'
      BY <2>1 DEF Typed
    <2>3. Standing' /\ WholeInv'
      BY <2>1, WholeKept
    <2>4. TransactionsGo
      BY <2>1, OldTransactionsGo
    <2>5. ForgetInv'
      BY <2>1, <2>4, StillGoes, GoesKeeps DEF Goes, ForgetInv
    <2> QED  BY <2>2, <2>3, <2>5
  <1>2. CASE Plugins
    <2>1. PICK c \in Change :
            \/ \E deferred \in BOOLEAN : Ask(c, deferred)
            \/ StopFor(c) \/ TakeSnapshot(c) \/ Prepare(c) \/ Mutate(c)
            \/ Persist(c) \/ BootFor(c) \/ Conclude(c)
      BY <1>2 DEF Plugins
    <2>2. Typed'
      BY <2>1, PluginsTyped DEF ForgetInv
    <2>3. Goes
      BY <2>1, AskGoes, StopForGoes, TakeSnapshotGoes, PrepareGoes, MutateGoes, PersistGoes,
         BootForGoes, ConcludeGoes
    <2> QED  BY <1>2, <2>2, <2>3, GoesKeeps, OthersWhole
  <1>3. CASE Restoration
    <2>1. Typed' /\ Standing' /\ WholeInv'
      BY <1>3, RestorationTyped, RestorationWhole
    <2>2. ForgetInv'
      BY <1>3, BeginningGoes, StopAllGoes, MovingGoes, MoveInForgets, RollbackGoes, GoesKeeps
         DEF Restoration
    <2> QED  BY <2>1, <2>2
  <1>4. CASE Listeners
    BY <1>4, ListenersTyped, OthersWhole, ListenersGo, GoesKeeps DEF ForgetInv
  <1>5. CASE Ready \/ Fails
    BY <1>5, RuntimeTyped, OthersWhole, ReadyGoes, FailsGoes, GoesKeeps
  <1>6. CASE DeepLink \/ \E mode \in {"normal", "restricted"} : Launch(mode)
    BY <1>6, RuntimeTyped, OthersWhole, LaunchGoes, GoesKeeps DEF Modes
  <1>7. CASE (\E i \in Ids : DeleteSnapshot(i)) \/ StoreWrite
    <2>1. UNCHANGED <<profile, made, file, rt, tasks, op, rs, verified, excused>>
      BY <1>7 DEF DeleteSnapshot, StoreWrite, data, backups, pending, history
    <2>2. TransactionsGo
      BY <2>1, OldTransactionsGo
    <2>3. ForgetInv'
      BY <2>1, <2>2, StillGoes, GoesKeeps DEF Goes, ForgetInv
    <2> QED  BY <1>7, <2>3, OthersTyped, OthersWhole
  <1>8. CASE Restart
    BY <1>8, OthersTyped, OthersWhole, RestartGoes, GoesKeeps
  <1> QED  BY <1>1, <1>2, <1>3, <1>4, <1>5, <1>6, <1>7, <1>8 DEF Next

\* The invariant holds of every reachable state.
LEMMA Invariant == Spec => []IInv
  <1>1. Init => IInv
    BY InitIInv
  <1>2. IInv /\ [Next]_vars => IInv'
    BY NextIInv
  <1> QED  BY <1>1, <1>2, PTL DEF Spec

\* For any faults and restarts but those in the middle of a restoration, every
\* directory stems from the last restoration that succeeded with an archive that
\* held it whenever none is under way (recovery-manager.ts, restore).
THEOREM WholeRestoration == Spec => []RestoresWhole
  <1>1. IInv => RestoresWhole
    BY DEF IInv, WholeInv, RestoresWhole, Settled
  <1> QED  BY <1>1, Invariant, PTL

\* Of any number of changes, callers, launches and restorations: a change that
\* is in the profile loses its transaction when a normal boot came up with it,
\* or it is excused (plugin-recovery-coordinator.ts, run; index.ts, onChange of
\* the Runtime).
THEOREM ForgottenIsProved == Spec => VerifiedBeforeForgotten
  <1>1. ASSUME IInv, [Next]_vars, file # None, file' = None
        PROVE  file.change \notin profile \/ file.change \in verified \union excused'
    <2> USE DEF IInv
    <2>1. Begun(file) /\ file \in Pending /\ file.change \in Change
      BY <1>1 DEF ForgetInv, PublishedInv, Begun, Pending
    <2>2. file' # file /\ file' \notin Pending
      BY <1>1, PendingIs
    <2>3. CASE Plugins
      <3>1. PICK c \in Change : Prepare(c) \/ Conclude(c)
        BY <2>2, <2>3 DEF Plugins, Ask, StopFor, TakeSnapshot, Mutate, Persist, BootFor, pending
      <3>2. CASE Prepare(c)
        <4>1. file' = [change |-> c, phase |-> "prepared", snap |-> op[c].snap]
          BY <2>2, <3>2 DEF Prepare, Write, pending
        <4>2. op[c].snap \in Nat
          BY <1>1, <3>2, AskedIs DEF Prepare, At, Ops
        <4> QED  BY <2>2, <4>1, <4>2 DEF Pending
      <3>3. CASE Resolve(c) /\ file.change = c
        <4>1. Safe(c)
          BY <1>1, <3>3 DEF Resolve, ForgetInv, StartInv
        <4> QED  BY <3>3, <4>1 DEF Resolve, Safe, Proved, Present
      <3>4. CASE Resolve(c) /\ file.change # c
        BY <3>4 DEF Resolve
      <3>5. CASE Report(c)
        BY <1>1, <2>2, <3>5, MemIs, MarkIs DEF Report, Lost, pending
      <3>6. CASE Pass(c) \/ ResolveFails(c)
        BY <2>2, <3>6 DEF Pass, ResolveFails, Forget, Lost, pending
      <3> QED  BY <3>1, <3>2, <3>3, <3>4, <3>5, <3>6 DEF Conclude
    <2>4. CASE Restoration
      <3>1. RollbackEnds
        BY <2>2, <2>4 DEF Restoration, Restore, StopAll, Save, Extract, MoveAside, MoveIn, Undo,
           Finish, RollbackBoots, pending
      <3>2. CASE file.snap = rs.src
        <4>1. op[file.change].pc \notin Undrawn /\ op[file.change].snap = rs.src /\ Replaced
          BY <2>1, <3>1, <3>2 DEF Begun, Early, Undrawn, Replaced, RollbackEnds
        <4>2. Proved(file.change) \/ file.change \notin profile
          BY <1>1, <2>1, <4>1 DEF ForgetInv, ReplacedInv
        <4> QED  BY <2>2, <3>1, <3>2, <4>2 DEF RollbackEnds, Proved, Forget, Lost, pending
      <3>3. CASE file.snap # rs.src
        BY <2>2, <3>1, <3>3 DEF RollbackEnds, Forget, Lost, pending
      <3> QED  BY <3>2, <3>3
    <2>5. CASE Listeners
      <3>1. CASE FailTask \/ ShowTask
        BY <2>2, <3>1 DEF FailTask, ShowTask, pending
      <3>2. ASSUME NEW t \in tasks \ {Failing, Showing}, MarkTask(t.pending)
            PROVE  FALSE
        <4>1. t.pending \in Pending
          BY <1>1, <3>2 DEF ForgetInv, PublishedInv, Begun
        <4> QED  BY <2>2, <3>2, <4>1, MarkIs DEF MarkTask, Lost, pending
      <3>3. ASSUME NEW t \in tasks \ {Failing, Showing}, CompleteTask(t.pending)
            PROVE  file.change \notin profile \/ file.change \in verified \union excused'
        <4>1. CASE file.change = t.pending.change
          <5>1. Completing(t.pending) \in tasks
            BY <3>3 DEF CompleteTask
          <5>2. /\ Completing(t.pending).task = "complete"
                /\ Completing(t.pending).pending = t.pending
            BY DEF Completing
          <5>3. Safe(file.change)
            BY <1>1, <4>1, <5>1, <5>2 DEF ForgetInv, PublishedInv
          <5> QED  BY <2>2, <3>3, <4>1, <5>3 DEF CompleteTask, Safe, Proved, Present, Lost, pending
        <4>2. CASE file.change # t.pending.change
          BY <1>1, <2>2, <3>3, <4>2 DEF CompleteTask, Lost, pending
        <4> QED  BY <4>1, <4>2
      <3> QED  BY <2>5, <3>1, <3>2, <3>3 DEF Listeners
    <2>6. CASE \/ Ready \/ Fails \/ DeepLink \/ StoreWrite \/ Restart
               \/ \E mode \in {"normal", "restricted"} : Launch(mode)
               \/ \E i \in Ids : DeleteSnapshot(i)
      BY <2>2, <2>6 DEF Ready, Fails, DeepLink, StoreWrite, Restart, Launch, DeleteSnapshot, pending
    <2>7. CASE UNCHANGED vars
      BY <2>2, <2>7 DEF vars, pending
    <2> QED  BY <1>1, <2>3, <2>4, <2>5, <2>6, <2>7 DEF Next
  <1>2. IInv /\ [Next]_vars =>
          [file # None /\ file' = None =>
             \/ file.change \notin profile
             \/ file.change \in verified \union excused']_vars
    BY <1>1
  <1> QED  BY <1>2, Invariant, PTL DEF VerifiedBeforeForgotten, Spec
=============================================================================
