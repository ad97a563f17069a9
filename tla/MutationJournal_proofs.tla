----------------------- MODULE MutationJournal_proofs -----------------------
(***************************************************************************)
(* Proofs about the mutation journal, for every set of images and every     *)
(* bound on faults and edits: its inductive invariant, and from it that no  *)
(* mutation is ever torn, that unknown content is kept, and that the        *)
(* journal implements an atomic commit.                                     *)
(***************************************************************************)
EXTENDS MutationJournal, TLAPS

(* Both orders list state files, at most four, and always the pair. *)
LEMMA OrderFacts ==
    ASSUME NEW o \in Orders
    PROVE  /\ Len(o) \in 1..4
           /\ \A i \in 1..Len(o) : o[i] \in FILES
           /\ Participants(o) \subseteq FILES
           /\ {"versions", "workflows"} \subseteq Participants(o)
           /\ \A i \in 1..Len(o) : o[i] \in Participants(o)
<1>1. CASE o = SaveOrder
  <2>1. Len(o) = 2 /\ o[1] = "versions" /\ o[2] = "workflows"
    BY <1>1 DEF SaveOrder
  <2> QED BY <2>1 DEF Participants, FILES
<1>2. CASE o = DeleteOrder
  <2>1. /\ Len(o) = 4 /\ o[1] = "tombstones" /\ o[2] = "workflows"
        /\ o[3] = "versions" /\ o[4] = "runs"
    BY <1>2 DEF DeleteOrder
  <2> QED BY <2>1 DEF Participants, FILES
<1> QED BY <1>1, <1>2 DEF Orders

(* A save does not touch the tombstones. *)
LEMMA SaveLeavesTombstones == "tombstones" \notin Participants(SaveOrder)
<1>1. /\ Len(SaveOrder) = 2
      /\ SaveOrder[1] = "versions" /\ SaveOrder[2] = "workflows"
  BY DEF SaveOrder
<1> QED BY <1>1 DEF Participants

LEMMA NoOpType == NoOp \in Intent /\ NoOp.order = SaveOrder
<1>1. (CHOOSE c \in Image : TRUE) \in Image
  BY ImageAssumption
<1> QED BY <1>1 DEF NoOp, Intent, Orders, Content

LEMMA InitInv == Init => IInv
<1> SUFFICES ASSUME Init PROVE IInv
  OBVIOUS
<1> USE DEF Init, Idle
<1>1. TypeOK
  BY NoOpType, BoundAssumption DEF TypeOK, Content, Steps
<1>2. PairInv
  BY SentinelAssumption DEF PairInv, Paired, FILES
<1> QED
  BY <1>1, <1>2 DEF IInv, PhaseInv, IntentInv, ProgressInv, TombstonesInv

-----------------------------------------------------------------------------
(* The invariant is preserved, part by part.                                *)

LEMMA TypeStep == IInv /\ [Next]_vars => TypeOK'
<1> SUFFICES ASSUME IInv, [Next]_vars PROVE TypeOK'
  OBVIOUS
<1> USE DEF TypeOK, Steps
<1>0. TypeOK
  BY DEF IInv
<1>1. CASE Start
  BY <1>0, <1>1 DEF Start, Content
<1>2. CASE Refuse
  BY <1>0, <1>2, NoOpType, BoundAssumption DEF Refuse, GoIdle
<1>3. CASE ReadBefore
  BY <1>0, <1>3 DEF ReadBefore, Intent
<1>4. CASE Publish
  BY <1>0, <1>4 DEF Publish
<1>5. CASE CheckAll
  BY <1>0, <1>5, NoOpType DEF CheckAll, Block, GoIdle
<1>6. CASE ApplyOne
  <2>1. op.order \in Orders /\ op.after \in Content
    BY <1>0 DEF Intent, Content
  <2>2. idx + 1 \in 1..5
    <3>1. PICK n \in 1..4 : Len(op.order) = n
      BY <2>1, OrderFacts
    <3>2. idx \in 1..5 /\ idx <= n
      BY <1>0, <1>6, <3>1 DEF ApplyOne
    <3> QED BY <3>2
  <2>3. disk' \in [FILES -> Content]
    BY <1>0, <1>6, <2>1 DEF ApplyOne
  <2> QED BY <1>0, <1>6, <2>2, <2>3, NoOpType DEF ApplyOne, Block, GoIdle
<1>7. CASE Unlink
  BY <1>0, <1>7 DEF Unlink
<1>8. CASE Return
  BY <1>0, <1>8, NoOpType DEF Return, GoIdle, Intent, Content
<1>9. CASE Open
  BY <1>0, <1>9, NoOpType DEF Open, Block, GoIdle
<1>10. CASE Load
  BY <1>0, <1>10, NoOpType DEF Load, Block, GoIdle, FILES
<1>11. ASSUME NEW o \in Orders, NEW c \in Image, Request(o, c)
       PROVE  TypeOK'
  <2>1. op' \in Intent
    BY <1>11, NoOpType DEF Request, Intent
  <2>2. /\ step' = "prepare"
        /\ UNCHANGED <<disk, journal, phase, idx, tombstones, tampered, faults>>
    BY <1>11 DEF Request
  <2> QED BY <1>0, <2>1, <2>2
<1>12. ASSUME NEW c \in Image, PersistRuns(c)
       PROVE  TypeOK'
  BY <1>0, <1>12 DEF PersistRuns, task, Content
<1>13. CASE IOError
  <2>1. disk' \in [FILES -> Content] /\ journal' \in Intent \cup {NoIntent, BadIntent}
    BY <1>0, <1>13 DEF IOError, Intent, Content
  <2> QED BY <1>0, <1>13, <2>1, NoOpType, BoundAssumption DEF IOError, Block, GoIdle
<1>14. CASE Quit
  BY <1>0, <1>14 DEF Quit, task, Content
<1>15. CASE Crash
  BY <1>0, <1>15, NoOpType, BoundAssumption DEF Crash, GoIdle, Content
<1>16. CASE Tamper
  <2>1. disk' \in [FILES -> Content] /\ journal' \in Intent \cup {NoIntent, BadIntent}
    BY <1>0, <1>16 DEF Tamper
  <2> QED BY <1>0, <1>16, <2>1, BoundAssumption DEF Tamper, task
<1>17. CASE UNCHANGED vars
  BY <1>0, <1>17 DEF vars
<1> QED
  BY <1>1, <1>2, <1>3, <1>4, <1>5, <1>6, <1>7, <1>8, <1>9, <1>10, <1>11,
     <1>12, <1>13, <1>14, <1>15, <1>16, <1>17 DEF Next, Progress

LEMMA PhaseStep == IInv /\ [Next]_vars => PhaseInv'
<1> SUFFICES ASSUME IInv, [Next]_vars PROVE PhaseInv'
  OBVIOUS
<1>0. PhaseInv /\ phase \in {"down", "starting", "ready", "blocked"} /\ step \in Steps
  BY DEF IInv, TypeOK
<1> USE DEF PhaseInv, Block, GoIdle
<1>1. CASE Progress
  BY <1>0, <1>1 DEF Progress, Start, Refuse, ReadBefore, Publish, CheckAll,
                    ApplyOne, Unlink, Return, Open, Load, Steps
<1>2. CASE ~Progress
  BY <1>0, <1>2 DEF Next, Request, PersistRuns, IOError, Quit, Crash, Tamper,
                    task, vars, Steps
<1> QED BY <1>1, <1>2

LEMMA IntentStep == IInv /\ [Next]_vars => IntentInv'
<1> SUFFICES ASSUME IInv, [Next]_vars PROVE IntentInv'
  OBVIOUS
<1>0. /\ PhaseInv /\ IntentInv
      /\ phase \in {"down", "starting", "ready", "blocked"} /\ step \in Steps
  BY DEF IInv, TypeOK
<1> USE DEF PhaseInv, IntentInv, Block, GoIdle
<1>1. CASE Progress
  BY <1>0, <1>1 DEF Progress, Start, Refuse, ReadBefore, Publish, CheckAll,
                    ApplyOne, Unlink, Return, Open, Load, Steps
<1>2. CASE ~Progress
  BY <1>0, <1>2 DEF Next, Request, PersistRuns, IOError, Quit, Crash, Tamper,
                    task, vars, Steps
<1> QED BY <1>1, <1>2

LEMMA ProgressStep == IInv /\ [Next]_vars => ProgressInv'
<1> SUFFICES ASSUME IInv, [Next]_vars PROVE ProgressInv'
  OBVIOUS
<1>0. TypeOK /\ PhaseInv /\ IntentInv /\ ProgressInv
  BY DEF IInv
<1>1. op.order \in Orders /\ op.after \in Image /\ idx \in Nat
  BY <1>0 DEF TypeOK, Intent
<1>2. /\ Len(op.order) \in 1..4
      /\ \A i \in 1..Len(op.order) : op.order[i] \in FILES
      /\ Participants(op.order) \subseteq FILES
  BY <1>1, OrderFacts
<1> USE DEF ProgressInv, Block, GoIdle
<1>3. CASE CheckAll
  BY <1>0, <1>2, <1>3 DEF CheckAll, Conflict, Participants, PhaseInv, TypeOK
<1>4. CASE ApplyOne
  <2>1. CASE Conflict(Current)
    BY <1>4, <2>1 DEF ApplyOne
  <2>2. CASE ~Conflict(Current)
    <3>1. /\ step' = step /\ op' = op /\ idx' = idx + 1 /\ step = "apply"
          /\ idx \in 1..Len(op.order)
      BY <1>0, <1>2, <1>4, <2>2 DEF ApplyOne, TypeOK
    <3>2. disk'[Current] = op.after
      BY <1>0, <1>2, <1>4, <2>2, <3>1 DEF ApplyOne, Current, TypeOK
    <3>3. \A f \in FILES : disk'[f] \in {disk[f], op.after}
      BY <1>0, <1>2, <1>4, <2>2, <3>1 DEF ApplyOne, Current, TypeOK
    <3>4. ASSUME NEW i \in 1..Len(op.order)
          PROVE  /\ i < idx + 1 => disk'[op.order[i]] = op.after
                 /\ i >= idx + 1 => disk'[op.order[i]] \in {op.before[op.order[i]], op.after}
      <4>1. CASE i < idx
        BY <1>0, <1>1, <1>2, <3>1, <3>3, <4>1
      <4>2. CASE i = idx
        BY <1>1, <3>1, <3>2, <4>2 DEF Current
      <4>3. CASE i > idx
        <5>1. ~Conflict(op.order[i])
          BY <1>0, <1>1, <1>2, <3>1, <4>3
        <5> QED BY <1>1, <1>2, <3>1, <3>3, <4>3, <5>1 DEF Conflict
      <4> QED BY <1>1, <4>1, <4>2, <4>3
    <3> QED BY <3>1, <3>4 DEF Conflict
  <2> QED BY <2>1, <2>2
<1>5. CASE Unlink
  BY <1>0, <1>1, <1>2, <1>5 DEF Unlink, Participants
<1>6. CASE Start \/ Refuse \/ ReadBefore \/ Publish \/ Return \/ Open \/ Load
  BY <1>0, <1>6 DEF Start, Refuse, ReadBefore, Publish, Return, Open, Load, PhaseInv, TypeOK, Intent, Conflict
<1>7. CASE (\E o \in Orders, c \in Image : Request(o, c)) \/ (\E c \in Image : PersistRuns(c))
  BY <1>7 DEF Request, PersistRuns, task
<1>8. CASE IOError \/ Quit \/ Crash \/ Tamper
  BY <1>0, <1>8 DEF IOError, Quit, Crash, Tamper, task, PhaseInv
<1>9. CASE UNCHANGED vars
  BY <1>0, <1>9 DEF vars, Conflict
<1> QED BY <1>3, <1>4, <1>5, <1>6, <1>7, <1>8, <1>9 DEF Next, Progress

LEMMA TombstonesStep == IInv /\ [Next]_vars => TombstonesInv'
<1> SUFFICES ASSUME IInv, [Next]_vars, phase' = "ready"
             PROVE  \/ tombstones' = disk'["tombstones"]
                    \/ step' \in {"check", "apply", "clear"} /\ op'.order = DeleteOrder
  BY DEF TombstonesInv
<1>0. TypeOK /\ PhaseInv /\ ProgressInv /\ TombstonesInv
  BY DEF IInv
<1>1. /\ op.order \in {SaveOrder, DeleteOrder}
      /\ \A i \in 1..Len(op.order) : op.order[i] \in Participants(op.order)
  BY <1>0, OrderFacts DEF TypeOK, Intent, Orders
<1> USE DEF Block, GoIdle
<1>2. CASE ApplyOne
  <2>1. phase = "ready" /\ step' = step /\ op' = op /\ step = "apply" /\ tombstones' = tombstones
    BY <1>0, <1>2 DEF ApplyOne
  <2>2. CASE op.order = SaveOrder
    <3>1. Current # "tombstones"
      BY <1>0, <1>1, <1>2, <2>2, SaveLeavesTombstones DEF ApplyOne, Current, TypeOK
    <3>2. disk'["tombstones"] = disk["tombstones"]
      BY <1>0, <1>2, <3>1 DEF ApplyOne, TypeOK, FILES
    <3>3. op.order # DeleteOrder
      <4>1. Len(SaveOrder) = 2 /\ Len(DeleteOrder) = 4
        BY DEF SaveOrder, DeleteOrder
      <4> QED BY <2>2, <4>1
    <3> QED BY <1>0, <2>1, <3>2, <3>3 DEF TombstonesInv
  <2> QED BY <1>1, <2>1, <2>2
<1>3. CASE Return
  <2>1. CASE op.order = DeleteOrder
    <3>1. "tombstones" \in Participants(op.order)
      BY <2>1 DEF Participants, DeleteOrder
    <3> QED BY <1>0, <1>3, <2>1, <3>1 DEF Return, ProgressInv
  <2>2. CASE op.order # DeleteOrder
    BY <1>0, <1>3, <2>2 DEF Return, TombstonesInv
  <2> QED BY <2>1, <2>2
<1>4. CASE Load
  BY <1>4 DEF Load
<1>5. CASE Start \/ Refuse \/ ReadBefore \/ Publish \/ CheckAll \/ Unlink \/ Open
  BY <1>0, <1>5 DEF Start, Refuse, ReadBefore, Publish, CheckAll, Unlink, Open,
                    TombstonesInv, PhaseInv
<1>6. CASE \E o \in Orders, c \in Image : Request(o, c)
  BY <1>0, <1>6 DEF Request, TombstonesInv
<1>7. CASE \E c \in Image : PersistRuns(c)
  BY <1>0, <1>7 DEF PersistRuns, task, TombstonesInv, TypeOK, FILES
<1>8. CASE IOError \/ Quit \/ Crash \/ Tamper
  BY <1>0, <1>8 DEF IOError, Quit, Crash, Tamper, task
<1>9. CASE UNCHANGED vars
  BY <1>0, <1>9 DEF vars, TombstonesInv
<1> QED BY <1>2, <1>3, <1>4, <1>5, <1>6, <1>7, <1>8, <1>9 DEF Next, Progress

(* Untampered files keep the pair: between mutations on disk, during one in  *)
(* both its before and its after images.                                    *)
LEMMA PairStep == IInv /\ [Next]_vars => PairInv'
<1> SUFFICES ASSUME IInv, [Next]_vars, tampered' = 0 PROVE PairInv'
  BY DEF PairInv
<1>0. TypeOK /\ PhaseInv /\ IntentInv /\ ProgressInv /\ PairInv
  BY DEF IInv
<1>1. tampered \in Nat /\ op \in Intent /\ op.order \in Orders
  BY <1>0, BoundAssumption DEF TypeOK, Intent
<1>2. /\ Len(op.order) \in 1..4
      /\ \A i \in 1..Len(op.order) : op.order[i] \in FILES
      /\ Participants(op.order) \subseteq FILES
      /\ {"versions", "workflows"} \subseteq Participants(op.order)
  BY <1>1, OrderFacts
<1>3. op # NoIntent /\ op # BadIntent
  BY <1>1, SentinelAssumption
<1> USE DEF PairInv, Paired, Block, GoIdle
<1>4. CASE Publish
  <2>1. journal = NoIntent /\ op.before = disk /\ tampered = 0 /\ disk' = disk /\ journal' = op
    BY <1>0, <1>4 DEF Publish, IntentInv, ProgressInv
  <2> QED BY <1>0, <1>2, <1>3, <2>1
<1>5. ASSUME disk' = disk \/ (/\ Current \in FILES
                              /\ disk' = [disk EXCEPT ![Current] = op.after]),
             journal' = journal, journal = op, tampered' = tampered
      PROVE  PairInv'
  <2>1. \A f \in FILES : disk'[f] \in {disk[f], op.after}
    BY <1>0, <1>5 DEF TypeOK
  <2> QED BY <1>0, <1>2, <1>3, <1>5, <2>1
<1>6. CASE ApplyOne
  <2>1. journal = op /\ journal' = journal /\ tampered' = tampered
    BY <1>0, <1>6 DEF ApplyOne, IntentInv
  <2>2. idx \in 1..Len(op.order)
    BY <1>0, <1>2, <1>6 DEF ApplyOne, TypeOK
  <2>3. Current \in FILES
    BY <1>2, <2>2 DEF Current
  <2>4. disk' = disk \/ disk' = [disk EXCEPT ![Current] = op.after]
    BY <1>6 DEF ApplyOne
  <2> QED BY <1>5, <2>1, <2>3, <2>4
<1>7. ASSUME step = "apply", idx > Len(op.order), journal' = NoIntent, disk' = disk
      PROVE  PairInv'
  <2>1. \A i \in 1..Len(op.order) : disk[op.order[i]] = op.after
    <3> SUFFICES ASSUME NEW i \in 1..Len(op.order) PROVE disk[op.order[i]] = op.after
      OBVIOUS
    <3>1. idx \in Nat /\ i < idx
      BY <1>0, <1>2, <1>7 DEF TypeOK
    <3> QED BY <1>0, <1>7, <3>1 DEF ProgressInv
  <2>2. disk["versions"] = op.after /\ disk["workflows"] = op.after
    BY <1>2, <2>1 DEF Participants
  <2> QED BY <1>7, <2>2, SentinelAssumption
<1>8. CASE Unlink
  BY <1>7, <1>8 DEF Unlink
<1>9. CASE Start \/ Refuse \/ ReadBefore \/ CheckAll \/ Return \/ Open \/ Load
  BY <1>0, <1>9 DEF Start, Refuse, ReadBefore, CheckAll, Return, Open, Load
<1>10. CASE \E o \in Orders, c \in Image : Request(o, c)
  BY <1>0, <1>10 DEF Request
<1>11. CASE \E c \in Image : PersistRuns(c)
  BY <1>0, <1>11 DEF PersistRuns, IntentInv, task, TypeOK, FILES
<1>12. CASE IOError
  <2>1. tampered' = tampered
    BY <1>12 DEF IOError
  <2>2. CASE UNCHANGED <<disk, journal>>
    BY <1>0, <2>1, <2>2
  <2>3. CASE step = "publish" /\ journal' = op /\ UNCHANGED disk
    <3>1. journal = NoIntent /\ op.before = disk
      BY <1>0, <2>3 DEF IntentInv, ProgressInv
    <3> QED BY <1>0, <1>2, <1>3, <2>1, <2>3, <3>1
  <2>4. CASE /\ step = "apply" /\ idx <= Len(op.order)
             /\ disk' = [disk EXCEPT ![Current] = op.after] /\ UNCHANGED journal
    <3>1. idx \in 1..Len(op.order)
      BY <1>0, <1>2, <2>4 DEF TypeOK
    <3>2. Current \in FILES /\ journal = op
      BY <1>0, <1>2, <2>4, <3>1 DEF Current, IntentInv
    <3> QED BY <1>5, <2>1, <2>4, <3>2
  <2>5. CASE step = "apply" /\ idx > Len(op.order) /\ journal' = NoIntent /\ UNCHANGED disk
    BY <1>7, <2>5
  <2> QED BY <1>12, <2>2, <2>3, <2>4, <2>5 DEF IOError
<1>13. CASE Quit \/ Crash
  BY <1>0, <1>13 DEF Quit, Crash, task
<1>14. CASE Tamper
  BY <1>1, <1>14 DEF Tamper
<1>15. CASE UNCHANGED vars
  BY <1>0, <1>15 DEF vars
<1> QED
  BY <1>4, <1>6, <1>8, <1>9, <1>10, <1>11, <1>12, <1>13, <1>14, <1>15 DEF Next, Progress

-----------------------------------------------------------------------------
(* The inductive invariant holds in every reachable state.                  *)
THEOREM Invariance == Spec => []IInv
<1>1. IInv /\ [Next]_vars => IInv'
  BY TypeStep, PhaseStep, IntentStep, ProgressStep, TombstonesStep, PairStep DEF IInv
<1> QED BY InitInv, <1>1, PTL DEF Spec

(* Every variable keeps its type, whatever fails and whatever is edited.    *)
THEOREM TypeCorrect == Spec => []TypeOK
BY Invariance, PTL DEF IInv

(* No crash and no failing write leaves the definitions and their archive   *)
(* from two different mutations once the intent is gone.                    *)
THEOREM NothingIsTorn == Spec => []NothingTorn
<1>1. IInv => NothingTorn
  BY DEF IInv, PairInv, NothingTorn
<1> QED BY Invariance, <1>1, PTL

(* A coordinator that accepts mutations has no older intent pending and     *)
(* checks writes against the tombstones that are on disk.                   *)
THEOREM ReadyMeansClean == Spec => []ReadyIsClean
<1>1. IInv => ReadyIsClean
  BY DEF IInv, IntentInv, TombstonesInv, ReadyIsClean
<1> QED BY Invariance, <1>1, PTL

(* No step of a running coordinator touches a file, or gives up the intent, *)
(* while some file of the intent holds content it does not know.            *)
THEOREM UnknownKept == Spec => UnknownIsKept
<1>1. ASSUME IInv, [Next]_vars, phase # "down", NEW g \in FILES, Unknown(g)
      PROVE  disk' = disk /\ journal' = journal
  <2>0. TypeOK /\ PhaseInv /\ IntentInv /\ ProgressInv
    BY <1>1 DEF IInv
  <2>1. journal \notin {NoIntent, BadIntent} /\ journal \in Intent
    BY <1>1, <2>0 DEF Unknown, TypeOK
  <2>2. ASSUME step \in {"check", "apply"}
        PROVE  \E i \in 1..Len(op.order) : Conflict(op.order[i])
    <3>1. journal = op
      BY <2>0, <2>2 DEF IntentInv
    <3>2. g \in Participants(op.order) /\ Conflict(g)
      BY <1>1, <3>1 DEF Unknown, Conflict
    <3> QED BY <3>2 DEF Participants
  <2>3. step # "apply"
    <3> SUFFICES ASSUME step = "apply" PROVE FALSE
      OBVIOUS
    <3>1. PICK i \in 1..Len(op.order) : Conflict(op.order[i])
      BY <2>2
    <3>2. /\ i < idx => disk[op.order[i]] = op.after
          /\ i >= idx => ~Conflict(op.order[i])
      BY <2>0 DEF ProgressInv
    <3>3. i \in Nat /\ idx \in Nat
      BY <2>0 DEF TypeOK
    <3> QED BY <3>1, <3>2, <3>3 DEF Conflict
  <2>4. step \notin {"publish", "prepare", "clear", "load"}
    BY <2>0, <2>1 DEF IntentInv
  <2> QED
    BY <1>1, <2>0, <2>1, <2>3, <2>4
    DEF Next, Progress, Start, Refuse, ReadBefore, Publish, CheckAll, ApplyOne,
        Unlink, Return, Open, Load, Request, PersistRuns, IOError, Quit, Crash,
        Tamper, vars, task, IntentInv, Block, GoIdle
<1>2. IInv /\ [Next]_vars
      => [phase # "down" /\ (\E f \in FILES : Unknown(f))
            => disk' = disk /\ journal' = journal]_vars
  BY <1>1
<1> QED BY Invariance, <1>2, PTL DEF Spec, UnknownIsKept

-----------------------------------------------------------------------------
(* Refinement: where the mapped state of AtomicCommit moves.                *)

LEMMA MappedStore ==
    ASSUME IInv
    PROVE  /\ LogicalStore \in [FILES -> Content]
           /\ journal = NoIntent => LogicalStore = disk
<1>1. TypeOK
  BY DEF IInv
<1>2. \A f \in FILES : (IF Pending(f) THEN journal.after ELSE disk[f]) \in Content
  BY <1>1 DEF TypeOK, Pending, Intent, Content
<1> QED BY <1>1, <1>2 DEF LogicalStore, Pending, TypeOK

LEMMA MappedInit == Init => Atomic!Init
<1> SUFFICES ASSUME Init PROVE Atomic!Init
  OBVIOUS
<1>1. LogicalStore \in [FILES -> Content]
  BY InitInv, MappedStore
<1> QED BY <1>1 DEF Init, Idle, Atomic!Init, AbstractCall

(* Writing an image of the published intent does not move the mapped store. *)
LEMMA WriteIsInvisible ==
    ASSUME IInv, step = "apply", journal' = journal,
           \/ disk' = disk
           \/ /\ idx \in 1..Len(op.order)
              /\ ~Conflict(Current)
              /\ disk' = [disk EXCEPT ![Current] = op.after]
    PROVE  LogicalStore' = LogicalStore
<1>0. TypeOK /\ journal = op
  BY DEF IInv, IntentInv
<1>1. ASSUME idx \in 1..Len(op.order), ~Conflict(Current),
             disk' = [disk EXCEPT ![Current] = op.after]
      PROVE  LogicalStore' = LogicalStore
  <2>1. Current \in Participants(op.order)
    BY <1>1 DEF Current, Participants
  <2>2. op \notin {NoIntent, BadIntent}
    BY <1>0, SentinelAssumption DEF TypeOK
  <2>3. Pending(Current)
    BY <1>0, <1>1, <2>1, <2>2 DEF Pending, Conflict
  <2>4. ASSUME NEW f \in FILES
        PROVE  (IF Pending(f) THEN journal.after ELSE disk[f])'
               = IF Pending(f) THEN journal.after ELSE disk[f]
    <3>1. CASE f = Current
      <4>1. disk'[f] = op.after
        BY <1>0, <1>1, <2>4, <3>1 DEF TypeOK
      <4>2. Pending(f)'
        BY <1>0, <2>1, <2>2, <3>1, <4>1 DEF Pending
      <4> QED BY <2>3, <3>1, <4>2
    <3>2. CASE f # Current
      BY <1>0, <1>1, <2>4, <3>2 DEF TypeOK, Pending
    <3> QED BY <3>1, <3>2
  <2> QED BY <2>4 DEF LogicalStore
<1> QED BY <1>1 DEF LogicalStore, Pending

(* Unlinking the intent does not either: every image has been written.      *)
LEMMA UnlinkIsInvisible ==
    ASSUME IInv, step = "apply", idx > Len(op.order), journal' = NoIntent, disk' = disk
    PROVE  LogicalStore' = LogicalStore
<1>0. TypeOK /\ journal = op /\ ProgressInv
  BY DEF IInv, IntentInv
<1>1. \A f \in Participants(op.order) : disk[f] = op.after
  <2>1. Len(op.order) \in 1..4
    BY <1>0, OrderFacts DEF TypeOK, Intent
  <2>2. \A i \in 1..Len(op.order) : disk[op.order[i]] = op.after
    BY <1>0, <2>1 DEF ProgressInv, TypeOK
  <2> QED BY <2>2 DEF Participants
<1>2. LogicalStore' = [f \in FILES |-> disk[f]]
  BY DEF LogicalStore, Pending
<1>3. LogicalStore = [f \in FILES |-> disk[f]]
  BY <1>0, <1>1 DEF LogicalStore, Pending
<1> QED BY <1>2, <1>3

(* Publishing the intent is the instant at which the mutation happens.      *)
LEMMA PublishCommits ==
    ASSUME IInv, step = "publish", journal' = op, disk' = disk
    PROVE  LogicalStore' = [f \in FILES |-> IF f \in Participants(op.order)
                                            THEN op.after ELSE LogicalStore[f]]
<1>0. TypeOK /\ journal = NoIntent /\ op.before = disk
  BY DEF IInv, IntentInv, ProgressInv
<1>1. LogicalStore = disk
  BY <1>0, MappedStore
<1>2. op \notin {NoIntent, BadIntent}
  BY <1>0, SentinelAssumption DEF TypeOK
<1>3. \A f \in FILES : Pending(f)' <=> f \in Participants(op.order)
  BY <1>0, <1>2 DEF Pending
<1> QED BY <1>0, <1>1, <1>3 DEF LogicalStore

LEMMA MappedStep == IInv /\ IInv' /\ [Next]_vars => [Atomic!Next]_(Atomic!vars)
<1> SUFFICES ASSUME IInv, IInv', [Next]_vars
             PROVE  Atomic!Next \/ UNCHANGED Atomic!vars
  OBVIOUS
<1>0. TypeOK /\ PhaseInv /\ IntentInv
  BY DEF IInv
<1>1. /\ op.order \in Orders /\ op.after \in Image
      /\ Images(op.order, op.after) \in Mutations
  BY <1>0 DEF TypeOK, Intent, Mutations
<1> DEFINE Asked(o, c, d) == [images |-> Images(o, c), stage |-> d]
<1>2. \A o \in Orders, c \in Image, d \in {"asked", "done"} : Asked(o, c, d) # NoIntent
  BY SentinelAssumption DEF Calls, Mutations
<1>3. AbstractCall = IF phase = "ready" /\ step # "idle"
                     THEN Asked(op.order, op.after,
                                IF step \in {"check", "apply", "clear"} THEN "done" ELSE "asked")
                     ELSE NoIntent
  BY DEF AbstractCall
<1>4. AbstractCall' = IF phase' = "ready" /\ step' # "idle"
                      THEN Asked(op'.order, op'.after,
                                 IF step' \in {"check", "apply", "clear"} THEN "done" ELSE "asked")
                      ELSE NoIntent
  BY DEF AbstractCall
<1>5. ASSUME NEW d \in {"asked", "done"}
      PROVE  /\ Asked(op.order, op.after, d) # NoIntent
             /\ Asked(op.order, op.after, d).stage = d
             /\ Asked(op.order, op.after, d).images = Images(op.order, op.after)
             /\ [Asked(op.order, op.after, d) EXCEPT !.stage = "done"]
                  = Asked(op.order, op.after, "done")
  BY <1>1, <1>2
<1> HIDE DEF Asked
<1>6. disk' = disk /\ journal' = journal => LogicalStore' = LogicalStore
  BY DEF LogicalStore, Pending
(* An error while a commit is under way, or during a start.                 *)
<1>7. ASSUME Block, LogicalStore' = LogicalStore, phase \in {"ready", "starting"},
             step # "idle"
      PROVE  Atomic!Next \/ UNCHANGED Atomic!vars
  <2>1. AbstractCall' = NoIntent /\ phase' # "down"
    BY <1>4, <1>7 DEF Block, GoIdle
  <2>2. CASE phase = "ready"
    <3>1. AbstractCall # NoIntent
      BY <1>3, <1>5, <1>7, <2>2
    <3> QED BY <1>7, <2>1, <2>2, <3>1 DEF Atomic!Next, Atomic!Fail
  <2>3. CASE phase = "starting"
    BY <1>3, <1>7, <2>1, <2>3 DEF Atomic!vars
  <2> QED BY <1>7, <2>2, <2>3
(* A step of the task that only moves the mapped call within done or not.   *)
<1>8. ASSUME LogicalStore' = LogicalStore, phase' = phase, op' = op,
             step # "idle", step' # "idle",
             \/ step \in {"check", "apply"} /\ step' \in {"apply", "clear"}
             \/ phase = "starting"
      PROVE  UNCHANGED Atomic!vars
  BY <1>3, <1>4, <1>8 DEF Atomic!vars
<1>9. CASE Start
  BY <1>3, <1>4, <1>6, <1>9 DEF Start, Atomic!Next, Atomic!Start
<1>10. CASE Refuse
  <2>1. phase = "ready" /\ AbstractCall # NoIntent /\ AbstractCall' = NoIntent
    BY <1>0, <1>3, <1>4, <1>5, <1>10 DEF Refuse, GoIdle, PhaseInv, TypeOK
  <2> QED BY <1>6, <1>10, <2>1 DEF Refuse, Atomic!Next, Atomic!Fail
<1>11. CASE ReadBefore
  <2>1. /\ phase = "ready" /\ phase' = phase /\ step = "prepare" /\ step' = "publish"
        /\ op'.order = op.order /\ op'.after = op.after
        /\ disk' = disk /\ journal' = journal
    BY <1>0, <1>11 DEF ReadBefore, PhaseInv, TypeOK, Intent
  <2>2. AbstractCall' = AbstractCall
    BY <1>3, <1>4, <2>1
  <2> QED BY <1>6, <2>1, <2>2 DEF Atomic!vars
<1>12. CASE Publish
  <2>1. phase = "ready" /\ phase' = phase /\ op' = op /\ step = "publish" /\ step' = "check"
    BY <1>0, <1>12 DEF Publish, PhaseInv, TypeOK
  <2>2. AbstractCall = Asked(op.order, op.after, "asked")
    BY <1>3, <2>1
  <2>3. AbstractCall' = Asked(op.order, op.after, "done")
    BY <1>4, <2>1
  <2>4. LogicalStore' = Atomic!Applied(Images(op.order, op.after))
    BY <1>12, PublishCommits DEF Publish, Atomic!Applied, Images
  <2> QED BY <1>5, <2>1, <2>2, <2>3, <2>4 DEF Atomic!Next, Atomic!Commit
<1>13. CASE CheckAll
  <2>1. phase \in {"ready", "starting"}
    BY <1>0, <1>13 DEF CheckAll, PhaseInv, TypeOK
  <2> QED BY <1>6, <1>7, <1>8, <1>13, <2>1 DEF CheckAll
<1>14. CASE ApplyOne
  <2>1. phase \in {"ready", "starting"}
    BY <1>0, <1>14 DEF ApplyOne, PhaseInv, TypeOK
  <2>2. CASE Conflict(Current)
    BY <1>6, <1>7, <1>14, <2>1, <2>2 DEF ApplyOne
  <2>3. CASE ~Conflict(Current)
    <3>1. PICK n \in 1..4 : Len(op.order) = n
      BY <1>1, OrderFacts
    <3>2. idx \in 1..Len(op.order)
      BY <1>0, <1>14, <3>1 DEF ApplyOne, TypeOK
    <3>3. LogicalStore' = LogicalStore
      BY <1>14, <2>3, <3>2, WriteIsInvisible DEF ApplyOne
    <3> QED BY <1>8, <1>14, <2>3, <3>3 DEF ApplyOne
  <2> QED BY <2>2, <2>3
<1>15. CASE Unlink
  <2>1. LogicalStore' = LogicalStore
    BY <1>15, UnlinkIsInvisible DEF Unlink
  <2>2. phase \in {"ready", "starting"}
    BY <1>0, <1>15 DEF Unlink, PhaseInv, TypeOK
  <2> QED BY <1>8, <1>15, <2>1, <2>2 DEF Unlink
<1>16. CASE Return
  <2>1. /\ phase = "ready" /\ phase' = phase /\ step = "clear" /\ step' = "idle"
        /\ disk' = disk /\ journal' = journal
    BY <1>0, <1>16 DEF Return, GoIdle, PhaseInv, TypeOK
  <2>2. AbstractCall = Asked(op.order, op.after, "done") /\ AbstractCall' = NoIntent
    BY <1>3, <1>4, <2>1
  <2> QED BY <1>5, <1>6, <2>1, <2>2 DEF Atomic!Next, Atomic!Acknowledge
<1>17. CASE Open
  <2>1. phase = "starting" /\ step # "idle" /\ disk' = disk /\ journal' = journal
    BY <1>0, <1>17 DEF Open, PhaseInv, TypeOK
  <2>2. CASE Block
    BY <1>6, <1>7, <2>1, <2>2
  <2>3. CASE phase' = phase
    BY <1>3, <1>4, <1>6, <2>1, <2>3 DEF Atomic!vars
  <2> QED BY <1>17, <2>2, <2>3 DEF Open
<1>18. CASE Load
  <2>1. phase = "starting" /\ step # "idle" /\ disk' = disk /\ journal' = journal
    BY <1>0, <1>18 DEF Load, PhaseInv, TypeOK
  <2>2. phase' # "down" /\ step' = "idle"
    BY <1>18 DEF Load, Block, GoIdle
  <2> QED BY <1>3, <1>4, <1>6, <2>1, <2>2 DEF Atomic!vars
<1>19. ASSUME NEW o \in Orders, NEW c \in Image, Request(o, c)
       PROVE  Atomic!Next
  <2>1. /\ phase = "ready" /\ phase' = phase /\ step = "idle" /\ step' = "prepare"
        /\ op'.order = o /\ op'.after = c /\ disk' = disk /\ journal' = journal
    BY <1>19 DEF Request
  <2>2. AbstractCall = NoIntent /\ AbstractCall' = Asked(o, c, "asked")
    BY <1>3, <1>4, <2>1
  <2>3. Images(o, c) \in Mutations
    BY DEF Mutations
  <2> QED BY <1>6, <2>1, <2>2, <2>3 DEF Asked, Atomic!Next, Atomic!Ask
<1>20. ASSUME NEW c \in Image, PersistRuns(c)
       PROVE  Atomic!Next
  <2>1. /\ phase = "ready" /\ phase' = phase /\ step = "idle" /\ step' = "idle"
        /\ disk' = [disk EXCEPT !["runs"] = c] /\ journal' = journal
    BY <1>20 DEF PersistRuns, task
  <2>2. journal = NoIntent
    BY <1>0, <2>1 DEF IntentInv
  <2>3. LogicalStore' = [LogicalStore EXCEPT !["runs"] = c]
    BY <2>1, <2>2, MappedStore, <1>0 DEF LogicalStore, Pending, TypeOK
  <2>4. AbstractCall = NoIntent /\ AbstractCall' = NoIntent
    BY <1>3, <1>4, <2>1
  <2>5. "runs" \in FILES /\ c \in Content
    BY DEF FILES, Content
  <2> QED BY <2>1, <2>3, <2>4, <2>5 DEF Atomic!Next, Atomic!Replace
<1>21. CASE IOError
  <2>1. phase \in {"ready", "starting"} /\ step # "idle"
    BY <1>0, <1>21 DEF IOError, PhaseInv, TypeOK
  <2>2. Block
    BY <1>21 DEF IOError
  <2>3. CASE UNCHANGED <<disk, journal>>
    BY <1>6, <1>7, <2>1, <2>2, <2>3
  <2>4. CASE step = "publish" /\ journal' = op /\ UNCHANGED disk
    <3>1. phase = "ready" /\ phase' # "down" /\ step' = "idle" /\ phase' # "ready"
      BY <1>0, <2>1, <2>2, <2>4 DEF Block, GoIdle, PhaseInv
    <3>2. AbstractCall = Asked(op.order, op.after, "asked") /\ AbstractCall' = NoIntent
      BY <1>3, <1>4, <2>4, <3>1
    <3>3. LogicalStore' = Atomic!Applied(Images(op.order, op.after))
      BY <2>4, PublishCommits DEF Atomic!Applied, Images
    <3> QED BY <1>5, <3>1, <3>2, <3>3 DEF Atomic!Next, Atomic!Fail
  <2>5. CASE /\ step = "apply" /\ idx <= Len(op.order) /\ ~Conflict(Current)
             /\ disk' = [disk EXCEPT ![Current] = op.after] /\ UNCHANGED journal
    <3>1. PICK n \in 1..4 : Len(op.order) = n
      BY <1>1, OrderFacts
    <3>2. idx \in 1..Len(op.order)
      BY <1>0, <2>5, <3>1 DEF TypeOK
    <3>3. LogicalStore' = LogicalStore
      BY <2>5, <3>2, WriteIsInvisible
    <3> QED BY <1>7, <2>1, <2>2, <3>3
  <2>6. CASE step = "apply" /\ idx > Len(op.order) /\ journal' = NoIntent /\ UNCHANGED disk
    BY <1>7, <2>1, <2>2, <2>6, UnlinkIsInvisible
  <2> QED BY <1>21, <2>3, <2>4, <2>5, <2>6 DEF IOError
<1>22. CASE Quit \/ Crash
  <2>1. phase # "down" /\ phase' = "down" /\ disk' = disk /\ journal' = journal
    BY <1>22 DEF Quit, Crash
  <2> QED BY <1>4, <1>6, <2>1 DEF Atomic!Next, Atomic!Crash
<1>23. CASE Tamper
  <2>1. phase = "down" /\ phase' = "down"
    BY <1>23 DEF Tamper
  <2>2. LogicalStore' \in [FILES -> Content]
    <3>1. \A f \in FILES : (IF Pending(f) THEN journal.after ELSE disk[f])' \in Content
      BY DEF IInv, TypeOK, Pending, Intent, Content
    <3> QED BY <3>1 DEF LogicalStore
  <2> QED BY <1>3, <1>4, <2>1, <2>2 DEF Atomic!Next, Atomic!Tamper
<1>24. CASE UNCHANGED vars
  BY <1>6, <1>24 DEF vars, Atomic!vars, AbstractCall
<1> QED
  BY <1>9, <1>10, <1>11, <1>12, <1>13, <1>14, <1>15, <1>16, <1>17, <1>18,
     <1>19, <1>20, <1>21, <1>22, <1>23, <1>24 DEF Next, Progress

(* The journal makes a mutation of several files atomic: every behaviour of  *)
(* the coordinator, read through the mapping, is one of AtomicCommit.        *)
THEOREM ImplementsAtomicCommit == Spec => AtomicSpec
BY Invariance, MappedInit, MappedStep, PTL DEF Spec, AtomicSpec, Atomic!Spec
=============================================================================
