------------------------ MODULE WorkDispatch_proofs ------------------------
(***************************************************************************)
(* Proofs about the dispatch and the cancellation of a work task, for any  *)
(* set of requests and any bounds on restarts and faults.  The argument is *)
(* that what an executor's record once says for good it says for ever: a   *)
(* final root stays final, and a tree that is at rest stays at rest, over  *)
(* steps, controls and restarts.  So an answer the coordinator read a      *)
(* while ago is still true when it is written, and a settled target needs  *)
(* no further look.                                                        *)
(***************************************************************************)
EXTENDS WorkDispatch, TLAPS

Status == {"none"} \cup Active \cup Final

Executor == [flow : BOOLEAN, root : Status, asked : BOOLEAN,
             child : {"none", "queued", "running", "paused", "done"}, casked : BOOLEAN,
             tree : {"none", "cancelling", "unknown", "done"},
             err : SUBSET {"root", "child"}]

Shaped(e) ==
  /\ IF e.flow THEN e.root \notin {"cancelling", "interrupted", "failed"}
     ELSE e.root # "paused" /\ e.child = "none" /\ e.tree = "none"
  /\ e.root = "none" => e.child = "none"

\* A fence that is done has a tree at rest.
Quiet(e) == e.tree = "done" => e.root \in Final /\ e.child \in {"none", "done"}

Sound(e) == e \in Executor /\ Shaped(e) /\ Quiet(e)

AtRest(e) == e.root \in Final /\ e.tree \in {"none", "done"}

\* What holds between a record and any later one of the same command.
Later(e, f) == /\ Sound(f) /\ f.flow = e.flow
               /\ (e.root = "none") <=> (f.root = "none")
               /\ e.root \in Final => f.root \in Final

\* The same, and no fence opens again.
Keeps(e, f) == Later(e, f) /\ (AtRest(e) => AtRest(f))

Updates == [state : {"pending", "cancelling", "unknown"} \cup Settled,
            final : {"none"} \cup Final, err : {"none", "unverified", "threw", "other"},
            ask : BOOLEAN]

\* What an answer that is being written says of the executor's record.
Answers(u, e) ==
  /\ u \in Updates
  /\ (u.state \in Settled) <=> (u.final # "none")
  /\ u.final # "none" => AtRest(e) /\ u.err = "none"
  /\ u.state = "cancelling" => u.err = "none"
  /\ u.err \notin {"unverified", "threw"} => e.root # "none"

Types ==
  /\ TypeOK
  /\ \A r \in Request : exec[r].root = "none" => exec[r].child = "none"
  /\ co \in [at : {"idle", "pass", "ask", "fence", "stop", "write"},
             todo : SUBSET Request, r : Request \cup {"none"},
             upd : {NoTarget} \cup Updates]
  /\ ctl \in [Request -> [at : {"idle", "cancel", "resume", "done"}, status : Status]]

\* A command, its receipt, its run and the executor's record.
Command(r) ==
  /\ Quiet(exec[r])
  /\ calls[r] <= 1
  /\ stage[r] \in {"none", "recorded", "cancelled"} => calls[r] = 0
  /\ pc[r] = "start" => calls[r] = 0 /\ stage[r] \notin {"none", "recorded", "cancelled"}
  /\ calls[r] = 0 => exec[r].root = "none"
  /\ pc[r] # "idle" => stage[r] # "none"
  /\ pc[r] = "link" => /\ exec[r].root # "none" /\ seen[r] # "none"
                       /\ seen[r] \in Final => exec[r].root \in Final
  /\ ctl[r].at # "idle" => r \in known
  /\ ctl[r].at = "done" => /\ ctl[r].status # "none"
                           /\ ctl[r].status \in Final => exec[r].root \in Final
  /\ r \in known => exec[r].root # "none"
  /\ (run[r] = "none") <=> (stage[r] = "none")
  /\ run[r] \in Final => stage[r] = "cancelled" \/ (r \in known /\ exec[r].root \in Final)

\* A command and the task's cancellation.
Frozen(r) ==
  /\ stage[r] = "none" => target[r].state = "none"
  /\ stage[r] = "cancelled" => target[r].state \in Settled
  /\ target[r].state \in Settled =>
       stage[r] = "cancelled" \/ (stage[r] = "linked" /\ AtRest(exec[r]))
  /\ cancel # "none" /\ target[r].state = "none" /\ stage[r] # "none" =>
       r \in known /\ exec[r].root \in Final /\ ~exec[r].flow

\* The coordinator works on open targets, with answers that stay true.
Coordinator ==
  /\ co.at # "idle" => cancel # "none"
  /\ \A r \in co.todo : target[r].state \notin {"none"} \cup Settled
  /\ co.at \in {"ask", "fence", "stop", "write"} => co.r \in co.todo
  /\ co.at \in {"ask", "fence", "stop"} => exec[co.r].root # "none"
  /\ co.at = "ask" => ~exec[co.r].flow
  /\ co.at \in {"fence", "stop"} => exec[co.r].flow
  /\ co.at = "write" => Answers(co.upd, exec[co.r])

Requests == \A r \in Request : Command(r) /\ Frozen(r)

IInv == Types /\ CommitsAreSound /\ Requests /\ Coordinator

-----------------------------------------------------------------------------
(* The executors' records.                                                 *)

LEMMA ExecutorFields ==
  ASSUME NEW e \in Executor, NEW f,
         \E root \in Status, asked, casked \in BOOLEAN,
            child \in {"none", "queued", "running", "paused", "done"},
            tree \in {"none", "cancelling", "unknown", "done"},
            err \in SUBSET {"root", "child"} :
              f = [flow |-> e.flow, root |-> root, asked |-> asked, child |-> child,
                   casked |-> casked, tree |-> tree, err |-> err]
  PROVE  f \in Executor
BY DEF Executor

\* What an update of single fields is.
LEMMA Written ==
  ASSUME NEW e \in Executor
  PROVE  /\ e = [flow |-> e.flow, root |-> e.root, asked |-> e.asked, child |-> e.child,
                 casked |-> e.casked, tree |-> e.tree, err |-> e.err]
         /\ e.flow \in BOOLEAN /\ e.root \in Status /\ e.asked \in BOOLEAN
         /\ e.child \in {"none", "queued", "running", "paused", "done"}
         /\ e.casked \in BOOLEAN /\ e.tree \in {"none", "cancelling", "unknown", "done"}
         /\ e.err \in SUBSET {"root", "child"}
BY DEF Executor

\* A fence that is refreshed says what its tree does.
LEMMA Refreshed ==
  ASSUME NEW e \in Executor, Shaped(e), e.flow
  PROVE  /\ Later(e, Refresh(e)) /\ Refresh(e).root = e.root
         /\ Refresh(e).child = e.child /\ Refresh(e).tree # "none"
         /\ e.root \in Final /\ e.child \in {"none", "done"} => Refresh(e).tree = "done"
<1> DEFINE err == e.err \cap Open(e)
           tree == CASE err # {} -> "unknown"
                     [] err = {} /\ Open(e) # {} -> "cancelling"
                     [] OTHER -> "done"
<1>1. Refresh(e) = [e EXCEPT !.err = err, !.tree = tree]
  BY DEF Refresh
<1>2. err \in SUBSET {"root", "child"}
  BY DEF Open
<1>3. tree \in {"cancelling", "unknown", "done"} /\ (tree = "done" <=> Open(e) = {})
  <2>1. CASE err # {}
    BY <2>1
  <2>2. CASE err = {} /\ Open(e) # {}
    BY <2>2
  <2>3. CASE err = {} /\ Open(e) = {}
    BY <2>3
  <2> QED
    BY <2>1, <2>2, <2>3
<1>4. Open(e) = {} <=> e.root \in Final /\ e.child \in {"none", "done"}
  BY DEF Open
<1> HIDE DEF err, tree
<1>5. Refresh(e) = [flow |-> e.flow, root |-> e.root, asked |-> e.asked, child |-> e.child,
                    casked |-> e.casked, tree |-> tree, err |-> err]
  BY <1>1, Written
<1>6. Refresh(e) \in Executor
  BY <1>2, <1>3, <1>5 DEF Executor
<1> QED
  BY <1>3, <1>4, <1>5, <1>6 DEF Later, Sound, Shaped, Quiet

LEMMA SavedKeeps ==
  ASSUME NEW e \in Executor, Sound(e), NEW f \in Executor, Shaped(f), f.flow = e.flow,
         (e.root = "none") <=> (f.root = "none"),
         e.root \in Final => f.root \in Final,
         f.tree = e.tree,
         e.tree = "done" => f.child \in {"none", "done"}
  PROVE  Keeps(e, Saved(f))
<1>1. CASE f.tree = "none"
  BY <1>1 DEF Saved, Keeps, Later, Sound, Quiet, AtRest
<1>2. CASE f.tree # "none"
  <2>1. f.flow
    BY <1>2, Written DEF Shaped
  <2>2. /\ Later(f, Refresh(f)) /\ Refresh(f).root = f.root
        /\ f.root \in Final /\ f.child \in {"none", "done"} => Refresh(f).tree = "done"
    BY <2>1, Refreshed
  <2> QED
    BY <1>2, <2>2 DEF Saved, Keeps, Later, AtRest, Sound
<1> QED
  BY <1>1, <1>2

LEMMA RootSteps ==
  ASSUME NEW e, Sound(e), NEW f \in IF e.flow THEN RootNext(e) ELSE EmployeeNext(e)
  PROVE  Keeps(e, Saved(f))
<1>1. e \in Executor /\ Shaped(e) /\ Quiet(e)
  BY DEF Sound
<1>2. /\ f \in Executor /\ Shaped(f) /\ f.flow = e.flow /\ f.tree = e.tree
      /\ f.child = e.child /\ e.root \notin Final \cup {"none"} /\ f.root # "none"
  <2>1. CASE e.flow
    <3>1. \E s \in {"running", "completed", "paused", "cancelled"} : f = [e EXCEPT !.root = s]
      BY <2>1 DEF RootNext
    <3>2. e.root \in {"queued", "running"}
      BY <2>1 DEF RootNext
    <3> QED
      BY <1>1, <2>1, <3>1, <3>2, Written DEF Executor, Shaped, Status, Active, Final
  <2>2. CASE ~e.flow
    <3>1. e.root \in {"queued", "running", "cancelling"}
      BY <2>2 DEF EmployeeNext
    <3>2. f = [e EXCEPT !.asked = FALSE]
          \/ \E s \in {"running", "interrupted"} \cup Final : f = [e EXCEPT !.root = s]
      BY <2>2 DEF EmployeeNext, Final
    <3> QED
      BY <1>1, <2>2, <3>1, <3>2, Written DEF Executor, Shaped, Status, Active, Final
  <2> QED
    BY <2>1, <2>2
<1>3. e.tree = "done" => f.child \in {"none", "done"}
  BY <1>1, <1>2 DEF Quiet
<1> QED
  BY <1>1, <1>2, <1>3, SavedKeeps

LEMMA ChildSteps ==
  ASSUME NEW e, Sound(e), e.flow, NEW f \in ChildNext(e)
  PROVE  Keeps(e, Saved(f))
<1>1. e \in Executor /\ Shaped(e) /\ Quiet(e)
  BY DEF Sound
<1>2. /\ \E s \in {"queued", "running", "done", "paused"} : f = [e EXCEPT !.child = s]
      /\ e.tree = "none" \/ e.child = "running"
      /\ e.root = "running" \/ e.child # "none"
  BY DEF ChildNext
<1>0. e.root # "none"
  BY <1>1, <1>2 DEF Shaped
<1>3. f \in Executor /\ Shaped(f) /\ f.flow = e.flow /\ f.tree = e.tree /\ f.root = e.root
  BY <1>0, <1>1, <1>2, Written DEF Executor, Shaped
<1>4. e.tree # "done"
  BY <1>1, <1>2 DEF Quiet
<1> QED
  BY <1>1, <1>3, <1>4, SavedKeeps

\* Asking the root, or the child, of a workflow to stop.
LEMMA Stops ==
  ASSUME NEW e \in Executor, Shaped(e), e.flow, NEW recoverable \in BOOLEAN
  PROVE  /\ \A f \in {StopChild(e), StopRoot(e, recoverable)} :
              /\ f \in Executor /\ Shaped(f) /\ f.flow /\ f.tree = e.tree /\ f.err = e.err
              /\ (e.root = "none") <=> (f.root = "none")
              /\ e.root \in Final => f = e \/ f.root = e.root
         /\ StopChild(e).root = e.root /\ StopRoot(e, recoverable).child = e.child
         /\ e.child \in {"none", "done"} => StopChild(e) = e
         /\ e.root \in Final => StopRoot(e, recoverable) = e
<1>1. StopChild(e) = e \/ StopChild(e) = [e EXCEPT !.casked = TRUE]
      \/ StopChild(e) = [e EXCEPT !.child = "done"]
  BY DEF StopChild
<1>3. e.child \in {"none", "done"} => StopChild(e) = e
  BY DEF StopChild
<1>0. e.root = "none" => StopChild(e) = e
  BY <1>3 DEF Shaped
<1>2. /\ StopChild(e) \in Executor /\ Shaped(StopChild(e)) /\ StopChild(e).flow
      /\ StopChild(e).root = e.root /\ StopChild(e).tree = e.tree
      /\ StopChild(e).err = e.err
  BY <1>0, <1>1, Written DEF Executor, Shaped
<1> DEFINE g == StopRoot(e, recoverable)
<1>4. g = e \/ (e.root = "running" /\ g = [e EXCEPT !.asked = TRUE])
      \/ (e.root \in {"queued", "paused"} /\ g = [e EXCEPT !.root = "cancelled", !.asked = TRUE])
  BY DEF StopRoot
<1>5. e.root \in Final => g = e
  BY <1>4 DEF Final
<1> HIDE DEF g
<1>7. /\ g \in Executor /\ g.flow
      /\ g.child = e.child /\ g.tree = e.tree /\ g.err = e.err
      /\ (e.root = "none") <=> (g.root = "none")
      /\ g.root \in {e.root, "cancelled"}
  BY <1>4, Written DEF Executor, Status, Active, Final
<1>6. /\ g \in Executor /\ Shaped(g) /\ g.flow
      /\ g.child = e.child /\ g.tree = e.tree /\ g.err = e.err
      /\ (e.root = "none") <=> (g.root = "none")
  BY <1>7 DEF Shaped
<1> QED
  BY <1>2, <1>3, <1>5, <1>6 DEF g

LEMMA EmployeeCancels ==
  ASSUME NEW e, Sound(e), ~e.flow, NEW f \in EmployeeCancelled(e)
  PROVE  Keeps(e, f)
<1>1. e \in Executor /\ Shaped(e) /\ Quiet(e)
  BY DEF Sound
<1>2. \/ f = e
      \/ e.root = "queued" /\ f = [e EXCEPT !.root = "cancelled"]
      \/ /\ e.root = "running"
         /\ \E a \in BOOLEAN : f = [e EXCEPT !.root = "cancelling", !.asked = a]
  BY DEF EmployeeCancelled
<1>3. /\ f \in Executor /\ Shaped(f) /\ f.flow = e.flow /\ f.tree = "none"
      /\ (e.root = "none") <=> (f.root = "none")
      /\ e.root \in Final => f = e
  BY <1>1, <1>2, Written DEF Executor, Shaped, Status, Active, Final
<1> QED
  BY <1>1, <1>3 DEF Keeps, Later, Sound, Quiet, AtRest

\* A start of the process.
LEMMA RecoveredKeeps ==
  ASSUME NEW e, Sound(e), NEW f \in Recovered(e)
  PROVE  Keeps(e, f)
<1>1. e \in Executor /\ Shaped(e) /\ Quiet(e)
  BY DEF Sound
<1>2. CASE ~e.flow
  BY <1>1, <1>2 DEF Recovered, Keeps, Later, Sound
<1>3. CASE e.flow
  <2> DEFINE back == {[e EXCEPT !.root = s[1], !.child = s[2]] :
                        s \in Requeued(e.root, e.asked, "cancelled")
                                \X Requeued(e.child, e.casked, "done")}
  <2>1. f \in IF e.tree = "none" THEN back ELSE {Fenced(Refresh(g)) : g \in back}
    BY <1>3 DEF Recovered
  <2> HIDE DEF back
  <2>2. ASSUME NEW g \in back
        PROVE  /\ g \in Executor /\ Shaped(g) /\ g.flow /\ g.tree = e.tree
               /\ (e.root = "none") <=> (g.root = "none")
               /\ e.root \in Final => g.root = e.root
               /\ e.child \in {"none", "done"} => g.child = e.child
    <3>1. PICK s \in Requeued(e.root, e.asked, "cancelled"),
               c \in Requeued(e.child, e.casked, "done") :
                 g = [e EXCEPT !.root = s, !.child = c]
      BY <2>2 DEF back
    <3>2. \/ s = e.root
          \/ e.root = "running" /\ s \in {"paused", "cancelled", "queued"}
      BY <3>1 DEF Requeued
    <3>3. \/ c = e.child
          \/ e.child = "running" /\ c \in {"paused", "done", "queued"}
      BY <3>1 DEF Requeued
    <3> QED
      BY ONLY <1>1, <1>3, <3>1, <3>2, <3>3, Written DEF Executor, Shaped, Status, Active, Final
  <2>3. CASE e.tree = "none"
    BY <1>3, <2>1, <2>2, <2>3 DEF Keeps, Later, Sound, Quiet, AtRest
  <2>4. CASE e.tree # "none"
    <3>1. PICK g \in back : f = Fenced(Refresh(g))
      BY <2>1, <2>4
    <3> DEFINE h == Refresh(g)
               f1 == IF "child" \in h.err THEN h ELSE StopChild(h)
               f2 == IF "root" \in h.err THEN f1 ELSE StopRoot(f1, TRUE)
    <3>2. f = Refresh(f2)
      BY <3>1 DEF Fenced
    <3>3. /\ h \in Executor /\ Shaped(h) /\ h.flow /\ h.root = g.root /\ h.child = g.child
      BY <2>2, Refreshed DEF Later, Sound
    <3> HIDE DEF h
    <3>4. /\ f1 \in Executor /\ Shaped(f1) /\ f1.flow /\ f1.root = h.root
          /\ h.child \in {"none", "done"} => f1 = h
      BY <3>3, Stops
    <3> HIDE DEF f1
    <3>5. /\ f2 \in Executor /\ Shaped(f2) /\ f2.flow
          /\ (f1.root = "none") <=> (f2.root = "none")
          /\ f1.root \in Final => f2 = f1
      BY <3>4, Stops
    <3> HIDE DEF f2
    <3>6. /\ Later(f2, Refresh(f2)) /\ Refresh(f2).root = f2.root
          /\ f2.root \in Final /\ f2.child \in {"none", "done"} => Refresh(f2).tree = "done"
      BY <3>5, Refreshed
    <3>7. Later(e, f)
      BY <1>3, <2>2, <3>2, <3>3, <3>4, <3>5, <3>6 DEF Later
    <3>8. AtRest(e) => AtRest(f)
      <4>1. AtRest(e) => e.tree = "done"
        BY <2>4 DEF AtRest
      <4>2. AtRest(e) => e.root \in Final /\ e.child \in {"none", "done"}
        BY <1>1, <4>1 DEF Quiet
      <4>3. AtRest(e) => f2.root \in Final /\ f2.child \in {"none", "done"}
        BY <4>2, <2>2, <3>3, <3>4, <3>5
      <4> QED
        BY <4>3, <3>2, <3>6 DEF AtRest
    <3> QED
      BY <3>7, <3>8 DEF Keeps
  <2> QED
    BY <2>3, <2>4
<1> QED
  BY <1>1, <1>2, <1>3, Written

\* A tree that is asked to stop, whatever targets cannot be asked.
LEMMA TreeStops ==
  ASSUME NEW e, Sound(e), e.flow, NEW asked, NEW bad \in SUBSET Open(e)
  PROVE  Later(e, StopTree(e, asked, bad))
<1> DEFINE e1 == IF "child" \in asked \ (bad \cup e.err) THEN StopChild(e) ELSE e
           e2 == IF "root" \in asked \ (bad \cup e.err) THEN StopRoot(e1, TRUE) ELSE e1
           e3 == [e2 EXCEPT !.err = @ \cup bad]
<1>1. e \in Executor /\ Shaped(e) /\ bad \subseteq {"root", "child"}
  BY DEF Sound, Open
<1>2. e1 \in Executor /\ Shaped(e1) /\ e1.flow /\ e1.root = e.root
  BY <1>1, Stops
<1> HIDE DEF e1
<1>3. /\ e2 \in Executor /\ Shaped(e2) /\ e2.flow
      /\ (e1.root = "none") <=> (e2.root = "none")
      /\ e1.root \in Final => e2 = e1
  BY <1>2, Stops
<1> HIDE DEF e2
<1>4. e3 \in Executor /\ Shaped(e3) /\ e3.flow /\ e3.root = e2.root
  BY <1>1, <1>3, Written DEF Executor, Shaped
<1> HIDE DEF e3
<1>5. Later(e3, Refresh(e3)) /\ Refresh(e3).root = e3.root
  BY <1>4, Refreshed
<1>6. Later(e, Refresh(e3))
  BY <1>2, <1>3, <1>4, <1>5 DEF Later
<1> QED
  BY <1>6 DEF e1, e2, e3, StopTree

\* The answers there are, but for one whose run was not found.
LEMMA AnswersAre ==
  ASSUME NEW e, e.root # "none"
  PROVE  /\ Answers(Unknown, e)
         /\ Answers(Outcome("cancelling", "none", "none"), e)
         /\ Answers(Free, e)
         /\ AtRest(e) => /\ Answers(Outcome("cancelled", "cancelled", "none"), e)
                         /\ \A s \in {"completed", "failed"} :
                              Answers(Outcome("settled", s, "none"), e)
<1>1. Answers(Unknown, e) /\ Answers(Outcome("cancelling", "none", "none"), e)
  BY DEF Unknown, Outcome, Answers, Updates, Settled
<1>2. Answers(Free, e)
  BY DEF Free, Answers, Updates, Settled
<1>4. AtRest(e) => Answers(Outcome("cancelled", "cancelled", "none"), e)
  BY DEF Outcome, Answers, Updates, Settled, Final
<1>5. ASSUME AtRest(e), NEW s \in {"completed", "failed"}
      PROVE  Answers(Outcome("settled", s, "none"), e)
  BY <1>5 DEF Outcome, Answers, Updates, Settled, Final
<1> QED
  BY <1>1, <1>2, <1>4, <1>5

\* What is concluded from a record that was found.
LEMMA DecisionAnswers ==
  ASSUME NEW e, Sound(e), e.root # "none"
  PROVE  /\ e.flow => Answers(WorkflowDecision(e), e)
         /\ ~e.flow => Answers(EmployeeDecision(e), e)
<1>1. e \in Executor /\ Shaped(e) /\ Quiet(e)
  BY DEF Sound
<1>2. CASE e.flow
  <2> DEFINE d == WorkflowDecision(e)
  <2>1. \/ d = Unknown
        \/ d = Outcome("cancelling", "none", "none")
        \/ d = Free
        \/ /\ e.root = "cancelled" /\ e.tree \in {"none", "done"}
           /\ d = Outcome("cancelled", "cancelled", "none")
        \/ /\ e.root = "completed" /\ e.tree \in {"none", "done"}
           /\ d = Outcome("settled", "completed", "none")
    BY DEF WorkflowDecision
  <2> HIDE DEF d
  <2>2. Answers(d, e)
    BY <2>1, AnswersAre DEF Final, AtRest
  <2> QED
    BY <1>2, <2>2 DEF d
<1>3. CASE ~e.flow
  <2> DEFINE d == EmployeeDecision(e)
  <2>1. \/ d = Unknown
        \/ d = Outcome("cancelling", "none", "none")
        \/ d = Free
        \/ e.root = "cancelled" /\ d = Outcome("cancelled", "cancelled", "none")
        \/ /\ e.root \in {"completed", "failed"}
           /\ d = Outcome("settled", e.root, "none")
    BY DEF EmployeeDecision
  <2>2. e.tree = "none"
    BY <1>1, <1>3 DEF Shaped
  <2> HIDE DEF d
  <2>3. Answers(d, e)
    BY <2>1, <2>2, AnswersAre DEF Final, AtRest
  <2> QED
    BY <1>3, <2>3 DEF d
<1> QED
  BY <1>1, <1>2, <1>3, Written

\* An answer stays true as the record moves on, and over the aggregate.
LEMMA AnswersStay ==
  ASSUME NEW e, NEW f, NEW u, Answers(u, e), Keeps(e, f)
  PROVE  Answers(u, f)
BY DEF Answers, Keeps, Later

LEMMA SameAggregate ==
  ASSUME NEW s, NEW t, \A r \in Request : s[r].state = t[r].state
  PROVE  Aggregate(s) = Aggregate(t)
BY DEF Aggregate

LEMMA AggregateOf ==
  ASSUME NEW t,
         \A r \in Request : t[r].state \in {"none", "pending", "cancelling", "unknown"} \cup Settled
  PROVE  /\ Aggregate(t) \in {"cancelling", "unknown", "cancelled"}
         /\ Aggregate(t) = "cancelled"
              <=> \A r \in Request : t[r].state \in {"none"} \cup Settled
BY DEF Aggregate, Settled

-----------------------------------------------------------------------------
(* The initial state.                                                      *)

LEMMA Initially == Init => IInv
<1> SUFFICES ASSUME Init PROVE IInv
  OBVIOUS
<1>1. exec \in [Request -> {NoExec, [NoExec EXCEPT !.flow = TRUE]}]
  BY DEF Init
<1>2. \A r \in Request : Sound(exec[r]) /\ exec[r].root = "none" /\ exec[r] \in Executor
  <2>1. NoExec \in Executor /\ NoExec.root = "none" /\ NoExec.tree = "none" /\ NoExec.child = "none"
        /\ ~NoExec.flow
    BY DEF NoExec, Executor, Status
  <2>2. ASSUME NEW e, e = [NoExec EXCEPT !.flow = TRUE]
        PROVE  e \in Executor /\ e.root = "none" /\ e.tree = "none" /\ e.child = "none" /\ e.flow
    BY <2>1, <2>2 DEF Executor
  <2> QED
    BY <1>1, <2>1, <2>2 DEF Sound, Shaped, Quiet
<1>3. TypeOK
  <2>1. exec \in [Request -> Executor]
    BY <1>1, <1>2
  <2>2. \A r \in Request : Shaped(exec[r])
    BY <1>2 DEF Sound
  <2>3. target \in [Request ->
          [state : {"none", "pending", "cancelling", "unknown"} \cup Settled,
           known : BOOLEAN, final : {"none"} \cup Final,
           err : {"none", "unverified", "threw", "other"}]]
    BY DEF Init, NoTarget
  <2>4. ctl \in [Request -> [at : {"idle", "cancel", "resume", "done"}, status : Status]]
    BY DEF Init, NoCtl, Status
  <2>5. restarts \in 0..MaxRestarts /\ faults \in 0..MaxFaults
    BY BoundsAssumption DEF Init
  <2>6. co.at = "idle" /\ co.todo = {} /\ co.r = "none"
    BY DEF Init, Rest
  <2> QED
    BY <2>1, <2>2, <2>3, <2>4, <2>5, <2>6 DEF Init, TypeOK, Executor, Shaped, Status, NoCtl
<1>4. Types
  BY <1>2, <1>3 DEF Init, Types, Rest, NoCtl, Status, Sound, Shaped
<1>5. CommitsAreSound
  BY DEF Init, CommitsAreSound, NoTarget, Settled
<1>6. Requests
  <2>1. ASSUME NEW r \in Request PROVE Command(r)
    BY <1>2 DEF Init, Command, NoCtl, Final, Sound
  <2>2. ASSUME NEW r \in Request PROVE Frozen(r)
    BY DEF Init, Frozen, NoTarget, Settled
  <2> QED
    BY <2>1, <2>2 DEF Requests
<1>7. Coordinator
  BY DEF Init, Coordinator, Rest
<1> QED
  BY <1>4, <1>5, <1>6, <1>7 DEF IInv

-----------------------------------------------------------------------------
(* The steps.                                                              *)

LEMMA Records ==
  ASSUME IInv
  PROVE  exec \in [Request -> Executor] /\ \A r \in Request : Sound(exec[r])
<1>1. exec \in [Request -> Executor] /\ \A r \in Request : Shaped(exec[r])
  BY DEF IInv, Types, TypeOK, Executor, Status, Shaped
<1>2. \A r \in Request : Quiet(exec[r])
  BY DEF IInv, Requests, Command
<1> QED
  BY <1>1, <1>2 DEF Sound

\* The coordinator is at the record of a command, and has not answered yet.
At(r) == co.at \in {"fence", "stop"} /\ r = co.r

\* What a step may do to the executors' records.
Moves ==
  /\ exec' \in [Request -> Executor]
  /\ \A r \in Request :
       \/ Keeps(exec[r], exec'[r])
       \/ At(r) /\ Later(exec[r], exec'[r])
       \/ /\ Start(r) /\ exec[r].root = "none" /\ exec'[r].root = "queued"
          /\ Sound(exec'[r]) /\ exec'[r].flow = exec[r].flow

LEMMA KeepsSame == ASSUME NEW e, Sound(e) PROVE Keeps(e, e)
BY DEF Keeps, Later

LEMMA OneMoves ==
  ASSUME IInv, NEW r \in Request, NEW e, exec' = [exec EXCEPT ![r] = e],
         Keeps(exec[r], e) \/ (At(r) /\ Later(exec[r], e))
  PROVE  Moves
<1>1. e \in Executor
  BY DEF Keeps, Later, Sound
<1> QED
  BY <1>1, Records, KeepsSame DEF Moves

LEMMA ExecMoves == ASSUME IInv, [Next]_vars PROVE Moves
<1> USE Records
<1>0. ASSUME UNCHANGED exec PROVE Moves
  BY <1>0, KeepsSame DEF Moves
<1>1. ASSUME NEW r \in Request, RootRuns(r) PROVE Moves
  BY <1>1, RootSteps, OneMoves DEF RootRuns
<1>2. ASSUME NEW r \in Request, ChildRuns(r) PROVE Moves
  BY <1>2, ChildSteps, OneMoves DEF ChildRuns
<1>3. ASSUME NEW r \in Request, LeaseLost(r) PROVE Moves
  <2>1. PICK s \in {"paused", "cancelled", "queued"} : exec' = [exec EXCEPT ![r].root = s]
    BY <1>3 DEF LeaseLost
  <2>2. exec[r].root = "running" /\ exec[r].flow
    BY <1>3 DEF LeaseLost
  <2> DEFINE e == [exec[r] EXCEPT !.root = s]
  <2>3. exec' = [exec EXCEPT ![r] = e]
    BY <2>1
  <2>4. e \in Executor /\ Shaped(e) /\ e.flow /\ e.tree = exec[r].tree /\ e.root = s
    BY <2>2, Written DEF Executor, Shaped, Status, Active, Final
  <2> HIDE DEF e
  <2>5. exec[r].tree # "done" /\ ~AtRest(exec[r])
    BY <2>2 DEF Sound, Quiet, AtRest, Final
  <2>6. Keeps(exec[r], e)
    BY <2>2, <2>4, <2>5 DEF Keeps, Later, Sound, Quiet, Final
  <2> QED
    BY <2>3, <2>6, OneMoves
<1>4. ASSUME NEW r \in Request, Start(r) PROVE Moves
  <2>1. CASE exec' = [exec EXCEPT ![r].root = IF @ = "none" THEN "queued" ELSE @]
    <3> DEFINE e == [exec[r] EXCEPT !.root = IF @ = "none" THEN "queued" ELSE @]
    <3>1. exec' = [exec EXCEPT ![r] = e]
      BY <2>1
    <3>2. CASE exec[r].root # "none"
      <4>1. e = exec[r]
        BY <3>2, Written DEF Executor
      <4> QED
        BY <3>1, <4>1, KeepsSame, OneMoves
    <3>3. CASE exec[r].root = "none"
      <4>1. e \in Executor /\ e.root = "queued" /\ e.flow = exec[r].flow /\ Shaped(e)
            /\ e.tree = exec[r].tree
        BY <3>3, Written DEF Executor, Shaped, Status, Active, Final, Sound
      <4> HIDE DEF e
      <4>2. exec[r].tree # "done"
        BY <3>3 DEF Sound, Quiet, Final
      <4>3. Sound(e)
        BY <4>1, <4>2 DEF Sound, Quiet
      <4> QED
        BY <1>4, <3>1, <3>3, <4>1, <4>3, KeepsSame DEF Moves
    <3> QED
      BY <3>2, <3>3
  <2> QED
    BY <1>4, <2>1, <1>0 DEF Start
<1>5. ASSUME NEW r \in Request, ActControl(r) PROVE Moves
  <2>1. PICK e \in IF ctl[r].at = "resume"
                   THEN {[exec[r] EXCEPT !.root = IF @ = "paused" THEN "queued" ELSE @]}
                   ELSE IF exec[r].flow THEN {StopRoot(exec[r], FALSE)}
                   ELSE EmployeeCancelled(exec[r]) :
          exec' = [exec EXCEPT ![r] = e]
    BY <1>5 DEF ActControl
  <2>2. CASE ctl[r].at = "resume"
    <3>1. e = [exec[r] EXCEPT !.root = IF @ = "paused" THEN "queued" ELSE @]
      BY <2>1, <2>2
    <3>2. CASE exec[r].root # "paused"
      <4>1. e = exec[r]
        BY <3>1, <3>2, Written DEF Executor
      <4> QED
        BY <2>1, <4>1, KeepsSame, OneMoves
    <3>3. CASE exec[r].root = "paused"
      <4>1. /\ e \in Executor /\ e.root = "queued" /\ e.flow = exec[r].flow /\ Shaped(e)
            /\ e.tree = exec[r].tree
        BY <3>1, <3>3, Written DEF Executor, Shaped, Status, Active, Final, Sound
      <4>2. exec[r].tree # "done" /\ ~AtRest(exec[r])
        BY <3>3 DEF Sound, Quiet, AtRest, Final
      <4>3. Keeps(exec[r], e)
        BY <3>3, <4>1, <4>2 DEF Keeps, Later, Sound, Quiet, Final
      <4> QED
        BY <2>1, <4>3, OneMoves
    <3> QED
      BY <3>2, <3>3
  <2>3. CASE ctl[r].at # "resume" /\ exec[r].flow
    <3>1. e = StopRoot(exec[r], FALSE)
      BY <2>1, <2>3
    <3>2. /\ e \in Executor /\ Shaped(e) /\ e.flow /\ e.tree = exec[r].tree
          /\ (exec[r].root = "none") <=> (e.root = "none")
          /\ exec[r].root \in Final => e = exec[r]
      BY <2>3, <3>1, Stops DEF Sound
    <3>3. exec[r].tree = "done" => e = exec[r]
      BY <3>2 DEF Sound, Quiet
    <3>4. Keeps(exec[r], e)
      BY <2>3, <3>2, <3>3 DEF Keeps, Later, Sound, Quiet, AtRest
    <3> QED
      BY <2>1, <3>4, OneMoves
  <2>4. CASE ctl[r].at # "resume" /\ ~exec[r].flow
    BY <2>1, <2>4, EmployeeCancels, OneMoves
  <2> QED
    BY <2>2, <2>3, <2>4, Written
<1>6. ASSUME AskEmployee PROVE Moves
  <2>1. co.r \in Request /\ ~exec[co.r].flow
    BY <1>6 DEF AskEmployee, IInv, Coordinator, Types, TypeOK
  <2> QED
    BY <1>0, <1>6, <2>1, EmployeeCancels, OneMoves DEF AskEmployee
<1>7. ASSUME Fence PROVE Moves
  <2>1. co.r \in Request /\ exec[co.r].flow /\ At(co.r)
    BY <1>7 DEF Fence, IInv, Coordinator, Types, TypeOK, At
  <2>2. Later(exec[co.r], Refresh(exec[co.r]))
    BY <2>1, Refreshed DEF Sound
  <2>3. CASE exec' = [exec EXCEPT ![co.r] = Refresh(@)]
    BY <2>1, <2>2, <2>3, OneMoves
  <2> QED
    BY <1>0, <1>7, <2>3 DEF Fence
<1>8. ASSUME Stop PROVE Moves
  <2>1. co.r \in Request /\ exec[co.r].flow /\ At(co.r)
    BY <1>8 DEF Stop, IInv, Coordinator, Types, TypeOK, At
  <2>2. PICK bad \in SUBSET Open(exec[co.r]) :
          exec' = [exec EXCEPT ![co.r] = StopTree(exec[co.r], {"child", "root"}, bad)]
    BY <1>8 DEF Stop
  <2>3. Later(exec[co.r], StopTree(exec[co.r], {"child", "root"}, bad))
    BY <2>1, TreeStops
  <2> QED
    BY <2>1, <2>2, <2>3, OneMoves
<1>12. ASSUME StopThrows PROVE Moves
  <2>1. co.r \in Request /\ exec[co.r].flow /\ At(co.r)
    BY <1>12 DEF StopThrows, IInv, Coordinator, Types, TypeOK, At
  <2>2. CASE UNCHANGED exec
    BY <1>0, <2>2
  <2>3. CASE exec' # exec
    <3>1. PICK asked \in {{}, {"child"}, {"child", "root"}} :
            \E bad \in SUBSET (asked \cap Open(exec[co.r])) :
              exec' = [exec EXCEPT ![co.r] = StopTree(exec[co.r], asked, bad)]
      BY <1>12, <2>3 DEF StopThrows
    <3>2. PICK bad \in SUBSET (asked \cap Open(exec[co.r])) :
              exec' = [exec EXCEPT ![co.r] = StopTree(exec[co.r], asked, bad)]
      BY <3>1
    <3>3. Later(exec[co.r], StopTree(exec[co.r], asked, bad))
      BY <2>1, TreeStops
    <3> QED
      BY <2>1, <3>2, <3>3, OneMoves
  <2> QED
    BY <2>2, <2>3
<1>9. ASSUME Restart PROVE Moves
  <2>1. \A r \in Request : Keeps(exec[r], exec'[r])
    BY <1>9, RecoveredKeeps DEF Restart
  <2>2. \E X : exec' \in [Request -> X]
    BY <1>9 DEF Restart
  <2> QED
    BY <2>1, <2>2 DEF Moves, Keeps, Later, Sound
<1>10. ASSUME NEW r \in Request,
              Execute(r) \/ Claim(r) \/ Find(r) \/ Link(r) \/ Fail(r) \/ Observe(r)
                \/ AskControl(r) \/ EndControl(r) \/ Look(r) \/ LookThrows(r)
       PROVE  UNCHANGED exec
  BY <1>10 DEF Execute, Claim, Find, Link, Fail, Observe, AskControl, EndControl, Look, LookThrows
<1>11. ASSUME BeginCancel \/ Reconcile \/ Write \/ PassDone \/ UNCHANGED vars
       PROVE  UNCHANGED exec
  BY <1>11 DEF BeginCancel, Reconcile, Write, PassDone, vars
<1> QED
  BY <1>0, <1>1, <1>2, <1>3, <1>4, <1>5, <1>6, <1>7, <1>8, <1>9, <1>10, <1>11, <1>12
     DEF Next, Dispatch, Pass

\* The types of all but the executors' records.
Targets == [state : {"none", "pending", "cancelling", "unknown"} \cup Settled,
            known : BOOLEAN, final : {"none"} \cup Final,
            err : {"none", "unverified", "threw", "other"}]

Store ==
  /\ stage \in [Request -> {"none", "recorded", "dispatching", "linked",
                            "outcome-unknown", "cancelled"}]
  /\ run \in [Request -> Status]
  /\ known \subseteq Request /\ news \subseteq Request
  /\ target \in [Request -> Targets]
  /\ cancel \in {"none", "requested", "cancelling", "unknown", "cancelled"}
  /\ task \in {"open", "active", "cancelled"}

Process ==
  /\ calls \in [Request -> Nat]
  /\ pc \in [Request -> {"idle", "claim", "start", "find", "link", "fail"}]
  /\ seen \in [Request -> Status]
  /\ wake \in BOOLEAN
  /\ ctl \in [Request -> [at : {"idle", "cancel", "resume", "done"}, status : Status]]
  /\ restarts \in 0..MaxRestarts /\ faults \in 0..MaxFaults

Working ==
  co \in [at : {"idle", "pass", "ask", "fence", "stop", "write"},
          todo : SUBSET Request, r : Request \cup {"none"}, upd : {NoTarget} \cup Updates]

LEMMA TypesAre ==
  Types <=> /\ Store /\ Process /\ Working
            /\ exec \in [Request -> Executor] /\ \A r \in Request : Shaped(exec[r])
<1>1. Types => Store /\ Process /\ Working
  BY DEF Types, TypeOK, Store, Process, Working, Status, Targets
<1>2. Types => exec \in [Request -> Executor] /\ \A r \in Request : Shaped(exec[r])
  BY DEF Types, TypeOK, Executor, Shaped, Status
<1>3. ASSUME Store, Process, Working, exec \in [Request -> Executor],
             \A r \in Request : Shaped(exec[r])
      PROVE  Types
  <2>1. ctl \in [Request -> [at : {"idle", "cancel", "resume", "done"}, status : Status]]
    BY <1>3 DEF Process
  <2>2. \A r \in Request : /\ ctl[r].at \in {"idle", "cancel", "resume", "done"}
                           /\ ctl[r].status \in {"none"} \cup Active \cup Final
    BY <2>1 DEF Status
  <2>3. /\ co.at \in {"idle", "pass", "ask", "fence", "stop", "write"}
        /\ co.todo \subseteq Request /\ co.r \in Request \cup {"none"}
    BY <1>3 DEF Working
  <2>4. TypeOK
    BY <1>3, <2>2, <2>3 DEF TypeOK, Store, Process, Executor, Shaped, Status, Targets
  <2> QED
    BY <1>3, <2>1, <2>4 DEF Types, Working, Shaped
<1> QED
  BY <1>1, <1>2, <1>3

LEMMA StoreStep == ASSUME IInv, [Next]_vars PROVE Store'
<1>1. Store /\ Process /\ Working
  BY TypesAre DEF IInv
<1>0. ASSUME UNCHANGED <<store, news>> PROVE Store'
  BY <1>0, <1>1 DEF Store, store
<1>2. ASSUME NEW r \in Request, Execute(r) PROVE Store'
  BY <1>1, <1>2 DEF Store, Execute, Announce, Status, Active
<1>3. ASSUME NEW r \in Request, Claim(r) PROVE Store'
  BY <1>1, <1>3 DEF Store, Claim, Announce
<1>4. ASSUME NEW r \in Request, Start(r) PROVE Store'
  BY <1>1, <1>4 DEF Store, Start, store
<1>5. ASSUME NEW r \in Request, Link(r) PROVE Store'
  <2>1. target' = target \/ \E b \in BOOLEAN : target' = [target EXCEPT ![r].known = b]
    BY <1>5 DEF Link
  <2>2. target' \in [Request -> Targets]
    BY <1>1, <2>1 DEF Store, Targets
  <2>3. seen[r] \in Status
    BY <1>1 DEF Process
  <2>4. /\ stage' = stage \/ stage' = [stage EXCEPT ![r] = "linked"]
        /\ run' = run \/ run' = [run EXCEPT ![r] = seen[r]]
        /\ known' = known \/ known' = known \cup {r}
        /\ news' = news \/ news' = news \cup known' \/ news' = news \cup {}
        /\ cancel' = cancel /\ task' = task
    BY <1>5 DEF Link, Announce
  <2> QED
    BY <1>1, <2>2, <2>3, <2>4 DEF Store
<1>6. ASSUME NEW r \in Request, Fail(r) PROVE Store'
  BY <1>1, <1>6 DEF Store, Fail, Announce, Status, Active
<1>7. ASSUME NEW r \in Request, Observe(r) PROVE Store'
  <2>1. exec[r].root \in Status
    BY Records DEF Executor
  <2> QED
    BY <1>1, <1>7, <2>1 DEF Store, Observe
<1>8. ASSUME NEW r \in Request, EndControl(r) PROVE Store'
  <2>1. ctl[r].status \in Status
    BY <1>1 DEF Process
  <2> QED
    BY <1>1, <1>8, <2>1 DEF Store, EndControl, Announce
<1>9. ASSUME BeginCancel PROVE Store'
  <2>0. \A b \in BOOLEAN : /\ NoTarget \in Targets
                           /\ [NoTarget EXCEPT !.state = "pending", !.known = b] \in Targets
                           /\ [state |-> "cancelled", known |-> FALSE,
                               final |-> "cancelled", err |-> "none"] \in Targets
    <3>1. NoTarget \in Targets
      BY DEF NoTarget, Targets
    <3> QED
      BY <3>1 DEF Targets, Settled, Final
  <2>1. target' \in [Request -> Targets]
    <3> DEFINE frozen == {r \in Request : stage[r] # "none" /\ (run[r] \in Active \/ exec[r].flow)}
               early == {r \in frozen : stage[r] = "recorded"}
               t(r) == IF r \notin frozen THEN NoTarget
                ELSE IF r \in early THEN [state |-> "cancelled", known |-> FALSE,
                                          final |-> "cancelled", err |-> "none"]
                ELSE [NoTarget EXCEPT !.state = "pending", !.known = r \in known]
    <3>1. target' = [r \in Request |-> t(r)]
      BY <1>9 DEF BeginCancel
    <3>2. ASSUME NEW r \in Request PROVE t(r) \in Targets
      <4> HIDE DEF frozen, early
      <4>1. (r \in known) \in BOOLEAN
        OBVIOUS
      <4> QED
        BY <2>0, <4>1
    <3> HIDE DEF t
    <3> QED
      BY <3>1, <3>2
  <2>2. \A r \in Request :
          target'[r].state \in {"none", "pending", "cancelling", "unknown"} \cup Settled
    BY <2>1 DEF Targets
  <2>3. cancel' \in {"cancelled", "requested"} \cup {Aggregate(target')}
    BY <1>9 DEF BeginCancel
  <2>4. run' \in [Request -> Status] /\ stage' \in [Request -> {"none", "recorded",
          "dispatching", "linked", "outcome-unknown", "cancelled"}]
    BY <1>1, <1>9 DEF BeginCancel, Store, Status, Final
  <2>5. task' \in {task, "cancelled"} /\ UNCHANGED <<known, news>>
    BY <1>9 DEF BeginCancel
  <2> QED
    BY <1>1, <2>1, <2>2, <2>3, <2>4, <2>5, AggregateOf DEF Store
<1>10. ASSUME Write PROVE Store'
  <2>1. co.r \in Request /\ co.upd \in Updates
    BY <1>1, <1>10 DEF Write, IInv, Coordinator, Answers, Working
  <2>2. CASE store' = store
    BY <1>0, <1>10, <2>2 DEF Write
  <2>3. CASE store' # store
    <3> DEFINE r == co.r
               u == co.upd
               found == u.err \notin {"unverified", "threw"}
    <3>1. /\ target' = [target EXCEPT ![r] =
                 [state |-> u.state, known |-> found \/ r \in known,
                  final |-> u.final, err |-> u.err]]
          /\ run' = [run EXCEPT ![r] = IF u.final # "none" THEN u.final
                        ELSE IF u.state = "cancelling" THEN "cancelling" ELSE @]
          /\ known' = IF found THEN known \cup {r} ELSE known
          /\ stage' = [stage EXCEPT ![r] = IF found THEN "linked" ELSE @]
          /\ cancel' = Aggregate(target')
          /\ task' = IF cancel' = "cancelled" THEN "cancelled" ELSE task
          /\ news' = news
      BY <1>10, <2>3 DEF Write
    <3>2. target' \in [Request -> Targets]
      BY <1>1, <2>1, <3>1 DEF Store, Targets, Updates
    <3>3. \A q \in Request :
            target'[q].state \in {"none", "pending", "cancelling", "unknown"} \cup Settled
      BY <3>2 DEF Targets
    <3>4. run' \in [Request -> Status]
      BY <1>1, <2>1, <3>1 DEF Store, Status, Updates, Active
    <3> QED
      BY <1>1, <2>1, <3>1, <3>2, <3>3, <3>4, AggregateOf DEF Store
  <2> QED
    BY <2>2, <2>3
<1>11. ASSUME NEW r \in Request, RootRuns(r) \/ ChildRuns(r) \/ ActControl(r) PROVE Store'
  BY <1>1, <1>11 DEF Store, RootRuns, ChildRuns, ActControl, store
<1>12. ASSUME NEW r \in Request,
              LeaseLost(r) \/ Find(r) \/ AskControl(r) \/ Look(r) \/ LookThrows(r)
       PROVE  Store'
  BY <1>0, <1>12 DEF LeaseLost, Find, AskControl, Look, LookThrows
<1>13. ASSUME AskEmployee \/ Fence \/ Stop \/ StopThrows PROVE Store'
  <2>1. co.r \in Request
    BY <1>1, <1>13 DEF AskEmployee, Fence, Stop, StopThrows, IInv, Coordinator, Working
  <2> QED
    BY <1>1, <1>13, <2>1 DEF Store, AskEmployee, Fence, Stop, StopThrows, store
<1>14. ASSUME Reconcile \/ PassDone \/ UNCHANGED vars PROVE Store'
  BY <1>0, <1>14 DEF Reconcile, PassDone, vars, store
<1>15. ASSUME Restart PROVE Store'
  BY <1>1, <1>15 DEF Store, Restart, store
<1> QED
  BY <1>2, <1>3, <1>4, <1>5, <1>6, <1>7, <1>8, <1>9, <1>10, <1>11, <1>12, <1>13, <1>14, <1>15
     DEF Next, Dispatch, Pass

LEMMA ProcessStep == ASSUME IInv, [Next]_vars PROVE Process'
<1>1. Store /\ Process /\ Working /\ restarts \in Nat /\ faults \in Nat
  BY TypesAre, BoundsAssumption DEF IInv, Process
<1>2. Fault => faults' \in 0..MaxFaults
  BY <1>1, BoundsAssumption DEF Fault, Process
<1>3. \A r \in Request : exec[r].root \in Status /\ exec'[r].root \in Status
  BY Records, ExecMoves DEF Moves, Executor
<1>4. ASSUME NEW r \in Request, Execute(r) \/ Claim(r) \/ Find(r) \/ Link(r) \/ Fail(r)
      PROVE  Process'
  <2>1. /\ UNCHANGED <<calls, wake, ctl, restarts>>
        /\ faults' = faults \/ Fault
        /\ seen' = seen \/ seen' = [seen EXCEPT ![r] = "none"]
             \/ seen' = [seen EXCEPT ![r] = exec[r].root]
        /\ \E q \in {"idle", "claim", "start", "find", "link", "fail"} :
             pc' = [pc EXCEPT ![r] = q]
    BY <1>4 DEF Execute, Claim, Find, Link, Fail
  <2> QED
    BY <1>1, <1>2, <1>3, <2>1 DEF Process, Status
<1>5. ASSUME NEW r \in Request, Start(r) PROVE Process'
  <2>1. /\ UNCHANGED <<wake, ctl, restarts>> /\ calls' = [calls EXCEPT ![r] = @ + 1]
        /\ faults' = faults \/ Fault
        /\ seen' = seen \/ seen' = [seen EXCEPT ![r] = exec'[r].root]
        /\ pc' = [pc EXCEPT ![r] = "link"] \/ pc' = [pc EXCEPT ![r] = "fail"]
    BY <1>5 DEF Start
  <2>2. exec'[r].root \in Status
    BY <1>3
  <2> HIDE DEF Status
  <2>3. seen' \in [Request -> Status] /\ calls' \in [Request -> Nat]
    BY <1>1, <2>1, <2>2 DEF Process
  <2> QED
    BY <1>1, <1>2, <2>1, <2>3 DEF Process
<1>6. ASSUME NEW r \in Request, Observe(r) \/ LeaseLost(r) PROVE Process'
  <2>1. UNCHANGED <<calls, pc, seen, ctl, restarts>> /\ (faults' = faults \/ Fault)
        /\ (wake' = wake \/ wake' = TRUE)
    BY <1>6 DEF Observe, LeaseLost, dispatch
  <2> QED
    BY <1>1, <1>2, <2>1 DEF Process
<1>7. ASSUME NEW r \in Request, AskControl(r) \/ ActControl(r) \/ EndControl(r) PROVE Process'
  <2>1. UNCHANGED <<calls, pc, seen, wake, restarts, faults>>
    BY <1>7 DEF AskControl, ActControl, EndControl, dispatch
  <2>2. CASE AskControl(r)
    <3>1. \E a \in {"cancel", "resume"} : ctl' = [ctl EXCEPT ![r].at = a]
      BY <2>2 DEF AskControl
    <3> QED
      BY <1>1, <2>1, <3>1 DEF Process
  <2>3. CASE ActControl(r)
    <3>1. ctl' = [ctl EXCEPT ![r] = NoCtl]
          \/ ctl' = [ctl EXCEPT ![r] = [at |-> "done", status |-> exec'[r].root]]
      BY <2>3, Records DEF ActControl
    <3>2. exec'[r].root \in Status
      BY <1>3
    <3> QED
      BY <1>1, <2>1, <3>1, <3>2 DEF Process, NoCtl, Status
  <2>4. CASE EndControl(r)
    BY <1>1, <2>1, <2>4 DEF Process, EndControl, NoCtl, Status
  <2> QED
    BY <1>7, <2>2, <2>3, <2>4
<1>8. ASSUME NEW r \in Request, RootRuns(r) \/ ChildRuns(r) \/ Look(r) \/ LookThrows(r)
      PROVE  Process'
  <2>1. UNCHANGED <<calls, pc, seen, ctl, wake, restarts>> /\ (faults' = faults \/ Fault)
    BY <1>8 DEF RootRuns, ChildRuns, Look, LookThrows, dispatch
  <2> QED
    BY <1>1, <1>2, <2>1 DEF Process
<1>9. ASSUME BeginCancel \/ Reconcile \/ AskEmployee \/ Fence \/ Stop \/ StopThrows \/ Write \/ PassDone
      PROVE  Process'
  <2>1. UNCHANGED <<calls, pc, seen, ctl, restarts>> /\ (faults' = faults \/ Fault)
        /\ (wake' = wake \/ wake' = FALSE)
    BY <1>9 DEF BeginCancel, Reconcile, AskEmployee, Fence, Stop, StopThrows, Write, PassDone, dispatch
  <2> QED
    BY <1>1, <1>2, <2>1 DEF Process
<1>10. ASSUME Restart PROVE Process'
  BY <1>1, <1>10, BoundsAssumption DEF Restart, Process, NoCtl, Status
<1>11. ASSUME UNCHANGED vars PROVE Process'
  BY <1>1, <1>11 DEF vars, Process, dispatch
<1> QED
  BY <1>4, <1>5, <1>6, <1>7, <1>8, <1>9, <1>10, <1>11 DEF Next, Dispatch, Pass

LEMMA WorkingStep == ASSUME IInv, [Next]_vars PROVE Working'
<1>1. Store /\ Process /\ Working /\ exec \in [Request -> Executor]
  BY TypesAre DEF IInv
<1>0. ASSUME UNCHANGED co PROVE Working'
  BY <1>0, <1>1 DEF Working
<1>r. Rest.upd = NoTarget /\ co' = Rest => Working'
  BY DEF Rest, Working
<1>p. ASSUME NEW todo \in SUBSET Request, co' = [Rest EXCEPT !.at = "pass", !.todo = todo]
      PROVE  Working'
  <2>1. co' = [at |-> "pass", todo |-> todo, r |-> "none", upd |-> NoTarget]
    BY <1>p DEF Rest
  <2> QED
    BY <2>1 DEF Working
<1>w. ASSUME NEW r \in Request, NEW u \in Updates, co' = [co EXCEPT !.at = "write", !.r = r, !.upd = u]
      PROVE  Working'
  BY <1>1, <1>w DEF Working
<1>u. ASSUME NEW u \in Updates, co' = [co EXCEPT !.at = "write", !.upd = u]
      PROVE  Working'
  BY <1>1, <1>u DEF Working
<1>2. ASSUME BeginCancel PROVE Working'
  <2>1. \E todo \in SUBSET Request : co' = [Rest EXCEPT !.at = "pass", !.todo = todo]
    BY <1>2 DEF BeginCancel
  <2> QED
    BY <2>1, <1>p
<1>3. ASSUME Reconcile PROVE Working'
  <2>1. UNCHANGED co
        \/ \E todo \in SUBSET Request : co' = [Rest EXCEPT !.at = "pass", !.todo = todo]
    BY <1>3 DEF Reconcile
  <2> QED
    BY <2>1, <1>0, <1>p
<1>4. ASSUME NEW r \in Request, Look(r) PROVE Working'
  <2> DEFINE d == Decision(r)
  <2>1. \/ \E at \in {"fence", "ask"} : co' = [co EXCEPT !.at = at, !.r = r]
        \/ co' = [co EXCEPT !.at = "write", !.r = r, !.upd = Outcome("unknown", "none", "unverified")]
        \/ /\ exec[r].root # "none"
           /\ co' = [co EXCEPT !.at = "write", !.r = r, !.upd = IF d.ask THEN Unknown ELSE d]
    BY <1>4 DEF Look
  <2>2. exec[r].root # "none" => d \in Updates
    BY Records, DecisionAnswers DEF Decision, Answers
  <2>3. Outcome("unknown", "none", "unverified") \in Updates /\ Unknown \in Updates
    BY DEF Outcome, Unknown, Updates
  <2> HIDE DEF d
  <2>4. exec[r].root # "none" => (IF d.ask THEN Unknown ELSE d) \in Updates
    BY <2>2, <2>3
  <2>5. ASSUME \E at \in {"fence", "ask"} : co' = [co EXCEPT !.at = at, !.r = r] PROVE Working'
    BY <1>1, <2>5 DEF Working
  <2> QED
    BY <2>1, <2>3, <2>4, <2>5, <1>w
<1>13. ASSUME NEW r \in Request, LookThrows(r) PROVE Working'
  <2>1. Outcome("unknown", "none", "threw") \in Updates
    BY DEF Outcome, Updates
  <2> QED
    BY <1>13, <2>1, <1>w DEF LookThrows
<1>5. ASSUME AskEmployee PROVE Working'
  <2>1. co.r \in Request /\ ~exec[co.r].flow /\ exec[co.r].root # "none"
    BY <1>5 DEF AskEmployee, IInv, Coordinator, Types, TypeOK
  <2>2. \A e \in EmployeeCancelled(exec[co.r]) : EmployeeDecision(e) \in Updates
    BY <2>1, Records, EmployeeCancels, DecisionAnswers DEF Answers, Keeps, Later
  <2>3. Unknown \in Updates
    BY DEF Outcome, Unknown, Updates
  <2>4. \E u \in Updates : co' = [co EXCEPT !.at = "write", !.upd = u]
    BY <1>5, <2>2, <2>3 DEF AskEmployee
  <2> QED
    BY <2>4, <1>u
<1>6. ASSUME Fence PROVE Working'
  <2>1. Unknown \in Updates
    BY DEF Outcome, Unknown, Updates
  <2>2. co' = [co EXCEPT !.at = "stop"] \/ co' = [co EXCEPT !.at = "write", !.upd = Unknown]
    BY <1>6 DEF Fence
  <2> QED
    BY <1>1, <2>1, <2>2, <1>u DEF Working
<1>7. ASSUME Stop PROVE Working'
  <2>1. co.r \in Request /\ exec[co.r].flow /\ exec[co.r].root # "none"
    BY <1>7 DEF Stop, IInv, Coordinator, Types, TypeOK
  <2>2. PICK e : exec' = [exec EXCEPT ![co.r] = e]
                 /\ co' = [co EXCEPT !.at = "write", !.upd = WorkflowDecision(e)]
    BY <1>7 DEF Stop
  <2>3. exec'[co.r] = e /\ Later(exec[co.r], e)
    <3>1. exec'[co.r] = e
      BY <1>1, <2>1, <2>2
    <3>2. ~Start(co.r)
      <4>1. pc' = pc /\ pc \in [Request -> {"idle", "claim", "start", "find", "link", "fail"}]
        BY <1>1, <1>7 DEF Stop, dispatch, Process
      <4>2. Start(co.r) => pc[co.r] = "start" /\ \E q \in {"link", "fail"} : pc' = [pc EXCEPT ![co.r] = q]
        BY DEF Start
      <4> QED
        BY <2>1, <4>1, <4>2
    <3> QED
      BY <2>1, <3>1, <3>2, ExecMoves DEF Moves, Keeps
  <2>4. WorkflowDecision(e) \in Updates
    BY <2>1, <2>3, DecisionAnswers DEF Later, Answers
  <2> QED
    BY <2>2, <2>4, <1>u
<1>14. ASSUME StopThrows PROVE Working'
  <2>1. Unknown \in Updates
    BY DEF Outcome, Unknown, Updates
  <2> QED
    BY <1>14, <2>1, <1>u DEF StopThrows
<1>8. ASSUME Write PROVE Working'
  <2>1. co' = Rest
        \/ \E todo \in SUBSET Request : co' = [Rest EXCEPT !.at = "pass", !.todo = todo]
    BY <1>1, <1>8 DEF Write, Working
  <2> QED
    BY <2>1, <1>r, <1>p DEF Rest
<1>9. ASSUME PassDone \/ Restart PROVE Working'
  BY <1>9, <1>r DEF PassDone, Restart, Rest
<1>10. ASSUME NEW r \in Request,
              Execute(r) \/ Claim(r) \/ Start(r) \/ Find(r) \/ Link(r) \/ Fail(r) \/ Observe(r)
                \/ RootRuns(r) \/ ChildRuns(r) \/ LeaseLost(r)
                \/ AskControl(r) \/ ActControl(r) \/ EndControl(r)
       PROVE  UNCHANGED co
  BY <1>10 DEF Execute, Claim, Start, Find, Link, Fail, Observe, RootRuns, ChildRuns, LeaseLost,
               AskControl, ActControl, EndControl
<1>11. UNCHANGED vars => UNCHANGED co
  BY DEF vars
<1> QED
  BY <1>0, <1>2, <1>3, <1>4, <1>5, <1>6, <1>7, <1>8, <1>9, <1>10, <1>11, <1>13, <1>14
     DEF Next, Dispatch, Pass

LEMMA TypesStep == ASSUME IInv, [Next]_vars PROVE Types'
<1>1. Store' /\ Process' /\ Working'
  BY StoreStep, ProcessStep, WorkingStep
<1>2. exec' \in [Request -> Executor] /\ \A r \in Request : Shaped(exec'[r])
  BY ExecMoves DEF Moves, Keeps, Later, Sound
<1>3. ctl' \in [Request -> [at : {"idle", "cancel", "resume", "done"}, status : Status]]
  BY <1>1 DEF Process
<1>4. \A r \in Request : /\ ctl'[r].at \in {"idle", "cancel", "resume", "done"}
                         /\ ctl'[r].status \in {"none"} \cup Active \cup Final
  BY <1>3 DEF Status
<1>5. /\ co'.at \in {"idle", "pass", "ask", "fence", "stop", "write"}
      /\ co'.todo \subseteq Request /\ co'.r \in Request \cup {"none"}
  BY <1>1 DEF Working
<1>6. TypeOK'
  BY <1>1, <1>2, <1>4, <1>5 DEF TypeOK, Store, Process, Executor, Shaped, Status, Targets
<1> QED
  BY <1>1, <1>2, <1>3, <1>6 DEF Types, Working, Shaped

\* Where the process and the executors may change, the stored facts stay.
LEMMA CommitsKept ==
  ASSUME CommitsAreSound, UNCHANGED <<stage, known, cancel, task>>,
         \/ UNCHANGED <<target, run>>
         \/ /\ UNCHANGED target
            /\ \A r \in Request : target[r].final # "none" => run'[r] = run[r]
  PROVE  CommitsAreSound'
BY DEF CommitsAreSound

LEMMA CommitsStep == ASSUME IInv, [Next]_vars PROVE CommitsAreSound'
<1>1. Store /\ CommitsAreSound /\ Requests /\ Coordinator
  BY TypesAre DEF IInv
<1>2. ASSUME NEW r \in Request, Execute(r) PROVE CommitsAreSound'
  <2>1. CASE UNCHANGED <<stage, run, known, target, cancel, task>>
    BY <1>1, <2>1, CommitsKept
  <2>2. CASE /\ stage[r] = "none" /\ cancel = "none"
             /\ stage' = [stage EXCEPT ![r] = "recorded"]
             /\ run' = [run EXCEPT ![r] = "queued"]
             /\ task' = "active"
             /\ UNCHANGED <<cancel, known, target>>
    <3>1. target[r].final = "none"
      BY <1>1, <2>2 DEF CommitsAreSound, Settled
    <3> QED
      BY <1>1, <2>2, <3>1 DEF CommitsAreSound, Store
  <2> QED
    BY <1>2, <2>1, <2>2 DEF Execute
<1>3. ASSUME NEW r \in Request, Claim(r) PROVE CommitsAreSound'
  <2>1. CASE stage[r] = "recorded" /\ stage' = [stage EXCEPT ![r] = "dispatching"]
             /\ UNCHANGED <<run, known, target, cancel, task>>
    BY <1>1, <2>1 DEF CommitsAreSound, Store
  <2>2. CASE UNCHANGED <<stage, run, known, target, cancel, task>>
    BY <1>1, <2>2, CommitsKept
  <2> QED
    BY <1>3, <2>1, <2>2 DEF Claim
<1>4. ASSUME NEW r \in Request, Link(r) PROVE CommitsAreSound'
  <2>1. CASE UNCHANGED <<stage, run, known, target, cancel, task>>
    BY <1>1, <2>1, CommitsKept
  <2>2. CASE /\ stage[r] \notin {"linked", "cancelled"}
             /\ stage' = [stage EXCEPT ![r] = "linked"]
             /\ run' = [run EXCEPT ![r] = seen[r]]
             /\ known' = known \cup {r}
             /\ target' = [target EXCEPT ![r].known = target[r].state # "none"]
             /\ UNCHANGED <<cancel, task>>
    <3>1. \A q \in Request : /\ target'[q].state = target[q].state
                             /\ target'[q].final = target[q].final
                             /\ target'[q].known = IF q = r THEN target[r].state # "none"
                                                            ELSE target[q].known
      BY <1>1, <2>2 DEF Store, Targets
    <3>2. Aggregate(target') = Aggregate(target)
      BY <3>1, SameAggregate
    <3>3. target[r].state \notin Settled
      BY <1>1, <2>2 DEF Requests, Frozen
    <3>4. target[r].final = "none"
      BY <1>1, <3>3 DEF CommitsAreSound
    <3>5. ASSUME NEW q \in Request
          PROVE /\ q \in known' <=> stage'[q] = "linked"
                /\ target'[q].state # "none" => (target'[q].known <=> q \in known')
                /\ target'[q].final # "none" => run'[q] = target'[q].final
                /\ target'[q].state \in Settled <=> target'[q].final # "none"
      <4>1. CASE q = r
        BY <1>1, <2>2, <3>1, <3>3, <3>4, <4>1 DEF Store
      <4>2. CASE q # r
        BY <1>1, <2>2, <3>1, <4>2 DEF CommitsAreSound, Store
      <4> QED
        BY <4>1, <4>2
    <3>6. /\ cancel' = "none" => \A q \in Request : target'[q].state = "none"
          /\ cancel' \notin {"none", "requested"} => cancel' = Aggregate(target')
          /\ cancel' = "requested" => \A q \in Request : target'[q].state \in {"none", "pending"}
          /\ cancel' = "cancelled" <=> task' = "cancelled"
      BY <1>1, <2>2, <3>1, <3>2 DEF CommitsAreSound
    <3> QED
      BY <3>5, <3>6 DEF CommitsAreSound
  <2> QED
    BY <1>4, <2>1, <2>2 DEF Link
<1>5. ASSUME NEW r \in Request, Fail(r) PROVE CommitsAreSound'
  <2>1. CASE UNCHANGED <<stage, run, known, target, cancel, task>>
    BY <1>1, <2>1, CommitsKept
  <2>2. CASE /\ stage[r] \notin {"linked", "cancelled"}
             /\ stage' = [stage EXCEPT ![r] = "outcome-unknown"]
             /\ run' = [run EXCEPT ![r] = "interrupted"]
             /\ UNCHANGED <<known, target, cancel, task>>
    <3>1. target[r].final = "none"
      BY <1>1, <2>2 DEF CommitsAreSound, Requests, Frozen
    <3> QED
      BY <1>1, <2>2, <3>1 DEF CommitsAreSound, Store
  <2> QED
    BY <1>5, <2>1, <2>2 DEF Fail
<1>6. ASSUME NEW r \in Request, Observe(r) PROVE CommitsAreSound'
  <2>1. UNCHANGED <<stage, known, target, cancel, task>>
        /\ (run' = run \/ (target[r].state = "none" /\ run' = [run EXCEPT ![r] = exec[r].root]))
    BY <1>6 DEF Observe, Owned
  <2>2. target[r].state = "none" => target[r].final = "none"
    BY <1>1 DEF CommitsAreSound, Settled
  <2>3. \A q \in Request : target[q].final # "none" => run'[q] = run[q]
    BY <1>1, <2>1, <2>2 DEF Store
  <2> QED
    BY <1>1, <2>1, <2>3, CommitsKept
<1>7. ASSUME NEW r \in Request, EndControl(r) PROVE CommitsAreSound'
  <2>1. UNCHANGED <<stage, known, target, cancel, task>>
        /\ run' = [run EXCEPT ![r] = IF target[r].state \in Settled THEN @ ELSE ctl[r].status]
    BY <1>7 DEF EndControl
  <2>3. \A q \in Request : target[q].final # "none" => run'[q] = run[q]
    BY <1>1, <2>1 DEF CommitsAreSound, Store
  <2> QED
    BY <1>1, <2>1, <2>3, CommitsKept
<1>8. ASSUME BeginCancel PROVE CommitsAreSound'
  <2> DEFINE frozen == {r \in Request : stage[r] # "none" /\ (run[r] \in Active \/ exec[r].flow)}
             early == {r \in frozen : stage[r] = "recorded"}
             gone == [state |-> "cancelled", known |-> FALSE, final |-> "cancelled", err |-> "none"]
  <2>1. \A r \in Request : target[r].state = "none"
    BY <1>1, <1>8 DEF BeginCancel, CommitsAreSound
  <2>2. /\ \A r \in Request : target'[r] = IF r \notin frozen THEN NoTarget
                ELSE IF r \in early THEN gone
                ELSE [NoTarget EXCEPT !.state = "pending", !.known = r \in known]
        /\ \A r \in Request : run'[r] = IF r \in early THEN "cancelled" ELSE run[r]
        /\ \A r \in Request : stage'[r] = IF r \in early THEN "cancelled" ELSE stage[r]
        /\ cancel' = IF frozen = early THEN "cancelled"
                     ELSE IF early = {} THEN "requested" ELSE Aggregate(target')
        /\ task' = IF frozen = early THEN "cancelled" ELSE task
        /\ known' = known
    BY <1>8 DEF BeginCancel
  <2>3. early \subseteq frozen /\ frozen \subseteq Request
        /\ \A r \in early : stage[r] = "recorded"
    OBVIOUS
  <2> HIDE DEF frozen, early
  <2>4. ASSUME NEW r \in Request
        PROVE  /\ target'[r].state = IF r \notin frozen THEN "none"
                                     ELSE IF r \in early THEN "cancelled" ELSE "pending"
               /\ target'[r].final = IF r \in early THEN "cancelled" ELSE "none"
               /\ r \in frozen => (target'[r].known <=> r \in known /\ r \notin early)
    <3>0. NoTarget \in Targets /\ NoTarget.final = "none" /\ NoTarget.state = "none"
      BY DEF NoTarget, Targets
    <3>1. CASE r \notin frozen
      BY <2>2, <2>3, <3>0, <3>1
    <3>2. CASE r \in early
      <4> HIDE DEF gone
      <4>1. target'[r] = gone /\ r \in frozen
        BY <2>2, <2>3, <3>2
      <4>2. gone.state = "cancelled" /\ gone.final = "cancelled" /\ gone.known = FALSE
        BY DEF gone
      <4> QED
        BY <3>2, <4>1, <4>2
    <3>3. CASE r \in frozen \ early
      <4>1. PICK b \in BOOLEAN : b <=> r \in known
        OBVIOUS
      <4>2. target'[r] = [NoTarget EXCEPT !.state = "pending", !.known = b]
        BY <2>2, <3>3, <4>1
      <4>3. target'[r].state = "pending" /\ target'[r].final = "none" /\ target'[r].known = b
        BY <3>0, <4>2 DEF Targets
      <4> QED
        BY <2>3, <3>3, <4>1, <4>3
    <3> QED
      BY <2>3, <3>1, <3>2, <3>3
  <2>5. \A r \in Request :
          target'[r].state \in {"none", "pending", "cancelling", "unknown"} \cup Settled
    BY <2>4 DEF Settled
  <2>6. /\ Aggregate(target') \in {"cancelling", "unknown", "cancelled"}
        /\ Aggregate(target') = "cancelled" <=> frozen = early
    <3>1. /\ Aggregate(target') \in {"cancelling", "unknown", "cancelled"}
          /\ Aggregate(target') = "cancelled"
               <=> \A r \in Request : target'[r].state \in {"none"} \cup Settled
      BY <2>5, AggregateOf
    <3>2. (\A r \in Request : target'[r].state \in {"none"} \cup Settled) <=> frozen = early
      BY <2>3, <2>4 DEF Settled
    <3> QED
      BY <3>1, <3>2
  <2>7. task # "cancelled"
    BY <1>1, <1>8 DEF BeginCancel, CommitsAreSound
  <2>8. ASSUME NEW r \in Request
        PROVE /\ r \in known' <=> stage'[r] = "linked"
              /\ target'[r].state # "none" => (target'[r].known <=> r \in known')
              /\ target'[r].final # "none" => run'[r] = target'[r].final
              /\ target'[r].state \in Settled <=> target'[r].final # "none"
    <3>1. r \in known <=> stage[r] = "linked"
      BY <1>1 DEF CommitsAreSound
    <3> QED
      BY <2>2, <2>3, <2>4, <3>1 DEF Settled
  <2>9. /\ cancel' = "none" => \A q \in Request : target'[q].state = "none"
        /\ cancel' \notin {"none", "requested"} => cancel' = Aggregate(target')
        /\ cancel' = "requested" => \A q \in Request : target'[q].state \in {"none", "pending"}
        /\ cancel' = "cancelled" <=> task' = "cancelled"
    <3>1. CASE frozen = early
      BY <2>2, <2>6, <3>1
    <3>2. CASE frozen # early /\ early = {}
      BY <2>2, <2>4, <2>7, <3>2
    <3>3. CASE frozen # early /\ early # {}
      BY <2>2, <2>6, <2>7, <3>3
    <3> QED
      BY <3>1, <3>2, <3>3
  <2> QED
    BY <2>8, <2>9 DEF CommitsAreSound
<1>9. ASSUME Write PROVE CommitsAreSound'
  <2> DEFINE r == co.r
             u == co.upd
             found == u.err \notin {"unverified", "threw"}
  <2>1. /\ r \in Request /\ Answers(u, exec[r])
        /\ target[r].state \notin {"none"} \cup Settled
    BY <1>1, <1>9 DEF Write, IInv, Coordinator, Types, TypeOK
  <2>2. CASE store' = store
    BY <1>1, <2>2, CommitsKept DEF store
  <2>3. CASE store' # store
    <3>1. /\ target' = [target EXCEPT ![r] =
                 [state |-> u.state, known |-> found \/ r \in known,
                  final |-> u.final, err |-> u.err]]
          /\ run' = [run EXCEPT ![r] = IF u.final # "none" THEN u.final
                        ELSE IF u.state = "cancelling" THEN "cancelling" ELSE @]
          /\ known' = IF found THEN known \cup {r} ELSE known
          /\ stage' = [stage EXCEPT ![r] = IF found THEN "linked" ELSE @]
          /\ cancel' = Aggregate(target')
          /\ task' = IF cancel' = "cancelled" THEN "cancelled" ELSE task
      BY <1>9, <2>3 DEF Write
    <3>2. /\ u.state \in {"pending", "cancelling", "unknown"} \cup Settled
          /\ u.final \in {"none"} \cup Final
          /\ (u.state \in Settled) <=> (u.final # "none")
      BY <2>1 DEF Answers, Updates
    <3> HIDE DEF r, u, found
    <3>3. /\ target'[r].state = u.state /\ target'[r].final = u.final
          /\ target'[r].known <=> found \/ r \in known
          /\ \A q \in Request \ {r} : target'[q] = target[q] /\ run'[q] = run[q] /\ stage'[q] = stage[q]
          /\ u.final # "none" => run'[r] = u.final
          /\ stage'[r] = IF found THEN "linked" ELSE stage[r]
      BY <1>1, <2>1, <3>1 DEF Store
    <3>4. \A q \in Request :
            target'[q].state \in {"none", "pending", "cancelling", "unknown"} \cup Settled
      BY <1>1, <3>2, <3>3 DEF Store, Targets
    <3>5. cancel' \in {"cancelling", "unknown", "cancelled"}
      BY <3>1, <3>4, AggregateOf
    <3>6. cancel # "cancelled" /\ cancel # "none"
      <4>1. Aggregate(target) # "cancelled"
        BY <1>1, <2>1, AggregateOf DEF Store, Targets
      <4> QED
        BY <1>1, <2>1, <4>1 DEF CommitsAreSound
    <3>7. task # "cancelled"
      BY <1>1, <3>6 DEF CommitsAreSound
    <3>8. ASSUME NEW q \in Request
          PROVE /\ q \in known' <=> stage'[q] = "linked"
                /\ target'[q].state # "none" => (target'[q].known <=> q \in known')
                /\ target'[q].final # "none" => run'[q] = target'[q].final
                /\ target'[q].state \in Settled <=> target'[q].final # "none"
      <4>1. /\ q \in known <=> stage[q] = "linked"
            /\ target[q].state # "none" => (target[q].known <=> q \in known)
            /\ target[q].final # "none" => run[q] = target[q].final
            /\ target[q].state \in Settled <=> target[q].final # "none"
        BY <1>1 DEF CommitsAreSound
      <4>2. CASE q = r
        BY <3>1, <3>2, <3>3, <4>1, <4>2
      <4>3. CASE q # r
        BY <3>1, <3>3, <4>1, <4>3
      <4> QED
        BY <4>2, <4>3
    <3> QED
      BY <3>1, <3>5, <3>7, <3>8 DEF CommitsAreSound
  <2> QED
    BY <2>2, <2>3
<1>10. ASSUME NEW r \in Request,
              Start(r) \/ Find(r) \/ RootRuns(r) \/ ChildRuns(r) \/ LeaseLost(r)
                \/ AskControl(r) \/ ActControl(r) \/ Look(r) \/ LookThrows(r)
       PROVE  UNCHANGED store
  BY <1>10 DEF Start, Find, RootRuns, ChildRuns, LeaseLost, AskControl, ActControl, Look, LookThrows
<1>11. ASSUME Reconcile \/ AskEmployee \/ Fence \/ Stop \/ StopThrows \/ PassDone \/ Restart \/ UNCHANGED vars
       PROVE  UNCHANGED store
  BY <1>11 DEF Reconcile, AskEmployee, Fence, Stop, StopThrows, PassDone, Restart, vars
<1>12. UNCHANGED store => CommitsAreSound'
  BY <1>1, CommitsKept DEF store
<1> QED
  BY <1>2, <1>3, <1>4, <1>5, <1>6, <1>7, <1>8, <1>9, <1>10, <1>11, <1>12 DEF Next, Dispatch, Pass

\* The executors' records as the proofs of the last three parts need them.
LEMMA RecordsMove ==
  ASSUME IInv, [Next]_vars, NEW r \in Request
  PROVE  /\ Sound(exec[r]) /\ Sound(exec'[r]) /\ exec'[r].flow = exec[r].flow
         /\ exec[r].root # "none" => exec'[r].root # "none"
         /\ exec[r].root \in Final => exec'[r].root \in Final
         /\ ~Start(r) => ((exec[r].root = "none") <=> (exec'[r].root = "none"))
         /\ ~At(r) /\ AtRest(exec[r]) => AtRest(exec'[r])
<1>1. Sound(exec[r])
  BY Records
<1>2. Moves
  BY ExecMoves
<1>3. CASE Keeps(exec[r], exec'[r])
  BY <1>1, <1>3 DEF Keeps, Later
<1>4. CASE At(r) /\ Later(exec[r], exec'[r])
  BY <1>1, <1>4 DEF Later
<1>5. CASE /\ Start(r) /\ exec[r].root = "none" /\ exec'[r].root = "queued"
           /\ Sound(exec'[r]) /\ exec'[r].flow = exec[r].flow
  BY <1>1, <1>5 DEF AtRest, Final
<1> QED
  BY <1>2, <1>3, <1>4, <1>5 DEF Moves

\* A command keeps its facts while none of its own steps is taken.
LEMMA CommandKept ==
  ASSUME IInv, [Next]_vars, NEW r \in Request, ~Start(r),
         \/ UNCHANGED <<stage, run, known>>
         \/ stage'[r] = stage[r] /\ run'[r] = run[r] /\ (r \in known' <=> r \in known),
         calls'[r] = calls[r], pc'[r] = pc[r], seen'[r] = seen[r], ctl'[r] = ctl[r]
  PROVE  Command(r)'
<1>1. Command(r)
  BY DEF IInv, Requests
<1>2. /\ Sound(exec'[r])
      /\ exec[r].root # "none" => exec'[r].root # "none"
      /\ exec[r].root \in Final => exec'[r].root \in Final
      /\ (exec[r].root = "none") <=> (exec'[r].root = "none")
  BY RecordsMove
<1> QED
  BY <1>1, <1>2 DEF Command, Sound

LEMMA CallsTell ==
  ASSUME Process, NEW r \in Request, calls'[r] = calls[r]
  PROVE  ~Start(r)
<1>1. calls[r] \in Nat /\ calls \in [Request -> Nat]
  BY DEF Process
<1>2. Start(r) => calls' = [calls EXCEPT ![r] = @ + 1]
  BY DEF Start
<1> QED
  BY <1>1, <1>2

\* The steps of a command's own dispatch.
LEMMA OwnDispatch ==
  ASSUME IInv, [Next]_vars, NEW r \in Request, Execute(r) \/ Dispatch(r)
  PROVE  Command(r)'
<1>1. Store /\ Process /\ CommitsAreSound /\ Command(r) /\ Frozen(r)
  BY TypesAre DEF IInv, Requests
<1>2. r \in known <=> stage[r] = "linked"
  BY <1>1 DEF CommitsAreSound
<1>3. /\ Sound(exec'[r]) /\ (exec[r].root \in Final => exec'[r].root \in Final)
      /\ exec[r].root # "none" => exec'[r].root # "none"
      /\ ~Start(r) => ((exec[r].root = "none") <=> (exec'[r].root = "none"))
  BY RecordsMove
<1>q. Quiet(exec'[r]) /\ Quiet(exec[r])
  BY <1>3, Records DEF Sound
<1>4. CASE Execute(r)
  <2>1. calls' = calls /\ exec' = exec /\ known' = known /\ ctl' = ctl /\ seen' = seen
        /\ pc[r] = "idle" /\ pc'[r] \in {"claim", "find"}
    BY <1>1, <1>4 DEF Execute, Process
  <2>2. \/ stage[r] = "none" /\ stage'[r] = "recorded" /\ run'[r] = "queued"
           /\ pc'[r] = "claim"
        \/ stage[r] # "none" /\ stage' = stage /\ run' = run
    BY <1>1, <1>4 DEF Execute, Store, Process
  <2> QED
    BY ONLY <1>1, <1>2, <1>q, <2>1, <2>2 DEF Command, Final
<1>5. CASE Claim(r)
  <2>1. calls' = calls /\ exec' = exec /\ known' = known /\ ctl' = ctl /\ seen' = seen
        /\ run' = run
    BY <1>5 DEF Claim
  <2>2. \/ stage[r] = "recorded" /\ stage'[r] = "dispatching" /\ pc'[r] = "start"
        \/ stage' = stage /\ pc'[r] \in {"idle", "find"}
    BY <1>1, <1>5 DEF Claim, Store, Process
  <2>3. pc[r] = "claim"
    BY <1>5 DEF Claim
  <2> QED
    BY ONLY <1>1, <1>2, <1>q, <2>1, <2>2, <2>3 DEF Command, Final
<1>6. CASE Start(r)
  <2>1. /\ pc[r] = "start" /\ calls'[r] = calls[r] + 1 /\ UNCHANGED <<stage, run, known, ctl>>
    BY <1>1, <1>6 DEF Start, Process, store
  <2>2. pc'[r] = "link" => exec'[r].root # "none" /\ seen'[r] = exec'[r].root
    <3>1. ASSUME pc'[r] = "link"
          PROVE  /\ exec' = [exec EXCEPT ![r].root = IF @ = "none" THEN "queued" ELSE @]
                 /\ seen' = [seen EXCEPT ![r] = exec'[r].root]
      BY <1>1, <1>6, <3>1 DEF Start, Process
    <3>2. ASSUME pc'[r] = "link" PROVE exec'[r].root # "none"
      BY <3>1, <3>2, Records DEF Executor
    <3>3. ASSUME pc'[r] = "link" PROVE seen'[r] = exec'[r].root
      BY <1>1, <3>1, <3>3 DEF Process
    <3> QED
      BY <3>2, <3>3
  <2>3. pc'[r] \in {"link", "fail"}
    BY <1>1, <1>6 DEF Start, Process
  <2>4. calls[r] = 0 /\ stage[r] \notin {"none", "recorded", "cancelled"}
    BY <1>1, <2>1 DEF Command
  <2> QED
    BY ONLY <1>1, <1>2, <1>3, <1>q, <2>1, <2>2, <2>3, <2>4 DEF Command, Final
<1>7. CASE Find(r)
  <2>1. calls' = calls /\ exec' = exec /\ known' = known /\ ctl' = ctl
        /\ run' = run /\ stage' = stage /\ pc[r] = "find"
    BY <1>7 DEF Find, store
  <2>2. \/ pc'[r] = "fail"
        \/ pc'[r] = "link" /\ exec[r].root # "none" /\ seen'[r] = exec[r].root
    BY <1>1, <1>7 DEF Find, Process
  <2> QED
    BY ONLY <1>1, <1>2, <1>q, <2>1, <2>2 DEF Command, Final
<1>8. CASE Link(r)
  <2>1. calls' = calls /\ exec' = exec /\ ctl' = ctl /\ pc[r] = "link" /\ pc'[r] = "idle"
    BY <1>1, <1>8 DEF Link, Process
  <2>2. \/ UNCHANGED <<stage, run, known>>
        \/ /\ stage[r] \notin {"linked", "cancelled"} /\ stage'[r] = "linked"
           /\ run'[r] = seen[r] /\ r \in known'
    BY <1>1, <1>8 DEF Link, Store
  <2> QED
    BY ONLY <1>1, <1>2, <1>q, <2>1, <2>2 DEF Command, Final
<1>9. CASE Fail(r)
  <2>1. calls' = calls /\ exec' = exec /\ ctl' = ctl /\ pc[r] = "fail" /\ pc'[r] = "idle"
        /\ known' = known
    BY <1>1, <1>9 DEF Fail, Process
  <2>2. \/ UNCHANGED <<stage, run>>
        \/ /\ stage[r] \notin {"linked", "cancelled"} /\ stage'[r] = "outcome-unknown"
           /\ run'[r] = "interrupted"
    BY <1>1, <1>9 DEF Fail, Store
  <2> QED
    BY ONLY <1>1, <1>2, <1>q, <2>1, <2>2 DEF Command, Final
<1> QED
  BY <1>4, <1>5, <1>6, <1>7, <1>8, <1>9 DEF Dispatch

LEMMA CommandStep ==
  ASSUME IInv, [Next]_vars, NEW r \in Request
  PROVE  Command(r)'
<1>1. Store /\ Process /\ CommitsAreSound /\ Command(r) /\ Frozen(r)
  BY TypesAre DEF IInv, Requests
<1>2. /\ Sound(exec'[r]) /\ (exec[r].root \in Final => exec'[r].root \in Final)
      /\ exec[r].root # "none" => exec'[r].root # "none"
      /\ ~Start(r) => ((exec[r].root = "none") <=> (exec'[r].root = "none"))
  BY RecordsMove
<1>q. Quiet(exec'[r])
  BY <1>2 DEF Sound
<1>3. ASSUME NEW q \in Request \ {r},
             Execute(q) \/ Claim(q) \/ Start(q) \/ Find(q) \/ Link(q) \/ Fail(q)
      PROVE  Command(r)'
  <2>1. /\ stage'[r] = stage[r] /\ run'[r] = run[r] /\ (r \in known' <=> r \in known)
        /\ calls'[r] = calls[r] /\ pc'[r] = pc[r] /\ seen'[r] = seen[r] /\ ctl'[r] = ctl[r]
    BY <1>1, <1>3 DEF Execute, Claim, Start, Find, Link, Fail, Store, Process, store
  <2> QED
    BY <1>1, <2>1, CallsTell, CommandKept
<1>4. ASSUME NEW q \in Request \ {r},
             Observe(q) \/ AskControl(q) \/ ActControl(q) \/ EndControl(q)
      PROVE  Command(r)'
  <2>1. /\ stage'[r] = stage[r] /\ run'[r] = run[r] /\ (r \in known' <=> r \in known)
        /\ calls'[r] = calls[r] /\ pc'[r] = pc[r] /\ seen'[r] = seen[r] /\ ctl'[r] = ctl[r]
    BY <1>1, <1>4 DEF Observe, AskControl, ActControl, EndControl, Store, Process, store, dispatch
  <2> QED
    BY <1>1, <2>1, CallsTell, CommandKept
<1>5. ASSUME NEW q \in Request, RootRuns(q) \/ ChildRuns(q) \/ LeaseLost(q) \/ Look(q) \/ LookThrows(q)
      PROVE  Command(r)'
  <2>1. UNCHANGED <<stage, run, known, calls, pc, seen, ctl>>
    BY <1>5 DEF RootRuns, ChildRuns, LeaseLost, Look, LookThrows, store, dispatch
  <2> QED
    BY <1>1, <2>1, CallsTell, CommandKept
<1>6. ASSUME \/ Reconcile \/ AskEmployee \/ Fence \/ Stop \/ StopThrows \/ PassDone \/ UNCHANGED vars
      PROVE  Command(r)'
  <2>1. UNCHANGED <<stage, run, known, calls, pc, seen, ctl>>
    BY <1>6 DEF Reconcile, AskEmployee, Fence, Stop, StopThrows, PassDone, vars, store, dispatch
  <2> QED
    BY <1>1, <2>1, CallsTell, CommandKept
<1>7. ASSUME Observe(r) PROVE Command(r)'
  <2>1. calls' = calls /\ exec' = exec /\ ctl' = ctl /\ pc' = pc /\ seen' = seen
        /\ known' = known /\ stage' = stage
        /\ (run' = run \/ (r \in known /\ run'[r] = exec[r].root))
    BY <1>1, <1>7 DEF Observe, dispatch, Store
  <2> QED
    BY ONLY <1>1, <1>q, <2>1 DEF Command, CommitsAreSound, Final
<1>8. ASSUME AskControl(r) PROVE Command(r)'
  <2>1. calls' = calls /\ exec' = exec /\ pc' = pc /\ seen' = seen /\ UNCHANGED store
        /\ r \in known /\ ctl'[r].at \in {"cancel", "resume"}
    BY <1>1, <1>8 DEF AskControl, dispatch, Process
  <2> QED
    BY ONLY <1>1, <1>q, <2>1 DEF Command, store
<1>9. ASSUME ActControl(r) PROVE Command(r)'
  <2>1. /\ calls' = calls /\ pc' = pc /\ seen' = seen /\ UNCHANGED store
        /\ ctl[r].at # "idle"
        /\ ctl'[r] = NoCtl \/ ctl'[r] = [at |-> "done", status |-> exec'[r].root]
    BY <1>1, <1>9, Records DEF ActControl, dispatch, Process
  <2>2. ~Start(r) /\ r \in known
    BY <1>1, <2>1, CallsTell DEF Command
  <2>3. ctl'[r].at = "done" => ctl'[r].status = exec'[r].root
    BY <2>1 DEF NoCtl
  <2> QED
    BY ONLY <1>1, <1>2, <1>q, <2>1, <2>2, <2>3 DEF Command, store
<1>10. ASSUME EndControl(r) PROVE Command(r)'
  <2>1. /\ calls' = calls /\ pc' = pc /\ seen' = seen /\ exec' = exec
        /\ UNCHANGED <<stage, known>> /\ ctl'[r].at = "idle" /\ ctl[r].at = "done"
        /\ run'[r] = run[r] \/ run'[r] = ctl[r].status
    BY <1>1, <1>10 DEF EndControl, dispatch, Process, NoCtl, Store
  <2> QED
    BY ONLY <1>1, <1>q, <2>1 DEF Command, CommitsAreSound
<1>11. ASSUME BeginCancel PROVE Command(r)'
  <2>1. /\ calls' = calls /\ pc' = pc /\ seen' = seen /\ exec' = exec /\ ctl' = ctl
        /\ known' = known
    BY <1>11 DEF BeginCancel, dispatch
  <2>2. \/ stage'[r] = stage[r] /\ run'[r] = run[r]
        \/ stage[r] = "recorded" /\ stage'[r] = "cancelled" /\ run'[r] = "cancelled"
    BY <1>11 DEF BeginCancel
  <2> QED
    BY ONLY <1>1, <1>q, <2>1, <2>2 DEF Command
<1>12. ASSUME Write PROVE Command(r)'
  <2>1. calls' = calls /\ pc' = pc /\ seen' = seen /\ exec' = exec /\ ctl' = ctl
    BY <1>12 DEF Write, dispatch
  <2>2. /\ co.r \in Request /\ Answers(co.upd, exec[co.r])
        /\ target[co.r].state \notin {"none"} \cup Settled
    BY <1>12 DEF Write, IInv, Coordinator, Types, TypeOK
  <2>3. CASE \/ store' = store
             \/ stage'[r] = stage[r] /\ run'[r] = run[r] /\ (r \in known' <=> r \in known)
    BY <1>1, <2>1, <2>3, CallsTell, CommandKept DEF store
  <2>4. CASE store' # store /\ co.r # r
    <3>1. stage'[r] = stage[r] /\ run'[r] = run[r] /\ (r \in known' <=> r \in known)
      BY <1>1, <1>12, <2>4 DEF Write, Store
    <3> QED
      BY <2>3, <3>1
  <2>5. CASE store' # store /\ co.r = r
    <3>1. /\ run'[r] = IF co.upd.final # "none" THEN co.upd.final
                       ELSE IF co.upd.state = "cancelling" THEN "cancelling" ELSE run[r]
          /\ r \in known' <=> co.upd.err \notin {"unverified", "threw"} \/ r \in known
          /\ stage'[r] = IF co.upd.err \notin {"unverified", "threw"} THEN "linked" ELSE stage[r]
      BY <1>1, <1>12, <2>2, <2>5 DEF Write, Store
    <3>2. /\ co.upd.final \in {"none"} \cup Final
          /\ co.upd.final # "none" => exec[r].root \in Final /\ co.upd.err = "none"
          /\ co.upd.state = "cancelling" => co.upd.err = "none"
          /\ co.upd.err \notin {"unverified", "threw"} => exec[r].root # "none"
      BY <2>2, <2>5 DEF Answers, Updates, AtRest
    <3>3. stage[r] # "none" /\ stage[r] # "cancelled"
      BY <1>1, <2>2, <2>5 DEF Frozen
    <3> QED
      BY ONLY <1>1, <1>q, <2>1, <3>1, <3>2, <3>3 DEF Command, CommitsAreSound, Final
  <2> QED
    BY <2>3, <2>4, <2>5
<1>13. ASSUME Restart PROVE Command(r)'
  <2>1. calls' = calls /\ pc'[r] = "idle" /\ ctl'[r].at = "idle" /\ UNCHANGED store
    BY <1>13 DEF Restart, NoCtl
  <2>2. ~Start(r)
    BY <1>1, <2>1, CallsTell
  <2> QED
    BY ONLY <1>1, <1>2, <1>q, <2>1, <2>2 DEF Command, store
<1> QED
  BY <1>3, <1>4, <1>5, <1>6, <1>7, <1>8, <1>9, <1>10, <1>11, <1>12, <1>13, OwnDispatch
     DEF Next, Dispatch, Pass

LEMMA FrozenStep ==
  ASSUME IInv, [Next]_vars, NEW r \in Request
  PROVE  Frozen(r)'
<1>1. Store /\ Process /\ Working /\ CommitsAreSound /\ Command(r) /\ Frozen(r) /\ Coordinator
  BY TypesAre DEF IInv, Requests
<1>2. /\ exec'[r].flow = exec[r].flow /\ (exec[r].root \in Final => exec'[r].root \in Final)
      /\ ~At(r) /\ AtRest(exec[r]) => AtRest(exec'[r])
  BY RecordsMove
<1>3. target[r].state \in Settled => ~At(r)
  BY <1>1 DEF Coordinator, At
<1>4. ASSUME stage'[r] = stage[r], target'[r].state = target[r].state, cancel' = cancel,
             r \in known => r \in known'
      PROVE  Frozen(r)'
  BY ONLY <1>1, <1>2, <1>3, <1>4 DEF Frozen
<1>5. ASSUME NEW q \in Request,
             Start(q) \/ Find(q) \/ RootRuns(q) \/ ChildRuns(q) \/ LeaseLost(q)
               \/ Look(q) \/ LookThrows(q) \/ AskControl(q) \/ ActControl(q) \/ Observe(q) \/ EndControl(q)
      PROVE  UNCHANGED <<stage, target, cancel, known>>
  BY <1>5 DEF Start, Find, RootRuns, ChildRuns, LeaseLost, Look, LookThrows, AskControl, ActControl, Observe,
              EndControl, store
<1>6. ASSUME Reconcile \/ AskEmployee \/ Fence \/ Stop \/ StopThrows \/ PassDone \/ Restart \/ UNCHANGED vars
      PROVE  UNCHANGED <<stage, target, cancel, known>>
  BY <1>6 DEF Reconcile, AskEmployee, Fence, Stop, StopThrows, PassDone, Restart, vars, store
<1>7. ASSUME NEW q \in Request, Execute(q) PROVE Frozen(r)'
  <2>1. UNCHANGED <<target, cancel, known>>
        /\ (stage' = stage \/ (cancel = "none" /\ stage' = [stage EXCEPT ![q] = "recorded"]))
    BY <1>7 DEF Execute
  <2>2. CASE stage' = stage
    BY <1>4, <2>1, <2>2
  <2>3. CASE cancel = "none" /\ stage' = [stage EXCEPT ![q] = "recorded"]
    <3>1. target'[r].state = "none" /\ cancel' = "none" /\ stage'[r] \in {stage[r], "recorded"}
      BY <1>1, <2>1, <2>3 DEF CommitsAreSound, Store
    <3> QED
      BY ONLY <1>1, <3>1, <2>1 DEF Frozen, Settled
  <2> QED
    BY <2>1, <2>2, <2>3
<1>8. ASSUME NEW q \in Request, Claim(q) PROVE Frozen(r)'
  <2>1. UNCHANGED <<target, cancel, known, exec>>
        /\ (stage'[r] = stage[r]
              \/ (stage[r] = "recorded" /\ stage'[r] = "dispatching"))
    BY <1>1, <1>8 DEF Claim, Store
  <2> QED
    BY ONLY <1>1, <2>1 DEF Frozen
<1>9. ASSUME NEW q \in Request, Link(q) PROVE Frozen(r)'
  <2>1. CASE UNCHANGED <<stage, target, cancel, known>>
    BY <1>4, <2>1
  <2>2. CASE /\ stage[q] \notin {"linked", "cancelled"}
             /\ stage' = [stage EXCEPT ![q] = "linked"]
             /\ known' = known \cup {q}
             /\ target' = [target EXCEPT ![q].known = target[q].state # "none"]
             /\ cancel' = cancel /\ pc[q] = "link" /\ exec' = exec
    <3>1. target'[r].state = target[r].state
      BY <1>1, <2>2 DEF Store, Targets
    <3>2. CASE q # r
      BY <1>1, <1>4, <2>2, <3>1, <3>2 DEF Store
    <3>3. CASE q = r
      <4>1. stage'[r] = "linked" /\ r \in known' /\ stage[r] # "none"
        BY <1>1, <2>2, <3>3 DEF Store, Command
      <4>2. target[r].state \notin Settled
        BY <1>1, <2>2, <3>3 DEF Frozen
      <4> QED
        BY ONLY <1>1, <2>2, <3>1, <4>1, <4>2 DEF Frozen
    <3> QED
      BY <3>2, <3>3
  <2> QED
    BY <1>9, <2>1, <2>2 DEF Link
<1>10. ASSUME NEW q \in Request, Fail(q) PROVE Frozen(r)'
  <2>1. UNCHANGED <<target, cancel, known, exec>>
        /\ (stage'[r] = stage[r]
              \/ (/\ stage[r] \notin {"linked", "cancelled"} /\ stage'[r] = "outcome-unknown"
                  /\ pc[r] = "fail"))
    BY <1>1, <1>10 DEF Fail, Store
  <2>2. r \in known <=> stage[r] = "linked"
    BY <1>1 DEF CommitsAreSound
  <2>3. pc[r] = "fail" => stage[r] # "none"
    BY <1>1 DEF Command
  <2> QED
    BY ONLY <1>1, <2>1, <2>2, <2>3 DEF Frozen
<1>11. ASSUME BeginCancel PROVE Frozen(r)'
  <2>1. /\ cancel = "none" /\ exec' = exec /\ known' = known
        /\ \/ /\ stage[r] = "none" \/ (run[r] \notin Active /\ ~exec[r].flow)
              /\ stage'[r] = stage[r] /\ target'[r] = NoTarget
           \/ /\ stage[r] = "recorded" /\ stage'[r] = "cancelled"
              /\ target'[r].state = "cancelled"
           \/ /\ stage[r] \notin {"none", "recorded"} /\ stage'[r] = stage[r]
              /\ target'[r] = [NoTarget EXCEPT !.state = "pending", !.known = r \in known]
    BY <1>11 DEF BeginCancel
  <2>2. NoTarget \in Targets /\ NoTarget.state = "none"
    BY DEF NoTarget, Targets
  <2>3. PICK b \in BOOLEAN : b <=> r \in known
    OBVIOUS
  <2>4. [NoTarget EXCEPT !.state = "pending", !.known = b].state = "pending"
    BY <2>2 DEF Targets
  <2>5. \/ /\ stage[r] = "none" \/ (run[r] \notin Active /\ ~exec[r].flow)
           /\ stage'[r] = stage[r] /\ target'[r].state = "none"
        \/ stage'[r] = "cancelled" /\ target'[r].state = "cancelled"
        \/ /\ stage[r] \notin {"none", "recorded"} /\ stage'[r] = stage[r]
           /\ target'[r].state = "pending"
    BY <2>1, <2>2, <2>3, <2>4
  <2>6. stage[r] # "cancelled"
    BY <1>1, <2>1 DEF CommitsAreSound, Frozen, Settled
  <2>7. run[r] \in {"none"} \cup Active \cup Final
    BY <1>1 DEF Store, Status
  <2> QED
    BY ONLY <1>1, <2>1, <2>5, <2>6, <2>7 DEF Frozen, Command, Settled
<1>12. ASSUME Write PROVE Frozen(r)'
  <2>1. /\ co.r \in Request /\ Answers(co.upd, exec[co.r])
        /\ target[co.r].state \notin {"none"} \cup Settled
        /\ cancel # "none"
    BY <1>12 DEF Write, IInv, Coordinator, Types, TypeOK
  <2>2. CASE store' = store
    BY <1>4, <2>2 DEF store
  <2>3. CASE store' # store
    <3>1. /\ exec' = exec
          /\ target'[r].state = IF r = co.r THEN co.upd.state ELSE target[r].state
          /\ known \subseteq known'
          /\ stage'[r] = IF r = co.r /\ co.upd.err \notin {"unverified", "threw"} THEN "linked" ELSE stage[r]
      BY <1>1, <1>12, <2>1, <2>3 DEF Write, Store
    <3>2. CASE r = co.r
      <4>1. /\ co.upd.state \in Settled => AtRest(exec[r]) /\ co.upd.err = "none"
            /\ co.upd.state # "none"
        BY <2>1, <3>2 DEF Answers, Updates, Settled
      <4> QED
        BY ONLY <1>1, <2>1, <3>1, <3>2, <4>1 DEF Frozen
    <3>3. CASE r # co.r
      BY ONLY <1>1, <2>1, <3>1, <3>3 DEF Frozen
    <3> QED
      BY <3>2, <3>3
  <2> QED
    BY <2>2, <2>3
<1> QED
  BY <1>4, <1>5, <1>6, <1>7, <1>8, <1>9, <1>10, <1>11, <1>12 DEF Next, Dispatch, Pass

LEMMA CoordinatorStep == ASSUME IInv, [Next]_vars PROVE Coordinator'
<1>1. Store /\ Process /\ Working /\ CommitsAreSound /\ Coordinator
  BY TypesAre DEF IInv
<1>2. \A r \in Request :
        /\ Sound(exec'[r]) /\ exec'[r].flow = exec[r].flow
        /\ exec[r].root # "none" => exec'[r].root # "none"
        /\ ~At(r) /\ AtRest(exec[r]) => AtRest(exec'[r])
  BY RecordsMove
<1>3. ASSUME UNCHANGED co, cancel # "none" => cancel' # "none",
             \A r \in Request : target'[r].state = target[r].state
      PROVE  Coordinator'
  <2>1. co.at \in {"ask", "fence", "stop", "write"} => co.r \in Request
    BY <1>1 DEF Coordinator, Working
  <2>2. ASSUME co.at = "write" PROVE Answers(co.upd, exec'[co.r])
    <3>1. Answers(co.upd, exec[co.r]) /\ ~At(co.r) /\ co.r \in Request
      BY <1>1, <2>1, <2>2 DEF Coordinator, At
    <3> QED
      BY <1>2, <3>1 DEF Answers
  <2>3. \A r \in co.todo : target'[r].state \notin {"none"} \cup Settled
    BY <1>1, <1>3 DEF Coordinator, Working
  <2> QED
    BY ONLY <1>1, <1>2, <1>3, <2>1, <2>2, <2>3 DEF Coordinator
<1>4. ASSUME NEW r \in Request,
             Execute(r) \/ Claim(r) \/ Start(r) \/ Find(r) \/ Link(r) \/ Fail(r) \/ Observe(r)
               \/ RootRuns(r) \/ ChildRuns(r) \/ LeaseLost(r)
               \/ AskControl(r) \/ ActControl(r) \/ EndControl(r)
      PROVE  Coordinator'
  <2>1. UNCHANGED <<co, cancel>>
    BY <1>4 DEF Execute, Claim, Start, Find, Link, Fail, Observe, RootRuns, ChildRuns, LeaseLost,
                AskControl, ActControl, EndControl, store
  <2>2. target' = target \/ target' = [target EXCEPT ![r].known = target[r].state # "none"]
    BY <1>4 DEF Execute, Claim, Start, Find, Link, Fail, Observe, RootRuns, ChildRuns, LeaseLost,
                AskControl, ActControl, EndControl, store
  <2>3. \A q \in Request : target'[q].state = target[q].state
    BY <1>1, <2>2 DEF Store, Targets
  <2> QED
    BY <1>3, <2>1, <2>3
<1>5. ASSUME UNCHANGED vars PROVE Coordinator'
  BY <1>3, <1>5 DEF vars, store
<1>6. ASSUME NEW todo \in SUBSET Request, co' = [Rest EXCEPT !.at = "pass", !.todo = todo],
             cancel' # "none", \A r \in todo : target'[r].state \notin {"none"} \cup Settled
      PROVE  Coordinator'
  <2>1. co' = [at |-> "pass", todo |-> todo, r |-> "none", upd |-> NoTarget]
    BY <1>6 DEF Rest
  <2> QED
    BY <1>6, <2>1 DEF Coordinator
<1>7. ASSUME co' = Rest PROVE Coordinator'
  BY <1>7 DEF Coordinator, Rest
<1>8. ASSUME BeginCancel PROVE Coordinator'
  <2> DEFINE frozen == {r \in Request : stage[r] # "none" /\ (run[r] \in Active \/ exec[r].flow)}
             early == {r \in frozen : stage[r] = "recorded"}
  <2>1. /\ co' = [Rest EXCEPT !.at = "pass", !.todo = frozen \ early]
        /\ \A r \in frozen \ early :
             target'[r] = [NoTarget EXCEPT !.state = "pending", !.known = r \in known]
        /\ cancel' \in {"cancelled", "requested", Aggregate(target')}
    BY <1>8 DEF BeginCancel
  <2>2. \A r \in Request :
          target'[r].state \in {"none", "pending", "cancelling", "unknown"} \cup Settled
    BY StoreStep DEF Store, Targets
  <2>3. cancel' # "none"
    BY <2>1, <2>2, AggregateOf
  <2> HIDE DEF frozen, early
  <2>4. NoTarget \in Targets
    BY DEF NoTarget, Targets
  <2>5. ASSUME NEW r \in frozen \ early PROVE target'[r].state = "pending"
    <3>1. PICK b \in BOOLEAN : b <=> r \in known
      OBVIOUS
    <3>2. target'[r] = [NoTarget EXCEPT !.state = "pending", !.known = b]
      BY <2>1, <3>1
    <3> QED
      BY <2>4, <3>2 DEF Targets
  <2>6. frozen \ early \subseteq Request
    BY DEF frozen
  <2> QED
    BY <1>6, <2>1, <2>3, <2>5, <2>6 DEF Settled
<1>9. ASSUME Reconcile PROVE Coordinator'
  <2>1. UNCHANGED store
    BY <1>9 DEF Reconcile
  <2>2. CASE UNCHANGED co
    BY <1>3, <2>1, <2>2 DEF store
  <2>3. CASE /\ cancel \notin {"none", "cancelled"}
             /\ co' = [Rest EXCEPT !.at = "pass", !.todo =
                         {r \in Request : target[r].state \notin {"none"} \cup Settled}]
    <3> DEFINE todo == {r \in Request : target[r].state \notin {"none"} \cup Settled}
    <3>1. todo \in SUBSET Request /\ \A r \in todo : target'[r].state \notin {"none"} \cup Settled
      BY <2>1 DEF store
    <3>2. cancel' # "none"
      BY <2>1, <2>3 DEF store
    <3>3. co' = [Rest EXCEPT !.at = "pass", !.todo = todo]
      BY <2>3
    <3> HIDE DEF todo
    <3> QED
      BY <1>6, <3>1, <3>2, <3>3
  <2> QED
    BY <1>9, <2>2, <2>3 DEF Reconcile
<1>10. ASSUME Write PROVE Coordinator'
  <2>1. CASE co' = Rest
    BY <1>7, <2>1
  <2>2. CASE /\ store' # store
             /\ co' = [Rest EXCEPT !.at = "pass", !.todo = co.todo \ {co.r}]
    <3>1. /\ \E e : target' = [target EXCEPT ![co.r] = e]
          /\ cancel' = Aggregate(target')
      BY <1>10, <2>2 DEF Write
    <3>2. \A r \in Request :
            target'[r].state \in {"none", "pending", "cancelling", "unknown"} \cup Settled
      BY StoreStep DEF Store, Targets
    <3>3. cancel' # "none"
      BY <3>1, <3>2, AggregateOf
    <3>4. co.todo \ {co.r} \subseteq Request
      BY <1>1 DEF Working
    <3>5. \A r \in co.todo \ {co.r} : target'[r].state \notin {"none"} \cup Settled
      BY <1>1, <3>1, <3>4 DEF Coordinator, Store
    <3> QED
      BY <1>6, <2>2, <3>3, <3>4, <3>5
  <2>3. co' = Rest \/ co' = [Rest EXCEPT !.at = "pass", !.todo = co.todo \ {co.r}]
    BY <1>10 DEF Write
  <2>4. CASE /\ store' = store
             /\ co' = [Rest EXCEPT !.at = "pass", !.todo = co.todo \ {co.r}]
    <3>1. /\ cancel' # "none" /\ target' = target
      BY <1>1, <1>10, <2>4 DEF Write, Coordinator, store
    <3>2. co.todo \ {co.r} \subseteq Request
      BY <1>1 DEF Working
    <3>3. \A r \in co.todo \ {co.r} : target'[r].state \notin {"none"} \cup Settled
      BY <1>1, <3>1 DEF Coordinator
    <3> QED
      BY <1>6, <2>4, <3>1, <3>2, <3>3
  <2> QED
    BY <2>1, <2>2, <2>3, <2>4
<1>11. ASSUME PassDone \/ Restart PROVE Coordinator'
  BY <1>7, <1>11 DEF PassDone, Restart
<1>12. ASSUME NEW r \in Request, Look(r) PROVE Coordinator'
  <2> DEFINE d == Decision(r)
  <2>1. /\ UNCHANGED <<store, exec>> /\ co.at = "pass" /\ r \in co.todo
        /\ \/ /\ exec[r].root # "none"
              /\ co' = [co EXCEPT !.at = IF exec[r].flow THEN "fence" ELSE "ask", !.r = r]
           \/ /\ exec[r].root = "none"
              /\ co' = [co EXCEPT !.at = "write", !.r = r,
                                  !.upd = Outcome("unknown", "none", "unverified")]
           \/ /\ exec[r].root # "none"
              /\ co' = [co EXCEPT !.at = "write", !.r = r, !.upd = IF d.ask THEN Unknown ELSE d]
    BY <1>12 DEF Look
  <2>2. exec[r].root # "none" => Answers(d, exec[r])
    BY Records, DecisionAnswers DEF Decision
  <2>3. /\ exec[r].root # "none" => Answers(Unknown, exec[r])
        /\ exec[r].root = "none" => Answers(Outcome("unknown", "none", "unverified"), exec[r])
    BY DEF Outcome, Unknown, Answers, Updates, Settled
  <2> HIDE DEF d
  <2>4. exec[r].root # "none" => Answers(IF d.ask THEN Unknown ELSE d, exec[r])
    BY <2>2, <2>3
  <2>5. \E at \in {"ask", "fence", "write"} : \E u :
          /\ co' = [co EXCEPT !.at = at, !.r = r, !.upd = u]
          /\ at = "write" => Answers(u, exec[r])
          /\ at = "ask" => ~exec[r].flow /\ exec[r].root # "none"
          /\ at = "fence" => exec[r].flow /\ exec[r].root # "none"
    <3>1. ASSUME NEW at, co' = [co EXCEPT !.at = at, !.r = r]
          PROVE  co' = [co EXCEPT !.at = at, !.r = r, !.upd = co.upd]
      BY <1>1, <3>1 DEF Working
    <3>2. (IF exec[r].flow THEN "fence" ELSE "ask") \in {"fence", "ask"}
      OBVIOUS
    <3> QED
      BY <2>1, <2>3, <2>4, <3>1, <3>2
  <2>6. /\ co'.todo = co.todo /\ co'.r = r /\ co'.at \in {"ask", "fence", "write"}
        /\ co'.at = "write" => Answers(co'.upd, exec[r])
        /\ co'.at = "ask" => ~exec[r].flow /\ exec[r].root # "none"
        /\ co'.at = "fence" => exec[r].flow /\ exec[r].root # "none"
    BY <1>1, <2>5 DEF Working
  <2>7. cancel # "none"
    BY <1>1, <2>1 DEF Coordinator
  <2> QED
    BY ONLY <1>1, <2>1, <2>6, <2>7 DEF Coordinator, store
<1>13. ASSUME AskEmployee \/ Fence \/ Stop \/ StopThrows
       PROVE  /\ co.r \in Request /\ co.r \in co.todo /\ exec[co.r].root # "none"
              /\ UNCHANGED store /\ cancel # "none"
  BY <1>1, <1>13 DEF AskEmployee, Fence, Stop, StopThrows, Coordinator, Working
<1>14. ASSUME AskEmployee \/ Fence \/ Stop \/ StopThrows, NEW u, Answers(u, exec'[co.r]),
              co' = [co EXCEPT !.at = "write", !.upd = u]
       PROVE  Coordinator'
  <2>1. co'.at = "write" /\ co'.todo = co.todo /\ co'.r = co.r /\ co'.upd = u
    BY <1>1, <1>14 DEF Working
  <2>2. UNCHANGED store /\ cancel # "none" /\ co.r \in co.todo
    BY <1>13, <1>14
  <2> QED
    BY ONLY <1>1, <1>14, <2>1, <2>2 DEF Coordinator, store
<1>15. ASSUME AskEmployee PROVE Coordinator'
  <2>1. ~exec[co.r].flow
    BY <1>1, <1>15 DEF AskEmployee, Coordinator
  <2>2. CASE \E e \in EmployeeCancelled(exec[co.r]) :
               /\ exec' = [exec EXCEPT ![co.r] = e]
               /\ co' = [co EXCEPT !.at = "write", !.upd = EmployeeDecision(e)]
    <3>1. PICK e \in EmployeeCancelled(exec[co.r]) :
               /\ exec' = [exec EXCEPT ![co.r] = e]
               /\ co' = [co EXCEPT !.at = "write", !.upd = EmployeeDecision(e)]
      BY <2>2
    <3>2. exec'[co.r] = e /\ Sound(e) /\ ~e.flow /\ e.root # "none"
      BY <1>2, <1>13, <1>15, <2>1, <3>1, Records
    <3> QED
      BY <1>14, <1>15, <3>1, <3>2, DecisionAnswers
  <2>3. CASE exec' = exec /\ co' = [co EXCEPT !.at = "write", !.upd = Unknown]
    BY <1>13, <1>14, <1>15, <2>3, AnswersAre
  <2> QED
    BY <1>15, <2>2, <2>3 DEF AskEmployee
<1>16. ASSUME Fence PROVE Coordinator'
  <2>1. CASE co' = [co EXCEPT !.at = "write", !.upd = Unknown] /\ exec' = exec
    BY <1>13, <1>14, <1>16, <2>1, AnswersAre
  <2>2. CASE co' = [co EXCEPT !.at = "stop"]
    <3>1. co'.at = "stop" /\ co'.todo = co.todo /\ co'.r = co.r
      BY <1>1, <2>2 DEF Working
    <3>2. /\ co.r \in co.todo /\ co.r \in Request /\ UNCHANGED store /\ cancel # "none"
          /\ exec'[co.r].root # "none" /\ exec'[co.r].flow
      BY <1>1, <1>2, <1>13, <1>16 DEF Fence, Coordinator
    <3> QED
      BY ONLY <1>1, <3>1, <3>2 DEF Coordinator, store
  <2> QED
    BY <1>16, <2>1, <2>2 DEF Fence
<1>18. ASSUME StopThrows PROVE Coordinator'
  <2>1. co' = [co EXCEPT !.at = "write", !.upd = Unknown] /\ exec'[co.r].root # "none"
    BY <1>2, <1>13, <1>18 DEF StopThrows
  <2> QED
    BY <1>13, <1>14, <1>18, <2>1, AnswersAre
<1>19. ASSUME NEW r \in Request, LookThrows(r) PROVE Coordinator'
  <2> DEFINE u == Outcome("unknown", "none", "threw")
  <2>1. /\ UNCHANGED <<store, exec>> /\ co.at = "pass" /\ r \in co.todo
        /\ co' = [co EXCEPT !.at = "write", !.r = r, !.upd = u]
    BY <1>19 DEF LookThrows
  <2>2. Answers(u, exec[r])
    BY DEF Outcome, Answers, Updates, Settled
  <2>3. co'.todo = co.todo /\ co'.r = r /\ co'.at = "write" /\ co'.upd = u
    BY <1>1, <2>1 DEF Working
  <2>4. cancel # "none"
    BY <1>1, <2>1 DEF Coordinator
  <2> HIDE DEF u
  <2> QED
    BY ONLY <1>1, <2>1, <2>2, <2>3, <2>4 DEF Coordinator, store
<1>17. ASSUME Stop PROVE Coordinator'
  <2>1. exec[co.r].flow
    BY <1>1, <1>17 DEF Stop, Coordinator
  <2>2. PICK e : exec' = [exec EXCEPT ![co.r] = e]
                 /\ co' = [co EXCEPT !.at = "write", !.upd = WorkflowDecision(e)]
    BY <1>17 DEF Stop
  <2>3. exec'[co.r] = e /\ Sound(e) /\ e.flow /\ e.root # "none"
    BY <1>2, <1>13, <1>17, <2>1, <2>2, Records
  <2> QED
    BY <1>14, <1>17, <2>2, <2>3, DecisionAnswers
<1> QED
  BY <1>4, <1>5, <1>8, <1>9, <1>10, <1>11, <1>12, <1>15, <1>16, <1>17, <1>18,
     <1>19 DEF Next, Dispatch, Pass

-----------------------------------------------------------------------------
(* The theorems.                                                           *)

LEMMA InductiveStep == IInv /\ [Next]_vars => IInv'
<1> SUFFICES ASSUME IInv, [Next]_vars PROVE IInv'
  OBVIOUS
<1>1. \A r \in Request : Command(r)' /\ Frozen(r)'
  BY CommandStep, FrozenStep
<1>2. Requests'
  BY <1>1 DEF Requests
<1> QED
  BY <1>2, TypesStep, CommitsStep, CoordinatorStep DEF IInv

\* The types, the stored facts, those of each request and those of the coordinator
\* hold in every state.
THEOREM Invariance == Spec => []IInv
BY Initially, InductiveStep, PTL DEF Spec

\* Every variable keeps its type.
THEOREM TypeCorrect == Spec => []TypeOK
<1>1. IInv => TypeOK
  BY DEF IInv, Types
<1> QED
  BY <1>1, Invariance, PTL

\* A command is handed to an executor at most once (execution-service 83-118).
THEOREM StartsOnce == Spec => []StartedOnce
<1>1. IInv => StartedOnce
  BY DEF IInv, Requests, Command, StartedOnce
<1> QED
  BY <1>1, Invariance, PTL

\* A command cancelled before its dispatch never reaches an executor.
THEOREM CancelledNeverStart == Spec => []NeverAfterCancel
<1>1. ASSUME IInv, NEW r \in Request, run[r] = "cancelled", r \notin known
      PROVE  calls[r] = 0
  BY <1>1 DEF IInv, Requests, Command, Final
<1>2. IInv => NeverAfterCancel
  BY <1>1 DEF NeverAfterCancel
<1> QED
  BY <1>2, Invariance, PTL

\* No commit is refused by assertTaskCancellationIntegrity (work-item-store 750-830).
THEOREM SoundCommits == Spec => []CommitsAreSound
<1>1. IInv => CommitsAreSound
  BY DEF IInv
<1> QED
  BY <1>1, Invariance, PTL

\* Of a cancelled task every command was cancelled before its dispatch, or has a
\* record that is at rest.
LEMMA CancelledRests ==
  ASSUME IInv, task = "cancelled", NEW r \in Request
  PROVE  \/ exec[r].root = "none" /\ stage[r] \in {"none", "cancelled"}
         \/ AtRest(exec[r])
<1>1. Store /\ Command(r) /\ Frozen(r) /\ CommitsAreSound /\ Sound(exec[r])
  BY TypesAre, Records DEF IInv, Requests
<1>2. cancel = "cancelled" /\ Aggregate(target) = "cancelled"
  BY <1>1 DEF CommitsAreSound
<1>3. target[r].state \in {"none"} \cup Settled
  BY <1>1, <1>2, AggregateOf DEF Store, Targets
<1>4. stage[r] \in {"none", "cancelled"} => exec[r].root = "none"
  BY <1>1 DEF Command
<1>5. stage[r] \notin {"none", "cancelled"} /\ target[r].state = "none" => AtRest(exec[r])
  BY <1>1, <1>2 DEF Frozen, AtRest, Sound, Shaped
<1> QED
  BY <1>1, <1>3, <1>4, <1>5 DEF Frozen

\* A task that is reported cancelled has no executor run left that could go on.
THEOREM CancelledStops == Spec => []RootsStopped
<1>1. IInv => RootsStopped
  BY CancelledRests DEF RootsStopped, AtRest, Final
<1> QED
  BY <1>1, Invariance, PTL

\* Nor does a tree that was fenced.
THEOREM CancelledTreesRest == Spec => []FencedTreesRest
<1>1. ASSUME IInv, task = "cancelled", NEW r \in Request, exec[r].tree # "none"
      PROVE  exec[r].child \in {"none", "done"}
  <2>1. Sound(exec[r])
    BY <1>1, Records
  <2>2. CASE exec[r].root = "none"
    BY <2>1, <2>2 DEF Sound, Shaped
  <2>3. CASE AtRest(exec[r])
    BY <1>1, <2>1, <2>3 DEF AtRest, Sound, Quiet
  <2> QED
    BY <1>1, <2>2, <2>3, CancelledRests
<1>2. IInv => FencedTreesRest
  BY <1>1 DEF FencedTreesRest
<1> QED
  BY <1>2, Invariance, PTL

\* Nothing takes a final outcome back.
THEOREM FinalStays == Spec => FinalIsFinal
<1> DEFINE Kept == /\ task = "cancelled" => task' = "cancelled"
                   /\ \A r \in Request :
                        /\ target[r].state \in Settled => target'[r] = target[r] /\ run'[r] = run[r]
                        /\ r \in known => r \in known'
<1>1. ASSUME IInv, [Next]_vars PROVE Kept
  <2>1. Store /\ Process /\ Working /\ CommitsAreSound /\ Coordinator /\ Requests
    BY <1>1, TypesAre DEF IInv
  <2>2. \A r \in Request :
          /\ stage[r] = "none" \/ stage[r] \notin {"linked", "cancelled"} =>
               target[r].state \notin Settled
          /\ cancel = "none" => target[r].state = "none"
    BY <2>1 DEF Requests, Frozen, CommitsAreSound
  <2>0. cancel = "none" => task # "cancelled"
    BY <2>1 DEF CommitsAreSound
  <2>3. UNCHANGED store => Kept
    BY DEF store
  <2>4. ASSUME NEW r \in Request, Execute(r) PROVE Kept
    <3>1. UNCHANGED <<target, known>>
          /\ \/ UNCHANGED <<run, task>>
             \/ cancel = "none"
      BY <2>4 DEF Execute
    <3> QED
      BY <2>0, <2>2, <3>1 DEF Settled
  <2>5. ASSUME NEW r \in Request, Claim(r) \/ Fail(r) PROVE Kept
    <3>1. UNCHANGED <<target, known, task>>
          /\ (run' = run \/ (stage[r] \notin {"linked", "cancelled"}
                             /\ run' = [run EXCEPT ![r] = "interrupted"]))
      BY <2>5 DEF Claim, Fail
    <3> QED
      BY <2>1, <2>2, <3>1 DEF Store
  <2>6. ASSUME NEW r \in Request, Link(r) PROVE Kept
    <3>1. task' = task /\ known \subseteq known'
          /\ \/ UNCHANGED <<run, target>>
             \/ /\ stage[r] \notin {"linked", "cancelled"}
                /\ run' = [run EXCEPT ![r] = seen[r]]
                /\ \E b \in BOOLEAN : target' = [target EXCEPT ![r].known = b]
      BY <2>6 DEF Link
    <3> QED
      BY <2>1, <2>2, <3>1 DEF Store
  <2>7. ASSUME NEW r \in Request, Observe(r) PROVE Kept
    <3>1. UNCHANGED <<target, known, task>>
          /\ (run' = run \/ (target[r].state = "none" /\ run' = [run EXCEPT ![r] = exec[r].root]))
      BY <2>7 DEF Observe, Owned
    <3> QED
      BY <2>1, <3>1 DEF Store, Settled
  <2>8. ASSUME NEW r \in Request, EndControl(r) PROVE Kept
    BY <2>1, <2>8 DEF EndControl, Store
  <2>9. ASSUME BeginCancel PROVE Kept
    <3>1. cancel = "none" /\ known' = known
      BY <2>9 DEF BeginCancel
    <3> QED
      BY <2>0, <2>2, <3>1 DEF Settled
  <2>10. ASSUME Write PROVE Kept
    <3>1. /\ co.r \in Request /\ target[co.r].state \notin Settled /\ known \subseteq known'
          /\ \E e : target' = target \/ target' = [target EXCEPT ![co.r] = e]
          /\ \E e : run' = run \/ run' = [run EXCEPT ![co.r] = e]
          /\ task' \in {task, "cancelled"}
      BY <2>1, <2>10 DEF Write, Coordinator, Working, store
    <3> QED
      BY <2>1, <3>1 DEF Store
  <2>11. ASSUME NEW r \in Request,
                Start(r) \/ Find(r) \/ RootRuns(r) \/ ChildRuns(r) \/ LeaseLost(r)
                  \/ AskControl(r) \/ ActControl(r) \/ Look(r) \/ LookThrows(r)
         PROVE  UNCHANGED store
    BY <2>11 DEF Start, Find, RootRuns, ChildRuns, LeaseLost, AskControl, ActControl, Look, LookThrows
  <2>12. ASSUME Reconcile \/ AskEmployee \/ Fence \/ Stop \/ StopThrows \/ PassDone \/ Restart \/ UNCHANGED vars
         PROVE  UNCHANGED store
    BY <2>12 DEF Reconcile, AskEmployee, Fence, Stop, StopThrows, PassDone, Restart, vars
  <2> QED
    BY <1>1, <2>3, <2>4, <2>5, <2>6, <2>7, <2>8, <2>9, <2>10, <2>11, <2>12
       DEF Next, Dispatch, Pass
<1>2. IInv /\ [Next]_vars => [Kept]_vars
  BY <1>1
<1> QED
  BY <1>2, Invariance, PTL DEF Spec, FinalIsFinal
=============================================================================
