---------------------------- MODULE AtomicCommit ----------------------------
(***************************************************************************)
(* What the workflow stores are promised by their mutation coordinator: a   *)
(* mutation that replaces several state files takes effect at one instant   *)
(* or not at all, and a mutation that was acknowledged has taken effect.    *)
(* A caller that gets an error, or dies with the process, does not learn    *)
(* which.  MutationJournal implements this with a write-ahead intent file.  *)
(***************************************************************************)
CONSTANTS File,       \* the state files
          Content,    \* what a file may hold
          Mutation,   \* the functions [files replaced -> contents]
          Solo,       \* the files an owner may also replace one at a time
          NoCall      \* no mutation is in progress

VARIABLES store,      \* what each file logically holds
          up,         \* is a process running?
          call        \* the mutation being performed, NoCall between calls

vars == <<store, up, call>>

Call == [images : Mutation, stage : {"asked", "done"}]

TypeOK ==
    /\ store \in [File -> Content]
    /\ up \in BOOLEAN
    /\ call \in Call \cup {NoCall}

Init ==
    /\ store \in [File -> Content]
    /\ up = FALSE
    /\ call = NoCall

Start ==
    /\ ~up
    /\ up' = TRUE
    /\ UNCHANGED <<store, call>>

Ask(m) ==
    /\ up
    /\ call = NoCall
    /\ call' = [images |-> m, stage |-> "asked"]
    /\ UNCHANGED <<store, up>>

(* What the files hold once the mutation has been done. *)
Applied(images) == [f \in File |-> IF f \in DOMAIN images THEN images[f] ELSE store[f]]

(* The one instant at which every file of the mutation changes. *)
Commit ==
    /\ up
    /\ call # NoCall
    /\ call.stage = "asked"
    /\ store' = Applied(call.images)
    /\ call' = [call EXCEPT !.stage = "done"]
    /\ UNCHANGED up

Acknowledge ==
    /\ up
    /\ call # NoCall
    /\ call.stage = "done"
    /\ call' = NoCall
    /\ UNCHANGED <<store, up>>

(* An error tells the caller nothing: the mutation may have been done, or   *)
(* is done as the error is raised, or will never be.                        *)
Fail ==
    /\ up
    /\ call # NoCall
    /\ call' = NoCall
    /\ \/ UNCHANGED store
       \/ call.stage = "asked" /\ store' = Applied(call.images)
    /\ UNCHANGED up

(* A state file that one owner replaces on its own, between mutations. *)
Replace(f, c) ==
    /\ up
    /\ f \in Solo
    /\ call = NoCall
    /\ store' = [store EXCEPT ![f] = c]
    /\ UNCHANGED <<up, call>>

Crash ==
    /\ up
    /\ up' = FALSE
    /\ call' = NoCall
    /\ UNCHANGED store

(* While no process runs, a person or a backup tool may do anything. *)
Tamper ==
    /\ ~up
    /\ store' \in [File -> Content]
    /\ UNCHANGED <<up, call>>

Next ==
    \/ Start
    \/ \E m \in Mutation : Ask(m)
    \/ Commit
    \/ Acknowledge
    \/ Fail
    \/ \E f \in File, c \in Content : Replace(f, c)
    \/ Crash
    \/ Tamper

Spec == Init /\ [][Next]_vars
=============================================================================
