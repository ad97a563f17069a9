------------------------------ MODULE DurableRun ------------------------------
(***************************************************************************)
(* What a durable run promises to whoever starts it and looks at its       *)
(* record: its nodes complete in the order of the graph and stay           *)
(* completed, a call that must not be repeated is made once until a person *)
(* vouches that it never happened, nothing is executed over a call whose   *)
(* outcome is not on record, a requested cancellation is never forgotten,  *)
(* and a cancelled run stays cancelled.  A completed run may be reported   *)
(* as failed, and be resumed, but not a node of it runs again.  It says    *)
(* nothing of leases, copies of the record, journals, aborts, retries or   *)
(* crashes: WorkflowRun keeps these promises in the midst of them.         *)
(***************************************************************************)
CONSTANTS Node,     \* the nodes of the workflow
          Deps,     \* Deps[n]: the nodes n waits for
          Once      \* the nodes whose call must not be repeated

VARIABLES status,   \* of the run, as anybody can read it
          cancel,   \* has somebody asked for its cancellation?
          done,     \* the nodes that are completed
          called    \* the members of Once that have made their call

vars == <<status, cancel, done, called>>

\* Calls whose outcome is not on record.
Open == called \ done
Resting == {"paused", "failed"}
Over == {"completed", "cancelled"}

Init == status = "queued" /\ cancel = FALSE /\ done = {} /\ called = {}

Turns(from, to) == status \in from /\ status' = to

Claim == /\ Turns({"queued"}, "running")
         /\ Open = {}
         /\ UNCHANGED <<cancel, done, called>>

\* It is the turn of n.
Due(n) == n \notin done /\ Deps[n] \subseteq done

Call(n) == /\ status = "running" /\ n \in Once \ called /\ Due(n)
           /\ called' = called \cup {n}
           /\ UNCHANGED <<status, cancel, done>>

Complete(n) == /\ status = "running" /\ Due(n)
               /\ n \in Once => n \in called
               /\ done' = done \cup {n}
               /\ UNCHANGED <<status, cancel, called>>

\* An interrupted execution, or one with a call in doubt, stops for a person.
Pause == /\ Turns({"running"}, "paused")
         /\ UNCHANGED <<cancel, done, called>>

\* Every other way to end an execution leaves no call open: it is to be
\* repeated, waits for an approval, has failed, was cancelled or is complete.
End == /\ \/ Turns({"running"}, "queued")
          \/ Turns({"running"}, "waiting-approval")
          \/ Turns({"running"}, "failed")
          \/ Turns({"running"}, "cancelled") /\ cancel
          \/ Turns({"running"}, "completed") /\ done = Node
       /\ Open = {}
       /\ UNCHANGED <<cancel, done, called>>

\* The run is completed and cannot be noted as such in its definition.
Misreport == /\ Turns({"completed"}, "failed")
             /\ UNCHANGED <<cancel, done, called>>

\* A run that is not being executed ends at once.
Cancel == /\ status \notin Over
          /\ status' \in {status, "cancelled"}
          /\ status = "queued" => status' = "cancelled"
          /\ cancel' = TRUE
          /\ UNCHANGED <<done, called>>

Approve(n) == /\ Turns({"waiting-approval"}, "queued")
              /\ n \notin Once /\ Due(n) /\ Open = {}
              /\ done' = done \cup {n}
              /\ UNCHANGED <<cancel, called>>

Reject == /\ Turns({"waiting-approval"}, "failed")
          /\ UNCHANGED <<cancel, done, called>>

\* A person has found that the call of n never happened.
Vouch(n) == /\ status \in Resting \cup {"cancelled"}
            /\ n \in Open
            /\ called' = called \ {n}
            /\ UNCHANGED <<status, cancel, done>>

\* What a person found out moves a run between its resting statuses; it goes
\* on when no call is left open.
Settle == /\ \/ \E to \in Resting : Turns(Resting, to)
             \/ Turns(Resting, "queued") /\ Open = {}
          /\ UNCHANGED <<cancel, done, called>>

Next == \/ Claim \/ Pause \/ End \/ Misreport
        \/ Cancel \/ Reject \/ Settle
        \/ \E n \in Node : Call(n) \/ Complete(n) \/ Approve(n) \/ Vouch(n)

Spec == Init /\ [][Next]_vars
=============================================================================
