--------------------------- MODULE MCWorkflowRun ---------------------------
(***************************************************************************)
(* Workflow graphs for model checking WorkflowRun.                         *)
(***************************************************************************)
EXTENDS WorkflowRun

\* One node after another: an employee's session, a managed connector write,
\* a tool call and an approval.
ChainNodes == {"brief", "push", "tool", "review"}
ChainKind == [n \in ChainNodes |->
  CASE n = "brief" -> "session" [] n = "push" -> "idempotent"
    [] n = "tool" -> "direct" [] n = "review" -> "approval"]
ChainDeps == [n \in ChainNodes |->
  CASE n = "brief" -> {} [] n = "push" -> {"brief"}
    [] n = "tool" -> {"push"} [] n = "review" -> {"tool"}]

\* A session and a computation side by side, and a node that needs both.
ForkNodes == {"brief", "sum", "report"}
ForkKind == [n \in ForkNodes |-> IF n = "brief" THEN "session" ELSE "pure"]
ForkDeps == [n \in ForkNodes |-> IF n = "report" THEN {"brief", "sum"} ELSE {}]

\* Two nodes with no edge between them.
PairNodes == {"tool", "sum"}
PairKind == [n \in PairNodes |-> IF n = "tool" THEN "direct" ELSE "pure"]
PairDeps == [n \in PairNodes |-> {}]
=============================================================================
