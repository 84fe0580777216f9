------------------------------ MODULE AgentTurn -------------------------------
(***************************************************************************)
(* What one turn of the agent promises its user: it ends after a bounded   *)
(* number of model calls, with an answer as soon as any worker has         *)
(* answered, and the tools it runs on the way are not run again and again  *)
(* with the same arguments.                                                *)
(***************************************************************************)
EXTENDS Integers

CONSTANTS Calls,     \* tool calls with their arguments
          MaxRuns    \* runs of one tool call in a turn

VARIABLES status,    \* "asked", "drafted", "answered" or "failed"
          budget,    \* model calls that the turn may still make
          runs       \* per tool call, how often it ran

vars == <<status, budget, runs>>

\* A turn that has a draft no longer fails.
Follows == [asked    |-> {"asked", "drafted", "failed"},
            drafted  |-> {"drafted", "answered"}]

Init == status = "asked" /\ budget \in Nat /\ runs = [c \in Calls |-> 0]

Running == status \in {"asked", "drafted"}

\* One model call, and the tools it asks for.
Ask == /\ Running
       /\ budget' \in Nat /\ budget' < budget
       /\ status' \in Follows[status]
       /\ runs' \in [Calls -> 0..MaxRuns]
       /\ \A c \in Calls : runs[c] <= runs'[c]

\* The turn moves on without one.
Settle == /\ Running
          /\ status' \in Follows[status] /\ budget' <= budget
          /\ UNCHANGED runs

Next == Ask \/ Settle

\* The turn ends: the code's loops are bounded and every model call returns.
Spec == Init /\ [][Next]_vars /\ <>~Running
=============================================================================
