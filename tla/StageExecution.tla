---------------------------- MODULE StageExecution ----------------------------
(***************************************************************************)
(* What the ledger promises about the execution of an attempt, without     *)
(* leases, tokens or clocks: an attempt is executed at most once, a        *)
(* success is final, and nothing that began or ended is offered again.     *)
(*                                                                         *)
(*   none -> pending -> executing -> parked <-> aborted                    *)
(*                                   parked  -> succeeded                  *)
(*                                                                         *)
(* Several attempts may move in one step: a cancel aborts all of them, a   *)
(* retry aborts one and offers the next.                                   *)
(***************************************************************************)
EXTENDS Naturals

CONSTANT Runs

VARIABLES phase, executions

Phase == {"none", "pending", "executing", "parked", "succeeded", "aborted"}

TypeOK == /\ phase \in [Runs -> Phase]
          /\ executions \in [Runs -> 0..1]

Moves == {<<"none", "pending">>}
         \cup ({"pending"} \X {"executing", "parked", "succeeded", "aborted"})
         \cup ({"executing"} \X {"parked", "succeeded", "aborted"})
         \cup ({"parked"} \X {"succeeded", "aborted"})
         \cup {<<"aborted", "parked">>}

Init == /\ phase = [r \in Runs |-> "none"]
        /\ executions = [r \in Runs |-> 0]

\* Attempt r keeps its phase or takes one move; executing it is counted.
Moved(r) ==
    \/ phase'[r] = phase[r] /\ executions'[r] = executions[r]
    \/ /\ <<phase[r], phase'[r]>> \in Moves
       /\ executions'[r] = IF phase'[r] = "executing"
                           THEN executions[r] + 1 ELSE executions[r]

Next == /\ phase' \in [Runs -> Phase]
        /\ executions' \in [Runs -> 0..1]
        /\ \A r \in Runs : Moved(r)

Spec == Init /\ [][Next]_<<phase, executions>>
=============================================================================
