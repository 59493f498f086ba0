----------------------------- MODULE ReviewGate -----------------------------
(***************************************************************************)
(* What a human gate promises about one attempt, without surfaces, notes   *)
(* or processes: it passes only on an answer that was recorded while the   *)
(* attempt was open or had been closed on it, an answer never changes, and *)
(* an attempt that has been answered is never opened again.                *)
(*                                                                         *)
(*   unopened -> open -> passed        open <-> refused                    *)
(***************************************************************************)
CONSTANTS Gates, Choices, NoChoice

VARIABLES gate, answer

Init == /\ gate = [a \in Gates |-> "unopened"]
        /\ answer = [a \in Gates |-> NoChoice]

Answered(a) == answer[a] # NoChoice

Moves == {<<"unopened", "open">>, <<"unopened", "refused">>,
          <<"open", "refused">>, <<"open", "passed">>, <<"refused", "open">>}

\* Attempt a stays, moves with its answer as it is, or is answered.
Moved(a) ==
    \/ gate'[a] = gate[a] /\ answer'[a] = answer[a]
    \/ /\ <<gate[a], gate'[a]>> \in Moves
       /\ answer'[a] = answer[a]
       /\ gate'[a] = "passed" => Answered(a)
       /\ gate[a] = "refused" => ~Answered(a)
    \/ /\ ~Answered(a) /\ answer'[a] \in Choices
       /\ gate[a] \in {"open", "refused"} /\ gate'[a] = gate[a]

Next == \A a \in Gates : Moved(a)

Spec == Init /\ [][Next]_<<gate, answer>>
=============================================================================
