--------------------------- MODULE EngineContract ---------------------------
(***************************************************************************)
(* What the bridges and the harness take for granted of every engine: one  *)
(* position at most, opened only from flat, closed as a whole, and one     *)
(* decision at most per bar, which says exactly how the position moved.    *)
(***************************************************************************)
EXTENDS Integers

CONSTANT Sizes    \* contracts an engine may ask for

VARIABLES pos,    \* the position the engine believes it holds, signed
          dec     \* what its last on_bar returned

\* A decision dict, by its side, what it does and its qty.
Decision(act, side, qty) == [act |-> act, side |-> side, qty |-> qty]
NoDecision == Decision("none", 0, 0)

Init == pos = 0 /\ dec = NoDecision

Enter(side, qty) ==
    /\ pos = 0
    /\ pos' = side * qty
    /\ dec' = Decision("enter", side, qty)

Exit(side, qty) ==
    /\ pos = side * qty
    /\ pos' = 0
    /\ dec' = Decision("exit", side, qty)

Quiet == dec' = NoDecision /\ UNCHANGED pos

Next == Quiet \/ \E side \in {-1, 1}, qty \in Sizes :
                     Enter(side, qty) \/ Exit(side, qty)

Spec == Init /\ [][Next]_<<pos, dec>>
=============================================================================
