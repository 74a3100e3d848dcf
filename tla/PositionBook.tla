---------------------------- MODULE PositionBook ----------------------------
(***************************************************************************)
(* What a bridge promises about its book, whatever the broker does.        *)
(*                                                                         *)
(* Each engine holds at most one position of one contract.  A position is  *)
(* opened only from flat and only while the session trades; it is closed   *)
(* in one step, never reduced or turned over; once the session has stopped *)
(* nothing is opened any more, and the session is over only when every     *)
(* position is closed, unless the process is killed while it stops.        *)
(***************************************************************************)
EXTENDS Integers

CONSTANT Engines

VARIABLES held,    \* the position the book gives each engine
          phase    \* "trading", then "stopping", then "over" or "killed"

Init == held = [e \in Engines |-> 0] /\ phase = "trading"

Open(e, d) ==
    /\ phase = "trading" /\ held[e] = 0
    /\ held' = [held EXCEPT ![e] = d]
    /\ UNCHANGED phase

Close(e) ==
    /\ phase \in {"trading", "stopping"} /\ held[e] # 0
    /\ held' = [held EXCEPT ![e] = 0]
    /\ UNCHANGED phase

Stop == phase = "trading" /\ phase' = "stopping" /\ UNCHANGED held

End ==
    /\ phase = "stopping" /\ \A e \in Engines : held[e] = 0
    /\ phase' = "over" /\ UNCHANGED held

Kill == phase = "stopping" /\ phase' = "killed" /\ UNCHANGED held

Step(e) == Close(e) \/ \E d \in {-1, 1} : Open(e, d)

Next == Stop \/ End \/ Kill \/ \E e \in Engines : Step(e)

Spec == Init /\ [][Next]_<<held, phase>>
=============================================================================
