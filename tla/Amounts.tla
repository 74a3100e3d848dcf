------------------------------ MODULE Amounts ------------------------------
(* Arithmetic shared by the client, the risk manager and the bridges.        *)
EXTENDS Integers

Abs(n) == IF n < 0 THEN -n ELSE n

Least(a, b) == IF a < b THEN a ELSE b

Greatest(a, b) == IF a < b THEN b ELSE a
=============================================================================
