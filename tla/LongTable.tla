------------------------------ MODULE LongTable ------------------------------
(***************************************************************************)
(* An entry of LdmState's table, and what reduce_positions makes of it.    *)
(* An entry at position 0 is an empty one.                                 *)
(***************************************************************************)
EXTENDS Naturals

NoEntry == [pos |-> 0, sum |-> 0]

(* (A plausible slip: entries below the base keep their value.)            *)
ReduceLdmKept(e, by) == IF e.pos = 0 \/ e.pos < by THEN e ELSE [e EXCEPT !.pos = @ - by]
ReduceLdm(e, by) == IF e.pos = 0 \/ e.pos < by THEN NoEntry ELSE [e EXCEPT !.pos = @ - by]
=============================================================================
