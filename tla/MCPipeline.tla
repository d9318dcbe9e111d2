------------------------------ MODULE MCPipeline -----------------------------
(* Constant values for model-checking Pipeline: the night of a Sunday on   *)
(* which the clocks are turned back, by a minute instead of an hour.       *)
EXTENDS Pipeline

CONSTANTS tick, i1, i2

At(h, m, day, d) == [hour |-> h, minute |-> m, dom |-> day, month |-> 10, dow |-> d]

MCWall == [t \in 0..Horizon |->
             <<At(23, 59, 30, 6), At(0, 0, 31, 0), At(0, 0, 31, 0), At(0, 1, 31, 0)>>[t + 1]]

Always == [f \in Fields |-> {Every(f)}]

Item(lo, hi, step) == [lo |-> lo, hi |-> hi, step |-> step]

MCExpression ==
    {[Always EXCEPT !.minute = {Item(0, 59, 20), Item(59, 59, 1)}, !.dow = {Item(5, 7, 2)}],
     [Always EXCEPT !.dow = {Item(6, 0, 1)}]}
=============================================================================
