----------------------------- MODULE MCRenderFile -----------------------------
(* Songs of up to five ticks, with and without a loop, one whose header     *)
(* halves the loops and one whose loop base asks for none.                  *)
EXTENDS RenderFile

Plain(n) == [total |-> n, loop |-> 0, modifier |-> 0, base |-> 0]
MCSongs == {Plain(n) : n \in 0..5} \cup
    {[total |-> 3, loop |-> 2, modifier |-> 0, base |-> 0],
     [total |-> 4, loop |-> 1, modifier |-> 8, base |-> 0],
     [total |-> 2, loop |-> 2, modifier |-> 16, base |-> 3]}

MCOldFile == {<<>>, <<Header(1, 2)>> \o Frames(1, 20)}
===============================================================================
