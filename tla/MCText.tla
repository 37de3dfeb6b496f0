------------------------------ MODULE MCText ------------------------------
(* LogText with the constants of the code.  Host names around the sizes of *)
(* the buffers tried first and last; messages of one writer around every   *)
(* limit of a message and of a line, some with quotes there, of the other  *)
(* too long.                                                               *)
EXTENDS LogText

CONSTANTS w1, w2

MCHostLens == {1, 64, FirstLen * 2^NumTries} \cup {FirstLen * 2^k + d : k \in {0, 1, NumTries - 1}, d \in -2 .. 0}
MCWriters == {w1, w2}

(* The longest message of a complete line on a node with a name of 64, and *)
(* the bytes of a longer one that are left.                                *)
Fits == MaxLine - 1 - HeadLen([host |-> 64, cluster |-> 7]) - 2 - StampLen
Left == Fits + 2 + StampLen

Plain(lens) == [len : lens, quote : {0}]
MCMessages == [w \in MCWriters |->
    IF w = w2 THEN Plain({MaxMsg + 1})
    ELSE Plain({1, Fits, Fits + 1, Left - 1, Left, MaxMsg + 1})
         \cup [len : {Left + 1}, quote : {1, Left, Left + 1}]
         \cup {[len |-> Fits, quote |-> Fits], [len |-> MaxMsg + 1, quote |-> MaxMsg + 1]}]
=============================================================================
