--------------------------- MODULE MCTestResults ---------------------------
EXTENDS TestResults

Number(neg, hex, ds) == [kind |-> "int", neg |-> neg, hex |-> hex, digits |-> ds, tenths |-> 0]
Decimal(neg, d, t)  == [kind |-> "float", neg |-> neg, hex |-> FALSE, digits |-> <<d>>, tenths |-> t]
Char(d)           == [kind |-> "char", neg |-> FALSE, hex |-> FALSE, digits |-> <<d>>, tenths |-> 0]

Constants ==
  {Number(FALSE, FALSE, <<3>>), Number(TRUE, FALSE, <<1>>), Number(FALSE, FALSE, <<0>>),
   Number(FALSE, FALSE, <<1, 2>>), Number(FALSE, FALSE, <<2, 0>>), Number(FALSE, TRUE, <<1, 3>>),
   Number(TRUE, TRUE, <<3>>), Number(FALSE, FALSE, <<0, 3>>), Number(TRUE, FALSE, <<0, 3>>),
   Decimal(FALSE, 3, 7), Decimal(TRUE, 0, 5), Char(7)}

Test(type, v, ER, prints, exprs, name) ==
  [name |-> name, type |-> type, returned |-> v, ER |-> ER, prints |-> prints, exprs |-> exprs]

ERs(ops, Cs) == {[op |-> op, constant |-> C] : op \in ops, C \in Cs}

Valued ==
  {Test("int", v, ER, <<>>, <<>>, <<"f">>) : v \in {-8, -1, 3, 7}, ER \in ERs(Operators, Constants)}
  \cup {Test("float", v, ER, <<>>, <<>>, <<"f">>) :
         v \in {NaN, 30, 37}, ER \in ERs(Operators, {Decimal(FALSE, 3, 7), Number(FALSE, FALSE, <<3>>)})}
  \cup {Test("ptr", v, ER, <<>>, <<>>, <<"f">>) :
         v \in {0, 20}, ER \in ERs({"==", "<"}, {Number(FALSE, FALSE, <<0>>), Number(FALSE, TRUE, <<1, 4>>)})}
  \cup {Test("void", 0, ER, <<>>, <<>>, <<"f">>) : ER \in ERs({"=="}, {Number(FALSE, FALSE, <<3>>)}) \cup {NoER}}

(* Output of every length about the two buffers, empty lines, NULs, and what
   looks like a header; a name that fills the buffer. *)
Words == [i \in 1..24 |-> IF i % 4 = 0 THEN "nl" ELSE "x"]
Outputs ==
  {SubSeq(Words, 1, n) : n \in {0, 1, 3, 4, 5, 8, 12, 20, 24}}
  \cup {<<"nl">>, <<"nl", "x", "nl", "nl", "x">>, <<"x", "zero", "x">>, <<"x", "x", "x", "x", "zero", "x">>,
        <<"[", "nl">>, <<"x", "[", "RESULT", "]", "nl", "x">>, <<"[", "RESULT", "]", "nl", "PASSED", "nl">>,
        <<"[", "WARNING", "]">>}
Names == {<<"f">>, [i \in 1..25 |-> "f"], [i \in 1..31 |-> "f"]}

Printing ==
  {Test("int", v, [op |-> "==", constant |-> Number(FALSE, FALSE, <<3>>)], out, e, name) :
     v \in {3, 7}, out \in Outputs, e \in {<<>>, <<TRUE>>, <<FALSE>>, <<FALSE, TRUE>>}, name \in Names}

MCTails == {<<>>, <<"x">>, <<"nl">>}

(* The second test meets what the first left: it passes or fails, and prints a
   little or more than the buffer of the capture holds. *)
Later == {Test("int", v, [op |-> ">", constant |-> Number(FALSE, FALSE, <<3>>)], out, <<>>, <<"f">>) :
            v \in {-1, 7}, out \in {<<"x">>, SubSeq(Words, 1, 12)}}

MCCases == <<Valued \cup Printing, Later>>
=============================================================================
