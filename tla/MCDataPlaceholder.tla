------------------------- MODULE MCDataPlaceholder -------------------------
EXTENDS DataPlaceholder

At == Placeholder
One == Constant("1")
Word == Constant("word")

MCTexts ==
  [c \in {"1", "2", "3", "0x10", "word"} |->
     CASE c = "0x10" -> <<"0">> [] c = "word" -> <<>> [] OTHER -> <<c>>]

(* Rows of one and two cells, cells that are empty, blank or go on behind their
   constant, empty lines, a buffer with a structure, nested braces, no line. *)
MCFiles ==
  [two    |-> <<<<"1", ",", " ", "word">>, <<>>, <<"2", ",", "0x10", " ", "3">>>>,
   one    |-> <<<<"3">>, <<"word">>, <<",", "1">>>>,
   gap    |-> <<<<"1", ",", ",", "2">>, <<",", "2", ",", "3", ",">>>>,
   struct |-> <<<<"[", "2", ":", "{", "1", ",", "2", "}", "]", ",", "3">>>>,
   nested |-> <<<<"[", "{", "1", ",", "{", "2", "}", ",", "3", "}", "]">>>>,
   blank  |-> <<<<"1", ",", " ">>>>,
   uneven |-> <<<<"1">>, <<"1", ",", "2">>>>,
   empty  |-> <<>>]

Test(data, args, er, mockup) == [data |-> data, args |-> args, er |-> er, mockup |-> mockup]

MCTests ==
  {Test(d, <<At>>, <<>>, FALSE) : d \in {"one", "blank", "nested", "uneven", "empty", "missing", NoData}}
  \cup {Test(d, <<At, Word, At>>, <<>>, FALSE) : d \in {"two", "gap", "struct"}}
  \cup {Test("two", <<At, Constant("0x10")>>, <<At>>, m) : m \in BOOLEAN}
  \cup {Test("struct", <<One>>, <<At>>, FALSE), Test("missing", <<One>>, <<Word>>, FALSE)}
=============================================================================
