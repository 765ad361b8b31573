--------------------------- MODULE MCInterpreter ---------------------------
(* Interpreter for model checking: three files, the path of one starts that *)
(* of another.                                                              *)
EXTENDS Interpreter

CONSTANTS a, b, ab

ThreeFiles == {a, b, ab}
OnePrefix  == {<<a, ab>>}
SomeNames  == {{a, ab}, {b}, {ab}, {b, ab}}
NoPrefixes == {}
=============================================================================
