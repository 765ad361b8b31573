---------------------------- MODULE MCTestRunner ----------------------------
(* TestRunner for model checking: how the functions under test of a run may *)
(* end.                                                                     *)
EXTENDS TestRunner

AnyEnding      == {"returned", "signal", "exit", "hang"}
AlwaysReturned == {"returned"}
=============================================================================
