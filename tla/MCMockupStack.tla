---------------------------- MODULE MCMockupStack ----------------------------
(* MockupStack for model checking: the functions and their replacements.     *)
EXTENDS MockupStack

CONSTANTS f, g, a, b

TwoFuns   == {f, g}
TwoBodies == {a, b}
=============================================================================
