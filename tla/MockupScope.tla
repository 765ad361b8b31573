---------------------------- MODULE MockupScope ----------------------------
(***************************************************************************)
(* What mockup_all and mockup promise, without stacks or function          *)
(* pointers: a call to a function goes to the mockup of the running test,  *)
(* else to the one of the innermost open group that mocks the function,    *)
(* else to the function itself.                                            *)
(***************************************************************************)
EXTENDS Integers, Sequences

CONSTANTS
  Funs,     \* functions that may be mocked
  Bodies,   \* replacements
  original  \* stands for the function itself

VARIABLES
  scopes,  \* the mockups of the open groups, a partial function for each
  testing, \* whether a test runs
  mocked,  \* the mockups of the running test, a partial function
  callee   \* where a call to each function goes

scopeVars == <<scopes, testing, mocked, callee>>

PartialFuns == UNION {[D -> Bodies] : D \in SUBSET Funs}

(* m laid over the calls c. *)
Overlay(c, m) == [f \in Funs |-> IF f \in DOMAIN m THEN m[f] ELSE c[f]]

(* The body the innermost scope of s that mocks f gives it. *)
Innermost(s, f) ==
  LET mocking == {i \in 1..Len(s) : f \in DOMAIN s[i]}
  IN  IF mocking = {} THEN original
      ELSE s[CHOOSE i \in mocking : \A j \in mocking : j <= i][f]

Visible(s) == [f \in Funs |-> Innermost(s, f)]

NoMockups == [f \in {} |-> original]

ScopeInit ==
  /\ scopes = <<>> /\ testing = FALSE /\ mocked = NoMockups
  /\ callee = [f \in Funs |-> original]

Open ==
  /\ ~testing /\ UNCHANGED <<testing, mocked>>
  /\ \E m \in PartialFuns : scopes' = Append(scopes, m)
  /\ callee' = Visible(scopes')

Close ==
  /\ ~testing /\ UNCHANGED <<testing, mocked>>
  /\ scopes # <<>>
  /\ scopes' = SubSeq(scopes, 1, Len(scopes) - 1)
  /\ callee' = Visible(scopes')

(* The test that starts says what it mocks, and calls go there first. *)
StartTest ==
  /\ ~testing /\ testing' = TRUE
  /\ mocked' \in PartialFuns
  /\ callee' = Overlay(Visible(scopes), mocked')
  /\ UNCHANGED scopes

EndTest ==
  /\ testing /\ testing' = FALSE
  /\ mocked' = NoMockups
  /\ callee' = Visible(scopes)
  /\ UNCHANGED scopes

ScopeNext == Open \/ Close \/ StartTest \/ EndTest

ScopeSpec == ScopeInit /\ [][ScopeNext]_scopeVars
=============================================================================
