-------------------------- MODULE TestRunnerProofs --------------------------
(***************************************************************************)
(* Safety of TestRunner for every value of its constants: types, the       *)
(* verdict of a test's own checks, the isolation of blame, the complete    *)
(* report and the descriptors; and that it implements Report.              *)
(***************************************************************************)
EXTENDS TestRunner, FiniteSetTheorems, SequenceTheorems, TLAPS

Between  == pc \in {"visiting", "setup", "teardown", "hang", "logging", "logged"}
InTest   == pc \in {"waiting", "reading", "inline"}

(* The parent and the test are in step with one another. *)
ControlInv ==
  /\ Between => cpc = "none"
  /\ InTest => nTests > 0 /\ cpc # "none"
  /\ cpc \in {"fud", "verdict"} => InTest
  /\ cpc = "save" => pc = "waiting"
  /\ pc \in {"waiting", "reading"} => usingFork
  /\ pc = "inline" => ~usingFork /\ cpc \in {"fud", "verdict", "hang"}
  /\ pc = "reading" => cpc = "exit"

(* What the parent has open, measured from the start of the run. *)
DescriptorInv ==
  /\ fds0 <= fds /\ fds <= fds0 + 2
  /\ Between \/ pc = "inline" => fds = fds0
  /\ pc \in {"waiting", "reading"} => fds = fds0 + 2

(* Every test met before the current one has a verdict, the current one has
   none yet, and a message under way carries one. *)
ReportInv ==
  /\ \A t \in Tests : t > nTests => results[t] = NoResult
  /\ Between => \A t \in 1..nTests : Reported(t)
  /\ InTest => results[nTests] = NoResult /\ \A t \in 1..(nTests - 1) : Reported(t)
  /\ inPipe > 0 => mResults.RESULT \in Verdicts
  /\ cpc = "save" => mResults.RESULT \in Verdicts

(* Expressions not met yet are untouched; those listed have been met.  Those of
   the fixture that runs have been met too, belong to no test and have not been
   evaluated. *)
FreshInv ==
  /\ \A e \in Exprs : e > nExprs =>
       owner[e] = 0 /\ outcome[e] = "unevaluated" /\ mem["parent"][e]
  /\ \A e \in Listed : e <= nExprs
  /\ \A e \in Exprs : owner[e] <= nTests
  /\ \A e \in fixture : e <= nExprs /\ owner[e] = 0 /\ outcome[e] = "unevaluated"

(* Which expressions the list holds.  With fork, all that were met: the list
   of the parent is never cleared.  Inline, those of fixtures and of the
   current test only. *)
ListInv ==
  /\ usingFork => \A e \in 1..nExprs : e \in Listed
  /\ ~usingFork /\ pc # "died" => \A e \in Listed : owner[e] = 0 \/ (pc = "inline" /\ owner[e] = nTests)
  /\ pc = "inline" => \A e \in Exprs : owner[e] = nTests => e \in Listed

(* Memory tells the truth about the expressions that were evaluated in it.
   With fork, the expressions of tests are never evaluated in the parent: its
   copies of their result globals keep the initial value TRUE. *)
MemoryInv ==
  /\ \A e \in Exprs : ~mem["parent"][e] => outcome[e] = "fails"
  /\ usingFork => \A e \in Exprs : ~mem["parent"][e] => owner[e] = 0
  /\ usingFork /\ cpc \in {"fud", "verdict"} =>
       \A e \in Exprs : ~mem["child"][e] => outcome[e] = "fails" /\ owner[e] \in {0, nTests}
  /\ cpc = "verdict" =>
       \A e \in Exprs : owner[e] = nTests /\ outcome[e] = "fails" => ~mem[Runner][e]

(* A verdict r for test t respects t's own expressions and blames no other
   test. *)
Honest(r, t) ==
  /\ r.RESULT = "PASSED" => \A e \in Exprs : owner[e] = t => outcome[e] # "fails"
  /\ \A e \in r.FAILED_EE : outcome[e] = "fails" /\ owner[e] \in {0, t}

HonestInv ==
  /\ \A t \in Tests : Honest(results[t], t)
  /\ cpc \in {"none", "fud", "verdict"} => mResults = NoResult
  /\ cpc \in {"save", "exit"} => Honest(mResults, nTests)

IInv == /\ TypeOK /\ ControlInv /\ DescriptorInv /\ ReportInv /\ FreshInv
        /\ ListInv /\ MemoryInv /\ HonestInv
-----------------------------------------------------------------------------
(* Appending k new expressions to the list lists exactly them in addition. *)
LEMMA VisitEffect ==
  ASSUME TypeOK, NEW k \in 0..MaxPerFixture, NEW t \in 0..MaxTests,
         VisitExpectedExpressions(k, t)
  PROVE  /\ nExprs' \in 0..MaxExprs /\ nExprs <= nExprs'
         /\ owner' \in [Exprs -> 0..MaxTests]
         /\ mExpExpr' \in Seq(Exprs)
         /\ NewExprs(k) = {e \in Exprs : e > nExprs /\ e <= nExprs'}
         /\ Listed' = Listed \cup NewExprs(k)
<1>a. nExprs \in Nat /\ k \in Nat /\ MaxExprs \in Nat /\ nExprs + k <= MaxExprs
  BY RunnerAssumption DEF RunnerAssumption, TypeOK, VisitExpectedExpressions
<1>b. mExpExpr \in Seq(Exprs) /\ Len(mExpExpr) \in Nat
  BY DEF TypeOK
<1>1. nExprs' = nExprs + k /\ nExprs' \in 0..MaxExprs /\ nExprs <= nExprs'
  BY <1>a DEF VisitExpectedExpressions
<1>2. owner' \in [Exprs -> 0..MaxTests]
  BY DEF TypeOK, VisitExpectedExpressions
<1>3. NewExprs(k) = {e \in Exprs : e > nExprs /\ e <= nExprs'}
  BY <1>a, <1>1 DEF NewExprs, Exprs
<1> DEFINE new == [i \in 1..k |-> nExprs + i]
<1>4. new \in Seq(Exprs) /\ Len(new) = k /\ \A i \in 1..k : new[i] = nExprs + i
  <2>1. new \in [1..k -> Exprs]
    BY <1>a DEF Exprs
  <2>2. QED
    BY <1>a, <2>1
<1>5. mExpExpr' = mExpExpr \o new
  BY DEF VisitExpectedExpressions
<1> HIDE DEF new
<1>6. mExpExpr' \in Seq(Exprs)
  BY <1>b, <1>4, <1>5
<1>7. /\ Len(mExpExpr') = Len(mExpExpr) + k
      /\ \A i \in 1..Len(mExpExpr) : mExpExpr'[i] = mExpExpr[i]
      /\ \A i \in 1..k : mExpExpr'[Len(mExpExpr) + i] = nExprs + i
  <2>1. Len(mExpExpr') = Len(mExpExpr) + k
    <3>1. Len(mExpExpr \o new) = Len(mExpExpr) + Len(new)
      BY <1>b, <1>4, ConcatProperties
    <3>2. QED
      BY <1>4, <1>5, <3>1
  <2>2. \A i \in 1..Len(mExpExpr) : mExpExpr'[i] = mExpExpr[i]
    BY <1>a, <1>b, <1>4, <1>5
  <2>3. ASSUME NEW i \in 1..k
        PROVE  mExpExpr'[Len(mExpExpr) + i] = nExprs + i
    <3>1. (Len(mExpExpr) + i) - Len(mExpExpr) = i
      BY <1>a, <1>b
    <3>2. mExpExpr'[Len(mExpExpr) + i] = new[i]
      BY <1>a, <1>b, <1>4, <1>5, <3>1
    <3>3. QED
      BY <1>4, <3>2
  <2>4. QED
    BY <2>1, <2>2, <2>3
<1>8. Listed' \subseteq Listed \cup NewExprs(k)
  <2> SUFFICES ASSUME NEW i \in 1..(Len(mExpExpr) + k)
               PROVE  mExpExpr'[i] \in Listed \cup NewExprs(k)
    BY <1>7 DEF Listed
  <2>1. CASE i \in 1..Len(mExpExpr)
    BY <1>7, <2>1 DEF Listed
  <2>2. CASE i \notin 1..Len(mExpExpr)
    <3>1. i - Len(mExpExpr) \in 1..k /\ i = Len(mExpExpr) + (i - Len(mExpExpr))
      BY <1>a, <1>b, <2>2
    <3>2. mExpExpr'[i] = nExprs + (i - Len(mExpExpr))
      BY <1>7, <3>1
    <3>3. QED
      BY <1>a, <3>1, <3>2 DEF NewExprs
  <2>3. QED
    BY <2>1, <2>2
<1>9. Listed \subseteq Listed'
  <2> SUFFICES ASSUME NEW i \in 1..Len(mExpExpr)
               PROVE  mExpExpr[i] \in Listed'
    BY DEF Listed
  <2>1. i \in 1..Len(mExpExpr') /\ mExpExpr'[i] = mExpExpr[i]
    BY <1>a, <1>b, <1>7
  <2>2. QED
    BY <2>1 DEF Listed
<1>10. NewExprs(k) \subseteq Listed'
  <2> SUFFICES ASSUME NEW e \in NewExprs(k)
               PROVE  e \in Listed'
    OBVIOUS
  <2>1. e - nExprs \in 1..k /\ nExprs + (e - nExprs) = e
    BY <1>a DEF NewExprs
  <2>2. mExpExpr'[Len(mExpExpr) + (e - nExprs)] = e
    BY <1>7, <2>1
  <2>3. Len(mExpExpr) + (e - nExprs) \in 1..Len(mExpExpr')
    BY <1>a, <1>b, <1>7, <2>1
  <2>4. QED
    BY <2>2, <2>3 DEF Listed
<1>11. QED
  BY <1>1, <1>2, <1>3, <1>6, <1>8, <1>9, <1>10

(* What collectTestResults computes is a result, with a verdict. *)
LEMMA CollectedType ==
  ASSUME TypeOK
  PROVE  /\ Collected \in Result /\ Collected.RESULT \in Verdicts
         /\ MessageSize(Collected) \in Nat
<1>1. Listed \subseteq Exprs
  BY DEF TypeOK, Listed
<1>2. Collected \in Result /\ Collected.RESULT \in Verdicts
  BY <1>1 DEF Collected, Failing, Result, Verdicts
<1>3. IsFiniteSet(Collected.FAILED_EE)
  <2>1. Collected.FAILED_EE \subseteq Exprs
    BY <1>2 DEF Result
  <2>2. IsFiniteSet(Exprs)
    BY FS_Interval, RunnerAssumption DEF Exprs
  <2>3. QED
    BY <2>1, <2>2, FS_Subset
<1>4. Cardinality(Collected.FAILED_EE) \in Nat
  BY <1>3, FS_CardinalityType
<1>5. QED
  BY <1>2, <1>4 DEF MessageSize, TypeOK
-----------------------------------------------------------------------------
(* Init and each action establish or preserve the inductive invariant.      *)

LEMMA InitIInv == Init => IInv
<1> SUFFICES ASSUME Init PROVE IInv
  OBVIOUS
<1> USE RunnerAssumption DEF RunnerAssumption, Init
<1>1. TypeOK
  BY DEF TypeOK, NoResult, Result, Verdicts, Tests, Exprs, Procs
<1>2. ControlInv /\ DescriptorInv
  BY DEF ControlInv, DescriptorInv, Between, InTest
<1>3. ReportInv
  BY DEF ReportInv, Between, InTest
<1>4. Listed = {}
  BY DEF Listed
<1>5. FreshInv /\ ListInv /\ MemoryInv
  BY <1>4 DEF FreshInv, ListInv, MemoryInv, Exprs, Procs
<1>6. HonestInv
  BY DEF HonestInv, Honest, NoResult, Tests
<1>7. QED
  BY <1>1, <1>2, <1>3, <1>5, <1>6 DEF IInv

(* Steps of the test that move output or the message, and nothing else. *)
LEMMA FudPrintsIInv == ASSUME IInv, FudPrints PROVE IInv'
<1> USE DEF IInv, FudPrints, walk, exprs, history, session
<1>1. TypeOK'
  BY RunnerAssumption DEF RunnerAssumption, TypeOK
<1>2. ControlInv' /\ DescriptorInv'
  BY DEF ControlInv, DescriptorInv, Between, InTest
<1>3. ReportInv'
  BY DEF ReportInv, Between, InTest, Reported
<1>4. FreshInv' /\ ListInv' /\ MemoryInv'
  BY DEF FreshInv, ListInv, MemoryInv, Listed
<1>5. HonestInv'
  BY DEF HonestInv, Honest
<1>6. QED
  BY <1>1, <1>2, <1>3, <1>4, <1>5

LEMMA ChildWritesIInv == ASSUME IInv, ChildWrites PROVE IInv'
<1> USE DEF IInv, ChildWrites, walk, exprs, history, session
<1>1. TypeOK'
  BY RunnerAssumption DEF RunnerAssumption, TypeOK
<1>2. ControlInv' /\ DescriptorInv'
  BY DEF ControlInv, DescriptorInv, Between, InTest
<1>3. ReportInv'
  BY DEF ReportInv, Between, InTest, Reported
<1>4. FreshInv' /\ ListInv' /\ MemoryInv'
  BY DEF FreshInv, ListInv, MemoryInv, Listed
<1>5. HonestInv'
  BY DEF HonestInv, Honest
<1>6. QED
  BY <1>1, <1>2, <1>3, <1>4, <1>5

(* Steps in which a process ends or the parent notices that it did. *)
LEMMA ChildExitsIInv == ASSUME IInv, ChildExits PROVE IInv'
<1> USE DEF IInv, ChildExits, walk, exprs, history, session
<1>1. TypeOK'
  BY DEF TypeOK
<1>2. ControlInv' /\ DescriptorInv'
  BY DEF ControlInv, DescriptorInv, Between, InTest
<1>3. ReportInv'
  BY DEF ReportInv, Between, InTest, Reported
<1>4. FreshInv' /\ ListInv' /\ MemoryInv'
  BY DEF FreshInv, ListInv, MemoryInv, Listed
<1>5. HonestInv'
  BY DEF HonestInv, Honest
<1>6. QED
  BY <1>1, <1>2, <1>3, <1>4, <1>5

LEMMA FudEndsIInv ==
  ASSUME IInv, NEW how \in {"signal", "exit", "hang"}, FudEnds(how) PROVE IInv'
<1> USE DEF IInv, FudEnds, walk, exprs, history, session
<1>1. TypeOK'
  BY DEF TypeOK
<1>2. ControlInv' /\ DescriptorInv'
  BY DEF ControlInv, DescriptorInv, Between, InTest
<1>3. ReportInv'
  BY DEF ReportInv, Between, InTest, Reported
<1>4. FreshInv' /\ ListInv' /\ MemoryInv'
  BY DEF FreshInv, ListInv, MemoryInv, Listed
<1>5. HonestInv'
  BY DEF HonestInv, Honest, NoResult
<1>6. QED
  BY <1>1, <1>2, <1>3, <1>4, <1>5

LEMMA WaitPidIInv == ASSUME IInv, WaitPid PROVE IInv'
<1> USE DEF IInv, WaitPid, ChildGone, AfterWait, walk, exprs, child, history, session
<1>1. TypeOK'
  BY DEF TypeOK
<1>2. ControlInv' /\ DescriptorInv'
  BY DEF ControlInv, DescriptorInv, Between, InTest
<1>3. ReportInv'
  BY DEF ReportInv, Between, InTest, Reported
<1>4. FreshInv' /\ ListInv' /\ MemoryInv'
  BY DEF FreshInv, ListInv, MemoryInv, Listed
<1>5. HonestInv'
  BY DEF HonestInv, Honest
<1>6. QED
  BY <1>1, <1>2, <1>3, <1>4, <1>5

LEMMA ReadNothingIInv == ASSUME IInv, ReadNothing PROVE IInv'
<1> USE DEF IInv, ReadNothing, walk, exprs, child, history, session
<1>1. TypeOK'
  BY DEF TypeOK, DescriptorInv
<1>2. ControlInv' /\ DescriptorInv'
  BY DEF ControlInv, DescriptorInv, Between, InTest, TypeOK
<1>3. ReportInv'
  BY DEF ReportInv, Between, InTest, Reported
<1>4. FreshInv' /\ ListInv' /\ MemoryInv'
  <2>1. FreshInv' /\ ListInv'
    BY DEF FreshInv, ListInv, Listed
  <2>2. MemoryInv'
    BY DEF MemoryInv, Runner
  <2>3. QED
    BY <2>1, <2>2
<1>5. HonestInv'
  BY DEF HonestInv, Honest
<1>6. QED
  BY <1>1, <1>2, <1>3, <1>4, <1>5

LEMMA LogIInv == ASSUME IInv, Log PROVE IInv'
<1> USE DEF IInv, Log, walk, exprs, child, history, session
<1>1. TypeOK'
  BY DEF TypeOK
<1>2. ControlInv' /\ DescriptorInv'
  BY DEF ControlInv, DescriptorInv, Between, InTest
<1>3. ReportInv'
  BY DEF ReportInv, Between, InTest, Reported
<1>4. FreshInv' /\ ListInv' /\ MemoryInv'
  <2>1. FreshInv' /\ ListInv'
    BY DEF FreshInv, ListInv, Listed
  <2>2. MemoryInv'
    BY DEF MemoryInv, Runner
  <2>3. QED
    BY <2>1, <2>2
<1>5. HonestInv'
  BY DEF HonestInv, Honest
<1>6. QED
  BY <1>1, <1>2, <1>3, <1>4, <1>5

LEMMA FixtureEndsIInv ==
  ASSUME IInv, NEW ending, NEW state \in {"died", "hang"}, FixtureEnds(ending, state)
  PROVE  IInv'
<1> USE DEF IInv, FixtureEnds, InFixture, walk, exprs, child, history, session
<1>1. TypeOK'
  BY DEF TypeOK
<1>2. ControlInv' /\ DescriptorInv'
  BY DEF ControlInv, DescriptorInv, Between, InTest
<1>3. ReportInv'
  BY DEF ReportInv, Between, InTest, Reported
<1>4. FreshInv' /\ ListInv' /\ MemoryInv'
  <2>1. FreshInv' /\ ListInv'
    BY DEF FreshInv, ListInv, Listed
  <2>2. MemoryInv'
    BY DEF MemoryInv, Runner
  <2>3. QED
    BY <2>1, <2>2
<1>5. HonestInv'
  BY DEF HonestInv, Honest
<1>6. QED
  BY <1>1, <1>2, <1>3, <1>4, <1>5

LEMMA FixturePrintsIInv == ASSUME IInv, FixturePrints PROVE IInv'
<1> USE DEF IInv, FixturePrints, InFixture, walk, exprs, history, session
<1>1. TypeOK'
  BY RunnerAssumption DEF RunnerAssumption, TypeOK
<1>2. ControlInv' /\ DescriptorInv'
  BY DEF ControlInv, DescriptorInv, Between, InTest
<1>3. ReportInv'
  BY DEF ReportInv, Between, InTest, Reported
<1>4. FreshInv' /\ ListInv' /\ MemoryInv'
  <2>1. FreshInv' /\ ListInv'
    BY DEF FreshInv, ListInv, Listed
  <2>2. MemoryInv'
    BY DEF MemoryInv, Runner
  <2>3. QED
    BY <2>1, <2>2
<1>5. HonestInv'
  BY DEF HonestInv, Honest
<1>6. QED
  BY <1>1, <1>2, <1>3, <1>4, <1>5

(* A fixture begins: its expressions belong to no test and are listed. *)
LEMMA BeginEffect ==
  ASSUME IInv, pc = "visiting", BeginFixture
  PROVE  /\ nExprs' \in 0..MaxExprs
         /\ owner' \in [Exprs -> 0..MaxTests]
         /\ mExpExpr' \in Seq(Exprs)
         /\ fixture' \subseteq Exprs
         /\ FreshInv'
         /\ usingFork => \A e \in 1..nExprs' : e \in Listed'
         /\ ~usingFork => \A e \in Listed' : owner'[e] = 0
         /\ usingFork => \A e \in Exprs : ~mem["parent"][e] => owner'[e] = 0
         /\ HonestInv'
<1>0. PICK k \in 0..MaxPerFixture :
        VisitExpectedExpressions(k, 0) /\ fixture' = NewExprs(k)
  BY DEF BeginFixture
<1>1. UNCHANGED <<nTests, mem, cpc, mResults, results, usingFork, outcome>>
  BY DEF BeginFixture, session
<1>2. /\ nExprs' \in 0..MaxExprs /\ nExprs <= nExprs'
      /\ owner' \in [Exprs -> 0..MaxTests]
      /\ mExpExpr' \in Seq(Exprs)
      /\ NewExprs(k) = {e \in Exprs : e > nExprs /\ e <= nExprs'}
      /\ Listed' = Listed \cup NewExprs(k)
  <2>1. 0 \in 0..MaxTests
    BY RunnerAssumption DEF RunnerAssumption
  <2>2. QED
    BY <1>0, <2>1, VisitEffect DEF IInv
<1>3. \A e \in Exprs : owner'[e] = (IF e \in NewExprs(k) THEN 0 ELSE owner[e])
  BY <1>0 DEF VisitExpectedExpressions
<1>4. fixture' = NewExprs(k) /\ fixture' \subseteq Exprs
  BY <1>0, <1>2
<1>6. /\ nExprs \in Nat /\ nExprs' \in Nat /\ Exprs \subseteq Nat /\ Listed \subseteq Exprs
      /\ 1..nExprs' \subseteq Exprs
  <2>1. Listed \subseteq Exprs
    BY DEF IInv, TypeOK, Listed
  <2>2. nExprs \in Nat /\ nExprs' \in Nat /\ Exprs \subseteq Nat /\ 1..nExprs' \subseteq Exprs
    BY <1>2, RunnerAssumption DEF RunnerAssumption, IInv, TypeOK, Exprs
  <2>3. QED
    BY <2>1, <2>2
<1>7. \A e \in Exprs : e \in NewExprs(k) =>
        outcome[e] = "unevaluated" /\ mem["parent"][e]
  BY <1>2 DEF IInv, FreshInv
<1>8. FreshInv'
  <2>1. \A e \in Exprs : e > nExprs' => e \notin NewExprs(k) /\ e > nExprs
    BY <1>2, <1>6
  <2>2. \A e \in Exprs : e > nExprs' =>
          owner'[e] = 0 /\ outcome'[e] = "unevaluated" /\ mem'["parent"][e]
    BY <1>1, <1>3, <2>1 DEF IInv, FreshInv
  <2>3. ASSUME NEW e \in Listed'
        PROVE  e <= nExprs'
    <3>1. CASE e \in Listed
      <4>1. e <= nExprs /\ e \in Nat
        BY <1>6, <3>1 DEF IInv, FreshInv
      <4>2. QED
        BY <1>2, <1>6, <4>1
    <3>2. CASE e \in NewExprs(k)
      BY <1>2, <3>2
    <3>3. QED
      BY <1>2, <3>1, <3>2
  <2>4. \A e \in Exprs : owner'[e] <= nTests'
    <3>1. nTests \in Nat /\ nTests' = nTests /\ \A e \in Exprs : owner[e] <= nTests
      BY <1>1 DEF IInv, FreshInv, TypeOK
    <3>2. QED
      BY <1>3, <3>1
  <2>5. \A e \in fixture' : e <= nExprs' /\ owner'[e] = 0 /\ outcome'[e] = "unevaluated"
    BY <1>1, <1>2, <1>3, <1>4, <1>7
  <2>6. QED
    BY <2>2, <2>3, <2>4, <2>5 DEF FreshInv
<1>9. usingFork => \A e \in 1..nExprs' : e \in Listed'
  <2> SUFFICES ASSUME usingFork, NEW e \in 1..nExprs'
               PROVE  e \in Listed'
    OBVIOUS
  <2>1. CASE e <= nExprs
    BY <1>2, <1>6, <2>1 DEF IInv, ListInv
  <2>2. CASE e > nExprs
    BY <1>2, <1>6, <2>2
  <2>3. QED
    BY <1>6, <2>1, <2>2
<1>10. ~usingFork => \A e \in Listed' : owner'[e] = 0
  BY <1>2, <1>3, <1>6 DEF IInv, ListInv
<1>11. usingFork => \A e \in Exprs : ~mem["parent"][e] => owner'[e] = 0
  BY <1>3 DEF IInv, MemoryInv
<1>12. HonestInv'
  <2>1. ASSUME NEW t \in Tests
        PROVE  Honest(results[t], t)'
    <3>1. results'[t] = results[t] /\ results[t] \in Result /\ t # 0
      BY <1>1, RunnerAssumption DEF IInv, TypeOK, Tests
    <3>2. Honest(results[t], t)
      BY DEF IInv, HonestInv
    <3>3. QED
      BY <1>1, <1>3, <1>7, <3>1, <3>2 DEF Honest, Result
  <2>2. QED
    BY <1>1, <2>1 DEF IInv, HonestInv, ControlInv, Between
<1>13. QED
  BY <1>2, <1>4, <1>8, <1>9, <1>10, <1>11, <1>12

LEMMA EnterGroupIInv == ASSUME IInv, EnterGroup PROVE IInv'
<1> USE RunnerAssumption DEF RunnerAssumption
<1>0. /\ pc = "visiting" /\ nGroups < MaxGroups /\ nGroups' = nGroups + 1
      /\ groups' = Append(groups, nGroups + 1) /\ BeginFixture /\ pc' = "setup"
      /\ toPrint' \in 0..MaxOutput
      /\ UNCHANGED <<nTests, mem, cpc, captured, mResults, toWrite, inPipe,
                     results, fds, usingFork, runs, outcome, expected, fds0>>
  BY DEF EnterGroup, BeginFixture, session, history
<1>1. nGroups + 1 \in Groups
  BY <1>0 DEF IInv, TypeOK, Groups
<1>2. TypeOK'
  BY <1>0, <1>1, BeginEffect DEF IInv, TypeOK, Groups
<1>3. ControlInv' /\ DescriptorInv'
  BY <1>0 DEF IInv, ControlInv, DescriptorInv, Between, InTest
<1>4. ReportInv'
  BY <1>0 DEF IInv, ReportInv, Between, InTest, Reported
<1>5. FreshInv' /\ HonestInv'
  BY <1>0, BeginEffect
<1>6. ListInv' /\ MemoryInv'
  BY <1>0, BeginEffect DEF ListInv, MemoryInv, IInv, ControlInv, Between
<1>7. QED
  BY <1>2, <1>3, <1>4, <1>5, <1>6 DEF IInv

LEMMA LeaveGroupIInv == ASSUME IInv, LeaveGroup PROVE IInv'
<1> USE RunnerAssumption DEF RunnerAssumption
<1>0. /\ pc = "visiting" /\ BeginFixture /\ pc' = "teardown"
      /\ toPrint' \in 0..MaxOutput
      /\ UNCHANGED <<groups, nGroups, nTests, mem, cpc, captured, mResults, toWrite,
                     inPipe, results, fds, usingFork, runs, outcome, expected, fds0>>
  BY DEF LeaveGroup, BeginFixture, session, history
<1>2. TypeOK'
  BY <1>0, BeginEffect DEF IInv, TypeOK
<1>3. ControlInv' /\ DescriptorInv'
  BY <1>0 DEF IInv, ControlInv, DescriptorInv, Between, InTest
<1>4. ReportInv'
  BY <1>0 DEF IInv, ReportInv, Between, InTest, Reported
<1>5. FreshInv' /\ HonestInv'
  BY <1>0, BeginEffect
<1>6. ListInv' /\ MemoryInv'
  BY <1>0, BeginEffect DEF ListInv, MemoryInv, IInv, ControlInv, Between
<1>7. QED
  BY <1>2, <1>3, <1>4, <1>5, <1>6 DEF IInv

(* A fixture has returned: its expressions belong to no test, so whatever they
   evaluated to disturbs no verdict. *)
LEMMA EndEffect ==
  ASSUME IInv, EndFixture, groups' \in Seq(Groups),
         pc' \in {"visiting", "logging"}
  PROVE  IInv'
<1> USE RunnerAssumption DEF RunnerAssumption
<1>0. /\ InFixture /\ captured' = 0 /\ fixture' = {}
      /\ UNCHANGED <<nGroups, nTests, nExprs, owner, mExpExpr, cpc, toPrint, mResults,
                     toWrite, inPipe, results, fds, usingFork, runs, expected, fds0>>
  BY DEF EndFixture, exprs, session, history
<1>1. PICK held \in SUBSET fixture : Evaluate("parent", fixture, held)
  BY DEF EndFixture
<1>2. Between /\ cpc = "none" /\ mResults = NoResult
  BY <1>0 DEF InFixture, Between, IInv, ControlInv, HonestInv
<1>3. \A e \in fixture :
        e \in Exprs /\ owner[e] = 0 /\ e <= nExprs /\ outcome[e] = "unevaluated"
  BY DEF IInv, TypeOK, FreshInv
<1>4. /\ mem' \in [Procs -> [Exprs -> BOOLEAN]]
      /\ \A e \in Exprs : mem'["parent"][e] =
           (IF e \in fixture THEN e \in held ELSE mem["parent"][e])
  <2> DEFINE new == [e \in Exprs |-> IF e \in fixture THEN e \in held ELSE mem["parent"][e]]
  <2>1. mem \in [Procs -> [Exprs -> BOOLEAN]] /\ "parent" \in Procs
    BY DEF IInv, TypeOK, Procs
  <2>2. new \in [Exprs -> BOOLEAN]
    <3>1. ASSUME NEW e \in Exprs
          PROVE  (IF e \in fixture THEN e \in held ELSE mem["parent"][e]) \in BOOLEAN
      <4>1. mem["parent"][e] \in BOOLEAN
        BY <2>1
      <4>2. CASE e \in fixture
        <5>1. (e \in held) \in BOOLEAN
          OBVIOUS
        <5>2. QED
          BY <4>2, <5>1, Zenon
      <4>3. CASE e \notin fixture
        BY <4>1, <4>3
      <4>4. QED
        BY <4>2, <4>3
    <3>2. QED
      BY <3>1
  <2>3. mem' = [mem EXCEPT !["parent"] = new]
    BY <1>1 DEF Evaluate
  <2>4. mem' \in [Procs -> [Exprs -> BOOLEAN]] /\ mem'["parent"] = new
    BY <2>1, <2>2, <2>3
  <2>5. QED
    BY <2>4
<1>5. /\ outcome' \in [Exprs -> {"unevaluated", "holds", "fails"}]
      /\ \A e \in Exprs : outcome'[e] =
           (IF e \notin fixture THEN outcome[e]
            ELSE IF e \in held THEN "holds" ELSE "fails")
  BY <1>1 DEF Evaluate, IInv, TypeOK
<1>6. TypeOK'
  BY <1>0, <1>4, <1>5 DEF IInv, TypeOK
<1>7. ControlInv' /\ DescriptorInv'
  BY <1>0, <1>2 DEF IInv, ControlInv, DescriptorInv, Between, InTest
<1>8. ReportInv'
  BY <1>0, <1>2 DEF IInv, ReportInv, Between, InTest, Reported
<1>9. FreshInv'
  <2>1. \A e \in Exprs : e > nExprs => e \notin fixture
    BY <1>3 DEF IInv, TypeOK, Exprs
  <2>2. \A e \in Exprs : e > nExprs' =>
          owner'[e] = 0 /\ outcome'[e] = "unevaluated" /\ mem'["parent"][e]
    BY <1>0, <1>4, <1>5, <2>1 DEF IInv, FreshInv
  <2>3. QED
    BY <1>0, <2>2 DEF IInv, FreshInv, Listed
<1>10. ListInv'
  BY <1>0 DEF IInv, ListInv, Listed, InFixture
<1>11. MemoryInv'
  BY <1>0, <1>2, <1>3, <1>4, <1>5 DEF IInv, MemoryInv
<1>12. HonestInv'
  <2>1. ASSUME NEW t \in Tests
        PROVE  Honest(results[t], t)'
    <3>1. results'[t] = results[t] /\ results[t] \in Result /\ t # 0
      BY <1>0 DEF IInv, TypeOK, Tests
    <3>2. Honest(results[t], t)
      BY DEF IInv, HonestInv
    <3>3. QED
      BY <1>0, <1>3, <1>5, <3>1, <3>2 DEF Honest, Result
  <2>2. QED
    BY <1>0, <1>2, <2>1 DEF HonestInv
<1>13. QED
  BY <1>6, <1>7, <1>8, <1>9, <1>10, <1>11, <1>12 DEF IInv

LEMMA SetupReturnsIInv == ASSUME IInv, SetupReturns PROVE IInv'
<1>1. groups \in Seq(Groups) /\ groups' = groups
  BY DEF IInv, TypeOK, SetupReturns
<1>2. QED
  BY <1>1, EndEffect DEF SetupReturns

LEMMA TeardownReturnsIInv == ASSUME IInv, TeardownReturns PROVE IInv'
<1>1. groups \in Seq(Groups) /\ groups' = SubSeq(groups, 1, Len(groups) - 1)
  BY DEF IInv, TypeOK, TeardownReturns
<1>2. groups' \in Seq(Groups)
  <2>1. Len(groups) \in Nat /\ \A i \in 1..(Len(groups) - 1) : groups[i] \in Groups
    BY <1>1
  <2>2. QED
    BY <1>1, <2>1, SubSeqProperties
<1>3. QED
  BY <1>2, EndEffect DEF TeardownReturns

(* A test has been met: its expressions are listed, not yet evaluated, and   *)
(* its slot of results is empty.                                             *)
TestMet ==
  /\ nTests' = nTests + 1 /\ nTests' \in 0..MaxTests /\ nTests' \in Tests
  /\ nExprs' \in 0..MaxExprs
  /\ owner' \in [Exprs -> 0..MaxTests]
  /\ mExpExpr' \in Seq(Exprs)
  /\ UNCHANGED <<groups, nGroups, fixture, results, usingFork, runs, outcome, expected, fds0>>
  /\ \A e \in fixture : e <= nExprs' /\ owner'[e] = 0 /\ outcome[e] = "unevaluated"
  /\ cpc = "none" /\ mResults = NoResult /\ fds = fds0
  /\ \A e \in Exprs : e > nExprs' =>
       owner'[e] = 0 /\ outcome[e] = "unevaluated" /\ mem["parent"][e]
  /\ \A e \in Listed' : e <= nExprs'
  /\ \A e \in Exprs : owner'[e] <= nTests'
  /\ usingFork => \A e \in 1..nExprs' : e \in Listed'
  /\ \A e \in Exprs : owner'[e] = nTests' => e \in Listed'
  /\ ~usingFork => \A e \in Listed' : owner'[e] \in {0, nTests'}
  /\ \A e \in Exprs : owner'[e] = nTests' => outcome[e] = "unevaluated"
  /\ \A e \in Exprs : ~mem["parent"][e] => owner'[e] = owner[e]
  /\ \A t \in Tests : Honest(results[t], t)'
  /\ \A t \in 1..nTests : Reported(t)
  /\ \A t \in Tests : t >= nTests' => results[t] = NoResult

LEMMA MeetTestEffect == ASSUME IInv, MeetTest PROVE TestMet
<1>0. PICK k \in 0..MaxPerFixture :
        VisitExpectedExpressions(k, nTests + 1)
  BY DEF MeetTest
<1>1. /\ pc = "visiting" /\ groups # <<>> /\ nTests < MaxTests /\ nTests' = nTests + 1
      /\ UNCHANGED <<groups, nGroups, fixture, results, usingFork, runs, outcome, expected, fds0>>
  BY DEF MeetTest, history, session
<1>2. nTests \in Nat /\ nTests' \in 0..MaxTests /\ nTests' \in Tests /\ 0 \notin Tests
  BY <1>1, RunnerAssumption DEF RunnerAssumption, IInv, TypeOK, Tests
<1>3. nTests + 1 \in 0..MaxTests
  BY <1>1, <1>2, RunnerAssumption DEF RunnerAssumption, IInv, TypeOK, Groups
<1>4. /\ nExprs' \in 0..MaxExprs /\ nExprs <= nExprs'
      /\ owner' \in [Exprs -> 0..MaxTests]
      /\ mExpExpr' \in Seq(Exprs)
      /\ NewExprs(k) = {e \in Exprs : e > nExprs /\ e <= nExprs'}
      /\ Listed' = Listed \cup NewExprs(k)
  BY <1>0, <1>3, VisitEffect DEF IInv
<1>5. \A e \in Exprs : owner'[e] = (IF e \in NewExprs(k) THEN nTests + 1 ELSE owner[e])
  BY <1>0 DEF VisitExpectedExpressions
<1>6. /\ nExprs \in Nat /\ nExprs' \in Nat /\ Exprs \subseteq Nat /\ Listed \subseteq Exprs
      /\ 1..nExprs' \subseteq Exprs
  <2>1. Listed \subseteq Exprs
    BY DEF IInv, TypeOK, Listed
  <2>2. nExprs \in Nat /\ nExprs' \in Nat /\ Exprs \subseteq Nat /\ 1..nExprs' \subseteq Exprs
    BY <1>4, RunnerAssumption DEF RunnerAssumption, IInv, TypeOK, Exprs
  <2>3. QED
    BY <2>1, <2>2
<1>7. /\ \A e \in Exprs : e > nExprs =>
           owner[e] = 0 /\ outcome[e] = "unevaluated" /\ mem["parent"][e]
      /\ \A e \in Listed : e <= nExprs
      /\ \A e \in Exprs : owner[e] <= nTests /\ owner[e] \in Nat
  BY DEF IInv, FreshInv, TypeOK
<1>8. \A e \in NewExprs(k) : e \in Exprs /\ e > nExprs /\ e <= nExprs'
  BY <1>4
<1>9. \A e \in Exprs : owner'[e] = nTests' <=> e \in NewExprs(k)
  BY <1>1, <1>2, <1>5, <1>7
<1>10. cpc = "none" /\ mResults = NoResult /\ fds = fds0
  BY <1>1 DEF IInv, ControlInv, DescriptorInv, HonestInv, Between
<1>11. \A e \in Exprs : e > nExprs' =>
         owner'[e] = 0 /\ outcome[e] = "unevaluated" /\ mem["parent"][e]
  <2> SUFFICES ASSUME NEW e \in Exprs, e > nExprs'
               PROVE  owner'[e] = 0 /\ outcome[e] = "unevaluated" /\ mem["parent"][e]
    OBVIOUS
  <2>1. e > nExprs /\ e \notin NewExprs(k)
    BY <1>4, <1>6
  <2>2. QED
    BY <1>5, <1>7, <2>1
<1>12. ASSUME NEW e \in Listed'
       PROVE  e <= nExprs'
  <2>1. e \in Listed \/ e \in NewExprs(k)
    BY <1>4
  <2>2. CASE e \in Listed
    <3>1. e <= nExprs /\ e \in Nat
      BY <1>6, <1>7, <2>2
    <3>2. QED
      BY <1>4, <1>6, <3>1
  <2>3. CASE e \in NewExprs(k)
    BY <1>8, <2>3
  <2>4. QED
    BY <2>1, <2>2, <2>3
<1>13. \A e \in Exprs : owner'[e] <= nTests'
  BY <1>1, <1>2, <1>5, <1>7
<1>14. usingFork => \A e \in 1..nExprs' : e \in Listed'
  <2> SUFFICES ASSUME usingFork, NEW e \in 1..nExprs'
               PROVE  e \in Listed'
    OBVIOUS
  <2>1. CASE e <= nExprs
    BY <1>4, <1>6, <2>1 DEF IInv, ListInv
  <2>2. CASE e > nExprs
    BY <1>4, <1>6, <2>2
  <2>3. QED
    BY <1>6, <2>1, <2>2
<1>15. \A e \in Exprs : owner'[e] = nTests' => e \in Listed'
  BY <1>4, <1>9
<1>16. ~usingFork => \A e \in Listed' : owner'[e] \in {0, nTests'}
  BY <1>1, <1>4, <1>5, <1>6 DEF IInv, ListInv
<1>17. \A e \in Exprs : owner'[e] = nTests' => outcome[e] = "unevaluated"
  BY <1>7, <1>8, <1>9
<1>18. \A e \in Exprs : ~mem["parent"][e] => owner'[e] = owner[e]
  BY <1>5, <1>7, <1>8
<1>19. /\ \A t \in 1..nTests : Reported(t)
       /\ \A t \in Tests : t >= nTests' => results[t] = NoResult
  BY <1>1, <1>2 DEF IInv, ReportInv, Between, Tests
<1>22. \A e \in fixture : e <= nExprs' /\ owner'[e] = 0 /\ outcome[e] = "unevaluated"
  <2> SUFFICES ASSUME NEW e \in fixture
               PROVE  e <= nExprs' /\ owner'[e] = 0 /\ outcome[e] = "unevaluated"
    OBVIOUS
  <2>1. e \in Exprs /\ e \in Nat /\ e <= nExprs /\ owner[e] = 0 /\ outcome[e] = "unevaluated"
    BY <1>6 DEF IInv, TypeOK, FreshInv
  <2>2. e \notin NewExprs(k) /\ e <= nExprs'
    BY <1>4, <1>6, <1>8, <2>1
  <2>3. QED
    BY <1>5, <2>1, <2>2
<1>20. ASSUME NEW t \in Tests
       PROVE  Honest(results[t], t)'
  <2>1. Honest(results[t], t) /\ results'[t] = results[t] /\ results[t] \in Result
    BY <1>1 DEF IInv, HonestInv, TypeOK
  <2>2. outcome' = outcome
    BY <1>1
  <2>3. \A e \in NewExprs(k) : outcome[e] = "unevaluated"
    BY <1>7, <1>8
  <2>4. \A e \in Exprs : outcome[e] = "fails" => owner'[e] = owner[e]
    BY <1>5, <2>3
  <2>5. QED
    BY <2>1, <2>2, <2>4 DEF Honest, Result
<1>21. QED
  BY <1>1, <1>2, <1>4, <1>10, <1>11, <1>12, <1>13, <1>14, <1>15, <1>16, <1>17, <1>18, <1>19, <1>20, <1>22 DEF TestMet

(* The three ways a test is started from there. *)
LEMMA CannotForkIInv == ASSUME IInv, CannotFork PROVE IInv'
<1>0. /\ MeetTest /\ usingFork /\ pc' = "aborted" /\ fds' \in {fds, fds + 2}
      /\ UNCHANGED <<mem, child>>
  BY DEF CannotFork
<1>e. TestMet
  BY <1>0, MeetTestEffect
<1>1. TypeOK'
  BY <1>0, <1>e DEF TestMet, IInv, TypeOK, child
<1>2. ControlInv' /\ DescriptorInv'
  BY <1>0, <1>e DEF TestMet, IInv, TypeOK, ControlInv, DescriptorInv, Between, InTest, child
<1>3. ReportInv'
  BY <1>0, <1>e DEF TestMet, IInv, TypeOK, ReportInv, Between, InTest, Tests, Reported, child
<1>4. FreshInv'
  BY <1>0, <1>e DEF TestMet, FreshInv
<1>5. ListInv' /\ MemoryInv'
  BY <1>0, <1>e DEF TestMet, IInv, ListInv, MemoryInv, child
<1>6. HonestInv'
  BY <1>0, <1>e DEF TestMet, HonestInv, child
<1>7. QED
  BY <1>1, <1>2, <1>3, <1>4, <1>5, <1>6 DEF IInv

LEMMA ForkTestIInv == ASSUME IInv, ForkTest PROVE IInv'
<1>0. /\ MeetTest /\ usingFork /\ pc' = "waiting" /\ cpc' = "fud" /\ fds' = fds + 2
      /\ mem' = [mem EXCEPT !["child"] = mem["parent"]]
      /\ toPrint' \in 0..MaxOutput /\ UNCHANGED <<captured, mResults, toWrite, inPipe>>
  BY DEF ForkTest
<1>e. TestMet
  BY <1>0, MeetTestEffect
<1>m. /\ mem' \in [Procs -> [Exprs -> BOOLEAN]]
      /\ mem'["parent"] = mem["parent"] /\ mem'["child"] = mem["parent"]
  BY <1>0 DEF IInv, TypeOK, Procs
<1>1. TypeOK'
  BY <1>0, <1>m, <1>e DEF TestMet, IInv, TypeOK
<1>2. ControlInv' /\ DescriptorInv'
  BY <1>0, <1>e DEF TestMet, IInv, TypeOK, ControlInv, DescriptorInv, Between, InTest
<1>3. ReportInv'
  BY <1>0, <1>e DEF TestMet, IInv, TypeOK, ReportInv, Between, InTest, Tests, Reported
<1>4. FreshInv'
  BY <1>0, <1>m, <1>e DEF TestMet, FreshInv
<1>5. ListInv'
  BY <1>0, <1>e DEF TestMet, ListInv
<1>6. MemoryInv'
  BY <1>0, <1>m, <1>e DEF TestMet, IInv, MemoryInv
<1>7. HonestInv'
  BY <1>0, <1>e DEF TestMet, HonestInv
<1>8. QED
  BY <1>1, <1>2, <1>3, <1>4, <1>5, <1>6, <1>7 DEF IInv

LEMMA RunTestInlineIInv == ASSUME IInv, RunTestInline PROVE IInv'
<1>0. /\ MeetTest /\ ~usingFork /\ pc' = "inline" /\ cpc' = "fud"
      /\ toPrint' \in 0..MaxOutput
      /\ UNCHANGED <<mem, fds, captured, mResults, toWrite, inPipe>>
  BY DEF RunTestInline
<1>e. TestMet
  BY <1>0, MeetTestEffect
<1>1. TypeOK'
  BY <1>0, <1>e DEF TestMet, IInv, TypeOK
<1>2. ControlInv' /\ DescriptorInv'
  BY <1>0, <1>e DEF TestMet, IInv, TypeOK, ControlInv, DescriptorInv, Between, InTest
<1>3. ReportInv'
  BY <1>0, <1>e DEF TestMet, IInv, TypeOK, ReportInv, Between, InTest, Tests, Reported
<1>4. FreshInv'
  BY <1>0, <1>e DEF TestMet, FreshInv
<1>5. ListInv'
  BY <1>0, <1>e DEF TestMet, ListInv
<1>6. MemoryInv'
  BY <1>0, <1>e DEF TestMet, IInv, MemoryInv
<1>7. HonestInv'
  BY <1>0, <1>e DEF TestMet, HonestInv
<1>8. QED
  BY <1>1, <1>2, <1>3, <1>4, <1>5, <1>6, <1>7 DEF IInv

(* The test's expressions are evaluated where the test runs. *)
LEMMA FudReturnsIInv == ASSUME IInv, FudReturns PROVE IInv'
<1>0. /\ cpc = "fud" /\ cpc' = "verdict"
      /\ UNCHANGED <<pc, walk, exprs, toPrint, captured, mResults, toWrite, inPipe,
                     results, fds, usingFork, runs, fds0>>
  BY DEF FudReturns, session
<1>1. PICK held \in SUBSET OwnExprs(nTests) : Evaluate(Runner, OwnExprs(nTests), held)
  BY DEF FudReturns
<1>2. PICK r \in {"none", "holds", "fails"} : expected' = [expected EXCEPT ![nTests] = r]
  BY DEF FudReturns
<1>3. expected' \in [Tests -> {"unevaluated", "none", "holds", "fails"}]
  BY <1>2 DEF IInv, TypeOK
<1>4. Runner \in Procs
  BY DEF Runner, Procs
<1> DEFINE own == OwnExprs(nTests)
           new == [e \in Exprs |-> IF e \in own THEN e \in held ELSE mem[Runner][e]]
<1>5. mem' = [mem EXCEPT ![Runner] = new]
  BY <1>1 DEF Evaluate
<1>6. new \in [Exprs -> BOOLEAN]
  <2>1. ASSUME NEW e \in Exprs
        PROVE  (IF e \in own THEN e \in held ELSE mem[Runner][e]) \in BOOLEAN
    <3>1. mem[Runner][e] \in BOOLEAN
      BY <1>4 DEF IInv, TypeOK
    <3>2. (e \in held) \in BOOLEAN
      OBVIOUS
    <3>3. QED
      BY <3>1, <3>2, Zenon
  <2>2. QED
    BY <2>1
<1>7. /\ mem' \in [Procs -> [Exprs -> BOOLEAN]]
      /\ \A e \in Exprs : mem'[Runner][e] =
           (IF e \in own THEN e \in held ELSE mem[Runner][e])
      /\ \A p \in Procs : p # Runner => mem'[p] = mem[p]
  <2>1. mem \in [Procs -> [Exprs -> BOOLEAN]]
    BY DEF IInv, TypeOK
  <2>2. mem' \in [Procs -> [Exprs -> BOOLEAN]] /\ mem'[Runner] = new
    BY <1>4, <1>5, <1>6, <2>1
  <2>3. \A p \in Procs : p # Runner => mem'[p] = mem[p]
    BY <1>5, <2>1
  <2>4. QED
    BY <2>2, <2>3
<1> HIDE DEF new
<1>8. /\ outcome' \in [Exprs -> {"unevaluated", "holds", "fails"}]
      /\ \A e \in Exprs : outcome'[e] =
           (IF e \notin own THEN outcome[e] ELSE IF e \in held THEN "holds" ELSE "fails")
  BY <1>1 DEF Evaluate, IInv, TypeOK
<1>9. \A e \in Exprs : e \in own <=> e <= nExprs /\ owner[e] = nTests
  BY DEF OwnExprs, Exprs, IInv, TypeOK
<1>10. InTest /\ nTests > 0 /\ nTests \in Tests
  BY <1>0 DEF IInv, ControlInv, InTest, TypeOK, Tests
<1>11. TypeOK'
  BY <1>0, <1>3, <1>7, <1>8 DEF IInv, TypeOK, walk, exprs
<1>12. ControlInv' /\ DescriptorInv'
  BY <1>0 DEF IInv, ControlInv, DescriptorInv, Between, InTest, walk
<1>13. ReportInv'
  BY <1>0 DEF IInv, ReportInv, Between, InTest, Reported, walk
<1> USE DEF walk, exprs
<1>a. \A e \in Exprs : e \in own => owner[e] # 0
  BY <1>9, <1>10
<1>b. \A e \in Exprs : e \notin own => mem'["parent"][e] = mem["parent"][e]
  BY <1>7 DEF Runner, Procs
<1>14. FreshInv'
  <2>1. \A e \in Exprs : e > nExprs =>
          owner[e] = 0 /\ outcome'[e] = "unevaluated" /\ mem'["parent"][e]
    BY <1>8, <1>a, <1>b DEF IInv, FreshInv
  <2>2. \A e \in fixture : e <= nExprs /\ owner[e] = 0 /\ outcome'[e] = "unevaluated"
    BY <1>8, <1>a DEF IInv, TypeOK, FreshInv
  <2>3. QED
    BY <1>0, <2>1, <2>2 DEF IInv, FreshInv, Listed
<1>15. ListInv'
  BY <1>0 DEF IInv, ListInv, Listed, walk, exprs
<1>16. MemoryInv'
  <2>1. ASSUME NEW e \in Exprs, ~mem'["parent"][e]
        PROVE  outcome'[e] = "fails" /\ (usingFork => owner[e] = 0)
    <3>1. CASE e \notin own
      BY <1>8, <1>b, <2>1, <3>1 DEF IInv, MemoryInv
    <3>2. CASE e \in own /\ usingFork
      <4>1. mem'["parent"] = mem["parent"]
        BY <1>7, <3>2 DEF Runner, Procs
      <4>2. QED
        BY <1>a, <2>1, <3>2, <4>1 DEF IInv, MemoryInv
    <3>3. CASE e \in own /\ ~usingFork
      BY <1>7, <1>8, <2>1, <3>3 DEF Runner
    <3>4. QED
      BY <3>1, <3>2, <3>3
  <2>2. ASSUME usingFork, NEW e \in Exprs, ~mem'["child"][e]
        PROVE  outcome'[e] = "fails" /\ owner[e] \in {0, nTests}
    <3>1. CASE e \in own
      BY <1>7, <1>8, <1>9, <2>2, <3>1 DEF Runner
    <3>2. CASE e \notin own
      BY <1>0, <1>7, <1>8, <2>2, <3>2 DEF Runner, IInv, MemoryInv
    <3>3. QED
      BY <3>1, <3>2
  <2>3. ASSUME NEW e \in Exprs, owner[e] = nTests, outcome'[e] = "fails"
        PROVE  ~mem'[Runner][e]
    <3>1. e \in own
      BY <1>9, <1>10, <2>3 DEF IInv, FreshInv, TypeOK, Exprs
    <3>2. e \notin held
      BY <1>8, <2>3, <3>1
    <3>3. mem'[Runner][e] = (e \in held)
      BY <1>7, <3>1
    <3>4. QED
      BY <3>2, <3>3
  <2>4. Runner' = Runner
    BY <1>0 DEF Runner
  <2>5. QED
    BY <1>0, <2>1, <2>2, <2>3, <2>4 DEF MemoryInv
<1>17. HonestInv'
  <2>1. results[nTests] = NoResult
    BY <1>10 DEF IInv, ReportInv
  <2>2. ASSUME NEW t \in Tests
        PROVE  Honest(results[t], t)'
    <3>1. Honest(results[t], t) /\ results[t] \in Result /\ t # 0
      BY RunnerAssumption DEF IInv, HonestInv, TypeOK, Tests
    <3>2. results' = results /\ owner' = owner
      BY <1>0
    <3>3. CASE t = nTests
      BY <2>1, <3>2, <3>3 DEF Honest, NoResult
    <3>4. CASE t # nTests
      BY <1>8, <1>9, <1>a, <3>1, <3>2, <3>4 DEF Honest, Result
    <3>5. QED
      BY <3>3, <3>4
  <2>3. QED
    BY <1>0, <2>2 DEF IInv, HonestInv
<1>18. QED
  BY <1>11, <1>12, <1>13, <1>14, <1>15, <1>16, <1>17 DEF IInv

(* What the child collects: it blames only expressions that are false in its
   memory, and cannot pass while one of the test's own is. *)
LEMMA CollectedHonest ==
  ASSUME IInv, cpc = "verdict"
  PROVE  Honest(Collected, nTests)
<1>1. InTest /\ nTests \in Tests /\ (pc = "inline" <=> ~usingFork)
  BY DEF IInv, ControlInv, InTest, TypeOK, Tests
<1>2. Listed \subseteq Exprs
  BY DEF IInv, TypeOK, Listed
<1>3. \A e \in Exprs : owner[e] = nTests => e \in Listed
  <2>1. CASE ~usingFork
    BY <1>1, <2>1 DEF IInv, ListInv
  <2>2. CASE usingFork
    <3>1. \A e \in Exprs : owner[e] = nTests => e \in 1..nExprs
      BY <1>1 DEF IInv, FreshInv, TypeOK, Exprs, Tests
    <3>2. QED
      BY <2>2, <3>1 DEF IInv, ListInv
  <2>3. QED
    BY <2>1, <2>2
<1>4. ASSUME NEW e \in Failing
      PROVE  outcome[e] = "fails" /\ owner[e] \in {0, nTests}
  <2>1. e \in Listed /\ e \in Exprs /\ ~mem[Runner][e]
    BY <1>2, <1>4 DEF Failing
  <2>2. CASE usingFork
    BY <2>1, <2>2 DEF IInv, MemoryInv, Runner
  <2>3. CASE ~usingFork
    BY <1>1, <2>1, <2>3 DEF IInv, MemoryInv, ListInv, Runner
  <2>4. QED
    BY <2>2, <2>3
<1>5. ASSUME Failing = {}, NEW e \in Exprs, owner[e] = nTests
      PROVE  outcome[e] # "fails"
  <2>1. e \in Listed
    BY <1>3, <1>5
  <2>2. mem[Runner][e]
    BY <1>5, <2>1 DEF Failing
  <2>3. QED
    BY <1>5, <2>2 DEF IInv, MemoryInv
<1>6. Collected.FAILED_EE \subseteq Failing /\ (Collected.RESULT = "PASSED" => Failing = {})
  BY DEF Collected
<1>7. QED
  BY <1>4, <1>5, <1>6 DEF Honest

LEMMA CollectInChildIInv == ASSUME IInv, CollectInChild PROVE IInv'
<1>0. /\ usingFork /\ cpc = "verdict" /\ mResults' = Collected
      /\ toWrite' = MessageSize(Collected) /\ captured' = 0 /\ cpc' = "save"
      /\ mExpExpr' = mExpExpr
      /\ UNCHANGED <<pc, groups, nGroups, nTests, fixture, nExprs, owner, mem, toPrint, inPipe,
                     results, fds, usingFork, runs, outcome, expected, fds0>>
  BY DEF CollectInChild, ParentListAfterTest, walk, history, session
<1>1. Honest(Collected, nTests)
  BY <1>0, CollectedHonest
<1>2. /\ Collected \in Result /\ Collected.RESULT \in Verdicts
      /\ MessageSize(Collected) \in Nat
  BY CollectedType DEF IInv
<1>3. TypeOK'
  BY <1>0, <1>2, RunnerAssumption DEF RunnerAssumption, IInv, TypeOK
<1>4. ControlInv' /\ DescriptorInv'
  BY <1>0 DEF IInv, ControlInv, DescriptorInv, Between, InTest
<1>5. ReportInv'
  BY <1>0, <1>2 DEF IInv, ReportInv, Between, InTest, Reported
<1>6. FreshInv' /\ ListInv' /\ MemoryInv'
  BY <1>0 DEF IInv, FreshInv, ListInv, MemoryInv, Listed
<1>7. HonestInv'
  BY <1>0, <1>1 DEF IInv, HonestInv, Honest
<1>8. QED
  BY <1>3, <1>4, <1>5, <1>6, <1>7 DEF IInv

LEMMA CollectInlineIInv == ASSUME IInv, CollectInline PROVE IInv'
<1>0. /\ ~usingFork /\ cpc = "verdict" /\ results' = [results EXCEPT ![nTests] = Collected]
      /\ captured' = 0 /\ cpc' = "none" /\ pc' = "visiting" /\ mExpExpr' = <<>>
      /\ UNCHANGED <<groups, nGroups, nTests, fixture, nExprs, owner, mem, toPrint, mResults,
                     toWrite, inPipe, fds, usingFork, runs, outcome, expected, fds0>>
  BY DEF CollectInline, SetTestResults, ParentListAfterTest, walk, history, session
<1>1. Honest(Collected, nTests)
  BY <1>0, CollectedHonest
<1>2. Collected \in Result /\ Collected.RESULT \in Verdicts
  BY CollectedType DEF IInv
<1>3. InTest /\ pc = "inline" /\ nTests \in Tests /\ nTests \in Nat
  BY <1>0 DEF IInv, ControlInv, InTest, TypeOK, Tests
<1>4. /\ results' \in [Tests -> Result] /\ results'[nTests] = Collected
      /\ \A t \in Tests : t # nTests => results'[t] = results[t]
  BY <1>0, <1>2, <1>3 DEF IInv, TypeOK
<1>5. TypeOK'
  BY <1>0, <1>4, RunnerAssumption DEF RunnerAssumption, IInv, TypeOK
<1>6. ControlInv' /\ DescriptorInv'
  BY <1>0, <1>3 DEF IInv, TypeOK, ControlInv, DescriptorInv, Between, InTest
<1>7. ReportInv'
  <2>1. ASSUME NEW t \in 1..nTests
        PROVE  Reported(t)'
    <3>1. CASE t = nTests
      BY <1>2, <1>4, <3>1 DEF Reported
    <3>2. CASE t # nTests
      <4>1. t \in 1..(nTests - 1) /\ t \in Tests
        BY <1>3, <3>2, RunnerAssumption DEF RunnerAssumption, Tests
      <4>2. QED
        BY <1>3, <1>4, <3>2, <4>1 DEF IInv, ReportInv, Reported, InTest
    <3>3. QED
      BY <3>1, <3>2
  <2>2. \A t \in Tests : t > nTests => results'[t] = NoResult
    BY <1>3, <1>4 DEF IInv, ReportInv
  <2>3. QED
    BY <1>0, <2>1, <2>2 DEF IInv, ReportInv, Between, InTest, ControlInv
<1>8. Listed' = {}
  BY <1>0 DEF Listed
<1>9. FreshInv' /\ ListInv' /\ MemoryInv'
  BY <1>0, <1>8 DEF IInv, FreshInv, ListInv, MemoryInv
<1>10. HonestInv'
  BY <1>0, <1>1, <1>4 DEF IInv, HonestInv, Honest
<1>11. QED
  BY <1>5, <1>6, <1>7, <1>9, <1>10 DEF IInv

LEMMA ReadFromDiskIInv == ASSUME IInv, ReadFromDisk PROVE IInv'
<1>0. /\ pc = "reading" /\ inPipe > 0 /\ results' = [results EXCEPT ![nTests] = mResults]
      /\ fds' = fds - 2 /\ inPipe' = 0 /\ mResults' = NoResult
      /\ pc' = "visiting" /\ cpc' = "none"
      /\ UNCHANGED <<groups, nGroups, nTests, fixture, nExprs, owner, mExpExpr, mem, toPrint,
                     captured, toWrite, usingFork, runs, outcome, expected, fds0>>
  BY DEF ReadFromDisk, SetTestResults, DescriptorsAfterRead, walk, exprs, history, session
<1>1. cpc = "exit" /\ usingFork /\ nTests \in Tests /\ nTests \in Nat
  BY <1>0 DEF IInv, ControlInv, InTest, TypeOK, Tests
<1>2. mResults \in Result /\ mResults.RESULT \in Verdicts /\ Honest(mResults, nTests)
  BY <1>0, <1>1 DEF IInv, TypeOK, ReportInv, HonestInv
<1>3. /\ results' \in [Tests -> Result] /\ results'[nTests] = mResults
      /\ \A t \in Tests : t # nTests => results'[t] = results[t]
  BY <1>0, <1>1, <1>2 DEF IInv, TypeOK
<1>4. TypeOK'
  BY <1>0, <1>3, RunnerAssumption
  DEF RunnerAssumption, IInv, TypeOK, DescriptorInv, Result, NoResult
<1>5. ControlInv' /\ DescriptorInv'
  BY <1>0 DEF IInv, TypeOK, ControlInv, DescriptorInv, Between, InTest
<1>6. ReportInv'
  <2>1. ASSUME NEW t \in 1..nTests
        PROVE  Reported(t)'
    <3>1. CASE t = nTests
      BY <1>2, <1>3, <3>1 DEF Reported
    <3>2. CASE t # nTests
      <4>1. t \in 1..(nTests - 1) /\ t \in Tests
        BY <1>1, <3>2, RunnerAssumption DEF RunnerAssumption, Tests
      <4>2. QED
        BY <1>0, <1>3, <3>2, <4>1 DEF IInv, ReportInv, Reported, InTest
    <3>3. QED
      BY <3>1, <3>2
  <2>2. \A t \in Tests : t > nTests => results'[t] = NoResult
    BY <1>1, <1>3 DEF IInv, ReportInv
  <2>3. QED
    BY <1>0, <2>1, <2>2 DEF IInv, ReportInv, Between, InTest
<1>7. FreshInv' /\ ListInv' /\ MemoryInv'
  BY <1>0, <1>1 DEF IInv, FreshInv, ListInv, MemoryInv, Listed
<1>8. HonestInv'
  BY <1>0, <1>2, <1>3 DEF IInv, HonestInv, Honest
<1>9. QED
  BY <1>4, <1>5, <1>6, <1>7, <1>8 DEF IInv

LEMMA NextRunIInv == ASSUME IInv, NextRun PROVE IInv'
<1> USE RunnerAssumption DEF RunnerAssumption, NextRun
<1>1. TypeOK'
  BY DEF IInv, TypeOK, NoResult, Result, Verdicts, Tests, Exprs, Procs
<1>2. ControlInv' /\ DescriptorInv'
  BY DEF IInv, TypeOK, ControlInv, DescriptorInv, Between, InTest
<1>3. ReportInv'
  BY DEF ReportInv, Between, InTest
<1>4. Listed' = {}
  BY DEF Listed
<1>5. FreshInv' /\ ListInv' /\ MemoryInv'
  BY <1>4 DEF FreshInv, ListInv, MemoryInv, Exprs, Procs
<1>6. HonestInv'
  BY DEF HonestInv, Honest, NoResult, Tests
<1>7. QED
  BY <1>1, <1>2, <1>3, <1>5, <1>6 DEF IInv
-----------------------------------------------------------------------------
(* Every step of the specification preserves the inductive invariant.       *)
LEMMA NextIInv == IInv /\ [Next]_vars => IInv'
<1> SUFFICES ASSUME IInv, [Next]_vars PROVE IInv'
  OBVIOUS
<1>1. CASE TestStep
  <2>1. CASE FudSignalled
    BY <2>1, FudEndsIInv DEF FudSignalled
  <2>2. CASE FudExits
    BY <2>2, FudEndsIInv DEF FudExits
  <2>3. CASE FudHangs
    BY <2>3, FudEndsIInv DEF FudHangs
  <2>4. QED
    BY <1>1, <2>1, <2>2, <2>3, FudPrintsIInv, FudReturnsIInv, CollectInChildIInv,
       CollectInlineIInv, ChildWritesIInv, ChildExitsIInv DEF TestStep
<1>2. CASE JcutStep
  <2>1. CASE FixtureDies
    BY <2>1, FixtureEndsIInv DEF FixtureDies
  <2>2. CASE FixtureHangs
    BY <2>2, FixtureEndsIInv DEF FixtureHangs
  <2>3. QED
    BY <1>2, <2>1, <2>2, EnterGroupIInv, FixturePrintsIInv, SetupReturnsIInv, LeaveGroupIInv,
       TeardownReturnsIInv, LogIInv, CannotForkIInv, ForkTestIInv, RunTestInlineIInv,
       WaitPidIInv, ReadNothingIInv, ReadFromDiskIInv DEF JcutStep
<1>3. CASE NextRun
  BY <1>3, NextRunIInv
<1>4. CASE UNCHANGED vars
  BY <1>4 DEF vars, walk, exprs, child, history, session, IInv, TypeOK, ControlInv, DescriptorInv,
     ReportInv, FreshInv, ListInv, MemoryInv, HonestInv, Honest, Between, InTest, Reported,
     Listed, Runner
<1>5. QED
  BY <1>1, <1>2, <1>3, <1>4 DEF Next

LEMMA SpecIInv == Spec => []IInv
<1>1. QED
  BY InitIInv, NextIInv, PTL DEF Spec

(* The variables of the runner keep their types and the counters their       *)
(* bounds, for test files, pipes and sessions of any size.                   *)
THEOREM TypeCorrect == Spec => []TypeOK
<1>1. IInv => TypeOK
  BY DEF IInv
<1>2. QED
  BY <1>1, SpecIInv, PTL

(* A false check of a test always fails it, with or without fork, whatever   *)
(* VisitTestDefinition does with the other expressions in its list.          *)
THEOREM OwnFailuresAreReported == Spec => []OwnFailureReported
<1>1. IInv => OwnFailureReported
  BY DEF IInv, HonestInv, Honest, OwnFailureReported
<1>2. QED
  BY <1>1, SpecIInv, PTL

(* No test is blamed for an expression of another test, or for one that      *)
(* held: with fork because the parent's copies of the tests' result globals  *)
(* are never written, without it because the list is cleared.                *)
THEOREM BlameIsJust == Spec => []BlameIsOwnOrGroup
<1>1. IInv => BlameIsOwnOrGroup
  BY DEF IInv, HonestInv, Honest, BlameIsOwnOrGroup
<1>2. QED
  BY <1>1, SpecIInv, PTL

(* A run that reaches its report has a verdict for every test.               *)
THEOREM ReportsAreComplete == Spec => []CompleteReport
<1>1. IInv => CompleteReport
  BY DEF IInv, ReportInv, Between, CompleteReport
<1>2. QED
  BY <1>1, SpecIInv, PTL

(* Descriptors of result pipes are lost by aborted runs only, two at most.   *)
THEOREM DescriptorsAreBalanced == Spec => []DescriptorsBalanced
<1>1. IInv => DescriptorsBalanced
  BY DEF IInv, DescriptorInv, Between, DescriptorsBalanced
<1>2. QED
  BY <1>1, SpecIInv, PTL

(***************************************************************************)
(* TestRunner implements Report: the walk, the fork, the pipe and the      *)
(* session amount to recording one verdict per test in file order and then *)
(* printing all of them or none.                                           *)
(***************************************************************************)


(* The number of verdicts recorded while the run has not failed. *)
RecordedCount == IF InTest THEN nTests - 1 ELSE nTests

(* A step that ends the run in failure drops what was recorded. *)
LEMMA FailStep ==
  ASSUME pc \notin {"logged", "aborted", "died"}, pc' \in {"aborted", "died"}
  PROVE  Abstract!ReportNext
<1>1. Status = "running" /\ Status' = "failed" /\ Recorded' = <<>>
  BY DEF Status, Recorded
<1>2. QED
  BY <1>1 DEF Abstract!ReportNext, Abstract!Fail

(* A step that leaves the number of recorded verdicts and the verdicts alone
   is invisible in the report. *)
LEMMA StutterStep ==
  ASSUME pc \notin {"logged", "aborted", "died"}, pc' \notin {"logged", "aborted", "died"},
         results' = results, RecordedCount' = RecordedCount
  PROVE  UNCHANGED Abstract!reportVars
<1>1. Status = "running" /\ Status' = "running"
  BY DEF Status
<1>2. Recorded' = Recorded
  BY DEF Recorded, RecordedCount, InTest
<1>3. QED
  BY <1>1, <1>2 DEF Abstract!reportVars

(* The step that stores the current test's verdict records it. *)
LEMMA RecordStep ==
  ASSUME IInv, InTest, pc' = "visiting", nTests' = nTests,
         NEW r \in Result, r.RESULT \in Verdicts,
         results' = [results EXCEPT ![nTests] = r]
  PROVE  Abstract!ReportNext
<1>1. nTests \in Tests /\ nTests \in Nat /\ nTests > 0 /\ pc \notin {"logged", "aborted", "died"}
  BY DEF IInv, ControlInv, InTest, TypeOK, Tests
<1>2. Status = "running" /\ Status' = "running"
  BY <1>1 DEF Status
<1>3. Recorded = [t \in 1..(nTests - 1) |-> results[t].RESULT]
  BY DEF Recorded, InTest
<1>4. Recorded' = [t \in 1..nTests |-> results'[t].RESULT]
  BY DEF Recorded
<1>5. /\ results'[nTests].RESULT = r.RESULT
      /\ \A t \in 1..(nTests - 1) : results'[t] = results[t]
  <2>1. results \in [Tests -> Result]
    BY DEF IInv, TypeOK
  <2>2. QED
    BY <1>1, <2>1
<1>6. Recorded' = Append(Recorded, r.RESULT)
  <2>1. Len(Recorded) = nTests - 1
    BY <1>1, <1>3
  <2>2. QED
    BY <1>1, <1>3, <1>4, <1>5, <2>1
<1>7. QED
  BY <1>2, <1>6 DEF Abstract!ReportNext, Abstract!Record, Verdicts

LEMMA InitReport == Init => Abstract!ReportInit
BY DEF Init, Status, Recorded, Abstract!ReportInit

LEMMA NextReport ==
  ASSUME IInv, IInv', [Next]_vars
  PROVE  [Abstract!ReportNext]_(Abstract!reportVars)
<1> USE DEF InTest, RecordedCount
<1>n. nTests \in Nat
  BY DEF IInv, TypeOK
<1>1. CASE EnterGroup
  BY <1>1, StutterStep DEF EnterGroup, BeginFixture
<1>2. CASE LeaveGroup
  BY <1>2, StutterStep DEF LeaveGroup, BeginFixture
<1>3. CASE FixtureDies \/ FixtureHangs
  BY <1>3, FailStep, StutterStep DEF FixtureDies, FixtureHangs, FixtureEnds, InFixture, walk
<1>17. CASE SetupReturns \/ TeardownReturns
  BY <1>17, StutterStep DEF SetupReturns, TeardownReturns, EndFixture
<1>4. CASE CannotFork
  BY <1>4, FailStep DEF CannotFork, MeetTest
<1>5. CASE ForkTest
  BY <1>5, <1>n, StutterStep DEF ForkTest, MeetTest
<1>6. CASE RunTestInline
  BY <1>6, <1>n, StutterStep DEF RunTestInline, MeetTest
<1>7. CASE WaitPid
  BY <1>7, FailStep, StutterStep DEF WaitPid, AfterWait, walk
<1>8. CASE ReadNothing
  BY <1>8, FailStep DEF ReadNothing
<1>9. CASE ReadFromDisk
  <2>1. mResults \in Result /\ mResults.RESULT \in Verdicts
    BY <1>9 DEF ReadFromDisk, IInv, TypeOK, ReportInv
  <2>2. QED
    BY <1>9, <2>1, RecordStep DEF ReadFromDisk, SetTestResults, walk
<1>10. CASE CollectInline
  <2>1. Collected \in Result /\ Collected.RESULT \in Verdicts
    BY CollectedType DEF IInv
  <2>2. InTest
    BY <1>10 DEF CollectInline, IInv, ControlInv
  <2>3. QED
    BY <1>10, <2>1, <2>2, RecordStep DEF CollectInline, SetTestResults, walk
<1>11. CASE Log
  <2>1. Status = "running" /\ Status' = "published" /\ Recorded' = Recorded
    BY <1>11 DEF Log, Status, Recorded, walk
  <2>2. QED
    BY <2>1 DEF Abstract!ReportNext, Abstract!Publish
<1>12. CASE NextRun
  <2>1. Status \in {"published", "failed"} /\ Status' = "running"
    BY <1>12 DEF NextRun, Status
  <2>2. Recorded' = <<>>
    BY <1>12 DEF NextRun, Recorded
  <2>3. QED
    BY <2>1, <2>2 DEF Abstract!ReportNext, Abstract!RunAgain
<1>13. CASE FudSignalled \/ FudExits \/ FudHangs
  <2>1. InTest
    BY <1>13 DEF FudSignalled, FudExits, FudHangs, FudEnds, IInv, ControlInv
  <2>2. pc' \in {pc, "died"} /\ results' = results /\ nTests' = nTests
    BY <1>13 DEF FudSignalled, FudExits, FudHangs, FudEnds, walk
  <2>3. QED
    BY <2>1, <2>2, FailStep, StutterStep
<1>14. CASE FixturePrints \/ FudPrints \/ FudReturns \/ CollectInChild \/ ChildWrites \/ ChildExits
  <2>1. pc' = pc /\ results' = results /\ nTests' = nTests
    BY <1>14 DEF FixturePrints, FudPrints, FudReturns, CollectInChild, ChildWrites, ChildExits, walk
  <2>2. QED
    BY <2>1 DEF Abstract!reportVars, Status, Recorded
<1>15. CASE UNCHANGED vars
  BY <1>15 DEF vars, walk, Abstract!reportVars, Status, Recorded
<1>16. QED
  BY <1>1, <1>2, <1>3, <1>4, <1>5, <1>6, <1>7, <1>8, <1>9, <1>10, <1>11, <1>12, <1>13,
     <1>14, <1>15, <1>17 DEF Next, TestStep, JcutStep

(* Every behaviour of the runner is a behaviour of the abstract report.      *)
THEOREM RunnerImplementsReport == Spec => ImplementsReport
<1>1. IInv /\ IInv' /\ [Next]_vars => [Abstract!ReportNext]_(Abstract!reportVars)
  BY NextReport
<1>2. QED
  BY <1>1, InitReport, SpecIInv, PTL DEF Spec, ImplementsReport, Abstract!ReportSpec
=============================================================================
