----------------------------- MODULE TestRunner -----------------------------
(***************************************************************************)
(* The execution of one test file by jcut: TestRunnerVisitor walks the     *)
(* tree of groups and tests, runs before_all and after_all in its own      *)
(* process, runs every test in a forked child (unless --no-fork), and      *)
(* reads the verdict the child sends back through a pipe.  JCUTAction      *)
(* prints the report only when the whole walk succeeded, and the           *)
(* interpreter may start another run in the same process.                  *)
(*                                                                         *)
(* The test file is an input: the walk chooses, at each point, what comes  *)
(* next (a group, a test, the end of the open group), with how many        *)
(* expected expressions, and how each of them and each function under test *)
(* turns out.                                                              *)
(***************************************************************************)
EXTENDS Integers, Sequences, FiniteSets

CONSTANTS
  MaxTests,      \* bound: tests in the file
  MaxGroups,     \* bound: groups in the file, the root one included
  MaxDepth,      \* bound: groups open at the same time
  MaxExprs,      \* bound: expected expressions in the file
  MaxPerFixture, \* bound: expected expressions of one fixture or one test
  MaxOutput,     \* bound: units of output of a test or a fixture
  PipeCapacity,  \* units a pipe holds before a writer blocks
  FdLimit,       \* descriptors the process may open for result pipes
  Endings,       \* how a function under test, or of a fixture, may end
  MaxRuns        \* bound: runs in one interpreter session

ASSUME RunnerAssumption ==
  /\ MaxTests \in Nat /\ MaxGroups \in Nat /\ MaxDepth \in Nat
  /\ MaxExprs \in Nat /\ MaxPerFixture \in Nat /\ MaxOutput \in Nat
  /\ PipeCapacity \in Nat \ {0} /\ FdLimit \in Nat /\ MaxRuns \in Nat
  /\ Endings \subseteq {"returned", "signal", "exit", "hang"}

Tests  == 1..MaxTests
Exprs  == 1..MaxExprs
Groups == 1..MaxGroups

VARIABLES
  usingFork, \* whether --no-fork was not given
  pc,        \* the parent: where the walk is
  groups,    \* the groups being visited, the innermost last
  nGroups,   \* groups met so far
  nTests,    \* tests met so far; the last one is the current test
  fixture,   \* the expected expressions of the fixture that is running
  nExprs,    \* expected expressions met so far
  owner,     \* the test an expression belongs to, 0 for a group's fixture
  mExpExpr,  \* TestRunnerVisitor::mExpExpr of the parent
  mem,       \* each process's copy of the result globals of the expressions
  cpc,       \* where the test is, in the child or (--no-fork) inline
  toPrint,   \* output the running test or fixture has still to write
  captured,  \* output in the capture pipe
  mResults,  \* TestResults::mResults, as the process running the test fills it
  toWrite,   \* what saveToDisk has still to write
  inPipe,    \* what results.mPipe holds
  results,   \* TD->getTestResults() of each test in the parent
  fds,       \* result-pipe descriptors the parent has open
  runs,      \* runs of the session, the current one included
  (* History, read by properties only: *)
  outcome,   \* what each expression really evaluated to
  expected,  \* what each expected result really compared to
  fds0       \* fds when the current run began

walk    == <<groups, nGroups, nTests, fixture>>
exprs   == <<nExprs, owner, mExpExpr>>
session == <<usingFork, runs>>
child   == <<cpc, toPrint, captured, mResults, toWrite, inPipe>>
history == <<expected, fds0>>
vars    == <<pc, walk, exprs, mem, child, results, fds, session, outcome, history>>

Procs    == {"parent", "child"}
Verdicts == {"PASSED", "FAILED"}
NoResult == [RESULT |-> "none", FAILED_EE |-> {}]
Result   == [RESULT : Verdicts \cup {"none"}, FAILED_EE : SUBSET Exprs]

(* Mutant: the child shares the parent's memory. *)
SharedMemory == "parent"

(* The process whose memory the current test runs in. *)
Runner == IF usingFork THEN "child" ELSE "parent"

NewExprs(k) == (nExprs + 1)..(nExprs + k)

(***************************************************************************)
(* The walk                                                                *)
(***************************************************************************)

Init ==
  /\ usingFork \in BOOLEAN
  /\ pc = "visiting" /\ groups = <<>> /\ nGroups = 0 /\ nTests = 0 /\ fixture = {}
  /\ nExprs = 0 /\ mExpExpr = <<>>
  /\ owner = [e \in Exprs |-> 0]
  /\ mem = [p \in Procs |-> [e \in Exprs |-> TRUE]]
  /\ cpc = "none" /\ toPrint = 0 /\ captured = 0
  /\ mResults = NoResult /\ toWrite = 0 /\ inPipe = 0
  /\ results = [t \in Tests |-> NoResult]
  /\ fds = 0 /\ fds0 = 0 /\ runs = 1
  /\ outcome = [e \in Exprs |-> "unevaluated"]
  /\ expected = [t \in Tests |-> "unevaluated"]

(* VisitExpectedExpression, called for k expressions of test t (0: of a
   group's fixture). *)
VisitExpectedExpressions(k, t) ==
  /\ nExprs + k <= MaxExprs
  /\ nExprs' = nExprs + k
  /\ owner' = [e \in Exprs |-> IF e \in NewExprs(k) THEN t ELSE owner[e]]
  /\ mExpExpr' = mExpExpr \o [i \in 1..k |-> nExprs + i]

(* Process p executes the compiled comparisons of the expressions in E: those
   in held come out true.  Each result is stored in a global of p's memory. *)
Evaluate(p, E, held) ==
  /\ mem' = [mem EXCEPT ![p] = [e \in Exprs |-> IF e \in E THEN e \in held ELSE mem[p][e]]]
  /\ outcome' = [e \in Exprs |-> IF e \notin E THEN outcome[e]
                                 ELSE IF e \in held THEN "holds" ELSE "fails"]

(* before_all and after_all run in the parent.  First their expressions are
   visited, then runFunction redirects the output of the process to a pipe that
   nobody reads until EndCapture and calls the fixture's functions. *)
BeginFixture ==
  /\ \E k \in 0..MaxPerFixture :
       VisitExpectedExpressions(k, 0) /\ fixture' = NewExprs(k)
  /\ toPrint' \in 0..MaxOutput
  /\ UNCHANGED <<nTests, mem, cpc, captured, mResults, toWrite, inPipe,
                 results, fds, session, outcome, history>>

(* TestGroup::accept up to its before_all. *)
EnterGroup ==
  /\ pc = "visiting" /\ nGroups < MaxGroups /\ Len(groups) < MaxDepth
  /\ groups = <<>> => nGroups = 0
  /\ nGroups' = nGroups + 1
  /\ groups' = Append(groups, nGroups + 1)
  /\ pc' = "setup"
  /\ BeginFixture

(* TestGroup::accept after its tests, up to its after_all. *)
LeaveGroup ==
  /\ pc = "visiting" /\ groups # <<>>
  /\ pc' = "teardown"
  /\ BeginFixture
  /\ UNCHANGED <<groups, nGroups>>

InFixture == pc \in {"setup", "teardown"}

FixturePrints ==
  /\ InFixture /\ toPrint > 0 /\ captured < PipeCapacity
  /\ toPrint' = toPrint - 1 /\ captured' = captured + 1
  /\ UNCHANGED <<pc, walk, exprs, mem, cpc, mResults, toWrite, inPipe,
                 results, fds, session, outcome, history>>

(* The fixture has returned: its expressions have been evaluated, and EndCapture
   reads its output back. *)
EndFixture ==
  /\ InFixture /\ toPrint = 0 /\ "returned" \in Endings
  /\ \E held \in SUBSET fixture : Evaluate("parent", fixture, held)
  /\ captured' = 0 /\ fixture' = {}
  /\ UNCHANGED <<nGroups, nTests, exprs, cpc, toPrint, mResults, toWrite, inPipe,
                 results, fds, session, history>>

SetupReturns ==
  /\ pc = "setup" /\ pc' = "visiting"
  /\ EndFixture
  /\ UNCHANGED groups

(* The cleanup that follows an after_all restores variables: it calls nothing
   and prints nothing. *)
TeardownReturns ==
  /\ pc = "teardown"
  /\ pc' = IF Len(groups) = 1 THEN "logging" ELSE "visiting"
  /\ EndFixture
  /\ groups' = SubSeq(groups, 1, Len(groups) - 1)

(* A function of a fixture is not isolated: when it crashes or exits, jcut
   does, and when it never returns, jcut never goes on. *)
FixtureEnds(ending, state) ==
  /\ InFixture /\ ending \in Endings
  /\ pc' = state
  /\ UNCHANGED <<walk, exprs, mem, child, results, fds, session, outcome, history>>

FixtureDies  == FixtureEnds("signal", "died") \/ FixtureEnds("exit", "died")
FixtureHangs == FixtureEnds("hang", "hang")

(* TestDefinition::accept up to the fork: the expressions of before and after
   are visited first. *)
MeetTest ==
  /\ pc = "visiting" /\ groups # <<>> /\ nTests < MaxTests
  /\ nTests' = nTests + 1
  /\ \E k \in 0..MaxPerFixture :
       VisitExpectedExpressions(k, nTests + 1)
  /\ UNCHANGED <<groups, nGroups, fixture, results, session, outcome, history>>

(* pipe() or fork() fails: VisitTestDefinition throws.  The two ends of a pipe
   that could be made stay open. *)
CannotFork ==
  /\ MeetTest
  /\ usingFork
  /\ fds' = IF fds + 2 > FdLimit THEN fds ELSE fds + 2
  /\ pc' = "aborted"
  /\ UNCHANGED <<mem, child>>

(* The child is a copy of the parent; the parent goes to waitpid. *)
ForkTest ==
  /\ MeetTest
  /\ usingFork /\ fds + 2 <= FdLimit
  /\ fds' = fds + 2
  /\ mem' = [mem EXCEPT !["child"] = mem["parent"]]
  /\ pc' = "waiting" /\ cpc' = "fud"
  /\ toPrint' \in 0..MaxOutput
  /\ UNCHANGED <<captured, mResults, toWrite, inPipe>>

(* --no-fork: the test runs in the parent. *)
RunTestInline ==
  /\ MeetTest
  /\ ~usingFork
  /\ pc' = "inline" /\ cpc' = "fud"
  /\ toPrint' \in 0..MaxOutput
  /\ UNCHANGED <<mem, fds, captured, mResults, toWrite, inPipe>>

(***************************************************************************)
(* The test, in the child or inline                                        *)
(***************************************************************************)

OwnExprs(t) == {e \in 1..nExprs : owner[e] = t}

(* stdout and stderr are redirected to a pipe nobody reads until EndCapture. *)
FudPrints ==
  /\ cpc = "fud" /\ toPrint > 0 /\ captured < PipeCapacity
  /\ toPrint' = toPrint - 1 /\ captured' = captured + 1
  /\ UNCHANGED <<pc, walk, exprs, mem, cpc, mResults, toWrite, inPipe,
                 results, fds, session, outcome, history>>

(* before, the function under test, the comparison with its expected result
   and after have been executed; EndCapture reads the output back. *)
FudReturns ==
  /\ cpc = "fud" /\ toPrint = 0 /\ "returned" \in Endings
  /\ \E held \in SUBSET OwnExprs(nTests) : Evaluate(Runner, OwnExprs(nTests), held)
  /\ \E r \in {"none", "holds", "fails"} : expected' = [expected EXCEPT ![nTests] = r]
  /\ cpc' = "verdict"
  /\ UNCHANGED <<pc, walk, exprs, toPrint, captured, mResults, toWrite, inPipe,
                 results, fds, session, fds0>>

(* The function under test is killed by a signal, calls exit() or never
   returns.  Inline, the first two take jcut with them. *)
FudEnds(how) ==
  /\ cpc = "fud" /\ how \in Endings
  /\ cpc' = how
  /\ pc' = IF ~usingFork /\ how # "hang" THEN "died" ELSE pc
  /\ UNCHANGED <<walk, exprs, mem, toPrint, captured, mResults, toWrite, inPipe,
                 results, fds, session, outcome, history>>

FudSignalled == FudEnds("signal")
FudExits     == FudEnds("exit")
FudHangs     == FudEnds("hang")

(* The expressions of mExpExpr whose result global is false in the memory the
   test runs in, and the passing value they leave: every expression overwrites
   it. *)
Listed == {mExpExpr[i] : i \in 1..Len(mExpExpr)}

(* Mutant: failing.push_back is missing. *)
NoneFailing == {}

Failing == {e \in Listed : ~mem[Runner][e]}

PassingValue ==
  IF mExpExpr = <<>> THEN expected[nTests] # "fails"
                     ELSE mem[Runner][mExpExpr[Len(mExpExpr)]]

(* collectTestResults: the RESULT and FAILED_EE columns. *)
Collected ==
  LET passed == PassingValue /\ Failing = {}
  IN  [RESULT    |-> IF passed THEN "PASSED" ELSE "FAILED",
       FAILED_EE |-> IF passed THEN {} ELSE Failing]

(* The message has a fixed part, the output and a line for each expression
   blamed. *)
MessageSize(r) == 1 + captured + Cardinality(r.FAILED_EE)

(* Mutant: mExpExpr is never cleared. *)
ListKept == mExpExpr

(* mExpExpr.clear() empties the list of the process that runs the test. *)
ParentListAfterTest == IF usingFork THEN mExpExpr ELSE <<>>

(* Mutants: the results object is shared by the tests; it is never set. *)
SetAllResults(r) == results' = [t \in Tests |-> r]
SetNoResults(r)  == UNCHANGED results

SetTestResults(r) == results' = [results EXCEPT ![nTests] = r]

(* The rest of VisitTestDefinition in the child, up to the write. *)
CollectInChild ==
  /\ usingFork /\ cpc = "verdict"
  /\ mResults' = Collected
  /\ toWrite' = MessageSize(Collected)
  /\ captured' = 0
  /\ cpc' = "save"
  /\ mExpExpr' = ParentListAfterTest
  /\ UNCHANGED <<pc, walk, nExprs, owner, mem, toPrint, inPipe,
                 results, fds, session, outcome, history>>

(* The same inline: there is nothing to send. *)
CollectInline ==
  /\ ~usingFork /\ cpc = "verdict"
  /\ SetTestResults(Collected)
  /\ captured' = 0
  /\ cpc' = "none" /\ pc' = "visiting"
  /\ mExpExpr' = ParentListAfterTest
  /\ UNCHANGED <<walk, nExprs, owner, mem, toPrint, mResults, toWrite,
                 inPipe, fds, session, outcome, history>>

(* saveToDisk: write() blocks while the pipe is full. *)
ChildWrites ==
  /\ cpc = "save" /\ toWrite > 0 /\ inPipe < PipeCapacity
  /\ toWrite' = toWrite - 1 /\ inPipe' = inPipe + 1
  /\ UNCHANGED <<pc, walk, exprs, mem, cpc, toPrint, captured, mResults,
                 results, fds, session, outcome, history>>

(* _Exit(EXIT_SUCCESS). *)
ChildExits ==
  /\ cpc = "save" /\ toWrite = 0
  /\ cpc' = "exit"
  /\ UNCHANGED <<pc, walk, exprs, mem, toPrint, captured, mResults, toWrite, inPipe,
                 results, fds, session, outcome, history>>

(***************************************************************************)
(* The parent after the fork                                               *)
(***************************************************************************)

(* Mutant: only a child that exited ends the wait. *)
ChildExited == cpc = "exit"

ChildGone == cpc \in {"exit", "signal"}

(* Mutant: a crash is not turned into an exception. *)
AfterWaitNoThrow == IF cpc = "exit" THEN "reading" ELSE "visiting"

AfterWait == IF cpc = "exit" THEN "reading" ELSE "aborted"

(* waitpid returns only when the child is gone; a child killed by a signal
   makes VisitTestDefinition throw, with both ends of the pipe open. *)
WaitPid ==
  /\ pc = "waiting" /\ ChildGone
  /\ pc' = AfterWait
  /\ UNCHANGED <<walk, exprs, mem, child, results, fds, session, outcome, history>>

(* readFromDisk: an empty pipe means the child exited before saveToDisk; it
   throws after closing the write end only. *)
ReadNothing ==
  /\ pc = "reading" /\ inPipe = 0
  /\ pc' = "aborted" /\ fds' = fds - 1
  /\ UNCHANGED <<walk, exprs, mem, child, results, session, outcome, history>>

(* Mutants: an end is left open; an end is closed twice. *)
ReadEndLeftOpen     == fds - 1
WriteEndClosedTwice == fds - 3

DescriptorsAfterRead == fds - 2

ReadFromDisk ==
  /\ pc = "reading" /\ inPipe > 0
  /\ SetTestResults(mResults)
  /\ fds' = DescriptorsAfterRead
  /\ inPipe' = 0 /\ mResults' = NoResult
  /\ pc' = "visiting" /\ cpc' = "none"
  /\ UNCHANGED <<walk, exprs, mem, toPrint, captured, toWrite, session, outcome, history>>

(* The walk is over: the fixer and logger visitors print the report. *)
Log ==
  /\ pc = "logging"
  /\ pc' = "logged"
  /\ UNCHANGED <<walk, exprs, mem, child, results, fds, session, outcome, history>>

(* The interpreter starts another run in the same process.  A run builds its
   own module, execution engine and visitor: only the descriptors outlive it. *)
NextRun ==
  /\ pc \in {"logged", "aborted"} /\ runs < MaxRuns
  /\ runs' = runs + 1 /\ fds' = fds /\ fds0' = fds /\ UNCHANGED usingFork
  /\ pc' = "visiting" /\ groups' = <<>> /\ nGroups' = 0 /\ nTests' = 0 /\ fixture' = {}
  /\ nExprs' = 0 /\ mExpExpr' = <<>>
  /\ owner' = [e \in Exprs |-> 0]
  /\ mem' = [p \in Procs |-> [e \in Exprs |-> TRUE]]
  /\ cpc' = "none" /\ toPrint' = 0 /\ captured' = 0
  /\ mResults' = NoResult /\ toWrite' = 0 /\ inPipe' = 0
  /\ results' = [t \in Tests |-> NoResult]
  /\ outcome' = [e \in Exprs |-> "unevaluated"]
  /\ expected' = [t \in Tests |-> "unevaluated"]

TestStep ==
  \/ FudPrints \/ FudReturns \/ FudSignalled \/ FudExits \/ FudHangs
  \/ CollectInChild \/ CollectInline \/ ChildWrites \/ ChildExits

JcutStep ==
  \/ EnterGroup \/ FixturePrints \/ SetupReturns
  \/ LeaveGroup \/ TeardownReturns \/ FixtureDies \/ FixtureHangs
  \/ CannotFork \/ ForkTest \/ RunTestInline
  \/ WaitPid \/ ReadNothing \/ ReadFromDisk \/ Log

Next == TestStep \/ JcutStep \/ NextRun

Spec == Init /\ [][Next]_vars

(* Both processes are scheduled; nobody has to start another run.  A function
   under test, or of a fixture, that hangs has no step to be scheduled for. *)
FairSpec == Spec /\ WF_vars(TestStep) /\ WF_vars(JcutStep)
-----------------------------------------------------------------------------
(***************************************************************************)
(* Properties                                                              *)
(***************************************************************************)

Reported(t) == results[t].RESULT \in Verdicts

(* The types of the variables; the counters stay within their bounds. *)
TypeOK ==
  /\ usingFork \in BOOLEAN
  /\ pc \in {"visiting", "setup", "teardown", "waiting", "reading", "inline",
             "logging", "logged", "aborted", "died", "hang"}
  /\ cpc \in {"none", "fud", "verdict", "save", "exit", "signal", "hang"}
  /\ groups \in Seq(Groups) /\ nGroups \in 0..MaxGroups
  /\ nTests \in 0..MaxTests /\ nExprs \in 0..MaxExprs /\ fixture \subseteq Exprs
  /\ owner \in [Exprs -> 0..MaxTests]
  /\ mExpExpr \in Seq(Exprs)
  /\ mem \in [Procs -> [Exprs -> BOOLEAN]]
  /\ toPrint \in 0..MaxOutput /\ captured \in 0..PipeCapacity
  /\ mResults \in Result /\ toWrite \in Nat /\ inPipe \in 0..PipeCapacity
  /\ results \in [Tests -> Result]
  /\ fds \in Nat /\ fds0 \in Nat /\ runs \in Nat
  /\ outcome \in [Exprs -> {"unevaluated", "holds", "fails"}]
  /\ expected \in [Tests -> {"unevaluated", "none", "holds", "fails"}]

(* A test whose own before or after check came out false is never reported
   PASSED, whatever else is in mExpExpr and although each later expression
   overwrites the passing value (TestRunnerVisitor.cpp, VisitTestDefinition), with
   an expected result and without: the @bug at line 160 there is out of date. *)
OwnFailureReported ==
  \A t \in Tests, e \in Exprs :
    results[t].RESULT = "PASSED" /\ owner[e] = t => outcome[e] # "fails"

(* Isolation: an expression blamed for a failed test is one that really came
   out false, and belongs to that test or to a group's fixture, never to
   another test -- although with fork mExpExpr still lists the expressions of
   every earlier test and without it they all live in one memory. *)
BlameIsOwnOrGroup ==
  \A t \in Tests : \A e \in results[t].FAILED_EE :
    outcome[e] = "fails" /\ owner[e] \in {0, t}

(* A report is printed only if every test of the file has a verdict: a test
   that crashed or exited stops the run before the logger's
   results.at(RESULT) and its count assertion. *)
CompleteReport ==
  pc \in {"logging", "logged"} => \A t \in 1..nTests : Reported(t)

(* A run leaks at most the two ends of one pipe, and a run that prints its
   report leaks none, so a session can only run out of descriptors through
   runs that were aborted. *)
DescriptorsBalanced ==
  /\ fds0 <= fds /\ fds <= fds0 + 2
  /\ pc \in {"logging", "logged"} => fds = fds0

(* The report as the abstract specification sees it. *)
Recorded ==
  IF pc \in {"aborted", "died"} THEN <<>>
  ELSE [t \in 1..(IF pc \in {"waiting", "reading", "inline"} THEN nTests - 1 ELSE nTests)
          |-> results[t].RESULT]

Status ==
  CASE pc = "logged"              -> "published"
    [] pc \in {"aborted", "died"} -> "failed"
    [] OTHER                      -> "running"

Abstract == INSTANCE Report WITH status <- Status, report <- Recorded

(* A run implements the abstract report: verdicts in file order, one for each
   test, never revised, printed all or not at all. *)
ImplementsReport == Abstract!ReportSpec

(* Every run ends: with a report, with an error, or in a function, under test or
   of a fixture, that never returns (there is no timeout).  In particular no
   process waits for ever in a pipe whose reader is waiting for it, nor in one
   that only it could read. *)
RunEnds ==
  pc = "visiting" ~> (pc \in {"logged", "aborted", "died", "hang"} \/ cpc = "hang")

(* What the tutorial says of the RESULT column: whether the test has failed
   or passed; a test with an expected result fails when it does not hold. *)
VerdictSound ==
  \A t \in Tests : results[t].RESULT = "PASSED" => expected[t] # "fails"
=============================================================================
