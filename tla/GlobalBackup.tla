---------------------------- MODULE GlobalBackup ----------------------------
(***************************************************************************)
(* Global variables of the program under test.  An assignment in before,   *)
(* after, before_all, after_all or a mockup statement first stores the     *)
(* variable's value in a generated backup variable; TestGeneratorVisitor   *)
(* collects the backups of the test in mBackupTest and those of the groups *)
(* in mBackupGroup, and generates the code that restores them at the end   *)
(* of the test and of the group.                                           *)
(*                                                                         *)
(* The code is generated in the order it is executed and executed once, so *)
(* an action is the visit that generates a function together with its      *)
(* execution.  A mockup statement is generated into no function of its     *)
(* own: its instructions wait in mInstructions for the next one, and its   *)
(* backups in mBackupTemp for the next fixture that has a visit.           *)
(***************************************************************************)
EXTENDS Integers, Sequences

CONSTANTS
  Globals,       \* global variables
  Values,        \* values they may have
  initial,       \* the value a variable is defined with
  MaxDepth,      \* bound: groups open at the same time
  MaxStatements, \* bound: statements of one fixture or mockup
  MaxMocked      \* bound: assignments of all mockup statements

ASSUME BackupAssumption ==
  /\ initial \in Values
  /\ MaxDepth \in Nat /\ MaxStatements \in Nat /\ MaxMocked \in Nat

VARIABLES
  usingFork,     \* whether --no-fork was not given
  phase,         \* of the run: "start", "walking", "done"
  nMocked,       \* assignments of mockup statements met so far
  groups,        \* the open groups: what their setup assigned
  mInstructions, \* assignments that no generated function has yet
  mBackupTemp,   \* backups that no test and no group has yet
  mBackupGroup,  \* backups of the groups, the latest last
  mBackupTest,   \* backups of the running test
  globals,       \* the variables in the memory of each process
  test,          \* of the running test: "none", "called", "over"
  (* History, read by properties only: *)
  entry,         \* the variables when the running test started, if one runs
  exempt,        \* variables the latest test need not leave as they were
  disturbed,     \* variables the groups need not leave with the initial value
  intact         \* for each open group: no group nested in it was left

pending == <<mInstructions, mBackupTemp>>
history == <<entry, exempt, disturbed, intact>>
vars == <<usingFork, phase, nMocked, groups, pending, mBackupGroup, mBackupTest, globals,
          test, history>>

Procs == {"parent", "child"}

(* An assignment stores val in var; a call changes var behind jcut's back. *)
Statement == [op : {"assign", "call"}, var : Globals, val : Values]

Fixtures == UNION {[1..n -> Statement] : n \in 0..MaxStatements}

(* The assignments of a mockup statement, or of none. *)
Mockups == UNION {[1..n -> [op : {"assign"}, var : Globals, val : Values]] : n \in 0..MaxStatements}

(* A backup is a variable of its own, in the memory of each process. *)
Backup == [var : Globals, saved : [Procs -> Values]]

Changed(s, n, op) == {s[i].var : i \in {j \in 1..n : s[j].op \in op}}
Called(s)   == Changed(s, Len(s), {"call"})
Assigned(s) == Changed(s, Len(s), {"assign"})

(* Mutant: the child shares the parent's memory. *)
SharedMemory == "parent"

(* The process a test runs in. *)
Runner == IF usingFork THEN "child" ELSE "parent"

(* The variables after the first n statements of s, started with m. *)
After(m, s, n) ==
  [v \in Globals |->
    IF v \notin Changed(s, n, {"assign", "call"}) THEN m[v]
    ELSE s[CHOOSE i \in 1..n :
             s[i].var = v /\ \A j \in 1..n : s[j].var = v => j <= i].val]

Run(m, s) == After(m, s, Len(s))

(* No test runs: the next child will be a copy of the parent. *)
InParent(m) == [p \in Procs |-> m]

(* The value each variable the statements s assign is assigned last. *)
Given(s) ==
  [v \in Assigned(s) |->
    s[CHOOSE i \in 1..Len(s) :
        /\ s[i].op = "assign" /\ s[i].var = v
        /\ \A j \in 1..Len(s) : s[j].op = "assign" /\ s[j].var = v => j <= i].val]

(* Where the assignments of s are, in order. *)
Assignments(s) ==
  LET met[n \in 0..Len(s)] ==
        IF n = 0 THEN <<>>
        ELSE IF s[n].op = "assign" THEN Append(met[n - 1], n) ELSE met[n - 1]
  IN  met[Len(s)]

(* A backup made by process p: a child is a copy of the parent, in which the
   backup of the child alone keeps the value it was defined with. *)
MadeBy(p, value) == [q \in Procs |-> IF q = p \/ p = "parent" THEN value ELSE initial]

(* Mutant: the backup stores the variable instead of the loaded value. *)
AddressBackups(p, m, s) ==
  LET a == Assignments(s)
  IN  [k \in 1..Len(a) |-> [var |-> s[a[k]].var, saved |-> MadeBy(p, s[a[k]].var)]]

(* VisitVariableAssignment: each assignment saves what the variable held. *)
Backups(p, m, s) ==
  LET a == Assignments(s)
  IN  [k \in 1..Len(a) |->
        [var   |-> s[a[k]].var,
         saved |-> MadeBy(p, After(m, s, a[k] - 1)[s[a[k]].var])]]

Saved(b) == {b[i].var : i \in 1..Len(b)}

(* Mutant: the backups are restored in the order they were made. *)
RestoreInOrder(p, m, b) ==
  [v \in Globals |->
    IF v \notin Saved(b) THEN m[v]
    ELSE b[CHOOSE i \in 1..Len(b) :
             b[i].var = v /\ \A j \in 1..Len(b) : b[j].var = v => j <= i].saved[p]]

(* restoreGlobalVariables pops the latest backup first, so the earliest one of
   a variable stays.  No marker stops it: saveGlobalVariables, which would push
   them, is never called. *)
RestoreGlobalVariables(p, m, b) ==
  [v \in Globals |->
    IF v \notin Saved(b) THEN m[v]
    ELSE b[CHOOSE i \in 1..Len(b) :
             b[i].var = v /\ \A j \in 1..Len(b) : b[j].var = v => i <= j].saved[p]]

Init ==
  /\ usingFork \in BOOLEAN
  /\ phase = "start" /\ nMocked = 0 /\ groups = <<>> /\ test = "none"
  /\ mInstructions = <<>> /\ mBackupTemp = <<>>
  /\ mBackupGroup = <<>> /\ mBackupTest = <<>>
  /\ globals = [p \in Procs |-> [v \in Globals |-> initial]]
  /\ entry = [v \in Globals |-> initial] /\ exempt = {}
  /\ disturbed = {} /\ intact = <<>>

(* Mutant: a fixture forgets the backups that wait. *)
OnlyItsOwn(made) == made

(* The backups a fixture's visit takes over: those that wait, and its own. *)
TakenOver(made) == mBackupTemp \o made

(* VisitMockupVariable, of each assignment of a mockup statement. *)
MeetMockup(mockup) ==
  nMocked + Len(mockup) <= MaxMocked /\ nMocked' = nMocked + Len(mockup)

(* TestGroup::accept as far as the statements s of the setup. *)
OpenGroup(s) ==
  /\ test = "none" /\ Len(groups) < MaxDepth
  /\ phase = "start" \/ groups # <<>>
  /\ phase' = "walking"
  /\ groups' = Append(groups, Given(s)) /\ intact' = Append(intact, TRUE)
  /\ UNCHANGED <<usingFork, mBackupTest, test, entry, exempt>>

(* VisitGroupSetup: mockup_all and before_all, behind what waits. *)
EnterGroup ==
  \E mockup \in Mockups, g \in Fixtures :
    LET s == mInstructions \o mockup \o g IN
    /\ MeetMockup(mockup) /\ OpenGroup(s)
    /\ globals' = InParent(Run(globals["parent"], s))
    /\ mBackupGroup' = mBackupGroup \o TakenOver(Backups("parent", globals["parent"], s))
    /\ mInstructions' = <<>> /\ mBackupTemp' = <<>>
    /\ disturbed' = disturbed \cup Called(s)

(* Without before_all, mockup_all waits for the next function. *)
EnterBareGroup ==
  \E mockup \in Mockups :
    /\ MeetMockup(mockup) /\ OpenGroup(<<>>)
    /\ mInstructions' = mInstructions \o mockup
    /\ UNCHANGED <<mBackupTemp, mBackupGroup, globals, disturbed>>

CloseGroup ==
  /\ test = "none" /\ groups # <<>>
  /\ groups' = SubSeq(groups, 1, Len(groups) - 1)
  /\ phase' = IF Len(groups) = 1 THEN "done" ELSE phase
  /\ mBackupGroup' = <<>>
  /\ intact' = [i \in 1..Len(groups) - 1 |-> FALSE]
  /\ UNCHANGED <<usingFork, nMocked, mBackupTest, test, entry, exempt>>

(* Mutant: mBackupTemp is not passed on in VisitGroupTeardown. *)
BackupsWithoutTeardown(s) == mBackupGroup

BackupsAtTeardown(s) == mBackupGroup \o TakenOver(Backups("parent", globals["parent"], s))

(* VisitGroupTeardown and VisitTestGroup: after_all, then the cleanup, which
   restores every backup there is. *)
LeaveGroup ==
  \E g \in Fixtures :
    LET s == mInstructions \o g IN
    /\ CloseGroup
    /\ globals' = InParent(RestoreGlobalVariables("parent", Run(globals["parent"], s),
                                                BackupsAtTeardown(s)))
    /\ mInstructions' = <<>> /\ mBackupTemp' = <<>>
    /\ disturbed' = disturbed \cup Called(s)

(* Without after_all there is a cleanup if there are backups, and what waits
   goes into it. *)
CleanUpGroup ==
  /\ mBackupGroup # <<>> /\ CloseGroup
  /\ globals' = InParent(RestoreGlobalVariables("parent", Run(globals["parent"], mInstructions),
                                              mBackupGroup))
  /\ mInstructions' = <<>>
  /\ mBackupTemp' = TakenOver(Backups("parent", globals["parent"], mInstructions))
  /\ disturbed' = disturbed \cup Assigned(mInstructions)

LeaveBareGroup ==
  /\ mBackupGroup = <<>> /\ CloseGroup
  /\ UNCHANGED <<pending, globals, disturbed>>

(* The call of the function under test, which may change a variable. *)
CallFud == {<<>>} \cup {<<c>> : c \in {st \in Statement : st.op = "call"}}

(* TestDefinition::accept: mockup and before, behind what waits, and the
   function.  The child, if there is one, is a copy of the parent. *)
StartTest(s) ==
  /\ test = "none" /\ groups # <<>>
  /\ test' = "called"
  /\ entry' = globals["parent"]
  /\ \E fud \in CallFud :
       /\ globals' = [globals EXCEPT ![Runner] = Run(globals["parent"], s \o fud)]
       /\ exempt' = Called(s \o fud) \cup Saved(mBackupTemp)
  /\ mInstructions' = <<>>
  /\ UNCHANGED <<usingFork, phase, groups, mBackupGroup, disturbed, intact>>

(* VisitTestSetup takes over the backups. *)
StartTestWithBefore ==
  \E mockup \in Mockups, g \in Fixtures :
    LET s == mInstructions \o mockup \o g IN
    /\ MeetMockup(mockup) /\ StartTest(s)
    /\ mBackupTest' = TakenOver(Backups(Runner, globals["parent"], s))
    /\ mBackupTemp' = <<>>

(* Without before there is nobody to take them over yet. *)
StartTestWithoutBefore ==
  \E mockup \in Mockups :
    LET s == mInstructions \o mockup IN
    /\ MeetMockup(mockup) /\ StartTest(s)
    /\ mBackupTemp' = mBackupTemp \o Backups(Runner, globals["parent"], s)
    /\ UNCHANGED mBackupTest

(* Mutant: the test restores nothing. *)
TestRestoresNothing(m, b) == m

TestRestores(m, b) == RestoreGlobalVariables(Runner, m, b)

(* VisitTestDefinition: what is left of the test function after s, with the
   restores of b at its end. *)
EndTest(s, b) ==
  /\ test = "called"
  /\ test' = "over"
  /\ globals' = [globals EXCEPT ![Runner] = TestRestores(Run(@, s), b)]
  /\ disturbed' = disturbed \cup IF usingFork THEN {} ELSE exempt'
  /\ mBackupTest' = <<>> /\ entry' = [v \in Globals |-> initial]
  /\ UNCHANGED <<usingFork, phase, nMocked, groups, mInstructions, mBackupGroup, intact>>

(* VisitTestTeardown takes over the backups of after and those that wait. *)
EndTestWithAfter ==
  \E g \in Fixtures :
    /\ exempt' = exempt \cup Called(g)
    /\ EndTest(g, mBackupTest \o TakenOver(Backups(Runner, globals[Runner], g)))
    /\ mBackupTemp' = <<>>

(* Without after they wait for the next test or group. *)
EndTestWithoutAfter ==
  /\ exempt' = exempt \cup Saved(mBackupTemp)
  /\ EndTest(<<>>, mBackupTest)
  /\ UNCHANGED mBackupTemp

(* The child is gone with its memory; the next one is a copy of the parent. *)
WaitPid ==
  /\ test = "over"
  /\ test' = "none"
  /\ globals' = InParent(globals["parent"])
  /\ mBackupTemp' = [k \in 1..Len(mBackupTemp) |->
                      [mBackupTemp[k] EXCEPT !.saved["child"] = mBackupTemp[k].saved["parent"]]]
  /\ exempt' = {}
  /\ UNCHANGED <<usingFork, phase, nMocked, groups, mInstructions, mBackupGroup, mBackupTest,
                 entry, disturbed, intact>>

Next ==
  \/ EnterGroup \/ EnterBareGroup \/ CleanUpGroup \/ LeaveBareGroup \/ LeaveGroup
  \/ StartTestWithBefore \/ StartTestWithoutBefore
  \/ EndTestWithAfter \/ EndTestWithoutAfter \/ WaitPid

Spec == Init /\ [][Next]_vars
-----------------------------------------------------------------------------
(***************************************************************************)
(* Properties                                                              *)
(***************************************************************************)

(* The types of the variables. *)
TypeOK ==
  /\ usingFork \in BOOLEAN /\ nMocked \in 0..MaxMocked
  /\ phase \in {"start", "walking", "done"} /\ test \in {"none", "called", "over"}
  /\ groups \in Seq(UNION {[vs -> Values] : vs \in SUBSET Globals}) /\ mInstructions \in Seq(Statement)
  /\ mBackupTemp \in Seq(Backup) /\ mBackupGroup \in Seq(Backup) /\ mBackupTest \in Seq(Backup)
  /\ globals \in [Procs -> [Globals -> Values]]
  /\ entry \in [Globals -> Values] /\ exempt \subseteq Globals
  /\ disturbed \subseteq Globals /\ intact \in Seq(BOOLEAN)

(* When a test ends, every variable its mockup, before and after assigned, once
   or several times, has the value it had when the test started, but for those
   (exempt) that a function the test called changed, and those of which a backup
   was waiting when the test started or still waits when it ends: a backup waits
   when a test has neither before nor after to take over those of its mockup, and
   when a mockup_all was assigned in the cleanup of a group
   (restoreGlobalVariables, VisitTestDefinition). *)
TestUndoesAssignments ==
  [][test = "called" /\ test' = "over" =>
       \A v \in Globals \ exempt' : globals'[Runner][v] = entry[v]]_vars

(* When no backup of a group is pending, and so at the end of the file, every
   variable has its initial value again, whatever was assigned and over however
   many nested groups (VisitTestGroup), but for the disturbed ones:
   - what a function changed that a fixture of a group called or, without fork, a
     test;
   - what mockup_all assigns in the cleanup of a group, too late to be undone;
   - without fork, the variables of a backup that waits (see above) when a test
     starts or ends: the mockup of a test with neither before nor after outlives
     the test, and the backup may be restored when it is out of date.
   It holds of groups without after_all too: the @bug at TestGeneratorVisitor.cpp:914
   is out of date. *)
GroupsUndoAssignments ==
  test = "none" /\ mBackupGroup = <<>> =>
    \A v \in Globals \ disturbed : globals["parent"][v] = initial

(* Between its tests, group i still sees what its setup gave the variables
   no group inside it assigns. *)
StateKept(i) ==
  test = "none" =>
    \A v \in DOMAIN groups[i] \ disturbed :
      (\A j \in i + 1..Len(groups) : v \notin DOMAIN groups[j]) =>
        globals["parent"][v] = groups[i][v]

(* Until a group nested in it is left, a group with a before_all keeps what its
   before_all, and the mockup_all that runs with it, gave the variables: neither
   the assignments of its tests nor, with fork, the functions they call change it
   (VisitTestDefinition, VisitTestGroup).  Disturbed variables are excepted, and so
   is a mockup_all without before_all, which the group is not said to be given. *)
IntactGroupsKeepState == \A i \in 1..Len(groups) : intact[i] => StateKept(i)
=============================================================================
