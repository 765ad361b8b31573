---------------------------- MODULE MockupStack ----------------------------
(***************************************************************************)
(* Mockups of functions.  Every function a test file mocks is called       *)
(* through a global pointer (gvar_fp_<name>); a mockup has one generated   *)
(* function that stores its replacement in the pointer and one that stores *)
(* the original function back.  TestRunnerVisitor runs them as it walks    *)
(* the groups, and keeps those of the open groups on mMockupRevert, where  *)
(* a nullptr separates the groups: here a sequence of frames.              *)
(***************************************************************************)
EXTENDS Integers, Sequences

CONSTANTS
  Funs,      \* functions that may be mocked
  Bodies,    \* replacements
  original,  \* the pointer's initial value: the function itself
  MaxDepth,  \* bound: groups open at the same time
  MaxMocks   \* bound: mockups in one mockup_all or mockup

ASSUME MockupAssumption ==
  /\ original \notin Bodies /\ MaxDepth \in Nat /\ MaxMocks \in Nat

VARIABLES
  usingFork,     \* whether --no-fork was not given
  groups,        \* the open groups: what their mockup_all lists, if they have one
  mMockupRevert, \* the frames, the nearest one last
  fp,            \* the function pointers in the memory of each process
  test           \* what the mockup of the running test lists, if it has one

vars == <<usingFork, groups, mMockupRevert, fp, test>>

Procs   == {"parent", "child"}
Mockup  == [fn : Funs, body : Bodies]
Lists   == UNION {[1..n -> Mockup] : n \in 0..MaxMocks}
Plain   == [mocks |-> FALSE, list |-> <<>>]
Fixtures == [mocks : {TRUE}, list : Lists] \cup {Plain}
NoTest  == [mocks |-> FALSE, list |-> <<>>, running |-> FALSE]

(* Mutant: the child shares the parent's memory. *)
SharedMemory == "parent"

(* The process a test runs in. *)
Runner == IF usingFork THEN "child" ELSE "parent"

LastOf(s)  == s[Len(s)]
FrontOf(s) == SubSeq(s, 1, Len(s) - 1)
Mocked(l)  == {l[i].fn : i \in 1..Len(l)}

(* Running the mockups of a list in order: the last one of a function stays. *)
RunMockups(p, l) ==
  [f \in Funs |->
    IF f \notin Mocked(l) THEN p[f]
    ELSE l[CHOOSE i \in 1..Len(l) :
             l[i].fn = f /\ \A j \in 1..Len(l) : l[j].fn = f => j <= i].body]

(* executeMockupFunctionsOnTopOfStack pops the nearest frame, running what it
   pops, and pushes it back: the first mockup of a function runs last. *)
RerunNearest(p, stack) ==
  IF stack = <<>> THEN p
  ELSE LET l == LastOf(stack) IN
       [f \in Funs |->
         IF f \notin Mocked(l) THEN p[f]
         ELSE l[CHOOSE i \in 1..Len(l) :
                  l[i].fn = f /\ \A j \in 1..Len(l) : l[j].fn = f => i <= j].body]

(* Running the functions that store the originals back. *)
RunOriginals(p, l) == [f \in Funs |-> IF f \in Mocked(l) THEN original ELSE p[f]]

(* Mutant: the pointers have no initializer. *)
NullPointers == [f \in Funs |-> 0]

InitialPointers == [f \in Funs |-> original]

Init ==
  /\ usingFork \in BOOLEAN
  /\ groups = <<>> /\ mMockupRevert = <<>>
  /\ fp = [q \in Procs |-> InitialPointers]
  /\ test = NoTest

(* Mutant: no nullptr between the frames of two groups. *)
PushUnmarked(l) ==
  IF mMockupRevert = <<>> THEN <<l>> ELSE Append(FrontOf(mMockupRevert), LastOf(mMockupRevert) \o l)

PushFrame(l) == Append(mMockupRevert, l)

(* VisitGroupMockup. *)
EnterMockingGroup ==
  /\ ~test.running /\ Len(groups) < MaxDepth
  /\ \E l \in Lists :
       /\ groups' = Append(groups, [mocks |-> TRUE, list |-> l])
       /\ mMockupRevert' = PushFrame(l)
       /\ fp' = [fp EXCEPT !["parent"] = RunMockups(fp["parent"], l)]
  /\ UNCHANGED <<usingFork, test>>

(* A group without mockup_all: VisitGroupMockup is not called. *)
EnterPlainGroup ==
  /\ ~test.running /\ Len(groups) < MaxDepth
  /\ groups' = Append(groups, Plain)
  /\ UNCHANGED <<usingFork, mMockupRevert, fp, test>>

(* Mutant: the originals are stored back but no frame runs again. *)
RevertOriginals(stack, l) == RunOriginals(fp["parent"], l)

(* The pointers once the frame of the group is gone, stack being what is left:
   the originals come back only when no frame is left. *)
Revert(stack, l) ==
  IF stack = <<>> THEN RunOriginals(fp["parent"], l)
                  ELSE RerunNearest(fp["parent"], stack)

(* VisitTestGroup of a group with mockup_all. *)
LeaveMockingGroup ==
  /\ ~test.running /\ groups # <<>> /\ LastOf(groups).mocks
  /\ groups' = FrontOf(groups)
  /\ mMockupRevert' = FrontOf(mMockupRevert)
  /\ fp' = [fp EXCEPT !["parent"] = Revert(mMockupRevert', LastOf(groups).list)]
  /\ UNCHANGED <<usingFork, test>>

LeavePlainGroup ==
  /\ ~test.running /\ groups # <<>> /\ ~LastOf(groups).mocks
  /\ groups' = FrontOf(groups)
  /\ UNCHANGED <<usingFork, mMockupRevert, fp, test>>

(* Mutant: the mockups of the test are not run. *)
GroupPointers(l) == fp["parent"]

(* The pointers the function under test is called with: the mockups the test
   lists have been run, in order. *)
TestPointers(l) == RunMockups(fp["parent"], l)

(* VisitTestDefinition up to runFunction(TD): the child, if there is one, is a
   copy of the parent. *)
StartTest ==
  /\ ~test.running /\ groups # <<>>
  /\ \E m \in Fixtures :
       /\ test' = [mocks |-> m.mocks, list |-> m.list, running |-> TRUE]
       /\ fp' = [fp EXCEPT ![Runner] = TestPointers(m.list)]
  /\ UNCHANGED <<usingFork, groups, mMockupRevert>>

(* Mutant: the originals are stored back but not the mockups of the group. *)
AfterTestOriginals(p) == RunOriginals(p, test.list)

(* The pointers of the process that ran the test, when it ends: a test without
   a mockup leaves them alone. *)
AfterTest(p) ==
  IF ~test.mocks THEN p
  ELSE RerunNearest(RunOriginals(p, test.list), mMockupRevert)

(* The opposite steps for the mockups; a child exits after them. *)
EndTest ==
  /\ test.running
  /\ test' = NoTest
  /\ fp' = [fp EXCEPT ![Runner] = AfterTest(fp[Runner])]
  /\ UNCHANGED <<usingFork, groups, mMockupRevert>>

Next ==
  \/ EnterMockingGroup \/ EnterPlainGroup \/ LeaveMockingGroup \/ LeavePlainGroup
  \/ StartTest \/ EndTest

Spec == Init /\ [][Next]_vars
-----------------------------------------------------------------------------
(***************************************************************************)
(* Files for which the stack is enough                                     *)
(***************************************************************************)

Distinct(l) == \A i, j \in 1..Len(l) : l[i].fn = l[j].fn => i = j

(* Every frame mocks only what the frame under it mocks, each function once;
   without fork, a test does not mock what only farther groups mock. *)
Narrowing ==
  /\ \A i \in 1..Len(mMockupRevert) : Distinct(mMockupRevert[i])
  /\ \A i \in 1..Len(mMockupRevert) - 1 :
       Mocked(mMockupRevert[i + 1]) \subseteq Mocked(mMockupRevert[i])
  /\ ~usingFork =>
       \A i \in 1..Len(mMockupRevert) :
         Mocked(test.list) \cap Mocked(mMockupRevert[i])
           \subseteq Mocked(LastOf(mMockupRevert))

NarrowSpec == Init /\ [][Next /\ Narrowing']_vars
-----------------------------------------------------------------------------
(***************************************************************************)
(* Properties                                                              *)
(***************************************************************************)

(* The types of the variables. *)
TypeOK ==
  /\ usingFork \in BOOLEAN
  /\ groups \in Seq(Fixtures) /\ mMockupRevert \in Seq(Seq(Mockup))
  /\ fp \in [Procs -> [Funs -> Bodies \cup {original}]]
  /\ test \in [mocks : BOOLEAN, list : Lists, running : BOOLEAN]

(* The code never keeps track of which group a frame belongs to: it only pops
   one for each group with a mockup_all.  The frames are those of the open
   groups all the same, whatever the tests do (VisitGroupMockup, VisitTestGroup). *)
FramesAreOpenGroups ==
  \E place \in [1..Len(mMockupRevert) -> 1..Len(groups)] :
    /\ \A i, j \in 1..Len(mMockupRevert) : i < j => place[i] < place[j]
    /\ \A k \in 1..Len(groups) :
         groups[k].mocks <=> \E i \in 1..Len(mMockupRevert) : place[i] = k
    /\ \A i \in 1..Len(mMockupRevert) : mMockupRevert[i] = groups[place[i]].list

(* Isolation: with fork, no test changes what the process of the groups calls,
   so every pointer there is the original or a mockup of some group that has
   been entered; a test's own mockups die with its child. *)
TestsLeaveGroupsAlone ==
  [][usingFork /\ (test.running \/ test'.running) => fp'["parent"] = fp["parent"]]_vars

AsFunction(l) ==
  [f \in Mocked(l) |-> RunMockups([g \in Funs |-> original], l)[f]]

Scopes == [i \in 1..Len(groups) |-> AsFunction(groups[i].list)]

Scope == INSTANCE MockupScope WITH
  scopes <- Scopes,
  testing <- test.running,
  mocked <- AsFunction(test.list),
  callee <- fp[IF test.running THEN Runner ELSE "parent"]

(* A call goes to the mockup the running test lists for the function (the last
   one), else to that of the innermost group that mocks it, else to the function:
   what running the test's mockups, re-running one frame and storing originals
   back achieve for narrowing files (VisitTestGroup, VisitTestDefinition). *)
ImplementsScope == Scope!ScopeSpec

(* What the comment of mMockupRevert says of it: it properly reverts the mockup
   replacements for nested groups.  Between tests a call goes to the mockup of
   the innermost open group that has one. *)
NestedGroupsReverted == ~test.running => fp["parent"] = Scope!Visible(Scopes)
=============================================================================
