# jcut: a TLA+ model of the unit-testing tool

jcut runs unit tests written in a small language of its own against C functions. It compiles a C
source file to LLVM IR with clang, reads a file of groups and tests, generates a wrapper function
for every fixture and every test, and runs the wrappers in a JIT, each test in a forked child. This
directory models that program in TLA+: the modules are checked by TLC on small instances, and what
the report of a run, its mockups, the global variables of the tested program, the parser, the tests
over data files, the interpreter and the line editor with its history promise is proved with TLAPS for
all values of the constants.

Paths such as `TestRunnerVisitor.cpp:208` are relative to `src/`. `PROJECT.json` maps every
definition to the lines it stands for.

## Inventory

| Part | State it keeps | Operations | Talks to |
|---|---|---|---|
| Test runner (`TestRunnerVisitor`) | `mExpExpr`, `mMockupRevert`, the JIT and its memory | one visit per group, fixture, test; `runFunction`, fork, waitpid | the tree (visits), the child (pipe, exit status), the JIT |
| Results transport (`TestResults`) | `mPipe`, `mResults` | `collectTestResults`, `saveToDisk`, `readFromDisk` | child and parent of one test |
| Code generator (`TestGeneratorVisitor`) | `mBackupTemp`, `mBackupTest`, `mBackupGroup`, `mInstructions`, `mWarnings` | a visit per node of the tree; emits backups, restores, mockup setters, conversions of constants, comparisons | the tree, the LLVM module; what it emits is run by the runner |
| Test tree (`TestParser.h`) | groups, fixtures, tests, the functions generated for them | `accept`: the order of every visit | all visitors |
| Parser (`TestDriver`) | the tokens and an index in them | one `Parse...` per construct | the scanner, the tree |
| Data placeholders and CSV (`DataPlaceholderVisitor`, `CSVDriver`) | `mTests`, `mReplacements`, the rows of a file | one copy of a test per row, put in its place when its group is left | parser, tree |
| Output capture (`StdCapture`) | `captured`, the pipe, the saved descriptors, a mutex | `BeginCapture`, `EndCapture` | the function under test, whoever reads results |
| Report printer (`TestLoggerVisitor`, `OutputFixerVisitor`) | column widths, counts | one visit per test and file | the results in the tree |
| Interpreter | `mArgv`, `mLoadedFiles`, `unloadedFiles`, `mOptionsParsed`, the prompt | `/load`, `/unload`, `/ls`, a test, `/exit` | clang's option parser (a static, never reset), the action |
| Front end action, `main` | `mUseInterpreterInput`, `mInterpreterInput`, `TotalTestsFailed` | `EndSourceFileAction`: parse, expand, generate, run, print | everything above |
| Line editor (`linenoise.c`, built into jcut) | the line and its capture, the history and its scratch entry, the search, the row of the terminal, `jcut-history.txt` | a key; save and load of the history | interpreter, terminal, a file |
| Scanner, build files | - | flex output, autotools | parser |

How they interact: `JCUTAction::EndSourceFileAction` calls, in this order and inside one `try`, the
parser, the placeholder visitor, the generator, the runner, the output fixer and the logger. Any
exception ends the run with a message, so what the runner has gathered is printed after the whole
walk or not at all. The interpreter repeats the whole pipeline in one process.

What is hard, and what makes each part correct:

- *Test runner.* Two processes and two pipes per test. The parent waits before it reads; the child
  may return, crash, exit, hang, or block writing. Fixtures run in jcut's own process, and may too. Correct: a test that fails a check of its own is
  not PASSED; a test is blamed only for what really failed and only for itself or for a group's
  fixture; a report has a verdict for every test; descriptors do not pile up; every run ends.
- *Mockups.* A stack of frames, and no record of which pointer each frame changed. Correct: between
  and in tests a call goes to the innermost mockup, and nothing of a test is left behind.
- *Global variables.* One list of backups for all open groups. Correct: what a test or a group
  assigns is undone, and a group's given state lasts for the group.
- *Interpreter.* Three lists of files that are edited apart (`mArgv`, `mLoadedFiles`,
  `unloadedFiles`) and a fourth one in the option parser that only grows. Correct: what runs is what
  is loaded, and no command ends the session.
- *Parser.* Raw pointers that change owner while a group is parsed, and an exception that runs a
  catch in every open group. Correct: every node is deleted once, the finished tree owns everything
  that is left, a failure leaves only what was unfinished, and parsing ends.
- *Results transport.* Text that is written in one process and parsed in the other, through two
  buffers of 1024 bytes. Correct: what is read is what was collected, and the summary counts it.
- *Values.* Literals take the width of the other operand. Correct: the row agrees with its verdict.
- *Data.* Copies of a test wait until its group is left. Correct: each row becomes one test, in place.
- *Line editor.* An array with a terminator, a cursor, a scratch entry among the lines of the
  history, and shortcuts that skip the redraw. Correct: the line stays a C string, the row shows it,
  and no line is lost by browsing, searching, or leaving.

## Modules

| Module | Models | Kind |
|---|---|---|
| `TestRunner` | the walk, fork, pipe, waitpid, expected expressions, verdicts, report | state machine |
| `Report` | what a run promises about its report | abstract specification |
| `TestRunnerProofs` | the safety properties of `TestRunner`; it implements `Report` | proofs |
| `MockupStack` | the frames of `mMockupRevert` and the function pointers | state machine |
| `MockupScope` | what a call may reach, without stacks or pointers | abstract specification |
| `MockupStackProofs` | types, isolation and frames of `MockupStack`; with narrowing files it implements `MockupScope` | proofs |
| `GlobalBackup` | backups and restores of global variables | state machine |
| `GlobalBackupProofs` | types, and that tests and groups undo their assignments | proofs |
| `TestValues` | constants, their conversion, the comparison of a result, what a row shows | operators |
| `TestResults` | a test's results from the capture pipe to the summary | state machine |
| `DataPlaceholder` | a test for each row of a data file | state machine |
| `DataPlaceholderProofs` | cells, rows and copies; each test gives way to its rows, in its place | proofs |
| `Interpreter` | command line, loaded files, option parser, multi-line input | state machine |
| `InterpreterProofs` | what runs is what is loaded, and no command ends the session | proofs |
| `GroupParser` | the parser of test files and the ownership of what it builds | state machine |
| `GroupParserProofs` | who owns the nodes, for files of any length | proofs |
| `LineBuffer` | the array of the line being edited and what changes it | operators |
| `LineDisplay` | the row that shows the line | operators |
| `LineEditor` | keys, search, completion, history and its file | state machine |
| `LineHistory` | which lines of the history a user keeps | abstract specification |
| `LineEditorProofs` | the line stays a C string; the safety properties of `LineEditor`; it implements `LineHistory` | proofs |
| `Lists` | a part of a list kept, lists put one behind the other | operators |
| `Prefixes` | places in a list, recursion and induction over its prefixes | lemmas |
| `MC...` | definitions the configurations need | - |

In every one, the test file (or what the user types) is an input: an action chooses what comes next
with `\E`, within the bounds named as constants. Operators headed "Mutant:" are small faults that
each property has been shown to notice; nothing else uses them.

### TestRunner

`usingFork` is the command line's choice, made in `Init` and kept for the session. `pc` is where the
parent's walk is and `cpc` where the running test is, in its child or, with
`--no-fork`, inline. `groups`, `nGroups` and `nTests` are the position of the visitor in the tree; while a fixture of a
group runs (`pc` is "setup" or "teardown"), `fixture` holds its expressions.
An expected expression is a number; `owner` says which test it is written in, or that it is a
group's. The generated code stores the outcome of each expression in a global: `mem` is the copy of those
globals in each process, and a fork copies the parent's. `mExpExpr` is the parent's list of
expressions; the child's own list is only read between the fork and `clear()`, where it equals the
parent's, so it has no variable. `inPipe`, `toWrite` and `PipeCapacity` are the result pipe in units
of a fixed part, a unit of output and a line for each blamed expression; `captured` is the capture
pipe of `StdCapture`, which nobody reads until the function under test, or the fixture, has returned.
The output of a fixture goes through such a pipe of jcut's own.

| Actions | Code |
|---|---|
| `EnterGroup`, `LeaveGroup` | `TestGroup::accept`, and `runFunction` up to the calls of `before_all` and `after_all` |
| `FixturePrints`, `FixtureDies`, `FixtureHangs` | the functions a fixture calls, in the parent |
| `SetupReturns`, `TeardownReturns` | `EndCapture`, the rest of `VisitGroupSetup`, `VisitGroupTeardown` and the end of the group |
| `CannotFork`, `ForkTest`, `RunTestInline` | `VisitTestDefinition` up to the fork |
| `FudPrints`, `FudReturns`, `FudSignalled`, `FudExits`, `FudHangs` | `runFunction(TD)`, the function under test |
| `CollectInChild`, `CollectInline` | the loop over `mExpExpr`, the mockups, `collectTestResults` |
| `ChildWrites`, `ChildExits` | `saveToDisk`, `_Exit` |
| `WaitPid`, `ReadNothing`, `ReadFromDisk` | the parent's branch, `readFromDisk` |
| `Log`, `NextRun` | the logger, the next line typed in the interpreter |

`outcome`, `expected` and `fds0` are history variables: no guard reads them but through what the
code knows (the list of failed expressions comes from `mem`, never from `outcome`).

`Report` has two variables, a status and the sequence of verdicts. The refinement mapping leaves out
the verdict of the test under way and drops everything when the run fails.

### MockupStack

Each function with a mockup is called through a pointer; `fp` is those pointers in the memory of
each process. `mMockupRevert` is a vector with a `nullptr` between groups and is modelled as a
sequence of frames. Running the top frame again pops and runs the functions from the top, so the
*first* mockup of a function in a frame ends up in force, where the first pass leaves the *last*
one: `RunMockups` and `RerunNearest` differ in that. `MockupScope` says where calls go: its state
has the mockups of the running test (`mocked`) and of the open groups (`scopes`), and a call goes to
the test's mockup, else to the innermost group's, else to the function. The refinement mapping takes
`mocked` from the list of the test that `StartTest` picked, so a runner that did not run the mockups
of a test, or ran others, would not refine it. `NarrowSpec` restricts the files
to those for which the stack is enough (`Narrowing`: each frame mocks only what the frame under it
mocks, each function once); under it the stack implements the scopes. Without the restriction it
does not, and `MockupNested` shows the shortest file.

### GlobalBackup

The generated code runs once and in the order it is generated, so an action is a visit of the
generator together with the run of what it emits. A fixture is a short sequence of assignments and
calls; a call changes a variable without a backup. `mBackupTest` and `mBackupGroup` are the lists of
the source; `restoreGlobalVariables` empties the latter whenever any group is left, because the
marker that would stop it is only pushed by `saveGlobalVariables`, which nothing calls.

The assignments of a mockup statement have no function of their own. They wait in `mInstructions` for
the next function that is generated, and once they have run, their backups wait in `mBackupTemp` for
the next `before`, `after`, `before_all` or `after_all`. So the groups and tests that have such a
fixture and those that have none are actions of their own. A backup is a global variable: `saved` is
its value in each process, which for one made in a child is, in the parent, the value the variable
was defined with.

| Actions | Code |
|---|---|
| `EnterGroup`, `EnterBareGroup` | `mockup_all` with and without `before_all`: `VisitGroupSetup` |
| `LeaveGroup`, `CleanUpGroup`, `LeaveBareGroup` | `VisitGroupTeardown`, `VisitTestGroup`: with `after_all`, without but with backups, with neither |
| `StartTestWithBefore`, `StartTestWithoutBefore` | `mockup`, `VisitTestSetup`, the function under test |
| `EndTestWithAfter`, `EndTestWithoutAfter` | `VisitTestTeardown`, the restores of `VisitTestDefinition` |
| `WaitPid` | the end of the child and of its memory |

`entry`, `exempt`, `disturbed` and `intact` are history variables for the properties. What the
properties do not promise is in `exempt` and `disturbed`, and it is more than one might expect:
variables that called functions change, and those of which a backup waits in `mBackupTemp` when a
test starts or ends. The latter are the assignments of mockups of tests with neither `before` nor
`after`, which without fork outlive their test, and those of a `mockup_all` that run in a cleanup.

### Interpreter

`mArgv`, `mLoadedFiles`, `unloadedFiles`, `mOptionsParsed` and the input are the members of the
source; `parsed` and `buildPathGiven` are the state clang's option parser keeps between runs, as
`runAction` and `cloneArgv` describe it in their comments. The loops that rebuild the command line and
erase entries of the other two lists are one operator, `KeepAt` of `Lists`: the elements of a list at
a set of places, in their order. File names are abstract: `PathPrefixes` says which path starts which (that is
when `unique` drops the second), `Names` what a name given to `/unload` matches. A path that contains another one further in than its start, and a name that
matches the program's own path, are left out. `again` and `misplaced` remember that a file was
loaded twice or put where the parser takes no sources from; the properties that hold hold up to them.

### GroupParser

`cur` is `mCurrentToken` and `left` what the tokenizer still has; each action eats tokens the way the
function it models does and leaves the next one to be chosen by `\E`. `pc` is the part that is parsed
next and `body` whether its brace is open; `frames` are the nested calls of `ParseTestGroup`, with
the number of members each has in `tests` and whether its `new_group_name` is non-null. A node is
named by its place in the tree; `made` are the nodes that have been allocated and `deleted` is the
bag of those that have been deleted, so that a second deletion can be seen. A function call, an
assignment or a comparison is one token that may turn out malformed: what is allocated inside a
statement, and what leaks from there, is not modelled. `OpenPart`, `ParseStatement` and `ClosePart`
stand for the fixtures of groups and tests alike; `Caught` is the catch of every open call in turn: a
node is deleted as often as there are calls that delete it.

Three states are ends of their own, because what happens next is undefined or wrong in the source: a
fixture that peeks past the end of the file (`PeekPastEnd`), a second unnamed group that is given a
deleted name (`UnnamedSibling`), and a nested group without its brace, which is deleted where the
error is thrown and again by the catch (`UnclosedGroup`). `DeletedOnce` holds up to the last one.

### TestValues and TestResults

`TestValues` has the conversion of a constant (`createIntValue`: radix, truncation, warnings), the
comparison `VisitExpectedResult` generates and the strings a row shows, over words of `Width` bits.
`TestResults` follows a test's results. A text is a sequence of items: the brackets of a header, a
line's end, a NUL and words. Each test has the
outcomes of its expected expressions (`exprs`): each of them overwrites the value of the expected
result (`PassingValue`), so only without any does the row have to agree with its verdict.
`inCapture` and `m_captured` are the two sides of `EndCapture`, `inPipe`
and `ss` those of `readFromDisk`, `results` the maps of all tests, `logged`, `passed` and `failed` the
logger's counters.

| Actions | Code |
|---|---|
| `RunFunction`, `ReadCapture`, `Overrun` | `runFunction`, the loop of `EndCapture`, its NUL past a full buffer |
| `SaveResults` | `collectTestResults`, `saveToDisk`; without fork the map stays where it is |
| `ReadPipe`, `ParseResults` | the two loops of `readFromDisk` |
| `BeginReport`, `LogTest`, `PrintSummary` | the logger's walk |

Two outcomes are choices because C leaves them open: what follows a full buffer in memory (`Tails`),
and whether the process survives the NUL written one past the capture buffer (`Overrun`).

### DataPlaceholder

`DataPlaceholderVisitor` as it walks: `groups` are the vectors of tests of the open groups, `mTests`
the stack of tests that wait with a null pointer for each open group, `mReplacements` the copies.
`split` and `Matrix` are the CSV driver, `split` with the variables of its loop (`Scanned`); `ReadCell` is what the parser makes of a cell; `CopyTest` is
the copy constructors. `RefuseTest` ends the run with a message. `CopyMockup` ends it too: copying a
test with a mockup of a function dereferences the null member of `MockupFunction`
(`TestParser.h:891`).

### LineEditor

`LineBuffer` is `struct current` and the functions on it; a line is an array with its terminator, so
that a missing or a misplaced one shows. `LineDisplay` is `refreshLine` and the shortcuts that write
one character without it. `LineEditor` is the loop of `linenoiseEdit`: `mode` says which loop reads
the next key (the editor, reverse search, completion, the character after ctrl-V), `history` holds
the scratch entry while a line is edited, `file` is `jcut-history.txt`. One action per loop and way
out of it: `EditKey` (a disjunct per case of the switch), `SearchKey`, `StopSearch`, `LeaveSearch`,
`StartCompletion`, `NextCompletion`, `LeaveCompletion`, `QuotedChar`; `Prompt`, `PlainLine` (no
terminal), `Exit` and `Restart` are the interpreter's. A key is what one read gives; what follows an
escape character is classified as `check_special` does, with its timeouts. This is the POSIX build
without `USE_UTF8`, which is what jcut's build files make: a character is a byte.

The text of a search is an array of `SearchSize` bytes (`rbuf[50]`), but the code checks its length
against `SearchLimit`, `SearchSlack` bytes more (`linenoise.c:1279`). A key typed when the array is
full is written behind it: `SearchChar` lets the process survive that, with the text as it was typed,
or die of it (`Close`), in which case what was not saved is lost as at any other end. A key typed
when the limit is reached is dropped. `Decode` may meet a backslash at the end of a full piece, where
the code reads on behind the array; the model stops there with what was decoded, and the properties
about files ask for lines that fit. ctrl-A, ctrl-B, ctrl-P and others share their codes with names of
escape keys, and completion tells them apart only by whether they came after an escape character, so
`LeaveCompletion` allows both outcomes for them.
`LineHistory` says what the user of the editor keeps; `KeepsHistory` is the refinement.

## Runs

| Run | Result | Shows |
|---|---|---|
| `Runner` | passes | with fork and without: no failed check of a test's own is PASSED, blame is just, reports are complete, descriptors balance, a run implements `Report` and ends |
| `RunnerPipeFull` | violation of `RunEnds` | a message larger than the pipe: child in `write`, parent in `waitpid`, for ever |
| `RunnerVerdict` | violation of `VerdictSound` | an expected result that fails, overwritten by an expression that holds: PASSED |
| `Mockup` | passes | frames are those of the open groups, tests leave the groups' pointers alone, narrowing files implement `MockupScope` |
| `MockupNested` | violation of `NestedGroupsReverted` | a nested group's mockup that outlives it |
| `Backup` | passes | tests and groups undo their assignments, those of mockup statements included when a fixture takes them over; a group keeps its state until a group inside it is left |
| `Interpreter` | passes | unloaded files never run; loaded files do, up to the three exceptions the property names; no test ends the session; no input is left over |
| `Parser` | passes | nothing is deleted twice, a finished tree is whole, a failure leaks only what was unfinished, parsing ends |
| `Results` | passes | verdicts and messages arrive whole when they are safe as the property says, the numbers of a row agree with its verdict if the test has no expected expressions, the summary is true |
| `Data` | passes | each test with placeholders gives way, in its place, to one for each row; the loop that replaces them ends at its own group |
| `DataCopies` | violation of `CopiesAreCopies` | the copy of a test has lost its group name and the text of its strings |
| `Editor` | passes | the line stays a C string, kills can be yanked, the row shows the line, browsing and searching lose nothing, entered lines survive to the next session |

### Bounds, and why they are enough

- Runner: 2 tests, 2 groups nested 2 deep and 3 expressions, 2 per fixture. Isolation needs an
  earlier test and a later one; overwriting a value needs two expressions; blame across groups needs
  a group that is left before the test. Both modes
  are initial states. Two runs in a session (`MaxRuns`) and 3 descriptors let a second run find the pipe of the first
  leaked. The pipe of 5 units holds the largest message of these bounds; `RunnerPipeFull` has one of
  2 units and a message of 3. No output of a test or a fixture fills
  its capture pipe here; with a pipe of 1 unit and fixtures that print 2, `RunEnds` is violated by
  `FixturePrints` as well (see below).
- Mockups: 2 functions, 2 bodies, 3 nested groups, 2 mockups in a list (so that a list can mock one
  function twice); groups may follow one another without bound.
- Backups: 2 variables of 2 values that may be exchanged (symmetry: no property and no constant tells
  them apart), 2 nested groups, any number of them and of tests, one statement per fixture, one
  assignment of a mockup statement in a file. A test runs a mockup and two fixtures, so a variable can
  be assigned three times in a test, and a group's mockup_all, before_all, after_all and nested groups
  assign it up to five times. One mockup is enough to be taken over by any later test or group; with
  two (`MaxMocked = 2`, 1.6 million states, three minutes) the run passes as well.
- Interpreter: 3 files, one whose path starts another's, 5 arguments, 3 unloaded files. It takes a
  file twice on the command line to be shadowed by its own entries of `unloadedFiles`, and one more
  to see another file survive it.

- Parser: files of 11 tokens: enough for a group in a group that both have a finished test when the
  error comes, for a group with `mockup_all`, `before_all` and a test, and for every part of a test.
- Results: words of 4 bits and pointers of 6, with constants at, inside and outside the range, in all
  radixes. Buffers of 4 (capture) and 37 items (result pipe) stand for the 1024 bytes of the source;
  outputs of 0 to 24 items are shorter, as long, and longer than each, as are names. The first test
  is any of these, a second one shows that nothing of the first one is left.
- Data: 3 tests and 3 groups, so that two tests of a group wait while a nested one is left; 8 files
  with rows of one and two cells, empty and blank cells, empty lines, structures, nested braces.
- Editor: an array of 5, so lines of up to 3 typed characters and of 4 loaded ones; a window of 4
  columns, so that lines scroll; a history of 3, so that it fills and gives up its oldest line; searches in an array of 2 with a limit
  of 3 characters, so that it is filled, overrun and the limit reached. The
  keys come in six keyboards, because all keys at once multiply states without new behaviour: the
  editing of one line, browsing, searching upwards, searching with reads that fail or come late, and
  lines of characters that the file escapes, typed and quoted.

Deadlock checking is off where the system really stops: after a report, a crash or an error
(runner, results), at the end of the file (backups, parser, data), after `/exit` or the parser's exit
(interpreter).

### Fairness

`RunEnds` and `ParserEnds` need it. For the runner, `FairSpec` has weak fairness of the test's steps and of jcut's own: the
operating system schedules both processes, and each is sequential. A blocked `write` or `waitpid`
and a function that hangs, of a test or of a fixture, have no enabled step, so fairness promises nothing about them. `NextRun`
is the user's and has none. The parser is one thread that does nothing else: weak fairness of `Next`.

## Proofs

All that follows holds for every value of the constants, under the assumptions the modules name. What
the provers cannot reach is listed at the end of this section.

### The runner

`RunnerAssumption` says that bounds and capacities are naturals (the pipe holds at least one unit)
and that endings are among the four kinds. From it alone, for any number of tests, groups,
expressions, runs and descriptors, with fork or without:

| Theorem | States |
|---|---|
| `TypeCorrect` | `Spec => []TypeOK` |
| `OwnFailuresAreReported` | `Spec => []OwnFailureReported` |
| `BlameIsJust` | `Spec => []BlameIsOwnOrGroup` |
| `ReportsAreComplete` | `Spec => []CompleteReport` |
| `DescriptorsAreBalanced` | `Spec => []DescriptorsBalanced` |
| `RunnerImplementsReport` | `Spec => ImplementsReport` |

The argument. None of the properties is inductive: a verdict is computed in the child from memory
and a list, travels through the pipe and is stored by the parent. `IInv` follows it: `ControlInv`
keeps the two program counters in step; `ReportInv` says that tests before the current one have a
verdict and a message under way carries one; `FreshInv` that expressions not met yet are untouched;
`ListInv` which expressions the list holds (with fork, all of them, since the parent's is never
cleared; inline, those of fixtures and of the current test); `MemoryInv` that a false global means a
failed evaluation, and that with fork a false one in the parent belongs to a group. From those,
`CollectedHonest` shows that a verdict computed now blames justly, and `HonestInv` carries it through
`mResults` to `results`. There is one lemma per action (`...IInv`), joined in `NextIInv`.
`BlameIsJust` is the surprising one: with fork the list keeps every expression of every earlier test,
and what saves the verdict is that the parent's globals of those expressions are still TRUE.
The refinement has one lemma per kind of abstract step: a verdict recorded, a failure, a stutter.

### The mockups

`MockupAssumption` says that the two bounds are naturals and that the function itself is none of its
replacements. For any functions, replacements, nesting and lists:

| Theorem | States |
|---|---|
| `MockupTypes` | `Spec => []TypeOK` |
| `TestsAreIsolated` | `Spec => TestsLeaveGroupsAlone` |
| `FramesFollowGroups` | `Spec => []FramesAreOpenGroups` |
| `NarrowingImplementsScope` | `NarrowSpec => ImplementsScope` |

`FramesAreOpenGroups` asks for an increasing map from the frames onto the open groups that mock
something. The proof carries the map along (`Match`): a mocking group adds a place (`MatchPush`), a
plain one leaves it (`MatchPlain`), leaving removes the last place or none (`MatchPop`,
`MatchPlainPop`). The nearest and the farthest group with a mockup exist by `LastPlace` and
`FirstPlace` of `Prefixes`.

The refinement needs more, since `MockupScope` has no pointers: `NarrowInv` adds `PointersSeen`, that
every pointer of the groups' process holds what the scopes make visible, or is hidden by a test that
runs inline. Entering pushes what the group lists on top of what was seen (`EnterSeen`). Leaving is
where `Narrowing` is used (`LeaveSeen`): a function the group mocked is mocked by the frame under it,
so running that frame again reaches every pointer that has to change; and since each function is
mocked once in a list, the first mockup of a list and its last are the same (`RerunIs`), so running
it in the other order makes no difference. Starting a test lays the pointers its list leaves over
those (`TestPointers`), which is what the scopes say of it. Ending an inline test (`EndSeen`) uses the
third part of `Narrowing` in the same way as leaving a group. `MockupNested` shows what happens without it.

### The global variables

`BackupAssumption` says that the bounds are naturals and that the value variables are defined with is
a value. For any variables and values, any nesting and any number of statements, with fork and without:

| Theorem | States |
|---|---|
| `TypeCorrect` | `Spec => []TypeOK` |
| `TestUndoes` | `Spec => TestUndoesAssignments` |
| `GroupsUndo` | `Spec => []GroupsUndoAssignments` |
| `IntactKept` | `Spec => []IntactGroupsKeepState` |

`TestUndoes` and `GroupsUndo` hold up to the exempt and the disturbed variables described above, and
`GroupsUndo` does not say whose cleanup did it: that of a nested group may restore what the outer
one assigned. The properties speak of moments when a restore has just run; the invariant speaks of the restores
that are still to come. `TestCanRestore`: if the running test restored its backups and those that wait now, the
variables it does not exempt would be what they were when it started. `GroupsCanRestore`: if the
backups of the groups were restored now, the undisturbed variables would be as they were defined.
`KeptOutside` is `IntactGroupsKeepState`, also while a test runs in jcut's own process, when the
groups' memory is the one the test started with (`Outside`). `WaitingHarmless` is what makes the
first two agree: a backup that waits in `mBackupTemp` may be taken over by any group or test, and then
restores either the initial value or a variable that counts as disturbed. `Housekeeping` ties the
lists to the phase of the test.

What carries the argument is one lemma: restoring the backups that some statements made, after
they have run, undoes them (`StatementsUndone`), whatever was assigned in between, because the
earliest backup of a variable is the one that stays. `RestoreConcat` and `StatementsConcat` split it
where a list is continued by the next fixture. Each action has a lemma (`...Steps`), and
`NextInvariant` joins them.

### The line and its editor

`LineBufferAssumption` says that an array has at least three elements and that the terminator is no
character; `LineEditorAssumption` that the characters the editor treats in a way of its own are among
the characters, that a history holds a line, and that completions are lists of texts. First, the
operations on any line that is `Terminated`, and then the editor built from them, for any characters,
buffer, history, keys and completions:

| Theorem | States |
|---|---|
| `SetCurrentTerminates`, `CutTerminates`, `InsertTerminates` | filled, cut or inserted into, a line is a C string |
| `KillThenYank` | what is killed at the cursor, of a line with room for a character and unless a NUL is killed, ctrl-Y (which inserts up to the first NUL) puts back |
| `TypeCorrect` | `Spec => []TypeOK` |
| `AlwaysTerminated` | `Spec => []LineIsTerminated` |
| `YankRestores` | `Spec => []KillYankRestores` |
| `MatchShown` | `Spec => []SearchShowsMatch` |
| `DisplayAlways` | `Spec => []DisplayShowsLine` |
| `BrowsingIsHarmless` | `Spec => []BrowsingKeepsLine` |
| `DecodesEncoded` | of any line, the decoding loop of the load gives back what the save encoded |
| `LoadsWhatFits` | a file whose encoded lines fit the buffer is loaded line by line, but for repeats |
| `HistoryReadsBack` | `Spec => []SavedHistoryReadsBack` |
| `HistoryIsKept` | `Spec => KeepsHistory`, the refinement of `LineHistory` |

The invariant: the line is `Sound` (`LinePart`); every entry of the history and of its file is a text
without a terminator that fits the buffer, and there are at most `HistoryMax` of them
(`HistoryPart`); while a line is edited there is an entry for it and the index is in the history (`ModePart`);
the line shown by a search contains what is searched for, whose length keeps to the limit the code
checks (`SearchPart`). `HistoryPart` is what the
others need. `BrowsingIsHarmless` holds because an entry that fits is put into the array and read out
of it again unchanged (`TextOfSetCurrent`, `SetBack`): a longer one would be cut, and the cut saved
when it is left. It is inductive because a load takes lines in pieces of the buffer's size
(`PiecesIs`), what decoding makes of a piece is not longer than the piece (`DecodeFits`), and adding
an entry drops the oldest.

`DisplayAlways` is for any window wider than the prompt and any line without a NUL. What is written is
a beginning of the rest of the line (`ShownIs`): the columns up to a character grow with its place, so
those inside the window are the first ones. What goes off the front leaves room up to the cursor
(`RoomToCursor`), and the cells of a beginning begin the cells of the whole (`CellsBegin`); so the cursor
is behind the cells of the characters before it. A line whose columns fit the window is drawn whole
(`WholeRefreshed`), and with one character more or less it still is, so a shortcut leaves what a refresh
would (`ShortcutsDraw`). The shortcuts' guards count bytes, and for a line with control characters
that is not enough: `ShortcutsAgree` asks of those that their columns fit too.

`HistoryReadsBack` is an induction over lines and, within one, over characters: when a prefix of the
encoded line has been read, the decoder is not in an escape and holds the same prefix of the line
(`EncodedPrefix`, `DecodeEscaped`). A line whose encoding fits is one piece (`OnePiece`), and a file
has no more lines than a history, so nothing is given up while it is loaded. The refinement has one
lemma per action (`...Allowed`): a step leaves the lines alone, rewrites the one that is shown, enters
one, or gives up the oldest of a full history. As `KeepsHistory` says, it is promised where no
read fails in a search (that leaves the scratch entry behind) and the lines fit the file.

### The parser

`ParserAssumption` says that the number of tokens is a natural. For files of any length, with groups
nested to any depth and ill formed in any way:

| Theorem | States |
|---|---|
| `TypeCorrect` | `Spec => []TypeOK` |
| `NodesDeletedOnce` | `Spec => []DeletedOnce` |
| `FinishedTreeIsWhole` | `Spec => []TreeIsWhole` |
| `ErrorsLeakUnfinished` | `Spec => []LeaksAreUnfinished` |

The invariant says who holds a node while the file is read. The open calls are `Nested`: the group of
each is the member that the call around it is parsing. A node is of a member that some call has
finished (`MemberOf`), of a group that is open (`Begun`), or of the test that is being parsed, and of
no other (`NodesPart`); in a finished member every place has its group or test (`WholePart`); open
groups have names (`NamesPart`); and what has been deleted is the names that groups were given, once
each (`DeletedPart`).

Why the catches do not delete a node twice (`CaughtOnce`): call `i` deletes what its finished members
hold, whose place at depth `i` is at most `kids`; whatever an inner call deletes lies in the member
that call `i` is parsing, at `kids + 1`. What no catch deletes is in no finished member, hence
unfinished (`LeftOver`). When a group or test is constructed it becomes the last finished member of
the innermost call (`PushedNested`), and it is whole because everything inside it is its own node or
in one of its finished members (`WholeGrows`). At the end of the file only the root is open, so every
node is in the tree. `NamesPart` was missing at first: nothing else says that the name
`UnclosedGroup` deletes exists. There is one lemma per action or kind of step (`...Step`), and
`EndsStay` for the states where parsing is over.

### The interpreter

`InterpreterAssumption` says that files are none of jcut's own arguments, that the names given to
`/unload` match files only, that prefixes are those of other files and transitive, and that the bounds
are naturals. For any files, prefixes, names and length of the session:

| Theorem | States |
|---|---|
| `TypeCorrect` | `Spec => []TypeOK` |
| `OnlyLoadedFilesRun` | `Spec => []OnlyLoadedRun` |
| `LoadedFilesRun` | `Spec => []AllLoadedRun` |
| `SessionsSurvive` | `Spec => []SessionSurvives` |
| `InputIsFresh` | `Spec => []NothingLeftOver` |

The invariant ties the three lists, the user's view (`loaded`) and the parser's memory together: the
command line keeps its shape, and its order as long as nothing was misplaced (`LinePart`); it lists
what is loaded (`LoadedPart`); what the parser remembers is loaded or on the list of unloaded files
(`ParsedPart`, from which `OnlyLoadedRun` follows); without a file loaded twice no list has a file
twice, and none is both loaded and on the list of unloaded files (`OncePart`, for `AllLoadedRun`);
and `mLoadedFiles` never has more of a file than the command line (`CountPart`).

`CountPart` is what keeps the session alive. Only `mLoadedFiles` is looked at before a run; if it is
not empty, the command line has that file too, so the parser finds a source. It is preserved by
`/unload` because each argument takes one entry out of `mLoadedFiles`, and there are at least as many
arguments as entries (`AllEntriesGo`); and by a run, after which the list has each source once
(`SeqOfLists`, `ListedOnce`). `KeepAtIs` says what `KeepAt` computes: an increasing map from the places
of the result onto the places kept; all else about it (`KeepSome`, `KeepOthers`, `RemoveOneHas`,
`WithoutKeepsLine`) follows from that. There is one lemma per action that touches the lists
(`LoadKeeps`, `UnloadKeeps`, `RunKeeps`).

### Tests over the rows of a file

`InputAssumption` says what the parser makes of a test: its arguments and its expected result, if it
has one, are values with a text; files are lines of items; and `@` is no constant. From it, for any
tests, files, number and nesting of groups:

| Theorem | States |
|---|---|
| `SplitIsCells` | the loop of `split` gives, of every line, the cells that `Cells` describes |
| `TypeCorrect` | `Spec => []TypeOK` |
| `RowsAreTests` | `Spec => []RowsBecomeTests` |

`Cells` knows no loop: a cell is what lies between two commas no brace holds. `SplitIsCells` is an
induction over the line; after `n` items, `out` has the cells that ended so far and `item` is what has
come since the last bound (`SplitRuns`). A row of `Matrix` is then a line with a cell (`MatrixIs`), and
`CopyIsRow` says that a copy, filled, is the row's test: the first placeholder gets the first
cell because `PlaceholdersPos` is increasing, and the expected result the one behind them.

`RowsBecomeTests` is about a group that is left; the invariant (`IInv`) says at any time what its
vector holds. `Whole`: the tests of a group are what it met, in order, with a test whose copies do not
wait any more replaced by its copies (`Piece`, `Pieces`, `Flat`). Only then is it true that the
copies come where their test was. `StackedMet`: a test on the stack was met in the group whose null
pointer is below it, and copies wait for the tests on the stack and no others; `StackMarked`: there is a
null pointer for each open group, at the bottom first; `MetOnce`: no test is met twice, so `find` has
one place to find; `TestsWait`: until its group is left, every test with placeholders waits, and what
waits are its copies. One lemma per action keeps it (`EnterWalks`, `MemberWalks`, `ExpandWalks`,
`LeaveWalks`, `ReplaceWalks`, `DoneWalks`). `ReplaceWalks` is the hard one: `erase` and `insert` change one
piece of `Flat` and leave the rest (`FlatButOne` of `Prefixes`, `ReplacedPieces`). In `DoneWalks` the top
of the stack is a null pointer, so no test of the innermost group waits any more.

### Lists and their prefixes

The loops of the source that build a list are recursive functions on the prefixes of another list
(`Assignments`, `Encode`, `Decode`, `Pieces`, `HistoryLoad`, `NoRepeats`, `KeepAt`, `Flat`, `split`). `Prefixes` has what their
proofs share: `PrefixRecursion`, that such a function exists; `PrefixUnique`, that there is no other,
so that the `CHOOSE` behind the definition is that function; `PrefixInduction`, over the lengths for
which something holds. All three rest on the places of a list being well founded (`LastPlace`,
`FirstPlace`).

### Only model-checked

- `RunEnds` and `ParserEnds`: liveness under fairness, which the prover does not reach; nor does it
  reach `ENABLED`.
- The invariants of `TestResults`: `TestValues` makes the text of a number with `ToString`, of which the
  provers know nothing, and lines and columns are found with `SelectSeq` and folds.

No recursive operator is declared anywhere.

## Where the code and its documents disagree

Each of these four has a run, and `PROJECT.json` quotes what it contradicts: the result pipe that
blocks both processes (`TestRunnerVisitor.cpp:208`), the overwritten expected result (`:171`), the
mockup that outlives its group (`:101`), the copies that are not copies (`TestParser.h:1140`).

Two comments are out of date; the properties that pass contradict them:

- "@bug ... When the test does not have an expected result and the expected expression should fail, it
  always passess" (`TestRunnerVisitor.cpp:160-162`). Such a test is FAILED: the expression is in the list
  that `testPassed` looks at (`TestRunnerVisitor.cpp:170`, 191; `TestParser.h:1183`).
  `OwnFailureReported` covers it, and TLC refutes the comment with one test and one expression.
- "@bug This works only where we declare a teardown with "after_all"" (`TestGeneratorVisitor.cpp:914`).
  `VisitTestGroup` makes a cleanup for a group without one (`CleanUpGroup`; `:741`), and
  `GroupsUndoAssignments` covers it.

Two more contradictions are outside what the passing runs promise, and show when that is dropped:

- A fixture that prints more than the capture pipe holds blocks jcut itself in `write`: `runFunction`
  runs it in jcut's own process and reads the pipe when it is over (`OSRedirect.h:120`,
  `TestRunnerVisitor.cpp:42-57`), before any summary is shown (tutorial, 173). With `PipeCapacity = 1`
  and `MaxOutput = 2`, and no test, TLC finds `RunEnds` violated.
- The shortcuts of the editor are for lines where "no scrolling is needed" (`linenoise.c:965`), but
  their guards count bytes where a control character takes two columns (`:927`, `:967`). After a tab in a
  window of 4 columns a typed character fills the row and the cursor leaves the window, where a
  refresh scrolls. `ShortcutsAgree` excepts those lines; without the exception TLC finds
  `DisplayShowsLine` violated.

These were met on the way and have no run of their own; the models contain the behaviour:

- The text of a reverse search has 50 bytes and is checked against 53 (`linenoise.c:1234`, 1279): up to
  four bytes are written behind it.
- A test is blamed for a failed check of a group that is already closed, because the parent's list of
  expressions is never cleared (`TestRunnerVisitor.cpp:163`; `tutorial/jcut-tutorial.txt:672`).
- Leaving a nested group undoes what the outer group's `before_all` assigned
  (`TestGeneratorVisitor.cpp:743`; tutorial, 1304).
- A mockup statement's assignment lasts for the wrong time: without a fixture of its own it is undone
  with another test; with fork, that of a `mockup_all` without `before_all` is seen by the first test
  only (`TestGeneratorVisitor.cpp:603`).
- A file that is loaded is put before the last argument, behind `--` or as the value of `-p`
  (`Interpreter.cpp:306`; `Interpreter.h:130`).
- The second unnamed group of a parent is given a deleted name (`TestParser.cpp:694`; tutorial, 778).
- In a row, an expected hexadecimal is shown as 0 and an octal as if it were decimal; the sign of
  `-0x3` is dropped; unsigned results are compared and printed as signed (tutorial, 336-347); `!=` is
  false of NaN.
- A line `[RESULT]` a test prints overrides its verdict. A name or arguments that push the verdict
  out of the first 1024 bytes damage the row; a column that is missing then throws where nobody
  catches. The exit code does not depend on the tests, though `JCUTAction.cpp:127` counts the failures.
- A copied test whose argument is a string makes the generator throw (`TestGeneratorVisitor.cpp:97`);
  empty cells are dropped, so that later ones move up; nested braces are split in the wrong place.
- ctrl-T on a line of one character deletes it (comment, `linenoise.c:1334`). An Alt key in a reverse
  search submits the line and leaves the scratch entry behind. ctrl-V inserts a NUL, though the
  comment at 1347 says otherwise. `linenoiseHistoryLoad` appends, where `linenoise.h` says it
  replaces.

## Not modelled

- The scanner: flex output for a regular language, with no state a property depends on; the parser's
  module starts from tokens. The build files.
- Layout, colours and column widths of the report (`OutputFixerVisitor` and the printing half of
  `TestLoggerVisitor`), and the wording of messages.
- The text of the generated IR: unique names, wrappers, structure and buffer initialisers, arguments
  of calls. Strings as expected results are addresses and are left out.
- What is allocated inside a statement of a test file (`TestParser.cpp:281`): a statement is one token
  that may be malformed.
- `dup` and `dup2` failing, and a capture inside a capture, which has no caller (`OSRedirect.h:116`).
- Windows builds, the UTF-8 build of linenoise, `linenoiseHistorySetMaxLen`, `linenoiseColumns`.

## Plan

Done, in this order: `TestRunner` with `Report` and their proofs; `MockupStack` with `MockupScope` and
theirs; `GlobalBackup`; `Interpreter`; `GroupParser`; `TestValues` and `TestResults`;
`DataPlaceholder`; `LineEditor` with its parts; the proofs of `GlobalBackup`, `LineBuffer`,
`LineEditor`, `GroupParser`, `Interpreter` and `DataPlaceholder`.

Left, most important first:

1. A proof of `TestResults`, with its lists as recursive functions.
2. `GroupParser`: allocation inside a statement, where a structure initialiser is deleted twice on an
   error.
3. `StdCapture`: the saved descriptors and `dup` failing.
4. `JcutAction`: the pipeline as a composition of the modules above, with the exit code.
