-------------------------- MODULE DataPlaceholder --------------------------
(***************************************************************************)
(* Tests over the rows of a file: DataPlaceholderVisitor walks the tree of *)
(* a test file and puts, in the place of a test with data and with         *)
(* placeholders (@), one copy of it for each row, its placeholders filled  *)
(* from the cells.  The copies wait in mReplacements until the group that  *)
(* holds the test is left; mTests says which tests wait, with a null       *)
(* pointer (0) for each open group.                                        *)
(*                                                                         *)
(* The test file is an input: the walk chooses what it meets.  A line of a *)
(* data file is a sequence of items: commas, braces, brackets, blanks and  *)
(* constants.  An argument has a value, the object that holds it, and str, *)
(* its text.                                                               *)
(***************************************************************************)
EXTENDS Lists, SequencesExt

CONSTANTS
  Tests,     \* tests as written: [data, args, er, mockup], er with no or one element
  Files,     \* the lines of each data file there is, by path
  NoData,    \* the data of a test without any
  Texts,     \* for each constant, the text that a copy makes of it
  MaxTests,  \* bound: tests in the test file
  MaxGroups, \* bound: groups in the test file, the root one included
  MaxDepth   \* bound: groups open at the same time

ASSUME BoundsAssumption ==
  MaxTests \in Nat /\ MaxGroups \in Nat /\ MaxDepth \in Nat /\ NoData \notin DOMAIN Files

BufferText == <<"BufferAlloc">>
Argument   == [value : Seq(STRING), str : Seq(STRING) \cup {BufferText}]

ASSUME InputAssumption ==
  /\ \A t \in Tests : /\ t.args \in Seq(Argument) /\ t.mockup \in BOOLEAN
                      /\ t.er \in Seq(Argument) /\ Len(t.er) <= 1
  /\ \A f \in DOMAIN Files : Files[f] \in Seq(Seq(STRING))
  /\ \A c \in DOMAIN Texts : c # "@" /\ Texts[c] \in Seq(STRING)

VARIABLES
  pc,
  groups,        \* the groups being visited, the innermost last: [number, tests, met]
  nTests,        \* tests met so far
  nGroups,       \* groups met so far
  mTests,        \* the tests to be replaced and, as 0, the open groups
  mReplacements, \* the copies that wait, by test
  left           \* history, read by properties only: the group last left

vars == <<pc, groups, nTests, nGroups, mTests, mReplacements, left>>

(* tests is the vector of the group; met, a history, what it held at first. *)
Group(n) == [number |-> n, tests |-> <<>>, met |-> <<>>]
InGroup(gs, m) == [gs EXCEPT ![Len(gs)].tests = Append(@, m),
                             ![Len(gs)].met = Append(@, m)]

Constant(item)  == [value |-> <<item>>, str |-> <<item>>]
Placeholder     == Constant("@")
IsPlaceholder(a) == a.value = <<"@">>

(***************************************************************************)
(* CSVDriver                                                               *)
(***************************************************************************)

(* Cells end at commas, but for those after a brace that the next closing one
   has not ended yet; empty ones are dropped. *)
NoCells == [out |-> <<>>, item |-> <<>>, struct_init |-> FALSE]
Kept(acc) == IF acc.item = <<>> THEN acc.out ELSE Append(acc.out, acc.item)
Scanned(acc, c) ==
  LET struct_init == c = "{" \/ (acc.struct_init /\ c # "}") IN
  IF c = "," /\ ~struct_init
  THEN [out |-> Kept(acc), item |-> <<>>, struct_init |-> struct_init]
  ELSE [out |-> acc.out, item |-> Append(acc.item, c), struct_init |-> struct_init]

split(line) ==
  LET scan[n \in 0..Len(line)] == IF n = 0 THEN NoCells ELSE Scanned(scan[n - 1], line[n])
  IN  Kept(scan[Len(line)])

(* The rows: the first line, be it empty, and the later ones that are not. *)
Matrix(lines) ==
  LET rows == [i \in 1..Len(lines) |-> split(lines[i])]
  IN  IF lines = <<>> THEN <<<<>>>>
      ELSE KeepAt(rows, {i \in 1..Len(lines) : i = 1 \/ rows[i] # <<>>})

ColumnMismatch(m) == \E i \in DOMAIN m : Len(m[i]) # Len(m[1])

(* What ParseFunctionArgument and ParseExpectedConstant make of a cell: its
   first constant, or (an argument only) a buffer. *)
NoBlanks(cell) == KeepAt(cell, {i \in 1..Len(cell) : cell[i] # " "})
Unreadable == [value |-> <<>>, str |-> <<>>]
ReadCell(cell, isArgument) ==
  LET w == NoBlanks(cell)
  IN  IF w = <<>> THEN Unreadable
      ELSE IF w[1] \in DOMAIN Texts THEN Constant(w[1])
      ELSE IF isArgument /\ w[1] = "[" /\ Last(w) = "]" /\ Count(w, "{") = Count(w, "}")
      THEN [value |-> w, str |-> BufferText]
      ELSE Unreadable

(***************************************************************************)
(* Copying a test, and filling it                                          *)
(***************************************************************************)

(* The copy constructors copy the value; the text is made anew from a number
   and left empty for a string or a character. *)
CopyArgument(a) == IF a.value[1] \in DOMAIN Texts THEN [a EXCEPT !.str = Texts[a.value[1]]] ELSE a
CopyArguments(as) == [p \in DOMAIN as |-> CopyArgument(as[p])]

NoName == 0 \* the group name of a new LLVMFunctionHolder

(* Neither the group's name nor what else the test has as an LLVMFunctionHolder
   is copied. *)
CopyTest(t) == [t EXCEPT !.group = NoName, !.args = CopyArguments(@), !.er = CopyArguments(@)]

PlaceholdersPos(as) ==
  KeepAt([p \in 1..Len(as) |-> p], {p \in 1..Len(as) : IsPlaceholder(as[p])})

(* The test and the row the cells of which it gets: the first for its first
   placeholder, and so on; the expected result comes last. *)
Filled(t, row) ==
  LET pos == PlaceholdersPos(t.args)
      cell(p) == row[CHOOSE j \in DOMAIN pos : pos[j] = p]
  IN  [t EXCEPT !.args = [p \in DOMAIN @ |-> IF IsPlaceholder(@[p]) THEN ReadCell(cell(p), TRUE) ELSE @[p]],
                !.er   = [p \in DOMAIN @ |-> IF IsPlaceholder(@[p])
                                             THEN ReadCell(row[Len(pos) + 1], FALSE) ELSE @[p]]]

Given(t)            == t.args \o t.er
HasPlaceholders(t)  == \E p \in 1..Len(Given(t)) : IsPlaceholder(Given(t)[p])
PlaceholderCount(t) == Len(PlaceholdersPos(Given(t)))

(* The copies of a test, one for each row. *)
Copies(t) ==
  LET rows == Matrix(Files[t.data])
  IN  [i \in 1..Len(rows) |-> Filled(CopyTest(t), rows[i])]

(***************************************************************************)
(* The walk                                                                *)
(***************************************************************************)

Init ==
  /\ pc = "visiting" /\ nTests = 0 /\ nGroups = 1
  /\ groups = <<Group(1)>> /\ mTests = <<0>>
  /\ mReplacements = <<>> /\ left = Group(0)

(* Mutant: no null pointer is pushed for a nested group. *)
EnterUnmarked ==
  /\ pc = "visiting" /\ nGroups < MaxGroups /\ groups # <<>> /\ Len(groups) < MaxDepth
  /\ groups' = Append(groups, Group(nGroups + 1)) /\ nGroups' = nGroups + 1
  /\ UNCHANGED <<pc, nTests, mTests, mReplacements, left>>

EnterGroup ==
  /\ pc = "visiting" /\ nGroups < MaxGroups /\ groups # <<>> /\ Len(groups) < MaxDepth
  /\ groups' = Append(groups, Group(nGroups + 1)) /\ nGroups' = nGroups + 1
  /\ mTests' = Append(mTests, 0)
  /\ UNCHANGED <<pc, nTests, mReplacements, left>>

(* A test as the parser leaves it, with the name of its group. *)
Parsed(t) == [data |-> t.data, args |-> t.args, er |-> t.er, mockup |-> t.mockup,
              id |-> nTests + 1, group |-> Last(groups).number]

MeetTest(t) ==
  /\ pc = "visiting" /\ nTests < MaxTests /\ groups # <<>>
  /\ nTests' = nTests + 1 /\ groups' = InGroup(groups, t)
  /\ UNCHANGED <<nGroups, left>>

(* A test without placeholders is left alone, whatever its data says. *)
KeepTest(t) ==
  /\ MeetTest(t) /\ ~HasPlaceholders(t)
  /\ UNCHANGED <<pc, mTests, mReplacements>>

(* Else a JCUTException: no data statement, no file, rows of different lengths,
   or too few columns. *)
GoodData(t) ==
  /\ t.data \in DOMAIN Files
  /\ LET m == Matrix(Files[t.data])
     IN  ~ColumnMismatch(m) /\ PlaceholderCount(t) <= Len(m[1])

RefuseTest(t) ==
  /\ MeetTest(t) /\ HasPlaceholders(t) /\ ~GoodData(t)
  /\ pc' = "refused" /\ UNCHANGED <<mTests, mReplacements>>

(* The copy constructor of a mockup function reads a null pointer, be it the
   constant or the keyword void the mockup does not have. *)
CopyMockup(t) ==
  /\ MeetTest(t) /\ HasPlaceholders(t) /\ GoodData(t) /\ t.mockup
  /\ pc' = "crashed" /\ UNCHANGED <<mTests, mReplacements>>

(* A cell no constant begins is an UnexpectedToken; the copies made are lost. *)
ExpandTest(t) ==
  /\ MeetTest(t) /\ HasPlaceholders(t) /\ GoodData(t) /\ ~t.mockup
  /\ IF \E c \in ToSet(Copies(t)) : Unreadable \in ToSet(Given(c))
     THEN pc' = "refused" /\ UNCHANGED <<mTests, mReplacements>>
     ELSE /\ mReplacements' = [n \in DOMAIN mReplacements \cup {t.id} |->
                                 IF n = t.id THEN Copies(t) ELSE mReplacements[n]]
          /\ mTests' = Append(mTests, t.id) /\ UNCHANGED pc

LeaveGroup ==
  /\ pc = "visiting" /\ groups # <<>>
  /\ pc' = "replacing"
  /\ UNCHANGED <<groups, nTests, nGroups, mTests, mReplacements, left>>

IndexOf(tests, id) == CHOOSE i \in DOMAIN tests : tests[i].id = id

(* Mutant: the copies go to the end of the group. *)
CopiesAppended(tests, id, copies) == RemoveAt(tests, IndexOf(tests, id)) \o copies

(* erase and insert: the copies take the place of their test. *)
Replaced(tests, id, copies) ==
  LET i == IndexOf(tests, id)
  IN  SubSeq(tests, 1, i - 1) \o copies \o SubSeq(tests, i + 1, Len(tests))

(* One turn of VisitTestGroup's loop.  A test that is not in the group would
   stay on top of the stack and the loop would go on for ever. *)
ReplaceTest ==
  /\ pc = "replacing" /\ Last(mTests) # 0
  /\ \E i \in DOMAIN Last(groups).tests : Last(groups).tests[i].id = Last(mTests)
  /\ groups' = [groups EXCEPT ![Len(groups)].tests =
                  Replaced(@, Last(mTests), mReplacements[Last(mTests)])]
  /\ mReplacements' = [n \in DOMAIN mReplacements \ {Last(mTests)} |-> mReplacements[n]]
  /\ mTests' = Front(mTests)
  /\ UNCHANGED <<pc, nTests, nGroups, left>>

(* The group has no test left to replace.  In the group around it, it is one
   member, with the id of no test. *)
GroupDone ==
  /\ pc = "replacing" /\ Last(mTests) = 0
  /\ mTests' = Front(mTests) /\ left' = Last(groups)
  /\ LET around == Front(groups)
         member == [id |-> -Last(groups).number]
     IN  groups' = IF around = <<>> THEN <<>>
                   ELSE InGroup(around, member)
  /\ pc' = IF Len(groups) = 1 THEN "expanded" ELSE "visiting"
  /\ UNCHANGED <<nTests, nGroups, mReplacements>>

Visit(t) == KeepTest(t) \/ RefuseTest(t) \/ CopyMockup(t) \/ ExpandTest(t)

Next ==
  \/ EnterGroup
  \/ \E t \in Tests : Visit(Parsed(t))
  \/ LeaveGroup \/ ReplaceTest \/ GroupDone

Spec == Init /\ [][Next]_vars

(***************************************************************************)
(* Properties                                                              *)
(***************************************************************************)

(* TypeOK: there is a null pointer for every open group, what is above it on
   the stack are tests of that group (or the loop that replaces them would not
   end), and copies wait for the tests on the stack and no others. *)
Depth(k) == Cardinality({j \in 1..k : mTests[j] = 0})

TypeOK ==
  /\ pc \in {"visiting", "replacing", "expanded", "refused", "crashed"}
  /\ Count(mTests, 0) = Len(groups) /\ (groups # <<>> => mTests[1] = 0)
  /\ \A k \in DOMAIN mTests :
       mTests[k] # 0 =>
         LET g == groups[Depth(k)]
         IN  \E i \in DOMAIN g.tests : g.tests[i].id = mTests[k]
  /\ DOMAIN mReplacements = ToSet(mTests) \ {0}
  /\ pc = "expanded" => mReplacements = <<>>
  /\ nTests <= MaxTests

(* The cells of a line: what is between two commas that no brace holds. *)
Held(line, p) == \E b \in 1..p : line[b] = "{" /\ \A k \in b..p : line[k] # "}"
Bounds(line) ==
  {0, Len(line) + 1} \cup {p \in 1..Len(line) : line[p] = "," /\ ~Held(line, p)}
Start(bounds, q) == CHOOSE p \in bounds : p < q /\ \A r \in bounds : r < q => r <= p
Cells(line) ==
  LET bounds == Bounds(line)
      all    == [q \in 1..Len(line) + 1 |-> SubSeq(line, Start(bounds, q) + 1, q - 1)]
  IN  KeepAt(all, {q \in bounds \ {0} : all[q] # <<>>})

Expanded(m) == m.id > 0 /\ HasPlaceholders(m)

PlaceholdersUpTo(as, p) == Cardinality({q \in 1..p : IsPlaceholder(as[q])})

(* c is test t with the cells for its placeholders, first to last, the rest of
   a cell behind its constant not looked at. *)
IsRowOf(c, t, cells) ==
  LET given   == Given(t)
      got     == Given(c)
      cell(p) == NoBlanks(cells[PlaceholdersUpTo(given, p)])
  IN  /\ c.id = t.id /\ c.mockup = t.mockup /\ Len(c.args) = Len(t.args) /\ Len(got) = Len(given)
      /\ \A p \in DOMAIN given :
           IF IsPlaceholder(given[p]) THEN got[p].value # <<>> /\ IsPrefix(got[p].value, cell(p))
           ELSE got[p].value = given[p].value

(* RowsBecomeTests: when a group is left, each of its tests with placeholders
   has given way, in its place, to one test for each line of its file that has
   a cell, in the order of the lines, its placeholders taking the cells from
   left to right; all else is where it was. *)
Wanted(t) ==
  LET lines == Files[t.data]
      cells == [i \in 1..Len(lines) |-> Cells(lines[i])]
      rows  == KeepAt(cells, {i \in 1..Len(lines) : cells[i] # <<>>})
  IN  IF Expanded(t) THEN [i \in 1..Len(rows) |-> [of |-> t, cells |-> rows[i]]]
      ELSE <<[of |-> t, cells |-> <<>>]>>

RowsBecomeTests ==
  LET all == Flat([i \in 1..Len(left.met) |-> Wanted(left.met[i])])
  IN  /\ Len(left.tests) = Len(all)
      /\ \A k \in 1..Len(all) :
           IF Expanded(all[k].of) THEN IsRowOf(left.tests[k], all[k].of, all[k].cells)
           ELSE left.tests[k] = all[k].of

(* CopiesAreCopies: a copy is its test but for the placeholders: the group it
   is in and the text of its constants.  Violated. *)
CopiesAreCopies ==
  \A c \in ToSet(left.tests), t \in ToSet(left.met) :
    (c.id = t.id /\ t.id > 0) =>
      /\ c.group = t.group
      /\ \A p \in DOMAIN t.args : ~IsPlaceholder(t.args[p]) => c.args[p].str = t.args[p].str
=============================================================================
