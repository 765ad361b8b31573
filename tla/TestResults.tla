---------------------------- MODULE TestResults ----------------------------
(***************************************************************************)
(* How the outcome of each test reaches the report.  The process of the    *)
(* test reads what the function printed back from the capture pipe         *)
(* (StdCapture), fills TestResults::mResults, and writes it as text into   *)
(* the result pipe; the parent reads the text in pieces, takes it apart    *)
(* line by line (readFromDisk), and prints one row for each test           *)
(* (TestLoggerVisitor).                                                    *)
(*                                                                         *)
(* Text is a sequence of items: "[", "]" and "nl" (a line's end), "zero"   *)
(* (a NUL byte), and one item for each word.  A read that fills its buffer *)
(* leaves no room for a NUL: what follows the buffer is read too.          *)
(***************************************************************************)
EXTENDS TestValues

CONSTANTS
  Cases,       \* what the i-th test may be: [name, type, returned, ER, prints,
               \* exprs]; exprs is what each of its expected expressions gives
  NoER,        \* ER of a test without an expected result
  CaptureSize, \* items the buffer of StdCapture::EndCapture holds
  BufferSize,  \* items the buffer of readFromDisk holds
  Tails        \* what a C string may go on with behind a full buffer

ASSUME BufferAssumption ==
  CaptureSize \in Nat \ {0} /\ BufferSize \in Nat \ {0}

(* mColumnNames, in the order of the enumeration, which is that of a map's
   keys.  GROUP NAME and FUNCTION CALLED are lines as TEST NAME is. *)
mOrder  == <<"TEST NAME", "RESULT", "ACTUAL RESULT", "EXPECTED RESULT">>
Extras  == <<"WARNING", "FUNCTION OUTPUT", "FAILED EXPECTED EXPRESSIONS">>
mColumnNames == mOrder \o Extras
MAX_COLUMN   == "no column"
Columns      == ToSet(mColumnNames)

VARIABLES
  usingFork,  \* whether --no-fork was not given
  pc,
  test,       \* the test being run (NoER before the first)
  inCapture,  \* what the capture pipe holds
  m_captured, \* what EndCapture has read
  inPipe,     \* what the result pipe holds
  ss,         \* what readFromDisk has read
  results,    \* TD->getTestResults() of the tests that are over
  logged,     \* rows printed: mTestCount
  passed,     \* mTestsPassed
  failed,     \* mTestsFailed
  ran         \* history, read by properties only: the tests that are over

capture == <<inCapture, m_captured>>
counts  == <<logged, passed, failed>>
vars    == <<usingFork, pc, test, capture, inPipe, ss, results, counts, ran>>

UpTo(n, s)   == SubSeq(s, 1, IF Len(s) < n THEN Len(s) ELSE n)
After(n, s)  == SubSeq(s, n + 1, Len(s))
CString(s)   == IF Contains(s, "zero") THEN UpTo(SelectInSeq(s, LAMBDA x : x = "zero") - 1, s) ELSE s

(* The lines of a text, the empty ones left out. *)
Lines(text) ==
  LET step(acc, x) == IF x = "nl" THEN [done |-> Append(acc.done, acc.line), line |-> <<>>]
                      ELSE [acc EXCEPT !.line = Append(@, x)]
      cut == FoldLeft(step, [done |-> <<>>, line |-> <<>>], text)
  IN  SelectSeq(Append(cut.done, cut.line), LAMBDA line : line # <<>>)

Put(f, c, v) == [x \in DOMAIN f \cup {c} |-> IF x = c THEN v ELSE f[x]]

(***************************************************************************)
(* What is put into words, and how it is read                              *)
(***************************************************************************)

(* The test as generated and run: with what its comparison gave. *)
Outcome(t) ==
  t @@ (IF t.ER = NoER THEN [holds |-> TRUE, warnings |-> <<>>]
        ELSE VisitExpectedResult(t.type, t.returned, t.ER))

(* setPassingValue: what the comparison gave, and over it what each expected
   expression gave. *)
PassingValue(t) == IF t.exprs = <<>> THEN t.holds ELSE Last(t.exprs)
FailedExpressions(t) == SelectSeq(t.exprs, LAMBDA e : ~e)

(* testPassed: by the last value set, and no expected expression failed. *)
Verdict(t) == IF PassingValue(t) /\ FailedExpressions(t) = <<>> THEN "PASSED" ELSE "FAILED"

getColumnString(c, t) ==
  CASE c = "TEST NAME"       -> t.name
    [] c = "RESULT"          -> <<Verdict(t)>>
    [] c = "ACTUAL RESULT"   -> getActualResultString(t.type, t.returned)
    [] c = "EXPECTED RESULT" -> IF t.ER = NoER THEN <<"(none)">> ELSE getExpectedResultString(t.ER)

ExtraColumn(c, t, output) ==
  CASE c = "WARNING"         -> FlattenSeq([i \in 1..Len(t.warnings) |-> <<t.warnings[i], "nl">>])
    [] c = "FUNCTION OUTPUT" -> output
    [] OTHER                 -> FlattenSeq([i \in 1..Len(FailedExpressions(t)) |-> <<"is false", "nl">>])

collectTestResults(t, output) ==
  [c \in ToSet(mOrder) |-> getColumnString(c, t)] @@
  [c \in {c \in ToSet(Extras) : ExtraColumn(c, t, output) # <<>>} |-> ExtraColumn(c, t, output)]

(* The text of saveToDisk, the closing NUL included. *)
Message(res) ==
  LET row(c) == IF c \in DOMAIN res THEN <<"[", c, "]", "nl">> \o res[c] \o <<"nl">> ELSE <<>>
  IN  FlattenSeq([i \in 1..Len(mColumnNames) |-> row(mColumnNames[i])]) \o <<"zero">>

(* Mutant: the last character of a header is taken for a part of the name. *)
WholeHeader(line) ==
  LET name == Tail(line)
  IN  IF Len(name) = 1 /\ name[1] \in Columns THEN name[1] ELSE MAX_COLUMN

(* The column of a header line: all but its first and its last character. *)
getColumnFromStr(line) ==
  LET name == SubSeq(line, 2, Len(line) - 1)
  IN  IF Len(name) = 1 /\ name[1] \in Columns THEN name[1] ELSE MAX_COLUMN

(* The lines taken into columns: a header empties its column, and the lines of
   the extra columns are kept apart. *)
Parse(text) ==
  LET open(acc, c) == [current |-> c, res |-> Put(acc.res, c, <<>>)]
      step(acc, line) ==
        IF line[1] = "[" THEN open(acc, getColumnFromStr(line))
        ELSE [acc EXCEPT !.res[acc.current] =
                @ \o (IF acc.current \in ToSet(Extras) THEN <<"nl">> ELSE <<>>) \o line]
  IN  FoldLeft(step, [current |-> MAX_COLUMN, res |-> <<>>], Lines(text)).res

(***************************************************************************)
(* The steps                                                               *)
(***************************************************************************)

Init ==
  /\ usingFork \in BOOLEAN
  /\ pc = "visiting" /\ test = NoER
  /\ inCapture = <<>> /\ m_captured = <<>> /\ inPipe = <<>> /\ ss = <<>>
  /\ results = <<>> /\ ran = <<>>
  /\ logged = 0 /\ passed = 0 /\ failed = 0

(* runFunction: the function under test prints and returns. *)
RunFunction ==
  /\ pc = "visiting" /\ Len(ran) < Len(Cases)
  /\ \E t \in Cases[Len(ran) + 1] : test' = Outcome(t) /\ inCapture' = t.prints
  /\ m_captured' = <<>> /\ pc' = "capturing"
  /\ UNCHANGED <<usingFork, inPipe, ss, results, counts, ran>>

(* Mutant: output is read once. *)
ReadOnce ==
  /\ pc = "capturing"
  /\ m_captured' = CString(UpTo(CaptureSize, inCapture))
  /\ inCapture' = <<>> /\ pc' = "collecting"
  /\ UNCHANGED <<usingFork, test, inPipe, ss, results, counts, ran>>

(* EndCapture: one read.  A short one ends the loop. *)
ReadCapture ==
  /\ pc = "capturing"
  /\ m_captured' = m_captured \o CString(UpTo(CaptureSize, inCapture))
  /\ inCapture' = After(CaptureSize, inCapture)
  /\ pc' = IF Len(inCapture) < CaptureSize THEN "collecting" ELSE "capturing"
  /\ UNCHANGED <<usingFork, test, inPipe, ss, results, counts, ran>>

(* A read that fills the buffer has the NUL written one past its end, over
   whatever the compiler put there: the process may not survive it. *)
Overrun ==
  /\ pc = "capturing" /\ Len(inCapture) >= CaptureSize
  /\ pc' = "aborted"
  /\ UNCHANGED <<usingFork, test, capture, inPipe, ss, results, counts, ran>>

(* Mutant: using_fork is not looked at before writing. *)
SaveAlways ==
  /\ pc = "collecting"
  /\ inPipe' = Message(collectTestResults(test, m_captured)) /\ pc' = "reading"
  /\ UNCHANGED <<usingFork, test, capture, ss, results, counts, ran>>

(* collectTestResults and saveToDisk.  Without fork the results stay where
   they are. *)
SaveResults ==
  /\ pc = "collecting"
  /\ LET mResults == collectTestResults(test, m_captured) IN
     IF usingFork
     THEN inPipe' = Message(mResults) /\ pc' = "reading" /\ UNCHANGED <<results, ran>>
     ELSE /\ results' = Append(results, mResults) /\ ran' = Append(ran, test)
          /\ pc' = "visiting" /\ UNCHANGED inPipe
  /\ UNCHANGED <<usingFork, test, capture, ss, counts>>

(* readFromDisk: one read, appended as a C string. *)
ReadPipe ==
  /\ pc = "reading" /\ inPipe # <<>>
  /\ \E tail \in Tails : ss' = ss \o CString(UpTo(BufferSize, inPipe) \o tail)
  /\ inPipe' = After(BufferSize, inPipe)
  /\ UNCHANGED <<usingFork, pc, test, capture, results, counts, ran>>

(* readFromDisk: nothing is left; what was read is taken apart. *)
ParseResults ==
  /\ pc = "reading" /\ inPipe = <<>>
  /\ results' = Append(results, Parse(ss)) /\ ran' = Append(ran, test)
  /\ ss' = <<>> /\ pc' = "visiting"
  /\ UNCHANGED <<usingFork, test, capture, inPipe, counts>>

(* The walk is over: the logger's begins. *)
BeginReport ==
  /\ pc = "visiting" /\ pc' = "logging"
  /\ UNCHANGED <<usingFork, test, capture, inPipe, ss, results, counts, ran>>

(* Mutant: a row that is not PASSED leaves the counter of failures alone. *)
OnlyPassesCounted(res) ==
  /\ passed' = passed + (IF res["RESULT"] = <<"PASSED">> THEN 1 ELSE 0)
  /\ UNCHANGED failed

Count(res) ==
  IF res["RESULT"] = <<"PASSED">> THEN passed' = passed + 1 /\ UNCHANGED failed
                                  ELSE failed' = failed + 1 /\ UNCHANGED passed

(* VisitTestDefinitionFirst and VisitTestDefinition of the logger: all columns
   of mOrder are fetched with at(), which nobody expects to throw. *)
LogTest ==
  /\ pc = "logging" /\ logged < Len(results)
  /\ LET res == results[logged + 1] IN
     IF ToSet(mOrder) \subseteq DOMAIN res
     THEN logged' = logged + 1 /\ Count(res) /\ UNCHANGED pc
     ELSE pc' = "aborted" /\ UNCHANGED counts
  /\ UNCHANGED <<usingFork, test, capture, inPipe, ss, results, ran>>

PrintSummary ==
  /\ pc = "logging" /\ logged = Len(results)
  /\ pc' = "reported"
  /\ UNCHANGED <<usingFork, test, capture, inPipe, ss, results, counts, ran>>

Next ==
  \/ RunFunction \/ ReadCapture \/ Overrun \/ SaveResults
  \/ ReadPipe \/ ParseResults \/ BeginReport \/ LogTest \/ PrintSummary

Spec == Init /\ [][Next]_vars

(***************************************************************************)
(* Properties                                                              *)
(***************************************************************************)

(* TypeOK: the state is as declared: text is in a pipe or half read only while
   the part that reads it runs, and without fork never in the result pipe. *)
TypeOK ==
  /\ usingFork \in BOOLEAN
  /\ pc \in {"visiting", "capturing", "collecting", "reading", "logging", "reported", "aborted"}
  /\ inCapture # <<>> => pc \in {"capturing", "aborted"}
  /\ pc = "reading" => usingFork
  /\ inPipe # <<>> \/ ss # <<>> => pc = "reading"
  /\ Len(results) = Len(ran) /\ Len(ran) <= Len(Cases)
  /\ \A i \in DOMAIN results : DOMAIN results[i] \subseteq Columns \cup {MAX_COLUMN}
  /\ {logged, passed, failed} \subseteq 0..Len(results)

Printed(t) == collectTestResults(t, t.prints)

(* What comes up to the verdict, and the first character behind it, is read at
   once, and no output can be taken for a header. *)
VerdictIsSafe(t) ==
  \/ ~usingFork
  \/ /\ ~Contains(t.prints, "[")
     /\ Len(t.name) + 12 <= BufferSize

(* The whole message is read at once, no line of the output is a header, and
   no NUL ends it early. *)
MessageIsSafe(t) ==
  /\ ~Contains(t.prints, "zero")
  /\ usingFork => /\ Len(Message(Printed(t))) <= BufferSize
                  /\ \A line \in ToSet(Lines(t.prints)) : line[1] # "["

(* VerdictArrives: whatever a function prints, however long, in as many pieces
   as it is read, and whatever follows the buffers in memory, the parent has
   the verdict the child reached, unless the output contains the bracket of a
   header or a test's name pushes the verdict out of the first read. *)
VerdictArrives ==
  \A i \in DOMAIN ran : VerdictIsSafe(ran[i]) =>
    /\ "RESULT" \in DOMAIN results[i]
    /\ results[i]["RESULT"] = <<Verdict(ran[i])>>

(* ReportIsWhole: a message that is read at once brings every column the child
   filled, its warnings, failed expressions and all the function printed, and
   nothing else; only empty lines are lost on the way. *)
ReportIsWhole ==
  \A i \in DOMAIN ran : MessageIsSafe(ran[i]) =>
    LET sent == Printed(ran[i]) IN
    /\ DOMAIN results[i] = DOMAIN sent
    /\ \A c \in DOMAIN sent : Lines(results[i][c]) = Lines(sent[c])


(* SummaryIsTrue: the summary counts every test once, and the tests that
   passed as such when each verdict was safe. *)
SummaryIsTrue ==
  pc = "reported" =>
    /\ logged = Len(ran) /\ passed + failed = logged
    /\ (\A i \in DOMAIN ran : VerdictIsSafe(ran[i])) =>
         passed = Len(SelectSeq(ran, LAMBDA t : Verdict(t) = "PASSED"))
=============================================================================
