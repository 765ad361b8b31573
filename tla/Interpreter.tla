---------------------------- MODULE Interpreter ----------------------------
(***************************************************************************)
(* The interpreter: /load and /unload edit a copy of jcut's command line,  *)
(* every run has clang's option parser parse that command line again, and  *)
(* the parser's list of sources is never emptied, so the interpreter keeps *)
(* a list of unloaded files to take out of it.  What the user types that   *)
(* is no command is collected until a test is complete and then run.       *)
(***************************************************************************)
EXTENDS Lists

CONSTANTS
  Files,        \* source files, by their absolute path
  PathPrefixes, \* pairs of files: the path of the first starts the second's
  Names,        \* what /unload may be given: the files whose path contains it
  MaxArgs,      \* bound: arguments on the command line
  MaxUnloaded,  \* bound: entries of unloadedFiles
  MaxLines      \* bound: lines of a test

ASSUME InterpreterAssumption ==
  /\ PathPrefixes \subseteq Files \X Files /\ \A w \in PathPrefixes : w[1] # w[2]
  /\ \A v, w \in PathPrefixes : v[2] = w[1] => <<v[1], w[2]>> \in PathPrefixes
  /\ Names \subseteq SUBSET Files
  /\ Files \cap {"jcut", "-p", "db", "--", "-flag"} = {}
  /\ MaxArgs \in Nat /\ MaxUnloaded \in Nat /\ MaxLines \in Nat

VARIABLES
  mArgv,            \* the command line
  mLoadedFiles,     \* the interpreter's list of loaded files
  unloadedFiles,    \* the files taken out of the parser's sources
  mOptionsParsed,   \* whether the options have been parsed once
  parsed,           \* the option parser: the sources it has collected
  buildPathGiven,   \* the option parser: it has been given -p
  prompt,           \* "input" or "more"
  mInterpreterInput,\* lines collected
  session,          \* "on", "exited" or "terminated" by the option parser
  (* History, read by properties only: *)
  loaded,           \* the files the user has loaded and not unloaded
  again,            \* some file was loaded while it was loaded
  misplaced         \* some file was put where the parser takes no sources from

files   == <<mArgv, mLoadedFiles, unloadedFiles, loaded, again, misplaced>>
parser  == <<mOptionsParsed, parsed, buildPathGiven>>
input   == <<prompt, mInterpreterInput>>
vars    == <<files, parser, input, session>>

Without(s, S)   == KeepAt(s, 1..Len(s) \ Places(s, S))
RemoveOne(s, e) == KeepAt(s, {i \in 1..Len(s) : s[i] = e => \E j \in 1..i - 1 : s[j] = e})

(* The arguments before -- . *)
OwnArgs(argv) ==
  {i \in 1..Len(argv) : \A j \in 1..i : argv[j] # "--"}

(* Mutant: the program's own name is taken for a source. *)
ProgramPositional(argv) ==
  {argv[i] : i \in {j \in OwnArgs(argv) :
                      argv[j] # "-p" /\ \A k \in {j - 1} \ {0} : argv[k] # "-p"}}

(* The sources the parser finds: not the program, not -p and its value. *)
Positionals(argv) ==
  {argv[i] : i \in {j \in OwnArgs(argv) : j > 1 /\ argv[j] # "-p" /\ argv[j - 1] # "-p"}}

(* Mutant: the options are passed on every time. *)
AlwaysPassed == \E i \in 1..Len(mArgv) : mArgv[i] = "-p"

(* cloneArgv leaves the options out once they have been parsed. *)
BuildPathPassed == ~mOptionsParsed /\ \E i \in 1..Len(mArgv) : mArgv[i] = "-p"

(* The command lines with which the constructor gets to the main loop: files
   are needed as soon as there is more than -- or -p db. *)
NoFiles == {<<"jcut", "--">>, <<"jcut", "-p", "db">>}
WithFile(f) ==
  {<<"jcut", f, "--">>, <<"jcut", f, "--", "-flag">>, <<"jcut", "-p", "db", f>>}

Init ==
  /\ mArgv \in NoFiles \cup UNION {WithFile(f) : f \in Files}
  /\ parsed = IF mArgv \in NoFiles THEN {} ELSE Positionals(mArgv)
  /\ mOptionsParsed = (mArgv \notin NoFiles)
  /\ buildPathGiven = (mArgv \notin NoFiles /\ mArgv[2] = "-p")
  /\ loaded = parsed
  /\ mLoadedFiles = IF parsed = {} THEN <<>> ELSE <<CHOOSE f \in parsed : TRUE>>
  /\ unloadedFiles = <<>> /\ again = FALSE /\ misplaced = FALSE
  /\ prompt = "input" /\ mInterpreterInput = 0
  /\ session = "on"

(* Mutant: a loaded file stays in unloadedFiles. *)
StillUnloaded(f) == unloadedFiles

(* The first entry of the file is erased. *)
NoLongerUnloaded(f) == RemoveOne(unloadedFiles, f)

(* addFileToArgv: the file goes before the last argument. *)
Load(f) ==
  /\ session = "on" /\ Len(mArgv) < MaxArgs
  /\ mArgv' = SubSeq(mArgv, 1, Len(mArgv) - 1) \o <<f, mArgv[Len(mArgv)]>>
  /\ unloadedFiles' = NoLongerUnloaded(f)
  /\ mLoadedFiles' = Append(mLoadedFiles, f)
  /\ loaded' = loaded \cup {f}
  /\ again' = (again \/ f \in loaded)
  /\ misplaced' = (misplaced \/ mArgv[Len(mArgv)] \in {"-flag", "db"})
  /\ UNCHANGED <<parser, input, session>>

(* Mutant: the files are not put on the list of unloaded files. *)
NotRecorded(removed) == unloadedFiles

Recorded(removed) == unloadedFiles \o removed

(* removeFileFromArgv: every argument that contains the name goes, that is the
   files of S.  Each takes one entry out of mLoadedFiles. *)
Unload(S) ==
  LET removed == KeepAt(mArgv, Places(mArgv, S))
      same(i) == {j \in 1..i : mLoadedFiles[j] = mLoadedFiles[i]}
      gone    == {i \in Places(mLoadedFiles, S) :
                    Cardinality(same(i)) <= Count(removed, mLoadedFiles[i])}
  IN  /\ session = "on" /\ removed # <<>>
      /\ Len(unloadedFiles) + Len(removed) <= MaxUnloaded
      /\ mArgv' = Without(mArgv, S)
      /\ mLoadedFiles' = KeepAt(mLoadedFiles, 1..Len(mLoadedFiles) \ gone)
      /\ unloadedFiles' = Recorded(removed)
      /\ loaded' = loaded \ S
      /\ UNCHANGED <<again, misplaced, parser, input, session>>

(* runAction's sources: duplicates go, and with them a file whose path starts
   with another's; then the unloaded files. *)
Sources(found) ==
  {f \in found : /\ \A g \in found : <<g, f>> \notin PathPrefixes
                 /\ \A i \in 1..Len(unloadedFiles) : unloadedFiles[i] # f}

SeqOf(S) ==
  CHOOSE s \in [1..Cardinality(S) -> S] : \A i, j \in 1..Cardinality(S) : s[i] = s[j] => i = j

(* runAction: the parser terminates the program when it finds no source or gets
   -p a second time. *)
ParserFails == Positionals(mArgv) = {} \/ (BuildPathPassed /\ buildPathGiven)

RunAction ==
  /\ mOptionsParsed' = TRUE
  /\ parsed' = parsed \cup Positionals(mArgv)
  /\ buildPathGiven' = (buildPathGiven \/ BuildPathPassed)
  /\ IF ParserFails
     THEN session' = "terminated" /\ UNCHANGED mLoadedFiles
     ELSE session' = session /\ mLoadedFiles' = SeqOf(Sources(parsed'))
  /\ UNCHANGED <<mArgv, unloadedFiles, loaded, again, misplaced>>

(* /ls *)
ListFunctions ==
  /\ session = "on" /\ mLoadedFiles # <<>>
  /\ RunAction /\ UNCHANGED input

(* A line that is not complete yet: Ctrl-J was pressed in it or before it. *)
TypeMore ==
  /\ session = "on" /\ mInterpreterInput < MaxLines
  /\ prompt' = "more" /\ mInterpreterInput' = mInterpreterInput + 1
  /\ UNCHANGED <<files, parser, session>>

(* The end of a test: a line at the input prompt, or an empty one after more. *)
Complete ==
  /\ session = "on"
  /\ prompt = "input" \/ mInterpreterInput > 0
  /\ prompt' = "input"

(* Mutant: only a run clears the input. *)
InputKept == mInterpreterInput

InputAfterRefusal == 0

(* There is nothing to test it against. *)
RefuseTest ==
  /\ Complete /\ mLoadedFiles = <<>>
  /\ mInterpreterInput' = InputAfterRefusal
  /\ UNCHANGED <<files, parser, session>>

(* The syntax check and, if it succeeds, the tests: both parse the same command
   line, so the second finds what the first found. *)
RunTest ==
  /\ Complete /\ mLoadedFiles # <<>>
  /\ mInterpreterInput' = 0
  /\ RunAction

(* /exit, or the end of the input. *)
Exit ==
  /\ session = "on" /\ session' = "exited"
  /\ UNCHANGED <<files, parser, input>>

Next ==
  \/ \E f \in Files : Load(f)
  \/ \E S \in Names : Unload(S)
  \/ ListFunctions \/ TypeMore \/ RefuseTest \/ RunTest \/ Exit

Spec == Init /\ [][Next]_vars
-----------------------------------------------------------------------------
(***************************************************************************)
(* Properties                                                              *)
(***************************************************************************)

(* The types of the variables. *)
TypeOK ==
  /\ mArgv \in Seq(Files \cup {"jcut", "-p", "db", "--", "-flag"})
  /\ mLoadedFiles \in Seq(Files \cup {"db"}) /\ unloadedFiles \in Seq(Files)
  /\ mOptionsParsed \in BOOLEAN /\ buildPathGiven \in BOOLEAN
  /\ parsed \subseteq Files \cup {"db"}
  /\ prompt \in {"input", "more"} /\ mInterpreterInput \in 0..MaxLines
  /\ session \in {"on", "exited", "terminated"}
  /\ loaded \subseteq Files /\ again \in BOOLEAN /\ misplaced \in BOOLEAN

(* What runs next, if the user completes a test now. *)
WouldRun == Sources(parsed \cup Positionals(mArgv))

(* Although the parser never forgets a source, no run takes a file that is not
   loaded, whatever was loaded and unloaded before (runAction, addFileToArgv,
   removeFileFromArgv). *)
OnlyLoadedRun == ~misplaced => WouldRun \subseteq loaded

(* A run takes every loaded file, as long as no file was loaded while it was
   loaded already, none was put behind -- and its path does not start with that
   of a file the parser has ever seen. *)
AllLoadedRun ==
  ~again /\ ~misplaced =>
    \A f \in loaded :
      f \in WouldRun \/ \E g \in parsed \cup loaded : <<g, f>> \in PathPrefixes

(* mLoadedFiles decides whether a test may run at all: it is not empty only if
   the parser will find a source, and -p is not passed twice; otherwise a test
   would end the session (mainLoop, cloneArgv). *)
SessionSurvives == ~misplaced => session # "terminated"

(* At the input prompt nothing is left of an earlier test that would be run in
   front of the next one, whether that test was run or refused (mainLoop). *)
NothingLeftOver == prompt = "input" => mInterpreterInput = 0
=============================================================================
