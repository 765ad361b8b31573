---------------------------- MODULE GroupParser ----------------------------
(***************************************************************************)
(* The recursive-descent parser of test files, TestDriver: groups nested   *)
(* in groups, their fixtures, tests and theirs.  The tree is built of raw  *)
(* pointers, each owned by whoever holds it until an object that deletes   *)
(* it is constructed; an exception runs the catch of every open            *)
(* ParseTestGroup.                                                         *)
(*                                                                         *)
(* The file is an input, chosen token by token.  A token here is a keyword, *)
(* a brace, a name, or a whole function call ("call"), assignment          *)
(* ("assign") or comparison ("expect"), any of which may be malformed      *)
(* further on.                                                             *)
(***************************************************************************)
EXTENDS Integers, Sequences, FiniteSets, SequencesExt, Bags

CONSTANT MaxTokens  \* bound: tokens in the file, the end of it not counted

ASSUME ParserAssumption == MaxTokens \in Nat

GroupParts == {"mockup_all", "before_all", "after_all"}
TestParts  == {"data", "mockup", "before", "function", "after"}
Tokens     == GroupParts \cup (TestParts \ {"function"})
                \cup {"group", "id", "{", "}", ";", "call", "assign", "expect", "bad"}

VARIABLES
  cur,     \* mCurrentToken
  left,    \* tokens the tokenizer has still, the end of the file not counted
  pc,      \* what is parsed next
  body,    \* inside the braces of the part pc
  frames,  \* the open calls of ParseTestGroup, the innermost last
  made,    \* nodes that have been allocated
  deleted  \* nodes that have been deleted, and how often

vars == <<cur, left, pc, body, frames, made, deleted>>

(* A node is a part of the group or test at a place in the tree: <<2, 1>> is
   the first member of the second member of the root group. *)
Node(p, part) == [at |-> p, part |-> part]
Parts == GroupParts \cup TestParts \cup {"group", "test", "name", "given"}

Ends == {"done", "error", "unclosed", "staleName", "pastEnd"}

(* A frame: its group, the members it has pushed on tests, and whether
   new_group_name still points somewhere. *)
Frame(p) == [at |-> p, kids |-> 0, named |-> FALSE]

Top       == frames[Len(frames)]
Outer     == SubSeq(frames, 1, Len(frames) - 1)
NextKid   == Append(Top.at, Top.kids + 1)
Pushed(s) == [s EXCEPT ![Len(s)].kids = @ + 1]

(* Mutant: the end of the file is not the last token. *)
TokensWithoutEnd(n) ==
  cur' \in {"eof"} \cup Tokens /\ left' = left - n

(* nextToken, n times; the tokens in between are the caller's choice. *)
NextToken(n) ==
  /\ n <= left + 1
  /\ cur' \in {"eof"} \cup IF n <= left THEN Tokens ELSE {}
  /\ left' = IF cur' = "eof" THEN 0 ELSE left - n

(* What deleting the group or test at p deletes, when the nodes in M exist.
   The name a group was given is copied, never owned. *)
Owned(M, p) == {n \in M : IsPrefix(p, n.at) /\ n.part # "given"}

(* Mutant: the member that was being parsed is deleted too. *)
CaughtWithOpen(M, f) ==
  {n \in M : \/ n.at = f.at /\ n.part \in {"mockup_all", "before_all"}
             \/ \E k \in 1..(f.kids + 1) : n \in Owned(M, Append(f.at, k))}

(* The catch of an open ParseTestGroup deletes its mockup_all, before_all and
   the members pushed so far. *)
CaughtIn(M, f) ==
  {n \in M : \/ n.at = f.at /\ n.part \in {"mockup_all", "before_all"}
             \/ \E k \in 1..f.kids : n \in Owned(M, Append(f.at, k))}

(* Mutant: the innermost catch does not throw again. *)
CaughtByInnermost(M, F) == SetToBag(CaughtIn(M, F[Len(F)]))

(* Each open call catches in turn, and throws again: a node is deleted as often as
   there are calls that delete it. *)
Caught(M, F) ==
  LET by(n) == {i \in 1..Len(F) : n \in CaughtIn(M, F[i])}
  IN  [n \in {m \in M : by(m) # {}} |-> Cardinality(by(n))]

Throw ==
  /\ pc' = "error" /\ body' = FALSE
  /\ deleted' = deleted (+) Caught(made, frames)
  /\ UNCHANGED <<cur, left, frames, made>>

(* The order of the parts of a group and of a test. *)
Following ==
  [mockup_all |-> "before_all", before_all |-> "tests", after_all |-> "end",
   data |-> "mockup", mockup |-> "before", before |-> "function",
   function |-> "after", after |-> "tests"]

(* tokenize and ParseTestFile: the root group gets the next generated name. *)
Init ==
  /\ cur \in Tokens \cup {"eof"}
  /\ left = IF cur = "eof" THEN 0 ELSE MaxTokens
  /\ pc = "mockup_all" /\ body = FALSE
  /\ frames = <<Frame(<<>>)>>
  /\ made = {Node(<<>>, "name")} /\ deleted = EmptyBag

(***************************************************************************)
(* Parts                                                                   *)
(***************************************************************************)

(* The part pc is done.  A test is constructed and pushed after its last
   part, be it there or not. *)
PartDone(nodes) ==
  /\ body' = FALSE
  /\ pc' = Following[pc]
  /\ IF pc = "after"
     THEN made' = made \cup nodes \cup {Node(NextKid, "test")} /\ frames' = Pushed(frames)
     ELSE made' = made \cup nodes /\ UNCHANGED frames
  /\ UNCHANGED deleted

Built == {Node(IF pc \in GroupParts THEN Top.at ELSE NextKid, pc)}

(* The part is optional, and not there. *)
SkipPart ==
  /\ pc \in (GroupParts \cup TestParts) \ {"after_all", "function"}
  /\ ~body /\ cur # pc
  /\ PartDone({})
  /\ UNCHANGED <<cur, left>>

(* The keyword and its brace. *)
OpenPart ==
  /\ pc \in (GroupParts \cup TestParts) \ {"data", "function"} /\ ~body /\ cur = pc
  /\ \/ NextToken(2) /\ body' = TRUE /\ UNCHANGED <<pc, frames, made, deleted>>
     \/ Throw

(* Mutant: the semicolon is not eaten. *)
SemicolonKept == UNCHANGED <<cur, left>>

AfterSemicolon == NextToken(1)

Statements ==
  IF pc \in {"mockup", "mockup_all"} THEN {"call", "assign"} ELSE {"call", "assign", "expect"}

(* A statement and its semicolon; the last one of a mockup may go without. *)
ParseStatement ==
  /\ body /\ cur \in Statements
  /\ \/ NextToken(2) /\ UNCHANGED <<pc, body, frames, made, deleted>>
     \/ /\ pc \in {"mockup", "mockup_all"} /\ NextToken(1) /\ cur' = "}"
        /\ UNCHANGED <<pc, body, frames, made, deleted>>
     \/ Throw

EmptyStatement ==
  /\ body /\ cur = ";"
  /\ AfterSemicolon
  /\ UNCHANGED <<pc, body, frames, made, deleted>>

NoStatement == body /\ cur \notin Statements \cup {";", "}", "eof"} /\ Throw

(* A fixture looks at the token after the current one before anything else,
   and there is none after the end of the file. *)
PeekPastEnd ==
  /\ body /\ cur = "eof"
  /\ pc' = "pastEnd"
  /\ UNCHANGED <<cur, left, body, frames, made, deleted>>

ClosePart ==
  /\ body /\ cur = "}"
  /\ NextToken(1)
  /\ PartDone(Built)

(* data { "path"; } *)
ParseTestData ==
  /\ pc = "data" /\ cur = "data"
  /\ \/ NextToken(5) /\ PartDone(Built)
     \/ Throw

(* The call, its expected result and the semicolon. *)
ParseTestFunction ==
  /\ pc = "function"
  /\ \/ cur = "call" /\ NextToken(2) /\ PartDone(Built)
     \/ Throw

(***************************************************************************)
(* The members of a group                                                  *)
(***************************************************************************)

ParseTestDefinition ==
  /\ pc = "tests" /\ cur \notin {"}", "eof", "after_all", "group"}
  /\ pc' = "data"
  /\ UNCHANGED <<cur, left, body, frames, made, deleted>>

(* after_all may not be the first thing after before_all. *)
ParseGroupTeardown ==
  /\ pc = "tests" /\ cur = "after_all"
  /\ IF Top.kids = 0 THEN Throw
     ELSE pc' = "after_all" /\ UNCHANGED <<cur, left, body, frames, made, deleted>>

(* Mutant: the name is not deleted. *)
GivenKept == UNCHANGED deleted

(* The name is copied behind the group's own, and deleted. *)
GivenDeleted == deleted' = deleted (+) SetToBag({Node(NextKid, "given")})

(* The nested call of ParseTestGroup: n tokens make the head of the group. *)
EnterGroup(n) ==
  /\ NextToken(n)
  /\ made' = made \cup {Node(NextKid, "given"), Node(NextKid, "name")}
  /\ GivenDeleted
  /\ frames' = Append([frames EXCEPT ![Len(frames)].named = TRUE], Frame(NextKid))
  /\ pc' = "mockup_all" /\ UNCHANGED body

(* group name { *)
NamedGroup == pc = "tests" /\ cur = "group" /\ EnterGroup(3)

(* group {, the first group of its parent: the name is generated. *)
UnnamedGroup == pc = "tests" /\ cur = "group" /\ ~Top.named /\ EnterGroup(2)

(* group without a brace: the name, fresh or generated, is deleted. *)
GroupWithoutBrace ==
  /\ pc = "tests" /\ cur = "group"
  /\ made' = made \cup {Node(NextKid, "given")}
  /\ deleted' = deleted (+) SetToBag({Node(NextKid, "given")}) (+) Caught(made, frames)
  /\ pc' = "error"
  /\ UNCHANGED <<cur, left, body, frames>>

(* group, no name, and an earlier group in the same parent: new_group_name
   still points to the name of that one, which was deleted. *)
UnnamedSibling ==
  /\ pc = "tests" /\ cur = "group" /\ Top.named
  /\ pc' = "staleName"
  /\ UNCHANGED <<cur, left, body, frames, made, deleted>>

EndOfGroup == pc = "end" \/ (pc = "tests" /\ cur \in {"}", "eof"})

(* The group is constructed and pushed, and the brace is there. *)
LeaveGroup ==
  /\ EndOfGroup /\ Len(frames) > 1 /\ cur = "}"
  /\ NextToken(1)
  /\ made' = made \cup {Node(Top.at, "group")}
  /\ frames' = Pushed(Outer)
  /\ pc' = "tests"
  /\ UNCHANGED <<body, deleted>>

(* The brace is not there: the name and the group, which owns the name, are
   deleted, and then the catch deletes what was pushed. *)
UnclosedGroup ==
  /\ EndOfGroup /\ Len(frames) > 1 /\ cur # "}"
  /\ made' = made \cup {Node(Top.at, "group")}
  /\ frames' = Pushed(Outer)
  /\ deleted' = deleted (+) SetToBag({Node(Top.at, "name")})
                        (+) SetToBag(Owned(made', Top.at))
                        (+) Caught(made', frames')
  /\ pc' = "unclosed"
  /\ UNCHANGED <<cur, left, body>>

(* ParseTestFile has its tree; what follows in the file is not looked at. *)
EndFile ==
  /\ EndOfGroup /\ Len(frames) = 1
  /\ made' = made \cup {Node(<<>>, "group")}
  /\ pc' = "done"
  /\ UNCHANGED <<cur, left, body, frames, deleted>>

Next ==
  \/ SkipPart \/ OpenPart \/ ParseStatement \/ EmptyStatement \/ NoStatement
  \/ PeekPastEnd \/ ClosePart \/ ParseTestData \/ ParseTestFunction
  \/ ParseTestDefinition \/ ParseGroupTeardown
  \/ NamedGroup \/ UnnamedGroup \/ GroupWithoutBrace \/ UnnamedSibling
  \/ LeaveGroup \/ UnclosedGroup \/ EndFile

(* One thread, that does nothing else. *)
Spec == Init /\ [][Next]_vars /\ WF_vars(Next)
-----------------------------------------------------------------------------
(***************************************************************************)
(* Properties                                                              *)
(***************************************************************************)

Live == made \ BagToSet(deleted)

(* The types of the variables. *)
TypeOK ==
  /\ cur \in Tokens \cup {"eof"} /\ left \in 0..MaxTokens
  /\ pc \in DOMAIN Following \cup {"tests", "end"} \cup Ends
  /\ body \in BOOLEAN
  /\ frames \in Seq([at : Seq(Nat), kids : Nat, named : BOOLEAN]) /\ frames # <<>>
  /\ \A n \in made : n.at \in Seq(Nat) /\ n.part \in Parts
  /\ IsABag(deleted) /\ BagToSet(deleted) \subseteq made

(* Whatever is wrong with a file, no node is deleted twice while the parser
   gives up, except in a group that lacks its closing brace: every frame's
   catch deletes finished members, and no two frames hold the same one
   (ParseTestGroup). *)
DeletedOnce ==
  pc # "unclosed" => \A n \in BagToSet(deleted) : deleted[n] = 1

(* When parsing succeeds, the tree and nothing else is left: every node alive
   is owned by a constructed group or test that is alive, up to the root, and
   nothing in the tree has been deleted (TestGroup, TestDefinition). *)
TreeIsWhole ==
  pc = "done" =>
    /\ Live = Owned(made, <<>>)
    /\ \A n \in Live : \A i \in 0..Len(n.at) :
         \E part \in {"group", "test"} : Node(SubSeq(n.at, 1, i), part) \in Live

(* When parsing fails, everything finished has been deleted: what leaks is the
   names of the groups that were open and the parts of the test that was being
   parsed (the catch of ParseTestGroup, "Just cleanup before leaving"). *)
LeaksAreUnfinished ==
  pc = "error" =>
    \A n \in Live :
      \/ n.part = "name" /\ \E i \in 1..Len(frames) : n.at = frames[i].at
      \/ n.part \in TestParts /\ n.at = NextKid

(* The parser ends on every file: each loop eats a token or throws. *)
ParserEnds == <>(pc \in Ends)
=============================================================================
