---------------------------- MODULE LineDisplay ----------------------------
(***************************************************************************)
(* The row of the terminal that shows the line being edited.  refreshLine  *)
(* draws it anew, without the beginning of a line that is too long; a      *)
(* character added or removed at the end is written to the terminal alone. *)
(* A line is here a sequence of characters, p the cursor's position.       *)
(***************************************************************************)
EXTENDS Lists, SequencesExt, FiniteSetsExt

CONSTANTS
  Control,    \* control characters, shown as ^ and a letter in two columns
  PromptCols, \* columns of the prompt
  Cols        \* columns of the window

ASSUME LineDisplayAssumption == PromptCols \in Nat /\ Cols \in Nat /\ PromptCols < Cols

(* Control characters among the first n of s, and the columns of those n. *)
Controls(s, n) == Cardinality({i \in 1..n : s[i] \in Control})
Width(s, n) == n + Controls(s, n)

(* What is written for the characters s. *)
Cells(s) == Flat([i \in 1..Len(s) |-> IF s[i] \in Control THEN <<"^", s[i]>> ELSE <<s[i]>>])

(* The columns that are asked for: a control character takes two only up to the
   cursor. *)
Needed(s, p) == PromptCols + Len(s) + Controls(s, Min({p + 1, Len(s)}))

(* As many characters go off the front as are needed, none from the cursor on. *)
Stripped(s, p) ==
  LET fits == {k \in 0..p : Needed(s, p) - Width(s, k) < Cols}
  IN  IF fits = {} THEN p ELSE Min(fits)

(* The characters that are written: up to the last column. *)
Shown(s) == {i \in 1..Len(s) : PromptCols + i - 1 + Controls(s, i) < Cols}

PromptCells == [i \in 1..PromptCols |-> ">"]

(* Mutant: the cursor is put without regard to control characters. *)
RefreshedPlain(s, p) ==
  LET k == Stripped(s, p)
      rest == SubSeq(s, k + 1, Len(s))
  IN  [row |-> PromptCells \o Cells(SubSeq(rest, 1, Cardinality(Shown(rest)))),
       cursor |-> PromptCols + p - k]

(* refreshLine: the row and the cursor; backup is counted over the characters
   before the cursor that were written. *)
Refreshed(s, p) ==
  LET k == Stripped(s, p)
      rest == SubSeq(s, k + 1, Len(s))
      written == Cardinality(Shown(rest))
      backup == Controls(rest, Min({p - k, written}))
  IN  [row |-> PromptCells \o Cells(SubSeq(rest, 1, written)), cursor |-> PromptCols + p - k + backup]

(* Mutant: room for the character is enough. *)
FitsWithout(s) == PromptCols + Len(s) < Cols

(* The shortcuts are for printable characters, where "no scrolling is needed":
   the guards count the characters of the line, not its columns. *)
NoScrolling(s) == PromptCols + Len(s) < Cols - 1

(* insert_char at the end: the character alone is written. *)
Written(r, ch) == [row |-> Append(SubSeq(r.row, 1, r.cursor), ch), cursor |-> r.cursor + 1]

(* remove_char of the last character: its column is blanked. *)
Blanked(r) == [row |-> SubSeq(r.row, 1, r.cursor - 1), cursor |-> r.cursor - 1]

-----------------------------------------------------------------------------
(* A refresh draws no more than the window is wide, and it leaves the cursor
   inside the window, on the column of the character it is at, whatever part of
   the line was left out and whatever control characters are in it. *)
DrawnInside(s, p) ==
  LET r == Refreshed(s, p)
      before == SubSeq(s, Stripped(s, p) + 1, p)
  IN  /\ Len(r.row) <= Cols /\ r.cursor < Cols
      /\ SubSeq(r.row, 1, r.cursor) = PromptCells \o Cells(before)

(* With the cursor at the end of the line, a shortcut leaves the terminal as a
   refresh of the new line would, unless the line has control characters and
   their second columns fill the window.  There the guards, which count bytes,
   let a shortcut write where a refresh has to scroll (linenoise.c:927 and 967). *)
ShortcutsAgree(s, ch) ==
  NoScrolling(s) /\ (Controls(s, Len(s)) = 0 \/ PromptCols + Width(s, Len(s)) < Cols - 1) =>
    /\ ch \notin Control => Written(Refreshed(s, Len(s)), ch) = Refreshed(Append(s, ch), Len(s) + 1)
    /\ s # <<>> /\ Last(s) \notin Control =>
         Blanked(Refreshed(s, Len(s))) = Refreshed(Front(s), Len(s) - 1)
=============================================================================
