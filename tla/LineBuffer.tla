----------------------------- MODULE LineBuffer -----------------------------
(***************************************************************************)
(* The line being edited: struct current of linenoise and the functions    *)
(* that change it.  jcut builds linenoise without USE_UTF8, so a character *)
(* is a byte and chars is always len.  A line is a record; lines of text   *)
(* are sequences of characters, buf is an array that is zero after its     *)
(* text.                                                                   *)
(***************************************************************************)
EXTENDS Integers, Sequences

CONSTANTS
  Chars,   \* the characters a line may hold, " " among them
  Zero,    \* the character that ends a C string
  BufMax   \* bufmax: the size of buf

ASSUME LineBufferAssumption ==
  /\ Zero \notin Chars
  /\ BufMax \in Nat /\ BufMax >= 3

Lower(a, b) == IF a < b THEN a ELSE b

(* struct current: capture is <<>> for NULL. *)
Line == [buf : [0..BufMax - 1 -> Chars \cup {Zero}], len : 0..BufMax - 1,
         pos : 0..BufMax - 1, capture : Seq(Chars \cup {Zero})]

(* What C's string functions take for the text of the array. *)
CString(c) ==
  LET end == CHOOSE n \in 0..BufMax - 1 :
               c.buf[n] = Zero /\ \A i \in 0..n - 1 : c.buf[i] # Zero
  IN  [i \in 1..end |-> c.buf[i - 1]]

(* strncpy fills the whole array. *)
SetCurrent(c, s) ==
  LET n == Lower(Len(s), BufMax - 1)
  IN  [c EXCEPT !.buf = [i \in 0..BufMax - 1 |-> IF i < n THEN s[i + 1] ELSE Zero],
                !.len = n, !.pos = n]

HasRoom(c, bytes) == c.len + bytes < BufMax - 1

GetChar(c, p) == IF p \in 0..c.len - 1 THEN c.buf[p] ELSE Zero

(* Mutant: the zero at the end is not moved. *)
CutWithoutZero(c, p, n) ==
  [c EXCEPT !.buf = [i \in 0..BufMax - 1 |->
                       IF i \in p..c.len - n - 1 THEN c.buf[i + n] ELSE c.buf[i]],
            !.len = c.len - n,
            !.pos = IF c.pos <= p THEN c.pos ELSE IF c.pos - n < p THEN p ELSE c.pos - n]

(* n times remove_char at p, all of them inside the line: the bytes up to the
   zero at len move, and the cursor moves back unless it is at p already. *)
Cut(c, p, n) ==
  [c EXCEPT !.buf = [i \in 0..BufMax - 1 |->
                       IF i \in p..c.len THEN c.buf[Lower(i + n, c.len)] ELSE c.buf[i]],
            !.len = c.len - n,
            !.pos = IF c.pos <= p THEN c.pos ELSE IF c.pos - n < p THEN p ELSE c.pos - n]

RemoveChar(c, p) == IF p \in 0..c.len - 1 THEN Cut(c, p, 1) ELSE c

(* Mutant: what is removed is not captured. *)
NotCaptured(c, p, n) == c

(* capture_chars *)
Capture(c, p, n) ==
  IF p >= 0 /\ n > 0 /\ p + n - 1 < c.len
  THEN [c EXCEPT !.capture = [i \in 1..n |-> c.buf[p + i - 1]]]
  ELSE c

RemoveChars(c, p, n) == Cut(Capture(c, p, n), p, n)

(* has_room is asked for each character. *)
Fitting(c, s) == Lower(Len(s), IF HasRoom(c, 1) THEN BufMax - 2 - c.len ELSE 0)

(* insert_chars: insert_char for every character there is room for.  The zero
   at the end is not moved: the bytes behind it are zero as well. *)
InsertChars(c, p, s) ==
  LET k == Fitting(c, s)
  IN  IF p \notin 0..c.len THEN c
      ELSE [c EXCEPT !.buf = [i \in 0..BufMax - 1 |->
                                IF i \in p..p + k - 1 THEN s[i - p + 1]
                                ELSE IF i \in p + k..c.len + k - 1 THEN c.buf[i - k]
                                ELSE c.buf[i]],
                     !.len = c.len + k,
                     !.pos = IF c.pos >= p THEN c.pos + k ELSE c.pos]

InsertChar(c, p, ch) == InsertChars(c, p, <<ch>>)

(* The capture buffer is read as a C string. *)
UpToZero(s) ==
  LET n == CHOOSE n \in 0..Len(s) : /\ \A i \in 1..n : s[i] # Zero
                                    /\ n < Len(s) => s[n + 1] = Zero
  IN  SubSeq(s, 1, n)

(* ctrl-Y *)
Yanked(c) == InsertChars(c, c.pos, UpToZero(c.capture))

(* The line is followed by zeros up to the end of the array. *)
Terminated(c) ==
  /\ c.pos <= c.len
  /\ \A i \in 0..BufMax - 1 : i >= c.len => c.buf[i] = Zero

(* No zero between two places of the line: ctrl-V can put one there. *)
TextIn(c, from, to) == \A i \in from..to - 1 : c.buf[i] # Zero
IsText(c) == TextIn(c, 0, c.len)
=============================================================================
