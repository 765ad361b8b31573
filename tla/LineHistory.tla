---------------------------- MODULE LineHistory ----------------------------
(***************************************************************************)
(* What the editor's user may rely on: a line that was entered stays in    *)
(* the history, in its place, until the user edits it, it is the oldest of *)
(* a full history, or it is empty and the last.  A new process begins with *)
(* the lines of the last save.                                             *)
(***************************************************************************)
EXTENDS Integers, Sequences, SequencesExt

CONSTANT MaxLines \* entries of a full history

VARIABLES
  lines, \* the lines the user can go back to
  saved  \* the lines of the file

(* The lines, without those that repeat the one before them. *)
NoRepeats(h) ==
  LET kept[n \in 0..Len(h)] ==
        IF n = 0 THEN <<>>
        ELSE IF n > 1 /\ h[n] = h[n - 1] THEN kept[n - 1]
        ELSE Append(kept[n - 1], h[n])
  IN  kept[Len(h)]

Init == lines = <<>> /\ saved = <<>>

(* A line is entered and all are saved; one that repeats the last is not added,
   and a full history gives up its oldest line for it. *)
Enter ==
  /\ lines' # <<>> /\ saved' = lines'
  /\ lines' # lines =>
       lines' = Append(IF Len(lines) = MaxLines THEN Tail(lines) ELSE lines, Last(lines'))

Rewrite(k) ==
  /\ Len(lines') = Len(lines) /\ UNCHANGED saved
  /\ \A i \in 1..Len(lines) \ {k} : lines'[i] = lines[i]

(* A full history gives up its oldest line to have room for the next one. *)
Forget == Len(lines) = MaxLines /\ lines' = Tail(lines) /\ UNCHANGED saved

DropEmpty == lines # <<>> /\ Last(lines) = <<>> /\ lines' = Front(lines) /\ UNCHANGED saved

Leave == lines' = <<>> /\ UNCHANGED saved
Restart == lines = <<>> /\ lines' = NoRepeats(saved) /\ UNCHANGED saved

Next ==
  \/ Enter \/ \E k \in 1..Len(lines) : Rewrite(k)
  \/ Forget \/ DropEmpty \/ Leave \/ Restart

Spec == Init /\ [][Next]_<<lines, saved>>
=============================================================================
