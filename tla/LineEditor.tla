----------------------------- MODULE LineEditor -----------------------------
(***************************************************************************)
(* linenoise, the line editor of the interpreter: a prompt, the keys that  *)
(* edit a line, the history whose last entry stands for the line being     *)
(* edited, reverse search, completion, and the history file that           *)
(* Interpreter::mainLoop writes after every line and reads at the start.   *)
(* A key is what one read gives: a character, a control key, or a sequence *)
(* that begins with escape, as check_special classifies it.                *)
(***************************************************************************)
EXTENDS LineBuffer, LineDisplay

CONSTANTS
  Keyboards,   \* bound: the sets of keys a user presses, of AllKeys
  Verbatim,    \* the characters typed after ctrl-V
  HistoryMax,  \* history_max_len
  SearchSize,  \* size of rbuf, the array of the text that is searched for
  SearchSlack, \* by how much the check of its limit is late
  Completions, \* what completionCallBack offers, by the line's first character
  MaxPlain     \* bound: length of a line read when there is no terminal

(* Keys that arrive as one byte; ctrl-B and left, ctrl-P and up, ctrl-A and
   home and so on are the same case of the switch.  "eof" is a read that fails. *)
ByteKeys ==
  {"enter", "ctrl-J", "ctrl-C", "backspace", "ctrl-D", "ctrl-W", "ctrl-R", "ctrl-T",
   "ctrl-V", "left", "right", "up", "down", "home", "end", "ctrl-U", "ctrl-K",
   "ctrl-Y", "ctrl-L", "ctrl-G", "tab", "eof"}

(* What check_special returns after an escape: a special key, "esc" when
   nothing follows within its time, "none" for a sequence it does not know and
   "late" (-1) when only the first character of a sequence comes in time. *)
EscapeKeys ==
  {"up", "down", "left", "right", "home", "end", "delete", "insert", "page_up",
   "page_down", "esc", "none", "late"}

AllKeys == ByteKeys \cup EscapeKeys \cup Chars

ASSUME LineEditorAssumption ==
  /\ Keyboards \subseteq SUBSET AllKeys /\ Control \subseteq Chars
  /\ {" ", "tab", "ctrl-V", "nl", "\\", "n"} \subseteq Chars /\ ("cr" \in Chars <=> "r" \in Chars)
  /\ Verbatim \subseteq Chars \cup {Zero}
  /\ (ByteKeys \cup EscapeKeys) \cap Chars \subseteq {"tab", "ctrl-V"}
  /\ HistoryMax \in Nat \ {0} /\ MaxPlain \in Nat
  /\ SearchSize \in Nat \ {0} /\ SearchSlack \in Nat
  /\ Completions \in [Chars -> Seq(Seq(Chars))]

VARIABLES
  mode,          \* "idle" in mainLoop, "closed", or what linenoiseEdit waits for:
                 \* "edit", "search", "complete", "verbatim"
  current,       \* the line being edited
  history,       \* the lines of the history, the scratch entry included
  history_index, \* the entry shown, counted from the last
  rbuf,          \* the text searched for
  searchpos,     \* where the search stands, -1 .. Len(history)
  choice,        \* the completion shown
  file,          \* jcut-history.txt: the lines of the last save
  terminal,      \* standard input is a terminal
  keys           \* the keys of this user

vars == <<mode, current, history, history_index, rbuf, searchpos, choice, file, terminal, keys>>

(* enableRawMode, asked by every call of linenoise. *)
RawMode == terminal

Typed == Chars \ Control
Escapes == keys \cap EscapeKeys
Text == CString(current)
EmptyLine == [buf |-> [i \in 0..BufMax - 1 |-> Zero], len |-> 0, pos |-> 0, capture |-> <<>>]

(* linenoiseHistoryAdd *)
HistoryAdd(h, line) ==
  IF h # <<>> /\ Last(h) = line THEN h
  ELSE Append(IF Len(h) = HistoryMax THEN Tail(h) ELSE h, line)

-----------------------------------------------------------------------------
(* The history file. *)

(* linenoiseHistorySave of a line, character by character. *)
Escaped(ch) ==
  CASE ch = "\\" -> <<"\\", "\\">>
    [] ch = "nl" -> <<"\\", "n">>
    [] ch = "cr" -> <<"\\", "r">>
    [] OTHER -> <<ch>>

Encode(line) ==
  LET out[n \in 0..Len(line)] == IF n = 0 THEN <<>> ELSE out[n - 1] \o Escaped(line[n])
  IN  out[Len(line)]

(* fgets: a line of the file in pieces that fit the buffer. *)
Pieces(bytes) ==
  [k \in 1..((Len(bytes) + BufMax - 2) \div (BufMax - 1)) |->
     SubSeq(bytes, (k - 1) * (BufMax - 1) + 1, Lower(k * (BufMax - 1), Len(bytes)))]

(* Mutant: a backslash is only dropped. *)
DropEscapes(piece) ==
  LET kept == SelectSeq(piece, LAMBDA ch : ch # "\\")
  IN  IF kept # <<>> /\ Last(kept) = "nl" THEN Front(kept) ELSE kept

(* The decoding loop of linenoiseHistoryLoad: what it keeps of each character. *)
DecodeChar(s, ch) ==
  IF s.escaped
  THEN [escaped |-> FALSE,
        text |-> Append(s.text, IF ch = "n" THEN "nl" ELSE IF ch = "r" THEN "cr" ELSE ch)]
  ELSE IF ch = "\\" THEN [s EXCEPT !.escaped = TRUE]
  ELSE [s EXCEPT !.text = Append(@, ch)]

(* A backslash that ends a full piece takes the zero behind it for the character
   it escapes, which ends the text, and the loop goes on behind the array.  What
   it moves there is undefined; it comes after that zero, and a process that dies
   of it has not been restarted. *)
Decode(piece) ==
  LET state[n \in 0..Len(piece)] ==
        IF n = 0 THEN [escaped |-> FALSE, text |-> <<>>] ELSE DecodeChar(state[n - 1], piece[n])
      end == state[Len(piece)]
  IN  IF ~end.escaped /\ end.text # <<>> /\ Last(end.text) \in {"nl", "cr"}
      THEN Front(end.text)
      ELSE end.text

(* linenoiseHistoryLoad: one line of the file, and the file of these lines. *)
LoadLine(h, line) ==
  LET pieces == Pieces(Append(Encode(line), "nl"))
      got[n \in 0..Len(pieces)] ==
        IF n = 0 THEN h ELSE HistoryAdd(got[n - 1], Decode(pieces[n]))
  IN  got[Len(pieces)]

HistoryLoad(lines) ==
  LET loaded[n \in 0..Len(lines)] ==
        IF n = 0 THEN <<>> ELSE LoadLine(loaded[n - 1], lines[n])
  IN  loaded[Len(lines)]

-----------------------------------------------------------------------------
(* linenoise and the loop around it. *)

Init ==
  /\ mode = "idle" /\ current = EmptyLine
  /\ history = <<>> /\ history_index = 0
  /\ rbuf = <<>> /\ searchpos = -1 /\ choice = 0
  /\ file = <<>> /\ terminal \in BOOLEAN /\ keys \in Keyboards

(* The locals of a search and of a completion end with it. *)
Forget == rbuf' = <<>> /\ searchpos' = -1 /\ choice' = 0
searching == <<rbuf, searchpos, choice>>

(* mainLoop with the line that linenoise returns: what is not empty goes into
   the history, which is saved. *)
Returned(h, line) ==
  /\ history' = IF line = <<>> THEN h ELSE HistoryAdd(h, line)
  /\ file' = IF line = <<>> THEN file ELSE history'
  /\ mode' = "idle" /\ current' = EmptyLine
  /\ history_index' = 0 /\ Forget
  /\ UNCHANGED <<terminal, keys>>

(* The beginning of linenoiseEdit: an empty entry stands for the new line. *)
Prompt ==
  /\ mode = "idle" /\ RawMode
  /\ history' = HistoryAdd(history, <<>>)
  /\ current' = SetCurrent(EmptyLine, <<>>) /\ mode' = "edit"
  /\ UNCHANGED <<history_index, searching, file, terminal, keys>>

(* linenoise without a terminal: fgets, and no history entry for the line. *)
PlainLine ==
  /\ mode = "idle" /\ ~RawMode
  /\ \E line \in BoundedSeq(Typed, Lower(MaxPlain, BufMax - 1)) : Returned(history, line)

(* NULL from linenoise or /exit: the loop ends; linenoiseAtExit frees the
   history. *)
Close ==
  /\ mode' = "closed" /\ current' = EmptyLine
  /\ history' = <<>> /\ history_index' = 0 /\ Forget
  /\ UNCHANGED <<file, terminal, keys>>

Exit == mode = "idle" /\ Close

(* jcut is started again: the history is read from the file. *)
Restart ==
  /\ mode = "closed"
  /\ history' = HistoryLoad(file) /\ mode' = "idle"
  /\ UNCHANGED <<current, history_index, searching, file, terminal, keys>>

-----------------------------------------------------------------------------
(* The switch of linenoiseEdit: key k is processed with the line c. *)

Edited(c) ==
  /\ current' = c /\ mode' = "edit"
  /\ Forget
  /\ UNCHANGED <<history, history_index, file, terminal, keys>>

(* Mutant: the scratch entry is left in the history. *)
ScratchKept == history

(* The scratch entry goes. *)
ScratchPopped == Front(history)

(* Enter; ctrl-J also sets ctrl_j_pressed for the loop. *)
Enter(k, c) == k \in {"enter", "ctrl-J"} /\ Returned(ScratchPopped, CString(c))

Interrupt(k) == k = "ctrl-C" /\ Close

Backspace(k, c) == k = "backspace" /\ Edited(RemoveChar(c, c.pos - 1))

EndOfFile(k, c) == k = "ctrl-D" /\ c.len = 0 /\ Close

Delete(k, c) ==
  /\ k = "delete" \/ (k = "ctrl-D" /\ c.len > 0)
  /\ Edited(RemoveChar(c, c.pos))

(* Where the word to the left of the cursor begins, spaces after it included. *)
WordStart(c) ==
  LET blank(i) == c.buf[i] = " "
      word == {i \in 0..c.pos - 1 : ~blank(i)}
      stops == {i \in 1..c.pos : blank(i - 1) /\ \E j \in word : j >= i}
  IN  IF \E i \in stops : TRUE THEN CHOOSE i \in stops : \A j \in stops : j <= i ELSE 0

KillWord(k, c) == k = "ctrl-W" /\ Edited(RemoveChars(c, WordStart(c), c.pos - WordStart(c)))
KillToStart(k, c) == k = "ctrl-U" /\ Edited(RemoveChars(c, 0, c.pos))
KillToEnd(k, c) == k = "ctrl-K" /\ Edited(RemoveChars(c, c.pos, c.len - c.pos))

Yank(k, c) == k = "ctrl-Y" /\ Edited(Yanked(c))

(* ctrl-T, at the end of the line for the two characters before it; the second
   position is taken after the character has been removed. *)
Transposed(c) ==
  LET at == c.pos - (IF c.pos = c.len THEN 1 ELSE 0)
      without == RemoveChar(c, at)
  IN  IF c.pos > 0 THEN InsertChar(without, without.pos - 1, GetChar(c, at)) ELSE c

Transpose(k, c) == k = "ctrl-T" /\ Edited(Transposed(c))

(* ctrl-V, with the line as it is until the next character has been read. *)
Quote(k, c) ==
  /\ k = "ctrl-V"
  /\ current' = IF HasRoom(c, 3) THEN InsertChar(c, c.pos, "ctrl-V") ELSE c
  /\ mode' = IF HasRoom(c, 3) THEN "verbatim" ELSE "edit"
  /\ Forget
  /\ UNCHANGED <<history, history_index, file, terminal, keys>>

Move(k, c) ==
  \/ k = "left"  /\ Edited([c EXCEPT !.pos = IF c.pos > 0 THEN c.pos - 1 ELSE 0])
  \/ k = "right" /\ Edited([c EXCEPT !.pos = Lower(c.pos + 1, c.len)])
  \/ k = "home"  /\ Edited([c EXCEPT !.pos = 0])
  \/ k = "end"   /\ Edited([c EXCEPT !.pos = c.len])

(* Mutant: the line is not put into the entry it came from. *)
NotSaved(h, index, c) == h

(* The line goes back into the entry that is shown. *)
SaveShown(h, index, c) == [h EXCEPT ![Len(h) - index] = CString(c)]

(* Mutant: past the oldest entry there is no stop. *)
NavigatedBeyond(h, index, c, dir) ==
  LET saved == SaveShown(h, index, c)
      n == index + dir
  IN  IF Len(h) <= 1 THEN [history |-> h, index |-> index, line |-> c]
      ELSE [history |-> saved, index |-> n,
            line |-> IF n \in 0..Len(h) - 1 THEN SetCurrent(c, saved[Len(h) - n]) ELSE c]

(* history_navigation: dir entries towards the past. *)
Navigated(h, index, c, dir) ==
  LET n == index + dir
      i == IF n < 0 THEN 0 ELSE Lower(n, Len(h) - 1)
      saved == SaveShown(h, index, c)
  IN  IF Len(h) <= 1 THEN [history |-> h, index |-> index, line |-> c]
      ELSE [history |-> saved, index |-> i,
            line |-> IF i = n THEN SetCurrent(c, saved[Len(h) - i]) ELSE c]

Navigate(k, c) ==
  \E dir \in {IF k = "page_up" THEN Len(history) - history_index - 1
              ELSE IF k = "page_down" THEN -history_index
              ELSE IF k = "up" THEN 1 ELSE -1} :
    /\ k \in {"page_up", "page_down", "up", "down"}
    /\ history' = Navigated(history, history_index, c, dir).history
    /\ history_index' = Navigated(history, history_index, c, dir).index
    /\ current' = Navigated(history, history_index, c, dir).line
    /\ mode' = "edit"
    /\ Forget
    /\ UNCHANGED <<file, terminal, keys>>

(* ctrl-R: the search begins at the newest entry. *)
StartSearch(k, c) ==
  /\ k = "ctrl-R"
  /\ mode' = "search" /\ rbuf' = <<>> /\ searchpos' = Len(history) - 1
  /\ current' = c /\ choice' = 0
  /\ UNCHANGED <<history, history_index, file, terminal, keys>>

(* The default: a tab or a printable character. *)
TypeChar(k, c) == k \in Typed \cup {"tab"} /\ Edited(InsertChar(c, c.pos, k))

(* Keys that do nothing here; ctrl-L paints the line again. *)
Ignore(k, c) == k \in {"insert", "esc", "none", "late", "ctrl-L", "ctrl-G"} /\ Edited(c)

ProcessChar(k, c) ==
  \/ Enter(k, c) \/ Interrupt(k) \/ EndOfFile(k, c)
  \/ Backspace(k, c) \/ Delete(k, c)
  \/ KillWord(k, c) \/ KillToStart(k, c) \/ KillToEnd(k, c) \/ Yank(k, c)
  \/ Transpose(k, c) \/ Quote(k, c) \/ Move(k, c) \/ Navigate(k, c)
  \/ StartSearch(k, c) \/ TypeChar(k, c) \/ Ignore(k, c)

(* A read that fails returns the line as it is. *)
ReadFails ==
  /\ mode \in {"edit", "search", "complete"} /\ "eof" \in keys
  /\ Returned(history, Text)

(* A key at the prompt.  A tab at the end of the line asks for completions. *)
Completed == IF Text = <<>> THEN <<>> ELSE Completions[Text[1]]

EditKey ==
  /\ mode = "edit"
  /\ \E k \in keys : (k = "tab" => current.pos < current.len) /\ ProcessChar(k, current)

(* completeLine: with nothing to offer the key is dropped. *)
StartCompletion ==
  /\ mode = "edit" /\ "tab" \in keys /\ current.pos = current.len
  /\ mode' = IF Completed = <<>> THEN "edit" ELSE "complete"
  /\ choice' = 0
  /\ UNCHANGED <<current, history, history_index, rbuf, searchpos, file, terminal, keys>>

(* Tab shows the next completion and, after the last one, the line itself. *)
NextCompletion ==
  /\ mode = "complete" /\ choice' = (choice + 1) % (Len(Completed) + 1)
  /\ UNCHANGED <<mode, current, history, history_index, rbuf, searchpos, file, terminal, keys>>

(* The line with what is shown. *)
Taken == IF choice < Len(Completed) THEN SetCurrent(current, Completed[choice + 1]) ELSE current

(* Escape goes back to the line, every other byte takes what is shown; then
   linenoiseEdit processes the key.  The rest of a sequence that begins with
   escape is read there. *)
LeaveCompletion ==
  /\ mode = "complete"
  /\ \E k \in keys \ {"tab"} :
       \/ k \in Escapes /\ ProcessChar(k, current)
       \/ k \in ByteKeys \cup Chars /\ ProcessChar(k, Taken)

(* After ctrl-V: the character replaces the ^V.  An error leaves it out. *)
QuotedChar ==
  /\ mode = "verbatim"
  /\ LET c == RemoveChar(current, current.pos - 1)
     IN  \/ "eof" \in keys /\ Edited(c)
         \/ \E ch \in Verbatim : Edited(InsertChar(c, c.pos, ch))

-----------------------------------------------------------------------------
(* Reverse search. *)

(* strstr: the offset of the first occurrence of s in line. *)
Occurs(s, line) == {i \in 0..Len(line) - Len(s) : SubSeq(line, i + 1, i + Len(s)) = s}
FirstOf(S) == CHOOSE i \in S : \A j \in S : i <= j
LastOf(S)  == CHOOSE i \in S : \A j \in S : j <= i

(* The entries the loop stops at, from position from in direction dir; one that
   is the line already is skipped when another match was asked for. *)
Hits(s, from, dir, skipsame) ==
  {i \in 0..Len(history) - 1 :
     /\ IF dir = -1 THEN i <= from ELSE i >= from
     /\ Occurs(s, history[i + 1]) # {}
     /\ ~(skipsame /\ history[i + 1] = Text)}

(* Mutant: a character without a match stays in the text searched for. *)
KeptWithoutMatch(s, found) == s

(* A character without a match is taken out of the text again. *)
SearchedFor(s, found) == IF found \/ s = rbuf THEN s ELSE rbuf

(* The first hit becomes the line, with the cursor at the match. *)
Search(s, from, dir, skipsame) ==
  LET hits == Hits(s, from, dir, skipsame)
      hit == IF dir = -1 THEN LastOf(hits) ELSE FirstOf(hits)
      shown == SetCurrent(current, history[hit + 1])
      outside == from \notin 0..Len(history) - 1
  IN  /\ rbuf' = SearchedFor(s, hits # {})
      /\ IF hits = {} \/ outside
         THEN /\ current' = current
              /\ searchpos' = IF outside THEN from ELSE IF dir = -1 THEN -1 ELSE Len(history)
         ELSE /\ current' = [shown EXCEPT !.pos = FirstOf(Occurs(s, history[hit + 1]))]
              /\ searchpos' = hit
      /\ UNCHANGED <<mode, history, history_index, choice, file, terminal, keys>>

(* rbuf is an array, and its limit is checked late: the zero behind the text and
   then characters of it are written past its end.  The process may die of that;
   else the text is as long as it was typed. *)
SearchLimit == SearchSize + SearchSlack

SearchChar ==
  /\ Typed \cap keys # {}
  /\ \/ Len(rbuf) >= SearchLimit /\ UNCHANGED vars
     \/ /\ Len(rbuf) < SearchLimit
        /\ \/ \E ch \in Typed \cap keys : Search(Append(rbuf, ch), Len(history) - 1, -1, FALSE)
           \/ Len(rbuf) + 1 >= SearchSize /\ Close

SearchKey ==
  /\ mode = "search"
  /\ \/ SearchChar
     \/ "up" \in keys /\ Search(rbuf, IF searchpos > 0 THEN searchpos - 1 ELSE searchpos, -1, TRUE)
     \/ "down" \in keys /\ Search(rbuf, Lower(searchpos + 1, Len(history)), 1, TRUE)
     \/ /\ "backspace" \in keys
        /\ rbuf' = IF rbuf = <<>> THEN <<>> ELSE Front(rbuf)
        /\ UNCHANGED <<mode, current, history, history_index, searchpos, choice, file, terminal, keys>>

(* ctrl-G and ctrl-C empty the line, ctrl-J leaves the line that was found. *)
StopSearch ==
  /\ mode = "search"
  /\ \/ {"ctrl-G", "ctrl-C"} \cap keys # {} /\ Edited(SetCurrent(current, <<>>))
     \/ "ctrl-J" \in keys /\ Edited(current)

(* Every other key ends the search and is processed; after an escape alone the
   rest of a sequence is looked for again.  A -1 from check_special returns the
   line: what a failed read does. *)
LeaveSearch ==
  /\ mode = "search"
  /\ \/ \E k \in keys \ (Typed \cup {"up", "down", "backspace", "ctrl-G", "ctrl-C", "ctrl-J", "late"}) :
          ProcessChar(k, current)
     \/ "esc" \in keys /\ \E k \in Escapes : ProcessChar(k, current)
     \/ "late" \in keys /\ Returned(history, Text)

Next ==
  \/ Prompt \/ PlainLine \/ Exit \/ Restart
  \/ EditKey
  \/ StartCompletion \/ NextCompletion \/ LeaveCompletion
  \/ QuotedChar \/ ReadFails
  \/ SearchKey \/ StopSearch \/ LeaveSearch

Spec == Init /\ [][Next]_vars

-----------------------------------------------------------------------------
(* The lines of the history: all entries but, at the prompt, the scratch. *)
Remembered == IF mode \in {"idle", "closed"} THEN history ELSE Front(history)

Lines == INSTANCE LineHistory
           WITH MaxLines <- HistoryMax, lines <- Remembered, saved <- file

TypeOK ==
  /\ mode \in {"idle", "closed", "edit", "search", "complete", "verbatim"}
  /\ current \in Line
  /\ history \in Seq(Seq(Chars)) /\ Len(history) <= HistoryMax
  /\ file \in Seq(Seq(Chars))
  /\ mode \notin {"idle", "closed"} => history # <<>> /\ history_index \in 0..Len(history) - 1
  /\ rbuf \in Seq(Chars) /\ Len(rbuf) <= SearchLimit /\ searchpos \in -1..Len(history) /\ choice \in Nat
  /\ terminal \in BOOLEAN

(* "Always null terminated" (struct current): insert_char moves the characters
   behind the cursor but not the zero after them, so the line ends in a zero only
   because every other operation leaves zeros up to the end of the array. *)
LineIsTerminated == Terminated(current)

(* What a kill takes away, ctrl-Y at once brings back, whatever was killed before,
   unless a NUL is killed, where the yank stops, or the line, from the history
   file, is longer by one than a typed one can be. *)
KillYankRestores ==
  mode = "edit" /\ current.len < BufMax - 1 =>
    \A k \in {<<WordStart(current), current.pos>>, <<0, current.pos>>, <<current.pos, current.len>>} :
      k[1] < k[2] /\ TextIn(current, k[1], k[2]) =>
        Yanked(RemoveChars(current, k[1], k[2] - k[1])).buf = current.buf

(* The characters of the line, for the display. *)
Characters == [i \in 1..current.len |-> current.buf[i - 1]]

(* What refreshLine draws of the line: inside the window, with the cursor on its
   character, and what the shortcuts for the last character leave, where the
   columns of the line's control characters do not fill the window. *)
DisplayShowsLine ==
  mode \in {"edit", "verbatim"} /\ IsText(current) =>
    /\ DrawnInside(Characters, current.pos)
    /\ \A ch \in Chars : ShortcutsAgree(Characters, ch)

(* A look at another entry and back shows the line as it was: history_navigation
   writes the line into the entry shown before it leaves it. *)
BrowsingKeepsLine ==
  mode = "edit" /\ IsText(current) =>
    \A dir \in {1, -1} :
      LET away == Navigated(history, history_index, current, dir)
          back == Navigated(away.history, away.index, away.line, -dir)
      IN  away.index # history_index =>
            back.index = history_index /\ back.line.buf = current.buf

(* In a reverse search the line on the screen contains the text that is searched
   for, whatever was typed, taken back, or looked for further up and down, and
   where the text has been written past its array without harm. *)
SearchShowsMatch == mode = "search" => Occurs(rbuf, Text) # {}

(* The lines of the file fit the buffer, with their escapes and the newline. *)
LinesFit == \A i \in 1..Len(file) : Len(Encode(file[i])) < BufMax - 1

(* Of lines that fit, the file gives back every one as it was saved, whatever
   characters ctrl-V has put into it, but for repeated lines. *)
SavedHistoryReadsBack ==
  mode = "closed" /\ LinesFit => HistoryLoad(file) = Lines!NoRepeats(file)

(* Every line stays in the history as LineHistory promises: the scratch entry is
   the only one that comes and goes, through searches, browsing, the end of the
   line and a new process.  A line that a failed read returns leaves the scratch
   entry behind, and a saved line too long for the buffer comes back in pieces:
   nothing is promised there. *)
KeepsHistory ==
  [][keys \cap {"late", "eof"} = {} /\ LinesFit => [Lines!Next]_<<Remembered, file>>]_vars
=============================================================================
