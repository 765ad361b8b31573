---------------------------- MODULE MCLineEditor ----------------------------
EXTENDS LineEditor

(* Written here: a configuration file has no escape for the backslash. *)
MCChars == {"a", " ", "\\", "n", "nl", "tab", "ctrl-V"}

(* A line that begins with "a" may be completed in two ways. *)
MCCompletions ==
  [ch \in Chars |-> IF ch = "a" THEN <<<<"a", "a">>, <<"a", "a", "a">>>> ELSE <<>>]

(* Who edits one line, who goes through the history, who searches it on a slow
   connection, and who enters lines with characters the file has to escape. *)
MCKeyboards ==
  {{"a", " ", "backspace", "delete", "ctrl-W", "ctrl-T", "left", "right", "home", "end",
    "ctrl-U", "ctrl-K", "ctrl-Y", "ctrl-V", "ctrl-L", "ctrl-D", "ctrl-C", "tab", "insert"},
   {"a", "enter", "up", "down", "page_up", "page_down"},
   {"a", "ctrl-J", "up", "ctrl-R", "ctrl-G"},
   {"a", "enter", "down", "ctrl-R", "backspace", "esc", "none", "late", "eof"},
   {"\\", "n", "enter"}, {"\\", "enter", "ctrl-V"}}
=============================================================================
