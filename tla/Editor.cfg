SPECIFICATION Spec
CONSTANTS
  Chars <- MCChars
  Control = {"nl", "tab", "ctrl-V"}
  Zero = "zero"
  BufMax = 5
  PromptCols = 1
  Cols = 4
  Keyboards <- MCKeyboards
  Verbatim = {"nl", "zero"}
  HistoryMax = 3
  SearchSize = 2
  SearchSlack = 1
  Completions <- MCCompletions
  MaxPlain = 1
INVARIANTS TypeOK LineIsTerminated KillYankRestores DisplayShowsLine BrowsingKeepsLine SearchShowsMatch SavedHistoryReadsBack
PROPERTY KeepsHistory
