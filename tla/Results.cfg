SPECIFICATION Spec
CONSTANTS
  Width = 4
  PtrWidth = 6
  NaN = NaN
  Cases <- MCCases
  NoER = NoER
  CaptureSize = 4
  BufferSize = 37
  Tails <- MCTails
INVARIANTS TypeOK VerdictArrives ReportIsWhole  SummaryIsTrue
CHECK_DEADLOCK FALSE
