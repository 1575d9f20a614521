SPECIFICATION MCSpec
CONSTANTS
  a = a
  b = b
  Ticker = {a, b}
  TickerOrder <- MCOrder
  SeriesOf <- MCSeries
  NONE = NONE
  FillModes = {"next_bar_open", "current_close"}
  StartingCash = 200000
  SlippageBps = 5
  StopPct = 5
  RiskPct = 3
  MaxPositionPct = 60
  MaxTotalExposurePct = 90
  Days = 2
  Ticks = 3
  MaxCandidates = 1
  MaxEvaluations = 3
  Slots = {1}
  ReportDays = 2
  RegimeOf <- MCRegime
  CapDollars = 3
  PerCall = 2
  StartCash = 10
  NoFill = NoFill
  MaxRunDays = 2
INVARIANTS
  CashAddsUp
  FlatBetweenDays
  NoHindsight
  LedgerMatchesBook
  ReportTellsTheRun
