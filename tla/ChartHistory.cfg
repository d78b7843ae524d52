SPECIFICATION Spec
CONSTANTS
  Limits = {2, 5}
  MaxLimit = 4
  Lookbacks <- MCLookbacks
  Overfetch = 11
  Expansions = 3
  Now = 11
  MaxTime = 12
  MaxFailures = 1
  LastBar = 11
  Period = 8
  Bars = 2
  Calendars <- MCCalendars
INVARIANTS PagesJoin HistoryIsComplete
PROPERTIES HistoryEnds
CHECK_DEADLOCK FALSE
