SPECIFICATION FairSpec
CONSTANTS
  None = None
  HIDE_REPORT_AFTER = 2
  Intervals = {2}
  Period = 2
  MaxEvents = 1
  Generations = 2
  MaxChanges = 2
INVARIANTS
  ChangeReported
  PeriodKept
PROPERTIES
  HiddenWhenUp
  EventuallyHidden
  HeldExactly
