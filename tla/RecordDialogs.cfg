CONSTANTS
  Records = {a, b}
  New = New
  Blank = Blank
  Self = Self
  MaxOpens = 2
  MaxFaults = 1
SPECIFICATION FairSpec
INVARIANTS TypeOK OwnContents CreatesOwn CancelledEditGone OneSave
PROPERTY SpinnerEnds
CHECK_DEADLOCK FALSE
