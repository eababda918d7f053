\* The shell with a child that may crash, hang or exit at any point, probes that
\* may be answered, refused or time out, and a user who clicks anything.
CONSTANTS
  MaxRetries = 3
  WinIds = {w1, w2, w3}

SPECIFICATION FairSpec

INVARIANTS
  NoOrphan
  OneWindow
  OneProbeChain

PROPERTIES
  StartupSettles
  QuitExits

\* The shell ends.
CHECK_DEADLOCK FALSE
