\* Two requests at a time, two batches, a tab with two sockets, one click.
SPECIFICATION FairSpec
CONSTANTS
  k1 = k1
  k2 = k2
  Requests = {r1, r2}
  Keys = {k1, k2}
  Severities = {0, 1, 2}
  Threshold = 1
  DedupWindow = 1
  Batches <- MCBatches
  MaxBatches = 2
  MaxTime = 2
  Sockets = {s1, s2}
  None = None
  ListLimit = 2
  MaxClicks = 1
INVARIANTS ServerTypeOK OneAlertPerWindow OpenAlertsShown
PROPERTIES EventsAreAlerted
CHECK_DEADLOCK FALSE
