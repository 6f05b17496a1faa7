\* Liveness of slow collectors, container actions and container states.
SPECIFICATION FairSpec
CONSTANTS
  BaseInterval = 30
  BackoffThreshold = 3
  BackoffMaxInterval = 300
  MaxFailures = 0
  Containers = {web}
  Enabled = {"docker", "package"}
  Polls = {p1}
  Debounced = debounced
  Tasks = {t1, t2}
  NoTask = NoTask
  Calls = {a1}
  MaxRevision = 1
  Refreshes = {}
INVARIANTS TasksInv
PROPERTIES DueCollectorsRun ActionsEnd ShownConverges
