\* A container action makes the refresh service miss the task it started.
SPECIFICATION Spec
CONSTANTS
  BaseInterval = 30
  BackoffThreshold = 3
  BackoffMaxInterval = 300
  MaxFailures = 0
  Containers = {web}
  Enabled = {"docker", "package"}
  Polls = {p1}
  Debounced = debounced
  Tasks = {t1, t2, t3}
  NoTask = NoTask
  Calls = {a1}
  MaxRevision = 1
  Refreshes = {r1}
INVARIANTS RefreshWaitsForItsTask
