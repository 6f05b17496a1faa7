\* The refresh service, failing polls and slow tasks, up to the backoff cap.
SPECIFICATION FairSpec
CONSTANTS
  BaseInterval = 100
  BackoffThreshold = 3
  BackoffMaxInterval = 300
  MaxFailures = 4
  Containers = {web}
  Enabled = {"docker", "package"}
  Polls = {p1}
  Debounced = debounced
  Tasks = {t1, t2}
  NoTask = NoTask
  Calls = {}
  MaxRevision = 0
  Refreshes = {r1}
INVARIANTS
  RefreshWaitsForItsTask IntervalFollowsFailures
PROPERTIES FieldsAreKept FailureNeverShortens RefreshesReturn
