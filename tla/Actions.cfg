\* Two container actions on two containers against docker samples and a failing poll.
SPECIFICATION Spec
SYMMETRY Symmetry
CONSTANTS
  BaseInterval = 30
  BackoffThreshold = 3
  BackoffMaxInterval = 300
  MaxFailures = 1
  Containers = {web, db}
  Enabled = {"docker", "package"}
  Polls = {}
  Debounced = debounced
  Tasks = {t1, t2}
  NoTask = NoTask
  Calls = {a1, a2}
  MaxRevision = 2
  Refreshes = {}
INVARIANTS
  TypeOK SettledContainersAgree ContainerInv CollectionErrorShowsOffline
PROPERTIES RefinesContainerView
