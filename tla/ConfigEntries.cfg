\* Two flow dialogs on up to two entries, with reloads, removal and a restart.
SPECIFICATION Spec
SYMMETRY Symmetry
CONSTANTS
  Entries = {e1, e2}
  Hosts = {h1, h2, h3}
  Flows = {f1, f2}
  Names = {n1}
  Ids = {i1, i2}
  NoEntry = NoEntry
  MaxServers = 2
INVARIANTS
  TypeOK HostOnceInEntry EntriesDisjoint SensorsFit RunningIsConfigured
PROPERTIES EditsKeepSensors
