\* One sample at a time, no reboot.
SPECIFICATION Spec
CONSTANTS
  Samples = {s1}
  Counts = {1}
  Range = 2
  None = None
  MaxTotal = 5
  MaxBoots = 0
INVARIANT EnergyIsCumulative
