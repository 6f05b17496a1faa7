\* Two overlapping samples, a reboot, and a counter that wraps twice.
SPECIFICATION Spec
SYMMETRY Symmetry
CONSTANTS
  Samples = {s1, s2}
  Counts = {1, 2}
  Range = 2
  None = None
  MaxTotal = 5
  MaxBoots = 1
INVARIANTS TypeOK CountersInv NoByteTwice EnergyIsExact PeakIsOfBoot
