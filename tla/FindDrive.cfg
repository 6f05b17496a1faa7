\* A drive that failed answers without a verdict.
SPECIFICATION Spec
CONSTANTS
  a = a
  b = b
  c = c
  ab = ab
  cc = cc
  d1 = d1
  d2 = d2
  d3 = d3
  s1 = s1
  s2 = s2
  Names = {a}
  Keys = {ab}
  KeyOf <- MCKeyOf
  Garbled = Garbled
  NoData = NoData
  Drives = {d1}
  Nvme = {d1}
  SerialOf <- MCSerialOf
  NoSerial = NoSerial
  Explored <- MCExplored
INVARIANTS WarningStands
