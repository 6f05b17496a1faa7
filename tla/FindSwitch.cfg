\* Two containers whose names differ in a character that is sanitised.
SPECIFICATION Spec
CONSTANTS
  a = a
  b = b
  c = c
  ab = ab
  cc = cc
  d1 = d1
  d2 = d2
  d3 = d3
  s1 = s1
  s2 = s2
  Names = {a, b}
  Keys = {ab}
  KeyOf <- MCKeyOf
  Garbled = Garbled
  NoData = NoData
  Drives = {}
  Nvme = {}
  SerialOf <- MCSerialOf
  NoSerial = NoSerial
  Explored = {{"switch"}}
INVARIANT TargetIsShown
