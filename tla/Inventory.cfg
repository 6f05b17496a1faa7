\* Three containers, or three drives, of one host under two platforms.
SPECIFICATION Spec
CONSTANTS
  a = a
  b = b
  c = c
  ab = ab
  cc = cc
  d1 = d1
  d2 = d2
  d3 = d3
  s1 = s1
  s2 = s2
  Names = {a, b, c}
  Keys = {ab, cc}
  KeyOf <- MCKeyOf
  Garbled = Garbled
  NoData = NoData
  Drives = {d1, d2, d3}
  Nvme = {d1}
  SerialOf <- MCSerialOf
  NoSerial = NoSerial
  Explored <- MCExplored
INVARIANTS
  TypeOK TargetIsListed EntitiesComplete FailureIsRemembered NoDriveHidden EntityFollowsDrive
PROPERTIES InventoryIsWhole
