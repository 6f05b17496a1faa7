\* Two actions at a time on one container, with every mishap, and a retry limit.
SPECIFICATION Spec
SYMMETRY Symmetry
CONSTANTS
  Names = {"on-failure"}
  Limits = {5}
  NoPolicy = NoPolicy
  Actions = {a1, a2}
INVARIANTS TypeOK PolicyInv PolicyIsRemembered StartRestores StopHolds
