SPECIFICATION Spec
CONSTANTS
  Devices = {d1, d2}
  MaxChanges = 5
  Absent = Absent
  Empty = Empty
SYMMETRY DeviceSymmetry
INVARIANTS FileWhole ApiChangesKept
PROPERTY ImplementsStore
CHECK_DEADLOCK FALSE
