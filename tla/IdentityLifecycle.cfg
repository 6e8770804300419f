CONSTANTS
  None = None
  Callers = {A, B}
  Operations <- MCOperations
  Keys = {"k1", "k2", "a1"}
  AuthorityKeys = {"a1"}
  Content = {"c1", "c2"}
  FirstIdentity <- MCFirst
  EXPIRY_BLOCKS = 2
  MAX_UNLOCK_DELAY = 2
  MaxU32 = 10
  MaxHeight = 6
  MaxSigned = 2
SYMMETRY Symmetric
SPECIFICATION Spec
INVARIANTS
  UnlockNeverEarly
  NeverStranded
  UnlockIsAccepted
PROPERTY UnnamedFieldsCarryOver
CHECK_DEADLOCK FALSE
