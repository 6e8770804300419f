CONSTANTS
  None = None
  Callers = {A, B}
  Operations <- ExtendOperations
  Keys = {"k1", "k2", "a1"}
  AuthorityKeys = {"a1"}
  Content = {"c1", "c2"}
  FirstIdentity <- MCFirst
  EXPIRY_BLOCKS = 2
  MAX_UNLOCK_DELAY = 2
  MaxU32 = 11
  MaxHeight = 7
  MaxSigned = 2
SYMMETRY Symmetric
SPECIFICATION Spec
INVARIANT ChecksMatchConsensus
CHECK_DEADLOCK FALSE
