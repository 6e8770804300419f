CONSTANTS
  None = None
  alice = alice
  bob = bob
  corp = corp
  mallory = mallory
  Refused = Refused
  Nothing = Nothing
  Half = Half
  Undefined = Undefined
  Null = Null
  Default = Default
  Never = Never
  Keys = {alice, bob}
  Identities = {corp}
  Primary <- MCPrimary
  Minimum <- MCMinimum
  Plans <- MCPlans
  Strangers = {mallory}
  HashTypes <- MCHashTypes
  MaxCopies = 1
  MaxAlterations = 1
  Absent = Absent
  Signatories = {alice, bob}
  Records <- LoginRecords
  Challenges <- LoginRequests
  Tags = {1, 2}
  SdkTag = 1
  MaxAge = 1
  MaxFuture = 1
  MaxHeight = 3
  MaxParts = 2
  Components = {"", "A", "a", "b", "VRSC"}
  Empty = ""
  Lower <- MCLower
  Allowed = {"A", "a", "b", "VRSC", "vrsc", "a  b"}
  Spaced = {"a  b"}
  ChainName = "VRSC"
  Publishers = {alice, bob}
  DataKeys = {"k1", "k2"}
  Contents <- MCContents
  MaxUpdates = 3
SPECIFICATION SigningSpec
INVARIANTS
  WhatWasSeenIsWhatIsSpent
  EnoughIsAccepted
  LoggedInMeansSigned
  RevokedIsRefused
  ProperLoginsSucceed
  WhatWasPublishedIsRead
  KeysNameOneThing
  EverythingSaidCounts
  WhatIsBuiltIsRead
  NoTokensAreOverlooked
  SignaturesAreOfOneThing
CHECK_DEADLOCK FALSE
