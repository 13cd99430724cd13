\* Friend requests in both directions, two uploads, claims and a revocation.
CONSTANTS
  alice = alice
  bob = bob
  Users = {alice, bob}
  r1 = r1
  r2 = r2
  Requests = {r1, r2, r3}
  InitialRequests <- MCInitialRequests
  Threads = {t1, t2}
  Devices = {phone}
  Owner <- MCOwner
  KeyIds = {1, 2}
  MaxCalls = 3
  NoRow = noRow
  NoKey = noKey
SPECIFICATION FairSpec
INVARIANTS AcceptedIffFriends ToldStatusIsFinal PrekeyHandedOnce UploadIsWhole
PROPERTIES NothingForRevokedDevice CallsReturn
CHECK_DEADLOCK FALSE
