\* Two logins race with one or two tickets, a revocation and a validation.
CONSTANTS
  Users = {alice, bob}
  Devices = {phone, laptop}
  InitialDevices = {phone}
  Tickets = {t1, t2}
  Calls = {c1, c2}
  Revokers = {r1}
  Validators = {v1}
  Unknown = unknown
SPECIFICATION Spec
SYMMETRY Symmetry
INVARIANTS TicketBuysOneCredential RevokedDeviceHasNoCredential
PROPERTY RevocationStampKept
CHECK_DEADLOCK FALSE
