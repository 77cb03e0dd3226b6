SPECIFICATION FairSpec
CONSTANTS
  Passwords = {p1, p2, p3}
  NoPassword = NoPassword
  MaxFaults = 3
INVARIANTS TypeOK NeverLockedOut PublishedWorks IInv
PROPERTIES RecordsOnlyAccepted RotationLands ImplementsContract
