SPECIFICATION Spec
CONSTANTS
  Timeout = 14
  HostDelay = 2
  EraseTime = 4
  WriteTime = 3
  MaxPackets = 3
  MaxAnswer = 4
  MaxWrites = 2
  Drivers <- MCDrivers
INVARIANTS
  TypeOK
  ExpiresOnlyWhenStuck
PROPERTY
  HangEnds
