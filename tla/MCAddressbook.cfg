\* systemd's monitor and one started by hand, one ab command at a time beside them.
CONSTANTS
  Monitor = {daemon, byhand}
  daemon = daemon
  byhand = byhand
  User <- MCUser
  MaxDeaths = 2
  Shell = {ab}
  Name = {"server", "hot", "x"}
  Address = {a}
  MaxFaults = 1
SPECIFICATION Spec
\* Without a command or a start nothing happens.
CHECK_DEADLOCK FALSE
INVARIANTS
  TypeOK
  OneMonitor
  WalletsMatch
PROPERTIES
  HotWalletKept
  ServerKept
