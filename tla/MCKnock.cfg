\* Two commands for the same two ports; a call may fail, a crash or shutdown.
CONSTANTS
  Session = {s1, s2}
  Port = {Ssh, Web}
  Ssh = Ssh
  Web = Web
  PortSets <- MCPortSets
  Addr = {a}
  AnyAddr = AnyAddr
  Sources = {AnyAddr}
  MaxCalls = 2
  MaxFailures = 1
  MaxBeats = 1
  MaxEnds = 1
SPECIFICATION Spec
\* No command, no session: the process idles.
CHECK_DEADLOCK FALSE
SYMMETRY SessionSymmetry
INVARIANTS
  TypeOK
  NoRuleLeft
  KeepsAccess
  SessionHasEnd
