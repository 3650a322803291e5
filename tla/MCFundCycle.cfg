\* Two tokens; two payments of the stablecoin and one of the other; one failure, one act.
CONSTANTS
  Token = {Stable, Other}
  Stable = Stable
  Other = Other
  Recipients <- MCRecipients
  TotalPercent = 5
  Whole = 10
  MinWithdrawal <- MCMinWithdrawal
  Buffer = 1
  HotGas = 6
  LowGas = 3
  SwapAmount = 1
  SwapGas = 4
  BlockBased = FALSE
  ServerGas = 13
  Payment = {4}
  MaxRevenue <- MCMaxRevenue
  MaxFaults = 1
  MaxManual = 1
SPECIFICATION Spec
INVARIANTS
  TypeOK
  ShareOfRevenue
  SharedOnce
  AttemptsSpaced
PROPERTIES
  Swept
