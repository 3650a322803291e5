\* Two pages, two accounts of one wallet, a price that goes up and down.
CONSTANTS
  Tab = {t1, t2}
  Account = {rich, poor}
  rich = rich
  poor = poor
  NoAccount = NoAccount
  Price = {1, 2}
  Money <- MCMoney
  MaxFaults = 1
SYMMETRY MCSymmetry
SPECIFICATION Spec
\* A page may be left alone.
CHECK_DEADLOCK FALSE
INVARIANTS
  TypeOK
  PurchasesSound
