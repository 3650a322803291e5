\* Two commands, sent up to three times in all, one dated ahead perhaps;
\* an end of the process, a failing handler, a failing file.
CONSTANTS
  Nonce = {n1, n2}
  MaxAge = 2
  Tolerance = 1
  Skew = 2
  MaxTime = 4
  MaxTxs = 3
  MaxErrors = 1
  MaxEnds = 1
  MaxIoErrors = 1
SPECIFICATION Spec
SYMMETRY NonceSymmetry
INVARIANTS
  TypeOK
  NoReplay
  FileCurrent
  ShutdownSaves
