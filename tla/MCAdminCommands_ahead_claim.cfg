\* nonces.ts:4: nonces are stored to prevent replays.  No crash, no error.
CONSTANTS
  Nonce = {n1}
  MaxAge = 2
  Tolerance = 1
  Skew = 1
  MaxTime = 4
  MaxTxs = 2
  MaxErrors = 0
  MaxEnds = 0
  MaxIoErrors = 0
SPECIFICATION Spec
INVARIANT AtMostOnce
