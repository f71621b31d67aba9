SPECIFICATION Spec
CONSTANTS
  w1 = w1
  w2 = w2
  q1 = q1
  q2 = q2
  q3 = q3
  n1 = n1
  n2 = n2
  WalletInstanceIds = {w1, w2}
  Requests = {q1, q2, q3}
  Nonces = {n1, n2}
  MaxFaults = 1
SYMMETRY Symmetry
INVARIANTS
  OneValidInstance
  OldCredentialsAreRevoked
  AttestedWasValid
  StatusIsAccurate
  NonceOnce
  MailTellsWhatHappened
CHECK_DEADLOCK FALSE
