SPECIFICATION Spec
CONSTANTS
  Worker = {w1, w2, w3}
  Token = {t1, t2, t3, t4}
  NoToken = NoToken
  Limit = 2
  Timeout = 1
  Grace = 1
  Lag = 0
  Threshold = 2
  OpenFor = 2
  ProbeFor = 2
SYMMETRY Symmetric
INVARIANT OneProbe
