SPECIFICATION Spec
CONSTANTS
  Key = {k1}
  Viewer = {v1, v2}
  None = None
  Buffer = 1
  MaxEpoch = 1
INVARIANT NoSendOnClosed
