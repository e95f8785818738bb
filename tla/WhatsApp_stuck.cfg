SPECIFICATION Spec
CONSTANTS
  Wamids = {m1, m2}
  Handlers = {h1, h2}
  Workers = {w1, w2}
  Modes = {"redis"}
  MaxRetries = 1
  MaxFaults = 0
  NoOne = NoOne
  NoMessage = NoMessage
PROPERTY EveryClaimSettles
