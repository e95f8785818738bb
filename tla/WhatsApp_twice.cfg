SPECIFICATION Spec
CONSTANTS
  Wamids = {m1}
  Handlers = {h1, h2}
  Workers = {w1, w2}
  Modes = {"redis"}
  MaxRetries = 1
  MaxFaults = 1
  NoOne = NoOne
  NoMessage = NoMessage
INVARIANT AtMostOneReply
