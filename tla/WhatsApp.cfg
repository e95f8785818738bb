SPECIFICATION Spec
CONSTANTS
  Wamids = {m1, m2}
  Handlers = {h1, h2}
  Workers = {w1, w2}
  Modes = {"inline", "redis"}
  MaxRetries = 1
  MaxFaults = 2
  NoOne = NoOne
  NoMessage = NoMessage
INVARIANTS QuestionIsStoredOnce RepliesRepeatOnlyAfterAFault
PROPERTIES SettledIsFinal QueuedMessagesSettle
