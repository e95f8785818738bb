SPECIFICATION Spec
CONSTANTS
  t1 = t1
  t2 = t2
  t3 = t3
  c2 = c2
  l1 = l1
  l2 = l2
  Turns = {t1, t2, t3}
  Handovers = {}
  Keys = {k1}
  Convs = {c1, c2, c3}
  LockKeys = {l1, l2}
  LockKey <- MCLockKey
  Callers = {"whatsapp"}
  NoOne = NoOne
  NoConv = NoConv
  NoKey = NoKey
PROPERTY NoReplyAfterTheEnd
