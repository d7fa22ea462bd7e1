CONSTANTS
  M = 8
  W = 4
  RingCap = 2
  x = x
  y = y
  s1 = s1
  ra = ra
  rb = rb
  None = None
  Short = Short
  Links <- MCLinks
  Senders <- OneSender
  Readers <- MCReaders
  Beginnings <- MCBeginnings
  MaxMsgs = 3
  MaxLosses = 1
  AckMax = 2
SPECIFICATION MCSpec
CHECK_DEADLOCK FALSE
INVARIANT NoAckForgotten
PROPERTIES OnceUnlessLapsed AcksFlow
