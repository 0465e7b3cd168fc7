SPECIFICATION Spec
CONSTANTS
  Token = {t1}
  Payload = {p, q}
  Look = {x, y}
  None = None
  Reply = Reply
  MaxQueue = 2
  ReplyReserve = 1
  MaxItems = 2
  MaxOutput = 1
INVARIANTS RecordIsTerminal
CHECK_DEADLOCK FALSE
