SPECIFICATION LiveSpec
CONSTANTS
  Conn = {c1, c2, c3}
  Room = {r1}
  Account = {a1}
  NoConn = NoConn
  NoRoom = NoRoom
  NoAccount = NoAccount
  AI = AI
  MaxSeats = 2
  MaxSpectators = 0
  Kinds = {"ai"}
  Faults = {"cube", "projection"}
PROPERTIES
  HoldRunsOut
  CommandsFinish
CHECK_DEADLOCK FALSE
