SPECIFICATION LiveSpec
CONSTANTS
  Conn = {c1, c2}
  Room = {r1}
  Account = {a1}
  NoConn = NoConn
  NoRoom = NoRoom
  NoAccount = NoAccount
  AI = AI
  MaxSeats = 2
  MaxSpectators = 1
  Kinds = {"table"}
  Faults = {"cube"}
PROPERTY HoldIsReleased
CHECK_DEADLOCK FALSE
