SPECIFICATION Spec
CONSTANTS
  Conn = {c1, c2, c3, c4}
  Room = {r1}
  Account = {}
  NoConn = NoConn
  NoRoom = NoRoom
  NoAccount = NoAccount
  AI = AI
  MaxSeats = 2
  MaxSpectators = 1
  Kinds = {"table", "ai", "engine", "cube"}
  Faults = {"projection"}
SYMMETRY Symmetry
INVARIANTS
  TypeOK
  BoundIsMember
  EveryMemberHasAnOwner
  TokenSpentOnce
  HostIsSeated
  RoomIsInhabited
PROPERTIES
  SeatSurvivesDrop
  KeepsSeatPromise
CHECK_DEADLOCK FALSE
