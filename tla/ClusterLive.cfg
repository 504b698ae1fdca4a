SPECIFICATION LiveSpec
CONSTANTS
  n1 = n1
  n2 = n2
  p1 = p1
  p2 = p2
  p3 = p3
  Node = {n1}
  Proc = {p1}
  Token = {t1}
  Session = {s1, s2}
  NodeOf <- HomeX
  NoToken = NoToken
  NoTicket = NoTicket
  NoRequest = NoRequest
  NoProc = NoProc
  MaxRooms = 1
  MaxFaults = 2
  Delays = {"report"}
PROPERTIES
  TicketRunsOnce
  NodeReturns
  ReservationsEnd
CHECK_DEADLOCK FALSE
