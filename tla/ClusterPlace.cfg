SPECIFICATION Spec
CONSTANTS
  n1 = n1
  n2 = n2
  p1 = p1
  p2 = p2
  p3 = p3
  Node = {n1}
  Proc = {p1, p3}
  Token = {t1, t2}
  Session = {s1}
  NodeOf <- HomeX
  NoToken = NoToken
  NoTicket = NoTicket
  NoRequest = NoRequest
  NoProc = NoProc
  MaxRooms = 1
  MaxFaults = 1
  Delays = {"register", "report"}
SYMMETRY Symmetry
INVARIANTS
  TypeOK
  CountedWithoutGap
  ReservationsFit
PROPERTY OnlySupersededIsFenced
CHECK_DEADLOCK FALSE
