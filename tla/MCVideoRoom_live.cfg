CONSTANTS
  c1 = c1
  c2 = c2
  a1 = a1
  a2 = a2
  g1 = g1
  ann = ann
  bob = bob
  r1 = r1
  r2 = r2
  Users = {ann, bob}
  Guest = Guest
  NoSock = NoSock
  NoObj = NoObj
  NoRoom = NoRoom
  Idle = Idle
  Sockets = {c1, a1}
  RoomIds = {r1}
  Objs = {o1, o2}
  Calls = {k1, k2}
  Limits = {2}
  ChatLimit = 2
  UserOf <- MCUserOf
  CallMembers <- MCCallMembers
  CallCreator <- MCCallCreator
SPECIFICATION FairSpec
VIEW NoGarbage
PROPERTIES
  SeatVacated
  RoomForgotten
CHECK_DEADLOCK FALSE
