CONSTANTS
  c1 = c1
  c2 = c2
  a1 = a1
  a2 = a2
  g1 = g1
  ann = ann
  bob = bob
  r1 = r1
  r2 = r2
  Users = {ann, bob}
  Guest = Guest
  NoSock = NoSock
  NoObj = NoObj
  NoRoom = NoRoom
  Idle = Idle
  Sockets = {c1, c2, a1, a2}
  RoomIds = {r1}
  Objs = {o1}
  Calls = {k1, k2}
  Limits = {2}
  ChatLimit = 2
  UserOf <- MCUserOf
  CallMembers <- MCCallMembers
  CallCreator <- MCCallCreator
SPECIFICATION Spec
SYMMETRY Symmetry
VIEW NoGarbage
INVARIANTS
  OnlyCreatorControls
  OneSeatPerUser
  OpenDoorHasNoQueue
  TimersOnlyForGone
PROPERTIES
  AdmittedWithinLimit
  NoUninvitedGuest
  DepartedStopHearing
CHECK_DEADLOCK FALSE
