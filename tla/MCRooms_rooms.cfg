SPECIFICATION Spec
CONSTANTS
  Me = ann
  Others = {bob}
  Ranks = {member, owner}
  Openers = {o1, o2}
  MaxRooms = 2
  MaxVisits = 2
  MaxRequests = 1
  MaxWire = 1
SYMMETRY Symmetry
VIEW View
INVARIANTS
  RosterAgrees
  SelfAgrees
  CrashNeedsMixedRoom
PROPERTIES
  DroppedOnlyWhenOut
CHECK_DEADLOCK FALSE
