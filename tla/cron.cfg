SPECIFICATION Spec
CONSTANTS
  Entries = {"e1", "e2"}
  Clients = {"c1", "c2"}
  Schedules <- AllSchedules
  FirstMinute = 58
  LastMinute = 60
  MaxRequests = 3
  MaxRestarts = 1
INVARIANTS TypeOK NoSlotSkipped FiredOnceInOrder ListedIsScheduled
PROPERTIES OverdueFires
CHECK_DEADLOCK FALSE
