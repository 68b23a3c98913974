SPECIFICATION Spec
CONSTANTS
  Names = {a, b}
  Managers = {api, cmd}
  Servers = {api}
  Guests = {g1, g2}
  NoGuest = NoGuest
  NoVM = NoVM
  NoRecord = NoRecord
  Torn = Torn
  Exclusive = TRUE
  Faults = {}
INVARIANTS
  TypeOK
  
  
  OrphanIsGone
PROPERTIES
  LocksHold
CHECK_DEADLOCK FALSE
