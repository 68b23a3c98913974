SPECIFICATION Spec
CONSTANTS
  Names = {a, b}
  Managers = {api, cmd}
  Servers = {api}
  Guests = {g1, g2}
  NoGuest = NoGuest
  NoVM = NoVM
  NoRecord = NoRecord
  Torn = Torn
  Exclusive = FALSE
  Faults = {}
INVARIANTS
  OrphanIsGone
CHECK_DEADLOCK FALSE
