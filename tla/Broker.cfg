SPECIFICATION FairSpec
CONSTANTS
  Tenant = {t1, t2}
  Owner = o
  Old = {}
  Service = {s}
  Updater = {u}
  Limit = 2
  MaxWrites = 1
  Limits <- Either
CHECK_DEADLOCK FALSE
INVARIANTS PortsDistinct WorkspaceKept
PROPERTIES ImplementsLeases PreparedComesUp
