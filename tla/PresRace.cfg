SPECIFICATION Spec
CONSTANTS
  NRows = 2
  Clients = {maker, other}
  Creators = {maker, other}
  Vals = {v1}
  MaxIds = 2
  Env = {}
INVARIANTS UniqueIds
CHECK_DEADLOCK FALSE
