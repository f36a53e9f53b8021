SPECIFICATION Spec
CONSTANTS
  NRows = 2
  Clients = {maker, other}
  Creators = {maker}
  Vals = {v1}
  MaxIds = 2
  Env = {"crash", "writeFails"}
INVARIANTS UniqueIds AnswerHolds
PROPERTIES NeverReused
