SPECIFICATION Spec
CONSTANTS
  Bases = {"a"}
  SipIds = {7}
  NRows = 2
  MaxIds = 2
  MaxItems = 2
  Scopes = {{"prov", "view"}, {"prov", "add"}, {"prov", "stack"}, {"prov", "list", "full"}, {"add", "update", "read", "full"}, {"add", "delete", "update", "read", "list", "view"}}
INVARIANTS TablesSound RefsResolved
PROPERTIES AnswersSound
CHECK_DEADLOCK FALSE
