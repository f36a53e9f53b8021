SPECIFICATION Spec
CONSTANTS
  Uris = {"u"}
  Names = {"a", "b"}
  Links = {"e"}
  MaxNodes = 6
  Rules = {"r"}
  Ids = {"i", "j"}
  Clock = {0, 90}
  Offsets = {0, 330}
  MaxEntries = 2
  Scopes = {{"lists"}, {"rule", "one", "many"}, {"misc", "extern", "sphere", "action", "transform"}, {"validity", "action"}, {"mime"}, {"tree"}}
  Tags = {"p"}
  MaxElements = 4
  MaxWraps = 4
  Cids = {"x", "y"}
  Lengths = {0, 1, 13}
  MaxParts = 3
INVARIANTS PathAgrees ListsSound RulesSound MessagesSound ElementsOwned
PROPERTIES HandlerCalled
CHECK_DEADLOCK FALSE
