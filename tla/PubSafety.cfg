SPECIFICATION Spec
CONSTANTS
  d1 = d1
  d2 = d2
  Docs <- TwoDocs
  Refreshes = {TRUE, FALSE}
  SipStates = {"Active", "Suspend", "Inactive", "Unavailable"}
  Env = {"refuse", "busy", "lose", "slow", "sendFails", "modifyLeaves",
         "startLeaves", "overlap", "lateStart", "behind"}
INVARIANTS PublisherSound AppWaitIsTimed
PROPERTIES EndedStays
