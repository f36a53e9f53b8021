SPECIFICATION Spec
CONSTANTS
  d1 = d1
  d2 = d2
  Docs <- TwoDocs
  Refreshes = {TRUE, FALSE}
  SipStates = {"Active", "Suspend", "Inactive"}
  Env = {"refuse", "lose", "slow", "modifyLeaves", "startLeaves", "reenter"}
INVARIANTS KeptAlive AgreesWithServer
