SPECIFICATION FairSpec
CONSTANTS
  d1 = d1
  d2 = d2
  Docs <- TwoDocs
  Refreshes = {FALSE}
  SipStates = {"Active", "Inactive"}
  Env = {"refuse", "busy", "lose", "slow", "sendFails", "modifyLeaves",
         "startLeaves"}
PROPERTIES Contract
