SPECIFICATION FairSpec
CONSTANTS
  w1 = w1
  w2 = w2
  Watchers <- OneWatcher
  Slots = {1, 2}
  Kinds = {"Subscribe", "Get", "Winfo"}
  Refreshes = {TRUE, FALSE}
  MaxSubs = 0
  SipStates = {"Active", "Suspend", "Inactive"}
  Env = {"eagerStop", "sendFails"}
INVARIANTS CounterBounded ToldOnIsOn NoOrphan AppWaitIsTimed NeverStuck
PROPERTIES SubFollowsNotify Contract DeletedInTheEnd
