SPECIFICATION Spec
CONSTANTS
  w1 = w1
  w2 = w2
  Watchers <- OneWatcher
  Slots = {1}
  Kinds = {"Subscribe"}
  Refreshes = {TRUE}
  MaxSubs = 0
  SipStates = {"Active"}
  Env = {"notifyFirst"}
INVARIANTS ToldOnIsOn
