SPECIFICATION Spec
CONSTANTS
  w1 = w1
  w2 = w2
  Watchers <- OneWatcher
  Slots = {1}
  Kinds = {"Subscribe", "Lista", "Get", "Winfo"}
  Refreshes = {TRUE, FALSE}
  MaxSubs = 1
  SipStates = {"Active", "Suspend", "Inactive", "Unavailable"}
  Env = {"notifyFirst", "eagerStop", "stopLeaves", "latePending", "retryNotify",
         "preempt", "sendFails", "close"}
INVARIANTS TypeOK WaitingIsTimed NoOverrun
PROPERTIES NeverRevived
