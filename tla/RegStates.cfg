SPECIFICATION ImFairSpec
CONSTANTS
  Env = {"enableLeaves", "connLeaves", "others", "reinit", "early"}
  Messages = {"m", "n"}
  MaxLost = 2
  NetEnv = {}
INVARIANTS NoNullProfile StatusFollows OneLogin AckedIsDelivered
PROPERTIES ReportsUnderstood LoginAnswered SendAnswered
