SPECIFICATION Spec
CONSTANTS
  Half = 65536
  Times = {0, 1, 2, 3, 9, 60, 129, 130, 131, 241, 1199, 1200, 1201, 43200, 65530, 65531, 65536, 66200, 131067, 131071}
  Stored = {0, 1, 300, 65535}
  Afters = {0, 1, 300, 301, 70000}
INVARIANTS AlwaysTimed GivenUpInTime
PROPERTIES RefreshedInTime
CHECK_DEADLOCK FALSE
