SPECIFICATION Spec
CONSTANTS
  Threads = {t1, t2}
  Nobody = Nobody
  MaxCalls = 3
  MaxReports = 1
INVARIANTS TypeOK DeviceWhileTalking FirstFrameIsOwn
PROPERTY CallsReturn
CHECK_DEADLOCK FALSE
