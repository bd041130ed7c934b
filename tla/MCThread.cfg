CONSTANTS
  Task = {hello, cleanup, message, flow}
  Null = Null
  Periodic = {hello, cleanup}
  Packet = {message}
  Local = {flow}
  MaxKicks = 2
SPECIFICATION FairSpec
PROPERTIES ControlTaken KillHeard
CHECK_DEADLOCK FALSE
