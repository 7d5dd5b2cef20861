SPECIFICATION Spec
CONSTANTS
  N = 1
  Packet <- MCPacket
  Oversize <- MCOversize
  Nothing = Nothing
  WIFI_MESSAGE_LENGTH = 8192
  MaxReports = 52
  Adverts <- FitAdverts
  Responses = {}
  Bases = {80}
  Others = {}
INVARIANT BufferHolds
CONSTRAINT OnePoll
CHECK_DEADLOCK FALSE
