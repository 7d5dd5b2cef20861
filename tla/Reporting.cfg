SPECIFICATION FairSpec
CONSTANTS
  N = 2
  Packet <- MCPacket
  Oversize <- MCOversize
  Nothing = Nothing
  WIFI_MESSAGE_LENGTH = 480
  MaxReports = 3
  Adverts <- MCAdverts
  Responses = {5}
  Bases = {128, 129}
  Others <- MCOversize
INVARIANTS MessageFits NoneVanishes InOrder
PROPERTIES TakenIsSettled IsBoundedFifo
CHECK_DEADLOCK FALSE
