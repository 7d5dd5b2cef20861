SPECIFICATION FairSpec
CONSTANTS
  a = a  b = b  s1 = s1  s2 = s2  s3 = s3
  Macs <- MCMacs
  NoMac = NoMac
  TempSlots = {t1}
  Slots <- MCSlots
  NoSlot = NoSlot
  BlockOf <- MCBlockOf
  MaxBlocks = 3
  BlockSize = 1
  Stuck = {s1}
  TempStuck = {}
  Reports <- ProgressReports
  NoReport = NoReport
  Batch = 2
PROPERTIES TagTracked PollAnswered UsageRelieved
