SPECIFICATION Spec
CONSTANTS
  Procs = {p1, p2, p3}
  NoProc = NoProc
  Unread = Unread
  Addrs = {g1, g2}
  PackageAddr = g2
  MaxEvents = 1
INVARIANTS Restarted
