----------------------------- MODULE Lifecycle -----------------------------
(***************************************************************************)
(* The life of an LBeacon process from the registration of its SIGINT      *)
(* handler to its exit: main starts the threads one after the other, waits *)
(* for ready_to_work to fall, then for the scanner, and destroys pools,    *)
(* locks and queues while the other threads are in whatever round of their *)
(* loops they are in.  Variables shared without a lock are read and        *)
(* written in program order.  An operator X_Fault is X with one plausible  *)
(* mistake, used by no action.                                             *)
(***************************************************************************)

Workers == {"examiner", "cleaner", "comm"}    \* loop while ready_to_work
Sockets == {"sender", "receiver"}             \* loop until udp_release

VARIABLES
  main,            \* the position of main
  ready,           \* ready_to_work
  scanning,        \* is_ble_scanning_thread_running
  scan,            \* the position of start_ble_scanning
  work,            \* the position of each other thread
  lock,            \* who holds list_lock
  pool, tempPool,  \* mempool with list_lock; the temp pool with its lock
  udp, shutdown,   \* the packet queues, and udp_config.shutdown
  advert,          \* the dongle advertises
  refused          \* it refused to stop

dongle == <<advert, refused>>
vars == <<main, ready, scanning, scan, work, lock, pool, tempPool, udp, shutdown, dongle>>

Init ==
  /\ main = "examiner" /\ ready = TRUE
  /\ scanning = FALSE /\ scan = "none"
  /\ work = [t \in Workers \cup Sockets |-> "none"] /\ lock = "nobody"
  /\ pool = "live" /\ tempPool = "live" /\ udp = "none" /\ shutdown = FALSE
  /\ advert = FALSE /\ refused = FALSE

\* Ctrl-C: at any time.
Sigint ==
  /\ main # "exited" /\ ready' = FALSE
  /\ UNCHANGED <<main, scanning, scan, work, lock, pool, tempPool, udp, shutdown, dongle>>

-----------------------------------------------------------------------------
(* The start of the threads.  After a failure main goes on to cleanup_exit *)
(* for the first three, and takes no notice for the others.                *)

Goto(pc) == main' = pc
Start(t) == work' = [work EXCEPT ![t] = "test"]

StartExaminer ==
  /\ main = "examiner"
  /\ \/ Start("examiner") /\ Goto("advertise")
     \/ UNCHANGED work /\ Goto("clean")
  /\ UNCHANGED <<ready, scanning, scan, lock, pool, tempPool, udp, shutdown, dongle>>

\* Three requests: the parameters, the switch, the data.  One that is not
\* answered is an error; the status of an answer is looked at only for the last.
EnableAdvertising ==
  /\ main = "advertise"
  /\ \/ advert' \in BOOLEAN /\ Goto("scanner")
     \/ advert' \in BOOLEAN /\ Goto("clean")
  /\ UNCHANGED <<ready, scanning, scan, work, lock, pool, tempPool, udp, shutdown, refused>>

StartScanner ==
  /\ main = "scanner"
  /\ \/ scan' = "setup" /\ Goto("cleaner")
     \/ UNCHANGED scan /\ Goto("clean")
  /\ UNCHANGED <<ready, scanning, work, lock, pool, tempPool, udp, shutdown, dongle>>

StartCleaner ==
  /\ main = "cleaner" /\ Goto("wifi")
  /\ Start("cleaner") \/ UNCHANGED work
  /\ UNCHANGED <<ready, scanning, scan, lock, pool, tempPool, udp, shutdown, dongle>>

\* udp_initial makes the queues first; without a socket it starts no thread, and
\* it does not look whether its threads started.
WifiInit ==
  /\ main = "wifi" /\ Goto("comm") /\ udp' = "live"
  /\ \E S \in SUBSET Sockets :
       work' = [t \in DOMAIN work |-> IF t \in S THEN "test" ELSE work[t]]
  /\ UNCHANGED <<ready, scanning, scan, lock, pool, tempPool, shutdown, dongle>>

StartComm ==
  /\ main = "comm" /\ Goto("loop")
  /\ Start("comm") \/ UNCHANGED work
  /\ UNCHANGED <<ready, scanning, scan, lock, pool, tempPool, udp, shutdown, dongle>>

Starting ==
  StartExaminer \/ EnableAdvertising \/ StartScanner \/ StartCleaner \/ WifiInit \/ StartComm

-----------------------------------------------------------------------------
(* The end: the join loop is left, advertising disabled, the scanner       *)
(* awaited, everything destroyed.                                          *)

LeaveFor(pc) ==
  /\ main = "loop" /\ ~ready /\ Goto(pc)
  /\ UNCHANGED <<ready, scanning, scan, work, lock, pool, tempPool, udp, shutdown, dongle>>

LeaveLoop_Directly == LeaveFor("wait")
LeaveLoop == LeaveFor("disable")

\* Whether the dongle obeys or not, the flag is lowered once more.
DisableAdvertising ==
  /\ main = "disable" /\ Goto("wait") /\ ready' = FALSE
  /\ \/ advert' = FALSE /\ UNCHANGED refused
     \/ refused' = TRUE /\ UNCHANGED advert
  /\ UNCHANGED <<scanning, scan, work, lock, pool, tempPool, udp, shutdown>>

Await ==
  /\ main = "wait" /\ ~scanning /\ Goto("clean")
  /\ UNCHANGED <<ready, scanning, scan, work, lock, pool, tempPool, udp, shutdown, dongle>>

\* cleanup_exit: the flag falls, if it has not yet; then the lists are emptied
\* under list_lock.
CleanWith(flag) ==
  /\ main = "clean" /\ Goto("lists") /\ ready' = flag
  /\ UNCHANGED <<scanning, scan, work, lock, pool, tempPool, udp, shutdown, dongle>>

Clean_FlagStays == CleanWith(ready)
Clean == CleanWith(FALSE)

CleanLists ==
  /\ main = "lists" /\ lock = "nobody" /\ Goto("pool")
  /\ UNCHANGED <<ready, scanning, scan, work, lock, pool, tempPool, udp, shutdown, dongle>>

DestroyPool ==
  /\ main = "pool" /\ pool' = "gone" /\ Goto("temp")
  /\ UNCHANGED <<ready, scanning, scan, work, lock, tempPool, udp, shutdown, dongle>>

DestroyTemp ==
  /\ main = "temp" /\ tempPool' = "gone" /\ Goto("udp")
  /\ UNCHANGED <<ready, scanning, scan, work, lock, pool, udp, shutdown, dongle>>

\* udp_release: the flag of the socket threads, then the queues, also those
\* udp_initial never made.
StopSockets ==
  /\ main = "udp" /\ shutdown' = TRUE /\ Goto("queues")
  /\ UNCHANGED <<ready, scanning, scan, work, lock, pool, tempPool, udp, dongle>>

FreeQueues ==
  /\ main = "queues" /\ udp' = "gone" /\ Goto("exit")
  /\ UNCHANGED <<ready, scanning, scan, work, lock, pool, tempPool, shutdown, dongle>>

\* The process ends, and its threads with it.
Exit ==
  /\ main = "exit" /\ Goto("exited") /\ scan' = "none"
  /\ work' = [t \in DOMAIN work |-> "none"] /\ lock' = "nobody"
  /\ UNCHANGED <<ready, scanning, pool, tempPool, udp, shutdown, dongle>>

Ending ==
  \/ LeaveLoop \/ DisableAdvertising \/ Await \/ Clean \/ CleanLists \/ DestroyPool \/ DestroyTemp
  \/ StopSockets \/ FreeQueues \/ Exit
Main == Starting \/ Ending

-----------------------------------------------------------------------------
(* The scanner.                                                            *)

ScanGoto(pc) == scan' = pc /\ UNCHANGED <<main, ready, work, lock, pool, tempPool, udp, shutdown, dongle>>

\* The dongle is set up, or the thread returns with an error.
SetUpWith(flag) ==
  /\ scan = "setup"
  /\ \/ scanning' = flag /\ ScanGoto("test")
     \/ UNCHANGED scanning /\ ScanGoto("out")

ScanSetUp_Unflagged == SetUpWith(scanning)
ScanSetUp == SetUpWith(TRUE)

ScanTest ==
  /\ scan = "test" /\ UNCHANGED scanning
  /\ IF ready THEN ScanGoto("read") ELSE ScanGoto("close")

\* read blocks until the dongle has an event, or fails.
ScanRead == scan = "read" /\ UNCHANGED scanning /\ (ScanGoto("round") \/ ScanGoto("test"))

\* The report takes a slot of the temp pool and joins the temp list.
ScanRound == scan = "round" /\ UNCHANGED scanning /\ ScanGoto("test")

CloseWith(flag) == scan = "close" /\ scanning' = flag /\ ScanGoto("out")
ScanClose_FlagStays == CloseWith(scanning)
ScanClose == CloseWith(FALSE)

Scanner == ScanSetUp \/ ScanTest \/ ScanRead \/ ScanRound \/ ScanClose

-----------------------------------------------------------------------------
(* The other threads: a test, then a round in which list_lock may be taken *)
(* and given back.                                                         *)

WorkGoto(t, pc) ==
  /\ work' = [work EXCEPT ![t] = pc]
  /\ UNCHANGED <<main, ready, scanning, scan, pool, tempPool, udp, shutdown, dongle>>

WorkTest(t) ==
  /\ work[t] = "test" /\ UNCHANGED lock
  /\ WorkGoto(t, IF ready THEN "round" ELSE "out")

WorkLock(t) ==
  /\ work[t] = "round" /\ lock = "nobody" /\ lock' = t /\ WorkGoto(t, "locked")

WorkUnlock(t) ==
  /\ work[t] = "locked" /\ lock' = "nobody" /\ WorkGoto(t, "round")

WorkDone(t) == work[t] = "round" /\ UNCHANGED lock /\ WorkGoto(t, "test")

Worker(t) == WorkTest(t) \/ WorkLock(t) \/ WorkUnlock(t) \/ WorkDone(t)

SocketTest(t) ==
  /\ work[t] = "test" /\ UNCHANGED lock
  /\ WorkGoto(t, IF shutdown THEN "out" ELSE "round")

Socket(t) == SocketTest(t) \/ WorkDone(t)

Next ==
  \/ Sigint \/ Main \/ Scanner
  \/ \E t \in Workers : Worker(t)
  \/ \E t \in Sockets : Socket(t)

Spec == Init /\ [][Next]_vars

(* Threads run and their rounds end, for each takes list_lock a bounded    *)
(* number of times; that the dongle has another event nobody promises.     *)
Fairness ==
  /\ WF_vars(Main) /\ WF_vars(ScanSetUp \/ ScanTest \/ ScanRound \/ ScanClose)
  /\ \A t \in Workers : WF_vars(Worker(t)) /\ SF_vars(WorkDone(t))
FairSpec == Spec /\ Fairness

-----------------------------------------------------------------------------
Mains ==
  {"examiner", "advertise", "scanner", "cleaner", "wifi", "comm", "loop", "disable", "wait",
   "clean", "lists", "pool", "temp", "udp", "queues", "exit", "exited"}

\* Positions, flags and resources have the values the code gives them; list_lock
\* is free or held by a thread inside its critical section.
TypeOK ==
  /\ main \in Mains /\ ready \in BOOLEAN /\ scanning \in BOOLEAN /\ shutdown \in BOOLEAN
  /\ scan \in {"none", "setup", "test", "read", "round", "close", "out"}
  /\ work \in [Workers \cup Sockets -> {"none", "test", "round", "locked", "out"}]
  /\ lock \in {t \in Workers : work[t] = "locked"} \cup {"nobody"}
  /\ pool \in {"live", "gone"} /\ tempPool \in {"live", "gone"}
  /\ udp \in {"none", "live", "gone"} /\ advert \in BOOLEAN /\ refused \in BOOLEAN

\* The scanner never works on the temp pool or its list once they are destroyed,
\* whenever Ctrl-C comes: main waits on one flag, the scanner on the other.
ScannerSafe == scan = "round" => tempPool = "live" /\ pool = "live"

\* What the other threads may still touch is bounded: none begins a round of its
\* loop once what it works on is destroyed.
LastRound ==
  [][/\ \A t \in Workers : work[t] = "test" /\ work'[t] = "round" => pool = "live"
     /\ \A t \in Sockets : work[t] = "test" /\ work'[t] = "round" => udp = "live"]_vars

\* A process that came as far as its loop, so that its queues live, is not past
\* the wait with a dongle that advertises, unless the dongle refused to stop.
\* One whose start failed after the dongle was switched on leaves it advertising:
\* cleanup_exit does not switch it off.
AdvertisingEnds ==
  main \in {"wait", "clean", "lists", "pool", "temp", "udp", "queues"} /\ udp = "live"
    => advert = FALSE \/ refused = TRUE

\* Ctrl-C ends the process, whichever threads hold list_lock, unless the scanner
\* waits in read for an event that never comes.
ShutdownCompletes == <>[](scan = "read") \/ (~ready ~> main = "exited")
=============================================================================
