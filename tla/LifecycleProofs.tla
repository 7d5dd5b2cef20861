-------------------------- MODULE LifecycleProofs --------------------------
(***************************************************************************)
(* Proofs about Lifecycle: each of main and the scanner raises or lowers   *)
(* its own flag before it reads the other's, so one of them sees the other *)
(* (Dekker's argument), and the pools outlive the scanner's last round.    *)
(***************************************************************************)
EXTENDS Lifecycle, TLAPS

Before == {"examiner", "advertise", "scanner"}     \* the scanner is not started
After == {"lists", "pool", "temp", "udp", "queues", "exit", "exited"}

\* The scanner's flag covers its loop; main's covers the destruction; and where
\* both are past reading the other's, the scanner is not in a round.
FlagInv ==
  /\ scan \in {"test", "read", "round", "close"} => scanning = TRUE
  /\ main \in Before => scan = "none"
  /\ main \in {"wait"} \cup After => ready = FALSE
  /\ main = "clean" => scan = "none" \/ ready = FALSE
  /\ main \in {"clean"} \cup After => scan \notin {"read", "round"}

\* What is destroyed, main is past; sockets without queues never ran or stop.
GoneInv ==
  /\ pool = "gone" \/ tempPool = "gone" => main \in After
  /\ udp = "none" => \A t \in Sockets : work[t] = "none"
  /\ udp = "gone" \/ main = "queues" => shutdown = TRUE

\* A thread main has yet to start does not run.
StartInv ==
  /\ main = "examiner" => work["examiner"] = "none"
  /\ main \in Before \cup {"cleaner"} => work["cleaner"] = "none"
  /\ main \in Before \cup {"cleaner", "wifi", "comm"} => work["comm"] = "none"

\* The queues are not made before the dongle is told to advertise; from the wait
\* on it no longer does.
DongleInv ==
  /\ main \in Before \cup {"cleaner", "wifi"} => udp = "none"
  /\ AdvertisingEnds

IInv == TypeOK /\ FlagInv /\ GoneInv /\ StartInv /\ DongleInv

LEMMA InitIInv == Init => IInv
  BY DEF Init, IInv, TypeOK, FlagInv, GoneInv, StartInv, DongleInv,
     AdvertisingEnds, Mains, Before, After, Workers, Sockets

LEMMA SigintKeeps == IInv /\ Sigint => IInv'
<1> SUFFICES ASSUME IInv, Sigint PROVE IInv'
  OBVIOUS
<1>1. TypeOK'
  BY DEF IInv, TypeOK, Sigint, dongle
<1>2. FlagInv'
  BY DEF IInv, FlagInv, Sigint
<1>3. GoneInv'
  BY DEF IInv, GoneInv, Sigint
<1>4. StartInv'
  BY DEF IInv, StartInv, Sigint
<1>5. DongleInv'
  BY DEF IInv, DongleInv, AdvertisingEnds, Sigint, dongle
<1> QED BY <1>1, <1>2, <1>3, <1>4, <1>5 DEF IInv

LEMMA ScannerKeeps == IInv /\ Scanner => IInv'
<1> SUFFICES ASSUME IInv, Scanner PROVE IInv'
  OBVIOUS
<1> USE DEF Scanner, ScanSetUp, SetUpWith, ScanTest, ScanRead, ScanRound, ScanClose, CloseWith,
            ScanGoto, dongle
<1>1. TypeOK'
  BY DEF IInv, TypeOK
<1>2. FlagInv'
  BY DEF IInv, FlagInv, TypeOK, Before, After
<1>3. GoneInv'
  BY DEF IInv, GoneInv
<1>4. StartInv'
  BY DEF IInv, StartInv
<1>5. DongleInv'
  BY DEF IInv, DongleInv, AdvertisingEnds
<1> QED BY <1>1, <1>2, <1>3, <1>4, <1>5 DEF IInv

LEMMA StartingKeeps == IInv /\ Starting => IInv'
<1> SUFFICES ASSUME IInv, Starting PROVE IInv'
  OBVIOUS
<1> USE DEF Starting, StartExaminer, EnableAdvertising, StartScanner, StartCleaner, WifiInit,
            StartComm, Goto, Start, dongle
<1>1. TypeOK'
  <2>1. main' \in Mains /\ UNCHANGED <<ready, scanning, shutdown, lock, pool, tempPool>>
    BY DEF Mains
  <2>2. scan' \in {scan, "setup"} /\ udp' \in {udp, "live"}
    OBVIOUS
  <2>3. \A t \in DOMAIN work : work'[t] \in {work[t], "test"}
    BY DEF IInv, TypeOK, Workers, Sockets
  <2>4. work' \in [Workers \cup Sockets -> {"none", "test", "round", "locked", "out"}]
    BY <2>3 DEF IInv, TypeOK
  <2>5. lock # "nobody" => work'[lock] = "locked"
    BY DEF IInv, TypeOK, StartInv, Before, Workers, Sockets
  <2>6. advert' \in BOOLEAN /\ refused' \in BOOLEAN
    BY DEF IInv, TypeOK
  <2> QED BY <2>1, <2>2, <2>4, <2>5, <2>6 DEF IInv, TypeOK
<1>2. FlagInv'
  BY DEF IInv, FlagInv, TypeOK, Before, After
<1>3. GoneInv'
  <2>1. main \notin After
    BY DEF After
  <2>2. (udp = "none")' => UNCHANGED <<udp, work>> \/ \A t \in Sockets : work'[t] = work[t]
    BY DEF Sockets, Workers, IInv, TypeOK
  <2>3. main' # "queues" /\ (udp' # "gone" \/ UNCHANGED udp)
    OBVIOUS
  <2> QED BY <2>1, <2>2, <2>3 DEF IInv, GoneInv, TypeOK, Sockets, After
<1>4. StartInv'
  BY DEF IInv, StartInv, TypeOK, Before, Workers, Sockets
<1>5. DongleInv'
  BY DEF IInv, DongleInv, AdvertisingEnds, Before
<1> QED BY <1>1, <1>2, <1>3, <1>4, <1>5 DEF IInv

LEMMA EndingKeeps == IInv /\ Ending => IInv'
<1> SUFFICES ASSUME IInv, Ending PROVE IInv'
  OBVIOUS
<1> USE DEF Ending, LeaveLoop, LeaveFor, DisableAdvertising, Await, Clean, CleanWith, CleanLists,
            DestroyPool, DestroyTemp, StopSockets, FreeQueues, Exit, Goto, dongle
<1>1. TypeOK'
  <2>1. work' \in [Workers \cup Sockets -> {"none", "test", "round", "locked", "out"}]
    BY DEF IInv, TypeOK
  <2>2. main' \in Mains /\ advert' \in BOOLEAN /\ refused' \in BOOLEAN
    BY DEF IInv, TypeOK, Mains
  <2>3. ready' \in BOOLEAN /\ scan' \in {scan, "none"} /\ UNCHANGED scanning
    BY DEF IInv, TypeOK
  <2>4. shutdown' \in BOOLEAN /\ pool' \in {pool, "gone"} /\ tempPool' \in {tempPool, "gone"}
        /\ udp' \in {udp, "gone"}
    BY DEF IInv, TypeOK
  <2>5. lock' \in {t \in Workers : work'[t] = "locked"} \cup {"nobody"}
    BY DEF IInv, TypeOK
  <2> QED BY <2>1, <2>2, <2>3, <2>4, <2>5 DEF IInv, TypeOK
<1>2. FlagInv'
  BY DEF IInv, FlagInv, TypeOK, Before, After
<1>3. GoneInv'
  <2>1. (udp = "none")' => \A t \in Sockets : work'[t] = "none"
    BY DEF IInv, TypeOK, GoneInv
  <2>2. (udp = "gone" \/ main = "queues")' => shutdown' = TRUE
    BY DEF IInv, GoneInv
  <2>3. (pool = "gone" \/ tempPool = "gone")' => main' \in After
    BY DEF IInv, GoneInv, After
  <2> QED BY <2>1, <2>2, <2>3 DEF GoneInv
<1>4. StartInv'
  BY DEF StartInv, Before
<1>5. DongleInv'
  <2>1. main' \notin Before \cup {"cleaner", "wifi"}
    BY DEF Before
  <2>2. CASE DisableAdvertising
    BY <2>2, <2>1 DEF IInv, DongleInv, AdvertisingEnds, TypeOK
  <2>3. CASE ~DisableAdvertising
    <3>1. UNCHANGED <<advert, refused>> /\ udp' \in {udp, "gone"}
      BY <2>3
    <3>2. main' # "clean" \/ main = "wait"
      OBVIOUS
    <3> QED BY <2>1, <2>3, <3>1, <3>2 DEF IInv, DongleInv, AdvertisingEnds
  <2> QED BY <2>2, <2>3
<1> QED BY <1>1, <1>2, <1>3, <1>4, <1>5 DEF IInv

LEMMA ThreadsKeep ==
  ASSUME IInv, (\E t \in Workers : Worker(t)) \/ (\E t \in Sockets : Socket(t))
  PROVE  IInv'
<1>1. UNCHANGED <<main, ready, scanning, scan, pool, tempPool, udp, shutdown, advert, refused>>
  BY DEF dongle, Worker, WorkTest, WorkLock, WorkUnlock, Socket, SocketTest, WorkDone, WorkGoto
<1>2. PICK t \in Workers \cup Sockets :
        \E pc \in {"test", "round", "locked", "out"} : work' = [work EXCEPT ![t] = pc]
  BY DEF Worker, WorkTest, WorkLock, WorkUnlock, Socket, SocketTest, WorkDone, WorkGoto
<1>3. lock' \in {u \in Workers : work'[u] = "locked"} \cup {"nobody"}
  <2>1. ASSUME NEW u \in Workers, Worker(u)
        PROVE  lock' \in {v \in Workers : work'[v] = "locked"} \cup {"nobody"}
    BY <2>1 DEF IInv, TypeOK, Worker, WorkTest, WorkLock, WorkUnlock, WorkDone, WorkGoto
  <2>2. ASSUME NEW u \in Sockets, Socket(u)
        PROVE  UNCHANGED lock /\ \A v \in Workers : work'[v] = work[v]
    BY <2>2 DEF IInv, TypeOK, Socket, SocketTest, WorkDone, WorkGoto, Workers, Sockets
  <2> QED BY <2>1, <2>2 DEF IInv, TypeOK
<1>4. TypeOK'
  BY <1>1, <1>2, <1>3 DEF IInv, TypeOK
<1>5. FlagInv'
  BY <1>1 DEF IInv, FlagInv
<1>6. (udp = "none")' => \A u \in Sockets : work'[u] = "none"
  <2>1. ASSUME NEW u \in Workers, Worker(u), NEW v \in Sockets PROVE work'[v] = work[v]
    BY <2>1 DEF IInv, TypeOK, Worker, WorkTest, WorkLock, WorkUnlock, WorkDone, WorkGoto,
                Workers, Sockets
  <2>2. ASSUME NEW u \in Sockets, Socket(u) PROVE work[u] # "none"
    BY <2>2 DEF Socket, SocketTest, WorkDone
  <2> QED BY <1>1, <2>1, <2>2 DEF IInv, GoneInv
<1>7. GoneInv'
  BY <1>1, <1>6 DEF IInv, GoneInv
<1>8. StartInv'
  <2>1. ASSUME NEW u \in Workers \cup Sockets, Worker(u) \/ Socket(u), NEW v \in Workers,
               work[v] = "none"
        PROVE  work'[v] = "none"
    BY <2>1 DEF IInv, TypeOK, Worker, WorkTest, WorkLock, WorkUnlock, Socket, SocketTest,
                WorkDone, WorkGoto
  <2> QED BY <1>1, <2>1 DEF IInv, StartInv, Workers
<1>9. DongleInv'
  BY <1>1 DEF IInv, DongleInv, AdvertisingEnds
<1> QED BY <1>4, <1>5, <1>7, <1>8, <1>9 DEF IInv

LEMMA StepKeeps == IInv /\ [Next]_vars => IInv'
<1>1. IInv /\ UNCHANGED vars => IInv'
  BY DEF vars, dongle, IInv, TypeOK, FlagInv, GoneInv, StartInv, DongleInv, AdvertisingEnds
<1> QED BY <1>1, SigintKeeps, StartingKeeps, EndingKeeps, ScannerKeeps, ThreadsKeep DEF Next, Main

\* The inductive invariant: flags, positions and what is destroyed agree, whenever
\* Ctrl-C comes and whichever start fails.
THEOREM Invariance == Spec => []IInv
  BY InitIInv, StepKeeps, PTL DEF Spec

\* Positions, flags and resources keep their types.
THEOREM TypeCorrect == Spec => []TypeOK
<1>1. IInv => TypeOK
  BY DEF IInv
<1> QED BY <1>1, Invariance, PTL

\* The scanner's last round ends before cleanup_exit destroys the temp pool and
\* its lock, whenever Ctrl-C comes and whichever start fails.
THEOREM PoolsOutliveScanner == Spec => []ScannerSafe
<1>1. IInv => ScannerSafe
  BY DEF IInv, TypeOK, FlagInv, GoneInv, ScannerSafe
<1> QED BY <1>1, Invariance, PTL

\* A process that reached its loop leaves no dongle advertising but one that
\* refuses to stop.
THEOREM NoAdvertLeft == Spec => []AdvertisingEnds
<1>1. IInv => AdvertisingEnds
  BY DEF IInv, DongleInv
<1> QED BY <1>1, Invariance, PTL

\* main, the scanner and Ctrl-C start a thread at its test, or end it.
LEMMA OthersSteps ==
  ASSUME IInv, Main \/ Scanner \/ Sigint, NEW t \in Workers \cup Sockets
  PROVE  work'[t] \in {work[t], "test", "none"}
  BY DEF IInv, TypeOK, Main, Starting, StartExaminer, EnableAdvertising, StartScanner,
         StartCleaner, WifiInit, StartComm, Start, Ending, LeaveLoop, LeaveFor, DisableAdvertising, Await,
         Clean, CleanWith,
         CleanLists, DestroyPool, DestroyTemp, StopSockets, FreeQueues, Exit, Scanner, ScanSetUp,
         SetUpWith, ScanTest, ScanRead, ScanRound, ScanClose, CloseWith, ScanGoto, Sigint

\* A worker begins a round only while ready_to_work holds.
LEMMA WorkerBegins ==
  ASSUME IInv, Next, NEW t \in Workers, work[t] = "test", work'[t] = "round"
  PROVE  ready
<1>1. CASE Worker(t)
  BY <1>1 DEF IInv, TypeOK, Worker, WorkTest, WorkLock, WorkUnlock, WorkDone, WorkGoto, Workers, Sockets
<1>2. ASSUME NEW u \in Workers \cup Sockets, u # t, Worker(u) \/ Socket(u) PROVE work'[t] = work[t]
  BY <1>2 DEF IInv, TypeOK, Worker, WorkTest, WorkLock, WorkUnlock, WorkDone, Socket, SocketTest,
              WorkGoto
<1>3. Main \/ Scanner \/ Sigint => work'[t] \in {work[t], "test", "none"}
  BY OthersSteps
<1>4. t \notin Sockets
  BY DEF Workers, Sockets
<1> QED BY <1>1, <1>2, <1>3, <1>4 DEF Next

\* A socket thread begins one only before udp_release.
LEMMA SocketBegins ==
  ASSUME IInv, Next, NEW t \in Sockets, work[t] = "test", work'[t] = "round"
  PROVE  ~shutdown
<1>1. CASE Socket(t)
  BY <1>1 DEF IInv, TypeOK, Socket, SocketTest, WorkDone, WorkGoto, Workers, Sockets
<1>2. ASSUME NEW u \in Workers \cup Sockets, u # t, Worker(u) \/ Socket(u) PROVE work'[t] = work[t]
  BY <1>2 DEF IInv, TypeOK, Worker, WorkTest, WorkLock, WorkUnlock, WorkDone, Socket, SocketTest,
              WorkGoto
<1>3. Main \/ Scanner \/ Sigint => work'[t] \in {work[t], "test", "none"}
  BY OthersSteps
<1>4. t \notin Workers
  BY DEF Workers, Sockets
<1> QED BY <1>1, <1>2, <1>3, <1>4 DEF Next

\* No thread begins a round of its loop once what it works on is destroyed: the
\* flags change before, and never back.
THEOREM NoRoundAfter == Spec => LastRound
<1> DEFINE Begins ==
      /\ \A t \in Workers : work[t] = "test" /\ work'[t] = "round" => pool = "live"
      /\ \A t \in Sockets : work[t] = "test" /\ work'[t] = "round" => udp = "live"
<1>1. IInv /\ [Next]_vars => [Begins]_vars
  <2> SUFFICES ASSUME IInv, Next PROVE Begins
    BY DEF vars
  <2>1. ready => pool = "live"
    BY DEF IInv, TypeOK, FlagInv, GoneInv
  <2>2. ASSUME NEW t \in Sockets, work[t] = "test", ~shutdown PROVE udp = "live"
    BY <2>2 DEF IInv, TypeOK, GoneInv
  <2> QED BY <2>1, <2>2, WorkerBegins, SocketBegins
<1> QED BY <1>1, Invariance, PTL DEF Spec, LastRound
=============================================================================
