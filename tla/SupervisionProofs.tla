------------------------- MODULE SupervisionProofs -------------------------
(***************************************************************************)
(* Proofs about Supervision, for any number of processes, addresses and    *)
(* events: the lock file admits one process; a change of address reaches   *)
(* every process it must; the settings of the box survive.                 *)
(***************************************************************************)
EXTENDS Supervision, TLAPS

\* The processes past the lock are its holder.
LockInv == \A p \in Procs : PastLock(p) <=> lock = p

\* What scripts and processes have read is there while they use it.
ReadInv ==
  /\ upPc \in {"unpack", "merge"} => saved \in Conf
  /\ netPc \in {"ping", "sed"} => gatewayAddr \in Addrs
  /\ netPc = "rename" => netCopy \in Conf

\* A script that is about to signal the other one will signal every process alive,
\* so that it may stop the other one without leaving a process behind.
ListInv ==
  /\ netPc # "kill" => netFound = {}
  /\ upPc # "kill" => upFound = {}
  /\ Upgrade \in netFound /\ upPc # "idle" => Alive \subseteq netFound
  /\ Network \in upFound /\ netPc # "idle" => Alive \subseteq upFound

Working(p) == st[p] \in {"init", "run"}

\* A working process has what config.conf says, or what the upgrade will put back,
\* or it is about to be stopped.
RunInv ==
  \A p \in Procs : Working(p) /\ p \notin missed /\ ~Doomed(p) =>
    /\ upPc # "merge" => loaded[p] = conf
    /\ upPc \in {"unpack", "merge"} => loaded[p] = saved

\* config.conf, the copy the upgrade keeps and the one sed is about to rename have
\* the settings of the box.
OwnInv ==
  spoilt = FALSE =>
    /\ upPc # "merge" => conf.own = TRUE
    /\ upPc \in {"unpack", "merge"} => saved.own = TRUE
    /\ netPc = "rename" /\ upPc # "merge" => netCopy.own = TRUE

IInv == TypeOK /\ LockInv /\ ReadInv /\ ListInv /\ RunInv /\ OwnInv

LEMMA InitIInv == Init => IInv
<1> SUFFICES ASSUME Init PROVE IInv
  OBVIOUS
<1>1. TypeOK
  <2>1. conf \in Conf
    BY DEF Init, Conf
  <2>2. st \in [Procs -> States]
    BY DEF Init, States, Ended, Starting
  <2>3. events \in 0..MaxEvents
    BY EventsAssumption DEF Init
  <2> QED BY <2>1, <2>2, <2>3 DEF Init, TypeOK
<1>2. LockInv
  BY NamesAssumption DEF Init, LockInv, PastLock
<1>3. ReadInv /\ ListInv /\ RunInv
  BY DEF Init, ReadInv, ListInv, RunInv, Working
<1>4. OwnInv
  BY DEF Init, OwnInv
<1> QED BY <1>1, <1>2, <1>3, <1>4 DEF IInv

-----------------------------------------------------------------------------
(* Processes.                                                              *)

LEMMA ProcessKeeps == ASSUME IInv, NEW p \in Procs, Process(p) PROVE IInv'
<1> USE DEF Process, LockFile, SetLock, GetConfig, Handle, Fail, Exit, End, Goto,
            envVars, confVars, netVars, netLocals, upVars
<1>1. /\ UNCHANGED <<conf, saved, netPc, netCopy, gatewayAddr, confGatewayAddr, upPc, spoilt>>
      /\ UNCHANGED <<net, events>>
  OBVIOUS
<1>2. /\ netFound' \in {netFound, netFound \ {p}} /\ upFound' \in {upFound, upFound \ {p}}
      /\ p \in Alive' => UNCHANGED <<netFound, upFound>>
      /\ Alive' \subseteq Alive
  BY DEF IInv, TypeOK, Alive, Ended, Starting
<1>3. TypeOK'
  <2>1. st' \in [Procs -> States]
    BY DEF IInv, TypeOK, States, Ended, Starting
  <2>2. loaded' \in [Procs -> Conf \cup {Unread}]
    BY DEF IInv, TypeOK
  <2>3. lock' \in Procs \cup {NoProc} /\ missed' \subseteq Procs
    BY DEF IInv, TypeOK
  <2> QED BY <1>1, <1>2, <2>1, <2>2, <2>3 DEF IInv, TypeOK
<1>4. LockInv'
  BY NamesAssumption DEF IInv, TypeOK, LockInv, PastLock, Starting
<1>5. ReadInv'
  BY <1>1 DEF IInv, ReadInv
<1>6. ListInv'
  <2>1. Alive \subseteq netFound => Alive' \subseteq netFound'
    BY <1>2
  <2>2. Alive \subseteq upFound => Alive' \subseteq upFound'
    BY <1>2
  <2> QED BY <1>1, <1>2, <2>1, <2>2 DEF IInv, ListInv
<1>7. RunInv'
  <2> SUFFICES ASSUME NEW q \in Procs, Working(q)', q \notin missed', ~Doomed(q)'
               PROVE  /\ upPc # "merge" => loaded'[q] = conf
                      /\ upPc \in {"unpack", "merge"} => loaded'[q] = saved
    BY <1>1 DEF RunInv
  <2>1. ~Doomed(q)
    <3>1. q \in Alive'
      BY <1>3 DEF TypeOK, Working, Alive, Ended
    <3>2. q \in netFound => q \in netFound'
      BY <1>2, <3>1
    <3> QED BY <1>1, <3>2 DEF Doomed
  <2>2. CASE GetConfig(p) /\ q = p
    BY <2>2 DEF IInv, TypeOK
  <2>3. CASE ~(GetConfig(p) /\ q = p)
    <3>1. Working(q) /\ q \notin missed /\ loaded'[q] = loaded[q]
      BY <2>3 DEF IInv, TypeOK, Working, Starting
    <3> QED BY <2>1, <3>1 DEF IInv, RunInv
  <2> QED BY <2>2, <2>3
<1>8. OwnInv'
  BY <1>1 DEF IInv, OwnInv
<1> QED BY <1>3, <1>4, <1>5, <1>6, <1>7, <1>8 DEF IInv

-----------------------------------------------------------------------------
(* What the scripts call.                                                  *)

\* A new process is not past the lock and does not work yet.
LEMMA LaunchKeeps ==
  ASSUME IInv, Launch
  PROVE  /\ st' \in [Procs -> States] /\ LockInv' /\ UNCHANGED <<loaded, lock, missed>>
         /\ \A q \in Procs : Working(q)' => Working(q)
<1>1. PICK p \in Procs : st[p] \in Ended /\ Goto(p, "new")
  BY DEF Launch, Fresh, Alive
<1>2. UNCHANGED <<loaded, lock, missed>>
  BY DEF Launch
<1>3. st' \in [Procs -> States]
  BY <1>1 DEF IInv, TypeOK, Goto, States, Starting
<1>4. LockInv'
  BY <1>1, <1>2 DEF IInv, TypeOK, LockInv, PastLock, Goto, Ended
<1>5. \A q \in Procs : Working(q)' => Working(q)
  BY <1>1 DEF IInv, TypeOK, Working, Goto
<1> QED BY <1>2, <1>3, <1>4, <1>5

\* SIGINT stops the working processes it reaches, or else they have missed it, and
\* leaves everything else as it is.
LEMMA SigintKeeps ==
  ASSUME IInv, NEW S, Sigint(S)
  PROVE  /\ st' \in [Procs -> States] /\ loaded' \in [Procs -> Conf \cup {Unread}]
         /\ missed' \subseteq Procs /\ lock' = lock /\ LockInv' /\ Alive' = Alive
         /\ \A q \in Procs : Working(q)' /\ q \notin missed' =>
              q \notin S /\ Working(q) /\ loaded'[q] = loaded[q] /\ q \notin missed
<1>1. st' \in [Procs -> States]
  BY DEF IInv, TypeOK, Sigint, States, Ended, Starting
<1>2. loaded' \in [Procs -> Conf \cup {Unread}]
  BY DEF IInv, TypeOK, Sigint
<1>3. missed' \subseteq Procs /\ lock' = lock
  BY DEF Sigint
<1>4. LockInv'
  BY <1>3 DEF IInv, TypeOK, LockInv, PastLock, Sigint
<1>5. Alive' = Alive
  BY DEF IInv, TypeOK, Alive, Sigint, Ended
<1>6. \A q \in Procs : Working(q)' /\ q \notin missed' =>
        q \notin S /\ Working(q) /\ loaded'[q] = loaded[q] /\ q \notin missed
  BY DEF IInv, TypeOK, Working, Sigint
<1> QED BY <1>1, <1>2, <1>3, <1>4, <1>5, <1>6

\* An upgrade that ends early is idle, and spoilt if it was about to merge.
LEMMA UpStopsKeeps ==
  ASSUME IInv, UpStops
  PROVE  /\ upPc' = "idle" /\ upFound' = {} /\ saved' = Unread
         /\ spoilt' \in BOOLEAN /\ (spoilt' = FALSE => spoilt = FALSE /\ upPc # "merge")
<1>1. spoilt \in BOOLEAN /\ upPc \in {"idle", "ps", "kill", "save", "unpack", "merge", "start"}
  BY DEF IInv, TypeOK
<1>2. spoilt' \in BOOLEAN /\ (spoilt' = FALSE => spoilt = FALSE /\ upPc # "merge")
  BY <1>1 DEF UpStops
<1> QED BY <1>2 DEF UpStops

\* After the kill of network.sh the upgrade is where it was or has ended early.
LEMMA UpSpared ==
  ASSUME IInv, NEW S, MaySpareUp(S)
  PROVE  \/ UNCHANGED <<upPc, upFound, saved, spoilt>>
         \/ /\ Upgrade \in S /\ upPc' = "idle" /\ upFound' = {} /\ saved' = Unread
            /\ spoilt' \in BOOLEAN /\ (spoilt' = FALSE => spoilt = FALSE /\ upPc # "merge")
  BY UpStopsKeeps DEF MaySpareUp, upVars

\* After the kill of an upgrade network.sh is where it was or has ended early.
LEMMA NetSpared ==
  ASSUME NEW S, MaySpareNet(S)
  PROVE  \/ UNCHANGED <<netPc, gatewayAddr, confGatewayAddr, netCopy, netFound>>
         \/ /\ Network \in S /\ netPc' = "idle" /\ netFound' = {} /\ netCopy' = Unread
            /\ gatewayAddr' = Unread /\ confGatewayAddr' = Unread
  BY DEF MaySpareNet, NetStops, NetEnd, netVars, netLocals

-----------------------------------------------------------------------------
(* network.sh.                                                             *)

LEMMA NetKillKeeps == IInv /\ NetKill => IInv'
<1> SUFFICES ASSUME IInv, NetKill PROVE IInv'
  OBVIOUS
<1>1. /\ st' \in [Procs -> States] /\ loaded' \in [Procs -> Conf \cup {Unread}]
      /\ missed' \subseteq Procs /\ lock' = lock /\ LockInv' /\ Alive' = Alive
      /\ \A q \in Procs : Working(q)' /\ q \notin missed' =>
           q \notin netFound /\ Working(q) /\ loaded'[q] = loaded[q] /\ q \notin missed
  BY SigintKeeps DEF NetKill
<1>2. \/ UNCHANGED <<upPc, upFound, saved, spoilt>>
      \/ /\ Upgrade \in netFound /\ upPc' = "idle" /\ upFound' = {} /\ saved' = Unread
         /\ spoilt' \in BOOLEAN /\ (spoilt' = FALSE => spoilt = FALSE /\ upPc # "merge")
  BY UpSpared DEF NetKill
<1>3. /\ netPc = "kill" /\ netPc' \in {"start", "idle"} /\ netFound' = {} /\ conf' = conf
      /\ UNCHANGED <<net, events>>
      /\ gatewayAddr' \in {gatewayAddr, Unread} /\ confGatewayAddr' \in {confGatewayAddr, Unread}
      /\ netCopy' \in {netCopy, Unread}
  BY DEF NetKill, NetStops, NetEnd, envVars
<1>4. TypeOK'
  BY <1>1, <1>2, <1>3 DEF IInv, TypeOK
<1>5. ReadInv'
  BY <1>2, <1>3 DEF IInv, ReadInv
<1>6. ListInv'
  BY <1>1, <1>2, <1>3 DEF IInv, ListInv
<1>7. RunInv'
  <2> SUFFICES ASSUME NEW q \in Procs, Working(q)', q \notin missed'
               PROVE  /\ upPc' # "merge" => loaded'[q] = conf
                      /\ upPc' \in {"unpack", "merge"} => loaded'[q] = saved'
    BY <1>3 DEF RunInv
  <2>1. /\ q \notin netFound /\ Working(q) /\ loaded'[q] = loaded[q] /\ q \notin missed
    BY <1>1
  <2>2. /\ upPc # "merge" => loaded[q] = conf
        /\ upPc \in {"unpack", "merge"} => loaded[q] = saved
    BY <1>3, <2>1 DEF IInv, RunInv, Doomed
  <2>3. CASE UNCHANGED <<upPc, upFound, saved, spoilt>>
    BY <2>1, <2>2, <2>3
  \* The upgrade is stopped: q would have been listed with it.
  <2>4. CASE Upgrade \in netFound /\ upPc' = "idle"
    <3>1. q \in Alive
      BY <2>1 DEF Working, Alive, Ended
    <3>2. upPc = "idle"
      BY <2>1, <2>4, <3>1 DEF IInv, ListInv
    <3> QED BY <2>1, <2>2, <2>4, <3>2
  <2> QED BY <1>2, <2>3, <2>4
<1>8. OwnInv'
  BY <1>2, <1>3 DEF IInv, OwnInv
<1> QED BY <1>1, <1>4, <1>5, <1>6, <1>7, <1>8 DEF IInv

LEMMA NetworkKeeps == IInv /\ RunNetwork => IInv'
<1> SUFFICES ASSUME IInv, RunNetwork PROVE IInv'
  OBVIOUS
<1> USE DEF envVars, confVars, procVars, upVars
<1>1. CASE NetRead \/ NetDown \/ NetCompare
  <2> USE DEF NetRead, NetDown, NetCompare, NetEnd
  <2>1. TypeOK'
    BY <1>1 DEF IInv, TypeOK, Conf
  <2>2. LockInv'
    BY <1>1 DEF IInv, LockInv, PastLock
  <2>3. ReadInv'
    BY <1>1 DEF IInv, ReadInv, TypeOK
  <2>4. ListInv'
    BY <1>1 DEF IInv, ListInv, Alive
  <2>5. RunInv'
    BY <1>1 DEF IInv, RunInv, Working, Doomed
  <2>6. OwnInv'
    BY <1>1 DEF IInv, OwnInv
  <2> QED BY <2>1, <2>2, <2>3, <2>4, <2>5, <2>6 DEF IInv
<1>2. CASE NetSed
  <2> USE DEF NetSed, Substitute
  <2>1. netCopy' \in Conf /\ netCopy'.own = conf.own
    BY <1>2 DEF IInv, TypeOK, ReadInv, Conf
  <2>2. TypeOK'
    BY <1>2, <2>1 DEF IInv, TypeOK
  <2>3. LockInv'
    BY <1>2 DEF IInv, LockInv, PastLock
  <2>4. ReadInv'
    BY <1>2, <2>1 DEF IInv, ReadInv
  <2>5. ListInv'
    BY <1>2 DEF IInv, ListInv, Alive
  <2>6. RunInv'
    BY <1>2 DEF IInv, RunInv, Working, Doomed
  <2>7. OwnInv'
    BY <1>2, <2>1 DEF IInv, OwnInv
  <2> QED BY <2>2, <2>3, <2>4, <2>5, <2>6, <2>7 DEF IInv
<1>3. CASE NetRename
  <2> USE DEF NetRename
  <2>1. TypeOK'
    BY <1>3 DEF IInv, TypeOK, ReadInv
  <2>2. LockInv'
    BY <1>3 DEF IInv, LockInv, PastLock
  <2>3. ReadInv'
    BY <1>3 DEF IInv, ReadInv
  <2>4. ListInv'
    BY <1>3 DEF IInv, ListInv, Alive
  <2>5. RunInv'
    BY <1>3 DEF RunInv, Doomed
  <2>6. OwnInv'
    BY <1>3 DEF IInv, OwnInv
  <2> QED BY <2>1, <2>2, <2>3, <2>4, <2>5, <2>6 DEF IInv
<1>4. CASE NetPs
  <2> USE DEF NetPs, NetPsList
  <2>1. TypeOK'
    BY <1>4 DEF IInv, TypeOK, Alive
  <2>2. LockInv'
    BY <1>4 DEF IInv, LockInv, PastLock
  <2>3. ReadInv'
    BY <1>4 DEF IInv, ReadInv
  <2>4. ListInv'
    BY <1>4 DEF IInv, ListInv, Alive
  <2>5. RunInv'
    BY <1>4 DEF RunInv, Working, Doomed, Alive, Ended
  <2>6. OwnInv'
    BY <1>4 DEF IInv, OwnInv
  <2> QED BY <2>1, <2>2, <2>3, <2>4, <2>5, <2>6 DEF IInv
<1>5. CASE NetStart
  <2> USE DEF NetStart, NetEnd
  <2>1. /\ st' \in [Procs -> States] /\ LockInv' /\ UNCHANGED <<loaded, lock, missed>>
        /\ \A q \in Procs : Working(q)' => Working(q)
    BY <1>5, LaunchKeeps
  <2>2. TypeOK'
    BY <1>5, <2>1 DEF IInv, TypeOK
  <2>3. ReadInv'
    BY <1>5 DEF IInv, ReadInv
  <2>4. ListInv'
    BY <1>5 DEF IInv, ListInv
  <2>5. RunInv'
    BY <1>5, <2>1 DEF IInv, RunInv, Doomed
  <2>6. OwnInv'
    BY <1>5 DEF IInv, OwnInv
  <2> QED BY <2>1, <2>2, <2>3, <2>4, <2>5, <2>6 DEF IInv
<1> QED BY <1>1, <1>2, <1>3, <1>4, <1>5, NetKillKeeps DEF RunNetwork

-----------------------------------------------------------------------------
(* upgrade_lbeacon_crontab.sh.                                             *)

LEMMA UpKillKeeps == IInv /\ UpKill => IInv'
<1> SUFFICES ASSUME IInv, UpKill PROVE IInv'
  OBVIOUS
<1>1. /\ st' \in [Procs -> States] /\ loaded' \in [Procs -> Conf \cup {Unread}]
      /\ missed' \subseteq Procs /\ lock' = lock /\ LockInv' /\ Alive' = Alive
      /\ \A q \in Procs : Working(q)' /\ q \notin missed' =>
           q \notin upFound /\ Working(q) /\ loaded'[q] = loaded[q] /\ q \notin missed
  BY SigintKeeps DEF UpKill
<1>2. \/ UNCHANGED <<netPc, gatewayAddr, confGatewayAddr, netCopy, netFound>>
      \/ /\ Network \in upFound /\ netPc' = "idle" /\ netFound' = {} /\ netCopy' = Unread
         /\ gatewayAddr' = Unread /\ confGatewayAddr' = Unread
  BY NetSpared DEF UpKill
<1>3. /\ upPc = "kill" /\ upPc' \in {"save", "idle"} /\ upFound' = {} /\ conf' = conf
      /\ UNCHANGED <<net, events>>
  BY DEF UpKill, UpStops, envVars
<1>4. /\ saved' \in {saved, Unread} /\ spoilt' \in BOOLEAN /\ (spoilt' = FALSE => spoilt = FALSE)
  <2>1. CASE UNCHANGED <<saved, spoilt>>
    BY <2>1 DEF IInv, TypeOK
  <2>2. CASE UpStops
    BY <2>2, UpStopsKeeps
  <2> QED BY <2>1, <2>2 DEF UpKill
<1>5. TypeOK'
  BY <1>1, <1>2, <1>3, <1>4 DEF IInv, TypeOK
<1>6. ReadInv'
  BY <1>2, <1>3 DEF IInv, ReadInv
<1>7. ListInv'
  BY <1>1, <1>2, <1>3 DEF IInv, ListInv
<1>8. RunInv'
  <2> SUFFICES ASSUME NEW q \in Procs, Working(q)', q \notin missed', ~Doomed(q)'
               PROVE  loaded'[q] = conf
    BY <1>3 DEF RunInv
  <2>1. /\ q \notin upFound /\ Working(q) /\ loaded'[q] = loaded[q] /\ q \notin missed
    BY <1>1
  <2>2. ~Doomed(q)
    <3>1. CASE UNCHANGED <<netPc, gatewayAddr, confGatewayAddr, netCopy, netFound>>
      BY <3>1 DEF Doomed
    \* network.sh is stopped: q would have been listed with it.
    <3>2. CASE Network \in upFound
      <4>1. q \in Alive
        BY <2>1 DEF Working, Alive, Ended
      <4>2. netPc = "idle"
        BY <2>1, <3>2, <4>1 DEF IInv, ListInv
      <4> QED BY <4>2 DEF Doomed
    <3> QED BY <1>2, <3>1, <3>2
  <2> QED BY <1>3, <2>1, <2>2 DEF IInv, RunInv
<1>9. OwnInv'
  BY <1>2, <1>3, <1>4 DEF IInv, OwnInv
<1> QED BY <1>1, <1>5, <1>6, <1>7, <1>8, <1>9 DEF IInv

LEMMA UpgradeKeeps == IInv /\ RunUpgrade => IInv'
<1> SUFFICES ASSUME IInv, RunUpgrade PROVE IInv'
  OBVIOUS
<1> USE DEF envVars, confVars, procVars, netVars, netLocals
<1>1. CASE UpCheck \/ UpPs
  <2> USE DEF UpCheck, UpPs
  <2>1. TypeOK'
    BY <1>1, EventsAssumption DEF IInv, TypeOK, Alive
  <2>2. LockInv'
    BY <1>1 DEF IInv, LockInv, PastLock
  <2>3. ReadInv'
    BY <1>1 DEF IInv, ReadInv
  <2>4. ListInv'
    BY <1>1 DEF IInv, ListInv, Alive
  <2>5. RunInv'
    <3>1. \A q \in Procs : q \in netFound' <=> q \in netFound
      BY <1>1, NamesAssumption
    <3> QED BY <1>1, <3>1 DEF IInv, RunInv, Working, Doomed
  <2>6. OwnInv'
    BY <1>1 DEF IInv, OwnInv
  <2> QED BY <2>1, <2>2, <2>3, <2>4, <2>5, <2>6 DEF IInv
<1>2. CASE UpSave \/ UpUnpack
  <2> USE DEF UpSave, UpUnpack, Package
  <2>1. TypeOK'
    <3>1. Package \in Conf
      BY NamesAssumption DEF Conf
    <3> QED BY <1>2, <3>1 DEF IInv, TypeOK
  <2>2. LockInv'
    BY <1>2 DEF IInv, LockInv, PastLock
  <2>3. ReadInv'
    BY <1>2 DEF IInv, ReadInv, TypeOK
  <2>4. ListInv'
    BY <1>2 DEF IInv, ListInv, Alive
  <2>5. RunInv'
    BY <1>2 DEF IInv, RunInv, Working, Doomed
  <2>6. OwnInv'
    BY <1>2 DEF IInv, OwnInv
  <2> QED BY <2>1, <2>2, <2>3, <2>4, <2>5, <2>6 DEF IInv
<1>3. CASE UpMerge
  <2> USE DEF UpMerge, MergeInto
  <2>1. saved \in Conf /\ spoilt \in BOOLEAN /\ (netPc = "rename" => netCopy \in Conf)
    BY <1>3 DEF IInv, TypeOK, ReadInv
  <2>2. /\ spoilt' \in BOOLEAN
        /\ spoilt' = FALSE => spoilt = FALSE /\ (netPc = "rename" => netCopy.own = TRUE)
    <3>1. spoilt' = (spoilt \/ (netPc = "rename" /\ ~netCopy.own))
      BY <1>3
    <3>2. netPc = "rename" => netCopy.own \in BOOLEAN
      BY <2>1 DEF Conf
    <3> QED BY <2>1, <3>1, <3>2
  <2>3. TypeOK'
    BY <1>3, <2>1, <2>2 DEF IInv, TypeOK
  <2>4. LockInv'
    BY <1>3 DEF IInv, LockInv, PastLock
  <2>5. ReadInv'
    BY <1>3 DEF IInv, ReadInv
  <2>6. ListInv'
    BY <1>3 DEF IInv, ListInv, Alive
  <2>7. RunInv'
    BY <1>3 DEF IInv, RunInv, Working, Doomed
  <2>8. OwnInv'
    BY <1>3, <2>2 DEF IInv, OwnInv
  <2> QED BY <2>3, <2>4, <2>5, <2>6, <2>7, <2>8 DEF IInv
<1>4. CASE UpStart
  <2> USE DEF UpStart
  <2>1. /\ st' \in [Procs -> States] /\ LockInv' /\ UNCHANGED <<loaded, lock, missed>>
        /\ \A q \in Procs : Working(q)' => Working(q)
    BY <1>4, LaunchKeeps
  <2>2. TypeOK'
    BY <1>4, <2>1 DEF IInv, TypeOK
  <2>3. ReadInv'
    BY <1>4 DEF IInv, ReadInv
  <2>4. ListInv'
    BY <1>4 DEF IInv, ListInv
  <2>5. RunInv'
    BY <1>4, <2>1 DEF IInv, RunInv, Doomed
  <2>6. OwnInv'
    BY <1>4 DEF IInv, OwnInv
  <2> QED BY <2>1, <2>2, <2>3, <2>4, <2>5, <2>6 DEF IInv
<1> QED BY <1>1, <1>2, <1>3, <1>4, UpKillKeeps DEF RunUpgrade

-----------------------------------------------------------------------------
(* The surroundings.                                                       *)

LEMMA SurroundingsKeep == IInv /\ (Move \/ PowerCut) => IInv'
<1> SUFFICES ASSUME IInv, Move \/ PowerCut PROVE IInv'
  OBVIOUS
<1> USE DEF envVars, confVars, procVars, netVars, netLocals, upVars
<1>1. CASE Move
  <2> USE DEF Move
  <2>1. TypeOK'
    <3>1. net' \in Addrs /\ events' \in 0..MaxEvents
      BY <1>1, EventsAssumption DEF IInv, TypeOK
    <3> QED BY <1>1, <3>1 DEF IInv, TypeOK
  <2>2. LockInv'
    BY <1>1 DEF IInv, LockInv, PastLock
  <2>3. ReadInv'
    BY <1>1 DEF IInv, ReadInv
  <2>4. ListInv'
    BY <1>1 DEF IInv, ListInv, Alive
  <2>5. RunInv'
    BY <1>1 DEF IInv, RunInv, Working, Doomed
  <2>6. OwnInv'
    BY <1>1 DEF IInv, OwnInv
  <2> QED BY <2>1, <2>2, <2>3, <2>4, <2>5, <2>6 DEF IInv
<1>2. CASE PowerCut
  <2> USE DEF PowerCut, NetStops, NetEnd
  <2>1. /\ upPc' = "idle" /\ upFound' = {} /\ saved' = Unread
        /\ spoilt' \in BOOLEAN /\ (spoilt' = FALSE => spoilt = FALSE /\ upPc # "merge")
    BY <1>2, UpStopsKeeps
  <2>2. TypeOK'
    <3>1. events' \in 0..MaxEvents
      BY <1>2, EventsAssumption DEF IInv, TypeOK
    <3>2. st' \in [Procs -> States]
      BY <1>2 DEF States, Ended, Starting
    <3> QED BY <1>2, <2>1, <3>1, <3>2 DEF IInv, TypeOK
  <2>3. LockInv'
    BY <1>2, NamesAssumption DEF LockInv, PastLock
  <2>4. ReadInv' /\ ListInv' /\ RunInv'
    BY <1>2, <2>1 DEF ReadInv, ListInv, RunInv, Working
  <2>5. OwnInv'
    BY <1>2, <2>1 DEF IInv, OwnInv
  <2> QED BY <2>2, <2>3, <2>4, <2>5 DEF IInv
<1> QED BY <1>1, <1>2

LEMMA StutterKeeps == IInv /\ UNCHANGED vars => IInv'
  BY DEF IInv, TypeOK, LockInv, PastLock, ReadInv, ListInv, Alive, RunInv, Working, Doomed,
    OwnInv, vars, envVars, confVars, procVars, netVars, netLocals, upVars

LEMMA StepKeeps == IInv /\ [Next]_vars => IInv'
  BY ProcessKeeps, NetworkKeeps, UpgradeKeeps, SurroundingsKeep, StutterKeeps DEF Next

\* The inductive invariant of the processes, the scripts and the files they share.
THEOREM Inductive == Spec => []IInv
  BY InitIInv, StepKeeps, PTL DEF Spec

-----------------------------------------------------------------------------
(* Theorems.                                                               *)

\* Scripts and processes keep their variables within their types.
THEOREM TypeCorrect == Spec => []TypeOK
<1>1. IInv => TypeOK
  BY DEF IInv
<1> QED BY <1>1, Inductive, PTL

\* At most one process is past the lock file, for any number of them.
THEOREM SingleInstance == Spec => []OneInstance
<1>1. IInv => OneInstance
  BY DEF IInv, LockInv, OneInstance
<1> QED BY <1>1, Inductive, PTL

\* A process that works with an old configuration is about to be stopped, unless
\* it read the file during an upgrade or its signal came before its sigaction.
THEOREM NoStaleProcess == Spec => []RunsAsConfigured
<1>1. IInv => RunsAsConfigured
  BY DEF IInv, RunInv, Working, RunsAsConfigured
<1> QED BY <1>1, Inductive, PTL

\* The settings of the box survive upgrades and changes of address, unless an
\* upgrade was ended between tar and mv or a sed overtook its mv.
THEOREM SettingsSurvive == Spec => []SettingsKept
<1>1. IInv => SettingsKept
  BY DEF IInv, TypeOK, OwnInv, SettingsKept
<1> QED BY <1>1, Inductive, PTL
=============================================================================
