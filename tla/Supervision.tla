---------------------------- MODULE Supervision ----------------------------
(***************************************************************************)
(* The processes of LBeacon on one box and the scripts that stop and start *)
(* them: rc.local at boot, network.sh when the router's address changes    *)
(* (from cron), upgrade_lbeacon_crontab.sh when a newer package lies in    *)
(* /tmp.  What they share is the lock file of single_running_instance and  *)
(* config.conf.  A step is one command of a script or one call of main; of *)
(* each script one is at work at a time.                                   *)
(* An operator X_Fault is X with one plausible mistake; no action uses it. *)
(***************************************************************************)
EXTENDS Naturals, FiniteSets

CONSTANTS
  Procs,        \* identities of processes, those of ended ones to be used again
  NoProc,       \* nobody holds the lock file
  Unread,       \* no value: a variable of a script or a process that has ended
  Addrs,        \* addresses a router may have
  PackageAddr,  \* gateway_addr in the config.conf of a package
  MaxEvents     \* changes of router, packages and power cuts considered

\* config.conf: gateway_addr, and whether the rest (area, coordinates, ...) is
\* what was set up on this box rather than what came in a package.
Conf == [gateway_addr: Addrs, own: BOOLEAN]
Package == [gateway_addr |-> PackageAddr, own |-> FALSE]

\* The scripts, as kill_LBeacon.sh finds them: "LBeacon" is in their paths too.
Network == "network.sh"
Upgrade == "upgrade_lbeacon_crontab.sh"

ASSUME NamesAssumption ==
  /\ NoProc \notin Procs /\ Network \notin Procs /\ Upgrade \notin Procs
  /\ PackageAddr \in Addrs /\ Unread \notin Conf \cup Addrs
ASSUME EventsAssumption == MaxEvents \in Nat

VARIABLES
  net,        \* the router's address (ip r)
  events,     \* events so far
  conf,       \* config.conf
  saved,      \* config_save.conf
  st,         \* where each process is
  loaded,     \* the configuration each process works with
  lock,       \* the process that holds the lock file, or NoProc
  netPc, gatewayAddr, confGatewayAddr, \* network.sh,
  netCopy,    \* what its sed has read of config.conf,
  netFound,   \* and what its kill has listed beside its own commands
  upPc, upFound,                       \* upgrade_lbeacon_crontab.sh
  missed,     \* history: processes that read config.conf during an upgrade, or
              \* were told to stop between get_config and sigaction
  spoilt      \* history: the merge of an upgrade was prevented or overtaken

envVars  == <<net, events>>
confVars == <<conf, saved>>
procVars == <<st, loaded, lock, missed>>
netLocals == <<netPc, gatewayAddr, confGatewayAddr, netCopy>>
netVars  == <<netLocals, netFound>>
upVars   == <<upPc, upFound>>
vars == <<envVars, confVars, procVars, netVars, upVars, spoilt>>

Ended    == {"done", "refused", "failed"}
Starting == {"new", "locked", "init"}   \* before sigaction
Alive    == {p \in Procs : st[p] \notin Ended}

\* Identities are interchangeable: a new process takes a fixed one of those not in use.
Fresh(unused) == CHOOSE p \in unused : TRUE

Init ==
  /\ net \in Addrs /\ events = 0
  /\ conf \in [gateway_addr: Addrs, own: {TRUE}] /\ saved = Unread
  /\ st = [p \in Procs |-> IF p = Fresh(Procs) THEN "new" ELSE "done"]
  /\ loaded = [p \in Procs |-> Unread] /\ lock = NoProc /\ missed = {}
  /\ netPc = "idle" /\ gatewayAddr = Unread /\ confGatewayAddr = Unread
  /\ netCopy = Unread /\ netFound = {} /\ upPc = "idle" /\ upFound = {} /\ spoilt = FALSE

-----------------------------------------------------------------------------
(* A process, from main to its end.                                        *)

Goto(p, s) == st' = [st EXCEPT ![p] = s]

\* The process ends; the kernel gives its lock back.  A signal for it that a script
\* has not sent yet will reach nobody.
End(p, s) ==
  /\ Goto(p, s) /\ lock' = IF lock = p THEN NoProc ELSE lock
  /\ loaded' = [loaded EXCEPT ![p] = Unread] /\ missed' = missed \ {p}
  /\ netFound' = netFound \ {p} /\ upFound' = upFound \ {p}

\* single_running_instance opens the lock file and asks for the lock without
\* waiting (F_SETLK).  main gives up when another process has it.
SetLock(p, available) ==
  /\ st[p] = "new"
  /\ IF available THEN lock' = p /\ Goto(p, "locked") /\ UNCHANGED <<loaded, missed, netFound, upFound>>
                  ELSE End(p, "refused")
  /\ UNCHANGED <<envVars, confVars, netLocals, upPc, spoilt>>

LockFile_Fault(p) == SetLock(p, lock = NoProc \/ st[lock] = "stop")
LockFile(p) == SetLock(p, lock = NoProc)

\* get_config.
GetConfig(p) ==
  /\ st[p] = "locked" /\ Goto(p, "init")
  /\ loaded' = [loaded EXCEPT ![p] = conf]
  /\ missed' = IF upPc \in {"unpack", "merge"} THEN missed \cup {p} ELSE missed
  /\ UNCHANGED <<envVars, confVars, lock, netVars, upVars, spoilt>>

\* sigaction: from here on SIGINT asks the process to stop.
Handle(p) ==
  /\ st[p] = "init" /\ Goto(p, "run")
  /\ UNCHANGED <<envVars, confVars, loaded, lock, missed, netVars, upVars, spoilt>>

\* A file that cannot be opened or written, a bad configuration, a failed start.
Fail(p) ==
  /\ st[p] \in Starting \cup {"run"} /\ End(p, "failed")
  /\ UNCHANGED <<envVars, confVars, netLocals, upPc, spoilt>>

\* The stopping process exits (see Lifecycle).
Exit(p) ==
  /\ st[p] = "stop" /\ End(p, "done")
  /\ UNCHANGED <<envVars, confVars, netLocals, upPc, spoilt>>

Process(p) ==
  LockFile(p) \/ GetConfig(p) \/ Handle(p) \/ Fail(p) \/ Exit(p)

-----------------------------------------------------------------------------
(* What the scripts call.                                                  *)

\* auto_LBeacon.sh: a process is started in the background.
Launch ==
  /\ Alive # Procs /\ Goto(Fresh(Procs \ Alive), "new")
  /\ UNCHANGED <<loaded, lock, missed>>

\* kill_LBeacon.sh, once it has its list: SIGINT for the processes of S.  One that
\* is before its sigaction ignores it, as auto_LBeacon.sh started it with "&": a
\* shell without job control has such a command ignore SIGINT.
Sigint(S) ==
  /\ st' = [p \in Procs |-> IF p \in S /\ st[p] = "run" THEN "stop" ELSE st[p]]
  /\ loaded' = [p \in Procs |-> IF p \in S /\ st[p] = "run" THEN Unread ELSE loaded[p]]
  /\ missed' = {p \in Procs : IF p \in S THEN st[p] = "init" ELSE p \in missed}
  /\ UNCHANGED lock

NetEnd ==
  netPc' = "idle" /\ gatewayAddr' = Unread /\ confGatewayAddr' = Unread /\ netCopy' = Unread

\* A script that ends early: all it had begun and its commands with it.  An
\* upgrade that ends between tar and mv leaves the package's config.conf.
NetStops == NetEnd /\ netFound' = {}
UpStops ==
  /\ upPc' = "idle" /\ upFound' = {}
  /\ saved' = Unread   \* the file stays, but the next upgrade writes it anew
  /\ spoilt' = (spoilt \/ upPc = "merge")

\* SIGINT for a script: it ends if it is between two commands, or waits for one
\* that dies of the signal (the tar, sed, cp and mv of the scripts have "LBeacon"
\* in their arguments), and goes on otherwise.  The script that calls
\* kill_LBeacon.sh is listed too, and ends if the pipeline does, of which ps may
\* have listed a part that had not yet been given its own name.
MaySpareNet(S) == UNCHANGED netVars \/ (Network \in S /\ NetStops)
MaySpareUp(S) ==
  UNCHANGED <<upVars, saved, spoilt>> \/ (Upgrade \in S /\ UpStops)

-----------------------------------------------------------------------------
(* network.sh.                                                             *)

\* Both addresses are read.  No list has this script yet.
NetRead ==
  /\ netPc = "idle" /\ netPc' = "ping"
  /\ gatewayAddr' = net /\ confGatewayAddr' = conf.gateway_addr
  /\ upFound' = upFound \ {Network}
  /\ UNCHANGED <<envVars, confVars, procVars, netCopy, netFound, upPc, spoilt>>

\* The router does not answer: the interface is restarted.
NetDown ==
  /\ netPc = "ping" /\ NetEnd
  /\ UNCHANGED <<envVars, confVars, procVars, netFound, upVars, spoilt>>

\* It does: config.conf is read again and compared.
NetCompare ==
  /\ netPc = "ping"
  /\ IF conf.gateway_addr # gatewayAddr
     THEN netPc' = "sed" /\ UNCHANGED <<gatewayAddr, confGatewayAddr, netCopy>>
     ELSE NetEnd
  /\ UNCHANGED <<envVars, confVars, procVars, netFound, upVars, spoilt>>

\* sed -i reads config.conf, replacing the address read first if it is there, ...
Substitute(old, new) ==
  /\ netPc = "sed" /\ netPc' = "rename"
  /\ netCopy' = IF conf.gateway_addr = old THEN [conf EXCEPT !.gateway_addr = new] ELSE conf
  /\ gatewayAddr' = Unread /\ confGatewayAddr' = Unread   \* used no more
  /\ UNCHANGED <<envVars, confVars, procVars, netFound, upVars, spoilt>>

NetSed_Fault == Substitute(gatewayAddr, confGatewayAddr)
NetSed == Substitute(confGatewayAddr, gatewayAddr)

\* ... and renames what it wrote to config.conf, whatever is there by now.
NetRename ==
  /\ netPc = "rename" /\ netPc' = "ps" /\ conf' = netCopy /\ netCopy' = Unread
  /\ UNCHANGED <<envVars, saved, procVars, gatewayAddr, confGatewayAddr, netFound, upVars, spoilt>>

\* kill_LBeacon.sh: what "LBeacon" is found in is listed, then signalled.
NetPsList(found) ==
  /\ netPc = "ps" /\ netPc' = "kill"
  /\ netFound' = found \cup (IF upPc = "idle" THEN {} ELSE {Upgrade})
  /\ UNCHANGED <<envVars, confVars, procVars, gatewayAddr, confGatewayAddr, netCopy, upVars, spoilt>>

NetPs_FirstOnly == NetPsList(IF Alive = {} THEN {} ELSE {Fresh(Alive)})
NetPs == NetPsList(Alive)

NetKill ==
  /\ netPc = "kill" /\ Sigint(netFound) /\ MaySpareUp(netFound)
  /\ \/ netPc' = "start" /\ netFound' = {} /\ UNCHANGED <<gatewayAddr, confGatewayAddr, netCopy>>
     \/ NetStops
  /\ UNCHANGED <<envVars, conf>>

\* auto_LBeacon.sh, at once.
NetStart ==
  /\ netPc = "start" /\ NetEnd /\ Launch
  /\ UNCHANGED <<envVars, confVars, netFound, upVars, spoilt>>

RunNetwork ==
  NetRead \/ NetDown \/ NetCompare \/ NetSed \/ NetRename \/ NetPs \/ NetKill \/ NetStart

-----------------------------------------------------------------------------
(* upgrade_lbeacon_crontab.sh.                                             *)

\* A newer package is found.  No list has this script yet.
UpCheck ==
  /\ upPc = "idle" /\ events < MaxEvents /\ upPc' = "ps" /\ events' = events + 1
  /\ netFound' = netFound \ {Upgrade}
  /\ UNCHANGED <<net, confVars, procVars, netPc, gatewayAddr, confGatewayAddr, netCopy, upFound, spoilt>>

UpPs ==
  /\ upPc = "ps" /\ upPc' = "kill"
  /\ upFound' = Alive \cup (IF netPc = "idle" THEN {} ELSE {Network})
  /\ UNCHANGED <<envVars, confVars, procVars, netVars, spoilt>>

UpKill ==
  /\ upPc = "kill" /\ Sigint(upFound) /\ MaySpareNet(upFound)
  /\ \/ upPc' = "save" /\ upFound' = {} /\ UNCHANGED <<saved, spoilt>>
     \/ UpStops
  /\ UNCHANGED <<envVars, conf>>

UpSave ==
  /\ upPc = "save" /\ upPc' = "unpack" /\ saved' = conf
  /\ UNCHANGED <<envVars, conf, procVars, netVars, upFound, spoilt>>

\* tar puts the package's config.conf in place.
UpUnpack ==
  /\ upPc = "unpack" /\ upPc' = "merge" /\ conf' = Package
  /\ UNCHANGED <<envVars, saved, procVars, netVars, upFound, spoilt>>

\* upgrade_lbeacon_config.sh puts the saved values back, and moves the result in
\* place by one mv.  A sed that has read the package's file will overtake it.
MergeInto(result) ==
  /\ upPc = "merge" /\ upPc' = "start" /\ conf' = result /\ saved' = Unread
  /\ spoilt' = (spoilt \/ (netPc = "rename" /\ ~netCopy.own))
  /\ UNCHANGED <<envVars, procVars, netVars, upFound>>

UpMerge_Fault == MergeInto([saved EXCEPT !.own = conf.own])
UpMerge == MergeInto(saved)

UpStart ==
  /\ upPc = "start" /\ upPc' = "idle" /\ Launch
  /\ UNCHANGED <<envVars, confVars, netVars, upFound, spoilt>>

RunUpgrade == UpCheck \/ UpPs \/ UpKill \/ UpSave \/ UpUnpack \/ UpMerge \/ UpStart

-----------------------------------------------------------------------------
(* The surroundings.                                                       *)

\* The box is moved to another router.
Move ==
  /\ events < MaxEvents /\ events' = events + 1
  /\ net' \in Addrs \ {net}
  /\ UNCHANGED <<confVars, procVars, netVars, upVars, spoilt>>

\* The power fails, at any point of a script; rc.local starts LBeacon at boot.
PowerCut ==
  /\ events < MaxEvents /\ events' = events + 1
  /\ st' = [p \in Procs |-> IF p = Fresh(Procs) THEN "new" ELSE "done"]
  /\ lock' = NoProc /\ missed' = {} /\ loaded' = [p \in Procs |-> Unread]
  /\ NetStops /\ UpStops
  /\ UNCHANGED <<net, conf>>

-----------------------------------------------------------------------------
Next == (\E p \in Procs : Process(p)) \/ RunNetwork \/ RunUpgrade \/ Move \/ PowerCut

Spec == Init /\ [][Next]_vars

\* cron runs network.sh again and again, scripts go on, a starting process gets
\* through its calls.  The router answers again and again.  Nothing is assumed of
\* a process told to stop: Exit is not fair.
Fairness ==
  /\ WF_vars(NetRead) /\ SF_vars(NetCompare)
  /\ WF_vars(NetSed \/ NetRename \/ NetPs \/ NetKill \/ NetStart)
  /\ WF_vars(UpPs \/ UpKill \/ UpSave \/ UpUnpack \/ UpMerge \/ UpStart)
  /\ \A p \in Procs : WF_vars(LockFile(p) \/ GetConfig(p) \/ Handle(p))
FairSpec == Spec /\ Fairness

-----------------------------------------------------------------------------
(* Properties.                                                             *)

States == Ended \cup Starting \cup {"run", "stop"}

TypeOK ==
  /\ net \in Addrs /\ events \in 0..MaxEvents
  /\ conf \in Conf /\ saved \in Conf \cup {Unread}
  /\ st \in [Procs -> States] /\ loaded \in [Procs -> Conf \cup {Unread}]
  /\ lock \in Procs \cup {NoProc}
  /\ netPc \in {"idle", "ping", "sed", "rename", "ps", "kill", "start"}
  /\ netCopy \in Conf \cup {Unread}
  /\ gatewayAddr \in Addrs \cup {Unread} /\ confGatewayAddr \in Addrs \cup {Unread}
  /\ netFound \subseteq Procs \cup {Upgrade}
  /\ upPc \in {"idle", "ps", "kill", "save", "unpack", "merge", "start"}
  /\ upFound \subseteq Procs \cup {Network}
  /\ missed \subseteq Procs /\ spoilt \in BOOLEAN

PastLock(p) == st[p] \in {"locked", "init", "run", "stop"}

\* "only one running instance" (LBeacon.h): of the processes the scripts start,
\* without waiting for those they stopped, at most one is past the lock, a
\* stopping one included.
OneInstance == \A p, q \in Procs : PastLock(p) /\ PastLock(q) => p = q

\* The signal that will stop process p is still to come.
Doomed(p) == netPc = "ps" \/ (netPc = "kill" /\ p \in netFound)

\* A process that works with something else than config.conf says is about to be
\* stopped, unless it read the file during an upgrade or its signal came between
\* get_config and sigaction: no restart by network.sh leaves any other process on
\* the old address, though the kill of an upgrade may stop network.sh after its sed.
RunsAsConfigured ==
  \A p \in Procs :
    st[p] \in {"init", "run"} /\ loaded[p] # conf /\ upPc # "merge"
      => p \in missed \/ Doomed(p)

\* What was set up on the box is lost in two ways only: the upgrade ends between
\* tar and mv, by a power cut or by network.sh's kill, which finds the upgrade and
\* its tar; or a sed of network.sh that read the package's file renames its copy
\* after the mv.  No other interleaving of the scripts loses it.
SettingsKept == upPc = "merge" \/ spoilt \/ conf.own

\* config.conf follows the router: an upgrade may put an older address back and
\* network.sh may miss its chance, but not for ever.
ConfFollowsNet == <>[](conf.gateway_addr = net)

\* "Change config and restart LBeacon" (network.sh:14): once the scripts are
\* through and no process is on its way, one that network.sh started and the lock
\* file turned away has left another one running.
Restarted ==
  /\ netPc = "idle" /\ upPc = "idle"
  /\ \A p \in Procs : st[p] \in {"done", "refused", "run"}
  /\ \E p \in Procs : st[p] = "refused"
  => \E p \in Procs : st[p] = "run"
=============================================================================
