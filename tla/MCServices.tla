----------------------------- MODULE MCServices -----------------------------
(* Processes and the services around them in one run: the process table    *)
(* with every process starting programs, the same with the shell alone     *)
(* starting them, the boot sequence, the signal queues, the message ports, *)
(* the network devices and the protocol code.  They share no state; `unit' *)
(* says which moves.                                                       *)
EXTENDS Process, Boot, Signals, Ipc, Net, Protocols

VARIABLE unit

\* Only init, the shell, starts programs.
Shell == INSTANCE Process WITH Spawners <- {1}, MaxBorn <- MaxBorn - 1

AllContents == [fs : {"fat", "ext2", "none"}, init : BOOLEAN] \ {[fs |-> "none", init |-> TRUE]}
TwoDevices == <<"hd0p1", "hd0">>
EmptyDisks == [d \in {"hd0p1", "hd0"} |-> [fs |-> "none", init |-> FALSE]]

TarFile(name, n) == [name |-> name, dir |-> FALSE, size |-> n]
TarDir(name) == [name |-> name, dir |-> TRUE, size |-> 0]
\* Repeated names, directories that exist already, parents that come late or are
\* files.
SomeArchives ==
    {<<TarDir(<<>>), TarFile(<<"init">>, 3), TarFile(<<"init">>, 1)>>,
     <<TarDir(<<"dev">>), TarFile(<<"dev", "a">>, 2), TarFile(<<"init">>, 1)>>,
     <<TarFile(<<"dev", "a">>, 1), TarDir(<<"dev">>), TarDir(<<"dev", "b">>)>>,
     <<TarFile(<<"dev">>, 0), TarFile(<<"dev", "a">>, 1), TarFile(<<"init">>, 1)>>}
FirstArchive == Packed(CHOOSE a \in SomeArchives : TRUE)

\* Two names that differ, and one that is the first when cut to one character.
SomeNames == {<<1>>, <<2>>, <<1, 1>>}

all == <<unit, vars, bootVars, sigVars, ipcVars, netVars, protoVars>>

ServicesInit ==
    /\ unit \in {"processes", "shell", "boot", "signals", "ipc", "net", "protocols"}
    /\ Init /\ BootInit /\ SigInit /\ IpcInit /\ NetInit /\ ProtoInit
    /\ unit # "boot" => holds = EmptyDisks /\ archive = FirstArchive

ServicesNext ==
    /\ UNCHANGED unit
    /\ \/ /\ unit = "processes" /\ Next
          /\ UNCHANGED <<bootVars, sigVars, ipcVars, netVars, protoVars>>
       \/ /\ unit = "shell" /\ Shell!Next
          /\ UNCHANGED <<bootVars, sigVars, ipcVars, netVars, protoVars>>
       \/ /\ unit = "boot" /\ BootNext
          /\ UNCHANGED <<vars, sigVars, ipcVars, netVars, protoVars>>
       \/ /\ unit = "signals" /\ SigNext
          /\ UNCHANGED <<vars, bootVars, ipcVars, netVars, protoVars>>
       \/ /\ unit = "ipc" /\ IpcNext
          /\ UNCHANGED <<vars, bootVars, sigVars, netVars, protoVars>>
       \/ /\ unit = "net" /\ NetNext
          /\ UNCHANGED <<vars, bootVars, sigVars, ipcVars, protoVars>>
       \/ /\ unit = "protocols" /\ ProtoNext
          /\ UNCHANGED <<vars, bootVars, sigVars, ipcVars, netVars>>

\* Process's Fairness for the machine where the shell starts programs; the CPU
\* executes the boot code.
ServicesFairness ==
    /\ \A p \in Pids :
          /\ WF_vars(unit = "shell" /\ (WaitDone(p) \/ WaitCopyFails(p)))
          /\ p # 1 => SF_vars(unit = "shell" /\ \E code \in Codes : Exit(p, code))
    /\ WF_bootVars(unit = "boot" /\ BootStep)

ServicesSpec == ServicesInit /\ [][ServicesNext]_all /\ ServicesFairness

\* The bit sets and the two lists of signal.c and queue.c implement the abstract
\* signal box: in order, one for one, nothing masked handed out, full exactly at
\* capacity.
SignalsImplementBox ==
    Box!BoxInit /\ [][unit = "signals" => Box!BoxNext]_<<unit, sigVars>>

\* When only the shell starts programs, as in this user land, SYS_waitpid
\* returns, once programs exit.
ShellWaitReturns ==
    \A p \in Pids : (unit = "shell" /\ waiting[p] # 0) ~> waiting[p] = 0

\* Whatever disks and archive it finds, and whichever mounts and loads fail,
\* kernel_init reaches sched_start, unless a line is submitted on the keyboard
\* before that.
BootReachesScheduler == unit = "boot" ~> stage \in {"running", "lost"}

\* Packets have one owner and devices one name (net.c); the cache of arp.c holds
\* what was announced last, and checksums verify.
NetworkSound == PacketsOwned /\ DevicesSound /\ ArpCacheFresh /\ ChecksumVerifies
=============================================================================
