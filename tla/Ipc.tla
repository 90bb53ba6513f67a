---------------------------------- MODULE Ipc ----------------------------------
(***************************************************************************)
(* Message ports and the registry of named services.  A name is a sequence *)
(* of letters; what is stored is cut to NameMax letters.                   *)
(***************************************************************************)
EXTENDS Naturals, Sequences

CONSTANTS Ports,      \* addresses a port may be allocated at
          ServiceNames, NameMax,
          DataLengths, IPC_MAX_DATA,
          MaxMessages, MaxServices \* bounds on g_next_msg_id and on the registry

VARIABLES port,     \* address -> a port, or NoPort
          registry, \* the services, in registration order
          g_next_msg_id,
          received, \* address -> id of the last message received from this port
          cut_names \* some service was registered under a name that was cut

ipcVars == <<port, registry, g_next_msg_id, received, cut_names>>

NoPort == [inbox |-> <<>>, pending |-> 0, live |-> FALSE]
Live == {p \in Ports : port[p].live}

IpcInit ==
  /\ port = [p \in Ports |-> NoPort] /\ registry = <<>>
  /\ g_next_msg_id = 1 /\ received = [p \in Ports |-> 0] /\ cut_names = FALSE

ipc_copy_name(name) == SubSeq(name, 1, IF Len(name) < NameMax THEN Len(name) ELSE NameMax)
Matches(name) == {i \in 1 .. Len(registry) : registry[i].name = name}
ipc_find_service(name) == CHOOSE i \in Matches(name) : \A j \in Matches(name) : i <= j
ipc_lookup_service(name) == registry[ipc_find_service(name)].port

ipc_port_create(p) ==
  /\ ~port[p].live
  /\ port' = [port EXCEPT ![p].live = TRUE] /\ received' = [received EXCEPT ![p] = 0]
  /\ UNCHANGED <<registry, g_next_msg_id, cut_names>>

(* ipc_unregister_port, ipc_free_queue, free *)
Unregistered(p) == SelectSeq(registry, LAMBDA s : s.port # p)
\* Mutant of ipc_port_destroy: the port's services stay registered.
DestroyKeepsServices(p) ==
  /\ port' = [port EXCEPT ![p] = NoPort]
  /\ UNCHANGED <<registry, g_next_msg_id, received, cut_names>>

ipc_port_destroy(p) ==
  /\ registry' = Unregistered(p) /\ port' = [port EXCEPT ![p] = NoPort]
  /\ UNCHANGED <<g_next_msg_id, received, cut_names>>

ipc_unregister_port(p) ==
  registry' = Unregistered(p) /\ UNCHANGED <<port, g_next_msg_id, received, cut_names>>

ipc_send(p, len) ==
  /\ len <= IPC_MAX_DATA
  /\ g_next_msg_id' = g_next_msg_id + 1
  /\ port' = [port EXCEPT ![p].inbox = Append(@, [id |-> g_next_msg_id, len |-> len]),
                          ![p].pending = @ + 1]
  /\ UNCHANGED <<registry, received, cut_names>>

ipc_recv(p) ==
  /\ port[p].inbox # <<>>
  /\ received' = [received EXCEPT ![p] = Head(port[p].inbox).id]
  /\ port' = [port EXCEPT ![p].inbox = Tail(@), ![p].pending = @ - 1]
  /\ UNCHANGED <<registry, g_next_msg_id, cut_names>>

ipc_register_service(name, p) ==
  /\ Matches(name) = {}
  /\ registry' = Append(registry, [name |-> ipc_copy_name(name), port |-> p])
  /\ cut_names' = (cut_names \/ Len(name) > NameMax)
  /\ UNCHANGED <<port, g_next_msg_id, received>>

ipc_unregister_service(name) ==
  /\ Matches(name) # {}
  /\ LET i == ipc_find_service(name) IN
       registry' = SubSeq(registry, 1, i - 1) \o SubSeq(registry, i + 1, Len(registry))
  /\ UNCHANGED <<port, g_next_msg_id, received, cut_names>>

IpcNext ==
  \/ \E p \in Ports : ipc_port_create(p)
  \/ \E p \in Live : ipc_port_destroy(p) \/ ipc_unregister_port(p) \/ ipc_recv(p)
  \/ \E p \in Live, len \in DataLengths : g_next_msg_id <= MaxMessages /\ ipc_send(p, len)
  \/ \E p \in Live, name \in ServiceNames : Len(registry) < MaxServices /\ ipc_register_service(name, p)
  \/ \E name \in ServiceNames : ipc_unregister_service(name)

IpcSpec == IpcInit /\ [][IpcNext]_ipcVars

--------------------------------------------------------------------------------
(* A name looked up leads to a port that still exists, whatever was         *)
(* destroyed since, and an inbox holds as many messages as pending says, in *)
(* the order they were sent and after the last one received.                *)
PortsSound ==
  /\ \A i \in 1 .. Len(registry) : registry[i].port \in Live
  /\ \A p \in Live :
       LET ids == <<received[p]>> \o [i \in 1 .. Len(port[p].inbox) |-> port[p].inbox[i].id]
       IN /\ port[p].pending = Len(port[p].inbox)
          /\ \A i, j \in 1 .. Len(ids) : i < j => ids[i] < ids[j]

(* As long as every registered name fits, a name has one owner, which a     *)
(* lookup finds; a name that is cut can be registered twice, since the test *)
(* for a duplicate looks for the name as given.                             *)
NamesHaveOneOwner ==
  ~cut_names => \A i \in 1 .. Len(registry) :
                  ipc_lookup_service(registry[i].name) = registry[i].port
                  /\ Matches(registry[i].name) = {i}

(* Names lead to their one owner's live port, and ports deliver in order.   *)
IpcSound == PortsSound /\ NamesHaveOneOwner
================================================================================
