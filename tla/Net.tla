---------------------------------- MODULE Net ----------------------------------
(***************************************************************************)
(* Network devices with their receive queues, and sockets.                 *)
(***************************************************************************)
EXTENDS Naturals, Sequences

CONSTANTS Devices, DeviceNames, LoName, \* allocated devices; names; the loopback's name
          Mtu, FrameLengths, MaxPackets,
          Sockets

VARIABLES dev,         \* device -> its name, registration and queue
          net_devices, \* g_net_devices, in registration order
          packets,     \* packets allocated and not freed, as <<serial, length>>
          serial,
          early,       \* a device was registered with packets already queued
          sock         \* socket -> "none" or "open"

netVars == <<dev, net_devices, packets, serial, early, sock>>

Unallocated == [name |-> LoName, up |-> FALSE, alive |-> FALSE, queue |-> <<>>]
Alive == {d \in Devices : dev[d].alive}

--------------------------------------------------------------------------------
NetInit ==
  /\ dev = [d \in Devices |-> Unallocated] /\ net_devices = <<>>
  /\ packets = {} /\ serial = 0 /\ early = FALSE
  /\ sock = [s \in Sockets |-> "none"]

net_device_alloc(d, name) ==
  /\ ~dev[d].alive
  /\ dev' = [dev EXCEPT ![d] = [Unallocated EXCEPT !.name = name, !.alive = TRUE]]
  /\ UNCHANGED <<net_devices, packets, serial, early, sock>>

NamesTaken == {dev[net_devices[i]].name : i \in 1 .. Len(net_devices)}

(* The queue is initialised again, whatever it holds. *)
net_register_device(d) ==
  /\ dev[d].name \notin NamesTaken
  /\ dev' = [dev EXCEPT ![d].up = TRUE, ![d].queue = <<>>]
  /\ early' = (early \/ dev[d].queue # <<>>)
  /\ net_devices' = Append(net_devices, d)
  /\ UNCHANGED <<packets, serial, sock>>

Drained(d) == packets \ {dev[d].queue[i] : i \in 1 .. Len(dev[d].queue)}

net_unregister_device(d) ==
  /\ net_devices' = SelectSeq(net_devices, LAMBDA x : x # d)
  /\ packets' = Drained(d)
  /\ dev' = [dev EXCEPT ![d].up = FALSE, ![d].queue = <<>>]
  /\ UNCHANGED <<serial, early, sock>>

\* Mutant of net_device_free: queued packets are not freed.
FreeLeavesPackets(d) ==
  /\ net_devices' = SelectSeq(net_devices, LAMBDA x : x # d)
  /\ dev' = [dev EXCEPT ![d] = Unallocated]
  /\ UNCHANGED <<packets, serial, early, sock>>

net_device_free(d) ==
  /\ net_devices' = SelectSeq(net_devices, LAMBDA x : x # d)
  /\ packets' = Drained(d)
  /\ dev' = [dev EXCEPT ![d] = Unallocated]
  /\ UNCHANGED <<serial, early, sock>>

(* net_packet_alloc and the copy, at the tail of the queue *)
net_rx_push(d, len) ==
  /\ len > 0
  /\ serial' = serial + 1
  /\ packets' = packets \cup {<<serial, len>>}
  /\ dev' = [dev EXCEPT ![d].queue = Append(@, <<serial, len>>)]
  /\ UNCHANGED <<net_devices, early, sock>>

(* Whatever the buffer's length the whole packet is consumed. *)
net_rx_pop(d) ==
  /\ dev[d].queue # <<>>
  /\ packets' = packets \ {Head(dev[d].queue)}
  /\ dev' = [dev EXCEPT ![d].queue = Tail(@)]
  /\ UNCHANGED <<net_devices, serial, early, sock>>

(* The only driver: what is sent is received by the same device. *)
loopback_xmit(d, len) == net_rx_push(d, len)

net_send(d, len) == len <= Mtu /\ loopback_xmit(d, len)

net_socket_create(s) ==
  /\ sock[s] = "none" /\ sock' = [sock EXCEPT ![s] = "open"]
  /\ UNCHANGED <<dev, net_devices, packets, serial, early>>

(* Nothing ever puts a packet on a socket's own queue, so closing frees the *)
(* socket alone.                                                            *)
net_socket_close(s) ==
  /\ sock[s] = "open" /\ sock' = [sock EXCEPT ![s] = "none"]
  /\ UNCHANGED <<dev, net_devices, packets, serial, early>>

Found(name) == {d \in Alive : dev[d].up /\ dev[d].name = name}
net_socket_sendto(s, len) ==
  sock[s] = "open" /\ \E d \in Found(LoName) : net_send(d, len)

NetNext ==
  \/ \E d \in Devices, name \in DeviceNames : net_device_alloc(d, name)
  \/ \E d \in Alive : net_register_device(d) \/ net_unregister_device(d)
                      \/ net_device_free(d) \/ net_rx_pop(d)
  \/ \E d \in Alive, len \in FrameLengths : serial < MaxPackets /\ net_rx_push(d, len)
  \/ \E s \in Sockets : net_socket_create(s) \/ net_socket_close(s)
  \/ \E s \in Sockets, len \in FrameLengths : serial < MaxPackets /\ net_socket_sendto(s, len)

NetSpec == NetInit /\ [][NetNext]_netVars

--------------------------------------------------------------------------------
(* No packet is leaked, freed twice or left on a freed device: what is      *)
(* allocated is what the queues hold, each packet once, until a device that *)
(* already had packets is registered.                                       *)
PacketsOwned ==
  LET queued == {<<d, i>> : d \in Alive, i \in 1 .. MaxPackets} IN
  /\ ~early => packets = {dev[q[1]].queue[q[2]] : q \in
                            {r \in queued : r[2] <= Len(dev[r[1]].queue)}}
  /\ \A d \in Devices : \A i, j \in 1 .. Len(dev[d].queue) :
       /\ dev[d].queue[i] \in packets
       /\ i < j => dev[d].queue[i][1] < dev[d].queue[j][1]

(* The device list holds live devices, each name once. *)
DevicesSound ==
  /\ \A i \in 1 .. Len(net_devices) : dev[net_devices[i]].alive /\ dev[net_devices[i]].up
  /\ \A i, j \in 1 .. Len(net_devices) :
       dev[net_devices[i]].name = dev[net_devices[j]].name => i = j
================================================================================
