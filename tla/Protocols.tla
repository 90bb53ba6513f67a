------------------------------- MODULE Protocols -------------------------------
(***************************************************************************)
(* The ARP cache, and the Internet checksums over bytes 0 .. Base - 1.     *)
(***************************************************************************)
EXTENDS Naturals, Sequences

CONSTANTS Ips, Macs, NET_ARP_CACHE_SIZE,
          Base, MaxBytes \* a byte's values, and the longest data summed

VARIABLES g_arp_cache,
          last_mac, \* address -> the hardware address it announced last
          segment   \* the data a checksum was computed over, with the checksums

protoVars == <<g_arp_cache, last_mac, segment>>

NET_HTONS(w) == (w % Base) * Base + w \div Base

(* The sum of the 16-bit words, an odd byte padded with a zero. *)
WordSum(data) ==
  LET sum[i \in 0 .. Len(data) \div 2] ==
        IF i = 0 THEN 0
        ELSE LET s == sum[i - 1] IN s + data[2 * i - 1] * Base + data[2 * i]
  IN sum[Len(data) \div 2] + IF Len(data) % 2 = 1 THEN data[Len(data)] * Base ELSE 0

(* while (sum >> 16) sum = (sum & 0xffff) + (sum >> 16) *)
Folded(total) ==
  LET W == Base * Base
      fold[n \in Nat] == IF n < W THEN n ELSE fold[(n % W) + n \div W]
  IN fold[total]

Complement(w) == Base * Base - 1 - w
net_checksum(data) == Complement(Folded(WordSum(data)))

net_pseudo_checksum(src, dst, protocol, data) ==
  Complement(Folded(WordSum(src) + WordSum(dst) + protocol + Len(data) + WordSum(data)))

(* Protocol and length are added with their bytes swapped; TCP's is the same. *)
net_udp_checksum(src, dst, protocol, data) ==
  Complement(Folded(WordSum(src) + WordSum(dst) + NET_HTONS(protocol)
                    + NET_HTONS(Len(data)) + WordSum(data)))

(* A u16 in network order, and as a little-endian store leaves it. *)
Network(w) == <<w \div Base, w % Base>>
Host(w) == <<w % Base, w \div Base>>

(* A header is the words before its checksum, then the checksum. *)
net_ipv4_fill_header(words) == words \o Host(net_checksum(words \o <<0, 0>>))
net_ipv4_header_valid(header) == net_checksum(header) = 0

Checksum(data, address, protocol) ==
  /\ segment = <<>>
  /\ segment' = <<[data |-> data,
                   plain |-> net_checksum(data),
                   pseudo |-> net_pseudo_checksum(address, address, protocol, data \o <<0, 0>>),
                   udp |-> net_udp_checksum(address, address, protocol, data \o <<0, 0>>),
                   address |-> address, protocol |-> protocol]>>
  /\ UNCHANGED <<g_arp_cache, last_mac>>

--------------------------------------------------------------------------------
Slot(ip) == {i \in DOMAIN g_arp_cache : g_arp_cache[i].valid /\ g_arp_cache[i].ip = ip}
Unused == {i \in DOMAIN g_arp_cache : ~g_arp_cache[i].valid}
Lowest(S) == CHOOSE i \in S : \A j \in S : i <= j

(* The entry of this address, else an unused one, else the first. *)
ArpSlot(ip) == IF Slot(ip) # {} THEN Lowest(Slot(ip))
               ELSE IF Unused # {} THEN Lowest(Unused) ELSE 1

net_arp_insert(ip, mac) ==
  g_arp_cache' = [g_arp_cache EXCEPT ![ArpSlot(ip)] = [ip |-> ip, mac |-> mac, valid |-> TRUE]]

(* A request and a reply both teach the sender's address. *)
net_arp_process(ip, mac) ==
  /\ segment = <<>>
  /\ net_arp_insert(ip, mac)
  /\ last_mac' = [last_mac EXCEPT ![ip] = mac]
  /\ UNCHANGED segment

ProtoInit ==
  /\ g_arp_cache = [i \in 1 .. NET_ARP_CACHE_SIZE |-> [ip |-> 0, mac |-> 0, valid |-> FALSE]]
  /\ last_mac = [ip \in Ips |-> 0]
  /\ segment = <<>>

(* The checksums are functions of their data: they are taken in one cache state. *)
ProtoNext ==
  \/ \E ip \in Ips, mac \in Macs : net_arp_process(ip, mac)
  \/ /\ Unused = DOMAIN g_arp_cache
     /\ \E n \in 0 .. MaxBytes : \E data \in [1 .. n -> 0 .. Base - 1] :
          \E address \in [1 .. 2 -> {1, Base - 1}], protocol \in {1} :
            Checksum(data, address, protocol)

ProtoSpec == ProtoInit /\ [][ProtoNext]_protoVars

--------------------------------------------------------------------------------
(* An address is cached at most once, with the hardware address it          *)
(* announced last, also after entries were overwritten in a full cache.     *)
ArpCacheFresh ==
  \A ip \in Ips : \A i \in Slot(ip) : Slot(ip) = {i} /\ g_arp_cache[i].mac = last_mac[ip]

(* The checksums verify: data sent with its checksum in network order gives *)
(* zero when it is summed again.  A header that net_ipv4_fill_header wrote  *)
(* holds the checksum in host order, and is valid exactly when the swapped  *)
(* checksum completes the sum too.                                          *)
ChecksumVerifies ==
  \A k \in DOMAIN segment :
    LET s == segment[k]
        even == IF Len(s.data) % 2 = 1 THEN Append(s.data, 0) ELSE s.data
    IN /\ net_checksum(even \o Network(s.plain)) = 0
       /\ Len(s.data) % 2 = 0 =>
            /\ net_pseudo_checksum(s.address, s.address, s.protocol, s.data \o Network(s.pseudo)) = 0
            /\ net_udp_checksum(s.address, s.address, s.protocol, s.data \o Network(s.udp)) = 0
            /\ net_ipv4_header_valid(net_ipv4_fill_header(s.data))
                 <=> Folded(WordSum(s.data) + NET_HTONS(s.plain)) = Base * Base - 1
================================================================================
