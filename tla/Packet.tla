-------------------------------- MODULE Packet --------------------------------
(***************************************************************************)
(* decode_ethernet_ipv4_tcp: ten checks in order, each of which reads some *)
(* bytes, then the fields of the summary.  A packet has a size and bytes;  *)
(* behind its size the memory holds bytes too, and they may be anything:   *)
(* what a check would do with them is defined, so that it can be shown     *)
(* that none ever does.                                                    *)
(***************************************************************************)
EXTENDS Integers

Byte == 0 .. 255

Packets == [size : Nat, byte : [Nat -> Byte]]

\* Two and four bytes, by their positions.
Two(offset) == {offset, offset + 1}
Four(offset) == Two(offset) \cup Two(offset + 2)

ReadU16(p, offset) == p.byte[offset] * 256 + p.byte[offset + 1]

VlanTypes == {33024, 34984}     \* 0x8100 and 0x88A8

Tagged(p) == ReadU16(p, 12) \in VlanTypes

IpOffset(p) == IF Tagged(p) THEN 18 ELSE 14

EtherType(p) == ReadU16(p, IF Tagged(p) THEN 16 ELSE 12)

Version(p) == p.byte[IpOffset(p)] \div 16

IpHeaderLength(p) == (p.byte[IpOffset(p)] % 16) * 4

TotalLength(p) == ReadU16(p, IpOffset(p) + 2)

Protocol(p) == p.byte[IpOffset(p) + 9]

\* More fragments, or a fragment offset: the low 14 bits.
Fragment(p) == ReadU16(p, IpOffset(p) + 6) % 16384

TcpOffset(p) == IpOffset(p) + IpHeaderLength(p)

TcpHeaderLength(p) == (p.byte[TcpOffset(p) + 12] \div 16) * 4

Checks == 1 .. 10

\* Check i returns with an error.
Fails(p, i) ==
    CASE i = 1 -> p.size < 14
      [] i = 2 -> Tagged(p) /\ p.size < 18
      [] i = 3 -> EtherType(p) # 2048   \* 0x0800
      [] i = 4 -> p.size < IpOffset(p) + 20
      [] i = 5 -> Version(p) # 4
      [] i = 6 -> IpHeaderLength(p) < 20 \/ p.size < IpOffset(p) + IpHeaderLength(p)
      [] i = 7 -> TotalLength(p) < IpHeaderLength(p) + 20 \/ p.size < IpOffset(p) + TotalLength(p)
      [] i = 8 -> Protocol(p) # 6
      [] i = 9 -> Fragment(p) # 0
      [] i = 10 -> \/ TcpHeaderLength(p) < 20
                   \/ TcpOffset(p) + TcpHeaderLength(p) > IpOffset(p) + TotalLength(p)

\* The positions that check i reads, and for i = 11 the fields of the summary.
Reads(p, i) ==
    CASE i = 2 -> Two(12)
      [] i = 3 -> IF Tagged(p) THEN Two(16) ELSE {}
      [] i = 5 -> {IpOffset(p)}
      [] i = 7 -> Two(IpOffset(p) + 2)
      [] i = 8 -> {IpOffset(p) + 9}
      [] i = 9 -> Two(IpOffset(p) + 6)
      [] i = 10 -> {TcpOffset(p) + 12}
      [] i = 11 -> Four(IpOffset(p) + 12) \cup Four(IpOffset(p) + 16)
                     \cup Four(TcpOffset(p)) \cup {TcpOffset(p) + 13}
      [] OTHER -> {}

\* The decoder comes to check i.
Reaches(p, i) == \A j \in Checks : j < i => ~ Fails(p, j)

Accepts(p) == Reaches(p, 11)

\* The fields of an accepted packet.
Summary(p) ==
    [vlan_tagged |-> Tagged(p),
     source_ip |-> [i \in 0 .. 3 |-> p.byte[IpOffset(p) + 12 + i]],
     destination_ip |-> [i \in 0 .. 3 |-> p.byte[IpOffset(p) + 16 + i]],
     source_port |-> ReadU16(p, TcpOffset(p)),
     destination_port |-> ReadU16(p, TcpOffset(p) + 2),
     tcp_flags |-> p.byte[TcpOffset(p) + 13]]

\* The end of the IP datagram.
End(p) == IpOffset(p) + TotalLength(p)
=============================================================================
