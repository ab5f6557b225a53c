---------------------------- MODULE MCExampleNfs ----------------------------
EXTENDS ExampleNfs

\* A frame of n bytes with ethertype et, IPv4 source address src and every
\* other byte equal to fill.
MkFrame(n, et, src, fill) ==
  [i \in 1 .. n |-> CASE i \in 13 .. 14 -> et[i - 12]
                      [] i \in 27 .. 30 -> src[i - 26]
                      [] OTHER -> fill]

\* Lengths at every bound the NFs test: the MACs (12), the TTL slice (23),
\* the IPv4 source (30), IPv4 and IPv6 destination bytes (34, 54).
MCPackets ==
  {MkFrame(n, et, src, fill) :
     n \in {12, 23, 29, 30, 33, 34, 53, 54},
     et \in {Ipv4, Ipv6, <<0, 0>>},
     src \in {TestBlockedIp, Reverse(TestBlockedIp)},
     fill \in {0, 1}}

MCBlockedDecls == {[type |-> "HashMap", size |-> 16], [type |-> "Array", size |-> 16]}

MCChances == {[num |-> 0, den |-> 1], [num |-> 1, den |-> 2], [num |-> 1, den |-> 1]}
=============================================================================
