------------------------------ MODULE ExampleNfs ------------------------------
(***************************************************************************)
(* The example network functions (src/examples/functions/NAME/src/lib.rs)   *)
(* frame through the user-space Packet API (src/nf/src/packet.rs, the impl *)
(* for &mut [u8]) and the Map API (src/nf/src/map.rs, a RawMap lookup of   *)
(* the key's bytes), after install_chain has written the two test maps     *)
(* BLOCKED_IPS and UPCALL_LIKELIHOOD (src/pulley/src/lib.rs 289-299).      *)
(*                                                                         *)
(* A frame is a sequence of byte values.  A u32 built from bytes is        *)
(* represented by its four base-256 digits, most significant first, so     *)
(* u32::from_be_bytes keeps the digit order and the value's native memory  *)
(* image, which is what a map lookup compares, is the reversed sequence:   *)
(* both targets of SUPPORTED_ARCHES (x86_64, aarch64) are little-endian.   *)
(* The UPCALL_LIKELIHOOD value and the random u32 are compared as numbers  *)
(* of U32Bits bits instead of 32: what matters is where u32::MAX is.       *)
(***************************************************************************)
EXTENDS Naturals, Sequences, SequencesExt

CONSTANTS
  Packets,        \* the frames a core receives (sequences of bytes)
  BlockedDecls,   \* chain.toml declarations of blocked_ips: [type, size]
  Chances,        \* --loadbalance-chance values, as [num, den]
  U32Bits,        \* the width the u32 likelihood arithmetic is done in
  Panic           \* the "return" of an NF that panicked

ASSUME U32Bits \in 1 .. 8

NFs == {"macswap", "decrement-ip-ttl", "dest-ip-branch", "filter-ip",
        "load-balance"}

VARIABLES
  blockedDecl,  \* the declaration of the BLOCKED_IPS map
  chance,       \* config.loadbalance_chance
  blockedIps,   \* BLOCKED_IPS: key bytes -> bool, the entries written
  likelihood,   \* UPCALL_LIKELIHOOD: key bytes -> u32, the entries written
  stage,        \* "install", "run", or "installPanic" (an unwrap failed)
  nf,           \* the NF that ran last, or "none"
  frame,        \* the frame it ran on
  out,          \* the frame after it ran
  ret           \* the index it returned, or Panic

vars == <<blockedDecl, chance, blockedIps, likelihood, stage, nf, frame, out,
          ret>>

U32Max == 2^U32Bits - 1

Ipv4 == <<8, 0>>              \* ethertype 0x0800
Ipv6 == <<134, 221>>          \* ethertype 0x86DD

\* The source address the agent puts on the block list (lib.rs 292).
TestBlockedIp == <<192, 168, 0, 69>>

None == [ok |-> FALSE, v |-> <<>>]
Some(x) == [ok |-> TRUE, v |-> x]

\* <&mut [u8] as Packet>::slice_from: get_mut(offset..offset + len).
SliceFrom(p, off, len) ==
  IF off + len <= Len(p) THEN Some(SubSeq(p, off + 1, off + len)) ELSE None

\* <&mut [u8] as Packet>::slice: get_mut(0..len).
Slice(p, len) == SliceFrom(p, 0, len)

\* u32::from_be_bytes: the digits, most significant first, are the bytes.
U32FromBeBytes(b) == b

\* The bytes of a u32 in memory (to_ne_bytes, or the key pointer passed to
\* bpf_map_lookup_elem) on a little-endian target.
NativeBytes(x) == Reverse(x)

\* The native bytes of the u32 array index i.
IndexBytes(i) == <<i % 256, (i \div 256) % 256, 0, 0>>

\* bpf_map_lookup_elem: an Array holds every index below its size, an
\* unwritten one as zeroes; a HashMap holds the keys written to it.
MapGet(decl, m, k, zero) ==
  CASE k \in DOMAIN m -> Some(m[k])
    [] decl.type = "Array" /\ \E i \in 0 .. decl.size - 1 : IndexBytes(i) = k
         -> Some(zero)
    [] OTHER -> None

\* bpf_map_update_elem with BPF_ANY: an Array rejects an index beyond its
\* size, a full HashMap a new key.
MapPut(decl, m, k, v) ==
  IF \/ decl.type = "Array" /\ \A i \in 0 .. decl.size - 1 : IndexBytes(i) # k
     \/ decl.type = "HashMap" /\ k \notin DOMAIN m
                              /\ Cardinality(DOMAIN m) >= decl.size
  THEN None
  ELSE Some((k :> v) @@ m)

\* (config.loadbalance_chance * (u32::MAX as f64)) as u32: the float-to-int
\* cast truncates and saturates at 0 and u32::MAX.
LikelihoodFor(c) ==
  LET x == c.num * U32Max
  IN CASE x <= 0 -> 0
       [] x \div c.den >= U32Max -> U32Max
       [] OTHER -> x \div c.den

\* macswap: swap the two MAC addresses of a frame of at least 12 bytes.
Macswap(p) ==
  [ret |-> 0,
   pkt |-> IF Slice(p, 12).ok
           THEN [i \in 1 .. Len(p) |-> CASE i <= 6  -> p[i + 6]
                                         [] i <= 12 -> p[i - 6]
                                         [] OTHER   -> p[i]]
           ELSE p]

\* decrement-ip-ttl: in a frame of at least 23 bytes, saturating_sub(1) on
\* the IPv4 TTL (byte 22) or IPv6 hop limit (byte 21); always Yes.
DecrementIpTtl(p) ==
  LET et == SubSeq(p, 13, 14)
      ttlIdx == 14 + (IF et = Ipv4 THEN 8 ELSE 7)
  IN [ret |-> 0,
      pkt |-> IF Slice(p, 23).ok /\ et \in {Ipv4, Ipv6}
              THEN [p EXCEPT ![ttlIdx + 1] = IF @ = 0 THEN 0 ELSE @ - 1]
              ELSE p]

\* dest-ip-branch: Left for a frame that is not IP; otherwise the low bit
\* of the last destination address byte (14 + 19 for IPv4, 14 + 39 for
\* IPv6) picks Left/Right, and a frame too short for it falls to the match
\* arm `_ => unreachable!()`.
DestIpBranch(p) ==
  LET et == SliceFrom(p, 12, 2)
      b == SliceFrom(p, 14 + (IF et.v = Ipv4 THEN 19 ELSE 39), 1)
  IN [ret |-> CASE ~(et.ok /\ et.v \in {Ipv4, Ipv6}) -> 0
                [] b.ok /\ b.v[1] % 2 \in 0 .. 3 -> b.v[1] % 2
                [] OTHER -> Panic,
      pkt |-> p]

\* filter-ip: Block (1) anything but IPv4; read the source address at
\* 14 + 12 with slice_from(..).unwrap(); Block it when blocked_ips maps it
\* to true, else Allow (0).
FilterIp(p, decl, blocked) ==
  LET et == SliceFrom(p, 12, 2)
      a == SliceFrom(p, 14 + 12, 4)
      hit == MapGet(decl, blocked, NativeBytes(U32FromBeBytes(a.v)), FALSE)
  IN [ret |-> CASE ~(et.ok /\ et.v = Ipv4) -> 1
                [] ~a.ok -> Panic
                [] hit.ok /\ hit.v -> 1
                [] OTHER -> 0,
      pkt |-> p]

\* load-balance: Upcall (1) when upcall_likelihood[0] is u32::MAX or beats
\* the random u32, else KeepXdp (0).  Key 0 is written before any frame,
\* so the map's declared type does not change the lookup.
LoadBalance(p, lik, rnd) ==
  LET v == MapGet([type |-> "Array", size |-> 1], lik, NativeBytes(<<0, 0, 0, 0>>), 0)
  IN [ret |-> IF v.ok /\ (v.v = U32Max \/ v.v > rnd) THEN 1 ELSE 0,
      pkt |-> p]

Init ==
  /\ blockedDecl \in BlockedDecls
  /\ chance \in Chances
  /\ blockedIps = <<>>
  /\ likelihood = <<>>
  /\ stage = "install"
  /\ nf = "none"
  /\ frame = <<>>
  /\ out = <<>>
  /\ ret = 0

\* The test-map writes of install_chain's loop over the loaded objects:
\* each map.update(..).unwrap() panics the agent when the write fails.
InstallTestMaps ==
  /\ stage = "install"
  /\ LET b == MapPut(blockedDecl, blockedIps, TestBlockedIp, TRUE)
         l == MapPut([type |-> "Array", size |-> 1], likelihood,
                     <<0, 0, 0, 0>>, LikelihoodFor(chance))
     IN IF b.ok /\ l.ok
        THEN /\ blockedIps' = b.v
             /\ likelihood' = l.v
             /\ stage' = "run"
        ELSE /\ stage' = "installPanic"
             /\ UNCHANGED <<blockedIps, likelihood>>
  /\ UNCHANGED <<blockedDecl, chance, nf, frame, out, ret>>

\* user_nf_program for NF f on a received frame; a panic ends the thread.
Process ==
  /\ stage = "run"
  /\ ret # Panic
  /\ \E f \in NFs, p \in Packets, rnd \in 0 .. U32Max :
       LET r == CASE f = "macswap"          -> Macswap(p)
                  [] f = "decrement-ip-ttl" -> DecrementIpTtl(p)
                  [] f = "dest-ip-branch"   -> DestIpBranch(p)
                  [] f = "filter-ip"        -> FilterIp(p, blockedDecl, blockedIps)
                  [] f = "load-balance"     -> LoadBalance(p, likelihood, rnd)
       IN /\ nf' = f
          /\ frame' = p
          /\ out' = r.pkt
          /\ ret' = r.ret
  /\ UNCHANGED <<blockedDecl, chance, blockedIps, likelihood, stage>>

Next == InstallTestMaps \/ Process

Spec == Init /\ [][Next]_vars

TypeOK ==
  /\ stage \in {"install", "run", "installPanic"}
  /\ nf \in NFs \cup {"none"}
  /\ ret \in (0 .. 1) \cup {Panic}
  /\ Len(out) = Len(frame)

\* No example NF panics on a frame it is given: spec 6 says no panic is
\* acceptable on the hot path, and user_nf_program runs the NF on whatever
\* the socket received (main.rs 414-427).
NfNoPanic == ret # Panic

\* filter-ip blocks an IPv4 frame whose source address is the one the agent
\* put on the block list (lib.rs 292, key bytes 192.168.0.69).
BlockedSourceBlocked ==
  (/\ nf = "filter-ip"
   /\ SliceFrom(frame, 12, 2) = Some(Ipv4)
   /\ SliceFrom(frame, 26, 4) = Some(TestBlockedIp))
  => ret = 1

=============================================================================
