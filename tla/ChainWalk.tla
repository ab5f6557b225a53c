------------------------------ MODULE ChainWalk ------------------------------
(***************************************************************************)
(* What a chain promises a packet (spec 4.C, 4.H): the packet enters at   *)
(* the root NF; an NF returns one of its variants; the NF's link state     *)
(* maps that index to an action; Tailcall and Upcall move the packet to    *)
(* their target, and any other action ends the walk with that verdict.     *)
(* A Tail NF always transmits.  A tail call may instead end the walk with *)
(* Abort, but only once the packet has made MaxTailCalls tail calls: the  *)
(* kernel refuses it past its limit (spec 4.E), and nothing else may.     *)
(* Where a step is carried out is not visible here, so a tail call may or *)
(* may not count towards the limit (user space does not count its own).  *)
(*                                                                         *)
(* The link table is an input this module reads and never changes: the     *)
(* specification constrains only the walk's own variables.                 *)
(***************************************************************************)
EXTENDS Naturals, Sequences

CONSTANTS
  Fns,           \* the NF ids
  NoPkt,         \* "no packet in flight"
  MaxTailCalls   \* the kernel's limit on tail calls per packet

VARIABLES
  linkState,  \* input: XdpLinkState of each NF
  variants,   \* input: number of return variants of each NF
  isRoot,     \* input: XdpLink::root
  at,         \* the NF the packet is at, or NoPkt
  verdict,    \* "none", or the action that ended the walk
  hops        \* the tail calls counted against the limit

walkVars == <<at, verdict, hops>>

\* XdpLinkState::act is defined for return index r.
InRange(s, r) == IF s.kind = "Tail" THEN TRUE ELSE r < Len(s.acts)

\* XdpLinkState::act.
Act(s, r) == IF s.kind = "Tail" THEN [kind |-> "Tx"] ELSE s.acts[r + 1]

Moves(a) == a.kind \in {"Tailcall", "Upcall"}

\* The kernel refuses a tail call once the limit is reached (spec 4.E: a
\* tail call that returns is treated as abort); an upcall never is.
Refusable(a) == a.kind = "Tailcall" /\ hops = MaxTailCalls

\* The counts a move may leave: a tail call may count, an upcall never.
HopsAfter(a) ==
  IF a.kind = "Tailcall" THEN {hops, hops + 1} \cap 0 .. MaxTailCalls
  ELSE {hops}

Init ==
  /\ at = NoPkt
  /\ verdict = "none"
  /\ hops = 0

Arrive ==
  /\ at = NoPkt
  /\ verdict = "none"
  /\ \E f \in Fns : isRoot[f] /\ at' = f
  /\ hops' = 0
  /\ UNCHANGED verdict

Step ==
  /\ at \in Fns
  /\ verdict = "none"
  /\ \E r \in 0 .. variants[at] - 1 :
       /\ InRange(linkState[at], r)
       /\ LET a == Act(linkState[at], r)
          IN \/ Moves(a) /\ at' = a.id /\ verdict' = verdict
                /\ hops' \in HopsAfter(a)
             \/ ~Moves(a) /\ at' = at /\ verdict' = a.kind /\ hops' = hops
             \/ Refusable(a) /\ at' = at /\ verdict' = "Abort" /\ hops' = hops

Finish ==
  /\ verdict # "none"
  /\ at' = NoPkt
  /\ verdict' = "none"
  /\ hops' = hops

Next == Arrive \/ Step \/ Finish

Spec == Init /\ [][Next]_walkVars

=============================================================================
