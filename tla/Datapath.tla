------------------------------ MODULE Datapath ------------------------------
(***************************************************************************)
(* One packet's walk through an installed chain, as the code carries it   *)
(* out:                                                                    *)
(*  - the in-kernel wrappers (src/chainsmith/include/xdp_wrapper.in.rs,    *)
(*    xdp_wrapper_chain.in.rs): a Tail NF transmits; a Body NF's return    *)
(*    index selects a kind from acts_map and, for a tail call, a program   *)
(*    from progs_map; an upcall stamps (prog_id, index) into the headroom  *)
(*    and redirects to the socket of a random core in xsk_map;             *)
(*  - the user-space entry and run-to-completion loop of dataplane_core    *)
(*    (src/pulley/src/main.rs 354-446), with the user-space wrapper        *)
(*    (src/chainsmith/include/lib.in.rs and chain.rs 441-451) that returns *)
(*    usize::MAX when it is not given the NF's maps.                       *)
(* The tables it reads are the ones install_chain wrote (module Install).  *)
(* Frame ownership is module Umem's subject; here a packet is always       *)
(* received and its headroom is always 8 bytes long.                       *)
(***************************************************************************)
EXTENDS Naturals, Sequences, TLC

CONSTANTS
  Fns,           \* the NF ids
  NoNf,          \* a value that is no NF
  MaxTailCalls   \* the kernel's MAX_TAIL_CALL_CNT (33 since Linux 5.12)

VARIABLES
  linkState,   \* input: link_states
  variants,    \* input: number of return variants of each NF
  hasMaps,     \* input: the NF declares maps (map_names non-empty)
  loaded,      \* input: NFs with a program fd and raw_maps entry
  myState,     \* input: my_state_map[0] of each object
  instanceIds, \* input: instance_ids
  xskMap,      \* input: xsk_map of each object
  actsMap,     \* input: acts_map of each object
  progsMap,    \* input: progs_map of each object
  attached,    \* input: the NF attached to the interface
  pkt,         \* "none", "kernel", "socket" (redirected, in an rx ring),
               \* "user", "done" or "panic" (the core thread panicked)
  at,          \* the NF the packet is at (in "socket": the one that upcalled)
  hr,          \* the headroom: [progId, ret]
  verdict,     \* "none", or the action that ended the walk
  tc           \* tail calls the packet has made in the kernel

dpVars == <<pkt, at, hr, verdict, tc>>

\* `usize::MAX as u32`, the arity-failure return of the user-space wrapper.
\* Its value (2^32 - 1) is beyond TLC's integers; all that matters is that
\* it exceeds every action count.
ArityFailRet == 2^30

\* The acts_map kinds that end the walk in the kernel.
KernelVerdict == (0 :> "Tx") @@ (1 :> "Drop") @@ (2 :> "Abort") @@ (5 :> "Pass")

\* XdpLinkState::act is defined for return index r (else indexing panics).
InRange(s, r) == IF s.kind = "Tail" THEN TRUE ELSE r < Len(s.acts)

\* XdpLinkState::act.
Act(s, r) == IF s.kind = "Tail" THEN [kind |-> "Tx"] ELSE s.acts[r + 1]

Moves(a) == a.kind \in {"Tailcall", "Upcall"}

\* bpf_get_prandom_u32() % num_cores, or 0 when num_cores is 1.
TargetCores(n) == IF n # 1 THEN 0 .. n - 1 ELSE {0}

\* What user_nf_program returns for NF f: without its raw maps (map_hax has
\* no entry, so it gets &mut []) an NF that declares maps fails the
\* `if let [m0, ..] = maps` arity check.
UserReturns(f) ==
  IF hasMaps[f] /\ f \notin loaded THEN {ArityFailRet}
  ELSE 0 .. variants[f] - 1

DpInit ==
  /\ pkt = "none"
  /\ at = NoNf
  /\ hr = [progId |-> 0, ret |-> 0]
  /\ verdict = "none"
  /\ tc = 0

End(v) ==
  /\ pkt' = "done"
  /\ verdict' = v

\* A packet reaches the attached root program.
Arrive ==
  /\ pkt = "none"
  /\ attached # NoNf
  /\ pkt' = "kernel"
  /\ at' = attached
  /\ tc' = 0
  /\ UNCHANGED <<hr, verdict>>

\* The tail wrapper: run the NF, transmit.
KernelTail ==
  /\ pkt = "kernel"
  /\ linkState[at].kind = "Tail"
  /\ End("Tx")
  /\ UNCHANGED <<at, hr, tc>>

\* The chain wrapper, an acts_map kind that ends the walk.
KernelEnd ==
  /\ pkt = "kernel"
  /\ linkState[at].kind = "Body"
  /\ \E r \in 0 .. variants[at] - 1 :
       /\ actsMap[at][r] \in DOMAIN KernelVerdict
       /\ End(KernelVerdict[actsMap[at][r]])
  /\ UNCHANGED <<at, hr, tc>>

\* Kind 3: write (prog_id, out) into the grown headroom and redirect to a
\* random core's socket; a missing xsk_map entry aborts.
KernelUpcall ==
  /\ pkt = "kernel"
  /\ linkState[at].kind = "Body"
  /\ \E r \in 0 .. variants[at] - 1 :
       /\ actsMap[at][r] = 3
       /\ \E c \in TargetCores(myState[at].numCores) :
            IF c \in xskMap[at]
            THEN /\ pkt' = "socket"
                 /\ hr' = [progId |-> myState[at].progId, ret |-> r]
                 /\ verdict' = verdict
            ELSE End("Abort") /\ hr' = hr
  /\ UNCHANGED <<at, tc>>

\* Kind 4: bpf_tail_call through progs_map[out].  The call returns, and the
\* wrapper aborts, when the slot is empty or the packet has already made
\* MAX_TAIL_CALL_CNT tail calls.
KernelTailcall ==
  /\ pkt = "kernel"
  /\ linkState[at].kind = "Body"
  /\ \E r \in 0 .. variants[at] - 1 :
       /\ actsMap[at][r] = 4
       /\ IF progsMap[at][r] # NoNf /\ tc < MaxTailCalls
          THEN at' = progsMap[at][r] /\ tc' = tc + 1 /\ UNCHANGED <<pkt, verdict>>
          ELSE End("Abort") /\ UNCHANGED <<at, tc>>
  /\ UNCHANGED hr

\* The entry into user space (main.rs 403-412): instance_ids.get(src).unwrap(),
\* act(ret) and next_nf().unwrap(); any of them failing panics the thread.
UserEntry ==
  /\ pkt = "socket"
  /\ LET src == instanceIds[hr.progId]
         ok == /\ src # NoNf
               /\ InRange(linkState[src], hr.ret)
               /\ Moves(Act(linkState[src], hr.ret))
     IN IF ok THEN /\ at' = Act(linkState[src], hr.ret).id
                   /\ pkt' = "user"
              ELSE /\ pkt' = "panic"
                   /\ at' = at
  /\ UNCHANGED <<hr, verdict, tc>>

\* One turn of the loop (main.rs 414-436) that moves to the next NF.
UserMove ==
  /\ pkt = "user"
  /\ \E r \in UserReturns(at) :
       /\ InRange(linkState[at], r)
       /\ Moves(Act(linkState[at], r))
       /\ at' = Act(linkState[at], r).id
  /\ UNCHANGED <<pkt, hr, verdict, tc>>

\* One turn that breaks out: Tx transmits, anything else drops.
UserEnd ==
  /\ pkt = "user"
  /\ \E r \in UserReturns(at) :
       /\ InRange(linkState[at], r)
       /\ ~Moves(Act(linkState[at], r))
       /\ End(Act(linkState[at], r).kind)
  /\ UNCHANGED <<at, hr, tc>>

\* act() indexing a Body's actions out of range panics the core thread.
UserPanic ==
  /\ pkt = "user"
  /\ \E r \in UserReturns(at) : ~InRange(linkState[at], r)
  /\ pkt' = "panic"
  /\ UNCHANGED <<at, hr, verdict, tc>>

\* The frame is sent or recycled; the next packet may come.
Recycle ==
  /\ pkt = "done"
  /\ pkt' = "none"
  /\ at' = NoNf
  /\ verdict' = "none"
  /\ UNCHANGED <<hr, tc>>

DpNext ==
  \/ Arrive
  \/ KernelTail
  \/ KernelEnd
  \/ KernelUpcall
  \/ KernelTailcall
  \/ UserEntry
  \/ UserMove
  \/ UserEnd
  \/ UserPanic
  \/ Recycle

DpTypeOK ==
  /\ pkt \in {"none", "kernel", "socket", "user", "done", "panic"}
  /\ at \in Fns \cup {NoNf}
  /\ pkt \in {"kernel", "socket", "user"} => at \in Fns
  /\ hr \in [progId : Nat, ret : Nat]
  /\ verdict \in {"none", "Tx", "Drop", "Abort", "Pass"}
  /\ (pkt = "done") = (verdict # "none")
  /\ tc \in 0 .. MaxTailCalls

=============================================================================
