------------------------------- MODULE Install -------------------------------
(***************************************************************************)
(* pulley's install_chain (src/pulley/src/lib.rs 204-431): the agent's     *)
(* loading and wiring of the links chainsmith built.                       *)
(*                                                                         *)
(* chain.links is the Vec make_concrete collected from a HashMap, so it    *)
(* holds one link per NF in an arbitrary order.  Pass 1 walks it, notes    *)
(* the root and loads every NF that has an eBPF payload; pass 2 walks it   *)
(* again and, for every loaded Body link, writes my_state_map, the dense   *)
(* prog_id -> NF table instance_ids, xsk_map, acts_map and progs_map.      *)
(* Last, the root's object is attached to the interface.                   *)
(*                                                                         *)
(* An object's kernel maps are abstracted to their contents: a program fd  *)
(* is the NF it loads, a socket fd the core it belongs to.  The chain's    *)
(* links are inputs: they are variables this module never changes.         *)
(***************************************************************************)
EXTENDS Naturals, Sequences, FiniteSets, SequencesExt

CONSTANTS
  Fns,       \* the NF ids (one link each)
  NoNf,      \* a value that is no NF
  XdpCores   \* config.xdp_cores: the number of upcall sockets

VARIABLES
  linkState,   \* input: XdpLink::state of each NF
  isRoot,      \* input: XdpLink::root
  disableXdp,  \* input: XdpLink::disable_xdp (no eBPF payload was built)
  variants,    \* input: number of return variants of each NF
  order,       \* chain.links: the NFs in vector order
  phase,       \* "idle", "load" (pass 1), "patch" (pass 2), "done"
  idx,         \* 1-based position in order of the link being handled
  rootIdx,     \* root_idx
  loaded,      \* the NFs in prog_fds / linked_ebpfs / raw_maps
  myState,     \* my_state_map[0] of each NF's object
  instanceIds, \* instance_ids: prog_id -> NF
  xskMap,      \* xsk_map of each object: the cores whose socket is set
  actsMap,     \* acts_map of each object: slot -> kind
  progsMap,    \* progs_map of each object: slot -> NF whose program it holds
  statesIn,    \* the NFs with an entry in link_states
  attached,    \* the NF whose program is attached to the interface
  iresult      \* how install_chain ended

installVars == <<order, phase, idx, rootIdx, loaded, myState, instanceIds,
                 xskMap, actsMap, progsMap, statesIn, attached, iresult>>

Ids == 0 .. Cardinality(Fns) - 1

Cores == 0 .. XdpCores - 1

RECURSIVE PowAtLeast(_, _)
PowAtLeast(n, p) == IF p >= n THEN p ELSE PowAtLeast(n, 2 * p)

\* usize::next_power_of_two: the smallest power of two >= n (1 for 0).
NextPowerOfTwo(n) == PowAtLeast(n, 1)

\* Max entries of acts_map and progs_map in f's generated object.
Slots(f) == NextPowerOfTwo(variants[f])

\* Faulty variant of ToKind: Pass encoded as Tx.
ToKindPassAsTx(a) ==
  IF a.kind = "Pass" THEN 0
  ELSE [Tx |-> 0, Drop |-> 1, Abort |-> 2, Upcall |-> 3, Tailcall |-> 4,
        Pass |-> 5][a.kind]

\* LinkAction::to_kind.
ToKind(a) ==
  [Tx |-> 0, Drop |-> 1, Abort |-> 2, Upcall |-> 3, Tailcall |-> 4,
   Pass |-> 5][a.kind]

InstallInit ==
  /\ order = <<>>
  /\ phase = "idle"
  /\ idx = 1
  /\ rootIdx = NoNf
  /\ loaded = {}
  /\ myState = [f \in Fns |-> [progId |-> 0, numCores |-> 0]]
  /\ instanceIds = [id \in Ids |-> NoNf]
  /\ xskMap = [f \in Fns |-> {}]
  /\ actsMap = [f \in Fns |-> [s \in 0 .. Slots(f) - 1 |-> 0]]
  /\ progsMap = [f \in Fns |-> [s \in 0 .. Slots(f) - 1 |-> NoNf]]
  /\ statesIn = {}
  /\ attached = NoNf
  /\ iresult = "running"

\* The agent receives the chain: the links come in any order.
Start ==
  /\ phase = "idle"
  /\ order' \in SetToSeqs(Fns)
  /\ phase' = "load"
  /\ UNCHANGED <<idx, rootIdx, loaded, myState, instanceIds, xskMap, actsMap,
                 progsMap, statesIn, attached, iresult>>

\* Pass 1, one link: the last root seen wins; an NF without eBPF is skipped
\* (`continue`), so it gets no program fd and no raw maps.
LoadLink ==
  /\ phase = "load"
  /\ idx <= Len(order)
  /\ LET f == order[idx] IN
       /\ rootIdx' = IF isRoot[f] THEN f ELSE rootIdx
       /\ loaded' = IF disableXdp[f] THEN loaded ELSE loaded \cup {f}
  /\ idx' = idx + 1
  /\ UNCHANGED <<order, phase, myState, instanceIds, xskMap, actsMap,
                 progsMap, statesIn, attached, iresult>>

\* The end of pass 1 and the loop over linked_ebpfs, whose writes to test
\* maps (BLOCKED_IPS, UPCALL_LIKELIHOOD) nothing here reads.
EndLoad ==
  /\ phase = "load"
  /\ idx > Len(order)
  /\ phase' = "patch"
  /\ idx' = 1
  /\ UNCHANGED <<order, rootIdx, loaded, myState, instanceIds, xskMap,
                 actsMap, progsMap, statesIn, attached, iresult>>

\* Faulty variant of BadSlots: an index equal to the map's max entries is
\* taken to fit.
BadSlotsPastEnd(f) ==
  LET acts == linkState[f].acts
  IN {s \in 0 .. Len(acts) - 1 :
        s > Slots(f)
        \/ (acts[s + 1].kind = "Tailcall" /\ acts[s + 1].id \notin loaded)}

\* The action indices whose write fails: acts_map.update beyond the map's
\* max entries, or a Tailcall target with no program fd (BadNfLink).
BadSlots(f) ==
  LET acts == linkState[f].acts
  IN {s \in 0 .. Len(acts) - 1 :
        s >= Slots(f)
        \/ (acts[s + 1].kind = "Tailcall" /\ acts[s + 1].id \notin loaded)}

Patched(f) == linkState[f].kind = "Body" /\ f \in loaded

\* Pass 2, a link that is Tail or was not loaded: only link_states.
PatchSkip ==
  /\ phase = "patch"
  /\ idx <= Len(order)
  /\ ~Patched(order[idx])
  /\ statesIn' = statesIn \cup {order[idx]}
  /\ idx' = idx + 1
  /\ UNCHANGED <<order, phase, rootIdx, loaded, myState, instanceIds, xskMap,
                 actsMap, progsMap, attached, iresult>>

\* Faulty variant of PatchBody's instance_ids write: prog_ids handed out
\* densely over patched links only, while my_state_map gets the link index.
DenseInstanceIds ==
  [instanceIds EXCEPT ![Cardinality({g \in statesIn : Patched(g)})] =
     order[idx]]

\* Faulty variant of StateFor: the 1-based position as prog_id.
StateForOneBased == [progId |-> idx, numCores |-> XdpCores]

\* The DataplaneState put into my_state_map: the link's index in the vector.
StateFor == [progId |-> idx - 1, numCores |-> XdpCores]

InstanceIdsUpdate ==
  [instanceIds EXCEPT ![idx - 1] = order[idx]]

\* Pass 2, a loaded Body link whose table writes all succeed.
PatchBody ==
  /\ phase = "patch"
  /\ idx <= Len(order)
  /\ Patched(order[idx])
  /\ BadSlots(order[idx]) = {}
  /\ LET f == order[idx]
         acts == linkState[f].acts
     IN /\ myState' = [myState EXCEPT ![f] = StateFor]
        /\ instanceIds' = InstanceIdsUpdate
        /\ xskMap' = [xskMap EXCEPT ![f] = Cores]
        /\ actsMap' = [actsMap EXCEPT ![f] =
             [s \in DOMAIN @ |-> IF s < Len(acts) THEN ToKind(acts[s + 1])
                                 ELSE @[s]]]
        /\ progsMap' = [progsMap EXCEPT ![f] =
             [s \in DOMAIN @ |->
                IF s < Len(acts) /\ acts[s + 1].kind = "Tailcall"
                THEN acts[s + 1].id ELSE @[s]]]
        /\ statesIn' = statesIn \cup {f}
  /\ idx' = idx + 1
  /\ UNCHANGED <<order, phase, rootIdx, loaded, attached, iresult>>

\* Pass 2, a loaded Body link with a failing write: the first failing index
\* decides the error, install_chain returns it.
PatchFail ==
  /\ phase = "patch"
  /\ idx <= Len(order)
  /\ Patched(order[idx])
  /\ BadSlots(order[idx]) # {}
  /\ phase' = "done"
  /\ iresult' = IF Min(BadSlots(order[idx])) >= Slots(order[idx])
                THEN "MapUpdateFail" ELSE "BadNfLink"
  /\ UNCHANGED <<order, idx, rootIdx, loaded, myState, instanceIds, xskMap,
                 actsMap, progsMap, statesIn, attached>>

\* The last step: no root is MissingRootNf; a root that was never loaded
\* (disable_xdp) reaches unreachable!(); otherwise the root is attached.
Attach ==
  /\ phase = "patch"
  /\ idx > Len(order)
  /\ phase' = "done"
  /\ attached' = IF rootIdx \in loaded THEN rootIdx ELSE NoNf
  /\ iresult' = CASE rootIdx = NoNf -> "MissingRootNf"
                  [] rootIdx \in loaded -> "ok"
                  [] OTHER -> "panic"
  /\ UNCHANGED <<order, idx, rootIdx, loaded, myState, instanceIds, xskMap,
                 actsMap, progsMap, statesIn>>

InstallNext ==
  \/ Start
  \/ LoadLink
  \/ EndLoad
  \/ PatchSkip
  \/ PatchBody
  \/ PatchFail
  \/ Attach

InstallTypeOK ==
  /\ phase \in {"idle", "load", "patch", "done"}
  /\ order \in Seq(Fns)
  /\ idx \in 1 .. Cardinality(Fns) + 1
  /\ rootIdx \in Fns \cup {NoNf}
  /\ loaded \subseteq Fns
  /\ myState \in [Fns -> [progId : Ids, numCores : 0 .. XdpCores]]
  /\ instanceIds \in [Ids -> Fns \cup {NoNf}]
  /\ xskMap \in [Fns -> SUBSET Cores]
  /\ \A f \in Fns : actsMap[f] \in [0 .. Slots(f) - 1 -> 0 .. 5]
  /\ \A f \in Fns : progsMap[f] \in [0 .. Slots(f) - 1 -> Fns \cup {NoNf}]
  /\ statesIn \subseteq Fns
  /\ attached \in Fns \cup {NoNf}
  /\ iresult \in {"running", "ok", "MapUpdateFail", "BadNfLink",
                  "MissingRootNf", "panic"}
  /\ (phase = "done") = (iresult # "running")

=============================================================================
