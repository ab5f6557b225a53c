------------------------------ MODULE Pipeline ------------------------------
(***************************************************************************)
(* chainsmith's compile_chain, then pulley's install_chain on the links it *)
(* built, then packets walking the installed chain.  The agent installs    *)
(* only a chain that compile_chain accepted, and the dataplane threads     *)
(* start only when install_chain returned Ok (src/pulley/src/main.rs       *)
(* 45-53, the `?` after each step).                                        *)
(*                                                                         *)
(* The detailed walk (Datapath) is checked against what the link table     *)
(* means (ChainWalk) through a refinement mapping.                         *)
(***************************************************************************)
EXTENDS ChainBuild

CONSTANTS
  XdpCores,      \* config.xdp_cores
  MaxTailCalls   \* the kernel's limit on tail calls per packet

VARIABLES
  order, phase, idx, rootIdx, loaded, myState, instanceIds, xskMap, actsMap,
  progsMap, statesIn, attached, iresult,
  pkt, at, hr, verdict, tc

Inst == INSTANCE Install WITH linkState <- state, isRoot <- root

DP == INSTANCE Datapath WITH linkState <- state

buildVars == vars

installVars == <<order, phase, idx, rootIdx, loaded, myState, instanceIds,
                 xskMap, actsMap, progsMap, statesIn, attached, iresult>>

dpVars == <<pkt, at, hr, verdict, tc>>

allVars == <<buildVars, installVars, dpVars>>

PipelineInit ==
  /\ Init
  /\ Inst!InstallInit
  /\ DP!DpInit

PipelineNext ==
  \/ /\ Next
     /\ UNCHANGED <<installVars, dpVars>>
  \/ /\ stage = "done"
     /\ result = "ok"
     /\ Inst!InstallNext
     /\ UNCHANGED <<buildVars, dpVars>>
  \/ /\ iresult = "ok"
     /\ DP!DpNext
     /\ UNCHANGED <<buildVars, installVars>>

PipelineSpec == PipelineInit /\ [][PipelineNext]_allVars

PipelineTypeOK == TypeOK /\ Inst!InstallTypeOK /\ DP!DpTypeOK

\* install_chain never panics on a chain chainsmith accepted: every failure
\* is one of its ChainInstallError kinds (spec 4.F), in particular the
\* root it attaches (lib.rs 409-420) has been loaded.
InstallNoPanic == iresult # "panic"

\* install_chain never rejects a chain chainsmith accepted with BadNfLink
\* (lib.rs 385-390): every Tailcall target make_concrete writes has a
\* program fd from pass 1, because a destination with disable_xdp is
\* promoted to Upcall (chain.rs 717) and pass 1 loads every other NF,
\* whatever the order of the link vector.
InstallNoBadNfLink == phase = "done" => iresult # "BadNfLink"

\* Spec 5: the headroom a packet carries into user space names the NF that
\* upcalled it (instance_ids[prog_id] is the emitter) and an index its link
\* state maps to that Upcall, so the unwraps at main.rs 403-412 hold.  It
\* ties my_state_map and instance_ids, written in install_chain's pass 2
\* for a HashMap-ordered link vector, to the kernel's stamp.
HeadroomRoundTrip ==
  pkt = "socket" =>
    /\ hr.progId \in DOMAIN instanceIds
    /\ instanceIds[hr.progId] = at
    /\ DP!InRange(state[at], hr.ret)
    /\ DP!Act(state[at], hr.ret).kind = "Upcall"

\* No core thread panics on a packet of an installed chain: none of the
\* unwraps and indexing of dataplane_core (main.rs 403-427) fails.
NoHotPathPanic == pkt # "panic"

\* The loaded Body NFs whose installed actions outnumber the slots of their
\* acts_map: a later link from the NF was longer than its first.
Outgrown ==
  {f \in loaded : state[f].kind = "Body" /\ Len(state[f].acts) > Inst!Slots(f)}

\* install_chain ends with MapUpdateFail exactly when some loaded NF's
\* actions do not fit its acts_map (lib.rs 360-404): a chain that fits is
\* never rejected, and one that outgrows a table is never installed with
\* actions cut off, whatever the order of the link vector.
InstallRejectsOutgrown ==
  phase = "done" => ((iresult = "MapUpdateFail") <=> (Outgrown # {}))

\* The walk as the link table defines it, seen through the packet's
\* position; between packets there is none.
Walk == INSTANCE ChainWalk
          WITH linkState <- state, isRoot <- root, NoPkt <- NoNf,
               at <- IF pkt = "none" THEN NoNf ELSE at,
               hops <- tc

\* Every packet the kernel wrappers and the user-space loop handle visits
\* the NFs, and ends with the action, that link_states prescribe: the
\* acts_map kinds (to_kind), progs_map targets and xsk_map entries install
\* wrote, and the tail wrapper, agree with XdpLinkState::act; a tail call
\* aborts only when the kernel's MAX_TAIL_CALL_CNT is spent, never on an
\* empty progs_map slot.
WalkRefinement == Walk!Spec

=============================================================================
