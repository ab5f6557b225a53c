----------------------------- MODULE MCPipeline -----------------------------
(* Chains over two NFs, A and B, with up to three links: a tail NF, a body *)
(* NF that tail-calls or upcalls the other (by '!' or by disable_xdp),     *)
(* user-space NFs that upcall each other, two in-kernel NFs that tail-call *)
(* each other, every sentinel, and a second                               *)
(* link from A that outgrows A's acts_map.  Which NFs have disable_xdp or  *)
(* maps, and their variant counts, are chosen in Init.                     *)
EXTENDS Pipeline

D(n)    == [bang |-> FALSE, name |-> n]
Bang(n) == [bang |-> TRUE, name |-> n]
L(from, to) == [from |-> from, to |-> to]

MCFnOrder == <<"A", "B">>

\* Map bindings: none, or one Owned map.
MCBinds    == {{}, {[name |-> "m", ref |-> NoRef]}}
MCMapDecls == {}

MCLinks ==
  { L("rx", <<D("A")>>),
    L("rx", <<D("B")>>),
    L("A", <<D("drop")>>),
    L("A", <<D("B"), D("drop")>>),
    L("A", <<Bang("B"), D("pass")>>),
    L("B", <<D("tx")>>),
    L("B", <<D("A"), D("abort")>>),
    L("B", <<Bang("A"), D("drop")>>) }

\* A later link from the same NF is never shorter than the first.  The
\* shorter case leaves acts_map slots that no action was written to; runs
\* chain_dup_source and the hot-path run are about it.
NoShorterDup ==
  \A x, y \in 1 .. Len(links) :
    x < y /\ links[x].from = links[y].from =>
      Len(links[y].to) >= Len(links[x].to)

\* One link per source, the contract the spec calls the intent.
OneLinkPerSource ==
  \A x, y \in 1 .. Len(links) : x # y => links[x].from # links[y].from

\* packet() takes a map argument iff the NF declares maps; the other case
\* panics in write_xdp_programs, which run chain_build covers.
MapsAgree == mapParam = hasMaps

\* Every NF's first link has one destination per variant.  The other
\* chains stop at write_xdp_programs' BranchMismatch, which run chain_build
\* covers; install and the datapath never see them.
BranchesAgree == \A f \in Fns : BranchesMatch(f)

\* The constraints are applied as soon as the inputs they read are chosen
\* (the conjuncts of PipelineInit then only test them).
MCInit ==
  /\ links \in UNION {[1 .. n -> LinkChoices] : n \in 0 .. MaxLinks}
  /\ NoShorterDup
  /\ variants \in [Fns -> 1 .. MaxVariants]
  /\ BranchesAgree
  /\ binds \in [Fns -> BindChoices]
  /\ MapsAgree
  /\ PipelineInit

MCInitOneLink == PipelineInit /\ MapsAgree /\ OneLinkPerSource

MCSpec == MCInit /\ [][PipelineNext]_allVars

MCSpecOneLink == MCInitOneLink /\ [][PipelineNext]_allVars
=============================================================================
