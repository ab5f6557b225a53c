---------------------------- MODULE MCChainBuild ----------------------------
(* Chains over two NFs, A and B, with up to three links drawn from a set   *)
(* of candidates that reaches every check of compile_chain: tail and body  *)
(* links, forced upcalls, every sentinel, an rx fan-out, a duplicated      *)
(* source, and unknown sources and targets.                                *)
EXTENDS ChainBuild

D(n)    == [bang |-> FALSE, name |-> n]
Bang(n) == [bang |-> TRUE, name |-> n]
L(from, to) == [from |-> from, to |-> to]

MCFnOrder == <<"A", "B">>

\* Candidates for the builder-only run.
MCLinks ==
  { L("rx", <<D("A")>>),
    L("rx", <<D("A"), D("B")>>),
    L("rx", <<Bang("A")>>),
    L("A", <<D("tx")>>),
    L("A", <<D("B"), D("drop")>>),
    L("A", <<Bang("B"), D("tx")>>),
    L("A", <<D("drop")>>),
    L("B", <<D("pass"), D("abort")>>),
    L("B", <<D("rx")>>),
    L("C", <<D("tx")>>) }
\* Candidates for the runs about two links from one NF: a body link then a
\* shorter one, and a tail link then a body link.
MCLinksDup ==
  { L("rx", <<D("A")>>),
    L("A", <<D("drop"), D("tx")>>),
    L("A", <<D("drop")>>),
    L("A", <<D("tx")>>),
    L("B", <<D("tx")>>) }

\* Map bindings.  Chain::maps declares "g".  An Owned binding; a Shared one
\* whose local name is declared but whose ref is not; and a Shared one that
\* names the declared map under another local name.
Owned        == [name |-> "m", ref |-> NoRef]
SharedRename == [name |-> "g", ref |-> "h"]
SharedAlias  == [name |-> "h", ref |-> "g"]
MCMapDecls   == {"g"}
\* For the builder-only run: no maps, an Owned map, or the alias (which
\* reaches the panic in the Shared lookup).
MCBinds      == {{}, {Owned}, {SharedAlias}}
\* For the runs that are not about maps.
MCBindsPlain == {{}, {Owned}}
\* For the run about Shared references.
MCBindsShared == {{}, {SharedRename}}
=============================================================================
