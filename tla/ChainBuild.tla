------------------------------ MODULE ChainBuild ------------------------------
(***************************************************************************)
(* The checks chainsmith's compile_chain makes on a chain.toml and the    *)
(* link table it builds (src/chainsmith/src/lib.rs compile_chain,          *)
(* src/chainsmith/src/chain.rs).                                           *)
(*                                                                         *)
(* write_xdp_programs visits the functions in name order and, for each,    *)
(* checks that it has map bindings iff its packet() takes a map argument,  *)
(* and that the FIRST link from it has one destination per return variant.*)
(* The compile steps give every function an id, and an eBPF payload unless *)
(* it has disable_xdp.  make_concrete then visits the links in file order  *)
(* and resolves their destinations into actions.                           *)
(*                                                                         *)
(* A function's return type is abstracted to its variant count; a         *)
(* destination string is a record [bang, name]: bang is the leading '!'.  *)
(***************************************************************************)
EXTENDS Naturals, Sequences, FiniteSets, SequencesExt

CONSTANTS
  FnOrder,      \* the keys of Chain::functions, in BTreeMap order
  MaxVariants,  \* the largest variant count of an NF's return enum
  LinkChoices,  \* candidate entries of Chain::links
  MaxLinks,     \* the largest number of links in a chain
  BindChoices,  \* candidate Function::maps: sets of bindings [name, ref]
  MapDecls      \* the names declared in Chain::maps

Fns == ToSet(FnOrder)

\* The destination names make_concrete maps to a fixed action.
SentinelKind == [tx |-> "Tx", drop |-> "Drop", pass |-> "Pass",
                 abort |-> "Abort"]
Sentinels == DOMAIN SentinelKind

NoNf == "none"

\* LinkAction: its to_kind tag and, for Upcall/Tailcall, the target.
Actions == [kind : {"Tx", "Drop", "Abort", "Pass", "Upcall", "Tailcall"},
            id : Fns \cup {NoNf}]

\* XdpLinkState.
States == {[kind |-> "Tail"]} \cup [kind : {"Body"}, acts : Seq(Actions)]

\* The ref of an Owned binding; a Shared binding's ref is the name in
\* LocalMap::Shared(name).
NoRef == ""

Results == {"running", "ok", "MapsPanic", "SharedMapPanic", "BranchMismatch",
            "UndefinedTarget",
            "UndefinedSource", "TooManyRxHandlers", "NoRxHandler"}

VARIABLES
  links,       \* Chain::links
  variants,    \* variants[f]: number of variants of f's return enum
  disableXdp,  \* Function::disable_xdp
  binds,       \* Function::maps: the NF's map bindings
  mapParam,    \* packet() of f takes a map argument
  stage,       \* "codegen" (write_xdp_programs), "concrete", "done"
  j,           \* index into FnOrder of the function being written
  k,           \* index into links of the link being resolved
  state,       \* state[f]: XdpLink::state built by make_concrete
  root,        \* root[f]: XdpLink::root
  rxCount,     \* rx_recv_count
  result       \* how compile_chain ended

vars == <<links, variants, disableXdp, binds, mapParam, stage, j, k, state,
          root, rxCount, result>>

inputs == <<links, variants, disableXdp, binds, mapParam>>

\* info.maps.is_empty() is false.
hasMaps == [f \in Fns |-> binds[f] # {}]

\* The map a binding's codegen reads: an Owned one carries it; a Shared one
\* is self.maps.get(map_name).unwrap(), looked up by the LOCAL name.
SharedResolves(b) == b.ref = NoRef \/ b.name \in MapDecls

\* self.links.iter().find(|v| &v.from == name): the FIRST link from f.
LinksFrom(f) == {x \in 1 .. Len(links) : links[x].from = f}
FirstLinkFrom(f) == links[Min(LinksFrom(f))]

\* The branch-count check of write_xdp_programs (chain.rs 329-350).
BranchesMatch(f) ==
  LinksFrom(f) # {} /\ Len(FirstLinkFrom(f).to) = variants[f]

\* The lookup of one `to` name in the closure of make_concrete: a '!'-name
\* is stripped and must be a function; a plain name is a function or,
\* failing that, a sentinel.
Resolves(d) == d.name \in Fns \/ (~d.bang /\ d.name \in Sentinels)

\* Faulty variant of Resolve: only a '!' forces an upcall.
ResolveIgnoringDisable(d) ==
  IF d.name \in Fns
  THEN [kind |-> IF d.bang THEN "Upcall" ELSE "Tailcall", id |-> d.name]
  ELSE [kind |-> SentinelKind[d.name], id |-> NoNf]

Resolve(d) ==
  IF d.name \in Fns
  THEN [kind |-> IF d.bang \/ disableXdp[d.name] THEN "Upcall" ELSE "Tailcall",
        id |-> d.name]
  ELSE [kind |-> SentinelKind[d.name], id |-> NoNf]

\* `to == ["tx"]` alone makes the source a Tail.
IsTail(l) == l.to = <<[bang |-> FALSE, name |-> "tx"]>>

\* An rx destination is looked up with its '!' kept, so only a plain
\* function name makes a root.
IsRootName(d) == ~d.bang /\ d.name \in Fns

Init ==
  /\ links \in UNION {[1 .. n -> LinkChoices] : n \in 0 .. MaxLinks}
  /\ variants \in [Fns -> 1 .. MaxVariants]
  /\ disableXdp \in [Fns -> BOOLEAN]
  /\ binds \in [Fns -> BindChoices]
  /\ mapParam \in [Fns -> BOOLEAN]
  /\ stage = "codegen"
  /\ j = 1
  /\ k = 1
  /\ state = [f \in Fns |-> [kind |-> "Body", acts |-> <<>>]]
  /\ root = [f \in Fns |-> FALSE]
  /\ rxCount = 0
  /\ result = "running"

\* Faulty variant of Fail: the error is recorded but the loop goes on.
FailKeepGoing(r) ==
  /\ stage' = stage
  /\ result' = r

Fail(r) ==
  /\ stage' = "done"
  /\ result' = r

(***************************************************************************)
(* write_xdp_programs, one function: the maps check panics; a missing or  *)
(* short first link is BranchMismatch; otherwise on to the next function.  *)
(***************************************************************************)
WriteXdpProgram ==
  /\ stage = "codegen"
  /\ j <= Len(FnOrder)
  /\ LET f == FnOrder[j] IN
       \/ /\ hasMaps[f] # mapParam[f]
          /\ Fail("MapsPanic")
          /\ UNCHANGED j
       \/ /\ hasMaps[f] = mapParam[f]
          /\ \E b \in binds[f] : ~SharedResolves(b)
          /\ Fail("SharedMapPanic")
          /\ UNCHANGED j
       \/ /\ hasMaps[f] = mapParam[f]
          /\ \A b \in binds[f] : SharedResolves(b)
          /\ ~BranchesMatch(f)
          /\ Fail("BranchMismatch")
          /\ UNCHANGED j
       \/ /\ hasMaps[f] = mapParam[f]
          /\ \A b \in binds[f] : SharedResolves(b)
          /\ BranchesMatch(f)
          /\ j' = j + 1
          /\ UNCHANGED <<stage, result>>
  /\ UNCHANGED <<inputs, k, state, root, rxCount>>

\* Every function written: the compile steps (not modelled: the toolchain)
\* and write_userland_programs, whose maps check has already passed.
EndCodegen ==
  /\ stage = "codegen"
  /\ j > Len(FnOrder)
  /\ stage' = "concrete"
  /\ UNCHANGED <<inputs, j, k, state, root, rxCount, result>>

\* Faulty variant of ConcreteRxLink: rx_recv_count counts rx links rather
\* than their destinations.
ConcreteRxLinkPerLink ==
  /\ stage = "concrete"
  /\ k <= Len(links)
  /\ links[k].from = "rx"
  /\ LET l == links[k] IN
       \/ /\ \E x \in 1 .. Len(l.to) : ~IsRootName(l.to[x])
          /\ Fail("UndefinedTarget")
          /\ UNCHANGED <<k, root, rxCount>>
       \/ /\ \A x \in 1 .. Len(l.to) : IsRootName(l.to[x])
          /\ root' = [f \in Fns |-> root[f] \/ f \in {l.to[x].name : x \in 1 .. Len(l.to)}]
          /\ rxCount' = rxCount + 1
          /\ IF rxCount' > 1
             THEN Fail("TooManyRxHandlers") /\ UNCHANGED k
             ELSE k' = k + 1 /\ UNCHANGED <<stage, result>>
  /\ UNCHANGED <<inputs, j, state>>

(***************************************************************************)
(* make_concrete, one link from rx: every destination must be a function  *)
(* and becomes a root; each counts towards rx_recv_count, which may not    *)
(* exceed 1 once the link is done.                                         *)
(***************************************************************************)
ConcreteRxLink ==
  /\ stage = "concrete"
  /\ k <= Len(links)
  /\ links[k].from = "rx"
  /\ LET l == links[k] IN
       \/ /\ \E x \in 1 .. Len(l.to) : ~IsRootName(l.to[x])
          /\ Fail("UndefinedTarget")
          /\ UNCHANGED <<k, root, rxCount>>
       \/ /\ \A x \in 1 .. Len(l.to) : IsRootName(l.to[x])
          /\ root' = [f \in Fns |-> root[f] \/ f \in {l.to[x].name : x \in 1 .. Len(l.to)}]
          /\ rxCount' = rxCount + Len(l.to)
          /\ IF rxCount' > 1
             THEN Fail("TooManyRxHandlers") /\ UNCHANGED k
             ELSE k' = k + 1 /\ UNCHANGED <<stage, result>>
  /\ UNCHANGED <<inputs, j, state>>

(***************************************************************************)
(* make_concrete, one link from an NF: the destinations are resolved       *)
(* first, then the source; a Tail link makes the source Tail, a Body link  *)
(* replaces the actions of a source that is still a Body and leaves a      *)
(* Tail source alone.                                                      *)
\* The entry of link_states after link l from an NF whose entry is old: a
\* tail link makes it Tail; a body link replaces the actions of a Body and
\* leaves a Tail alone.
LinkState(old, l) ==
  IF IsTail(l) THEN [kind |-> "Tail"]
  ELSE IF old.kind = "Body"
       THEN [kind |-> "Body", acts |-> [x \in 1 .. Len(l.to) |-> Resolve(l.to[x])]]
       ELSE old

(***************************************************************************)
ConcreteNfLink ==
  /\ stage = "concrete"
  /\ k <= Len(links)
  /\ links[k].from # "rx"
  /\ LET l == links[k] IN
       \/ /\ ~IsTail(l)
          /\ \E x \in 1 .. Len(l.to) : ~Resolves(l.to[x])
          /\ Fail("UndefinedTarget")
          /\ UNCHANGED <<k, state>>
       \/ /\ IsTail(l) \/ \A x \in 1 .. Len(l.to) : Resolves(l.to[x])
          /\ l.from \notin Fns
          /\ Fail("UndefinedSource")
          /\ UNCHANGED <<k, state>>
       \/ /\ IsTail(l) \/ \A x \in 1 .. Len(l.to) : Resolves(l.to[x])
          /\ l.from \in Fns
          /\ state' = [state EXCEPT ![l.from] = LinkState(@, l)]
          /\ k' = k + 1
          /\ UNCHANGED <<stage, result>>
  /\ UNCHANGED <<inputs, j, root, rxCount>>

\* The loop over the links is over: without a root the chain is rejected.
EndConcrete ==
  /\ stage = "concrete"
  /\ k > Len(links)
  /\ stage' = "done"
  /\ result' = IF rxCount = 0 THEN "NoRxHandler" ELSE "ok"
  /\ UNCHANGED <<inputs, j, k, state, root, rxCount>>

Next ==
  \/ WriteXdpProgram \/ EndCodegen
  \/ ConcreteRxLink \/ ConcreteNfLink \/ EndConcrete

Spec == Init /\ [][Next]_vars

-----------------------------------------------------------------------------
(***************************************************************************)
(* Properties.                                                             *)
(***************************************************************************)

TypeOK ==
  /\ links \in Seq(LinkChoices)
  /\ variants \in [Fns -> 1 .. MaxVariants]
  /\ {disableXdp, mapParam} \subseteq [Fns -> BOOLEAN]
  /\ binds \in [Fns -> BindChoices]
  /\ stage \in {"codegen", "concrete", "done"}
  /\ j \in 1 .. Len(FnOrder) + 1 /\ k \in 1 .. Len(links) + 1
  /\ state \in [Fns -> States]
  /\ root \in [Fns -> BOOLEAN]
  /\ rxCount \in Nat
  /\ result \in Results
  /\ (stage = "done") <=> (result # "running")

\* The roots and the actions of an accepted chain.
Roots == {f \in Fns : root[f]}
BodyActs(f) == IF state[f].kind = "Body" THEN ToSet(state[f].acts) ELSE {}

(***************************************************************************)
(* An accepted chain has exactly one root: make_concrete counts the rx     *)
(* destinations across all rx links and rejects a second one.             *)
(***************************************************************************)
OneRoot == result = "ok" => Cardinality(Roots) = 1

(***************************************************************************)
(* The chain rules of the specification (data model invariants and the    *)
(* chain model section), written as a reference: exactly one link from rx, *)
(* whose destinations, all plain function names, become the roots; every   *)
(* other link comes from a function and its destinations resolve; every    *)
(* function has map bindings iff it takes maps, and every link from it has *)
(* one destination per return variant.                                     *)
(***************************************************************************)
RxLinks == {x \in 1 .. Len(links) : links[x].from = "rx"}

SpecValid ==
  /\ Cardinality(RxLinks) = 1
  /\ \A x \in RxLinks :
       Len(links[x].to) >= 1 /\ \A y \in 1 .. Len(links[x].to) : IsRootName(links[x].to[y])
  /\ \A x \in (1 .. Len(links)) \ RxLinks :
       /\ links[x].from \in Fns
       /\ IsTail(links[x]) \/ \A y \in 1 .. Len(links[x].to) : Resolves(links[x].to[y])
  /\ \A f \in Fns :
       /\ hasMaps[f] = mapParam[f]
       /\ \A b \in binds[f] : b.ref # NoRef => b.ref \in MapDecls
       /\ LinksFrom(f) # {}
       /\ \A x \in LinksFrom(f) : Len(links[x].to) = variants[f]

(***************************************************************************)
(* Every chain that keeps the rules of the specification is accepted: in   *)
(* particular an rx link may fan out to several roots.                     *)
(***************************************************************************)
AcceptsSpecValid == (stage = "done" /\ SpecValid) => result = "ok"

(***************************************************************************)
(* In an accepted chain every Body NF has exactly one action per return    *)
(* variant (specification, testable properties: actions.len() == N), so    *)
(* LinkState::act never indexes past the actions on the hot path.          *)
(***************************************************************************)
ActsMatchVariants ==
  result = "ok" =>
    \A f \in Fns : state[f].kind = "Body" => Len(state[f].acts) = variants[f]

(***************************************************************************)
(* An accepted chain binds every Shared map to a map of the chain-level   *)
(* namespace (specification: Shared(name) must resolve there), so the     *)
(* codegen of write_xdp_programs reads the map the chain declares.         *)
(***************************************************************************)
SharedMapsResolve ==
  result = "ok" =>
    \A f \in Fns : \A b \in binds[f] : b.ref # NoRef => b.ref \in MapDecls

=============================================================================
