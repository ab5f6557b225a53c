# TLA+ models of galette

galette chains network functions (NFs) into a graph and runs that graph in
the kernel via XDP where it can, falling back to a user-space dataplane
reached through AF_XDP sockets for NFs that cannot run in the kernel. There
are two processes:

* **chainsmith** (`src/chainsmith`) reads `chain.toml`, analyses every NF's
  `packet` signature, generates and compiles the in-kernel and user-space
  wrappers, and builds the link table (`make_concrete`). It serves the
  result to an agent.
* **pulley** (`src/pulley`) fetches that bundle, opens one AF_XDP socket per
  core over a shared frame pool (`create_upcall_sockets`), loads and wires
  the XDP programs (`install_chain`), and loads the user-space NFs as dylibs
  (`DylibStore`). It then runs one dataplane thread per core, plus
  optionally a frame-disposal thread (`main.rs`).

The models here cover the parts where the hard behaviour is: the threads
that share the frame pool; the chain-building checks and what they let
through; the installer's two passes; and the packet's walk through the
kernel wrapper, the headroom and the user-space loop.

## Inventory

| Component | Source | State | Operations | Hard behaviour |
|---|---|---|---|---|
| Upcall socket layer | `pulley/src/lib.rs` `create_upcall_sockets` 135-190 | one shared UMEM of 2048 frames; the fill queue (fq) and completion queue (cq) are owned by the socket of core 0 | all frames are produced to fq at start | frame ownership across kernel and threads |
| Frame handling of the hot path | `pulley/src/main.rs` 57-449 | per core: rx ring, tx ring, scratch `xsk.frames`, disposal ring (SPSC, capacity 2048); the extra thread's scratch | poll; per-packet decide and swap-remove; tx; the recycle of each role (`solo`, `self`, `other`); draining the disposal rings; cq→fq | interleaving of up to 8 cores and the extra thread; counts returned by `produce`/`push_slice` that are ignored; capacity of scratch, rings and fq |
| Chain builder | `chainsmith/src/chain.rs` `write_xdp_programs` 251-371, `compile_xdp_binaries` 481-582, `make_concrete` 670-759; `protocol/src/chain.rs` | the per-NF link (`Tail` / `Body(actions)`, root, disable_xdp) | per-NF branch-count and map checks; per-link action resolution; rx root counting | checks done on the first link from an NF while the last one is used; the order in which errors are reported |
| Installer | `pulley/src/lib.rs` `install_chain` 204-431 | prog fds, `instance_ids` (prog_id → NF), `link_states`, `raw_maps`, and each object's `acts_map`, `progs_map`, `my_state_map` and `xsk_map` | pass 1: load each NF with an eBPF payload; pass 2: write the side tables; attach the root | prog_id is the link's index in a vector built from a `HashMap`; NFs without eBPF are skipped |
| Kernel wrapper | `chainsmith/include/xdp_wrapper_chain.in.rs`, `xdp_wrapper.in.rs` | the packet's metadata headroom | acts_map dispatch: tx, drop, abort, upcall (headroom and redirect to a random core), tail call, pass | the headroom written must be the one read; a missing tail-call target aborts |
| User-space chain walk | `pulley/src/main.rs` `dataplane_core` 354-446 | the current NF | headroom check, `instance_ids` lookup, run-to-completion loop | `unwrap`s and indexing that panic on the hot path |
| Control/shutdown | `pulley/src/main.rs` 193-200, `lib.rs` `DylibStore` 466-512 | bus, temp dirs | broadcast, cleanup | threads are not joined |
| Example NFs, Packet and Map API | `examples/functions/*/src/lib.rs`, `nf/src/packet.rs`, `nf/src/map.rs`, `pulley/src/lib.rs` 289-299 | the test maps `BLOCKED_IPS` and `UPCALL_LIKELIHOOD` | each NF's `packet` on a frame; the test-map writes of `install_chain` | bounds of short frames; byte order of map keys; the saturating float-to-u32 cast |
| Codegen text, transport, TLS/PSK, CLI | `nf-macros`, `crp`, `protocol/keys.rs`, `chainsmith/main.rs` | none across calls | template text, I/O | not a model-checking subject (see below) |

## Plan

Modules in order of importance. Each comes with an MC module and cfgs.

1. **Umem** (done): ownership of every frame descriptor across the kernel
   rings, the per-core batches and the disposal rings, for every role and
   both disposal modes.
2. **ChainBuild** (done): chainsmith's checks and `make_concrete`, as one
   step per function and one step per link, over small chains chosen in
   Init.
3. **Install** (done): `install_chain` over the links `ChainBuild` produces,
   with the link vector in any order.
4. **ChainWalk** (abstract) and **Datapath** (detailed) (done): what the
   chain table means for a packet, and how the kernel wrapper, the headroom
   and the user-space loop carry it out. **Pipeline** composes build,
   install and walk and checks that Datapath refines ChainWalk.
5. **Shutdown** (done): the broadcast, the threads that are not joined and
   the dylib temp directories.
6. **ExampleNfs** (done): the five example NFs over the user-space Packet
   and Map API, after the agent's test-map writes.

Left for later:

* Compose Umem with Datapath, so that a frame's tx/drop decision is the
  walk's verdict rather than a free choice. This includes the headroom-size
  check that drops a frame.
* Model map declarations well enough to cover the Shared-map lookup by
  local name (chain.rs 433).

## Modules and runs

### Umem (`Umem.tla`, `MCUmem.tla`)

State:

* `fq` and `cq` are the kernel's fill and completion queues.
* `rxq[c]`, `txq[c]` and `ring[c]` are core `c`'s rx ring, tx ring and
  disposal ring.
* `batch[c]`, `i[c]` and `numTx[c]` are `xsk.frames[..pkts_recvd]`, `i`
  and `num_tx` of `dataplane_core`.
* `pc[t]` is where thread `t` is in its loop.
* `undrained[t]` holds the disposal rings the mediator still has to visit.
* `verdict[f]` is a history variable: the decision last taken for frame
  `f`.

The configuration (`xdp_cores` ∈ 1..MaxCores, `umem_mode`) is chosen in
Init. One run therefore covers the `solo` role, `self` + `other`, and
`other` + extra thread. Actions and their code:

| Action | Code |
|---|---|
| `Upcall` | kernel redirect into a socket (`xdp_wrapper_chain.in.rs` 49-86) |
| `Complete` | the NIC finishing a tx |
| `Poll` | `poll_and_consume` (main.rs 342-347) |
| `RunPacket` | one iteration of the while loop (354-446); the chain's tx/drop choice and the headroom check are a free choice here |
| `EndBatch` | the loop's exit (448) |
| `Transmit` | `produce_and_wakeup` (230, 269, 323) |
| `SelfRecycle` | cq→scratch, fq.produce of the drop block and completions (236-239, 273-276) |
| `OtherPush` | `push_slice` (326) |
| `DrainRing` / `EndDrain` | the rings loop (280-295, 87-104) |
| `ExtraRecycle` | the extra thread's cq→fq (106-110) |

`produce` of fq and tx is all-or-nothing, as in xsk-rs. The returned counts
are ignored, as in the code.

Runs:

* `umem_safety` (`MCUmem.cfg`): 3 frames, up to 2 cores, both modes, all
  capacities equal to the pool size (as 2048 = 2048 in the code). It checks:
  * `FrameConservation`: every frame is owned by exactly one place.
  * `VerdictRespected`: tx rings and cq hold only frames decided Tx; disposal
    rings hold only dropped ones.
  * `TypeOK`, which includes the loop bounds `i <= num_tx <= pkts_recvd`.

  Frames are a symmetry set. That is sound because the properties never name
  a frame, and neither does the code: it treats descriptors as opaque.
* `umem_liveness` (`MCUmemLive.cfg`): 2 frames, no symmetry, checks
  `FrameReturns`: every frame that leaves fq comes back.

Fairness:

* Weak fairness for each core's loop and for the extra thread. Each is an OS
  thread that spins; its poll times out.
* Weak fairness for the kernel completing each frame it was handed. The real
  tx ring is FIFO; the model keeps it as a bag, so fairness is per frame.
* Packet arrival (`Upcall`) is not fair.

The completion queue is a sequence because the mediator consumes it from
the head, at most `2048 - pkts_recvd` at a time. With a bag, one frame
could be passed over forever, which the real queue does not allow.

Bounds: 3 frames and 2 cores are enough for every role pair, for a batch
with both tx and drop frames and for a frame in flight on each path. The
safety run reaches about 530k distinct states and the liveness run about
70k.

### ChainBuild (`ChainBuild.tla`, `MCChainBuild.tla`)

State: the chain's inputs (`links`, and per NF the variant count,
`disable_xdp`, its map bindings `binds`, whether `packet()` takes a map
argument), all chosen in Init, and the names `MapDecls` declared in
`Chain::maps`. A binding is a record `[name, ref]`: `ref` is `NoRef` for
an Owned map and the referenced name for `Shared(name)`; the builder's progress (`stage`, `j` over
functions in name order, `k` over links in file order); and what
`make_concrete` builds (`state`, `root`, `rxCount`, `result`).

| Action | Code |
|---|---|
| `WriteXdpProgram` | one function of `write_xdp_programs` (chain.rs 251-371): the maps check panics (310); a Shared binding is looked up by its LOCAL name in `Chain::maps` and the `unwrap` panics when that name is not declared (`SharedMapPanic`, 281-287); the FIRST link from the NF must have one destination per variant (`BranchMismatch`) |
| `EndCodegen` | the rest of codegen and the compile steps (373-479); their effect is the `disable_xdp` input |
| `ConcreteRxLink` | an `rx` link of `make_concrete` (691-701): roots, `rx_recv_count`, `TooManyRxHandlers` |
| `ConcreteNfLink` | any other link (702-752): target resolution with the `!`/`disable_xdp` promotion, `UndefinedTarget`, `UndefinedSource`, Tail versus Body |
| `EndConcrete` | `NoRxHandler` (753-759) |

Runs:

* `chain_build` (`MCChainBuild.cfg`): two NFs, up to 3 links drawn from 10
  candidates. These cover tail and body links, forced upcalls, every
  sentinel, an rx fan-out, a duplicated source, and unknown sources and
  targets. Each NF has no maps, an Owned map, or a Shared map under an
  undeclared local name. It checks:
  * `OneRoot`: an accepted chain has exactly one root.

  What the promotion of a `disable_xdp` destination to Upcall (chain.rs
  717) buys is checked where it matters, in run `pipeline`
  (`InstallNoBadNfLink`).
* `chain_rx_fanout` (violation, `AcceptsSpecValid`): `rx -> [A, B]` is
  rejected as `TooManyRxHandlers`, a "multiple roots" error. The spec's
  wording is about more than one rx *link*.
* `chain_dup_source` (violation, `ActsMatchVariants`): the branch-count
  check looks at the first link from an NF, while the last one is used. A
  later link of another length is never checked. TLC's trace has a longer
  one: `A -> [drop]` then `A -> [drop, tx]`, so A has one variant and two
  actions.
* `chain_shared_map` (violation, `SharedMapsResolve`, `MCChainBuildShared.cfg`):
  the spec says `Shared(name)` must resolve in the chain-level namespace.
  The code ignores `name` and looks up the binding's local name, so a
  binding `g = Shared("h")` with only `g` declared is accepted. The
  converse, `h = Shared("g")`, which the spec accepts, panics; run
  `chain_build` reaches that `SharedMapPanic` state.

Order of duplicate links: once a link makes an NF `Tail`, a later body link
from it is ignored, while a later tail link does replace a `Body`. The
model's `LinkState` keeps this.

`compile_chain` ends, so these runs do not check deadlock.

### Install, Datapath, ChainWalk, Pipeline (`MCPipeline.tla`)

`Install` (lib.rs 204-431) takes the built links as inputs:

* `Start` picks the link vector's order. Any permutation is possible,
  because `make_concrete` collects it from a `HashMap`.
* `LoadLink` is one iteration of pass 1. The last root wins, and an NF
  without eBPF is skipped (`continue`). That leaves it without a program fd
  and without raw maps.
* `PatchSkip`, `PatchBody` and `PatchFail` are pass 2 for a link:
  * `PatchBody` writes `my_state_map = {prog_id: index, num_cores}`,
    `instance_ids[index]`, `xsk_map`, `acts_map[i] = to_kind`, and
    `progs_map[i]` for tail calls.
  * `PatchFail` is the first failing write: `MapUpdateFail` beyond
    `next_power_of_two(variants)` slots, or `BadNfLink`.
* `Attach` is the last step: `MissingRootNf`, `unreachable!()` (`"panic"`),
  or the root is attached.

`Datapath` is one packet at a time. Its state is the packet's place (`pkt`),
the NF it is at, the 8-byte headroom `hr = [progId, ret]`, the verdict, and
`tc`, the number of tail calls the packet has made in the kernel.
Its actions:

* The chain wrapper's dispatch on `acts_map`: `KernelEnd`, `KernelUpcall`
  (stamp the headroom, redirect to a core in `xsk_map`) and
  `KernelTailcall` (through `progs_map`). The call returns and the wrapper
  aborts when the slot is empty, or when the packet has already made
  `MaxTailCalls` tail calls, the kernel's `MAX_TAIL_CALL_CNT` (33).
* The tail wrapper (`KernelTail`).
* The user-space entry (`UserEntry`, main.rs 403-412: `instance_ids`,
  `act`, `next_nf`, each unwrapped).
* The run-to-completion loop (`UserMove`, `UserEnd`, `UserPanic`).
* `Recycle`, which lets the next packet in.

The user wrapper returns `usize::MAX` when an NF that declares maps is given
none.

`ChainWalk` is the abstract specification: what `XdpLinkState::act` and the
link table promise a packet, with no kernel and no headroom. A tail call
in it may also end the walk with Abort, since spec 4.E treats a tail call
that returns as abort, but only once the packet has made `MaxTailCalls`
tail calls (`hops`). Where a step runs is not visible in it, so a tail
call may or may not count (user space does not count its own). `Pipeline` runs
the three phases in sequence. The agent installs only a chain that
chainsmith accepted, and the dataplane starts only when `install_chain`
returned `Ok`. The refinement mapping shows the walk's position as `at`, or
"no packet" when `pkt = "none"`, and maps `hops` to `tc`. The abstract spec
constrains only `at`, `verdict` and `hops`, so the builder's and installer's steps are stuttering steps of
it.

Runs (two NFs, up to 4 links from 8 candidates, 2 cores, a tail-call limit
of 33 as in the kernel). The candidates are tail and body NFs, tail calls,
upcalls by `!` and by `disable_xdp`, user-space NFs that upcall each other,
two in-kernel NFs that tail-call each other (`A -> [B, drop]`,
`B -> [A, abort]`), every sentinel, and a second link from A that outgrows
A's `acts_map`. The cycle runs the packet to the limit: the run's depth is
52.

* `pipeline` (`MCPipeline.cfg`, about 735k states, about 25 s) checks:
  * `HeadroomRoundTrip` (spec 5): on every upcall, `instance_ids` maps the
    stamped prog_id to the NF that upcalled, and the stamped index maps to
    an Upcall in its link state. This holds for every order of the link
    vector and every mix of skipped (Tail or eBPF-less) links.
  * `WalkRefinement`: `Walk!Spec`. Every packet visits the NFs, and ends
    with the action, that the link table prescribes, whether the step is
    taken in the kernel or in user space. A tail call aborts only when the
    kernel's limit is spent, so an empty `progs_map` slot (a tail-call
    target whose fd pass 2 did not write) breaks it. On the run's tail-call
    cycle the packet reaches the limit and aborts.
  * `InstallNoBadNfLink`: `install_chain` never fails with `BadNfLink` on a
    chain chainsmith accepted, whatever the order of the link vector. Every
    Tailcall target has a program fd from pass 1, because chain.rs 717
    promotes a `disable_xdp` destination to Upcall.
  * `InstallRejectsOutgrown`: `install_chain` ends with `MapUpdateFail`
    exactly when a loaded NF's installed actions outnumber the slots of its
    `acts_map` (lib.rs 371). This holds for every order of the link vector.
  * `PipelineTypeOK`.

  No fairness is assumed. The user-space loop (main.rs 414-436) has no hop
  limit, and `make_concrete` accepts user-space cycles (`A -> [!B, pass]`,
  `B -> [!A, drop]`, which the run contains), so a packet can keep a core
  thread busy for ever. No liveness property is stated for it: see the
  hazard at main.rs:414 in PROJECT.json.

  Init keeps later links from an NF no shorter than its first (a later
  link of another length is `chain_dup_source`'s subject). It keeps only chains whose first link from
  each NF has one destination per variant. The others stop at
  `BranchMismatch` in codegen, which `chain_build` covers. It also ties `packet()`'s map argument to the
  map declarations (the other case panics in codegen, covered by
  `chain_build`).
* `install_root_unlinked` (violation, `InstallNoPanic`): chainsmith accepts
  a root with `disable_xdp`, and `install_chain` then panics at
  `unreachable!()` (lib.rs 419). The panic is not one of its error kinds.
* `hotpath_arity_panic` (violation, `NoHotPathPanic`): the chain is
  `rx -> B`, `B -> [A, abort]`, `A -> [drop]`, where A has `disable_xdp`
  and declares maps, so `make_concrete` turns B's `A` into an Upcall.
  A is given no raw maps, because `raw_maps` is filled
  only after the `continue` of NFs without eBPF (lib.rs 239, 270). Its
  wrapper therefore returns `usize::MAX`, and `act(u32::MAX)` (main.rs 426)
  panics the core thread.

Assumptions of these runs:

* `bpf_xdp_adjust_meta` succeeds. The model also assumes that every
  redirect reaches the chosen core's socket. In the code, every socket is
  bound to queue 0 (lib.rs 164).
* NF results are free choices, which is sound for safety.

### Shutdown (`Shutdown.tla`, `MCShutdown.tla`)

State: main's progress, each thread's bus reader (`inbox`), the threads
still in their loop, and the two temporary directories: `temp_path` from
`DylibStore::new`, and the directory `load_dylib_nfs` unpacks into. The
actions are:

* `CoreCheck`: the kill check at the top of a core loop.
* `ExtraCheck`: the disposal thread's check after a pass.
* `CtrlC`: the broadcast.
* `Cleanup`: `remove_dir_all(temp_path)`.
* `Exit`: main returns.

The configuration (1 or 2 cores, with or without the disposal thread) is
chosen in Init.

* `shutdown_order` (violation, `CleanShutdown`): spec 4.I says cleanup
  follows the join of all threads. TLC finds a cleanup with a core thread
  still in its loop. The property also states that the unpacked dylibs are
  removed. The code never removes their directory: it removes `temp_path`,
  a different tempdir from the one `load_dylib_nfs` creates (lib.rs 497).

The process ends after `Exit`, so the run does not check deadlock.

### ExampleNfs (`ExampleNfs.tla`, `MCExampleNfs.tla`)

The example NFs are modelled as operators from a frame to the pair
(return index, frame after the NF). `filter-ip` and `load-balance` also
read a map, and `load-balance` reads a random u32. The user-space Packet
impl for `&mut [u8]` becomes `Slice` and `SliceFrom`, with `get_mut`'s
range check. A map lookup or update compares the key's native bytes. An
`Array` holds every index below its size, with unwritten indices reading
as zero. A `HashMap` holds only the keys written to it.

Byte order is modelled by what it does. A u32 is represented by its four
bytes, most significant first:

* `u32::from_be_bytes` keeps the bytes in order.
* The value's memory image reverses them (`NativeBytes`). Both supported
  targets are little-endian.

The likelihood arithmetic uses `U32Bits` = 3 bits instead of 32. The
cast's truncation and saturation at `u32::MAX` are kept.

State: the declaration of `blocked_ips` (chosen in Init), the chance, both
test maps, and the last NF run with its frame, result and return. The
actions are:

* `InstallTestMaps`: the `map.update(..).unwrap()` writes of
  `install_chain` (lib.rs 289-299). With an `Array` declaration the write
  fails and the agent panics.
* `Process`: `user_nf_program` runs any NF on any frame.

The frames (`MCPackets`) put a length at every bound the NFs test:

* 12 bytes: the MAC addresses;
* 23 bytes: the TTL slice;
* 29 and 30 bytes: the IPv4 source address;
* 33 and 34 bytes: the IPv4 destination byte;
* 53 and 54 bytes: the IPv6 destination byte.

Every length is combined with three ethertypes, the blocked address and its
reverse, and two filler bytes (so TTL 0 and both low bits occur).

* `nf_short_packet_panic` (violation, `NfNoPanic`): spec 6 says no panic
  is acceptable on the hot path. For a 23-byte IPv4 frame, `dest-ip-branch`
  gets `None` from `slice_from(33, 1)` and reaches `_ => unreachable!()`.
  `filter-ip`'s `slice_from(26, 4).unwrap()` fails the same way below 30
  bytes.
* `filter_ip_byte_order` (violation, `BlockedSourceBlocked`): the agent
  writes the key bytes `[192, 168, 0, 69]`. `filter-ip` looks up the native
  bytes of `u32::from_be_bytes(source)`, which for that source are
  `[69, 0, 168, 192]`. So a frame from 192.168.0.69 is allowed, and one from
  69.0.168.192 would be blocked.

The runs stop after the first violation, so they do not check deadlock.

## What is not modelled

* Byte layout of the headroom: it is modelled as its pair (prog_id,
  return index). Packet bytes and key byte order are modelled only in
  ExampleNfs.
* The in-kernel Packet impl for `&XdpContext`: it calls redbpf's
  `check_bounds`, which is not part of this repository.
* Template text and cargo invocations; the NF source analyser. An NF's
  return-variant count is an input of the model. NFs with a unit return
  type are left out: the user-space template casts the result with
  `as usize`, which does not compile for `()`.
* Transport, TLS/PSK and the CLI. The challenge-response (CRP) check of
  `protocol/keys.rs` runs inside rustls' certificate verifier, after x509
  parsing. Two of its hazards are listed without a property: a challenge
  outside the store reaches `todo!()` (keys.rs 125, 187), and `mark_used`
  is never called, so one challenge is reused for every session.
  The specification puts the transport out of scope. Its control is one
  request and one reply per connection (chainsmith main.rs 127-170, pulley
  lib.rs 81-105), and none of the other components' properties depends on
  it. What can go wrong there lies in configuration and in state the two
  programs share through files, and each such case is listed as a hazard:
  the CRP store file `testcrps.post` can be stale, missing or half
  written (lib.rs 46), and the first `accept` error ends the server's
  loop (main.rs 108).
* Map names. The installer looks a map up with `to_ascii_uppercase` while
  codegen names it with `convert_case`'s ScreamingSnake. That crate is not
  part of the repository, so the difference is listed as a hazard only.
* Map contents and kernel map identity. Each NF's object is loaded on its
  own and nothing is pinned, so a map that several NFs bind as Shared is a
  separate kernel map in each; this is listed as a hazard only.
* `compile_xdp_binaries`, `compile_userland` (cargo) and the loading of an
  object by libbpf. Their failures are `unwrap`s or I/O errors.
