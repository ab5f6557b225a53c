-------------------------------- MODULE Umem --------------------------------
(***************************************************************************)
(* Ownership of UMEM frame descriptors in pulley's AF_XDP dataplane        *)
(* (src/pulley/src/main.rs, src/pulley/src/lib.rs).                        *)
(*                                                                         *)
(* One pool of frames is shared by every core's socket.  A frame is, at    *)
(* any moment, in the fill queue (fq), in some core's rx ring, in a core's *)
(* receive batch (the scratch vector xsk.frames), in a core's tx ring, in  *)
(* the completion queue (cq) or in a core's disposal ring.  Only the       *)
(* mediating thread (core 0, or the extra thread) touches fq and cq.       *)
(*                                                                         *)
(* The configuration (xdp_cores, umem_mode) is chosen in Init among the    *)
(* ones main() accepts and never changes.                                  *)
(*                                                                         *)
(* The fill queue, the tx rings and the disposal rings are bags: which    *)
(* frame of them the kernel takes next, and the order a drained ring is    *)
(* produced in, do not bear on who owns a frame, so any order is allowed.  *)
(* The rx rings and batches keep their order, since the swap-remove        *)
(* partition of a batch depends on it, and so does the completion queue,  *)
(* which is consumed from its head a bounded number at a time.             *)
(***************************************************************************)
EXTENDS Naturals, Sequences, FiniteSets, Bags, SequencesExt

CONSTANTS
  Frames,     \* the UMEM frame descriptors (2048 of them in the code)
  MaxCores,   \* largest xdp_cores value explored (the code clamps to 1..8)
  RingCap,    \* capacity of each disposal ring, SharedRb::new(2048)
  FqCap,      \* size of the fill ring (xsk-rs default, 2048)
  TxCap,      \* size of each tx ring (xsk-rs default, 2048)
  Extra       \* model value: the dedicated disposal thread of ExtraThread

ASSUME MaxCores \in Nat \ {0}
ASSUME {RingCap, FqCap, TxCap} \subseteq Nat

AllCores == 0 .. MaxCores - 1
Modes    == {"FirstThread", "ExtraThread"}

\* Length of every scratch vector: each socket gets a clone of all descs.
ScratchLen == Cardinality(Frames)

VARIABLES
  xdpCores,   \* config.xdp_cores after clamping
  umemMode,   \* config.umem_mode
  fq,         \* fill queue (bag), owned by the kernel until a packet fills it
  cq,         \* completion queue of the shared UMEM
  rxq,        \* rxq[c]: frames redirected to core c's socket, not yet polled
  txq,        \* txq[c]: bag of frames produced on core c's tx ring, not sent
  ring,       \* ring[c]: bag of frames core c pushed on its disposal ring
  batch,      \* batch[c]: xsk.frames[0..pkts_recvd) of the current batch
  i,          \* i[c]: loop index of dataplane_core
  numTx,      \* numTx[c]: num_tx of dataplane_core
  pc,         \* pc[t]: where thread t is in its loop
  undrained,  \* undrained[t]: disposal rings thread t has yet to drain
  verdict     \* verdict[f]: decision taken for f in its latest batch

vars == <<xdpCores, umemMode, fq, cq, rxq, txq, ring, batch, i, numTx, pc,
          undrained, verdict>>

Cores == 0 .. xdpCores - 1

Threads == Cores \cup (IF umemMode = "ExtraThread" THEN {Extra} ELSE {})

(***************************************************************************)
(* Thread roles, as main() hands out ring senders and the mediate handles. *)
(* A core with a sender runs dataplane_other_mediate; otherwise core 0     *)
(* runs dataplane_self_mediate_solo when it is alone and                   *)
(* dataplane_self_mediate when it is not.                                  *)
(***************************************************************************)
HasSender(c) == umemMode = "ExtraThread" \/ c # 0

CoreRole(c) ==
  IF HasSender(c) THEN "other"
  ELSE IF xdpCores = 1 THEN "solo" ELSE "self"

\* The cores whose disposal rings exist and are drained by the mediator.
Senders == {c \in Cores : HasSender(c)}

(***************************************************************************)
(* xsk-rs FillQueue::produce: all of the slice, or nothing when the ring   *)
(* has too few free slots.  The count it returns is ignored by the code.   *)
(***************************************************************************)
FqProduce(q, s) == IF BagCardinality(q) + BagCardinality(s) <= FqCap
                   THEN q (+) s ELSE q

\* Occurrences of f in a sequence.
Count(s, f) == Cardinality({k \in DOMAIN s : s[k] = f})

Min2(a, b) == IF a <= b THEN a ELSE b

(***************************************************************************)
(* Init: create_upcall_sockets built one pool and produced every desc to   *)
(* the fill queue; main() created the disposal rings.                      *)
(***************************************************************************)
Init ==
  /\ xdpCores \in 1 .. MaxCores
  /\ umemMode \in Modes
  /\ fq = SetToBag(Frames)
  /\ cq = <<>>
  /\ rxq = [c \in AllCores |-> <<>>]
  /\ txq = [c \in AllCores |-> EmptyBag]
  /\ ring = [c \in AllCores |-> EmptyBag]
  /\ batch = [c \in AllCores |-> <<>>]
  /\ i = [c \in AllCores |-> 0]
  /\ numTx = [c \in AllCores |-> 0]
  /\ pc = [t \in AllCores \cup {Extra} |->
             IF t = Extra THEN "drain" ELSE "poll"]
  /\ undrained = [t \in AllCores \cup {Extra} |->
                    IF t = Extra THEN Senders ELSE {}]
  /\ verdict = [f \in Frames |-> "none"]

(***************************************************************************)
(* Kernel: an upcall redirects a packet into core c's socket, filling the  *)
(* a frame of the fill queue (xsk_map.redirect(target_core)).             *)
(***************************************************************************)
Upcall(c) ==
  /\ \E f \in BagToSet(fq) :
       /\ rxq' = [rxq EXCEPT ![c] = Append(@, f)]
       /\ fq' = fq (-) SetToBag({f})
  /\ UNCHANGED <<xdpCores, umemMode, cq, txq, ring, batch, i, numTx, pc,
                 undrained, verdict>>

\* Kernel: the NIC finished sending frame f of c's tx ring.
Complete(c, f) ==
  /\ BagIn(f, txq[c])
  /\ cq' = Append(cq, f)
  /\ txq' = [txq EXCEPT ![c] = @ (-) SetToBag({f})]
  /\ UNCHANGED <<xdpCores, umemMode, fq, rxq, ring, batch, i, numTx, pc,
                 undrained, verdict>>

(***************************************************************************)
(* dataplane_core, first step: rx.poll_and_consume into xsk.frames.  The   *)
(* scratch has a slot per frame, so every frame waiting is consumed; with  *)
(* none waiting the poll times out and the batch is empty.                 *)
(***************************************************************************)
Poll(c) ==
  /\ pc[c] = "poll"
  /\ LET got == SubSeq(rxq[c], 1, Min2(Len(rxq[c]), ScratchLen)) IN
     /\ batch' = [batch EXCEPT ![c] = got]
     /\ rxq' = [rxq EXCEPT ![c] = SubSeq(@, ScratchLen + 1, Len(@))]
     /\ numTx' = [numTx EXCEPT ![c] = Len(got)]
  /\ i' = [i EXCEPT ![c] = 0]
  /\ verdict' = [f \in Frames |->
                   IF f \in ToSet(rxq[c]) THEN "none" ELSE verdict[f]]
  /\ pc' = [pc EXCEPT ![c] = "run"]
  /\ UNCHANGED <<xdpCores, umemMode, fq, cq, txq, ring, undrained>>

\* xsk.frames[..].swap(a, b) on the 0-based indices of the code.
Swap(s, a, b) == [s EXCEPT ![a + 1] = s[b + 1], ![b + 1] = s[a + 1]]

\* Faulty variants of RunPacket: a drop that also advances i, skipping the
\* packet swapped into slot i; and a drop that forgets the swap.
RunPacketSkipSwapped(c) ==
  /\ pc[c] = "run"
  /\ i[c] < numTx[c]
  /\ LET f == batch[c][i[c] + 1] IN
     \E doTx \in BOOLEAN :
       IF doTx
       THEN /\ i' = [i EXCEPT ![c] = @ + 1]
            /\ verdict' = [verdict EXCEPT ![f] = "tx"]
            /\ UNCHANGED <<numTx, batch>>
       ELSE /\ numTx' = [numTx EXCEPT ![c] = @ - 1]
            /\ batch' = [batch EXCEPT ![c] = Swap(@, i[c], numTx[c] - 1)]
            /\ verdict' = [verdict EXCEPT ![f] = "drop"]
            /\ i' = [i EXCEPT ![c] = @ + 1]
  /\ UNCHANGED <<xdpCores, umemMode, fq, cq, rxq, txq, ring, pc, undrained>>

RunPacketNoSwap(c) ==
  /\ pc[c] = "run"
  /\ i[c] < numTx[c]
  /\ LET f == batch[c][i[c] + 1] IN
     \E doTx \in BOOLEAN :
       IF doTx
       THEN /\ i' = [i EXCEPT ![c] = @ + 1]
            /\ verdict' = [verdict EXCEPT ![f] = "tx"]
            /\ UNCHANGED <<numTx, batch>>
       ELSE /\ numTx' = [numTx EXCEPT ![c] = @ - 1]
            /\ verdict' = [verdict EXCEPT ![f] = "drop"]
            /\ UNCHANGED <<i, batch>>
  /\ UNCHANGED <<xdpCores, umemMode, fq, cq, rxq, txq, ring, pc, undrained>>

(***************************************************************************)
(* One iteration of the while loop of dataplane_core: the packet at i runs *)
(* through the user-space chain (or fails the headroom check) and is kept  *)
(* in the tx block, or swap-removed to its end.                            *)
(***************************************************************************)
RunPacket(c) ==
  /\ pc[c] = "run"
  /\ i[c] < numTx[c]
  /\ LET f == batch[c][i[c] + 1] IN
     \E doTx \in BOOLEAN :
       IF doTx
       THEN /\ i' = [i EXCEPT ![c] = @ + 1]
            /\ verdict' = [verdict EXCEPT ![f] = "tx"]
            /\ UNCHANGED <<numTx, batch>>
       ELSE /\ numTx' = [numTx EXCEPT ![c] = @ - 1]
            /\ batch' = [batch EXCEPT ![c] = Swap(@, i[c], numTx[c] - 1)]
            /\ verdict' = [verdict EXCEPT ![f] = "drop"]
            /\ UNCHANGED i
  /\ UNCHANGED <<xdpCores, umemMode, fq, cq, rxq, txq, ring, pc, undrained>>

\* The loop ends when i reaches num_tx; (num_tx, pkts_recvd) is returned.
EndBatch(c) ==
  /\ pc[c] = "run"
  /\ i[c] >= numTx[c]
  /\ pc' = [pc EXCEPT ![c] = "tx"]
  /\ UNCHANGED <<xdpCores, umemMode, fq, cq, rxq, txq, ring, batch, i,
                 numTx, undrained, verdict>>

\* Faulty variant of DropBlock: the slice starts one past num_tx.
DropBlockSkipFirst(c) == SubSeq(batch[c], numTx[c] + 2, Len(batch[c]))

\* The tx block xsk.frames[..num_tx] and the drop block [num_tx..pkts_recvd).
TxBlock(c)   == SubSeq(batch[c], 1, numTx[c])
DropBlock(c) == SubSeq(batch[c], numTx[c] + 1, Len(batch[c]))

(***************************************************************************)
(* xsk.tx.produce_and_wakeup(&xsk.frames[..num_tx]): all of the block or   *)
(* nothing (the count is ignored); every role does this first.             *)
(***************************************************************************)
Transmit(c) ==
  /\ pc[c] = "tx"
  /\ txq' = [txq EXCEPT ![c] = IF BagCardinality(@) + numTx[c] <= TxCap
                                THEN @ (+) ToBag(TxBlock(c)) ELSE @]
  /\ pc' = [pc EXCEPT ![c] = "dispose"]
  /\ UNCHANGED <<xdpCores, umemMode, fq, cq, rxq, ring, batch, i, numTx,
                 undrained, verdict>>

\* Faulty variant of SelfRecycle: the self role never turns to the rings.
SelfRecycleNoDrain(c) ==
  /\ pc[c] = "dispose"
  /\ CoreRole(c) \in {"solo", "self"}
  /\ LET additional == Min2(Len(cq), ScratchLen - Len(batch[c])) IN
     /\ fq' = FqProduce(fq, ToBag(DropBlock(c) \o SubSeq(cq, 1, additional)))
     /\ cq' = SubSeq(cq, additional + 1, Len(cq))
  /\ batch' = [batch EXCEPT ![c] = <<>>]
  /\ i' = [i EXCEPT ![c] = 0]
  /\ numTx' = [numTx EXCEPT ![c] = 0]
  /\ pc' = [pc EXCEPT ![c] = "poll"]
  /\ UNCHANGED <<xdpCores, umemMode, rxq, txq, ring, undrained, verdict>>

(***************************************************************************)
(* Mediating core (solo or self): cq.consume(&mut xsk.frames[pkts_recvd..])*)
(* then fq.produce(&xsk.frames[num_tx..pkts_recvd + additional]): dropped  *)
(* frames and completed ones go back to the fill queue together.  The self *)
(* role then drains the other cores' rings.  The stale descriptors left   *)
(* in xsk.frames are dropped from the state: the next poll overwrites them.*)
(***************************************************************************)
SelfRecycle(c) ==
  /\ pc[c] = "dispose"
  /\ CoreRole(c) \in {"solo", "self"}
  /\ LET additional == Min2(Len(cq), ScratchLen - Len(batch[c])) IN
     /\ fq' = FqProduce(fq, ToBag(DropBlock(c) \o SubSeq(cq, 1, additional)))
     /\ cq' = SubSeq(cq, additional + 1, Len(cq))
  /\ batch' = [batch EXCEPT ![c] = <<>>]
  /\ i' = [i EXCEPT ![c] = 0]
  /\ numTx' = [numTx EXCEPT ![c] = 0]
  /\ IF CoreRole(c) = "self"
     THEN /\ pc' = [pc EXCEPT ![c] = "drain"]
          /\ undrained' = [undrained EXCEPT ![c] = Senders]
     ELSE /\ pc' = [pc EXCEPT ![c] = "poll"]
          /\ UNCHANGED undrained
  /\ UNCHANGED <<xdpCores, umemMode, rxq, txq, ring, verdict>>

(***************************************************************************)
(* Non-mediating core: fd_sender.push_slice(&xsk.frames[num_tx..pkts_recvd])*)
(* pushes as many as the ring has room for; the rest are not pushed and    *)
(* the count returned is ignored.                                          *)
(***************************************************************************)
OtherPush(c) ==
  /\ pc[c] = "dispose"
  /\ CoreRole(c) = "other"
  /\ LET n == Min2(Len(DropBlock(c)), RingCap - BagCardinality(ring[c]))
     IN ring' = [ring EXCEPT ![c] = @ (+) ToBag(SubSeq(DropBlock(c), 1, n))]
  /\ batch' = [batch EXCEPT ![c] = <<>>]
  /\ i' = [i EXCEPT ![c] = 0]
  /\ numTx' = [numTx EXCEPT ![c] = 0]
  /\ pc' = [pc EXCEPT ![c] = "poll"]
  /\ UNCHANGED <<xdpCores, umemMode, fq, cq, rxq, txq, undrained, verdict>>

(***************************************************************************)
(* The mediator drains one disposal ring: ring.as_slices() gives the two   *)
(* halves s1, s2 of the ring buffer, fq.produce(s1), fq.produce(s2), then  *)
(* ring.advance over both.  Where the buffer wraps is not modelled, so the *)
(* split is any.  An empty ring is skipped.                                *)
(***************************************************************************)
DrainRing(t, r) ==
  /\ pc[t] = "drain"
  /\ r \in undrained[t]
  /\ \E s1 \in SubBag(ring[r]) :
       fq' = FqProduce(FqProduce(fq, s1), ring[r] (-) s1)
  /\ ring' = [ring EXCEPT ![r] = EmptyBag]
  /\ undrained' = [undrained EXCEPT ![t] = @ \ {r}]
  /\ UNCHANGED <<xdpCores, umemMode, cq, rxq, txq, batch, i, numTx, pc,
                 verdict>>

\* The for-loop over the rings is over: back to the top of the loop.
EndDrain(t) ==
  /\ pc[t] = "drain"
  /\ undrained[t] = {}
  /\ pc' = [pc EXCEPT ![t] = IF t = Extra THEN "recycle" ELSE "poll"]
  /\ UNCHANGED <<xdpCores, umemMode, fq, cq, rxq, txq, ring, batch, i,
                 numTx, undrained, verdict>>

(***************************************************************************)
(* Extra thread, after the rings: cq.consume(&mut my_frames[..]) and       *)
(* fq.produce(&my_frames[..additional_pkts]); then the next iteration      *)
(* drains every ring again.                                                *)
(***************************************************************************)
ExtraRecycle ==
  /\ pc[Extra] = "recycle"
  /\ LET additional == Min2(Len(cq), ScratchLen) IN
     /\ fq' = FqProduce(fq, ToBag(SubSeq(cq, 1, additional)))
     /\ cq' = SubSeq(cq, additional + 1, Len(cq))
  /\ pc' = [pc EXCEPT ![Extra] = "drain"]
  /\ undrained' = [undrained EXCEPT ![Extra] = Senders]
  /\ UNCHANGED <<xdpCores, umemMode, rxq, txq, ring, batch, i, numTx,
                 verdict>>

CoreStep(c) ==
  \/ Poll(c) \/ RunPacket(c) \/ EndBatch(c) \/ Transmit(c)
  \/ SelfRecycle(c) \/ OtherPush(c)
  \/ \E r \in Senders : DrainRing(c, r)
  \/ EndDrain(c)

ExtraStep ==
  /\ umemMode = "ExtraThread"
  /\ \/ \E r \in Senders : DrainRing(Extra, r)
     \/ EndDrain(Extra)
     \/ ExtraRecycle

Next ==
  \/ \E c \in Cores : Upcall(c) \/ CoreStep(c)
  \/ \E c \in Cores, f \in Frames : Complete(c, f)
  \/ ExtraStep

(***************************************************************************)
(* Every dataplane thread is an OS thread spinning in its loop (the poll   *)
(* times out after upcall_poll_timeout ms), and the kernel completes every *)
(* transmission it was given (the tx ring is sent in order, so no frame of *)
(* it waits forever; fairness is per frame since the model keeps the ring  *)
(* as a bag).  Packet arrival (Upcall) is not fair.                        *)
(***************************************************************************)
Fairness ==
  /\ \A c \in AllCores : WF_vars(c \in Cores /\ CoreStep(c))
  /\ \A c \in AllCores, f \in Frames : WF_vars(c \in Cores /\ Complete(c, f))
  /\ WF_vars(ExtraStep)

Spec == Init /\ [][Next]_vars /\ Fairness

-----------------------------------------------------------------------------
(***************************************************************************)
(* Properties.                                                             *)
(***************************************************************************)

Threads0 == AllCores \cup {Extra}

\* Types, and the bounds of dataplane_core's loop: i <= num_tx <= pkts_recvd,
\* so xsk.frames[i] is always a received frame of the batch.
TypeOK ==
  /\ xdpCores \in 1 .. MaxCores
  /\ umemMode \in Modes
  /\ IsABag(fq) /\ BagToSet(fq) \subseteq Frames
  /\ cq \in Seq(Frames)
  /\ \A c \in AllCores :
       /\ {rxq[c], batch[c]} \subseteq Seq(Frames)
       /\ IsABag(txq[c]) /\ BagToSet(txq[c]) \subseteq Frames
       /\ IsABag(ring[c]) /\ BagToSet(ring[c]) \subseteq Frames
       /\ i[c] \in 0 .. numTx[c] /\ numTx[c] \in 0 .. Len(batch[c])
  /\ pc \in [Threads0 -> {"poll", "run", "tx", "dispose", "drain", "recycle"}]
  /\ undrained \in [Threads0 -> SUBSET AllCores]
  /\ verdict \in [Frames -> {"none", "tx", "drop"}]

\* The frames core c owns in its scratch vector at its current step: all of
\* the batch while it runs and transmits, then only the drop block.  Once
\* disposed of, the stale copies left in xsk.frames are owned by no one.
Held(c) ==
  CASE pc[c] \in {"run", "tx"} -> batch[c]
    [] pc[c] = "dispose"       -> DropBlock(c)
    [] OTHER                   -> <<>>

Owners(f) ==
  CopiesIn(f, fq) + Count(cq, f)
  + MapThenSumSet(LAMBDA c : Count(rxq[c], f) + CopiesIn(f, txq[c])
                             + CopiesIn(f, ring[c]) + Count(Held(c), f),
                  AllCores)

(***************************************************************************)
(* No descriptor is ever leaked from the pool or owned twice: each frame   *)
(* is in exactly one of fq, cq, a core's rx/tx/disposal ring or a core's   *)
(* live batch.  This is about the slice bounds of the tx, recycle and      *)
(* push steps of every role (main.rs 230-239, 269-295, 323-326, 87-110)    *)
(* and the swap-remove partition of dataplane_core.                        *)
(***************************************************************************)
FrameConservation == \A f \in Frames : Owners(f) = 1

(***************************************************************************)
(* A frame is transmitted only if the chain decided Tx for it in its       *)
(* latest batch, and a frame is handed to a disposal ring only if the      *)
(* chain dropped it: the in-place partition [0, num_tx) / [num_tx,         *)
(* pkts_recvd) of dataplane_core matches the decisions.                    *)
(***************************************************************************)
VerdictRespected ==
  \A c \in AllCores :
    /\ \A f \in BagToSet(txq[c]) \cup ToSet(cq) : verdict[f] = "tx"
    /\ \A f \in BagToSet(ring[c]) : verdict[f] = "drop"

(***************************************************************************)
(* Every frame that leaves the fill queue comes back to it: dropped frames *)
(* through the mediator's fq.produce, sent frames through the completion   *)
(* queue.  This needs the mediator of the configured mode to drain the     *)
(* rings and the completion queue on every iteration.                      *)
(***************************************************************************)
FrameReturns == \A f \in Frames : ~BagIn(f, fq) ~> BagIn(f, fq)

=============================================================================
