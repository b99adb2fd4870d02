--------------------------- MODULE AdaptiveCache ---------------------------
(***************************************************************************)
(* The adaptive expert cache of one layer: the decode-time tick            *)
(* (_kt_adaptive_update_layer), which re-selects the GPU-resident set      *)
(* between two forwards, and the update after a long prefill               *)
(* (_update_gpu_experts_from_batch), which re-selects it from the batch.   *)
(*                                                                         *)
(* In both, rank 0 selects, the set is broadcast in a buffer of the fixed  *)
(* size num_gpu_experts, and every rank restages its own shard.  With      *)
(* TierEnabled the layer runs under a static three-tier split, in which    *)
(* the tick stays enabled as long as the SSD tier is empty.                *)
(***************************************************************************)
EXTENDS Residency

CONSTANTS
    MaxSwap    \* KT_ADAPTIVE_MAX_SWAP: swaps of one tick

CacheAssumption == MaxSwap \in Nat

VARIABLES
    pc,        \* pc[r]: where rank r is in its step
    sel        \* the set rank 0 broadcast last

vars == <<residencyVars, pc, sel>>

Phase == {"forward", "tick", "prefill", "load", "narrow", "full"}

TypeOK ==
    /\ ResidencyTypeOK
    /\ pc \in [Rank -> Phase]
    /\ sel \subseteq Expert

----------------------------------------------------------------------------

(* Boot.  Without tiers the RAM mask is the complement of the GPU mask.    *)
(* With KT_RAM_EXPERTS = num_experts - num_gpu_experts it is that too.     *)
Init ==
    /\ \E gpu \in SUBSET Expert :
          /\ Cardinality(gpu) = NGpu
          /\ ResidencyInit(gpu, Expert \ gpu)
          /\ sel = gpu
    /\ pc = [r \in Rank |-> "forward"]

(* A decode forward, followed by the adaptive clock reaching this layer.   *)
(* The tick returns early on a rank that sees an SSD tier, or a resident   *)
(* set of another size than the slots.                                     *)
TickRuns(r) ==
    /\ TierEnabled => gpuMask[r] \cup ramMask[r] = Expert
    /\ NGpu > 0
    /\ Cardinality(gpuMask[r]) = NGpu

Forward ==
    /\ \A r \in Rank : pc[r] = "forward"
    /\ pc' = [r \in Rank |-> IF TickRuns(r) THEN "tick" ELSE "forward"]
    /\ UNCHANGED <<residencyVars, sel>>

(* A prefill above the threshold: all experts are loaded into the scratch  *)
(* layer, the batch is computed there, and then the set is re-selected.    *)
(* The three-tier store disables this path.                                *)
Prefill ==
    /\ ~TierEnabled
    /\ \A r \in Rank : pc[r] = "forward"
    /\ scratch' = [r \in Rank |-> FullScratch(r)]
    /\ pc' = [r \in Rank |-> "prefill"]
    /\ UNCHANGED <<gpuMask, ramMask, slotOf, weights, staged, skip, sel>>

(* Faulty variant: after a prefill only rank 0 applies the set.            *)
AfterBroadcastLeadOnly(r, s) ==
    IF s = gpuMask[r] \/ (pc[r] = "prefill" /\ r # 0) THEN "forward"
    ELSE IF pc[r] = "prefill" THEN "full" ELSE "load"

(* What a rank that knows the selection does next: nothing when it is the  *)
(* resident set, otherwise load (tick) or apply from the scratch layer the *)
(* prefill has already filled.                                             *)
AfterBroadcast(r, s) ==
    IF s = gpuMask[r] THEN "forward"
    ELSE IF pc[r] = "prefill" THEN "full" ELSE "load"

(* Rank 0 selects.  A tick swaps at most MaxSwap experts; the prefill      *)
(* takes the top experts of the batch, whatever is resident.               *)
Selections(phase) ==
    {s \in SUBSET Expert :
        /\ Cardinality(s) = NGpu
        /\ phase = "tick" => Cardinality(s \ gpuMask[0]) <= MaxSwap}

Select ==
    /\ pc[0] \in {"tick", "prefill"}
    /\ sel' \in Selections(pc[0])
    /\ pc' = [pc EXCEPT ![0] = AfterBroadcast(0, sel')]
    /\ UNCHANGED residencyVars

Receive(r) ==
    /\ r # 0 /\ pc[r] \in {"tick", "prefill"} /\ pc[0] \notin {"tick", "prefill"}
    /\ pc' = [pc EXCEPT ![r] = AfterBroadcast(r, sel)]
    /\ UNCHANGED <<residencyVars, sel>>

LoadNarrow ==
    /\ \A r \in Rank : pc[r] = "load" /\ Narrowable(r, sel)
    /\ scratch' = [r \in Rank |-> NarrowScratch(sel \ gpuMask[r])]
    /\ pc' = [r \in Rank |-> "narrow"]
    /\ UNCHANGED <<gpuMask, ramMask, slotOf, weights, staged, skip, sel>>

LoadFull ==
    /\ \A r \in Rank : pc[r] = "load" /\ ~Narrowable(r, sel)
    /\ scratch' = [r \in Rank |-> FullScratch(r)]
    /\ pc' = [r \in Rank |-> "full"]
    /\ UNCHANGED <<gpuMask, ramMask, slotOf, weights, staged, skip, sel>>

Apply(r) ==
    /\ \/ pc[r] = "narrow" /\ ApplyIncremental(r, sel)
       \/ pc[r] = "full" /\ ApplyFull(r, sel)
    /\ pc' = [pc EXCEPT ![r] = "forward"]
    /\ UNCHANGED <<ramMask, scratch, staged, sel>>

Next ==
    \/ Forward \/ Prefill \/ Select \/ LoadNarrow \/ LoadFull
    \/ \E r \in Rank : Receive(r) \/ Apply(r)

Spec == Init /\ [][Next]_vars

----------------------------------------------------------------------------
(* Properties.                                                             *)

AtForward == \A r \in Rank : pc[r] = "forward"

(* Whatever has been swapped, a forward computes each expert it keeps once *)
(* and with that expert's own weights, on every rank's GPU shard or on the *)
(* CPU of rank 0: nothing is counted twice and nothing is lost.            *)
EveryExpertServedOnce == AtForward => \A e \in Expert : ServedOnce(e)

(* A resident expert's slot holds its weights on every rank, also while    *)
(* the other ranks have moved on or not yet started to restage.            *)
GpuSlotsCorrect == SlotsHoldTheirExperts

(* The ranks have the same resident set whenever they meet in a forward:   *)
(* the size guard and the fixed-size broadcast see rank-identical state.   *)
LockstepForward ==
    AtForward => \A r \in Rank : gpuMask[r] = gpuMask[0] /\ TickRuns(r)

(* At every forward of the adaptive cache the ranks agree, each expert is  *)
(* served once, and a slot never holds another expert's weights.           *)
CacheServes == LockstepForward /\ EveryExpertServedOnce /\ GpuSlotsCorrect
=============================================================================
