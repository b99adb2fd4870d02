---------------------------- MODULE PassProofs ----------------------------
(* Proofs about what runs in and between passes: the adaptive expert cache  *)
(* without the three-tier store, for any number of ranks, experts, slots    *)
(* and swaps; the kernels of the sparse backend, for any lengths and        *)
(* limits; the collectives of the layers and of the gathers, what the       *)
(* layers put out and what the model runner returns, for any ranks, batches *)
(* and launches; and the attention of a pass, for any layers and requests.  *)
EXTENDS MCPass, Sequences, FiniteSetTheorems, WellFoundedInduction, TLAPS

-----------------------------------------------------------------------------
(* The adaptive cache (AdaptiveCache).                                      *)

(* The store keeps every expert, and the CPU skips what rank 0 has on the   *)
(* GPU.                                                                     *)
StoreWhole == staged = Expert /\ skip = gpuMask[0]

(* Ranks that have applied, or had nothing to apply, hold the set that was  *)
(* broadcast; the others hold one same old set; and no rank selects alone.  *)
SetsInStep ==
    /\ \A r \in Rank : pc[r] = "forward" => gpuMask[r] = sel
    /\ \A r, s \in Rank : pc[r] # "forward" /\ pc[s] # "forward" => gpuMask[r] = gpuMask[s]
    /\ pc[0] \in {"tick", "prefill"} => \A r \in Rank : pc[r] = pc[0]

(* Every set fills the slots.                                               *)
SlotsFilled == Cardinality(sel) = NGpu /\ \A r \in Rank : Cardinality(gpuMask[r]) = NGpu

(* A loaded scratch layer holds what the apply is going to read.            *)
ScratchLoaded ==
    \A r \in Rank :
        /\ pc[r] \in {"prefill", "full"} => \A e \in Expert : scratch[r][e] = e
        /\ pc[r] = "narrow" => \A e \in sel \ gpuMask[r] : scratch[r][e] = e

CacheInv ==
    /\ TypeOK /\ SlotsHoldTheirExperts
    /\ StoreWhole /\ SetsInStep /\ SlotsFilled /\ ScratchLoaded

-----------------------------------------------------------------------------
(* Steps that leave the tables alone and only move the ranks on.            *)
LEMMA KeepsTables ==
    ASSUME TypeOK, SlotsHoldTheirExperts, StoreWhole,
           UNCHANGED <<gpuMask, ramMask, slotOf, weights, staged, skip>>,
           scratch' \in [Rank -> [Expert -> Contents]], pc' \in [Rank -> Phase], sel' \subseteq Expert
    PROVE  TypeOK' /\ SlotsHoldTheirExperts' /\ StoreWhole'
BY DEF TypeOK, ResidencyTypeOK, SlotsHoldTheirExperts, StoreWhole

LEMMA ForwardStep == ASSUME CacheInv, ~TierEnabled, Forward PROVE CacheInv'
<1> USE DEF CacheInv
<1>1. /\ \A r \in Rank : pc[r] = "forward"
      /\ pc' = [r \in Rank |-> IF TickRuns(r) THEN "tick" ELSE "forward"]
      /\ UNCHANGED <<residencyVars, sel>>
  BY DEF Forward
<1>2. \A r \in Rank : TickRuns(r) <=> NGpu > 0
  BY DEF TickRuns, SlotsFilled
<1>3. TypeOK' /\ SlotsHoldTheirExperts' /\ StoreWhole'
  BY <1>1, KeepsTables DEF residencyVars, TypeOK, ResidencyTypeOK, Phase
<1>4. SetsInStep'
  BY <1>1, <1>2, RankZero DEF residencyVars, SetsInStep
<1>5. SlotsFilled' /\ ScratchLoaded'
  BY <1>1 DEF residencyVars, SlotsFilled, ScratchLoaded
<1> QED
  BY <1>3, <1>4, <1>5

(* Every expert is in the store, so a full load is right for all of them.   *)
LEMMA FullLoads ==
    ASSUME CacheInv, scratch' = [r \in Rank |-> FullScratch(r)]
    PROVE  /\ scratch' \in [Rank -> [Expert -> Contents]]
           /\ \A r \in Rank : \A e \in Expert : scratch'[r][e] = e
BY FullScratchFacts DEF CacheInv, TypeOK, StoreWhole

LEMMA PrefillStep == ASSUME CacheInv, Prefill PROVE CacheInv'
<1> USE DEF CacheInv
<1>1. /\ \A r \in Rank : pc[r] = "forward"
      /\ scratch' = [r \in Rank |-> FullScratch(r)]
      /\ pc' = [r \in Rank |-> "prefill"]
      /\ UNCHANGED <<gpuMask, ramMask, slotOf, weights, staged, skip, sel>>
  BY DEF Prefill
<1>2. TypeOK' /\ SlotsHoldTheirExperts' /\ StoreWhole'
  BY <1>1, FullLoads, KeepsTables DEF TypeOK, Phase
<1>3. SetsInStep'
  BY <1>1, RankZero DEF SetsInStep
<1>4. SlotsFilled' /\ ScratchLoaded'
  BY <1>1, FullLoads DEF SlotsFilled, ScratchLoaded
<1> QED
  BY <1>2, <1>3, <1>4

LEMMA SelectStep == ASSUME CacheInv, Select PROVE CacheInv'
<1> USE DEF CacheInv
<1>1. /\ pc[0] \in {"tick", "prefill"}
      /\ sel' \subseteq Expert /\ Cardinality(sel') = NGpu
      /\ pc' = [pc EXCEPT ![0] = AfterBroadcast(0, sel')]
      /\ UNCHANGED residencyVars
  BY DEF Select, Selections
<1>2. /\ AfterBroadcast(0, sel') \in {"forward", "full", "load"}
      /\ AfterBroadcast(0, sel') = "forward" <=> sel' = gpuMask[0]
      /\ AfterBroadcast(0, sel') = "full" => pc[0] = "prefill"
  BY <1>1 DEF AfterBroadcast
<1>3. \A r \in Rank : pc[r] = pc[0] /\ gpuMask[r] = gpuMask[0]
  BY <1>1, RankZero DEF SetsInStep
<1>4. TypeOK' /\ SlotsHoldTheirExperts' /\ StoreWhole'
  BY <1>1, <1>2, KeepsTables DEF TypeOK, ResidencyTypeOK, Phase, residencyVars
<1>5. SetsInStep'
  BY <1>1, <1>2, <1>3, RankZero DEF SetsInStep, TypeOK, residencyVars
<1>6. SlotsFilled'
  BY <1>1 DEF SlotsFilled, residencyVars
<1>7. ScratchLoaded'
  BY <1>1, <1>2, <1>3 DEF ScratchLoaded, TypeOK, residencyVars
<1> QED
  BY <1>4, <1>5, <1>6, <1>7

LEMMA ReceiveStep == ASSUME CacheInv, NEW r \in Rank, Receive(r) PROVE CacheInv'
<1> USE DEF CacheInv
<1>1. /\ r # 0 /\ pc[r] \in {"tick", "prefill"} /\ pc[0] \notin {"tick", "prefill"}
      /\ pc' = [pc EXCEPT ![r] = AfterBroadcast(r, sel)]
      /\ UNCHANGED <<residencyVars, sel>>
  BY DEF Receive
<1>2. /\ AfterBroadcast(r, sel) \in {"forward", "full", "load"}
      /\ AfterBroadcast(r, sel) = "forward" <=> sel = gpuMask[r]
      /\ AfterBroadcast(r, sel) = "full" => pc[r] = "prefill"
  BY <1>1 DEF AfterBroadcast
<1>3. TypeOK' /\ SlotsHoldTheirExperts' /\ StoreWhole'
  BY <1>1, <1>2, KeepsTables DEF TypeOK, ResidencyTypeOK, Phase, residencyVars
<1>4. SetsInStep'
  BY <1>1, <1>2, RankZero DEF SetsInStep, TypeOK, residencyVars
<1>5. SlotsFilled' /\ ScratchLoaded'
  BY <1>1, <1>2 DEF SlotsFilled, ScratchLoaded, TypeOK, residencyVars
<1> QED
  BY <1>3, <1>4, <1>5

LEMMA LoadStep == ASSUME CacheInv, LoadNarrow \/ LoadFull PROVE CacheInv'
<1> USE DEF CacheInv
<1>1. /\ \A r \in Rank : pc[r] = "load"
      /\ UNCHANGED <<gpuMask, ramMask, slotOf, weights, staged, skip, sel>>
      /\ pc' \in [Rank -> {"narrow", "full"}]
  BY DEF LoadNarrow, LoadFull
<1>2. /\ scratch' \in [Rank -> [Expert -> Contents]]
      /\ \A r \in Rank : /\ pc'[r] = "full" => \A e \in Expert : scratch'[r][e] = e
                         /\ pc'[r] = "narrow" => \A e \in sel \ gpuMask[r] : scratch'[r][e] = e
  <2>1. CASE LoadNarrow
    <3>1. \A r \in Rank : /\ NarrowScratch(sel \ gpuMask[r]) \in [Expert -> Contents]
                          /\ \A e \in sel \ gpuMask[r] : NarrowScratch(sel \ gpuMask[r])[e] = e
      BY NarrowScratchFacts DEF StoreWhole, TypeOK
    <3> QED
      BY <2>1, <3>1 DEF LoadNarrow
  <2>2. CASE LoadFull
    BY <2>2, FullLoads DEF LoadFull
  <2> QED
    BY <1>1, <2>1, <2>2
<1>3. TypeOK' /\ SlotsHoldTheirExperts' /\ StoreWhole'
  BY <1>1, <1>2, KeepsTables DEF TypeOK, Phase
<1>4. SetsInStep'
  BY <1>1, RankZero DEF SetsInStep
<1>5. SlotsFilled' /\ ScratchLoaded'
  BY <1>1, <1>2 DEF SlotsFilled, ScratchLoaded
<1> QED
  BY <1>3, <1>4, <1>5

LEMMA ApplyStep == ASSUME CacheInv, ~TierEnabled, NEW r \in Rank, Apply(r) PROVE CacheInv'
<1> USE DEF CacheInv
<1>1. /\ pc[r] \in {"narrow", "full"} /\ sel \subseteq Expert
      /\ pc' = [pc EXCEPT ![r] = "forward"]
      /\ UNCHANGED <<ramMask, scratch, staged, sel>>
  BY DEF Apply, TypeOK
<1>2. /\ ResidencyTypeOK' /\ SlotsHoldTheirExperts'
      /\ gpuMask' = [gpuMask EXCEPT ![r] = sel]
      /\ skip' = IF r = 0 THEN SkipMask(sel, ramMask[0]) ELSE skip
  <2>1. CASE pc[r] = "narrow"
    BY <1>1, <2>1, ApplyIncrementalFacts DEF Apply, TypeOK, ScratchLoaded
  <2>2. CASE pc[r] = "full"
    BY <1>1, <2>2, ApplyFullFacts DEF Apply, TypeOK, ScratchLoaded
  <2> QED
    BY <1>1, <2>1, <2>2
<1>3. TypeOK'
  BY <1>1, <1>2 DEF TypeOK, Phase
<1>4. gpuMask'[r] = sel /\ \A q \in Rank : q # r => gpuMask'[q] = gpuMask[q]
  BY <1>2 DEF TypeOK, ResidencyTypeOK
<1>5. StoreWhole'
  BY <1>1, <1>2, <1>4, RankZero DEF StoreWhole, SkipMask
<1>6. SetsInStep'
  BY <1>1, <1>4, RankZero DEF SetsInStep, TypeOK
<1>7. SlotsFilled' /\ ScratchLoaded'
  BY <1>1, <1>4 DEF SlotsFilled, ScratchLoaded, TypeOK
<1> QED
  BY <1>2, <1>3, <1>5, <1>6, <1>7

-----------------------------------------------------------------------------

LEMMA CacheInvHolds == ASSUME ~TierEnabled PROVE Spec => []CacheInv
<1>1. Init => CacheInv
  <2> SUFFICES ASSUME Init PROVE CacheInv
    OBVIOUS
  <2>1. PICK gpu \in SUBSET Expert :
           Cardinality(gpu) = NGpu /\ ResidencyInit(gpu, Expert \ gpu) /\ sel = gpu
    BY DEF Init
  <2>2. ResidencyTypeOK /\ SlotsHoldTheirExperts
    BY <2>1, ResidencyInitFacts
  <2>3. /\ gpuMask = [r \in Rank |-> gpu] /\ staged = Expert /\ skip = gpu
        /\ pc = [r \in Rank |-> "forward"]
    BY <2>1 DEF Init, ResidencyInit, InitStaged, SkipMask
  <2> QED
    BY <2>1, <2>2, <2>3, RankZero
    DEF CacheInv, TypeOK, Phase, StoreWhole, SetsInStep, SlotsFilled, ScratchLoaded
<1>2. CacheInv /\ [Next]_vars => CacheInv'
  <2>1. CacheInv /\ UNCHANGED vars => CacheInv'
    BY DEF vars, residencyVars, CacheInv, TypeOK, ResidencyTypeOK, SlotsHoldTheirExperts,
       StoreWhole, SetsInStep, SlotsFilled, ScratchLoaded
  <2> QED
    BY <2>1, ForwardStep, PrefillStep, SelectStep, ReceiveStep, LoadStep, ApplyStep DEF Next
<1> QED
  BY <1>1, <1>2, PTL DEF Spec

(* Every reachable state of the adaptive cache is well typed.               *)
THEOREM CacheTypes == ASSUME ~TierEnabled PROVE Spec => []TypeOK
<1>1. CacheInv => TypeOK
  BY DEF CacheInv
<1> QED
  BY <1>1, CacheInvHolds, PTL

(* Without the three-tier store, whatever the ticks and the prefills have   *)
(* swapped: the ranks meet in a forward with one resident set, every expert *)
(* is computed once and with its own weights, and no slot is ever wrong.    *)
THEOREM CacheAlwaysServes == ASSUME ~TierEnabled, NGpu > 0 PROVE Spec => []CacheServes
<1>1. CacheInv => CacheServes
  <2> SUFFICES ASSUME CacheInv PROVE CacheServes
    OBVIOUS
  <2>1. AtForward => \A r \in Rank : gpuMask[r] = gpuMask[0]
    BY RankZero DEF AtForward, CacheInv, SetsInStep
  <2>2. LockstepForward
    BY <2>1 DEF LockstepForward, TickRuns, CacheInv, SlotsFilled
  <2>3. EveryExpertServedOnce
    <3> SUFFICES ASSUME AtForward, NEW e \in Expert PROVE ServedOnce(e)
      BY DEF EveryExpertServedOnce
    <3>1. CASE e \in gpuMask[0]
      BY <2>1, <3>1 DEF CacheInv, StoreWhole, SlotsHoldTheirExperts, ServedOnce, GpuComputes, GpuReads, CpuComputes
    <3>2. CASE e \notin gpuMask[0]
      BY <2>1, <3>2 DEF CacheInv, StoreWhole, ServedOnce, GpuComputes, CpuComputes, StoreRead
    <3> QED
      BY <3>1, <3>2
  <2> QED
    BY <2>2, <2>3 DEF CacheServes, GpuSlotsCorrect, CacheInv
<1> QED
  BY <1>1, CacheInvHolds, PTL

-----------------------------------------------------------------------------
(* The choice of kernels (NsaDispatch).                                     *)

(* What a pass finds in the settings, and what its layers did.              *)
KernelInv ==
    /\ set \in Dispatch!Settings
    /\ Dispatch!IndicesFitKernel /\ Dispatch!OffsetsWhenRagged /\ Dispatch!FlattenedWhenGathered

(* Neither form of the settings lets the automatic choice end in the ragged *)
(* form outside the passes that gather their keys.                          *)
LEMMA RaggedIsExtend ==
    ASSUME ~UserPrefill, set \in Dispatch!Settings, NEW b,
           set.prefill # "flashmla_auto" => ~ set.fp8,
           Dispatch!Method(Dispatch!Impl(b, FALSE)) = "ragged"
    PROVE  b.mode = "extend" /\ Dispatch!Impl(b, FALSE) = "flashmla_sparse" /\ set.fp8
BY DEF Dispatch!Method, Dispatch!Impl

LEMMA SettingsFacts ==
    ASSUME ~UserPrefill, set \in Dispatch!Settings
    PROVE  /\ set.fp8 \in BOOLEAN /\ set.fuse \in BOOLEAN
           /\ set.prefill # "flashmla_auto" => ~ set.fp8
BY DEF Dispatch!Settings, Dispatch!DefaultSettings

LEMMA PassFits ==
    ASSUME ~UserPrefill, KernelInv, NEW b \in Dispatch!Batches, Dispatch!Pass(b)
    PROVE  KernelInv'
<1> DEFINE mha == Dispatch!UseMha(b)
           impl == Dispatch!Impl(b, mha)
           m == [offset |-> Dispatch!HasOffset(b, impl), flat |-> Dispatch!NeedsFlat(b, mha, impl)]
<1>1. layer' = Dispatch!Layer(b, mha, impl, m) /\ set' = set
  BY DEF Dispatch!Pass
<1>2. mha \in BOOLEAN
  BY DEF Dispatch!UseMha
<1>3. CASE mha
  <2>1. /\ layer'.indices = "none" /\ layer'.reads = "none" /\ layer'.offsetOk
        /\ layer'.flatOk = (~ Dispatch!HasPrefix(b) \/ ~ Dispatch!PlainExtend(b) \/ (set.fp8 => m.flat))
    BY <1>1, <1>3 DEF Dispatch!Layer
  <2>2. set.fp8 /\ Dispatch!HasPrefix(b) /\ Dispatch!PlainExtend(b) => m.flat
    BY <1>3 DEF Dispatch!NeedsFlat
  <2> QED
    BY <1>1, <2>1, <2>2 DEF KernelInv, Dispatch!IndicesFitKernel, Dispatch!OffsetsWhenRagged,
       Dispatch!FlattenedWhenGathered, Dispatch!Settings
<1>4. CASE ~ mha
  <2>0. impl = Dispatch!Impl(b, FALSE)
    BY <1>2, <1>4
  <2> DEFINE ragged == Dispatch!Method(impl) = "ragged"
  <2>1. ragged => b.mode = "extend" /\ impl = "flashmla_sparse" /\ set.fp8
    BY <2>0, RaggedIsExtend, SettingsFacts DEF KernelInv
  <2>2. ~ ragged => Dispatch!Method(impl) = "paged"
    BY DEF Dispatch!Method
  <2>3. layer'.indices = layer'.reads
    BY <1>1, <1>4, <2>1, <2>2 DEF Dispatch!Layer, Dispatch!Kernel
  <2>4. layer'.offsetOk
    <3>1. layer'.offsetOk = (mha \/ ~ ragged \/ m.offset \/ (b.mode = "decode" /\ ~ set.fuse))
      BY <1>1 DEF Dispatch!Layer
    <3>2. ragged => m.offset
      BY <2>1 DEF Dispatch!HasOffset, Dispatch!PlainExtend
    <3> QED
      BY <3>1, <3>2
  <2>5. layer'.flatOk
    <3>1. layer'.flatOk = (~ Dispatch!HasPrefix(b) \/ ~ Dispatch!PlainExtend(b) \/ (ragged => m.flat))
      BY <1>1, <1>4 DEF Dispatch!Layer
    <3>2. ragged /\ Dispatch!HasPrefix(b) /\ Dispatch!PlainExtend(b) => m.flat
      BY DEF Dispatch!NeedsFlat
    <3> QED
      BY <3>1, <3>2
  <2> QED
    BY <1>1, <2>3, <2>4, <2>5 DEF KernelInv, Dispatch!IndicesFitKernel, Dispatch!OffsetsWhenRagged,
       Dispatch!FlattenedWhenGathered, Dispatch!Settings
<1> QED
  BY <1>2, <1>3, <1>4

(* A replay has no batch, no offsets and no flattened table, and needs none.*)
LEMMA ReplayFits ==
    ASSUME ~UserPrefill, KernelInv, NEW mode \in {"decode", "verify", "draft_extend"}, Dispatch!Replay(mode)
    PROVE  KernelInv'
<1> DEFINE b == [mode |-> mode, longest |-> 1, kv |-> 1, q |-> 1]
           impl == Dispatch!Impl(b, FALSE)
           m == [offset |-> FALSE, flat |-> FALSE]
<1>1. layer' = Dispatch!Layer(b, FALSE, impl, m) /\ set' = set
  BY DEF Dispatch!Replay
<1>2. Dispatch!Method(impl) # "ragged"
  <2>1. b.mode # "extend"
    OBVIOUS
  <2> HIDE DEF b
  <2> QED
    BY <2>1, RaggedIsExtend, SettingsFacts DEF KernelInv
<1>3. Dispatch!Method(impl) = "paged"
  BY <1>2 DEF Dispatch!Method
<1>4. ~ Dispatch!PlainExtend(b)
  BY DEF Dispatch!PlainExtend
<1>5. layer'.indices = "paged" /\ layer'.reads = "paged"
  BY <1>1, <1>3 DEF Dispatch!Layer
<1>6. layer'.offsetOk /\ layer'.flatOk
  BY <1>1, <1>2, <1>4 DEF Dispatch!Layer
<1> QED
  BY <1>1, <1>5, <1>6 DEF KernelInv, Dispatch!IndicesFitKernel, Dispatch!OffsetsWhenRagged,
     Dispatch!FlattenedWhenGathered, Dispatch!Settings

(* With the default choice of backends, whichever passes, eager or replayed,*)
(* came before: the indexer writes the form the kernel of the layer reads,  *)
(* with the offsets and the flattened table that form needs. With a prefill *)
(* backend set by the user and the transform not fused it is false.         *)
THEOREM IndicesAlwaysFit == ASSUME ~UserPrefill PROVE MCSpec => []IndicesFitKernel
<1> DEFINE Inv == part = "dispatch" => KernelInv
<1>1. MCInit => Inv
  <2> SUFFICES ASSUME MCInit, part = "dispatch" PROVE KernelInv
    OBVIOUS
  <2>1. Dispatch!Init
    BY DEF MCInit, PassInit
  <2> QED
    BY <2>1 DEF Dispatch!Init, KernelInv, Dispatch!IndicesFitKernel, Dispatch!OffsetsWhenRagged,
       Dispatch!FlattenedWhenGathered
<1>2. Inv /\ [MCNext]_MCVars => Inv'
  <2> SUFFICES ASSUME Inv, [MCNext]_MCVars, part' = "dispatch" PROVE KernelInv'
    OBVIOUS
  <2>1. part = "dispatch" /\ (Dispatch!Next \/ UNCHANGED dispatchVars)
    BY DEF MCNext, ModelNext, AttentionNext, NsaNext, TritonNext, MCVars, attentionVars
  <2>2. CASE Dispatch!Next
    BY <2>1, <2>2, PassFits, ReplayFits DEF Dispatch!Next
  <2>3. CASE UNCHANGED dispatchVars
    BY <2>1, <2>3 DEF dispatchVars, KernelInv, Dispatch!Settings, Dispatch!IndicesFitKernel,
       Dispatch!OffsetsWhenRagged, Dispatch!FlattenedWhenGathered
  <2> QED
    BY <2>1, <2>2, <2>3
<1>3. Inv => IndicesFitKernel
  BY DEF KernelInv, IndicesFitKernel
<1> QED
  BY <1>1, <1>2, <1>3, PTL DEF MCSpec

-----------------------------------------------------------------------------
(* The gathers of a pass (ForwardPass).                                     *)

(* Under data-parallel attention either no rank extends and one length      *)
(* decides for all of them, or none replays; the buffer has the sum of the  *)
(* lengths. Otherwise there is one rank.                                    *)
LEMMA RanFacts ==
    ASSUME NEW w, NEW buffer, NEW b, NEW rows, NEW bs, NEW used, NEW id, NEW local
    PROVE  /\ Decodes!Ran(w, buffer, b, rows, bs, used, id, local).path = w
           /\ Decodes!Ran(w, buffer, b, rows, bs, used, id, local).buffer = buffer
BY DEF Decodes!Ran

LEMMA DecodesMeet ==
    ASSUME Decodes!CollectivesMatch, Decodes!Next \/ UNCHANGED passVars
    PROVE  Decodes!CollectivesMatch'
<1>1. CASE UNCHANGED passVars
  BY <1>1 DEF passVars, Decodes!CollectivesMatch
<1>2. CASE \E s \in {0} : Decodes!UpdateDecodeAttnBackend(s)
  BY <1>2 DEF Decodes!UpdateDecodeAttnBackend
<1>3. ASSUME NEW bt \in [DpRanks -> {b \in Decodes!Batches : Decodes!WellFormed(b)}], NEW pad \in {"max", "sum"},
             Decodes!Forward(bt, pad)
      PROVE  Decodes!CollectivesMatch'
  <2>1. CASE ~ Decodes!Dp
    BY <2>1 DEF Decodes!Dp, Decodes!CollectivesMatch
  <2>2. CASE Decodes!Dp
    <3>1. \A d, e \in DpRanks : Decodes!CanRunGraph(bt, d) <=> Decodes!CanRunGraph(bt, e)
      <4>1. \A d \in DpRanks : bt[d].mode \in {Decodes!Generates, "extend", "idle"}
        BY DEF Decodes!Batches
      <4> QED
        BY <2>2, <4>1 DEF Decodes!CanRunGraph, Decodes!CanRunDpCudaGraph, Decodes!ExtendInBatch, Decodes!IsCudaGraph
    <3>2. \A d \in DpRanks :
            /\ done'[d].path = IF Decodes!CanRunGraph(bt, d) THEN "graph" ELSE "eager"
            /\ done'[d].buffer = IF Decodes!CanRunGraph(bt, d) THEN DecodeGraph ELSE Decodes!BufferLen(bt, pad)
      BY <1>3, <2>2, RanFacts DEF Decodes!Forward
    <3> QED
      BY <3>1, <3>2 DEF Decodes!CollectivesMatch
  <2> QED
    BY <2>1, <2>2
<1> QED
  BY <1>1, <1>2, <1>3 DEF Decodes!Next, Decodes!ForwardSplitPrefill, Decodes!ForwardDecode

LEMMA VerifyRanFacts ==
    ASSUME NEW w, NEW buffer, NEW b, NEW rows, NEW bs, NEW used, NEW id, NEW local
    PROVE  /\ Verifies!Ran(w, buffer, b, rows, bs, used, id, local).path = w
           /\ Verifies!Ran(w, buffer, b, rows, bs, used, id, local).buffer = buffer
BY DEF Verifies!Ran

(* The same of the passes that verify drafts.                               *)
LEMMA VerifiesMeet ==
    ASSUME Verifies!CollectivesMatch, Verifies!Next \/ UNCHANGED passVars
    PROVE  Verifies!CollectivesMatch'
<1>1. CASE UNCHANGED passVars
  BY <1>1 DEF passVars, Verifies!CollectivesMatch
<1>2. CASE \E s \in {0} : Verifies!UpdateDecodeAttnBackend(s)
  BY <1>2 DEF Verifies!UpdateDecodeAttnBackend
<1>3. ASSUME NEW bt \in [DpRanks -> {b \in Verifies!Batches : Verifies!WellFormed(b)}], NEW pad \in {"max", "sum"},
             Verifies!Forward(bt, pad)
      PROVE  Verifies!CollectivesMatch'
  <2>1. CASE ~ Verifies!Dp
    BY <2>1 DEF Verifies!Dp, Verifies!CollectivesMatch
  <2>2. CASE Verifies!Dp
    <3>1. \A d, e \in DpRanks : Verifies!CanRunGraph(bt, d) <=> Verifies!CanRunGraph(bt, e)
      <4>1. \A d \in DpRanks : bt[d].mode \in {Verifies!Generates, "extend", "idle"}
        BY DEF Verifies!Batches
      <4> QED
        BY <2>2, <4>1 DEF Verifies!CanRunGraph, Verifies!CanRunDpCudaGraph, Verifies!ExtendInBatch, Verifies!IsCudaGraph
    <3>2. \A d \in DpRanks :
            /\ done'[d].path = IF Verifies!CanRunGraph(bt, d) THEN "graph" ELSE "eager"
            /\ done'[d].buffer = IF Verifies!CanRunGraph(bt, d) THEN VerifyGraph ELSE Verifies!BufferLen(bt, pad)
      BY <1>3, <2>2, VerifyRanFacts DEF Verifies!Forward
    <3> QED
      BY <3>1, <3>2 DEF Verifies!CollectivesMatch
  <2> QED
    BY <2>1, <2>2
<1> QED
  BY <1>1, <1>2, <1>3 DEF Verifies!Next, Verifies!ForwardSplitPrefill, Verifies!ForwardDecode

-----------------------------------------------------------------------------

LEMMA MoeParams == Moe!MoeStackAssumption
  BY PassAssumption DEF PassAssumption

LEMMA MoeStep ==
    ASSUME Moe!StackInv, Moe!Next \/ UNCHANGED moeVars
    PROVE  Moe!StackInv' /\ (Moe!LedgerInv /\ Moe!ScaledAndSummedOnce => Moe!LedgerInv')
<1>1. Moe!Next \/ UNCHANGED Moe!vars
  BY DEF moeVars, Moe!vars
<1> QED
  BY <1>1, MoeParams, Moe!StackStep, Moe!LedgerStep

(* Whatever batches and padding: ranks that wait in a collective of a pass  *)
(* or of its layers wait in the same one, with a buffer of the same length, *)
(* for any number of ranks and layers, any tokens and graph sizes.          *)
THEOREM CollectivesAlwaysMatch == MCSpec => []CollectivesMatch
<1> DEFINE Inv == /\ part = "decodes" => Decodes!CollectivesMatch
                  /\ part = "verifies" => Verifies!CollectivesMatch
                  /\ part = "moe" => Moe!StackInv
<1>1. MCInit => Inv
  <2> SUFFICES ASSUME MCInit PROVE Inv
    OBVIOUS
  <2>1. /\ part = "decodes" => Decodes!Init
        /\ part = "verifies" => Verifies!Init
        /\ part = "moe" => Moe!Init
    BY DEF MCInit, PassInit
  <2>2. Decodes!Init => Decodes!CollectivesMatch
    BY DEF Decodes!Init, Decodes!CollectivesMatch
  <2>3. Verifies!Init => Verifies!CollectivesMatch
    BY DEF Verifies!Init, Verifies!CollectivesMatch
  <2> QED
    BY <2>1, <2>2, <2>3, MoeParams, Moe!StackStarts
<1>2. Inv /\ [MCNext]_MCVars => Inv'
  <2> SUFFICES ASSUME Inv, [MCNext]_MCVars PROVE Inv'
    OBVIOUS
  <2>1. /\ part' = part
        /\ part = "decodes" => Decodes!Next \/ UNCHANGED passVars
        /\ part = "verifies" => Verifies!Next \/ UNCHANGED passVars
        /\ part = "moe" => Moe!Next \/ UNCHANGED moeVars
    BY DEF MCNext, ModelNext, AttentionNext, NsaNext, TritonNext, MCVars, modelVars
  <2> QED
    BY <2>1, DecodesMeet, VerifiesMeet, MoeStep
<1>3. Inv => CollectivesMatch
  BY Moe!StackMeets DEF CollectivesMatch
<1> QED
  BY <1>1, <1>2, <1>3, PTL DEF MCSpec

(* Safety: what the next layer reads of a rank with tokens holds every part *)
(* exactly once and the routed part scaled exactly once, and the mega       *)
(* kernel dispatched this pass's rows alone.                                *)
THEOREM OutputsAlwaysWhole == ASSUME Moe!ScaledAndSummedOnce PROVE MCSpec => []ContributionsOnce
<1> DEFINE I == part = "moe" => Moe!StackInv /\ Moe!LedgerInv
<1>1. MCInit => I
  BY MoeParams, Moe!StackStarts, Moe!LedgerStarts DEF MCInit, PassInit
<1>2. I /\ [MCNext]_MCVars => I'
  <2> SUFFICES ASSUME I, [MCNext]_MCVars, part' = "moe" PROVE Moe!StackInv' /\ Moe!LedgerInv'
    OBVIOUS
  <2>1. part = "moe" /\ Moe!StackInv /\ Moe!LedgerInv
    BY DEF MCNext, MCVars
  <2>2. Moe!Next \/ UNCHANGED moeVars
    BY <2>1 DEF MCNext, MCVars, ModelNext, modelVars
  <2> QED BY <2>1, <2>2, MoeStep
<1>3. I => ContributionsOnce
  BY Moe!LedgersAreWhole DEF ContributionsOnce
<1> QED BY <1>1, <1>2, <1>3, PTL DEF MCSpec

-----------------------------------------------------------------------------
(* The passes of the model runner (ForwardPass): what the caller gets back. *)

(* What the library's operators are in an instance.                         *)
LEMMA PassOperators ==
    /\ \A S : Decodes!Max(S) = Moe!Max(S) /\ Verifies!Max(S) = Moe!Max(S)
    /\ \A S : Moe!IsFiniteSet(S) <=> IsFiniteSet(S)
    /\ \A f : Decodes!FoldFunction(LAMBDA x, y : x + y, 0, f) = Moe!SumFunction(f)
    /\ \A f : Decodes!Range(f) = {f[x] : x \in DOMAIN f} /\ Verifies!Range(f) = {f[x] : x \in DOMAIN f}
<1>1. \A S : Decodes!Max(S) = Moe!Max(S) /\ Verifies!Max(S) = Moe!Max(S)
  BY DEF Decodes!Max, Verifies!Max, Moe!Max
<1>2. \A S : Moe!IsFiniteSet(S) <=> IsFiniteSet(S)
  BY DEF Moe!IsFiniteSet, IsFiniteSet
<1>3. \A f : Decodes!FoldFunction(LAMBDA x, y : x + y, 0, f) = Moe!SumFunction(f)
  BY DEF Decodes!FoldFunction, Decodes!FoldFunctionOnSet, Decodes!MapThenFoldSet,
         Moe!SumFunction, Moe!SumFunctionOnSet, Moe!FoldFunctionOnSet, Moe!MapThenFoldSet
<1>4. \A f : Decodes!Range(f) = {f[x] : x \in DOMAIN f} /\ Verifies!Range(f) = {f[x] : x \in DOMAIN f}
  BY DEF Decodes!Range, Verifies!Range
<1> QED BY <1>1, <1>2, <1>3, <1>4

LEMMA MinOfTwo ==
    ASSUME NEW a \in Nat, NEW b \in Nat
    PROVE  /\ Decodes!Min({a, b}) = IF a <= b THEN a ELSE b
           /\ Verifies!Min({a, b}) = IF a <= b THEN a ELSE b
           /\ Splits!Min({a, b}) = IF a <= b THEN a ELSE b
<1> DEFINE m == IF a <= b THEN a ELSE b
<1>1. m \in {a, b} /\ \A y \in {a, b} : m <= y
  OBVIOUS
<1>2. \A x \in {a, b} : (\A y \in {a, b} : x <= y) => x = m
  OBVIOUS
<1> HIDE DEF m
<1> QED BY <1>1, <1>2 DEF Decodes!Min, Verifies!Min, Splits!Min

(* Rounding up.                                                             *)
LEMMA RoundsUp ==
    ASSUME NEW n \in Nat, NEW k \in Nat \ {0}
    PROVE  \E q \in Nat : ((n + k - 1) \div k) * k = k * q /\ k * q >= n
<1> DEFINE a == n + k - 1
           q == a \div k
<1>1. a \in Nat /\ a + 1 = n + k
  OBVIOUS
<1> HIDE DEF a
<1>2. q \in Nat /\ k * q <= a /\ a < k * q + k /\ q * k = k * q
  BY <1>1
<1> HIDE DEF q
<1>3. k * q \in Nat
  BY <1>2
<1>4. k * q >= n
  BY <1>1, <1>2, <1>3
<1> QED BY <1>2, <1>4 DEF q, a

(* A part of a length that holds whole parts holds as many.                 *)
LEMMA PartsFit ==
    ASSUME NEW n \in Nat, NEW k \in Nat \ {0}, NEW q \in Nat, n >= k * q
    PROVE  n \div k \in Nat /\ n \div k >= q /\ k * (n \div k) >= k * q /\ k * (n \div k) <= n
<1> DEFINE d == n \div k
<1>1. d \in Nat /\ k * d <= n /\ n < k * d + k
  OBVIOUS
<1> HIDE DEF d
<1>2. d >= q
  BY <1>1
<1>3. k * d >= k * q
  BY <1>1, <1>2
<1> QED BY <1>1, <1>2, <1>3 DEF d

LEMMA ForwardParams ==
    /\ IsFiniteSet(DpRanks) /\ AttnTp \in Nat \ {0} /\ AttnCp \in Nat \ {0}
    /\ DraftTokens \in Nat \ {0} /\ MaxDecodes \in Nat /\ MaxVerifies \in Nat
  BY PassAssumption DEF PassAssumption, Decodes!ForwardAssumption, Verifies!ForwardAssumption,
     Decodes!IsFiniteSet, IsFiniteSet

(* A batch: what is generated has a number of tokens for each request.      *)
BatchOf(b, mode, each) ==
    /\ b.mode \in {mode, "extend", "idle"} /\ b.bs \in Nat /\ b.toks \in Nat /\ b.toks >= b.bs
    /\ b.mode = mode => b.toks = b.bs * each
    /\ b.mode = "idle" => b.bs = 0
BatchesOf(bt, mode, each) == \A d \in DpRanks : BatchOf(bt[d], mode, each)

LEMMA BatchesAre ==
    /\ \A bt \in [DpRanks -> {b \in Decodes!Batches : Decodes!WellFormed(b)}] :
          BatchesOf(bt, Decodes!Generates, 1)
    /\ \A bt \in [DpRanks -> {b \in Verifies!Batches : Verifies!WellFormed(b)}] :
          BatchesOf(bt, Verifies!Generates, DraftTokens)
<1>1. ASSUME NEW b \in Decodes!Batches, Decodes!WellFormed(b) PROVE BatchOf(b, Decodes!Generates, 1)
  BY <1>1, ForwardParams DEF Decodes!Batches, Decodes!WellFormed, Decodes!Generates, BatchOf
<1>2. ASSUME NEW b \in Verifies!Batches, Verifies!WellFormed(b) PROVE BatchOf(b, Verifies!Generates, DraftTokens)
  <2>1. \A n \in Nat : n * DraftTokens \in Nat
    BY ForwardParams
  <2> QED
    BY <1>2, <2>1, ForwardParams DEF Verifies!Batches, Verifies!WellFormed, Verifies!Generates, BatchOf
<1> QED BY <1>1, <1>2 DEF BatchesOf

(* Whatever the padding, a rank's length holds its tokens in whole shares   *)
(* of the attention-tensor-parallel ranks.                                  *)
Holds(n, t) == n \in Nat /\ \E q \in Nat : n >= AttnTp * q /\ AttnTp * q >= t

LEMMA HoldsAll == ASSUME NEW n, NEW t \in Nat, Holds(n, t) PROVE n \in Nat /\ n >= t
<1>1. PICK q \in Nat : n \in Nat /\ n >= AttnTp * q /\ AttnTp * q >= t
  BY DEF Holds
<1>2. AttnTp * q \in Nat
  BY ForwardParams
<1> QED BY <1>1, <1>2

LEMMA AlignedHolds ==
    ASSUME NEW t \in Nat
    PROVE  Holds(Decodes!CeilAlign(Decodes!CeilAlign(t, AttnTp), AttnCp), t)
<1>1. PICK q \in Nat : Decodes!CeilAlign(t, AttnTp) = AttnTp * q /\ AttnTp * q >= t
  BY ForwardParams, RoundsUp DEF Decodes!CeilAlign
<1> DEFINE m == AttnTp * q
<1>2. m \in Nat
  BY ForwardParams
<1>3. PICK c \in Nat : Decodes!CeilAlign(m, AttnCp) = AttnCp * c /\ AttnCp * c >= m
  BY <1>2, ForwardParams, RoundsUp DEF Decodes!CeilAlign
<1>4. AttnCp * c \in Nat
  BY ForwardParams
<1> QED BY <1>1, <1>3, <1>4 DEF Holds

LEMMA SameAlign ==
    /\ \A n, k : Verifies!CeilAlign(n, k) = Decodes!CeilAlign(n, k)
    /\ \A bt, pad : Verifies!Lengths(bt, pad) = Decodes!Lengths(bt, pad)
<1>1. \A n, k : Verifies!CeilAlign(n, k) = Decodes!CeilAlign(n, k)
  BY DEF Verifies!CeilAlign, Decodes!CeilAlign
<1>2. \A bt : Verifies!Aligned(bt) = Decodes!Aligned(bt)
  BY <1>1 DEF Verifies!Aligned, Decodes!Aligned
<1>3. \A bt : Verifies!Max(Verifies!Range(Verifies!Aligned(bt))) = Decodes!Max(Decodes!Range(Decodes!Aligned(bt)))
  BY <1>2, PassOperators
<1>4. \A bt, pad : Verifies!Lengths(bt, pad) = Decodes!Lengths(bt, pad)
  BY <1>2, <1>3 DEF Verifies!Lengths, Decodes!Lengths
<1> QED BY <1>1, <1>4

LEMMA LengthsHold ==
    ASSUME NEW bt, NEW mode, NEW each, BatchesOf(bt, mode, each), NEW pad, NEW d \in DpRanks
    PROVE  Holds(Decodes!Lengths(bt, pad)[d], bt[d].toks)
<1> DEFINE al == Decodes!Aligned(bt)
           S == {al[e] : e \in DpRanks}
<1>1. \A e \in DpRanks : bt[e].toks \in Nat
  BY DEF BatchesOf, BatchOf
<1>2. \A e \in DpRanks : Holds(al[e], bt[e].toks)
  BY <1>1, AlignedHolds DEF Decodes!Aligned
<1>3. DOMAIN al = DpRanks
  BY DEF Decodes!Aligned
<1> HIDE DEF al
<1>4. IsFiniteSet(S)
  <2> DEFINE f == [e \in DpRanks |-> al[e]]
  <2>1. f \in Surjection(DpRanks, S)
    BY DEF Surjection
  <2> HIDE DEF S, f
  <2> QED BY <2>1, ForwardParams, FS_Surjection DEF ExistsSurjection
<1>5. S \subseteq Int /\ al[d] \in S /\ al[d] \in Nat
  BY <1>2 DEF Holds
<1>6. Moe!Max(S) \in S /\ Moe!Max(S) >= al[d]
  <2> HIDE DEF S
  <2> QED BY <1>4, <1>5, PassOperators, Moe!Greatest
<1>7. Decodes!Max(Decodes!Range(al)) = Moe!Max(S)
  BY <1>3, PassOperators
<1>8. Holds(Moe!Max(S), bt[d].toks)
  <2>1. PICK q \in Nat : al[d] >= AttnTp * q /\ AttnTp * q >= bt[d].toks
    BY <1>2 DEF Holds
  <2>2. AttnTp * q \in Nat
    BY ForwardParams
  <2>3. Moe!Max(S) \in Nat
    BY <1>2, <1>6 DEF Holds
  <2> HIDE DEF S
  <2>4. Moe!Max(S) >= AttnTp * q
    BY <1>5, <1>6, <2>1, <2>2, <2>3
  <2> QED BY <2>1, <2>3, <2>4 DEF Holds
<1> QED BY <1>2, <1>7, <1>8 DEF al, Decodes!Lengths

(* The rows the caller gets.                                                *)
LEMMA DecodeRows ==
    ASSUME NEW bt, BatchesOf(bt, Decodes!Generates, 1), NEW pad \in {"max", "sum"}, NEW d \in DpRanks
    PROVE  LET p == IF Decodes!Dp THEN Decodes!Prepared(bt, pad, d) ELSE Decodes!AsIs(bt, d)
           IN  /\ Decodes!RowsKept(p) = bt[d].bs /\ bt[d].mode # "verify"
               /\ Decodes!Dp => p.toks = Decodes!Lengths(bt, pad)[d]
<1> DEFINE n == Decodes!Lengths(bt, pad)[d]
           b == bt[d]
<1>1. n \in Nat /\ n >= b.toks
  <2>1. Holds(n, b.toks)
    BY LengthsHold
  <2>2. b.toks \in Nat
    BY DEF BatchesOf, BatchOf
  <2> HIDE DEF n
  <2> QED BY <2>1, <2>2, HoldsAll
<1>2. b.mode \in {"decode", "extend", "idle"} /\ b.bs \in Nat /\ b.toks \in Nat /\ b.toks >= b.bs
  BY DEF BatchesOf, BatchOf, Decodes!Generates
<1>3. n \div 1 = n
  BY <1>1
<1> HIDE DEF n
<1>4. ASSUME NEW p, p = Decodes!Prepared(bt, pad, d)
      PROVE  p.origMode = b.mode /\ p.origBs = b.bs /\ p.mode # "verify" /\ p.bs \in Nat /\ p.bs >= b.bs /\ p.toks = n
  BY <1>1, <1>2, <1>3, <1>4 DEF Decodes!Prepared, n
<1>5. ASSUME NEW p, p = Decodes!AsIs(bt, d)
      PROVE  p.origMode = b.mode /\ p.origBs = b.bs /\ p.mode # "verify" /\ p.bs \in Nat /\ p.bs >= b.bs
  BY <1>2, <1>5 DEF Decodes!AsIs
<1>6. ASSUME NEW p, p.origMode = b.mode, p.origBs = b.bs, p.mode # "verify", p.bs \in Nat, p.bs >= b.bs
      PROVE  Decodes!RowsKept(p) = b.bs
  BY <1>2, <1>6, MinOfTwo DEF Decodes!RowsKept, Decodes!LogitRows
<1> QED BY <1>2, <1>4, <1>5, <1>6 DEF n

LEMMA VerifyRows ==
    ASSUME NEW bt, BatchesOf(bt, Verifies!Generates, DraftTokens), NEW pad \in {"max", "sum"}, NEW d \in DpRanks,
           ~ Verifies!Dp \/ (DraftTokens > 1 /\ Verifies!ExtendInBatch(bt)) => pad = "sum"
    PROVE  LET p == IF Verifies!Dp THEN Verifies!Prepared(bt, pad, d) ELSE Verifies!AsIs(bt, d)
           IN  Verifies!RowsKept(p) = IF bt[d].mode = "verify" THEN bt[d].bs * DraftTokens ELSE bt[d].bs
<1> DEFINE n == Verifies!Lengths(bt, pad)[d]
           b == bt[d]
           want == IF b.mode = "verify" THEN b.bs * DraftTokens ELSE b.bs
<1>1. n \in Nat /\ n >= b.toks
  <2>1. Holds(n, b.toks)
    BY LengthsHold, SameAlign
  <2>2. b.toks \in Nat
    BY DEF BatchesOf, BatchOf
  <2> HIDE DEF n
  <2> QED BY <2>1, <2>2, HoldsAll
<1>2. /\ b.mode \in {"decode", "verify", "extend", "idle"} /\ b.bs \in Nat /\ b.toks \in Nat /\ b.toks >= b.bs
      /\ b.mode = "verify" => b.toks = b.bs * DraftTokens /\ DraftTokens > 1
      /\ b.mode = "decode" => DraftTokens = 1
      /\ b.mode = "idle" => b.bs = 0
  BY ForwardParams DEF BatchesOf, BatchOf, Verifies!Generates
<1>3. n \div DraftTokens \in Nat /\ (DraftTokens = 1 => n \div DraftTokens = n)
  BY <1>1, ForwardParams
<1>4. want \in Nat
  BY <1>2
<1> HIDE DEF n
<1>5. ASSUME NEW p, p = Verifies!Prepared(bt, pad, d), Verifies!Dp
      PROVE  /\ p.origMode = b.mode /\ p.origBs = b.bs
             /\ Verifies!LogitRows(p) \in Nat /\ Verifies!LogitRows(p) >= want
  <2>1. CASE b.mode = "extend"
    BY <1>1, <1>2, <1>5, <2>1 DEF Verifies!Prepared, Verifies!LogitRows, n
  <2>2. CASE b.mode # "extend" /\ Verifies!ExtendInBatch(bt) /\ pad = "max"
    <3>1. b.mode # "verify"
      BY <1>2, <2>2
    <3> QED BY <1>1, <1>2, <1>5, <2>2, <3>1 DEF Verifies!Prepared, Verifies!LogitRows, n
  <2>3. CASE b.mode # "extend" /\ ~ (Verifies!ExtendInBatch(bt) /\ pad = "max")
    <3>1. /\ p.origMode = b.mode /\ p.origBs = b.bs /\ p.mode = b.mode /\ p.toks = n /\ p.bs = n \div DraftTokens
      BY <1>5, <2>3 DEF Verifies!Prepared, n
    <3> QED BY <1>1, <1>2, <1>3, <3>1, <2>3 DEF Verifies!LogitRows
  <2> QED BY <2>1, <2>2, <2>3
<1>6. ASSUME NEW p, p = Verifies!AsIs(bt, d)
      PROVE  /\ p.origMode = b.mode /\ p.origBs = b.bs
             /\ Verifies!LogitRows(p) \in Nat /\ Verifies!LogitRows(p) >= want
  BY <1>2, <1>6 DEF Verifies!AsIs, Verifies!LogitRows
<1>7. ASSUME NEW p, p.origMode = b.mode, p.origBs = b.bs, Verifies!LogitRows(p) \in Nat, Verifies!LogitRows(p) >= want
      PROVE  Verifies!RowsKept(p) = want
  <2>1. Verifies!RowsKept(p) = Verifies!Min({want, Verifies!LogitRows(p)})
    BY <1>7 DEF Verifies!RowsKept
  <2> HIDE DEF want
  <2> QED BY <1>4, <1>7, <2>1, MinOfTwo
<1> QED BY <1>5, <1>6, <1>7

(* The real tokens of a rank's batch, over the ranks that share it.         *)
LEMMA TokensShared ==
    ASSUME NEW b, b.toks \in Nat, NEW n, Holds(n, b.toks)
    PROVE  Decodes!SharedOut(b, n) = b.toks
<1> DEFINE t == b.toks
           each == n \div AttnTp
           f == [k \in 0 .. AttnTp - 1 |-> Decodes!LocalTokens(k, b, n)]
<1>1. PICK q \in Nat : n \in Nat /\ n >= AttnTp * q /\ AttnTp * q >= t
  BY DEF Holds
<1>2. each \in Nat /\ AttnTp * each >= AttnTp * q /\ AttnTp * each \in Nat /\ AttnTp * q \in Nat
  <2>1. each \in Nat /\ AttnTp * each >= AttnTp * q
    BY <1>1, ForwardParams, PartsFit
  <2> HIDE DEF each
  <2> QED BY <1>1, <2>1, ForwardParams
<1>3. t <= each * AttnTp
  <2>1. AttnTp * each = each * AttnTp
    BY <1>2, ForwardParams
  <2> QED BY <1>1, <1>2, <2>1
<1> HIDE DEF each
<1>4. ASSUME NEW k \in 0 .. AttnTp - 1 PROVE Decodes!LocalTokens(k, b, n) = Moe!Share(t, each, k)
  <2> DEFINE left == IF t > each * k THEN t - each * k ELSE 0
  <2>1. each * k \in Nat /\ left \in Nat
    BY <1>2, ForwardParams
  <2>2. Decodes!LocalTokens(k, b, n) = Decodes!Min({left, each})
    BY DEF Decodes!LocalTokens, each
  <2>3. Decodes!Min({left, each}) = IF left <= each THEN left ELSE each
    <3> HIDE DEF left
    <3> QED BY <1>2, <2>1, MinOfTwo
  <2> QED BY <1>2, <2>1, <2>2, <2>3 DEF Moe!Share
<1>5. f = [k \in 0 .. AttnTp - 1 |-> Moe!Share(t, each, k)]
  BY <1>4
<1> HIDE DEF f
<1>6. Moe!SumFunction(f) = t
  BY <1>2, <1>3, <1>5, ForwardParams, Moe!SharesAddUp
<1> QED BY <1>6, PassOperators DEF f, Decodes!SharedOut

LEMMA DecodeRanIs ==
    ASSUME NEW w, NEW buffer, NEW b, NEW rows, NEW bs, NEW used, NEW id, NEW local, NEW r,
           r = Decodes!Ran(w, buffer, b, rows, bs, used, id, local)
    PROVE  /\ r.rows = rows /\ r.bs = bs /\ r.used = used /\ r.pass = id /\ r.local = local /\ r.real = b.toks
           /\ b.mode # "verify" => r.want = b.bs
BY DEF Decodes!Ran

LEMMA VerifyRanIs ==
    ASSUME NEW w, NEW buffer, NEW b, NEW rows, NEW bs, NEW used, NEW id, NEW local, NEW r,
           r = Verifies!Ran(w, buffer, b, rows, bs, used, id, local)
    PROVE  r.rows = rows /\ r.want = IF b.mode = "verify" THEN b.bs * DraftTokens ELSE b.bs
BY DEF Verifies!Ran

DecodesServe == Decodes!MetadataFresh /\ Decodes!RowsOfRequests /\ Decodes!TokensSharedOut

LEMMA DecodesServed ==
    ASSUME DecodesServe, Decodes!Next \/ UNCHANGED passVars
    PROVE  DecodesServe'
<1>1. CASE UNCHANGED passVars
  BY <1>1 DEF passVars, DecodesServe, Decodes!MetadataFresh, Decodes!RowsOfRequests, Decodes!TokensSharedOut
<1>2. CASE \E s \in {0} : Decodes!UpdateDecodeAttnBackend(s)
  BY <1>2 DEF Decodes!UpdateDecodeAttnBackend
<1>3. ASSUME NEW bt \in [DpRanks -> {b \in Decodes!Batches : Decodes!WellFormed(b)}], NEW pad \in {"max", "sum"},
             Decodes!Forward(bt, pad)
      PROVE  DecodesServe'
  <2>1. BatchesOf(bt, Decodes!Generates, 1)
    BY BatchesAre
  <2> SUFFICES ASSUME NEW d \in DpRanks
               PROVE  /\ done'[d].bs > 0 => done'[d].used = done'[d].pass
                      /\ done'[d].rows = done'[d].want /\ done'[d].local = done'[d].real
    BY DEF DecodesServe, Decodes!MetadataFresh, Decodes!RowsOfRequests, Decodes!TokensSharedOut
  <2> DEFINE p == IF Decodes!Dp THEN Decodes!Prepared(bt, pad, d) ELSE Decodes!AsIs(bt, d)
             id == passes + 1
  <2>2. Decodes!RowsKept(p) = bt[d].bs /\ bt[d].mode # "verify" /\ (Decodes!Dp => p.toks = Decodes!Lengths(bt, pad)[d])
    BY <2>1, DecodeRows
  <2>3. Decodes!Dp => Decodes!SharedOut(bt[d], p.toks) = bt[d].toks
    BY <2>1, <2>2, LengthsHold, TokensShared DEF BatchesOf, BatchOf
  <2>4. meta'[d] = IF Decodes!CanRunGraph(bt, d) \/ Decodes!Refreshes(p) THEN id ELSE meta[d]
    BY <1>3 DEF Decodes!Forward
  <2>5. done'[d] =
          IF Decodes!CanRunGraph(bt, d)
          THEN Decodes!Ran("graph", DecodeGraph, bt[d], IF bt[d].mode = "verify" THEN bt[d].bs * 1 ELSE bt[d].bs,
                           bt[d].bs, id, id, bt[d].toks)
          ELSE Decodes!Ran("eager", IF Decodes!Dp THEN Decodes!BufferLen(bt, pad) ELSE p.toks, bt[d],
                           Decodes!RowsKept(p), p.bs, meta'[d], id,
                           IF Decodes!Dp THEN Decodes!SharedOut(bt[d], p.toks) ELSE bt[d].toks)
    BY <1>3 DEF Decodes!Forward
  <2> HIDE DEF p, id
  <2>6. CASE Decodes!CanRunGraph(bt, d)
    BY <2>2, <2>5, <2>6, DecodeRanIs
  <2>7. CASE ~ Decodes!CanRunGraph(bt, d)
    <3>1. /\ done'[d].rows = Decodes!RowsKept(p) /\ done'[d].bs = p.bs /\ done'[d].used = meta'[d]
          /\ done'[d].pass = id /\ done'[d].real = bt[d].toks /\ done'[d].want = bt[d].bs
          /\ done'[d].local = IF Decodes!Dp THEN Decodes!SharedOut(bt[d], p.toks) ELSE bt[d].toks
      BY <2>2, <2>5, <2>7, DecodeRanIs
    <3>2. p.bs > 0 => Decodes!Refreshes(p)
      BY DEF Decodes!Refreshes
    <3> QED BY <2>2, <2>3, <2>4, <3>1, <3>2
  <2> QED BY <2>6, <2>7
<1> QED
  BY <1>1, <1>2, <1>3 DEF Decodes!Next, Decodes!ForwardSplitPrefill, Decodes!ForwardDecode

LEMMA VerifiesServed ==
    ASSUME Verifies!RowsOfRequests, Verifies!Next \/ UNCHANGED passVars
    PROVE  Verifies!RowsOfRequests'
<1>1. CASE UNCHANGED passVars
  BY <1>1 DEF passVars, Verifies!RowsOfRequests
<1>2. CASE \E s \in {0} : Verifies!UpdateDecodeAttnBackend(s)
  BY <1>2 DEF Verifies!UpdateDecodeAttnBackend
<1>3. ASSUME NEW bt \in [DpRanks -> {b \in Verifies!Batches : Verifies!WellFormed(b)}], NEW pad \in {"max", "sum"},
             Verifies!Forward(bt, pad)
      PROVE  Verifies!RowsOfRequests'
  <2> SUFFICES ASSUME NEW d \in DpRanks PROVE done'[d].rows = done'[d].want
    BY DEF Verifies!RowsOfRequests
  <2> DEFINE p == IF Verifies!Dp THEN Verifies!Prepared(bt, pad, d) ELSE Verifies!AsIs(bt, d)
             id == passes + 1
             want == IF bt[d].mode = "verify" THEN bt[d].bs * DraftTokens ELSE bt[d].bs
  <2>1. ~ Verifies!Dp \/ (DraftTokens > 1 /\ Verifies!ExtendInBatch(bt)) => pad = "sum"
    BY <1>3 DEF Verifies!Forward
  <2>2. Verifies!RowsKept(p) = want
    BY <2>1, BatchesAre, VerifyRows
  <2>3. done'[d] =
          IF Verifies!CanRunGraph(bt, d)
          THEN Verifies!Ran("graph", VerifyGraph, bt[d], want, bt[d].bs, id, id, bt[d].toks)
          ELSE Verifies!Ran("eager", IF Verifies!Dp THEN Verifies!BufferLen(bt, pad) ELSE p.toks, bt[d],
                            Verifies!RowsKept(p), p.bs, meta'[d], id,
                            IF Verifies!Dp THEN Verifies!SharedOut(bt[d], p.toks) ELSE bt[d].toks)
    BY <1>3 DEF Verifies!Forward
  <2> HIDE DEF p, id
  <2> QED BY <2>2, <2>3, VerifyRanIs
<1> QED
  BY <1>1, <1>2, <1>3 DEF Verifies!Next, Verifies!ForwardSplitPrefill, Verifies!ForwardDecode

(* A split prefill that is under way reads the metadata of its first part.  *)
SplitInv ==
    /\ stream \in {0, 1} /\ decodeMeta \in [{0, 1} -> Nat] /\ passes \in Nat /\ meta \in [{1} -> Nat]
    /\ split.pass = 0 <=> split.index = 0
    /\ split.pass \in Nat /\ split.index \in Nat
    /\ split.index # 0 => meta[1] = split.pass
    /\ Splits!MetadataFresh

LEMMA SplitsServed ==
    ASSUME SplitInv, Splits!Next \/ UNCHANGED passVars
    PROVE  SplitInv'
<1>1. CASE UNCHANGED passVars
  BY <1>1 DEF passVars, SplitInv, Splits!MetadataFresh
<1>2. ASSUME NEW n \in 1 .. 3, NEW reinit \in BOOLEAN, Splits!ForwardSplitPrefill(n, reinit) PROVE SplitInv'
  <2> DEFINE id == IF split.pass = 0 THEN passes + 1 ELSE split.pass
             next == Splits!Min({split.index + n, 3})
  <2>1. /\ passes' = passes + 1 /\ UNCHANGED <<decodeMeta, stream, ticks>>
        /\ meta' = IF split.index = 0 \/ reinit THEN [d \in {1} |-> id] ELSE meta
        /\ split' = IF next = 3 THEN [pass |-> 0, index |-> 0] ELSE [pass |-> id, index |-> next]
        /\ done' = [d \in {1} |-> Splits!Ran("split", 0, [mode |-> "extend", bs |-> 1, toks |-> 1], 1, 1, meta'[d], id, 1)]
    BY <1>2 DEF Splits!ForwardSplitPrefill
  <2>2. next \in Nat /\ next > 0 /\ id \in Nat /\ id > 0
    <3>1. split.index + n \in Nat /\ split.index + n > 0 /\ split.pass \in Nat /\ passes \in Nat
      BY DEF SplitInv
    <3>2. next = IF split.index + n <= 3 THEN split.index + n ELSE 3
      BY <3>1, MinOfTwo
    <3> HIDE DEF next
    <3> QED BY <3>1, <3>2
  <2>3. meta' \in [{1} -> Nat] /\ meta'[1] = id
    <3> HIDE DEF id
    <3>1. split.index # 0 => id = split.pass
      BY DEF SplitInv, id
    <3> QED BY <2>1, <2>2, <3>1 DEF SplitInv
  <2> HIDE DEF id, next
  <2>4. split'.pass \in Nat /\ split'.index \in Nat /\ (split'.pass = 0 <=> split'.index = 0)
        /\ (split'.index # 0 => split'.pass = id)
    BY <2>1, <2>2
  <2>5. Splits!MetadataFresh'
    BY <2>1, <2>3 DEF Splits!MetadataFresh, Splits!Ran
  <2> QED BY <2>1, <2>3, <2>4, <2>5 DEF SplitInv
<1>3. ASSUME NEW b \in Splits!Batches, Splits!ForwardDecode(b) PROVE SplitInv'
  <2>1. /\ decodeMeta' = [decodeMeta EXCEPT ![stream] = passes + 1] /\ passes' = passes + 1
        /\ UNCHANGED <<meta, stream, split>>
        /\ \A d \in {1} : done'[d].used = decodeMeta'[stream] /\ done'[d].pass = passes + 1
    BY <1>3 DEF Splits!ForwardDecode, Splits!Ran
  <2>2. Splits!MetadataFresh'
    BY <2>1 DEF SplitInv, Splits!MetadataFresh
  <2> QED BY <2>1, <2>2 DEF SplitInv
<1>4. ASSUME NEW s \in {0, 1}, Splits!UpdateDecodeAttnBackend(s) PROVE SplitInv'
  BY <1>4 DEF Splits!UpdateDecodeAttnBackend, SplitInv, Splits!MetadataFresh
<1> QED
  BY <1>1, <1>2, <1>3, <1>4 DEF Splits!Next, Splits!Forward

(* Safety: whatever padding, change of mode and graph a pass went through,  *)
(* a caller gets the rows of its own requests, the kernels read metadata    *)
(* made for this batch, in each part of a split prefill as well, and the    *)
(* ranks that share a batch have its tokens once: for any ranks, graph      *)
(* sizes, drafts and batches.                                               *)
THEOREM PassesServeTheirBatch == MCSpec => []PassServesBatch
<1> DEFINE Inv == /\ part = "decodes" => DecodesServe
                  /\ part = "verifies" => Verifies!RowsOfRequests
                  /\ part = "splits" => SplitInv
<1>1. MCInit => Inv
  <2> SUFFICES ASSUME MCInit PROVE Inv
    OBVIOUS
  <2>1. /\ part = "decodes" => Decodes!Init
        /\ part = "verifies" => Verifies!Init
        /\ part = "splits" => Splits!Init
    BY DEF MCInit, PassInit
  <2>2. Decodes!Init => DecodesServe
    BY DEF Decodes!Init, DecodesServe, Decodes!MetadataFresh, Decodes!RowsOfRequests, Decodes!TokensSharedOut
  <2>3. Verifies!Init => Verifies!RowsOfRequests
    BY DEF Verifies!Init, Verifies!RowsOfRequests
  <2>4. Splits!Init => SplitInv
    BY DEF Splits!Init, SplitInv, Splits!MetadataFresh
  <2> QED BY <2>1, <2>2, <2>3, <2>4
<1>2. Inv /\ [MCNext]_MCVars => Inv'
  <2> SUFFICES ASSUME Inv, [MCNext]_MCVars PROVE Inv'
    OBVIOUS
  <2>1. /\ part' = part
        /\ part = "decodes" => Decodes!Next \/ UNCHANGED passVars
        /\ part = "verifies" => Verifies!Next \/ UNCHANGED passVars
        /\ part = "splits" => Splits!Next \/ UNCHANGED passVars
    BY DEF MCNext, ModelNext, AttentionNext, NsaNext, TritonNext, MCVars, modelVars
  <2> QED BY <2>1, DecodesServed, VerifiesServed, SplitsServed
<1>3. Inv => PassServesBatch
  BY DEF PassServesBatch, DecodesServe, SplitInv
<1> QED BY <1>1, <1>2, <1>3, PTL DEF MCSpec

-----------------------------------------------------------------------------
(* The attention of a pass (AttentionStack): the model begins each group of *)
(* layers that share a selection with one that owns an indexer, and a       *)
(* sparse pass is never split.                                              *)
OwnersFirst == \A a \in Archs : a.nsa => ~ a.tbo /\ Attn!HasIndexer(a, 0)

(* The requests of the pass, and whether one of them has gone through a     *)
(* layer.                                                                   *)
InPass == {r \in Users : new[r] > 0}
Through(n, r) == pass # Off /\ \E i \in DOMAIN at : r \in halves[i] /\ n < at[i]

(* The pass is one batch up to the layer where it splits, or two halves.    *)
Whole == /\ halves = <<InPass>> /\ DOMAIN at = {1} /\ at[1] \in 0 .. AttnLayers
         /\ pass.split => at[1] <= Attn!SplitAt
Halved == /\ pass.split /\ halves = <<halves[1], halves[2]>> /\ DOMAIN at = {1, 2}
          /\ halves[1] \cup halves[2] = InPass /\ halves[1] \cap halves[2] = {}
          /\ \A i \in {1, 2} : at[i] \in 0 .. AttnLayers

(* What a layer has stored of a request.                                    *)
Stored(n, r) == 1 .. (len[r] + IF Through(n, r) THEN new[r] ELSE 0)
CachesInv ==
    \A n \in Attn!Layers, r \in Users :
        /\ latent[n][r] = Stored(n, r)
        /\ arch.nsa /\ Attn!Owns(n) => keys[n][r] = Stored(n, r)

(* The slot, or the captured graph, holds what the layers so far selected.  *)
SelectionInv ==
    pass # Off /\ arch.nsa /\ pass.method = "MLA" =>
        \A n \in Attn!Layers : n < at[1] =>
            /\ Attn!Source(n) \in 0 .. n
            /\ pass.replay => graph[Attn!Source(n)] = Attn!Selection(Attn!Source(n), InPass)
            /\ ~ pass.replay /\ n + 1 = at[1] => slot = Attn!Selection(Attn!Source(n), InPass)

(* Two words of the zero buffer for each layer of each part.                *)
ZerosInv ==
    /\ zeros \in Nat /\ zeroSize \in Nat /\ zeros <= zeroSize
    /\ pass # Off => zeros <= IF DOMAIN at = {1} THEN 2 * at[1] ELSE 2 * (at[1] + at[2])
    /\ pass # Off => zeroSize = Attn!ZeroSize(pass.split)

AttnTypes ==
    /\ len \in [Users -> Nat] /\ new \in [Users -> Nat]
    /\ DOMAIN latent = Attn!Layers /\ \A n \in Attn!Layers : DOMAIN latent[n] = Users
    /\ DOMAIN keys = Attn!Layers /\ \A n \in Attn!Layers : DOMAIN keys[n] = Users
    /\ DOMAIN graph = Attn!Layers
    /\ wired = [n \in Attn!Layers |-> Attn!Source(n)]
    /\ pass \in [method : Attn!AllMethods, replay : BOOLEAN, split : BOOLEAN] \cup {Off}
    /\ arch \in Archs

PassShape ==
    /\ pass = Off => did = Off /\ \A r \in Users : new[r] = 0
    /\ pass # Off => /\ Whole \/ Halved
                     /\ pass.split => arch.tbo
                     /\ pass.method = "MHA" => \A r \in InPass : len[r] = 0

LayerDone == Attn!IndicesOfThisPass /\ Attn!KeysComplete /\ Attn!AttendedOnce
AttnInv == AttnTypes /\ PassShape /\ CachesInv /\ SelectionInv /\ ZerosInv /\ LayerDone

LEMMA AttnParams ==
    /\ AttnLayers \in Nat \ {0} /\ FirstKDense \in Nat /\ AttnTopk \in Nat /\ Off \notin Nat
    /\ Off \notin [method : Attn!AllMethods, replay : BOOLEAN, split : BOOLEAN]
    /\ Off \notin [layer : 0 .. AttnLayers, reqs : SUBSET Users, now : BOOLEAN, captured : BOOLEAN]
    /\ Attn!Layers = 0 .. AttnLayers - 1
BY PassAssumption DEF PassAssumption, Attn!AttentionAssumption, Attn!Layers

LEMMA SplitRange == Attn!SplitAt \in 0 .. AttnLayers
BY AttnParams DEF Attn!SplitAt

(* Which layers own an indexer does not change.                             *)
LEMMA OwnersRest ==
    ASSUME arch' = arch
    PROVE  \A n : Attn!Owns(n)' = Attn!Owns(n) /\ Attn!Source(n)' = Attn!Source(n)
BY DEF Attn!Owns, Attn!Source

(* A layer that owns no indexer has the source of the layer before it.      *)
LEMMA SourceSteps ==
    ASSUME NEW n \in Attn!Layers
    PROVE  /\ Attn!Owns(n) => Attn!Source(n) = n
           /\ ~ Attn!Owns(n) /\ n > 0 => n - 1 \in Attn!Layers /\ Attn!Source(n) = Attn!Source(n - 1)
<1> DEFINE F(m) == {k \in Attn!Layers : k <= m /\ Attn!Owns(k)}
<1>1. ASSUME Attn!Owns(n) PROVE Attn!Source(n) = n
  <2>1. n \in F(n) /\ \A k \in F(n) : k \in Int /\ n >= k
    BY <1>1, AttnParams
  <2>2. \A x \in F(n) : (\A y \in F(n) : x >= y) => x = n
    BY <2>1
  <2>3. Attn!Max(F(n)) = n
    BY <2>1, <2>2 DEF Attn!Max
  <2> QED
    BY <2>1, <2>3 DEF Attn!Source
<1>2. ASSUME ~ Attn!Owns(n), n > 0
      PROVE  n - 1 \in Attn!Layers /\ Attn!Source(n) = Attn!Source(n - 1)
  <2>1. n - 1 \in Attn!Layers
    BY <1>2, AttnParams
  <2>2. F(n) = F(n - 1)
    BY <1>2, AttnParams
  <2> QED
    BY <2>1, <2>2 DEF Attn!Source
<1> QED
  BY <1>1, <1>2

LEMMA AttnStarts == ASSUME OwnersFirst, Attn!Init PROVE AttnInv
<1> USE AttnParams
<1>1. /\ arch \in Archs /\ pass = Off /\ did = Off /\ zeros = 0 /\ zeroSize = 0
      /\ len = [r \in Users |-> 0] /\ new = [r \in Users |-> 0]
      /\ latent = [n \in Attn!Layers |-> [r \in Users |-> {}]] /\ keys = latent
      /\ graph = [n \in Attn!Layers |-> Off] /\ wired = [n \in Attn!Layers |-> Attn!Source(n)]
  BY DEF Attn!Init
<1>2. AttnTypes
  BY <1>1 DEF AttnTypes
<1>3. CachesInv
  BY <1>1 DEF CachesInv, Stored, Through
<1>4. PassShape /\ SelectionInv /\ ZerosInv
  BY <1>1 DEF PassShape, SelectionInv, ZerosInv
<1>5. LayerDone
  BY <1>1 DEF LayerDone, Attn!IndicesOfThisPass, Attn!KeysComplete, Attn!AttendedOnce
<1> QED
  BY <1>2, <1>3, <1>4, <1>5 DEF AttnInv

(* What is said of the caches while no pass is at hand.                     *)
LEMMA Idle ==
    ASSUME CachesInv, pass = Off, NEW n \in Attn!Layers, NEW r \in Users, AttnTypes
    PROVE  latent[n][r] = 1 .. len[r] /\ (arch.nsa /\ Attn!Owns(n) => keys[n][r] = 1 .. len[r])
BY DEF CachesInv, Stored, Through, AttnTypes

LEMMA BeginStep ==
    ASSUME AttnInv, NEW fresh \in [Users -> 0 .. 2], NEW decode \in BOOLEAN, NEW replay \in BOOLEAN,
           NEW splits \in BOOLEAN, Attn!BeginPass(fresh, decode, replay, splits)
    PROVE  AttnInv'
<1> USE AttnParams
<1>1. /\ pass = Off /\ new' = fresh /\ did' = Off /\ zeros' = 0 /\ zeroSize' = Attn!ZeroSize(splits)
      /\ halves' = <<{r \in Users : fresh[r] > 0}>> /\ at' = <<0>>
      /\ \E method \in Attn!Methods(decode, fresh, {r \in Users : fresh[r] > 0}) :
             pass' = [method |-> method, replay |-> replay, split |-> splits]
      /\ splits => arch.tbo
      /\ graph' = [n \in Attn!Layers |-> Attn!Stale(graph[n])]
      /\ UNCHANGED <<arch, len, latent, keys, wired>>
  BY DEF Attn!BeginPass
<1>2. PICK method \in Attn!Methods(decode, fresh, {r \in Users : fresh[r] > 0}) :
          pass' = [method |-> method, replay |-> replay, split |-> splits]
  BY <1>1
<1>3. /\ method \in Attn!AllMethods
      /\ method = "MHA" => \A r \in Users : fresh[r] > 0 => len[r] = 0
  BY <1>2 DEF Attn!Methods, Attn!AllMethods
<1>4. AttnTypes' /\ pass' # Off
  <2>1. pass' \in [method : Attn!AllMethods, replay : BOOLEAN, split : BOOLEAN]
    BY <1>2, <1>3
  <2>2. new' \in [Users -> Nat]
    BY <1>1
  <2>3. wired' = [n \in Attn!Layers |-> Attn!Source(n)']
    BY <1>1, OwnersRest DEF AttnInv, AttnTypes
  <2>4. DOMAIN graph' = Attn!Layers
    BY <1>1
  <2> QED
    BY <1>1, <2>1, <2>2, <2>3, <2>4 DEF AttnInv, AttnTypes, Attn!Layers, Attn!AllMethods
<1>5. InPass' = {r \in Users : fresh[r] > 0}
  BY <1>1 DEF InPass
<1>6. PassShape'
  <2>1. Whole'
    BY <1>1, <1>5, SplitRange DEF Whole, Attn!SplitAt
  <2> QED
    BY <1>1, <1>2, <1>3, <1>4, <1>5, <2>1 DEF PassShape
<1>7. CachesInv'
  <2> SUFFICES ASSUME NEW n \in Attn!Layers, NEW r \in Users
               PROVE  /\ latent'[n][r] = Stored(n, r)'
                      /\ arch'.nsa /\ Attn!Owns(n)' => keys'[n][r] = Stored(n, r)'
    BY DEF CachesInv, Attn!Layers
  <2>1. ~ Through(n, r)'
    BY <1>1 DEF Through
  <2>2. Stored(n, r)' = 1 .. len[r]
    BY <1>1, <2>1 DEF Stored, AttnInv, AttnTypes
  <2> QED
    BY <1>1, <2>2, Idle, OwnersRest DEF AttnInv
<1>8. SelectionInv'
  BY <1>1 DEF SelectionInv, Attn!Layers
<1>9. ZerosInv'
  BY <1>1, <1>2 DEF ZerosInv, Attn!ZeroSize
<1>10. LayerDone'
  BY <1>1 DEF LayerDone, Attn!IndicesOfThisPass, Attn!KeysComplete, Attn!AttendedOnce
<1> QED
  BY <1>4, <1>6, <1>7, <1>8, <1>9, <1>10 DEF AttnInv

(* Steps that leave the layers' work as it is.                              *)
LEMMA DoneRests ==
    ASSUME LayerDone, UNCHANGED <<did, arch, pass, len, new>>
    PROVE  LayerDone'
BY OwnersRest DEF LayerDone, Attn!IndicesOfThisPass, Attn!KeysComplete, Attn!AttendedOnce, Attn!Total

LEMMA SplitStep == ASSUME AttnInv, OwnersFirst, Attn!Split PROVE AttnInv'
<1> USE AttnParams
<1>1. /\ pass # Off /\ pass.split /\ Len(halves) = 1 /\ at' = <<at[1], at[1]>>
      /\ UNCHANGED <<arch, len, new, latent, keys, slot, graph, wired, pass, zeros, zeroSize, did>>
  BY DEF Attn!Split
<1>2. PICK r \in halves[1] : halves' = <<{r}, halves[1] \ {r}>>
  BY DEF Attn!Split
<1>3. Whole
  <2>1. ~ Halved
    BY <1>1 DEF Halved
  <2> QED
    BY <1>1, <2>1 DEF AttnInv, PassShape
<1>4. Halved' /\ InPass' = InPass
  BY <1>1, <1>2, <1>3 DEF Halved, Whole, InPass
<1>5. \A n \in Attn!Layers, q \in Users : Through(n, q)' <=> Through(n, q)
  BY <1>1, <1>2, <1>3 DEF Through, Whole
<1>6. AttnTypes'
  <2>1. wired' = [n \in Attn!Layers |-> Attn!Source(n)']
    BY <1>1, OwnersRest DEF AttnInv, AttnTypes
  <2> QED
    BY <1>1, <2>1 DEF AttnInv, AttnTypes, Attn!Layers, Attn!AllMethods
<1>7. PassShape'
  BY <1>1, <1>4 DEF AttnInv, PassShape
<1>8. CachesInv'
  BY <1>1, <1>5, OwnersRest DEF AttnInv, CachesInv, Stored, Attn!Layers
<1>9. SelectionInv'
  <2>1. ~ arch.nsa
    BY <1>1 DEF AttnInv, PassShape, OwnersFirst, AttnTypes
  <2> QED
    BY <1>1, <2>1 DEF SelectionInv
<1>10. ZerosInv'
  BY <1>1, <1>3 DEF AttnInv, ZerosInv, Whole, Attn!ZeroSize
<1>11. LayerDone'
  BY <1>1, DoneRests DEF AttnInv
<1> QED
  BY <1>6, <1>7, <1>8, <1>9, <1>10, <1>11 DEF AttnInv

LEMMA EndStep == ASSUME AttnInv, Attn!EndPass PROVE AttnInv'
<1> USE AttnParams
<1>1. /\ pass # Off /\ (\A i \in DOMAIN at : at[i] = AttnLayers)
      /\ len' = [r \in Users |-> len[r] + new[r]] /\ new' = [r \in Users |-> 0]
      /\ pass' = Off /\ did' = Off
      /\ UNCHANGED <<arch, latent, keys, slot, graph, wired, zeros, zeroSize>>
  BY DEF Attn!EndPass, Attn!Total
<1>2. AttnTypes'
  <2>1. wired' = [n \in Attn!Layers |-> Attn!Source(n)']
    BY <1>1, OwnersRest DEF AttnInv, AttnTypes
  <2>2. len' \in [Users -> Nat] /\ new' \in [Users -> Nat]
    BY <1>1 DEF AttnInv, AttnTypes
  <2> QED
    BY <1>1, <2>1, <2>2 DEF AttnInv, AttnTypes, Attn!Layers, Attn!AllMethods
<1>3. PassShape' /\ SelectionInv'
  BY <1>1 DEF PassShape, SelectionInv
<1>4. CachesInv'
  <2> SUFFICES ASSUME NEW n \in Attn!Layers, NEW r \in Users
               PROVE  /\ latent'[n][r] = Stored(n, r)'
                      /\ arch'.nsa /\ Attn!Owns(n)' => keys'[n][r] = Stored(n, r)'
    BY DEF CachesInv, Attn!Layers
  <2>1. new[r] = 0 \/ Through(n, r)
    <3>1. r \in InPass => \E i \in DOMAIN at : r \in halves[i]
      BY <1>1 DEF AttnInv, PassShape, Whole, Halved
    <3>2. r \in InPass => Through(n, r)
      BY <1>1, <3>1 DEF Through
    <3> QED
      BY <3>2 DEF InPass, AttnInv, AttnTypes
  <2>2. Stored(n, r) = 1 .. (len[r] + new[r])
    BY <2>1 DEF Stored, AttnInv, AttnTypes
  <2>3. Stored(n, r)' = 1 .. (len[r] + new[r])
    BY <1>1 DEF Stored, Through, AttnInv, AttnTypes
  <2> QED
    BY <1>1, <2>2, <2>3, OwnersRest DEF AttnInv, CachesInv
<1>5. ZerosInv'
  BY <1>1 DEF AttnInv, ZerosInv
<1>6. LayerDone'
  BY <1>1 DEF LayerDone, Attn!IndicesOfThisPass, Attn!KeysComplete, Attn!AttendedOnce
<1> QED
  BY <1>2, <1>3, <1>4, <1>5, <1>6 DEF AttnInv

(* Between two passes the draft layer leaves a selection of its own, and    *)
(* requests leave.                                                          *)
LEMMA BetweenStep == ASSUME AttnInv, Attn!Draft \/ \E r \in Users : Attn!Finish(r) PROVE AttnInv'
<1> USE AttnParams
<1>1. /\ pass = Off /\ UNCHANGED <<arch, new, graph, wired, pass, zeros, zeroSize, did>>
  BY DEF Attn!Draft, Attn!Finish
<1>2. /\ len' \in [Users -> Nat]
      /\ DOMAIN latent' = Attn!Layers /\ \A n \in Attn!Layers : DOMAIN latent'[n] = Users
      /\ DOMAIN keys' = Attn!Layers /\ \A n \in Attn!Layers : DOMAIN keys'[n] = Users
      /\ \A n \in Attn!Layers, r \in Users :
             /\ latent'[n][r] = 1 .. len'[r]
             /\ arch.nsa /\ Attn!Owns(n) => keys'[n][r] = 1 .. len'[r]
  <2>1. CASE Attn!Draft
    BY <1>1, <2>1, Idle DEF Attn!Draft, AttnInv, AttnTypes
  <2>2. CASE \E r \in Users : Attn!Finish(r)
    <3>1. PICK q \in Users : Attn!Finish(q)
      BY <2>2
    <3>2. /\ len' = [len EXCEPT ![q] = 0]
          /\ latent' = [n \in Attn!Layers |-> [latent[n] EXCEPT ![q] = {}]]
          /\ keys' = [n \in Attn!Layers |-> [keys[n] EXCEPT ![q] = {}]]
      BY <3>1 DEF Attn!Finish
    <3>3. len' \in [Users -> Nat] /\ \A r \in Users : len'[r] = IF r = q THEN 0 ELSE len[r]
      BY <3>2 DEF AttnInv, AttnTypes
    <3>4. \A n \in Attn!Layers, r \in Users :
              /\ latent'[n][r] = IF r = q THEN {} ELSE latent[n][r]
              /\ keys'[n][r] = IF r = q THEN {} ELSE keys[n][r]
      BY <3>2 DEF AttnInv, AttnTypes
    <3>5. 1 .. 0 = {}
      OBVIOUS
    <3>6. \A n \in Attn!Layers : DOMAIN latent'[n] = Users /\ DOMAIN keys'[n] = Users
      BY <3>2 DEF AttnInv, AttnTypes
    <3>7. \A n \in Attn!Layers, r \in Users :
              /\ latent'[n][r] = 1 .. len'[r]
              /\ arch.nsa /\ Attn!Owns(n) => keys'[n][r] = 1 .. len'[r]
      BY <1>1, <3>3, <3>4, <3>5, Idle DEF AttnInv
    <3> QED
      BY <3>2, <3>3, <3>6, <3>7
  <2> QED
    BY <2>1, <2>2
<1>3. AttnTypes'
  <2>1. wired' = [n \in Attn!Layers |-> Attn!Source(n)']
    BY <1>1, OwnersRest DEF AttnInv, AttnTypes
  <2> QED
    BY <1>1, <1>2, <2>1 DEF AttnInv, AttnTypes, Attn!Layers, Attn!AllMethods
<1>4. PassShape' /\ SelectionInv' /\ ZerosInv'
  BY <1>1 DEF AttnInv, PassShape, SelectionInv, ZerosInv
<1>5. CachesInv'
  <2>1. \A n \in Attn!Layers, r \in Users : Stored(n, r)' = 1 .. len'[r]
    BY <1>1, <1>2 DEF Stored, Through
  <2> QED
    BY <1>1, <1>2, <2>1, OwnersRest DEF CachesInv, Attn!Layers
<1>6. LayerDone'
  BY <1>1 DEF LayerDone, Attn!IndicesOfThisPass, Attn!KeysComplete, Attn!AttendedOnce, AttnInv, PassShape
<1> QED
  BY <1>2, <1>3, <1>4, <1>5, <1>6 DEF AttnInv

(* What a layer finds for the requests of its part.                         *)
LEMMA PartFacts ==
    ASSUME AttnInv, pass # Off, NEW i \in DOMAIN at, at[i] < AttnLayers
    PROVE  /\ at[i] \in Attn!Layers /\ halves[i] \subseteq InPass
           /\ \A r \in halves[i] : /\ ~ Through(at[i], r)
                                   /\ r \in Users /\ new[r] \in Nat \ {0} /\ len[r] \in Nat
           /\ \A j \in DOMAIN at, r \in halves[i] : r \in halves[j] => j = i
<1> USE AttnParams
<1>1. /\ at[i] \in Attn!Layers /\ halves[i] \subseteq InPass
      /\ \A j \in DOMAIN at, r \in halves[i] : r \in halves[j] => j = i
  BY DEF AttnInv, PassShape, Whole, Halved
<1>2. \A r \in halves[i] : ~ Through(at[i], r)
  BY <1>1 DEF Through
<1> QED
  BY <1>1, <1>2 DEF InPass, AttnInv, AttnTypes

(* What a layer stores completes its requests and leaves the others.        *)
LEMMA LayerStores ==
    ASSUME AttnInv, NEW i \in DOMAIN at, Attn!Layer(i)
    PROVE  /\ \A r \in halves[i] : latent'[at[i]][r] = 1 .. Attn!Total(r)
           /\ arch.nsa /\ Attn!Owns(at[i]) => \A r \in halves[i] : keys'[at[i]][r] = 1 .. Attn!Total(r)
           /\ CachesInv'
           /\ DOMAIN latent' = Attn!Layers /\ \A n \in Attn!Layers : DOMAIN latent'[n] = Users
           /\ DOMAIN keys' = Attn!Layers /\ \A n \in Attn!Layers : DOMAIN keys'[n] = Users
<1> USE AttnParams
<1>1. /\ pass # Off /\ at[i] < AttnLayers /\ at' = [at EXCEPT ![i] = at[i] + 1]
      /\ latent' = [latent EXCEPT ![at[i]] =
                       [r \in Users |-> latent[at[i]][r] \cup IF r \in halves[i] THEN Attn!NewOf(r) ELSE {}]]
      /\ keys' = [keys EXCEPT ![at[i]] = Attn!KeysAfter(at[i], halves[i])]
      /\ UNCHANGED <<arch, len, new, pass, halves>>
  BY DEF Attn!Layer
<1>2. /\ at[i] \in Attn!Layers
      /\ \A r \in halves[i] : /\ ~ Through(at[i], r)
                              /\ r \in Users /\ new[r] \in Nat \ {0} /\ len[r] \in Nat
      /\ \A j \in DOMAIN at, r \in halves[i] : r \in halves[j] => j = i
  BY <1>1, PartFacts
<1>3. /\ DOMAIN latent' = Attn!Layers /\ \A n \in Attn!Layers : DOMAIN latent'[n] = Users
      /\ DOMAIN keys' = Attn!Layers /\ \A n \in Attn!Layers : DOMAIN keys'[n] = Users
  BY <1>1 DEF AttnInv, AttnTypes, Attn!KeysAfter
<1>4. \A n \in Attn!Layers, r \in Users :
          /\ latent'[n][r] = IF n = at[i] /\ r \in halves[i] THEN latent[n][r] \cup Attn!NewOf(r) ELSE latent[n][r]
          /\ arch.nsa /\ Attn!Owns(n) =>
                 keys'[n][r] = IF n = at[i] /\ r \in halves[i] THEN keys[n][r] \cup Attn!NewOf(r) ELSE keys[n][r]
  BY <1>1, <1>2 DEF AttnInv, AttnTypes, Attn!KeysAfter
<1>5. \A r \in halves[i] : /\ Stored(at[i], r) = 1 .. len[r]
                           /\ Stored(at[i], r) \cup Attn!NewOf(r) = 1 .. Attn!Total(r)
  BY <1>2 DEF Stored, Attn!NewOf, Attn!Total
<1>6. \A n \in Attn!Layers, r \in Users :
           /\ latent[n][r] = Stored(n, r)
           /\ arch.nsa /\ Attn!Owns(n) => keys[n][r] = Stored(n, r)
  BY DEF AttnInv, CachesInv
<1>7. /\ \A r \in halves[i] : latent'[at[i]][r] = 1 .. Attn!Total(r)
      /\ arch.nsa /\ Attn!Owns(at[i]) => \A r \in halves[i] : keys'[at[i]][r] = 1 .. Attn!Total(r)
  <2> SUFFICES ASSUME NEW r \in halves[i]
               PROVE  /\ latent'[at[i]][r] = 1 .. Attn!Total(r)
                      /\ arch.nsa /\ Attn!Owns(at[i]) => keys'[at[i]][r] = 1 .. Attn!Total(r)
    OBVIOUS
  <2>1. /\ latent[at[i]][r] = Stored(at[i], r)
        /\ arch.nsa /\ Attn!Owns(at[i]) => keys[at[i]][r] = Stored(at[i], r)
    BY <1>2, <1>6
  <2>2. /\ latent'[at[i]][r] = latent[at[i]][r] \cup Attn!NewOf(r)
        /\ arch.nsa /\ Attn!Owns(at[i]) => keys'[at[i]][r] = keys[at[i]][r] \cup Attn!NewOf(r)
    BY <1>2, <1>4
  <2> QED
    BY <1>5, <2>1, <2>2
<1>8. \A n \in Attn!Layers, r \in Users :
          Through(n, r)' <=> Through(n, r) \/ (n = at[i] /\ r \in halves[i])
  BY <1>1, <1>2 DEF Through, AttnInv, PassShape, Whole, Halved
<1>9. \A n \in Attn!Layers, r \in Users :
          Stored(n, r)' = IF n = at[i] /\ r \in halves[i] THEN 1 .. Attn!Total(r) ELSE Stored(n, r)
  BY <1>1, <1>8 DEF Stored, Attn!Total
<1>10. CachesInv'
  <2> SUFFICES ASSUME NEW n \in Attn!Layers, NEW r \in Users
               PROVE  /\ latent'[n][r] = Stored(n, r)'
                      /\ arch'.nsa /\ Attn!Owns(n)' => keys'[n][r] = Stored(n, r)'
    BY DEF CachesInv, Attn!Layers
  <2>1. CASE n = at[i] /\ r \in halves[i]
    BY <1>1, <1>7, <1>9, <2>1, OwnersRest
  <2>2. CASE ~ (n = at[i] /\ r \in halves[i])
    <3>1. /\ latent'[n][r] = latent[n][r] /\ Stored(n, r)' = Stored(n, r)
          /\ arch.nsa /\ Attn!Owns(n) => keys'[n][r] = keys[n][r]
      BY <1>4, <1>9, <2>2
    <3>2. arch'.nsa = arch.nsa /\ Attn!Owns(n)' = Attn!Owns(n)
      BY <1>1, OwnersRest
    <3> QED
      BY <1>6, <3>1, <3>2
  <2> QED
    BY <2>1, <2>2
<1> QED
  BY <1>3, <1>7, <1>10

(* The selection a sparse layer attends with, and what it leaves behind.    *)
LEMMA LayerSelects ==
    ASSUME AttnInv, OwnersFirst, NEW i \in DOMAIN at, Attn!Layer(i), arch.nsa, pass.method = "MLA"
    PROVE  /\ Attn!Indices(at[i], halves[i]) = Attn!Selection(Attn!Source(at[i]), halves[i])
           /\ Attn!Source(at[i]) \in 0 .. at[i]
           /\ SelectionInv'
<1> DEFINE n == at[i]
<1> USE AttnParams
<1>1. /\ pass # Off /\ n < AttnLayers /\ at' = [at EXCEPT ![i] = n + 1]
      /\ slot' = Attn!SlotAfter(n, halves[i]) /\ graph' = Attn!GraphAfter(n, halves[i])
      /\ UNCHANGED <<arch, len, new, wired, pass, halves>>
  BY DEF Attn!Layer
<1>2. ~ arch.tbo /\ Attn!HasIndexer(arch, 0)
  BY DEF AttnInv, AttnTypes, OwnersFirst
<1>3. i = 1 /\ halves = <<InPass>> /\ DOMAIN at = {1} /\ at[1] \in 0 .. AttnLayers
  BY <1>1, <1>2 DEF AttnInv, PassShape, Whole, Halved
<1>4. n \in Attn!Layers /\ (~ Attn!Owns(n) => n > 0) /\ halves[i] = InPass
  BY <1>1, <1>2, <1>3 DEF Attn!Owns
<1>5. Attn!Source(n) \in 0 .. n
  BY <1>1, <1>3, <1>4, SourceSteps DEF AttnInv, SelectionInv
<1>6. pass.replay \in BOOLEAN /\ wired[n] = Attn!Source(n) /\ DOMAIN graph = Attn!Layers
  BY <1>1, <1>4 DEF AttnInv, AttnTypes
<1>7. ~ Attn!Owns(n) => /\ n - 1 \in Attn!Layers /\ n - 1 < at[1]
                        /\ Attn!Source(n) = Attn!Source(n - 1) /\ Attn!Source(n) \in 0 .. n - 1
                        /\ pass.replay => graph[Attn!Source(n)] = Attn!Selection(Attn!Source(n), InPass)
                        /\ ~ pass.replay => slot = Attn!Selection(Attn!Source(n), InPass)
  BY <1>1, <1>3, <1>4, SourceSteps DEF AttnInv, SelectionInv
<1>8. Attn!Indices(n, halves[i]) = Attn!Selection(Attn!Source(n), halves[i])
  <2>1. CASE Attn!Owns(n)
    BY <1>4, <2>1, SourceSteps DEF Attn!Indices
  <2>2. CASE ~ Attn!Owns(n) /\ pass.replay
    BY <1>4, <1>5, <1>6, <1>7, <2>2 DEF Attn!Indices
  <2>3. CASE ~ Attn!Owns(n) /\ ~ pass.replay
    <3>1. Attn!Content(slot) = slot
      BY <1>7, <2>3 DEF Attn!Content, Attn!Selection
    <3> QED
      BY <1>4, <1>7, <2>3, <3>1 DEF Attn!Indices
  <2> QED
    BY <1>6, <2>1, <2>2, <2>3
<1>9. \A m \in Attn!Layers : m < n + 1 =>
          /\ Attn!Source(m) \in 0 .. m
          /\ pass.replay => graph'[Attn!Source(m)] = Attn!Selection(Attn!Source(m), InPass)
          /\ ~ pass.replay /\ m = n => slot' = Attn!Selection(Attn!Source(m), InPass)
  <2> SUFFICES ASSUME NEW m \in Attn!Layers, m < n + 1
               PROVE  /\ Attn!Source(m) \in 0 .. m
                      /\ pass.replay => graph'[Attn!Source(m)] = Attn!Selection(Attn!Source(m), InPass)
                      /\ ~ pass.replay /\ m = n => slot' = Attn!Selection(Attn!Source(m), InPass)
    OBVIOUS
  <2>1. CASE m < n
    <3>1. /\ Attn!Source(m) \in 0 .. m
          /\ pass.replay => graph[Attn!Source(m)] = Attn!Selection(Attn!Source(m), InPass)
      BY <1>1, <1>3, <2>1 DEF AttnInv, SelectionInv
    <3>2. Attn!Source(m) # n /\ Attn!Source(m) \in Attn!Layers
      BY <1>4, <2>1, <3>1
    <3>3. graph'[Attn!Source(m)] = graph[Attn!Source(m)]
      BY <1>1, <1>6, <3>2 DEF Attn!GraphAfter
    <3> QED
      BY <2>1, <3>1, <3>3
  <2>2. CASE m = n /\ Attn!Owns(n)
    <3>1. Attn!Source(n) = n
      BY <1>4, <2>2, SourceSteps
    <3>2. pass.replay => graph'[n] = Attn!Selection(n, InPass)
      BY <1>1, <1>4, <1>6, <2>2 DEF Attn!GraphAfter
    <3>3. ~ pass.replay => slot' = Attn!Selection(n, InPass)
      BY <1>1, <1>4, <2>2 DEF Attn!SlotAfter
    <3> QED
      BY <1>5, <2>2, <3>1, <3>2, <3>3
  <2>3. CASE m = n /\ ~ Attn!Owns(n)
    <3>1. graph' = graph /\ slot' = slot
      BY <1>1, <2>3 DEF Attn!GraphAfter, Attn!SlotAfter
    <3> QED
      BY <1>5, <1>7, <2>3, <3>1
  <2> QED
    BY <1>4, <2>1, <2>2, <2>3
<1>10. SelectionInv'
  <2>1. InPass' = InPass /\ at'[1] = n + 1 /\ n \in Int
    BY <1>1, <1>3 DEF InPass
  <2>2. \A m \in Attn!Layers : (m < n + 1 <=> m < at'[1]) /\ (m + 1 = at'[1] <=> m = n)
    BY <2>1
  <2>3. \A m, P : Attn!Selection(m, P)' = Attn!Selection(m, P)
    BY DEF Attn!Selection
  <2> QED
    BY <1>1, <1>9, <2>1, <2>2, <2>3, OwnersRest DEF SelectionInv, Attn!Layers, Attn!Selection
<1> QED
  BY <1>5, <1>8, <1>10

(* However a layer computes attention, each token counts once.              *)
LEMMA LayerAttends ==
    ASSUME AttnInv, NEW i \in DOMAIN at, pass # Off, at[i] < AttnLayers,
           NEW r \in halves[i], NEW t \in 1 .. Attn!Total(r)
    PROVE  Attn!Attended(at[i], r, 1 .. Attn!Total(r))[t] = 1
<1> USE AttnParams
<1>1. /\ r \in Users /\ r \in InPass /\ new[r] \in Nat \ {0} /\ len[r] \in Nat
  BY PartFacts
<1>2. pass.method \in Attn!AllMethods /\ (pass.method = "MHA" => len[r] = 0)
  BY <1>1 DEF AttnInv, AttnTypes, PassShape
<1>3. t \in Nat /\ 1 <= t /\ t <= len[r] + new[r]
  BY <1>1 DEF Attn!Total
<1>4. t \in 1 .. len[r] \/ t \in Attn!NewOf(r)
  BY <1>1, <1>3 DEF Attn!NewOf, Attn!Total
<1>5. ~ (t \in 1 .. len[r] /\ t \in Attn!NewOf(r))
  BY <1>1, <1>3 DEF Attn!NewOf
<1>6. len[r] = 0 => t \in Attn!NewOf(r)
  BY <1>1, <1>3, <1>4
<1>7. CASE pass.method = "MLA"
  BY <1>7 DEF Attn!Attended, Attn!Absorb, Attn!Times
<1>8. CASE pass.method = "MHA"
  BY <1>2, <1>6, <1>8 DEF Attn!Attended, Attn!Fresh, Attn!Times
<1>9. CASE pass.method = "MHA_ONE_SHOT"
  <2>1. (\E q \in Users : new[q] > 0 /\ len[q] > 0) \/ t \in Attn!NewOf(r)
    BY <1>1, <1>6
  <2> QED
    BY <1>9, <2>1 DEF Attn!Attended, Attn!OneShot, Attn!Fresh, Attn!Times
<1>10. CASE pass.method = "MHA_CHUNKED_KV"
  <2>1. Attn!Attended(at[i], r, 1 .. Attn!Total(r))[t] = Attn!Chunked(r, t)
    BY <1>10 DEF Attn!Attended
  <2> QED
    BY <1>4, <1>5, <2>1 DEF Attn!Chunked, Attn!NewAsPrefix, Attn!Fresh, Attn!Times
<1> QED
  BY <1>2, <1>7, <1>8, <1>9, <1>10 DEF Attn!AllMethods

LEMMA LayerStep ==
    ASSUME AttnInv, OwnersFirst, NEW i \in DOMAIN at, Attn!Layer(i)
    PROVE  AttnInv'
<1> USE AttnParams
<1>1. /\ pass # Off /\ at[i] < AttnLayers /\ at' = [at EXCEPT ![i] = at[i] + 1]
      /\ Len(halves) = 1 /\ pass.split => at[i] < Attn!SplitAt
      /\ graph' = Attn!GraphAfter(at[i], halves[i])
      /\ zeros' = zeros + (IF pass.method = "MLA" THEN 2 ELSE 0)
      /\ did' = [layer |-> at[i], reqs |-> halves[i], indices |-> Attn!Indices(at[i], halves[i]), keys |-> keys'[at[i]],
                 attended |-> [r \in halves[i] |-> Attn!Attended(at[i], r, latent'[at[i]][r])]]
      /\ UNCHANGED <<arch, len, new, wired, pass, halves, zeroSize>>
  BY DEF Attn!Layer
<1>2. AttnTypes'
  <2>1. wired' = [n \in Attn!Layers |-> Attn!Source(n)']
    BY <1>1, OwnersRest DEF AttnInv, AttnTypes
  <2>2. DOMAIN graph' = Attn!Layers
    BY <1>1 DEF AttnInv, AttnTypes, Attn!GraphAfter
  <2> QED
    BY <1>1, <2>1, <2>2, LayerStores DEF AttnInv, AttnTypes, Attn!Layers, Attn!AllMethods
<1>3. PassShape'
  <2>1. InPass' = InPass
    BY <1>1 DEF InPass
  <2>2. ASSUME Whole PROVE Whole'
    BY <1>1, <2>1, <2>2, SplitRange DEF Whole, Attn!SplitAt
  <2>3. ASSUME Halved PROVE Halved'
    BY <1>1, <2>1, <2>3 DEF Halved
  <2> QED
    BY <1>1, <2>1, <2>2, <2>3 DEF AttnInv, PassShape
<1>4. SelectionInv'
  <2>1. CASE arch.nsa /\ pass.method = "MLA"
    BY <2>1, LayerSelects
  <2>2. CASE ~ (arch.nsa /\ pass.method = "MLA")
    BY <1>1, <2>2 DEF SelectionInv
  <2> QED
    BY <2>1, <2>2
<1>5. ZerosInv'
  <2>1. CASE Whole
    BY <1>1, <2>1 DEF AttnInv, ZerosInv, Whole, Attn!ZeroSize
  <2>2. CASE Halved
    <3>1. /\ DOMAIN at = {1, 2} /\ DOMAIN at' = {1, 2}
          /\ at[1] \in 0 .. AttnLayers /\ at[2] \in 0 .. AttnLayers /\ pass.split
      BY <1>1, <2>2 DEF Halved
    <3>2. /\ DOMAIN at # {1} /\ DOMAIN at' # {1}
          /\ Attn!ZeroSize(pass.split) = 4 * AttnLayers
      BY <3>1 DEF Attn!ZeroSize
    <3>3. zeros \in Nat /\ zeros <= 2 * (at[1] + at[2]) /\ zeroSize = 4 * AttnLayers
      BY <1>1, <3>2 DEF AttnInv, ZerosInv
    <3>4. /\ at'[1] \in 0 .. AttnLayers /\ at'[2] \in 0 .. AttnLayers
          /\ at'[1] + at'[2] = at[1] + at[2] + 1
      BY <1>1, <3>1
    <3>5. zeros' \in Nat /\ zeros' <= 2 * (at'[1] + at'[2]) /\ zeros' <= zeroSize
      <4>1. zeros' \in Nat /\ zeros' <= zeros + 2
        BY <1>1, <3>3
      <4> QED
        BY <3>1, <3>3, <3>4, <4>1
    <3> QED
      BY <1>1, <3>2, <3>3, <3>5 DEF ZerosInv, Attn!ZeroSize
  <2> QED
    BY <1>1, <2>1, <2>2 DEF AttnInv, PassShape
<1>6. Attn!IndicesOfThisPass'
  <2> SUFFICES ASSUME arch.nsa, pass.method = "MLA"
               PROVE  /\ did'.indices # Off /\ did'.indices.now
                      /\ did'.indices.reqs = did'.reqs /\ did'.indices.layer = Attn!Source(did.layer)'
    BY <1>1 DEF Attn!IndicesOfThisPass
  <2>1. did'.indices = Attn!Selection(Attn!Source(at[i]), halves[i])
    BY <1>1, LayerSelects
  <2>2. Attn!Source(did.layer)' = Attn!Source(at[i])
    BY <1>1 DEF Attn!Source, Attn!Owns
  <2>3. Attn!Source(at[i]) \in 0 .. AttnLayers /\ halves[i] \subseteq Users
    BY <1>1, LayerSelects, PartFacts DEF InPass
  <2>4. Attn!Selection(Attn!Source(at[i]), halves[i]) # Off
    <3>1. Attn!Selection(Attn!Source(at[i]), halves[i])
              \in [layer : 0 .. AttnLayers, reqs : SUBSET Users, now : BOOLEAN, captured : BOOLEAN]
      BY <2>3 DEF Attn!Selection
    <3> QED
      BY <3>1
  <2> QED
    BY <1>1, <2>1, <2>2, <2>4 DEF Attn!Selection
<1>7. Attn!KeysComplete'
  <2>1. arch.nsa /\ Attn!Owns(at[i]) => \A r \in halves[i] : did'.keys[r] = 1 .. Attn!Total(r)
    BY <1>1, LayerStores
  <2>2. Attn!Owns(did.layer)' = Attn!Owns(at[i]) /\ did'.reqs = halves[i] /\ arch' = arch
    BY <1>1 DEF Attn!Owns
  <2> QED
    BY <1>1, <2>1, <2>2 DEF Attn!KeysComplete, Attn!Total
<1>8. Attn!AttendedOnce'
  <2> SUFFICES ASSUME NEW r \in halves[i], NEW t \in 1 .. Attn!Total(r)
               PROVE  did'.attended[r][t] = 1
    BY <1>1 DEF Attn!AttendedOnce, Attn!Total
  <2>1. latent'[at[i]][r] = 1 .. Attn!Total(r)
    BY LayerStores
  <2>2. did'.attended[r] = Attn!Attended(at[i], r, 1 .. Attn!Total(r))
    BY <1>1, <2>1
  <2> QED
    BY <1>1, <2>2, LayerAttends
<1> QED
  BY <1>2, <1>3, <1>4, <1>5, <1>6, <1>7, <1>8, LayerStores DEF AttnInv, LayerDone

LEMMA AttnStep == ASSUME AttnInv, OwnersFirst, Attn!Next \/ UNCHANGED stackVars PROVE AttnInv'
<1>1. CASE UNCHANGED stackVars
  <2>1. UNCHANGED <<arch, len, new, latent, keys, slot, graph, wired, pass, halves, at, zeros, zeroSize, did>>
    BY <1>1 DEF stackVars
  <2>2. AttnTypes'
    <3>1. wired' = [n \in Attn!Layers |-> Attn!Source(n)']
      BY <2>1, OwnersRest DEF AttnInv, AttnTypes
    <3> QED
      BY <2>1, <3>1 DEF AttnInv, AttnTypes, Attn!Layers, Attn!AllMethods
  <2>3. PassShape'
    BY <2>1 DEF AttnInv, PassShape, Whole, Halved, InPass, Attn!SplitAt
  <2>4. CachesInv'
    BY <2>1, OwnersRest DEF AttnInv, CachesInv, Stored, Through, Attn!Layers
  <2>5. SelectionInv' /\ ZerosInv'
    BY <2>1, OwnersRest DEF AttnInv, SelectionInv, ZerosInv, InPass, Attn!Layers, Attn!Selection, Attn!ZeroSize
  <2>6. LayerDone'
    BY <2>1, DoneRests DEF AttnInv
  <2> QED
    BY <2>2, <2>3, <2>4, <2>5, <2>6 DEF AttnInv
<1>2. CASE \E fresh \in [Users -> 0 .. 2], decode \in BOOLEAN, replay \in BOOLEAN, splits \in BOOLEAN :
               Attn!BeginPass(fresh, decode, replay, splits)
  BY <1>2, BeginStep
<1>3. CASE Attn!Split \/ \E i \in DOMAIN at : Attn!Layer(i)
  BY <1>3, SplitStep, LayerStep
<1>4. CASE Attn!EndPass \/ Attn!Draft \/ \E r \in Users : Attn!Finish(r)
  BY <1>4, EndStep, BetweenStep
<1> QED
  BY <1>1, <1>2, <1>3, <1>4 DEF Attn!Next

(* SelectionsOfThisPass for every model that owns an indexer in its first   *)
(* layer and never splits a sparse pass: for any number of layers, requests *)
(* and tokens, any pattern, and any place where dense passes split, each    *)
(* sparse layer attends with this pass's selection of the nearest owner,    *)
(* over complete keys; tokens count once and the zero buffer suffices.      *)
THEOREM SelectionsAlwaysOfThisPass == ASSUME OwnersFirst PROVE MCSpec => []SelectionsOfThisPass
<1> DEFINE Inv == part = "attention" => AttnInv
<1>1. MCInit => Inv
  <2>1. MCInit /\ part = "attention" => Attn!Init
    BY DEF MCInit, PassInit
  <2> QED
    BY <2>1, AttnStarts
<1>2. Inv /\ [MCNext]_MCVars => Inv'
  <2> SUFFICES ASSUME Inv, [MCNext]_MCVars PROVE Inv'
    OBVIOUS
  <2>1. part' = part /\ (part = "attention" => Attn!Next \/ UNCHANGED stackVars)
    BY DEF MCNext, ModelNext, AttentionNext, NsaNext, TritonNext, MCVars, attentionVars
  <2> QED
    BY <2>1, AttnStep
<1>3. Inv => SelectionsOfThisPass
  BY DEF SelectionsOfThisPass, AttnInv, LayerDone, ZerosInv, Attn!ZerosSuffice
<1> QED
  BY <1>1, <1>2, <1>3, PTL DEF MCSpec
=============================================================================
