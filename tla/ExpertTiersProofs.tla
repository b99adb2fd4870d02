------------------------- MODULE ExpertTiersProofs -------------------------
(***************************************************************************)
(* Proofs about the dynamic three-tier tick, for any number of ranks,      *)
(* experts, slots and failures.                                            *)
(***************************************************************************)
EXTENDS ExpertTiers, FiniteSetTheorems, TLAPS

(* A rank that has not yet moved its GPU tier in this tick, and one that   *)
(* has (or had nothing to move).                                           *)
Before == {"tick", "load", "narrow", "full"}
After == {"ram", "move", "forward"}

(* Ranks that have moved hold the GPU cut, ranks that have not hold the    *)
(* same old set, and no rank leaves the start of a tick before rank 0.     *)
GpuLockstep ==
    /\ \A r \in Rank : pc[r] \in After => gpuMask[r] = cut.gpu
    /\ \A r, s \in Rank :
          pc[r] \in Before /\ pc[s] \in Before => gpuMask[r] = gpuMask[s]
    /\ pc[0] = "tick" => \A r \in Rank : pc[r] = "tick" /\ gpuMask[r] = cut.gpu

(* The RAM masks of the other ranks follow the cut; that of rank 0 never   *)
(* has more than the cut, and never more than the others have.             *)
RamLockstep ==
    /\ \A r \in Rank \ {0} : pc[r] = "forward" => ramMask[r] = cut.ram
    /\ pc[0] \in {"forward", "move", "tick"} => ramMask[0] \subseteq cut.ram
    /\ \A r \in Rank : pc[0] \in {"tick", "load"} /\ pc[r] \in {"tick", "load"}
          => ramMask[0] \subseteq ramMask[r]

(* The cut rank 0 broadcast: disjoint tiers, the GPU one CPU-resident.     *)
CutFacts ==
    /\ cut.gpu \cap cut.ram = {}
    /\ pc[0] = "load" => cut.gpu \subseteq gpuMask[0] \cup ramMask[0]

(* A loaded scratch layer holds the weights the apply is going to read,    *)
(* and the arrivals come out of the rank's RAM tier.                       *)
ScratchFacts ==
    \A r \in Rank :
        /\ pc[r] = "narrow" => \A e \in cut.gpu \ gpuMask[r] : scratch[r][e] = e
        /\ pc[r] = "full" => \A e \in cut.gpu : scratch[r][e] = e
        /\ pc[r] \in {"narrow", "full"} => cut.gpu \ gpuMask[r] \subseteq ramMask[r]

(* The CPU kernel skips the complement of the RAM mask, whose members are  *)
(* staged except for those still to be promoted.                           *)
StoreFacts ==
    /\ skip = Expert \ ramMask[0]
    /\ ramMask[0] \ add \subseteq staged
    /\ drop \cap ramMask[0] = {}
    /\ add \subseteq ramMask[0]
    /\ pc[0] # "move" => add = {} /\ drop = {}

(* Until a move fails, rank 0 keeps the whole cut, so that the next        *)
(* receive buffers have its size.                                          *)
NoFaultFacts ==
    failures = 0 =>
        /\ pc[0] \in {"forward", "move", "tick"} => ramMask[0] = cut.ram
        /\ \A r \in Rank : pc[r] = "tick" =>
              Cardinality(ramMask[r]) = Cardinality(cut.ram)

(* Until a move fails, the store holds the RAM tier and what is still to   *)
(* be evicted, and never more than its budget.                             *)
BudgetFacts ==
    failures = 0 =>
        /\ Cardinality(staged) <= NRam
        /\ Cardinality(cut.ram) = NRam
        /\ staged \subseteq ramMask[0] \cup drop

(* The inductive invariant of the tick.                                    *)
TickInv ==
    /\ TypeOK
    /\ SlotsHoldTheirExperts
    /\ GpuLockstep
    /\ RamLockstep
    /\ CutFacts
    /\ ScratchFacts
    /\ StoreFacts
    /\ NoFaultFacts
    /\ BudgetFacts

----------------------------------------------------------------------------

(* Boot establishes the invariant.                                         *)
LEMMA TickInit == Init => TickInv
<1> SUFFICES ASSUME Init PROVE TickInv
  OBVIOUS
<1>1. PICK gpu \in SUBSET Expert : \E ram \in SUBSET (Expert \ gpu) :
         /\ Cardinality(ram) = NRam
         /\ ResidencyInit(gpu, ram)
         /\ cut = [gpu |-> gpu, ram |-> ram]
  BY DEF Init
<1>0. PICK ram \in SUBSET (Expert \ gpu) :
         /\ Cardinality(ram) = NRam
         /\ ResidencyInit(gpu, ram)
         /\ cut = [gpu |-> gpu, ram |-> ram]
  BY <1>1
<1>2. ResidencyTypeOK /\ SlotsHoldTheirExperts
  BY <1>0, ResidencyInitFacts
<1>3. /\ gpuMask = [r \in Rank |-> gpu]
      /\ ramMask = [r \in Rank |-> ram]
      /\ staged = ram
      /\ skip = Expert \ ram
  BY <1>0, RankZero, TiersAssumption DEF ResidencyInit, InitStaged, SkipMask
<1>4. TypeOK
  BY <1>0, <1>2, TiersAssumption DEF Init, TypeOK, Phase
<1>5. GpuLockstep /\ RamLockstep /\ CutFacts
  BY <1>0, <1>3, RankZero DEF Init, GpuLockstep, RamLockstep, CutFacts, Before, After
<1>6. ScratchFacts /\ StoreFacts /\ NoFaultFacts
  BY <1>0, <1>3, RankZero DEF Init, ScratchFacts, StoreFacts, NoFaultFacts
<1>7. BudgetFacts
  BY <1>0, <1>3, RankZero, TiersAssumption DEF Init, BudgetFacts
<1> QED
  BY <1>2, <1>4, <1>5, <1>6, <1>7 DEF TickInv

(* A forward keeps the invariant: all ranks go to the tick together. *)
LEMMA ForwardStep == ASSUME TickInv, Forward PROVE TickInv'
<1> USE RankZero, TiersAssumption
<1> USE DEF TickInv
<1>1. TypeOK'
  BY DEF Forward, TypeOK, ResidencyTypeOK, Phase, residencyVars
<1>2. SlotsHoldTheirExperts'
  BY DEF Forward, SlotsHoldTheirExperts, TypeOK, ResidencyTypeOK, residencyVars
<1>3. GpuLockstep'
  BY DEF Forward, GpuLockstep, Before, After, TypeOK, ResidencyTypeOK, residencyVars
<1>4. RamLockstep'
  BY DEF Forward, RamLockstep, TypeOK, ResidencyTypeOK, residencyVars
<1>5. CutFacts'
  BY DEF Forward, CutFacts, TypeOK, ResidencyTypeOK, residencyVars
<1>6. ScratchFacts'
  BY DEF Forward, ScratchFacts, TypeOK, ResidencyTypeOK, residencyVars
<1>7. StoreFacts'
  BY DEF Forward, StoreFacts, TypeOK, ResidencyTypeOK, residencyVars
<1>8. NoFaultFacts'
  BY DEF Forward, NoFaultFacts, RamLockstep, TypeOK, ResidencyTypeOK, residencyVars
<1>10. BudgetFacts'
  BY DEF Forward, residencyVars, BudgetFacts
<1> QED
  BY <1>1, <1>2, <1>3, <1>4, <1>5, <1>6, <1>7, <1>8, <1>10

(* The selector counts with the operator used here.                        *)
LEMMA SameCount == ASSUME NEW S PROVE Selector!Cardinality(S) = Cardinality(S)
BY DEF Selector!Cardinality, Cardinality

(* The decision of rank 0 keeps the invariant. *)
LEMMA DecideStep == ASSUME TickInv, Decide PROVE TickInv'
<1> USE RankZero, TiersAssumption
<1> USE DEF TickInv
<1>1. TypeOK'
  BY DEF Decide, AfterBroadcast, Selector!TierCuts, TypeOK, ResidencyTypeOK, Phase, residencyVars
<1>2. SlotsHoldTheirExperts'
  BY DEF Decide, AfterBroadcast, Selector!TierCuts, SlotsHoldTheirExperts, TypeOK, ResidencyTypeOK, residencyVars
<1>3. GpuLockstep'
  BY DEF Decide, AfterBroadcast, Selector!TierCuts, GpuLockstep, Before, After, TypeOK, ResidencyTypeOK, residencyVars
<1>4. RamLockstep'
  BY DEF Decide, AfterBroadcast, RamLockstep, GpuLockstep, TypeOK, residencyVars
<1>5. CutFacts'
  BY DEF Decide, AfterBroadcast, Selector!TierCuts, CutFacts, GpuLockstep, RamLockstep,
         TypeOK, ResidencyTypeOK, residencyVars
<1>6. ScratchFacts'
  BY DEF Decide, AfterBroadcast, ScratchFacts, GpuLockstep, TypeOK, residencyVars
<1>7. StoreFacts'
  BY DEF Decide, AfterBroadcast, Selector!TierCuts, StoreFacts, TypeOK, ResidencyTypeOK, residencyVars
<1>9. Cardinality(cut'.ram) = Cardinality(ramMask[0])
  BY SameCount DEF Decide, Selector!TierCuts
<1>8. NoFaultFacts'
  BY <1>9 DEF Decide, AfterBroadcast, NoFaultFacts, TypeOK, ResidencyTypeOK, residencyVars
<1>10. BudgetFacts'
  BY <1>9 DEF Decide, NoFaultFacts, residencyVars, BudgetFacts
<1> QED
  BY <1>1, <1>2, <1>3, <1>4, <1>5, <1>6, <1>7, <1>8, <1>10

(* So does the receipt of the cut by another rank. *)
LEMMA ReceiveStep == ASSUME TickInv, NEW r \in Rank, Receive(r) PROVE TickInv'
<1> USE RankZero, TiersAssumption
<1> USE DEF TickInv
<1>1. TypeOK'
  BY DEF Receive, AfterBroadcast, TypeOK, ResidencyTypeOK, Phase, residencyVars
<1>2. SlotsHoldTheirExperts'
  BY DEF Receive, AfterBroadcast, SlotsHoldTheirExperts, TypeOK, ResidencyTypeOK, residencyVars
<1>3. GpuLockstep'
  BY DEF Receive, AfterBroadcast, GpuLockstep, Before, After, TypeOK, ResidencyTypeOK, residencyVars
<1>4. RamLockstep'
  BY DEF Receive, AfterBroadcast, RamLockstep, TypeOK, ResidencyTypeOK, residencyVars
<1>5. CutFacts'
  BY DEF Receive, AfterBroadcast, CutFacts, TypeOK, ResidencyTypeOK, residencyVars
<1>6. ScratchFacts'
  BY DEF Receive, AfterBroadcast, ScratchFacts, TypeOK, ResidencyTypeOK, residencyVars
<1>7. StoreFacts'
  BY DEF Receive, AfterBroadcast, StoreFacts, TypeOK, ResidencyTypeOK, residencyVars
<1>8. NoFaultFacts'
  BY DEF Receive, AfterBroadcast, NoFaultFacts, TypeOK, ResidencyTypeOK, residencyVars
<1>10. BudgetFacts'
  BY DEF Receive, residencyVars, BudgetFacts
<1> QED
  BY <1>1, <1>2, <1>3, <1>4, <1>5, <1>6, <1>7, <1>8, <1>10

(* The narrow load fills the scratch layer with the arriving experts, all
   of which are staged. *)
LEMMA LoadNarrowStep == ASSUME TickInv, LoadNarrow PROVE TickInv'
<1> USE RankZero, TiersAssumption
<1> USE DEF TickInv
<1>0. ASSUME NEW q \in Rank
      PROVE  /\ NarrowScratch(cut.gpu \ gpuMask[q]) \in [Expert -> Contents]
             /\ \A e \in cut.gpu \ gpuMask[q] : NarrowScratch(cut.gpu \ gpuMask[q])[e] = e
             /\ cut.gpu \ gpuMask[q] \subseteq ramMask[q]
  <2>1. gpuMask[q] = gpuMask[0] /\ ramMask[0] \subseteq ramMask[q]
    BY DEF LoadNarrow, GpuLockstep, RamLockstep, Before
  <2>2. cut.gpu \subseteq gpuMask[0] \cup ramMask[0] /\ ramMask[0] \subseteq staged
    BY DEF LoadNarrow, CutFacts, StoreFacts
  <2>3. cut.gpu \subseteq Expert
    BY DEF TypeOK
  <2> QED
    BY <2>1, <2>2, <2>3, NarrowScratchFacts DEF TypeOK
<1>1. TypeOK'
  BY <1>0 DEF LoadNarrow, TypeOK, ResidencyTypeOK, Phase
<1>2. SlotsHoldTheirExperts'
  BY DEF LoadNarrow, SlotsHoldTheirExperts, TypeOK, ResidencyTypeOK, residencyVars
<1>3. GpuLockstep'
  BY DEF LoadNarrow, GpuLockstep, Before, After, TypeOK, ResidencyTypeOK, residencyVars
<1>4. RamLockstep'
  BY DEF LoadNarrow, RamLockstep, TypeOK, ResidencyTypeOK, residencyVars
<1>5. CutFacts'
  BY DEF LoadNarrow, CutFacts, TypeOK, ResidencyTypeOK, residencyVars
<1>6. ScratchFacts'
  BY <1>0 DEF LoadNarrow, ScratchFacts, TypeOK, ResidencyTypeOK
<1>7. StoreFacts'
  BY DEF LoadNarrow, StoreFacts, TypeOK, ResidencyTypeOK, residencyVars
<1>8. NoFaultFacts'
  BY DEF LoadNarrow, NoFaultFacts, TypeOK, ResidencyTypeOK, residencyVars
<1>10. BudgetFacts'
  BY DEF LoadNarrow, BudgetFacts
<1> QED
  BY <1>1, <1>2, <1>3, <1>4, <1>5, <1>6, <1>7, <1>8, <1>10

(* The full load fills it with every expert of the cut. *)
LEMMA LoadFullStep == ASSUME TickInv, LoadFull PROVE TickInv'
<1> USE RankZero, TiersAssumption
<1> USE DEF TickInv
<1>0. ASSUME NEW q \in Rank
      PROVE  /\ FullScratch(q) \in [Expert -> Contents]
             /\ \A e \in cut.gpu : FullScratch(q)[e] = e
             /\ cut.gpu \ gpuMask[q] \subseteq ramMask[q]
  <2>1. gpuMask[q] = gpuMask[0] /\ ramMask[0] \subseteq ramMask[q]
    BY DEF LoadFull, GpuLockstep, RamLockstep, Before
  <2>2. cut.gpu \subseteq gpuMask[0] \cup ramMask[0] /\ ramMask[0] \subseteq staged
    BY DEF LoadFull, CutFacts, StoreFacts
  <2>3. cut.gpu \subseteq Expert
    BY DEF TypeOK
  <2> QED
    BY <2>1, <2>2, <2>3, FullScratchFacts DEF TypeOK
<1>1. TypeOK'
  BY <1>0 DEF LoadFull, TypeOK, ResidencyTypeOK, Phase
<1>2. SlotsHoldTheirExperts'
  BY DEF LoadFull, SlotsHoldTheirExperts, TypeOK, ResidencyTypeOK, residencyVars
<1>3. GpuLockstep'
  BY DEF LoadFull, GpuLockstep, Before, After, TypeOK, ResidencyTypeOK, residencyVars
<1>4. RamLockstep'
  BY DEF LoadFull, RamLockstep, TypeOK, ResidencyTypeOK, residencyVars
<1>5. CutFacts'
  BY DEF LoadFull, CutFacts, TypeOK, ResidencyTypeOK, residencyVars
<1>6. ScratchFacts'
  BY <1>0 DEF LoadFull, ScratchFacts, TypeOK, ResidencyTypeOK
<1>7. StoreFacts'
  BY DEF LoadFull, StoreFacts, TypeOK, ResidencyTypeOK, residencyVars
<1>8. NoFaultFacts'
  BY DEF LoadFull, NoFaultFacts, TypeOK, ResidencyTypeOK, residencyVars
<1>10. BudgetFacts'
  BY DEF LoadFull, BudgetFacts
<1> QED
  BY <1>1, <1>2, <1>3, <1>4, <1>5, <1>6, <1>7, <1>8, <1>10

(* The GPU tier of one rank moves. *)
LEMMA ApplyGpuStep == ASSUME TickInv, NEW r \in Rank, ApplyGpu(r) PROVE TickInv'
<1> USE RankZero, TiersAssumption
<1> USE DEF TickInv
<1>0. /\ ResidencyTypeOK'
      /\ SlotsHoldTheirExperts'
      /\ gpuMask' = [gpuMask EXCEPT ![r] = cut.gpu]
      /\ skip' = IF r = 0 THEN SkipMask(cut.gpu, ramMask[0]) ELSE skip
  <2>1. CASE pc[r] = "narrow" /\ ApplyIncremental(r, cut.gpu)
    BY <2>1, ApplyIncrementalFacts DEF ApplyGpu, ScratchFacts, TypeOK
  <2>2. CASE pc[r] = "full" /\ ApplyFull(r, cut.gpu)
    BY <2>2, ApplyFullFacts DEF ApplyGpu, ScratchFacts, TypeOK
  <2> QED
    BY <2>1, <2>2 DEF ApplyGpu
<1>9. /\ pc[r] \in {"narrow", "full"}
      /\ pc' = [pc EXCEPT ![r] = AfterGpu(r)]
      /\ UNCHANGED <<ramMask, scratch, staged, cut, drop, add, failures>>
  BY DEF ApplyGpu
<1>1. TypeOK'
  BY <1>0, <1>9 DEF AfterGpu, TypeOK, Phase
<1>2. SlotsHoldTheirExperts'
  BY <1>0
<1>3. GpuLockstep'
  BY <1>0, <1>9 DEF AfterGpu, GpuLockstep, Before, After, TypeOK, ResidencyTypeOK
<1>4. RamLockstep'
  BY <1>0, <1>9 DEF AfterGpu, RamLockstep, TypeOK, ResidencyTypeOK
<1>5. CutFacts'
  BY <1>0, <1>9 DEF AfterGpu, CutFacts, TypeOK, ResidencyTypeOK
<1>6. ScratchFacts'
  BY <1>0, <1>9 DEF AfterGpu, ScratchFacts, TypeOK, ResidencyTypeOK
<1>7. StoreFacts'
  BY <1>0, <1>9 DEF AfterGpu, StoreFacts, SkipMask, TypeOK, ResidencyTypeOK
<1>8. NoFaultFacts'
  BY <1>0, <1>9 DEF AfterGpu, NoFaultFacts, TypeOK, ResidencyTypeOK
<1>10. BudgetFacts'
  BY DEF ApplyGpu, BudgetFacts
<1> QED
  BY <1>1, <1>2, <1>3, <1>4, <1>5, <1>6, <1>7, <1>8, <1>10

(* The RAM mask of another rank follows the cut. *)
LEMMA RamFollowStep == ASSUME TickInv, NEW r \in Rank, RamFollow(r) PROVE TickInv'
<1> USE RankZero, TiersAssumption
<1> USE DEF TickInv
<1>1. TypeOK'
  BY DEF RamFollow, TypeOK, ResidencyTypeOK, Phase, residencyVars
<1>2. SlotsHoldTheirExperts'
  BY DEF RamFollow, SlotsHoldTheirExperts, TypeOK, ResidencyTypeOK, residencyVars
<1>3. GpuLockstep'
  BY DEF RamFollow, GpuLockstep, Before, After, TypeOK, ResidencyTypeOK, residencyVars
<1>4. RamLockstep'
  BY DEF RamFollow, RamLockstep, TypeOK, ResidencyTypeOK, residencyVars
<1>5. CutFacts'
  BY DEF RamFollow, CutFacts, TypeOK, ResidencyTypeOK, residencyVars
<1>6. ScratchFacts'
  BY DEF RamFollow, ScratchFacts, TypeOK, ResidencyTypeOK, residencyVars
<1>7. StoreFacts'
  BY DEF RamFollow, StoreFacts, TypeOK, ResidencyTypeOK, residencyVars
<1>8. NoFaultFacts'
  BY DEF RamFollow, NoFaultFacts, TypeOK, ResidencyTypeOK, residencyVars
<1>10. BudgetFacts'
  BY DEF RamFollow, TypeOK, ResidencyTypeOK, BudgetFacts
<1> QED
  BY <1>1, <1>2, <1>3, <1>4, <1>5, <1>6, <1>7, <1>8, <1>10

(* Rank 0 takes over the RAM cut. *)
LEMMA RamLeadStep == ASSUME TickInv, RamLead PROVE TickInv'
<1> USE RankZero, TiersAssumption
<1> USE DEF TickInv
<1>1. TypeOK'
  BY DEF RamLead, SkipMask, TypeOK, ResidencyTypeOK, Phase, residencyVars
<1>2. SlotsHoldTheirExperts'
  BY DEF RamLead, SkipMask, SlotsHoldTheirExperts, TypeOK, ResidencyTypeOK, residencyVars
<1>3. GpuLockstep'
  BY DEF RamLead, SkipMask, GpuLockstep, Before, After, TypeOK, ResidencyTypeOK, residencyVars
<1>4. RamLockstep'
  BY DEF RamLead, SkipMask, RamLockstep, TypeOK, ResidencyTypeOK, residencyVars
<1>5. CutFacts'
  BY DEF RamLead, SkipMask, CutFacts, TypeOK, ResidencyTypeOK, residencyVars
<1>6. ScratchFacts'
  BY DEF RamLead, SkipMask, ScratchFacts, TypeOK, ResidencyTypeOK, residencyVars
<1>7. StoreFacts'
  BY DEF RamLead, SkipMask, StoreFacts, TypeOK, ResidencyTypeOK, residencyVars
<1>8. NoFaultFacts'
  BY DEF RamLead, SkipMask, NoFaultFacts, TypeOK, ResidencyTypeOK, residencyVars
<1>10. BudgetFacts'
  BY DEF RamLead, StoreFacts, TypeOK, ResidencyTypeOK, BudgetFacts
<1> QED
  BY <1>1, <1>2, <1>3, <1>4, <1>5, <1>6, <1>7, <1>8, <1>10

(* An eviction takes nothing the CPU kernel may compute. *)
LEMMA EvictStep == ASSUME TickInv, NEW e \in Expert, Evict(e) PROVE TickInv'
<1> USE RankZero, TiersAssumption
<1> USE DEF TickInv
<1>1. TypeOK'
  BY DEF Evict, TypeOK, ResidencyTypeOK, Phase, residencyVars
<1>2. SlotsHoldTheirExperts'
  BY DEF Evict, SlotsHoldTheirExperts, TypeOK, ResidencyTypeOK, residencyVars
<1>3. GpuLockstep'
  BY DEF Evict, GpuLockstep, Before, After, TypeOK, ResidencyTypeOK, residencyVars
<1>4. RamLockstep'
  BY DEF Evict, RamLockstep, TypeOK, ResidencyTypeOK, residencyVars
<1>5. CutFacts'
  BY DEF Evict, CutFacts, TypeOK, ResidencyTypeOK, residencyVars
<1>6. ScratchFacts'
  BY DEF Evict, ScratchFacts, TypeOK, ResidencyTypeOK, residencyVars
<1>7. StoreFacts'
  BY DEF Evict, StoreFacts, TypeOK, ResidencyTypeOK, residencyVars
<1>8. NoFaultFacts'
  BY DEF Evict, NoFaultFacts, TypeOK, ResidencyTypeOK, residencyVars
<1>10. BudgetFacts'
  <2> SUFFICES ASSUME failures' = 0 PROVE BudgetFacts'
    BY DEF BudgetFacts
  <2>1. IsFiniteSet(staged)
    BY ResidencyAssumption, FS_Subset DEF TypeOK, ResidencyTypeOK
  <2>2. Cardinality(staged \ {e}) <= Cardinality(staged)
    BY <2>1, FS_Subset
  <2>3. Cardinality(staged) \in Nat /\ Cardinality(staged \ {e}) \in Nat
    BY <2>1, FS_CardinalityType, FS_Subset
  <2> QED
    BY <2>2, <2>3 DEF Evict, BudgetFacts
<1> QED
  BY <1>1, <1>2, <1>3, <1>4, <1>5, <1>6, <1>7, <1>8, <1>10

(* A failing eviction leaves the expert staged. *)
LEMMA EvictFailsStep == ASSUME TickInv, NEW e \in Expert, EvictFails(e) PROVE TickInv'
<1> USE RankZero, TiersAssumption
<1> USE DEF TickInv
<1>1. TypeOK'
  BY DEF EvictFails, TypeOK, ResidencyTypeOK, Phase, residencyVars
<1>2. SlotsHoldTheirExperts'
  BY DEF EvictFails, SlotsHoldTheirExperts, TypeOK, ResidencyTypeOK, residencyVars
<1>3. GpuLockstep'
  BY DEF EvictFails, GpuLockstep, Before, After, TypeOK, ResidencyTypeOK, residencyVars
<1>4. RamLockstep'
  BY DEF EvictFails, RamLockstep, TypeOK, ResidencyTypeOK, residencyVars
<1>5. CutFacts'
  BY DEF EvictFails, CutFacts, TypeOK, ResidencyTypeOK, residencyVars
<1>6. ScratchFacts'
  BY DEF EvictFails, ScratchFacts, TypeOK, ResidencyTypeOK, residencyVars
<1>7. StoreFacts'
  BY DEF EvictFails, StoreFacts, TypeOK, ResidencyTypeOK, residencyVars
<1>8. NoFaultFacts'
  BY DEF EvictFails, NoFaultFacts, TypeOK, ResidencyTypeOK, residencyVars
<1>10. BudgetFacts'
  BY DEF EvictFails, TypeOK, BudgetFacts
<1> QED
  BY <1>1, <1>2, <1>3, <1>4, <1>5, <1>6, <1>7, <1>8, <1>10

(* A promotion stages an expert of the cut. *)
LEMMA PromoteStep == ASSUME TickInv, NEW e \in Expert, Promote(e) PROVE TickInv'
<1> USE RankZero, TiersAssumption
<1> USE DEF TickInv
<1>1. TypeOK'
  BY DEF Promote, TypeOK, ResidencyTypeOK, Phase, residencyVars
<1>2. SlotsHoldTheirExperts'
  BY DEF Promote, SlotsHoldTheirExperts, TypeOK, ResidencyTypeOK, residencyVars
<1>3. GpuLockstep'
  BY DEF Promote, GpuLockstep, Before, After, TypeOK, ResidencyTypeOK, residencyVars
<1>4. RamLockstep'
  BY DEF Promote, RamLockstep, TypeOK, ResidencyTypeOK, residencyVars
<1>5. CutFacts'
  BY DEF Promote, CutFacts, TypeOK, ResidencyTypeOK, residencyVars
<1>6. ScratchFacts'
  BY DEF Promote, ScratchFacts, TypeOK, ResidencyTypeOK, residencyVars
<1>7. StoreFacts'
  BY DEF Promote, StoreFacts, TypeOK, ResidencyTypeOK, residencyVars
<1>8. NoFaultFacts'
  BY DEF Promote, NoFaultFacts, TypeOK, ResidencyTypeOK, residencyVars
<1>10. BudgetFacts'
  <2> SUFFICES ASSUME failures' = 0 PROVE BudgetFacts'
    BY DEF BudgetFacts
  <2>1. cut.ram \in SUBSET Expert
    BY DEF TypeOK
  <2>2. IsFiniteSet(cut.ram)
    BY <2>1, ResidencyAssumption, FS_Subset
  <2>3. staged \cup {e} \subseteq cut.ram
    BY DEF Promote, BudgetFacts, StoreFacts, NoFaultFacts
  <2>4. Cardinality(staged \cup {e}) <= Cardinality(cut.ram)
    BY <2>2, <2>3, FS_Subset
  <2> QED
    BY <2>3, <2>4 DEF Promote, BudgetFacts, StoreFacts
<1> QED
  BY <1>1, <1>2, <1>3, <1>4, <1>5, <1>6, <1>7, <1>8, <1>10

(* A failing promotion withdraws the expert. *)
LEMMA PromoteFailsStep == ASSUME TickInv, NEW e \in Expert, PromoteFails(e) PROVE TickInv'
<1> USE RankZero, TiersAssumption
<1> USE DEF TickInv
<1>1. TypeOK'
  BY DEF PromoteFails, SkipMask, TypeOK, ResidencyTypeOK, Phase, residencyVars
<1>2. SlotsHoldTheirExperts'
  BY DEF PromoteFails, SkipMask, SlotsHoldTheirExperts, TypeOK, ResidencyTypeOK, residencyVars
<1>3. GpuLockstep'
  BY DEF PromoteFails, SkipMask, GpuLockstep, Before, After, TypeOK, ResidencyTypeOK, residencyVars
<1>4. RamLockstep'
  BY DEF PromoteFails, SkipMask, RamLockstep, TypeOK, ResidencyTypeOK, residencyVars
<1>5. CutFacts'
  BY DEF PromoteFails, SkipMask, CutFacts, TypeOK, ResidencyTypeOK, residencyVars
<1>6. ScratchFacts'
  BY DEF PromoteFails, SkipMask, ScratchFacts, TypeOK, ResidencyTypeOK, residencyVars
<1>7. StoreFacts'
  BY DEF PromoteFails, SkipMask, StoreFacts, TypeOK, ResidencyTypeOK, residencyVars
<1>8. NoFaultFacts'
  BY DEF PromoteFails, SkipMask, NoFaultFacts, TypeOK, ResidencyTypeOK, residencyVars
<1>10. BudgetFacts'
  BY DEF PromoteFails, TypeOK, BudgetFacts
<1> QED
  BY <1>1, <1>2, <1>3, <1>4, <1>5, <1>6, <1>7, <1>8, <1>10

(* Rank 0 has worked off all moves. *)
LEMMA MovedStep == ASSUME TickInv, Moved PROVE TickInv'
<1> USE RankZero, TiersAssumption
<1> USE DEF TickInv
<1>1. TypeOK'
  BY DEF Moved, TypeOK, ResidencyTypeOK, Phase, residencyVars
<1>2. SlotsHoldTheirExperts'
  BY DEF Moved, SlotsHoldTheirExperts, TypeOK, ResidencyTypeOK, residencyVars
<1>3. GpuLockstep'
  BY DEF Moved, GpuLockstep, Before, After, TypeOK, ResidencyTypeOK, residencyVars
<1>4. RamLockstep'
  BY DEF Moved, RamLockstep, TypeOK, ResidencyTypeOK, residencyVars
<1>5. CutFacts'
  BY DEF Moved, CutFacts, TypeOK, ResidencyTypeOK, residencyVars
<1>6. ScratchFacts'
  BY DEF Moved, ScratchFacts, TypeOK, ResidencyTypeOK, residencyVars
<1>7. StoreFacts'
  BY DEF Moved, StoreFacts, TypeOK, ResidencyTypeOK, residencyVars
<1>8. NoFaultFacts'
  BY DEF Moved, NoFaultFacts, TypeOK, ResidencyTypeOK, residencyVars
<1>10. BudgetFacts'
  BY DEF Moved, residencyVars, BudgetFacts
<1> QED
  BY <1>1, <1>2, <1>3, <1>4, <1>5, <1>6, <1>7, <1>8, <1>10

(* A step that changes nothing keeps the invariant.                        *)
LEMMA StutterStep == ASSUME TickInv, UNCHANGED vars PROVE TickInv'
<1> USE DEF vars, residencyVars, TickInv
<1>1. TypeOK' /\ SlotsHoldTheirExperts'
  BY DEF TypeOK, ResidencyTypeOK, SlotsHoldTheirExperts
<1>2. GpuLockstep' /\ RamLockstep' /\ CutFacts'
  BY DEF GpuLockstep, RamLockstep, CutFacts
<1>3. ScratchFacts' /\ StoreFacts' /\ NoFaultFacts' /\ BudgetFacts'
  BY DEF ScratchFacts, StoreFacts, NoFaultFacts, BudgetFacts
<1> QED
  BY <1>1, <1>2, <1>3

----------------------------------------------------------------------------

(* The invariant holds in every state of every behaviour of the tick, with *)
(* any number of failing evictions and promotions.                         *)
THEOREM TickInvariant == Spec => []TickInv
<1>1. Init => TickInv
  BY TickInit
<1>2. TickInv /\ [Next]_vars => TickInv'
  <2> SUFFICES ASSUME TickInv, [Next]_vars PROVE TickInv'
    OBVIOUS
  <2>1. CASE Forward
    BY <2>1, ForwardStep
  <2>2. CASE Decide
    BY <2>2, DecideStep
  <2>3. CASE LoadNarrow
    BY <2>3, LoadNarrowStep
  <2>4. CASE LoadFull
    BY <2>4, LoadFullStep
  <2>5. CASE RamLead
    BY <2>5, RamLeadStep
  <2>6. CASE Move
    BY <2>6, EvictStep, PromoteStep, MovedStep DEF Move
  <2>7. CASE Fail
    BY <2>7, EvictFailsStep, PromoteFailsStep DEF Fail
  <2>8. CASE \E r \in Rank : Receive(r) \/ ApplyGpu(r) \/ RamFollow(r)
    BY <2>8, ReceiveStep, ApplyGpuStep, RamFollowStep
  <2>9. CASE UNCHANGED vars
    BY <2>9, StutterStep
  <2> QED
    BY <2>1, <2>2, <2>3, <2>4, <2>5, <2>6, <2>7, <2>8, <2>9 DEF Next, Step
<1> QED
  BY <1>1, <1>2, PTL DEF Spec

(* The state of the tick keeps its types.                                  *)
THEOREM TickTypes == Spec => []TypeOK
<1>1. TickInv => TypeOK
  BY DEF TickInv
<1> QED
  BY <1>1, TickInvariant, PTL

(* At every point of every tick each resident expert's slot holds that     *)
(* expert's weights, whichever moves failed: GpuSlotsCorrect.              *)
THEOREM SlotsAlwaysCorrect == Spec => []GpuSlotsCorrect
<1>1. TickInv => GpuSlotsCorrect
  BY DEF TickInv, GpuSlotsCorrect
<1> QED
  BY <1>1, TickInvariant, PTL

(* No forward computes an expert on the CPU that the CPU store does not    *)
(* hold, whichever moves failed: CpuNeverReadsUnstaged.                    *)
THEOREM CpuReadsStaged == Spec => []CpuNeverReadsUnstaged
<1>1. TickInv => CpuNeverReadsUnstaged
  <2> SUFFICES ASSUME TickInv, AtForward, NEW e \in Expert, CpuComputes(e)
               PROVE  e \in staged
    BY DEF CpuNeverReadsUnstaged, NoUnstagedCompute
  <2>1. pc[0] = "forward"
    BY RankZero DEF AtForward
  <2> QED
    BY <2>1 DEF TickInv, StoreFacts, CpuComputes
<1> QED
  BY <1>1, TickInvariant, PTL

(* An expert enters a rank's GPU tier only out of that rank's RAM tier:    *)
(* GpuDrawsFromRam.                                                        *)
THEOREM GpuArrivalsWereInRam == Spec => GpuDrawsFromRam
<1> DEFINE Draws == \A r \in Rank : gpuMask'[r] \ gpuMask[r] \subseteq ramMask[r]
<1>1. TickInv /\ [Next]_vars => [Draws]_vars
  <2> SUFFICES ASSUME TickInv, Next PROVE Draws
    OBVIOUS
  <2>1. CASE \E r \in Rank : ApplyGpu(r)
    <3>1. PICK r \in Rank : ApplyGpu(r)
      BY <2>1
    <3>2. gpuMask' = [gpuMask EXCEPT ![r] = cut.gpu] /\ pc[r] \in {"narrow", "full"}
      BY <3>1 DEF ApplyGpu, ApplyIncremental, ApplyFull
    <3> QED
      BY <3>2 DEF TickInv, ScratchFacts, TypeOK, ResidencyTypeOK
  <2>2. CASE ~ \E r \in Rank : ApplyGpu(r)
    <3>1. UNCHANGED gpuMask
      BY <2>2 DEF Next, Step, Forward, Decide, LoadNarrow, LoadFull, RamLead, Move, Fail,
                  Evict, EvictFails, Promote, PromoteFails, Moved, Receive, RamFollow,
                  residencyVars
    <3> QED
      BY <3>1
  <2> QED
    BY <2>1, <2>2
<1> QED
  BY <1>1, TickInvariant, PTL DEF Spec, GpuDrawsFromRam

(* Until a move fails, every forward runs in a coherent state: the ranks   *)
(* agree, and every reachable expert is computed exactly once with its own *)
(* weights (CoherentForward).                                              *)
THEOREM ForwardsAreCoherent == Spec => []CoherentForward
<1>1. TickInv => CoherentForward
  <2> SUFFICES ASSUME TickInv, AtForward, failures = 0 PROVE Coherent
    BY DEF CoherentForward
  <2>1. /\ \A r \in Rank : gpuMask[r] = cut.gpu /\ ramMask[r] = cut.ram
        /\ cut.gpu \cap cut.ram = {}
        /\ skip = Expert \ cut.ram
        /\ cut.ram \subseteq staged
    BY RankZero DEF AtForward, TickInv, GpuLockstep, RamLockstep, NoFaultFacts,
                    CutFacts, StoreFacts, After
  <2>2. \A r \in Rank, e \in cut.gpu :
          slotOf[r][e] \in Slot /\ weights[r][slotOf[r][e]] = e
    BY <2>1 DEF TickInv, SlotsHoldTheirExperts
  <2> QED
    BY <2>1, <2>2 DEF Coherent, Reachable, ServedOnce, NotServed, GpuComputes,
                      GpuReads, CpuComputes, StoreRead
<1> QED
  BY <1>1, TickInvariant, PTL

(* Until a move fails, no rank receives the RAM cut in a buffer of another *)
(* size than rank 0 sends (BroadcastSizesAgree).                           *)
THEOREM BroadcastsMatch == Spec => [](failures = 0 => BroadcastSizesAgree)
<1>1. TickInv => (failures = 0 => BroadcastSizesAgree)
  BY DEF TickInv, NoFaultFacts, BroadcastSizesAgree, RamSize
<1> QED
  BY <1>1, TickInvariant, PTL

(* Until a move fails, the CPU store never exceeds KT_RAM_EXPERTS, also in *)
(* the middle of the evictions and promotions of a tick (RamBudget).       *)
THEOREM StoreWithinBudget == Spec => []RamBudget
<1>1. TickInv => RamBudget
  BY DEF TickInv, BudgetFacts, RamBudget
<1> QED
  BY <1>1, TickInvariant, PTL
=============================================================================
