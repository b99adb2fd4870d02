----------------------------- MODULE Residency -----------------------------
(***************************************************************************)
(* Where the weights of one MoE layer's experts are, and the tables that   *)
(* route a forward to them: the state of a KTEPWrapperMethod on every      *)
(* tensor-parallel rank, and the kt CPU store that rank 0 alone owns.      *)
(*                                                                         *)
(* The three movers (the tier tick, the adaptive tick and the energy tick) *)
(* all change this state through the operations of this module: a load of  *)
(* the shared full context, and one of the two ways to apply a selection.  *)
(*                                                                         *)
(* An expert's weights are represented by the expert's own identity, and   *)
(* bytes that are nobody's weights by Garbage.  Expert ids are compared    *)
(* only for equality: where the code pairs or numbers experts in sorted    *)
(* order, the model takes any pairing or numbering.                        *)
(***************************************************************************)
EXTENDS Naturals, FiniteSets, Functions, TLAPS

CONSTANTS
    Expert,       \* logical expert ids of the layer
    NGpu,         \* num_gpu_experts: GPU slots of the layer
    World,        \* tensor-parallel world size
    Garbage,      \* bytes that are not the weights of any expert
    NoSlot,       \* -1 in logical_to_gpu_index
    TierEnabled,  \* _KT_TIER_ENABLED: KT_RAM_EXPERTS is set
    IncrementalMax \* KT_TIER_INCREMENTAL_MAX; 0 is KT_TIER_INCREMENTAL=0

Rank == 0 .. World - 1
Slot == 0 .. NGpu - 1

ASSUME ResidencyAssumption ==
    /\ World \in Nat \ {0}
    /\ NGpu \in Nat
    /\ IncrementalMax \in Nat
    /\ TierEnabled \in BOOLEAN
    /\ Garbage \notin Expert
    /\ NoSlot \notin Slot
    /\ IsFiniteSet(Expert)
    /\ NGpu <= Cardinality(Expert)

VARIABLES
    gpuMask,   \* gpuMask[r]: gpu_experts_mask of rank r
    ramMask,   \* ramMask[r]: ram_experts_mask of rank r
    slotOf,    \* slotOf[r][e]: logical_to_gpu_index of rank r
    weights,   \* weights[r][s]: what slot s of the decode layer holds
    scratch,   \* scratch[r][e]: what the shared full context holds
    staged,    \* experts with weights in the kt CPU store (rank 0)
    skip       \* the wrapper's pinned mask: experts the CPU kernel skips

residencyVars == <<gpuMask, ramMask, slotOf, weights, scratch, staged, skip>>

Contents == Expert \cup {Garbage}

ResidencyTypeOK ==
    /\ gpuMask \in [Rank -> SUBSET Expert]
    /\ ramMask \in [Rank -> SUBSET Expert]
    /\ slotOf \in [Rank -> [Expert -> Slot \cup {NoSlot}]]
    /\ weights \in [Rank -> [Slot -> Contents]]
    /\ scratch \in [Rank -> [Expert -> Contents]]
    /\ staged \subseteq Expert
    /\ skip \subseteq Expert

----------------------------------------------------------------------------

(* kt_cpu_skip_mask, as a function of the masks of rank 0. *)
SkipMask(gpu, ram) == IF TierEnabled THEN Expert \ ram ELSE gpu

(* What a read of expert e's region of the CPU store returns. *)
StoreRead(e) == IF e \in staged THEN e ELSE Garbage

(* A numbering of the selected experts by GPU slot.                        *)
Numberings(sel) == Bijection(sel, Slot)

(* The tables that make the experts of sel resident under numbering n.     *)
SlotTable(sel, n) ==
    [e \in Expert |-> IF e \in sel THEN n[e] ELSE NoSlot]
SlotWeights(n, src) ==
    [s \in Slot |-> src[CHOOSE e \in DOMAIN n : n[e] = s]]

----------------------------------------------------------------------------

(* What rank 0 stages in the CPU store at boot, the complement of the      *)
(* load-time mask: with tiers the RAM tier, and otherwise every expert, as *)
(* the adaptive cache needs.                                               *)
InitStaged(ram) == IF TierEnabled THEN ram ELSE Expert

(* Boot: __init__ numbers the GPU experts, and the checkpoint loader fills *)
(* their slots.                                                            *)
ResidencyInit(gpu, ram) ==
    \E n \in Numberings(gpu) :
        /\ gpuMask = [r \in Rank |-> gpu]
        /\ ramMask = [r \in Rank |-> ram]
        /\ slotOf = [r \in Rank |-> SlotTable(gpu, n)]
        /\ weights = [r \in Rank |-> SlotWeights(n, [e \in Expert |-> e])]
        /\ scratch = [r \in Rank |-> [e \in Expert |-> Garbage]]
        /\ staged = InitStaged(ram)
        /\ skip = SkipMask(gpu, ram)

----------------------------------------------------------------------------
(* SharedFullContext.load.  All ranks take part: each expert is streamed   *)
(* by rank 0 and followed by a barrier.                                    *)

(* The narrow load streams the arriving experts only.  The rest of the     *)
(* scratch layer is left over from another layer.                          *)
NarrowScratch(add) ==
    [e \in Expert |-> IF e \in add THEN StoreRead(e) ELSE Garbage]

(* The full load streams every expert and then overlays the ones resident  *)
(* on the GPU from the decode layer.                                       *)
FullScratch(r) ==
    [e \in Expert |-> IF e \in gpuMask[r] THEN weights[r][slotOf[r][e]]
                                          ELSE StoreRead(e)]

(* _apply_expert_selection_incremental accepts a same-size swap of at most *)
(* IncrementalMax experts.                                                 *)
Narrowable(r, sel) ==
    LET add  == sel \ gpuMask[r]
        drop == gpuMask[r] \ sel
    IN  /\ Cardinality(add) = Cardinality(drop)
        /\ Cardinality(add) <= IncrementalMax

----------------------------------------------------------------------------
(* The two ways to make sel resident on rank r from a loaded scratch.  The *)
(* weights are written and synchronised first, then the tables flip, all   *)
(* on the forward thread: no forward runs in between.                      *)

(* Faulty variant: the tables flip, and the weights are not copied.        *)
ApplyIncrementalNoCopy(r, sel) ==
    LET add  == sel \ gpuMask[r]
        drop == gpuMask[r] \ sel
    IN  \E partner \in Bijection(add, drop) :
          /\ slotOf' = [slotOf EXCEPT ![r] =
                [e \in Expert |-> IF e \in add THEN slotOf[r][partner[e]]
                                  ELSE IF e \in drop THEN NoSlot
                                  ELSE slotOf[r][e]]]
          /\ gpuMask' = [gpuMask EXCEPT ![r] = sel]
          /\ skip' = IF r = 0 THEN SkipMask(sel, ramMask[0]) ELSE skip
          /\ UNCHANGED weights

(* _apply_expert_selection_incremental: an arrival takes the slot of the   *)
(* departing expert it is paired with; nobody else moves.                  *)
ApplyIncremental(r, sel) ==
    LET add  == sel \ gpuMask[r]
        drop == gpuMask[r] \ sel
    IN  \E partner \in Bijection(add, drop) :
          LET slot == [a \in add |-> slotOf[r][partner[a]]]
          IN  /\ weights' = [weights EXCEPT ![r] =
                    [s \in Slot |-> IF \E a \in add : slot[a] = s
                                    THEN scratch[r][CHOOSE a \in add : slot[a] = s]
                                    ELSE weights[r][s]]]
              /\ slotOf' = [slotOf EXCEPT ![r] =
                    [e \in Expert |-> IF e \in add THEN slot[e]
                                      ELSE IF e \in drop THEN NoSlot
                                      ELSE slotOf[r][e]]]
              /\ gpuMask' = [gpuMask EXCEPT ![r] = sel]
              /\ skip' = IF r = 0 THEN SkipMask(sel, ramMask[0]) ELSE skip

(* _apply_expert_selection: slots are renumbered by position and every     *)
(* selected expert is copied.                                              *)
ApplyFull(r, sel) ==
    \E n \in Numberings(sel) :
        /\ weights' = [weights EXCEPT ![r] = SlotWeights(n, scratch[r])]
        /\ slotOf' = [slotOf EXCEPT ![r] = SlotTable(sel, n)]
        /\ gpuMask' = [gpuMask EXCEPT ![r] = sel]
        /\ skip' = IF r = 0 THEN SkipMask(sel, ramMask[0]) ELSE skip

----------------------------------------------------------------------------
(* What a forward of the layer does with a routed expert.                  *)

(* mask_and_remap_expert_ids: rank r's GPU kernel computes e ...           *)
GpuComputes(r, e) == e \in gpuMask[r]

(* ... reading the weights in e's slot.                                    *)
GpuReads(r, e) ==
    IF slotOf[r][e] \in Slot THEN weights[r][slotOf[r][e]] ELSE Garbage

(* should_skip_expert: the CPU kernel of rank 0 computes e.                *)
CpuComputes(e) == e \notin skip

(* reach_vec of rank r: the router may keep e.  The device copy of the RAM *)
(* mask exists in every configuration, so it is consulted in every one.    *)
Reachable(r, e) == e \in gpuMask[r] \cup ramMask[r]

(* A forward that keeps e adds e's own contribution exactly once: on every *)
(* rank's GPU shard or on rank 0's CPU, and with e's own weights.          *)
ServedOnce(e) ==
    \/ /\ \A r \in Rank : GpuComputes(r, e) /\ GpuReads(r, e) = e
       /\ ~CpuComputes(e)
    \/ /\ \A r \in Rank : ~GpuComputes(r, e)
       /\ CpuComputes(e) /\ StoreRead(e) = e

(* A forward that cannot keep e does not compute it at all.                *)
NotServed(e) ==
    /\ \A r \in Rank : ~GpuComputes(r, e)
    /\ ~CpuComputes(e)

(* The state a forward may run in: the ranks agree on which experts are    *)
(* reachable, each of those is served once and no other one is computed.   *)
Coherent ==
    \A e \in Expert :
        \/ /\ \A r \in Rank : Reachable(r, e)
           /\ ServedOnce(e)
        \/ /\ \A r \in Rank : ~Reachable(r, e)
           /\ NotServed(e)

(* Each resident expert has a slot of its own that holds its weights.      *)
SlotsHoldTheirExperts ==
    \A r \in Rank : \A e \in gpuMask[r] :
        /\ slotOf[r][e] \in Slot
        /\ weights[r][slotOf[r][e]] = e

(* The CPU kernel never computes an expert whose weights are not staged.   *)
NoUnstagedCompute == \A e \in Expert : CpuComputes(e) => e \in staged

-----------------------------------------------------------------------------
(* What the two ways to apply a selection do to the tables: the lemmas     *)
(* that the proofs about the three movers share.                           *)

(* A bijection is a function that is one-to-one and onto.                  *)
LEMMA BijectionFacts ==
    ASSUME NEW S, NEW T, NEW f \in Bijection(S, T)
    PROVE  /\ f \in [S -> T]
           /\ \A x, y \in S : f[x] = f[y] => x = y
           /\ \A t \in T : \E x \in S : f[x] = t
  BY DEF Bijection, Injection, Surjection, IsInjective

(* Rank 0 exists.                                                          *)
LEMMA RankZero == 0 \in Rank
  BY ResidencyAssumption DEF Rank

(* The bytes of a slot numbered by n are those of the expert it numbers.   *)
LEMMA SlotWeightsFacts ==
    ASSUME NEW sel \in SUBSET Expert, NEW n \in Numberings(sel),
           NEW src \in [Expert -> Contents]
    PROVE  /\ SlotWeights(n, src) \in [Slot -> Contents]
           /\ SlotTable(sel, n) \in [Expert -> Slot \cup {NoSlot}]
           /\ \A e \in sel : /\ SlotTable(sel, n)[e] \in Slot
                             /\ SlotWeights(n, src)[SlotTable(sel, n)[e]] = src[e]
<1>1. /\ n \in [sel -> Slot]
      /\ \A x, y \in sel : n[x] = n[y] => x = y
      /\ \A s \in Slot : \E x \in sel : n[x] = s
  BY BijectionFacts DEF Numberings
<1>2. DOMAIN n = sel
  BY <1>1
<1>3. \A s \in Slot : /\ (CHOOSE e \in DOMAIN n : n[e] = s) \in sel
                      /\ n[CHOOSE e \in DOMAIN n : n[e] = s] = s
  BY <1>1, <1>2
<1>4. SlotWeights(n, src) \in [Slot -> Contents]
  BY <1>3 DEF SlotWeights
<1>5. SlotTable(sel, n) \in [Expert -> Slot \cup {NoSlot}]
  BY <1>1 DEF SlotTable
<1>6. ASSUME NEW e \in sel
      PROVE  /\ SlotTable(sel, n)[e] \in Slot
             /\ SlotWeights(n, src)[SlotTable(sel, n)[e]] = src[e]
  <2>1. SlotTable(sel, n)[e] = n[e] /\ n[e] \in Slot
    BY <1>1 DEF SlotTable
  <2>2. (CHOOSE x \in DOMAIN n : n[x] = n[e]) = e
    BY <1>1, <1>3, <2>1
  <2>3. SlotWeights(n, src)[n[e]] = src[CHOOSE x \in DOMAIN n : n[x] = n[e]]
    BY <2>1 DEF SlotWeights
  <2> QED
    BY <2>1, <2>2, <2>3
<1> QED
  BY <1>4, <1>5, <1>6

(* The full restage leaves every resident expert in a slot that holds its  *)
(* weights, when the scratch layer holds those of the selected experts.    *)
LEMMA ApplyFullFacts ==
    ASSUME ResidencyTypeOK, SlotsHoldTheirExperts,
           NEW r \in Rank, NEW sel \in SUBSET Expert,
           \A e \in sel : scratch[r][e] = e,
           ApplyFull(r, sel), UNCHANGED <<ramMask, scratch, staged>>
    PROVE  /\ ResidencyTypeOK'
           /\ SlotsHoldTheirExperts'
           /\ gpuMask' = [gpuMask EXCEPT ![r] = sel]
           /\ skip' = IF r = 0 THEN SkipMask(sel, ramMask[0]) ELSE skip
<1>1. PICK n \in Numberings(sel) :
         /\ weights' = [weights EXCEPT ![r] = SlotWeights(n, scratch[r])]
         /\ slotOf' = [slotOf EXCEPT ![r] = SlotTable(sel, n)]
         /\ gpuMask' = [gpuMask EXCEPT ![r] = sel]
         /\ skip' = IF r = 0 THEN SkipMask(sel, ramMask[0]) ELSE skip
  BY DEF ApplyFull
<1>2. scratch[r] \in [Expert -> Contents]
  BY DEF ResidencyTypeOK
<1>3. /\ SlotWeights(n, scratch[r]) \in [Slot -> Contents]
      /\ SlotTable(sel, n) \in [Expert -> Slot \cup {NoSlot}]
      /\ \A e \in sel :
            /\ SlotTable(sel, n)[e] \in Slot
            /\ SlotWeights(n, scratch[r])[SlotTable(sel, n)[e]] = scratch[r][e]
  BY <1>1, <1>2, SlotWeightsFacts
<1>4. SkipMask(sel, ramMask[0]) \subseteq Expert
  BY DEF SkipMask
<1>5. ResidencyTypeOK'
  BY <1>1, <1>3, <1>4 DEF ResidencyTypeOK
<1>6. SlotsHoldTheirExperts'
  <2> SUFFICES ASSUME NEW q \in Rank, NEW e \in gpuMask'[q]
               PROVE  slotOf'[q][e] \in Slot /\ weights'[q][slotOf'[q][e]] = e
    BY DEF SlotsHoldTheirExperts
  <2>1. CASE q = r
    BY <1>1, <1>3, <2>1 DEF ResidencyTypeOK
  <2>2. CASE q # r
    BY <1>1, <2>2 DEF ResidencyTypeOK, SlotsHoldTheirExperts
  <2> QED
    BY <2>1, <2>2
<1> QED
  BY <1>1, <1>5, <1>6

(* So does the incremental swap, when the scratch layer holds the weights  *)
(* of the arriving experts: an arrival's slot is its departed partner's,   *)
(* which nobody else occupies.                                             *)
LEMMA ApplyIncrementalFacts ==
    ASSUME ResidencyTypeOK, SlotsHoldTheirExperts,
           NEW r \in Rank, NEW sel \in SUBSET Expert,
           \A e \in sel \ gpuMask[r] : scratch[r][e] = e,
           ApplyIncremental(r, sel), UNCHANGED <<ramMask, scratch, staged>>
    PROVE  /\ ResidencyTypeOK'
           /\ SlotsHoldTheirExperts'
           /\ gpuMask' = [gpuMask EXCEPT ![r] = sel]
           /\ skip' = IF r = 0 THEN SkipMask(sel, ramMask[0]) ELSE skip
<1> DEFINE arrive == sel \ gpuMask[r]
           leave  == gpuMask[r] \ sel
<1>1. PICK partner \in Bijection(arrive, leave) :
        LET slot == [a \in arrive |-> slotOf[r][partner[a]]]
        IN  /\ weights' = [weights EXCEPT ![r] =
                  [s \in Slot |-> IF \E a \in arrive : slot[a] = s
                                  THEN scratch[r][CHOOSE a \in arrive : slot[a] = s]
                                  ELSE weights[r][s]]]
            /\ slotOf' = [slotOf EXCEPT ![r] =
                  [e \in Expert |-> IF e \in arrive THEN slot[e]
                                    ELSE IF e \in leave THEN NoSlot
                                    ELSE slotOf[r][e]]]
            /\ gpuMask' = [gpuMask EXCEPT ![r] = sel]
            /\ skip' = IF r = 0 THEN SkipMask(sel, ramMask[0]) ELSE skip
  BY DEF ApplyIncremental
<1> DEFINE slot == [a \in arrive |-> slotOf[r][partner[a]]]
           pick(s) == CHOOSE a \in arrive : slot[a] = s
           newWeights == [s \in Slot |-> IF \E a \in arrive : slot[a] = s
                                         THEN scratch[r][pick(s)]
                                         ELSE weights[r][s]]
           newSlotOf == [e \in Expert |-> IF e \in arrive THEN slot[e]
                                          ELSE IF e \in leave THEN NoSlot
                                          ELSE slotOf[r][e]]
<1>2. /\ weights' = [weights EXCEPT ![r] = newWeights]
      /\ slotOf' = [slotOf EXCEPT ![r] = newSlotOf]
      /\ gpuMask' = [gpuMask EXCEPT ![r] = sel]
      /\ skip' = IF r = 0 THEN SkipMask(sel, ramMask[0]) ELSE skip
  BY <1>1
<1>3. /\ partner \in [arrive -> leave]
      /\ \A x, y \in arrive : partner[x] = partner[y] => x = y
  BY <1>1, BijectionFacts
<1>4. /\ gpuMask[r] \subseteq Expert
      /\ slotOf[r] \in [Expert -> Slot \cup {NoSlot}]
      /\ weights[r] \in [Slot -> Contents]
      /\ scratch[r] \in [Expert -> Contents]
  BY DEF ResidencyTypeOK
<1>5. \A e, f \in gpuMask[r] : slotOf[r][e] = slotOf[r][f] => e = f
  BY DEF SlotsHoldTheirExperts
<1>6. \A a \in arrive : slot[a] \in Slot /\ partner[a] \in gpuMask[r]
  BY <1>3 DEF SlotsHoldTheirExperts
<1>7. \A x, y \in arrive : slot[x] = slot[y] => x = y
  BY <1>3, <1>5, <1>6
<1>8. \A a \in arrive : pick(slot[a]) = a
  BY <1>7
<1>9. newWeights \in [Slot -> Contents]
  <2> SUFFICES ASSUME NEW s \in Slot, NEW a \in arrive, slot[a] = s
               PROVE  scratch[r][pick(s)] \in Contents
    BY <1>4
  <2> QED
    BY <1>4, <1>8
<1>10. newSlotOf \in [Expert -> Slot \cup {NoSlot}]
  BY <1>4, <1>6
<1>11. \A e \in sel : newSlotOf[e] \in Slot /\ newWeights[newSlotOf[e]] = e
  <2> SUFFICES ASSUME NEW e \in sel
               PROVE  newSlotOf[e] \in Slot /\ newWeights[newSlotOf[e]] = e
    OBVIOUS
  <2>1. CASE e \in arrive
    <3>1. newSlotOf[e] = slot[e] /\ slot[e] \in Slot
      BY <1>6, <2>1
    <3>2. newWeights[slot[e]] = scratch[r][pick(slot[e])]
      BY <3>1, <2>1
    <3>3. pick(slot[e]) = e /\ scratch[r][e] = e
      BY <1>8, <2>1
    <3> HIDE DEF newWeights, newSlotOf, pick, slot
    <3> QED
      BY <3>1, <3>2, <3>3
  <2>2. CASE e \notin arrive
    <3>1. e \in gpuMask[r] /\ newSlotOf[e] = slotOf[r][e]
      BY <2>2, <1>4
    <3>2. slotOf[r][e] \in Slot /\ weights[r][slotOf[r][e]] = e
      BY <3>1 DEF SlotsHoldTheirExperts
    <3>3. ~ \E a \in arrive : slot[a] = slotOf[r][e]
      BY <3>1, <1>3, <1>5, <1>6
    <3> QED
      BY <3>1, <3>2, <3>3
  <2> QED
    BY <2>1, <2>2
<1>12. SkipMask(sel, ramMask[0]) \subseteq Expert
  BY DEF SkipMask
<1> HIDE DEF newWeights, newSlotOf
<1>13. ResidencyTypeOK'
  BY <1>2, <1>9, <1>10, <1>12 DEF ResidencyTypeOK
<1>14. SlotsHoldTheirExperts'
  <2> SUFFICES ASSUME NEW q \in Rank, NEW e \in gpuMask'[q]
               PROVE  slotOf'[q][e] \in Slot /\ weights'[q][slotOf'[q][e]] = e
    BY DEF SlotsHoldTheirExperts
  <2>1. CASE q = r
    BY <1>2, <1>11, <2>1 DEF ResidencyTypeOK
  <2>2. CASE q # r
    BY <1>2, <2>2 DEF ResidencyTypeOK, SlotsHoldTheirExperts
  <2> QED
    BY <2>1, <2>2
<1> QED
  BY <1>2, <1>13, <1>14

(* What the loads bring: the weights of every expert that is staged, and,  *)
(* in a full load, of every resident expert.                               *)
LEMMA NarrowScratchFacts ==
    ASSUME NEW arrivals \in SUBSET Expert
    PROVE  /\ NarrowScratch(arrivals) \in [Expert -> Contents]
           /\ \A e \in arrivals \cap staged : NarrowScratch(arrivals)[e] = e
  BY DEF NarrowScratch, StoreRead, Contents

LEMMA FullScratchFacts ==
    ASSUME ResidencyTypeOK, SlotsHoldTheirExperts, NEW r \in Rank
    PROVE  /\ FullScratch(r) \in [Expert -> Contents]
           /\ \A e \in Expert : e \in gpuMask[r] \cup staged => FullScratch(r)[e] = e
  BY DEF FullScratch, StoreRead, Contents, ResidencyTypeOK, SlotsHoldTheirExperts

(* Boot leaves every GPU expert in a slot that holds its weights.          *)
LEMMA ResidencyInitFacts ==
    ASSUME NEW gpu \in SUBSET Expert, NEW ram \in SUBSET Expert,
           ResidencyInit(gpu, ram)
    PROVE  ResidencyTypeOK /\ SlotsHoldTheirExperts
<1>1. PICK n \in Numberings(gpu) :
        /\ gpuMask = [r \in Rank |-> gpu]
        /\ ramMask = [r \in Rank |-> ram]
        /\ slotOf = [r \in Rank |-> SlotTable(gpu, n)]
        /\ weights = [r \in Rank |-> SlotWeights(n, [e \in Expert |-> e])]
        /\ scratch = [r \in Rank |-> [e \in Expert |-> Garbage]]
        /\ staged = IF TierEnabled THEN ram ELSE Expert
        /\ skip = SkipMask(gpu, ram)
  BY DEF ResidencyInit, InitStaged
<1>2. [e \in Expert |-> e] \in [Expert -> Contents]
  BY DEF Contents
<1>3. /\ SlotWeights(n, [e \in Expert |-> e]) \in [Slot -> Contents]
      /\ SlotTable(gpu, n) \in [Expert -> Slot \cup {NoSlot}]
      /\ \A e \in gpu :
            /\ SlotTable(gpu, n)[e] \in Slot
            /\ SlotWeights(n, [x \in Expert |-> x])[SlotTable(gpu, n)[e]]
                 = [x \in Expert |-> x][e]
  BY <1>1, <1>2, SlotWeightsFacts
<1>4. ResidencyTypeOK
  BY <1>1, <1>3 DEF ResidencyTypeOK, SkipMask, Contents
<1>5. SlotsHoldTheirExperts
  BY <1>1, <1>3 DEF SlotsHoldTheirExperts
<1> QED
  BY <1>4, <1>5
=============================================================================
