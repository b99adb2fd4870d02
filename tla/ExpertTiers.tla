---------------------------- MODULE ExpertTiers ----------------------------
(***************************************************************************)
(* The dynamic three-tier tick (KT_RAM_EXPERTS and KT_TIER_DYNAMIC set) of *)
(* one layer on every tensor-parallel rank: _kt_tier_update_layer, as      *)
(* called between two forwards by kt_adaptive_on_decode_step.              *)
(*                                                                         *)
(* Rank 0 re-cuts the demand ranking and broadcasts the two sets; every    *)
(* rank then moves the GPU tier (a load in which all ranks take part, and  *)
(* a local apply) and the RAM tier.  Rank 0 also owns the CPU store and    *)
(* evicts and promotes one expert after the other, each of which may fail. *)
(*                                                                         *)
(* The ranks interleave.  They meet in a forward (its all-reduce), in the  *)
(* broadcasts (whose sizes must agree) and in the load (its barriers).     *)
(***************************************************************************)
EXTENDS Residency

CONSTANTS
    NRam,         \* KT_RAM_EXPERTS
    MaxPromote,   \* KT_TIER_MAX_PROMOTE: GPU swaps of one tick
    MaxFailures   \* bound on the failing evictions and promotions of a run

ASSUME TiersAssumption ==
    /\ TierEnabled
    /\ NRam \in Nat /\ MaxPromote \in Nat /\ MaxFailures \in Nat
    /\ NGpu + NRam <= Cardinality(Expert)

VARIABLES
    pc,        \* pc[r]: where rank r is in its step
    cut,       \* the two sets rank 0 broadcast in this tick
    drop,      \* rank 0: experts still to evict
    add,       \* rank 0: experts still to promote
    failures   \* failed evictions and promotions so far

vars == <<residencyVars, pc, cut, drop, add, failures>>

(* The selector's contract: the mover relies on nothing else of a cut.     *)
Selector == INSTANCE PairSwap

Phase == {"forward", "tick", "load", "narrow", "full", "ram", "move"}

TypeOK ==
    /\ ResidencyTypeOK
    /\ pc \in [Rank -> Phase]
    /\ cut \in [gpu : SUBSET Expert, ram : SUBSET Expert]
    /\ drop \subseteq Expert
    /\ add \subseteq Expert
    /\ failures \in 0 .. MaxFailures

----------------------------------------------------------------------------

(* n_ram of rank r: the size of the buffer it receives the RAM cut in.     *)
RamSize(r) == Cardinality(ramMask[r])

(* Where rank r goes next when it knows the cut.                           *)
AfterBroadcast(r, c) ==
    IF gpuMask[r] # c.gpu THEN "load"
    ELSE IF ramMask[r] # c.ram THEN "ram" ELSE "forward"

AfterGpu(r) == IF ramMask[r] # cut.ram THEN "ram" ELSE "forward"

----------------------------------------------------------------------------

Init ==
    /\ \E gpu \in SUBSET Expert : \E ram \in SUBSET (Expert \ gpu) :
          /\ Cardinality(gpu) = NGpu
          /\ Cardinality(ram) = NRam
          /\ ResidencyInit(gpu, ram)
          /\ cut = [gpu |-> gpu, ram |-> ram]
    /\ pc = [r \in Rank |-> "forward"]
    /\ drop = {} /\ add = {}
    /\ failures = 0

(* A forward of the model: every rank takes part.  It leaves the residency *)
(* as it is, and the tick that follows reaches this layer or another one.  *)
Forward ==
    /\ \A r \in Rank : pc[r] = "forward"
    /\ pc' = [r \in Rank |-> "tick"]
    /\ UNCHANGED <<residencyVars, cut, drop, add, failures>>

(* Rank 0 decides: any cut the selector may return (module TierPolicy has  *)
(* the algorithm).  It keeps the current tiers below KT_ADAPTIVE_MIN_EVENTS, *)
(* when movement is frozen and when the selection raises; the broadcasts   *)
(* happen in every case.                                                   *)
Decide ==
    /\ pc[0] = "tick"
    /\ \E c \in Selector!TierCuts(Expert, gpuMask[0], ramMask[0], MaxPromote)
             \cup {[gpu |-> gpuMask[0], ram |-> ramMask[0]]} :
          /\ cut' = c
          /\ pc' = [pc EXCEPT ![0] = AfterBroadcast(0, c)]
    /\ UNCHANGED <<residencyVars, drop, add, failures>>

(* Another rank receives the two broadcasts.  The receive buffers are      *)
(* sized by the rank's own tiers: a collective whose sizes differ does not *)
(* complete.                                                               *)
Receive(r) ==
    /\ r # 0 /\ pc[r] = "tick" /\ pc[0] # "tick"
    /\ RamSize(r) = Cardinality(cut.ram)
    /\ pc' = [pc EXCEPT ![r] = AfterBroadcast(r, cut)]
    /\ UNCHANGED <<residencyVars, cut, drop, add, failures>>

(* The load: narrow when the incremental swap accepts, full otherwise.     *)
LoadNarrow ==
    /\ \A r \in Rank : pc[r] = "load" /\ Narrowable(r, cut.gpu)
    /\ scratch' = [r \in Rank |-> NarrowScratch(cut.gpu \ gpuMask[r])]
    /\ pc' = [r \in Rank |-> "narrow"]
    /\ UNCHANGED <<gpuMask, ramMask, slotOf, weights, staged, skip,
                   cut, drop, add, failures>>

LoadFull ==
    /\ \A r \in Rank : pc[r] = "load" /\ ~Narrowable(r, cut.gpu)
    /\ scratch' = [r \in Rank |-> FullScratch(r)]
    /\ pc' = [r \in Rank |-> "full"]
    /\ UNCHANGED <<gpuMask, ramMask, slotOf, weights, staged, skip,
                   cut, drop, add, failures>>

(* The GPU tier of rank r moves.                                           *)
ApplyGpu(r) ==
    /\ \/ pc[r] = "narrow" /\ ApplyIncremental(r, cut.gpu)
       \/ pc[r] = "full" /\ ApplyFull(r, cut.gpu)
    /\ pc' = [pc EXCEPT ![r] = AfterGpu(r)]
    /\ UNCHANGED <<ramMask, scratch, staged, cut, drop, add, failures>>

(* The RAM tier moves: on the other ranks only the mask does.              *)
RamFollow(r) ==
    /\ r # 0 /\ pc[r] = "ram"
    /\ ramMask' = [ramMask EXCEPT ![r] = cut.ram]
    /\ pc' = [pc EXCEPT ![r] = "forward"]
    /\ UNCHANGED <<gpuMask, slotOf, weights, scratch, staged, skip,
                   cut, drop, add, failures>>

(* Faulty variant: the CPU kernel keeps the old skip mask.                 *)
RamLeadStaleSkip ==
    /\ pc[0] = "ram"
    /\ ramMask' = [ramMask EXCEPT ![0] = cut.ram]
    /\ drop' = ramMask[0] \ cut.ram
    /\ add' = cut.ram \ ramMask[0]
    /\ pc' = [pc EXCEPT ![0] = "move"]
    /\ UNCHANGED <<gpuMask, slotOf, weights, scratch, staged, skip, cut, failures>>

(* Rank 0 replaces the mask, hands its complement to the CPU kernel, and   *)
(* then works off the evictions and the promotions.                        *)
RamLead ==
    /\ pc[0] = "ram"
    /\ ramMask' = [ramMask EXCEPT ![0] = cut.ram]
    /\ skip' = SkipMask(gpuMask[0], cut.ram)
    /\ drop' = ramMask[0] \ cut.ram
    /\ add' = cut.ram \ ramMask[0]
    /\ pc' = [pc EXCEPT ![0] = "move"]
    /\ UNCHANGED <<gpuMask, slotOf, weights, scratch, staged, cut, failures>>

(* Faulty variant: the evicted expert stays on the list.                   *)
EvictAgain(e) ==
    /\ pc[0] = "move" /\ e \in drop
    /\ staged' = staged \ {e}
    /\ UNCHANGED <<gpuMask, ramMask, slotOf, weights, scratch, skip,
                   pc, cut, drop, add, failures>>

(* evict_expert releases the expert's pages, or raises and is logged.      *)
Evict(e) ==
    /\ pc[0] = "move" /\ e \in drop
    /\ staged' = staged \ {e}
    /\ drop' = drop \ {e}
    /\ UNCHANGED <<gpuMask, ramMask, slotOf, weights, scratch, skip,
                   pc, cut, add, failures>>

EvictFails(e) ==
    /\ pc[0] = "move" /\ e \in drop
    /\ failures < MaxFailures
    /\ failures' = failures + 1
    /\ drop' = drop \ {e}
    /\ UNCHANGED <<residencyVars, pc, cut, add>>

(* Faulty variant: promotions do not wait for the evictions.               *)
PromoteFirst(e) ==
    /\ pc[0] = "move" /\ e \in add
    /\ staged' = staged \cup {e}
    /\ add' = add \ {e}
    /\ UNCHANGED <<gpuMask, ramMask, slotOf, weights, scratch, skip,
                   pc, cut, drop, failures>>

(* promote_expert reads the expert (or takes the prefetched weights) and   *)
(* stages it.  An expert that could not be promoted is no longer           *)
(* advertised by rank 0.                                                   *)
Promote(e) ==
    /\ pc[0] = "move" /\ drop = {} /\ e \in add
    /\ staged' = staged \cup {e}
    /\ add' = add \ {e}
    /\ UNCHANGED <<gpuMask, ramMask, slotOf, weights, scratch, skip,
                   pc, cut, drop, failures>>

(* Faulty variant: the failure is logged and nothing else.                 *)
PromoteFailsAdvertised(e) ==
    /\ pc[0] = "move" /\ drop = {} /\ e \in add
    /\ failures < MaxFailures
    /\ failures' = failures + 1
    /\ add' = add \ {e}
    /\ UNCHANGED <<residencyVars, pc, cut, drop>>

PromoteFails(e) ==
    /\ pc[0] = "move" /\ drop = {} /\ e \in add
    /\ failures < MaxFailures
    /\ failures' = failures + 1
    /\ ramMask' = [ramMask EXCEPT ![0] = @ \ {e}]
    /\ skip' = SkipMask(gpuMask[0], ramMask'[0])
    /\ add' = add \ {e}
    /\ UNCHANGED <<gpuMask, slotOf, weights, scratch, staged, pc, cut, drop>>

Moved ==
    /\ pc[0] = "move" /\ drop = {} /\ add = {}
    /\ pc' = [pc EXCEPT ![0] = "forward"]
    /\ UNCHANGED <<residencyVars, cut, drop, add, failures>>

Move == \/ \E e \in Expert : Evict(e) \/ Promote(e)
        \/ Moved

Fail == \E e \in Expert : EvictFails(e) \/ PromoteFails(e)

Step ==
    \/ Forward \/ Decide \/ LoadNarrow \/ LoadFull \/ RamLead \/ Move
    \/ \E r \in Rank : Receive(r) \/ ApplyGpu(r) \/ RamFollow(r)

Next == Step \/ Fail

(* The forward thread of every rank runs on: some rank takes a step as     *)
(* long as one is possible.  Nothing says that a move ever fails.          *)
Fairness == WF_vars(Step)

Spec == Init /\ [][Next]_vars
FairSpec == Spec /\ Fairness

----------------------------------------------------------------------------
(* Properties.                                                             *)

AtForward == \A r \in Rank : pc[r] = "forward"

(* When a forward of kt_ep_wrapper.apply starts, the ranks agree on which  *)
(* experts the router may keep; each of those is computed exactly once, by *)
(* the GPU shards or by the CPU, with its own weights; and an SSD-tier     *)
(* expert is computed by nobody.  A failed promotion ends this agreement.  *)
CoherentForward == AtForward /\ failures = 0 => Coherent

(* Every resident expert has a slot that holds its own weights, at every   *)
(* point of the tick: a graph replay never reads stale bytes               *)
(* (_apply_expert_selection, _apply_expert_selection_incremental).         *)
GpuSlotsCorrect == SlotsHoldTheirExperts

(* No forward lets the CPU kernel compute an expert that has no weights in *)
(* the CPU store, failed evictions and promotions included.                *)
CpuNeverReadsUnstaged == AtForward => NoUnstagedCompute

(* Evictions come before promotions, so the CPU store never holds more     *)
(* than KT_RAM_EXPERTS experts, also in the middle of a tick, as long as   *)
(* no eviction fails.                                                      *)
RamBudget == failures = 0 => Cardinality(staged) <= NRam

(* An expert enters a rank's GPU tier only out of its RAM tier: an SSD-tier *)
(* expert is promoted to RAM first and climbs on a later tick, so that the *)
(* source of every restage is staged.                                      *)
GpuDrawsFromRam ==
    [][\A r \in Rank : gpuMask'[r] \ gpuMask[r] \subseteq ramMask[r]]_vars

(* The receive buffers of the RAM broadcast have the size rank 0 sends: a  *)
(* tick reaches the same collectives on every rank.                        *)
BroadcastSizesAgree ==
    \A r \in Rank : pc[r] = "tick" /\ pc[0] # "tick" =>
        RamSize(r) = Cardinality(cut.ram)

(* A tick that starts ends, unless a move fails: no rank is left alone in  *)
(* a collective of _kt_tier_update_layer.                                  *)
TickEnds ==
    (failures = 0 /\ \A r \in Rank : pc[r] = "tick")
        ~> (AtForward \/ failures > 0)
=============================================================================
