----------------------------- MODULE TierPolicy -----------------------------
(***************************************************************************)
(* _kt_tier_select, one demand ranking cut twice (the hottest experts to    *)
(* VRAM, the next to host RAM, the tail on SSD), and                        *)
(* the selector applied tick after tick to its own result, the loop         *)
(* that decides what a server that runs for hours does: whether the tiers  *)
(* keep their shape, whether a tick can lose coverage, and whether the     *)
(* movement stops when the demand does not change.                         *)
(*                                                                         *)
(* The demand is fixed during a behaviour.  A behaviour starts from any    *)
(* counters and any tiers of the right sizes, so one that starts after the *)
(* demand has changed is covered as well.                                  *)
(***************************************************************************)
EXTENDS PairSwap

CONSTANTS
    MinEvents,    \* KT_ADAPTIVE_MIN_EVENTS
    MinGain,      \* KT_ADAPTIVE_MIN_GAIN, a share of the total mass
    Margin,       \* KT_ADAPTIVE_MARGIN
    RamMargin,    \* KT_TIER_RAM_MARGIN
    RamMinGain,   \* KT_TIER_RAM_MIN_GAIN
    MaxPromote,   \* KT_TIER_MAX_PROMOTE
    MaxRamMove    \* KT_TIER_MAX_RAM_MOVE

ASSUME SelectAssumption ==
    /\ {Margin, RamMargin, MinGain, RamMinGain} \subseteq Ratio
    /\ {MinEvents, MaxPromote, MaxRamMove} \subseteq Nat

(* The RAM set brought to exactly n members: the weakest are trimmed, or   *)
(* the best of the pool fill it up.                                        *)
Resize(counts, ram, pool, n) ==
    LET size == Cardinality(ram)
    IN  IF size > n
        THEN {ram \ First(o, size - n) : o \in WeakestFirst(counts, ram)}
        ELSE {ram \cup First(o, Min({n - size, Cardinality(pool \ ram)})) :
                o \in HottestFirst(counts, pool \ ram)}

(* Faulty variant: arrivals on the GPU are drawn from all tiers.           *)
SelectTiersFromSsd(counts, gpu, ram, nRam) ==
    UNION { LET pool == Expert \ newGpu
                cur  == (ram \cap pool) \cup (gpu \ newGpu)
            IN  UNION { { [gpu |-> newGpu, ram |-> newRam] :
                            newRam \in SwapIn(counts, sized, pool \ sized,
                                              MaxRamMove, RamMargin, RamMinGain) } :
                        sized \in Resize(counts, cur, pool, nRam) } :
            newGpu \in SwapIn(counts, gpu, Expert \ gpu, MaxPromote, Margin, MinGain) }

(* _kt_tier_select.  Step 1: the GPU tier, challenged by the current RAM   *)
(* tier only.  Step 2: the RAM tier; everything not on the GPU competes,   *)
(* the experts that were just demoted included.                            *)
SelectTiers(counts, gpu, ram, nRam) ==
    UNION { LET pool == Expert \ newGpu
                cur  == (ram \cap pool) \cup (gpu \ newGpu)
            IN  UNION { { [gpu |-> newGpu, ram |-> newRam] :
                            newRam \in SwapIn(counts, sized, pool \ sized,
                                              MaxRamMove, RamMargin, RamMinGain) } :
                        sized \in Resize(counts, cur, pool, nRam) } :
            newGpu \in SwapIn(counts, gpu, ram, MaxPromote, Margin, MinGain) }

(* The decision of rank 0 in _kt_tier_update_layer: a cold counter leaves  *)
(* the layer alone.                                                        *)
TierDecision(counts, gpu, ram, nRam) ==
    IF Total(counts) < MinEvents THEN {[gpu |-> gpu, ram |-> ram]}
    ELSE SelectTiers(counts, gpu, ram, nRam)

CONSTANTS
    NGpu,        \* GPU slots
    NRam,        \* KT_RAM_EXPERTS
    MaxCount     \* bound on a demand counter

ASSUME PolicyAssumption ==
    /\ {NGpu, NRam, MaxCount} \subseteq Nat
    /\ NGpu + NRam <= Cardinality(Expert)

VARIABLES
    counts,   \* the layer's top-2 demand counters
    gpu,      \* GPU tier
    ram       \* RAM tier

vars == <<counts, gpu, ram>>

TypeOK ==
    /\ counts \in [Expert -> 0 .. MaxCount]
    /\ gpu \in kSubset(NGpu, Expert)
    /\ ram \in kSubset(NRam, Expert \ gpu)

Init ==
    /\ counts \in [Expert -> 0 .. MaxCount]
    /\ gpu \in kSubset(NGpu, Expert)
    /\ ram \in kSubset(NRam, Expert \ gpu)

Tick ==
    /\ \E d \in TierDecision(counts, gpu, ram, Cardinality(ram)) :
          /\ gpu' = d.gpu
          /\ ram' = d.ram
    /\ UNCHANGED counts

Next == Tick

Spec == Init /\ [][Next]_vars

(* The layer is visited again and again: the registry is walked round-robin.*)
FairSpec == Spec /\ WF_vars(Tick)

----------------------------------------------------------------------------
(* Properties.                                                             *)

(* Every tick keeps the contract the mover relies on: exact sizes, disjoint *)
(* tiers, GPU arrivals out of the RAM tier, at most KT_TIER_MAX_PROMOTE.   *)
KeepsContract ==
    [][[gpu |-> gpu', ram |-> ram'] \in TierCuts(Expert, gpu, ram, MaxPromote)]_vars

(* The ranking has no pair left to swap, across either cut.                *)
Settled ==
    /\ \A ch \in ram, out \in gpu : ~Wins(counts, ch, out, Margin, MinGain)
    /\ \A ch \in Expert \ (gpu \cup ram), out \in ram :
          ~Wins(counts, ch, out, RamMargin, RamMinGain)

(* Stable demand stops the movement: repeated ticks quiesce, and at rest   *)
(* the tiers are the two cuts of the ranking, up to the hysteresis.        *)
Quiesces ==
    /\ <>[][UNCHANGED <<gpu, ram>>]_vars
    /\ <>[](Total(counts) >= MinEvents => Settled)

=============================================================================
