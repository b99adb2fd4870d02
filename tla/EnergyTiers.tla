---------------------------- MODULE EnergyTiers ----------------------------
(***************************************************************************)
(* The energy-driven mover of the three-tier store                         *)
(* (kt_energy_on_decode_step) on one layer.  There is no broadcast: every  *)
(* rank computes the decision by itself, from an energy that is the same   *)
(* on all ranks and from its own masks.  Rank 0 moves an expert into the   *)
(* CPU store only when the background thread has already read it, and the  *)
(* move may fail.                                                          *)
(*                                                                         *)
(* A layer that the global budget of moves leaves out does nothing in that *)
(* tick, on any rank: for the residency, the same as a tick with energies  *)
(* that make no move worth it.                                             *)
(*                                                                         *)
(* Energies are small naturals, a margin is a rational <<num, den>>.       *)
(* argmax, argmin and argsort break ties in some fixed way: CHOOSE.        *)
(***************************************************************************)
EXTENDS Residency, FiniteSetsExt

CONSTANTS
    NRam,        \* KT_RAM_EXPERTS
    MaxEnergy,   \* bound on an expert's energy
    Margin,      \* KT_ENERGY_MARGIN
    GpuMargin,   \* KT_ENERGY_GPU_MARGIN
    GpuEnabled,  \* KT_ENERGY_GPU
    MaxMisses,   \* bound on the prefetch misses of a run
    MaxFailures  \* bound on the failing moves of a run

EnergyAssumption ==
    /\ TierEnabled
    /\ {NRam, MaxEnergy, MaxMisses, MaxFailures} \subseteq Nat
    /\ {Margin, GpuMargin} \subseteq Nat \X (Nat \ {0})
    /\ GpuEnabled \in BOOLEAN
    /\ NGpu > 0 /\ NGpu + NRam <= Cardinality(Expert)

VARIABLES
    pc,        \* pc[r]: where rank r is in its step
    energy,    \* E of the tick, the same on every rank
    plan,      \* plan[r]: the decisions of rank r
    misses,    \* prefetch misses so far
    failures   \* failed moves so far

vars == <<residencyVars, pc, energy, plan, misses, failures>>
boundVars == <<misses, failures>>

Plans == [move : BOOLEAN, up : Expert, down : Expert, gpu : BOOLEAN]

TypeOK ==
    /\ ResidencyTypeOK
    /\ pc \in [Rank -> {"forward", "decide", "ram", "gpu", "load", "full"}]
    /\ energy \in [Expert -> 0 .. MaxEnergy]
    /\ plan \in [Rank -> Plans]
    /\ misses \in 0 .. MaxMisses
    /\ failures \in 0 .. MaxFailures

----------------------------------------------------------------------------

Hottest(S) == CHOOSE x \in S : \A y \in S : energy[x] >= energy[y]
Coldest(S) == CHOOSE x \in S : \A y \in S : energy[x] <= energy[y]

(* The n hottest of S, or all of S when it has fewer.                      *)
HottestOf(S, n) ==
    CHOOSE T \in kSubset(Min({n, Cardinality(S)}), S) :
        \A x \in T, y \in S \ T : energy[x] >= energy[y]

(* _kt_energy_worth_moving: a ratio margin and a floor of one mean energy. *)
WorthMoving(ch, inc, margin) ==
    /\ energy[ch] * margin[2] > margin[1] * energy[inc]
    /\ energy[ch] >= energy[inc]
    /\ (energy[ch] - energy[inc]) * Cardinality(Expert)
           >= SumFunction(energy)

Ssd(r) == Expert \ (gpuMask[r] \cup ramMask[r])

AnyExpert == CHOOSE e \in Expert : TRUE
NoPlan == [move |-> FALSE, up |-> AnyExpert, down |-> AnyExpert, gpu |-> FALSE]

(* The decision pass of rank r over this layer.                            *)
PlanOf(r) ==
    IF Ssd(r) = {} \/ ramMask[r] = {} THEN NoPlan
    ELSE LET up   == Hottest(Ssd(r))
             down == Coldest(ramMask[r])
         IN  [move |-> WorthMoving(up, down, Margin), up |-> up, down |-> down,
              gpu |-> /\ GpuEnabled
                      /\ WorthMoving(Hottest(ramMask[r]), Coldest(gpuMask[r]),
                                     GpuMargin)]

----------------------------------------------------------------------------

Init ==
    /\ \E gpu \in kSubset(NGpu, Expert) : \E ram \in kSubset(NRam, Expert \ gpu) :
          ResidencyInit(gpu, ram)
    /\ pc = [r \in Rank |-> "forward"]
    /\ energy = [e \in Expert |-> 0]
    /\ plan = [r \in Rank |-> NoPlan]
    /\ misses = 0 /\ failures = 0

(* A forward updates the energies; its all-reduce brings all ranks along.  *)
(* The plans are locals of one tick, and the scratch layer is shared by    *)
(* all layers: by the next tick another one has used it.                   *)
Forward ==
    /\ \A r \in Rank : pc[r] = "forward"
    /\ energy' \in [Expert -> 0 .. MaxEnergy]
    /\ plan' = [r \in Rank |-> NoPlan]
    /\ scratch' = [r \in Rank |-> [e \in Expert |-> Garbage]]
    /\ pc' = [r \in Rank |-> "decide"]
    /\ UNCHANGED <<gpuMask, ramMask, slotOf, weights, staged, skip, boundVars>>

Decide(r) ==
    /\ pc[r] = "decide"
    /\ plan' = [plan EXCEPT ![r] = PlanOf(r)]
    /\ pc' = [pc EXCEPT ![r] = "ram"]
    /\ UNCHANGED <<residencyVars, energy, boundVars>>

(* No promotion is worth it on this layer.                                 *)
NoMove(r) ==
    /\ pc[r] = "ram" /\ ~plan[r].move
    /\ pc' = [pc EXCEPT ![r] = "gpu"]
    /\ UNCHANGED <<residencyVars, energy, plan, boundVars>>

Swapped(r) == (ramMask[r] \ {plan[r].down}) \cup {plan[r].up}

(* The other ranks replay the move on their masks.                         *)
FollowMove(r) ==
    /\ r # 0 /\ pc[r] = "ram" /\ plan[r].move
    /\ ramMask' = [ramMask EXCEPT ![r] = Swapped(r)]
    /\ pc' = [pc EXCEPT ![r] = "gpu"]
    /\ UNCHANGED <<gpuMask, slotOf, weights, scratch, staged, skip,
                   energy, plan, boundVars>>

(* Faulty variant: the CPU kernel keeps its skip mask.                     *)
LeadMoveStaleSkip ==
    /\ pc[0] = "ram" /\ plan[0].move
    /\ ramMask' = [ramMask EXCEPT ![0] = Swapped(0)]
    /\ staged' = (staged \ {plan[0].down}) \cup {plan[0].up}
    /\ pc' = [pc EXCEPT ![0] = "gpu"]
    /\ UNCHANGED <<gpuMask, slotOf, weights, scratch, skip, energy, plan, boundVars>>

(* Rank 0 holds the weights: evict one expert, stage the other.            *)
LeadMove ==
    /\ pc[0] = "ram" /\ plan[0].move
    /\ ramMask' = [ramMask EXCEPT ![0] = Swapped(0)]
    /\ skip' = SkipMask(gpuMask[0], Swapped(0))
    /\ staged' = (staged \ {plan[0].down}) \cup {plan[0].up}
    /\ pc' = [pc EXCEPT ![0] = "gpu"]
    /\ UNCHANGED <<gpuMask, slotOf, weights, scratch, energy, plan, boundVars>>

(* The background thread has not read the expert yet: rank 0 moves on.     *)
LeadMiss ==
    /\ pc[0] = "ram" /\ plan[0].move
    /\ misses < MaxMisses
    /\ misses' = misses + 1
    /\ pc' = [pc EXCEPT ![0] = "gpu"]
    /\ UNCHANGED <<residencyVars, energy, plan, failures>>

(* evict_expert raises, or stage_expert does after the eviction: the       *)
(* evicted expert stays masked out and the promoted one is not advertised. *)
LeadFails ==
    /\ pc[0] = "ram" /\ plan[0].move
    /\ failures < MaxFailures
    /\ failures' = failures + 1
    /\ ramMask' = [ramMask EXCEPT ![0] = @ \ {plan[0].down}]
    /\ skip' = SkipMask(gpuMask[0], ramMask'[0])
    /\ staged' \in {staged, staged \ {plan[0].down}}
    /\ pc' = [pc EXCEPT ![0] = "gpu"]
    /\ UNCHANGED <<gpuMask, slotOf, weights, scratch, energy, plan, misses>>

(* The GPU set is re-cut from what is resident on the GPU or in RAM now.   *)
GpuSelection(r) == HottestOf(gpuMask[r] \cup ramMask[r], NGpu)

GpuDecide(r) ==
    /\ pc[r] = "gpu"
    /\ pc' = [pc EXCEPT ![r] =
                 IF plan[r].gpu /\ GpuSelection(r) # gpuMask[r]
                 THEN "load" ELSE "forward"]
    /\ UNCHANGED <<residencyVars, energy, plan, boundVars>>

(* The load streams all experts; all ranks take part in its barriers.      *)
LoadFull ==
    /\ \A r \in Rank : pc[r] = "load"
    /\ scratch' = [r \in Rank |-> FullScratch(r)]
    /\ pc' = [r \in Rank |-> "full"]
    /\ UNCHANGED <<gpuMask, ramMask, slotOf, weights, staged, skip,
                   energy, plan, boundVars>>

(* The restage flips the GPU tables; it does not touch the RAM mask.       *)
Restage(r) ==
    /\ pc[r] = "full"
    /\ ApplyFull(r, GpuSelection(r))
    /\ pc' = [pc EXCEPT ![r] = "forward"]
    /\ UNCHANGED <<ramMask, scratch, staged, energy, plan, boundVars>>

Next ==
    \/ Forward \/ LeadMove \/ LeadMiss \/ LeadFails \/ LoadFull
    \/ \E r \in Rank : \/ Decide(r) \/ NoMove(r) \/ FollowMove(r)
                       \/ GpuDecide(r) \/ Restage(r)

Spec == Init /\ [][Next]_vars

----------------------------------------------------------------------------
(* Properties.                                                             *)

AtForward == \A r \in Rank : pc[r] = "forward"

(* No move was missed or failed so far.                                    *)
Undisturbed == misses = 0 /\ failures = 0

(* A restage leaves the experts it promotes in the RAM mask.               *)
Disjoint == \A r \in Rank : gpuMask[r] \cap ramMask[r] = {}

(* When a forward starts, the ranks agree on the reachable experts, each   *)
(* of those is computed once with its own weights, and no other one is     *)
(* computed: as long as every move of kt_energy_on_decode_step succeeded   *)
(* and no expert is left in two tiers.                                     *)
CoherentForward == AtForward /\ Undisturbed /\ Disjoint => Coherent

(* A resident expert's slot on rank 0 holds its weights, restage after     *)
(* restage, whichever moves were missed or failed; on the other ranks as   *)
(* long as none was (the restage by _apply_expert_selection).              *)
GpuSlotsCorrect ==
    \A r \in Rank : r = 0 \/ Undisturbed =>
        \A e \in gpuMask[r] : GpuReads(r, e) = e

(* The CPU kernel never computes an expert that is not in the CPU store,   *)
(* whichever moves were missed or failed.                                  *)
CpuNeverReadsUnstaged == AtForward => NoUnstagedCompute

(* Promotions and evictions are paired, so that the RAM budget is never    *)
(* exceeded, also when one half of a move fails.                           *)
RamBudget == Cardinality(staged) <= NRam

(* Under the energy mover a forward reads only weights that are there,     *)
(* within the RAM budget, whichever move is missed or fails, and computes  *)
(* each reachable expert once with its own weights until one is.           *)
EnergyServes == CoherentForward /\ GpuSlotsCorrect /\ CpuNeverReadsUnstaged /\ RamBudget
=============================================================================
