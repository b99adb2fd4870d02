--------------------------- MODULE ExpertsProofs ---------------------------
(* Proofs about the energy-driven mover, for any number of ranks, experts,  *)
(* slots, energies, misses and failures, about the scratch layer, for any   *)
(* layers, experts and formats, about the slot prefetch, for any experts,   *)
(* slots and depth of the queues, about the lookahead predictor, for any    *)
(* layers, settings and passes, and about the substitution of a token's     *)
(* experts, for any experts, slots and weights.                             *)
EXTENDS MCExperts, Sequences, FiniteSetTheorems, WellFoundedInduction, TLAPS

-----------------------------------------------------------------------------
(* The energy-driven mover (EnergyTiers). Hottest and coldest exist.        *)

(* A set of subsets of a finite set has one that contains no other.         *)
LEMMA MinimalSubset ==
    ASSUME NEW S, IsFiniteSet(S), NEW T \in SUBSET SUBSET S, T # {}
    PROVE  \E X \in T : \A Y \in T : Y \subseteq X => Y = X
<1> DEFINE R == StrictSubsetOrdering(S)
<1>1. IsWellFoundedOn(R, FiniteSubsetsOf(S)) /\ T \subseteq FiniteSubsetsOf(S)
  BY FS_StrictSubsetOrderingWellFounded, FS_FiniteSubsetsOfFinite
<1> HIDE DEF R
<1>2. PICK X \in T : \A Y \in T : ~ (<<Y, X>> \in R)
  BY <1>1, WFMin
<1>3. ASSUME NEW Y \in T, Y \subseteq X, Y # X PROVE <<Y, X>> \in R
  <2>1. Y \in SUBSET S /\ X \in SUBSET S
    OBVIOUS
  <2> QED
    BY <1>3, <2>1 DEF R, StrictSubsetOrdering
<1>4. ASSUME NEW Y \in T, Y \subseteq X PROVE Y = X
  BY <1>2, <1>3, <1>4
<1> QED
  BY <1>4

LEMMA ExpertsAreFinite ==
    ASSUME NEW S \in SUBSET Expert
    PROVE  IsFiniteSet(S) /\ Cardinality(S) \in Nat
BY ResidencyAssumption, FS_Subset, FS_CardinalityType

LEMMA HottestExists ==
    ASSUME energy \in [Expert -> Nat], NEW S \in SUBSET Expert, S # {}
    PROVE  \E x \in S : \A y \in S : energy[x] >= energy[y]
<1> DEFINE T == {X \in SUBSET S : X # {} /\ ~ \E x \in X : \A y \in X : energy[x] >= energy[y]}
<1>1. SUFFICES ASSUME T # {} PROVE FALSE
  OBVIOUS
<1>2. PICK X \in T : \A Y \in T : Y \subseteq X => Y = X
  <2>1. IsFiniteSet(S) /\ T \in SUBSET SUBSET S
    BY ExpertsAreFinite
  <2> HIDE DEF T
  <2> QED
    BY <1>1, <2>1, MinimalSubset
<1>3. PICK e \in X : TRUE
  BY <1>2
<1>4. X \ {e} \notin T
  BY <1>2, <1>3
<1>5. CASE X \ {e} = {}
  BY <1>2, <1>3, <1>5
<1>6. CASE X \ {e} # {}
  <2>1. PICK m \in X \ {e} : \A y \in X \ {e} : energy[m] >= energy[y]
    BY <1>2, <1>4, <1>6
  <2>2. m \in Expert /\ e \in Expert /\ X \subseteq Expert
    BY <1>2, <1>3
  <2>3. CASE energy[m] >= energy[e]
    BY <1>2, <2>1, <2>2, <2>3
  <2>4. CASE energy[e] >= energy[m]
    <3>1. \A y \in X : energy[e] >= energy[y]
      BY <2>1, <2>2, <2>4
    <3> QED
      BY <1>2, <1>3, <3>1
  <2> QED
    BY <2>2, <2>3, <2>4
<1> QED
  BY <1>5, <1>6

LEMMA ColdestExists ==
    ASSUME energy \in [Expert -> Nat], NEW S \in SUBSET Expert, S # {}
    PROVE  \E x \in S : \A y \in S : energy[x] <= energy[y]
<1> DEFINE T == {X \in SUBSET S : X # {} /\ ~ \E x \in X : \A y \in X : energy[x] <= energy[y]}
<1>1. SUFFICES ASSUME T # {} PROVE FALSE
  OBVIOUS
<1>2. PICK X \in T : \A Y \in T : Y \subseteq X => Y = X
  <2>1. IsFiniteSet(S) /\ T \in SUBSET SUBSET S
    BY ExpertsAreFinite
  <2> HIDE DEF T
  <2> QED
    BY <1>1, <2>1, MinimalSubset
<1>3. PICK e \in X : TRUE
  BY <1>2
<1>4. X \ {e} \notin T
  BY <1>2, <1>3
<1>5. CASE X \ {e} = {}
  BY <1>2, <1>3, <1>5
<1>6. CASE X \ {e} # {}
  <2>1. PICK m \in X \ {e} : \A y \in X \ {e} : energy[m] <= energy[y]
    BY <1>2, <1>4, <1>6
  <2>2. m \in Expert /\ e \in Expert /\ X \subseteq Expert
    BY <1>2, <1>3
  <2>3. CASE energy[m] <= energy[e]
    BY <1>2, <2>1, <2>2, <2>3
  <2>4. CASE energy[e] <= energy[m]
    <3>1. \A y \in X : energy[e] <= energy[y]
      BY <2>1, <2>2, <2>4
    <3> QED
      BY <1>2, <1>3, <3>1
  <2> QED
    BY <2>2, <2>3, <2>4
<1> QED
  BY <1>5, <1>6

(* The n hottest exist, whatever the ties.                                  *)
LEMMA HottestOfFacts ==
    ASSUME energy \in [Expert -> Nat], NEW S \in SUBSET Expert, NEW n \in Nat
    PROVE  HottestOf(S, n) \subseteq S
<1> DEFINE k == Min({n, Cardinality(S)})
           U == {X \in SUBSET S : Cardinality(X) >= k /\ \A x \in X, y \in S \ X : energy[x] >= energy[y]}
<1>1. Cardinality(S) \in Nat
  BY ExpertsAreFinite
<1>2. k \in Nat /\ k <= Cardinality(S)
  BY <1>1 DEF Min
<1> HIDE DEF k
<1>3. S \in U
  BY <1>1, <1>2
<1>4. PICK X \in U : \A Y \in U : Y \subseteq X => Y = X
  <2>1. IsFiniteSet(S) /\ U \in SUBSET SUBSET S /\ U # {}
    BY <1>3, ExpertsAreFinite
  <2> HIDE DEF U
  <2> QED
    BY <2>1, MinimalSubset
<1>5. X \in SUBSET Expert /\ Cardinality(X) \in Nat /\ IsFiniteSet(X)
  BY <1>4, ExpertsAreFinite
<1>6. Cardinality(X) = k
  <2> SUFFICES ASSUME Cardinality(X) > k PROVE FALSE
    BY <1>2, <1>4, <1>5
  <2>1. X # {}
    BY <1>2, FS_EmptySet
  <2>2. PICK e \in X : \A y \in X : energy[e] <= energy[y]
    BY <1>5, <2>1, ColdestExists
  <2>3. Cardinality(X \ {e}) >= k
    <3>1. Cardinality(X \ {e}) = Cardinality(X) - 1
      BY <1>5, <2>2, FS_RemoveElement
    <3> QED
      BY <1>2, <1>5, <3>1
  <2>4. ASSUME NEW x \in X \ {e}, NEW y \in S \ (X \ {e}) PROVE energy[x] >= energy[y]
    BY <1>4, <1>5, <2>2
  <2>5. X \ {e} \in U
    BY <1>4, <2>3, <2>4
  <2> QED
    BY <1>4, <2>2, <2>5
<1>7. \E T \in kSubset(k, S) : \A x \in T, y \in S \ T : energy[x] >= energy[y]
  BY <1>4, <1>6 DEF kSubset
<1>8. HottestOf(S, n) \in kSubset(k, S)
  BY <1>7 DEF HottestOf, k
<1> QED
  BY <1>8 DEF kSubset

-----------------------------------------------------------------------------
(* The inductive invariant.                                                 *)

(* A rank decides on its present masks and on this tick's energies.         *)
PlansAreFresh == \A r \in Rank : pc[r] = "ram" => plan[r] = PlanOf(r)

(* The CPU skips what rank 0 does not list, and the store holds what rank 0 *)
(* lists and no more than its budget.                                       *)
StoreMatches ==
    /\ skip = Expert \ ramMask[0] /\ ramMask[0] \subseteq staged
    /\ IsFiniteSet(staged) /\ Cardinality(staged) <= NRam

(* The ranks that must be right: rank 0 always, all of them until a move is *)
(* missed or fails.                                                         *)
Sound(r) == r = 0 \/ Undisturbed

SlotsMatch ==
    \A r \in Rank : \A e \in gpuMask[r] :
        /\ slotOf[r][e] \in Slot
        /\ Sound(r) => weights[r][slotOf[r][e]] = e

ScratchMatches ==
    \A r \in Rank : pc[r] = "full" /\ Sound(r) =>
        \A e \in gpuMask[r] \cup ramMask[r] : scratch[r][e] = e

(* A load holds every rank back until it is over.                           *)
LoadIsBarrier ==
    (\E r \in Rank : pc[r] = "full") => \A r \in Rank : pc[r] \in {"full", "forward"}

(* Until a move is missed or fails: the ranks with the move behind them are *)
(* where the others are going, and so are the ones that have restaged.      *)
BeforeMove(r) == pc[r] \in {"decide", "ram"}
NextRam(r) == IF PlanOf(r).move THEN (ramMask[r] \ {PlanOf(r).down}) \cup {PlanOf(r).up}
                                ELSE ramMask[r]

RamInStep ==
    \A r, q \in Rank :
        /\ (BeforeMove(r) <=> BeforeMove(q)) => ramMask[r] = ramMask[q]
        /\ BeforeMove(r) /\ ~BeforeMove(q) => ramMask[q] = NextRam(r)
GpuInStep ==
    \A r, q \in Rank :
        /\ (pc[r] = "full" <=> pc[q] = "full") => gpuMask[r] = gpuMask[q]
        /\ pc[r] = "full" /\ pc[q] # "full" => gpuMask[q] = GpuSelection(r)

InStep == Undisturbed => RamInStep /\ GpuInStep

EnergyInv ==
    /\ TypeOK /\ PlansAreFresh /\ StoreMatches
    /\ SlotsMatch /\ ScratchMatches /\ LoadIsBarrier /\ InStep

-----------------------------------------------------------------------------
(* The decisions.                                                           *)

LEMMA ExpertsExist == ASSUME EnergyAssumption PROVE Expert # {} /\ AnyExpert \in Expert /\ NoPlan \in Plans
<1>1. Expert # {}
  BY ResidencyAssumption, FS_EmptySet DEF EnergyAssumption
<1> QED
  BY <1>1 DEF AnyExpert, NoPlan, Plans

LEMMA EnergiesAreNaturals == ASSUME TypeOK PROVE energy \in [Expert -> Nat]
BY DEF TypeOK

(* A plan swaps an expert in the RAM tier for one that is in no tier.       *)
LEMMA PlanOfFacts ==
    ASSUME EnergyAssumption, TypeOK, NEW r \in Rank
    PROVE  /\ PlanOf(r) \in Plans
           /\ PlanOf(r).move => PlanOf(r).down \in ramMask[r] /\ PlanOf(r).up \in Ssd(r)
<1>1. CASE Ssd(r) = {} \/ ramMask[r] = {}
  BY <1>1, ExpertsExist DEF PlanOf, NoPlan
<1>2. CASE Ssd(r) # {} /\ ramMask[r] # {}
  <2>1. Ssd(r) \in SUBSET Expert /\ ramMask[r] \in SUBSET Expert
    BY DEF Ssd, TypeOK, ResidencyTypeOK
  <2>2. Hottest(Ssd(r)) \in Ssd(r)
    BY <1>2, <2>1, EnergiesAreNaturals, HottestExists DEF Hottest
  <2>3. Coldest(ramMask[r]) \in ramMask[r]
    BY <1>2, <2>1, EnergiesAreNaturals, ColdestExists DEF Coldest
  <2>4. ASSUME NEW ch, NEW inc, NEW m PROVE WorthMoving(ch, inc, m) \in BOOLEAN
    BY DEF WorthMoving
  <2>5. \A b : (GpuEnabled /\ b) \in BOOLEAN
    BY DEF EnergyAssumption
  <2> QED
    BY <1>2, <2>1, <2>2, <2>3, <2>4, <2>5 DEF PlanOf, Plans
<1> QED
  BY <1>1, <1>2

LEMMA SelectionFacts ==
    ASSUME EnergyAssumption, TypeOK, NEW r \in Rank
    PROVE  GpuSelection(r) \subseteq gpuMask[r] \cup ramMask[r] /\ GpuSelection(r) \in SUBSET Expert
<1>1. gpuMask[r] \cup ramMask[r] \in SUBSET Expert
  BY DEF TypeOK, ResidencyTypeOK
<1>2. HottestOf(gpuMask[r] \cup ramMask[r], NGpu) \subseteq gpuMask[r] \cup ramMask[r]
  BY <1>1, EnergiesAreNaturals, HottestOfFacts, ResidencyAssumption
<1> QED
  BY <1>1, <1>2 DEF GpuSelection

(* Ranks with the same masks take the same decisions.                       *)
LEMMA SameChoices ==
    ASSUME NEW r, NEW q, gpuMask[r] = gpuMask[q], ramMask[r] = ramMask[q]
    PROVE  PlanOf(r) = PlanOf(q) /\ GpuSelection(r) = GpuSelection(q) /\ NextRam(r) = NextRam(q)
<1>1. PlanOf(r) = PlanOf(q)
  BY DEF PlanOf, Ssd
<1>2. GpuSelection(r) = GpuSelection(q)
  BY DEF GpuSelection
<1> QED
  BY <1>1, <1>2 DEF NextRam

(* And a rank decides the same as long as its masks stay.                   *)
LEMMA ChoicesStay ==
    ASSUME NEW r, UNCHANGED <<energy, gpuMask[r], ramMask[r]>>
    PROVE  PlanOf(r)' = PlanOf(r) /\ GpuSelection(r)' = GpuSelection(r) /\ NextRam(r)' = NextRam(r)
<1>1. ASSUME NEW S PROVE Hottest(S)' = Hottest(S) /\ Coldest(S)' = Coldest(S)
  BY DEF Hottest, Coldest
<1>2. ASSUME NEW S, NEW n PROVE HottestOf(S, n)' = HottestOf(S, n)
  BY DEF HottestOf
<1>3. ASSUME NEW a, NEW b, NEW m PROVE WorthMoving(a, b, m)' = WorthMoving(a, b, m)
  BY DEF WorthMoving
<1>4. PlanOf(r)' = PlanOf(r)
  BY <1>1, <1>3 DEF PlanOf, Ssd
<1>5. GpuSelection(r)' = GpuSelection(r)
  BY <1>2 DEF GpuSelection
<1> QED
  BY <1>4, <1>5 DEF NextRam

-----------------------------------------------------------------------------
(* The steps.                                                               *)

LEMMA ForwardKeeps == ASSUME EnergyAssumption, EnergyInv, Forward PROVE EnergyInv'
<1> USE DEF EnergyInv
<1>1. /\ \A r \in Rank : pc[r] = "forward"
      /\ pc' = [r \in Rank |-> "decide"]
      /\ scratch' = [r \in Rank |-> [e \in Expert |-> Garbage]]
      /\ energy' \in [Expert -> 0 .. MaxEnergy]
      /\ plan' = [r \in Rank |-> NoPlan]
      /\ UNCHANGED <<gpuMask, ramMask, slotOf, weights, staged, skip, misses, failures>>
  BY DEF Forward, boundVars
<1>2. TypeOK'
  BY <1>1, ExpertsExist DEF TypeOK, ResidencyTypeOK, Contents
<1>3. PlansAreFresh' /\ StoreMatches' /\ ScratchMatches' /\ LoadIsBarrier'
  BY <1>1 DEF PlansAreFresh, StoreMatches, ScratchMatches, LoadIsBarrier
<1>4. SlotsMatch'
  BY <1>1 DEF SlotsMatch, Sound, Undisturbed
<1>5. InStep'
  <2> SUFFICES ASSUME Undisturbed' PROVE RamInStep' /\ GpuInStep'
    BY DEF InStep
  <2>1. \A r, q \in Rank : ramMask[r] = ramMask[q] /\ gpuMask[r] = gpuMask[q]
    BY <1>1 DEF InStep, Undisturbed, RamInStep, GpuInStep, BeforeMove
  <2> QED
    BY <1>1, <2>1 DEF RamInStep, GpuInStep, BeforeMove
<1> QED
  BY <1>2, <1>3, <1>4, <1>5

(* Steps that touch no table and no load: only their rank moves on.         *)
LEMMA TablesStay ==
    ASSUME EnergyInv, NEW r \in Rank, NEW p \in {"ram", "gpu", "load", "forward"},
           pc[r] # "full", pc' = [pc EXCEPT ![r] = p],
           UNCHANGED <<gpuMask, slotOf, weights, scratch, energy>>,
           Undisturbed' => Undisturbed,
           p = "forward" \/ (\A q \in Rank : pc[q] # "full")
    PROVE  /\ SlotsMatch' /\ LoadIsBarrier'
           /\ ramMask' = ramMask => ScratchMatches'
BY DEF EnergyInv, TypeOK, SlotsMatch, Sound, LoadIsBarrier, ScratchMatches

LEMMA NobodyLoads ==
    ASSUME EnergyInv, NEW r \in Rank, pc[r] \notin {"full", "forward"}
    PROVE  \A q \in Rank : pc[q] # "full"
BY DEF EnergyInv, LoadIsBarrier

LEMMA DecideKeeps ==
    ASSUME EnergyAssumption, EnergyInv, NEW r \in Rank, Decide(r) PROVE EnergyInv'
<1> USE DEF EnergyInv
<1>1. /\ pc[r] = "decide" /\ pc' = [pc EXCEPT ![r] = "ram"]
      /\ plan' = [plan EXCEPT ![r] = PlanOf(r)]
      /\ UNCHANGED <<gpuMask, ramMask, slotOf, weights, scratch, staged, skip, energy, misses, failures>>
  BY DEF Decide, boundVars, residencyVars
<1>2. TypeOK'
  BY <1>1, PlanOfFacts DEF TypeOK, ResidencyTypeOK
<1>3. \A q \in Rank : /\ PlanOf(q)' = PlanOf(q) /\ GpuSelection(q)' = GpuSelection(q)
                      /\ NextRam(q)' = NextRam(q)
  BY <1>1, ChoicesStay
<1>4. PlansAreFresh'
  BY <1>1, <1>3 DEF PlansAreFresh, TypeOK
<1>5. SlotsMatch' /\ LoadIsBarrier' /\ ScratchMatches'
  BY <1>1, NobodyLoads, TablesStay DEF Undisturbed
<1>6. StoreMatches'
  BY <1>1 DEF StoreMatches
<1>7. InStep'
  BY <1>1, <1>3 DEF InStep, Undisturbed, RamInStep, GpuInStep, BeforeMove, TypeOK
<1> QED
  BY <1>2, <1>4, <1>5, <1>6, <1>7

(* The end of a rank's RAM move, when it did what was planned.              *)
LEMMA MovedInStep ==
    ASSUME EnergyAssumption, EnergyInv, NEW r \in Rank, pc[r] = "ram", pc' = [pc EXCEPT ![r] = "gpu"],
           ramMask' = [ramMask EXCEPT ![r] = NextRam(r)],
           UNCHANGED <<gpuMask, energy, misses, failures>>
    PROVE  InStep'
<1> SUFFICES ASSUME Undisturbed' PROVE RamInStep' /\ GpuInStep'
  BY DEF InStep
<1>1. RamInStep /\ GpuInStep /\ (\A q \in Rank : pc[q] # "full")
  BY NobodyLoads DEF EnergyInv, InStep, Undisturbed
<1>2. \A q, t \in Rank : gpuMask[q] = gpuMask[t]
  BY <1>1 DEF GpuInStep
<1>3. GpuInStep'
  BY <1>1, <1>2 DEF GpuInStep, EnergyInv, TypeOK
<1>4. \A q \in Rank : q # r => NextRam(q)' = NextRam(q) /\ ramMask'[q] = ramMask[q] /\ pc'[q] = pc[q]
  <2> SUFFICES ASSUME NEW q \in Rank, q # r
               PROVE  NextRam(q)' = NextRam(q) /\ ramMask'[q] = ramMask[q] /\ pc'[q] = pc[q]
    OBVIOUS
  <2>1. ramMask'[q] = ramMask[q] /\ pc'[q] = pc[q]
    BY DEF EnergyInv, TypeOK, ResidencyTypeOK
  <2> QED
    BY <2>1, ChoicesStay
<1>5. \A q \in Rank : BeforeMove(q) => NextRam(q) = NextRam(r)
  <2> SUFFICES ASSUME NEW q \in Rank, BeforeMove(q) PROVE NextRam(q) = NextRam(r)
    OBVIOUS
  <2>1. ramMask[q] = ramMask[r] /\ gpuMask[q] = gpuMask[r]
    BY <1>1, <1>2 DEF RamInStep, BeforeMove
  <2> QED
    BY <2>1, SameChoices
<1>6. \A q \in Rank : ~BeforeMove(q) => ramMask[q] = NextRam(r)
  BY <1>1 DEF RamInStep, BeforeMove
<1>7. /\ ramMask'[r] = NextRam(r) /\ ~BeforeMove(r)'
      /\ \A q \in Rank : q # r => (BeforeMove(q)' <=> BeforeMove(q))
  BY <1>4 DEF EnergyInv, TypeOK, ResidencyTypeOK, BeforeMove
<1>8. RamInStep'
  <2> SUFFICES ASSUME NEW q \in Rank, NEW t \in Rank
               PROVE  /\ (BeforeMove(q)' <=> BeforeMove(t)') => ramMask'[q] = ramMask'[t]
                      /\ BeforeMove(q)' /\ ~BeforeMove(t)' => ramMask'[t] = NextRam(q)'
    BY DEF RamInStep
  <2>1. /\ (BeforeMove(q) <=> BeforeMove(t)) => ramMask[q] = ramMask[t]
        /\ BeforeMove(q) /\ ~BeforeMove(t) => ramMask[t] = NextRam(q)
        /\ BeforeMove(t) /\ ~BeforeMove(q) => ramMask[q] = NextRam(t)
    BY <1>1 DEF RamInStep
  <2>2. BeforeMove(r)
    BY DEF BeforeMove
  <2> QED
    BY <1>4, <1>5, <1>6, <1>7, <2>1, <2>2
<1> QED
  BY <1>3, <1>8

LEMMA NoMoveKeeps ==
    ASSUME EnergyAssumption, EnergyInv, NEW r \in Rank, NoMove(r) PROVE EnergyInv'
<1> USE DEF EnergyInv
<1>1. /\ pc[r] = "ram" /\ ~plan[r].move /\ pc' = [pc EXCEPT ![r] = "gpu"]
      /\ UNCHANGED <<gpuMask, ramMask, slotOf, weights, scratch, staged, skip, energy, plan, misses, failures>>
  BY DEF NoMove, boundVars, residencyVars
<1>2. TypeOK' /\ StoreMatches'
  BY <1>1 DEF TypeOK, ResidencyTypeOK, StoreMatches
<1>3. PlansAreFresh'
  <2>1. \A q \in Rank : PlanOf(q)' = PlanOf(q)
    BY <1>1, ChoicesStay
  <2> QED
    BY <1>1, <2>1 DEF PlansAreFresh, TypeOK
<1>4. SlotsMatch' /\ LoadIsBarrier' /\ ScratchMatches'
  BY <1>1, NobodyLoads, TablesStay DEF Undisturbed
<1>5. ramMask' = [ramMask EXCEPT ![r] = NextRam(r)]
  BY <1>1 DEF NextRam, PlansAreFresh, TypeOK, ResidencyTypeOK
<1>6. InStep'
  BY <1>1, <1>5, MovedInStep
<1> QED
  BY <1>2, <1>3, <1>4, <1>6

(* The plans of the other ranks stay fresh when one rank moves.             *)
LEMMA OthersStayFresh ==
    ASSUME EnergyInv, NEW r \in Rank, NEW X, pc' = [pc EXCEPT ![r] = "gpu"],
           ramMask' = [ramMask EXCEPT ![r] = X], UNCHANGED <<gpuMask, energy, plan>>
    PROVE  PlansAreFresh'
<1> SUFFICES ASSUME NEW q \in Rank, pc'[q] = "ram" PROVE plan'[q] = PlanOf(q)'
  BY DEF PlansAreFresh
<1>1. q # r /\ pc[q] = "ram" /\ ramMask'[q] = ramMask[q]
  BY DEF EnergyInv, TypeOK, ResidencyTypeOK
<1>2. PlanOf(q)' = PlanOf(q)
  BY <1>1, ChoicesStay
<1> QED
  BY <1>1, <1>2 DEF EnergyInv, PlansAreFresh

(* What a planned move does to the RAM mask of its rank.                    *)
LEMMA SwappedFacts ==
    ASSUME EnergyAssumption, EnergyInv, NEW r \in Rank, pc[r] = "ram", plan[r].move
    PROVE  /\ plan[r].down \in ramMask[r] /\ plan[r].up \in Expert
           /\ Swapped(r) \in SUBSET Expert /\ Swapped(r) = NextRam(r)
<1>1. plan[r] = PlanOf(r)
  BY DEF EnergyInv, PlansAreFresh
<1>2. PlanOf(r).down \in ramMask[r] /\ PlanOf(r).up \in Ssd(r)
  BY <1>1, PlanOfFacts DEF EnergyInv
<1> QED
  BY <1>1, <1>2 DEF Ssd, Swapped, NextRam, EnergyInv, TypeOK, ResidencyTypeOK

LEMMA FollowMoveKeeps ==
    ASSUME EnergyAssumption, EnergyInv, NEW r \in Rank, FollowMove(r) PROVE EnergyInv'
<1> USE DEF EnergyInv
<1>1. /\ r # 0 /\ pc[r] = "ram" /\ plan[r].move /\ pc' = [pc EXCEPT ![r] = "gpu"]
      /\ ramMask' = [ramMask EXCEPT ![r] = Swapped(r)]
      /\ UNCHANGED <<gpuMask, slotOf, weights, scratch, staged, skip, energy, plan, misses, failures>>
  BY DEF FollowMove, boundVars
<1>2. Swapped(r) \in SUBSET Expert /\ Swapped(r) = NextRam(r)
  BY <1>1, SwappedFacts
<1>3. TypeOK'
  BY <1>1, <1>2 DEF TypeOK, ResidencyTypeOK
<1>4. StoreMatches'
  BY <1>1, RankZero DEF StoreMatches, TypeOK, ResidencyTypeOK
<1>5. PlansAreFresh'
  BY <1>1, OthersStayFresh
<1>6. SlotsMatch' /\ LoadIsBarrier'
  BY <1>1, NobodyLoads, TablesStay DEF Undisturbed
<1>7. ScratchMatches'
  BY <1>1, NobodyLoads DEF ScratchMatches, TypeOK
<1>8. InStep'
  BY <1>1, <1>2, MovedInStep
<1> QED
  BY <1>3, <1>4, <1>5, <1>6, <1>7, <1>8

LEMMA LeadMoveKeeps == ASSUME EnergyAssumption, EnergyInv, LeadMove PROVE EnergyInv'
<1> USE DEF EnergyInv
<1>1. /\ pc[0] = "ram" /\ plan[0].move /\ pc' = [pc EXCEPT ![0] = "gpu"]
      /\ ramMask' = [ramMask EXCEPT ![0] = Swapped(0)]
      /\ skip' = SkipMask(gpuMask[0], Swapped(0))
      /\ staged' = (staged \ {plan[0].down}) \cup {plan[0].up}
      /\ UNCHANGED <<gpuMask, slotOf, weights, scratch, energy, plan, misses, failures>>
  BY DEF LeadMove, boundVars
<1>2. /\ plan[0].down \in ramMask[0] /\ plan[0].up \in Expert
      /\ Swapped(0) \in SUBSET Expert /\ Swapped(0) = NextRam(0)
  BY <1>1, RankZero, SwappedFacts
<1>3. skip' = Expert \ Swapped(0)
  BY <1>1 DEF SkipMask, EnergyAssumption
<1>4. TypeOK'
  BY <1>1, <1>2, <1>3 DEF TypeOK, ResidencyTypeOK
<1>5. StoreMatches'
  <2> DEFINE rest == staged \ {plan[0].down}
  <2>1. plan[0].down \in staged /\ ramMask[0] \subseteq staged
    BY <1>2 DEF StoreMatches
  <2>2. IsFiniteSet(rest) /\ Cardinality(rest) = Cardinality(staged) - 1
    BY <2>1, FS_RemoveElement DEF StoreMatches
  <2>3. IsFiniteSet(rest \cup {plan[0].up}) /\ Cardinality(rest \cup {plan[0].up}) <= Cardinality(rest) + 1
    <3> HIDE DEF rest
    <3>1. Cardinality(rest) \in Nat
      BY <2>2, FS_CardinalityType
    <3>2. /\ IsFiniteSet(rest \cup {plan[0].up})
          /\ Cardinality(rest \cup {plan[0].up})
               = IF plan[0].up \in rest THEN Cardinality(rest) ELSE Cardinality(rest) + 1
      BY <2>2, FS_AddElement
    <3> QED
      BY <3>1, <3>2
  <2>4. Cardinality(staged) \in Nat /\ Cardinality(staged) <= NRam /\ NRam \in Nat
    BY FS_CardinalityType DEF StoreMatches, EnergyAssumption
  <2>5. Cardinality(rest \cup {plan[0].up}) \in Nat
    BY <2>3, FS_CardinalityType
  <2>6. IsFiniteSet(staged') /\ Cardinality(staged') <= NRam
    BY <1>1, <2>2, <2>3, <2>4, <2>5
  <2>7. ramMask'[0] = Swapped(0)
    BY <1>1, RankZero DEF TypeOK, ResidencyTypeOK
  <2>8. Swapped(0) \subseteq staged'
    BY <1>1, <2>1 DEF Swapped
  <2> QED
    BY <1>3, <2>6, <2>7, <2>8 DEF StoreMatches
<1>6. PlansAreFresh'
  BY <1>1, RankZero, OthersStayFresh
<1>7. SlotsMatch' /\ LoadIsBarrier'
  BY <1>1, RankZero, NobodyLoads, TablesStay DEF Undisturbed
<1>8. ScratchMatches'
  BY <1>1, RankZero, NobodyLoads DEF ScratchMatches, TypeOK
<1>9. InStep'
  BY <1>1, <1>2, RankZero, MovedInStep
<1> QED
  BY <1>4, <1>5, <1>6, <1>7, <1>8, <1>9

(* From here on only rank 0 has to be right.                                *)
LEMMA LeadMissKeeps == ASSUME EnergyAssumption, EnergyInv, LeadMiss PROVE EnergyInv'
<1> USE DEF EnergyInv
<1>1. /\ pc[0] = "ram" /\ misses < MaxMisses /\ misses' = misses + 1
      /\ pc' = [pc EXCEPT ![0] = "gpu"]
      /\ UNCHANGED <<gpuMask, ramMask, slotOf, weights, scratch, staged, skip, energy, plan, failures>>
  BY DEF LeadMiss, residencyVars
<1>2. misses' \in 0 .. MaxMisses /\ ~Undisturbed'
  BY <1>1 DEF TypeOK, EnergyAssumption, Undisturbed
<1>3. TypeOK' /\ StoreMatches'
  BY <1>1, <1>2 DEF TypeOK, ResidencyTypeOK, StoreMatches
<1>4. PlansAreFresh'
  <2>1. ramMask' = [ramMask EXCEPT ![0] = ramMask[0]]
    BY <1>1, RankZero DEF TypeOK, ResidencyTypeOK
  <2> QED
    BY <1>1, <2>1, RankZero, OthersStayFresh
<1>5. SlotsMatch' /\ LoadIsBarrier' /\ ScratchMatches'
  BY <1>1, <1>2, RankZero, NobodyLoads, TablesStay
<1>6. InStep'
  BY <1>2 DEF InStep
<1> QED
  BY <1>3, <1>4, <1>5, <1>6

LEMMA LeadFailsKeeps == ASSUME EnergyAssumption, EnergyInv, LeadFails PROVE EnergyInv'
<1> USE DEF EnergyInv
<1>1. /\ pc[0] = "ram" /\ plan[0].move /\ failures < MaxFailures /\ failures' = failures + 1
      /\ ramMask' = [ramMask EXCEPT ![0] = ramMask[0] \ {plan[0].down}]
      /\ skip' = SkipMask(gpuMask[0], ramMask'[0])
      /\ staged' \in {staged, staged \ {plan[0].down}}
      /\ pc' = [pc EXCEPT ![0] = "gpu"]
      /\ UNCHANGED <<gpuMask, slotOf, weights, scratch, energy, plan, misses>>
  BY DEF LeadFails
<1>2. /\ ramMask'[0] = ramMask[0] \ {plan[0].down} /\ ramMask'[0] \in SUBSET Expert
      /\ skip' = Expert \ ramMask'[0]
  BY <1>1, RankZero DEF TypeOK, ResidencyTypeOK, SkipMask, EnergyAssumption
<1>3. failures' \in 0 .. MaxFailures /\ ~Undisturbed'
  BY <1>1 DEF TypeOK, EnergyAssumption, Undisturbed
<1>4. TypeOK'
  BY <1>1, <1>2, <1>3 DEF TypeOK, ResidencyTypeOK
<1>5. StoreMatches'
  <2>1. staged' \subseteq staged /\ staged \ {plan[0].down} \subseteq staged'
    BY <1>1
  <2>2. IsFiniteSet(staged') /\ Cardinality(staged') <= Cardinality(staged)
    BY <2>1, FS_Subset DEF StoreMatches
  <2>3. Cardinality(staged') \in Nat /\ Cardinality(staged) \in Nat /\ NRam \in Nat
    BY <2>2, FS_CardinalityType DEF StoreMatches, EnergyAssumption
  <2> QED
    BY <1>2, <2>1, <2>2, <2>3 DEF StoreMatches
<1>6. PlansAreFresh'
  BY <1>1, RankZero, OthersStayFresh
<1>7. SlotsMatch' /\ LoadIsBarrier'
  BY <1>1, <1>3, RankZero, NobodyLoads, TablesStay
<1>8. ScratchMatches'
  BY <1>1, RankZero, NobodyLoads DEF ScratchMatches, TypeOK
<1>9. InStep'
  BY <1>3 DEF InStep
<1> QED
  BY <1>4, <1>5, <1>6, <1>7, <1>8, <1>9

LEMMA GpuDecideKeeps ==
    ASSUME EnergyAssumption, EnergyInv, NEW r \in Rank, GpuDecide(r) PROVE EnergyInv'
<1> USE DEF EnergyInv
<1> DEFINE p == IF plan[r].gpu /\ GpuSelection(r) # gpuMask[r] THEN "load" ELSE "forward"
<1>1. /\ pc[r] = "gpu" /\ pc' = [pc EXCEPT ![r] = p] /\ p \in {"load", "forward"}
      /\ UNCHANGED <<gpuMask, ramMask, slotOf, weights, scratch, staged, skip, energy, plan, misses, failures>>
  BY DEF GpuDecide, boundVars, residencyVars
<1> HIDE DEF p
<1>2. TypeOK' /\ StoreMatches'
  BY <1>1 DEF TypeOK, ResidencyTypeOK, StoreMatches
<1>3. \A q \in Rank : /\ PlanOf(q)' = PlanOf(q) /\ GpuSelection(q)' = GpuSelection(q)
                      /\ NextRam(q)' = NextRam(q)
  BY <1>1, ChoicesStay
<1>4. PlansAreFresh'
  BY <1>1, <1>3 DEF PlansAreFresh, TypeOK
<1>5. SlotsMatch' /\ LoadIsBarrier' /\ ScratchMatches'
  BY <1>1, NobodyLoads, TablesStay DEF Undisturbed
<1>6. \A q \in Rank : /\ BeforeMove(q)' <=> BeforeMove(q)
                      /\ pc'[q] = "full" <=> pc[q] = "full"
  BY <1>1 DEF BeforeMove, TypeOK
<1>7. InStep'
  BY <1>1, <1>3, <1>6 DEF InStep, Undisturbed, RamInStep, GpuInStep
<1> QED
  BY <1>2, <1>4, <1>5, <1>7

LEMMA LoadFullKeeps == ASSUME EnergyAssumption, EnergyInv, LoadFull PROVE EnergyInv'
<1> USE DEF EnergyInv
<1>1. /\ \A r \in Rank : pc[r] = "load"
      /\ scratch' = [r \in Rank |-> FullScratch(r)]
      /\ pc' = [r \in Rank |-> "full"]
      /\ UNCHANGED <<gpuMask, ramMask, slotOf, weights, staged, skip, energy, plan, misses, failures>>
  BY DEF LoadFull, boundVars
<1>2. ASSUME NEW r \in Rank
      PROVE  /\ FullScratch(r) \in [Expert -> Contents]
             /\ Sound(r) => \A e \in gpuMask[r] \cup ramMask[r] : FullScratch(r)[e] = e
  <2>1. FullScratch(r) \in [Expert -> Contents]
    BY DEF FullScratch, StoreRead, Contents, TypeOK, ResidencyTypeOK, SlotsMatch
  <2>2. ASSUME Sound(r) PROVE ramMask[r] \subseteq staged
    BY <1>1, <2>2, RankZero DEF Sound, InStep, RamInStep, BeforeMove, StoreMatches
  <2> QED
    BY <2>1, <2>2 DEF FullScratch, StoreRead, TypeOK, ResidencyTypeOK, SlotsMatch
<1>3. TypeOK' /\ StoreMatches'
  BY <1>1, <1>2 DEF TypeOK, ResidencyTypeOK, StoreMatches
<1>4. PlansAreFresh' /\ LoadIsBarrier'
  BY <1>1 DEF PlansAreFresh, LoadIsBarrier
<1>5. SlotsMatch'
  BY <1>1 DEF SlotsMatch, Sound, Undisturbed
<1>6. ScratchMatches'
  BY <1>1, <1>2 DEF ScratchMatches, Sound, Undisturbed
<1>7. InStep'
  BY <1>1 DEF InStep, Undisturbed, RamInStep, GpuInStep, BeforeMove
<1> QED
  BY <1>3, <1>4, <1>5, <1>6, <1>7

LEMMA RestageKeeps ==
    ASSUME EnergyAssumption, EnergyInv, NEW r \in Rank, Restage(r) PROVE EnergyInv'
<1> USE DEF EnergyInv
<1> DEFINE chosen == GpuSelection(r)
<1>1. /\ pc[r] = "full" /\ pc' = [pc EXCEPT ![r] = "forward"] /\ ApplyFull(r, chosen)
      /\ UNCHANGED <<ramMask, scratch, staged, energy, plan, misses, failures>>
  BY DEF Restage, boundVars
<1>2. chosen \in SUBSET Expert /\ chosen \subseteq gpuMask[r] \cup ramMask[r]
  BY SelectionFacts
<1> HIDE DEF chosen
<1>3. PICK n \in Numberings(chosen) :
         /\ weights' = [weights EXCEPT ![r] = SlotWeights(n, scratch[r])]
         /\ slotOf' = [slotOf EXCEPT ![r] = SlotTable(chosen, n)]
         /\ gpuMask' = [gpuMask EXCEPT ![r] = chosen]
         /\ skip' = IF r = 0 THEN SkipMask(chosen, ramMask[0]) ELSE skip
  BY <1>1 DEF ApplyFull
<1>4. /\ SlotWeights(n, scratch[r]) \in [Slot -> Contents]
      /\ SlotTable(chosen, n) \in [Expert -> Slot \cup {NoSlot}]
      /\ \A e \in chosen : /\ SlotTable(chosen, n)[e] \in Slot
                       /\ SlotWeights(n, scratch[r])[SlotTable(chosen, n)[e]] = scratch[r][e]
  <2>1. scratch[r] \in [Expert -> Contents]
    BY DEF TypeOK, ResidencyTypeOK
  <2> QED
    BY <1>2, <1>3, <2>1, SlotWeightsFacts
<1>5. skip' = skip
  BY <1>3 DEF SkipMask, StoreMatches, EnergyAssumption
<1>6. TypeOK' /\ StoreMatches'
  BY <1>1, <1>2, <1>3, <1>4, <1>5 DEF TypeOK, ResidencyTypeOK, StoreMatches
<1>7. SlotsMatch'
  <2> SUFFICES ASSUME NEW q \in Rank, NEW e \in gpuMask'[q]
               PROVE  /\ slotOf'[q][e] \in Slot
                      /\ Sound(q)' => weights'[q][slotOf'[q][e]] = e
    BY DEF SlotsMatch
  <2>1. Sound(q)' => Sound(q)
    BY <1>1 DEF Sound, Undisturbed
  <2>2. CASE q = r
    <3>1. e \in chosen /\ slotOf'[q] = SlotTable(chosen, n) /\ weights'[q] = SlotWeights(n, scratch[r])
      BY <1>3, <2>2 DEF TypeOK, ResidencyTypeOK
    <3>2. Sound(q) => scratch[r][e] = e
      BY <1>1, <1>2, <2>2, <3>1 DEF ScratchMatches
    <3> QED
      BY <1>4, <2>1, <3>1, <3>2
  <2>3. CASE q # r
    BY <1>3, <2>1, <2>3 DEF TypeOK, ResidencyTypeOK, SlotsMatch
  <2> QED
    BY <2>2, <2>3
<1>8. \A q \in Rank : q # r => gpuMask'[q] = gpuMask[q] /\ pc'[q] = pc[q]
  BY <1>1, <1>3 DEF TypeOK, ResidencyTypeOK
<1>9. pc'[r] = "forward" /\ gpuMask'[r] = chosen
  BY <1>1, <1>3 DEF TypeOK, ResidencyTypeOK
<1>10. \A q \in Rank : pc[q] \in {"full", "forward"}
  BY <1>1 DEF LoadIsBarrier
<1>11. PlansAreFresh' /\ LoadIsBarrier'
  BY <1>8, <1>9, <1>10 DEF PlansAreFresh, LoadIsBarrier
<1>12. ScratchMatches'
  BY <1>1, <1>8, <1>9 DEF ScratchMatches, Sound, Undisturbed
<1>13. InStep'
  <2> SUFFICES ASSUME Undisturbed' PROVE RamInStep' /\ GpuInStep'
    BY DEF InStep
  <2>1. RamInStep /\ GpuInStep
    BY <1>1 DEF InStep, Undisturbed
  <2>2. \A q, t \in Rank : ramMask[q] = ramMask[t]
    BY <1>10, <2>1 DEF RamInStep, BeforeMove
  <2>3. RamInStep'
    BY <1>1, <1>8, <1>9, <1>10, <2>2 DEF RamInStep, BeforeMove
  <2>4. \A q \in Rank : q # r /\ pc[q] = "full" => GpuSelection(q)' = chosen
    <3> SUFFICES ASSUME NEW q \in Rank, q # r, pc[q] = "full" PROVE GpuSelection(q)' = chosen
      OBVIOUS
    <3>1. gpuMask[q] = gpuMask[r] /\ ramMask[q] = ramMask[r]
      BY <1>1, <2>1, <2>2 DEF GpuInStep
    <3>2. GpuSelection(q) = chosen
      BY <3>1, SameChoices DEF chosen
    <3>3. GpuSelection(q)' = GpuSelection(q)
      BY <1>1, <1>8, ChoicesStay
    <3> QED
      BY <3>2, <3>3
  <2>5. \A q \in Rank : q # r /\ pc[q] # "full" => gpuMask[q] = chosen
    BY <1>1, <2>1 DEF GpuInStep, chosen
  <2>6. GpuInStep'
    <3> SUFFICES ASSUME NEW q \in Rank, NEW t \in Rank
                 PROVE  /\ (pc'[q] = "full" <=> pc'[t] = "full") => gpuMask'[q] = gpuMask'[t]
                        /\ pc'[q] = "full" /\ pc'[t] # "full" => gpuMask'[t] = GpuSelection(q)'
      BY DEF GpuInStep
    <3>1. (pc[q] = "full" <=> pc[t] = "full") => gpuMask[q] = gpuMask[t]
      BY <2>1 DEF GpuInStep
    <3> QED
      BY <1>8, <1>9, <2>4, <2>5, <3>1
  <2> QED
    BY <2>3, <2>6
<1> QED
  BY <1>6, <1>7, <1>11, <1>12, <1>13

-----------------------------------------------------------------------------

LEMMA EnergyInvHolds == ASSUME EnergyAssumption PROVE Spec => []EnergyInv
<1>1. Init => EnergyInv
  <2> SUFFICES ASSUME Init PROVE EnergyInv
    OBVIOUS
  <2>1. PICK gpu \in SUBSET Expert, host \in SUBSET Expert :
           ResidencyInit(gpu, host) /\ Cardinality(host) = NRam
    BY DEF Init, kSubset
  <2>2. ResidencyTypeOK /\ SlotsHoldTheirExperts
    BY <2>1, ResidencyInitFacts
  <2>3. /\ gpuMask = [r \in Rank |-> gpu] /\ ramMask = [r \in Rank |-> host]
        /\ staged = host /\ skip = Expert \ host
    BY <2>1 DEF ResidencyInit, InitStaged, SkipMask, EnergyAssumption
  <2>4. pc = [r \in Rank |-> "forward"]
    BY DEF Init
  <2>5. TypeOK
    BY <2>2, ExpertsExist DEF Init, TypeOK, EnergyAssumption
  <2>6. StoreMatches
    BY <2>1, <2>3, RankZero, ExpertsAreFinite DEF StoreMatches, EnergyAssumption
  <2>7. SlotsMatch
    BY <2>2 DEF SlotsMatch, SlotsHoldTheirExperts
  <2>8. PlansAreFresh /\ ScratchMatches /\ LoadIsBarrier /\ InStep
    BY <2>3, <2>4 DEF PlansAreFresh, ScratchMatches, LoadIsBarrier, InStep, RamInStep, GpuInStep, BeforeMove
  <2> QED
    BY <2>5, <2>6, <2>7, <2>8 DEF EnergyInv
<1>2. EnergyInv /\ [Next]_vars => EnergyInv'
  <2>1. ASSUME EnergyInv, UNCHANGED vars PROVE EnergyInv'
    <3>1. UNCHANGED <<gpuMask, ramMask, slotOf, weights, scratch, staged, skip, pc, energy, plan, misses, failures>>
      BY <2>1 DEF vars, residencyVars
    <3>2. \A q \in Rank : /\ PlanOf(q)' = PlanOf(q) /\ GpuSelection(q)' = GpuSelection(q)
                          /\ NextRam(q)' = NextRam(q)
      BY <3>1, ChoicesStay
    <3>3. TypeOK' /\ PlansAreFresh' /\ StoreMatches' /\ LoadIsBarrier'
      BY <2>1, <3>1, <3>2 DEF EnergyInv, TypeOK, ResidencyTypeOK, PlansAreFresh, StoreMatches, LoadIsBarrier
    <3>4. SlotsMatch' /\ ScratchMatches'
      BY <2>1, <3>1 DEF EnergyInv, SlotsMatch, ScratchMatches, Sound, Undisturbed
    <3>5. InStep'
      BY <2>1, <3>1, <3>2 DEF EnergyInv, InStep, Undisturbed, RamInStep, GpuInStep, BeforeMove
    <3> QED
      BY <3>3, <3>4, <3>5 DEF EnergyInv
  <2> QED
    BY <2>1, ForwardKeeps, DecideKeeps, NoMoveKeeps, FollowMoveKeeps, LeadMoveKeeps, LeadMissKeeps,
       LeadFailsKeeps, GpuDecideKeeps, LoadFullKeeps, RestageKeeps DEF Next
<1> QED
  BY <1>1, <1>2, PTL DEF Spec

(* Every reachable state of the energy-driven mover is well typed.          *)
THEOREM EnergyTypes == ASSUME EnergyAssumption PROVE Spec => []TypeOK
<1>1. EnergyInv => TypeOK
  BY DEF EnergyInv
<1> QED
  BY <1>1, EnergyInvHolds, PTL

(* Whatever kt_energy_on_decode_step promotes, misses or fails to move: the *)
(* CPU computes no expert it does not hold and the store keeps its budget,  *)
(* rank 0's slots are right, and as long as every move succeeded, so are    *)
(* everyone's, and a forward computes each reachable expert once.           *)
THEOREM EnergyAlwaysServes == ASSUME EnergyAssumption PROVE Spec => []EnergyServes
<1>1. ASSUME EnergyInv PROVE EnergyServes
  <2>1. GpuSlotsCorrect
    BY <1>1 DEF EnergyInv, GpuSlotsCorrect, SlotsMatch, Sound, GpuReads
  <2>2. CpuNeverReadsUnstaged /\ RamBudget
    BY <1>1 DEF EnergyInv, CpuNeverReadsUnstaged, NoUnstagedCompute, CpuComputes, StoreMatches, RamBudget
  <2>3. CoherentForward
    <3> SUFFICES ASSUME AtForward, Undisturbed, Disjoint, NEW e \in Expert
                 PROVE  \/ (\A r \in Rank : Reachable(r, e)) /\ ServedOnce(e)
                        \/ (\A r \in Rank : ~Reachable(r, e)) /\ NotServed(e)
      BY DEF CoherentForward, Coherent
    <3>1. \A r \in Rank : gpuMask[r] = gpuMask[0] /\ ramMask[r] = ramMask[0]
      BY <1>1, RankZero DEF EnergyInv, InStep, RamInStep, GpuInStep, BeforeMove, AtForward
    <3>2. gpuMask[0] \cap ramMask[0] = {}
      BY RankZero DEF Disjoint
    <3>3. CASE e \in gpuMask[0]
      BY <1>1, <2>1, <3>1, <3>2, <3>3
      DEF EnergyInv, StoreMatches, GpuSlotsCorrect, ServedOnce, GpuComputes, CpuComputes, Reachable
    <3>4. CASE e \in ramMask[0]
      BY <1>1, <3>1, <3>2, <3>4
      DEF EnergyInv, StoreMatches, ServedOnce, GpuComputes, CpuComputes, StoreRead, Reachable
    <3>5. CASE e \notin gpuMask[0] \cup ramMask[0]
      BY <1>1, <3>1, <3>5
      DEF EnergyInv, StoreMatches, NotServed, GpuComputes, CpuComputes, Reachable
    <3> QED
      BY <3>3, <3>4, <3>5
  <2> QED
    BY <2>1, <2>2, <2>3 DEF EnergyServes
<1> QED
  BY <1>1, EnergyInvHolds, PTL

-----------------------------------------------------------------------------
(* The scratch layer (ScratchLayer).                                        *)

(* The experts a load streams from bytes that are staged: the asked ones,   *)
(* and of a whole layer those that no copy of a resident replaces later.    *)
Due == IF job.only # {} THEN job.only
       ELSE IF format = "w4afp8" THEN ScratchExperts \ onGpu[job.layer] ELSE ScratchExperts

ScratchTypeOK ==
    /\ format \in Scratch!Formats /\ adaptive \in BOOLEAN
    /\ onGpu \in [ScratchLayers -> SUBSET ScratchExperts]
    /\ slot \in [ScratchExperts -> {Off} \cup Scratch!Contents]
    /\ job \in [layer : ScratchLayers, only : SUBSET ScratchExperts]
    /\ loadPc \in {"idle", "resident", "stream", "convert", "overlay", "ready"}

(* Whatever a swap may evict is staged.                                     *)
ScratchStore ==
    /\ format = "int4" => adaptive
    /\ held = [l \in ScratchLayers |-> IF adaptive THEN ScratchExperts ELSE ScratchExperts \ onGpu[l]]

(* The bytes a load has brought so far, and how often they were converted.  *)
LoadedSoFar ==
    /\ loadPc # "idle" /\ job.only # {} => format = "w4afp8" /\ job.only \cap onGpu[job.layer] = {}
    /\ loadPc = "stream" /\ Scratch!Direct(format) =>
          \A e \in onGpu[job.layer] : slot[e] = Scratch!Bytes(job.layer, e, 0)
    /\ loadPc = "convert" => \A e \in Due : slot[e] = Scratch!Bytes(job.layer, e, 0)
    /\ loadPc = "overlay" => \A e \in Due : slot[e] = Scratch!Bytes(job.layer, e, Scratch!Needed(format))
    /\ loadPc = "ready" => \A e \in Scratch!Read : slot[e] = Scratch!Bytes(job.layer, e, Scratch!Needed(format))

ScratchInv == ScratchTypeOK /\ ScratchStore /\ LoadedSoFar

(* The first test that fits recognises every format, and what it is called  *)
(* decides how often it is converted.                                       *)
LEMMA KindIsFormat == ASSUME format \in Scratch!Formats PROVE Scratch!Kind = format
BY DEF Scratch!Formats, Scratch!Kind, Scratch!Detect, Scratch!Created

LEMMA BytesAreContents ==
    ASSUME NEW l \in ScratchLayers, NEW e \in ScratchExperts, NEW n \in Nat
    PROVE  Scratch!Bytes(l, e, n) \in Scratch!Contents
BY DEF Scratch!Bytes, Scratch!Contents

LEMMA NothingIsNoBytes == Off \notin Scratch!Contents /\ ScratchLayers # {}
BY ExpertsAssumption DEF ExpertsAssumption, Scratch!ScratchAssumption

LEMMA ScratchStarts == ASSUME <<"int4", FALSE>> \notin ScratchCases, Scratch!Init PROVE ScratchInv
<1>1. PICK c \in ScratchCases : format = c[1] /\ adaptive = c[2]
  BY DEF Scratch!Init
<1>2. PICK f \in Scratch!Formats, b \in BOOLEAN : c = <<f, b>>
  BY ExpertsAssumption DEF ExpertsAssumption, Scratch!ScratchAssumption
<1>3. format \in Scratch!Formats /\ adaptive \in BOOLEAN /\ (format = "int4" => adaptive)
  BY <1>1, <1>2 DEF Scratch!Formats
<1>4. onGpu \in [ScratchLayers -> SUBSET ScratchExperts]
  BY DEF Scratch!Init, Scratch!kSubset
<1>5. job \in [layer : ScratchLayers, only : SUBSET ScratchExperts]
  BY NothingIsNoBytes DEF Scratch!Init
<1> QED
  BY <1>3, <1>4, <1>5 DEF Scratch!Init, ScratchInv, ScratchTypeOK, ScratchStore, LoadedSoFar

LEMMA RestoreKeeps ==
    ASSUME ScratchInv, NEW l \in ScratchLayers, NEW only \in SUBSET ScratchExperts, Scratch!Restore(l, only)
    PROVE  ScratchInv'
<1> USE DEF ScratchInv
<1>1. /\ loadPc' = "resident" /\ job' = [layer |-> l, only |-> only]
      /\ only # {} => format = "w4afp8" /\ only \cap onGpu[l] = {}
      /\ UNCHANGED <<format, adaptive, onGpu, held>>
  BY KindIsFormat DEF Scratch!Restore, ScratchTypeOK
<1>2. slot' \in [ScratchExperts -> {Off} \cup Scratch!Contents]
  BY DEF Scratch!Restore, ScratchTypeOK, Scratch!Contents
<1> QED
  BY <1>1, <1>2 DEF ScratchTypeOK, ScratchStore, LoadedSoFar

LEMMA CopyResidentsKeeps == ASSUME ScratchInv, Scratch!CopyResidents PROVE ScratchInv'
<1> USE DEF ScratchInv
<1>1. /\ loadPc = "resident" /\ loadPc' = "stream"
      /\ UNCHANGED <<format, adaptive, onGpu, held, job>>
  BY DEF Scratch!CopyResidents
<1>2. /\ job.layer \in ScratchLayers /\ onGpu[job.layer] \subseteq ScratchExperts
      /\ Scratch!OfResidents(format) \in Nat
      /\ Scratch!Direct(format) => Scratch!OfResidents(format) = 0
  BY DEF ScratchTypeOK, Scratch!OfResidents, Scratch!Direct
<1>3. slot' = IF Scratch!Direct(format)
              THEN [e \in ScratchExperts |-> IF e \in onGpu[job.layer]
                      THEN Scratch!Bytes(job.layer, e, Scratch!OfResidents(format)) ELSE slot[e]]
              ELSE slot
  BY KindIsFormat DEF Scratch!CopyResidents, ScratchTypeOK
<1>4. slot' \in [ScratchExperts -> {Off} \cup Scratch!Contents]
  BY <1>2, <1>3, BytesAreContents DEF ScratchTypeOK
<1>5. Scratch!Direct(format) => \A e \in onGpu[job.layer] : slot'[e] = Scratch!Bytes(job.layer, e, 0)
  BY <1>2, <1>3
<1> QED
  BY <1>1, <1>4, <1>5 DEF ScratchTypeOK, ScratchStore, LoadedSoFar, Scratch!Direct, Scratch!Bytes

LEMMA StreamKeeps == ASSUME ScratchInv, Scratch!Stream PROVE ScratchInv'
<1> USE DEF ScratchInv
<1>1. /\ loadPc = "stream" /\ loadPc' = "convert"
      /\ UNCHANGED <<format, adaptive, onGpu, held, job>>
  BY DEF Scratch!Stream
<1>2. /\ job.layer \in ScratchLayers /\ job.only \subseteq ScratchExperts
      /\ onGpu[job.layer] \subseteq ScratchExperts
  BY DEF ScratchTypeOK
<1>3. slot' = [e \in ScratchExperts |-> IF e \notin Scratch!Streamed THEN slot[e]
                 ELSE IF e \in held[job.layer] THEN Scratch!Bytes(job.layer, e, 0) ELSE Off]
  BY DEF Scratch!Stream
<1>4. slot' \in [ScratchExperts -> {Off} \cup Scratch!Contents]
  BY <1>2, <1>3, BytesAreContents DEF ScratchTypeOK
<1>5. held[job.layer] = IF adaptive THEN ScratchExperts ELSE ScratchExperts \ onGpu[job.layer]
  BY <1>2 DEF ScratchStore
<1>6. Scratch!Streamed = IF job.only # {} THEN job.only
                         ELSE IF Scratch!Direct(format) THEN ScratchExperts \ onGpu[job.layer] ELSE ScratchExperts
  BY KindIsFormat DEF Scratch!Streamed, ScratchTypeOK
<1>7. ASSUME NEW e \in Due PROVE slot'[e] = Scratch!Bytes(job.layer, e, 0)
  <2>1. e \in ScratchExperts
    BY <1>2 DEF Due
  <2>2. CASE e \in Scratch!Streamed
    <3>1. job.only # {} => job.only \cap onGpu[job.layer] = {}
      BY <1>1 DEF LoadedSoFar
    <3>2. format # "w4afp8" /\ ~ Scratch!Direct(format) => adaptive
      BY DEF ScratchStore, ScratchTypeOK, Scratch!Formats, Scratch!Direct
    <3>3. e \in held[job.layer]
      BY <1>5, <1>6, <2>1, <2>2, <3>1, <3>2 DEF Due
    <3> QED
      BY <1>3, <2>1, <2>2, <3>3
  <2>3. CASE e \notin Scratch!Streamed
    <3>1. job.only = {} /\ Scratch!Direct(format) /\ e \in onGpu[job.layer]
      BY <1>6, <2>1, <2>3 DEF Due
    <3> QED
      BY <1>1, <1>3, <2>1, <2>3, <3>1 DEF LoadedSoFar
  <2> QED
    BY <2>2, <2>3
<1>8. LoadedSoFar'
  BY <1>1, <1>7 DEF LoadedSoFar, Due, Scratch!Bytes
<1> QED
  BY <1>1, <1>4, <1>8 DEF ScratchTypeOK, ScratchStore

LEMMA ConvertKeeps == ASSUME ScratchInv, Scratch!Convert PROVE ScratchInv'
<1> USE DEF ScratchInv
<1>1. /\ loadPc = "convert" /\ loadPc' = "overlay"
      /\ UNCHANGED <<format, adaptive, onGpu, held, job>>
  BY DEF Scratch!Convert
<1>2. slot' = IF Scratch!Needed(format) = 1
              THEN [e \in ScratchExperts |-> IF slot[e] = Off THEN Off ELSE [slot[e] EXCEPT !.converted = @ + 1]]
              ELSE slot
  BY KindIsFormat DEF Scratch!Convert, Scratch!Skips, ScratchTypeOK
<1>3. slot' \in [ScratchExperts -> {Off} \cup Scratch!Contents]
  BY <1>2 DEF ScratchTypeOK, Scratch!Contents
<1>4. Due \subseteq ScratchExperts /\ job.layer \in ScratchLayers
  BY DEF Due, ScratchTypeOK
<1>5. ASSUME NEW e \in Due PROVE slot'[e] = Scratch!Bytes(job.layer, e, Scratch!Needed(format))
  <2>1. slot[e] = Scratch!Bytes(job.layer, e, 0) /\ slot[e] # Off
    BY <1>1, <1>4, BytesAreContents, NothingIsNoBytes DEF LoadedSoFar
  <2> QED
    BY <1>2, <1>4, <2>1 DEF Scratch!Needed, Scratch!Bytes
<1>6. LoadedSoFar'
  BY <1>1, <1>5 DEF LoadedSoFar, Due, Scratch!Bytes, Scratch!Needed
<1> QED
  BY <1>1, <1>3, <1>6 DEF ScratchTypeOK, ScratchStore

LEMMA OverlayKeeps == ASSUME ScratchInv, Scratch!Overlay PROVE ScratchInv'
<1> USE DEF ScratchInv
<1>1. /\ loadPc = "overlay" /\ loadPc' = "ready"
      /\ UNCHANGED <<format, adaptive, onGpu, held, job>>
  BY DEF Scratch!Overlay
<1>2. slot' = [e \in ScratchExperts |-> IF e \in Scratch!Overlaid
                 THEN Scratch!Bytes(job.layer, e, Scratch!OfResidents(format)) ELSE slot[e]]
  BY DEF Scratch!Overlay
<1>3. Scratch!Overlaid = IF format = "w4afp8" /\ job.only = {} THEN onGpu[job.layer] ELSE {}
  BY KindIsFormat DEF Scratch!Overlaid, ScratchTypeOK
<1>4. /\ job.layer \in ScratchLayers /\ job.only \subseteq ScratchExperts
      /\ onGpu[job.layer] \subseteq ScratchExperts /\ Scratch!OfResidents(format) \in Nat
  BY DEF ScratchTypeOK, Scratch!OfResidents
<1>5. slot' \in [ScratchExperts -> {Off} \cup Scratch!Contents]
  BY <1>2, <1>4, BytesAreContents DEF ScratchTypeOK
<1>6. ASSUME NEW e \in Scratch!Read PROVE slot'[e] = Scratch!Bytes(job.layer, e, Scratch!Needed(format))
  <2>1. e \in ScratchExperts
    BY <1>4 DEF Scratch!Read
  <2>2. CASE e \in Scratch!Overlaid
    BY <1>2, <1>3, <2>1, <2>2 DEF Scratch!OfResidents, Scratch!Needed
  <2>3. CASE e \notin Scratch!Overlaid
    <3>1. e \in Due
      BY <1>3, <2>1, <2>3 DEF Scratch!Read, Due
    <3> QED
      BY <1>1, <1>2, <2>1, <2>3, <3>1 DEF LoadedSoFar
  <2> QED
    BY <2>2, <2>3
<1>7. LoadedSoFar'
  BY <1>1, <1>6 DEF LoadedSoFar, Scratch!Read, Scratch!Bytes, Scratch!Needed
<1> QED
  BY <1>1, <1>5, <1>7 DEF ScratchTypeOK, ScratchStore

LEMMA UseKeeps == ASSUME ScratchInv, Scratch!Use PROVE ScratchInv'
<1> USE DEF ScratchInv
<1>1. loadPc' = "idle" /\ UNCHANGED <<format, adaptive, held, slot, job>>
  BY DEF Scratch!Use
<1>2. onGpu' = onGpu \/ (adaptive /\ \E S \in SUBSET ScratchExperts : onGpu' = [onGpu EXCEPT ![job.layer] = S])
  BY DEF Scratch!Use, Scratch!kSubset
<1>3. onGpu' \in [ScratchLayers -> SUBSET ScratchExperts]
  BY <1>2 DEF ScratchTypeOK
<1>4. held' = [l \in ScratchLayers |-> IF adaptive' THEN ScratchExperts ELSE ScratchExperts \ onGpu'[l]]
  BY <1>1, <1>2 DEF ScratchStore
<1> QED
  BY <1>1, <1>3, <1>4 DEF ScratchTypeOK, ScratchStore, LoadedSoFar

LEMMA ScratchStays == ASSUME ScratchInv, UNCHANGED scratchVars PROVE ScratchInv'
BY DEF ScratchInv, ScratchTypeOK, ScratchStore, LoadedSoFar, Due, scratchVars, Scratch!Read,
   Scratch!Bytes, Scratch!Needed, Scratch!Direct

(* For any layers, experts, residents and formats, and whatever was loaded  *)
(* before: what a prefill or a swap reads out of the scratch layer are the  *)
(* bytes of its own layer and expert, converted once where the kernel needs *)
(* it. With four-bit weights and no adaptive cache it is false, because the *)
(* residents are then streamed from a store that does not hold them.        *)
THEOREM ScratchAlwaysServes ==
    ASSUME <<"int4", FALSE>> \notin ScratchCases
    PROVE  MCSpec => []ScratchServes
<1> DEFINE Inv == part = "scratch" => ScratchInv
<1>1. MCInit => Inv
  BY ScratchStarts DEF MCInit
<1>2. Inv /\ [MCNext]_MCVars => Inv'
  <2> SUFFICES ASSUME Inv, [MCNext]_MCVars, part' = "scratch" PROVE ScratchInv'
    OBVIOUS
  <2>1. ScratchInv /\ (Scratch!Next \/ UNCHANGED scratchVars)
    BY DEF MCNext, MCVars
  <2>2. CASE Scratch!Next
    BY <2>1, <2>2, RestoreKeeps, CopyResidentsKeeps, StreamKeeps, ConvertKeeps, OverlayKeeps, UseKeeps
    DEF Scratch!Next
  <2> QED
    BY <2>1, <2>2, ScratchStays
<1>3. Inv => ScratchServes
  <2> SUFFICES ASSUME ScratchInv, loadPc = "ready", NEW e \in Scratch!Read
               PROVE  /\ slot[e] # Off /\ slot[e].layer = job.layer /\ slot[e].expert = e
                      /\ slot[e].converted = Scratch!Needed(format)
    BY DEF ScratchServes, Scratch!SlotsOfThisLayer, Scratch!ConvertedOnce
  <2>1. slot[e] = Scratch!Bytes(job.layer, e, Scratch!Needed(format))
    BY DEF ScratchInv, LoadedSoFar
  <2>2. e \in ScratchExperts /\ job.layer \in ScratchLayers /\ Scratch!Needed(format) \in Nat
    BY DEF ScratchInv, ScratchTypeOK, Scratch!Read, Scratch!Needed
  <2> QED
    BY <2>1, <2>2, BytesAreContents, NothingIsNoBytes DEF Scratch!Bytes
<1> QED
  BY <1>1, <1>2, <1>3, PTL DEF MCSpec

-----------------------------------------------------------------------------
(* The slot prefetch (SlotPrefetch): the three streams.                     *)

(* What the theorem asks of the settings: the waits, the routing flip and   *)
(* the CPU skip are on together (finding 7 is what happens otherwise), and  *)
(* landed experts are not reused where some experts are on the SSD.         *)
PrefetchSettings ==
    \A k \in SlotKnobs : k.wait /\ k.route /\ k.cpuskip /\ (k.reuse = 2 => ~k.tier)

Main == queue["main"]
Side == queue["side"]
Cpu  == queue["cpu"]

Operation ==
    {o \in [do : {"select", "gather", "route", "submit", "experts", "merge"}, flag : BOOLEAN,
            arg : SUBSET (SlotExperts \cup (Nat \X SlotExperts)), wait : [Slots!Stream -> Nat]] :
        o.do # "gather" => o.arg \subseteq SlotExperts}
Queues(q) == q \in [Slots!Stream -> Seq(Operation)]

(* A forward is a selection, if there was a prediction, the routing, the    *)
(* GPU experts and the sum.                                                 *)
Follows(x, y) ==
    \/ x.do = "select" /\ y.do = "route" /\ y.flag
    \/ x.do = "route" /\ y.do = "experts" /\ y.flag = x.flag
    \/ x.do = "experts" /\ y.do = "merge"
    \/ x.do = "merge" /\ (y.do = "select" \/ (y.do = "route" /\ ~y.flag))

MainOrder(M, emitted) ==
    /\ \A i \in 1 .. Len(M) : M[i].do \in {"select", "route", "experts", "merge"}
    /\ \A i \in 1 .. Len(M) : i < Len(M) => Follows(M[i], M[i + 1])
    /\ M # <<>> => M[Len(M)].do = IF emitted THEN "select" ELSE "merge"

(* The operation two places ahead; nothing once it has run.                 *)
TwoBack(i) == IF i > 2 THEN i - 2 ELSE 0

(* What the operations on the main stream wait for: the GPU experts of a    *)
(* forward with a prediction for the gather of that prediction, the sum     *)
(* for the CPU half of its own forward.                                     *)
ExpertsWait(M, S, i) ==
    LET n == M[i].wait["side"]
    IN  /\ n > 0 => M[i].flag /\ n <= Len(S) /\ S[n].wait["main"] = TwoBack(i)
        /\ M[i].flag /\ n = 0 => i <= 2 /\ \A k \in 1 .. Len(S) : S[k].wait["main"] > 0
MergeWait(M, C, i) ==
    LET n == M[i].wait["cpu"]
    IN  /\ n > 0 => n <= Len(C) /\ C[n].wait["main"] = TwoBack(i)
        /\ n = 0 => i <= 2
MainWaits(M, S, C) ==
    \A i \in 1 .. Len(M) :
        /\ M[i].wait["main"] = 0
        /\ M[i].do # "experts" => M[i].wait["side"] = 0
        /\ M[i].do # "merge" => M[i].wait["cpu"] = 0
        /\ M[i].do = "experts" => ExpertsWait(M, S, i)
        /\ M[i].do = "merge" => MergeWait(M, C, i)

(* A gather waits for its selection, a CPU half for its routing.  The       *)
(* waits grow along a stream: at most its first operation waits for         *)
(* nothing on the main stream.                                              *)
GatherRuns(M, emitted) ==
    \/ M = <<>> /\ emitted
    \/ M # <<>> /\ M[1].do = "route" /\ M[1].flag /\ Len(M) > 1 /\ M[2].wait["side"] = 1
    \/ M # <<>> /\ M[1].do = "experts" /\ M[1].flag /\ M[1].wait["side"] = 1
GatherWaits(M, S, n) ==
    LET p == S[n].wait["main"]
    IN  M[p].do = "select" /\ ~S[n].flag /\ (p + 2 <= Len(M) => M[p + 2].wait["side"] = n)
SideWaits(M, S, emitted) ==
    /\ \A n \in 1 .. Len(S) :
        /\ S[n].do = "gather" /\ S[n].wait["side"] = 0 /\ S[n].wait["cpu"] = 0
        /\ S[n].wait["main"] <= Len(M)
        /\ S[n].wait["main"] > 0 => GatherWaits(M, S, n)
        /\ S[n].wait["main"] = 0 => n = 1 /\ GatherRuns(M, emitted)
    /\ \A n, k \in 1 .. Len(S) : n < k => S[n].wait["main"] < S[k].wait["main"]
    /\ \A p \in 1 .. Len(M) : M[p].do = "select" => \E n \in 1 .. Len(S) : S[n].wait["main"] = p

SubmitRuns(M, o) ==
    /\ M # <<>>
    /\ \/ M[1].do = "experts" /\ M[1].flag = o.flag /\ Len(M) > 1 /\ M[2].wait["cpu"] = 1
       \/ M[1].do = "merge" /\ M[1].wait["cpu"] = 1
SubmitWaits(M, C, n) ==
    LET p == C[n].wait["main"]
    IN  M[p].do = "route" /\ M[p].flag = C[n].flag /\ p + 2 <= Len(M) /\ M[p + 2].wait["cpu"] = n
CpuWaits(M, C) ==
    /\ \A n \in 1 .. Len(C) :
        /\ C[n].do = "submit" /\ C[n].wait["side"] = 0 /\ C[n].wait["cpu"] = 0
        /\ C[n].wait["main"] <= Len(M)
        /\ C[n].wait["main"] > 0 => SubmitWaits(M, C, n)
        /\ C[n].wait["main"] = 0 => n = 1 /\ SubmitRuns(M, C[n])
    /\ \A n, k \in 1 .. Len(C) : n < k => C[n].wait["main"] < C[k].wait["main"]

StreamsInv(q, emitted) ==
    /\ Queues(q)
    /\ MainOrder(q["main"], emitted)
    /\ MainWaits(q["main"], q["side"], q["cpu"])
    /\ SideWaits(q["main"], q["side"], emitted)
    /\ CpuWaits(q["main"], q["cpu"])

-----------------------------------------------------------------------------
(* The slots and the two halves of a forward.                               *)

(* A gather is under way, or due.                                           *)
GatherDue(q) == q["side"] # <<>> /\ q["side"][1].wait["main"] = 0
Gathering == GatherDue(queue)

(* A prediction has been selected, its forward not computed on the GPU yet. *)
Pending(q, emitted) ==
    \/ q["main"] = <<>> /\ emitted
    \/ q["main"] # <<>> /\ q["main"][1].do \in {"route", "experts"} /\ q["main"][1].flag
Predicted == Pending(queue, phase = "emitted")

Fetched(e) == IF e \in inStore THEN e ELSE Off

SlotTypes ==
    /\ knob \in SlotKnobs /\ phase \in {"idle", "emitted"} /\ issued = (phase = "emitted")
    /\ sel \in [Slots!Slot -> SlotExperts \cup {Nobody}] /\ hold \in [Slots!Slot -> SlotExperts \cup {Nobody}]
    /\ landed \subseteq SlotExperts /\ landedCpu = landed
    /\ index \in [SlotExperts -> Slots!Slot] /\ slots \in [Slots!Slot -> SlotExperts \cup {Off}]
    /\ ids \subseteq SlotExperts /\ gpuOut \in [SlotExperts -> SlotExperts \cup {Off, Nobody}]

(* Where the weights are, and that a gather finds what it was told to copy. *)
PlacesInv ==
    /\ resident \subseteq SlotExperts /\ ram \subseteq inStore \ resident /\ inStore \subseteq SlotExperts
    /\ table = Slots!Mapped(knob, resident)
    /\ ~knob.tier => SlotExperts \ resident \subseteq inStore
    /\ ~knob.tier /\ knob.moves => inStore = SlotExperts
    /\ \A s \in Slots!Slot : sel[s] \in SlotExperts => sel[s] \in table /\ (~knob.tier => sel[s] \in inStore)

HoldInv ==
    knob.reuse = 2 =>
        /\ knob.fused \/ \A s \in Slots!Slot : hold[s] = Nobody
        /\ \A s \in Slots!Slot : hold[s] \in SlotExperts =>
              IF Gathering /\ sel[s] \in SlotExperts THEN hold[s] = sel[s] ELSE slots[s] = hold[s]
        /\ Slots!NoTwinSlots

(* A landed expert is fetched in this forward or held since an earlier one. *)
LandedInv ==
    Predicted =>
        /\ landed \cap resident = {}
        /\ \A e \in landed :
              \/ sel[index[e]] = e
              \/ knob.reuse = 2 /\ sel[index[e]] \notin SlotExperts /\ hold[index[e]] = e
        /\ ~Gathering => \A s \in Slots!Slot : sel[s] \in SlotExperts => slots[s] = Fetched(sel[s])

GatherInv ==
    Side # <<>> /\ Side[1].flag =>
        Side[1].arg = {<<s, sel[s]>> : s \in {t \in Slots!Slot : sel[t] \in SlotExperts}}

(* What the halves of a forward compute, with its prediction or without.    *)
Here(flag) == IF flag THEN landed ELSE {}
RoutedIds(flag) ==
    /\ ids \subseteq resident \cup ram
    /\ knob.gpuOnly => ids \subseteq resident \cup Here(flag)
CpuHalf(flag) == cpuOut = (ids \ Here(flag)) \cap ram
GpuHalf(flag) ==
    /\ Here(flag) \cap resident = {}
    /\ \A e \in ids : gpuOut[e] = IF e \in resident \cup Here(flag) THEN e ELSE Nobody
ComputeInv ==
    Main # <<>> /\ Main[1].do \in {"experts", "merge"} =>
        \E flag \in BOOLEAN :
            /\ RoutedIds(flag)
            /\ Main[1].do = "experts" =>
                 /\ flag = Main[1].flag
                 /\ Main[2].wait["cpu"] = 0 => CpuHalf(flag)
            /\ Main[1].do = "merge" =>
                 /\ GpuHalf(flag)
                 /\ Main[1].wait["cpu"] = 0 => CpuHalf(flag)
                 /\ Main[1].wait["cpu"] > 0 => Cpu[1].flag = flag

Streams == StreamsInv(queue, phase = "emitted")
SlotInv ==
    /\ Streams
    /\ SlotTypes /\ PlacesInv /\ HoldInv /\ LandedInv /\ GatherInv /\ ComputeInv

-----------------------------------------------------------------------------
(* What an operation that finishes does to a queue.                         *)
Dec(k) == IF k > 0 THEN k - 1 ELSE 0
Popped(M, N) == Len(N) = Len(M) - 1 /\ \A i \in 1 .. Len(N) : N[i] = M[i + 1]
Waited(S, T, s) ==
    /\ Len(T) = Len(S)
    /\ \A i \in 1 .. Len(S) :
        /\ T[i].do = S[i].do /\ T[i].arg = S[i].arg /\ T[i].flag = S[i].flag
        /\ T[i].wait[s] = Dec(S[i].wait[s])
        /\ \A u \in Slots!Stream \ {s} : T[i].wait[u] = S[i].wait[u]
Finished(q, r, s) ==
    /\ Queues(r) /\ Popped(q[s], r[s])
    /\ \A t \in Slots!Stream \ {s} : Waited(q[t], r[t], s)

(* A wait that is one shorter is a vector of waits still.                   *)
LEMMA Countdown ==
    ASSUME NEW o \in Operation, NEW s \in Slots!Stream
    PROVE  LET p == [o EXCEPT !.wait[s] = IF @ > 0 THEN @ - 1 ELSE 0]
           IN  /\ p \in Operation
               /\ p.do = o.do /\ p.arg = o.arg /\ p.flag = o.flag
               /\ p.wait[s] = Dec(o.wait[s])
               /\ \A u \in Slots!Stream \ {s} : p.wait[u] = o.wait[u]
<1> DEFINE p == [o EXCEPT !.wait[s] = IF @ > 0 THEN @ - 1 ELSE 0]
<1>1. o.wait \in [Slots!Stream -> Nat]
  BY DEF Operation
<1>2. p = [o EXCEPT !.wait = [o.wait EXCEPT ![s] = Dec(o.wait[s])]]
  BY <1>1 DEF Dec, Operation
<1>3. [o.wait EXCEPT ![s] = Dec(o.wait[s])] \in [Slots!Stream -> Nat]
  BY <1>1 DEF Dec
<1> QED BY <1>1, <1>2, <1>3 DEF Operation

(* The queues after an operation has finished are queues again.             *)
LEMMA FinishFacts ==
    ASSUME NEW q, Queues(q), NEW s \in Slots!Stream, q[s] # <<>>
    PROVE  Finished(q, Slots!Finish(q, s), s)
<1> DEFINE r == Slots!Finish(q, s)
<1>1. \A t \in Slots!Stream : q[t] \in Seq(Operation)
  BY DEF Queues
<1>2. r[s] = Tail(q[s]) /\ r[s] \in Seq(Operation) /\ Popped(q[s], r[s])
  BY <1>1 DEF Slots!Finish, Popped
<1>3. ASSUME NEW t \in Slots!Stream \ {s}
      PROVE  r[t] \in Seq(Operation) /\ Waited(q[t], r[t], s)
  <2> DEFINE Shorter(i) == [q[t][i] EXCEPT !.wait[s] = IF @ > 0 THEN @ - 1 ELSE 0]
  <2>1. r[t] = [i \in 1 .. Len(q[t]) |-> Shorter(i)]
    BY <1>3 DEF Slots!Finish
  <2>2. \A i \in 1 .. Len(q[t]) : q[t][i] \in Operation
    BY <1>1
  <2>3. \A i \in 1 .. Len(q[t]) :
          /\ Shorter(i) \in Operation
          /\ Shorter(i).do = q[t][i].do /\ Shorter(i).arg = q[t][i].arg
          /\ Shorter(i).flag = q[t][i].flag
          /\ Shorter(i).wait[s] = Dec(q[t][i].wait[s])
          /\ \A u \in Slots!Stream \ {s} : Shorter(i).wait[u] = q[t][i].wait[u]
    BY <2>2, Countdown
  <2> HIDE DEF Shorter
  <2>4. Len(q[t]) \in Nat
    BY <1>1
  <2>5. r[t] \in Seq(Operation) /\ Len(r[t]) = Len(q[t])
    BY <2>1, <2>3, <2>4
  <2>6. \A i \in 1 .. Len(q[t]) : r[t][i] = Shorter(i)
    BY <2>1
  <2> QED BY <2>3, <2>5, <2>6 DEF Waited
<1>4. Queues(r)
  <2>1. r = [t \in Slots!Stream |-> r[t]]
    BY DEF Slots!Finish
  <2>2. \A t \in Slots!Stream : r[t] \in Seq(Operation)
    BY <1>2, <1>3
  <2> QED BY <2>1, <2>2 DEF Queues
<1> QED BY <1>2, <1>3, <1>4 DEF Finished

(* The waits between the streams, as the device finishes operations.        *)
Ops(M) == M \in Seq(Operation)

(* What a queued operation is made of.                                      *)
LEMMA OpTypes ==
    ASSUME NEW M, Ops(M), NEW i \in 1 .. Len(M)
    PROVE  /\ M[i].wait["main"] \in Nat /\ M[i].wait["side"] \in Nat /\ M[i].wait["cpu"] \in Nat
           /\ M[i].flag \in BOOLEAN /\ Len(M) \in Nat /\ M # <<>>
<1>1. M[i] \in Operation
  BY DEF Ops
<1>2. M[i].wait \in [Slots!Stream -> Nat]
  BY <1>1 DEF Operation
<1> QED BY <1>1, <1>2 DEF Operation, Slots!Stream, Ops

(* Waits that grow along a stream have at most one zero, at its head.       *)
LEMMA PopMainOrder ==
    ASSUME NEW M, NEW N, Ops(M), Ops(N), Popped(M, N), M # <<>>, NEW emitted, MainOrder(M, emitted)
    PROVE  MainOrder(N, emitted)
<1>1. Len(M) \in Nat /\ Len(N) \in Nat /\ Len(N) = Len(M) - 1
  BY DEF Ops, Popped
<1>2. \A i \in 1 .. Len(N) : N[i].do \in {"select", "route", "experts", "merge"}
  BY <1>1 DEF MainOrder, Popped
<1>3. \A i \in 1 .. Len(N) : i < Len(N) => Follows(N[i], N[i + 1])
  BY <1>1 DEF MainOrder, Popped
<1>4. N # <<>> => N[Len(N)] = M[Len(M)]
  BY <1>1 DEF Popped, Ops
<1> QED BY <1>2, <1>3, <1>4 DEF MainOrder

(* When an operation of main finishes, what the rest of main waits for      *)
(* moves one place.                                                         *)
LEMMA PopMainWaits ==
    ASSUME NEW M, NEW N, NEW S, NEW T, NEW C, NEW D, NEW emitted,
           Ops(M), Ops(N), Ops(S), Ops(T), Ops(C), Ops(D), M # <<>>,
           Popped(M, N), Waited(S, T, "main"), Waited(C, D, "main"),
           MainOrder(M, emitted), MainWaits(M, S, C), SideWaits(M, S, emitted)
    PROVE  MainWaits(N, T, D)
<1>1. Len(M) \in Nat /\ Len(N) \in Nat /\ Len(N) = Len(M) - 1 /\ Len(S) \in Nat /\ Len(C) \in Nat
      /\ Len(T) = Len(S) /\ Len(D) = Len(C)
  BY DEF Ops, Popped, Waited
<1> SUFFICES ASSUME NEW i \in 1 .. Len(N)
             PROVE  /\ N[i].wait["main"] = 0
                    /\ N[i].do # "experts" => N[i].wait["side"] = 0
                    /\ N[i].do # "merge" => N[i].wait["cpu"] = 0
                    /\ N[i].do = "experts" => ExpertsWait(N, T, i)
                    /\ N[i].do = "merge" => MergeWait(N, D, i)
  BY DEF MainWaits
<1>2. i + 1 \in 1 .. Len(M) /\ N[i] = M[i + 1]
  BY <1>1 DEF Popped
<1>3. Dec(TwoBack(i + 1)) = TwoBack(i)
  BY DEF Dec, TwoBack
<1>4. ASSUME N[i].do = "experts" PROVE ExpertsWait(N, T, i)
  <2> DEFINE n == M[i + 1].wait["side"]
  <2>1. n \in Nat
    BY <1>2, OpTypes
  <2>2. ExpertsWait(M, S, i + 1)
    BY <1>2, <1>4 DEF MainWaits
  <2>3. n > 0 => M[i + 1].flag /\ n <= Len(T) /\ T[n].wait["main"] = TwoBack(i)
    BY <1>1, <1>3, <2>1, <2>2 DEF ExpertsWait, Waited
  <2>4. ASSUME M[i + 1].flag, n = 0
        PROVE  i <= 2 /\ \A k \in 1 .. Len(T) : T[k].wait["main"] > 0
    <3>1. i = 1 /\ \A k \in 1 .. Len(S) : S[k].wait["main"] > 0
      BY <2>2, <2>4, <1>1 DEF ExpertsWait
    <3>2. M[1].do = "route"
      BY <3>1, <1>1, <1>2, <1>4 DEF MainOrder, Follows
    <3>3. \A k \in 1 .. Len(S) : S[k].wait["main"] # 1
      BY <3>2, <3>1 DEF SideWaits, GatherWaits
    <3>4. \A k \in 1 .. Len(S) : S[k].wait["main"] \in Nat
      BY OpTypes
    <3>5. ASSUME NEW k \in 1 .. Len(T) PROVE T[k].wait["main"] > 0
      <4>1. k \in 1 .. Len(S) /\ T[k].wait["main"] = Dec(S[k].wait["main"])
        BY <1>1 DEF Waited
      <4>2. PICK wt \in Nat : wt = S[k].wait["main"]
        BY <4>1, <3>4
      <4>3. wt > 0 /\ wt # 1
        BY <4>1, <4>2, <3>1, <3>3
      <4> QED BY <4>1, <4>2, <4>3 DEF Dec
    <3> QED BY <3>1, <3>5
  <2> QED BY <1>2, <2>3, <2>4 DEF ExpertsWait
<1>5. ASSUME N[i].do = "merge" PROVE MergeWait(N, D, i)
  <2> DEFINE n == M[i + 1].wait["cpu"]
  <2>1. n \in Nat
    BY <1>2, OpTypes
  <2>2. MergeWait(M, C, i + 1)
    BY <1>2, <1>5 DEF MainWaits
  <2> QED BY <1>1, <1>2, <1>3, <2>1, <2>2 DEF MergeWait, Waited
<1> QED BY <1>2, <1>4, <1>5 DEF MainWaits

(* ... the gathers wait for one operation less,                             *)
LEMMA PopMainSide ==
    ASSUME NEW M, NEW N, NEW S, NEW T, NEW emitted,
           Ops(M), Ops(N), Ops(S), Ops(T), M # <<>>,
           M[1].wait["side"] = 0,
           Popped(M, N), Waited(S, T, "main"),
           MainOrder(M, emitted), SideWaits(M, S, emitted)
    PROVE  SideWaits(N, T, emitted)
<1>1. Len(M) \in Nat \ {0} /\ Len(N) \in Nat /\ Len(N) = Len(M) - 1 /\ Len(S) \in Nat /\ Len(T) = Len(S)
  BY DEF Ops, Popped, Waited
<1>2. \A k \in 1 .. Len(S) : S[k].wait["main"] \in Nat /\ T[k].wait["main"] = Dec(S[k].wait["main"])
  BY OpTypes DEF Waited
<1>3. ASSUME NEW n \in 1 .. Len(S), S[n].wait["main"] = 0
      PROVE  n = 1 /\ GatherRuns(N, emitted) /\ M[1].do = "route"
  <2>1. n = 1 /\ GatherRuns(M, emitted)
    BY <1>3 DEF SideWaits
  <2>2. M[1].do = "route" /\ M[1].flag /\ Len(M) > 1 /\ M[2].wait["side"] = 1
    BY <2>1 DEF GatherRuns
  <2>3. Follows(M[1], M[2])
    BY <2>2, <1>1 DEF MainOrder
  <2>4. N[1] = M[2] /\ N # <<>>
    BY <2>2, <1>1 DEF Popped, Ops
  <2> QED BY <2>1, <2>2, <2>3, <2>4 DEF Follows, GatherRuns
<1>4. ASSUME NEW n \in 1 .. Len(S), S[n].wait["main"] = 1
      PROVE  n = 1 /\ GatherRuns(N, emitted) /\ M[1].do = "select"
  <2>1. M[1].do = "select" /\ (3 <= Len(M) => M[3].wait["side"] = n)
    BY <1>4 DEF SideWaits, GatherWaits
  <2>2. n = 1
    <3>1. SUFFICES ASSUME n > 1 PROVE FALSE
      BY <1>1
    <3>2. 1 \in 1 .. Len(S) /\ S[1].wait["main"] < 1
      BY <3>1, <1>1, <1>4 DEF SideWaits
    <3>3. S[1].wait["main"] = 0
      BY <3>2, <1>2
    <3> QED BY <3>2, <3>3, <1>3, <2>1
  <2>3. CASE N = <<>>
    <3>1. Len(N) = 0 /\ Len(M) = 1
      BY <2>3, <1>1
    <3> QED BY <2>1, <2>2, <2>3, <3>1 DEF MainOrder, GatherRuns
  <2>4. CASE N # <<>>
    <3>0. Len(N) > 0
      BY <2>4, <1>1 DEF Ops
    <3>1. Follows(M[1], M[2]) /\ N[1] = M[2]
      BY <3>0, <1>1 DEF MainOrder, Popped
    <3>2. N[1].do = "route" /\ N[1].flag
      BY <3>1, <2>1 DEF Follows
    <3>3. Len(M) > 2
      BY <3>0, <3>1, <3>2, <1>1 DEF MainOrder
    <3>4. N[2] = M[3] /\ M[3].wait["side"] = 1
      BY <3>3, <2>1, <2>2, <1>1 DEF Popped
    <3> QED BY <2>1, <2>2, <2>4, <3>2, <3>3, <3>4, <1>1 DEF GatherRuns
  <2> QED BY <2>3, <2>4
<1>5. ASSUME NEW n \in 1 .. Len(T)
      PROVE  /\ T[n].do = "gather" /\ T[n].wait["side"] = 0 /\ T[n].wait["cpu"] = 0
             /\ T[n].wait["main"] <= Len(N)
             /\ T[n].wait["main"] > 0 => GatherWaits(N, T, n)
             /\ T[n].wait["main"] = 0 => n = 1 /\ GatherRuns(N, emitted)
  <2>1. n \in 1 .. Len(S)
    BY <1>1
  <2>2. T[n].do = "gather" /\ T[n].wait["side"] = 0 /\ T[n].wait["cpu"] = 0
    BY <2>1 DEF Waited, SideWaits, Slots!Stream
  <2>3. T[n].wait["main"] <= Len(N)
    BY <2>1, <1>1, <1>2 DEF SideWaits, Dec
  <2>4. T[n].wait["main"] = 0 => S[n].wait["main"] \in {0, 1}
    BY <2>1, <1>2 DEF Dec
  <2>5. ASSUME T[n].wait["main"] > 0 PROVE GatherWaits(N, T, n)
    <3> DEFINE p == S[n].wait["main"]
    <3>1. p > 1 /\ T[n].wait["main"] = p - 1 /\ p \in Nat /\ p <= Len(M)
      BY <2>1, <2>5, <1>2 DEF Dec, SideWaits
    <3>2. GatherWaits(M, S, n)
      BY <2>1, <3>1 DEF SideWaits
    <3>3. N[p - 1] = M[p] /\ T[n].flag = S[n].flag
      BY <3>1, <2>1, <1>1 DEF Popped, Waited
    <3>4. ASSUME p + 1 <= Len(N) PROVE N[p + 1] = M[p + 2]
      <4>1. p + 1 \in 1 .. Len(N) /\ (p + 1) + 1 = p + 2
        BY <3>1, <3>4, <1>1
      <4> QED BY <4>1 DEF Popped
    <3>5. (p - 1) + 2 = p + 1 /\ (p + 1 <= Len(N) => p + 2 <= Len(M))
      BY <3>1, <1>1
    <3> QED BY <3>1, <3>2, <3>3, <3>4, <3>5 DEF GatherWaits
  <2> QED BY <2>1, <2>2, <2>3, <2>4, <2>5, <1>3, <1>4
<1>6. \A n, k \in 1 .. Len(T) : n < k => T[n].wait["main"] < T[k].wait["main"]
  <2> SUFFICES ASSUME NEW n \in 1 .. Len(S), NEW k \in 1 .. Len(S), n < k
               PROVE  T[n].wait["main"] < T[k].wait["main"]
    BY <1>1
  <2>1. S[n].wait["main"] < S[k].wait["main"]
    BY DEF SideWaits
  <2>2. ~(S[n].wait["main"] = 0 /\ S[k].wait["main"] = 1)
    BY <1>3, <1>4
  <2> QED BY <2>1, <2>2, <1>2 DEF Dec
<1>7. ASSUME NEW p \in 1 .. Len(N), N[p].do = "select"
      PROVE  \E n \in 1 .. Len(T) : T[n].wait["main"] = p
  <2>1. p + 1 \in 1 .. Len(M) /\ M[p + 1].do = "select"
    BY <1>1, <1>7 DEF Popped
  <2>2. PICK n \in 1 .. Len(S) : S[n].wait["main"] = p + 1
    BY <2>1 DEF SideWaits
  <2>3. T[n].wait["main"] = p
    BY <2>2, <1>2 DEF Dec
  <2> QED BY <2>3, <1>1
<1> QED BY <1>5, <1>6, <1>7 DEF SideWaits

(* ... and so do the CPU halves.                                            *)
LEMMA PopMainCpu ==
    ASSUME NEW M, NEW N, NEW C, NEW D, NEW emitted,
           Ops(M), Ops(N), Ops(C), Ops(D), M # <<>>,
           M[1].wait["cpu"] = 0,
           Popped(M, N), Waited(C, D, "main"),
           MainOrder(M, emitted), CpuWaits(M, C)
    PROVE  CpuWaits(N, D)
<1>1. Len(M) \in Nat \ {0} /\ Len(N) \in Nat /\ Len(N) = Len(M) - 1 /\ Len(C) \in Nat /\ Len(D) = Len(C)
  BY DEF Ops, Popped, Waited
<1>2. \A k \in 1 .. Len(C) : /\ C[k].wait["main"] \in Nat /\ D[k].wait["main"] = Dec(C[k].wait["main"])
                             /\ D[k].flag = C[k].flag
  BY OpTypes DEF Waited
<1>3. ASSUME NEW n \in 1 .. Len(C), C[n].wait["main"] = 0
      PROVE  n = 1 /\ SubmitRuns(N, D[n]) /\ M[1].do = "experts"
  <2>1. n = 1 /\ SubmitRuns(M, C[n])
    BY <1>3 DEF CpuWaits
  <2>2. M[1].do = "experts" /\ Len(M) > 1 /\ M[2].wait["cpu"] = 1
    BY <2>1 DEF SubmitRuns
  <2>3. Follows(M[1], M[2])
    BY <2>2, <1>1 DEF MainOrder
  <2>4. N[1] = M[2] /\ N # <<>>
    BY <2>2, <1>1 DEF Popped, Ops
  <2> QED BY <2>1, <2>2, <2>3, <2>4 DEF Follows, SubmitRuns
<1>4. ASSUME NEW n \in 1 .. Len(C), C[n].wait["main"] = 1
      PROVE  n = 1 /\ SubmitRuns(N, D[n]) /\ M[1].do = "route"
  <2>1. M[1].do = "route" /\ M[1].flag = C[n].flag /\ 3 <= Len(M) /\ M[3].wait["cpu"] = n
    BY <1>4 DEF CpuWaits, SubmitWaits
  <2>2. n = 1
    <3>1. SUFFICES ASSUME n > 1 PROVE FALSE
      BY <1>1
    <3>2. 1 \in 1 .. Len(C) /\ C[1].wait["main"] < 1
      BY <3>1, <1>1, <1>4 DEF CpuWaits
    <3>3. C[1].wait["main"] = 0
      BY <3>2, <1>2
    <3> QED BY <3>2, <3>3, <1>3, <2>1
  <2>3. Follows(M[1], M[2]) /\ N[1] = M[2] /\ N[2] = M[3] /\ N # <<>>
    BY <2>1, <1>1 DEF MainOrder, Popped, Ops
  <2>4. N[1].do = "experts" /\ N[1].flag = D[n].flag /\ N[2].wait["cpu"] = 1
    BY <2>1, <2>2, <2>3, <1>2 DEF Follows
  <2> QED BY <2>1, <2>2, <2>3, <2>4, <1>1 DEF SubmitRuns
<1>5. ASSUME NEW n \in 1 .. Len(D)
      PROVE  /\ D[n].do = "submit" /\ D[n].wait["side"] = 0 /\ D[n].wait["cpu"] = 0
             /\ D[n].wait["main"] <= Len(N)
             /\ D[n].wait["main"] > 0 => SubmitWaits(N, D, n)
             /\ D[n].wait["main"] = 0 => n = 1 /\ SubmitRuns(N, D[n])
  <2>1. n \in 1 .. Len(C)
    BY <1>1
  <2>2. D[n].do = "submit" /\ D[n].wait["side"] = 0 /\ D[n].wait["cpu"] = 0
    BY <2>1 DEF Waited, CpuWaits, Slots!Stream
  <2>3. D[n].wait["main"] <= Len(N)
    BY <2>1, <1>1, <1>2 DEF CpuWaits, Dec
  <2>4. D[n].wait["main"] = 0 => C[n].wait["main"] \in {0, 1}
    BY <2>1, <1>2 DEF Dec
  <2>5. ASSUME D[n].wait["main"] > 0 PROVE SubmitWaits(N, D, n)
    <3> DEFINE p == C[n].wait["main"]
    <3>1. p > 1 /\ D[n].wait["main"] = p - 1 /\ p \in Nat /\ p <= Len(M)
      BY <2>1, <2>5, <1>2 DEF Dec, CpuWaits
    <3>2. SubmitWaits(M, C, n)
      BY <2>1, <3>1 DEF CpuWaits
    <3>3. N[p - 1] = M[p] /\ D[n].flag = C[n].flag
      BY <3>1, <2>1, <1>1 DEF Popped, Waited
    <3>4. ASSUME p + 2 <= Len(M) PROVE N[p + 1] = M[p + 2] /\ p + 1 <= Len(N)
      <4>1. p + 1 \in 1 .. Len(N) /\ (p + 1) + 1 = p + 2
        BY <3>1, <3>4, <1>1
      <4> QED BY <4>1 DEF Popped
    <3>5. (p - 1) + 2 = p + 1
      BY <3>1
    <3> QED BY <3>1, <3>2, <3>3, <3>4, <3>5 DEF SubmitWaits
  <2> QED BY <2>1, <2>2, <2>3, <2>4, <2>5, <1>3, <1>4
<1>6. \A n, k \in 1 .. Len(D) : n < k => D[n].wait["main"] < D[k].wait["main"]
  <2> SUFFICES ASSUME NEW n \in 1 .. Len(C), NEW k \in 1 .. Len(C), n < k
               PROVE  D[n].wait["main"] < D[k].wait["main"]
    BY <1>1
  <2>1. C[n].wait["main"] < C[k].wait["main"]
    BY DEF CpuWaits
  <2>2. ~(C[n].wait["main"] = 0 /\ C[k].wait["main"] = 1)
    BY <1>3, <1>4
  <2> QED BY <2>1, <2>2, <1>2 DEF Dec
<1> QED BY <1>5, <1>6 DEF CpuWaits

(* The gather and the CPU half finish.                                      *)
LEMMA PopSideWaits ==
    ASSUME NEW M, NEW N, NEW S, NEW T, NEW C, NEW D, NEW emitted,
           Ops(M), Ops(N), Ops(S), Ops(T), Ops(C), Ops(D), S # <<>>, S[1].wait["main"] = 0,
           Popped(S, T), Waited(M, N, "side"), Waited(C, D, "side"),
           MainWaits(M, S, C), SideWaits(M, S, emitted)
    PROVE  MainWaits(N, T, D)
<1>1. Len(S) \in Nat \ {0} /\ Len(T) = Len(S) - 1 /\ Len(N) = Len(M) /\ Len(D) = Len(C) /\ Len(C) \in Nat
  BY DEF Ops, Popped, Waited
<1> SUFFICES ASSUME NEW i \in 1 .. Len(M)
             PROVE  /\ N[i].wait["main"] = 0
                    /\ N[i].do # "experts" => N[i].wait["side"] = 0
                    /\ N[i].do # "merge" => N[i].wait["cpu"] = 0
                    /\ N[i].do = "experts" => ExpertsWait(N, T, i)
                    /\ N[i].do = "merge" => MergeWait(N, D, i)
  BY <1>1 DEF MainWaits
<1>2. N[i].do = M[i].do /\ N[i].flag = M[i].flag /\ N[i].wait["side"] = Dec(M[i].wait["side"])
      /\ N[i].wait["main"] = M[i].wait["main"] /\ N[i].wait["cpu"] = M[i].wait["cpu"]
  BY DEF Waited, Slots!Stream
<1>3. M[i].wait["side"] \in Nat /\ M[i].wait["cpu"] \in Nat
  BY OpTypes
<1>4. ASSUME M[i].do = "experts" PROVE ExpertsWait(N, T, i)
  <2> DEFINE n == M[i].wait["side"]
  <2>1. ExpertsWait(M, S, i)
    BY <1>4 DEF MainWaits
  <2>2. CASE n > 1
    <3>0. n <= Len(S) /\ M[i].flag
      BY <2>1, <2>2, <1>3 DEF ExpertsWait
    <3>1. N[i].wait["side"] = n - 1 /\ n - 1 \in 1 .. Len(T) /\ (n - 1) + 1 = n
      <4>1. PICK wt \in Nat : wt = n
        BY <1>3
      <4>2. wt > 1 /\ wt <= Len(S) /\ Len(T) = Len(S) - 1 /\ Len(S) \in Nat
        BY <4>1, <3>0, <2>2, <1>1
      <4>3. wt - 1 \in 1 .. Len(T) /\ (wt - 1) + 1 = wt
        BY <4>2
      <4>4. Dec(wt) = wt - 1
        BY <4>2 DEF Dec
      <4> QED BY <4>1, <4>3, <4>4, <1>2
    <3>2. T[n - 1] = S[n]
      BY <3>1 DEF Popped
    <3> QED BY <2>1, <2>2, <3>0, <3>1, <3>2, <1>2 DEF ExpertsWait
  <2>3. CASE n = 1
    <3>1. N[i].wait["side"] = 0 /\ TwoBack(i) = 0
      BY <2>1, <2>3, <1>2 DEF ExpertsWait, Dec
    <3>2. i <= 2
      BY <3>1 DEF TwoBack
    <3>3. ASSUME NEW k \in 1 .. Len(T) PROVE T[k].wait["main"] > 0
      <4>1. T[k] = S[k + 1] /\ k + 1 \in 1 .. Len(S) /\ 1 \in 1 .. Len(S) /\ 1 < k + 1
        BY <1>1 DEF Popped
      <4>2. S[1].wait["main"] < S[k + 1].wait["main"]
        BY <4>1 DEF SideWaits
      <4> QED BY <4>1, <4>2
    <3> QED BY <3>1, <3>2, <3>3 DEF ExpertsWait
  <2>4. CASE n = 0
    <3>1. 1 \in 1 .. Len(S)
      BY <1>1
    <3>2. ~M[i].flag
      BY <2>1, <2>4, <3>1 DEF ExpertsWait
    <3> QED BY <2>4, <3>2, <1>2 DEF ExpertsWait, Dec
  <2> QED BY <2>2, <2>3, <2>4, <1>3
<1>5. ASSUME M[i].do = "merge" PROVE MergeWait(N, D, i)
  <2>1. MergeWait(M, C, i)
    BY <1>5 DEF MainWaits
  <2>2. \A k \in 1 .. Len(C) : D[k].wait["main"] = C[k].wait["main"]
    BY DEF Waited, Slots!Stream
  <2> QED BY <2>1, <2>2, <1>1, <1>2, <1>3 DEF MergeWait
<1>6. /\ M[i].wait["main"] = 0 /\ (M[i].do # "experts" => M[i].wait["side"] = 0)
      /\ (M[i].do # "merge" => M[i].wait["cpu"] = 0)
  BY DEF MainWaits
<1> QED BY <1>2, <1>4, <1>5, <1>6 DEF Dec

(* A gather that finishes leaves the next one in its place,                 *)
LEMMA PopSideSide ==
    ASSUME NEW M, NEW N, NEW S, NEW T, NEW emitted,
           Ops(M), Ops(N), Ops(S), Ops(T), S # <<>>, S[1].wait["main"] = 0,
           Popped(S, T), Waited(M, N, "side"), SideWaits(M, S, emitted)
    PROVE  SideWaits(N, T, emitted)
<1>1. Len(S) \in Nat \ {0} /\ Len(T) = Len(S) - 1 /\ Len(N) = Len(M) /\ Len(M) \in Nat
  BY DEF Ops, Popped, Waited
<1>2. \A p \in 1 .. Len(M) : N[p].do = M[p].do /\ N[p].wait["side"] = Dec(M[p].wait["side"])
  BY DEF Waited
<1>3. \A n \in 1 .. Len(T) : T[n] = S[n + 1] /\ n + 1 \in 1 .. Len(S)
  BY <1>1 DEF Popped
<1>4. ASSUME NEW n \in 1 .. Len(T) PROVE T[n].wait["main"] > 0 /\ T[n].wait["main"] \in Nat
  <2>1. 1 \in 1 .. Len(S) /\ 1 < n + 1 /\ n + 1 \in 1 .. Len(S)
    BY <1>1
  <2>2. S[1].wait["main"] < S[n + 1].wait["main"] /\ S[n + 1].wait["main"] \in Nat
    BY <2>1, OpTypes DEF SideWaits
  <2> QED BY <1>3, <2>2
<1>5. ASSUME NEW n \in 1 .. Len(T)
      PROVE  /\ T[n].do = "gather" /\ T[n].wait["side"] = 0 /\ T[n].wait["cpu"] = 0
             /\ T[n].wait["main"] <= Len(N) /\ GatherWaits(N, T, n)
  <2> DEFINE p == S[n + 1].wait["main"]
  <2>1. T[n] = S[n + 1] /\ n + 1 \in 1 .. Len(S) /\ p > 0 /\ p \in Nat
    BY <1>3, <1>4
  <2>2. GatherWaits(M, S, n + 1) /\ p <= Len(M)
    BY <2>1 DEF SideWaits
  <2>3. Dec(n + 1) = n
    BY <1>1 DEF Dec
  <2>4. p \in 1 .. Len(M) /\ (p + 2 <= Len(M) => p + 2 \in 1 .. Len(M))
    BY <2>1, <2>2, <1>1
  <2>5. GatherWaits(N, T, n)
    BY <2>1, <2>2, <2>3, <2>4, <1>1, <1>2 DEF GatherWaits
  <2> QED BY <2>1, <2>2, <2>5, <1>1 DEF SideWaits
<1>6. ASSUME NEW n \in 1 .. Len(T), NEW k \in 1 .. Len(T), n < k
      PROVE  T[n].wait["main"] < T[k].wait["main"]
  <2>1. n + 1 < k + 1
    BY <1>1, <1>6
  <2> QED BY <2>1, <1>3 DEF SideWaits
<1>7. ASSUME NEW p \in 1 .. Len(N), N[p].do = "select"
      PROVE  \E n \in 1 .. Len(T) : T[n].wait["main"] = p
  <2>1. PICK m \in 1 .. Len(S) : S[m].wait["main"] = p
    BY <1>1, <1>2, <1>7 DEF SideWaits
  <2>2. m # 1 /\ m - 1 \in 1 .. Len(T) /\ (m - 1) + 1 = m
    BY <2>1, <1>1
  <2>3. T[m - 1].wait["main"] = p
    BY <2>1, <2>2, <1>3
  <2> QED BY <2>2, <2>3
<1> QED BY <1>4, <1>5, <1>6, <1>7 DEF SideWaits

(* ... and the CPU stream as it was.                                        *)
LEMMA PopSideCpu ==
    ASSUME NEW M, NEW N, NEW C, NEW D, Ops(M), Ops(N), Ops(C), Ops(D),
           Waited(M, N, "side"), Waited(C, D, "side"), CpuWaits(M, C)
    PROVE  CpuWaits(N, D)
<1>1. Len(N) = Len(M) /\ Len(D) = Len(C) /\ Len(M) \in Nat /\ Len(C) \in Nat
  BY DEF Ops, Waited
<1>2. \A p \in 1 .. Len(M) : N[p].do = M[p].do /\ N[p].flag = M[p].flag /\ N[p].wait["cpu"] = M[p].wait["cpu"]
  BY DEF Waited, Slots!Stream
<1>3. \A n \in 1 .. Len(C) : /\ D[n].do = C[n].do /\ D[n].flag = C[n].flag
                             /\ D[n].wait["main"] = C[n].wait["main"] /\ D[n].wait["cpu"] = C[n].wait["cpu"]
                             /\ D[n].wait["side"] = Dec(C[n].wait["side"])
  BY DEF Waited, Slots!Stream
<1>4. ASSUME NEW n \in 1 .. Len(D)
      PROVE  /\ D[n].do = "submit" /\ D[n].wait["side"] = 0 /\ D[n].wait["cpu"] = 0
             /\ D[n].wait["main"] <= Len(N)
             /\ D[n].wait["main"] > 0 => SubmitWaits(N, D, n)
             /\ D[n].wait["main"] = 0 => n = 1 /\ SubmitRuns(N, D[n])
  <2>1. n \in 1 .. Len(C) /\ C[n].wait["main"] \in Nat
    BY <1>1, OpTypes
  <2>2. ASSUME C[n].wait["main"] > 0 PROVE SubmitWaits(N, D, n)
    <3> DEFINE p == C[n].wait["main"]
    <3>1. SubmitWaits(M, C, n) /\ p <= Len(M)
      BY <2>1, <2>2 DEF CpuWaits
    <3>2. p \in 1 .. Len(M) /\ p + 2 \in 1 .. Len(M)
      BY <2>1, <2>2, <3>1, <1>1 DEF SubmitWaits
    <3> QED BY <3>1, <3>2, <2>1, <1>1, <1>2, <1>3 DEF SubmitWaits
  <2>3. ASSUME C[n].wait["main"] = 0 PROVE n = 1 /\ SubmitRuns(N, D[n])
    <3>1. n = 1 /\ SubmitRuns(M, C[n])
      BY <2>1, <2>3 DEF CpuWaits
    <3>2. 1 \in 1 .. Len(M) /\ (Len(M) > 1 => 2 \in 1 .. Len(M)) /\ N # <<>>
      BY <3>1, <1>1 DEF SubmitRuns, Ops
    <3> QED BY <2>1, <3>1, <3>2, <1>1, <1>2, <1>3 DEF SubmitRuns
  <2> QED BY <2>1, <2>2, <2>3, <1>1, <1>3 DEF CpuWaits, Dec
<1>5. \A n, k \in 1 .. Len(D) : n < k => D[n].wait["main"] < D[k].wait["main"]
  BY <1>1, <1>3 DEF CpuWaits
<1> QED BY <1>4, <1>5 DEF CpuWaits

(* A CPU half that finishes releases at most the sum of its forward,        *)
LEMMA PopCpuMain ==
    ASSUME NEW M, NEW N, NEW S, NEW T, NEW C, NEW D,
           Ops(M), Ops(N), Ops(S), Ops(T), Ops(C), Ops(D), C # <<>>, C[1].wait["main"] = 0,
           Popped(C, D), Waited(M, N, "cpu"), Waited(S, T, "cpu"), MainWaits(M, S, C)
    PROVE  MainWaits(N, T, D)
<1>1. Len(C) \in Nat \ {0} /\ Len(D) = Len(C) - 1 /\ Len(N) = Len(M) /\ Len(T) = Len(S) /\ Len(S) \in Nat
  BY DEF Ops, Popped, Waited
<1> SUFFICES ASSUME NEW i \in 1 .. Len(M)
             PROVE  /\ N[i].wait["main"] = 0
                    /\ N[i].do # "experts" => N[i].wait["side"] = 0
                    /\ N[i].do # "merge" => N[i].wait["cpu"] = 0
                    /\ N[i].do = "experts" => ExpertsWait(N, T, i)
                    /\ N[i].do = "merge" => MergeWait(N, D, i)
  BY <1>1 DEF MainWaits
<1>2. N[i].do = M[i].do /\ N[i].flag = M[i].flag /\ N[i].wait["cpu"] = Dec(M[i].wait["cpu"])
      /\ N[i].wait["main"] = M[i].wait["main"] /\ N[i].wait["side"] = M[i].wait["side"]
  BY DEF Waited, Slots!Stream
<1>3. M[i].wait["side"] \in Nat /\ M[i].wait["cpu"] \in Nat
  BY OpTypes
<1>4. ASSUME M[i].do = "experts" PROVE ExpertsWait(N, T, i)
  <2>1. ExpertsWait(M, S, i)
    BY <1>4 DEF MainWaits
  <2>2. \A k \in 1 .. Len(S) : T[k].wait["main"] = S[k].wait["main"]
    BY DEF Waited, Slots!Stream
  <2> QED BY <2>1, <2>2, <1>1, <1>2, <1>3 DEF ExpertsWait
<1>5. ASSUME M[i].do = "merge" PROVE MergeWait(N, D, i)
  <2> DEFINE n == M[i].wait["cpu"]
  <2>1. MergeWait(M, C, i)
    BY <1>5 DEF MainWaits
  <2>2. CASE n > 1
    <3>1. N[i].wait["cpu"] = n - 1 /\ n - 1 \in 1 .. Len(D) /\ (n - 1) + 1 = n
      BY <2>1, <2>2, <1>1, <1>2, <1>3 DEF MergeWait, Dec
    <3>2. D[n - 1] = C[n]
      BY <3>1 DEF Popped
    <3> QED BY <2>1, <2>2, <3>1, <3>2 DEF MergeWait
  <2>3. CASE n = 1
    <3>1. N[i].wait["cpu"] = 0 /\ TwoBack(i) = 0
      BY <2>1, <2>3, <1>2 DEF MergeWait, Dec
    <3>2. i <= 2
      BY <3>1 DEF TwoBack
    <3> QED BY <3>1, <3>2 DEF MergeWait
  <2>4. CASE n = 0
    BY <2>1, <2>4, <1>2 DEF MergeWait, Dec
  <2> QED BY <2>2, <2>3, <2>4, <1>3
<1>6. /\ M[i].wait["main"] = 0 /\ (M[i].do # "experts" => M[i].wait["side"] = 0)
      /\ (M[i].do # "merge" => M[i].wait["cpu"] = 0)
  BY DEF MainWaits
<1> QED BY <1>2, <1>4, <1>5, <1>6 DEF Dec

(* ... leaves the gathers as they were,                                     *)
LEMMA PopCpuSide ==
    ASSUME NEW M, NEW N, NEW S, NEW T, NEW emitted, Ops(M), Ops(N), Ops(S), Ops(T),
           Waited(M, N, "cpu"), Waited(S, T, "cpu"), SideWaits(M, S, emitted)
    PROVE  SideWaits(N, T, emitted)
<1>1. Len(N) = Len(M) /\ Len(T) = Len(S) /\ Len(M) \in Nat /\ Len(S) \in Nat
  BY DEF Ops, Waited
<1>2. \A p \in 1 .. Len(M) : N[p].do = M[p].do /\ N[p].flag = M[p].flag /\ N[p].wait["side"] = M[p].wait["side"]
  BY DEF Waited, Slots!Stream
<1>3. \A n \in 1 .. Len(S) : /\ T[n].do = S[n].do /\ T[n].flag = S[n].flag
                             /\ T[n].wait["main"] = S[n].wait["main"] /\ T[n].wait["side"] = S[n].wait["side"]
                             /\ T[n].wait["cpu"] = Dec(S[n].wait["cpu"])
  BY DEF Waited, Slots!Stream
<1>4. ASSUME NEW n \in 1 .. Len(T)
      PROVE  /\ T[n].do = "gather" /\ T[n].wait["side"] = 0 /\ T[n].wait["cpu"] = 0
             /\ T[n].wait["main"] <= Len(N)
             /\ T[n].wait["main"] > 0 => GatherWaits(N, T, n)
             /\ T[n].wait["main"] = 0 => n = 1 /\ GatherRuns(N, emitted)
  <2>1. n \in 1 .. Len(S) /\ S[n].wait["main"] \in Nat
    BY <1>1, OpTypes
  <2>2. ASSUME S[n].wait["main"] > 0 PROVE GatherWaits(N, T, n)
    <3> DEFINE p == S[n].wait["main"]
    <3>1. GatherWaits(M, S, n) /\ p <= Len(M)
      BY <2>1, <2>2 DEF SideWaits
    <3>2. p \in 1 .. Len(M) /\ (p + 2 <= Len(M) => p + 2 \in 1 .. Len(M))
      BY <2>1, <2>2, <3>1, <1>1
    <3> QED BY <3>1, <3>2, <2>1, <1>1, <1>2, <1>3 DEF GatherWaits
  <2>3. ASSUME S[n].wait["main"] = 0 PROVE n = 1 /\ GatherRuns(N, emitted)
    <3>1. n = 1 /\ GatherRuns(M, emitted)
      BY <2>1, <2>3 DEF SideWaits
    <3>2. (M = <<>> <=> N = <<>>) /\ (M # <<>> => 1 \in 1 .. Len(M)) /\ (Len(M) > 1 => 2 \in 1 .. Len(M))
      BY <1>1 DEF Ops
    <3> QED BY <3>1, <3>2, <1>1, <1>2 DEF GatherRuns
  <2> QED BY <2>1, <2>2, <2>3, <1>1, <1>3 DEF SideWaits, Dec
<1>5. \A n, k \in 1 .. Len(T) : n < k => T[n].wait["main"] < T[k].wait["main"]
  BY <1>1, <1>3 DEF SideWaits
<1>6. ASSUME NEW p \in 1 .. Len(N), N[p].do = "select"
      PROVE  \E n \in 1 .. Len(T) : T[n].wait["main"] = p
  <2>1. p \in 1 .. Len(M) /\ M[p].do = "select"
    BY <1>1, <1>2, <1>6
  <2>2. PICK n \in 1 .. Len(S) : S[n].wait["main"] = p
    BY <2>1 DEF SideWaits
  <2> QED BY <2>2, <1>1, <1>3
<1> QED BY <1>4, <1>5, <1>6 DEF SideWaits

(* ... and the next CPU half in its place.                                  *)
LEMMA PopCpuCpu ==
    ASSUME NEW M, NEW N, NEW C, NEW D, Ops(M), Ops(N), Ops(C), Ops(D), C # <<>>, C[1].wait["main"] = 0,
           Popped(C, D), Waited(M, N, "cpu"), CpuWaits(M, C)
    PROVE  CpuWaits(N, D)
<1>1. Len(C) \in Nat \ {0} /\ Len(D) = Len(C) - 1 /\ Len(N) = Len(M) /\ Len(M) \in Nat
  BY DEF Ops, Popped, Waited
<1>2. \A p \in 1 .. Len(M) : N[p].do = M[p].do /\ N[p].flag = M[p].flag /\ N[p].wait["cpu"] = Dec(M[p].wait["cpu"])
  BY DEF Waited
<1>3. \A n \in 1 .. Len(D) : D[n] = C[n + 1] /\ n + 1 \in 1 .. Len(C)
  BY <1>1 DEF Popped
<1>4. ASSUME NEW n \in 1 .. Len(D)
      PROVE  /\ D[n].do = "submit" /\ D[n].wait["side"] = 0 /\ D[n].wait["cpu"] = 0
             /\ D[n].wait["main"] <= Len(N) /\ D[n].wait["main"] > 0 /\ SubmitWaits(N, D, n)
  <2> DEFINE p == C[n + 1].wait["main"]
  <2>1. 1 \in 1 .. Len(C) /\ 1 < n + 1 /\ n + 1 \in 1 .. Len(C) /\ D[n] = C[n + 1]
    BY <1>1, <1>3
  <2>2. C[1].wait["main"] < p /\ p \in Nat
    BY <2>1, OpTypes DEF CpuWaits
  <2>3. SubmitWaits(M, C, n + 1) /\ p <= Len(M) /\ p > 0
    BY <2>1, <2>2 DEF CpuWaits
  <2>4. Dec(n + 1) = n
    BY <1>1 DEF Dec
  <2>5. p \in 1 .. Len(M) /\ p + 2 \in 1 .. Len(M)
    BY <2>2, <2>3, <1>1 DEF SubmitWaits
  <2>6. SubmitWaits(N, D, n)
    BY <2>1, <2>3, <2>4, <2>5, <1>1, <1>2 DEF SubmitWaits
  <2> QED BY <2>1, <2>3, <2>6, <1>1 DEF CpuWaits
<1>5. ASSUME NEW n \in 1 .. Len(D), NEW k \in 1 .. Len(D), n < k
      PROVE  D[n].wait["main"] < D[k].wait["main"]
  <2>1. n + 1 < k + 1
    BY <1>1, <1>5
  <2> QED BY <2>1, <1>3 DEF CpuWaits
<1> QED BY <1>4, <1>5 DEF CpuWaits

(* The waits on main grow along a stream, so only its first operation       *)
(* can be free.                                                             *)
LEMMA WaitOrder ==
    ASSUME NEW M, NEW N, NEW s \in {"side", "cpu"}, Ops(M), Ops(N), Waited(M, N, s),
           NEW emitted, MainOrder(M, emitted)
    PROVE  MainOrder(N, emitted)
<1>1. Len(N) = Len(M) /\ Len(M) \in Nat /\ (N # <<>> => M # <<>> /\ Len(M) \in 1 .. Len(M))
  BY DEF Ops, Waited
<1>2. \A i \in 1 .. Len(M) : N[i].do = M[i].do /\ N[i].flag = M[i].flag
  BY DEF Waited
<1>3. ASSUME NEW i \in 1 .. Len(M), i < Len(M) PROVE Follows(N[i], N[i + 1])
  <2>1. i + 1 \in 1 .. Len(M)
    BY <1>1, <1>3
  <2>2. Follows(M[i], M[i + 1])
    BY <1>3 DEF MainOrder
  <2> QED BY <2>1, <2>2, <1>2 DEF Follows
<1> QED BY <1>1, <1>2, <1>3 DEF MainOrder

-----------------------------------------------------------------------------
(* One operation finishes.                                                  *)
LEMMA StreamOps ==
    ASSUME NEW q, Queues(q)
    PROVE  Ops(q["main"]) /\ Ops(q["side"]) /\ Ops(q["cpu"])
BY DEF Queues, Ops, Slots!Stream

(* A stream is ready when its first operation waits for nothing.            *)
LEMMA ReadyHead ==
    ASSUME NEW q, Queues(q), NEW s \in Slots!Stream, Slots!Ready(q, s)
    PROVE  /\ q[s] # <<>> /\ Head(q[s]) = q[s][1] /\ 1 \in 1 .. Len(q[s])
           /\ \A u \in Slots!Stream : q[s][1].wait[u] = 0
<1>1. q[s] \in Seq(Operation) /\ q[s] # <<>>
  BY DEF Queues, Slots!Ready
<1>2. Head(q[s]) = q[s][1] /\ 1 \in 1 .. Len(q[s])
  BY <1>1
<1> QED BY <1>1, <1>2 DEF Slots!Ready, Slots!NoWait

(* Whichever operation finishes, the streams stay in order.                 *)
LEMMA FinishStreams ==
    ASSUME NEW q, NEW emitted, StreamsInv(q, emitted), NEW s \in Slots!Stream, Slots!Ready(q, s)
    PROVE  StreamsInv(Slots!Finish(q, s), emitted) /\ Finished(q, Slots!Finish(q, s), s)
<1>1. PICK r : r = Slots!Finish(q, s)
  OBVIOUS
<1>2. Queues(q) /\ q[s] # <<>> /\ \A u \in Slots!Stream : q[s][1].wait[u] = 0
  BY ReadyHead DEF StreamsInv
<1>3. Finished(q, r, s)
  BY <1>1, <1>2, FinishFacts
<1>4. /\ Ops(q["main"]) /\ Ops(q["side"]) /\ Ops(q["cpu"])
      /\ Ops(r["main"]) /\ Ops(r["side"]) /\ Ops(r["cpu"])
  BY <1>2, <1>3, StreamOps DEF Finished
<1>5. /\ MainOrder(q["main"], emitted) /\ MainWaits(q["main"], q["side"], q["cpu"])
      /\ SideWaits(q["main"], q["side"], emitted) /\ CpuWaits(q["main"], q["cpu"])
  BY DEF StreamsInv
<1>6. "main" \in Slots!Stream /\ "side" \in Slots!Stream /\ "cpu" \in Slots!Stream
  BY DEF Slots!Stream
<1>7. CASE s = "main"
  <2>1. Popped(q["main"], r["main"]) /\ Waited(q["side"], r["side"], "main") /\ Waited(q["cpu"], r["cpu"], "main")
    BY <1>3, <1>6, <1>7 DEF Finished
  <2>2. q["main"] # <<>> /\ q["main"][1].wait["side"] = 0 /\ q["main"][1].wait["cpu"] = 0
    BY <1>2, <1>6, <1>7
  <2>3. MainOrder(r["main"], emitted)
    BY <1>4, <1>5, <2>1, <2>2, PopMainOrder
  <2>4. MainWaits(r["main"], r["side"], r["cpu"])
    BY <1>4, <1>5, <2>1, <2>2, PopMainWaits
  <2>5. SideWaits(r["main"], r["side"], emitted)
    BY <1>4, <1>5, <2>1, <2>2, PopMainSide
  <2>6. CpuWaits(r["main"], r["cpu"])
    BY <1>4, <1>5, <2>1, <2>2, PopMainCpu
  <2> QED BY <1>1, <1>3, <2>3, <2>4, <2>5, <2>6 DEF StreamsInv, Finished
<1>8. CASE s = "side"
  <2>1. Popped(q["side"], r["side"]) /\ Waited(q["main"], r["main"], "side") /\ Waited(q["cpu"], r["cpu"], "side")
    BY <1>3, <1>6, <1>8 DEF Finished
  <2>2. q["side"] # <<>> /\ q["side"][1].wait["main"] = 0
    BY <1>2, <1>6, <1>8
  <2>3. MainOrder(r["main"], emitted)
    BY <1>4, <1>5, <2>1, WaitOrder
  <2>4. MainWaits(r["main"], r["side"], r["cpu"])
    BY <1>4, <1>5, <2>1, <2>2, PopSideWaits
  <2>5. SideWaits(r["main"], r["side"], emitted)
    BY <1>4, <1>5, <2>1, <2>2, PopSideSide
  <2>6. CpuWaits(r["main"], r["cpu"])
    BY <1>4, <1>5, <2>1, <2>2, PopSideCpu
  <2> QED BY <1>1, <1>3, <2>3, <2>4, <2>5, <2>6 DEF StreamsInv, Finished
<1>9. CASE s = "cpu"
  <2>1. Popped(q["cpu"], r["cpu"]) /\ Waited(q["main"], r["main"], "cpu") /\ Waited(q["side"], r["side"], "cpu")
    BY <1>3, <1>6, <1>9 DEF Finished
  <2>2. q["cpu"] # <<>> /\ q["cpu"][1].wait["main"] = 0
    BY <1>2, <1>6, <1>9
  <2>3. MainOrder(r["main"], emitted)
    BY <1>4, <1>5, <2>1, WaitOrder
  <2>4. MainWaits(r["main"], r["side"], r["cpu"])
    BY <1>4, <1>5, <2>1, <2>2, PopCpuMain
  <2>5. SideWaits(r["main"], r["side"], emitted)
    BY <1>4, <1>5, <2>1, <2>2, PopCpuSide
  <2>6. CpuWaits(r["main"], r["cpu"])
    BY <1>4, <1>5, <2>1, <2>2, PopCpuCpu
  <2> QED BY <1>1, <1>3, <2>3, <2>4, <2>5, <2>6 DEF StreamsInv, Finished
<1> QED BY <1>7, <1>8, <1>9 DEF Slots!Stream

(* The gather that starts keeps its place.                                  *)
Marked(S, T) ==
    /\ Len(T) = Len(S)
    /\ \A n \in 1 .. Len(S) : /\ T[n].do = S[n].do /\ T[n].wait = S[n].wait
                              /\ (n > 1 => T[n] = S[n])

(* A gather that has started changes no wait.                               *)
LEMMA MarkStreams ==
    ASSUME NEW q, NEW r, NEW emitted, StreamsInv(q, emitted), Slots!Ready(q, "side"), Queues(r),
           r["main"] = q["main"], r["cpu"] = q["cpu"], Marked(q["side"], r["side"])
    PROVE  StreamsInv(r, emitted)
<1>1. PICK M, S, T, C : M = q["main"] /\ S = q["side"] /\ C = q["cpu"] /\ T = r["side"]
  OBVIOUS
<1>2. Ops(M) /\ Ops(S) /\ Ops(T) /\ Ops(C) /\ Len(T) = Len(S) /\ Len(S) \in Nat
  BY <1>1, StreamOps DEF StreamsInv, Marked, Ops
<1>3. MainOrder(M, emitted) /\ MainWaits(M, S, C) /\ SideWaits(M, S, emitted) /\ CpuWaits(M, C)
  BY <1>1 DEF StreamsInv
<1>4. S # <<>> /\ S[1].wait["main"] = 0
  BY <1>1, ReadyHead DEF StreamsInv, Slots!Stream
<1>5. \A n \in 1 .. Len(S) : T[n].do = S[n].do /\ T[n].wait = S[n].wait /\ (n > 1 => T[n].flag = S[n].flag)
  BY <1>1 DEF Marked
<1>6. MainWaits(M, T, C)
  <2>1. ASSUME NEW i \in 1 .. Len(M), ExpertsWait(M, S, i)
        PROVE  ExpertsWait(M, T, i)
    <3>1. M[i].wait["side"] \in Nat
      BY <1>2, OpTypes
    <3> QED BY <2>1, <3>1, <1>2, <1>5 DEF ExpertsWait
  <2> QED BY <2>1, <1>3 DEF MainWaits
<1>7. SideWaits(M, T, emitted)
  <2>1. ASSUME NEW n \in 1 .. Len(T)
        PROVE  /\ T[n].do = "gather" /\ T[n].wait["side"] = 0 /\ T[n].wait["cpu"] = 0
               /\ T[n].wait["main"] <= Len(M)
               /\ T[n].wait["main"] > 0 => GatherWaits(M, T, n)
               /\ T[n].wait["main"] = 0 => n = 1 /\ GatherRuns(M, emitted)
    <3>1. T[n].wait["main"] > 0 => n > 1
      BY <1>2, <1>4, <1>5
    <3> QED BY <3>1, <1>2, <1>3, <1>5 DEF SideWaits, GatherWaits
  <2>2. \A n, k \in 1 .. Len(T) : n < k => T[n].wait["main"] < T[k].wait["main"]
    BY <1>2, <1>3, <1>5 DEF SideWaits
  <2>3. \A p \in 1 .. Len(M) : M[p].do = "select" => \E n \in 1 .. Len(T) : T[n].wait["main"] = p
    BY <1>2, <1>3, <1>5 DEF SideWaits
  <2> QED BY <2>1, <2>2, <2>3 DEF SideWaits
<1> QED BY <1>1, <1>3, <1>6, <1>7 DEF StreamsInv
-----------------------------------------------------------------------------
(* The host appends operations.                                             *)
Longer(M, N, o) ==
    Ops(N) /\ Len(N) = Len(M) + 1 /\ N[Len(M) + 1] = o /\ \A i \in 1 .. Len(M) : N[i] = M[i]

(* A queue with one operation more.                                         *)
LEMMA AppendFacts ==
    ASSUME NEW M, Ops(M), NEW o \in Operation
    PROVE  Longer(M, Append(M, o), o)
BY DEF Ops, Longer

(* What wait_stream and no wait are made of.                                *)
LEMMA WaitTypes ==
    ASSUME NEW q, Queues(q), NEW t \in Slots!Stream
    PROVE  /\ Slots!NoWait \in [Slots!Stream -> Nat] /\ \A u \in Slots!Stream : Slots!NoWait[u] = 0
           /\ Slots!WaitFor(q, t) \in [Slots!Stream -> Nat] /\ Slots!WaitFor(q, t)[t] = Len(q[t])
           /\ \A u \in Slots!Stream : u # t => Slots!WaitFor(q, t)[u] = 0
<1>1. Len(q[t]) \in Nat
  BY DEF Queues
<1> QED BY <1>1 DEF Slots!NoWait, Slots!WaitFor

(* Appending to one stream leaves the others alone.                         *)
LEMMA EnqueueFacts ==
    ASSUME NEW q, NEW r, Queues(q), NEW s \in Slots!Stream, NEW o \in Operation, r = Slots!Enqueue(q, s, o)
    PROVE  /\ Queues(r) /\ Longer(q[s], r[s], o)
           /\ \A t \in Slots!Stream : t # s => r[t] = q[t]
<1>1. q[s] \in Seq(Operation) /\ Append(q[s], o) \in Seq(Operation)
  BY DEF Queues
<1>2. r[s] = Append(q[s], o) /\ Queues(r) /\ \A t \in Slots!Stream : t # s => r[t] = q[t]
  BY <1>1 DEF Slots!Enqueue, Queues
<1> QED BY <1>1, <1>2, AppendFacts DEF Ops

(* pf_issue: a selection and its gather.                                    *)
Selection(o) == o.do = "select" /\ o.flag \in BOOLEAN /\ \A u \in Slots!Stream : o.wait[u] = 0

(* pf_issue appends a selection to main and a gather to the side stream:    *)
(* the order of main,                                                       *)
LEMMA EmitMain ==
    ASSUME NEW M, NEW N, NEW o, Ops(M), Longer(M, N, o), Selection(o), MainOrder(M, FALSE)
    PROVE  MainOrder(N, TRUE)
<1>1. Len(M) \in Nat /\ Len(N) = Len(M) + 1 /\ \A i \in 1 .. Len(M) : N[i] = M[i]
  BY DEF Ops, Longer
<1>2. N[Len(N)].do = "select"
  BY DEF Longer, Selection
<1>3. \A i \in 1 .. Len(N) : N[i].do \in {"select", "route", "experts", "merge"}
  BY <1>1, <1>2 DEF MainOrder
<1>4. ASSUME NEW i \in 1 .. Len(N), i < Len(N) PROVE Follows(N[i], N[i + 1])
  <2>1. i \in 1 .. Len(M) /\ N[i] = M[i] /\ M # <<>>
    BY <1>1, <1>4 DEF Ops
  <2>2. CASE i < Len(M)
    <3>1. i + 1 \in 1 .. Len(M)
      BY <2>1, <2>2, <1>1
    <3> QED BY <2>1, <2>2, <3>1, <1>1 DEF MainOrder
  <2>3. CASE i = Len(M)
    BY <2>1, <2>3, <1>1, <1>2 DEF MainOrder, Follows
  <2> QED BY <2>1, <2>2, <2>3, <1>1
<1> QED BY <1>2, <1>3, <1>4 DEF MainOrder

(* ... what main waits for,                                                 *)
LEMMA EmitWaits ==
    ASSUME NEW M, NEW N, NEW S, NEW T, NEW C, NEW o, NEW g,
           Ops(M), Ops(S), Longer(M, N, o), Longer(S, T, g), Selection(o), Ops(C),
           g.wait["main"] = Len(M) + 1, MainWaits(M, S, C)
    PROVE  MainWaits(N, T, C)
<1>1. /\ Len(M) \in Nat /\ Len(N) = Len(M) + 1 /\ \A i \in 1 .. Len(M) : N[i] = M[i]
      /\ Len(S) \in Nat /\ Len(T) = Len(S) + 1 /\ T[Len(S) + 1] = g /\ N[Len(M) + 1] = o
      /\ \A i \in 1 .. Len(S) : T[i] = S[i]
  BY DEF Ops, Longer
<1>2. ASSUME NEW i \in 1 .. Len(M), ExpertsWait(M, S, i) PROVE ExpertsWait(N, T, i)
  <2>1. M[i].wait["side"] \in Nat /\ N[i] = M[i]
    BY <1>1, OpTypes
  <2>2. \A k \in 1 .. Len(T) : k \in 1 .. Len(S) \/ T[k].wait["main"] > 0
    BY <1>1
  <2> QED BY <1>1, <1>2, <2>1, <2>2 DEF ExpertsWait
<1>3. \A i \in 1 .. Len(M) : MergeWait(M, C, i) => MergeWait(N, C, i)
  BY <1>1 DEF MergeWait
<1>4. ASSUME NEW i \in 1 .. Len(N)
      PROVE  /\ N[i].wait["main"] = 0
             /\ N[i].do # "experts" => N[i].wait["side"] = 0
             /\ N[i].do # "merge" => N[i].wait["cpu"] = 0
             /\ N[i].do = "experts" => ExpertsWait(N, T, i)
             /\ N[i].do = "merge" => MergeWait(N, C, i)
  <2>1. CASE i = Len(M) + 1
    BY <2>1, <1>1 DEF Selection, Slots!Stream
  <2>2. CASE i \in 1 .. Len(M)
    BY <2>2, <1>1, <1>2, <1>3 DEF MainWaits
  <2> QED BY <2>1, <2>2, <1>1
<1> QED BY <1>4 DEF MainWaits

(* ... and the gathers.                                                     *)
LEMMA EmitSide ==
    ASSUME NEW M, NEW N, NEW S, NEW T, NEW o, NEW g,
           Ops(M), Ops(S), Longer(M, N, o), Longer(S, T, g), Selection(o),
           g.do = "gather", g.wait["main"] = Len(M) + 1, g.wait["side"] = 0, g.wait["cpu"] = 0, ~g.flag,
           MainOrder(M, FALSE), SideWaits(M, S, FALSE)
    PROVE  SideWaits(N, T, TRUE)
<1>1. /\ Len(M) \in Nat /\ Len(N) = Len(M) + 1 /\ \A i \in 1 .. Len(M) : N[i] = M[i]
      /\ Len(S) \in Nat /\ Len(T) = Len(S) + 1 /\ T[Len(S) + 1] = g /\ N[Len(M) + 1] = o
      /\ \A i \in 1 .. Len(S) : T[i] = S[i]
  BY DEF Ops, Longer
<1>2. ASSUME NEW n \in 1 .. Len(S), S[n].wait["main"] > 0 PROVE GatherWaits(N, T, n)
  <2> DEFINE p == S[n].wait["main"]
  <2>0. p \in Nat
    BY OpTypes
  <2>1. p \in 1 .. Len(M) /\ GatherWaits(M, S, n)
    <3>1. p <= Len(M) /\ GatherWaits(M, S, n)
      BY <1>2 DEF SideWaits
    <3> QED BY <2>0, <3>1, <1>2, <1>1
  <2>2. p # Len(M)
    BY <2>1 DEF MainOrder, GatherWaits, Ops
  <2>3. p + 1 # Len(M)
    <3>1. SUFFICES ASSUME p + 1 = Len(M) PROVE FALSE
      OBVIOUS
    <3>2. p < Len(M) /\ M # <<>>
      BY <2>1, <3>1, <1>1 DEF Ops
    <3>3. Follows(M[p], M[p + 1]) /\ M[Len(M)].do = "merge"
      BY <2>1, <3>2 DEF MainOrder
    <3> QED BY <2>1, <3>1, <3>3 DEF Follows, GatherWaits
  <2>4. p + 2 \in 1 .. Len(M)
    BY <2>1, <2>2, <2>3, <1>1
  <2>5. T[n] = S[n] /\ N[p] = M[p] /\ N[p + 2] = M[p + 2]
    BY <2>1, <2>4, <1>1
  <2>6. M[p].do = "select" /\ ~S[n].flag /\ M[p + 2].wait["side"] = n
    BY <2>1, <2>4 DEF GatherWaits
  <2> QED BY <2>5, <2>6 DEF GatherWaits
<1>3. ASSUME GatherRuns(M, FALSE) PROVE GatherRuns(N, TRUE)
  <2>1. 1 \in 1 .. Len(M) /\ (Len(M) > 1 => 2 \in 1 .. Len(M)) /\ N # <<>>
    BY <1>3, <1>1 DEF GatherRuns, Ops
  <2> QED BY <1>3, <2>1, <1>1 DEF GatherRuns
<1>4. N[Len(M) + 1].do = "select" /\ GatherWaits(N, T, Len(S) + 1)
  BY <1>1 DEF Selection, GatherWaits
<1>5. ASSUME NEW n \in 1 .. Len(S)
      PROVE  S[n].wait["main"] \in Nat /\ S[n].wait["main"] <= Len(M)
  BY OpTypes DEF SideWaits
<1> DEFINE Fits(n) ==
      /\ T[n].do = "gather" /\ T[n].wait["side"] = 0 /\ T[n].wait["cpu"] = 0
      /\ T[n].wait["main"] <= Len(N)
      /\ T[n].wait["main"] > 0 => GatherWaits(N, T, n)
      /\ T[n].wait["main"] = 0 => n = 1 /\ GatherRuns(N, TRUE)
<1>6. Fits(Len(S) + 1)
  <2>1. PICK k : k = Len(S) + 1
    OBVIOUS
  <2>2. T[k] = g /\ GatherWaits(N, T, k)
    BY <2>1, <1>1, <1>4
  <2>3. g.wait["main"] > 0 /\ g.wait["main"] <= Len(N) /\ g.wait["main"] # 0
    BY <1>1
  <2>4. Fits(k)
    BY <2>2, <2>3
  <2> QED BY <2>1, <2>4
<1>7. ASSUME NEW n \in 1 .. Len(S) PROVE Fits(n)
  <2>1. T[n] = S[n]
    BY <1>1
  <2>2. /\ S[n].do = "gather" /\ S[n].wait["side"] = 0 /\ S[n].wait["cpu"] = 0
        /\ S[n].wait["main"] = 0 => n = 1 /\ GatherRuns(M, FALSE)
    BY DEF SideWaits
  <2>3. S[n].wait["main"] <= Len(N)
    BY <1>1, <1>5
  <2> QED BY <2>1, <2>2, <2>3, <1>2, <1>3
<1>8. \A n \in 1 .. Len(T) : Fits(n)
  <2> HIDE DEF Fits
  <2> QED BY <1>1, <1>6, <1>7
<1>9. ASSUME NEW n \in 1 .. Len(T), NEW k \in 1 .. Len(T), n < k
      PROVE  T[n].wait["main"] < T[k].wait["main"]
  <2>0. n \in 1 .. Len(S)
    BY <1>1, <1>9
  <2>1. T[n] = S[n] /\ S[n].wait["main"] \in Nat /\ S[n].wait["main"] <= Len(M)
    BY <2>0, <1>1, <1>5
  <2>2. CASE k = Len(S) + 1
    BY <2>1, <2>2, <1>1
  <2>3. CASE k \in 1 .. Len(S)
    <3>1. S[n].wait["main"] < S[k].wait["main"]
      BY <2>0, <2>3, <1>9 DEF SideWaits
    <3> QED BY <3>1, <2>1, <2>3, <1>1
  <2> QED BY <2>2, <2>3, <1>1
<1>10. ASSUME NEW p \in 1 .. Len(N), N[p].do = "select"
      PROVE  \E n \in 1 .. Len(T) : T[n].wait["main"] = p
  <2>1. CASE p = Len(M) + 1
    BY <2>1, <1>1
  <2>2. CASE p \in 1 .. Len(M)
    <3>1. PICK n \in 1 .. Len(S) : S[n].wait["main"] = p
      BY <2>2, <1>1, <1>10 DEF SideWaits
    <3> QED BY <3>1, <1>1
  <2> QED BY <2>1, <2>2, <1>1
<1> QED BY <1>8, <1>9, <1>10 DEF SideWaits

(* The CPU halves do not see what is appended to the main stream.           *)
LEMMA LongerCpu ==
    ASSUME NEW M, NEW N, NEW C, NEW o, Ops(M), Ops(C), Longer(M, N, o), CpuWaits(M, C)
    PROVE  CpuWaits(N, C)
<1>1. Len(M) \in Nat /\ Len(N) = Len(M) + 1 /\ \A i \in 1 .. Len(M) : N[i] = M[i]
  BY DEF Ops, Longer
<1>2. ASSUME NEW n \in 1 .. Len(C), C[n].wait["main"] > 0 PROVE SubmitWaits(N, C, n)
  <2> DEFINE p == C[n].wait["main"]
  <2>1. SubmitWaits(M, C, n) /\ p \in Nat /\ p <= Len(M)
    BY <1>2, OpTypes DEF CpuWaits
  <2>2. p \in 1 .. Len(M) /\ p + 2 \in 1 .. Len(M)
    BY <2>1, <1>1, <1>2 DEF SubmitWaits
  <2> QED BY <2>1, <2>2, <1>1 DEF SubmitWaits
<1>3. ASSUME NEW n \in 1 .. Len(C), C[n].wait["main"] = 0 PROVE n = 1 /\ SubmitRuns(N, C[n])
  <2>1. n = 1 /\ SubmitRuns(M, C[n])
    BY <1>3 DEF CpuWaits
  <2>2. 1 \in 1 .. Len(M) /\ (Len(M) > 1 => 2 \in 1 .. Len(M)) /\ N # <<>>
    BY <2>1, <1>1 DEF SubmitRuns, Ops
  <2> QED BY <2>1, <2>2, <1>1 DEF SubmitRuns
<1>4. \A n \in 1 .. Len(C) : /\ C[n].do = "submit" /\ C[n].wait["side"] = 0 /\ C[n].wait["cpu"] = 0
                             /\ C[n].wait["main"] \in Nat /\ C[n].wait["main"] <= Len(M)
  BY OpTypes DEF CpuWaits
<1>5. \A n, k \in 1 .. Len(C) : n < k => C[n].wait["main"] < C[k].wait["main"]
  BY DEF CpuWaits
<1> QED BY <1>1, <1>2, <1>3, <1>4, <1>5 DEF CpuWaits

(* The streams after pf_issue.                                              *)
LEMMA EmitStreams ==
    ASSUME NEW q, NEW r, StreamsInv(q, FALSE), Queues(r), NEW o, NEW g,
           Longer(q["main"], r["main"], o), Longer(q["side"], r["side"], g), r["cpu"] = q["cpu"],
           Selection(o), g.do = "gather", g.wait["main"] = Len(q["main"]) + 1,
           g.wait["side"] = 0, g.wait["cpu"] = 0, ~g.flag
    PROVE  StreamsInv(r, TRUE)
<1>1. /\ Ops(q["main"]) /\ Ops(q["side"]) /\ Ops(q["cpu"])
  BY StreamOps DEF StreamsInv
<1>2. /\ MainOrder(q["main"], FALSE) /\ MainWaits(q["main"], q["side"], q["cpu"])
      /\ SideWaits(q["main"], q["side"], FALSE) /\ CpuWaits(q["main"], q["cpu"])
  BY DEF StreamsInv
<1>3. MainOrder(r["main"], TRUE)
  BY <1>1, <1>2, EmitMain
<1>4. MainWaits(r["main"], r["side"], q["cpu"])
  BY <1>1, <1>2, EmitWaits
<1>5. SideWaits(r["main"], r["side"], TRUE)
  BY <1>1, <1>2, EmitSide
<1>6. CpuWaits(r["main"], q["cpu"])
  BY <1>1, <1>2, LongerCpu
<1> QED BY <1>3, <1>4, <1>5, <1>6 DEF StreamsInv

(* apply: the routing and the GPU experts on main, the CPU half, the sum.   *)
ForwardOps(M, N, predicted, gathers, halves) ==
    LET n == Len(M)
    IN  /\ Ops(N) /\ Len(N) = n + 3 /\ \A i \in 1 .. n : N[i] = M[i]
        /\ N[n + 1].do = "route" /\ N[n + 1].flag = predicted
        /\ N[n + 1].wait["main"] = 0 /\ N[n + 1].wait["side"] = 0 /\ N[n + 1].wait["cpu"] = 0
        /\ N[n + 2].do = "experts" /\ N[n + 2].flag = predicted
        /\ N[n + 2].wait["main"] = 0 /\ N[n + 2].wait["cpu"] = 0
        /\ N[n + 2].wait["side"] = IF predicted THEN gathers ELSE 0
        /\ N[n + 3].do = "merge"
        /\ N[n + 3].wait["main"] = 0 /\ N[n + 3].wait["side"] = 0 /\ N[n + 3].wait["cpu"] = halves

(* apply appends the routing, the experts and the sum to main, and the CPU  *)
(* half to its stream: the order of main,                                   *)
LEMMA ApplyMain ==
    ASSUME NEW M, NEW N, Ops(M), NEW predicted \in BOOLEAN, MainOrder(M, predicted),
           \E gathers, halves : ForwardOps(M, N, predicted, gathers, halves)
    PROVE  MainOrder(N, FALSE)
<1>1. Len(M) \in Nat /\ Len(N) = Len(M) + 3 /\ \A i \in 1 .. Len(M) : N[i] = M[i]
  BY DEF Ops, ForwardOps
<1>2. N[Len(M) + 1].do = "route" /\ N[Len(M) + 1].flag = predicted /\ N[Len(M) + 2].do = "experts"
      /\ N[Len(M) + 2].flag = predicted /\ N[Len(M) + 3].do = "merge"
  BY DEF ForwardOps
<1>3. \A i \in 1 .. Len(N) : i \in 1 .. Len(M) \/ i = Len(M) + 1 \/ i = Len(M) + 2 \/ i = Len(M) + 3
  BY <1>1
<1>4. \A i \in 1 .. Len(N) : N[i].do \in {"select", "route", "experts", "merge"}
  BY <1>1, <1>2, <1>3 DEF MainOrder
<1>5. ASSUME NEW i \in 1 .. Len(N), i < Len(N) PROVE Follows(N[i], N[i + 1])
  <2>1. CASE i \in 1 .. Len(M) /\ i < Len(M)
    <3>1. i + 1 \in 1 .. Len(M)
      BY <2>1, <1>1
    <3> QED BY <2>1, <3>1, <1>1 DEF MainOrder
  <2>2. CASE i \in 1 .. Len(M) /\ i = Len(M)
    <3>1. M # <<>>
      BY <2>2 DEF Ops
    <3>2. N[i].do = IF predicted THEN "select" ELSE "merge"
      BY <2>2, <3>1, <1>1 DEF MainOrder
    <3> QED BY <2>2, <3>2, <1>2 DEF Follows
  <2>3. CASE i = Len(M) + 1
    <3>1. i + 1 = Len(M) + 2
      BY <2>3, <1>1
    <3> QED BY <2>3, <3>1, <1>2 DEF Follows
  <2>4. CASE i = Len(M) + 2
    <3>1. i + 1 = Len(M) + 3
      BY <2>4, <1>1
    <3> QED BY <2>4, <3>1, <1>2 DEF Follows
  <2> QED BY <2>1, <2>2, <2>3, <2>4, <1>1, <1>5
<1> QED BY <1>1, <1>2, <1>4, <1>5 DEF MainOrder

(* The last gather is that of the last selection.                           *)
LEMMA LastGather ==
    ASSUME NEW M, NEW S, Ops(M), Ops(S), MainOrder(M, TRUE), SideWaits(M, S, TRUE)
    PROVE  /\ S # <<>> => S[Len(S)].wait["main"] = Len(M)
           /\ M # <<>> => S # <<>>
           /\ M = <<>> => Len(S) \in {0, 1}
<1>1. Len(M) \in Nat /\ Len(S) \in Nat /\ (S # <<>> => Len(S) \in 1 .. Len(S))
  BY DEF Ops
<1>2. \A n \in 1 .. Len(S) : S[n].wait["main"] \in Nat /\ S[n].wait["main"] <= Len(M)
  BY OpTypes DEF SideWaits
<1>3. CASE M = <<>>
  <2>1. Len(M) = 0
    BY <1>3
  <2>2. ~(Len(S) > 1)
    <3> SUFFICES ASSUME Len(S) > 1 PROVE FALSE
      OBVIOUS
    <3>1. 1 \in 1 .. Len(S) /\ 2 \in 1 .. Len(S) /\ 1 < 2
      BY <1>1
    <3>2. S[1].wait["main"] < S[2].wait["main"]
      BY <3>1 DEF SideWaits
    <3> QED BY <3>1, <3>2, <2>1, <1>2
  <2>3. Len(S) \in {0, 1}
    BY <2>2, <1>1
  <2>4. S # <<>> => S[Len(S)].wait["main"] = Len(M)
    BY <2>1, <1>1, <1>2
  <2> QED BY <1>3, <2>3, <2>4
<1>4. CASE M # <<>>
  <2>1. Len(M) \in 1 .. Len(M) /\ M[Len(M)].do = "select"
    BY <1>4 DEF MainOrder, Ops
  <2>2. PICK k \in 1 .. Len(S) : S[k].wait["main"] = Len(M)
    BY <2>1 DEF SideWaits
  <2>3. ASSUME k < Len(S) PROVE FALSE
    <3>1. S[k].wait["main"] < S[Len(S)].wait["main"]
      BY <2>3, <1>1 DEF SideWaits
    <3> QED BY <3>1, <2>2, <1>1, <1>2
  <2>4. k = Len(S) /\ S # <<>>
    BY <2>2, <2>3, <1>1 DEF Ops
  <2> QED BY <1>4, <2>2, <2>4
<1> QED BY <1>3, <1>4

(* ... what main waits for,                                                 *)
LEMMA ApplyWaits ==
    ASSUME NEW M, NEW N, NEW S, NEW C, NEW D, NEW o, Ops(M), Ops(S), Ops(C), NEW predicted \in BOOLEAN,
           ForwardOps(M, N, predicted, Len(S), Len(C) + 1), Longer(C, D, o), o.wait["main"] = Len(M) + 1,
           MainOrder(M, predicted), MainWaits(M, S, C), SideWaits(M, S, predicted)
    PROVE  MainWaits(N, S, D)
<1>1. /\ Len(M) \in Nat /\ Len(N) = Len(M) + 3 /\ \A i \in 1 .. Len(M) : N[i] = M[i]
      /\ Len(S) \in Nat /\ Len(C) \in Nat /\ Len(D) = Len(C) + 1 /\ D[Len(C) + 1] = o
      /\ \A i \in 1 .. Len(C) : D[i] = C[i]
  BY DEF Ops, ForwardOps, Longer
<1> DEFINE Fits(i) ==
      /\ N[i].wait["main"] = 0
      /\ N[i].do # "experts" => N[i].wait["side"] = 0
      /\ N[i].do # "merge" => N[i].wait["cpu"] = 0
      /\ N[i].do = "experts" => ExpertsWait(N, S, i)
      /\ N[i].do = "merge" => MergeWait(N, D, i)
<1>2. ASSUME NEW i \in 1 .. Len(M) PROVE Fits(i)
  <2>1. N[i] = M[i] /\ M[i].wait["side"] \in Nat /\ M[i].wait["cpu"] \in Nat
    BY <1>1, OpTypes
  <2>2. ExpertsWait(M, S, i) => ExpertsWait(N, S, i)
    BY <2>1 DEF ExpertsWait
  <2>3. MergeWait(M, C, i) => MergeWait(N, D, i)
    BY <2>1, <1>1 DEF MergeWait
  <2> QED BY <2>1, <2>2, <2>3 DEF MainWaits
<1>3. Fits(Len(M) + 1)
  BY DEF ForwardOps
<1>4. Fits(Len(M) + 2)
  <2>1. PICK i : i = Len(M) + 2
    OBVIOUS
  <2>2. /\ N[i].do = "experts" /\ N[i].flag = predicted /\ N[i].wait["main"] = 0 /\ N[i].wait["cpu"] = 0
        /\ N[i].wait["side"] = IF predicted THEN Len(S) ELSE 0
    BY <2>1 DEF ForwardOps
  <2>3. TwoBack(i) = Len(M)
    BY <2>1, <1>1 DEF TwoBack
  <2>4. CASE predicted /\ S # <<>>
    <3>0. MainOrder(M, TRUE) /\ SideWaits(M, S, TRUE)
      BY <2>4
    <3>1. Len(S) > 0
      BY <2>4, <1>1 DEF Ops
    <3>2. S[Len(S)].wait["main"] = Len(M)
      BY <2>4, <3>0, LastGather
    <3> QED BY <2>1, <2>2, <2>3, <2>4, <3>1, <3>2, <1>1 DEF ExpertsWait
  <2>5. CASE predicted /\ S = <<>>
    <3>0. MainOrder(M, TRUE) /\ SideWaits(M, S, TRUE)
      BY <2>5
    <3>1. Len(S) = 0 /\ Len(M) = 0
      BY <2>5, <3>0, LastGather
    <3>2. i <= 2
      BY <3>1, <2>1
    <3> QED BY <2>1, <2>2, <2>5, <3>1, <3>2 DEF ExpertsWait
  <2>6. CASE ~predicted
    BY <2>1, <2>2, <2>6 DEF ExpertsWait
  <2> QED BY <2>4, <2>5, <2>6
<1>5. Fits(Len(M) + 3)
  <2>1. PICK i : i = Len(M) + 3
    OBVIOUS
  <2>2. /\ N[i].do = "merge" /\ N[i].wait["main"] = 0 /\ N[i].wait["side"] = 0
        /\ N[i].wait["cpu"] = Len(C) + 1
    BY <2>1 DEF ForwardOps
  <2>3. TwoBack(i) = Len(M) + 1
    BY <2>1, <1>1 DEF TwoBack
  <2>4. MergeWait(N, D, i)
    <3>1. PICK k : k = Len(C) + 1
      OBVIOUS
    <3>2. k > 0 /\ k <= Len(D) /\ D[k].wait["main"] = TwoBack(i) /\ N[i].wait["cpu"] = k
      BY <3>1, <2>2, <2>3, <1>1
    <3> QED BY <3>2 DEF MergeWait
  <2> QED BY <2>1, <2>2, <2>4
<1>6. \A i \in 1 .. Len(N) : Fits(i)
  <2> HIDE DEF Fits
  <2>1. \A i \in 1 .. Len(N) : i \in 1 .. Len(M) \/ i = Len(M) + 1 \/ i = Len(M) + 2 \/ i = Len(M) + 3
    BY <1>1
  <2> QED BY <2>1, <1>2, <1>3, <1>4, <1>5
<1> QED BY <1>6 DEF MainWaits

(* ... the gathers,                                                         *)
LEMMA ApplySide ==
    ASSUME NEW M, NEW N, NEW S, NEW halves, Ops(M), Ops(S), NEW predicted \in BOOLEAN,
           ForwardOps(M, N, predicted, Len(S), halves), MainOrder(M, predicted), SideWaits(M, S, predicted)
    PROVE  SideWaits(N, S, FALSE)
<1>1. Len(M) \in Nat /\ Len(N) = Len(M) + 3 /\ Len(S) \in Nat /\ \A i \in 1 .. Len(M) : N[i] = M[i]
  BY DEF Ops, ForwardOps
<1>2. ASSUME NEW n \in 1 .. Len(S), S[n].wait["main"] > 0 PROVE GatherWaits(N, S, n)
  <2>1. PICK p \in Nat : p = S[n].wait["main"]
    BY OpTypes
  <2>2. p > 0 /\ p <= Len(M) /\ GatherWaits(M, S, n)
    BY <2>1, <1>2 DEF SideWaits
  <2>3. p \in 1 .. Len(M)
    BY <2>2, <1>1
  <2>4. M[p].do = "select" /\ ~S[n].flag /\ N[p] = M[p]
    BY <2>1, <2>2, <2>3, <1>1 DEF GatherWaits
  <2>5. ASSUME p = Len(M) PROVE N[p + 2].wait["side"] = n
    <3>1. M # <<>> /\ predicted
      BY <2>3, <2>4, <2>5 DEF MainOrder, Ops
    <3>2. S # <<>> /\ S[Len(S)].wait["main"] = Len(M)
      BY <3>1, LastGather
    <3>3. n = Len(S)
      <4>1. SUFFICES ASSUME n < Len(S) PROVE FALSE
        BY <1>1
      <4>2. Len(S) \in 1 .. Len(S)
        BY <4>1, <1>1
      <4>3. S[n].wait["main"] < S[Len(S)].wait["main"]
        BY <4>1, <4>2 DEF SideWaits
      <4> QED BY <4>3, <3>2, <2>1, <2>5
    <3> QED BY <2>5, <3>1, <3>3 DEF ForwardOps
  <2>6. p + 1 # Len(M)
    <3>1. SUFFICES ASSUME p + 1 = Len(M) PROVE FALSE
      OBVIOUS
    <3>2. p < Len(M) /\ M # <<>>
      BY <2>3, <3>1, <1>1 DEF Ops
    <3>3. Follows(M[p], M[p + 1]) /\ M[Len(M)].do \in {"select", "merge"}
      BY <2>3, <3>2 DEF MainOrder
    <3> QED BY <2>4, <3>1, <3>3 DEF Follows
  <2>7. ASSUME p + 2 <= Len(M) PROVE N[p + 2].wait["side"] = n
    <3>1. p + 2 \in 1 .. Len(M)
      BY <2>3, <2>7, <1>1
    <3> QED BY <2>1, <2>2, <2>7, <3>1, <1>1 DEF GatherWaits
  <2>8. p = Len(M) \/ p + 2 <= Len(M)
    BY <2>3, <2>6, <1>1
  <2> QED BY <2>1, <2>4, <2>5, <2>7, <2>8 DEF GatherWaits
<1>3. ASSUME NEW n \in 1 .. Len(S), S[n].wait["main"] = 0
      PROVE  n = 1 /\ GatherRuns(N, FALSE)
  <2>1. n = 1 /\ GatherRuns(M, predicted)
    BY <1>3 DEF SideWaits
  <2>2. N # <<>>
    BY <1>1 DEF Ops
  <2>3. CASE M = <<>> /\ predicted
    <3>0. MainOrder(M, TRUE) /\ SideWaits(M, S, TRUE)
      BY <2>3
    <3>1. Len(S) \in {0, 1}
      BY <3>0, <2>3, LastGather
    <3>2. Len(M) = 0 /\ Len(S) = 1 /\ Len(M) + 1 = 1 /\ Len(M) + 2 = 2
      BY <3>1, <2>3, <1>1
    <3>3. N[Len(M) + 1].do = "route" /\ N[Len(M) + 1].flag /\ N[Len(M) + 2].wait["side"] = Len(S)
      BY <2>3 DEF ForwardOps
    <3>4. N[1].do = "route" /\ N[1].flag /\ Len(N) > 1 /\ N[2].wait["side"] = 1
      BY <3>2, <3>3, <1>1
    <3> QED BY <2>1, <2>2, <3>4 DEF GatherRuns
  <2>4. CASE ~(M = <<>> /\ predicted)
    <3>1. 1 \in 1 .. Len(M) /\ (Len(M) > 1 => 2 \in 1 .. Len(M))
      BY <2>1, <2>4, <1>1 DEF GatherRuns, Ops
    <3>2. N[1] = M[1] /\ (Len(M) > 1 => N[2] = M[2] /\ Len(N) > 1)
      BY <3>1, <1>1
    <3> QED BY <2>1, <2>2, <2>4, <3>2 DEF GatherRuns
  <2> QED BY <2>3, <2>4
<1>4. \A n \in 1 .. Len(S) : /\ S[n].do = "gather" /\ S[n].wait["side"] = 0 /\ S[n].wait["cpu"] = 0
                             /\ S[n].wait["main"] \in Nat /\ S[n].wait["main"] <= Len(M)
  BY OpTypes DEF SideWaits
<1>5. \A n, k \in 1 .. Len(S) : n < k => S[n].wait["main"] < S[k].wait["main"]
  BY DEF SideWaits
<1>6. ASSUME NEW p \in 1 .. Len(N), N[p].do = "select"
      PROVE  \E n \in 1 .. Len(S) : S[n].wait["main"] = p
  <2>1. p \in 1 .. Len(M) \/ p = Len(M) + 1 \/ p = Len(M) + 2 \/ p = Len(M) + 3
    BY <1>1
  <2>2. p \in 1 .. Len(M)
    BY <2>1, <1>6 DEF ForwardOps
  <2> QED BY <2>2, <1>1, <1>6 DEF SideWaits
<1>7. \A n \in 1 .. Len(S) : S[n].wait["main"] <= Len(N)
  BY <1>1, <1>4
<1> QED BY <1>2, <1>3, <1>4, <1>5, <1>6, <1>7 DEF SideWaits

(* ... and the CPU halves.                                                  *)
LEMMA ApplyCpu ==
    ASSUME NEW M, NEW N, NEW C, NEW D, NEW o, NEW gathers, Ops(M), Ops(C), NEW predicted \in BOOLEAN,
           ForwardOps(M, N, predicted, gathers, Len(C) + 1), Longer(C, D, o),
           o.do = "submit", o.flag = predicted, o.wait["main"] = Len(M) + 1, o.wait["side"] = 0, o.wait["cpu"] = 0,
           CpuWaits(M, C)
    PROVE  CpuWaits(N, D)
<1>1. /\ Len(M) \in Nat /\ Len(N) = Len(M) + 3 /\ \A i \in 1 .. Len(M) : N[i] = M[i]
      /\ Len(C) \in Nat /\ Len(D) = Len(C) + 1 /\ D[Len(C) + 1] = o
      /\ \A i \in 1 .. Len(C) : D[i] = C[i]
  BY DEF Ops, ForwardOps, Longer
<1> DEFINE Fits(n) ==
      /\ D[n].do = "submit" /\ D[n].wait["side"] = 0 /\ D[n].wait["cpu"] = 0
      /\ D[n].wait["main"] <= Len(N)
      /\ D[n].wait["main"] > 0 => SubmitWaits(N, D, n)
      /\ D[n].wait["main"] = 0 => n = 1 /\ SubmitRuns(N, D[n])
<1>2. ASSUME NEW n \in 1 .. Len(C)
      PROVE  C[n].wait["main"] \in Nat /\ C[n].wait["main"] <= Len(M) /\ D[n] = C[n]
  BY <1>1, OpTypes DEF CpuWaits
<1>3. ASSUME NEW n \in 1 .. Len(C) PROVE Fits(n)
  <2>1. ASSUME C[n].wait["main"] > 0 PROVE SubmitWaits(N, D, n)
    <3>1. PICK p \in Nat : p = C[n].wait["main"]
      BY <1>2
    <3>2. SubmitWaits(M, C, n)
      BY <2>1 DEF CpuWaits
    <3>3. M[p].do = "route" /\ M[p].flag = C[n].flag /\ p + 2 <= Len(M) /\ M[p + 2].wait["cpu"] = n
      BY <3>1, <3>2 DEF SubmitWaits
    <3>4. p \in 1 .. Len(M) /\ p + 2 \in 1 .. Len(M) /\ p + 2 <= Len(N)
      <4>1. p > 0 /\ p + 2 <= Len(M) /\ Len(N) = Len(M) + 3 /\ Len(M) \in Nat
        BY <3>1, <3>3, <2>1, <1>1
      <4> QED BY <3>1, <4>1
    <3>5. N[p] = M[p] /\ N[p + 2] = M[p + 2]
      BY <3>4, <1>1
    <3> QED BY <3>1, <3>3, <3>4, <3>5, <1>2 DEF SubmitWaits
  <2>2. ASSUME C[n].wait["main"] = 0 PROVE n = 1 /\ SubmitRuns(N, D[n])
    <3>1. n = 1 /\ SubmitRuns(M, C[n])
      BY <2>2 DEF CpuWaits
    <3>2. 1 \in 1 .. Len(M) /\ (Len(M) > 1 => 2 \in 1 .. Len(M)) /\ N # <<>>
      BY <3>1, <1>1 DEF SubmitRuns, Ops
    <3>3. N[1] = M[1] /\ (Len(M) > 1 => N[2] = M[2] /\ Len(N) > 1)
      BY <3>2, <1>1
    <3> QED BY <3>1, <3>2, <3>3, <1>2 DEF SubmitRuns
  <2>3. C[n].do = "submit" /\ C[n].wait["side"] = 0 /\ C[n].wait["cpu"] = 0
    BY DEF CpuWaits
  <2>4. C[n].wait["main"] <= Len(N)
    BY <1>1, <1>2
  <2> QED BY <2>1, <2>2, <2>3, <2>4, <1>2
<1>4. Fits(Len(C) + 1)
  <2>1. PICK n, p : n = Len(C) + 1 /\ p = Len(M) + 1
    OBVIOUS
  <2>2. D[n] = o /\ o.wait["main"] = p /\ p > 0 /\ p <= Len(N) /\ p # 0
    BY <2>1, <1>1
  <2>3. p + 2 = Len(M) + 3 /\ p + 2 <= Len(N)
    BY <2>1, <1>1
  <2>4. N[p].do = "route" /\ N[p].flag = predicted /\ N[p + 2].wait["cpu"] = n
    BY <2>1, <2>3 DEF ForwardOps
  <2>5. SubmitWaits(N, D, n)
    BY <2>2, <2>3, <2>4 DEF SubmitWaits
  <2>6. Fits(n)
    BY <2>2, <2>5
  <2> QED BY <2>1, <2>6
<1>5. \A n \in 1 .. Len(D) : Fits(n)
  <2> HIDE DEF Fits
  <2> QED BY <1>1, <1>3, <1>4
<1>6. ASSUME NEW n \in 1 .. Len(D), NEW k \in 1 .. Len(D), n < k
      PROVE  D[n].wait["main"] < D[k].wait["main"]
  <2>0. n \in 1 .. Len(C)
    BY <1>1, <1>6
  <2>1. D[n] = C[n] /\ C[n].wait["main"] \in Nat /\ C[n].wait["main"] <= Len(M)
    BY <2>0, <1>2
  <2>2. CASE k = Len(C) + 1
    BY <2>1, <2>2, <1>1
  <2>3. CASE k \in 1 .. Len(C)
    <3>1. C[n].wait["main"] < C[k].wait["main"]
      BY <2>0, <2>3, <1>6 DEF CpuWaits
    <3> QED BY <3>1, <2>1, <2>3, <1>1
  <2> QED BY <2>2, <2>3, <1>1
<1> QED BY <1>5, <1>6 DEF CpuWaits

(* The streams after apply.                                                 *)
LEMMA ApplyStreams ==
    ASSUME NEW q, NEW r, NEW predicted \in BOOLEAN, StreamsInv(q, predicted), Queues(r), NEW o,
           ForwardOps(q["main"], r["main"], predicted, Len(q["side"]), Len(q["cpu"]) + 1),
           r["side"] = q["side"], Longer(q["cpu"], r["cpu"], o),
           o.do = "submit", o.flag = predicted, o.wait["main"] = Len(q["main"]) + 1,
           o.wait["side"] = 0, o.wait["cpu"] = 0
    PROVE  StreamsInv(r, FALSE)
<1>1. /\ Ops(q["main"]) /\ Ops(q["side"]) /\ Ops(q["cpu"])
  BY StreamOps DEF StreamsInv
<1>2. /\ MainOrder(q["main"], predicted) /\ MainWaits(q["main"], q["side"], q["cpu"])
      /\ SideWaits(q["main"], q["side"], predicted) /\ CpuWaits(q["main"], q["cpu"])
  BY DEF StreamsInv
<1>3. MainOrder(r["main"], FALSE)
  <2>1. PICK M, N : M = q["main"] /\ N = r["main"]
    OBVIOUS
  <2>2. Ops(M) /\ MainOrder(M, predicted) /\ \E gathers, halves : ForwardOps(M, N, predicted, gathers, halves)
    BY <1>1, <1>2, <2>1
  <2>3. MainOrder(N, FALSE)
    BY <2>2, ApplyMain
  <2> QED BY <2>1, <2>3
<1>4. MainWaits(r["main"], q["side"], r["cpu"])
  BY <1>1, <1>2, ApplyWaits
<1>5. SideWaits(r["main"], q["side"], FALSE)
  BY <1>1, <1>2, ApplySide
<1>6. CpuWaits(r["main"], r["cpu"])
  BY <1>1, <1>2, ApplyCpu
<1> QED BY <1>3, <1>4, <1>5, <1>6 DEF StreamsInv

-----------------------------------------------------------------------------
(* What the head of a stream says about the others.                         *)
LEMMA StreamHeads ==
    ASSUME NEW q, NEW emitted, StreamsInv(q, emitted)
    PROVE  /\ GatherDue(q) => GatherRuns(q["main"], emitted)
           /\ q["main"] # <<>> =>
                /\ 1 \in 1 .. Len(q["main"])
                /\ q["main"][1].do \in {"select", "route", "experts", "merge"}
                /\ q["main"][1].do # "merge" /\ q["main"][1].do # "select" => 2 \in 1 .. Len(q["main"])
           /\ q["main"] # <<>> /\ q["main"][1].do # "select" =>
                \A n \in 1 .. Len(q["side"]) : q["side"][n].wait["main"] # 1
<1>1. Ops(q["main"]) /\ Ops(q["side"]) /\ Ops(q["cpu"])
  BY StreamOps DEF StreamsInv
<1>2. MainOrder(q["main"], emitted) /\ SideWaits(q["main"], q["side"], emitted)
  BY DEF StreamsInv
<1>3. GatherDue(q) => GatherRuns(q["main"], emitted)
  <2>1. GatherDue(q) => 1 \in 1 .. Len(q["side"])
    BY <1>1 DEF GatherDue, Ops
  <2> QED BY <2>1, <1>2 DEF GatherDue, SideWaits
<1>4. ASSUME q["main"] # <<>>
      PROVE  /\ 1 \in 1 .. Len(q["main"])
             /\ q["main"][1].do \in {"select", "route", "experts", "merge"}
             /\ q["main"][1].do # "merge" /\ q["main"][1].do # "select" => 2 \in 1 .. Len(q["main"])
  <2>1. 1 \in 1 .. Len(q["main"]) /\ Len(q["main"]) \in Nat
    BY <1>1, <1>4 DEF Ops
  <2>2. Len(q["main"]) = 1 => q["main"][1].do \in {"select", "merge"}
    BY <1>2, <1>4 DEF MainOrder
  <2> QED BY <2>1, <2>2, <1>2 DEF MainOrder
<1>5. ASSUME q["main"][1].do # "select", NEW n \in 1 .. Len(q["side"]), q["side"][n].wait["main"] = 1
      PROVE  FALSE
  BY <1>2, <1>5 DEF SideWaits, GatherWaits
<1> QED BY <1>3, <1>4, <1>5

(* Popping the main stream.                                                 *)
LEMMA PopMain ==
    ASSUME NEW q, NEW r, NEW emitted, StreamsInv(q, emitted), Slots!Ready(q, "main"),
           r = Slots!Finish(q, "main")
    PROVE  /\ StreamsInv(r, emitted) /\ q["main"] # <<>> /\ 1 \in 1 .. Len(q["main"])
           /\ Head(q["main"]) = q["main"][1] /\ \A u \in Slots!Stream : q["main"][1].wait[u] = 0
           /\ Popped(q["main"], r["main"])
           /\ Waited(q["side"], r["side"], "main") /\ Waited(q["cpu"], r["cpu"], "main")
           /\ r["main"] # <<>> =>
                /\ r["main"][1] = q["main"][2] /\ 2 \in 1 .. Len(q["main"])
                /\ Follows(q["main"][1], r["main"][1])
           /\ r["main"] = <<>> => q["main"][1].do = IF emitted THEN "select" ELSE "merge"
           /\ \A n \in {1, 2} : n \in 1 .. Len(r["main"]) => r["main"][n] = q["main"][n + 1]
<1>0. "main" \in Slots!Stream /\ "side" \in Slots!Stream /\ "cpu" \in Slots!Stream
  BY DEF Slots!Stream
<1>1. Queues(q) /\ StreamsInv(r, emitted) /\ Finished(q, r, "main")
  BY <1>0, FinishStreams DEF StreamsInv
<1>2. /\ q["main"] # <<>> /\ 1 \in 1 .. Len(q["main"])
      /\ Head(q["main"]) = q["main"][1] /\ \A u \in Slots!Stream : q["main"][1].wait[u] = 0
  BY <1>0, <1>1, ReadyHead
<1>3. /\ Popped(q["main"], r["main"])
      /\ Waited(q["side"], r["side"], "main") /\ Waited(q["cpu"], r["cpu"], "main")
  BY <1>0, <1>1 DEF Finished
<1>4. Ops(q["main"]) /\ Ops(r["main"])
  BY <1>1, StreamOps DEF StreamsInv
<1>5. MainOrder(q["main"], emitted)
  BY DEF StreamsInv
<1>6. ASSUME r["main"] # <<>>
      PROVE  /\ r["main"][1] = q["main"][2] /\ 2 \in 1 .. Len(q["main"])
             /\ Follows(q["main"][1], r["main"][1])
  <2>1. 1 \in 1 .. Len(r["main"]) /\ 2 \in 1 .. Len(q["main"]) /\ 1 < Len(q["main"])
    BY <1>3, <1>4, <1>6 DEF Popped, Ops
  <2>2. r["main"][1] = q["main"][2]
    BY <2>1, <1>3 DEF Popped
  <2>3. Follows(q["main"][1], q["main"][2])
    BY <2>1, <1>2, <1>5 DEF MainOrder
  <2> QED BY <2>1, <2>2, <2>3
<1>7. ASSUME r["main"] = <<>> PROVE q["main"][1].do = IF emitted THEN "select" ELSE "merge"
  <2>1. PICK n \in Nat : n = Len(q["main"])
    BY <1>4 DEF Ops
  <2>2. Len(r["main"]) = 0
    BY <1>7
  <2>3. Len(r["main"]) = n - 1
    BY <2>1, <1>3 DEF Popped
  <2>4. n = 1
    BY <2>2, <2>3
  <2> QED BY <2>1, <2>4, <1>2, <1>5 DEF MainOrder
<1>8. \A n \in {1, 2} : n \in 1 .. Len(r["main"]) => r["main"][n] = q["main"][n + 1]
  BY <1>3 DEF Popped
<1> QED BY <1>1, <1>2, <1>3, <1>6, <1>7, <1>8

(* After a selection its gather is due.                                     *)
LEMMA SelectControl ==
    ASSUME NEW q, NEW r, NEW emitted, StreamsInv(q, emitted), Slots!Ready(q, "main"),
           r = Slots!Finish(q, "main"), Head(q["main"]).do = "select"
    PROVE  /\ StreamsInv(r, emitted) /\ ~GatherDue(q) /\ GatherDue(r) /\ ~r["side"][1].flag
           /\ Pending(r, emitted) /\ (r["main"] # <<>> => r["main"][1].do = "route")
<1>1. /\ StreamsInv(r, emitted) /\ q["main"] # <<>> /\ q["main"][1].do = "select"
      /\ 1 \in 1 .. Len(q["main"]) /\ Waited(q["side"], r["side"], "main")
      /\ r["main"] # <<>> => Follows(q["main"][1], r["main"][1])
      /\ r["main"] = <<>> => q["main"][1].do = IF emitted THEN "select" ELSE "merge"
  BY PopMain
<1>2. ~GatherDue(q)
  BY <1>1, StreamHeads DEF GatherRuns
<1>3. Ops(q["side"]) /\ SideWaits(q["main"], q["side"], emitted)
  BY StreamOps DEF StreamsInv
<1>4. PICK n \in 1 .. Len(q["side"]) : q["side"][n].wait["main"] = 1
  BY <1>1, <1>3 DEF SideWaits
<1>5. n = 1 /\ 1 \in 1 .. Len(q["side"])
  <2>1. 1 \in 1 .. Len(q["side"]) /\ q["side"][1].wait["main"] \in Nat /\ q["side"] # <<>>
    BY <1>3, <1>4, OpTypes DEF Ops
  <2>2. ASSUME n > 1 PROVE FALSE
    <3>1. q["side"][1].wait["main"] < 1
      BY <2>1, <2>2, <1>3, <1>4 DEF SideWaits
    <3> QED BY <3>1, <2>1, <1>2 DEF GatherDue
  <2> QED BY <2>1, <2>2, <1>4
<1>6. ~q["side"][1].flag
  BY <1>3, <1>4, <1>5 DEF SideWaits, GatherWaits
<1>7. r["side"][1].wait["main"] = 0 /\ r["side"][1].flag = q["side"][1].flag /\ Len(r["side"]) = Len(q["side"])
  BY <1>1, <1>4, <1>5 DEF Waited, Dec
<1>8. GatherDue(r) /\ ~r["side"][1].flag
  BY <1>5, <1>6, <1>7 DEF GatherDue
<1>9. Pending(r, emitted) /\ (r["main"] # <<>> => r["main"][1].do = "route")
  BY <1>1 DEF Pending, Follows
<1> QED BY <1>1, <1>2, <1>8, <1>9

(* Once a selection has run, what main does next leaves its gather alone.   *)
SameGather(q, r) ==
    /\ GatherDue(r) <=> GatherDue(q)
    /\ r["side"] # <<>> /\ r["side"][1].flag =>
         q["side"] # <<>> /\ q["side"][1].flag /\ r["side"][1].arg = q["side"][1].arg

(* Any other operation of main leaves the gather that is due alone.         *)
LEMMA PopMainGather ==
    ASSUME NEW q, NEW r, NEW emitted, StreamsInv(q, emitted), Slots!Ready(q, "main"),
           r = Slots!Finish(q, "main"), Head(q["main"]).do # "select"
    PROVE  SameGather(q, r)
<1>1. /\ q["main"] # <<>> /\ q["main"][1].do # "select" /\ Waited(q["side"], r["side"], "main")
      /\ StreamsInv(r, emitted)
  BY PopMain
<1>2. Ops(q["side"]) /\ Ops(r["side"])
  BY <1>1, StreamOps DEF StreamsInv
<1>3. Len(r["side"]) = Len(q["side"]) /\ (r["side"] # <<>> <=> q["side"] # <<>>)
      /\ (q["side"] # <<>> => 1 \in 1 .. Len(q["side"]))
  BY <1>1, <1>2 DEF Waited, Ops
<1>4. ASSUME q["side"] # <<>>
      PROVE  /\ r["side"][1].flag = q["side"][1].flag /\ r["side"][1].arg = q["side"][1].arg
             /\ r["side"][1].wait["main"] = Dec(q["side"][1].wait["main"])
             /\ q["side"][1].wait["main"] \in Nat \ {1}
  BY <1>1, <1>2, <1>3, <1>4, StreamHeads, OpTypes DEF Waited
<1> QED BY <1>3, <1>4 DEF SameGather, GatherDue, Dec

(* After the routing the experts of the same forward come, whose CPU half   *)
(* has not finished.                                                        *)
LEMMA RouteControl ==
    ASSUME NEW q, NEW r, NEW emitted, StreamsInv(q, emitted), Slots!Ready(q, "main"),
           r = Slots!Finish(q, "main"), Head(q["main"]).do = "route"
    PROVE  /\ StreamsInv(r, emitted) /\ SameGather(q, r) /\ (Pending(r, emitted) <=> Pending(q, emitted))
           /\ r["main"] # <<>> /\ r["main"][1].do = "experts" /\ r["main"][1].flag = Head(q["main"]).flag
           /\ r["main"][2].wait["cpu"] # 0
<1>1. /\ StreamsInv(r, emitted) /\ q["main"] # <<>> /\ Head(q["main"]) = q["main"][1]
      /\ r["main"] # <<>> => Follows(q["main"][1], r["main"][1]) /\ r["main"][1] = q["main"][2]
      /\ r["main"] = <<>> => q["main"][1].do = IF emitted THEN "select" ELSE "merge"
      /\ Popped(q["main"], r["main"])
  BY PopMain
<1>2. SameGather(q, r)
  BY PopMainGather
<1>3. r["main"] # <<>> /\ r["main"][1].do = "experts" /\ r["main"][1].flag = q["main"][1].flag
  BY <1>1 DEF Follows
<1>4. Pending(r, emitted) <=> Pending(q, emitted)
  BY <1>1, <1>3 DEF Pending
<1>5. 2 \in 1 .. Len(r["main"]) /\ r["main"][1].do = "experts"
  BY <1>1, <1>3, StreamHeads
<1>6. Ops(q["main"]) /\ Ops(r["main"]) /\ MainOrder(r["main"], emitted) /\ MainWaits(q["main"], q["side"], q["cpu"])
  BY <1>1, StreamOps DEF StreamsInv
<1>7. r["main"][2].do = "merge"
  <2>1. 1 \in 1 .. Len(r["main"]) /\ 1 < Len(r["main"])
    BY <1>5, <1>6 DEF Ops
  <2>2. Follows(r["main"][1], r["main"][2])
    BY <2>1, <1>6 DEF MainOrder
  <2> QED BY <2>2, <1>3 DEF Follows
<1>8. r["main"][2] = q["main"][3] /\ 3 \in 1 .. Len(q["main"])
  BY <1>1, <1>5, <1>6 DEF Popped, Ops
<1>9. MergeWait(q["main"], q["cpu"], 3)
  BY <1>6, <1>7, <1>8 DEF MainWaits
<1> QED BY <1>1, <1>2, <1>3, <1>4, <1>8, <1>9 DEF MergeWait

(* The experts of a forward with a prediction run when its gather is over.  *)
LEMMA ExpertsControl ==
    ASSUME NEW q, NEW r, NEW emitted, StreamsInv(q, emitted), Slots!Ready(q, "main"),
           r = Slots!Finish(q, "main"), Head(q["main"]).do = "experts"
    PROVE  /\ StreamsInv(r, emitted) /\ SameGather(q, r) /\ ~Pending(r, emitted)
           /\ q["main"] # <<>> /\ q["main"][1] = Head(q["main"]) /\ Head(q["main"]).flag \in BOOLEAN
           /\ Head(q["main"]).flag => ~GatherDue(q) /\ Pending(q, emitted)
           /\ r["main"] # <<>> /\ r["main"][1].do = "merge" /\ r["main"][1] = q["main"][2]
           /\ r["main"][1].wait["cpu"] > 0 => r["cpu"][1].flag = Head(q["main"]).flag
<1>1. /\ StreamsInv(r, emitted) /\ q["main"] # <<>> /\ Head(q["main"]) = q["main"][1]
      /\ 1 \in 1 .. Len(q["main"]) /\ \A u \in Slots!Stream : q["main"][1].wait[u] = 0
      /\ r["main"] # <<>> => /\ Follows(q["main"][1], r["main"][1]) /\ r["main"][1] = q["main"][2]
                             /\ 2 \in 1 .. Len(q["main"])
      /\ r["main"] = <<>> => q["main"][1].do = IF emitted THEN "select" ELSE "merge"
      /\ Waited(q["cpu"], r["cpu"], "main")
  BY PopMain
<1>2. SameGather(q, r)
  BY PopMainGather
<1>3. r["main"] # <<>> /\ r["main"][1].do = "merge"
  BY <1>1 DEF Follows
<1>4. Ops(q["main"]) /\ Ops(q["side"]) /\ Ops(q["cpu"]) /\ MainWaits(q["main"], q["side"], q["cpu"])
      /\ CpuWaits(q["main"], q["cpu"])
  BY StreamOps DEF StreamsInv
<1>5. q["main"][1].flag \in BOOLEAN
  BY <1>1, <1>4, OpTypes
<1>6. ASSUME q["main"][1].flag PROVE ~GatherDue(q) /\ Pending(q, emitted)
  <2>1. ExpertsWait(q["main"], q["side"], 1) /\ q["main"][1].wait["side"] = 0
    BY <1>1, <1>4 DEF MainWaits, Slots!Stream
  <2>2. \A k \in 1 .. Len(q["side"]) : q["side"][k].wait["main"] > 0
    BY <2>1, <1>6 DEF ExpertsWait
  <2>3. q["side"] # <<>> => 1 \in 1 .. Len(q["side"])
    BY <1>4 DEF Ops
  <2> QED BY <2>2, <2>3, <1>1, <1>6 DEF GatherDue, Pending
<1>7. ASSUME r["main"][1].wait["cpu"] > 0 PROVE r["cpu"][1].flag = q["main"][1].flag
  <2>1. MergeWait(q["main"], q["cpu"], 2)
    BY <1>1, <1>3, <1>4 DEF MainWaits
  <2>2. PICK n : n = q["main"][2].wait["cpu"]
    OBVIOUS
  <2>3. n \in Nat /\ n > 0 /\ n <= Len(q["cpu"]) /\ q["cpu"][n].wait["main"] = 0
    BY <2>1, <2>2, <1>1, <1>3, <1>4, <1>7, OpTypes DEF MergeWait, TwoBack
  <2>4. n \in 1 .. Len(q["cpu"])
    BY <2>3, <1>4 DEF Ops
  <2>5. n = 1 /\ SubmitRuns(q["main"], q["cpu"][1])
    BY <2>3, <2>4, <1>4 DEF CpuWaits
  <2>6. q["main"][1].flag = q["cpu"][1].flag
    BY <2>5, <1>1 DEF SubmitRuns
  <2>7. r["cpu"][1].flag = q["cpu"][1].flag
    BY <2>4, <2>5, <1>1 DEF Waited
  <2> QED BY <2>6, <2>7
<1> QED BY <1>1, <1>2, <1>3, <1>5, <1>6, <1>7 DEF Pending

(* After the sum another forward begins.                                    *)
LEMMA MergeControl ==
    ASSUME NEW q, NEW r, NEW emitted, StreamsInv(q, emitted), Slots!Ready(q, "main"),
           r = Slots!Finish(q, "main"), Head(q["main"]).do = "merge"
    PROVE  /\ StreamsInv(r, emitted) /\ SameGather(q, r) /\ ~Pending(r, emitted)
           /\ r["main"] # <<>> => r["main"][1].do \in {"select", "route"}
<1>1. /\ StreamsInv(r, emitted) /\ q["main"] # <<>> /\ Head(q["main"]) = q["main"][1]
      /\ r["main"] # <<>> => Follows(q["main"][1], r["main"][1])
      /\ r["main"] = <<>> => q["main"][1].do = IF emitted THEN "select" ELSE "merge"
  BY PopMain
<1>2. SameGather(q, r)
  BY PopMainGather
<1> QED BY <1>1, <1>2 DEF Pending, Follows

(* The head of the main stream is the same, or waits less.                  *)
SameMain(q, r) ==
    /\ r["main"] # <<>> <=> q["main"] # <<>>
    /\ r["main"] # <<>> =>
         r["main"][1].do = q["main"][1].do /\ r["main"][1].flag = q["main"][1].flag
SameHalf(q, r) ==
    r["main"] # <<>> =>
        /\ r["main"][1].wait["cpu"] = q["main"][1].wait["cpu"]
        /\ r["main"][1].do = "experts" => r["main"][2].wait["cpu"] = q["main"][2].wait["cpu"]
        /\ r["main"][1].wait["cpu"] > 0 => r["cpu"][1].flag = q["cpu"][1].flag

(* A gather that finishes leaves the forward on main as it was.             *)
LEMMA SideControl ==
    ASSUME NEW q, NEW r, NEW emitted, StreamsInv(q, emitted), Slots!Ready(q, "side"),
           r = Slots!Finish(q, "side")
    PROVE  /\ StreamsInv(r, emitted) /\ SameMain(q, r) /\ SameHalf(q, r) /\ GatherDue(q) /\ ~GatherDue(r)
           /\ Head(q["side"]) = q["side"][1]
           /\ r["side"] # <<>> => ~r["side"][1].flag
<1>0. "main" \in Slots!Stream /\ "side" \in Slots!Stream /\ "cpu" \in Slots!Stream
  BY DEF Slots!Stream
<1>1. Queues(q) /\ StreamsInv(r, emitted) /\ Finished(q, r, "side")
  BY <1>0, FinishStreams DEF StreamsInv
<1>2. /\ q["side"] # <<>> /\ 1 \in 1 .. Len(q["side"]) /\ Head(q["side"]) = q["side"][1]
      /\ \A u \in Slots!Stream : q["side"][1].wait[u] = 0
  BY <1>0, <1>1, ReadyHead
<1>3. /\ Popped(q["side"], r["side"])
      /\ Waited(q["main"], r["main"], "side") /\ Waited(q["cpu"], r["cpu"], "side")
  BY <1>0, <1>1 DEF Finished
<1>4. /\ Ops(q["main"]) /\ Ops(r["main"]) /\ Ops(q["side"]) /\ Ops(r["side"]) /\ Ops(q["cpu"])
      /\ SideWaits(q["main"], q["side"], emitted)
      /\ MainWaits(q["main"], q["side"], q["cpu"])
  BY <1>1, StreamOps DEF StreamsInv
<1>5. GatherDue(q)
  BY <1>0, <1>2 DEF GatherDue
<1>6. ASSUME r["side"] # <<>> PROVE r["side"][1].wait["main"] # 0 /\ ~r["side"][1].flag
  <2>1. 1 \in 1 .. Len(r["side"]) /\ 2 \in 1 .. Len(q["side"])
    BY <1>3, <1>4, <1>6 DEF Popped, Ops
  <2>2. r["side"][1] = q["side"][2]
    BY <2>1, <1>3 DEF Popped
  <2>3. q["side"][1].wait["main"] < q["side"][2].wait["main"]
    BY <2>1, <1>2, <1>4 DEF SideWaits
  <2>4. q["side"][2].wait["main"] > 0
    BY <2>1, <2>3, <1>0, <1>2
  <2> QED BY <2>1, <2>2, <2>4, <1>4 DEF SideWaits, GatherWaits
<1>7. Len(r["main"]) = Len(q["main"]) /\ (r["main"] # <<>> <=> q["main"] # <<>>)
  BY <1>3, <1>4 DEF Waited, Ops
<1>8. ASSUME r["main"] # <<>>
      PROVE  /\ r["main"][1].do = q["main"][1].do /\ r["main"][1].flag = q["main"][1].flag
             /\ r["main"][1].wait["cpu"] = q["main"][1].wait["cpu"]
             /\ r["main"][1].do = "experts" => r["main"][2].wait["cpu"] = q["main"][2].wait["cpu"]
             /\ r["main"][1].wait["cpu"] > 0 => r["cpu"][1].flag = q["cpu"][1].flag
  <2>1. /\ 1 \in 1 .. Len(q["main"])
        /\ q["main"][1].do = "experts" => 2 \in 1 .. Len(q["main"])
    BY <1>7, <1>8, StreamHeads
  <2>2. /\ r["main"][1].do = q["main"][1].do /\ r["main"][1].flag = q["main"][1].flag
        /\ r["main"][1].wait["cpu"] = q["main"][1].wait["cpu"]
        /\ r["main"][1].do = "experts" => r["main"][2].wait["cpu"] = q["main"][2].wait["cpu"]
    BY <2>1, <1>0, <1>3 DEF Waited
  <2>3. ASSUME q["main"][1].wait["cpu"] > 0 PROVE r["cpu"][1].flag = q["cpu"][1].flag
    <3>1. q["main"][1].do = "merge"
      BY <2>1, <2>3, <1>4 DEF MainWaits
    <3>2. MergeWait(q["main"], q["cpu"], 1)
      BY <2>1, <3>1, <1>4 DEF MainWaits
    <3>3. 1 \in 1 .. Len(q["cpu"])
      <4>1. q["main"][1].wait["cpu"] <= Len(q["cpu"]) /\ q["main"][1].wait["cpu"] \in Nat /\ Len(q["cpu"]) \in Nat
        BY <3>2, <2>1, <2>3, <1>4, OpTypes DEF MergeWait, Ops
      <4> QED BY <4>1, <2>3
    <3> QED BY <3>3, <1>3 DEF Waited
  <2> QED BY <2>2, <2>3
<1> QED BY <1>1, <1>2, <1>5, <1>6, <1>7, <1>8 DEF SameMain, SameHalf, GatherDue

(* A CPU half that runs is the one of the forward that main is in.          *)
LEMMA SubmitControl ==
    ASSUME NEW q, NEW r, NEW emitted, StreamsInv(q, emitted), Slots!Ready(q, "cpu"),
           r = Slots!Finish(q, "cpu")
    PROVE  /\ StreamsInv(r, emitted) /\ SameMain(q, r) /\ SameGather(q, r)
           /\ q["main"] # <<>> /\ Head(q["cpu"]) = q["cpu"][1] /\ q["cpu"][1].flag \in BOOLEAN
           /\ \/ q["main"][1].do = "experts" /\ q["main"][1].flag = q["cpu"][1].flag
              \/ q["main"][1].do = "merge" /\ q["main"][1].wait["cpu"] = 1 /\ r["main"][1].wait["cpu"] = 0
<1>0. "main" \in Slots!Stream /\ "side" \in Slots!Stream /\ "cpu" \in Slots!Stream
  BY DEF Slots!Stream
<1>1. Queues(q) /\ StreamsInv(r, emitted) /\ Finished(q, r, "cpu")
  BY <1>0, FinishStreams DEF StreamsInv
<1>2. /\ q["cpu"] # <<>> /\ 1 \in 1 .. Len(q["cpu"]) /\ Head(q["cpu"]) = q["cpu"][1]
      /\ \A u \in Slots!Stream : q["cpu"][1].wait[u] = 0
  BY <1>0, <1>1, ReadyHead
<1>3. Waited(q["main"], r["main"], "cpu") /\ Waited(q["side"], r["side"], "cpu")
  BY <1>0, <1>1 DEF Finished
<1>4. /\ Ops(q["main"]) /\ Ops(r["main"]) /\ Ops(q["side"]) /\ Ops(r["side"]) /\ Ops(q["cpu"])
      /\ CpuWaits(q["main"], q["cpu"])
  BY <1>1, StreamOps DEF StreamsInv
<1>5. SubmitRuns(q["main"], q["cpu"][1])
  BY <1>0, <1>2, <1>4 DEF CpuWaits
<1>6. q["main"] # <<>> /\ 1 \in 1 .. Len(q["main"])
  BY <1>5, <1>4 DEF SubmitRuns, Ops
<1>7. SameMain(q, r)
  <2>1. Len(r["main"]) = Len(q["main"]) /\ (r["main"] # <<>> <=> q["main"] # <<>>)
    BY <1>3, <1>4 DEF Waited, Ops
  <2> QED BY <2>1, <1>3, <1>6 DEF SameMain, Waited
<1>8. SameGather(q, r)
  <2>1. /\ Len(r["side"]) = Len(q["side"]) /\ (r["side"] # <<>> <=> q["side"] # <<>>)
        /\ q["side"] # <<>> => 1 \in 1 .. Len(q["side"])
    BY <1>3, <1>4 DEF Waited, Ops
  <2>2. q["side"] # <<>> => /\ r["side"][1].wait["main"] = q["side"][1].wait["main"]
                           /\ r["side"][1].flag = q["side"][1].flag /\ r["side"][1].arg = q["side"][1].arg
    BY <2>1, <1>0, <1>3 DEF Waited
  <2> QED BY <2>1, <2>2 DEF SameGather, GatherDue
<1>9. r["main"][1].wait["cpu"] = Dec(q["main"][1].wait["cpu"])
  BY <1>3, <1>6 DEF Waited
<1>10. q["cpu"][1].flag \in BOOLEAN
  BY <1>2, <1>4, OpTypes
<1> QED BY <1>1, <1>2, <1>5, <1>6, <1>7, <1>8, <1>9, <1>10 DEF SubmitRuns, Dec

(* The gather starts.                                                       *)
Started(q, r, got) == r = [q EXCEPT !["side"][1].flag = TRUE, !["side"][1].arg = got]

(* A gather that starts is the one that is due.                             *)
LEMMA StartControl ==
    ASSUME NEW q, NEW r, NEW emitted, StreamsInv(q, emitted), Slots!Ready(q, "side"),
           NEW got \in SUBSET (Nat \X SlotExperts), Started(q, r, got)
    PROVE  /\ StreamsInv(r, emitted) /\ r["main"] = q["main"] /\ r["cpu"] = q["cpu"]
           /\ GatherDue(q) /\ GatherDue(r) /\ r["side"][1].flag /\ r["side"][1].arg = got
<1>1. Queues(q) /\ "side" \in Slots!Stream /\ "main" \in Slots!Stream /\ "cpu" \in Slots!Stream
  BY DEF StreamsInv, Slots!Stream
<1>2. /\ q["side"] # <<>> /\ 1 \in 1 .. Len(q["side"])
      /\ \A u \in Slots!Stream : q["side"][1].wait[u] = 0
  BY <1>1, ReadyHead
<1>3. PICK S, o : S = q["side"] /\ o = S[1]
  OBVIOUS
<1>4. S \in Seq(Operation) /\ o \in Operation /\ o.do = "gather"
  BY <1>1, <1>2, <1>3 DEF Queues, StreamsInv, SideWaits
<1>5. PICK p : p = [o EXCEPT !.flag = TRUE, !.arg = got]
  OBVIOUS
<1>6. p \in Operation /\ p.flag /\ p.arg = got /\ p.do = o.do /\ p.wait = o.wait
  BY <1>4, <1>5 DEF Operation
<1>7. r = [q EXCEPT !["side"] = [S EXCEPT ![1] = p]]
  BY <1>1, <1>2, <1>3, <1>4, <1>5 DEF Queues, Started
<1>8. r["side"] = [S EXCEPT ![1] = p] /\ r["main"] = q["main"] /\ r["cpu"] = q["cpu"]
  BY <1>1, <1>7 DEF Queues
<1>9. [S EXCEPT ![1] = p] \in Seq(Operation) /\ Len([S EXCEPT ![1] = p]) = Len(S)
  BY <1>2, <1>3, <1>4, <1>6
<1>10. Queues(r)
  BY <1>1, <1>7, <1>9 DEF Queues
<1>11. Marked(S, r["side"]) /\ r["side"][1] = p
  <2>1. PICK T : T = [S EXCEPT ![1] = p]
    OBVIOUS
  <2>2. DOMAIN S = 1 .. Len(S) /\ 1 \in 1 .. Len(S)
    BY <1>2, <1>3, <1>4
  <2>3. T[1] = p /\ \A n \in 1 .. Len(S) : n # 1 => T[n] = S[n]
    BY <2>1, <2>2
  <2>4. Len(T) = Len(S) /\ r["side"] = T
    BY <2>1, <1>8, <1>9
  <2>5. \A n \in 1 .. Len(S) : T[n].do = S[n].do /\ T[n].wait = S[n].wait /\ (n > 1 => T[n] = S[n])
    <3> SUFFICES ASSUME NEW n \in 1 .. Len(S)
                 PROVE  T[n].do = S[n].do /\ T[n].wait = S[n].wait /\ (n > 1 => T[n] = S[n])
      OBVIOUS
    <3>1. CASE n = 1
      BY <3>1, <2>3, <1>3, <1>6
    <3>2. CASE n # 1
      BY <3>2, <2>3
    <3> QED BY <3>1, <3>2
  <2> QED BY <2>3, <2>4, <2>5 DEF Marked
<1>12. StreamsInv(r, emitted)
  BY <1>3, <1>8, <1>10, <1>11, MarkStreams
<1>13. GatherDue(q) /\ GatherDue(r)
  <2>1. r["side"] # <<>>
    BY <1>2, <1>3, <1>8, <1>9
  <2> QED BY <2>1, <1>1, <1>2, <1>3, <1>6, <1>11 DEF GatherDue
<1> QED BY <1>6, <1>8, <1>11, <1>12, <1>13

(* What the host appends leaves the heads of the streams alone.             *)
KeptHeads(q, r) ==
    r["main"] # <<>> /\ r["main"][1].do \in {"experts", "merge"} =>
        /\ q["main"] # <<>> /\ r["main"][1] = q["main"][1]
        /\ r["main"][1].do = "experts" => r["main"][2] = q["main"][2]
        /\ r["main"][1].wait["cpu"] > 0 => r["cpu"][1] = q["cpu"][1]

(* A sum that waits has the CPU half it waits for in front of it.           *)
LEMMA MergeHead ==
    ASSUME NEW q, NEW emitted, StreamsInv(q, emitted), q["main"] # <<>>, q["main"][1].wait["cpu"] > 0
    PROVE  1 \in 1 .. Len(q["cpu"])
<1>1. Ops(q["main"]) /\ Ops(q["cpu"]) /\ MainWaits(q["main"], q["side"], q["cpu"])
  BY StreamOps DEF StreamsInv
<1>2. 1 \in 1 .. Len(q["main"]) /\ q["main"][1].wait["cpu"] \in Nat
  BY <1>1, StreamHeads, OpTypes
<1>3. q["main"][1].do = "merge"
  BY <1>1, <1>2 DEF MainWaits
<1>4. MergeWait(q["main"], q["cpu"], 1)
  BY <1>1, <1>2, <1>3 DEF MainWaits
<1>5. q["main"][1].wait["cpu"] <= Len(q["cpu"]) /\ Len(q["cpu"]) \in Nat
  BY <1>1, <1>4 DEF MergeWait, Ops
<1> QED BY <1>2, <1>5

(* A queue with one operation more has the same head, if it had one.        *)
LEMMA LongerHead ==
    ASSUME NEW M, NEW N, Ops(M), Ops(N), NEW o, Longer(M, N, o)
    PROVE  /\ N # <<>> /\ (M # <<>> => N[1] = M[1])
           /\ M = <<>> => N[1] = o
           /\ 2 \in 1 .. Len(M) => N[2] = M[2]
<1>1. Len(M) \in Nat /\ Len(N) = Len(M) + 1 /\ N[Len(M) + 1] = o /\ \A i \in 1 .. Len(M) : N[i] = M[i]
  BY DEF Ops, Longer
<1>2. M # <<>> => 1 \in 1 .. Len(M)
  BY DEF Ops
<1>3. M = <<>> => Len(M) + 1 = 1
  OBVIOUS
<1>4. N # <<>>
  BY <1>1 DEF Ops
<1> QED BY <1>1, <1>2, <1>3, <1>4

(* A gather that is appended waits for its selection.                       *)
LEMMA MoreGathers ==
    ASSUME NEW q, NEW r, Ops(q["side"]), Ops(r["side"]), NEW g, Longer(q["side"], r["side"], g),
           g.wait["main"] # 0, ~g.flag
    PROVE  SameGather(q, r)
<1>1. CASE q["side"] = <<>>
  <2>1. r["side"] # <<>> /\ r["side"][1] = g
    BY <1>1, LongerHead
  <2> QED BY <1>1, <2>1 DEF SameGather, GatherDue
<1>2. CASE q["side"] # <<>>
  <2>1. r["side"] # <<>> /\ r["side"][1] = q["side"][1]
    BY <1>2, LongerHead
  <2> QED BY <1>2, <2>1 DEF SameGather, GatherDue
<1> QED BY <1>1, <1>2

(* The operations that pf_issue and apply append.                           *)
EmitOps(q, p, r, batch) ==
    /\ p = Slots!Enqueue(q, "main", Slots!Op("select", batch, FALSE, Slots!NoWait))
    /\ r = Slots!Enqueue(p, "side", Slots!Op("gather", {}, FALSE, Slots!WaitFor(p, "main")))
ApplyOps(q, q1, q2, q3, r, batch, predicted) ==
    /\ q1 = Slots!Enqueue(q, "main", Slots!Op("route", batch, predicted, Slots!NoWait))
    /\ q2 = Slots!Enqueue(q1, "cpu", Slots!Op("submit", {}, predicted, Slots!WaitFor(q1, "main")))
    /\ q3 = Slots!Enqueue(q2, "main", Slots!Op("experts", {}, predicted,
              IF predicted THEN Slots!WaitFor(q2, "side") ELSE Slots!NoWait))
    /\ r = Slots!Enqueue(q3, "main", Slots!Op("merge", {}, FALSE, Slots!WaitFor(q3, "cpu")))

(* pf_issue changes nothing about the forward the device is in;             *)
LEMMA EmitControl ==
    ASSUME NEW q, StreamsInv(q, FALSE), NEW batch \in SUBSET SlotExperts, NEW p, NEW r,
           EmitOps(q, p, r, batch)
    PROVE  /\ StreamsInv(r, TRUE) /\ SameGather(q, r) /\ KeptHeads(q, r)
           /\ Pending(r, TRUE) <=> Pending(q, FALSE)
<1>0. "main" \in Slots!Stream /\ "side" \in Slots!Stream /\ "cpu" \in Slots!Stream
  BY DEF Slots!Stream
<1>1. Queues(q)
  BY DEF StreamsInv
<1>2. PICK o : /\ o = Slots!Op("select", batch, FALSE, Slots!NoWait)
             /\ p = Slots!Enqueue(q, "main", o)
  BY DEF EmitOps
<1>3. o \in Operation /\ Selection(o) /\ o.do = "select"
  BY <1>0, <1>1, <1>2, WaitTypes DEF Operation, Slots!Op, Selection
<1>4. Queues(p) /\ Longer(q["main"], p["main"], o) /\ p["side"] = q["side"] /\ p["cpu"] = q["cpu"]
  <2>1. p = Slots!Enqueue(q, "main", o)
    BY <1>2
  <2> QED BY <1>0, <1>1, <1>3, <2>1, EnqueueFacts
<1>5. PICK g : /\ g = Slots!Op("gather", {}, FALSE, Slots!WaitFor(p, "main"))
             /\ r = Slots!Enqueue(p, "side", g)
  BY DEF EmitOps
<1>6. /\ g \in Operation /\ g.do = "gather" /\ ~g.flag /\ g.wait["main"] = Len(q["main"]) + 1
      /\ g.wait["side"] = 0 /\ g.wait["cpu"] = 0
  <2>1. PICK waits : waits = Slots!WaitFor(p, "main")
    OBVIOUS
  <2>2. waits \in [Slots!Stream -> Nat] /\ waits["main"] = Len(p["main"]) /\ \A u \in Slots!Stream : u # "main" => waits[u] = 0
    BY <1>0, <1>4, <2>1, WaitTypes
  <2>3. waits["side"] = 0 /\ waits["cpu"] = 0 /\ waits["main"] = Len(q["main"]) + 1
    BY <1>0, <1>4, <2>2 DEF Longer
  <2> QED BY <1>5, <2>1, <2>2, <2>3 DEF Operation, Slots!Op
<1>7. Queues(r) /\ Longer(q["side"], r["side"], g) /\ r["main"] = p["main"] /\ r["cpu"] = q["cpu"]
  <2>1. r = Slots!Enqueue(p, "side", g)
    BY <1>5
  <2>2. Queues(r) /\ Longer(p["side"], r["side"], g) /\ r["main"] = p["main"] /\ r["cpu"] = p["cpu"]
    BY <1>0, <1>4, <1>6, <2>1, EnqueueFacts
  <2> QED BY <1>4, <2>2
<1>8. StreamsInv(r, TRUE)
  BY <1>3, <1>4, <1>6, <1>7, EmitStreams
<1>9. Ops(q["main"]) /\ Ops(q["side"]) /\ Ops(r["main"]) /\ Ops(r["side"]) /\ Len(q["main"]) \in Nat
  BY <1>1, <1>7, StreamOps DEF Ops
<1>10. SameGather(q, r)
  BY <1>6, <1>7, <1>9, MoreGathers
<1>11. /\ r["main"] # <<>> /\ (q["main"] # <<>> => r["main"][1] = q["main"][1])
       /\ q["main"] = <<>> => r["main"][1] = o
       /\ 2 \in 1 .. Len(q["main"]) => r["main"][2] = q["main"][2]
  BY <1>4, <1>7, <1>9, LongerHead
<1>12. Pending(r, TRUE) <=> Pending(q, FALSE)
  BY <1>3, <1>11 DEF Pending
<1>13. q["main"] # <<>> /\ q["main"][1].do = "experts" => 2 \in 1 .. Len(q["main"])
  BY StreamHeads
<1>14. KeptHeads(q, r)
  BY <1>3, <1>7, <1>11, <1>13 DEF KeptHeads
<1> QED BY <1>8, <1>10, <1>12, <1>14

(* ... neither does apply.                                                  *)
LEMMA ApplyControl ==
    ASSUME NEW q, NEW predicted \in BOOLEAN, StreamsInv(q, predicted), NEW batch \in SUBSET SlotExperts,
           NEW q1, NEW q2, NEW q3, NEW r, ApplyOps(q, q1, q2, q3, r, batch, predicted)
    PROVE  /\ StreamsInv(r, FALSE) /\ SameGather(q, r) /\ KeptHeads(q, r)
           /\ Pending(r, FALSE) <=> Pending(q, predicted)
<1>0. "main" \in Slots!Stream /\ "side" \in Slots!Stream /\ "cpu" \in Slots!Stream
  BY DEF Slots!Stream
<1>1. Queues(q)
  BY DEF StreamsInv
<1>2. PICK o1 : /\ o1 = Slots!Op("route", batch, predicted, Slots!NoWait)
             /\ q1 = Slots!Enqueue(q, "main", o1)
  BY DEF ApplyOps
<1>3. /\ o1 \in Operation /\ o1.do = "route" /\ o1.flag = predicted
      /\ o1.wait["main"] = 0 /\ o1.wait["side"] = 0 /\ o1.wait["cpu"] = 0
  BY <1>0, <1>1, <1>2, WaitTypes DEF Operation, Slots!Op
<1>4. Queues(q1) /\ Longer(q["main"], q1["main"], o1) /\ q1["side"] = q["side"] /\ q1["cpu"] = q["cpu"]
  <2>1. q1 = Slots!Enqueue(q, "main", o1)
    BY <1>2
  <2>2. Queues(q1) /\ Longer(q["main"], q1["main"], o1) /\ \A t \in Slots!Stream : t # "main" => q1[t] = q[t]
    BY <1>0, <1>1, <1>3, <2>1, EnqueueFacts
  <2> QED BY <1>0, <2>2
<1>5. PICK o2 : /\ o2 = Slots!Op("submit", {}, predicted, Slots!WaitFor(q1, "main"))
             /\ q2 = Slots!Enqueue(q1, "cpu", o2)
  BY DEF ApplyOps
<1>6. /\ o2 \in Operation /\ o2.do = "submit" /\ o2.flag = predicted /\ o2.wait["main"] = Len(q["main"]) + 1
      /\ o2.wait["side"] = 0 /\ o2.wait["cpu"] = 0
  <2>1. PICK waits : waits = Slots!WaitFor(q1, "main")
    OBVIOUS
  <2>2. waits \in [Slots!Stream -> Nat] /\ waits["main"] = Len(q1["main"]) /\ \A u \in Slots!Stream : u # "main" => waits[u] = 0
    BY <1>0, <1>4, <2>1, WaitTypes
  <2>3. waits["side"] = 0 /\ waits["cpu"] = 0 /\ waits["main"] = Len(q["main"]) + 1
    BY <1>0, <1>4, <2>2 DEF Longer
  <2> QED BY <1>5, <2>1, <2>2, <2>3 DEF Operation, Slots!Op
<1>7. Queues(q2) /\ Longer(q["cpu"], q2["cpu"], o2) /\ q2["main"] = q1["main"] /\ q2["side"] = q["side"]
  <2>1. q2 = Slots!Enqueue(q1, "cpu", o2)
    BY <1>5
  <2>2. Queues(q2) /\ Longer(q1["cpu"], q2["cpu"], o2) /\ q2["main"] = q1["main"] /\ q2["side"] = q1["side"]
    BY <1>0, <1>4, <1>6, <2>1, EnqueueFacts
  <2> QED BY <1>4, <2>2
<1>8. PICK o3 : /\ o3 = Slots!Op("experts", {}, predicted, IF predicted THEN Slots!WaitFor(q2, "side") ELSE Slots!NoWait)
             /\ q3 = Slots!Enqueue(q2, "main", o3)
  BY DEF ApplyOps
<1>9. /\ o3 \in Operation /\ o3.do = "experts" /\ o3.flag = predicted
      /\ o3.wait["main"] = 0 /\ o3.wait["cpu"] = 0 /\ o3.wait["side"] = IF predicted THEN Len(q["side"]) ELSE 0
  <2>1. PICK waits : waits = IF predicted THEN Slots!WaitFor(q2, "side") ELSE Slots!NoWait
    OBVIOUS
  <2>2. /\ waits \in [Slots!Stream -> Nat] /\ waits["side"] = IF predicted THEN Len(q2["side"]) ELSE 0
        /\ \A u \in Slots!Stream : u # "side" => waits[u] = 0
    <3>1. CASE predicted
      BY <1>0, <1>7, <2>1, <3>1, WaitTypes
    <3>2. CASE ~predicted
      BY <1>0, <1>7, <2>1, <3>2, WaitTypes
    <3> QED BY <3>1, <3>2
  <2>3. waits["main"] = 0 /\ waits["cpu"] = 0
    BY <1>0, <2>2
  <2> QED BY <1>7, <1>8, <2>1, <2>2, <2>3 DEF Operation, Slots!Op
<1>10. Queues(q3) /\ Longer(q1["main"], q3["main"], o3) /\ q3["side"] = q["side"] /\ q3["cpu"] = q2["cpu"]
  <2>1. q3 = Slots!Enqueue(q2, "main", o3)
    BY <1>8
  <2>2. Queues(q3) /\ Longer(q2["main"], q3["main"], o3) /\ q3["side"] = q2["side"] /\ q3["cpu"] = q2["cpu"]
    BY <1>0, <1>7, <1>9, <2>1, EnqueueFacts
  <2> QED BY <1>7, <2>2
<1>11. PICK o4 : /\ o4 = Slots!Op("merge", {}, FALSE, Slots!WaitFor(q3, "cpu"))
             /\ r = Slots!Enqueue(q3, "main", o4)
  BY DEF ApplyOps
<1>12. /\ o4 \in Operation /\ o4.do = "merge"
       /\ o4.wait["main"] = 0 /\ o4.wait["side"] = 0 /\ o4.wait["cpu"] = Len(q["cpu"]) + 1
  <2>1. PICK waits : waits = Slots!WaitFor(q3, "cpu")
    OBVIOUS
  <2>2. waits \in [Slots!Stream -> Nat] /\ waits["cpu"] = Len(q3["cpu"]) /\ \A u \in Slots!Stream : u # "cpu" => waits[u] = 0
    BY <1>0, <1>10, <2>1, WaitTypes
  <2>3. waits["side"] = 0 /\ waits["main"] = 0 /\ waits["cpu"] = Len(q["cpu"]) + 1
    BY <1>0, <1>7, <1>10, <2>2 DEF Longer
  <2> QED BY <1>11, <2>1, <2>2, <2>3 DEF Operation, Slots!Op
<1>13. Queues(r) /\ Longer(q3["main"], r["main"], o4) /\ r["side"] = q["side"] /\ r["cpu"] = q2["cpu"]
  <2>1. r = Slots!Enqueue(q3, "main", o4)
    BY <1>11
  <2>2. Queues(r) /\ Longer(q3["main"], r["main"], o4) /\ r["side"] = q3["side"] /\ r["cpu"] = q3["cpu"]
    BY <1>0, <1>10, <1>12, <2>1, EnqueueFacts
  <2> QED BY <1>10, <2>2
<1>14. /\ Ops(q["main"]) /\ Ops(r["main"]) /\ Ops(q["cpu"]) /\ Ops(r["cpu"])
       /\ Len(q["main"]) \in Nat /\ Len(q["cpu"]) \in Nat
  BY <1>1, <1>13, StreamOps DEF Ops
<1>15. PICK n \in Nat : n = Len(q["main"])
  BY <1>14
<1>16. /\ Len(q1["main"]) = n + 1 /\ Len(q3["main"]) = n + 2 /\ Len(r["main"]) = n + 3
       /\ q1["main"][n + 1] = o1 /\ q3["main"][n + 2] = o3 /\ r["main"][n + 3] = o4
  BY <1>4, <1>10, <1>13, <1>15 DEF Longer
<1>17. r["main"][n + 1] = o1 /\ r["main"][n + 2] = o3 /\ \A i \in 1 .. n : r["main"][i] = q["main"][i]
  <2>1. /\ \A i \in 1 .. n : q1["main"][i] = q["main"][i]
        /\ \A i \in 1 .. n + 1 : q3["main"][i] = q1["main"][i]
        /\ \A i \in 1 .. n + 2 : r["main"][i] = q3["main"][i]
    BY <1>4, <1>10, <1>13, <1>15, <1>16 DEF Longer
  <2> QED BY <2>1, <1>16
<1>18. ForwardOps(q["main"], r["main"], predicted, Len(q["side"]), Len(q["cpu"]) + 1)
  BY <1>3, <1>9, <1>12, <1>14, <1>15, <1>16, <1>17 DEF ForwardOps
<1>19. StreamsInv(r, FALSE)
  BY <1>6, <1>7, <1>13, <1>18, ApplyStreams
<1>20. SameGather(q, r)
  BY <1>13 DEF SameGather, GatherDue
<1>21. CASE q["main"] = <<>>
  <2>1. n = 0 /\ n + 1 = 1 /\ r["main"][1] = o1 /\ r["main"] # <<>>
    BY <1>15, <1>16, <1>17, <1>21
  <2> QED BY <1>3, <1>19, <1>20, <1>21, <2>1 DEF Pending, KeptHeads
<1>22. CASE q["main"] # <<>>
  <2>1. /\ 1 \in 1 .. n
        /\ q["main"][1].do = "experts" => 2 \in 1 .. n
    BY <1>15, <1>22, StreamHeads
  <2>2. r["main"][1] = q["main"][1] /\ (q["main"][1].do = "experts" => r["main"][2] = q["main"][2])
    BY <2>1, <1>17
  <2>3. r["main"] # <<>>
    BY <1>14, <1>15, <1>16
  <2>4. q["main"][1].wait["cpu"] > 0 => r["cpu"][1] = q["cpu"][1]
    BY <1>22, <1>7, <1>13, MergeHead DEF Longer
  <2> QED BY <1>19, <1>20, <1>22, <2>2, <2>3, <2>4 DEF Pending, KeptHeads
<1> QED BY <1>21, <1>22

-----------------------------------------------------------------------------
(* The state that an operation leaves alone.                                *)
LEMMA KnobFacts ==
    ASSUME PrefetchSettings, SlotTypes
    PROVE  /\ knob.wait = TRUE /\ knob.route = TRUE /\ knob.cpuskip = TRUE /\ Slots!Route
           /\ knob.reuse = 2 => ~knob.tier
           /\ knob.slots \in Nat \ {0} /\ knob.fused \in BOOLEAN /\ knob.tier \in BOOLEAN
           /\ knob.moves \in BOOLEAN /\ knob.gpuOnly \in BOOLEAN /\ knob.selective \in BOOLEAN
           /\ knob.reuse \in 0 .. 2
           /\ Nobody \notin SlotExperts /\ Off \notin SlotExperts /\ Slots!IsFiniteSet(SlotExperts)
<1>1. Slots!SlotPrefetchAssumption /\ knob \in SlotKnobs
  BY ExpertsAssumption DEF SlotTypes
<1>2. knob \in [slots : Nat \ {0}, selective : BOOLEAN, reuse : 0 .. 2, route : BOOLEAN,
          cpuskip : BOOLEAN, wait : BOOLEAN, fused : BOOLEAN,
          moves : BOOLEAN, tier : BOOLEAN, gpuOnly : BOOLEAN]
  BY <1>1 DEF Slots!SlotPrefetchAssumption
<1>3. knob.wait /\ knob.route /\ knob.cpuskip /\ (knob.reuse = 2 => ~knob.tier)
  BY <1>1 DEF PrefetchSettings
<1>4. Nobody \notin SlotExperts /\ Off \notin SlotExperts /\ Slots!IsFiniteSet(SlotExperts)
  BY <1>1 DEF Slots!SlotPrefetchAssumption
<1> QED BY <1>2, <1>3, <1>4 DEF Slots!Route

(* Each part of the invariant outlives a step that leaves what it is about  *)
(* alone.                                                                   *)
LEMMA PlacesQuiet ==
    ASSUME PlacesInv, UNCHANGED <<knob, resident, ram, inStore, table, sel>>
    PROVE  PlacesInv'
<1>1. Slots!Slot' = Slots!Slot
  BY DEF Slots!Slot
<1>2. Slots!Mapped(knob, resident)' = Slots!Mapped(knob, resident)
  BY DEF Slots!Mapped
<1> QED BY <1>1, <1>2 DEF PlacesInv

(* The same for the hold table,                                             *)
LEMMA HoldQuiet ==
    ASSUME HoldInv, UNCHANGED <<knob, hold, sel, slots>>, Gathering' <=> Gathering
    PROVE  HoldInv'
<1>1. Slots!Slot' = Slots!Slot
  BY DEF Slots!Slot
<1> QED BY <1>1 DEF HoldInv, Slots!NoTwinSlots

(* ... for the landed experts,                                              *)
LEMMA LandedQuiet ==
    ASSUME LandedInv, UNCHANGED <<knob, landed, resident, sel, index, hold, slots, inStore>>,
           Predicted' => Predicted, Gathering' <=> Gathering
    PROVE  LandedInv'
<1>1. Slots!Slot' = Slots!Slot
  BY DEF Slots!Slot
<1>2. \A e : Fetched(e)' = Fetched(e)
  BY DEF Fetched
<1> QED BY <1>1, <1>2 DEF LandedInv, Fetched

(* ... for the gather under way,                                            *)
LEMMA GatherQuiet ==
    ASSUME GatherInv, UNCHANGED <<knob, sel>>, SameGather(queue, queue')
    PROVE  GatherInv'
<1>1. Slots!Slot' = Slots!Slot
  BY DEF Slots!Slot
<1> QED BY <1>1 DEF GatherInv, SameGather, Side

(* ... and for the halves of the forward.                                   *)
LEMMA ComputeKept ==
    ASSUME ComputeInv, KeptHeads(queue, queue'),
           UNCHANGED <<knob, ids, landed, resident, ram, gpuOut, cpuOut>>
    PROVE  ComputeInv'
<1>1. \A flag : /\ RoutedIds(flag)' = RoutedIds(flag) /\ CpuHalf(flag)' = CpuHalf(flag)
                /\ GpuHalf(flag)' = GpuHalf(flag)
  BY DEF RoutedIds, CpuHalf, GpuHalf, Here
<1> SUFFICES ASSUME Main' # <<>>, Main'[1].do \in {"experts", "merge"}
             PROVE  ComputeInv'
  BY DEF ComputeInv
<1>2. /\ Main # <<>> /\ Main'[1] = Main[1] /\ (Main[1].do = "experts" => Main'[2] = Main[2])
      /\ Main[1].wait["cpu"] > 0 => Cpu'[1] = Cpu[1]
  BY DEF KeptHeads, Main, Cpu
<1>3. PICK flag \in BOOLEAN :
        /\ RoutedIds(flag)
        /\ Main[1].do = "experts" =>
             /\ flag = Main[1].flag
             /\ Main[2].wait["cpu"] = 0 => CpuHalf(flag)
        /\ Main[1].do = "merge" =>
             /\ GpuHalf(flag)
             /\ Main[1].wait["cpu"] = 0 => CpuHalf(flag)
             /\ Main[1].wait["cpu"] > 0 => Cpu[1].flag = flag
  BY <1>2 DEF ComputeInv
<1>4. RoutedIds(flag)' /\ (GpuHalf(flag) => GpuHalf(flag)') /\ (CpuHalf(flag) => CpuHalf(flag)')
  BY <1>1, <1>3
<1> QED BY <1>2, <1>3, <1>4 DEF ComputeInv

(* The host's steps.                                                        *)
LEMMA SlotTypesQuiet ==
    ASSUME SlotTypes, phase' \in {"idle", "emitted"}, issued' = (phase' = "emitted"),
           UNCHANGED <<knob, sel, hold, landed, landedCpu, index, slots, ids, gpuOut>>
    PROVE  SlotTypes'
<1>1. Slots!Slot' = Slots!Slot
  BY DEF Slots!Slot
<1> QED BY <1>1 DEF SlotTypes

(* pf_issue.                                                                *)
LEMMA EmitStep ==
    ASSUME PrefetchSettings, SlotInv, Slots!Emit
    PROVE  SlotInv'
<1>1. /\ phase = "idle" /\ issued' = TRUE /\ phase' = "emitted"
      /\ UNCHANGED <<knob, table, inStore, ram, resident, sel, landed, landedCpu, index, hold, score,
                     slots, ids, gpuOut, cpuOut>>
  BY DEF Slots!Emit, Slots!published
<1>2. PICK p, batch : batch \in SUBSET SlotExperts /\ EmitOps(queue, p, queue', batch)
  BY DEF Slots!Emit, Slots!Batches, EmitOps
<1>3. StreamsInv(queue, FALSE)
  BY <1>1 DEF SlotInv, Streams
<1>4. /\ StreamsInv(queue', TRUE) /\ SameGather(queue, queue') /\ KeptHeads(queue, queue')
      /\ Pending(queue', TRUE) <=> Pending(queue, FALSE)
  BY <1>2, <1>3, EmitControl
<1>5. Streams' /\ (Gathering' <=> Gathering) /\ (Predicted' <=> Predicted)
  BY <1>1, <1>4 DEF Streams, Gathering, SameGather, Predicted
<1>6. SlotTypes'
  BY <1>1, SlotTypesQuiet DEF SlotInv
<1>7. PlacesInv'
  BY <1>1, PlacesQuiet DEF SlotInv
<1>8. HoldInv'
  BY <1>1, <1>5, HoldQuiet DEF SlotInv
<1>9. LandedInv'
  BY <1>1, <1>5, LandedQuiet DEF SlotInv
<1>10. GatherInv'
  BY <1>1, <1>4, GatherQuiet DEF SlotInv
<1>11. ComputeInv'
  BY <1>1, <1>4, ComputeKept DEF SlotInv
<1> QED BY <1>5, <1>6, <1>7, <1>8, <1>9, <1>10, <1>11 DEF SlotInv

(* apply.                                                                   *)
LEMMA ApplyStep ==
    ASSUME PrefetchSettings, SlotInv, Slots!Apply
    PROVE  SlotInv'
<1>1. /\ issued' = FALSE /\ phase' = "idle"
      /\ UNCHANGED <<knob, table, inStore, ram, resident, sel, landed, landedCpu, index, hold, score,
                     slots, ids, gpuOut, cpuOut>>
  BY DEF Slots!Apply, Slots!published
<1>2. PICK predicted \in BOOLEAN : predicted = issued /\ StreamsInv(queue, predicted)
             /\ (Predicted <=> Pending(queue, predicted))
  <2>1. issued \in BOOLEAN /\ issued = (phase = "emitted") /\ StreamsInv(queue, issued)
    BY DEF SlotInv, SlotTypes, Streams
  <2> QED BY <2>1 DEF Predicted
<1>3. PICK batch : batch \in SUBSET SlotExperts /\ \E q1, q2, q3 : ApplyOps(queue, q1, q2, q3, queue', batch, predicted)
  <2>1. knob.wait = TRUE
    BY KnobFacts DEF SlotInv
  <2> QED BY <1>2, <2>1 DEF Slots!Apply, Slots!Batches, ApplyOps, Slots!UseNow
<1>4. /\ StreamsInv(queue', FALSE) /\ SameGather(queue, queue') /\ KeptHeads(queue, queue')
      /\ Pending(queue', FALSE) <=> Pending(queue, predicted)
  BY <1>2, <1>3, ApplyControl
<1>5. Streams' /\ (Gathering' <=> Gathering) /\ (Predicted' <=> Predicted)
  BY <1>1, <1>2, <1>4 DEF Streams, Gathering, SameGather, Predicted
<1>6. SlotTypes'
  BY <1>1, SlotTypesQuiet DEF SlotInv
<1>7. PlacesInv'
  BY <1>1, PlacesQuiet DEF SlotInv
<1>8. HoldInv'
  BY <1>1, <1>5, HoldQuiet DEF SlotInv
<1>9. LandedInv'
  BY <1>1, <1>5, LandedQuiet DEF SlotInv
<1>10. GatherInv'
  BY <1>1, <1>4, GatherQuiet DEF SlotInv
<1>11. ComputeInv'
  BY <1>1, <1>4, ComputeKept DEF SlotInv
<1> QED BY <1>5, <1>6, <1>7, <1>8, <1>9, <1>10, <1>11 DEF SlotInv

(* Between two forwards nothing is queued and nothing predicted.            *)
LEMMA AtRest ==
    ASSUME SlotInv, phase = "idle", Slots!Idle(queue), UNCHANGED <<phase, queue>>
    PROVE  /\ Main' = <<>> /\ ~Gathering /\ ~Gathering' /\ ~Predicted' /\ Streams'
           /\ SameGather(queue, queue')
<1>1. queue["main"] = <<>> /\ queue["side"] = <<>>
  BY DEF Slots!Idle, Slots!Stream
<1> QED BY <1>1 DEF Main, Gathering, GatherDue, Predicted, Pending, SlotInv, Streams, SameGather

(* A tick between two forwards moves residency.                             *)
LEMMA MoveStep ==
    ASSUME PrefetchSettings, SlotInv, Slots!Move
    PROVE  SlotInv'
<1>1. /\ phase = "idle" /\ Slots!Idle(queue) /\ knob.moves /\ ~knob.tier
      /\ resident' \subseteq SlotExperts /\ ram' = SlotExperts \ resident'
      /\ UNCHANGED <<knob, table, inStore, issued, phase, queue, sel, landed, landedCpu, index, hold, score,
                     slots, ids, gpuOut, cpuOut>>
  BY DEF Slots!Move, Slots!published
<1>2. /\ Main' = <<>> /\ ~Gathering /\ ~Gathering' /\ ~Predicted' /\ Streams' /\ SameGather(queue, queue')
  BY <1>1, AtRest
<1>3. SlotTypes'
  BY <1>1, SlotTypesQuiet DEF SlotInv, SlotTypes
<1>4. PlacesInv'
  <2>1. Slots!Slot' = Slots!Slot
    BY <1>1 DEF Slots!Slot
  <2>2. Slots!Mapped(knob, resident)' = SlotExperts /\ Slots!Mapped(knob, resident) = SlotExperts
    BY <1>1 DEF Slots!Mapped
  <2> QED BY <1>1, <2>1, <2>2 DEF PlacesInv, SlotInv
<1>5. HoldInv'
  BY <1>1, <1>2, HoldQuiet DEF SlotInv
<1>6. LandedInv'
  BY <1>2 DEF LandedInv
<1>7. GatherInv'
  BY <1>1, <1>2, GatherQuiet DEF SlotInv
<1>8. ComputeInv'
  BY <1>2 DEF ComputeInv
<1> QED BY <1>2, <1>3, <1>4, <1>5, <1>6, <1>7, <1>8 DEF SlotInv

(* A three-tier tick exchanges a RAM and an SSD expert.                     *)
LEMMA PromoteStep ==
    ASSUME PrefetchSettings, SlotInv, Slots!Promote
    PROVE  SlotInv'
<1>1. /\ phase = "idle" /\ Slots!Idle(queue) /\ knob.tier
      /\ UNCHANGED <<knob, table, resident, issued, phase, queue, sel, landed, landedCpu, index, hold, score,
                     slots, ids, gpuOut, cpuOut>>
  BY DEF Slots!Promote, Slots!published
<1>2. PICK e \in SlotExperts \ (resident \cup ram), d \in ram :
        ram' = (ram \ {d}) \cup {e} /\ inStore' = inStore \cup {e}
  BY DEF Slots!Promote
<1>3. /\ Main' = <<>> /\ ~Gathering /\ ~Gathering' /\ ~Predicted' /\ Streams' /\ SameGather(queue, queue')
  BY <1>1, AtRest
<1>4. SlotTypes'
  BY <1>1, SlotTypesQuiet DEF SlotInv, SlotTypes
<1>5. PlacesInv'
  <2>1. Slots!Slot' = Slots!Slot
    BY <1>1 DEF Slots!Slot
  <2>2. Slots!Mapped(knob, resident)' = Slots!Mapped(knob, resident)
    BY <1>1 DEF Slots!Mapped
  <2> QED BY <1>1, <1>2, <2>1, <2>2 DEF PlacesInv, SlotInv
<1>6. HoldInv'
  BY <1>1, <1>3, HoldQuiet DEF SlotInv
<1>7. LandedInv'
  BY <1>3 DEF LandedInv
<1>8. GatherInv'
  BY <1>1, <1>3, GatherQuiet DEF SlotInv
<1>9. ComputeInv'
  BY <1>3 DEF ComputeInv
<1> QED BY <1>3, <1>4, <1>5, <1>6, <1>7, <1>8, <1>9 DEF SlotInv

-----------------------------------------------------------------------------
(* The selection.                                                           *)

(* The counts of SlotPrefetch are those of the library,                     *)
LEMMA SlotCount == ASSUME NEW S PROVE Slots!Cardinality(S) = Cardinality(S)
BY DEF Slots!Cardinality, Cardinality

(* ... and the same finite sets.                                            *)
LEMMA SlotFinite == ASSUME NEW S PROVE Slots!IsFiniteSet(S) = IsFiniteSet(S)
BY DEF Slots!IsFiniteSet, IsFiniteSet

(* A fetch fills free slots, each with a wanted expert of its own that is   *)
(* held nowhere.                                                            *)
LEMMA FetchFacts ==
    ASSUME PrefetchSettings, SlotTypes, NEW want \in SUBSET SlotExperts, NEW f \in Slots!Fetch(want)
    PROVE  /\ Slots!Kept(want) \subseteq Slots!Slot /\ DOMAIN f \subseteq Slots!Slot \ Slots!Kept(want)
           /\ \A s \in DOMAIN f : f[s] \in want \ {hold[k] : k \in Slots!Kept(want)}
           /\ \A s, t \in DOMAIN f : f[s] = f[t] => s = t
           /\ Slots!Kept(want) # {} => knob.fused /\ knob.reuse = 2
<1>1. /\ Slots!Kept(want) \subseteq Slots!Slot
      /\ Slots!Kept(want) # {} => knob.fused /\ knob.reuse = 2
  BY DEF Slots!Kept
<1> DEFINE free == Slots!Slot \ Slots!Kept(want)
           need == want \ {hold[s] : s \in Slots!Kept(want)}
           uncovered == knob.selective /\ Slots!Cardinality(want) > knob.slots
           n    == IF uncovered THEN 0
                   ELSE IF Slots!Cardinality(need) < Slots!Cardinality(free)
                        THEN Slots!Cardinality(need) ELSE Slots!Cardinality(free)
           dest == IF knob.fused THEN Slots!Weakest(free, n) ELSE 1 .. n
<1>2. f \in [dest -> need] /\ \A s, t \in dest : f[s] = f[t] => s = t
  BY DEF Slots!Fetch
<1>3. dest \subseteq free
  <2>1. CASE knob.fused
    BY <2>1 DEF Slots!Weakest
  <2>2. CASE ~knob.fused
    <3>1. free = Slots!Slot /\ Slots!Slot = 1 .. knob.slots /\ knob.slots \in Nat \ {0}
      BY <2>2, KnobFacts DEF Slots!Kept, Slots!Slot
    <3>2. Slots!Cardinality(free) = knob.slots
      <4>1. Cardinality(1 .. knob.slots) = knob.slots
        BY <3>1, FS_Interval
      <4> HIDE DEF free
      <4> QED BY <3>1, <4>1, SlotCount
    <3>3. Slots!Cardinality(need) \in Nat
      <4>1. IsFiniteSet(SlotExperts) /\ need \subseteq SlotExperts
        BY KnobFacts, SlotFinite
      <4> HIDE DEF need
      <4> QED BY <4>1, SlotCount, FS_Subset, FS_CardinalityType
    <3>4. n \in Int /\ n <= knob.slots
      <4> HIDE DEF free, need, uncovered
      <4> QED BY <3>1, <3>2, <3>3
    <3>5. dest = 1 .. n
      BY <2>2
    <3> HIDE DEF n, free, dest
    <3> QED BY <3>1, <3>4, <3>5
  <2> QED BY <2>1, <2>2
<1> HIDE DEF n, free, need, dest
<1>4. DOMAIN f = dest /\ \A s \in dest : f[s] \in need
  BY <1>2
<1> QED BY <1>1, <1>2, <1>3, <1>4 DEF free, need

(* What the selection of a fetch publishes.                                 *)
Published(want, f) ==
    LET kept == Slots!Kept(want)
    IN  /\ sel' = [s \in Slots!Slot |-> IF s \in DOMAIN f THEN f[s] ELSE Nobody]
        /\ landed' = {f[s] : s \in DOMAIN f} \cup {hold[s] : s \in kept} /\ landedCpu' = landed'
        /\ index' \in [SlotExperts -> Slots!Slot]
        /\ \A e \in landed' : \/ index'[e] \in DOMAIN f /\ f[index'[e]] = e
                              \/ index'[e] \in kept /\ hold[index'[e]] = e
        /\ hold' = [s \in Slots!Slot |-> IF knob.fused /\ knob.reuse > 0 /\ s \in DOMAIN f THEN f[s] ELSE hold[s]]

(* The published tables name, for a landed expert, the slot it was fetched  *)
(* into or is held in.                                                      *)
LEMMA PublishFacts ==
    ASSUME PrefetchSettings, SlotTypes, NEW want \in SUBSET SlotExperts, NEW f \in Slots!Fetch(want),
           Slots!Publish(want, f)
    PROVE  Published(want, f)
<1> DEFINE kept == Slots!Kept(want)
           here == {f[s] : s \in DOMAIN f} \cup {hold[s] : s \in kept}
           Places(e) == {s \in DOMAIN f : f[s] = e} \cup {s \in kept : hold[s] = e}
<1>1. kept = Slots!Kept(want)
  OBVIOUS
<1>2. /\ kept \subseteq Slots!Slot /\ DOMAIN f \subseteq Slots!Slot \ kept
      /\ \A s \in DOMAIN f : f[s] \in want
  BY FetchFacts
<1>4. /\ sel' = [s \in Slots!Slot |-> IF s \in DOMAIN f THEN f[s] ELSE Nobody]
      /\ landed' = here /\ landedCpu' = here
      /\ index' = [e \in SlotExperts |-> IF e \in here THEN CHOOSE s \in Places(e) : TRUE ELSE index[e]]
  BY KnobFacts DEF Slots!Publish
<1>5. \A e \in here : Places(e) # {}
  OBVIOUS
<1>6. \A e \in here : (CHOOSE s \in Places(e) : TRUE) \in Places(e)
  BY <1>5
<1>7. \A e : Places(e) \subseteq Slots!Slot
  BY <1>2
<1>8. here \subseteq SlotExperts
  BY <1>2 DEF Slots!Kept
<1>9. index' \in [SlotExperts -> Slots!Slot] /\ \A e \in here : index'[e] \in Places(e)
  <2>1. \A e \in SlotExperts : index[e] \in Slots!Slot
    BY DEF SlotTypes
  <2> HIDE DEF Places, here, kept
  <2> QED BY <2>1, <1>4, <1>6, <1>7, <1>8
<1>10. hold' = [s \in Slots!Slot |-> IF knob.fused /\ knob.reuse > 0 /\ s \in DOMAIN f THEN f[s] ELSE hold[s]]
  <2>1. CASE knob.fused /\ knob.reuse > 0
    BY <2>1 DEF Slots!Publish, Slots!HoldAfter
  <2>2. CASE ~(knob.fused /\ knob.reuse > 0)
    <3>1. hold' = hold /\ hold = [s \in Slots!Slot |-> hold[s]]
      BY <2>2 DEF Slots!Publish, SlotTypes
    <3> QED BY <2>2, <3>1
  <2> QED BY <2>1, <2>2
<1>11. \A e \in here : \/ index'[e] \in DOMAIN f /\ f[index'[e]] = e
                       \/ index'[e] \in kept /\ hold[index'[e]] = e
  BY <1>9
<1> HIDE DEF Places
<1> QED BY <1>4, <1>9, <1>10, <1>11 DEF Published

(* A selection fetches into no slot that it keeps, and nothing that some    *)
(* slot holds: the hold table stays true and without twins.                 *)
LEMMA SelectStep ==
    ASSUME PrefetchSettings, SlotInv, Slots!Select
    PROVE  SlotInv'
<1>1. /\ Slots!Ready(queue, "main") /\ Head(queue["main"]).do = "select"
      /\ queue' = Slots!Finish(queue, "main")
      /\ UNCHANGED <<knob, table, inStore, ram, resident, issued, phase, slots, ids, gpuOut, cpuOut>>
  BY DEF Slots!Select
<1>2. Slots!Slot' = Slots!Slot
  BY <1>1 DEF Slots!Slot
<1>a. PICK want \in SUBSET (SlotExperts \ resident) : \E f \in Slots!Fetch(want) : Slots!Publish(want, f)
  <2>1. Queues(queue) /\ "main" \in Slots!Stream
    BY DEF SlotInv, Streams, StreamsInv, Slots!Stream
  <2>2. PICK o : o = Head(queue["main"]) /\ o \in Operation /\ o.do = "select"
    <3>1. 1 \in 1 .. Len(queue["main"]) /\ Head(queue["main"]) = queue["main"][1] /\ queue["main"] \in Seq(Operation)
      BY <1>1, <2>1, ReadyHead DEF Queues
    <3> QED BY <3>1, <1>1
  <2>3. PICK want : want = Slots!Wanted(o.arg)
    OBVIOUS
  <2>4. want \in SUBSET (SlotExperts \ resident)
    BY <2>2, <2>3 DEF Operation, Slots!Wanted
  <2>5. \E f \in Slots!Fetch(want) : Slots!Publish(want, f)
    BY <2>2, <2>3 DEF Slots!Select
  <2> QED BY <2>4, <2>5
<1>3. PICK f \in Slots!Fetch(want) : want \in SUBSET (SlotExperts \ resident) /\ Slots!Publish(want, f)
  BY <1>a
<1>4. PICK kept : kept = Slots!Kept(want)
  OBVIOUS
<1>5. /\ kept \subseteq Slots!Slot /\ DOMAIN f \subseteq Slots!Slot \ kept
      /\ \A s \in DOMAIN f : f[s] \in want \ {hold[k] : k \in kept}
      /\ \A s, t \in DOMAIN f : f[s] = f[t] => s = t
      /\ kept # {} => knob.fused /\ knob.reuse = 2
  BY <1>3, <1>4, FetchFacts DEF SlotInv
<1>6. /\ sel' = [s \in Slots!Slot |-> IF s \in DOMAIN f THEN f[s] ELSE Nobody]
      /\ landed' = {f[s] : s \in DOMAIN f} \cup {hold[s] : s \in kept} /\ landedCpu' = landed'
      /\ index' \in [SlotExperts -> Slots!Slot]
      /\ \A e \in landed' : \/ index'[e] \in DOMAIN f /\ f[index'[e]] = e
                            \/ index'[e] \in kept /\ hold[index'[e]] = e
      /\ hold' = [s \in Slots!Slot |-> IF knob.fused /\ knob.reuse > 0 /\ s \in DOMAIN f THEN f[s] ELSE hold[s]]
  BY <1>3, <1>4, PublishFacts DEF SlotInv, Published
<1>7. /\ ~Gathering /\ Gathering' /\ ~Side'[1].flag /\ Predicted' /\ Streams'
      /\ Main' # <<>> => Main'[1].do = "route"
  <2>1. PICK emitted : emitted = (phase = "emitted") /\ StreamsInv(queue, emitted)
    BY DEF SlotInv, Streams
  <2>2. /\ StreamsInv(queue', emitted) /\ ~GatherDue(queue) /\ GatherDue(queue') /\ ~queue'["side"][1].flag
        /\ Pending(queue', emitted) /\ (queue'["main"] # <<>> => queue'["main"][1].do = "route")
    BY <1>1, <2>1, SelectControl
  <2> QED BY <1>1, <2>1, <2>2 DEF Gathering, Predicted, Streams, Side, Main
<1>8. /\ hold \in [Slots!Slot -> SlotExperts \cup {Nobody}] /\ Nobody \notin SlotExperts /\ kept = Slots!Kept(want)
      /\ knob.fused \in BOOLEAN /\ knob.reuse \in 0 .. 2 /\ (knob.reuse = 2 => ~knob.tier)
      /\ resident \subseteq SlotExperts
  BY <1>4, KnobFacts DEF SlotInv, SlotTypes, PlacesInv
<1>9. \A k \in kept : hold[k] \in want
  BY <1>8 DEF Slots!Kept
<1>10. landed' \subseteq want
  BY <1>5, <1>6, <1>9
<1>11. SlotTypes'
  <2>1. sel' \in [Slots!Slot -> SlotExperts \cup {Nobody}] /\ hold' \in [Slots!Slot -> SlotExperts \cup {Nobody}]
    BY <1>3, <1>5, <1>6, <1>8
  <2>2. landed' \subseteq SlotExperts
    BY <1>3, <1>10
  <2> QED BY <1>1, <1>2, <1>6, <2>1, <2>2 DEF SlotTypes, SlotInv
<1>12. \A s \in Slots!Slot : sel'[s] \in SlotExperts => s \in DOMAIN f /\ sel'[s] = f[s] /\ f[s] \in want
  BY <1>5, <1>6, <1>8
<1>13. PlacesInv'
  <2>1. Slots!Mapped(knob, resident)' = Slots!Mapped(knob, resident)
    BY <1>1 DEF Slots!Mapped
  <2>2. PlacesInv
    BY DEF SlotInv
  <2>3. \A s \in Slots!Slot : sel'[s] \in SlotExperts => sel'[s] \in SlotExperts \ resident
    BY <1>3, <1>12
  <2>4. \A s \in Slots!Slot : sel'[s] \in SlotExperts => sel'[s] \in table /\ (~knob.tier => sel'[s] \in inStore)
    BY <2>2, <2>3 DEF PlacesInv, Slots!Mapped
  <2> QED BY <1>1, <1>2, <2>1, <2>2, <2>4 DEF PlacesInv
<1>14. ASSUME knob.reuse = 2
       PROVE  /\ knob.fused \/ \A s \in Slots!Slot : hold'[s] = Nobody
              /\ \A s \in Slots!Slot : hold'[s] \in SlotExperts =>
                    IF sel'[s] \in SlotExperts THEN hold'[s] = sel'[s] ELSE slots[s] = hold'[s]
              /\ \A s, t \in Slots!Slot : hold'[s] = hold'[t] /\ hold'[s] \in SlotExperts => s = t
  <2>1. /\ knob.fused \/ \A s \in Slots!Slot : hold[s] = Nobody
        /\ \A s \in Slots!Slot : hold[s] \in SlotExperts => slots[s] = hold[s]
        /\ \A s, t \in Slots!Slot : hold[s] = hold[t] /\ hold[s] \in SlotExperts => s = t
    BY <1>7, <1>14 DEF SlotInv, HoldInv, Slots!NoTwinSlots
  <2>2. CASE ~knob.fused
    <3>1. \A s \in Slots!Slot : hold'[s] = Nobody
      BY <1>6, <2>1, <2>2
    <3> QED BY <3>1, <1>8
  <2>3. CASE knob.fused
    <3>1. \A s \in Slots!Slot : hold'[s] = IF s \in DOMAIN f THEN f[s] ELSE hold[s]
      BY <1>6, <1>14, <2>3
    <3>2. \A s \in Slots!Slot : hold[s] \in want => s \in kept
      <4>1. SUFFICES ASSUME NEW s \in Slots!Slot, hold[s] \in want PROVE s \in kept
        OBVIOUS
      <4>2. s \in Nat /\ Slots!Slot = 1 .. knob.slots /\ knob.slots \in Nat
        BY KnobFacts DEF Slots!Slot, SlotInv
      <4>3. ASSUME NEW t \in 1 .. s - 1 PROVE hold[t] # hold[s]
        <5>1. t \in Slots!Slot /\ t # s
          BY <4>2
        <5> QED BY <5>1, <4>1, <2>1, <1>3
      <4> QED BY <4>1, <4>3, <2>3, <1>8, <1>14 DEF Slots!Kept
    <3>3. ASSUME NEW s \in Slots!Slot, NEW t \in Slots!Slot, s \in DOMAIN f, t \notin DOMAIN f
          PROVE  f[s] # hold[t]
      BY <3>2, <3>3, <1>5
    <3>4. \A s \in Slots!Slot : hold'[s] \in SlotExperts =>
                    IF sel'[s] \in SlotExperts THEN hold'[s] = sel'[s] ELSE slots[s] = hold'[s]
      BY <3>1, <2>1, <1>3, <1>5, <1>6, <1>8
    <3>5. \A s, t \in Slots!Slot : hold'[s] = hold'[t] /\ hold'[s] \in SlotExperts => s = t
      BY <3>1, <3>3, <2>1, <1>5
    <3> QED BY <2>3, <3>4, <3>5
  <2> QED BY <2>2, <2>3
<1>15. HoldInv'
  <2>1. \A s, t \in Slots!Slot : knob.reuse = 2 /\ hold'[s] = hold'[t] /\ hold'[s] \in SlotExperts => s = t
    BY <1>14
  <2>2. Slots!NoTwinSlots'
    BY <1>1, <1>2, <2>1 DEF Slots!NoTwinSlots
  <2> QED BY <1>1, <1>2, <1>7, <1>14, <2>2 DEF HoldInv
<1>16. LandedInv'
  <2>1. landed' \cap resident' = {}
    BY <1>1, <1>3, <1>10
  <2>2. ASSUME NEW e \in landed'
        PROVE  \/ sel'[index'[e]] = e
               \/ knob'.reuse = 2 /\ sel'[index'[e]] \notin SlotExperts /\ hold'[index'[e]] = e
    <3>1. CASE index'[e] \in DOMAIN f /\ f[index'[e]] = e
      BY <3>1, <1>5, <1>6
    <3>2. CASE index'[e] \in kept /\ hold[index'[e]] = e
      <4>1. index'[e] \in Slots!Slot \ DOMAIN f
        BY <3>2, <1>5
      <4>2. sel'[index'[e]] = Nobody /\ hold'[index'[e]] = e
        BY <3>2, <4>1, <1>6
      <4> QED BY <3>2, <4>2, <1>1, <1>5, <1>8
    <3> QED BY <3>1, <3>2, <1>6
  <2> QED BY <2>1, <2>2, <1>7 DEF LandedInv
<1>17. GatherInv'
  BY <1>7 DEF GatherInv
<1>18. ComputeInv'
  BY <1>7 DEF ComputeInv
<1> QED BY <1>7, <1>11, <1>13, <1>15, <1>16, <1>17, <1>18 DEF SlotInv

(* The gather and the steps of a forward on the device.                     *)
LEMMA SameMainFacts ==
    ASSUME SameMain(queue, queue'), phase' = phase
    PROVE  Predicted' <=> Predicted
BY DEF SameMain, Predicted, Pending

(* The halves of a forward, when only waits have changed.                   *)
LEMMA ComputeQuiet ==
    ASSUME ComputeInv, SameMain(queue, queue'), SameHalf(queue, queue'),
           UNCHANGED <<knob, ids, landed, resident, ram, gpuOut, cpuOut>>
    PROVE  ComputeInv'
<1>1. \A flag : /\ RoutedIds(flag)' = RoutedIds(flag) /\ CpuHalf(flag)' = CpuHalf(flag)
                /\ GpuHalf(flag)' = GpuHalf(flag)
  BY DEF RoutedIds, CpuHalf, GpuHalf, Here
<1> SUFFICES ASSUME Main' # <<>>, Main'[1].do \in {"experts", "merge"}
             PROVE  ComputeInv'
  BY DEF ComputeInv
<1>2. /\ Main # <<>> /\ Main'[1].do = Main[1].do /\ Main'[1].flag = Main[1].flag
      /\ Main'[1].wait["cpu"] = Main[1].wait["cpu"]
      /\ Main[1].do = "experts" => Main'[2].wait["cpu"] = Main[2].wait["cpu"]
      /\ Main[1].wait["cpu"] > 0 => Cpu'[1].flag = Cpu[1].flag
  BY DEF SameMain, SameHalf, Main, Cpu
<1>3. PICK flag \in BOOLEAN :
        /\ RoutedIds(flag)
        /\ Main[1].do = "experts" =>
             /\ flag = Main[1].flag
             /\ Main[2].wait["cpu"] = 0 => CpuHalf(flag)
        /\ Main[1].do = "merge" =>
             /\ GpuHalf(flag)
             /\ Main[1].wait["cpu"] = 0 => CpuHalf(flag)
             /\ Main[1].wait["cpu"] > 0 => Cpu[1].flag = flag
  BY <1>2 DEF ComputeInv
<1>4. RoutedIds(flag)' /\ (GpuHalf(flag) => GpuHalf(flag)') /\ (CpuHalf(flag) => CpuHalf(flag)')
  BY <1>1, <1>3
<1> QED BY <1>2, <1>3, <1>4 DEF ComputeInv

(* A gather that starts spoils the slots it was told to fill, and no other. *)
LEMMA GatherStartStep ==
    ASSUME PrefetchSettings, SlotInv, Slots!GatherStart
    PROVE  SlotInv'
<1> DEFINE got == {<<s, sel[s]>> : s \in {t \in Slots!Slot : sel[t] \in SlotExperts}}
<1>1. /\ Slots!Ready(queue, "side")
      /\ slots' = [s \in Slots!Slot |-> IF sel[s] \in SlotExperts THEN Off ELSE slots[s]]
      /\ queue' = [queue EXCEPT !["side"][1].flag = TRUE, !["side"][1].arg = got]
      /\ UNCHANGED <<knob, table, inStore, ram, resident, issued, phase, sel, landed, landedCpu,
                     index, hold, score, ids, gpuOut, cpuOut>>
  BY DEF Slots!GatherStart, Slots!published
<1>2. Slots!Slot' = Slots!Slot /\ Slots!Slot \subseteq Nat
  BY <1>1 DEF Slots!Slot
<1>3. got \in SUBSET (Nat \X SlotExperts)
  BY <1>2
<1>4. /\ Streams' /\ queue'["main"] = queue["main"] /\ queue'["cpu"] = queue["cpu"]
      /\ Gathering /\ Gathering' /\ Side'[1].flag /\ Side'[1].arg = got
  <2> HIDE DEF got
  <2>1. PICK emitted : emitted = (phase = "emitted") /\ StreamsInv(queue, emitted)
    BY DEF SlotInv, Streams
  <2>2. /\ StreamsInv(queue', emitted) /\ queue'["main"] = queue["main"] /\ queue'["cpu"] = queue["cpu"]
        /\ GatherDue(queue) /\ GatherDue(queue') /\ queue'["side"][1].flag /\ queue'["side"][1].arg = got
    <3>1. Started(queue, queue', got)
      BY <1>1 DEF Started
    <3>2. Slots!Ready(queue, "side") /\ StreamsInv(queue, emitted)
      BY <1>1, <2>1
    <3> QED BY <3>1, <3>2, <1>3, StartControl
  <2> QED BY <1>1, <2>1, <2>2 DEF Streams, Gathering, Side
<1>5. Predicted' <=> Predicted
  BY <1>1, <1>4 DEF Predicted, Pending
<1>6. SlotTypes'
  <2>1. slots' \in [Slots!Slot -> SlotExperts \cup {Off}]
    BY <1>1 DEF SlotInv, SlotTypes
  <2> HIDE DEF got
  <2> QED BY <1>1, <1>2, <2>1 DEF SlotTypes, SlotInv
<1>7. PlacesInv'
  <2> HIDE DEF got
  <2> QED BY <1>1, PlacesQuiet DEF SlotInv
<1>8. HoldInv'
  <2>1. HoldInv
    BY DEF SlotInv
  <2>2. \A s \in Slots!Slot : slots'[s] = IF sel[s] \in SlotExperts THEN Off ELSE slots[s]
    BY <1>1
  <2> HIDE DEF got
  <2> QED BY <1>1, <1>2, <1>4, <2>1, <2>2 DEF HoldInv, Slots!NoTwinSlots
<1>9. LandedInv'
  <2> HIDE DEF got
  <2> QED BY <1>1, <1>4, <1>5 DEF LandedInv, SlotInv
<1>10. GatherInv'
  BY <1>1, <1>2, <1>4 DEF GatherInv
<1>11. ComputeInv'
  <2>1. KeptHeads(queue, queue')
    BY <1>4 DEF KeptHeads
  <2> HIDE DEF got
  <2> QED BY <1>1, <2>1, ComputeKept DEF SlotInv
<1> QED BY <1>4, <1>6, <1>7, <1>8, <1>9, <1>10, <1>11 DEF SlotInv

(* A gather that ends has filled them: with reuse, from a store that had    *)
(* each of these experts.                                                   *)
LEMMA GatherEndStep ==
    ASSUME PrefetchSettings, SlotInv, Slots!GatherEnd
    PROVE  SlotInv'
<1> DEFINE got == {<<s, sel[s]>> : s \in {t \in Slots!Slot : sel[t] \in SlotExperts}}
<1>1. /\ Slots!Ready(queue, "side") /\ Head(queue["side"]).flag
      /\ queue' = Slots!Finish(queue, "side")
      /\ UNCHANGED <<knob, table, inStore, ram, resident, issued, phase, sel, landed, landedCpu,
                     index, hold, score, ids, gpuOut, cpuOut>>
  BY DEF Slots!GatherEnd, Slots!published
<1>2. Slots!Slot' = Slots!Slot
  BY <1>1 DEF Slots!Slot
<1>3. /\ Streams' /\ SameMain(queue, queue') /\ SameHalf(queue, queue') /\ Gathering /\ ~Gathering'
      /\ Head(queue["side"]) = Side[1] /\ (Side' # <<>> => ~Side'[1].flag) /\ Side # <<>>
  <2>1. PICK emitted : emitted = (phase = "emitted") /\ StreamsInv(queue, emitted)
    BY DEF SlotInv, Streams
  <2>2. /\ StreamsInv(queue', emitted) /\ SameMain(queue, queue') /\ SameHalf(queue, queue')
        /\ GatherDue(queue) /\ ~GatherDue(queue') /\ Head(queue["side"]) = queue["side"][1]
        /\ (queue'["side"] # <<>> => ~queue'["side"][1].flag) 
    BY <1>1, <2>1, SideControl
  <2> QED BY <1>1, <2>1, <2>2 DEF Streams, Gathering, Side, GatherDue
<1>4. Head(queue["side"]).arg = got
  BY <1>1, <1>3 DEF SlotInv, GatherInv
<1>5. slots' = [s \in Slots!Slot |->
               IF \E p \in got : p[1] = s
               THEN Fetched((CHOOSE p \in got : p[1] = s)[2])
               ELSE slots[s]]
  BY <1>4 DEF Slots!GatherEnd, Fetched
<1>6. \A s \in Slots!Slot : slots'[s] = IF sel[s] \in SlotExperts THEN Fetched(sel[s]) ELSE slots[s]
  <2>1. ASSUME NEW s \in Slots!Slot PROVE (\E p \in got : p[1] = s) <=> sel[s] \in SlotExperts
    <3>1. ASSUME sel[s] \in SlotExperts PROVE \E p \in got : p[1] = s
      <4>1. <<s, sel[s]>> \in got /\ <<s, sel[s]>>[1] = s
        BY <3>1
      <4> HIDE DEF got
      <4> QED BY <4>1
    <3>2. ASSUME NEW p \in got, p[1] = s PROVE sel[s] \in SlotExperts
      BY <3>2
    <3> HIDE DEF got
    <3> QED BY <3>1, <3>2
  <2>2. \A p \in got : p[2] = sel[p[1]]
    OBVIOUS
  <2> HIDE DEF got
  <2>3. \A s \in Slots!Slot : (\E p \in got : p[1] = s) => (CHOOSE p \in got : p[1] = s)[2] = sel[s]
    BY <2>2
  <2> QED BY <1>5, <2>1, <2>3
<1>7. Predicted' <=> Predicted
  BY <1>1, <1>3, SameMainFacts
<1>8. SlotTypes'
  <2>1. \A s \in Slots!Slot : slots'[s] \in SlotExperts \cup {Off}
    BY <1>6 DEF SlotInv, SlotTypes, Fetched
  <2>2. slots' \in [Slots!Slot -> SlotExperts \cup {Off}]
    <3> HIDE DEF got
    <3> QED BY <1>5, <2>1
  <2> QED BY <1>1, <1>2, <2>2 DEF SlotTypes, SlotInv
<1>9. PlacesInv'
  BY <1>1, PlacesQuiet DEF SlotInv
<1>10. HoldInv'
  <2>1. HoldInv
    BY DEF SlotInv
  <2>2. ASSUME knob.reuse = 2, NEW s \in Slots!Slot, hold[s] \in SlotExperts PROVE slots'[s] = hold[s]
    <3>1. CASE sel[s] \in SlotExperts
      <4>1. hold[s] = sel[s]
        BY <2>1, <2>2, <3>1, <1>3 DEF HoldInv
      <4>2. sel[s] \in inStore
        BY <2>2, <3>1, KnobFacts DEF SlotInv, PlacesInv
      <4> QED BY <1>6, <3>1, <4>1, <4>2 DEF Fetched
    <3>2. CASE sel[s] \notin SlotExperts
      BY <2>1, <2>2, <3>2, <1>6 DEF HoldInv
    <3> QED BY <3>1, <3>2
  <2> QED BY <1>1, <1>2, <1>3, <2>1, <2>2 DEF HoldInv, Slots!NoTwinSlots
<1>11. LandedInv'
  <2>1. \A e : Fetched(e)' = Fetched(e)
    BY <1>1 DEF Fetched
  <2>2. LandedInv
    BY DEF SlotInv
  <2> QED BY <1>1, <1>2, <1>6, <1>7, <2>1, <2>2 DEF LandedInv
<1>12. GatherInv'
  BY <1>3 DEF GatherInv
<1>13. ComputeInv'
  BY <1>1, <1>3, ComputeQuiet DEF SlotInv
<1> QED BY <1>3, <1>8, <1>9, <1>10, <1>11, <1>12, <1>13 DEF SlotInv

(* The routing keeps what is resident, staged, or landed for this forward.  *)
LEMMA RouteStep ==
    ASSUME PrefetchSettings, SlotInv, Slots!RouteBatch
    PROVE  SlotInv'
<1>1. /\ Slots!Ready(queue, "main") /\ Head(queue["main"]).do = "route"
      /\ ids' = Slots!Routed(Head(queue["main"]).arg, Head(queue["main"]).flag)
      /\ queue' = Slots!Finish(queue, "main")
      /\ UNCHANGED <<knob, table, inStore, ram, resident, issued, phase, sel, landed, landedCpu,
                     index, hold, score, slots, gpuOut, cpuOut>>
  BY DEF Slots!RouteBatch, Slots!published
<1>2. /\ Streams' /\ SameGather(queue, queue') /\ (Predicted' <=> Predicted)
      /\ Main' # <<>> /\ Main'[1].do = "experts" /\ Main'[1].flag = Head(queue["main"]).flag
      /\ Main'[2].wait["cpu"] # 0
  <2>1. PICK emitted : emitted = (phase = "emitted") /\ StreamsInv(queue, emitted)
    BY DEF SlotInv, Streams
  <2>2. /\ StreamsInv(queue', emitted) /\ SameGather(queue, queue')
        /\ (Pending(queue', emitted) <=> Pending(queue, emitted))
        /\ queue'["main"] # <<>> /\ queue'["main"][1].do = "experts"
        /\ queue'["main"][1].flag = Head(queue["main"]).flag /\ queue'["main"][2].wait["cpu"] # 0
    BY <1>1, <2>1, RouteControl
  <2> QED BY <1>1, <2>1, <2>2 DEF Streams, Predicted, Main
<1>3. Gathering' <=> Gathering
  BY <1>2 DEF Gathering, SameGather
<1>4. PICK flag \in BOOLEAN : flag = Main'[1].flag
  <2>1. Queues(queue')
    BY <1>2 DEF Streams, StreamsInv
  <2>2. queue'["main"] \in Seq(Operation)
    BY <2>1 DEF Queues, Slots!Stream
  <2>3. Main'[1] \in Operation
    BY <1>2, <2>2 DEF Main
  <2> QED BY <2>3 DEF Operation
<1>5. RoutedIds(flag)' /\ ids' \subseteq SlotExperts
  <2>1. ids' = Slots!Routed(Head(queue["main"]).arg, flag)
    BY <1>1, <1>2, <1>4
  <2>2. resident \subseteq SlotExperts /\ ram \subseteq SlotExperts
    BY DEF SlotInv, PlacesInv
  <2> QED BY <1>1, <2>1, <2>2 DEF RoutedIds, Slots!Routed, Slots!OnGpu, Here
<1>6. SlotTypes'
  <2>1. Slots!Slot' = Slots!Slot
    BY <1>1 DEF Slots!Slot
  <2> QED BY <1>1, <1>5, <2>1 DEF SlotTypes, SlotInv
<1>7. PlacesInv'
  BY <1>1, PlacesQuiet DEF SlotInv
<1>8. HoldInv'
  BY <1>1, <1>3, HoldQuiet DEF SlotInv
<1>9. LandedInv'
  BY <1>1, <1>2, <1>3, LandedQuiet DEF SlotInv
<1>10. GatherInv'
  BY <1>1, <1>2, GatherQuiet DEF SlotInv
<1>11. ComputeInv'
  BY <1>2, <1>4, <1>5 DEF ComputeInv
<1> QED BY <1>2, <1>6, <1>7, <1>8, <1>9, <1>10, <1>11 DEF SlotInv

(* The CPU half computes what has not landed.                               *)
LEMMA SubmitStep ==
    ASSUME PrefetchSettings, SlotInv, Slots!Submit
    PROVE  SlotInv'
<1>1. /\ Slots!Ready(queue, "cpu")
      /\ cpuOut' = (ids \ (IF Head(queue["cpu"]).flag THEN landedCpu ELSE {})) \cap ram
      /\ queue' = Slots!Finish(queue, "cpu")
      /\ UNCHANGED <<knob, table, inStore, ram, resident, issued, phase, sel, landed, landedCpu,
                     index, hold, score, slots, ids, gpuOut>>
  BY DEF Slots!Submit, Slots!published
<1>2. /\ Streams' /\ SameMain(queue, queue') /\ SameGather(queue, queue')
      /\ Main # <<>> /\ Head(queue["cpu"]) = Cpu[1] /\ Cpu[1].flag \in BOOLEAN
      /\ \/ Main[1].do = "experts" /\ Main[1].flag = Cpu[1].flag
         \/ Main[1].do = "merge" /\ Main[1].wait["cpu"] = 1 /\ Main'[1].wait["cpu"] = 0
  <2>1. PICK emitted : emitted = (phase = "emitted") /\ StreamsInv(queue, emitted)
    BY DEF SlotInv, Streams
  <2>2. /\ StreamsInv(queue', emitted) /\ SameMain(queue, queue') /\ SameGather(queue, queue')
        /\ queue["main"] # <<>> /\ Head(queue["cpu"]) = queue["cpu"][1] /\ queue["cpu"][1].flag \in BOOLEAN
        /\ \/ queue["main"][1].do = "experts" /\ queue["main"][1].flag = queue["cpu"][1].flag
           \/ queue["main"][1].do = "merge" /\ queue["main"][1].wait["cpu"] = 1 /\ queue'["main"][1].wait["cpu"] = 0
    BY <1>1, <2>1, SubmitControl
  <2> QED BY <1>1, <2>1, <2>2 DEF Streams, Main, Cpu
<1>3. (Gathering' <=> Gathering) /\ (Predicted' <=> Predicted)
  BY <1>1, <1>2, SameMainFacts DEF Gathering, SameGather
<1>4. SlotTypes'
  BY <1>1, SlotTypesQuiet DEF SlotInv, SlotTypes
<1>5. PlacesInv'
  BY <1>1, PlacesQuiet DEF SlotInv
<1>6. HoldInv'
  BY <1>1, <1>3, HoldQuiet DEF SlotInv
<1>7. LandedInv'
  BY <1>1, <1>3, LandedQuiet DEF SlotInv
<1>8. GatherInv'
  BY <1>1, <1>2, GatherQuiet DEF SlotInv
<1>9. PICK flag \in BOOLEAN : flag = Cpu[1].flag
  BY <1>2
<1>10. CpuHalf(flag)' /\ (RoutedIds(flag) => RoutedIds(flag)') /\ (GpuHalf(flag) => GpuHalf(flag)')
  <2>1. landedCpu = landed
    BY DEF SlotInv, SlotTypes
  <2>2. cpuOut' = (ids \ Here(flag)) \cap ram
    BY <1>1, <1>2, <1>9, <2>1 DEF Here
  <2> QED BY <1>1, <2>2 DEF CpuHalf, Here, RoutedIds, GpuHalf
<1>11. Main'[1].do = Main[1].do /\ Main'[1].flag = Main[1].flag
  BY <1>2 DEF SameMain, Main
<1>12. ComputeInv'
  <2>1. CASE Main[1].do = "experts" /\ Main[1].flag = flag
    <3>1. RoutedIds(flag)
      BY <1>2, <2>1 DEF SlotInv, ComputeInv
    <3> QED BY <2>1, <3>1, <1>10, <1>11 DEF ComputeInv
  <2>2. CASE Main[1].do = "merge" /\ Main[1].wait["cpu"] = 1 /\ Main'[1].wait["cpu"] = 0
    <3>1. RoutedIds(flag) /\ GpuHalf(flag)
      BY <1>2, <1>9, <2>2 DEF SlotInv, ComputeInv
    <3> QED BY <2>2, <3>1, <1>10, <1>11 DEF ComputeInv
  <2> QED BY <1>2, <1>9, <2>1, <2>2
<1> QED BY <1>2, <1>4, <1>5, <1>6, <1>7, <1>8, <1>12 DEF SlotInv

(* The GPU half reads a landed expert from its slot when no gather is under *)
(* way, and finds its own weights there.                                    *)
LEMMA ExpertsStep ==
    ASSUME PrefetchSettings, SlotInv, Slots!Experts
    PROVE  SlotInv'
<1>1. /\ Slots!Ready(queue, "main") /\ Head(queue["main"]).do = "experts"
      /\ gpuOut' = [e \in SlotExperts |->
               IF e \notin ids THEN Nobody
               ELSE IF e \in Here(Head(queue["main"]).flag) THEN slots[index[e]]
               ELSE IF e \in resident THEN e ELSE Nobody]
      /\ queue' = Slots!Finish(queue, "main")
      /\ UNCHANGED <<knob, table, inStore, ram, resident, issued, phase, sel, landed, landedCpu,
                     index, hold, score, slots, ids, cpuOut>>
  BY DEF Slots!Experts, Slots!published, Here
<1>2. /\ Streams' /\ SameGather(queue, queue') /\ ~Predicted' /\ Main # <<>> /\ Main[1] = Head(queue["main"])
      /\ Main[1].flag \in BOOLEAN /\ (Main[1].flag => ~Gathering /\ Predicted)
      /\ Main' # <<>> /\ Main'[1].do = "merge" /\ Main'[1] = Main[2]
      /\ Main'[1].wait["cpu"] > 0 => Cpu'[1].flag = Main[1].flag
  <2>1. PICK emitted : emitted = (phase = "emitted") /\ StreamsInv(queue, emitted)
    BY DEF SlotInv, Streams
  <2>2. /\ StreamsInv(queue', emitted) /\ SameGather(queue, queue') /\ ~Pending(queue', emitted)
        /\ queue["main"] # <<>> /\ queue["main"][1] = Head(queue["main"]) /\ Head(queue["main"]).flag \in BOOLEAN
        /\ (Head(queue["main"]).flag => ~GatherDue(queue) /\ Pending(queue, emitted))
        /\ queue'["main"] # <<>> /\ queue'["main"][1].do = "merge" /\ queue'["main"][1] = queue["main"][2]
        /\ (queue'["main"][1].wait["cpu"] > 0 => queue'["cpu"][1].flag = Head(queue["main"]).flag)
    BY <1>1, <2>1, ExpertsControl
  <2> QED BY <1>1, <2>1, <2>2 DEF Streams, Predicted, Gathering, Main, Cpu
<1>3. Gathering' <=> Gathering
  BY <1>2 DEF Gathering, SameGather
<1>4. PICK flag \in BOOLEAN : flag = Main[1].flag
  BY <1>2
<1>5. RoutedIds(flag) /\ (Main[2].wait["cpu"] = 0 => CpuHalf(flag))
  BY <1>1, <1>2, <1>4 DEF SlotInv, ComputeInv
<1>6. Here(flag) \cap resident = {}
  BY <1>2, <1>4 DEF SlotInv, LandedInv, Here
<1>7. \A e \in SlotExperts : gpuOut'[e] = IF e \notin ids THEN Nobody
                                         ELSE IF e \in Here(flag) THEN slots[index[e]]
                                         ELSE IF e \in resident THEN e ELSE Nobody
  BY <1>1, <1>2, <1>4
<1>8. ASSUME NEW e \in ids \cap Here(flag) PROVE slots[index[e]] = e
  <2>1. flag /\ e \in landed /\ ~Gathering /\ Predicted
    BY <1>2, <1>4, <1>8 DEF Here
  <2>2. e \in inStore /\ e \in SlotExperts
    BY <1>5, <1>6, <1>8 DEF RoutedIds, SlotInv, PlacesInv
  <2>3. index[e] \in Slots!Slot
    BY <2>2 DEF SlotInv, SlotTypes
  <2>4. CASE sel[index[e]] = e
    BY <2>1, <2>2, <2>3, <2>4 DEF SlotInv, LandedInv, Fetched
  <2>5. CASE knob.reuse = 2 /\ sel[index[e]] \notin SlotExperts /\ hold[index[e]] = e
    BY <2>1, <2>2, <2>3, <2>5 DEF SlotInv, HoldInv
  <2> QED BY <2>1, <2>4, <2>5 DEF SlotInv, LandedInv
<1>9. ids \subseteq SlotExperts /\ resident \subseteq SlotExperts
  BY DEF SlotInv, SlotTypes, PlacesInv
<1>10. GpuHalf(flag)'
  <2>1. \A e \in ids : gpuOut'[e] = IF e \in resident \cup Here(flag) THEN e ELSE Nobody
    BY <1>7, <1>8, <1>9
  <2>2. Here(flag)' = Here(flag)
    BY <1>1 DEF Here
  <2> QED BY <1>1, <1>6, <2>1, <2>2 DEF GpuHalf
<1>11. RoutedIds(flag)' /\ (CpuHalf(flag) => CpuHalf(flag)')
  BY <1>1, <1>5 DEF RoutedIds, CpuHalf, Here
<1>12. SlotTypes'
  <2>1. Slots!Slot' = Slots!Slot
    BY <1>1 DEF Slots!Slot
  <2>2. \A e \in SlotExperts : gpuOut'[e] \in SlotExperts \cup {Off, Nobody}
    BY <1>7, <1>8, <1>9
  <2>3. gpuOut' \in [SlotExperts -> SlotExperts \cup {Off, Nobody}]
    BY <1>1, <2>2
  <2> QED BY <1>1, <2>1, <2>3 DEF SlotTypes, SlotInv
<1>13. PlacesInv'
  BY <1>1, PlacesQuiet DEF SlotInv
<1>14. HoldInv'
  BY <1>1, <1>3, HoldQuiet DEF SlotInv
<1>15. LandedInv'
  BY <1>2 DEF LandedInv
<1>16. GatherInv'
  BY <1>1, <1>2, GatherQuiet DEF SlotInv
<1>17. ComputeInv'
  BY <1>2, <1>4, <1>5, <1>10, <1>11 DEF ComputeInv
<1> QED BY <1>2, <1>12, <1>13, <1>14, <1>15, <1>16, <1>17 DEF SlotInv

(* The sum ends the forward.                                                *)
LEMMA MergeStep ==
    ASSUME PrefetchSettings, SlotInv, Slots!Merge
    PROVE  SlotInv'
<1>1. /\ Slots!Ready(queue, "main") /\ Head(queue["main"]).do = "merge"
      /\ queue' = Slots!Finish(queue, "main")
      /\ ids' = {} /\ gpuOut' = [e \in SlotExperts |-> Nobody] /\ cpuOut' = {}
      /\ UNCHANGED <<knob, table, inStore, ram, resident, issued, phase, sel, landed, landedCpu,
                     index, hold, score, slots>>
  BY DEF Slots!Merge, Slots!published
<1>2. /\ Streams' /\ SameGather(queue, queue') /\ ~Predicted'
      /\ Main' # <<>> => Main'[1].do \in {"select", "route"}
  <2>1. PICK emitted : emitted = (phase = "emitted") /\ StreamsInv(queue, emitted)
    BY DEF SlotInv, Streams
  <2>2. /\ StreamsInv(queue', emitted) /\ SameGather(queue, queue') /\ ~Pending(queue', emitted)
        /\ queue'["main"] # <<>> => queue'["main"][1].do \in {"select", "route"}
    BY <1>1, <2>1, MergeControl
  <2> QED BY <1>1, <2>1, <2>2 DEF Streams, Predicted, Main
<1>3. Gathering' <=> Gathering
  BY <1>2 DEF Gathering, SameGather
<1>4. SlotTypes'
  <2>1. Slots!Slot' = Slots!Slot
    BY <1>1 DEF Slots!Slot
  <2> QED BY <1>1, <2>1 DEF SlotTypes, SlotInv
<1>5. PlacesInv'
  BY <1>1, PlacesQuiet DEF SlotInv
<1>6. HoldInv'
  BY <1>1, <1>3, HoldQuiet DEF SlotInv
<1>7. LandedInv'
  BY <1>2 DEF LandedInv
<1>8. GatherInv'
  BY <1>1, <1>2, GatherQuiet DEF SlotInv
<1>9. ComputeInv'
  BY <1>2 DEF ComputeInv
<1> QED BY <1>2, <1>4, <1>5, <1>6, <1>7, <1>8, <1>9 DEF SlotInv

(* The initial states, every step, and a step of another part.              *)
LEMMA SlotNext ==
    ASSUME PrefetchSettings, SlotInv, Slots!Next
    PROVE  SlotInv'
BY EmitStep, ApplyStep, MoveStep, PromoteStep, SelectStep, GatherStartStep, GatherEndStep,
   RouteStep, SubmitStep, ExpertsStep, MergeStep DEF Slots!Next, Slots!Device

(* A step of another part changes nothing here.                             *)
LEMMA SlotStill ==
    ASSUME SlotInv, UNCHANGED slotVars
    PROVE  SlotInv'
<1>1. UNCHANGED <<knob, table, inStore, ram, resident, issued, phase, queue, sel, landed, landedCpu,
                  index, hold, score, slots, ids, gpuOut, cpuOut>>
  BY DEF slotVars
<1>2. /\ SameGather(queue, queue') /\ KeptHeads(queue, queue') /\ Streams'
      /\ (Gathering' <=> Gathering) /\ (Predicted' <=> Predicted)
  BY <1>1 DEF SameGather, KeptHeads, SlotInv, Streams, Gathering, Predicted
<1>3. SlotTypes'
  BY <1>1, SlotTypesQuiet DEF SlotInv, SlotTypes
<1>4. PlacesInv'
  BY <1>1, PlacesQuiet DEF SlotInv
<1>5. HoldInv'
  BY <1>1, <1>2, HoldQuiet DEF SlotInv
<1>6. LandedInv'
  BY <1>1, <1>2, LandedQuiet DEF SlotInv
<1>7. GatherInv'
  BY <1>1, <1>2, GatherQuiet DEF SlotInv
<1>8. ComputeInv'
  BY <1>1, <1>2, ComputeKept DEF SlotInv
<1> QED BY <1>2, <1>3, <1>4, <1>5, <1>6, <1>7, <1>8 DEF SlotInv

(* Boot.                                                                    *)
LEMMA SlotStarts ==
    ASSUME PrefetchSettings, Slots!Init
    PROVE  SlotInv
<1>1. /\ knob \in SlotKnobs /\ resident \subseteq SlotExperts /\ ram \subseteq SlotExperts \ resident
      /\ (knob.tier \/ ram = SlotExperts \ resident)
      /\ inStore = (IF knob.tier THEN ram ELSE IF knob.moves THEN SlotExperts ELSE SlotExperts \ resident)
      /\ table = Slots!Mapped(knob, resident) /\ issued = FALSE /\ phase = "idle"
      /\ queue = [s \in Slots!Stream |-> <<>>]
      /\ sel = [s \in Slots!Slot |-> Nobody] /\ hold = sel
      /\ landed = {} /\ landedCpu = {} /\ index = [e \in SlotExperts |-> 1]
      /\ slots = [s \in Slots!Slot |-> Off] /\ ids = {} /\ gpuOut = [e \in SlotExperts |-> Nobody]
  BY DEF Slots!Init
<1>2. Nobody \notin SlotExperts /\ 1 \in Slots!Slot
  <2>1. Slots!SlotPrefetchAssumption
    BY ExpertsAssumption
  <2> QED BY <1>1, <2>1 DEF Slots!SlotPrefetchAssumption, Slots!Slot
<1>3. Main = <<>> /\ Side = <<>> /\ Cpu = <<>> /\ ~Gathering /\ ~Predicted
  BY <1>1 DEF Main, Side, Cpu, Gathering, GatherDue, Predicted, Pending, Slots!Stream
<1>4. Streams
  <2>1. Queues(queue)
    BY <1>1 DEF Queues
  <2>2. Len(<<>>) = 0 /\ phase # "emitted"
    BY <1>1
  <2> QED BY <1>3, <2>1, <2>2 DEF Streams, StreamsInv, MainOrder, MainWaits, SideWaits, CpuWaits, Main, Side, Cpu
<1>5. SlotTypes
  BY <1>1, <1>2 DEF SlotTypes
<1>6. PlacesInv
  BY <1>1, <1>2 DEF PlacesInv
<1>7. HoldInv
  BY <1>1, <1>2 DEF HoldInv, Slots!NoTwinSlots
<1> QED BY <1>3, <1>4, <1>5, <1>6, <1>7 DEF SlotInv, LandedInv, GatherInv, ComputeInv

-----------------------------------------------------------------------------
(* What the invariant says when the halves of a forward are added, and      *)
(* when nothing could run.                                                  *)
LEMMA MergingFacts ==
    ASSUME SlotInv, Slots!Merging
    PROVE  \E flag \in BOOLEAN : RoutedIds(flag) /\ GpuHalf(flag) /\ CpuHalf(flag)
<1>1. Slots!Ready(queue, "main") /\ Head(queue["main"]).do = "merge"
  BY DEF Slots!Merging
<1>2. PICK emitted : StreamsInv(queue, emitted)
  BY DEF SlotInv, Streams
<1>3. Main # <<>> /\ Main[1].do = "merge" /\ Main[1].wait["cpu"] = 0
  BY <1>1, <1>2, PopMain DEF Main, Slots!Stream
<1> QED BY <1>3 DEF SlotInv, ComputeInv

(* The properties of the slot prefetch follow: what is added is computed    *)
(* once,                                                                    *)
LEMMA MergeExact ==
    ASSUME SlotInv
    PROVE  Slots!EachExpertOnce /\ Slots!GpuOnlyMeansNoCpu
<1> SUFFICES ASSUME Slots!Merging
             PROVE  /\ \A e \in ids : IF e \in cpuOut THEN gpuOut[e] = Nobody ELSE gpuOut[e] = e
                    /\ knob.gpuOnly => cpuOut = {}
  BY DEF Slots!EachExpertOnce, Slots!GpuOnlyMeansNoCpu
<1>1. PICK flag \in BOOLEAN : RoutedIds(flag) /\ GpuHalf(flag) /\ CpuHalf(flag)
  BY MergingFacts
<1>2. ram \cap resident = {}
  BY DEF SlotInv, PlacesInv
<1> QED BY <1>1, <1>2 DEF RoutedIds, GpuHalf, CpuHalf

(* ... what is held is there, once, and no gather follows a null row,       *)
LEMMA HeldExact ==
    ASSUME SlotInv
    PROVE  Slots!HoldIsTrue /\ Slots!NoTwinSlots /\ Slots!NoNullGather
<1>1. Slots!HoldIsTrue
  <2>1. queue["side"] = <<>> => ~Gathering
    BY DEF Gathering, GatherDue
  <2> QED BY <2>1 DEF Slots!HoldIsTrue, SlotInv, HoldInv
<1>2. Slots!NoTwinSlots
  BY DEF SlotInv, HoldInv, Slots!NoTwinSlots
<1>3. Slots!NoNullGather
  BY DEF SlotInv, PlacesInv, Slots!NoNullGather
<1> QED BY <1>1, <1>2, <1>3

(* An operation that waits for nothing is ready.                            *)
LEMMA ReadyNow ==
    ASSUME NEW q, Queues(q), NEW s \in Slots!Stream, q[s] # <<>>,
           q[s][1].wait["main"] = 0, q[s][1].wait["side"] = 0, q[s][1].wait["cpu"] = 0
    PROVE  Slots!Ready(q, s)
<1>1. q[s] \in Seq(Operation)
  BY DEF Queues
<1>2. q[s][1] \in Operation /\ Head(q[s]) = q[s][1]
  BY <1>1
<1>3. q[s][1].wait \in [Slots!Stream -> Nat]
  BY <1>2 DEF Operation
<1>4. q[s][1].wait = Slots!NoWait
  <2>1. \A u \in Slots!Stream : q[s][1].wait[u] = Slots!NoWait[u]
    BY DEF Slots!Stream, Slots!NoWait
  <2>2. Slots!NoWait \in [Slots!Stream -> Nat]
    BY DEF Slots!NoWait
  <2> QED BY <1>3, <2>1, <2>2
<1> QED BY <1>2, <1>4 DEF Slots!Ready

(* ... and some stream can run.                                             *)
LEMMA QueuesRun ==
    ASSUME NEW q, NEW emitted, StreamsInv(q, emitted), ~Slots!Idle(q)
    PROVE  \E s \in Slots!Stream : Slots!Ready(q, s)
<1>1. Queues(q) /\ "main" \in Slots!Stream /\ "side" \in Slots!Stream /\ "cpu" \in Slots!Stream
  BY DEF StreamsInv, Slots!Stream
<1>2. \A s \in Slots!Stream : q[s] \in Seq(Operation)
  BY <1>1 DEF Queues
<1> DEFINE M == q["main"]
           S == q["side"]
           C == q["cpu"]
<1>3. M \in Seq(Operation) /\ S \in Seq(Operation) /\ C \in Seq(Operation)
  BY <1>1, <1>2
<1>4. MainOrder(M, emitted) /\ MainWaits(M, S, C) /\ SideWaits(M, S, emitted) /\ CpuWaits(M, C)
  BY DEF StreamsInv
<1>5. \A n \in 1 .. Len(S) : S[n].wait["side"] = 0 /\ S[n].wait["cpu"] = 0 /\ S[n].wait["main"] \in Nat
                             /\ S[n].wait["main"] <= Len(M)
  <2>1. \A n \in 1 .. Len(S) : S[n] \in Operation
    BY <1>3
  <2> QED BY <2>1, <1>1, <1>4 DEF SideWaits, Operation
<1>6. \A n \in 1 .. Len(C) : C[n].wait["side"] = 0 /\ C[n].wait["cpu"] = 0 /\ C[n].wait["main"] \in Nat
                             /\ C[n].wait["main"] <= Len(M)
  <2>1. \A n \in 1 .. Len(C) : C[n] \in Operation
    BY <1>3
  <2> QED BY <2>1, <1>1, <1>4 DEF CpuWaits, Operation
<1>7. (S # <<>> => 1 \in 1 .. Len(S)) /\ (C # <<>> => 1 \in 1 .. Len(C)) /\ (M # <<>> => 1 \in 1 .. Len(M))
  BY <1>3
<1>8. CASE M = <<>>
  <2>1. Len(M) = 0 /\ (S # <<>> \/ C # <<>>)
    BY <1>8 DEF Slots!Idle, Slots!Stream
  <2>2. CASE S # <<>>
    <3>1. S[1].wait["main"] = 0
      BY <2>1, <2>2, <1>5, <1>7
    <3> QED BY <3>1, <2>2, <1>1, <1>5, <1>7, ReadyNow
  <2>3. CASE C # <<>>
    <3>1. C[1].wait["main"] = 0
      BY <2>1, <2>3, <1>6, <1>7
    <3> QED BY <3>1, <2>3, <1>1, <1>6, <1>7, ReadyNow
  <2> QED BY <2>1, <2>2, <2>3
<1>9. CASE M # <<>>
  <2>1. /\ M[1].wait["main"] = 0 /\ M[1].wait["side"] \in Nat /\ M[1].wait["cpu"] \in Nat
        /\ M[1].do # "experts" => M[1].wait["side"] = 0
        /\ M[1].do # "merge" => M[1].wait["cpu"] = 0
        /\ M[1].do = "experts" => ExpertsWait(M, S, 1)
        /\ M[1].do = "merge" => MergeWait(M, C, 1)
    <3>1. M[1] \in Operation
      BY <1>3, <1>7, <1>9
    <3>2. M[1].wait["side"] \in Nat /\ M[1].wait["cpu"] \in Nat
      BY <3>1, <1>1 DEF Operation
    <3> QED BY <3>2, <1>4, <1>7, <1>9 DEF MainWaits
  <2>2. CASE M[1].wait["side"] = 0 /\ M[1].wait["cpu"] = 0
    BY <2>1, <2>2, <1>1, <1>9, ReadyNow
  <2>3. CASE M[1].wait["side"] > 0
    <3>1. PICK n : n = M[1].wait["side"] /\ n \in Nat /\ n > 0 /\ n <= Len(S) /\ S[n].wait["main"] = 0
      BY <2>1, <2>3 DEF ExpertsWait, TwoBack
    <3>2. n \in 1 .. Len(S)
      BY <3>1, <1>3
    <3>3. n = 1
      BY <3>1, <3>2, <1>4 DEF SideWaits
    <3>4. S # <<>>
      BY <3>2, <3>3
    <3> QED BY <3>1, <3>2, <3>3, <3>4, <1>1, <1>5, ReadyNow
  <2>4. CASE M[1].wait["cpu"] > 0
    <3>1. PICK n : n = M[1].wait["cpu"] /\ n \in Nat /\ n > 0 /\ n <= Len(C) /\ C[n].wait["main"] = 0
      BY <2>1, <2>4 DEF MergeWait, TwoBack
    <3>2. n \in 1 .. Len(C)
      BY <3>1, <1>3
    <3>3. n = 1
      BY <3>1, <3>2, <1>4 DEF CpuWaits
    <3>4. C # <<>>
      BY <3>2, <3>3
    <3> QED BY <3>1, <3>2, <3>3, <3>4, <1>1, <1>6, ReadyNow
  <2> QED BY <2>1, <2>2, <2>3, <2>4
<1> QED BY <1>8, <1>9

(* All six together.                                                        *)
LEMMA SlotExact ==
    ASSUME SlotInv
    PROVE  /\ Slots!EachExpertOnce /\ Slots!HoldIsTrue /\ Slots!NoTwinSlots
           /\ Slots!NoNullGather /\ Slots!GpuOnlyMeansNoCpu /\ Slots!WaitsResolve
<1>1. Slots!WaitsResolve
  BY QueuesRun DEF SlotInv, Streams, Slots!WaitsResolve
<1> QED BY <1>1, MergeExact, HeldExact

-----------------------------------------------------------------------------
(* The lookahead predictor (Lookahead).                                     *)

(* What the theorem asks of the settings: stacked gates reach one layer.    *)
LookSettings == \A s \in LookSetups : s.stack => s.reach = 1

(* A prediction that a layer has made in this pass stands in its inbox; a   *)
(* fetch is for a layer that is still to come; a gate is linked to a later  *)
(* layer, and to the same one with the stack or without.                    *)
LookInv ==
    /\ setup \in LookSetups /\ at \in 0 .. LookLayers /\ rows \in Nat
    /\ at < LookLayers /\ rows <= LookTMax =>
         \A t \in Look!Moe, n \in setup.depths \ {0} :
            t >= n /\ Look!Sourced(t, n) /\ t - n < at => inbox[t][n] = [pass |-> pass, rows |-> rows]
    /\ Look!SourcedThisPass
    /\ fetches \subseteq {t \in Look!Moe : t >= at}
    /\ next \in [Look!Moe -> Look!Moe \cup {Off}]
    /\ \A l \in Look!Moe : next[l] # Off => next[l] > l /\ next[l] = Look!Linked(setup, l)
    /\ linked \subseteq Look!Moe /\ Look!SameSites

(* What the assumptions say of one setting of the predictor.                *)
LEMMA SetupFacts ==
    ASSUME LookSettings, NEW s \in LookSetups
    PROVE  /\ LookLayers \in Nat /\ LookFirst \in Nat /\ LookTMax \in Nat /\ LookTokens \subseteq Nat
           /\ s.depths \subseteq Nat /\ s.point \in {"pre", "post"}
           /\ s.reach \in Nat \ {0} /\ s.stride \in Nat \ {0}
           /\ Look!Moe = LookFirst .. LookLayers - 1 /\ Look!Layer = 0 .. LookLayers - 1
           /\ \A l \in Look!Moe : Look!Linked(s, l) # Off =>
                  Look!Linked(s, l) \in Look!Moe /\ Look!Linked(s, l) > l
           /\ s.stack => \A l : Look!Stacked(s, l) = Look!Linked(s, l)
<1>1. Look!LookaheadAssumption
  BY ExpertsAssumption
<1>2. /\ LookLayers \in Nat /\ LookFirst \in Nat /\ LookTMax \in Nat /\ LookTokens \subseteq Nat
      /\ s.depths \subseteq Nat /\ s.point \in {"pre", "post"}
      /\ s.reach \in Nat \ {0} /\ s.stride \in Nat \ {0}
  BY <1>1 DEF Look!LookaheadAssumption
<1>3. Look!Moe = LookFirst .. LookLayers - 1 /\ Look!Layer = 0 .. LookLayers - 1
  BY DEF Look!Moe, Look!Layer
<1>4. \A l \in Look!Moe : Look!Linked(s, l) # Off =>
          Look!Linked(s, l) \in Look!Moe /\ Look!Linked(s, l) > l
  BY <1>2, <1>3 DEF Look!Linked
<1>5. s.stack => \A l : Look!Stacked(s, l) = Look!Linked(s, l)
  BY DEF LookSettings, Look!Stacked, Look!Linked
<1> QED BY <1>2, <1>3, <1>4, <1>5

(* Boot.                                                                    *)
LEMMA LookStarts ==
    ASSUME LookSettings, Look!Init
    PROVE  LookInv
<1>1. /\ setup \in LookSetups /\ rows = 1 /\ at = LookLayers /\ scored = {} /\ fetches = {} /\ linked = {}
      /\ next = [l \in Look!Moe |-> IF setup.fused /\ setup.stack THEN Look!Stacked(setup, l) ELSE Off]
  BY DEF Look!Init
<1>2. LookLayers \in Nat
  BY <1>1, SetupFacts
<1>3. \A l \in Look!Moe : next[l] # Off => next[l] \in Look!Moe /\ next[l] > l /\ next[l] = Look!Linked(setup, l)
  BY <1>1, SetupFacts
<1>4. next \in [Look!Moe -> Look!Moe \cup {Off}]
  BY <1>1, <1>3
<1> QED BY <1>1, <1>2, <1>3, <1>4 DEF LookInv, Look!SourcedThisPass, Look!SameSites

(* A layer of a small pass.                                                 *)
LEMMA SmallLayerStep ==
    ASSUME LookSettings, LookInv, Look!SmallLayer
    PROVE  LookInv'
<1> DEFINE link == IF at \in Look!Moe THEN Look!FusedLink(at) ELSE Off
           emits == Look!PreEmits(at) \/ Look!PostEmits(at)
<1>1. /\ at < LookLayers /\ rows <= LookTMax /\ at' = at + 1
      /\ scored' = Look!Measured(at) /\ inbox' = (IF emits THEN Look!Filled(at) ELSE inbox)
      /\ next' = (IF at \in Look!Moe THEN [next EXCEPT ![at] = link] ELSE next)
      /\ linked' = (IF setup.fused /\ at \in Look!Moe THEN linked \cup {at} ELSE linked)
      /\ fetches' = ((IF emits THEN Look!Issued(at) ELSE {}) \cup (IF link # Off THEN {link} ELSE {}) \cup fetches) \ {at}
      /\ UNCHANGED <<setup, pass, rows>>
  BY DEF Look!SmallLayer
<1>2. /\ setup \in LookSetups /\ at \in Nat /\ rows \in Nat /\ linked \subseteq Look!Moe
      /\ next \in [Look!Moe -> Look!Moe \cup {Off}] /\ fetches \subseteq {t \in Look!Moe : t >= at}
      /\ \A l \in Look!Moe : next[l] # Off => next[l] > l /\ next[l] = Look!Linked(setup, l)
      /\ \A l \in linked : next[l] = Look!Linked(setup, l)
      /\ \A t \in Look!Moe, n \in setup.depths \ {0} :
            t >= n /\ Look!Sourced(t, n) /\ t - n < at => inbox[t][n] = [pass |-> pass, rows |-> rows]
  BY <1>1 DEF LookInv, Look!SameSites
<1>3. /\ LookLayers \in Nat /\ LookFirst \in Nat /\ setup.depths \subseteq Nat /\ setup.point \in {"pre", "post"}
      /\ Look!Moe = LookFirst .. LookLayers - 1 /\ Look!Layer = 0 .. LookLayers - 1
      /\ \A l \in Look!Moe : Look!Linked(setup, l) # Off =>
             Look!Linked(setup, l) \in Look!Moe /\ Look!Linked(setup, l) > l
  BY <1>2, SetupFacts
<1>4. at' \in 0 .. LookLayers
  BY <1>1, <1>2, <1>3
<1>5. ASSUME at \in Look!Moe
      PROVE  /\ link # Off => link \in Look!Moe /\ link > at /\ link = Look!Linked(setup, at)
             /\ setup.fused => link = Look!Linked(setup, at)
  <2>1. CASE setup.fused /\ next[at] = Off /\ at \notin linked
    <3>1. link = Look!Linked(setup, at)
      BY <1>5, <2>1 DEF Look!FusedLink
    <3> HIDE DEF link
    <3> QED BY <3>1, <1>3, <1>5
  <2>2. CASE ~(setup.fused /\ next[at] = Off /\ at \notin linked)
    <3>1. link = next[at]
      BY <1>5, <2>2 DEF Look!FusedLink
    <3> HIDE DEF link
    <3> QED BY <3>1, <2>2, <1>2, <1>5
  <2> QED BY <2>1, <2>2
<1>6. at \notin Look!Moe => link = Off
  OBVIOUS
<1> HIDE DEF link
<1> HIDE DEF emits
<1>7. next' \in [Look!Moe -> Look!Moe \cup {Off}]
  BY <1>1, <1>2, <1>5
<1>8. \A l \in Look!Moe : next'[l] # Off => next'[l] > l /\ next'[l] = Look!Linked(setup, l)
  BY <1>1, <1>2, <1>5
<1>9. /\ linked' \subseteq Look!Moe
      /\ \A l \in linked' : next'[l] = Look!Linked(setup, l)
  <2>1. \A l \in linked' : l \in Look!Moe /\ (l \in linked \/ (setup.fused /\ l = at))
    BY <1>1, <1>2
  <2>2. ASSUME NEW l \in linked' PROVE next'[l] = Look!Linked(setup, l)
    <3>1. CASE l = at /\ setup.fused
      BY <3>1, <2>1, <1>1, <1>2, <1>5
    <3>2. CASE l = at /\ ~setup.fused
      <4>1. l \in linked /\ l \in Look!Moe /\ next[l] = Look!Linked(setup, l) /\ next'[l] = link
        BY <3>2, <2>1, <1>1, <1>2
      <4>2. link = next[at]
        BY <3>2, <4>1 DEF link, Look!FusedLink
      <4> QED BY <3>2, <4>1, <4>2
    <3>3. CASE l # at
      BY <3>3, <2>1, <1>1, <1>2
    <3> QED BY <3>1, <3>2, <3>3
  <2> QED BY <2>1, <2>2
<1>10. \A l \in Look!Moe : Look!Linked(setup, l)' = Look!Linked(setup, l)
  BY <1>1 DEF Look!Linked
<1>11. fetches' \subseteq {t \in Look!Moe : t >= at'}
  <2>1. \A k \in Look!Issued(at) : k \in Look!Moe /\ k > at
    BY <1>2, <1>3 DEF Look!Issued, Look!Targets
  <2>2. Look!Moe \subseteq Int
    BY <1>3
  <2>3. ASSUME NEW t \in fetches' PROVE t \in Look!Moe /\ t >= at'
    <3>1. t # at /\ (t \in Look!Issued(at) \/ (t = link /\ link # Off) \/ t \in fetches)
      BY <1>1, <2>3
    <3>2. t \in Look!Moe /\ t >= at
      <4>1. CASE t \in Look!Issued(at)
        <5>1. t \in Look!Moe /\ t > at
          BY <4>1, <2>1
        <5> QED BY <5>1, <2>2, <1>2
      <4>2. CASE t = link /\ link # Off
        <5>1. link \in Look!Moe /\ link > at
          BY <4>2, <1>5, <1>6
        <5> QED BY <5>1, <4>2, <2>2, <1>2
      <4>3. CASE t \in fetches
        BY <4>3, <1>2
      <4> QED BY <3>1, <4>1, <4>2, <4>3
    <3> QED BY <3>1, <3>2, <1>1, <1>2, <2>2
  <2> QED BY <2>3
<1>12. \A t, n : Look!Sourced(t, n)' = Look!Sourced(t, n)
  BY <1>1 DEF Look!Sourced
<1>13. ASSUME NEW t \in Look!Moe, NEW n \in setup.depths \ {0},
              t >= n, Look!Sourced(t, n), t - n < at + 1
       PROVE  inbox'[t][n] = [pass |-> pass, rows |-> rows]
  <2>1. t \in Nat /\ n \in Nat /\ n # 0
    BY <1>2, <1>3
  <2>2. CASE t - n < at
    <3>1. inbox[t][n] = [pass |-> pass, rows |-> rows]
      BY <1>2, <1>13, <2>2
    <3> QED BY <1>1, <3>1, <2>1 DEF Look!Filled
  <2>3. CASE t - n = at
    <3>1. t = at + n /\ at + n \in Look!Moe /\ t \notin setup.hash
      BY <2>1, <2>3, <1>2, <1>13 DEF Look!Sourced
    <3>2. n \in Look!Targets(at)
      BY <3>1 DEF Look!Targets
    <3>3. emits
      BY <2>3, <1>3, <1>13 DEF emits, Look!Sourced, Look!PreEmits, Look!PostEmits
    <3>4. inbox' = Look!Filled(at)
      BY <1>1, <3>3
    <3> QED BY <3>1, <3>2, <3>4 DEF Look!Filled
  <2> QED BY <1>2, <1>13, <2>1, <2>2, <2>3
<1>14. Look!SourcedThisPass'
  <2>1. ASSUME NEW s \in scored', s.layer >= s.depth, Look!Sourced(s.layer, s.depth)
        PROVE  s.inbox = [pass |-> pass, rows |-> rows]
    <3>1. PICK n \in setup.depths \ {0} :
            s = [layer |-> at, depth |-> n, inbox |-> inbox[at][n]] /\ at \in Look!Moe
      BY <1>1, <2>1 DEF Look!Measured
    <3>2. at >= n /\ Look!Sourced(at, n) /\ at - n < at
      BY <3>1, <2>1, <1>2, <1>3
    <3> QED BY <3>1, <3>2, <1>2
  <2> QED BY <1>1, <1>12, <2>1 DEF Look!SourcedThisPass
<1>15. Look!SameSites'
  BY <1>9, <1>10 DEF Look!SameSites
<1>16. Look!Moe' = Look!Moe
  BY DEF Look!Moe
<1> QED BY <1>1, <1>2, <1>4, <1>7, <1>8, <1>9, <1>10, <1>11, <1>12, <1>13, <1>14, <1>15, <1>16 DEF LookInv

(* The other steps: a pass begins, a large layer, a draft pass.             *)
LEMMA LookNext ==
    ASSUME LookSettings, LookInv, Look!Next
    PROVE  LookInv'
<1>1. /\ setup \in LookSetups /\ at \in 0 .. LookLayers /\ rows \in Nat
      /\ fetches \subseteq {t \in Look!Moe : t >= at}
      /\ LookLayers \in Nat /\ LookTokens \subseteq Nat /\ Look!Moe = LookFirst .. LookLayers - 1 /\ LookFirst \in Nat
  BY SetupFacts DEF LookInv
<1>2. ASSUME setup' = setup PROVE /\ \A l : Look!Linked(setup, l)' = Look!Linked(setup, l)
                                  /\ \A t, n : Look!Sourced(t, n)' = Look!Sourced(t, n)
  BY <1>2 DEF Look!Linked, Look!Sourced
<1>3. ASSUME Look!Begin PROVE LookInv'
  <2>1. /\ rows' \in LookTokens /\ at' = 0 /\ scored' = {} /\ at = LookLayers
        /\ UNCHANGED <<setup, inbox, next, linked, fetches>>
    BY <1>3 DEF Look!Begin
  <2>2. fetches' = {}
    BY <1>1, <2>1
  <2>3. \A t \in Look!Moe, n \in setup.depths \ {0} : t >= n => ~(t - n < 0)
    <3>1. setup.depths \subseteq Nat
      BY <1>1, SetupFacts
    <3> QED BY <1>1, <3>1
  <2>4. Look!SourcedThisPass' /\ Look!SameSites'
    BY <1>2, <2>1 DEF LookInv, Look!SourcedThisPass, Look!SameSites
  <2>5. at' \in 0 .. LookLayers /\ rows' \in Nat /\ fetches' \subseteq {t \in Look!Moe : t >= at'}
    BY <1>1, <2>1, <2>2
  <2>6. \A t \in Look!Moe, n \in setup'.depths \ {0} :
            t >= n /\ Look!Sourced(t, n)' /\ t - n < at' => inbox'[t][n] = [pass |-> pass', rows |-> rows']
    BY <2>1, <2>3
  <2> QED BY <1>2, <2>1, <2>4, <2>5, <2>6 DEF LookInv
<1>4. ASSUME Look!LargeLayer PROVE LookInv'
  <2>1. /\ at < LookLayers /\ rows > LookTMax /\ fetches' = fetches \ {at} /\ scored' = {} /\ at' = at + 1
        /\ UNCHANGED <<setup, pass, rows, inbox, next, linked>>
    BY <1>4 DEF Look!LargeLayer
  <2>2. /\ at' \in 0 .. LookLayers /\ fetches' \subseteq {t \in Look!Moe : t >= at'}
    BY <1>1, <2>1
  <2>3. ~(rows' <= LookTMax)
    BY <1>1, <2>1, SetupFacts
  <2> QED BY <1>1, <1>2, <2>1, <2>2, <2>3 DEF LookInv, Look!SourcedThisPass, Look!SameSites
<1>5. ASSUME Look!DraftPass PROVE LookInv'
  <2>1. at = LookLayers /\ scored' = {} /\ UNCHANGED <<setup, rows, at, inbox, next, linked, fetches>>
    BY <1>5 DEF Look!DraftPass
  <2>2. Look!SourcedThisPass' /\ Look!SameSites'
    BY <1>2, <2>1 DEF LookInv, Look!SourcedThisPass, Look!SameSites
  <2>3. ~(at' < LookLayers)
    BY <1>1, <2>1
  <2> QED BY <1>1, <1>2, <2>1, <2>2, <2>3 DEF LookInv
<1> QED BY <1>3, <1>4, <1>5, SmallLayerStep DEF Look!Next

(* A step of another part changes nothing here.                             *)
LEMMA LookStill ==
    ASSUME LookInv, UNCHANGED lookVars
    PROVE  LookInv'
<1>1. UNCHANGED <<setup, pass, rows, at, inbox, scored, next, linked, fetches>>
  BY DEF lookVars
<1>2. \A l : Look!Linked(setup, l)' = Look!Linked(setup, l)
  BY <1>1 DEF Look!Linked
<1>3. \A t, n : Look!Sourced(t, n)' = Look!Sourced(t, n)
  BY <1>1 DEF Look!Sourced
<1> QED BY <1>1, <1>2, <1>3 DEF LookInv, Look!SourcedThisPass, Look!SameSites

(* The three properties of the predictor follow.                            *)
LEMMA LookExact ==
    ASSUME LookSettings, LookInv
    PROVE  Look!FetchesJoined /\ Look!SourcedThisPass /\ Look!SameSites
<1>1. LookLayers \in Nat /\ Look!Moe = LookFirst .. LookLayers - 1 /\ LookFirst \in Nat
  BY SetupFacts DEF LookInv
<1> QED BY <1>1 DEF LookInv, Look!FetchesJoined

-----------------------------------------------------------------------------

(* For any experts, slots, settings of the selection, depth of the queues,  *)
(* layers and passes, with the waits, the routing and the CPU skip on       *)
(* together: each routed expert is computed once, by the GPU with its own   *)
(* weights or by the CPU, however far the host runs ahead of the device;    *)
(* the hold table is true, no expert is in two slots, no gather follows a   *)
(* null row and the waits between the streams resolve; every fetch of the   *)
(* predictor is joined in its pass, and a score is about a prediction of    *)
(* this very pass.                                                          *)
THEOREM ExpertsLandOnce ==
    ASSUME PrefetchSettings, LookSettings
    PROVE  MCSpec => []LandedOnce
<1> DEFINE IInv == (part = "slots" => SlotInv) /\ (part = "look" => LookInv)
<1>1. MCInit => IInv
  BY SlotStarts, LookStarts DEF MCInit
<1>2. IInv /\ [MCNext]_MCVars => IInv'
  <2> SUFFICES ASSUME IInv, [MCNext]_MCVars PROVE IInv'
    OBVIOUS
  <2>1. part' = part
    BY DEF MCNext, MCVars
  <2>2. ASSUME part = "slots" PROVE SlotInv'
    <3>1. Slots!Next \/ UNCHANGED slotVars
      BY <2>2 DEF MCNext, MCVars
    <3> QED BY <2>2, <3>1, SlotNext, SlotStill
  <2>3. ASSUME part = "look" PROVE LookInv'
    <3>1. Look!Next \/ UNCHANGED lookVars
      BY <2>3 DEF MCNext, MCVars
    <3> QED BY <2>3, <3>1, LookNext, LookStill
  <2> QED BY <2>1, <2>2, <2>3
<1>3. IInv => LandedOnce
  BY SlotExact, LookExact DEF LandedOnce
<1> QED BY <1>1, <1>2, <1>3, PTL DEF MCSpec

-----------------------------------------------------------------------------
(* The substitution of a token's experts (TopKRoute): the three kernels of  *)
(* a decode pass, which drop the slots of a token that its tiers cannot     *)
(* serve and fill them with resident experts.                               *)

(* GPU-only routing fills from the experts of the GPU: KT_TIER_FILL_POOL,   *)
(* which names another pool, says which experts a three-tier store offers.  *)
RouteSettingsOk ==
    \A c \in RouteSettings : c.gpuOnly /\ c.threeTier => c.fillPool = "gpu"

(* The token as the router left it, and where the experts are.              *)
RouteFacts ==
    /\ config \in RouteSettings
    /\ tier \in [Route!Experts -> {"gpu", "ram", "ssd"}]
    /\ ~ config.threeTier => \A e \in Route!Experts : tier[e] # "ssd"
    /\ routerIds \in [Route!Slots -> Route!Experts]
    /\ \A i, j \in Route!Slots : i # j => routerIds[i] # routerIds[j]
    /\ w \in [Route!Slots -> 1 .. RouteWeight]
    /\ ~ done => outIds = routerIds /\ voted = {}

RoutedHonestly ==
    /\ Route!NoUnreachableMass /\ Route!NoDoubleExpert /\ Route!TopKGenuine
    /\ Route!NoSlotLost /\ Route!StandInsInOrder /\ Route!StandInsDoNotVote
    /\ Route!CpuPathZero

RouteInv == RouteFacts /\ RoutedHonestly

LEMMA RouteParams ==
    /\ RouteExperts \in Nat /\ RouteSlots \in Nat \ {0} /\ RouteWeight \in Nat \ {0} /\ RouteCount \in Nat
    /\ Route!Slots = 1 .. RouteSlots /\ Route!Experts = 1 .. RouteExperts
  BY ExpertsAssumption DEF ExpertsAssumption, Route!TopKRouteAssumption, Route!Slots, Route!Experts

LEMMA RouteSizes == \A S : Route!Cardinality(S) = Cardinality(S)
  BY DEF Route!Cardinality, Cardinality

LEMMA FitsInto ==
    ASSUME NEW S, IsFiniteSet(S), NEW T, IsFiniteSet(T), NEW f \in [S -> T],
           \A x, y \in S : f[x] = f[y] => x = y
    PROVE  Cardinality(S) <= Cardinality(T)
<1>1. Cardinality(S) \in Nat /\ Cardinality(T) \in Nat
  BY FS_CardinalityType
<1>2. CASE Cardinality(T) < Cardinality(S)
  BY <1>2, FS_PigeonHole
<1> QED BY <1>1, <1>2

(* Kept slots rank behind the others, and a pick outside the pool comes     *)
(* after the whole pool: so a pool that is large enough serves them all.    *)
LEMMA PicksSuffice ==
    ASSUME NEW n \in Nat \ {0}, NEW P, IsFiniteSet(P), NEW K \in SUBSET (1 .. n),
           NEW d \in [1 .. n -> 0 .. (n - 1)], NEW f,
           \A i, j \in 1 .. n : i # j => d[i] # d[j],
           \A i \in K, j \in (1 .. n) \ K : d[j] < d[i],
           \A i \in 1 .. n, e \in P : f[i] \notin P => \E j \in 1 .. (i - 1) : f[j] = e,
           Cardinality(P) >= n - Cardinality(K),
           NEW k \in (1 .. n) \ K
    PROVE  f[d[k] + 1] \in P
<1> SUFFICES ASSUME f[d[k] + 1] \notin P PROVE FALSE
  OBVIOUS
<1> DEFINE q == d[k]
           g == [e \in P |-> CHOOSE j \in 1 .. q : f[j] = e]
           h == [i \in K |-> d[i]]
<1>1. q \in 0 .. (n - 1) /\ q \in Nat /\ q + 1 \in 1 .. n /\ (q + 1) - 1 = q
  OBVIOUS
<1>2. \A e \in P : \E j \in 1 .. q : f[j] = e
  BY <1>1
<1>3. g \in [P -> 1 .. q] /\ \A x, y \in P : g[x] = g[y] => x = y
  BY <1>2
<1>4. IsFiniteSet(1 .. q) /\ Cardinality(1 .. q) = q
  <2> HIDE DEF q
  <2>1. q \in Int /\ 1 \in Int
    BY <1>1
  <2>2. IsFiniteSet(1 .. q) /\ Cardinality(1 .. q) = IF 1 > q THEN 0 ELSE (q - 1) + 1
    BY <2>1, FS_Interval
  <2> QED BY <1>1, <2>2
<1>5. Cardinality(P) <= q
  <2> DEFINE T == 1 .. q
  <2>1. g \in [P -> T] /\ IsFiniteSet(T) /\ Cardinality(T) = q
    BY <1>3, <1>4
  <2> HIDE DEF g, q, T
  <2>2. Cardinality(P) <= Cardinality(T)
    BY <1>3, <2>1, FitsInto
  <2> QED BY <2>1, <2>2
<1>6. h \in [K -> (q + 1) .. (n - 1)] /\ \A x, y \in K : h[x] = h[y] => x = y
  <2>1. \A i \in K : q < d[i] /\ d[i] \in 0 .. (n - 1) /\ i \in 1 .. n
    OBVIOUS
  <2>2. \A x, y \in K : d[x] = d[y] => x = y
    BY <2>1
  <2>3. \A i \in K : d[i] \in (q + 1) .. (n - 1)
    <3> HIDE DEF q
    <3> QED BY <1>1, <2>1
  <2> QED BY <2>2, <2>3
<1>7. IsFiniteSet((q + 1) .. (n - 1)) /\ Cardinality((q + 1) .. (n - 1)) = (n - 1) - q
  <2>1. q + 1 \in Int /\ n - 1 \in Int /\ q <= n - 1
    BY <1>1
  <2> HIDE DEF q
  <2>2. /\ IsFiniteSet((q + 1) .. (n - 1))
        /\ Cardinality((q + 1) .. (n - 1)) = IF q + 1 > n - 1 THEN 0 ELSE ((n - 1) - (q + 1)) + 1
    BY <2>1, FS_Interval
  <2> QED BY <1>1, <2>1, <2>2
<1>8. IsFiniteSet(K)
  <2>1. IsFiniteSet(1 .. n)
    BY FS_Interval
  <2> QED BY <2>1, FS_Subset
<1>9. Cardinality(K) <= (n - 1) - q
  <2> DEFINE T == (q + 1) .. (n - 1)
  <2>1. h \in [K -> T] /\ IsFiniteSet(T) /\ Cardinality(T) = (n - 1) - q
    BY <1>6, <1>7
  <2> HIDE DEF h, q, T
  <2>2. Cardinality(K) <= Cardinality(T)
    BY <1>6, <1>8, <2>1, FitsInto
  <2> QED BY <2>1, <2>2
<1>10. Cardinality(P) \in Nat /\ Cardinality(K) \in Nat
  BY <1>8, FS_CardinalityType
<1> QED
  <2> HIDE DEF q
  <2> QED BY <1>1, <1>5, <1>9, <1>10

LEMMA SubstitutionStarts == ASSUME Route!Init PROVE RouteInv
<1>1. \A i, j \in Route!Slots : i # j => routerIds[i] # routerIds[j]
  <2>1. \A i \in Route!Slots : i \in Int /\ routerIds[i] \in Int
    BY RouteParams DEF Route!Init
  <2>2. \A i, j \in Route!Slots : i < j => routerIds[i] < routerIds[j]
    BY DEF Route!Init
  <2> QED BY <2>1, <2>2
<1>2. /\ config \in RouteSettings /\ tier \in [Route!Experts -> {"gpu", "ram", "ssd"}]
      /\ ~ config.threeTier => \A e \in Route!Experts : tier[e] # "ssd"
  BY DEF Route!Init
<1>3. routerIds \in [Route!Slots -> Route!Experts] /\ w \in [Route!Slots -> 1 .. RouteWeight]
      /\ outIds = routerIds /\ voted = {} /\ ~ done
  BY DEF Route!Init
<1> QED BY <1>1, <1>2, <1>3 DEF RouteInv, RouteFacts, RoutedHonestly, Route!NoUnreachableMass,
      Route!NoDoubleExpert, Route!TopKGenuine, Route!NoSlotLost, Route!StandInsInOrder,
      Route!StandInsDoNotVote, Route!CpuPathZero

LEMMA SubstitutionStays == ASSUME RouteFacts, Route!Route PROVE RouteFacts'
  BY DEF RouteFacts, Route!Route

LEMMA DropIsHonest ==
    ASSUME RouteFacts, Route!Route, Route!RouteDrop
    PROVE  RoutedHonestly'
<1>1. config.mode = "drop" /\ config' = config /\ routerIds' = routerIds /\ keepK' = keepK /\ w' = w
      /\ outIds' = routerIds /\ outIds \in [Route!Slots -> Route!Experts]
  BY DEF RouteFacts, Route!Route, Route!RouteDrop
<1>2. \A j \in Route!Slots : rank'[j] < keepK => outW'[j] = w[j]
  BY DEF Route!RouteDrop
<1> QED BY <1>1, <1>2 DEF RoutedHonestly, Route!NoUnreachableMass,
      Route!NoDoubleExpert, Route!TopKGenuine, Route!NoSlotLost, Route!StandInsInOrder,
      Route!StandInsDoNotVote, Route!CpuPathZero

(* What a token routed in safe mode is, with drank the order among the      *)
(* dropped slots and fill the stand-ins in order.                           *)
SafeOutcome(r, drank, fill) ==
    /\ outIds' = [j \in Route!Slots |-> IF j \in Route!KeepMask(r) THEN routerIds[j] ELSE fill[drank[j] + 1]]
    /\ outW' = [j \in Route!Slots |->
                  IF j \in Route!KeepMask(r) THEN w[j]
                  ELSE IF fill[drank[j] + 1] \in Route!FillPool(Route!KeepMask(r)) THEN 1 ELSE 0]
    /\ voted' = Route!Votes(r, routerIds, outIds')

(* The order among the dropped slots, and the stand-ins.                    *)
DropOrder(K, drank) ==
    /\ drank \in [Route!Slots -> 0 .. (RouteSlots - 1)]
    /\ \A i, j \in Route!Slots : i # j => drank[i] # drank[j]
    /\ \A i \in K, j \in Route!Slots \ K : drank[j] < drank[i]
    /\ \A i, j \in Route!Slots \ K : w[i] > w[j] => drank[i] < drank[j]

StandIns(P, fill) ==
    /\ fill \in [Route!Slots -> Route!Experts]
    /\ \A i, j \in Route!Slots : i # j => fill[i] # fill[j]
    /\ \A i \in Route!Slots, e \in P : fill[i] \notin P \/ fill[i] < e => \E j \in 1 .. (i - 1) : fill[j] = e

LEMMA SafeIs ==
    ASSUME RouteFacts, Route!Route, Route!RouteSafe
    PROVE  \E r, drank, fill :
              /\ rank' = r /\ keep' = Route!KeepMask(r) /\ SafeOutcome(r, drank, fill)
              /\ DropOrder(Route!KeepMask(r), drank) /\ StandIns(Route!FillPool(Route!KeepMask(r)), fill)
<1>1. PICK r \in Route!Ranks(w) :
        \E drank \in Route!Ranks([j \in Route!Slots |-> IF j \in Route!KeepMask(r) THEN -1 ELSE w[j]]),
           fill \in Route!Fills(Route!KeepMask(r)) :
          rank' = r /\ keep' = Route!KeepMask(r) /\ SafeOutcome(r, drank, fill)
  BY DEF Route!RouteSafe, SafeOutcome
<1> DEFINE K == Route!KeepMask(r)
           key == [j \in Route!Slots |-> IF j \in K THEN -1 ELSE w[j]]
<1>2. PICK drank \in Route!Ranks(key), fill \in Route!Fills(K) :
        rank' = r /\ keep' = K /\ SafeOutcome(r, drank, fill)
  BY <1>1
<1>3. K \subseteq Route!Slots
  BY DEF Route!KeepMask
<1>4. \A j \in Route!Slots : /\ j \in K => key[j] = -1
                             /\ j \notin K => key[j] = w[j] /\ w[j] \in Nat /\ w[j] > -1
  BY RouteParams DEF RouteFacts
<1>5. /\ drank \in [Route!Slots -> 0 .. (RouteSlots - 1)]
      /\ \A i, j \in Route!Slots : i # j => drank[i] # drank[j]
      /\ \A i, j \in Route!Slots : key[i] > key[j] => drank[i] < drank[j]
  BY <1>2 DEF Route!Ranks, Route!Orders
<1> HIDE DEF key
<1>6. DropOrder(K, drank)
  BY <1>3, <1>4, <1>5 DEF DropOrder
<1>7. StandIns(Route!FillPool(K), fill)
  BY <1>2 DEF Route!Fills, StandIns
<1> QED BY <1>2, <1>6, <1>7

LEMMA PoolFacts ==
    ASSUME RouteFacts, NEW K
    PROVE  /\ Route!FillPool(K) \subseteq Route!Experts
           /\ \A e \in Route!FillPool(K) : tier[e] # "ssd" /\ \A j \in Route!Slots : routerIds[j] # e
           /\ RouteSettingsOk /\ config.gpuOnly => Route!FillPool(K) \subseteq Route!Gpu
<1>1. DOMAIN routerIds = Route!Slots
  BY DEF RouteFacts
<1>2. Route!FillPool(K) \subseteq Route!FillVec /\ \A e \in Route!FillPool(K), j \in Route!Slots : routerIds[j] # e
  BY <1>1 DEF Route!FillPool, Route!Range
<1>3. Route!FillVec \subseteq Route!Experts /\ \A e \in Route!FillVec : tier[e] # "ssd"
  BY DEF Route!FillVec, Route!Gpu, Route!Reach
<1>4. RouteSettingsOk /\ config.gpuOnly => Route!FillVec \subseteq Route!Gpu
  BY DEF RouteFacts, RouteSettingsOk, Route!FillVec, Route!Reach
<1> QED BY <1>2, <1>3, <1>4

LEMMA KeptFacts ==
    ASSUME RouteFacts, NEW r, NEW j \in Route!KeepMask(r)
    PROVE  /\ j \in Route!Slots /\ tier[routerIds[j]] # "ssd"
           /\ config.gpuOnly => routerIds[j] \in Route!OnGpu
<1>1. j \in Route!Slots /\ routerIds[j] \in Route!Experts
  BY DEF RouteFacts, Route!KeepMask
<1>2. config.threeTier => routerIds[j] \in Route!Reach
  BY DEF Route!KeepMask
<1>3. tier[routerIds[j]] # "ssd"
  BY <1>1, <1>2 DEF RouteFacts, Route!Reach
<1> QED BY <1>1, <1>3 DEF Route!KeepMask

LEMMA SafeIsHonest ==
    ASSUME RouteSettingsOk, RouteFacts, Route!Route, Route!RouteSafe
    PROVE  RoutedHonestly'
<1>1. PICK r, drank, fill :
        /\ rank' = r /\ keep' = Route!KeepMask(r) /\ SafeOutcome(r, drank, fill)
        /\ DropOrder(Route!KeepMask(r), drank) /\ StandIns(Route!FillPool(Route!KeepMask(r)), fill)
  BY SafeIs
<1> DEFINE K == Route!KeepMask(r)
           P == Route!FillPool(K)
<1>2. /\ config.mode = "safe" /\ config' = config /\ tier' = tier /\ arrived' = arrived /\ fresh' = fresh
      /\ keepK' = keepK /\ routerIds' = routerIds /\ w' = w
  BY DEF Route!Route, Route!RouteSafe
<1>3. K \subseteq Route!Slots /\ \A j \in K : r[j] < keepK
  BY DEF Route!KeepMask
<1>4. /\ outIds' = [j \in Route!Slots |-> IF j \in K THEN routerIds[j] ELSE fill[drank[j] + 1]]
      /\ outW' = [j \in Route!Slots |-> IF j \in K THEN w[j] ELSE IF fill[drank[j] + 1] \in P THEN 1 ELSE 0]
  BY <1>1 DEF SafeOutcome
<1>5. DropOrder(K, drank) /\ StandIns(P, fill) /\ keep' = K /\ rank' = r
  BY <1>1
<1>6. /\ P \subseteq Route!Experts
      /\ \A e \in P : tier[e] # "ssd" /\ \A j \in Route!Slots : routerIds[j] # e
      /\ config.gpuOnly => P \subseteq Route!Gpu
  BY PoolFacts
<1>7. /\ \A j \in K : tier[routerIds[j]] # "ssd"
      /\ config.gpuOnly => \A j \in K : routerIds[j] \in Route!OnGpu
  BY KeptFacts
<1>8. \A j \in Route!Slots : w[j] \in Nat /\ w[j] > 0
  BY RouteParams DEF RouteFacts
<1> USE DEF RouteFacts
<1>11. ASSUME NEW j \in Route!Slots \ K PROVE drank[j] + 1 \in Route!Slots
  <2>1. drank[j] \in 0 .. (RouteSlots - 1)
    BY <1>5 DEF DropOrder
  <2>2. \A n \in Nat \ {0} : \A k \in 0 .. (n - 1) : k + 1 \in 1 .. n
    OBVIOUS
  <2> QED BY <2>1, <2>2, RouteParams
<1> HIDE DEF K, P
<1>9. \A j \in Route!Heavy' : j \in Route!Slots /\ (j \in K \/ fill[drank[j] + 1] \in P)
  BY <1>4 DEF Route!Heavy
<1>10. \A j \in Route!Slots : /\ j \in K => outIds'[j] = routerIds[j] /\ outW'[j] = w[j]
                              /\ j \notin K => outIds'[j] = fill[drank[j] + 1]
  BY <1>4
<1>12. Route!NoUnreachableMass'
  BY <1>2, <1>6, <1>7, <1>9, <1>10 DEF Route!NoUnreachableMass
<1>13. Route!NoDoubleExpert'
  <2> SUFFICES ASSUME NEW i \in Route!Heavy', NEW j \in Route!Heavy', i # j PROVE outIds'[i] # outIds'[j]
    BY DEF Route!NoDoubleExpert
  <2>1. CASE i \in K /\ j \in K
    BY <2>1, <1>9, <1>10
  <2>2. CASE i \notin K /\ j \notin K
    <3>1. drank[i] # drank[j] /\ drank[i] \in Nat /\ drank[j] \in Nat
      BY <1>5, <1>9 DEF DropOrder
    <3>2. drank[i] + 1 # drank[j] + 1 /\ drank[i] + 1 \in Route!Slots /\ drank[j] + 1 \in Route!Slots
      BY <2>2, <3>1, <1>9, <1>11
    <3>3. fill[drank[i] + 1] # fill[drank[j] + 1]
      BY <3>2, <1>5 DEF StandIns
    <3> QED BY <2>2, <3>3, <1>9, <1>10
  <2>3. CASE i \in K <=> j \notin K
    BY <2>3, <1>6, <1>9, <1>10
  <2> QED BY <2>1, <2>2, <2>3
<1>14. Route!TopKGenuine'
  <2> SUFFICES ASSUME ~ config.gpuOnly, NEW j \in Route!Slots, r[j] < keepK, tier[routerIds[j]] # "ssd"
               PROVE  outIds'[j] = routerIds[j] /\ outW'[j] = w[j]
    BY <1>2, <1>5 DEF Route!TopKGenuine
  <2>1. j \in K
    BY DEF K, Route!KeepMask, Route!Reach
  <2> QED BY <2>1, <1>10
<1>15. Route!NoSlotLost'
  <2> SUFFICES ASSUME Cardinality(P) >= RouteSlots - Cardinality(K) PROVE \A j \in Route!Slots : outW'[j] > 0
    <3>1. P = (Route!FillVec \ Route!Range(routerIds))'
      BY <1>2 DEF P, Route!FillPool, Route!FillVec, Route!Gpu, Route!Reach, Route!Range
    <3>2. Cardinality(P) >= RouteSlots - Cardinality(K) => Route!Heavy' = Route!Slots
      BY <1>4 DEF Route!Heavy
    <3> QED BY <1>2, <1>5, <3>1, <3>2, RouteSizes DEF Route!NoSlotLost
  <2>1. IsFiniteSet(P)
    <3>1. IsFiniteSet(1 .. RouteExperts)
      BY RouteParams, FS_Interval
    <3> QED BY <3>1, <1>6, RouteParams, FS_Subset
  <2>2. \A i \in Route!Slots, e \in P : fill[i] \notin P => \E j \in 1 .. (i - 1) : fill[j] = e
    BY <1>5 DEF StandIns
  <2>3. /\ drank \in [1 .. RouteSlots -> 0 .. (RouteSlots - 1)]
        /\ \A i, j \in 1 .. RouteSlots : i # j => drank[i] # drank[j]
        /\ \A i \in K, j \in (1 .. RouteSlots) \ K : drank[j] < drank[i]
    BY <1>5, RouteParams DEF DropOrder
  <2>4. ASSUME NEW j \in Route!Slots \ K PROVE fill[drank[j] + 1] \in P
    BY <1>3, <2>1, <2>2, <2>3, <2>4, RouteParams, PicksSuffice DEF K
  <2>5. \A j \in Route!Slots : outW'[j] = IF j \in K THEN w[j] ELSE 1
    BY <1>4, <2>4
  <2> QED BY <1>8, <2>5
<1>16. Route!StandInsInOrder'
  <2> SUFFICES ASSUME NEW i \in Route!Heavy' \ K, NEW j \in Route!Heavy' \ K, w[i] > w[j]
               PROVE  outIds'[i] > outIds'[j]
    BY <1>2, <1>5 DEF Route!StandInsInOrder
  <2> DEFINE a == drank[i] + 1
             b == drank[j] + 1
  <2>1. a \in Route!Slots /\ b \in Route!Slots /\ fill[a] \in P /\ fill[b] \in P /\ a < b
    <3>1. drank[i] < drank[j] /\ drank[i] \in Nat /\ drank[j] \in Nat
      BY <1>5, <1>9 DEF DropOrder
    <3> QED BY <3>1, <1>9, <1>11
  <2>2. outIds'[i] = fill[a] /\ outIds'[j] = fill[b]
    BY <1>9, <1>10
  <2> HIDE DEF a, b
  <2>3. fill[a] # fill[b] /\ fill[a] \in Int /\ fill[b] \in Int
    BY <2>1, <1>5, RouteParams DEF StandIns
  <2>4. CASE fill[a] < fill[b]
    <3>1. PICK x \in 1 .. (a - 1) : fill[x] = fill[b]
      BY <2>1, <2>4, <1>5 DEF StandIns
    <3>2. x \in Route!Slots /\ x # b
      BY <2>1, RouteParams
    <3> QED BY <2>1, <3>1, <3>2, <1>5 DEF StandIns
  <2> QED BY <2>2, <2>3, <2>4
<1>17. Route!StandInsDoNotVote'
  <2>1. voted' = Route!Votes(r, routerIds, outIds') /\ DOMAIN routerIds = Route!Slots
    BY <1>1 DEF SafeOutcome
  <2> QED BY <2>1, <1>2 DEF Route!StandInsDoNotVote, Route!Votes, Route!Range
<1>18. Route!CpuPathZero'
  <2> SUFFICES ASSUME config.gpuOnly, NEW j \in Route!Heavy'
               PROVE  outIds'[j] \in (Route!Gpu \union (IF fresh THEN arrived ELSE {}))'
    BY <1>2 DEF Route!CpuPathZero
  <2>1. CASE j \in K
    BY <2>1, <1>2, <1>7, <1>9, <1>10 DEF Route!OnGpu, Route!Gpu
  <2>2. CASE j \notin K
    BY <2>2, <1>2, <1>6, <1>9, <1>10 DEF Route!Gpu
  <2> QED BY <2>1, <2>2
<1> QED BY <1>12, <1>13, <1>14, <1>15, <1>16, <1>17, <1>18 DEF RoutedHonestly

LEMMA SubstitutionStep ==
    ASSUME RouteSettingsOk, RouteInv, Route!Next \/ UNCHANGED routeVars
    PROVE  RouteInv'
<1>1. CASE Route!Next
  BY <1>1, SubstitutionStays, DropIsHonest, SafeIsHonest DEF RouteInv, Route!Next, Route!Route
<1>2. CASE UNCHANGED routeVars
  BY <1>2 DEF routeVars, RouteInv, RouteFacts, RoutedHonestly, Route!NoUnreachableMass,
      Route!Gpu, Route!Reach, Route!FillVec, Route!Heavy,
      Route!NoDoubleExpert, Route!TopKGenuine, Route!NoSlotLost, Route!StandInsInOrder,
      Route!StandInsDoNotVote, Route!CpuPathZero
<1> QED BY <1>1, <1>2

(* Safety: for any experts, slots, weights and placement, and any kept      *)
(* count, a token routed in a decode pass computes nothing with an expert   *)
(* that is out of reach, no expert twice, and every kept slot the router    *)
(* chose as the router weighed it; no slot is lost while the pool has       *)
(* stand-ins, better stand-ins serve heavier slots, a stand-in adds no      *)
(* demand, and GPU-only routing leaves the CPU nothing.                     *)
THEOREM RoutesAreHonest == ASSUME RouteSettingsOk PROVE MCSpec => []RoutingHonest
<1> DEFINE I == part = "route" => RouteInv
<1>1. MCInit => I
  BY SubstitutionStarts DEF MCInit
<1>2. I /\ [MCNext]_MCVars => I'
  <2> SUFFICES ASSUME I, [MCNext]_MCVars, part' = "route" PROVE RouteInv'
    OBVIOUS
  <2>1. part = "route" /\ RouteInv
    BY DEF MCNext, MCVars
  <2>2. Route!Next \/ UNCHANGED routeVars
    BY <2>1 DEF MCNext, MCVars
  <2> QED BY <2>1, <2>2, SubstitutionStep
<1>3. I => RoutingHonest
  BY DEF RoutingHonest, RouteInv, RoutedHonestly
<1> QED BY <1>1, <1>2, <1>3, PTL DEF MCSpec
=============================================================================
