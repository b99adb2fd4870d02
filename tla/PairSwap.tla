------------------------------ MODULE PairSwap ------------------------------
(***************************************************************************)
(* The pairwise swap that both selectors (_kt_adaptive_select and          *)
(* _kt_tier_select) make with a layer's demand counters: the hottest       *)
(* challengers against the weakest incumbents, with hysteresis.            *)
(*                                                                         *)
(* Counters are naturals.  A margin or a gain is a rational <<num, den>>.  *)
(* torch.argsort is not stable, so a sort returns any order that respects  *)
(* the keys: an operator that sorts returns the set of its results.        *)
(*                                                                         *)
(* Also here: what _kt_tier_select promises to its caller, which is all    *)
(* that the mover of the three tiers relies on.                            *)
(***************************************************************************)
EXTENDS Naturals, FiniteSets, FiniteSetsExt, Functions

CONSTANT Expert   \* logical expert ids of the layer

Ratio == Nat \X (Nat \ {0})

ASSUME PairSwapAssumption == IsFiniteSet(Expert)

Mass(counts, S) == FoldFunctionOnSet(+, 0, counts, S)
Total(counts) == Mass(counts, Expert)

----------------------------------------------------------------------------

(* The sorted orders of S: weakest first, and hottest first.               *)
WeakestFirst(counts, S) ==
    {o \in Bijection(1 .. Cardinality(S), S) :
        \A i, j \in DOMAIN o : i < j => counts[o[i]] <= counts[o[j]]}

HottestFirst(counts, S) ==
    {o \in Bijection(1 .. Cardinality(S), S) :
        \A i, j \in DOMAIN o : i < j => counts[o[i]] >= counts[o[j]]}

(* The pair rule: the challenger must win by the margin and must buy at    *)
(* least the share gain of the layer's total mass.                         *)
Wins(counts, ch, out, margin, gain) ==
    /\ counts[ch] * margin[2] > margin[1] * counts[out]
    /\ counts[ch] >= counts[out]
    /\ (counts[ch] - counts[out]) * gain[2] >= gain[1] * Total(counts)

(* The i-th hottest challenger is set against the i-th weakest incumbent;  *)
(* the swaps stop at the first pair that fails, or when the budget is used *)
(* up.  This is their number.                                              *)
Swaps(counts, inc, ch, budget, margin, gain) ==
    LET n == Min({budget, Cardinality(DOMAIN inc), Cardinality(DOMAIN ch)})
    IN  Max({k \in 0 .. n :
                \A i \in 1 .. k : Wins(counts, ch[i], inc[i], margin, gain)})

First(o, k) == {o[i] : i \in 1 .. k}

(* swap_in: the new resident sets.                                         *)
SwapIn(counts, resident, candidates, budget, margin, gain) ==
    { LET k == Swaps(counts, inc, ch, budget, margin, gain)
      IN  (resident \ First(inc, k)) \cup First(ch, k) :
        inc \in WeakestFirst(counts, resident),
        ch \in HottestFirst(counts, candidates) }

----------------------------------------------------------------------------

(* Faulty variant: the GPU tier is drawn from all experts, those on SSD    *)
(* included.                                                               *)
TierCutsFromAnywhere(experts, gpu, ram, maxPromote) ==
    {c \in [gpu : SUBSET experts, ram : SUBSET experts] :
        /\ Cardinality(c.gpu) = Cardinality(gpu)
        /\ Cardinality(c.gpu \ gpu) <= maxPromote
        /\ c.ram \cap c.gpu = {}
        /\ Cardinality(c.ram) = Cardinality(ram)}

(* The contract of _kt_tier_select: two disjoint sets of exactly the sizes *)
(* asked for, the GPU set drawn from the experts that are resident in VRAM *)
(* or host RAM now, with a bounded number of arrivals.                     *)
TierCuts(experts, gpu, ram, maxPromote) ==
    {c \in [gpu : SUBSET (gpu \cup ram), ram : SUBSET experts] :
        /\ Cardinality(c.gpu) = Cardinality(gpu)
        /\ Cardinality(c.gpu \ gpu) <= maxPromote
        /\ c.ram \cap c.gpu = {}
        /\ Cardinality(c.ram) = Cardinality(ram)}
=============================================================================
