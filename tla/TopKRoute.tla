----------------------------- MODULE TopKRoute -----------------------------
(***************************************************************************)
(* _kt_topk_experiment on one token of one layer: which of the experts the *)
(* router selected are kept, and which stand in for the others.            *)
(*                                                                         *)
(* Experts are numbered by their router score, so a larger number is a     *)
(* better stand-in; a weight is a natural, and a slot of weight 0 adds     *)
(* nothing to the layer's output.  Renormalisation scales the weights of a *)
(* token by one factor and is left out.  Equal keys may be sorted either   *)
(* way.                                                                    *)
(***************************************************************************)
EXTENDS Integers, FiniteSets, Functions

CONSTANTS
    NumExperts,  \* experts of a layer
    E,           \* experts the router selects
    MaxWeight,   \* bound on router weights
    CountK,      \* ranks whose demand is counted (KT_TIER_COUNT_MODE)
    Configs      \* settings to explore, see Init

TopKRouteAssumption ==
    /\ E \in Nat \ {0} /\ NumExperts \in Nat /\ E <= NumExperts
    /\ MaxWeight \in Nat \ {0} /\ CountK \in Nat

Experts == 1..NumExperts
Slots == 1..E

VARIABLES
    config,   \* [mode, fillPool, gpuOnly, threeTier]
    tier,     \* where each expert's weights are: "gpu", "ram" or "ssd"
    landed,   \* pf_landed: experts in landing slots
    issued,   \* pf_issued: whether the landed mask is this forward's
    keepK,    \* K of the token
    ids, w,   \* topk_ids, topk_weights as the router left them
    rank,     \* rank of each slot by weight, from 0
    keep,     \* slots kept once routing is done
    outIds, outW,
    voted,    \* experts whose demand counter was raised
    done

vars == <<config, tier, landed, issued, keepK, ids, w, rank, keep, outIds, outW, voted, done>>
-----------------------------------------------------------------------------
\* Every assignment of positions to slots.
Orders == {r \in [Slots -> 0..(E - 1)] : \A i, j \in Slots : i # j => r[i] # r[j]}

\* The orders argsort may return: positions by descending key.
Ranks(key) == {r \in Orders : \A i, j \in Slots : key[i] > key[j] => r[i] < r[j]}

Gpu == {e \in Experts : tier[e] = "gpu"}
Reach == IF config.threeTier THEN {e \in Experts : tier[e] # "ssd"} ELSE Gpu

\* The pool stand-ins are taken from.
FillVec == IF config.fillPool = "gpu" THEN Gpu ELSE Reach

\* A mask that is trusted whether or not this forward issued a prefetch.
OnGpuStale == Gpu \union landed

\* Experts computed on the GPU: resident, or streamed in for this forward.
OnGpu == IF issued THEN Gpu \union landed ELSE Gpu

\* Slots kept, without the filter on reachability.
KeepMaskUnfiltered(r) == {j \in Slots : r[j] < keepK /\ (config.gpuOnly => ids[j] \in OnGpu)}

\* Slots kept with their expert: the genuine top K, less those whose weights
\* are in neither store, less those not on the GPU in GPU-only mode.
KeepMask(r) ==
    {j \in Slots :
        /\ r[j] < keepK
        /\ config.threeTier => ids[j] \in Reach
        /\ config.gpuOnly => ids[j] \in OnGpu}

\* The candidates that may stand in: no expert the router selected.
FillPool(kept) == FillVec \ Range(ids)

\* topk over the masked scores: the pool by descending score, each member
\* before any other expert; those come when the pool runs short, in any
\* order, and their masked score gives them no weight.
Fills(kept) ==
    LET pool == FillPool(kept)
    IN  {fill \in [Slots -> Experts] :
            /\ \A i, j \in Slots : i # j => fill[i] # fill[j]
            /\ \A i \in Slots, e \in pool :
                  fill[i] \notin pool \/ fill[i] < e => \E j \in 1..(i - 1) : fill[j] = e}

\* Demand votes on the ids the router chose.
Votes(r, before, after) == {before[j] : j \in {s \in Slots : r[s] < CountK}}
-----------------------------------------------------------------------------
Init ==
    /\ config \in Configs
    /\ tier \in [Experts -> {"gpu", "ram"} \union {t \in {"ssd"} : config.threeTier}]
    /\ landed \in {L \in SUBSET {e \in Experts : tier[e] = "ram"} :
                        Cardinality(L) <= 1 /\ (config.gpuOnly \/ L = {})}
    /\ issued \in {b \in BOOLEAN : landed # {} \/ ~b}
    /\ keepK \in 0..E
    /\ ids \in {f \in [Slots -> Experts] : \A i, j \in Slots : i < j => f[i] < f[j]}
    /\ w \in [Slots -> 1..MaxWeight]
    /\ rank = [j \in Slots |-> 0]
    /\ keep = {} /\ outIds = ids /\ outW = w
    /\ voted = {} /\ done = FALSE

\* Drop mode: the weights of the tail become 0, its ids stay.
RouteDrop ==
    /\ config.mode = "drop"
    /\ \E r \in Ranks(w) :
          /\ rank' = r
          /\ keep' = {j \in Slots : r[j] < keepK}
          /\ outW' = [j \in Slots |-> IF j \in keep' THEN w[j] ELSE 0]
    /\ UNCHANGED <<outIds, voted>>

\* Safe mode: each dropped slot takes the stand-in of its rank among the
\* dropped ones.
RouteSafe ==
    /\ config.mode = "safe"
    /\ \E r \in Ranks(w) :
          LET kept == KeepMask(r)
              wDrop == [j \in Slots |-> IF j \in kept THEN -1 ELSE w[j]]
          IN  \E drank \in Ranks(wDrop), fill \in Fills(kept) :
                /\ rank' = r
                /\ keep' = kept
                /\ outIds' = [j \in Slots |-> IF j \in kept THEN ids[j] ELSE fill[drank[j] + 1]]
                /\ outW' = [j \in Slots |->
                              IF j \in kept THEN w[j]
                              ELSE IF fill[drank[j] + 1] \in FillPool(kept) THEN 1 ELSE 0]
                /\ voted' = Votes(r, ids, outIds')

Route ==
    /\ ~done /\ done' = TRUE
    /\ RouteDrop \/ RouteSafe
    /\ UNCHANGED <<config, tier, landed, issued, keepK, ids, w>>

Next == Route

Spec == Init /\ [][Next]_vars
-----------------------------------------------------------------------------
TypeOK ==
    /\ tier \in [Experts -> {"gpu", "ram", "ssd"}]
    /\ keep \subseteq Slots /\ voted \subseteq Experts
    /\ rank \in [Slots -> 0..(E - 1)]
    /\ outIds \in [Slots -> Experts] /\ outW \in [Slots -> 0..MaxWeight]

Heavy == {j \in Slots : outW[j] > 0}

\* No mass is given to an expert nobody can compute: a slot with weight
\* names an expert in VRAM or in RAM, so the CPU kernel's silent skip of a
\* missing expert never loses output.
NoUnreachableMass ==
    (done /\ config.mode = "safe") => \A j \in Heavy : tier[outIds[j]] # "ssd"

\* No expert counts twice in one token, however many slots were filled.
NoDoubleExpert ==
    (done /\ config.mode = "safe") =>
        \A i, j \in Heavy : i # j => outIds[i] # outIds[j]

\* The genuine top K survive with their weight whenever they can be
\* computed: a reachable expert within the K is never replaced, in particular
\* full K over a reachable choice is the router's own answer.
TopKGenuine ==
    (done /\ ~config.gpuOnly) =>
        \A j \in Slots :
            (rank[j] < keepK /\ tier[ids[j]] # "ssd") => outIds[j] = ids[j] /\ outW[j] = w[j]

\* No slot is lost while the pool has enough stand-ins.
NoSlotLost ==
    (done /\ config.mode = "safe"
          /\ Cardinality(FillVec \ Range(ids)) >= E - Cardinality(keep))
    => Heavy = Slots

\* Better stand-ins go to the slots that weighed more.
StandInsInOrder ==
    (done /\ config.mode = "safe") =>
        \A i, j \in Heavy \ keep : w[i] > w[j] => outIds[i] > outIds[j]

\* A stand-in gains no demand from standing in: the mover sees what the
\* router asked for, not what the current placement made of it.
StandInsDoNotVote ==
    (done /\ config.mode = "safe") => voted \subseteq Range(ids)

\* In GPU-only mode no expert with weight is computed by the CPU.
CpuPathZero ==
    (done /\ config.mode = "safe" /\ config.gpuOnly) =>
        \A j \in Heavy : outIds[j] \in Gpu \union (IF issued THEN landed ELSE {})
=============================================================================
