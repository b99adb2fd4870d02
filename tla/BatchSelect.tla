----------------------------- MODULE BatchSelect -----------------------------
(* The persistent statistics of routed experts (ExpertCacheState) and the      *)
(* choice of the experts to keep on the GPU that is made from them after every *)
(* routed batch (select_top_experts_weighted).                                 *)
(* An event number is kept as its age in rows, which stops at Old; scores are  *)
(* integers and halve with every row, the shortest half-life the code allows.  *)
EXTENDS Naturals, FiniteSets, Sequences, FiniteSetsExt, SequencesExt

CONSTANTS
    Experts, K,             \* experts of the layer, how many stay on the GPU
    TopK,                   \* experts per row
    Credit,                 \* per rank: the credit of a routed expert
    Bonus, Cost,            \* RESIDENT_BONUS, PROMOTION_COST
    MinSwap, MaxSwap,       \* EXPERT_CACHE_MIN_SWAP, EXPERT_CACHE_MAX_SWAP
    Grace,                  \* grace of each class: top2, strong, weak
    Rows,                   \* the rows the router may produce, each a sequence of experts by rank
    Settled                 \* the row of settled traffic, or <<>>: traffic never settles

SelectAssumption ==
    /\ IsFiniteSet(Experts) /\ K \in 1 .. Cardinality(Experts) /\ TopK \in Nat \ {0}
    /\ Credit \in [1 .. TopK -> Nat] /\ {Bonus, Cost, MinSwap} \subseteq Nat /\ MaxSwap \in Nat \ {0}
    /\ Rows \cup {Settled} \subseteq Seq(Experts)
    /\ \A r \in Rows \cup {Settled} : Len(r) <= TopK /\ IsInjective(r)

VARIABLES
    score,                  \* score_cpu
    age,                    \* per class and expert: rows since last_*_event_cpu
    resident,               \* the mask on the GPU
    settled,                \* traffic has settled
    swap                    \* what the last batch did

vars == <<score, age, resident, settled, swap>>

Classes == {"top2", "strong", "weak"}
Old == Max({Grace[c] : c \in Classes}) + 1

\* Ranks of each class: the first two; the third and fourth; all from the third.
RanksOf(c) == CASE c = "top2" -> 1 .. Min({2, TopK})
                [] c = "strong" -> 3 .. Min({4, TopK})
                [] c = "weak" -> 3 .. TopK
Routed(row, c) == {row[i] : i \in RanksOf(c) \cap DOMAIN row}

-----------------------------------------------------------------------------
\* _update_expert_cache_state_from_batch, one row per batch.

\* The experts of a row are distinct, so the sum over the row has one term at most.
CreditOf(row, e) == IF \E i \in DOMAIN row : row[i] = e THEN Credit[CHOOSE i \in DOMAIN row : row[i] = e] ELSE 0
Scored(row) == [e \in Experts |-> score[e] \div 2 + CreditOf(row, e)]

Aged(row) == [c \in Classes |-> [e \in Experts |->
    IF e \in Routed(row, c) THEN 0 ELSE Min({Old, age[c][e] + 1})]]

-----------------------------------------------------------------------------
\* select_top_experts_weighted.

\* Residents handicapped instead of favoured.
EffectiveFlat(sc) == [e \in Experts |-> 2 * sc[e] + 2 * Cost + IF e \in resident THEN 0 ELSE Bonus]

\* effective: a resident is worth Bonus more, a newcomer Cost less (shifted up by Cost).
Effective(sc) == [e \in Experts |-> sc[e] + IF e \in resident THEN Bonus + Cost ELSE 0]

\* Any choice of the n largest (smallest) of S: torch breaks ties as it likes.
Largest(S, n, eff) == {T \in kSubset(n, S) : \A t \in T, s \in S \ T : eff[t] >= eff[s]}
Smallest(S, n, eff) == {T \in kSubset(n, S) : \A t \in T, s \in S \ T : eff[t] <= eff[s]}

Protected(ag) == {e \in Experts : \E c \in Classes : ag[c][e] <= Grace[c]}

\* Protected experts leave only when every candidate is protected.
Pool(evictions, ag) == IF evictions \ Protected(ag) # {} THEN evictions \ Protected(ag) ELSE evictions

\* An exchange below the minimum is not made.
SwapCount(adds, pool) == LET n == Min({MaxSwap, adds, pool}) IN IF n < MinSwap THEN 0 ELSE n

\* What a batch may do: who comes in, who leaves, who was spared although not desired. A GPU that
\* is empty, or has another size, is filled with what is desired; else as many leave as come in.
Fill(desired) == [in |-> desired \ resident, out |-> resident \ desired, spared |-> {}, first |-> TRUE]

Exchanges(eff, ag, desired) ==
    LET adds == desired \ resident
        outs == resident \ desired
        pool == Pool(outs, ag)
        n    == IF Cardinality(adds) < MinSwap THEN 0 ELSE SwapCount(Cardinality(adds), Cardinality(pool))
    IN  {[in |-> in, out |-> out, spared |-> outs \ out, first |-> FALSE] :
           in \in Largest(adds, n, eff), out \in Smallest(pool, Min({n, Cardinality(pool)}), eff)}

Select(sc, ag) ==
    UNION {IF Cardinality(resident) # K THEN {Fill(desired)} ELSE Exchanges(Effective(sc), ag, desired) :
             desired \in Largest(Experts, K, Effective(sc))}

-----------------------------------------------------------------------------

Init ==
    /\ score = [e \in Experts |-> 0] /\ age = [c \in Classes |-> [e \in Experts |-> Old]]
    /\ resident \in SUBSET Experts /\ Cardinality(resident) \in {0, K}
    /\ settled = FALSE /\ swap = [in |-> {}, out |-> {}, spared |-> {}, first |-> FALSE]

\* One routed batch: the statistics, then the choice, then the copy of the chosen experts.
Batch(row) ==
    /\ score' = Scored(row) /\ age' = Aged(row)
    /\ swap' \in Select(score', age')
    /\ resident' = (resident \ swap'.out) \cup swap'.in

Arbitrary == ~ settled /\ (\E row \in Rows : Batch(row)) /\ UNCHANGED settled
Settle == ~ settled /\ Settled # <<>> /\ settled' = TRUE /\ UNCHANGED <<score, age, resident, swap>>
SettledBatch == settled /\ Batch(Settled) /\ UNCHANGED settled

Next == Arbitrary \/ Settle \/ SettledBatch
Spec == Init /\ [][Next]_vars /\ WF_vars(SettledBatch)

-----------------------------------------------------------------------------

\* Once filled, the GPU holds exactly K experts after every batch, however many were desired,
\* protected or capped: select_top_experts_weighted evicts as many as it adds.
AlwaysFull == Cardinality(resident) \in {0, K}

\* An expert within its grace leaves only when no candidate outside its grace could have left in
\* its place.
GraceHonoured ==
    ~ swap.first => \A e \in swap.out : e \in Protected(age) => swap.spared \subseteq Protected(age)

\* Hysteresis: whoever comes in outscores whoever leaves by the bonus and the cost together.
NewcomersEarnIt ==
    ~ swap.first => \A a \in swap.in, e \in swap.out : score[a] >= score[e] + Bonus + Cost

\* Traffic that settles on the experts of one row ends with the first K of them on the GPU for good.
HotSetSettles == settled ~> [](settled => {Settled[i] : i \in 1 .. K} \subseteq resident)
=============================================================================
