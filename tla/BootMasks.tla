------------------------------ MODULE BootMasks ------------------------------
(* Which experts start on the GPU: every rank asks for the KT configuration of *)
(* its first MoE layer, rank 0 computes the masks of all layers under the      *)
(* placement strategy, the others allocate, and a broadcast makes them agree;  *)
(* later layers find them cached                                               *)
(* (_init_kt_gpu_experts_masks, create_kt_config_from_server_args).            *)
EXTENDS Integers, FiniteSets, Sequences, FiniteSetsExt, SequencesExt

CONSTANTS
    Ranks,                  \* tensor-parallel ranks; 0 computes
    NumLayers, NumExperts,  \* num_hidden_layers, experts per layer
    Models,                 \* [dense, hash, freq, list]: the layer pattern of the model's configuration
    Budgets,                \* [ratio, perLayer]: ratio in tenths; None: not set
    Strategies,             \* kt_expert_placement_strategy
    Files,                  \* what the file of the strategy holds: "absent", "misshapen" or "good"
    Ranking,                \* the committed ranking: per layer, experts from the hottest on
    None

Layers == 0 .. NumLayers - 1
Experts == 0 .. NumExperts - 1

BootAssumption ==
    /\ IsFiniteSet(Ranks) /\ 0 \in Ranks /\ NumLayers \in Nat \ {0} /\ NumExperts \in Nat \ {0}
    /\ \A l \in Layers : Ranking[l] \in Seq(Experts) /\ Len(Ranking[l]) = NumExperts /\ ToSet(Ranking[l]) = Experts

VARIABLES
    conf,                   \* [model, budget, strategy, file]: the command line, the same on every rank
    pc,                     \* per rank: "layers", "broadcast", "up" or "down"
    next,                   \* per rank: the layer it builds next
    masks,                  \* per rank: _KT_GPU_EXPERTS_MASKS, None before
    local,                  \* per rank: the masks it brings to the broadcast
    kt                      \* per rank: mask of each layer built with a KT configuration

vars == <<conf, pc, next, masks, local, kt>>

-----------------------------------------------------------------------------
\* The layer pattern as _init_kt_gpu_experts_masks reads it.

FirstMoe(m) ==
    LET bare   == Max({0, m.dense - m.hash})
        ones   == {i \in DOMAIN m.list : m.list[i] = 1}
        listed == IF ones = {} THEN 0 ELSE Min(ones) - 1
    IN  IF m.list = <<>> THEN bare ELSE Max({bare, listed})

Freq(m) == IF m.list = <<>> THEN m.freq ELSE 1
IsMoe(m, l) == l >= FirstMoe(m) /\ l % Freq(m) = 0
MoeLayers(m) == {l \in Layers : IsMoe(m, l)}

\* Total of experts on the GPU; a ratio wins over a number per layer.
Budget(m, b) ==
    LET n == Cardinality(MoeLayers(m))
    IN  IF b.ratio # None THEN (n * NumExperts * b.ratio) \div 10
        ELSE IF b.perLayer # None THEN b.perLayer * n ELSE None

-----------------------------------------------------------------------------
\* The masks of a strategy, as the set of what it may return.

FirstN(n) == {e \in Experts : e < n}
Position(m, l) == Cardinality({k \in MoeLayers(m) : k < l})
WithDense(m, f) == [l \in Layers |-> IF IsMoe(m, l) THEN f[l] ELSE Experts]

\* generate_front_loading_masks.
FrontLoading(m, n) == {WithDense(m, [l \in Layers |-> FirstN(Max({0, Min({NumExperts, n - NumExperts * Position(m, l)})}))])}

\* generate_uniform_masks.
Uniform(m, n) ==
    LET moe == Cardinality(MoeLayers(m))
        Share(l) == n \div moe + IF Position(m, l) < n % moe THEN 1 ELSE 0
    IN  IF moe = 0 THEN {[l \in Layers |-> {}]}
        ELSE {WithDense(m, [l \in Layers |-> FirstN(Min({NumExperts, Share(l)}))])}

\* n places among the MoE layers: generate_random_masks with some seed, and
\* generate_gpu_experts_masks with some counts.
Scattered(m, n) ==
    LET places == MoeLayers(m) \X Experts
    IN  {WithDense(m, [l \in Layers |-> {e \in Experts : <<l, e>> \in P}]) :
            P \in kSubset(Min({n, Cardinality(places)}), places)}

\* Each layer its own hottest experts.
Hotcore(m, n) ==
    {WithDense(m, [l \in Layers |-> {Ranking[l][i] : i \in 1 .. Min({NumExperts, n \div Max({1, Cardinality(MoeLayers(m))})})}])}

\* A mask made offline with the same number of experts in every layer.
Oracle(m, n) == Hotcore(m, n)

-----------------------------------------------------------------------------

Raises(c, r) ==
    \/ c.strategy = "frequency" /\ c.file = "misshapen"             \* every rank reads the counts
    \/ c.strategy = "oracle" /\ c.file # "good" /\ r = 0            \* only rank 0 reads the mask
    \/ c.strategy \notin {"frequency", "front-loading", "uniform", "hotcore", "random", "oracle"}

MasksOf(c) ==
    LET m == c.model
        n == Budget(m, c.budget)
    IN  CASE c.strategy = "front-loading" -> FrontLoading(m, n)
          [] c.strategy = "uniform"       -> Uniform(m, n)
          [] c.strategy = "hotcore"       -> IF c.file = "good" THEN Hotcore(m, n) ELSE Uniform(m, n)
          [] c.strategy = "oracle"        -> Oracle(m, n)
          [] OTHER                        -> Scattered(m, n)

Zeros == [l \in Layers |-> {}]

Init ==
    /\ conf \in [model : Models, budget : Budgets, strategy : Strategies, file : Files]
    /\ pc = [r \in Ranks |-> "layers"] /\ next = [r \in Ranks |-> 0]
    /\ masks = [r \in Ranks |-> None] /\ local = [r \in Ranks |-> None] /\ kt = [r \in Ranks |-> <<>>]

\* A layer of the model has routed experts when the model's own code says so: hash layers have.
Routed(m, l) == IF m.list = <<>> THEN l >= m.dense - m.hash /\ l % m.freq = 0 ELSE m.list[l + 1] = 1

\* A layer without routed experts asks for nothing.
BuildDense(r) ==
    /\ pc[r] = "layers" /\ next[r] < NumLayers /\ ~ Routed(conf.model, next[r])
    /\ next' = [next EXCEPT ![r] = @ + 1]
    /\ UNCHANGED <<conf, pc, masks, local, kt>>

FirstRouted(r) ==
    /\ pc[r] = "layers" /\ next[r] < NumLayers /\ Routed(conf.model, next[r])
    /\ masks[r] = None /\ Budget(conf.model, conf.budget) # None

\* The first routed layer of a rank: what the rank computes itself before the broadcast.
Compute(r) ==
    /\ FirstRouted(r)
    /\ IF Raises(conf, r) THEN pc' = [pc EXCEPT ![r] = "down"] /\ UNCHANGED local
       ELSE /\ local' \in {[local EXCEPT ![r] = f] : f \in IF r = 0 THEN MasksOf(conf) ELSE {Zeros}}
            /\ pc' = [pc EXCEPT ![r] = "broadcast"]
    /\ UNCHANGED <<conf, next, masks, kt>>

\* Every rank keeps its own masks.
BroadcastKept == [r \in Ranks |-> local[r]]
Broadcasted == [r \in Ranks |-> local[0]]

Broadcast ==
    /\ \A r \in Ranks : pc[r] = "broadcast"
    /\ masks' = Broadcasted /\ pc' = [r \in Ranks |-> "layers"]
    /\ UNCHANGED <<conf, next, local, kt>>

\* A layer that finds the masks cached, or that gets no KT configuration for want of a budget.
BuildMoe(r) ==
    /\ pc[r] = "layers" /\ next[r] < NumLayers /\ Routed(conf.model, next[r])
    /\ masks[r] # None \/ Budget(conf.model, conf.budget) = None
    /\ kt' = IF masks[r] = None THEN kt ELSE [kt EXCEPT ![r] = Append(@, <<next[r], masks[r][next[r]]>>)]
    /\ next' = [next EXCEPT ![r] = @ + 1]
    /\ UNCHANGED <<conf, pc, masks, local>>

Finish(r) ==
    /\ pc[r] = "layers" /\ next[r] = NumLayers
    /\ pc' = [pc EXCEPT ![r] = "up"] /\ UNCHANGED <<conf, next, masks, local, kt>>

\* A rank that raised ends its process, and the launcher takes the others down.
TakeDown(r) ==
    /\ pc[r] # "down" /\ \E q \in Ranks : pc[q] = "down"
    /\ pc' = [pc EXCEPT ![r] = "down"] /\ UNCHANGED <<conf, next, masks, local, kt>>

Step(r) == BuildDense(r) \/ Compute(r) \/ BuildMoe(r) \/ Finish(r) \/ TakeDown(r)
Next == Broadcast \/ \E r \in Ranks : Step(r)
Spec == Init /\ [][Next]_vars /\ WF_vars(Broadcast) /\ \A r \in Ranks : WF_vars(Step(r))

-----------------------------------------------------------------------------

Placed(r) == MapThenSumSet(LAMBDA i : Cardinality(kt[r][i][2]), DOMAIN kt[r])
Up(r) == pc[r] = "up" /\ masks[r] # None
Share == Budget(conf.model, conf.budget)

\* All ranks put the same experts of a layer on the GPU: the broadcast of rank 0's masks reaches
\* every configuration.
RanksAgree == \A r, q \in Ranks : \A i \in DOMAIN kt[r] \cap DOMAIN kt[q] : kt[r][i] = kt[q][i]

\* The layers of a rank spend the whole budget, as far as there are experts; a ranking or a mask
\* made per layer loses less than one expert per layer.
BudgetSpent ==
    \A r \in Ranks : Up(r) =>
        LET lost == Min({Share, NumExperts * Cardinality(MoeLayers(conf.model))}) - Placed(r)
        IN  lost \in 0 .. IF conf.strategy \in {"hotcore", "oracle"} /\ conf.file = "good" THEN Cardinality(MoeLayers(conf.model)) - 1 ELSE 0

\* The layers that got a KT configuration are the ones the budget was divided among: no layer with
\* routed experts is taken for a dense one that has them all on the GPU.
RoutedLayersBudgeted ==
    \A r \in Ranks : Up(r) => {kt[r][i][1] : i \in DOMAIN kt[r]} = MoeLayers(conf.model)

\* What boot comes to on every rank (<>[]Ended): no rank stays in the broadcast for one that
\* never comes.
Ended == \A r \in Ranks : pc[r] \in {"up", "down"}

\* Without a ranking of this model hotcore boots all the same: 'never fatal'.
HotcoreNeverFatal == conf.strategy = "hotcore" => \A r \in Ranks : pc[r] # "down"
=============================================================================
