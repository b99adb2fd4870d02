------------------------------ MODULE MoeStack ------------------------------
(* The feed-forward half of the decoder layers on tensor-parallel ranks        *)
(* (DeepseekV2MoE, Glm4MoeSparseMoeBlock and their decoder layers): which path *)
(* a layer takes, how often the routed part is scaled, which ranks add which   *)
(* share of the shared and the CPU experts, and which collective sums them.    *)
(* Tensors are ledgers: for every part the share that is in the sum, in units  *)
(* of 1/Tp, and how many times routed_scaling_factor was applied to it.        *)
EXTENDS Naturals, FiniteSets, FiniteSetsExt

CONSTANTS
    Tp,                     \* tensor-parallel ranks
    NumLayers,
    Configs,                \* the launches looked at: records of ConfigFields
    TokenCounts,            \* tokens a rank may hold in a pass
    Cap,                    \* SGLANG_OPT_DEEPGEMM_MEGA_MOE_NUM_MAX_TOKENS_PER_RANK
    MaxPasses               \* bound on the forward passes

Ranks == 0 .. Tp - 1

ConfigFields ==
    {"model",               \* "deepseek" or "glm"
     "a2a",                 \* moe_a2a_backend: "none", "deepep", "mooncake" or "flashinfer"
     "quant",               \* who scales the routed part: "kernel", "topk", "kt" (nobody) or "mxfp4" (the add)
     "allgather",           \* should_use_flashinfer_cutlass_moe_fp4_allgather
     "mega", "hash",        \* mega weights built; layers below hash route by hash
     "share",               \* shared experts fusion was asked for
     "sbo",                 \* single-batch overlap: "off", "dispatch" or "combine"
     "densedp",             \* enable_moe_dense_fully_dp
     "dp", "maxpad",        \* data-parallel attention; padded to the longest rank
     "fuse",                \* all-reduce fused with the next layer's norm
     "capture", "tbo", "nextn",
     "first", "freq"}       \* first_k_dense_replace, moe_layer_freq

MoeStackAssumption ==
    /\ Tp \in Nat \ {0} /\ NumLayers \in Nat \ {0} /\ Cap \in Nat \ {0} /\ MaxPasses \in Nat \ {0}
    /\ TokenCounts \subseteq Nat /\ \E n \in TokenCounts : n \in 1 .. Cap
    /\ \A c \in Configs :
         /\ DOMAIN c = ConfigFields
         /\ c.a2a # "none" => c.quant # "kt" /\ ~c.fuse /\ ~c.allgather
         /\ c.mega \/ c.tbo => c.a2a # "none" /\ c.model = "deepseek"
         /\ c.fuse => ~c.dp /\ ~c.allgather
         /\ c.quant = "kt" => ~c.share
         /\ c.allgather => c.dp
         /\ c.model = "glm" => c.sbo = "off" /\ c.hash = 0
         /\ c.maxpad => c.dp

VARIABLES
    cfg,
    tok,                    \* per rank: tokens it holds in this pass
    pass,                   \* passes begun
    pc,                     \* per rank: where it is in its layer
    layer,                  \* per rank
    path,                   \* per rank: how its feed-forward is computed
    out,                    \* per rank: the ledger of the layer's output
    pend,                   \* per rank: _sglang_needs_allreduce_fusion is set on it
    symm,                   \* per rank: the mega buffer: whether it is built, its rows that name experts
    routed                  \* per rank: the rows its last mega kernel dispatched

vars == <<cfg, tok, pass, pc, layer, path, out, pend, symm, routed>>

Parts == {"dense", "gpu", "cpu", "shared"}
Nothing == [p \in Parts |-> [units |-> 0, scaled |-> 0]]
Collectives == {"gather", "symm", "experts", "reduce", "scatter", "fused"}

\* _is_layer_sparse: the draft layer always is.
SparseDeepseek(l) == cfg.nextn \/ (l >= cfg.first /\ l % cfg.freq = 0)
SparseGlm(l) == cfg.nextn \/ l >= cfg.first
Sparse(l) == IF cfg.model = "glm" THEN SparseGlm(l) ELSE SparseDeepseek(l)

LastLayer == IF cfg.nextn THEN 0 ELSE NumLayers - 1

\* LayerScatterModes: the feed-forward sees only the tokens of its own rank.
Scattered(l) == IF Sparse(l) THEN cfg.a2a # "none" \/ cfg.allgather ELSE cfg.densedp

Total == SumFunction(tok)
Shape(r, l) == IF Scattered(l) \/ ~cfg.dp THEN tok[r] ELSE Total

\* LayerCommunicator: the sum is left to the next layer, or to postprocess_layer.
FusesAllReduce(l) == cfg.fuse /\ l # LastLayer
UsesReduceScatter(l) == cfg.maxpad /\ ~Scattered(l)

\* determine_num_fused_shared_experts: an all-to-all backend sets the expert-parallel size.
FusedDeepseek == cfg.share /\ cfg.a2a = "none"
FusedGlm == cfg.share /\ cfg.a2a = "none"
Fused == IF cfg.model = "glm" THEN FusedGlm ELSE FusedDeepseek

\* The shared experts are built unsharded.
ReplicatedDeepseek == cfg.a2a # "none" \/ cfg.allgather
ReplicatedGlm == cfg.a2a \in {"deepep", "mooncake", "flashinfer"} \/ cfg.allgather
ReplicatedShared == IF cfg.model = "glm" THEN ReplicatedGlm ELSE ReplicatedDeepseek

\* _compute_is_hash.
IsHash(l) == ~cfg.nextn /\ l < cfg.hash

\* _should_use_mega_moe: from the most tokens any rank has.
UseMega(r, l) == cfg.mega /\ ~cfg.nextn /\ ~IsHash(l) /\ (cfg.capture \/ Max({tok[s] : s \in Ranks}) <= Cap)

\* A second stream computes the routed part while a graph is captured.
DualStream(r, l) ==
    /\ cfg.capture /\ ~Fused /\ Shape(r, l) > 0
    /\ cfg.model = "glm" \/ cfg.quant # "kt"

\* DeepseekV2MoE.forward.
PathDeepseek(r, l) ==
    CASE UseMega(r, l) -> "mega"
      [] ~UseMega(r, l) /\ cfg.a2a # "none" -> IF cfg.tbo THEN "ops" ELSE "deepep"
      [] OTHER -> IF DualStream(r, l) THEN "dual" ELSE "normal"

\* Glm4MoeSparseMoeBlock.forward asks for deepep alone.
PathGlm(r, l) ==
    IF cfg.a2a = "deepep" THEN "deepep" ELSE IF DualStream(r, l) THEN "dual" ELSE "normal"

Path(r, l) ==
    IF ~Sparse(l) THEN "dense" ELSE IF cfg.model = "glm" THEN PathGlm(r, l) ELSE PathDeepseek(r, l)

\* Zero tokens per idle rank; without data parallelism every rank sees the same ones.
Batches(c) ==
    LET same == {[r \in Ranks |-> n] : n \in TokenCounts \ {0}}
    IN  IF c.capture THEN {b \in same : b[0] <= Cap}
        ELSE IF c.dp THEN {b \in [Ranks -> TokenCounts] : \E r \in Ranks : b[r] > 0} ELSE same

Init ==
    /\ cfg \in Configs /\ tok \in Batches(cfg) /\ pass = 1
    /\ pc = [r \in Ranks |-> "attn"] /\ layer = [r \in Ranks |-> 0] /\ path = [r \in Ranks |-> "dense"]
    /\ out = [r \in Ranks |-> Nothing] /\ pend = [r \in Ranks |-> FALSE]
    /\ symm = [r \in Ranks |-> [built |-> FALSE, rows |-> {}]] /\ routed = [r \in Ranks |-> {}]

At(r, p) == pc[r] = p
Go(r, p) == pc' = [pc EXCEPT ![r] = p]

\* self_attn and prepare_mlp: the attention's partial sums and the tokens of the ranks are brought together.
Attend(r) ==
    /\ At(r, "attn")
    /\ Go(r, IF cfg.dp /\ Scattered(layer[r]) THEN "mlp" ELSE "gather")
    /\ UNCHANGED <<cfg, tok, pass, layer, path, out, pend, symm, routed>>

\* Share of the shared experts one rank computes; none for no token, or when they are routed experts.
SharedShare(r, l) ==
    IF Shape(r, l) = 0 \/ Fused THEN 0 ELSE IF ReplicatedShared THEN Tp ELSE 1

\* A hook of the dispatcher computes the shared experts; only forward_deepep knows draft layers.
Hooked(p) == cfg.sbo # "off" /\ (p = "normal" \/ (p = "deepep" /\ ~cfg.nextn))

\* Otherwise they are computed before the routed experts.
SharedBefore(r, p) == IF Hooked(p) THEN 0 ELSE SharedShare(r, layer[r])

\* The feed-forward of the layer is entered on the path p, with the shared experts computed or left to a hook.
Enter(r, p, next) ==
    /\ At(r, "mlp") /\ Path(r, layer[r]) = p
    /\ path' = [path EXCEPT ![r] = p]
    /\ out' = [out EXCEPT ![r].shared.units = IF p = "dense" THEN 0 ELSE SharedBefore(r, p)]
    /\ Go(r, next)
    /\ UNCHANGED <<cfg, tok, pass, layer, pend, symm, routed>>

\* The fp4 all-gather and the dispatchers make self.experts a collective, for ranks without tokens too.
CallExperts == IF cfg.a2a # "none" \/ cfg.allgather THEN "experts" ELSE "local"

EnterDense(r) == Enter(r, "dense", "dense")
EnterNormal(r) == Enter(r, "normal", CallExperts)
EnterDual(r) == Enter(r, "dual", CallExperts)
EnterDeepep(r) == Enter(r, "deepep", "experts")
EnterOps(r) == Enter(r, "ops", "experts")
\* The symmetric buffer is allocated by all ranks together, once.
EnterMega(r) == Enter(r, "mega", IF symm[r].built THEN "fill" ELSE "symm")

\* Rows past the rank's tokens are set to -1.
FilledRows(r) == 1 .. tok[r]

\* _run_mega_routed up to the kernel.
FillBuffer(r) ==
    /\ At(r, "fill")
    /\ tok[r] <= Cap        \* the assert of the cap
    /\ symm' = [symm EXCEPT ![r].rows = FilledRows(r)]
    /\ Go(r, "experts")
    /\ UNCHANGED <<cfg, tok, pass, layer, path, out, pend, routed>>

\* DeepseekV2MLP.forward: nothing to do for no token when it is not sharded.
Dense(r) ==
    LET l == layer[r]
        sharded == ~cfg.densedp
    IN  /\ At(r, "dense")
        /\ IF ~sharded /\ Shape(r, l) = 0
           THEN out' = out /\ Go(r, "post")
           ELSE /\ out' = [out EXCEPT ![r].dense.units = IF sharded THEN 1 ELSE Tp]
                /\ Go(r, IF sharded /\ Tp > 1 /\ ~FusesAllReduce(l) /\ ~UsesReduceScatter(l) THEN "reduce" ELSE "post")
        /\ UNCHANGED <<cfg, tok, pass, layer, path, pend, symm, routed>>

\* Scaling inside the experts: by the top-k weights, or by the runner of the plain paths;
\* create_moe_runner of the KT wrapper takes it out of the GPU runner.
ExpertsScaled(p) == cfg.quant = "topk" \/ (cfg.quant = "kernel" /\ p \in {"normal", "dual"})

\* The KT wrapper's parts are left as they are.
ScaledNormalNotKt == cfg.quant = "mxfp4"

\* The paths multiply when the experts did not.
ScaledNormal == cfg.quant \in {"kt", "mxfp4"}
ScaledDual == cfg.quant \in {"kt", "mxfp4"}
ScaledDeepep == cfg.quant # "topk"
ScaledMega == cfg.quant # "topk"
ScaledOps == TRUE
GlmScaledNormal == cfg.quant = "kt"
GlmScaledDual == cfg.quant = "kt"
GlmScaledDeepep == cfg.quant # "topk"

ScaledAgain(p) ==
    IF cfg.model = "glm"
    THEN CASE p = "normal" -> GlmScaledNormal [] p = "dual" -> GlmScaledDual [] p = "deepep" -> GlmScaledDeepep
    ELSE CASE p = "normal" -> ScaledNormal [] p = "dual" -> ScaledDual [] p = "deepep" -> ScaledDeepep
           [] p = "mega" -> ScaledMega [] p = "ops" -> ScaledOps

\* The routed part of rank r, of the given number of units, with the CPU experts and the fused shared expert.
RoutedShare(r, units) ==
    LET s == (IF ExpertsScaled(path[r]) THEN 1 ELSE 0) + (IF ScaledAgain(path[r]) THEN 1 ELSE 0)
        shared == IF Hooked(path[r]) THEN SharedShare(r, layer[r]) ELSE out[r].shared.units
    IN  [dense |-> Nothing.dense,
         gpu |-> [units |-> units, scaled |-> s],
         cpu |-> [units |-> IF cfg.quant = "kt" /\ r = 0 THEN Tp ELSE 0, scaled |-> s],
         shared |-> IF Fused THEN [units |-> units, scaled |-> s] ELSE [units |-> shared, scaled |-> 0]]

\* The sum over the ranks, when the path asks for it.
AfterExperts(p, l) ==
    IF /\ p \in {"normal", "dual"} /\ Tp > 1
       /\ ~FusesAllReduce(l) /\ ~UsesReduceScatter(l) /\ ~cfg.allgather
    THEN "reduce" ELSE "post"

\* self.experts of a rank that computes its shard alone.
LocalExperts(r) ==
    /\ At(r, "local")
    /\ out' = [out EXCEPT ![r] = IF Shape(r, layer[r]) > 0 THEN RoutedShare(r, 1) ELSE Nothing]
    /\ Go(r, AfterExperts(path[r], layer[r]))
    /\ UNCHANGED <<cfg, tok, pass, layer, path, pend, symm, routed>>

\* The tail of the decoder layer's forward.
Postprocess(r) ==
    LET l == layer[r]
    IN  /\ At(r, "post")
        /\ pend' = [pend EXCEPT ![r] = FusesAllReduce(l)]
        /\ Go(r, IF FusesAllReduce(l) THEN "fused" ELSE IF UsesReduceScatter(l) THEN "scatter" ELSE "take")
        /\ UNCHANGED <<cfg, tok, pass, layer, path, out, symm, routed>>

\* prepare_attn of the next layer, or the final norm, reads the layer's output.
Take(r) ==
    /\ At(r, "take")
    /\ out' = [out EXCEPT ![r] = Nothing]
    /\ layer' = [layer EXCEPT ![r] = @ + 1]
    /\ Go(r, IF layer[r] = LastLayer THEN "end" ELSE "attn")
    /\ UNCHANGED <<cfg, tok, pass, path, pend, symm, routed>>

\* The call a rank is stuck in until the others make it.
Call(r) == <<pc[r], layer[r], path[r] \in {"mega", "ops", "deepep"}>>

Summed == [p \in Parts |->
             [units |-> SumFunction([r \in Ranks |-> out[r][p].units]),
              scaled |-> Max({out[r][p].scaled : r \in Ranks})]]

\* A collective: every rank makes the same call.
Meet ==
    LET c == pc[0]
    IN  /\ \A r \in Ranks : pc[r] \in Collectives /\ Call(r) = Call(0)
        /\ out' = CASE c \in {"reduce", "scatter", "fused"} -> [r \in Ranks |-> Summed]
                    [] c = "experts" -> [r \in Ranks |-> IF tok[r] > 0 THEN RoutedShare(r, Tp) ELSE Nothing]
                    [] c \in {"gather", "symm"} -> out
        /\ pc' = [r \in Ranks |->
                    CASE c = "gather" -> "mlp"
                      [] c = "symm" -> "fill"
                      [] c = "experts" -> AfterExperts(path[r], layer[r])
                      [] c = "reduce" -> "post"
                      [] c \in {"scatter", "fused"} -> "take"]
        /\ symm' = IF c = "symm" THEN [r \in Ranks |-> [symm[r] EXCEPT !.built = TRUE]] ELSE symm
        /\ routed' = IF c = "experts" /\ path[0] = "mega" THEN [r \in Ranks |-> symm[r].rows] ELSE routed
        /\ pend' = IF c = "fused" THEN [r \in Ranks |-> FALSE] ELSE pend
        /\ UNCHANGED <<cfg, tok, pass, layer, path>>

\* The scheduler's next batch.
NextPass ==
    /\ \A r \in Ranks : At(r, "end")
    /\ pass < MaxPasses /\ pass' = pass + 1
    /\ tok' \in Batches(cfg)
    /\ pc' = [r \in Ranks |-> "attn"] /\ layer' = [r \in Ranks |-> 0]
    /\ UNCHANGED <<cfg, path, out, pend, symm, routed>>

Stop ==
    /\ \A r \in Ranks : At(r, "end")
    /\ pass = MaxPasses
    /\ UNCHANGED vars

Next ==
    \/ \E r \in Ranks :
         \/ Attend(r) \/ EnterDense(r) \/ EnterNormal(r) \/ EnterDual(r) \/ EnterDeepep(r) \/ EnterOps(r) \/ EnterMega(r)
         \/ FillBuffer(r) \/ Dense(r) \/ LocalExperts(r) \/ Postprocess(r) \/ Take(r)
    \/ Meet \/ NextPass \/ Stop

Spec == Init /\ [][Next]_vars

\* Every part is in the output exactly once, and the routed experts are scaled exactly once.
WholeOutput(l) ==
    LET once == [units |-> Tp, scaled |-> 1]
    IN  IF Sparse(l)
        THEN [dense |-> Nothing.dense, gpu |-> once,
              cpu |-> IF cfg.quant = "kt" THEN once ELSE [units |-> 0, scaled |-> 1],
              shared |-> IF Fused THEN once ELSE [units |-> Tp, scaled |-> 0]]
        ELSE [Nothing EXCEPT !.dense.units = Tp]

\* What the next layer reads for a rank's tokens holds the dense, the GPU, the CPU and the shared
\* part exactly once and the routed ones scaled exactly once, whichever path computed the layer,
\* whoever scaled and wherever the ranks were summed (forward_normal, forward_deepep, mega, op_output).
ContributionsOnce ==
    \A r \in Ranks : At(r, "take") /\ tok[r] > 0 => out[r] = WholeOutput(layer[r])

\* Two ranks that wait in a collective wait in the same one: no rank is in the mega kernel, the
\* all-to-all or a reduction while another went past it (idle ranks and unequal batches included).
SameCollective ==
    \A r, s \in Ranks : pc[r] \in Collectives /\ pc[s] \in Collectives => Call(r) = Call(s)

\* The mega kernel dispatches the rows of this pass alone: what a longer pass left in the shared
\* symmetric buffer names no expert any more.
OnlyThisPassRouted ==
    \A r \in Ranks : At(r, "take") /\ path[r] = "mega" => routed[r] = 1 .. tok[r]

TypeOK ==
    /\ cfg \in Configs /\ pass \in 1 .. MaxPasses
    /\ \A r \in Ranks :
         /\ layer[r] \in 0 .. NumLayers /\ pend[r] \in BOOLEAN
         /\ path[r] \in {"dense", "normal", "dual", "deepep", "mega", "ops"}
         /\ pc[r] \in Collectives \cup {"attn", "mlp", "fill", "dense", "local", "post", "take", "end"}
         /\ symm[r].rows \subseteq 1 .. Cap
=============================================================================
