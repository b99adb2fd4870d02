------------------------------- MODULE MCBoot -------------------------------
(* The start of a server: the arguments, the processes of the ranks, the    *)
(* masks of the experts on the GPU, the layers with their stores, the split *)
(* of a merged adapter, and the memory plan.  They share no state: a        *)
(* behaviour exercises one of them (part), and the variables that only      *)
(* others have are Off.                                                     *)
EXTENDS ServerArgs

CONSTANTS
    None, Off,
    Workers,                                                \* RankBoot, LayerBoot
    Nodes, Setups, Autotune, Graphs, CheckBalance,          \* RankBoot
    MaskRanks, MaskLayers, NumExperts,
    Models, Budgets, Strategies, RankFiles, Ranking,        \* BootMasks
    NumLayers, ExpertIds, Gpu, Ram, Modes, Faults, MaxFaults,  \* LayerBoot
    MaxKills, HasExperts, HasOthers                         \* LoraCache

VARIABLES
    part,
    conf, next,                                             \* all of these; BootMasks, LoraCache
    step, arrived, loaded, captured, signalled,             \* RankBoot
    masks, local, kt,                                       \* BootMasks
    layer, store, skip, adapter, desc, table, registry, faults,  \* LayerBoot
    disk, kills,                                            \* LoraCache
    cfg, worker, stage, plan                                \* KvPlan

----------------------------------------------------------------------------
(* The launchers' model with everything that run_server.sh leaves open, its *)
(* adapters, and the other architectures.                                   *)
Deployment ==
    [arch : {"GlmMoeDsa", "DeepseekV3"}, sm : {"sm90", "sm100"},
     attention_backend : {unset, "nsa", "flashmla", "trtllm_mla"},
     decode_attention_backend : {unset, "flashmla"},
     kv_cache_dtype : {"auto", "fp8_e4m3"}, speculative_algorithm : {unset, "NEXTN"},
     num_steps : {2}, eagle_topk : {1}, draft_tokens : {2}, spec_v2 : BOOLEAN,
     nsa_cp : {"off", "round-robin-split"}, dp_size : {1, 2}, enable_dp_attention : BOOLEAN,
     cuda_graph_max_bs : {0, 1}, kt_lora : {unset, "adapter"}, enable_lora : {FALSE}]
Lora ==
    [arch : {"GlmMoeDsa"}, enable_lora : {TRUE}, composite_lora : BOOLEAN, enable_eplb : BOOLEAN,
     kt_expert_lora : {unset, "adapter"}, moe_a2a_backend : {"none", "deepep"},
     disaggregation_mode : {"null", "prefill", "decode"}, dump : BOOLEAN,
     nsa_cp : {"off", "in-seq-split"}, page_size : {0, 16}]
Architectures ==
    [arch : {"DeepseekV4", "GptOss", "MiMoV2Flash", "Llama4", "Gemma3", "Olmo2", "KimiLinear",
             "NemotronH", "Qwen3Next", "Glm4Moe", "Llama"},
     sm : {"sm90", "sm100", "sm120"}, attention_backend : {unset, "fa3", "trtllm_mha", "flashinfer"},
     speculative_algorithm : {unset, "EAGLE", "NGRAM"}, spec_v2 : BOOLEAN,
     mamba_strategy : {"auto", "extra_buffer"}, enable_hicache : BOOLEAN, dllm : BOOLEAN,
     hf_quant : {unset, "modelopt_fp4"}]
Launches == Deployment \cup Lora \cup Architectures

(* Memory plans, with the dimensions of the models the repository serves    *)
(* and two or three layers instead of seventy-eight; -1 stands for None.    *)
Common == [attn |-> "mha", dtype |-> "bf16", pp |-> 1, dp |-> 1, dpattn |-> FALSE,
           page |-> 16, context |-> 64, total |-> 1000000, static |-> 900000, avail |-> 700000,
           maxreqs |-> -1, maxtokens |-> -1, maxmamba |-> -1, spec |-> FALSE, drafts |-> 2,
           layers |-> <<3>>, row |-> 128, swarow |-> 64, full |-> 1, swa |-> 2,
           nope |-> 192, rope |-> 64, lora |-> 512, ihd |-> 128, patternLen |-> 0, shared |-> {},
           trtllm |-> FALSE, perReq |-> 3000, ratioNum |-> 9, ratioDen |-> 10,
           noradix |-> FALSE, extra |-> FALSE]
Plans(S) == {o @@ Common : o \in S}
Dense ==
    Plans([attn : {"mha"}, dtype : {"bf16", "fp8", "fp4"}, page : {1, 16}, spec : BOOLEAN,
           avail : {90000, 150000, 700000}, maxtokens : {-1, 40, 350}, maxreqs : {-1, 6}])
Sliding ==
    Plans([attn : {"swa"}, dtype : {"bf16", "fp8"}, page : {1, 16}, spec : BOOLEAN, full : {0, 1}, swa : {1, 2},
           ratioNum : {1, 8, 10}, avail : {150000, 400000}, maxtokens : {-1, 200}])
Linear ==
    {p \in Plans([attn : {"mamba"}, avail : {200000, 300000, 500000}, maxmamba : {-1, 7, 12}, maxreqs : {4, 8},
                  spec : BOOLEAN, dp : {1, 2}, dpattn : BOOLEAN, noradix : BOOLEAN, extra : BOOLEAN])
        : (p.dpattn => p.dp > 1) /\ ~(p.extra /\ p.noradix)}
Staged == Plans([attn : {"mha"}, pp : {2}, layers : {<<2, 3>>, <<3, 3>>, <<4, 2>>}, maxreqs : {6},
                 avail : {300000, 700000}, maxtokens : {-1, 100}])
(* Sparse attention, its tokens capped as the launchers cap them.           *)
Sparse ==
    Plans([attn : {"nsa"}, page : {64}, dtype : {"bf16", "fp8"}, trtllm : BOOLEAN, maxtokens : {64, 128},
           avail : {900000}, spec : BOOLEAN, patternLen : {0, 3}, shared : {{1, 2}, {0}}])
    \cup Plans([attn : {"nsa"}, page : {64}, maxtokens : {64}, avail : {900000}, pp : {2},
                layers : {<<1, 2>>, <<2, 1>>, <<2, 2>>}, patternLen : {3, 4}, shared : {{1, 2}}, maxreqs : {6}])

Kv == INSTANCE KvPlan WITH
    Setups <- Dense \cup Sliding \cup Linear \cup Staged \cup Sparse, ReqScale <- 1, MinReqs <- 2, MaxReqs <- 8

(* Three ranks on one node, any step of whose may fail, or on two.          *)
Node == INSTANCE RankBoot WITH Ranks <- Workers
MCSetups ==
    {[node |-> [r \in 0 .. 2 |-> 1], fails |-> {"device", "load", "config", "backend", "check"}],
     [node |-> [r \in 0 .. 2 |-> IF r = 2 THEN 2 ELSE 1], fails |-> {"device", "load"}]}

(* Two ranks, three layers of two experts, every strategy.                  *)
Masks == INSTANCE BootMasks WITH
    Ranks <- MaskRanks, Files <- RankFiles, NumLayers <- MaskLayers
Model(dense, hash, freq, list) == [dense |-> dense, hash |-> hash, freq |-> freq, list |-> list]
MCModels == {Model(0, 0, 1, <<>>), Model(1, 0, 2, <<>>), Model(2, 2, 1, <<>>),
             Model(0, 0, 1, <<0, 1, 1>>), Model(3, 0, 1, <<>>)}
Budget(ratio, perLayer) == [ratio |-> ratio, perLayer |-> perLayer]
MCBudgets == {Budget(None, None), Budget(None, 1), Budget(None, 2),
              Budget(3, 1), Budget(6, None), Budget(0, None)}
MCRanking == [l \in 0 .. 2 |-> IF l % 2 = 0 THEN <<1, 0>> ELSE <<0, 1>>]

(* Two layers of four experts, other residents in each; with every failure, *)
(* and with those that all ranks notice.                                    *)
Layers == INSTANCE LayerBoot WITH Ranks <- Workers, Experts <- ExpertIds
MCGpu == << {1, 2}, {2, 3} >>
MCRam == << {3}, {1} >>

Split == INSTANCE LoraCache

ASSUME StartAssumption ==
    /\ Node!BootAssumption /\ Masks!BootAssumption /\ Kv!KvAssumption
    /\ Layers!LayerBootAssumption /\ Split!LoraAssumption

----------------------------------------------------------------------------
rankVars == <<step, arrived, loaded, captured, signalled>>
maskVars == <<masks, local, kt>>
layerVars == <<layer, store, skip, adapter, desc, table, registry, faults>>
kvVars == <<cfg, worker, stage, plan>>
bootVars == <<pc, conf, next, disk, kills, maskVars, layerVars>>
MCVars == <<part, asked, args, bootVars, rankVars, kvVars>>

RanksOff == step = Off /\ arrived = Off /\ loaded = Off /\ captured = Off /\ signalled = Off
MasksOff == masks = Off /\ local = Off /\ kt = Off
LayersOff == /\ layer = Off /\ store = Off /\ skip = Off /\ adapter = Off
             /\ desc = Off /\ table = Off /\ registry = Off /\ faults = Off
SplitOff == disk = Off /\ kills = Off
KvOff == cfg = Off /\ worker = Off /\ stage = Off /\ plan = Off

MCInit ==
    \/ /\ RanksOff /\ MasksOff /\ LayersOff /\ SplitOff /\ KvOff /\ conf = Off /\ next = Off
       /\ part = "args" /\ Init
    \/ /\ MasksOff /\ LayersOff /\ SplitOff /\ KvOff /\ next = Off
       /\ asked = Off /\ args = Off /\ pc = Off
       /\ part = "node" /\ Node!Init
    \/ /\ RanksOff /\ LayersOff /\ SplitOff /\ KvOff /\ asked = Off /\ args = Off
       /\ part = "masks" /\ Masks!Init
    \/ /\ RanksOff /\ MasksOff /\ SplitOff /\ KvOff /\ next = Off /\ asked = Off /\ args = Off
       /\ part = "layers" /\ Layers!Init
    \/ /\ RanksOff /\ MasksOff /\ LayersOff /\ KvOff /\ conf = Off /\ asked = Off /\ args = Off
       /\ part = "split" /\ Split!Init
    \/ /\ RanksOff /\ MasksOff /\ LayersOff /\ SplitOff /\ conf = Off /\ next = Off
       /\ asked = Off /\ pc = Off
       /\ part = "kv" /\ Kv!Init

ArgsNext == /\ part = "args" /\ Next
            /\ UNCHANGED <<conf, next, disk, kills, maskVars, layerVars, rankVars, kvVars>>
RanksNext == /\ part = "node" /\ Node!Next
             /\ UNCHANGED <<asked, args, pc, next, disk, kills, maskVars, layerVars, kvVars>>
MasksNext == /\ part = "masks" /\ Masks!Next
             /\ UNCHANGED <<asked, args, disk, kills, layerVars, rankVars, kvVars>>
LayersNext == /\ part = "layers" /\ Layers!Next
              /\ UNCHANGED <<asked, args, next, disk, kills, maskVars, rankVars, kvVars>>
SplitNext == /\ part = "split" /\ Split!Next
             /\ UNCHANGED <<asked, args, conf, maskVars, layerVars, rankVars, kvVars>>
KvNext == /\ part = "kv" /\ Kv!Next
          /\ UNCHANGED <<asked, bootVars, rankVars>>

MCNext == UNCHANGED part /\ (ArgsNext \/ RanksNext \/ MasksNext \/ LayersNext \/ SplitNext \/ KvNext)

(* Every rank goes on with what it can do alone, a collective that all have *)
(* reached ends, a signalled parent takes its node down, and a start that   *)
(* is not killed goes on.                                                   *)
MCSpec ==
    /\ MCInit /\ [][MCNext]_MCVars
    /\ \A r \in Workers : WF_rankVars(part = "node" /\ Node!Own(r))
    /\ WF_rankVars(part = "node" /\ Node!Together)
    /\ \A n \in Nodes : WF_rankVars(part = "node" /\ Node!TakeDown(n))
    /\ \A r \in MaskRanks : WF_<<conf, pc, next, maskVars>>(part = "masks" /\ Masks!Step(r))
    /\ WF_<<conf, pc, next, maskVars>>(part = "masks" /\ Masks!Broadcast)
    /\ \A r \in Workers : WF_<<conf, pc, layerVars>>(part = "layers" /\ Layers!Step(r))
    /\ WF_<<conf, pc, layerVars>>(part = "layers" /\ Layers!Broadcast)
    /\ WF_<<disk, pc, next, kills>>(part = "split" /\ Split!Start)

----------------------------------------------------------------------------
(* What is decided at the launch fits together, although every handler saw  *)
(* only what the earlier ones had left: the overlapped loop, the graphs,    *)
(* the page, the kernels and the drafts that can run, and memory for them;  *)
(* and the pools stand in the memory they were given, are long enough for   *)
(* the draft model and the indexers, and are the same on every rank; the    *)
(* budget of experts on the GPU is spent on the layers that route.          *)
PlanHolds ==
    /\ part = "args" => /\ TypeOK /\ OverlapSafe /\ EnoughReserved
                        /\ LoraWithoutGraphs /\ PageFits /\ NsaMatchesPrecision /\ DraftShape
    /\ part = "kv" => /\ Kv!PoolsInBudget /\ Kv!DraftCoversTarget /\ Kv!RanksSameTokens
                      /\ Kv!IndexersHaveCache /\ Kv!StatesForRequests
    /\ part = "masks" => Masks!RoutedLayersBudgeted /\ Masks!BudgetSpent

(* No rank sizes its cache before every rank has its weights.               *)
ReadyMeansLoaded == part = "node" => Node!ReadyMeansLoaded

(* The ranks place the same experts on the GPU, with a ranking or without,  *)
(* gather from the same stores and tick the same layers.                    *)
RanksAgree ==
    /\ part = "masks" => Masks!RanksAgree /\ Masks!HotcoreNeverFatal
    /\ part = "layers" => Layers!RegistriesAgree /\ Layers!TablesAgree

(* On a server that is up every expert is computed by one device, which has *)
(* its weights, now and after any eviction.                                 *)
ServedOnce ==
    part = "layers" => Layers!ServedOnce /\ Layers!EvictionsHaveWeights /\ Layers!AdapterEverywhere

(* A start uses all parts of a split adapter, however often earlier starts  *)
(* were killed while they wrote them.                                       *)
TensorsWhole == part = "split" => Split!TensorsWhole

(* A start comes to an end on all ranks together, whatever fails on one of  *)
(* them: nobody waits for a rank that never comes.                          *)
Settled ==
    /\ part = "node" => Node!Ended
    /\ part = "masks" => Masks!Ended
    /\ part = "layers" /\ Layers!OnlySharedFaults => Layers!Ended
    /\ part = "split" => Split!Answered
EndsTogether == <>[]Settled
=============================================================================
