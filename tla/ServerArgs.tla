----------------------------- MODULE ServerArgs -----------------------------
(* ServerArgs.__post_init__ and check_server_args: a sequence of handlers,    *)
(* each of which turns the arguments (a record) into the arguments the next   *)
(* one sees, and may refuse them.  None runs twice, so a value that is read   *)
(* early and changed late is a stale decision.  The platform is CUDA; "unset" *)
(* and 0 stand for None.  The model's architecture and the device are fields  *)
(* too, because handlers read them at different times.  Memory is counted in  *)
(* half megabytes.                                                            *)
EXTENDS Integers, FiniteSets, FiniteSetsExt, TLC

unset == "unset"

\* dataclass defaults of the fields the handlers read or write.
Defaults ==
    [arch |-> "GlmMoeDsa", sm |-> "sm90", gpu_gb |-> 80, hf_quant |-> unset, gguf |-> FALSE,
     attention_backend |-> unset, prefill_attention_backend |-> unset,
     decode_attention_backend |-> unset, nsa_prefill |-> unset, nsa_decode |-> unset,
     kv_cache_dtype |-> "auto", page_size |-> 0, sampling_backend |-> unset, dtype |-> "auto",
     chunked_prefill_size |-> 0, cuda_graph_max_bs |-> 0, cuda_graph_bs |-> {},
     disable_cuda_graph |-> FALSE, piecewise |-> FALSE, mem_fraction |-> 0,
     tp_size |-> 2, pp_size |-> 1, dp_size |-> 1, ep_size |-> 1, moe_dp_size |-> 1,
     nnodes |-> 1, attn_cp_size |-> 1, enable_dp_attention |-> FALSE, dp_lm_head |-> FALSE,
     nsa_cp |-> "off", moe_dense_tp_size |-> 0, moe_a2a_backend |-> "none",
     deepep_mode |-> "auto", moe_runner_backend |-> "auto", quantization |-> unset,
     draft_quantization |-> unset, disable_shared_experts_fusion |-> FALSE,
     allreduce_fusion |-> FALSE, enable_eplb |-> FALSE, dispatch |-> unset, recorder |-> unset,
     speculative_algorithm |-> unset, num_steps |-> 0, eagle_topk |-> 0, draft_tokens |-> 0,
     spec_runner |-> unset, spec_v2 |-> FALSE, multi_layer_eagle |-> FALSE,
     disable_overlap_schedule |-> FALSE, enable_mixed_chunk |-> FALSE,
     max_running_requests |-> 0, disable_radix_cache |-> FALSE, enable_hicache |-> FALSE,
     hicache_io |-> "kernel", hicache_layout |-> "layer_first", hicache_storage |-> unset,
     swa_full |-> FALSE, disable_hybrid_swa |-> FALSE, mamba_strategy |-> "auto",
     mamba_track_interval |-> 256, disaggregation_mode |-> "null", decode_tp |-> 0,
     offload_kvcache |-> FALSE, load_balance |-> "auto", deterministic |-> FALSE,
     rl_on_policy |-> FALSE, deterministic_env |-> FALSE, dllm |-> FALSE, enable_lora |-> FALSE,
     kt_lora |-> unset, kt_expert_lora |-> unset, composite_lora |-> FALSE, dump |-> FALSE,
     disable_custom_all_reduce |-> FALSE, refused |-> FALSE]

\* raise and assert: the arguments are refused.
Require(ok, a) == IF ok THEN a ELSE [a EXCEPT !.refused = TRUE]

Sm100(a) == a.sm = "sm100"
Blackwell(a) == a.sm \in {"sm100", "sm120"}
Hopper(a) == a.sm = "sm90"

\* use_mla_backend.
Mla(a) == a.arch \in {"GlmMoeDsa", "DeepseekV3", "KimiLinear"}

\* is_attention_backend_not_set.
BackendNotSet(a) ==
    {a.attention_backend, a.prefill_attention_backend, a.decode_attention_backend} = {unset}

\* get_attention_backends: what prefill and decode will really use.
PrefillBackend(a) ==
    IF a.prefill_attention_backend # unset THEN a.prefill_attention_backend ELSE a.attention_backend
DecodeBackend(a) ==
    IF a.decode_attention_backend # unset THEN a.decode_attention_backend ELSE a.attention_backend

----------------------------------------------------------------------------
LoadBalance(a) ==
    [a EXCEPT !.load_balance = IF @ # "auto" THEN @
        ELSE IF a.disaggregation_mode = "prefill" THEN "follow_bootstrap_room" ELSE "round_robin"]

\* The mamba strategy, and the draft model's quantisation from the target's.
MissingDefaults(a) ==
    [a EXCEPT !.mamba_strategy = IF @ = "auto" THEN "no_buffer" ELSE @,
              !.draft_quantization = CASE @ = unset -> a.quantization
                                       [] @ = "unquant" -> unset
                                       [] OTHER -> @]

KtLora(a) ==
    Require(a.kt_lora = unset \/ a.kt_expert_lora \in {unset, a.kt_lora},
        [a EXCEPT !.kt_expert_lora = IF a.kt_lora # unset THEN a.kt_lora ELSE @,
                  !.disable_cuda_graph = @ \/ a.kt_lora # unset \/ a.kt_expert_lora # unset])

\* The table of chunk sizes and graph batch sizes by memory capacity.
CapacityDefaults(a) ==
    LET small == a.tp_size < 4 IN
    CASE a.gpu_gb < 20  -> <<2048, 8>>
      [] a.gpu_gb \in 20 .. 34 -> <<2048, IF small THEN 24 ELSE 80>>
      [] a.gpu_gb \in 35 .. 59 -> <<4096, IF small THEN 32 ELSE 160>>
      [] a.gpu_gb \in 60 .. 159 -> <<8192, IF small THEN 256 ELSE 512>>
      [] OTHER -> <<16384, 512>>

\* range(lo, hi, by)
Range3(lo, hi, by) == {n \in lo .. hi - 1 : (n - lo) % by = 0}

\* _generate_cuda_graph_batch_sizes
GraphSizes(a) ==
    LET max == a.cuda_graph_max_bs
        sizes == IF a.speculative_algorithm = unset
                 THEN {1, 2, 4, 8, 12} \cup Range3(16, 257, 8) \cup Range3(272, 512, 16)
                      \cup Range3(512, max + 1, 32)
                 ELSE 1 .. 8 \cup Range3(10, 33, 2) \cup Range3(40, 65, 4) \cup Range3(72, 257, 8)
                      \cup Range3(272, max + 1, 16)
    IN {n \in sizes : n <= max}

\* _generate_piecewise_cuda_graph_tokens; its limit is the chunk, or 2048 with MLA.
PiecewiseTokens(a) ==
    LET max == IF Mla(a) THEN 2048 ELSE a.chunked_prefill_size
    IN {n \in Range3(4, 33, 4) \cup Range3(48, 257, 16) \cup Range3(288, 513, 32)
              \cup Range3(576, 1025, 64) \cup Range3(1280, 4097, 256)
              \cup Range3(4608, max + 1, 512) : n <= max}

\* The estimate of activations and graph buffers, in half megabytes.
Reserved(a) ==
    LET bs == a.cuda_graph_max_bs
        chunk == IF a.chunked_prefill_size > 0 THEN a.chunked_prefill_size ELSE 16384
        dp == IF ~a.enable_dp_attention THEN 0
              ELSE bs * a.dp_size * (IF bs > 300 THEN 9 ELSE 6)
        base == 1024 + Max({chunk, 2048}) * 3 + bs * 4 + a.tp_size * a.pp_size * 256 + dp
                + (IF a.piecewise THEN Cardinality(PiecewiseTokens(a)) * 16 ELSE 0)
        spec == CASE a.speculative_algorithm \in {unset, "NGRAM"} -> 0
                  [] a.speculative_algorithm = "STANDALONE" -> 6 * 2048
                  [] OTHER -> 2 * 2048
    IN (IF a.gpu_gb > 60 THEN Max({base, 10 * 2048}) ELSE base) + spec

\* round((gpu - reserved) / gpu, 3), in thousandths.
FractionOf(a) ==
    LET gpu == a.gpu_gb * 2048 IN (1000 * (gpu - Reserved(a)) + gpu \div 2) \div gpu

GpuMemory(a) ==
    LET b == [a EXCEPT
                !.chunked_prefill_size = IF @ = 0 THEN CapacityDefaults(a)[1] ELSE @,
                !.cuda_graph_max_bs = CASE a.cuda_graph_bs # {} -> Max(a.cuda_graph_bs)
                                        [] a.cuda_graph_bs = {} /\ @ = 0 -> CapacityDefaults(a)[2]
                                        [] OTHER -> @]
        c == [b EXCEPT !.cuda_graph_bs = IF @ = {} THEN GraphSizes(b) ELSE @]
    IN [c EXCEPT !.mem_fraction = IF @ = 0 THEN FractionOf(c) ELSE @]

----------------------------------------------------------------------------
(* Model-specific adjustments.                                               *)

\* DeepSeek V4: compressed attention in pages of 256, FP8 only, one EAGLE chain.
DeepseekV4(a) ==
    Require(/\ a.kv_cache_dtype \in {"auto", "fp8_e4m3"}
            /\ a.speculative_algorithm # unset =>
                  a.speculative_algorithm = "EAGLE" /\ a.eagle_topk = 1
            /\ a.nsa_cp # "off" =>
                  a.nsa_cp = "round-robin-split" /\ a.dp_size = 1 /\ a.tp_size <= 8,
        [a EXCEPT !.attention_backend = "compressed", !.page_size = 256,
                  !.max_running_requests = IF @ = 0 THEN 256 ELSE @,
                  !.kv_cache_dtype = "fp8_e4m3",
                  !.spec_v2 = @ \/ a.speculative_algorithm # unset,
                  !.moe_dense_tp_size = IF a.nsa_cp # "off" THEN 1 ELSE @])

\* _set_default_nsa_kv_cache_dtype
NsaKvCacheDtype(a) ==
    LET d == CASE a.kv_cache_dtype = "auto" -> IF Blackwell(a) THEN "fp8_e4m3" ELSE "bfloat16"
               [] a.kv_cache_dtype = "bf16" -> "bfloat16"
               [] OTHER -> a.kv_cache_dtype
    IN Require(d \in {"bfloat16", "fp8_e4m3"}, [a EXCEPT !.kv_cache_dtype = d])

\* _set_default_nsa_backends
NsaBackends(a) ==
    LET fp8 == a.kv_cache_dtype = "fp8_e4m3" IN
    [a EXCEPT !.nsa_prefill = IF @ # unset THEN @
                  ELSE IF fp8 THEN "flashmla_auto" ELSE "flashmla_sparse",
              !.nsa_decode = IF @ # unset THEN @
                  ELSE IF fp8 THEN "flashmla_kv" ELSE IF Blackwell(a) THEN "trtllm" ELSE "fa3"]

\* Context parallel prefill: its two modes force parallelism and precision.
NsaContextParallel(a) ==
    CASE a.nsa_cp = "off" -> a
      [] a.nsa_cp = "in-seq-split" ->
            Require(a.tp_size <= 8 /\ a.disaggregation_mode # "decode",
                [a EXCEPT !.enable_dp_attention = TRUE, !.moe_dense_tp_size = 1,
                          !.moe_a2a_backend = "deepep", !.ep_size = a.tp_size,
                          !.kv_cache_dtype = "bf16"])
      [] OTHER ->
            Require(a.dp_size = 1 /\ a.tp_size <= 8 /\ a.disaggregation_mode # "decode",
                [a EXCEPT !.enable_dp_attention = TRUE, !.moe_dense_tp_size = 1])

\* DSA models: the nsa backend in pages of 64.
DsaAttention(a) ==
    LET b == [a EXCEPT !.attention_backend = IF BackendNotSet(a) THEN "nsa" ELSE @]
        c == [NsaContextParallel(b) EXCEPT !.page_size = 64]
    IN NsaBackends(NsaKvCacheDtype(c))

\* The MoE runner on Blackwell follows the checkpoint's quantisation.
DeepseekMoe(a) ==
    LET q == IF a.quantization # unset THEN a.quantization
             ELSE IF a.hf_quant = unset /\ a.arch = "DeepseekV3" THEN "fp8" ELSE a.hf_quant
        b == [a EXCEPT !.quantization = q]
    IN IF ~Sm100(a) THEN a
       ELSE [b EXCEPT !.moe_runner_backend =
                IF /\ a.moe_a2a_backend = "none" /\ @ = "auto"
                   /\ q \in {"fp8", "modelopt_fp8", "modelopt_fp4"}
                THEN "flashinfer_trtllm" ELSE @]

Deepseek(a) ==
    DeepseekMoe(IF a.arch = "GlmMoeDsa" THEN DsaAttention(a)
                ELSE [a EXCEPT !.attention_backend =
                        IF Sm100(a) /\ BackendNotSet(a) THEN "trtllm_mla" ELSE @])

\* GPT-OSS: a short list of backends, one fused MoE kernel per precision.
GptOss(a) ==
    LET b == [a EXCEPT !.attention_backend =
                IF BackendNotSet(a)
                THEN IF Sm100(a) THEN "trtllm_mha" ELSE IF Hopper(a) THEN "fa3" ELSE "triton"
                ELSE @]
        ok == {"triton", "trtllm_mha", "fa3", "fa4", "ascend"}
        mxfp4 == a.hf_quant = "mxfp4"
        c == [b EXCEPT
                !.disable_hybrid_swa = @ \/ "trtllm_mha" \in {PrefillBackend(b), DecodeBackend(b)},
                !.allreduce_fusion = @ \/ (Blackwell(a) /\ ~a.enable_dp_attention /\ a.nnodes = 1),
                !.dtype = IF mxfp4 THEN "bfloat16" ELSE @,
                !.moe_runner_backend =
                    CASE @ # "auto" -> @
                      [] @ = "auto" /\ Blackwell(a) /\ mxfp4 -> "flashinfer_mxfp4"
                      [] @ = "auto" /\ ~(Blackwell(a) /\ mxfp4)
                           /\ a.ep_size = 1 /\ a.quantization = unset -> "triton_kernel"
                      [] OTHER -> @]
    IN Require(/\ {PrefillBackend(b), DecodeBackend(b)} \subseteq ok
               /\ c.moe_runner_backend = "triton_kernel" => a.ep_size = 1, c)

\* MiMoV2Flash and Step3p5: several draft layers, no hybrid memory under hicache.
MultiLayerEagle(a) ==
    LET eagle == a.speculative_algorithm = "EAGLE" IN
    [a EXCEPT !.multi_layer_eagle = @ \/ eagle, !.spec_v2 = @ \/ eagle,
              !.swa_full = @ \/ a.enable_hicache, !.disable_hybrid_swa = @ \/ a.enable_hicache]

Llama4(a) ==
    LET b == [a EXCEPT !.attention_backend = IF @ # unset THEN @
                ELSE IF Sm100(a) THEN "trtllm_mha" ELSE IF Hopper(a) THEN "fa3" ELSE "triton",
                       !.moe_runner_backend =
                IF Sm100(a) /\ @ = "auto" /\ a.quantization \in {"fp8", "modelopt_fp8"}
                THEN "flashinfer_trtllm" ELSE @]
    IN Require(b.attention_backend \in {"fa3", "aiter", "triton", "trtllm_mha", "intel_xpu"}, b)

Olmo2(a) ==
    LET b == [a EXCEPT !.disable_hybrid_swa = TRUE, !.attention_backend = IF @ # unset THEN @
                ELSE IF Sm100(a) THEN "trtllm_mha" ELSE "fa3"]
    IN Require(b.attention_backend # "flashinfer", b)

\* Qwen3Next and Glm4Moe take the checkpoint's quantisation on Blackwell.
CheckpointMoe(a, quants) ==
    LET q == IF a.quantization = unset THEN a.hf_quant ELSE a.quantization IN
    IF ~Sm100(a) THEN a
    ELSE [a EXCEPT !.quantization = q, !.moe_runner_backend =
            IF @ = "auto" /\ a.moe_a2a_backend = "none" /\ q \in quants
            THEN "flashinfer_trtllm" ELSE @]

\* _handle_mamba_radix_cache: state models keep a prefix cache only in two ways.
MambaRadix(a, cached, extraBuffer, backend) ==
    LET b == [a EXCEPT !.attention_backend =
                IF Sm100(a) /\ @ = unset /\ backend # unset THEN backend ELSE @]
        extra == a.mamba_strategy = "extra_buffer"
        p == a.page_size
    IN CASE ~cached -> [b EXCEPT !.disable_radix_cache = TRUE]
         [] cached /\ extra ->
               Require(/\ extraBuffer /\ ~a.disable_radix_cache
                       /\ a.mamba_track_interval >= a.draft_tokens
                       /\ p # 0 => /\ a.mamba_track_interval % p = 0
                                   /\ Max({64, p}) % Min({64, p}) = 0, b)
         [] cached /\ ~extra /\ ~a.disable_radix_cache ->
               IF a.speculative_algorithm # unset THEN [b EXCEPT !.disable_radix_cache = TRUE]
               ELSE IF b.attention_backend = "trtllm_mha"
                    THEN [b EXCEPT !.disable_radix_cache = TRUE, !.disable_overlap_schedule = FALSE]
                    ELSE [b EXCEPT !.disable_overlap_schedule = TRUE]
         [] OTHER -> b

NemotronH(a) ==
    LET b == IF a.quantization \in {"modelopt_fp8", "modelopt_fp4"}
             THEN [a EXCEPT !.moe_runner_backend = "flashinfer_cutlass"] ELSE a
        c == MambaRadix(b, TRUE, FALSE, "flashinfer")
    IN Require(c.attention_backend # "triton", c)

ByArch(a) ==
    CASE a.arch = "DeepseekV4" -> DeepseekV4(a)
      [] a.arch \in {"GlmMoeDsa", "DeepseekV3"} -> Deepseek(a)
      [] a.arch = "GptOss" -> GptOss(a)
      [] a.arch = "MiMoV2Flash" -> MultiLayerEagle(a)
      [] a.arch = "Llama4" -> Llama4(a)
      [] a.arch = "Gemma3" -> [a EXCEPT !.disable_hybrid_swa = TRUE]
      [] a.arch = "Olmo2" -> Olmo2(a)
      [] a.arch = "KimiLinear" -> MambaRadix(a, FALSE, TRUE, unset)
      [] a.arch = "NemotronH" -> NemotronH(a)
      [] a.arch = "Qwen3Next" ->
            MambaRadix(CheckpointMoe(a, {"fp8", "modelopt_fp4", unset}), TRUE, TRUE, "triton")
      [] a.arch = "Glm4Moe" -> CheckpointMoe(a, {"modelopt_fp4"})
      [] OTHER -> a

\* The fused all-reduce is switched on for the models that support it.
ModelSpecific(a) ==
    LET b == ByArch(a) IN
    [b EXCEPT !.allreduce_fusion = @ \/
        (/\ a.arch \in {"DeepseekV3", "GptOss", "Glm4Moe"} /\ (Hopper(a) \/ Sm100(a))
         /\ ~b.enable_dp_attention /\ b.nnodes = 1 /\ b.moe_a2a_backend = "none")]

----------------------------------------------------------------------------
(* Kernel backends.                                                          *)

SamplingBackend(a) == [a EXCEPT !.sampling_backend = IF @ = unset THEN "flashinfer" ELSE @]

\* is_no_spec_infer_or_topk_one
NoSpecOrTopkOne(a) == a.eagle_topk = 0 \/ (a.eagle_topk = 1 /\ a.page_size \in {0, 1})

\* The default attention backend when nothing was asked for.
DefaultBackend(a) ==
    IF Mla(a) THEN IF Hopper(a) THEN "fa3" ELSE IF Sm100(a) THEN "flashinfer" ELSE "triton"
    ELSE IF Hopper(a) /\ NoSpecOrTopkOne(a) THEN "fa3"
         ELSE IF Sm100(a) /\ NoSpecOrTopkOne(a) /\ (a.speculative_algorithm = unset \/ a.eagle_topk # 0)
              THEN "trtllm_mha" ELSE "flashinfer"

Chosen(a) ==
    LET same == a.prefill_attention_backend # unset
                /\ a.prefill_attention_backend = a.decode_attention_backend
        b == [a EXCEPT !.attention_backend = IF same THEN a.prefill_attention_backend ELSE @]
    IN [b EXCEPT !.attention_backend = IF @ = unset THEN DefaultBackend(b) ELSE @]

\* The page a backend insists on; the tests run in this order, the last one wins.
PageFor(a) ==
    LET ad == {a.attention_backend, a.decode_attention_backend}
        any == ad \cup {a.prefill_attention_backend}
        p1 == IF "flashmla" \in ad THEN 64 ELSE a.page_size
        p2 == IF "cutlass_mla" \in ad THEN 128 ELSE p1
        p3 == IF "trtllm_mla" \in ad /\ p2 \notin {32, 64} THEN 64 ELSE p2
        p4 == IF "trtllm_mha" \in any /\ p3 \notin {16, 32, 64} THEN 64 ELSE p3
    IN IF a.prefill_attention_backend = "fa4" /\ ~Mla(a) THEN 128 ELSE p4

AttentionBackend(a) ==
    LET b == Chosen(a)
        ad == {b.attention_backend, b.decode_attention_backend}
        eager == b.attention_backend \in {"torch_native", "flex_attention"}
    IN Require(/\ b.attention_backend = "flex_attention" => b.speculative_algorithm = unset
               /\ "trtllm_mla" \in ad =>
                    Blackwell(b) /\ b.kv_cache_dtype \in {"fp8_e4m3", "fp4_e2m1", "bf16", "auto"}
               /\ "trtllm_mha" \in ad \cup {b.prefill_attention_backend} => Sm100(b),
         [b EXCEPT !.disable_cuda_graph = @ \/ eager, !.page_size = PageFor(b),
                   !.attention_backend =
                        IF @ = "fa3" /\ b.kv_cache_dtype = "fp8_e5m2" THEN "triton" ELSE @,
                   !.enable_mixed_chunk = @ /\ b.attention_backend # "dual_chunk_flash_attn",
                   !.disable_radix_cache = @ \/ b.attention_backend = "dual_chunk_flash_attn"])

\* FP4 KV: a list of backends for each architecture.
Kv4(a) ==
    LET p == PrefillBackend(a) d == DecodeBackend(a) IN
    IF a.kv_cache_dtype # "fp4_e2m1" \/ (p # d /\ p # "fa4") THEN a
    ELSE Require(IF p = "fa4"
                 THEN d \in (IF Mla(a) THEN {"cutlass_mla", "flashinfer", "trtllm_mla"}
                             ELSE {"triton", "torch_native", "flex_attention"})
                 ELSE a.attention_backend \in
                        (IF Mla(a) THEN {"cutlass_mla", "flashinfer", "trtllm_mla", "flashmla"}
                         ELSE {"triton", "torch_native", "flex_attention", "trtllm_mha"}), a)

PageSize(a) == [a EXCEPT !.page_size = IF @ = 0 THEN 1 ELSE @]

Hicache(a) ==
    LET io1 == IF a.hicache_layout = "page_first_direct" THEN "direct" ELSE a.hicache_io
        clash == /\ a.enable_hicache \/ a.offload_kvcache
                 /\ io1 = "kernel" /\ DecodeBackend(a) = "fa3"
        io2 == IF clash /\ a.decode_attention_backend # unset THEN "direct" ELSE io1
    IN [a EXCEPT !.hicache_io = io2,
                 !.decode_attention_backend = IF ~clash \/ @ # unset THEN @
                     ELSE IF Mla(a) /\ ~Sm100(a) THEN "triton" ELSE "flashinfer",
                 !.hicache_layout = IF a.hicache_storage = "mooncake" /\ @ = "layer_first"
                     THEN IF io2 = "direct" THEN "page_first_direct" ELSE "page_first" ELSE @]

----------------------------------------------------------------------------
(* Parallelism and experts.                                                  *)

DataParallel(a) ==
    LET dp == a.enable_dp_attention /\ a.dp_size # 1
        head == a.dp_lm_head /\ a.dp_size # 1
    IN Require((dp => a.tp_size % a.dp_size = 0) /\ (head => dp),
         [a EXCEPT !.enable_dp_attention = dp, !.dp_lm_head = head,
                   !.chunked_prefill_size = IF dp THEN @ \div a.dp_size ELSE @])

ContextParallel(a) ==
    Require(/\ a.attn_cp_size > 1 => /\ a.tp_size % (a.dp_size * a.attn_cp_size) = 0
                                     /\ a.pp_size = 1
            /\ a.moe_dp_size > 1 => /\ a.tp_size % a.moe_dp_size = 0
                                    /\ a.ep_size * a.moe_dp_size <= a.tp_size
                                    /\ a.pp_size = 1
                                    /\ a.ep_size > 1 => a.ep_size * a.moe_dp_size = a.tp_size, a)

\* The MoE kernel and what it can be combined with.
MoeKernel(a) ==
    LET r == IF a.quantization = "mxfp8" THEN "cutlass" ELSE a.moe_runner_backend IN
    Require(/\ r = "flashinfer_cutlass" => /\ a.quantization \in {"modelopt_fp4", "modelopt_fp8", unset}
                                           /\ a.ep_size \in {1, a.tp_size}
            /\ r = "flashinfer_trtllm" =>
                  a.quantization \in {"modelopt_fp4", "fp8", "modelopt_fp8", "compressed-tensors", unset}
            /\ r = "cutlass" /\ a.quantization \in {"fp8", "mxfp8"} => a.ep_size = 1,
        [a EXCEPT !.moe_runner_backend = r,
                  !.disable_shared_experts_fusion = @ \/ r = "flashinfer_trtllm"])

A2aMoe(a) ==
    Require(a.moe_a2a_backend = "flashinfer" => a.moe_runner_backend = "flashinfer_cutlass",
        [a EXCEPT !.disable_cuda_graph = @ \/ (a.moe_a2a_backend = "deepep" /\ a.deepep_mode = "normal"),
                  !.ep_size = IF a.moe_a2a_backend = "none" THEN @ ELSE a.tp_size,
                  !.disable_shared_experts_fusion = @ \/ a.moe_a2a_backend = "flashinfer"])

EplbDispatch(a) ==
    Require(a.enable_eplb => a.ep_size > 1,
        [a EXCEPT !.recorder = IF a.enable_eplb /\ @ = unset THEN "stat" ELSE @,
                  !.dispatch = IF a.enable_eplb /\ @ = unset THEN "static" ELSE @])

PipelineParallel(a) == [a EXCEPT !.disable_overlap_schedule = @ \/ a.pp_size > 1]

----------------------------------------------------------------------------
(* Speculative decoding.                                                     *)

\* auto_choose_speculative_params
AutoSpeculative(a) == IF a.arch = "Llama" /\ a.speculative_algorithm # "STANDALONE"
                      THEN <<5, 4, 8>> ELSE <<3, 1, 4>>

\* Eagle as if overlap were decided by the flag alone.
EagleKeepsOverlap(a) ==
    LET p == IF a.num_steps = 0 THEN AutoSpeculative(a) ELSE <<a.num_steps, a.eagle_topk, a.draft_tokens>>
    IN [a EXCEPT !.num_steps = p[1], !.eagle_topk = p[2], !.enable_mixed_chunk = FALSE,
                 !.draft_tokens = IF p[2] = 1 THEN p[1] + 1 ELSE p[3]]

\* EAGLE, EAGLE3 and STANDALONE.
Eagle(a) ==
    LET auto == a.num_steps = 0
        p == IF auto THEN AutoSpeculative(a) ELSE <<a.num_steps, a.eagle_topk, a.draft_tokens>>
    IN Require(/\ ~(a.speculative_algorithm = "STANDALONE" /\ a.enable_dp_attention)
               /\ a.spec_v2 => a.eagle_topk <= 1
               /\ p[2] > 0
               /\ auto => a.eagle_topk = 0 /\ a.draft_tokens = 0
               /\ ("trtllm_mha" \in {a.attention_backend, a.decode_attention_backend,
                                     a.prefill_attention_backend} => p[2] <= 1)
               /\ ~(p[2] > 1 /\ a.page_size > 1 /\ a.attention_backend \notin {"flashinfer", "fa3"}),
         [a EXCEPT !.max_running_requests = IF @ = 0 THEN 48 ELSE @,
                   !.disable_overlap_schedule = ~a.spec_v2, !.enable_mixed_chunk = FALSE,
                   !.num_steps = p[1], !.eagle_topk = p[2],
                   !.draft_tokens = IF p[2] = 1 THEN p[1] + 1 ELSE p[3]])

\* N-gram drafts: breadth 10 and window 18 unless set.
Ngram(a) ==
    Require(~(a.page_size > 1 /\ a.attention_backend # "flashinfer") /\ ~a.enable_dp_attention,
        [a EXCEPT !.max_running_requests = IF @ = 0 THEN 48 ELSE @,
                  !.disable_overlap_schedule = TRUE, !.enable_mixed_chunk = FALSE,
                  !.eagle_topk = 10, !.draft_tokens = IF @ = 0 THEN 18 ELSE @])

Speculative(a) ==
    LET b == [a EXCEPT !.spec_runner =
                    IF @ # unset THEN @
                    ELSE IF a.moe_runner_backend = "flashinfer_trtllm" THEN "auto" ELSE a.moe_runner_backend,
                       !.speculative_algorithm = IF @ = "NEXTN" THEN "EAGLE" ELSE @]
        c == CASE b.speculative_algorithm \in {"EAGLE", "EAGLE3", "STANDALONE"} -> Eagle(b)
               [] b.speculative_algorithm = "NGRAM" -> Ngram(b)
               [] OTHER -> b
    IN Require(a.spec_runner # "flashinfer_trtllm", c)

----------------------------------------------------------------------------
LoadFormat(a) == [a EXCEPT !.quantization = IF a.gguf THEN "gguf" ELSE @]

\* validate_disagg_tp_size
TpSizesFit(p, d) == Max({p, d}) % Min({p, d}) = 0

PdDisaggregation(a) ==
    CASE a.disaggregation_mode = "decode" ->
            Require(a.decode_tp = 0, [a EXCEPT !.disable_radix_cache = TRUE])
      [] a.disaggregation_mode = "prefill" ->
            LET tp == IF a.decode_tp = 0 THEN a.tp_size ELSE a.decode_tp
            IN Require(TpSizesFit(a.tp_size, tp),
                 [a EXCEPT !.decode_tp = tp, !.disable_cuda_graph = @ \/ ~a.piecewise])
      [] OTHER -> a

Environment(a) == [a EXCEPT !.deterministic_env = a.deterministic]

CacheCompatibility(a) ==
    Require(/\ ~(a.enable_hicache /\ a.disable_radix_cache)
            /\ a.offload_kvcache => a.disaggregation_mode = "decode" /\ ~a.spec_v2, a)

\* Deterministic inference: one sampling backend, few attention backends.
Deterministic(a) ==
    LET on == a.deterministic \/ a.rl_on_policy
        deepseek == a.arch \in {"DeepseekV3", "GlmMoeDsa"}
        back == IF a.attention_backend # unset THEN a.attention_backend
                ELSE IF ~Blackwell(a) THEN "fa3" ELSE IF deepseek THEN "triton" ELSE "flashinfer"
    IN IF ~on THEN a
       ELSE Require(back \in {"flashinfer", "fa3", "triton"} /\ (deepseek => back \in {"fa3", "triton"}),
              [a EXCEPT !.deterministic = TRUE, !.deterministic_env = @ \/ a.rl_on_policy,
                        !.sampling_backend = "pytorch", !.attention_backend = back,
                        !.disable_radix_cache = @ \/ back \notin {"fa3", "triton"},
                        !.disable_custom_all_reduce = @ \/ a.tp_size > 1])

\* Diffusion models switch most features off; the test on pp_size is the code's.
Dllm(a) ==
    IF ~a.dllm THEN a
    ELSE [a EXCEPT !.attention_backend = IF a.disable_cuda_graph THEN @ ELSE "flashinfer",
                   !.disable_overlap_schedule = TRUE, !.disable_radix_cache = TRUE,
                   !.pp_size = IF ~(@ > 1) THEN 1 ELSE @,
                   !.enable_lora = FALSE, !.disaggregation_mode = "null",
                   !.enable_mixed_chunk = FALSE]

OtherValidations(a) == [a EXCEPT !.disable_cuda_graph = @ \/ a.dump]

\* check_lora_server_args: a merged adapter is split, and its experts run on the CPU.
CheckLora(a) ==
    IF ~a.enable_lora THEN a
    ELSE Require(/\ a.speculative_algorithm \in {unset, "NGRAM"}
                 /\ a.composite_lora => a.kt_expert_lora = unset,
           [a EXCEPT !.kt_expert_lora = IF a.composite_lora THEN "composite" ELSE @,
                     !.disable_cuda_graph = @ \/ a.composite_lora])

\* check_server_args, called when the processes are launched.
CheckServerArgs(a) ==
    LET b == CheckLora(a) IN
    Require(/\ (a.tp_size * a.pp_size) % a.nnodes = 0
            /\ a.pp_size > 1 => /\ a.disable_overlap_schedule /\ ~a.enable_mixed_chunk
                                /\ a.speculative_algorithm = unset
            /\ ~(a.dp_size > 1 /\ a.nnodes # 1 /\ ~a.enable_dp_attention)
            /\ a.moe_dense_tp_size \in {0, 1}
            /\ (b.kt_lora # unset \/ b.kt_expert_lora # unset => a.max_running_requests # 1)
            /\ a.speculative_algorithm # unset => ~a.enable_mixed_chunk
            /\ a.chunked_prefill_size > 0 /\ a.disaggregation_mode # "decode"
                 => a.chunked_prefill_size % a.page_size = 0, b)

----------------------------------------------------------------------------
CONSTANT UserArgs       \* the argument records (over Defaults) users start the server with

VARIABLES
    asked,              \* what the user asked for
    args,               \* the arguments as the handlers so far have left them
    pc                  \* the handler to run next, "accepted" or "refused"

vars == <<asked, args, pc>>

Stages ==
    {"LoadBalance", "MissingDefaults", "KtLora", "GpuMemory", "ModelSpecific", "SamplingBackend",
     "AttentionBackend", "Kv4", "PageSize", "Hicache", "DataParallel", "ContextParallel",
     "MoeKernel", "A2aMoe", "EplbDispatch", "PipelineParallel", "Speculative", "LoadFormat",
     "PdDisaggregation", "Environment", "CacheCompatibility", "Deterministic", "Dllm", "OtherValidations",
     "CheckServerArgs"}

Accepted == pc = "accepted"

\* The fields keep their types, and no None is left once its handler has run.
TypeOK == /\ pc \in Stages \cup {"accepted", "refused"}
          /\ DOMAIN args = DOMAIN Defaults
          /\ args.page_size \in Nat /\ args.chunked_prefill_size \in Int
          /\ args.mem_fraction \in 0 .. 1000 /\ args.ep_size \in 1 .. args.tp_size
          /\ args.load_balance = "auto" => pc = "LoadBalance"
          /\ Accepted => /\ args.page_size > 0
                         /\ unset \notin {args.attention_backend, args.sampling_backend}

Init == /\ \E u \in UserArgs : asked = u @@ Defaults
        /\ args = asked
        /\ pc = "LoadBalance"

\* One handler; an exception ends the start of the server.
Handle(i, handled, next) ==
    /\ pc = i
    /\ args' = handled
    /\ pc' = IF args'.refused THEN "refused" ELSE next
    /\ UNCHANGED asked

Next ==
    \/ Handle("LoadBalance", LoadBalance(args), "MissingDefaults")
    \/ Handle("MissingDefaults", MissingDefaults(args), "KtLora")
    \/ Handle("KtLora", KtLora(args), "GpuMemory")
    \/ Handle("GpuMemory", GpuMemory(args), "ModelSpecific")
    \/ Handle("ModelSpecific", ModelSpecific(args), "SamplingBackend")
    \/ Handle("SamplingBackend", SamplingBackend(args), "AttentionBackend")
    \/ Handle("AttentionBackend", AttentionBackend(args), "Kv4")
    \/ Handle("Kv4", Kv4(args), "PageSize")
    \/ Handle("PageSize", PageSize(args), "Hicache")
    \/ Handle("Hicache", Hicache(args), "DataParallel")
    \/ Handle("DataParallel", DataParallel(args), "ContextParallel")
    \/ Handle("ContextParallel", ContextParallel(args), "MoeKernel")
    \/ Handle("MoeKernel", MoeKernel(args), "A2aMoe")
    \/ Handle("A2aMoe", A2aMoe(args), "EplbDispatch")
    \/ Handle("EplbDispatch", EplbDispatch(args), "PipelineParallel")
    \/ Handle("PipelineParallel", PipelineParallel(args), "Speculative")
    \/ Handle("Speculative", Speculative(args), "LoadFormat")
    \/ Handle("LoadFormat", LoadFormat(args), "PdDisaggregation")
    \/ Handle("PdDisaggregation", PdDisaggregation(args), "Environment")
    \/ Handle("Environment", Environment(args), "CacheCompatibility")
    \/ Handle("CacheCompatibility", CacheCompatibility(args), "Deterministic")
    \/ Handle("Deterministic", Deterministic(args), "Dllm")
    \/ Handle("Dllm", Dllm(args), "OtherValidations")
    \/ Handle("OtherValidations", OtherValidations(args), "CheckServerArgs")
    \/ Handle("CheckServerArgs", CheckServerArgs(args), "accepted")

Spec == Init /\ [][Next]_vars

----------------------------------------------------------------------------
Eagles == {"EAGLE", "EAGLE3", "STANDALONE"}

\* Safety: where the overlapped event loop cannot run it is off in the accepted arguments,
\* although several handlers set the flag in both directions (server_args.py: Eagle and
\* NGRAM drafts, diffusion models, recurrent models with a prefix cache and no extra buffer).
OverlapSafe ==
    Accepted /\ \/ args.dllm
                \/ args.speculative_algorithm = "NGRAM"
                \/ args.speculative_algorithm \in Eagles /\ ~args.spec_v2
                \/ /\ args.arch \in {"Qwen3Next", "NemotronH"}
                   /\ args.mamba_strategy = "no_buffer" /\ ~args.disable_radix_cache
    => args.disable_overlap_schedule

\* Safety: the memory fraction was fixed by the fourth handler; the activations and graph
\* buffers of the arguments that are accepted in the end still fit into what it left.
EnoughReserved ==
    Accepted /\ asked.mem_fraction = 0 =>
        (1000 - args.mem_fraction) * args.gpu_gb * 2048 + args.gpu_gb * 1024 >= 1000 * Reserved(args)

\* Safety: expert LoRA runs on the CPU with host-side copies, which no CUDA graph can hold,
\* whichever of the three ways it was asked for.
LoraWithoutGraphs ==
    Accepted /\ (args.kt_lora # unset \/ args.kt_expert_lora # unset) => args.disable_cuda_graph

\* Safety: the page size in force is one that the backends in force support, and 64 with
\* sparse attention, whatever page the user or an earlier handler chose.
PageFits ==
    Accepted =>
        /\ "flashmla" \in {PrefillBackend(args), DecodeBackend(args)} => args.page_size = 64
        /\ args.arch = "GlmMoeDsa" => args.page_size = 64
        /\ DecodeBackend(args) = "trtllm_mla" => args.page_size \in {32, 64}
        /\ "trtllm_mha" \in {PrefillBackend(args), DecodeBackend(args)} => args.page_size \in {16, 32, 64}

\* Safety: the sparse attention kernels picked by default are those for the precision that
\* the KV cache has in the end.
NsaMatchesPrecision ==
    Accepted /\ args.arch = "GlmMoeDsa" /\ {asked.nsa_prefill, asked.nsa_decode} = {unset} =>
        (args.kv_cache_dtype = "fp8_e4m3" <=> args.nsa_prefill = "flashmla_auto")
        /\ (args.kv_cache_dtype = "fp8_e4m3" <=> args.nsa_decode = "flashmla_kv")

\* Safety: a chain of drafts has one token more than steps, and trees only run on backends
\* that can page them.
DraftShape ==
    Accepted /\ args.speculative_algorithm \in Eagles =>
        /\ args.eagle_topk = 1 => args.draft_tokens = args.num_steps + 1
        /\ args.eagle_topk > 1 => args.page_size = 1 \/ args.attention_backend \in {"flashinfer", "fa3"}

=============================================================================
