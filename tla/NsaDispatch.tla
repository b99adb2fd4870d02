----------------------------- MODULE NsaDispatch -----------------------------
(* Which kernel NativeSparseAttnBackend runs and in which form it gets the     *)
(* selected keys. The choice is made when the metadata of a pass is built and  *)
(* kept in the backend (use_mha, nsa_prefill_impl); the indexer and the        *)
(* attention of every layer read it again later.                               *)
EXTENDS Naturals, FiniteSets

CONSTANTS
    UserPrefill,        \* BOOLEAN: the user has set a prefill backend
    Topk, ChunkCap,     \* nsa_index_topk, get_max_chunk_capacity
    Ratio,              \* 512 in the source, scaled to the lengths used here
    MaxLen,             \* bound: keys of a batch
    MaxPasses           \* bound: passes per behaviour

DispatchAssumption ==
    {Topk, ChunkCap, Ratio, MaxLen, MaxPasses} \subseteq Nat \ {0} /\ UserPrefill \in BOOLEAN

VARIABLES
    set,                \* the settings
    prefillImpl,        \* nsa_prefill_impl
    useMha,             \* use_mha
    meta,               \* forward_metadata: is there an offset, a flattened table
    passes,
    layer               \* what the layers of the last pass did

vars == <<set, prefillImpl, useMha, meta, passes, layer>>

\* What _set_default_nsa_backends leaves when the user sets neither backend, per GPU and dtype.
DefaultSettings ==
    {s \in [fp8 : BOOLEAN, sm : {90, 100, 120}, prefill : {"flashmla_auto", "flashmla_sparse"},
            decode : {"flashmla_kv", "trtllm", "fa3"}, cp : BOOLEAN, forceMla : BOOLEAN, fuse : BOOLEAN] :
        IF s.fp8 THEN s.prefill = "flashmla_auto" /\ s.decode = "flashmla_kv"
        ELSE s.prefill = "flashmla_sparse" /\ s.decode = (IF s.sm >= 100 THEN "trtllm" ELSE "fa3")}

\* The same with a prefill backend that the user has set, and the transform not fused into the
\* indexer's kernel.
UserSettings == {[s EXCEPT !.prefill = "flashmla_sparse", !.fuse = FALSE] : s \in DefaultSettings}

Settings == IF UserPrefill THEN UserSettings ELSE DefaultSettings

\* A batch: a mode, its longest sequence, its keys and queries in all; a prefix when there are
\* more keys than queries.
Modes == {"extend", "mixed", "decode", "verify", "draft_extend"}
Batches == {b \in [mode : Modes, longest : 1 .. MaxLen, kv : 1 .. MaxLen, q : 1 .. MaxLen] : b.longest <= b.kv /\ b.q <= b.kv}
HasPrefix(b) == b.kv > b.q
PlainExtend(b) == b.mode \in {"extend", "mixed"}

\* set_nsa_prefill_impl: dense attention for a short prefill on a GPU that has the kernel.
UseMha(b) ==
    /\ PlainExtend(b) /\ ~ set.forceMla /\ ~ set.cp
    /\ set.sm = 90 \/ (set.sm >= 100 /\ set.sm < 110)
    /\ b.longest <= (IF prefillImpl = "trtllm" THEN ChunkCap ELSE Topk)
    /\ b.kv <= ChunkCap

\* The automatic choice made once.
ImplOnce(b, mha) ==
    IF mha \/ prefillImpl # "flashmla_auto" THEN prefillImpl
    ELSE IF set.fp8 /\ ~ (set.sm >= 100 /\ b.mode = "extend" /\ b.kv < b.q * Ratio) THEN "flashmla_kv" ELSE "flashmla_sparse"

\* The automatic choice, made anew for every pass that is not dense.
Impl(b, mha) ==
    IF mha \/ set.prefill # "flashmla_auto" THEN prefillImpl
    ELSE IF ~ set.fp8 THEN "flashmla_sparse"
    ELSE IF set.sm >= 100 /\ b.mode = "extend" /\ b.kv < b.q * Ratio THEN "flashmla_sparse"
    ELSE "flashmla_kv"

\* get_topk_transform_method: indices into the ragged keys of the batch or into the page table.
Method(impl) == IF set.fp8 /\ impl = "flashmla_sparse" THEN "ragged" ELSE "paged"

\* init_forward_metadata, the extend branch: with a prefix the keys must be gathered from the
\* pages, for the ragged form and for dense attention on an fp8 cache.
NeedsFlat(b, mha, impl) == PlainExtend(b) /\ HasPrefix(b) /\ (Method(impl) = "ragged" \/ (mha /\ set.fp8))

\* topk_indices_offset of the extend branch.
HasOffset(b, impl) == PlainExtend(b) /\ Method(impl) = "ragged"

\* The kernel of a layer: decode, verify and draft extension run the decode implementation.
Kernel(b, mha, impl) ==
    IF mha THEN "mha" ELSE IF b.mode \in {"decode", "verify", "draft_extend"} THEN set.decode ELSE impl

\* What forward_extend and forward_decode then need, and how they address the keys: the sparse
\* prefill kernel in the ragged form reads gathered keys, every other kernel reads the pages.
Layer(b, mha, impl, m) ==
    LET kernel == Kernel(b, mha, impl)
        ragged == Method(impl) = "ragged"
    IN  [mode |-> b.mode, kernel |-> kernel,
         indices |-> IF mha THEN "none" ELSE IF b.mode = "decode" /\ ~ set.fuse THEN "paged" ELSE Method(impl),
         reads |-> IF mha THEN "none"
                   ELSE IF ragged /\ kernel = "flashmla_sparse" /\ b.mode # "decode" THEN "ragged" ELSE "paged",
         offsetOk |-> mha \/ ~ ragged \/ m.offset \/ (b.mode = "decode" /\ ~ set.fuse),
         flatOk |-> \/ ~ HasPrefix(b) \/ ~ PlainExtend(b)
                    \/ IF mha THEN set.fp8 => m.flat ELSE ragged => m.flat]

-----------------------------------------------------------------------------

Init ==
    /\ set \in Settings /\ prefillImpl = set.prefill /\ useMha = FALSE
    /\ meta = [offset |-> FALSE, flat |-> FALSE] /\ passes = 0
    /\ layer = [mode |-> "none", kernel |-> "none", indices |-> "none", reads |-> "none", offsetOk |-> TRUE, flatOk |-> TRUE]

\* An eager pass: init_forward_metadata, then the layers.
Pass(b) ==
    LET mha == UseMha(b)
        impl == Impl(b, mha)
        m == [offset |-> HasOffset(b, impl), flat |-> NeedsFlat(b, mha, impl)]
    IN  /\ passes < MaxPasses /\ passes' = passes + 1
        /\ useMha' = mha /\ prefillImpl' = impl /\ meta' = m
        /\ layer' = Layer(b, mha, impl, m)
        /\ UNCHANGED set

\* A replayed pass: the captured metadata has neither; the choice is made without a batch.
Replay(mode) ==
    LET b == [mode |-> mode, longest |-> 1, kv |-> 1, q |-> 1]
        impl == Impl(b, FALSE)
    IN  /\ passes < MaxPasses /\ passes' = passes + 1
        /\ useMha' = FALSE /\ prefillImpl' = impl /\ meta' = [offset |-> FALSE, flat |-> FALSE]
        /\ layer' = Layer(b, FALSE, impl, meta')
        /\ UNCHANGED set

Next == (\E b \in Batches : Pass(b)) \/ (\E mode \in {"decode", "verify", "draft_extend"} : Replay(mode))
Spec == Init /\ [][Next]_vars

-----------------------------------------------------------------------------
\* The kernel of every layer reads the keys in the form in which the indexer wrote the indices,
\* whichever passes came before and left their choice in the backend.
IndicesFitKernel == layer.indices = layer.reads

\* What forward_extend asserts: the ragged form has its offsets.
OffsetsWhenRagged == layer.offsetOk

\* A prefill that gathers keys of a prefix has the flattened table it gathers through.
FlattenedWhenGathered == layer.flatOk
=============================================================================
