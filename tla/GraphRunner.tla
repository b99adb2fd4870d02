---------------------------- MODULE GraphRunner ----------------------------
(***************************************************************************)
(* A forward pass of the target model from the batch to its rows: the tier *)
(* of each request, its expansion to one value per token, and the CUDA     *)
(* graph runner, which replays a captured graph over persistent input      *)
(* buffers that are larger than the batch.                                 *)
(*                                                                         *)
(* A row is one token.  Prefill and mixed batches run eagerly; decode (one *)
(* token per request) and verification of drafts (NumTokensPerBs tokens    *)
(* per request) replay a graph when one is large enough.  A row's KV slot  *)
(* is abstracted to the request it was allocated for; slot 0 is the one    *)
(* the allocator never hands out.                                          *)
(***************************************************************************)
EXTENDS Integers, Sequences, FiniteSets, SequencesExt, FiniteSetsExt

CONSTANTS
    E,               \* experts the router selects for one token
    DefaultK,        \* _KT_TOPK_K of the server
    NucleusP,        \* 100 * KT_ADAPT_NUCLEUS_P; 0 is off
    KMin, KMax,      \* KT_ADAPT_KMIN, KT_ADAPT_KMAX
    Reqs,            \* requests
    Tiers,           \* model-name suffixes requests may carry
    WeightRows,      \* router outputs a token may meet
    NumTokensPerBs,  \* 1, or speculative_num_draft_tokens
    CudaGraphBs,     \* batch sizes the server asks to capture
    PoolSize,        \* req_to_token_pool.size: largest batch
    MaxExtend,       \* bound: most tokens of one request in a prefill
    MixedChunk,      \* enable_mixed_chunk
    MaxSteps         \* bound: forwards in a behaviour

GraphRunnerAssumption ==
    /\ E \in Nat \ {0} /\ DefaultK \in Nat \ {0}
    /\ NucleusP \in 0..100 /\ KMin \in Nat /\ KMax \in Nat
    /\ NumTokensPerBs \in Nat \ {0} /\ PoolSize \in Nat \ {0}
    /\ CudaGraphBs \subseteq Nat \ {0} /\ CudaGraphBs # {}
    /\ MixedChunk \in BOOLEAN /\ MaxExtend \in Nat /\ MaxSteps \in Nat

NoReq == "none"      \* owner of a padding row
Slot0 == "slot0"
NoSuffix == [kind |-> "none", n |-> 0]

VARIABLES
    suffix,      \* suffix of each request
    running,     \* requests of the running batch, in order
    waiting,     \* requests that have not been prefilled
    hidden,      \* capture_hidden_mode of the captured graphs
    bufKeep,     \* keep_k of the graph's input buffers
    bufLoc,      \* out_cache_loc of the graph's input buffers
    fwd,         \* the last forward: owner, keep and loc of every row it ran
    steps

vars == <<suffix, running, waiting, hidden, bufKeep, bufLoc, fwd, steps>>
-----------------------------------------------------------------------------
(* The tier of a request: what the suffix of the model name asks for, the  *)
(* integer it is encoded as on its way through the runtime, and how many   *)
(* of the router's experts a token keeps at the other end.  A suffix is a  *)
(* record: kind "none", "top", "adapt", "nuc", or "bare" for -adapt        *)
(* without a number; n is the number that follows.  Router weights are     *)
(* sequences of E naturals; probabilities and thresholds are compared as   *)
(* integer ratios.                                                         *)

AdaptBase == -1000
NucBase == -2000
AdaptDefaultSpeed == 50

Clamp(x, lo, hi) == IF x < lo THEN lo ELSE IF x > hi THEN hi ELSE x

\* _parse_keep_k_from_model: the encoding of a suffix; a name without one
\* gives no value, which the runtime turns into -1.
ParseKeepK(s) ==
    CASE s.kind = "nuc"   -> NucBase - Clamp(s.n, 0, 100)
      [] s.kind = "bare"  -> AdaptBase - AdaptDefaultSpeed
      [] s.kind = "adapt" -> AdaptBase - Clamp(s.n, 0, 100)
      [] s.kind = "top"   -> Clamp(s.n, 0, 8)
      [] s.kind = "none"  -> -1

\* Mass of the k largest weights.
TopMass(w, k) ==
    FoldSeq(LAMBDA x, y : x + y, 0, SubSeq(SortSeq(w, LAMBDA x, y : x > y), 1, k))

Total(w) == TopMass(w, Len(w))

\* _kt_nucleus_keep_k: one more than the number of prefixes still short of
\* p percent of the mass, within the configured limits.
NucleusKeepK(w, p) ==
    LET below == Cardinality({k \in 1..E : TopMass(w, k) * 100 < p * Total(w)})
        lo == Clamp(KMin, 1, E)
    IN  Clamp(below + 1, lo, Clamp(KMax, lo, E))

\* _kt_adaptive_keep_k: the ladder 0, 2, 4, E, whose thresholds fall as the
\* speed level rises, unless a server-wide nucleus replaces it.
AdaptiveKeepK(w, level) ==
    LET mass2 == TopMass(w, Min({2, E}))
        mass4 == TopMass(w, Min({4, E}))
        k0Threshold == 9200 - 168 * Clamp(level - 75, 0, 25)
    IN  CASE NucleusP > 0 -> NucleusKeepK(w, NucleusP)
          [] NucleusP = 0 /\ level <= 0 -> E
          [] NucleusP = 0 /\ level >= 100 -> 0
          [] OTHER -> IF mass2 * 10000 >= k0Threshold * Total(w) THEN 0
                      ELSE IF mass2 * 500 >= (300 - level) * Total(w) THEN Min({2, E})
                      ELSE IF mass4 * 500 >= (400 - level) * Total(w) THEN Min({4, E})
                      ELSE E

\* What a token without a tier keeps.
DefaultKeepK(w) == IF NucleusP > 0 THEN NucleusKeepK(w, NucleusP) ELSE Min({DefaultK, E})

\* The two bands taken for one: what a decoder that tests the adaptive band
\* first makes of a nucleus tier.
DecodeKeepKOneBand(raw, w) ==
    IF raw <= AdaptBase THEN AdaptiveKeepK(w, Clamp(AdaptBase - raw, 0, 100))
    ELSE IF raw < 0 \/ raw > E THEN DefaultKeepK(w) ELSE raw

\* The decoding at the head of _kt_topk_experiment.
DecodeKeepK(raw, w) ==
    LET nuc == raw <= NucBase /\ raw >= NucBase - 100
        adaptLevel == raw <= AdaptBase /\ ~nuc
    IN  CASE nuc -> NucleusKeepK(w, NucBase - raw)
          [] adaptLevel -> AdaptiveKeepK(w, Clamp(AdaptBase - raw, 0, 100))
          [] raw = -2 -> AdaptiveKeepK(w, AdaptDefaultSpeed)
          [] ~nuc /\ ~adaptLevel /\ raw # -2 ->
                IF raw < 0 \/ raw > E THEN DefaultKeepK(w) ELSE raw
-----------------------------------------------------------------------------
(* What the suffixes promise, said without the encoding.                   *)

\* The smallest number of experts that carries p percent of the mass.
Nucleus(w, p) ==
    LET lo == Clamp(KMin, 1, E)
    IN  Clamp(Min({k \in 1..E : TopMass(w, k) * 100 >= p * Total(w)}), lo, Clamp(KMax, lo, E))

Promise(s, w) ==
    CASE s.kind = "top"   -> Min({s.n, 8})
      [] s.kind = "nuc"   -> Nucleus(w, Min({s.n, 100}))
      [] s.kind = "adapt" -> AdaptiveKeepK(w, Min({s.n, 100}))
      [] s.kind = "bare"  -> AdaptiveKeepK(w, 50)
      [] s.kind = "none"  -> DefaultKeepK(w)
-----------------------------------------------------------------------------
\* get_batch_sizes_to_capture.
CaptureBs ==
    {bs \in CudaGraphBs \union (IF Max(CudaGraphBs) > PoolSize THEN {PoolSize} ELSE {}) :
        bs <= PoolSize}

MaxBs == Max(CaptureBs)
MaxNumToken == MaxBs * NumTokensPerBs

\* The token counts for which the CPU experts have buffers that outlive the
\* capture.
KtCaptureSizes == {bs * NumTokensPerBs : bs \in CaptureBs}

\* can_run without data parallelism: the batch fits, and the hidden states
\* it asks for are those the graphs were captured with.
CanRun(bs, wantHidden) ==
    /\ bs <= MaxBs
    /\ wantHidden = "null" \/ wantHidden = hidden

\* The batch size of the graph that is replayed.
PadTo(bs) == Min({c \in CaptureBs : c >= bs})

\* Row owners: the requests in order, each for its number of tokens.
RowOwners(reqs, counts) == FlattenSeq([i \in 1..Len(reqs) |-> [j \in 1..counts[i] |-> reqs[i]]])

\* Row owners when every request is given the same number of tokens.
EvenSplit(reqs, n) == RowOwners(reqs, [i \in 1..Len(reqs) |-> n \div Len(reqs)])

\* ForwardBatch.init_new: the tier of each request repeated over the tokens
\* it contributes.  Extend lengths are known for prefill and mixed batches;
\* the batch of a decode or of a verification carries none.
ExpandKeepK(tier, reqs, extendLens, numTok) ==
    LET ks == [r \in Reqs |-> ParseKeepK(tier[r])]
        owners == IF extendLens # <<>> THEN RowOwners(reqs, extendLens)
                  ELSE EvenSplit(reqs, numTok)
    IN  [i \in 1..Len(owners) |-> ks[owners[i]]]

-----------------------------------------------------------------------------
\* capture_one_batch_size: the graph of n rows reads the first n rows of
\* every buffer.
GraphRows(buf, n) == SubSeq(buf, 1, n)

\* capture_one_batch_size: the hidden states the graphs return.
CaptureMode == IF NumTokensPerBs > 1 THEN "full" ELSE "null"

\* DecodeInputBuffers.create, and the capture at start-up.  In speculative
\* decoding the verify input asks for full hidden states.
Init ==
    /\ suffix = [r \in Reqs |-> NoSuffix]
    /\ running = <<>>
    /\ waiting = Reqs
    /\ hidden = CaptureMode
    /\ bufKeep = [i \in 1..MaxNumToken |-> -1]
    /\ bufLoc = [i \in 1..MaxNumToken |-> Slot0]
    /\ fwd = [graph |-> 0, owner |-> <<>>, keep |-> <<>>, loc |-> <<>>]
    /\ steps = 0

\* The forward of a batch that no graph covers.
RunEager(owners, keep) ==
    /\ fwd' = [graph |-> 0, owner |-> owners, keep |-> keep, loc |-> owners]
    /\ UNCHANGED <<bufKeep, bufLoc, hidden>>

\* populate_from_forward_batch without resetting the KV slots of the padding.
PopulateLocStale(old, new, padded) ==
    [i \in DOMAIN old |-> IF i <= Len(new) THEN new[i] ELSE old[i]]

\* populate_from_forward_batch: padding rows are reset to slot 0 when there
\* are any.
PopulateLoc(old, new, padded) ==
    [i \in DOMAIN old |-> IF i <= Len(new) THEN new[i] ELSE IF padded THEN Slot0 ELSE old[i]]

\* populate_from_forward_batch: padding rows fall back to the default tier.
PopulateKeep(old, new, padded) ==
    [i \in DOMAIN old |-> IF i <= Len(new) THEN new[i] ELSE IF padded THEN -1 ELSE old[i]]

\* recapture_if_needed: the mode required now is the one captured next.
RequiredHidden(wantHidden) ==
    IF wantHidden = "full" \/ NumTokensPerBs > 1 THEN "full" ELSE "null"

\* replay_prepare and replay.
Replay(bs, owners, keep, wantHidden) ==
    LET pad == PadTo(bs)
        n == pad * NumTokensPerBs
    IN  /\ hidden' = RequiredHidden(wantHidden)
        /\ bufKeep' = PopulateKeep(bufKeep, keep, pad # bs)
        /\ bufLoc' = PopulateLoc(bufLoc, owners, pad # bs)
        /\ fwd' = [graph |-> n,
                   owner |-> [i \in 1..n |-> IF i <= Len(owners) THEN owners[i] ELSE NoReq],
                   keep  |-> GraphRows(bufKeep', n),
                   loc   |-> GraphRows(bufLoc', n)]

\* A prefill of some waiting requests, each with its number of uncached
\* tokens, together with one token of every running request when the
\* server mixes; the batch then joins the running one.
Extend(new, tiers, lens, mix) ==
    LET reqs == IF mix THEN new \o running ELSE new
        counts == IF mix THEN lens \o [i \in 1..Len(running) |-> 1] ELSE lens
        owners == RowOwners(reqs, counts)
    IN  /\ Len(running) + Len(new) <= PoolSize
        /\ suffix' = [r \in Reqs |-> IF r \in Range(new) THEN tiers[r] ELSE suffix[r]]
        /\ RunEager(owners, ExpandKeepK(suffix', reqs, counts, Len(owners)))
        /\ running' = IF mix THEN reqs ELSE running \o new
        /\ waiting' = waiting \ Range(new)

\* A decode or a verification of the running batch.
Decode(wantHidden) ==
    LET bs == Len(running)
        owners == EvenSplit(running, bs * NumTokensPerBs)
        keep == ExpandKeepK(suffix, running, <<>>, Len(owners))
    IN  /\ bs > 0
        /\ IF CanRun(bs, wantHidden) THEN Replay(bs, owners, keep, wantHidden)
           ELSE RunEager(owners, keep)
        /\ UNCHANGED <<suffix, running, waiting>>

\* filter_batch: a finished request leaves, the others keep their order; it
\* may come back as a new request with another tier.
Finish(r) ==
    /\ running' = SelectSeq(running, LAMBDA x : x # r)
    /\ waiting' = waiting \union {r}
    /\ suffix' = [suffix EXCEPT ![r] = NoSuffix]
    /\ UNCHANGED <<hidden, bufKeep, bufLoc, fwd>>

Next ==
    /\ steps < MaxSteps
    /\ steps' = steps + 1
    /\ \/ \E new \in SetToAllKPermutations(waiting) \ {<<>>} :
             \E lens \in [1..Len(new) -> 1..MaxExtend] :
                \E tiers \in [Range(new) -> Tiers], mix \in {FALSE, MixedChunk /\ running # <<>>} :
                    Extend(new, tiers, lens, mix)
       \/ \E h \in {"null", "full"} : (h = "full" \/ NumTokensPerBs = 1) /\ Decode(h)
       \/ \E r \in Range(running) : Finish(r)

Spec == Init /\ [][Next]_vars
-----------------------------------------------------------------------------
TypeOK ==
    /\ suffix \in [Reqs -> Tiers \union {NoSuffix}]
    /\ running \in Seq(Reqs) /\ Len(running) <= PoolSize
    /\ waiting \subseteq Reqs
    /\ hidden \in {"null", "full"}
    /\ bufKeep \in [1..MaxNumToken -> Int]
    /\ bufLoc \in [1..MaxNumToken -> Reqs \union {Slot0}]
    /\ Len(fwd.keep) = Len(fwd.owner) /\ Len(fwd.loc) = Len(fwd.owner)

\* The tier a client asked for by the model name is the one its tokens are
\* routed with, whatever shares their batch and whatever the buffers held
\* before; padding rows run at the server's default.
TierServed ==
    \A i \in 1..Len(fwd.owner) : \A w \in WeightRows :
        /\ fwd.owner[i] = NoReq => DecodeKeepK(fwd.keep[i], w) = DefaultKeepK(w)
        /\ fwd.owner[i] \in Range(running) =>
              DecodeKeepK(fwd.keep[i], w) = Promise(suffix[fwd.owner[i]], w)

\* A row writes its keys and values to the slot allocated for it, and a
\* padding row to the slot nobody owns: a replay never overwrites the cache
\* of a request that left rows behind in the buffers.
NoStrayKvWrite ==
    \A i \in 1..Len(fwd.owner) :
        fwd.loc[i] = IF fwd.owner[i] = NoReq THEN Slot0 ELSE fwd.owner[i]

\* A replayed graph covers its batch, and its token count is one for which
\* the CPU experts keep buffers; an unregistered count leaves a dangling
\* pointer in the graph.
ReplayFits ==
    fwd.graph # 0 =>
        /\ Len(SelectSeq(fwd.owner, LAMBDA r : r # NoReq)) <= fwd.graph
        /\ \A r \in Range(fwd.owner) \ {NoReq} :
              Len(SelectSeq(fwd.owner, LAMBDA x : x = r)) = NumTokensPerBs
        /\ fwd.graph \in KtCaptureSizes

\* Serving never captures again: the mode of a batch a graph may run is the
\* mode it was captured with.
NeverRecaptured == hidden = CaptureMode

\* Of two requests in one batch with adaptive tiers, the faster one keeps no
\* more experts than the slower one on the same router output.
FasterKeepsFewer ==
    \A i, j \in 1..Len(fwd.owner) :
        (/\ fwd.keep[i] <= AdaptBase /\ fwd.keep[i] > NucBase
         /\ fwd.keep[j] <= fwd.keep[i] /\ fwd.keep[j] > NucBase)
        => \A w \in WeightRows : DecodeKeepK(fwd.keep[j], w) <= DecodeKeepK(fwd.keep[i], w)

=============================================================================
