----------------------------- MODULE ForwardPass -----------------------------
(* One forward pass of ModelRunner on every rank: padding for the collectives  *)
(* of the MLP under data-parallel attention, replay or eager dispatch by mode, *)
(* the attention metadata of each backend, and what the caller gets back.      *)
(* A rank is named by its attention data-parallel index; the AttnTp ranks that *)
(* share an index run the same batch.                                          *)
EXTENDS Naturals, FiniteSets, FiniteSetsExt, Functions

CONSTANTS
    DpRanks,            \* data-parallel indices 1..n
    AttnTp, AttnCp,     \* attention tensor- and context-parallel sizes
    PerReq,             \* tokens of a request in a verify pass, 1 without speculation
    GraphBs,            \* largest captured batch, 0 without graphs
    Pdmux,              \* prefill split over layers, interleaved with decode
    Streams,            \* stream groups of the decode backends under Pdmux
    Layers,             \* layers a split prefill goes through
    MaxBs,              \* bound: requests of a rank's batch
    MaxForwards         \* bound: passes per behaviour

ForwardAssumption ==
    /\ IsFiniteSet(DpRanks) /\ DpRanks = 1 .. Cardinality(DpRanks)
    /\ AttnTp \in Nat \ {0} /\ AttnCp \in Nat \ {0}
    /\ PerReq \in Nat \ {0} /\ MaxBs \in Nat /\ Layers \in Nat \ {0}
    /\ Pdmux => Cardinality(DpRanks) = 1 /\ PerReq = 1

VARIABLES
    passes,             \* forward_pass_id
    meta,               \* per rank: the pass attn_backend's metadata is for
    decodeMeta,         \* per stream: the same of decode_attn_backend_group (Pdmux)
    stream,             \* the stream group decodes run on
    split,              \* the split prefill: its pass and split_index; pass 0 when there is none
    done,               \* per rank: what its last pass did (Ran)
    ticks               \* per rank: decode steps counted for the expert cache

vars == <<passes, meta, decodeMeta, stream, split, done, ticks>>

\* ForwardMode: which modes a graph can hold, which count a generation step.
Generates == IF PerReq = 1 THEN "decode" ELSE "verify"
IsCudaGraph(mode) == mode \in {Generates, "idle"}

\* A batch of a rank: requests and tokens; an idle one has neither.
Batches == {[mode |-> Generates, bs |-> n, toks |-> n * PerReq] : n \in 1 .. MaxBs}
           \cup {[mode |-> "extend", bs |-> n, toks |-> k] : n \in 1 .. MaxBs, k \in 1 .. MaxBs + 1}
           \cup {[mode |-> "idle", bs |-> 0, toks |-> 0]}
WellFormed(b) == b.toks >= b.bs
Dp == \E d, e \in DpRanks : d # e

CeilAlign(n, k) == ((n + k - 1) \div k) * k
Aligned(bt) == [d \in DpRanks |-> CeilAlign(CeilAlign(bt[d].toks, AttnTp), AttnCp)]

\* Under "max" every rank is padded to the longest, otherwise each to its own aligned length.
Lengths(bt, pad) ==
    IF pad = "max" THEN [d \in DpRanks |-> Max(Range(Aligned(bt)))] ELSE Aligned(bt)
BufferLen(bt, pad) == FoldFunction(LAMBDA x, y : x + y, 0, Lengths(bt, pad))

ExtendInBatch(bt) == \E d \in DpRanks : bt[d].mode = "extend"

-----------------------------------------------------------------------------

\* A batch that is padded and forgets how large it was.
PreparedForgets(bt, pad, d) ==
    LET b == bt[d]
        n == Lengths(bt, pad)[d]
    IN  [mode |-> b.mode, bs |-> IF b.mode = "extend" THEN b.bs ELSE n \div PerReq, toks |-> n,
         origMode |-> b.mode, origBs |-> IF b.mode = "extend" THEN b.bs ELSE n \div PerReq]

\* prepare_mlp_sync_batch: a rank that decodes or idles next to one that extends runs as an
\* extension when all are padded alike; otherwise its batch grows to the padded length.
Prepared(bt, pad, d) ==
    LET b == bt[d]
        n == Lengths(bt, pad)[d]
    IN  IF b.mode = "extend" THEN [mode |-> "extend", bs |-> b.bs, toks |-> n, origMode |-> "extend", origBs |-> b.bs]
        ELSE IF ExtendInBatch(bt) /\ pad = "max"
        THEN [mode |-> "extend", bs |-> b.bs, toks |-> n, origMode |-> b.mode, origBs |-> b.bs]
        ELSE [mode |-> b.mode, bs |-> n \div PerReq, toks |-> n, origMode |-> b.mode, origBs |-> b.bs]

\* Without the sync nothing is padded.
AsIs(bt, d) == [mode |-> bt[d].mode, bs |-> bt[d].bs, toks |-> bt[d].toks, origMode |-> bt[d].mode, origBs |-> bt[d].bs]

\* compute_local_num_token_non_padded: how many of its share of the padded tokens are real on
\* attention-tensor-parallel rank k.
LocalTokens(k, b, padded) ==
    LET each == padded \div AttnTp
        left == IF b.toks > each * k THEN b.toks - each * k ELSE 0
    IN  Min({left, each})

\* What the ranks that share a batch have of it together.
SharedOut(b, padded) ==
    FoldFunction(LAMBDA x, y : x + y, 0, [k \in 0 .. AttnTp - 1 |-> LocalTokens(k, b, padded)])

\* The model returns a row per request, or per token when it verifies.
LogitRows(p) == IF p.mode = "verify" THEN p.toks ELSE p.bs

\* post_forward_mlp_sync_batch: mode and size are put back, the rows cut to the requests.
RowsKept(p) == LET want == IF p.origMode = "verify" THEN p.origBs * PerReq ELSE p.origBs
               IN  Min({want, LogitRows(p)})

\* The decision each rank takes alone: a mode graphs hold, a size that was captured, and under
\* data parallelism the scheduler's word that every rank can.
CanRunGraphAlone(bt, d) == IsCudaGraph(bt[d].mode) /\ bt[d].bs <= GraphBs

\* The scheduler's word: no rank extends.
CanRunDpCudaGraph(bt) == ~ ExtendInBatch(bt)

CanRunGraph(bt, d) ==
    /\ GraphBs > 0 /\ IsCudaGraph(bt[d].mode)
    /\ IF Dp THEN CanRunDpCudaGraph(bt) /\ Max({bt[e].toks : e \in DpRanks}) <= GraphBs * PerReq
       ELSE bt[d].bs <= GraphBs

-----------------------------------------------------------------------------

Init ==
    /\ passes = 0 /\ meta = [d \in DpRanks |-> 0]
    /\ decodeMeta = [s \in Streams |-> 0] /\ stream \in Streams
    /\ split = [pass |-> 0, index |-> 0]
    /\ done = [d \in DpRanks |-> [path |-> "none", buffer |-> 0, rows |-> 0, want |-> 0, bs |-> 0, used |-> 0,
                                  pass |-> 0, local |-> 0, real |-> 0]]
    /\ ticks = [d \in DpRanks |-> 0]

\* What a pass leaves behind on a rank: the path, the buffer of its collective, the rows the
\* caller gets and wants, the metadata the attention kernels read, and the real tokens shared out.
Ran(path, buffer, b, rows, bs, used, pass, local) ==
    [path |-> path, buffer |-> buffer, rows |-> rows, want |-> IF b.mode = "verify" THEN b.bs * PerReq ELSE b.bs,
     bs |-> bs, used |-> used, pass |-> pass, local |-> local, real |-> b.toks]

\* Attention metadata a pass refreshes: all but an idle rank that stays empty.
Refreshes(p) == p.mode # "idle" \/ p.bs > 0

\* The tick of the expert cache comes at the end of a pass that generated.
Ticked(bt) == [d \in DpRanks |-> ticks[d] + IF bt[d].mode = Generates THEN 1 ELSE 0]

\* A replay pads inside the graph and writes the graph's own metadata; an eager pass pads first.
\* The padding mode is the choice of dp_attention, the same on every rank; ranks that verify
\* next to one that extends are taken to be padded each to its own length.
Forward(bt, pad) ==
    /\ ~ Pdmux /\ passes < MaxForwards
    /\ \E d \in DpRanks : bt[d].mode # "idle"
    /\ (~ Dp \/ (PerReq > 1 /\ ExtendInBatch(bt))) => pad = "sum"
    /\ LET p == [d \in DpRanks |-> IF Dp THEN Prepared(bt, pad, d) ELSE AsIs(bt, d)]
           id == passes + 1
       IN  /\ meta' = [d \in DpRanks |-> IF CanRunGraph(bt, d) \/ Refreshes(p[d]) THEN id ELSE meta[d]]
           /\ done' = [d \in DpRanks |->
                  IF CanRunGraph(bt, d)
                  THEN Ran("graph", GraphBs, bt[d], IF bt[d].mode = "verify" THEN bt[d].bs * PerReq ELSE bt[d].bs,
                           bt[d].bs, id, id, bt[d].toks)
                  ELSE Ran("eager", IF Dp THEN BufferLen(bt, pad) ELSE p[d].toks, bt[d], RowsKept(p[d]), p[d].bs, meta'[d], id,
                           IF Dp THEN SharedOut(bt[d], p[d].toks) ELSE bt[d].toks)]
    /\ ticks' = Ticked(bt)
    /\ passes' = passes + 1
    /\ UNCHANGED <<decodeMeta, stream, split>>

\* Under Pdmux the split prefill refreshes attn_backend when it starts, or when told to, and
\* runs the next layers with what is there.
ForwardSplitPrefill(n, reinit) ==
    /\ Pdmux /\ passes < MaxForwards
    /\ LET new == split.pass = 0
           id == IF new THEN passes + 1 ELSE split.pass
           next == Min({split.index + n, Layers})
       IN  /\ meta' = IF split.index = 0 \/ reinit THEN [d \in DpRanks |-> id] ELSE meta
           /\ split' = IF next = Layers THEN [pass |-> 0, index |-> 0] ELSE [pass |-> id, index |-> next]
           /\ done' = [d \in DpRanks |-> Ran("split", 0, [mode |-> "extend", bs |-> 1, toks |-> 1], 1, 1, meta'[d], id, 1)]
    /\ passes' = passes + 1
    /\ UNCHANGED <<decodeMeta, stream, ticks>>

\* Under Pdmux a decode, eager or replayed, prepares and uses the backend of its stream group.
ForwardDecode(b) ==
    /\ Pdmux /\ passes < MaxForwards /\ b.mode = Generates
    /\ decodeMeta' = [decodeMeta EXCEPT ![stream] = passes + 1]
    /\ done' = [d \in DpRanks |-> Ran(IF b.bs <= GraphBs THEN "graph" ELSE "eager", 0, b, b.bs, b.bs, decodeMeta'[stream], passes + 1, b.toks)]
    /\ ticks' = [d \in DpRanks |-> ticks[d] + 1]
    /\ passes' = passes + 1
    /\ UNCHANGED <<meta, stream, split>>

UpdateDecodeAttnBackend(s) ==
    /\ Pdmux /\ s # stream /\ stream' = s
    /\ UNCHANGED <<passes, meta, decodeMeta, split, done, ticks>>

Next ==
    \/ \E bt \in [DpRanks -> {b \in Batches : WellFormed(b)}], pad \in {"max", "sum"} : Forward(bt, pad)
    \/ \E n \in 1 .. Layers, reinit \in BOOLEAN : ForwardSplitPrefill(n, reinit)
    \/ \E b \in Batches : ForwardDecode(b)
    \/ \E s \in Streams : UpdateDecodeAttnBackend(s)

Spec == Init /\ [][Next]_vars

-----------------------------------------------------------------------------

\* Safety: the ranks of a pass meet in the same collectives: all replay or none does, and the
\* gathered buffer has one length.
CollectivesMatch == \A d, e \in DpRanks :
    done[d].pass = done[e].pass => done[d].path = done[e].path /\ done[d].buffer = done[e].buffer

\* Safety: whatever padding and change of mode a pass went through, the caller gets exactly the
\* rows of its own requests.
RowsOfRequests == \A d \in DpRanks : done[d].rows = done[d].want

\* Safety: the attention kernels of a pass that has requests, padded ones included, read
\* metadata that was prepared for this very batch.
MetadataFresh == \A d \in DpRanks : done[d].bs > 0 => done[d].used = done[d].pass

\* Safety: the real tokens of a rank are shared out over its attention-tensor-parallel ranks
\* without losing or repeating one.
TokensSharedOut == \A d \in DpRanks : done[d].local = done[d].real

=============================================================================
