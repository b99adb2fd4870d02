----------------------------- MODULE NsaMetadata -----------------------------
(* The metadata of NativeSparseAttnBackend: lengths, page tables and key       *)
(* ranges of a batch, built afresh for an eager pass and copied into the       *)
(* buffers of a captured graph for a replayed one, and the chain of backends   *)
(* that the steps of a speculative draft use.                                  *)
(* A slot of the KV pool is named by its request and the pass that wrote its   *)
(* req_to_token entry; the column is its position.                             *)
EXTENDS Naturals, FiniteSets, Sequences, SequencesExt, FiniteSetsExt

CONSTANTS
    Reqs,           \* rows of req_to_token a request can hold, numbers from 1; row 0 pads
    D,              \* speculative_num_draft_tokens
    Steps,          \* speculative_num_steps - 1, the draft backends
    Topk,           \* nsa_index_topk
    PageSize,       \* real_page_size
    GraphSizes,     \* captured batch sizes
    CpSize,         \* context-parallel ranks of a round-robin split prefill, 1 for none
    GraphModes,     \* what the captured graphs may be of: "decode", "verify", "draft_extend", "draft"
    MaxLen,         \* bound: tokens of a request
    MaxPasses       \* bound: passes per behaviour

NsaAssumption ==
    /\ Reqs \subseteq Nat \ {0} /\ D \in Nat \ {0} /\ Steps \in Nat \ {0} /\ Topk \in Nat \ {0}
    /\ PageSize \in Nat \ {0} /\ CpSize \in Nat \ {0} /\ MaxLen \in Nat \ {0}
    /\ GraphModes \subseteq {"decode", "verify", "draft_extend", "draft"}

VARIABLES
    gmode,          \* the mode the graphs of this backend were captured in
    passes,         \* passes so far
    pool,           \* req_to_token: per row and position, the pass that wrote it
    lens,           \* per request its length, 0 when it has none
    backends,       \* per draft step: the captured buffers, the shared page table, the schedule
    last            \* the last pass: mode, batch, path and, when eager, its metadata

vars == <<gmode, passes, pool, lens, backends, last>>

Cols == 1 .. MaxLen + D + Steps
StepIds == 0 .. Steps - 1
Rows == 1 .. Max(GraphSizes) * (IF gmode \in {"verify", "draft_extend"} THEN D ELSE 1)

\* compute_cu_seqlens: running totals with a leading zero.
Cu(s) == [i \in 1 .. Len(s) + 1 |-> FoldLeft(LAMBDA a, b : a + b, 0, SubSeq(s, 1, i - 1))]

\* torch.repeat_interleave of the rows by the query lengths.
Repeat(xs, q) == FlattenSeq([i \in DOMAIN xs |-> [j \in 1 .. q[i] |-> xs[i]]])

\* seqlens_expanded: kv_len - qo_len + 1 .. kv_len for the query tokens of each request.
Expand(q, kv) == FlattenSeq([i \in DOMAIN q |-> [j \in 1 .. q[i] |-> kv[i] - q[i] + j]])

\* compute_nsa_seqlens: the sparse kernels read at most Topk keys.
Clip(s) == [i \in DOMAIN s |-> Min({s[i], Topk})]

\* Query tokens per request and keys per request, by mode.
Qo(mode, b) == CASE mode = "verify" -> [i \in DOMAIN b.reqs |-> D]
                 [] mode \in {"decode", "draft"} -> [i \in DOMAIN b.reqs |-> 1]
                 [] OTHER -> b.ext
Kv(mode, b) == [i \in DOMAIN b.reqs |-> b.len[i] + IF mode = "verify" THEN D ELSE 0]
SlotOf(r, c) == <<r, pool'[r][c]>>

-----------------------------------------------------------------------------
\* Prefill: key ranges of the indexer, and the round-robin split over context-parallel ranks.

\* nsa_cp_round_robin_split_data: every CpSize-th token from the rank's own.
Mine(rank, s) == IF CpSize = 1 THEN s
                 ELSE [k \in 1 .. Cardinality({i \in DOMAIN s : (i - 1) % CpSize = rank})
                        |-> s[(k - 1) * CpSize + rank + 1]]

\* nsa_cp_round_robin_split_q_seqs: the requests the rank has a token of, and how many.
MyRequests(rank, b) ==
    LET owner == Mine(rank, Repeat([i \in DOMAIN b.ext |-> i], b.ext))
        here  == SetToSortSeq(ToSet(owner), <)
    IN  [idx |-> here, q |-> [k \in DOMAIN here |-> Cardinality({t \in DOMAIN owner : owner[t] = here[k]})]]

\* _cal_indexer_k_start_end: offsets advance over the selected requests only.
KeyRanges(rank, b) ==
    LET sel   == MyRequests(rank, b).idx
        k0(i) == FoldLeft(LAMBDA a, j : IF j < i THEN a + b.len[j] ELSE a, 0, sel)
        bi(i) == IF Contains(sel, i) THEN SelectInSeq(sel, LAMBDA j : j = i) ELSE i
        ks    == Repeat([i \in DOMAIN b.ext |-> k0(i)], b.ext)
        exp   == Expand(b.ext, b.len)
    IN  [ks |-> Mine(rank, ks), ke |-> Mine(rank, [t \in DOMAIN ks |-> ks[t] + exp[t]]),
         tb |-> Mine(rank, Repeat([i \in DOMAIN b.ext |-> bi(i)], b.ext))]

\* init_forward_metadata: the extend branch of a rank, and the branches of the other modes.
Prefill(rank, b) ==
    LET sel  == MyRequests(rank, b)
        kv   == [k \in DOMAIN sel.idx |-> b.len[sel.idx[k]]]
        pre  == CpSize > 1 \/ \E i \in DOMAIN b.len : b.len[i] > b.ext[i]
    IN  [reqs |-> [k \in DOMAIN sel.idx |-> b.reqs[sel.idx[k]]], cache |-> kv, cuK |-> Cu(kv),
         cuQ |-> IF pre THEN Cu(sel.q) ELSE Cu(kv),
         expanded |-> Mine(rank, Expand(b.ext, b.len)),
         offset |-> Repeat(SubSeq(Cu(kv), 1, Len(kv)), sel.q),
         ranges |-> KeyRanges(rank, b)]

Eager(mode, b) ==
    LET ex == Expand(Qo(mode, b), Kv(mode, b))
    IN  [cache |-> Kv(mode, b), cuK |-> Cu(Kv(mode, b)), expanded |-> ex, nsa |-> Clip(ex), nsaCu |-> Cu(Clip(ex)),
         rows |-> Repeat(b.reqs, Qo(mode, b))]

-----------------------------------------------------------------------------
\* Replay: the buffers a graph was captured with are written in place.

Overwrite(old, new) == [i \in DOMAIN old |-> IF i <= Len(new) THEN new[i] ELSE old[i]]

\* A batch padded to the captured size: pool row 0, the fill length 1.
Padded(b, bs) == LET ones == [i \in 1 .. bs - Len(b.reqs) |-> 1]
                 IN  [reqs |-> b.reqs \o [i \in DOMAIN ones |-> 0], len |-> b.len \o ones, ext |-> b.ext \o ones]

\* Columns counted without the draft tokens.
MaxKBare(mode, p) == Max(Range(p.len))

\* max_seqlen_k: the columns that are copied.
MaxK(mode, p) == Max(Range(Kv(mode, p)))

\* The captured buffers of a size, and page_table rows :rows, columns :max_seqlen_k.
\* In decode seqlens_expanded is cache_seqlens itself.
WrittenGraph(g, mode, p) ==
    LET e == Eager(mode, p)
    IN  [g EXCEPT !.cache = e.cache, !.cuK = e.cuK, !.expanded = Overwrite(@, e.expanded),
                  !.nsa = Overwrite(@, e.nsa), !.nsaCu = Overwrite(@, e.nsaCu),
                  !.real = [r \in DOMAIN @ |-> [c \in DOMAIN @[r] |->
                              IF r <= Len(e.rows) /\ c <= MaxK(mode, p) THEN SlotOf(e.rows[r], c) ELSE @[r][c]]]]
WrittenTable(t, mode, p) ==
    LET e == Eager(mode, p)
    IN  [r \in DOMAIN t |-> [c \in Cols |->
            IF r <= Len(e.rows) /\ c <= MaxK(mode, p) THEN SlotOf(e.rows[r], c) ELSE t[r][c]]]

\* init_forward_metadata_replay_cuda_graph.
Replayed(be, mode, b, bs) ==
    LET p == Padded(b, bs)
    IN  [be EXCEPT !.graphs[bs] = WrittenGraph(@, mode, p), !.table = WrittenTable(@, mode, p),
                   !.sched = Eager(mode, p).nsa]

\* init_forward_metadata_replay_cuda_graph_from_precomputed: a fused copy that fails half way is
\* followed by every single copy.
Copied(be, b, bs, failed) ==
    Replayed(IF failed THEN [be EXCEPT !.graphs[bs].cache = Eager("decode", Padded(b, bs)).cache] ELSE be, "decode", b, bs)

\* _step_seq_lens.
StepBatch(i, b) == [b EXCEPT !.len = [k \in DOMAIN b.len |-> b.len[k] + i]]

\* _step_seq_lens of the eager path: init_forward_metadata hands the same batch to every step.
EagerStepBatch(i, b) == b

-----------------------------------------------------------------------------

\* init_cuda_graph_state and the captures: sizes share the page table, slots of row 0, fill lengths.
Captured(bs) ==
    LET n == bs * (IF gmode \in {"verify", "draft_extend"} THEN D ELSE 1)
        one == [i \in 1 .. n |-> 1]
    IN  [cache |-> [i \in 1 .. bs |-> 1], cuK |-> Cu([i \in 1 .. bs |-> 1]), expanded |-> one, nsa |-> one,
         nsaCu |-> Cu(one), real |-> [r \in 1 .. n |-> [c \in {k \in Cols : (k - 1) % PageSize = 0} |-> <<0, 0>>]]]

NoBatch == [reqs |-> <<>>, len |-> <<>>, ext |-> <<>>]

Init ==
    /\ gmode \in GraphModes
    /\ passes = 0
    /\ pool = [r \in Reqs \cup {0} |-> [c \in Cols |-> 0]]
    /\ lens = [r \in Reqs |-> 0]
    /\ backends = [i \in StepIds |-> [graphs |-> [bs \in GraphSizes |-> Captured(bs)],
                                       table |-> [r \in Rows |-> [c \in Cols |-> <<0, 0>>]], sched |-> <<>>]]
    /\ last = [mode |-> "none", b |-> NoBatch, path |-> "none", steps |-> [i \in StepIds |-> Eager("decode", NoBatch)],
               prefill |-> <<>>]

\* Before a pass the scheduler continues or replaces requests and gives each new token a slot;
\* the slots of tokens still to be drafted are given with them.
Batch(b) ==
    /\ pool' = [r \in DOMAIN pool |->
                  IF r \in ToSet(b.reqs)
                  THEN LET kept == b.keep[SelectInSeq(b.reqs, LAMBDA x : x = r)]
                       IN  [c \in Cols |-> IF c <= kept THEN pool[r][c] ELSE passes + 1]
                  ELSE pool[r]]
    /\ lens' = [r \in Reqs |-> IF r \in ToSet(b.reqs) THEN b.len[SelectInSeq(b.reqs, LAMBDA x : x = r)] ELSE lens[r]]
    /\ passes < MaxPasses /\ passes' = passes + 1 /\ UNCHANGED gmode

Orders == {SetToSeq(S) : S \in SUBSET Reqs \ {{}}}
\* The tokens a request of the batch keeps: all it had, or none for a new request in its row.
Kept(o, n) == {k \in [DOMAIN o -> {0} \cup Range(lens)] : \A i \in DOMAIN o : k[i] \in {0, lens[o[i]]} /\ k[i] <= n[i]}

\* The query tokens of the batch: what a prefill adds, what a draft extension accepted, else one each.
Added(mode, n, k) ==
    CASE mode = "extend" -> {x \in {[i \in DOMAIN n |-> n[i] - k[i]]} : \A i \in DOMAIN n : x[i] > 0}
      [] mode = "draft_extend" -> {x \in [DOMAIN n -> 1 .. D] : \A i \in DOMAIN n : x[i] <= n[i]}
      [] OTHER -> {[i \in DOMAIN n |-> 1]}
BatchesOf(mode, o, n) ==
    UNION {{[reqs |-> o, len |-> n, ext |-> x, keep |-> k] : x \in Added(mode, n, k)} : k \in Kept(o, n)}
Batches(mode) == UNION {UNION {BatchesOf(mode, o, n) : n \in [DOMAIN o -> 1 .. MaxLen]} : o \in Orders}
Bare(b) == [reqs |-> b.reqs, len |-> b.len, ext |-> b.ext]
Covered(b) == {bs \in GraphSizes : bs >= Len(b.reqs)}

\* A batch the graphs cover is replayed in the smallest captured size.
Replay ==
    /\ gmode # "draft"
    /\ \E b \in Batches(gmode) :
        /\ Covered(b) # {} /\ Batch(b)
        /\ backends' = [backends EXCEPT ![0] = Replayed(@, gmode, Bare(b), Min(Covered(b)))]
        /\ last' = [last EXCEPT !.mode = gmode, !.b = Bare(b), !.path = "graph"]

\* The multi-step backend stages every step of the draft before the one graph runs.
DraftReplay ==
    /\ gmode = "draft"
    /\ \E b \in Batches("draft"), failed \in BOOLEAN :
        /\ Covered(b) # {} /\ Batch(b)
        /\ backends' = [i \in StepIds |-> Copied(backends[i], StepBatch(i, Bare(b)), Min(Covered(b)), failed)]
        /\ last' = [last EXCEPT !.mode = "draft", !.b = Bare(b), !.path = "graph"]

\* A draft the graphs do not cover.
DraftEager ==
    /\ gmode = "draft"
    /\ \E b \in Batches("draft") :
        /\ Covered(b) = {} /\ Batch(b)
        /\ last' = [last EXCEPT !.mode = "draft", !.b = Bare(b), !.path = "eager",
                                 !.steps = [i \in StepIds |-> Eager("decode", EagerStepBatch(i, Bare(b)))]]
        /\ UNCHANGED backends

\* A prefill is never replayed.
Extend ==
    \E b \in Batches("extend") :
        /\ Batch(b)
        /\ last' = [last EXCEPT !.mode = "extend", !.b = Bare(b), !.path = "eager",
                                 !.prefill = [k \in 1 .. CpSize |-> Prefill(k - 1, Bare(b))]]
        /\ UNCHANGED backends

Next == Replay \/ DraftReplay \/ DraftEager \/ Extend
Spec == Init /\ [][Next]_vars

-----------------------------------------------------------------------------

\* What a kernel of the last pass reads through backend i for batch b.
Shows(i, mode, b) ==
    LET g == backends[i].graphs[Min(Covered(b))]
        e == Eager(mode, b)
    IN  /\ SubSeq(g.cache, 1, Len(e.cache)) = e.cache /\ SubSeq(g.cuK, 1, Len(e.cuK)) = e.cuK
        /\ SubSeq(g.expanded, 1, Len(e.expanded)) = e.expanded
        /\ SubSeq(g.nsa, 1, Len(e.nsa)) = e.nsa /\ SubSeq(g.nsaCu, 1, Len(e.nsaCu)) = e.nsaCu
        /\ SubSeq(backends[i].sched, 1, Len(e.nsa)) = e.nsa
        /\ \A t \in DOMAIN e.rows : \A c \in 1 .. e.expanded[t] :
              /\ backends[i].table[t][c] = <<e.rows[t], pool[e.rows[t]][c]>>
              /\ (c - 1) % PageSize = 0 => g.real[t][c] = <<e.rows[t], pool[e.rows[t]][c]>>

\* The batch with i drafted tokens more.
Advanced(i, b) == [b EXCEPT !.len = [k \in DOMAIN b.len |-> b.len[k] + i]]

\* A replayed pass reads through the captured buffers what an eager pass of the same batch would
\* have been given: lengths, running totals, and the slot of every key of every query token,
\* whatever sizes, requests and lengths the buffers held before.
ReplayReadsThisBatch ==
    last.path = "graph" /\ last.mode # "draft" => Shows(0, last.mode, last.b)

\* Step i of a replayed draft sees the prompt and the i tokens drafted before it, also when the
\* fused copy failed half way.
DraftSeesDrafts ==
    last.path = "graph" /\ last.mode = "draft" => \A i \in StepIds : Shows(i, "decode", Advanced(i, last.b))

\* Every query token of a prefill is on exactly one rank, and there the indexer's key range, the
\* batch index and the offset into the ragged keys are those of its own request and position.
KeyRangesRight ==
    last.mode = "extend" =>
        LET all == FlattenSeq([i \in DOMAIN last.b.reqs |-> [j \in 1 .. last.b.ext[i] |-> <<i, last.b.len[i] - last.b.ext[i] + j>>]])
        IN  \A k \in 1 .. CpSize :
              LET m    == last.prefill[k]
                  mine == Mine(k - 1, all)
              IN  /\ Len(m.ranges.ks) = Len(mine) /\ Len(m.offset) = Len(mine) /\ Len(m.expanded) = Len(mine)
                  /\ Last(m.cuQ) = Len(mine)
                  /\ \A t \in DOMAIN mine :
                        LET row == m.ranges.tb[t]
                        IN  /\ row \in DOMAIN m.reqs /\ m.reqs[row] = last.b.reqs[mine[t][1]]
                            /\ m.ranges.ks[t] = m.cuK[row] /\ m.ranges.ke[t] = m.cuK[row] + mine[t][2]
                            /\ m.offset[t] = m.cuK[row] /\ m.expanded[t] = mine[t][2]
                            /\ m.cuQ[row] < t /\ t <= m.cuQ[row + 1]
=============================================================================
