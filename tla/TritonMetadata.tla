---------------------------- MODULE TritonMetadata ----------------------------
(* The metadata of TritonAttnBackend: flat lists of KV slots cut up by running *)
(* totals, for the whole context and for a sliding window; the tree masks of a *)
(* verify pass; the splits of a decode; and the lists of every step of a       *)
(* draft. The totals live in buffers that eager and replayed passes share; the *)
(* lists of replayed passes live in one buffer for all captured sizes.         *)
EXTENDS Integers, FiniteSets, Sequences, SequencesExt, FiniteSetsExt

CONSTANTS
    Reqs,           \* rows of req_to_token a request can hold, numbers from 1; row 0 pads
    D,              \* speculative_num_draft_tokens
    Window,         \* sliding_window_size, 0 for none
    Steps, Branches,\* speculative_num_steps - 1, topk of the draft tree
    GraphSizes,     \* captured batch sizes
    Cores,          \* values the scaled core count may take (a float expression of the source)
    MaxSplits,      \* max_kv_splits
    Modes,          \* the modes that occur: "decode", "verify", "extend", "draft"
    MaxLen,         \* bound: tokens of a request
    MaxPasses       \* bound: passes per behaviour

TritonAssumption ==
    /\ Reqs \subseteq Nat \ {0} /\ {D, Branches, MaxSplits, MaxLen} \subseteq Nat \ {0}
    /\ Window \in Nat /\ Cores \subseteq Nat \ {0} /\ Modes \subseteq {"decode", "verify", "extend", "draft"}

VARIABLES
    passes,
    pool,           \* req_to_token: per row and position, the pass that wrote it
    lens,           \* per request its length
    indptr,         \* kv_indptr
    windptr,        \* window_kv_indptr
    gidx, gwidx,    \* cuda_graph_kv_indices and its window twin
    goff,           \* cuda_graph_window_kv_offsets
    gmask,          \* cuda_graph_custom_mask: whose mask each entry is
    last            \* forward_metadata as the kernels of the last pass see it

vars == <<passes, pool, lens, indptr, windptr, gidx, gwidx, goff, gmask, last>>

MaxBs == Max(GraphSizes \cup {Cardinality(Reqs)})
Cols == 1 .. MaxLen + Steps + 1
Cap == MaxBs * MaxLen
MaskCap == MaxBs * D * (MaxLen + D)

Cu(s) == [i \in 1 .. Len(s) + 1 |-> FoldLeft(LAMBDA a, b : a + b, 0, SubSeq(s, 1, i - 1))]
Overwrite(old, new) == [i \in DOMAIN old |-> IF i <= Len(new) THEN new[i] ELSE old[i]]
SlotOf(r, c) == <<r, pool'[r][c]>>
Cdiv(a, b) == (a + b - 1) \div b

\* create_flashinfer_kv_indices_triton: per request n[i] entries from position start[i].
Listed(reqs, n, start) == FlattenSeq([i \in DOMAIN reqs |-> [j \in 1 .. n[i] |-> SlotOf(reqs[i], start[i] + j)]])
Zeros(s) == [i \in DOMAIN s |-> 0]

\* update_sliding_window_buffer: at most Window entries, the last ones.
WinLens(n) == [i \in DOMAIN n |-> Min({n[i], Window})]

WinStart(n) == [i \in DOMAIN n |-> n[i] - WinLens(n)[i]]

-----------------------------------------------------------------------------
\* get_num_kv_splits_triton.

Splits(ns, cores) ==
    LET mx  == Max(Range(ns))
        mn0 == Min(Range(ns))
        mn  == IF mx * 8 < mn0 * 10 THEN mx ELSE mn0
        c1  == Cdiv(mx, Min({Cdiv(mx, mn), MaxSplits}))
        c2  == Cdiv(mx, Min({Cdiv(cores, Len(ns)), MaxSplits}))
    IN  [i \in DOMAIN ns |-> Max({Cdiv(ns[i], c1), Cdiv(ns[i], c2)})]

-----------------------------------------------------------------------------
\* Tree masks of a verify pass: D rows over prefix and draft tokens, request after request.

MaskLens(n) == [i \in DOMAIN n |-> D * (n[i] + D)]

\* spec_info.custom_mask: an entry is named by its request and pass.
SpecMask(b) == FlattenSeq([i \in DOMAIN b.reqs |-> [j \in 1 .. D * (b.len[i] + D) |-> <<b.reqs[i], passes'>>]])

Padded(b, bs) == LET ones == [i \in 1 .. bs - Len(b.reqs) |-> 1]
                 IN  [reqs |-> b.reqs \o Zeros(ones), len |-> b.len \o ones, ext |-> b.ext \o ones]

\* The keys that are read through the list: everything in decode, the prefix of an extension.
\* seq_lens of a verify pass are without the draft tokens.
Keys(mode, b) == IF mode = "extend" THEN [i \in DOMAIN b.len |-> b.len[i] - b.ext[i]] ELSE b.len
Queries(mode, b) == CASE mode = "verify" -> [i \in DOMAIN b.len |-> D] [] mode = "extend" -> b.ext [] OTHER -> [i \in DOMAIN b.len |-> 1]

\* _forward_extend_unified: window_start_pos. A verify pass has no extend_prefix_lens and infers
\* them from seq_lens less the draft tokens.
WindowStart(mode, b) ==
    [i \in DOMAIN b.len |->
        IF mode = "verify" THEN b.len[i] - D - WinLens(Keys(mode, b))[i]
        ELSE Keys(mode, b)[i] - WinLens(Keys(mode, b))[i]]

-----------------------------------------------------------------------------

Init ==
    /\ passes = 0 /\ pool = [r \in Reqs \cup {0} |-> [c \in Cols |-> 0]] /\ lens = [r \in Reqs |-> 0]
    /\ indptr = [i \in 1 .. MaxBs + 1 |-> i - 1] /\ windptr = [i \in 1 .. MaxBs + 1 |-> 0]
    /\ gidx = [i \in 1 .. Cap |-> <<0, 0>>] /\ gwidx = [i \in 1 .. Cap |-> <<0, 0>>]
    /\ goff = [i \in 1 .. MaxBs |-> 0] /\ gmask = [i \in 1 .. MaskCap |-> <<0, 0>>]
    /\ last = [mode |-> "none"]

\* Before a pass the scheduler continues or replaces requests and writes the slots of new tokens.
Batch(b) ==
    /\ pool' = [r \in DOMAIN pool |->
                  IF r \in ToSet(b.reqs)
                  THEN LET kept == b.keep[SelectInSeq(b.reqs, LAMBDA x : x = r)]
                       IN  [c \in Cols |-> IF c <= kept THEN pool[r][c] ELSE passes + 1]
                  ELSE pool[r]]
    /\ lens' = [r \in Reqs |-> IF r \in ToSet(b.reqs) THEN b.len[SelectInSeq(b.reqs, LAMBDA x : x = r)] ELSE lens[r]]
    /\ passes < MaxPasses /\ passes' = passes + 1
\* The tokens a request of the batch keeps: all it had, or none for a new request in its row.
Kept(o, n) == {k \in [DOMAIN o -> {0} \cup Range(lens)] : \A i \in DOMAIN o : k[i] \in {0, lens[o[i]]} /\ k[i] <= n[i]}

\* The query tokens of the batch: what a prefill adds, else one each.
Added(mode, n, k) ==
    IF mode # "extend" THEN {[i \in DOMAIN n |-> 1]}
    ELSE {x \in {[i \in DOMAIN n |-> n[i] - k[i]]} : \A i \in DOMAIN n : x[i] > 0}
Orders == {SetToSeq(S) : S \in SUBSET Reqs \ {{}}}
BatchesOf(mode, o, n) ==
    UNION {{[reqs |-> o, len |-> n, ext |-> x, keep |-> k] : x \in Added(mode, n, k)} : k \in Kept(o, n)}
Batches(mode) == UNION {UNION {BatchesOf(mode, o, n) : n \in [DOMAIN o -> 1 .. MaxLen]} : o \in Orders}
Bare(b) == [reqs |-> b.reqs, len |-> b.len, ext |-> b.ext]
Covered(b) == {bs \in GraphSizes : bs >= Len(b.reqs)}

\* init_forward_metadata: the totals into the shared buffers, the lists into new ones.
EagerPass(mode, cores) ==
    \E b \in Batches(mode) :
        LET n == Keys(mode, b)
        IN  /\ Batch(b)
            /\ indptr' = Overwrite(indptr, Cu(n))
            /\ windptr' = IF Window = 0 THEN windptr ELSE Overwrite(windptr, Cu(WinLens(n)))
            /\ last' = [mode |-> mode, b |-> Bare(b), path |-> "eager", idx |-> Listed(b.reqs, n, Zeros(n)),
                        widx |-> IF Window = 0 THEN <<>> ELSE Listed(b.reqs, WinLens(n), WinStart(n)),
                        off |-> IF Window = 0 THEN Zeros(n) ELSE WinStart(n), qo |-> Cu(Queries(mode, b)),
                        splits |-> IF mode = "decode" THEN Splits(b.len, cores) ELSE <<>>,
                        mask |-> IF mode = "verify" THEN SpecMask(b) ELSE <<>>, maskIndptr |-> Cu(MaskLens(b.len))]
            /\ UNCHANGED <<gidx, gwidx, goff, gmask>>

\* init_forward_metadata_replay_cuda_graph, decode and verify.
ReplayPass(mode, cores) ==
    \E b \in Batches(mode) : LET p == Padded(b, Min(Covered(b))) IN
        /\ Covered(b) # {} /\ Batch(b)
        /\ indptr' = Overwrite(indptr, Cu(p.len))
        /\ gidx' = Overwrite(gidx, Listed(p.reqs, p.len, Zeros(p.len)))
        /\ windptr' = IF Window = 0 THEN windptr ELSE Overwrite(windptr, Cu(WinLens(p.len)))
        /\ gwidx' = IF Window = 0 THEN gwidx ELSE Overwrite(gwidx, Listed(p.reqs, WinLens(p.len), WinStart(p.len)))
        /\ goff' = IF Window = 0 \/ mode # "verify" THEN goff ELSE Overwrite(goff, WinStart(p.len))
        /\ gmask' = IF mode = "verify" THEN Overwrite(gmask, SpecMask(b)) ELSE gmask
        /\ last' = [mode |-> mode, b |-> Bare(b), path |-> "graph", idx |-> gidx', widx |-> gwidx',
                    off |-> goff', qo |-> Cu(Queries(mode, p)), splits |-> IF mode = "decode" THEN Splits(p.len, cores) ELSE <<>>,
                    mask |-> IF mode = "verify" THEN gmask' ELSE <<>>, maskIndptr |-> Cu(MaskLens(p.len))]

\* generate_draft_decode_kv_indices: per branch of a request the prompt, then its own tokens.
BranchLists(i, b) ==
    FlattenSeq([q \in 1 .. Len(b.reqs) * Branches |->
        LET k == (q - 1) \div Branches + 1
        IN  [c \in 1 .. b.len[k] + i + 1 |-> IF c <= b.len[k] THEN SlotOf(b.reqs[k], c) ELSE <<b.reqs[k], "draft", (q - 1) % Branches, c>>]])
BranchTotals(i, b) == Cu([q \in 1 .. Len(b.reqs) * Branches |-> b.len[(q - 1) \div Branches + 1] + i + 1])

\* TritonMultiStepDraftBackend.common_template: the cut of a step's list.
Cut(i, b) == FoldLeft(LAMBDA x, y : x + y, 0, b.len) * Branches + Len(b.reqs) * Branches * (i + 1)

\* A draft: the lists of every step at once, cut to what the step reads.
DraftPass ==
    \E b \in Batches("draft") :
        /\ Batch(b)
        /\ last' = [mode |-> "draft", b |-> Bare(b), path |-> "eager",
                    steps |-> [i \in 1 .. Steps |-> [idx |-> SubSeq(BranchLists(i - 1, b), 1, Cut(i - 1, b)), tot |-> BranchTotals(i - 1, b)]]]
        /\ UNCHANGED <<indptr, windptr, gidx, gwidx, goff, gmask>>

Next == \/ \E mode \in Modes \ {"draft"}, cores \in Cores : EagerPass(mode, cores)
        \/ \E mode \in Modes \cap {"decode", "verify"}, cores \in Cores : ReplayPass(mode, cores)
        \/ "draft" \in Modes /\ DraftPass
Spec == Init /\ [][Next]_vars

-----------------------------------------------------------------------------
Plain == last.mode \in {"decode", "verify", "extend"}

\* Cut up by the totals, the list of the last pass names for each request the slots of its keys in
\* order, and the window list those of its last Window keys: no slot of another request, none that
\* the request held before, whichever passes used the buffers earlier.
KeysOfTheRequest ==
    Plain =>
        \A i \in DOMAIN last.b.reqs :
            LET r == last.b.reqs[i]
                n == Keys(last.mode, last.b)[i]
                w == Min({n, Window})
            IN  /\ indptr[i + 1] - indptr[i] = n
                /\ \A c \in 1 .. n : last.idx[indptr[i] + c] = <<r, pool[r][c]>>
                /\ Window > 0 =>
                     /\ windptr[i + 1] - windptr[i] = w
                     /\ \A c \in 1 .. w : last.widx[windptr[i] + c] = <<r, pool[r][n - w + c]>>
                     /\ last.mode # "decode" => last.off[i] = n - w

\* A verify pass finds at the place of a request its own mask of this pass, in full.
MaskOfTheRequest ==
    last.mode = "verify" =>
        \A i \in DOMAIN last.b.reqs :
            /\ last.maskIndptr[i + 1] - last.maskIndptr[i] = D * (last.b.len[i] + D)
            /\ \A e \in last.maskIndptr[i] + 1 .. last.maskIndptr[i + 1] : last.mask[e] = <<last.b.reqs[i], passes>>

\* A decode cuts every sequence into at least one piece and never into more than the partial
\* results have room for.
SplitsFit ==
    last.mode = "decode" => \A i \in DOMAIN last.splits : last.splits[i] \in 1 .. MaxSplits

\* The list of a draft step is cut exactly where it ends, and each branch of the tree reads the
\* prompt and its own tokens.
BranchesSeeTheirTokens ==
    last.mode = "draft" =>
        \A s \in 1 .. Steps : \A q \in 1 .. Len(last.b.reqs) * Branches :
            LET st == last.steps[s]
                k  == (q - 1) \div Branches + 1
            IN  /\ Len(st.idx) = Last(st.tot) /\ st.tot[q + 1] - st.tot[q] = last.b.len[k] + s
                /\ \A c \in 1 .. last.b.len[k] + s :
                      st.idx[st.tot[q] + c] = IF c <= last.b.len[k] THEN <<last.b.reqs[k], pool[last.b.reqs[k]][c]>>
                                              ELSE <<last.b.reqs[k], "draft", (q - 1) % Branches, c>>

=============================================================================
