--------------------------- MODULE AttentionStack ---------------------------
(* The attention of one forward pass, layer by layer: which cached tokens a    *)
(* layer attends to, which layers select them with an indexer of their own and *)
(* which reuse the selection of an earlier layer (IndexShare), through one     *)
(* module-level slot, in eager passes, captured graphs, the draft layer and    *)
(* passes split in two overlapping halves.                                     *)
EXTENDS Naturals, Sequences, FiniteSets, FiniteSetsExt

CONSTANTS
    NumLayers,              \* layers of the model, numbered from 0
    StartLayer,             \* first layer of this pipeline stage
    Archs,                  \* the models looked at: records of ArchFields
    FirstKDense,            \* layers before the first MoE layer
    Reqs,
    MaxLen,                 \* bound: tokens of a request
    TopK,                   \* tokens the indexer selects; up to here dense attention is the same
    None

ArchFields ==
    {"pattern", "freq", "offset",   \* what the checkpoint's configuration says of the indexers
     "nsa",                 \* sparse attention
     "tbo"}                 \* two-batch overlap may split a pass

AllMethods == {"MLA", "MHA", "MHA_ONE_SHOT", "MHA_CHUNKED_KV"}

AttentionAssumption ==
    /\ NumLayers \in Nat \ {0} /\ StartLayer \in 0 .. NumLayers - 1 /\ FirstKDense \in Nat
    /\ MaxLen \in Nat \ {0} /\ TopK \in Nat /\ None \notin Nat
    /\ None \notin [method : AllMethods, replay : BOOLEAN, split : BOOLEAN]
    /\ None \notin [layer : 0 .. NumLayers, reqs : SUBSET Reqs, now : BOOLEAN, captured : BOOLEAN]
    /\ \A a \in Archs : DOMAIN a = ArchFields /\ a.nsa \in BOOLEAN /\ a.tbo \in BOOLEAN

VARIABLES
    arch,
    len,                    \* per request: tokens cached by earlier passes
    new,                    \* per request: tokens of this pass
    latent, keys,           \* per layer and request: positions with latent KV, with index keys
    slot,                   \* _nsa_shared_topk_indices: a selection, of a pass or of the captured graph
    graph,                  \* per layer: what the captured graph last selected there
    wired,                  \* per layer: the layer whose selection the captured graph hands it
    pass,                   \* [method, replay] of the pass at hand, or None
    halves,                 \* the sub-batches in flight, as sets of requests
    at,                     \* per sub-batch: its next layer
    prefixOnly,             \* attn_attend_prefix_cache
    zeros, zeroSize,        \* words taken from the pass's zero buffer, and its size
    last                    \* what the last layer did: [layer, reqs, indices, attended]

vars == <<arch, len, new, latent, keys, slot, graph, wired, pass, halves, at, prefixOnly, zeros, zeroSize, last>>

Layers == StartLayer .. NumLayers - 1

-----------------------------------------------------------------------------
\* The layers that own an indexer.

Uniform(a, n) == a.freq > 1 /\ a.pattern = <<>> /\ n < NumLayers

\* nsa_layer_has_own_indexer: an explicit pattern, else every freq-th layer past the offset; what
\* lies past the pattern, the draft layer, always owns one.
HasIndexer(a, n) ==
    IF a.pattern # <<>> THEN n >= Len(a.pattern) \/ a.pattern[n + 1] # "S"
    ELSE Uniform(a, n) => n < a.offset \/ (n - a.offset) % a.freq = a.freq - 1
Owns(n) == HasIndexer(arch, n)

Selection(n, R) == [layer |-> n, reqs |-> R, now |-> TRUE, captured |-> FALSE]
OfGraph(n) == IF n = None THEN None ELSE [layer |-> n, reqs |-> {}, now |-> FALSE, captured |-> TRUE]
Stale(s) == IF s = None THEN None ELSE [s EXCEPT !.now = FALSE]

\* What the slot refers to: tensors of the graph are rewritten by every replay.
Content(s) == IF s # None /\ s.captured THEN graph[s.layer] ELSE s

\* The layer whose selection is in the slot after the layers up to n ran in order.
Source(n) == LET F == {k \in Layers : k <= n /\ Owns(k)} IN IF F = {} THEN None ELSE Max(F)

-----------------------------------------------------------------------------

\* The server has captured its decode graph before the first request.
Init ==
    /\ arch \in Archs
    /\ len = [r \in Reqs |-> 0] /\ new = [r \in Reqs |-> 0]
    /\ latent = [n \in Layers |-> [r \in Reqs |-> {}]] /\ keys = latent
    /\ graph = [n \in Layers |-> None] /\ wired = [n \in Layers |-> Source(n)]
    /\ slot = IF arch.nsa THEN OfGraph(Source(NumLayers - 1)) ELSE None
    /\ pass = None /\ halves = <<>> /\ at = <<>> /\ prefixOnly = FALSE
    /\ zeros = 0 /\ zeroSize = 0 /\ last = None

Total(r) == len[r] + new[r]

\* dispatch_attn_forward_method: a decode absorbs; an extend may use dense heads where the backend
\* allows it.
Methods(decode, fresh, P) ==
    IF decode THEN {"MLA"}
    ELSE IF arch.nsa THEN {"MLA"} \cup IF \A r \in P : len[r] + fresh[r] <= TopK THEN {"MHA_ONE_SHOT"} ELSE {}
    ELSE {"MLA", "MHA_ONE_SHOT", "MHA_CHUNKED_KV"} \cup IF \A r \in P : len[r] = 0 THEN {"MHA"} ELSE {}

\* Room for both halves of every layer, twice that when the batch is split.
ZeroSize(split) == 2 * (NumLayers - StartLayer) * (IF split THEN 2 ELSE 1)

\* forward of the model: the batch runs as one up to the first MoE layer of a split pass.
BeginPass(fresh, decode, replay, split) ==
    LET P == {r \in Reqs : fresh[r] > 0} IN
    /\ pass = None /\ P # {} /\ \A r \in P : len[r] + fresh[r] <= MaxLen
    /\ decode => \A r \in P : len[r] > 0 /\ fresh[r] = 1
    /\ replay => decode /\ ~ split
    /\ split => arch.tbo /\ Cardinality(P) > 1
    /\ \E method \in Methods(decode, fresh, P) : pass' = [method |-> method, replay |-> replay, split |-> split]
    /\ new' = fresh /\ halves' = <<P>> /\ at' = <<StartLayer>>
    /\ slot' = Stale(slot)
    /\ graph' = [n \in Layers |-> Stale(graph[n])]
    /\ prefixOnly' = FALSE /\ zeros' = 0 /\ zeroSize' = ZeroSize(split) /\ last' = None
    /\ UNCHANGED <<arch, len, latent, keys, wired>>

\* Where a split pass leaves the common part; with no dense layer in this stage there is none, and
\* a stage that starts at the first MoE layer is not split at all.
SplitAt == IF FirstKDense > StartLayer /\ FirstKDense < NumLayers THEN FirstKDense
           ELSE IF FirstKDense < StartLayer THEN StartLayer ELSE NumLayers

Split ==
    /\ pass # None /\ pass.split /\ Len(halves) = 1 /\ at[1] = SplitAt /\ SplitAt < NumLayers
    /\ \E r \in halves[1] : halves' = <<{r}, halves[1] \ {r}>>
    /\ at' = <<at[1], at[1]>>
    /\ UNCHANGED <<arch, len, new, latent, keys, slot, graph, wired, pass, prefixOnly, zeros, zeroSize, last>>

NewOf(r) == len[r] + 1 .. Total(r)

\* Keys of the tokens of this pass, in the layers that own an indexer, dense heads included.
KeysAfter(n, R) ==
    [r \in Reqs |-> keys[n][r] \cup IF r \in R /\ arch.nsa /\ Owns(n) THEN NewOf(r) ELSE {}]

\* forward_absorb_prepare: an indexer leaves its selection in the slot only outside a capture.
\* Variant: only the first layer's does.
SlotAfterEager(n, R) == IF arch.nsa /\ Owns(n) /\ pass.method = "MLA" /\ ~ pass.replay /\ n = StartLayer THEN Selection(n, R) ELSE slot
SlotAfter(n, R) == IF arch.nsa /\ Owns(n) /\ pass.method = "MLA" /\ ~ pass.replay THEN Selection(n, R) ELSE slot

GraphAfter(n, R) == IF arch.nsa /\ Owns(n) /\ pass.replay THEN [graph EXCEPT ![n] = Selection(n, R)] ELSE graph

\* The selection a layer attends with; dense heads use none.
Indices(n, R) ==
    IF ~ arch.nsa \/ pass.method # "MLA" THEN None
    ELSE IF Owns(n) THEN Selection(n, R)
    ELSE IF pass.replay THEN (IF wired[n] = None THEN None ELSE graph[wired[n]])
    ELSE Content(slot)

\* How often position t of r is attended to.  The latent KV of this pass is stored first.
Times(P, t) == IF t \in P THEN 1 ELSE 0

\* forward_absorb_core: the selection picks from what is stored.
Absorb(stored, t) == Times(stored, t)

\* Dense heads on the tokens of this pass alone.
Fresh(r, t) == Times(NewOf(r), t)

\* With any prefix in the batch, prefix and new tokens are read back from the pool.
OneShot(n, r, stored, t) == IF \E q \in Reqs : new[q] > 0 /\ len[q] > 0 THEN Times(stored, t) ELSE Fresh(r, t)

\* Every layer clears it before it attends to the new tokens.
NewAsPrefix == FALSE

\* The chunks of the prefix are merged into what the new tokens gave.
Chunked(r, t) == (IF NewAsPrefix THEN 0 ELSE Fresh(r, t)) + Times(1 .. len[r], t)

Attended(n, r, stored) ==
    [t \in 1 .. Total(r) |->
        CASE pass.method = "MLA" -> Absorb(stored, t)
          [] pass.method = "MHA" -> Fresh(r, t)
          [] pass.method = "MHA_ONE_SHOT" -> OneShot(n, r, stored, t)
          [] pass.method = "MHA_CHUNKED_KV" -> Chunked(r, t)]

Layer(i) ==
    LET n == at[i] R == halves[i] IN
    /\ pass # None /\ n < NumLayers
    /\ Len(halves) = 1 /\ pass.split => n < SplitAt
    /\ at' = [at EXCEPT ![i] = n + 1]
    /\ latent' = [latent EXCEPT ![n] = [r \in Reqs |-> @[r] \cup IF r \in R THEN NewOf(r) ELSE {}]]
    /\ keys' = [keys EXCEPT ![n] = KeysAfter(n, R)]
    /\ slot' = SlotAfter(n, R) /\ graph' = GraphAfter(n, R)
    /\ prefixOnly' = (pass.method = "MHA_CHUNKED_KV" /\ \E r \in R : len[r] > 0)
    /\ zeros' = zeros + IF pass.method = "MLA" THEN 2 ELSE 0
    /\ last' = [layer |-> n, reqs |-> R, indices |-> Indices(n, R), keys |-> keys'[n],
                attended |-> [r \in R |-> Attended(n, r, latent'[n][r])]]
    /\ UNCHANGED <<arch, len, new, wired, pass, halves, zeroSize>>

EndPass ==
    /\ pass # None /\ \A i \in DOMAIN at : at[i] = NumLayers
    /\ len' = [r \in Reqs |-> Total(r)] /\ new' = [r \in Reqs |-> 0]
    /\ pass' = None /\ halves' = <<>> /\ at' = <<>> /\ last' = None
    /\ UNCHANGED <<arch, latent, keys, slot, graph, wired, prefixOnly, zeros, zeroSize>>

\* The draft model's layer owns an indexer and uses the same slot, between passes of the target.
Draft ==
    /\ arch.nsa /\ pass = None /\ \E r \in Reqs : len[r] > 0
    /\ slot' = Selection(NumLayers, {r \in Reqs : len[r] > 0})
    /\ UNCHANGED <<arch, len, new, latent, keys, graph, wired, pass, halves, at, prefixOnly, zeros, zeroSize, last>>

\* A request leaves and its pages go back to the pool.
Finish(r) ==
    /\ pass = None /\ len[r] > 0
    /\ len' = [len EXCEPT ![r] = 0]
    /\ latent' = [n \in Layers |-> [latent[n] EXCEPT ![r] = {}]]
    /\ keys' = [n \in Layers |-> [keys[n] EXCEPT ![r] = {}]]
    /\ UNCHANGED <<arch, new, slot, graph, wired, pass, halves, at, prefixOnly, zeros, zeroSize, last>>

Next ==
    \/ \E fresh \in [Reqs -> 0 .. 2], decode \in BOOLEAN, replay \in BOOLEAN, split \in BOOLEAN :
           BeginPass(fresh, decode, replay, split)
    \/ Split \/ (\E i \in DOMAIN at : Layer(i)) \/ EndPass \/ Draft \/ (\E r \in Reqs : Finish(r))

Spec == Init /\ [][Next]_vars

-----------------------------------------------------------------------------

\* Every layer of a sparse pass attends with the selection made for exactly its own requests, in
\* this pass, by the nearest layer at or before it that owns an indexer: never with one left by an
\* earlier pass, by the draft layer or by the other half of a split pass.
IndicesOfThisPass ==
    last # None /\ arch.nsa /\ pass.method = "MLA" =>
        /\ last.indices # None /\ last.indices.now
        /\ last.indices.reqs = last.reqs /\ last.indices.layer = Source(last.layer)

\* A selection scores every token of its requests: tokens that entered through dense heads, which
\* need no selection, left their keys behind as well.
KeysComplete ==
    last # None /\ arch.nsa /\ pass.method = "MLA" /\ Owns(last.layer) =>
        \A r \in last.reqs : last.keys[r] = 1 .. Total(r)

\* Whatever way a layer computes attention, and however the tokens before it entered the cache,
\* each token of a request counts exactly once.
AttendedOnce ==
    last # None => \A r \in last.reqs : \A t \in 1 .. Total(r) : last.attended[r][t] = 1

\* The zero buffer of a pass is never exhausted.
ZerosSuffice == zeros <= zeroSize
=============================================================================
