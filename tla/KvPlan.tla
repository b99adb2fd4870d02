------------------------------- MODULE KvPlan -------------------------------
(* ModelRunnerKVCacheMixin.init_memory_pool: from the memory left after the   *)
(* weights are loaded to the number of tokens and requests of the pools, on   *)
(* every pipeline rank, for the target worker and then, with speculative      *)
(* decoding, for the draft worker of the same process.  Memory is counted in  *)
(* bytes; the pools are those of memory_pool.py.                              *)
EXTENDS Naturals, Integers, FiniteSets, FiniteSetsExt

CONSTANTS
    Setups,             \* the model and server configurations of a run
    ReqScale,           \* requests per context length of cached tokens (512)
    MinReqs, MaxReqs    \* and their bounds (2048 and 4096)

KvAssumption == {ReqScale, MinReqs, MaxReqs} \subseteq Nat /\ MinReqs <= MaxReqs

unset == -1

VARIABLES
    cfg,                \* the configuration of this start
    worker,             \* "target", then "draft" when there is one
    stage,              \* per rank: "profile", "reduce", "size", "built" or "refused"
    plan,               \* per rank: what the pools of this worker are made for
    args                \* per rank: the fields of its server_args that pass from target to draft

vars == <<cfg, worker, stage, plan, args>>

Ranks == 1 .. cfg.pp

ElementSize(c) == IF c.dtype = "bf16" THEN 2 ELSE 1
MlaFamily == {"mla", "nsa"}

-----------------------------------------------------------------------------
(* The bytes a token takes: as the profile counts them, and as the pools do. *)

Index(c) == c.ihd + (c.ihd \div 128) * 4

ExpectedMla(c, layers) ==
    LET whole == (c.nope + c.rope) * layers * ElementSize(c)
        main  == IF c.dtype = "fp4"
                 THEN (whole \div 2) + ((c.lora + c.rope) \div 16) * layers ELSE whole
    IN  main + (IF c.attn = "nsa" THEN Index(c) * layers ELSE 0)

Expected(c, layers) ==
    IF c.attn \in MlaFamily THEN ExpectedMla(c, layers)
    ELSE IF c.attn = "swa" THEN 2 * (c.row * c.full + c.swarow * c.swa) * ElementSize(c)
    ELSE LET whole == 2 * c.row * layers * ElementSize(c)
         IN  IF c.dtype = "fp4" THEN (whole \div 2) + (2 * c.row * layers) \div 16 ELSE whole

\* The row of an MLA pool; with the sparse indexer and fp8 the scales and an unquantised rope part.
MlaRow(c) == IF c.attn = "nsa" /\ c.dtype = "fp8" /\ ~c.trtllm
             THEN c.lora + (c.lora \div 128) * 4 + c.rope * 2
             ELSE c.lora + c.rope

\* Layers past the pattern own an indexer; "S" layers reuse another layer's choice.
OwnsIndexer(c, layer) == layer >= c.patternLen \/ layer \notin c.shared

IndexPages(c, start, i, tokens) ==
    IF c.patternLen = 0 \/ OwnsIndexer(c, i + start) THEN (tokens + c.page + 1) \div c.page ELSE 1

IndexBytes(c, start, layers, tokens) ==
    FoldSet(LAMBDA i, sum : sum + IndexPages(c, start, i, tokens) * c.page * Index(c), 0, 0 .. layers - 1)

\* The token pools, one page of padding included: rows of keys and values, the same in four bits
\* with a scale per sixteen values, latent rows, and latent rows with an index cache.
DensePool(c, rows, layers)  == rows * 2 * c.row * layers * ElementSize(c)
Dense4Pool(c, rows, layers) == rows * 2 * (c.row \div 2 + c.row \div 16) * layers
LatentPool(c, rows, layers) == rows * MlaRow(c) * layers * ElementSize(c)
Latent4Pool(c, rows, layers) == rows * (MlaRow(c) \div 2 + MlaRow(c) \div 16) * layers
SlidingPool(c, rows, slid)  == 2 * ElementSize(c) * (rows * c.row * c.full + slid * c.swarow * c.swa)

\* Which of them init_memory_pool builds.
TokenPool(c, p) ==
    LET rows == p.tokens + c.page IN
    CASE c.attn = "nsa" -> LatentPool(c, rows, p.layers) + IndexBytes(c, p.start, p.layers, p.tokens)
      [] c.attn = "mla" /\ c.dtype = "fp4" -> Latent4Pool(c, rows, p.layers)
      [] c.attn = "mla" /\ c.dtype # "fp4" -> LatentPool(c, rows, p.layers)
      [] c.attn = "swa" -> SlidingPool(c, rows, p.swa + c.page)
      [] c.attn = "mamba" -> DensePool(c, rows, p.layers)
      [] c.attn = "mha" /\ c.dtype = "fp4" -> Dense4Pool(c, rows, p.layers)
      [] c.attn = "mha" /\ c.dtype # "fp4" -> DensePool(c, rows, p.layers)

\* The state pool of a linear-attention model: a padded slot, and a state per draft token.
StatePool(c, p) == (p.mamba + 1 + (IF c.spec THEN (p.reqs + 1) * c.drafts ELSE 0)) * c.perReq

PoolBytes(c, p) == TokenPool(c, p) + (IF c.attn = "mamba" THEN StatePool(c, p) ELSE 0)

\* What the pools hold besides the tokens and states asked for: a page, and a slot.
Padding(c, p) ==
    PoolBytes(c, [p EXCEPT !.tokens = 0, !.swa = 0, !.mamba = 0, !.reqs = 0])

-----------------------------------------------------------------------------
(* How much there is to give out.                                             *)

Reserved(c) == c.total - c.static          \* total_gpu_memory * (1 - mem_fraction_static)
Rest(c) == c.avail - Reserved(c)

\* What a worker finds free: the draft worker comes after the target's pools.
Found(c, w, r) == IF w = "draft" THEN Rest(c) - PoolBytes(c, plan["target"][r]) ELSE Rest(c)

PerReplica(c, n) == n \div (IF c.dpattn THEN c.dp ELSE 1)

\* The states kept for the draft tokens come off first.
AfterDraftStates(c, rest) ==
    IF c.spec THEN rest - c.perReq * PerReplica(c, c.maxreqs) * c.drafts ELSE rest

\* How many linear-attention states: as asked, one per request, or by the ratio of the memories.
MambaSize(c, asked, rest) ==
    IF asked # unset THEN PerReplica(c, asked)
    ELSE IF c.noradix /\ c.maxreqs # unset THEN PerReplica(c, c.maxreqs)
    ELSE ((rest * c.ratioNum) \div (c.ratioNum + c.ratioDen)) \div c.perReq

MambaRatio(c) == IF c.noradix THEN 1
                 ELSE 3 + (IF ~c.extra THEN 0 ELSE IF c.spec THEN 1 ELSE 2)

LayersOf(c, r, w) == IF w = "draft" THEN 1 ELSE c.layers[r]
StartOf(c, r, w) == IF w = "draft" THEN 0 ELSE FoldSet(LAMBDA q, s : s + c.layers[q], 0, 1 .. r - 1)

Clamp(n) == Min({Max({n, MinReqs}), MaxReqs})
PageAligned(c, n) == (n \div c.page) * c.page

\* profile_max_num_token and the bounds applied before the ranks agree.
Profiled(c, r, w, asked) ==
    LET layers == LayersOf(c, r, w)
        rest   == AfterDraftStates(c, Found(c, w, r))
        mamba  == IF c.attn = "mamba" THEN MambaSize(c, asked, rest) ELSE unset
        tokens == IF c.attn = "mamba" THEN (rest - mamba * c.perReq) \div Expected(c, layers)
                  ELSE Found(c, w, r) \div Expected(c, layers)
        wanted == IF c.maxreqs # unset THEN c.maxreqs ELSE Clamp((tokens * ReqScale) \div c.context)
        byState == IF c.attn = "mamba" THEN Min({wanted, mamba \div MambaRatio(c)}) ELSE wanted
        reqs   == IF c.attn = "mamba" /\ c.spec /\ c.dpattn THEN Min({byState, c.maxreqs \div c.dp})
                  ELSE byState
        capped == IF c.maxtokens # unset THEN Min({tokens, c.maxtokens}) ELSE tokens
    IN  [tokens |-> PageAligned(c, capped), reqs |-> reqs, swa |-> 0, mamba |-> mamba,
         layers |-> layers, start |-> StartOf(c, r, w), own |-> TRUE]

\* set_num_tokens_hybrid_swa: the full and the sliding layers share what was profiled.
HybridSwa(c, p) ==
    IF c.full = 0 THEN [p EXCEPT !.tokens = PageAligned(c, p.tokens), !.swa = PageAligned(c, p.tokens)]
    ELSE LET total == p.tokens * (c.row * c.full + c.swarow * c.swa) * c.ratioDen
             full  == total \div (c.row * c.full * c.ratioDen + c.ratioNum * c.swarow * c.swa)
         IN  [p EXCEPT !.tokens = PageAligned(c, full),
                       !.swa = PageAligned(c, (full * c.ratioNum) \div c.ratioDen)]

Init ==
    /\ cfg \in Setups
    /\ worker = "target"
    /\ stage = [r \in Ranks |-> "profile"]
    /\ plan = [w \in {"target", "draft"} |->
                [r \in Ranks |-> [tokens |-> 0, reqs |-> 0, swa |-> 0, mamba |-> unset,
                                  layers |-> 0, start |-> 0, own |-> FALSE]]]
    /\ args = [r \in Ranks |-> [tokens |-> unset, reqs |-> unset, mamba |-> cfg.maxmamba]]

\* Each rank profiles for itself; the number of states is kept in its server_args.
Profile(r) ==
    /\ stage[r] = "profile"
    /\ LET p == Profiled(cfg, r, worker, args[r].mamba)
       IN  /\ plan' = [plan EXCEPT ![worker][r] = p]
           /\ args' = [args EXCEPT ![r].mamba = IF cfg.attn = "mamba" THEN p.mamba ELSE @]
    /\ stage' = [stage EXCEPT ![r] = IF cfg.pp > 1 THEN "reduce" ELSE "size"]
    /\ UNCHANGED <<cfg, worker>>

\* The pipeline ranks take the smallest number of tokens: an all-reduce all of them reach.
Reduce ==
    /\ cfg.pp > 1 /\ \A r \in Ranks : stage[r] = "reduce"
    /\ LET least == Min({plan[worker][r].tokens : r \in Ranks})
       IN  plan' = [plan EXCEPT ![worker] = [r \in Ranks |-> [plan[worker][r] EXCEPT !.tokens = least]]]
    /\ stage' = [r \in Ranks |-> "size"]
    /\ UNCHANGED <<cfg, worker, args>>

\* The draft worker's pools are as long as the target's, and it shares the target's requests.
ForDraft(r, p) == IF worker = "draft"
                  THEN [p EXCEPT !.tokens = args[r].tokens, !.reqs = args[r].reqs, !.own = FALSE]
                  ELSE p

\* The rest of init_memory_pool: the split, what the draft will need, the refusal, the pools.
Size(r) ==
    /\ stage[r] = "size"
    /\ LET wide == ForDraft(r, plan[worker][r])
           p    == IF cfg.attn = "swa" THEN HybridSwa(cfg, wide) ELSE wide
       IN  /\ plan' = [plan EXCEPT ![worker][r] = p]
           /\ args' = [args EXCEPT ![r] = IF cfg.spec /\ worker = "target"
                                          THEN [@ EXCEPT !.tokens = p.tokens, !.reqs = p.reqs] ELSE @]
           /\ stage' = [stage EXCEPT ![r] = IF p.tokens <= 0 THEN "refused" ELSE "built"]
    /\ UNCHANGED <<cfg, worker>>

\* The draft worker of the same process starts when the target's pools stand.
Draft ==
    /\ cfg.spec /\ worker = "target" /\ \A r \in Ranks : stage[r] = "built"
    /\ worker' = "draft"
    /\ stage' = [r \in Ranks |-> "profile"]
    /\ UNCHANGED <<cfg, plan, args>>

Ended == /\ \A r \in Ranks : stage[r] \in {"built", "refused"}
         /\ \/ worker = "draft" \/ ~cfg.spec \/ \E r \in Ranks : stage[r] = "refused"

Next == Reduce \/ Draft \/ (\E r \in Ranks : Profile(r) \/ Size(r)) \/ (Ended /\ UNCHANGED vars)

Spec == Init /\ [][Next]_vars

\* How many requests the scheduler of a rank runs at a time.
MaxRunning(c, p) == Min({IF c.maxreqs = unset THEN p.tokens \div 2 ELSE c.maxreqs \div c.dp, p.reqs})

\* The ranks whose pools stand.
Standing(w) == {r \in Ranks : stage[r] = "built" /\ worker = w}

\* Safety: the target's pools take what mem_fraction_static gives them and no more, up to the
\* padding (one page, one state): the profile divides by the size the pools really have.
PoolsInBudget == \A r \in Standing("target") :
    PoolBytes(cfg, plan["target"][r]) <= Rest(cfg) + Padding(cfg, plan["target"][r])

\* Safety: every page a target token lives in exists in the draft's pool, which is addressed
\* with the target's locations.
DraftCoversTarget == \A r \in Standing("draft") :
    plan["draft"][r].tokens >= plan["target"][r].tokens

\* Safety: pools stand on whole pages and, on all pipeline ranks, for the same number of tokens.
RanksSameTokens == \A r, q \in Standing("target") :
    /\ plan["target"][r].tokens = plan["target"][q].tokens
    /\ plan["target"][r].tokens % cfg.page = 0

\* Safety: a layer that runs an indexer has an index cache of the full length.
IndexersHaveCache == \A r \in Standing("target") :
    cfg.attn = "nsa" => \A i \in 0 .. plan["target"][r].layers - 1 :
        OwnsIndexer(cfg, i + plan["target"][r].start)
            => IndexPages(cfg, plan["target"][r].start, i, plan["target"][r].tokens) * cfg.page
                    > plan["target"][r].tokens

\* Safety: a request that has a row in the request table can have its linear-attention states.
StatesForRequests == \A r \in Standing("target") :
    cfg.attn = "mamba" =>
        plan["target"][r].reqs * (IF cfg.extra THEN IF cfg.spec THEN 2 ELSE 3 ELSE 1) <= plan["target"][r].mamba

=============================================================================
