------------------------------- MODULE MCPass -------------------------------
(* A pass of the model on the ranks of a server: the graph runner with the *)
(* tiers of its requests (decode; verification of drafts), the pass of the *)
(* model runner (decode, verification, split prefill), the metadata of the *)
(* sparse backend (replays; a prefill split over context-parallel ranks;   *)
(* drafts) and its choice of kernels, the metadata of the Triton backend   *)
(* (target passes; draft trees), the layers with their shared selections   *)
(* (two patterns of indexers; dense attention in two halves) and their     *)
(* feed-forward half, and the ticks of the adaptive cache, which run       *)
(* between two passes.  They share no state here: a behaviour exercises    *)
(* one of them (part); the cache rests in an initial state, the others are *)
(* Off.                                                                    *)
EXTENDS AdaptiveCache, TLC

CONSTANTS
    Off,        \* the value of every variable of a part that rests
    Reqs,       \* requests of the graph runner
    DpRanks, AttnTp, AttnCp,    \* the ranks of a pass
    DraftTokens,                \* tokens of a request in a verify pass
    DecodeGraph, VerifyGraph,   \* largest captured batches
    MaxDecodes, MaxVerifies,    \* bounds: requests of a rank's batch
    MaxForwards,                \* bound: passes of the model runner
    Archs, AttnLayers, FirstKDense, AttnTopk,   \* AttentionStack
    Users, MaxContext,          \* its requests; bound: tokens of one
    Launches,                   \* of MoeStack
    Tp, StackLayers, MegaCap,   \* the ranks, layers and the mega kernel's cap of the feed-forward half
    TokenCounts, MaxStackPasses,    \* bounds: tokens of a rank, passes through the layers
    UserPrefill, IndexTopk, ChunkCap, PrefillRatio, MaxKeys, MaxChoices    \* NsaDispatch

VARIABLES
    part,
    suffix, running, waiting, hidden, bufKeep, bufLoc, fwd, steps,                \* GraphRunner
    passes, meta, decodeMeta, stream, split, done, ticks,                         \* ForwardPass
    cfg, tok, ffnPass, ffnLayer, ffnPc, path, out, pend, symm, routed,               \* MoeStack
    gmode, batches, pool, lens, backends, last,                                   \* NsaMetadata
    set, prefillImpl, useMha, indices, chosen, layer,                             \* NsaDispatch
    runs, slots, lengths, indptr, windptr, gidx, gwidx, goff, gmask, seen,        \* TritonMetadata
    arch, len, new, latent, keys, slot, graph, wired, pass, halves, at, prefixOnly, \* AttentionStack
    zeros, zeroSize, did

Tier(kind, n) == [kind |-> kind, n |-> n]
(* From one pair of experts that carries nearly everything to an even      *)
(* spread.                                                                 *)
RouterOutputs ==
    {<<1, 46, 1, 48, 1, 1, 1, 1>>, <<5, 30, 5, 20, 15, 10, 10, 5>>,
     <<13, 12, 13, 12, 13, 12, 13, 12>>}

(* Every kind of suffix; then, with verification, the ends of the scales.  *)
Graph == INSTANCE GraphRunner WITH
    E <- 8, DefaultK <- 2, NucleusP <- 0, KMin <- 1, KMax <- 8, WeightRows <- RouterOutputs,
    Tiers <- {Tier("none", 0), Tier("top", 12), Tier("bare", 0), Tier("adapt", 80), Tier("nuc", 60)},
    NumTokensPerBs <- 1, CudaGraphBs <- {2}, PoolSize <- 3, MaxExtend <- 2, MixedChunk <- TRUE,
    MaxSteps <- 3
Verify == INSTANCE GraphRunner WITH
    E <- 8, DefaultK <- 2, NucleusP <- 0, KMin <- 1, KMax <- 8, WeightRows <- RouterOutputs,
    Tiers <- {Tier("top", 0), Tier("nuc", 100), Tier("adapt", 0)},
    NumTokensPerBs <- 2, CudaGraphBs <- {1, 3, 8}, PoolSize <- 3, MaxExtend <- 2, MixedChunk <- FALSE,
    MaxSteps <- 4

Decodes == INSTANCE ForwardPass WITH
    PerReq <- 1, GraphBs <- DecodeGraph, Pdmux <- FALSE,
    Streams <- {0}, Layers <- 3, MaxBs <- MaxDecodes
Verifies == INSTANCE ForwardPass WITH
    PerReq <- DraftTokens, GraphBs <- VerifyGraph, Pdmux <- FALSE,
    Streams <- {0}, Layers <- 3, MaxBs <- MaxVerifies
Splits == INSTANCE ForwardPass WITH
    DpRanks <- {1}, AttnTp <- 2, AttnCp <- 1, PerReq <- 1, GraphBs <- 2, Pdmux <- TRUE,
    Streams <- {0, 1}, Layers <- 3, MaxBs <- 3, MaxForwards <- 5

(* The launches that differ in who scales, who reduces and who computes    *)
(* the shared experts: tensor-parallel experts, the CPU experts among      *)
(* them; experts behind an all-to-all or an all-gather; the mega kernel.   *)
Plain == [model |-> "deepseek", a2a |-> "none", quant |-> "kernel", allgather |-> FALSE, mega |-> FALSE,
          hash |-> 0, share |-> FALSE, sbo |-> "off", densedp |-> FALSE, dp |-> FALSE, maxpad |-> FALSE,
          fuse |-> FALSE, capture |-> FALSE, tbo |-> FALSE, nextn |-> FALSE, first |-> 1, freq |-> 1]
Sharded ==
    {[Plain EXCEPT !.model = m, !.quant = q, !.share = s, !.dp = d, !.maxpad = p, !.fuse = f, !.capture = c, !.freq = k] :
       m \in {"deepseek", "glm"}, q \in {"kernel", "topk", "kt"}, s \in BOOLEAN, d \in BOOLEAN, p \in BOOLEAN,
       f \in BOOLEAN, c \in BOOLEAN, k \in {1, 2}}
    \cup {[Plain EXCEPT !.quant = "mxfp4", !.capture = c, !.sbo = s] : c \in BOOLEAN, s \in {"off", "combine"}}
Spread ==
    {[Plain EXCEPT !.model = m, !.a2a = "deepep", !.quant = q, !.densedp = d, !.dp = TRUE, !.maxpad = p, !.nextn = n] :
       m \in {"deepseek", "glm"}, q \in {"kernel", "topk"}, d \in BOOLEAN, p \in BOOLEAN, n \in BOOLEAN}
    \cup {[Plain EXCEPT !.a2a = a, !.quant = "topk", !.sbo = s, !.dp = d, !.nextn = n] :
            a \in {"deepep", "mooncake", "flashinfer"}, s \in {"off", "dispatch", "combine"}, d \in BOOLEAN, n \in BOOLEAN}
    \cup {[Plain EXCEPT !.model = m, !.quant = "topk", !.allgather = TRUE, !.dp = TRUE, !.densedp = d] :
            m \in {"deepseek", "glm"}, d \in BOOLEAN}
    \cup {[Plain EXCEPT !.a2a = "deepep", !.tbo = TRUE, !.dp = TRUE, !.share = s] : s \in BOOLEAN}
Mega ==
    {[Plain EXCEPT !.a2a = "deepep", !.mega = TRUE, !.quant = q, !.hash = h, !.dp = d, !.capture = c, !.nextn = n] :
       q \in {"kernel", "topk"}, h \in {0, 2}, d \in BOOLEAN, c \in BOOLEAN, n \in BOOLEAN}
Legal(c) == (c.fuse => ~c.dp) /\ (c.maxpad => c.dp) /\ (c.quant = "kt" => ~c.share)
SomeLaunches == {c \in Sharded \cup Spread \cup Mega : Legal(c)}

(* StackProofs is MoeStack with the lemmas about it.                      *)
Moe == INSTANCE StackProofs WITH
    pass <- ffnPass, layer <- ffnLayer, pc <- ffnPc,
    NumLayers <- StackLayers, Cap <- MegaCap, MaxPasses <- MaxStackPasses,
    Configs <- Launches

Replays == INSTANCE NsaMetadata WITH
    passes <- batches,
    Reqs <- {1, 2}, D <- 2, Steps <- 1, Topk <- 2, PageSize <- 2, GraphSizes <- {1, 2}, CpSize <- 1,
    GraphModes <- {"decode", "verify", "draft_extend"}, MaxLen <- 3, MaxPasses <- 2
Prefills == INSTANCE NsaMetadata WITH
    passes <- batches,
    Reqs <- {1, 2, 3}, D <- 2, Steps <- 1, Topk <- 2, PageSize <- 2, GraphSizes <- {1}, CpSize <- 2,
    GraphModes <- {"decode"}, MaxLen <- 2, MaxPasses <- 2
Drafts == INSTANCE NsaMetadata WITH
    passes <- batches,
    Reqs <- {1, 2, 3}, D <- 1, Steps <- 2, Topk <- 2, PageSize <- 2, GraphSizes <- {1, 2}, CpSize <- 1,
    GraphModes <- {"draft"}, MaxLen <- 2, MaxPasses <- 2

Dispatch == INSTANCE NsaDispatch WITH
    passes <- chosen, meta <- indices,
    Topk <- IndexTopk, Ratio <- PrefillRatio, MaxLen <- MaxKeys, MaxPasses <- MaxChoices

Triton == INSTANCE TritonMetadata WITH
    passes <- runs, pool <- slots, lens <- lengths, last <- seen,
    Reqs <- {1, 2}, D <- 2, Window <- 2, Steps <- 1, Branches <- 1, GraphSizes <- {1, 2},
    Cores <- {1, 8}, MaxSplits <- 2, Modes <- {"decode", "verify", "extend"}, MaxLen <- 3, MaxPasses <- 2
Trees == INSTANCE TritonMetadata WITH
    passes <- runs, pool <- slots, lens <- lengths, last <- seen,
    Reqs <- {1, 2}, D <- 2, Window <- 2, Steps <- 2, Branches <- 2, GraphSizes <- {1, 2},
    Cores <- {1, 3, 8}, MaxSplits <- 2, Modes <- {"draft"}, MaxLen <- 3, MaxPasses <- 2

(* A group of layers that reuses a selection last; every second layer; no  *)
(* sparse attention, with passes in two halves.                            *)
Stacked(pattern, freq, offset, nsa) ==
    [pattern |-> pattern, freq |-> freq, offset |-> offset, nsa |-> nsa, tbo |-> ~ nsa]
SomeArchs == {Stacked(<<"F", "F", "S", "F", "S">>, 0, 0, TRUE), Stacked(<<>>, 2, 1, TRUE),
              Stacked(<<"F", "F", "S", "F", "S">>, 0, 0, FALSE)}
Attn == INSTANCE AttentionStack WITH
    last <- did, NumLayers <- AttnLayers, StartLayer <- 0, Reqs <- Users,
    MaxLen <- MaxContext, TopK <- AttnTopk, None <- Off

ASSUME PassAssumption ==
    /\ CacheAssumption /\ Graph!GraphRunnerAssumption /\ Verify!GraphRunnerAssumption
    /\ Decodes!ForwardAssumption /\ Verifies!ForwardAssumption /\ Splits!ForwardAssumption
    /\ Moe!MoeStackAssumption
    /\ Replays!NsaAssumption /\ Prefills!NsaAssumption /\ Drafts!NsaAssumption
    /\ Dispatch!DispatchAssumption /\ Triton!TritonAssumption /\ Trees!TritonAssumption
    /\ Attn!AttentionAssumption

graphVars == <<suffix, running, waiting, hidden, bufKeep, bufLoc, fwd, steps>>
passVars == <<passes, meta, decodeMeta, stream, split, done, ticks>>
moeVars == <<cfg, tok, ffnPass, ffnLayer, ffnPc, path, out, pend, symm, routed>>
nsaVars == <<gmode, batches, pool, lens, backends, last>>
dispatchVars == <<set, prefillImpl, useMha, indices, chosen, layer>>
tritonVars == <<runs, slots, lengths, indptr, windptr, gidx, gwidx, goff, gmask, seen>>
stackVars == <<arch, len, new, latent, keys, slot, graph, wired, pass, halves, at, prefixOnly, zeros, zeroSize, did>>

GraphOff == /\ suffix = Off /\ running = Off /\ waiting = Off /\ hidden = Off
            /\ bufKeep = Off /\ bufLoc = Off /\ fwd = Off /\ steps = Off
PassOff == /\ passes = Off /\ meta = Off /\ decodeMeta = Off /\ stream = Off
           /\ split = Off /\ done = Off /\ ticks = Off
MoeOff == /\ cfg = Off /\ tok = Off /\ ffnPass = Off /\ ffnLayer = Off /\ ffnPc = Off
          /\ path = Off /\ out = Off /\ pend = Off /\ symm = Off /\ routed = Off

NsaOff == gmode = Off /\ batches = Off /\ pool = Off /\ lens = Off /\ backends = Off /\ last = Off
DispatchOff == /\ set = Off /\ prefillImpl = Off /\ useMha = Off
               /\ indices = Off /\ chosen = Off /\ layer = Off
TritonOff == /\ runs = Off /\ slots = Off /\ lengths = Off /\ indptr = Off /\ windptr = Off
             /\ gidx = Off /\ gwidx = Off /\ goff = Off /\ gmask = Off /\ seen = Off
StackOff == /\ arch = Off /\ len = Off /\ new = Off /\ latent = Off /\ keys = Off /\ slot = Off /\ graph = Off
            /\ wired = Off /\ pass = Off /\ halves = Off /\ at = Off /\ prefixOnly = Off
            /\ zeros = Off /\ zeroSize = Off /\ did = Off

ModelOff == GraphOff /\ PassOff /\ MoeOff
AttentionOff == NsaOff /\ DispatchOff /\ TritonOff /\ StackOff
modelVars == <<graphVars, passVars, moeVars>>
attentionVars == <<nsaVars, dispatchVars, tritonVars, stackVars>>
MCVars == <<part, vars, modelVars, attentionVars>>

CacheRests == Init /\ sel = (CHOOSE S \in SUBSET Expert : Cardinality(S) = NGpu)
                   /\ slotOf[0] = SlotTable(sel, CHOOSE n \in Numberings(sel) : TRUE)

PassInit ==
    \/ /\ AttentionOff
       /\ \/ part = "graph" /\ Graph!Init /\ PassOff /\ MoeOff
          \/ part = "verify" /\ Verify!Init /\ PassOff /\ MoeOff
          \/ part = "decodes" /\ Decodes!Init /\ GraphOff /\ MoeOff
          \/ part = "verifies" /\ Verifies!Init /\ GraphOff /\ MoeOff
          \/ part = "splits" /\ Splits!Init /\ GraphOff /\ MoeOff
          \/ part = "moe" /\ Moe!Init /\ GraphOff /\ PassOff
    \/ /\ ModelOff /\ DispatchOff /\ TritonOff /\ StackOff
       /\ \/ part = "replays" /\ Replays!Init
          \/ part = "prefills" /\ Prefills!Init
          \/ part = "drafts" /\ Drafts!Init
    \/ ModelOff /\ NsaOff /\ TritonOff /\ StackOff /\ part = "dispatch" /\ Dispatch!Init
    \/ /\ ModelOff /\ NsaOff /\ DispatchOff /\ StackOff
       /\ \/ part = "triton" /\ Triton!Init
          \/ part = "trees" /\ Trees!Init
    \/ ModelOff /\ NsaOff /\ DispatchOff /\ TritonOff /\ part = "attention" /\ Attn!Init

MCInit == \/ part = "cache" /\ Init /\ ModelOff /\ AttentionOff
          \/ CacheRests /\ PassInit

ModelNext ==
    \/ part = "graph" /\ Graph!Next /\ UNCHANGED <<passVars, moeVars>>
    \/ part = "verify" /\ Verify!Next /\ UNCHANGED <<passVars, moeVars>>
    \/ part = "decodes" /\ Decodes!Next /\ UNCHANGED <<graphVars, moeVars>>
    \/ part = "verifies" /\ Verifies!Next /\ UNCHANGED <<graphVars, moeVars>>
    \/ part = "splits" /\ Splits!Next /\ UNCHANGED <<graphVars, moeVars>>
    \/ part = "moe" /\ Moe!Next /\ UNCHANGED <<graphVars, passVars>>

NsaNext == \/ part = "replays" /\ Replays!Next
           \/ part = "prefills" /\ Prefills!Next
           \/ part = "drafts" /\ Drafts!Next
TritonNext == \/ part = "triton" /\ Triton!Next
              \/ part = "trees" /\ Trees!Next

AttentionNext ==
    \/ NsaNext /\ UNCHANGED <<dispatchVars, tritonVars, stackVars>>
    \/ part = "dispatch" /\ Dispatch!Next /\ UNCHANGED <<nsaVars, tritonVars, stackVars>>
    \/ TritonNext /\ UNCHANGED <<nsaVars, dispatchVars, stackVars>>
    \/ part = "attention" /\ Attn!Next /\ UNCHANGED <<nsaVars, dispatchVars, tritonVars>>

MCNext ==
    /\ UNCHANGED part
    /\ \/ part = "cache" /\ Next /\ UNCHANGED <<modelVars, attentionVars>>
       \/ ModelNext /\ UNCHANGED <<vars, attentionVars>>
       \/ AttentionNext /\ UNCHANGED <<vars, modelVars>>

MCSpec == MCInit /\ [][MCNext]_MCVars

(* Requests are interchangeable.                                           *)
Symmetry == Permutations(Reqs)

(* The tier a client asks for by the model name is the one its tokens are  *)
(* routed with, in every batch and after every replay; of two adaptive     *)
(* tiers the faster one keeps no more experts.                             *)
TierServed ==
    /\ part = "graph" => Graph!TierServed /\ Graph!FasterKeepsFewer
    /\ part = "verify" => Verify!TierServed

(* A replayed graph covers its batch with buffers the CPU experts kept,    *)
(* never overwrites the KV slots of a request that left rows behind, and   *)
(* serving never captures again.                                           *)
ReplaySafe ==
    /\ part = "graph" => Graph!NoStrayKvWrite /\ Graph!ReplayFits /\ Graph!NeverRecaptured
    /\ part = "verify" => Verify!NoStrayKvWrite /\ Verify!ReplayFits /\ Verify!NeverRecaptured

(* Ranks that wait in a collective wait in the same one, with the same     *)
(* length: in the gathers of a pass under data-parallel attention, and in  *)
(* every reduction, dispatch and kernel of the layers.                     *)
CollectivesMatch ==
    /\ part = "decodes" => Decodes!CollectivesMatch
    /\ part = "verifies" => Verifies!CollectivesMatch
    /\ part = "moe" => Moe!SameCollective

(* Whatever padding, replay, change of mode or interleaving of a split     *)
(* prefill with decodes: the attention kernels read metadata prepared for  *)
(* this very batch, the caller gets the rows of its own requests, and the  *)
(* real tokens are shared out once.                                        *)
PassServesBatch ==
    /\ part = "decodes" => Decodes!MetadataFresh /\ Decodes!RowsOfRequests /\ Decodes!TokensSharedOut
    /\ part = "verifies" => Verifies!RowsOfRequests
    /\ part = "splits" => Splits!MetadataFresh

(* The output of a layer holds every part exactly once, the routed ones    *)
(* scaled exactly once, and only rows of this pass were dispatched.        *)
ContributionsOnce == part = "moe" => Moe!ContributionsOnce /\ Moe!OnlyThisPassRouted

(* Whatever earlier passes left in the captured buffers, the kernels of a  *)
(* pass read the keys, key ranges and masks of its own requests, in full;  *)
(* each step of a replayed draft, each branch of a draft tree, sees the    *)
(* prompt and the tokens drafted before it.                                *)
MetadataOfThisBatch ==
    /\ part = "replays" => Replays!ReplayReadsThisBatch /\ Replays!KeyRangesRight
    /\ part = "prefills" => Prefills!KeyRangesRight
    /\ part = "drafts" => Drafts!DraftSeesDrafts
    /\ part = "triton" => /\ Triton!KeysOfTheRequest /\ Triton!MaskOfTheRequest
                          /\ Triton!SplitsFit
    /\ part = "trees" => Trees!BranchesSeeTheirTokens

(* The indexer's indices have the form the chosen kernel reads, with the   *)
(* offsets and the flattened table that form needs, whichever choice the   *)
(* passes before left behind.                                              *)
IndicesFitKernel ==
    part = "dispatch" => /\ Dispatch!IndicesFitKernel /\ Dispatch!OffsetsWhenRagged
                         /\ Dispatch!FlattenedWhenGathered

(* Every layer of a sparse pass attends with the selection made in this    *)
(* pass for its own requests by the nearest layer that owns an indexer,    *)
(* over keys that are complete; each token counts once in whatever way     *)
(* attention is computed, and the zero buffer of a pass suffices.          *)
SelectionsOfThisPass ==
    part = "attention" =>
        Attn!IndicesOfThisPass /\ Attn!KeysComplete /\ Attn!AttendedOnce /\ Attn!ZerosSuffice
==============================================================================
