# RunGLM: TLA+ models, checks and proofs

RunGLM serves a mixture-of-experts model whose weights do not fit into VRAM.
Each layer's experts are spread over GPU slots, host RAM (the CPU store) and,
optionally, SSD; background policies move them while tokens are generated. The
rest is a patched sglang: a front end, a scheduler, a model runner with CUDA
graphs, attention backends, and a start that has to get all ranks to the same
point. This directory models that system, model-checks it on small instances
and proves part of it for all values of the constants.

Source paths are abbreviated. `S/` is `src/backup/sglang-patched/srt/`, and

* `K` = `S/layers/moe/kt_ep_wrapper.py`
* `D` = `S/models/deepseek_v2.py`
* `MR` = `S/model_executor/model_runner.py`
* `SCH` = `S/managers/scheduler.py`
* `TM` = `S/managers/tokenizer_manager.py`
* `SA` = `S/server_args.py`
* `AMX` = `src/.venv/lib/python3.12/site-packages/kt_kernel/utils/amx.py`

`PROJECT.json` maps every definition to the lines it models, and lists the
runs, the hazards, the mutants that show each property to be sensitive to the
code, and the theorems.

## 1. Inventory

### The experts of a layer

| Component | State | Operations | What makes it correct |
|---|---|---|---|
| Expert residency (`KTEPWrapperMethod`) | GPU and RAM masks, logical-to-slot table, slot weights, scratch layer on every rank; CPU store and pinned skip mask on rank 0 | boot, full and incremental restage, forward | a forward computes each expert it keeps exactly once, with that expert's own weights |
| Three-tier tick (`_kt_tier_update_layer`) | the cut of the tick, lists of evictions and promotions | decide, broadcast, load, apply, evict, promote | ranks stay in step; the store stays in budget; a failed move never exposes missing weights |
| Tier selector (`_kt_tier_select`) | demand counters | pairwise swaps over two cuts | sizes kept, tiers disjoint, movement dies out |
| Adaptive cache (`_kt_adaptive_update_layer`, `_update_gpu_experts_from_batch`) | resident set | decode tick, update after a bulk prefill | lockstep of the ranks, every expert served |
| Adaptive selector and margin controller | one margin and one smoothed coverage for all layers | select, adapt the margin | settles on stable demand, chases when under-cached |
| Batch selector (`ExpertCacheState`) | decayed scores, ages, residents | routed batch | exchanges pay, grace is honoured |
| Energy mover (`kt_energy_on_decode_step`) | energies, masks; no broadcast | decide, RAM move, GPU restage | as for the tick, without a collective to agree through |
| Prefetcher (`_KtExpertPrefetcher`) | ready map, in-flight set, queue, worker thread | request, take, prune, read, publish | memory bound, no lost or doubled read, wanted experts arrive |
| Weight streaming (`SharedFullContext`) | double buffer, pending write, copy streams | write, sync, barrier, copy | a copy moves the bytes of its own expert |
| Scratch layer and formats | the one scratch layer all layers load into | detect, restore, copy, stream, convert, overlay | a load ends with this layer's experts, converted once |
| Slot prefetch (`pf_*`) | landing slots, landed masks, holds, three streams | select, gather, publish, both halves of `apply` | an expert is computed by slot or by CPU, never by both or neither |
| Substitution routing (`_kt_topk_experiment`) | per-token routing | keep, fill, drop | no mass on unreachable experts, no expert twice |
| Lookahead predictor | inboxes, fused gates | emit, score, fetch | a fetch is for this pass, a score reads its own source |
| keep_k plumbing | suffix of the model name to graph buffer | parse, carry, expand, decode | a token is routed with its own request's tier |

### A pass of the model

| Component | State | What makes it correct |
|---|---|---|
| CUDA graph runner | capture sizes, input buffers | a replay writes only its own slots and fits the buffers the CPU experts kept |
| Forward pass (`MR.forward`, `ForwardBatch`) | padding and its undoing, backends' metadata, streams | metadata of this batch, rows of these requests, same collectives on all ranks |
| NSA and Triton backends | page tables, key lists, masks, kernel choice | kernels read this batch's keys in full |
| Attention layers, IndexShare | latent cache, index keys, the shared selection | a selection is of this pass and these requests |
| MoE and decoder layers | pending sums and scalings | every contribution once, scaled once, same collective everywhere |

### Requests

| Component | State | What makes it correct |
|---|---|---|
| Scheduler | queue, running, last and chunked batch, KV pages | nobody lost, no page leaked, everybody answered |
| Request table and states (`memory_pool.py`) | rows, linear-attention states | owned once, the maps name what is held |
| Finish conditions (`Req.check_finished`) | output, stop tail, detokeniser offsets | the answer through the stop, each token once |
| Tokenizer manager | request table, reader/writer lock, pause gate | a pause drains, one answer sees one version, everything ends |
| Chat serving | buffers per choice | the stream is the answer |
| Weight updates (`MR`) | tensors, paths, process groups | a rank serves one whole checkpoint |

### Start

| Component | State | What makes it correct |
|---|---|---|
| Server arguments (`SA.__post_init__`) | the argument record, rewritten by one handler after the other | the result fits together |
| KV memory plan | profile, pools | pools within the memory, same on all ranks |
| Process start | step of each rank, barriers, timeouts | ranks meet, or fail together |
| Expert masks at boot | masks, budget, ranking | same on all ranks, within budget |
| KT layers at boot | store, masks of the load and of the kernel, pointer tables | every expert computed by one device that has it |
| LoRA adapter cache | four files that survive kills | an adapter is whole or split again |

How they interact. After each decode forward, `MR` 2517-2541 calls
`kt_adaptive_on_decode_step`, which reaches one layer per tick and runs the
adaptive cache or, with `KT_TIER_DYNAMIC`, the three-tier tick; the energy
mover is an alternative driver. A mover asks a selector for the new sets,
streams the weights through `SharedFullContext`, restages GPU slots, edits the
masks, and stages or releases experts in the CPU store. The prefetcher reads
promotion candidates ahead of time. The router and the kernels read the masks
in the next forward. The tokenizer manager and the scheduler exchange messages
through two queues; the scheduler hands batches to the model runner, which
pads them, chooses a graph or an eager pass, and gives them back.

What is hard: several ranks that run the same Python with private copies of
the masks and meet only in collectives; a CPU kernel that reads a pinned mask;
one scratch layer and one selection slot shared by all layers; moves of which
one half can fail on rank 0 only; copy and gather streams behind a host that
runs ahead; a scheduler that decides on results one batch old; buffers that
keep what earlier batches left; coroutines between a lock and a table; files
that survive a killed start.

Not modelled at all: kernels, quantisation and layout; model definitions other
than the DeepSeek and GLM blocks; the launchers, sizing heuristics and web
interfaces (start-up scripts and stateless front ends); benchmarks, the
placement instrument and its scoring (measurement). The last section lists
what the modelled components leave out.

## 2. Modules

Component modules state the variables, `Init`, one action per operation,
`Next`, the specification and the properties. An operator whose comment calls
it a (faulty) variant of the definition below it is used by no specification:
it is the defect that a property is shown to detect.

| Module | Models |
|---|---|
| `Residency` | the residency of one layer on all ranks, both kinds of load and of apply, what a forward computes |
| `ExpertTiers`, `EnergyTiers`, `AdaptiveCache` | the three movers, each on top of `Residency` |
| `PairSwap`, `TierPolicy`, `SharedMargin`, `BatchSelect` | the pairwise swap and the cuts a selector may return, as the mover relies on them (`TierCuts`); the three selectors, tick after tick |
| `Prefetcher`, `WeightStream`, `ScratchLayer`, `SlotPrefetch`, `TopKRoute`, `Lookahead` | the rest of the first table |
| `GraphRunner`, `ForwardPass`, `NsaMetadata`, `NsaDispatch`, `TritonMetadata`, `AttentionStack`, `MoeStack` | a pass of the model (`GraphRunner` includes the keep_k plumbing) |
| `Scheduler`, `RequestLife`, `ReqPool`, `FinishCheck`, `TokenizerManager`, `ChatStream`, `WeightUpdate` | requests; `RequestLife` is the client's view that the scheduler implements |
| `ServerArgs`, `KvPlan`, `RankBoot`, `BootMasks`, `LayerBoot`, `LoraCache` | the start |
| `ExpertTiersProofs`, `StagingProofs`, `ExpertsProofs`, `StackProofs`, `PassProofs`, `StartProofs`, `FrontProofs` | the proofs; lemmas on operators shared by several are at the end of `Residency`; `MCPass` takes `MoeStack` with its lemmas (`StackProofs`) |
| `MCPolicies`, `MCExperts`, `MCPass`, `MCRequests`, `MCFront`, `MCBoot` | instances for TLC |

The six MC modules put components side by side that belong together but share no
state. A variable `part` says which one a behaviour exercises; the variables of
the others are `Off`, except that a component the module extends (a mover, a
selector, the arguments) rests in one of its states. State spaces add up, they
do not multiply, and the composite property of a name is the conjunction of what
the parts promise under it. A part that is proved about gets constants of the MC
module (all parts of `MCBoot`; in the others the batch selector, the scratch
layer, the slot prefetch, the lookahead, routing, the kernel choice, the forward
pass that decodes or verifies, the layers and their attention), with a named
conjunction of the parts' assumptions (`StartAssumption`, `PoliciesAssumption`,
`ExpertsAssumption`, `PassAssumption`); the configuration gives the values, and
the proofs hold for all of them. Components that do share state are composed:
the movers extend `Residency`, `ExpertTiers` and `TierPolicy` meet in
`TierCuts`, `Scheduler` and `RequestLife` in a refinement mapping.

### State and actions against the code

* **`Residency`.** `gpuMask`, `ramMask`, `slotOf`, `weights` and `scratch` are
  per rank; `staged` and `skip` exist on rank 0. The bytes of an expert are its
  name; anything else is `Garbage`, so a read of a released page or of another
  layer's scratch is visible. `Numberings` leaves the slot order of a full
  restage open, because the order of expert ids means nothing to the
  properties. A load is one joint step; `WeightStream` is its inside.
* **`ExpertTiers`.** One action per step of `_kt_tier_update_layer`: `Decide`
  (rank 0, with its broadcasts), `Receive`, the load, `ApplyGpu` per rank,
  `RamLead`/`RamFollow`, and one `Evict`, `Promote`, `EvictFails` or
  `PromoteFails` per expert. `Receive` is enabled only when the buffer sizes
  agree: a collective with different sizes does not complete.
* **`EnergyTiers`.** Every rank decides by itself from the common energy and
  its own masks. `LeadMiss` is the early `continue` of rank 0 when the
  prefetcher has nothing, `LeadFails` the `except` branch.
* **`AdaptiveCache`.** `Forward` ends with the adaptive clock reaching the
  layer; `Prefill` fills the scratch layer and re-selects afterwards.
* **`PairSwap`, `TierPolicy`.** Operators return the *set* of possible results,
  because `argsort` is not stable. Ratios are pairs of naturals; the `1e-9`
  slack of a comparison is zero.
* **`SharedMargin`.** The margin is a ladder of levels with the shipped end
  points, the smoothed coverage is in thousandths, demand is fixed. The layers
  of the registry tick in turn.
* **`BatchSelect`.** Scores are integers with the shortest half-life; a row
  spreads its weight evenly over distinct experts, as a top-k does.
* **`Prefetcher`.** Every critical section is a step, and so is the `put` that
  `request` does after it has released the lock.
* **`WeightStream`.** The thread of every rank, the CPU backend and every copy
  stream interleave. A half of a buffer holds bytes tagged with load, position
  and completeness.
* **`SlotPrefetch`.** Three streams of device operations with their waits, a
  host that may run `MaxAhead` forwards ahead, and the settings of the launch
  scripts (`knob`).
* **`Scheduler`.** One `Pass` is one turn of the loop, split at the points
  where messages arrive or results are a batch old; KV is counted in pages.
* **`TokenizerManager`.** A coroutine's step is what it does between two
  awaits. The engine is abstract: it may deliver, finish or refuse what it was
  sent, in order.
* **`ServerArgs`.** The record is rewritten handler after handler, in the
  order of `__post_init__`; a refusal is a value of the result.
* **`RankBoot`, `LayerBoot`, `BootMasks`.** A rank's local step, a collective of
  all ranks, a fault on one rank, a timeout, the parent's signal.

## 3. Runs

| Run | Shows | Bounds |
|---|---|---|
| `tiers` | coherence, slots, budget, ladder and termination of a three-tier tick, and safe reads after a failure | 2 ranks, 5 experts, 2 slots, 2 RAM places, 2 swaps per tick, incremental up to 1, 1 failing move |
| `tiers_broadcast` | the finding: one failed promotion makes the next broadcast mismatch | 6 experts, 1 failure |
| `policies` | selectors keep the contract, trade only for a gain, and come to rest | counters 0-2 of 5 experts, tiers of 2 and 2; four layers of any of five kinds (1000, 850, 700 and 450 thousandths can be served, or no demand) on a ladder of 4 margins; 5 rows of experts |
| `policies_margin` | the finding: a margin that well-cached and under-cached layers share never rests | as `policies` |
| `prefetcher` | memory bound, no wasted, doubled or leaked read; a stable list is fetched | 4 keys, depth 3, 1 failing read, 2 takes |
| `stream` | rank 0 intact, short loads intact everywhere, nobody too early, no deadlock | 3 ranks, up to 4 experts, unboundedly many loads |
| `experts` | energy mover, slot prefetch, scratch layer, routing, lookahead | 2 ranks, 3-4 experts, 1-2 slots; host up to 2 forwards ahead; 1 miss or 1 failure; 3 passes |
| `pass` | adaptive cache, graph runner, forward pass, metadata, dispatch, attention, MoE | 2 ranks of the cache; 2-3 requests, 2 data-parallel ranks, 3-5 layers, lengths up to 4, 2-5 passes |
| `requests` | scheduler in four configurations, request table, finish conditions | 3 requests, pool of 9, 14 (pages of 2) or 40 tokens, 1 pause; 6 tokens of 5 kinds or groups of 3 |
| `front` | front end in five setups, chat streams, weight updates | 2 calls of up to 2 requests, 2 tokens, 2 updates, 1 pause; 2 choices; 2 ranks, 2 parameters, 3 updates from disk, 2 from a sender |
| `boot` | arguments of all launches, memory plans, ranks, masks, layers, adapter | 3 ranks on 1 node with any failing step and on 2 with a failing device or load, 3 layers, all strategies, 2 faults out of two sets (`Faults`: with and without those of one rank alone), 6 kills |

Why the bounds are enough. Five experts with tiers of two leave an SSD tier,
so all three tiers exchange members in one tick; two swaps with an incremental
limit of one reach both loads. Two ranks show every disagreement between rank
0 and the rest; the ranks other than 0 are alike, and three are used where a
third one can be alone (another node, a stream behind two others). Four layers
are the fewest that show what sharing a margin does: with the shipped smoothing
of 0.3, three layers in a row that are served completely lift an average of
0.78 over the upper edge of the band, and one that is served to 45 % brings it
back below the lower edge. Energies of
two values produce every order of two experts and all ties. Four experts reuse
each half of the buffer. Two forwards ahead are as far as a single-use flag
can be overtaken. Three requests are one that runs, one that waits and one in
chunks; the pools are smaller than their sum, so that retraction, preemption
and refusal happen. Two passes leave everything in a buffer that a later one
can find; dispatch takes three, because a choice is stale only after another
kind of pass in between. A server that runs for long is covered by unbounded
behaviours over bounded states in `stream`, `prefetcher`, `tiers`, `policies`
and `experts`; bounds on failures, pauses, kills and misses are constants of
their modules.

Deadlock is checked where the system must not stop (`policies`, `prefetcher`,
`stream`). In `tiers` and `experts` it really may: after a failed promotion the
ranks can meet in a broadcast of different sizes, after a miss they can
disagree on whether to restage. `pass`, `requests`, `front` and `boot` contain
parts that end: a bounded number of passes, requests, calls, or a start.

## 4. Fairness and liveness

* `tiers` (`TickEnds`): some step other than a failure is taken while one is
  possible. The forward threads block only in collectives, which are guards.
* `policies` (`SelectorsSettle`): the registry is walked round-robin, so a layer
  is ticked again and again. The resident sets come to rest with any registry.
  For the margin that is claimed only of layers that end up alike, none well
  cached (92 % or more) while another is under cached (80 % or less): layers of
  850 and 700 thousandths carry the average back and forth over the lower edge,
  and the band in which the margin is held is what stops it. Of mixed registries
  it is false: `policies_margin` runs the same selectors under the same fairness
  against the unconditional claim, and TLC returns the sweep that repeats.
* `prefetcher` (`StableWantFetched`): the worker (it blocks only on an empty
  queue) and the forward thread's requests and lookaheads (decoding goes on).
* `requests` (`AllAnswered`, `LivesOnce`): the loop runs on, and a paused engine
  is eventually continued, which is the operator's part.
* `front` (`AllEnd`): every coroutine that can run does, the scheduler works
  through its messages, the pause is ended, a woken coroutine runs before the
  pause loop's timer. Nothing is assumed about clients.
* `boot` (`EndsTogether`): every rank goes on with what it can do alone, a
  collective all have reached ends, timeouts and the parent's signal come, and
  after finitely many kills a start goes through.

A request, call, update or start happens a bounded number of times, so that
"each of them ends" is stated as `<>[]Settled`.

## 5. What is proved

The theorems hold for every set of experts, keys, layers or ranks and every
bound, from the named assumptions of the modules (finite sets, natural bounds,
distinct model values). A run checks the same definition on
its instance, in `experts`, `pass` and `policies` next to other parts.

**Three-tier tick** (`ExpertTiersProofs`). That a slot holds its expert depends
on what the scratch layer held when it was copied, that on what the store held
when it was streamed, and that on the order of all ranks' moves. `TickInv`
adds: ranks that have moved hold the cut, the others one old set
(`GpuLockstep`); rank 0 never advertises more than the others do, even after
failures (`RamLockstep`); the source of every load is staged and a loaded
scratch layer holds what the apply will read (`CutFacts`, `ScratchFacts`); what
the CPU computes is staged up to the promotions still due (`StoreFacts`). From
it follow `TickTypes`, `SlotsAlwaysCorrect`, `CpuReadsStaged`,
`GpuArrivalsWereInRam` (an action property) with any number of failures, and
`ForwardsAreCoherent`, `BroadcastsMatch`, `StoreWithinBudget` until the first;
`tiers_broadcast` shows that they cannot hold longer.

**Adaptive cache** (`PassProofs`). `CacheAlwaysServes` is proved without
the three-tier store (`~TierEnabled`) and with at least one slot. Both
hypotheses are the deployment of this mover: with a static RAM split the
property is false (finding 2), and without slots no tick runs. The invariant
says which ranks have applied the set that was broadcast (`SetsInStep`), that
sets fill the slots, so that no rank sees a different size and returns early
(`SlotsFilled`), and what a loaded scratch layer holds (`ScratchLoaded`).

**Energy mover** (`ExpertsProofs`). There is no broadcast, so the invariant
says where a rank is against one that has moved already: `RamInStep` relates
the RAM masks before and after a rank's own move through the plan it is about
to make, `GpuInStep` the resident sets before and after its own restage, and
`LoadIsBarrier` that a load holds everybody. Both hold until rank 0 misses or
fails a move (finding 1); `SlotsMatch`, `ScratchMatches` and `StoreMatches` keep
rank 0 right after that as well. `EnergyAlwaysServes` follows for any energies,
margins, misses and failures. That the hottest and the coldest expert and the
n hottest exist is an induction over a finite set; it is done by taking a
minimal counterexample (`MinimalSubset`, from the well-foundedness of strict
inclusion), which needs no induction schema.

**Scratch layer** (`ExpertsProofs`). `ScratchAlwaysServes`: four stages of a load
write the slots, and which experts a stage writes depends on the format, on the
residents and on what the load was asked for. `LoadedSoFar` says after each
stage which slots are right (`Due`: all but those of w4afp8 residents, which a
later copy replaces) and how often they have been converted; `ScratchStore`
says that what a swap may evict is staged. The theorem excludes four-bit weights without
the adaptive cache, where the property is false (finding 45).

**Slot prefetch** (`ExpertsProofs`). `ExpertsLandOnce`: the host may be any number
of forwards ahead, so the invariant is about three queues of any length.
`StreamsInv` says what is in them: main holds whole forwards in order
(`MainOrder`), a gather waits for its own selection and the experts of that
forward for that gather (`SideWaits`, `ExpertsWait`), a CPU half for its routing
and the sum for it (`CpuWaits`, `MergeWait`). Waits are distances to the head
of another queue, and waits on main grow along a stream, so at most one gather
is due, and the waits end at something that runs (`QueuesRun`). From the heads
alone follows what may be under way together (`Gathering`, `Predicted`):
a selection finds no gather, the experts of a predicted forward find theirs
over. On this rest `LandedInv` (a landed expert is fetched in this forward or
held since an earlier one), `HoldInv` (the hold table is what the slots hold, or
what the gather under way brings) and `ComputeInv` (what each half has computed,
with the prediction or without). `PrefetchSettings` excludes findings 7 and 8.
The faulty variant without the first wait (`EmitUnfenced`) breaks `SideWaits`.

**Lookahead** (`ExpertsProofs`). The other half of `ExpertsLandOnce`. `LookInv`
says that a prediction made in this pass stands in its inbox until its layer is
past, that a fetch is for a layer still to come, and that a layer's gate is
linked to a later layer, the same one with the stack and without. `LookSettings`
(a stacked gate reaches one layer) excludes finding 13.

**Routing** (`ExpertsProofs`). `RoutesAreHonest`: of a token's slots the kept ones
rank behind the others in the order in which stand-ins are given out (`DropOrder`),
and a pick that is not of the pool comes only after the whole pool (`StandIns`).
So a pool as large as the number of lost slots serves each of them
(`PicksSuffice`, by counting twice), heavier slots get better stand-ins, and no
expert is computed twice, because the pool holds nothing the router chose. The
lemma about Cardinality (`RouteSizes`) only says that an instance counts as the
library does. `RouteSettingsOk` excludes finding 11.

**Prefetcher** (`StagingProofs`). The worker's key, the key being put and the
queued keys are pairwise different, and a key is both ready and in flight only
between the two critical sections of the worker. This makes `ready` a proper
subset of what is held while a read waits to be published, so that the room
check of `_run` cannot fail. `ReadsAreAccounted` states all of `ReadsAccounted`.

**Weight streaming** (`StagingProofs`). `CopiesAreIntact`: `Submitted` counts
the writes against every rank's position, `LoopInv` says where a rank of the
loop can be against rank 0, `WriteInv` which position each half of the double
buffer holds, and `BufInv` that a write never overtakes rank 0's own copy from
that half. Loads of one or two experts are intact on all ranks, because each
half is written once per load and the loop ends with a barrier.

**Tier selector** (`StagingProofs`). `TicksKeepContract`: every tick returns a cut in
the sense of `TierCuts`, which is all that `ExpertTiers` assumes of a
decision, so the two theorems together cover the loop of selector and mover.
The sizes are the argument: the number of swaps is at most the budget and either
side (`SwapsBounded`, which needs that a bounded set of naturals has a greatest
member, again by a minimal counterexample), an exchange of as many for as many
keeps the size (`SwapInKeepsSize`), and trimming or filling ends with exactly the
number asked for, because the experts left by the GPU tier suffice
(`ResizeIsExact`). None of it depends on the counters, so it holds for every
order a tie is sorted in.

**Batch selector** (`StagingProofs`). `SwapsAreEarned`: the number exchanged is at
most the number of candidates (`SwapCountBounded`), so as many leave as come in
(`BatchKeepsSize`); a newcomer was desired and a leaver was not, so the order of
effective scores separates them by bonus and cost; and a protected expert is a
candidate only when every undesired resident is one.

**Kernel choice** (`PassProofs`). `IndicesAlwaysFit`: with the default backends the
ragged form is chosen only for an extend pass that runs the sparse kernel
(`RaggedIsExtend`), and there the offsets and the flattened table are made. The
hypothesis is that the user sets no prefill backend (finding 43).

**Collectives of a pass** (`PassProofs`, the layers' part in `StackProofs`). `CollectivesAlwaysMatch` is about ranks
that hang if they differ. Under data-parallel attention all ranks
choose graph or eager pass, and so the length of the gather, from the same
modes of all batches (`DecodesMeet`, `VerifiesMeet`). In the
layers a rank meets others at up to nine phases; which of them a layer has
depends on the launch, on whether the layer is dense, on a pass's graph and on
how the mega kernel is capped, all of which the ranks read the same
(`SamePlan`). `RankInPlace` says that a rank is on the path its plan gives it,
`InStep` that nobody is past a phase that another one, not yet through it, goes
through as well; two waiting ranks are then at the same phase of the same layer.

**Outputs of the layers** (`PassProofs`, lemmas in `StackProofs`). `OutputsAlwaysWhole`: the parts of an
output (dense, GPU, CPU, shared) are made at different places and summed over
the ranks at one of three, or not at all where a path computes them whole.
`LedgerInv` says at every place what a rank holds: one share of each part until
the sum, the CPU part on rank 0 alone, all shares after it, and the routed part
scaled once all the way. It uses the order of the phases from `StackInv`. That
a sum over any number of ranks is what its terms say (`SumOfOnes`, `SumOfOne`,
`SumCovers`) is not taken from a library: a sum that takes the members in the
order of a choice is shown to exist and to be unique, again by a minimal
counterexample. `ScaledAndSummedOnce` is what a launch must be: it excludes
findings 47 and 48, and combinations that no launch can ask for or that
`communicator.py`, which is not in the repository, would have to refuse (CPU
experts with the fp4 all-gather, a fused sum after an unsharded dense layer).

**Passes of the model runner** (`PassProofs`). `PassesServeTheirBatch` follows a
batch through padding, graph or eager dispatch and the way back. Whatever the
padding, a rank's length holds its tokens in whole shares of the ranks that have
the same batch (`Holds`, `LengthsHold`: rounding up twice and the maximum over
ranks keep it); hence no row of a request is cut off (`DecodeRows`,
`VerifyRows`), and the shares of the attention ranks add up to the real tokens
(`TokensShared`, from `SharesAddUp` in `StackProofs`, which holds in whatever
order the sum is taken). A split prefill that is under way finds the metadata of
its first part, because decodes between two parts write those of their own
stream group (`SplitInv`).

**Attention of a pass** (`PassProofs`). `SelectionsAlwaysOfThisPass`: the slot
holds what the last layer's source selected, a replayed graph what each earlier
source selected (`SelectionInv`); a layer without an indexer has the source of
the layer before it (`SourceSteps`). `CachesInv` says what each layer has stored
of each request, according to the half the request is in and how far that half
is; from it follow complete keys, and that prefix and new tokens are counted
once by all four methods. `OwnersFirst` excludes finding 46: sparse passes are
not split and the first layer owns an indexer.

**Start** (`StartProofs`). The theorems are stated of `MCSpec` of `MCBoot`, for all
values of its constants; what holds of a part is an inductive invariant of that
part and is kept while another one is exercised (`InitOfPart`, `StepOfPart`).
`SplitIsWhole`: the file written last is never there before the tensors
(`LastFileInv`), however often starts are killed. `ReadyRanksAreLoaded`: the
barrier after loading (`LoadedInv`). `RanksStayAgreed` has four parts. Before
their first routed layer the ranks differ in masks but hold no entry; the
broadcast meets all of them there; afterwards a rank has one entry per routed
layer it is past (`MasksAgree`, from `BuiltInv` and `AgreeInv`). Hotcore without
a ranking raises on no rank (`HotcoreBoots`). The registries of a server that is
up are the same (`RegistriesAreOne`). The ranks gather from the same store or
none does (`TablesAreOne`, from `TableInv`), in a start of which no fault can
strike one rank alone (`OnlySharedFaults`: not `"kernels"`, not `"map"`; findings
38, 39). `ExpertsServedOnce`: the store is what the load mask left out and the
live mask replaces it (`StageInv`).

**Front end and weight updates** (`FrontProofs`). `PausesDrain` and
`WeightsAreWhole` hold for any calls, requests, clients, updates, ranks and
parameters, and for every interleaving of the coroutines with the scheduler and
the two queues. The invariant is made in layers, each of which uses the ones
before it:

* `LockInv`: who is being served reads, a writer is alone and its update is on
  its way; without pauses every update that was sent holds the lock.
* `FlightInv`: while at most one update passes (`OneUpdate`: no pause, or one
  update), only the newest is in a queue, as a request or as a result, once, and
  its future is open. So `ResultIsOwn`, and no result is set twice.
* `SentInv`, `EndInv`: a request is sent once and in order, and whatever says
  that it is over (a message, an output that waits, what the client saw) is said
  of one the scheduler has finished with, and that stays so.
* `TableInv`, `KnownInv`: a request that is not over has its state in the table,
  and the one message that ends it still finds the state there, unless a health
  check took its own away. So `handle_loop` does not die of a late abort notice.
* `CallInv`, `VersionInv`: a call that ended regularly was told the end of all its
  requests; hence when a writer holds the lock, whatever is on-going belongs to
  calls that gave up, and an answer has one version.
* `PauseInv`, `ObeyInv`: after a drained pause nobody is inside the gate, and as
  long as the scheduler refuses nothing and every prompt is valid, only health
  checks and clients that left end before their requests do (`PauseQuiet`).

`OneUpdate` is needed because two updates of a paused engine share a future
(finding 27), `Obeyed` because one refused request of a batch ends the whole
call while the others run on. `DiskInv` and `UpdateInv` follow a rank through an
update: what it has copied is from the path it took over, and between two
requests from disk it has one checkpoint.

**Left to TLC.** Liveness, which needs fairness; whatever is computed by
recursion or folds over data, which would need induction schemas (the
selectors' sums, the tiers of a graph's rows, metadata, the argument
handlers' combinations, the text of a chat stream); and, so far, the safety of the scheduler.

## 6. Findings

`tiers_broadcast` and `policies_margin` are the disagreements kept as runs. The others were met
with instances of the same modules; the constants or the setting that shows
each is named in brackets. The properties that the passing runs check exclude
these settings or are stated so that they hold beside them.

Experts:

1. `K`:6372. A prefetch miss on rank 0 skips a move the other ranks perform; the
   comment at `K`:6376 says the masks stay in lockstep (`MaxMisses = 1`).
2. `K`:5799. Under a static split with an empty SSD tier the adaptive tick runs,
   but skip mask and store do not follow it, against `K`:5796
   (`AdaptiveCache`, `TierEnabled`).
3. `K`:5721. A failed promotion changes the RAM mask of rank 0 only, and so the
   size of its next broadcast; `K`:5577 (`tiers_broadcast`).
4. `K`:3488. In the two-tier setup the RAM mask is a boot-time snapshot the
   router goes on reading; an expert swapped out later is reachable to nobody,
   although `D`:1591 says `reach_vec` is all-True.
5. `K`:6424. A GPU restage of the energy mover leaves the promoted expert in the
   RAM mask, against the "three DISJOINT tiers" of `K`:210. `CoherentForward` of
   `EnergyTiers` is stated for disjoint tiers.
6. `K`:1600. Rank 0 reuses a half of the buffers of all ranks after its own copy
   event only; docstring at `K`:1460 (2 ranks, 3 experts). The residency modules
   take a load as one intact step and so assume that copies keep up.
7. `K`:329. `KT_PREFETCH_WAIT=0` turns the routing flip off but not the CPU skip,
   so landed experts are computed by nobody; `K`:270, `K`:327 (`wait = FALSE`).
8. `K`:4480. An SSD-tier expert is gathered from rows that were never filled, and
   with reuse 2 published later; `K`:3727 (`reuse = 2`, `tier = TRUE`).
9. `D`:1461. The threshold for keeping no expert is the same for levels 1 to 75;
   `S/entrypoints/openai/serving_chat.py`:80 reserves it to levels above 75.
10. `D`:1436. `KT_ADAPT_NUCLEUS_P` wins over a request's adaptive level; `D`:1479,
    `D`:1507 (`NucleusP > 0`).
11. `D`:1596. GPU-only routing fills from a pool with RAM experts when
    `KT_TIER_FILL_POOL` is resident; `D`:1220 (`gpuOnly`, pool `resident`).
12. `D`:955. The first layers with experts score against an inbox nobody filled;
    `D`:878 (`score` before the pre point).
13. `D`:832. `KT_PRED_FUSED_DEPTH` is read by one of the two fused paths; `D`:824.
14. `D`:968. The depth-0 self-check reads P/K, not 100 %, for P below K; `D`:950.
15. `K`:5331. One margin for layers of both kinds rises and falls for ever;
    `K`:5410, `K`:5418 (well-cached and under-cached layers in one registry;
    `policies_margin`). The resident sets rest all the same.
16. `K`:6523. A rank that looks for the reset flag after another one has removed
    it is never reset; `K`:6542.
17. `src/bench/placement_score.py`:145, 236. Snapshots mix prefill calls, earlier
    tiers or an earlier server into a window, against lines 127, 153 and 224.

Scheduler:

18. `S/managers/schedule_policy.py`:915. Preemption sizes the need with 0 and can
    lose its victims; line 888 (`Priority` with a small pool).
19. `SCH`:2962. Pausing merges an emptied batch; rows and requests differ
    (`PauseMidPrefill`).
20. `SCH`:2709. A flush after an in-place pause clears KV the chunked request
    holds; `S/entrypoints/http_server.py`:741.
21. `SCH`:1371. A health check that meets a finished batch is never answered
    without overlap; `S/entrypoints/http_server.py`:490 (`MaxHealth`, no overlap).
22. `S/managers/schedule_policy.py`:786. A request close to the pool's size is
    valid but never admitted; `SCH`:2226 (`MaxInput` near `Total`).
23. `S/managers/schedule_batch.py`:1061, 955. With groups of accepted tokens a
    length stop keeps what follows an end token, and a stop string inside a
    group is missed; lines 819 and 603 (`MaxGroup > 1` with a stop string).

Front end:

24. `TM`:2088. An aborted request whose consumer is gone stays in the table and
    holds the watchdog; table at `TM`:2435.
25. `TM`:2052. The watchdog can kill the process between the last deletion from
    the table and the answer; `TM`:2417. `Exiting` has no clients that leave.
26. `TM`:1104. Only the last of several segments is passed on with
    `stream_output`; `SA`:3657 (`segments`). The chat stream drops the head of
    every later segment for the same reason (`serving_chat.py`:776).
27. `TM`:1373. Two updates of a paused engine overwrite each other's future;
    `TM`:376 (two updates and a pause; the properties say `OneUpdate`).
28. `TM`:1319. A cancelled stream releases the reader lock while its request runs
    on; `TM`:1315 (`abortLeft = FALSE`).
29. `serving_chat.py`:837, 1113. Logprobs of a token whose text is held back are
    lost; alternatives of every token of an output are read at index 0.

Start:

30. `SA`:3083. Deterministic inference disables the radix cache after the check
    against hierarchical caching; `SA`:2988.
31. `SA`:2477. `ep_size` changes after cutlass was checked against it; `SA`:2470.
32. `SA`:1075. The draft's quantisation is copied before the target's is set;
    `SA`:1073.
33. `SA`:3065. The fallback for an unset attention backend is dead; `SA`:3049.
34. `SA`:3135. The test that should disable pipelining is inverted; `SA`:3137.
35. `SA`:1297. `cuda_graph_max_bs` itself is never captured; `SA`:4903.
36. `SA`:180. A start killed between open and write of the last configuration
    file leaves a directory that passes; `SA`:128 (`LoraCache`, configurations
    whole).
37. `S/model_executor/model_runner_kv_cache_mixin.py`:82, 458. Latent pools are
    sized from `qk_nope_head_dim`; requests are derived before the ranks agree on
    tokens (`attn = "mla"`; `pp = 2` without `maxreqs`).
38. `K`:4361. A rank without kernels leaves before a broadcast the others enter;
    `K`:3966 (fault `"kernels"`).
39. `K`:4428. A rank without a mapping keeps no table while the others do;
    `K`:4335 (fault `"map"`).

Pass:

40. `MR`:1225, 1308. "Rolling back" reloads the path that failed; an unknown send
    group raises where an answer is written.
41. `MR`:2522. With data-parallel attention one rank ticks while another extends;
    `MR`:2519 (`ForwardPass`, ranks with different modes).
42. `S/layers/attention/nsa_backend.py`:2152. An eager draft gives every step the
    lengths of the first; line 2174 (draft batch above the captured sizes).
43. `nsa_backend.py`:2084. `flashmla_sparse` with an fp8 cache makes a verify pass
    ragged without offsets; line 1398 (`UserPrefill`).
44. `S/layers/attention/triton_backend.py`:907. The window of a verify pass starts
    too early by the draft tokens; line 898 (deterministic, window, speculation).
45. `K`:2221. The int4 branch of a load copies no residents from the decode
    layer; `K`:1761 (`int4` without the adaptive cache).
46. `D`:2918, 3517; `S/configs/model_config.py`:111. The selection slot is shared
    by the two halves of a split pass, by a stage that starts inside a group, and
    read before it is made with the default offset; `D`:2914, `D`:2898,
    `model_config.py`:90 (`nsa` with `tbo`; `StartLayer > 0`; `offset = 0`).
47. `D`:2884. Two-batch overlap scales routed output again when the factor is
    fused into the top-k weights; `D`:2591 (`tbo`, quant `topk`).
48. `S/models/glm4_moe.py`:489. Mooncake goes through the tensor-parallel path
    with unsharded shared experts; line 467 (`glm`, `mooncake`).

## 7. Hazards beyond the list

`PROJECT.json` lists forty hazards. One has no property: an exception in the
restage of one rank (`K`:6428) is swallowed while the others wait in a barrier,
and the models have no such exception. Others that the modules exercise without
a hazard of their own: recapture after a change of the hidden-state mode,
reordering of the outputs of several choices, stale score inboxes after a
stacked pass, a pipeline stage with fewer layers, a KV profile below the
smallest pool.

## 8. Left out, per component

* Movers: profile, ROI and coverage logging, dumps; exceptions inside a restage
  on one rank; counters' decay.
* Adaptive cache: that a re-selection ends and that every expert is reachable
  are not among the properties (the second is false, finding 4); nor that a
  single load ends, beyond the absence of deadlock in `stream`.
* Slot prefetch: the boot self-check; which bytes a pointer table names.
* Scratch layer: leftovers outside a narrow load are garbage.
* Lookahead: score rows; the chain lookahead in `src/bench`.
* Graph runner: the capture itself, torch.compile, two-batch overlap, LoRA.
* Forward pass: the padding mode is an input; mrope, LoRA and the elastic retry.
* NSA: contents of precomputed metadata, in-sequence split, DRAFT_EXTEND_V2,
  ROCm; Triton: draft extension, encoder-decoder; core counts are a set.
* Attention: projections, rotary embedding, chunk boundaries, ROCm, NPU, CPU.
* MoE: the layer communicator is external; Intel CPU path; context-parallel
  layers.
* Scheduler: prefix sharing, speculative decoding, LoRA, sliding windows,
  diffusion models, disaggregation, pipeline parallelism, grammar queues.
* Finish conditions: stop regexes (a second tail search); `ignore_eos` is the
  instance without end tokens.
* Front end: parallel sampling, the LoRA registry, sessions, more than one
  data-parallel rank. Chat: parsers and templates external.
* Weight updates: elastic relocation, recapture of graphs afterwards.
* Arguments: HPU, NPU, CPU and ROCm branches, vision, the command line grammar;
  the reserve for in-sequence context parallelism with several data-parallel
  ranks. Memory plan: DeepSeek V4's and Ascend's pools, double sparsity; dense
  pools with different value dimensions.
* Boot: dense layers after the first MoE layer; which experts a seed picks.

## 9. Plan

The models cover the components of section 1. What is left is proof work, in
this order: the request table (`ReqPool`); the scheduler's refinement of
`RequestLife`; the metadata of a pass.

## 10. Running

    tlc -config tiers.cfg ExpertTiers
    tlapm ExpertTiersProofs.tla

and likewise for the other rows of section 3 (module and configuration of each
run are in `PROJECT.json`).
