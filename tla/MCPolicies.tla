---------------------------- MODULE MCPolicies ----------------------------
(* The three selectors that decide which experts move: the three-tier      *)
(* selector and the adaptive selector with the margin that all layers      *)
(* share, tick after tick on stable demand, and the weighted selector of   *)
(* routed batches.  A server runs one of them: part says which, and the    *)
(* others rest.                                                            *)
EXTENDS TierPolicy

CONSTANTS
    None,
    BatchExperts, Keep, RowRanks, RankCredit, ResidentBonus, PromotionCost,   \* BatchSelect
    LeastSwap, MostSwap, ClassGrace, RouterRows, SettledRow

VARIABLES
    part,
    layerCounts, layerGpu, level, ema, ptr,    \* SharedMargin
    score, age, resident, settled, swap        \* BatchSelect

Ladder == << <<51, 50>>, <<13, 10>>, <<5, 2>>, <<6, 1>> >>
\* Layers by the share of their demand that two GPU experts can serve: 1000 (well cached),
\* 850 (in the band), 700 and 450 (under cached), and a layer without demand yet.
Profiles == {<<9, 9, 0, 0, 0>>, <<9, 8, 2, 1, 0>>, <<9, 5, 3, 2, 1>>, <<5, 4, 4, 4, 3>>, <<0, 0, 0, 0, 0>>}
Shared == INSTANCE SharedMargin WITH
    counts <- layerCounts, gpu <- layerGpu, Expert <- 1 .. 5, MinEvents <- 1, NLayers <- 4, NGpu <- 2,
    Demands <- [1 .. 4 -> Profiles],
    Starts <- {[l \in 1 .. 4 |-> S] : S \in {{1, 2}, {4, 5}}}, Margins <- Ladder,
    BaseLevel <- 2, CovLow <- 800, CovHigh <- 920, Alpha <- 3, MaxSwap <- 2

Batches == INSTANCE BatchSelect WITH
    Experts <- BatchExperts, K <- Keep, TopK <- RowRanks, Credit <- RankCredit,
    Bonus <- ResidentBonus, Cost <- PromotionCost, MinSwap <- LeastSwap, MaxSwap <- MostSwap,
    Grace <- ClassGrace, Rows <- RouterRows, Settled <- SettledRow
MCCredit == <<6, 5, 3>>
MCGrace == [top2 |-> 0, strong |-> 1, weak |-> 0]
MCRows == {<<1, 2, 3>>, <<2, 1, 4>>, <<3, 4, 1>>, <<4, 5, 3>>, <<5, 3>>}
MCSettled == <<4, 5, 1>>

ASSUME PoliciesAssumption == Shared!SharedMarginAssumption /\ Batches!SelectAssumption

MCMargin == <<13, 10>>
MCMinGain == <<1, 1000>>
MCRamMargin == <<21, 20>>
MCRamMinGain == <<1, 50000>>

sharedVars == <<layerCounts, layerGpu, level, ema, ptr>>
batchVars == <<score, age, resident, settled, swap>>

TiersRest == counts = [e \in Expert |-> 0] /\ gpu = {} /\ ram = {}
SharedRests == /\ layerCounts = [l \in 1 .. 4 |-> <<0, 0, 0, 0, 0>>] /\ layerGpu = [l \in 1 .. 4 |-> {}]
               /\ level = 2 /\ ema = None /\ ptr = 1
BatchesRest == score = None /\ age = None /\ resident = {} /\ settled = FALSE /\ swap = None

MCInit == \/ part = "tiers" /\ Init /\ SharedRests /\ BatchesRest
          \/ part = "adaptive" /\ Shared!Init /\ TiersRest /\ BatchesRest
          \/ part = "batches" /\ Batches!Init /\ TiersRest /\ SharedRests

TierTick == part = "tiers" /\ Tick /\ UNCHANGED <<part, sharedVars, batchVars>>
AdaptiveTick == part = "adaptive" /\ Shared!Tick /\ UNCHANGED <<part, vars, batchVars>>
RoutedBatch == part = "batches" /\ Batches!Next /\ UNCHANGED <<part, vars, sharedVars>>
MCNext == TierTick \/ AdaptiveTick \/ RoutedBatch

MCSpec ==
    /\ MCInit /\ [][MCNext]_<<part, vars, sharedVars, batchVars>>
    /\ WF_vars(TierTick) /\ WF_sharedVars(AdaptiveTick)
    /\ WF_batchVars(part = "batches" /\ Batches!SettledBatch)

(* A batch leaves the GPU full, brings in only experts that outscore the   *)
(* ones they replace by bonus and cost, and evicts a protected expert only *)
(* when every candidate is protected.                                      *)
SwapsEarned ==
    part = "batches" => Batches!AlwaysFull /\ Batches!NewcomersEarnIt /\ Batches!GraceHonoured

(* On stable demand every selector comes to rest: the three tiers stop     *)
(* moving experts; so do the layers that share a margin, and the margin    *)
(* itself unless well-cached and under-cached layers share it;             *)
(* under-cached layers are chased down to the lowest margin although they  *)
(* share one controller; and traffic that settles on one row ends with its *)
(* experts on the GPU.                                                     *)
SelectorsSettle ==
    /\ Quiesces
    /\ Shared!SetsSettle /\ Shared!AlikeSettles /\ Shared!AllChase
    /\ Batches!HotSetSettles

(* "So it settles instead of ringing", of any registry: the one margin     *)
(* comes to rest on stable demand.  With three well-cached layers and an   *)
(* under-cached one it does not.                                           *)
MarginSettles == Shared!MarginSettles
===========================================================================
