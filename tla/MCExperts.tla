----------------------------- MODULE MCExperts -----------------------------
(* One MoE layer's experts, from the router to the slots: the energy-      *)
(* driven mover, the slot prefetch, the scratch layer, the substitution in *)
(* the router and the lookahead predictor.  They share no state here: a    *)
(* behaviour exercises one of them (part); the mover rests in an initial   *)
(* state, the others are Off.                                              *)
EXTENDS EnergyTiers, TLC

CONSTANTS
    Off,        \* the value of every variable of a part that rests
    Nobody,     \* no expert
    MaxFaults,  \* bound: misses and failed moves of the energy mover together
    SlotExperts, SlotGpu, SlotTopK, SlotKnobs, SlotAhead,   \* SlotPrefetch
    SlotHit, SlotGrace, SlotCap,
    LookLayers, LookFirst, LookTMax, LookTokens, LookPasses, LookSetups, \* Lookahead
    ScratchLayers, ScratchExperts, ScratchGpu, ScratchCases, \* ScratchLayer
    RouteExperts, RouteSlots, RouteWeight, RouteCount, RouteSettings \* TopKRoute

VARIABLES
    part,
    knob, table, inStore, ram, resident, issued, phase, queue, sel, landed,   \* SlotPrefetch
    landedCpu, index, hold, score, slots, ids, gpuOut, cpuOut,
    format, adaptive, onGpu, held, slot, marked, job, loadPc,                 \* ScratchLayer
    config, tier, arrived, fresh, keepK, routerIds, w, rank, keep, outIds,    \* TopKRoute
    outW, voted, done,
    setup, pass, rows, at, inbox, scored, next, linked, fetches               \* Lookahead

MCMargin == <<3, 2>>

(* The shipped routing flip, and the settings it is combined with in the   *)
(* repository's launch scripts.                                            *)
Ship == [slots |-> 2, selective |-> TRUE, reuse |-> 1, route |-> TRUE, cpuskip |-> TRUE, wait |-> TRUE,
         fused |-> TRUE, moves |-> FALSE, tier |-> FALSE, gpuOnly |-> FALSE]
Flips == {Ship, [Ship EXCEPT !.fused = FALSE, !.reuse = 0], [Ship EXCEPT !.tier = TRUE],
          [Ship EXCEPT !.reuse = 2, !.moves = TRUE],
          [Ship EXCEPT !.reuse = 2, !.selective = FALSE, !.moves = TRUE, !.gpuOnly = TRUE]}

(* With one slot the host runs ahead of the device by more than one        *)
(* forward.                                                                *)
SomeKnobs == Flips \cup {[k EXCEPT !.slots = 1] : k \in Flips}
SomeAhead == <<2, 0>>
Slots == INSTANCE SlotPrefetch WITH
    Expert <- SlotExperts, staged <- inStore, NGpu <- SlotGpu, TopK <- SlotTopK, Garbage <- Off, NoExpert <- Nobody,
    Knobs <- SlotKnobs, Hit <- SlotHit, Grace <- SlotGrace, Cap <- SlotCap, MaxAhead <- SlotAhead

(* Every format of the weights that a layer can be read into the scratch   *)
(* layer from; four-bit weights with the adaptive cache only.              *)
AnyEvicted == ({"mxfp4", "w4afp8", "fp8", "fp8_channel", "bf16"} \X BOOLEAN) \cup {<<"int4", TRUE>>}
Scratch == INSTANCE ScratchLayer WITH
    resident <- onGpu, store <- held, pc <- loadPc,
    Layers <- ScratchLayers, Experts <- ScratchExperts, NumGpu <- ScratchGpu, Cases <- ScratchCases, Garbage <- Off

(* Both modes, both pools, two and three tiers, and GPU-only routing.      *)
Setting(mode, pool, gpuOnly, three) ==
    [mode |-> mode, fillPool |-> pool, gpuOnly |-> gpuOnly, threeTier |-> three]
SomeSettings ==
    {Setting("drop", "gpu", FALSE, FALSE), Setting("safe", "gpu", FALSE, FALSE),
     Setting("safe", "gpu", FALSE, TRUE), Setting("safe", "resident", FALSE, TRUE),
     Setting("safe", "gpu", TRUE, FALSE)}
Route == INSTANCE TopKRoute WITH
    landed <- arrived, issued <- fresh, ids <- routerIds,
    NumExperts <- RouteExperts, E <- RouteSlots, MaxWeight <- RouteWeight, CountK <- RouteCount,
    Configs <- RouteSettings

Base == [depths |-> {0, 1, 2}, point |-> "pre", score |-> TRUE, hash |-> {}, blind |-> {},
         fetch |-> 1, fused |-> FALSE, stack |-> FALSE, reach |-> 1, stride |-> 1]
Fused == [Base EXCEPT !.depths = {}, !.fused = TRUE]
SomeSetups ==
    {[Base EXCEPT !.point = p, !.blind = b, !.fetch = f, !.hash = h] :
        p \in {"pre", "post"}, b \in {{}, {2}}, f \in 1 .. 3, h \in {{}, {1}}}
    \cup {[Base EXCEPT !.depths = {3}, !.fetch = 3, !.point = p] : p \in {"pre", "post"}}
    \cup {[Fused EXCEPT !.stack = s, !.stride = k] : s \in BOOLEAN, k \in 1 .. 3}
    \cup {[Fused EXCEPT !.reach = 2, !.stride = k] : k \in 1 .. 2}
Look == INSTANCE Lookahead WITH
    NL <- LookLayers, FirstMoe <- LookFirst, TMax <- LookTMax, TokenCounts <- LookTokens,
    MaxPasses <- LookPasses, None <- Off, Setups <- LookSetups

ASSUME ExpertsAssumption ==
    /\ EnergyAssumption /\ Slots!SlotPrefetchAssumption
    /\ Scratch!ScratchAssumption /\ Route!TopKRouteAssumption
    /\ Look!LookaheadAssumption

slotVars == <<knob, table, inStore, ram, resident, issued, phase, queue, sel, landed, landedCpu,
              index, hold, score, slots, ids, gpuOut, cpuOut>>
scratchVars == <<format, adaptive, onGpu, held, slot, marked, job, loadPc>>
routeVars == <<config, tier, arrived, fresh, keepK, routerIds, w, rank, keep, outIds, outW, voted, done>>
lookVars == <<setup, pass, rows, at, inbox, scored, next, linked, fetches>>
MCVars == <<part, vars, slotVars, scratchVars, routeVars, lookVars>>

EnergyRests == Init /\ gpuMask[0] = {1, 2} /\ ramMask[0] = {3} /\ slotOf[0][1] = 0
SlotsOff == /\ knob = Off /\ table = Off /\ inStore = Off /\ ram = Off /\ resident = Off
            /\ issued = Off /\ phase = Off /\ queue = Off /\ sel = Off /\ landed = Off
            /\ landedCpu = Off /\ index = Off /\ hold = Off /\ score = Off /\ slots = Off
            /\ ids = Off /\ gpuOut = Off /\ cpuOut = Off
ScratchOff == /\ format = Off /\ adaptive = Off /\ onGpu = Off /\ held = Off
              /\ slot = Off /\ marked = Off /\ job = Off /\ loadPc = Off
RouteOff == /\ config = Off /\ tier = Off /\ arrived = Off /\ fresh = Off /\ keepK = Off
            /\ routerIds = Off /\ w = Off /\ rank = Off /\ keep = Off /\ outIds = Off /\ outW = Off
            /\ voted = Off /\ done = Off
LookOff == /\ setup = Off /\ pass = Off /\ rows = Off /\ at = Off /\ inbox = Off /\ scored = Off
           /\ next = Off /\ linked = Off /\ fetches = Off

RoutersOff == ScratchOff /\ RouteOff /\ LookOff
MCInit ==
    \/ part = "energy" /\ Init /\ SlotsOff /\ RoutersOff
    \/ part = "slots" /\ Slots!Init /\ EnergyRests /\ RoutersOff
    \/ part = "scratch" /\ Scratch!Init /\ EnergyRests /\ SlotsOff /\ RouteOff /\ LookOff
    \/ part = "route" /\ Route!Init /\ EnergyRests /\ SlotsOff /\ ScratchOff /\ LookOff
    \/ part = "look" /\ Look!Init /\ EnergyRests /\ SlotsOff /\ ScratchOff /\ RouteOff

routerVars == <<scratchVars, routeVars, lookVars>>
MCNext ==
    /\ UNCHANGED part
    /\ \/ part = "energy" /\ Next /\ misses' + failures' <= MaxFaults /\ UNCHANGED <<slotVars, routerVars>>
       \/ part = "slots" /\ Slots!Next /\ UNCHANGED <<vars, routerVars>>
       \/ part = "scratch" /\ Scratch!Next /\ UNCHANGED <<vars, slotVars, routeVars, lookVars>>
       \/ part = "route" /\ Route!Next /\ UNCHANGED <<vars, slotVars, scratchVars, lookVars>>
       \/ part = "look" /\ Look!Next /\ UNCHANGED <<vars, slotVars, scratchVars, routeVars>>

MCSpec == MCInit /\ [][MCNext]_MCVars

(* The experts of the slot prefetch are interchangeable.                   *)
Symmetry == Permutations(SlotExperts)

(* With experts streamed into landing slots ahead of their layer, each     *)
(* routed expert is computed once, by the GPU with its own weights or by   *)
(* the CPU, however far the host runs ahead; what reuse relies on (the     *)
(* hold table is true, no expert in two slots) holds, no gather follows a  *)
(* null row, and the waits between the streams resolve.  Every fetch the   *)
(* predictor issues in a pass is joined in it, a score is about a          *)
(* prediction of this very pass, and the stacked and the unstacked         *)
(* predictor have the same sites.                                          *)
LandedOnce ==
    /\ part = "slots" => /\ Slots!EachExpertOnce /\ Slots!HoldIsTrue /\ Slots!NoTwinSlots
                         /\ Slots!NoNullGather /\ Slots!GpuOnlyMeansNoCpu /\ Slots!WaitsResolve
    /\ part = "look" => Look!FetchesJoined /\ Look!SourcedThisPass /\ Look!SameSites

(* What a prefill or a swap reads out of the scratch layer are the bytes   *)
(* of its own layer and expert, in the layout of the GPU kernel.           *)
ScratchServes == part = "scratch" => Scratch!SlotsOfThisLayer /\ Scratch!ConvertedOnce

(* The substitution of a token's experts keeps the genuine top K whenever  *)
(* they can be computed, gives no mass to an expert nobody can compute,    *)
(* counts none twice, loses no slot while stand-ins are left, and does not *)
(* let a stand-in vote for itself.                                         *)
RoutingHonest ==
    part = "route" =>
        /\ Route!NoUnreachableMass /\ Route!NoDoubleExpert /\ Route!TopKGenuine
        /\ Route!NoSlotLost /\ Route!StandInsInOrder /\ Route!StandInsDoNotVote
        /\ Route!CpuPathZero
==============================================================================
