------------------------------ MODULE LayerBoot ------------------------------
(* How the KT layers of a server come up: on every rank, layer after layer,    *)
(* the wrapper is built, rank 0 stages experts in the CPU store and restores   *)
(* the mask the CPU kernel reads live, the pointer table of the prefetch is    *)
(* built around a broadcast, and the layer enters the registries               *)
(* (KTEPWrapperMethod.__init__, create_weights, process_weights_after_loading, *)
(* pf_build_table).                                                            *)
EXTENDS Naturals, FiniteSets, Sequences

CONSTANTS
    Ranks,                  \* tensor-parallel ranks; 0 owns the CPU store
    NumLayers, Experts,
    Gpu, Ram,               \* per layer: boot residents; RAM tier when tiered
    Modes,                  \* subset of "static", "adaptive", "tiered", "lora"
    Faults,                 \* the sets of faults a start may meet, out of "kernels", "describe", "map", "adapter"
    MaxFaults,              \* bound on how many happen
    None

Layers == 1 .. NumLayers

LayerBootAssumption ==
    /\ IsFiniteSet(Ranks) /\ 0 \in Ranks /\ IsFiniteSet(Experts) /\ NumLayers \in Nat \ {0} /\ MaxFaults \in Nat
    /\ \A l \in Layers : Gpu[l] \subseteq Experts /\ Ram[l] \subseteq Experts \ Gpu[l]

VARIABLES
    conf,                   \* [mode, prefetch], and the faults of this start (wrong)
    pc,                     \* per rank: "create", "load", "table", "broadcast", "map", "register", "up" or "down"
    layer,                  \* per rank: the layer it is at
    store,                  \* per layer: experts staged in the CPU store
    skip,                   \* per layer: the mask the CPU kernel reads: experts it leaves out
    adapter,                \* per layer: the expert adapter is in place
    desc,                   \* per rank: the layer whose store it was told of, or None
    table,                  \* per rank and layer: the store its pointer table maps, or None
    registry,               \* per rank: layers in the order they were registered
    faults                  \* faults so far

vars == <<conf, pc, layer, store, skip, adapter, desc, table, registry, faults>>

Fault(f) == f \in conf.wrong /\ faults < MaxFaults /\ faults' = faults + 1

\* Residents of a layer at boot: the adapter needs every expert on the CPU.
Resident(l) == IF conf.mode = "lora" THEN {} ELSE Gpu[l]

\* kt_cpu_skip_mask.
CpuSkip(l) == IF conf.mode = "tiered" THEN Experts \ Ram[l] ELSE Resident(l)

\* The mask in force while the store is staged: when any expert may be evicted, all are staged.
LoadMask(l) == IF conf.mode = "adaptive" THEN {} ELSE CpuSkip(l)

Init ==
    /\ conf \in [mode : Modes, prefetch : BOOLEAN, wrong : Faults]
    /\ pc = [r \in Ranks |-> "create"] /\ layer = [r \in Ranks |-> 1]
    /\ store = [l \in Layers |-> {}] /\ skip = [l \in Layers |-> Experts] /\ adapter = [l \in Layers |-> FALSE]
    /\ desc = [r \in Ranks |-> None] /\ table = [r \in Ranks |-> [l \in Layers |-> None]]
    /\ registry = [r \in Ranks |-> <<>>] /\ faults = 0

\* _load_kt_expert_lora_weights: a missing tensor, rank or shape raises.
AdapterMisfit(r) ==
    /\ Fault("adapter") /\ pc' = [pc EXCEPT ![r] = "down"] /\ UNCHANGED <<skip, adapter>>

\* create_weights: rank 0 builds the wrapper with the mask of the load, and reads the adapter.
CreateWeights(r) ==
    /\ pc[r] = "create" /\ layer[r] <= NumLayers
    /\ \/ /\ pc' = [pc EXCEPT ![r] = "load"]
          /\ skip' = IF r = 0 THEN [skip EXCEPT ![layer[r]] = LoadMask(layer[r])] ELSE skip
          /\ adapter' = IF r = 0 /\ conf.mode = "lora" THEN [adapter EXCEPT ![layer[r]] = TRUE] ELSE adapter
          /\ UNCHANGED faults
       \/ r = 0 /\ conf.mode = "lora" /\ AdapterMisfit(r)
    /\ UNCHANGED <<conf, layer, store, desc, table, registry>>

\* The mask of the load stays.
LiveMaskLeft(l) == skip[l]

\* What the kernel reads after the load: put back wherever the load used another one.
LiveMask(l) == IF conf.mode \in {"adaptive", "tiered"} THEN CpuSkip(l) ELSE skip[l]

\* process_weights_after_loading up to the table: the store is staged, the live mask restored.
LoadWeights(r) ==
    /\ pc[r] = "load"
    /\ IF r = 0 THEN /\ store' = [store EXCEPT ![layer[r]] = Experts \ skip[layer[r]]]
                     /\ skip' = [skip EXCEPT ![layer[r]] = LiveMask(layer[r])]
       ELSE UNCHANGED <<store, skip>>
    /\ pc' = [pc EXCEPT ![r] = IF conf.prefetch THEN "table" ELSE "register"]
    /\ UNCHANGED <<conf, layer, adapter, desc, table, registry, faults>>

\* pf_build_table up to its broadcast; without the gather kernels the rank returns before it.
Table(r) ==
    /\ pc[r] = "table"
    /\ \/ pc' = [pc EXCEPT ![r] = "broadcast"] /\ UNCHANGED faults
       \/ Fault("kernels") /\ pc' = [pc EXCEPT ![r] = "register"]
    /\ UNCHANGED <<conf, layer, store, skip, adapter, desc, table, registry>>

\* The descriptor of the table reaches every rank.
Broadcasted(d) == [r \in Ranks |-> d]

\* The collective takes each rank's next broadcast, whatever layer it is for.
Broadcast ==
    /\ \A r \in Ranks : pc[r] = "broadcast"
    /\ \/ desc' = Broadcasted(layer[0]) /\ UNCHANGED faults
       \/ Fault("describe") /\ desc' = Broadcasted(None)
    /\ pc' = [r \in Ranks |-> "map"]
    /\ UNCHANGED <<conf, layer, store, skip, adapter, table, registry>>

\* Each rank maps the segments on its own; a failure is logged and leaves it without a table.
Map(r) ==
    /\ pc[r] = "map"
    /\ \/ table' = [table EXCEPT ![r][layer[r]] = desc[r]] /\ UNCHANGED faults
       \/ desc[r] # None /\ Fault("map") /\ UNCHANGED table
    /\ pc' = [pc EXCEPT ![r] = "register"]
    /\ UNCHANGED <<conf, layer, store, skip, adapter, desc, registry>>

\* Every rank registers its layers for the ticks.
Registers(r) == conf.mode = "adaptive"

Register(r) ==
    /\ pc[r] = "register"
    /\ registry' = IF Registers(r) THEN [registry EXCEPT ![r] = Append(@, layer[r])] ELSE registry
    /\ layer' = [layer EXCEPT ![r] = @ + 1]
    /\ pc' = [pc EXCEPT ![r] = IF layer[r] = NumLayers THEN "up" ELSE "create"]
    /\ UNCHANGED <<conf, store, skip, adapter, desc, table, faults>>

\* A rank that raised ends its process, and the launcher takes the others down.
TakeDown(r) ==
    /\ pc[r] # "down" /\ \E q \in Ranks : pc[q] = "down"
    /\ pc' = [pc EXCEPT ![r] = "down"] /\ UNCHANGED <<conf, layer, store, skip, adapter, desc, table, registry, faults>>

Step(r) == CreateWeights(r) \/ LoadWeights(r) \/ Table(r) \/ Map(r) \/ Register(r) \/ TakeDown(r)
Next == Broadcast \/ \E r \in Ranks : Step(r)
Spec == Init /\ [][Next]_vars /\ WF_vars(Broadcast) /\ \A r \in Ranks : WF_vars(Step(r))

-----------------------------------------------------------------------------

Up == \A r \in Ranks : pc[r] = "up"

\* On a server that is up the CPU kernel computes exactly the experts that are not on the GPU (and
\* not on the SSD tier), and only experts whose weights the store holds.
ServedOnce ==
    Up => \A l \in Layers :
        /\ Experts \ skip[l] = IF conf.mode = "tiered" THEN Ram[l] ELSE Experts \ Resident(l)
        /\ Experts \ skip[l] \subseteq store[l]

\* When experts may be evicted later, the store already holds every one of them.
EvictionsHaveWeights == Up /\ conf.mode = "adaptive" => \A l \in Layers : store[l] = Experts

\* A server that is up has the adapter in every layer or was started without one.
AdapterEverywhere == Up /\ conf.mode = "lora" => \A l \in Layers : adapter[l]

\* No fault can happen that only the rank notices where it happens.
OnlySharedFaults == conf.wrong \cap {"kernels", "map"} = {}

\* Unless a fault strikes one rank alone, every rank gathers from the store of the layer it serves,
\* or no rank does: a landed expert is left out by the CPU and computed by all ranks.  'inert
\* rather than wrong'.
TablesAgree == Up /\ OnlySharedFaults =>
    \A r, q \in Ranks, l \in Layers : table[r][l] = table[q][l] /\ table[r][l] \in {None, l}

\* The between-steps tick walks the registry with a collective per layer: all ranks hold the same.
RegistriesAgree == Up => \A r, q \in Ranks : registry[r] = registry[q]

\* What boot comes to on every rank (<>[]Ended).
Ended == \A r \in Ranks : pc[r] \in {"up", "down"}
=============================================================================
