---------------------------- MODULE ScratchLayer ----------------------------
(* The one scratch layer (SharedFullContext) that is filled with all experts   *)
(* of a layer before a prefill on the GPU or a tier swap, for each of the      *)
(* weight formats.  A slot holds the bytes of an expert of some layer,         *)
(* converted some number of times to the layout of the GPU kernel; the write   *)
(* and copy pipeline inside a load is the subject of WeightStream.             *)
EXTENDS Naturals, FiniteSets, FiniteSetsExt

CONSTANTS
    Layers, Experts,
    NumGpu,                 \* residents of a layer
    Cases,                  \* <<weight format, any expert may be evicted>>: if so, all are staged on the CPU
    Garbage                 \* bytes nobody wrote

Formats == {"mxfp4", "int4", "w4afp8", "fp8", "fp8_channel", "bf16"}
Contents == [layer : Layers, expert : Experts, converted : Nat]

ScratchAssumption ==
    /\ IsFiniteSet(Experts) /\ NumGpu \in 0 .. Cardinality(Experts)
    /\ Layers # {} /\ Cases \subseteq Formats \X BOOLEAN /\ Garbage \notin Contents

VARIABLES
    format,                 \* the format the quantisation method created
    adaptive,
    resident,               \* per layer: experts on the GPU
    store,                  \* per layer: experts staged in the CPU store
    slot,                   \* per expert: what its scratch slot holds
    marked,                 \* _w4afp8_scales_interleaved, _w4afp8_marlin_converted
    job,                    \* [layer, only]: the load in progress; only = {}: all experts
    pc                      \* "idle", "resident", "stream", "convert", "overlay" or "ready"

vars == <<format, adaptive, resident, store, slot, marked, job, pc>>

Bytes(l, e, n) == [layer |-> l, expert |-> e, converted |-> n]

-----------------------------------------------------------------------------
\* _detect_quant_type_from_created_weights: the first test that fits what the method created.

Created(f) ==
    CASE f = "mxfp4"       -> {"class", "weight", "scale_inv"}
      [] f = "int4"        -> {"packed", "scale"}
      [] f = "w4afp8"      -> {"weight", "int8", "scale_inv"}
      [] f = "fp8"         -> {"weight", "scale_inv"}
      [] f = "fp8_channel" -> {"weight", "scale"}
      [] f = "bf16"        -> {"weight"}

Detect(has) ==
    IF "class" \in has THEN "mxfp4"
    ELSE IF "packed" \in has THEN "int4"
    ELSE IF {"int8", "scale_inv"} \subseteq has THEN "w4afp8"
    ELSE IF "scale_inv" \in has THEN "fp8"
    ELSE IF "scale" \in has THEN "fp8_channel"
    ELSE "bf16"

Kind == Detect(Created(format))

\* Conversions between the checkpoint and the GPU kernel, and those the flat tensors of a resident
\* layer have had: the mxfp4 method keeps its converted copy apart.
Needed(f) == IF f \in {"int4", "w4afp8", "mxfp4"} THEN 1 ELSE 0
OfResidents(f) == IF f \in {"int4", "w4afp8"} THEN 1 ELSE 0

-----------------------------------------------------------------------------

Init ==
    /\ \E c \in Cases : format = c[1] /\ adaptive = c[2]
    /\ resident \in [Layers -> kSubset(NumGpu, Experts)]
    /\ store = [l \in Layers |-> IF adaptive THEN Experts ELSE Experts \ resident[l]]
    /\ slot = [e \in Experts |-> Garbage] /\ marked = FALSE
    /\ job = [layer |-> CHOOSE l \in Layers : TRUE, only |-> {}] /\ pc = "idle"

\* load: the parameters from before any conversion come back, with what earlier loads streamed into
\* them; a narrow load asks for experts that are not resident, and
\* only the format of a tier swap honours it.
Restore(l, only) ==
    /\ pc = "idle"
    /\ only # {} => Kind = "w4afp8" /\ only \cap resident[l] = {}
    /\ job' = [layer |-> l, only |-> only] /\ pc' = "resident"
    /\ slot' = [e \in Experts |-> IF slot[e] = Garbage THEN Garbage ELSE [slot[e] EXCEPT !.converted = 0]]
    /\ UNCHANGED <<format, adaptive, resident, store, marked>>

\* Formats whose residents are copied straight from the decode layer.
Direct(f) == f \in {"mxfp4", "fp8", "fp8_channel", "bf16"}

CopyResidents ==
    /\ pc = "resident" /\ pc' = "stream"
    /\ slot' = IF Direct(Kind)
               THEN [e \in Experts |-> IF e \in resident[job.layer] THEN Bytes(job.layer, e, OfResidents(format)) ELSE slot[e]]
               ELSE slot
    /\ UNCHANGED <<format, adaptive, resident, store, marked, job>>

\* The experts that come out of the CPU store; one that is not staged there arrives as garbage.
Streamed ==
    IF job.only # {} THEN job.only
    ELSE IF Direct(Kind) THEN Experts \ resident[job.layer] ELSE Experts

Stream ==
    /\ pc = "stream" /\ pc' = "convert"
    /\ slot' = [e \in Experts |-> IF e \notin Streamed THEN slot[e]
                                  ELSE IF e \in store[job.layer] THEN Bytes(job.layer, e, 0) ELSE Garbage]
    /\ UNCHANGED <<format, adaptive, resident, store, marked, job>>

\* The markers are cleared first, so a conversion is never skipped.
Skips == FALSE

\* Per expert behind its copy for int4, one pass over the layer for the others.
Convert ==
    /\ pc = "convert" /\ pc' = "overlay"
    /\ slot' = IF Needed(Kind) = 1 /\ ~ Skips
               THEN [e \in Experts |-> IF slot[e] = Garbage THEN Garbage ELSE [slot[e] EXCEPT !.converted = @ + 1]]
               ELSE slot
    /\ marked' = (Kind = "w4afp8")
    /\ UNCHANGED <<format, adaptive, resident, store, job>>

\* No expert is copied over what was streamed.
OverlaidNone == {}
\* Residents copied from the decode layer once the layouts agree.
Overlaid == IF Kind = "w4afp8" /\ job.only = {} THEN resident[job.layer] ELSE {}

Overlay ==
    /\ pc = "overlay" /\ pc' = "ready"
    /\ slot' = [e \in Experts |-> IF e \in Overlaid THEN Bytes(job.layer, e, OfResidents(format)) ELSE slot[e]]
    /\ UNCHANGED <<format, adaptive, resident, store, marked, job>>

\* The layer is used: a prefill, after which the cache may have chosen other residents, or a swap
\* that brings the asked experts in.
Use ==
    /\ pc = "ready" /\ pc' = "idle"
    /\ resident' \in {resident} \cup
           IF adaptive /\ Kind # "mxfp4" THEN {[resident EXCEPT ![job.layer] = S] : S \in {T \in kSubset(NumGpu, Experts) : job.only \subseteq T}} ELSE {}
    /\ UNCHANGED <<format, adaptive, store, slot, marked, job>>

Next ==
    \/ \E l \in Layers, only \in SUBSET Experts : Restore(l, only)
    \/ CopyResidents \/ Stream \/ Convert \/ Overlay \/ Use

Spec == Init /\ [][Next]_vars

-----------------------------------------------------------------------------

\* The slots the caller reads.
Read == IF job.only = {} THEN Experts ELSE job.only

\* Whatever the format, the residents and the loads before, a slot that is read holds the bytes of
\* its own expert in the layer at hand: no leftover of another layer, nothing that was never staged.
SlotsOfThisLayer ==
    pc = "ready" => \A e \in Read : slot[e] # Garbage /\ slot[e].layer = job.layer /\ slot[e].expert = e

\* A slot that is read is in the layout of the GPU kernel: converted once where the format needs
\* it, whether the expert was streamed or copied from the decode layer, in this load or a later one.
ConvertedOnce ==
    pc = "ready" => \A e \in Read : slot[e] # Garbage => slot[e].converted = Needed(format)
=============================================================================
