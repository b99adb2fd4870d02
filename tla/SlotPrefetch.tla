---------------------------- MODULE SlotPrefetch ----------------------------
(***************************************************************************)
(* The RAM to VRAM prefetch of one MoE layer (the pf_* half of             *)
(* KTEPWrapperMethod and the fused selection kernel).                      *)
(*                                                                         *)
(* While the previous layer runs, a predictor names the experts this layer *)
(* will need.  The device picks landing slots for the ones that are not    *)
(* resident, a gather on the side stream pf_stream copies them out of the  *)
(* CPU store, and apply() routes the landed experts to their slots and     *)
(* tells the CPU to skip them.  The host only enqueues: selection and GPU  *)
(* experts run on the main stream, the CPU experts on cpu_stream, and the  *)
(* masks they read are whatever the device holds by then.                  *)
(*                                                                         *)
(* Left out: the bytes of a weight (an expert's weights are its identity), *)
(* the votes behind a demand (a predicted expert is wanted or it is not,   *)
(* so which of two wanted experts takes the weaker slot is open), tensor   *)
(* ranks (each repeats the same operations on its shard), statistics.      *)
(***************************************************************************)
EXTENDS Naturals, Sequences, FiniteSets, FiniteSetsExt

CONSTANTS
    Expert,      \* logical expert ids of the layer
    NGpu,        \* num_gpu_experts
    TopK,        \* experts a batch is routed to, and predicted, at most
    Garbage,     \* bytes that are nobody's weights
    NoExpert,    \* -1 in pf_sel and pf_hold
    Knobs,       \* the settings of the environment a server may boot with
    Hit, Grace, Cap, \* the slot ranking's constants (4, 2 and 1024)
    MaxAhead     \* bound, for a number of slots: operations queued on main when a forward starts

Stream == {"main", "side", "cpu"}

SlotPrefetchAssumption ==
    /\ NGpu \in Nat /\ TopK \in Nat \ {0}
    /\ Hit \in Nat /\ Grace \in Nat /\ Cap \in Nat
    /\ NoExpert \notin Expert /\ Garbage \notin Expert /\ IsFiniteSet(Expert)
    /\ \A k \in Knobs : MaxAhead[k.slots] \in Nat
    /\ Knobs \subseteq
         [slots : Nat \ {0}, selective : BOOLEAN, reuse : 0 .. 2, route : BOOLEAN,
          cpuskip : BOOLEAN, wait : BOOLEAN, fused : BOOLEAN,
          moves : BOOLEAN, tier : BOOLEAN, gpuOnly : BOOLEAN]

VARIABLES
    knob,        \* the settings of this boot
    table,       \* experts with a row in pf_table
    staged,      \* experts whose weights are in the CPU store
    ram,         \* ram_experts_mask: experts the router may leave to the CPU
    resident,    \* gpu_experts_mask_cuda
    issued,      \* pf_issued (host)
    phase,       \* the host, in the layer's forward: "idle" or "emitted"
    queue,       \* the streams
    sel, landed, landedCpu, index,  \* what the selection publishes
    hold, score, \* pf_hold and pf_hold_score
    slots,       \* what the landing slots really hold
    ids,         \* the routed experts of the running forward
    gpuOut,      \* gpuOut[e]: the weights the GPU computed e with
    cpuOut       \* experts the CPU computed

(* KT_PREFETCH_SLOTS landing slots.                                        *)
Slot == 1 .. knob.slots

published == <<sel, landed, landedCpu, index, hold, score>>
vars == <<knob, table, staged, ram, resident, issued, phase, queue, published,
          slots, ids, gpuOut, cpuOut>>

TypeOK ==
    /\ knob \in Knobs
    /\ table \subseteq Expert /\ staged \subseteq Expert /\ ram \subseteq Expert
    /\ resident \subseteq Expert
    /\ issued \in BOOLEAN /\ phase \in {"idle", "emitted"}
    /\ sel \in [Slot -> Expert \cup {NoExpert}]
    /\ hold \in [Slot -> Expert \cup {NoExpert}]
    /\ score \in [Slot -> 0 .. Cap]
    /\ landed \subseteq Expert /\ landedCpu \subseteq Expert
    /\ index \in [Expert -> Slot]
    /\ slots \in [Slot -> Expert \cup {Garbage}]
    /\ ids \subseteq Expert /\ cpuOut \subseteq Expert
    /\ gpuOut \in [Expert -> Expert \cup {Garbage, NoExpert}]

----------------------------------------------------------------------------
(* CUDA streams: the host appends operations, the device runs each stream  *)
(* in order and the streams in parallel.  wait_stream and wait_event make  *)
(* an operation wait for what another stream held when it was enqueued:    *)
(* wait[t] is the number of operations of stream t that must still finish. *)

(* Nothing to wait for but the operation's own stream.                     *)
NoWait == [t \in Stream |-> 0]

(* What wait_stream(t), or wait_event on an event recorded as the last     *)
(* operation of t, waits for in the queues q.                              *)
WaitFor(q, t) == [NoWait EXCEPT ![t] = Len(q[t])]

Enqueue(q, s, op) == [q EXCEPT ![s] = Append(@, op)]

Ready(q, s) == q[s] # <<>> /\ Head(q[s]).wait = NoWait

(* The head of stream s finishes.                                          *)
Finish(q, s) ==
    [t \in Stream |->
        IF t = s THEN Tail(q[s])
        ELSE [i \in 1 .. Len(q[t]) |->
                [q[t][i] EXCEPT !.wait[s] = IF @ > 0 THEN @ - 1 ELSE 0]]]

Idle(q) == \A s \in Stream : q[s] = <<>>
----------------------------------------------------------------------------
(* Boot.                                                                   *)

(* KT_PREFETCH_WAIT=0 forces routing off.                                  *)
Route == knob.route /\ knob.wait

(* pf_build_table: every expert when residency can move, otherwise only    *)
(* those that are not resident at boot.                                    *)
Mapped(k, gpu) == IF k.moves \/ k.tier THEN Expert ELSE Expert \ gpu

(* The store holds every expert, unless three-tier leaves some on SSD.     *)
Init ==
    /\ knob \in Knobs
    /\ resident \in {g \in SUBSET Expert : Cardinality(g) = NGpu}
    /\ ram \in {r \in SUBSET (Expert \ resident) :
                  knob.tier \/ r = Expert \ resident}
    /\ staged = IF knob.tier THEN ram
                ELSE IF knob.moves THEN Expert ELSE Expert \ resident
    /\ table = Mapped(knob, resident)
    /\ issued = FALSE /\ phase = "idle"
    /\ queue = [s \in Stream |-> <<>>]
    /\ sel = [s \in Slot |-> NoExpert] /\ hold = sel
    /\ score = [s \in Slot |-> 0]
    /\ landed = {} /\ landedCpu = {}
    /\ index = [e \in Expert |-> 1]
    /\ slots = [s \in Slot |-> Garbage]
    /\ ids = {} /\ cpuOut = {}
    /\ gpuOut = [e \in Expert |-> NoExpert]

----------------------------------------------------------------------------
(* The host: one forward of the layer.                                     *)

Op(do, arg, flag, wait) == [do |-> do, arg |-> arg, flag |-> flag, wait |-> wait]

Batches == {b \in SUBSET Expert : Cardinality(b) \in 1 .. TopK}

(* Faulty variant: pf_stream does not wait for main, so a gather may start *)
(* before its selection and while the previous forward reads the slots.    *)
EmitUnfenced ==
    /\ phase = "idle" /\ Len(queue["main"]) <= MaxAhead[knob.slots]
    /\ \E predicted \in Batches :
         LET q == Enqueue(queue, "main", Op("select", predicted, FALSE, NoWait))
         IN  queue' = Enqueue(q, "side", Op("gather", {}, FALSE, NoWait))
    /\ issued' = TRUE /\ phase' = "emitted"
    /\ UNCHANGED <<knob, table, staged, ram, resident, published, slots, ids,
                   gpuOut, cpuOut>>

(* pf_issue / pf_issue_fused, called by the previous layer of a            *)
(* decode-shaped forward: selection on main, then the gather on pf_stream, *)
(* which waits for all that main holds.                                    *)
Emit ==
    /\ phase = "idle" /\ Len(queue["main"]) <= MaxAhead[knob.slots]
    /\ \E predicted \in Batches :
         LET q == Enqueue(queue, "main", Op("select", predicted, FALSE, NoWait))
         IN  queue' = Enqueue(q, "side", Op("gather", {}, FALSE, WaitFor(q, "main")))
    /\ issued' = TRUE /\ phase' = "emitted"
    /\ UNCHANGED <<knob, table, staged, ram, resident, published, slots, ids,
                   gpuOut, cpuOut>>

(* apply(): the prediction flag is read once and cleared, whatever follows *)
(* (_KT_PREFETCH_FRESH).                                                   *)
UseNow == issued

(* Routing and apply() of this layer.  Without a prediction (a prefill)    *)
(* phase is still "idle".  The flag of "route" is pf_issued as the router  *)
(* sees it; that of the other two operations is _pf_use_now.               *)
Apply ==
    /\ Len(queue["main"]) <= MaxAhead[knob.slots] + 1
    /\ \E batch \in Batches :
         LET q1 == Enqueue(queue, "main", Op("route", batch, issued, NoWait))
             q2 == Enqueue(q1, "cpu", Op("submit", {}, UseNow, WaitFor(q1, "main")))
             q3 == Enqueue(q2, "main", Op("experts", {}, UseNow,
                      IF knob.wait /\ issued THEN WaitFor(q2, "side") ELSE NoWait))
         IN  queue' = Enqueue(q3, "main", Op("merge", {}, FALSE, WaitFor(q3, "cpu")))
    /\ issued' = FALSE /\ phase' = "idle"
    /\ UNCHANGED <<knob, table, staged, ram, resident, published, slots, ids,
                   gpuOut, cpuOut>>

(* A tick between two forwards moves residency; the restage synchronises   *)
(* the device before and after.                                            *)
Move ==
    /\ phase = "idle" /\ Idle(queue)
    /\ knob.moves /\ ~knob.tier
    /\ resident' \in {g \in SUBSET Expert : Cardinality(g) = NGpu}
    /\ ram' = Expert \ resident'
    /\ UNCHANGED <<knob, table, staged, issued, phase, queue, published, slots,
                   ids, gpuOut, cpuOut>>

(* A three-tier tick exchanges a RAM and an SSD expert.  The madvise of an *)
(* eviction leaves the bytes of a shared segment alone, so the store only  *)
(* gains weights.                                                          *)
Promote ==
    /\ phase = "idle" /\ Idle(queue) /\ knob.tier
    /\ \E e \in Expert \ (resident \cup ram) :
         \E d \in ram :
            /\ ram' = (ram \ {d}) \cup {e}
            /\ staged' = staged \cup {e}
    /\ UNCHANGED <<knob, table, resident, issued, phase, queue, published, slots,
                   ids, gpuOut, cpuOut>>
----------------------------------------------------------------------------
(* The device: selection.                                                  *)

Wanted(predicted) == predicted \ resident

(* A slot is overwritten only when something is fetched into it.           *)
HoldAfter(f) == [s \in Slot |-> IF s \in DOMAIN f THEN f[s] ELSE hold[s]]

(* Slots whose held expert is wanted again, one slot per expert.           *)
Kept(want) ==
    IF knob.fused /\ knob.reuse = 2
    THEN {s \in Slot : hold[s] \in want /\ \A t \in 1 .. s - 1 : hold[t] # hold[s]}
    ELSE {}

(* Weakest first; the lower slot of two equals.                            *)
Before(s, t) == score[s] < score[t] \/ (score[s] = score[t] /\ s < t)
Weakest(free, n) ==
    {s \in free : Cardinality({t \in free : Before(t, s)}) < n}

(* The slots to fill and the experts to fetch into them: as many as fit,   *)
(* none at all when a selective layer cannot be covered.  The unfused path *)
(* ranks by demand into slots 1, 2, ...                                    *)
Fetch(want) ==
    LET free == Slot \ Kept(want)
        need == want \ {hold[s] : s \in Kept(want)}
        skip == knob.selective /\ Cardinality(want) > knob.slots
        n    == IF skip THEN 0
                ELSE IF Cardinality(need) < Cardinality(free)
                     THEN Cardinality(need) ELSE Cardinality(free)
        dest == IF knob.fused THEN Weakest(free, n) ELSE 1 .. n
    IN  {f \in [dest -> need] : \A s, t \in dest : f[s] = f[t] => s = t}

(* Select with the fetch f.  The landed masks are rebuilt, index is only   *)
(* ever overwritten, hold and score are kept by the fused kernel alone.    *)
Publish(want, f) ==
    LET kept == Kept(want)
        here == {f[s] : s \in DOMAIN f} \cup {hold[s] : s \in kept}
        At(e) == {s \in DOMAIN f : f[s] = e} \cup {s \in kept : hold[s] = e}
    IN  /\ sel' = [s \in Slot |-> IF s \in DOMAIN f THEN f[s] ELSE NoExpert]
        /\ landed' = IF Route THEN here ELSE {}
        /\ landedCpu' = IF knob.cpuskip THEN here ELSE {}
        /\ index' = [e \in Expert |->
                        IF e \in here THEN CHOOSE s \in At(e) : TRUE ELSE index[e]]
        /\ IF knob.fused /\ knob.reuse > 0
           THEN /\ hold' = HoldAfter(f)
                /\ score' = [s \in Slot |->
                      IF s \in kept THEN (IF score[s] + Hit > Cap THEN Cap
                                          ELSE score[s] + Hit)
                      ELSE IF s \in DOMAIN f THEN Grace
                      ELSE IF score[s] > 0 THEN score[s] - 1 ELSE 0]
           ELSE UNCHANGED <<hold, score>>

Select ==
    /\ Ready(queue, "main") /\ Head(queue["main"]).do = "select"
    /\ LET want == Wanted(Head(queue["main"]).arg)
       IN  \E f \in Fetch(want) : Publish(want, f)
    /\ queue' = Finish(queue, "main")
    /\ UNCHANGED <<knob, table, staged, ram, resident, issued, phase, slots, ids,
                   gpuOut, cpuOut>>

----------------------------------------------------------------------------
(* The device: the gather, the routing and the two halves of apply().      *)

(* The gather reads sel and overwrites the selected slots ...              *)
GatherStart ==
    /\ Ready(queue, "side") /\ ~Head(queue["side"]).flag
    /\ slots' = [s \in Slot |-> IF sel[s] \in Expert THEN Garbage ELSE slots[s]]
    /\ queue' = [queue EXCEPT !["side"][1].flag = TRUE, !["side"][1].arg =
                                {<<s, sel[s]>> : s \in {t \in Slot : sel[t] \in Expert}}]
    /\ UNCHANGED <<knob, table, staged, ram, resident, issued, phase, published,
                   ids, gpuOut, cpuOut>>

(* ... and has copied whatever the store holds when it is done.            *)
GatherEnd ==
    /\ Ready(queue, "side") /\ Head(queue["side"]).flag
    /\ LET got == Head(queue["side"]).arg
       IN  slots' = [s \in Slot |->
               IF \E p \in got : p[1] = s
               THEN LET e == (CHOOSE p \in got : p[1] = s)[2]
                    IN  IF e \in staged THEN e ELSE Garbage
               ELSE slots[s]]
    /\ queue' = Finish(queue, "side")
    /\ UNCHANGED <<knob, table, staged, ram, resident, issued, phase, published,
                   ids, gpuOut, cpuOut>>

(* Faulty variant: the landed mask is consulted without pf_issued.         *)
OnGpuStale(fresh) == resident \cup landed

(* The router keeps what is reachable: GPU or RAM; with KT_GPU_ONLY, what  *)
(* is resident or has landed for this forward.  What it drops it replaces  *)
(* by resident experts, which this model does not follow.                  *)
OnGpu(fresh) == resident \cup (IF fresh THEN landed ELSE {})

Routed(batch, fresh) ==
    LET reach == batch \cap (resident \cup ram)
    IN  IF knob.gpuOnly THEN reach \cap OnGpu(fresh) ELSE reach

RouteBatch ==
    /\ Ready(queue, "main") /\ Head(queue["main"]).do = "route"
    /\ ids' = Routed(Head(queue["main"]).arg, Head(queue["main"]).flag)
    /\ queue' = Finish(queue, "main")
    /\ UNCHANGED <<knob, table, staged, ram, resident, issued, phase, published,
                   slots, gpuOut, cpuOut>>

(* _submit_with_staged_input: landed experts become -1; kt itself skips    *)
(* the resident ones and the ones it has no weights for.                   *)
Submit ==
    /\ Ready(queue, "cpu")
    /\ LET skip == IF Head(queue["cpu"]).flag THEN landedCpu ELSE {}
       IN  cpuOut' = (ids \ skip) \cap ram
    /\ queue' = Finish(queue, "cpu")
    /\ UNCHANGED <<knob, table, staged, ram, resident, issued, phase, published,
                   slots, ids, gpuOut>>

(* The GPU experts, through the effective tables.  A resident expert's own *)
(* slot holds its weights (module Residency is about that).                *)
Experts ==
    /\ Ready(queue, "main") /\ Head(queue["main"]).do = "experts"
    /\ LET here == IF Head(queue["main"]).flag THEN landed ELSE {}
       IN  gpuOut' = [e \in Expert |->
               IF e \notin ids THEN NoExpert
               ELSE IF e \in here THEN slots[index[e]]
               ELSE IF e \in resident THEN e ELSE NoExpert]
    /\ queue' = Finish(queue, "main")
    /\ UNCHANGED <<knob, table, staged, ram, resident, issued, phase, published,
                   slots, ids, cpuOut>>

(* output + cpu_output; the forward is over.                               *)
Merge ==
    /\ Ready(queue, "main") /\ Head(queue["main"]).do = "merge"
    /\ queue' = Finish(queue, "main")
    /\ ids' = {} /\ gpuOut' = [e \in Expert |-> NoExpert] /\ cpuOut' = {}
    /\ UNCHANGED <<knob, table, staged, ram, resident, issued, phase, published,
                   slots>>

Device == Select \/ GatherStart \/ GatherEnd \/ RouteBatch \/ Submit \/ Experts
              \/ Merge

Next == Emit \/ Apply \/ Move \/ Promote \/ Device

Spec == Init /\ [][Next]_vars

----------------------------------------------------------------------------
(* Properties.                                                             *)

Merging == Ready(queue, "main") /\ Head(queue["main"]).do = "merge"

(* When the halves of a forward are added, each routed expert has been     *)
(* computed once: by the GPU with that expert's own weights, or by the     *)
(* CPU.  This is what pf_landed, pf_landed_cpu, the event pf_done and the  *)
(* single-use flag are for.                                                *)
EachExpertOnce ==
    Merging =>
      \A e \in ids : IF e \in cpuOut THEN gpuOut[e] = NoExpert
                     ELSE gpuOut[e] = e

(* With reuse, pf_hold is the truth about the slots whenever no gather is  *)
(* under way: what makes it safe to publish a held expert without fetching *)
(* it again.                                                               *)
HoldIsTrue ==
    knob.reuse = 2 /\ queue["side"] = <<>> =>
        \A s \in Slot : hold[s] \in Expert => slots[s] = hold[s]

(* With reuse, no expert occupies two slots: a second copy would waste a   *)
(* slot and the bytes.                                                     *)
NoTwinSlots ==
    knob.reuse = 2 =>
        \A s, t \in Slot : hold[s] = hold[t] /\ hold[s] \in Expert => s = t

(* The gather never follows a null row of pf_table, also after residency   *)
(* has moved away from what it was at boot.                                *)
NoNullGather == \A s \in Slot : sel[s] \in Expert => sel[s] \in table

(* In KT_GPU_ONLY mode the CPU computes nothing.                           *)
GpuOnlyMeansNoCpu == Merging /\ knob.gpuOnly => cpuOut = {}

(* The waits between the three streams form no cycle, and nothing waits    *)
(* for an operation that was never enqueued: while work is queued, some    *)
(* stream can run.                                                         *)
WaitsResolve == ~Idle(queue) => \E s \in Stream : Ready(queue, s)
=============================================================================
