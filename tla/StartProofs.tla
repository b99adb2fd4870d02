---------------------------- MODULE StartProofs ----------------------------
(* Proofs about the start of a server, for any number of ranks, layers,     *)
(* experts and kills: the split of a merged adapter, the processes of the   *)
(* ranks, the masks of the experts, the layers with their stores, and what  *)
(* follows for the start that MCBoot puts together from them.               *)
EXTENDS MCBoot, SequenceTheorems, TLAPS

(* A start exercises one part from its initial state on.                    *)
LEMMA InitOfPart ==
    MCInit => /\ part = "split" => Split!Init
              /\ part = "node" => Node!Init
              /\ part = "masks" => Masks!Init
              /\ part = "layers" => Layers!Init
BY DEF MCInit

LEMMA StepOfPart ==
    [MCNext]_MCVars => /\ part' = part
                       /\ part = "split" => [Split!Next]_Split!vars
                       /\ part = "node" => [Node!Next]_Node!vars
                       /\ part = "masks" => [Masks!Next]_Masks!vars
                       /\ part = "layers" => [Layers!Next]_Layers!vars
<1>1. CASE MCNext
  BY <1>1 DEF MCNext, ArgsNext, RanksNext, MasksNext, LayersNext, SplitNext, KvNext
<1>2. CASE UNCHANGED MCVars
  BY <1>2 DEF MCVars, bootVars, maskVars, layerVars, rankVars, kvVars,
     Split!vars, Node!vars, Masks!vars, Layers!vars
<1> QED
  BY <1>1, <1>2

-----------------------------------------------------------------------------
(* The split of a merged adapter (LoraCache).                               *)

(* The file written last is there only when the tensor files are whole; a   *)
(* start that has yet to come to it does not find it.                       *)
LastFileInv ==
    /\ disk["nonexpert_config"] # "absent" =>
          /\ \A f \in Split!Weights : disk[f] = "whole"
          /\ disk["expert_config"] # "absent"
    /\ pc = "write" =>
          /\ \A i \in 1 .. next - 1 : disk[Split!WriteOrder[i]] = "whole"
          /\ next <= 3 => disk["nonexpert_config"] = "absent"
    /\ pc = "split" => Split!Prepared(disk)

LoraInv == Split!TypeOK /\ LastFileInv

LEMMA LoraInvInductive ==
    /\ Split!Init => LoraInv
    /\ LoraInv /\ [Split!Next]_Split!vars => LoraInv'
<1> USE StartAssumption DEF StartAssumption
<1> USE DEF LoraInv, LastFileInv, Split!TypeOK, Split!Files, Split!Weights, Split!Configs
<1>1. Split!Init => LoraInv
  BY DEF Split!Init, Split!LoraAssumption
<1>2. LoraInv /\ [Split!Next]_Split!vars => LoraInv'
  <2> SUFFICES ASSUME LoraInv, [Split!Next]_Split!vars PROVE LoraInv'
    OBVIOUS
  <2>1. CASE Split!Classify
    BY <2>1 DEF Split!Classify, Split!Prepared
  <2>2. CASE Split!Look
    BY <2>2 DEF Split!Look, Split!Prepared
  <2>3. CASE Split!OpenFile
    BY <2>3 DEF Split!OpenFile, Split!Prepared, Split!WriteOrder
  <2>4. CASE Split!FillFile
    BY <2>4 DEF Split!FillFile, Split!Prepared, Split!WriteOrder
  <2>5. CASE Split!Done
    BY <2>5 DEF Split!Done, Split!Prepared, Split!WriteOrder
  <2>6. CASE Split!Killed
    BY <2>6 DEF Split!Killed, Split!Prepared, Split!LoraAssumption
  <2>7. CASE UNCHANGED Split!vars
    BY <2>7 DEF Split!vars, Split!Prepared
  <2> QED
    BY <2>1, <2>2, <2>3, <2>4, <2>5, <2>6, <2>7 DEF Split!Next, Split!Start
<1> QED
  BY <1>1, <1>2

(* However many starts are killed and wherever, an adapter that is handed   *)
(* on as prepared has both of its tensor files whole.                       *)
THEOREM SplitIsWhole == MCSpec => []TensorsWhole
<1> DEFINE I == part = "split" => LoraInv
<1>1. MCInit => I
  BY InitOfPart, LoraInvInductive
<1>2. I /\ [MCNext]_MCVars => I'
  BY StepOfPart, LoraInvInductive
<1>3. I => TensorsWhole
  BY DEF LoraInv, LastFileInv, TensorsWhole, Split!TensorsWhole, Split!Prepared, Split!Files, Split!Configs
<1> QED
  BY <1>1, <1>2, <1>3, PTL DEF MCSpec

-----------------------------------------------------------------------------
(* The processes of the ranks (RankBoot).                                   *)

AfterBarrier == {"config", "pool", "backend", "warmup", "capture", "check", "serving"}
BeforeBarrier == {"device", "rendezvous", "memory", "load", "barrier"}

(* A rank waits in the barrier only with its weights, and one that is past  *)
(* it has met every other there.                                            *)
LoadedInv ==
    /\ step \in [Workers -> AfterBarrier \cup BeforeBarrier \cup {"dead"}]
    /\ loaded \subseteq Workers
    /\ \A r \in Workers : step[r] = "barrier" => r \in loaded
    /\ Node!ReadyMeansLoaded

LEMMA LoadedInvInductive ==
    /\ Node!Init => LoadedInv
    /\ LoadedInv /\ [Node!Next]_Node!vars => LoadedInv'
<1> USE DEF LoadedInv, Node!ReadyMeansLoaded, AfterBarrier, BeforeBarrier
<1>1. Node!Init => LoadedInv
  BY DEF Node!Init
<1>2. LoadedInv /\ [Node!Next]_Node!vars => LoadedInv'
  <2> SUFFICES ASSUME LoadedInv, [Node!Next]_Node!vars PROVE LoadedInv'
    OBVIOUS
  <2>1. ASSUME NEW r \in Workers, Node!LocalStep(r) PROVE LoadedInv'
    BY <2>1 DEF Node!LocalStep, Node!Local, Node!Follows
  <2>2. ASSUME NEW r \in Workers, Node!Raise(r) PROVE LoadedInv'
    BY <2>2 DEF Node!Raise
  <2>3. ASSUME NEW r \in Workers, Node!Arrive(r) PROVE LoadedInv'
    BY <2>3 DEF Node!Arrive
  <2>4. ASSUME NEW s, Node!Meet(s) PROVE LoadedInv'
    <3>1. s \in {"rendezvous", "barrier", "pool", "warmup"} /\ \A r \in Workers : step[r] = s
      BY <2>4 DEF Node!Meet, Node!Collective
    <3>2. s = "barrier" => loaded = Workers
      BY <3>1
    <3>3. /\ s = "rendezvous" => Node!Follows[s] = "memory"
          /\ s # "rendezvous" => Node!Follows[s] \in AfterBarrier
      BY <3>1 DEF Node!Follows
    <3>4. step' = [r \in Workers |-> Node!Follows[s]] /\ loaded' = loaded
      BY <2>4 DEF Node!Meet
    <3> QED
      BY <3>1, <3>2, <3>3, <3>4
  <2>5. ASSUME NEW over, Node!CompareMemory(over) PROVE LoadedInv'
    BY <2>5 DEF Node!CompareMemory
  <2>6. CASE Node!CaptureGraph
    BY <2>6 DEF Node!CaptureGraph
  <2>7. ASSUME NEW n \in Nodes, Node!TakeDown(n) PROVE LoadedInv'
    BY <2>7 DEF Node!TakeDown
  <2>8. CASE UNCHANGED Node!vars
    BY <2>8 DEF Node!vars
  <2> QED
    BY <2>1, <2>2, <2>3, <2>4, <2>5, <2>6, <2>7, <2>8
    DEF Node!Next, Node!Together, Node!Own, Node!LocalFails, Node!Timeout, Node!TooSlow
<1> QED
  BY <1>1, <1>2

(* Whatever fails on whichever rank, none comes past the barrier after      *)
(* loading, let alone reports ready, before all ranks have their weights.   *)
THEOREM ReadyRanksAreLoaded == MCSpec => []ReadyMeansLoaded
<1> DEFINE I == part = "node" => LoadedInv
<1>1. MCInit => I
  BY InitOfPart, LoadedInvInductive
<1>2. I /\ [MCNext]_MCVars => I'
  BY StepOfPart, LoadedInvInductive
<1>3. I => ReadyMeansLoaded
  BY DEF LoadedInv, ReadyMeansLoaded
<1> QED
  BY <1>1, <1>2, <1>3, PTL DEF MCSpec

-----------------------------------------------------------------------------
(* The masks of the experts on the GPU (BootMasks).                         *)

(* A sequence as the function it is.                                        *)
IsSequence(s) == Len(s) \in Nat /\ s = [i \in 1 .. Len(s) |-> s[i]]

LEMMA AppendToSequence ==
    ASSUME NEW s, NEW e, IsSequence(s)
    PROVE  /\ IsSequence(Append(s, e)) /\ Len(Append(s, e)) = Len(s) + 1
           /\ \A i \in 1 .. Len(s) : Append(s, e)[i] = s[i]
           /\ Append(s, e)[Len(s) + 1] = e
<1> DEFINE S == {s[i] : i \in 1 .. Len(s)} \cup {e}
<1>1. s \in Seq(S)
  <2>1. s \in [1 .. Len(s) -> S]
    BY DEF IsSequence
  <2> QED
    BY <2>1, IsASeq DEF IsSequence
<1>2. e \in S
  OBVIOUS
<1> HIDE DEF S
<1>3. /\ Append(s, e) \in Seq(S) /\ Len(Append(s, e)) = Len(s) + 1
      /\ \A i \in 1 .. Len(s) : Append(s, e)[i] = s[i]
      /\ Append(s, e)[Len(s) + 1] = e
  BY <1>1, <1>2, AppendProperties
<1>4. IsSequence(Append(s, e))
  BY <1>3, SeqDef, LenProperties DEF IsSequence
<1> QED
  BY <1>3, <1>4

LEMMA EmptySequence == IsSequence(<<>>) /\ Len(<<>>) = 0
BY EmptySeq, SeqDef DEF IsSequence

LayersOf(r) == {kt[r][i][1] : i \in 1 .. Len(kt[r])}

(* What one rank has built: an entry per routed layer below next[r], in the *)
(* order of the layers, cut out of the masks.                               *)
BuiltInv(r) ==
    /\ next[r] \in 0 .. MaskLayers
    /\ IsSequence(kt[r])
    /\ \A i \in 1 .. Len(kt[r]) :
          /\ kt[r][i][1] \in 0 .. next[r] - 1
          /\ Masks!Routed(conf.model, kt[r][i][1])
          /\ kt[r][i] = <<kt[r][i][1], masks[r][kt[r][i][1]]>>
    /\ \A i, j \in 1 .. Len(kt[r]) : i < j => kt[r][i][1] < kt[r][j][1]
    /\ masks[r] = None => kt[r] = <<>>
    /\ IF masks[r] = None
       THEN Masks!Budget(conf.model, conf.budget) # None =>
                \A l \in 0 .. next[r] - 1 : ~ Masks!Routed(conf.model, l)
       ELSE \A l \in 0 .. next[r] - 1 : Masks!Routed(conf.model, l) => l \in LayersOf(r)

(* The broadcast reaches all ranks at their first routed layer, and gives   *)
(* them the same masks.                                                     *)
AgreeInv ==
    /\ pc \in [MaskRanks -> {"layers", "broadcast", "up", "down"}]
    /\ next \in [MaskRanks -> 0 .. MaskLayers]
    /\ DOMAIN kt = MaskRanks /\ kt = [r \in MaskRanks |-> kt[r]]
    /\ \A r \in MaskRanks :
          /\ BuiltInv(r)
          /\ pc[r] = "broadcast" => masks[r] = None /\ Masks!Budget(conf.model, conf.budget) # None
    /\ \A r, q \in MaskRanks : masks[r] = masks[q]
    /\ \A r, q \in MaskRanks : \A i \in (1 .. Len(kt[r])) \cap (1 .. Len(kt[q])) : kt[r][i] = kt[q][i]

LEMMA BuildMoeStep ==
    ASSUME Masks!BootAssumption, AgreeInv, NEW r \in MaskRanks, Masks!BuildMoe(r)
    PROVE  AgreeInv'
<1> DEFINE l == next[r]
           e == <<l, masks[r][l]>>
           n == Len(kt[r])
<1>1. /\ l \in Nat /\ l < MaskLayers /\ MaskLayers \in Nat /\ Masks!Routed(conf.model, l)
      /\ masks[r] # None \/ Masks!Budget(conf.model, conf.budget) = None
      /\ next' = [next EXCEPT ![r] = l + 1]
      /\ UNCHANGED <<conf, pc, masks>>
  BY DEF Masks!BuildMoe, AgreeInv, Masks!BootAssumption
<1>2. CASE masks[r] = None
  <2>1. kt' = kt
    BY <1>2 DEF Masks!BuildMoe
  <2>2. BuiltInv(r)'
    BY <1>1, <1>2, <2>1 DEF AgreeInv, BuiltInv, LayersOf, Masks!Routed, Masks!Budget
  <2>3. \A q \in MaskRanks : q # r => BuiltInv(q)'
    BY <1>1, <2>1 DEF AgreeInv, BuiltInv, LayersOf
  <2> QED
    BY <1>1, <2>1, <2>2, <2>3 DEF AgreeInv
<1>3. CASE masks[r] # None
  <2>1. /\ kt' = [kt EXCEPT ![r] = Append(kt[r], e)]
        /\ kt'[r] = Append(kt[r], e)
        /\ \A q \in MaskRanks : q # r => kt'[q] = kt[q]
    BY <1>3 DEF Masks!BuildMoe, AgreeInv
  <2>2. /\ IsSequence(kt'[r]) /\ Len(kt'[r]) = n + 1 /\ n \in Nat
        /\ \A i \in 1 .. n : kt'[r][i] = kt[r][i]
        /\ kt'[r][n + 1] = e
    BY <2>1, AppendToSequence DEF AgreeInv, BuiltInv, IsSequence
  <2>3. BuiltInv(r)
    BY DEF AgreeInv
  <2>4. BuiltInv(r)'
    <3>1. next'[r] = l + 1 /\ l + 1 \in 0 .. MaskLayers
      BY <1>1 DEF AgreeInv
    <3>2. ASSUME NEW i \in 1 .. n + 1
          PROVE  /\ kt'[r][i][1] \in 0 .. l /\ Masks!Routed(conf.model, kt'[r][i][1])
                 /\ kt'[r][i] = <<kt'[r][i][1], masks[r][kt'[r][i][1]]>>
      <4>1. CASE i \in 1 .. n
        BY <4>1, <1>1, <2>2, <2>3 DEF BuiltInv
      <4>2. CASE i = n + 1
        BY <4>2, <1>1, <2>2
      <4> QED
        BY <4>1, <4>2, <2>2
    <3>3. ASSUME NEW i \in 1 .. n + 1, NEW j \in 1 .. n + 1, i < j PROVE kt'[r][i][1] < kt'[r][j][1]
      <4>1. i \in 1 .. n /\ kt'[r][i] = kt[r][i] /\ kt[r][i][1] \in 0 .. l - 1
        BY <3>3, <2>2, <2>3 DEF BuiltInv
      <4>2. CASE j \in 1 .. n
        BY <4>1, <4>2, <3>3, <2>2, <2>3 DEF BuiltInv
      <4>3. CASE j = n + 1
        BY <4>1, <4>3, <2>2, <1>1
      <4> QED
        BY <4>2, <4>3, <2>2
    <3>4. ASSUME NEW k \in 0 .. l, Masks!Routed(conf.model, k) PROVE k \in LayersOf(r)'
      <4>1. CASE k < l
        <5>1. k \in LayersOf(r)
          BY <4>1, <3>4, <1>1, <1>3, <2>3 DEF BuiltInv
        <5>2. PICK i \in 1 .. n : k = kt[r][i][1]
          BY <5>1 DEF LayersOf
        <5>3. i \in 1 .. n + 1 /\ k = kt'[r][i][1]
          BY <5>2, <2>2
        <5> QED
          BY <5>3, <2>2 DEF LayersOf
      <4>2. CASE k = l
        <5>1. n + 1 \in 1 .. n + 1 /\ k = kt'[r][n + 1][1]
          BY <4>2, <2>2
        <5> QED
          BY <5>1, <2>2 DEF LayersOf
      <4> QED
        BY <4>1, <4>2, <1>1
    <3> QED
      BY <3>1, <3>2, <3>3, <3>4, <2>2, <1>1, <1>3 DEF BuiltInv, Masks!Routed
  <2>5. \A q \in MaskRanks : q # r => BuiltInv(q)'
    BY <1>1, <2>1 DEF AgreeInv, BuiltInv, LayersOf
  <2>6. ASSUME NEW q \in MaskRanks, q # r, n + 1 \in 1 .. Len(kt[q])
        PROVE  kt[q][n + 1] = e
    <3> DEFINE m == kt[q][n + 1][1]
    <3>1. /\ BuiltInv(q) /\ m \in 0 .. next[q] - 1 /\ next[q] \in 0 .. MaskLayers
          /\ Masks!Routed(conf.model, m)
          /\ kt[q][n + 1] = <<m, masks[q][m]>> /\ masks[q] = masks[r] /\ Len(kt[q]) \in Nat
      BY <2>6 DEF AgreeInv, BuiltInv, IsSequence
    <3>2. \A j \in 1 .. n : kt[r][j] = kt[q][j] /\ j \in 1 .. Len(kt[q])
      BY <2>6, <2>2, <3>1 DEF AgreeInv
    <3>3. ~ (m < l)
      <4> SUFFICES ASSUME m < l PROVE FALSE
        OBVIOUS
      <4>1. m \in LayersOf(r)
        BY <3>1, <2>3, <1>1, <1>3 DEF BuiltInv
      <4>2. PICK j \in 1 .. n : m = kt[r][j][1]
        BY <4>1 DEF LayersOf
      <4>3. kt[q][j][1] = m /\ j < n + 1 /\ j \in 1 .. Len(kt[q])
        BY <4>2, <3>2, <2>2
      <4>4. kt[q][j][1] < m
        BY <4>3, <2>6, <3>1 DEF BuiltInv
      <4> QED
        BY <4>3, <4>4, <3>1
    <3>4. ~ (m > l)
      <4> SUFFICES ASSUME m > l PROVE FALSE
        OBVIOUS
      <4>1. l \in LayersOf(q)
        BY <3>1, <1>1, <1>3 DEF BuiltInv
      <4>2. PICK j \in 1 .. Len(kt[q]) : l = kt[q][j][1]
        BY <4>1 DEF LayersOf
      <4>3. j < n + 1
        <5> SUFFICES ASSUME n + 1 <= j PROVE FALSE
          BY <3>1, <2>2
        <5>1. j = n + 1 \/ n + 1 < j
          BY <3>1, <2>2
        <5>2. m <= l
          BY <5>1, <4>2, <2>6, <3>1, <1>1 DEF BuiltInv
        <5> QED
          BY <5>2, <3>1, <1>1
      <4>4. j \in 1 .. n /\ kt[r][j][1] = l
        BY <4>2, <4>3, <3>1, <3>2, <2>2
      <4> QED
        BY <4>4, <2>3, <1>1 DEF BuiltInv
    <3> QED
      BY <3>1, <3>3, <3>4, <1>1
  <2>7. ASSUME NEW p \in MaskRanks, NEW q \in MaskRanks,
               NEW i \in (1 .. Len(kt'[p])) \cap (1 .. Len(kt'[q]))
        PROVE  kt'[p][i] = kt'[q][i]
    <3>1. CASE p # r /\ q # r
      BY <3>1, <2>1, <2>7 DEF AgreeInv
    <3>2. CASE p = r /\ q # r
      <4>0. kt'[q] = kt[q] /\ i \in 1 .. Len(kt[q]) /\ i \in 1 .. n + 1
        BY <3>2, <2>1, <2>2, <2>7
      <4>1. CASE i \in 1 .. n
        <5>1. kt[r][i] = kt[q][i] /\ kt'[r][i] = kt[r][i]
          BY <4>0, <4>1, <2>2 DEF AgreeInv
        <5> QED
          BY <5>1, <4>0, <3>2
      <4>2. CASE i = n + 1
        <5>1. kt[q][i] = e /\ kt'[r][i] = e
          BY <4>0, <4>2, <3>2, <2>2, <2>6
        <5> QED
          BY <5>1, <4>0, <3>2
      <4> QED
        BY <4>0, <4>1, <4>2, <2>2
    <3>3. CASE q = r /\ p # r
      <4>0. kt'[p] = kt[p] /\ i \in 1 .. Len(kt[p]) /\ i \in 1 .. n + 1
        BY <3>3, <2>1, <2>2, <2>7
      <4>1. CASE i \in 1 .. n
        <5>1. kt[r][i] = kt[p][i] /\ kt'[r][i] = kt[r][i]
          BY <4>0, <4>1, <2>2 DEF AgreeInv
        <5> QED
          BY <5>1, <4>0, <3>3
      <4>2. CASE i = n + 1
        <5>1. kt[p][i] = e /\ kt'[r][i] = e
          BY <4>0, <4>2, <3>3, <2>2, <2>6
        <5> QED
          BY <5>1, <4>0, <3>3
      <4> QED
        BY <4>0, <4>1, <4>2, <2>2
    <3> QED
      BY <3>1, <3>2, <3>3
  <2>8. next' \in [MaskRanks -> 0 .. MaskLayers]
    BY <1>1 DEF AgreeInv
  <2>9. DOMAIN kt' = MaskRanks /\ kt' = [q \in MaskRanks |-> kt'[q]]
    BY <2>1 DEF AgreeInv
  <2> QED
    BY <1>1, <2>4, <2>5, <2>7, <2>8, <2>9 DEF AgreeInv
<1> QED
  BY <1>2, <1>3

(* At the broadcast no rank has masks yet, nor a layer built from them.     *)
LEMMA BroadcastStep ==
    ASSUME Masks!BootAssumption, AgreeInv, Masks!Broadcast
    PROVE  AgreeInv'
<1>1. /\ 0 \in MaskRanks /\ MaskLayers \in Nat
      /\ \A r \in MaskRanks : pc[r] = "broadcast" /\ masks[r] = None
      /\ Masks!Budget(conf.model, conf.budget) # None
      /\ masks' = [r \in MaskRanks |-> local[0]] /\ pc' = [r \in MaskRanks |-> "layers"]
      /\ UNCHANGED <<conf, next, kt>>
  BY DEF Masks!Broadcast, Masks!Broadcasted, Masks!BootAssumption, AgreeInv
<1>2. \A r \in MaskRanks : kt[r] = <<>> /\ Len(kt[r]) = 0
  BY <1>1, EmptySequence DEF AgreeInv, BuiltInv
<1>3. ASSUME NEW r \in MaskRanks PROVE BuiltInv(r)'
  <2>1. \A l \in 0 .. next[r] - 1 : ~ Masks!Routed(conf.model, l)
    BY <1>1 DEF AgreeInv, BuiltInv
  <2> QED
    BY <1>1, <1>2, <2>1 DEF AgreeInv, BuiltInv, Masks!Routed
<1> QED
  BY <1>1, <1>2, <1>3 DEF AgreeInv

(* A layer without routed experts adds nothing.                             *)
LEMMA BuildDenseStep ==
    ASSUME Masks!BootAssumption, AgreeInv, NEW r \in MaskRanks, Masks!BuildDense(r)
    PROVE  AgreeInv'
<1>1. /\ next[r] \in Nat /\ next[r] < MaskLayers /\ MaskLayers \in Nat
      /\ ~ Masks!Routed(conf.model, next[r])
      /\ next' = [next EXCEPT ![r] = next[r] + 1]
      /\ UNCHANGED <<conf, pc, masks, local, kt>>
  BY DEF Masks!BuildDense, AgreeInv, Masks!BootAssumption
<1>2. ASSUME NEW q \in MaskRanks PROVE BuiltInv(q)'
  <2>1. CASE q # r
    BY <1>1, <2>1 DEF AgreeInv, BuiltInv, LayersOf, Masks!Routed
  <2>2. CASE q = r
    <3>1. next'[r] = next[r] + 1 /\ BuiltInv(r)
      BY <1>1 DEF AgreeInv
    <3>2. \A l \in 0 .. next'[r] - 1 : l \in 0 .. next[r] - 1 \/ ~ Masks!Routed(conf.model, l)
      BY <1>1, <3>1
    <3>3. LayersOf(r)' = LayersOf(r)
      BY <1>1 DEF LayersOf
    <3>4. next'[r] \in 0 .. MaskLayers
          /\ \A l \in 0 .. next[r] - 1 : l \in 0 .. next'[r] - 1
      BY <1>1, <3>1
    <3> QED
      BY <1>1, <2>2, <3>1, <3>2, <3>3, <3>4 DEF BuiltInv, Masks!Routed, Masks!Budget
  <2> QED
    BY <2>1, <2>2
<1>3. next' \in [MaskRanks -> 0 .. MaskLayers]
  BY <1>1 DEF AgreeInv
<1> QED
  BY <1>1, <1>2, <1>3 DEF AgreeInv

LEMMA KeepsBuilt ==
    ASSUME AgreeInv, UNCHANGED <<conf, next, masks, kt>>,
           pc' \in [MaskRanks -> {"layers", "broadcast", "up", "down"}],
           \A r \in MaskRanks : pc'[r] = "broadcast" =>
               masks[r] = None /\ Masks!Budget(conf.model, conf.budget) # None
    PROVE  AgreeInv'
<1>1. Masks!Budget(conf.model, conf.budget)' = Masks!Budget(conf.model, conf.budget)
  BY DEF Masks!Budget
<1>2. \A r \in MaskRanks : BuiltInv(r)'
  BY DEF AgreeInv, BuiltInv, LayersOf, Masks!Routed, Masks!Budget
<1> QED
  BY <1>1, <1>2 DEF AgreeInv

LEMMA AgreeInvInductive ==
    /\ Masks!Init => AgreeInv
    /\ AgreeInv /\ [Masks!Next]_Masks!vars => AgreeInv'
<1> USE StartAssumption DEF StartAssumption
<1>1. Masks!Init => AgreeInv
  <2> SUFFICES ASSUME Masks!Init PROVE AgreeInv
    OBVIOUS
  <2>1. MaskLayers \in Nat
    BY DEF Masks!BootAssumption
  <2>2. ASSUME NEW r \in MaskRanks PROVE BuiltInv(r)
    BY <2>1, EmptySequence DEF Masks!Init, BuiltInv
  <2> QED
    BY <2>1, <2>2, EmptySequence DEF Masks!Init, AgreeInv
<1>2. AgreeInv /\ [Masks!Next]_Masks!vars => AgreeInv'
  <2> SUFFICES ASSUME AgreeInv, [Masks!Next]_Masks!vars PROVE AgreeInv'
    OBVIOUS
  <2>1. CASE Masks!Broadcast
    BY <2>1, BroadcastStep
  <2>2. ASSUME NEW r \in MaskRanks, Masks!BuildDense(r) PROVE AgreeInv'
    BY <2>2, BuildDenseStep
  <2>3. ASSUME NEW r \in MaskRanks, Masks!Compute(r) PROVE AgreeInv'
    <3>1. /\ masks[r] = None /\ Masks!Budget(conf.model, conf.budget) # None
          /\ UNCHANGED <<conf, next, masks, kt>>
          /\ pc' = [pc EXCEPT ![r] = "down"] \/ pc' = [pc EXCEPT ![r] = "broadcast"]
      BY <2>3 DEF Masks!Compute, Masks!FirstRouted
    <3>2. pc' \in [MaskRanks -> {"layers", "broadcast", "up", "down"}]
      BY <3>1 DEF AgreeInv
    <3>3. \A q \in MaskRanks : pc'[q] = "broadcast" => q = r \/ pc[q] = "broadcast"
      BY <3>1 DEF AgreeInv
    <3> QED
      BY <3>1, <3>2, <3>3, KeepsBuilt DEF AgreeInv
  <2>4. ASSUME NEW r \in MaskRanks, Masks!BuildMoe(r) PROVE AgreeInv'
    BY <2>4, BuildMoeStep
  <2>5. ASSUME NEW r \in MaskRanks, Masks!Finish(r) \/ Masks!TakeDown(r) PROVE AgreeInv'
    <3>1. /\ pc' \in [MaskRanks -> {"layers", "broadcast", "up", "down"}]
          /\ \A q \in MaskRanks : pc'[q] = "broadcast" => pc[q] = "broadcast"
          /\ UNCHANGED <<conf, next, masks, kt>>
      BY <2>5 DEF Masks!Finish, Masks!TakeDown, AgreeInv
    <3> QED
      BY <3>1, KeepsBuilt DEF AgreeInv
  <2>6. CASE UNCHANGED Masks!vars
    BY <2>6, KeepsBuilt DEF Masks!vars, AgreeInv
  <2> QED
    BY <2>1, <2>2, <2>3, <2>4, <2>5, <2>6 DEF Masks!Next, Masks!Step
<1> QED
  BY <1>1, <1>2

(* Whatever the model, the budget and the strategy, the layers of any two   *)
(* ranks hold the same experts on the GPU at every moment of the boot.      *)
LEMMA MasksAgree == AgreeInv => Masks!RanksAgree
<1> SUFFICES ASSUME AgreeInv, NEW r \in MaskRanks, NEW q \in MaskRanks, NEW i \in DOMAIN kt[r] \cap DOMAIN kt[q]
             PROVE  kt[r][i] = kt[q][i]
  BY DEF Masks!RanksAgree
<1>1. IsSequence(kt[r]) /\ IsSequence(kt[q])
  BY DEF AgreeInv, BuiltInv
<1>2. DOMAIN kt[r] = 1 .. Len(kt[r]) /\ DOMAIN kt[q] = 1 .. Len(kt[q])
  BY <1>1 DEF IsSequence
<1> QED
  BY <1>2 DEF AgreeInv

(* Hotcore without a ranking of this model falls back: no rank raises.      *)
HotcoreInv == pc \in [MaskRanks -> {"layers", "broadcast", "up", "down"}] /\ Masks!HotcoreNeverFatal

LEMMA HotcoreBoots ==
    /\ Masks!Init => HotcoreInv
    /\ HotcoreInv /\ [Masks!Next]_Masks!vars => HotcoreInv'
<1> USE DEF HotcoreInv, Masks!HotcoreNeverFatal
<1>1. Masks!Init => HotcoreInv
  BY DEF Masks!Init
<1>2. HotcoreInv /\ [Masks!Next]_Masks!vars => HotcoreInv'
  BY DEF Masks!Next, Masks!Step, Masks!vars, Masks!Broadcast, Masks!BuildDense, Masks!Compute,
     Masks!Raises, Masks!BuildMoe, Masks!Finish, Masks!TakeDown
<1> QED
  BY <1>1, <1>2

-----------------------------------------------------------------------------
(* The layers with their stores (LayerBoot).                                *)

(* Rank 0 has loaded layer l.                                               *)
Loaded(l) ==
    \/ l < layer[0]
    \/ l = layer[0] /\ pc[0] \in {"table", "broadcast", "map", "register"}

(* What the CPU reads of a layer that is loaded is what the mode says, the  *)
(* store holds what the load was asked for, and a layer being loaded has    *)
(* the mask of the load.                                                    *)
StageInv ==
    /\ pc \in [Workers -> {"create", "load", "table", "broadcast", "map", "register", "up", "down"}]
    /\ layer \in [Workers -> 1 .. NumLayers + 1]
    /\ DOMAIN skip = Layers!Layers /\ DOMAIN store = Layers!Layers /\ DOMAIN adapter = Layers!Layers
    /\ \A r \in Workers :
          /\ pc[r] = "up" => layer[r] = NumLayers + 1
          /\ pc[r] \notin {"up", "down"} => layer[r] <= NumLayers
    /\ pc[0] = "load" =>
          /\ skip[layer[0]] = Layers!LoadMask(layer[0])
          /\ conf.mode = "lora" => adapter[layer[0]] = TRUE
    /\ pc[0] # "down" => \A l \in Layers!Layers : Loaded(l) =>
          /\ skip[l] = Layers!CpuSkip(l)
          /\ store[l] = ExpertIds \ Layers!LoadMask(l)
          /\ conf.mode = "lora" => adapter[l] = TRUE

LEMMA StageInvInductive ==
    /\ Layers!Init => StageInv
    /\ StageInv /\ [Layers!Next]_Layers!vars => StageInv'
<1> USE StartAssumption DEF StartAssumption
<1>0. 0 \in Workers /\ NumLayers \in Nat \ {0}
  BY DEF Layers!LayerBootAssumption
<1>1. Layers!Init => StageInv
  BY <1>0 DEF Layers!Init, StageInv, Loaded, Layers!Layers
<1>2. StageInv /\ [Layers!Next]_Layers!vars => StageInv'
  <2> SUFFICES ASSUME StageInv, [Layers!Next]_Layers!vars PROVE StageInv'
    OBVIOUS
  <2> USE <1>0 DEF StageInv, Loaded, Layers!Layers
  <2>0. conf' = conf /\ \A l : /\ Layers!CpuSkip(l)' = Layers!CpuSkip(l)
                               /\ Layers!LoadMask(l)' = Layers!LoadMask(l)
    <3>1. conf' = conf
      BY DEF Layers!Next, Layers!Step, Layers!vars, Layers!Broadcast, Layers!CreateWeights, Layers!LoadWeights,
         Layers!Table, Layers!Map, Layers!Register, Layers!TakeDown
    <3> QED
      BY <3>1 DEF Layers!CpuSkip, Layers!LoadMask, Layers!Resident
  <2>1. CASE Layers!Broadcast
    BY <2>0, <2>1 DEF Layers!Broadcast
  <2>2. ASSUME NEW r \in Workers, Layers!CreateWeights(r) PROVE StageInv'
    <3>1. CASE r = 0 /\ pc' = [pc EXCEPT ![r] = "load"]
      <4>1. /\ pc[0] = "create" /\ layer[0] \in 1 .. NumLayers
            /\ layer' = layer /\ store' = store
        BY <2>2, <3>1 DEF Layers!CreateWeights
      <4>2. skip' = [skip EXCEPT ![layer[0]] = Layers!LoadMask(layer[0])]
        BY <2>2, <3>1 DEF Layers!CreateWeights, Layers!AdapterMisfit
      <4>3. adapter' = IF conf.mode = "lora" THEN [adapter EXCEPT ![layer[0]] = TRUE] ELSE adapter
        BY <2>2, <3>1 DEF Layers!CreateWeights, Layers!AdapterMisfit
      <4>4. \A l \in 1 .. NumLayers : Loaded(l)' => l # layer[0] /\ Loaded(l)
        BY <3>1, <4>1
      <4>5. /\ skip'[layer[0]] = Layers!LoadMask(layer[0])
            /\ conf.mode = "lora" => adapter'[layer[0]] = TRUE
            /\ \A l \in 1 .. NumLayers : l # layer[0] => skip'[l] = skip[l] /\ adapter'[l] = adapter[l]
            /\ DOMAIN skip' = 1 .. NumLayers /\ DOMAIN adapter' = 1 .. NumLayers
        BY <4>1, <4>2, <4>3
      <4> QED
        BY <2>0, <3>1, <4>1, <4>4, <4>5
    <3>2. CASE r = 0 /\ pc' = [pc EXCEPT ![r] = "down"]
      BY <2>0, <2>2, <3>2 DEF Layers!CreateWeights, Layers!AdapterMisfit
    <3>3. CASE r # 0
      BY <2>0, <2>2, <3>3 DEF Layers!CreateWeights
    <3> QED
      BY <2>2, <3>1, <3>2, <3>3 DEF Layers!CreateWeights, Layers!AdapterMisfit
  <2>3. ASSUME NEW r \in Workers, Layers!LoadWeights(r) PROVE StageInv'
    <3>1. CASE r = 0
      <4>1. /\ pc[0] = "load" /\ layer[0] \in 1 .. NumLayers
            /\ layer' = layer /\ adapter' = adapter
            /\ pc' = [pc EXCEPT ![0] = IF conf.prefetch THEN "table" ELSE "register"]
        BY <2>3, <3>1 DEF Layers!LoadWeights
      <4>2. /\ store' = [store EXCEPT ![layer[0]] = ExpertIds \ skip[layer[0]]]
            /\ skip' = [skip EXCEPT ![layer[0]] = Layers!LiveMask(layer[0])]
        BY <2>3, <3>1 DEF Layers!LoadWeights
      <4>3. Layers!LiveMask(layer[0]) = Layers!CpuSkip(layer[0])
        BY <4>1 DEF Layers!LiveMask, Layers!LoadMask
      <4>4. \A l \in 1 .. NumLayers : Loaded(l)' => l = layer[0] \/ Loaded(l)
        BY <4>1
      <4>5. /\ skip'[layer[0]] = Layers!CpuSkip(layer[0])
            /\ store'[layer[0]] = ExpertIds \ Layers!LoadMask(layer[0])
            /\ \A l \in 1 .. NumLayers : l # layer[0] => skip'[l] = skip[l] /\ store'[l] = store[l]
            /\ DOMAIN skip' = 1 .. NumLayers /\ DOMAIN store' = 1 .. NumLayers
        BY <4>1, <4>2, <4>3
      <4> QED
        BY <2>0, <4>1, <4>4, <4>5
    <3>2. CASE r # 0
      BY <2>0, <2>3, <3>2 DEF Layers!LoadWeights
    <3> QED
      BY <3>1, <3>2
  <2>4. ASSUME NEW r \in Workers, Layers!Table(r) PROVE StageInv'
    BY <2>0, <2>4 DEF Layers!Table
  <2>5. ASSUME NEW r \in Workers, Layers!Map(r) PROVE StageInv'
    BY <2>0, <2>5 DEF Layers!Map
  <2>6. ASSUME NEW r \in Workers, Layers!Register(r) PROVE StageInv'
    BY <2>0, <2>6 DEF Layers!Register
  <2>7. ASSUME NEW r \in Workers, Layers!TakeDown(r) PROVE StageInv'
    BY <2>0, <2>7 DEF Layers!TakeDown
  <2>8. CASE UNCHANGED Layers!vars
    BY <2>0, <2>8 DEF Layers!vars
  <2> QED
    BY <2>1, <2>2, <2>3, <2>4, <2>5, <2>6, <2>7, <2>8 DEF Layers!Next, Layers!Step
<1> QED
  BY <1>1, <1>2

(* On a server that is up, under any mode, prefetch and faults: the CPU     *)
(* computes exactly the experts no GPU holds and has their weights, a mode  *)
(* that evicts finds every expert in the store, and an adapter that was     *)
(* asked for is in every layer.                                             *)
THEOREM ExpertsServedOnce == MCSpec => []ServedOnce
<1> USE StartAssumption DEF StartAssumption
<1> DEFINE I == part = "layers" => StageInv
<1>1. MCInit => I
  BY InitOfPart, StageInvInductive
<1>2. I /\ [MCNext]_MCVars => I'
  BY StepOfPart, StageInvInductive
<1>3. I => ServedOnce
  <2> SUFFICES ASSUME StageInv, Layers!Up, NEW l \in Layers!Layers
               PROVE  /\ ExpertIds \ skip[l] = IF conf.mode = "tiered" THEN Ram[l] ELSE ExpertIds \ Layers!Resident(l)
                      /\ ExpertIds \ skip[l] \subseteq store[l]
                      /\ conf.mode = "adaptive" => store[l] = ExpertIds
                      /\ conf.mode = "lora" => adapter[l]
    BY DEF ServedOnce, Layers!ServedOnce, Layers!EvictionsHaveWeights, Layers!AdapterEverywhere
  <2>1. l < layer[0] /\ pc[0] # "down"
    BY DEF StageInv, Layers!Up, Layers!LayerBootAssumption, Layers!Layers
  <2>2. /\ skip[l] = Layers!CpuSkip(l) /\ store[l] = ExpertIds \ Layers!LoadMask(l)
        /\ conf.mode = "lora" => adapter[l] = TRUE
    BY <2>1 DEF StageInv, Loaded
  <2>3. Gpu[l] \subseteq ExpertIds /\ Ram[l] \subseteq ExpertIds
    BY DEF Layers!LayerBootAssumption
  <2> QED
    BY <2>2, <2>3 DEF Layers!CpuSkip, Layers!LoadMask, Layers!Resident
<1> QED
  BY <1>1, <1>2, <1>3, PTL DEF MCSpec

(* Each rank registers the layers it is past, in order.                     *)
RegistryInv ==
    /\ DOMAIN registry = Workers
    /\ \A r \in Workers :
          /\ IsSequence(registry[r])
          /\ Len(registry[r]) = IF conf.mode = "adaptive" THEN layer[r] - 1 ELSE 0
          /\ \A i \in 1 .. Len(registry[r]) : registry[r][i] = i

(* The tick of a server that is up walks the same layers on every rank, in  *)
(* the same order.                                                          *)
LEMMA RegistriesAreOne ==
    /\ Layers!Init => RegistryInv
    /\ StageInv /\ RegistryInv /\ [Layers!Next]_Layers!vars => RegistryInv'
    /\ StageInv /\ RegistryInv => Layers!RegistriesAgree
<1> USE StartAssumption DEF StartAssumption
<1>0. 0 \in Workers /\ NumLayers \in Nat \ {0}
  BY DEF Layers!LayerBootAssumption
<1> DEFINE I == RegistryInv
<1> USE DEF RegistryInv
<1>1. Layers!Init => I
  <2> SUFFICES ASSUME Layers!Init PROVE I
    OBVIOUS
  <2>1. \A r \in Workers : registry[r] = <<>> /\ layer[r] = 1
    BY DEF Layers!Init
  <2> QED
    BY <2>1, EmptySequence DEF Layers!Init
<1>2. StageInv /\ I /\ [Layers!Next]_Layers!vars => I'
  <2> SUFFICES ASSUME StageInv, I, [Layers!Next]_Layers!vars PROVE I'
    OBVIOUS
  <2>1. ASSUME NEW r \in Workers, Layers!Register(r) PROVE I'
    <3>1. /\ layer' = [layer EXCEPT ![r] = layer[r] + 1] /\ layer'[r] = layer[r] + 1
          /\ layer[r] \in Nat /\ conf' = conf
      BY <1>0, <2>1 DEF Layers!Register, StageInv
    <3>2. \A q \in Workers : q # r => registry'[q] = registry[q] /\ layer'[q] = layer[q]
      BY <2>1, <3>1 DEF Layers!Register, StageInv
    <3>3. DOMAIN registry' = Workers
      BY <2>1 DEF Layers!Register
    <3>4. CASE conf.mode = "adaptive"
      <4>1. registry'[r] = Append(registry[r], layer[r])
        BY <2>1, <3>4 DEF Layers!Register, Layers!Registers
      <4>2. /\ IsSequence(registry'[r]) /\ Len(registry'[r]) = layer[r]
            /\ \A i \in 1 .. layer[r] - 1 : registry'[r][i] = i
            /\ registry'[r][layer[r]] = layer[r]
        BY <4>1, <3>1, <3>4, AppendToSequence
      <4>3. \A i \in 1 .. layer[r] : i \in 1 .. layer[r] - 1 \/ i = layer[r]
        BY <3>1
      <4> QED
        BY <4>2, <4>3, <3>1, <3>2, <3>3, <3>4
    <3>5. CASE conf.mode # "adaptive"
      BY <2>1, <3>5, <3>1, <3>2, <3>3 DEF Layers!Register, Layers!Registers
    <3> QED
      BY <3>4, <3>5
  <2>2. ASSUME UNCHANGED <<conf, layer, registry>> PROVE I'
    BY <2>2
  <2> QED
    BY <2>1, <2>2 DEF Layers!Next, Layers!Step, Layers!vars, Layers!Broadcast, Layers!CreateWeights, Layers!LoadWeights,
       Layers!Table, Layers!Map, Layers!TakeDown
<1>3. StageInv /\ I => Layers!RegistriesAgree
  <2> SUFFICES ASSUME StageInv, I, Layers!Up, NEW r \in Workers, NEW q \in Workers
               PROVE  registry[r] = registry[q]
    BY DEF Layers!RegistriesAgree
  <2>1. layer[r] = layer[q]
    BY DEF StageInv, Layers!Up
  <2>2. Len(registry[r]) = Len(registry[q]) /\ \A i \in 1 .. Len(registry[r]) : registry[r][i] = registry[q][i]
    BY <2>1
  <2> QED
    BY <2>2 DEF IsSequence
<1> QED
  BY <1>1, <1>2, <1>3

(* Broadcasts a rank has taken part in, and whether it has its table of l.  *)
Met(r) == IF pc[r] \in {"map", "register"} THEN layer[r] ELSE layer[r] - 1
Mapped(r, l) == l < layer[r] \/ (l = layer[r] /\ pc[r] = "register")

(* As long as no rank is down, the broadcasts keep all ranks at the same    *)
(* layer, what they were told is of that layer, and so are their tables.    *)
TableInv ==
    /\ table \in [Workers -> [Layers!Layers -> Layers!Layers \cup {None}]]
    /\ desc \in [Workers -> Layers!Layers \cup {None}]
    /\ ~ conf.prefetch => \A r \in Workers :
          /\ pc[r] \notin {"table", "broadcast", "map"}
          /\ \A l \in Layers!Layers : table[r][l] = None
    /\ conf.prefetch /\ (\A r \in Workers : pc[r] # "down") =>
          /\ \A r, q \in Workers : Met(r) = Met(q) /\ desc[r] = desc[q]
          /\ \A r \in Workers : desc[r] \in {None, Met(r)}
          /\ \A r \in Workers, l \in Layers!Layers : Mapped(r, l) =>
                /\ table[r][l] \in {None, l}
                /\ l = Met(r) => table[r][l] = desc[r]
                /\ \A q \in Workers : Mapped(q, l) => table[r][l] = table[q][l]

(* Unless a fault strikes one rank alone, and whatever becomes of the       *)
(* description of the store: every rank gathers from the store of the layer *)
(* it serves, or no rank does.                                              *)
LEMMA TablesAreOne ==
    ASSUME Layers!OnlySharedFaults
    PROVE  /\ Layers!Init => TableInv
           /\ StageInv /\ TableInv /\ [Layers!Next]_Layers!vars => TableInv'
           /\ StageInv /\ TableInv => Layers!TablesAgree
<1> USE StartAssumption DEF StartAssumption
<1>0. 0 \in Workers /\ NumLayers \in Nat \ {0}
  BY DEF Layers!LayerBootAssumption
<1> USE DEF TableInv, Layers!Layers
<1>1. Layers!Init => TableInv
  BY <1>0 DEF Layers!Init, Met, Mapped
<1>2. StageInv /\ TableInv /\ [Layers!Next]_Layers!vars => TableInv'
  <2> SUFFICES ASSUME StageInv, TableInv, [Layers!Next]_Layers!vars PROVE TableInv'
    OBVIOUS
  <2>0. /\ pc \in [Workers -> {"create", "load", "table", "broadcast", "map", "register", "up", "down"}]
        /\ layer \in [Workers -> 1 .. NumLayers + 1]
        /\ \A r \in Workers : pc[r] \notin {"up", "down"} => layer[r] \in 1 .. NumLayers
    BY <1>0 DEF StageInv
  <2> USE <1>0, <2>0
  <2>1. CASE Layers!Broadcast
    <3>1. /\ \A r \in Workers : pc[r] = "broadcast" /\ pc'[r] = "map" /\ Met(r) = layer[r] - 1
          /\ pc' = [r \in Workers |-> "map"]
          /\ UNCHANGED <<conf, layer, table>>
      BY <2>1 DEF Layers!Broadcast, Met
    <3>2. conf.prefetch /\ \A r, q \in Workers : layer[r] = layer[q]
      BY <3>1
    <3>3. PICK d \in {layer[0], None} : desc' = [r \in Workers |-> d]
      BY <2>1 DEF Layers!Broadcast, Layers!Broadcasted
    <3>4. /\ desc' \in [Workers -> 1 .. NumLayers \cup {None}]
          /\ \A r \in Workers : desc'[r] = d /\ Met(r)' = layer[r] /\ d \in {None, layer[r]}
      BY <3>1, <3>2, <3>3 DEF Met
    <3>5. \A r \in Workers, l \in 1 .. NumLayers : Mapped(r, l)' => Mapped(r, l) /\ l # layer[r]
      BY <3>1 DEF Mapped
    <3> QED
      BY <3>1, <3>2, <3>4, <3>5
  <2>2. ASSUME NEW r \in Workers, Layers!CreateWeights(r) PROVE TableInv'
    <3>1. CASE pc' = [pc EXCEPT ![r] = "load"]
      BY <2>2, <3>1 DEF Layers!CreateWeights, Met, Mapped
    <3>2. CASE pc' = [pc EXCEPT ![r] = "down"]
      BY <2>2, <3>2 DEF Layers!CreateWeights
    <3> QED
      BY <2>2, <3>1, <3>2 DEF Layers!CreateWeights, Layers!AdapterMisfit
  <2>3. ASSUME NEW r \in Workers, Layers!LoadWeights(r) PROVE TableInv'
    BY <2>3 DEF Layers!LoadWeights, Met, Mapped
  <2>4. ASSUME NEW r \in Workers, Layers!Table(r) PROVE TableInv'
    <3>1. ~ Layers!Fault("kernels")
      BY DEF Layers!Fault, Layers!OnlySharedFaults
    <3>2. /\ pc[r] = "table" /\ pc' = [pc EXCEPT ![r] = "broadcast"]
          /\ UNCHANGED <<conf, layer, table, desc>>
      BY <2>4, <3>1 DEF Layers!Table
    <3> QED
      BY <3>2 DEF Met, Mapped
  <2>5. ASSUME NEW r \in Workers, Layers!Map(r) PROVE TableInv'
    <3>1. /\ pc[r] = "map" /\ layer[r] \in 1 .. NumLayers
          /\ table' = [table EXCEPT ![r][layer[r]] = desc[r]]
          /\ pc' = [pc EXCEPT ![r] = "register"]
          /\ UNCHANGED <<conf, layer, desc>>
      <4>1. ~ Layers!Fault("map")
        BY DEF Layers!Fault, Layers!OnlySharedFaults
      <4> QED
        <5>1. /\ pc[r] = "map" /\ pc' = [pc EXCEPT ![r] = "register"]
              /\ UNCHANGED <<conf, layer, desc>>
          BY <2>5 DEF Layers!Map
        <5>2. table' = [table EXCEPT ![r][layer[r]] = desc[r]]
          BY <2>5, <4>1 DEF Layers!Map
        <5>3. layer[r] \in 1 .. NumLayers
          BY <5>1
        <5> QED
          BY <5>1, <5>2, <5>3
    <3>2. /\ table' \in [Workers -> [1 .. NumLayers -> 1 .. NumLayers \cup {None}]]
          /\ table'[r][layer[r]] = desc[r]
          /\ \A q \in Workers, l \in 1 .. NumLayers : q # r \/ l # layer[r] => table'[q][l] = table[q][l]
      BY <3>1
    <3>3. conf.prefetch
      BY <3>1
    <3>4. CASE \E q \in Workers : pc'[q] = "down"
      BY <3>1, <3>2, <3>3, <3>4
    <3>5. CASE \A q \in Workers : pc'[q] # "down"
      <4>1. \A q \in Workers : pc[q] # "down" /\ Met(q)' = Met(q)
        BY <3>1, <3>5 DEF Met
      <4>2. \A q \in Workers, l \in 1 .. NumLayers : Mapped(q, l)' => Mapped(q, l) \/ (q = r /\ l = layer[r])
        BY <3>1 DEF Mapped
      <4>3. Met(r) = layer[r] /\ \A q \in Workers : Met(q) = layer[r] /\ desc[q] = desc[r]
        BY <3>1, <3>3, <4>1 DEF Met
      <4> QED
        BY <3>1, <3>2, <3>3, <4>1, <4>2, <4>3
    <3> QED
      BY <3>4, <3>5
  <2>6. ASSUME NEW r \in Workers, Layers!Register(r) PROVE TableInv'
    <3>1. /\ pc[r] = "register" /\ layer' = [layer EXCEPT ![r] = layer[r] + 1]
          /\ pc' = [pc EXCEPT ![r] = IF layer[r] = NumLayers THEN "up" ELSE "create"]
          /\ UNCHANGED <<conf, table, desc>>
      BY <2>6 DEF Layers!Register
    <3>2. \A q \in Workers : Met(q)' = Met(q)
      BY <3>1 DEF Met
    <3>3. \A q \in Workers, l \in 1 .. NumLayers : Mapped(q, l)' <=> Mapped(q, l)
      BY <3>1 DEF Mapped
    <3>4. \A q \in Workers : /\ pc'[q] \in {"table", "broadcast", "map"} => pc[q] = pc'[q]
                          /\ pc'[q] # "down" => pc[q] # "down"
      BY <3>1
    <3> QED
      BY <3>1, <3>2, <3>3, <3>4
  <2>7. ASSUME NEW r \in Workers, Layers!TakeDown(r) PROVE TableInv'
    BY <2>7 DEF Layers!TakeDown
  <2>8. CASE UNCHANGED Layers!vars
    BY <2>8 DEF Layers!vars, Met, Mapped
  <2> QED
    BY <2>1, <2>2, <2>3, <2>4, <2>5, <2>6, <2>7, <2>8 DEF Layers!Next, Layers!Step
<1>3. StageInv /\ TableInv => Layers!TablesAgree
  <2> SUFFICES ASSUME StageInv, TableInv, Layers!Up, NEW r \in Workers, NEW q \in Workers, NEW l \in 1 .. NumLayers
               PROVE  table[r][l] = table[q][l] /\ table[r][l] \in {None, l}
    BY DEF Layers!TablesAgree
  <2>1. Mapped(r, l) /\ Mapped(q, l) /\ \A p \in Workers : pc[p] # "down"
    BY <1>0 DEF StageInv, Layers!Up, Mapped
  <2>2. CASE conf.prefetch
    BY <2>1, <2>2
  <2>3. CASE ~ conf.prefetch
    BY <2>3
  <2> QED
    BY <2>2, <2>3
<1> QED
  BY <1>1, <1>2, <1>3

-----------------------------------------------------------------------------
(* At every moment of a start, whatever fails: two ranks hold the same      *)
(* experts on the GPU, hotcore without a ranking raises on none, and the    *)
(* ranks of a server that is up tick the same layers and gather from the    *)
(* same stores.                                                             *)
THEOREM RanksStayAgreed == MCSpec => []RanksAgree
<1> DEFINE I == /\ part = "masks" => AgreeInv /\ HotcoreInv
                /\ part = "layers" => StageInv /\ RegistryInv
                /\ part = "layers" /\ Layers!OnlySharedFaults => TableInv
<1>1. MCInit => I
  BY InitOfPart, AgreeInvInductive, HotcoreBoots, StageInvInductive, RegistriesAreOne, TablesAreOne
<1>2. I /\ [MCNext]_MCVars => I'
  <2> SUFFICES ASSUME I, [MCNext]_MCVars PROVE I'
    OBVIOUS
  <2>1. CASE part = "masks"
    BY <2>1, StepOfPart, AgreeInvInductive, HotcoreBoots
  <2>2. CASE part = "layers"
    <3>1. part' = part /\ [Layers!Next]_Layers!vars
      BY <2>2, StepOfPart
    <3>2. StageInv' /\ RegistryInv'
      BY <2>2, <3>1, StageInvInductive, RegistriesAreOne
    <3>3. Layers!OnlySharedFaults' = Layers!OnlySharedFaults
      BY <3>1 DEF Layers!OnlySharedFaults, Layers!Next, Layers!Step, Layers!vars, Layers!Broadcast,
         Layers!CreateWeights, Layers!LoadWeights, Layers!Table, Layers!Map, Layers!Register, Layers!TakeDown
    <3> QED
      BY <2>2, <3>1, <3>2, <3>3, TablesAreOne
  <2>3. CASE part \notin {"masks", "layers"}
    BY <2>3, StepOfPart
  <2> QED
    BY <2>1, <2>2, <2>3
<1>3. I => RanksAgree
  <2> SUFFICES ASSUME I PROVE RanksAgree
    OBVIOUS
  <2>1. part = "masks" => Masks!RanksAgree /\ Masks!HotcoreNeverFatal
    BY MasksAgree DEF HotcoreInv
  <2>2. part = "layers" => Layers!RegistriesAgree
    BY RegistriesAreOne
  <2>3. part = "layers" => Layers!TablesAgree
    BY TablesAreOne DEF Layers!TablesAgree
  <2> QED
    BY <2>1, <2>2, <2>3 DEF RanksAgree
<1> QED
  BY <1>1, <1>2, <1>3, PTL DEF MCSpec
=============================================================================
