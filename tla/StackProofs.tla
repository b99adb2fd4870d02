---------------------------- MODULE StackProofs ----------------------------
(* Proofs about the feed-forward half of the layers, for any ranks,         *)
(* launches, batches, layers and passes: the ranks that wait in a           *)
(* collective wait in the same one, and the output of a layer holds every   *)
(* part once.                                                               *)
EXTENDS MoeStack, FiniteSetTheorems, WellFoundedInduction, TLAPS

-----------------------------------------------------------------------------
(* The collectives of a pass (MoeStack).                                    *)

Paths == {"dense", "normal", "dual", "deepep", "mega", "ops"}
SpecialPaths == {"mega", "ops", "deepep"}
FfnPhases == {"attn", "mlp", "fill", "dense", "local", "post", "take", "end"} \cup Collectives

(* Whether layer l is computed on a path of its own kernels, and on the     *)
(* mega kernel's.                                                           *)
AllToAll(l) == Sparse(l) /\ IF cfg.model = "glm" THEN cfg.a2a = "deepep" ELSE cfg.a2a # "none"
OnMega(l) == cfg.model # "glm" /\ Sparse(l) /\ UseMega(0, l)

(* The places of a layer in their order.                                    *)
StageOf(p) ==
    CASE p = "gather" -> 1
      [] p = "mlp" -> 2
      [] p = "symm" -> 3
      [] p = "fill" -> 4
      [] p \in {"experts", "dense", "local"} -> 5
      [] p = "reduce" -> 6
      [] p = "post" -> 7
      [] p \in {"scatter", "fused"} -> 8
      [] p = "take" -> 9
      [] OTHER -> 0

(* The collectives a launch makes in layer l.                               *)
Happens(l, i) ==
    \/ i = 1 /\ ~ (cfg.dp /\ Scattered(l))
    \/ i = 3 /\ OnMega(l) /\ ~ symm[0].built
    \/ i = 5 /\ Sparse(l) /\ CallExperts = "experts"
    \/ /\ i = 6 /\ Tp > 1 /\ ~ FusesAllReduce(l) /\ ~ UsesReduceScatter(l)
       /\ IF Sparse(l) THEN ~ AllToAll(l) /\ ~ cfg.allgather ELSE ~ cfg.densedp
    \/ i = 8 /\ (FusesAllReduce(l) \/ UsesReduceScatter(l))

Past(r, l, i) == l < layer[r] \/ (l = layer[r] /\ i < StageOf(pc[r]))

(* A rank is past no collective another rank has yet to make.               *)
InStep ==
    \A r, s \in Ranks, l \in Nat, i \in 1 .. 8 : Happens(l, i) /\ Past(r, l, i) => Past(s, l, i)

(* The path a rank last took is that of its layer, or of the one before.    *)
TookAllToAll(r) ==
    IF pc[r] \notin {"attn", "gather", "mlp", "end"} THEN AllToAll(layer[r])
    ELSE IF layer[r] = 0 THEN pass > 1 /\ AllToAll(LastLayer)
    ELSE AllToAll(layer[r] - 1)

(* A rank is where the launch sends it, whatever its tokens.                *)
RankInPlace(r) ==
    LET l == layer[r]
        p == pc[r]
    IN  /\ symm[r].built = symm[0].built
        /\ path[r] \in SpecialPaths <=> TookAllToAll(r)
        /\ p \in Collectives => Happens(l, StageOf(p))
        /\ p \in {"symm", "fill"} => OnMega(l)
        /\ p \in {"scatter", "fused"} => (p = "fused" <=> FusesAllReduce(l))
        /\ p = "dense" => ~ Sparse(l)
        /\ p = "local" => Sparse(l) /\ CallExperts = "local"
        /\ p \in {"symm", "fill", "local", "experts"} => path[r] # "dense"
        /\ p = "end" => l = LastLayer + 1

StackTypes ==
    /\ cfg.mega => cfg.a2a # "none"
    /\ pass \in Nat \ {0}
    /\ layer \in [Ranks -> Nat] /\ pc \in [Ranks -> FfnPhases]
    /\ path \in [Ranks -> Paths]
    /\ symm \in [Ranks -> [built : BOOLEAN, rows : SUBSET Nat]]

StackInv == StackTypes /\ InStep /\ \A r \in Ranks : RankInPlace(r)

LEMMA RankZeroOfStack == ASSUME MoeStackAssumption PROVE 0 \in Ranks /\ Tp \in Nat \ {0}
BY DEF MoeStackAssumption, Ranks

(* The plan of a launch changes with its configuration, its tokens and the  *)
(* mega buffer alone.                                                       *)
LEMMA SameLaunch ==
    ASSUME cfg' = cfg
    PROVE  /\ \A l : /\ Sparse(l)' <=> Sparse(l)
                     /\ AllToAll(l)' <=> AllToAll(l)
                     /\ FusesAllReduce(l)' <=> FusesAllReduce(l)
                     /\ UsesReduceScatter(l)' <=> UsesReduceScatter(l)
                     /\ Scattered(l)' <=> Scattered(l)
           /\ CallExperts' = CallExperts
           /\ LastLayer' = LastLayer
<1>1. \A l : Sparse(l)' <=> Sparse(l)
  BY DEF Sparse, SparseGlm, SparseDeepseek
<1>2. \A l : Scattered(l)' <=> Scattered(l)
  BY <1>1 DEF Scattered
<1>3. LastLayer' = LastLayer /\ CallExperts' = CallExperts
  BY DEF LastLayer, CallExperts
<1> QED
  BY <1>1, <1>2, <1>3 DEF AllToAll, FusesAllReduce, UsesReduceScatter

LEMMA SamePlan ==
    ASSUME cfg' = cfg, tok' = tok
    PROVE  /\ \A l : OnMega(l)' <=> OnMega(l)
           /\ symm'[0].built = symm[0].built => \A l, i : Happens(l, i)' <=> Happens(l, i)
<1>1. \A l : UseMega(0, l)' <=> UseMega(0, l)
  BY DEF UseMega, IsHash, Ranks
<1>2. \A l : OnMega(l)' <=> OnMega(l)
  BY <1>1, SameLaunch DEF OnMega
<1> QED
  BY <1>2, SameLaunch DEF Happens

(* Going on to the place p of its layer, the rank passes no collective.     *)
GoesOn(r, p) ==
    /\ StageOf(pc[r]) <= StageOf(p)
    /\ \A i \in 1 .. 8 : StageOf(pc[r]) <= i /\ i < StageOf(p) => ~ Happens(layer[r], i)

LEMMA StageRange == \A p : StageOf(p) \in 0 .. 9
BY DEF StageOf

(* A rank that moves within its layer leaves the others in step when it     *)
(* passes no collective.                                                    *)
LEMMA StaysInStep ==
    ASSUME StackInv, NEW r \in Ranks, NEW p \in FfnPhases,
           cfg' = cfg, tok' = tok, symm'[0].built = symm[0].built, layer' = layer,
           pc' = [pc EXCEPT ![r] = p],
           GoesOn(r, p)
    PROVE  InStep'
<1> SUFFICES ASSUME NEW q \in Ranks, NEW s \in Ranks, NEW l \in Nat, NEW i \in 1 .. 8,
                    Happens(l, i)', Past(q, l, i)'
             PROVE  Past(s, l, i)'
  BY DEF InStep, Ranks
<1>1. Happens(l, i)
  BY SamePlan
<1>2. Past(q, l, i)
  BY <1>1, StageRange DEF GoesOn, Past, StackInv, StackTypes
<1>3. Past(s, l, i)
  BY <1>1, <1>2 DEF StackInv, InStep
<1> QED
  BY <1>3, StageRange DEF GoesOn, Past, StackInv, StackTypes

(* The others are where they were.                                          *)
LEMMA OthersInPlace ==
    ASSUME StackInv, NEW s \in Ranks,
           cfg' = cfg, tok' = tok, pass' = pass, layer'[s] = layer[s], pc'[s] = pc[s],
           path'[s] = path[s], symm'[s].built = symm[s].built, symm'[0].built = symm[0].built
    PROVE  RankInPlace(s)'
<1>1. RankInPlace(s)
  BY DEF StackInv
<1>2. TookAllToAll(s)' <=> TookAllToAll(s)
  BY SameLaunch DEF TookAllToAll
<1> QED
  BY <1>1, <1>2, SameLaunch, SamePlan DEF RankInPlace

LEMMA AttendStep == ASSUME MoeStackAssumption, StackInv, NEW r \in Ranks, Attend(r) PROVE StackInv'
<1> USE RankZeroOfStack
<1> DEFINE p == IF cfg.dp /\ Scattered(layer[r]) THEN "mlp" ELSE "gather"
<1>1. /\ pc[r] = "attn" /\ pc' = [pc EXCEPT ![r] = p] /\ p \in {"mlp", "gather"}
      /\ UNCHANGED <<cfg, tok, pass, layer, path, symm>>
  BY DEF Attend, At, Go
<1>2. /\ p = "gather" => Happens(layer[r], 1)
      /\ p = "mlp" => ~ Happens(layer[r], 1)
  BY DEF Happens
<1> HIDE DEF p
<1>3. StackTypes'
  BY <1>1 DEF StackInv, StackTypes, FfnPhases, Collectives
<1>4. InStep'
  <2>1. p \in FfnPhases /\ StageOf(pc[r]) = 0 /\ (p = "gather" => StageOf(p) = 1) /\ (p = "mlp" => StageOf(p) = 2)
    BY <1>1 DEF FfnPhases, Collectives, StageOf
  <2>2. GoesOn(r, p)
    BY <1>1, <1>2, <2>1 DEF GoesOn
  <2> QED
    BY <1>1, <2>1, <2>2, StaysInStep
<1>5. RankInPlace(r)'
  <2>1. pc'[r] = p /\ RankInPlace(r)
    BY <1>1 DEF StackInv, StackTypes
  <2>2. TookAllToAll(r)' <=> TookAllToAll(r)
    BY <1>1, <2>1, SameLaunch DEF TookAllToAll
  <2>3. p = "gather" => Happens(layer[r], 1)'
    BY <1>1, <1>2, SamePlan
  <2> QED
    BY <1>1, <2>1, <2>2, <2>3 DEF RankInPlace, Collectives, StageOf
<1>6. \A s \in Ranks : s # r => RankInPlace(s)'
  BY <1>1, OthersInPlace DEF StackInv, StackTypes
<1> QED
  BY <1>3, <1>4, <1>5, <1>6 DEF StackInv

(* The path of a layer is special on the layers of special kernels, and     *)
(* where it leads.                                                          *)
LEMMA PathFacts ==
    ASSUME StackInv, NEW r \in Ranks, NEW l \in Nat
    PROVE  /\ Path(r, l) \in Paths
           /\ Path(r, l) \in SpecialPaths <=> AllToAll(l)
           /\ Path(r, l) = "dense" <=> ~ Sparse(l)
           /\ Path(r, l) = "mega" <=> OnMega(l)
<1>1. UseMega(r, l) <=> UseMega(0, l)
  BY DEF UseMega
<1>2. UseMega(0, l) => cfg.a2a # "none"
  BY DEF UseMega, StackInv, StackTypes
<1>3. CASE ~ Sparse(l)
  BY <1>3 DEF Path, Paths, SpecialPaths, AllToAll, OnMega
<1>4. CASE Sparse(l) /\ cfg.model = "glm"
  BY <1>4 DEF Path, PathGlm, Paths, SpecialPaths, AllToAll, OnMega
<1>5. CASE Sparse(l) /\ cfg.model # "glm"
  <2>1. CASE UseMega(r, l)
    BY <1>1, <1>2, <1>5, <2>1 DEF Path, PathDeepseek, Paths, SpecialPaths, AllToAll, OnMega
  <2>2. CASE ~ UseMega(r, l) /\ cfg.a2a # "none"
    BY <1>1, <1>2, <1>5, <2>2 DEF Path, PathDeepseek, Paths, SpecialPaths, AllToAll, OnMega
  <2>3. CASE ~ UseMega(r, l) /\ cfg.a2a = "none"
    BY <1>1, <1>2, <1>5, <2>3 DEF Path, PathDeepseek, Paths, SpecialPaths, AllToAll, OnMega
  <2> QED
    BY <2>1, <2>2, <2>3
<1> QED
  BY <1>3, <1>4, <1>5

(* A rank enters its layer on the layer's path; p is where that leads.      *)
LEMMA EnterStep ==
    ASSUME MoeStackAssumption, StackInv, NEW r \in Ranks, NEW q \in Paths, NEW p \in FfnPhases, Enter(r, q, p),
           q = "dense" => p = "dense",
           q \in {"normal", "dual"} => p = CallExperts,
           q \in {"deepep", "ops"} => p = "experts",
           q = "mega" => p = IF symm[r].built THEN "fill" ELSE "symm"
    PROVE  StackInv'
<1> USE RankZeroOfStack
<1> DEFINE l == layer[r]
<1>1. /\ pc[r] = "mlp" /\ pc' = [pc EXCEPT ![r] = p]
      /\ path' = [path EXCEPT ![r] = q] /\ q = Path(r, l)
      /\ UNCHANGED <<cfg, tok, pass, layer, symm>>
  BY DEF Enter, At, Go
<1>2. l \in Nat /\ RankInPlace(r) /\ symm[r].built = symm[0].built
  BY DEF StackInv, StackTypes, RankInPlace
<1>3. /\ q \in SpecialPaths <=> AllToAll(l)
      /\ q = "dense" <=> ~ Sparse(l)
      /\ q = "mega" <=> OnMega(l)
  BY <1>1, <1>2, PathFacts
<1>4. q \in {"dense", "normal", "dual", "deepep", "ops", "mega"} /\ CallExperts \in {"experts", "local"}
  BY DEF Paths, CallExperts
<1>5. p \in {"dense", "experts", "local", "fill", "symm"}
  BY <1>4
<1>6. /\ p = "dense" <=> ~ Sparse(l)
      /\ p \in {"fill", "symm"} <=> OnMega(l)
      /\ p = "symm" => ~ symm[0].built
      /\ p = "fill" => symm[0].built
      /\ p = "local" => Sparse(l) /\ CallExperts = "local"
      /\ p \in {"experts", "local", "fill", "symm"} => q # "dense"
  BY <1>2, <1>3, <1>4
<1>7. p = "experts" => Sparse(l) /\ CallExperts = "experts"
  <2>1. q \in {"deepep", "ops"} => cfg.a2a # "none"
    BY <1>3 DEF SpecialPaths, AllToAll
  <2> QED
    BY <1>3, <1>4, <2>1 DEF CallExperts
<1>8. p \in Collectives => Happens(l, StageOf(p))
  BY <1>5, <1>6, <1>7 DEF Happens, StageOf, Collectives
<1>9. StackTypes'
  BY <1>1 DEF StackInv, StackTypes
<1>10. InStep'
  <2>1. StageOf(pc[r]) = 2 /\ StageOf(p) \in {3, 4, 5} /\ (StageOf(p) = 3 <=> p = "symm")
    BY <1>1, <1>5 DEF StageOf
  <2>2. ~ Happens(l, 2) /\ ~ Happens(l, 4) /\ (p # "symm" => ~ Happens(l, 3))
    BY <1>6 DEF Happens
  <2>3. GoesOn(r, p)
    BY <2>1, <2>2 DEF GoesOn
  <2> QED
    BY <1>1, <2>1, <2>3, StaysInStep
<1>11. RankInPlace(r)'
  <2>1. pc'[r] = p /\ path'[r] = q
    BY <1>1 DEF StackInv, StackTypes
  <2>2. TookAllToAll(r)' <=> AllToAll(l)
    BY <1>1, <1>5, <2>1, SameLaunch DEF TookAllToAll
  <2>3. p \in Collectives => Happens(l, StageOf(p))'
    BY <1>1, <1>8, SamePlan
  <2>4. OnMega(l)' <=> OnMega(l)
    BY <1>1, SamePlan
  <2> QED
    BY <1>1, <1>2, <1>3, <1>5, <1>6, <2>1, <2>2, <2>3, <2>4, SameLaunch DEF RankInPlace, Collectives
<1>12. \A s \in Ranks : s # r => RankInPlace(s)'
  BY <1>1, OthersInPlace DEF StackInv, StackTypes
<1> QED
  BY <1>9, <1>10, <1>11, <1>12 DEF StackInv

LEMMA EntersStep ==
    ASSUME MoeStackAssumption, StackInv, NEW r \in Ranks,
           \/ EnterDense(r) \/ EnterNormal(r) \/ EnterDual(r)
           \/ EnterDeepep(r) \/ EnterOps(r) \/ EnterMega(r)
    PROVE  StackInv'
<1>1. /\ {"dense", "normal", "dual", "deepep", "ops", "mega"} \subseteq Paths
      /\ {"dense", "experts", "fill", "symm", CallExperts} \subseteq FfnPhases
  BY DEF Paths, FfnPhases, Collectives, CallExperts
<1>2. CASE EnterDense(r)
  BY <1>1, <1>2, EnterStep DEF EnterDense
<1>3. CASE EnterNormal(r)
  BY <1>1, <1>3, EnterStep DEF EnterNormal
<1>4. CASE EnterDual(r)
  BY <1>1, <1>4, EnterStep DEF EnterDual
<1>5. CASE EnterDeepep(r)
  BY <1>1, <1>5, EnterStep DEF EnterDeepep
<1>6. CASE EnterOps(r)
  BY <1>1, <1>6, EnterStep DEF EnterOps
<1>7. CASE EnterMega(r)
  BY <1>1, <1>7, EnterStep DEF EnterMega
<1> QED
  BY <1>2, <1>3, <1>4, <1>5, <1>6, <1>7

(* A rank that has entered its layer goes on in it, to the place p.         *)
LEMMA WithinLayer ==
    ASSUME MoeStackAssumption, StackInv, NEW r \in Ranks,
           NEW p \in {"experts", "reduce", "post", "scatter", "fused", "take"},
           pc[r] \notin {"attn", "gather", "mlp", "end"},
           UNCHANGED <<cfg, tok, pass, layer, path>>,
           pc' = [pc EXCEPT ![r] = p],
           symm' \in [Ranks -> [built : BOOLEAN, rows : SUBSET Nat]],
           \A s \in Ranks : symm'[s].built = symm[s].built,
           GoesOn(r, p),
           p \in Collectives => Happens(layer[r], StageOf(p)),
           p \in {"scatter", "fused"} => (p = "fused" <=> FusesAllReduce(layer[r])),
           p = "experts" => path[r] # "dense"
    PROVE  StackInv'
<1> USE RankZeroOfStack
<1>1. p \in FfnPhases /\ symm'[0].built = symm[0].built
  BY DEF FfnPhases, Collectives
<1>2. StackTypes'
  BY <1>1 DEF StackInv, StackTypes
<1>3. InStep'
  BY <1>1, StaysInStep
<1>4. RankInPlace(r)'
  <2>1. pc'[r] = p /\ RankInPlace(r)
    BY DEF StackInv, StackTypes
  <2>2. TookAllToAll(r)' <=> TookAllToAll(r)
    BY <2>1, SameLaunch DEF TookAllToAll
  <2>3. p \in Collectives => Happens(layer[r], StageOf(p))'
    BY <1>1, SamePlan
  <2> QED
    BY <1>1, <2>1, <2>2, <2>3, SameLaunch DEF RankInPlace
<1>5. \A s \in Ranks : s # r => RankInPlace(s)'
  BY <1>1, OthersInPlace DEF StackInv, StackTypes
<1> QED
  BY <1>2, <1>3, <1>4, <1>5 DEF StackInv

LEMMA FillStep == ASSUME MoeStackAssumption, StackInv, NEW r \in Ranks, FillBuffer(r) PROVE StackInv'
<1>1. /\ pc[r] = "fill" /\ pc' = [pc EXCEPT ![r] = "experts"]
      /\ symm' = [symm EXCEPT ![r].rows = FilledRows(r)]
      /\ UNCHANGED <<cfg, tok, pass, layer, path>>
  BY DEF FillBuffer, At, Go
<1>2. FilledRows(r) \subseteq Nat
  BY DEF FilledRows
<1>3. /\ symm' \in [Ranks -> [built : BOOLEAN, rows : SUBSET Nat]]
      /\ \A s \in Ranks : symm'[s].built = symm[s].built
  BY <1>1, <1>2 DEF StackInv, StackTypes
<1>4. OnMega(layer[r]) /\ path[r] # "dense"
  BY <1>1 DEF StackInv, RankInPlace
<1>5. CallExperts = "experts" /\ Sparse(layer[r])
  BY <1>4 DEF OnMega, UseMega, CallExperts, StackInv, StackTypes
<1>6. StageOf("fill") = 4 /\ StageOf("experts") = 5 /\ ~ Happens(layer[r], 4) /\ Happens(layer[r], 5)
  BY <1>5 DEF StageOf, Happens
<1>7. GoesOn(r, "experts")
  BY <1>1, <1>6 DEF GoesOn
<1> QED
  BY <1>1, <1>3, <1>4, <1>6, <1>7, WithinLayer

LEMMA DenseStep == ASSUME MoeStackAssumption, StackInv, NEW r \in Ranks, Dense(r) PROVE StackInv'
<1> DEFINE l == layer[r]
<1>1. /\ pc[r] = "dense" /\ UNCHANGED <<cfg, tok, pass, layer, path, symm>>
      /\ ~ Sparse(l)
  BY DEF Dense, At, StackInv, RankInPlace
<1>2. PICK p \in {"reduce", "post"} :
        /\ pc' = [pc EXCEPT ![r] = p]
        /\ p = "reduce" <=> ~ cfg.densedp /\ Tp > 1 /\ ~ FusesAllReduce(l) /\ ~ UsesReduceScatter(l)
  BY DEF Dense, Go
<1>3. p = "reduce" <=> Happens(l, 6)
  BY <1>1, <1>2 DEF Happens
<1>4. ~ Happens(l, 5) /\ StageOf("dense") = 5 /\ StageOf("reduce") = 6 /\ StageOf("post") = 7
  BY <1>1 DEF Happens, StageOf
<1>5. GoesOn(r, p)
  BY <1>1, <1>2, <1>3, <1>4 DEF GoesOn
<1>6. p \in Collectives => Happens(l, StageOf(p))
  BY <1>2, <1>3, <1>4 DEF Collectives
<1>7. symm' \in [Ranks -> [built : BOOLEAN, rows : SUBSET Nat]]
  BY <1>1 DEF StackInv, StackTypes
<1> QED
  BY <1>1, <1>2, <1>4, <1>5, <1>6, <1>7, WithinLayer

(* The sum that follows the experts is the one the launch makes.            *)
LEMMA AfterExpertsFacts ==
    ASSUME StackInv, NEW r \in Ranks, pc[r] \in {"experts", "local"}
    PROVE  /\ AfterExperts(path[r], layer[r]) \in {"reduce", "post"}
           /\ AfterExperts(path[r], layer[r]) = "reduce" <=> Happens(layer[r], 6)
<1>1. Sparse(layer[r])
  BY DEF StackInv, RankInPlace, Happens, Collectives, StageOf
<1>2. path[r] \in SpecialPaths <=> AllToAll(layer[r])
  BY DEF StackInv, RankInPlace, TookAllToAll
<1>3. path[r] \in Paths \ {"dense"}
  BY DEF StackInv, StackTypes, RankInPlace
<1>4. path[r] \in {"normal", "dual"} <=> ~ AllToAll(layer[r])
  BY <1>2, <1>3 DEF Paths, SpecialPaths
<1> QED
  BY <1>1, <1>4 DEF AfterExperts, Happens

LEMMA LocalStep == ASSUME MoeStackAssumption, StackInv, NEW r \in Ranks, LocalExperts(r) PROVE StackInv'
<1> DEFINE l == layer[r]
           p == AfterExperts(path[r], layer[r])
<1>1. /\ pc[r] = "local" /\ UNCHANGED <<cfg, tok, pass, layer, path, symm>>
      /\ pc' = [pc EXCEPT ![r] = p]
  BY DEF LocalExperts, At, Go
<1>2. p \in {"reduce", "post"} /\ (p = "reduce" <=> Happens(l, 6))
  BY <1>1, AfterExpertsFacts
<1>3. CallExperts = "local"
  BY <1>1 DEF StackInv, RankInPlace
<1> HIDE DEF p
<1>4. ~ Happens(l, 5) /\ StageOf("local") = 5 /\ StageOf("reduce") = 6 /\ StageOf("post") = 7
  BY <1>3 DEF Happens, StageOf
<1>5. GoesOn(r, p)
  BY <1>1, <1>2, <1>4 DEF GoesOn
<1>6. p \in Collectives => Happens(l, StageOf(p))
  BY <1>2, <1>4 DEF Collectives
<1>7. symm' \in [Ranks -> [built : BOOLEAN, rows : SUBSET Nat]]
  BY <1>1 DEF StackInv, StackTypes
<1> QED
  BY <1>1, <1>2, <1>4, <1>5, <1>6, <1>7, WithinLayer

LEMMA PostprocessStep == ASSUME MoeStackAssumption, StackInv, NEW r \in Ranks, Postprocess(r) PROVE StackInv'
<1> DEFINE l == layer[r]
           p == IF FusesAllReduce(l) THEN "fused" ELSE IF UsesReduceScatter(l) THEN "scatter" ELSE "take"
<1>1. /\ pc[r] = "post" /\ UNCHANGED <<cfg, tok, pass, layer, path, symm>>
      /\ pc' = [pc EXCEPT ![r] = p]
  BY DEF Postprocess, At, Go
<1>2. /\ p \in {"fused", "scatter", "take"}
      /\ p = "fused" <=> FusesAllReduce(l)
      /\ p \in {"fused", "scatter"} <=> Happens(l, 8)
  BY DEF Happens
<1> HIDE DEF p
<1>3. /\ ~ Happens(l, 7) /\ StageOf("post") = 7 /\ StageOf("take") = 9
      /\ StageOf("scatter") = 8 /\ StageOf("fused") = 8
  BY DEF Happens, StageOf
<1>4. GoesOn(r, p)
  BY <1>1, <1>2, <1>3 DEF GoesOn
<1>5. p \in Collectives => Happens(l, StageOf(p))
  BY <1>2, <1>3 DEF Collectives
<1>6. symm' \in [Ranks -> [built : BOOLEAN, rows : SUBSET Nat]]
  BY <1>1 DEF StackInv, StackTypes
<1> QED
  BY <1>1, <1>2, <1>3, <1>4, <1>5, <1>6, WithinLayer

LEMMA TakeStep == ASSUME MoeStackAssumption, StackInv, NEW r \in Ranks, Take(r) PROVE StackInv'
<1> USE RankZeroOfStack
<1>0. PICK l \in Nat : l = layer[r]
  BY DEF StackInv, StackTypes
<1> DEFINE p == IF l = LastLayer THEN "end" ELSE "attn"
<1>1. /\ pc[r] = "take" /\ pc' = [pc EXCEPT ![r] = p] /\ layer' = [layer EXCEPT ![r] = l + 1]
      /\ UNCHANGED <<cfg, tok, pass, path, symm>>
  BY <1>0 DEF Take, At, Go
<1>2. p \in {"end", "attn"} /\ (p = "end" => l = LastLayer)
  OBVIOUS
<1> HIDE DEF p
<1>3. /\ pc'[r] = p /\ layer'[r] = l + 1 /\ layer[r] = l
      /\ \A s \in Ranks : s # r => pc'[s] = pc[s] /\ layer'[s] = layer[s]
  BY <1>0, <1>1 DEF StackInv, StackTypes
<1>4. StackTypes'
  BY <1>1, <1>2 DEF StackInv, StackTypes, FfnPhases
<1>5. InStep'
  <2> SUFFICES ASSUME NEW q \in Ranks, NEW s \in Ranks, NEW k \in Nat, NEW i \in 1 .. 8,
                      Happens(k, i)', Past(q, k, i)'
               PROVE  Past(s, k, i)'
    BY DEF InStep, Ranks
  <2>1. Happens(k, i) /\ StageOf("take") = 9 /\ StageOf(p) = 0
    BY <1>1, <1>2, SamePlan DEF StageOf
  <2>2. Past(q, k, i)
    BY <1>1, <1>3, <2>1 DEF Past
  <2>3. Past(s, k, i)
    BY <2>1, <2>2 DEF StackInv, InStep
  <2> QED
    BY <1>1, <1>3, <2>1, <2>3 DEF Past
<1>6. RankInPlace(r)'
  <2>1. TookAllToAll(r) <=> AllToAll(l)
    BY <1>1, <1>3 DEF TookAllToAll
  <2>2. TookAllToAll(r)' <=> AllToAll(l)'
    BY <1>2, <1>3 DEF TookAllToAll
  <2>3. AllToAll(l)' <=> AllToAll(l)
    BY <1>1, SameLaunch
  <2> QED
    BY <1>1, <1>2, <1>3, <2>1, <2>2, <2>3, SameLaunch DEF StackInv, RankInPlace, Collectives
<1>7. \A s \in Ranks : s # r => RankInPlace(s)'
  BY <1>1, <1>3, OthersInPlace
<1> QED
  BY <1>4, <1>5, <1>6, <1>7 DEF StackInv

LEMMA MeetStep == ASSUME MoeStackAssumption, StackInv, Meet PROVE StackInv'
<1> USE RankZeroOfStack
<1> DEFINE l == layer[0]
           c == pc[0]
<1>1. /\ \A r \in Ranks : pc[r] = c /\ layer[r] = l
      /\ c \in Collectives
      /\ UNCHANGED <<cfg, tok, pass, layer, path>>
  BY DEF Meet, Call
<1>2. /\ pc' = [r \in Ranks |->
                    CASE c = "gather" -> "mlp"
                      [] c = "symm" -> "fill"
                      [] c = "experts" -> AfterExperts(path[r], layer[r])
                      [] c = "reduce" -> "post"
                      [] c \in {"scatter", "fused"} -> "take"]
      /\ symm' = IF c = "symm" THEN [r \in Ranks |-> [symm[r] EXCEPT !.built = TRUE]] ELSE symm
  BY DEF Meet
<1>3. /\ symm' \in [Ranks -> [built : BOOLEAN, rows : SUBSET Nat]]
      /\ \A r \in Ranks : symm'[r].built = symm'[0].built
      /\ c # "symm" => symm'[0].built = symm[0].built
  <2>1. CASE c = "symm"
    BY <1>2, <2>1 DEF StackInv, StackTypes
  <2>2. CASE c # "symm"
    BY <1>2, <2>2 DEF StackInv, StackTypes, RankInPlace
  <2> QED
    BY <2>1, <2>2
<1>4. ASSUME c = "experts"
      PROVE  \A r \in Ranks : /\ pc'[r] \in {"reduce", "post"}
                              /\ pc'[r] = "reduce" <=> Happens(l, 6)
  <2>1. \A r \in Ranks : pc'[r] = AfterExperts(path[r], layer[r])
    BY <1>2, <1>4
  <2> QED
    BY <1>1, <1>4, <2>1, AfterExpertsFacts
<1>5. \A r \in Ranks :
         /\ c = "gather" => pc'[r] = "mlp"
         /\ c = "symm" => pc'[r] = "fill"
         /\ c = "reduce" => pc'[r] = "post"
         /\ c \in {"scatter", "fused"} => pc'[r] = "take"
  BY <1>2
<1>6. c \in {"gather", "symm", "experts", "reduce", "scatter", "fused"}
  BY <1>1 DEF Collectives
<1>7. StackTypes'
  <2>1. \A r \in Ranks : pc'[r] \in FfnPhases
    BY <1>4, <1>5, <1>6 DEF FfnPhases, Collectives
  <2>2. pc' \in [Ranks -> FfnPhases]
    BY <1>2, <2>1
  <2> QED
    BY <1>1, <1>3, <2>2 DEF StackInv, StackTypes, Ranks
<1>8. InStep'
  <2>1. \A r, s \in Ranks : layer'[r] = layer'[s] /\ pc'[r] = pc'[s]
    BY <1>1, <1>4, <1>5, <1>6
  <2> QED
    BY <1>1, <2>1 DEF InStep, Past, Ranks
<1>9. ASSUME NEW r \in Ranks PROVE RankInPlace(r)'
  <2>1. RankInPlace(r) /\ pc[r] = c /\ layer[r] = l /\ symm'[r].built = symm'[0].built
    BY <1>1, <1>3 DEF StackInv
  <2>2. pc'[r] \in {"mlp", "fill", "reduce", "post", "take"}
    BY <1>4, <1>5, <1>6
  <2>3. TookAllToAll(r)' <=> TookAllToAll(r)
    BY <1>1, <1>4, <1>5, <1>6, <2>1, SameLaunch DEF TookAllToAll
  <2>4. pc'[r] = "fill" => OnMega(l)' /\ path[r] # "dense"
    BY <1>1, <1>4, <1>5, <1>6, <2>1, SamePlan DEF RankInPlace
  <2>5. pc'[r] = "reduce" => Happens(l, 6)'
    BY <1>1, <1>3, <1>4, <1>5, <1>6, SamePlan
  <2> QED
    BY <1>1, <2>1, <2>2, <2>3, <2>4, <2>5, SameLaunch DEF RankInPlace, Collectives, StageOf
<1> QED
  BY <1>7, <1>8, <1>9 DEF StackInv, Ranks

LEMMA NextPassStep == ASSUME MoeStackAssumption, StackInv, NextPass PROVE StackInv'
<1> USE RankZeroOfStack
<1>1. /\ \A r \in Ranks : pc[r] = "end"
      /\ pass' = pass + 1
      /\ pc' = [r \in Ranks |-> "attn"] /\ layer' = [r \in Ranks |-> 0]
      /\ UNCHANGED <<cfg, path, symm>>
  BY DEF NextPass, At
<1>2. StackTypes'
  BY <1>1 DEF StackInv, StackTypes, FfnPhases, Ranks
<1>3. InStep'
  BY <1>1 DEF InStep, Past, StageOf, Ranks
<1>4. ASSUME NEW r \in Ranks PROVE RankInPlace(r)'
  <2>1. RankInPlace(r) /\ pc[r] = "end" /\ LastLayer \in Nat /\ layer[r] = LastLayer + 1
    BY <1>1 DEF StackInv, RankInPlace, MoeStackAssumption, LastLayer
  <2>2. TookAllToAll(r) <=> AllToAll(LastLayer)
    BY <2>1 DEF TookAllToAll
  <2>3. TookAllToAll(r)' <=> AllToAll(LastLayer)'
    BY <1>1 DEF TookAllToAll, StackInv, StackTypes
  <2>4. AllToAll(LastLayer)' <=> AllToAll(LastLayer)
    BY <1>1, SameLaunch DEF AllToAll, Sparse, SparseGlm, SparseDeepseek, LastLayer
  <2> QED
    BY <1>1, <2>1, <2>2, <2>3, <2>4 DEF RankInPlace, Collectives
<1> QED
  BY <1>2, <1>3, <1>4 DEF StackInv, Ranks

LEMMA StackStarts == ASSUME MoeStackAssumption, Init PROVE StackInv
<1> USE RankZeroOfStack
<1>1. /\ pass = 1 /\ pc = [r \in Ranks |-> "attn"] /\ layer = [r \in Ranks |-> 0]
      /\ path = [r \in Ranks |-> "dense"]
      /\ symm = [r \in Ranks |-> [built |-> FALSE, rows |-> {}]]
  BY DEF Init
<1>2. cfg.mega => cfg.a2a # "none"
  BY DEF Init, MoeStackAssumption
<1>3. StackTypes
  BY <1>1, <1>2 DEF StackTypes, FfnPhases, Paths
<1>4. InStep
  BY <1>1 DEF InStep, Past, StageOf
<1>5. \A r \in Ranks : RankInPlace(r)
  BY <1>1 DEF RankInPlace, TookAllToAll, SpecialPaths, Collectives
<1> QED
  BY <1>3, <1>4, <1>5 DEF StackInv

LEMMA StackStep == ASSUME MoeStackAssumption, StackInv, Next \/ UNCHANGED vars PROVE StackInv'
<1>1. CASE UNCHANGED vars
  <2>1. UNCHANGED <<cfg, tok, pass, layer, pc, path, symm>>
    BY <1>1 DEF vars
  <2>2. StackTypes'
    BY <2>1 DEF StackInv, StackTypes, Ranks
  <2>3. InStep'
    BY <2>1, SamePlan DEF StackInv, InStep, Past, Ranks
  <2>4. \A r \in Ranks : RankInPlace(r)'
    BY <2>1, OthersInPlace
  <2> QED
    BY <2>2, <2>3, <2>4 DEF StackInv, Ranks
<1>2. CASE Stop
  <2>1. UNCHANGED vars
    BY <1>2 DEF Stop, vars
  <2> QED
    BY <1>1, <2>1
<1>3. CASE Meet \/ NextPass
  BY <1>3, MeetStep, NextPassStep
<1>4. CASE \E r \in Ranks :
             \/ Attend(r) \/ EnterDense(r) \/ EnterNormal(r) \/ EnterDual(r)
             \/ EnterDeepep(r) \/ EnterOps(r) \/ EnterMega(r)
             \/ FillBuffer(r) \/ Dense(r) \/ LocalExperts(r) \/ Postprocess(r) \/ Take(r)
  BY <1>4, AttendStep, EntersStep, FillStep, DenseStep, LocalStep, PostprocessStep, TakeStep
<1> QED
  BY <1>1, <1>2, <1>3, <1>4 DEF Next

(* Two ranks that wait for each other are at the same place of one layer,   *)
(* or one of them is past what the other waits for.                         *)
LEMMA StackMeets == ASSUME StackInv PROVE SameCollective
<1> SUFFICES ASSUME NEW r \in Ranks, NEW s \in Ranks,
                    pc[r] \in Collectives, pc[s] \in Collectives
             PROVE  Call(r) = Call(s)
  BY DEF SameCollective
<1>1. \A q \in {r, s} : /\ Happens(layer[q], StageOf(pc[q])) /\ StageOf(pc[q]) \in 1 .. 8
                        /\ layer[q] \in Nat /\ ~ Past(q, layer[q], StageOf(pc[q]))
  <2> TAKE q \in {r, s}
  <2>1. pc[q] \in Collectives /\ RankInPlace(q) /\ layer[q] \in Nat
    BY DEF StackInv, StackTypes
  <2>2. StageOf(pc[q]) \in 1 .. 8
    BY <2>1 DEF StageOf, Collectives
  <2> QED
    BY <2>1, <2>2 DEF RankInPlace, Past
<1>2. ~ Past(s, layer[r], StageOf(pc[r])) /\ ~ Past(r, layer[s], StageOf(pc[s]))
  BY <1>1 DEF StackInv, InStep
<1>3. layer[r] = layer[s] /\ StageOf(pc[r]) = StageOf(pc[s])
  BY <1>1, <1>2 DEF Past
<1>4. pc[r] = pc[s]
  <2>1. RankInPlace(r) /\ RankInPlace(s)
    BY DEF StackInv
  <2>2. pc[r] \in {"scatter", "fused"} <=> pc[s] \in {"scatter", "fused"}
    BY <1>3 DEF StageOf, Collectives
  <2>3. CASE pc[r] \in {"scatter", "fused"}
    BY <1>3, <2>1, <2>2, <2>3 DEF RankInPlace
  <2>4. CASE pc[r] \notin {"scatter", "fused"}
    BY <1>3, <2>2, <2>4 DEF StageOf, Collectives
  <2> QED
    BY <2>3, <2>4
<1>5. path[r] \in SpecialPaths <=> path[s] \in SpecialPaths
  BY <1>3, <1>4 DEF StackInv, RankInPlace, TookAllToAll
<1> QED
  BY <1>3, <1>4, <1>5 DEF Call, SpecialPaths

-----------------------------------------------------------------------------
(* Sums over the ranks (SumFunction of Functions, a fold).                  *)

(* A set of subsets of a finite set has one that contains no other.         *)
LEMMA MinimalSubset ==
    ASSUME NEW S, IsFiniteSet(S), NEW T \in SUBSET SUBSET S, T # {}
    PROVE  \E X \in T : \A Y \in T : Y \subseteq X => Y = X
<1> DEFINE R == StrictSubsetOrdering(S)
<1>1. IsWellFoundedOn(R, FiniteSubsetsOf(S)) /\ T \subseteq FiniteSubsetsOf(S)
  BY FS_StrictSubsetOrderingWellFounded, FS_FiniteSubsetsOfFinite
<1> HIDE DEF R
<1>2. PICK X \in T : \A Y \in T : ~ (<<Y, X>> \in R)
  BY <1>1, WFMin
<1>3. ASSUME NEW Y \in T, Y \subseteq X, Y # X PROVE <<Y, X>> \in R
  <2>1. Y \in SUBSET S /\ X \in SUBSET S
    OBVIOUS
  <2> QED
    BY <1>3, <2>1 DEF R, StrictSubsetOrdering
<1>4. ASSUME NEW Y \in T, Y \subseteq X PROVE Y = X
  BY <1>2, <1>3, <1>4
<1> QED
  BY <1>4

(* The element the fold takes first, and the sums of all subsets of S.      *)
First(s) == CHOOSE x \in s : TRUE
SumsOf(f, S, sums) ==
    sums = [s \in SUBSET S |-> IF s = {} THEN 0 ELSE f[First(s)] + sums[s \ {First(s)}]]
Sums(f, S) == CHOOSE sums : SumsOf(f, S, sums)

LEMMA FirstIn == ASSUME NEW s, s # {} PROVE First(s) \in s /\ s \ {First(s)} \subseteq s /\ s \ {First(s)} # s
BY DEF First

LEMMA SumIs ==
    ASSUME NEW S, NEW f, DOMAIN f = S
    PROVE  SumFunction(f) = Sums(f, S)[S]
BY DEF SumFunction, SumFunctionOnSet, FoldFunctionOnSet, MapThenFoldSet, Sums, SumsOf, First

LEMMA SumsUnique ==
    ASSUME NEW S, IsFiniteSet(S), NEW f, NEW g, NEW h, SumsOf(f, S, g), SumsOf(f, S, h)
    PROVE  g = h
<1> DEFINE T == {s \in SUBSET S : g[s] # h[s]}
<1>1. ASSUME T # {} PROVE FALSE
  <2>1. PICK X \in T : \A Y \in T : Y \subseteq X => Y = X
    <3>1. T \in SUBSET SUBSET S
      OBVIOUS
    <3> HIDE DEF T
    <3> QED BY <1>1, <3>1, MinimalSubset
  <2>2. X # {}
    BY DEF SumsOf
  <2>3. g[X \ {First(X)}] = h[X \ {First(X)}]
    BY <2>1, <2>2, FirstIn
  <2> QED BY <2>2, <2>3 DEF SumsOf
<1>2. \A s \in SUBSET S : g[s] = h[s]
  BY <1>1
<1> QED BY <1>2 DEF SumsOf

LEMMA SumsWithin ==
    ASSUME NEW S, NEW R \in SUBSET S, NEW f, NEW g, SumsOf(f, S, g)
    PROVE  SumsOf(f, R, [s \in SUBSET R |-> g[s]])
<1> DEFINE h == [s \in SUBSET R |-> g[s]]
<1>1. ASSUME NEW s \in SUBSET R
      PROVE  h[s] = IF s = {} THEN 0 ELSE f[First(s)] + h[s \ {First(s)}]
  <2>1. s \in SUBSET S /\ h[s] = g[s]
    OBVIOUS
  <2>2. s # {} => h[s \ {First(s)}] = g[s \ {First(s)}]
    BY FirstIn
  <2> HIDE DEF h
  <2> QED BY <2>1, <2>2 DEF SumsOf
<1>2. h = [s \in SUBSET R |-> h[s]]
  OBVIOUS
<1> HIDE DEF h
<1>3. h = [s \in SUBSET R |-> IF s = {} THEN 0 ELSE f[First(s)] + h[s \ {First(s)}]]
  BY <1>1, <1>2
<1>4. SumsOf(f, R, h)
  BY <1>3 DEF SumsOf
<1> QED BY <1>4 DEF h

LEMMA SumsExist ==
    ASSUME NEW S, IsFiniteSet(S), NEW f
    PROVE  SumsOf(f, S, Sums(f, S))
<1> DEFINE T == {X \in SUBSET S : ~ SumsOf(f, X, Sums(f, X))}
<1> SUFFICES ASSUME T # {} PROVE FALSE
  OBVIOUS
<1>1. PICK X \in T : \A Y \in T : Y \subseteq X => Y = X
  <2>1. T \in SUBSET SUBSET S
    OBVIOUS
  <2> HIDE DEF T
  <2> QED BY <2>1, MinimalSubset
<1>2. ASSUME NEW Y \in SUBSET X, Y # X PROVE SumsOf(f, Y, Sums(f, Y))
  BY <1>1, <1>2
<1> DEFINE h == [s \in SUBSET X |-> IF s = {} THEN 0 ELSE f[First(s)] + Sums(f, s \ {First(s)})[s \ {First(s)}]]
<1>3. ASSUME NEW Y \in SUBSET X, Y # X PROVE h[Y] = Sums(f, Y)[Y]
  <2> DEFINE R == Y \ {First(Y)}
             g == Sums(f, Y)
  <2>1. SumsOf(f, Y, g)
    BY <1>2, <1>3
  <2> HIDE DEF g
  <2>2. CASE Y = {}
    BY <2>1, <2>2 DEF SumsOf, g
  <2>3. CASE Y # {}
    <3>1. R \in SUBSET X /\ R # X /\ R \in SUBSET Y /\ IsFiniteSet(R)
      <4>1. R \in SUBSET S
        BY <1>1
      <4> QED BY <1>3, <2>3, <4>1, FirstIn, FS_Subset
    <3> HIDE DEF R
    <3>2. SumsOf(f, R, Sums(f, R))
      BY <1>2, <3>1
    <3>3. SumsOf(f, R, [s \in SUBSET R |-> g[s]])
      BY <2>1, <3>1, SumsWithin
    <3>4. Sums(f, R) = [s \in SUBSET R |-> g[s]]
      BY <3>1, <3>2, <3>3, SumsUnique
    <3>5. Sums(f, R)[R] = g[R]
      BY <3>4
    <3>6. g[Y] = f[First(Y)] + g[R]
      BY <2>1, <2>3 DEF SumsOf, R
    <3>7. h[Y] = f[First(Y)] + Sums(f, R)[R]
      BY <2>3 DEF R
    <3> QED BY <3>5, <3>6, <3>7 DEF g
  <2> QED BY <2>2, <2>3
<1>4. SumsOf(f, X, h)
  <2>1. ASSUME NEW s \in SUBSET X
        PROVE  h[s] = IF s = {} THEN 0 ELSE f[First(s)] + h[s \ {First(s)}]
    <3>1. s # {} => h[s \ {First(s)}] = Sums(f, s \ {First(s)})[s \ {First(s)}]
      <4> SUFFICES ASSUME s # {} PROVE h[s \ {First(s)}] = Sums(f, s \ {First(s)})[s \ {First(s)}]
        OBVIOUS
      <4>1. s \ {First(s)} \in SUBSET X /\ s \ {First(s)} # X
        BY FirstIn
      <4> HIDE DEF h
      <4> QED BY <4>1, <1>3
    <3>2. h[s] = IF s = {} THEN 0 ELSE f[First(s)] + Sums(f, s \ {First(s)})[s \ {First(s)}]
      OBVIOUS
    <3> QED BY <3>1, <3>2
  <2>2. h = [s \in SUBSET X |-> h[s]]
    OBVIOUS
  <2> HIDE DEF h
  <2>3. h = [s \in SUBSET X |-> IF s = {} THEN 0 ELSE f[First(s)] + h[s \ {First(s)}]]
    BY <2>1, <2>2
  <2> QED BY <2>3 DEF SumsOf
<1> HIDE DEF h
<1> QED BY <1>1, <1>4 DEF Sums

(* The sum takes one element after the other.                               *)
Takes(f, S, sums) ==
    /\ sums[{}] = 0
    /\ \A s \in SUBSET S : s # {} => /\ First(s) \in s /\ s \ {First(s)} \in SUBSET S
                                     /\ sums[s] = f[First(s)] + sums[s \ {First(s)}]

LEMMA SumTakes == ASSUME NEW S, IsFiniteSet(S), NEW f PROVE Takes(f, S, Sums(f, S))
<1> DEFINE g == Sums(f, S)
<1>1. SumsOf(f, S, g)
  BY SumsExist
<1> HIDE DEF g
<1>2. \A s \in SUBSET S : g[s] = IF s = {} THEN 0 ELSE f[First(s)] + g[s \ {First(s)}]
  BY <1>1 DEF SumsOf
<1>3. g[{}] = 0
  BY <1>2
<1>4. ASSUME NEW s \in SUBSET S, s # {}
      PROVE  First(s) \in s /\ s \ {First(s)} \in SUBSET S /\ g[s] = f[First(s)] + g[s \ {First(s)}]
  BY <1>2, <1>4, FirstIn
<1> QED BY <1>3, <1>4 DEF g, Takes

(* The order does not matter.                                               *)
LEMMA SumTakesAny ==
    ASSUME NEW S, IsFiniteSet(S), NEW f \in [S -> Nat], NEW s \in SUBSET S, NEW x \in s
    PROVE  /\ Sums(f, S)[s] = f[x] + Sums(f, S)[s \ {x}]
           /\ Sums(f, S)[s] \in Nat /\ Sums(f, S)[s \ {x}] \in Nat
<1> DEFINE g == Sums(f, S)
           N == {t \in SUBSET S : g[t] \notin Nat}
           T == {t \in SUBSET S : \E y \in t : g[t] # f[y] + g[t \ {y}]}
<1>0. Takes(f, S, g)
  BY SumTakes
<1> HIDE DEF g
<1>1. ASSUME N # {} PROVE FALSE
  <2>1. PICK X \in N : \A Y \in N : Y \subseteq X => Y = X
    <3>1. N \in SUBSET SUBSET S
      OBVIOUS
    <3> HIDE DEF N
    <3> QED BY <1>1, <3>1, MinimalSubset
  <2>2. X # {}
    <3>1. g[{}] \in Nat
      BY <1>0 DEF Takes
    <3> QED BY <2>1, <3>1
  <2> DEFINE y == First(X)
  <2>3. y \in X /\ X \ {y} \in SUBSET S /\ X \in SUBSET S /\ g[X] = f[y] + g[X \ {y}]
    BY <1>0, <2>1, <2>2 DEF Takes
  <2> HIDE DEF y
  <2>4. X \ {y} \notin N
    BY <2>1, <2>3
  <2> QED BY <2>1, <2>3, <2>4
<1>2. ASSUME T # {} PROVE FALSE
  <2>1. PICK X \in T : \A Y \in T : Y \subseteq X => Y = X
    <3>1. T \in SUBSET SUBSET S
      OBVIOUS
    <3> HIDE DEF T
    <3> QED BY <1>2, <3>1, MinimalSubset
  <2>2. PICK z \in X : g[X] # f[z] + g[X \ {z}]
    BY <2>1
  <2> DEFINE y == First(X)
  <2>3. y \in X /\ X \ {y} \in SUBSET S /\ X \in SUBSET S /\ g[X] = f[y] + g[X \ {y}]
    BY <1>0, <2>1, <2>2 DEF Takes
  <2> HIDE DEF y
  <2>4. z # y /\ X \ {z} \in SUBSET S /\ (X \ {y}) \ {z} \in SUBSET S /\ (X \ {z}) \ {y} = (X \ {y}) \ {z}
    BY <2>2, <2>3
  <2>5. g[X \ {y}] = f[z] + g[(X \ {y}) \ {z}]
    <3>1. X \ {y} \notin T /\ z \in X \ {y}
      BY <2>1, <2>2, <2>3, <2>4
    <3> QED BY <2>3, <3>1
  <2>6. g[X \ {z}] = f[y] + g[(X \ {z}) \ {y}]
    <3>1. X \ {z} \notin T /\ y \in X \ {z}
      BY <2>1, <2>2, <2>3, <2>4
    <3> QED BY <2>4, <3>1
  <2>7. f[y] \in Nat /\ f[z] \in Nat /\ g[(X \ {y}) \ {z}] \in Nat
    BY <1>1, <2>2, <2>3, <2>4
  <2> DEFINE c == g[(X \ {y}) \ {z}]
  <2>8. g[X] = f[y] + (f[z] + c) /\ g[X] # f[z] + (f[y] + c)
    BY <2>2, <2>3, <2>4, <2>5, <2>6
  <2>9. \A a, b, d \in Nat : a + (b + d) = b + (a + d)
    OBVIOUS
  <2> HIDE DEF T, N, c
  <2> QED BY <2>7, <2>8, <2>9 DEF c
<1>3. g[s] = f[x] + g[s \ {x}] /\ g[s] \in Nat /\ g[s \ {x}] \in Nat
  BY <1>1, <1>2
<1> QED BY <1>3 DEF g

(* Equal shares, each but the last full, add up to the whole.               *)
Share(t, each, k) == IF t >= each * k + each THEN each ELSE IF t > each * k THEN t - each * k ELSE 0
Upto(t, m) == IF t >= m THEN m ELSE t

LEMMA SharesAddUp ==
    ASSUME NEW n \in Nat, NEW t \in Nat, NEW each \in Nat, t <= each * n,
           NEW f, f = [k \in 0 .. n - 1 |-> Share(t, each, k)]
    PROVE  SumFunction(f) = t
<1> DEFINE S == 0 .. n - 1
           g == Sums(f, S)
           B == {s \in SUBSET S : \E j \in 0 .. n : s = 0 .. j - 1 /\ g[s] # Upto(t, each * j)}
<1>0. IsFiniteSet(S) /\ Takes(f, S, g)
  <2>1. 0 \in Int /\ n - 1 \in Int
    OBVIOUS
  <2>2. IsFiniteSet(S)
    BY <2>1, FS_Interval
  <2> QED BY <2>2, SumTakes
<1>1. \A k \in Nat : each * k \in Nat /\ each * (k + 1) = each * k + each
  OBVIOUS
<1>2. f \in [S -> Nat]
  BY <1>1 DEF Share
<1>3. ASSUME B # {} PROVE FALSE
  <2>1. PICK X \in B : \A Y \in B : Y \subseteq X => Y = X
    <3>1. B \in SUBSET SUBSET S
      OBVIOUS
    <3> HIDE DEF B, S
    <3> QED BY <1>0, <1>3, <3>1, MinimalSubset
  <2>2. PICK j \in 0 .. n : X = 0 .. j - 1 /\ g[X] # Upto(t, each * j)
    BY <2>1
  <2>3. j # 0
    <3> SUFFICES ASSUME j = 0 PROVE FALSE
      OBVIOUS
    <3>1. X = {} /\ each * j = 0
      BY <2>2
    <3>2. g[X] = 0
      BY <1>0, <3>1 DEF Takes
    <3> HIDE DEF g
    <3> QED BY <2>2, <3>1, <3>2 DEF Upto
  <2> DEFINE k == j - 1
             Y == 0 .. k - 1
  <2>4. k \in Nat /\ k + 1 = j /\ k \in S /\ k \in X /\ X \ {k} = Y /\ Y \in SUBSET S /\ Y # X /\ k \in 0 .. n
    BY <2>2, <2>3
  <2>5. g[Y] = Upto(t, each * k)
    <3>1. Y \notin B
      <4> HIDE DEF B, Y, k
      <4> QED BY <2>1, <2>4
    <3> HIDE DEF g
    <3> QED BY <2>4, <3>1
  <2>6. g[X] = f[k] + g[Y]
    <3> HIDE DEF S, Y, k
    <3> QED BY <1>0, <1>2, <2>1, <2>4, SumTakesAny
  <2>7. f[k] = Share(t, each, k)
    BY <2>4
  <2>8. each * j = each * k + each /\ each * k \in Nat
    BY <1>1, <2>4
  <2> HIDE DEF k, Y, g, S
  <2> QED BY <2>2, <2>5, <2>6, <2>7, <2>8 DEF Share, Upto
<1>4. g[S] = t
  <2>1. S \notin B
    BY <1>3
  <2>2. n \in 0 .. n /\ S \in SUBSET S
    OBVIOUS
  <2>3. g[S] = Upto(t, each * n)
    <3> HIDE DEF g
    <3> QED BY <2>1, <2>2
  <2> QED BY <2>3, <1>1 DEF Upto
<1> QED BY <1>4, SumIs

(* A finite set of integers has a greatest element.                         *)
NoGreatest(S) == {s \in SUBSET S : s # {} /\ ~ \E m \in s : \A y \in s : m >= y}
LEMMA Greatest ==
    ASSUME NEW S, IsFiniteSet(S), S \subseteq Int, S # {}
    PROVE  Max(S) \in S /\ \A y \in S : Max(S) >= y
<1>1. ASSUME NoGreatest(S) # {} PROVE FALSE
  <2>1. PICK X \in NoGreatest(S) : \A Y \in NoGreatest(S) : Y \subseteq X => Y = X
    <3>1. NoGreatest(S) \in SUBSET SUBSET S
      BY DEF NoGreatest
    <3> QED BY <1>1, <3>1, MinimalSubset
  <2>2. PICK x \in X : TRUE
    BY <2>1 DEF NoGreatest
  <2>3. X \ {x} # {} /\ X \subseteq Int
    BY <2>1, <2>2 DEF NoGreatest
  <2>4. PICK m \in X \ {x} : \A y \in X \ {x} : m >= y
    <3>1. X \ {x} \in SUBSET S /\ X \ {x} # X
      BY <2>1, <2>2 DEF NoGreatest
    <3>2. X \ {x} \notin NoGreatest(S)
      BY <2>1, <3>1
    <3> QED BY <2>3, <3>1, <3>2 DEF NoGreatest
  <2>5. \E b \in {m, x} : \A y \in X : b >= y
    BY <2>2, <2>3, <2>4
  <2> QED BY <2>1, <2>2, <2>4, <2>5 DEF NoGreatest
<1> QED BY <1>1 DEF Max, NoGreatest

(* Ones add up to the number of elements; one value among zeros is the sum; *)
(* and no element is more than the sum.                                     *)
LEMMA SumOfOnes ==
    ASSUME NEW S, IsFiniteSet(S), NEW f, DOMAIN f = S, \A x \in S : f[x] = 1
    PROVE  SumFunction(f) = Cardinality(S)
<1> DEFINE g == Sums(f, S)
           T == {s \in SUBSET S : g[s] # Cardinality(s)}
<1>0. Takes(f, S, g)
  BY SumTakes
<1> HIDE DEF g
<1>1. ASSUME T # {} PROVE FALSE
  <2>1. PICK X \in T : \A Y \in T : Y \subseteq X => Y = X
    <3>1. T \in SUBSET SUBSET S
      OBVIOUS
    <3> HIDE DEF T
    <3> QED BY <1>1, <3>1, MinimalSubset
  <2>2. X # {}
    BY <1>0, <2>1, FS_EmptySet DEF Takes
  <2> DEFINE x == First(X)
  <2>3. x \in X /\ X \ {x} \in SUBSET S /\ X \in SUBSET S /\ g[X] = f[x] + g[X \ {x}]
    BY <1>0, <2>1, <2>2 DEF Takes
  <2> HIDE DEF x
  <2>4. g[X \ {x}] = Cardinality(X \ {x})
    <3>1. X \ {x} \notin T
      BY <2>1, <2>3
    <3> QED BY <2>3, <3>1
  <2>5. IsFiniteSet(X)
    BY <2>3, FS_Subset
  <2>6. Cardinality(X) \in Nat /\ Cardinality(X \ {x}) = Cardinality(X) - 1
    BY <2>3, <2>5, FS_RemoveElement, FS_CardinalityType
  <2>7. f[x] = 1
    BY <2>3
  <2>8. g[X] = Cardinality(X)
    BY <2>3, <2>4, <2>6, <2>7
  <2> QED BY <2>1, <2>8
<1> QED BY <1>1, SumIs DEF g

LEMMA SumOfOne ==
    ASSUME NEW S, IsFiniteSet(S), NEW a, NEW n \in Nat, NEW f, DOMAIN f = S,
           \A x \in S : f[x] = IF x = a THEN n ELSE 0
    PROVE  SumFunction(f) = IF a \in S THEN n ELSE 0
<1> DEFINE g == Sums(f, S)
           T == {s \in SUBSET S : g[s] # IF a \in s THEN n ELSE 0}
<1>0. Takes(f, S, g)
  BY SumTakes
<1> HIDE DEF g
<1>1. ASSUME T # {} PROVE FALSE
  <2>1. PICK X \in T : \A Y \in T : Y \subseteq X => Y = X
    <3>1. T \in SUBSET SUBSET S
      OBVIOUS
    <3> HIDE DEF T
    <3> QED BY <1>1, <3>1, MinimalSubset
  <2>2. X # {}
    BY <1>0, <2>1 DEF Takes
  <2> DEFINE x == First(X)
  <2>3. x \in X /\ X \ {x} \in SUBSET S /\ X \in SUBSET S /\ g[X] = f[x] + g[X \ {x}]
    BY <1>0, <2>1, <2>2 DEF Takes
  <2> HIDE DEF x
  <2>4. g[X \ {x}] = IF a \in X \ {x} THEN n ELSE 0
    <3>1. X \ {x} \notin T
      BY <2>1, <2>3
    <3> QED BY <2>3, <3>1
  <2>5. f[x] = IF x = a THEN n ELSE 0
    BY <2>3
  <2>6. g[X] = IF a \in X THEN n ELSE 0
    BY <2>3, <2>4, <2>5
  <2> QED BY <2>1, <2>6
<1> QED BY <1>1, SumIs DEF g

LEMMA SumCovers ==
    ASSUME NEW S, IsFiniteSet(S), NEW f \in [S -> Nat], NEW a \in S
    PROVE  SumFunction(f) \in Nat /\ SumFunction(f) >= f[a]
<1> DEFINE g == Sums(f, S)
           T == {s \in SUBSET S : ~ (g[s] \in Nat /\ (a \in s => g[s] >= f[a]))}
<1>0. Takes(f, S, g)
  BY SumTakes
<1> HIDE DEF g
<1>1. ASSUME T # {} PROVE FALSE
  <2>1. PICK X \in T : \A Y \in T : Y \subseteq X => Y = X
    <3>1. T \in SUBSET SUBSET S
      OBVIOUS
    <3> HIDE DEF T
    <3> QED BY <1>1, <3>1, MinimalSubset
  <2>2. X # {}
    <3>1. ASSUME X = {} PROVE X \notin T
      BY <1>0, <3>1 DEF Takes
    <3> QED BY <2>1, <3>1
  <2> DEFINE x == First(X)
  <2>3. x \in X /\ X \ {x} \in SUBSET S /\ X \in SUBSET S /\ g[X] = f[x] + g[X \ {x}]
    BY <1>0, <2>1, <2>2 DEF Takes
  <2> HIDE DEF x
  <2>4. g[X \ {x}] \in Nat /\ (a \in X \ {x} => g[X \ {x}] >= f[a])
    <3>1. X \ {x} \notin T
      BY <2>1, <2>3
    <3> QED BY <2>3, <3>1
  <2>5. f[x] \in Nat /\ f[a] \in Nat
    BY <2>3
  <2>6. g[X] \in Nat /\ (a \in X => g[X] >= f[a])
    BY <2>3, <2>4, <2>5
  <2> QED BY <2>1, <2>6
<1>2. g[S] \in Nat /\ g[S] >= f[a]
  BY <1>1
<1> QED BY <1>2, SumIs DEF g

-----------------------------------------------------------------------------
(* The ledgers of the layers (MoeStack): what a rank's output holds at each *)
(* place of its layer, and that the sums make it whole.                     *)

(* What a launch must be for the output to be whole: the factor is not      *)
(* fused into the top-k weights under two-batch overlap, GLM blocks have no *)
(* all-to-all but deepep and no mxfp4 experts, the CPU experts no           *)
(* all-gather, and a sum fused with the next norm no unsharded dense layer. *)
ScaledAndSummedOnce ==
    \A c \in Configs :
        /\ c.model \in {"deepseek", "glm"} /\ c.quant \in {"kernel", "topk", "kt", "mxfp4"}
        /\ c.a2a \in {"none", "deepep", "mooncake", "flashinfer"}
        /\ c.tbo => c.quant # "topk"
        /\ c.model = "glm" => c.a2a \in {"none", "deepep"} /\ c.quant # "mxfp4"
        /\ c.allgather => c.quant # "kt"
        /\ c.fuse => ~ c.densedp

(* A ledger of layer l with n units of what all ranks compute and m of what *)
(* the CPU experts do.                                                      *)
LedgerOf(o, l, n, m) ==
    /\ o = [p \in Parts |-> o[p]]
    /\ o["dense"] = [units |-> IF Sparse(l) THEN 0 ELSE n, scaled |-> 0]
    /\ o["gpu"] = [units |-> IF Sparse(l) THEN n ELSE 0, scaled |-> IF Sparse(l) THEN 1 ELSE 0]
    /\ o["cpu"] = [units |-> IF Sparse(l) /\ cfg.quant = "kt" THEN m ELSE 0,
                   scaled |-> IF Sparse(l) THEN 1 ELSE 0]
    /\ o["shared"] = [units |-> IF Sparse(l) THEN n ELSE 0,
                      scaled |-> IF Sparse(l) /\ Fused THEN 1 ELSE 0]

CpuUnits(r) == IF r = 0 THEN Tp ELSE 0
Partial(r, l) == LedgerOf(out[r], l, 1, CpuUnits(r))
Complete(r, l) == LedgerOf(out[r], l, Tp, Tp)

LEMMA WholeIs == ASSUME NEW o, NEW l, LedgerOf(o, l, Tp, Tp) PROVE o = WholeOutput(l)
<1>1. /\ Parts = {"dense", "gpu", "cpu", "shared"} /\ o = [p \in Parts |-> o[p]]
      /\ Nothing = [p \in Parts |-> [units |-> 0, scaled |-> 0]]
  BY DEF LedgerOf, Parts, Nothing
<1>2. CASE Sparse(l)
  BY <1>1, <1>2 DEF LedgerOf, WholeOutput
<1>3. CASE ~ Sparse(l)
  <2> DEFINE w == [Nothing EXCEPT !.dense.units = Tp]
  <2>1. /\ w = [p \in Parts |-> w[p]] /\ w["dense"] = [units |-> Tp, scaled |-> 0]
        /\ \A p \in Parts : p # "dense" => w[p] = [units |-> 0, scaled |-> 0]
    BY <1>1
  <2> HIDE DEF w
  <2>2. \A p \in Parts : o[p] = w[p]
    BY <1>1, <1>3, <2>1 DEF LedgerOf
  <2>3. o = w
    BY <1>1, <2>1, <2>2
  <2> QED BY <1>3, <2>3 DEF w, WholeOutput
<1> QED BY <1>2, <1>3

LEMMA StackRanks == ASSUME MoeStackAssumption PROVE IsFiniteSet(Ranks) /\ Cardinality(Ranks) = Tp
<1>1. Tp \in Nat \ {0}
  BY RankZeroOfStack
<1> QED BY <1>1, FS_Interval DEF Ranks

LEMMA MaxOfOne == \A k \in Nat : Max({k}) = k
BY DEF Max

(* The sum over the ranks is whole when each holds its part.                *)
LEMMA SumIsWhole ==
    ASSUME MoeStackAssumption, NEW l, \A r \in Ranks : Partial(r, l)
    PROVE  LedgerOf(Summed, l, Tp, Tp)
<1> USE RankZeroOfStack
<1> DEFINE units(p) == [r \in Ranks |-> out[r][p].units]
           factors(p) == {out[r][p].scaled : r \in Ranks}
<1>1. Summed = [p \in Parts |-> [units |-> SumFunction(units(p)), scaled |-> Max(factors(p))]]
  BY DEF Summed
<1>2. ASSUME NEW p, \A r \in Ranks : out[r][p].units = 1 PROVE SumFunction(units(p)) = Tp
  <2>1. \A r \in Ranks : units(p)[r] = 1
    BY <1>2
  <2> QED BY <2>1, StackRanks, SumOfOnes
<1>3. ASSUME NEW p, NEW n \in Nat, \A r \in Ranks : out[r][p].units = IF r = 0 THEN n ELSE 0
      PROVE  SumFunction(units(p)) = n
  <2>1. \A r \in Ranks : units(p)[r] = IF r = 0 THEN n ELSE 0
    BY <1>3
  <2> QED BY <2>1, StackRanks, SumOfOne
<1>4. ASSUME NEW p, NEW k \in Nat, \A r \in Ranks : out[r][p].scaled = k PROVE Max(factors(p)) = k
  <2>1. factors(p) = {k}
    BY <1>4
  <2> QED BY <2>1, MaxOfOne
<1> DEFINE o == Summed
<1>5. ASSUME NEW p \in Parts PROVE o[p] = [units |-> SumFunction(units(p)), scaled |-> Max(factors(p))]
  BY <1>1
<1>6. o = [p \in Parts |-> o[p]]
  BY <1>1
<1>7. \A r \in Ranks : LedgerOf(out[r], l, 1, CpuUnits(r))
  BY DEF Partial
<1>8. {"dense", "gpu", "cpu", "shared"} \subseteq Parts
  BY DEF Parts
<1> HIDE DEF o
<1> HIDE DEF units, factors
<1>9. CASE Sparse(l)
  <2> DEFINE n == IF cfg.quant = "kt" THEN Tp ELSE 0
             k == IF Fused THEN 1 ELSE 0
  <2>0. n \in Nat /\ k \in Nat
    OBVIOUS
  <2>1. ASSUME NEW r \in Ranks
        PROVE  /\ out[r]["dense"].units = (IF r = 0 THEN 0 ELSE 0) /\ out[r]["dense"].scaled = 0
               /\ out[r]["gpu"].units = 1 /\ out[r]["gpu"].scaled = 1
               /\ out[r]["cpu"].units = (IF r = 0 THEN n ELSE 0) /\ out[r]["cpu"].scaled = 1
               /\ out[r]["shared"].units = 1 /\ out[r]["shared"].scaled = k
    <3>1. LedgerOf(out[r], l, 1, CpuUnits(r))
      BY <1>7
    <3>2. /\ out[r]["dense"] = [units |-> 0, scaled |-> 0] /\ out[r]["gpu"] = [units |-> 1, scaled |-> 1]
          /\ out[r]["cpu"] = [units |-> IF cfg.quant = "kt" THEN CpuUnits(r) ELSE 0, scaled |-> 1]
          /\ out[r]["shared"] = [units |-> 1, scaled |-> k]
      BY <1>9, <3>1 DEF LedgerOf
    <3>3. (IF cfg.quant = "kt" THEN CpuUnits(r) ELSE 0) = (IF r = 0 THEN n ELSE 0)
      BY DEF CpuUnits
    <3> QED BY <3>2, <3>3
  <2> HIDE DEF n, k
  <2>2. SumFunction(units("dense")) = 0 /\ Max(factors("dense")) = 0
    BY <1>3, <1>4, <2>1
  <2>3. SumFunction(units("gpu")) = Tp /\ Max(factors("gpu")) = 1
    BY <1>2, <1>4, <2>1
  <2>4. SumFunction(units("cpu")) = n /\ Max(factors("cpu")) = 1
    BY <1>3, <1>4, <2>0, <2>1
  <2>5. SumFunction(units("shared")) = Tp /\ Max(factors("shared")) = k
    BY <1>2, <1>4, <2>0, <2>1
  <2> QED BY <1>5, <1>6, <1>8, <1>9, <2>2, <2>3, <2>4, <2>5 DEF LedgerOf, o, n, k
<1>10. CASE ~ Sparse(l)
  <2>1. ASSUME NEW r \in Ranks
        PROVE  /\ out[r]["dense"].units = 1 /\ out[r]["dense"].scaled = 0
               /\ \A p \in {"gpu", "cpu", "shared"} :
                     out[r][p].units = (IF r = 0 THEN 0 ELSE 0) /\ out[r][p].scaled = 0
    <3>1. LedgerOf(out[r], l, 1, CpuUnits(r))
      BY <1>7
    <3>2. /\ out[r]["dense"] = [units |-> 1, scaled |-> 0] /\ out[r]["gpu"] = [units |-> 0, scaled |-> 0]
          /\ out[r]["cpu"] = [units |-> 0, scaled |-> 0] /\ out[r]["shared"] = [units |-> 0, scaled |-> 0]
      BY <1>10, <3>1 DEF LedgerOf
    <3> QED BY <3>2
  <2>2. SumFunction(units("dense")) = Tp /\ Max(factors("dense")) = 0
    BY <1>2, <1>4, <2>1
  <2>3. ASSUME NEW p \in {"gpu", "cpu", "shared"} PROVE SumFunction(units(p)) = 0 /\ Max(factors(p)) = 0
    BY <1>3, <1>4, <2>1
  <2> QED BY <1>5, <1>6, <1>8, <1>10, <2>2, <2>3 DEF LedgerOf, o
<1> QED BY <1>9, <1>10

(* Whether the sum over the ranks is left to what follows the layer.        *)
Pending(l) == FusesAllReduce(l) \/ UsesReduceScatter(l)
Inside == {"symm", "fill", "dense", "local", "experts", "reduce", "post", "scatter", "fused", "take"}

(* What a rank holds at its place.                                          *)
RankHolds(r) ==
    LET l == layer[r]
        p == pc[r]
    IN  /\ p \in {"attn", "gather", "mlp", "dense", "end"} => out[r] = Nothing
        /\ p \in Inside => path[r] = Path(r, l)
        /\ p \in {"symm", "fill", "local", "experts"} => out[r].shared.units = SharedBefore(r, path[r])
        /\ p = "reduce" \/ (p \in {"post", "scatter", "fused"} /\ Pending(l)) => Partial(r, l)
        /\ p = "take" \/ (p = "post" /\ ~ Pending(l)) => (tok[r] > 0 => Complete(r, l))
        /\ p = "experts" /\ path[r] = "mega" => symm[r].rows = 1 .. tok[r]
        /\ p \in {"reduce", "post", "scatter", "fused", "take"} /\ path[r] = "mega" => routed[r] = 1 .. tok[r]

(* A batch has a token; without data parallelism all ranks have the same.   *)
BatchTypes ==
    /\ cfg \in Configs /\ tok \in [Ranks -> Nat]
    /\ \E a \in Ranks : tok[a] > 0
    /\ ~ cfg.dp => \A r, s \in Ranks : tok[r] = tok[s]

LedgerTypes ==
    /\ out = [r \in Ranks |-> out[r]] /\ routed = [r \in Ranks |-> routed[r]]
LedgerInv == BatchTypes /\ LedgerTypes /\ \A r \in Ranks : RankHolds(r)

(* The experts of a launch.                                                 *)
Alone == CallExperts = "local"

LEMMA AloneIs ==
    ASSUME ScaledAndSummedOnce, BatchTypes
    PROVE  /\ Alone <=> cfg.a2a = "none" /\ ~ cfg.allgather
           /\ CallExperts = IF Alone THEN "local" ELSE "experts"
           /\ ReplicatedShared <=> ~ Alone
           /\ \A l : Sparse(l) => (Scattered(l) <=> ~ Alone)
<1>1. cfg.model = "glm" => cfg.a2a \in {"none", "deepep"}
  BY DEF ScaledAndSummedOnce, BatchTypes
<1> QED BY <1>1 DEF Alone, CallExperts, ReplicatedShared, ReplicatedGlm, ReplicatedDeepseek, Scattered

(* A layer has something to compute when its rank has a token, and on every *)
(* rank when it sees the tokens of all.                                     *)
LEMMA ShapePositive ==
    ASSUME MoeStackAssumption, BatchTypes, NEW r \in Ranks, NEW l, tok[r] > 0 \/ ~ Scattered(l)
    PROVE  Shape(r, l) \in Nat /\ Shape(r, l) > 0
<1>1. PICK a \in Ranks : tok[a] > 0
  BY DEF BatchTypes
<1>2. tok[a] \in Nat /\ tok[r] \in Nat
  BY DEF BatchTypes
<1>3. CASE ~ Scattered(l) /\ cfg.dp
  <2>1. Total \in Nat /\ Total >= tok[a]
    BY <1>1, StackRanks, SumCovers DEF BatchTypes, Total
  <2> QED BY <1>1, <1>2, <1>3, <2>1 DEF Shape
<1>4. CASE Scattered(l)
  BY <1>2, <1>4 DEF Shape
<1>5. CASE ~ Scattered(l) /\ ~ cfg.dp
  <2>1. tok[r] = tok[a]
    BY <1>1, <1>5 DEF BatchTypes
  <2> QED BY <1>1, <1>2, <1>5, <2>1 DEF Shape
<1> QED BY <1>3, <1>4, <1>5

(* The routed part is scaled exactly once, whichever path a layer takes.    *)
LEMMA ScaledOnce ==
    ASSUME MoeStackAssumption, ScaledAndSummedOnce, BatchTypes, StackInv, NEW r \in Ranks, NEW l, Sparse(l)
    PROVE  LET p == Path(r, l)
           IN  (IF ExpertsScaled(p) THEN 1 ELSE 0) + (IF ScaledAgain(p) THEN 1 ELSE 0) = 1
<1>1. /\ cfg.quant \in {"kernel", "topk", "kt", "mxfp4"}
      /\ cfg.tbo => cfg.quant # "topk"
      /\ cfg.model = "glm" => cfg.quant # "mxfp4"
      /\ cfg.a2a # "none" => cfg.quant # "kt"
  BY DEF ScaledAndSummedOnce, BatchTypes, MoeStackAssumption
<1> DEFINE p == Path(r, l)
<1>2. CASE cfg.model = "glm"
  <2>1. /\ p \in {"normal", "dual", "deepep"}
        /\ p \in {"normal", "dual"} => (ScaledAgain(p) <=> cfg.quant = "kt")
        /\ p = "deepep" => (ScaledAgain(p) <=> cfg.quant # "topk")
    BY <1>2 DEF Path, PathGlm, ScaledAgain, GlmScaledNormal, GlmScaledDual, GlmScaledDeepep
  <2> HIDE DEF p
  <2>2. ExpertsScaled(p) <=> cfg.quant = "topk" \/ (cfg.quant = "kernel" /\ p \in {"normal", "dual"})
    BY DEF ExpertsScaled
  <2>3. ExpertsScaled(p) <=> ~ ScaledAgain(p)
    BY <1>1, <1>2, <2>1, <2>2
  <2> QED BY <2>3 DEF p
<1>3. CASE cfg.model # "glm"
  <2>1. /\ p \in {"normal", "dual", "deepep", "ops", "mega"}
        /\ p = "ops" => cfg.tbo
    BY <1>3 DEF Path, PathDeepseek
  <2>2. /\ p \in {"normal", "dual"} => (ScaledAgain(p) <=> cfg.quant \in {"kt", "mxfp4"})
        /\ p = "ops" => ScaledAgain(p)
        /\ p \in {"deepep", "mega"} => (ScaledAgain(p) <=> cfg.quant # "topk")
    BY <1>3, <2>1 DEF ScaledAgain, ScaledNormal, ScaledDual, ScaledDeepep, ScaledMega, ScaledOps
  <2> HIDE DEF p
  <2>3. ExpertsScaled(p) <=> cfg.quant = "topk" \/ (cfg.quant = "kernel" /\ p \in {"normal", "dual"})
    BY DEF ExpertsScaled
  <2>4. ExpertsScaled(p) <=> ~ ScaledAgain(p)
    BY <1>1, <1>3, <2>1, <2>2, <2>3
  <2> QED BY <2>4 DEF p
<1> QED BY <1>2, <1>3

(* What the experts of a rank add: their units, and the CPU experts.        *)
LEMMA RoutedIs ==
    ASSUME MoeStackAssumption, ScaledAndSummedOnce, BatchTypes, StackInv, NEW r \in Ranks, NEW n \in Nat,
           Sparse(layer[r]), path[r] = Path(r, layer[r]),
           out[r].shared.units = SharedBefore(r, path[r]),
           Shape(r, layer[r]) \in Nat, Shape(r, layer[r]) > 0,
           n = IF Alone THEN 1 ELSE Tp
    PROVE  LedgerOf(RoutedShare(r, n), layer[r], n, CpuUnits(r))
<1> DEFINE l == layer[r]
           s == (IF ExpertsScaled(path[r]) THEN 1 ELSE 0) + (IF ScaledAgain(path[r]) THEN 1 ELSE 0)
           sh == IF Hooked(path[r]) THEN SharedShare(r, l) ELSE out[r].shared.units
           o == RoutedShare(r, n)
<1>1. s = 1
  BY ScaledOnce
<1>2. sh = IF Fused THEN 0 ELSE n
  <2>1. SharedShare(r, l) = IF Fused THEN 0 ELSE n
    <3>1. (ReplicatedShared <=> ~ Alone) /\ Shape(r, l) # 0
      BY AloneIs
    <3> QED BY <3>1 DEF SharedShare
  <2>2. sh = SharedShare(r, l)
    BY DEF SharedBefore
  <2> QED BY <2>1, <2>2
<1>3. o = [dense |-> Nothing.dense, gpu |-> [units |-> n, scaled |-> s],
           cpu |-> [units |-> IF cfg.quant = "kt" /\ r = 0 THEN Tp ELSE 0, scaled |-> s],
           shared |-> IF Fused THEN [units |-> n, scaled |-> s] ELSE [units |-> sh, scaled |-> 0]]
  BY DEF RoutedShare
<1>4. Nothing.dense = [units |-> 0, scaled |-> 0]
  BY DEF Nothing, Parts
<1> HIDE DEF s, sh, o
<1>5. o = [p \in Parts |-> o[p]]
  BY <1>3 DEF Parts
<1>6. /\ o["dense"] = [units |-> 0, scaled |-> 0] /\ o["gpu"] = [units |-> n, scaled |-> 1]
      /\ o["cpu"] = [units |-> IF cfg.quant = "kt" /\ r = 0 THEN Tp ELSE 0, scaled |-> 1]
      /\ o["shared"] = [units |-> n, scaled |-> IF Fused THEN 1 ELSE 0]
  BY <1>1, <1>2, <1>3, <1>4
<1> QED BY <1>5, <1>6 DEF LedgerOf, CpuUnits, o

(* Behind an all-to-all or an all-gather no CPU expert is left to a rank.   *)
LEMMA NoCpuBehind ==
    ASSUME MoeStackAssumption, ScaledAndSummedOnce, BatchTypes, ~ Alone,
           NEW o, NEW l, NEW n, NEW m, NEW k, LedgerOf(o, l, n, m)
    PROVE  LedgerOf(o, l, n, k)
<1>1. cfg.quant # "kt"
  BY AloneIs DEF ScaledAndSummedOnce, BatchTypes, MoeStackAssumption
<1> QED BY <1>1 DEF LedgerOf

(* The plan of a layer changes with the launch and the batch alone.         *)
LEMMA SameLedgers ==
    ASSUME cfg' = cfg, tok' = tok
    PROVE  /\ \A l : Pending(l)' <=> Pending(l)
           /\ \A o, l, n, m : LedgerOf(o, l, n, m)' <=> LedgerOf(o, l, n, m)
           /\ \A r, l : /\ Path(r, l)' = Path(r, l)
                        /\ SharedShare(r, l)' = SharedShare(r, l)
           /\ \A p : Hooked(p)' <=> Hooked(p)
           /\ BatchTypes' <=> BatchTypes
<1>1. \A l : Pending(l)' <=> Pending(l)
  BY SameLaunch DEF Pending
<1>2. Fused' <=> Fused
  BY DEF Fused, FusedGlm, FusedDeepseek
<1>3. \A o, l, n, m : LedgerOf(o, l, n, m)' <=> LedgerOf(o, l, n, m)
  BY <1>2, SameLaunch DEF LedgerOf
<1>4. \A r, l : Shape(r, l)' = Shape(r, l)
  BY SameLaunch DEF Shape, Total
<1>5. \A r, l : SharedShare(r, l)' = SharedShare(r, l)
  BY <1>2, <1>4 DEF SharedShare, ReplicatedShared, ReplicatedGlm, ReplicatedDeepseek
<1>6. \A r, l : Path(r, l)' = Path(r, l)
  <2>1. \A r, l : UseMega(r, l)' <=> UseMega(r, l)
    BY DEF UseMega, IsHash, Ranks
  <2>2. \A r, l : DualStream(r, l)' <=> DualStream(r, l)
    BY <1>2, <1>4 DEF DualStream
  <2> QED BY <2>1, <2>2, SameLaunch DEF Path, PathGlm, PathDeepseek
<1>7. \A p : Hooked(p)' <=> Hooked(p)
  BY DEF Hooked
<1>8. BatchTypes' <=> BatchTypes
  BY DEF BatchTypes, Ranks
<1> QED BY <1>1, <1>3, <1>5, <1>6, <1>7, <1>8

(* The others hold what they held.                                          *)
LEMMA OthersHold ==
    ASSUME NEW s \in Ranks, RankHolds(s), cfg' = cfg, tok' = tok, layer'[s] = layer[s],
           pc'[s] = pc[s], path'[s] = path[s], out'[s] = out[s], symm'[s].rows = symm[s].rows,
           routed'[s] = routed[s]
    PROVE  RankHolds(s)'
<1>1. SharedBefore(s, path[s])' = SharedBefore(s, path[s])
  BY SameLedgers DEF SharedBefore
<1>2. Partial(s, layer[s])' <=> Partial(s, layer[s])
  BY SameLedgers DEF Partial, CpuUnits
<1>3. Complete(s, layer[s])' <=> Complete(s, layer[s])
  BY SameLedgers DEF Complete
<1>4. Pending(layer[s])' <=> Pending(layer[s])
  BY SameLedgers
<1>5. Path(s, layer[s])' = Path(s, layer[s])
  BY SameLedgers
<1> QED BY <1>1, <1>2, <1>3, <1>4, <1>5 DEF RankHolds, Nothing

LEMMA LedgerAttends == ASSUME StackInv, LedgerInv, NEW r \in Ranks, Attend(r) PROVE LedgerInv'
<1>1. PICK p \in {"mlp", "gather"} :
        /\ pc[r] = "attn" /\ pc' = [pc EXCEPT ![r] = p]
        /\ UNCHANGED <<cfg, tok, pass, layer, path, out, symm, routed>>
  BY DEF Attend, At, Go
<1>2. BatchTypes' /\ LedgerTypes'
  BY <1>1, SameLedgers DEF LedgerInv, LedgerTypes, Ranks
<1>3. RankHolds(r)'
  <2>1. pc'[r] = p /\ out[r] = Nothing
    BY <1>1 DEF StackInv, StackTypes, LedgerInv, RankHolds
  <2> QED BY <1>1, <2>1 DEF RankHolds, Inside, Nothing
<1>4. \A s \in Ranks : s # r => RankHolds(s)'
  BY <1>1, OthersHold DEF StackInv, StackTypes, LedgerInv
<1> QED BY <1>2, <1>3, <1>4 DEF LedgerInv, Ranks

LEMMA LedgerEntered ==
    ASSUME StackInv, LedgerInv, NEW r \in Ranks, NEW q \in Paths, NEW p, Enter(r, q, p),
           q = "dense" => p = "dense", q # "dense" => p \in {"symm", "fill", "local", "experts"},
           p = "experts" => q # "mega"
    PROVE  LedgerInv'
<1>1. /\ pc[r] = "mlp" /\ pc' = [pc EXCEPT ![r] = p] /\ path' = [path EXCEPT ![r] = q]
      /\ q = Path(r, layer[r])
      /\ UNCHANGED <<cfg, tok, pass, layer, symm, routed>>
  BY DEF Enter, At, Go
<1>2. out' = [out EXCEPT ![r].shared.units = IF q = "dense" THEN 0 ELSE SharedBefore(r, q)]
  BY DEF Enter
<1>3. out[r] = Nothing /\ out = [s \in Ranks |-> out[s]]
  BY <1>1 DEF LedgerInv, RankHolds, LedgerTypes
<1>4. BatchTypes' /\ LedgerTypes'
  BY <1>1, <1>2, <1>3, SameLedgers DEF LedgerInv, LedgerTypes, Ranks
<1>5. \A s \in Ranks : s # r => out'[s] = out[s]
  BY <1>2, <1>3
<1>6. out'[r].shared.units = IF q = "dense" THEN 0 ELSE SharedBefore(r, q)
  BY <1>2, <1>3 DEF Nothing, Parts
<1>7. q = "dense" => out'[r] = Nothing
  <2> SUFFICES ASSUME q = "dense" PROVE out'[r] = Nothing
    OBVIOUS
  <2>1. out'[r] = [Nothing EXCEPT !.shared.units = 0]
    BY <1>2, <1>3
  <2>2. Nothing = [t \in Parts |-> [units |-> 0, scaled |-> 0]] /\ "shared" \in Parts
    BY DEF Nothing, Parts
  <2> QED BY <2>1, <2>2
<1>8. RankHolds(r)'
  <2>1. pc'[r] = p /\ path'[r] = q
    BY <1>1 DEF StackInv, StackTypes
  <2>2. Path(r, layer[r])' = q
    BY <1>1, SameLedgers
  <2>3. q # "dense" => out'[r].shared.units = SharedBefore(r, q)'
    BY <1>1, <1>6, SameLedgers DEF SharedBefore
  <2>4. (q = "dense" /\ p = "dense") \/ (q # "dense" /\ p \in {"symm", "fill", "local", "experts"})
    OBVIOUS
  <2>5. CASE q = "dense" /\ p = "dense"
    BY <1>7, <2>1, <2>2, <2>5 DEF RankHolds, Inside, Nothing
  <2>6. CASE q # "dense" /\ p \in {"symm", "fill", "local", "experts"}
    BY <2>1, <2>2, <2>3, <2>6 DEF RankHolds, Inside
  <2> QED BY <2>4, <2>5, <2>6
<1>9. \A s \in Ranks : s # r => RankHolds(s)'
  BY <1>1, <1>5, OthersHold DEF StackInv, StackTypes, LedgerInv
<1> QED BY <1>4, <1>8, <1>9 DEF LedgerInv, Ranks

LEMMA LedgerEnters ==
    ASSUME StackInv, LedgerInv, NEW r \in Ranks,
           \/ EnterDense(r) \/ EnterNormal(r) \/ EnterDual(r)
           \/ EnterDeepep(r) \/ EnterOps(r) \/ EnterMega(r)
    PROVE  LedgerInv'
<1>1. {"dense", "normal", "dual", "deepep", "ops", "mega"} = Paths /\ CallExperts \in {"local", "experts"}
  BY DEF Paths, CallExperts
<1>2. CASE EnterDense(r)
  BY <1>1, <1>2, LedgerEntered DEF EnterDense
<1>3. CASE EnterNormal(r)
  BY <1>1, <1>3, LedgerEntered DEF EnterNormal
<1>4. CASE EnterDual(r)
  BY <1>1, <1>4, LedgerEntered DEF EnterDual
<1>5. CASE EnterDeepep(r)
  BY <1>1, <1>5, LedgerEntered DEF EnterDeepep
<1>6. CASE EnterOps(r)
  BY <1>1, <1>6, LedgerEntered DEF EnterOps
<1>7. CASE EnterMega(r)
  BY <1>1, <1>7, LedgerEntered DEF EnterMega
<1> QED BY <1>2, <1>3, <1>4, <1>5, <1>6, <1>7

LEMMA LedgerFills == ASSUME StackInv, LedgerInv, NEW r \in Ranks, FillBuffer(r) PROVE LedgerInv'
<1>1. /\ pc[r] = "fill" /\ pc' = [pc EXCEPT ![r] = "experts"]
      /\ symm' = [symm EXCEPT ![r].rows = 1 .. tok[r]]
      /\ UNCHANGED <<cfg, tok, pass, layer, path, out, routed>>
  BY DEF FillBuffer, At, Go, FilledRows
<1>2. BatchTypes' /\ LedgerTypes'
  BY <1>1, SameLedgers DEF LedgerInv, LedgerTypes, Ranks
<1>3. pc'[r] = "experts" /\ symm'[r].rows = 1 .. tok[r] /\ \A s \in Ranks : s # r => symm'[s].rows = symm[s].rows
  BY <1>1 DEF StackInv, StackTypes
<1>4. RankHolds(r)'
  <2>1. path[r] = Path(r, layer[r]) /\ out[r].shared.units = SharedBefore(r, path[r])
    BY <1>1 DEF LedgerInv, RankHolds, Inside
  <2>2. Path(r, layer[r])' = Path(r, layer[r]) /\ SharedBefore(r, path[r])' = SharedBefore(r, path[r])
    BY <1>1, SameLedgers DEF SharedBefore
  <2> QED BY <1>1, <1>3, <2>1, <2>2 DEF RankHolds, Inside
<1>5. \A s \in Ranks : s # r => RankHolds(s)'
  BY <1>1, <1>3, OthersHold DEF StackInv, StackTypes, LedgerInv
<1> QED BY <1>2, <1>4, <1>5 DEF LedgerInv, Ranks

LEMMA DenseIs ==
    ASSUME NEW l, ~ Sparse(l), NEW n, NEW m
    PROVE  LedgerOf([Nothing EXCEPT !.dense.units = n], l, n, m)
<1> DEFINE o == [Nothing EXCEPT !.dense.units = n]
<1>1. Nothing = [p \in Parts |-> [units |-> 0, scaled |-> 0]] /\ Parts = {"dense", "gpu", "cpu", "shared"}
  BY DEF Nothing, Parts
<1>2. /\ o = [p \in Parts |-> o[p]] /\ o["dense"] = [units |-> n, scaled |-> 0]
      /\ \A p \in Parts : p # "dense" => o[p] = [units |-> 0, scaled |-> 0]
  BY <1>1
<1> HIDE DEF o
<1> QED BY <1>1, <1>2 DEF LedgerOf, o

(* A rank that goes on in its layer with the output o.                      *)
LEMMA LedgerGoesOn ==
    ASSUME StackInv, LedgerInv, NEW r \in Ranks, NEW p, NEW o,
           pc[r] \in Inside, pc' = [pc EXCEPT ![r] = p], out' = [out EXCEPT ![r] = o],
           UNCHANGED <<cfg, tok, pass, layer, path, symm, routed>>,
           p \in {"reduce", "post", "scatter", "fused", "take"},
           p = "reduce" \/ (p \in {"post", "scatter", "fused"} /\ Pending(layer[r]))
               => LedgerOf(o, layer[r], 1, CpuUnits(r)),
           p = "take" \/ (p = "post" /\ ~ Pending(layer[r])) => (tok[r] > 0 => LedgerOf(o, layer[r], Tp, Tp)),
           path[r] = "mega" => routed[r] = 1 .. tok[r]
    PROVE  LedgerInv'
<1>1. out = [s \in Ranks |-> out[s]]
  BY DEF LedgerInv, LedgerTypes
<1>2. BatchTypes' /\ LedgerTypes'
  BY <1>1, SameLedgers DEF LedgerInv, LedgerTypes, Ranks
<1>3. /\ pc'[r] = p /\ out'[r] = o
      /\ \A s \in Ranks : s # r => pc'[s] = pc[s] /\ out'[s] = out[s]
  BY <1>1 DEF StackInv, StackTypes
<1>4. RankHolds(r)'
  <2>1. path[r] = Path(r, layer[r])
    BY DEF LedgerInv, RankHolds
  <2>2. Path(r, layer[r])' = Path(r, layer[r]) /\ (Pending(layer[r])' <=> Pending(layer[r]))
    BY SameLedgers
  <2>3. Partial(r, layer[r])' <=> LedgerOf(o, layer[r], 1, CpuUnits(r))
    BY <1>3, SameLedgers DEF Partial, CpuUnits
  <2>4. Complete(r, layer[r])' <=> LedgerOf(o, layer[r], Tp, Tp)
    BY <1>3, SameLedgers DEF Complete
  <2> QED BY <1>3, <2>1, <2>2, <2>3, <2>4 DEF RankHolds, Inside
<1>5. \A s \in Ranks : s # r => RankHolds(s)'
  BY <1>3, OthersHold DEF StackInv, StackTypes, LedgerInv
<1> QED BY <1>2, <1>4, <1>5 DEF LedgerInv, Ranks

(* A ledger of a part with nothing to sum over is a ledger of the whole.    *)
LEMMA AloneIsWhole ==
    ASSUME NEW r \in Ranks, NEW l, NEW o, LedgerOf(o, l, 1, CpuUnits(r)), Tp = 1
    PROVE  LedgerOf(o, l, Tp, Tp)
<1>1. r = 0
  BY DEF Ranks
<1> QED BY <1>1 DEF CpuUnits

LEMMA LedgerDense ==
    ASSUME MoeStackAssumption, ScaledAndSummedOnce, StackInv, LedgerInv, NEW r \in Ranks, Dense(r)
    PROVE  LedgerInv'
<1> USE RankZeroOfStack
<1> DEFINE l == layer[r]
<1>1. pc[r] = "dense" /\ ~ Sparse(l) /\ path[r] # "mega"
      /\ UNCHANGED <<cfg, tok, pass, layer, path, symm, routed>>
  <2>1. pc[r] = "dense" /\ ~ Sparse(l) /\ l \in Nat
    BY DEF Dense, At, StackInv, StackTypes, RankInPlace
  <2>2. path[r] = Path(r, l)
    BY <2>1 DEF LedgerInv, RankHolds, Inside
  <2> QED BY <2>1, <2>2, PathFacts DEF Dense
<1>2. out[r] = Nothing /\ out = [s \in Ranks |-> out[s]]
  BY <1>1 DEF LedgerInv, LedgerTypes, RankHolds
<1>3. pc[r] \in Inside
  BY <1>1 DEF Inside
<1>4. Pending(l) => ~ cfg.densedp
  BY <1>1 DEF Pending, FusesAllReduce, UsesReduceScatter, Scattered, LedgerInv, BatchTypes, ScaledAndSummedOnce
<1>5. CASE cfg.densedp /\ Shape(r, l) = 0
  <2>1. pc' = [pc EXCEPT ![r] = "post"] /\ out' = [out EXCEPT ![r] = Nothing]
    BY <1>2, <1>5 DEF Dense, Go
  <2>2. ~ (tok[r] > 0)
    <3>1. ASSUME tok[r] > 0 PROVE FALSE
      BY <1>5, <3>1, ShapePositive DEF LedgerInv
    <3> QED BY <3>1
  <2> QED BY <1>1, <1>3, <1>4, <1>5, <2>1, <2>2, LedgerGoesOn
<1>6. CASE cfg.densedp /\ Shape(r, l) # 0
  <2> DEFINE o == [Nothing EXCEPT !.dense.units = Tp]
  <2>1. pc' = [pc EXCEPT ![r] = "post"] /\ out' = [out EXCEPT ![r] = o]
    BY <1>2, <1>6 DEF Dense, Go
  <2>2. LedgerOf(o, l, Tp, Tp)
    BY <1>1, DenseIs
  <2> HIDE DEF o
  <2> QED BY <1>1, <1>3, <1>4, <1>6, <2>1, <2>2, LedgerGoesOn
<1>7. CASE ~ cfg.densedp
  <2> DEFINE o == [Nothing EXCEPT !.dense.units = 1]
             p == IF Tp > 1 /\ ~ Pending(l) THEN "reduce" ELSE "post"
  <2>1. pc' = [pc EXCEPT ![r] = p] /\ out' = [out EXCEPT ![r] = o]
    BY <1>2, <1>7 DEF Dense, Go, Pending
  <2>2. LedgerOf(o, l, 1, CpuUnits(r))
    BY <1>1, DenseIs
  <2>3. Tp = 1 => LedgerOf(o, l, Tp, Tp)
    BY <2>2, AloneIsWhole
  <2>4. p \in {"reduce", "post"} /\ (p = "post" /\ ~ Pending(l) => Tp = 1)
    OBVIOUS
  <2> HIDE DEF o, p
  <2> QED BY <1>1, <1>3, <2>1, <2>2, <2>3, <2>4, LedgerGoesOn
<1> QED BY <1>5, <1>6, <1>7

LEMMA LedgerLocal ==
    ASSUME MoeStackAssumption, ScaledAndSummedOnce, StackInv, LedgerInv, NEW r \in Ranks, LocalExperts(r)
    PROVE  LedgerInv'
<1> USE RankZeroOfStack
<1> DEFINE l == layer[r]
           o == RoutedShare(r, 1)
           p == AfterExperts(path[r], l)
<1>1. /\ pc[r] = "local" /\ Sparse(l) /\ Alone /\ l \in Nat
      /\ UNCHANGED <<cfg, tok, pass, layer, path, symm, routed>>
  BY DEF LocalExperts, At, StackInv, StackTypes, RankInPlace, Alone
<1>2. path[r] = Path(r, l) /\ out[r].shared.units = SharedBefore(r, path[r]) /\ BatchTypes
  BY <1>1 DEF LedgerInv, RankHolds, Inside
<1>3. Shape(r, l) \in Nat /\ Shape(r, l) > 0
  BY <1>1, <1>2, AloneIs, ShapePositive
<1>4. LedgerOf(o, l, 1, CpuUnits(r))
  BY <1>1, <1>2, <1>3, RoutedIs
<1>5. pc' = [pc EXCEPT ![r] = p] /\ out' = [out EXCEPT ![r] = o]
  BY <1>3 DEF LocalExperts, Go
<1>6. path[r] \in {"normal", "dual"} /\ ~ cfg.allgather
  <2>1. cfg.a2a = "none" /\ ~ cfg.allgather
    BY <1>1, <1>2, AloneIs
  <2>2. path[r] \notin SpecialPaths /\ path[r] \in Paths /\ path[r] # "dense"
    BY <1>1, <1>2, <2>1, PathFacts DEF AllToAll
  <2> QED BY <2>1, <2>2 DEF Paths, SpecialPaths
<1>7. p = IF Tp > 1 /\ ~ Pending(l) THEN "reduce" ELSE "post"
  BY <1>6 DEF AfterExperts, Pending
<1>8. p \in {"reduce", "post"} /\ (p = "post" /\ ~ Pending(l) => Tp = 1)
  BY <1>7
<1> HIDE DEF o, p
<1>9. Tp = 1 => LedgerOf(o, l, Tp, Tp)
  BY <1>4, AloneIsWhole
<1>10. pc[r] \in Inside
  BY <1>1 DEF Inside
<1> QED BY <1>1, <1>4, <1>5, <1>6, <1>8, <1>9, <1>10, LedgerGoesOn

LEMMA LedgerPostprocess ==
    ASSUME StackInv, LedgerInv, NEW r \in Ranks, Postprocess(r) PROVE LedgerInv'
<1> DEFINE l == layer[r]
           o == out[r]
           p == IF FusesAllReduce(l) THEN "fused" ELSE IF UsesReduceScatter(l) THEN "scatter" ELSE "take"
<1>1. /\ pc[r] = "post" /\ pc' = [pc EXCEPT ![r] = p]
      /\ UNCHANGED <<cfg, tok, pass, layer, path, out, symm, routed>>
  BY DEF Postprocess, At, Go
<1>2. out' = [out EXCEPT ![r] = o]
  BY <1>1 DEF LedgerInv, LedgerTypes
<1>3. p \in {"fused", "scatter", "take"} /\ (p = "take" <=> ~ Pending(l))
  BY DEF Pending
<1> HIDE DEF p
<1>4. /\ Pending(l) => LedgerOf(o, l, 1, CpuUnits(r))
      /\ ~ Pending(l) => (tok[r] > 0 => LedgerOf(o, l, Tp, Tp))
      /\ path[r] = "mega" => routed[r] = 1 .. tok[r]
  BY <1>1 DEF LedgerInv, RankHolds, Partial, Complete
<1>5. pc[r] \in Inside
  BY <1>1 DEF Inside
<1> HIDE DEF o
<1> QED BY <1>1, <1>2, <1>3, <1>4, <1>5, LedgerGoesOn

LEMMA LedgerTakes == ASSUME StackInv, LedgerInv, NEW r \in Ranks, Take(r) PROVE LedgerInv'
<1>1. PICK p \in {"end", "attn"} :
        /\ pc' = [pc EXCEPT ![r] = p] /\ layer' = [layer EXCEPT ![r] = @ + 1]
        /\ out' = [out EXCEPT ![r] = Nothing]
        /\ UNCHANGED <<cfg, tok, pass, path, symm, routed>>
  BY DEF Take, At, Go
<1>2. out = [s \in Ranks |-> out[s]]
  BY DEF LedgerInv, LedgerTypes
<1>3. BatchTypes' /\ LedgerTypes'
  BY <1>1, <1>2, SameLedgers DEF LedgerInv, LedgerTypes, Ranks
<1>4. RankHolds(r)'
  <2>1. pc'[r] = p /\ out'[r] = Nothing
    BY <1>1, <1>2 DEF StackInv, StackTypes
  <2> QED BY <2>1 DEF RankHolds, Inside, Nothing
<1>5. \A s \in Ranks : s # r => RankHolds(s)'
  BY <1>1, <1>2, OthersHold DEF StackInv, StackTypes, LedgerInv
<1> QED BY <1>3, <1>4, <1>5 DEF LedgerInv, Ranks

LEMMA LedgerMeets ==
    ASSUME MoeStackAssumption, ScaledAndSummedOnce, StackInv, LedgerInv, Meet PROVE LedgerInv'
<1> USE RankZeroOfStack
<1> DEFINE l == layer[0]
           c == pc[0]
<1>1. /\ \A r \in Ranks : pc[r] = c /\ layer[r] = l
      /\ c \in {"gather", "symm", "experts", "reduce", "scatter", "fused"} /\ l \in Nat
      /\ UNCHANGED <<cfg, tok, pass, layer, path>>
  BY DEF Meet, Call, Collectives, StackInv, StackTypes
<1>2. /\ out' = CASE c \in {"reduce", "scatter", "fused"} -> [r \in Ranks |-> Summed]
                  [] c = "experts" -> [r \in Ranks |-> IF tok[r] > 0 THEN RoutedShare(r, Tp) ELSE Nothing]
                  [] c \in {"gather", "symm"} -> out
      /\ pc' = [r \in Ranks |->
                    CASE c = "gather" -> "mlp"
                      [] c = "symm" -> "fill"
                      [] c = "experts" -> AfterExperts(path[r], layer[r])
                      [] c = "reduce" -> "post"
                      [] c \in {"scatter", "fused"} -> "take"]
      /\ symm' = IF c = "symm" THEN [r \in Ranks |-> [symm[r] EXCEPT !.built = TRUE]] ELSE symm
      /\ routed' = IF c = "experts" /\ path[0] = "mega" THEN [r \in Ranks |-> symm[r].rows] ELSE routed
  BY DEF Meet
<1>3. BatchTypes /\ BatchTypes'
  BY <1>1, SameLedgers DEF LedgerInv
<1>4. LedgerTypes'
  BY <1>1, <1>2 DEF LedgerInv, LedgerTypes, Ranks
<1>5. \A r \in Ranks : /\ RankHolds(r) /\ RankInPlace(r)
                       /\ Path(r, l)' = Path(r, l) /\ layer'[r] = l /\ path'[r] = path[r]
                       /\ SharedBefore(r, path[r])' = SharedBefore(r, path[r])
  BY <1>1, SameLedgers DEF LedgerInv, StackInv, SharedBefore
<1>6. Pending(l)' <=> Pending(l)
  BY <1>1, SameLedgers
<1>7. CASE c = "gather"
  <2>1. ASSUME NEW r \in Ranks PROVE RankHolds(r)'
    <3>1. pc'[r] = "mlp" /\ out'[r] = Nothing
      BY <1>1, <1>2, <1>5, <1>7 DEF RankHolds
    <3> QED BY <3>1 DEF RankHolds, Inside, Nothing
  <2> QED BY <1>3, <1>4, <2>1 DEF LedgerInv, Ranks
<1>8. CASE c = "symm"
  <2>1. ASSUME NEW r \in Ranks PROVE RankHolds(r)'
    <3>1. pc'[r] = "fill" /\ out'[r] = out[r]
      BY <1>1, <1>2, <1>8
    <3>2. path[r] = Path(r, l) /\ out[r].shared.units = SharedBefore(r, path[r])
      BY <1>1, <1>5, <1>8 DEF RankHolds, Inside
    <3> QED BY <1>1, <1>5, <3>1, <3>2 DEF RankHolds, Inside
  <2> QED BY <1>3, <1>4, <2>1 DEF LedgerInv, Ranks
<1>9. CASE c = "experts"
  <2>1. Sparse(l) /\ ~ Alone
    <3>1. Happens(l, 5)
      BY <1>1, <1>5, <1>9 DEF RankInPlace, Collectives, StageOf
    <3> QED BY <3>1 DEF Happens, Alone
  <2>2. ~ Pending(l)
    <3>1. cfg.a2a # "none" \/ cfg.allgather
      BY <1>3, <2>1, AloneIs
    <3>2. ~ cfg.fuse
      BY <1>3, <3>1 DEF BatchTypes, MoeStackAssumption
    <3>3. Scattered(l)
      BY <1>3, <2>1, AloneIs
    <3> QED BY <3>2, <3>3 DEF Pending, FusesAllReduce, UsesReduceScatter
  <2>3. ASSUME NEW r \in Ranks
        PROVE  path[r] = Path(r, l) /\ (path[r] = "mega" <=> OnMega(l)) /\ (path[r] \in SpecialPaths <=> AllToAll(l))
    <3>1. path[r] = Path(r, l)
      BY <1>1, <1>5, <1>9 DEF RankHolds, Inside
    <3> QED BY <1>1, <3>1, PathFacts
  <2>4. ASSUME NEW r \in Ranks PROVE pc'[r] = "post"
    <3>1. path[r] \in {"normal", "dual"} => cfg.allgather
      <4>1. path[r] \in {"normal", "dual"} => ~ AllToAll(l)
        BY <2>3 DEF SpecialPaths
      <4>2. ~ AllToAll(l) => cfg.a2a = "none"
        BY <1>3, <2>1 DEF AllToAll, ScaledAndSummedOnce, BatchTypes
      <4> QED BY <1>3, <2>1, <4>1, <4>2, AloneIs
    <3>2. pc'[r] = AfterExperts(path[r], l)
      BY <1>1, <1>2, <1>9
    <3> QED BY <3>1, <3>2 DEF AfterExperts
  <2>5. ASSUME NEW r \in Ranks, tok[r] > 0 PROVE LedgerOf(RoutedShare(r, Tp), l, Tp, Tp)
    <3>1. Shape(r, l) \in Nat /\ Shape(r, l) > 0
      BY <1>3, <2>5, ShapePositive
    <3>2. out[r].shared.units = SharedBefore(r, path[r])
      BY <1>1, <1>5, <1>9 DEF RankHolds
    <3>3. LedgerOf(RoutedShare(r, Tp), l, Tp, CpuUnits(r))
      BY <1>1, <1>3, <2>1, <2>3, <3>1, <3>2, RoutedIs
    <3> QED BY <1>3, <2>1, <3>3, NoCpuBehind
  <2>6. ASSUME NEW r \in Ranks PROVE RankHolds(r)'
    <3>1. tok[r] > 0 => out'[r] = RoutedShare(r, Tp)
      BY <1>2, <1>9
    <3>2. tok[r] > 0 => LedgerOf(out'[r], l, Tp, Tp)
      BY <2>5, <3>1
    <3>3. (tok[r] > 0)' => Complete(r, l)'
      BY <1>1, <3>2, SameLedgers DEF Complete
    <3>4. path[r] = "mega" => routed'[r] = 1 .. tok[r]
      <4> SUFFICES ASSUME path[r] = "mega" PROVE routed'[r] = 1 .. tok[r]
        OBVIOUS
      <4>1. path[0] = "mega"
        BY <2>3
      <4>2. symm[r].rows = 1 .. tok[r]
        BY <1>1, <1>5, <1>9 DEF RankHolds
      <4> QED BY <1>2, <1>9, <4>1, <4>2
    <3>5. pc'[r] = "post"
      BY <2>4
    <3>6. layer[r] = l
      BY <1>1
    <3> QED BY <1>1, <1>5, <1>6, <2>2, <2>3, <3>3, <3>4, <3>5, <3>6 DEF RankHolds, Inside
  <2> QED BY <1>3, <1>4, <2>6 DEF LedgerInv, Ranks
<1>10. CASE c \in {"reduce", "scatter", "fused"}
  <2>1. c = "reduce" <=> ~ Pending(l)
    <3>1. Happens(l, StageOf(c))
      BY <1>1, <1>5, <1>10 DEF RankInPlace, Collectives
    <3> QED BY <1>10, <3>1 DEF Happens, StageOf, Pending
  <2>2. \A r \in Ranks : Partial(r, l)
    BY <1>1, <1>5, <1>10, <2>1 DEF RankHolds
  <2>3. LedgerOf(Summed, l, Tp, Tp)
    BY <2>2, SumIsWhole
  <2>4. ASSUME NEW r \in Ranks PROVE RankHolds(r)'
    <3>1. out'[r] = Summed /\ pc'[r] = (IF c = "reduce" THEN "post" ELSE "take") /\ routed'[r] = routed[r]
      BY <1>2, <1>10
    <3>2. path[r] = Path(r, l) /\ (path[r] = "mega" => routed[r] = 1 .. tok[r])
      BY <1>1, <1>5, <1>10 DEF RankHolds, Inside
    <3>3. LedgerOf(out'[r], l, Tp, Tp)
      BY <2>3, <3>1
    <3>4. Complete(r, l)'
      BY <1>1, <3>3, SameLedgers DEF Complete
    <3>5. (pc'[r] = "post" /\ ~ Pending(l)') \/ pc'[r] = "take"
      BY <1>6, <1>10, <2>1, <3>1
    <3>6. layer[r] = l
      BY <1>1
    <3> QED BY <1>1, <1>5, <1>6, <3>1, <3>2, <3>4, <3>5, <3>6 DEF RankHolds, Inside
  <2> QED BY <1>3, <1>4, <2>4 DEF LedgerInv, Ranks
<1> QED BY <1>1, <1>7, <1>8, <1>9, <1>10

LEMMA BatchHas ==
    ASSUME MoeStackAssumption, NEW c, NEW b \in Batches(c)
    PROVE  /\ b \in [Ranks -> Nat] /\ \E a \in Ranks : b[a] > 0
           /\ ~ c.dp => \A r, s \in Ranks : b[r] = b[s]
<1> USE RankZeroOfStack
<1>1. TokenCounts \subseteq Nat
  BY DEF MoeStackAssumption
<1>2. CASE \E n \in TokenCounts \ {0} : b = [r \in Ranks |-> n]
  <2>1. PICK n \in TokenCounts \ {0} : b = [r \in Ranks |-> n]
    BY <1>2
  <2>2. n \in Nat /\ n > 0 /\ \A r \in Ranks : b[r] = n
    BY <1>1, <2>1
  <2> QED BY <2>1, <2>2
<1>3. CASE c.dp /\ b \in [Ranks -> TokenCounts] /\ \E r \in Ranks : b[r] > 0
  BY <1>1, <1>3
<1> QED BY <1>2, <1>3 DEF Batches

LEMMA LedgerNextPass == ASSUME MoeStackAssumption, StackInv, LedgerInv, NextPass PROVE LedgerInv'
<1>1. /\ \A r \in Ranks : pc[r] = "end" /\ pc'[r] = "attn"
      /\ tok' \in Batches(cfg) /\ UNCHANGED <<cfg, out, routed>>
  BY DEF NextPass, At
<1>2. BatchTypes'
  BY <1>1, BatchHas DEF LedgerInv, BatchTypes, Ranks
<1>3. LedgerTypes'
  BY <1>1 DEF LedgerInv, LedgerTypes, Ranks
<1>4. ASSUME NEW r \in Ranks PROVE RankHolds(r)'
  <2>1. out[r] = Nothing
    BY <1>1 DEF LedgerInv, RankHolds
  <2> QED BY <1>1, <2>1 DEF RankHolds, Inside, Nothing
<1> QED BY <1>2, <1>3, <1>4 DEF LedgerInv, Ranks

LEMMA LedgerStarts == ASSUME MoeStackAssumption, Init PROVE LedgerInv
<1>1. /\ cfg \in Configs /\ tok \in Batches(cfg) /\ pc = [r \in Ranks |-> "attn"]
      /\ out = [r \in Ranks |-> Nothing] /\ routed = [r \in Ranks |-> {}]
  BY DEF Init
<1>2. BatchTypes /\ LedgerTypes
  BY <1>1, BatchHas DEF BatchTypes, LedgerTypes
<1>3. \A r \in Ranks : RankHolds(r)
  BY <1>1 DEF RankHolds, Inside
<1> QED BY <1>2, <1>3 DEF LedgerInv

LEMMA LedgerStep ==
    ASSUME MoeStackAssumption, ScaledAndSummedOnce, StackInv, LedgerInv, Next \/ UNCHANGED vars
    PROVE  LedgerInv'
<1>1. CASE UNCHANGED vars
  <2>1. UNCHANGED <<cfg, tok, pass, layer, pc, path, out, symm, routed>>
    BY <1>1 DEF vars
  <2>2. BatchTypes' /\ LedgerTypes'
    BY <2>1, SameLedgers DEF LedgerInv, LedgerTypes, Ranks
  <2>3. \A r \in Ranks : RankHolds(r)'
    BY <2>1, OthersHold DEF LedgerInv
  <2> QED BY <2>2, <2>3 DEF LedgerInv, Ranks
<1>2. CASE Stop
  <2>1. UNCHANGED vars
    BY <1>2 DEF Stop, vars
  <2> QED BY <1>1, <2>1
<1>3. CASE Meet \/ NextPass
  BY <1>3, LedgerMeets, LedgerNextPass
<1>4. CASE \E r \in Ranks :
             \/ Attend(r) \/ EnterDense(r) \/ EnterNormal(r) \/ EnterDual(r)
             \/ EnterDeepep(r) \/ EnterOps(r) \/ EnterMega(r)
             \/ FillBuffer(r) \/ Dense(r) \/ LocalExperts(r) \/ Postprocess(r) \/ Take(r)
  BY <1>4, LedgerAttends, LedgerEnters, LedgerFills, LedgerDense, LedgerLocal, LedgerPostprocess, LedgerTakes
<1> QED BY <1>1, <1>2, <1>3, <1>4 DEF Next

LEMMA LedgersAreWhole == ASSUME LedgerInv PROVE ContributionsOnce /\ OnlyThisPassRouted
<1>1. ASSUME NEW r \in Ranks, pc[r] = "take", tok[r] > 0 PROVE out[r] = WholeOutput(layer[r])
  BY <1>1, WholeIs DEF LedgerInv, RankHolds, Complete
<1>2. ASSUME NEW r \in Ranks, pc[r] = "take", path[r] = "mega" PROVE routed[r] = 1 .. tok[r]
  BY <1>2 DEF LedgerInv, RankHolds
<1> QED BY <1>1, <1>2 DEF ContributionsOnce, OnlyThisPassRouted, At
=============================================================================
