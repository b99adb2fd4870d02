----------------------------- MODULE Lookahead -----------------------------
(* The lookahead predictor inside a forward pass (deepseek_v2.py): each MoE    *)
(* layer scores the prediction that an earlier layer left in its inbox, then   *)
(* predicts for the layers n ahead and fires the fetch for one depth; the      *)
(* fused predictor, whose layers share one product with a successor's gate or  *)
(* run that gate beside their own.  A prediction is represented by the pass it *)
(* was made in and its rows.                                                   *)
EXTENDS Naturals, FiniteSets

CONSTANTS
    NL, FirstMoe,     \* decoder layers; the first one with experts
    Setups,           \* records of the KT_PRED_* settings
    TMax,             \* _KT_PRED_TMAX
    TokenCounts,      \* rows of a pass
    MaxPasses,        \* bound: passes of a behaviour
    None

Layer == 0 .. NL - 1
Moe == FirstMoe .. NL - 1

LookaheadAssumption ==
    /\ {NL, FirstMoe, TMax, MaxPasses} \subseteq Nat /\ TokenCounts \subseteq Nat \ {0}
    /\ \A s \in Setups :
         /\ s.depths \subseteq Nat /\ s.point \in {"pre", "post"} /\ s.score \in BOOLEAN
         /\ s.hash \subseteq Layer /\ s.blind \subseteq Layer
         /\ {s.fetch, s.reach, s.stride} \subseteq Nat \ {0} /\ {s.fused, s.stack} \subseteq BOOLEAN
         /\ s.fused => s.point = "pre"

VARIABLES
    setup,
    pass, rows,       \* the pass and its tokens
    at,               \* the layer that runs next; NL between passes
    inbox,            \* _kt_pred_inbox of each layer and depth
    scored,           \* what the layer that ran last has scored
    next,             \* _kt_fused_next
    linked,           \* layers with _kt_fused_linked, or linked by the stack
    fetches           \* layers a fetch of this pass was issued for that have not joined it

vars == <<setup, pass, rows, at, inbox, scored, next, linked, fetches>>

\* _kt_fuse_gates: a layer shares its product with the layer behind it.
Stacked(s, l) == IF l % s.stride = 0 /\ l + 1 \in Moe THEN l + 1 ELSE None

\* The link a layer without a stacked gate makes on its first small forward.
Linked(s, l) == IF l % s.stride = 0 /\ l + s.reach \in Moe THEN l + s.reach ELSE None

\* Buffers and registry are filled when the modules are built, the stack when the weights are loaded.
Init ==
    /\ setup \in Setups
    /\ pass = 0 /\ rows = 1 /\ at = NL
    /\ inbox = [l \in Moe |-> [n \in setup.depths |-> None]]
    /\ scored = {} /\ fetches = {}
    /\ next = [l \in Moe |-> IF setup.fused /\ setup.stack THEN Stacked(setup, l) ELSE None]
    /\ linked = {}

Begin ==
    /\ at = NL /\ pass < MaxPasses
    /\ rows' \in TokenCounts /\ pass' = pass + 1 /\ at' = 0 /\ scored' = {}
    /\ UNCHANGED <<setup, inbox, next, linked, fetches>>

\* _kt_pred_emit from layer l: the targets it predicts for, with their depths.
Targets(l) == {n \in setup.depths \ {0} : l + n \in Moe /\ l + n \notin setup.hash}

Filled(l) ==
    [t \in Moe |-> [n \in setup.depths |->
        IF n \in Targets(l) /\ t = l + n THEN [pass |-> pass, rows |-> rows] ELSE inbox[t][n]]]
Issued(l) == {l + n : n \in Targets(l) \cap {setup.fetch}}

\* _kt_pred_measure emits at the pre point, whether or not the layer was scored.
PreEmits(l) == setup.point = "pre" /\ l \in Moe

\* _kt_pred_post_hook: the decoder layer, with experts or without, emits behind itself.
PostEmits(l) == setup.point = "post"

\* _kt_pred_measure: what the layer reads from its inbox.
Measured(l) ==
    IF setup.score /\ l \in Moe \ setup.blind
    THEN {[layer |-> l, depth |-> n, inbox |-> inbox[l][n]] : n \in setup.depths \ {0}} ELSE {}

\* The fused predictor of forward_normal: the link is made once, and the fetch goes to the linked layer.
FusedLink(l) == IF setup.fused /\ next[l] = None /\ l \notin linked THEN Linked(setup, l) ELSE next[l]

\* Layer `at` of a pass with few enough tokens.
SmallLayer ==
    /\ at < NL /\ rows <= TMax
    /\ LET l == at
           link == IF l \in Moe THEN FusedLink(l) ELSE None
           emits == PreEmits(l) \/ PostEmits(l)
       IN  /\ scored' = Measured(l)
           /\ inbox' = IF emits THEN Filled(l) ELSE inbox
           /\ next' = IF l \in Moe THEN [next EXCEPT ![l] = link] ELSE next
           /\ linked' = IF setup.fused /\ l \in Moe THEN linked \cup {l} ELSE linked
           /\ fetches' = ((IF emits THEN Issued(l) ELSE {}) \cup (IF link # None THEN {link} ELSE {}) \cup fetches) \ {l}
    /\ at' = at + 1
    /\ UNCHANGED <<setup, pass, rows>>

\* A larger pass neither scores nor predicts; a layer still joins a fetch for it.
LargeLayer ==
    /\ at < NL /\ rows > TMax
    /\ fetches' = fetches \ {at}
    /\ scored' = {} /\ at' = at + 1
    /\ UNCHANGED <<setup, pass, rows, inbox, next, linked>>

\* A pass of the NEXTN draft: its single layer has layer id 0, and predicts nothing.
DraftPass ==
    /\ at = NL /\ pass > 0 /\ pass < MaxPasses
    /\ pass' = pass + 1 /\ scored' = {}
    /\ UNCHANGED <<setup, rows, at, inbox, next, linked, fetches>>

Next == Begin \/ SmallLayer \/ LargeLayer \/ DraftPass
Spec == Init /\ [][Next]_vars

TypeOK ==
    /\ setup \in Setups /\ pass \in 0 .. MaxPasses /\ rows \in TokenCounts \cup {1} /\ at \in 0 .. NL
    /\ \A l \in Moe : next[l] \in Moe \cup {None}
    /\ linked \subseteq Moe /\ fetches \subseteq Moe

\* The layer n before l makes predictions for it.
Sourced(l, n) ==
    /\ l \notin setup.hash
    /\ l - n \in IF setup.point = "pre" THEN Moe ELSE Layer

\* A score of a layer that an earlier layer predicts for is about a prediction of this very pass and of all
\* its tokens: layers that cannot be scored, draft passes and passes with too many tokens break no chain.
SourcedThisPass ==
    \A s \in scored : s.layer >= s.depth /\ Sourced(s.layer, s.depth) =>
        s.inbox = [pass |-> pass, rows |-> rows]

\* Every fetch issued in a pass is joined by its layer in that pass: nothing is outstanding on the side
\* stream when a capture ends, whatever mix of depths, points, strides and draft passes.
FetchesJoined == at = NL => fetches = {}

\* The stacked path and the unstacked one predict from the same layers, for the same targets.
SameSites == \A l \in linked : next[l] = Linked(setup, l)

=============================================================================
