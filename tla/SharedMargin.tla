---------------------------- MODULE SharedMargin ----------------------------
(***************************************************************************)
(* The margin controller of the adaptive cache as all layers share it      *)
(* (KT_ADAPTIVE_AUTO): one margin and one smoothed coverage for the        *)
(* process, updated by each layer's tick in turn and applied to that       *)
(* layer's selection.                                                      *)
(*                                                                         *)
(* The smoothed coverage is kept in thousandths.  The margins form a       *)
(* ladder between the clamps.  Demand is fixed during a behaviour.         *)
(***************************************************************************)
EXTENDS PairSwap, Sequences

CONSTANTS
    MinEvents,        \* KT_ADAPTIVE_MIN_EVENTS
    MinGain,          \* KT_ADAPTIVE_MIN_GAIN, a share of the total mass
    NLayers,          \* layers of the registry
    Demands,          \* the demands the layers may have: functions from layers to counters
    NGpu,             \* num_gpu_experts
    Starts,           \* the resident sets the layers may start with
    Margins,          \* the ladder of margins, ascending
    BaseLevel,        \* position of KT_ADAPTIVE_MARGIN
    CovLow, CovHigh,  \* KT_ADAPTIVE_COV_LO and _HI, in thousandths
    Alpha,            \* KT_ADAPTIVE_COV_EMA, in tenths
    MaxSwap,          \* KT_ADAPTIVE_MAX_SWAP
    None

Layer == 1 .. NLayers

SharedMarginAssumption ==
    /\ {MinEvents, NLayers, NGpu, MaxSwap, CovLow, CovHigh} \subseteq Nat /\ NLayers > 0
    /\ MinGain \in Ratio
    /\ Alpha \in 0 .. 10 /\ CovLow < CovHigh
    /\ Margins \in Seq(Ratio) /\ BaseLevel \in 1 .. Len(Margins)
    /\ \A d \in Demands : DOMAIN d = Layer
    /\ Starts \subseteq [Layer -> kSubset(NGpu, Expert)]

VARIABLES
    counts,   \* counts[l]: the demand counters of layer l
    gpu,      \* gpu[l]: its resident set
    level,    \* position of the one margin on the ladder
    ema,      \* cov_ema, None before the first tick
    ptr       \* _KT_ADAPTIVE_PTR: the layer that ticks next

vars == <<counts, gpu, level, ema, ptr>>

Init ==
    /\ counts \in Demands
    /\ gpu \in Starts
    /\ level = BaseLevel /\ ema = None /\ ptr = 1

Coverage(l) == (1000 * Mass(counts[l], gpu[l])) \div Total(counts[l])

Smoothed(l) ==
    IF ema = None THEN Coverage(l) ELSE ((10 - Alpha) * ema + Alpha * Coverage(l)) \div 10

(* Faulty variant: no band in which the margin is held.                    *)
ControlledNoBand(c) ==
    IF c > CovLow THEN Min({level + 1, Len(Margins)}) ELSE Max({level - 1, 1})

(* _kt_adaptive_margin_ctl: up when well cached, down when under cached,   *)
(* clamped, and held inside the band.                                      *)
Controlled(c) ==
    IF c >= CovHigh THEN Min({level + 1, Len(Margins)})
    ELSE IF c <= CovLow THEN Max({level - 1, 1}) ELSE level

Warm(l) == Total(counts[l]) > 0 /\ Total(counts[l]) >= MinEvents

(* The tick of the layer the pointer is at.                                *)
Tick ==
    /\ IF Warm(ptr)
       THEN /\ ema' = Smoothed(ptr)
            /\ level' = Controlled(ema')
            /\ \E S \in SwapIn(counts[ptr], gpu[ptr], Expert \ gpu[ptr], MaxSwap, Margins[level'], MinGain) :
                  gpu' = [gpu EXCEPT ![ptr] = S]
       ELSE UNCHANGED <<gpu, level, ema>>
    /\ ptr' = IF ptr = NLayers THEN 1 ELSE ptr + 1
    /\ UNCHANGED counts

Next == Tick

(* The decode loop ticks as long as there is traffic.                      *)
Spec == Init /\ [][Next]_vars /\ WF_vars(Tick)

----------------------------------------------------------------------------

(* On stable demand no layer swaps for ever, whatever the margin does: a   *)
(* swap raises what the layer's GPU experts serve.                         *)
SetsSettle == <>[][UNCHANGED gpu]_vars

(* "Multiplicative up / down with clamps, so it settles instead of         *)
(* ringing": on stable demand the margin comes to rest.                    *)
MarginSettles == <>[][UNCHANGED level]_vars

(* The registry is mixed: one layer is well cached and another one under   *)
(* cached.  The one smoothed coverage may then cross the whole band in     *)
(* every sweep, and the margin with it.                                    *)
Mixed ==
    \E l, m \in Layer :
        /\ Warm(l) /\ Warm(m)
        /\ Coverage(l) >= CovHigh /\ Coverage(m) <= CovLow

(* The margin comes to rest if the layers end up alike, none of them well  *)
(* cached while another one is under cached.                               *)
AlikeSettles == <>[]~Mixed => MarginSettles

(* When every layer stays under cached, each of them ends up with no pair  *)
(* that passes the lowest margin: sharing the margin does not keep the     *)
(* cache from chasing.                                                     *)
UnderCached(l) == Warm(l) /\ Coverage(l) < CovLow
AllChase ==
    <>[](\A l \in Layer : UnderCached(l)) =>
        <>[](\A l \in Layer : \A p \in (Expert \ gpu[l]) \X gpu[l] :
                ~Wins(counts[l], p[1], p[2], Margins[1], MinGain))
=============================================================================
