------------------------------ MODULE RankBoot ------------------------------
(* Start of the scheduler processes: every rank builds its ModelRunner step by *)
(* step, some steps alone and some together with all ranks, and tells the      *)
(* parent of its node when it is ready.  A rank whose step raises signals that *)
(* parent, which takes down the node.                                          *)
EXTENDS Naturals, FiniteSets

CONSTANTS
    Ranks, Nodes,
    Setups,             \* the starts considered: the node of each rank, local steps in which one may fail
    Autotune,           \* a MoE runner that is tuned before capture
    Graphs,             \* graphs each rank captures, together with the others
    CheckBalance        \* SGLANG_ENABLE_TP_MEMORY_INBALANCE_CHECK

VARIABLES
    conf,               \* one of Setups
    step,               \* per rank: the step it is in, "serving" or "dead"
    arrived,            \* per rank: it waits in the collective of its step
    loaded,             \* ranks whose weights are complete
    captured,           \* per rank: graphs captured
    signalled           \* nodes whose parent got SIGQUIT

vars == <<conf, step, arrived, loaded, captured, signalled>>

Local == {"device", "load", "config", "backend", "check"}
Collective == {"rendezvous", "memory", "barrier", "pool", "warmup", "capture"}

BootAssumption ==
    /\ Setups \subseteq [node : [Ranks -> Nodes], fails : SUBSET Local]
    /\ Graphs \in Nat /\ CheckBalance \in BOOLEAN

\* What ends by itself when a rank is missing: the group's and the barrier's timeouts.
Timed == {"rendezvous", "memory", "barrier", "pool"}

Follows == [device |-> "rendezvous", rendezvous |-> "memory", memory |-> "load", load |-> "barrier",
            barrier |-> "config", config |-> "pool", pool |-> "backend",
            backend |-> IF Autotune THEN "warmup" ELSE IF Graphs > 0 THEN "capture" ELSE "check",
            warmup |-> IF Graphs > 0 THEN "capture" ELSE "check", capture |-> "check", check |-> "serving"]

Init ==
    /\ conf \in Setups
    /\ step = [r \in Ranks |-> "device"] /\ arrived = [r \in Ranks |-> FALSE]
    /\ loaded = {} /\ captured = [r \in Ranks |-> 0] /\ signalled = {}

\* A step of the rank's own: the device, the weights, what follows from them, backends, checks.
LocalStep(r) ==
    /\ step[r] \in Local
    /\ step' = [step EXCEPT ![r] = Follows[step[r]]]
    /\ loaded' = IF step[r] = "load" THEN loaded \cup {r} ELSE loaded
    /\ UNCHANGED <<conf, arrived, captured, signalled>>

\* The handler of run_scheduler_process: the parent gets SIGQUIT, the process ends.
Raise(r) ==
    /\ step' = [step EXCEPT ![r] = "dead"]
    /\ signalled' = signalled \cup {conf.node[r]}
    /\ UNCHANGED <<conf, arrived, loaded, captured>>

\* A failed load that is noted and left at that.
LocalFailsOn(r) ==
    \/ step[r] \in conf.fails \ {"load"} /\ Raise(r)
    \/ /\ step[r] = "load" /\ "load" \in conf.fails
       /\ step' = [step EXCEPT ![r] = "barrier"]
       /\ UNCHANGED <<conf, arrived, loaded, captured, signalled>>

LocalFails(r) == step[r] \in conf.fails /\ Raise(r)

\* Entering a collective.
Arrive(r) ==
    /\ step[r] \in Collective /\ ~ arrived[r]
    /\ arrived' = [arrived EXCEPT ![r] = TRUE]
    /\ UNCHANGED <<conf, step, loaded, captured, signalled>>

\* A collective of step s ends for all at once.
Meet(s) ==
    /\ s \in Collective \ {"capture", "memory"}
    /\ \A r \in Ranks : step[r] = s /\ arrived[r]
    /\ step' = [r \in Ranks |-> Follows[s]]
    /\ arrived' = [r \in Ranks |-> FALSE]
    /\ UNCHANGED <<conf, loaded, captured, signalled>>

\* The least memory of all ranks; those that have far more of it raise, the least never does.
CompareMemory(over) ==
    /\ \A r \in Ranks : step[r] = "memory" /\ arrived[r]
    /\ over # Ranks /\ (~ CheckBalance => over = {})
    /\ step' = [r \in Ranks |-> IF r \in over THEN "dead" ELSE "load"]
    /\ signalled' = signalled \cup {conf.node[r] : r \in over}
    /\ arrived' = [r \in Ranks |-> FALSE]
    /\ UNCHANGED <<conf, loaded, captured>>

\* Capturing a graph runs the model, collectives included: all ranks capture the same sizes in
\* the same order.
CaptureGraph ==
    /\ \A r \in Ranks : step[r] = "capture" /\ arrived[r]
    /\ captured' = [r \in Ranks |-> captured[r] + 1]
    /\ step' = [r \in Ranks |-> IF captured'[r] = Graphs THEN "check" ELSE "capture"]
    /\ arrived' = [r \in Ranks |-> FALSE]
    /\ UNCHANGED <<conf, loaded, signalled>>

\* Waiting with no end.
NoTimeout(r) == FALSE /\ Raise(r)

\* A rank that waits where another will not come gives up after the timeout of the group, or of
\* the monitored barrier after loading.
Timeout(r) ==
    /\ step[r] \in Timed /\ arrived[r]
    /\ \E q \in Ranks : step[q] = "dead"
    /\ Raise(r)

\* A slow rank is a missing one to a barrier that has waited long enough.
TooSlow(r) ==
    /\ step[r] = "barrier" /\ arrived[r]
    /\ \E q \in Ranks : step[q] \in {"load", "barrier"} /\ ~ arrived[q]
    /\ Raise(r)

\* The parent takes down its node.
TakeDown(n) ==
    /\ n \in signalled
    /\ \E r \in Ranks : conf.node[r] = n /\ step[r] # "dead"
    /\ step' = [r \in Ranks |-> IF conf.node[r] = n THEN "dead" ELSE step[r]]
    /\ UNCHANGED <<conf, arrived, loaded, captured, signalled>>

\* What a rank does by itself, and what all do at once.
Own(r) == LocalStep(r) \/ Arrive(r) \/ Timeout(r)
Together == (\E s \in Collective : Meet(s)) \/ (\E over \in SUBSET Ranks : CompareMemory(over)) \/ CaptureGraph

Next == Together \/ (\E r \in Ranks : Own(r) \/ LocalFails(r) \/ TooSlow(r)) \/ \E n \in Nodes : TakeDown(n)

Fairness == /\ \A r \in Ranks : WF_vars(Own(r))
            /\ WF_vars(Together)
            /\ \A n \in Nodes : WF_vars(TakeDown(n))

Spec == Init /\ [][Next]_vars /\ Fairness

-----------------------------------------------------------------------------

\* What a start must come to (<>[]Ended), whatever fails on whichever rank and however the others
\* are held up: all ranks serve or none is left, none waits for ever for one that is gone.
Ended == \/ \A r \in Ranks : step[r] = "serving"
         \/ \A r \in Ranks : step[r] = "dead"

\* Safety: a rank that reports ready, or even sizes its cache, knows that every rank has its
\* weights.
ReadyMeansLoaded == \A r \in Ranks :
    step[r] \in {"config", "pool", "backend", "warmup", "capture", "check", "serving"} => loaded = Ranks
=============================================================================
