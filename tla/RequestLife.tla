---------------------------- MODULE RequestLife ----------------------------
(* What the scheduler promises to the client of a request, whatever batches, *)
(* retractions, preemptions, pauses and aborts happen behind it: the request *)
(* is received once, its tokens come one at a time and never more than it    *)
(* asked for, it gets one final answer, and nothing comes after that answer. *)
EXTENDS Naturals

CONSTANTS
    Reqs,
    Limit      \* Limit[r], the number of tokens r asks for

VARIABLES
    phase,     \* "new", "pending" or "answered"
    tokens     \* tokens generated so far

life == <<phase, tokens>>

Init ==
    /\ phase = [r \in Reqs |-> "new"]
    /\ tokens = [r \in Reqs |-> 0]

\* What may happen to one request in one step of the engine.
Receive(r) ==
    /\ phase[r] = "new" /\ phase'[r] \in {"pending", "answered"}
    /\ tokens'[r] = tokens[r]
Produce(r) ==
    /\ phase[r] = "pending" /\ phase'[r] \in {"pending", "answered"}
    /\ tokens'[r] = tokens[r] + 1
    /\ tokens'[r] <= Limit[r] \/ tokens'[r] = 1
Abort(r) ==
    /\ phase[r] = "pending" /\ phase'[r] = "answered"
    /\ tokens'[r] = tokens[r]
Rest(r) ==
    phase'[r] = phase[r] /\ tokens'[r] = tokens[r]

\* One step of the engine may concern many requests.
Next ==
    /\ phase' \in [Reqs -> {"new", "pending", "answered"}]
    /\ \A r \in Reqs : Receive(r) \/ Produce(r) \/ Abort(r) \/ Rest(r)

Spec == Init /\ [][Next]_life
=============================================================================
