------------------------------ MODULE ReqPool ------------------------------
(* ReqToTokenPool, MambaPool and HybridReqToTokenPool: the row every running  *)
(* request has in the request table, and the linear-attention states it holds *)
(* (one of its own and, with the extra buffer, one or two that track it for   *)
(* the prefix cache).  A free list is kept as the number of times a slot is   *)
(* in it, so that a slot freed twice shows.  A batch is allocated request by  *)
(* request; which free slot is taken does not matter, and the lowest is.      *)
EXTENDS Naturals, FiniteSets

CONSTANTS
    Reqs,               \* the requests
    Rows, States,       \* the sizes of the two pools
    PairSize,           \* tracking states per request: 0, 1 (speculative) or 2
    Radix               \* finished requests leave their state to the prefix cache

PoolAssumption == /\ Rows \in Nat /\ States \in Nat /\ PairSize \in 0 .. 2
                         /\ Radix \in BOOLEAN
                         /\ Rows * (1 + PairSize) <= States

none == 0
Row == 1 .. Rows
State == 1 .. States        \* slot 0 is the padding

VARIABLES
    freeRows, freeStates,   \* per slot, how often it is in the free list
    phase,                  \* per request: "waiting", "running" or "done"
    row, state, pair,       \* per request: req_pool_idx, mamba_pool_idx, mamba_ping_pong_track_buffer
    rowState, rowPair,      \* per row: what the attention kernels look up
    cached,                 \* the states the prefix cache owns
    asserted                \* an allocation failed an assertion

vars == <<freeRows, freeStates, phase, row, state, pair, rowState, rowPair, cached, asserted>>

Init ==
    /\ freeRows = [i \in Row |-> 1] /\ freeStates = [i \in State |-> 1]
    /\ phase = [r \in Reqs |-> "waiting"]
    /\ row = [r \in Reqs |-> none] /\ state = [r \in Reqs |-> none] /\ pair = [r \in Reqs |-> {}]
    /\ rowState = [i \in Row |-> none] /\ rowPair = [i \in Row |-> {}]
    /\ cached = {} /\ asserted = FALSE

Listed(free) == {i \in DOMAIN free : free[i] > 0}
Taken(free, S) == [i \in DOMAIN free |-> IF i \in S THEN free[i] - 1 ELSE free[i]]
Given(free, S) == [i \in DOMAIN free |-> IF i \in S THEN free[i] + 1 ELSE free[i]]
Lowest(S) == CHOOSE i \in S : \A j \in S : i <= j
LowestOf(S, n) == {i \in S : Cardinality({j \in S : j < i}) < n}

\* fork_from: a prefix hit gives a waiting request a copy of a cached state before it has a row.
Fork(r) ==
    /\ phase[r] = "waiting" /\ state[r] = none /\ cached # {} /\ Listed(freeStates) # {}
    /\ LET s == Lowest(Listed(freeStates))
       IN  /\ state' = [state EXCEPT ![r] = s]
           /\ freeStates' = Taken(freeStates, {s})
    /\ UNCHANGED <<freeRows, phase, row, pair, rowState, rowPair, cached, asserted>>

\* The states an allocation takes: its own unless a prefix hit gave one, and the tracking pair
\* unless the request has one.
Needs(r) == (IF state[r] = none THEN 1 ELSE 0) + (IF pair[r] = {} THEN PairSize ELSE 0)

\* The row's entry for the state, taken now or brought along.
Entered(r, i, s) == [rowState EXCEPT ![i] = s]

\* alloc for one request of a batch.  No row: the batch is not formed.  No state: an assertion.
Alloc(r) ==
    /\ phase[r] = "waiting" /\ Listed(freeRows) # {}
    /\ Cardinality(Listed(freeStates)) < Needs(r) => cached = {}
    /\ IF Cardinality(Listed(freeStates)) < Needs(r)
       THEN /\ asserted' = TRUE
            /\ UNCHANGED <<freeRows, freeStates, phase, row, state, pair, rowState, rowPair, cached>>
       ELSE LET i    == Lowest(Listed(freeRows))
                mine == IF state[r] = none THEN {Lowest(Listed(freeStates))} ELSE {}
                two  == IF pair[r] = {} THEN LowestOf(Listed(freeStates) \ mine, PairSize) ELSE {}
                s    == IF mine = {} THEN state[r] ELSE Lowest(mine)
                p    == pair[r] \cup two
            IN  /\ freeRows' = Taken(freeRows, {i})
                /\ freeStates' = Taken(freeStates, mine \cup two)
                /\ phase' = [phase EXCEPT ![r] = "running"]
                /\ row' = [row EXCEPT ![r] = i]
                /\ state' = [state EXCEPT ![r] = s]
                /\ pair' = [pair EXCEPT ![r] = p]
                /\ rowState' = Entered(r, i, s)
                /\ rowPair' = [rowPair EXCEPT ![i] = p]
                /\ UNCHANGED <<cached, asserted>>

\* What free_mamba_cache returns to the pool: the state, and the pair the row's entry
\* names but for the one to keep.
Freed(r, kept) == {state[r]} \cup (rowPair[row[r]] \ kept)

\* A finished request.  The prefix cache takes a tracking state, or the request's own when
\* there is none to take, and the rest is freed before the row is.
Finish(r) ==
    /\ phase[r] = "running"
    /\ \E kept \in IF ~Radix THEN {{}}
                   ELSE {{}} \cup (IF PairSize = 0 THEN {{state[r]}} ELSE {{p} : p \in rowPair[row[r]]}) :
         /\ freeStates' = Given(freeStates, Freed(r, kept) \ (kept \cap {state[r]}))
         /\ cached' = cached \cup kept
    /\ freeRows' = Given(freeRows, {row[r]})
    /\ phase' = [phase EXCEPT ![r] = "done"]
    /\ row' = [row EXCEPT ![r] = none]
    /\ state' = [state EXCEPT ![r] = none]
    /\ UNCHANGED <<pair, rowState, rowPair, asserted>>

\* A retracted request gives everything back, and reset_for_retract clears its fields: freeing
\* alone would leave the tracking pair in them.
Retract(r) ==
    /\ phase[r] = "running"
    /\ freeStates' = Given(freeStates, Freed(r, {}))
    /\ freeRows' = Given(freeRows, {row[r]})
    /\ phase' = [phase EXCEPT ![r] = "waiting"]
    /\ row' = [row EXCEPT ![r] = none]
    /\ state' = [state EXCEPT ![r] = none]
    /\ pair' = [pair EXCEPT ![r] = {}]
    /\ UNCHANGED <<rowState, rowPair, cached, asserted>>

\* A queued request that is aborted gives back the state a prefix hit gave it.
AbortQueued(r) ==
    /\ phase[r] = "waiting"
    /\ freeStates' = Given(freeStates, {state[r]})
    /\ phase' = [phase EXCEPT ![r] = "done"]
    /\ state' = [state EXCEPT ![r] = none]
    /\ UNCHANGED <<freeRows, row, pair, rowState, rowPair, cached, asserted>>

\* The prefix cache gives states back.
Evict == \E s \in cached :
    /\ freeStates' = Given(freeStates, {s})
    /\ cached' = cached \ {s}
    /\ UNCHANGED <<freeRows, phase, row, state, pair, rowState, rowPair, asserted>>

\* A flush, which needs an idle engine.  The cache forgets its states and the pools are reset.
Clear ==
    /\ \A r \in Reqs : phase[r] # "running" /\ state[r] = none
    /\ freeRows' = [i \in Row |-> 1] /\ freeStates' = [i \in State |-> 1]
    /\ rowState' = [i \in Row |-> none] /\ rowPair' = [i \in Row |-> {}]
    /\ cached' = {}
    /\ UNCHANGED <<phase, row, state, pair, asserted>>

\* A request whose answer was sent is followed by another.
Again(r) ==
    /\ phase[r] = "done"
    /\ phase' = [phase EXCEPT ![r] = "waiting"]
    /\ pair' = [pair EXCEPT ![r] = {}]
    /\ UNCHANGED <<freeRows, freeStates, row, state, rowState, rowPair, cached, asserted>>

Next == \/ Evict \/ Clear
        \/ \E r \in Reqs : \/ Fork(r) \/ Alloc(r) \/ Finish(r) \/ Retract(r)
                           \/ AbortQueued(r) \/ Again(r)

Spec == Init /\ [][Next]_vars

\* Safety: a row is in the free list once or belongs to one running request.
RowsOnce == \A i \in Row :
    freeRows[i] + Cardinality({r \in Reqs : row[r] = i}) = 1

\* Safety: a state is in the free list once, or is the state of one request, or tracks one
\* running request, or is the prefix cache's: never lost, never in two hands.
StatesOnce == \A s \in State :
    freeStates[s] + Cardinality({r \in Reqs : state[r] = s})
        + Cardinality({r \in Reqs : phase[r] = "running" /\ s \in pair[r]})
        + (IF s \in cached THEN 1 ELSE 0) = 1

\* Safety: what the kernels look up by row is what the running request holds.
MapsCurrent == \A r \in Reqs : phase[r] = "running" =>
    /\ row[r] # none /\ rowState[row[r]] = state[r]
    /\ rowPair[row[r]] = pair[r] /\ Cardinality(pair[r]) = PairSize

\* Safety: with as many states as KvPlan plans no allocation runs into its assertion, whatever
\* was retracted, cached or aborted before.  A prefix hit that waits for a row holds a state
\* beyond the plan, so this is about an engine without the prefix cache.
NeverAsserts == ~asserted
=============================================================================
