----------------------------- MODULE Prefetcher -----------------------------
(***************************************************************************)
(* _KtExpertPrefetcher: a background thread reads promotion candidates off *)
(* disk while the forward thread generates.  Two threads share the ready   *)
(* map, the inflight set and a queue; every critical section of the lock   *)
(* is one step, and so is the queue.put that request does after releasing  *)
(* it.  The forward thread is the lookahead of the tier tick or the energy *)
(* tick, which prunes and then requests, and the move, which takes.        *)
(*                                                                         *)
(* A key is a (layer, expert) pair.  The weights a key maps to are the     *)
(* ones read for that key, so the ready map is the set of its keys.        *)
(***************************************************************************)
EXTENDS Naturals, Sequences, FiniteSets

CONSTANTS
    Key,          \* (layer_idx, expert_id) pairs
    MaxReady,     \* KT_ENERGY_PREFETCH_DEPTH / KT_TIER_PREFETCH_DEPTH
    MaxFailures,  \* bound on the reads that fail
    MaxTakes,     \* bound on the weights the tick consumes
    NoKey          \* no key

ASSUME PrefetcherAssumption ==
    /\ {MaxReady, MaxFailures, MaxTakes} \subseteq Nat
    /\ NoKey \notin Key
    /\ IsFiniteSet(Key)

VARIABLES
    ready,      \* keys of _ready
    inflight,   \* _inflight
    queue,      \* _q
    job,        \* the key the worker holds, or NoKey
    stage,      \* where the worker is with it
    want,       \* the last candidate list of the lookahead
    todo,       \* candidates the lookahead has still to request
    pending,    \* key admitted by request and not yet put into the queue
    failures,   \* failed reads so far
    takes       \* consumed weights so far

threadVars == <<job, stage>>
callerVars == <<want, todo, pending>>
boundVars == <<failures, takes>>
prefetchVars == <<ready, inflight, queue, threadVars, callerVars, boundVars>>

PrefetchTypeOK ==
    /\ ready \subseteq Key
    /\ inflight \subseteq Key
    /\ queue \in Seq(Key)
    /\ job \in Key \cup {NoKey}
    /\ stage \in {"idle", "read", "publish", "finish"}
    /\ want \subseteq Key
    /\ todo \subseteq Key
    /\ pending \in Key \cup {NoKey}
    /\ failures \in 0 .. MaxFailures
    /\ takes \in 0 .. MaxTakes

----------------------------------------------------------------------------

PrefetchInit ==
    /\ ready = {} /\ inflight = {} /\ queue = << >>
    /\ job = NoKey /\ stage = "idle"
    /\ want = {} /\ todo = {} /\ pending = NoKey
    /\ failures = 0 /\ takes = 0

(* The forward thread is between two lookaheads.                           *)
Calm == todo = {} /\ pending = NoKey

(* Faulty variant: stale weights are not dropped.                          *)
LookaheadNoPrune(w) ==
    /\ Calm
    /\ want' = w
    /\ todo' = w
    /\ UNCHANGED <<ready, inflight, queue, threadVars, pending, boundVars>>

(* The lookahead computes its candidate list; it drops ready weights that  *)
(* are not on it.  An empty list returns before the prune in the tier      *)
(* lookahead, and prunes everything in the energy tick.                    *)
Lookahead(w) ==
    /\ Calm
    /\ want' = w
    /\ ready' \in IF w = {} THEN {ready, {}} ELSE {ready \cap w}
    /\ todo' = w
    /\ UNCHANGED <<inflight, queue, threadVars, pending, boundVars>>

(* Faulty variant: the reads under way do not count.                       *)
FullOfReady == Cardinality(ready) >= MaxReady

(* request, under the lock.                                                *)
Full == Cardinality(ready) + Cardinality(inflight) >= MaxReady

Refuse(k) ==
    /\ pending = NoKey /\ k \in todo
    /\ k \in ready \cup inflight \/ Full
    /\ todo' = todo \ {k}
    /\ UNCHANGED <<ready, inflight, queue, threadVars, want, pending, boundVars>>

Admit(k) ==
    /\ pending = NoKey /\ k \in todo
    /\ k \notin ready \cup inflight /\ ~Full
    /\ inflight' = inflight \cup {k}
    /\ todo' = todo \ {k}
    /\ pending' = k
    /\ UNCHANGED <<ready, queue, threadVars, want, boundVars>>

(* The queue.put of an admitted request, after the lock is released.       *)
Put ==
    /\ pending # NoKey
    /\ queue' = Append(queue, pending)
    /\ pending' = NoKey
    /\ UNCHANGED <<ready, inflight, threadVars, want, todo, boundVars>>

(* take, when the weights are there.  A miss changes nothing.              *)
Take(k) ==
    /\ Calm
    /\ k \in ready
    /\ takes < MaxTakes
    /\ ready' = ready \ {k}
    /\ takes' = takes + 1
    /\ UNCHANGED <<inflight, queue, threadVars, callerVars, failures>>

(* The worker's loop.                                                      *)
Get ==
    /\ stage = "idle" /\ queue # << >>
    /\ job' = Head(queue)
    /\ queue' = Tail(queue)
    /\ stage' = "read"
    /\ UNCHANGED <<ready, inflight, callerVars, boundVars>>

ReadExpert ==
    /\ stage = "read"
    /\ stage' = "publish"
    /\ UNCHANGED <<ready, inflight, queue, job, callerVars, boundVars>>

(* read_expert raises, or the layer has no wrapper.                        *)
ReadFails ==
    /\ stage = "read" /\ failures < MaxFailures
    /\ failures' = failures + 1
    /\ stage' = "finish"
    /\ UNCHANGED <<ready, inflight, queue, job, callerVars, takes>>

(* The first locked section: the weights are dropped when there is no room.*)
Publish ==
    /\ stage = "publish"
    /\ ready' = IF Cardinality(ready) < MaxReady THEN ready \cup {job} ELSE ready
    /\ stage' = "finish"
    /\ UNCHANGED <<inflight, queue, job, callerVars, boundVars>>

(* The finally clause, a second locked section.                            *)
Finish ==
    /\ stage = "finish"
    /\ inflight' = inflight \ {job}
    /\ job' = NoKey
    /\ stage' = "idle"
    /\ UNCHANGED <<ready, queue, callerVars, boundVars>>

Worker == Get \/ ReadExpert \/ ReadFails \/ Publish \/ Finish
Request == Put \/ \E k \in Key : Refuse(k) \/ Admit(k)
Look == \E w \in SUBSET Key : Lookahead(w)

PrefetchNext == Worker \/ Request \/ Look \/ \E k \in Key : Take(k)

PrefetchSpec == PrefetchInit /\ [][PrefetchNext]_prefetchVars

(* Both threads run on: the worker because nothing it does blocks but the  *)
(* empty queue, the forward thread because decoding goes on and the tick   *)
(* calls the lookahead each time.                                          *)
PrefetchFair == PrefetchSpec /\ WF_prefetchVars(Worker) /\ WF_prefetchVars(Request) /\ WF_prefetchVars(Look)

----------------------------------------------------------------------------
(* Properties.                                                             *)

(* The memory held for weights that are not staged yet stays within the    *)
(* prefetch depth, whatever the threads do: what is ready and what is      *)
(* being read is at most MaxReady.                                         *)
HeldBounded == Cardinality(ready \cup inflight) <= MaxReady

(* A read that was admitted is never thrown away for lack of room: the     *)
(* check the worker makes before it publishes always succeeds.             *)
ReadNeverWasted == stage = "publish" => Cardinality(ready) < MaxReady

(* No expert is read twice at the same time, or read again while its       *)
(* weights are ready: a key in the queue is in it once and is neither      *)
(* ready, nor in the worker's hands, nor about to be put.                  *)
NoDoubleRead ==
    /\ \A i, j \in DOMAIN queue : queue[i] = queue[j] => i = j
    /\ \A i \in DOMAIN queue : queue[i] \notin ready \cup {job, pending}
    /\ stage \in {"read", "publish"} => job \notin ready

(* inflight names exactly the requests that are somewhere on their way:    *)
(* no key leaks in it and blocks its own expert for good.                  *)
NoLeak ==
    inflight = {queue[i] : i \in DOMAIN queue} \cup ({job, pending} \ {NoKey})

(* The two threads agree on what is held and what is on its way, although  *)
(* request puts the key into the queue after it has released the lock.     *)
ReadsAccounted == HeldBounded /\ ReadNeverWasted /\ NoDoubleRead /\ NoLeak

(* Once the lookahead's list stops changing (and fits the depth), every    *)
(* expert on it is fetched: stale entries do not silt up the ready set.    *)
StableWantFetched ==
    \A w \in SUBSET Key :
        Cardinality(w) <= MaxReady /\ <>[](want = w) =>
            \A k \in w : <>[](k \in ready)
=============================================================================
