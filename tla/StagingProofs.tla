--------------------------- MODULE StagingProofs ---------------------------
(***************************************************************************)
(* Proofs about what decides on weights and brings them forward.  The      *)
(* background prefetcher, for any set of keys, any depth and any number of *)
(* failing reads and consumed weights (ReadsAccounted); the write || copy  *)
(* pipeline of a load, for any world size and any length: rank 0's copies  *)
(* are intact, all copies of a short load are, and no rank copies too      *)
(* early (StreamIntact); and the selectors: every tick of the three-tier   *)
(* selector keeps the contract of the mover, for any experts, sizes,       *)
(* margins and demand, and every batch of the weighted selector swaps      *)
(* experts that earned it, for any experts, credits, costs, graces and     *)
(* rows.  They share no state.                                             *)
(***************************************************************************)
EXTENDS MCPolicies, Prefetcher, WeightStream, Sequences, FiniteSetTheorems, WellFoundedInduction, TLAPS

(***************************************************************************)
(* The prefetcher.                                                         *)
(***************************************************************************)

(* The keys in the queue.                                                  *)
Queued == {queue[i] : i \in DOMAIN queue}

(* The queue holds no key twice.                                           *)
Distinct(q) == \A i, j \in DOMAIN q : q[i] = q[j] => i = j

(* The worker holds a key exactly while it is not waiting for one.         *)
WorkerFacts ==
    /\ stage = "idle" <=> job = NoKey
    /\ job # NoKey => job \notin Queued

(* A key that was admitted and not yet put is nowhere else.                *)
PendingFacts == pending # NoKey => pending \notin Queued \cup {job}

(* What is ready is not on its way, except for the key whose weights were  *)
(* just published and which the finally clause has still to take back.     *)
ReadyFacts == \A k \in ready \cap inflight : k = job /\ stage = "finish"

(* The inductive invariant of the prefetcher.                              *)
PrefetchInv ==
    /\ PrefetchTypeOK
    /\ Distinct(queue)
    /\ NoLeak
    /\ WorkerFacts
    /\ PendingFacts
    /\ ReadyFacts
    /\ HeldBounded

----------------------------------------------------------------------------

(* What a put does to the keys of a queue.                                 *)
LEMMA AppendFacts ==
    ASSUME NEW q \in Seq(Key), NEW k \in Key
    PROVE  /\ Append(q, k) \in Seq(Key)
           /\ {Append(q, k)[i] : i \in DOMAIN Append(q, k)}
                 = {q[i] : i \in DOMAIN q} \cup {k}
           /\ Distinct(q) /\ k \notin {q[i] : i \in DOMAIN q} => Distinct(Append(q, k))
<1>1. /\ Append(q, k) \in Seq(Key)
      /\ DOMAIN q = 1 .. Len(q) /\ Len(q) \in Nat
      /\ DOMAIN Append(q, k) = 1 .. Len(q) + 1
      /\ \A i \in 1 .. Len(q) : Append(q, k)[i] = q[i]
      /\ Append(q, k)[Len(q) + 1] = k
  OBVIOUS
<1>2. {Append(q, k)[i] : i \in DOMAIN Append(q, k)} = {q[i] : i \in DOMAIN q} \cup {k}
  BY <1>1
<1>3. Distinct(q) /\ k \notin {q[i] : i \in DOMAIN q} => Distinct(Append(q, k))
  BY <1>1 DEF Distinct
<1> QED
  BY <1>1, <1>2, <1>3

(* What a get does to them.                                                *)
LEMMA TailFacts ==
    ASSUME NEW q \in Seq(Key), q # << >>
    PROVE  /\ Head(q) \in Key /\ Tail(q) \in Seq(Key)
           /\ {q[i] : i \in DOMAIN q} = {Tail(q)[i] : i \in DOMAIN Tail(q)} \cup {Head(q)}
           /\ Distinct(q) => /\ Distinct(Tail(q))
                             /\ Head(q) \notin {Tail(q)[i] : i \in DOMAIN Tail(q)}
<1>1. /\ Head(q) \in Key /\ Tail(q) \in Seq(Key)
      /\ DOMAIN q = 1 .. Len(q) /\ Len(q) \in Nat \ {0}
      /\ DOMAIN Tail(q) = 1 .. Len(q) - 1
      /\ \A i \in 1 .. Len(q) - 1 : Tail(q)[i] = q[i + 1]
      /\ Head(q) = q[1]
  OBVIOUS
<1>2. {q[i] : i \in DOMAIN q} \subseteq {Tail(q)[i] : i \in DOMAIN Tail(q)} \cup {Head(q)}
  <2> SUFFICES ASSUME NEW i \in DOMAIN q
               PROVE  q[i] \in {Tail(q)[j] : j \in DOMAIN Tail(q)} \cup {Head(q)}
    OBVIOUS
  <2>1. CASE i = 1
    BY <2>1, <1>1
  <2>2. CASE i # 1
    <3>1. i - 1 \in DOMAIN Tail(q) /\ Tail(q)[i - 1] = q[i]
      BY <2>2, <1>1
    <3> QED
      BY <3>1
  <2> QED
    BY <2>1, <2>2
<1>3. {Tail(q)[i] : i \in DOMAIN Tail(q)} \cup {Head(q)} \subseteq {q[i] : i \in DOMAIN q}
  BY <1>1
<1>4. Distinct(q) => /\ Distinct(Tail(q))
                     /\ Head(q) \notin {Tail(q)[i] : i \in DOMAIN Tail(q)}
  <2> SUFFICES ASSUME Distinct(q)
               PROVE  /\ Distinct(Tail(q))
                      /\ Head(q) \notin {Tail(q)[i] : i \in DOMAIN Tail(q)}
    OBVIOUS
  <2>1. \A i \in DOMAIN Tail(q) : i + 1 \in DOMAIN q /\ i + 1 # 1 /\ Tail(q)[i] = q[i + 1]
    BY <1>1
  <2>2. \A i, j \in DOMAIN Tail(q) : i + 1 = j + 1 => i = j
    BY <1>1
  <2> QED
    BY <1>1, <2>1, <2>2 DEF Distinct
<1> QED
  BY <1>1, <1>2, <1>3, <1>4

(* The depth bounds what a smaller set of keys needs.                      *)
LEMMA SmallerHeld ==
    ASSUME NEW S \in SUBSET Key, NEW T \in SUBSET S
    PROVE  /\ Cardinality(S) \in Nat /\ Cardinality(T) \in Nat
           /\ Cardinality(T) <= Cardinality(S)
           /\ T # S => Cardinality(T) < Cardinality(S)
<1>1. IsFiniteSet(S)
  BY PrefetcherAssumption, FS_Subset
<1>2. IsFiniteSet(T)
  BY <1>1, FS_Subset
<1>3. Cardinality(S) \in Nat /\ Cardinality(T) \in Nat
  BY <1>1, <1>2, FS_CardinalityType
<1> QED
  BY <1>1, <1>2, <1>3, FS_Subset

(* An admission stays within the depth.                                    *)
LEMMA AdmitHeld ==
    ASSUME PrefetchTypeOK, ~Full, NEW k \in Key
    PROVE  Cardinality(ready \cup (inflight \cup {k})) <= MaxReady
<1>1. IsFiniteSet(ready) /\ IsFiniteSet(inflight)
  BY PrefetcherAssumption, FS_Subset DEF PrefetchTypeOK
<1>2. /\ IsFiniteSet(ready \cup inflight)
      /\ Cardinality(ready \cup inflight) <= Cardinality(ready) + Cardinality(inflight)
  <2>1. /\ IsFiniteSet(ready \cup inflight)
        /\ Cardinality(ready \cup inflight)
              = Cardinality(ready) + Cardinality(inflight) - Cardinality(ready \cap inflight)
    BY <1>1, FS_Union
  <2>2. IsFiniteSet(ready \cap inflight)
    BY <1>1, FS_Subset
  <2>3. Cardinality(ready \cap inflight) \in Nat /\ Cardinality(ready) \in Nat
        /\ Cardinality(inflight) \in Nat
    BY <1>1, <2>2, FS_CardinalityType
  <2> QED
    BY <2>1, <2>3
<1>3. Cardinality((ready \cup inflight) \cup {k}) <= Cardinality(ready \cup inflight) + 1
  <2>1. Cardinality((ready \cup inflight) \cup {k}) =
           IF k \in ready \cup inflight THEN Cardinality(ready \cup inflight)
           ELSE Cardinality(ready \cup inflight) + 1
    BY <1>2, FS_AddElement
  <2>2. Cardinality(ready \cup inflight) \in Nat
    BY <1>2, FS_CardinalityType
  <2> QED
    BY <2>1, <2>2
<1>4. /\ Cardinality(ready) \in Nat /\ Cardinality(inflight) \in Nat
      /\ Cardinality(ready \cup inflight) \in Nat
      /\ Cardinality((ready \cup inflight) \cup {k}) \in Nat
  <2>1. IsFiniteSet((ready \cup inflight) \cup {k})
    BY <1>2, FS_AddElement
  <2> QED
    BY <1>1, <1>2, <2>1, FS_CardinalityType
<1>5. Cardinality(ready) + Cardinality(inflight) < MaxReady
  BY <1>4, PrefetcherAssumption DEF Full
<1>6. ready \cup (inflight \cup {k}) = (ready \cup inflight) \cup {k}
  OBVIOUS
<1>7. ASSUME NEW a \in Nat, NEW b \in Nat, NEW c \in Nat, NEW d \in Nat,
             a + b < MaxReady, c <= a + b, d <= c + 1
      PROVE  d <= MaxReady
  BY <1>7, PrefetcherAssumption
<1> QED
  BY <1>2, <1>3, <1>4, <1>5, <1>6, <1>7

----------------------------------------------------------------------------

(* The prefetcher starts empty.                                            *)
LEMMA PrefetchStarts == PrefetchInit => PrefetchInv
<1> SUFFICES ASSUME PrefetchInit PROVE PrefetchInv
  OBVIOUS
<1>1. PrefetchTypeOK
  BY PrefetcherAssumption DEF PrefetchInit, PrefetchTypeOK
<1>2. DOMAIN queue = {}
  BY DEF PrefetchInit
<1>3. Queued = {}
  BY <1>2 DEF Queued
<1>4. Cardinality(ready \cup inflight) = 0
  BY FS_EmptySet DEF PrefetchInit
<1> QED
  BY <1>1, <1>2, <1>3, <1>4, PrefetcherAssumption
     DEF PrefetchInit, PrefetchInv, Distinct, NoLeak, WorkerFacts, PendingFacts, ReadyFacts,
         HeldBounded

(* The lookahead only drops ready weights.                                 *)
LEMMA LookaheadStep ==
    ASSUME PrefetchInv, NEW w \in SUBSET Key, Lookahead(w) PROVE PrefetchInv'
<1> USE DEF PrefetchInv
<1>1. ready' \subseteq ready
  BY DEF Lookahead
<1>2. PrefetchTypeOK'
  BY <1>1 DEF Lookahead, PrefetchTypeOK, threadVars, boundVars
<1>3. Distinct(queue)' /\ NoLeak' /\ WorkerFacts' /\ PendingFacts'
  BY DEF Lookahead, NoLeak, WorkerFacts, PendingFacts, Queued, threadVars, Distinct
<1>4. ReadyFacts'
  BY <1>1 DEF Lookahead, ReadyFacts, threadVars
<1>5. HeldBounded'
  <2>1. ready' \cup inflight' \subseteq ready \cup inflight
    BY <1>1 DEF Lookahead
  <2> QED
    BY <2>1, SmallerHeld, PrefetcherAssumption DEF HeldBounded, PrefetchTypeOK
<1> QED
  BY <1>2, <1>3, <1>4, <1>5

(* So does a take.                                                         *)
LEMMA TakeStep == ASSUME PrefetchInv, NEW k \in Key, Take(k) PROVE PrefetchInv'
<1> USE DEF PrefetchInv
<1>1. ready' \subseteq ready
  BY DEF Take
<1>2. PrefetchTypeOK'
  BY <1>1, PrefetcherAssumption DEF Take, PrefetchTypeOK, threadVars, callerVars
<1>3. Distinct(queue)' /\ NoLeak' /\ WorkerFacts' /\ PendingFacts'
  BY DEF Take, NoLeak, WorkerFacts, PendingFacts, Queued, threadVars, callerVars, Distinct
<1>4. ReadyFacts'
  BY <1>1 DEF Take, ReadyFacts, threadVars
<1>5. HeldBounded'
  <2>1. ready' \cup inflight' \subseteq ready \cup inflight
    BY <1>1 DEF Take
  <2> QED
    BY <2>1, SmallerHeld, PrefetcherAssumption DEF HeldBounded, PrefetchTypeOK
<1> QED
  BY <1>2, <1>3, <1>4, <1>5

(* A refused request leaves the shared state alone.                        *)
LEMMA RefuseStep == ASSUME PrefetchInv, NEW k \in Key, Refuse(k) PROVE PrefetchInv'
<1> USE DEF PrefetchInv
<1>1. PrefetchTypeOK'
  BY DEF Refuse, PrefetchTypeOK, threadVars, boundVars
<1>2. Distinct(queue)' /\ NoLeak' /\ WorkerFacts' /\ PendingFacts'
  BY DEF Refuse, NoLeak, WorkerFacts, PendingFacts, Queued, threadVars, Distinct
<1>3. ReadyFacts' /\ HeldBounded'
  BY DEF Refuse, ReadyFacts, HeldBounded, threadVars
<1> QED
  BY <1>1, <1>2, <1>3

(* An admitted key was nowhere, and there is room for it.                  *)
LEMMA AdmitStep == ASSUME PrefetchInv, NEW k \in Key, Admit(k) PROVE PrefetchInv'
<1> USE DEF PrefetchInv
<1>1. PrefetchTypeOK'
  BY DEF Admit, PrefetchTypeOK, threadVars, boundVars
<1>2. Distinct(queue)' /\ WorkerFacts'
  BY DEF Admit, WorkerFacts, Queued, threadVars, Distinct
<1>3. NoLeak'
  BY PrefetcherAssumption DEF Admit, NoLeak, threadVars
<1>4. PendingFacts'
  BY PrefetcherAssumption DEF Admit, NoLeak, PendingFacts, Queued, threadVars
<1>5. ReadyFacts'
  BY DEF Admit, ReadyFacts, threadVars
<1>6. HeldBounded'
  BY AdmitHeld DEF Admit, HeldBounded
<1> QED
  BY <1>1, <1>2, <1>3, <1>4, <1>5, <1>6

(* The put moves the admitted key into the queue.                          *)
LEMMA PutStep == ASSUME PrefetchInv, Put PROVE PrefetchInv'
<1> USE DEF PrefetchInv
<1>1. pending \in Key /\ queue \in Seq(Key) /\ pending \notin Queued \cup {job}
  BY DEF Put, PrefetchTypeOK, PendingFacts
<1>2. /\ queue' \in Seq(Key)
      /\ Queued' = Queued \cup {pending}
      /\ Distinct(queue)'
  BY <1>1, AppendFacts DEF Put, Queued, Distinct
<1>3. PrefetchTypeOK'
  BY <1>2 DEF Put, PrefetchTypeOK, threadVars, boundVars
<1>4. NoLeak'
  BY <1>1, <1>2, PrefetcherAssumption DEF Put, NoLeak, Queued, threadVars
<1>5. WorkerFacts' /\ PendingFacts'
  BY <1>1, <1>2 DEF Put, WorkerFacts, PendingFacts, threadVars
<1>6. ReadyFacts' /\ HeldBounded'
  BY DEF Put, ReadyFacts, HeldBounded, threadVars
<1> QED
  BY <1>2, <1>3, <1>4, <1>5, <1>6

(* The get moves the oldest key into the worker's hands.                   *)
LEMMA GetStep == ASSUME PrefetchInv, Get PROVE PrefetchInv'
<1> USE DEF PrefetchInv
<1>1. queue \in Seq(Key) /\ queue # << >> /\ job = NoKey /\ Distinct(queue)
  BY DEF Get, PrefetchTypeOK, WorkerFacts
<1>2. /\ job' \in Key /\ queue' \in Seq(Key)
      /\ Queued = Queued' \cup {job'}
      /\ Distinct(queue)'
      /\ job' \notin Queued'
  <2>1. job' = Head(queue) /\ queue' = Tail(queue)
    BY DEF Get
  <2>2. /\ Head(queue) \in Key /\ Tail(queue) \in Seq(Key)
        /\ {queue[i] : i \in DOMAIN queue} = {Tail(queue)[i] : i \in DOMAIN Tail(queue)} \cup {Head(queue)}
        /\ Distinct(Tail(queue)) /\ Head(queue) \notin {Tail(queue)[i] : i \in DOMAIN Tail(queue)}
    BY <1>1, TailFacts
  <2>3. Queued' = {Tail(queue)[i] : i \in DOMAIN Tail(queue)} /\ (Distinct(queue)' <=> Distinct(Tail(queue)))
    BY <2>1 DEF Queued, Distinct
  <2> QED BY <2>1, <2>2, <2>3 DEF Queued
<1>3. PrefetchTypeOK'
  BY <1>2 DEF Get, PrefetchTypeOK, callerVars, boundVars
<1>4. NoLeak'
  BY <1>1, <1>2, PrefetcherAssumption DEF Get, NoLeak, Queued, callerVars
<1>5. WorkerFacts' /\ PendingFacts'
  BY <1>1, <1>2, PrefetcherAssumption DEF Get, WorkerFacts, PendingFacts, callerVars
<1>6. ReadyFacts'
  BY <1>1 DEF Get, ReadyFacts
<1>7. HeldBounded'
  BY DEF Get, HeldBounded
<1> QED
  BY <1>2, <1>3, <1>4, <1>5, <1>6, <1>7

(* The read itself touches no shared state.                                *)
LEMMA ReadStep == ASSUME PrefetchInv, ReadExpert \/ ReadFails PROVE PrefetchInv'
<1> USE DEF PrefetchInv
<1>1. /\ stage = "read" /\ stage' \in {"publish", "finish"}
      /\ UNCHANGED <<ready, inflight, queue, job, callerVars>>
      /\ failures' \in 0 .. MaxFailures /\ takes' = takes
  BY PrefetcherAssumption DEF ReadExpert, ReadFails, PrefetchTypeOK, boundVars
<1>2. PrefetchTypeOK'
  BY <1>1 DEF PrefetchTypeOK, callerVars
<1>3. Distinct(queue)' /\ NoLeak' /\ WorkerFacts' /\ PendingFacts'
  BY <1>1 DEF NoLeak, WorkerFacts, PendingFacts, Queued, callerVars, Distinct
<1>4. ReadyFacts' /\ HeldBounded'
  BY <1>1 DEF ReadyFacts, HeldBounded
<1> QED
  BY <1>2, <1>3, <1>4

(* Publishing moves a key from being read to being ready.                  *)
LEMMA PublishStep == ASSUME PrefetchInv, Publish PROVE PrefetchInv'
<1> USE DEF PrefetchInv
<1>1. job \in Key /\ job \in inflight
  BY PrefetcherAssumption DEF Publish, WorkerFacts, NoLeak, PrefetchTypeOK
<1>2. ready' \subseteq ready \cup {job} /\ inflight' = inflight
  BY DEF Publish
<1>3. PrefetchTypeOK'
  BY <1>1, <1>2 DEF Publish, PrefetchTypeOK, callerVars, boundVars
<1>4. Distinct(queue)' /\ NoLeak' /\ WorkerFacts' /\ PendingFacts'
  BY DEF Publish, NoLeak, WorkerFacts, PendingFacts, Queued, callerVars, Distinct
<1>5. ReadyFacts'
  BY <1>2 DEF Publish, ReadyFacts
<1>6. HeldBounded'
  <2>1. ready' \cup inflight' \subseteq ready \cup inflight
    BY <1>1, <1>2
  <2> QED
    BY <2>1, SmallerHeld, PrefetcherAssumption DEF HeldBounded, PrefetchTypeOK
<1> QED
  BY <1>3, <1>4, <1>5, <1>6

(* The finally clause takes the key back.                                  *)
LEMMA FinishStep == ASSUME PrefetchInv, Finish PROVE PrefetchInv'
<1> USE DEF PrefetchInv
<1>1. PrefetchTypeOK'
  BY DEF Finish, PrefetchTypeOK, callerVars, boundVars
<1>2. Distinct(queue)' /\ WorkerFacts'
  BY DEF Finish, WorkerFacts, Distinct
<1>3. job \in Key /\ job \notin Queued \cup {pending}
  BY DEF Finish, WorkerFacts, PendingFacts, PrefetchTypeOK
<1>4. NoLeak'
  BY <1>3, PrefetcherAssumption DEF Finish, NoLeak, Queued, callerVars
<1>5. PendingFacts'
  BY DEF Finish, PendingFacts, Queued, callerVars
<1>6. ReadyFacts'
  BY DEF Finish, ReadyFacts
<1>7. HeldBounded'
  <2>1. ready' \cup inflight' \subseteq ready \cup inflight
    BY DEF Finish
  <2> QED
    BY <2>1, SmallerHeld, PrefetcherAssumption DEF HeldBounded, PrefetchTypeOK
<1> QED
  BY <1>1, <1>2, <1>4, <1>5, <1>6, <1>7

----------------------------------------------------------------------------

(* The invariant holds in every state of every interleaving of the worker  *)
(* and the forward thread.                                                 *)
THEOREM PrefetchInvariant == PrefetchSpec => []PrefetchInv
<1>1. PrefetchInit => PrefetchInv
  BY PrefetchStarts
<1>2. PrefetchInv /\ [PrefetchNext]_prefetchVars => PrefetchInv'
  <2> SUFFICES ASSUME PrefetchInv, [PrefetchNext]_prefetchVars PROVE PrefetchInv'
    OBVIOUS
  <2>1. CASE Worker
    BY <2>1, GetStep, ReadStep, PublishStep, FinishStep DEF Worker
  <2>2. CASE Request
    BY <2>2, PutStep, RefuseStep, AdmitStep DEF Request
  <2>3. CASE Look
    BY <2>3, LookaheadStep DEF Look
  <2>4. CASE \E k \in Key : Take(k)
    BY <2>4, TakeStep
  <2>5. CASE UNCHANGED prefetchVars
    BY <2>5 DEF prefetchVars, threadVars, callerVars, boundVars, PrefetchInv, PrefetchTypeOK, Distinct,
                NoLeak, WorkerFacts, PendingFacts, ReadyFacts, HeldBounded, Queued
  <2> QED
    BY <2>1, <2>2, <2>3, <2>4, <2>5 DEF PrefetchNext
<1> QED
  BY <1>1, <1>2, PTL DEF PrefetchSpec

(* What is ready and what is being read never exceeds the prefetch depth:  *)
(* HeldBounded.                                                            *)
THEOREM PrefetchMemoryBounded == PrefetchSpec => []HeldBounded
<1>1. PrefetchInv => HeldBounded
  BY DEF PrefetchInv
<1> QED
  BY <1>1, PrefetchInvariant, PTL

(* No finished read is dropped for lack of room, so that the check in      *)
(* _run never fails: ReadNeverWasted.                                      *)
THEOREM ReadsArePublished == PrefetchSpec => []ReadNeverWasted
<1>1. PrefetchInv => ReadNeverWasted
  <2> SUFFICES ASSUME PrefetchInv, stage = "publish"
               PROVE  Cardinality(ready) < MaxReady
    BY DEF ReadNeverWasted
  <2>1. job \in inflight /\ job \notin ready
    BY PrefetcherAssumption DEF PrefetchInv, PrefetchTypeOK, WorkerFacts, NoLeak, ReadyFacts
  <2>2. ready \subseteq ready \cup inflight /\ ready # ready \cup inflight
    BY <2>1
  <2>3. /\ Cardinality(ready) < Cardinality(ready \cup inflight)
        /\ Cardinality(ready) \in Nat /\ Cardinality(ready \cup inflight) \in Nat
    BY <2>2, SmallerHeld DEF PrefetchInv, PrefetchTypeOK
  <2> QED
    BY <2>3, PrefetcherAssumption DEF PrefetchInv, HeldBounded
<1> QED
  BY <1>1, PrefetchInvariant, PTL

(* No expert is read twice at the same time, or read again while its       *)
(* weights are ready: NoDoubleRead.                                        *)
THEOREM ReadsAreDistinct == PrefetchSpec => []NoDoubleRead
<1>1. PrefetchInv => NoDoubleRead
  <2> SUFFICES ASSUME PrefetchInv PROVE NoDoubleRead
    OBVIOUS
  <2>1. \A i \in DOMAIN queue : queue[i] \in Queued
    BY DEF Queued
  <2>2. \A k \in Queued : k \in inflight /\ k \in Key
    BY DEF PrefetchInv, PrefetchTypeOK, NoLeak, Queued
  <2>3. \A k \in Queued : k \notin ready \cup {job, pending}
    BY <2>2, PrefetcherAssumption
       DEF PrefetchInv, ReadyFacts, WorkerFacts, PendingFacts
  <2>4. stage \in {"read", "publish"} => job \notin ready
    BY PrefetcherAssumption DEF PrefetchInv, PrefetchTypeOK, WorkerFacts, NoLeak, ReadyFacts
  <2> QED
    BY <2>1, <2>3, <2>4 DEF PrefetchInv, Distinct, NoDoubleRead
<1> QED
  BY <1>1, PrefetchInvariant, PTL

(* No key leaks in inflight and blocks its own expert for good: NoLeak.    *)
THEOREM NothingLeaks == PrefetchSpec => []NoLeak
<1>1. PrefetchInv => NoLeak
  BY DEF PrefetchInv
<1> QED
  BY <1>1, PrefetchInvariant, PTL

(* In every interleaving of the two threads the reads are accounted for:   *)
(* bounded, distinct, never thrown away and never leaked (ReadsAccounted). *)
THEOREM ReadsAreAccounted == PrefetchSpec => []ReadsAccounted
BY PrefetchMemoryBounded, ReadsArePublished, ReadsAreDistinct, NothingLeaks, PTL DEF ReadsAccounted

(***************************************************************************)
(* The write || copy pipeline.                                             *)
(***************************************************************************)

(* Writes submitted in the running load.                                   *)
Submitted ==
    CASE pc[0] = "start"                 -> 0
      [] pc[0] \in {"sync", "reuse"}     -> launched[0] + 1
      [] pc[0] \in {"barrier", "copy"}   -> IF launched[0] + 1 < len THEN launched[0] + 2
                                            ELSE launched[0] + 1
      [] OTHER                           -> len

(* Barriers a rank has passed.                                             *)
Passed(r) == IF pc[r] = "copy" THEN launched[r] + 1 ELSE launched[r]

(* The loop of a rank: where it is bounds what it has launched, and the    *)
(* barrier keeps the ranks in the same iteration.                          *)
LoopInv ==
    /\ \A r \in Rank :
        /\ pc[r] = "start" => launched[r] = 0
        /\ pc[r] = "drain" => launched[r] = len
        /\ pc[r] # "drain" => launched[r] < len
        /\ pc[r] \in {"sync", "reuse"} => r = 0
        /\ copied[r] <= launched[r]
        /\ Passed(r) = Passed(0)

(* A write in progress is the last one submitted, and rank 0 has not come  *)
(* past the sync that awaits it; it does not overtake rank 0's own copies. *)
WriteInv ==
    /\ write # Idle =>
        \/ pc[0] = "sync" /\ write = launched[0]
        \/ pc[0] \in {"barrier", "copy"} /\ write = launched[0] + 1 /\ launched[0] + 1 < len
    /\ copied[0] + 2 >= Submitted

(* Half i % 2 holds the last position submitted into it, whole unless that *)
(* is the one being written.                                               *)
BufInv ==
    \A r \in Rank : \A i \in 0 .. MaxLen - 1 :
        i < Submitted =>
            /\ buf[r][i % 2].load = load
            /\ buf[r][i % 2].pos >= i
            /\ buf[r][i % 2].pos < Submitted
            /\ buf[r][i % 2].pos % 2 = i % 2
            /\ i + 2 >= Submitted => buf[r][i % 2].pos = i
            /\ buf[r][i % 2].pos # write => buf[r][i % 2].whole

StreamInv == StreamTypeOK /\ LoopInv /\ WriteInv /\ BufInv /\ StreamIntact

-----------------------------------------------------------------------------
(* Facts about the definitions.                                            *)

LEMMA Ranks == 0 \in Rank /\ Rank \subseteq Nat
BY StreamAssumption DEF Rank

(* Positions alternate between the halves.                                 *)
LEMMA Parity == \A n \in Nat : n % 2 \in Half /\ (n + 1) % 2 # n % 2
BY DEF Half

LEMMA BytesTypes ==
    ASSUME load \in {0, 1}, NEW i \in 0 .. MaxLen - 1
    PROVE  Whole(i) \in Bytes /\ Partial(i) \in Bytes
BY DEF Whole, Partial, Bytes

(* Rank 0 has submitted every write before it passes its barrier.          *)
LEMMA SubmittedBounds ==
    ASSUME StreamTypeOK, LoopInv
    PROVE  Submitted \in 0 .. len /\ Passed(0) \in 0 .. Submitted
<1> USE Ranks, StreamAssumption
<1>1. pc[0] \in {"start", "sync", "reuse", "barrier", "copy", "drain"} /\ launched[0] \in Nat /\ len \in Nat
  BY DEF StreamTypeOK
<1>2. /\ pc[0] = "start" => launched[0] = 0
      /\ pc[0] = "drain" => launched[0] = len
      /\ pc[0] # "drain" => launched[0] < len
  BY DEF LoopInv
<1> QED
  BY <1>1, <1>2 DEF Submitted, Passed

(* A copy that is still to be executed is of a position whose write was    *)
(* submitted and is over.                                                  *)
LEMMA PendingCopies ==
    ASSUME StreamTypeOK, LoopInv, WriteInv, NEW r \in Rank, copied[r] < launched[r]
    PROVE  copied[r] \in 0 .. MaxLen - 1 /\ copied[r] < Submitted /\ write # copied[r]
<1> USE Ranks, StreamAssumption
<1>1. /\ launched[r] \in Nat /\ copied[r] \in Nat /\ launched[0] \in Nat /\ len \in 1 .. MaxLen
      /\ launched[r] <= MaxLen
  BY DEF StreamTypeOK
<1>2. launched[r] <= Passed(r) /\ Passed(r) = Passed(0)
  BY <1>1 DEF LoopInv, Passed
<1>3. copied[r] < Passed(0)
  BY <1>1, <1>2, SubmittedBounds
<1>4. write # Idle => write >= Passed(0) /\ write \in Nat
  BY <1>1 DEF WriteInv, Passed
<1>5. copied[r] # Idle
  BY <1>1
<1> QED
  BY <1>1, <1>3, <1>4, <1>5, SubmittedBounds

(* The write in progress is of the last position submitted.                *)
LEMMA WriteIsLast ==
    ASSUME StreamTypeOK, LoopInv, WriteInv, write # Idle
    PROVE  write + 1 = Submitted /\ write \in 0 .. MaxLen - 1
<1> USE Ranks, StreamAssumption
<1>1. launched[0] \in Nat /\ write \in 0 .. MaxLen - 1
  BY DEF StreamTypeOK
<1> QED
  BY <1>1 DEF WriteInv, Submitted

(* Nothing a copy has moved changes while no copy is executed.             *)
LEMMA KeepsIntact ==
    ASSUME StreamIntact, UNCHANGED <<load, len, copied, dest>>
    PROVE  StreamIntact'
BY DEF StreamIntact, LeadCopiesIntact, ShortCopiesIntact, CopiesIntact, NeverTooEarly, Whole

LEMMA KeepsBuf ==
    ASSUME BufInv, UNCHANGED <<load, write, buf>>, Submitted' = Submitted
    PROVE  BufInv'
BY DEF BufInv

(* A write takes the half that held the position before the last one.      *)
LEMMA SubmitKeepsBuf ==
    ASSUME StreamTypeOK, LoopInv, WriteInv, BufInv, write = Idle,
           Submitted < MaxLen, SubmitWrite(Submitted),
           Submitted' = Submitted + 1, load' = load
    PROVE  BufInv' /\ buf' \in [Rank -> [Half -> Bytes]] /\ write' \in 0 .. MaxLen - 1
<1> DEFINE S == Submitted
<1> USE StreamAssumption
<1>0. S \in 0 .. MaxLen - 1 /\ S \in Nat
  BY SubmittedBounds DEF StreamTypeOK
<1>1. /\ Partial(S) \in Bytes /\ S % 2 \in Half
      /\ Partial(S).load = load /\ Partial(S).pos = S
  BY <1>0, Parity, BytesTypes DEF StreamTypeOK, Partial
<1>2. /\ write' = S
      /\ buf' = [r \in Rank |-> [buf[r] EXCEPT ![S % 2] = Partial(S)]]
  BY DEF SubmitWrite
<1>3. buf \in [Rank -> [Half -> Bytes]]
  BY DEF StreamTypeOK
<1>4. ASSUME NEW r \in Rank, NEW i \in 0 .. MaxLen - 1, i < S + 1
      PROVE  /\ buf'[r][i % 2].load = load
             /\ buf'[r][i % 2].pos >= i
             /\ buf'[r][i % 2].pos < S + 1
             /\ buf'[r][i % 2].pos % 2 = i % 2
             /\ i + 2 >= S + 1 => buf'[r][i % 2].pos = i
             /\ buf'[r][i % 2].pos # S => buf'[r][i % 2].whole
  <2>0. i \in Nat /\ i % 2 \in Half
    BY Parity
  <2>1. CASE i % 2 = S % 2
    <3>1. buf'[r][i % 2] = Partial(S)
      BY <1>1, <1>2, <1>3, <2>1
    <3>2. i + 2 >= S + 1 => i = S
      BY <1>0, <1>4, <2>0, <2>1
    <3> QED
      BY <3>1, <3>2, <1>0, <1>1, <1>4, <2>0, <2>1
  <2>2. CASE i % 2 # S % 2
    <3>1. buf'[r][i % 2] = buf[r][i % 2]
      BY <1>1, <1>2, <1>3, <2>2, <2>0
    <3>2. i < S
      BY <1>0, <1>4, <2>0, <2>2
    <3>3. /\ buf[r][i % 2].load = load
          /\ buf[r][i % 2].pos >= i
          /\ buf[r][i % 2].pos < S
          /\ buf[r][i % 2].pos % 2 = i % 2
          /\ i + 2 >= S => buf[r][i % 2].pos = i
          /\ buf[r][i % 2].pos # write => buf[r][i % 2].whole
      BY <3>2 DEF BufInv
    <3>4. buf[r][i % 2].pos \in Nat
      BY <1>3, <2>0 DEF Bytes
    <3> HIDE DEF S
    <3> QED
      BY <3>1, <3>2, <3>3, <3>4, <1>0, <2>0
  <2> QED
    BY <2>1, <2>2
<1>5. BufInv'
  BY <1>2, <1>4 DEF BufInv
<1>6. buf' \in [Rank -> [Half -> Bytes]]
  BY <1>1, <1>2, <1>3
<1> QED
  BY <1>0, <1>2, <1>5, <1>6

-----------------------------------------------------------------------------
(* Every step preserves the invariant.                                     *)

LEMMA WriteDoneStep == StreamInv /\ WriteDone => StreamInv'
<1> SUFFICES ASSUME StreamInv, WriteDone PROVE StreamInv'
  OBVIOUS
<1> USE Ranks, StreamAssumption
<1>0. StreamTypeOK /\ LoopInv /\ WriteInv /\ BufInv /\ StreamIntact
  BY DEF StreamInv
<1> DEFINE w == write
<1>1. w + 1 = Submitted /\ w \in 0 .. MaxLen - 1 /\ w \in Nat
  BY <1>0, WriteIsLast DEF WriteDone
<1>2. /\ Whole(w) \in Bytes /\ w % 2 \in Half
      /\ Whole(w).load = load /\ Whole(w).pos = w /\ Whole(w).whole
  BY <1>0, <1>1, BytesTypes, Parity DEF StreamTypeOK, Whole
<1>3. buf \in [Rank -> [Half -> Bytes]]
  BY <1>0 DEF StreamTypeOK
<1>4. /\ buf' = [r \in Rank |-> [buf[r] EXCEPT ![w % 2] = Whole(w)]]
      /\ write' = Idle /\ UNCHANGED <<load, len, pc, launched, copied, dest>>
  BY DEF WriteDone
<1>5. StreamTypeOK'
  BY <1>0, <1>2, <1>3, <1>4 DEF StreamTypeOK
<1>6. LoopInv'
  BY <1>0, <1>4 DEF LoopInv, Passed
<1>7. Submitted' = Submitted
  BY <1>4 DEF Submitted
<1>8. WriteInv'
  BY <1>0, <1>4, <1>7 DEF WriteInv
<1>9. BufInv'
  <2> SUFFICES ASSUME NEW r \in Rank, NEW i \in 0 .. MaxLen - 1, i < Submitted
               PROVE  /\ buf'[r][i % 2].load = load
                      /\ buf'[r][i % 2].pos >= i
                      /\ buf'[r][i % 2].pos < Submitted
                      /\ buf'[r][i % 2].pos % 2 = i % 2
                      /\ i + 2 >= Submitted => buf'[r][i % 2].pos = i
                      /\ buf'[r][i % 2].whole
    BY <1>4, <1>7 DEF BufInv
  <2>0. i \in Nat /\ i % 2 \in Half
    BY Parity
  <2>1. CASE i % 2 = w % 2
    <3>1. buf'[r][i % 2] = Whole(w)
      BY <1>2, <1>3, <1>4, <2>1
    <3>2. i + 2 >= Submitted => i = w
      BY <1>1, <2>0, <2>1
    <3> QED
      BY <3>1, <3>2, <1>1, <1>2, <2>0, <2>1
  <2>2. CASE i % 2 # w % 2
    <3>1. buf'[r][i % 2] = buf[r][i % 2]
      BY <1>2, <1>3, <1>4, <2>0, <2>2
    <3>2. /\ buf[r][i % 2].load = load
          /\ buf[r][i % 2].pos >= i
          /\ buf[r][i % 2].pos < Submitted
          /\ buf[r][i % 2].pos % 2 = i % 2
          /\ i + 2 >= Submitted => buf[r][i % 2].pos = i
          /\ buf[r][i % 2].pos # w => buf[r][i % 2].whole
      BY <1>0 DEF BufInv
    <3> QED
      BY <3>1, <3>2, <2>2
  <2> QED
    BY <2>1, <2>2
<1> QED
  BY <1>0, <1>4, <1>5, <1>6, <1>8, <1>9, KeepsIntact DEF StreamInv

LEMMA StartStep == ASSUME StreamInv, NEW r \in Rank, Start(r) PROVE StreamInv'
<1> USE Ranks, StreamAssumption
<1>0. StreamTypeOK /\ LoopInv /\ WriteInv /\ BufInv /\ StreamIntact
  BY DEF StreamInv
<1>1. /\ pc[r] = "start" /\ launched[r] = 0 /\ len \in 1 .. MaxLen
      /\ pc \in [Rank -> {"start", "sync", "reuse", "barrier", "copy", "drain"}]
      /\ pc' = [pc EXCEPT ![r] = IF r = 0 THEN "sync" ELSE "barrier"]
      /\ UNCHANGED <<load, len, launched, copied, dest>>
  BY <1>0 DEF Start, LoopInv, StreamTypeOK
<1>2. LoopInv'
  BY <1>0, <1>1 DEF LoopInv, Passed
<1>3. StreamIntact'
  BY <1>0, <1>1, KeepsIntact
<1>4. CASE r = 0
  <2>1. Submitted = 0 /\ write = Idle /\ copied[0] \in Nat /\ launched[0] = 0
    BY <1>0, <1>1, <1>4 DEF Submitted, WriteInv, StreamTypeOK
  <2>2. pc'[0] = "sync" /\ Submitted' = 1 /\ write' = 0
    BY <1>1, <1>4, <2>1 DEF Submitted, Start, SubmitWrite
  <2>3. BufInv' /\ buf' \in [Rank -> [Half -> Bytes]] /\ write' \in 0 .. MaxLen - 1
    BY <1>0, <1>1, <1>4, <2>1, <2>2, SubmitKeepsBuf DEF Start
  <2>4. WriteInv'
    BY <1>1, <2>1, <2>2 DEF WriteInv
  <2>5. StreamTypeOK'
    BY <1>0, <1>1, <1>4, <2>3 DEF StreamTypeOK
  <2> QED
    BY <1>2, <1>3, <2>3, <2>4, <2>5 DEF StreamInv
<1>5. CASE r # 0
  <2>1. pc'[0] = pc[0] /\ UNCHANGED <<write, buf>>
    BY <1>1, <1>5 DEF Start
  <2>2. Submitted' = Submitted
    BY <1>1, <2>1 DEF Submitted
  <2>3. BufInv' /\ WriteInv'
    BY <1>0, <1>1, <2>1, <2>2, KeepsBuf DEF WriteInv
  <2>4. StreamTypeOK'
    BY <1>0, <1>1, <1>5, <2>1 DEF StreamTypeOK
  <2> QED
    BY <1>2, <1>3, <2>3, <2>4 DEF StreamInv
<1> QED
  BY <1>4, <1>5

LEMMA SyncStep == StreamInv /\ Sync => StreamInv'
<1> SUFFICES ASSUME StreamInv, Sync PROVE StreamInv'
  OBVIOUS
<1> USE Ranks, StreamAssumption
<1>0. StreamTypeOK /\ LoopInv /\ WriteInv /\ BufInv /\ StreamIntact
  BY DEF StreamInv
<1>1. /\ pc[0] = "sync" /\ write = Idle
      /\ pc \in [Rank -> {"start", "sync", "reuse", "barrier", "copy", "drain"}]
      /\ pc' = [pc EXCEPT ![0] = "reuse"]
      /\ UNCHANGED <<load, len, write, buf, launched, copied, dest>>
  BY <1>0 DEF Sync, StreamTypeOK
<1>2. LoopInv'
  BY <1>0, <1>1 DEF LoopInv, Passed
<1>3. StreamTypeOK'
  BY <1>0, <1>1 DEF StreamTypeOK
<1>4. Submitted' = Submitted
  BY <1>1 DEF Submitted
<1>5. WriteInv' /\ BufInv' /\ StreamIntact'
  BY <1>0, <1>1, <1>4, KeepsBuf, KeepsIntact DEF WriteInv
<1> QED
  BY <1>2, <1>3, <1>5 DEF StreamInv

(* Here rank 0 waits for its own copy out of the half it gives away.       *)
LEMMA ReuseStep == StreamInv /\ Reuse => StreamInv'
<1> SUFFICES ASSUME StreamInv, Reuse PROVE StreamInv'
  OBVIOUS
<1> USE Ranks, StreamAssumption
<1>0. StreamTypeOK /\ LoopInv /\ WriteInv /\ BufInv /\ StreamIntact
  BY DEF StreamInv
<1>1. /\ pc[0] = "reuse" /\ launched[0] < len /\ len \in 1 .. MaxLen
      /\ launched[0] \in Nat /\ copied[0] \in Nat
      /\ pc \in [Rank -> {"start", "sync", "reuse", "barrier", "copy", "drain"}]
      /\ pc' = [pc EXCEPT ![0] = "barrier"]
      /\ UNCHANGED <<load, len, launched, copied, dest>>
  BY <1>0 DEF Reuse, LoopInv, StreamTypeOK
<1>2. LoopInv'
  BY <1>0, <1>1 DEF LoopInv, Passed
<1>3. StreamIntact'
  BY <1>0, <1>1, KeepsIntact
<1>4. Submitted = launched[0] + 1 /\ write = Idle
  BY <1>0, <1>1 DEF Submitted, WriteInv
<1>5. CASE launched[0] + 1 < len
  <2>1. HalfFree(launched[0]) /\ SubmitWrite(Submitted)
    BY <1>4, <1>5 DEF Reuse
  <2>2. Submitted' = Submitted + 1 /\ Submitted < MaxLen /\ write' = launched[0] + 1
    BY <1>1, <1>4, <1>5, <2>1 DEF Submitted, SubmitWrite
  <2>3. BufInv' /\ buf' \in [Rank -> [Half -> Bytes]] /\ write' \in 0 .. MaxLen - 1
    BY <1>0, <1>1, <1>4, <2>1, <2>2, SubmitKeepsBuf
  <2>4. WriteInv'
    BY <1>1, <1>4, <1>5, <2>1, <2>2 DEF WriteInv, HalfFree
  <2>5. StreamTypeOK'
    BY <1>0, <1>1, <2>3 DEF StreamTypeOK
  <2> QED
    BY <1>2, <1>3, <2>3, <2>4, <2>5 DEF StreamInv
<1>6. CASE ~(launched[0] + 1 < len)
  <2>1. UNCHANGED <<write, buf>>
    BY <1>6 DEF Reuse
  <2>2. Submitted' = Submitted
    BY <1>1, <1>4, <1>6 DEF Submitted
  <2>3. BufInv' /\ WriteInv'
    BY <1>0, <1>1, <1>4, <2>1, <2>2, KeepsBuf DEF WriteInv
  <2>4. StreamTypeOK'
    BY <1>0, <1>1, <2>1 DEF StreamTypeOK
  <2> QED
    BY <1>2, <1>3, <2>3, <2>4 DEF StreamInv
<1> QED
  BY <1>5, <1>6

LEMMA BarrierStep == StreamInv /\ Barrier => StreamInv'
<1> SUFFICES ASSUME StreamInv, Barrier PROVE StreamInv'
  OBVIOUS
<1> USE Ranks, StreamAssumption
<1>0. StreamTypeOK /\ LoopInv /\ WriteInv /\ BufInv /\ StreamIntact
  BY DEF StreamInv
<1>1. /\ \A r \in Rank : pc[r] = "barrier"
      /\ pc' = [r \in Rank |-> "copy"]
      /\ UNCHANGED <<load, len, write, buf, launched, copied, dest>>
  BY DEF Barrier
<1>2. LoopInv'
  BY <1>0, <1>1 DEF LoopInv, Passed
<1>3. StreamTypeOK'
  BY <1>0, <1>1 DEF StreamTypeOK
<1>4. Submitted' = Submitted
  BY <1>1 DEF Submitted
<1>5. WriteInv' /\ BufInv' /\ StreamIntact'
  BY <1>0, <1>1, <1>4, KeepsBuf, KeepsIntact DEF WriteInv
<1> QED
  BY <1>2, <1>3, <1>5 DEF StreamInv

LEMMA LaunchStep == ASSUME StreamInv, NEW r \in Rank, Launch(r) PROVE StreamInv'
<1> USE Ranks, StreamAssumption
<1>0. StreamTypeOK /\ LoopInv /\ WriteInv /\ BufInv /\ StreamIntact
  BY DEF StreamInv
<1>1. /\ pc[r] = "copy" /\ launched[r] < len /\ len \in 1 .. MaxLen
      /\ pc \in [Rank -> {"start", "sync", "reuse", "barrier", "copy", "drain"}]
      /\ launched \in [Rank -> 0 .. MaxLen] /\ copied \in [Rank -> 0 .. MaxLen]
  BY <1>0 DEF Launch, LoopInv, StreamTypeOK
<1>2. /\ launched' = [launched EXCEPT ![r] = launched[r] + 1]
      /\ pc' = [pc EXCEPT ![r] = IF launched[r] + 1 = len THEN "drain"
                                 ELSE IF r = 0 THEN "sync" ELSE "barrier"]
      /\ UNCHANGED <<load, len, write, buf, copied, dest>>
  BY DEF Launch
<1>3. LoopInv'
  BY <1>0, <1>1, <1>2 DEF LoopInv, Passed
<1>4. StreamTypeOK'
  BY <1>0, <1>1, <1>2 DEF StreamTypeOK
<1>5. Submitted' = Submitted
  BY <1>1, <1>2 DEF Submitted
<1>6. WriteInv'
  BY <1>0, <1>1, <1>2, <1>5 DEF WriteInv
<1>7. BufInv' /\ StreamIntact'
  BY <1>0, <1>2, <1>5, KeepsBuf, KeepsIntact
<1> QED
  BY <1>3, <1>4, <1>6, <1>7 DEF StreamInv

LEMMA NextLoadStep == StreamInv /\ NextLoad => StreamInv'
<1> SUFFICES ASSUME StreamInv, NextLoad PROVE StreamInv'
  OBVIOUS
<1> USE Ranks, StreamAssumption
<1>0. StreamTypeOK /\ LoopInv /\ WriteInv /\ BufInv /\ StreamIntact
  BY DEF StreamInv
<1>1. /\ pc[0] = "drain" /\ load' = 1 - load /\ len' \in 1 .. MaxLen
      /\ pc' = [r \in Rank |-> "start"]
      /\ launched' = [r \in Rank |-> 0]
      /\ copied' = [r \in Rank |-> 0]
      /\ UNCHANGED <<write, buf, dest>>
  BY DEF NextLoad
<1>2. LoopInv'
  BY <1>1 DEF LoopInv, Passed
<1>3. StreamTypeOK'
  BY <1>0, <1>1 DEF StreamTypeOK
<1>4. Submitted' = 0 /\ write' = Idle /\ copied'[0] = 0
  BY <1>0, <1>1 DEF Submitted, WriteInv
<1>5. WriteInv' /\ BufInv'
  BY <1>4 DEF WriteInv, BufInv
<1>6. StreamIntact'
  BY <1>1 DEF StreamIntact, LeadCopiesIntact, ShortCopiesIntact, CopiesIntact, NeverTooEarly
<1> QED
  BY <1>2, <1>3, <1>5, <1>6 DEF StreamInv

(* A copy moves a half whose last position is its own, or a later one.     *)
LEMMA CopyStep == ASSUME StreamInv, NEW r \in Rank, Copy(r) PROVE StreamInv'
<1> USE Ranks, StreamAssumption
<1>0. StreamTypeOK /\ LoopInv /\ WriteInv /\ BufInv /\ StreamIntact
  BY DEF StreamInv
<1> DEFINE i == copied[r]
           b == buf[r][i % 2]
<1>1. /\ i < launched[r] /\ i \in Nat
      /\ dest' = [dest EXCEPT ![r][i] = b]
      /\ copied' = [copied EXCEPT ![r] = i + 1]
      /\ UNCHANGED <<load, len, pc, write, buf, launched>>
  BY <1>0 DEF Copy, StreamTypeOK
<1>2. i \in 0 .. MaxLen - 1 /\ i < Submitted /\ write # i
  BY <1>0, <1>1, PendingCopies
<1>3. i % 2 \in Half /\ b \in Bytes /\ launched[r] \in 0 .. MaxLen
  BY <1>0, <1>2, Parity DEF StreamTypeOK
<1>4. /\ b.load = load /\ b.pos >= i
      /\ i + 2 >= Submitted => b.pos = i
      /\ b.pos # write => b.whole
  BY <1>0, <1>2 DEF BufInv
<1>5. b.pos = i => b = Whole(i)
  BY <1>2, <1>3, <1>4 DEF Bytes, Whole
<1>6. /\ dest \in [Rank -> [0 .. MaxLen - 1 -> Bytes]]
      /\ copied \in [Rank -> 0 .. MaxLen]
      /\ len \in 1 .. MaxLen /\ Submitted \in 0 .. len
  BY <1>0, SubmittedBounds DEF StreamTypeOK
<1>7. StreamTypeOK'
  <2>1. dest' \in [Rank -> [0 .. MaxLen - 1 -> Bytes]]
    BY <1>1, <1>2, <1>3, <1>6
  <2>2. copied' \in [Rank -> 0 .. MaxLen]
    BY <1>1, <1>2, <1>6
  <2> QED
    BY <1>0, <1>1, <2>1, <2>2 DEF StreamTypeOK
<1>8. Submitted' = Submitted
  BY <1>1 DEF Submitted
<1>9. LoopInv'
  BY <1>0, <1>1, <1>3, <1>6 DEF LoopInv, Passed
<1>10. WriteInv'
  BY <1>0, <1>1, <1>6, <1>8 DEF WriteInv
<1>11. BufInv'
  BY <1>0, <1>1, <1>8, KeepsBuf
<1>12. ASSUME NEW q \in Rank, NEW j \in 0 .. copied'[q] - 1
       PROVE  \/ q = r /\ j = i /\ dest'[q][j] = b
              \/ j \in 0 .. copied[q] - 1 /\ dest'[q][j] = dest[q][j]
  BY <1>1, <1>2, <1>6
<1>13. LeadCopiesIntact'
  <2> SUFFICES ASSUME NEW j \in 0 .. copied'[0] - 1 PROVE dest'[0][j] = Whole(j)
    BY <1>1 DEF LeadCopiesIntact, Whole
  <2>1. CASE r = 0 /\ j = i /\ dest'[0][j] = b
    BY <2>1, <1>0, <1>2, <1>4, <1>5, <1>6 DEF WriteInv
  <2>2. CASE j \in 0 .. copied[0] - 1 /\ dest'[0][j] = dest[0][j]
    BY <2>2, <1>0 DEF StreamIntact, LeadCopiesIntact
  <2> QED
    BY <1>12, <2>1, <2>2
<1>14. ShortCopiesIntact'
  <2> SUFFICES ASSUME len <= 2, NEW q \in Rank, NEW j \in 0 .. copied'[q] - 1
               PROVE  dest'[q][j] = Whole(j)
    BY <1>1 DEF ShortCopiesIntact, CopiesIntact, Whole
  <2>1. CASE q = r /\ j = i /\ dest'[q][j] = b
    BY <2>1, <1>2, <1>4, <1>5, <1>6
  <2>2. CASE j \in 0 .. copied[q] - 1 /\ dest'[q][j] = dest[q][j]
    BY <2>2, <1>0 DEF StreamIntact, ShortCopiesIntact, CopiesIntact
  <2> QED
    BY <1>12, <2>1, <2>2
<1>15. NeverTooEarly'
  <2> SUFFICES ASSUME NEW q \in Rank, NEW j \in 0 .. copied'[q] - 1
               PROVE  /\ dest'[q][j].load = load
                      /\ dest'[q][j].pos >= j
                      /\ dest'[q][j].pos = j => dest'[q][j].whole
    BY <1>1 DEF NeverTooEarly
  <2>1. CASE q = r /\ j = i /\ dest'[q][j] = b
    BY <2>1, <1>2, <1>4
  <2>2. CASE j \in 0 .. copied[q] - 1 /\ dest'[q][j] = dest[q][j]
    BY <2>2, <1>0 DEF StreamIntact, NeverTooEarly
  <2> QED
    BY <1>12, <2>1, <2>2
<1> QED
  BY <1>7, <1>9, <1>10, <1>11, <1>13, <1>14, <1>15 DEF StreamInv, StreamIntact

-----------------------------------------------------------------------------

LEMMA StreamInvHolds == StreamSpec => []StreamInv
<1>1. StreamInit => StreamInv
  <2> SUFFICES ASSUME StreamInit PROVE StreamInv
    OBVIOUS
  <2> USE Ranks, StreamAssumption
  <2>1. StreamTypeOK
    BY DEF StreamInit, StreamTypeOK, Bytes, Half
  <2>2. LoopInv
    BY DEF StreamInit, LoopInv, Passed
  <2>3. Submitted = 0 /\ write = Idle /\ copied[0] = 0
    BY DEF StreamInit, Submitted
  <2>4. WriteInv /\ BufInv
    BY <2>3 DEF WriteInv, BufInv
  <2>5. StreamIntact
    BY DEF StreamInit, StreamIntact, LeadCopiesIntact, ShortCopiesIntact, CopiesIntact, NeverTooEarly
  <2> QED
    BY <2>1, <2>2, <2>4, <2>5 DEF StreamInv
<1>2. StreamInv /\ [StreamNext]_streamVars => StreamInv'
  <2> SUFFICES ASSUME StreamInv, [StreamNext]_streamVars PROVE StreamInv'
    OBVIOUS
  <2>1. CASE StreamNext
    BY <2>1, WriteDoneStep, SyncStep, ReuseStep, BarrierStep, NextLoadStep,
       StartStep, LaunchStep, CopyStep DEF StreamNext
  <2>2. CASE UNCHANGED streamVars
    BY <2>2 DEF streamVars, StreamInv, StreamTypeOK, LoopInv, Passed, WriteInv, BufInv, Submitted,
       StreamIntact, LeadCopiesIntact, ShortCopiesIntact, CopiesIntact, NeverTooEarly, Whole
  <2> QED
    BY <2>1, <2>2
<1> QED
  BY <1>1, <1>2, PTL DEF StreamSpec

(* Every reachable state of the pipeline is well typed.                    *)
THEOREM PipelineTypes == StreamSpec => []StreamTypeOK
<1>1. StreamInv => StreamTypeOK
  BY DEF StreamInv
<1> QED
  BY <1>1, StreamInvHolds, PTL

(* For any world size and any length of a load: rank 0's copies move the   *)
(* whole weights of their own expert, in a load of at most two experts so  *)
(* do those of every rank, and no rank copies before the write is over.    *)
THEOREM CopiesAreIntact == StreamSpec => []StreamIntact
<1>1. StreamInv => StreamIntact
  BY DEF StreamInv
<1> QED
  BY <1>1, StreamInvHolds, PTL

-----------------------------------------------------------------------------
(* The three-tier selector (TierPolicy).                                    *)

LEMMA ExpertsAreFinite ==
    ASSUME NEW S \in SUBSET Expert
    PROVE  IsFiniteSet(S) /\ Cardinality(S) \in Nat
BY PairSwapAssumption, FS_Subset, FS_CardinalityType

(* A nonempty set of naturals up to n has a greatest member: the initial   *)
(* segments left above its members are finite sets, and one is least.      *)
LEMMA MaxOfBounded ==
    ASSUME NEW n \in Nat, NEW K \in SUBSET (0 .. n), K # {}
    PROVE  Max(K) \in K
<1> DEFINE S == 0 .. n
           T == {k .. n : k \in K}
           R == StrictSubsetOrdering(S)
<1>1. IsWellFoundedOn(R, FiniteSubsetsOf(S)) /\ T \subseteq FiniteSubsetsOf(S) /\ T # {}
  <2>1. IsFiniteSet(S)
    BY FS_Interval
  <2>2. T \subseteq SUBSET S
    <3> SUFFICES ASSUME NEW k \in K PROVE k .. n \subseteq S
      OBVIOUS
    <3>1. k \in Nat
      OBVIOUS
    <3> QED
      BY <3>1
  <2>3. T # {}
    <3>1. PICK k \in K : TRUE
      OBVIOUS
    <3>2. k .. n \in T
      OBVIOUS
    <3> QED
      BY <3>2
  <2> HIDE DEF T, S
  <2> QED
    BY <2>1, <2>2, <2>3, FS_StrictSubsetOrderingWellFounded, FS_FiniteSubsetsOfFinite
<1>2. PICK X \in T : \A Y \in T : ~ (<<Y, X>> \in R)
  <2> HIDE DEF R, T, S
  <2> QED
    BY <1>1, WFMin
<1>3. PICK m \in K : X = m .. n
  BY <1>2
<1>4. ASSUME NEW k \in K PROVE m >= k
  <2> SUFFICES ASSUME k > m PROVE FALSE
    OBVIOUS
  <2>1. k .. n \in T /\ k .. n \in SUBSET S /\ X \in SUBSET S
    BY <1>3
  <2>2. k .. n \subseteq X /\ k .. n # X
    <3>1. m \in X /\ m \notin k .. n
      BY <1>3
    <3> QED
      BY <1>3, <3>1
  <2>3. <<k .. n, X>> \in R
    BY <2>1, <2>2 DEF StrictSubsetOrdering
  <2> QED
    BY <1>2, <2>1, <2>3
<1> QED
  BY <1>4 DEF Max

LEMMA MinOfTwo ==
    ASSUME NEW a \in Nat, NEW b \in Nat
    PROVE  Min({a, b}) = IF a <= b THEN a ELSE b
BY DEF Min

LEMMA MinOfThree ==
    ASSUME NEW a \in Nat, NEW b \in Nat, NEW c \in Nat
    PROVE  /\ Min({a, b, c}) \in Nat
           /\ Min({a, b, c}) <= a /\ Min({a, b, c}) <= b /\ Min({a, b, c}) <= c
<1>1. PICK x \in {a, b, c} : \A y \in {a, b, c} : x <= y
  <2>1. CASE a <= b /\ a <= c
    BY <2>1
  <2>2. CASE b <= a /\ b <= c
    BY <2>2
  <2>3. CASE c <= a /\ c <= b
    BY <2>3
  <2> QED
    BY <2>1, <2>2, <2>3
<1> QED
  BY <1>1 DEF Min

(* The first k of an order without repetitions are k members.              *)
LEMMA FirstCounts ==
    ASSUME NEW S \in SUBSET Expert, NEW o \in Bijection(1 .. Cardinality(S), S),
           NEW k \in Nat, k <= Cardinality(S)
    PROVE  First(o, k) \subseteq S /\ Cardinality(First(o, k)) = k
<1>1. Cardinality(S) \in Nat
  BY ExpertsAreFinite
<1>2. o \in [1 .. Cardinality(S) -> S] /\ \A i, j \in 1 .. Cardinality(S) : o[i] = o[j] => i = j
  BY DEF Bijection, Injection, IsInjective
<1>3. First(o, k) \subseteq S
  BY <1>1, <1>2 DEF First
<1> DEFINE f == [i \in 1 .. k |-> o[i]]
<1>4. f \in Bijection(1 .. k, First(o, k))
  BY <1>1, <1>2 DEF First, Bijection, Injection, Surjection, IsInjective
<1>5. Cardinality(First(o, k)) = k
  BY <1>4, FS_CountingElements DEF ExistsBijection
<1> QED
  BY <1>3, <1>5

(* Never more swaps than the budget, the incumbents or the challengers.    *)
LEMMA SwapsBounded ==
    ASSUME NEW cnt, NEW margin, NEW gain, NEW budget \in Nat,
           NEW res \in SUBSET Expert, NEW cand \in SUBSET Expert,
           NEW inc \in Bijection(1 .. Cardinality(res), res),
           NEW ch \in Bijection(1 .. Cardinality(cand), cand)
    PROVE  LET k == Swaps(cnt, inc, ch, budget, margin, gain)
           IN  k \in Nat /\ k <= budget /\ k <= Cardinality(res) /\ k <= Cardinality(cand)
<1> DEFINE n == Min({budget, Cardinality(DOMAIN inc), Cardinality(DOMAIN ch)})
           K == {k \in 0 .. n : \A i \in 1 .. k : Wins(cnt, ch[i], inc[i], margin, gain)}
<1>1. Cardinality(res) \in Nat /\ Cardinality(cand) \in Nat
  BY ExpertsAreFinite
<1>2. DOMAIN inc = 1 .. Cardinality(res) /\ DOMAIN ch = 1 .. Cardinality(cand)
  BY DEF Bijection, Injection
<1>3. Cardinality(DOMAIN inc) = Cardinality(res) /\ Cardinality(DOMAIN ch) = Cardinality(cand)
  <2>1. \A m \in Nat : Cardinality(1 .. m) = m
    <3> SUFFICES ASSUME NEW m \in Nat PROVE Cardinality(1 .. m) = m
      OBVIOUS
    <3>1. Cardinality(1 .. m) = IF 1 > m THEN 0 ELSE m - 1 + 1
      BY FS_Interval
    <3> QED
      BY <3>1
  <2> QED
    BY <1>1, <1>2, <2>1
<1>4. n \in Nat /\ n <= budget /\ n <= Cardinality(res) /\ n <= Cardinality(cand)
  BY <1>1, <1>3, MinOfThree
<1>5. K \in SUBSET (0 .. n) /\ 0 \in K
  <2> HIDE DEF n
  <2> QED
    BY <1>4
<1>6. Max(K) \in K
  <2> HIDE DEF n, K
  <2> QED
    BY <1>4, <1>5, MaxOfBounded
<1>7. Swaps(cnt, inc, ch, budget, margin, gain) = Max(K)
  BY DEF Swaps
<1>8. Max(K) \in 0 .. n
  <2> HIDE DEF n, K
  <2> QED
    BY <1>5, <1>6
<1> HIDE DEF n, K
<1> QED
  BY <1>1, <1>4, <1>7, <1>8

(* Taking k members away and as many others in keeps the size.             *)
LEMMA ExchangeKeepsSize ==
    ASSUME NEW res \in SUBSET Expert, NEW cand \in SUBSET Expert, res \cap cand = {},
           NEW A \in SUBSET res, NEW B \in SUBSET cand, Cardinality(A) = Cardinality(B)
    PROVE  LET new == (res \ A) \cup B
           IN  Cardinality(new) = Cardinality(res) /\ new \ res = B
<1>1. /\ IsFiniteSet(res) /\ IsFiniteSet(res \ A) /\ IsFiniteSet(B)
      /\ Cardinality(res) \in Nat /\ Cardinality(A) \in Nat
  BY ExpertsAreFinite
<1>2. Cardinality(res \ A) = Cardinality(res) - Cardinality(A)
  <2>1. res \cap A = A
    OBVIOUS
  <2> QED
    BY <1>1, <2>1, FS_Difference
<1>3. Cardinality((res \ A) \cup B) = Cardinality(res \ A) + Cardinality(B)
  <2>1. (res \ A) \cap B = {}
    OBVIOUS
  <2>2. Cardinality(res \ A) \in Nat /\ Cardinality(B) \in Nat
    BY ExpertsAreFinite
  <2>3. Cardinality((res \ A) \cup B) = Cardinality(res \ A) + Cardinality(B) - Cardinality((res \ A) \cap B)
    BY <1>1, FS_Union
  <2> QED
    BY <2>1, <2>2, <2>3, FS_EmptySet
<1> QED
  BY <1>1, <1>2, <1>3

LEMMA SwapInKeepsSize ==
    ASSUME NEW cnt, NEW margin, NEW gain, NEW budget \in Nat,
           NEW res \in SUBSET Expert, NEW cand \in SUBSET Expert, res \cap cand = {},
           NEW new \in SwapIn(cnt, res, cand, budget, margin, gain)
    PROVE  /\ new \subseteq res \cup cand
           /\ Cardinality(new) = Cardinality(res)
           /\ Cardinality(new \ res) <= budget
<1>1. PICK inc \in WeakestFirst(cnt, res), ch \in HottestFirst(cnt, cand) :
          new = LET k == Swaps(cnt, inc, ch, budget, margin, gain)
                IN  (res \ First(inc, k)) \cup First(ch, k)
  BY DEF SwapIn
<1>2. inc \in Bijection(1 .. Cardinality(res), res) /\ ch \in Bijection(1 .. Cardinality(cand), cand)
  BY <1>1 DEF WeakestFirst, HottestFirst
<1> DEFINE k == Swaps(cnt, inc, ch, budget, margin, gain)
<1>3. k \in Nat /\ k <= budget /\ k <= Cardinality(res) /\ k <= Cardinality(cand)
  BY <1>2, SwapsBounded
<1>4. new = (res \ First(inc, k)) \cup First(ch, k)
  BY <1>1
<1> HIDE DEF k
<1>5. First(inc, k) \subseteq res /\ Cardinality(First(inc, k)) = k
  BY <1>2, <1>3, FirstCounts
<1>6. First(ch, k) \subseteq cand /\ Cardinality(First(ch, k)) = k
  BY <1>2, <1>3, FirstCounts
<1>7. Cardinality(new) = Cardinality(res) /\ new \ res = First(ch, k)
  <2>1. First(inc, k) \in SUBSET res /\ First(ch, k) \in SUBSET cand
    BY <1>5, <1>6
  <2>2. Cardinality(First(inc, k)) = Cardinality(First(ch, k))
    BY <1>5, <1>6
  <2> QED
    BY <1>4, <2>1, <2>2, ExchangeKeepsSize
<1> QED
  BY <1>3, <1>4, <1>5, <1>6, <1>7

LEMMA ResizeIsExact ==
    ASSUME NEW cnt, NEW pool \in SUBSET Expert, NEW cur \in SUBSET pool,
           NEW n \in Nat, n <= Cardinality(pool),
           NEW new \in Resize(cnt, cur, pool, n)
    PROVE  new \subseteq pool /\ Cardinality(new) = n
<1> DEFINE size == Cardinality(cur)
           rest == pool \ cur
<1>1. /\ cur \in SUBSET Expert /\ rest \in SUBSET Expert /\ size \in Nat
      /\ Cardinality(pool) \in Nat /\ Cardinality(rest) \in Nat
  BY ExpertsAreFinite
<1>2. CASE size > n
  <2>1. PICK o \in WeakestFirst(cnt, cur) : new = cur \ First(o, size - n)
    BY <1>2 DEF Resize
  <2>2. First(o, size - n) \subseteq cur /\ Cardinality(First(o, size - n)) = size - n
    <3>1. o \in Bijection(1 .. Cardinality(cur), cur) /\ size - n \in Nat /\ size - n <= Cardinality(cur)
      BY <1>1, <1>2, <2>1 DEF WeakestFirst
    <3> QED
      BY <1>1, <3>1, FirstCounts
  <2>3. Cardinality(new) = size - (size - n)
    <3>1. cur \cap First(o, size - n) = First(o, size - n) /\ IsFiniteSet(cur)
      BY <1>1, <2>2, ExpertsAreFinite
    <3>2. Cardinality(cur \ First(o, size - n)) = Cardinality(cur) - Cardinality(cur \cap First(o, size - n))
      BY <3>1, FS_Difference
    <3> QED
      BY <2>1, <2>2, <3>1, <3>2
  <2> QED
    BY <1>1, <2>1, <2>3
<1>3. CASE ~ (size > n)
  <2>1. Cardinality(rest) = Cardinality(pool) - size
    <3>1. pool \cap cur = cur /\ IsFiniteSet(pool)
      BY ExpertsAreFinite
    <3> QED
      BY <3>1, FS_Difference
  <2>2. Min({n - size, Cardinality(rest)}) = n - size /\ n - size \in Nat /\ n - size <= Cardinality(rest)
    <3>1. n - size \in Nat /\ n - size <= Cardinality(rest)
      BY <1>1, <1>3, <2>1
    <3> HIDE DEF size, rest
    <3> QED
      BY <1>1, <3>1, MinOfTwo
  <2>3. PICK o \in HottestFirst(cnt, rest) : new = cur \cup First(o, n - size)
    BY <1>3, <2>2 DEF Resize
  <2>4. First(o, n - size) \subseteq rest /\ Cardinality(First(o, n - size)) = n - size
    <3>1. o \in Bijection(1 .. Cardinality(rest), rest)
      BY <2>3 DEF HottestFirst
    <3> QED
      BY <1>1, <2>2, <3>1, FirstCounts
  <2>5. Cardinality(new) = size + (n - size) - 0
    <3>1. cur \cap First(o, n - size) = {} /\ IsFiniteSet(cur) /\ IsFiniteSet(First(o, n - size))
      BY <1>1, <2>4, ExpertsAreFinite
    <3>2. Cardinality(cur \cup First(o, n - size))
              = Cardinality(cur) + Cardinality(First(o, n - size)) - Cardinality(cur \cap First(o, n - size))
      BY <3>1, FS_Union
    <3> QED
      BY <2>3, <2>4, <3>1, <3>2, FS_EmptySet
  <2> QED
    BY <1>1, <2>3, <2>4, <2>5
<1> QED
  BY <1>2, <1>3

(* The RAM tier is challenged by what is neither on the GPU nor in it.     *)
LEMMA RamExchange ==
    ASSUME NEW cnt, NEW pool \in SUBSET Expert, NEW sized \in SUBSET pool,
           NEW new \in SwapIn(cnt, sized, pool \ sized, MaxRamMove, RamMargin, RamMinGain)
    PROVE  new \subseteq pool /\ Cardinality(new) = Cardinality(sized)
<1> DEFINE rest == pool \ sized
<1>1. MaxRamMove \in Nat
  BY SelectAssumption
<1>2. rest \in SUBSET Expert /\ sized \in SUBSET Expert /\ sized \cap rest = {}
  OBVIOUS
<1>3. new \in SwapIn(cnt, sized, rest, MaxRamMove, RamMargin, RamMinGain)
  OBVIOUS
<1> HIDE DEF rest
<1>4. new \subseteq sized \cup rest /\ Cardinality(new) = Cardinality(sized)
  <2>1. /\ new \subseteq sized \cup rest
        /\ Cardinality(new) = Cardinality(sized)
        /\ Cardinality(new \ sized) <= MaxRamMove
    BY <1>1, <1>2, <1>3, SwapInKeepsSize
  <2> QED
    BY <2>1
<1> QED
  BY <1>4 DEF rest

(* One selection: _kt_tier_select on disjoint tiers returns a cut.         *)
LEMMA SelectTiersCuts ==
    ASSUME NEW cnt, NEW g \in SUBSET Expert, NEW r \in SUBSET Expert, g \cap r = {},
           NEW d \in SelectTiers(cnt, g, r, Cardinality(r))
    PROVE  d \in TierCuts(Expert, g, r, MaxPromote)
<1>1. PICK newGpu \in SwapIn(cnt, g, r, MaxPromote, Margin, MinGain) :
          d \in LET pool == Expert \ newGpu
                    cur  == (r \cap pool) \cup (g \ newGpu)
                IN  UNION { { [gpu |-> newGpu, ram |-> newRam] :
                                newRam \in SwapIn(cnt, sized, pool \ sized,
                                                  MaxRamMove, RamMargin, RamMinGain) } :
                            sized \in Resize(cnt, cur, pool, Cardinality(r)) }
  BY DEF SelectTiers
<1> DEFINE pool == Expert \ newGpu
           cur == (r \cap pool) \cup (g \ newGpu)
<1>2. PICK sized \in Resize(cnt, cur, pool, Cardinality(r)) :
      \E newRam \in SwapIn(cnt, sized, pool \ sized, MaxRamMove, RamMargin, RamMinGain) :
          d = [gpu |-> newGpu, ram |-> newRam]
  BY <1>1
<1>3. PICK newRam \in SwapIn(cnt, sized, pool \ sized, MaxRamMove, RamMargin, RamMinGain) :
          d = [gpu |-> newGpu, ram |-> newRam]
  BY <1>2
<1>4. /\ newGpu \subseteq g \cup r
      /\ Cardinality(newGpu) = Cardinality(g)
      /\ Cardinality(newGpu \ g) <= MaxPromote
  BY SelectAssumption, SwapInKeepsSize
<1>5. pool \in SUBSET Expert /\ cur \in SUBSET pool
  OBVIOUS
<1>6. Cardinality(r) \in Nat /\ Cardinality(r) <= Cardinality(pool)
  <2>1. /\ IsFiniteSet(Expert) /\ IsFiniteSet(g) /\ IsFiniteSet(r)
        /\ Cardinality(Expert) \in Nat /\ Cardinality(g) \in Nat /\ Cardinality(r) \in Nat
    BY ExpertsAreFinite
  <2>2. Cardinality(g \cup r) = Cardinality(g) + Cardinality(r)
    <3>1. Cardinality(g \cup r) = Cardinality(g) + Cardinality(r) - Cardinality(g \cap r)
      BY <2>1, FS_Union
    <3>2. Cardinality(g \cap r) = 0
      BY FS_EmptySet
    <3> HIDE DEF pool, cur
    <3> QED
      BY <2>1, <3>1, <3>2
  <2>3. Cardinality(g \cup r) <= Cardinality(Expert)
    BY <2>1, FS_Subset
  <2>4. Cardinality(pool) = Cardinality(Expert) - Cardinality(newGpu)
    <3>1. Expert \cap newGpu = newGpu
      BY <1>4
    <3> QED
      BY <2>1, <3>1, FS_Difference
  <2> QED
    BY <1>4, <2>1, <2>2, <2>3, <2>4
<1>7. sized \subseteq pool /\ Cardinality(sized) = Cardinality(r)
  <2> HIDE DEF pool, cur
  <2> QED
    BY <1>5, <1>6, ResizeIsExact
<1>8. newRam \subseteq pool /\ Cardinality(newRam) = Cardinality(sized)
  <2> HIDE DEF pool
  <2> QED
    BY <1>3, <1>5, <1>7, RamExchange
<1> QED
  BY <1>3, <1>4, <1>7, <1>8 DEF TierCuts

(* A tick without enough demand keeps the tiers, which is a cut as well.   *)
LEMMA DecisionCuts ==
    ASSUME TypeOK, NEW d \in TierDecision(counts, gpu, ram, Cardinality(ram))
    PROVE  d \in TierCuts(Expert, gpu, ram, MaxPromote)
<1>1. gpu \in SUBSET Expert /\ ram \in SUBSET Expert /\ gpu \cap ram = {}
  BY DEF TypeOK, kSubset
<1>2. CASE d = [gpu |-> gpu, ram |-> ram]
  <2>1. gpu \ gpu = {} /\ Cardinality({}) = 0 /\ MaxPromote \in Nat
    BY FS_EmptySet, SelectAssumption
  <2> QED
    BY <1>1, <1>2, <2>1 DEF TierCuts
<1>3. CASE d \in SelectTiers(counts, gpu, ram, Cardinality(ram))
  BY <1>1, <1>3, SelectTiersCuts
<1> QED
  BY <1>2, <1>3 DEF TierDecision

LEMMA TickCuts ==
    ASSUME TypeOK, Tick
    PROVE  [gpu |-> gpu', ram |-> ram'] \in TierCuts(Expert, gpu, ram, MaxPromote)
<1>1. PICK d \in TierDecision(counts, gpu, ram, Cardinality(ram)) : gpu' = d.gpu /\ ram' = d.ram
  BY DEF Tick
<1>2. d \in TierCuts(Expert, gpu, ram, MaxPromote)
  BY <1>1, DecisionCuts
<1>3. d = [gpu |-> d.gpu, ram |-> d.ram]
  BY <1>2 DEF TierCuts
<1> QED
  BY <1>1, <1>2, <1>3

LEMMA TypeInvariant == Spec => []TypeOK
<1>1. Init => TypeOK
  BY DEF Init, TypeOK
<1>2. TypeOK /\ [Next]_vars => TypeOK'
  <2> SUFFICES ASSUME TypeOK, [Next]_vars PROVE TypeOK'
    OBVIOUS
  <2>1. CASE Tick
    <3>1. counts' = counts
      BY <2>1 DEF Tick
    <3> QED
      BY <2>1, <3>1, TickCuts DEF TypeOK, TierCuts, kSubset
  <2>2. CASE UNCHANGED vars
    BY <2>2 DEF vars, TypeOK
  <2> QED
    BY <2>1, <2>2 DEF Next
<1> QED
  BY <1>1, <1>2, PTL DEF Spec

(* Every tick of the selector, from any tiers of the configured sizes and  *)
(* on any demand, returns a cut that the mover of ExpertTiers may apply:   *)
(* sizes kept, tiers disjoint, GPU arrivals out of host RAM and within     *)
(* KT_TIER_MAX_PROMOTE (_kt_tier_select, _kt_tier_update_layer).           *)
THEOREM TicksKeepContract == Spec => KeepsContract
<1>1. TypeOK /\ [Next]_vars =>
        [[gpu |-> gpu', ram |-> ram'] \in TierCuts(Expert, gpu, ram, MaxPromote)]_vars
  BY TickCuts DEF Next
<1> QED
  BY <1>1, TypeInvariant, PTL DEF Spec, KeepsContract

-----------------------------------------------------------------------------
(* The weighted selector of routed batches (BatchSelect).                   *)

BatchInv ==
    /\ score \in [BatchExperts -> Nat] /\ resident \subseteq BatchExperts
    /\ Batches!AlwaysFull /\ Batches!NewcomersEarnIt /\ Batches!GraceHonoured

(* The selector counts and compares with the operators used here.           *)
LEMMA SameCardinality == ASSUME NEW S PROVE Batches!Cardinality(S) = Cardinality(S)
BY DEF Batches!Cardinality, Cardinality

LEMMA SameFinite == ASSUME NEW S PROVE Batches!IsFiniteSet(S) = IsFiniteSet(S)
BY DEF Batches!IsFiniteSet, IsFiniteSet

LEMMA SameMin == ASSUME NEW S PROVE Batches!Min(S) = Min(S)
BY DEF Batches!Min, Min

LEMMA BatchFacts ==
    /\ IsFiniteSet(BatchExperts) /\ Keep \in Nat \ {0} /\ RowRanks \in Nat
    /\ RankCredit \in [1 .. RowRanks -> Nat]
    /\ ResidentBonus \in Nat /\ PromotionCost \in Nat /\ LeastSwap \in Nat /\ MostSwap \in Nat
    /\ \A row \in RouterRows \cup {SettledRow} : row \in Seq(BatchExperts) /\ Len(row) <= RowRanks
<1>1. Batches!SelectAssumption
  BY PoliciesAssumption DEF PoliciesAssumption
<1>2. IsFiniteSet(BatchExperts) /\ Keep \in 1 .. Cardinality(BatchExperts)
  BY <1>1, SameFinite, SameCardinality DEF Batches!SelectAssumption
<1>3. Cardinality(BatchExperts) \in Nat
  BY <1>2, FS_CardinalityType
<1> QED
  BY <1>1, <1>2, <1>3 DEF Batches!SelectAssumption

LEMMA SubsetsAreFinite ==
    ASSUME NEW S \in SUBSET BatchExperts
    PROVE  IsFiniteSet(S) /\ Cardinality(S) \in Nat /\ Batches!Cardinality(S) = Cardinality(S)
BY BatchFacts, SameCardinality, FS_Subset, FS_CardinalityType

LEMMA ScoresAreNaturals ==
    ASSUME score \in [BatchExperts -> Nat], NEW row \in RouterRows \cup {SettledRow}
    PROVE  Batches!Scored(row) \in [BatchExperts -> Nat]
<1> SUFFICES ASSUME NEW e \in BatchExperts PROVE score[e] \div 2 + Batches!CreditOf(row, e) \in Nat
  BY DEF Batches!Scored
<1>1. Batches!CreditOf(row, e) \in Nat
  <2>1. CASE \E i \in DOMAIN row : row[i] = e
    <3> DEFINE i == CHOOSE i \in DOMAIN row : row[i] = e
    <3>1. i \in DOMAIN row /\ DOMAIN row = 1 .. Len(row) /\ Len(row) \in Nat /\ Len(row) <= RowRanks
      BY <2>1, BatchFacts
    <3>2. Batches!CreditOf(row, e) = RankCredit[i]
      BY <2>1 DEF Batches!CreditOf
    <3> HIDE DEF i
    <3> QED
      BY <3>1, <3>2, BatchFacts
  <2>2. CASE ~ \E i \in DOMAIN row : row[i] = e
    BY <2>2 DEF Batches!CreditOf
  <2> QED
    BY <2>1, <2>2
<1>2. score[e] \in Nat
  OBVIOUS
<1> QED
  BY <1>1, <1>2

(* At most as many leave as there are candidates.                           *)
LEMMA SwapCountBounded ==
    ASSUME NEW adds \in Nat, NEW pool \in Nat
    PROVE  /\ Batches!SwapCount(adds, pool) \in Nat
           /\ Batches!SwapCount(adds, pool) <= pool
<1>1. /\ Batches!Min({MostSwap, adds, pool}) \in Nat /\ Batches!Min({MostSwap, adds, pool}) <= MostSwap
      /\ Batches!Min({MostSwap, adds, pool}) <= adds /\ Batches!Min({MostSwap, adds, pool}) <= pool
  <2>1. MostSwap \in Nat
    BY BatchFacts
  <2> QED
    BY <2>1, SameMin, MinOfThree
<1> QED
  BY <1>1 DEF Batches!SwapCount

(* An exchange of n for n keeps the size.                                   *)
LEMMA BatchKeepsSize ==
    ASSUME NEW R \in SUBSET BatchExperts, NEW in \in SUBSET (BatchExperts \ R), NEW out \in SUBSET R,
           Batches!Cardinality(in) = Batches!Cardinality(out)
    PROVE  Batches!Cardinality((R \ out) \cup in) = Batches!Cardinality(R)
<1>1. /\ IsFiniteSet(R) /\ IsFiniteSet(in) /\ IsFiniteSet(out) /\ IsFiniteSet(R \ out)
      /\ Cardinality(R) \in Nat /\ Cardinality(in) \in Nat /\ Cardinality(R \ out) \in Nat
  BY SubsetsAreFinite
<1>2. Cardinality(R \ out) = Cardinality(R) - Cardinality(out)
  <2>1. R \cap out = out
    OBVIOUS
  <2> QED
    BY <1>1, <2>1, FS_Difference
<1>3. Cardinality((R \ out) \cup in) = Cardinality(R \ out) + Cardinality(in)
  <2>1. Cardinality((R \ out) \cap in) = 0
    <3>1. (R \ out) \cap in = {}
      OBVIOUS
    <3> QED
      BY <3>1, FS_EmptySet
  <2>2. Cardinality((R \ out) \cup in)
          = Cardinality(R \ out) + Cardinality(in) - Cardinality((R \ out) \cap in)
    BY <1>1, FS_Union
  <2> QED
    BY <1>1, <2>1, <2>2
<1>4. Cardinality(in) = Cardinality(out)
  BY SameCardinality
<1>5. Cardinality((R \ out) \cup in) = Cardinality(R)
  BY <1>1, <1>2, <1>3, <1>4
<1>6. /\ Batches!Cardinality((R \ out) \cup in) = Cardinality((R \ out) \cup in)
      /\ Batches!Cardinality(R) = Cardinality(R)
  BY SameCardinality
<1> QED
  BY <1>5, <1>6

LEMMA BatchKeeps ==
    ASSUME BatchInv, NEW row \in RouterRows \cup {SettledRow}, Batches!Batch(row)
    PROVE  BatchInv'
<1> DEFINE eff == Batches!Effective(score')
<1>1. /\ score' \in [BatchExperts -> Nat] /\ swap' \in Batches!Select(score', age')
      /\ resident' = (resident \ swap'.out) \cup swap'.in
  BY ScoresAreNaturals DEF Batches!Batch, BatchInv
<1>2. PICK desired \in Batches!Largest(BatchExperts, Keep, eff) :
         swap' \in IF Batches!Cardinality(resident) # Keep THEN {Batches!Fill(desired)}
                   ELSE Batches!Exchanges(eff, age', desired)
  BY <1>1 DEF Batches!Select
<1>3. /\ desired \subseteq BatchExperts /\ Batches!Cardinality(desired) = Keep
      /\ \A t \in desired, s \in BatchExperts \ desired : eff[t] >= eff[s]
  BY <1>2 DEF Batches!Largest, Batches!kSubset
<1>4. resident \subseteq BatchExperts /\ Batches!Cardinality(resident) \in {0, Keep}
  BY DEF BatchInv, Batches!AlwaysFull
<1>5. CASE Batches!Cardinality(resident) # Keep
  <2>1. resident = {}
    <3>1. Cardinality(resident) = 0 /\ IsFiniteSet(resident)
      BY <1>4, <1>5, SubsetsAreFinite
    <3> QED
      BY <3>1, FS_EmptySet
  <2>2. resident' = desired /\ swap'.first
    BY <1>1, <1>2, <1>5, <2>1 DEF Batches!Fill
  <2> QED
    BY <1>1, <1>3, <2>2 DEF BatchInv, Batches!AlwaysFull, Batches!NewcomersEarnIt, Batches!GraceHonoured
<1>6. CASE Batches!Cardinality(resident) = Keep
  <2> DEFINE pool == Batches!Pool(resident \ desired, age')
             n == IF Batches!Cardinality(desired \ resident) < LeastSwap THEN 0
                  ELSE Batches!SwapCount(Batches!Cardinality(desired \ resident), Batches!Cardinality(pool))
  <2>1. PICK in \in Batches!Largest(desired \ resident, n, eff),
             out \in Batches!Smallest(pool, Batches!Min({n, Batches!Cardinality(pool)}), eff) :
             swap' = [in |-> in, out |-> out, spared |-> (resident \ desired) \ out, first |-> FALSE]
    BY <1>2, <1>6 DEF Batches!Exchanges
  <2>2. pool \subseteq resident \ desired
    BY DEF Batches!Pool
  <2>3. /\ in \subseteq desired \ resident /\ Batches!Cardinality(in) = n
        /\ out \subseteq pool /\ Batches!Cardinality(out) = Batches!Min({n, Batches!Cardinality(pool)})
    BY <2>1 DEF Batches!Largest, Batches!Smallest, Batches!kSubset
  <2>4. n \in Nat /\ Batches!Cardinality(pool) \in Nat /\ n <= Batches!Cardinality(pool)
    <3> HIDE DEF pool
    <3>1. /\ pool \in SUBSET BatchExperts /\ desired \ resident \in SUBSET BatchExperts
      BY <1>3, <1>4, <2>2
    <3>2. Batches!Cardinality(pool) \in Nat /\ Batches!Cardinality(desired \ resident) \in Nat
      BY <3>1, SubsetsAreFinite
    <3>3. /\ Batches!SwapCount(Batches!Cardinality(desired \ resident), Batches!Cardinality(pool)) \in Nat
          /\ Batches!SwapCount(Batches!Cardinality(desired \ resident), Batches!Cardinality(pool)) <= Batches!Cardinality(pool)
      BY <3>2, SwapCountBounded
    <3> QED
      BY <3>2, <3>3
  <2>5. Batches!Min({n, Batches!Cardinality(pool)}) = n
    <3> HIDE DEF n, pool
    <3> QED
      BY <2>4, SameMin, MinOfTwo
  <2>6. Batches!AlwaysFull' /\ resident' \subseteq BatchExperts
    <3> HIDE DEF n, pool
    <3>1. in \in SUBSET (BatchExperts \ resident) /\ out \in SUBSET resident
      BY <1>3, <2>2, <2>3
    <3>2. resident' = (resident \ out) \cup in
      BY <1>1, <2>1
    <3>3. Batches!Cardinality(resident') = Batches!Cardinality(resident)
      <4>1. resident \in SUBSET BatchExperts /\ Batches!Cardinality(in) = Batches!Cardinality(out)
        BY <1>4, <2>3, <2>5
      <4>2. Batches!Cardinality((resident \ out) \cup in) = Batches!Cardinality(resident)
        BY <3>1, <4>1, BatchKeepsSize
      <4> QED
        BY <3>2, <4>2
    <3> QED
      BY <1>4, <1>6, <3>1, <3>2, <3>3 DEF Batches!AlwaysFull
  <2>7. Batches!NewcomersEarnIt'
    <3> HIDE DEF n, pool
    <3> SUFFICES ASSUME NEW a \in in, NEW e \in out PROVE score'[a] >= score'[e] + ResidentBonus + PromotionCost
      BY <2>1 DEF Batches!NewcomersEarnIt
    <3>1. /\ a \in desired \ resident /\ e \in resident \ desired
          /\ a \in BatchExperts /\ e \in BatchExperts
      BY <1>3, <1>4, <2>2, <2>3
    <3>2. eff[a] >= eff[e]
      BY <1>3, <3>1
    <3>3. eff[a] = score'[a] + 0 /\ eff[e] = score'[e] + (ResidentBonus + PromotionCost)
      BY <3>1 DEF Batches!Effective
    <3>4. score'[a] \in Nat /\ score'[e] \in Nat
      BY <1>1, <3>1
    <3> HIDE DEF eff
    <3> QED
      BY <3>2, <3>3, <3>4, BatchFacts
  <2>8. Batches!GraceHonoured'
    <3> SUFFICES ASSUME NEW e \in out, e \in Batches!Protected(age')
                 PROVE  (resident \ desired) \ out \subseteq Batches!Protected(age')
      BY <2>1 DEF Batches!GraceHonoured, Batches!Protected
    <3>1. (resident \ desired) \ Batches!Protected(age') = {}
      BY <2>3 DEF Batches!Pool
    <3> QED
      BY <3>1
  <2> QED
    BY <1>1, <2>6, <2>7, <2>8 DEF BatchInv
<1> QED
  BY <1>5, <1>6

(* For any experts, credits, bonus, cost, limits, graces and rows of        *)
(* distinct experts: a batch leaves the GPU as full as it was, or fills it; *)
(* who comes in outscores who leaves by bonus and cost; and an expert in    *)
(* its grace leaves only when every candidate is in its grace.              *)
THEOREM SwapsAreEarned == MCSpec => []SwapsEarned
<1> DEFINE Inv == part = "batches" => BatchInv
<1>1. MCInit => Inv
  <2> SUFFICES ASSUME MCInit, part = "batches" PROVE BatchInv
    OBVIOUS
  <2>1. Batches!Init
    BY DEF MCInit
  <2> QED
    BY <2>1 DEF Batches!Init, BatchInv, Batches!AlwaysFull, Batches!NewcomersEarnIt, Batches!GraceHonoured
<1>2. Inv /\ [MCNext]_<<part, vars, sharedVars, batchVars>> => Inv'
  <2> SUFFICES ASSUME Inv, [MCNext]_<<part, vars, sharedVars, batchVars>>, part' = "batches" PROVE BatchInv'
    OBVIOUS
  <2>1. BatchInv /\ (Batches!Next \/ UNCHANGED batchVars)
    BY DEF MCNext, TierTick, AdaptiveTick, RoutedBatch
  <2>2. CASE UNCHANGED batchVars \/ Batches!Settle
    BY <2>1, <2>2 DEF batchVars, Batches!Settle, BatchInv, Batches!AlwaysFull, Batches!NewcomersEarnIt,
       Batches!GraceHonoured, Batches!Protected
  <2>3. CASE Batches!Arbitrary \/ Batches!SettledBatch
    BY <2>1, <2>3, BatchKeeps DEF Batches!Arbitrary, Batches!SettledBatch
  <2> QED
    BY <2>1, <2>2, <2>3 DEF Batches!Next
<1>3. Inv => SwapsEarned
  BY DEF BatchInv, SwapsEarned
<1> QED
  BY <1>1, <1>2, <1>3, PTL DEF MCSpec
=============================================================================
