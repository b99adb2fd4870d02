------------------------------ MODULE Scheduler ------------------------------
(* The request scheduler of the patched runtime: the event loops of          *)
(* managers/scheduler.py with the batch operations of                        *)
(* managers/schedule_batch.py.  The scheduler is one thread: messages are    *)
(* handled at "recv", and one pass of the loop goes through                  *)
(*   merge -> prefill -> (next -> try)* -> close | decode -> launch -> recv. *)
(* With Overlap, "launch" starts the new batch and then applies the result   *)
(* of the previous one, so every decision is made on results that are one    *)
(* batch old.  The GPU decides which requests end (an end-of-sequence token) *)
(* and the clock which ones time out; both are nondeterministic.  Tokens are *)
(* counted, not represented; prompts share no prefix.                        *)
EXTENDS Integers, Sequences, FiniteSets, SequencesExt

CONSTANTS
    Page,          \* page_size
    Clip,          \* CLIP_MAX_NEW_TOKENS
    RatioUnit,     \* granularity of new_token_ratio
    NoReq,         \* None
    Reqs,          \* the requests clients send
    Prompt,        \* Prompt[r], its input length
    Asked,         \* Asked[r], the max_new_tokens it asks for
    Prio, Levels,  \* Prio[r] \in 0..Levels-1; Levels > 1: priority scheduling
    Threshold,     \* priority_scheduling_preemption_threshold
    Total,         \* max_total_num_tokens
    MaxRunning,    \* pp_max_micro_batch_size
    MaxQueued,     \* max_queued_requests
    MaxPrefill,    \* max_prefill_tokens
    ChunkSize,     \* chunked_prefill_size
    MaxInput,      \* max_req_input_len
    MaxReqLen,     \* max_req_len
    Ratios,        \* values new_token_ratio can have
    Mixed,         \* enable_mixed_chunk
    Overlap,       \* enable_overlap
    Timeouts,      \* the waiting and running timeouts are set
    AbortSets,     \* sets of requests one abort message matches
    PauseModes,    \* modes of pause_generation messages
    PauseMidPrefill, \* may one arrive right after a prefill batch?
    MaxPauses, MaxHealth   \* bounds on pause and health-check messages

SchedulerAssumption ==
    /\ Page \in Nat \ {0} /\ Clip \in Nat /\ RatioUnit \in Nat \ {0}
    /\ Prompt \in [Reqs -> Nat \ {0}] /\ Asked \in [Reqs -> Nat]
    /\ Levels \in Nat \ {0} /\ Prio \in [Reqs -> 0..(Levels - 1)]
    /\ Total % Page = 0 /\ ChunkSize > MaxRunning
    /\ Ratios \subseteq 0..RatioUnit
    /\ \A R \in AbortSets : R \subseteq Reqs

VARIABLES
    pc,        \* where the loop is
    paused,    \* _engine_paused
    waiting,   \* waiting_queue
    running,   \* running_batch.reqs
    rows,      \* whose rows the tensors of running_batch hold
    full,      \* running_batch.batch_is_full
    last,      \* last_batch; cur_batch is the same batch whenever messages are read
    chunked,   \* chunked_req
    batch,     \* the batch this pass builds
    results,   \* result_queue
    adder,     \* the PrefillAdder of this pass
    idx,       \* position of its loop over the waiting queue
    free,      \* token_to_kv_pool_allocator.available_size()
    req,       \* the fields of each Req
    answers,   \* final answers sent to the tokenizer manager, per request
    hct,       \* return_health_check_ct
    pauses, checks \* messages of the bounded kinds seen so far

queues == <<waiting, running, rows, full, last, chunked, batch, results>>
vars == <<pc, paused, queues, adder, idx, free, req, answers, hct, pauses, checks>>

\* The token budget of one prefill batch: class PrefillAdder of managers/schedule_policy.py,
\* with chunked prefill on and without the sliding-window, state-space and diffusion variants.
\* An adder is a record
\*   offTotal, offCur    rem_total_token_offset, cur_rem_token_offset
\*   remInput, remChunk  rem_input_tokens, rem_chunk_tokens
\*   ratio               new_token_ratio, in units of 1/RatioUnit
\*   can, preempt        can_run_list, preempt_list
\*   newChunk            new_chunked_req
\* "avail" is the allocator's available size plus what the prefix cache can evict: the code only
\* ever uses their sum.
AtMost(a, b)  == IF a <= b THEN a ELSE b
AtLeast(a, b) == IF a >= b THEN a ELSE b

ceil_paged_tokens(n) == ((n + Page - 1) \div Page) * Page

\* What one running request is expected to still need.
running_offset(left, ratio) == (AtMost(left, Clip) * ratio) \div RatioUnit

rem_total_tokens(a, avail) == avail - a.offTotal
cur_rem_tokens(a, avail)   == avail - a.offCur

NewAdder(maxPrefill, chunkSize, mixed, reserved, ratio) ==
    [offTotal |-> mixed + reserved, offCur |-> mixed,
     remInput |-> maxPrefill - mixed, remChunk |-> chunkSize - mixed,
     ratio |-> ratio, can |-> <<>>, preempt |-> {}, newChunk |-> NoReq]

budget_state(a, avail) ==
    IF rem_total_tokens(a, avail) <= 0 \/ cur_rem_tokens(a, avail) <= 0
    THEN "NO_TOKEN"
    ELSE IF a.remInput <= 0 \/ a.remChunk <= 0 THEN "OTHER" ELSE "CONTINUE"

\* Take r with "len" more input tokens and a reservation of maxNew for its
\* answer.
Take(a, r, len, maxNew) ==
    LET paged == ceil_paged_tokens(len)
    IN  [a EXCEPT !.offTotal = @ + paged + maxNew, !.offCur = @ + paged,
                  !.remInput = @ - paged, !.remChunk = @ - paged,
                  !.can = Append(@, r)]

\* add_chunked_req: how many tokens of the request in progress go into this
\* batch.  When the estimate leaves nothing it falls back on the chunk size.
ChunkedLen(a, avail, ext) ==
    LET rem == AtMost(a.remChunk, rem_total_tokens(a, avail))
    IN  AtMost(ext, IF rem <= 0 THEN a.remChunk ELSE rem)

\* add_one_req: the reservation for the answer.  The first request of an
\* otherwise empty engine is clipped to what the pool holds.
Reservation(a, avail, ext, left, alone) ==
    LET want == AtMost(left, Clip)
        rem  == rem_total_tokens(a, avail)
    IN  IF ext + want + Page >= rem /\ a.can = <<>> /\ alone
        THEN AtLeast(0, rem - ext - Page - 1)
        ELSE want

\* The largest page-aligned piece of a prompt that fits in this batch.
TruncLen(a) == (a.remChunk \div Page) * Page
-----------------------------------------------------------------------------

Preempting == Levels > 1      \* try_preemption
NoBatch == [mode |-> "none", reqs |-> <<>>, chunk |-> NoReq]
NoAdder == NewAdder(0, 0, 0, 0, 0)

Fresh == [len |-> 0, max |-> 0, out |-> 0, kv |-> 0, ext |-> 0, isch |-> 0,
          retr |-> FALSE, tofin |-> FALSE, fin |-> FALSE, seen |-> FALSE]

Init ==
    /\ pc = "recv" /\ paused = FALSE
    /\ waiting = <<>> /\ running = <<>> /\ full = FALSE
    /\ rows = <<NoReq>>          \* a batch that never had tensors
    /\ last = NoBatch /\ chunked = NoReq /\ batch = NoBatch /\ results = <<>>
    /\ adder = NoAdder /\ idx = 0
    /\ free = Total /\ req = [r \in Reqs |-> Fresh]
    /\ answers = [r \in Reqs |-> 0]
    /\ hct = 0 /\ pauses = 0 /\ checks = 0
-----------------------------------------------------------------------------
Held(r) == ceil_paged_tokens(req[r].kv)
SumOver(S, F(_)) == MapThenSumSet(F, S)
Unfinished(s) == SelectSeq(s, LAMBDA r : ~req[r].fin)
SeqLen(r) == req[r].len + req[r].out      \* len(fill_ids)
Left(r) == AtLeast(req[r].max - req[r].out, 0)

\* Variant: the allocated length survives the release.
RetractedKeepsLen(f) == [f EXCEPT !.ext = 0, !.isch = 0, !.retr = TRUE]
\* reset_for_retract
Retracted(f) == [f EXCEPT !.kv = 0, !.ext = 0, !.isch = 0, !.retr = TRUE]

\* What preparing a batch does to a request: prepare_for_extend allocates its
\* new input tokens, prepare_for_decode one token, mix_with_running counts that
\* token as the input of a request riding along with a prefill.
ForExtend(f) == [f EXCEPT !.kv = @ + f.ext, !.retr = FALSE]
ForDecode(f) == [f EXCEPT !.kv = @ + 1]
Mixing(f)    == [ForDecode(f) EXCEPT !.ext = 1]

\* release_req: the pages the requests in S give back.
Released(S) == SumOver(S, Held)

\* filter_batch leaves the tensors as they are when nothing remains.
FilterRows(tensors, keep) == IF keep = <<>> THEN tensors ELSE keep

\* init_req_max_new_tokens, without speculative decoding
MaxNewTokens(r) ==
    AtMost(Asked[r], AtMost(MaxReqLen - Prompt[r] - 1,
                            AtLeast(0, Total - Prompt[r] - 2 * Page)))

\* _abort_on_queued_limit and the append of _add_request_to_queue, on
\* st = [q, gone]: a full queue rejects the newcomer, or, with priorities, the
\* least preferred and newest waiting request if the newcomer is better.
Enqueue(st, r) ==
    LET worst == CHOOSE i \in DOMAIN st.q : \A j \in DOMAIN st.q :
                     \/ Prio[st.q[i]] < Prio[st.q[j]]
                     \/ Prio[st.q[i]] = Prio[st.q[j]] /\ i >= j
    IN  IF Len(st.q) + 1 <= MaxQueued THEN [st EXCEPT !.q = Append(@, r)]
        ELSE IF Preempting /\ st.q # <<>> /\ Prio[r] > Prio[st.q[worst]]
        THEN [q |-> Append(RemoveAt(st.q, worst), r),
              gone |-> st.gone \cup {st.q[worst]}]
        ELSE [st EXCEPT !.gone = @ \cup {r}]

EnqueueAll(q, s) == FoldLeft(Enqueue, [q |-> q, gone |-> {}], s)

Answer(S) == [r \in Reqs |-> IF r \in S THEN answers[r] + 1 ELSE answers[r]]

\* Requests leave the waiting queue.  Variant: they stay.
WithoutKept(S) == waiting
Without(S) == SelectSeq(waiting, LAMBDA r : r \notin S)

\* calc_priority: a stable sort, most important first.
ByPriority(q) ==
    FlattenSeq([i \in 1..Levels |->
        SelectSeq(q, LAMBDA r : Prio[r] = Levels - i)])
-----------------------------------------------------------------------------
\* Applying the result of a batch (external: the output processor mixin).  A
\* request that finished or was retracted since the launch is skipped, a chunk
\* that was not the last one yields no token, and who ends gives its KV back.
Generating(b) ==
    {r \in ToSet(b.reqs) : ~req[r].fin /\ ~req[r].retr /\ req[r].isch <= 0}
\* Variant: one token too many.
EndingLate(b, eos) ==
    {r \in Generating(b) : req[r].tofin \/ req[r].out >= req[r].max \/ r \in eos}
Ending(b, eos) ==
    {r \in Generating(b) : req[r].tofin \/ req[r].out + 1 >= req[r].max \/ r \in eos}
Processed(b, eos) ==
    [r \in Reqs |->
        IF r \in Ending(b, eos)
        THEN [req[r] EXCEPT !.out = @ + 1, !.fin = TRUE, !.tofin = FALSE, !.kv = 0]
        ELSE IF r \in Generating(b) THEN [req[r] EXCEPT !.out = @ + 1]
        ELSE IF r \in ToSet(b.reqs) /\ ~req[r].fin /\ ~req[r].retr
        THEN [req[r] EXCEPT !.isch = @ - 1]
        ELSE req[r]]

ProcessBatchResult(b, eos) ==
    /\ req' = Processed(b, eos)
    /\ free' = free + Released(Ending(b, eos))
    /\ answers' = Answer(Ending(b, eos))
    /\ hct' = AtLeast(hct - 1, 0)      \* maybe_send_health_check_signal
-----------------------------------------------------------------------------
\* handle_generate_request.  A prompt that is too long becomes a one-token
\* request that is aborted by its first result.
Generate(r) ==
    /\ pc = "recv" /\ ~req[r].seen
    /\ LET bad == Prompt[r] >= MaxInput
           st  == Enqueue([q |-> waiting, gone |-> {}], r)
       IN  /\ req' = [req EXCEPT ![r] =
                  [Fresh EXCEPT !.seen = TRUE, !.max = MaxNewTokens(r),
                                !.len = IF bad THEN 1 ELSE Prompt[r], !.tofin = bad]]
           /\ waiting' = st.q /\ answers' = Answer(st.gone)
    /\ UNCHANGED <<pc, paused, running, rows, full, last, chunked, batch,
                   results, adder, idx, free, hct, pauses, checks>>

\* process_input_requests: a health check that finds the engine busy is only
\* counted.  (One that finds it idle is a request like any other.)
HealthCheck ==
    /\ pc = "recv" /\ checks < MaxHealth
    /\ chunked # NoReq \/ running # <<>>
    /\ hct' = hct + 1 /\ checks' = checks + 1
    /\ UNCHANGED <<pc, paused, queues, adder, idx, free, req, answers, pauses>>

LastReqs == IF last.mode = "decode" THEN running ELSE last.reqs

\* abort_request: waiting requests are dropped and answered, those of the
\* running and the current batch are marked to finish with their next result.
AbortRequest(R) ==
    /\ pc = "recv"
    /\ LET hit == R \cap ToSet(waiting)
           act == {r \in R \cap (ToSet(running) \cup ToSet(LastReqs)) : ~req[r].fin}
       IN  /\ hit \cup act # {}
           /\ waiting' = Without(hit)
           /\ answers' = Answer(hit)
           /\ req' = [r \in Reqs |-> IF r \in act
                                     THEN [req[r] EXCEPT !.tofin = TRUE] ELSE req[r]]
    /\ UNCHANGED <<pc, paused, running, rows, full, last, chunked, batch,
                   results, adder, idx, free, hct, pauses, checks>>

\* merge_batch into running_batch of a batch whose tensors hold "more" and
\* whose requests are "keep".
Merged(keep, more) == [reqs |-> running \o keep, rows |-> rows \o more]

\* pause_generation: the pending result is applied, the last prefill batch is
\* merged into the running batch, and with mode "retract" everybody is sent
\* back to the waiting queue.
PauseGeneration(mode, eos) ==
    LET pending == Overlap /\ last.mode # "none"
        b       == IF pending THEN results[1] ELSE NoBatch
        done    == {r \in Reqs : req[r].fin} \cup Ending(b, eos)
        stay    == IF mode = "in_place" THEN {chunked} ELSE {}
        merge   == last.mode = "extend"
        keep    == SelectSeq(last.reqs, LAMBDA r : r \notin done \cup stay)
        m       == IF merge THEN Merged(keep, FilterRows(last.reqs, keep))
                            ELSE [reqs |-> running, rows |-> rows]
        kept    == SelectSeq(m.reqs, LAMBDA r : r \notin done)
        st      == EnqueueAll(waiting, kept)
        after   == Processed(b, eos)
        back    == ToSet(kept)
    IN  /\ pc = "recv" /\ pauses < MaxPauses
        /\ PauseMidPrefill \/ last.mode # "extend"
        /\ eos \subseteq Generating(b)
        /\ pauses' = pauses + 1 /\ paused' = TRUE
        /\ results' = IF pending THEN Tail(results) ELSE results
        /\ last' = NoBatch
        /\ hct' = IF pending THEN AtLeast(hct - 1, 0) ELSE hct
        /\ pc' = IF merge /\ rows = <<NoReq>> THEN "dead" ELSE pc
        /\ IF mode = "retract"
           THEN /\ running' = <<>> /\ rows' = FilterRows(m.rows, kept) /\ full' = FALSE
                /\ chunked' = NoReq
                /\ waiting' = st.q
                /\ req' = [r \in Reqs |-> IF r \in back THEN Retracted(after[r]) ELSE after[r]]
                /\ free' = free + Released(Ending(b, eos) \cup back)
                /\ answers' = Answer(Ending(b, eos) \cup st.gone)
           ELSE /\ running' = m.reqs /\ rows' = m.rows
                /\ req' = after
                /\ free' = free + Released(Ending(b, eos))
                /\ answers' = Answer(Ending(b, eos))
                /\ UNCHANGED <<full, chunked, waiting>>
        /\ UNCHANGED <<batch, adder, idx, checks>>

ContinueGeneration ==
    /\ pc = "recv" /\ paused
    /\ paused' = FALSE
    /\ UNCHANGED <<pc, queues, adder, idx, free, req, answers, hct, pauses, checks>>

\* flush_cache: the pool is cleared when _is_no_request.
IsNoRequest == running = <<>> /\ LastReqs = <<>> /\ results = <<>>
FlushCache ==
    /\ pc = "recv" /\ IsNoRequest
    /\ free' = Total /\ last' = NoBatch
    /\ UNCHANGED <<pc, paused, waiting, running, rows, full, chunked, batch,
                   results, adder, idx, req, answers, hct, pauses, checks>>
-----------------------------------------------------------------------------
StartPass ==
    /\ pc = "recv" /\ ~paused
    /\ pc' = "merge"
    /\ UNCHANGED <<paused, queues, adder, idx, free, req, answers, hct, pauses, checks>>

\* Who of the last prefill batch goes on to decode: not who finished, and not
\* the request whose prompt is still in progress.
LastKept == SelectSeq(last.reqs, LAMBDA r :
                ~req[r].fin /\ r \notin {chunked, last.chunk})

\* An empty running batch is replaced, not merged into.
Replaces(keep) == keep # <<>> /\ running = <<>>

\* The waiting and the running timeout: which requests may be over time, and
\* what is done to those that run.
MayTimeOut(late, slow) ==
    /\ late \subseteq ToSet(waiting) /\ slow \subseteq ToSet(running)
    /\ Timeouts \/ late \cup slow = {}
TimedOut(slow) ==
    [r \in Reqs |-> IF r \in slow /\ ~req[r].fin
                    THEN [req[r] EXCEPT !.tofin = TRUE] ELSE req[r]]

\* The first half of get_next_batch_to_run: the two timeouts, then the last
\* prefill batch joins the running batch, or replaces it with a batch_is_full
\* of its own.
MergeLast(late, slow) ==
    /\ pc = "merge" /\ pc' = "prefill"
    /\ MayTimeOut(late, slow)
    /\ waiting' = Without(late)
    /\ answers' = Answer(late)
    /\ req' = TimedOut(slow)
    /\ LET keep == LastKept
       IN  IF last.mode # "extend" THEN UNCHANGED <<running, rows, full>>
           ELSE IF Replaces(keep)
           THEN running' = keep /\ rows' = keep /\ full' = FALSE
           ELSE /\ full' = (full /\ Len(keep) = Len(last.reqs))
                /\ IF keep = <<>> THEN UNCHANGED <<running, rows>>
                   ELSE LET m == Merged(keep, keep)
                        IN  running' = m.reqs /\ rows' = m.rows
    /\ UNCHANGED <<paused, last, chunked, batch, results, adder, idx, free, hct,
                   pauses, checks>>
-----------------------------------------------------------------------------
\* get_new_batch_prefill
Slots == MaxRunning - Len(running)      \* get_num_allocatable_reqs
IsFull == full /\ ~Preempting

SkipPrefill ==
    /\ pc = "prefill" /\ pc' = "decode"
    /\ chunked = NoReq
    /\ \/ IsFull \/ waiting = <<>>
       \/ Slots <= 0 /\ ~Preempting
    /\ full' = (IsFull \/ (waiting # <<>> /\ Slots <= 0 /\ ~Preempting))
    /\ UNCHANGED <<paused, waiting, running, rows, last, chunked, batch, results,
                   adder, idx, free, req, answers, hct, pauses, checks>>

\* The adder is set up and the request in progress continues first.
StartPrefill(ratio) ==
    /\ pc = "prefill" /\ pc' = "next"
    /\ \/ chunked # NoReq
       \/ ~IsFull /\ waiting # <<>> /\ (Slots > 0 \/ Preempting)
    /\ full' = IsFull
    /\ waiting' = ByPriority(waiting) /\ idx' = 1
    /\ LET mix == IF Mixed THEN Len(running) ELSE 0
           a   == NewAdder(MaxPrefill, ChunkSize, mix,
                      SumOver(ToSet(running),
                          LAMBDA r : running_offset(req[r].max - req[r].out, ratio)),
                      ratio)
           ext == SeqLen(chunked) - req[chunked].kv
           n   == ChunkedLen(a, free, ext)
       IN  IF chunked = NoReq THEN adder' = a /\ UNCHANGED <<req, chunked>>
           ELSE /\ adder' = Take(a, chunked, n,
                                IF n < ext THEN 0 ELSE AtMost(req[chunked].max, Clip))
                /\ req' = [req EXCEPT ![chunked].ext = n]
                /\ chunked' = IF n < ext THEN chunked ELSE NoReq
    /\ UNCHANGED <<paused, running, rows, last, batch, results, free, answers,
                   hct, pauses, checks>>

NowFull == full \/ Len(adder.can) >= Slots

Reserve(r) == running_offset(req[r].max - req[r].out, adder.ratio)
Need(r) == req[r].ext + AtMost(req[r].max, Clip) - rem_total_tokens(adder, free)

\* preempt_to_schedule: running requests of sufficiently lower priority, the
\* least important first, until their reservations cover the need.
Victims(r) ==
    LET valid == {v \in ToSet(running) : ~req[v].fin /\ v \notin adder.preempt}
    IN  {V \in SUBSET valid :
           /\ V # {}
           /\ \A v \in V : Prio[r] - Prio[v] > Threshold
           /\ \A v \in V, w \in valid \ V : Prio[v] <= Prio[w]
           /\ SumOver(V, Reserve) >= Need(r)
           /\ \E v \in V : /\ \A w \in V : Prio[w] <= Prio[v]
                           /\ V = {v} \/ SumOver(V \ {v}, Reserve) < Need(r)}

\* The loop over the waiting queue ends: nobody is left, or the batch is full
\* and nobody can be preempted for the next request.
StopAdding ==
    /\ pc = "next" /\ pc' = "close"
    /\ \/ idx > Len(waiting) /\ UNCHANGED full
       \/ /\ idx <= Len(waiting) /\ NowFull
          /\ ~Preempting \/ Victims(waiting[idx]) = {}
          /\ full' = TRUE
    /\ UNCHANGED <<paused, waiting, running, rows, last, chunked, batch, results,
                   adder, idx, free, req, answers, hct, pauses, checks>>

PreemptToSchedule(V) ==
    /\ pc = "next" /\ pc' = "try"
    /\ idx <= Len(waiting) /\ NowFull /\ Preempting
    /\ V \in Victims(waiting[idx])
    /\ LET keep == SelectSeq(running, LAMBDA r : r \notin V)
       IN  running' = keep /\ rows' = FilterRows(rows, keep)
    /\ full' = TRUE
    /\ free' = free + Released(V)
    /\ req' = [r \in Reqs |-> IF r \in V THEN Retracted(req[r]) ELSE req[r]]
    /\ adder' = [adder EXCEPT !.offTotal = @ - SumOver(V, Reserve),
                              !.preempt = @ \cup V]
    /\ UNCHANGED <<paused, waiting, last, chunked, batch, results, idx, answers,
                   hct, pauses, checks>>

NextWaiting ==
    /\ pc = "next" /\ pc' = "try"
    /\ idx <= Len(waiting) /\ ~NowFull
    /\ UNCHANGED <<paused, queues, adder, idx, free, req, answers, hct, pauses, checks>>
-----------------------------------------------------------------------------
\* add_one_req for the request at idx, after init_next_round_input.
This == waiting[idx]
Ext == SeqLen(This)
MaxNew == Reservation(adder, free, Ext, Left(This), running = <<>>)
Fits == Ext + MaxNew + Page < rem_total_tokens(adder, free)
OverInput == ceil_paged_tokens(Ext) >= adder.remInput /\ adder.can # <<>>
Whole == ceil_paged_tokens(Ext) <= adder.remChunk

\* batch_is_full after NO_TOKEN: never latched on an empty engine.
Latch(can) == can # <<>> \/ running # <<>>

AddNothing ==
    /\ pc = "try" /\ pc' = "close"
    /\ ~Fits \/ OverInput \/ (~Whole /\ TruncLen(adder) <= 0)
    /\ full' = IF Fits THEN full ELSE Latch(adder.can)
    /\ req' = [req EXCEPT ![This].ext = Ext]
    /\ UNCHANGED <<paused, waiting, running, rows, last, chunked, batch, results,
                   adder, idx, free, answers, hct, pauses, checks>>

\* What follows an addition: the loop goes on while the budget lasts.
Continue(a) ==
    /\ adder' = a
    /\ pc' = IF budget_state(a, free) = "CONTINUE" THEN "next" ELSE "close"
    /\ full' = IF budget_state(a, free) = "NO_TOKEN" THEN Latch(a.can) ELSE full
    /\ idx' = idx + 1
    /\ UNCHANGED <<paused, waiting, running, rows, last, chunked, batch, results,
                   free, answers, hct, pauses, checks>>

AddWhole ==
    /\ pc = "try" /\ Fits /\ ~OverInput /\ Whole
    /\ req' = [req EXCEPT ![This].ext = Ext]
    /\ Continue(Take(adder, This, Ext, MaxNew))

AddChunk ==
    /\ pc = "try" /\ Fits /\ ~OverInput /\ ~Whole /\ TruncLen(adder) > 0
    /\ req' = [req EXCEPT ![This].ext = TruncLen(adder)]
    /\ Continue([Take(adder, This, TruncLen(adder), 0) EXCEPT !.newChunk = This])
-----------------------------------------------------------------------------
\* The end of get_new_batch_prefill when nothing was added.
NoPrefill ==
    /\ pc = "close" /\ pc' = "decode"
    /\ adder.can = <<>>
    /\ adder' = NoAdder /\ idx' = 0
    /\ UNCHANGED <<paused, queues, free, req, answers, hct, pauses, checks>>

\* Allocation for the new batch and, mixed, for the running requests that ride
\* along: extra tokens wanted per request, and the pages they cost.
Grow(r, n) == ceil_paged_tokens(req[r].kv + n) - Held(r)

\* ... and when something was: the queue, the chunked request, the allocation
\* of prepare_for_extend, and the running batch mixed in.
ClosePrefill ==
    /\ pc = "close" /\ adder.can # <<>>
    /\ LET can   == ToSet(adder.can)
           st    == EnqueueAll(Without(can),
                               SetToSeq(adder.preempt))
           chunk == IF adder.newChunk # NoReq THEN adder.newChunk ELSE chunked
           ride  == IF Mixed THEN Unfinished(running) ELSE <<>>
           cost  == SumOver(can, LAMBDA r : Grow(r, req[r].ext))
                      + SumOver(ToSet(ride), LAMBDA r : Grow(r, 1))
       IN  /\ waiting' = st.q /\ answers' = Answer(st.gone)
           /\ chunked' = chunk
           /\ batch' = [mode |-> "extend", reqs |-> adder.can \o ride, chunk |-> chunk]
           /\ req' = [r \in Reqs |->
                  IF r \in can
                  THEN [ForExtend(req[r]) EXCEPT !.isch = IF r = chunk THEN @ + 1 ELSE @]
                  ELSE IF r \in ToSet(ride) THEN Mixing(req[r])
                  ELSE req[r]]
           /\ free' = free - cost
           /\ pc' = IF cost > free \/ (adder.newChunk # NoReq /\ chunked # NoReq)
                    THEN "dead" ELSE "launch"
           /\ IF Mixed /\ running # <<>>
              THEN running' = <<>> /\ rows' = <<NoReq>>
              ELSE UNCHANGED <<running, rows>>
    /\ adder' = NoAdder /\ idx' = 0
    /\ UNCHANGED <<paused, full, last, results, hct, pauses, checks>>
-----------------------------------------------------------------------------
\* update_running_batch.
DecodeMem(S, avail) ==        \* check_decode_mem
    Page * Cardinality({r \in S : req[r].kv % Page = 0}) <= avail

\* retract_decode: who produced least, and among those the longest prompt, goes
\* first, until the others fit; at least one request is kept.
RetractOrder(s) ==
    SetToSortSeq(ToSet(s), LAMBDA x, y :
        \/ req[x].out > req[y].out
        \/ req[x].out = req[y].out /\
             \/ req[x].len < req[y].len
             \/ req[x].len = req[y].len /\
                  (CHOOSE i \in DOMAIN s : s[i] = x) < (CHOOSE i \in DOMAIN s : s[i] = y))
Kept(s) ==
    LET o == RetractOrder(s)
        ok(k) == DecodeMem(ToSet(SubSeq(o, 1, k)),
                           free + Released(ToSet(SubSeq(o, k + 1, Len(o)))))
        n == CHOOSE k \in 1..(Len(o) - 1) :
               /\ k = 1 \/ ok(k)
               /\ \A j \in (k + 1)..(Len(o) - 1) : ~ok(j)
    IN  IF Len(s) = 1 THEN s ELSE SubSeq(o, 1, n)

\* batch_is_full is withdrawn when the batch shrinks.
\* Variant: it stays.
StillFullLatched(keep) == full
StillFull(keep) == full /\ Len(keep) = Len(running)

Decode ==
    /\ pc = "decode"
    /\ LET live == Unfinished(running)
           keep == IF live = <<>> \/ DecodeMem(ToSet(live), free) THEN live ELSE Kept(live)
           gone == ToSet(live) \ ToSet(keep)
           room == free + Released(gone)
           st   == EnqueueAll(waiting, Reverse(SelectSeq(RetractOrder(live),
                                                 LAMBDA r : r \in gone)))
       IN  /\ running' = keep
           /\ rows' = FilterRows(rows, keep)
           /\ full' = StillFull(keep)
           /\ batch' = IF keep = <<>> THEN NoBatch
                       ELSE [mode |-> "decode", reqs |-> keep, chunk |-> NoReq]
           /\ waiting' = st.q /\ answers' = Answer(st.gone)
           /\ req' = [r \in Reqs |-> IF r \in gone THEN Retracted(req[r])
                                     ELSE IF r \in ToSet(keep) THEN ForDecode(req[r])
                                     ELSE req[r]]
           /\ free' = room - SumOver(ToSet(keep), LAMBDA r : Grow(r, 1))
           /\ pc' = IF DecodeMem(ToSet(keep), room) THEN "launch" ELSE "dead"
    /\ UNCHANGED <<paused, last, chunked, results, adder, idx, hct, pauses, checks>>
-----------------------------------------------------------------------------
\* The rest of a pass of event_loop_normal and of event_loop_overlap.
LaunchNormal(eos) ==
    /\ pc = "launch" /\ pc' = "recv" /\ ~Overlap
    /\ eos \subseteq Generating(batch)
    /\ IF batch.mode = "none" THEN UNCHANGED <<req, free, answers, hct>>
       ELSE ProcessBatchResult(batch, eos)
    /\ last' = batch /\ batch' = NoBatch
    /\ UNCHANGED <<paused, waiting, running, rows, full, chunked, results, adder,
                   idx, pauses, checks>>

LaunchOverlap(eos) ==
    /\ pc = "launch" /\ pc' = "recv" /\ Overlap
    /\ LET q == IF batch.mode = "none" THEN results ELSE Append(results, batch)
           b == IF last.mode = "none" THEN NoBatch ELSE q[1]
       IN  /\ eos \subseteq Generating(b)
           /\ IF last.mode = "none"
              THEN results' = q /\ UNCHANGED <<req, free, answers, hct>>
              ELSE results' = Tail(q) /\ ProcessBatchResult(b, eos)
    /\ last' = batch /\ batch' = NoBatch
    /\ UNCHANGED <<paused, waiting, running, rows, full, chunked, adder, idx,
                   pauses, checks>>

Pass ==
    \/ StartPass \/ SkipPrefill \/ StopAdding \/ NextWaiting
    \/ AddNothing \/ AddWhole \/ AddChunk \/ NoPrefill \/ ClosePrefill \/ Decode
    \/ \E late \in SUBSET ToSet(waiting), slow \in SUBSET ToSet(running) :
           MergeLast(late, slow)
    \/ \E ratio \in Ratios : StartPrefill(ratio)
    \/ \E V \in SUBSET ToSet(running) : PreemptToSchedule(V)
    \/ \E eos \in SUBSET Reqs : LaunchNormal(eos) \/ LaunchOverlap(eos)

Message ==
    \/ \E r \in Reqs : Generate(r)
    \/ HealthCheck
    \/ \E R \in AbortSets : AbortRequest(R)
    \/ \E mode \in PauseModes, eos \in SUBSET Reqs : PauseGeneration(mode, eos)
    \/ FlushCache

Next == Pass \/ Message \/ ContinueGeneration

\* The loop always runs on, and a paused engine is eventually continued.
Spec == Init /\ [][Next]_vars /\ WF_vars(Pass) /\ WF_vars(ContinueGeneration)
-----------------------------------------------------------------------------
\* Every variable has the shape the program gives it.
TypeOK ==
    /\ pc \in {"recv", "merge", "prefill", "next", "try", "close", "decode",
               "launch", "dead"}
    /\ {paused, full} \subseteq BOOLEAN
    /\ \A s \in {waiting, running, adder.can} :
           s \in Seq(Reqs) /\ Cardinality(ToSet(s)) = Len(s)
    /\ \A b \in {last, batch} \cup ToSet(results) :
           b.mode \in {"none", "extend", "decode"} /\ b.reqs \in Seq(Reqs)
    /\ chunked \in Reqs \cup {NoReq} /\ adder.newChunk \in Reqs \cup {NoReq}
    /\ adder.preempt \subseteq Reqs
    /\ \A r \in Reqs : req[r].kv \in 0..Total /\ req[r].isch \in 0..Total
    /\ hct \in 0..MaxHealth

\* The scheduler never dies: no prefill or decode is launched for which the
\* pool has no room, and its own assertion on the chunked request holds.
NoCrash == pc # "dead"

\* Every KV page is free or belongs to exactly one request: nothing leaks when
\* requests finish, are retracted, preempted, aborted or paused, and nothing is
\* given back twice.
KvAccounted == free >= 0 /\ free = Total - SumOver(Reqs, Held)

Active == ToSet(running) \cup ToSet(last.reqs) \cup ({chunked} \ {NoReq})

\* Between two passes a request that was accepted and not answered is either in
\* the waiting queue or in a batch, never in neither and never in both.
NoRequestLost ==
    pc = "recv" =>
        \A r \in Reqs : req[r].seen /\ answers[r] = 0 =>
            (r \in ToSet(waiting)) # (r \in Active)

\* A client gets one final answer, and a request that was answered keeps no KV
\* and is not scheduled again.
AnsweredOnce ==
    \A r \in Reqs :
        /\ answers[r] <= 1
        /\ answers[r] = 1 =>
             req[r].kv = 0 /\ r \notin ToSet(waiting) /\ r # chunked

\* The KV of a decoding request holds its prompt and every token but the newest,
\* plus one per batch in flight: no result is applied twice and none is dropped
\* without the request being rewound.
Pending(r) == Cardinality({i \in DOMAIN results : r \in ToSet(results[i].reqs)})
KvMatchesOutput ==
    pc = "recv" =>
        \A r \in ToSet(running) : ~req[r].fin =>
            req[r].kv = req[r].len + req[r].out - 1 + Pending(r)

\* schedule_batch.py: seq_lens and the other tensors of a batch have one row
\* per request ("shape: [b]"), in the order of its requests.
RowsMatch == running # <<>> => rows = running

\* The scheduler implements the request life cycle of RequestLife: its batches
\* are invisible to the client.
Life == INSTANCE RequestLife WITH
    Limit  <- Asked,
    tokens <- [r \in Reqs |-> req[r].out],
    phase  <- [r \in Reqs |-> IF ~req[r].seen THEN "new"
                              ELSE IF answers[r] = 0 THEN "pending" ELSE "answered"]
ImplementsLife == Life!Spec
=============================================================================
