--------------------------- MODULE TokenizerManager ---------------------------
(* The front end of the patched runtime: managers/tokenizer_manager.py with  *)
(* the health, pause, abort and update endpoints of                          *)
(* entrypoints/http_server.py.  It is one asyncio thread: every action is    *)
(* what a coroutine does between two awaits.  The calls of clients wait at   *)
(* the pause gate, take the reader side of model_update_lock, send their     *)
(* requests to the scheduler process and wait for its answers; weight        *)
(* updates take the writer side.  The scheduler is seen through its two      *)
(* message queues only: what it does to a request is what Scheduler.tla      *)
(* shows in detail.                                                          *)
EXTENDS Integers, FiniteSets, SequencesExt

CONSTANTS
    Calls,        \* client calls
    Reqs,         \* their requests
    Owner,        \* Owner[r], the call of a request
    Streaming,    \* the calls that stream
    Updates,      \* calls of update_weights_from_disk
    MaxTok,       \* bound on the outputs of a request
    Setups,       \* servers and what their clients do, records of
                  \*   rids       per call its requests in order: none, one, or a batch
                  \*   invalid    requests _validate_one_request refuses
                  \*   health     calls made by /health_generate
                  \*   updates    weight updates that are asked for
                  \*   modes      modes of pause_generation calls
                  \*   maxPauses  bound on those calls
                  \*   aborts     requests clients abort with /abort_request
                  \*   leaving    calls whose client disconnects
                  \*   leaveAt    where a call is when that happens
                  \*   abortLeft  SGLANG_DISABLE_DISCONNECT_ABORT is not 1
                  \*   segments   server_args.stream_output
                  \*   refusals   how the scheduler may refuse a request: busy, bad
                  \*   shutdown   may SIGTERM arrive?
    None

CallOf(r) == Owner[r]

FrontAssumption ==
    /\ Owner \in [Reqs -> Calls] /\ IsFiniteSet(Reqs) /\ MaxTok \in Nat \ {0}
    /\ None \notin Updates \cup {"stop", "abort", "busy", "bad", "left"}
    /\ \A s \in Setups :
         /\ s.rids \in [Calls -> Seq(Reqs)]
         /\ \A c \in Calls : /\ IsInjective(s.rids[c])   \* every request has its own id
                             /\ \A i \in DOMAIN s.rids[c] : Owner[s.rids[c][i]] = c
         /\ s.leaveAt \subseteq {"gate", "lock", "tokenize", "serve"}
         /\ s.health \subseteq Calls \ Streaming /\ s.updates \subseteq Updates
         /\ s.modes \subseteq {"abort", "in_place", "retract"} /\ s.refusals \subseteq {"busy", "bad"}

VARIABLES
    setup,     \* this server and its clients
    task,      \* where the coroutine of each call is
    sent,      \* how many of its requests a call has tokenized and sent
    conn,      \* calls whose client is still there
    table,     \* keys of rid_to_state
    st,        \* ReqState: text, off, finished, out_list, event
    seen,      \* what the client of each request was given
    readers, writer, writers,  \* model_update_lock and who waits to write
    is_pause,
    pausing,   \* "no", "loop" (holds is_pause_cond) or "drained"
    pauses,    \* pause_generation calls so far
    upd,       \* where each weight update is
    future, cur,   \* result of each update's future; model_update_result
    inq, outq, \* messages to and from the scheduler
    eng,       \* the scheduler: where each request is, tokens, to_finish
    epaused, weights, ver,  \* _engine_paused; weights now; weights it used
    exiting, exited, \* gracefully_exit; "no", "left" or "crashed"
    status,    \* server_status
    heard      \* has anything arrived since the health check began?

client == <<setup, task, sent, conn, seen>>
front  == <<table, st>>
lock   == <<readers, writer, writers>>
pause  == <<is_pause, pausing, pauses>>
update == <<upd, future, cur>>
engine == <<eng, epaused, weights, ver>>
server == <<exiting, exited, status, heard>>
vars == <<client, front, lock, pause, update, inq, outq, engine, server>>

NewState == [text |-> 0, off |-> 0, fin |-> FALSE, outs |-> <<>>, event |-> FALSE]

Init ==
    /\ setup \in Setups
    /\ task = [c \in Calls |-> "new"] /\ sent = [c \in Calls |-> 0] /\ conn = Calls
    /\ table = {} /\ st = [r \in Reqs |-> NewState]
    /\ seen = [r \in Reqs |-> [text |-> 0, ids |-> 0, reason |-> None]]
    /\ readers = {} /\ writer = None /\ writers = {}
    /\ is_pause = FALSE /\ pausing = "no" /\ pauses = 0
    /\ upd = [u \in Updates |-> "new"] /\ future = [u \in Updates |-> None] /\ cur = None
    /\ inq = <<>> /\ outq = <<>>
    /\ eng = [r \in Reqs |-> [at |-> "none", n |-> 0, tofin |-> None]]
    /\ epaused = FALSE /\ weights = None /\ ver = [r \in Reqs |-> {}]
    /\ exiting = FALSE /\ exited = "no" /\ status = "Up" /\ heard = FALSE

Gen(r)    == [t |-> "gen", r |-> r]
Abort(R)  == [t |-> "abort", r |-> R]
Out(r, n, why) == [t |-> "out", r |-> r, n |-> n, why |-> why]
Aborted(r, why) == [t |-> "aborted", r |-> r, n |-> 0, why |-> why]

Alive == exited = "no"
CondFree == pausing # "loop"       \* nobody holds is_pause_cond
-----------------------------------------------------------------------------
\* generate_request up to its first await: _req_stats_init puts a fresh state
\* for every request into rid_to_state.
Arrive(c) ==
    /\ task[c] = "new" /\ setup.rids[c] # <<>> /\ (c \in setup.health => ~exiting)
    /\ task' = [task EXCEPT ![c] = "gate"]
    /\ table' = table \cup ToSet(setup.rids[c])
    /\ heard' = IF c \in setup.health THEN FALSE ELSE heard
    /\ UNCHANGED <<setup, sent, conn, seen, st, lock, pause, update, inq, outq, engine,
                   exiting, exited, status>>

\* Past the pause gate a call takes the reader lock at once, or waits for it
\* behind an active or a waiting writer.
Gate(c) ==
    /\ task[c] = "gate" /\ CondFree /\ ~is_pause
    /\ IF writer = None /\ writers = {}
       THEN task' = [task EXCEPT ![c] = "tokenize"] /\ readers' = readers \cup {c}
       ELSE task' = [task EXCEPT ![c] = "lock"] /\ UNCHANGED readers
    /\ UNCHANGED <<setup, sent, conn, seen, front, writer, writers, pause, update, inq,
                   outq, engine, server>>

\* RWLock prefers writers (external).
CanRead == writer = None /\ writers = {}
ReaderLock(c) ==
    /\ task[c] = "lock" /\ CanRead
    /\ task' = [task EXCEPT ![c] = "tokenize"] /\ readers' = readers \cup {c}
    /\ UNCHANGED <<setup, sent, conn, seen, front, writer, writers, pause, update, inq,
                   outq, engine, server>>

\* A call ends by an exception or by cancellation and leaves the locks.
Leave(c, how) ==
    task' = [task EXCEPT ![c] = how] /\ readers' = readers \ {c}

\* _tokenize_one_request and _send_one_request for the next request; one that
\* is not valid raises.
Tokenize(c) ==
    /\ task[c] = "tokenize"
    /\ LET r == setup.rids[c][sent[c] + 1]
       IN  IF r \in setup.invalid
           THEN Leave(c, "failed") /\ UNCHANGED <<sent, inq>>
           ELSE /\ inq' = Append(inq, Gen(r))
                /\ sent' = [sent EXCEPT ![c] = @ + 1]
                /\ task' = [task EXCEPT ![c] =
                       IF sent[c] + 1 = Len(setup.rids[c]) THEN "serve" ELSE "tokenize"]
                /\ UNCHANGED readers
    /\ UNCHANGED <<setup, conn, seen, front, writer, writers, pause, update, outq, engine,
                   server>>
-----------------------------------------------------------------------------
Over(r) == seen[r].reason # None
\* What a streaming client has after one more output, and any client after the
\* last one.  Only the newest element of out_list is used.
Given(r) ==
    LET out == Last(st[r].outs)
    IN  [text |-> out.text,
         ids |-> IF setup.segments /\ CallOf(r) \in Streaming THEN seen[r].ids + out.ids
                                                        ELSE out.ids,
         reason |-> out.why]

\* The result a request ended with makes the call raise.
Raises(c, why) == c \notin Streaming /\ why \in {"bad", "busy"}

\* _wait_one_response: one turn of its loop, for a request whose event is set.
Drops(r) == IF Last(st[r].outs).why = "busy" THEN {r} ELSE {}
Wake(r) ==
    LET c == CallOf(r)
        why == Last(st[r].outs).why
    IN  /\ st[r].event /\ st[r].outs # <<>> /\ ~Over(r)
        /\ sent[c] = Len(setup.rids[c]) /\ task[c] \in {"serve", "failed"}
        /\ st' = [st EXCEPT ![r].outs = <<>>, ![r].event = st[r].fin]
        /\ table' = IF st[r].fin THEN table \ Drops(r) ELSE table
        /\ seen' = IF st[r].fin \/ c \in Streaming
                   THEN [seen EXCEPT ![r] = Given(r)] ELSE seen
        /\ IF task[c] = "serve" /\ st[r].fin /\ Raises(c, why)
           THEN Leave(c, "failed")
           ELSE UNCHANGED <<task, readers>>
        /\ UNCHANGED <<setup, sent, conn, writer, writers, pause, update, inq, outq,
                       engine, server>>

\* All requests of the call are over: the generator ends and the lock is
\* released; the answer is on its way to the client.
Finish(c) ==
    /\ task[c] = "serve" /\ \A r \in ToSet(setup.rids[c]) : Over(r)
    /\ Leave(c, "reply")
    /\ UNCHANGED <<setup, sent, conn, seen, front, writer, writers, pause, update, inq,
                   outq, engine, server>>

Respond(c) ==
    /\ task[c] = "reply"
    /\ task' = [task EXCEPT ![c] = "done"]
    /\ UNCHANGED <<setup, sent, conn, seen, front, lock, pause, update, inq, outq, engine,
                   server>>

\* abort_request: only what is in the table is aborted.
AbortMsgs(R) ==
    LET s == SetToSeq(R \cap table) IN [i \in DOMAIN s |-> Abort({s[i]})]

\* The client disconnects.  A streaming call is cancelled by the web server,
\* any other goes on.
Disconnect(c) ==
    /\ c \in setup.leaving \cap conn /\ task[c] \in setup.leaveAt
    /\ conn' = conn \ {c}
    /\ IF c \in Streaming THEN Leave(c, "gone") ELSE UNCHANGED <<task, readers>>
    /\ UNCHANGED <<setup, sent, seen, front, writer, writers, pause, update, inq, outq,
                   engine, server>>

\* With aborts on disconnection: the waiting coroutine notices (types 1 and 3),
\* or, for a stream, the background task of create_abort_task runs.
NoticeDisconnect(r) ==
    LET c == CallOf(r)
    IN  /\ setup.abortLeft /\ c \notin conn /\ ~Over(r) /\ ~st[r].fin
        /\ sent[c] = Len(setup.rids[c]) /\ task[c] \in {"serve", "failed"}
        /\ inq' = inq \o AbortMsgs({r})
        /\ seen' = [seen EXCEPT ![r].reason = "left"]
        /\ Leave(c, "failed")
        /\ UNCHANGED <<setup, sent, conn, front, writer, writers, pause, update, outq,
                       engine, server>>
BackgroundAbort(c) ==
    /\ setup.abortLeft /\ task[c] = "gone"
    /\ inq' = inq \o AbortMsgs(ToSet(setup.rids[c]))
    /\ task' = [task EXCEPT ![c] = "left"]
    /\ UNCHANGED <<setup, sent, conn, seen, front, lock, pause, update, outq, engine, server>>

AbortRequest(r) ==
    /\ r \in setup.aborts \cap table /\ ~\E i \in DOMAIN inq : inq[i] = Abort({r})
    /\ eng[r].tofin = None /\ ~st[r].fin
    /\ inq' = inq \o AbortMsgs({r})
    /\ UNCHANGED <<client, front, lock, pause, update, outq, engine, server>>
-----------------------------------------------------------------------------
\* health_generate: poll until any message has arrived since it began, or the
\* time is up; either way its own request is cancelled and forgotten.
HealthEnds(c, ok) ==
    /\ c \in setup.health /\ task[c] \notin {"new", "gone"}
    /\ ok => heard
    /\ status' = IF ok THEN "Up" ELSE "UnHealthy"
    /\ table' = table \ ToSet(setup.rids[c])
    /\ Leave(c, "gone")
    /\ UNCHANGED <<setup, sent, conn, seen, st, writer, writers, pause, update, inq, outq,
                   engine, exiting, exited, heard>>
-----------------------------------------------------------------------------
\* pause_generation.  Mode "abort" keeps is_pause_cond and aborts everything
\* until nobody holds model_update_lock; the other modes tell the scheduler.
PauseGeneration(mode) ==
    /\ CondFree /\ pauses < setup.maxPauses
    /\ pauses' = pauses + 1 /\ is_pause' = TRUE
    /\ IF mode = "abort"
       THEN pausing' = "loop" /\ UNCHANGED inq
       ELSE inq' = Append(inq, [t |-> "pause", r |-> mode]) /\ UNCHANGED pausing
    /\ UNCHANGED <<client, front, lock, update, outq, engine, server>>

\* One turn of that loop.  Coroutines the lock has woken are in asyncio's ready
\* queue before the timer of the loop, so they run first.
Woken ==
    \/ CanRead /\ \E c \in Calls : task[c] = "lock"
    \/ writer = None /\ readers = {} /\ writers # {}
\* Variant: the writer side is not looked at.
LockedRead == readers # {}
Locked == readers # {} \/ writer # None
PauseTurn ==
    /\ pausing = "loop" /\ ~Woken
    /\ inq' = IF inq # <<>> /\ Last(inq) = Abort(Reqs) THEN inq ELSE Append(inq, Abort(Reqs))
    /\ pausing' = IF Locked THEN "loop" ELSE "drained"
    /\ UNCHANGED <<client, front, lock, is_pause, pauses, update, outq, engine, server>>

ContinueGeneration ==
    /\ CondFree /\ is_pause
    /\ is_pause' = FALSE /\ pausing' = "no"
    /\ inq' = Append(inq, [t |-> "continue", r |-> None])
    /\ UNCHANGED <<client, front, lock, pauses, update, outq, engine, server>>
-----------------------------------------------------------------------------
\* update_weights_from_disk.  A paused engine is updated at once, without the
\* lock.  _wait_for_model_update_from_disk sends and makes a new future.
SendUpdate(u) ==
    /\ inq' = Append(inq, [t |-> "update", r |-> u])
    /\ cur' = u
StartUpdate(u) ==
    /\ upd[u] = "new" /\ CondFree
    /\ IF is_pause
       THEN upd' = [upd EXCEPT ![u] = "sent"] /\ SendUpdate(u) /\ UNCHANGED writers
       ELSE /\ upd' = [upd EXCEPT ![u] = "lock"] /\ writers' = writers \cup {u}
            /\ UNCHANGED <<inq, cur>>
    /\ UNCHANGED <<client, front, readers, writer, pause, future, outq, engine, server>>

\* Variant: the calls in progress are not waited for.
WriterLockEarly(u) ==
    /\ upd[u] = "lock" /\ writer = None
    /\ writer' = u /\ writers' = writers \ {u}
    /\ upd' = [upd EXCEPT ![u] = "sent"] /\ SendUpdate(u)
    /\ UNCHANGED <<client, front, readers, pause, future, outq, engine, server>>
WriterLock(u) ==
    /\ upd[u] = "lock" /\ writer = None /\ readers = {}
    /\ writer' = u /\ writers' = writers \ {u}
    /\ upd' = [upd EXCEPT ![u] = "sent"] /\ SendUpdate(u)
    /\ UNCHANGED <<client, front, readers, pause, future, outq, engine, server>>

UpdateDone(u) ==
    /\ upd[u] = "sent" /\ future[u] # None
    /\ upd' = [upd EXCEPT ![u] = "done"]
    /\ writer' = IF writer = u THEN None ELSE writer
    /\ UNCHANGED <<client, front, readers, writers, pause, future, cur, inq, outq,
                   engine, server>>
-----------------------------------------------------------------------------
\* handle_loop: one message of the scheduler.
\* What the client will see of a request after n more tokens.
\* Variant: the tokens replace the text.
TextReplaced(s, n) == n
Text(s, n) == s.text + n
\* Which entries of the table end with an output.
Ended(msg) == IF msg.why # None THEN {msg.r} ELSE {}

\* _handle_batch_output for one request.
HandleOutput(msg) ==
    LET r == msg.r
        s == st[r]
        text == Text(s, msg.n)
        out == [text |-> text, why |-> msg.why,
                ids |-> IF setup.segments /\ CallOf(r) \in Streaming THEN text - s.off ELSE text]
    IN  IF r \notin table THEN UNCHANGED <<table, st>>
        ELSE /\ st' = [st EXCEPT ![r] =
                   [text |-> text, off |-> text, fin |-> msg.why # None,
                    outs |-> Append(s.outs, out), event |-> TRUE]]
             /\ table' = table \ Ended(msg)

\* _handle_abort_req: a request that never started is over.  setup.health checks are
\* left alone; any other must still be known.
LooksUp(r) == CallOf(r) \notin setup.health
\* Its waiting coroutine is woken.  Variant: it is not.
NotifyNone(r) == st[r].event
Notify(r) == TRUE
HandleAborted(msg) ==
    LET r == msg.r
        s == st[r]
    IN  IF ~LooksUp(r) THEN UNCHANGED <<st, exited>>
        ELSE IF r \notin table THEN exited' = "crashed" /\ UNCHANGED st
        ELSE /\ st' = [st EXCEPT ![r].fin = TRUE, ![r].event = Notify(r),
                   ![r].outs = Append(@, [text |-> s.text, why |-> msg.why,
                       ids |-> IF CallOf(r) \in Streaming
                               THEN (IF s.text > 0 THEN 1 ELSE 0) ELSE s.text])]
             /\ UNCHANGED exited

\* _handle_update_weights_from_disk_req_output
HandleUpdated(u) ==
    /\ future' = IF future[cur] = None THEN [future EXCEPT ![cur] = u] ELSE future
    /\ exited' = IF future[cur] = None THEN exited ELSE "crashed"

HandleMessage ==
    /\ outq # <<>>
    /\ LET msg == Head(outq)
       IN  CASE msg.t = "out"     -> HandleOutput(msg) /\ UNCHANGED <<future, exited>>
             [] msg.t = "aborted" -> HandleAborted(msg) /\ UNCHANGED <<table, future>>
             [] msg.t = "updated" -> HandleUpdated(msg.r) /\ UNCHANGED front
    /\ outq' = Tail(outq) /\ heard' = TRUE
    /\ UNCHANGED <<client, lock, pause, upd, cur, inq, engine, exiting, status>>
-----------------------------------------------------------------------------
\* SIGTERM, and sigterm_watchdog: leave when unhealthy or nothing is left.
SigTerm ==
    /\ setup.shutdown /\ ~exiting /\ exiting' = TRUE
    /\ UNCHANGED <<client, front, lock, pause, update, inq, outq, engine, exited,
                   status, heard>>
Watchdog ==
    /\ exiting
    /\ status = "UnHealthy" \/ table = {}
    /\ exited' = "left"
    /\ UNCHANGED <<client, front, lock, pause, update, inq, outq, engine, exiting,
                   status, heard>>
-----------------------------------------------------------------------------
\* The scheduler (Scheduler.tla): messages in order, then one request at a time.
Queued == {r \in Reqs : eng[r].at = "queued"}
Started == {r \in Reqs : eng[r].at = "running"}

EngineReceive ==
    /\ inq # <<>> /\ inq' = Tail(inq)
    /\ LET msg == Head(inq)
       IN  \/ /\ msg.t = "gen"
              /\ \E how \in setup.refusals \cup {None} :
                   /\ eng' = [eng EXCEPT ![msg.r].at = IF how = "busy" THEN "end" ELSE "queued",
                                         ![msg.r].tofin = how]
                   /\ outq' = IF how = "busy" THEN Append(outq, Aborted(msg.r, how)) ELSE outq
              /\ UNCHANGED <<epaused, weights>>
           \/ /\ msg.t = "abort"
              /\ eng' = [r \in Reqs |->
                     IF r \notin msg.r THEN eng[r]
                     ELSE IF r \in Queued THEN [eng[r] EXCEPT !.at = "end"]
                     ELSE IF r \in Started THEN [eng[r] EXCEPT !.tofin = "abort"]
                     ELSE eng[r]]
              /\ outq' = outq \o [i \in 1..Cardinality(msg.r \cap Queued) |->
                     Aborted(SetToSeq(msg.r \cap Queued)[i], "abort")]
              /\ UNCHANGED <<epaused, weights>>
           \/ /\ msg.t = "pause" /\ epaused' = TRUE
              /\ eng' = [r \in Reqs |-> IF msg.r = "retract" /\ r \in Started
                                        THEN [eng[r] EXCEPT !.at = "queued"] ELSE eng[r]]
              /\ UNCHANGED <<outq, weights>>
           \/ /\ msg.t = "continue" /\ epaused' = FALSE
              /\ UNCHANGED <<eng, outq, weights>>
           \/ /\ msg.t = "update" /\ weights' = msg.r
              /\ outq' = Append(outq, [t |-> "updated", r |-> msg.r])
              /\ UNCHANGED <<eng, epaused>>
    /\ UNCHANGED <<client, front, lock, pause, update, ver, server>>

EngineStart(r) ==
    /\ r \in Queued /\ ~epaused
    /\ eng' = [eng EXCEPT ![r].at = "running"]
    /\ UNCHANGED <<client, front, lock, pause, update, inq, outq, epaused, weights,
                   ver, server>>

\* A token, possibly the last one.
EngineToken(r, last) ==
    /\ r \in Started /\ ~epaused
    /\ eng[r].tofin # None \/ eng[r].n + 1 = MaxTok => last
    /\ eng' = [eng EXCEPT ![r].n = @ + 1, ![r].at = IF last THEN "end" ELSE @]
    /\ ver' = [ver EXCEPT ![r] = @ \cup {weights}]
    /\ outq' = Append(outq, Out(r, 1, IF ~last THEN None
                                      ELSE IF eng[r].tofin = None THEN "stop" ELSE eng[r].tofin))
    /\ UNCHANGED <<client, front, lock, pause, update, inq, epaused, weights, server>>
-----------------------------------------------------------------------------
CallStep(c) == Alive /\
    (Gate(c) \/ ReaderLock(c) \/ Tokenize(c) \/ Finish(c) \/ Respond(c))
WakeStep(r) == Alive /\ Wake(r)
LeftStep == Alive /\
    ((\E r \in Reqs : NoticeDisconnect(r)) \/ (\E c \in Calls : BackgroundAbort(c)))
HealthStep == Alive /\ \E c \in Calls, ok \in BOOLEAN : HealthEnds(c, ok)
UpdateStep(u) == Alive /\ (WriterLock(u) \/ UpdateDone(u))
PauseStep == Alive /\ PauseTurn
ContinueStep == Alive /\ ContinueGeneration
LoopStep == Alive /\ HandleMessage
ExitStep == Alive /\ Watchdog
ReceiveStep == Alive /\ EngineReceive
EngineStep(r) == Alive /\ (EngineStart(r) \/ \E last \in BOOLEAN : EngineToken(r, last))
Outside == Alive /\
    \/ \E c \in Calls : Arrive(c) \/ Disconnect(c)
    \/ \E r \in Reqs : AbortRequest(r)
    \/ \E mode \in setup.modes : PauseGeneration(mode)
    \/ \E u \in setup.updates : StartUpdate(u)
    \/ SigTerm

Next ==
    \/ \E c \in Calls : CallStep(c)
    \/ \E r \in Reqs : WakeStep(r) \/ EngineStep(r)
    \/ \E u \in Updates : UpdateStep(u)
    \/ LeftStep \/ HealthStep \/ PauseStep \/ ContinueStep \/ LoopStep
    \/ ExitStep \/ ReceiveStep \/ Outside

\* Every coroutine and the scheduler go on, and a pause is ended eventually.
Fairness ==
    /\ \A c \in Calls : WF_vars(CallStep(c))
    /\ \A r \in Reqs : WF_vars(WakeStep(r)) /\ WF_vars(EngineStep(r))
    /\ \A u \in Updates : WF_vars(UpdateStep(u))
    /\ WF_vars(ReceiveStep) /\ WF_vars(LoopStep) /\ WF_vars(HealthStep)
    /\ WF_vars(PauseStep) /\ WF_vars(ContinueStep) /\ WF_vars(ExitStep)
Spec == Init /\ [][Next]_vars /\ Fairness
-----------------------------------------------------------------------------
\* Every variable has the shape the program gives it.
TypeOK ==
    /\ task \in [Calls -> {"new", "gate", "lock", "tokenize", "serve", "reply",
                           "done", "failed", "gone", "left"}]
    /\ table \subseteq Reqs /\ readers \subseteq Calls
    /\ writer \in Updates \cup {None} /\ writers \subseteq Updates
    /\ \A r \in Reqs : eng[r].n \in 0..MaxTok /\ st[r].text <= eng[r].n

\* The loop that receives the scheduler's messages never dies: no abort notice
\* finds its request unknown and no result is set twice.
LoopAlive == exited # "crashed"

\* A request whose client waits for it is answered with the weights of one
\* version: an update of a running engine waits for everybody.
OneVersion ==
    \A r \in Reqs : task[CallOf(r)] \in {"serve", "reply", "done"} =>
                        Cardinality(ver[r]) <= 1

\* pause_generation("abort") returns when no call is being served, and none is
\* until the engine is continued ("we are using the model_update_lock to check
\* if there is still on-going requests").
Ongoing(r) == eng[r].at \in {"queued", "running"}
PauseDrains == pausing = "drained" => readers = {}

\* ... and nothing a client waits for is on-going in the engine.
PauseQuiet ==
    pausing = "drained" =>
        \A r \in Reqs : CallOf(r) \notin setup.health \cup (Calls \ conn) => ~Ongoing(r)

\* The client of a call that ended regularly has the whole answer: text, token
\* ids and the reason it ended.
AnswerComplete ==
    \A c \in Calls : task[c] \in {"reply", "done"} =>
        \A r \in ToSet(setup.rids[c]) :
            seen[r].reason = "stop" =>
                seen[r].text = eng[r].n /\ seen[r].ids = eng[r].n

\* A result is what the update that waits for it asked for.
ResultIsOwn == \A u \in Updates : future[u] \in {None, u}

\* No state stays in rid_to_state once a request has ended in the engine and
\* its answer was handled.
AnsweredForgotten ==
    \A r \in Reqs : seen[r].reason \in {"stop", "bad", "busy"} => r \notin table

=============================================================================
