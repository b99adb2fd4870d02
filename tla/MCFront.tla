------------------------------- MODULE MCFront -------------------------------
(* Between the client and the scheduler: the front end with five servers   *)
(* and their clients, the stream of a chat completion, and the weights     *)
(* that every rank takes over.  They share no state: a behaviour exercises *)
(* one of them (part) and the others are Off.                              *)
EXTENDS TokenizerManager, TLC

CONSTANTS
    a, b,       \* a streaming call, and another one
    a1, b1, b2, \* their requests
    u, v,       \* two weight updates
    TpRanks, Tensors,          \* the ranks that update their weights, and their parameters
    Checkpoints, HomePath,     \* where weights come from, and where the server's did
    UpdateGroups,              \* names of process groups
    MaxFromDisk, MaxSent,      \* bounds on the updates of either sort
    Off         \* the value of every variable of a part that rests

VARIABLES
    part,
    req, text, toks, fin, contents, first, buffer, prev, thinking, calls, held, finish, log,   \* ChatStream
    lps, stage, tail,
    tensors, modelPath, argsPath, groups, sendGroups, op, pc, loaded, answer, before, asked    \* WeightUpdate

MCOwner == a1 :> a @@ b1 :> b @@ b2 :> b

(* A health check beside the stream, a pause that aborts everything and an *)
(* update; two updates against a client that leaves, streaming and a full  *)
(* queue or not; a batch of two, a pause that retracts and SIGTERM; a      *)
(* batch that is not valid, refused prompts, and clients that abort.       *)
Nothing == [rids |-> a :> <<>> @@ b :> <<>>, invalid |-> {}, health |-> {}, updates |-> {}, modes |-> {},
           maxPauses |-> 0, aborts |-> {}, leaving |-> {}, leaveAt |-> {}, abortLeft |-> FALSE,
           segments |-> FALSE, refusals |-> {}, shutdown |-> FALSE]
Single == a :> <<a1>> @@ b :> <<b1>>
Batch  == a :> <<a1>> @@ b :> <<b1, b2>>
Pausing  == [Nothing EXCEPT !.rids = Single, !.health = {b}, !.updates = {u}, !.modes = {"abort"}, !.maxPauses = 1]
Updating == [Nothing EXCEPT !.rids = Single, !.updates = {u, v}, !.leaving = {a}, !.leaveAt = {"serve"},
                            !.abortLeft = TRUE, !.refusals = {"busy"}]
Leaving  == [Updating EXCEPT !.leaving = {b}, !.refusals = {}]
Exiting  == [Nothing EXCEPT !.rids = Batch, !.modes = {"retract"}, !.maxPauses = 1,
                            !.shutdown = TRUE]
Refusing == [Nothing EXCEPT !.rids = Batch, !.invalid = {b2}, !.aborts = {a1, b1}, !.refusals = {"bad"}]
MCSetups == {Pausing, Updating, Leaving, Exiting, Refusing}

(* Every combination of thinking, tools and a required tool call.          *)
Plain == [think |-> FALSE, tools |-> FALSE, required |-> FALSE, logprobs |-> FALSE, segments |-> FALSE,
          usage |-> FALSE, hidden |-> FALSE]
Chats == {q \in {[Plain EXCEPT !.think = t, !.tools = o, !.required = r, !.usage = t, !.hidden = o] :
                   t \in BOOLEAN, o \in BOOLEAN, r \in BOOLEAN} : q.required => q.tools}
Replying == INSTANCE ChatStream WITH
    Replies <- {0, 1}, Requests <- Chats, MaxText <- 2, MaxContents <- 2, MaxNewTokens <- 1
Long == INSTANCE ChatStream WITH
    Replies <- {0}, Requests <- Chats, MaxText <- 6, MaxContents <- 4, MaxNewTokens <- 1

Disk == INSTANCE WeightUpdate WITH
    weights <- tensors, Ranks <- TpRanks, Params <- Tensors, Paths <- Checkpoints,
    Groups <- UpdateGroups, Home <- HomePath, MaxRequests <- MaxFromDisk, Kinds <- {"disk"}
Sent == INSTANCE WeightUpdate WITH
    weights <- tensors, Ranks <- TpRanks, Params <- Tensors, Paths <- Checkpoints,
    Groups <- UpdateGroups, Home <- HomePath, MaxRequests <- MaxSent,
    Kinds <- {"dist", "tensor", "ipc", "init", "destroy", "sinit", "send"}

ASSUME PartsAssumption ==
       /\ FrontAssumption /\ Replying!ChatStreamAssumption /\ Long!ChatStreamAssumption
       /\ Disk!WeightsAssumption /\ Sent!WeightsAssumption

chatVars == <<req, text, toks, fin, contents, first, buffer, prev, thinking, calls, held, finish, log,
              lps, stage, tail>>
weightVars == <<tensors, modelPath, argsPath, groups, sendGroups, op, pc, loaded, answer, before, asked>>
MCVars == <<part, vars, chatVars, weightVars>>

(* A front end nobody calls.                                               *)
FrontOff == Init /\ setup = Pausing
ChatOff ==
    /\ req = Off /\ text = Off /\ toks = Off /\ fin = Off /\ contents = Off /\ first = Off
    /\ buffer = Off /\ prev = Off /\ thinking = Off /\ calls = Off /\ held = Off
    /\ finish = Off /\ log = Off /\ lps = Off /\ stage = Off /\ tail = Off
WeightsOff ==
    /\ tensors = Off /\ modelPath = Off /\ argsPath = Off /\ groups = Off /\ sendGroups = Off
    /\ op = Off /\ pc = Off /\ loaded = Off /\ answer = Off /\ before = Off /\ asked = Off

MCInit ==
    \/ part = "front" /\ Init /\ ChatOff /\ WeightsOff
    \/ /\ FrontOff /\ WeightsOff
       /\ \/ part = "replying" /\ Replying!Init
          \/ part = "long" /\ Long!Init
    \/ /\ FrontOff /\ ChatOff
       /\ \/ part = "disk" /\ Disk!Init
          \/ part = "sent" /\ Sent!Init

ChatNext == \/ part = "replying" /\ Replying!Next
            \/ part = "long" /\ Long!Next
WeightsNext == \/ part = "disk" /\ Disk!Next
               \/ part = "sent" /\ Sent!Next

MCNext ==
    /\ UNCHANGED part
    /\ \/ part = "front" /\ Next /\ UNCHANGED <<chatVars, weightVars>>
       \/ ChatNext /\ UNCHANGED <<vars, weightVars>>
       \/ WeightsNext /\ UNCHANGED <<vars, chatVars>>

(* Every coroutine and the scheduler go on, and a pause is ended           *)
(* eventually; the stream is driven to its end; a rank works on.           *)
MCSpec ==
    /\ MCInit /\ [][MCNext]_MCVars /\ Fairness
    /\ WF_chatVars(part = "replying" /\ \E i \in {0, 1} : Replying!Content(i))
    /\ WF_chatVars(part = "replying" /\ (Replying!FinishChunks \/ Replying!Extra \/ Replying!Done))
    /\ \A r \in TpRanks : WF_weightVars(part = "disk" /\ Disk!Step(r))

(* pause_generation("abort") returns when no call is being served, and, as *)
(* long as no prompt is refused, nothing a client waits for is on-going;   *)
(* nobody is served until the engine is continued.  The loop that receives *)
(* the scheduler's messages never meets a request it has forgotten, nor a  *)
(* result nobody waits for while only one update passes the pause.         *)
Obeyed == setup.invalid = {} /\ setup.refusals = {}
OneUpdate == setup.modes = {} \/ \A x, y \in setup.updates : x = y
Drains ==
    /\ PauseDrains
    /\ Obeyed => PauseQuiet
    /\ OneUpdate => LoopAlive

(* Without a pause an answer is made with the weights of one version, and  *)
(* an update is told its own result; a state whose request was answered is *)
(* forgotten.  A rank that reports success, or went back to the checkpoint *)
(* it had, serves one checkpoint whole.                                    *)
WeightsWhole ==
    /\ setup.modes = {} => OneVersion
    /\ OneUpdate => ResultIsOwn
    /\ AnsweredForgotten
    /\ part = "disk" => Disk!SuccessIsWhole /\ Disk!OneCheckpoint
    /\ part = "sent" => Sent!SuccessIsWhole /\ Sent!GroupsAgree

(* What a client was given when its call ended is the whole answer; the    *)
(* chunks of a streamed chat put together are the answer of a request      *)
(* without streaming, opened by the role and closed by the finish reason.  *)
StreamIsAnswer ==
    /\ part = "front" => AnswerComplete
    /\ part = "replying" => Replying!StreamIsAnswer /\ Replying!RoleThenFinish
    /\ part = "long" => Long!StreamIsAnswer /\ Long!RoleThenFinish

(* Every call and every weight update ends, in spite of pauses, aborts and *)
(* clients that leave; after SIGTERM the server leaves; a chat stream is   *)
(* closed by [DONE]; every rank answers an update from disk or dies of it. *)
(* As each of them happens a bounded number of times, in the end nobody    *)
(* waits any more.                                                         *)
Settled ==
    /\ setup = Pausing => \A x \in Calls : task[x] \in {"new", "done", "failed", "gone", "left"}
    /\ setup # Exiting => \A x \in Updates : upd[x] \in {"new", "done"}
    /\ exiting => exited # "no"
    /\ part = "replying" => stage = "cut" \/ (stage = "done" /\ tail[Len(tail)] = "[DONE]")
    /\ part = "disk" => \A r \in TpRanks : pc[r] \in {"idle", "dead"}
AllEnd == <>[]Settled
=============================================================================
