----------------------------- MODULE MCRequests -----------------------------
(* A request inside the scheduler process: the scheduler itself in four    *)
(* configurations, the pools that give a running request its rows, and the *)
(* test that ends it and cuts its output.  They share no state: a          *)
(* behaviour exercises one of them (part), the pools and the test are Off  *)
(* in the others and the scheduler waits for its first message.            *)
EXTENDS Scheduler, TLC

CONSTANTS r1, r2, r3,
    Off         \* the value of every variable of a part that rests

VARIABLES
    part,
    freeRows, freeStates, phase, row, state, pair, rowState, rowPair, cached, asserted,  \* ReqPool
    ids, reason, len, toFinish, grammar, decode, cur, done, retractions                  \* FinishCheck

(* A short, a middle and a long prompt; the long one is prefilled in chunks. *)
ThreePrompts == r1 :> 1 @@ r2 :> 2 @@ r3 :> 4
ThreeAsked   == r1 :> 4 @@ r2 :> 3 @@ r3 :> 3
(* Answers long enough that two requests outgrow a paged pool.             *)
PagedAsked   == r1 :> 9 @@ r2 :> 7 @@ r3 :> 2
Flat         == r1 :> 0 @@ r2 :> 0 @@ r3 :> 0
Ranked       == r1 :> 0 @@ r2 :> 1 @@ r3 :> 2
Singles      == {{r1}, {r2}, {r3}}

(* The configuration of the .cfg overlaps batches, aborts single requests  *)
(* and pauses. Then: without overlap, in pages, with timeouts and          *)
(* abort_all; preemption and a queue limit, with room for everybody;       *)
(* decoding requests that ride along with prompt chunks.                   *)
Normal == INSTANCE Scheduler WITH
    Asked <- PagedAsked, Page <- 2, Total <- 14, MaxInput <- 9, MaxReqLen <- 13,
    Overlap <- FALSE, Timeouts <- TRUE, AbortSets <- {Reqs}, MaxPauses <- 0
Priority == INSTANCE Scheduler WITH
    Prio <- Ranked, Levels <- 3, Total <- 40, MaxQueued <- 2, MaxInput <- 7, MaxReqLen <- 30,
    AbortSets <- {}, MaxPauses <- 0, MaxHealth <- 1
Riding == INSTANCE Scheduler WITH
    Asked <- PagedAsked, Page <- 2, Total <- 14, ChunkSize <- 4, MaxInput <- 9, MaxReqLen <- 13,
    Mixed <- TRUE, MaxPauses <- 0

(* With the prefix cache, and without it in exactly the planned states.    *)
Pool == INSTANCE ReqPool WITH
    Reqs <- 1 .. 2, Rows <- 2, States <- 4, PairSize <- 1, Radix <- TRUE
Bare == INSTANCE ReqPool WITH
    Reqs <- 1 .. 4, Rows <- 3, States <- 3, PairSize <- 0, Radix <- FALSE

(* Two letters and a token that writes both, so that the stop string ends  *)
(* inside or between tokens; groups of accepted tokens without one.        *)
Letters == [t \in {"a", "b", "ab", "eos", "bad"} |->
               CASE t = "a" -> <<"a">> [] t = "b" -> <<"b">> [] t = "ab" -> <<"a", "b">> [] OTHER -> <<"#">>]
Singly == INSTANCE FinishCheck WITH
    Tokens <- DOMAIN Letters, Text <- Letters, StopStr <- <<"a", "b", "b">>, StopMaxLen <- 2,
    Eos <- "eos", Bad <- "bad", MaxNew <- 6, MaxGroup <- 1, MaxRetractions <- 1, None <- Off
Grouped == INSTANCE FinishCheck WITH
    Tokens <- DOMAIN Letters, Text <- Letters, StopStr <- <<>>, StopMaxLen <- 0,
    Eos <- "eos", Bad <- "bad", MaxNew <- 4, MaxGroup <- 3, MaxRetractions <- 0, None <- Off

ASSUME /\ SchedulerAssumption /\ Normal!SchedulerAssumption /\ Priority!SchedulerAssumption
       /\ Riding!SchedulerAssumption /\ Pool!PoolAssumption /\ Bare!PoolAssumption
       /\ Singly!FinishCheckAssumption /\ Grouped!FinishCheckAssumption

poolVars == <<freeRows, freeStates, phase, row, state, pair, rowState, rowPair, cached, asserted>>
finishVars == <<ids, reason, len, toFinish, grammar, decode, cur, done, retractions>>
MCVars == <<part, vars, poolVars, finishVars>>

PoolOff == /\ freeRows = Off /\ freeStates = Off /\ phase = Off /\ row = Off /\ state = Off
           /\ pair = Off /\ rowState = Off /\ rowPair = Off /\ cached = Off /\ asserted = Off
FinishOff == /\ ids = Off /\ reason = Off /\ len = Off /\ toFinish = Off /\ grammar = Off
             /\ decode = Off /\ cur = Off /\ done = Off /\ retractions = Off

MCInit ==
    \/ part = "overlapped" /\ Init /\ PoolOff /\ FinishOff
    \/ part = "normal" /\ Normal!Init /\ PoolOff /\ FinishOff
    \/ part = "priority" /\ Priority!Init /\ PoolOff /\ FinishOff
    \/ part = "riding" /\ Riding!Init /\ PoolOff /\ FinishOff
    \/ /\ Init /\ FinishOff
       /\ \/ part = "pool" /\ Pool!Init
          \/ part = "bare" /\ Bare!Init
    \/ /\ Init /\ PoolOff
       /\ \/ part = "singly" /\ Singly!Init
          \/ part = "grouped" /\ Grouped!Init

SchedulerNext == \/ part = "overlapped" /\ Next
                 \/ part = "normal" /\ Normal!Next
                 \/ part = "priority" /\ Priority!Next
                 \/ part = "riding" /\ Riding!Next
PoolNext == \/ part = "pool" /\ Pool!Next
            \/ part = "bare" /\ Bare!Next
FinishNext == \/ part = "singly" /\ Singly!Next
              \/ part = "grouped" /\ Grouped!Next
              \/ done = TRUE /\ UNCHANGED finishVars    \* nothing follows the last output

MCNext ==
    /\ UNCHANGED part
    /\ \/ SchedulerNext /\ UNCHANGED <<poolVars, finishVars>>
       \/ PoolNext /\ UNCHANGED <<vars, finishVars>>
       \/ FinishNext /\ UNCHANGED <<vars, poolVars>>

(* The loop always runs on, and a paused engine is eventually continued;   *)
(* a running request is decoded and its last output sent.                  *)
MCSpec ==
    /\ MCInit /\ [][MCNext]_MCVars
    /\ WF_vars(\/ part = "overlapped" /\ Pass
               \/ part = "normal" /\ Normal!Pass
               \/ part = "priority" /\ Priority!Pass
               \/ part = "riding" /\ Riding!Pass)
    /\ WF_vars(part = "overlapped" /\ ContinueGeneration)
    /\ WF_finishVars(part = "singly" /\ \E g \in Singly!Groups : Singly!Decode(g))
    /\ WF_finishVars(part = "singly" /\ Singly!LastOutput)

(* Every KV page, row of the request table and linear-attention state is   *)
(* free once or held by one owner, the rows the kernels look up name what  *)
(* the running request holds, and nothing is launched without room.        *)
SlotsAccounted ==
    /\ part = "overlapped" => KvAccounted /\ NoCrash
    /\ part = "normal" => Normal!KvAccounted /\ Normal!NoCrash
    /\ part = "priority" => Priority!KvAccounted /\ Priority!NoCrash
    /\ part = "riding" => Riding!KvAccounted /\ Riding!NoCrash
    /\ part = "pool" => Pool!RowsOnce /\ Pool!StatesOnce /\ Pool!MapsCurrent
    /\ part = "bare" => Bare!RowsOnce /\ Bare!NeverAsserts

(* Between passes an unanswered request is in the queue or in a batch and  *)
(* an answered one in neither; the batch's tensors have the rows of its    *)
(* requests, and its KV is that of the tokens produced so far.             *)
NobodyLost ==
    /\ part = "overlapped" => NoRequestLost /\ AnsweredOnce /\ KvMatchesOutput /\ RowsMatch
    /\ part = "normal" => Normal!NoRequestLost /\ Normal!AnsweredOnce /\ Normal!KvMatchesOutput
    /\ part = "priority" => Priority!NoRequestLost /\ Priority!AnsweredOnce
    /\ part = "riding" => Riding!RowsMatch

(* What the client receives: the tokens through the stop, each once, with  *)
(* no beginning of a stop string streamed, whatever was held back,         *)
(* retracted or accepted in groups.                                        *)
DeliveredThroughStop ==
    /\ part = "singly" => /\ Singly!DeliveredThroughStop /\ Singly!NoStopTextStreamed
                          /\ Singly!StopStringSeen
    /\ part = "grouped" => Grouped!DeliveredThroughStop /\ Grouped!EndsAtFirstStop

(* Every request received is answered, in spite of retraction, pauses,     *)
(* aborts and timeouts; so is a health check that found the engine busy,   *)
(* and every request that decodes comes to its last output. As each of     *)
(* them comes once, in the end nobody waits any more.                      *)
Settled ==
    /\ part \in {"overlapped", "normal"} => \A r \in Reqs : req[r].seen => answers[r] > 0
    /\ part = "priority" => hct = 0
    /\ part = "singly" => done
AllAnswered == <>[]Settled

(* The client's view of every configuration is the request life cycle.     *)
Phase(r) == IF ~req[r].seen THEN "new" ELSE IF answers[r] = 0 THEN "pending" ELSE "answered"
Seen(parts) == [r \in Reqs |-> IF part \in parts THEN Phase(r) ELSE "new"]
Made(parts) == [r \in Reqs |-> IF part \in parts THEN req[r].out ELSE 0]
Short == INSTANCE RequestLife WITH
    Limit <- ThreeAsked, phase <- Seen({"overlapped", "priority"}), tokens <- Made({"overlapped", "priority"})
Paged == INSTANCE RequestLife WITH
    Limit <- PagedAsked, phase <- Seen({"normal", "riding"}), tokens <- Made({"normal", "riding"})
LivesOnce == Short!Spec /\ Paged!Spec
=============================================================================
