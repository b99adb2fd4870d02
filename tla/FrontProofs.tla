---------------------------- MODULE FrontProofs ----------------------------
(***************************************************************************)
(* Proofs about the front end and the weight updates behind it: what a     *)
(* pause, the reader-writer lock and a failing update leave true, for any  *)
(* number of calls, requests, updates and ranks.                           *)
(***************************************************************************)
EXTENDS MCFront, FiniteSetTheorems, SequenceTheorems, TLAPS

-----------------------------------------------------------------------------
(* Types.                                                                  *)

Reasons == {"stop", "abort", "busy", "bad"}
Modes   == {"abort", "in_place", "retract"}
Tasks   == {"new", "gate", "lock", "tokenize", "serve", "reply", "done", "failed", "gone", "left"}
Version == Updates \cup {None}

(* The messages to the scheduler and from it.                              *)
InMsg ==
    {Gen(r) : r \in Reqs} \cup {Abort(R) : R \in SUBSET Reqs} \cup
    [t : {"pause"}, r : Modes] \cup [t : {"continue"}, r : {None}] \cup [t : {"update"}, r : Updates]
OutMsg ==
    [t : {"out"}, r : Reqs, n : {1}, why : Reasons \cup {None}] \cup
    [t : {"aborted"}, r : Reqs, n : {0}, why : {"busy", "abort"}] \cup
    [t : {"updated"}, r : Updates]
Outputs == [text : Nat, ids : Int, why : Reasons \cup {None}]

States  == [text : Nat, off : Nat, fin : BOOLEAN, outs : Seq(Outputs), event : BOOLEAN]
Views   == [text : Nat, ids : Int, reason : Reasons \cup {None, "left"}]
Engs    == [at : {"none", "queued", "running", "end"}, n : Nat, tofin : {None, "abort", "busy", "bad"}]

(* A call sends its requests in order, one by one.                         *)
SentInOrder ==
    \A c \in Calls :
        /\ sent[c] <= Len(setup.rids[c])
        /\ task[c] \in {"new", "gate", "lock"} => sent[c] = 0
        /\ task[c] \in {"gate", "lock", "tokenize"} => sent[c] < Len(setup.rids[c])
        /\ task[c] \in {"serve", "reply", "done"} => sent[c] = Len(setup.rids[c])

Types ==
    /\ setup \in Setups /\ SentInOrder
    /\ task \in [Calls -> Tasks] /\ sent \in [Calls -> Nat]
    /\ table \in SUBSET Reqs
    /\ st \in [Reqs -> States]
    /\ seen \in [Reqs -> Views]
    /\ readers \in SUBSET Calls /\ writer \in Version /\ writers \in SUBSET Updates
    /\ is_pause \in BOOLEAN /\ pausing \in {"no", "loop", "drained"}
    /\ upd \in [Updates -> {"new", "lock", "sent", "done"}]
    /\ future \in [Updates -> Version] /\ cur \in Version
    /\ inq \in Seq(InMsg) /\ outq \in Seq(OutMsg)
    /\ eng \in [Reqs -> Engs]
    /\ weights \in Version /\ ver \in [Reqs -> SUBSET Version]
    /\ exited \in {"no", "left", "crashed"}

(* A bijection numbers every finite set.                                   *)
LEMMA SetToSeqFacts ==
    ASSUME NEW S, IsFiniteSet(S)
    PROVE  /\ SetToSeq(S) \in Seq(S)
           /\ Len(SetToSeq(S)) = Cardinality(S)
           /\ IsInjective(SetToSeq(S))
<1>1. Cardinality(S) \in Nat /\ ExistsBijection(1 .. Cardinality(S), S)
  BY FS_CardinalityType
<1>2. \E f \in [1 .. Cardinality(S) -> S] : IsInjective(f)
  BY <1>1 DEF ExistsBijection, Bijection, Injection
<1>3. SetToSeq(S) \in [1 .. Cardinality(S) -> S] /\ IsInjective(SetToSeq(S))
  BY <1>2 DEF SetToSeq
<1>4. SetToSeq(S) \in Seq(S) /\ Len(SetToSeq(S)) = Cardinality(S)
  BY <1>1, <1>3
<1> QED
  BY <1>3, <1>4

(* abort_request sends aborts and nothing else.                            *)
LEMMA AbortMsgsFacts ==
    ASSUME FrontAssumption, table \in SUBSET Reqs, NEW R \in SUBSET Reqs
    PROVE  /\ AbortMsgs(R) \in Seq(InMsg)
           /\ \A i \in 1 .. Len(AbortMsgs(R)) : AbortMsgs(R)[i].t = "abort"
<1> DEFINE s == SetToSeq(R \cap table)
<1>1. IsFiniteSet(R \cap table)
  BY FS_Subset DEF FrontAssumption
<1>2. s \in Seq(R \cap table)
  BY <1>1, SetToSeqFacts
<1> HIDE DEF s
<1>3. AbortMsgs(R) = [i \in 1 .. Len(s) |-> Abort({s[i]})]
  BY <1>2 DEF AbortMsgs, s
<1>4. ASSUME NEW i \in 1 .. Len(s)
      PROVE  Abort({s[i]}) \in InMsg /\ Abort({s[i]}).t = "abort"
  <2>1. {s[i]} \in SUBSET Reqs
    BY <1>2
  <2> QED
    BY <2>1 DEF InMsg, Abort
<1>5. Len(s) \in Nat
  BY <1>2
<1>6. AbortMsgs(R) \in Seq(InMsg) /\ Len(AbortMsgs(R)) = Len(s)
  BY <1>3, <1>4, <1>5
<1> QED
  BY <1>3, <1>4, <1>6

(* The steps of the front end and of the scheduler behind it, one by one.  *)
CallAction(c) ==
    \/ Arrive(c) \/ Gate(c) \/ ReaderLock(c) \/ Tokenize(c) \/ Finish(c) \/ Respond(c)
    \/ Disconnect(c) \/ BackgroundAbort(c) \/ \E ok \in BOOLEAN : HealthEnds(c, ok)
RequestAction(r) ==
    \/ Wake(r) \/ NoticeDisconnect(r) \/ AbortRequest(r) \/ EngineStart(r)
    \/ \E last \in BOOLEAN : EngineToken(r, last)
LEMMA NextCases ==
    ASSUME Next
    PROVE  /\ Alive
           /\ \/ \E c \in Calls : CallAction(c)
              \/ \E r \in Reqs : RequestAction(r)
              \/ \E mode \in setup.modes : PauseGeneration(mode)
              \/ \E x \in setup.updates : StartUpdate(x)
              \/ \E x \in Updates : WriterLock(x) \/ UpdateDone(x)
              \/ PauseTurn \/ ContinueGeneration \/ HandleMessage \/ SigTerm \/ Watchdog
              \/ EngineReceive
  BY DEF Next, CallAction, RequestAction, CallStep, WakeStep, LeftStep, HealthStep, UpdateStep, PauseStep,
         ContinueStep, LoopStep, ExitStep, ReceiveStep, EngineStep, Outside

(* What the scheduler does with each kind of message.                      *)
Notices(R) == [i \in 1 .. Cardinality(R) |-> Aborted(SetToSeq(R)[i], "abort")]
ReceiveGen(r) ==
    \E how \in setup.refusals \cup {None} :
        /\ eng' = [eng EXCEPT ![r].at = IF how = "busy" THEN "end" ELSE "queued", ![r].tofin = how]
        /\ outq' = IF how = "busy" THEN Append(outq, Aborted(r, how)) ELSE outq
        /\ UNCHANGED weights
ReceiveAbort(R) ==
    /\ eng' = [r \in Reqs |->
                 IF r \notin R THEN eng[r]
                 ELSE IF r \in Queued THEN [eng[r] EXCEPT !.at = "end"]
                 ELSE IF r \in Started THEN [eng[r] EXCEPT !.tofin = "abort"]
                 ELSE eng[r]]
    /\ outq' = outq \o Notices(R \cap Queued)
    /\ UNCHANGED weights
ReceivePause(mode) ==
    /\ eng' = [r \in Reqs |-> IF mode = "retract" /\ r \in Started
                              THEN [eng[r] EXCEPT !.at = "queued"] ELSE eng[r]]
    /\ UNCHANGED <<outq, weights>>
ReceiveUpdate(x) ==
    /\ weights' = x /\ outq' = Append(outq, [t |-> "updated", r |-> x])
    /\ UNCHANGED eng
LEMMA ReceiveCases ==
    ASSUME Types, EngineReceive
    PROVE  /\ inq # <<>> /\ inq' = Tail(inq)
           /\ UNCHANGED <<client, front, lock, pause, update, ver, server>>
           /\ \/ \E r \in Reqs : Head(inq) = Gen(r) /\ ReceiveGen(r)
              \/ \E R \in SUBSET Reqs : Head(inq) = Abort(R) /\ ReceiveAbort(R)
              \/ \E mode \in Modes : Head(inq) = [t |-> "pause", r |-> mode] /\ ReceivePause(mode)
              \/ Head(inq).t = "continue" /\ UNCHANGED <<eng, outq, weights>>
              \/ \E x \in Updates : Head(inq) = [t |-> "update", r |-> x] /\ ReceiveUpdate(x)
<1> DEFINE msg == Head(inq)
<1>1. inq # <<>> /\ inq' = Tail(inq) /\ UNCHANGED <<client, front, lock, pause, update, ver, server>>
  BY DEF EngineReceive
<1>2. msg \in InMsg
  BY <1>1 DEF Types
<1>3. CASE \E r \in Reqs : msg = Gen(r)
  <2>1. PICK r \in Reqs : msg = Gen(r)
    BY <1>3
  <2>2. msg.t = "gen" /\ msg.r = r
    BY <2>1 DEF Gen
  <2>3. ReceiveGen(r)
    BY <2>2 DEF EngineReceive, ReceiveGen
  <2> QED
    BY <1>1, <2>1, <2>3
<1>4. CASE \E R \in SUBSET Reqs : msg = Abort(R)
  <2>1. PICK R \in SUBSET Reqs : msg = Abort(R)
    BY <1>4
  <2>2. msg.t = "abort" /\ msg.r = R
    BY <2>1 DEF Abort
  <2>3. ReceiveAbort(R)
    BY <2>2 DEF EngineReceive, ReceiveAbort, Notices
  <2> QED
    BY <1>1, <2>1, <2>3
<1>5. CASE msg \in [t : {"pause"}, r : Modes]
  <2>1. PICK mode \in Modes : msg = [t |-> "pause", r |-> mode]
    BY <1>5
  <2> QED
    BY <1>1, <2>1 DEF EngineReceive, ReceivePause
<1>6. CASE msg \in [t : {"continue"}, r : {None}]
  BY <1>1, <1>6 DEF EngineReceive
<1>7. CASE msg \in [t : {"update"}, r : Updates]
  <2>1. PICK x \in Updates : msg = [t |-> "update", r |-> x]
    BY <1>7
  <2> QED
    BY <1>1, <2>1 DEF EngineReceive, ReceiveUpdate
<1> QED
  BY <1>2, <1>3, <1>4, <1>5, <1>6, <1>7 DEF InMsg

(* One notice for every queued request, each once.                         *)
LEMMA NoticesFacts ==
    ASSUME FrontAssumption, NEW R \in SUBSET Reqs
    PROVE  /\ Notices(R) \in Seq(OutMsg)
           /\ \A i \in 1 .. Len(Notices(R)) : \E r \in R : Notices(R)[i] = Aborted(r, "abort")
           /\ \A i, j \in 1 .. Len(Notices(R)) : Notices(R)[i].r = Notices(R)[j].r => i = j
<1> DEFINE s == SetToSeq(R)
<1>1. IsFiniteSet(R)
  BY FS_Subset DEF FrontAssumption
<1>2. s \in Seq(R) /\ Len(s) = Cardinality(R) /\ IsInjective(s)
  BY <1>1, SetToSeqFacts
<1>3. Notices(R) = [i \in 1 .. Len(s) |-> Aborted(s[i], "abort")]
  BY <1>2 DEF Notices
<1> HIDE DEF s
<1>4. Len(s) \in Nat /\ \A i \in 1 .. Len(s) : s[i] \in R
  BY <1>2
<1>5. \A i \in 1 .. Len(s) : /\ Aborted(s[i], "abort") \in OutMsg
                             /\ Aborted(s[i], "abort").r = s[i]
  BY <1>4 DEF OutMsg, Aborted
<1>6. Notices(R) \in Seq(OutMsg) /\ Len(Notices(R)) = Len(s)
  BY <1>3, <1>4, <1>5
<1>7. \A i, j \in 1 .. Len(s) : s[i] = s[j] => i = j
  BY <1>2, <1>4 DEF IsInjective
<1> QED
  BY <1>3, <1>4, <1>5, <1>6, <1>7

LEMMA TypesInit ==
    ASSUME FrontAssumption, Init
    PROVE  Types
<1>1. NewState \in States
  BY DEF NewState, States
<1>2. st \in [Reqs -> States]
  BY <1>1 DEF Init
<1>3. seen \in [Reqs -> Views]
  BY DEF Init, Views
<1>4. eng \in [Reqs -> Engs]
  BY DEF Init, Engs
<1>5. inq \in Seq(InMsg) /\ outq \in Seq(OutMsg)
  BY DEF Init
<1>6. SentInOrder
  <2>1. \A c \in Calls : Len(setup.rids[c]) \in Nat
    BY DEF Init, FrontAssumption
  <2> QED
    BY <2>1 DEF Init, SentInOrder
<1>7. /\ future \in [Updates -> Version] /\ ver \in [Reqs -> SUBSET Version]
      /\ writer \in Version /\ cur \in Version /\ weights \in Version
  BY DEF Init, Version
<1> QED
  BY <1>2, <1>3, <1>4, <1>5, <1>6, <1>7 DEF Init, Types, Tasks

(* The steps of a call.                                                    *)
LEMMA TypesCall ==
    ASSUME FrontAssumption, Types, NEW c \in Calls, CallAction(c)
    PROVE  Types'
<1> USE DEF client, front, lock, pause, update, engine, server
<1>0. /\ setup' = setup /\ SentInOrder
      /\ \A d \in Calls : setup.rids[d] \in Seq(Reqs) /\ Len(setup.rids[d]) \in Nat
  <2>1. setup' = setup
    BY DEF CallAction, Arrive, Gate, ReaderLock, Tokenize, Finish, Respond, Disconnect, BackgroundAbort,
           HealthEnds
  <2> QED
    BY <2>1 DEF Types, FrontAssumption
<1>1. CASE Arrive(c)
  <2>1. table' \in SUBSET Reqs
    BY <1>0, <1>1 DEF Arrive, ToSet, Types
  <2>2. SentInOrder'
    BY <1>0, <1>1 DEF Arrive, Types, SentInOrder
  <2> QED
    BY <1>1, <2>1, <2>2 DEF Arrive, Types, Tasks
<1>2. CASE Gate(c) \/ ReaderLock(c) \/ Finish(c) \/ Respond(c)
  <2>1. SentInOrder'
    BY <1>0, <1>2 DEF Gate, ReaderLock, Finish, Respond, Leave, Types, SentInOrder
  <2> QED
    BY <1>2, <2>1 DEF Gate, ReaderLock, Finish, Respond, Leave, Types, Tasks
<1>3. CASE Tokenize(c)
  <2>1. CASE setup.rids[c][sent[c] + 1] \in setup.invalid
    <3>1. SentInOrder'
      BY <1>0, <1>3, <2>1 DEF Tokenize, Leave, Types, SentInOrder
    <3> QED
      BY <1>3, <2>1, <3>1 DEF Tokenize, Leave, Types, Tasks
  <2>2. CASE setup.rids[c][sent[c] + 1] \notin setup.invalid
    <3>1. setup.rids[c][sent[c] + 1] \in Reqs
      BY <1>0, <1>3 DEF Tokenize, SentInOrder, Types
    <3>2. Gen(setup.rids[c][sent[c] + 1]) \in InMsg
      BY <3>1 DEF InMsg
    <3>3. /\ task[c] = "tokenize" /\ inq' = Append(inq, Gen(setup.rids[c][sent[c] + 1]))
          /\ sent' = [sent EXCEPT ![c] = @ + 1]
          /\ task' = [task EXCEPT ![c] = IF sent[c] + 1 = Len(setup.rids[c]) THEN "serve" ELSE "tokenize"]
      BY <1>3, <2>2 DEF Tokenize
    <3>4. inq' \in Seq(InMsg)
      BY <3>2, <3>3 DEF Types
    <3>5. SentInOrder'
      <4>1. sent[c] \in Nat /\ sent[c] < Len(setup.rids[c])
        BY <1>0, <3>3 DEF Types, SentInOrder
      <4>2. sent'[c] = sent[c] + 1 /\ task'[c] = IF sent[c] + 1 = Len(setup.rids[c]) THEN "serve" ELSE "tokenize"
        BY <3>3 DEF Types
      <4>3. \A d \in Calls \ {c} : sent'[d] = sent[d] /\ task'[d] = task[d]
        BY <3>3 DEF Types
      <4> QED
        BY <1>0, <4>1, <4>2, <4>3 DEF SentInOrder
    <3>6. sent' \in [Calls -> Nat] /\ task' \in [Calls -> Tasks]
      BY <3>3 DEF Types, Tasks
    <3> QED
      BY <1>3, <2>2, <3>4, <3>5, <3>6 DEF Tokenize, Types
  <2> QED
    BY <2>1, <2>2
<1>4. CASE Disconnect(c)
  <2>1. SentInOrder'
    BY <1>0, <1>4 DEF Disconnect, Leave, Types, SentInOrder
  <2> QED
    BY <1>4, <2>1 DEF Disconnect, Leave, Types, Tasks
<1>5. CASE BackgroundAbort(c)
  <2>1. inq' \in Seq(InMsg)
    <3>1. ToSet(setup.rids[c]) \in SUBSET Reqs
      BY <1>0 DEF ToSet
    <3>2. AbortMsgs(ToSet(setup.rids[c])) \in Seq(InMsg)
      BY <3>1, AbortMsgsFacts DEF Types
    <3> QED
      BY <1>5, <3>2 DEF BackgroundAbort, Types
  <2>2. SentInOrder'
    BY <1>0, <1>5 DEF BackgroundAbort, Types, SentInOrder
  <2> QED
    BY <1>5, <2>1, <2>2 DEF BackgroundAbort, Types, Tasks
<1>6. CASE \E ok \in BOOLEAN : HealthEnds(c, ok)
  <2>1. SentInOrder'
    BY <1>0, <1>6 DEF HealthEnds, Leave, Types, SentInOrder
  <2> QED
    BY <1>6, <2>1 DEF HealthEnds, Leave, Types, Tasks
<1> QED
  BY <1>1, <1>2, <1>3, <1>4, <1>5, <1>6 DEF CallAction

(* The steps of a request, in the front end and in the scheduler.          *)
LEMMA TypesRequest ==
    ASSUME FrontAssumption, Types, NEW r \in Reqs, RequestAction(r)
    PROVE  Types'
<1> USE DEF client, front, lock, pause, update, engine, server
<1>0. /\ setup' = setup /\ SentInOrder /\ CallOf(r) \in Calls
      /\ \A d \in Calls : setup.rids[d] \in Seq(Reqs) /\ Len(setup.rids[d]) \in Nat
  BY DEF Types, FrontAssumption, CallOf, RequestAction, Wake, NoticeDisconnect, AbortRequest, EngineStart,
         EngineToken
<1>1. CASE Wake(r)
  <2>1. Last(st[r].outs) \in Outputs
    BY <1>1 DEF Wake, Last, Types, States
  <2>2. Given(r) \in Views
    BY <2>1 DEF Given, Types, Outputs, Views
  <2>3. seen' \in [Reqs -> Views]
    BY <1>1, <2>2 DEF Wake, Types
  <2>4. st' \in [Reqs -> States]
    <3> DEFINE st1 == [st EXCEPT ![r].outs = <<>>]
    <3>1. st \in [Reqs -> States] /\ <<>> \in Seq(Outputs)
      BY DEF Types
    <3>2. st1 \in [Reqs -> States]
      BY <3>1 DEF States
    <3>3. st' = [st1 EXCEPT ![r].event = st[r].fin]
      BY <1>1 DEF Wake
    <3> HIDE DEF st1
    <3> QED
      BY <3>1, <3>2, <3>3 DEF States
  <2>5. SentInOrder'
    BY <1>0, <1>1 DEF Wake, Leave, Types, SentInOrder
  <2>6. task' \in [Calls -> Tasks] /\ readers' \in SUBSET Calls
    BY <1>0, <1>1 DEF Wake, Leave, Types, Tasks
  <2>7. table' \in SUBSET Reqs
    BY <1>1 DEF Wake, Types
  <2> QED
    BY <1>0, <1>1, <2>3, <2>4, <2>5, <2>6, <2>7 DEF Wake, Types
<1>2. CASE NoticeDisconnect(r)
  <2>1. inq' \in Seq(InMsg)
    <3>1. AbortMsgs({r}) \in Seq(InMsg)
      BY AbortMsgsFacts DEF Types
    <3> QED
      BY <1>2, <3>1 DEF NoticeDisconnect, Types
  <2>2. SentInOrder'
    BY <1>0, <1>2 DEF NoticeDisconnect, Leave, Types, SentInOrder
  <2> QED
    BY <1>0, <1>2, <2>1, <2>2 DEF NoticeDisconnect, Leave, Types, Tasks, Views
<1>3. CASE AbortRequest(r)
  <2>1. inq' \in Seq(InMsg)
    <3>1. AbortMsgs({r}) \in Seq(InMsg)
      BY AbortMsgsFacts DEF Types
    <3> QED
      BY <1>3, <3>1 DEF AbortRequest, Types
  <2> QED
    BY <1>3, <2>1 DEF AbortRequest, Types, SentInOrder
<1>4. CASE EngineStart(r)
  BY <1>4 DEF EngineStart, Types, SentInOrder, Engs
<1>5. CASE \E last \in BOOLEAN : EngineToken(r, last)
  <2>1. PICK last \in BOOLEAN : EngineToken(r, last)
    BY <1>5
  <2> DEFINE why == IF ~last THEN None ELSE IF eng[r].tofin = None THEN "stop" ELSE eng[r].tofin
  <2>2. Out(r, 1, why) \in OutMsg
    BY DEF Out, OutMsg, Types, Reasons, Engs
  <2>3. outq' \in Seq(OutMsg)
    BY <2>1, <2>2 DEF EngineToken, Types
  <2>4. ver' \in [Reqs -> SUBSET Version]
    BY <2>1 DEF EngineToken, Types
  <2>5. eng' \in [Reqs -> Engs]
    <3> DEFINE eng1 == [eng EXCEPT ![r].n = @ + 1]
    <3>1. eng1 \in [Reqs -> Engs]
      <4>1. eng \in [Reqs -> Engs]
        BY DEF Types
      <4> QED
        BY <4>1 DEF Engs
    <3>2. eng' = [eng1 EXCEPT ![r].at = IF last THEN "end" ELSE @]
      BY <2>1 DEF EngineToken
    <3> HIDE DEF eng1
    <3> QED
      BY <3>1, <3>2 DEF Engs
  <2> QED
    BY <2>1, <2>3, <2>4, <2>5 DEF EngineToken, Types, SentInOrder
<1> QED
  BY <1>1, <1>2, <1>3, <1>4, <1>5 DEF RequestAction

(* The scheduler takes a message.                                          *)
LEMMA TypesReceive ==
    ASSUME FrontAssumption, Types, EngineReceive
    PROVE  Types'
<1>0. /\ eng \in [Reqs -> Engs] /\ outq \in Seq(OutMsg) /\ weights \in Version /\ setup \in Setups
      /\ setup.refusals \subseteq {"busy", "bad"}
  BY DEF Types, FrontAssumption
<1>1. inq' \in Seq(InMsg)
  <2>1. inq # <<>> /\ inq' = Tail(inq)
    BY ReceiveCases
  <2> QED
    BY <2>1 DEF Types
<1>2. ASSUME NEW r \in Reqs, ReceiveGen(r)
      PROVE  eng' \in [Reqs -> Engs] /\ outq' \in Seq(OutMsg) /\ weights' \in Version
  <2>1. PICK how \in setup.refusals \cup {None} :
           /\ eng' = [eng EXCEPT ![r].at = IF how = "busy" THEN "end" ELSE "queued", ![r].tofin = how]
           /\ outq' = IF how = "busy" THEN Append(outq, Aborted(r, how)) ELSE outq
           /\ UNCHANGED weights
    BY <1>2 DEF ReceiveGen
  <2> DEFINE eng1 == [eng EXCEPT ![r].at = IF how = "busy" THEN "end" ELSE "queued"]
  <2>2. eng1 \in [Reqs -> Engs]
    BY <1>0 DEF Engs
  <2>3. eng' = [eng1 EXCEPT ![r].tofin = how]
    BY <2>1
  <2>4. how \in {None, "busy", "bad"}
    BY <1>0
  <2> HIDE DEF eng1
  <2>5. eng' \in [Reqs -> Engs]
    BY <2>2, <2>3, <2>4 DEF Engs
  <2>6. outq' \in Seq(OutMsg)
    BY <1>0, <2>1 DEF OutMsg, Aborted
  <2> QED
    BY <1>0, <2>1, <2>5, <2>6
<1>3. ASSUME NEW R \in SUBSET Reqs, ReceiveAbort(R)
      PROVE  eng' \in [Reqs -> Engs] /\ outq' \in Seq(OutMsg) /\ weights' \in Version
  <2>1. Notices(R \cap Queued) \in Seq(OutMsg)
    BY NoticesFacts
  <2>2. eng' \in [Reqs -> Engs]
    BY <1>0, <1>3 DEF ReceiveAbort, Engs
  <2> QED
    BY <1>0, <1>3, <2>1, <2>2 DEF ReceiveAbort
<1>4. ASSUME NEW mode \in Modes, ReceivePause(mode)
      PROVE  eng' \in [Reqs -> Engs] /\ outq' \in Seq(OutMsg) /\ weights' \in Version
  BY <1>0, <1>4 DEF ReceivePause, Engs
<1>5. ASSUME NEW x \in Updates, ReceiveUpdate(x)
      PROVE  eng' \in [Reqs -> Engs] /\ outq' \in Seq(OutMsg) /\ weights' \in Version
  BY <1>0, <1>5 DEF ReceiveUpdate, OutMsg, Version
<1>6. eng' \in [Reqs -> Engs] /\ outq' \in Seq(OutMsg) /\ weights' \in Version
  BY <1>0, <1>2, <1>3, <1>4, <1>5, ReceiveCases
<1> QED
  BY <1>1, <1>6, ReceiveCases DEF Types, SentInOrder, client, front, lock, pause, update, server

(* A message of the scheduler arrives.                                     *)
LEMMA TypesHandle ==
    ASSUME FrontAssumption, Types, HandleMessage
    PROVE  Types'
<1> USE DEF client, front, lock, pause, update, engine, server
<1>1. outq # <<>> /\ Head(outq) \in OutMsg /\ outq' \in Seq(OutMsg)
  BY DEF HandleMessage, Types
<1> DEFINE msg == Head(outq)
<1>2. /\ table' \in SUBSET Reqs /\ st' \in [Reqs -> States]
      /\ future' \in [Updates -> Version] /\ exited' \in {"no", "left", "crashed"}
  <2>0. st \in [Reqs -> States] /\ table \in SUBSET Reqs /\ future \in [Updates -> Version]
    BY DEF Types
  <2>1. CASE msg \in [t : {"out"}, r : Reqs, n : {1}, why : Reasons \cup {None}]
    <3>1. HandleOutput(msg) /\ UNCHANGED <<future, exited>>
      BY <2>1 DEF HandleMessage
    <3>2. CASE msg.r \notin table
      BY <2>0, <3>1, <3>2 DEF HandleOutput, Types
    <3>3. CASE msg.r \in table
      <4> DEFINE text1 == Text(st[msg.r], msg.n)
                 out == [text |-> text1, why |-> msg.why,
                         ids |-> IF setup.segments /\ CallOf(msg.r) \in Streaming
                                 THEN text1 - st[msg.r].off ELSE text1]
      <4>1. msg.r \in Reqs /\ msg.n = 1 /\ msg.why \in Reasons \cup {None}
        BY <2>1
      <4>2. st[msg.r].text \in Nat /\ st[msg.r].off \in Nat /\ st[msg.r].outs \in Seq(Outputs)
        BY <2>0, <4>1 DEF States
      <4>3. text1 \in Nat
        BY <4>1, <4>2 DEF Text
      <4>4. out \in Outputs
        BY <4>1, <4>2, <4>3 DEF Outputs
      <4>5. st' = [st EXCEPT ![msg.r] = [text |-> text1, off |-> text1, fin |-> msg.why # None,
                                         outs |-> Append(st[msg.r].outs, out), event |-> TRUE]]
        BY <3>1, <3>3 DEF HandleOutput
      <4>6. table' \in SUBSET Reqs
        BY <2>0, <3>1, <3>3 DEF HandleOutput
      <4>7. Append(st[msg.r].outs, out) \in Seq(Outputs)
        BY <4>2, <4>4
      <4> HIDE DEF text1, out
      <4>8. st' \in [Reqs -> States]
        BY <2>0, <4>3, <4>5, <4>7 DEF States
      <4> QED
        BY <3>1, <4>6, <4>8 DEF Types
    <3> QED
      BY <3>2, <3>3
  <2>2. CASE msg \in [t : {"aborted"}, r : Reqs, n : {0}, why : {"busy", "abort"}]
    <3>1. HandleAborted(msg) /\ UNCHANGED <<table, future>>
      BY <2>2 DEF HandleMessage
    <3>2. CASE ~LooksUp(msg.r) \/ msg.r \notin table
      BY <2>0, <3>1, <3>2 DEF HandleAborted, Types
    <3>3. CASE LooksUp(msg.r) /\ msg.r \in table
      <4> DEFINE out == [text |-> st[msg.r].text, why |-> msg.why,
                         ids |-> IF CallOf(msg.r) \in Streaming
                                 THEN (IF st[msg.r].text > 0 THEN 1 ELSE 0) ELSE st[msg.r].text]
                 st1 == [st EXCEPT ![msg.r].fin = TRUE]
                 st2 == [st1 EXCEPT ![msg.r].event = Notify(msg.r)]
      <4>1. msg.r \in Reqs /\ msg.why \in Reasons
        BY <2>2 DEF Reasons
      <4>2. st[msg.r].text \in Nat /\ st[msg.r].outs \in Seq(Outputs)
        BY <2>0, <4>1 DEF States
      <4>3. out \in Outputs
        BY <4>1, <4>2 DEF Outputs
      <4>4. st1 \in [Reqs -> States]
        BY <2>0 DEF States
      <4>5. st' = [st2 EXCEPT ![msg.r].outs = Append(@, out)]
        BY <3>1, <3>3 DEF HandleAborted
      <4> HIDE DEF st1, out
      <4>6. st2 \in [Reqs -> States]
        BY <4>4 DEF States, Notify
      <4> HIDE DEF st2
      <4>7. Append(st2[msg.r].outs, out) \in Seq(Outputs)
        BY <4>1, <4>3, <4>6 DEF States
      <4>8. st' \in [Reqs -> States]
        BY <4>5, <4>6, <4>7 DEF States
      <4> QED
        BY <2>0, <3>1, <3>3, <4>8 DEF HandleAborted, Types
    <3> QED
      BY <3>2, <3>3
  <2>3. CASE msg \in [t : {"updated"}, r : Updates]
    BY <2>0, <2>3 DEF HandleMessage, HandleUpdated, Types, Version
  <2> QED
    BY <1>1, <2>1, <2>2, <2>3 DEF OutMsg
<1> QED
  BY <1>1, <1>2 DEF HandleMessage, Types, SentInOrder

(* Every step keeps the types.                                             *)
LEMMA TypesStep ==
    ASSUME FrontAssumption, Types, Next
    PROVE  Types'
<1> USE DEF client, front, lock, pause, update, engine, server
<1>0. setup \in Setups /\ setup.modes \subseteq Modes /\ setup.updates \subseteq Updates
  BY DEF Types, FrontAssumption, Modes
<1>1. ASSUME NEW mode \in setup.modes, PauseGeneration(mode)
      PROVE  Types'
  <2>1. [t |-> "pause", r |-> mode] \in InMsg
    BY <1>0 DEF InMsg
  <2>2. inq' \in Seq(InMsg)
    <3>1. inq' = inq \/ inq' = Append(inq, [t |-> "pause", r |-> mode])
      BY <1>1 DEF PauseGeneration
    <3>2. inq \in Seq(InMsg)
      BY DEF Types
    <3> QED
      BY <2>1, <3>1, <3>2, AppendProperties
  <2> QED
    BY <1>1, <2>2 DEF PauseGeneration, Types, SentInOrder
<1>2. ASSUME NEW x \in Updates, StartUpdate(x) \/ WriterLock(x)
      PROVE  Types'
  <2>1. [t |-> "update", r |-> x] \in InMsg
    BY DEF InMsg
  <2>2. inq' \in Seq(InMsg)
    <3>1. inq' = inq \/ inq' = Append(inq, [t |-> "update", r |-> x])
      BY <1>2 DEF StartUpdate, WriterLock, SendUpdate
    <3>2. inq \in Seq(InMsg)
      BY DEF Types
    <3> QED
      BY <2>1, <3>1, <3>2, AppendProperties
  <2> QED
    BY <1>2, <2>2 DEF StartUpdate, WriterLock, SendUpdate, Types, SentInOrder, Version
<1>3. ASSUME NEW x \in Updates, UpdateDone(x)
      PROVE  Types'
  BY <1>3 DEF UpdateDone, Types, SentInOrder, Version
<1>4. CASE PauseTurn
  <2>1. Abort(Reqs) \in InMsg
    BY DEF InMsg
  <2>2. inq' \in Seq(InMsg)
    BY <1>4, <2>1 DEF PauseTurn, Types
  <2> QED
    BY <1>4, <2>2 DEF PauseTurn, Types, SentInOrder
<1>5. CASE ContinueGeneration
  <2>1. [t |-> "continue", r |-> None] \in InMsg
    BY DEF InMsg
  <2>2. inq' \in Seq(InMsg)
    BY <1>5, <2>1 DEF ContinueGeneration, Types
  <2> QED
    BY <1>5, <2>2 DEF ContinueGeneration, Types, SentInOrder
<1>6. CASE SigTerm \/ Watchdog
  BY <1>6 DEF SigTerm, Watchdog, Types, SentInOrder
<1> QED
  BY <1>0, <1>1, <1>2, <1>3, <1>4, <1>5, <1>6, NextCases, TypesCall, TypesRequest, TypesReceive, TypesHandle

-----------------------------------------------------------------------------
(* Queues: which messages one holds, and which of them it holds once.      *)

Has(q, m) == \E i \in 1 .. Len(q) : q[i] = m
OnceIn(q, M) == \A i, j \in 1 .. Len(q) : q[i] = q[j] /\ q[i] \in M => i = j

LEMMA QueueAppend ==
    ASSUME NEW S, NEW q \in Seq(S), NEW m \in S
    PROVE  /\ \A k : Has(Append(q, m), k) <=> Has(q, k) \/ k = m
           /\ \A M : OnceIn(q, M) /\ (m \in M => ~Has(q, m)) => OnceIn(Append(q, m), M)
<1>1. /\ Len(q) \in Nat /\ Len(Append(q, m)) = Len(q) + 1
      /\ \A i \in 1 .. Len(q) : Append(q, m)[i] = q[i]
      /\ Append(q, m)[Len(q) + 1] = m
  BY AppendProperties, LenProperties
<1> DEFINE p == Append(q, m)
<1> HIDE DEF p
<1>2. /\ Len(q) \in Nat /\ Len(p) = Len(q) + 1
      /\ \A i \in 1 .. Len(q) : p[i] = q[i]
      /\ p[Len(q) + 1] = m
  BY <1>1 DEF p
<1>3. \A k : Has(p, k) <=> Has(q, k) \/ k = m
  BY <1>2 DEF Has
<1>4. ASSUME NEW M, OnceIn(q, M), m \in M => ~Has(q, m)
      PROVE  OnceIn(p, M)
  <2> SUFFICES ASSUME NEW i \in 1 .. Len(p), NEW j \in 1 .. Len(p), p[i] = p[j], p[i] \in M
               PROVE  i = j
    BY DEF OnceIn
  <2> QED
    BY <1>2, <1>4 DEF OnceIn, Has
<1> QED
  BY <1>3, <1>4 DEF p

LEMMA QueueTail ==
    ASSUME NEW S, NEW q \in Seq(S), q # <<>>
    PROVE  /\ Has(q, Head(q))
           /\ \A k : Has(q, k) <=> Has(Tail(q), k) \/ k = Head(q)
           /\ \A M : OnceIn(q, M) => /\ OnceIn(Tail(q), M)
                                     /\ Head(q) \in M => ~Has(Tail(q), Head(q))
<1> DEFINE p == Tail(q)
<1>1. /\ Len(q) \in Nat \ {0} /\ Len(p) = Len(q) - 1 /\ Head(q) = q[1]
      /\ \A i \in 1 .. Len(p) : p[i] = q[i + 1]
  BY HeadTailProperties, LenProperties, EmptySeq
<1> HIDE DEF p
<1>2. Has(q, Head(q))
  BY <1>1 DEF Has
<1>3. \A k : Has(q, k) <=> Has(p, k) \/ k = Head(q)
  <2>1. ASSUME NEW k, Has(p, k)
        PROVE  Has(q, k)
    <3>1. PICK i \in 1 .. Len(p) : p[i] = k
      BY <2>1 DEF Has
    <3>2. i + 1 \in 1 .. Len(q) /\ q[i + 1] = k
      BY <1>1, <3>1
    <3> QED
      BY <3>2 DEF Has
  <2>2. ASSUME NEW k, Has(q, k), k # Head(q)
        PROVE  Has(p, k)
    <3>1. PICK i \in 1 .. Len(q) : q[i] = k
      BY <2>2 DEF Has
    <3>2. i # 1
      BY <1>1, <2>2, <3>1
    <3>3. i - 1 \in 1 .. Len(p) /\ p[i - 1] = k
      BY <1>1, <3>1, <3>2
    <3> QED
      BY <3>3 DEF Has
  <2> QED
    BY <1>2, <2>1, <2>2
<1>4. ASSUME NEW M, OnceIn(q, M)
      PROVE  OnceIn(p, M) /\ (Head(q) \in M => ~Has(p, Head(q)))
  <2>1. \A i \in 1 .. Len(p) : i + 1 \in 1 .. Len(q) /\ p[i] = q[i + 1] /\ i + 1 # 1
    BY <1>1
  <2>2. ASSUME NEW i \in 1 .. Len(p), NEW j \in 1 .. Len(p), p[i] = p[j], p[i] \in M
        PROVE  i = j
    <3>1. i + 1 = j + 1
      BY <1>4, <2>1, <2>2 DEF OnceIn
    <3> QED
      BY <1>1, <3>1
  <2>3. 1 \in 1 .. Len(q)
    BY <1>1
  <2> QED
    BY <1>1, <1>4, <2>1, <2>2, <2>3 DEF OnceIn, Has
<1> QED
  BY <1>2, <1>3, <1>4 DEF p

LEMMA QueueConcat ==
    ASSUME NEW S, NEW q \in Seq(S), NEW n \in Seq(S)
    PROVE  /\ \A k : Has(q \o n, k) <=> Has(q, k) \/ Has(n, k)
           /\ \A M : OnceIn(q, M) /\ (\A i \in 1 .. Len(n) : n[i] \notin M) => OnceIn(q \o n, M)
<1> DEFINE p == q \o n
<1>1. /\ Len(q) \in Nat /\ Len(n) \in Nat /\ Len(p) = Len(q) + Len(n)
      /\ \A i \in 1 .. Len(p) : p[i] = IF i <= Len(q) THEN q[i] ELSE n[i - Len(q)]
  BY ConcatProperties, LenProperties
<1> HIDE DEF p
<1>2. ASSUME NEW k, Has(p, k)
      PROVE  Has(q, k) \/ Has(n, k)
  <2>1. PICK i \in 1 .. Len(p) : p[i] = k
    BY <1>2 DEF Has
  <2>2. CASE i <= Len(q)
    BY <1>1, <2>1, <2>2 DEF Has
  <2>3. CASE ~(i <= Len(q))
    <3>1. i - Len(q) \in 1 .. Len(n) /\ n[i - Len(q)] = k
      BY <1>1, <2>1, <2>3
    <3> QED
      BY <3>1 DEF Has
  <2> QED
    BY <2>2, <2>3
<1>3. ASSUME NEW k, Has(q, k)
      PROVE  Has(p, k)
  BY <1>1, <1>3 DEF Has
<1>4. ASSUME NEW k, Has(n, k)
      PROVE  Has(p, k)
  <2>1. PICK i \in 1 .. Len(n) : n[i] = k
    BY <1>4 DEF Has
  <2>2. /\ Len(q) + i \in 1 .. Len(p) /\ ~(Len(q) + i <= Len(q)) /\ (Len(q) + i) - Len(q) = i
    BY <1>1
  <2>3. p[Len(q) + i] = k
    BY <1>1, <2>1, <2>2
  <2> QED
    BY <2>2, <2>3 DEF Has
<1>5. ASSUME NEW M, OnceIn(q, M), \A i \in 1 .. Len(n) : n[i] \notin M
      PROVE  OnceIn(p, M)
  <2>1. ASSUME NEW i \in 1 .. Len(p), p[i] \in M
        PROVE  i \in 1 .. Len(q) /\ p[i] = q[i]
    <3>1. ~(i <= Len(q)) => i - Len(q) \in 1 .. Len(n)
      BY <1>1
    <3> QED
      BY <1>1, <1>5, <2>1, <3>1
  <2> QED
    BY <1>5, <2>1 DEF OnceIn
<1> QED
  BY <1>2, <1>3, <1>4, <1>5 DEF p

(* The messages that matter to the queue of the scheduler are the requests *)
(* and the updates; the others may come and go.                            *)
Upd(x) == [t |-> "update", r |-> x]
Gens == {Gen(r) : r \in Reqs}
Upds == {Upd(x) : x \in Updates}
Alike(q, p) ==
    /\ \A r \in Reqs : Has(p, Gen(r)) <=> Has(q, Gen(r))
    /\ \A x \in Updates : Has(p, Upd(x)) <=> Has(q, Upd(x))
    /\ OnceIn(q, Gens) => OnceIn(p, Gens)
    /\ OnceIn(q, Upds) => OnceIn(p, Upds)

LEMMA AlikeAppend ==
    ASSUME NEW q \in Seq(InMsg), NEW m \in InMsg, m.t \notin {"gen", "update"}
    PROVE  Alike(q, Append(q, m))
<1>1. \A r \in Reqs : m # Gen(r)
  BY DEF Gen
<1>2. \A x \in Updates : m # Upd(x)
  BY DEF Upd
<1>3. m \notin Gens /\ m \notin Upds
  BY <1>1, <1>2 DEF Gens, Upds
<1> QED
  BY <1>1, <1>2, <1>3, QueueAppend DEF Alike

LEMMA AlikeConcat ==
    ASSUME NEW q \in Seq(InMsg), NEW n \in Seq(InMsg), \A i \in 1 .. Len(n) : n[i].t = "abort"
    PROVE  Alike(q, q \o n)
<1>1. \A r \in Reqs : ~Has(n, Gen(r))
  BY DEF Gen, Has
<1>2. \A x \in Updates : ~Has(n, Upd(x))
  BY DEF Upd, Has
<1>3. \A i \in 1 .. Len(n) : n[i] \notin Gens /\ n[i] \notin Upds
  BY DEF Gens, Upds, Gen, Upd
<1> QED
  BY <1>1, <1>2, <1>3, QueueConcat DEF Alike

LEMMA AlikeSelf == \A q : Alike(q, q)
  BY DEF Alike

(* All but four actions leave the requests and updates of the queue alone. *)
LEMMA QuietQueue ==
    ASSUME FrontAssumption, Types,
           \/ \E c \in Calls : \/ Arrive(c) \/ Gate(c) \/ ReaderLock(c) \/ Finish(c) \/ Respond(c)
                               \/ Disconnect(c) \/ BackgroundAbort(c) \/ \E ok \in BOOLEAN : HealthEnds(c, ok)
           \/ \E r \in Reqs : RequestAction(r)
           \/ \E mode \in setup.modes : PauseGeneration(mode)
           \/ \E x \in Updates : UpdateDone(x)
           \/ PauseTurn \/ ContinueGeneration \/ HandleMessage \/ SigTerm \/ Watchdog
    PROVE  Alike(inq, inq')
<1>0. inq \in Seq(InMsg) /\ table \in SUBSET Reqs /\ setup \in Setups
  BY DEF Types
<1>1. ASSUME NEW R \in SUBSET Reqs, inq' = inq \o AbortMsgs(R)
      PROVE  Alike(inq, inq')
  BY <1>0, <1>1, AbortMsgsFacts, AlikeConcat
<1>2. ASSUME NEW m \in InMsg, m.t \notin {"gen", "update"}, inq' = Append(inq, m)
      PROVE  Alike(inq, inq')
  BY <1>0, <1>2, AlikeAppend
<1>3. CASE inq' = inq
  BY <1>3, AlikeSelf
<1>4. ASSUME NEW c \in Calls, BackgroundAbort(c)
      PROVE  Alike(inq, inq')
  <2>1. ToSet(setup.rids[c]) \in SUBSET Reqs
    BY <1>0 DEF ToSet, FrontAssumption
  <2> QED
    BY <1>1, <1>4, <2>1 DEF BackgroundAbort
<1>5. ASSUME NEW r \in Reqs, NoticeDisconnect(r) \/ AbortRequest(r)
      PROVE  Alike(inq, inq')
  <2>1. {r} \in SUBSET Reqs /\ inq' = inq \o AbortMsgs({r})
    BY <1>5 DEF NoticeDisconnect, AbortRequest
  <2> QED
    BY <1>1, <2>1
<1>6. ASSUME NEW mode \in setup.modes, PauseGeneration(mode)
      PROVE  Alike(inq, inq')
  <2>1. [t |-> "pause", r |-> mode] \in InMsg
    BY <1>0 DEF InMsg, FrontAssumption, Modes
  <2>2. inq' = inq \/ inq' = Append(inq, [t |-> "pause", r |-> mode])
    BY <1>6 DEF PauseGeneration
  <2> QED
    BY <1>2, <1>3, <2>1, <2>2
<1>7. CASE PauseTurn
  <2>1. Abort(Reqs) \in InMsg /\ Abort(Reqs).t = "abort"
    BY DEF InMsg, Abort
  <2>2. inq' = inq \/ inq' = Append(inq, Abort(Reqs))
    BY <1>7 DEF PauseTurn
  <2> QED
    BY <1>2, <1>3, <2>1, <2>2
<1>8. CASE ContinueGeneration
  <2>1. [t |-> "continue", r |-> None] \in InMsg
    BY DEF InMsg
  <2> QED
    BY <1>2, <1>8, <2>1 DEF ContinueGeneration
<1>9. ASSUME NEW c \in Calls,
             \/ Arrive(c) \/ Gate(c) \/ ReaderLock(c) \/ Finish(c) \/ Respond(c)
             \/ Disconnect(c) \/ \E ok \in BOOLEAN : HealthEnds(c, ok)
      PROVE  Alike(inq, inq')
  BY <1>3, <1>9 DEF Arrive, Gate, ReaderLock, Finish, Respond, Disconnect, HealthEnds
<1>10. ASSUME NEW r \in Reqs, \/ Wake(r) \/ EngineStart(r) \/ \E last \in BOOLEAN : EngineToken(r, last)
       PROVE  Alike(inq, inq')
  BY <1>3, <1>10 DEF Wake, EngineStart, EngineToken
<1>11. ASSUME \/ \E x \in Updates : UpdateDone(x)
              \/ HandleMessage \/ SigTerm \/ Watchdog
       PROVE  Alike(inq, inq')
  BY <1>3, <1>11 DEF UpdateDone, HandleMessage, SigTerm, Watchdog
<1> QED
  BY <1>4, <1>5, <1>6, <1>7, <1>8, <1>9, <1>10, <1>11 DEF RequestAction

-----------------------------------------------------------------------------
(* The reader-writer lock.                                                 *)

(* A call that is being served reads; a writer is alone, and its update is *)
(* on its way.  Without a pause every update holds the lock.               *)
LockInv ==
    /\ \A c \in Calls : task[c] \in {"tokenize", "serve"} => c \in readers
    /\ writer # None => readers = {} /\ upd[writer] = "sent"
    /\ \A x \in Updates : upd[x] # "new" => x \in setup.updates
    /\ \A x \in Updates : upd[x] \in {"new", "lock"} => future[x] = None
    /\ cur # None => upd[cur] \in {"sent", "done"}
    /\ setup.modes = {} => ~is_pause /\ \A x \in Updates : upd[x] = "sent" => writer = x

LEMMA LockInit ==
    ASSUME FrontAssumption, Init
    PROVE  LockInv
  BY DEF Init, LockInv

LEMMA LockStep ==
    ASSUME FrontAssumption, Types, LockInv, Next
    PROVE  LockInv'
<1> USE DEF client, front, lock, pause, update, engine, server
<1>1. ASSUME NEW c \in Calls, CallAction(c)
      PROVE  LockInv'
  <2>1. CASE Tokenize(c)
    BY <2>1 DEF Tokenize, Leave, Types, LockInv
  <2>2. ASSUME /\ \/ \E where \in Tasks \ {"tokenize", "serve"} : Leave(c, where)
                  \/ UNCHANGED <<task, readers>>
                  \/ \E where \in Tasks \ {"tokenize", "serve"} :
                        task' = [task EXCEPT ![c] = where] /\ UNCHANGED readers
               /\ UNCHANGED <<setup, writer, upd, future, cur, is_pause>>
        PROVE  LockInv'
    BY <2>2 DEF Leave, Types, LockInv
  <2>3. CASE Gate(c) \/ ReaderLock(c)
    BY <2>3 DEF Gate, ReaderLock, CanRead, Types, LockInv
  <2>4. CASE Arrive(c) \/ Respond(c) \/ BackgroundAbort(c)
    BY <2>2, <2>4 DEF Arrive, Respond, BackgroundAbort, Tasks
  <2>5. CASE Finish(c) \/ Disconnect(c) \/ \E ok \in BOOLEAN : HealthEnds(c, ok)
    BY <2>2, <2>5 DEF Finish, Disconnect, HealthEnds, Tasks
  <2> QED
    BY <1>1, <2>1, <2>3, <2>4, <2>5 DEF CallAction
<1>2. ASSUME NEW r \in Reqs, RequestAction(r)
      PROVE  LockInv'
  <2>1. /\ UNCHANGED <<task, readers>> \/ Leave(CallOf(r), "failed")
        /\ UNCHANGED <<setup, writer, upd, future, cur, is_pause>>
    BY <1>2 DEF RequestAction, Wake, NoticeDisconnect, AbortRequest, EngineStart, EngineToken
  <2> QED
    BY <2>1 DEF Leave, Types, LockInv
<1>3. ASSUME NEW mode \in setup.modes, PauseGeneration(mode)
      PROVE  LockInv'
  BY <1>3 DEF PauseGeneration, LockInv
<1>4. ASSUME NEW x \in setup.updates, StartUpdate(x)
      PROVE  LockInv'
  <2>1. x \in Updates
    BY DEF Types, FrontAssumption
  <2> QED
    BY <1>4, <2>1 DEF StartUpdate, SendUpdate, Types, LockInv, Version, FrontAssumption
<1>5. ASSUME NEW x \in Updates, WriterLock(x)
      PROVE  LockInv'
  BY <1>5 DEF WriterLock, SendUpdate, Types, LockInv, Version, FrontAssumption
<1>6. ASSUME NEW x \in Updates, UpdateDone(x)
      PROVE  LockInv'
  BY <1>6 DEF UpdateDone, Types, LockInv, Version, FrontAssumption
<1>7. CASE PauseTurn \/ ContinueGeneration \/ SigTerm \/ Watchdog
  BY <1>7 DEF PauseTurn, ContinueGeneration, SigTerm, Watchdog, LockInv
<1>8. CASE HandleMessage
  <2>1. /\ UNCHANGED <<setup, task, readers, writer, upd, cur, is_pause>>
        /\ \/ UNCHANGED future
           \/ \E x \in Updates : future' = [future EXCEPT ![cur] = x]
    <3>1. Head(outq) \in OutMsg
      BY <1>8 DEF HandleMessage, Types
    <3> QED
      BY <1>8, <3>1 DEF HandleMessage, HandleUpdated, OutMsg
  <2> QED
    BY <2>1 DEF Types, LockInv, Version, FrontAssumption
<1>9. CASE EngineReceive
  BY <1>9, ReceiveCases DEF LockInv
<1> QED
  BY <1>1, <1>2, <1>3, <1>4, <1>5, <1>6, <1>7, <1>8, <1>9, NextCases

-----------------------------------------------------------------------------
(* Updates on their way.                                                   *)

Updated(x) == [t |-> "updated", r |-> x]
Results == {Updated(x) : x \in Updates}
Flying(x) == Has(inq, Upd(x)) \/ Has(outq, Updated(x))

(* While one update at a time passes, only the newest is on its way, as    *)
(* request or as result, and its future is still open.                     *)
FlightInv == OneUpdate =>
    /\ \A x, y \in Updates : upd[x] = "sent" /\ upd[y] = "sent" => x = y
    /\ \A x \in Updates : Flying(x) => x = cur /\ future[x] = None /\ upd[x] = "sent"
    /\ \A x \in Updates : ~(Has(inq, Upd(x)) /\ Has(outq, Updated(x)))
    /\ OnceIn(inq, Upds) /\ OnceIn(outq, Results)
    /\ ResultIsOwn

LEMMA FlightInit ==
    ASSUME FrontAssumption, Init
    PROVE  FlightInv
  BY DEF Init, FlightInv, Flying, Has, OnceIn, ResultIsOwn

(* What the scheduler answers beside the results of updates.               *)
LEMMA OutAlike ==
    ASSUME FrontAssumption, Types,
           \/ outq' = outq
           \/ \E r \in Reqs, n \in {1}, why \in Reasons \cup {None} : outq' = Append(outq, Out(r, n, why))
           \/ \E r \in Reqs, why \in {"busy", "abort"} : outq' = Append(outq, Aborted(r, why))
           \/ \E R \in SUBSET Reqs : outq' = outq \o Notices(R)
    PROVE  /\ \A x \in Updates : Has(outq', Updated(x)) <=> Has(outq, Updated(x))
           /\ OnceIn(outq, Results) => OnceIn(outq', Results)
<1>0. outq \in Seq(OutMsg)
  BY DEF Types
<1>1. CASE outq' = outq
  BY <1>1
<1>2. ASSUME NEW m \in OutMsg, m.t # "updated", outq' = Append(outq, m)
      PROVE  /\ \A x \in Updates : Has(outq', Updated(x)) <=> Has(outq, Updated(x))
             /\ OnceIn(outq, Results) => OnceIn(outq', Results)
  <2>1. m \notin Results /\ \A x \in Updates : Updated(x) # m
    BY <1>2 DEF Results, Updated
  <2> QED
    BY <1>0, <1>2, <2>1, QueueAppend
<1>3. ASSUME NEW r \in Reqs, NEW why \in Reasons \cup {None}, outq' = Append(outq, Out(r, 1, why))
      PROVE  /\ \A x \in Updates : Has(outq', Updated(x)) <=> Has(outq, Updated(x))
             /\ OnceIn(outq, Results) => OnceIn(outq', Results)
  <2>1. Out(r, 1, why) \in OutMsg /\ Out(r, 1, why).t # "updated"
    BY DEF Out, OutMsg
  <2> QED
    BY <1>2, <1>3, <2>1
<1>4. ASSUME NEW r \in Reqs, NEW why \in {"busy", "abort"}, outq' = Append(outq, Aborted(r, why))
      PROVE  /\ \A x \in Updates : Has(outq', Updated(x)) <=> Has(outq, Updated(x))
             /\ OnceIn(outq, Results) => OnceIn(outq', Results)
  <2>1. Aborted(r, why) \in OutMsg /\ Aborted(r, why).t # "updated"
    BY DEF Aborted, OutMsg
  <2> QED
    BY <1>2, <1>4, <2>1
<1>5. ASSUME NEW R \in SUBSET Reqs, outq' = outq \o Notices(R)
      PROVE  /\ \A x \in Updates : Has(outq', Updated(x)) <=> Has(outq, Updated(x))
             /\ OnceIn(outq, Results) => OnceIn(outq', Results)
  <2>1. /\ Notices(R) \in Seq(OutMsg)
        /\ \A i \in 1 .. Len(Notices(R)) : \E r \in R : Notices(R)[i] = Aborted(r, "abort")
    BY NoticesFacts
  <2>2. \A i \in 1 .. Len(Notices(R)) : Notices(R)[i].t = "aborted"
    <3>1. \A r : Aborted(r, "abort").t = "aborted"
      BY DEF Aborted
    <3> QED
      BY <2>1, <3>1
  <2>3. \A x \in Updates : ~Has(Notices(R), Updated(x))
    BY <2>2 DEF Has, Updated
  <2>4. \A i \in 1 .. Len(Notices(R)) : Notices(R)[i] \notin Results
    BY <2>2 DEF Results, Updated
  <2> QED
    BY <1>0, <1>5, <2>1, <2>3, <2>4, QueueConcat
<1> QED
  BY <1>1, <1>3, <1>4, <1>5

(* A step that sends and answers no update and touches no future.          *)
FlightQuiet ==
    /\ UNCHANGED <<setup, upd, cur, future>>
    /\ Alike(inq, inq')
    /\ \A x \in Updates : Has(outq', Updated(x)) => Has(outq, Updated(x))
    /\ OnceIn(outq, Results) => OnceIn(outq', Results)
LEMMA FlightQuietStep ==
    ASSUME FlightInv, FlightQuiet
    PROVE  FlightInv'
  BY DEF FlightInv, FlightQuiet, Flying, OneUpdate, ResultIsOwn, Alike

(* Sending an update: nothing else is on its way.                          *)
LEMMA FlightSend ==
    ASSUME FrontAssumption, Types, LockInv, FlightInv, NEW x \in Updates, SendUpdate(x),
           UNCHANGED <<setup, future, outq>>,
           upd[x] \in {"new", "lock"}, upd' = [upd EXCEPT ![x] = "sent"],
           OneUpdate => \A y \in Updates : upd[y] # "sent"
    PROVE  FlightInv'
<1> SUFFICES ASSUME OneUpdate PROVE FlightInv'
  BY DEF FlightInv, OneUpdate
<1>1. Upd(x) \in InMsg /\ inq \in Seq(InMsg) /\ inq' = Append(inq, Upd(x)) /\ cur' = x
  BY DEF SendUpdate, Upd, InMsg, Types
<1>2. \A y \in Updates : ~Flying(y)
  BY DEF FlightInv
<1>3. OnceIn(inq', Upds) /\ \A y \in Updates : Has(inq', Upd(y)) => y = x
  <2>1. ~Has(inq, Upd(x))
    BY <1>2 DEF Flying
  <2>2. OnceIn(inq', Upds)
    BY <1>1, <2>1, QueueAppend DEF FlightInv
  <2>3. \A y \in Updates : Has(inq', Upd(y)) <=> Has(inq, Upd(y)) \/ Upd(y) = Upd(x)
    BY <1>1, QueueAppend
  <2>4. \A y \in Updates : Upd(y) = Upd(x) => y = x
    BY DEF Upd
  <2> QED
    BY <1>2, <2>2, <2>3, <2>4 DEF Flying
<1>4. future[x] = None
  BY DEF LockInv
<1> QED
  BY <1>1, <1>2, <1>3, <1>4 DEF FlightInv, Flying, OneUpdate, ResultIsOwn, Types

LEMMA FlightStep ==
    ASSUME FrontAssumption, Types, LockInv, FlightInv, Next
    PROVE  FlightInv'
<1> USE DEF client, front, lock, pause, update, engine, server
<1>1. ASSUME NEW c \in Calls, CallAction(c)
      PROVE  FlightInv'
  <2>1. CASE Tokenize(c)
    <3>1. inq' = inq \/ \E r \in Reqs : inq' = Append(inq, Gen(r))
      <4>1. task[c] = "tokenize" => setup.rids[c][sent[c] + 1] \in Reqs
        BY DEF Types, SentInOrder, FrontAssumption
      <4> QED
        BY <2>1, <4>1 DEF Tokenize
    <3>2. CASE inq' = inq
      BY <2>1, <3>2, AlikeSelf, FlightQuietStep DEF Tokenize, FlightQuiet
    <3>3. ASSUME NEW r \in Reqs, inq' = Append(inq, Gen(r))
          PROVE  FlightInv'
      <4>1. Gen(r) \in InMsg /\ inq \in Seq(InMsg) /\ Gen(r) \notin Upds /\ \A x \in Updates : Upd(x) # Gen(r)
        BY DEF InMsg, Types, Upds, Upd, Gen
      <4>2. OnceIn(inq, Upds) => OnceIn(inq', Upds)
        BY <3>3, <4>1, QueueAppend
      <4>3. \A x \in Updates : Has(inq', Upd(x)) <=> Has(inq, Upd(x))
        BY <3>3, <4>1, QueueAppend
      <4>4. UNCHANGED <<setup, upd, cur, future, outq>>
        BY <2>1 DEF Tokenize
      <4> QED
        BY <4>2, <4>3, <4>4 DEF FlightInv, Flying, OneUpdate, ResultIsOwn
    <3> QED
      BY <3>1, <3>2, <3>3
  <2>2. CASE \/ Arrive(c) \/ Gate(c) \/ ReaderLock(c) \/ Finish(c) \/ Respond(c)
             \/ Disconnect(c) \/ BackgroundAbort(c) \/ \E ok \in BOOLEAN : HealthEnds(c, ok)
    <3>1. Alike(inq, inq')
      BY <2>2, QuietQueue
    <3>2. UNCHANGED <<setup, upd, cur, future, outq>>
      BY <2>2 DEF Arrive, Gate, ReaderLock, Finish, Respond, Disconnect, BackgroundAbort, HealthEnds
    <3> QED
      BY <3>1, <3>2, FlightQuietStep DEF FlightQuiet
  <2> QED
    BY <1>1, <2>1, <2>2 DEF CallAction
<1>2. ASSUME NEW r \in Reqs, RequestAction(r)
      PROVE  FlightInv'
  <2>1. Alike(inq, inq')
    BY <1>2, QuietQueue
  <2>2. UNCHANGED <<setup, upd, cur, future>>
    BY <1>2 DEF RequestAction, Wake, NoticeDisconnect, AbortRequest, EngineStart, EngineToken
  <2>3. outq' = outq \/ \E why \in Reasons \cup {None} : outq' = Append(outq, Out(r, 1, why))
    <3>1. eng[r].tofin \in {None, "abort", "busy", "bad"}
      BY DEF Types, Engs
    <3> QED
      BY <1>2, <3>1 DEF RequestAction, Wake, NoticeDisconnect, AbortRequest, EngineStart, EngineToken, Reasons
  <2> QED
    BY <2>1, <2>2, <2>3, OutAlike, FlightQuietStep DEF FlightQuiet
<1>3. ASSUME \/ \E mode \in setup.modes : PauseGeneration(mode)
             \/ PauseTurn \/ ContinueGeneration \/ SigTerm \/ Watchdog
      PROVE  FlightInv'
  <2>1. Alike(inq, inq')
    BY <1>3, QuietQueue
  <2>2. UNCHANGED <<setup, upd, cur, future, outq>>
    BY <1>3 DEF PauseGeneration, PauseTurn, ContinueGeneration, SigTerm, Watchdog
  <2> QED
    BY <2>1, <2>2, FlightQuietStep DEF FlightQuiet
<1>4. ASSUME NEW x \in setup.updates, StartUpdate(x)
      PROVE  FlightInv'
  <2>0. x \in Updates
    BY DEF Types, FrontAssumption
  <2>1. CASE is_pause
    <3>1. OneUpdate => \A y \in Updates : upd[y] # "sent"
      BY <1>4, <2>1 DEF StartUpdate, OneUpdate, LockInv
    <3> QED
      BY <1>4, <2>0, <2>1, <3>1, FlightSend DEF StartUpdate
  <2>2. CASE ~is_pause
    BY <1>4, <2>0, <2>2 DEF StartUpdate, FlightInv, Flying, OneUpdate, ResultIsOwn, Types
  <2> QED
    BY <2>1, <2>2
<1>5. ASSUME NEW x \in Updates, WriterLock(x)
      PROVE  FlightInv'
  <2>1. OneUpdate => \A y \in Updates : upd[y] # "sent"
    BY <1>5 DEF WriterLock, OneUpdate, LockInv, Types, FrontAssumption
  <2> QED
    BY <1>5, <2>1, FlightSend DEF WriterLock
<1>6. ASSUME NEW x \in Updates, UpdateDone(x)
      PROVE  FlightInv'
  BY <1>6 DEF UpdateDone, FlightInv, Flying, OneUpdate, ResultIsOwn, Types
<1>7. CASE HandleMessage
  <2>1. /\ outq \in Seq(OutMsg) /\ outq # <<>> /\ outq' = Tail(outq)
        /\ UNCHANGED <<setup, inq, upd, cur>>
    BY <1>7 DEF HandleMessage, Types
  <2>2. /\ \A x \in Updates : Has(outq', Updated(x)) => Has(outq, Updated(x))
        /\ OnceIn(outq, Results) => OnceIn(outq', Results)
    BY <2>1, QueueTail
  <2>3. CASE Head(outq).t \in {"out", "aborted"}
    <3>1. UNCHANGED future
      BY <1>7, <2>3 DEF HandleMessage
    <3> QED
      BY <2>1, <2>2, <3>1, AlikeSelf, FlightQuietStep DEF FlightQuiet
  <2>4. ASSUME NEW x \in Updates, Head(outq) = Updated(x)
        PROVE  FlightInv'
    <3>1. HandleUpdated(x)
      <4>1. Head(outq).t = "updated" /\ Head(outq).r = x
        BY <2>4 DEF Updated
      <4> QED
        BY <1>7, <4>1 DEF HandleMessage
    <3> SUFFICES ASSUME OneUpdate PROVE FlightInv'
      BY <2>1 DEF FlightInv, OneUpdate
    <3>2. Has(outq, Updated(x))
      BY <2>1, <2>4, QueueTail
    <3>3. x = cur /\ future[x] = None /\ upd[x] = "sent" /\ ~Has(inq, Upd(x))
      BY <3>2 DEF FlightInv, Flying
    <3>4. ~Has(outq', Updated(x))
      <4>1. OnceIn(outq, Results) /\ Updated(x) \in Results
        BY DEF FlightInv, Results
      <4> QED
        BY <2>1, <2>4, <4>1, QueueTail
    <3>5. \A y \in Updates : ~Flying(y)'
      BY <2>1, <2>2, <3>3, <3>4 DEF FlightInv, Flying
    <3>6. future' = [future EXCEPT ![x] = x]
      BY <3>1, <3>3 DEF HandleUpdated
    <3> QED
      BY <2>1, <2>2, <3>5, <3>6 DEF FlightInv, Flying, OneUpdate, ResultIsOwn, Types
  <2>5. Head(outq) \in OutMsg
    BY <2>1
  <2> QED
    BY <2>3, <2>4, <2>5 DEF OutMsg, Updated
<1>8. CASE EngineReceive
  <2>1. /\ inq \in Seq(InMsg) /\ inq # <<>> /\ inq' = Tail(inq) /\ outq \in Seq(OutMsg)
        /\ UNCHANGED <<setup, upd, cur, future>>
    BY <1>8, ReceiveCases DEF Types
  <2>2. /\ \A x \in Updates : Has(inq', Upd(x)) => Has(inq, Upd(x))
        /\ OnceIn(inq, Upds) => OnceIn(inq', Upds)
    BY <2>1, QueueTail
  <2>3. ASSUME /\ \A x \in Updates : Has(outq', Updated(x)) => Has(outq, Updated(x))
               /\ OnceIn(outq, Results) => OnceIn(outq', Results)
        PROVE  FlightInv'
    BY <2>1, <2>2, <2>3 DEF FlightInv, Flying, OneUpdate, ResultIsOwn
  <2>4. ASSUME NEW r \in Reqs, ReceiveGen(r)
        PROVE  FlightInv'
    <3>1. outq' = outq \/ outq' = Append(outq, Aborted(r, "busy"))
      BY <2>4 DEF ReceiveGen
    <3> QED
      BY <2>3, <3>1, OutAlike
  <2>5. ASSUME NEW R \in SUBSET Reqs, ReceiveAbort(R)
        PROVE  FlightInv'
    BY <2>3, <2>5, OutAlike DEF ReceiveAbort
  <2>6. CASE UNCHANGED outq
    BY <2>3, <2>6
  <2>7. ASSUME NEW x \in Updates, Head(inq) = Upd(x), ReceiveUpdate(x)
        PROVE  FlightInv'
    <3> SUFFICES ASSUME OneUpdate PROVE FlightInv'
      BY <2>1 DEF FlightInv, OneUpdate
    <3>1. Has(inq, Upd(x)) /\ (OnceIn(inq, Upds) /\ Upd(x) \in Upds => ~Has(inq', Upd(x)))
      BY <2>1, <2>7, QueueTail
    <3>2. /\ x = cur /\ future[x] = None /\ upd[x] = "sent"
          /\ ~Has(outq, Updated(x)) /\ ~Has(inq', Upd(x))
      BY <3>1 DEF FlightInv, Flying, Upds
    <3>3. Updated(x) \in OutMsg /\ outq' = Append(outq, Updated(x))
      BY <2>7 DEF ReceiveUpdate, Updated, OutMsg
    <3>4. OnceIn(outq', Results)
      BY <2>1, <3>2, <3>3, QueueAppend DEF FlightInv
    <3>5. \A y \in Updates : Has(outq', Updated(y)) <=> Has(outq, Updated(y)) \/ Updated(y) = Updated(x)
      BY <2>1, <3>3, QueueAppend
    <3>6. \A y \in Updates : Updated(y) = Updated(x) => y = x
      BY DEF Updated
    <3> QED
      BY <2>1, <2>2, <3>2, <3>4, <3>5, <3>6 DEF FlightInv, Flying, OneUpdate, ResultIsOwn
  <2> QED
    BY <1>8, <2>4, <2>5, <2>6, <2>7, ReceiveCases DEF ReceivePause, Upd
<1> QED
  BY <1>1, <1>2, <1>3, <1>4, <1>5, <1>6, <1>7, <1>8, NextCases

-----------------------------------------------------------------------------
(* Requests on their way.                                                  *)

IsSent(r) == \E i \in 1 .. sent[CallOf(r)] : setup.rids[CallOf(r)][i] = r

(* A request is sent to the scheduler once, and what it does not know has  *)
(* produced nothing.                                                       *)
SentInv ==
    /\ \A r \in Reqs : Has(inq, Gen(r)) => eng[r].at = "none" /\ IsSent(r)
    /\ OnceIn(inq, Gens)
    /\ \A r \in Reqs : eng[r].at # "none" => IsSent(r)
    /\ \A r \in Reqs : eng[r].at = "none" => ver[r] = {}

LEMMA SentInit ==
    ASSUME FrontAssumption, Init
    PROVE  SentInv
  BY DEF Init, SentInv, Has, OnceIn

(* The next request of a call was not sent before.                         *)
LEMMA NextRequest ==
    ASSUME FrontAssumption, Types, NEW c \in Calls, task[c] = "tokenize"
    PROVE  /\ setup.rids[c][sent[c] + 1] \in Reqs
           /\ CallOf(setup.rids[c][sent[c] + 1]) = c
           /\ ~IsSent(setup.rids[c][sent[c] + 1])
<1>1. /\ setup.rids[c] \in Seq(Reqs) /\ IsInjective(setup.rids[c])
      /\ \A i \in DOMAIN setup.rids[c] : Owner[setup.rids[c][i]] = c
      /\ sent[c] \in Nat /\ sent[c] < Len(setup.rids[c])
  BY DEF Types, SentInOrder, FrontAssumption
<1>2. DOMAIN setup.rids[c] = 1 .. Len(setup.rids[c]) /\ Len(setup.rids[c]) \in Nat
  BY <1>1
<1>3. /\ sent[c] + 1 \in DOMAIN setup.rids[c]
      /\ \A i \in 1 .. sent[c] : i \in DOMAIN setup.rids[c] /\ i # sent[c] + 1
  BY <1>1, <1>2
<1> QED
  BY <1>1, <1>2, <1>3 DEF CallOf, IsSent, IsInjective

LEMMA SentStep ==
    ASSUME FrontAssumption, Types, SentInv, Next
    PROVE  SentInv'
<1> USE DEF client, front, lock, pause, update, engine, server
<1>0. ASSUME Alike(inq, inq'), UNCHANGED <<setup, sent, eng, ver>>
      PROVE  SentInv'
  BY <1>0 DEF SentInv, Alike, IsSent, CallOf
<1>1. ASSUME NEW c \in Calls, CallAction(c)
      PROVE  SentInv'
  <2>1. CASE Tokenize(c)
    <3>0. PICK r \in Reqs : r = setup.rids[c][sent[c] + 1]
      BY <2>1, NextRequest DEF Tokenize
    <3>1. CASE r \in setup.invalid
      BY <1>0, <2>1, <3>0, <3>1, AlikeSelf DEF Tokenize
    <3>2. CASE r \notin setup.invalid
      <4>1. r \in Reqs /\ CallOf(r) = c /\ ~IsSent(r)
        BY <2>1, <3>0, NextRequest DEF Tokenize
      <4>2. /\ inq \in Seq(InMsg) /\ Gen(r) \in InMsg /\ inq' = Append(inq, Gen(r))
            /\ sent' = [sent EXCEPT ![c] = @ + 1] /\ UNCHANGED <<setup, eng, ver>>
        BY <2>1, <3>0, <3>2, <4>1 DEF Tokenize, InMsg, Types
      <4>3. ~Has(inq, Gen(r)) /\ eng[r].at = "none"
        BY <4>1 DEF SentInv
      <4>4. /\ \A q \in Reqs : Has(inq', Gen(q)) <=> Has(inq, Gen(q)) \/ Gen(q) = Gen(r)
            /\ OnceIn(inq', Gens)
        BY <4>2, <4>3, QueueAppend DEF SentInv
      <4>5. \A q \in Reqs : Gen(q) = Gen(r) => q = r
        BY DEF Gen
      <4>6. sent[c] \in Nat /\ sent'[c] = sent[c] + 1 /\ \A d \in Calls \ {c} : sent'[d] = sent[d]
        BY <4>2 DEF Types
      <4>7. \A q \in Reqs : CallOf(q) \in Calls
        BY DEF CallOf, FrontAssumption
      <4>8. ASSUME NEW q \in Reqs, IsSent(q)
            PROVE  IsSent(q)'
        <5>1. PICK i \in 1 .. sent[CallOf(q)] : setup.rids[CallOf(q)][i] = q
          BY <4>8 DEF IsSent
        <5>2. i \in 1 .. sent'[CallOf(q)]
          <6>1. sent[CallOf(q)] \in Nat /\ (sent'[CallOf(q)] = sent[CallOf(q)] \/ sent'[CallOf(q)] = sent[CallOf(q)] + 1)
            BY <4>6, <4>7 DEF Types
          <6> QED
            BY <5>1, <6>1
        <5> QED
          BY <4>2, <5>1, <5>2 DEF IsSent, CallOf
      <4>9. IsSent(r)'
        <5>1. sent[c] + 1 \in 1 .. sent'[c] /\ setup'.rids[c][sent[c] + 1] = r
          BY <3>0, <4>2, <4>6
        <5> QED
          BY <4>1, <5>1 DEF IsSent, CallOf
      <4> QED
        BY <4>2, <4>3, <4>4, <4>5, <4>8, <4>9 DEF SentInv
    <3> QED
      BY <3>1, <3>2
  <2>2. CASE \/ Arrive(c) \/ Gate(c) \/ ReaderLock(c) \/ Finish(c) \/ Respond(c)
             \/ Disconnect(c) \/ BackgroundAbort(c) \/ \E ok \in BOOLEAN : HealthEnds(c, ok)
    <3>1. UNCHANGED <<setup, sent, eng, ver>>
      BY <2>2 DEF Arrive, Gate, ReaderLock, Finish, Respond, Disconnect, BackgroundAbort, HealthEnds
    <3> QED
      BY <1>0, <2>2, <3>1, QuietQueue
  <2> QED
    BY <1>1, <2>1, <2>2 DEF CallAction
<1>2. ASSUME NEW r \in Reqs, RequestAction(r)
      PROVE  SentInv'
  <2>1. Alike(inq, inq')
    BY <1>2, QuietQueue
  <2>2. CASE Wake(r) \/ NoticeDisconnect(r) \/ AbortRequest(r)
    <3>1. UNCHANGED <<setup, sent, eng, ver>>
      BY <2>2 DEF Wake, NoticeDisconnect, AbortRequest
    <3> QED
      BY <1>0, <2>1, <3>1
  <2>3. CASE EngineStart(r) \/ \E last \in BOOLEAN : EngineToken(r, last)
    <3>1. UNCHANGED <<setup, sent>> /\ \A q \in Reqs \ {r} : eng'[q] = eng[q] /\ ver'[q] = ver[q]
      BY <2>3 DEF EngineStart, EngineToken, Types
    <3>2. eng[r].at \in {"queued", "running"}
      BY <2>3 DEF EngineStart, EngineToken, Queued, Started
    <3>3. eng'[r].at \in {"running", "end"}
      BY <2>3, <3>2 DEF EngineStart, EngineToken, Started, Types, Engs
    <3> QED
      BY <2>1, <3>1, <3>2, <3>3 DEF SentInv, Alike, IsSent, CallOf
  <2> QED
    BY <1>2, <2>2, <2>3 DEF RequestAction
<1>3. ASSUME \/ \E mode \in setup.modes : PauseGeneration(mode)
             \/ \E x \in Updates : UpdateDone(x)
             \/ PauseTurn \/ ContinueGeneration \/ HandleMessage \/ SigTerm \/ Watchdog
      PROVE  SentInv'
  <2>1. UNCHANGED <<setup, sent, eng, ver>>
    BY <1>3 DEF PauseGeneration, UpdateDone, PauseTurn, ContinueGeneration, HandleMessage, SigTerm, Watchdog
  <2> QED
    BY <1>0, <1>3, <2>1, QuietQueue
<1>4. ASSUME NEW x \in Updates, StartUpdate(x) \/ WriterLock(x)
      PROVE  SentInv'
  <2>1. /\ UNCHANGED <<setup, sent, eng, ver>>
        /\ inq' = inq \/ inq' = Append(inq, Upd(x))
    BY <1>4 DEF StartUpdate, WriterLock, SendUpdate, Upd
  <2>2. CASE inq' = inq
    BY <1>0, <2>1, <2>2, AlikeSelf
  <2>3. CASE inq' = Append(inq, Upd(x))
    <3>1. inq \in Seq(InMsg) /\ Upd(x) \in InMsg /\ Upd(x) \notin Gens /\ \A r \in Reqs : Gen(r) # Upd(x)
      BY DEF Types, InMsg, Upd, Gens, Gen
    <3>2. /\ \A r \in Reqs : Has(inq', Gen(r)) <=> Has(inq, Gen(r))
          /\ OnceIn(inq, Gens) => OnceIn(inq', Gens)
      BY <2>3, <3>1, QueueAppend
    <3> QED
      BY <2>1, <3>2 DEF SentInv, IsSent, CallOf
  <2> QED
    BY <2>1, <2>2, <2>3
<1>5. CASE EngineReceive
  <2>1. /\ inq \in Seq(InMsg) /\ inq # <<>> /\ inq' = Tail(inq)
        /\ UNCHANGED <<setup, sent, ver>>
    BY <1>5, ReceiveCases DEF Types
  <2>2. /\ \A r \in Reqs : Has(inq', Gen(r)) => Has(inq, Gen(r))
        /\ OnceIn(inq', Gens)
    BY <2>1, QueueTail DEF SentInv
  <2>3. \A r \in Reqs : IsSent(r)' <=> IsSent(r)
    BY <2>1 DEF IsSent, CallOf
  <2>4. ASSUME \A r \in Reqs : eng'[r].at = "none" <=> eng[r].at = "none"
        PROVE  SentInv'
    BY <2>1, <2>2, <2>3, <2>4 DEF SentInv
  <2>5. ASSUME NEW r \in Reqs, Head(inq) = Gen(r), ReceiveGen(r)
        PROVE  SentInv'
    <3>1. Has(inq, Gen(r)) /\ ~Has(inq', Gen(r))
      <4>1. Gen(r) \in Gens /\ OnceIn(inq, Gens)
        BY DEF Gens, SentInv
      <4> QED
        BY <2>1, <2>5, <4>1, QueueTail
    <3>2. eng'[r].at # "none" /\ \A q \in Reqs \ {r} : eng'[q] = eng[q]
      BY <2>5 DEF ReceiveGen, Types, Engs
    <3> QED
      BY <2>1, <2>2, <2>3, <3>1, <3>2 DEF SentInv
  <2>6. ASSUME NEW R \in SUBSET Reqs, ReceiveAbort(R)
        PROVE  SentInv'
    <3>1. \A r \in Reqs : eng'[r].at = "none" <=> eng[r].at = "none"
      BY <2>6 DEF ReceiveAbort, Types, Engs, Queued, Started
    <3> QED
      BY <2>4, <3>1
  <2>7. ASSUME NEW mode \in Modes, ReceivePause(mode)
        PROVE  SentInv'
    <3>1. \A r \in Reqs : eng'[r].at = "none" <=> eng[r].at = "none"
      BY <2>7 DEF ReceivePause, Types, Engs, Started
    <3> QED
      BY <2>4, <3>1
  <2>8. CASE UNCHANGED eng
    BY <2>4, <2>8
  <2> QED
    BY <1>5, <2>5, <2>6, <2>7, <2>8, ReceiveCases DEF ReceiveUpdate
<1>6. \A x \in setup.updates : x \in Updates
  BY DEF Types, FrontAssumption
<1> QED
  BY <1>1, <1>2, <1>3, <1>4, <1>5, <1>6, NextCases

-----------------------------------------------------------------------------
(* Requests that ended, and the table of states.                           *)

LEMMA LastOfAppend ==
    ASSUME NEW S, NEW q \in Seq(S), NEW m \in S
    PROVE  Append(q, m) # <<>> /\ Last(Append(q, m)) = m
<1>1. Len(q) \in Nat /\ Len(Append(q, m)) = Len(q) + 1 /\ Append(q, m)[Len(q) + 1] = m
  BY AppendProperties, LenProperties
<1>2. Append(q, m) # <<>>
  BY <1>1
<1> QED
  BY <1>1, <1>2 DEF Last

(* A request has an output more, whose reason says whether it is finished. *)
Takes(r, why) ==
    /\ r \in table
    /\ st'[r].outs # <<>> /\ Last(st'[r].outs).why = why /\ st'[r].fin = (why # None)
    /\ \A q \in Reqs \ {r} : st'[q] = st[q]
LEMMA HandleCases ==
    ASSUME FrontAssumption, Types, HandleMessage
    PROVE  /\ outq \in Seq(OutMsg) /\ outq # <<>> /\ outq' = Tail(outq)
           /\ UNCHANGED <<client, lock, pause, upd, cur, inq, engine>>
           /\ \/ UNCHANGED <<table, st>>
              \/ \E r \in Reqs, why \in Reasons \cup {None} :
                    /\ Head(outq) = Out(r, 1, why) /\ Takes(r, why)
                    /\ table' = IF why # None THEN table \ {r} ELSE table
              \/ \E r \in Reqs, why \in {"busy", "abort"} :
                    /\ Head(outq) = Aborted(r, why) /\ Takes(r, why) /\ UNCHANGED table
<1>0. /\ outq \in Seq(OutMsg) /\ outq # <<>> /\ outq' = Tail(outq) /\ Head(outq) \in OutMsg
      /\ UNCHANGED <<client, lock, pause, upd, cur, inq, engine>>
      /\ st \in [Reqs -> States]
  BY DEF HandleMessage, Types
<1> DEFINE msg == Head(outq)
<1>1. CASE msg \in [t : {"updated"}, r : Updates]
  BY <1>0, <1>1 DEF HandleMessage, front
<1>2. CASE msg \in [t : {"out"}, r : Reqs, n : {1}, why : Reasons \cup {None}]
  <2>1. HandleOutput(msg)
    BY <1>2 DEF HandleMessage
  <2>2. CASE msg.r \notin table
    BY <1>0, <2>1, <2>2 DEF HandleOutput
  <2>3. CASE msg.r \in table
    <3> DEFINE text1 == Text(st[msg.r], msg.n)
               out == [text |-> text1, why |-> msg.why,
                       ids |-> IF setup.segments /\ CallOf(msg.r) \in Streaming
                               THEN text1 - st[msg.r].off ELSE text1]
    <3>1. msg.r \in Reqs /\ msg.n = 1 /\ msg.why \in Reasons \cup {None}
      BY <1>2
    <3>2. st[msg.r].text \in Nat /\ st[msg.r].off \in Nat /\ st[msg.r].outs \in Seq(Outputs)
      BY <1>0, <3>1 DEF States
    <3>3. out \in Outputs /\ out.why = msg.why
      BY <3>1, <3>2 DEF Outputs, Text
    <3>4. /\ st' = [st EXCEPT ![msg.r] = [text |-> text1, off |-> text1, fin |-> msg.why # None,
                                          outs |-> Append(st[msg.r].outs, out), event |-> TRUE]]
          /\ table' = table \ Ended(msg)
      BY <2>1, <2>3 DEF HandleOutput
    <3> HIDE DEF out, text1
    <3>5. Append(st[msg.r].outs, out) # <<>> /\ Last(Append(st[msg.r].outs, out)) = out
      BY <3>2, <3>3, LastOfAppend
    <3>6. Takes(msg.r, msg.why)
      BY <1>0, <2>3, <3>1, <3>3, <3>4, <3>5 DEF Takes
    <3>7. table' = IF msg.why # None THEN table \ {msg.r} ELSE table
      BY <3>4 DEF Ended
    <3>8. msg = Out(msg.r, 1, msg.why)
      BY <1>2, <3>1 DEF Out
    <3> QED
      BY <1>0, <3>1, <3>6, <3>7, <3>8
  <2> QED
    BY <2>2, <2>3
<1>3. CASE msg \in [t : {"aborted"}, r : Reqs, n : {0}, why : {"busy", "abort"}]
  <2>1. HandleAborted(msg) /\ UNCHANGED table
    BY <1>3 DEF HandleMessage
  <2>2. CASE ~LooksUp(msg.r) \/ msg.r \notin table
    BY <1>0, <2>1, <2>2 DEF HandleAborted
  <2>3. CASE LooksUp(msg.r) /\ msg.r \in table
    <3> DEFINE out == [text |-> st[msg.r].text, why |-> msg.why,
                       ids |-> IF CallOf(msg.r) \in Streaming
                               THEN (IF st[msg.r].text > 0 THEN 1 ELSE 0) ELSE st[msg.r].text]
               st1 == [st EXCEPT ![msg.r].fin = TRUE]
               st2 == [st1 EXCEPT ![msg.r].event = Notify(msg.r)]
    <3>1. msg.r \in Reqs /\ msg.n = 0 /\ msg.why \in {"busy", "abort"} /\ msg.why \in Reasons /\ msg.why # None
      BY <1>3 DEF Reasons, FrontAssumption
    <3>2. st[msg.r].text \in Nat /\ st[msg.r].outs \in Seq(Outputs)
      BY <1>0, <3>1 DEF States
    <3>3. out \in Outputs /\ out.why = msg.why
      BY <3>1, <3>2 DEF Outputs
    <3>4. st' = [st2 EXCEPT ![msg.r].outs = Append(@, out)]
      BY <2>1, <2>3 DEF HandleAborted
    <3> HIDE DEF out
    <3>5. /\ st1 \in [Reqs -> States] /\ st1[msg.r].fin = TRUE /\ st1[msg.r].outs = st[msg.r].outs
          /\ \A q \in Reqs \ {msg.r} : st1[q] = st[q]
      BY <1>0, <3>1 DEF States
    <3> HIDE DEF st1
    <3>6. /\ st2 \in [Reqs -> States] /\ st2[msg.r].fin = TRUE /\ st2[msg.r].outs = st[msg.r].outs
          /\ \A q \in Reqs \ {msg.r} : st2[q] = st[q]
      BY <3>1, <3>5 DEF States, Notify
    <3> HIDE DEF st2
    <3>7. Append(st[msg.r].outs, out) # <<>> /\ Last(Append(st[msg.r].outs, out)) = out
      BY <3>2, <3>3, LastOfAppend
    <3>8. /\ st'[msg.r].fin = TRUE /\ st'[msg.r].outs = Append(st[msg.r].outs, out)
          /\ \A q \in Reqs \ {msg.r} : st'[q] = st[q]
      BY <3>1, <3>4, <3>6 DEF States
    <3>9. Takes(msg.r, msg.why)
      BY <2>3, <3>1, <3>3, <3>7, <3>8 DEF Takes
    <3>10. msg = Aborted(msg.r, msg.why)
      BY <1>3, <3>1 DEF Aborted
    <3> QED
      BY <1>0, <2>1, <3>1, <3>9, <3>10
  <2> QED
    BY <2>2, <2>3
<1> QED
  BY <1>0, <1>1, <1>2, <1>3 DEF OutMsg

(* A request that ended in the scheduler stays so.                         *)
LEMMA EndStays ==
    ASSUME FrontAssumption, Types, SentInv, Next
    PROVE  \A r \in Reqs : eng[r].at = "end" => eng'[r].at = "end"
<1>0. eng \in [Reqs -> Engs]
  BY DEF Types
<1>1. CASE UNCHANGED eng
  BY <1>1
<1>2. ASSUME NEW r \in Reqs, RequestAction(r)
      PROVE  \A q \in Reqs : eng[q].at = "end" => eng'[q].at = "end"
  <2>1. \/ UNCHANGED eng
        \/ eng[r].at # "end" /\ \A q \in Reqs \ {r} : eng'[q] = eng[q]
    BY <1>0, <1>2 DEF RequestAction, Wake, NoticeDisconnect, AbortRequest, EngineStart, EngineToken, Queued, Started,
                      engine
  <2> QED
    BY <2>1
<1>3. CASE EngineReceive
  <2>1. inq \in Seq(InMsg) /\ inq # <<>>
    BY <1>3, ReceiveCases DEF Types
  <2>2. ASSUME NEW r \in Reqs, Head(inq) = Gen(r), ReceiveGen(r)
        PROVE  \A q \in Reqs : eng[q].at = "end" => eng'[q].at = "end"
    <3>1. eng[r].at = "none"
      BY <2>1, <2>2, QueueTail DEF SentInv
    <3>2. \A q \in Reqs \ {r} : eng'[q] = eng[q]
      BY <1>0, <2>2 DEF ReceiveGen
    <3> QED
      BY <3>1, <3>2
  <2>3. ASSUME NEW R \in SUBSET Reqs, ReceiveAbort(R)
        PROVE  \A q \in Reqs : eng[q].at = "end" => eng'[q].at = "end"
    BY <1>0, <2>3 DEF ReceiveAbort, Queued, Started, Engs
  <2>4. ASSUME NEW mode \in Modes, ReceivePause(mode)
        PROVE  \A q \in Reqs : eng[q].at = "end" => eng'[q].at = "end"
    BY <1>0, <2>4 DEF ReceivePause, Started, Engs
  <2> QED
    BY <1>1, <1>3, <2>2, <2>3, <2>4, ReceiveCases DEF ReceiveUpdate
<1>4. CASE ~(EngineReceive \/ \E r \in Reqs : RequestAction(r))
  <2>1. UNCHANGED eng
    BY <1>4, NextCases
       DEF CallAction, Arrive, Gate, ReaderLock, Tokenize, Finish, Respond, Disconnect, BackgroundAbort, HealthEnds,
           PauseGeneration, StartUpdate, WriterLock, UpdateDone, PauseTurn, ContinueGeneration, HandleMessage,
           SigTerm, Watchdog, engine
  <2> QED
    BY <1>1, <2>1
<1> QED
  BY <1>2, <1>3, <1>4

(* A turn of a waiting coroutine.                                          *)
LEMMA WakeFacts ==
    ASSUME FrontAssumption, Types, NEW r \in Reqs, Wake(r)
    PROVE  /\ st[r].outs # <<>> /\ Last(st[r].outs).why \in Reasons \cup {None}
           /\ task[CallOf(r)] \in {"serve", "failed"}
           /\ st'[r].outs = <<>> /\ \A q \in Reqs \ {r} : st'[q] = st[q] /\ seen'[q] = seen[q]
           /\ (seen'[r] = seen[r] /\ ~st[r].fin) \/ seen'[r].reason = Last(st[r].outs).why
           /\ table' = IF st[r].fin THEN table \ Drops(r) ELSE table
           /\ \/ UNCHANGED <<task, readers>>
              \/ /\ Leave(CallOf(r), "failed") /\ task[CallOf(r)] = "serve"
                 /\ Last(st[r].outs).why \in {"bad", "busy"}
           /\ UNCHANGED <<setup, sent, conn, writer, writers, pause, update, inq, outq, engine, server>>
<1>1. st \in [Reqs -> States] /\ seen \in [Reqs -> Views] /\ <<>> \in Seq(Outputs)
  BY DEF Types
<1>2. st[r].outs # <<>> /\ task[CallOf(r)] \in {"serve", "failed"}
  BY DEF Wake
<1>3. Last(st[r].outs) \in Outputs
  BY <1>1, <1>2 DEF States, Last
<1>4. Last(st[r].outs).why \in Reasons \cup {None}
  BY <1>3 DEF Outputs
<1>5. st'[r].outs = <<>> /\ \A q \in Reqs \ {r} : st'[q] = st[q]
  <2> DEFINE st1 == [st EXCEPT ![r].outs = <<>>]
  <2>1. st1 \in [Reqs -> States] /\ st1[r].outs = <<>> /\ \A q \in Reqs \ {r} : st1[q] = st[q]
    BY <1>1 DEF States
  <2>2. st' = [st1 EXCEPT ![r].event = st[r].fin]
    BY DEF Wake
  <2> HIDE DEF st1
  <2> QED
    BY <2>1, <2>2 DEF States
<1>6. Given(r).reason = Last(st[r].outs).why
  BY DEF Given
<1>7. /\ (seen' = seen /\ ~st[r].fin) \/ seen' = [seen EXCEPT ![r] = Given(r)]
      /\ table' = IF st[r].fin THEN table \ Drops(r) ELSE table
      /\ UNCHANGED <<setup, sent, conn, writer, writers, pause, update, inq, outq, engine, server>>
  BY DEF Wake
<1>8. \/ UNCHANGED <<task, readers>>
      \/ /\ Leave(CallOf(r), "failed") /\ task[CallOf(r)] = "serve"
         /\ Last(st[r].outs).why \in {"bad", "busy"}
  BY DEF Wake, Raises
<1> QED
  BY <1>1, <1>2, <1>4, <1>5, <1>6, <1>7, <1>8

Ends(m) == m.t \in {"out", "aborted"} /\ m.why # None

(* What says that a request is over is said of one that the scheduler has  *)
(* finished with: a message, a waiting output, what the client was told.   *)
EndInv ==
    /\ \A m \in OutMsg : Has(outq, m) /\ Ends(m) => eng[m.r].at = "end"
    /\ \A r \in Reqs : st[r].outs # <<>> /\ Last(st[r].outs).why # None => eng[r].at = "end"
    /\ \A r \in Reqs : seen[r].reason \notin {None, "left"} => eng[r].at = "end"

LEMMA EndInit ==
    ASSUME FrontAssumption, Init
    PROVE  EndInv
  BY DEF Init, EndInv, Has, NewState

LEMMA EndMessages ==
    ASSUME FrontAssumption, Types, SentInv, EndInv, Next
    PROVE  \A m \in OutMsg : Has(outq', m) /\ Ends(m) => eng'[m.r].at = "end"
<1>0. /\ outq \in Seq(OutMsg) /\ eng \in [Reqs -> Engs]
      /\ \A r \in Reqs : eng[r].at = "end" => eng'[r].at = "end"
  BY EndStays DEF Types
<1>1. \A m \in OutMsg : Ends(m) => m.r \in Reqs
  BY DEF OutMsg, Ends
<1>2. ASSUME \A m \in OutMsg : Has(outq', m) => Has(outq, m) \/ (Ends(m) => eng'[m.r].at = "end")
      PROVE  \A m \in OutMsg : Has(outq', m) /\ Ends(m) => eng'[m.r].at = "end"
  BY <1>0, <1>1, <1>2 DEF EndInv
<1>3. ASSUME NEW r \in Reqs, NEW last \in BOOLEAN, EngineToken(r, last)
      PROVE  \A m \in OutMsg : Has(outq', m) /\ Ends(m) => eng'[m.r].at = "end"
  <2> DEFINE why == IF ~last THEN None ELSE IF eng[r].tofin = None THEN "stop" ELSE eng[r].tofin
  <2>1. Out(r, 1, why) \in OutMsg /\ Out(r, 1, why).why = why /\ Out(r, 1, why).r = r
    BY <1>0 DEF Out, OutMsg, Reasons, Engs
  <2>2. outq' = Append(outq, Out(r, 1, why))
    BY <1>3 DEF EngineToken
  <2>3. last => eng'[r].at = "end"
    <3> DEFINE eng1 == [eng EXCEPT ![r].n = @ + 1]
    <3>1. eng1 \in [Reqs -> Engs]
      BY <1>0 DEF Engs
    <3>2. eng' = [eng1 EXCEPT ![r].at = IF last THEN "end" ELSE @]
      BY <1>3 DEF EngineToken
    <3> HIDE DEF eng1
    <3> QED
      BY <3>1, <3>2 DEF Engs
  <2>4. \A m \in OutMsg : Has(outq', m) => Has(outq, m) \/ m = Out(r, 1, why)
    BY <1>0, <2>1, <2>2, QueueAppend
  <2>5. Ends(Out(r, 1, why)) => last
    BY <2>1 DEF Ends
  <2> HIDE DEF why
  <2> QED
    BY <1>2, <2>1, <2>3, <2>4, <2>5
<1>4. ASSUME NEW r \in Reqs, ReceiveGen(r)
      PROVE  \A m \in OutMsg : Has(outq', m) /\ Ends(m) => eng'[m.r].at = "end"
  <2>1. \/ outq' = outq
        \/ outq' = Append(outq, Aborted(r, "busy")) /\ eng'[r].at = "end"
    BY <1>0, <1>4 DEF ReceiveGen, Engs
  <2>2. Aborted(r, "busy") \in OutMsg /\ Aborted(r, "busy").r = r
    BY DEF Aborted, OutMsg
  <2>3. \A m \in OutMsg : Has(outq', m) => Has(outq, m) \/ (m = Aborted(r, "busy") /\ eng'[r].at = "end")
    <3>1. CASE outq' = outq
      BY <3>1
    <3>2. CASE outq' = Append(outq, Aborted(r, "busy")) /\ eng'[r].at = "end"
      <4>1. \A m : Has(outq', m) <=> Has(outq, m) \/ m = Aborted(r, "busy")
        BY <1>0, <2>2, <3>2, QueueAppend
      <4> QED
        BY <3>2, <4>1
    <3> QED
      BY <2>1, <3>1, <3>2
  <2> QED
    BY <1>2, <2>2, <2>3
<1>5. ASSUME NEW R \in SUBSET Reqs, ReceiveAbort(R)
      PROVE  \A m \in OutMsg : Has(outq', m) /\ Ends(m) => eng'[m.r].at = "end"
  <2>1. /\ Notices(R \cap Queued) \in Seq(OutMsg)
        /\ \A i \in 1 .. Len(Notices(R \cap Queued)) :
             \E r \in R \cap Queued : Notices(R \cap Queued)[i] = Aborted(r, "abort")
    BY NoticesFacts
  <2>2. \A r \in R \cap Queued : Aborted(r, "abort").r = r /\ eng'[r].at = "end"
    BY <1>0, <1>5 DEF ReceiveAbort, Aborted, Engs
  <2>3. \A m \in OutMsg : Has(Notices(R \cap Queued), m) => eng'[m.r].at = "end"
    <3> SUFFICES ASSUME NEW m \in OutMsg, Has(Notices(R \cap Queued), m)
                 PROVE  eng'[m.r].at = "end"
      OBVIOUS
    <3>1. \E r \in R \cap Queued : m = Aborted(r, "abort")
      BY <2>1 DEF Has
    <3> QED
      BY <2>2, <3>1
  <2>4. \A m \in OutMsg : Has(outq', m) => Has(outq, m) \/ Has(Notices(R \cap Queued), m)
    BY <1>0, <1>5, <2>1, QueueConcat DEF ReceiveAbort
  <2> QED
    BY <1>2, <2>3, <2>4
<1>6. ASSUME NEW x \in Updates, ReceiveUpdate(x)
      PROVE  \A m \in OutMsg : Has(outq', m) /\ Ends(m) => eng'[m.r].at = "end"
  <2>1. Updated(x) \in OutMsg /\ ~Ends(Updated(x)) /\ outq' = Append(outq, Updated(x))
    BY <1>6 DEF ReceiveUpdate, Updated, OutMsg, Ends
  <2> QED
    BY <1>0, <1>2, <2>1, QueueAppend
<1>7. CASE UNCHANGED outq
  BY <1>2, <1>7
<1>8. CASE HandleMessage
  <2>1. outq # <<>> /\ outq' = Tail(outq)
    BY <1>8, HandleCases
  <2> QED
    BY <1>0, <1>2, <2>1, QueueTail
<1>9. CASE EngineReceive
  BY <1>4, <1>5, <1>6, <1>7, <1>9, ReceiveCases DEF ReceivePause
<1>10. CASE ~(HandleMessage \/ EngineReceive \/ \E r \in Reqs, last \in BOOLEAN : EngineToken(r, last))
  <2>1. UNCHANGED outq
    BY <1>10, NextCases
       DEF CallAction, Arrive, Gate, ReaderLock, Tokenize, Finish, Respond, Disconnect, BackgroundAbort, HealthEnds,
           RequestAction, Wake, NoticeDisconnect, AbortRequest, EngineStart,
           PauseGeneration, StartUpdate, WriterLock, UpdateDone, PauseTurn, ContinueGeneration, SigTerm, Watchdog
  <2> QED
    BY <1>7, <2>1
<1> QED
  BY <1>3, <1>8, <1>9, <1>10

LEMMA EndStep ==
    ASSUME FrontAssumption, Types, SentInv, EndInv, Next
    PROVE  EndInv'
<1>0. /\ outq \in Seq(OutMsg)
      /\ \A r \in Reqs : eng[r].at = "end" => eng'[r].at = "end"
      /\ None \notin Reasons
  BY EndStays DEF Types, FrontAssumption, Reasons
<1>1. \A m \in OutMsg : Has(outq', m) /\ Ends(m) => eng'[m.r].at = "end"
  BY EndMessages
<1>2. ASSUME \A r \in Reqs : /\ st'[r].outs # <<>> /\ Last(st'[r].outs).why # None =>
                                  eng[r].at = "end"
                             /\ seen'[r].reason \notin {None, "left"} => eng[r].at = "end"
      PROVE  EndInv'
  <2>1. \A r \in Reqs : /\ st'[r].outs # <<>> /\ Last(st'[r].outs).why # None => eng'[r].at = "end"
                        /\ seen'[r].reason \notin {None, "left"} => eng'[r].at = "end"
    BY <1>0, <1>2
  <2>2. \A r : Last(st[r].outs)' = Last(st'[r].outs)
    BY DEF Last
  <2>3. \A m : Has(outq, m)' <=> Has(outq', m)
    BY DEF Has
  <2>4. \A m : Ends(m)' <=> Ends(m)
    BY DEF Ends
  <2> QED
    BY <1>1, <2>1, <2>2, <2>3, <2>4 DEF EndInv
<1>3. CASE UNCHANGED <<st, seen>>
  BY <1>2, <1>3 DEF EndInv
<1>4. ASSUME NEW r \in Reqs, Wake(r)
      PROVE  EndInv'
  BY <1>2, <1>4, WakeFacts DEF EndInv
<1>5. ASSUME NEW r \in Reqs, NoticeDisconnect(r)
      PROVE  EndInv'
  <2>1. st' = st /\ seen' = [seen EXCEPT ![r].reason = "left"]
    BY <1>5 DEF NoticeDisconnect, front
  <2>2. seen'[r].reason = "left" /\ \A q \in Reqs \ {r} : seen'[q] = seen[q]
    BY <2>1 DEF Types, Views
  <2> QED
    BY <1>2, <2>1, <2>2 DEF EndInv
<1>6. CASE HandleMessage
  <2>1. UNCHANGED seen /\ Has(outq, Head(outq)) /\ Head(outq) \in OutMsg
    BY <1>0, <1>6, HandleCases, QueueTail DEF client
  <2>2. CASE UNCHANGED st
    BY <1>3, <2>1, <2>2
  <2>3. ASSUME NEW r \in Reqs, NEW why \in Reasons \cup {None}, Takes(r, why),
               Head(outq) = Out(r, 1, why) \/ (Head(outq) = Aborted(r, why) /\ why # None)
        PROVE  EndInv'
    <3>1. why # None => Ends(Head(outq)) /\ Head(outq).r = r
      BY <2>3 DEF Out, Aborted, Ends
    <3>2. why # None => eng[r].at = "end"
      BY <2>1, <3>1 DEF EndInv
    <3> QED
      BY <1>2, <2>1, <2>3, <3>2 DEF EndInv, Takes
  <2> QED
    BY <1>0, <1>6, <2>2, <2>3, HandleCases DEF Reasons
<1>7. CASE ~(HandleMessage \/ \E r \in Reqs : Wake(r) \/ NoticeDisconnect(r))
  <2>1. UNCHANGED <<st, seen>>
    BY <1>7, NextCases, ReceiveCases
       DEF CallAction, Arrive, Gate, ReaderLock, Tokenize, Finish, Respond, Disconnect, BackgroundAbort, HealthEnds,
           RequestAction, AbortRequest, EngineStart, EngineToken,
           PauseGeneration, StartUpdate, WriterLock, UpdateDone, PauseTurn, ContinueGeneration, SigTerm, Watchdog,
           client, front
  <2> QED
    BY <1>3, <2>1
<1> QED
  BY <1>4, <1>5, <1>6, <1>7

(* A state is in the table from the arrival of its call to the last output *)
(* of its request; a call that has not arrived has nothing.                *)
TableInv ==
    /\ \A r \in Reqs : task[CallOf(r)] = "new" => r \notin table /\ st[r].outs = <<>> /\ seen[r].reason = None
    /\ \A r \in Reqs : st[r].outs # <<>> =>
           /\ Last(st[r].outs).why # None <=> st[r].fin
           /\ Last(st[r].outs).why \in {"stop", "bad"} => r \notin table
    /\ AnsweredForgotten

LEMMA TableInit ==
    ASSUME FrontAssumption, Init
    PROVE  TableInv
  BY DEF Init, TableInv, NewState, AnsweredForgotten, FrontAssumption

(* Nobody arrives twice.                                                   *)
LEMMA NewOnce ==
    ASSUME FrontAssumption, Types, Next
    PROVE  \A c \in Calls : task'[c] = "new" => task[c] = "new"
<1>0. task \in [Calls -> Tasks] /\ \A r \in Reqs : CallOf(r) \in Calls
  BY DEF Types, CallOf, FrontAssumption
<1>1. \/ UNCHANGED task
      \/ \E c \in Calls, where \in Tasks \ {"new"} : task' = [task EXCEPT ![c] = where]
  <2>1. ASSUME NEW c \in Calls, CallAction(c)
        PROVE  UNCHANGED task \/ \E where \in Tasks \ {"new"} : task' = [task EXCEPT ![c] = where]
    BY <2>1 DEF CallAction, Arrive, Gate, ReaderLock, Tokenize, Finish, Respond, Disconnect, BackgroundAbort,
                HealthEnds, Leave, Tasks
  <2>2. ASSUME NEW r \in Reqs, RequestAction(r)
        PROVE  UNCHANGED task \/ task' = [task EXCEPT ![CallOf(r)] = "failed"]
    BY <2>2 DEF RequestAction, Wake, NoticeDisconnect, AbortRequest, EngineStart, EngineToken, Leave, client
  <2>3. CASE ~((\E c \in Calls : CallAction(c)) \/ \E r \in Reqs : RequestAction(r))
    BY <2>3, NextCases, ReceiveCases
       DEF PauseGeneration, StartUpdate, WriterLock, UpdateDone, PauseTurn, ContinueGeneration, HandleMessage,
           SigTerm, Watchdog, client
  <2>4. "failed" \in Tasks \ {"new"}
    BY DEF Tasks
  <2> QED
    BY <1>0, <2>1, <2>2, <2>3, <2>4
<1> QED
  BY <1>0, <1>1

LEMMA TableStep ==
    ASSUME FrontAssumption, Types, TableInv, Next
    PROVE  TableInv'
<1>0. /\ task \in [Calls -> Tasks] /\ seen \in [Reqs -> Views] /\ \A r \in Reqs : CallOf(r) \in Calls
      /\ \A c \in Calls : task'[c] = "new" => task[c] = "new"
      /\ None \notin {"stop", "abort", "busy", "bad", "left"}
  BY NewOnce DEF Types, CallOf, FrontAssumption
<1>p. /\ \A r : Last(st[r].outs)' = Last(st'[r].outs) /\ CallOf(r)' = CallOf(r)
  BY DEF Last, CallOf
<1>1. ASSUME UNCHANGED <<st, seen>>, table' \subseteq table
      PROVE  TableInv'
  BY <1>0, <1>1, <1>p DEF TableInv, AnsweredForgotten
<1>2. ASSUME NEW c \in Calls, Arrive(c)
      PROVE  TableInv'
  <2>1. UNCHANGED <<st, seen>> /\ task'[c] # "new" /\ task[c] = "new" /\ table' = table \cup ToSet(setup.rids[c])
    BY <1>0, <1>2 DEF Arrive
  <2>2. \A r \in ToSet(setup.rids[c]) : CallOf(r) = c
    BY DEF ToSet, CallOf, Types, FrontAssumption
  <2>3. \A r \in table' \ table : CallOf(r) = c
    BY <2>1, <2>2
  <2> QED
    BY <1>0, <1>p, <2>1, <2>3 DEF TableInv, AnsweredForgotten
<1>3. ASSUME NEW r \in Reqs, Wake(r)
      PROVE  TableInv'
  <2>1. /\ st[r].outs # <<>> /\ Last(st[r].outs).why \in Reasons \cup {None}
        /\ task[CallOf(r)] \in {"serve", "failed"}
        /\ st'[r].outs = <<>> /\ \A q \in Reqs \ {r} : st'[q] = st[q] /\ seen'[q] = seen[q]
        /\ (seen'[r] = seen[r] /\ ~st[r].fin) \/ seen'[r].reason = Last(st[r].outs).why
        /\ table' = IF st[r].fin THEN table \ Drops(r) ELSE table
    BY <1>3, WakeFacts
  <2>2. table' \subseteq table /\ task[CallOf(r)] # "new"
    BY <2>1
  <2>3. seen'[r].reason \in {"stop", "bad", "busy"} => r \notin table'
    <3>1. CASE seen'[r] = seen[r]
      BY <2>2, <3>1 DEF TableInv, AnsweredForgotten
    <3>2. CASE seen'[r].reason = Last(st[r].outs).why /\ ~st[r].fin
      BY <1>0, <2>1, <3>2 DEF TableInv
    <3>3. CASE seen'[r].reason = Last(st[r].outs).why /\ st[r].fin
      BY <2>1, <2>2, <3>3 DEF TableInv, Drops
    <3> QED
      BY <2>1, <3>1, <3>2, <3>3
  <2> QED
    BY <1>0, <1>p, <2>1, <2>2, <2>3 DEF TableInv, AnsweredForgotten
<1>4. ASSUME NEW r \in Reqs, NoticeDisconnect(r)
      PROVE  TableInv'
  <2>1. /\ UNCHANGED <<st, table>> /\ seen' = [seen EXCEPT ![r].reason = "left"]
        /\ task[CallOf(r)] \in {"serve", "failed"}
    BY <1>4 DEF NoticeDisconnect, front
  <2>2. seen'[r].reason = "left" /\ \A q \in Reqs \ {r} : seen'[q] = seen[q]
    BY <1>0, <2>1 DEF Views
  <2> QED
    BY <1>0, <1>p, <2>1, <2>2 DEF TableInv, AnsweredForgotten
<1>5. CASE HandleMessage
  <2>1. UNCHANGED seen
    BY <1>5, HandleCases DEF client
  <2>2. CASE UNCHANGED <<table, st>>
    BY <1>1, <2>1, <2>2
  <2>3. ASSUME NEW r \in Reqs, NEW why \in Reasons \cup {None}, Takes(r, why),
               \/ table' = IF why # None THEN table \ {r} ELSE table
               \/ why \in {"busy", "abort"} /\ UNCHANGED table
        PROVE  TableInv'
    <3>1. table' \subseteq table /\ (why \in {"stop", "bad"} => r \notin table')
      BY <1>0, <2>3
    <3>2. r \in table
      BY <2>3 DEF Takes
    <3> QED
      BY <1>0, <1>p, <2>1, <2>3, <3>1, <3>2 DEF TableInv, AnsweredForgotten, Takes
  <2> QED
    BY <1>5, <2>2, <2>3, HandleCases DEF Reasons
<1>6. ASSUME NEW c \in Calls, NEW ok \in BOOLEAN, HealthEnds(c, ok)
      PROVE  TableInv'
  BY <1>1, <1>6 DEF HealthEnds
<1>7. CASE ~(\/ HandleMessage
             \/ \E r \in Reqs : Wake(r) \/ NoticeDisconnect(r)
             \/ \E c \in Calls : Arrive(c) \/ \E ok \in BOOLEAN : HealthEnds(c, ok))
  <2>1. UNCHANGED <<st, seen, table>>
    <3>1. ASSUME NEW c \in Calls, CallAction(c)
          PROVE  UNCHANGED <<st, seen, table>>
      BY <1>7, <3>1
         DEF CallAction, Gate, ReaderLock, Tokenize, Finish, Respond, Disconnect, BackgroundAbort, client, front
    <3>2. ASSUME NEW r \in Reqs, RequestAction(r)
          PROVE  UNCHANGED <<st, seen, table>>
      BY <1>7, <3>2 DEF RequestAction, AbortRequest, EngineStart, EngineToken, client, front
    <3>3. CASE ~((\E c \in Calls : CallAction(c)) \/ \E r \in Reqs : RequestAction(r))
      BY <1>7, <3>3, NextCases, ReceiveCases
         DEF PauseGeneration, StartUpdate, WriterLock, UpdateDone, PauseTurn, ContinueGeneration, SigTerm, Watchdog,
             client, front
    <3> QED
      BY <3>1, <3>2, <3>3
  <2> QED
    BY <1>1, <2>1
<1> QED
  BY <1>2, <1>3, <1>4, <1>5, <1>6, <1>7

-----------------------------------------------------------------------------
(* Calls that are over, and the weights their answers were made with.      *)

Off3 == {"failed", "gone", "left"}

(* A call that ended regularly was told the end of each of its requests.   *)
CallInv ==
    /\ \A r \in Reqs : seen[r].reason = "left" => task[CallOf(r)] \in Off3
    /\ \A c \in Calls : task[c] \in {"reply", "done"} =>
           \A r \in ToSet(setup.rids[c]) : seen[r].reason \notin {None, "left"}

LEMMA CallInit ==
    ASSUME FrontAssumption, Init
    PROVE  CallInv
  BY DEF Init, CallInv, FrontAssumption

(* How the tasks of a call follow each other.                              *)
LEMMA TaskOrder ==
    ASSUME FrontAssumption, Types, Next
    PROVE  \A c \in Calls : /\ task[c] \in Off3 => task'[c] \in Off3
                            /\ task'[c] \in {"reply", "done"} => task[c] \in {"reply", "done"} \/ Finish(c)
<1>0. task \in [Calls -> Tasks] /\ \A r \in Reqs : CallOf(r) \in Calls
  BY DEF Types, CallOf, FrontAssumption
<1>1. ASSUME NEW c \in Calls, CallAction(c)
      PROVE  /\ \A d \in Calls \ {c} : task'[d] = task[d]
             /\ task[c] \in Off3 => task'[c] \in Off3
             /\ task'[c] \in {"reply", "done"} => task[c] \in {"reply", "done"} \/ Finish(c)
  <2>1. setup.leaveAt \subseteq {"gate", "lock", "tokenize", "serve"}
    BY DEF Types, FrontAssumption
  <2> QED
    BY <1>0, <1>1, <2>1
       DEF CallAction, Arrive, Gate, ReaderLock, Tokenize, Finish, Respond, Disconnect, BackgroundAbort, HealthEnds,
           Leave, Tasks, Off3
<1>2. ASSUME NEW r \in Reqs, RequestAction(r)
      PROVE  UNCHANGED task \/ task' = [task EXCEPT ![CallOf(r)] = "failed"]
  BY <1>2 DEF RequestAction, Wake, NoticeDisconnect, AbortRequest, EngineStart, EngineToken, Leave, client
<1>3. CASE ~((\E c \in Calls : CallAction(c)) \/ \E r \in Reqs : RequestAction(r))
  <2>1. UNCHANGED task
    BY <1>3, NextCases, ReceiveCases
       DEF PauseGeneration, StartUpdate, WriterLock, UpdateDone, PauseTurn, ContinueGeneration, HandleMessage,
           SigTerm, Watchdog, client
  <2> QED
    BY <2>1
<1>4. "failed" \in Off3 /\ "failed" \notin {"reply", "done"}
  BY DEF Off3
<1> QED
  BY <1>0, <1>1, <1>2, <1>3, <1>4

(* What the clients were told changes in two steps.                        *)
LEMMA SeenCases ==
    ASSUME FrontAssumption, Types, Next
    PROVE  \/ UNCHANGED seen
           \/ \E r \in Reqs : Wake(r) \/ NoticeDisconnect(r)
  BY NextCases, ReceiveCases
     DEF CallAction, Arrive, Gate, ReaderLock, Tokenize, Finish, Respond, Disconnect, BackgroundAbort, HealthEnds,
         RequestAction, AbortRequest, EngineStart, EngineToken,
         PauseGeneration, StartUpdate, WriterLock, UpdateDone, PauseTurn, ContinueGeneration, HandleMessage, SigTerm,
         Watchdog, client

LEMMA SetupStays ==
    ASSUME Types, Next
    PROVE  setup' = setup
  BY NextCases, ReceiveCases
     DEF CallAction, Arrive, Gate, ReaderLock, Tokenize, Finish, Respond, Disconnect, BackgroundAbort, HealthEnds,
         RequestAction, Wake, NoticeDisconnect, AbortRequest, EngineStart, EngineToken,
         PauseGeneration, StartUpdate, WriterLock, UpdateDone, PauseTurn, ContinueGeneration, HandleMessage, SigTerm,
         Watchdog, client

LEMMA CallStays ==
    ASSUME FrontAssumption, Types, CallInv, Next
    PROVE  CallInv'
<1>0. /\ seen \in [Reqs -> Views] /\ setup' = setup
      /\ \A r \in Reqs : CallOf(r) \in Calls
      /\ \A c \in Calls : \A r \in ToSet(setup.rids[c]) : r \in Reqs /\ CallOf(r) = c
      /\ None \notin Reasons /\ "left" \notin Reasons /\ "left" # None
  BY SetupStays DEF Types, CallOf, FrontAssumption, Reasons, ToSet
<1>1. \A r \in Reqs : seen'[r].reason = "left" => task'[CallOf(r)] \in Off3
  <2>1. CASE UNCHANGED seen
    BY <1>0, <2>1, TaskOrder DEF CallInv
  <2>2. ASSUME NEW r \in Reqs, Wake(r)
        PROVE  \A q \in Reqs : seen'[q].reason = "left" => task'[CallOf(q)] \in Off3
    <3>1. /\ \A q \in Reqs \ {r} : seen'[q] = seen[q]
          /\ seen'[r].reason = "left" => seen[r].reason = "left"
      BY <1>0, <2>2, WakeFacts
    <3> QED
      BY <1>0, <3>1, TaskOrder DEF CallInv
  <2>3. ASSUME NEW r \in Reqs, NoticeDisconnect(r)
        PROVE  \A q \in Reqs : seen'[q].reason = "left" => task'[CallOf(q)] \in Off3
    <3>1. /\ seen' = [seen EXCEPT ![r].reason = "left"] /\ task' = [task EXCEPT ![CallOf(r)] = "failed"]
      BY <2>3 DEF NoticeDisconnect, Leave
    <3>2. \A q \in Reqs \ {r} : seen'[q] = seen[q]
      BY <3>1, <1>0
    <3>3. task'[CallOf(r)] \in Off3
      BY <1>0, <3>1 DEF Types, Off3
    <3> QED
      BY <1>0, <3>2, <3>3, TaskOrder DEF CallInv
  <2> QED
    BY <2>1, <2>2, <2>3, SeenCases
<1>2. ASSUME NEW c \in Calls, task'[c] \in {"reply", "done"}, NEW r \in ToSet(setup.rids[c])
      PROVE  seen'[r].reason \notin {None, "left"}
  <2>0. r \in Reqs /\ CallOf(r) = c
    BY <1>0
  <2>1. CASE Finish(c)
    <3>1. seen' = seen /\ Over(r) /\ task[c] = "serve"
      BY <2>1 DEF Finish
    <3> QED
      BY <2>0, <3>1 DEF CallInv, Over, Off3
  <2>2. CASE task[c] \in {"reply", "done"}
    <3>1. seen'[r] = seen[r]
      <4>1. ASSUME NEW q \in Reqs, Wake(q)
            PROVE  seen'[r] = seen[r]
        <5>1. task[CallOf(q)] \in {"serve", "failed"}
          BY <4>1, WakeFacts
        <5>2. q # r
          BY <2>0, <2>2, <5>1
        <5> QED
          BY <2>0, <4>1, <5>2, WakeFacts
      <4>2. ASSUME NEW q \in Reqs, NoticeDisconnect(q)
            PROVE  seen'[r] = seen[r]
        <5>1. task[CallOf(q)] \in {"serve", "failed"} /\ seen' = [seen EXCEPT ![q].reason = "left"]
          BY <4>2 DEF NoticeDisconnect
        <5>2. q # r
          BY <2>0, <2>2, <5>1
        <5> QED
          BY <1>0, <2>0, <5>1, <5>2
      <4> QED
        BY <4>1, <4>2, SeenCases
    <3> QED
      BY <2>2, <3>1 DEF CallInv
  <2> QED
    BY <1>2, <2>1, <2>2, TaskOrder
<1>3. \A r : CallOf(r)' = CallOf(r)
  BY DEF CallOf
<1> QED
  BY <1>0, <1>1, <1>2, <1>3 DEF CallInv

(* What a call that does not wait has in the scheduler: nothing yet, or    *)
(* nothing any more.                                                       *)
LEMMA Unserved ==
    ASSUME FrontAssumption, Types, SentInv, EndInv, CallInv, NEW r \in Reqs,
           task[CallOf(r)] \in {"new", "gate", "lock", "reply", "done"}
    PROVE  eng[r].at \in {"none", "end"}
<1> DEFINE c == CallOf(r)
<1>0. c \in Calls /\ setup.rids[c] \in Seq(Reqs) /\ sent[c] \in Nat /\ sent[c] <= Len(setup.rids[c])
  BY DEF Types, SentInOrder, CallOf, FrontAssumption
<1>1. CASE task[c] \in {"new", "gate", "lock"}
  <2>1. sent[c] = 0
    BY <1>0, <1>1 DEF Types, SentInOrder
  <2>2. ~IsSent(r)
    BY <2>1 DEF IsSent
  <2> QED
    BY <2>2 DEF SentInv
<1>2. CASE task[c] \in {"reply", "done"}
  <2>1. CASE r \in ToSet(setup.rids[c])
    BY <1>0, <1>2, <2>1 DEF CallInv, EndInv
  <2>2. CASE r \notin ToSet(setup.rids[c])
    <3>1. \A j \in 1 .. sent[c] : j \in DOMAIN setup.rids[c]
      BY <1>0
    <3>2. ~IsSent(r)
      BY <2>2, <3>1 DEF IsSent, ToSet
    <3> QED
      BY <3>2 DEF SentInv
  <2> QED
    BY <2>1, <2>2
<1> QED
  BY <1>1, <1>2

(* Without a pause an answer that somebody still waits for was made with   *)
(* the weights there are, or is finished.                                  *)
VersionInv == setup.modes = {} =>
    \A r \in Reqs : task[CallOf(r)] \notin Off3 =>
        \/ ver[r] = {} \/ ver[r] = {weights}
        \/ eng[r].at = "end" /\ \E w \in Version : ver[r] = {w}

LEMMA VersionInit ==
    ASSUME FrontAssumption, Init
    PROVE  VersionInv
  BY DEF Init, VersionInv

LEMMA VersionStep ==
    ASSUME FrontAssumption, Types, LockInv, FlightInv, SentInv, EndInv, CallInv, VersionInv, Next
    PROVE  VersionInv'
<1> SUFFICES ASSUME setup.modes = {}, NEW r \in Reqs, task'[CallOf(r)] \notin Off3
             PROVE  \/ ver'[r] = {} \/ ver'[r] = {weights'}
                    \/ eng'[r].at = "end" /\ \E w \in Version : ver'[r] = {w}
  BY SetupStays DEF VersionInv, CallOf
<1>0. /\ CallOf(r) \in Calls /\ task[CallOf(r)] \notin Off3
      /\ eng[r].at = "end" => eng'[r].at = "end"
      /\ weights \in Version
  BY TaskOrder, EndStays DEF CallOf, FrontAssumption, Types
<1>1. \/ ver[r] = {} \/ ver[r] = {weights}
      \/ eng[r].at = "end" /\ \E w \in Version : ver[r] = {w}
  BY <1>0 DEF VersionInv
<1>2. CASE ver' = ver /\ weights' = weights
  BY <1>0, <1>1, <1>2
<1>3. ASSUME NEW q \in Reqs, NEW last \in BOOLEAN, EngineToken(q, last)
      PROVE  \/ ver'[r] = {} \/ ver'[r] = {weights'}
             \/ eng'[r].at = "end" /\ \E w \in Version : ver'[r] = {w}
  <2>1. /\ ver' = [ver EXCEPT ![q] = @ \cup {weights}] /\ weights' = weights
        /\ eng[q].at = "running"
    BY <1>3 DEF EngineToken, Started
  <2>2. CASE q # r
    <3>1. ver'[r] = ver[r]
      BY <2>1, <2>2 DEF Types
    <3> QED
      BY <1>0, <1>1, <2>1, <3>1
  <2>3. CASE q = r
    <3>1. ver'[r] = ver[r] \cup {weights}
      BY <2>1, <2>3 DEF Types
    <3>2. ver[r] = {} \/ ver[r] = {weights}
      BY <1>1, <2>1, <2>3
    <3> QED
      BY <2>1, <3>1, <3>2
  <2> QED
    BY <2>2, <2>3
<1>4. ASSUME NEW x \in Updates, Head(inq) = [t |-> "update", r |-> x], ReceiveUpdate(x), EngineReceive
      PROVE  \/ ver'[r] = {} \/ ver'[r] = {weights'}
             \/ eng'[r].at = "end" /\ \E w \in Version : ver'[r] = {w}
  <2>1. inq \in Seq(InMsg) /\ inq # <<>> /\ ver' = ver /\ eng' = eng
    BY <1>4, ReceiveCases DEF Types, ReceiveUpdate
  <2>2. Has(inq, Upd(x))
    BY <1>4, <2>1, QueueTail DEF Upd
  <2>3. upd[x] = "sent"
    BY <2>2 DEF FlightInv, OneUpdate, Flying
  <2>4. writer # None
    BY <2>3 DEF LockInv, FrontAssumption
  <2>5. task[CallOf(r)] \in {"new", "gate", "lock", "reply", "done"}
    BY <1>0, <2>4 DEF LockInv, Types, Tasks, Off3
  <2>6. eng[r].at \in {"none", "end"}
    BY <2>5, Unserved
  <2> QED
    BY <1>0, <1>1, <2>1, <2>6 DEF SentInv
<1>5. CASE EngineReceive
  BY <1>2, <1>4, <1>5, ReceiveCases DEF ReceiveGen, ReceiveAbort, ReceivePause
<1>6. CASE ~(EngineReceive \/ \E q \in Reqs, last \in BOOLEAN : EngineToken(q, last))
  <2>1. ver' = ver /\ weights' = weights
    BY <1>6, NextCases
       DEF CallAction, Arrive, Gate, ReaderLock, Tokenize, Finish, Respond, Disconnect, BackgroundAbort, HealthEnds,
           RequestAction, Wake, NoticeDisconnect, AbortRequest, EngineStart,
           PauseGeneration, StartUpdate, WriterLock, UpdateDone, PauseTurn, ContinueGeneration, HandleMessage,
           SigTerm, Watchdog, engine
  <2> QED
    BY <1>2, <2>1
<1> QED
  BY <1>3, <1>5, <1>6

-----------------------------------------------------------------------------
(* Pauses.                                                                 *)

(* A pause that has drained the front end leaves nobody inside the gate.   *)
PauseInv ==
    /\ pausing # "no" => is_pause
    /\ pausing = "drained" =>
           readers = {} /\ \A c \in Calls : task[c] \notin {"lock", "tokenize", "serve"}

LEMMA PauseInit ==
    ASSUME FrontAssumption, Init
    PROVE  PauseInv
  BY DEF Init, PauseInv

LEMMA PauseStays ==
    ASSUME FrontAssumption, Types, LockInv, PauseInv, Next
    PROVE  PauseInv'
<1> USE DEF client, front, lock, pause, update, engine, server
<1>0. task \in [Calls -> Tasks] /\ \A r \in Reqs : CallOf(r) \in Calls
  BY DEF Types, CallOf, FrontAssumption
<1>1. ASSUME NEW c \in Calls, CallAction(c)
      PROVE  PauseInv'
  <2>1. CASE Arrive(c) \/ Gate(c) \/ Respond(c) \/ BackgroundAbort(c)
    BY <1>0, <2>1 DEF Arrive, Gate, Respond, BackgroundAbort, PauseInv
  <2>2. CASE ReaderLock(c) \/ Tokenize(c)
    BY <1>0, <2>2 DEF ReaderLock, Tokenize, Leave, PauseInv
  <2>3. CASE Finish(c) \/ Disconnect(c) \/ \E ok \in BOOLEAN : HealthEnds(c, ok)
    BY <1>0, <2>3 DEF Finish, Disconnect, HealthEnds, Leave, PauseInv
  <2> QED
    BY <1>1, <2>1, <2>2, <2>3 DEF CallAction
<1>2. ASSUME NEW r \in Reqs, RequestAction(r)
      PROVE  PauseInv'
  <2>1. /\ UNCHANGED <<task, readers>> \/ Leave(CallOf(r), "failed")
        /\ UNCHANGED <<pausing, is_pause>>
    BY <1>2 DEF RequestAction, Wake, NoticeDisconnect, AbortRequest, EngineStart, EngineToken
  <2> QED
    BY <1>0, <2>1 DEF Leave, PauseInv
<1>3. CASE PauseTurn
  <2>1. CASE Locked
    BY <1>3, <2>1 DEF PauseTurn, PauseInv
  <2>2. CASE ~Locked
    <3>1. readers = {} /\ writer = None /\ writers = {} /\ \A c \in Calls : task[c] # "lock"
      BY <1>3, <2>2 DEF PauseTurn, Locked, Woken, CanRead
    <3>2. \A c \in Calls : task[c] \notin {"tokenize", "serve"}
      BY <3>1 DEF LockInv
    <3> QED
      BY <1>3, <3>1, <3>2 DEF PauseTurn, PauseInv
  <2> QED
    BY <2>1, <2>2
<1>4. CASE ContinueGeneration \/ \E mode \in setup.modes : PauseGeneration(mode)
  BY <1>4 DEF ContinueGeneration, PauseGeneration, PauseInv
<1>5. CASE \/ \E x \in setup.updates : StartUpdate(x)
           \/ \E x \in Updates : WriterLock(x) \/ UpdateDone(x)
           \/ HandleMessage \/ SigTerm \/ Watchdog \/ EngineReceive
  <2>1. UNCHANGED <<task, readers, pausing, is_pause>>
    BY <1>5, ReceiveCases DEF StartUpdate, WriterLock, UpdateDone, HandleMessage, SigTerm, Watchdog
  <2> QED
    BY <2>1 DEF PauseInv
<1> QED
  BY <1>1, <1>2, <1>3, <1>4, <1>5, NextCases

(* As long as no prompt is refused, no call fails but a health check or    *)
(* one whose client has left.                                              *)
Refusals == {"bad", "busy"}
ObeyInv == Obeyed =>
    /\ \A r \in Reqs : eng[r].tofin \notin Refusals
    /\ \A m \in OutMsg : Has(outq, m) /\ Ends(m) => m.why \notin Refusals
    /\ \A r \in Reqs : st[r].outs # <<>> => Last(st[r].outs).why \notin Refusals
    /\ \A c \in Calls : task[c] \in Off3 => c \in setup.health \/ c \notin conn

LEMMA ObeyInit ==
    ASSUME FrontAssumption, Init
    PROVE  ObeyInv
  BY DEF Init, ObeyInv, Has, NewState, Refusals, Off3, FrontAssumption

(* What the scheduler sends, when it refuses nothing.                      *)
LEMMA ObeyMessages ==
    ASSUME FrontAssumption, Types, ObeyInv, Next, Obeyed
    PROVE  /\ \A r \in Reqs : eng'[r].tofin \notin Refusals
           /\ \A m \in OutMsg : Has(outq', m) /\ Ends(m) => m.why \notin Refusals
<1>0. /\ outq \in Seq(OutMsg) /\ eng \in [Reqs -> Engs] /\ None \notin Refusals /\ setup.refusals = {}
      /\ \A r \in Reqs : eng[r].tofin \notin Refusals
      /\ \A m \in OutMsg : Has(outq, m) /\ Ends(m) => m.why \notin Refusals
  BY DEF Types, ObeyInv, Obeyed, Refusals, FrontAssumption
<1>1. ASSUME NEW r \in Reqs, RequestAction(r)
      PROVE  /\ \A q \in Reqs : eng'[q].tofin \notin Refusals
             /\ \A m \in OutMsg : Has(outq', m) /\ Ends(m) => m.why \notin Refusals
  <2>1. CASE Wake(r) \/ NoticeDisconnect(r) \/ AbortRequest(r)
    BY <1>0, <2>1 DEF Wake, NoticeDisconnect, AbortRequest, engine
  <2>2. CASE EngineStart(r)
    BY <1>0, <2>2 DEF EngineStart, Engs
  <2>3. ASSUME NEW last \in BOOLEAN, EngineToken(r, last)
        PROVE  /\ \A q \in Reqs : eng'[q].tofin \notin Refusals
               /\ \A m \in OutMsg : Has(outq', m) /\ Ends(m) => m.why \notin Refusals
    <3> DEFINE why == IF ~last THEN None ELSE IF eng[r].tofin = None THEN "stop" ELSE eng[r].tofin
    <3>1. Out(r, 1, why) \in OutMsg /\ Out(r, 1, why).why = why /\ why \notin Refusals
      BY <1>0 DEF Out, OutMsg, Reasons, Engs, Refusals
    <3>2. outq' = Append(outq, Out(r, 1, why))
      BY <2>3 DEF EngineToken
    <3>3. \A m \in OutMsg : Has(outq', m) => Has(outq, m) \/ m = Out(r, 1, why)
      BY <1>0, <3>1, <3>2, QueueAppend
    <3>4. \A q \in Reqs : eng'[q].tofin = eng[q].tofin
      <4> DEFINE eng1 == [eng EXCEPT ![r].n = @ + 1]
      <4>1. eng1 \in [Reqs -> Engs] /\ \A q \in Reqs : eng1[q].tofin = eng[q].tofin
        BY <1>0 DEF Engs
      <4>2. eng' = [eng1 EXCEPT ![r].at = IF last THEN "end" ELSE @]
        BY <2>3 DEF EngineToken
      <4> HIDE DEF eng1
      <4> QED
        BY <4>1, <4>2 DEF Engs
    <3> HIDE DEF why
    <3> QED
      BY <1>0, <3>1, <3>3, <3>4
  <2> QED
    BY <1>1, <2>1, <2>2, <2>3 DEF RequestAction
<1>2. CASE EngineReceive
  <2>1. ASSUME NEW r \in Reqs, ReceiveGen(r)
        PROVE  /\ \A q \in Reqs : eng'[q].tofin \notin Refusals
               /\ \A m \in OutMsg : Has(outq', m) /\ Ends(m) => m.why \notin Refusals
    <3>1. /\ eng' = [eng EXCEPT ![r].at = IF None = "busy" THEN "end" ELSE "queued", ![r].tofin = None]
          /\ outq' = IF None = "busy" THEN Append(outq, Aborted(r, None)) ELSE outq
      BY <1>0, <2>1 DEF ReceiveGen
    <3>2. None # "busy"
      BY DEF FrontAssumption
    <3>3. \A q \in Reqs : eng'[q].tofin \in {None, eng[q].tofin}
      BY <1>0, <3>1 DEF Engs
    <3> QED
      BY <1>0, <3>1, <3>2, <3>3
  <2>2. ASSUME NEW R \in SUBSET Reqs, ReceiveAbort(R)
        PROVE  /\ \A q \in Reqs : eng'[q].tofin \notin Refusals
               /\ \A m \in OutMsg : Has(outq', m) /\ Ends(m) => m.why \notin Refusals
    <3>1. /\ Notices(R \cap Queued) \in Seq(OutMsg)
          /\ \A i \in 1 .. Len(Notices(R \cap Queued)) :
               \E r \in R \cap Queued : Notices(R \cap Queued)[i] = Aborted(r, "abort")
      BY NoticesFacts
    <3>2. \A r : Aborted(r, "abort").why \notin Refusals
      BY DEF Aborted, Refusals
    <3>3. \A m \in OutMsg : Has(Notices(R \cap Queued), m) => m.why \notin Refusals
      <4> SUFFICES ASSUME NEW m \in OutMsg, Has(Notices(R \cap Queued), m)
                   PROVE  m.why \notin Refusals
        OBVIOUS
      <4>1. \E r \in R \cap Queued : m = Aborted(r, "abort")
        BY <3>1 DEF Has
      <4> QED
        BY <3>2, <4>1
    <3>4. \A m \in OutMsg : Has(outq', m) => Has(outq, m) \/ Has(Notices(R \cap Queued), m)
      BY <1>0, <2>2, <3>1, QueueConcat DEF ReceiveAbort
    <3>5. \A q \in Reqs : eng'[q].tofin \in {"abort", eng[q].tofin}
      BY <1>0, <2>2 DEF ReceiveAbort, Engs
    <3> QED
      BY <1>0, <3>3, <3>4, <3>5 DEF Refusals
  <2>3. ASSUME NEW mode \in Modes, ReceivePause(mode)
        PROVE  /\ \A q \in Reqs : eng'[q].tofin \notin Refusals
               /\ \A m \in OutMsg : Has(outq', m) /\ Ends(m) => m.why \notin Refusals
    BY <1>0, <2>3 DEF ReceivePause, Engs
  <2>4. ASSUME NEW x \in Updates, ReceiveUpdate(x)
        PROVE  /\ \A q \in Reqs : eng'[q].tofin \notin Refusals
               /\ \A m \in OutMsg : Has(outq', m) /\ Ends(m) => m.why \notin Refusals
    <3>1. Updated(x) \in OutMsg /\ ~Ends(Updated(x)) /\ outq' = Append(outq, Updated(x)) /\ eng' = eng
      BY <2>4 DEF ReceiveUpdate, Updated, OutMsg, Ends
    <3>2. \A m \in OutMsg : Has(outq', m) => Has(outq, m) \/ m = Updated(x)
      BY <1>0, <3>1, QueueAppend
    <3> QED
      BY <1>0, <3>1, <3>2
  <2>5. CASE UNCHANGED <<eng, outq>>
    BY <1>0, <2>5
  <2> QED
    BY <1>2, <2>1, <2>2, <2>3, <2>4, <2>5, ReceiveCases
<1>3. CASE HandleMessage
  <2>1. outq # <<>> /\ outq' = Tail(outq) /\ eng' = eng
    BY <1>3, HandleCases DEF engine
  <2>2. \A m \in OutMsg : Has(outq', m) => Has(outq, m)
    BY <1>0, <2>1, QueueTail
  <2> QED
    BY <1>0, <2>1, <2>2
<1>4. CASE ~(EngineReceive \/ HandleMessage \/ \E r \in Reqs : RequestAction(r))
  <2>1. UNCHANGED <<eng, outq>>
    BY <1>4, NextCases
       DEF CallAction, Arrive, Gate, ReaderLock, Tokenize, Finish, Respond, Disconnect, BackgroundAbort, HealthEnds,
           PauseGeneration, StartUpdate, WriterLock, UpdateDone, PauseTurn, ContinueGeneration, SigTerm, Watchdog,
           engine
  <2> QED
    BY <1>0, <2>1
<1> QED
  BY <1>1, <1>2, <1>3, <1>4

LEMMA ObeyStep ==
    ASSUME FrontAssumption, Types, ObeyInv, Next
    PROVE  ObeyInv'
<1> SUFFICES ASSUME Obeyed PROVE ObeyInv'
  BY SetupStays DEF ObeyInv, Obeyed
<1>0. /\ task \in [Calls -> Tasks] /\ \A r \in Reqs : CallOf(r) \in Calls
      /\ None \notin Refusals /\ outq \in Seq(OutMsg) /\ setup' = setup /\ setup.invalid = {}
      /\ \A r \in Reqs : st[r].outs # <<>> => Last(st[r].outs).why \notin Refusals
      /\ \A c \in Calls : task[c] \in Off3 => c \in setup.health \/ c \notin conn
  BY SetupStays DEF Types, CallOf, FrontAssumption, Refusals, Obeyed, ObeyInv
<1>1. /\ \A r \in Reqs : eng'[r].tofin \notin Refusals
      /\ \A m \in OutMsg : Has(outq', m) /\ Ends(m) => m.why \notin Refusals
  BY ObeyMessages
<1>2. \A r \in Reqs : st'[r].outs # <<>> => Last(st'[r].outs).why \notin Refusals
  <2>1. ASSUME NEW r \in Reqs, Wake(r)
        PROVE  \A q \in Reqs : st'[q].outs # <<>> => Last(st'[q].outs).why \notin Refusals
    BY <1>0, <2>1, WakeFacts
  <2>2. CASE HandleMessage
    <3>1. ASSUME NEW r \in Reqs, NEW why \in Reasons \cup {None}, Takes(r, why),
                 Head(outq) = Out(r, 1, why) \/ Head(outq) = Aborted(r, why)
          PROVE  \A q \in Reqs : st'[q].outs # <<>> => Last(st'[q].outs).why \notin Refusals
      <4>1. Has(outq, Head(outq)) /\ Head(outq) \in OutMsg
        BY <1>0, <2>2, HandleCases, QueueTail
      <4>2. why # None => Ends(Head(outq)) /\ Head(outq).why = why
        BY <3>1 DEF Ends, Out, Aborted
      <4>3. why \notin Refusals
        BY <1>0, <4>1, <4>2 DEF ObeyInv
      <4> QED
        BY <1>0, <3>1, <4>3 DEF Takes
    <3> QED
      BY <1>0, <2>2, <3>1, HandleCases DEF Reasons
  <2>3. CASE ~(HandleMessage \/ \E r \in Reqs : Wake(r))
    <3>1. UNCHANGED st
      BY <2>3, NextCases, ReceiveCases
         DEF CallAction, Arrive, Gate, ReaderLock, Tokenize, Finish, Respond, Disconnect, BackgroundAbort, HealthEnds,
             RequestAction, NoticeDisconnect, AbortRequest, EngineStart, EngineToken,
             PauseGeneration, StartUpdate, WriterLock, UpdateDone, PauseTurn, ContinueGeneration, SigTerm, Watchdog,
             front
    <3> QED
      BY <1>0, <3>1
  <2> QED
    BY <2>1, <2>2, <2>3
<1>3. \A c \in Calls : task'[c] \in Off3 => c \in setup'.health \/ c \notin conn'
  <2>1. ASSUME NEW c \in Calls, CallAction(c)
        PROVE  \A d \in Calls : task'[d] \in Off3 => d \in setup.health \/ d \notin conn'
    <3>1. \/ conn' = conn /\ task' = task
          \/ \E where \in Tasks \ Off3 : task' = [task EXCEPT ![c] = where] /\ conn' = conn
          \/ \E where \in Off3 : /\ task' = [task EXCEPT ![c] = where] /\ conn' \subseteq conn
                                 /\ c \in setup.health \/ c \notin conn'
          \/ conn' = conn \ {c} /\ task' = task
      <4>1. CASE Arrive(c) \/ Gate(c) \/ ReaderLock(c) \/ Finish(c) \/ Respond(c)
        BY <4>1 DEF Arrive, Gate, ReaderLock, Finish, Respond, Leave, Tasks, Off3, client
      <4>2. CASE Tokenize(c)
        <5>1. setup.rids[c][sent[c] + 1] \notin setup.invalid
          BY <1>0
        <5>2. /\ task' = [task EXCEPT ![c] = IF sent[c] + 1 = Len(setup.rids[c]) THEN "serve" ELSE "tokenize"]
              /\ conn' = conn
          BY <4>2, <5>1 DEF Tokenize
        <5> QED
          BY <5>2 DEF Tasks, Off3
      <4>3. CASE Disconnect(c)
        <5>1. CASE c \in Streaming
          <6>1. task' = [task EXCEPT ![c] = "gone"] /\ conn' \subseteq conn /\ c \notin conn' /\ "gone" \in Off3
            BY <4>3, <5>1 DEF Disconnect, Leave, Off3
          <6> QED
            BY <6>1
        <5>2. CASE c \notin Streaming
          BY <4>3, <5>2 DEF Disconnect
        <5> QED
          BY <5>1, <5>2
      <4>4. CASE BackgroundAbort(c)
        <5>1. /\ task[c] \in Off3 /\ "left" \in Off3
              /\ task' = [task EXCEPT ![c] = "left"] /\ conn' \subseteq conn
          BY <4>4 DEF BackgroundAbort, Off3, client
        <5>2. c \in setup.health \/ c \notin conn'
          BY <1>0, <5>1
        <5> QED
          BY <5>1, <5>2
      <4>5. CASE \E ok \in BOOLEAN : HealthEnds(c, ok)
        <5>1. /\ task' = [task EXCEPT ![c] = "gone"] /\ conn' \subseteq conn /\ c \in setup.health
              /\ "gone" \in Off3
          BY <4>5 DEF HealthEnds, Leave, Off3
        <5> QED
          BY <5>1
      <4> QED
        BY <2>1, <4>1, <4>2, <4>3, <4>4, <4>5 DEF CallAction
    <3> QED
      BY <1>0, <3>1
  <2>2. ASSUME NEW r \in Reqs, RequestAction(r)
        PROVE  \A d \in Calls : task'[d] \in Off3 => d \in setup.health \/ d \notin conn'
    <3>1. CASE Wake(r)
      <4>1. task' = task /\ conn' = conn
        BY <1>0, <3>1, WakeFacts DEF Refusals
      <4> QED
        BY <1>0, <4>1
    <3>2. CASE NoticeDisconnect(r)
      <4>1. task' = [task EXCEPT ![CallOf(r)] = "failed"] /\ conn' = conn /\ CallOf(r) \notin conn
        BY <3>2 DEF NoticeDisconnect, Leave
      <4> QED
        BY <1>0, <4>1
    <3>3. CASE ~(Wake(r) \/ NoticeDisconnect(r))
      BY <1>0, <2>2, <3>3 DEF RequestAction, AbortRequest, EngineStart, EngineToken, client
    <3> QED
      BY <3>1, <3>2, <3>3
  <2>3. CASE ~((\E c \in Calls : CallAction(c)) \/ \E r \in Reqs : RequestAction(r))
    <3>1. task' = task /\ conn' = conn
      BY <2>3, NextCases, ReceiveCases
         DEF PauseGeneration, StartUpdate, WriterLock, UpdateDone, PauseTurn, ContinueGeneration, HandleMessage,
             SigTerm, Watchdog, client
    <3> QED
      BY <1>0, <3>1
  <2> QED
    BY <1>0, <2>1, <2>2, <2>3
<1>4. /\ \A r : Last(st[r].outs)' = Last(st'[r].outs)
      /\ \A m : (Has(outq, m)' <=> Has(outq', m)) /\ (Ends(m)' <=> Ends(m))
  BY DEF Last, Has, Ends
<1> QED
  BY <1>1, <1>2, <1>3, <1>4 DEF ObeyInv

(* A pause of an engine that refuses nothing leaves no client waiting for  *)
(* what is still on-going.                                                 *)
LEMMA QuietPause ==
    ASSUME FrontAssumption, Types, SentInv, EndInv, CallInv, PauseInv, ObeyInv, Obeyed
    PROVE  PauseQuiet
<1> SUFFICES ASSUME pausing = "drained", NEW r \in Reqs, CallOf(r) \notin setup.health \cup (Calls \ conn)
             PROVE  ~Ongoing(r)
  BY DEF PauseQuiet
<1>1. CallOf(r) \in Calls /\ task[CallOf(r)] \in Tasks
  BY DEF CallOf, FrontAssumption, Types
<1>2. task[CallOf(r)] \notin Off3
  BY <1>1 DEF ObeyInv
<1>3. task[CallOf(r)] \in {"new", "gate", "reply", "done"}
  BY <1>1, <1>2 DEF PauseInv, Tasks, Off3
<1>4. eng[r].at \in {"none", "end"}
  BY <1>3, Unserved
<1> QED
  BY <1>4 DEF Ongoing

-----------------------------------------------------------------------------
(* What the receiving loop looks up.                                       *)

OverOnce(q) == \A i, j \in 1 .. Len(q) : Ends(q[i]) /\ Ends(q[j]) /\ q[i].r = q[j].r => i = j

LEMMA OverAppend ==
    ASSUME NEW S, NEW q \in Seq(S), NEW m \in S, OverOnce(q),
           Ends(m) => \A k \in S : Has(q, k) /\ Ends(k) => k.r # m.r
    PROVE  OverOnce(Append(q, m))
<1> DEFINE p == Append(q, m)
<1>1. /\ Len(q) \in Nat /\ Len(p) = Len(q) + 1
      /\ \A i \in 1 .. Len(q) : p[i] = q[i] /\ q[i] \in S
      /\ p[Len(q) + 1] = m
  BY AppendProperties, LenProperties
<1> HIDE DEF p
<1> SUFFICES ASSUME NEW i \in 1 .. Len(p), NEW j \in 1 .. Len(p), Ends(p[i]), Ends(p[j]), p[i].r = p[j].r
             PROVE  i = j
  BY DEF OverOnce, p
<1>2. \A n \in 1 .. Len(p) : n = Len(q) + 1 \/ n \in 1 .. Len(q)
  BY <1>1
<1>3. \A n \in 1 .. Len(q) : Ends(m) /\ Ends(q[n]) => q[n].r # m.r
  BY <1>1 DEF Has
<1>4. CASE i \in 1 .. Len(q) /\ j \in 1 .. Len(q)
  BY <1>1, <1>4 DEF OverOnce
<1>5. CASE i = Len(q) + 1 /\ j \in 1 .. Len(q)
  BY <1>1, <1>3, <1>5
<1>6. CASE i \in 1 .. Len(q) /\ j = Len(q) + 1
  BY <1>1, <1>3, <1>6
<1> QED
  BY <1>2, <1>4, <1>5, <1>6

LEMMA OverTail ==
    ASSUME NEW S, NEW q \in Seq(S), q # <<>>, OverOnce(q)
    PROVE  /\ OverOnce(Tail(q))
           /\ Ends(Head(q)) => \A m : Has(Tail(q), m) /\ Ends(m) => m.r # Head(q).r
<1> DEFINE p == Tail(q)
<1>1. /\ Len(q) \in Nat \ {0} /\ Len(p) = Len(q) - 1 /\ Head(q) = q[1]
      /\ \A i \in 1 .. Len(p) : p[i] = q[i + 1]
  BY HeadTailProperties, LenProperties, EmptySeq
<1> HIDE DEF p
<1>2. 1 \in 1 .. Len(q) /\ \A i \in 1 .. Len(p) : i + 1 \in 1 .. Len(q) /\ i + 1 # 1
  BY <1>1
<1>3. OverOnce(p)
  <2> SUFFICES ASSUME NEW i \in 1 .. Len(p), NEW j \in 1 .. Len(p), Ends(p[i]), Ends(p[j]), p[i].r = p[j].r
               PROVE  i = j
    BY DEF OverOnce
  <2>1. i + 1 = j + 1
    BY <1>1, <1>2 DEF OverOnce
  <2> QED
    BY <1>1, <2>1
<1>4. ASSUME Ends(Head(q)), NEW m, Has(p, m), Ends(m)
      PROVE  m.r # Head(q).r
  <2>1. PICK i \in 1 .. Len(p) : p[i] = m
    BY <1>4 DEF Has
  <2> QED
    BY <1>1, <1>2, <1>4, <2>1 DEF OverOnce
<1> QED
  BY <1>3, <1>4 DEF p

LEMMA OverConcat ==
    ASSUME NEW S, NEW q \in Seq(S), NEW n \in Seq(S), OverOnce(q),
           \A i, j \in 1 .. Len(n) : n[i].r = n[j].r => i = j,
           \A i \in 1 .. Len(n) : \A k \in S : Has(q, k) /\ Ends(k) => k.r # n[i].r
    PROVE  OverOnce(q \o n)
<1> DEFINE p == q \o n
<1>1. /\ Len(q) \in Nat /\ Len(n) \in Nat /\ Len(p) = Len(q) + Len(n)
      /\ \A i \in 1 .. Len(p) : p[i] = IF i <= Len(q) THEN q[i] ELSE n[i - Len(q)]
      /\ \A i \in 1 .. Len(q) : q[i] \in S
  BY ConcatProperties, LenProperties
<1> HIDE DEF p
<1> SUFFICES ASSUME NEW i \in 1 .. Len(p), NEW j \in 1 .. Len(p), Ends(p[i]), Ends(p[j]), p[i].r = p[j].r
             PROVE  i = j
  BY DEF OverOnce, p
<1>2. \A k \in 1 .. Len(p) : \/ k \in 1 .. Len(q) /\ p[k] = q[k]
                             \/ k - Len(q) \in 1 .. Len(n) /\ p[k] = n[k - Len(q)]
  BY <1>1
<1>3. \A k \in 1 .. Len(q) : Ends(q[k]) => \A l \in 1 .. Len(n) : q[k].r # n[l].r
  BY <1>1 DEF Has
<1>4. CASE i \in 1 .. Len(q) /\ p[i] = q[i] /\ j \in 1 .. Len(q) /\ p[j] = q[j]
  BY <1>4 DEF OverOnce
<1>5. CASE /\ i - Len(q) \in 1 .. Len(n) /\ p[i] = n[i - Len(q)]
           /\ j - Len(q) \in 1 .. Len(n) /\ p[j] = n[j - Len(q)]
  <2>1. i - Len(q) = j - Len(q)
    BY <1>5
  <2> QED
    BY <1>1, <2>1
<1> QED
  BY <1>2, <1>3, <1>4, <1>5

(* A request is said to be over once: by a step that ends it, of a request *)
(* that the scheduler still had.                                           *)
Fresh(r) == eng[r].at # "end" /\ IsSent(r)
LEMMA OverStep ==
    ASSUME FrontAssumption, Types, SentInv, EndInv, OverOnce(outq), Next
    PROVE  /\ OverOnce(outq')
           /\ \/ \A m \in OutMsg : Has(outq', m) /\ Ends(m) => Has(outq, m)
              \/ /\ UNCHANGED <<setup, task, table, st>>
                 /\ \A m \in OutMsg : Has(outq', m) /\ Ends(m) => Has(outq, m) \/ Fresh(m.r)
<1>0. /\ outq \in Seq(OutMsg) /\ eng \in [Reqs -> Engs]
      /\ \A m \in OutMsg : Ends(m) => m.r \in Reqs
      /\ \A m \in OutMsg : Has(outq, m) /\ Ends(m) => eng[m.r].at = "end"
  BY DEF Types, OutMsg, Ends, EndInv
<1>1. ASSUME NEW r \in Reqs, NEW last \in BOOLEAN, EngineToken(r, last)
      PROVE  /\ OverOnce(outq') /\ UNCHANGED <<setup, task, table, st>>
             /\ \A m \in OutMsg : Has(outq', m) /\ Ends(m) => Has(outq, m) \/ Fresh(m.r)
  <2> DEFINE why == IF ~last THEN None ELSE IF eng[r].tofin = None THEN "stop" ELSE eng[r].tofin
  <2>1. Out(r, 1, why) \in OutMsg /\ Out(r, 1, why).r = r
    BY <1>0 DEF Out, OutMsg, Reasons, Engs
  <2>2. outq' = Append(outq, Out(r, 1, why)) /\ eng[r].at = "running" /\ UNCHANGED <<setup, task, table, st>>
    BY <1>1 DEF EngineToken, Started, client, front
  <2>3. Fresh(r)
    BY <2>2 DEF Fresh, SentInv
  <2> HIDE DEF why
  <2>4. OverOnce(outq')
    BY <1>0, <2>1, <2>2, OverAppend
  <2>5. \A m \in OutMsg : Has(outq', m) => Has(outq, m) \/ m = Out(r, 1, why)
    BY <1>0, <2>1, <2>2, QueueAppend
  <2> QED
    BY <2>1, <2>2, <2>3, <2>4, <2>5
<1>2. CASE UNCHANGED outq
  BY <1>2
<1>3. CASE HandleMessage
  <2>1. outq # <<>> /\ outq' = Tail(outq)
    BY <1>3, HandleCases
  <2> QED
    BY <1>0, <2>1, QueueTail, OverTail
<1>4. CASE EngineReceive
  <2>0. inq \in Seq(InMsg) /\ inq # <<>> /\ UNCHANGED <<setup, task, table, st>>
    BY <1>4, ReceiveCases DEF Types, client, front
  <2>1. ASSUME NEW r \in Reqs, Head(inq) = Gen(r), ReceiveGen(r)
        PROVE  /\ OverOnce(outq')
               /\ \A m \in OutMsg : Has(outq', m) /\ Ends(m) => Has(outq, m) \/ Fresh(m.r)
    <3>1. outq' = outq \/ outq' = Append(outq, Aborted(r, "busy"))
      BY <2>1 DEF ReceiveGen
    <3>2. Aborted(r, "busy") \in OutMsg /\ Aborted(r, "busy").r = r
      BY DEF Aborted, OutMsg
    <3>3. Has(inq, Gen(r))
      BY <2>0, <2>1, QueueTail
    <3>4. Fresh(r)
      BY <3>3 DEF SentInv, Fresh
    <3>5. CASE outq' = Append(outq, Aborted(r, "busy"))
      <4>1. OverOnce(outq')
        BY <1>0, <3>2, <3>4, <3>5, OverAppend DEF Fresh
      <4>2. \A m \in OutMsg : Has(outq', m) => Has(outq, m) \/ m = Aborted(r, "busy")
        BY <1>0, <3>2, <3>5, QueueAppend
      <4> QED
        BY <3>2, <3>4, <4>1, <4>2
    <3> QED
      BY <1>2, <3>1, <3>5
  <2>2. ASSUME NEW R \in SUBSET Reqs, ReceiveAbort(R)
        PROVE  /\ OverOnce(outq')
               /\ \A m \in OutMsg : Has(outq', m) /\ Ends(m) => Has(outq, m) \/ Fresh(m.r)
    <3> DEFINE n == Notices(R \cap Queued)
    <3>1. /\ n \in Seq(OutMsg)
          /\ \A i \in 1 .. Len(n) : \E r \in R \cap Queued : n[i] = Aborted(r, "abort")
          /\ \A i, j \in 1 .. Len(n) : n[i].r = n[j].r => i = j
      BY NoticesFacts
    <3>2. outq' = outq \o n
      BY <2>2 DEF ReceiveAbort
    <3> HIDE DEF n
    <3>3. \A r \in R \cap Queued : Fresh(r) /\ Aborted(r, "abort").r = r
      BY DEF Fresh, Queued, SentInv, Aborted
    <3>4. \A i \in 1 .. Len(n) : \A k \in OutMsg : Has(outq, k) /\ Ends(k) => k.r # n[i].r
      BY <1>0, <3>1, <3>3 DEF Fresh
    <3>5. OverOnce(outq')
      BY <1>0, <3>1, <3>2, <3>4, OverConcat
    <3>6. \A m \in OutMsg : Has(outq', m) => Has(outq, m) \/ Has(n, m)
      BY <1>0, <3>1, <3>2, QueueConcat
    <3>7. ASSUME NEW m \in OutMsg, Has(n, m)
          PROVE  Fresh(m.r)
      <4>1. \E r \in R \cap Queued : m = Aborted(r, "abort")
        BY <3>1, <3>7 DEF Has
      <4> QED
        BY <3>3, <4>1
    <3> QED
      BY <3>5, <3>6, <3>7
  <2>3. ASSUME NEW x \in Updates, ReceiveUpdate(x)
        PROVE  /\ OverOnce(outq')
               /\ \A m \in OutMsg : Has(outq', m) /\ Ends(m) => Has(outq, m) \/ Fresh(m.r)
    <3>1. Updated(x) \in OutMsg /\ ~Ends(Updated(x)) /\ outq' = Append(outq, Updated(x))
      BY <2>3 DEF ReceiveUpdate, Updated, OutMsg, Ends
    <3>2. OverOnce(outq')
      BY <1>0, <3>1, OverAppend
    <3>3. \A m \in OutMsg : Has(outq', m) => Has(outq, m) \/ m = Updated(x)
      BY <1>0, <3>1, QueueAppend
    <3> QED
      BY <3>1, <3>2, <3>3
  <2> QED
    BY <1>2, <1>4, <2>0, <2>1, <2>2, <2>3, ReceiveCases DEF ReceivePause
<1>5. CASE ~(HandleMessage \/ EngineReceive \/ \E r \in Reqs, last \in BOOLEAN : EngineToken(r, last))
  <2>1. UNCHANGED outq
    BY <1>5, NextCases
       DEF CallAction, Arrive, Gate, ReaderLock, Tokenize, Finish, Respond, Disconnect, BackgroundAbort, HealthEnds,
           RequestAction, Wake, NoticeDisconnect, AbortRequest, EngineStart,
           PauseGeneration, StartUpdate, WriterLock, UpdateDone, PauseTurn, ContinueGeneration, SigTerm, Watchdog
  <2> QED
    BY <1>2, <2>1
<1> QED
  BY <1>1, <1>3, <1>4, <1>5

(* Of a request that is not over the state is known, and until the message *)
(* that says it is over has been handled; a health check may forget its    *)
(* own.                                                                    *)
Told(r) == st[r].outs # <<>> /\ Last(st[r].outs).why # None
Awaited(r) == /\ CallOf(r) \notin setup.health /\ task[CallOf(r)] # "new"
              /\ r \in ToSet(setup.rids[CallOf(r)]) /\ eng[r].at # "end"
KnownInv ==
    /\ \A r \in Reqs : Awaited(r) => r \in table
    /\ \A m \in OutMsg : Has(outq, m) /\ Ends(m) =>
           ~Told(m.r) /\ (CallOf(m.r) \notin setup.health => m.r \in table)
    /\ OverOnce(outq)
    /\ exited = "crashed" => ~OneUpdate

LEMMA KnownInit ==
    ASSUME FrontAssumption, Init
    PROVE  KnownInv
<1>1. \A r \in Reqs : ~Awaited(r)
  BY DEF Init, Awaited, CallOf, FrontAssumption
<1>2. exited # "crashed" /\ OverOnce(outq) /\ \A m : ~Has(outq, m)
  BY DEF Init, Has, OverOnce
<1> QED
  BY <1>1, <1>2 DEF KnownInv

(* A request that was sent is awaited until it is over.                    *)
LEMMA SentAwaited ==
    ASSUME FrontAssumption, Types, NEW r \in Reqs, Fresh(r), CallOf(r) \notin setup.health
    PROVE  Awaited(r)
<1>1. CallOf(r) \in Calls /\ setup.rids[CallOf(r)] \in Seq(Reqs) /\ sent[CallOf(r)] \in Nat
      /\ sent[CallOf(r)] <= Len(setup.rids[CallOf(r)])
  BY DEF CallOf, FrontAssumption, Types, SentInOrder
<1>2. PICK i \in 1 .. sent[CallOf(r)] : setup.rids[CallOf(r)][i] = r
  BY DEF Fresh, IsSent
<1>3. i \in 1 .. Len(setup.rids[CallOf(r)]) /\ sent[CallOf(r)] # 0
  BY <1>1, <1>2
<1>4. r \in ToSet(setup.rids[CallOf(r)])
  BY <1>1, <1>2, <1>3 DEF ToSet
<1>5. task[CallOf(r)] # "new"
  BY <1>1, <1>3 DEF Types, SentInOrder
<1> QED
  BY <1>4, <1>5 DEF Awaited, Fresh

(* The loop dies only of a result that somebody else was given.            *)
LEMMA LoopGoesOn ==
    ASSUME FrontAssumption, Types, LockInv, FlightInv, KnownInv, Next
    PROVE  exited' = "crashed" => ~OneUpdate'
<1> SUFFICES ASSUME OneUpdate, exited' = "crashed" PROVE FALSE
  BY SetupStays DEF OneUpdate
<1>1. outq \in Seq(OutMsg) /\ exited = "no"
  BY NextCases DEF Types, Alive
<1>2. CASE HandleMessage
  <2>1. outq # <<>> /\ Has(outq, Head(outq)) /\ Head(outq) \in OutMsg
    BY <1>1, <1>2, HandleCases, QueueTail
  <2>2. CASE Head(outq) \in [t : {"out"}, r : Reqs, n : {1}, why : Reasons \cup {None}]
    BY <1>1, <1>2, <2>2 DEF HandleMessage
  <2>3. CASE Head(outq) \in [t : {"aborted"}, r : Reqs, n : {0}, why : {"busy", "abort"}]
    <3>1. Ends(Head(outq))
      BY <2>3 DEF Ends, FrontAssumption
    <3>2. HandleAborted(Head(outq))
      BY <1>2, <2>3 DEF HandleMessage
    <3>3. LooksUp(Head(outq).r) => Head(outq).r \in table
      BY <2>1, <3>1 DEF KnownInv, LooksUp
    <3> QED
      BY <1>1, <3>2, <3>3 DEF HandleAborted
  <2>4. CASE Head(outq) \in [t : {"updated"}, r : Updates]
    <3>1. PICK x \in Updates : Head(outq) = Updated(x)
      BY <2>4 DEF Updated
    <3>2. Has(outq, Updated(x))
      BY <2>1, <3>1
    <3>3. x = cur /\ future[x] = None
      BY <3>2 DEF FlightInv, Flying
    <3>4. HandleUpdated(x)
      <4>1. Head(outq).t = "updated" /\ Head(outq).r = x
        BY <3>1 DEF Updated
      <4> QED
        BY <1>2, <4>1 DEF HandleMessage
    <3> QED
      BY <1>1, <3>3, <3>4 DEF HandleUpdated
  <2> QED
    BY <2>1, <2>2, <2>3, <2>4 DEF OutMsg
<1>3. CASE Watchdog
  BY <1>3 DEF Watchdog
<1>4. CASE ~(HandleMessage \/ Watchdog)
  <2>1. UNCHANGED exited
    BY <1>4, NextCases, ReceiveCases
       DEF CallAction, Arrive, Gate, ReaderLock, Tokenize, Finish, Respond, Disconnect, BackgroundAbort, HealthEnds,
           RequestAction, Wake, NoticeDisconnect, AbortRequest, EngineStart, EngineToken,
           PauseGeneration, StartUpdate, WriterLock, UpdateDone, PauseTurn, ContinueGeneration, SigTerm, server
  <2> QED
    BY <1>1, <2>1
<1> QED
  BY <1>2, <1>3, <1>4

LEMMA KnownStep ==
    ASSUME FrontAssumption, Types, LockInv, FlightInv, SentInv, EndInv, TableInv, KnownInv, Next
    PROVE  KnownInv'
<1>0. /\ setup' = setup /\ outq \in Seq(OutMsg)
      /\ \A r \in Reqs : CallOf(r) \in Calls
      /\ \A m \in OutMsg : Ends(m) => m.r \in Reqs
      /\ \A c \in Calls : task'[c] = "new" => task[c] = "new"
      /\ \A r \in Reqs : eng[r].at = "end" => eng'[r].at = "end"
  BY SetupStays, NewOnce, EndStays DEF Types, CallOf, FrontAssumption, OutMsg, Ends
<1>m. /\ OverOnce(outq')
      /\ \/ \A m \in OutMsg : Has(outq', m) /\ Ends(m) => Has(outq, m)
         \/ /\ UNCHANGED <<setup, task, table, st>>
            /\ \A m \in OutMsg : Has(outq', m) /\ Ends(m) => Has(outq, m) \/ Fresh(m.r)
  BY OverStep DEF KnownInv
<1>x. exited' = "crashed" => ~OneUpdate'
  BY LoopGoesOn
<1> DEFINE ToldNext(r) == st'[r].outs # <<>> /\ Last(st'[r].outs).why # None
           AwaitedNext(r) == /\ CallOf(r) \notin setup.health /\ task'[CallOf(r)] # "new"
                             /\ r \in ToSet(setup.rids[CallOf(r)]) /\ eng'[r].at # "end"
<1>p. /\ \A r \in Reqs : Awaited(r)' <=> AwaitedNext(r)
      /\ \A r : Told(r)' <=> ToldNext(r)
      /\ \A m : (Has(outq, m)' <=> Has(outq', m)) /\ (Ends(m)' <=> Ends(m)) /\ CallOf(m.r)' = CallOf(m.r)
      /\ OverOnce(outq)' <=> OverOnce(outq')
  BY <1>0 DEF Awaited, Told, Has, Ends, CallOf, OverOnce, Last
<1>g. ASSUME \A r \in Reqs : AwaitedNext(r) => r \in table',
             \A m \in OutMsg : Has(outq', m) /\ Ends(m) =>
                 ~ToldNext(m.r) /\ (CallOf(m.r) \notin setup.health => m.r \in table')
      PROVE  KnownInv'
  BY <1>0, <1>m, <1>x, <1>g, <1>p DEF KnownInv
<1>w. ASSUME NEW r \in Reqs, AwaitedNext(r), task[CallOf(r)] # "new"
      PROVE  Awaited(r) /\ r \in table
  BY <1>0, <1>w DEF Awaited, KnownInv
<1> HIDE DEF ToldNext, AwaitedNext
<1>1. CASE UNCHANGED <<st, table>> /\ \A c \in Calls : task[c] = "new" => task'[c] = "new"
  <2>1. \A r \in Reqs : AwaitedNext(r) => r \in table'
    BY <1>0, <1>1, <1>w DEF AwaitedNext
  <2>2. ASSUME NEW m \in OutMsg, Has(outq', m), Ends(m)
        PROVE  ~ToldNext(m.r) /\ (CallOf(m.r) \notin setup.health => m.r \in table')
    <3>1. CASE Has(outq, m)
      BY <1>1, <2>2, <3>1 DEF KnownInv, Told, ToldNext
    <3>2. CASE Fresh(m.r)
      <4>1. ~Told(m.r)
        BY <1>0, <2>2, <3>2 DEF EndInv, Fresh, Told
      <4>2. CallOf(m.r) \notin setup.health => m.r \in table
        BY <1>0, <2>2, <3>2, SentAwaited DEF KnownInv
      <4> QED
        BY <1>1, <4>1, <4>2 DEF Told, ToldNext
    <3> QED
      BY <1>m, <2>2, <3>1, <3>2
  <2> QED
    BY <1>g, <2>1, <2>2
<1>2. ASSUME NEW c \in Calls, Arrive(c)
      PROVE  KnownInv'
  <2>1. /\ UNCHANGED <<st, outq>> /\ table' = table \cup ToSet(setup.rids[c])
        /\ \A d \in Calls \ {c} : task'[d] = task[d]
    BY <1>2 DEF Arrive, Types
  <2>2. \A r \in Reqs : AwaitedNext(r) => r \in table'
    BY <1>0, <2>1, <1>w DEF AwaitedNext
  <2>3. \A m \in OutMsg : Has(outq', m) /\ Ends(m) =>
            ~ToldNext(m.r) /\ (CallOf(m.r) \notin setup.health => m.r \in table')
    BY <2>1 DEF KnownInv, Told, ToldNext
  <2> QED
    BY <1>g, <2>2, <2>3
<1>3. ASSUME NEW c \in Calls, NEW ok \in BOOLEAN, HealthEnds(c, ok)
      PROVE  KnownInv'
  <2>1. /\ UNCHANGED <<st, outq>> /\ table' = table \ ToSet(setup.rids[c]) /\ c \in setup.health
        /\ \A d \in Calls : task[d] = "new" => task'[d] = "new"
    BY <1>3 DEF HealthEnds, Leave, Types
  <2>2. \A r \in ToSet(setup.rids[c]) : CallOf(r) = c
    BY DEF ToSet, CallOf, Types, FrontAssumption
  <2>3. \A r \in Reqs : AwaitedNext(r) => r \in table'
    BY <1>0, <2>1, <2>2, <1>w DEF AwaitedNext
  <2>4. \A m \in OutMsg : Has(outq', m) /\ Ends(m) =>
            ~ToldNext(m.r) /\ (CallOf(m.r) \notin setup.health => m.r \in table')
    BY <2>1, <2>2 DEF KnownInv, Told, ToldNext
  <2> QED
    BY <1>g, <2>3, <2>4
<1>4. ASSUME NEW r \in Reqs, Wake(r)
      PROVE  KnownInv'
  <2>1. /\ st[r].outs # <<>> /\ Last(st[r].outs).why \in Reasons \cup {None}
        /\ st'[r].outs = <<>> /\ \A q \in Reqs \ {r} : st'[q] = st[q]
        /\ table' = IF st[r].fin THEN table \ Drops(r) ELSE table
        /\ UNCHANGED <<outq, eng>>
        /\ UNCHANGED task \/ (Leave(CallOf(r), "failed") /\ task[CallOf(r)] = "serve")
    BY <1>4, WakeFacts DEF engine
  <2>2. \A d \in Calls : task[d] = "new" => task'[d] = "new"
    BY <1>0, <2>1 DEF Leave, Types
  <2>3. table' \subseteq table /\ \A q \in table \ table' : q = r /\ Told(r)
    BY <2>1 DEF Drops, Told, TableInv
  <2>4. Told(r) => eng[r].at = "end"
    BY DEF Told, EndInv
  <2>5. \A q \in Reqs : AwaitedNext(q) => q \in table'
    BY <1>0, <2>1, <2>2, <2>3, <2>4, <1>w DEF AwaitedNext
  <2>6. ASSUME NEW m \in OutMsg, Has(outq', m), Ends(m)
        PROVE  ~ToldNext(m.r) /\ (CallOf(m.r) \notin setup.health => m.r \in table')
    <3>1. m.r \in Reqs /\ ~Told(m.r) /\ (CallOf(m.r) \notin setup.health => m.r \in table)
      BY <1>0, <2>1, <2>6 DEF KnownInv
    <3>2. ~ToldNext(m.r)
      BY <2>1, <3>1 DEF Told, ToldNext
    <3> QED
      BY <2>3, <3>1, <3>2
  <2> QED
    BY <1>g, <2>5, <2>6
<1>5. CASE HandleMessage
  <2>0. /\ outq # <<>> /\ outq' = Tail(outq) /\ UNCHANGED <<task, eng>>
        /\ Has(outq, Head(outq)) /\ Head(outq) \in OutMsg
        /\ \A m : Has(outq', m) => Has(outq, m)
    <3>1. outq # <<>> /\ outq' = Tail(outq) /\ UNCHANGED <<task, eng>>
      BY <1>5, HandleCases DEF client, engine
    <3>2. Has(outq, Head(outq)) /\ Head(outq) \in OutMsg
      BY <1>0, <3>1, QueueTail
    <3>3. \A m : Has(outq', m) => Has(outq, m)
      BY <1>0, <3>1, QueueTail
    <3> QED
      BY <3>1, <3>2, <3>3
  <2>1. CASE UNCHANGED <<table, st>>
    BY <1>1, <2>0, <2>1
  <2>2. ASSUME NEW r \in Reqs, NEW why \in Reasons \cup {None}, Takes(r, why),
               Head(outq) = Out(r, 1, why) \/ Head(outq) = Aborted(r, why),
               \/ table' = IF why # None THEN table \ {r} ELSE table
               \/ UNCHANGED table
        PROVE  KnownInv'
    <3>1. why # None => Ends(Head(outq)) /\ Head(outq).r = r
      BY <2>2 DEF Out, Aborted, Ends
    <3>2. why # None => eng[r].at = "end"
      BY <2>0, <3>1 DEF EndInv
    <3>3. table' \subseteq table /\ \A q \in table \ table' : q = r /\ why # None
      BY <2>2
    <3>4. \A q \in Reqs : AwaitedNext(q) => q \in table'
      BY <1>0, <2>0, <3>2, <3>3, <1>w DEF AwaitedNext
    <3>5. ASSUME NEW m \in OutMsg, Has(outq', m), Ends(m)
          PROVE  ~ToldNext(m.r) /\ (CallOf(m.r) \notin setup.health => m.r \in table')
      <4>1. m.r \in Reqs /\ ~Told(m.r) /\ (CallOf(m.r) \notin setup.health => m.r \in table)
        BY <1>0, <2>0, <3>5 DEF KnownInv
      <4>2. why # None => m.r # r
        <5>1. OverOnce(outq)
          BY DEF KnownInv
        <5> QED
          BY <1>0, <2>0, <3>1, <3>5, <5>1, OverTail
      <4>3. ~ToldNext(m.r)
        BY <2>2, <4>1, <4>2 DEF Told, ToldNext, Takes
      <4> QED
        BY <3>3, <4>1, <4>2, <4>3
    <3> QED
      BY <1>g, <3>4, <3>5
  <2> QED
    BY <1>5, <2>1, <2>2, HandleCases DEF Reasons
<1>6. CASE ~(\/ HandleMessage
             \/ \E r \in Reqs : Wake(r)
             \/ \E c \in Calls : Arrive(c) \/ \E ok \in BOOLEAN : HealthEnds(c, ok))
  <2>1. UNCHANGED <<st, table>> /\ \A c \in Calls : task[c] = "new" => task'[c] = "new"
    <3>0. task \in [Calls -> Tasks] /\ setup.leaveAt \subseteq {"gate", "lock", "tokenize", "serve"}
      BY DEF Types, FrontAssumption
    <3>1. ASSUME NEW c \in Calls, CallAction(c)
          PROVE  /\ UNCHANGED <<st, table>> /\ task[c] # "new"
                 /\ \A d \in Calls \ {c} : task'[d] = task[d]
      BY <1>6, <3>0, <3>1
         DEF CallAction, Gate, ReaderLock, Tokenize, Finish, Respond, Disconnect, BackgroundAbort, Leave, client,
             front
    <3>2. ASSUME NEW r \in Reqs, RequestAction(r)
          PROVE  /\ UNCHANGED <<st, table>>
                 /\ \/ UNCHANGED task
                    \/ Leave(CallOf(r), "failed") /\ task[CallOf(r)] \in {"serve", "failed"}
      BY <1>6, <3>2 DEF RequestAction, NoticeDisconnect, AbortRequest, EngineStart, EngineToken, client, front
    <3>3. CASE ~((\E c \in Calls : CallAction(c)) \/ \E r \in Reqs : RequestAction(r))
      <4>1. UNCHANGED <<st, table, task>>
        BY <1>6, <3>3, NextCases, ReceiveCases
           DEF PauseGeneration, StartUpdate, WriterLock, UpdateDone, PauseTurn, ContinueGeneration, SigTerm,
               Watchdog, client, front
      <4> QED
        BY <4>1
    <3>4. ASSUME NEW r \in Reqs, RequestAction(r)
          PROVE  \A d \in Calls : task[d] = "new" => task'[d] = "new"
      BY <1>0, <3>0, <3>2, <3>4 DEF Leave
    <3> QED
      BY <3>1, <3>2, <3>3, <3>4
  <2> QED
    BY <1>1, <2>1
<1> QED
  BY <1>2, <1>3, <1>4, <1>5, <1>6

-----------------------------------------------------------------------------
(* Weights from disk.                                                      *)

Whole(r) == \A p \in Tensors : tensors[r][p] = op.path
Copied(r) == \A p \in loaded[r] : tensors[r][p] = op.path
UpdateTypes ==
    /\ tensors \in [TpRanks -> [Tensors -> Checkpoints]]
    /\ modelPath \in [TpRanks -> Checkpoints] /\ argsPath \in [TpRanks -> Checkpoints]
    /\ pc \in [TpRanks -> {"idle", "begin", "receive", "load", "roll", "dead"}]
    /\ loaded \in [TpRanks -> SUBSET Tensors]
    /\ answer \in [TpRanks -> {"none", "ok", "fail"}]
    /\ op.path \in Checkpoints /\ op.names \in SUBSET Tensors

(* A rank works with the path it took over; it is between requests with    *)
(* one checkpoint, also when the request failed.                           *)
DiskInv ==
    /\ UpdateTypes
    /\ op.kind \in {"none", "disk"} /\ op.names = Tensors
    /\ \A r \in TpRanks :
         /\ pc[r] # "receive"
         /\ pc[r] \in {"begin", "load", "roll"} => op.kind = "disk"
         /\ pc[r] = "begin" => loaded[r] = {}
         /\ pc[r] \in {"load", "roll"} => modelPath[r] = op.path /\ Copied(r)
         /\ pc[r] \in {"begin", "idle"} => \A p, q \in Tensors : tensors[r][p] = tensors[r][q]
         /\ pc[r] = "begin" \/ pc[r] = "load" => answer[r] = "none"
         /\ answer[r] = "ok" => pc[r] = "idle" /\ Whole(r) /\ modelPath[r] = op.path /\ argsPath[r] = op.path

LEMMA DiskInit ==
    ASSUME HomePath \in Checkpoints, Disk!Init
    PROVE  DiskInv
<1>1. /\ tensors = [r \in TpRanks |-> [p \in Tensors |-> HomePath]]
      /\ modelPath = [r \in TpRanks |-> HomePath] /\ argsPath = modelPath
      /\ pc = [r \in TpRanks |-> "idle"] /\ loaded = [r \in TpRanks |-> {}]
      /\ answer = [r \in TpRanks |-> "none"]
      /\ op.kind = "none" /\ op.path = HomePath /\ op.names = Tensors
  BY DEF Disk!Init
<1> QED
  BY <1>1 DEF DiskInv, UpdateTypes

(* One rank moves; the others keep what the invariant says of them.        *)
LEMMA DiskRankStep ==
    ASSUME DiskInv, NEW r \in TpRanks, Disk!Step(r)
    PROVE  DiskInv'
<1>0. /\ UpdateTypes /\ op.kind \in {"none", "disk"} /\ op.names = Tensors
  BY DEF DiskInv
<1>1. CASE Disk!DiskBegin(r)
  <2>1. /\ pc[r] = "begin" /\ op.kind = "disk"
        /\ modelPath' = [modelPath EXCEPT ![r] = op.path]
        /\ UNCHANGED <<tensors, argsPath, op, loaded>>
        /\ \/ pc' = [pc EXCEPT ![r] = "load"] /\ answer' = answer
           \/ pc' = [pc EXCEPT ![r] = "idle"] /\ answer' = [answer EXCEPT ![r] = "fail"]
    BY <1>1 DEF Disk!DiskBegin, Disk!Go, Disk!Answer
  <2>2. CASE pc' = [pc EXCEPT ![r] = "load"] /\ answer' = answer
    BY <1>0, <2>1, <2>2 DEF DiskInv, UpdateTypes, Whole, Copied
  <2>3. CASE pc' = [pc EXCEPT ![r] = "idle"] /\ answer' = [answer EXCEPT ![r] = "fail"]
    BY <1>0, <2>1, <2>3 DEF DiskInv, UpdateTypes, Whole, Copied
  <2> QED
    BY <2>1, <2>2, <2>3
<1>2. CASE Disk!DiskFails(r)
  BY <1>0, <1>2 DEF DiskInv, UpdateTypes, Disk!DiskFails, Disk!Go, Whole, Copied
<1>3. CASE Disk!RollFails(r)
  BY <1>0, <1>3 DEF DiskInv, UpdateTypes, Disk!RollFails, Disk!Go, Whole, Copied
<1>4. CASE Disk!RollDone(r)
  BY <1>0, <1>4 DEF DiskInv, UpdateTypes, Disk!RollDone, Disk!Go, Disk!Answer, Whole, Copied
<1>5. CASE Disk!DiskDone(r)
  BY <1>0, <1>5 DEF DiskInv, UpdateTypes, Disk!DiskDone, Disk!Go, Disk!Answer, Whole, Copied
<1>6. ASSUME NEW p \in Tensors, Disk!LoadParam(r, p)
      PROVE  DiskInv'
  <2>1. /\ pc[r] \in {"load", "roll"} /\ op.kind = "disk"
        /\ tensors' = [tensors EXCEPT ![r][p] = modelPath[r]]
        /\ loaded' = [loaded EXCEPT ![r] = @ \cup {p}]
        /\ UNCHANGED <<modelPath, argsPath, op, pc, answer>>
    BY <1>0, <1>6 DEF DiskInv, Disk!LoadParam, Disk!Copy
  <2>2. /\ tensors' \in [TpRanks -> [Tensors -> Checkpoints]]
        /\ \A q \in TpRanks \ {r} : tensors'[q] = tensors[q]
        /\ \A x \in Tensors : tensors'[r][x] = IF x = p THEN modelPath[r] ELSE tensors[r][x]
    BY <1>0, <2>1 DEF UpdateTypes
  <2>3. /\ loaded' \in [TpRanks -> SUBSET Tensors]
        /\ \A q \in TpRanks \ {r} : loaded'[q] = loaded[q]
        /\ loaded'[r] = loaded[r] \cup {p}
    BY <1>0, <2>1 DEF UpdateTypes
  <2>4. UpdateTypes'
    BY <1>0, <2>1, <2>2, <2>3 DEF UpdateTypes
  <2>5. Copied(r)'
    BY <1>0, <2>1, <2>2, <2>3 DEF DiskInv, Copied, UpdateTypes
  <2> QED
    BY <1>0, <2>1, <2>2, <2>3, <2>4, <2>5 DEF DiskInv, Whole, Copied
<1>7. op.kind \notin {"dist", "tensor", "ipc", "init", "destroy", "sinit", "send"}
  BY <1>0
<1> QED
  BY <1>1, <1>2, <1>3, <1>4, <1>5, <1>6, <1>7
     DEF Disk!Step, Disk!DistBegin, Disk!TensorBegin, Disk!SentFails, Disk!SentDone, Disk!MakeGroup,
         Disk!MakeSendGroup, Disk!DestroyGroup, Disk!SendWeights

LEMMA DiskStep ==
    ASSUME DiskInv, Disk!Next
    PROVE  DiskInv'
<1>1. CASE Disk!Request
  <2>1. /\ op' \in Disk!Requests /\ op'.kind = "disk" => op'.names = Tensors
        /\ \A r \in TpRanks : pc[r] = "idle"
        /\ pc' = [r \in TpRanks |-> "begin"] /\ loaded' = [r \in TpRanks |-> {}]
        /\ answer' = [r \in TpRanks |-> "none"] /\ UNCHANGED <<tensors, modelPath, argsPath>>
    BY <1>1 DEF Disk!Request
  <2>2. op'.kind = "disk" /\ op'.path \in Checkpoints /\ op'.names = Tensors
    BY <1>1, <2>1 DEF Disk!Requests, Disk!Request
  <2> QED
    BY <2>1, <2>2 DEF DiskInv, UpdateTypes, Whole, Copied
<1>2. CASE Disk!Broadcast
  BY <1>2 DEF DiskInv, Disk!Broadcast
<1>3. ASSUME NEW r \in TpRanks, Disk!Step(r)
      PROVE  DiskInv'
  BY <1>3, DiskRankStep
<1> QED
  BY <1>1, <1>2, <1>3 DEF Disk!Next

LEMMA DiskHolds ==
    ASSUME DiskInv
    PROVE  Disk!SuccessIsWhole /\ Disk!OneCheckpoint
<1>1. Disk!SuccessIsWhole
  BY DEF DiskInv, Disk!SuccessIsWhole, Whole
<1>2. Disk!OneCheckpoint
  BY DEF DiskInv, Disk!OneCheckpoint
<1> QED
  BY <1>1, <1>2

-----------------------------------------------------------------------------
(* Weights from a sender, and the groups they come over.                   *)

SentKinds == {"dist", "tensor", "ipc", "init", "destroy", "sinit", "send"}
UpdateInv ==
    /\ UpdateTypes /\ op.kind \in SentKinds \cup {"none"}
    /\ groups \in [TpRanks -> SUBSET UpdateGroups]
    /\ \A r \in TpRanks :
         /\ pc[r] \in {"receive", "load"} => op.kind \in {"dist", "tensor", "ipc"}
         /\ pc[r] \in {"begin", "receive", "load"} => answer[r] = "none"
         /\ pc[r] \in {"begin", "receive"} => loaded[r] = {}
         /\ pc[r] # "roll"
         /\ pc[r] = "load" => Copied(r)
         /\ answer[r] = "ok" =>
              /\ pc[r] = "idle"
              /\ op.kind \in {"dist", "tensor", "ipc"} => \A p \in op.names : tensors[r][p] = op.path
              /\ op.kind = "init" => op.group \in groups[r]
              /\ op.kind = "destroy" => op.group \notin groups[r]

LEMMA UpdateInit ==
    ASSUME HomePath \in Checkpoints, Sent!Init
    PROVE  UpdateInv
<1>1. /\ tensors = [r \in TpRanks |-> [p \in Tensors |-> HomePath]]
      /\ modelPath = [r \in TpRanks |-> HomePath] /\ argsPath = modelPath
      /\ pc = [r \in TpRanks |-> "idle"] /\ loaded = [r \in TpRanks |-> {}]
      /\ answer = [r \in TpRanks |-> "none"] /\ groups = [r \in TpRanks |-> {}]
      /\ op.kind = "none" /\ op.path = HomePath /\ op.names = Tensors
  BY DEF Sent!Init
<1> QED
  BY <1>1 DEF UpdateInv, UpdateTypes, SentKinds

LEMMA UpdateRankStep ==
    ASSUME UpdateInv, op.group \in UpdateGroups, NEW r \in TpRanks, Sent!Step(r)
    PROVE  UpdateInv'
<1>0. /\ UpdateTypes /\ op.kind \in SentKinds \cup {"none"}
  BY DEF UpdateInv
<1>1. CASE Sent!DistBegin(r) \/ Sent!TensorBegin(r)
  BY <1>0, <1>1 DEF UpdateInv, UpdateTypes, Sent!DistBegin, Sent!TensorBegin, Sent!Go, Copied
<1>e. ASSUME NEW where \in {"idle", "dead"}, NEW how \in {"none", "ok", "fail"}, NEW G \in SUBSET UpdateGroups,
             pc' = [pc EXCEPT ![r] = where], answer' = [answer EXCEPT ![r] = how],
             groups' = [groups EXCEPT ![r] = G],
             UNCHANGED <<tensors, modelPath, argsPath, loaded, op>>,
             how = "ok" => /\ where = "idle"
                           /\ op.kind \in {"dist", "tensor", "ipc"} => \A p \in op.names : tensors[r][p] = op.path
                           /\ op.kind = "init" => op.group \in G
                           /\ op.kind = "destroy" => op.group \notin G
      PROVE  UpdateInv'
  BY <1>0, <1>e DEF UpdateInv, UpdateTypes, Copied
<1>t. /\ groups[r] \in SUBSET UpdateGroups /\ groups = [groups EXCEPT ![r] = groups[r]]
      /\ answer[r] \in {"none", "ok", "fail"} /\ answer = [answer EXCEPT ![r] = answer[r]]
      /\ pc[r] \in {"begin", "receive", "load"} => answer[r] = "none"
  BY <1>0 DEF UpdateInv, UpdateTypes
<1>2. CASE Sent!SentFails(r)
  <2>1. /\ \/ pc' = [pc EXCEPT ![r] = "dead"] /\ answer' = answer
           \/ pc' = [pc EXCEPT ![r] = "idle"] /\ answer' = [answer EXCEPT ![r] = "fail"]
        /\ pc[r] = "load" /\ groups' = groups
        /\ UNCHANGED <<tensors, modelPath, argsPath, loaded, op>>
    BY <1>2 DEF Sent!SentFails, Sent!Go, Sent!Answer
  <2> QED
    BY <1>e, <1>t, <2>1
<1>3. CASE Sent!SentDone(r)
  BY <1>0, <1>3 DEF UpdateInv, UpdateTypes, Sent!SentDone, Sent!Go, Sent!Answer, Copied
<1>4. CASE Sent!MakeGroup(r)
  <2>1. /\ \/ answer' = [answer EXCEPT ![r] = "ok"] /\ groups' = [groups EXCEPT ![r] = groups[r] \cup {op.group}]
           \/ answer' = [answer EXCEPT ![r] = "fail"] /\ groups' = groups
        /\ pc' = [pc EXCEPT ![r] = "idle"] /\ op.kind = "init"
        /\ UNCHANGED <<tensors, modelPath, argsPath, loaded, op>>
    BY <1>4 DEF Sent!MakeGroup, Sent!Go, Sent!Answer
  <2>2. groups[r] \cup {op.group} \in SUBSET UpdateGroups
    BY <1>t
  <2> QED
    BY <1>e, <1>t, <2>1, <2>2
<1>5. CASE Sent!MakeSendGroup(r)
  <2>1. /\ \E how \in {"ok", "fail"} : answer' = [answer EXCEPT ![r] = how]
        /\ pc' = [pc EXCEPT ![r] = "idle"] /\ op.kind = "sinit" /\ groups' = groups
        /\ UNCHANGED <<tensors, modelPath, argsPath, loaded, op>>
    BY <1>5 DEF Sent!MakeSendGroup, Sent!Go, Sent!Answer
  <2> QED
    BY <1>e, <1>t, <2>1
<1>6. CASE Sent!DestroyGroup(r)
  <2>1. /\ answer' = [answer EXCEPT ![r] = "ok"] \/ answer' = [answer EXCEPT ![r] = "fail"]
        /\ groups' = [groups EXCEPT ![r] = groups[r] \ {op.group}]
        /\ pc' = [pc EXCEPT ![r] = "idle"] /\ op.kind = "destroy"
        /\ UNCHANGED <<tensors, modelPath, argsPath, loaded, op>>
    BY <1>6 DEF Sent!DestroyGroup, Sent!Go, Sent!Answer
  <2>2. groups[r] \ {op.group} \in SUBSET UpdateGroups
    BY <1>t
  <2> QED
    BY <1>e, <2>1, <2>2
<1>7. CASE Sent!SendWeights(r)
  <2>1. /\ \/ /\ answer' = [answer EXCEPT ![r] = "ok"] \/ answer' = [answer EXCEPT ![r] = "fail"]
              /\ pc' = [pc EXCEPT ![r] = "idle"]
           \/ pc' = [pc EXCEPT ![r] = "dead"] /\ answer' = answer
        /\ pc[r] = "begin" /\ op.kind = "send" /\ groups' = groups
        /\ UNCHANGED <<tensors, modelPath, argsPath, loaded, op>>
    BY <1>7 DEF Sent!SendWeights, Sent!Go, Sent!Answer
  <2> QED
    BY <1>e, <1>t, <2>1
<1>8. ASSUME NEW p \in Tensors, Sent!LoadParam(r, p)
      PROVE  UpdateInv'
  <2>1. /\ pc[r] = "load" /\ op.kind \in {"dist", "tensor", "ipc"}
        /\ tensors' = [tensors EXCEPT ![r][p] = op.path]
        /\ loaded' = [loaded EXCEPT ![r] = @ \cup {p}]
        /\ UNCHANGED <<modelPath, argsPath, groups, op, pc, answer>>
    BY <1>0, <1>8 DEF UpdateInv, Sent!LoadParam, Sent!Copy
  <2>2. /\ tensors' \in [TpRanks -> [Tensors -> Checkpoints]]
        /\ \A q \in TpRanks \ {r} : tensors'[q] = tensors[q]
        /\ \A x \in Tensors : tensors'[r][x] = IF x = p THEN op.path ELSE tensors[r][x]
    BY <1>0, <2>1 DEF UpdateTypes
  <2>3. /\ loaded' \in [TpRanks -> SUBSET Tensors]
        /\ \A q \in TpRanks \ {r} : loaded'[q] = loaded[q]
        /\ loaded'[r] = loaded[r] \cup {p}
    BY <1>0, <2>1 DEF UpdateTypes
  <2>4. UpdateTypes'
    BY <1>0, <2>1, <2>2, <2>3 DEF UpdateTypes
  <2>5. Copied(r)'
    BY <1>0, <2>1, <2>2, <2>3 DEF UpdateInv, Copied, UpdateTypes
  <2> QED
    BY <1>0, <2>1, <2>2, <2>3, <2>4, <2>5 DEF UpdateInv, Copied
<1>9. op.kind # "disk" /\ pc[r] # "roll"
  BY <1>0 DEF UpdateInv, SentKinds
<1> QED
  BY <1>1, <1>2, <1>3, <1>4, <1>5, <1>6, <1>7, <1>8, <1>9
     DEF Sent!Step, Sent!DiskBegin, Sent!DiskFails, Sent!RollFails, Sent!RollDone, Sent!DiskDone

LEMMA UpdateStays ==
    ASSUME UpdateInv, op.group \in UpdateGroups, Sent!Next
    PROVE  UpdateInv' /\ op'.group \in UpdateGroups
<1>1. CASE Sent!Request
  <2>1. /\ op' \in Sent!Requests
        /\ \A r \in TpRanks : pc[r] = "idle"
        /\ pc' = [r \in TpRanks |-> "begin"] /\ loaded' = [r \in TpRanks |-> {}]
        /\ answer' = [r \in TpRanks |-> "none"] /\ UNCHANGED <<tensors, modelPath, argsPath, groups>>
    BY <1>1 DEF Sent!Request
  <2>2. /\ op'.kind \in SentKinds /\ op'.path \in Checkpoints /\ op'.names \in SUBSET Tensors
        /\ op'.group \in UpdateGroups
    BY <2>1 DEF Sent!Requests, SentKinds
  <2> QED
    BY <2>1, <2>2 DEF UpdateInv, UpdateTypes, Copied
<1>2. CASE Sent!Broadcast
  BY <1>2 DEF UpdateInv, UpdateTypes, Sent!Broadcast, Copied
<1>3. ASSUME NEW r \in TpRanks, Sent!Step(r)
      PROVE  UpdateInv' /\ op'.group \in UpdateGroups
  <2>1. op' = op
    BY <1>3
       DEF Sent!Step, Sent!DiskBegin, Sent!DiskFails, Sent!RollFails, Sent!RollDone, Sent!DiskDone, Sent!DistBegin,
           Sent!TensorBegin, Sent!SentFails, Sent!SentDone, Sent!MakeGroup, Sent!MakeSendGroup, Sent!DestroyGroup,
           Sent!SendWeights, Sent!LoadParam
  <2> QED
    BY <1>3, <2>1, UpdateRankStep
<1> QED
  BY <1>1, <1>2, <1>3 DEF Sent!Next

LEMMA UpdateHolds ==
    ASSUME UpdateInv
    PROVE  Sent!SuccessIsWhole /\ Sent!GroupsAgree
<1>1. Sent!SuccessIsWhole
  BY DEF UpdateInv, Sent!SuccessIsWhole, Sent!Loads, SentKinds
<1>2. Sent!GroupsAgree
  BY DEF UpdateInv, Sent!GroupsAgree
<1> QED
  BY <1>1, <1>2

-----------------------------------------------------------------------------
(* All of it together.                                                     *)

FrontInv ==
    /\ Types /\ LockInv /\ FlightInv /\ SentInv /\ EndInv /\ TableInv
    /\ CallInv /\ VersionInv /\ PauseInv /\ ObeyInv /\ KnownInv

LEMMA FrontInit ==
    ASSUME FrontAssumption, Init
    PROVE  FrontInv
  BY TypesInit, LockInit, FlightInit, SentInit, EndInit, TableInit, CallInit, VersionInit, PauseInit, ObeyInit,
     KnownInit
     DEF FrontInv

LEMMA FrontNext ==
    ASSUME FrontAssumption, FrontInv, Next
    PROVE  FrontInv'
  BY TypesStep, LockStep, FlightStep, SentStep, EndStep, TableStep, CallStays, VersionStep, PauseStays, ObeyStep,
     KnownStep
     DEF FrontInv

LEMMA FrontStutters ==
    ASSUME FrontInv, UNCHANGED vars
    PROVE  FrontInv'
<1> USE DEF vars, client, front, lock, pause, update, engine, server
<1>1. Types'
  BY DEF FrontInv, Types, SentInOrder
<1>2. LockInv' /\ PauseInv'
  BY DEF FrontInv, LockInv, PauseInv
<1>3. FlightInv'
  BY DEF FrontInv, FlightInv, OneUpdate, Flying, Has, OnceIn, ResultIsOwn
<1>4. SentInv'
  BY DEF FrontInv, SentInv, Has, OnceIn, IsSent, CallOf
<1>5. EndInv' /\ TableInv'
  BY DEF FrontInv, EndInv, TableInv, Has, Ends, Last, CallOf, AnsweredForgotten
<1>6. CallInv' /\ VersionInv'
  BY DEF FrontInv, CallInv, VersionInv, CallOf
<1>7. ObeyInv' /\ KnownInv'
  BY DEF FrontInv, ObeyInv, KnownInv, Obeyed, OneUpdate, Has, Ends, Last, CallOf, Told, Awaited, OverOnce
<1> QED
  BY <1>1, <1>2, <1>3, <1>4, <1>5, <1>6, <1>7 DEF FrontInv

(* Weights of one version, while nothing passes the lock.                  *)
LEMMA VersionHolds ==
    ASSUME FrontAssumption, Types, VersionInv, setup.modes = {}
    PROVE  OneVersion
<1> SUFFICES ASSUME NEW r \in Reqs, task[CallOf(r)] \in {"serve", "reply", "done"}
             PROVE  Cardinality(ver[r]) <= 1
  BY DEF OneVersion
<1>1. ver[r] = {} \/ \E w : ver[r] = {w}
  BY DEF VersionInv, Off3
<1>2. CASE ver[r] = {}
  BY <1>2, FS_EmptySet
<1>3. CASE \E w : ver[r] = {w}
  <2>1. PICK w : ver[r] = {w}
    BY <1>3
  <2>2. Cardinality({w}) = 1
    BY FS_Singleton
  <2> QED
    BY <2>1, <2>2
<1> QED
  BY <1>1, <1>2, <1>3

PartsInv ==
    /\ FrontInv
    /\ part = "disk" => DiskInv
    /\ part = "sent" => UpdateInv /\ op.group \in UpdateGroups

LEMMA PartsInit ==
    ASSUME MCInit
    PROVE  PartsInv
<1>1. FrontAssumption /\ HomePath \in Checkpoints
  BY PartsAssumption DEF Disk!WeightsAssumption
<1>2. Init
  BY DEF MCInit, FrontOff
<1>3. part = "disk" => Disk!Init
  BY DEF MCInit
<1>4. part = "sent" => Sent!Init
  BY DEF MCInit
<1>5. Sent!Init => op.group \in UpdateGroups
  BY DEF Sent!Init
<1> QED
  BY <1>1, <1>2, <1>3, <1>4, <1>5, FrontInit, DiskInit, UpdateInit DEF PartsInv

LEMMA PartsStep ==
    ASSUME PartsInv, [MCNext]_MCVars
    PROVE  PartsInv'
<1>0. FrontAssumption
  BY PartsAssumption
<1>1. part' = part /\ (Next \/ UNCHANGED vars)
  BY DEF MCNext, MCVars
<1>2. FrontInv'
  BY <1>0, <1>1, FrontNext, FrontStutters DEF PartsInv
<1>3. /\ part = "disk" => Disk!Next \/ UNCHANGED weightVars
      /\ part = "sent" => Sent!Next \/ UNCHANGED weightVars
  BY DEF MCNext, MCVars, ChatNext, WeightsNext
<1>4. ASSUME DiskInv, UNCHANGED weightVars
      PROVE  DiskInv'
  BY <1>4 DEF DiskInv, UpdateTypes, Whole, Copied, weightVars
<1>5. ASSUME UpdateInv, op.group \in UpdateGroups, UNCHANGED weightVars
      PROVE  UpdateInv' /\ op'.group \in UpdateGroups
  BY <1>5 DEF UpdateInv, UpdateTypes, Copied, weightVars
<1>6. part = "disk" => DiskInv'
  BY <1>3, <1>4, DiskStep DEF PartsInv
<1>7. part = "sent" => UpdateInv' /\ op'.group \in UpdateGroups
  BY <1>3, <1>5, UpdateStays DEF PartsInv
<1> QED
  BY <1>1, <1>2, <1>6, <1>7 DEF PartsInv

(* pause_generation("abort") drains the front end: it returns when the     *)
(* lock has no reader, leaves no client waiting for what an engine that    *)
(* refuses nothing still works on, and handle_loop survives it             *)
(* (managers/tokenizer_manager.py).                                        *)
THEOREM PausesDrain == MCSpec => []Drains
<1>1. PartsInv => Drains
  <2>1. PartsInv => PauseDrains
    BY DEF PartsInv, FrontInv, PauseInv, PauseDrains
  <2>2. PartsInv /\ Obeyed => PauseQuiet
    BY PartsAssumption, QuietPause DEF PartsInv, FrontInv
  <2>3. PartsInv /\ OneUpdate => LoopAlive
    BY DEF PartsInv, FrontInv, KnownInv, LoopAlive
  <2> QED
    BY <2>1, <2>2, <2>3 DEF Drains
<1> QED
  BY <1>1, PartsInit, PartsStep, PTL DEF MCSpec

(* Weights change between answers and whole: an answer is made with one    *)
(* version, an update is told its own result, a rank that reports success  *)
(* serves the checkpoint it was asked for (update_weights_from_disk and    *)
(* its kin of managers/tokenizer_manager.py and model_runner.py).          *)
THEOREM WeightsAreWhole == MCSpec => []WeightsWhole
<1>1. PartsInv => WeightsWhole
  <2>1. PartsInv /\ setup.modes = {} => OneVersion
    BY PartsAssumption, VersionHolds DEF PartsInv, FrontInv
  <2>2. PartsInv => (OneUpdate => ResultIsOwn) /\ AnsweredForgotten
    BY DEF PartsInv, FrontInv, FlightInv, TableInv
  <2>3. PartsInv /\ part = "disk" => Disk!SuccessIsWhole /\ Disk!OneCheckpoint
    BY DiskHolds DEF PartsInv
  <2>4. PartsInv /\ part = "sent" => Sent!SuccessIsWhole /\ Sent!GroupsAgree
    BY UpdateHolds DEF PartsInv
  <2> QED
    BY <2>1, <2>2, <2>3, <2>4 DEF WeightsWhole
<1> QED
  BY <1>1, PartsInit, PartsStep, PTL DEF MCSpec

=============================================================================
