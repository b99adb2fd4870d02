---------------------------- MODULE WeightUpdate ----------------------------
(* Online weight updates of ModelRunner: from disk, over a process group, from *)
(* tensors, through the checkpoint engine, and the groups they need.  A        *)
(* request reaches every tensor-parallel rank; each works through it alone,    *)
(* parameter by parameter, meets the others only in collectives, and answers   *)
(* or dies of an exception nobody catches.                                     *)
EXTENDS Naturals, FiniteSets

CONSTANTS
    Ranks, Params, Paths,
    Groups,             \* names of process groups
    Home,               \* the checkpoint the server was started with
    MaxRequests,        \* bound: requests per behaviour
    Kinds               \* the kinds of request of the run

WeightsAssumption == Home \in Paths /\ MaxRequests \in Nat
                            /\ Kinds \subseteq {"disk", "dist", "tensor", "ipc", "init", "destroy", "sinit", "send"}

VARIABLES
    weights,            \* per rank and parameter: the checkpoint (or sender) its value is from
    modelPath, argsPath,\* per rank: model_config.model_path and server_args.model_path
    groups, sendGroups, \* per rank: _model_update_group and _weights_send_group
    op,                 \* the request being worked on, or the last one
    pc,                 \* per rank: "idle", where it is in the request, or "dead"
    loaded,             \* per rank: parameters copied so far
    answer,             \* per rank: "none", "ok" or "fail", for the last request
    before,             \* the weights when the request arrived
    asked               \* how many requests came

vars == <<weights, modelPath, argsPath, groups, sendGroups, op, pc, loaded, answer, before, asked>>

Requests == [kind : Kinds, path : Paths, names : {Params} \cup {{p} : p \in Params}, group : Groups]

Init ==
    /\ weights = [r \in Ranks |-> [p \in Params |-> Home]] /\ before = weights
    /\ modelPath = [r \in Ranks |-> Home] /\ argsPath = modelPath
    /\ groups = [r \in Ranks |-> {}] /\ sendGroups = [r \in Ranks |-> {}]
    /\ op \in {[kind |-> k, path |-> Home, names |-> Params, group |-> g] : k \in {"none"}, g \in Groups}
    /\ pc = [r \in Ranks |-> "idle"]
    /\ loaded = [r \in Ranks |-> {}] /\ answer = [r \in Ranks |-> "none"] /\ asked = 0

Go(r, where) == pc' = [pc EXCEPT ![r] = where]
Answer(r, a) == /\ answer' = [answer EXCEPT ![r] = a]
                /\ Go(r, "idle")
Idle == \A r \in Ranks : pc[r] \in {"idle", "dead"}
GroupOp == {"init", "destroy", "sinit", "send"}

\* A request is broadcast to the ranks when none is being worked on.
Request ==
    /\ asked < MaxRequests /\ \A r \in Ranks : pc[r] = "idle"
    /\ op' \in Requests
    /\ op'.kind = "disk" => op'.names = Params
    /\ op'.kind \in GroupOp => op'.path = Home /\ op'.names = Params
    /\ pc' = [r \in Ranks |-> "begin"]
    /\ loaded' = [r \in Ranks |-> {}] /\ answer' = [r \in Ranks |-> "none"]
    /\ before' = weights /\ asked' = asked + 1
    /\ UNCHANGED <<weights, modelPath, argsPath, groups, sendGroups>>

-----------------------------------------------------------------------------
(* update_weights_from_disk.                                                  *)

\* The path is taken over first; the loader or the weight iterator can fail, and then nothing
\* was touched but the path.
DiskBegin(r) ==
    /\ pc[r] = "begin" /\ op.kind = "disk"
    /\ modelPath' = [modelPath EXCEPT ![r] = op.path]
    /\ \/ Go(r, "load") /\ UNCHANGED answer
       \/ Answer(r, "fail")
    /\ UNCHANGED <<weights, argsPath, groups, sendGroups, op, loaded, before, asked>>

\* A parameter from the checkpoint the model configuration names, in place.
Copy(r, p) ==
    /\ p \in op.names \ loaded[r]
    /\ weights' = [weights EXCEPT ![r][p] = IF op.kind = "disk" THEN modelPath[r] ELSE op.path]
    /\ loaded' = [loaded EXCEPT ![r] = @ \cup {p}]

LoadParam(r, p) ==
    /\ pc[r] \in {"load", "roll"} /\ Copy(r, p)
    /\ UNCHANGED <<modelPath, argsPath, groups, sendGroups, op, pc, answer, before, asked>>

\* An exception while loading from disk: the weights are loaded again, through a new iterator.
DiskFails(r) ==
    /\ pc[r] = "load" /\ op.kind = "disk" /\ loaded[r] # op.names
    /\ Go(r, "roll")
    /\ loaded' = [loaded EXCEPT ![r] = {}]
    /\ UNCHANGED <<weights, modelPath, argsPath, groups, sendGroups, op, answer, before, asked>>

\* The second load is not protected.
RollFails(r) ==
    /\ pc[r] = "roll" /\ loaded[r] # op.names
    /\ Go(r, "dead")
    /\ UNCHANGED <<weights, modelPath, argsPath, groups, sendGroups, op, loaded, answer, before, asked>>

RollDone(r) ==
    /\ pc[r] = "roll" /\ loaded[r] = op.names
    /\ Answer(r, "fail")
    /\ UNCHANGED <<weights, modelPath, argsPath, groups, sendGroups, op, loaded, before, asked>>

DiskDone(r) ==
    /\ pc[r] = "load" /\ op.kind = "disk" /\ loaded[r] = op.names
    /\ argsPath' = [argsPath EXCEPT ![r] = op.path]
    /\ Answer(r, "ok")
    /\ UNCHANGED <<weights, modelPath, groups, sendGroups, op, loaded, before, asked>>

-----------------------------------------------------------------------------
(* Updates from a sender.                                                     *)

\* Over a process group: a rank without the group fails an assertion; the others post their
\* broadcasts and wait.
DistBegin(r) ==
    /\ pc[r] = "begin" /\ op.kind = "dist"
    /\ Go(r, IF op.group \in groups[r] THEN "receive" ELSE "dead")
    /\ UNCHANGED <<weights, modelPath, argsPath, groups, sendGroups, op, loaded, answer, before, asked>>

\* The broadcasts end when every rank of the group takes part, or with an error for all.
Broadcast ==
    /\ op.kind = "dist" /\ \A r \in Ranks : pc[r] = "receive"
    /\ \/ pc' = [r \in Ranks |-> "load"] /\ UNCHANGED answer
       \/ pc' = [r \in Ranks |-> "idle"] /\ answer' = [r \in Ranks |-> "fail"]
    /\ UNCHANGED <<weights, modelPath, argsPath, groups, sendGroups, op, loaded, before, asked>>

\* From tensors or through the checkpoint engine nothing is waited for.
TensorBegin(r) ==
    /\ pc[r] = "begin" /\ op.kind \in {"tensor", "ipc"}
    /\ Go(r, "load")
    /\ UNCHANGED <<weights, modelPath, argsPath, groups, sendGroups, op, loaded, answer, before, asked>>

\* An exception while loading: answered, but for plain tensors, where nobody catches it.
SentFails(r) ==
    /\ pc[r] = "load" /\ op.kind \in {"dist", "tensor", "ipc"} /\ loaded[r] # op.names
    /\ IF op.kind = "tensor" THEN Go(r, "dead") /\ UNCHANGED answer ELSE Answer(r, "fail")
    /\ UNCHANGED <<weights, modelPath, argsPath, groups, sendGroups, op, loaded, before, asked>>

SentDone(r) ==
    /\ pc[r] = "load" /\ op.kind \in {"dist", "tensor", "ipc"} /\ loaded[r] = op.names
    /\ Answer(r, "ok")
    /\ UNCHANGED <<weights, modelPath, argsPath, groups, sendGroups, op, loaded, before, asked>>

-----------------------------------------------------------------------------
(* The process groups.                                                        *)

\* Creating a group succeeds or fails on each rank.
MakeGroup(r) ==
    /\ pc[r] = "begin" /\ op.kind = "init"
    /\ \/ Answer(r, "ok") /\ groups' = [groups EXCEPT ![r] = @ \cup {op.group}]
       \/ Answer(r, "fail") /\ UNCHANGED groups
    /\ UNCHANGED <<weights, modelPath, argsPath, sendGroups, op, loaded, before, asked>>

\* The send group is entered before its barrier, which can still fail.
MakeSendGroup(r) ==
    /\ pc[r] = "begin" /\ op.kind = "sinit"
    /\ \/ /\ Answer(r, "ok") \/ Answer(r, "fail")
          /\ sendGroups' = [sendGroups EXCEPT ![r] = @ \cup {op.group}]
       \/ Answer(r, "fail") /\ UNCHANGED sendGroups
    /\ UNCHANGED <<weights, modelPath, argsPath, groups, op, loaded, before, asked>>

\* A group that is not there is an answer; one that cannot be destroyed is gone all the same.
DestroyGroup(r) ==
    /\ pc[r] = "begin" /\ op.kind = "destroy"
    /\ \/ op.group \in groups[r] /\ Answer(r, "ok")
       \/ Answer(r, "fail")
    /\ groups' = [groups EXCEPT ![r] = @ \ {op.group}]
    /\ UNCHANGED <<weights, modelPath, argsPath, sendGroups, op, loaded, before, asked>>

\* Sending looks the group up before it asks whether it is there.
SendWeights(r) ==
    /\ pc[r] = "begin" /\ op.kind = "send"
    /\ IF op.group \in sendGroups[r]
       THEN /\ sendGroups' = [sendGroups EXCEPT ![r] = @ \ {op.group}]
            /\ Answer(r, "ok") \/ Answer(r, "fail")
       ELSE Go(r, "dead") /\ UNCHANGED <<sendGroups, answer>>
    /\ UNCHANGED <<weights, modelPath, argsPath, groups, op, loaded, before, asked>>

Step(r) == \/ DiskBegin(r) \/ DiskFails(r) \/ RollFails(r) \/ RollDone(r) \/ DiskDone(r)
           \/ DistBegin(r) \/ TensorBegin(r) \/ SentFails(r) \/ SentDone(r)
           \/ MakeGroup(r) \/ MakeSendGroup(r) \/ DestroyGroup(r) \/ SendWeights(r)
           \/ \E p \in Params : LoadParam(r, p)

Next == Request \/ Broadcast \/ \E r \in Ranks : Step(r)

Spec == Init /\ [][Next]_vars /\ \A r \in Ranks : WF_vars(Step(r)) /\ WF_vars(Broadcast)

Loads == {"disk", "dist", "tensor", "ipc"}

\* Safety: a rank that answers an update with success has every parameter of the request from
\* where the request said, and a later restart from server_args would load the same checkpoint.
SuccessIsWhole == \A r \in Ranks : (answer[r] = "ok" /\ op.kind \in Loads) =>
    /\ \A p \in op.names : weights[r][p] = op.path
    /\ op.kind = "disk" => modelPath[r] = op.path /\ argsPath[r] = op.path

\* Safety: whatever failed, a rank that is between requests and was only ever updated from disk
\* serves one checkpoint, never a mixture of two.
OneCheckpoint == Kinds = {"disk"} =>
    \A r \in Ranks : pc[r] = "idle" => \A p, q \in Params : weights[r][p] = weights[r][q]

\* Safety: the groups of the ranks differ only after some rank reported a failure or died.
GroupsAgree == (op.kind \in {"init", "destroy"} /\ \A r \in Ranks : answer[r] = "ok") =>
    \A r, q \in Ranks : op.group \in groups[r] <=> op.group \in groups[q]

\* Liveness: every rank answers an update from disk, or dies of it.
Answered == \A r \in Ranks : [](pc[r] = "begin" /\ op.kind \in {"disk", "tensor", "ipc"} => <>(pc[r] \in {"idle", "dead"}))

=============================================================================
