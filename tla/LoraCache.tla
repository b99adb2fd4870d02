----------------------------- MODULE LoraCache -----------------------------
(* _prepare_kt_composite_lora_adapter: a merged adapter is split once into an *)
(* expert and a non-expert directory under the temporary directory, and later *)
(* starts of the server find them there.  Four files are written one after    *)
(* the other, each opened (and emptied) before it is filled; a start can be   *)
(* killed between any two steps and another one follows.                      *)
EXTENDS Naturals, Sequences, FiniteSets

CONSTANTS
    MaxKills,           \* how many starts of the server are killed
    HasExperts,         \* the adapter has expert tensors
    HasOthers           \* the adapter has tensors outside the experts

LoraAssumption == MaxKills \in Nat /\ {HasExperts, HasOthers} \subseteq BOOLEAN

Weights == {"expert_weights", "nonexpert_weights"}
Configs == {"expert_config", "nonexpert_config"}
Files == Weights \cup Configs

\* The files as if each directory were completed in turn, configuration first.
ConfigsFirst == <<"expert_config", "nonexpert_config", "expert_weights", "nonexpert_weights">>

\* The files in the order the code writes them.
WriteOrder == <<"expert_weights", "nonexpert_weights", "expert_config", "nonexpert_config">>

VARIABLES
    disk,               \* per file: "absent", "opened" (empty or cut off) or "whole"
    pc,                 \* "classify", "look", "write", or how the start went on
    next,               \* index into WriteOrder
    kills

vars == <<disk, pc, next, kills>>

TypeOK == /\ disk \in [Files -> {"absent", "opened", "whole"}]
          /\ pc \in {"classify", "look", "write", "split", "ordinary", "refused"}
          /\ next \in 1 .. 5 /\ kills \in 0 .. MaxKills

Init == /\ disk = [f \in Files |-> "absent"]
        /\ pc = "classify" /\ next = 1 /\ kills = 0

\* Tensors are told apart by name: no experts is an ordinary adapter, only experts an error.
Classify == /\ pc = "classify"
            /\ pc' = IF ~HasExperts THEN "ordinary" ELSE IF ~HasOthers THEN "refused" ELSE "look"
            /\ UNCHANGED <<disk, next, kills>>

\* The cache counts as prepared when the four files exist.
Prepared(d) == \A f \in Files : d[f] # "absent"

Look == /\ pc = "look"
        /\ pc' = IF Prepared(disk) THEN "split" ELSE "write"
        /\ next' = 1
        /\ UNCHANGED <<disk, kills>>

OpenFile == /\ pc = "write" /\ next <= 4 /\ disk[WriteOrder[next]] # "opened"
            /\ disk' = [disk EXCEPT ![WriteOrder[next]] = "opened"]
            /\ UNCHANGED <<pc, next, kills>>

FillFile == /\ pc = "write" /\ next <= 4 /\ disk[WriteOrder[next]] = "opened"
            /\ disk' = [disk EXCEPT ![WriteOrder[next]] = "whole"]
            /\ next' = next + 1
            /\ UNCHANGED <<pc, kills>>

Done == /\ pc = "write" /\ next = 5
        /\ pc' = "split"
        /\ UNCHANGED <<disk, next, kills>>

\* The server is killed at any point and started again.
Killed == /\ kills < MaxKills /\ pc \notin {"refused"}
          /\ kills' = kills + 1 /\ pc' = "classify" /\ next' = 1
          /\ UNCHANGED disk

Start == Classify \/ Look \/ OpenFile \/ FillFile \/ Done
Next == Start \/ Killed
Spec == Init /\ [][Next]_vars /\ WF_vars(Start)

\* Safety: whatever start was killed when, the tensors of an adapter that is handed on are
\* complete: the configurations are written last, so four files mean two whole tensor files.
TensorsWhole == pc = "split" => \A f \in Weights : disk[f] = "whole"

\* What the last start comes to (<>[]Answered).
Answered == pc \in {"split", "ordinary", "refused"}
=============================================================================
