---------------------------- MODULE WeightStream ----------------------------
(***************************************************************************)
(* The pipeline write(e+1) || copy(e) that streams a list of experts out   *)
(* of the CPU store into the scratch layer of every rank: the loops of     *)
(* _prepare_weight_fp8 (which the W4AFP8 path runs too) and                *)
(* _prepare_weight_int4.                                                   *)
(*                                                                         *)
(* Rank 0 submits writes to the CPU backend; a write fills one half of the *)
(* double buffer of every rank.  Every rank launches its copies on a CUDA  *)
(* stream of its own, which executes them in order, at any later time.     *)
(* The only meeting point in the loop is the barrier of each expert.       *)
(*                                                                         *)
(* An expert is its position in the list.  What a buffer or a scratch slot *)
(* holds is tagged with the load it belongs to (a parity), so that bytes   *)
(* left over from the previous load are told apart.                        *)
(***************************************************************************)
EXTENDS Naturals

CONSTANTS
    World,     \* tensor-parallel world size
    MaxLen,    \* bound on the number of experts of one load
    Idle       \* no write is in progress

ASSUME StreamAssumption ==
    /\ World \in Nat \ {0}
    /\ MaxLen \in Nat \ {0}
    /\ Idle \notin Nat

Rank == 0 .. World - 1
Half == {0, 1}

VARIABLES
    load,      \* parity of the running load
    len,       \* len(cpu_expert_ids) of the running load
    pc,        \* pc[r]: where the thread of rank r is
    write,     \* position the CPU backend is writing, or Idle
    buf,       \* buf[r][h]: half h of rank r's shared staging buffer
    launched,  \* launched[r]: copies rank r has put on its copy stream
    copied,    \* copied[r]: copies its stream has executed (events)
    dest       \* dest[r][i]: what the i-th copy of rank r moved

streamVars == <<load, len, pc, write, buf, launched, copied, dest>>

Bytes == [load : {0, 1}, pos : 0 .. MaxLen - 1, whole : BOOLEAN]
Whole(i) == [load |-> load, pos |-> i, whole |-> TRUE]
Partial(i) == [load |-> load, pos |-> i, whole |-> FALSE]

StreamTypeOK ==
    /\ load \in {0, 1}
    /\ len \in 1 .. MaxLen
    /\ pc \in [Rank -> {"start", "sync", "reuse", "barrier", "copy", "drain"}]
    /\ write \in (0 .. MaxLen - 1) \cup {Idle}
    /\ buf \in [Rank -> [Half -> Bytes]]
    /\ launched \in [Rank -> 0 .. MaxLen]
    /\ copied \in [Rank -> 0 .. MaxLen]
    /\ dest \in [Rank -> [0 .. MaxLen - 1 -> Bytes]]

----------------------------------------------------------------------------

(* The buffers start with the leftovers of an earlier load.                *)
StreamInit ==
    /\ load = 0
    /\ len \in 1 .. MaxLen
    /\ pc = [r \in Rank |-> "start"]
    /\ write = Idle
    /\ buf = [r \in Rank |-> [h \in Half |-> [load |-> 1, pos |-> 0, whole |-> TRUE]]]
    /\ launched = [r \in Rank |-> 0]
    /\ copied = [r \in Rank |-> 0]
    /\ dest = [r \in Rank |-> [i \in 0 .. MaxLen - 1 |->
                  [load |-> 1, pos |-> 0, whole |-> TRUE]]]

(* Faulty variant: every write goes to the first half.                     *)
SubmitWriteSingle(i) ==
    /\ write' = i
    /\ buf' = [r \in Rank |-> [buf[r] EXCEPT ![0] = Partial(i)]]

(* submit_write_expert: from now on the backend overwrites that half in    *)
(* the buffers of all ranks.                                               *)
SubmitWrite(i) ==
    /\ write' = i
    /\ buf' = [r \in Rank |-> [buf[r] EXCEPT ![i % 2] = Partial(i)]]

(* Rank 0 submits the first write ahead of the loop; the other ranks enter *)
(* the loop and go straight to its barrier.                                *)
Start(r) ==
    /\ pc[r] = "start"
    /\ IF r = 0 THEN SubmitWrite(0) ELSE UNCHANGED <<write, buf>>
    /\ pc' = [pc EXCEPT ![r] = IF r = 0 THEN "sync" ELSE "barrier"]
    /\ UNCHANGED <<load, len, launched, copied, dest>>

(* The CPU backend completes a write.                                      *)
WriteDone ==
    /\ write # Idle
    /\ buf' = [r \in Rank |-> [buf[r] EXCEPT ![write % 2] = Whole(write)]]
    /\ write' = Idle
    /\ UNCHANGED <<load, len, pc, launched, copied, dest>>

(* sync_write_weight_scale_to_buffer: the pending write has completed.     *)
Sync ==
    /\ pc[0] = "sync" /\ write = Idle
    /\ pc' = [pc EXCEPT ![0] = "reuse"]
    /\ UNCHANGED <<load, len, write, buf, launched, copied, dest>>

(* Rank 0 waits for the event of its own copy from the half it is about to *)
(* reuse, and submits the next write.                                      *)
HalfFree(i) == i > 0 => copied[0] >= i

Reuse ==
    /\ pc[0] = "reuse"
    /\ LET i == launched[0]
       IN  IF i + 1 < len
           THEN HalfFree(i) /\ SubmitWrite(i + 1)
           ELSE UNCHANGED <<write, buf>>
    /\ pc' = [pc EXCEPT ![0] = "barrier"]
    /\ UNCHANGED <<load, len, launched, copied, dest>>

(* dist.barrier: nobody leaves before everybody has arrived.               *)
Barrier ==
    /\ \A r \in Rank : pc[r] = "barrier"
    /\ pc' = [r \in Rank |-> "copy"]
    /\ UNCHANGED <<load, len, write, buf, launched, copied, dest>>

(* Rank r puts the copy of its current expert on its stream.               *)
Launch(r) ==
    /\ pc[r] = "copy"
    /\ launched' = [launched EXCEPT ![r] = @ + 1]
    /\ pc' = [pc EXCEPT ![r] =
                 IF launched[r] + 1 = len THEN "drain"
                 ELSE IF r = 0 THEN "sync" ELSE "barrier"]
    /\ UNCHANGED <<load, len, write, buf, copied, dest>>

(* The stream executes the oldest copy: it moves what the half holds now.  *)
Copy(r) ==
    /\ copied[r] < launched[r]
    /\ LET i == copied[r]
       IN  dest' = [dest EXCEPT ![r][i] = buf[r][i % 2]]
    /\ copied' = [copied EXCEPT ![r] = @ + 1]
    /\ UNCHANGED <<load, len, pc, write, buf, launched>>

(* load() returns on a rank after torch.cuda.synchronize, and the next     *)
(* load of any rank comes after a collective of the tick or the forward.   *)
NextLoad ==
    /\ \A r \in Rank : pc[r] = "drain" /\ copied[r] = len
    /\ load' = 1 - load
    /\ len' \in 1 .. MaxLen
    /\ pc' = [r \in Rank |-> "start"]
    /\ launched' = [r \in Rank |-> 0]
    /\ copied' = [r \in Rank |-> 0]
    /\ UNCHANGED <<write, buf, dest>>

StreamNext ==
    \/ WriteDone \/ Sync \/ Reuse \/ Barrier \/ NextLoad
    \/ \E r \in Rank : Start(r) \/ Launch(r) \/ Copy(r)

StreamSpec == StreamInit /\ [][StreamNext]_streamVars

----------------------------------------------------------------------------
(* Properties.                                                             *)

(* Every copy of a load moves the whole weights of its own expert.         *)
CopiesIntact ==
    \A r \in Rank : \A i \in 0 .. copied[r] - 1 : dest[r][i] = Whole(i)

(* A load of at most two experts, such as the narrow load of a tier tick   *)
(* that swaps KT_TIER_MAX_PROMOTE = 2 experts, reuses no half and is       *)
(* intact on every rank (_prepare_weight_w4afp8 with only_experts).        *)
ShortCopiesIntact == len <= 2 => CopiesIntact

(* Loads of any length are intact on rank 0, whose copy events guard the   *)
(* reuse of a half.                                                        *)
LeadCopiesIntact ==
    \A i \in 0 .. copied[0] - 1 : dest[0][i] = Whole(i)

(* No rank copies an expert before its write is complete: a copy never     *)
(* moves the bytes of an earlier expert or of an earlier load, nor those   *)
(* of its own expert half written (the barrier after the sync).            *)
NeverTooEarly ==
    \A r \in Rank : \A i \in 0 .. copied[r] - 1 :
        LET b == dest[r][i]
        IN  /\ b.load = load
            /\ b.pos >= i
            /\ b.pos = i => b.whole

(* What the pipeline may count on although only rank 0 waits for its own   *)
(* copy events: rank 0 is intact at any length, every rank is in a load of *)
(* at most two experts, and no rank copies too early.                      *)
StreamIntact == LeadCopiesIntact /\ ShortCopiesIntact /\ NeverTooEarly

=============================================================================
