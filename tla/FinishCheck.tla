----------------------------- MODULE FinishCheck -----------------------------
(* When a request ends and which of its tokens are delivered: check_finished  *)
(* and its parts, the incremental detokenisation and the stop-string tail of  *)
(* class Req (schedule_batch.py), driven by decode passes that append one      *)
(* token or, with speculative decoding, a group of accepted ones.              *)
EXTENDS Naturals, Sequences, SequencesExt, FiniteSets

CONSTANTS
    Tokens, Eos, Bad,       \* Eos ends a request; Bad is an id outside the vocabulary
    Text,                   \* token -> the characters it decodes to
    StopStr,                \* a stop string, as characters; <<>> for none
    StopMaxLen,             \* stop_str_max_len: tokens of its encoding
    MaxNew,                 \* max_new_tokens
    MaxGroup,               \* tokens accepted in one pass, at most
    MaxRetractions,         \* bound
    None

FinishCheckAssumption ==
    /\ {Eos, Bad} \subseteq Tokens /\ MaxNew \in Nat \ {0} /\ MaxGroup \in Nat \ {0} /\ MaxRetractions \in Nat
    /\ StopMaxLen \in Nat /\ StopMaxLen <= Len(StopStr)

VARIABLES
    ids,                    \* output_ids
    reason,                 \* finished_reason, or None
    len,                    \* finished_len, or None
    toFinish,               \* to_finish is set
    grammar,                \* the grammar has reached its end
    decode,                 \* the new part of surr_and_decode_ids: what the detokenizer was given
    cur,                    \* cur_decode_ids_len
    done,                   \* the last output was sent
    retractions

vars == <<ids, reason, len, toFinish, grammar, decode, cur, done, retractions>>

Init ==
    /\ ids = <<>> /\ reason = None /\ len = None /\ toFinish = FALSE /\ grammar = FALSE
    /\ decode = <<>> /\ cur = 0 /\ done = FALSE /\ retractions = 0

Groups == UNION {[1 .. n -> Tokens] : n \in 1 .. MaxGroup}

Decoded(s) == FlattenSeq([i \in DOMAIN s |-> Text[s[i]]])
Last_(s, n) == SubSeq(s, Len(s) - n + 1, Len(s))
Occurs(w, s) == \E i \in 0 .. Len(s) - Len(w) : SubSeq(s, i + 1, i + Len(w)) = w
Least(a, b) == IF a < b THEN a ELSE b

\* tail_str.
TailStr(s) == Decoded(Last_(s, Least(StopMaxLen + 1, Len(s))))

\* check_match_stop_str_prefix: the stop string is there, or may have begun at the end of the tail.
MatchesStopPrefix(s) ==
    /\ StopStr # <<>>
    /\ \/ Occurs(StopStr, TailStr(s))
       \/ \E i \in 1 .. Least(Len(TailStr(s)), Len(StopStr)) : Last_(TailStr(s), i) = SubSeq(StopStr, 1, i)

\* Position of the first token of the last n that is in a set; 0 for none.
FirstOf(s, n, set) == LET hits == {i \in Len(s) - n + 1 .. Len(s) : s[i] \in set}
                      IN  IF hits = {} THEN 0 ELSE CHOOSE i \in hits : \A j \in hits : i <= j

\* _check_token_based_finish, _check_vocab_boundary_finish.
EosAt(s, n) == FirstOf(s, n, {Eos})
BadAt(s, n) == FirstOf(s, n, {Bad})

\* finished_len of a request that reached its limit.
StopLen(s) == MaxNew

Verdict(r, k, s) == reason' = r /\ len' = k /\ ids' = s

\* check_finished of the output s whose last n tokens are new.
CheckFinished(s, n) ==
    IF reason # None THEN Verdict(reason, len, s) /\ toFinish' = toFinish
    ELSE IF toFinish THEN Verdict("abort", len, s) /\ toFinish' = FALSE
    ELSE /\ toFinish' = FALSE
         /\ CASE Len(s) >= MaxNew -> Verdict("length", StopLen(s), s)
              [] Len(s) < MaxNew /\ grammar' -> Verdict("grammar", len, s)
              [] Len(s) < MaxNew /\ ~grammar' /\ EosAt(s, n) > 0 -> Verdict("token", EosAt(s, n), s)
              [] Len(s) < MaxNew /\ ~grammar' /\ EosAt(s, n) = 0 /\ BadAt(s, n) > 0 ->
                   Verdict("nan", BadAt(s, n), [s EXCEPT ![BadAt(s, n)] = Eos])
              [] OTHER -> IF StopStr # <<>> /\ Occurs(StopStr, TailStr(s)) THEN Verdict("string", len, s) ELSE Verdict(None, len, s)

\* A decode pass: the accepted tokens are appended, then the request is checked.
Decode(g) ==
    /\ reason = None
    /\ grammar' \in BOOLEAN
    /\ CheckFinished(ids \o g, Len(g))
    /\ UNCHANGED <<decode, cur, done, retractions>>

\* abort_request and the running timeout.
Abort ==
    /\ reason = None /\ ~toFinish
    /\ toFinish' = TRUE
    /\ UNCHANGED <<ids, reason, len, grammar, decode, cur, done, retractions>>

\* reset_for_retract: the output so far is kept and becomes input.
Retract ==
    /\ reason = None /\ ids # <<>> /\ retractions < MaxRetractions
    /\ retractions' = retractions + 1
    /\ UNCHANGED <<ids, reason, len, toFinish, grammar, decode, cur, done>>

\* output_ids_through_stop.
ThroughStop == IF len # None THEN SubSeq(ids, 1, Least(len, Len(ids))) ELSE ids

\* The offset stays where the last call left it.
DetokenizeAgain ==
    /\ decode' = decode \o SubSeq(ThroughStop, cur + 1, Len(ThroughStop))
    /\ cur' = cur

\* init_incremental_detokenize: the tokens that are new since the last call.
Detokenize ==
    /\ decode' = decode \o SubSeq(ThroughStop, cur + 1, Len(ThroughStop))
    /\ cur' = Len(ThroughStop)

\* An output is streamed unless a stop string may have begun, and always at the end.
Stream ==
    /\ reason = None /\ ids # <<>> /\ ~MatchesStopPrefix(ids)
    /\ Detokenize
    /\ UNCHANGED <<ids, reason, len, toFinish, grammar, done, retractions>>

LastOutput ==
    /\ reason # None /\ ~done
    /\ Detokenize
    /\ done' = TRUE
    /\ UNCHANGED <<ids, reason, len, toFinish, grammar, retractions>>

Next == (\E g \in Groups : Decode(g)) \/ Abort \/ Retract \/ Stream \/ LastOutput

Spec == Init /\ [][Next]_vars /\ WF_vars(\E g \in Groups : Decode(g)) /\ WF_vars(LastOutput)

TypeOK ==
    /\ ids \in Seq(Tokens) /\ decode \in Seq(Tokens) /\ cur \in Nat
    /\ reason \in {None, "abort", "length", "grammar", "token", "nan", "string"}
    /\ len \in {None} \cup 1 .. MaxNew

\* When the last output was sent, the detokenizer was given exactly the tokens through the stop, each
\* once and in order, whatever was streamed, held back or retracted before.
DeliveredThroughStop == done => decode = ThroughStop

\* A request that ended by itself delivers no token after the first one that stops it, and never more
\* than max_new_tokens; nothing outside the vocabulary is delivered by a request that ended on it.
EndsAtFirstStop ==
    reason \in {"token", "nan"} =>
        /\ \A i \in DOMAIN ThroughStop : i < Len(ThroughStop) => ThroughStop[i] # Eos
        /\ Len(ThroughStop) <= MaxNew /\ ThroughStop[Len(ThroughStop)] = Eos

\* No text is streamed that turns out to be the beginning of the stop string: what was given to the
\* detokenizer before the request ended on the string stays in front of its first occurrence.
NoStopTextStreamed ==
    reason = "string" /\ ~done =>
        \A i \in 0 .. Len(Decoded(ids)) - Len(StopStr) :
            SubSeq(Decoded(ids), i + 1, i + Len(StopStr)) = StopStr => Len(Decoded(decode)) <= i

\* A stop string is noticed in the pass that completes it (and not after a later one).
StopStringSeen == reason = None /\ ~toFinish /\ StopStr # <<>> => ~Occurs(StopStr, Decoded(ids))

=============================================================================
