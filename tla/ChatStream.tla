------------------------------ MODULE ChatStream ------------------------------
(* The answer of a chat completion (serving_chat.py): the streamed chunks that *)
(* _generate_chat_stream makes of the cumulative outputs of the tokenizer       *)
(* manager, per choice, with reasoning and tool calls taken out of the text,    *)
(* and the answer _build_chat_response makes of the same outputs at once.       *)
(* Text is a sequence of pieces: "t" thought, "/" the end of thinking, "s" said, *)
(* "C" the name that opens a tool call, "a" a piece of its arguments.           *)
EXTENDS Naturals, Sequences, SequencesExt, FiniteSets

CONSTANTS
    Replies,                \* indices of the n choices
    Requests,               \* records [think, tools, required, logprobs, segments, usage, hidden]
    MaxText, MaxContents,   \* bounds: pieces and outputs per choice
    MaxNewTokens,           \* bound: tokens that arrive with one output
    None

ChatStreamAssumption ==
    /\ IsFiniteSet(Replies) /\ MaxText \in Nat /\ MaxContents \in Nat \ {0} /\ MaxNewTokens \in Nat \ {0}
    /\ \A q \in Requests :
         /\ DOMAIN q = {"think", "tools", "required", "logprobs", "segments", "usage", "hidden"}
         /\ q.required => q.tools

VARIABLES
    req,
    text, toks, fin,        \* per choice: text, tokens and finish reason the engine has produced
    contents,               \* per choice: outputs so far
    first,                  \* is_firsts
    buffer,                 \* stream_buffers: pieces taken so far
    prev,                   \* n_prev_tokens
    thinking,               \* the choice's reasoning parser has not seen the end of thinking
    calls,                  \* has_tool_calls
    held,                   \* argument pieces the choice's tool parser has seen and not given out
    finish,                 \* finish_reasons
    log,                    \* per choice: what its chunks held, in order
    lps,                    \* per choice: token logprobs sent, as <<token, token whose alternatives it shows>>
    stage,                  \* "stream", "extra", "finish", "done"; "cut": ended by an exception
    tail                    \* chunks that belong to no choice

vars == <<req, text, toks, fin, contents, first, buffer, prev, thinking, calls, held, finish, log, lps, stage, tail>>

\* Texts a model writes: thoughts, their end, what it says, then tool calls.
Follows(p, think, tools, required) ==
    CASE p \in {"t"} -> {"t", "/"}
      [] p \in {"/", "s"} -> (IF required THEN {} ELSE {"s"}) \cup (IF tools THEN {"C"} ELSE {})
      [] p \in {"C", "a"} -> {"a", "C"}
      [] p = "begin" -> IF think THEN {"t", "/"} ELSE (IF required THEN {} ELSE {"s"}) \cup (IF tools THEN {"C"} ELSE {})

Continued(s) ==
    LET p == IF s = <<>> THEN "begin" ELSE s[Len(s)]
    IN  {Append(s, u) : u \in Follows(p, req.think, req.tools, req.required)}

\* A reply that stops by itself has said something after thinking; a required call was made.
MayStop(s) ==
    /\ req.think => "/" \in ToSet(s)
    /\ req.required => "C" \in ToSet(s)

Init ==
    /\ req \in Requests
    /\ text = [i \in Replies |-> <<>>] /\ toks = [i \in Replies |-> 0] /\ fin = [i \in Replies |-> None]
    /\ contents = [i \in Replies |-> 0]
    /\ first = [i \in Replies |-> TRUE] /\ buffer = [i \in Replies |-> 0] /\ prev = [i \in Replies |-> 0]
    /\ thinking = [i \in Replies |-> req.think] /\ calls = [i \in Replies |-> FALSE] /\ held = [i \in Replies |-> 0]
    /\ finish = [i \in Replies |-> None] /\ log = [i \in Replies |-> <<>>] /\ lps = [i \in Replies |-> <<>>]
    /\ stage = "stream" /\ tail = <<>>

\* The next output for choice i: more text and tokens, or a flush of text held back; the text is whole
\* each time, or only the new segment.
Outputs(i) ==
    LET grown == {text[i]} \cup Continued(text[i]) \cup UNION {{Append(s, u) : u \in {"s", "a"} \cap ToSet(s)} : s \in Continued(text[i])}
        texts == {s \in grown : Len(s) <= MaxText}
    IN  {o \in [text : texts, new : 0 .. MaxNewTokens, fin : {None, "stop", "length"}] :
           /\ o.fin = None => o.new > 0 /\ contents[i] < MaxContents
           /\ o.fin = "stop" => MayStop(o.text)
           /\ contents[i] = 0 => o.new > 0}

Shown(i, o) == IF req.segments THEN SubSeq(o.text, Len(text[i]) + 1, Len(o.text)) ELSE o.text

\* What the buffer of the choice has not seen.
Delta(i, o) == SubSeq(Shown(i, o), buffer[i] + 1, Len(Shown(i, o)))

\* _process_reasoning_stream: the pieces up to the end of thinking, and the rest.
EndOfThought(s) == IF "/" \in ToSet(s) THEN CHOOSE k \in DOMAIN s : s[k] = "/" ELSE Len(s) + 1
Thought(i, d) == IF thinking[i] THEN SubSeq(d, 1, EndOfThought(d) - 1) ELSE <<>>
Spoken(i, d) == IF thinking[i] THEN SubSeq(d, EndOfThought(d) + 1, Len(d)) ELSE d

\* Arguments seen and not given out before the next call opens are given out then; of the last call's the
\* parser gives out all but the last n.
Given(i, s, n) == LET seen == [k \in 1 .. held[i] |-> "a"] \o s IN SubSeq(seen, 1, Len(seen) - n)

\* Argument pieces at the end of what the tool parser has seen.
Open(i, s) ==
    LET seen == [k \in 1 .. held[i] |-> "a"] \o s
    IN  {n \in 0 .. Len(seen) : \A k \in Len(seen) - n + 1 .. Len(seen) : seen[k] = "a"}

\* _check_for_unstreamed_tool_args: the rest of the last call's arguments.
Rest(n) == [k \in 1 .. n |-> "a"]

\* _process_tool_call_stream: its text, then its calls, then the rest when the output is the last one.
ToolChunks(i, s, n, last) == Given(i, s, n) \o (IF last THEN Rest(n) ELSE <<>>)

\* _process_logprobs_tokens while streaming: whatever the token, the alternatives at the head of the slice.
Alternatives(from, k) == from + 1

\* _process_streaming_logprobs: the tokens since prev.
NewLogprobs(i, total) == [k \in 1 .. total - prev[i] |-> <<prev[i] + k, Alternatives(prev[i], k)>>]

\* The chunk with the role opens the first output of the choice.
Role(i) == IF first[i] THEN <<"role">> ELSE <<>>

\* One output of choice i becomes chunks.
Content(i) ==
    /\ stage = "stream" /\ fin[i] = None
    /\ \E o \in Outputs(i) :
         LET d == Delta(i, o)
             said == Spoken(i, d)
             total == toks[i] + o.new
         IN  /\ text' = [text EXCEPT ![i] = o.text] /\ toks' = [toks EXCEPT ![i] = total]
             /\ fin' = [fin EXCEPT ![i] = o.fin] /\ contents' = [contents EXCEPT ![i] = @ + 1]
             /\ first' = [first EXCEPT ![i] = FALSE] /\ buffer' = [buffer EXCEPT ![i] = @ + Len(d)]
             /\ prev' = [prev EXCEPT ![i] = total]
             /\ finish' = [finish EXCEPT ![i] = o.fin]
             /\ thinking' = [thinking EXCEPT ![i] = @ /\ "/" \notin ToSet(d)]
             /\ \E n \in IF req.tools THEN Open(i, said) ELSE {0} :
                  /\ log' = [log EXCEPT ![i] = @ \o Role(i) \o Thought(i, d) \o
                               (IF req.tools THEN ToolChunks(i, said, n, o.fin # None) ELSE said)]
                  /\ held' = [held EXCEPT ![i] = n]
                  /\ calls' = [calls EXCEPT ![i] = @ \/ {"C", "a"} \cap ToSet(Given(i, said, n)) # {}]
             /\ lps' = IF req.logprobs /\ ~req.tools /\ said # <<>> /\ (prev[i] < total \/ o.fin = None)
                       THEN [lps EXCEPT ![i] = @ \o NewLogprobs(i, total)] ELSE lps
    /\ UNCHANGED <<req, stage, tail>>

\* Tool calls are the reason only of a choice that stopped by itself.
FinalReason(i) == IF calls[i] /\ finish[i] = "stop" THEN "tool_calls" ELSE finish[i]

\* When the engine has ended every choice, the finish chunks are sent.
FinishChunks ==
    /\ stage = "stream" /\ \A i \in Replies : fin[i] # None
    /\ log' = [i \in Replies |-> log[i] \o <<FinalReason(i)>>]
    /\ stage' = "extra"
    /\ UNCHANGED <<req, text, toks, fin, contents, first, buffer, prev, thinking, calls, held, finish, lps, tail>>

\* Hidden states, routed experts and usage follow.
Extra ==
    /\ stage = "extra"
    /\ tail' = tail \o (IF req.hidden THEN <<"hidden">> ELSE <<>>) \o (IF req.usage THEN <<"usage">> ELSE <<>>)
    /\ stage' = "finish"
    /\ UNCHANGED <<req, text, toks, fin, contents, first, buffer, prev, thinking, calls, held, finish, log, lps>>

\* generate_request raises ValueError.
Raise ==
    /\ stage = "stream" /\ \E i \in Replies : fin[i] = None
    /\ tail' = Append(tail, "error") /\ stage' = "finish"
    /\ UNCHANGED <<req, text, toks, fin, contents, first, buffer, prev, thinking, calls, held, finish, log, lps>>

\* generate_request raises an HTTPException, which nobody catches here.
Cut ==
    /\ stage = "stream" /\ \E i \in Replies : fin[i] = None
    /\ stage' = "cut"
    /\ UNCHANGED <<req, text, toks, fin, contents, first, buffer, prev, thinking, calls, held, finish, log, lps, tail>>

\* The end of the stream is marked.
Done ==
    /\ stage = "finish"
    /\ tail' = Append(tail, "[DONE]") /\ stage' = "done"
    /\ UNCHANGED <<req, text, toks, fin, contents, first, buffer, prev, thinking, calls, held, finish, log, lps>>

Next == (\E i \in Replies : Content(i)) \/ FinishChunks \/ Extra \/ Raise \/ Cut \/ Done

Spec == Init /\ [][Next]_vars
        /\ WF_vars(\E i \in Replies : Content(i)) /\ WF_vars(FinishChunks) /\ WF_vars(Extra) /\ WF_vars(Done)

Pieces(s) == SelectSeq(s, LAMBDA u : u \in {"t", "s", "C", "a"})

\* _process_tool_calls: a required call is one whatever the text; otherwise the parser finds one.
Called(s) == req.required \/ "C" \in ToSet(s)

\* _build_chat_response: reasoning, text, calls and finish reason of the whole output at once.
Built(i) ==
    LET s == text[i]
    IN  [pieces |-> Pieces(s), reason |-> IF req.tools /\ Called(s) /\ fin[i] = "stop" THEN "tool_calls" ELSE fin[i]]

Ended == stage \in {"extra", "finish", "done"} /\ "error" \notin ToSet(tail)

\* The chunks of a choice put together are the answer a request without streaming gets: every piece of
\* reasoning, text and tool call once and in order (a tool call that the length limit cuts off excepted,
\* which the two parsers may read differently), and the same finish reason.
StreamIsAnswer ==
    Ended => \A i \in Replies :
        /\ ("C" \in ToSet(text[i]) /\ fin[i] = "length") \/ Pieces(log[i]) = Built(i).pieces
        /\ log[i][Len(log[i])] = Built(i).reason

\* Each choice opens with its role, sent once, and its finish reason is sent once, behind everything else
\* of the choice, even when the outputs of the choices are interleaved.
RoleThenFinish ==
    \A i \in Replies : LET s == log[i] IN
        /\ s # <<>> => s[1] = "role"
        /\ \A k \in DOMAIN s : s[k] = "role" => k = 1
        /\ \A k \in DOMAIN s : s[k] \in {"stop", "length", "tool_calls"} => k = Len(s)

=============================================================================
