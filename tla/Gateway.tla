------------------------------ MODULE Gateway ------------------------------
(***************************************************************************)
(* One HTTP request at the API gateway: authentication and validation, the *)
(* answer of the control plane client turned into a status, and for        *)
(* stream = true the body that StreamEngine produces from the chunks of a  *)
(* backend.                                                                *)
(*                                                                         *)
(* Requests share nothing inside the gateway, so one is enough.  What the  *)
(* control plane and the scheduler make of it is a choice here (RequestPath*)
(* models it); a queue timeout may overwrite its state at any time.  A     *)
(* response body suspends at every yield, where the client may be gone for *)
(* good.                                                                   *)
(***************************************************************************)
EXTENDS RequestStates, Integers, Sequences, FiniteSets, FiniteSetsExt, SequencesExt

CONSTANTS
  DefaultMaxTokens,  \* settings.default_max_tokens
  MaxOutputTokens,   \* ModelRecord.max_output_tokens
  MaxPromptTokens,   \* ModelRecord.max_prompt_tokens
  TokenLimits,       \* max_tokens a body may carry, 0 for none
  PromptLengths,     \* total lengths of the messages
  MaxChunks,         \* bound: chunks with text a backend sends
  MaxTime            \* bound: clock

ASSUME LimitsAssumption ==
  /\ {DefaultMaxTokens, MaxOutputTokens, MaxPromptTokens} \subseteq Nat \ {0}
  /\ TokenLimits \subseteq Nat /\ PromptLengths \subseteq Nat
ASSUME BoundsAssumption == MaxChunks \in Nat /\ MaxTime \in Nat

VARIABLES
  settings,  \* client: which control plane client; keys: api_keys is set
  input,     \* the HTTP request
  pc,        \* where its handling stands
  entry,     \* state of the registry entry, "none" without one
  reason,    \* failure_reason of the entry
  waiting,   \* the entry is in the waiting queue
  answer,    \* status and content of the response
  record,    \* the captured execution record
  upstream,  \* the backend's generator: chunks with text so far, and its end
  chunk,     \* the chunk that is being delivered
  session,   \* StreamSession: state, token_count, token_timestamps
  metrics,   \* entry.stream_metrics
  sent,      \* what the body has sent
  counts,    \* stream metrics of the request
  now

entryVars == <<entry, reason, waiting>>
streamVars == <<upstream, chunk, session, metrics, sent, counts>>
vars == <<settings, input, pc, entryVars, answer, record, streamVars, now>>

-----------------------------------------------------------------------------
(***************************************************************************)
(* Requests and their validation.                                          *)
(***************************************************************************)
Bodies == {"oversize", "empty", "no_text", "no_json", "no_object", "object"}

\* Settings: full_path_integrated, control_plane_integrated, api_keys.
Settings == [client : {"platform", "control_plane", "stub"}, keys : BOOLEAN]

\* supported, wellFormed: check_unsupported_fields, the pydantic schemas.
Inputs ==
  [endpoint : {"chat", "completions"}, auth : {"missing", "unknown", "known"},
   body : Bodies, supported : BOOLEAN, wellFormed : BOOLEAN, stream : BOOLEAN,
   knownModel : BOOLEAN, max_tokens : TokenLimits, prompt : PromptLengths]

ValidateApiKey(i) == i.auth = "known" \/ (i.auth = "unknown" /\ ~settings.keys)

ParseJsonBody(i) == i.body = "object"

\* Faulty variant: the default is not capped by the model's limit.
EffectiveMaxTokensUncapped(i) ==
  IF i.max_tokens # 0 THEN i.max_tokens ELSE DefaultMaxTokens

\* build_inference_request: max_tokens, or a default within the model's limit.
EffectiveMaxTokens(i) ==
  IF i.max_tokens # 0 THEN i.max_tokens ELSE Min({DefaultMaxTokens, MaxOutputTokens})

\* _prepare_chat_request: the checks in their order, each with its status.
Checks(i) ==
  << [ok |-> ValidateApiKey(i), status |-> 401],
     [ok |-> ParseJsonBody(i), status |-> IF i.body = "no_text" THEN 500 ELSE 400],
     [ok |-> i.supported, status |-> 400],
     [ok |-> i.wellFormed, status |-> 400],
     [ok |-> i.knownModel, status |-> 404],
     [ok |-> EffectiveMaxTokens(i) <= MaxOutputTokens, status |-> 400],
     [ok |-> i.prompt <= MaxPromptTokens, status |-> 400] >>

Failed(i) == {k \in DOMAIN Checks(i) : ~Checks(i)[k].ok}

\* _request_wants_stream reads the body before any check; it takes every body
\* for text and every JSON value for an object.
WantsStreamRaises(i) == i.endpoint = "chat" /\ i.body \in {"no_text", "no_object"}

Prepared(i) == ~WantsStreamRaises(i) /\ Failed(i) = {}

Refusal(i) == IF WantsStreamRaises(i) THEN 500 ELSE Checks(i)[Min(Failed(i))].status

\* The chat endpoint streams on the embedded stack; nothing else does.
Streams(i) == i.endpoint = "chat" /\ i.stream /\ settings.client = "platform"

NoAnswer == [status |-> 0, content |-> "none"]
Error(status) == [status |-> status, content |-> "error"]

-----------------------------------------------------------------------------
(***************************************************************************)
(* Handling.                                                               *)
(***************************************************************************)
NoRecord == [state |-> "none", stream |-> "none", tokens |-> 0]

\* capture_from_entry with the entry's state s and its stream metrics m.
Captured(s, m) == record' = [state |-> s, stream |-> m.state, tokens |-> m.tokens]

Answers(a) == answer' = a /\ pc' = "answered"

Receive(i) ==
  /\ pc = "arrival"
  /\ input' = i
  /\ IF ~Prepared(i) THEN Answers(Error(Refusal(i)))
     ELSE IF i.stream /\ ~Streams(i) THEN Answers(Error(501))
     ELSE pc' = "accepting" /\ UNCHANGED answer
  /\ UNCHANGED <<settings, entryVars, record, streamVars, now>>

\* What process_through_queued can come to: a state and its reason.  An
\* admission check that refuses leaves the reason of a full queue, too.
QueuedOutcomes ==
  {<<"queued", "none">>, <<"rejected", "queue_full">>, <<"failed", "internal_error">>}

\* execute_full_path; a request that was skipped is returned QUEUED.
PathOutcomes ==
  QueuedOutcomes \cup {<<"completed", "none">>, <<"failed", "adapter_error">>}

\* _raise_admission_error, _raise_execution_error / _raise_internal_error, or
\* the state the client takes for success.  No rejection has another reason
\* than QUEUE_FULL, so the 400 is never sent.
StatusOf(s, why, success) ==
  CASE s = "rejected" -> IF why = "queue_full" THEN 429 ELSE 400
    [] s = "failed" -> IF settings.client = "platform" THEN 502 ELSE 500
    [] s = success -> 200
    [] OTHER -> 500

\* Whatever was queued is still in the waiting queue.
Enters(s, why) ==
  /\ entry' = s /\ reason' = why
  /\ waiting' \in IF s = "rejected" THEN {FALSE}
                 ELSE IF why = "internal_error" THEN BOOLEAN ELSE {TRUE}

\* placeholder_chat_response gives the generated text, the legacy response
\* never does.
ContentOf(status, generated) ==
  IF status # 200 THEN "error"
  ELSE IF input.endpoint = "chat" /\ generated THEN "generated" ELSE "placeholder"

\* Without an embedded stack: the control plane only, or no control plane.
AcceptWithoutStack ==
  /\ pc = "accepting" /\ settings.client # "platform"
  /\ \/ /\ settings.client = "control_plane"
        /\ \E o \in QueuedOutcomes :
             LET status == StatusOf(o[1], o[2], "queued")
             IN /\ Enters(o[1], o[2])
                /\ Answers([status |-> status, content |-> ContentOf(status, FALSE)])
     \/ /\ settings.client = "stub"
        /\ Answers(Error(503))
        /\ UNCHANGED entryVars
  /\ UNCHANGED <<settings, input, record, streamVars, now>>

\* The full path: the record is captured before the state becomes a status.
AcceptFullPath ==
  /\ pc = "accepting" /\ settings.client = "platform" /\ ~input.stream
  /\ \E o \in PathOutcomes, generated \in BOOLEAN :
       LET status == StatusOf(o[1], o[2], "completed")
       IN /\ Enters(o[1], o[2])
          /\ Captured(o[1], metrics)
          /\ Answers([status |-> status, content |-> ContentOf(status, generated)])
  /\ UNCHANGED <<settings, input, streamVars, now>>

\* Faulty variant: a failed capture does not disturb the answer.
CaptureRaisesIgnored ==
  /\ pc = "accepting" /\ settings.client = "platform" /\ ~input.stream
  /\ \E o \in PathOutcomes :
       LET status == StatusOf(o[1], o[2], "completed")
       IN /\ Enters(o[1], o[2])
          /\ Answers([status |-> status, content |-> ContentOf(status, TRUE)])
  /\ UNCHANGED <<settings, input, record, streamVars, now>>

\* The capture raises: whatever happened, the answer is 500.
CaptureRaises ==
  /\ pc = "accepting" /\ settings.client = "platform" /\ ~input.stream
  /\ \E o \in PathOutcomes : Enters(o[1], o[2])
  /\ Answers(Error(500))
  /\ UNCHANGED <<settings, input, record, streamVars, now>>

\* The path raises, with or without an execution plane: the registry is full,
\* or a timeout forbids a transition of the full path.
PathRaises ==
  /\ pc = "accepting" /\ settings.client # "stub"
  /\ \/ UNCHANGED entryVars
     \/ /\ settings.client = "platform" /\ ~input.stream
        /\ entry' = "timed_out" /\ reason' = "queue_timeout" /\ waiting' = FALSE
  /\ Answers(Error(500))
  /\ UNCHANGED <<settings, input, record, streamVars, now>>

\* accept_request for a stream: QUEUED is answered with 200 and a body.
AcceptStream ==
  /\ pc = "accepting" /\ settings.client = "platform" /\ input.stream
  /\ \E o \in QueuedOutcomes :
       LET status == StatusOf(o[1], o[2], "queued")
       IN /\ Enters(o[1], o[2])
          /\ IF status = 200
             THEN answer' = [status |-> 200, content |-> "stream"] /\ pc' = "opened"
             ELSE Answers(Error(status))
  /\ UNCHANGED <<settings, input, record, streamVars, now>>

\* process_timeouts of another request, whatever became of this one.
QueueTimeout ==
  /\ waiting
  /\ waiting' = FALSE
  /\ entry' = "timed_out" /\ reason' = "queue_timeout"
  /\ UNCHANGED <<settings, input, pc, answer, record, streamVars, now>>

-----------------------------------------------------------------------------
(***************************************************************************)
(* Timing of a stream.                                                     *)
(***************************************************************************)

\* inter_token_latencies_ms.
InterTokenLatencies(times) == [k \in 1..(Len(times) - 1) |-> times[k + 1] - times[k]]

\* sorted() is stable: equal values stay in their order.
NotAbove(values, j, i) == values[j] < values[i] \/ (values[j] = values[i] /\ j <= i)

\* Every value stands at the place of its rank.
Ordered(values) ==
  LET rank == [i \in DOMAIN values |-> Cardinality({j \in DOMAIN values : NotAbove(values, j, i)})]
  IN [k \in DOMAIN values |-> values[CHOOSE i \in DOMAIN values : rank[i] = k]]

\* Faulty variant: halves are rounded up.
PercentileIndexHalfUp(pct, n) == (pct * (n - 1) + 50) \div 100

\* round() of pct/100 * (n - 1), halves to the even neighbour.
PercentileIndex(pct, n) ==
  LET q == pct * (n - 1)
      below == q \div 100
      rest == q % 100
  IN IF rest < 50 \/ (rest = 50 /\ below % 2 = 0) THEN below ELSE below + 1

\* percentile: -1 stands for None.
Percentile(values, pct) ==
  IF values = <<>> THEN -1 ELSE Ordered(values)[PercentileIndex(pct, Len(values)) + 1]

NoMetrics == [state |-> "none", tokens |-> 0, itl |-> <<>>, p50 |-> -1, p99 |-> -1]

\* StreamResult.from_session and StreamingMetricsRecord, for session s.
MetricsOf(s) ==
  LET itl == InterTokenLatencies(s.times)
  IN [state |-> s.state, tokens |-> s.tokens, itl |-> itl,
      p50 |-> Percentile(itl, 50), p99 |-> Percentile(itl, 99)]

-----------------------------------------------------------------------------
(***************************************************************************)
(* The backend's generator (VLLMBackend.stream_request; the mock's chunks  *)
(* are among its) and the body that StreamEngine.stream_sse makes of it.   *)
(***************************************************************************)

Chunk(text, finish, first) == [text |-> text, finish |-> finish, first |-> first, at |-> now]

\* The next chunk and the generator after it: events with neither text nor
\* finish reason are passed over, a finish reason ends the generator.
UpstreamChunks ==
  {<<Chunk(text, finish, text /\ upstream.index = 0),
     [index |-> upstream.index + (IF text THEN 1 ELSE 0), end |-> IF finish THEN "over" ELSE "open"]>> :
     text \in IF upstream.index < MaxChunks THEN BOOLEAN ELSE {FALSE}, finish \in BOOLEAN}

\* After its end, a generator without text sends one more chunk.
LastChunk == <<Chunk(FALSE, TRUE, TRUE), [upstream EXCEPT !.end = "dry"]>>

NextChunks ==
  IF upstream.end = "open" THEN {c \in UpstreamChunks : c[1].text \/ c[1].finish}
  ELSE IF upstream.end = "over" /\ upstream.index = 0 THEN {LastChunk} ELSE {}

Counted(what) == counts' = [counts EXCEPT ![what] = @ + 1]

Says(items) == sent' = sent \o items

\* An exception inside stream_sse; at the first yield of its handler.
StreamFails(n) ==
  /\ session' = [session EXCEPT !.state = "stream_failed"]
  /\ counts' = [n EXCEPT !["failed"] = @ + 1]
  /\ Says(<<"error">>)
  /\ pc' = "error_sent"

OpenBody ==
  /\ pc = "opened"
  /\ Counted("created")
  /\ pc' = "starting"
  /\ UNCHANGED <<settings, input, entryVars, answer, record, upstream, chunk, session,
                 metrics, sent, now>>

\* execute_streaming_path up to the first chunk: cycle, placement, dispatch.
StartStream ==
  /\ pc = "starting" /\ entry = "queued"
  /\ \/ entry' = "streaming" /\ pc' = "pulling" /\ UNCHANGED <<reason, session, sent, counts>>
     \/ entry' = "failed" /\ reason' \in {"adapter_error", "internal_error"} /\ StreamFails(counts)
  /\ UNCHANGED <<settings, input, waiting, answer, record, upstream, chunk, metrics, now>>

StartRefused ==
  /\ pc = "starting" /\ entry # "queued"
  /\ StreamFails(counts)
  /\ UNCHANGED <<settings, input, entryVars, answer, record, upstream, chunk, metrics, now>>

\* [DONE] or the end of the connection, with or without a finish reason.
UpstreamEnds ==
  /\ pc = "pulling" /\ upstream.end = "open"
  /\ upstream' = [upstream EXCEPT !.end = "over"]
  /\ UNCHANGED <<settings, input, pc, entryVars, answer, record, chunk, session, metrics,
                 sent, counts, now>>

Deliver ==
  /\ pc = "pulling"
  /\ \E c \in NextChunks : chunk' = c[1] /\ upstream' = c[2] /\ Says(<<IF c[1].text THEN "text" ELSE "tail">>)
  /\ pc' = "yielded"
  /\ UNCHANGED <<settings, input, entryVars, answer, record, session, metrics, counts, now>>

\* Faulty variant: every chunk counts as a token.
TokensOfAnyChunk(c) == 1

TokensOf(c) == IF c.text THEN 1 ELSE 0

\* What stream_sse does with a chunk after the client has taken it.
Account ==
  /\ pc = "yielded"
  /\ LET first == chunk.first \/ (chunk.text /\ session.tokens = 0)
         bump(key, yes) == counts[key] + (IF yes THEN 1 ELSE 0)
     IN /\ session' =
             [state |-> IF chunk.finish THEN "stream_completed"
                        ELSE IF first THEN "stream_active" ELSE session.state,
              tokens |-> session.tokens + TokensOf(chunk),
              times |-> IF first \/ chunk.text THEN Append(session.times, chunk.at) ELSE session.times]
        /\ counts' = [counts EXCEPT !["ttft"] = bump("ttft", first),
                                    !["itl"] = bump("itl", ~first /\ chunk.text),
                                    !["completed"] = bump("completed", chunk.finish)]
  /\ pc' = "pulling"
  /\ UNCHANGED <<settings, input, entryVars, answer, record, upstream, chunk, metrics, sent, now>>

\* The generator is exhausted: the slot is released and the request completed.
EndOfStream ==
  /\ pc = "pulling" /\ upstream.end # "open" /\ NextChunks = {}
  /\ IF entry = "streaming"
     THEN /\ entry' = "completed"
          /\ Says(<<"done">>)
          /\ pc' = "done_sent"
          /\ UNCHANGED <<session, counts>>
     ELSE StreamFails(counts) /\ UNCHANGED entry
  /\ UNCHANGED <<settings, input, reason, waiting, answer, record, upstream, chunk, metrics, now>>

BackendError ==
  /\ pc = "pulling" /\ upstream.end = "open"
  /\ StreamFails(counts)
  /\ UNCHANGED <<settings, input, entryVars, answer, record, upstream, chunk, metrics, now>>

\* _handle_cancel: a chunk arrives and the client is gone.
CancelledEntry == IF entry = "streaming" THEN "cancelled" ELSE entry

Cancel ==
  /\ pc = "pulling" /\ NextChunks # {}
  /\ \E c \in NextChunks : upstream' = c[2]
  /\ entry' = CancelledEntry
  /\ LET s == [session EXCEPT !.state = "stream_cancelled"]
     IN /\ metrics' = MetricsOf(s)
        /\ \/ /\ session' = s
              /\ Captured(CancelledEntry, MetricsOf(s))
              /\ Counted("cancelled")
              /\ pc' = "closed"
              /\ UNCHANGED sent
           \/ /\ StreamFails([counts EXCEPT !["cancelled"] = @ + 1])
              /\ UNCHANGED record
  /\ UNCHANGED <<settings, input, reason, waiting, answer, chunk, now>>

\* _persist_stream_result, after [DONE].
PersistResult ==
  /\ pc = "done_sent"
  /\ metrics' = MetricsOf(session)
  /\ \/ Captured(entry, MetricsOf(session)) /\ pc' = "closed" /\ UNCHANGED <<session, sent, counts>>
     \/ StreamFails(counts) /\ UNCHANGED record
  /\ UNCHANGED <<settings, input, entryVars, answer, upstream, chunk, now>>

\* Faulty variant: the body ends after the error.
EndErrorWithoutDone ==
  /\ pc = "error_sent"
  /\ pc' = "error_done"
  /\ UNCHANGED <<settings, input, entryVars, answer, record, streamVars, now>>

EndError ==
  /\ pc = "error_sent"
  /\ Says(<<"done">>)
  /\ pc' = "error_done"
  /\ UNCHANGED <<settings, input, entryVars, answer, record, upstream, chunk, session,
                 metrics, counts, now>>

\* Faulty variant: a completed request is left alone, too.
UnsettledUnlessCompleted == entry \notin {"failed", "cancelled", "completed"}

\* _persist_stream_failure marks the request FAILED unless it is settled.
Unsettled == entry \notin {"failed", "cancelled"}

PersistFailure ==
  /\ pc = "error_done"
  /\ entry' = IF Unsettled THEN "failed" ELSE entry
  /\ reason' = IF Unsettled THEN "adapter_error" ELSE reason
  /\ \/ Captured(IF Unsettled THEN "failed" ELSE entry, metrics) /\ pc' = "closed"
     \/ pc' = "broken" /\ UNCHANGED record
  /\ UNCHANGED <<settings, input, waiting, answer, streamVars, now>>

\* The server drops the body where it waits; no handler sees it.
Abandon ==
  /\ pc \in {"opened", "pulling", "yielded", "done_sent", "error_sent", "error_done"}
  /\ pc' = "abandoned"
  /\ UNCHANGED <<settings, input, entryVars, answer, record, streamVars, now>>

Tick ==
  /\ pc = "pulling" /\ now < MaxTime
  /\ now' = now + 1
  /\ UNCHANGED <<settings, input, pc, entryVars, answer, record, streamVars>>

-----------------------------------------------------------------------------
Init ==
  /\ settings \in Settings
  /\ input = "none"
  /\ pc = "arrival"
  /\ entry = "none" /\ reason = "none" /\ waiting = FALSE
  /\ answer = NoAnswer
  /\ record = NoRecord
  /\ upstream = [index |-> 0, end |-> "open"]
  /\ chunk = [text |-> FALSE, finish |-> FALSE, first |-> FALSE, at |-> 0]
  /\ session = [state |-> "stream_created", tokens |-> 0, times |-> <<>>]
  /\ metrics = NoMetrics
  /\ sent = <<>>
  /\ counts = [k \in {"created", "completed", "failed", "cancelled", "ttft", "itl"} |-> 0]
  /\ now = 0

Next ==
  \/ \E i \in Inputs : Receive(i)
  \/ AcceptWithoutStack \/ AcceptFullPath \/ CaptureRaises \/ PathRaises \/ AcceptStream
  \/ QueueTimeout
  \/ OpenBody \/ StartStream \/ StartRefused
  \/ UpstreamEnds \/ Deliver \/ Account \/ EndOfStream \/ BackendError \/ Cancel
  \/ PersistResult \/ EndError \/ PersistFailure
  \/ Abandon \/ Tick

Spec == Init /\ [][Next]_vars

-----------------------------------------------------------------------------
(***************************************************************************)
(* Properties.                                                             *)
(***************************************************************************)

\* Type correctness.
TypeOK ==
  /\ settings \in Settings
  /\ pc # "arrival" => input \in Inputs
  /\ pc \in {"arrival", "accepting", "answered", "opened", "starting", "pulling", "yielded",
             "done_sent", "error_sent", "error_done", "closed", "broken", "abandoned"}
  /\ entry \in RequestState \cup {"none"}
  /\ reason \in {"none", "queue_full", "internal_error", "adapter_error", "queue_timeout"}
  /\ waiting \in BOOLEAN
  /\ answer.status \in {0, 200, 400, 401, 404, 429, 500, 501, 502, 503}
  /\ upstream \in [index : 0..MaxChunks, end : {"open", "over", "dry"}]
  /\ session.tokens \in 0..MaxChunks
  /\ now \in 0..MaxTime

\* What the validation is for, without its order.
Valid(i) ==
  /\ i.auth = "known" \/ (i.auth = "unknown" /\ ~settings.keys)
  /\ i.body = "object" /\ i.supported /\ i.wellFormed /\ i.knownModel
  /\ i.max_tokens <= MaxOutputTokens /\ i.prompt <= MaxPromptTokens

\* The control plane only ever sees valid requests; an invalid one is answered
\* at once and as an error.  A client is told that its request was bad only if
\* it was: neither the default for max_tokens nor an admission check that
\* refuses is ever blamed on it.
ValidationExact ==
  pc # "arrival" =>
    /\ entry # "none" => Valid(input)
    /\ ~Valid(input) => pc = "answered" /\ answer.status \in {400, 401, 404, 500}
    /\ answer.status \in {400, 401, 404} => ~Valid(input)

\* On the embedded stack the status tells what the record tells: 200 for a
\* captured completion, 502 for a captured failure, 429 for a captured
\* rejection.  Behind any client, 429 is the answer of a request that is and
\* stays REJECTED as for a full queue; that an admission check refused it, with
\* the queue as empty as it may be, neither the status nor the reason tells.
AnswerTellsOutcome ==
  /\ pc = "answered" /\ settings.client = "platform" /\ ~input.stream =>
       /\ answer.status = 200 <=> record.state = "completed"
       /\ answer.status = 502 <=> record.state = "failed"
       /\ answer.status = 429 <=> record.state = "rejected"
  /\ answer.status = 429 => entry = "rejected" /\ reason = "queue_full"

\* A body that StreamEngine finished ends with [DONE], unless the stream was
\* cancelled; then it has sent neither an error nor [DONE].
BodyEndsWithDone ==
  pc = "closed" =>
    IF session.state = "stream_cancelled" THEN Range(sent) \cap {"done", "error"} = {}
    ELSE Last(sent) = "done"

\* What the client has seen agrees with what is kept: after an error the
\* request is FAILED or CANCELLED, never COMPLETED, although the error may
\* follow a completion; without one the record is that of a completion that
\* at most a queue timeout has overwritten.
ClientAndRecordAgree ==
  pc = "closed" /\ sent # <<>> /\ Last(sent) = "done" =>
    IF "error" \in Range(sent)
    THEN record.state \in {"failed", "cancelled"} /\ entry # "completed"
    ELSE record.state \in {"completed", "timed_out"} /\ record.tokens = session.tokens

Texts == Cardinality({k \in DOMAIN sent : sent[k] = "text"})

\* Tokens, first-token and inter-token samples are those of the chunks the
\* client has taken: one TTFT, and one latency between neighbours.  A stream
\* without text has one timestamp and no token.
TokensAccounted ==
  /\ TypeOK
  /\ pc \notin {"yielded", "abandoned"} =>
       /\ session.tokens = Texts
       /\ counts["ttft"] = (IF session.times = <<>> THEN 0 ELSE 1)
       /\ counts["itl"] = (IF Texts = 0 THEN 0 ELSE Texts - 1)
       /\ Len(session.times) = Max({Texts, counts["ttft"]})

\* v stands in the k-th place when the values are put in order.
HasPlace(v, k, values) ==
  LET Within(S) == Cardinality({i \in DOMAIN values : values[i] \in S})
  IN Within(0..v) >= k /\ Within(v..MaxTime) >= Len(values) - k + 1

\* Of n places, the k-th is nearest to pct percent of the way from the first to
\* the last; half way between two it is the one at an even distance.
NearestPlace(pct, k, n) ==
  LET off == 100 * (k - 1) - pct * (n - 1)
  IN off \in (-50)..50 /\ (off \in {-50, 50} => (k - 1) % 2 = 0)

IsPercentile(v, pct, values) ==
  \E k \in DOMAIN values : NearestPlace(pct, k, Len(values)) /\ HasPlace(v, k, values)

\* The reported itl_ms_p50 and itl_ms_p99 are the latencies nearest to the
\* median and to the 99th percentile: of two in the middle the lower or the
\* upper one as their number has it, whatever order they came in.
PercentilesRight ==
  metrics.itl # <<>> =>
    /\ IsPercentile(metrics.p50, 50, metrics.itl)
    /\ IsPercentile(metrics.p99, 99, metrics.itl)
=============================================================================
