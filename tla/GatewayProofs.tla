--------------------------- MODULE GatewayProofs ---------------------------
(***************************************************************************)
(* Theorems about the handling of a request at the gateway, for any limits *)
(* of the model, any token limits and prompts of the clients and any       *)
(* number of chunks.                                                       *)
(***************************************************************************)
EXTENDS Gateway, FiniteSetTheorems, FunctionTheorems, SequenceTheorems, TLAPS

-----------------------------------------------------------------------------
(***************************************************************************)
(* Validation.                                                             *)
(***************************************************************************)

\* The default that build_inference_request takes is within the model's limit.
LEMMA DefaultIsCapped ==
  /\ Min({DefaultMaxTokens, MaxOutputTokens}) \in Nat
  /\ Min({DefaultMaxTokens, MaxOutputTokens}) <= MaxOutputTokens
<1> DEFINE S == {DefaultMaxTokens, MaxOutputTokens}
<1>1. DefaultMaxTokens \in Nat /\ MaxOutputTokens \in Nat
  BY LimitsAssumption
<1>2. \E x \in S : \A y \in S : x <= y
  BY <1>1
<1>3. Min(S) \in S /\ \A y \in S : Min(S) <= y
  BY <1>2 DEF Min
<1> QED BY <1>1, <1>3

\* The seven checks, taken together, ask for exactly what Valid asks for: the
\* order of the checks decides the status only.
LEMMA PreparedIsValid ==
  ASSUME NEW i \in Inputs
  PROVE  Prepared(i) <=> Valid(i)
<1>1. i.max_tokens \in Nat /\ MaxOutputTokens \in Nat \ {0}
  BY LimitsAssumption DEF Inputs
<1>2. EffectiveMaxTokens(i) <= MaxOutputTokens <=> i.max_tokens <= MaxOutputTokens
  BY <1>1, DefaultIsCapped DEF EffectiveMaxTokens
<1>3. Failed(i) = {} <=>
        /\ Checks(i)[1].ok /\ Checks(i)[2].ok /\ Checks(i)[3].ok /\ Checks(i)[4].ok
        /\ Checks(i)[5].ok /\ Checks(i)[6].ok /\ Checks(i)[7].ok
  <2>1. DOMAIN Checks(i) = {1, 2, 3, 4, 5, 6, 7}
    BY DEF Checks
  <2> QED BY <2>1 DEF Failed
<1>4. /\ Checks(i)[1].ok = ValidateApiKey(i)
      /\ Checks(i)[2].ok = ParseJsonBody(i)
      /\ Checks(i)[3].ok = i.supported
      /\ Checks(i)[4].ok = i.wellFormed
      /\ Checks(i)[5].ok = i.knownModel
      /\ Checks(i)[6].ok = (EffectiveMaxTokens(i) <= MaxOutputTokens)
      /\ Checks(i)[7].ok = (i.prompt <= MaxPromptTokens)
  BY DEF Checks
<1>5. Failed(i) = {} <=> Valid(i)
  BY <1>2, <1>3, <1>4 DEF Valid, ValidateApiKey, ParseJsonBody
<1>6. Valid(i) => ~WantsStreamRaises(i)
  BY DEF Valid, WantsStreamRaises
<1> QED BY <1>5, <1>6 DEF Prepared

\* A refusal has one of the statuses of the checks.
LEMMA RefusalStatus ==
  ASSUME NEW i \in Inputs, ~Prepared(i)
  PROVE  Refusal(i) \in {400, 401, 404, 500}
<1>1. CASE WantsStreamRaises(i)
  BY <1>1 DEF Refusal
<1>2. CASE ~WantsStreamRaises(i)
  <2>1. DOMAIN Checks(i) = {1, 2, 3, 4, 5, 6, 7}
    BY DEF Checks
  <2>2. Failed(i) # {} /\ Failed(i) \subseteq {1, 2, 3, 4, 5, 6, 7}
    BY <1>2, <2>1 DEF Prepared, Failed
  <2>3. \E x \in Failed(i) : \A y \in Failed(i) : x <= y
    BY <2>2
  <2>4. Min(Failed(i)) \in {1, 2, 3, 4, 5, 6, 7}
    BY <2>2, <2>3 DEF Min
  <2>5. \A k \in {1, 2, 3, 4, 5, 6, 7} : Checks(i)[k].status \in {400, 401, 404, 500}
    BY DEF Checks
  <2>6. Refusal(i) = Checks(i)[Min(Failed(i))].status
    BY <1>2 DEF Refusal
  <2> QED BY <2>4, <2>5, <2>6
<1> QED BY <1>1, <1>2

-----------------------------------------------------------------------------
(***************************************************************************)
(* The body.                                                               *)
(***************************************************************************)
Lines == {"text", "tail", "error", "done"}

TextsIn(s) == Cardinality({k \in DOMAIN s : s[k] = "text"})

\* One more line of the body: it is the last one, the others are still there,
\* and it counts as a text if it is one.
LEMMA OneMoreLine ==
  ASSUME NEW s \in Seq(Lines), NEW x \in Lines
  PROVE  /\ s \o <<x>> \in Seq(Lines)
         /\ s \o <<x>> # <<>>
         /\ Last(s \o <<x>>) = x
         /\ Range(s \o <<x>>) = Range(s) \cup {x}
         /\ TextsIn(s) \in Nat
         /\ TextsIn(s \o <<x>>) = TextsIn(s) + (IF x = "text" THEN 1 ELSE 0)
<1> DEFINE t == Append(s, x)
           n == Len(s)
           old == {k \in DOMAIN s : s[k] = "text"}
           new == {k \in DOMAIN t : t[k] = "text"}
<1>1. s \o <<x>> = t
  BY AppendIsConcat
<1>2. n \in Nat /\ DOMAIN s = 1 .. n
  BY LenProperties
<1>3. /\ t \in Seq(Lines) /\ t # <<>> /\ Len(t) = n + 1
      /\ \A i \in 1 .. n : t[i] = s[i]
      /\ t[n + 1] = x
  BY AppendProperties
<1> HIDE DEF t, n
<1>4. DOMAIN t = 1 .. n + 1
  BY <1>3, LenProperties
<1>5. Last(t) = x
  BY <1>3 DEF Last
<1>6. Range(t) = Range(s) \cup {x}
  <2>1. Range(t) = {t[i] : i \in 1 .. n + 1} /\ Range(s) = {s[i] : i \in 1 .. n}
    BY <1>2, <1>4 DEF Range
  <2>2. \A i \in 1 .. n + 1 : i \in 1 .. n \/ i = n + 1
    BY <1>2
  <2>3. n + 1 \in 1 .. n + 1 /\ \A i \in 1 .. n : i \in 1 .. n + 1
    BY <1>2
  <2>4. \A y : y \in Range(t) => y \in Range(s) \cup {x}
    BY <1>3, <2>1, <2>2
  <2>5. \A y : y \in Range(s) \cup {x} => y \in Range(t)
    BY <1>3, <2>1, <2>3
  <2> QED BY <2>4, <2>5
<1>7. IsFiniteSet(old) /\ Cardinality(old) \in Nat
  <2>1. IsFiniteSet(1 .. n)
    BY <1>2, FS_Interval
  <2>2. old \in SUBSET (1 .. n)
    BY <1>2
  <2> HIDE DEF old
  <2> QED BY <2>1, <2>2, FS_Subset, FS_CardinalityType
<1>8. n + 1 \notin old
  BY <1>2
<1>9. new = IF x = "text" THEN old \cup {n + 1} ELSE old
  BY <1>2, <1>3, <1>4
<1>10. Cardinality(new) = Cardinality(old) + (IF x = "text" THEN 1 ELSE 0)
  <2> HIDE DEF old, new
  <2>1. CASE x = "text"
    <3>1. Cardinality(old \cup {n + 1}) = Cardinality(old) + 1
      BY <1>7, <1>8, FS_AddElement
    <3> QED BY <1>9, <2>1, <3>1
  <2>2. CASE x # "text"
    BY <1>7, <1>9, <2>2
  <2> QED BY <2>1, <2>2
<1>11. TextsIn(t) = Cardinality(new) /\ TextsIn(s) = Cardinality(old)
  BY DEF TextsIn
<1> HIDE DEF old, new
<1> QED BY <1>1, <1>3, <1>5, <1>6, <1>7, <1>10, <1>11

\* A body that has sent nothing.
LEMMA NoLine == TextsIn(<<>>) = 0 /\ Range(<<>>) = {}
<1>1. DOMAIN <<>> = {}
  OBVIOUS
<1>2. {k \in DOMAIN <<>> : <<>>[k] = "text"} = {}
  BY <1>1
<1> QED BY <1>1, <1>2, FS_EmptySet DEF TextsIn, Range

\* The last line of a body that has one is among its lines.
LEMMA LastIsSent ==
  ASSUME NEW s \in Seq(Lines), s # <<>>
  PROVE  Last(s) \in Range(s)
<1>1. Len(s) \in Nat \ {0} /\ DOMAIN s = 1 .. Len(s)
  BY EmptySeq, LenProperties
<1> QED BY <1>1 DEF Last, Range

-----------------------------------------------------------------------------
(***************************************************************************)
(* The inductive invariant.                                                *)
(***************************************************************************)
StreamStates == {"stream_created", "stream_active", "stream_completed", "stream_failed",
                 "stream_cancelled"}
Counters == {"created", "completed", "failed", "cancelled", "ttft", "itl"}

\* The places before the answer, those without a body, and those of a body
\* that has not ended yet.
Unanswered == {"arrival", "accepting"}
Bodyless == {"arrival", "accepting", "answered"}
Flowing == {"opened", "starting", "pulling", "yielded"}

Typed ==
  /\ TypeOK
  /\ chunk \in [text : BOOLEAN, finish : BOOLEAN, first : BOOLEAN, at : 0 .. MaxTime]
  /\ session \in [state : StreamStates, tokens : 0 .. MaxChunks, times : Seq(0 .. MaxTime)]
  /\ sent \in Seq(Lines)
  /\ counts \in [Counters -> Nat]

\* Nothing is recorded before the request is accepted, only valid requests
\* are, and a rejected request does not wait, so that no timeout overwrites
\* the rejection the client was told of.
HandlingInv ==
  /\ pc \in Unanswered => entry = "none" /\ answer = NoAnswer /\ record = NoRecord
  /\ pc \notin {"arrival", "answered"} => Valid(input)
  /\ pc \notin Bodyless => answer.status = 200
  /\ entry = "rejected" => ~waiting
  /\ entry = "none" => ~waiting
  /\ answer.status = 429 => entry = "rejected" /\ reason = "queue_full"

\* What the body has said at each place, and what the entry may then be.
BodyInv ==
  /\ pc \in Bodyless \cup Flowing => Range(sent) \cap {"done", "error"} = {}
  /\ session.state = "stream_cancelled" => pc = "closed"
  /\ pc = "done_sent" =>
       /\ sent # <<>> /\ Last(sent) = "done" /\ "error" \notin Range(sent)
       /\ entry \in {"completed", "timed_out"}
  /\ pc = "error_sent" => sent # <<>> /\ "error" \in Range(sent)
  /\ pc = "error_done" => sent # <<>> /\ Last(sent) = "done" /\ "error" \in Range(sent)

\* The counters against the chunks sent, also while a chunk is with the
\* client.  Only a generator that ran dry without text leaves a timestamp
\* without a token.
TokenInv ==
  /\ Texts <= upstream.index
  /\ pc \notin {"yielded", "abandoned"} => session.tokens = Texts
  /\ pc = "yielded" =>
       /\ session.tokens + TokensOf(chunk) = Texts
       /\ Len(session.times) = session.tokens
       /\ chunk.first => session.tokens = 0
       /\ chunk.first /\ ~chunk.text => upstream.end = "dry"
  /\ \/ Len(session.times) = session.tokens
     \/ upstream.end = "dry" /\ session.tokens = 0 /\ Len(session.times) = 1
  /\ counts["ttft"] = IF Len(session.times) = 0 THEN 0 ELSE 1
  /\ counts["itl"] = IF session.tokens = 0 THEN 0 ELSE session.tokens - 1

Inv ==
  /\ Typed
  /\ ValidationExact
  /\ AnswerTellsOutcome
  /\ BodyEndsWithDone
  /\ ClientAndRecordAgree
  /\ HandlingInv
  /\ BodyInv
  /\ TokenInv

-----------------------------------------------------------------------------
(***************************************************************************)
(* What the parts of the steps do.                                         *)
(***************************************************************************)
Sessions == [state : StreamStates, tokens : 0 .. MaxChunks, times : Seq(0 .. MaxTime)]

\* A new state of the session leaves its tokens and timestamps alone.
LEMMA SessionMoves ==
  ASSUME NEW s \in Sessions, NEW st \in StreamStates
  PROVE  /\ [s EXCEPT !.state = st] \in Sessions
         /\ [s EXCEPT !.state = st].state = st
         /\ [s EXCEPT !.state = st].tokens = s.tokens
         /\ [s EXCEPT !.state = st].times = s.times
BY DEF Sessions

\* The exception handler's first half: the error line, the failure counter.
LEMMA FailingSays ==
  ASSUME Inv, NEW n \in [Counters -> Nat], StreamFails(n),
         n["ttft"] = counts["ttft"], n["itl"] = counts["itl"]
  PROVE  /\ session' \in Sessions
         /\ session'.state = "stream_failed"
         /\ session'.tokens = session.tokens /\ session'.times = session.times
         /\ counts' \in [Counters -> Nat]
         /\ counts'["ttft"] = counts["ttft"] /\ counts'["itl"] = counts["itl"]
         /\ sent' \in Seq(Lines) /\ sent' # <<>> /\ "error" \in Range(sent')
         /\ Texts' = Texts
         /\ pc' = "error_sent"
<1>1. session \in Sessions /\ sent \in Seq(Lines)
  BY DEF Inv, Typed, Sessions
<1>2. session' = [session EXCEPT !.state = "stream_failed"] /\ "stream_failed" \in StreamStates
  BY DEF StreamFails, StreamStates
<1>3. /\ session' \in Sessions
      /\ session'.state = "stream_failed"
      /\ session'.tokens = session.tokens /\ session'.times = session.times
  BY <1>1, <1>2, SessionMoves
<1>4. sent' = sent \o <<"error">> /\ "error" \in Lines /\ "error" # "text"
  BY DEF StreamFails, Says, Lines
<1>5. /\ sent' \in Seq(Lines) /\ sent' # <<>> /\ Range(sent') = Range(sent) \cup {"error"}
      /\ TextsIn(sent) \in Nat
      /\ TextsIn(sent') = TextsIn(sent) + 0
  BY <1>1, <1>4, OneMoreLine
<1>6. Texts' = TextsIn(sent') /\ Texts = TextsIn(sent)
  BY DEF Texts, TextsIn
<1>7. /\ counts' \in [Counters -> Nat]
      /\ counts'["ttft"] = n["ttft"] /\ counts'["itl"] = n["itl"]
  BY DEF StreamFails, Counters
<1> QED BY <1>3, <1>5, <1>6, <1>7 DEF StreamFails

\* The first half with the counters as they are.
LEMMA FailingNow ==
  ASSUME Inv, StreamFails(counts)
  PROVE  /\ session' \in Sessions
         /\ session'.state = "stream_failed"
         /\ session'.tokens = session.tokens /\ session'.times = session.times
         /\ counts' \in [Counters -> Nat]
         /\ counts'["ttft"] = counts["ttft"] /\ counts'["itl"] = counts["itl"]
         /\ sent' \in Seq(Lines) /\ sent' # <<>> /\ "error" \in Range(sent')
         /\ Texts' = Texts
         /\ pc' = "error_sent"
<1>1. counts \in [Counters -> Nat]
  BY DEF Inv, Typed
<1> QED BY <1>1, FailingSays

\* The first half after a cancellation was counted.
LEMMA FailingAfterCancel ==
  ASSUME Inv, StreamFails([counts EXCEPT !["cancelled"] = @ + 1])
  PROVE  /\ session' \in Sessions
         /\ session'.state = "stream_failed"
         /\ session'.tokens = session.tokens /\ session'.times = session.times
         /\ counts' \in [Counters -> Nat]
         /\ counts'["ttft"] = counts["ttft"] /\ counts'["itl"] = counts["itl"]
         /\ sent' \in Seq(Lines) /\ sent' # <<>> /\ "error" \in Range(sent')
         /\ Texts' = Texts
         /\ pc' = "error_sent"
<1> DEFINE n == [counts EXCEPT !["cancelled"] = @ + 1]
<1>1. counts \in [Counters -> Nat]
  BY DEF Inv, Typed
<1>2. n \in [Counters -> Nat] /\ n["ttft"] = counts["ttft"] /\ n["itl"] = counts["itl"]
  BY <1>1 DEF Counters
<1> HIDE DEF n
<1>3. StreamFails(n)
  BY DEF n
<1> QED BY <1>2, <1>3, FailingSays

\* [DONE] as the next line.
LEMMA SayingDone ==
  ASSUME Inv, Says(<<"done">>)
  PROVE  /\ sent' \in Seq(Lines) /\ sent' # <<>> /\ Last(sent') = "done"
         /\ Range(sent') = Range(sent) \cup {"done"}
         /\ Texts' = Texts
<1>1. sent \in Seq(Lines) /\ "done" \in Lines /\ "done" # "text"
  BY DEF Inv, Typed, Lines
<1>2. sent' = sent \o <<"done">>
  BY DEF Says
<1>3. /\ sent' \in Seq(Lines) /\ sent' # <<>> /\ Last(sent') = "done"
      /\ Range(sent') = Range(sent) \cup {"done"}
      /\ TextsIn(sent) \in Nat
      /\ TextsIn(sent') = TextsIn(sent) + 0
  BY <1>1, <1>2, OneMoreLine
<1>4. Texts' = TextsIn(sent') /\ Texts = TextsIn(sent)
  BY DEF Texts, TextsIn
<1> QED BY <1>3, <1>4

\* A chunk of an open generator, and the generator after it.
Made(text, finish) ==
  <<[text |-> text, finish |-> finish, first |-> text /\ upstream.index = 0, at |-> now],
    [index |-> upstream.index + (IF text THEN 1 ELSE 0),
     end |-> IF finish THEN "over" ELSE "open"]>>

LEMMA FormOfChunks ==
  ASSUME NEW c \in UpstreamChunks
  PROVE  \E text \in (IF upstream.index < MaxChunks THEN BOOLEAN ELSE {FALSE}), finish \in BOOLEAN :
           c = Made(text, finish)
<1> DEFINE Texting == IF upstream.index < MaxChunks THEN BOOLEAN ELSE {FALSE}
<1>1. UpstreamChunks = {Made(text, finish) : text \in Texting, finish \in BOOLEAN}
  <2>1. UpstreamChunks =
          {<<Chunk(text, finish, text /\ upstream.index = 0),
             [index |-> upstream.index + (IF text THEN 1 ELSE 0),
              end |-> IF finish THEN "over" ELSE "open"]>> : text \in Texting, finish \in BOOLEAN}
    BY DEF UpstreamChunks
  <2> HIDE DEF Texting
  <2> QED BY <2>1 DEF Chunk, Made
<1> HIDE DEF Texting
<1>2. \E text \in Texting, finish \in BOOLEAN : c = Made(text, finish)
  BY <1>1
<1> QED BY <1>2 DEF Texting

\* What a chunk can be: a text while the generator is open, or the end; the
\* generator counts the texts.
LEMMA ChunksOfUpstream ==
  ASSUME Inv, NEW c \in NextChunks
  PROVE  /\ c[1] \in [text : BOOLEAN, finish : BOOLEAN, first : BOOLEAN, at : 0 .. MaxTime]
         /\ c[2] \in [index : 0 .. MaxChunks, end : {"open", "over", "dry"}]
         /\ c[2].index = upstream.index + TokensOf(c[1])
         /\ c[1].first => upstream.index = 0
         /\ upstream.end # "dry"
         /\ c[1].text => upstream.end = "open"
         /\ c[1].first /\ ~c[1].text => c[2].end = "dry"
<1> USE DEF Chunk
<1>1. upstream \in [index : 0 .. MaxChunks, end : {"open", "over", "dry"}] /\ now \in 0 .. MaxTime
  BY DEF Inv, Typed, TypeOK
<1>2. CASE upstream.end = "open"
  <2>1. PICK text \in IF upstream.index < MaxChunks THEN BOOLEAN ELSE {FALSE}, finish \in BOOLEAN :
          c = Made(text, finish)
    <3>1. NextChunks = {d \in UpstreamChunks : d[1].text \/ d[1].finish}
      BY <1>2, Zenon DEF NextChunks
    <3>2. c \in UpstreamChunks
      BY <3>1, Zenon
    <3> QED BY <3>2, FormOfChunks
  <2>2. text \in BOOLEAN /\ (text => upstream.index < MaxChunks)
    BY <2>1
  <2>3. c[1] = [text |-> text, finish |-> finish, first |-> text /\ upstream.index = 0, at |-> now]
    BY <2>1 DEF Made
  <2>4. c[2] = [index |-> upstream.index + (IF text THEN 1 ELSE 0),
                end |-> IF finish THEN "over" ELSE "open"]
    BY <2>1 DEF Made
  <2>5. (text /\ upstream.index = 0) \in BOOLEAN
    OBVIOUS
  <2>6. c[1] \in [text : BOOLEAN, finish : BOOLEAN, first : BOOLEAN, at : 0 .. MaxTime]
    BY <1>1, <2>2, <2>3, <2>5
  <2>7. upstream.index + (IF text THEN 1 ELSE 0) \in 0 .. MaxChunks
    BY <1>1, <2>2, BoundsAssumption
  <2>8. c[2] \in [index : 0 .. MaxChunks, end : {"open", "over", "dry"}]
    BY <2>4, <2>7
  <2>9. c[1].text = text /\ c[1].first = (text /\ upstream.index = 0)
    BY <2>3
  <2>10. c[2].index = upstream.index + TokensOf(c[1])
    BY <2>4, <2>9 DEF TokensOf
  <2> QED BY <1>2, <2>6, <2>8, <2>9, <2>10
<1>3. CASE upstream.end # "open"
  <2>1. upstream.end = "over" /\ upstream.index = 0 /\ c = LastChunk
    BY <1>3 DEF NextChunks
  <2>2. c[1] = [text |-> FALSE, finish |-> TRUE, first |-> TRUE, at |-> now]
    BY <2>1 DEF LastChunk
  <2>3. c[2] = [upstream EXCEPT !.end = "dry"]
    BY <2>1 DEF LastChunk
  <2>4. c[1] \in [text : BOOLEAN, finish : BOOLEAN, first : BOOLEAN, at : 0 .. MaxTime]
    BY <1>1, <2>2
  <2>5. /\ c[2] \in [index : 0 .. MaxChunks, end : {"open", "over", "dry"}]
        /\ c[2].index = upstream.index /\ c[2].end = "dry"
    BY <1>1, <2>3
  <2>6. c[1].text = FALSE
    BY <2>2
  <2> QED BY <1>1, <2>1, <2>4, <2>5, <2>6 DEF TokensOf
<1> QED BY <1>2, <1>3

-----------------------------------------------------------------------------
(***************************************************************************)
(* Steps and the answer.                                                   *)
(***************************************************************************)
Reasons == {"none", "queue_full", "internal_error", "adapter_error", "queue_timeout"}
Statuses == {0, 200, 400, 401, 404, 429, 500, 501, 502, 503}
Places == {"arrival", "accepting", "answered", "opened", "starting", "pulling", "yielded",
           "done_sent", "error_sent", "error_done", "closed", "broken", "abandoned"}

\* The typing of what the handlers before the body write.
HandlingTypes ==
  /\ settings \in Settings
  /\ pc # "arrival" => input \in Inputs
  /\ pc \in Places
  /\ entry \in RequestState \cup {"none"}
  /\ reason \in Reasons
  /\ waiting \in BOOLEAN
  /\ answer.status \in Statuses

AnswerInv == HandlingTypes /\ HandlingInv /\ ValidationExact /\ AnswerTellsOutcome

\* How an outcome of the control plane or of the path becomes a status.
LEMMA StatusOfOutcome ==
  ASSUME NEW o \in PathOutcomes, NEW ok \in {"queued", "completed"}, settings \in Settings
  PROVE  /\ StatusOf(o[1], o[2], ok) \in {200, 429, 500, 502}
         /\ StatusOf(o[1], o[2], ok) = 200 <=> o[1] = ok
         /\ settings.client = "platform" =>
              (StatusOf(o[1], o[2], ok) = 502 <=> o[1] = "failed")
         /\ StatusOf(o[1], o[2], ok) = 429 <=> o[1] = "rejected"
         /\ o[1] = "rejected" => o[2] = "queue_full"
         /\ o[1] \in {"queued", "rejected", "failed", "completed"}
         /\ o[2] \in Reasons
<1>1. \/ o[1] = "queued" /\ o[2] = "none"
      \/ o[1] = "rejected" /\ o[2] = "queue_full"
      \/ o[1] = "failed" /\ o[2] \in {"internal_error", "adapter_error"}
      \/ o[1] = "completed" /\ o[2] = "none"
  BY DEF PathOutcomes, QueuedOutcomes
<1>2. CASE o[1] = "queued" /\ o[2] = "none"
  BY <1>2 DEF StatusOf, Reasons
<1>3. CASE o[1] = "rejected" /\ o[2] = "queue_full"
  BY <1>3 DEF StatusOf, Reasons
<1>4. CASE o[1] = "failed" /\ o[2] \in {"internal_error", "adapter_error"}
  BY <1>4 DEF StatusOf, Reasons
<1>5. CASE o[1] = "completed" /\ o[2] = "none"
  BY <1>5 DEF StatusOf, Reasons
<1> QED BY <1>1, <1>2, <1>3, <1>4, <1>5

\* Entering an outcome: what is rejected does not wait.
LEMMA EntersOutcome ==
  ASSUME NEW s \in {"queued", "rejected", "failed", "completed"}, NEW why \in Reasons,
         Enters(s, why)
  PROVE  /\ entry' = s /\ reason' = why /\ waiting' \in BOOLEAN
         /\ entry' = "rejected" => ~waiting'
         /\ entry' \in RequestState /\ entry' # "none"
BY DEF Enters, RequestState, TerminalStates

\* The check of a request: what is valid goes on or is told 501.
LEMMA ReceiveKeepsAnswer ==
  ASSUME AnswerInv, NEW i \in Inputs, Receive(i)
  PROVE  AnswerInv'
<1> USE DEF AnswerInv
<1>1. /\ pc = "arrival" /\ input' = i
      /\ settings' = settings /\ entry' = entry /\ reason' = reason /\ waiting' = waiting
      /\ record' = record
  BY DEF Receive, entryVars
<1>2. entry = "none" /\ answer = NoAnswer /\ record = NoRecord /\ ~waiting
  BY <1>1 DEF HandlingInv, Unanswered
<1>3. Prepared(i) <=> Valid(i)
  BY PreparedIsValid
<1>4. Valid(input)' <=> Valid(i)
  BY <1>1 DEF Valid
<1>5. \/ /\ ~Valid(i) /\ pc' = "answered"
         /\ answer'.status \in {400, 401, 404, 500}
      \/ /\ Valid(i) /\ pc' = "answered" /\ answer'.status = 501
      \/ /\ Valid(i) /\ pc' = "accepting" /\ answer' = NoAnswer
  BY <1>2, <1>3, RefusalStatus DEF Receive, Answers, Error
<1>6. answer'.status \in {0, 400, 401, 404, 500, 501}
  BY <1>5 DEF NoAnswer
<1>7. HandlingTypes'
  BY <1>1, <1>5, <1>6 DEF HandlingTypes, Statuses, Places
<1>8. HandlingInv'
  BY <1>1, <1>2, <1>4, <1>5, <1>6 DEF HandlingInv, Unanswered, Bodyless
<1>9. ValidationExact'
  BY <1>1, <1>2, <1>4, <1>5 DEF ValidationExact, NoAnswer
<1>10. AnswerTellsOutcome'
  BY <1>1, <1>2, <1>6 DEF AnswerTellsOutcome, NoRecord
<1> QED BY <1>7, <1>8, <1>9, <1>10

\* An answer given to an accepted request, whichever client gives it.
LEMMA AnsweringKeepsAnswer ==
  ASSUME AnswerInv, pc = "accepting", pc' = "answered",
         UNCHANGED <<settings, input>>,
         entry' \in RequestState \cup {"none"}, reason' \in Reasons, waiting' \in BOOLEAN,
         answer'.status \in Statuses,
         entry' = "rejected" => ~waiting',
         entry' = "none" => ~waiting',
         answer'.status = 429 => entry' = "rejected" /\ reason' = "queue_full",
         answer'.status \notin {400, 401, 404},
         settings.client = "platform" /\ ~input.stream =>
           /\ answer'.status = 200 <=> record'.state = "completed"
           /\ answer'.status = 502 <=> record'.state = "failed"
           /\ answer'.status = 429 <=> record'.state = "rejected"
  PROVE  AnswerInv'
<1> USE DEF AnswerInv
<1>1. Valid(input) /\ (Valid(input)' <=> Valid(input))
  BY DEF HandlingInv, Valid
<1>2. HandlingTypes'
  BY DEF HandlingTypes, Places
<1>3. HandlingInv'
  BY DEF HandlingInv, Unanswered, Bodyless
<1>4. ValidationExact'
  BY <1>1 DEF ValidationExact
<1>5. AnswerTellsOutcome'
  BY DEF AnswerTellsOutcome
<1> QED BY <1>2, <1>3, <1>4, <1>5

\* The answer of the client without a stack, and of none at all.
LEMMA WithoutStackKeepsAnswer ==
  ASSUME AnswerInv, AcceptWithoutStack
  PROVE  AnswerInv'
<1>1. /\ pc = "accepting" /\ settings.client # "platform"
      /\ UNCHANGED <<settings, input>>
      /\ settings \in Settings /\ entry = "none" /\ reason \in Reasons /\ waiting \in BOOLEAN
      /\ ~waiting
  BY DEF AcceptWithoutStack, AnswerInv, HandlingTypes, HandlingInv, Unanswered
<1>2. ASSUME NEW o \in QueuedOutcomes,
             Enters(o[1], o[2]),
             Answers([status |-> StatusOf(o[1], o[2], "queued"),
                      content |-> ContentOf(StatusOf(o[1], o[2], "queued"), FALSE)])
      PROVE  AnswerInv'
  <2>1. o \in PathOutcomes
    BY DEF PathOutcomes
  <2>2. pc' = "answered" /\ answer'.status = StatusOf(o[1], o[2], "queued")
    BY <1>2 DEF Answers
  <2>3. /\ answer'.status \in {200, 429, 500, 502}
        /\ answer'.status = 429 => o[1] = "rejected" /\ o[2] = "queue_full"
        /\ o[1] \in {"queued", "rejected", "failed", "completed"} /\ o[2] \in Reasons
    BY <1>1, <2>1, <2>2, StatusOfOutcome
  <2>4. /\ entry' = o[1] /\ reason' = o[2] /\ waiting' \in BOOLEAN
        /\ entry' = "rejected" => ~waiting'
        /\ entry' \in RequestState /\ entry' # "none"
    BY <1>2, <2>3, EntersOutcome
  <2>5. answer'.status \in Statuses /\ answer'.status \notin {400, 401, 404}
    BY <2>3 DEF Statuses
  <2> QED BY <1>1, <2>2, <2>3, <2>4, <2>5, AnsweringKeepsAnswer
<1>3. CASE Answers(Error(503)) /\ UNCHANGED entryVars
  <2>1. /\ pc' = "answered" /\ answer'.status = 503
        /\ entry' = entry /\ reason' = reason /\ waiting' = waiting
    BY <1>3 DEF Answers, Error, entryVars
  <2>2. answer'.status \in Statuses
    BY <2>1 DEF Statuses
  <2> QED BY <1>1, <2>1, <2>2, AnsweringKeepsAnswer
<1> QED BY <1>2, <1>3 DEF AcceptWithoutStack

\* The full path: the record tells what the status tells.
LEMMA FullPathKeepsAnswer ==
  ASSUME AnswerInv, AcceptFullPath
  PROVE  AnswerInv'
<1>1. /\ pc = "accepting" /\ settings.client = "platform"
      /\ UNCHANGED <<settings, input>> /\ settings \in Settings
  BY DEF AcceptFullPath, AnswerInv, HandlingTypes
<1>2. PICK o \in PathOutcomes, generated \in BOOLEAN :
        /\ Enters(o[1], o[2])
        /\ Captured(o[1], metrics)
        /\ Answers([status |-> StatusOf(o[1], o[2], "completed"),
                    content |-> ContentOf(StatusOf(o[1], o[2], "completed"), generated)])
  BY DEF AcceptFullPath
<1>3. /\ pc' = "answered" /\ answer'.status = StatusOf(o[1], o[2], "completed")
      /\ record'.state = o[1]
  BY <1>2 DEF Answers, Captured
<1>4. /\ answer'.status \in {200, 429, 500, 502}
      /\ answer'.status = 200 <=> o[1] = "completed"
      /\ answer'.status = 502 <=> o[1] = "failed"
      /\ answer'.status = 429 <=> o[1] = "rejected"
      /\ o[1] = "rejected" => o[2] = "queue_full"
      /\ o[1] \in {"queued", "rejected", "failed", "completed"} /\ o[2] \in Reasons
  BY <1>1, <1>3, StatusOfOutcome
<1>5. /\ entry' = o[1] /\ reason' = o[2] /\ waiting' \in BOOLEAN
      /\ entry' = "rejected" => ~waiting'
      /\ entry' \in RequestState /\ entry' # "none"
  BY <1>2, <1>4, EntersOutcome
<1>6. answer'.status \in Statuses /\ answer'.status \notin {400, 401, 404}
  BY <1>4 DEF Statuses
<1> QED BY <1>1, <1>3, <1>4, <1>5, <1>6, AnsweringKeepsAnswer

\* The capture or the path raised: 500, and no record tells otherwise.
LEMMA RaisesKeepsAnswer ==
  ASSUME AnswerInv, CaptureRaises \/ PathRaises
  PROVE  AnswerInv'
<1>1. /\ pc = "accepting" /\ UNCHANGED <<settings, input>> /\ record' = record
      /\ pc' = "answered" /\ answer'.status = 500
  BY DEF CaptureRaises, PathRaises, Answers, Error
<1>2. entry = "none" /\ record.state = "none" /\ ~waiting /\ reason \in Reasons /\ waiting \in BOOLEAN
  BY <1>1 DEF AnswerInv, HandlingTypes, HandlingInv, Unanswered, NoRecord
<1>3. /\ entry' \in RequestState \cup {"none"} /\ reason' \in Reasons /\ waiting' \in BOOLEAN
      /\ entry' = "rejected" => ~waiting'
      /\ entry' = "none" => ~waiting'
  <2>1. CASE CaptureRaises
    <3>1. PICK o \in PathOutcomes : Enters(o[1], o[2])
      BY <2>1 DEF CaptureRaises
    <3>2. settings \in Settings
      BY DEF AnswerInv, HandlingTypes
    <3>3. o[1] \in {"queued", "rejected", "failed", "completed"} /\ o[2] \in Reasons
      BY <3>2, StatusOfOutcome
    <3>4. /\ entry' = o[1] /\ reason' = o[2] /\ waiting' \in BOOLEAN
          /\ entry' = "rejected" => ~waiting'
          /\ entry' \in RequestState /\ entry' # "none"
      BY <3>1, <3>3, EntersOutcome
    <3> QED BY <3>3, <3>4
  <2>2. CASE PathRaises
    <3>1. \/ entry' = entry /\ reason' = reason /\ waiting' = waiting
          \/ entry' = "timed_out" /\ reason' = "queue_timeout" /\ waiting' = FALSE
      BY <2>2 DEF PathRaises, entryVars
    <3>2. "timed_out" \in RequestState /\ "timed_out" # "rejected" /\ "queue_timeout" \in Reasons
      BY DEF RequestState, TerminalStates, Reasons
    <3>3. CASE entry' = entry /\ reason' = reason /\ waiting' = waiting
      BY <1>2, <3>3, Zenon
    <3>4. CASE entry' = "timed_out" /\ reason' = "queue_timeout" /\ waiting' = FALSE
      BY <3>2, <3>4, Zenon
    <3> QED BY <3>1, <3>3, <3>4
  <2> QED BY <2>1, <2>2
<1>4. answer'.status \in Statuses
  BY <1>1 DEF Statuses
<1> QED BY <1>1, <1>2, <1>3, <1>4, AnsweringKeepsAnswer

\* A stream is accepted with 200, or answered like any other request.
LEMMA StreamKeepsAnswer ==
  ASSUME AnswerInv, AcceptStream
  PROVE  AnswerInv'
<1>1. /\ pc = "accepting" /\ settings.client = "platform" /\ input.stream
      /\ UNCHANGED <<settings, input>> /\ record' = record
      /\ settings \in Settings
  BY DEF AcceptStream, AnswerInv, HandlingTypes
<1>2. PICK o \in QueuedOutcomes :
        /\ Enters(o[1], o[2])
        /\ IF StatusOf(o[1], o[2], "queued") = 200
           THEN answer' = [status |-> 200, content |-> "stream"] /\ pc' = "opened"
           ELSE Answers(Error(StatusOf(o[1], o[2], "queued")))
  BY DEF AcceptStream
<1>3. o \in PathOutcomes
  BY DEF PathOutcomes
<1>4. /\ StatusOf(o[1], o[2], "queued") \in {200, 429, 500, 502}
      /\ StatusOf(o[1], o[2], "queued") = 429 => o[1] = "rejected" /\ o[2] = "queue_full"
      /\ o[1] \in {"queued", "rejected", "failed", "completed"} /\ o[2] \in Reasons
  BY <1>1, <1>3, StatusOfOutcome
<1>5. /\ entry' = o[1] /\ reason' = o[2] /\ waiting' \in BOOLEAN
      /\ entry' = "rejected" => ~waiting'
      /\ entry' \in RequestState /\ entry' # "none"
  BY <1>2, <1>4, EntersOutcome
<1>6. CASE StatusOf(o[1], o[2], "queued") = 200
  <2>1. answer'.status = 200 /\ pc' = "opened"
    BY <1>2, <1>6
  <2>2. Valid(input) /\ (Valid(input)' <=> Valid(input))
    BY <1>1 DEF AnswerInv, HandlingInv, Valid
  <2>3. HandlingTypes'
    BY <1>1, <1>4, <1>5, <2>1 DEF AnswerInv, HandlingTypes, Statuses, Places
  <2>4. HandlingInv'
    BY <1>5, <2>1, <2>2 DEF HandlingInv, Unanswered
  <2>5. ValidationExact' /\ AnswerTellsOutcome'
    BY <2>1, <2>2 DEF ValidationExact, AnswerTellsOutcome
  <2> QED BY <2>3, <2>4, <2>5 DEF AnswerInv
<1>7. CASE StatusOf(o[1], o[2], "queued") # 200
  <2>1. answer'.status = StatusOf(o[1], o[2], "queued") /\ pc' = "answered"
    BY <1>2, <1>7 DEF Answers, Error
  <2>2. answer'.status \in Statuses /\ answer'.status \notin {400, 401, 404}
    BY <1>4, <2>1 DEF Statuses
  <2> QED BY <1>1, <1>4, <1>5, <2>1, <2>2, AnsweringKeepsAnswer
<1> QED BY <1>6, <1>7

\* A queue timeout reaches no request whose rejection was told.
LEMMA TimeoutKeepsAnswer ==
  ASSUME AnswerInv, QueueTimeout
  PROVE  AnswerInv'
<1> USE DEF AnswerInv
<1>1. /\ waiting /\ waiting' = FALSE /\ entry' = "timed_out" /\ reason' = "queue_timeout"
      /\ UNCHANGED <<settings, input, pc, answer, record>>
  BY DEF QueueTimeout
<1>2. entry # "none" /\ entry # "rejected"
  BY <1>1 DEF HandlingInv
<1>3. pc \notin Unanswered /\ pc # "arrival" /\ answer.status # 429
  BY <1>2 DEF HandlingInv, Unanswered
<1>4. HandlingTypes'
  BY <1>1 DEF HandlingTypes, RequestState, TerminalStates, Reasons
<1>5. Valid(input) /\ (Valid(input)' <=> Valid(input))
  BY <1>1, <1>2, <1>3 DEF ValidationExact, Valid
<1>6. HandlingInv'
  BY <1>1, <1>3, <1>5 DEF HandlingInv
<1>7. ValidationExact'
  BY <1>1, <1>2, <1>3, <1>5 DEF ValidationExact
<1>8. AnswerTellsOutcome'
  BY <1>1, <1>3 DEF AnswerTellsOutcome
<1> QED BY <1>4, <1>6, <1>7, <1>8

\* Once there is a body the answer stands: a step of the body changes at most
\* the entry, and never to a rejection.
LEMMA BodyKeepsAnswer ==
  ASSUME AnswerInv, pc \notin Bodyless, pc' \in Places \ Bodyless,
         UNCHANGED <<settings, input, answer, waiting>>,
         reason' \in Reasons,
         entry' = entry \/ entry' \in {"streaming", "failed", "completed", "cancelled"}
  PROVE  AnswerInv'
<1> USE DEF AnswerInv
<1>1. pc # "arrival" /\ pc # "answered" /\ pc \notin Unanswered
      /\ pc' # "arrival" /\ pc' # "answered" /\ pc' \notin Unanswered
  BY DEF Bodyless, Unanswered
<1>2. answer.status = 200 /\ Valid(input) /\ (Valid(input)' <=> Valid(input))
  BY <1>1 DEF HandlingInv, Valid
<1>3. HandlingTypes'
  <2>1. {"streaming", "failed", "completed", "cancelled"} \subseteq RequestState
    BY DEF RequestState, TerminalStates
  <2> QED BY <1>1, <2>1 DEF HandlingTypes
<1>4. HandlingInv'
  BY <1>1, <1>2 DEF HandlingInv
<1>5. ValidationExact' /\ AnswerTellsOutcome'
  BY <1>1, <1>2 DEF ValidationExact, AnswerTellsOutcome
<1> QED BY <1>3, <1>4, <1>5

LEMMA StepKeepsAnswer ==
  ASSUME AnswerInv, [Next]_vars
  PROVE  AnswerInv'
<1>1. reason \in Reasons
  BY DEF AnswerInv, HandlingTypes
<1> USE DEF entryVars, streamVars
<1>2. CASE OpenBody \/ UpstreamEnds \/ Deliver \/ Account \/ EndError
  BY <1>1, <1>2, BodyKeepsAnswer
     DEF OpenBody, UpstreamEnds, Deliver, Account, EndError, Bodyless, Places
<1>3. CASE StartStream
  <2>1. pc' \in {"pulling", "error_sent"} /\ pc = "starting"
    BY <1>3 DEF StartStream, StreamFails
  <2>2. reason' \in Reasons
    BY <1>1, <1>3 DEF StartStream, Reasons
  <2> QED BY <1>3, <2>1, <2>2, BodyKeepsAnswer DEF StartStream, Bodyless, Places
<1>4. CASE StartRefused \/ BackendError
  BY <1>1, <1>4, BodyKeepsAnswer
     DEF StartRefused, BackendError, StreamFails, Bodyless, Places
<1>5. CASE EndOfStream
  <2>1. pc' \in {"done_sent", "error_sent"} /\ pc = "pulling"
    BY <1>5 DEF EndOfStream, StreamFails
  <2> QED BY <1>1, <1>5, <2>1, BodyKeepsAnswer DEF EndOfStream, Bodyless, Places
<1>6. CASE Cancel
  <2>1. pc' \in {"closed", "error_sent"} /\ pc = "pulling"
    BY <1>6 DEF Cancel, StreamFails
  <2>2. entry' = entry \/ entry' = "cancelled"
    BY <1>6 DEF Cancel, CancelledEntry
  <2>3. UNCHANGED <<settings, input, answer, waiting, reason>>
    BY <1>6 DEF Cancel
  <2> QED BY <1>1, <2>1, <2>2, <2>3, BodyKeepsAnswer DEF Bodyless, Places
<1>7. CASE PersistResult
  <2>1. pc' \in {"closed", "error_sent"} /\ pc = "done_sent"
    BY <1>7 DEF PersistResult, StreamFails
  <2>2. UNCHANGED <<settings, input, answer, waiting, reason, entry>>
    BY <1>7 DEF PersistResult
  <2> QED BY <1>1, <2>1, <2>2, BodyKeepsAnswer DEF Bodyless, Places
<1>8. CASE PersistFailure
  <2>1. /\ pc' \in {"closed", "broken"} /\ pc = "error_done"
        /\ UNCHANGED <<settings, input, answer, waiting>>
        /\ entry' = entry \/ entry' = "failed"
        /\ reason' = reason \/ reason' = "adapter_error"
    BY <1>8 DEF PersistFailure
  <2> QED BY <1>1, <2>1, BodyKeepsAnswer DEF Bodyless, Places, Reasons
<1>9. CASE Abandon
  BY <1>1, <1>9, BodyKeepsAnswer DEF Abandon, Bodyless, Places
<1>10. CASE Tick
  BY <1>1, <1>10, BodyKeepsAnswer DEF Tick, Bodyless, Places
<1>11. CASE UNCHANGED vars
  BY <1>11 DEF vars, AnswerInv, HandlingTypes, HandlingInv, ValidationExact,
               AnswerTellsOutcome, Valid
<1> QED BY <1>2, <1>3, <1>4, <1>5, <1>6, <1>7, <1>8, <1>9, <1>10, <1>11, Zenon,
           ReceiveKeepsAnswer, WithoutStackKeepsAnswer, FullPathKeepsAnswer,
           RaisesKeepsAnswer, StreamKeepsAnswer, TimeoutKeepsAnswer
       DEF Next

-----------------------------------------------------------------------------
(***************************************************************************)
(* Steps and the tokens.                                                   *)
(***************************************************************************)
Chunks == [text : BOOLEAN, finish : BOOLEAN, first : BOOLEAN, at : 0 .. MaxTime]
Upstreams == [index : 0 .. MaxChunks, end : {"open", "over", "dry"}]

StreamTypes ==
  /\ upstream \in Upstreams
  /\ chunk \in Chunks
  /\ session \in Sessions
  /\ sent \in Seq(Lines)
  /\ counts \in [Counters -> Nat]
  /\ now \in 0 .. MaxTime

LEMMA TypedParts == Typed <=> HandlingTypes /\ StreamTypes
BY DEF Typed, TypeOK, HandlingTypes, StreamTypes, Reasons, Statuses, Places, Chunks,
       Upstreams, Sessions

LEMMA TextsIsCount == ASSUME StreamTypes PROVE Texts = TextsIn(sent) /\ Texts \in Nat
<1>1. sent \in Seq(Lines) /\ "tail" \in Lines
  BY DEF StreamTypes, Lines
<1>2. TextsIn(sent) \in Nat
  BY <1>1, OneMoreLine
<1>3. Texts = TextsIn(sent)
  BY DEF Texts, TextsIn
<1> QED BY <1>2, <1>3

\* A step that neither sends nor accounts a text keeps the counters right.
LEMMA TokensUntouched ==
  ASSUME TokenInv, StreamTypes,
         session'.tokens = session.tokens, session'.times = session.times,
         Texts' = Texts,
         counts'["ttft"] = counts["ttft"], counts'["itl"] = counts["itl"],
         upstream'.index \in Nat, upstream.index <= upstream'.index,
         upstream.end = "dry" => upstream'.end = "dry",
         \/ pc \notin {"yielded", "abandoned"} /\ pc' # "yielded"
         \/ pc' = "abandoned"
         \/ pc' = pc /\ chunk' = chunk
  PROVE  TokenInv'
<1>1. Texts \in Nat /\ upstream.index \in Nat
  BY TextsIsCount, BoundsAssumption DEF StreamTypes, Upstreams
<1>2. Texts' <= upstream'.index
  BY <1>1 DEF TokenInv
<1>3. pc' \notin {"yielded", "abandoned"} => session'.tokens = Texts'
  BY DEF TokenInv
<1>4. pc' = "yielded" =>
        /\ session'.tokens + TokensOf(chunk)' = Texts'
        /\ Len(session'.times) = session'.tokens
        /\ chunk'.first => session'.tokens = 0
        /\ chunk'.first /\ ~chunk'.text => upstream'.end = "dry"
  BY DEF TokenInv, TokensOf
<1>5. \/ Len(session'.times) = session'.tokens
      \/ upstream'.end = "dry" /\ session'.tokens = 0 /\ Len(session'.times) = 1
  BY DEF TokenInv
<1>6. /\ counts'["ttft"] = IF Len(session'.times) = 0 THEN 0 ELSE 1
      /\ counts'["itl"] = IF session'.tokens = 0 THEN 0 ELSE session'.tokens - 1
  BY DEF TokenInv
<1> QED BY <1>2, <1>3, <1>4, <1>5, <1>6 DEF TokenInv

\* A chunk is delivered: the client has it, the counters do not yet.
LEMMA DeliverKeepsTokens ==
  ASSUME Inv, Deliver
  PROVE  StreamTypes' /\ TokenInv'
<1>1. StreamTypes /\ TokenInv /\ Texts = TextsIn(sent) /\ Texts \in Nat
  BY TypedParts, TextsIsCount DEF Inv
<1>2. PICK c \in NextChunks :
        /\ chunk' = c[1] /\ upstream' = c[2]
        /\ Says(<<IF c[1].text THEN "text" ELSE "tail">>)
  BY DEF Deliver
<1>3. /\ pc = "pulling" /\ pc' = "yielded"
      /\ UNCHANGED <<session, counts, now>>
  BY DEF Deliver
<1>4. /\ c[1] \in Chunks /\ c[2] \in Upstreams
      /\ c[2].index = upstream.index + TokensOf(c[1])
      /\ c[1].first => upstream.index = 0
      /\ upstream.end # "dry"
      /\ c[1].first /\ ~c[1].text => c[2].end = "dry"
  BY ChunksOfUpstream DEF Chunks, Upstreams
<1> DEFINE x == IF c[1].text THEN "text" ELSE "tail"
<1>5. x \in Lines /\ (x = "text" <=> c[1].text)
  BY DEF Lines
<1>6. sent' = sent \o <<x>>
  BY <1>2 DEF Says
<1> HIDE DEF x
<1>7. /\ sent' \in Seq(Lines)
      /\ TextsIn(sent') = TextsIn(sent) + (IF x = "text" THEN 1 ELSE 0)
  BY <1>1, <1>5, <1>6, OneMoreLine DEF StreamTypes
<1>8. TokensOf(c[1]) = (IF x = "text" THEN 1 ELSE 0)
  BY <1>5 DEF TokensOf
<1>9. Texts' = Texts + TokensOf(c[1]) /\ TokensOf(c[1]) \in {0, 1}
  <2>1. Texts' = TextsIn(sent')
    BY DEF Texts, TextsIn
  <2> QED BY <1>1, <1>7, <1>8, <2>1
<1>10. StreamTypes'
  BY <1>1, <1>2, <1>3, <1>4, <1>7 DEF StreamTypes
<1>11. /\ session.tokens = Texts /\ Texts <= upstream.index
       /\ Len(session.times) = session.tokens
  BY <1>1, <1>3, <1>4 DEF TokenInv
<1>12. upstream.index \in Nat /\ Texts' <= upstream'.index
  BY <1>1, <1>2, <1>4, <1>9, <1>11, BoundsAssumption DEF StreamTypes, Upstreams
<1>13. TokensOf(chunk)' = TokensOf(c[1])
  BY <1>2 DEF TokensOf
<1>14. /\ chunk'.first => session'.tokens = 0
       /\ chunk'.first /\ ~chunk'.text => upstream'.end = "dry"
  BY <1>1, <1>2, <1>3, <1>4, <1>11
<1>15. session'.tokens + TokensOf(chunk)' = Texts'
  BY <1>3, <1>9, <1>11, <1>13
<1>16. TokenInv'
  BY <1>1, <1>3, <1>11, <1>12, <1>14, <1>15 DEF TokenInv
<1> QED BY <1>10, <1>16

\* The chunk is accounted: the counters catch up with the client.
LEMMA AccountKeepsTokens ==
  ASSUME Inv, Account
  PROVE  StreamTypes' /\ TokenInv' /\ session'.state # "stream_cancelled"
<1>1. StreamTypes /\ TokenInv /\ Texts \in Nat
  BY TypedParts, TextsIsCount DEF Inv
<1>2. /\ pc = "yielded" /\ pc' = "pulling"
      /\ UNCHANGED <<upstream, chunk, sent, now>>
  BY DEF Account
<1>3. /\ chunk \in Chunks /\ session \in Sessions /\ counts \in [Counters -> Nat]
      /\ upstream \in Upstreams
  BY <1>1 DEF StreamTypes
<1> DEFINE first == chunk.first \/ (chunk.text /\ session.tokens = 0)
           st == IF chunk.finish THEN "stream_completed"
                 ELSE IF first THEN "stream_active" ELSE session.state
           times == IF first \/ chunk.text THEN Append(session.times, chunk.at) ELSE session.times
<1>4. session' = [state |-> st, tokens |-> session.tokens + TokensOf(chunk), times |-> times]
  BY DEF Account
<1>5. counts' = [counts EXCEPT !["ttft"] = counts["ttft"] + (IF first THEN 1 ELSE 0),
                               !["itl"] = counts["itl"] + (IF ~first /\ chunk.text THEN 1 ELSE 0),
                               !["completed"] = counts["completed"] + (IF chunk.finish THEN 1 ELSE 0)]
  BY DEF Account
<1>6. /\ counts' \in [Counters -> Nat]
      /\ counts'["ttft"] = counts["ttft"] + (IF first THEN 1 ELSE 0)
      /\ counts'["itl"] = counts["itl"] + (IF ~first /\ chunk.text THEN 1 ELSE 0)
  <2> HIDE DEF first
  <2> QED BY <1>3, <1>5 DEF Counters
<1>7. /\ session.tokens + TokensOf(chunk) = Texts
      /\ Len(session.times) = session.tokens
      /\ chunk.first => session.tokens = 0
      /\ Texts <= upstream.index
      /\ counts["ttft"] = IF Len(session.times) = 0 THEN 0 ELSE 1
      /\ counts["itl"] = IF session.tokens = 0 THEN 0 ELSE session.tokens - 1
  BY <1>1, <1>2 DEF TokenInv
<1>8. /\ session.tokens \in Nat /\ session.times \in Seq(0 .. MaxTime) /\ chunk.at \in 0 .. MaxTime
      /\ session.state \in StreamStates /\ upstream.index \in 0 .. MaxChunks
  BY <1>3, BoundsAssumption DEF Sessions, Chunks, Upstreams
<1>9. /\ TokensOf(chunk) \in {0, 1}
      /\ TokensOf(chunk) = 1 <=> chunk.text
  BY DEF TokensOf
<1>10. first => session.tokens = 0
  BY <1>7
<1>11. chunk.text /\ ~first => session.tokens # 0
  OBVIOUS
<1>12. Texts' = Texts
  BY <1>2 DEF Texts
<1>13. session.state # "stream_cancelled"
  BY <1>2 DEF Inv, BodyInv
<1>14. st \in StreamStates /\ st # "stream_cancelled"
  BY <1>8, <1>13 DEF StreamStates
<1>15. /\ times \in Seq(0 .. MaxTime)
       /\ Len(times) = session.tokens + (IF first \/ chunk.text THEN 1 ELSE 0)
  <2>1. /\ Append(session.times, chunk.at) \in Seq(0 .. MaxTime)
        /\ Len(Append(session.times, chunk.at)) = session.tokens + 1
    BY <1>7, <1>8, AppendProperties
  <2>2. CASE first \/ chunk.text
    <3>1. times = Append(session.times, chunk.at)
      BY <2>2, Zenon
    <3>2. (IF first \/ chunk.text THEN 1 ELSE 0) = 1
      BY <2>2, Zenon
    <3> HIDE DEF first, times
    <3> QED BY <2>1, <3>1, <3>2
  <2>3. CASE ~(first \/ chunk.text)
    <3>1. times = session.times
      BY <2>3, Zenon
    <3>2. (IF first \/ chunk.text THEN 1 ELSE 0) = 0
      BY <2>3, Zenon
    <3> HIDE DEF first, times
    <3> QED BY <1>7, <1>8, <3>1, <3>2
  <2> QED BY <2>2, <2>3
<1>16. session.tokens + TokensOf(chunk) \in 0 .. MaxChunks
  BY <1>1, <1>7, <1>8, BoundsAssumption
<1>17. /\ session' \in Sessions /\ session'.tokens = Texts /\ session'.times = times
       /\ session'.state = st
  <2> HIDE DEF st, times
  <2> QED BY <1>4, <1>7, <1>14, <1>15, <1>16 DEF Sessions
<1>18. StreamTypes'
  BY <1>1, <1>2, <1>6, <1>17 DEF StreamTypes
<1> HIDE DEF first, st, times
<1>19. \/ Len(session'.times) = session'.tokens
       \/ upstream'.end = "dry" /\ session'.tokens = 0 /\ Len(session'.times) = 1
  <2>1. CASE chunk.text
    BY <1>7, <1>8, <1>9, <1>15, <1>17, <2>1
  <2>2. CASE ~chunk.text /\ ~first
    BY <1>7, <1>8, <1>9, <1>15, <1>17, <2>2
  <2>3. CASE ~chunk.text /\ first
    <3>0. /\ TokensOf(chunk) = 0 /\ session.tokens = 0
          /\ (IF first \/ chunk.text THEN 1 ELSE 0) = 1
      BY <1>9, <1>10, <2>3
    <3>1. session'.tokens = 0 /\ Len(session'.times) = 1
      BY <1>7, <1>15, <1>17, <3>0
    <3>2. chunk.first
      BY <2>3 DEF first
    <3>3. upstream.end = "dry"
      BY <1>1, <1>2, <2>3, <3>2, Zenon DEF TokenInv
    <3> QED BY <1>2, <3>1, <3>3
  <2> QED BY <2>1, <2>2, <2>3
<1>20. /\ counts'["ttft"] = IF Len(session'.times) = 0 THEN 0 ELSE 1
       /\ counts'["itl"] = IF session'.tokens = 0 THEN 0 ELSE session'.tokens - 1
  <2>1. CASE first
    BY <1>6, <1>7, <1>8, <1>9, <1>10, <1>15, <1>17, <2>1
  <2>2. CASE ~first
    BY <1>6, <1>7, <1>8, <1>9, <1>11, <1>15, <1>17, <2>2
  <2> QED BY <2>1, <2>2
<1>21. TokenInv'
  BY <1>2, <1>7, <1>12, <1>17, <1>19, <1>20 DEF TokenInv
<1> QED BY <1>14, <1>17, <1>18, <1>21

\* A step that leaves the stream alone keeps its typing and its counters.
LEMMA QuietStep ==
  ASSUME Inv, UNCHANGED streamVars, now' \in 0 .. MaxTime,
         \/ pc \notin {"yielded", "abandoned"} /\ pc' # "yielded"
         \/ pc' = "abandoned"
         \/ pc' = pc
  PROVE  StreamTypes' /\ TokenInv'
<1>1. StreamTypes /\ TokenInv
  BY TypedParts DEF Inv
<1>2. UNCHANGED <<upstream, chunk, session, metrics, sent, counts>>
  BY DEF streamVars
<1>3. StreamTypes'
  BY <1>1, <1>2 DEF StreamTypes
<1>4. Texts' = Texts
  BY <1>2 DEF Texts
<1>5. upstream.index \in Nat
  BY <1>1, BoundsAssumption DEF StreamTypes, Upstreams
<1>6. TokenInv'
  BY <1>1, <1>2, <1>4, <1>5, TokensUntouched
<1> QED BY <1>3, <1>6

\* A step that fails, ends or says something other than a text.
LEMMA SpeakingStep ==
  ASSUME Inv, pc \notin {"yielded", "abandoned"}, pc' # "yielded",
         session' \in Sessions,
         session'.tokens = session.tokens, session'.times = session.times,
         counts' \in [Counters -> Nat],
         counts'["ttft"] = counts["ttft"], counts'["itl"] = counts["itl"],
         sent' \in Seq(Lines), Texts' = Texts,
         UNCHANGED <<chunk, now>>,
         upstream' \in Upstreams, upstream.index <= upstream'.index,
         upstream.end = "dry" => upstream'.end = "dry"
  PROVE  StreamTypes' /\ TokenInv'
<1>1. StreamTypes /\ TokenInv
  BY TypedParts DEF Inv
<1>2. StreamTypes'
  BY <1>1 DEF StreamTypes
<1>3. upstream'.index \in Nat
  BY BoundsAssumption DEF Upstreams
<1>4. TokenInv'
  BY <1>1, <1>3, TokensUntouched
<1> QED BY <1>2, <1>4

LEMMA StepKeepsTokens ==
  ASSUME Inv, [Next]_vars
  PROVE  StreamTypes' /\ TokenInv'
<1>1. StreamTypes /\ TokenInv /\ pc \in Places
  BY TypedParts DEF Inv, HandlingTypes
<1>2. /\ now \in 0 .. MaxTime /\ session \in Sessions /\ counts \in [Counters -> Nat]
      /\ sent \in Seq(Lines) /\ upstream \in Upstreams /\ upstream.index \in Nat
  BY <1>1, BoundsAssumption DEF StreamTypes, Upstreams
<1>3. upstream.index <= upstream.index
  BY <1>2
<1>4. ASSUME NEW i \in Inputs, Receive(i) PROVE StreamTypes' /\ TokenInv'
  <2>1. UNCHANGED streamVars /\ now' = now /\ pc = "arrival" /\ pc' \in {"answered", "accepting"}
    BY <1>4 DEF Receive, Answers
  <2> QED BY <1>2, <2>1, QuietStep
<1>5. CASE AcceptWithoutStack \/ AcceptFullPath \/ CaptureRaises \/ PathRaises \/ AcceptStream
  <2>1. UNCHANGED streamVars /\ now' = now /\ pc = "accepting" /\ pc' \in {"answered", "opened"}
    BY <1>5 DEF AcceptWithoutStack, AcceptFullPath, CaptureRaises, PathRaises, AcceptStream, Answers
  <2> QED BY <1>2, <2>1, QuietStep
<1>6. CASE QueueTimeout \/ UNCHANGED vars
  <2>1. UNCHANGED streamVars /\ now' = now /\ pc' = pc
    BY <1>6 DEF QueueTimeout, vars
  <2> QED BY <1>2, <2>1, QuietStep
<1>7. CASE PersistFailure \/ Abandon
  <2>1. /\ UNCHANGED streamVars /\ now' = now
        /\ (pc = "error_done" /\ pc' \in {"closed", "broken"}) \/ pc' = "abandoned"
    BY <1>7 DEF PersistFailure, Abandon
  <2> QED BY <1>2, <2>1, QuietStep
<1>8. CASE Tick
  <2>1. UNCHANGED streamVars /\ now' \in 0 .. MaxTime /\ pc' = pc
    BY <1>2, <1>8, BoundsAssumption DEF Tick
  <2> QED BY <2>1, QuietStep
<1>9. CASE OpenBody
  <2>1. /\ pc = "opened" /\ pc' = "starting"
        /\ UNCHANGED <<upstream, chunk, session, sent, now>>
        /\ counts' = [counts EXCEPT !["created"] = @ + 1]
    BY <1>9 DEF OpenBody, Counted
  <2>2. /\ counts' \in [Counters -> Nat]
        /\ counts'["ttft"] = counts["ttft"] /\ counts'["itl"] = counts["itl"]
    BY <1>2, <2>1 DEF Counters
  <2>3. Texts' = Texts
    BY <2>1 DEF Texts
  <2> QED BY <1>2, <1>3, <2>1, <2>2, <2>3, SpeakingStep
<1>10. CASE StartStream /\ entry' = "streaming"
  <2>1. /\ pc = "starting" /\ pc' = "pulling"
        /\ UNCHANGED <<upstream, chunk, session, metrics, sent, counts, now>>
    BY <1>10 DEF StartStream
  <2> QED BY <1>2, <2>1, QuietStep DEF streamVars
<1>11. ASSUME StreamFails(counts), pc \notin {"yielded", "abandoned"},
              UNCHANGED <<upstream, chunk, now>>
       PROVE  StreamTypes' /\ TokenInv'
  BY <1>2, <1>3, <1>11, FailingNow, SpeakingStep
<1>12. CASE StartStream /\ entry' # "streaming"
  BY <1>11, <1>12 DEF StartStream
<1>13. CASE StartRefused \/ BackendError
  BY <1>11, <1>13 DEF StartRefused, BackendError
<1>14. CASE UpstreamEnds
  <2>1. /\ pc = "pulling" /\ pc' = pc /\ upstream.end = "open"
        /\ upstream' = [upstream EXCEPT !.end = "over"]
        /\ UNCHANGED <<chunk, session, sent, counts, now>>
    BY <1>14 DEF UpstreamEnds
  <2>2. upstream' \in Upstreams /\ upstream'.index = upstream.index
    BY <1>2, <2>1 DEF Upstreams
  <2>3. Texts' = Texts
    BY <2>1 DEF Texts
  <2> QED BY <1>2, <1>3, <2>1, <2>2, <2>3, SpeakingStep
<1>15. CASE EndOfStream
  <2>1. pc = "pulling" /\ UNCHANGED <<upstream, chunk, now>>
    BY <1>15 DEF EndOfStream
  <2>2. CASE entry = "streaming"
    <3>1. Says(<<"done">>) /\ pc' = "done_sent" /\ UNCHANGED <<session, counts>>
      BY <1>15, <2>2 DEF EndOfStream
    <3> QED BY <1>2, <1>3, <2>1, <3>1, SayingDone, SpeakingStep
  <2>3. CASE entry # "streaming"
    BY <1>11, <1>15, <2>1, <2>3 DEF EndOfStream
  <2> QED BY <2>2, <2>3
<1>16. CASE Cancel
  <2>1. pc = "pulling" /\ UNCHANGED <<chunk, now>>
    BY <1>16 DEF Cancel
  <2>2. PICK c \in NextChunks : upstream' = c[2]
    BY <1>16 DEF Cancel
  <2>3. /\ c[2] \in Upstreams /\ c[2].index = upstream.index + TokensOf(c[1])
        /\ upstream.end # "dry"
    BY ChunksOfUpstream DEF Upstreams
  <2>4. upstream' \in Upstreams /\ upstream.index <= upstream'.index
    BY <1>2, <2>2, <2>3 DEF TokensOf
  <2>5. CASE StreamFails([counts EXCEPT !["cancelled"] = @ + 1])
    BY <2>1, <2>3, <2>4, <2>5, FailingAfterCancel, SpeakingStep
  <2>6. CASE /\ session' = [session EXCEPT !.state = "stream_cancelled"]
             /\ Counted("cancelled") /\ pc' = "closed" /\ UNCHANGED sent
    <3>1. /\ session' \in Sessions
          /\ session'.tokens = session.tokens /\ session'.times = session.times
      BY <1>2, <2>6, SessionMoves DEF StreamStates
    <3>2. /\ counts' \in [Counters -> Nat]
          /\ counts'["ttft"] = counts["ttft"] /\ counts'["itl"] = counts["itl"]
      BY <1>2, <2>6 DEF Counted, Counters
    <3>3. Texts' = Texts
      BY <2>6 DEF Texts
    <3> QED BY <1>2, <2>1, <2>3, <2>4, <2>6, <3>1, <3>2, <3>3, SpeakingStep
  <2> QED BY <1>16, <2>5, <2>6 DEF Cancel
<1>17. CASE PersistResult
  <2>1. pc = "done_sent" /\ UNCHANGED <<upstream, chunk, now>>
    BY <1>17 DEF PersistResult
  <2>2. CASE StreamFails(counts)
    BY <1>11, <2>1, <2>2
  <2>3. CASE pc' = "closed" /\ UNCHANGED <<session, sent, counts>>
    <3>1. Texts' = Texts
      BY <2>3 DEF Texts
    <3> QED BY <1>2, <1>3, <2>1, <2>3, <3>1, SpeakingStep
  <2> QED BY <1>17, <2>2, <2>3 DEF PersistResult
<1>18. CASE EndError
  <2>1. /\ pc = "error_sent" /\ pc' = "error_done" /\ Says(<<"done">>)
        /\ UNCHANGED <<upstream, chunk, session, counts, now>>
    BY <1>18 DEF EndError
  <2> QED BY <1>2, <1>3, <2>1, SayingDone, SpeakingStep
<1>19. CASE Deliver
  BY <1>19, DeliverKeepsTokens
<1>20. CASE Account
  BY <1>20, AccountKeepsTokens
<1> QED BY <1>4, <1>5, <1>6, <1>7, <1>8, <1>9, <1>10, <1>12, <1>13, <1>14, <1>15,
           <1>16, <1>17, <1>18, <1>19, <1>20, Zenon DEF Next

-----------------------------------------------------------------------------
(***************************************************************************)
(* Steps and the body.                                                     *)
(***************************************************************************)
BodyPart == BodyInv /\ BodyEndsWithDone /\ ClientAndRecordAgree

\* A step at which the body says nothing and has not ended.
LEMMA SilentStep ==
  ASSUME Inv, pc \in Bodyless \cup Flowing, pc' \in Bodyless \cup Flowing, UNCHANGED sent,
         session'.state # "stream_cancelled"
  PROVE  BodyPart'
<1>1. pc' \notin {"done_sent", "error_sent", "error_done", "closed"}
  BY DEF Bodyless, Flowing
<1>2. Range(sent) \cap {"done", "error"} = {}
  BY DEF Inv, BodyInv
<1>3. BodyInv'
  BY <1>1, <1>2 DEF BodyInv
<1>4. BodyEndsWithDone' /\ ClientAndRecordAgree'
  BY <1>1 DEF BodyEndsWithDone, ClientAndRecordAgree
<1> QED BY <1>3, <1>4 DEF BodyPart

\* The first half of the exception handler, from wherever it is entered.
LEMMA FailureStep ==
  ASSUME pc' = "error_sent", session'.state = "stream_failed",
         sent' # <<>>, "error" \in Range(sent')
  PROVE  BodyPart'
<1>1. BodyInv'
  BY DEF BodyInv, Bodyless, Flowing
<1>2. BodyEndsWithDone' /\ ClientAndRecordAgree'
  BY DEF BodyEndsWithDone, ClientAndRecordAgree
<1> QED BY <1>1, <1>2 DEF BodyPart

\* A body without [DONE] and error does not end with [DONE].
LEMMA PlainHasNoDone ==
  ASSUME NEW s \in Seq(Lines), Range(s) \cap {"done", "error"} = {}, s # <<>>
  PROVE  Last(s) # "done"
BY LastIsSent

LEMMA CancelKeepsBody ==
  ASSUME Inv, Cancel
  PROVE  BodyPart'
<1>1. pc = "pulling"
  BY DEF Cancel
<1>2. CASE StreamFails([counts EXCEPT !["cancelled"] = @ + 1])
  BY <1>2, FailingAfterCancel, FailureStep
<1>3. CASE /\ session' = [session EXCEPT !.state = "stream_cancelled"]
           /\ pc' = "closed" /\ UNCHANGED sent
  <2>1. session \in Sessions /\ sent \in Seq(Lines)
    BY DEF Inv, Typed, Sessions
  <2>2. session'.state = "stream_cancelled"
    BY <1>3, <2>1, SessionMoves DEF StreamStates
  <2>3. Range(sent) \cap {"done", "error"} = {}
    BY <1>1 DEF Inv, BodyInv, Flowing
  <2>4. BodyInv'
    BY <1>3 DEF BodyInv, Bodyless, Flowing
  <2>5. BodyEndsWithDone'
    BY <1>3, <2>2, <2>3 DEF BodyEndsWithDone
  <2>6. ClientAndRecordAgree'
    BY <1>3, <2>1, <2>3, PlainHasNoDone DEF ClientAndRecordAgree
  <2> QED BY <2>4, <2>5, <2>6 DEF BodyPart
<1> QED BY <1>2, <1>3 DEF Cancel

LEMMA PersistResultKeepsBody ==
  ASSUME Inv, PersistResult
  PROVE  BodyPart'
<1>1. /\ pc = "done_sent" /\ UNCHANGED entry
  BY DEF PersistResult, entryVars
<1>2. CASE StreamFails(counts)
  BY <1>2, FailingNow, FailureStep
<1>3. CASE /\ Captured(entry, MetricsOf(session)) /\ pc' = "closed"
           /\ UNCHANGED <<session, sent, counts>>
  <2>1. /\ sent # <<>> /\ Last(sent) = "done" /\ "error" \notin Range(sent)
        /\ entry \in {"completed", "timed_out"} /\ session.state # "stream_cancelled"
    BY <1>1 DEF Inv, BodyInv
  <2>2. record'.state = entry /\ record'.tokens = session.tokens
    BY <1>3 DEF Captured, MetricsOf
  <2>3. BodyInv'
    BY <1>3 DEF BodyInv, Bodyless, Flowing
  <2>4. BodyEndsWithDone'
    BY <1>3, <2>1 DEF BodyEndsWithDone
  <2>5. ClientAndRecordAgree'
    BY <1>3, <2>1, <2>2 DEF ClientAndRecordAgree
  <2> QED BY <2>3, <2>4, <2>5 DEF BodyPart
<1> QED BY <1>2, <1>3 DEF PersistResult

LEMMA PersistFailureKeepsBody ==
  ASSUME Inv, PersistFailure
  PROVE  BodyPart'
<1>1. pc = "error_done" /\ UNCHANGED <<session, sent>>
  BY DEF PersistFailure, streamVars
<1>2. /\ sent # <<>> /\ Last(sent) = "done" /\ "error" \in Range(sent)
      /\ session.state # "stream_cancelled"
  BY <1>1 DEF Inv, BodyInv
<1>3. CASE pc' = "broken"
  BY <1>1, <1>2, <1>3 DEF BodyPart, BodyInv, BodyEndsWithDone, ClientAndRecordAgree,
                          Bodyless, Flowing
<1>4. CASE pc' = "closed" /\ Captured(IF Unsettled THEN "failed" ELSE entry, metrics)
  <2>1. entry' \in {"failed", "cancelled"} /\ record'.state \in {"failed", "cancelled"}
    BY <1>4 DEF PersistFailure, Captured, Unsettled
  <2>2. BodyInv'
    BY <1>4 DEF BodyInv, Bodyless, Flowing
  <2>3. BodyEndsWithDone'
    BY <1>1, <1>2, <1>4 DEF BodyEndsWithDone
  <2>4. ClientAndRecordAgree'
    BY <1>1, <1>2, <1>4, <2>1 DEF ClientAndRecordAgree
  <2> QED BY <2>2, <2>3, <2>4 DEF BodyPart
<1> QED BY <1>3, <1>4 DEF PersistFailure

LEMMA EndOfStreamKeepsBody ==
  ASSUME Inv, EndOfStream
  PROVE  BodyPart'
<1>1. pc = "pulling"
  BY DEF EndOfStream
<1>2. CASE entry = "streaming"
  <2>1. /\ entry' = "completed" /\ Says(<<"done">>) /\ pc' = "done_sent"
        /\ session' = session
    BY <1>2 DEF EndOfStream
  <2>2. /\ sent' # <<>> /\ Last(sent') = "done" /\ Range(sent') = Range(sent) \cup {"done"}
    BY <2>1, SayingDone
  <2>3. Range(sent) \cap {"done", "error"} = {} /\ session.state # "stream_cancelled"
    BY <1>1 DEF Inv, BodyInv, Flowing
  <2>4. BodyInv'
    BY <2>1, <2>2, <2>3 DEF BodyInv, Bodyless, Flowing
  <2>5. BodyEndsWithDone' /\ ClientAndRecordAgree'
    BY <2>1 DEF BodyEndsWithDone, ClientAndRecordAgree
  <2> QED BY <2>4, <2>5 DEF BodyPart
<1>3. CASE entry # "streaming"
  BY <1>3, FailingNow, FailureStep DEF EndOfStream
<1> QED BY <1>2, <1>3

LEMMA DeliverKeepsBody ==
  ASSUME Inv, Deliver
  PROVE  BodyPart'
<1>1. pc = "pulling" /\ pc' = "yielded" /\ session' = session
  BY DEF Deliver
<1>2. PICK c \in NextChunks : Says(<<IF c[1].text THEN "text" ELSE "tail">>)
  BY DEF Deliver
<1> DEFINE x == IF c[1].text THEN "text" ELSE "tail"
<1>3. x \in Lines /\ x \notin {"done", "error"}
  BY DEF Lines
<1>4. sent' = sent \o <<x>> /\ sent \in Seq(Lines)
  BY <1>2 DEF Says, Inv, Typed
<1> HIDE DEF x
<1>5. Range(sent') = Range(sent) \cup {x}
  BY <1>3, <1>4, OneMoreLine
<1>6. Range(sent) \cap {"done", "error"} = {} /\ session.state # "stream_cancelled"
  BY <1>1 DEF Inv, BodyInv, Flowing
<1>7. BodyInv'
  BY <1>1, <1>3, <1>5, <1>6 DEF BodyInv
<1>8. BodyEndsWithDone' /\ ClientAndRecordAgree'
  BY <1>1 DEF BodyEndsWithDone, ClientAndRecordAgree
<1> QED BY <1>7, <1>8 DEF BodyPart

LEMMA StepKeepsBody ==
  ASSUME Inv, [Next]_vars
  PROVE  BodyPart'
<1> USE DEF streamVars
<1>1. pc # "closed" => session.state # "stream_cancelled"
  BY DEF Inv, BodyInv
<1>2. ASSUME NEW i \in Inputs, Receive(i) PROVE BodyPart'
  <2>1. UNCHANGED <<sent, session>> /\ pc = "arrival" /\ pc' \in {"answered", "accepting"}
    BY <1>2 DEF Receive, Answers
  <2> QED BY <1>1, <2>1, SilentStep DEF Bodyless
<1>3. CASE AcceptWithoutStack \/ AcceptFullPath \/ CaptureRaises \/ PathRaises \/ AcceptStream
  <2>1. UNCHANGED <<sent, session>> /\ pc = "accepting" /\ pc' \in {"answered", "opened"}
    BY <1>3 DEF AcceptWithoutStack, AcceptFullPath, CaptureRaises, PathRaises, AcceptStream, Answers
  <2> QED BY <1>1, <2>1, SilentStep DEF Bodyless, Flowing
<1>4. CASE OpenBody \/ UpstreamEnds \/ Tick
  BY <1>1, <1>4, SilentStep DEF OpenBody, UpstreamEnds, Tick, Flowing
<1>5. CASE StartStream /\ entry' = "streaming"
  BY <1>1, <1>5, SilentStep DEF StartStream, Flowing
<1>6. CASE StartStream /\ entry' # "streaming"
  BY <1>6, FailingNow, FailureStep DEF StartStream
<1>7. CASE StartRefused \/ BackendError
  BY <1>7, FailingNow, FailureStep DEF StartRefused, BackendError
<1>8. CASE Account
  <2>1. pc = "yielded" /\ pc' = "pulling" /\ UNCHANGED sent
    BY <1>8 DEF Account
  <2> QED BY <1>8, <2>1, AccountKeepsTokens, SilentStep DEF Flowing
<1>9. CASE EndError
  <2>1. pc = "error_sent" /\ pc' = "error_done" /\ Says(<<"done">>) /\ session' = session
    BY <1>9 DEF EndError
  <2>2. sent' # <<>> /\ Last(sent') = "done" /\ Range(sent') = Range(sent) \cup {"done"}
    BY <2>1, SayingDone
  <2>3. "error" \in Range(sent)
    BY <2>1 DEF Inv, BodyInv
  <2> QED BY <1>1, <2>1, <2>2, <2>3
          DEF BodyPart, BodyInv, BodyEndsWithDone, ClientAndRecordAgree, Bodyless, Flowing
<1>10. CASE Abandon
  <2>1. pc' = "abandoned" /\ pc # "closed" /\ session' = session
    BY <1>10 DEF Abandon
  <2> QED BY <1>1, <2>1
          DEF BodyPart, BodyInv, BodyEndsWithDone, ClientAndRecordAgree, Bodyless, Flowing
<1>11. CASE QueueTimeout
  <2>1. entry' = "timed_out" /\ UNCHANGED <<pc, sent, session, record>>
    BY <1>11 DEF QueueTimeout
  <2>2. BodyInv'
    BY <2>1 DEF Inv, BodyInv
  <2>3. BodyEndsWithDone' /\ ClientAndRecordAgree'
    BY <2>1 DEF Inv, BodyEndsWithDone, ClientAndRecordAgree
  <2> QED BY <2>2, <2>3 DEF BodyPart
<1>12. CASE UNCHANGED vars
  BY <1>12 DEF vars, entryVars, Inv, BodyPart, BodyInv, BodyEndsWithDone, ClientAndRecordAgree
<1> QED BY <1>2, <1>3, <1>4, <1>5, <1>6, <1>7, <1>8, <1>9, <1>10, <1>11, <1>12, Zenon,
           CancelKeepsBody, PersistResultKeepsBody, PersistFailureKeepsBody,
           EndOfStreamKeepsBody, DeliverKeepsBody
        DEF Next

-----------------------------------------------------------------------------
(***************************************************************************)
(* The theorems.                                                           *)
(***************************************************************************)

LEMMA InitInv == Init => Inv
<1> SUFFICES ASSUME Init PROVE Inv
  OBVIOUS
<1> USE DEF Init
<1>1. 0 \in 0 .. MaxChunks /\ 0 \in 0 .. MaxTime
  BY BoundsAssumption
<1>2. HandlingTypes
  BY DEF HandlingTypes, NoAnswer, Reasons, Places, Statuses
<1>3. StreamTypes
  BY <1>1 DEF StreamTypes, Upstreams, Chunks, Sessions, StreamStates, Counters
<1>4. Texts = 0 /\ Range(sent) = {}
  BY <1>3, NoLine, TextsIsCount
<1>5. TokenInv
  <2>1. Len(session.times) = 0
    OBVIOUS
  <2>2. counts["ttft"] = 0 /\ counts["itl"] = 0
    OBVIOUS
  <2> QED BY <1>4, <2>1, <2>2 DEF TokenInv
<1>6. HandlingInv
  BY DEF HandlingInv, Bodyless, NoAnswer
<1>7. BodyInv
  BY <1>4 DEF BodyInv
<1>8. ValidationExact /\ AnswerTellsOutcome /\ BodyEndsWithDone /\ ClientAndRecordAgree
  BY DEF NoAnswer, ValidationExact, AnswerTellsOutcome, BodyEndsWithDone, ClientAndRecordAgree
<1> QED BY <1>2, <1>3, <1>5, <1>6, <1>7, <1>8, TypedParts DEF Inv

LEMMA NextInv == Inv /\ [Next]_vars => Inv'
<1> SUFFICES ASSUME Inv, [Next]_vars PROVE Inv'
  OBVIOUS
<1>1. AnswerInv
  BY TypedParts DEF Inv, AnswerInv
<1>2. AnswerInv'
  BY <1>1, StepKeepsAnswer
<1>3. StreamTypes' /\ TokenInv'
  BY StepKeepsTokens
<1>4. BodyPart'
  BY StepKeepsBody
<1>5. Typed' <=> HandlingTypes' /\ StreamTypes'
  BY TypedParts, PTL
<1> QED BY <1>2, <1>3, <1>4, <1>5 DEF Inv, AnswerInv, BodyPart

LEMMA InvInvariant == Spec => []Inv
BY InitInv, NextInv, PTL DEF Spec

\* The control plane sees valid requests only, the others are told at once, and
\* no valid one is told that it was bad, for any limits of the model.
THEOREM ValidationIsExact == Spec => []ValidationExact
<1>1. Inv => ValidationExact
  BY DEF Inv
<1> QED BY <1>1, InvInvariant, PTL

\* The status of the full path tells what was captured, also when a timeout
\* overwrites the entry after the answer; no timeout overwrites the rejection
\* behind a 429.
THEOREM AnswerAlwaysTellsOutcome == Spec => []AnswerTellsOutcome
<1>1. Inv => AnswerTellsOutcome
  BY DEF Inv
<1> QED BY <1>1, InvInvariant, PTL

\* Every body that ends properly ends with [DONE] or was cancelled before it
\* said anything final.
THEOREM EveryBodyEndsWithDone == Spec => []BodyEndsWithDone
<1>1. Inv => BodyEndsWithDone
  BY DEF Inv
<1> QED BY <1>1, InvInvariant, PTL

\* What the client saw and what is recorded of a stream agree.
THEOREM ClientAgreesWithRecord == Spec => []ClientAndRecordAgree
<1>1. Inv => ClientAndRecordAgree
  BY DEF Inv
<1> QED BY <1>1, InvInvariant, PTL

\* Timestamps n against t texts and m first-token samples.
LEMMA LatencySamples ==
  ASSUME NEW t \in Nat, NEW n \in Nat, NEW m \in {0, 1}, m = 0 <=> n = 0,
         n = t \/ (t = 0 /\ n = 1)
  PROVE  n \in {t, m} /\ \A y \in {t, m} : y <= n
<1>1. CASE n = 0
  BY <1>1
<1>2. CASE n # 0
  <2>1. m = 1
    BY <1>2
  <2> QED BY <1>2, <2>1
<1> QED BY <1>1, <1>2

\* Types, and the token and latency counters of a stream of any length: one
\* token per text, one first-token sample, one latency between neighbours.
THEOREM TokensAlwaysAccounted == Spec => []TokensAccounted
<1>1. ASSUME Inv PROVE TokensAccounted
  <2>1. StreamTypes /\ TokenInv /\ Texts \in Nat
    BY <1>1, TypedParts, TextsIsCount DEF Inv
  <2>2. session.times \in Seq(0 .. MaxTime)
    BY <2>1 DEF StreamTypes, Sessions
  <2>3. Len(session.times) \in Nat /\ (Len(session.times) = 0 <=> session.times = <<>>)
    BY <2>2, EmptySeq, LenProperties
  <2>4. ASSUME pc \notin {"yielded", "abandoned"}
        PROVE  /\ session.tokens = Texts
               /\ counts["ttft"] = (IF session.times = <<>> THEN 0 ELSE 1)
               /\ counts["itl"] = (IF Texts = 0 THEN 0 ELSE Texts - 1)
               /\ Len(session.times) = Max({Texts, counts["ttft"]})
    <3>1. session.tokens = Texts
      BY <2>1, <2>4 DEF TokenInv
    <3>2. counts["ttft"] = (IF session.times = <<>> THEN 0 ELSE 1)
      BY <2>1, <2>3 DEF TokenInv
    <3>3. counts["itl"] = (IF Texts = 0 THEN 0 ELSE Texts - 1)
      BY <2>1, <3>1 DEF TokenInv
    <3>4. \/ Len(session.times) = Texts
          \/ Texts = 0 /\ Len(session.times) = 1
      BY <2>1, <3>1 DEF TokenInv
    <3> DEFINE S == {Texts, counts["ttft"]}
    <3>5. counts["ttft"] \in {0, 1} /\ (counts["ttft"] = 0 <=> Len(session.times) = 0)
      BY <2>3, <3>2
    <3>6. Len(session.times) \in S /\ \A y \in S : y <= Len(session.times)
      BY <2>1, <2>3, <3>4, <3>5, LatencySamples
    <3>7. \A x \in S : (\A y \in S : x >= y) => x = Len(session.times)
      BY <2>1, <2>3, <3>5, <3>6
    <3>8. \E x \in S : \A y \in S : x >= y
      BY <2>1, <2>3, <3>5, <3>6
    <3>9. Max(S) = Len(session.times)
      <4> HIDE DEF S
      <4> QED BY <3>7, <3>8 DEF Max
    <3> QED BY <3>1, <3>2, <3>3, <3>9
  <2> QED BY <1>1, <2>4 DEF TokensAccounted, Inv, Typed
<1> QED BY <1>1, InvInvariant, PTL

-----------------------------------------------------------------------------
(***************************************************************************)
(* Sorting and percentiles of the latencies.                               *)
(***************************************************************************)

\* A value before another one in the sorted order has the smaller rank.
LEMMA RankGrows ==
  ASSUME NEW values \in Seq(Nat), NEW a \in DOMAIN values, NEW b \in DOMAIN values,
         NotAbove(values, a, b), a # b
  PROVE  Cardinality({j \in DOMAIN values : NotAbove(values, j, a)})
           < Cardinality({j \in DOMAIN values : NotAbove(values, j, b)})
<1> DEFINE A == {j \in DOMAIN values : NotAbove(values, j, a)}
           B == {j \in DOMAIN values : NotAbove(values, j, b)}
<1>1. /\ Len(values) \in Nat /\ DOMAIN values = 1..Len(values)
      /\ \A j \in DOMAIN values : values[j] \in Nat
  BY LenProperties
<1>2. A \in SUBSET B /\ b \in B /\ b \notin A
  BY <1>1 DEF NotAbove
<1>3. IsFiniteSet(B)
  <2>1. IsFiniteSet(DOMAIN values)
    BY <1>1, FS_Interval
  <2> QED BY <2>1, FS_Subset
<1> HIDE DEF A, B
<1>4. IsFiniteSet(A) /\ Cardinality(A) <= Cardinality(B)
      /\ (Cardinality(B) = Cardinality(A) => A = B)
  BY <1>2, <1>3, FS_Subset
<1>5. Cardinality(A) \in Nat /\ Cardinality(B) \in Nat
  BY <1>3, <1>4, FS_CardinalityType
<1>6. Cardinality(A) < Cardinality(B)
  BY <1>2, <1>4, <1>5
<1> QED BY <1>6 DEF A, B

LEMMA RankInRange ==
  ASSUME NEW values \in Seq(Nat), NEW a \in DOMAIN values
  PROVE  Cardinality({j \in DOMAIN values : NotAbove(values, j, a)}) \in DOMAIN values
<1> DEFINE A == {j \in DOMAIN values : NotAbove(values, j, a)}
           n == Len(values)
<1>1. /\ n \in Nat /\ DOMAIN values = 1..n
      /\ \A j \in DOMAIN values : values[j] \in Nat
  BY LenProperties
<1>2. A \in SUBSET (1..n) /\ a \in A
  BY <1>1 DEF NotAbove
<1> HIDE DEF A, n
<1>3. IsFiniteSet(1..n) /\ Cardinality(1..n) = n
  <2>1. /\ IsFiniteSet(1..n)
        /\ Cardinality(1..n) = IF 1 > n THEN 0 ELSE n - 1 + 1
    BY <1>1, 1 \in Int, n \in Int, FS_Interval, Zenon
  <2> QED BY <1>1, <2>1
<1>4. IsFiniteSet(A) /\ Cardinality(A) <= n
  BY <1>2, <1>3, FS_Subset
<1>5. Cardinality(A) # 0 /\ Cardinality(A) \in Nat
  BY <1>2, <1>4, FS_EmptySet, FS_CardinalityType
<1>6. Cardinality(A) \in 1..n
  BY <1>1, <1>4, <1>5
<1> QED BY <1>1, <1>6 DEF A

\* What sorted() returns: the same values, in another order (p), none before
\* a smaller one.
Sorts(p, values) ==
  /\ p \in Injection(DOMAIN values, DOMAIN values)
  /\ \A k \in DOMAIN values : Ordered(values)[k] = values[p[k]]
  /\ \A k, l \in DOMAIN values : k <= l => values[p[k]] <= values[p[l]]

LEMMA OrderedIsSorted ==
  ASSUME NEW values \in Seq(Nat)
  PROVE  \E p : Sorts(p, values)
<1> DEFINE D == DOMAIN values
           Rank(i) == Cardinality({j \in D : NotAbove(values, j, i)})
           rank == [i \in D |-> Rank(i)]
           p == [k \in D |-> CHOOSE i \in D : rank[i] = k]
           line == [k \in D |-> values[CHOOSE i \in D : rank[i] = k]]
<1>1. /\ IsFiniteSet(D)
      /\ \A j \in D : j \in Nat /\ values[j] \in Nat
  <2>1. Len(values) \in Nat /\ D = 1..Len(values) /\ \A j \in D : values[j] \in Nat
    BY LenProperties
  <2> QED BY <2>1, FS_Interval
<1>2. Ordered(values) = line
  BY DEF Ordered
<1>3. \A i \in D : Rank(i) \in D
  BY RankInRange
<1>4. \A a, b \in D : a # b /\ NotAbove(values, a, b) => Rank(a) < Rank(b)
  BY RankGrows
<1> HIDE DEF Rank, D
<1>5. rank \in [D -> D]
  BY <1>3
<1>6. \A a, b \in D : NotAbove(values, a, b) \/ NotAbove(values, b, a)
  BY <1>1 DEF NotAbove
<1>7. \A a, b \in D : rank[a] = rank[b] => a = b
  <2> SUFFICES ASSUME NEW a \in D, NEW b \in D, rank[a] = rank[b], a # b PROVE FALSE
    OBVIOUS
  <2>1. Rank(a) = Rank(b) /\ Rank(a) \in Nat
    BY <1>1, <1>3
  <2>2. Rank(a) < Rank(b) \/ Rank(b) < Rank(a)
    BY <1>4, <1>6
  <2> QED BY <2>1, <2>2
<1>8. rank \in Injection(D, D)
  BY <1>5, <1>7, Fun_IsInj
<1>9. rank \in Surjection(D, D)
  BY <1>1, <1>8, FS_Injection
<1>10. \A k \in D : \E i \in D : rank[i] = k
  BY <1>9 DEF Surjection
<1>11. \A k \in D : p[k] \in D /\ rank[p[k]] = k
  BY <1>10
<1>12. \A k \in D : line[k] = values[p[k]]
  OBVIOUS
<1>13. p \in [D -> D]
  BY <1>11
<1> HIDE DEF p
<1>14. p \in Injection(D, D)
  <2>1. \A a, b \in D : p[a] = p[b] => a = b
    BY <1>11
  <2> QED BY <1>13, <2>1, Fun_IsInj
<1>15. ASSUME NEW k \in D, NEW l \in D, k <= l PROVE values[p[k]] <= values[p[l]]
  <2>0. /\ p[k] \in D /\ p[l] \in D
        /\ p[k] \in Nat /\ p[l] \in Nat
        /\ values[p[k]] \in Nat /\ values[p[l]] \in Nat
    BY <1>1, <1>13
  <2>1. CASE p[k] = p[l]
    BY <2>0, <2>1
  <2>2. CASE p[k] # p[l]
    <3>1. rank[p[l]] = l /\ rank[p[k]] = k
      BY <1>11
    <3>2. ~(rank[p[l]] < rank[p[k]])
      BY <1>1, <1>15, <3>1
    <3>3. ~NotAbove(values, p[l], p[k])
      BY <1>4, <1>13, <2>2, <3>2
    <3> QED BY <2>0, <3>3 DEF NotAbove
  <2> QED BY <2>1, <2>2
<1>16. Sorts(p, values)
  BY <1>2, <1>12, <1>14, <1>15 DEF Sorts, D
<1> QED BY <1>16

\* As many indices of the values as there are places from a to b.
LEMMA SoMany ==
  ASSUME NEW D, NEW p \in Injection(D, D), NEW a \in Nat, NEW b \in Nat, a <= b,
         a..b \subseteq D, IsFiniteSet(D),
         NEW S \in SUBSET D, \A k \in a..b : p[k] \in S
  PROVE  Cardinality(S) \in Nat /\ Cardinality(S) >= b - a + 1
<1> DEFINE f == [k \in a..b |-> p[k]]
<1>1. IsFiniteSet(S) /\ Cardinality(S) \in Nat
  BY FS_Subset, FS_CardinalityType
<1>2. f \in [a..b -> S]
  OBVIOUS
<1>3. \A k, l \in a..b : f[k] = f[l] => k = l
  BY Fun_IsInj DEF Injection, IsInjective
<1>4. f \in Injection(a..b, S)
  BY <1>2, <1>3, Fun_IsInj
<1>5. IsFiniteSet(a..b) /\ Cardinality(a..b) = b - a + 1
  <2>1. /\ IsFiniteSet(a..b)
        /\ Cardinality(a..b) = IF a > b THEN 0 ELSE b - a + 1
    BY a \in Int, b \in Int, FS_Interval, Zenon
  <2> QED BY <2>1
<1> HIDE DEF f
<1>6. Cardinality(a..b) <= Cardinality(S)
  BY <1>1, <1>4, FS_Injection
<1> QED BY <1>1, <1>5, <1>6

\* The index that is computed is that of the nearest place: rounding is off by
\* at most a half, and by a half only to an even number.
LEMMA IndexIsNearest ==
  ASSUME NEW pct \in {50, 99}, NEW n \in Nat \ {0}
  PROVE  /\ PercentileIndex(pct, n) + 1 \in 1..n
         /\ NearestPlace(pct, PercentileIndex(pct, n) + 1, n)
<1>1. PICK q : q = pct * (n - 1)
  OBVIOUS
<1> DEFINE m == PercentileIndex(pct, n)
           below == q \div 100
           rest == q % 100
<1>2. q \in Nat /\ q <= 99 * (n - 1)
  BY <1>1
<1>3. below \in Nat /\ rest \in 0..99 /\ q = 100 * below + rest
  BY <1>2
<1>4. m = IF rest < 50 \/ (rest = 50 /\ below % 2 = 0) THEN below ELSE below + 1
  BY <1>1 DEF PercentileIndex
<1> HIDE DEF m, below, rest
<1>5. /\ m \in Nat /\ 100 * m <= q + 50 /\ q <= 100 * m + 50
      /\ 100 * m = q + 50 \/ 100 * m + 50 = q => m % 2 = 0
  <2>1. CASE rest < 50 \/ (rest = 50 /\ below % 2 = 0)
    <3>1. m = below
      BY <1>4, <2>1
    <3> QED BY <1>3, <2>1, <3>1
  <2>2. CASE ~(rest < 50 \/ (rest = 50 /\ below % 2 = 0))
    <3>1. m = below + 1
      BY <1>4, <2>2
    <3>2. below % 2 # 0 => (below + 1) % 2 = 0
      BY <1>3
    <3> QED BY <1>3, <2>2, <3>1, <3>2
  <2> QED BY <2>1, <2>2
<1>6. m + 1 \in 1..n
  BY <1>2, <1>5
<1>7. 100 * m - q \in (-50)..50 /\ (100 * m - q \in {-50, 50} => m % 2 = 0)
  BY <1>2, <1>5
<1>8. NearestPlace(pct, m + 1, n)
  <2>1. m + 1 - 1 = m
    BY <1>5
  <2>2. CASE pct = 50
    BY <1>1, <1>5, <1>7, <2>1, <2>2 DEF NearestPlace
  <2>3. CASE pct = 99
    BY <1>1, <1>5, <1>7, <2>1, <2>3 DEF NearestPlace
  <2> QED BY <2>2, <2>3
<1> QED BY <1>6, <1>8 DEF m

\* Times that do not go back.
Growing(times) == \A j, k \in DOMAIN times : j <= k => times[j] <= times[k]

LEMMA LatenciesTyped ==
  ASSUME NEW times \in Seq(0 .. MaxTime), Growing(times)
  PROVE  InterTokenLatencies(times) \in Seq(0 .. MaxTime)
<1>1. /\ MaxTime \in Nat /\ Len(times) \in Nat /\ DOMAIN times = 1..Len(times)
      /\ \A k \in 1..Len(times) : times[k] \in 0 .. MaxTime
  BY LenProperties, BoundsAssumption
<1> DEFINE n == IF Len(times) = 0 THEN 0 ELSE Len(times) - 1
<1>2. n \in Nat /\ 1..n = 1..(Len(times) - 1)
  BY <1>1
<1>3. \A k \in 1..n : times[k + 1] - times[k] \in 0 .. MaxTime
  <2> SUFFICES ASSUME NEW k \in 1..n PROVE times[k + 1] - times[k] \in 0 .. MaxTime
    OBVIOUS
  <2>1. k \in 1..Len(times) /\ k + 1 \in 1..Len(times) /\ k <= k + 1
    BY <1>1
  <2>2. times[k] <= times[k + 1]
    BY <1>1, <2>1 DEF Growing
  <2> QED BY <1>1, <2>1, <2>2
<1>4. InterTokenLatencies(times) = [k \in 1..n |-> times[k + 1] - times[k]]
  BY <1>2 DEF InterTokenLatencies
<1> HIDE DEF n
<1>5. [k \in 1..n |-> times[k + 1] - times[k]] \in [1..n -> 0 .. MaxTime]
  BY <1>3
<1> QED BY <1>2, <1>4, <1>5, IsASeq

\* The percentiles of what is recorded of a stream.
Right(m) ==
  m.itl # <<>> =>
    /\ IsPercentile(m.p50, 50, m.itl)
    /\ IsPercentile(m.p99, 99, m.itl)

\* The value at the k-th place of the sorted latencies stands in that place.
LEMMA SortedHasPlace ==
  ASSUME NEW v \in Seq(0 .. MaxTime), NEW a \in DOMAIN v
  PROVE  HasPlace(Ordered(v)[a], a, v)
<1> DEFINE n == Len(v)
<1>1. /\ n \in Nat /\ DOMAIN v = 1..n
      /\ \A k \in 1..n : v[k] \in 0 .. MaxTime
  BY LenProperties
<1>2. v \in Seq(Nat)
  <2>1. v \in [1..n -> Nat]
    BY <1>1, LenProperties, BoundsAssumption
  <2> QED BY <1>1, <2>1, IsASeq
<1>3. PICK p : Sorts(p, v)
  BY <1>2, OrderedIsSorted
<1> HIDE DEF n
<1>4. /\ p \in Injection(1..n, 1..n) /\ p \in [1..n -> 1..n]
      /\ \A k \in 1..n : Ordered(v)[k] = v[p[k]]
      /\ \A k, l \in 1..n : k <= l => v[p[k]] <= v[p[l]]
  BY <1>1, <1>3 DEF Sorts, Injection
<1>5. IsFiniteSet(1..n)
  BY <1>1, FS_Interval
<1>6. a \in 1..n /\ a \in Nat /\ 1 <= a /\ a <= n /\ 1 \in Nat
  BY <1>1
<1>7. \A k \in 1..n : p[k] \in 1..n /\ v[p[k]] \in 0 .. MaxTime
  BY <1>1, <1>4
<1>8. Cardinality({k \in DOMAIN v : v[k] \in 0..v[p[a]]}) >= a
  <2> DEFINE S == {k \in DOMAIN v : v[k] \in 0..v[p[a]]}
  <2>1. \A k \in 1..a : k \in 1..n /\ p[k] \in 1..n /\ v[p[k]] \in 0..v[p[a]]
    <3> SUFFICES ASSUME NEW k \in 1..a
                 PROVE  k \in 1..n /\ p[k] \in 1..n /\ v[p[k]] \in 0..v[p[a]]
      OBVIOUS
    <3>1. k \in 1..n /\ k <= a
      BY <1>1, <1>6
    <3>2. v[p[k]] <= v[p[a]]
      BY <1>4, <1>6, <3>1
    <3> QED BY <1>6, <1>7, <3>1, <3>2, BoundsAssumption
  <2>2. S \in SUBSET (1..n) /\ \A k \in 1..a : p[k] \in S
    BY <1>1, <2>1
  <2>3. 1..a \subseteq 1..n
    BY <1>1, <1>6
  <2> HIDE DEF S
  <2>4. Cardinality(S) \in Nat /\ Cardinality(S) >= a - 1 + 1
    BY <1>4, <1>5, <1>6, <2>2, <2>3, SoMany
  <2> QED BY <1>6, <2>4 DEF S
<1>9. Cardinality({k \in DOMAIN v : v[k] \in v[p[a]]..MaxTime}) >= n - a + 1
  <2> DEFINE S == {k \in DOMAIN v : v[k] \in v[p[a]]..MaxTime}
  <2>1. \A k \in a..n : k \in 1..n /\ p[k] \in 1..n /\ v[p[k]] \in v[p[a]]..MaxTime
    <3> SUFFICES ASSUME NEW k \in a..n
                 PROVE  k \in 1..n /\ p[k] \in 1..n /\ v[p[k]] \in v[p[a]]..MaxTime
      OBVIOUS
    <3>1. k \in 1..n /\ a <= k
      BY <1>1, <1>6
    <3>2. v[p[a]] <= v[p[k]]
      BY <1>4, <1>6, <3>1
    <3> QED BY <1>6, <1>7, <3>1, <3>2, BoundsAssumption
  <2>2. S \in SUBSET (1..n) /\ \A k \in a..n : p[k] \in S
    BY <1>1, <2>1
  <2>3. a..n \subseteq 1..n
    BY <1>1, <1>6
  <2> HIDE DEF S
  <2>4. Cardinality(S) \in Nat /\ Cardinality(S) >= n - a + 1
    BY <1>1, <1>4, <1>5, <1>6, <2>2, <2>3, SoMany
  <2> QED BY <2>4 DEF S
<1> QED BY <1>4, <1>6, <1>8, <1>9 DEF HasPlace, n

LEMMA MetricsAreRight ==
  ASSUME NEW s, s.times \in Seq(0 .. MaxTime), Growing(s.times)
  PROVE  Right(MetricsOf(s))
<1> DEFINE v == InterTokenLatencies(s.times)
           n == Len(v)
<1>1. v \in Seq(0 .. MaxTime)
  BY LatenciesTyped
<1> HIDE DEF v
<1> SUFFICES ASSUME v # <<>> PROVE Right(MetricsOf(s))
  BY DEF Right, MetricsOf, v
<1>2. n \in Nat \ {0} /\ DOMAIN v = 1..n
  BY <1>1, LenProperties, EmptySeq
<1>3. ASSUME NEW pct \in {50, 99} PROVE IsPercentile(Percentile(v, pct), pct, v)
  <2> DEFINE a == PercentileIndex(pct, n) + 1
  <2>1. a \in 1..n /\ NearestPlace(pct, a, n)
    <3> HIDE DEF n
    <3> QED BY <1>2, IndexIsNearest
  <2>2. Percentile(v, pct) = Ordered(v)[a]
    BY DEF Percentile
  <2> HIDE DEF a
  <2>3. HasPlace(Ordered(v)[a], a, v)
    BY <1>1, <1>2, <2>1, SortedHasPlace
  <2> QED BY <1>2, <2>1, <2>2, <2>3 DEF IsPercentile
<1>4. /\ MetricsOf(s).itl = v
      /\ MetricsOf(s).p50 = Percentile(v, 50)
      /\ MetricsOf(s).p99 = Percentile(v, 99)
  BY DEF MetricsOf, v
<1> QED BY <1>3, <1>4 DEF Right

-----------------------------------------------------------------------------
(***************************************************************************)
(* Steps and the times of the tokens.                                      *)
(***************************************************************************)

\* Timestamps are taken in order, that of the chunk with the client included,
\* and what was computed from them is right.
TimesInv ==
  /\ Growing(session.times)
  /\ \A k \in DOMAIN session.times : session.times[k] <= now
  /\ pc = "yielded" =>
       chunk.at <= now /\ \A k \in DOMAIN session.times : session.times[k] <= chunk.at
  /\ PercentilesRight

LEMMA InitTimes == Init => TimesInv
BY DEF Init, TimesInv, Growing, PercentilesRight, NoMetrics

\* A step that takes no timestamp.
LEMMA TimesStay ==
  ASSUME TimesInv, session'.times = session.times, now' = now,
         pc' # "yielded" \/ (pc' = pc /\ chunk' = chunk),
         Right(metrics')
  PROVE  TimesInv'
BY DEF TimesInv, PercentilesRight, Right, Growing

LEMMA StepKeepsTimes ==
  ASSUME Inv, TimesInv, [Next]_vars
  PROVE  TimesInv'
<1>1. /\ session \in Sessions /\ chunk \in Chunks /\ now \in 0 .. MaxTime
      /\ session.times \in Seq(0 .. MaxTime) /\ chunk.at \in 0 .. MaxTime
  BY TypedParts DEF Inv, StreamTypes, Sessions, Chunks
<1>2. Right(metrics) /\ Growing(session.times)
  BY DEF TimesInv, PercentilesRight, Right
<1>3. /\ MaxTime \in Nat /\ Len(session.times) \in Nat
      /\ DOMAIN session.times = 1..Len(session.times)
      /\ \A k \in 1..Len(session.times) : session.times[k] \in 0 .. MaxTime
  BY <1>1, LenProperties, BoundsAssumption
<1>4. CASE Deliver
  <2>1. /\ pc' = "yielded" /\ UNCHANGED <<session, metrics, now>>
        /\ \E c \in NextChunks : chunk' = c[1]
    BY <1>4 DEF Deliver
  <2>2. PICK c \in NextChunks : chunk' = c[1]
    BY <2>1
  <2>3. c[1].at = now
    <3>1. CASE upstream.end = "open"
      <4>1. c \in UpstreamChunks
        BY <3>1 DEF NextChunks
      <4>2. \E text, finish : c = Made(text, finish)
        BY <4>1, FormOfChunks
      <4> QED BY <4>2 DEF Made
    <3>2. CASE upstream.end # "open"
      BY <3>2 DEF NextChunks, LastChunk, Chunk
    <3> QED BY <3>1, <3>2
  <2>4. chunk'.at = now
    BY <2>2, <2>3
  <2> QED BY <1>1, <1>2, <2>1, <2>4 DEF TimesInv, PercentilesRight, Right, Growing
<1>5. CASE Account
  <2> DEFINE first == chunk.first \/ (chunk.text /\ session.tokens = 0)
             times == IF first \/ chunk.text THEN Append(session.times, chunk.at)
                      ELSE session.times
  <2>1. /\ pc = "yielded" /\ pc' = "pulling" /\ UNCHANGED <<metrics, now>>
        /\ session'.times = times
    BY <1>5 DEF Account
  <2>2. /\ chunk.at <= now
        /\ \A k \in DOMAIN session.times : session.times[k] <= chunk.at
    BY <2>1 DEF TimesInv
  <2>3. CASE times = session.times
    BY <1>2, <2>1, <2>3, TimesStay
  <2>4. CASE times = Append(session.times, chunk.at)
    <3> DEFINE old == session.times
               n == Len(old)
               t == Append(old, chunk.at)
    <3>1. /\ t \in Seq(0 .. MaxTime) /\ Len(t) = n + 1
          /\ \A i \in 1..n : t[i] = old[i]
          /\ t[n + 1] = chunk.at
      BY <1>1, AppendProperties
    <3>2. DOMAIN t = 1..(n + 1) /\ session'.times = t
      BY <2>1, <2>4, <3>1, LenProperties
    <3>3. \A k \in 1..(n + 1) : k \in 1..n \/ k = n + 1
      BY <1>3
    <3>4. \A k \in 1..(n + 1) : t[k] \in 0 .. MaxTime /\ t[k] <= chunk.at
      <4>1. \A k \in 1..n : old[k] <= chunk.at
        BY <1>3, <2>2
      <4>2. n \in Nat /\ \A k \in 1..n : old[k] \in 0 .. MaxTime
        BY <1>3
      <4> HIDE DEF t, n, old
      <4>3. ASSUME NEW k \in 1..n PROVE t[k] \in 0 .. MaxTime /\ t[k] <= chunk.at
        BY <3>1, <4>1, <4>2
      <4>4. t[n + 1] \in 0 .. MaxTime /\ t[n + 1] <= chunk.at
        BY <1>1, <1>3, <3>1
      <4> QED BY <3>3, <4>3, <4>4
    <3>5. Growing(t)
      <4>1. \A j, k \in 1..n : j <= k => old[j] <= old[k]
        BY <1>2, <1>3 DEF Growing
      <4> SUFFICES ASSUME NEW j \in 1..(n + 1), NEW k \in 1..(n + 1), j <= k
                   PROVE  t[j] <= t[k]
        BY <3>2 DEF Growing
      <4>2. CASE k = n + 1
        BY <3>1, <3>4, <4>2
      <4>3. CASE k \in 1..n
        <5>1. j \in 1..n
          BY <1>3, <4>3
        <5> QED BY <3>1, <4>1, <4>3, <5>1
      <4> QED BY <3>3, <4>2, <4>3
    <3>6. \A k \in DOMAIN t : t[k] <= now
      BY <1>1, <2>2, <3>2, <3>4
    <3> HIDE DEF t, n, old
    <3> QED BY <1>2, <2>1, <3>2, <3>5, <3>6 DEF TimesInv, PercentilesRight, Right, Growing
  <2> QED BY <2>3, <2>4
<1>6. CASE Cancel
  <2>1. /\ pc' # "yielded" /\ now' = now /\ session'.times = session.times
        /\ metrics' = MetricsOf([session EXCEPT !.state = "stream_cancelled"])
    BY <1>1, <1>6 DEF Cancel, StreamFails, Sessions
  <2> DEFINE s == [session EXCEPT !.state = "stream_cancelled"]
  <2>2. s.times = session.times
    BY <1>1 DEF Sessions
  <2> HIDE DEF s
  <2>3. Right(MetricsOf(s))
    BY <1>1, <1>2, <2>2, MetricsAreRight
  <2> QED BY <2>1, <2>3, TimesStay DEF s
<1>7. CASE PersistResult
  <2>1. /\ pc' # "yielded" /\ now' = now /\ session'.times = session.times
        /\ metrics' = MetricsOf(session)
    BY <1>1, <1>7 DEF PersistResult, StreamFails, Sessions
  <2>2. Right(MetricsOf(session))
    BY <1>1, <1>2, MetricsAreRight
  <2> QED BY <2>1, <2>2, TimesStay
<1>8. CASE Tick
  <2>1. pc = "pulling" /\ pc' = pc /\ now' = now + 1 /\ UNCHANGED <<session, metrics>>
    BY <1>8 DEF Tick, streamVars
  <2>2. \A k \in DOMAIN session.times : session.times[k] <= now + 1
    BY <1>1, <1>3 DEF TimesInv
  <2> QED BY <1>2, <2>1, <2>2 DEF TimesInv, PercentilesRight, Right, Growing
<1>9. ASSUME \/ \E i \in Inputs : Receive(i)
             \/ AcceptWithoutStack \/ AcceptFullPath \/ CaptureRaises \/ PathRaises
             \/ AcceptStream \/ QueueTimeout \/ OpenBody \/ StartStream \/ StartRefused
             \/ UpstreamEnds \/ EndOfStream \/ BackendError
             \/ EndError \/ PersistFailure \/ Abandon \/ UNCHANGED vars
      PROVE  TimesInv'
  <2>1. /\ now' = now /\ metrics' = metrics
        /\ session'.times = session.times
        /\ pc' # "yielded" \/ (pc' = pc /\ chunk' = chunk)
    BY <1>1, <1>9 DEF Receive, Answers, AcceptWithoutStack, AcceptFullPath, CaptureRaises,
      PathRaises, AcceptStream, QueueTimeout, OpenBody, StartStream, StartRefused,
      UpstreamEnds, EndOfStream, BackendError, EndError, PersistFailure, Abandon, vars,
      streamVars, StreamFails, Sessions
  <2> QED BY <1>2, <2>1, TimesStay
<1> QED BY <1>4, <1>5, <1>6, <1>7, <1>8, <1>9 DEF Next

\* The reported percentiles of a stream of any length are what they are
\* called: half of the latencies on either side of the median, and the 99th
\* percentile a latency not below it.
THEOREM PercentilesAreRight == Spec => []PercentilesRight
<1>1. Spec => [](Inv /\ TimesInv)
  <2>1. Init => Inv /\ TimesInv
    BY InitInv, InitTimes
  <2>2. Inv /\ TimesInv /\ [Next]_vars => (Inv /\ TimesInv)'
    BY NextInv, StepKeepsTimes
  <2> QED BY <2>1, <2>2, PTL DEF Spec
<1>2. Inv /\ TimesInv => PercentilesRight
  BY DEF TimesInv
<1> QED BY <1>1, <1>2, PTL
=============================================================================
