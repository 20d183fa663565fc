--------------------------- MODULE ProviderStream ----------------------------
(***************************************************************************)
(* From a response to the status of its call: decodeResponse and the       *)
(* normalize* functions of src/runtime/invoke.ts, for the events of a       *)
(* stream behind the framing of StreamFraming, and for a response in one    *)
(* piece (ResponseDocument).                                               *)
(*                                                                         *)
(* A collector accepts a response as complete by reading it: no length and *)
(* no checksum say that nothing is missing.  Each provider has a protocol  *)
(* of its own, and each reader must complete for exactly the streams that  *)
(* went through all of it.  The provider is arbitrary here: any event may  *)
(* come at any point, with any text it claims to repeat, and the body may  *)
(* end after any event.                                                    *)
(*                                                                         *)
(* An event is its type with the lengths of the answer and the reasoning   *)
(* it repeats (0 where it repeats none).  Names, indices, numbers and      *)
(* types of fields that every reader checks are one event, "malformed".    *)
(***************************************************************************)
EXTENDS ResponseDocument

CONSTANTS
    MaxText,      \* bound: pieces of text in a stream
    Streamed      \* instead of a document: the response is a stream of events

ASSUME ProviderStreamAssumption ==
    /\ MaxText \in Nat \ {0}
    /\ \A p \in {Chat, Responses, LmStudio, Ollama, Tgi} : Streamed \notin Documents(p)

VARIABLES
    protocol,    \* the wire protocol of the invocation
    reader,      \* the local variables of the normalize function
    read,        \* the events read
    document,    \* the document the server sends, or Streamed
    status       \* "reading", then the RuntimeInvocationStatus

providerVars == <<protocol, reader, read, document, status>>

\* LM Studio's lifecycles.
Parts == {"model_load", "prompt_processing", "reasoning", "message"}

StartOf == [model_load |-> "model_load.start", reasoning |-> "reasoning.start",
            prompt_processing |-> "prompt_processing.start", message |-> "message.start"]
EndOf == [model_load |-> "model_load.end", reasoning |-> "reasoning.end",
          prompt_processing |-> "prompt_processing.end", message |-> "message.end"]

\* What a part shows between its start and its end.
WithinOf == [model_load |-> "model_load.progress", reasoning |-> "reasoning.delta",
             prompt_processing |-> "prompt_processing.progress", message |-> "message.delta"]

Fresh == [stage |-> 0, text |-> 0, reasoning |-> 0,
          part |-> [p \in Parts |-> "not-started"],
          chatStarted |-> FALSE, providerError |-> FALSE, terminal |-> "truncated"]

StreamEvent(type, text, reasoning) == [type |-> type, text |-> text, reasoning |-> reasoning]
Plain(types) == {StreamEvent(t, 0, 0) : t \in types}

ProviderInit ==
    /\ \/ protocol \in {Chat, Responses, LmStudio, Ollama} /\ document = Streamed
       \/ protocol \in {Chat, Responses, LmStudio, Ollama, Tgi}
            /\ document \in Documents(protocol)
    /\ reader = Fresh
    /\ read = <<>>
    /\ status = "reading"

-----------------------------------------------------------------------------
(* The OpenAI chat stream, and Ollama's: pieces, then how it finished.     *)

\* normalizeOpenAiSse: a stage, the event it admits, and the next stage.
ChatSteps == {<<0, "delta", 0>>, <<0, "finish", 1>>, <<1, "usage", 2>>}

\* normalizeOllamaNdjson: the counts come with the last item, if they do.
OllamaSteps == {<<0, "delta", 0>>, <<0, "done", 1>>, <<0, "done-with-counts", 2>>}

\* normalizeResponsesSse: one phase after the other, of which the answer's
\* pieces are one.
ResponsesOrder ==
    <<"response.created", "response.in_progress", "response.output_item.added",
      "response.content_part.added", "response.output_text.done",
      "response.content_part.done", "response.output_item.done",
      "response.completed">>

ResponsesSteps ==
    {<<n - 1, ResponsesOrder[n], n>> : n \in DOMAIN ResponsesOrder}
        \cup {<<4, "response.output_text.delta", 4>>}

\* The events that repeat the answer.
Repeating == {"response.output_text.done", "response.content_part.done",
              "response.output_item.done", "response.completed"}

Deltas == {"delta", "response.output_text.delta"}

TypesOf(steps) == {step[2] : step \in steps}

StepsOf(p) == CASE p = Chat -> ChatSteps
                [] p = Ollama -> OllamaSteps
                [] p = Responses -> ResponsesSteps
                [] OTHER -> {}

\* One event of a protocol that goes from stage to stage.
Staged(event) ==
    \E step \in StepsOf(protocol) :
        /\ step[1] = reader.stage
        /\ step[2] = event.type
        /\ event.type \in Repeating => event.text = reader.text /\ event.text > 0
        /\ reader' = [reader EXCEPT
                        !.stage = step[3],
                        !.text = IF event.type \in Deltas THEN @ + 1 ELSE @,
                        !.terminal = IF event.type \in {"response.completed", "done",
                                                        "done-with-counts"}
                                     THEN "complete" ELSE @]

\* The sentinel of a chat stream may come at any stage.
Sentinel(event) ==
    /\ protocol = Chat
    /\ event.type = "[DONE]"
    /\ reader' = [reader EXCEPT !.terminal = "complete"]

ProviderError(event) ==
    /\ protocol # LmStudio
    /\ event.type = "error"
    /\ reader' = [reader EXCEPT !.terminal = "provider-error"]

-----------------------------------------------------------------------------
(* LM Studio: normalizeLmStudioSse.                                        *)

Ready(part, before, later) ==
    /\ reader.chatStarted
    /\ \A p \in before : reader.part[p] # "started"
    /\ \A p \in later \cup {part} : reader.part[p] = "not-started"

\* Faulty variant: an answer may start while the model still reasons.
MayStartEarly(part) ==
    CASE part = "model_load" -> Ready(part, {}, Parts)
      [] part = "prompt_processing" ->
            Ready(part, {"model_load"}, {"reasoning", "message"})
      [] part = "reasoning" ->
            Ready(part, {"model_load", "prompt_processing"}, {"message"})
      [] part = "message" -> Ready(part, {"model_load", "prompt_processing"}, {})

\* Whether a part may start.
MayStart(part) ==
    CASE part = "model_load" -> Ready(part, {}, Parts)
      [] part = "prompt_processing" ->
            Ready(part, {"model_load"}, {"reasoning", "message"})
      [] part = "reasoning" ->
            Ready(part, {"model_load", "prompt_processing"}, {"message"})
      [] part = "message" -> Ready(part, Parts \ {"message"}, {})

Start(event) ==
    \E part \in Parts :
        /\ event.type = StartOf[part]
        /\ MayStart(part)
        /\ reader' = [reader EXCEPT !.part[part] = "started"]

\* A part's progress, or a piece of its text.
Within(event) ==
    \E part \in Parts :
        /\ event.type = WithinOf[part]
        /\ reader.part[part] = "started"
        /\ reader' = [reader EXCEPT !.reasoning = IF part = "reasoning" THEN @ + 1 ELSE @,
                                   !.text = IF part = "message" THEN @ + 1 ELSE @]

End(event) ==
    \E part \in Parts :
        /\ event.type = EndOf[part]
        /\ reader.part[part] = "started"
        /\ reader' = [reader EXCEPT !.part[part] = "ended"]

ChatStart(event) ==
    /\ event.type = "chat.start"
    /\ read = <<>>
    /\ reader' = [reader EXCEPT !.chatStarted = TRUE]

Error(event) ==
    /\ event.type = "error"
    /\ reader.chatStarted
    /\ reader' = [reader EXCEPT !.providerError = TRUE]

\* The last event repeats all of the text; after an error it need not have
\* been whole.
ChatEnd(event) ==
    /\ event.type = "chat.end"
    /\ reader.chatStarted
    /\ \/ reader.providerError
       \/ /\ reader.part["message"] = "ended"
          /\ \A p \in Parts : reader.part[p] # "started"
    /\ event.text = reader.text
    /\ event.reasoning = reader.reasoning
    /\ reader' = [reader EXCEPT !.terminal = "complete"]

LmStudioEvent(event) ==
    /\ protocol = LmStudio
    /\ reader.providerError => event.type = "chat.end"
    /\ Start(event) \/ Within(event) \/ End(event) \/ ChatStart(event)
        \/ Error(event) \/ ChatEnd(event)

-----------------------------------------------------------------------------
(* Reading a stream.                                                       *)

\* What a provider may send.
Sent ==
    CASE protocol = LmStudio ->
            Plain({StartOf[p] : p \in Parts} \cup {EndOf[p] : p \in Parts}
                  \cup {WithinOf[p] : p \in Parts} \cup {"chat.start", "error", "malformed"})
            \cup {StreamEvent("chat.end", t, r) : t \in 0..MaxText, r \in 0..MaxText}
      [] protocol = Responses ->
            Plain({"response.output_text.delta", "error", "malformed"})
            \cup {StreamEvent(t, n, 0) : t \in TypesOf(ResponsesSteps) \cap Repeating,
                                   n \in 0..MaxText}
            \cup Plain(TypesOf(ResponsesSteps) \ Repeating)
      [] OTHER -> Plain(TypesOf(StepsOf(protocol)) \cup {"[DONE]", "error", "malformed"})

\* The framing, or the reader, admits nothing after the end of a stream.
Accepts(event) ==
    /\ reader.terminal = "truncated"
    /\ Staged(event) \/ Sentinel(event) \/ ProviderError(event) \/ LmStudioEvent(event)
    /\ UNCHANGED status

\* Text beyond the bound, and progress reported twice in a row, are not explored.
BeyondBound(event) ==
    \/ /\ event.type \in {"model_load.progress", "prompt_processing.progress"}
       /\ read # <<>>
       /\ event = read[Len(read)]
    \/ event.type \in Deltas \cup {"message.delta"} /\ reader.text = MaxText
    \/ event.type = "reasoning.delta" /\ reader.reasoning = MaxText

Inadmissible(event) == ~ENABLED Accepts(event)

\* An event that is not admitted makes the whole response invalid, whatever
\* followed it.
Reject(event) ==
    /\ Inadmissible(event)
    /\ status' = "failed"
    /\ UNCHANGED reader

ReadEvent(event) ==
    /\ status = "reading"
    /\ document = Streamed
    /\ ~BeyondBound(event)
    /\ read' = Append(read, event)
    /\ Accepts(event) \/ Reject(event)
    /\ UNCHANGED <<protocol, document>>

\* finalUsage, as the framing and the reader have it together.
UsagePresent ==
    CASE protocol = Chat -> reader.stage = 2
      [] protocol = Ollama -> reader.stage = 2
      [] OTHER -> TRUE

\* A finish reason is required wherever a stream says that it is done, except
\* of a chat stream.
FinishSeen == protocol = Chat => reader.stage >= 1

\* normalizeOpenAiSse and its kin, at the end of a stream.  The model is null
\* unless the provider reported the one that was requested.
NormalizedStream(modelReported) ==
    Result(IF reader.providerError THEN "provider-error" ELSE reader.terminal,
           FinishSeen, UsagePresent, modelReported \/ protocol \in {Responses, LmStudio})

\* dispatchPreparedRuntimeInvocation: what a decoded response amounts to.
Judgement(result) ==
    CASE result.terminal \in {"provider-error", "invalid"} -> "failed"
      [] /\ result.terminal = "complete"
         /\ result.finished /\ result.counted /\ result.resolved -> "completed"
      [] OTHER -> "incomplete"

\* The body ends, with part of an event left over or not.  A reader that has
\* come to the end refuses what is left over; LM Studio's refuses it always, and
\* to Ollama's it is a line that is not JSON.
EndOfStream(partial, modelReported) ==
    /\ status = "reading"
    /\ document = Streamed
    /\ status' = IF partial /\ (reader.terminal # "truncated" \/ protocol \in {LmStudio, Ollama})
                 THEN "failed" ELSE Judgement(NormalizedStream(modelReported))
    /\ UNCHANGED <<protocol, reader, read, document>>

\* A document is read to its end before any of it is looked at.
EndOfDocument ==
    /\ status = "reading"
    /\ document # Streamed
    /\ status' = Judgement(Normalized(protocol, document))
    /\ UNCHANGED <<protocol, reader, read, document>>

\* contentTypeMatches: what is not declared as asked for is drained unread.
WrongContentType ==
    /\ status = "reading"
    /\ read = <<>>
    /\ status' = "failed"
    /\ UNCHANGED <<protocol, reader, read, document>>

ProviderNext ==
    \/ \E event \in Sent : ReadEvent(event)
    \/ \E partial, modelReported \in BOOLEAN : EndOfStream(partial, modelReported)
    \/ EndOfDocument
    \/ WrongContentType

ProviderSpec == ProviderInit /\ [][ProviderNext]_providerVars

-----------------------------------------------------------------------------
(* Properties.                                                             *)

Where(type) == {n \in DOMAIN read : read[n].type = type}

\* The pieces of the answer, how it finished, what it used, the end.
WholeChat ==
    LET last == Len(read) IN
    /\ last >= 3
    /\ \A n \in 1..(last - 3) : read[n].type = "delta"
    /\ read[last - 2].type = "finish"
    /\ read[last - 1].type = "usage"
    /\ read[last].type = "[DONE]"

WholeOllama ==
    /\ read # <<>>
    /\ \A n \in DOMAIN read :
          read[n].type = IF n < Len(read) THEN "delta" ELSE "done-with-counts"

\* Four events open the answer and four repeat and close it.
WholeResponses ==
    LET pieces == Len(read) - 8 IN
    /\ pieces > 0
    /\ \A n \in DOMAIN read :
          /\ n <= 4 => read[n].type = ResponsesOrder[n]
          /\ n > 4 /\ n <= 4 + pieces => read[n].type = "response.output_text.delta"
          /\ n > 4 + pieces => /\ read[n].type = ResponsesOrder[n - pieces]
                              /\ read[n].text = pieces

Earlier == [model_load |-> {}, prompt_processing |-> {"model_load"},
            reasoning |-> {"model_load", "prompt_processing"}, message |-> Parts \ {"message"}]

\* Parts follow each other in this order, each whole or missing, the answer
\* never missing; what a part shows comes between its start and its end.
WholeLmStudio ==
    /\ Where("chat.start") = {1} /\ Where("chat.end") = {Len(read)}
    /\ Where("error") = {} /\ Where("malformed") = {}
    /\ Where("message.start") # {}
    /\ \A part \in Parts :
          LET starts == Where(StartOf[part])
              ends == Where(EndOf[part])
          IN  /\ starts # {} => Cardinality(starts) = 1 /\ Cardinality(ends) = 1
              /\ \A m \in starts, n \in ends : m < n
              /\ \A p \in Earlier[part] : \A m \in Where(EndOf[p]), n \in starts : m < n
              /\ \A n \in ends \cup Where(WithinOf[part]) : \E m \in starts : m < n
              /\ \A n \in starts \cup Where(WithinOf[part]) : \E m \in ends : n < m
    /\ read[Len(read)].text = Cardinality(Where("message.delta"))
    /\ read[Len(read)].reasoning = Cardinality(Where("reasoning.delta"))

\* One document says everything a stream would have said: the answer once, in no
\* other company than reasoning, what it used, the model asked for, no failure.
\* (What the object of the answer carries beside its text, a tool call even, says
\* nothing against it.)
WholeDocument ==
    /\ document.error = "none"
    /\ \E n \in DOMAIN document.outputs :
          /\ document.outputs[n] \in Answers
          /\ \A k \in DOMAIN document.outputs \ {n} : document.outputs[k] = "reasoning"
    /\ document.model = "requested"
    /\ document.usage = "whole" \/ (protocol = Tgi /\ document.usage = "output-only")

Whole ==
    IF document # Streamed
    THEN WholeDocument
    ELSE CASE protocol = Chat -> WholeChat
           [] protocol = Ollama -> WholeOllama
           [] protocol = Responses -> WholeResponses
           [] protocol = LmStudio -> WholeLmStudio

\* Whatever the provider sends and wherever the body ends, a response counts as
\* completed only if the provider went through its whole protocol, in order and
\* with nothing repeated or missing: the pieces of the answer, how it finished,
\* what it used, and the end.  The five readers of documents and the four of
\* streams (the normalize functions of src/runtime/invoke.ts) agree on that.
CompletedIsWhole == status = "completed" => Whole

=============================================================================
