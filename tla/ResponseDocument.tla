-------------------------- MODULE ResponseDocument ---------------------------
(***************************************************************************)
(* A response that comes as one JSON document: what the normalize*Json     *)
(* functions of src/runtime/invoke.ts read out of it, each for the wire     *)
(* protocol of one kind of server.                                         *)
(*                                                                         *)
(* A document is what the readers tell apart: an error, known to the        *)
(* reader's list or not; the outputs in their order; whether the server     *)
(* says that it is done and how it finished; the token counts; the model    *)
(* that answered; and a stored response's identifier.  A "laden" answer     *)
(* carries a tool call or reasoning in members of its own object, which no  *)
(* reader looks at; a "tool" output has no text where the answer should be. *)
(* Values of a wrong type or beyond their bounds are such outputs, and the  *)
(* "inconsistent" counts.                                                  *)
(***************************************************************************)
EXTENDS Naturals, Sequences, FiniteSets, SequencesExt

Chat == "openai-chat-completions"
Responses == "openai-responses"
LmStudio == "lm-studio-native-chat"
Ollama == "ollama-native-chat"
Tgi == "tgi-native-generate"

\* Protocols whose document holds a list of outputs; the others hold one.
Listing == {Chat, Responses, LmStudio}

Answers == {"answer", "laden"}

Outputs(protocol) ==
    IF protocol \in Listing THEN BoundedSeq(Answers \cup {"reasoning", "tool"}, 2)
    ELSE {<<>>, <<"answer">>, <<"laden">>, <<"tool">>}

Documents(protocol) ==
    [error : {"none", "known", "unknown"}, outputs : Outputs(protocol),
     done : BOOLEAN, finish : BOOLEAN, stored : BOOLEAN,
     usage : {"whole", "output-only", "absent", "inconsistent"},
     model : {"requested", "another", "absent"}]

\* oneOpenAiChoice, responsesOutputText, parseLmStudioOutput: one answer, and
\* only LM Studio's reader takes outputs of reasoning beside it.
OutputsRead(protocol, outputs) ==
    IF protocol = LmStudio
    THEN /\ ToSet(outputs) \subseteq Answers \cup {"reasoning"}
         /\ Cardinality({n \in DOMAIN outputs : outputs[n] \in Answers}) = 1
    ELSE outputs \in {<<"answer">>, <<"laden">>}

\* Whether the end is stated as the protocol states it: a finish reason, a
\* status, Ollama's done with its reason, or nothing at all.
EndStated(protocol, document) ==
    CASE protocol \in {Chat, Tgi} -> document.finish
      [] protocol = Ollama -> document.done /\ document.finish
      [] protocol = Responses -> document.done
      [] protocol = LmStudio -> TRUE

\* parseOpenAiUsage, parseResponsesUsage, parseOllamaUsage, parseTgiUsage,
\* parseLmStudioUsage: the counts a reader takes.
UsagesRead(protocol) ==
    CASE protocol = LmStudio -> {"whole"}
      [] protocol = Tgi -> {"whole", "output-only", "absent"}
      [] OTHER -> {"whole", "absent"}

\* validateResolvedModel: null if no model is named; LM Studio must name it.
ModelRead(protocol, model) ==
    model # "another" /\ (protocol = LmStudio => model # "absent")

Readable(protocol, document) ==
    /\ OutputsRead(protocol, document.outputs)
    /\ EndStated(protocol, document)
    /\ document.usage \in UsagesRead(protocol)
    /\ ModelRead(protocol, document.model)
    /\ protocol = LmStudio => ~document.stored

Result(terminal, finished, counted, resolved) ==
    [terminal |-> terminal, finished |-> finished, counted |-> counted,
     resolved |-> resolved]

\* normalizeOpenAiJson, normalizeResponsesJson, normalizeLmStudioJson,
\* normalizeOllamaJson, normalizeTgiJson.  An error beats everything else in
\* the document; LM Studio's must be one its reader knows.
Normalized(protocol, document) ==
    CASE document.error = "known" \/ (document.error = "unknown" /\ protocol # LmStudio) ->
            Result("provider-error", FALSE, FALSE, FALSE)
      [] document.error = "none" /\ Readable(protocol, document) ->
            Result("complete", TRUE, document.usage # "absent",
                   document.model = "requested")
      [] OTHER -> Result("invalid", FALSE, FALSE, FALSE)

=============================================================================
