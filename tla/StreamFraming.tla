--------------------------- MODULE StreamFraming -----------------------------
(***************************************************************************)
(* From the bytes of a streamed response to its events: src/runtime/sse.ts *)
(* and src/runtime/ndjson.ts.                                              *)
(*                                                                         *)
(* The state is what has been received; a stream may end after any of its  *)
(* bytes, so what the decoders make of it is an operator of the state, and *)
(* every state is a stream that ended there.  Both decoders collect the    *)
(* whole body before they look at it; what chunks leave behind is the mark *)
(* from which the time of an event is found again.                         *)
(*                                                                         *)
(* A line's content is one symbol: a field of the stream (SSE) or a JSON   *)
(* value (NDJSON), or the two line break bytes.  Limits on sizes are left  *)
(* out: exceeding one fails the decoding, as any other error does.         *)
(***************************************************************************)
EXTENDS Naturals, Sequences, FiniteSets, SequencesExt

CONSTANTS
    MaxBytes,     \* bound: symbols in a body
    MaxMarks      \* bound: chunks in a body; the n-th arrives at time n

ASSUME StreamFramingAssumption == {MaxBytes, MaxMarks} \subseteq Nat

\* What a line may hold.  "comment" is an SSE comment, or any other field that
\* carries no data; the others are data.  As an NDJSON item "done" is a final
\* item without counts and "completed" one with them.
Values == {"delta", "usage", "completed", "error", "done"}
Breaks == {"CR", "LF"}
Symbols == Values \cup {"comment"} \cup Breaks

SseProtocols == {"openai-chat-completions", "openai-responses", "generic-json-sse"}
NdjsonProtocols == {"ollama", "generic-ndjson"}

VARIABLES
    bytes,    \* the body so far
    marks,    \* for each chunk the offset of its end
    seen      \* history: for each byte the time it arrived

framingVars == <<bytes, marks, seen>>

FramingInit == bytes = <<>> /\ marks = <<>> /\ seen = <<>>

\* Two fields are never adjacent: without a break they are one field.
Follows(symbol) ==
    IF bytes = <<>> THEN TRUE ELSE {symbol, Last(bytes)} \cap Breaks # {}

\* collectStream and collect: a byte arrives in a chunk of its own or in the last.
Receive(symbol, newChunk) ==
    /\ Len(bytes) < MaxBytes
    /\ Follows(symbol)
    /\ newChunk => Len(marks) < MaxMarks
    /\ ~newChunk => marks # <<>>
    /\ bytes' = Append(bytes, symbol)
    /\ marks' = IF newChunk THEN Append(marks, Len(bytes'))
                ELSE [marks EXCEPT ![Len(marks)] = Len(bytes')]
    /\ seen' = Append(seen, Len(marks'))

FramingNext == \E symbol \in Symbols, newChunk \in BOOLEAN : Receive(symbol, newChunk)

-----------------------------------------------------------------------------
(* Time of an offset.                                                      *)

\* observedAtOffset: binary search for the first mark that covers the offset,
\* from a span of marks on.
Search(offset) ==
    LET search[span \in (1..(Len(marks) + 1)) \X (0..Len(marks))] ==
            LET low == span[1]
                high == span[2]
                middle == low + ((high - low) \div 2)
            IN  IF low > high THEN low
                ELSE IF marks[middle] >= offset THEN search[<<low, middle - 1>>]
                     ELSE search[<<middle + 1, high>>]
    IN  search

ObservedAt(offset) == Search(offset)[<<1, Len(marks)>>]

-----------------------------------------------------------------------------
(* Server-sent events.                                                     *)

\* A line ends at CR, LF or CRLF; the LF of a CRLF is no break of its own.
SseBreaks(body) == {i \in 1..Len(body) :
    /\ body[i] \in Breaks
    /\ ~(body[i] = "LF" /\ i > 1 /\ body[i - 1] = "CR")}

BreakEnd(body, i) ==
    IF body[i] = "CR" /\ i < Len(body) /\ body[i + 1] = "LF" THEN i + 1 ELSE i

\* A line without content dispatches the frame since the last such line.
BlankLines(body) == {i \in SseBreaks(body) : i = 1 \/ body[i - 1] \in Breaks}

FrameStart(body, i) ==
    Max({0} \cup {BreakEnd(body, j) : j \in {k \in BlankLines(body) : k < i}})

DataAt(body, i) == {k \in FrameStart(body, i) + 1..i : body[k] \in Values}

\* The offsets of a set, in order.
Ordered(S) ==
    [n \in 1..Cardinality(S) |->
        CHOOSE i \in S : Cardinality({j \in S : j < i}) = n - 1]

\* What stands at some offsets together: one value, or what is neither the
\* sentinel nor JSON.
Single(body, content) ==
    IF \E k \in content : content = {k} THEN body[CHOOSE k \in content : TRUE]
    ELSE "joined"

\* The blank lines that dispatch an event.
Dispatches(body) == {i \in BlankLines(body) : DataAt(body, i) # {}}

\* The dispatched events.  Data of several lines is joined.
SseEvents(body) ==
    LET frames == Ordered(Dispatches(body))
    IN  [n \in DOMAIN frames |->
            [value |-> Single(body, DataAt(body, frames[n])),
             end |-> BreakEnd(body, frames[n])]]

\* A field after the last blank line.
TrailingIncompleteEvent(body) ==
    \E i \in FrameStart(body, Len(body) + 1) + 1..Len(body) : body[i] \notin Breaks

\* Faulty variant: only the sentinel ends a stream.
SseTerminalSentinel(protocol, value) == value = "done"

\* An event after which the protocol allows no other.
SseTerminal(protocol, value) ==
    \/ value \in {"error", "done"}
    \/ protocol = "openai-responses" /\ value = "completed"

\* parseSseBytes and parseBoundedJsonSse: refused is a value that is no JSON,
\* and anything after a terminal event.
SseRefused(protocol, body, values) ==
    \/ "joined" \in Range(values)
    \/ \E n \in DOMAIN values :
          /\ SseTerminal(protocol, values[n])
          /\ n < Len(values) \/ TrailingIncompleteEvent(body)

SseSummary(protocol, values) ==
    LET count == Len(values)
        done == count > 0 /\ values[count] = "done"
        hasUsage == count > 1 /\ values[count - 1] \in {"usage", "completed"}
    IN  [terminal |->
            IF "error" \in Range(values) THEN "provider-error"
            ELSE IF protocol = "openai-responses"
                 THEN IF "completed" \in Range(values) THEN "response.completed"
                      ELSE "truncated"
            ELSE IF done THEN "done-sentinel"
            ELSE IF protocol = "generic-json-sse" THEN "eof" ELSE "truncated",
         finalUsage |->
            IF protocol = "generic-json-sse" THEN "not-required"
            ELSE IF "error" \in Range(values) THEN "missing"
            ELSE IF protocol = "openai-responses"
                 THEN IF "completed" \in Range(values) THEN "present" ELSE "missing"
            ELSE IF done /\ hasUsage THEN "present" ELSE "missing"]

-----------------------------------------------------------------------------
(* Newline-delimited JSON.                                                 *)

NdjsonEnds(body) == {i \in 1..Len(body) : body[i] = "LF"}
    \cup (IF body # <<>> /\ Last(body) # "LF" THEN {Len(body)} ELSE {})

LineStart(body, i) == Max({0} \cup {j \in NdjsonEnds(body) : j < i})

ContentAt(body, i) == {k \in LineStart(body, i) + 1..i : body[k] \notin Breaks}

\* An item per line; the last line may lack its break.  CR is white space.
NdjsonItems(body) ==
    LET ends == Ordered(NdjsonEnds(body))
    IN  [n \in DOMAIN ends |->
            [value |-> Single(body, ContentAt(body, ends[n])), end |-> ends[n]]]

NdjsonTerminal(protocol, value) ==
    \/ value = "error"
    \/ protocol = "ollama" /\ value \in {"done", "completed"}

\* Refused is a blank line, a line that is no JSON value, and any line after a
\* terminal one.
NdjsonRefused(protocol, values) ==
    \E n \in DOMAIN values :
        \/ values[n] \in {"joined", "comment"}
        \/ NdjsonTerminal(protocol, values[n]) /\ n < Len(values)

NdjsonSummary(protocol, values) ==
    [terminal |->
        IF "error" \in Range(values) THEN "provider-error"
        ELSE IF protocol # "ollama" THEN "eof"
        ELSE IF Range(values) \cap {"done", "completed"} # {} THEN "done"
        ELSE "truncated",
     finalUsage |->
        IF protocol # "ollama" THEN "not-required"
        ELSE IF "completed" \in Range(values) THEN "present" ELSE "missing"]

-----------------------------------------------------------------------------
(* What a decoder reports of the body so far.                              *)

ValuesOf(events) == [n \in DOMAIN events |-> events[n].value]

\* parseBoundedJsonSse and parseBoundedNdjsonStream.
Decoded(protocol, body) ==
    LET values == ValuesOf(IF protocol \in SseProtocols THEN SseEvents(body)
                           ELSE NdjsonItems(body))
        refused == IF protocol \in SseProtocols THEN SseRefused(protocol, body, values)
                   ELSE NdjsonRefused(protocol, values)
        summary == IF protocol \in SseProtocols THEN SseSummary(protocol, values)
                   ELSE NdjsonSummary(protocol, values)
    IN  IF refused THEN [terminal |-> "refused"]
        ELSE [values |-> values, terminal |-> summary.terminal,
              finalUsage |-> summary.finalUsage]

\* The provider said that this was all; the end of the body alone says nothing.
IsEnded(report) == report.terminal \notin {"refused", "eof", "truncated"}

\* A body that was cut never passes for a whole one: once a decoder reports
\* that the provider ended the stream, no byte that could still follow makes it
\* report other events, another ending or other usage; it can only be refused.
EndedIsFinal ==
    bytes # <<>> =>
        \A p \in SseProtocols \cup NdjsonProtocols :
            LET cut == Decoded(p, Front(bytes)) IN
            IsEnded(cut) => Decoded(p, bytes) \in {cut, [terminal |-> "refused"]}

\* However a body is cut into chunks, in the middle of a line break too, the
\* time of an event is the time its last byte arrived, and events are in time
\* order.
SeenWhenArrived ==
    \A events \in {SseEvents(bytes), NdjsonItems(bytes)} :
        LET at == [n \in DOMAIN events |-> ObservedAt(events[n].end)]
        IN  \A n \in DOMAIN events :
               /\ at[n] = seen[events[n].end]
               /\ n > 1 => at[n - 1] <= at[n]

\* What a decoder reports stands, whatever bytes and chunks it comes from: an
\* ending is final and every event has the time at which it was whole.
ReportStands == EndedIsFinal /\ SeenWhenArrived

FramingSpec == FramingInit /\ [][FramingNext]_framingVars

=============================================================================
