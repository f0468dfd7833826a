-------------------------------- MODULE Wire --------------------------------
(***************************************************************************)
(* What the proxy reads out of an answer of a provider: the parsers of the *)
(* buffered and of the streamed forms of both protocols.                   *)
(* Modelled from crates/agentland-common/src/protocols/openai.rs and       *)
(* anthropic.rs and crates/agentland-proxy/src/proxy/streaming.rs.         *)
(*                                                                         *)
(* JSON is told apart by the fields that are read; a field that may be     *)
(* missing is a sequence of at most one value. The numbers of JSON are     *)
(* integers; a field of the program is an i32.                             *)
(***************************************************************************)
EXTENDS Integers, Sequences, SequencesExt

CONSTANT
    IntMax      \* i32::MAX

None == "none"

ASSUME WireAssumption == IntMax \in Nat

\* n as i32, and the addition of a release build.
Wrap(n) == ((n + IntMax + 1) % (2 * (IntMax + 1))) - (IntMax + 1)

Fits(n) == n >= - IntMax - 1 /\ n =< IntMax

\* The later of two optional values.
Latest(old, new) == IF new = <<>> THEN old ELSE new

\* The names not yet there are appended, each once.
Join(names, more) ==
    FoldLeft(LAMBDA acc, name : IF Contains(acc, name) THEN acc ELSE Append(acc, name),
             names, more)

-----------------------------------------------------------------------------
(* Lines. A line of a stream is an event line with the name of the event,  *)
(* a data line with its JSON, the data line [DONE], or one that the        *)
(* parsers do not know: a blank one, or one without a space after the      *)
(* colon. A JSON that cannot be parsed is Bad.                             *)

Bad == [ok |-> FALSE]
DataLine(json) == [kind |-> "data", json |-> json]
EventLine(name) == [kind |-> "event", name |-> name]
DoneLine == [kind |-> "done"]
OtherLine == [kind |-> "other"]

\* parse_sse_data_lines
DataLines(lines) ==
    FoldLeft(LAMBDA acc, line : IF line.kind = "data" THEN Append(acc, line.json) ELSE acc,
             <<>>, lines)

\* parse_sse_events: a data line takes the event that was named before it.
SseLine(acc, line) ==
    CASE line.kind = "event" -> [acc EXCEPT !.event = <<line.name>>]
      [] line.kind \in {"data", "done"} ->
           [event |-> <<>>,
            found |-> IF acc.event = <<>> THEN acc.found
                      ELSE Append(acc.found,
                             [name |-> acc.event[1],
                              json |-> IF line.kind = "done" THEN Bad ELSE line.json])]
      [] OTHER -> acc

SseEvents(lines) == FoldLeft(SseLine, [event |-> <<>>, found |-> <<>>], lines).found

-----------------------------------------------------------------------------
(* Streams. A reading is what log_response_event takes over.               *)

NoReading == [model |-> <<>>, usage |-> <<>>, reason |-> <<>>, tools |-> <<>>]

Usage(input, output, total) == [input |-> input, output |-> output, total |-> total]

\* Faulty variant: a chunk with usage adds to what was read before.
NextUsageSummed(old, new) ==
    IF new = <<>> THEN old
    ELSE IF old = <<>> THEN << Usage(Wrap(new[1].input), Wrap(new[1].output), Wrap(new[1].total)) >>
    ELSE << Usage(Wrap(old[1].input + new[1].input), Wrap(old[1].output + new[1].output),
                  Wrap(old[1].total + new[1].total)) >>

\* Faulty variant: what was read first is kept.
NextUsageFirst(old, new) ==
    IF old # <<>> \/ new = <<>> THEN old
    ELSE << Usage(Wrap(new[1].input), Wrap(new[1].output), Wrap(new[1].total)) >>

\* A chunk with usage replaces what was read before.
NextUsage(old, new) ==
    IF new = <<>> THEN old
    ELSE << Usage(Wrap(new[1].input), Wrap(new[1].output), Wrap(new[1].total)) >>

\* parse_streaming_chunks
ReadChoice(acc, c) ==
    [acc EXCEPT !.reason = Latest(@, c.reason), !.tools = Join(@, c.tools)]

ReadChunk(acc, json) ==
    IF ~ json.ok THEN acc
    ELSE FoldLeft(ReadChoice,
                  [acc EXCEPT !.usage = NextUsage(@, json.usage),
                              !.model = Latest(@, json.model)],
                  json.choices)

ReadChunks(chunks) == FoldLeft(ReadChunk, NoReading, chunks)

\* Faulty variant: a count that was not read is zero.
UsageOfZero(input, output) ==
    LET i == IF input = <<>> THEN 0 ELSE Wrap(input[1])
        o == IF output = <<>> THEN 0 ELSE Wrap(output[1])
    IN << Usage(i, o, Wrap(i + o)) >>

\* There is usage when both counts were read.
UsageOf(input, output) ==
    IF input = <<>> \/ output = <<>> THEN <<>>
    ELSE LET i == Wrap(input[1])
             o == Wrap(output[1])
         IN << Usage(i, o, Wrap(i + o)) >>

\* What the data of an event may say; each kind of event says some of it.
NoFields == [ok |-> TRUE, model |-> <<>>, input |-> <<>>, tools |-> <<>>,
             reason |-> <<>>, output |-> <<>>]

\* accumulate_streaming_events: message_start has the input, message_delta
\* the output.
ReadEvent(acc, e) ==
    CASE e.json.ok /\ e.name = "message_start" ->
           [acc EXCEPT !.model = Latest(@, e.json.model), !.input = Latest(@, e.json.input)]
      [] e.json.ok /\ e.name = "content_block_start" ->
           [acc EXCEPT !.tools = Join(@, e.json.tools)]
      [] e.json.ok /\ e.name = "message_delta" ->
           [acc EXCEPT !.reason = Latest(@, e.json.reason), !.output = Latest(@, e.json.output)]
      [] OTHER -> acc

Gathered == [model |-> <<>>, input |-> <<>>, output |-> <<>>, reason |-> <<>>, tools |-> <<>>]

ReadEvents(events) ==
    LET read == FoldLeft(ReadEvent, Gathered, events)
    IN [model |-> read.model, reason |-> read.reason, tools |-> read.tools,
        usage |-> UsageOf(read.input, read.output)]

\* The model of a stream that names none is the one that was asked for.
ReadStream(protocol, lines, asked) ==
    LET reading == IF protocol = "openai" THEN ReadChunks(DataLines(lines))
                   ELSE ReadEvents(SseEvents(lines))
    IN [reading EXCEPT !.model = Latest(<<asked>>, @)]

-----------------------------------------------------------------------------
(* Buffered answers. A number that is no i32 makes the whole unreadable.   *)

AllTools(choices) == FoldLeft(LAMBDA acc, c : acc \o c.tools, <<>>, choices)

\* parse_response of both protocols: the reason is that of the first choice.
ReadBody(protocol, body) ==
    IF body.usage # <<>> /\ ~ (Fits(body.usage[1].input) /\ Fits(body.usage[1].output)
                               /\ (protocol = "openai" => Fits(body.usage[1].total)))
    THEN NoReading
    ELSE [model |-> <<body.model>>,
          usage |-> IF body.usage = <<>> THEN <<>>
                    ELSE << [body.usage[1] EXCEPT !.total = Wrap(@)] >>,
          reason |-> IF body.choices = <<>> THEN <<>> ELSE body.choices[1].reason,
          tools |-> AllTools(body.choices)]
=============================================================================
