# Verification of the gateway

This directory is a TLA+ development about `src/`, the gateway that puts an
OpenAI-compatible chat API in front of Vertex AI. It holds specifications of
the gateway's parts, TLC configurations that check them on small instances, and
proofs that hold for every value of their constants. `PROJECT.json` is the
machine-readable index: components, runs, the correspondence of definitions and
source lines, hazards, findings, theorems.

Paths such as `forward.rs:169` are relative to `src/src/`.

## 1. The system

A client (an agent framework, an editor) sends OpenAI chat completions to the
gateway, which adds credentials, sends them to Vertex AI's OpenAI-compatible
endpoint and passes the answer back, whole or as a stream of server-sent events
(SSE). Two things make it more than a proxy. Gemini attaches a *thought
signature* to its tool calls and refuses a later turn in which the signature is
missing; ordinary clients drop it, so the gateway hides it inside the id of the
call. And agents rely on complete tool calls, so the gateway collects the
fragments of a call and sends each call whole, in front of the terminal chunk.

### Inventory

| Part | State | Operations | Meets | Hard |
|---|---|---|---|---|
| **Streaming relay** `forward.rs:132-362` `stream_response`, `process_line` | line buffer, tool calls, last usage, held-back terminal chunk, three flags; a channel of 16 frames | read, split, parse, absorb, hold, swallow, forward; after the loop: calls, terminal chunk, `[DONE]` or a broken body; report | upstream body, client's connection, observer | races of task, upstream and client; errors in mid-turn; back-pressure; hang-ups; end of body as a signal |
| **Tool calls** `thought.rs:130-340` `merge_delta`, `pack_tool_call`, `ToolCallAccumulator` | one entry per index, in order of arrival | `absorb`, `finish` | relay | interleaved parallel calls, missing index, null fields |
| **Packing and restoring** `thought.rs:166-290` | none: the state is in the client's history | `pack_response`, `restore_request` | client between the turns, Vertex | many turns; clients that drop, keep or rewrite fields |
| **Escaping, packed ids** `thought.rs:55-130` | none | `escape_signature`, `unescape_signature`, `pack_id`, `unpack_id` | both of the above | marker inside signature or id, multi-byte text, broken escapes |
| **Line accumulator** `sse.rs:40-125` | bytes of the unterminated line, cap | `push`, `finish` | relay | chunks cut anywhere; the cap |
| **SSE payload** `sse.rs:115-127` `data_payload`, `forward.rs:308-359` | none | the payload of a line, and the line written for it | relay, client | read by one set of rules, written for readers of another |
| **Request lifecycle** `routes.rs`, `protocols/openai.rs`, `forward.rs:79-135` | one handler future per request | authenticate, check, fetch a token, send, read the status, stream or answer | server, Vertex, observer, client | a handler dropped at an await; a failure at each await; statuses |
| **Shared state, observers** `state.rs`, `observe.rs` | client with timeouts, token source, observer | `notify` spawns one task per event | host application | slow or stuck observers; events lost |
| **Process** `main.rs`, `lib.rs` | serving or draining | start, serve, graceful shutdown | all connections | shutdown with requests and detached tasks in flight |
| **Usage** `observe.rs` `parse_usage` | none | counts of a usage object, and back into a terminal chunk | relay, handler | missing, malformed and huge counts |
| **Configuration, model names** `config.rs`, `protocols/openai.rs` `chat`, `resolve_model` | read once, or built by a host | read or build, address, resolve, drop fields | environment, host, Vertex | the location is needed twice; builders in any order; mistakes in the environment |
| **Credentials** `state.rs` `GcpTokenSource` | in the gcp_auth library | `token` | handler | no timeout of its own |

What makes each part correct, in a sentence:

- relay: a turn looks complete to the client exactly if it was; content is
  neither lost, repeated nor reordered; nothing piles up behind a slow client;
  the task always ends, and reports once;
- tool calls: what is sent for a call is what was received for it, whatever
  arrived between the fragments, with the signature in one place;
- packing and restoring: Vertex cannot tell the client from one that kept every
  id and signature;
- ids: unpacking undoes packing; broken input gives no signature, not a wrong one;
- line accumulator: the lines do not depend on the chunks; memory is bounded;
- lifecycle: the client gets Vertex's status, accounting matches it, and neither
  an observer nor a shutdown leaves a request hanging or cuts a stream;
- payload: a standard client reads what Vertex sent, and one `[DONE]`;
- usage: each count in its place, and what is no count harms no other;
- configuration: host and path agree on the location asked for, names are ones
  that Vertex can have, and a mistake in the environment stops the start.

## 2. The modules

```
 ToolCalls ──▶ StreamRelay ──refines──▶ ResponseStream
                  │   ├──refines──▶ LineSource ◀──refines── LineAccumulator
                  │   ├─▶ ConsolidatedCalls (reference for tool calls) ─▶ MCStreamRelay
                  │   └─▶ StreamRelayProofs ─▶ StreamContentProofs (with ConsolidatedCalls
                  │                                            and SequenceInduction)
                  ▼
              StreamService ──refines──▶ Gateway ─ MCGateway, GatewayProofs
                      ├─ MCStreamService
                      └─ StreamServiceProofs (extends StreamContentProofs, too,
                                              and instantiates GatewayProofs)

 Conversation ──refines──▶ Dialogue
     ├─ MCConversation
     └─ ConversationProofs

 LineAccumulator ─ MCLineAccumulator, LineAccumulatorProofs

 ThoughtId ──▶ Settings ──▶ Conversions ─ SsePayload, UsageCounts
                               ├─ MCConversions
                               └─ ConversionProofs ◀── SequenceInduction
```

An arrow that is not labelled is EXTENDS. Operators whose comment begins with
"Bug variant" are not part of the specifications: each is what a definition
would be under a plausible mistake, and shows that a property notices it.

### StreamRelay, ToolCalls and ResponseStream

`StreamRelay` is the task that `stream_response` spawns, its upstream and its
client. `pc` is the place in the code: `read` is the await on the upstream,
`lines` the loop over complete lines, `chunk` the inside of `process_line`,
`forward`, `error`, `truncated`, `calls`, `finish`, `end` the awaits in
`tx.send`, `drain` the code behind the loop, `notify` the last statement. Every
await is a state of its own, so upstream and client may do anything there; what
lies between two awaits is split where the code has steps worth naming.

The upstream's SSE lines are fixed in `script` at the start, one of every
sequence that `Scripts` allows, and a line is referred to by its position: a
forwarded chunk is its position, so "in order", "twice" and "lost" can be said.
A line has a kind (`skip` for what `data_payload` leaves out, `raw` for what is
not JSON, `chunk`), and a chunk has what `process_line` distinguishes: whether
its delta has a field besides the tool calls, the deltas, the reason, the usage.
A read delivers some lines and perhaps part of another (`ReadPart`), exceeds the
accumulator's cap (`ReadOverflow`, which loses the lines of that read as `push`
does), fails (`ReadError`) or finds the end (`ReadEnd`).

The channel is the append-only sequence `sent`, of which the client has taken
the first `taken`. `Enqueue` has room if fewer than `CHANNEL_DEPTH` are in
flight; a send fails once the client is gone. The end of the body as the client
sees it is in `client`: `ended` if the channel closed, `broken` if the last item
was the error that makes the server tear the connection down.

`ToolCalls` has `merge_delta`, `pack_tool_call`, `absorb` and `finish` on calls
reduced to three leaves (id, arguments, signature), each absent, null, or a
sequence of fragments: strings that are appended. A leaf stands for every field
at its place, name and type included. `ConsolidatedCalls` says, without accumulating, what
the calls should amount to: for each index the deltas that were given for it, the
null after which a leaf starts anew, the values since then joined in order, and the
first index to appear first. `CallsConsolidated` compares the two.

`ResponseStream` is what this amounts to for the client: which frame may follow
which and what an end of body means. The refinement maps `sent` to the types of its frames.

### LineAccumulator and LineSource

`push` and `finish` byte by byte. A byte is plain, one of the two of a two-byte
character, CR or LF. A Rust `String` is UTF-8, so `from_utf8_lossy` keeps the bytes
of whole characters and puts `Replacement` for a byte that is in none. `Push` is the call, `ScanLine` a turn of
the loop over line feeds, `Return` the drain and the cap. `fed`, `out` and `ends`
remember the whole stream and what came out of it.

`LineSource` is the interface between the two: what `StreamRelay` takes a call of
`push` or `finish` for, in terms of lines handed out and of text behind the last of
them. `LineAccumulator` implements it (a call is one step, whose outcome is settled
when it begins, so the scan is invisible), and `StreamRelay` makes no other use of
its accumulator. That is what justifies `ReadPart`, `ReadOverflow` and `Drain`,
which do not look at bytes.

### Conversation and Dialogue

`Conversation` is the history of a client with tool calls and results over many
turns. `Ask` restores the history as `restore_request` does, `Answer` packs one
of Vertex's `Replies`, `Receive` appends what the client keeps of it, `RunTool`
adds a result, `Fail` and `Forget` are failed turns and trimmed histories. What
the client keeps depends on its `profile` and is external: it drops unknown
fields, keeps all, adds google-specific content, writes null where it has none,
or shortens ids. Ids and signatures are sequences of fragments and MARKER is one
of them; the escaping is `ThoughtId`'s. A fragment `Mangled` stands for what
`unescape_signature` rejects.

`Dialogue` is the agent that talks to Vertex directly and keeps everything. The
refinement maps its messages to what Vertex would see of the client's history.

### ThoughtId

`escape_signature`, `unescape_signature`, `pack_id`, `unpack_id` on sequences of
bytes, 0 to 255. `from_str_radix` accepts digits of either case and a leading `+`,
as Rust's does, and what it decodes may be any byte; `IsUtf8` is the test of
`String::from_utf8`, with the ranges of RFC 3629.

### SsePayload, UsageCounts, Settings, and Conversions

Three pure parts. `SsePayload` is `data_payload` and what `process_line` makes of a
line, on tokens (`data:`, space, JSON, `[DONE]`, anything else), next to an
interpreter of event streams as the SSE standard has it: what a client reads.
What is relayed of a body ends with the terminal chunk and `[DONE]`; which chunk that
is, and which lines are held back or swallowed, is `StreamRelay`'s.
`UsageCounts` is `usage_of`, `parse_usage` and the object written into the terminal
chunk. `Settings` is `Config` with its builders and `from_env`, the URL put together
from it, `resolve_model`, and the request as it leaves `chat`, on JSON objects as
functions from keys to values: the model's name replaced, fields dropped, and
`restore_request` on messages and calls of any shape. `restore_request` is modelled
twice, here for one request field by field, with the bytes of its ids, and in
`Conversation` for histories over many turns, with the escaping left out.

`Conversions` sends one input through one of these or through `ThoughtId`:
something is given, the gateway makes something of it, the other end reads that
back. A packed id can be replaced on the way.

### Gateway

Requests side by side, from connection to event. `Accept` is all that a handler
does before its first await (`Immediate`: route, extractor, `check_auth`, the
check of `n`); `GotToken`, `CallFails`, `GotStatus`, `GotBody` are `forward`
between its awaits; `TaskSends` and `TaskNotifies` are what `StreamRelay` does in
detail; `ClientLeaves` drops a handler that has not returned. The process
starts or fails to, is signalled, drains, and stops as soon as no connection is
open. `notify` makes an event if an observer is attached (`Observed`: `main.rs`
attaches none, a host may), and `ObserverReturns` is the end of the observer's
own task. The endpoint `embedded` is a host that calls `chat` itself, behind its
own routes. The extractor's 400, 413 and 415 are one answer, 400.

### StreamService

`StreamRelay` in the place of `Gateway`'s task: a streamed completion of one request
from the connection to the observer. It extends `StreamRelay` and instantiates
`Gateway` with the state of the task and the events as functions of the relay's
state (`TaskState`, `CompletionEvent`), so that process, handler, connection and
observer are Gateway's own actions, and the task and its channel are StreamRelay's.
`StreamRecv` and `Leave` move both: the relay's client is Gateway's connection. The
relay runs only while the process does. `ImplementsGateway` is the converse: seen
through the mapping, all of this is a behaviour of `Gateway`.

## 3. The runs

| Run | Configuration | States | Shows |
|---|---|---|---|
| `stream_safety` | MCStreamRelay.cfg | 589,831 | safety of the relay, back-pressure, termination under fairness; it implements ResponseStream and keeps to LineSource |
| `calls_whole` | MCStreamWhole.cfg | violation | finding 1 |
| `final_usage` | MCStreamUsage.cfg | violation | finding 2 |
| `hangup_usage` | MCStreamHangup.cfg | violation | finding 3 |
| `line_accumulator` | MCLineAccumulator.cfg | 75,906 | lines, cap, tail and text for every short stream and cutting; it implements LineSource |
| `conversation` | MCConversation.cfg | 8,615 | five kinds of client: to those that echo ids the gateway cannot be noticed; for all, results match calls and foreign content stays |
| `null_extra_content` | MCConversationNull.cfg | violation | finding 4 |
| `conversions` | MCConversions.cfg | 251,710 | ids, event streams, token counts, settings and requests: what is read back is what was meant |
| `gateway` | MCGateway.cfg | 80,668 | statuses, accounting, settling, shutdown |
| `stream_service` | MCStreamService.cfg | 7,848 | relay and lifecycle together, with a shutdown at any moment |
| `hangup_unreported` | MCGatewayHangup.cfg | violation | finding 5 |
| `broken_body` | MCGatewayBroken.cfg | violation | finding 6 |

### The properties

*Relay.* `DoneMeansComplete`: `[DONE]` is the last frame, behind the terminal
chunk, and only if the body arrived in full without an error.
`TruncatedTurnIsWithheld`: of a turn cut inside an event neither calls nor terminal
chunk nor `[DONE]` are sent. `EndOfBodyIsHonest`:
a normal end of body follows `[DONE]`, a broken one an error frame.
`SynthesisedReasonAgrees`: a synthesised terminal chunk says `tool_calls` exactly
if calls were sent. `ContentIntact`: chunks in order, once, and in a completed
turn all that carry content - apart from a terminal chunk that a later one
replaced. `HangupStopsReading`: after a hang-up the first line for the client
ends the reading. `CallsConsolidated`: the calls sent are the fragments received,
joined per call, signature and id in one place, compared with a definition that
looks at all deltas at once. `Backpressure`: never more than a channel and one
read are waiting for the client. `LastUsageSurvives`: unless the client left before
the end, the observer has the last report, and so has a terminal chunk without a
usage field of its own. `StreamSettles`: the task ends with one report; no client
waits for ever. `ImplementsResponseStream`: the refinement.
`ReadsFollowLineSource`: lines that a failed push swallowed are not handled, and a
text at the end counts in whatever way the reading ended.

*Lines.* `WholeLines`: what comes out is what the uncut stream contains.
`CapIsOnTheTail`: an error exactly if the line still growing exceeds the cap.
`TailIsReported`: a stream that stops inside a line is noticed. `TextSurvives`:
the lines of a valid stream have the very bytes of the stream, wherever it was cut.
`ImplementsLineSource`: a call hands out all lines that it ended or, if it fails,
none, and an unended text is neither lost nor handed out before `finish`.

*Conversation.* `ImplementsDialogue`: to Vertex an echoing client is one that kept
ids and signatures itself. `ResultsMatchCalls`: in every request a result refers to
a call of its turn, whatever the client makes of ids. `ForeignContentKept`: what a
client wrote into google-specific content reaches Vertex as it was.

*Conversions.* `RoundTrip`: unpacking undoes packing. `SafeCharset`: a packed id
passes a validating client. `MalformedIsRejected`: a broken escape gives no
signature. `FramesReadBack`: a standard client reads the payloads that Vertex sent,
in order, each as one event, then the terminal chunk and one `[DONE]`. `CountsSurvive`: each count arrives in
its place, and what is no count is 0 and harms no other. `AddressAgrees`: project
and location in the URL are those asked for and the host serves them. `RequestPassedOn`:
the model has a name that Vertex can have, and aliases lead where they say; no field
but the dropped ones is lost, the others arrive as they were, and so do the messages,
but for those with packed ids, in which nothing but ids and `extra_content` differs;
no packed id is left; and a second gateway, with any table that does not list the
name, sends the very same request.
`MistakesSurface`: without a project or with a broken table the gateway does not
start, and a table that is read is the only one that counts. A project that is
set to the empty text is not among the values; with it the gateway starts.

*Gateway.* `StatusIsVertexs`, `AccountedOnce` (a request that Vertex answered is
reported once with the client's status; one it did not, not at all),
`EveryRequestSettles`, `ShutdownCompletes`.

*Service.* `ImplementsGateway`: the refinement. `StreamIsServed`: what Gateway
assumes of the task's progress follows from the relay's, and with it Gateway's
liveness. `DeliveredIsReported`: when the process ends, a stream that its client got
in full was handed to the observer, with the usage of all its lines.
`ShutdownCutsNoStream`: whoever stayed until the process ended has `[DONE]`, or the
break with the error frame in front.

### Bounds, and why they are enough

- **stream_safety**: every body of at most 3 lines (`MaxLines`) out of 8 kinds
  (`ShortScripts`) and three bodies of up to 7 lines (`LongScripts`). The kinds
  are chosen so that each branch of `process_line` and each order of text,
  deltas of two interleaved calls, null fields and terminal chunks occurs; reads
  of at most 2 lines (`MaxPart`) with or without a fragment; a channel of 2
  instead of 16. With 3 lines the task can have forwarded, accumulated and held
  back one each, and up to 5 frames pass through a channel of 2, so it fills and
  the task waits at every send. With the longer bodies a client that stops reading
  has several times the channel's depth ahead of it. Its three violation runs use
  bodies of 2 lines.
- **line_accumulator**: every stream of at most 6 bytes (`MaxFed`) in chunks of
  at most 3, cap 2: a line, a line that reaches the cap and one that exceeds it
  fit, with the CR and the two-byte character cut in any place.
- **conversions**: ids of at most 4, signatures of at most 3 bytes, a marker of 3:
  an escape sequence takes 3 bytes, and an id may contain the marker or end in the
  beginning of it. The bytes are digits, hexadecimal letters of both cases, other
  word characters, `-`, `+`, and the bytes of multi-byte characters, whole and cut.
  Event streams of up to four lines of 8 kinds, and
  every single line of up to 4 tokens: an event needs two lines, and what a line
  does to its neighbours shows with four. Counts from 0 to `MaxU64` = 2 and one
  above. Every environment over three or more values a variable, up to two calls of
  builders, which is enough for one to override another, and bodies with names of
  up to two characters, with n absent, of every kind and on both sides of 1, and with
  histories of up to two messages: calls and results with plain, packed and broken
  ids, with none, with `extra_content` of each kind, and values that are of no use.
- **conversation**: histories of at most 6 messages (`MaxLen`): three turns with
  results, parallel calls, ids used again; failures and trimming are unbounded.
- **stream_service**: three bodies of at most 3 lines: one with text, a tool call,
  a terminal chunk and two reports of usage; one that overfills a channel of 2 and
  has no terminal chunk; an empty one. One request, with a signal, a hang-up and a failing read at
  any moment. Bodies of other kinds are `stream_safety`'s, several requests are
  `gateway`'s, and the proofs (section 4) are for all bodies.
- **gateway**: two requests at a time of 8 kinds, the statuses 200 and 400, all
  four payloads. Requests share nothing but the server and shutdown, so
  two are enough for one to be in the way of the other. No symmetry is used,
  since the run checks liveness.

Deadlock is checked in every run but `conversions`, where an input is done with
once it was read back and a gateway that does not start makes nothing. Where the
system has an end the specification says so by an explicit `Finished` or `Stopped`,
so any other stop is an error.

### Fairness

- Task, handler and stop steps: the runtime polls a future that is ready.
- `Upstream` (relay): a read returns, if only with an error after `READ_TIMEOUT`
  (120 s, `state.rs:27`). The same timeouts end a handler's request. The token
  source has no timeout here; that it returns is an assumption.
- `ClientRecv`, `ClientEnd`, `ClientDone`: a client that is attached reads what
  is there. Without it nothing settles: a client that neither reads nor closes
  also holds up the shutdown. Hanging up is never forced.
- `StreamService` assumes this of the relay, the handler and the stop, but not
  Gateway's `WF_vars(Task(r))`: `StreamIsServed` shows that it is not needed.
- Nothing is assumed of observers: `EveryRequestSettles` and `ShutdownCompletes`
  hold with observers that never return.

### Assumptions about what is outside

The server (axum and hyper) drops a handler's future when the client disconnects
and the body with it; graceful shutdown waits for open connections only; the
runtime takes detached tasks with it when it ends; HTTP framing tells a complete
body from a cut one; a tokio channel is bounded and in order, and sending fails
when the receiver is gone.

## 4. The proofs

Every theorem is for all values of the constants that satisfy the ASSUME of the
module: any bodies, channel depth, number of requests, replies, chunks, cap.

| Theorem | Says | Module |
|---|---|---|
| `TypeCorrect`, `DoneIsHonest`, `EndIsHonest` | `Spec => []TypeOK`, `[]DoneMeansComplete`, `[]EndOfBodyIsHonest` | StreamRelayProofs |
| `Refinement`, `ReadsAreOfLines` | `Spec => ImplementsResponseStream`, `ReadsFollowLineSource` | StreamRelayProofs |
| `CutTurnsAreWithheld`, `UsageSurvives`, `ReasonIsRight`, `HangupIsNoticed`, `ContentArrives`, `MemoryIsBounded` | `[]TruncatedTurnIsWithheld`, `[]LastUsageSurvives`, `[]SynthesisedReasonAgrees`, `[]HangupStopsReading`, `[]ContentIntact`, `[]Backpressure` | StreamContentProofs |
| `CallsAreConsolidated` | `[]CallsConsolidated` | StreamContentProofs |
| `ServedStreamIsStream`, `ServiceIsGateway` | `ServiceSpec => Spec`, `ImplementsGateway` | StreamServiceProofs |
| `ServedStreamIsSafe`, `ServedStreamIsAccounted` | `ServiceSpec =>` the nine safety properties of the relay; `[]AccountedOnce` and `[]StatusIsVertexs` of Gateway | StreamServiceProofs |
| `ShutdownWaitsForStreams`, `DeliveryIsReported` | `ServiceSpec => []ShutdownCutsNoStream`, `[]DeliveredIsReported` | StreamServiceProofs |
| `LineTypeCorrect`, `ChunksDoNotMatter`, `CapHolds`, `CutIsNoticed`, `TextIsIntact` | `[]TypeOK`, `[]WholeLines`, `[]CapIsOnTheTail`, `[]TailIsReported`, `[]TextSurvives` | LineAccumulatorProofs |
| `LinesAreASource` | `limit # 0 /\ Spec => ImplementsLineSource` | LineAccumulatorProofs |
| `GatewayTypeCorrect`, `StatusIsHonest`, `AccountsAreRight` | `[]TypeOK`, `[]StatusIsVertexs`, `[]AccountedOnce` | GatewayProofs |
| `ConversationTypeCorrect`, `ConversationIsDirect`, `ResultsFindTheirCalls`, `ForeignContentStays` | `[]TypeOK`, `Spec => ImplementsDialogue`, `[]ResultsMatchCalls`, `[]ForeignContentKept` | ConversationProofs |
| `IdsSurviveTheRoundTrip`, `PackedIdsAreSafe`, `BrokenSignaturesAreRejected` | `[]RoundTrip`, `[]SafeCharset`, `[]MalformedIsRejected` | ConversionProofs |
| `FramesAreReadAsSent`, `CountsAreKept` | `[]FramesReadBack`, `[]CountsSurvive` | ConversionProofs |
| `AddressesAgree`, `RequestsArePassedOn`, `MistakesStopTheGateway` | `[]AddressAgrees`, `[]RequestPassedOn`, `[]MistakesSurface` | ConversionProofs |

**StreamRelay.** The properties speak of the frames sent, the steps depend on
`pc`; neither says anything about the other. `RelayInv` connects them: for each
`pc` what the last frame is, whether an error frame was sent if `failed` or
`truncated` is set, and that the loop is only left for `drain` with every line
handled, an error, or no client. `DoneMeansComplete` needs the last part: `[DONE]`
is only *sent* to a client that is attached, so leaving the loop early without
an error means that it never is. The refinements follow from `RelayInv` with
one step per action.

What the frames carry takes more: `ByStage` (calls and terminal chunk are sent in
this order and behind the loop), `Withheld` (a cut is noticed before any of these is
sent, and leads past them), `UsageKept` (`usage` is the last report among the
lines parsed so far), `ChunksInOrder`, `Passed` (to a client that stayed, every handled
line that was for it was sent) and `Held` (the terminal chunk held back is the last
among the lines handled). `ContentIntact` follows at the moment `[DONE]` is sent,
when all lines are handled. `Backpressure` is counting: the lines that wait are those
not handled, at most one read, and the images of at most a channel of frames
(`Lag`), by theorems about finite sets.

For the tool calls `CallsHeld` says that what the accumulator holds is what the deltas
absorbed so far amount to by `ConsolidatedCalls`, one entry for each index seen. One
more delta is one more merge (`JoinedAppend`, `LeafAppend`): a null resets a leaf, a
string is joined to what followed the last null, and the entries of other indices stay
as they are (`AbsorbHolds`). `finish` then sorts without losing or repeating a call, and
packs each (`FinishConsolidates`), and `CallsOut` carries that to the frame sent.

**StreamService.** Every service step is a step of the relay or leaves it alone, so
that `ServiceSpec => Spec`, and everything proved of the relay holds of a served stream. What
is left is where the two halves meet: `ConnInv` says that the relay is in its initial
state until it is spawned and that from then on its client and the connection agree,
and `Ends` what the end of a stream says of the task (a body that ended or broke off comes
from a task that had come that far, and it reported once). With
both, each step is one of Gateway's or changes nothing that Gateway sees. With the
refinement, Gateway's invariants hold of the composed system: `GatewayProofs` is
instantiated with the mapped state, which needs its assumptions for what is put in
the place of the constants, among them `ServiceAssumption`: the mark for no status or
answer is no status and no answer.

**LineAccumulator.** `LineInv` says that `buf` is what follows the last byte
drained, that `lines` and `out` together are the lines up to `start`, and
that `ends` are the line feeds in front of it. The lemmas are about SubSeq of a
concatenation: bytes already fed keep their position when more arrive, which is
the reason why the chunks do not matter. For the text, a line's bytes are looked at
in the whole stream: both bytes of a character are on the same line, since neither is
a line feed or a CR. For `LineSource`, the outcome of a call is a function of what is
in the buffer when it begins, and counting feeds shows that the scan does not
change it.

**Gateway.** `GatewayInv` is TypeOK and, for each request, `Staged` (which of
connection, handler, answer and task go together), `StatusOf` and `AccountOf`
(which events there are at each stage). Requests are independent, so each step
is shown for the request it moves and trivially for the others.

**Conversation.** `CInv` says that the history is well-typed, that the request
Vertex works on is the restored history, and that the answer on its way is one
of Vertex's replies, packed. It is needed because the refinement maps `Receive` to
an answer that Vertex gave: without the last part it could be anything. `RoundTrip`
is the lemma about one call: the first marker of a packed id is the one that was
put there, whatever the signature contains.
`ImplementsDialogue` speaks of clients that send ids back and write no null; the
others may be among the `Profiles`, but for them it would be false, as finding 4 shows.
`ResultsMatchCalls` and `ForeignContentKept` hold for all: both halves of a call and
its result go through the same `unpack_id`.

**Conversions.** The invariant is bookkeeping: `made` is the conversion of `given` and
`back` the reading of it. The work is in what the operators compute, for inputs of any
size.
The library's induction theorems take an operator, which the provers cannot
instantiate. `SequenceInduction` states induction over sets instead: a set of
naturals that contains 0 and is closed under successor contains them all, a set of
sequences that contains the empty one and is closed under `Append` contains
`Seq(S)`. A claim is the set of the numbers or sequences for which it holds. From that
come existence and equation of each recursive function (`UnescapingExists`,
`ReadingExists`, `SettingUpExists`), and `FlattenSeq` and `FlatMap` of a concatenation.

- *Ids.* Escaping is a `FlatMap`; unescaping reads from a position, so
  `UnescapeEscape` goes backwards from the end of the text, and so does
  `BrokenIsRejected`: in front of a place that cannot be read nothing can, whichever
  way the bytes before it are taken. Whatever follows the marker,
  no earlier one begins inside an id that does not hide it (`OccurrencesAre`), so that
  `UnpackPacked` cuts at the one that was put there.
- *Event streams.* `Reading` of a longer text is a step of the reader more
  (`ReadingAppend`). A line that the gateway writes takes the reader from one
  line start to the next (`ReadEvent`), and induction over the lines gives what is read
  of all of them, next to the same for what Vertex sent (`SentIsRead`).
- *Settings.* The last call of a builder decides (`BuiltHasLastValues`). A name that
  was resolved is of a form that resolving leaves alone (`ResolvedName`).
- *Requests.* What is left of an id holds no marker (`Unpacked`), so that a restored
  call, message or request is restored once and for all (`CallRestored`,
  `MessageRestored`, `RequestRestored`); a second gateway changes nothing since none of
  its three changes finds anything to do (`SentAgain`).

The assumptions are on what is given, not on the code: ids and signatures are
sequences of bytes, signatures UTF-8 (`InputIdAssumption`), and the marker of word
characters (`IdAssumption`); lines are of tokens
(`StreamAssumption`); what is no count is no number (`CountAssumption`); marks such as
"unset" and the fixed parts of the path differ from names of projects and locations
(`SettingsAssumption`); tables name models by sequences of characters
(`NameAssumption`), and so do bodies, in which what the gateway takes for an object, a
list or an id is one (`BodyAssumption`).

**Only model-checked.** Liveness and what needs it: `StreamSettles`,
`EveryRequestSettles`, `ShutdownCompletes`, `StreamIsServed`, since the prover does not handle ENABLED and with it fairness.
Every invariant, action property and refinement without fairness that a passing run
checks is a theorem as well.

## 5. Where code and text disagree

Each of these is a run that TLC ends with a counterexample.

1. **`calls_whole`** (`forward.rs:225`). A read error at an event boundary leaves
   nothing in the line accumulator, so `truncated` is false and accumulated tool
   calls are emitted behind the error frame, whole or not. `forward.rs:210` says
   that calls that may be incomplete must not be.
2. **`final_usage`** (`forward.rs:253`). A terminal chunk with `"usage": null`
   does not get the usage seen before, since the test is for the field being
   there. `forward.rs:250` says that clients reading it there are unaffected.
3. **`hangup_usage`** (`forward.rs:192`). When a client hangs up in mid-turn, the
   observer is given what an earlier chunk reported, though the rest was never read.
   `forward.rs:189` says that "usage stays unknown", and so does `observe.rs:43`.
4. **`null_extra_content`** (`thought.rs:267`). If a client sends
   `"extra_content": null`, the id is unpacked but there is nowhere to put the
   signature, and it is lost. `thought.rs:44` says that it is restored.
5. **`hangup_unreported`** (`forward.rs:117`). A client that leaves a
   non-streaming request takes the handler with it, `notify` included, so the
   completion is not reported at all, though `observe.rs:43` names a disconnect
   as a case that *is* reported, with unknown usage.
6. **`broken_body`** (`forward.rs:117`). A body that breaks off becomes an empty
   one, answered with Vertex's 200.

Noted while modelling, without a run of their own:

- messages with packed ids do not reach Vertex "exactly as the caller wrote it", as
  `openai.rs:36` has it of all messages: `openai.rs:74` unpacks the ids and fills in
  `extra_content` (`RequestPassedOn` states what arrives as it was and what does not);
- n as `2.0`, as a text or from 2^64 on passes the check at `openai.rs:80`, which takes
  whole numbers only, and reaches Vertex as written;
- `notify` runs when the last frame is in the channel; `observe.rs:15` says after
  the response has been delivered;
- a delta with `"id": null` erases the id received before (`thought.rs:191`
  says that the id is present by then; `CallsConsolidated` states what the code
  does);
- a line longer than the cap passes if its line feed is in the same chunk
  (`sse.rs:67` speaks of a cap on a line; `CapIsOnTheTail` states what it does);
- `-+a` is read as an escape sequence, since `from_str_radix` takes a sign
  (`thought.rs:90`; the exception is in `IsMalformed`);
- observers' tasks still running when the last connection closes are lost with
  the process (`observe.rs:52`).

## 6. State of the plan

The order was that of importance: the relay first, since it has the concurrency
and the failures, then the conversation, the lines, the lifecycle, the ids; then
the composition of relay and lifecycle, of lines and relay, the payload, usage and
configuration, and the proofs of what had only been model-checked, the conversions
and the tool calls last. What could still be added: several streams at once in
`StreamService` (its proofs are for one request; `Gateway`'s are for any number).

Noted as exceptions in the properties they concern: an event that Vertex would spread
over several data lines arrives as several; a `MODEL_ALIASES` that is not Unicode
counts as unset; a `GCP_LOCATION` that is set but empty is taken as it is (not in
the instance).

Not modelled, and why: re-exports, examples and deployment files have no
behaviour of their own; the contents of messages and parameters are passed on
unchanged and no property is about them; the size limit of the extractor
(`routes.rs:34`) is axum's own, and its refusal one of the answers of 400; gcp_auth, reqwest, hyper and
tokio appear as the assumptions of section 3.
