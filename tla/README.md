# EDI-Simulator: TLA+ models, checks and proofs

EDI-Simulator is a set of Go services that accept EDI purchase orders over
HTTP, keep them in Postgres, pass them along RabbitMQ queues, convert them
between X12, EDIFACT and XML, and ask a language model about them. This
directory holds its formal models: TLA+ modules translated from the Go source,
TLC configurations that check them on small instances, and TLAPS proofs that
hold for every instance. `PROJECT.json` maps each definition to the lines it
models, and lists the runs, the mutants that show each property can fail, the
hazards, the findings and the theorems.

    tlc -config default.cfg MCPipeline.tla      # model-check a deployment
    tlapm PipelineLoss.tla                      # check proofs

## 1. The system

| component | code | state | operations |
|---|---|---|---|
| api-gateway | `cmd/api-gateway` | none of its own | POST /messages: validate, store, audit, publish. POST /transform: read, transform, store the canonical document, mark, audit. DLQ retry: read, audit, publish. Mapping CRUD. Read-only queries |
| worker | `cmd/worker` | the batch of a tick | every 5 s: select unpublished pending rows, publish each, mark it published |
| sender | `cmd/sender` | the delivery in hand | consume the send queue: validate, mark `sent`, audit, publish to the receive queue, acknowledge |
| receiver | `cmd/receiver` | the delivery in hand | consume the receive queue: validate, mark `received`, audit, acknowledge, look for a mapping, request a transformation |
| transformer | `cmd/transformer` | the request in hand | consume the transform queue: read, transform, store the canonical document, mark `processed`, audit, publish the output, acknowledge |
| messaging | `internal/messaging` | RabbitMQ queues, unacknowledged deliveries | declare and bind, publish, consume, ack, nack, dead-letter |
| storage | `internal/storage`, `schema/init.sql` | tables `messages`, `transactions`, `transformation_mappings`, `trading_partners`, `llm_jobs` | single statements; no transaction spans two |
| engine and codecs | `internal/transformation` | none | decode to a canonical document, encode from it |
| validation | `internal/validation` | none | substring tests per format |
| llm-service | `cmd/llm-service`, `internal/llm` | rows of `llm_jobs`; the round and the deadline of a job being run | POST /jobs with deduplication; a worker per process claims (skipping what another process has locked), infers (a loop of chats and tool calls), writes the outcome |
| mapping registry | `cmd/api-gateway`, `internal/storage/mapping_repository.go`, the receiver's lookup | rows of `transformation_mappings`, the copy a PUT holds | POST inserts, PUT reads and writes back, DELETE deactivates; the receiver picks the first active mapping by name |
| simulator | `cmd/simulator`, the gateway's proxy | the pause flag, the partners | fetch partners at start, post an order per tick, pause, resume, stop on a signal |
| trading partners, in-memory repositories, middleware, metrics, tracing, logging, frontend | | | read-only data, test doubles, observers and clients |

**How they interact.** The gateway and the worker both publish every new
message to the sender's queue; the sender feeds the receiver's queue, the
receiver the transform queue, and the transformer publishes its output to the
sender's queue again. All share one database, statement by statement. Nothing
is called synchronously between services; the only feedback is the row's
`status` and `published_at`, RabbitMQ's redelivery, and the client's retry
requests.

**What is hard here.** Two feeders of one queue, so duplicates without any
fault; consumers that overwrite a status without looking at it; publish and
mark, mark and publish, acknowledge and request as separate steps with a crash
between any two; statements that commit and yet report an error; connections
that drop under a handler at work, which nothing re-establishes; publishes that
nobody confirms; deliveries requeued with an unchanged retry header; dead
letter queues that expire; a request that rewrites the status by which the
worker finds what it has yet to publish; several processes claiming jobs from
one table, past each other's locks; a deadline that reaches the chats of a job
and neither its tools nor its closing update; a PUT that reads
a row and writes all of it back; a pause flag read before the order is made up;
encoders that escape nothing, trailers that count optional segments, and a
validator and decoders that read the same formats independently.

**What makes each part correct.**

| part | properties |
|---|---|
| pipeline | nothing stored is stranded (`NoSilentLoss`), or only by named causes (`LossOnlyByKnownFault`); histories run in order (`LifecycleOrder`); nothing stored gets the status failed, given up or not (`NeverFailed`); outputs do not travel the pipeline (`OutputsStopAtSender`); it is a relay that moves a message one stage at a time (`ImplementsRelay`) and delivers it (`RelayDelivers`); everything settles (`EventuallySettled`) |
| mapping registry | an edit is undone only by a request that overlaps it (`LostEditsOverlap`); a transform request in flight is never orphaned (`RequestsStayKnown`) |
| llm jobs | one runner per job (`OneRunner`); answers name the right job (`AnswersExist`); one active job per question unless requests overlap (`DuplicatesOnlyByOverlap`); by age, but for what another claim has in hand, outcomes final (`ImplementsJobQueue`) |
| llm tool loop | it is one step that ends in a verdict (`ImplementsJobs`), and it ends (`WorkersReturn`) |
| engine, codecs, validation | what a format carries, content and routing, survives chains of conversions (`ContentSurvives`, `RoutingSurvives`); what is written passes validation (`WrittenIsAccepted`); trailers count what was written (`TrailerCounts`) |
| simulator | a pause holds (`PauseTakesHold`) and is reported truly (`ToldWhatWasAsked`); injected corruption stays out of the platform (`CorruptionKeptOut`), and other orders fail by their format alone (`OnlyXmlFails`); a signal ends it (`SignalHeeded`) |

## 2. Modules

    Platform            tables, exchange, queues, links, faults, shared handler steps
      Gateway  Worker  Sender  Receiver  Transformer      one service each
        Pipeline        composition, crashes and outages, fairness, properties
          --implements--> Relay
          DocClaims     what the documents say and the code does not do
            MCPipeline  the deployments of config.go and docker-compose.yml
          PipelineTypes -> PipelineLoss -> PipelineOrder    proofs
    Mappings            the registry and the receiver's lookup
      MCMappings        two rows of the seed          MappingProofs    proofs
    LLMJobs  --implements-->  JobQueue
      Inference  --implements-->  LLMJobs             LLMProofs        proofs
    Filtering           the members of a sequence that are in a set
      Texts             texts cut at delimiters and joined
        Engine          canonical document, X12, EDIFACT, XML
          Validation    the validator on the same texts
            Codecs      chains of transformations     CodecProofs      proofs
            Templates   the orders of the simulator
              Simulator its process, and its operators
                MCSimulator    three partners         SimulatorProofs  proofs
          MCCodecs (Codecs, Templates)   orders to convert
    SequenceFacts       lemmas about Filtering and Texts, for the proofs

**Platform.** `status`, `published`, `canonical`, `audit` are the columns and
tables the services touch (`trail` is history). `queue[k]` counts the copies of
each delivery on queue `messages.<k>`, ready or prefetched; `dlq` likewise.
`bound` is the set of declared queues: what is published to another key is
dropped. `link[s]` says whether a process is down, up, or alive without its
broker connection. `Statement(o)` is one database statement that succeeds, fails,
or takes effect unanswered. `Take`, `UpdateThen`, `NackRequeue` and
`DeadLetter` are what sender and receiver have in common.

**Services.** A service's handler is a program counter over its external
effects: each action is one statement, publish or acknowledgement with the
branches the code takes on its result. The deliveries a handler holds go back
to the queue when its process dies or its channel closes; a handler whose
connection is lost runs on, its acknowledgements void, and the process consumes
nothing until it is restarted. The gateway's three kinds of request are
handlers per message, so that requests interleave with one another.

**Pipeline.** `Start` declares the queues of a service; `Crash`,
`LoseConnection`, `BrokerRestart` and `DlqExpire` are the environment.

**Relay** is the pipeline with no queue, retry or fault in sight: a stage per
message that grows by one. The mapping takes the furthest status in a row's
`trail`. The status column itself does go back (see Findings); the furthest
stage does not.

**Mappings.** One action per statement of the three editing handlers; the PUT
holds its merged copy in `seen` between its read and its write. `Choose` is the
receiver's query and its choice, `Request` the publish that follows.
In `Receiver` the same lookup is a choice between finding and not finding.
`missed` is history: the fields that changed under a copy.

**LLMJobs.** One action per statement of POST /jobs and of the worker, but for
two statements whose inside matters. An insert begins, and dates its row
(`created_at` is `DEFAULT now()`), before it is committed (`StartInsert`,
`EndInsert`), so rows are not committed in the order they are dated; `clock`
moves on between two inserts or stands still (`Ticks`), so two rows may have
one date. The claim is an UPDATE over a SELECT with FOR UPDATE SKIP LOCKED: it
sees what was pending as it began (`StartClaim`), tries these rows by age,
skips one that another claim has locked or that is no longer pending
(`SkipLocked`), locks the first it can (`LockOldest`), and commits or is rolled
back (`EndClaim`). A younger job is taken before an older one that way.

`JobQueue` is what this promises: jobs are dated and submitted in two steps; a
claim looks, may pass over a job only when another claim has it in hand or has
taken it since, and takes the oldest of what remains. It is implemented under
the mapping: waiting = the pending rows, hand = the rows locked, taken = the
running rows, over = the rows with an outcome.

**Inference** replaces the step `Infer` of `LLMJobs` by the loop the code runs:
chats, rounds of tool calls, the deadline. An action that ends the loop is
`Infer`; all others leave the variables of `LLMJobs` alone. A tool's query and
the closing update may hang for ever (`ToolHangs`, `UpdateHangs`).

**Engine, Validation, Codecs.** A text is a sequence of tokens, a delimiter
being a token: a field that contains a delimiter is split when it is read,
exactly where the code's unescaped output is; a newline inside an EDIFACT
segment is dropped when it is read. A date is a day, or a day and a time of
day, which XML writes and reads, EDIFACT reads with the qualifier 203, and both
EDI encoders cut to the day (`DayOf`). A party's address and an item's
description are fields of the document that neither EDI codec writes or reads
(`EdiPart` is what is left). `%g` is modelled by what it
prints: a number of seven digits or more becomes `1e`, `+`, `06`, which a line
number, an integer, cannot be (`Atoi`). A count is as many strokes as it counts
(`Printed`): of its digits only the value matters. The validator
looks for tags as substrings, so `Within` names the tokens a tag occurs in
(`SE` in `SENDER`). A behaviour of `Codecs` is a chain of transformations of
one document, or of an order others wrote.

**Simulator** is the process with its start-up attempts, the loop of `main` as
a program counter between the check of the flag, the post and its answer, the
signal channel, and the handlers of `/control`, which die with the process.
What becomes of an order is computed from the modules above: `Valid` of its text, `Decodable` of its text,
and whether Postgres can store it.

### Abstractions

* A queue is a bag. Unlimited prefetch, nack with requeue and redelivery
  reorder, and no property depends on the order.
* A publish fails only on a closed connection: the client library
  (amqp091-go 1.9.0) ignores the context, and exchange errors close the channel
  asynchronously. A publish that returns nil on a dead connection (`vanish`) is
  modelled for the worker only. There it matters, since the row is then marked.
  The gateway's row is republished by the worker. A consumer's publish on a dead
  connection leaves its delivery unacknowledged, which is the step of
  `LoseConnection`.
* Clients post a message once, and at most one POST /transform and one DLQ
  retry per message are in progress. Their number is bounded by `MaxOps`.
* The documents the transformer emits share a few identities (`Outputs`): they
  are never stored, so one stands for all of its kind.
* Whether a mapping matches, and whether a transformation succeeds, is a
  choice. `Codecs` says what a transformation does.
* The worker's query that fails changes nothing and is a stutter. Its ten
  second context is the choice to abandon the rest of a batch.
* A statement is done when its action is: one that is under way when its
  process dies takes effect or not there and then (the claim of `LLMJobs`, the
  only one that holds a lock between steps, likewise). A client that goes away
  cancels its insert, which is the outcome `fail` or `late` without a fault.
* `requeued`, `trail`, `through`, `original`, `looked`, `missed`, `asked` and what
  `Simulator` declares as history are history: no action's guard reads them.
* Codecs leave out blanks and newlines around fields and segments (trimmed when
  read; `EdgeAssumption` keeps newlines to the inside of texts), the spellings
  of a day other than eight digits, control numbers and interchange times. X12's 15
  characters are `ISAWidth` tokens. An XML text is one token with the root of its tree and its content.
* The simulator's byte corruption acts on tokens: a delimiter is lost, a longer
  token is cut and may or may not be recognised still. In XML it makes the text
  unparsable unless it hits the prolog. Its ticks come at any time; the rate and
  `SIMULATOR_ENABLED=false` are left out.
* The description of a mapping goes with its name: both are edited alike.
  `CreatedAt` and `UpdatedAt` decide nothing.
* Which tool the model asks for, with which arguments, is left out: tools only
  read, and every result or error becomes one more message to the model.

## 3. Runs

| run | deployment, messages, faults | distinct states | shows |
|---|---|---|---|
| `default` | default routing, 1 message, any 2 of db, late, crash, conn | 672 000 | `TypeOK`, `NoSilentLoss`, `OutputsStopAtSender`, refinement of `Relay` |
| `exhausted` | 2 messages (1 invalid), all processes down at first, `MaxRetries = 0`, 1 operator request, 1 fault of any of the six kinds | 1 200 000 | `LifecycleOrder`, `NeverFailed`, and `LossOnlyByKnownFault`, an action property: a message is stranded only by a DLQ expiry, a vanished publish, a broker restart, what a sender cut off from the broker still writes, or a POST /transform of a row that is not yet published |
| `compose` | docker-compose routing, the transformer on the common queue, 2 of db, late, crash | 273 000 | `NoSilentLoss` with sender and receiver competing for one queue |
| `liveness` | default, 1 of db, late, crash, with fairness | 42 000 | `EventuallySettled`, `RelayDelivers` |
| `llm` | 2 requests, 2 subjects (one not deduplicated), 2 processes with their tool loops, 2 faults, with fairness | 327 000 | `OneRunner`, `AnswersExist`, `DuplicatesOnlyByOverlap`, refinements of `JobQueue` and of `LLMJobs`, `WorkersReturn` |
| `codecs` | orders with every mix of absent parts, the simulator's orders and an EDIFACT date with a time, chains of every length | 6 900 | `ContentSurvives`, `RoutingSurvives`, `WrittenIsAccepted`, `TrailerCounts` |
| `mappings` | 2 seeded rows and room for one more, 2 concurrent requests of any kind, the receiver's lookups, 1 fault | 179 000 | `TypeOK`, `LostEditsOverlap`, `RequestsStayKnown` |
| `simulator` | 3 partners, 2 operators who disagree, every order, restarts and a signal, with fairness | 151 000 | the six properties of `Simulator` |
| `retry_budget`, `received_final`, `dlq_retry` | default, few faults or none | | counterexamples to `DocClaims` |
| `llm_stuck` | 1 job, 1 crash, with fairness | | counterexample to a documented claim about jobs |

**Bounds.** One message suffices for the loss, order and liveness properties:
each is a statement about one row, and messages meet only in the worker's batch
(which another row can only delay; two rows run in `exhausted`) and in the
consumers (which take any copy, so another message only delays). The proofs
remove the bound. One message already travels in several copies: the gateway's,
one per worker tick, and requeued ones. Two faults allow a fault during the
recovery from another: an unanswered mark followed by a crash, a lost
connection followed by a restart. `MaxRetries = 1` takes the retry branch,
`MaxRetries = 0` the dead-letter branch; the header is never above 0, so larger
values add nothing. `BatchLimit = 1` with a table of two rows makes the worker
leave rows for a later tick. `Outputs = {good, bad}` has one of each fate. Two
jobs let one wait while the other runs or is over, and two requests overlap;
two rounds with two tool calls each already repeat (the code's three are covered
by the proofs, for any number of rounds). Two requests are what `LostEditsOverlap` needs (the one that
reads and the one that comes between); two names give the receiver's order a
first, a last and a tie. In `llm` each insert gets a later date than the one before, and may be committed
earlier (rows of one date are left to the theorem `TableIsQueue`); two claims at
once are what skipping takes. In `codecs`
every optional part is present and absent, a date has a time of day or none,
every delimiter of either format and a newline occur in every kind of field, an
identifier
exceeds the fixed width, and the state space is finite and exhausted: a chain
is back at a text seen before after at most four steps. In `simulator`
every byte of every order but the first tag's may be overwritten, and three
partners make the drawing of a receiver skip at either end.

**Deadlock** is checked for `codecs`, where a text that could no longer be read
would be one (even a mangled text stays readable), and for `mappings`, where
the receiver can always look again. Elsewhere the system may rest once its clients have been
served and the budgets are spent.

**Fairness.** `liveness` assumes weak fairness of each request handler, of the
worker, of each consumer, and of restarts. Go runs every runnable goroutine;
the worker ticks for ever; docker-compose restarts whatever exits (`restart:
unless-stopped`). Nothing is assumed of clients and operators, nor of the
broker beyond handing a waiting delivery to a connected consumer. Lost
connections are excluded there: a process that lost its broker stays alive and
is never restarted, so nothing settles after that. `llm_stuck` assumes that a
worker's ticks and its 120 s deadline come; the counterexample is a job no
worker has in hand. `llm` assumes weak fairness of the worker's own steps and of
the timer. The model owes nothing: the deadline has to end the chats. Nor does
the database owe a job in hand anything: that it never answers a tool's query or
the closing update is a step of its own (`ToolHangs`, `UpdateHangs`), after which
fairness asks for nothing, and an outcome `WorkersReturn` names. (A claim that
hangs is not in the model: there the worker has no job, of which the property
says nothing.) `simulator`
assumes weak fairness of its loop and strong fairness of `Shutdown`: the signal
and the ticker compete in one `select`, which Go resolves at random, and the
signal is ready again and again but not continuously.

**The transformer in `compose`.** docker-compose.yml has it publish to a key
without a queue (line 172), where its outputs vanish; docs/Phase 5 (lines 111,
140, 438) draws the common queue. The run takes the queue of the document: then
the outputs compete with the messages, and the receiver validates and rejects
some. The theorem `NoLoss` covers both.

**Lost connections in the compose deployment** are left out of that run. A
sender that works on without its connection can mark a row `sent` which the
receiver, from the same queue, has already marked `received` and acknowledged.
No copy is left then. The hypothesis of the theorem `NoLoss` says exactly this.

## 4. Theorems

The theorems of the pipeline hold for every set of messages, routing, retry
budget, batch size and number of faults that the named assumptions of
`Platform` (`IdAssumption`, `ConfigAssumption`, `TransformQueueAssumption`)
admit; those of the mappings for any rows, names, formats and requests
(`MappingAssumption`: `NoRow` is no row, the seed's rows are rows); those of
the jobs for any jobs, subjects, requests and processes (`JobAssumption`: at
least as many ids as requests), any clock, and any number of rounds and tool calls
(`LoopAssumption`); those of the codecs for documents over any tokens and of
any length, for any number of line items, any wires written by others and any
width of the fixed fields (`DocumentAssumption`, `SampleAssumption` and `EdgeAssumption`, which
say what a document and a wire are, `CodecAssumption`, `DateAssumption`: a date
is digits); those of the simulator for any number of partners, operators and
attempts (`SimulatorAssumption`), and any date (`TodayAssumption`).

| theorem | statement | further hypothesis |
|---|---|---|
| `PipelineTypes!TypeIsInvariant` | `Spec => []TypeOK` | |
| `PipelineLoss!NoLoss` | `Spec => []NoSilentLoss` | `LossFree` |
| `PipelineLoss!LossesAreKnown` | `Spec => LossOnlyByKnownFault` | `Chained` |
| `PipelineOrder!LifecycleIsOrdered` | `Spec => []LifecycleOrder` | `SeparateQueues` |
| `PipelineOrder!OutputsAreStopped` | `Spec => []OutputsStopAtSender` | `SeparateQueues` |
| `PipelineOrder!NothingStoredFails` | `Spec => []NeverFailed` | |
| `PipelineOrder!PipelineIsRelay` | `Spec => ImplementsRelay` | `SeparateQueues` |
| `MappingProofs!RegistryTypeOK` | `Spec => []TypeOK` | |
| `MappingProofs!TransformsStayKnown` | `Spec => []RequestsStayKnown` | |
| `MappingProofs!EditsLostOnlyByOverlap` | `Spec => LostEditsOverlap` | |
| `LLMProofs!JobTypesHold` | `Spec => []TypeOK` | |
| `LLMProofs!OneRunnerHolds` | `Spec => []OneRunner` | |
| `LLMProofs!AnswersHold` | `Spec => []AnswersExist` | |
| `LLMProofs!DuplicatesHold` | `Spec => DuplicatesOnlyByOverlap` | |
| `LLMProofs!TableIsQueue` | `Spec => ImplementsJobQueue` | |
| `LLMProofs!LoopTypesHold` | `InferenceSpec => []InferenceTypeOK` | |
| `LLMProofs!LoopIsInference` | `InferenceSpec => ImplementsJobs` | |
| `CodecProofs!X12RoundTrip` | what `X12Encode` writes, `X12Decode` reads | its EDI part is clear of `*` and `~` |
| `CodecProofs!EdifactRoundTrip` | what `EdifactEncode` writes, `EdifactDecode` reads | it is clear of EDIFACT's delimiters and of newlines |
| `CodecProofs!ContentHolds` | `Spec => []ContentSurvives` | |
| `CodecProofs!RoutingHolds` | `Spec => []RoutingSurvives` | |
| `CodecProofs!ValidHolds` | `Spec => []WrittenIsAccepted` | |
| `CodecProofs!CountsHold` | `Spec => []TrailerCounts` | |
| `SimulatorProofs!SimulatorTypesHold` | `SimulatorSpec => []SimulatorTypeOK` | |
| `SimulatorProofs!PauseHolds` | `SimulatorSpec => []PauseTakesHold` | |
| `SimulatorProofs!ToldHolds` | `SimulatorSpec => []ToldWhatWasAsked` | |
| `SimulatorProofs!CorruptionHolds` | `SimulatorSpec => []CorruptionKeptOut` | |
| `SimulatorProofs!OnlyXmlHolds` | `SimulatorSpec => []OnlyXmlFails` | |

`LossFree`: the services agree on the queues they share, `MaxRetries > 0`, no
publish vanishes, the broker does not restart, connections are lost only where
sender and receiver have a queue each, and no POST /transform takes effect
(there is none, or what is stored cannot be transformed). The runs `default`
and `compose` satisfy it. Without the last condition it is false: a row that is
marked `transformed` while its only publish was dropped is never selected by
the worker. `Chained`: the
worker publishes to the queue the sender consumes, and the sender to the
receiver's; both deployments, and any budget and faults. `SeparateQueues`: only the sender
publishes to the receive queue (the default deployment, not compose).

*`LossInv`* is the inductive invariant behind `NoLoss`. `NoSilentLoss` speaks
of rows that are marked; that it survives the marking needs `Covered`, which
says the same of the row the worker is about to mark. That copies are not
dropped needs `QueuesBound` (a running service's queues exist). That failures
requeue rather than dead-letter needs `Headers` (every delivery carries retry
count 0, which is also why the retry budget is never spent). That no stored
message is rejected by a consumer needs `Rows`, and what a row that says
`transformed` has behind it needs `Stamped` (a status is part of its history). A sender without its connection
may overwrite a row and never forward it: `Zombie` says that the copy it lost is
still on the send queue, which then has no other consumer.

`LossesAreKnown` asks of every single step which of the five causes of
`LossOnlyByKnownFault` it is. It follows pending rows that are published or
being marked, sent rows, and transformed rows that have not been received
(`Awaited`). A step that is none of them leaves a message that
is on its way, or parked in a dead letter queue, so (`Kept`). The dead letter
queues count, so the retry budget does not matter, and the part of `LossInv`
that does not depend on it (`Bookkeeping`) is enough.

*`OrderInv`* lets each delivery carry the evidence of the step before: what is
on the receive queue, or about to be put there, has been sent (`SentFirst`); what
is on the transform queue, or about to be, has been received (`ReceivedFirst`).
No fault breaks it, because every handler writes the status before it publishes
and `trail` only grows. *`ValidInv`* adds to the bookkeeping that rejected
identities never have a row.

*`RelayInv`* is `OrderInv` and that a stored row has a history. From it every
step adds at most one status to one `trail`, of a message that is ready for it
(`Ready`), and adding one that is ready is a step of `Relay` or a stutter.

*Mappings.* `RequestsStayKnown` is inductive over `TypeOK`, because no statement
removes a row or changes its formats. `LostEditsOverlap` needs
`CopiesAreCurrent`: the copy a PUT holds agrees with the table, except in the
fields its body names and those it has missed. `SetRow` is the only
step that can break this, and it records what it changes.

*Jobs.* `TypeOK` and `OneRunner` are one induction: that a claim ends with a job
of its own rests on no two claims having one row locked. `AnswersExist` rests on both,
since only a running job changes its status and rows stay. The inductive
invariant behind `DuplicatesOnlyByOverlap` is `LookedOver`: a job a request saw
about its own question, and was not answered with, has failed for good. The loop of `Inference` is shown
to be `Infer` by cases on its actions: each leaves the variables of `LLMJobs`
alone, or comes to a verdict `Infer` allows. What is proved of `LLMJobs`
therefore holds of it. The table implements
`JobQueue` step by step over `TypeOK` and `OneRunner`: beginning an insert dates
a job no later insert precedes (`clock`), ending it submits the job, and each
step of a claim is one of the queue's.

*Codecs.* A round trip has three parts. `SegmentsBack`: a list of segments free
of the delimiters is what splitting its text gives back. It is proved once for
any two delimiters, and EDIFACT adds that the service string advice, with a release character of
its own, is one more segment. Then the decoder is run over the segments the encoder lists,
part by part: the head, the date, the parties, the lines one by one, the
trailer. What remains is the document `Left` behind by the format: the EDI part
(`EdiPart`: the day, no addresses, no descriptions), without the currency. An
encoder cannot tell a document from its EDI part, so the round trips are
proved for documents that are their own EDI part and carry over. `ChainInv`,
the invariant of a chain, says that as long as every format so far had room,
the text at hand reads as the original, bared to its EDI part unless all of them
were XML (`Bare`), and cut by X12 if X12 was on the way.
`WrittenIsAccepted` and `TrailerCounts` are about the text itself:
`WrittenBy` says that some document (of the chain's tokens, after a foreign wire
too) was encoded last; the tags validation looks for are among the tokens its
segments begin with, and UNT, SE, UNH and ST are at the positions their counts
name, each occurring once.

*Simulator.* `LetterOK`: a letter is an order of `Drafts`, in its sender's
format, to somebody else. `PauseInv`: after a pause, unless the process
restarted, the flag is set, and once an order was let through no other is
between its tick and its post. `ToldInv`: until it is answered or undone, a
request is what the flag says. `CorruptionKeptOut` needs `CreatedInv` (what was created had been
accepted by validation and Postgres) and that an overwritten byte puts a null
byte into the text, wherever it is. `OnlyXmlFails` needs `CreatedInv` too, and that
each template, without a corruption, is read: the segments it is composed of
are what the decoder splits it into (`SegmentsBack` again), the first opens an
interchange, and one of those in X12 begins an order.

The proofs have one lemma per service or per action for each invariant, over
shared lemmas on deliveries, queues and rows; the last step of each theorem is
temporal (PTL).

**Induction.** The library's induction theorems take an operator as a
parameter, which the provers cannot instantiate. `SequenceFacts` states induction
for sets instead (a set of numbers that holds 0 and the successor of each
member holds them all), from the well-foundedness of the natural numbers, and
from it what recursive functions and folds compute (`Recursion`, `Agreement`,
`SequenceInduction`). That is how `Keep`, `Split`, `Join` and the decoders' loops are
proved about for texts of every length. The model uses recursive functions, not
`RECURSIVE` operators, where a theorem needs them.

**Only model-checked:** `EventuallySettled`, `RelayDelivers`, `WorkersReturn`
and `SignalHeeded`: liveness is out of the prover's reach.

## 5. Findings

Each is an entry of `PROJECT.json` with the lines it concerns.

* `x-retry-count` is never increased; MAX_RETRIES and the DLQ are dead code
  unless it is 0 (`retry_budget`).
* A row goes from `received` back to `sent` without any fault (`received_final`).
* The DLQ retry publishes to a key nothing is bound to (`dlq_retry`).
* The transformer's outputs never begin a journey of their own
  (`OutputsStopAtSender`, proved).
* Two concurrent requests start the same job twice (`DuplicatesOnlyByOverlap`
  states when); a job whose process dies runs for ever (`llm_stuck`).
* The 120 s deadline of a job does not reach its tools nor its closing update: a
  statement that hangs keeps the process's only worker (`WorkersReturn` has it
  as an outcome).
* No stored message is ever marked `failed`, although both status diagrams and
  a test have it: a dead-lettered row keeps its status, and what the sender's
  validation refuses has no row (`NeverFailed`, proved).
* POST /transform hides a row that has yet to be published from the worker,
  which then never publishes it (the fifth cause in `LossOnlyByKnownFault`).
* A PUT of a mapping undoes a DELETE, or another PUT, that came between its read
  and its write (`LostEditsOverlap` allows no other way).
* X12's SE count is one too high (`TrailerCounts` states what the code does).
* Numbers from a million on do not survive EDIFACT (exempted by `Fits`).
* The simulator's XML orders are accepted and stored, and cannot be transformed;
  its "schema mismatch" orders are transformed with zeros for numbers
  (`OnlyXmlFails`); its corrupted orders are refused or fail to be stored, and
  never reach the dead letter queue they are said to exercise (`CorruptionKeptOut`).
* In docker-compose.yml the transformer's outputs go to a key without a queue.
* The sender's audit ids are not UUIDs; `canonical_stored` is answered
  unconditionally; `transformed` and `processed` are not what the status diagram
  says.

## 6. Not modelled

* Trading partners: read-only after the seed; `Simulator` has their number and
  preferred formats as constants. In-memory repositories: test doubles.
* HTTP middleware, metrics, tracing, logging, frontend and monitoring: they
  observe, and nothing in the platform reads what they write.
* The read-only handlers (lists, formats, previews, queue status, health), and
  ports, URLs and rates of the configuration.
* Of the codecs: control numbers, interchange dates and times. Of the tool loop: prompts, arguments and
  the extraction of JSON from a reply, none of which can fail.
* A receiver that dies between its acknowledgement and its transform request
  loses the transformation, and a transformer that cannot read a message drops
  the request. Both steps are in the model; the code promises nothing they
  would break. The shift of the retry backoff cannot overflow while the header
  stays 0.

## 7. Plan

What is left, in the order of what matters most.

1. `Mappings` composed with `Pipeline`: the receiver's choice among actual rows
   in the whole pipeline, formats of messages included.
2. Control numbers and interchange dates in `Engine`.
