# A verification project for the Braintrust Rust SDK

TLA+ models of the parts of `braintrust-sdk-rust` that carry its logic, TLC
configurations that check them on small instances, and TLAPS proofs of the most
important facts for every value of the constants.  Paths below are relative to
the repository's `src/` directory of Rust code.

## 1. The system

The SDK records *spans*.  A span keeps its data under a mutex; `log` and `end`
take a snapshot and *submit* it as a row to a log queue that never blocks the
caller.  A background worker flushes the queue: it drains it, prepares each
row (project registration, destination), groups rows by credentials, merges
rows of the same span, cuts them in batches and posts the batches with
retries.  Above that sit the login of a client, datasets and experiments, which
register themselves at their first use, a wrapper for the streams of LLM
answers, evaluations, and a second, stand-alone uploader of rows.

| component | source | state | operations | hard because | correct when |
|---|---|---|---|---|---|
| log queue | `log_queue/queue.rs` | swappable channel, slot count, flush handle | `submit`, `push`, `drain_all`, `flush`, `flush_all`, `trigger_flush_command`, `Drop` | lock-free push against swap and drain; one flush at a time; triggers are lossy | each row has one fate, in thread order; the queue is bounded; `flush_all` is a barrier |
| worker | `log_queue/worker.rs` | command channel | `Flush`, `TriggerFlush`, closed | only the caller of `Flush` sees a result | every call is answered; the queue is empty at the exit |
| flush pipeline | `queue.rs` `flush_internal`, `merge.rs`, `row_key.rs`, `batching.rs`, `json_merge.rs` | groups, merged rows, batches, project cache | prepare, group, chunk, merge, batch, send | some of many steps fail; batches go concurrently | the server ends as if rows went one by one; failures are reported; credentials never mix |
| batch sender | `log_queue/http.rs` | attempt, back-off, overflow upload, cached version of the server | `send_batch_with_retry`, version probe | a lost answer makes a retry a duplicate | Ok means stored; errors that may pass are retried |
| spans | `span.rs`, `types.rs` | `SpanData` under a mutex, `has_flushed`, `ended` | build, `log`, `end`, submit | the snapshot is submitted after the unlock | one row replaces, the last suffices |
| span components | `span_components.rs`, `span.rs`, `logger.rs` | none | export, encode, parse, parent | chains over services | a trace stays one; an export finds its row |
| login | `logger.rs` | `LoginState`, `Notify` | build, background login, waits | set against wait, time-outs | no wake-up is lost; login ends |
| streams | `stream.rs` | aggregator, wrapped stream | closure of `then`, finalization, drop | await points between every two effects | the end means a whole output, an ended span and a flush |
| uploader | `logs3.rs`, `batching.rs` | work stack, limits | `upload_rows` | 413 splits a batch; lost answers | rows arrive in order, Ok means all |
| evaluations | `eval/` | semaphore, futures, results | `eval`, `run`, `process_case` | one task polls itself | one result per case; the summary counts them; failures remembered; no self-wait |
| datasets | `dataset.rs` | lazily registered id, pending rows, pages | insert, update, delete, flush, summarize, fetch, iterate | the registration and the rows are shared by tasks, calls are dropped at an await | rows go once, in order, to one object; an iteration ends with the data |
| experiments | `experiments/` | lazily registered id, spans to flush | log, start, feedback, update, flush, summarize, clone | a flush drains what other tasks log; it holds a lock over awaits | an Ok covers what was logged before; every call returns |
| drop warning | `log_queue/` | two counters | | only a log line depends on it | not modelled |
| extractors, errors, `lib.rs` | | none | | | not modelled: plain data access |

**Interactions.**  `Span` hands rows to `LogQueue` (`submit`); the flush task of
`LogQueue` is `FlushPipeline`; each batch it hands out is one `SendBatch`.  The
three are checked apart, joined by contracts: `RowLedger` is what the queue
promises those that submit rows, `Delivery` what the sender promises the
pipeline.  `Stream` and `Eval` use a span through `log`, `end` and `flush`.
`Login` gates the building of spans.  `Records` submits rows to a contract of
the queue (`Client`): a flush takes every row submitted before it but those the
queue *strands*, which it drops at the limit or puts where no flush looks.

`PROJECT.json` lists the hazards of the code line by line, each with the
properties that watch it or the reason why none does.

## 2. Modules

| module | models | role |
|---|---|---|
| `RowLedger` | what the queue promises | abstract specification |
| `LogQueue`, `MCLogQueue` | `queue.rs`, `worker.rs`, one action per atomic access | implements `RowLedger` |
| `Delivery` | what a sender promises | abstract specification |
| `SendBatch` | `http.rs`, one action per request | implements `Delivery` |
| `JsonMerge` | `merge.rs` over `json_merge.rs` | operators on rows |
| `FlushPipeline`, `MCFlushPipeline` | `flush_internal` after the drain | uses `JsonMerge` and the contract of `Delivery` |
| `SpanComponents` | wire form, parents, destinations | operators on exports |
| `Span`, `MCSpan` | spans, their calls and rows | uses `JsonMerge` and `SpanComponents` |
| `Login` | the client's login and its waiters | |
| `Stream`, `MCStream` | the stream wrapper and its aggregate | |
| `Transfer` | what `upload_rows` promises | abstract specification |
| `Uploader` | `logs3.rs` | implements `Transfer` |
| `Eval` | `eval/runner.rs`, `eval/bt_runner.rs` | |
| `Client` | tasks, registration through a cell, the contract of the queue | shared by the next three |
| `Dataset`, `DatasetReader`, `Experiment` | `dataset.rs`, `experiments/`, their requests in `logger.rs` | components |
| `Records`, `MCRecords` | datasets, iterators and experiments of one client | composes the four |
| `LogQueue_proof`, `FlushPipeline_proof`, `SendBatch_proof`, `Span_proof`, `Uploader_proof`, `Eval_proof`, `Records_proof`, `LoginStream_proof` | | theorems (section 6) |

An operator marked "Mutant" in a comment is a plausible bug put beside the
definition it would replace; no run uses it, and each property is known to be
violated by one of them.

### LogQueue and RowLedger

A *thread* `t` in `submit` goes through `LoadChannel` (`self.channel.load()`),
`ReadCount` and `Reserve` (the compare-exchange loop of `reserve_queue_slot`,
one round a step), `Send` or `Refuse`, and `Signal` (the lossy trigger).
Channel `c` is `items[c]` with its count `queued[c]`; the last channel is the
current one and `held[t]` is the one `t` loaded, which its `arc_swap` guard
keeps alive.  A *caller* `f` is one `flush_all`.  The worker is `Receive`,
`TriggerFlushBackground`, `Join`, `Check`, `Respond`, following the loop of
`LogQueueCore::flush`; the flush task is `Swap`, then `Pop` and `ReleaseSlot`
for each row, `DrainDone`, and `SendRows`, which settles the drained rows as
delivered or failed in any way.  A failed row is in `told` once a caller was given
the error of its flush, and in `logged` once the worker has logged that error for
a trigger or a `Drop` has ignored it.

`Drop` and `SendDropFlush` are the two `Drop` handlers of the last handle, the
client's (`logger.rs:972-1010`) and then the queue's (`queue.rs:1094-1135`):
each sees whether rows are queued and, unless the runtime is a current-thread
one, calls `flush_all` and ignores the result.  `config` is the configuration of
the client (`ClientConfigs`): a checked one is a `sync_flush` one
(`logger.rs:406`).

`compare_exchange_weak` may fail spuriously; such a round re-reads the count
and is a stutter here.  Left out: the depth and drop warnings, a panic of the
flush task, a runtime without a worker thread, and
`TrySendError::Disconnected`, which cannot occur while the pushing thread
itself holds the receiver.

In the ledger a row goes `unsubmitted -> queued -> inflight -> delivered |
failed`, or is `dropped` at submission.  All rows in flight settle in one step,
so two flushes never overlap.  `Stage(r)` is the refinement mapping.  The
ledger has one more outcome, `stranded`, that the code adds: see the findings.

### FlushPipeline and JsonMerge

`Prepare` is one round of the loop over the drained rows (`prepare_row`, then
the group of its credentials), `StartChunk` the merge of a chunk by row key and
its batches, `Answer` the result of one of the concurrent
`send_batch_with_retry`, `EndChunk` the end of `join_all`.  `Arrive` is what
`Delivery` allows: a row that some sender was given reaches the server, at any
time and any number of times, also when its sender has timed out and given it
up, a later chunk has been stored or `flush_internal` has returned.  `overtaken`
remembers the keys of which a row arrived so late that a later row was there
before it.  The server is taken as empty when the flush begins, and the rows of a
batch arrive one by one; a batch has each key once, so the properties, which are
about keys, do not tell this from an arrival all at once.

A row is its number in the order of submission, its content a function from the
paths of its leaves to who wrote them.  Sizes are abstract: `Cuts` allows every
cut that respects `batch_max_items`.  In `JsonMerge` an entry of `scores`,
`metrics` or `span_attributes` is inserted as it is (`Whole`), all else is
merged deep.

### SendBatch and Delivery

`RequestUrl`, `Upload` and `Post` are the calls; each ends in 2xx, in 429 or
5xx, in another status, or in no usable answer, and the server may have acted
in all but the refusals.  A timed-out post may still arrive later
(`Arrive`).  `VersionInfo` is the probe of the server: its answer, or the
default when it fails, is cached, and with the size of the batch decides
whether the batch takes the overflow path (`UseOverflow`).

### Span and SpanComponents

`BuildRoot` and `BuildChild` are the builder: a root has one of the parents a
program can give (`Roots`), a child the parsed export of another span, and either
takes fresh ids or those of a span that exists (`row_id`, `span_id` of the
builder).  Spans with one row id share a row at the server; a span is `Alone` when no
other has its row id.  `Log` and `EndSpan` change `data[s]` and put a snapshot
in `pending[t]` under the mutex; `Submit` hands it over after the unlock, and
the server receives it or it is lost (full queue, failed registration).  The
value at a path is the time of the call that wrote it, so newer and older can
be told apart.  `UpdateSpan` sends a row for an exported span.

An id is its number and the form of its text, which decides how it is encoded,
or `Blank`, the empty string, which some of the code takes for present and some
for absent (`Filled`).  `ParseV3` and `ParseV4` read the two wire forms, of
which `ToStr` writes the newer.  `DumpOfSpan` and `DumpOfUpdate` are the
destinations that the debugging dump of the queue gives a row, beside the ones
it is sent to.

### Login, Stream, Uploader, Eval

`Login`: `Request`, `Set`, `NotifyWaiters` and `Sleep` are the login task in its
three modes; a waiter looks, registers with `Notify`, looks again and sleeps;
`TimeOut` may strike at any moment of the sleep.
`ExperimentBuilderWithCredentials` writes the state and wakes nobody, as in the
code.

`Stream`: an item passes `RecordTtft`, `Push`, `Count`, `LogPartial`,
`TriggerFlush`, `Deliver`; the end of the source `LogFinal`, `EndSpan`,
`Flush`.  `Drop` is a consumer that leaves at an await.

`Uploader`: one call of `upload_rows`: the limits, the batches, the work stack
of chunks, and each request with its attempts.  A row is its length.  `Lands` is
a request of the last chunk that the caller was told had failed and that reaches
the server afterwards.

`Eval`: the whole evaluation is one task, and the futures of the cases are
polled only in "drain" and "collect".  `Acquire` therefore must find a permit
at once.  Tasks and scorers end in any order, and may fail.  `Summary` is the
summary that `run` computes: the counts and the statistics of each scorer.

### Client, Dataset, DatasetReader, Experiment, Records

A task runs a program of calls on handles and is at a label between its awaits.
`Ensure`, `SetCell` and `LeaveCell` are `OnceCell::get_or_init`: one caller runs
the request, the others wait, and when it gives up the next one asks.  Dropping
the future of a call is `GiveUpOnDataset`, `GiveUpRead`, `GiveUpOnExperiment`,
possible wherever the call awaits, the lock of `pending_rows` included, and what
the call held is dropped with it: a lock, a cursor, drained spans.  Requests are
not retried, so each comes to one of three `Replies`.

`Submit` puts a row into the queue and may strand it, `FlushAll` takes all others.

`Dataset`: `Push` is a record operation under the lock of `pending_rows`;
`Take` is the `mem::take` of a flush, `SubmitTaken` one row of its loop, since
other threads run between two rows.  `DatasetReader`: a record is its position;
`AskPage` takes the cursor and asks, `Page` brings a page the server cut as it
liked, `PopBuffer` goes on from the buffer.  `Experiment`: `LogEvent` submits
the row and `Track` puts its span among the pending ones; `DrainFlushes` takes
the lock and the spans, `FlushSpan` flushes one of them with the lock held.  A
clone shares the pending spans and registers again.

## 3. Runs

| run | shows | instance |
|---|---|---|
| `queue` | slots are exact and bounded, the ledger is implemented, `flush_all` is a barrier and is answered, no failure is lost but where the code logs or ignores it, each queued row settles, the worker drains at the exit | 2 threads with 2 rows in all, 1 caller, 1 trigger by the program, every `Drop`, command channel of 1; checked with a limit of 1, background with that limit, `sync_flush` without one |
| `send` | the sender implements `Delivery`, gives up only after all retries, posts no reference without its upload | 3 retries, every outcome of the version probe, direct and by overflow |
| `flush` | the server ends as if each row went alone, and fields never go back, for keys that were not overtaken; failures are reported; requests never mix credentials | 3 rows of every mixture of 2 spans, or of 3 sessions |
| `login` | no wake-up is lost; the login ends | 3 waiters, 3 attempts |
| `span` | one row replaces; the last one suffices; a trace stays one; an export finds its row; a dump names the place a row goes to | 2 threads, 2 spans, 3 calls, 8 kinds of root (none, ids, a project name, a dataset, blank ids, remote spans, one of them in the older wire form), fresh ids or those of the other span |
| `stream` | the end means a whole output, one end and one flush; it comes | 4 items of 7 kinds, partial output every 2 |
| `uploader` | the server holds the first rows of the call, once each unless an answer was lost, also when rows land after the error; Ok means all | 4 rows of 2 lengths, 2 limits, 3 attempts |
| `eval` | one result and one ended span per case, counted in the summary; failures are remembered; `run` never waits for itself | 2 calls, 3 cases, 2 at a time, 2 scorers |
| `records` | rows of a dataset are kept once, in order; an iteration reads everything; an Ok of an experiment's flush covers what was logged and not stranded; rows of a handle go to one object; every call returns | 2 tasks that share a dataset (programs of 3 and 2 calls) or an experiment or its clone (2 and 2); a reader of 3 records, 2 a page; every other operation alone; up to 2 rows stranded |
| `stranded_row`, `lost_failure`, `span_race` | violations, see the findings | |

**Bounds.**  `Threads`, `Callers`, `Waiters`: each race has two sides, and the
third waiter of `login` is there for two that sleep at different points.
`RowsPerThread = 2` with `MaxRows = 2` is two rows of one thread, whose order
shows, or one of each of two that race.  `QueueMaxSize = 1` lets them race for
the last slot and finds the second row refused; the third configuration has no
limit, so that both rows meet in one channel.  `WorkerCapacity = 1` where the
code has at least 32, because only "full" and "not full" matter.  The program
triggers a flush itself (`MaxTriggers`) only in the `sync_flush` configurations:
in the background one each `submit` makes the same call.  `MaxStranded = 2`
loses as many rows as one task logs in `records`.  `MaxTriggers` and `MaxCalls`
bound what the program does, not what the code does.  Three rows (`MaxRows`,
`flush`) with chunks of two give a second chunk, and with batches of two, two
concurrent batches.  `NumRetries = 3` leaves a retry between the first and the
last.  Four rows (`uploader`) can be split twice, and the lengths 2 and 5 with
the limits 7 and 16 put a payload below, at and above the limit, and a single
row above it.  `MaxItems = 4` with a partial output every two chunks gives two
partial outputs and one without.  Three cases with `MaxConcurrency = 2` make
`run` wait for a case.  `MaxSpans = 2`: a chain of exports is checked one link
at a time, from roots with remote parents, so that a child is the third of its
trace.  `MaxFirst = 3` and `MaxSecond = 2` (`records`) let one task insert,
flush and insert again while the other inserts and flushes, which is what two
overlapping flushes need; two ids (`Ids`) tell one registration from another.
`DataSize = 3` with pages of at most two gives a full page, a short one, an
empty one and a cursor behind the last record.

`CHECK_DEADLOCK FALSE` stands where a call ends or the bounds are used up; the
`queue` run checks for deadlock.

**Fairness.**  *Queue*: a thread inside `submit` takes its next step (weak
fairness of `Push`), tokio polls the worker and the flush task (weak fairness),
`mpsc::Sender::send` hands permits to waiters in FIFO order (strong fairness of
`SendFlush` and of `SendDropFlush`), and a `Drop` whose flush was answered goes
on (weak fairness of `Drop` there).  Nothing forces the program to submit, flush or drop
its handles.  *Login*: the login task is polled, its requests and sleeps end.
*Stream*: the consumer polls until it drops the stream, the source ends.
*Uploader*: requests time out and the task is polled (weak fairness of `Call`);
nothing makes a late request arrive.  *Eval*: tasks, scorers
and datasets answer; the caller need not call again.  *Records*: a call that began
is polled and its requests are answered; calling, giving up and flushing in the
background are free.  The runs of `SendBatch`,
`FlushPipeline` and `Span` check safety only and assume nothing.

**Preconditions.**  What a property does not speak of, and the hazards it leaves
open by that:

* `SameAsOneByOne`, `LastRowHeld` and `NeverStale` are stated for the keys of which
  no row was overtaken; section 5 says what a late post does to the others.
  `SameAsOneByOne` is also for flushes without a failure and rows in which no
  path changes between object and scalar; `LastRowHeld` covers the rows that do.
* `FailuresObserved` counts a failure that the worker logged, or a `Drop` ignored,
  as observed; `lost_failure` is about those.  `ImplementsLedger` allows a row to
  be stranded, so a lost row shows in `stranded_row` only.
* `LastSnapshotSuffices` speaks of spans that are `Alone` on their row and of
  snapshots submitted in the order they were taken; `span_race` shows what
  happens otherwise, and no other run sees that order.
* `ExportUsable`, and the destination in `OneTrace`, are for spans whose place an
  export keeps (`ParentKept`): not for a project name, a dataset or a blank id,
  whose exports carry no object.  `DumpAgrees` leaves out project logs with a
  blank object id (`BlankLogs`).  The `span` run has all of these parents.
  `IdForms` leaves out upper-case hexadecimal ids, which come back in lower case.
* `RowsInOrder` stops at the first two flushes that hold rows at the same time,
  after which an update may be submitted before its insert; `RowsKeptOnce` does
  not.
* `ReadsEverything` stops at a fetch that failed, was given up or brought nothing:
  what `collect` returns then is no longer all of the data.
* `LoggedIsFlushed` leaves out rows that the queue stranded, and stops at a flush
  given up with spans in its hands.

## 4. Findings

* **A row can vanish** (`stranded_row`).  `push` loads the channel; before it
  sends, a flush swaps the channel, finds it empty and finishes.  The row goes
  into a channel no one will read.  It is neither delivered nor counted as
  dropped, and a later `flush_all` succeeds.
* **A failure nobody is told of** (`lost_failure`).  `log_queue/config.rs:129-131` says of
  checked delivery "Checked clients also disable automatic flushing so no failure
  can be consumed before that caller observes it", and `logger.rs:288-289`
  "Automatic flushing is disabled so the explicit caller observes every result".
  What is disabled are the triggers of `submit`.  `trigger_flush`
  (`logger.rs:967`) still sends one, a stream for each partial output
  (`stream.rs:1097`), and the worker logs the error of that flush and forgets it
  (`worker.rs:21`): the `flush_all` that follows finds an empty queue and
  returns Ok.  A `Drop` ignores what its flush returns.
* **The first snapshot may arrive last** (`span_race`).  `log` releases the mutex
  before it submits.  Two threads may submit their snapshots in the other
  order, and the first one, which replaces, removes what the second one wrote,
  until a later call repeats it.

## 5. Seen, and not stated as findings

### Statements the code does not keep

These say more than the code does.  The models do the same as the code; the
properties exclude the case by name (section 3).

* `span.rs:418-421`: "re-emitting a span with the same `row_id` (and same
  destination/org) MERGES into the existing row".  The first snapshot of the
  second handle has `is_merge` unset, as of any new span, and replaces the row.
* `span_components.rs:560` takes a blank object id for absent, `queue.rs:861-863`
  and `901-902` take it for present: a row whose parent has a blank id and a
  project id in its arguments goes to that project and is dumped as one of
  project logs with a blank id.
* `dataset.rs:692`: "Flush all pending operations."  It hands the rows to the
  queue and does not flush it, so that the request of `summarize`, which says
  "Flush pending operations first" (`dataset.rs:670`), may overtake them.
* `dataset.rs:830`: "Collect all remaining records into a Vec."  An error or an
  empty page ends `collect` as if the data had ended.
* `experiments/experiment.rs:298`: "Flush all pending experiment data to
  Braintrust."  Feedback and updates are not among the spans that `flush` flushes (a
  span before or after them carries them along); a flush that is given up takes
  the drained spans along, and the next one returns Ok at once; an error drops
  those left; and a row that the queue stranded is in no flush.

### Behaviour that contradicts nothing written

* `http.rs:220` and `267`: a post that timed out may reach the server after its
  retry, or after the sender has given it up, when a later chunk of the same key
  is stored.  Rows carry no number by which the server could tell, so newer
  content is merged over or replaced by older content.
* `queue.rs:796`: the drop warning subtracts two clock readings as `u64`; a
  thread with an older reading wraps around.
* `span.rs:672`: the export of a span whose parent is a project name has no
  object, so a child made from it is placed by the project of its own builder.
* `queue.rs:327`: a row without an organisation name gets the header of the
  login, also when it carries credentials of its own.
* `logger.rs:933`: explicit credentials set the login state and notify nobody;
  a waiter sleeps until its time-out.
* `http.rs:143` and `158`: in the overflow path refusals are retried too.
* `stream.rs:994` and `1058`: tool calls after a gap in the indexes are left
  out; the flag for the first token is used up by a chunk without content.
* `runner.rs:115`: an error of the dataset ends an evaluation as Ok.
* `runner.rs:105`: `max_concurrency` of 0 waits for ever (`EvalAssumption`).
* `runner.rs:312`: `TaskHooks::get_metadata` is always `Some`, so the fallback to
  the metadata of the case never takes effect when the task succeeds.
* `queue.rs:695`: the project cache is keyed without the token.
* `queue.rs:834`: a dumped child row carries its own span id as its root.
* `http.rs`: a version probe that failed is cached like one that answered.
* `dataset.rs`: overlapping flushes may submit an update before its insert.
* `dataset.rs:801`: an iterator whose `next` is dropped has lost its cursor and
  starts again at the first page.
* `dataset.rs`, `experiments/experiment.rs`: a clone of an experiment registers
  again; an error of the registration is kept for ever, in a dataset as an error,
  in an experiment as a placeholder id.
* `logger.rs`: the last two clones of a client, dropped at once, may each see the
  other and flush nothing; the queue's own `Drop` then does.

## 6. Proofs

All theorems hold for every value of the constants; each module rests on the
named assumptions of the modules it extends and on no others, save the
hypotheses below.

**Hypotheses.**  Some theorems speak of programs that keep to something the code
does not enforce.  The hypotheses are definitions of the models; `MCSpan` and
`MCFlushPipeline` assume them (`ProgramKept`, `CallersKeep`), so that TLC
evaluates them on the runs.

| hypothesis | says | without it |
|---|---|---|
| `FormsKept` | no id is written in upper-case hexadecimal | it comes back in lower case (`span.rs:405`): a child has another root |
| `PathsApart` | no path written lies below another | an object that overwrites a scalar, or the reverse, removes what was there |
| `HeadersAgree` | under one token an organisation has one name | a request names the organisation of its first row |
| `KeysApart` | the rows of one key are logged with one token | they are in two groups, which are sent one after the other |

The preconditions of section 3 are part of the properties, and so of the theorems.

**`LogQueue_proof`**: `TypeCorrect`, `SlotsExact` (`SlotAccounting`) and
`NeverOverfull` (`QueueBounded`).  The invariant `IInv` adds two facts to the
types and the slot accounting: `PhaseOK`, which ties a thread's program counter
to the channel it holds and the flush task's state to the channel it drains,
and `SlotsBounded`, that the count itself stays within the limit.
`QueueBounded` alone is not inductive: a channel that is not full may have all
its slots reserved.

`LedgerImplemented`: the queue implements `RowLedger` under `Stage`.  The
refinement needs to know where each row is: `RowsInv` says that a pushed row is
in one channel or in the batch until it has an outcome (`Placed`), that the rows
of a thread are in order within a channel and across channels (`InOrder`), that
none of them is in a channel behind the one its thread is about to use
(`Behind`), and that the worker awaits the only flush task (`Tasks`).  Then
`Send`, `Refuse`, `Pop`, the settling of a batch and the swap that strands rows
are each a step of the ledger, all others stutters.

`BarrierHolds` (`FlushBarrier`): a row submitted before a call that the worker
knows of has been pushed (`CallsInv`), and the rows that the call being served
waits for have left the current channel after the swap and are settled before
the answer (`ServedInv`).  Flushes that were triggered or that a `Drop` asked for
may be under way when the call comes; `Join` waits for them.
`FailuresAreObserved` (`FailuresObserved`), in every configuration and with any
number of triggers: with checked delivery a failed row has been told to a
caller or was logged or ignored, or its error is in the hands of the flush task
or the worker (`FailInv`).

**`FlushPipeline_proof`**: `FlushInvariant` (`FlushInv`) says where each row is:
lost, in a group, or handed to a sender; that groups have distinct credentials
and hold their rows in the order of submission; that a batch holds the rows of
its chunk merged by key; and that an error is remembered exactly when a row
failed.  `ErrorsAreReported` (`ErrorsReported`) and `RequestsHaveOneCredential`
(`OneCredential`, under `HeadersAgree`) follow.

`HandInvariant` (`HandInv`) orders what was handed to senders: of two merged
rows of one key, one is made of rows that were all submitted before those of the
other (`Before`), the one whose sender still works is the latest of its key, and
a batch whose sender answered Ok has arrived.  `ServerInvariant` (`ServerInv`)
says where the content of the server comes from: a key that was not overtaken
holds what the merged rows that have arrived under it (`Under`) leave, each
value is of one of them, of the latest where that one wrote (`Known`), and the
last row among them is there in full (`Reached`).  A row that arrives is the
latest of its key so far, for the first time or again, or puts its key among the
overtaken; in the first case what was known is known with it as the latest
(`KnownWithLater`), and what it leaves is no older than what was there
(`KnownOnArrival`).  These give `FieldsStayFresh` (`NeverStale`),
`LastRowsAreHeld` (`LastRowHeld`) and `FlushIsInvisible` (`SameAsOneByOne`), all
under `KeysApart`.  The last one is the most the project says of the pipeline:
merging a chunk by key and then merging the result into what the server holds,
any number of times, is the same as sending the rows one by one, as long as no
row comes after a later one.  It rests on lemmas about `merge_row_into`: what a
set of rows leaves (`Expected`) can be computed in parts, and a part that is
merged twice changes nothing (`MergedWithLater`).

**`SendBatch_proof`**: `TypeCorrect`, `ReferencesUploaded`, `UploadsOnce`,
`Persists`, and `DeliveryImplemented`: the first state of the sender is one of
`Delivery`, and each of its steps is a step of `Delivery` or a stutter.  The
invariant adds that a key in hand or cached is a real one and a cached one is
uploaded (`KeysInHand`), that there is one sleep before each retry
(`SleepsCount`), that no upload is tried after one has succeeded
(`NoUploadYet`), and that an error which ends the sender is a refusal or came
with the last attempt (`LastWord`).  `UploadsOnce` (`UploadedOnce`) is proved
and has no run; the history of answers is in the state for it and for
`PersistsOnTransient`.

**`Span_proof`**: `RowsReplaceOnce` (`ReplacesOnce`): a snapshot replaces only
while `has_flushed` is not set, and the first one sets it under the mutex
(`OnlyFirst`).  `ChildrenShareTrace` (`OneTrace`) and `ExportsLeadBack`
(`ExportUsable`), under `FormsKept` and for the parents of `ParentKept`: a child
follows the span whose export became its parent (`TraceInv`), because an
exported string parses to what was exported (`RoundTrip`).  `DumpsAgree`
(`DumpAgrees`) needs no invariant but every form of destination, those of
`BlankLogs` excepted.  `LastSnapshotHolds` (`LastSnapshotSuffices`), under
`PathsApart` and for a span `Alone` on its row: the newest snapshot holds all
that was logged (`NewestInv`), and once it is stored the server does too
(`StoredInv`), whatever older snapshots and updates did to the row.

**`Uploader_proof`**: the invariant is that there are numbers `d` and `h` such
that the call is done with its first `d` rows, the server holds the first `h`,
and the chunk, the work stack and the batches not yet taken continue from `d`
to the last row, each where the one before it ends (`Ordered`).  This holds on
behind an error as long as a request may still land (`Open`).  A split
replaces a chunk by two that continue each other.  Hence `RowsAreStoredOnce`
(`StoredOnce`) and `UploadIsTransfer` (`ImplementsTransfer`).  `RowsAreBatched`
(`BatchesFit`) is about `batch_items` alone: its batches are the rows in order,
each fits the limit or is a single row, and none could take the next row.

**`Eval_proof`**: `TypeCorrect` and `PermitReady`.  The invariant counts: the
permits and the cases in flight together are `max_concurrency`
(`PermitsHeld`), and there is room whenever a case is fetched (`RoomToFetch`).
Hence `Acquire`, while nobody polls the cases that hold the other permits,
always finds one.  This is the safety half of `EvalReturns`.
`SummariesComplete` (`SummaryComplete`) and `PassedHonestly` (`PassedIsHonest`)
need that the results are those of the cases taken, one each (`Collected`), that
no case is left when the root span ends (`AllTaken`), that a span is ended once
and last (`Shapes`), and that a failure is either reported already or among the
results of the running evaluation (`Remembered`).

**`Records_proof`**: `RowsGoToOneObject` (`OneObject`), `RowsAreKeptOnce`
(`RowsKeptOnce`) and `RowsStayInOrder` (`RowsInOrder`), for any number of tasks,
handles and calls and for every program.  `OneObject` is not inductive: a row's
id could match a cell that is set again.  The invariant says that the
initializer of a cell is the one task that registers it, while it is unset
(`AtCell`), and that a row is submitted only through a cell that is set
(`Placed`).  For the rows, a flush holds some exactly while it submits
(`HoldsRows`), at most one holds any unless flushes have overlapped
(`RowsInv`), and a row that was pushed is of a call that is over
(`RowsNumbered`), so that a new one differs from all of them.  The other two
components only need to stand aside: `MovesAside` says so once for the steps of
the reader and of experiments.

`LoggedRowsAreFlushed` (`LoggedIsFlushed`): a task that flushes holds the lock
(`HoldsLock`), and a logged row that still waits in the queue has its span among
the pending ones or in the hands of whoever holds that lock (`Tracked`), unless
the queue stranded it.
`EverythingIsRead` (`ReadsEverything`): the buffer continues what was yielded
(`Positions`), the cursor continues the buffer (`GoesOn`), and None was answered
only at the end (`NoneAtEnd`).

**`LoginStream_proof`**, two parts that have nothing to do with each other.
Login: `TypeCorrect`, and `NoWakeupLost` (`NoLostWakeup`), which is inductive
with the types: whoever checks after it registered either sees the state or is
among those that `notify_waiters` will reach.  Stream: `EndMeansComplete`
(`EndIsComplete`) and `LastOutputIsWhole` (`OutputIsWhole`), for any items and
any interval.  The span is ended by the last call but the flush (`EndsLast`);
the aggregator has the chunks among the items that went through its lock, which
are those delivered but for the one in the closure (`ItemsPass`); and behind the
final log no other output is logged (`FinalOutput`).

**Recursive functions.**  `MergeChunk`, `StoreAll`, `BatchItems`, `Bytes` and
`Those` are recursive functions on numbers.  `SetInduction` (a set of numbers
with 0 and each successor is all of them, from the well-foundedness of `<`)
shows that the function which the definition chooses exists and has the values
its recursion says, and by it each is related to one more element.  Folds and
`SelectSeq` of the libraries cannot be reasoned about in this way, which is why
these modules do not use them.

**Only model-checked**: liveness under fairness (`ClosedDrains`,
`CallsAnswered`, `RowsSettle`, `EvalReturns`, `LoginSettles`, `CallsReturn`,
`Ends`, `Returns`), which is out of the prover's reach.  The three violations of
section 4 are counterexamples of TLC.

## 7. Not modelled, and the plan

Not modelled: JSON layout, environment variables, SSE and console output, HTTP
client settings, extractors, built-in scorers, drop counting and its warning.
What a summary of the server contains is left out: `summarize` is the calls it
makes and how they end.

Plan, in this order:

1. Proofs: weaker hypotheses.  `LastSnapshotHolds` where paths do nest (what a
   snapshot leaves at a path that changed from scalar to object), and
   `FlushIsInvisible` for keys logged with two tokens, as far as it is true.
2. Proofs: the contracts joined.  `RowLedger` and `Delivery` are what
   `LogQueue`, `SendBatch` and `FlushPipeline` promise and use; a module that
   composes the abstract ones would state what a caller of `flush_all` may
   conclude about the server.
3. Safety halves of the liveness properties, as `PermitReady` is of
   `EvalReturns`: no reachable state of the queue or of a dataset in which a
   call can neither go on nor be answered.
4. The drop warning, if a property of it proves worth a run.
