# A verification of the religion-council orchestrator in TLA+

The repository is a skill pack for a moderated debate between language-model panelists. Its executable
core is `orchestrator/`: an MCP server that starts a Codex subprocess, runs one conversation per
panelist in a thread pool, keeps a run in a JSON file, and decides which of the panelists' textual
claims may be shown to a user as evidence-backed. This directory models that core, checks it with TLC
on small instances, and proves its safety for every value of the constants with TLAPS.

Paths below are relative to the repository; `DC` stands for `orchestrator/debate_controller.py`.

## 1. Inventory

| Part | State | Operations | Talks to |
|---|---|---|---|
| **Debate controller** (`DC`, class `DebateController`) | `state.json` of a run: rounds, results, `finalized` flags, catalog, configuration | `start`, `reply`, `retry`, `finalize` (write), `status`, `collect` (read) | thread pool, state file, client, claim pipeline |
| **Start gates** (`DC:133-185, 963-1087, 1559-1571`, `render_finalizer.validate_strict_profile`) | none | routing labels, profile, flag ladder, roster, envelope | first half of `start` |
| **Codex MCP client** (`DC`, class `CodexMcpClient`) | `_pending`, `_next_id`, one queue per request, a daemon reader thread | `request`, `_send`, `_read_stdout`, `_fail_pending` | the Codex server over pipes; pool threads |
| **Client lifecycle** (`DC:438-448`, the constructor, `_initialize`, `close`) | `_client`, `_client_lock`, the subprocess | start and handshake under a lock, share, close | pool threads |
| **Evidence store and adapter** (`evidence_snapshot.py`, `retrieval_evidence_adapter.py`, `EvidenceCatalog`) | snapshot files named by their hash, meta files, `origins.jsonl`, the catalog `S1, S2, ...` | `adapt`, `put_snapshot`, `append_origin`, `read_snapshot` | start gates write it, B2 and the finalizer read it |
| **Claim pipeline** (`claim_protocol.py`, `claim_binding.py`, `claim_verification.py`, `response_boundary.py`, `render_finalizer.py`) | fields of one result: `schema_status`, bound claims, `claim_verification`, `boundary_decision`; the finalized answer is returned, not stored | bind with one repair (B1b), verify (B2), gate (B3), finalize | controller, store |
| **Assurance footer**, **run-state summary** | none, they read a finalized answer or state files | count, format | finalizer, state files |
| **Offline retrieval** (`skills/religion-council/scripts/retrieve.py`, `project_retrieve.py`) | reference files, curation sidecar | score, rank, merge curation, envelope, no-answer gate | its envelope is an argument of `start` |
| **Corpus inventory** (`scripts/corpus_inventory.py`) | none | why a record of the corpus is invalid, statistics | mirrors gates of the finalizer |
| **Retrieval benchmark**, **judge agreement** (`scripts/run_retrieval_benchmark.py`, `compute_iaa.py`) | none, they read corpus and fixtures | validate, search, measure, disclose | the retrievers of all traditions |
| **Policy generation**, **smoke test**, **example** | files in, files out | scripts | not part of a running debate |
| **Prompts, policies, worldview documents** | prose | none | the language model |

How a debate runs: the server handles one tool call at a time. `start`, `reply` and `retry` submit one
job per panelist to a pool, collect futures in the order they finish and save the whole state after
each one. A job retries its transport a fixed number of times through the one shared client, whose
reader thread hands answers to waiters by request id. In structured runs the job then passes its reply
through B1b, B2 and B3. `finalize` replays the recorded results against the store.

What makes it hard:

* *Failure in the middle.* The state is saved entry by entry, so the process can die, a save can fail
  or a job can raise with a round half recorded; later calls work from whatever is on disk.
* *Threads.* Pool threads, the collecting loop and the reader thread interleave; timeouts race late
  answers; the end of the server races registrations; several threads race for the first client.
* *Protocol order.* `retry` and `finalize` may name any round, at any time, repeatedly.
* *Data that must stay earned.* A claim meets five stages that look it up by id; a snapshot may become
  unreadable between two of them; one failing claim must fail its answer as a whole.
* *Ingestion.* An envelope is written file by file into a store that promises to be write-once.
* *One file, several processes.* The state file is replaced whole, under a temporary name that is fixed,
  while others read it page by page.
* *The same rule twice.* The inventory re-implements gates of the finalizer, the benchmark assembles the
  ranking of the corpus from rankings of its parts; both are right only as long as they agree.

What would make each part correct: the round barrier and the permanence of answers (controller); that
each call gets its own answer and ends (client); that there is one initialized client (lifecycle); that
refused calls leave nothing and a saved catalog is backed by files (gates and store); that the surface
with authority shows only what its evidence supports, completely and stably (pipeline); that the
reports about it agree (footer, summaries); that a catalog shows what the search ranked first, each
occurrence under an identity of its own (retrieval and adapter); that no completed save is lost and every
page is of one save (state file); that the inventory foretells the finalizer as far as it mirrors its gates; and that what the benchmark
measures is what it says (benchmark, agreement).
`PROJECT.json` lists the hazards with their lines and the properties that watch them.

## 2. Modules and plan

| Module | Models | Used by |
|---|---|---|
| `RoundBarrier` | the abstract promise of a run: rounds in order, one answer per panelist and round, a round closes over the whole panel | refined by `DebateController` |
| `DebateController` | one run: calls, pool, saves, crash and restart | `MCDebateController`, `DebateControllerProofs` |
| `DebateControllerProofs` | theorems about it | |
| `CodexClient` | requests, waiters, reader, an external server | `MCCodexClient`, `CodexClientProofs` |
| `CodexClientProofs` | theorems about it | |
| `ClientLifecycle` | how pool threads come by the client | `MCClientLifecycle`, `ClientLifecycleProofs` |
| `ClientLifecycleProofs` | theorems about it | |
| `StartRun` | one start: gates, envelope, store, first save | `RetrievedStart` |
| `Ranking` | sorting by a strict total order, as operators | `Retrieval`, `Benchmark`, `CountingProofs` |
| `CountingProofs` | lemmas about finite sets: the least number, induction on subsets, sums as folds, sorting | `StartRunProofs`, `BenchmarkProofs`, `ClaimPipelineProofs` |
| `Retrieval` | the lexical retriever and its no-answer gate, as operators | `RetrievedStart`, `Benchmark` |
| `RetrievedStart` | a start whose envelope comes from the retriever: `StartRun`, `Retrieval` and `Inventory` together | `MCStartRun`, `StartRunProofs` |
| `StartRunProofs` | theorems about `StartRun` and `RetrievedStart` | |
| `Inventory` | the validation of a corpus record, as operators over `Retrieval` | `RetrievedStart` |
| `SharedFile` | the abstract promise of the state file: from one complete save to the next | refined by `SharedRun` |
| `SharedRun` | the state file as names, files and pieces; controllers that save it, moderators that page through it | `MCSharedRun`, `SharedRunProofs` |
| `SharedRunProofs` | theorems about it | |
| `Agreement` | Cohen's kappa over a pool of labelled items, as operators | `Benchmark` |
| `Benchmark` | one run of the benchmark over several traditions, each an instance of `Retrieval` | `MCBenchmark`, `BenchmarkProofs` |
| `BenchmarkProofs` | theorems about it | |
| `ReplyOutcome` | the abstract promise of one reply: settled when it is recorded, finalized in one step | refined by `ClaimPipeline` |
| `ClaimPipeline` | one result from reply to repeated finalization, and the reports counted from it | `MCClaimPipeline`, `ClaimPipelineProofs` |
| `ClaimPipelineProofs` | theorems about it | |

The order was: controller first because everything else hangs off its rounds, then the client
under its jobs, the pipeline inside its jobs, the start, what feeds the start, then the state file under
several processes, and the offline scripts that judge the corpus.

The modules meet at narrow interfaces. `DebateController` sees the client as "a job ends with an error
or with a reply on a thread", which `CodexClient` and `ClientLifecycle` justify (`CallsReturn`,
`WorkersReturn`, `OwnAnswer`), and the pipeline as the `gate` of a reply: `none`, `renderable` or
`rejected`, recorded with the reply and for good. `ReplyOutcome` is that view of the pipeline, and
`ClaimPipeline` implements it (`AnswersAtOnce`): what two passes of the finalizer say of a reply is its gate, unless a
snapshot it quotes is lost. A reply the boundary denies is `rejected`, too, to `DebateController`,
because the finalizer fails on it (finding 4); `ReplyOutcome` calls it `denied` and leaves open what is
shown of it. A job that raises is `WorkerRaises`, and `ClaimPipeline` shows that it exists
(`PipelineAborts`). `StartRun` ends where `DebateController!Start` begins. Both take a save as one step;
`SharedRun` shows when they may (`AtomicForReaders`, `SerialLosesNothing`).

Planned next, in this order:

1. *Rounds with mixed results*: the enforcement mode and the run-state summary over several panelists
   and rounds, as observers of `DebateController`.
2. *A composition* of `DebateController` with one `ReplyOutcome` per reply in place of its `gate`, so that the
   snapshots lost are the same ones for the whole panel.

## 3. How the modules correspond to the code

**DebateController.** `rounds` is `state["rounds"]` on disk. `phase`, `round`, `job` and `outcome` are
the locals of the running call, which end with it (`Leave`) or with the process (`Crash`). `minted` and
`users` are the Codex server's threads, which survive. `Start`, `Reply`, `Retry` and `Finalize` are the
tool calls up to the submission of the jobs; `WorkerBegins` takes a job if fewer than `Concurrency` run;
`OpeningReply`, `FollowUpReply`, `WorkerExhausted` and `WorkerRaises` are the ways a job ends. `Collect`
is one turn of the `as_completed` loop with its save, `CollectAborts` an exception in it, after which
the executor's exit still waits for all jobs (`AbortReturns`). `Settle` decides the round. Refused calls
change nothing and are the states in which an action is not enabled. `Finalize` writes the flag and
nothing else; under the fault `loss` any replies may fail in it, which the code reports and takes the flag back.
Bounds: `MaxRound` rounds, `MaxThreads` Codex threads. Assumed: `codex-reply` answers on the thread it
was asked on (the code ignores an empty `threadId`). That without a lost snapshot a recorded reply is finalized
whenever its `gate` says so is what `ReplyOutcome` promises.

**CodexClient.** `call[w]` is one worker's `request()` with its retry loop, `pending` the keys of
`_pending`, `box` the one-message queues, `reader` the daemon thread with the message in its hand. The
reader fetches a waiter in one step (`ReadResponse`) and puts into it in another (`Put`), because the
code releases the lock in between. A put blocks on a full queue, also in `_fail_pending` (`FailNext`).
A write to the server is two steps as well. `Send`, `Cancel` and `Refuse` take `_write_lock` and enter
`write()`, and hold the lock until it returns, by `Sent`, `Cancelled` and `Refused` when the server has read
far enough, or with an exception once it has exited; there is no timeout. The reader reads nothing while it
wants to refuse an approval. How much a pipe holds is not modelled: any write may find it full.
The server is external: it answers in any order, asks for approvals (`MaxAsks`), may ignore a
cancellation, and may exit at any time; it answers a request once. Whether a response holds a result or an error is decided where
the worker looks at it. Request ids are `1 .. |Workers| * (Retries + 1)`, one for every attempt there can be,
so that the bound in `Register` never holds anyone up (`CallsReturn` would show it).

**ClientLifecycle.** The holder of `lock` starts a subprocess, shakes hands, installs the client; any
failure releases the lock and costs the thread an attempt. The client is never replaced when its process
dies (`Share` hands it out all the same): the later attempts of the session fail, and end (`WorkersReturn`).

**StartRun.** A request has its entry (`mcp` sees whether an argument is present, `direct` does not),
one label per axis (omitted, null, the canonical one, any other), profile, flags, a roster, and an envelope. The
gates are one step because nothing is written before them. The directory is made before the envelope is
looked at. Then each record takes one step for the exclusive create, one for the write, the same for
the meta file, and one for its seed and origin line; `WriteFails` and `Crash` may come between any two.
`Canon` maps texts to artifact ids: two texts may have the same canonical bytes, one has none. An
occurrence id is the record of the parts that are hashed (`OccurrenceId`), by one of three schemes: line
of a file, key or work and locator of a run-time capture, or position. `start` always passes `bundled`;
`runtime-captured` is the other half of `adapt`'s interface, which the same rules serve. `StartAssumption` and
`RequestAssumption` say what may be asked: two entries, a label per axis, and an envelope that is a finite
sequence of records, each with a text that has a canonical form, has none, or is no text at all.

**Retrieval.** A line of a reference file is abstracted to the features of queries that occur in it;
`Score`, `Ranked`, `Retrieve`, `RetrieveGated` and `Curation` follow the functions of the same names
over these. Python's stable `sorted` by falling score is sorting by score and line, which is a strict total order
and so has one result: `Ranking!Sorted` puts each member behind all those that come before it, with the order given
as a set of pairs. `SearchAssumption` says that the envelope of a request with a search is what the search returned. `EvidenceRanked` states what a saved catalog must show without sorting, by counting for each
seed the lines that beat it; that a record's curation reaches its seed is part of `CatalogBacked`.

**Inventory.** `Reasons` is `_validate`; its reasons of the kind "incomplete-core" cannot meet a record
that the parser made. `RightsOk` and `EnumsOk` in `RetrievedStart` are the finalizer's gates on a seed that the
inventory mirrors, `SeedRefused` all that the finalizer has on a seed. They differ in both directions
(`InventoryForetells` says where): an interpretation-only seed is refused without a reason, and a malformed
provenance, or a rendering mode without a representation kind, is a reason without a refusal. A
curation is the set of the fields it has, with a member of its own for each kind of value that some gate
tells apart: `rights` and `blank_rights`, `provenance` and `empty_provenance`, `representation_kind` and
`off_enum_kind`, `rendering_mode` and `off_enum_mode`.

**SharedRun.** `name` maps `state.json` and `state.json.tmp` to files, `half` says which save each of the
two pieces of a file is from, and `log` what a save reflects: the saves its controller had loaded, its own
earlier ones, and itself. A file outlives its name while somebody holds it open, so a reader that opened
`state.json` before a rename reads the save before it. `OpenTemporary`, `Write` (twice) and `Replace` are
`atomic_write_json`; `SaveFails` leaves the temporary file for the next save to empty. `Load` and `Loaded`
are `_load_state`, `Start` skips them. One process handles one call at a time; two processes may overlap,
which `overlapped` records, and then nothing is promised: both write to the one temporary name, so a
half-written file can be renamed, a rename can find nothing to rename, and saves are lost. `AskFor` and
`Collect` are the two halves of `collect`; `FirstPage` starts at the front of the roster or beyond its end
(`Offsets`), `NextPage` follows `next_offset`. Bounds: `MaxSaves`. A crash is that of a process: a file that
was written and renamed without `fsync` is taken to be on disk.

**Agreement and Benchmark.** The stages of `Benchmark` are those of `main`: `Validate` refuses the fixtures or
not, `Ask` is one turn of the loop over the queries, `Disclose` the report. Each tradition is an instance
of `Retrieval` with lines of its own (`In(t)`). `Search` and `SearchBm25` rank the union of what the
retrievers return; a BM25 score is data, per query and record key, as the code computes it from an index
by key. `Evaluate` keeps the counts that recall, precision, reciprocal rank and false support are
quotients of. A kappa is a fraction, without the rounding; a set of labels, with the places of the pool to
count them by, is a function from places. `BenchAssumption` lets a benchmark have any number of
queries and lines, and asks that each cutoff and the threshold be positive, as the arguments of the script are, and
that an index score every entry, and that an item of the pool have finitely many labels. `GlobalTopK` and `AgreementEarned` compare with
definitions that share nothing with the code: the place of a record by counting those before it, and kappa
of two judges as one less observed over expected disagreement, by counting pairs of items.

**ClaimPipeline.** A claim's wording is the set of snapshots that contain it, and its edges are a set of edges
with their places in the block, of which verification keeps some (`Kept`) and the first, the lead, is the one with the
least place; `BlockAssumption` bounds neither the claims nor the edges of a block. A block may be malformed,
carry a value on which validation raises `TypeError`, or wording that UTF-8 cannot encode. `Reply`,
`Repair`, `RepairCallFails`, `Verify`, `Gate` and `Record` are the job; `Build` and `Trace` are the two
readings of the store in one `finalize`, with `LoseSnapshot` possible between any two steps. The
per-claim denial of the gate is never reached on verified claims: a `[Text]` claim that fails is
downgraded first. It is kept as the backstop it is. `VerificationSummary`, `BoundarySummary` and `Footer`
are the three reports, and `EnforcementMode` the label, of a round that holds this result alone. `Promise` reads
a `ReplyOutcome` off the result (`Verdict`): what it came to is settled in the step that records it, from the gates
that do not look at the store (`Entitled`), and the answer is given by `Trace`, or refused by `Build` or `Trace`.
A denied result is one without a verification, on which `Build` fails; what it should show instead is
`DenialIsEmptyAnswer`.

## 4. Runs

| Run | Instance | Distinct states | Shows |
|---|---|---|---|
| `ControllerOrdinary` | 3 panelists, 2 pool threads, 3 rounds, no faults | 5,767 | `TypeOK`; the refinement of `RoundBarrier` (`ImplementsBarrier`), which includes that a complete round has every answer (`BarrierHolds`); the summary's advice is accepted (`AdviceHonoured`); retrying completes a round (`RoundsComplete`) |
| `ControllerFaults` | 2 panelists, 2 rounds, 4 threads, crash, raising jobs, failing saves, lost snapshots | 91,948 | `RoundsInOrder`, `OneConversation`, `FinalizedSound`, `AnswersKept`, `CallsReturn` |
| `ControllerCrashBarrier` | the same with crashes only | violated | finding 1 |
| `SharedRun` | 2 controllers, 1 moderator, 3 panelists, 3 saves, crashes, failing saves | 302,750 | `TypeOK`; no completed save is lost while calls take turns (`SerialLosesNothing`); every page is of one save (`AtomicForReaders`); following `next_offset` shows each panelist once (`PagingCovers`) |
| `ClientCalls` | 2 workers, 1 retry, 1 approval request | 1,388,167 | `TypeOK`, `OwnAnswer`, `PendingExact`, `NoneForgotten`, `AnswerHasRoom`, `CallsReturn` |
| `Lifecycle` | 3 workers, 1 retry | 17,551 | `TypeOK`, `HandshakeFirst`, `WorkersReturn` |
| `StartRun` | 3,370 requests | 85,358 | `TypeOK`, `RoutedNeverEnters`, `RejectedTouchesNothing`, `CatalogBacked`, `SeedsToldApart`, `OrderIndependent`, `EvidenceRanked`, `InventoryForetells` |
| `PipelineSafety` | 4 seeds over 2 snapshots, all modes | 234,384 | `TypeOK`, `AuthorityEarned`, `EveryClaimPlaced`, `FailedTextMarked`, `ReportsAgree`, `ModeEarned`; the refinement of `ReplyOutcome` (`AnswersAtOnce`) |
| `PipelineAborts`, `PipelineInterpretive`, `PipelineDenied` | the same, strict mode | violated | findings 2, 3, 4 |
| `Benchmark` | 2 traditions, 4 corpora, all candidates; 5 unsound fixtures; about 1,000 pools | 4,840 | `GlobalTopK`, `MeasuresSound`, `AgreementEarned` |

`CHECK_DEADLOCK FALSE` is set because the systems may stop: the last round is over, every call has
returned, a start has ended, a claim block is recorded in a run that is not finalized, the saves are used
up, the benchmark has reported.

*Why the bounds are enough.* Three panelists on two pool threads give a queue, two running jobs and one
collected result at once; three rounds give a latest round, an older one and one below both, which is
all that `reply`, `retry` and `finalize` distinguish. Under faults two panelists suffice for "one
recorded, one lost". Two workers with two attempts have four request ids: a late answer, its owner's
next attempt and another worker's; two workers and a reader with a refusal are one writer inside `write()` and
two on the lock. One approval request is enough to kill the reader. Three records
give a first, a duplicate and a failing third; all pairs of records with and without each identity input
give every way two ids could meet. Eight lines, one of them no entry and two of them tied, under five
queries, every `k` up to one beyond the entries and both gates reach every branch of the ranking. Eight curations, two of them for one
place and one for none, give the lines every field the inventory and the finalizer ask for, present, absent and wrong: a
record refused for its rights, one for each enum, one as interpretation-only, one accepted with reasons, one without. Two claims with
two edges give a first and a later edge, a repeated id, and one claim that fails beside one that does not.
Three saves are one in each of two calls and a failing or torn one between them; two controllers are what
it takes to overlap; pages of one, two and fifty over three panelists end before, at and beyond the roster.
Two traditions give ties within and across, one tradition with most of the matches, one without any, and
two records under one key; pools of two judges with three labels, and of three judges, give every shape of
agreement: none shared, none possible, perfect, none beyond chance, and less than chance.

*Fairness.* Controller: each pool thread takes work and ends it, since each Codex call has a timeout and
the attempts are counted, and the collecting loop goes on; nothing is assumed of crashes, restarts or
tool calls. `RoundsComplete` also needs a moderator who goes on retrying and a server that answers each
panelist if asked often enough (strong fairness on the reply of each panelist); it is checked without
faults, because after a crash the code cannot complete every round (see finding 1). That a Codex call ends at
its timeout rests on what follows. Client: the workers are scheduled, and `waiter.get` has a timeout. A write
has none, so that an assumption about the server is needed (`ServerReadsOn`): as long as it runs it goes on reading
its stdin, also while nobody reads its stdout. Nothing in the code justifies it; it is the price of
`CallsReturn` (see §6). Nothing else is assumed of the server, which may answer late, never, or exit, and nothing of the
reader. This matters: the reader can die in `_send` while it refuses an approval, and `_fail_pending` can block
for ever on the queue of a worker that has timed out; without the timeouts calls would then hang.
State file: a moderator goes on asking for the next page; nothing is assumed of the controllers.
Lifecycle: a thread holding the lock goes on because the handshake has a timeout; a waiting one gets
the lock in the end (strong fairness), which a lock that is always released gives in practice.

## 5. Proofs

**Controller.** `DebateControllerProofs` proves, for every finite nonempty panel and all values of the bounds and
switches (`PanelAssumption`, `BoundsAssumption`, `SwitchAssumption`):

* whatever faults occur: `Inductive`, `TypeCorrect`, `Ordered`, `Independent`, `Finalized` and
  `AnswersAreKept`;
* if `"loss" \notin Faults`: `FinalizedIsKept`. With a lost snapshot a second `debate_finalize` takes the flag back;
* if `Faults = {}`: `BarrierWithoutFaults`, `AdviceWithoutFaults`, and `Refinement`, that the controller
  implements `RoundBarrier`. The assumption is necessary: finding 1 and what is noted with it are its failures under a crash.

The invariant `IInv` is stronger than what it is for. `RoundsInOrder` alone is not inductive: a `Settle`
of round `r` could uncomplete it under a round `r + 1`, unless a call works only on a round that is
`running` (`CallShape`), a retry needs an error, and a complete round has none (`CompleteHasNoError`).
`OneConversation` needs the same of results that are still in the air (`OutcomeShape`), that every
recorded thread number was handed out before the next one (`ThreadsMinted`), and that follow-up rounds
exist only over a full opening (`OpeningsFirst`). `FinalizedSound` survives a retry because a finalized
round has nothing to retry. There is one lemma per action, and in it one step per conjunct.
Without faults `NothingLost` is inductive relative to `IInv`: a running call has a job for every
panelist without an entry. The barrier, the advice and the refinement follow from the two; the
refinement maps `answered` to the recorded replies and `closed` to the status `complete`, so `Collect`
is `Answer` or a stutter, `Settle` is `Close` or a stutter, and all else stutters.

**Client.** `CodexClientProofs` proves, for every finite nonempty set of threads, any number of retries and
approval requests (`ClientAssumption`), `ClientTypes`, `TableExact`, `AnswerIsOwn`, `EveryoneWoken` and `RoomForAnswers`. The
invariant `CInv` adds what these rest on: ids are never used twice and a request in flight has one
(`IdsFresh`), which is why taking a waiter out of the table takes nobody else's; what is in a waiter, in
the pipe or in the reader's hand bears the id it is for (`Addressed`), which is why an answer is one's own;
and from the end of stdout on, a worker that waits is on the reader's list or has been woken (`OnTheList`),
for which `PendingExact` is needed in turn, since the list is a copy of the table. Steps of a worker that keep
its id share the lemmas `FreshAfter`, `TableAfter`, `AnswerAfter` and `ListAfter`, or at once `MoveCInv`; the reader and the server
leave the calls alone (`CallsAlone`). `RoomForAnswers` has an invariant of its own, relative to `CInv`: as long as the reader
reads, an id is in at most one of the places it passes on its way to the server and back, from the counter to
the waiter (`OnePlace`). It needs a fresh id for every attempt and a server that answers a request once; then the
one message that can find a waiter full is an error of `_fail_pending`.

**Lifecycle.** `ClientLifecycleProofs` proves `LifecycleTypes` and `HandshakeComesFirst`, for any number of threads
racing for the first client (`LifecycleAssumption`, and `NobodyAssumption`: the value of a free lock is no
thread). Only one thing has to be added to the invariant: who is in a handshake has started a subprocess
(`HandshakeHasProcess`), so that the one it installs exists.

**State file.** `SharedRunProofs` proves, for any number of controllers, moderators and saves, any roster, and any
offsets and limits asked for (`RunAssumption`, `RosterAssumption`), `RunTypes`, `NothingIsLost` and `FilesImplementOne`. `SerialLosesNothing`
looks only at renames, and is kept up by everything before them. The invariant `RInv` says, while calls take turns:
one controller at most is in a call (`OneCall`); what `state.json` names is whole, is another file than the temporary
one, and reflects exactly the completed saves (`StateIsDone`); the call under way has in memory what is done, and
writes one save more to the file that the temporary name is for (`CallsFit`); and what a moderator has open is whole
and is not that file (`ReadersHold`), although `state.json` may by now name another, which is why files and names
are apart in the model. The refinement maps the value of `SharedFile` to the content of the file
`state.json` names, so that `Replace` is the one step that changes it; for the others it is shown that
they change neither a whole file nor the name. A new file can always be had, because controllers and moderators hold
one each and the names two (`UnusedIsFree`).

**Pipeline.** `ClaimPipelineProofs` proves, for any catalog and any blocks of any length (`ModeAssumption`,
`CatalogAssumption`, `BlockAssumption`), `PipelineTypes` and everything else that `PipelineSafety` checks. The surfaces
are looked up by claim id at each stage; so the invariant `PInv` carries that ids are unique in a bound reply and
verification keeps the claims at their places (`BoundFits`, `VerifiedFits`, with `Outcome`: a `[Text]` claim is
verified with edges left to show for it, or downgraded, and nothing else changes). `ResultFits` says which fields a result has
at each stage and that its decisions are those of its verified claims, `DraftFits` and `AnswerFits` that a finished
answer is a function of the recorded result alone (`FinalAnswer`) and that a failed one fails for good
(`Hopeless`). So a snapshot lost between two finalizations can make the second one
fail, and nothing else (`AnswerIsStable`). `AnswerIsAtOnce` is the refinement of `ReplyOutcome`: what a reply came to does not change once
it is recorded (`VerdictStays`), since it reads neither the store nor what a finalization leaves; and a unit that was
built fails its trace only if its snapshot went in between (`TracedIsThere`, `FailsIfGone`), so that an answer is
complete and every quotation in it there at the one moment at which it is given. The reports agree because each counts, through one bijection of the verified claims with
their ids, the same set.

**Start and retrieval.** `StartRunProofs` proves, for envelopes of any length, any canonical form of texts, any
reference file, sidecar, query and `k` (the assumptions of `StartRun`, `Retrieval`, `RetrievedStart`), all that the run
`StartRun` checks. The invariant `SInv`: the gates were passed before there is a directory and the preflight before
there is a file (`GatesHold`); seeds and origin lines follow the records one by one, each made of its record alone
(`SeedsFit`); the files of a seed were whole before it was made, the snapshot before the meta file (`FilesFit`); and
a run is there from its save on (`RunFits`). `CatalogBacked` needs all four. That ids are told apart and
independent of the order are then facts about `OccurrenceId`, by the cases of its scheme. For `EvidenceRanked`
`CountingProofs` shows that sorting by a strict total order is well defined: a member's number of predecessors is
strictly monotone and less than the size of the set, hence by the pigeonhole principle each place is taken exactly once
(`PlacesTaken`). `InventoryIsRight` compares the two lists of gates, field by field, and says what each has beyond the other.

**Benchmark.** `BenchmarkProofs` proves `TopIsGlobal` and `MeasuresAreSound`, for any number of traditions, corpora,
queries and cutoffs (`TraditionAssumption`, `BenchAssumption`). The invariant `BInv` is plain: the entries follow the
queries one by one, each is what its query gives (`EntryOf`), of fixtures that were found valid. What carries
the first theorem is `SearchIsTop`: a line that its tradition leaves out has `k` lines of the same tradition ahead of
it, all of which are ahead of it in the corpus, so it is not among the first `k` there; hence the first `k` of the
union of all traditions' first `k` are the first `k` of the corpus. The second counts the relevant keys
found, which is sound where keys are distinct.
`AgreementIsEarned` is about sums over the items and labels of a pool. `CountingProofs` shows that such a sum exists and what
one more member adds to it (`FoldExists`, `SumFits`), so that induction on the set of labels gives that the code's
chance agreement counts the pairs of items with the same label (`ChanceFits`), and the observed one those of an
item with itself. If `r` and `s` are how often two judges gave a label and `a` how often both at once, then
`4rs <= n(r + s) + 2na`; summed over the labels, this is that a kappa is never below -1 (`ProductBound`,
`OneLabelMore`, `KappaBounded`). It is the same with the judges swapped (`KappaSymmetric`), and by induction on the pairs of
judges the mean of many lies where each of them does (`TotalFits`, `OverallFits`).

**What the provers do not reach**, and TLC alone checks, are the properties under fairness: `CallsReturn` (of both
modules), `RoundsComplete`, `WorkersReturn` and `PagingCovers`. Every other property of the passing runs is a
theorem. The library's theorems on induction, which take the property as an operator, cannot be used with these
provers; `SubsetInduction` is proved for the property given as a set, and is enough. `Inductive`,
`FinalizedIsKept`, `BarrierWithoutFaults` and `AnswerIsStable` are about formulas that no passing run repeats: what `IInv` is for, its parts that mean
something to a moderator, is what `ControllerFaults` checks, the barrier is part of `ImplementsBarrier`, and a stable answer of `AnswersAtOnce`. The other invariants were checked by TLC on the instances of §4 before they were proved.

## 6. Findings

1. `ControllerCrashBarrier`. After a crash, `retry` looks at recorded errors only and then declares the
   round complete, although panelists without any entry never answered. The documentation promises that
   a round is complete only when every configured panelist succeeded.
2. `PipelineAborts`. An unhashable `claim_type` or `claim_id` raises `TypeError` out of the job, and a
   lone surrogate breaks the save, against "it never aborts the round".
3. `PipelineInterpretive`. Only the first kept edge of a `[Text]` claim is asked for
   `interpretation_only`; one cited second is finalized, against "an admitted [Text] citing it is a
   bypass".
4. `PipelineDenied`. A response denied at the boundary for a missing verification has none, and the finalizer
   raises for exactly that (`render_finalizer.py:258`) before it looks at the denial, against "a response-level
   boundary denial is a valid empty Surface A" (`docs/ORCHESTRATION.md:120`). `tests/test_debate_controller.py:724`
   records such a denial; `tests/test_render_finalizer.py:279` asserts the empty surface, but of a denied result that has a
   verification, which the controller never records. Since `retry` reruns errors only, one such panelist
   keeps the round from ever being marked finalized. `AnswersAtOnce` holds whichever of the two is meant.

Noted, with no run of their own:

* A write to Codex can hang. `_send` (`DC:300`) writes under `_write_lock` without a timeout, and the timeout of a
  request starts after its write. If the server stops reading its stdin, for instance because its stdout is full while the
  reader waits for the lock to refuse an approval or is stuck in `_fail_pending`, the writer stays in the write, and
  every other sender, the reader among them, on the lock. Without `ServerReadsOn` TLC finds it: one worker in
  `Send` for ever, the other and the reader on the lock, an answer unread in the pipe.
* A failed handshake leaves its subprocess running (`DC:239`): the constructor raises after it has spawned it, nobody
  terminates it, and the next attempt starts another, against "The controller keeps one `codex mcp-server` subprocess
  alive" (`docs/ORCHESTRATION.md:51`). In `ClientLifecycle`, `process` may hold two that are alive after one
  failed handshake.
* The inventory says that its "checks mirror the renderer's real admissibility gates: enum membership, the rights gate
  on curated presentation, and presentation completeness" (`corpus_inventory.py:103`). The renderer has no gate of
  completeness: it accepts a rendering mode without a representation kind. And it has one the inventory does not
  know, on interpretation-only seeds.
* The other side of finding 1: after a crash that leaves no recorded error the summary advises
  `debate_reply`, which refuses, and `debate_retry` does nothing, so that the run is stuck. With
  `Faults = {"crash"}` `AdviceHonoured` is violated; `AdviceWithoutFaults` proves it otherwise.
* "Run records are written atomically" (`INSTALL.md:220`) holds while calls take turns. Two controllers
  whose calls on one run overlap share the name of the temporary file; `SharedRun` without its history
  variable would show torn and lost saves.
* A record whose text has no UTF-8 form passes the preflight and raises in the middle of the ingestion,
  leaving snapshots no state refers to (`StartRun` has the step; no *saved* run is affected).
* The fixtures may name a record whose key (work and locator) occurs twice; `validate_fixtures` accepts
  that, and recall can then exceed 1. `MeasuresSound` assumes distinct keys, which the corpus has.

## 7. Not modelled

* Prompts, wording, hashing, JSON, file names and paths: data that no property distinguishes.
* `status` changes nothing and counts what is in the file. A power failure that takes back a rename or leaves
  a renamed file empty: nothing is flushed, and nothing in the repository promises it.
* Of retrieval: normalization, feature extraction and the extraction of the school; of the identities:
  the hash, and a separator character inside a hashed part.
* The sentinel parsing of claim blocks is reduced to whether a block is accepted; the draft protocol and
  the unsupported-protocol denial, which no recorded result can meet, are left out.
* Of the footer its wording, of the run-state summary its sums over rounds and runs (2.2).
* Of the benchmark nDCG, the terms of BM25, the contract metrics, the summary and the rendering of reports;
  of the inventory its statistics. The template validator and the panel variant of the agreement repeat rules
  that are modelled, over other files.
* Policy generation computes constants and splices them into files for a developer, who runs it again; the
  smoke test and the example drive what is modelled; the prose is executed by nobody.
