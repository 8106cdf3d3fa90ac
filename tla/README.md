# SynaptoMind in TLA+

SynaptoMind is a local memory server for AI agents (Bun, TypeScript, SQLite).
This directory holds TLA+ models of the parts of it whose correctness depends on
the order in which things happen, TLC configurations that check them on small
instances, and TLAPS proofs of what matters most for instances of every size.

`PROJECT.json` maps every definition to the source lines it stands for, and
lists the runs, the mutants each property is measured against, the findings, the
hazards of the code and the theorems.

    tlc -config PlacementQueue_edits.cfg MCPlacementQueue.tla    # any run
    tlapm PlacementQueue_proofs.tla                              # any proof module

## 1. The system

**Processes.** One server process listens for HTTP (REST and UI) and for MCP;
each stdio client of an agent is a process of its own that opens the same SQLite
file. Embedding runs in a child process that talks to the server over IPC and
opens the database itself. A stdio process started with `--stdio-standalone`
brings an embedder of its own. With several users, each has a database; the
databases do not interact.

**What is atomic.** A process is one JavaScript event loop over a synchronous
SQLite driver: a handler runs undisturbed until it awaits. Between processes the
unit is the SQLite transaction, or the single statement where the code opens
none. A transaction that read before it wrote fails with a busy error when
another connection wrote in between. A process can die between any two
statements.

| Component | State | Operations | What makes it correct | Status, modules |
|---|---|---|---|---|
| Placement review queue | `placement_proposals` | enqueue, apply, batch apply, reject, rollback, expire, prune | a proposal is applied at most once, only to what was reviewed; graph and queue agree; a rollback undoes its run and nothing else | modelled: `PlacementQueue` |
| Embedding pipeline | `pending_embeddings`, `vec_thoughts`, worker batches | trigger, poll, store, count failures, dequeue, sweep, reset | a stale vector is announced; every thought is embedded or dead-lettered in the end | modelled: `EmbeddingPipeline` |
| Embedder supervisor, IPC | child handle, flags, generation, pending requests, backoff | start, ready, crash, restart with backoff, idle exit, teardown, request, reply, timeout | at most one child of its own; each call settles once; no old child touches the new one's state | modelled: `EmbedderSupervisor`, `EmbeddingCalls` |
| Thoughts | `thoughts` | create, dedupe, update, move, archive, delete | no dangling references; no two live thoughts with one content hash in a project | modelled: `ThoughtStore`, and in part in the two above |
| Edges | `edges` | create, upgrade a placeholder, retype, delete, batches | one edge per pair; the rules on clusters and symmetric types | modelled: `ThoughtStore`, `PlacementQueue` |
| Preview tokens | `preview_tokens` | issue, claim, expire | one confirm per preview, of what was previewed | modelled: `Curation` |
| Thought merge | `thoughts`, `edges` | preview, merge, compact | no neighbour lost, all or nothing | modelled: `ThoughtStore`, `Curation` |
| Retention review | `thoughts`, `edges` | list, protect, delete, compact | nothing in use or protected is removed | modelled: `ThoughtStore`, `Curation`, `Agenda` (the list) |
| Clusters | cluster thoughts and edges | create by hand, auto-cluster, read | only clusters have members | modelled: `ThoughtStore`, `Curation`, `Search` |
| Health checks and repair | none | report, score, repair | a repair makes the report better and touches nothing protected | partly: `HealthChecks`, `Curation` |
| Start-up, migrations, backup | `_meta`, schema, vector table, backup files | open, back up, prune, migrate, rebuild vectors | the version never claims more than the schema holds; a crash leaves a start that can go on | modelled: `Startup`, `Server` |
| MCP sessions, event store | session map, pairs, event buffer, evicted ids | initialize, request, stream, close, TTL sweep, stop, replay | the session cap; nothing outlives `stop`; replay in order and gap-free | modelled: `Sessions`, `Server` |
| Rate limiter | counters per key | check, evict, clean up | the limit per window | modelled: `Sessions` |
| Boot, registry, shutdown | background services | boot, open databases, shut down | serves only an open file; exits when its requests are done | partly: `Server` |
| Search | primers, hit counts | search, clusters, context, by id | answers what is in scope and current; misses nothing it promises to find | modelled: `Corpus`, `Search`, `Retrieval` |
| Placement engine | none | pool, vectors, neighbours, placement, edges, lifecycle | proposes no edge that is there, no place without a majority, nothing from a stale vector | modelled: `Planner`, `Retrieval` |
| Frontier, slots, listings, graph view, reflection | `slots`, session notes | list, page, reflect | what is due is shown where limits leave room, what blocks it is named; a reflection is all or nothing and repeats no decision | modelled: `Agenda`, `Retrieval` |
| Interval jobs, decay | timer, running flag | start, tick, stop | -- | partly: `Curation` (decay as a write) |
| Projects, tags, settings, links | single rows | delete a project, set | a project's thoughts move before it goes (that others refer to one that exists, nothing in the code sees to) | partly: `ThoughtStore`, `Agenda` |
| Authentication; tools, REST, CLI, configuration, logging; deployment, evaluation | configuration | look up, parse, format | -- | not modelled |

**How they interact.** Every writer of thoughts feeds the embedding pipeline
through triggers and invalidates pending proposals through the thought's
`updated_at`. The placement engine asks the embedder for vectors (an await),
reads the graph and hands a plan to the queue; applying a proposal goes through
the same edge writer as the link tool, the merge and the clusters. A delete of a
thought cascades to edges, proposals, queue rows and the vector. Searches read
the vectors the pipeline stores, and write hits and primers back. The supervisor
starts and stops the process in which the pipeline's worker runs: at boot, and
again on demand -- a child that went idle is replaced when a search, the
placement engine or the clusters next ask for a vector. A child on its way out
and its successor can overlap for a moment.

**What is hard to test** is listed under `hazards` in `PROJECT.json`, each at
its line: reads before an await or outside a transaction, crashes between two
writes, two processes on one database, caps at their limit, answers put together
from reads of different moments, and sequences such as expire -- re-enqueue --
decide -- re-enqueue.

## 2. The modules

| Module | Content |
|---|---|
| `PlacementQueue` | the review queue with the graph it edits and the callers who edit it meanwhile |
| `EmbeddingPipeline` | queue, vectors and workers, statement by statement |
| `EmbeddingCalls` | abstract: what a call of `generateEmbedding(s)` is promised |
| `EmbedderSupervisor` | the child process, its generations, the callers and the teardown; implements `EmbeddingCalls` |
| `ThoughtStore` | the writers of thoughts and edges, as operators from store to store |
| `HealthChecks` | the finders, the report, the score and the repairs, over a store |
| `Curation` | processes that preview, confirm and execute on one store; extends the two above |
| `Startup` | opening a file: guard, backup, migrations, vector table, default project |
| `Sessions` | rate limiter, sessions, streams, event store, sweep and `stop` |
| `Server` | composes `Startup` and `Sessions`: processes that start, serve, stop and die |
| `Corpus` | what is searched: a `ThoughtStore`, vectors, primers, hits, and the writes of others |
| `Search` | a search, cluster search or context, read by read |
| `Planner` | one placement plan, read by read |
| `Agenda` | frontier, slots, pages, graph view and reflection |
| `Retrieval` | composes `Search`, `Planner` and `Agenda` over one `Corpus` |
| `MC...` | for each run: symmetry sets, small inputs, the one state constraint |
| `..._proofs` | theorems about the module of that name; `Server_proofs` is about both halves of `Server`, `Answers_proofs`, like `Retrieval_proofs`, about `Retrieval` |
| `FiniteInduction` | lemmas the proofs share: induction over numbers and over the subsets of a finite set, in set form; least and greatest members |

Definitions named `X_Y` that begin "As X, but" (or "Mutant") are variants of `X`
with a plausible bug; no specification uses them. They are there to show that
the properties can tell the difference.

### 2.1 PlacementQueue

`queue` is the table `placement_proposals`, `edges` the edges, `thought` what
the queue asks of a thought: its status, `updated_at`, its project. A `plan` is
an enqueue that awaits the embedder. A `job` is an apply, reject or rollback a
process is in the middle of: the code reads a row (`GateItem`, `StartReject`,
`CheckItem`), judges it in memory, and writes in a later transaction
(`ApplyItem`, `RejectItem`, `RollbackItem`), possibly one of several rows.
`BusyItem` is a transaction that SQLite refuses, with what the code's `catch`
does then; `Crash` ends a process anywhere. With one process the guard `Free`
keeps other handlers out of a running job, because nothing in it awaits; with
two or more the other process's steps come in between.

How the data is abstracted:

- A timestamp is a day (`Tick`). No day passes between a row's read and its
  write.
- `updated_at` is a counter per thought: each update gives a new stamp. (Two
  updates within one millisecond would share one in the code.)
- A gate takes one look at the thoughts and the edge; the code's consecutive
  reads in one synchronous function are merged into it. The reads and the
  transaction that end an enqueue are merged likewise.
- A draft is as inactive as an archived thought; `null` is not a project here.
- Item kinds the engine no longer emits are refused by every operation and left
  out, as are cluster and vocabulary gates, which never refuse an item of the
  engine's types.
- Which candidates the engine keeps, and their types, depends on scores and
  text: any choice of `PlanItems` with one type per candidate is possible.
- Within a batch, items are taken in any order; the code takes them as given.
- Dry runs, previews and lists write nothing and are no actions.

Two variables and one field are history, for properties only: `edited`, the `by`
of an edge, and `used`, which stands for the uniqueness of UUIDs.

### 2.2 EmbeddingPipeline

`queue` is `pending_embeddings` (`"out"` when a thought has no row), `ahead` its
order, `vec` the content version each vector was made from. A `worker` is an
embedder process; its phases follow the statements of `processOneDb`: read a
batch, await the model, and for each row the hash check (`CheckItem`), the
`DELETE` (`ClearItem`) and the `INSERT` (`InsertItem`) of its vector; then the
failures are counted, in two statements each (`CountFailure`, `RecordFailure`),
and what was stored leaves the queue in one (`Dequeue`). The sweep reads orphans
and re-queues them later (`Sweep`, `Requeue`). `Forget` is everything that loses
the rest of a batch: a crash, the idle exit, a shutdown, a model that throws, a
busy database. `StoreFails` is a failure of one row only. Servers act at any
moment. `DropVector` is the half of a delete that a crash can leave behind.

Abstractions: content is a version number, the hash is version and project;
backoff and timers only say when a step happens, not whether. `late` is history:
the thoughts that were edited or deleted inside a window the code leaves open
(`Committed`, `Holding`).

### 2.3 EmbedderSupervisor and EmbeddingCalls

`child` holds every child ever spawned, by generation: its state, whether it was
told to go, the requests it has, and the pipe back to the server (`wire`). `sup`
is the fields of the class. `run` is the single-flight `runEnsureReady`: the
await it is in and the process and generation it captured before it. `stop` is
`teardownProcess` likewise. `call` is a caller: waiting for readiness, about to
send, or with an entry `at` in the map of pending requests.

A step is one synchronous stretch of code, from one await to the next: `Loop`
goes from the head of the loop to the next await, whatever branch it takes.
`Busy` says that a continuation is runnable already; messages, exits, timers and
new calls wait for it, as macrotasks wait for microtasks. Between runnable
continuations any order is possible. Children act at any time.

Abstractions: a timer is an event that may come at any moment (`Deadline`,
`CooldownEnds`, `RequestTimeout`, the waits of a second and of three in
`KillEnds` and `StopAsked`); the length of the backoff is left out. A send fails
only towards a child that is gone. Payloads, log lines, a malformed reply and a
`spawn` that throws are left out. The server tears down once, as `shutdown`
does.

`OrderedExit` is an assumption about the runtime: the exit of a child is
reported after its last message. All runs make it, and so do the two theorems
about the children. Without it `ReadyIsCurrent` fails: the ipc callback compares
generations only, so a `ready` delivered after the exit of its own child lets
callers through to no child, and none of them respawns it.

`client.suite.ts:230` fears that the late exit of an idle child marks its
successor dead. `ReadyIsCurrent` and `CallsImplemented` hold with such exits:
the generation guard keeps them out.

### 2.4 ThoughtStore, HealthChecks and Curation

A store is a record: thoughts by id, edge rows, project rows. A transaction body
is an operator from a store to an outcome -- whether it commits, why not, the
store afterwards -- so that the services that call one another in one
transaction (compaction calls the merge, the merge archives and links) compose
as functions do, and a refusal is a rollback. `HealthChecks` gives each finder
as a set over a store; report, score and repair list are built from them as the
service builds them.

`Curation` adds the processes. A destructive tool has a preview, which stores a
token with a fingerprint (`Preview`), and a confirm of three steps: `Claim`
deletes the token and compares the fingerprint, `Judge...` is what the service
reads before its transaction, `Execute...` is the transaction; plain writes of
others come in between. Compaction confirms on a flag, without a token, and
clustering by hand needs no confirm. A repair executes the list it was shown,
one transaction per check. For each group of an auto-clustering, and for a
cluster made by hand, the members' projects are read first (`ReadGroup`,
`StartCluster`) and the transaction follows (`ExecuteCluster`).

A call that is given a `cwd` resolves it to a project before anything else and
never asks again whether that project exists. Creations, updates and requests
therefore carry a project (`proj`), which may be gone, or never have been, when
it is stored; so do the items of a bulk creation and the summary of a
compaction, whose `project_id` is stored as it comes. A bulk item keeps its
parent and relation too.

Abstractions: a thought has its content as a model value, importance counts
steps, dates are ticks; tags, url links and texts are left out of this store.
Groups of close thoughts are the components of the constant relation `Near`. The
version of an edge row stands for its id.

Reading the code against the model showed some limits that are the code's, and
that the properties therefore name instead of hiding: no foreign key ties a
thought to its project, and every writer above can leave a thought in a project
that does not exist, so no property says that it exists; the fingerprint of a
retention deletion omits `updated_at`, but eligibility is judged again in the
transaction; a retype re-creates an edge unlinked in between; one repair pass
can create a finding for another check -- an archived test remnant becomes an
archived parent -- so `RepairHeals` asks for two passes.

### 2.5 Startup, Sessions and Server

`Startup` is `openDatabase` with every statement that commits by itself a step:
version guard, `VACUUM INTO`, pruning, each migration with its stamp, the
rebuild of the vector table in its four statements, the default project. A
process remembers the version it read (`cur`); a crash, or a statement that
throws, ends it anywhere. A backup's name is chosen when no file has it, and two
processes may choose one name in the same millisecond (`Namesakes`): then the
second `VACUUM INTO` fails, its handler unlinks the first one's backup, and that
start ends (`BackupFails`); `taken` is the backup that has the name a process
chose. `overlap`, `clash` and `unlinked` are history: whether a migration
was committed under another process's upgrade, whether a vector table was
dropped that another process had made or relied on, and whether a failing backup
has taken another's away. What a migration does to
rows is left out: it is applied or not, and can be applied again (`Replayable`)
or not.

`Sessions` is one listener. A request is in a phase that names the await it is
in: `probing` (its body), `building` (before the session is registered),
`registered` (until `handleRequest` answers), `following` (a request on a
session), `streaming`, `replaying`. What the SDK does inside `connect` and
`handleRequest` is taken from the callbacks the listener passes to it. A
session, its server/transport pair and its id have the name of the request that
opened it. `peak`, `late`, `quota`, `stored` and the fields `lost` and `out` of
a replay are history; `forgotten` in a quota says that the limiter evicted the
client since, or counts it in a window that began after that. The two users
stand for two clients of the limiter.

`Server` composes them: processes on one file, of which `Http` listens. Sessions
live while it serves; `stop()` runs through `Shutdown`, `Dispose`, `Clear` and,
when no request is in flight, `Exit`; `Die` ends a process and all that was in
its memory. A `budget` bounds what a run does.

The limits the properties name: concurrent initializes can exceed the session
cap by as many as were past the check at once; a session answered or registered
while `stop()` awaits its disposals is never disposed; a replay silently passes
over events evicted while it awaits its sends; a limiter at its capacity forgets
its oldest key with its quota. Two starts on one old file are the subject of
finding 2. Two rebuilds of the vector table at once, and a crash, leave the
dimensions recorded and no table (`clash`). A binary checks the version only
when it opens, so an older one goes on serving a file a newer one has upgraded.
Starts that crash again and again prune, after as many as are retained, the
backup from before the upgrade, and a backup of the same name that fails takes
it away (`BackupKept` says what is kept).

### 2.6 Corpus, Search, Planner, Agenda and Retrieval

None of the reading calls opens a transaction, and with several processes a
write can fall between any two of their reads. Each call is a record with a
program counter; a step is the reads of one function. `saw` holds every store
the file had since a call began, and the properties judge an answer against
these: what was so at *some* moment, what was so *all along*.

`Search` goes from the request through the look-up by id or prefix, the
embedding (which may fail), the vector leg and the text leg (which may fail),
rank fusion, hydration within the scope (`Hydrate`), the tags (`FilterTags`),
the two questions of graph standing -- who is replaced (`ReadReplaces`), then who
is contradicted (`Stand`) --, the relevance gate and the primers to the hits it
writes. `Planner` is `proposePlacementPlan`: pool, queue, vectors,
the await, neighbours, the vote for a place, edges, lifecycle. `Agenda` has the
frontier, slots, paged listings, the graph view and the reflection, which is one
transaction. The writes of others are edits, tags, deletions, new links, retyped
edges and whatever the other calls write themselves.

Abstractions: similarities, matches, overlaps and cues are constants of the
instance over contents with telling names; ties in a score, and rows that a
query does not order, may come in any order (`Ranked`, `Sorted`). Rank fusion is
computed as the code does, in millionths. Slots count lines where the code
counts characters; where the cut falls in a slot of items, whose lines differ in
length, is left open (`cut`). The recency boost, off by default, single gets and
chains, field shaping and wording are left out.

What this part showed of the code, as exemptions in the properties: a search
reads scope and tags at different moments, so what it answers was in scope once
and had the tag once, and need never have had both; an edge retyped from
`contradicts` to `replaces` between the two questions of graph standing is seen
by neither, so that a thought doubted all along looks current (`DoubtsLast`
allows for two moments); a slot shows a page of what is due, in no order, cut to
a number of characters, so that what is due may be left out (`AllDue` is about
an answer that met neither its limit nor the cut, and lets as many due items be
missing as its offset passes over); two searches that promote one thought at the
same moment leave two primer rows, since `primers.thought_id` is not unique, and
the answer shows it twice; a search whose promotion meets a thought just deleted
fails as a whole; a vector that a late edit made stale unannounced is used as if
it were current, although a comment in the candidate embeddings says it cannot
be (`lost`); listings break ties by nothing, so a page boundary inside a tie may
repeat or skip; a cluster deleted between the vote and the look at its size
counts as having room, since its members are counted without a look at the
cluster; tags are asked for after the cut to the number of results, so what they
drop makes no room, and the word search reads up to its limit before scope and
status are asked, so matches out of scope take the place of those in it; a
`depends_on` edge blocks only if *both* ends are active, while candidates
include drafts; a reflection that meets a thought with the content of its item
replaces that thought's tags.

## 3. What the runs show

| Run | Instance | Properties | Result |
|---|---|---|---|
| `PlacementQueue_edits` | 1 process, 2 thoughts, 2 projects, 2 rows, 2 edges, 2 runs, 1 edit each | `GraphMatchesQueue`, `EdgeClaimedOnce`, `RollbackTouchesOnlyItsRun`, `AppliesWhatWasReviewed` | holds |
| `PlacementQueue_expiry` | 1 process, 2 rows, 4 days, TTL 1 | `OneLiveRowPerItem`, `DecisionsAreFinal`, `RetentionSparesTheWindow` | holds |
| `PlacementQueue_shared` | 2 processes, 2 rows, 2 edges | `TypeOK`, `OneEdgePerPair`, `NoDangling` | holds |
| `EmbeddingPipeline_shared` | 2 workers, 2 thoughts, batches of 2, 1 edit each, 1 fault | `TypeOK`, `SignalLostOnlyInWindow`, `GhostsOnlyFromWindow`, `LimitMeansDead`, `DeadLettersStay` | holds |
| `EmbeddingPipeline_settles` | 1 worker, 2 thoughts, 2 projects, batch of 1, 2 faults, reset on | `EventuallyFresh` (liveness) | holds |
| `EmbeddingPipeline_fresh` | 1 worker, 1 thought | `FreshnessSignal` | **violated** |
| `EmbedderSupervisor_lifecycle` | 2 calls, 2 chunks, 2 losses, 6 generations | `TypeOK`, `ReadyIsCurrent`, `ChildrenAccountedFor`, `PendingIsAwaited`, `NoSpawnDuringStop`, `CallsImplemented` (refinement) | holds |
| `EmbedderSupervisor_answered` | 1 call, 2 chunks, 2 losses | `CallsAnswered` (liveness) | holds |
| `Curation` | 2 processes, 4 thoughts, 2 graphs, 10 calls of 9 kinds and the edge tools, 2 tokens, 1 plain write, 1 tick | `GraphSound`, `ConfirmsAsPreviewed`, `RepairHeals`, `MergeKeepsNeighbours`, `RemovedOnlyIfEligible` | holds |
| `Server` | 2 binaries on 3 files with 4 starts; 3 requests of 2 users, 2 streams, 4 events, stop | `StartupSound`, `VectorsRecoverable`, `QuotasHeld`, `LeakedOnlyIfLate`, `ReplayComplete` | holds |
| `Server_replay` | 2 binaries on one old file, 3 starts | `NeverBlocked` | **violated** |
| `Retrieval` | 28 scenarios of at most 5 thoughts, 2 processes, up to 3 writes in between | `AnswerSound`, `AnswerComplete`, `VectorsCurrent`, `PlanSound`, `AgendaSound`, `PagesComplete`, `ReflectionSound` | holds |

**Why the bounds are enough.**

*Queue.* All rules of the queue are about one pair of thoughts and the edge
between them, so two thoughts meet every gate. Two rows and two edge ids are
needed to have a second proposal for an item, an edge replaced by another, and
two rows that claim one edge; two runs, to have a rollback pass by the other
run's row. With a TTL of one day, four days cover pending, overdue, decided
inside and outside the window, and pruned.

*Pipeline.* A batch of two with a busy database on one item has both outcomes of
every row next to each other, one edit makes a batch stale, and two workers are
enough for one to overtake the other between any two statements. `MaxFaults`
bounds crashes and exceptions in all, so they hit at every place, but only that
often.

*Supervisor.* Two callers meet the single flight and each other's rejections,
two losses hit a child and its successor, and six generations are more than one
start, one respawn and one teardown use up; in `answered` the bound on
generations is never reached, or the run would get stuck there and the property
fail. A call of two chunks meets a loss between its requests.

*Curation* (430 000 states). Two processes, because all windows are between the
reads of one and the write of another. The two graphs have a live cluster with a
member, an empty one, a protected thought, a draft, a duplicate content, an
archived thought, and edges of every kind the writers treat differently; between
them every tool is applicable and every finder but the impossible ones finds
something. Two tokens make a stale one and a reissued one possible, and one
plain write at any place is what a token or a judgement can be overtaken by. One
tick is more than a token's life.

*Server* (1.4 million states). Two binaries, one of them a migration behind, and
files that are new, old, and of other dimensions, with four starts among them,
some with one name for their backups;
three migrations, the last of which cannot be applied twice, retention of three
with four starts to exceed it; a session cap, a quota and a table of keys of one
or two, so that all are met with three requests; an event buffer of two with
four events on two streams, so that events are evicted during a replay. A budget
gives each run either starts or requests in number, never both: they meet only
in that a listener that died or exited starts anew.

*Retrieval* (290 000 states). Each scenario is a small graph in which the thing
asked about can go either way: a superseded best match, a contested one, a hit
away from promotion, a neighbour vote that ties, a vector out of date, a goal
list one line from full, a page of a slot; and up to three writes between any
two reads. The scenarios are chosen so that each branch of the calls is taken.

**Deadlock** checking is off: ids, days, edits and budgets are finite in an
instance, and a system nobody calls may rest.

**Fairness.** `EventuallyFresh` assumes that a worker that can take its next
statement takes it, and that its sweep timer fires again and again: poll and
sweep are re-armed in `finally` blocks. It assumes a running embedder. With
`precache` off the child exits when no request has come for a while, and polling
rests until some caller needs a vector; the run is about the time a child runs.
That every batch gets an answer from the model is part of the assumption; a
model that throws forever is an outage that counts no attempts and blocks the
queue. `CallsAnswered` assumes weak fairness of the server's own event loop only
-- runnable code runs, timers fire, messages and exits are delivered -- and
nothing of callers or children, which may hang forever. The other models state
safety only: their calls are bounded sequences of steps that no other step can
disable, and what starts them is a client.

With two workers liveness can fail, because both may refuse each other's insert
in lock step until the row is dead-lettered or stamped again; the run has one
worker, as every documented deployment has; `shared` has the two of an overlap.

**Findings.** Two runs have counterexamples against what the repository says;
they are short, and `PROJECT.json` quotes both sides.

1. *A stale vector can go unannounced* (`EmbeddingPipeline_fresh`): an edit
   between the hash check and the deletion from the queue is wiped off the queue
   together with the old row.
2. *Two starts can block every later one* (`Server_replay`): a process applies
   again what another one has applied since it read the version, and stamps its
   own older version back; if it dies there, a migration is applied and not
   stamped, and `ADD COLUMN` fails at the next start.

Four more disagreements came up in modelling the queue and the supervisor; the
models can show each, but no run is spent on them:

- The cap on pending proposals is counted on a limited page of the newest rows,
  from which overdue ones are removed only afterwards; a refreshed old row is
  live but not on the page.
- Two processes can decide a row twice: reject and apply check the state before,
  not in, the write. A rejected row can so hide an applied edge from every
  rollback. `GraphMatchesQueue`, `AppliesWhatWasReviewed`,
  `RollbackTouchesOnlyItsRun` and `DecisionsAreFinal` therefore hold for one
  server process only, which is how the documentation expects the queue to be
  used.
- A rollback reports a row as reverted although its edge stays: the drift check
  compares edge types, the inverse deletes by edge id, and unlinking and linking
  again lies between.
- A crash of the child does not drop every request in flight: when the pipe
  refuses another caller's send before the exit is reported, the next caller's
  respawn moves the generation on, the exit is ignored, and what was in flight
  waits for its timeout of a minute.

## 4. What is proved

Every theorem holds for all values of the constants that satisfy the assumptions
named in the modules, all proofs are complete, and none rests on the bounds of a
run. TLC evaluates each assumption on the instances. They are `TypesAssumption`,
`IdsAssumption` (a user is no row, and the marks for "no new edge" no edge ids),
`BoundsAssumption` (caps are positive), `ResetAssumption`, `OrderAssumption`,
`BinariesAssumption`, `FilesAssumption` (a file is new or was left by an
undisturbed process), `ListenerAssumption`, `SessionsAssumption` (finitely many
requests; the limiter is on and its table holds a key), `CurationAssumption`
(the graphs a run starts with are sound, new ids differ, the threshold of
overlinked thoughts is a number), `EditsAssumption` (an
update sets no importance, day, kind or hash), `ConfigAssumption` and
`SearchAssumption` (limits and thresholds are numbers of the range their schema
gives them) and `ScenariosAssumption` (tables are finite, new ids differ, a
vector is of what its thought says unless it is queued or was lost, and requests
are as the tools' schemas let them be; a hash is of a content and its project,
and no slot holds a whole line twice).

| Theorem | States | Also assumes |
|---|---|---|
| *`PlacementQueue`* | | |
| `TypeCorrect` | `Spec => []TypeOK` | |
| `PairsAreSingle` | `Spec => []OneEdgePerPair` | |
| `GraphAgrees` | `Spec => []GraphMatchesQueue` | one process |
| `ItemsHaveOneLiveRow` | `Spec => []OneLiveRowPerItem` | |
| `NothingDangles` | `Spec => []NoDangling` | |
| `WindowIsSpared` | `Spec => RetentionSparesTheWindow` | |
| `ClaimsAreApart` | `Spec => []EdgeClaimedOnce` | one process |
| `ReviewedIsApplied` | `Spec => AppliesWhatWasReviewed` | one process |
| `RollbackKeepsToItsRun` | `Spec => RollbackTouchesOnlyItsRun` | one process |
| `DecisionsStand` | `Spec => DecisionsAreFinal` | one process |
| *`EmbeddingPipeline`* | | |
| `PipelineTypeCorrect` | `Spec => []TypeOK` | |
| `SignalKept` | `Spec => []SignalLostOnlyInWindow` | |
| `GhostsExplained` | `Spec => []GhostsOnlyFromWindow` | |
| `LimitHolds` | `Spec => []LimitMeansDead` | no reset of dead letters |
| `DeadLettersKept` | `Spec => DeadLettersStay` | no reset of dead letters |
| *`EmbedderSupervisor`* | | |
| `SupervisorTypeCorrect` | `Spec => []TypeOK` | |
| `PendingHolds` | `Spec => []PendingIsAwaited` | |
| `SupervisorImplementsCalls` | `Spec => CallsImplemented` | |
| `ReadyIsTheCurrentChild` | `Spec => []ReadyIsCurrent` | `OrderedExit` |
| `NoChildIsLost` | `Spec => []ChildrenAccountedFor` | `OrderedExit` |
| `ShutdownStands` | `Spec => NoSpawnDuringStop` | |
| *`Server`* | | |
| `StartingIsSound` | `Spec => []StartupSound` | |
| `VectorsAreRecoverable` | `Spec => []VectorsRecoverable` | |
| `LimitsHold` | `Spec => []QuotasHeld` | |
| `OnlyLateOnesLeak` | `Spec => []LeakedOnlyIfLate` | |
| `ReplaysAreComplete` | `Spec => []ReplayComplete` | |
| *`Curation`* | | |
| `StoreStaysSound` | `Spec => []GraphSound` | |
| `PreviewsAuthorise` | `Spec => ConfirmsAsPreviewed` | |
| `RemovalIsEligible` | `Spec => RemovedOnlyIfEligible` | |
| `MergesKeepNeighbours` | `Spec => MergeKeepsNeighbours` | |
| `RepairsHeal` | `Spec => RepairHeals` | |
| *`Retrieval`* | | |
| `VectorsAreCurrent` | `Spec => []VectorsCurrent` | |
| `PagesAreComplete` | `Spec => []PagesComplete` | |
| `PlansAreSound` | `Spec => []PlanSound` | |
| `AgendasAreSound` | `Spec => []AgendaSound` | |
| `AnswersAreSound` | `Spec => []AnswerSound` | |
| `AnswersAreComplete` | `Spec => []AnswerComplete` | |
| `ReflectionsAreSound` | `Spec => ReflectionSound` | overlap is symmetric |

*The graph and the queue agree.* `GraphMatchesQueue` is not inductive: an apply
could hold a row that someone else decided meanwhile, or a fresh row could take
the id of a deleted one whose edge is still there. `AgreementInv` adds
`IdsTaken` (ids in tables, jobs and edges have been given out), `OneRowPerId`,
and `ReadsAreCurrent`: with one process, a row held by a job is in the queue as
it was read, because no other handler runs before the job goes on. The proof has
a lemma for each kind of step, with `ApplyItem` and `RollbackItem` split by what
the writer finds.

*The review, from plan to rollback.* `QueueInv` holds for any number of
processes: it adds to `OneLiveRowPerItem` that an apply holds a row of the item
it was read as (`KeysRead`), so that putting it back to pending cannot make a
second live one; that a plan made from an old reading adds none is shown item by
item. With one process `ReviewInv` goes from there: what a job has read is still
there (`ReadsAreThere`), what a gate let through still stands when the
transaction comes (`GatesStand`), the edge a row claims was written by it, if it
is still there (`ClaimsAreOwn`), and an edit since a row was queued shows in the
stamps it is compared with (`EditsShow`). Four theorems follow from it, one
conjunct for each thing a step may write. That they hold for one process only is
the code's limit, not the proof's: section 3 has the two-process behaviours.

*The pipeline's signal.* `Windows` strengthens the two properties by what each
worker must keep true between its statements (`RecordOK`): before a check, the
snapshot is no newer than the thought; between check and insert, a difference
means the thought is `late`; once stored, the row it will delete from the queue
announces nothing but a late edit. The lemmas say so per worker, so that a step
of one worker or of a server is checked against any other worker in one go.
`DeadLettersStay` needs only that a queued thought exists, and goes through the
statements that write the queue.

*The supervisor implements the calls.* Types alone are not inductive: a reply
could bring a call more chunks than it asked for. `IInv` adds that a call lacks
a chunk until it is settled, that it has an entry in the map of pending requests
just while it awaits a reply, and `WaitingHasRun`: when no run is under way
nobody waits for one. The last is what makes the step of `Ask` a step of one
call: a run that returns at once settles only the caller who started it. For the
refinement, every step of the supervisor is shown to be one of three things:
some who asked get an error (`Refusing`, the stutter included), one call asks,
or one call receives a chunk. The theorem does not assume `OrderedExit`.

*The children.* `LifeInv` says what a child's pipe can hold (`Orderly`: ready
comes first, "exiting" only from one that leaves), that the handle is the latest
child or one told to go (`Spawned`), that the latest child is the handle's own
until the server has heard of it (`Current`), that a run which kills is the only
one to know of its child (`Killed`), that a child that is not ready has a run or
a teardown with a deadline (`Watched`), and what the teardown holds of
generations and child (`Stopped`). It is stated over what a step leaves rather
than over the variables, because one step of the event loop writes all of them
several times; each helper of the loop gets a lemma. `StoppingInv` -- the flag
is up just while a teardown is under way -- carries `NoSpawnDuringStop` without
`OrderedExit`.

*Starting is sound.* The two theorems about `Server` hold for any number of
processes, binaries and migrations, on any file that an undisturbed process left
or that is new (`FilesAssumption`). `StartupInv` has four parts. `AppliedInv`:
every migration up to the version is applied, and so is what a process has gone
through. `LoneInv`: while no two upgrades have overlapped, an upgrading process
knows the version and nothing above it is applied. `VectorInv`: recorded
dimensions have their table, and a process that is past creating it relies on
it, unless two rebuilds clashed. `BackupInv`: the backups of a process carry
ever higher numbers, so pruning takes its newest only when as many of other
processes stay, as long as no failing backup has unlinked another's. A lemma
says that every step of the server is a step of starting, of the indexer, an end
of a process, or leaves all of this alone; the sessions play no part in the
rest.

*The listener.* `SessionInv` has a part per promise besides the types.
`LiveInv`: a live pair is held by a request under way, or by the session map, or
is late in a `stop()`. `CapInv`: the sessions of a user and those being built
are at most the cap and what was past the check at one time; the proof counts
with finite sets. `ReplayInv`: a log is the gap-free end of all that was stored
on its session, and a replay has sent, or seen evicted, just the events of its
stream up to its place. `RateInv`: what the limiter counts for a key in the
window agrees with what the client got, unless it was forgotten. That an
eviction takes the oldest key needs a least element of a set of numbers; the
module gets it from the well-foundedness of the numbers, stated with sets.

*The store and its curators.* The operators of `ThoughtStore` and `HealthChecks`
are shown once each to take a store in order (`Good`: typed, edges between
different thoughts that are there, one per pair, the rule on clusters, one live
thought per content and project) to one in order, and to grow it (`Grows`: no
thought goes or becomes a cluster, and a new content gets the time's stamp);
`Evolves` is the same for steps that may remove. The loops of the code --
batches, the neighbours of a merge, the sources of a compaction -- are folds
over sets, of which the prover has no induction; `Levels` unfolds a fold by the
cardinality of its set, and `SubsetInduction`, in set form, carries a fact from
the empty set to the whole. `CInv` then says what the tokens and jobs hold of
the store: while a thought has the stamp a preview fingerprinted it has the
content that was shown, unless it was written in that instant (`Held`); a
claimed token is spent; an edge that was judged is still what the transaction
takes it for. Writes of others keep all of it. Four theorems
read off what a confirm may do. The first attempt at `GraphSound` failed for a
good reason: the model let the deletion of a project move its thoughts where a
live twin already was, which the unique index of the code refuses.
`EmptyProject` now has that refusal.

*What a repair heals.* A pass of repair is a fold over its report, and what each
item takes was found before the first: in a store in order that comes to
archiving the unprotected empty clusters and test remnants and cutting the edges
to archived parents (`RepairedOnce`, `RepairTakes`), whatever the order of the
items. What the first pass archived the second finds no more (`TakenOnce`), so
the second only cuts the edges to it, and two passes have an outcome that can be
said outright (`Healed`). Each check that warns then finds no more than before
(`FindingsShrink`). The score at that severity counts categories, not findings,
and a store in order has nothing critical (`ScoreIs`), so fewer categories with
a warning are a score no lower. `Below`, what a chain of hierarchy edges leads
to, is a least closed set and not a recursion, so that fewer edges lead to less
by a lemma of sets.

*What a call saw.* The two theorems about `Retrieval` compare a call with the
stores of its time. `RInv` is stated over the set `saw` and the store, and
`StoreMoves` says once what any write may do to both, so that each write of
another process, of a search or of a reflection is one lemma for all calls under
way. For a plan, `PlanOK` follows its reads: before the queue is read, every
vector that is not queued is of a content its thought had; after that, every one
that was not found queued; at the end, every one it holds. The middle step is
what the order of the reads is for, and the reversed order is the mutant of the
property. For a listing, `Placed` counts the thoughts in front of one that is
undisturbed: as long as nothing changes there its place is that number, it has
been shown once if its place has been read, and not at all otherwise. That place
and number agree needs a bijection between the places before it and the set of
what is in front. The reflection's loops over its items are folds over
sequences; `DecideFold` and `PostponeFold` follow them item by item.

*What a call tells.* Four more compare an answer with those stores. A
record of what a call has read says nothing of the store it will read next, so
each invariant has a part per program counter, and says of every read only what
was so at some store of the call, or in all of them: `saw` only grows, so a
write of others breaks no part, and one lemma per model (`AgendaMoved`,
`PlanFactsMoved`, `SearchMoved`) covers all writes. `AgendasOK`: the frontier's
list is what was due when it was read (`Found`), less what was replaced
(`NotReplaced`), with what blocked it then (`Dependencies`). `PlansOK`: rows,
neighbours and a place are of stores of the call; that the cluster elected has
more neighbours than the others (`ElectedIs`) is a count of finite sets.
`SearchesOK` goes with a search from leg to leg: what each leg found was in
scope and is all of it, if no more was in scope than it reads (`WordsFound`);
the candidates after fusion, after the standing, the gate and the cut
(`Candidates`, `Chosen`); the results with their clusters (`Laid`), and what the
promoted ones do when they are hoisted to the front (`HoistedAnswers`,
`HoistedShows`, `HoistedOrder`). The lists are made with `Filtered`, `Sorted`
and `Ascending`, which are defined by sets of places and by orders, so that what
they keep, and in what order, are lemmas of sets (`PickedIs`, `PickedInTurn`,
`AscendingIs`). The proofs had three corrections of the properties to make:
the vote's cluster may be deleted before its size is asked for, tags make no
room after the cut, and words out of scope use up the limit of the word search.

*What a reflection writes.* `ReflectionSound` is a property of one step, the
transaction of the call, which runs through three lists. `NotesOK` says what it
needs of every store: a thought's hash tells its content and project, and a slot
holds no whole line twice (`GoodLines`). The decisions and the postponed items
are then followed item by item, `Deciding` and `Postponing` being what is kept
after each: the decisions laid so far do not repeat one another, the items done
have a live thought of their own, and a thought the transaction has touched is
one of an item. The lines of the slot are `AddedFold`, followed by `Adding`, and
the cut to the newest ones is `TailOf`. That no two live decisions overlap is
said of both orders, while the code compares the new text with the old one only:
the theorem takes as a hypothesis that overlap is symmetric, as a Jaccard index
is.

*Only model-checked.*

- `EventuallyFresh` and `CallsAnswered`: liveness under fairness is out of the
  prover's reach.
- The two runs that expect a violation show counterexamples, and nothing is to
  be proved of them.

Theorems of the library that take an operator as a parameter cannot be used.
Where a proof needs induction -- a least number, a subset grown by one element
-- it goes through well-foundedness in set form.

## 5. Plan

Every safety invariant and action property a passing run checks is a theorem,
under the hypotheses the table names. What could follow:

1. `RepairHeals` is about two passes nobody writes between. What a repair leaves
   that others interleave with (`ExecuteRepair` makes one at a time) is only
   known to be sound.
2. The parts that section 1 calls partly modelled, and the finders listed below.

## 6. Not modelled

- *Authentication and user context*: a look-up of a token in the configuration.
  What follows from the user it names -- sessions, limits, the file -- is
  modelled.
- *MCP tools, REST API, CLI, configuration, logging*: parsing of arguments and
  formatting of results around the services; the handlers that preview, confirm
  and claim are in `Curation`.
- *Deployment scripts and evaluation*: shell updaters and offline programs.
- *Seven finders of the health check* (vectors, primers, importance, tags,
  lengths, duplicate drafts, and chains of `replaces`, whose answer depends on
  the order of the index).
- *Single-row reads and writes*: settings, url links, tags on their own, single
  gets and chains.
- *The flag against overlapping ticks of an interval job*: both jobs of the
  server are synchronous, so it never comes into play.
- *What a migration does to rows*, the scores of a search, and the wording of
  anything.
