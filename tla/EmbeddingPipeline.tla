-------------------------- MODULE EmbeddingPipeline --------------------------
(***************************************************************************)
(* How SynaptoMind keeps a vector for every thought.                       *)
(*                                                                         *)
(* Triggers put a thought into pending_embeddings when it is inserted or   *)
(* its content is written.  An embedder process polls that queue: it reads *)
(* a batch, awaits the model, stores one vector after the other, counts    *)
(* the failures, and takes the stored thoughts off the queue.  The queue   *)
(* row is also the only sign that a stored vector is out of date: readers  *)
(* embed a queued thought live instead of trusting its vector.             *)
(*                                                                         *)
(* The servers write thoughts meanwhile, in processes of their own, and    *)
(* a stand-alone stdio server runs an embedder of its own on the same      *)
(* database.  Storing a vector is several statements, each a transaction,  *)
(* so every statement is a step here.                                      *)
(***************************************************************************)
EXTENDS Integers, FiniteSets

CONSTANTS
  Thought,           \* thought ids
  Project,           \* projects; the content hash covers the project, too
  Worker,            \* embedder processes polling this database
  BatchSize,         \* embedder.batchSize
  MaxAttempts,       \* MAX_ATTEMPTS
  ResetDeadLetters,  \* embedder.resetDeadLetters
  MaxText,           \* bound: content edits per thought
  MaxFaults          \* bound: crashes, exceptions and restarts in all

ASSUME BoundsAssumption ==
  /\ BatchSize \in Nat \ {0} /\ MaxAttempts \in Nat \ {0}
  /\ MaxText \in Nat /\ MaxFaults \in Nat
ASSUME ResetAssumption == ResetDeadLetters \in BOOLEAN

VARIABLES
  thought,  \* status, content version and project of every thought
  vec,      \* table vec_thoughts: the content version a vector was made from
  queue,    \* table pending_embeddings
  ahead,    \* <<t, u>>: t was queued before u
  worker,   \* what each embedder process is in the middle of
  faults,   \* faults so far
  late      \* history: thoughts edited or deleted too late for a worker to see

vars == <<thought, vec, queue, ahead, worker, faults, late>>

NoVector == -1

ThoughtRec == [status: {"new", "active", "archived", "gone"},
               text: 0 .. MaxText, project: Project]

QueueRow == [state: {"out", "waiting", "dead"}, attempts: Nat]
Out      == [state |-> "out", attempts |-> 0]
Fresh    == [state |-> "waiting", attempts |-> 0]

\* A row of the batch as it was read: id, content and content hash.
Snapshot == [thought: Thought, text: 0 .. MaxText, project: Project]
NoItem   == [thought |-> "none"]

\* `batch`: rows still to store; `item`: the row being stored or counted, and
\* `read` the attempts read for it; `orphans`: what a sweep has found.
WorkerRec ==
  [phase: {"poll", "embed", "store", "clear", "insert", "record"},
   batch: SUBSET Snapshot, item: Snapshot \cup {NoItem}, read: Nat,
   stored: SUBSET Thought, retry: SUBSET Snapshot, orphans: SUBSET Thought]

Resting == [phase |-> "poll", batch |-> {}, item |-> NoItem, read |-> 0,
            stored |-> {}, retry |-> {}, orphans |-> {}]

TypeOK ==
  /\ thought \in [Thought -> ThoughtRec]
  /\ vec \in [Thought -> (0 .. MaxText) \cup {NoVector}]
  /\ queue \in [Thought -> QueueRow]
  /\ ahead \subseteq Thought \X Thought
  /\ worker \in [Worker -> WorkerRec]
  /\ faults \in 0 .. MaxFaults
  /\ late \subseteq Thought

-----------------------------------------------------------------------------

Exists(t) == thought[t].status \in {"active", "archived"}

Queued(t) == queue[t].state # "out"

\* INSERT OR REPLACE: a fresh row at the end of the queue, whatever was there.
Replace(q, t) == [q EXCEPT ![t] = Fresh]
BehindAll(S) ==
  {p \in ahead : p[1] \notin S /\ p[2] \notin S}
    \cup {t \in Thought \ S : Queued(t)} \X S
Without(S) == {p \in ahead : p[1] \notin S /\ p[2] \notin S}

\* The workers that have passed the hash check for t.
Committed(t) == {w \in Worker : \/ worker[w].phase \in {"clear", "insert"}
                                   /\ worker[w].item.thought = t
                                \/ t \in worker[w].stored}

\* The workers that hold a snapshot of t they have not stored yet.
Holding(t) == {w \in Worker : \/ worker[w].phase \in {"clear", "insert"}
                                 /\ worker[w].item.thought = t
                              \/ t \in {s.thought : s \in worker[w].batch}}

-----------------------------------------------------------------------------
(* The servers.                                                            *)

Create(t) ==
  /\ thought[t].status = "new"
  /\ thought' = [thought EXCEPT ![t].status = "active"]
  /\ queue' = Replace(queue, t) /\ ahead' = BehindAll({t})
  /\ UNCHANGED <<vec, worker, faults, late>>

\* Any write of the content, whatever the status: the trigger asks for none.
Edit(t) ==
  /\ Exists(t) /\ thought[t].text < MaxText
  /\ thought' = [thought EXCEPT ![t].text = @ + 1]
  /\ queue' = Replace(queue, t) /\ ahead' = BehindAll({t})
  /\ late' = IF Committed(t) = {} THEN late ELSE late \cup {t}
  /\ UNCHANGED <<vec, worker, faults>>

\* A move changes the content hash, but the trigger watches the content only.
Move(t, p) ==
  /\ Exists(t) /\ p # thought[t].project
  /\ thought' = [thought EXCEPT ![t].project = p]
  /\ UNCHANGED <<vec, queue, ahead, worker, faults, late>>

SetStatus(t, st) ==
  /\ Exists(t) /\ st # thought[t].status
  /\ thought' = [thought EXCEPT ![t].status = st]
  /\ UNCHANGED <<vec, queue, ahead, worker, faults, late>>

\* The first statement of deleteThought.  A step of its own only when the
\* second does not follow it: the server dies, or the database is busy.
DropVector(t) ==
  /\ Exists(t) /\ vec[t] # NoVector /\ faults < MaxFaults
  /\ vec' = [vec EXCEPT ![t] = NoVector]
  /\ faults' = faults + 1
  /\ UNCHANGED <<thought, queue, ahead, worker, late>>

\* Mutant: the vector is left to the first statement alone.
Delete_NoTrigger(t) ==
  /\ Exists(t)
  /\ thought' = [thought EXCEPT ![t].status = "gone"]
  /\ queue' = [queue EXCEPT ![t] = Out] /\ ahead' = Without({t})
  /\ late' = IF Holding(t) = {} THEN late ELSE late \cup {t}
  /\ UNCHANGED <<vec, worker, faults>>

\* Both: the queue row cascades, and a trigger drops the vector (again).
Delete(t) ==
  /\ Exists(t)
  /\ thought' = [thought EXCEPT ![t].status = "gone"]
  /\ vec' = [vec EXCEPT ![t] = NoVector]
  /\ queue' = [queue EXCEPT ![t] = Out] /\ ahead' = Without({t})
  /\ late' = IF Holding(t) = {} THEN late ELSE late \cup {t}
  /\ UNCHANGED <<worker, faults>>

-----------------------------------------------------------------------------
(* A worker's batch.                                                       *)

Awake(w) == worker[w].orphans = {}

Ready == {t \in Thought : queue[t].state = "waiting"}

\* The oldest rows that wait, as many as fit.
IsBatch(S) ==
  /\ S # {} /\ S \subseteq Ready
  /\ Cardinality(S) <= BatchSize
  /\ S = Ready \/ Cardinality(S) = BatchSize
  /\ \A t \in S, u \in Ready \ S : <<u, t>> \notin ahead

\* Mutant: the content hash is not selected.
SnapshotOf_NoHash(t) == [thought |-> t, text |-> thought[t].text]

SnapshotOf(t) == [thought |-> t, text |-> thought[t].text,
                  project |-> thought[t].project]

\* findPendingEmbeddings, then the model is called.
Poll(w) ==
  /\ worker[w].phase = "poll" /\ Awake(w)
  /\ \E S \in SUBSET Ready :
       /\ IsBatch(S)
       /\ worker' = [worker EXCEPT ![w] =
                       [@ EXCEPT !.phase = "embed", !.batch = {SnapshotOf(t) : t \in S}]]
  /\ UNCHANGED <<thought, vec, queue, ahead, faults, late>>

Embedded(w) ==
  /\ worker[w].phase = "embed" /\ Awake(w)
  /\ worker' = [worker EXCEPT ![w].phase = "store"]
  /\ UNCHANGED <<thought, vec, queue, ahead, faults, late>>

Accepted(w, s) == [worker[w] EXCEPT !.phase = "clear", !.item = s, !.batch = @ \ {s}]
Skipped(w, s)  == [worker[w] EXCEPT !.batch = @ \ {s}, !.retry = @ \cup {s}]

\* Mutant: the vector is written without a look at the current content hash.
CheckItem_NoHash(w, s) ==
  /\ worker[w].phase = "store" /\ s \in worker[w].batch
  /\ worker' = [worker EXCEPT ![w] = Accepted(w, s)]
  /\ UNCHANGED <<thought, vec, queue, ahead, faults, late>>

\* insertEmbedding compares the hash the batch was read with.  A thought that
\* is gone passes: only a hash that is there can differ.
CheckItem(w, s) ==
  LET changed == Exists(s.thought) /\ SnapshotOf(s.thought) # s
  IN  /\ worker[w].phase = "store" /\ s \in worker[w].batch
      /\ worker' = [worker EXCEPT ![w] = IF changed THEN Skipped(w, s)
                                          ELSE Accepted(w, s)]
      /\ UNCHANGED <<thought, vec, queue, ahead, faults, late>>

ClearItem(w) ==
  /\ worker[w].phase = "clear"
  /\ vec' = [vec EXCEPT ![worker[w].item.thought] = NoVector]
  /\ worker' = [worker EXCEPT ![w].phase = "insert"]
  /\ UNCHANGED <<thought, queue, ahead, faults, late>>

Stored(w)   == [worker[w] EXCEPT !.phase = "store", !.item = NoItem,
                                 !.stored = @ \cup {worker[w].item.thought}]
Unstored(w) == [worker[w] EXCEPT !.phase = "store", !.item = NoItem,
                                 !.retry = @ \cup {worker[w].item}]

\* The primary key refuses a second vector: another worker got there first.
InsertItem(w) ==
  LET s == worker[w].item
  IN  /\ worker[w].phase = "insert"
      /\ IF vec[s.thought] = NoVector
         THEN /\ vec' = [vec EXCEPT ![s.thought] = s.text]
              /\ worker' = [worker EXCEPT ![w] = Stored(w)]
         ELSE /\ worker' = [worker EXCEPT ![w] = Unstored(w)]
              /\ UNCHANGED vec
      /\ UNCHANGED <<thought, queue, ahead, faults, late>>

\* A statement of insertEmbedding throws: a busy database, a full disk.
StoreFails(w) ==
  /\ worker[w].phase \in {"clear", "insert"} /\ faults < MaxFaults
  /\ worker' = [worker EXCEPT ![w] = Unstored(w)]
  /\ faults' = faults + 1
  /\ UNCHANGED <<thought, vec, queue, ahead, late>>

Counting(w, s) == [worker[w] EXCEPT !.phase = "record", !.item = s, !.retry = @ \ {s},
                                    !.read = queue[s.thought].attempts]
Counted(w)     == [worker[w] EXCEPT !.phase = "store", !.item = NoItem, !.read = 0]

\* handleFailedItem reads the attempts of a failed or skipped row ...
CountFailure(w, s) ==
  /\ worker[w].phase = "store" /\ worker[w].batch = {}
  /\ s \in worker[w].retry
  /\ worker' = [worker EXCEPT ![w] = Counting(w, s)]
  /\ UNCHANGED <<thought, vec, queue, ahead, faults, late>>

\* Mutant: one attempt too many.
Failed_OffByOne(row, n) ==
  [state |-> IF n > MaxAttempts THEN "dead" ELSE row.state, attempts |-> n]

\* The UPDATE that follows; a dead letter is never brought back by it.
Failed(row, n) ==
  [state |-> IF n >= MaxAttempts THEN "dead" ELSE row.state, attempts |-> n]

\* ... and writes one more, if the row is still there.
RecordFailure(w) ==
  LET t == worker[w].item.thought
  IN  /\ worker[w].phase = "record"
      /\ queue' = IF Queued(t)
                  THEN [queue EXCEPT ![t] = Failed(@, worker[w].read + 1)]
                  ELSE queue
      /\ worker' = [worker EXCEPT ![w] = Counted(w)]
      /\ UNCHANGED <<thought, vec, ahead, faults, late>>

\* Mutant: what was skipped is taken off the queue with what was stored.
Dequeue_Skipped(w) ==
  LET done == worker[w].stored \cup {s.thought : s \in worker[w].retry}
  IN  /\ worker[w].phase = "store" /\ worker[w].batch = {}
      /\ queue' = [t \in Thought |-> IF t \in done THEN Out ELSE queue[t]]
      /\ ahead' = Without(done)
      /\ worker' = [worker EXCEPT ![w] = Resting]
      /\ UNCHANGED <<thought, vec, faults, late>>

\* deleteFromQueue: by id, whatever row is there by now.
Dequeue(w) ==
  LET done == worker[w].stored
  IN  /\ worker[w].phase = "store" /\ worker[w].batch = {} /\ worker[w].retry = {}
      /\ queue' = [t \in Thought |-> IF t \in done THEN Out ELSE queue[t]]
      /\ ahead' = Without(done)
      /\ worker' = [worker EXCEPT ![w] = Resting]
      /\ UNCHANGED <<thought, vec, faults, late>>

\* The model throws, a queue statement throws, or the process goes away (a
\* crash, the idle exit, a shutdown): the rest of the batch is forgotten.
Forget(w) ==
  /\ worker[w].phase # "poll" /\ faults < MaxFaults
  /\ worker' = [worker EXCEPT ![w] = Resting]
  /\ faults' = faults + 1
  /\ UNCHANGED <<thought, vec, queue, ahead, late>>

-----------------------------------------------------------------------------
(* The sweep and the restart.                                              *)

\* Mutant: only thoughts that were never edited are looked for.
Orphans_Unedited == {t \in Thought : thought[t].status = "active" /\ vec[t] = NoVector
                                     /\ ~Queued(t) /\ thought[t].text = 0}

\* Existing, not archived, neither embedded nor queued.
Orphans == {t \in Thought : thought[t].status = "active" /\ vec[t] = NoVector
                            /\ ~Queued(t)}

\* The timer fires between batches or while the model is awaited.
Sweep(w) ==
  /\ worker[w].phase \in {"poll", "embed"} /\ Awake(w)
  /\ \E S \in SUBSET Orphans :
       /\ S # {} /\ Cardinality(S) <= BatchSize
       /\ S = Orphans \/ Cardinality(S) = BatchSize
       /\ worker' = [worker EXCEPT ![w].orphans = S]
  /\ UNCHANGED <<thought, vec, queue, ahead, faults, late>>

\* Mutant: INSERT OR REPLACE.
Requeue_Replaces(w) ==
  LET S == worker[w].orphans
  IN  /\ ~Awake(w)
      /\ worker' = [worker EXCEPT ![w].orphans = {}]
      /\ IF \A t \in S : Exists(t)
         THEN /\ queue' = [t \in Thought |-> IF t \in S THEN Fresh ELSE queue[t]]
              /\ ahead' = BehindAll(S)
         ELSE UNCHANGED <<queue, ahead>>
      /\ UNCHANGED <<thought, vec, faults, late>>

\* requeueEmbeddings, in one transaction: INSERT OR IGNORE, so rows queued by
\* now stay as they are; a thought deleted by now fails the foreign key and
\* with it the whole transaction.
Requeue(w) ==
  LET S == worker[w].orphans
      new == {t \in S : ~Queued(t)}
  IN  /\ ~Awake(w)
      /\ worker' = [worker EXCEPT ![w].orphans = {}]
      /\ IF \A t \in S : Exists(t)
         THEN /\ queue' = [t \in Thought |-> IF t \in new THEN Fresh ELSE queue[t]]
              /\ ahead' = BehindAll(new)
         ELSE UNCHANGED <<queue, ahead>>
      /\ UNCHANGED <<thought, vec, faults, late>>

\* A process opens the database with resetDeadLetters: the attempts stay.
Restart ==
  /\ ResetDeadLetters /\ faults < MaxFaults
  /\ \E t \in Thought : queue[t].state = "dead"
  /\ queue' = [t \in Thought |-> IF queue[t].state = "dead"
                                 THEN [queue[t] EXCEPT !.state = "waiting"]
                                 ELSE queue[t]]
  /\ faults' = faults + 1
  /\ UNCHANGED <<thought, vec, ahead, worker, late>>

-----------------------------------------------------------------------------

Init ==
  /\ thought \in [Thought -> {[status |-> "new", text |-> 0, project |-> p] :
                                p \in Project}]
  /\ vec = [t \in Thought |-> NoVector]
  /\ queue = [t \in Thought |-> Out]
  /\ ahead = {}
  /\ worker = [w \in Worker |-> Resting]
  /\ faults = 0 /\ late = {}

ServerNext ==
  \E t \in Thought :
    \/ Create(t)
    \/ Edit(t)
    \/ \E p \in Project : Move(t, p)
    \/ \E st \in {"active", "archived"} : SetStatus(t, st)
    \/ DropVector(t)
    \/ Delete(t)

\* What a running worker does on its own, one statement after the other.
Work(w) ==
  \/ Poll(w)
  \/ Embedded(w)
  \/ \E s \in worker[w].batch : CheckItem(w, s)
  \/ ClearItem(w)
  \/ InsertItem(w)
  \/ \E s \in worker[w].retry : CountFailure(w, s)
  \/ RecordFailure(w)
  \/ Dequeue(w)
  \/ Requeue(w)

WorkerNext == \E w \in Worker : Work(w) \/ Sweep(w) \/ StoreFails(w) \/ Forget(w)

Next == ServerNext \/ WorkerNext \/ Restart

Spec == Init /\ [][Next]_vars

\* The poll and sweep timers keep firing, and the model answers in the end.
Fairness == \A w \in Worker : WF_vars(Work(w)) /\ WF_vars(Sweep(w))

FairSpec == Spec /\ Fairness

-----------------------------------------------------------------------------

\* A vector made from older content is always announced by a queue row, except
\* when the content was edited after a worker's hash check of that very thought
\* and before the worker took it off the queue.  An edit at any other moment --
\* before, during or after embedding, by any number of workers -- is noticed.
SignalLostOnlyInWindow ==
  \A t \in Thought : Exists(t) /\ vec[t] # NoVector /\ vec[t] # thought[t].text
                       => Queued(t) \/ t \in late

\* No vector outlives its thought, unless the thought was deleted while a
\* worker held a snapshot of it.
GhostsOnlyFromWindow ==
  \A t \in Thought : thought[t].status = "gone" /\ vec[t] # NoVector => t \in late

\* A row that has used up its attempts is not handed to a worker again, even
\* if an edit came between reading and writing the attempts.
LimitMeansDead ==
  \A t \in Thought : queue[t].state = "waiting" => queue[t].attempts < MaxAttempts

\* Only an edit, a delete or a successful store takes a dead letter away: no
\* sweep does, however long ago it looked.
DeadLettersStay ==
  [][\A t \in Thought : queue[t].state = "dead" /\ queue'[t].state # "dead" =>
       \/ thought'[t].text # thought[t].text
       \/ thought'[t].status = "gone"
       \/ \E w \in Worker : t \in worker[w].stored]_vars

StatusSettles == [][\A t \in Thought : thought'[t].status = thought[t].status]_thought

\* Once edits, faults and changes of status are over, every active thought ends
\* up with a vector of its current content, or as a dead letter -- whatever was
\* lost to crashes, half-finished deletes and busy statements on the way.
EventuallyFresh ==
  <>StatusSettles =>
    \A t \in Thought :
      <>[](thought[t].status = "active" =>
             vec[t] = thought[t].text \/ queue[t].state = "dead" \/ t \in late)

\* A stale vector is always announced by a queue row.
FreshnessSignal ==
  \A t \in Thought : Exists(t) /\ vec[t] # NoVector /\ vec[t] # thought[t].text
                       => Queued(t)
=============================================================================
