----------------------- MODULE EmbeddingPipeline_proofs -----------------------
(***************************************************************************)
(* Theorems about EmbeddingPipeline, for any number of thoughts, projects  *)
(* and workers.                                                            *)
(***************************************************************************)
EXTENDS EmbeddingPipeline, TLAPS

USE DEF NoVector

(* What the steps do to a worker's record and to the queue. *)

\* What the phase of a worker says of its fields.
LEMMA WorkerTypes ==
  ASSUME TypeOK, NEW w \in Worker
  PROVE  /\ worker[w] \in WorkerRec
         /\ worker[w].batch \subseteq Snapshot
         /\ worker[w].retry \subseteq Snapshot
         /\ worker[w].stored \subseteq Thought
         /\ worker[w].orphans \subseteq Thought
         /\ worker[w].item \in Snapshot \cup {NoItem}
         /\ worker[w].read \in Nat
BY DEF TypeOK, WorkerRec

\* A worker that rests is a worker.
LEMMA RestingTyped == Resting \in WorkerRec
BY DEF Resting, WorkerRec

\* What a worker reads of a thought is a snapshot.
LEMMA SnapshotTyped ==
  ASSUME TypeOK, NEW t \in Thought
  PROVE  SnapshotOf(t) \in Snapshot
BY DEF TypeOK, ThoughtRec, Snapshot, SnapshotOf

\* The order of the queue after a row is put last is one of thoughts.
LEMMA BehindAllTyped ==
  ASSUME TypeOK, NEW S \in SUBSET Thought
  PROVE  BehindAll(S) \subseteq Thought \X Thought
BY DEF TypeOK, BehindAll

\* So is the order after a row is taken out.
LEMMA WithoutTyped ==
  ASSUME TypeOK, NEW S
  PROVE  Without(S) \subseteq Thought \X Thought
BY DEF TypeOK, Without

\* The rows the actions write are rows.
LEMMA FreshTyped == Fresh \in QueueRow /\ Out \in QueueRow
BY DEF Fresh, Out, QueueRow

-----------------------------------------------------------------------------

\* A row being stored always has a snapshot.
ItemThere ==
  \A w \in Worker : worker[w].phase \in {"clear", "insert", "record"}
                      => worker[w].item \in Snapshot

Typed == TypeOK /\ ItemThere

\* One worker moves on: what has to be shown of its new record.
LEMMA WorkerMoves ==
  ASSUME Typed, NEW w \in Worker, NEW r \in WorkerRec,
         worker' = [worker EXCEPT ![w] = r],
         r.phase \in {"clear", "insert", "record"} => r.item \in Snapshot
  PROVE  worker' \in [Worker -> WorkerRec] /\ ItemThere'
BY DEF Typed, TypeOK, ItemThere

\* A worker that accepted or skipped a snapshot is a worker.
LEMMA CheckedTyped ==
  ASSUME TypeOK, NEW w \in Worker, NEW s \in Snapshot
  PROVE  /\ Accepted(w, s) \in WorkerRec /\ Skipped(w, s) \in WorkerRec
         /\ Accepted(w, s).item = s
         /\ Skipped(w, s).phase = worker[w].phase
<1>1. Accepted(w, s) \in WorkerRec /\ Accepted(w, s).item = s
  BY WorkerTypes DEF Accepted, WorkerRec
<1>2. Skipped(w, s) \in WorkerRec /\ Skipped(w, s).phase = worker[w].phase
  BY WorkerTypes DEF Skipped, WorkerRec
<1> QED BY <1>1, <1>2

\* So is one that stored a vector, or could not,
LEMMA WrittenTyped ==
  ASSUME TypeOK, NEW w \in Worker, worker[w].item \in Snapshot
  PROVE  /\ Stored(w) \in WorkerRec /\ Unstored(w) \in WorkerRec
         /\ Stored(w).phase = "store" /\ Unstored(w).phase = "store"
<1>1. worker[w].item.thought \in Thought  BY DEF Snapshot
<1>2. Stored(w) \in WorkerRec /\ Stored(w).phase = "store"
  BY <1>1, WorkerTypes DEF Stored, WorkerRec
<1>3. Unstored(w) \in WorkerRec /\ Unstored(w).phase = "store"
  BY WorkerTypes DEF Unstored, WorkerRec
<1> QED BY <1>2, <1>3

\* and one that counts an attempt.
LEMMA CountingTyped ==
  ASSUME TypeOK, NEW w \in Worker, NEW s \in Snapshot
  PROVE  /\ Counting(w, s) \in WorkerRec /\ Counted(w) \in WorkerRec
         /\ Counting(w, s).item = s /\ Counted(w).phase = "store"
<1>1. queue[s.thought].attempts \in Nat  BY DEF TypeOK, QueueRow, Snapshot
<1>2. Counting(w, s) \in WorkerRec /\ Counting(w, s).item = s
  BY <1>1, WorkerTypes DEF Counting, WorkerRec
<1>3. Counted(w) \in WorkerRec /\ Counted(w).phase = "store"
  BY WorkerTypes DEF Counted, WorkerRec
<1> QED BY <1>2, <1>3

\* Every variable keeps its type, and a worker that stores or counts a row has
\* one: the shape of the rows, snapshots and batches of the pipeline.
LEMMA TypedInit == Init => Typed
<1> SUFFICES ASSUME Init PROVE Typed  OBVIOUS
<1>1. thought \in [Thought -> ThoughtRec]
  BY BoundsAssumption DEF Init, ThoughtRec
<1>2. worker \in [Worker -> WorkerRec] /\ ItemThere
  BY RestingTyped DEF Init, ItemThere, Resting
<1>3. queue \in [Thought -> QueueRow]
  BY FreshTyped DEF Init
<1> QED BY <1>1, <1>2, <1>3, BoundsAssumption DEF Init, Typed, TypeOK

\* The types are kept.
LEMMA TypedStep == Typed /\ [Next]_vars => Typed'
<1> SUFFICES ASSUME Typed, [Next]_vars PROVE Typed'  OBVIOUS
<1> USE DEF Typed
<1>0. CASE UNCHANGED vars
  BY <1>0 DEF vars, TypeOK, ItemThere
<1>1. ASSUME NEW t \in Thought, Create(t) PROVE Typed'
  BY <1>1, FreshTyped, BehindAllTyped DEF Create, Replace, TypeOK, ThoughtRec, ItemThere
<1>2. ASSUME NEW t \in Thought, Edit(t) PROVE Typed'
  <2>1. thought' \in [Thought -> ThoughtRec]
    BY <1>2, BoundsAssumption DEF Edit, TypeOK, ThoughtRec
  <2> QED BY <1>2, <2>1, FreshTyped, BehindAllTyped DEF Edit, Replace, TypeOK, ItemThere
<1>3. ASSUME NEW t \in Thought, NEW p \in Project, Move(t, p) PROVE Typed'
  BY <1>3 DEF Move, TypeOK, ThoughtRec, ItemThere
<1>4. ASSUME NEW t \in Thought, NEW st \in {"active", "archived"}, SetStatus(t, st)
      PROVE  Typed'
  BY <1>4 DEF SetStatus, TypeOK, ThoughtRec, ItemThere
<1>5. ASSUME NEW t \in Thought, DropVector(t) PROVE Typed'
  BY <1>5, BoundsAssumption DEF DropVector, TypeOK, ItemThere
<1>6. ASSUME NEW t \in Thought, Delete(t) PROVE Typed'
  BY <1>6, FreshTyped, WithoutTyped DEF Delete, TypeOK, ThoughtRec, ItemThere
<1>7. ASSUME NEW w \in Worker, Poll(w) PROVE Typed'
  <2>1. PICK S \in SUBSET Ready :
          worker' = [worker EXCEPT ![w] =
                      [@ EXCEPT !.phase = "embed", !.batch = {SnapshotOf(t) : t \in S}]]
    BY <1>7 DEF Poll
  <2> DEFINE B == {SnapshotOf(t) : t \in S}
             r == [worker[w] EXCEPT !.phase = "embed", !.batch = B]
  <2>2. B \in SUBSET Snapshot
    BY SnapshotTyped DEF Ready
  <2>3. worker' = [worker EXCEPT ![w] = r]
    BY <2>1
  <2> HIDE DEF B
  <2>4. r \in WorkerRec /\ r.phase = "embed"
    BY <2>2, WorkerTypes DEF WorkerRec
  <2> HIDE DEF r
  <2>5. worker' \in [Worker -> WorkerRec] /\ ItemThere'
    BY <2>3, <2>4, WorkerMoves
  <2> QED BY <1>7, <2>5 DEF Poll, TypeOK
<1>8. ASSUME NEW w \in Worker, Embedded(w) PROVE Typed'
  BY <1>8 DEF Embedded, TypeOK, WorkerRec, ItemThere
<1>9. ASSUME NEW w \in Worker, NEW s \in worker[w].batch, CheckItem(w, s) PROVE Typed'
  <2>1. s \in Snapshot  BY WorkerTypes
  <2>2. \/ worker' = [worker EXCEPT ![w] = Skipped(w, s)]
        \/ worker' = [worker EXCEPT ![w] = Accepted(w, s)]
    BY <1>9 DEF CheckItem
  <2>3. worker[w].phase = "store"
    BY <1>9 DEF CheckItem
  <2>4. worker' \in [Worker -> WorkerRec] /\ ItemThere'
    BY <2>1, <2>2, <2>3, CheckedTyped, WorkerMoves
  <2> QED BY <1>9, <2>4 DEF CheckItem, TypeOK
<1>10. ASSUME NEW w \in Worker, ClearItem(w) PROVE Typed'
  <2>1. worker' \in [Worker -> WorkerRec] /\ ItemThere'
    BY <1>10 DEF ClearItem, ItemThere, TypeOK, WorkerRec
  <2> QED BY <1>10, <2>1 DEF ClearItem, TypeOK
<1>11. ASSUME NEW w \in Worker, InsertItem(w) PROVE Typed'
  <2>1. worker[w].item \in Snapshot  BY <1>11 DEF InsertItem, ItemThere
  <2>2. \/ worker' = [worker EXCEPT ![w] = Stored(w)]
        \/ worker' = [worker EXCEPT ![w] = Unstored(w)]
    BY <1>11 DEF InsertItem
  <2>3. worker' \in [Worker -> WorkerRec] /\ ItemThere'
    BY <2>1, <2>2, WrittenTyped, WorkerMoves
  <2>4. vec' \in [Thought -> (0 .. MaxText) \cup {NoVector}]
    BY <1>11, <2>1 DEF InsertItem, TypeOK, Snapshot
  <2> QED BY <1>11, <2>3, <2>4 DEF InsertItem, TypeOK
<1>12. ASSUME NEW w \in Worker, StoreFails(w) PROVE Typed'
  <2>1. worker[w].item \in Snapshot  BY <1>12 DEF StoreFails, ItemThere
  <2>2. worker' = [worker EXCEPT ![w] = Unstored(w)]
    BY <1>12 DEF StoreFails
  <2>3. worker' \in [Worker -> WorkerRec] /\ ItemThere'
    BY <2>1, <2>2, WrittenTyped, WorkerMoves
  <2>4. faults' \in 0 .. MaxFaults
    BY <1>12, BoundsAssumption DEF StoreFails, TypeOK
  <2> QED BY <1>12, <2>3, <2>4 DEF StoreFails, TypeOK
<1>13. ASSUME NEW w \in Worker, NEW s \in worker[w].retry, CountFailure(w, s) PROVE Typed'
  <2>1. s \in Snapshot  BY WorkerTypes
  <2>2. worker' = [worker EXCEPT ![w] = Counting(w, s)]
    BY <1>13 DEF CountFailure
  <2>3. worker' \in [Worker -> WorkerRec] /\ ItemThere'
    BY <2>1, <2>2, CountingTyped, WorkerMoves
  <2> QED BY <1>13, <2>3 DEF CountFailure, TypeOK
<1>14. ASSUME NEW w \in Worker, RecordFailure(w) PROVE Typed'
  <2>1. worker[w].item \in Snapshot  BY <1>14 DEF RecordFailure, ItemThere
  <2>0. worker' = [worker EXCEPT ![w] = Counted(w)]
    BY <1>14 DEF RecordFailure
  <2>2. worker' \in [Worker -> WorkerRec] /\ ItemThere'
    BY <2>0, <2>1, CountingTyped, WorkerMoves
  <2> DEFINE t == worker[w].item.thought
  <2>3. t \in Thought /\ worker[w].read \in Nat
    BY <2>1, WorkerTypes DEF Snapshot
  <2>4. Failed(queue[t], worker[w].read + 1) \in QueueRow
    BY <2>3 DEF Failed, TypeOK, QueueRow
  <2>5. queue' \in [Thought -> QueueRow]
    BY <1>14, <2>4 DEF RecordFailure, TypeOK
  <2> QED BY <1>14, <2>2, <2>5 DEF RecordFailure, TypeOK
<1>15. ASSUME NEW w \in Worker, Dequeue(w) PROVE Typed'
  <2>1. worker' \in [Worker -> WorkerRec] /\ ItemThere'
    BY <1>15, RestingTyped DEF Dequeue, ItemThere, TypeOK, Resting
  <2>2. queue' \in [Thought -> QueueRow]
    BY <1>15, FreshTyped DEF Dequeue, TypeOK
  <2> QED BY <1>15, <2>1, <2>2, WithoutTyped DEF Dequeue, TypeOK
<1>16. ASSUME NEW w \in Worker, Requeue(w) PROVE Typed'
  <2>1. worker' \in [Worker -> WorkerRec] /\ ItemThere'
    BY <1>16 DEF Requeue, ItemThere, TypeOK, WorkerRec
  <2>2. queue' \in [Thought -> QueueRow]
    BY <1>16, FreshTyped DEF Requeue, TypeOK
  <2>3. {t \in worker[w].orphans : ~Queued(t)} \in SUBSET Thought
    BY WorkerTypes
  <2>4. ahead' \subseteq Thought \X Thought
    BY <1>16, <2>3, BehindAllTyped DEF Requeue, TypeOK
  <2> QED BY <1>16, <2>1, <2>2, <2>4 DEF Requeue, TypeOK
<1>17. ASSUME NEW w \in Worker, Sweep(w) PROVE Typed'
  <2>1. PICK S \in SUBSET Orphans : worker' = [worker EXCEPT ![w].orphans = S]
    BY <1>17 DEF Sweep
  <2>2. worker' \in [Worker -> WorkerRec] /\ ItemThere'
    BY <2>1 DEF Orphans, ItemThere, TypeOK, WorkerRec
  <2> QED BY <1>17, <2>2 DEF Sweep, TypeOK
<1>18. ASSUME NEW w \in Worker, Forget(w) PROVE Typed'
  <2>1. worker' \in [Worker -> WorkerRec] /\ ItemThere'
    BY <1>18, RestingTyped DEF Forget, ItemThere, TypeOK, Resting
  <2>2. faults' \in 0 .. MaxFaults
    BY <1>18, BoundsAssumption DEF Forget, TypeOK
  <2> QED BY <1>18, <2>1, <2>2 DEF Forget, TypeOK
<1>19. CASE Restart
  <2>1. queue' \in [Thought -> QueueRow]
    BY <1>19 DEF Restart, TypeOK, QueueRow
  <2> QED BY <1>19, <2>1, BoundsAssumption DEF Restart, TypeOK, ItemThere
<1> QED
  BY <1>0, <1>1, <1>2, <1>3, <1>4, <1>5, <1>6, <1>7, <1>8, <1>9, <1>10, <1>11,
     <1>12, <1>13, <1>14, <1>15, <1>16, <1>17, <1>18, <1>19
  DEF Next, ServerNext, WorkerNext, Work

\* Whatever the interleaving of servers and workers, every variable keeps its
\* type.
THEOREM PipelineTypeCorrect == Spec => []TypeOK
<1>1. Typed => TypeOK  BY DEF Typed
<1> QED BY <1>1, TypedInit, TypedStep, PTL DEF Spec

-----------------------------------------------------------------------------
(* The freshness signal.  A row of a batch belongs to a thought that exists *)
(* or was deleted under the worker's hands; past the hash check the text in *)
(* hand, and later the vector, is the current one unless an edit came late. *)

Started(t) == Exists(t) \/ (thought[t].status = "gone" /\ t \in late)

Settled(t, x) == Exists(t) => x = thought[t].text \/ t \in late

RecordOK(r) ==
  /\ \A s \in r.batch : Started(s.thought)
  /\ r.phase \in {"clear", "insert"} =>
       Started(r.item.thought) /\ Settled(r.item.thought, r.item.text)
  /\ \A t \in r.stored :
       thought[t].status # "new" /\ (vec[t] # NoVector => Settled(t, vec[t]))

QueuedExist == \A t \in Thought : Queued(t) => Exists(t)

WorkersOK == \A w \in Worker : RecordOK(worker[w])

Windows == QueuedExist /\ WorkersOK /\ SignalLostOnlyInWindow /\ GhostsOnlyFromWindow

\* A worker moves on and the tables its record is about stay.
LEMMA WorkerAlone ==
  ASSUME Typed, WorkersOK, NEW w \in Worker, NEW r, RecordOK(r),
         worker' = [worker EXCEPT ![w] = r], UNCHANGED <<thought, vec, late>>
  PROVE  WorkersOK'
<1> SUFFICES ASSUME NEW v \in Worker PROVE RecordOK(worker[v])'
  BY DEF WorkersOK
<1>1. CASE v = w
  <2>1. worker'[v] = r  BY <1>1 DEF Typed, TypeOK
  <2> QED BY <2>1 DEF RecordOK, Started, Settled, Exists
<1>2. CASE v # w
  <2>1. worker'[v] = worker[v]  BY <1>2 DEF Typed, TypeOK
  <2>2. RecordOK(worker[v])  BY DEF WorkersOK
  <2> QED BY <2>1, <2>2 DEF RecordOK, Started, Settled, Exists
<1> QED BY <1>1, <1>2

\* No worker moves: its record stays in order if what is known of the thoughts
\* it names is.
LEMMA WorkersStay ==
  ASSUME Typed, WorkersOK, UNCHANGED worker,
         \A t \in Thought :
           /\ Holding(t) # {} /\ Started(t) => Started(t)'
           /\ thought[t].status # "new" => thought'[t].status # "new"
           /\ \A x : thought[t].status # "new" /\ Committed(t) # {} /\ Settled(t, x)
                      => Settled(t, x)'
           /\ vec'[t] \in {vec[t], NoVector}
  PROVE  WorkersOK'
<1> SUFFICES ASSUME NEW v \in Worker PROVE RecordOK(worker[v])'
  BY DEF WorkersOK
<1> DEFINE r == worker[v]
<1>0. RecordOK(r) /\ worker'[v] = r  BY DEF WorkersOK
<1>1. ASSUME NEW s \in r.batch PROVE Started(s.thought)'
  <2>1. s.thought \in Thought  BY WorkerTypes DEF Typed, Snapshot
  <2>2. v \in Holding(s.thought)  BY DEF Holding
  <2> QED BY <1>0, <2>1, <2>2 DEF RecordOK
<1>2. ASSUME r.phase \in {"clear", "insert"}
      PROVE  Started(r.item.thought)' /\ Settled(r.item.thought, r.item.text)'
  <2>1. r.item.thought \in Thought  BY <1>2 DEF Typed, ItemThere, Snapshot
  <2>2. v \in Holding(r.item.thought) /\ v \in Committed(r.item.thought)
    BY <1>2 DEF Holding, Committed
  <2>3. Started(r.item.thought) /\ Settled(r.item.thought, r.item.text)
    BY <1>0, <1>2 DEF RecordOK
  <2>4. thought[r.item.thought].status # "new"
    BY <2>3 DEF Started, Exists
  <2> QED BY <2>1, <2>2, <2>3, <2>4
<1>3. ASSUME NEW t \in r.stored
      PROVE  thought'[t].status # "new" /\ (vec'[t] # NoVector => Settled(t, vec[t])')
  <2>1. t \in Thought  BY WorkerTypes DEF Typed
  <2>2. v \in Committed(t)  BY DEF Committed
  <2>3. thought[t].status # "new" /\ (vec[t] # NoVector => Settled(t, vec[t]))
    BY <1>0 DEF RecordOK
  <2>4. ASSUME vec'[t] # NoVector PROVE Settled(t, vec[t])'
    <3>1. vec'[t] = vec[t] /\ Settled(t, vec[t])  BY <2>1, <2>3, <2>4
    <3>2. \A x : Settled(t, x) => Settled(t, x)'  BY <2>1, <2>2, <2>3
    <3> QED BY <3>1, <3>2 DEF Settled, Exists
  <2> QED BY <2>1, <2>3, <2>4
<1>4. worker' = worker  OBVIOUS
<1> QED BY <1>1, <1>2, <1>3, <1>4 DEF RecordOK

\* A worker writes or clears the vector of a thought.
LEMMA VectorWritten ==
  ASSUME Typed, WorkersOK, NEW w \in Worker, NEW r, NEW u \in Thought, NEW x,
         thought[u].status # "new", x # NoVector => Settled(u, x),
         worker' = [worker EXCEPT ![w] = r], vec' = [vec EXCEPT ![u] = x],
         UNCHANGED <<thought, late>>,
         r.batch \subseteq worker[w].batch,
         r.stored \subseteq worker[w].stored \cup {u},
         r.phase \in {"clear", "insert"} =>
           worker[w].phase \in {"clear", "insert"} /\ r.item = worker[w].item
  PROVE  WorkersOK'
<1> SUFFICES ASSUME NEW v \in Worker PROVE RecordOK(worker[v])'
  BY DEF WorkersOK
<1>1. RecordOK(worker[v])  BY DEF WorkersOK
<1>2. worker'[v] = IF v = w THEN r ELSE worker[v]  BY DEF Typed, TypeOK
<1>3. worker[v].stored \subseteq Thought  BY WorkerTypes DEF Typed
<1>4. \A t \in Thought : vec'[t] = IF t = u THEN x ELSE vec[t]  BY DEF Typed, TypeOK
<1>5. \A s \in worker'[v].batch : Started(s.thought)'
  BY <1>1, <1>2 DEF RecordOK, Started, Exists
<1>6. worker'[v].phase \in {"clear", "insert"} =>
        Started(worker[v].item.thought)' /\ Settled(worker[v].item.thought, worker[v].item.text)'
  BY <1>1, <1>2 DEF RecordOK, Started, Settled, Exists
<1>7. ASSUME NEW t \in worker'[v].stored
      PROVE  thought'[t].status # "new" /\ (vec'[t] # NoVector => Settled(t, vec[t])')
  <2>1. t = u \/ t \in worker[v].stored  BY <1>2
  <2> QED BY <1>1, <1>3, <1>4, <2>1 DEF RecordOK, Settled, Exists
<1> QED BY <1>5, <1>6, <1>7 DEF RecordOK

\* A worker that rests has read nothing.
LEMMA RestingOK == RecordOK(Resting)
BY DEF RecordOK, Resting

\* No worker has read anything in the beginning.
LEMMA WindowsInit == Init => Windows
<1> SUFFICES ASSUME Init PROVE Windows  OBVIOUS
<1>1. WorkersOK
  BY RestingOK DEF Init, WorkersOK
<1> QED
  BY <1>1 DEF Init, Windows, QueuedExist, Queued, Out, Exists,
              SignalLostOnlyInWindow, GhostsOnlyFromWindow

\* What a worker has read is consistent with the two windows of its batch.
LEMMA WindowsStep == Typed /\ Windows /\ [Next]_vars => Windows'
<1> SUFFICES ASSUME Typed, Windows, [Next]_vars PROVE Windows'  OBVIOUS
<1> USE DEF Windows
<1> DEFINE Tables == (QueuedExist /\ SignalLostOnlyInWindow /\ GhostsOnlyFromWindow)'
<1>0. CASE UNCHANGED vars
  BY <1>0 DEF vars, QueuedExist, Queued, WorkersOK, RecordOK, Started, Settled, Exists,
              SignalLostOnlyInWindow, GhostsOnlyFromWindow
<1>1. ASSUME NEW t \in Thought, Create(t) PROVE Windows'
  <2>1. Tables
    BY <1>1 DEF Create, Replace, Fresh, Typed, TypeOK, ThoughtRec, QueuedExist, Queued,
                Exists, SignalLostOnlyInWindow, GhostsOnlyFromWindow
  <2>2. WorkersOK'
    BY <1>1, WorkersStay DEF Create, Typed, TypeOK, ThoughtRec, Started, Settled, Exists
  <2> QED BY <2>1, <2>2
<1>2. ASSUME NEW t \in Thought, Edit(t) PROVE Windows'
  <2>1. Tables
    BY <1>2 DEF Edit, Replace, Fresh, Typed, TypeOK, ThoughtRec, QueuedExist, Queued,
                Exists, SignalLostOnlyInWindow, GhostsOnlyFromWindow
  <2>2. WorkersOK'
    BY <1>2, WorkersStay DEF Edit, Typed, TypeOK, ThoughtRec, Started, Settled, Exists
  <2> QED BY <2>1, <2>2
<1>3. ASSUME NEW t \in Thought, NEW p \in Project, Move(t, p) PROVE Windows'
  <2>1. Tables
    BY <1>3 DEF Move, Typed, TypeOK, ThoughtRec, QueuedExist, Queued,
                Exists, SignalLostOnlyInWindow, GhostsOnlyFromWindow
  <2>2. WorkersOK'
    BY <1>3, WorkersStay DEF Move, Typed, TypeOK, ThoughtRec, Started, Settled, Exists
  <2> QED BY <2>1, <2>2
<1>4. ASSUME NEW t \in Thought, NEW st \in {"active", "archived"}, SetStatus(t, st)
      PROVE  Windows'
  <2>1. Tables
    BY <1>4 DEF SetStatus, Typed, TypeOK, ThoughtRec, QueuedExist, Queued,
                Exists, SignalLostOnlyInWindow, GhostsOnlyFromWindow
  <2>2. WorkersOK'
    BY <1>4, WorkersStay DEF SetStatus, Typed, TypeOK, ThoughtRec, Started, Settled, Exists
  <2> QED BY <2>1, <2>2
<1>5. ASSUME NEW t \in Thought, DropVector(t) PROVE Windows'
  <2>1. Tables
    BY <1>5 DEF DropVector, Typed, TypeOK, QueuedExist, Queued,
                Exists, SignalLostOnlyInWindow, GhostsOnlyFromWindow
  <2>2. WorkersOK'
    BY <1>5, WorkersStay DEF DropVector, Typed, TypeOK, Started, Settled, Exists
  <2> QED BY <2>1, <2>2
<1>6. ASSUME NEW t \in Thought, Delete(t) PROVE Windows'
  <2>1. Tables
    BY <1>6 DEF Delete, Out, Typed, TypeOK, ThoughtRec, QueuedExist, Queued,
                Exists, SignalLostOnlyInWindow, GhostsOnlyFromWindow
  <2>2. WorkersOK'
    BY <1>6, WorkersStay DEF Delete, Typed, TypeOK, ThoughtRec, Started, Settled, Exists
  <2> QED BY <2>1, <2>2
<1>7. ASSUME NEW w \in Worker, Poll(w) PROVE Windows'
  <2>1. PICK S \in SUBSET Ready :
          worker' = [worker EXCEPT ![w] =
                      [@ EXCEPT !.phase = "embed", !.batch = {SnapshotOf(t) : t \in S}]]
    BY <1>7 DEF Poll
  <2> DEFINE B == {SnapshotOf(t) : t \in S}
             r == [worker[w] EXCEPT !.phase = "embed", !.batch = B]
  <2>2. \A s \in B : Started(s.thought)
    BY DEF Ready, QueuedExist, Queued, Started, SnapshotOf
  <2>3. worker' = [worker EXCEPT ![w] = r]
    BY <2>1
  <2> HIDE DEF B
  <2>4. r.batch = B /\ r.phase = "embed" /\ r.stored = worker[w].stored
    BY WorkerTypes DEF Typed, WorkerRec
  <2> HIDE DEF r
  <2>5. RecordOK(r)
    BY <2>2, <2>4 DEF WorkersOK, RecordOK
  <2>6. WorkersOK'
    BY <1>7, <2>3, <2>5, WorkerAlone DEF Poll
  <2> QED BY <1>7, <2>6 DEF Poll, QueuedExist, Queued, Exists,
              SignalLostOnlyInWindow, GhostsOnlyFromWindow
<1>8. ASSUME NEW w \in Worker, Embedded(w) PROVE Windows'
  <2> DEFINE r == [worker[w] EXCEPT !.phase = "store"]
  <2>1. r.batch = worker[w].batch /\ r.phase = "store" /\ r.stored = worker[w].stored
    BY WorkerTypes DEF Typed, WorkerRec
  <2>2. worker' = [worker EXCEPT ![w] = r]
    BY <1>8 DEF Embedded, Typed, TypeOK
  <2> HIDE DEF r
  <2>3. RecordOK(r)  BY <2>1 DEF WorkersOK, RecordOK
  <2>4. WorkersOK'
    BY <1>8, <2>2, <2>3, WorkerAlone DEF Embedded
  <2> QED BY <1>8, <2>4 DEF Embedded, QueuedExist, Queued, Exists,
              SignalLostOnlyInWindow, GhostsOnlyFromWindow
<1>9. ASSUME NEW w \in Worker, NEW s \in worker[w].batch, CheckItem(w, s) PROVE Windows'
  <2>1. s \in Snapshot  BY WorkerTypes DEF Typed
  <2>2. worker[w].phase = "store" /\ Started(s.thought)
    BY <1>9 DEF CheckItem, WorkersOK, RecordOK
  <2>3. ASSUME worker' = [worker EXCEPT ![w] = Skipped(w, s)] PROVE WorkersOK'
    <3> DEFINE r == Skipped(w, s)
    <3>1. r.batch \subseteq worker[w].batch /\ r.phase = "store"
            /\ r.stored = worker[w].stored
      BY <2>2, WorkerTypes DEF Typed, Skipped, WorkerRec
    <3>2. worker' = [worker EXCEPT ![w] = r]  BY <2>3
    <3> HIDE DEF r
    <3>3. RecordOK(r)  BY <3>1 DEF WorkersOK, RecordOK
    <3> QED BY <1>9, <3>2, <3>3, WorkerAlone DEF CheckItem
  <2>4. ASSUME worker' = [worker EXCEPT ![w] = Accepted(w, s)],
               Exists(s.thought) => SnapshotOf(s.thought) = s
        PROVE  WorkersOK'
    <3> DEFINE r == Accepted(w, s)
    <3>1. r.batch \subseteq worker[w].batch /\ r.item = s /\ r.stored = worker[w].stored
      BY WorkerTypes DEF Typed, Accepted, WorkerRec
    <3>2. Settled(s.thought, s.text)
      BY <2>4 DEF Settled, SnapshotOf
    <3>3. worker' = [worker EXCEPT ![w] = r]  BY <2>4
    <3> HIDE DEF r
    <3>4. RecordOK(r)  BY <2>2, <3>1, <3>2 DEF WorkersOK, RecordOK
    <3> QED BY <1>9, <3>3, <3>4, WorkerAlone DEF CheckItem
  <2>5. WorkersOK'
    BY <1>9, <2>3, <2>4 DEF CheckItem
  <2> QED BY <1>9, <2>5 DEF CheckItem, QueuedExist, Queued, Exists,
              SignalLostOnlyInWindow, GhostsOnlyFromWindow
<1>10. ASSUME NEW w \in Worker, ClearItem(w) PROVE Windows'
  <2> DEFINE r == [worker[w] EXCEPT !.phase = "insert"]
             u == worker[w].item.thought
  <2>1. /\ r.batch = worker[w].batch /\ r.stored = worker[w].stored
        /\ r.item = worker[w].item
    BY WorkerTypes DEF Typed, WorkerRec
  <2>2. worker' = [worker EXCEPT ![w] = r] /\ vec' = [vec EXCEPT ![u] = NoVector]
    BY <1>10 DEF ClearItem, Typed, TypeOK
  <2>3. worker[w].phase = "clear"  BY <1>10 DEF ClearItem
  <2>4. u \in Thought  BY <2>3 DEF Typed, ItemThere, Snapshot
  <2>5. thought[u].status # "new"
    BY <2>3 DEF WorkersOK, RecordOK, Started, Exists
  <2>6. \A t \in Thought : vec'[t] = vec[t] \/ vec'[t] = NoVector
    BY <2>2, <2>4 DEF Typed, TypeOK
  <2>7. UNCHANGED <<thought, late>>  BY <1>10 DEF ClearItem
  <2> HIDE DEF r, u
  <2>8. WorkersOK'
    BY <2>1, <2>2, <2>3, <2>4, <2>5, <2>7, VectorWritten
  <2> QED BY <1>10, <2>6, <2>8 DEF ClearItem, QueuedExist, Queued, Exists,
              SignalLostOnlyInWindow, GhostsOnlyFromWindow
<1>11. ASSUME NEW w \in Worker, InsertItem(w) PROVE Windows'
  <2> DEFINE s == worker[w].item
             u == s.thought
  <2>1. worker[w].phase = "insert" /\ s \in Snapshot /\ u \in Thought
    BY <1>11 DEF InsertItem, Typed, ItemThere, Snapshot
  <2>2. Started(u) /\ Settled(u, s.text)
    BY <2>1 DEF WorkersOK, RecordOK
  <2>3. CASE /\ worker' = [worker EXCEPT ![w] = Stored(w)]
             /\ vec' = [vec EXCEPT ![u] = s.text]
    <3> DEFINE r == Stored(w)
    <3>1. /\ r.batch = worker[w].batch /\ r.phase = "store"
          /\ r.stored = worker[w].stored \cup {u}
      BY WorkerTypes DEF Typed, Stored, WorkerRec
    <3>2. worker' = [worker EXCEPT ![w] = r]  BY <2>3
    <3>3. thought[u].status # "new"  BY <2>2 DEF Started, Exists
    <3>4. \A t \in Thought : vec'[t] = IF t = u THEN s.text ELSE vec[t]
      BY <2>3 DEF Typed, TypeOK
    <3>5. UNCHANGED <<thought, queue, late>>  BY <1>11 DEF InsertItem
    <3> HIDE DEF r, u, s
    <3>6. WorkersOK'
      BY <2>1, <2>2, <2>3, <3>1, <3>2, <3>3, <3>5, VectorWritten
    <3> QED BY <2>2, <3>4, <3>5, <3>6 DEF QueuedExist, Queued, Exists, Started, Settled,
              SignalLostOnlyInWindow, GhostsOnlyFromWindow
  <2>4. CASE worker' = [worker EXCEPT ![w] = Unstored(w)] /\ UNCHANGED vec
    <3> DEFINE r == Unstored(w)
    <3>1. r.batch = worker[w].batch /\ r.phase = "store" /\ r.stored = worker[w].stored
      BY WorkerTypes DEF Typed, Unstored, WorkerRec
    <3>2. worker' = [worker EXCEPT ![w] = r]  BY <2>4
    <3> HIDE DEF r
    <3>3. RecordOK(r)  BY <3>1 DEF WorkersOK, RecordOK
    <3>4. WorkersOK'  BY <1>11, <2>4, <3>2, <3>3, WorkerAlone DEF InsertItem
    <3> QED BY <1>11, <2>4, <3>4 DEF InsertItem, QueuedExist, Queued, Exists,
              SignalLostOnlyInWindow, GhostsOnlyFromWindow
  <2> QED BY <1>11, <2>3, <2>4 DEF InsertItem
<1>12. ASSUME NEW w \in Worker, StoreFails(w) PROVE Windows'
  <2> DEFINE r == Unstored(w)
  <2>1. r.batch = worker[w].batch /\ r.phase = "store" /\ r.stored = worker[w].stored
    BY WorkerTypes DEF Typed, Unstored, WorkerRec
  <2>2. worker' = [worker EXCEPT ![w] = r]  BY <1>12 DEF StoreFails
  <2> HIDE DEF r
  <2>3. RecordOK(r)  BY <2>1 DEF WorkersOK, RecordOK
  <2>4. WorkersOK'  BY <1>12, <2>2, <2>3, WorkerAlone DEF StoreFails
  <2> QED BY <1>12, <2>4 DEF StoreFails, QueuedExist, Queued, Exists,
              SignalLostOnlyInWindow, GhostsOnlyFromWindow
<1>13. ASSUME NEW w \in Worker, NEW s \in worker[w].retry, CountFailure(w, s)
       PROVE  Windows'
  <2> DEFINE r == Counting(w, s)
  <2>1. r.batch = worker[w].batch /\ r.phase = "record" /\ r.stored = worker[w].stored
    BY WorkerTypes DEF Typed, Counting, WorkerRec
  <2>2. worker' = [worker EXCEPT ![w] = r]  BY <1>13 DEF CountFailure
  <2> HIDE DEF r
  <2>3. RecordOK(r)  BY <2>1 DEF WorkersOK, RecordOK
  <2>4. WorkersOK'  BY <1>13, <2>2, <2>3, WorkerAlone DEF CountFailure
  <2> QED BY <1>13, <2>4 DEF CountFailure, QueuedExist, Queued, Exists,
              SignalLostOnlyInWindow, GhostsOnlyFromWindow
<1>14. ASSUME NEW w \in Worker, RecordFailure(w) PROVE Windows'
  <2> DEFINE r == Counted(w)
  <2>1. r.batch = worker[w].batch /\ r.phase = "store" /\ r.stored = worker[w].stored
    BY WorkerTypes DEF Typed, Counted, WorkerRec
  <2>2. worker' = [worker EXCEPT ![w] = r]  BY <1>14 DEF RecordFailure
  <2> HIDE DEF r
  <2>3. RecordOK(r)  BY <2>1 DEF WorkersOK, RecordOK
  <2>4. WorkersOK'  BY <1>14, <2>2, <2>3, WorkerAlone DEF RecordFailure
  <2>5. \A t \in Thought : Queued(t)' <=> Queued(t)
    BY <1>14 DEF RecordFailure, Queued, Failed, Typed, TypeOK, QueueRow
  <2> QED BY <1>14, <2>4, <2>5 DEF RecordFailure, QueuedExist, Exists,
              SignalLostOnlyInWindow, GhostsOnlyFromWindow
<1>15. ASSUME NEW w \in Worker, Dequeue(w) PROVE Windows'
  <2>1. WorkersOK'
    BY <1>15, RestingOK, WorkerAlone DEF Dequeue
  <2>2. \A t \in Thought : Queued(t)' <=> Queued(t) /\ t \notin worker[w].stored
    BY <1>15 DEF Dequeue, Queued, Out
  <2>3. \A t \in worker[w].stored : vec[t] # NoVector => Settled(t, vec[t])
    BY DEF WorkersOK, RecordOK
  <2> QED BY <1>15, <2>1, <2>2, <2>3 DEF Dequeue, QueuedExist, Exists, Settled,
              SignalLostOnlyInWindow, GhostsOnlyFromWindow
<1>16. ASSUME NEW w \in Worker, Requeue(w) PROVE Windows'
  <2> DEFINE r == [worker[w] EXCEPT !.orphans = {}]
  <2>1. /\ r.batch = worker[w].batch /\ r.phase = worker[w].phase
        /\ r.stored = worker[w].stored /\ r.item = worker[w].item
    BY WorkerTypes DEF Typed, WorkerRec
  <2>2. worker' = [worker EXCEPT ![w] = r]  BY <1>16 DEF Requeue, Typed, TypeOK
  <2> HIDE DEF r
  <2>3. RecordOK(r)  BY <2>1 DEF WorkersOK, RecordOK
  <2>4. WorkersOK'  BY <1>16, <2>2, <2>3, WorkerAlone DEF Requeue
  <2>5. \A t \in Thought : /\ Queued(t) => Queued(t)'
                           /\ Queued(t)' => Queued(t) \/ Exists(t)
    BY <1>16 DEF Requeue, Queued, Fresh
  <2> QED BY <1>16, <2>4, <2>5 DEF Requeue, QueuedExist, Exists,
              SignalLostOnlyInWindow, GhostsOnlyFromWindow
<1>17. ASSUME NEW w \in Worker, Sweep(w) PROVE Windows'
  <2>1. PICK S : worker' = [worker EXCEPT ![w].orphans = S]  BY <1>17 DEF Sweep
  <2> DEFINE r == [worker[w] EXCEPT !.orphans = S]
  <2>2. /\ r.batch = worker[w].batch /\ r.phase = worker[w].phase
        /\ r.stored = worker[w].stored /\ r.item = worker[w].item
    BY WorkerTypes DEF Typed, WorkerRec
  <2>3. worker' = [worker EXCEPT ![w] = r]  BY <2>1 DEF Typed, TypeOK
  <2> HIDE DEF r
  <2>4. RecordOK(r)  BY <2>2 DEF WorkersOK, RecordOK
  <2>5. WorkersOK'  BY <1>17, <2>3, <2>4, WorkerAlone DEF Sweep
  <2> QED BY <1>17, <2>5 DEF Sweep, QueuedExist, Queued, Exists,
              SignalLostOnlyInWindow, GhostsOnlyFromWindow
<1>18. ASSUME NEW w \in Worker, Forget(w) PROVE Windows'
  <2>1. WorkersOK'  BY <1>18, RestingOK, WorkerAlone DEF Forget
  <2> QED BY <1>18, <2>1 DEF Forget, QueuedExist, Queued, Exists,
              SignalLostOnlyInWindow, GhostsOnlyFromWindow
<1>19. CASE Restart
  <2>1. \A t \in Thought : Queued(t)' <=> Queued(t)
    BY <1>19 DEF Restart, Queued, Typed, TypeOK, QueueRow
  <2>2. WorkersOK'
    BY <1>19 DEF Restart, WorkersOK, RecordOK, Started, Settled, Exists
  <2> QED BY <1>19, <2>1, <2>2 DEF Restart, QueuedExist, Exists,
              SignalLostOnlyInWindow, GhostsOnlyFromWindow
<1> HIDE DEF Windows
<1> QED
  BY <1>0, <1>1, <1>2, <1>3, <1>4, <1>5, <1>6, <1>7, <1>8, <1>9, <1>10, <1>11,
     <1>12, <1>13, <1>14, <1>15, <1>16, <1>17, <1>18, <1>19
  DEF Next, ServerNext, WorkerNext, Work

\* So it is always.
LEMMA WindowsAlways == Spec => []Windows
<1> QED BY TypedInit, TypedStep, WindowsInit, WindowsStep, PTL DEF Spec

\* With any number of workers on one database, a stored vector that does not
\* match the content of its thought is always announced by a queue row, but for
\* the window between a hash check and the DELETE from the queue.
THEOREM SignalKept == Spec => []SignalLostOnlyInWindow
<1>1. Windows => SignalLostOnlyInWindow  BY DEF Windows
<1> QED BY <1>1, WindowsAlways, PTL

\* A vector whose thought is gone was stored by a worker that held the thought
\* when it was deleted; no other order of steps leaves one behind.
THEOREM GhostsExplained == Spec => []GhostsOnlyFromWindow
<1>1. Windows => GhostsOnlyFromWindow  BY DEF Windows
<1> QED BY <1>1, WindowsAlways, PTL

-----------------------------------------------------------------------------

\* Unless a restart revives dead letters, which keep their attempts, a row that
\* is still handed to workers has attempts left: stale counts written over a
\* fresh row, and rows queued again by a sweep, included.
THEOREM LimitHolds == ASSUME ResetDeadLetters = FALSE
                      PROVE  Spec => []LimitMeansDead
<1>1. Init => LimitMeansDead
  BY DEF Init, LimitMeansDead, Out
<1>2. Typed /\ LimitMeansDead /\ [Next]_vars => LimitMeansDead'
  <2> SUFFICES ASSUME Typed, LimitMeansDead, [Next]_vars,
                      NEW t \in Thought, queue'[t].state = "waiting"
               PROVE  queue'[t].attempts < MaxAttempts
    BY DEF LimitMeansDead
  <2>1. CASE queue'[t] = queue[t]
    BY <2>1 DEF LimitMeansDead
  <2>2. CASE queue'[t] = Fresh \/ queue'[t] = Out
    BY <2>2, BoundsAssumption DEF Fresh, Out
  <2>3. CASE \E n \in Nat : queue'[t] = Failed(queue[t], n)
    BY <2>3, BoundsAssumption DEF Failed
  <2>4. QED
    <3>1. ASSUME NEW u \in Thought, Create(u) \/ Edit(u) \/ DropVector(u) \/ Delete(u)
          PROVE  queue'[t] \in {queue[t], Fresh, Out}
      BY <3>1 DEF Create, Edit, DropVector, Delete, Replace, Typed, TypeOK
    <3>2. ASSUME NEW w \in Worker, RecordFailure(w)
          PROVE  queue'[t] = queue[t] \/ \E n \in Nat : queue'[t] = Failed(queue[t], n)
      <4>1. worker[w].read + 1 \in Nat  BY WorkerTypes DEF Typed
      <4> QED BY <3>2, <4>1 DEF RecordFailure, Typed, TypeOK
    <3>3. ASSUME NEW w \in Worker, Dequeue(w) \/ Requeue(w)
          PROVE  queue'[t] \in {queue[t], Fresh, Out}
      BY <3>3 DEF Dequeue, Requeue
    <3>4. CASE UNCHANGED queue
      BY <3>4, <2>1
    <3>5. ~Restart  BY DEF Restart
    <3> QED
      BY <2>1, <2>2, <2>3, <3>1, <3>2, <3>3, <3>4, <3>5
      DEF Next, ServerNext, WorkerNext, Work, vars, Move, SetStatus, Poll, Embedded,
          CheckItem, ClearItem, InsertItem, CountFailure, Sweep, StoreFails, Forget
<1> QED BY <1>1, <1>2, TypedInit, TypedStep, PTL DEF Spec

\* And unless one does, a dead letter stays dead until its thought is edited or
\* deleted or a worker that has stored its vector takes it off the queue:
\* neither a late attempt count nor a sweep's requeue revives it, whatever the
\* other workers did in between.
THEOREM DeadLettersKept == ASSUME ResetDeadLetters = FALSE
                           PROVE  Spec => DeadLettersStay
<1> DEFINE Stays ==
      \A t \in Thought : queue[t].state = "dead" /\ queue'[t].state # "dead" =>
        \/ thought'[t].text # thought[t].text
        \/ thought'[t].status = "gone"
        \/ \E w \in Worker : t \in worker[w].stored
<1>1. Typed /\ Windows /\ [Next]_vars => [Stays]_vars
  <2> SUFFICES ASSUME Typed, Windows, [Next]_vars, NEW t \in Thought,
                      queue[t].state = "dead", queue'[t].state # "dead",
                      \A w \in Worker : t \notin worker[w].stored
               PROVE  thought'[t].text # thought[t].text \/ thought'[t].status = "gone"
    OBVIOUS
  <2>1. Queued(t) /\ thought[t].status # "new"
    BY DEF Queued, Windows, QueuedExist, Exists
  <2>2. ASSUME NEW u \in Thought, Create(u) PROVE FALSE
    BY <2>1, <2>2 DEF Create, Replace, Typed, TypeOK
  <2>3. ASSUME NEW u \in Thought, Edit(u) PROVE thought'[t].text # thought[t].text
    <3>1. t = u  BY <2>3 DEF Edit, Replace, Typed, TypeOK
    <3> QED BY <2>3, <3>1 DEF Edit, Typed, TypeOK, ThoughtRec
  <2>4. ASSUME NEW u \in Thought, Delete(u) PROVE thought'[t].status = "gone"
    <3>1. t = u  BY <2>4 DEF Delete, Typed, TypeOK
    <3> QED BY <2>4, <3>1 DEF Delete, Typed, TypeOK, ThoughtRec
  <2>5. ASSUME NEW w \in Worker, RecordFailure(w) PROVE FALSE
    BY <2>5 DEF RecordFailure, Failed, Typed, TypeOK
  <2>6. ASSUME NEW w \in Worker, Dequeue(w) PROVE FALSE
    BY <2>6 DEF Dequeue
  <2>7. ASSUME NEW w \in Worker, Requeue(w) PROVE FALSE
    BY <2>1, <2>7 DEF Requeue
  <2>8. queue' # queue
    OBVIOUS
  <2>9. ~Restart  BY DEF Restart
  <2> QED
    BY <2>2, <2>3, <2>4, <2>5, <2>6, <2>7, <2>8, <2>9
    DEF Next, ServerNext, WorkerNext, Work, vars, Move, SetStatus, DropVector, Poll, Embedded,
        CheckItem, ClearItem, InsertItem, CountFailure, Sweep, StoreFails, Forget
<1> QED BY <1>1, TypedInit, TypedStep, WindowsAlways, PTL DEF Spec, DeadLettersStay
=============================================================================
