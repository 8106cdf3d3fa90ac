----------------------- MODULE PlacementQueue_proofs -----------------------
(***************************************************************************)
(* Theorems about the placement review queue, for any set of processes,    *)
(* thoughts, ids and types and any caps and time to live.  First, that its *)
(* types hold and that graph and queue agree; then that every item has one *)
(* live row and nothing dangles; and at last what apply, reject and        *)
(* rollback do to reviewed rows when one process serves.                   *)
(***************************************************************************)
EXTENDS PlacementQueue, TLAPS

-----------------------------------------------------------------------------
(* The operators that build rows, jobs and edges stay within their types.  *)

\* The fingerprint of a pair is one, over whatever edges it is taken.
LEMMA PairFingerprintType ==
  ASSUME thought \in [Thought -> ThoughtRec],
         NEW es \in SUBSET Edge, NEW s \in Thought, NEW t \in Thought
  PROVE  PairFingerprint(es, s, t) \in Fingerprint
<1>1. Snap(s) \in Snapshot /\ Snap(t) \in Snapshot
  BY DEF ThoughtRec, Snap, Snapshot
<1>2. {e.type : e \in Between(es, s, t)} \subseteq EdgeType
  BY DEF Between, Edge
<1> QED BY <1>1, <1>2 DEF PairFingerprint, Fingerprint

\* Writing one column of a row leaves a row.
LEMMA RowColumn ==
  ASSUME NEW q \in Row
  PROVE  /\ \A x \in RowState : [q EXCEPT !.state = x] \in Row
         /\ \A x \in Int : [q EXCEPT !.decided = x] \in Row
         /\ \A x \in Int : [q EXCEPT !.expires = x] \in Row
         /\ \A x \in EdgeId \cup {Idempotent, NoResult} :
              [q EXCEPT !.result = x] \in Row
         /\ \A x \in RunId \cup {NoRun} : [q EXCEPT !.run = x] \in Row
         /\ \A x \in Fingerprint : [q EXCEPT !.fp = x] \in Row
  BY DEF Row

\* A decision, whatever it is, yields a row.
LEMMA DecideType ==
  ASSUME now \in Nat, NEW q \in Row, NEW st \in RowState
  PROVE  Decide(q, st) \in Row
<1> DEFINE a == [q EXCEPT !.state = st]
           b == [a EXCEPT !.decided = now]
           c == [b EXCEPT !.result = NoResult]
<1>1. a \in Row
  BY RowColumn
<1>2. b \in Row
  <2> HIDE DEF a
  <2> QED BY <1>1, RowColumn
<1>3. c \in Row
  <2> HIDE DEF b
  <2> QED BY <1>2, RowColumn
<1> QED BY <1>3 DEF Decide

\* So does putting the row back to pending.
LEMMA ReopenedType ==
  ASSUME now \in Nat, NEW q \in Row
  PROVE  Reopened(q) \in Row
<1>1. "pending" \in RowState /\ NoTime \in Int
  BY DEF RowState, NoTime
<1>2. Decide(q, "pending") \in Row
  BY <1>1, DecideType
<1> QED BY <1>1, <1>2, RowColumn DEF Reopened

\* So does accepting it, without an edge and with one.
LEMMA AcceptType ==
  ASSUME now \in Nat, thought \in [Thought -> ThoughtRec],
         NEW q \in Row, NEW run \in RunId \cup {NoRun},
         NEW es \in SUBSET Edge, NEW id \in EdgeId
  PROVE  AcceptIdempotent(q, run) \in Row /\ AcceptWith(q, run, es, id) \in Row
<1> DEFINE a == Decide(q, "accepted")
           b == [a EXCEPT !.run = run]
           c == [b EXCEPT !.result = id]
<1>1. a \in Row
  BY DecideType DEF RowState, Decided
<1>2. b \in Row
  <2> HIDE DEF a
  <2> QED BY <1>1, RowColumn
<1>3. c \in Row /\ [b EXCEPT !.result = Idempotent] \in Row
  <2> HIDE DEF b
  <2> QED BY <1>2, RowColumn
<1>4. PairFingerprint(es, q.src, q.dst) \in Fingerprint
  BY PairFingerprintType DEF Row
<1>5. [c EXCEPT !.fp = PairFingerprint(es, q.src, q.dst)] \in Row
  <2> HIDE DEF c
  <2> QED BY <1>3, <1>4, RowColumn
<1> QED BY <1>3, <1>5 DEF AcceptIdempotent, AcceptWith

\* Queueing an item again refreshes a row.
LEMMA RefreshedType ==
  ASSUME now \in Nat, thought \in [Thought -> ThoughtRec], edges \subseteq Edge,
         NEW r \in Row
  PROVE  Refreshed(r) \in Row
<1> DEFINE a == [r EXCEPT !.fp = PairFingerprint(edges, r.src, r.dst)]
<1>1. Expiry \in Int
  BY BoundsAssumption DEF Expiry, NoTime
<1>2. PairFingerprint(edges, r.src, r.dst) \in Fingerprint
  BY PairFingerprintType DEF Row
<1>3. a \in Row
  BY <1>2, RowColumn
<1>4. [a EXCEPT !.expires = Expiry] \in Row
  <2> HIDE DEF a
  <2> QED BY <1>1, <1>3, RowColumn
<1> QED BY <1>4 DEF Refreshed

\* Queueing a new one makes a row.
LEMMA NewRowType ==
  ASSUME now \in Nat, thought \in [Thought -> ThoughtRec], edges \subseteq Edge,
         NEW id \in RowId, NEW s \in Thought, NEW x \in Thought \X PlanType
  PROVE  NewRow(id, s, x) \in Row
<1>1. Expiry \in Int /\ NoTime \in Int
  BY BoundsAssumption DEF Expiry, NoTime
<1>2. PairFingerprint(edges, s, x[1]) \in Fingerprint
  BY PairFingerprintType
<1> QED BY <1>1, <1>2 DEF NewRow, Row, RowState

\* Whatever a job does next, it is a job.
LEMMA JobType ==
  ASSUME job \in [Process -> Job], NEW p \in Process
  PROVE  /\ Idle \in Job
         /\ \A id : Advance(p, id) => job' \in [Process -> Job]
         /\ \A r \in Row, v \in Verdict : Hold(p, r, v) => job' \in [Process -> Job]
<1>1. Idle \in Job
  BY DEF Idle, Job
<1>2. job[p] \in Job
  OBVIOUS
<1>3. ASSUME NEW id
      PROVE  Rest(p, id) \in Job
  <2> DEFINE j == job[p]
             a == [j EXCEPT !.todo = @ \ {id}]
             b == [a EXCEPT !.item = NoItem]
  <2>1. a \in Job
    BY <1>2 DEF Job
  <2>2. b \in Job
    <3> HIDE DEF a
    <3> QED BY <2>1 DEF Job
  <2>3. [b EXCEPT !.manifest = {r \in @ : r.id # id}] \in Job
    <3> HIDE DEF b
    <3> QED BY <2>2 DEF Job
  <2> QED BY <1>1, <2>3 DEF Rest
<1>4. ASSUME NEW r \in Row, NEW v \in Verdict
      PROVE  [job[p] EXCEPT !.item = [row |-> r, verdict |-> v]] \in Job
  <2>1. [row |-> r, verdict |-> v] \in Item
    BY DEF Item
  <2> QED BY <1>2, <2>1 DEF Job
<1> QED BY <1>1, <1>3, <1>4 DEF Advance, Hold

\* The edge a writer puts in is an edge.
LEMMA WithEdgeType ==
  ASSUME edges \subseteq Edge, NEW id \in EdgeId, NEW s \in Thought,
         NEW t \in Thought, NEW ty \in EdgeType, NEW by \in RowId \cup {User}
  PROVE  WithEdge(id, s, t, ty, by) \subseteq Edge
  BY DEF WithEdge, Edge

-----------------------------------------------------------------------------
(* Type correctness.                                                       *)

\* Every step of a caller editing the graph keeps the types.
LEMMA GraphNextType == TypeOK /\ GraphNext => TypeOK'
<1> SUFFICES ASSUME TypeOK, GraphNext PROVE TypeOK'
  OBVIOUS
<1> USE DEF TypeOK
<1>1. CASE \E s, t \in Thought, ty \in EdgeType : Link(s, t, ty)
  <2>1. PICK s \in Thought, t \in Thought, ty \in EdgeType : Link(s, t, ty)
    BY <1>1
  <2>2. PICK id \in FreshEdge :
          /\ edges' = WithEdge(id, s, t, ty, User)
          /\ UseEdge(id)
    BY <2>1 DEF Link
  <2>3. id \in EdgeId
    BY DEF FreshEdge
  <2>4. edges' \subseteq Edge
    BY <2>2, <2>3, WithEdgeType
  <2> QED BY <2>1, <2>2, <2>3, <2>4 DEF Link, UseEdge
<1>2. CASE \E e \in edges : Unlink(e)
  BY <1>2 DEF Unlink
<1>3. CASE \E e \in edges, ty \in EdgeType : Retype(e, ty)
  <2>1. PICK e \in edges, ty \in EdgeType : Retype(e, ty)
    BY <1>3
  <2>2. PICK id \in FreshEdge :
          /\ edges' = (edges \ {e})
                        \cup {[e EXCEPT !.id = id, !.type = ty, !.by = User]}
          /\ UseEdge(id)
    BY <2>1 DEF Retype
  <2>3. id \in EdgeId /\ e \in Edge
    BY DEF FreshEdge
  <2>4. [e EXCEPT !.id = id, !.type = ty, !.by = User] \in Edge
    BY <2>3 DEF Edge
  <2> QED BY <2>1, <2>2, <2>3, <2>4 DEF Retype, UseEdge
<1>4. CASE \E t \in Thought, st \in Status, p \in Project : UpdateThought(t, st, p)
  <2>1. PICK t \in Thought, st \in Status, p \in Project : UpdateThought(t, st, p)
    BY <1>4
  <2>2. [status |-> st, stamp |-> thought[t].stamp + 1, project |-> p] \in ThoughtRec
    BY DEF ThoughtRec
  <2>3. thought' \in [Thought -> ThoughtRec]
    BY <2>1, <2>2 DEF UpdateThought
  <2>4. {r.id : r \in {x \in queue : t \in {x.src, x.dst}}} \subseteq RowId
    BY DEF Row
  <2> QED BY <2>1, <2>3, <2>4 DEF UpdateThought
<1>5. CASE \E t \in Thought : DeleteThought(t)
  <2>1. PICK t \in Thought : DeleteThought(t)
    BY <1>5
  <2>2. thought' \in [Thought -> ThoughtRec]
    BY <2>1 DEF DeleteThought, ThoughtRec
  <2> QED BY <2>1, <2>2 DEF DeleteThought
<1> QED BY <1>1, <1>2, <1>3, <1>4, <1>5 DEF GraphNext

\* So does every step of an enqueue.
LEMMA EnqueueNextType == TypeOK /\ EnqueueNext => TypeOK'
<1> SUFFICES ASSUME TypeOK, EnqueueNext PROVE TypeOK'
  OBVIOUS
<1> USE DEF TypeOK
<1>1. CASE \E p \in Process, s \in Thought : StartEnqueue(p, s)
  BY <1>1 DEF StartEnqueue, Plan
<1>2. CASE \E pl \in plans : \E items \in SUBSET PlanItems(pl) : FinishEnqueue(pl, items)
  <2>0. PICK pl \in plans : \E items \in SUBSET PlanItems(pl) : FinishEnqueue(pl, items)
    BY <1>2
  <2>1. PICK items \in SUBSET PlanItems(pl) : FinishEnqueue(pl, items)
    BY <2>0
  <2>2. pl.src \in Thought /\ items \subseteq Thought \X PlanType
    BY DEF PlanItems, Plan
  <2> DEFINE old == AlreadyQueued(pl.src, items)
             fresh == {x \in items : <<pl.src, x[1], x[2]>>
                                       \notin {ItemKey(r) : r \in old}}
  <2>3. PICK id \in [fresh -> RowId \ used.row] :
          /\ queue' = (queue \ old) \cup {Refreshed(r) : r \in old}
                        \cup {NewRow(id[x], pl.src, x) : x \in fresh}
          /\ used' = [used EXCEPT !.row = @ \cup {id[x] : x \in fresh}]
    BY <2>1 DEF FinishEnqueue
  <2>4. \A r \in old : Refreshed(r) \in Row
    BY RefreshedType DEF AlreadyQueued, Pending
  <2>5. \A x \in fresh : NewRow(id[x], pl.src, x) \in Row
    <3> SUFFICES ASSUME NEW x \in fresh PROVE NewRow(id[x], pl.src, x) \in Row
      OBVIOUS
    <3>1. x \in Thought \X PlanType
      BY <2>2
    <3> HIDE DEF old, fresh
    <3>2. id[x] \in RowId
      OBVIOUS
    <3> QED BY <2>2, <3>1, <3>2, NewRowType
  <2>6. queue' \subseteq Row
    <3> HIDE DEF old, fresh
    <3> QED BY <2>3, <2>4, <2>5, <2>1
  <2>7. used' \in [edge: SUBSET EdgeId, row: SUBSET RowId]
    <3>1. {id[x] : x \in fresh} \subseteq RowId
      OBVIOUS
    <3> HIDE DEF old, fresh
    <3> QED BY <2>3, <3>1
  <2> QED BY <2>1, <2>6, <2>7 DEF FinishEnqueue
<1>3. CASE \E pl \in plans : AbandonEnqueue(pl)
  BY <1>3 DEF AbandonEnqueue
<1> QED BY <1>1, <1>2, <1>3 DEF EnqueueNext

\* The writer's transaction keeps the types, whatever it finds.
LEMMA WriteAndAcceptType ==
  ASSUME TypeOK, NEW r \in Row, NEW run \in RunId \cup {NoRun},
         WriteAndAccept(r, run)
  PROVE  /\ edges' \subseteq Edge /\ queue' \subseteq Row
         /\ used' \in [edge: SUBSET EdgeId, row: SUBSET RowId]
<1> USE DEF TypeOK
<1>1. /\ Rows(r.id) \subseteq Row
      /\ r.src \in Thought /\ r.dst \in Thought /\ r.type \in EdgeType
      /\ r.id \in RowId
  BY TypesAssumption DEF Rows, Row
<1> DEFINE found == WriterFinds(r.src, r.dst, r.type)
           there == Exists(r.src) /\ Exists(r.dst)
<1>2. CASE /\ found \in {"insert", "upgrade"} /\ there
           /\ \E id \in FreshEdge :
                /\ edges' = WithEdge(id, r.src, r.dst, r.type, r.id)
                /\ UseEdge(id)
                /\ queue' = (queue \ Rows(r.id))
                     \cup {AcceptWith(q, run, edges', id) : q \in Rows(r.id)}
  <2>1. PICK id \in FreshEdge :
           /\ edges' = WithEdge(id, r.src, r.dst, r.type, r.id)
           /\ UseEdge(id)
           /\ queue' = (queue \ Rows(r.id))
                \cup {AcceptWith(q, run, edges', id) : q \in Rows(r.id)}
    BY <1>2
  <2>2. id \in EdgeId
    BY DEF FreshEdge
  <2>3. edges' \subseteq Edge
    BY <1>1, <2>1, <2>2, WithEdgeType
  <2>4. \A q \in Rows(r.id) : AcceptWith(q, run, edges', id) \in Row
    BY <1>1, <2>2, <2>3, AcceptType
  <2> QED BY <2>1, <2>2, <2>3, <2>4 DEF UseEdge
<1>3. CASE /\ found = "existing"
           /\ \E e \in Between(edges, r.src, r.dst) :
                queue' = (queue \ Rows(r.id))
                     \cup {AcceptWith(q, run, edges, e.id) : q \in Rows(r.id)}
           /\ UNCHANGED <<edges, used>>
  <2>1. PICK e \in Between(edges, r.src, r.dst) :
           queue' = (queue \ Rows(r.id))
                \cup {AcceptWith(q, run, edges, e.id) : q \in Rows(r.id)}
    BY <1>3
  <2>2. e.id \in EdgeId
    BY DEF Between, Edge
  <2>3. \A q \in Rows(r.id) : AcceptWith(q, run, edges, e.id) \in Row
    BY <1>1, <2>2, AcceptType
  <2> QED BY <1>3, <2>1, <2>3
<1>4. CASE /\ found = "duplicate"
           /\ queue' = (queue \ Rows(r.id))
                \cup {AcceptIdempotent(q, run) : q \in Rows(r.id)}
           /\ UNCHANGED <<edges, used>>
  <2>1. \A q \in Rows(r.id) : AcceptIdempotent(q, run) \in Row
    <3>1. \A q \in Row : Decide(q, "accepted") \in Row
      BY DecideType DEF RowState, Decided
    <3>2. \A q \in Row : [q EXCEPT !.run = run] \in Row
      BY RowColumn
    <3>3. \A q \in Row : [q EXCEPT !.result = Idempotent] \in Row
      BY RowColumn
    <3> QED BY <1>1, <3>1, <3>2, <3>3 DEF AcceptIdempotent
  <2> QED BY <1>4, <2>1
<1>5. CASE /\ found = "conflict"
           /\ queue' = (queue \ Rows(r.id))
                \cup {Decide(q, "stale") : q \in Rows(r.id)}
           /\ UNCHANGED <<edges, used>>
  <2>1. \A q \in Rows(r.id) : Decide(q, "stale") \in Row
    BY <1>1, DecideType DEF RowState, Decided
  <2> QED BY <1>5, <2>1
<1>6. CASE UNCHANGED <<edges, queue, used>>
  BY <1>6
<1> QED BY <1>2, <1>3, <1>4, <1>5, <1>6 DEF WriteAndAccept

\* Every step of an apply, a reject or a rollback keeps the types.
LEMMA ReviewNextType == TypeOK /\ ReviewNext => TypeOK'
<1> SUFFICES ASSUME TypeOK, ReviewNext PROVE TypeOK'
  OBVIOUS
<1> USE DEF TypeOK
<1>1. PICK p \in Process :
        \/ \E ids \in SUBSET {r.id : r \in Pending}, run \in RunId : StartApply(p, ids, run)
        \/ \E id \in job[p].todo : GateItem(p, id)
        \/ ApplyItem(p)
        \/ BusyItem(p)
        \/ \E r \in queue : StartReject(p, r)
        \/ RejectItem(p)
        \/ \E run \in RunId : StartRollback(p, run)
        \/ \E r \in job[p].manifest : CheckItem(p, r)
        \/ RollbackItem(p)
        \/ Crash(p)
  BY DEF ReviewNext
<1>2. /\ job[p] \in Job /\ Idle \in Job
      /\ job[p].run \in RunId \cup {NoRun} /\ job[p].manifest \subseteq Row
      /\ job[p].item # NoItem => job[p].item.row \in Row
  BY JobType DEF Job, Item
<1>3. \A id : Rows(id) \subseteq Row
  BY DEF Rows
<1>4. \A q \in Row, st \in RowState : Decide(q, st) \in Row
  BY DecideType
<1>5. \A q \in Row, run \in RunId \cup {NoRun} : AcceptIdempotent(q, run) \in Row
  <2>1. \A q \in Row : Decide(q, "accepted") \in Row
    BY <1>4 DEF RowState, Decided
  <2>2. \A q \in Row, run \in RunId \cup {NoRun} : [q EXCEPT !.run = run] \in Row
    BY RowColumn
  <2>3. \A q \in Row : [q EXCEPT !.result = Idempotent] \in Row
    BY RowColumn
  <2> QED BY <2>1, <2>2, <2>3 DEF AcceptIdempotent
<1>6. {"stale", "rejected", "rolled_back"} \subseteq RowState
  BY DEF RowState, Decided
<1>7. CASE \E ids \in SUBSET {r.id : r \in Pending}, run \in RunId : StartApply(p, ids, run)
  <2>1. PICK ids \in SUBSET {r.id : r \in Pending}, run \in RunId : StartApply(p, ids, run)
    BY <1>7
  <2>2. ids \subseteq RowId
    BY DEF Pending, Row
  <2>3. [Idle EXCEPT !.kind = "apply", !.run = run, !.todo = ids] \in Job
    BY <1>2, <2>2 DEF Job, Idle
  <2> QED BY <2>1, <2>3 DEF StartApply
<1>8. CASE \E id \in job[p].todo : GateItem(p, id)
  <2>1. PICK id \in job[p].todo : GateItem(p, id)
    BY <1>8
  <2>2. \A r \in queue : Gate(r) \in Verdict
    BY DEF Gate, Verdict
  <2>3. job' \in [Process -> Job]
    BY <2>1, <2>2, JobType DEF GateItem, Rows
  <2> QED BY <2>1, <2>3 DEF GateItem
<1>9. CASE ApplyItem(p)
  <2>1. job[p].item.row \in Row
    BY <1>2, <1>9 DEF ApplyItem
  <2>2. job' \in [Process -> Job]
    BY <1>9, JobType DEF ApplyItem
  <2>3. /\ edges' \subseteq Edge /\ queue' \subseteq Row
        /\ used' \in [edge: SUBSET EdgeId, row: SUBSET RowId]
    <3>1. CASE WriteAndAccept(job[p].item.row, job[p].run)
      BY <1>2, <2>1, <3>1, WriteAndAcceptType
    <3>2. CASE ~WriteAndAccept(job[p].item.row, job[p].run)
      BY <1>2, <1>3, <1>4, <1>5, <1>6, <1>9, <3>2 DEF ApplyItem
    <3> QED BY <3>1, <3>2
  <2> QED BY <1>9, <2>2, <2>3 DEF ApplyItem
<1>10. CASE BusyItem(p)
  <2>1. job' \in [Process -> Job]
    BY <1>10, JobType DEF BusyItem
  <2>2. \A q \in Row : Reopened(q) \in Row
    BY ReopenedType
  <2>3. queue' \subseteq Row
    BY <1>3, <1>10, <2>2 DEF BusyItem
  <2> QED BY <1>10, <2>1, <2>3 DEF BusyItem
<1>11. CASE \E r \in queue : StartReject(p, r)
  <2>1. PICK r \in queue : StartReject(p, r)
    BY <1>11
  <2>2. r.id \in RowId /\ [row |-> r, verdict |-> "reject"] \in Item
    BY DEF Row, Item, Verdict
  <2>3. [Idle EXCEPT !.kind = "reject", !.todo = {r.id},
                     !.item = [row |-> r, verdict |-> "reject"]] \in Job
    BY <1>2, <2>2 DEF Job, Idle
  <2> QED BY <2>1, <2>3 DEF StartReject
<1>12. CASE RejectItem(p)
  <2>1. job' \in [Process -> Job]
    BY <1>12, JobType DEF RejectItem
  <2>2. queue' \subseteq Row
    BY <1>3, <1>4, <1>6, <1>12 DEF RejectItem
  <2> QED BY <1>12, <2>1, <2>2 DEF RejectItem
<1>13. CASE \E run \in RunId : StartRollback(p, run)
  <2>1. PICK run \in RunId : StartRollback(p, run)
    BY <1>13
  <2>2. Manifest(run) \subseteq Row /\ {r.id : r \in Manifest(run)} \subseteq RowId
    BY DEF Manifest, Row
  <2>3. [Idle EXCEPT !.kind = "rollback", !.run = run,
                     !.todo = {r.id : r \in Manifest(run)},
                     !.manifest = Manifest(run)] \in Job
    BY <1>2, <2>2 DEF Job, Idle
  <2> QED BY <2>1, <2>3 DEF StartRollback
<1>14. CASE \E r \in job[p].manifest : CheckItem(p, r)
  <2>1. PICK r \in job[p].manifest : CheckItem(p, r)
    BY <1>14
  <2>2. r \in Row /\ "revert" \in Verdict
    BY <1>2 DEF Verdict
  <2>3. job' \in [Process -> Job]
    BY <2>1, <2>2, JobType DEF CheckItem
  <2> QED BY <2>1, <2>3 DEF CheckItem
<1>15. CASE RollbackItem(p)
  <2>1. job' \in [Process -> Job]
    BY <1>15, JobType DEF RollbackItem
  <2>2. queue' \subseteq Row
    BY <1>3, <1>4, <1>6, <1>15 DEF RollbackItem
  <2> QED BY <1>15, <2>1, <2>2 DEF RollbackItem
<1>16. CASE Crash(p)
  BY <1>2, <1>16 DEF Crash
<1> QED BY <1>1, <1>7, <1>8, <1>9, <1>10, <1>11, <1>12, <1>13, <1>14, <1>15, <1>16

\* The empty queue and graph are well typed.
LEMMA TypeInit == Init => TypeOK
<1> SUFFICES ASSUME Init PROVE TypeOK
  OBVIOUS
<1>1. Idle \in Job
  BY DEF Idle, Job
<1>2. \A p \in Project : [status |-> "active", stamp |-> 0, project |-> p] \in ThoughtRec
  BY DEF ThoughtRec, Status
<1>3. thought \in [Thought -> ThoughtRec]
  BY <1>2 DEF Init
<1> QED BY <1>1, <1>3 DEF Init, TypeOK

\* Every step keeps the types.
LEMMA TypeStep == TypeOK /\ [Next]_vars => TypeOK'
<1> SUFFICES ASSUME TypeOK, [Next]_vars PROVE TypeOK'
  OBVIOUS
<1>1. CASE Retention
  <2>1. \A r \in Row : Expire(r) \in Row
    BY DecideType DEF Expire, RowState, Decided, TypeOK
  <2>2. queue' \subseteq Row
    BY <1>1, <2>1 DEF Retention, TypeOK
  <2> QED BY <1>1, <2>2 DEF Retention, TypeOK
<1>2. CASE Tick
  BY <1>2 DEF Tick, TypeOK
<1>3. CASE UNCHANGED vars
  BY <1>3 DEF vars, TypeOK
<1> QED BY <1>1, <1>2, <1>3, GraphNextType, EnqueueNextType, ReviewNextType DEF Next

\* TypeOK holds in every state of the queue and the graph.
THEOREM TypeCorrect == Spec => []TypeOK
  BY TypeInit, TypeStep, PTL DEF Spec

-----------------------------------------------------------------------------
(* The graph and the queue agree when one process serves the database.     *)

OneProcess == \A p, q \in Process : p = q

\* Ids are given out once.
IdsTaken ==
  /\ \A e \in edges : e.id \in used.edge /\ (e.by = User \/ e.by \in used.row)
  /\ \A r \in queue : r.id \in used.row
  /\ \A p \in Process : job[p].kind = "apply" /\ job[p].item # NoItem =>
       job[p].item.row.id \in used.row

OneRowPerId == \A r, q \in queue : r.id = q.id => r = q

\* What a job read is still what the database holds.
ReadsAreCurrent ==
  \A p \in Process :
    /\ job[p].kind = "rollback" =>
         /\ \A r \in job[p].manifest : \A q \in Rows(r.id) : q = r
         /\ job[p].item # NoItem => job[p].item.row \in job[p].manifest
    /\ job[p].kind \in {"apply", "reject"} /\ job[p].item # NoItem =>
         \A q \in Rows(job[p].item.row.id) : q = job[p].item.row /\ q.state = "pending"

AgreementInv ==
  TypeOK /\ IdsTaken /\ OneRowPerId /\ ReadsAreCurrent /\ GraphMatchesQueue

\* What a decision writes and what it leaves alone.
LEMMA DecideColumns ==
  ASSUME NEW q \in Row, NEW st
  PROVE  /\ Decide(q, st).id = q.id /\ Decide(q, st).src = q.src
         /\ Decide(q, st).dst = q.dst /\ Decide(q, st).state = st
  BY DEF Decide, Row

\* An accepted row names its edge, or none.
LEMMA AcceptColumns ==
  ASSUME NEW q \in Row, NEW run, NEW es, NEW id
  PROVE  /\ AcceptWith(q, run, es, id).id = q.id
         /\ AcceptWith(q, run, es, id).src = q.src
         /\ AcceptWith(q, run, es, id).dst = q.dst
         /\ AcceptWith(q, run, es, id).state = "accepted"
         /\ AcceptWith(q, run, es, id).result = id
         /\ AcceptIdempotent(q, run).id = q.id
         /\ AcceptIdempotent(q, run).src = q.src
         /\ AcceptIdempotent(q, run).dst = q.dst
<1> DEFINE a == Decide(q, "accepted")
<1>1. /\ a.id = q.id /\ a.src = q.src /\ a.dst = q.dst /\ a.state = "accepted"
      /\ DOMAIN a = DOMAIN q /\ a = [x \in DOMAIN a |-> a[x]]
      /\ {"id", "src", "dst", "state", "run", "result", "fp"} \subseteq DOMAIN q
  BY DEF Decide, Row
<1> HIDE DEF a
<1>2. AcceptIdempotent(q, run) = [a EXCEPT !.run = run, !.result = Idempotent]
  BY DEF AcceptIdempotent, a
<1>3. AcceptWith(q, run, es, id) =
        [a EXCEPT !.run = run, !.result = id, !.fp = PairFingerprint(es, q.src, q.dst)]
  BY DEF AcceptWith, a
<1> QED BY <1>1, <1>2, <1>3

\* Reopening a row keeps its identity.
LEMMA ReopenedColumns ==
  ASSUME NEW q \in Row
  PROVE  /\ Reopened(q).id = q.id /\ Reopened(q).src = q.src
         /\ Reopened(q).dst = q.dst /\ Reopened(q).state = "pending"
  BY DEF Reopened, Decide, Row

\* Rewriting the row of one id leaves one row per id and the others alone.
LEMMA Rewrite ==
  ASSUME OneRowPerId, NEW id, NEW N,
         queue' = (queue \ Rows(id)) \cup N,
         \A n \in N : n.id = id, \A n, m \in N : n = m
  PROVE  /\ OneRowPerId'
         /\ Rows(id)' = N
         /\ \A i : i # id => Rows(i)' = Rows(i)
  BY DEF OneRowPerId, Rows

\* When the one process is free no job has read anything.
LEMMA NothingRead ==
  ASSUME OneProcess, NEW p \in Process, job[p] = Idle, job' = job
  PROVE  /\ ReadsAreCurrent'
         /\ \A q \in Process : (job[q].kind # "apply")'
  BY DEF OneProcess, Idle, ReadsAreCurrent

\* A caller editing the graph leaves rows, their ids and applied edges alone.
LEMMA GraphNextAgrees ==
  ASSUME OneProcess, AgreementInv, GraphNext
  PROVE  AgreementInv'
<1> USE DEF AgreementInv
<1>1. TypeOK'
  BY GraphNextType
<1>2. PICK p \in Process : job[p] = Idle
  BY DEF GraphNext, Link, Unlink, Retype, UpdateThought, DeleteThought, Free
<1>3. job' = job
  BY DEF GraphNext, Link, Unlink, Retype, UpdateThought, DeleteThought
<1>4. ReadsAreCurrent' /\ \A q \in Process : (job[q].kind # "apply")'
  BY <1>2, <1>3, NothingRead
<1>5. ASSUME queue' \subseteq queue, used'.row = used.row, used.edge \subseteq used'.edge,
             \A e \in edges' : e \in edges \/ (e.id \in used'.edge /\ e.by = User)
      PROVE  IdsTaken' /\ OneRowPerId' /\ GraphMatchesQueue'
  <2>1. IdsTaken'
    BY <1>4, <1>5 DEF IdsTaken
  <2>2. OneRowPerId'
    BY <1>5 DEF OneRowPerId
  <2>3. GraphMatchesQueue'
    <3> SUFFICES ASSUME NEW e \in edges', NEW r \in queue', e.by = r.id
                 PROVE  /\ r.state = "accepted" /\ r.result = e.id
                        /\ {e.src, e.dst} = {r.src, r.dst}
      BY DEF GraphMatchesQueue
    <3>1. r.id # User
      BY <1>1, IdsAssumption DEF TypeOK, Row
    <3> QED BY <1>5, <3>1 DEF GraphMatchesQueue
  <2> QED BY <2>1, <2>2, <2>3
<1>6. CASE \E s, t \in Thought, ty \in EdgeType : Link(s, t, ty)
  <2>1. PICK s \in Thought, t \in Thought, ty \in EdgeType : Link(s, t, ty)
    BY <1>6
  <2>2. PICK id \in FreshEdge : edges' = WithEdge(id, s, t, ty, User) /\ UseEdge(id)
    BY <2>1 DEF Link
  <2>3. used'.edge = used.edge \cup {id} /\ used'.row = used.row
    BY <2>2 DEF UseEdge, TypeOK
  <2>4. \A e \in edges' : e \in edges \/ (e.id = id /\ e.by = User)
    BY <2>2 DEF WithEdge
  <2> QED BY <1>1, <1>4, <1>5, <2>1, <2>3, <2>4 DEF Link
<1>7. CASE \E e \in edges : Unlink(e)
  BY <1>1, <1>4, <1>5, <1>7 DEF Unlink
<1>8. CASE \E e \in edges, ty \in EdgeType : Retype(e, ty)
  <2>1. PICK e \in edges, ty \in EdgeType : Retype(e, ty)
    BY <1>8
  <2>2. PICK id \in FreshEdge :
          /\ edges' = (edges \ {e})
                        \cup {[e EXCEPT !.id = id, !.type = ty, !.by = User]}
          /\ UseEdge(id)
    BY <2>1 DEF Retype
  <2>3. used'.edge = used.edge \cup {id} /\ used'.row = used.row
    BY <2>2 DEF UseEdge, TypeOK
  <2>4. e \in Edge
    BY DEF TypeOK
  <2>5. [e EXCEPT !.id = id, !.type = ty, !.by = User].id = id
        /\ [e EXCEPT !.id = id, !.type = ty, !.by = User].by = User
    BY <2>4 DEF Edge
  <2>6. \A f \in edges' : f \in edges \/ (f.id = id /\ f.by = User)
    BY <2>2, <2>5
  <2> QED BY <1>1, <1>4, <1>5, <2>1, <2>3, <2>6 DEF Retype
<1>9. CASE \E t \in Thought, st \in Status, p1 \in Project : UpdateThought(t, st, p1)
  BY <1>1, <1>4, <1>5, <1>9 DEF UpdateThought
<1>10. CASE \E t \in Thought : DeleteThought(t)
  BY <1>1, <1>4, <1>5, <1>10 DEF DeleteThought
<1> QED BY <1>6, <1>7, <1>8, <1>9, <1>10 DEF GraphNext

\* Enqueueing adds rows under fresh ids, which no edge carries yet.
LEMMA EnqueueNextAgrees ==
  ASSUME OneProcess, AgreementInv, EnqueueNext
  PROVE  AgreementInv'
<1> USE DEF AgreementInv
<1>1. TypeOK'
  BY EnqueueNextType
<1>2. CASE \E p \in Process, s \in Thought : StartEnqueue(p, s)
  <2>1. UNCHANGED <<edges, queue, job, used>>
    BY <1>2 DEF StartEnqueue
  <2> QED BY <1>1, <2>1 DEF IdsTaken, OneRowPerId, ReadsAreCurrent, GraphMatchesQueue, Rows
<1>3. CASE \E pl \in plans : AbandonEnqueue(pl)
  <2>1. UNCHANGED <<edges, queue, job, used>>
    BY <1>3 DEF AbandonEnqueue
  <2> QED BY <1>1, <2>1 DEF IdsTaken, OneRowPerId, ReadsAreCurrent, GraphMatchesQueue, Rows
<1>4. CASE \E pl \in plans : \E items \in SUBSET PlanItems(pl) : FinishEnqueue(pl, items)
  <2>0. PICK pl \in plans : \E items \in SUBSET PlanItems(pl) : FinishEnqueue(pl, items)
    BY <1>4
  <2>1. PICK items \in SUBSET PlanItems(pl) : FinishEnqueue(pl, items)
    BY <2>0
  <2>2. pl.at \in Process /\ job[pl.at] = Idle /\ job' = job /\ edges' = edges
    BY <2>1 DEF FinishEnqueue, TypeOK, Plan
  <2>3. ReadsAreCurrent' /\ \A q \in Process : (job[q].kind # "apply")'
    BY <2>2, NothingRead
  <2> DEFINE old == AlreadyQueued(pl.src, items)
             fresh == {x \in items : <<pl.src, x[1], x[2]>>
                                       \notin {ItemKey(r) : r \in old}}
  <2>4. PICK id \in [fresh -> RowId \ used.row] :
          /\ \A x, y \in fresh : id[x] = id[y] => x = y
          /\ queue' = (queue \ old) \cup {Refreshed(r) : r \in old}
                        \cup {NewRow(id[x], pl.src, x) : x \in fresh}
          /\ used' = [used EXCEPT !.row = @ \cup {id[x] : x \in fresh}]
    BY <2>1 DEF FinishEnqueue
  <2>5. \A r \in old : r \in queue /\ r.state = "pending"
    BY DEF AlreadyQueued, Pending
  <2>6. used'.edge = used.edge /\ used'.row = used.row \cup {id[x] : x \in fresh}
    <3> HIDE DEF fresh
    <3> QED BY <2>4 DEF TypeOK
  <2>7. \A r \in queue : /\ Refreshed(r).id = r.id
                         /\ Refreshed(r).state = r.state
    BY DEF Refreshed, TypeOK, Row
  <2>8. \A x \in fresh : NewRow(id[x], pl.src, x).id = id[x]
                         /\ id[x] \in RowId \ used.row
    BY DEF NewRow
  <2> HIDE DEF old, fresh
  <2>9. IdsTaken'
    BY <2>2, <2>3, <2>4, <2>5, <2>6, <2>7, <2>8 DEF IdsTaken
  <2>10. OneRowPerId'
    BY <2>4, <2>5, <2>7, <2>8 DEF OneRowPerId, IdsTaken
  <2>11. GraphMatchesQueue'
    <3> SUFFICES ASSUME NEW e \in edges, NEW r \in queue', e.by = r.id
                 PROVE  /\ r.state = "accepted" /\ r.result = e.id
                        /\ {e.src, e.dst} = {r.src, r.dst}
      BY <2>2 DEF GraphMatchesQueue
    <3>1. CASE r \in queue
      BY <3>1 DEF GraphMatchesQueue
    <3>2. CASE \E q \in old : r = Refreshed(q)
      BY <2>5, <2>7, <3>2 DEF GraphMatchesQueue
    <3>3. CASE \E x \in fresh : r = NewRow(id[x], pl.src, x)
      BY <2>8, <3>3, IdsAssumption DEF IdsTaken
    <3> QED BY <2>4, <3>1, <3>2, <3>3
  <2> QED BY <1>1, <2>3, <2>9, <2>10, <2>11
<1> QED BY <1>2, <1>3, <1>4 DEF EnqueueNext

\* Moving on to the next row forgets the current one.
LEMMA RestColumns ==
  ASSUME NEW p \in Process, job[p] \in Job, NEW id
  PROVE  \/ Rest(p, id) = Idle
         \/ /\ Rest(p, id).kind = job[p].kind /\ Rest(p, id).item = NoItem
            /\ Rest(p, id).run = job[p].run
            /\ Rest(p, id).manifest = {r \in job[p].manifest : r.id # id}
<1> DEFINE j == job[p]
           a == [j EXCEPT !.todo = @ \ {id}]
           b == [a EXCEPT !.item = NoItem]
           c == [b EXCEPT !.manifest = {r \in @ : r.id # id}]
<1>1. a \in Job /\ a.kind = j.kind /\ a.run = j.run /\ a.manifest = j.manifest
  BY DEF Job
<1>2. b \in Job /\ b.kind = j.kind /\ b.run = j.run /\ b.manifest = j.manifest /\ b.item = NoItem
  <2> HIDE DEF a
  <2> QED BY <1>1 DEF Job
<1>3. c.kind = j.kind /\ c.run = j.run /\ c.item = NoItem /\ c.manifest = {r \in j.manifest : r.id # id}
  <2> HIDE DEF b
  <2> QED BY <1>2 DEF Job
<1> QED BY <1>3 DEF Rest

\* A job that writes the row it is at, and only that one, keeps the agreement
\* if the rows it writes agree with the edges it leaves.
LEMMA RowWriteAgrees ==
  ASSUME OneProcess, AgreementInv, TypeOK', NEW p \in Process, NEW id,
         Advance(p, id), NEW N, queue' = (queue \ Rows(id)) \cup N,
         \A n \in N : n.id = id /\ Rows(id) # {}, \A n, m \in N : n = m,
         used'.row = used.row, used.edge \subseteq used'.edge,
         \A e \in edges' : \/ e \in edges
                           \/ e.by = id /\ id \in used.row /\ e.id \in used'.edge,
         \A e \in edges', n \in N : e.by = id =>
            /\ n.state = "accepted" /\ n.result = e.id
            /\ {e.src, e.dst} = {n.src, n.dst}
  PROVE  AgreementInv'
<1> USE DEF AgreementInv
<1>1. job[p] \in Job /\ job'[p] = Rest(p, id) /\ \A q \in Process : q = p
  BY DEF TypeOK, Advance, OneProcess
<1>2. /\ OneRowPerId' /\ Rows(id)' = N
      /\ \A i : i # id => Rows(i)' = Rows(i)
  BY Rewrite
<1>3. job'[p] = Idle \/ /\ job'[p].kind = job[p].kind /\ job'[p].item = NoItem
                        /\ job'[p].manifest = {r \in job[p].manifest : r.id # id}
  BY <1>1, RestColumns
<1>4. ReadsAreCurrent'
  <2> SUFFICES ASSUME job'[p].kind = "rollback", NEW r \in job'[p].manifest
               PROVE  \A q \in Rows(r.id)' : q = r
    BY <1>1, <1>3 DEF ReadsAreCurrent, Idle
  <2>1. r \in job[p].manifest /\ r.id # id /\ job[p].kind = "rollback"
    BY <1>3 DEF Idle
  <2> QED BY <1>2, <2>1 DEF ReadsAreCurrent
<1>5. IdsTaken'
  <2>1. \A r \in queue' : r.id \in used'.row
    BY DEF IdsTaken, Rows
  <2>2. \A q \in Process : ~(job'[q].kind = "apply" /\ job'[q].item # NoItem)
    BY <1>1, <1>3 DEF Idle
  <2> QED BY <2>1, <2>2 DEF IdsTaken
<1>6. GraphMatchesQueue'
  BY DEF GraphMatchesQueue, Rows
<1> QED BY <1>2, <1>4, <1>5, <1>6

\* A step that writes nothing but the job keeps the agreement if what the job
\* has read is current.
LEMMA ReadAgrees ==
  ASSUME AgreementInv, TypeOK', UNCHANGED <<edges, queue, used>>,
         ReadsAreCurrent',
         \A p \in Process : job'[p].kind = "apply" /\ job'[p].item # NoItem =>
            job'[p].item.row.id \in used.row
  PROVE  AgreementInv'
  BY DEF AgreementInv, IdsTaken, OneRowPerId, GraphMatchesQueue

\* A pending row has written no edge.
LEMMA PendingHasNoEdge ==
  ASSUME GraphMatchesQueue, NEW q \in queue, q.state = "pending"
  PROVE  \A e \in edges : e.by # q.id
  BY DEF GraphMatchesQueue

\* Starting a job and reading a row change nothing in the database.
LEMMA ReadStepAgrees ==
  ASSUME OneProcess, AgreementInv, TypeOK', NEW p \in Process,
         \/ \E ids \in SUBSET {r.id : r \in Pending}, run \in RunId : StartApply(p, ids, run)
         \/ \E id \in job[p].todo : GateItem(p, id)
         \/ \E r \in queue : StartReject(p, r)
         \/ \E run \in RunId : StartRollback(p, run)
         \/ \E r \in job[p].manifest : CheckItem(p, r)
         \/ Crash(p)
  PROVE  AgreementInv'
<1> USE DEF AgreementInv
<1>1. job[p] \in Job /\ \A q \in Process : q = p
  BY DEF TypeOK, OneProcess
<1>2. UNCHANGED <<edges, queue, used>> /\ \A i : Rows(i)' = Rows(i)
  BY DEF StartApply, GateItem, StartReject, StartRollback, CheckItem, Crash, Rows
<1>3. ASSUME NEW id, Advance(p, id)
      PROVE  ReadsAreCurrent' /\ (job'[p].kind = "apply" => job'[p].item = NoItem)
  <2>1. job'[p] = Rest(p, id)
    BY <1>3 DEF Advance, TypeOK
  <2> QED BY <1>1, <1>2, <2>1, RestColumns DEF ReadsAreCurrent, Idle
<1>4. ASSUME NEW r \in Row, NEW v, Hold(p, r, v)
      PROVE  /\ job'[p].kind = job[p].kind /\ job'[p].manifest = job[p].manifest
             /\ job'[p].item.row = r
  BY <1>1, <1>4 DEF Hold, TypeOK, Job
<1>5. CASE \E ids \in SUBSET {r.id : r \in Pending}, run \in RunId : StartApply(p, ids, run)
  <2>1. job'[p].kind = "apply" /\ job'[p].item = NoItem
    BY <1>5 DEF StartApply, Idle, TypeOK
  <2>2. ReadsAreCurrent'
    BY <1>1, <2>1 DEF ReadsAreCurrent
  <2> QED BY <1>1, <1>2, <2>1, <2>2, ReadAgrees
<1>6. CASE \E id \in job[p].todo : GateItem(p, id)
  <2>1. PICK id \in job[p].todo : GateItem(p, id)
    BY <1>6
  <2>2. CASE Advance(p, id)
    BY <1>1, <1>2, <1>3, <2>2, ReadAgrees
  <2>3. CASE \E r \in {r \in Rows(id) : r.state = "pending"} : Hold(p, r, Gate(r))
    <3>1. PICK r \in Rows(id) : r.state = "pending" /\ Hold(p, r, Gate(r))
      BY <2>3
    <3>2. r \in queue /\ r \in Row /\ r.id = id /\ job[p].kind = "apply"
      BY <2>1 DEF GateItem, Rows, TypeOK
    <3>3. job'[p].kind = "apply" /\ job'[p].item.row = r
      BY <1>4, <3>1, <3>2
    <3>4. ReadsAreCurrent'
      BY <1>1, <1>2, <3>1, <3>2, <3>3 DEF ReadsAreCurrent, OneRowPerId, Rows
    <3>5. r.id \in used.row
      BY <3>2 DEF IdsTaken
    <3> QED BY <1>1, <1>2, <3>3, <3>4, <3>5, ReadAgrees
  <2> QED BY <2>1, <2>2, <2>3 DEF GateItem
<1>7. CASE \E r \in queue : StartReject(p, r)
  <2>1. PICK r \in queue : StartReject(p, r)
    BY <1>7
  <2>2. job'[p].kind = "reject" /\ job'[p].item.row = r /\ r.state = "pending"
    BY <2>1 DEF StartReject, Idle, TypeOK
  <2>3. ReadsAreCurrent'
    BY <1>1, <1>2, <2>2 DEF ReadsAreCurrent, OneRowPerId, Rows
  <2> QED BY <1>1, <1>2, <2>2, <2>3, ReadAgrees
<1>8. CASE \E run \in RunId : StartRollback(p, run)
  <2>1. PICK run \in RunId : StartRollback(p, run)
    BY <1>8
  <2>2. /\ job'[p].kind = "rollback" /\ job'[p].item = NoItem
        /\ job'[p].manifest = Manifest(run)
    BY <2>1 DEF StartRollback, Idle, TypeOK
  <2>3. ReadsAreCurrent'
    BY <1>1, <1>2, <2>2 DEF ReadsAreCurrent, OneRowPerId, Rows, Manifest
  <2> QED BY <1>1, <1>2, <2>2, <2>3, ReadAgrees
<1>9. CASE \E r \in job[p].manifest : CheckItem(p, r)
  <2>1. PICK r \in job[p].manifest : CheckItem(p, r)
    BY <1>9
  <2>2. CASE Advance(p, r.id)
    BY <1>1, <1>2, <1>3, <2>2, ReadAgrees
  <2>3. CASE Hold(p, r, "revert")
    <3>1. r \in Row /\ job[p].kind = "rollback"
      BY <1>1, <2>1 DEF CheckItem, Job
    <3>2. /\ job'[p].kind = "rollback" /\ job'[p].manifest = job[p].manifest
          /\ job'[p].item.row = r
      BY <1>4, <2>3, <3>1
    <3>3. ReadsAreCurrent'
      BY <1>1, <1>2, <3>1, <3>2 DEF ReadsAreCurrent
    <3> QED BY <1>1, <1>2, <3>2, <3>3, ReadAgrees
  <2> QED BY <2>1, <2>2, <2>3 DEF CheckItem
<1>10. CASE Crash(p)
  <2>1. job'[p] = Idle
    BY <1>10 DEF Crash, TypeOK
  <2>2. ReadsAreCurrent' /\ job'[p].kind # "apply"
    BY <1>1, <2>1 DEF ReadsAreCurrent, Idle
  <2> QED BY <1>1, <1>2, <2>2, ReadAgrees
<1> QED BY <1>5, <1>6, <1>7, <1>8, <1>9, <1>10

\* An apply writes the edge and the row that claims it in one transaction.
LEMMA ApplyItemAgrees ==
  ASSUME OneProcess, AgreementInv, TypeOK', NEW p \in Process, ApplyItem(p)
  PROVE  AgreementInv'
<1> USE DEF AgreementInv
<1> DEFINE r == job[p].item.row
           run == job[p].run
<1>1. /\ Advance(p, r.id) /\ job[p].kind = "apply" /\ job[p].item # NoItem
  BY DEF ApplyItem
<1>2. /\ \A q \in Rows(r.id) : q \in queue /\ q \in Row /\ q.id = r.id
      /\ \A q \in Rows(r.id) : q = r /\ q.state = "pending"
      /\ r.id \in used.row
  BY <1>1 DEF ReadsAreCurrent, Rows, TypeOK, IdsTaken
<1>3. Rows(r.id) # {} => \A e \in edges : e.by # r.id
  BY <1>2, PendingHasNoEdge
<1> HIDE DEF r, run
<1>4. ASSUME NEW N, queue' = (queue \ Rows(r.id)) \cup N, UNCHANGED <<edges, used>>,
             \A n \in N : n.id = r.id /\ Rows(r.id) # {}, \A n, m \in N : n = m
      PROVE  AgreementInv'
  <2>1. \A e \in edges', n \in N : e.by # r.id
    BY <1>3, <1>4
  <2> QED BY <1>1, <1>4, <2>1, RowWriteAgrees
<1>5. CASE /\ queue' = (queue \ Rows(r.id)) \cup {Decide(q, "stale") : q \in Rows(r.id)}
           /\ UNCHANGED <<edges, used>>
  <2> DEFINE N == {Decide(q, "stale") : q \in Rows(r.id)}
  <2>1. \A n \in N : n.id = r.id /\ Rows(r.id) # {}
    BY <1>2, DecideColumns
  <2>2. \A n, m \in N : n = m
    BY <1>2
  <2>3. queue' = (queue \ Rows(r.id)) \cup N /\ UNCHANGED <<edges, used>>
    BY <1>5
  <2> HIDE DEF N
  <2> QED BY <1>4, <2>1, <2>2, <2>3
<1>6. CASE /\ queue' = (queue \ Rows(r.id)) \cup {AcceptIdempotent(q, run) : q \in Rows(r.id)}
           /\ UNCHANGED <<edges, used>>
  <2> DEFINE N == {AcceptIdempotent(q, run) : q \in Rows(r.id)}
  <2>1. \A n \in N : n.id = r.id /\ Rows(r.id) # {}
    BY <1>2, AcceptColumns
  <2>2. \A n, m \in N : n = m
    BY <1>2
  <2>3. queue' = (queue \ Rows(r.id)) \cup N /\ UNCHANGED <<edges, used>>
    BY <1>6
  <2> HIDE DEF N
  <2> QED BY <1>4, <2>1, <2>2, <2>3
<1>7. CASE /\ \E id \in FreshEdge :
                /\ edges' = WithEdge(id, r.src, r.dst, r.type, r.id)
                /\ UseEdge(id)
                /\ queue' = (queue \ Rows(r.id))
                     \cup {AcceptWith(q, run, edges', id) : q \in Rows(r.id)}
  <2>1. PICK id \in FreshEdge :
           /\ edges' = WithEdge(id, r.src, r.dst, r.type, r.id)
           /\ UseEdge(id)
           /\ queue' = (queue \ Rows(r.id))
                \cup {AcceptWith(q, run, edges', id) : q \in Rows(r.id)}
    BY <1>7
  <2> DEFINE N == {AcceptWith(q, run, edges', id) : q \in Rows(r.id)}
  <2>2. used'.row = used.row /\ used'.edge = used.edge \cup {id}
    BY <2>1 DEF UseEdge, TypeOK
  <2>3. \A n \in N : /\ n.id = r.id /\ Rows(r.id) # {} /\ n.state = "accepted"
                     /\ n.result = id /\ n.src = r.src /\ n.dst = r.dst
    BY <1>2, AcceptColumns
  <2>4. \A n, m \in N : n = m
    BY <1>2
  <2>5. \A e \in edges' : \/ e \in edges
                          \/ e.id = id /\ e.by = r.id /\ e.src = r.src /\ e.dst = r.dst
    BY <2>1 DEF WithEdge
  <2>6. queue' = (queue \ Rows(r.id)) \cup N
    BY <2>1
  <2> HIDE DEF N
  <2>7. \A e \in edges' : \/ e \in edges
                          \/ e.by = r.id /\ r.id \in used.row /\ e.id \in used'.edge
    BY <1>2, <2>2, <2>5
  <2>8. \A e \in edges', n \in N : e.by = r.id =>
          /\ n.state = "accepted" /\ n.result = e.id
          /\ {e.src, e.dst} = {n.src, n.dst}
    BY <1>3, <2>3, <2>5
  <2> QED BY <1>1, <2>2, <2>3, <2>4, <2>6, <2>7, <2>8, RowWriteAgrees
<1>8. CASE /\ \E e \in Between(edges, r.src, r.dst) :
                queue' = (queue \ Rows(r.id))
                   \cup {AcceptWith(q, run, edges, e.id) : q \in Rows(r.id)}
           /\ UNCHANGED <<edges, used>>
  <2>1. PICK e \in Between(edges, r.src, r.dst) :
           queue' = (queue \ Rows(r.id))
                \cup {AcceptWith(q, run, edges, e.id) : q \in Rows(r.id)}
    BY <1>8
  <2> DEFINE N == {AcceptWith(q, run, edges, e.id) : q \in Rows(r.id)}
  <2>2. \A n \in N : n.id = r.id /\ Rows(r.id) # {}
    BY <1>2, AcceptColumns
  <2>3. \A n, m \in N : n = m
    BY <1>2
  <2>4. queue' = (queue \ Rows(r.id)) \cup N /\ UNCHANGED <<edges, used>>
    BY <1>8, <2>1
  <2> HIDE DEF N
  <2> QED BY <1>4, <2>2, <2>3, <2>4
<1>9. CASE UNCHANGED <<edges, queue, used>>
  <2>1. queue' = (queue \ Rows(r.id)) \cup Rows(r.id)
    BY <1>9 DEF Rows
  <2>2. \A n, m \in Rows(r.id) : n = m
    BY <1>2
  <2> QED BY <1>2, <1>4, <1>9, <2>1, <2>2
<1> QED BY <1>5, <1>6, <1>7, <1>8, <1>9 DEF ApplyItem, WriteAndAccept, r, run

\* A refused transaction, a rejection and a rollback write one row each.
LEMMA OtherWritesAgree ==
  ASSUME OneProcess, AgreementInv, TypeOK', NEW p \in Process,
         BusyItem(p) \/ RejectItem(p) \/ RollbackItem(p),
         job[p].item # NoItem
  PROVE  AgreementInv'
<1> USE DEF AgreementInv
<1> DEFINE r == job[p].item.row
<1>1. Advance(p, r.id)
  BY DEF BusyItem, RejectItem, RollbackItem
<1>2. /\ \A q \in Rows(r.id) : q \in queue /\ q \in Row /\ q.id = r.id /\ q = r
      /\ job[p].kind \in {"apply", "reject"} => \A q \in Rows(r.id) : q.state = "pending"
  <2>1. job[p].kind \in {"apply", "reject", "rollback"}
    BY DEF BusyItem, RejectItem, RollbackItem, TypeOK, Job, ReadsAreCurrent
  <2> QED BY <2>1 DEF ReadsAreCurrent, Rows, TypeOK
<1>3. used' = used /\ edges' \subseteq edges
  BY DEF BusyItem, RejectItem, RollbackItem
<1>4. job[p].kind \in {"apply", "reject"} /\ Rows(r.id) # {} => \A e \in edges : e.by # r.id
  BY <1>2, PendingHasNoEdge
<1> HIDE DEF r
<1>5. ASSUME NEW N, queue' = (queue \ Rows(r.id)) \cup N,
             \A n \in N : n.id = r.id /\ Rows(r.id) # {}, \A n, m \in N : n = m,
             Rows(r.id) # {} => \A e \in edges' : e.by # r.id
      PROVE  AgreementInv'
  <2>1. \A e \in edges', n \in N : e.by # r.id
    BY <1>5
  <2> QED BY <1>1, <1>3, <1>5, <2>1, RowWriteAgrees
<1>6. CASE BusyItem(p) /\ job[p].kind = "apply" /\ queue' # queue
  <2>1. queue' = (queue \ Rows(r.id)) \cup {Reopened(q) : q \in Rows(r.id)}
    BY <1>6 DEF BusyItem, r
  <2> DEFINE N == {Reopened(q) : q \in Rows(r.id)}
  <2>2. \A n \in N : n.id = r.id /\ Rows(r.id) # {}
    BY <1>2, ReopenedColumns
  <2>3. \A n, m \in N : n = m
    BY <1>2
  <2>4. queue' = (queue \ Rows(r.id)) \cup N
    BY <2>1
  <2> HIDE DEF N
  <2> QED BY <1>3, <1>4, <1>5, <1>6, <2>2, <2>3, <2>4
<1>7. CASE BusyItem(p) /\ queue' = queue
  <2>1. edges' = edges
    BY <1>7 DEF BusyItem
  <2>2. job[p] \in Job /\ job'[p] = Rest(p, r.id) /\ \A q \in Process : q = p
    BY <1>1 DEF TypeOK, Advance, OneProcess
  <2>3. \A i : Rows(i)' = Rows(i)
    BY <1>7 DEF Rows
  <2>4. ReadsAreCurrent' /\ (job'[p].kind = "apply" => job'[p].item = NoItem)
    BY <2>2, <2>3, RestColumns DEF ReadsAreCurrent, Idle
  <2> QED BY <1>3, <1>7, <2>1, <2>2, <2>4, ReadAgrees
<1>8. CASE RejectItem(p)
  <2>1. queue' = (queue \ Rows(r.id)) \cup {Decide(q, "rejected") : q \in Rows(r.id)}
        /\ job[p].kind = "reject"
    BY <1>8 DEF RejectItem, r
  <2> DEFINE N == {Decide(q, "rejected") : q \in Rows(r.id)}
  <2>2. \A n \in N : n.id = r.id /\ Rows(r.id) # {}
    BY <1>2, DecideColumns
  <2>3. \A n, m \in N : n = m
    BY <1>2
  <2>4. queue' = (queue \ Rows(r.id)) \cup N
    BY <2>1
  <2> HIDE DEF N
  <2> QED BY <1>3, <1>4, <1>5, <2>1, <2>2, <2>3, <2>4
<1>9. CASE RollbackItem(p)
  <2>1. /\ queue' = (queue \ Rows(r.id)) \cup {Decide(q, "rolled_back") : q \in Rows(r.id)}
        /\ edges' = {e \in edges : e.id # r.result}
    BY <1>9 DEF RollbackItem, r
  <2> DEFINE N == {Decide(q, "rolled_back") : q \in Rows(r.id)}
  <2>2. \A n \in N : n.id = r.id /\ Rows(r.id) # {}
    BY <1>2, DecideColumns
  <2>3. \A n, m \in N : n = m
    BY <1>2
  <2>4. Rows(r.id) # {} => \A e \in edges' : e.by # r.id
    BY <1>2, <2>1 DEF GraphMatchesQueue
  <2>5. queue' = (queue \ Rows(r.id)) \cup N
    BY <2>1
  <2> HIDE DEF N
  <2> QED BY <1>5, <2>2, <2>3, <2>4, <2>5
<1>10. BusyItem(p) => job[p].kind = "apply" \/ queue' = queue
  BY DEF BusyItem
<1> QED BY <1>6, <1>7, <1>8, <1>9, <1>10

\* Retention expires pending rows, which have written no edge, and prunes.
LEMMA RetentionAgrees ==
  ASSUME OneProcess, AgreementInv, TypeOK', Retention
  PROVE  AgreementInv'
<1> USE DEF AgreementInv
<1>1. PICK p \in Process : job[p] = Idle
  BY DEF Retention, Free
<1>2. UNCHANGED <<edges, job, used>>
  BY DEF Retention
<1>3. ReadsAreCurrent' /\ \A q \in Process : (job[q].kind # "apply")'
  BY <1>1, <1>2, NothingRead
<1>4. \A q \in queue : Expire(q).id = q.id /\ (Expire(q) = q \/ q.state = "pending")
  BY DecideColumns DEF Expire, TypeOK
<1>5. \A r \in queue' : \E q \in queue : r = Expire(q)
  BY DEF Retention
<1>6. IdsTaken' /\ OneRowPerId'
  BY <1>2, <1>3, <1>4, <1>5 DEF IdsTaken, OneRowPerId
<1>7. GraphMatchesQueue'
  BY <1>2, <1>4, <1>5 DEF GraphMatchesQueue
<1> QED BY <1>3, <1>6, <1>7

\* Empty tables agree.
LEMMA AgreementBegins == Init => AgreementInv
<1> SUFFICES ASSUME Init PROVE AgreementInv
  OBVIOUS
<1>1. TypeOK
  BY TypeInit
<1>2. IdsTaken /\ OneRowPerId /\ ReadsAreCurrent /\ GraphMatchesQueue
  BY DEF Init, Idle, IdsTaken, OneRowPerId, ReadsAreCurrent, GraphMatchesQueue
<1> QED BY <1>1, <1>2 DEF AgreementInv

\* Every step of the one process, and of its callers, keeps the agreement.
LEMMA AgreementKept ==
  ASSUME OneProcess, AgreementInv, [Next]_vars
  PROVE  AgreementInv'
<1>1. TypeOK'
  BY TypeStep DEF AgreementInv
<1>2. CASE ReviewNext
  <2>1. PICK p \in Process :
          \/ \E ids \in SUBSET {r.id : r \in Pending}, run \in RunId : StartApply(p, ids, run)
          \/ \E id \in job[p].todo : GateItem(p, id)
          \/ ApplyItem(p)
          \/ BusyItem(p)
          \/ \E r \in queue : StartReject(p, r)
          \/ RejectItem(p)
          \/ \E run \in RunId : StartRollback(p, run)
          \/ \E r \in job[p].manifest : CheckItem(p, r)
          \/ RollbackItem(p)
          \/ Crash(p)
    BY <1>2 DEF ReviewNext
  <2>2. BusyItem(p) \/ RejectItem(p) \/ RollbackItem(p) => job[p].item # NoItem
    BY DEF BusyItem, RejectItem, RollbackItem
  <2> QED BY <1>1, <2>1, <2>2, ReadStepAgrees, ApplyItemAgrees, OtherWritesAgree
<1>3. CASE Tick
  BY <1>1, <1>3 DEF Tick, AgreementInv, IdsTaken, OneRowPerId, ReadsAreCurrent,
                    GraphMatchesQueue, Rows
<1>4. CASE UNCHANGED vars
  BY <1>1, <1>4 DEF vars, AgreementInv, IdsTaken, OneRowPerId, ReadsAreCurrent,
                    GraphMatchesQueue, Rows
<1> QED BY <1>1, <1>2, <1>3, <1>4, GraphNextAgrees, EnqueueNextAgrees,
           RetentionAgrees DEF Next

\* When one process serves the database, the graph and the queue never
\* diverge: an edge written by a proposal is there only while its row is
\* accepted and names it.
THEOREM GraphAgrees == ASSUME OneProcess PROVE Spec => []GraphMatchesQueue
<1>1. AgreementInv /\ [Next]_vars => AgreementInv'
  BY AgreementKept
<1>2. AgreementInv => GraphMatchesQueue
  BY DEF AgreementInv
<1> QED BY <1>1, <1>2, AgreementBegins, PTL DEF Spec

-----------------------------------------------------------------------------
(* One edge per pair, however many processes write.                        *)

\* Replacing whatever joins a pair by one edge leaves one.
LEMMA WithEdgeKeepsPairs ==
  ASSUME OneEdgePerPair, NEW id, NEW s, NEW t, NEW ty, NEW by,
         edges' = WithEdge(id, s, t, ty, by)
  PROVE  OneEdgePerPair'
  BY DEF OneEdgePerPair, WithEdge, Between

\* No interleaving of callers, applies, rollbacks and crashes, in any number
\* of processes, joins two thoughts by two edges.
THEOREM PairsAreSingle == Spec => []OneEdgePerPair
<1>1. Init => OneEdgePerPair
  BY DEF Init, OneEdgePerPair
<1>2. TypeOK /\ OneEdgePerPair /\ [Next]_vars => OneEdgePerPair'
  <2> SUFFICES ASSUME TypeOK, OneEdgePerPair, [Next]_vars PROVE OneEdgePerPair'
    OBVIOUS
  <2>1. CASE edges' \subseteq edges
    BY <2>1 DEF OneEdgePerPair
  <2>2. CASE \E s, t \in Thought, ty \in EdgeType : Link(s, t, ty)
    BY <2>2, WithEdgeKeepsPairs DEF Link
  <2>3. CASE \E e \in edges, ty \in EdgeType : Retype(e, ty)
    <3>1. PICK e \in edges, ty \in EdgeType : Retype(e, ty)
      BY <2>3
    <3>2. PICK f : /\ edges' = (edges \ {e}) \cup {f}
                   /\ \E id : f = [e EXCEPT !.id = id, !.type = ty, !.by = User]
      BY <3>1 DEF Retype
    <3>3. {f.src, f.dst} = {e.src, e.dst}
      BY <3>2 DEF TypeOK, Edge
    <3>4. \A x \in edges \ {e} : {x.src, x.dst} # {f.src, f.dst}
      BY <3>3 DEF OneEdgePerPair
    <3> QED BY <3>2, <3>4 DEF OneEdgePerPair
  <2>4. CASE \E p \in Process : ApplyItem(p)
    <3>1. PICK p \in Process : ApplyItem(p)
      BY <2>4
    <3>2. edges' = edges \/ \E id, s, t, ty, by : edges' = WithEdge(id, s, t, ty, by)
      BY <3>1 DEF ApplyItem, WriteAndAccept
    <3> QED BY <2>1, <3>2, WithEdgeKeepsPairs
  <2>5. CASE UNCHANGED vars
    BY <2>1, <2>5 DEF vars
  <2>6. \/ \E s, t \in Thought, ty \in EdgeType : Link(s, t, ty)
        \/ \E e \in edges, ty \in EdgeType : Retype(e, ty)
        \/ \E p \in Process : ApplyItem(p)
        \/ edges' \subseteq edges
        \/ UNCHANGED vars
    <3>1. GraphNext => \/ \E s, t \in Thought, ty \in EdgeType : Link(s, t, ty)
                       \/ \E e \in edges, ty \in EdgeType : Retype(e, ty)
                       \/ edges' \subseteq edges
      BY DEF GraphNext, Unlink, UpdateThought, DeleteThought
    <3>2. EnqueueNext => edges' = edges
      BY DEF EnqueueNext, StartEnqueue, FinishEnqueue, AbandonEnqueue
    <3>3. ReviewNext => (\E p \in Process : ApplyItem(p)) \/ edges' \subseteq edges
      BY DEF ReviewNext, StartApply, GateItem, BusyItem, StartReject, RejectItem,
             StartRollback, CheckItem, RollbackItem, Crash
    <3>4. Retention \/ Tick => edges' = edges
      BY DEF Retention, Tick
    <3> QED BY <3>1, <3>2, <3>3, <3>4 DEF Next
  <2> QED BY <2>1, <2>2, <2>3, <2>4, <2>5, <2>6
<1> QED BY <1>1, <1>2, TypeInit, TypeStep, PTL DEF Spec

-----------------------------------------------------------------------------
(* The rows a step leaves, when it queues no item.                         *)

SameItem(q, n) ==
  n.id = q.id /\ n.src = q.src /\ n.dst = q.dst /\ n.type = q.type

\* An apply's row has given out its id, and stands for the item it was read as.
KeysRead ==
  \A p \in Process : job[p].kind = "apply" /\ job[p].item # NoItem =>
    /\ job[p].item.row.id \in used.row
    /\ \A q \in Rows(job[p].item.row.id) : ItemKey(q) = ItemKey(job[p].item.row)

\* No live row but that of `id` is for the item of q.
Unblocked(q, id) ==
  \A x \in queue : x.state = "pending" /\ ItemKey(x) = ItemKey(q) => x.id = id

\* F is what a step makes of the rows it leaves; only the row of `id` may
\* become pending again.
Rewrites(F, id) ==
  /\ queue' \subseteq {F[q] : q \in queue}
  /\ \A q \in queue :
       /\ SameItem(q, F[q])
       /\ F[q].state = "pending" => q.state = "pending" \/ (q.id = id /\ Unblocked(q, id))

\* Rows only disappear by retention, and with their thoughts.
Loses(F) ==
  queue' = {F[q] : q \in queue} \/ Retention \/ \E t \in Thought : DeleteThought(t)

\* A decision keeps the item of the row.
LEMMA DecisionKeepsItem ==
  ASSUME NEW q \in Row
  PROVE  /\ \A st : SameItem(q, Decide(q, st)) /\ Decide(q, st).state = st
         /\ \A run : /\ SameItem(q, AcceptIdempotent(q, run))
                     /\ AcceptIdempotent(q, run).state = "accepted"
         /\ \A run, es, id : /\ SameItem(q, AcceptWith(q, run, es, id))
                             /\ AcceptWith(q, run, es, id).state = "accepted"
         /\ SameItem(q, Reopened(q)) /\ Reopened(q).state = "pending"
         /\ SameItem(q, Refreshed(q)) /\ Refreshed(q).state = q.state
<1>1. \A st : SameItem(q, Decide(q, st)) /\ Decide(q, st).state = st
  BY DEF Decide, Row, SameItem
<1>2. ASSUME NEW run
      PROVE  SameItem(q, AcceptIdempotent(q, run)) /\ AcceptIdempotent(q, run).state = "accepted"
  <2> DEFINE a == Decide(q, "accepted")
  <2>1. /\ SameItem(q, a) /\ a.state = "accepted"
        /\ DOMAIN a = DOMAIN q /\ a = [x \in DOMAIN a |-> a[x]]
    BY <1>1 DEF Decide, Row
  <2>2. AcceptIdempotent(q, run) = [a EXCEPT !.run = run, !.result = Idempotent]
    BY DEF AcceptIdempotent
  <2> HIDE DEF a
  <2>3. {"id", "src", "dst", "type", "state"} \subseteq DOMAIN a
    BY <2>1 DEF Row
  <2> QED BY <2>1, <2>2, <2>3 DEF SameItem
<1>3. ASSUME NEW run, NEW es, NEW id
      PROVE  /\ SameItem(q, AcceptWith(q, run, es, id))
             /\ AcceptWith(q, run, es, id).state = "accepted"
  <2> DEFINE a == Decide(q, "accepted")
             fp == PairFingerprint(es, q.src, q.dst)
  <2>1. /\ SameItem(q, a) /\ a.state = "accepted"
        /\ DOMAIN a = DOMAIN q /\ a = [x \in DOMAIN a |-> a[x]]
    BY <1>1 DEF Decide, Row
  <2>2. AcceptWith(q, run, es, id) = [a EXCEPT !.run = run, !.result = id, !.fp = fp]
    BY DEF AcceptWith
  <2> HIDE DEF a, fp
  <2>3. {"id", "src", "dst", "type", "state"} \subseteq DOMAIN a
    BY <2>1 DEF Row
  <2> QED BY <2>1, <2>2, <2>3 DEF SameItem
<1>4. SameItem(q, Reopened(q)) /\ Reopened(q).state = "pending"
  BY DEF Reopened, Decide, Row, SameItem
<1>5. SameItem(q, Refreshed(q)) /\ Refreshed(q).state = q.state
  BY DEF Refreshed, Row, SameItem
<1> QED BY <1>1, <1>2, <1>3, <1>4, <1>5

\* Writing the rows of one id rewrites them.
LEMMA WriteRewrites ==
  ASSUME NEW id, NEW G, queue' = (queue \ Rows(id)) \cup {G[q] : q \in Rows(id)},
         \A q \in Rows(id) : SameItem(q, G[q]) /\ (G[q].state = "pending" => Unblocked(q, id))
  PROVE  \E F : Rewrites(F, id) /\ Loses(F)
<1> DEFINE F == [q \in queue |-> IF q.id = id THEN G[q] ELSE q]
<1>1. \A q \in queue : q.id = id => q \in Rows(id)
  BY DEF Rows
<1>2. \A q \in Rows(id) : q \in queue /\ q.id = id
  BY DEF Rows
<1>3. queue' = {F[q] : q \in queue}
  BY <1>1, <1>2
<1>4. \A q \in queue :
        /\ SameItem(q, F[q])
        /\ F[q].state = "pending" => q.state = "pending" \/ (q.id = id /\ Unblocked(q, id))
  BY <1>1 DEF SameItem
<1> HIDE DEF F
<1> QED BY <1>3, <1>4 DEF Rewrites, Loses

\* Every step that does not queue items rewrites the rows it leaves.
LEMMA RowsRewritten ==
  ASSUME TypeOK, KeysRead, [Next]_vars,
         ~\E pl \in plans : \E items \in SUBSET PlanItems(pl) : FinishEnqueue(pl, items)
  PROVE  used'.row = used.row /\ \E F, id : Rewrites(F, id) /\ Loses(F)
<1>1. ASSUME queue' \subseteq queue, queue' = queue \/ \E t \in Thought : DeleteThought(t)
      PROVE  \E F, id : Rewrites(F, id) /\ Loses(F)
  <2> DEFINE F == [q \in queue |-> q]
  <2>1. Rewrites(F, 0)
    BY <1>1 DEF Rewrites, SameItem
  <2>2. queue = {F[q] : q \in queue}
    OBVIOUS
  <2> HIDE DEF F
  <2> QED BY <1>1, <2>1, <2>2 DEF Loses
<1>2. \A q \in queue : q \in Row
  BY DEF TypeOK
<1>3. CASE GraphNext
  <2>1. queue' \subseteq queue /\ (queue' = queue \/ \E t \in Thought : DeleteThought(t))
    BY <1>3 DEF GraphNext, Link, Unlink, Retype, UpdateThought, DeleteThought
  <2>2. used'.row = used.row
    BY <1>3 DEF GraphNext, Link, Unlink, Retype, UpdateThought, DeleteThought, UseEdge, TypeOK
  <2> QED BY <1>1, <2>1, <2>2
<1>4. CASE EnqueueNext
  BY <1>1, <1>4 DEF EnqueueNext, StartEnqueue, AbandonEnqueue
<1>5. CASE ReviewNext
  <2>1. PICK p \in Process :
          \/ \E ids \in SUBSET {r.id : r \in Pending}, run \in RunId : StartApply(p, ids, run)
          \/ \E id \in job[p].todo : GateItem(p, id)
          \/ ApplyItem(p)
          \/ BusyItem(p)
          \/ \E r \in queue : StartReject(p, r)
          \/ RejectItem(p)
          \/ \E run \in RunId : StartRollback(p, run)
          \/ \E r \in job[p].manifest : CheckItem(p, r)
          \/ RollbackItem(p)
          \/ Crash(p)
    BY <1>5 DEF ReviewNext
  <2> DEFINE r == job[p].item.row
             run == job[p].run
  <2>2. \A q \in Rows(r.id) : q \in Row
    BY <1>2 DEF Rows
  <2>3. CASE ApplyItem(p)
    <3>1. used'.row = used.row
      BY <2>3 DEF ApplyItem, WriteAndAccept, UseEdge, TypeOK
    <3>2. CASE queue' = (queue \ Rows(r.id)) \cup {Decide(q, "stale") : q \in Rows(r.id)}
      <4> DEFINE G == [q \in Rows(r.id) |-> Decide(q, "stale")]
      <4>1. \A q \in Rows(r.id) : SameItem(q, G[q]) /\ G[q].state # "pending"
        BY <2>2, DecisionKeepsItem
      <4>2. {G[q] : q \in Rows(r.id)} = {Decide(q, "stale") : q \in Rows(r.id)}
        OBVIOUS
      <4> HIDE DEF G
      <4> QED BY <3>1, <3>2, <4>1, <4>2, WriteRewrites
    <3>3. CASE queue' = (queue \ Rows(r.id)) \cup {AcceptIdempotent(q, run) : q \in Rows(r.id)}
      <4> DEFINE G == [q \in Rows(r.id) |-> AcceptIdempotent(q, run)]
      <4>1. \A q \in Rows(r.id) : SameItem(q, G[q]) /\ G[q].state # "pending"
        BY <2>2, DecisionKeepsItem
      <4>2. {G[q] : q \in Rows(r.id)} = {AcceptIdempotent(q, run) : q \in Rows(r.id)}
        OBVIOUS
      <4> HIDE DEF G
      <4> QED BY <3>1, <3>3, <4>1, <4>2, WriteRewrites
    <3>4. CASE \E es, id : queue' = (queue \ Rows(r.id))
                              \cup {AcceptWith(q, run, es, id) : q \in Rows(r.id)}
      <4>1. PICK es, id : queue' = (queue \ Rows(r.id))
                              \cup {AcceptWith(q, run, es, id) : q \in Rows(r.id)}
        BY <3>4
      <4> DEFINE G == [q \in Rows(r.id) |-> AcceptWith(q, run, es, id)]
      <4>2. \A q \in Rows(r.id) : SameItem(q, G[q]) /\ G[q].state # "pending"
        BY <2>2, DecisionKeepsItem
      <4>3. {G[q] : q \in Rows(r.id)} = {AcceptWith(q, run, es, id) : q \in Rows(r.id)}
        OBVIOUS
      <4> HIDE DEF G
      <4> QED BY <3>1, <4>1, <4>2, <4>3, WriteRewrites
    <3>5. CASE queue' = queue
      BY <1>1, <3>1, <3>5
    <3>6. \/ queue' = queue
          \/ queue' = (queue \ Rows(r.id)) \cup {Decide(q, "stale") : q \in Rows(r.id)}
          \/ queue' = (queue \ Rows(r.id)) \cup {AcceptIdempotent(q, run) : q \in Rows(r.id)}
          \/ \E es, id : queue' = (queue \ Rows(r.id))
                              \cup {AcceptWith(q, run, es, id) : q \in Rows(r.id)}
      <4>1. \/ queue' = (queue \ Rows(r.id)) \cup {Decide(q, "stale") : q \in Rows(r.id)}
            \/ queue' = (queue \ Rows(r.id)) \cup {AcceptIdempotent(q, run) : q \in Rows(r.id)}
            \/ WriteAndAccept(r, run)
        BY <2>3, ZenonT(30) DEF ApplyItem
      <4> HIDE DEF r, run
      <4> QED BY <4>1 DEF WriteAndAccept
    <3> QED BY <3>2, <3>3, <3>4, <3>5, <3>6
  <2>4. CASE BusyItem(p)
    <3>1. used' = used
      BY <2>4 DEF BusyItem
    <3>2. CASE queue' = queue
      BY <1>1, <3>1, <3>2
    <3>3. CASE /\ job[p].kind = "apply" /\ job[p].item # NoItem
               /\ ~\E q \in Pending : q.id # r.id /\ ItemKey(q) = ItemKey(r)
               /\ queue' = (queue \ Rows(r.id)) \cup {Reopened(q) : q \in Rows(r.id)}
      <4>1. \A q \in Rows(r.id) : ItemKey(q) = ItemKey(r)
        BY <3>3 DEF KeysRead
      <4>2. \A q \in Rows(r.id) : SameItem(q, Reopened(q)) /\ Unblocked(q, r.id)
        <5> HIDE DEF r
        <5> QED BY <2>2, <3>3, <4>1, DecisionKeepsItem DEF Unblocked, Pending
      <4> DEFINE G == [q \in Rows(r.id) |-> Reopened(q)]
      <4>3. \A q \in Rows(r.id) : SameItem(q, G[q]) /\ Unblocked(q, r.id)
        BY <4>2
      <4>4. {G[q] : q \in Rows(r.id)} = {Reopened(q) : q \in Rows(r.id)}
        OBVIOUS
      <4> HIDE DEF G
      <4> QED BY <3>1, <3>3, <4>3, <4>4, WriteRewrites
    <3> QED BY <2>4, <3>2, <3>3 DEF BusyItem
  <2>5. CASE RejectItem(p)
    <3> DEFINE G == [q \in Rows(r.id) |-> Decide(q, "rejected")]
    <3>1. \A q \in Rows(r.id) : SameItem(q, G[q]) /\ G[q].state # "pending"
      BY <2>2, DecisionKeepsItem
    <3>2. used' = used /\ queue' = (queue \ Rows(r.id)) \cup {G[q] : q \in Rows(r.id)}
      BY <2>5 DEF RejectItem
    <3> HIDE DEF G
    <3> QED BY <3>1, <3>2, WriteRewrites
  <2>6. CASE RollbackItem(p)
    <3> DEFINE G == [q \in Rows(r.id) |-> Decide(q, "rolled_back")]
    <3>1. \A q \in Rows(r.id) : SameItem(q, G[q]) /\ G[q].state # "pending"
      BY <2>2, DecisionKeepsItem
    <3>2. used' = used /\ queue' = (queue \ Rows(r.id)) \cup {G[q] : q \in Rows(r.id)}
      BY <2>6 DEF RollbackItem
    <3> HIDE DEF G
    <3> QED BY <3>1, <3>2, WriteRewrites
  <2>7. CASE queue' = queue /\ used' = used
    BY <1>1, <2>7
  <2>8. \/ ApplyItem(p) \/ BusyItem(p) \/ RejectItem(p) \/ RollbackItem(p)
        \/ queue' = queue /\ used' = used
    BY <2>1 DEF StartApply, GateItem, StartReject, StartRollback, CheckItem, Crash
  <2> QED BY <2>3, <2>4, <2>5, <2>6, <2>7, <2>8
<1>6. CASE Retention
  <2> DEFINE F == [q \in queue |-> Expire(q)]
  <2>1. \A q \in queue : /\ SameItem(q, Expire(q))
                         /\ Expire(q).state = "pending" => q.state = "pending"
    BY <1>2, DecisionKeepsItem DEF Expire, SameItem
  <2>2. queue' \subseteq {Expire(q) : q \in queue} /\ used' = used
    BY <1>6 DEF Retention
  <2>3. Rewrites(F, 0)
    BY <2>1, <2>2 DEF Rewrites
  <2> HIDE DEF F
  <2> QED BY <1>6, <2>2, <2>3 DEF Loses
<1>7. CASE Tick \/ UNCHANGED vars
  BY <1>1, <1>7 DEF Tick, vars
<1> QED BY <1>3, <1>4, <1>5, <1>6, <1>7 DEF Next

\* Queueing items refreshes rows and adds new ones, under fresh ids and for
\* items without a live row, between thoughts that are there.
LEMMA RowsQueued ==
  ASSUME TypeOK, NEW pl \in plans, NEW items \in SUBSET PlanItems(pl),
         FinishEnqueue(pl, items)
  PROVE  \E F, N :
           /\ queue' = {F[q] : q \in queue} \cup N
           /\ \A q \in queue : SameItem(q, F[q]) /\ F[q].state = q.state
           /\ \A n \in N : /\ n.id \notin used.row /\ n.id \in used'.row
                           /\ Exists(n.src) /\ Exists(n.dst)
                           /\ \A q \in queue : q.state = "pending" => ItemKey(q) # ItemKey(n)
           /\ \A n, m \in N : n.id = m.id \/ ItemKey(n) = ItemKey(m) => n = m
           /\ used.row \subseteq used'.row
<1> DEFINE old == AlreadyQueued(pl.src, items)
           fresh == {x \in items : <<pl.src, x[1], x[2]>> \notin {ItemKey(r) : r \in old}}
<1>1. PICK id \in [fresh -> RowId \ used.row] :
        /\ \A x, y \in fresh : id[x] = id[y] => x = y
        /\ queue' = (queue \ old) \cup {Refreshed(r) : r \in old}
                      \cup {NewRow(id[x], pl.src, x) : x \in fresh}
        /\ used' = [used EXCEPT !.row = @ \cup {id[x] : x \in fresh}]
  BY DEF FinishEnqueue
<1> DEFINE F == [q \in queue |-> IF q \in old THEN Refreshed(q) ELSE q]
           N == {NewRow(id[x], pl.src, x) : x \in fresh}
<1>2. \A q \in old : q \in queue /\ q \in Row
  BY DEF AlreadyQueued, Pending, TypeOK
<1>3. \A q \in queue : q.state = "pending" /\ (\E x \in items : ItemKey(q) = <<pl.src, x[1], x[2]>>)
                       => q \in old
  BY DEF AlreadyQueued, Pending
<1>4. \A x \in fresh : /\ x \in items /\ x \in pl.pool \X PlanType /\ Exists(x[1])
                       /\ \A q \in old : ItemKey(q) # <<pl.src, x[1], x[2]>>
  BY DEF PlanItems
<1>5. Exists(pl.src) /\ OneTypePerTarget(items)
  BY DEF FinishEnqueue, Exists, Active
<1>6. \A x \in fresh : LET n == NewRow(id[x], pl.src, x) IN
        n.id = id[x] /\ n.src = pl.src /\ n.dst = x[1] /\ n.type = x[2]
  BY DEF NewRow
<1>7. /\ \A q \in queue : SameItem(q, F[q]) /\ F[q].state = q.state
      /\ queue' = {F[q] : q \in queue} \cup N
  <2> HIDE DEF old, fresh
  <2>1. \A q \in queue : SameItem(q, F[q]) /\ F[q].state = q.state
    BY <1>2, DecisionKeepsItem DEF SameItem
  <2>2. {F[q] : q \in queue} = (queue \ old) \cup {Refreshed(r) : r \in old}
    BY <1>2
  <2> QED BY <1>1, <2>1, <2>2
<1> HIDE DEF F
<1>8. used.row \subseteq used'.row /\ \A x \in fresh : id[x] \in used'.row
  <2> HIDE DEF fresh
  <2> QED BY <1>1 DEF TypeOK
<1>9. \A n \in N : /\ n.id \notin used.row /\ n.id \in used'.row
                  /\ Exists(n.src) /\ Exists(n.dst)
                  /\ \A q \in queue : q.state = "pending" => ItemKey(q) # ItemKey(n)
  <2> SUFFICES ASSUME NEW x \in fresh
               PROVE  LET n == NewRow(id[x], pl.src, x) IN
                      /\ n.id \notin used.row /\ n.id \in used'.row
                      /\ Exists(n.src) /\ Exists(n.dst)
                      /\ \A q \in queue : q.state = "pending" => ItemKey(q) # ItemKey(n)
    OBVIOUS
  <2> DEFINE n == NewRow(id[x], pl.src, x)
  <2>1. n.id = id[x] /\ n.src = pl.src /\ n.dst = x[1] /\ n.type = x[2]
    BY <1>6
  <2> HIDE DEF n, old, fresh
  <2>2. ItemKey(n) = <<pl.src, x[1], x[2]>> /\ x \in items
    BY <1>4, <2>1 DEF ItemKey
  <2>3. id[x] \notin used.row
    BY <1>1
  <2> QED BY <1>3, <1>4, <1>5, <1>8, <2>1, <2>2, <2>3 DEF n
<1>10. \A n, m \in N : n.id = m.id \/ ItemKey(n) = ItemKey(m) => n = m
  <2> SUFFICES ASSUME NEW x \in fresh, NEW y \in fresh,
                      LET n == NewRow(id[x], pl.src, x)
                          m == NewRow(id[y], pl.src, y)
                      IN  n.id = m.id \/ ItemKey(n) = ItemKey(m)
               PROVE  x = y
    OBVIOUS
  <2>1. x \in items /\ y \in items
    BY <1>4
  <2>2. id[x] = id[y] \/ x[1] = y[1]
    BY <1>6 DEF ItemKey
  <2> HIDE DEF old, fresh
  <2> QED BY <1>1, <1>5, <2>1, <2>2 DEF OneTypePerTarget
<1> HIDE DEF N
<1> QED BY <1>7, <1>8, <1>9, <1>10

-----------------------------------------------------------------------------
(* Every item has one live row.                                            *)

QueueInv ==
  /\ TypeOK /\ OneRowPerId /\ KeysRead /\ OneLiveRowPerItem
  /\ \A r \in queue : r.id \in used.row

\* What a job is at changes only when it reads a row that is pending.
LEMMA ItemsRead ==
  ASSUME TypeOK, [Next]_vars, NEW p \in Process
  PROVE  \/ job'[p] = job[p]
         \/ job'[p].item = NoItem \/ job'[p].kind \in {"reject", "rollback"}
         \/ UNCHANGED <<queue, used>> /\ job'[p].item.row \in queue
<1>1. CASE job' = job
  BY <1>1
<1>2. ASSUME NEW q \in Process, q # p, \E j : job' = [job EXCEPT ![q] = j]
      PROVE  job'[p] = job[p]
  BY <1>2 DEF TypeOK
<1>3. ASSUME NEW id, Advance(p, id)
      PROVE  job'[p].item = NoItem
  <2>1. job[p] \in Job /\ job'[p] = Rest(p, id)
    BY <1>3 DEF Advance, TypeOK
  <2> QED BY <2>1, RestColumns DEF Idle
<1>4. ASSUME NEW q \in Process,
             \/ \E ids \in SUBSET {r.id : r \in Pending}, run \in RunId : StartApply(q, ids, run)
             \/ \E id \in job[q].todo : GateItem(q, id)
             \/ ApplyItem(q) \/ BusyItem(q)
             \/ \E r \in queue : StartReject(q, r)
             \/ RejectItem(q)
             \/ \E run \in RunId : StartRollback(q, run)
             \/ \E r \in job[q].manifest : CheckItem(q, r)
             \/ RollbackItem(q) \/ Crash(q)
      PROVE  \/ job'[p] = job[p]
             \/ job'[p].item = NoItem \/ job'[p].kind \in {"reject", "rollback"}
             \/ UNCHANGED <<queue, used>> /\ job'[p].item.row \in queue
  <2>1. \E j : job' = [job EXCEPT ![q] = j]
    BY <1>4 DEF StartApply, GateItem, ApplyItem, BusyItem, StartReject, RejectItem,
                StartRollback, CheckItem, RollbackItem, Crash, Advance, Hold
  <2>2. CASE q # p
    BY <1>2, <2>1, <2>2
  <2>3. CASE q = p
    <3>1. CASE \E ids \in SUBSET {r.id : r \in Pending}, run \in RunId : StartApply(p, ids, run)
      BY <3>1 DEF StartApply, Idle, TypeOK
    <3>2. CASE \E id \in job[p].todo : GateItem(p, id)
      <4>1. PICK id \in job[p].todo : GateItem(p, id)
        BY <3>2
      <4>2. CASE \E r \in Rows(id) : Hold(p, r, Gate(r))
        <5>1. PICK r \in Rows(id) : Hold(p, r, Gate(r))
          BY <4>2
        <5>2. job'[p].item.row = r /\ r \in queue
          BY <5>1 DEF Hold, TypeOK, Job, Rows
        <5> QED BY <4>1, <5>2 DEF GateItem
      <4> QED BY <1>3, <4>1, <4>2 DEF GateItem
    <3>3. CASE ApplyItem(p) \/ BusyItem(p) \/ RejectItem(p) \/ RollbackItem(p)
      BY <1>3, <3>3 DEF ApplyItem, BusyItem, RejectItem, RollbackItem
    <3>4. CASE \E r \in queue : StartReject(p, r)
      BY <3>4 DEF StartReject, Idle, TypeOK
    <3>5. CASE \E run \in RunId : StartRollback(p, run)
      BY <3>5 DEF StartRollback, Idle, TypeOK
    <3>6. CASE \E r \in job[p].manifest : CheckItem(p, r)
      <4>1. PICK r \in job[p].manifest : CheckItem(p, r)
        BY <3>6
      <4>2. Hold(p, r, "revert") => job'[p].kind = "rollback"
        BY <4>1 DEF CheckItem, Hold, TypeOK, Job
      <4> QED BY <1>3, <4>1, <4>2 DEF CheckItem
    <3>7. CASE Crash(p)
      BY <3>7 DEF Crash, Idle, TypeOK
    <3> QED BY <1>4, <2>3, <3>1, <3>2, <3>3, <3>4, <3>5, <3>6, <3>7
  <2> QED BY <2>2, <2>3
<1>5. ReviewNext \/ job' = job
  BY DEF Next, vars, GraphNext, EnqueueNext, Retention, Tick, Link, Unlink, Retype,
         UpdateThought, DeleteThought, StartEnqueue, FinishEnqueue, AbandonEnqueue
<1> QED BY <1>1, <1>4, <1>5 DEF ReviewNext

\* The invariant of the queue is inductive for any number of processes.
LEMMA QueueKept ==
  ASSUME QueueInv, [Next]_vars
  PROVE  QueueInv'
<1> USE DEF QueueInv
<1>1. TypeOK'
  BY TypeStep
<1>2. ASSUME \A r \in queue' : r.id \in used'.row, used.row \subseteq used'.row, OneRowPerId',
             \A n \in queue' : n.id \in used.row => \E q \in queue : SameItem(q, n)
      PROVE  KeysRead'
  <2> SUFFICES ASSUME NEW p \in Process, job'[p].kind = "apply", job'[p].item # NoItem
               PROVE  /\ job'[p].item.row.id \in used'.row
                      /\ \A n \in queue' : n.id = job'[p].item.row.id =>
                            ItemKey(n) = ItemKey(job'[p].item.row)
    BY DEF KeysRead, Rows, ItemKey
  <2>1. CASE job'[p] = job[p]
    <3>1. job[p].item.row.id \in used.row
      BY <2>1 DEF KeysRead
    <3>2. ASSUME NEW n \in queue', n.id = job[p].item.row.id
          PROVE  ItemKey(n) = ItemKey(job[p].item.row)
      BY <1>2, <2>1, <3>1, <3>2 DEF KeysRead, Rows, SameItem, ItemKey
    <3> QED BY <1>2, <2>1, <3>1, <3>2
  <2>2. CASE UNCHANGED <<queue, used>> /\ job'[p].item.row \in queue
    <3>1. \A q \in queue : q.id = job'[p].item.row.id => q = job'[p].item.row
      BY <2>2 DEF OneRowPerId
    <3> QED BY <1>2, <2>2, <3>1
  <2> QED BY <2>1, <2>2, ItemsRead
<1>3. CASE \E pl \in plans : \E items \in SUBSET PlanItems(pl) : FinishEnqueue(pl, items)
  <2>1. PICK F, N :
           /\ queue' = {F[q] : q \in queue} \cup N
           /\ \A q \in queue : SameItem(q, F[q]) /\ F[q].state = q.state
           /\ \A n \in N : /\ n.id \notin used.row /\ n.id \in used'.row
                           /\ Exists(n.src) /\ Exists(n.dst)
                           /\ \A q \in queue : q.state = "pending" => ItemKey(q) # ItemKey(n)
           /\ \A n, m \in N : n.id = m.id \/ ItemKey(n) = ItemKey(m) => n = m
           /\ used.row \subseteq used'.row
    BY <1>3, RowsQueued
  <2>2. \A q \in queue : F[q].id = q.id /\ ItemKey(F[q]) = ItemKey(q) /\ F[q].state = q.state
    BY <2>1 DEF SameItem, ItemKey
  <2>3. \A r \in queue' : r.id \in used'.row
    BY <2>1, <2>2
  <2>4. OneRowPerId'
    BY <2>1, <2>2 DEF OneRowPerId
  <2>5. OneLiveRowPerItem'
    BY <2>1, <2>2 DEF OneLiveRowPerItem
  <2>6. \A n \in queue' : n.id \in used.row => \E q \in queue : SameItem(q, n)
    BY <2>1
  <2> QED BY <1>1, <1>2, <2>1, <2>3, <2>4, <2>5, <2>6
<1>4. CASE ~\E pl \in plans : \E items \in SUBSET PlanItems(pl) : FinishEnqueue(pl, items)
  <2>1. used'.row = used.row /\ \E F, id : Rewrites(F, id) /\ Loses(F)
    BY <1>4, RowsRewritten
  <2>2. PICK F, id : Rewrites(F, id)
    BY <2>1
  <2>3. \A q \in queue : F[q].id = q.id /\ ItemKey(F[q]) = ItemKey(q)
    BY <2>2 DEF Rewrites, SameItem, ItemKey
  <2>4. \A n \in queue' : \E q \in queue : n = F[q]
    BY <2>2 DEF Rewrites
  <2>5. (\A r \in queue' : r.id \in used'.row) /\ OneRowPerId'
    BY <2>1, <2>3, <2>4 DEF OneRowPerId
  <2>6. OneLiveRowPerItem'
    <3> SUFFICES ASSUME NEW q \in queue, NEW x \in queue, ItemKey(q) = ItemKey(x),
                        F[q].state = "pending", F[x].state = "pending"
                 PROVE  q = x
      BY <2>3, <2>4 DEF OneLiveRowPerItem
    <3>1. CASE q.state = "pending" /\ x.state = "pending"
      BY <3>1 DEF OneLiveRowPerItem
    <3>2. CASE q.id = id /\ Unblocked(q, id)
      BY <2>2, <3>2 DEF Unblocked, Rewrites, OneRowPerId
    <3>3. CASE x.id = id /\ Unblocked(x, id)
      BY <2>2, <3>3 DEF Unblocked, Rewrites, OneRowPerId
    <3> QED BY <2>2, <3>1, <3>2, <3>3 DEF Rewrites
  <2>7. \A n \in queue' : \E q \in queue : SameItem(q, n)
    BY <2>2 DEF Rewrites
  <2> QED BY <1>1, <1>2, <2>1, <2>5, <2>6, <2>7
<1> QED BY <1>3, <1>4

\* It holds in every state.
LEMMA QueueHolds == Spec => []QueueInv
<1>1. Init => QueueInv
  <2> SUFFICES ASSUME Init PROVE QueueInv
    OBVIOUS
  <2>1. TypeOK
    BY TypeInit
  <2> QED BY <2>1 DEF Init, QueueInv, OneRowPerId, KeysRead, OneLiveRowPerItem, Idle
<1>2. QueueInv /\ [Next]_vars => QueueInv'
  BY QueueKept
<1> QED BY <1>1, <1>2, PTL DEF Spec

\* Whatever processes enqueue, decide, fail and crash together, an item has
\* never two pending rows: enqueueing it again refreshes the one it has, and a
\* failed apply puts a row back only when no other has taken its place.
THEOREM ItemsHaveOneLiveRow == Spec => []OneLiveRowPerItem
<1>1. QueueInv => OneLiveRowPerItem
  BY DEF QueueInv
<1> QED BY <1>1, QueueHolds, PTL

-----------------------------------------------------------------------------
(* Nothing dangles.                                                        *)

\* The endpoints of the edges a step leaves are there.
LEMMA EdgesKeptSound ==
  ASSUME TypeOK, NoDangling, [Next]_vars
  PROVE  \A e \in edges' : Exists(e.src)' /\ Exists(e.dst)'
<1>1. \A e \in edges : Exists(e.src) /\ Exists(e.dst)
  BY DEF NoDangling
<1>2. ASSUME thought' = thought, \A e \in edges' : Exists(e.src) /\ Exists(e.dst)
      PROVE  \A e \in edges' : Exists(e.src)' /\ Exists(e.dst)'
  BY <1>2 DEF Exists
<1>3. ASSUME NEW id, NEW s, NEW t, NEW ty, NEW by, Exists(s), Exists(t), thought' = thought,
             edges' = WithEdge(id, s, t, ty, by)
      PROVE  \A e \in edges' : Exists(e.src)' /\ Exists(e.dst)'
  BY <1>1, <1>2, <1>3 DEF WithEdge
<1>4. CASE GraphNext
  <2>1. CASE \E s, t \in Thought, ty \in EdgeType : Link(s, t, ty)
    BY <1>3, <2>1 DEF Link
  <2>2. CASE \E e \in edges : Unlink(e)
    BY <1>1, <1>2, <2>2 DEF Unlink
  <2>3. CASE \E e \in edges, ty \in EdgeType : Retype(e, ty)
    <3>1. PICK e \in edges, ty \in EdgeType : Retype(e, ty)
      BY <2>3
    <3>2. PICK f : /\ edges' = (edges \ {e}) \cup {f}
                   /\ \E id : f = [e EXCEPT !.id = id, !.type = ty, !.by = User]
      BY <3>1 DEF Retype
    <3>3. f.src = e.src /\ f.dst = e.dst
      BY <3>2 DEF TypeOK, Edge
    <3> QED BY <1>1, <1>2, <3>1, <3>2, <3>3 DEF Retype
  <2>4. CASE \E t \in Thought, st \in Status, p \in Project : UpdateThought(t, st, p)
    <3>1. PICK t \in Thought, st \in Status, p \in Project : UpdateThought(t, st, p)
      BY <2>4
    <3>2. \A u \in Thought : Exists(u) => Exists(u)'
      BY <3>1 DEF UpdateThought, Exists, Status, TypeOK
    <3>3. \A e \in edges : e.src \in Thought /\ e.dst \in Thought
      BY DEF TypeOK, Edge
    <3> QED BY <1>1, <3>1, <3>2, <3>3 DEF UpdateThought
  <2>5. CASE \E t \in Thought : DeleteThought(t)
    <3>1. PICK t \in Thought : DeleteThought(t)
      BY <2>5
    <3>2. \A u \in Thought : Exists(u) /\ u # t => Exists(u)'
      BY <3>1 DEF DeleteThought, Exists, TypeOK
    <3>3. \A e \in edges : e.src \in Thought /\ e.dst \in Thought
      BY DEF TypeOK, Edge
    <3> QED BY <1>1, <3>1, <3>2, <3>3 DEF DeleteThought
  <2> QED BY <1>4, <2>1, <2>2, <2>3, <2>4, <2>5 DEF GraphNext
<1>5. CASE \E p \in Process : ApplyItem(p)
  <2>1. PICK p \in Process : ApplyItem(p)
    BY <1>5
  <2>2. CASE edges' = edges
    BY <1>1, <1>2, <2>1, <2>2 DEF ApplyItem
  <2>3. CASE WriteAndAccept(job[p].item.row, job[p].run)
    <3> DEFINE r == job[p].item.row
    <3>1. \/ edges' = edges
          \/ /\ Exists(r.src) /\ Exists(r.dst)
             /\ \E id : edges' = WithEdge(id, r.src, r.dst, r.type, r.id)
      BY <2>3 DEF WriteAndAccept
    <3>2. thought' = thought
      BY <2>1 DEF ApplyItem
    <3> HIDE DEF r
    <3> QED BY <1>3, <2>2, <3>1, <3>2
  <2> QED BY <2>1, <2>2, <2>3 DEF ApplyItem
<1>6. \/ GraphNext \/ (\E p \in Process : ApplyItem(p))
      \/ thought' = thought /\ edges' \subseteq edges
  <2>1. EnqueueNext => thought' = thought /\ edges' \subseteq edges
    BY DEF EnqueueNext, StartEnqueue, FinishEnqueue, AbandonEnqueue
  <2>2. ReviewNext => \/ \E p \in Process : ApplyItem(p)
                      \/ thought' = thought /\ edges' \subseteq edges
    BY DEF ReviewNext, StartApply, GateItem, BusyItem, StartReject, RejectItem,
           StartRollback, CheckItem, RollbackItem, Crash
  <2>3. Retention \/ Tick \/ UNCHANGED vars => thought' = thought /\ edges' \subseteq edges
    BY DEF Retention, Tick, vars
  <2> QED BY <2>1, <2>2, <2>3 DEF Next
<1> QED BY <1>1, <1>2, <1>4, <1>5, <1>6

\* So are the thoughts of the rows.
LEMMA RowsKeptSound ==
  ASSUME QueueInv, NoDangling, [Next]_vars
  PROVE  \A r \in queue' : Exists(r.src)' /\ Exists(r.dst)'
<1>1. /\ \A r \in queue : Exists(r.src) /\ Exists(r.dst)
      /\ \A r \in queue : r.src \in Thought /\ r.dst \in Thought
  BY DEF NoDangling, QueueInv, TypeOK, Row
<1>2. CASE GraphNext
  <2>1. CASE \E t \in Thought : DeleteThought(t)
    <3>1. PICK t \in Thought : DeleteThought(t)
      BY <2>1
    <3>2. \A u \in Thought : Exists(u) /\ u # t => Exists(u)'
      BY <3>1 DEF DeleteThought, Exists, QueueInv, TypeOK
    <3> QED BY <1>1, <3>1, <3>2 DEF DeleteThought
  <2>2. CASE \E t \in Thought, st \in Status, p \in Project : UpdateThought(t, st, p)
    <3>1. PICK t \in Thought, st \in Status, p \in Project : UpdateThought(t, st, p)
      BY <2>2
    <3>2. \A u \in Thought : Exists(u) => Exists(u)'
      BY <3>1 DEF UpdateThought, Exists, Status, QueueInv, TypeOK
    <3> QED BY <1>1, <3>1, <3>2 DEF UpdateThought
  <2>3. CASE UNCHANGED <<thought, queue>>
    BY <1>1, <2>3 DEF Exists
  <2> QED BY <1>2, <2>1, <2>2, <2>3 DEF GraphNext, Link, Unlink, Retype
<1>3. CASE \E pl \in plans : \E items \in SUBSET PlanItems(pl) : FinishEnqueue(pl, items)
  <2>1. thought' = thought
    BY <1>3 DEF FinishEnqueue
  <2>2. PICK F, N :
           /\ queue' = {F[q] : q \in queue} \cup N
           /\ \A q \in queue : SameItem(q, F[q]) /\ F[q].state = q.state
           /\ \A n \in N : Exists(n.src) /\ Exists(n.dst)
    BY <1>3, RowsQueued DEF QueueInv
  <2> QED BY <1>1, <2>1, <2>2 DEF SameItem, Exists
<1>4. CASE /\ ~\E pl \in plans : \E items \in SUBSET PlanItems(pl) : FinishEnqueue(pl, items)
           /\ thought' = thought
  <2>1. PICK F, id : Rewrites(F, id)
    BY <1>4, RowsRewritten DEF QueueInv
  <2>2. \A n \in queue' : \E q \in queue : SameItem(q, n)
    BY <2>1 DEF Rewrites
  <2> QED BY <1>1, <1>4, <2>2 DEF SameItem, Exists
<1>5. GraphNext \/ thought' = thought
  BY DEF Next, vars, EnqueueNext, StartEnqueue, FinishEnqueue, AbandonEnqueue,
         ReviewNext, StartApply, GateItem, ApplyItem, BusyItem, StartReject, RejectItem,
         StartRollback, CheckItem, RollbackItem, Crash, Retention, Tick
<1> QED BY <1>2, <1>3, <1>4, <1>5

\* Nothing refers to a deleted thought: not an edge an apply writes after the
\* thought was judged, nor a row enqueued after its pool was read.
THEOREM NothingDangles == Spec => []NoDangling
<1>1. Init => NoDangling
  BY DEF Init, NoDangling
<1>2. QueueInv /\ NoDangling /\ [Next]_vars => NoDangling'
  <2> SUFFICES ASSUME QueueInv, NoDangling, [Next]_vars PROVE NoDangling'
    OBVIOUS
  <2>1. \A e \in edges' : Exists(e.src)' /\ Exists(e.dst)'
    BY EdgesKeptSound DEF QueueInv
  <2> QED BY <2>1, RowsKeptSound DEF NoDangling, Exists
<1> QED BY <1>1, <1>2, QueueHolds, PTL DEF Spec

-----------------------------------------------------------------------------
(* Retention.                                                              *)

\* Retention, at whatever time it runs, leaves every accepted row that a
\* rollback would still consider; so does every other step but a deletion of
\* one of its thoughts.
THEOREM WindowIsSpared == Spec => RetentionSparesTheWindow
<1> DEFINE Spares ==
             \A r \in queue : r.state = "accepted" /\ InWindow(r)
                /\ Exists(r.src)' /\ Exists(r.dst)' => \E q \in queue' : q.id = r.id
<1>1. QueueInv /\ [Next]_vars => Spares
  <2> SUFFICES ASSUME QueueInv, [Next]_vars,
                      NEW r \in queue, r.state = "accepted", InWindow(r),
                      Exists(r.src)', Exists(r.dst)'
               PROVE  \E q \in queue' : q.id = r.id
    OBVIOUS
  <2>1. r \in Row
    BY DEF QueueInv, TypeOK
  <2>2. CASE \E pl \in plans : \E items \in SUBSET PlanItems(pl) : FinishEnqueue(pl, items)
    <3>1. PICK F, N : /\ queue' = {F[q] : q \in queue} \cup N
                      /\ \A q \in queue : SameItem(q, F[q])
      BY <2>2, RowsQueued DEF QueueInv
    <3> QED BY <3>1 DEF SameItem
  <2>3. CASE ~\E pl \in plans : \E items \in SUBSET PlanItems(pl) : FinishEnqueue(pl, items)
    <3>1. PICK F, id : Rewrites(F, id) /\ Loses(F)
      BY <2>3, RowsRewritten DEF QueueInv
    <3>2. CASE queue' = {F[q] : q \in queue}
      BY <3>1, <3>2 DEF Rewrites, SameItem
    <3>3. CASE Retention
      <4>1. Expire(r) = r /\ TTL >= 0
        BY <3>3 DEF Expire, Retention
      <4>2. r.decided >= now - TTL
        BY <4>1, BoundsAssumption DEF InWindow
      <4> QED BY <3>3, <4>1, <4>2 DEF Retention
    <3>4. CASE \E t \in Thought : DeleteThought(t)
      <4>1. PICK t \in Thought : DeleteThought(t)
        BY <3>4
      <4>2. ~Exists(t)'
        BY <4>1 DEF DeleteThought, Exists, QueueInv, TypeOK, ThoughtRec
      <4>3. t \notin {r.src, r.dst}
        BY <4>2
      <4> QED BY <4>1, <4>3 DEF DeleteThought
    <3> QED BY <3>1, <3>2, <3>3, <3>4 DEF Loses
  <2> QED BY <2>2, <2>3
<1>2. QueueInv /\ [Next]_vars => [Spares]_vars
  BY <1>1
<1> QED BY <1>2, QueueHolds, PTL DEF Spec, RetentionSparesTheWindow

-----------------------------------------------------------------------------
(* What one process does to the rows it has read.                          *)

\* The rows a job has read are in the queue, a rollback's as accepted under
\* the run it rolls back.
ReadsAreThere ==
  \A p \in Process :
    /\ job[p].kind \in {"apply", "reject"} /\ job[p].item # NoItem =>
         job[p].item.row \in queue
    /\ job[p].kind = "rollback" => \A r \in job[p].manifest :
         r \in queue /\ r.state = "accepted" /\ r.run = job[p].run

\* The verdict of an apply is what the gates would say now.
GatesStand ==
  \A p \in Process : job[p].kind = "apply" /\ job[p].item # NoItem =>
    job[p].item.verdict = Gate(job[p].item.row)

\* An edge a row claims is a given-out one, and the row wrote it.
ClaimsAreOwn ==
  \A r \in queue : r.result \in EdgeId =>
    r.result \in used.edge /\ \A e \in edges : e.id = r.result => e.by = r.id

\* A pending row's fingerprint is not ahead of its thoughts, and behind one of
\* them when that one was edited.
EditsShow ==
  /\ edited \subseteq used.row
  /\ \A r \in queue : r.state = "pending" =>
       /\ r.fp.src.stamp <= thought[r.src].stamp
       /\ r.fp.dst.stamp <= thought[r.dst].stamp
       /\ r.id \in edited => \/ r.fp.src.stamp < thought[r.src].stamp
                             \/ r.fp.dst.stamp < thought[r.dst].stamp

ReviewInv ==
  /\ AgreementInv /\ ReadsAreThere /\ GatesStand
  /\ ClaimsAreOwn /\ EdgeClaimedOnce /\ EditsShow

\* A job wrote n for the row r it is at: it decided a pending row or put it
\* back, applied it, undid an accepted one, or left it as it was.
Written(p, r, n) ==
  /\ Advance(p, r.id) /\ r \in queue /\ n \in Row
  /\ queue' = (queue \ {r}) \cup {n} /\ SameItem(r, n)
  /\ UNCHANGED <<now, thought, edited>> /\ used'.row = used.row
  /\ \/ /\ r.state = "pending" /\ n.result \notin EdgeId
        /\ n.state = "pending" => n.fp = r.fp
        /\ UNCHANGED <<edges, used>>
     \/ /\ job[p].kind = "apply" /\ r.state = "pending"
        /\ Standing(r) /\ Fitting(r) /\ n.state = "accepted"
        /\ n.result \in FreshEdge /\ used'.edge = used.edge \cup {n.result}
        /\ edges' = WithEdge(n.result, r.src, r.dst, r.type, r.id)
     \/ /\ job[p].kind = "rollback" /\ r.state = "accepted" /\ r.run = job[p].run
        /\ n.state = "rolled_back" /\ n.result = NoResult
        /\ edges' = {e \in edges : e.id # r.result} /\ UNCHANGED used
     \/ n = r /\ UNCHANGED <<edges, used>>

\* The gates leave the writer nothing to find but a placeholder.
LEMMA GatedWriterInserts ==
  ASSUME NEW r, Fitting(r)
  PROVE  /\ WriterFinds(r.src, r.dst, r.type) \in {"insert", "upgrade"}
         /\ Exists(r.src) /\ Exists(r.dst)
<1>1. \A e \in Between(edges, r.src, r.dst) : e.type = Placeholder /\ e.type # r.type
  BY DEF Fitting, Conflicting
<1>2. Exists(r.src) /\ Exists(r.dst)
  BY DEF Fitting, Active, Exists
<1>3. CASE Between(edges, r.src, r.dst) = {}
  BY <1>2, <1>3 DEF WriterFinds
<1>4. CASE Between(edges, r.src, r.dst) # {}
  <2>1. \E e \in Between(edges, r.src, r.dst) : e.type = Placeholder /\ r.type # Placeholder
    BY <1>1, <1>4
  <2>2. \A e \in Between(edges, r.src, r.dst) :
          /\ ~(e.type = r.type /\ r.type \in Symmetric)
          /\ ~SameEdge(e, r.src, r.type)
    BY <1>1 DEF SameEdge
  <2> QED BY <1>2, <1>4, <2>1, <2>2 DEF WriterFinds
<1> QED BY <1>3, <1>4

\* What a decision leaves of the other columns.
LEMMA DecisionResults ==
  ASSUME NEW q \in Row
  PROVE  /\ \A st : Decide(q, st).result = NoResult
         /\ \A run : AcceptIdempotent(q, run).result = Idempotent
         /\ Reopened(q).result = NoResult /\ Reopened(q).fp = q.fp
<1>1. ASSUME NEW run PROVE AcceptIdempotent(q, run).result = Idempotent
  <2> DEFINE a == Decide(q, "accepted")
  <2>1. DOMAIN a = DOMAIN q /\ a = [x \in DOMAIN a |-> a[x]] /\ "result" \in DOMAIN q
    BY DEF Decide, Row
  <2>2. AcceptIdempotent(q, run) = [a EXCEPT !.run = run, !.result = Idempotent]
    BY DEF AcceptIdempotent
  <2> HIDE DEF a
  <2> QED BY <2>1, <2>2
<1> QED BY <1>1 DEF Decide, Reopened, Row

\* The row a job is at is the one row of its id.
LEMMA RowAtHand ==
  ASSUME ReviewInv, NEW p \in Process, job[p].item # NoItem,
         job[p].kind \in {"apply", "reject", "rollback"}
  PROVE  /\ job[p].item.row \in queue /\ job[p].item.row \in Row
         /\ Rows(job[p].item.row.id) = {job[p].item.row}
         /\ job[p].kind # "rollback" => job[p].item.row.state = "pending"
         /\ job[p].kind = "rollback" => /\ job[p].item.row.state = "accepted"
                                        /\ job[p].item.row.run = job[p].run
<1> DEFINE r == job[p].item.row
<1>1. r \in queue /\ (job[p].kind = "rollback" => r.state = "accepted" /\ r.run = job[p].run)
  BY DEF ReviewInv, AgreementInv, ReadsAreThere, ReadsAreCurrent
<1>2. r \in Row /\ \A q \in queue : q.id = r.id => q = r
  BY <1>1 DEF ReviewInv, AgreementInv, TypeOK, OneRowPerId
<1>3. job[p].kind # "rollback" => r.state = "pending"
  BY <1>1 DEF ReviewInv, AgreementInv, ReadsAreCurrent, Rows
<1> QED BY <1>1, <1>2, <1>3 DEF Rows

\* Every write of a job is a write of that row.
LEMMA RowIsWritten ==
  ASSUME ReviewInv, [Next]_vars, NEW p \in Process,
         ApplyItem(p) \/ BusyItem(p) \/ RejectItem(p) \/ RollbackItem(p)
  PROVE  \E n : Written(p, job[p].item.row, n)
<1> DEFINE r == job[p].item.row
<1>1. /\ r \in queue /\ r \in Row /\ Rows(r.id) = {r} /\ Advance(p, r.id)
      /\ job[p].kind # "rollback" => r.state = "pending"
      /\ job[p].kind = "rollback" => r.state = "accepted" /\ r.run = job[p].run
  BY RowAtHand DEF ApplyItem, BusyItem, RejectItem, RollbackItem
<1>2. \A st : SameItem(r, Decide(r, st)) /\ Decide(r, st).state = st /\ Decide(r, st).result = NoResult
  BY <1>1, DecisionKeepsItem, DecisionResults
<1>3. /\ SameItem(r, Reopened(r)) /\ Reopened(r).state = "pending"
      /\ Reopened(r).result = NoResult /\ Reopened(r).fp = r.fp
  BY <1>1, DecisionKeepsItem, DecisionResults
<1>4. \A run : /\ SameItem(r, AcceptIdempotent(r, run))
                /\ AcceptIdempotent(r, run).state = "accepted"
                /\ AcceptIdempotent(r, run).result = Idempotent
  BY <1>1, DecisionKeepsItem, DecisionResults
<1>5. queue' \subseteq Row
  BY TypeStep DEF ReviewInv, AgreementInv, TypeOK
<1>6. UNCHANGED <<now, thought, edited>>
  BY DEF ApplyItem, BusyItem, RejectItem, RollbackItem
<1>7. NoResult \notin EdgeId /\ Idempotent \notin EdgeId
  BY IdsAssumption
<1> HIDE DEF r
<1>8. CASE ApplyItem(p)
  <2> DEFINE run == job[p].run
  <2>1. job[p].kind = "apply" /\ job[p].item.verdict = Gate(r)
    BY <1>8 DEF ApplyItem, ReviewInv, GatesStand, r
  <2>2. CASE /\ queue' = (queue \ Rows(r.id)) \cup {Decide(q, "stale") : q \in Rows(r.id)}
             /\ UNCHANGED <<edges, used>>
    <3>1. queue' = (queue \ {r}) \cup {Decide(r, "stale")}
      BY <1>1, <2>2
    <3> QED BY <1>1, <1>2, <1>5, <1>6, <1>7, <2>1, <2>2, <3>1 DEF Written, r
  <2>3. CASE /\ queue' = (queue \ Rows(r.id)) \cup {AcceptIdempotent(q, run) : q \in Rows(r.id)}
             /\ UNCHANGED <<edges, used>>
    <3>1. queue' = (queue \ {r}) \cup {AcceptIdempotent(r, run)}
      BY <1>1, <2>3
    <3> QED BY <1>1, <1>4, <1>5, <1>6, <1>7, <2>1, <2>3, <3>1 DEF Written, r
  <2>4. CASE job[p].item.verdict = "ok" /\ WriteAndAccept(r, run)
    <3>1. Standing(r) /\ Fitting(r)
      BY <2>1, <2>4 DEF Gate
    <3>2. PICK id \in FreshEdge :
            /\ edges' = WithEdge(id, r.src, r.dst, r.type, r.id)
            /\ UseEdge(id)
            /\ queue' = (queue \ Rows(r.id)) \cup {AcceptWith(q, run, edges', id) : q \in Rows(r.id)}
      BY <2>4, <3>1, GatedWriterInserts DEF WriteAndAccept
    <3>3. used'.row = used.row /\ used'.edge = used.edge \cup {id}
      BY <3>2 DEF UseEdge, ReviewInv, AgreementInv, TypeOK
    <3> DEFINE n == AcceptWith(r, run, edges', id)
    <3>4. queue' = (queue \ {r}) \cup {n}
      BY <1>1, <3>2
    <3>5. SameItem(r, n) /\ n.state = "accepted" /\ n.result = id
      BY <1>1, DecisionKeepsItem, AcceptColumns
    <3>6. n \in Row
      BY <1>5, <3>4
    <3> HIDE DEF n
    <3>7. Written(p, r, n)
      BY <1>1, <1>6, <2>1, <3>1, <3>2, <3>3, <3>4, <3>5, <3>6 DEF Written
    <3> QED BY <3>7 DEF r
  <2> QED BY <1>8, <2>2, <2>3, <2>4 DEF ApplyItem, r
<1>9. CASE BusyItem(p)
  <2>1. UNCHANGED <<edges, used>>
    BY <1>9 DEF BusyItem
  <2>2. CASE queue' = queue
    <3>1. queue' = (queue \ {r}) \cup {r} /\ SameItem(r, r)
      BY <1>1, <2>2 DEF SameItem
    <3> QED BY <1>1, <1>6, <2>1, <3>1 DEF Written, r
  <2>3. CASE /\ job[p].kind = "apply"
             /\ queue' = (queue \ Rows(r.id)) \cup {Reopened(q) : q \in Rows(r.id)}
    <3>1. queue' = (queue \ {r}) \cup {Reopened(r)}
      BY <1>1, <2>3
    <3> QED BY <1>1, <1>3, <1>5, <1>6, <1>7, <2>1, <2>3, <3>1 DEF Written, r
  <2> QED BY <1>9, <2>2, <2>3 DEF BusyItem, r
<1>10. CASE RejectItem(p)
  <2>1. queue' = (queue \ {r}) \cup {Decide(r, "rejected")}
    BY <1>1, <1>10 DEF RejectItem, r
  <2> QED BY <1>1, <1>2, <1>5, <1>6, <1>7, <1>10, <2>1 DEF Written, RejectItem, r
<1>11. CASE RollbackItem(p)
  <2>1. /\ queue' = (queue \ {r}) \cup {Decide(r, "rolled_back")}
        /\ edges' = {e \in edges : e.id # r.result}
    BY <1>1, <1>11 DEF RollbackItem, r
  <2> QED BY <1>1, <1>2, <1>5, <1>6, <1>11, <2>1 DEF Written, RollbackItem, r
<1> QED BY <1>8, <1>9, <1>10, <1>11

\* With one process, callers, enqueues and retention find no job at work.
LEMMA OneProcessSteps ==
  ASSUME OneProcess, ReviewInv, [Next]_vars
  PROVE  \/ /\ GraphNext \/ Retention
               \/ \E pl \in plans : \E items \in SUBSET PlanItems(pl) : FinishEnqueue(pl, items)
            /\ job' = job /\ \A p \in Process : job[p] = Idle
         \/ \E p \in Process : \E n : Written(p, job[p].item.row, n)
         \/ UNCHANGED <<thought, edges, queue, used, edited>>
<1>1. ASSUME Free PROVE \A p \in Process : job[p] = Idle
  BY <1>1 DEF Free, OneProcess
<1>2. GraphNext => Free /\ job' = job
  BY DEF GraphNext, Link, Unlink, Retype, UpdateThought, DeleteThought
<1>3. Retention => Free /\ job' = job
  BY DEF Retention
<1>4. ASSUME \E pl \in plans : \E items \in SUBSET PlanItems(pl) : FinishEnqueue(pl, items)
      PROVE  job' = job /\ Free
  BY <1>4 DEF FinishEnqueue, Free, ReviewInv, AgreementInv, TypeOK, Plan
<1>5. EnqueueNext => \/ \E pl \in plans : \E items \in SUBSET PlanItems(pl) : FinishEnqueue(pl, items)
                     \/ UNCHANGED <<thought, edges, queue, used, edited>>
  BY DEF EnqueueNext, StartEnqueue, AbandonEnqueue
<1>6. ReviewNext => \/ \E p \in Process : \E n : Written(p, job[p].item.row, n)
                    \/ UNCHANGED <<thought, edges, queue, used, edited>>
  BY RowIsWritten DEF ReviewNext, StartApply, GateItem, StartReject, StartRollback, CheckItem, Crash
<1>7. Tick \/ UNCHANGED vars => UNCHANGED <<thought, edges, queue, used, edited>>
  BY DEF Tick, vars
<1> QED BY <1>1, <1>2, <1>3, <1>4, <1>5, <1>6, <1>7 DEF Next

\* The gates read the clock, the thoughts and the edges only.
LEMMA GateStands ==
  ASSUME UNCHANGED <<now, thought, edges>>, NEW r
  PROVE  Gate(r)' = Gate(r)
<1>1. \A s, t : (Exists(s) <=> Exists(s)') /\ (Active(s) <=> Active(s)')
                /\ Snap(s) = Snap(s)' /\ Between(edges, s, t) = Between(edges, s, t)'
  BY DEF Exists, Active, Snap, Between
<1>2. Standing(r)' <=> Standing(r)
  BY <1>1 DEF Standing, Overdue
<1>3. Satisfied(r)' <=> Satisfied(r)
  BY <1>1 DEF Satisfied
<1>4. Stale(r)' <=> Stale(r)
  BY DEF Stale, PairFingerprint, Snap, Between
<1>5. Fitting(r)' <=> Fitting(r)
  BY <1>1, <1>4 DEF Fitting, Conflicting
<1> QED BY <1>2, <1>3, <1>5 DEF Gate

\* What a job reads is there, and stays while the job is at work.
LEMMA ReadsKept ==
  ASSUME OneProcess, ReviewInv, [Next]_vars
  PROVE  ReadsAreThere' /\ GatesStand'
<1> USE DEF ReviewInv, AgreementInv
<1>1. \A p \in Process : job[p] \in Job /\ \A q \in Process : q = p
  BY DEF TypeOK, OneProcess
<1>2. ASSUME \A p \in Process : job'[p].kind = "idle"
      PROVE  ReadsAreThere' /\ GatesStand'
  BY <1>2 DEF ReadsAreThere, GatesStand
<1>3. ASSUME UNCHANGED <<now, thought, edges>>, queue' = queue, job' = job
      PROVE  ReadsAreThere' /\ GatesStand'
  BY <1>3, GateStands DEF ReadsAreThere, GatesStand
<1>4. ASSUME NEW p \in Process, NEW id, Advance(p, id), \A q \in queue : q.id # id => q \in queue'
      PROVE  ReadsAreThere' /\ GatesStand'
  <2>1. job'[p] = Rest(p, id)
    BY <1>4 DEF Advance, TypeOK
  <2>2. CASE job'[p] = Idle
    BY <1>1, <1>2, <2>2 DEF Idle
  <2>3. CASE /\ job'[p].kind = job[p].kind /\ job'[p].item = NoItem /\ job'[p].run = job[p].run
             /\ job'[p].manifest = {r \in job[p].manifest : r.id # id}
    BY <1>1, <1>4, <2>3 DEF ReadsAreThere, GatesStand
  <2> QED BY <1>1, <2>1, <2>2, <2>3, RestColumns
<1>5. CASE GraphNext \/ Retention
           \/ \E pl \in plans : \E items \in SUBSET PlanItems(pl) : FinishEnqueue(pl, items)
  <2>1. job' = job /\ \E p \in Process : job[p] = Idle
    BY <1>5 DEF GraphNext, Link, Unlink, Retype, UpdateThought, DeleteThought, Retention,
                FinishEnqueue, Free, TypeOK, Plan
  <2> QED BY <1>1, <1>2, <2>1 DEF Idle
<1>6. CASE (\E p \in Process, s \in Thought : StartEnqueue(p, s)) \/ (\E pl \in plans : AbandonEnqueue(pl))
  BY <1>3, <1>6 DEF StartEnqueue, AbandonEnqueue
<1>7. CASE UNCHANGED vars
  BY <1>3, <1>7 DEF vars
<1>8. CASE Tick
  BY <1>8 DEF Tick, ReadsAreThere, GatesStand
<1>9. CASE ReviewNext
  <2>1. PICK p \in Process :
          \/ \E ids \in SUBSET {r.id : r \in Pending}, run \in RunId : StartApply(p, ids, run)
          \/ \E id \in job[p].todo : GateItem(p, id)
          \/ ApplyItem(p)
          \/ BusyItem(p)
          \/ \E r \in queue : StartReject(p, r)
          \/ RejectItem(p)
          \/ \E run \in RunId : StartRollback(p, run)
          \/ \E r \in job[p].manifest : CheckItem(p, r)
          \/ RollbackItem(p)
          \/ Crash(p)
    BY <1>9 DEF ReviewNext
  <2>2. \A r, v : Hold(p, r, v) =>
          /\ job'[p].kind = job[p].kind /\ job'[p].manifest = job[p].manifest
          /\ job'[p].run = job[p].run
          /\ job'[p].item.row = r /\ job'[p].item.verdict = v
    BY <1>1 DEF Hold, TypeOK, Job
  <2>3. CASE \E ids \in SUBSET {r.id : r \in Pending}, run \in RunId : StartApply(p, ids, run)
    <3>1. job'[p].kind = "apply" /\ job'[p].item = NoItem
      BY <2>3 DEF StartApply, Idle, TypeOK
    <3> QED BY <1>1, <3>1 DEF ReadsAreThere, GatesStand
  <2>4. CASE \E id \in job[p].todo : GateItem(p, id)
    <3>1. PICK id \in job[p].todo : GateItem(p, id)
      BY <2>4
    <3>2. UNCHANGED <<now, thought, edges>> /\ queue' = queue /\ job[p].kind = "apply"
      BY <3>1 DEF GateItem
    <3>3. CASE Advance(p, id)
      BY <1>4, <3>2, <3>3
    <3>4. CASE \E r \in Rows(id) : Hold(p, r, Gate(r))
      <4>1. PICK r \in Rows(id) : Hold(p, r, Gate(r))
        BY <3>4
      <4>2. r \in queue /\ job'[p].kind = "apply" /\ job'[p].item.row = r /\ job'[p].item.verdict = Gate(r)
        BY <2>2, <3>2, <4>1 DEF Rows
      <4>3. Gate(r)' = Gate(r)
        BY <3>2, GateStands
      <4> QED BY <1>1, <3>2, <4>2, <4>3 DEF ReadsAreThere, GatesStand
    <3> QED BY <3>1, <3>3, <3>4 DEF GateItem
  <2>5. CASE ApplyItem(p) \/ BusyItem(p) \/ RejectItem(p) \/ RollbackItem(p)
    <3>1. PICK n : Written(p, job[p].item.row, n)
      BY <2>5, RowIsWritten
    <3>2. \A q \in queue : q.id # job[p].item.row.id => q \in queue'
      BY <3>1 DEF Written
    <3> QED BY <1>4, <3>1, <3>2 DEF Written
  <2>6. CASE \E r \in queue : StartReject(p, r)
    <3>1. PICK r \in queue : StartReject(p, r)
      BY <2>6
    <3>2. job'[p].kind = "reject" /\ job'[p].item.row = r /\ queue' = queue
      BY <3>1 DEF StartReject, Idle, TypeOK
    <3> QED BY <1>1, <3>2 DEF ReadsAreThere, GatesStand
  <2>7. CASE \E run \in RunId : StartRollback(p, run)
    <3>1. PICK run \in RunId : StartRollback(p, run)
      BY <2>7
    <3>2. /\ job'[p].kind = "rollback" /\ job'[p].item = NoItem /\ queue' = queue
          /\ job'[p].manifest = Manifest(run) /\ job'[p].run = run
      BY <3>1 DEF StartRollback, Idle, TypeOK
    <3> QED BY <1>1, <3>2 DEF ReadsAreThere, GatesStand, Manifest
  <2>8. CASE \E r \in job[p].manifest : CheckItem(p, r)
    <3>1. PICK r \in job[p].manifest : CheckItem(p, r)
      BY <2>8
    <3>2. queue' = queue /\ job[p].kind = "rollback"
      BY <3>1 DEF CheckItem
    <3>3. CASE Advance(p, r.id)
      BY <1>4, <3>2, <3>3
    <3>4. CASE Hold(p, r, "revert")
      BY <1>1, <2>2, <3>2, <3>4 DEF ReadsAreThere, GatesStand
    <3> QED BY <3>1, <3>3, <3>4 DEF CheckItem
  <2>9. CASE Crash(p)
    BY <1>1, <1>2, <2>9 DEF Crash, Idle, TypeOK
  <2> QED BY <2>1, <2>3, <2>4, <2>5, <2>6, <2>7, <2>8, <2>9
<1> QED BY <1>5, <1>6, <1>7, <1>8, <1>9 DEF Next, EnqueueNext

\* Claims stay apart: only an applied row takes an edge, and a fresh one.
LEMMA ClaimsKept ==
  ASSUME OneProcess, ReviewInv, [Next]_vars
  PROVE  ClaimsAreOwn' /\ EdgeClaimedOnce'
<1> USE DEF ReviewInv, AgreementInv
<1>1. TypeOK' /\ OneRowPerId'
  BY AgreementKept
<1>2. NoResult \notin EdgeId /\ \A e \in edges : e.id \in used.edge
  BY IdsAssumption DEF IdsTaken
<1>3. ASSUME \A n \in queue' : n.result \notin EdgeId
                 \/ \E q \in queue : q.id = n.id /\ q.result = n.result,
             used.edge \subseteq used'.edge,
             \A e \in edges' : e \in edges \/ e.id \notin used.edge
      PROVE  ClaimsAreOwn' /\ EdgeClaimedOnce'
  <2>1. ClaimsAreOwn'
    BY <1>3 DEF ClaimsAreOwn
  <2>2. EdgeClaimedOnce'
    BY <1>1, <1>3 DEF EdgeClaimedOnce, OneRowPerId
  <2> QED BY <2>1, <2>2
<1>4. CASE GraphNext
  <2>1. queue' \subseteq queue
    BY <1>4 DEF GraphNext, Link, Unlink, Retype, UpdateThought, DeleteThought
  <2>2. used.edge \subseteq used'.edge
    BY <1>4 DEF GraphNext, Link, Unlink, Retype, UpdateThought, DeleteThought, UseEdge, TypeOK
  <2>3. \A e \in edges' : e \in edges \/ e.id \notin used.edge
    <3>1. CASE \E s, t \in Thought, ty \in EdgeType : Link(s, t, ty)
      BY <3>1 DEF Link, WithEdge, FreshEdge
    <3>2. CASE \E e \in edges, ty \in EdgeType : Retype(e, ty)
      <4>1. PICK e \in edges, ty \in EdgeType : Retype(e, ty)
        BY <3>2
      <4>2. PICK id \in FreshEdge :
              edges' = (edges \ {e}) \cup {[e EXCEPT !.id = id, !.type = ty, !.by = User]}
        BY <4>1 DEF Retype
      <4>3. [e EXCEPT !.id = id, !.type = ty, !.by = User].id = id
        BY DEF TypeOK, Edge
      <4> QED BY <4>2, <4>3 DEF FreshEdge
    <3> QED BY <1>4, <3>1, <3>2 DEF GraphNext, Unlink, UpdateThought, DeleteThought
  <2> QED BY <1>3, <2>1, <2>2, <2>3
<1>5. CASE Retention
  <2>1. \A q \in queue : Expire(q) = q \/ Expire(q).result = NoResult
    BY DecisionResults DEF Expire, TypeOK
  <2>2. \A n \in queue' : n.result \notin EdgeId \/ n \in queue
    BY <1>2, <1>5, <2>1 DEF Retention
  <2> QED BY <1>3, <1>5, <2>2 DEF Retention
<1>6. CASE \E pl \in plans : \E items \in SUBSET PlanItems(pl) : FinishEnqueue(pl, items)
  <2>1. PICK pl, items : pl \in plans /\ FinishEnqueue(pl, items)
    BY <1>6
  <2>2. \A q \in queue : Refreshed(q).id = q.id /\ Refreshed(q).result = q.result
    BY DEF Refreshed, TypeOK, Row
  <2>3. \A id, s, x : NewRow(id, s, x).result = NoResult
    BY DEF NewRow
  <2>4. \A q \in AlreadyQueued(pl.src, items) : q \in queue
    BY DEF AlreadyQueued, Pending
  <2>5. \A n \in queue' : n \in queue \/ n.result = NoResult
                          \/ \E q \in queue : q.id = n.id /\ q.result = n.result
    BY <2>1, <2>2, <2>3, <2>4 DEF FinishEnqueue
  <2>6. edges' = edges /\ used'.edge = used.edge
    BY <2>1 DEF FinishEnqueue, TypeOK
  <2> QED BY <1>2, <1>3, <2>5, <2>6
<1>7. CASE \E p \in Process : \E n : Written(p, job[p].item.row, n)
  <2>1. PICK p, n : p \in Process /\ Written(p, job[p].item.row, n)
    BY <1>7
  <2> DEFINE r == job[p].item.row
  <2>2. r \in queue /\ queue' = (queue \ {r}) \cup {n} /\ n.id = r.id
    BY <2>1 DEF Written, SameItem
  <2>3. CASE n.result \in EdgeId => n = r
    <3>1. used.edge \subseteq used'.edge /\ \A e \in edges' : e \in edges \/ e.id \notin used.edge
      BY <2>1 DEF Written, WithEdge, FreshEdge
    <3> QED BY <1>3, <2>2, <2>3, <3>1
  <2>4. CASE /\ n.result \in FreshEdge /\ used'.edge = used.edge \cup {n.result}
             /\ edges' = WithEdge(n.result, r.src, r.dst, r.type, r.id)
    <3>1. \A e \in edges' : e \in edges \/ e.by = n.id
      BY <2>2, <2>4 DEF WithEdge
    <3>2. n.result \notin used.edge /\ n.result \in used'.edge
      BY <2>4 DEF FreshEdge
    <3>3. \A e \in edges' : e \in edges \/ e.id = n.result
      BY <2>4 DEF WithEdge
    <3> HIDE DEF r
    <3>4. ClaimsAreOwn'
      BY <1>2, <2>2, <2>4, <3>1, <3>2, <3>3 DEF ClaimsAreOwn
    <3>5. EdgeClaimedOnce'
      BY <2>2, <3>2 DEF ClaimsAreOwn, EdgeClaimedOnce
    <3> QED BY <3>4, <3>5
  <2> QED BY <1>2, <2>1, <2>3, <2>4 DEF Written
<1>8. CASE UNCHANGED <<thought, edges, queue, used, edited>>
  BY <1>3, <1>8
<1> QED BY <1>4, <1>5, <1>6, <1>7, <1>8, OneProcessSteps

\* An edit of a thought shows in the fingerprints of its pending rows.
LEMMA EditsKept ==
  ASSUME OneProcess, ReviewInv, [Next]_vars
  PROVE  EditsShow'
<1> USE DEF ReviewInv, AgreementInv
<1>1. /\ \A t \in Thought : thought[t].stamp \in Nat
      /\ \A r \in queue : /\ r.src \in Thought /\ r.dst \in Thought
                          /\ r.fp.src.stamp \in Nat /\ r.fp.dst.stamp \in Nat
  BY DEF TypeOK, ThoughtRec, Row, Fingerprint, Snapshot
<1>2. ASSUME thought' = thought, used.row \subseteq used'.row, edited' = edited,
             \A n \in queue' : n.state = "pending" => \E q \in queue :
                q.state = "pending" /\ SameItem(q, n) /\ q.fp = n.fp
      PROVE  EditsShow'
  BY <1>2 DEF EditsShow, SameItem
<1>3. CASE \E t \in Thought, st \in Status, p \in Project : UpdateThought(t, st, p)
  <2>1. PICK t \in Thought, st \in Status, p \in Project : UpdateThought(t, st, p)
    BY <1>3
  <2>2. /\ thought'[t].stamp = thought[t].stamp + 1
        /\ \A u \in Thought : u # t => thought'[u] = thought[u]
    BY <2>1 DEF UpdateThought, TypeOK
  <2>3. UNCHANGED <<queue, used>>
        /\ edited' = edited \cup {r.id : r \in {x \in queue : t \in {x.src, x.dst}}}
    BY <2>1 DEF UpdateThought
  <2>4. edited' \subseteq used'.row
    BY <2>3 DEF EditsShow, IdsTaken
  <2>5. ASSUME NEW r \in queue, r.state = "pending"
        PROVE  /\ r.fp.src.stamp <= thought'[r.src].stamp
               /\ r.fp.dst.stamp <= thought'[r.dst].stamp
               /\ r.id \in edited' => \/ r.fp.src.stamp < thought'[r.src].stamp
                                      \/ r.fp.dst.stamp < thought'[r.dst].stamp
    <3>1. /\ r.fp.src.stamp <= thought[r.src].stamp
          /\ r.fp.dst.stamp <= thought[r.dst].stamp
          /\ r.id \in edited => \/ r.fp.src.stamp < thought[r.src].stamp
                                \/ r.fp.dst.stamp < thought[r.dst].stamp
      BY <2>5 DEF EditsShow
    <3>2. r.id \in edited' => r.id \in edited \/ t \in {r.src, r.dst}
      BY <2>3 DEF OneRowPerId
    <3>3. thought'[r.src].stamp \in {thought[r.src].stamp, thought[r.src].stamp + 1}
          /\ thought'[r.dst].stamp \in {thought[r.dst].stamp, thought[r.dst].stamp + 1}
          /\ (t = r.src => thought'[r.src].stamp = thought[r.src].stamp + 1)
          /\ (t = r.dst => thought'[r.dst].stamp = thought[r.dst].stamp + 1)
      BY <1>1, <2>2
    <3> QED BY <1>1, <3>1, <3>2, <3>3
  <2> QED BY <2>3, <2>4, <2>5 DEF EditsShow
<1>4. CASE \E t \in Thought : DeleteThought(t)
  <2>1. PICK t \in Thought : DeleteThought(t)
    BY <1>4
  <2>2. \A u \in Thought : u # t => thought'[u] = thought[u]
    BY <2>1 DEF DeleteThought, TypeOK
  <2>3. queue' = {r \in queue : t \notin {r.src, r.dst}} /\ UNCHANGED <<used, edited>>
    BY <2>1 DEF DeleteThought
  <2> QED BY <1>1, <2>2, <2>3 DEF EditsShow
<1>5. CASE \/ \E s, t \in Thought, ty \in EdgeType : Link(s, t, ty)
           \/ \E e \in edges : Unlink(e)
           \/ \E e \in edges, ty \in EdgeType : Retype(e, ty)
  <2>1. UNCHANGED <<thought, queue, edited>> /\ used.row \subseteq used'.row
    BY <1>5 DEF Link, Unlink, Retype, UseEdge, TypeOK
  <2> QED BY <1>2, <2>1 DEF SameItem
<1>6. CASE Retention
  <2>1. \A q \in queue : Expire(q) = q \/ Expire(q).state = "expired"
    BY DecisionKeepsItem DEF Expire, TypeOK
  <2> QED BY <1>2, <1>6, <2>1 DEF Retention, SameItem
<1>7. CASE \E pl \in plans : \E items \in SUBSET PlanItems(pl) : FinishEnqueue(pl, items)
  <2>1. PICK pl \in plans : \E items \in SUBSET PlanItems(pl) : FinishEnqueue(pl, items)
    BY <1>7
  <2>2. PICK items \in SUBSET PlanItems(pl) : FinishEnqueue(pl, items)
    BY <2>1
  <2> DEFINE old == AlreadyQueued(pl.src, items)
             fresh == {x \in items : <<pl.src, x[1], x[2]>> \notin {ItemKey(r) : r \in old}}
  <2>3. PICK id \in [fresh -> RowId \ used.row] :
          /\ queue' = (queue \ old) \cup {Refreshed(r) : r \in old}
                        \cup {NewRow(id[x], pl.src, x) : x \in fresh}
          /\ used' = [used EXCEPT !.row = @ \cup {id[x] : x \in fresh}]
    BY <2>2 DEF FinishEnqueue
  <2>4. pl.src \in Thought /\ \A x \in fresh : x[1] \in Thought
    BY DEF PlanItems, TypeOK, Plan
  <2>5. thought' = thought /\ edited' = edited \ {r.id : r \in old}
    BY <2>2 DEF FinishEnqueue
  <2>6. \A r \in old : r \in queue
    BY DEF AlreadyQueued, Pending
  <2>7. \A r \in queue : LET n == Refreshed(r) IN
          /\ SameItem(r, n)
          /\ n.fp.src.stamp = thought[r.src].stamp /\ n.fp.dst.stamp = thought[r.dst].stamp
    BY DEF Refreshed, SameItem, PairFingerprint, Snap, TypeOK, Row
  <2>8. \A x \in fresh : LET n == NewRow(id[x], pl.src, x) IN
          /\ n.id = id[x] /\ n.id \notin used.row
          /\ n.fp.src.stamp = thought[n.src].stamp /\ n.fp.dst.stamp = thought[n.dst].stamp
          /\ thought[n.src].stamp \in Nat /\ thought[n.dst].stamp \in Nat
    BY <1>1, <2>4 DEF NewRow, PairFingerprint, Snap
  <2>9. used.row \subseteq used'.row
    <3> HIDE DEF fresh
    <3> QED BY <2>3 DEF TypeOK
  <2> HIDE DEF old, fresh
  <2>10. edited' \subseteq used'.row /\ edited' \subseteq edited /\ edited \subseteq used.row
    BY <2>5, <2>9 DEF EditsShow
  <2>11. ASSUME NEW n \in queue', n.state = "pending"
         PROVE  /\ n.fp.src.stamp <= thought[n.src].stamp
                /\ n.fp.dst.stamp <= thought[n.dst].stamp
                /\ n.id \in edited' => \/ n.fp.src.stamp < thought[n.src].stamp
                                       \/ n.fp.dst.stamp < thought[n.dst].stamp
    <3>1. CASE n \in queue
      BY <2>10, <2>11, <3>1 DEF EditsShow
    <3>2. CASE \E r \in old : n = Refreshed(r)
      BY <1>1, <2>5, <2>6, <2>7, <3>2 DEF SameItem
    <3>3. CASE \E x \in fresh : n = NewRow(id[x], pl.src, x)
      BY <2>8, <2>10, <3>3
    <3> QED BY <2>3, <2>11, <3>1, <3>2, <3>3
  <2> QED BY <2>5, <2>10, <2>11 DEF EditsShow
<1>8. CASE \E p \in Process : \E n : Written(p, job[p].item.row, n)
  <2>1. PICK p, n : p \in Process /\ Written(p, job[p].item.row, n)
    BY <1>8
  <2>2. n.state = "pending" => /\ job[p].item.row.state = "pending"
                               /\ n.fp = job[p].item.row.fp
    BY <2>1 DEF Written
  <2> QED BY <1>2, <2>1, <2>2 DEF Written, SameItem
<1>9. CASE UNCHANGED <<thought, edges, queue, used, edited>>
  BY <1>2, <1>9 DEF SameItem
<1> QED BY <1>3, <1>4, <1>5, <1>6, <1>7, <1>8, <1>9, OneProcessSteps DEF GraphNext

\* The invariant of the review holds where one process uses the file.
LEMMA ReviewHolds == ASSUME OneProcess PROVE Spec => []ReviewInv
<1>1. Init => ReviewInv
  <2> SUFFICES ASSUME Init PROVE ReviewInv
    OBVIOUS
  <2> QED BY AgreementBegins DEF Init, ReviewInv, ReadsAreThere, GatesStand, ClaimsAreOwn,
             EdgeClaimedOnce, EditsShow, Idle
<1>2. ReviewInv /\ [Next]_vars => ReviewInv'
  BY AgreementKept, ReadsKept, ClaimsKept, EditsKept DEF ReviewInv
<1> QED BY <1>1, <1>2, PTL DEF Spec

\* When one process serves the database, no two rows ever claim the same edge,
\* so no rollback can undo another run's work.
THEOREM ClaimsAreApart == ASSUME OneProcess PROVE Spec => []EdgeClaimedOnce
<1>1. ReviewInv => EdgeClaimedOnce
  BY DEF ReviewInv
<1> QED BY <1>1, ReviewHolds, PTL

\* When one process serves the database, an apply writes an edge only for a
\* pending row that has not expired and whose two thoughts are active, in one
\* project and untouched since the row was (re-)enqueued.
THEOREM ReviewedIsApplied == ASSUME OneProcess PROVE Spec => AppliesWhatWasReviewed
<1> DEFINE Reviewed ==
             \A e \in edges' \ edges : e.by # User =>
               \E r \in queue : /\ r.id = e.by /\ r.state = "pending"
                                /\ ~Overdue(r) /\ r.id \notin edited
                                /\ Active(r.src) /\ Active(r.dst)
                                /\ thought[r.src].project = thought[r.dst].project
<1>1. ReviewInv /\ [Next]_vars => Reviewed
  <2> SUFFICES ASSUME ReviewInv, [Next]_vars, NEW e \in edges' \ edges, e.by # User
               PROVE  \E r \in queue : /\ r.id = e.by /\ r.state = "pending"
                                       /\ ~Overdue(r) /\ r.id \notin edited
                                       /\ Active(r.src) /\ Active(r.dst)
                                       /\ thought[r.src].project = thought[r.dst].project
    OBVIOUS
  <2>1. ASSUME GraphNext PROVE e.by = User
    <3>1. CASE \E f \in edges, ty \in EdgeType : Retype(f, ty)
      <4>1. PICK f \in edges, ty \in EdgeType : Retype(f, ty)
        BY <3>1
      <4>2. PICK id : edges' = (edges \ {f}) \cup {[f EXCEPT !.id = id, !.type = ty, !.by = User]}
        BY <4>1 DEF Retype
      <4>3. f \in Edge
        BY DEF ReviewInv, AgreementInv, TypeOK
      <4>4. [f EXCEPT !.id = id, !.type = ty, !.by = User].by = User
        BY <4>3 DEF Edge
      <4> QED BY <4>2, <4>4
    <3>2. CASE \E s, t \in Thought, ty \in EdgeType : Link(s, t, ty)
      <4>1. PICK id, s, t, ty : edges' = WithEdge(id, s, t, ty, User)
        BY <3>2 DEF Link
      <4> QED BY <4>1 DEF WithEdge
    <3>3. CASE edges' \subseteq edges
      BY <3>3
    <3>4. \/ edges' \subseteq edges
          \/ \E s, t \in Thought, ty \in EdgeType : Link(s, t, ty)
          \/ \E f \in edges, ty \in EdgeType : Retype(f, ty)
      BY <2>1 DEF GraphNext, Unlink, UpdateThought, DeleteThought
    <3> QED BY <3>1, <3>2, <3>3, <3>4
  <2>2. PICK p, n : p \in Process /\ Written(p, job[p].item.row, n)
    BY <2>1, OneProcessSteps DEF Retention, FinishEnqueue
  <2> DEFINE r == job[p].item.row
  <2>3. /\ r \in queue /\ r.state = "pending" /\ Standing(r) /\ Fitting(r)
        /\ edges' = WithEdge(n.result, r.src, r.dst, r.type, r.id)
    BY <2>2 DEF Written
  <2> HIDE DEF r
  <2>4. e.by = r.id
    BY <2>3 DEF WithEdge
  <2>5. /\ r.fp.src.stamp = thought[r.src].stamp /\ r.fp.dst.stamp = thought[r.dst].stamp
        /\ Active(r.src) /\ Active(r.dst) /\ thought[r.src].project = thought[r.dst].project
    BY <2>3 DEF Fitting, Stale, PairFingerprint, Snap
  <2>6. thought[r.src].stamp \in Nat /\ thought[r.dst].stamp \in Nat
    BY <2>3 DEF ReviewInv, AgreementInv, TypeOK, Row, ThoughtRec
  <2>7. r.id \notin edited
    BY <2>3, <2>5, <2>6 DEF ReviewInv, EditsShow
  <2> QED BY <2>3, <2>4, <2>5, <2>7 DEF Standing
<1>2. ReviewInv /\ [Next]_vars => [Reviewed]_vars
  BY <1>1
<1> QED BY <1>2, ReviewHolds, PTL DEF Spec, AppliesWhatWasReviewed

\* When one process serves the database, a rollback removes only edges that
\* accepted rows of the run it rolls back wrote.
THEOREM RollbackKeepsToItsRun == ASSUME OneProcess PROVE Spec => RollbackTouchesOnlyItsRun
<1> DEFINE OnlyItsRun ==
             \A p \in Process : job[p].kind = "rollback" /\ job'[p] # job[p] =>
               \A e \in edges \ edges' : \E r \in queue :
                  r.id = e.by /\ r.run = job[p].run /\ r.state = "accepted"
<1>1. ReviewInv /\ [Next]_vars => OnlyItsRun
  <2> SUFFICES ASSUME ReviewInv, [Next]_vars, NEW p \in Process, job[p].kind = "rollback",
                      job'[p] # job[p], NEW e \in edges \ edges'
               PROVE  \E r \in queue : r.id = e.by /\ r.run = job[p].run /\ r.state = "accepted"
    OBVIOUS
  <2>1. \A q \in Process : q = p
    BY DEF OneProcess
  <2>2. PICK n : Written(p, job[p].item.row, n)
    BY <2>1, OneProcessSteps
  <2> DEFINE r == job[p].item.row
  <2>3. /\ r \in queue /\ e.id = r.result /\ e.id \in EdgeId
        /\ r.state = "pending" \/ (r.state = "accepted" /\ r.run = job[p].run)
    BY <2>2 DEF Written, ReviewInv, AgreementInv, TypeOK, Edge
  <2>4. r.state = "accepted" /\ r.run = job[p].run
    BY <2>2, <2>3 DEF Written
  <2>5. e.by = r.id
    BY <2>3 DEF ReviewInv, ClaimsAreOwn
  <2> QED BY <2>3, <2>4, <2>5
<1>2. ReviewInv /\ [Next]_vars => [OnlyItsRun]_vars
  BY <1>1
<1> QED BY <1>2, ReviewHolds, PTL DEF Spec, RollbackTouchesOnlyItsRun

\* When one process serves the database, a decided row never becomes pending
\* again and changes only from accepted to rolled back.
THEOREM DecisionsStand == ASSUME OneProcess PROVE Spec => DecisionsAreFinal
<1> DEFINE Final ==
             \A r \in queue, q \in queue' : r.id = q.id =>
               \/ r.state = "pending" \/ q.state = r.state
               \/ r.state = "accepted" /\ q.state = "rolled_back"
<1>1. ReviewInv /\ [Next]_vars => Final
  <2> SUFFICES ASSUME ReviewInv, [Next]_vars, NEW r \in queue, NEW q \in queue', r.id = q.id,
                      r.state # "pending"
               PROVE  q.state = r.state \/ (r.state = "accepted" /\ q.state = "rolled_back")
    OBVIOUS
  <2>1. /\ \A x \in queue : x.id = r.id => x = r
        /\ r.id \in used.row /\ TypeOK /\ r \in Row
    BY DEF ReviewInv, AgreementInv, OneRowPerId, IdsTaken, TypeOK
  <2>2. CASE q \in queue
    BY <2>1, <2>2
  <2>3. CASE GraphNext
    BY <2>2, <2>3 DEF GraphNext, Link, Unlink, Retype, UpdateThought, DeleteThought
  <2>4. CASE Retention
    <3>1. PICK x \in queue : q = Expire(x)
      BY <2>4 DEF Retention
    <3>2. x.state = "pending" \/ q = x
      BY <3>1 DEF Expire
    <3>3. q.id = x.id
      BY <3>1, DecideColumns DEF Expire, ReviewInv, AgreementInv, TypeOK
    <3> QED BY <2>1, <3>2, <3>3
  <2>5. CASE \E pl \in plans : \E items \in SUBSET PlanItems(pl) : FinishEnqueue(pl, items)
    <3>1. PICK F, N :
            /\ queue' = {F[x] : x \in queue} \cup N
            /\ \A x \in queue : SameItem(x, F[x]) /\ F[x].state = x.state
            /\ \A n \in N : n.id \notin used.row
      BY <2>1, <2>5, RowsQueued
    <3> QED BY <2>1, <3>1 DEF SameItem
  <2>6. CASE \E p \in Process : \E n : Written(p, job[p].item.row, n)
    <3>1. PICK p, n : p \in Process /\ Written(p, job[p].item.row, n)
      BY <2>6
    <3> DEFINE x == job[p].item.row
    <3>2. queue' = (queue \ {x}) \cup {n} /\ x \in queue /\ n.id = x.id
      BY <3>1 DEF Written, SameItem
    <3>3. q # n => q = r
      BY <2>1, <3>2
    <3>4. q = n => x = r
      BY <2>1, <3>2
    <3>5. x.state # "pending" =>
             n = x \/ (x.state = "accepted" /\ n.state = "rolled_back")
      BY <3>1 DEF Written
    <3> QED BY <3>3, <3>4, <3>5
  <2>7. CASE UNCHANGED <<thought, edges, queue, used, edited>>
    BY <2>2, <2>7
  <2> QED BY <2>3, <2>4, <2>5, <2>6, <2>7, OneProcessSteps
<1>2. ReviewInv /\ [Next]_vars => [Final]_vars
  BY <1>1
<1> QED BY <1>2, ReviewHolds, PTL DEF Spec, DecisionsAreFinal
=============================================================================
