--------------------------- MODULE PlacementQueue ---------------------------
(***************************************************************************)
(* The placement review queue of SynaptoMind and the part of the knowledge *)
(* graph it touches.                                                       *)
(*                                                                         *)
(* Proposals ("rows") suggest an edge between two thoughts.  A caller      *)
(* enqueues them, then applies or rejects them; rows accepted under one    *)
(* run id can be rolled back together, and a daily job expires and prunes  *)
(* rows.  All the while other callers edit the same thoughts and edges.    *)
(*                                                                         *)
(* Several processes may serve one database: the HTTP server and any       *)
(* number of stdio clients.  Each is one event loop over a synchronous     *)
(* SQLite driver, so within a process a handler without an await is never  *)
(* interrupted.  Between processes only a transaction is atomic: apply and *)
(* reject read a row first and write it in a later transaction, and batch  *)
(* apply and rollback commit one transaction per row and can be cut short  *)
(* by a crash.  Such a handler is a "job" of its process.  Enqueueing      *)
(* awaits the embedder, so other handlers of its process run in between.   *)
(***************************************************************************)
EXTENDS Integers, FiniteSets

CONSTANTS
  Process,        \* server processes on this database
  Thought,        \* thought ids
  Project,        \* project ids
  EdgeId, RowId,  \* fresh UUIDs for edges and for proposal rows
  RunId,          \* run envelopes: supplied by the caller, or synthesized
  EdgeType,       \* the edge vocabulary
  PlanType,       \* the types the engine's rule table proposes
  Symmetric,      \* the types stored without a direction
  MaxPending,     \* placement.maxPendingProposals
  MaxPerEnqueue,  \* placement.maxProposalsPerEnqueue
  MaxPerRun,      \* MAX_EDGE_ITEMS_PER_RUN
  TTL,            \* placement.proposalTtlDays; negative disables retention
  MaxTime,        \* bound: the clock stops here
  MaxStamp,       \* bound: edits per thought
  MaxPlans        \* bound: enqueues awaiting the embedder at once

Placeholder == "related"
User        == "user"     \* history: the edge was written by a caller's link
NoResult    == "no result"
Idempotent  == "idempotent"

ASSUME TypesAssumption ==
  /\ PlanType \subseteq EdgeType
  /\ Symmetric \subseteq EdgeType
  /\ Placeholder \in EdgeType
ASSUME IdsAssumption == User \notin RowId /\ EdgeId \cap {Idempotent, NoResult} = {}
ASSUME BoundsAssumption ==
  /\ MaxPending \in Nat \ {0} /\ MaxPerEnqueue \in Nat \ {0}
  /\ MaxPerRun \in Nat \ {0}  /\ TTL \in Int
  /\ MaxTime \in Nat /\ MaxStamp \in Nat /\ MaxPlans \in Nat

VARIABLES
  now,        \* the clock
  thought,    \* status, updated_at stamp and project of every thought
  edges,      \* rows of table edges
  queue,      \* rows of table placement_proposals
  plans,      \* enqueues awaiting the embedder: the pool each of them read
  job,        \* the apply, reject or rollback each process is in the middle of
  used,       \* ids already given out (a UUID is never given out twice)
  edited      \* history: rows one of whose thoughts changed since enqueue

vars == <<now, thought, edges, queue, plans, job, used, edited>>

-----------------------------------------------------------------------------
(* Values.                                                                 *)

NoTime == -1
NoRun  == "no run"

\* The queue only asks whether a thought is active: a draft is as inactive as
\* an archived thought.
Status   == {"active", "inactive"}
Decided  == {"accepted", "rejected", "expired", "stale", "rolled_back"}
RowState == Decided \cup {"pending"}

Snapshot == [status: Status \cup {"gone"}, stamp: Nat]

Fingerprint == [src: Snapshot, dst: Snapshot, linked: SUBSET EdgeType]

ThoughtRec == [status: Status \cup {"gone"}, stamp: Nat, project: Project]

Edge == [id: EdgeId, src: Thought, dst: Thought, type: EdgeType,
         by: RowId \cup {User}]

\* `result` is the id of the edge the row created, when it created one.
Row == [id: RowId, src: Thought, dst: Thought, type: PlanType,
        state: RowState, fp: Fingerprint, created: Nat,
        expires: Int, decided: Int, run: RunId \cup {NoRun},
        result: EdgeId \cup {Idempotent, NoResult}]

Plan == [at: Process, src: Thought, pool: SUBSET Thought]

\* What a job has read of the row it works on, and what it made of it.
Verdict == {"ok", "satisfied", "stale", "revert", "reject"}
NoItem  == [verdict |-> "none"]
Item    == [row: Row, verdict: Verdict]

\* An apply re-reads each row of `todo`; a rollback works from the rows of the
\* run as it read them at its start.
Job  == [kind: {"idle", "apply", "reject", "rollback"}, run: RunId \cup {NoRun},
         todo: SUBSET RowId, manifest: SUBSET Row, item: Item \cup {NoItem}]
Idle == [kind |-> "idle", run |-> NoRun, todo |-> {}, manifest |-> {},
         item |-> NoItem]

TypeOK ==
  /\ now \in Nat
  /\ thought \in [Thought -> ThoughtRec]
  /\ edges \subseteq Edge
  /\ queue \subseteq Row
  /\ plans \subseteq Plan
  /\ job \in [Process -> Job]
  /\ used \in [edge: SUBSET EdgeId, row: SUBSET RowId]
  /\ edited \subseteq RowId

-----------------------------------------------------------------------------
(* Reading the graph and the queue.                                        *)

Exists(t) == thought[t].status # "gone"
Active(t) == thought[t].status = "active"

Snap(t) == [status |-> thought[t].status, stamp |-> thought[t].stamp]

\* The edge between two thoughts in either direction: none or one of `es`.
Between(es, s, t) == {e \in es : {e.src, e.dst} = {s, t}}

PairFingerprint(es, s, t) ==
  [src |-> Snap(s), dst |-> Snap(t),
   linked |-> {e.type : e \in Between(es, s, t)}]

Stale(r) == r.fp # PairFingerprint(edges, r.src, r.dst)

\* Some process is free to serve a caller.
Free == \E p \in Process : job[p] = Idle

Rows(id) == {r \in queue : r.id = id}

Pending == {r \in queue : r.state = "pending"}
Overdue(r) == r.expires # NoTime /\ r.expires < now
Live(r)    == r.expires = NoTime \/ r.expires > now

ItemKey(r) == <<r.src, r.dst, r.type>>

-----------------------------------------------------------------------------
(* The edge writer shared by link, apply and retype.                       *)

SameEdge(e, s, ty) == e.type = ty /\ (ty \in Symmetric \/ e.src = s)

\* What createEdge does with an edge already joining the pair.
WriterFinds(s, t, ty) ==
  LET found == Between(edges, s, t)
  IN  CASE found = {}                                       -> "insert"
        [] \E e \in found : e.type = ty /\ ty \in Symmetric -> "existing"
        [] \E e \in found : SameEdge(e, s, ty)              -> "duplicate"
        [] \E e \in found : e.type = Placeholder /\ ty # Placeholder
                                                            -> "upgrade"
        [] OTHER                                            -> "conflict"

\* Mutant: the placeholder is not deleted before its replacement goes in.
WithEdge_KeepsPlaceholder(id, s, t, ty, by) ==
  edges \cup {[id |-> id, src |-> s, dst |-> t, type |-> ty, by |-> by]}

\* An insert, and a placeholder upgrade, which also gives a new id.
WithEdge(id, s, t, ty, by) ==
  (edges \ Between(edges, s, t))
    \cup {[id |-> id, src |-> s, dst |-> t, type |-> ty, by |-> by]}

FreshEdge == EdgeId \ used.edge

UseEdge(id) == used' = [used EXCEPT !.edge = @ \cup {id}]

-----------------------------------------------------------------------------
(* Callers editing the graph.                                              *)

\* memory_store link: the foreign keys refuse a missing endpoint.
Link(s, t, ty) ==
  /\ Free
  /\ s # t /\ Exists(s) /\ Exists(t)
  /\ WriterFinds(s, t, ty) \in {"insert", "upgrade"}
  /\ \E id \in FreshEdge :
       /\ edges' = WithEdge(id, s, t, ty, User)
       /\ UseEdge(id)
  /\ UNCHANGED <<now, thought, queue, plans, job, edited>>

Unlink(e) ==
  /\ Free
  /\ edges' = edges \ {e}
  /\ UNCHANGED <<now, thought, queue, plans, job, used, edited>>

\* Retyping deletes the row and inserts one with a new id.
Retype(e, ty) ==
  /\ Free
  /\ ty # e.type
  /\ \E id \in FreshEdge :
       /\ edges' = (edges \ {e})
                     \cup {[e EXCEPT !.id = id, !.type = ty, !.by = User]}
       /\ UseEdge(id)
  /\ UNCHANGED <<now, thought, queue, plans, job, edited>>

\* Any field of the thought, the content included: updated_at always moves.
UpdateThought(t, st, p) ==
  /\ Free
  /\ Exists(t) /\ thought[t].stamp < MaxStamp
  /\ thought' = [thought EXCEPT ![t] =
                   [status |-> st, stamp |-> @.stamp + 1, project |-> p]]
  /\ edited' = edited \cup {r.id : r \in {x \in queue : t \in {x.src, x.dst}}}
  /\ UNCHANGED <<now, edges, queue, plans, job, used>>

\* Mutant: proposals do not cascade.
DeleteThought_KeepsProposals(t) ==
  /\ Free
  /\ Exists(t)
  /\ thought' = [thought EXCEPT ![t].status = "gone", ![t].stamp = 0]
  /\ edges' = {e \in edges : t \notin {e.src, e.dst}}
  /\ UNCHANGED <<now, queue, plans, job, used, edited>>

\* Hard delete: the foreign keys cascade to edges and proposals.
DeleteThought(t) ==
  /\ Free
  /\ Exists(t)
  /\ thought' = [thought EXCEPT ![t].status = "gone", ![t].stamp = 0]
  /\ edges' = {e \in edges : t \notin {e.src, e.dst}}
  /\ queue' = {r \in queue : t \notin {r.src, r.dst}}
  /\ UNCHANGED <<now, plans, job, used, edited>>

-----------------------------------------------------------------------------
(* Enqueue: read the candidate pool, await the embedder, queue the items.  *)

StartEnqueue(p, s) ==
  /\ job[p] = Idle
  /\ Exists(s) /\ Cardinality(plans) < MaxPlans
  /\ plans' = plans \cup
       {[at |-> p, src |-> s, pool |-> {t \in Thought \ {s} :
             Active(t) /\ thought[t].project = thought[s].project}]}
  /\ UNCHANGED <<now, thought, edges, queue, job, used, edited>>

\* Mutant: the engine proposes types outside its rule table.
PlanItems_AnyType(pl) ==
  {x \in pl.pool \X EdgeType :
     Exists(x[1]) /\ Between(edges, pl.src, x[1]) = {}}

\* The items the engine can emit once its vectors are there: one type per
\* candidate, and no candidate already linked to the source.  Candidates
\* deleted since are dropped when the item is mapped.
PlanItems(pl) ==
  {x \in pl.pool \X PlanType :
     Exists(x[1]) /\ Between(edges, pl.src, x[1]) = {}}

OneTypePerTarget(items) == \A x, y \in items : x[1] = y[1] => x = y

\* The page the transaction reads to find the cap: newest first, then LIMIT.
IsPage(page, n) ==
  /\ page \subseteq Pending
  /\ Cardinality(page) <= MaxPending + n + 1
  /\ page = Pending \/ Cardinality(page) = MaxPending + n + 1
  /\ \A r \in page, q \in Pending \ page : r.created >= q.created

Expiry == IF TTL < 0 THEN NoTime ELSE now + TTL

NewRow(id, s, item) ==
  [id |-> id, src |-> s, dst |-> item[1], type |-> item[2],
   state |-> "pending", fp |-> PairFingerprint(edges, s, item[1]),
   created |-> now, expires |-> Expiry, decided |-> NoTime,
   run |-> NoRun, result |-> NoResult]

Refreshed(r) ==
  [r EXCEPT !.fp = PairFingerprint(edges, r.src, r.dst), !.expires = Expiry]

\* Mutant: an overdue row that retention has not expired yet is overlooked.
AlreadyQueued_LiveOnly(src, items) ==
  {r \in Pending : Live(r) /\ \E x \in items : ItemKey(r) = <<src, x[1], x[2]>>}

\* The dedup lookup: the pending rows of the items, overdue ones included.
AlreadyQueued(src, items) ==
  {r \in Pending : \E x \in items : ItemKey(r) = <<src, x[1], x[2]>>}

\* The cap, as counted on the page.
WithinCap(src, items) ==
  \E page \in SUBSET Pending :
    LET live == {r \in page : Live(r)}
        new  == {x \in items : <<src, x[1], x[2]>> \notin {ItemKey(r) : r \in live}}
    IN  /\ IsPage(page, Cardinality(items))
        /\ new = {} \/ Cardinality(live) + Cardinality(new) <= MaxPending

FinishEnqueue(pl, items) ==
  LET old   == AlreadyQueued(pl.src, items)
      fresh == {x \in items : <<pl.src, x[1], x[2]>> \notin {ItemKey(r) : r \in old}}
  IN
  /\ job[pl.at] = Idle
  /\ plans' = plans \ {pl}
  /\ Active(pl.src) /\ items # {} /\ OneTypePerTarget(items)
  /\ Cardinality(items) <= MaxPerEnqueue
  /\ WithinCap(pl.src, items)
  /\ \E id \in [fresh -> RowId \ used.row] :
       /\ \A x, y \in fresh : id[x] = id[y] => x = y
       /\ queue' = (queue \ old) \cup {Refreshed(r) : r \in old}
                     \cup {NewRow(id[x], pl.src, x) : x \in fresh}
       /\ used' = [used EXCEPT !.row = @ \cup {id[x] : x \in fresh}]
  /\ edited' = edited \ {r.id : r \in old}
  /\ UNCHANGED <<now, thought, edges, job>>

\* No neighbour, a source no longer active, or the cap: nothing is queued.
AbandonEnqueue(pl) ==
  /\ job[pl.at] = Idle
  /\ plans' = plans \ {pl}
  /\ UNCHANGED <<now, thought, edges, queue, job, used, edited>>

-----------------------------------------------------------------------------
(* Deciding a row.                                                         *)

\* The gates of a confirmed apply, in the order the code asks them.  A row of
\* the engine's types joins two non-cluster thoughts with a valid type, so the
\* cluster and vocabulary gates of the code, which make a row "failed", have
\* nothing to refuse here.
Satisfied(r) ==
  \E e \in Between(edges, r.src, r.dst) : SameEdge(e, r.src, r.type)

Conflicting(r) ==
  \E e \in Between(edges, r.src, r.dst) : e.type # Placeholder \/ e.type = r.type

Standing(r) == ~Overdue(r) /\ Exists(r.src) /\ Exists(r.dst)

\* Mutant: no fingerprint check.
Fitting_NoFingerprint(r) ==
  /\ ~Conflicting(r)
  /\ Active(r.src) /\ Active(r.dst)
  /\ thought[r.src].project = thought[r.dst].project

Fitting(r) ==
  /\ ~Conflicting(r)
  /\ Active(r.src) /\ Active(r.dst)
  /\ thought[r.src].project = thought[r.dst].project
  /\ ~Stale(r)

Gate(r) == IF Standing(r) /\ Satisfied(r) THEN "satisfied"
           ELSE IF Standing(r) /\ Fitting(r) THEN "ok" ELSE "stale"

\* Every decision overwrites the recorded result, whatever it was; the run
\* stays unless a new one is given.
Decide(q, st) == [q EXCEPT !.state = st, !.decided = now, !.result = NoResult]

\* Mutant: an idempotent accept records the edge it found as its own.
AcceptIdempotent_ClaimsEdge(q, run) ==
  [Decide(q, "accepted") EXCEPT !.run = run,
     !.result = (CHOOSE e \in Between(edges, q.src, q.dst) : TRUE).id]

AcceptIdempotent(q, run) ==
  [Decide(q, "accepted") EXCEPT !.run = run, !.result = Idempotent]

\* Mutant: the id of the written edge is not recorded.
AcceptWith_ForgetsEdge(q, run, es, id) ==
  [Decide(q, "accepted") EXCEPT !.run = run,
                                !.fp = PairFingerprint(es, q.src, q.dst)]

\* Accepted with the edge the writer returned and the snapshot after it.
AcceptWith(q, run, es, id) ==
  [Decide(q, "accepted") EXCEPT !.run = run, !.result = id,
                                !.fp = PairFingerprint(es, q.src, q.dst)]

Reopened(q) == [Decide(q, "pending") EXCEPT !.decided = NoTime]

\* The job of p is done with its current row.
Rest(p, id) ==
  IF job[p].todo = {id} THEN Idle
  ELSE [job[p] EXCEPT !.todo = @ \ {id}, !.item = NoItem,
                      !.manifest = {r \in @ : r.id # id}]
Advance(p, id) == job' = [job EXCEPT ![p] = Rest(p, id)]

Hold(p, r, v) == job' = [job EXCEPT ![p].item = [row |-> r, verdict |-> v]]

\* apply and apply_batch: the rows that are not pending any more are answered
\* without a write, so a job starts with pending ones.
StartApply(p, ids, run) ==
  /\ job[p] = Idle
  /\ ids # {} /\ ids \subseteq {r.id : r \in Pending}
  /\ Cardinality(ids) <= MaxPerRun
  /\ job' = [job EXCEPT ![p] = [Idle EXCEPT !.kind = "apply", !.run = run,
                                            !.todo = ids]]
  /\ UNCHANGED <<now, thought, edges, queue, plans, used, edited>>

\* Read the next row and judge it; a row decided or deleted since is skipped.
GateItem(p, id) ==
  LET found == {r \in Rows(id) : r.state = "pending"}
  IN  /\ job[p].kind = "apply" /\ job[p].item = NoItem /\ id \in job[p].todo
      /\ \/ found = {} /\ Advance(p, id)
         \/ \E r \in found : Hold(p, r, Gate(r))
      /\ UNCHANGED <<now, thought, edges, queue, plans, used, edited>>

\* One transaction: the writer, and the row's new state by its id.  When an
\* endpoint is gone the foreign keys refuse the edge, and the row is gone, too.
WriteAndAccept(r, run) ==
  LET found == WriterFinds(r.src, r.dst, r.type)
      there == Exists(r.src) /\ Exists(r.dst)
  IN  \/ /\ found \in {"insert", "upgrade"} /\ there
         /\ \E id \in FreshEdge :
              /\ edges' = WithEdge(id, r.src, r.dst, r.type, r.id)
              /\ UseEdge(id)
              /\ queue' = (queue \ Rows(r.id))
                   \cup {AcceptWith(q, run, edges', id) : q \in Rows(r.id)}
      \/ /\ found = "existing"
         /\ \E e \in Between(edges, r.src, r.dst) :
              queue' = (queue \ Rows(r.id))
                   \cup {AcceptWith(q, run, edges, e.id) : q \in Rows(r.id)}
         /\ UNCHANGED <<edges, used>>
      \/ /\ found = "duplicate"
         /\ queue' = (queue \ Rows(r.id))
              \cup {AcceptIdempotent(q, run) : q \in Rows(r.id)}
         /\ UNCHANGED <<edges, used>>
      \/ /\ found = "conflict"
         /\ queue' = (queue \ Rows(r.id))
              \cup {Decide(q, "stale") : q \in Rows(r.id)}
         /\ UNCHANGED <<edges, used>>
      \/ /\ found \in {"insert", "upgrade"} /\ ~there
         /\ UNCHANGED <<edges, queue, used>>

ApplyItem(p) ==
  LET r == job[p].item.row
      v == job[p].item.verdict
  IN  /\ job[p].kind = "apply" /\ job[p].item # NoItem
      /\ Advance(p, r.id)
      /\ \/ /\ v = "stale"
            /\ queue' = (queue \ Rows(r.id))
                          \cup {Decide(q, "stale") : q \in Rows(r.id)}
            /\ UNCHANGED <<edges, used>>
         \/ /\ v = "satisfied"
            /\ queue' = (queue \ Rows(r.id))
                          \cup {AcceptIdempotent(q, job[p].run) : q \in Rows(r.id)}
            /\ UNCHANGED <<edges, used>>
         \/ v = "ok" /\ WriteAndAccept(r, job[p].run)
      /\ UNCHANGED <<now, thought, plans, edited>>

\* Another connection wrote while the transaction was open, so SQLite refuses
\* it.  A failed apply puts the row (back) to pending, unless the dedup index
\* refuses that, too; a failed inverse leaves everything as it was.
BusyItem(p) ==
  LET r == job[p].item.row
      blocked == \E q \in Pending : q.id # r.id /\ ItemKey(q) = ItemKey(r)
  IN  /\ job[p].kind \in {"apply", "rollback"} /\ job[p].item # NoItem
      /\ job[p].item.verdict \in {"ok", "revert"}
      /\ Advance(p, r.id)
      /\ queue' = IF job[p].kind = "apply" /\ ~blocked
                  THEN (queue \ Rows(r.id)) \cup {Reopened(q) : q \in Rows(r.id)}
                  ELSE queue
      /\ UNCHANGED <<now, thought, edges, plans, used, edited>>

\* reject asks for the row's state first and writes by id after.
StartReject(p, r) ==
  /\ job[p] = Idle
  /\ r.state = "pending"
  /\ job' = [job EXCEPT ![p] = [Idle EXCEPT !.kind = "reject", !.todo = {r.id},
                                  !.item = [row |-> r, verdict |-> "reject"]]]
  /\ UNCHANGED <<now, thought, edges, queue, plans, used, edited>>

RejectItem(p) ==
  LET r == job[p].item.row
  IN  /\ job[p].kind = "reject" /\ job[p].item # NoItem
      /\ Advance(p, r.id)
      /\ queue' = (queue \ Rows(r.id))
                    \cup {Decide(q, "rejected") : q \in Rows(r.id)}
      /\ UNCHANGED <<now, thought, edges, plans, used, edited>>

-----------------------------------------------------------------------------
(* Rolling a run back, newest decision first.                              *)

Manifest(run) == {r \in queue : r.state = "accepted" /\ r.run = run}

InWindow(r) == TTL < 0 \/ r.decided >= now - TTL

Revertible(r) == InWindow(r) /\ r.result # Idempotent /\ ~Stale(r)

StartRollback(p, run) ==
  /\ job[p] = Idle
  /\ Manifest(run) # {}
  /\ job' = [job EXCEPT ![p] =
               [Idle EXCEPT !.kind = "rollback", !.run = run,
                            !.todo = {r.id : r \in Manifest(run)},
                            !.manifest = Manifest(run)]]
  /\ UNCHANGED <<now, thought, edges, queue, plans, used, edited>>

\* A row outside the window, accepted idempotently or drifted is left alone.
CheckItem(p, r) ==
  /\ job[p].kind = "rollback" /\ job[p].item = NoItem
  /\ r \in job[p].manifest
  /\ \A q \in job[p].manifest : q.decided <= r.decided
  /\ IF Revertible(r) THEN Hold(p, r, "revert") ELSE Advance(p, r.id)
  /\ UNCHANGED <<now, thought, edges, queue, plans, used, edited>>

\* Mutant: the inverse deletes whatever edge joins the pair.
RollbackItem_ByPair(p) ==
  LET r == job[p].item.row
  IN  /\ job[p].kind = "rollback" /\ job[p].item # NoItem
      /\ Advance(p, r.id)
      /\ edges' = edges \ Between(edges, r.src, r.dst)
      /\ queue' = (queue \ Rows(r.id))
                    \cup {Decide(q, "rolled_back") : q \in Rows(r.id)}
      /\ UNCHANGED <<now, thought, plans, used, edited>>

\* The inverse deletes the edge by the id the row recorded and does not ask
\* whether it was there.
RollbackItem(p) ==
  LET r == job[p].item.row
  IN  /\ job[p].kind = "rollback" /\ job[p].item # NoItem
      /\ Advance(p, r.id)
      /\ edges' = {e \in edges : e.id # r.result}
      /\ queue' = (queue \ Rows(r.id))
                    \cup {Decide(q, "rolled_back") : q \in Rows(r.id)}
      /\ UNCHANGED <<now, thought, plans, used, edited>>

-----------------------------------------------------------------------------
(* Retention, the clock, a crash.                                          *)

\* Mutant: decided rows expire, too.
Expire_Decided(r) == IF Overdue(r) THEN Decide(r, "expired") ELSE r

Expire(r) ==
  IF r.state = "pending" /\ Overdue(r) THEN Decide(r, "expired") ELSE r

\* Mutant: the cutoff itself is pruned.
Retention_OffByOne ==
  /\ Free /\ TTL >= 0
  /\ queue' = {r \in {Expire(q) : q \in queue} :
                 r.state = "pending" \/ r.decided > now - TTL}
  /\ UNCHANGED <<now, thought, edges, plans, job, used, edited>>

\* Daily and at boot: expire overdue rows, then prune what was decided before
\* the cutoff.
Retention ==
  /\ Free /\ TTL >= 0
  /\ queue' = {r \in {Expire(q) : q \in queue} :
                 r.state = "pending" \/ r.decided >= now - TTL}
  /\ UNCHANGED <<now, thought, edges, plans, job, used, edited>>

\* The unit is a day: no day passes between the reads of a row and its write.
Tick ==
  /\ now < MaxTime /\ \A p \in Process : job[p].item = NoItem
  /\ now' = now + 1
  /\ UNCHANGED <<thought, edges, queue, plans, job, used, edited>>

\* A process dies: committed rows stay, whatever it had in memory is gone.
Crash(p) ==
  /\ job' = [job EXCEPT ![p] = Idle]
  /\ plans' = {pl \in plans : pl.at # p}
  /\ UNCHANGED <<now, thought, edges, queue, used, edited>>

-----------------------------------------------------------------------------

Init ==
  /\ now = 0
  /\ thought \in [Thought -> {[status |-> "active", stamp |-> 0, project |-> p] :
                                p \in Project}]
  /\ edges = {} /\ queue = {} /\ plans = {} /\ job = [p \in Process |-> Idle]
  /\ used = [edge |-> {}, row |-> {}]
  /\ edited = {}

GraphNext ==
  \/ \E s, t \in Thought, ty \in EdgeType : Link(s, t, ty)
  \/ \E e \in edges : Unlink(e)
  \/ \E e \in edges, ty \in EdgeType : Retype(e, ty)
  \/ \E t \in Thought, st \in Status, p \in Project : UpdateThought(t, st, p)
  \/ \E t \in Thought : DeleteThought(t)

EnqueueNext ==
  \/ \E p \in Process, s \in Thought : StartEnqueue(p, s)
  \/ \E pl \in plans : \E items \in SUBSET PlanItems(pl) : FinishEnqueue(pl, items)
  \/ \E pl \in plans : AbandonEnqueue(pl)

ReviewNext ==
  \E p \in Process :
    \/ \E ids \in SUBSET {r.id : r \in Pending}, run \in RunId : StartApply(p, ids, run)
    \/ \E id \in job[p].todo : GateItem(p, id)
    \/ ApplyItem(p)
    \/ BusyItem(p)
    \/ \E r \in queue : StartReject(p, r)
    \/ RejectItem(p)
    \/ \E run \in RunId : StartRollback(p, run)
    \/ \E r \in job[p].manifest : CheckItem(p, r)
    \/ RollbackItem(p)
    \/ Crash(p)

Next == GraphNext \/ EnqueueNext \/ ReviewNext \/ Retention \/ Tick

Spec == Init /\ [][Next]_vars

-----------------------------------------------------------------------------
(* What the queue and the graph owe each other.                            *)

\* No pair of thoughts is ever joined by two edges, whoever wrote them: the
\* link tool, a placeholder upgrade, a retype or an applied proposal.
OneEdgePerPair ==
  \A e, f \in edges : {e.src, e.dst} = {f.src, f.dst} => e = f

\* Enqueueing the same item again, across awaits, expiry and decisions,
\* refreshes the live row and never makes a second one.
OneLiveRowPerItem ==
  \A r, q \in queue : r.state = "pending" /\ q.state = "pending"
                      /\ ItemKey(r) = ItemKey(q) => r = q

\* Nothing refers to a deleted thought, even when it was deleted while a plan
\* that had it in its pool was waiting for the embedder.
NoDangling ==
  /\ \A e \in edges : Exists(e.src) /\ Exists(e.dst)
  /\ \A r \in queue : Exists(r.src) /\ Exists(r.dst)

\* The graph and the queue do not diverge: an edge a proposal wrote is there
\* only while its row is accepted, non-idempotent and names exactly that edge,
\* so rollback can reach it -- after a crash inside a batch, too.
GraphMatchesQueue ==
  \A e \in edges, r \in queue : e.by = r.id =>
    /\ r.state = "accepted" /\ r.result = e.id
    /\ {e.src, e.dst} = {r.src, r.dst}

\* Two accepted rows never claim the same edge, so no rollback can undo
\* another run's work.
EdgeClaimedOnce ==
  \A r, q \in queue : r.result \in EdgeId /\ r.result = q.result => r = q

\* An apply writes an edge only for a row that has not expired and whose two
\* thoughts are active, in one project and untouched since the row was
\* (re-)enqueued, whatever happened in between.
AppliesWhatWasReviewed ==
  [][\A e \in edges' \ edges : e.by # User =>
       \E r \in queue : /\ r.id = e.by /\ r.state = "pending"
                        /\ ~Overdue(r) /\ r.id \notin edited
                        /\ Active(r.src) /\ Active(r.dst)
                        /\ thought[r.src].project = thought[r.dst].project]_vars

\* A rollback removes only edges that rows of the run being rolled back wrote:
\* never a caller's link, never another run's edge.
RollbackTouchesOnlyItsRun ==
  [][\A p \in Process : job[p].kind = "rollback" /\ job'[p] # job[p] =>
       \A e \in edges \ edges' : \E r \in queue :
          r.id = e.by /\ r.run = job[p].run /\ r.state = "accepted"]_vars

\* Decisions are final: a decided row never becomes pending again and changes
\* only from accepted to rolled_back.
DecisionsAreFinal ==
  [][\A r \in queue, q \in queue' : r.id = q.id =>
       \/ r.state = "pending" \/ q.state = r.state
       \/ r.state = "accepted" /\ q.state = "rolled_back"]_vars

\* Retention leaves every accepted row a rollback would still consider: the
\* prune cutoff and the rollback window meet without a gap.
RetentionSparesTheWindow ==
  [][\A r \in queue : r.state = "accepted" /\ InWindow(r)
       /\ Exists(r.src)' /\ Exists(r.dst)' =>
       \E q \in queue' : q.id = r.id]_vars
=============================================================================
