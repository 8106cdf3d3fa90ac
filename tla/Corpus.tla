------------------------------- MODULE Corpus -------------------------------
(***************************************************************************)
(* The tables retrieval reads while others write them: the graph, the      *)
(* stored vectors with the queue that says which are out of date, the full *)
(* text index, and the primers and hit counts that searches write          *)
(* themselves.  A row has, beside what ThoughtStore keeps of it, its tags  *)
(* and whether it waits for its day to come.  Text is reduced to what can  *)
(* be told apart: how similar, how overlapping and how well matching two   *)
(* contents are.                                                           *)
(***************************************************************************)
EXTENDS ThoughtStore

CONSTANTS Processes,
          IdOrder,       \* every id, in the order of `ORDER BY id ASC`
          Similarity(_, _),  \* cosine similarity of two contents, in percent
          Match(_, _),   \* bm25 of a content for a query, 0 when it has none of its words
          Overlap(_, _), \* Jaccard overlap of two normalised contents, in percent
          MaxDegree,     \* graph.maxDegree
          Edits, NewLinks, NewTypes, Deletable   \* what the other processes write

VARIABLES g,        \* thoughts and edges
          vec,      \* vec_thoughts: id -> the content its vector was made of
          queued,   \* pending_embeddings
          lost,     \* ids whose vector went stale with no queue row
          primers,  \* the primers, in rowid order
          hits,     \* thought_importance.hit_count
          saw,      \* ghost: per process, the stores since its call began
          writes    \* ghost: how many writes the others may still make

corpus == <<g, vec, queued, lost, primers, hits>>

\* The numbers in K, the least first.
Ascending(K) == [n \in 1..Cardinality(K) |-> CHOOSE i \in K : Cardinality({j \in K : j <= i}) = n]

\* What of s passes the test, in its order.
Filtered(s, Test(_)) ==
  LET kept == Ascending({i \in DOMAIN s : Test(s[i])})
  IN  [n \in DOMAIN kept |-> s[kept[n]]]

SortedIds(ids) == Filtered(IdOrder, LAMBDA x : x \in ids)

\* Every order SQLite may return `ids` in when it sorts by the score alone.
Ranked(ids, Score(_)) ==
  {s \in SetToSeqs(ids) : \A i, j \in DOMAIN s : i < j => Score(s[i]) >= Score(s[j])}

\* Every order in which nothing comes after what it goes before.
Sorted(S, Before(_, _)) ==
  {s \in SetToSeqs(S) : \A i, j \in DOMAIN s : i < j => ~Before(s[j], s[i])}

\* The place of the first that passes the test.
FirstSuch(s, Test(_)) ==
  CHOOSE i \in DOMAIN s : Test(s[i]) /\ \A j \in DOMAIN s : j < i => ~Test(s[j])

\* `a.id.localeCompare(b.id) < 0`.
Earlier(x, y) == SelectInSeq(IdOrder, LAMBDA z : z = x) < SelectInSeq(IdOrder, LAMBDA z : z = y)

FirstOf(s, k) == SubSeq(s, 1, IF Len(s) < k THEN Len(s) ELSE k)

ClustersOf(h, x) == {e.s : e \in {f \in h.ed : f.t = x /\ f.type = "cluster"}}

\* One cluster for each thought of X that is in any: the last row read wins.
Homes(h, X) ==
  LET homed == {x \in X : ClustersOf(h, x) # {}}
  IN  {home \in [homed -> DOMAIN h.th] : \A x \in homed : home[x] \in ClustersOf(h, x)}

\* getThoughtEdges: the newest MaxDegree edges of a thought.
Shown(h, x) ==
  LET all == SetToSortSeq(EdgesOf(h, x), LAMBDA e, f : e.ver > f.ver)
  IN  ToSet(FirstOf(all, MaxDegree))

\* A commit is seen by every call that is under way.
See(new) == saw' = [p \in Processes |-> IF saw[p] = {} THEN {} ELSE saw[p] \cup {new}]

Write(new) ==
  /\ writes > 0
  /\ writes' = writes - 1
  /\ new # g
  /\ g' = new
  /\ See(new)

\* updateThought: the trigger queues the row when content is among the fields.
Update(id, d) ==
  /\ Has(g, id)
  /\ Write(UpdateThought(g, id, d, g.th[id].stamp).g)
  /\ queued' = IF "content" \in DOMAIN d THEN queued \cup {id} ELSE queued
  /\ UNCHANGED <<vec, lost, primers, hits>>

\* An edit that falls in the window insertEmbedding leaves between its hash
\* check and deleteFromQueue: the vector is stale and nothing says so.
LateEdit(id, d) ==
  /\ Has(g, id) /\ id \in queued /\ d.content # g.th[id].content
  /\ Write(UpdateThought(g, id, d, g.th[id].stamp).g)
  /\ vec' = [x \in DOMAIN vec \cup {id} |-> IF x = id THEN g.th[id].content ELSE vec[x]]
  /\ queued' = queued \ {id}
  /\ lost' = lost \cup {id}
  /\ UNCHANGED <<primers, hits>>

Link(s, t, type) ==
  /\ Write(Committed(g, CreateEdge(g, s, t, type).g))
  /\ UNCHANGED <<vec, queued, lost, primers, hits>>

\* retypeEdge: another row in the place of the old one, as old as it was.
Retype(e, type) ==
  LET new == [s |-> e.s, t |-> e.t, type |-> type, ver |-> e.ver]
      retyped == [g EXCEPT !.ed = (@ \ {e}) \cup {new}]
  IN  /\ Retypable(g, e, type)
      /\ Write(Committed(g, BoostImportance(retyped, e.s)))
      /\ UNCHANGED <<vec, queued, lost, primers, hits>>

Unlink(e) ==
  /\ Write(Committed(g, [g EXCEPT !.ed = @ \ {e}]))
  /\ UNCHANGED <<vec, queued, lost, primers, hits>>

\* deleteThought, with what cascades from it.
Delete(id) ==
  /\ Has(g, id)
  /\ Write(Committed(g, DeleteThought(g, id)))
  /\ vec' = [x \in DOMAIN vec \ {id} |-> vec[x]]
  /\ queued' = queued \ {id}
  /\ primers' = Filtered(primers, LAMBDA x : x # id)
  /\ hits' = [hits EXCEPT ![id] = 0]
  /\ UNCHANGED lost

\* The embedder's worker stores the vector of a queued thought.
Work(id) ==
  /\ writes > 0 /\ writes' = writes - 1
  /\ id \in queued /\ Has(g, id)
  /\ vec' = [x \in DOMAIN vec \cup {id} |-> IF x = id THEN g.th[id].content ELSE vec[x]]
  /\ queued' = queued \ {id}
  /\ lost' = lost \ {id}
  /\ UNCHANGED <<g, primers, hits, saw>>

\* The day a pending thought waits for has come.
Wake(id) ==
  /\ g.th[id].wait
  /\ Write([g EXCEPT !.th[id].wait = FALSE])
  /\ UNCHANGED <<vec, queued, lost, primers, hits>>

Others ==
  \/ \E id \in DOMAIN g.th : Wake(id)
  \/ \E id \in Deletable, d \in Edits : Update(id, d) \/ ("content" \in DOMAIN d /\ LateEdit(id, d))
  \/ \E l \in NewLinks : Link(l.s, l.t, l.type)
  \/ \E e \in g.ed : Unlink(e) \/ \E type \in NewTypes : Retype(e, type)
  \/ \E id \in Deletable : Delete(id) \/ Work(id)
=============================================================================
