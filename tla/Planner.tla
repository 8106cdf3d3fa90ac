------------------------------ MODULE Planner -------------------------------
(***************************************************************************)
(* proposePlacementPlan (services/placement/engine.ts): where a thought    *)
(* belongs, which edges it might have and what might become of it, from a  *)
(* snapshot of the candidates, their vectors and the words of both.  The   *)
(* plan writes nothing; its reads are spread over an await of the embedder *)
(* and share no transaction.                                               *)
(***************************************************************************)
EXTENDS Corpus

CONSTANTS Cues(_),        \* "negation", "evidence", "evolution", "dependency" in a content
          MinSimilarity,  \* edgeDetect.minSimilarity, percent
          NeighborK, MaxCandidates, MaxProposals,   \* edgeDetect.topK, ...
          MaxClusterSize  \* placement.maxClusterSize

VARIABLE plan

Draft == "(draft)"

NoFate == [action |-> "keep", target |-> "none"]

NoPlan == [pc |-> "idle"]

\* A call names a thought or brings the content of a draft.
NewPlan(call) ==
  [pc |-> "start", call |-> call, src |-> "none", rows |-> <<>>, pool |-> <<>>,
   merge |-> "none", pending |-> {}, vectors |-> <<>>, blind |-> {}, degraded |-> FALSE,
   cluster |-> "none", placed |-> [kind |-> "none", target |-> "none"],
   edges |-> <<>>, fate |-> NoFate]

In(p, pc) == plan[p].pc = pc

Set(p, r) == plan' = [plan EXCEPT ![p] = r]

(***************************************************************************)
(* The candidates.                                                         *)
(***************************************************************************)
\* The bound is applied to the newest thoughts, the clusters among them taken
\* out afterwards, and the source put in front if it is not there.
Pools(h, src, proj) ==
  LET Newest(x) == h.th[x].born
      active == {x \in DOMAIN h.th : h.th[x].status = "active" /\ h.th[x].proj = proj}
      Regulars(s) == {x \in ToSet(FirstOf(s, MaxCandidates)) : ~h.th[x].cluster}
      orders == UNION {Ranked(Regulars(s), Newest) : s \in Ranked(active, Newest)}
  IN  {IF src \in ToSet(s) THEN s ELSE <<src>> \o s : s \in orders}

\* findMergeTarget: the nearest duplicate in words, the first by id among equals.
MergeTarget(rows, pool, src) ==
  LET Near(x) == IF rows[x].content = rows[src].content THEN 100
                 ELSE Overlap(rows[src].content, rows[x].content)
      found == {x \in ToSet(pool) \ {src} : Near(x) >= 60}
      best == {x \in found : \A y \in found \ {x} :
                 Near(x) > Near(y) \/ (Near(x) = Near(y) /\ Earlier(x, y))}
  IN  IF best = {} THEN "none" ELSE CHOOSE x \in best : TRUE

DraftRow(call) ==
  [content |-> call.content, proj |-> call.proj, status |-> "draft", cluster |-> FALSE,
   born |-> call.now, imp |-> 0, tags |-> {}]

\* The rows out of date are read before the vectors, so that one refreshed in
\* between is embedded once too often rather than used stale.
ReadOrder_Reversed == <<"stored", "pending">>

ReadOrder == <<"pending", "stored">>

AfterRead(r) == IF r = ReadOrder[1] THEN ReadOrder[2] ELSE "embed"

Start(p) ==
  LET call == plan[p].call
      src == IF call.id = "none" THEN Draft ELSE call.id
      row == IF src = Draft THEN DraftRow(call) ELSE g.th[src]
  IN  /\ In(p, "start")
      /\ IF src # Draft /\ ~Has(g, src) THEN Set(p, [plan[p] EXCEPT !.pc = "failed"])
         ELSE IF row.cluster THEN Set(p, [plan[p] EXCEPT !.pc = "done", !.src = src])
         ELSE \E pool \in Pools(g, src, row.proj) :
                LET rows == [x \in ToSet(pool) |-> IF x = src THEN row ELSE g.th[x]]
                IN  Set(p, [plan[p] EXCEPT !.pc = ReadOrder[1], !.src = src, !.pool = pool,
                              !.rows = rows, !.merge = MergeTarget(rows, pool, src),
                              !.blind = lost])
      /\ UNCHANGED <<corpus, saw, writes>>

(***************************************************************************)
(* The vectors of the candidates (candidate-embeddings.service.ts).        *)
(***************************************************************************)
\* A read that fails names every candidate.
ReadPending(p) ==
  LET all == ToSet(plan[p].pool)
  IN  /\ In(p, "pending")
      /\ \E found \in {queued \cap all, all} :
           Set(p, [plan[p] EXCEPT !.pc = AfterRead("pending"), !.pending = found])
      /\ UNCHANGED <<corpus, saw, writes>>

\* A read that fails finds none.
ReadStored(p) ==
  LET all == ToSet(plan[p].pool)
  IN  /\ In(p, "stored")
      /\ \E found \in {DOMAIN vec \cap all, {}} :
           Set(p, [plan[p] EXCEPT !.pc = AfterRead("stored"), !.vectors = [x \in found |-> vec[x]]])
      /\ UNCHANGED <<corpus, saw, writes>>

Missing(r) == {x \in ToSet(r.pool) : x \notin DOMAIN r.vectors \/ x \in r.pending}

Embed(p) ==
  LET r == plan[p]
  IN  /\ In(p, "embed")
      /\ Set(p, [r EXCEPT !.pc = "cluster",
                   !.vectors = [x \in ToSet(r.pool) |-> IF x \in Missing(r) THEN r.rows[x].content
                                                       ELSE r.vectors[x]]])
      /\ UNCHANGED <<corpus, saw, writes>>

(***************************************************************************)
(* Neighbours, and where they live (services/placement/placement.ts).      *)
(***************************************************************************)
Sim(vectors, x, y) == Similarity(vectors[x], vectors[y])

\* The NeighborK nearest candidates of x, in the order of the pool among equals.
Nearest(pool, vectors, x) ==
  LET Place(y) == SelectInSeq(pool, LAMBDA z : z = y)
      Nearer(y, z) == \/ Sim(vectors, x, y) > Sim(vectors, x, z)
                      \/ Sim(vectors, x, y) = Sim(vectors, x, z) /\ Place(y) < Place(z)
  IN  ToSet(FirstOf(SetToSortSeq(ToSet(pool) \ {x}, Nearer), NeighborK))

\* findEmbeddingNeighborPairs: a pair counts from either side.
Pairs(src, pool, vectors) ==
  {x \in ToSet(pool) \ {src} :
     /\ Sim(vectors, src, x) >= MinSimilarity
     /\ x \in Nearest(pool, vectors, src) \/ src \in Nearest(pool, vectors, x)}

Paired(r) == Pairs(r.src, r.pool, r.vectors)

\* neighborsOf: the most similar first, then by id.
Neighbors(r) ==
  LET Near(x) == Sim(r.vectors, r.src, x)
  IN  SetToSortSeq(Paired(r), LAMBDA x, y : \/ Near(x) > Near(y)
                                            \/ Near(x) = Near(y) /\ Earlier(x, y))

ClusterMembers(h, c) ==
  {e.t : e \in {f \in h.ed : f.s = c /\ f.type = "cluster" /\ h.th[f.t].status # "archived"}}

Majority_Half(n, total) == 2 * n >= total

Majority(n, total) == 2 * n > total

\* The cluster most neighbours are in, of those in one of the project.
Elected(h, proj, home) ==
  LET counted == {x \in DOMAIN home : h.th[home[x]].proj = proj}
      Count(c) == Cardinality({x \in counted : home[x] = c})
      best == {c \in {home[x] : x \in counted} : Majority(Count(c), Cardinality(counted))}
  IN  IF best = {} THEN "none" ELSE CHOOSE c \in best : TRUE

\* proposeCluster, its first read: of the clusters of a neighbour the last row
\* counts, and only if it is in the project.
PlaceByCluster(p) ==
  LET r == plan[p]
  IN  /\ In(p, "cluster")
      /\ \E home \in Homes(g, Paired(r)) :
           Set(p, [r EXCEPT !.pc = "room", !.cluster = Elected(g, r.rows[r.src].proj, home)])
      /\ UNCHANGED <<corpus, saw, writes>>

\* ... and its second: whether the cluster has room.
CheckRoom(p) ==
  LET r == plan[p]
      fits == r.cluster # "none" /\ Cardinality(ClusterMembers(g, r.cluster)) < MaxClusterSize
  IN  /\ In(p, "room")
      /\ Set(p, [r EXCEPT !.pc = IF fits THEN "link" ELSE "parent",
                          !.placed = IF fits THEN [kind |-> "cluster", target |-> r.cluster] ELSE @])
      /\ UNCHANGED <<corpus, saw, writes>>

\* Of a thought with more than MaxDegree edges only the newest are looked at.
InChain(h, x) == \E e \in Shown(h, x) : e.type \in {"parent", "develops"}

\* proposeParent: the nearest neighbour that is in a parent or develops chain.
PlaceByParent(p) ==
  LET r == plan[p]
      chained == SelectSeq(Neighbors(r), LAMBDA x : InChain(g, x))
  IN  /\ In(p, "parent")
      /\ Set(p, [r EXCEPT !.pc = "link",
                   !.placed = IF chained = <<>> THEN @ ELSE [kind |-> "parent", target |-> chained[1]]])
      /\ UNCHANGED <<corpus, saw, writes>>

\* proposePlacement: a cluster before a parent.
Place(p) == PlaceByCluster(p) \/ CheckRoom(p) \/ PlaceByParent(p)

(***************************************************************************)
(* Edges and lifecycle (edge-type-rules.ts, lifecycle.ts).                 *)
(***************************************************************************)
\* extractThoughtSignals: what the words of a thought give away, and whether it
\* is something still to be done.
Heard(row) ==
  [negated    |-> "negation" \in Cues(row.content),
   evidence   |-> "evidence" \in Cues(row.content),
   evolution  |-> "evolution" \in Cues(row.content),
   dependency |-> \/ "dependency" \in Cues(row.content)
                  \/ row.tags \cap {"pending", "todo", "blocked", "task"} # {}]

\* extractPairSignals: the cues of the source, what it has in common with the
\* target, and whether the target is still to be done.
Signals(r, x) ==
  LET mine == r.rows[r.src]
      other == r.rows[x]
  IN  [sim        |-> Sim(r.vectors, r.src, x),
       overlap    |-> Overlap(mine.content, other.content),
       opposed    |-> Heard(mine).negated # Heard(other).negated,
       evidence   |-> Heard(mine).evidence,
       evolution  |-> Heard(mine).evolution,
       newer      |-> mine.born > other.born,
       ordered    |-> mine.born # other.born,
       dependency |-> Heard(other).dependency]

\* The rules in order of precedence; weight is twice the confidence.
Rules(r, x) ==
  LET s == Signals(r, x)
      Rule(type, fires, weight) == [type |-> type, fires |-> fires, weight |-> weight]
  IN  << Rule("replaces", s.newer /\ s.overlap >= 60 /\ s.evolution, s.overlap + s.sim),
         Rule("contradicts", s.opposed /\ s.sim >= 75 /\ s.overlap >= 50, 2 * s.sim),
         Rule("supports", s.evidence /\ s.sim >= 75, 2 * s.sim),
         Rule("develops", s.evolution /\ s.newer /\ s.overlap >= 30, 2 * s.overlap),
         Rule("depends_on", s.dependency /\ s.ordered, 100),
         Rule("related", s.sim > 0, 2 * s.sim) >>

Fires(r, x) == \E i \in DOMAIN Rules(r, x) : Rules(r, x)[i].fires

\* classifyEdgeType: the first rule that fires, if one does.
Classified(r, x) ==
  LET rules == Rules(r, x)
      rule == rules[FirstSuch(rules, LAMBDA q : q.fires)]
  IN  [target |-> x, type |-> rule.type, weight |-> rule.weight]

Linked(h, x, y) == \E e \in h.ed : {e.s, e.t} = {x, y}

\* Every new pair, before the cut: the most confident first, then by id.
Proposals(h, r) ==
  LET fresh == {x \in Paired(r) : ~Linked(h, r.src, x) /\ Fires(r, x)}
      Before(e, f) == e.weight > f.weight \/ (e.weight = f.weight /\ Earlier(e.target, f.target))
  IN  Sorted({Classified(r, x) : x \in fresh}, Before)

\* decideLifecycle: a supersession counts even past the cut.
Fate(r, all) ==
  LET Newer(e) == e.type = "replaces" /\ r.rows[e.target].status = "active"
  IN  IF \E i \in DOMAIN all : Newer(all[i])
      THEN [action |-> "replaces+archive", target |-> all[FirstSuch(all, Newer)].target]
      ELSE IF r.merge # "none" THEN [action |-> "merge", target |-> r.merge]
      ELSE IF all # <<>> THEN [action |-> "link", target |-> all[1].target]
      ELSE NoFate

Conclude(p) ==
  LET r == plan[p]
  IN  /\ In(p, "link")
      /\ \E all \in Proposals(g, r) :
           Set(p, [r EXCEPT !.pc = "done", !.edges = FirstOf(all, MaxProposals), !.fate = Fate(r, all)])
      /\ UNCHANGED <<corpus, saw, writes>>

\* The embedder failed: only the words are left to judge by.
EmbedFails(p) ==
  LET r == plan[p]
  IN  /\ In(p, "embed") /\ Missing(r) # {}
      /\ Set(p, [r EXCEPT !.pc = "done", !.degraded = TRUE, !.vectors = <<>>, !.fate = Fate(r, <<>>)])
      /\ UNCHANGED <<corpus, saw, writes>>

PlanStep(p) ==
  \/ Start(p) \/ ReadPending(p) \/ ReadStored(p)
  \/ Embed(p) \/ EmbedFails(p)
  \/ Place(p) \/ Conclude(p)
=============================================================================
