------------------------------- MODULE Search -------------------------------
(***************************************************************************)
(* memory_recall search, clusters and context, from the request to the     *)
(* answer: the look-up by id, the embedding of the query, the two legs,    *)
(* their fusion, hydration, graph standing and the relevance gate          *)
(* (services/search.service.ts, db/search*.ts), then the hits and primers  *)
(* a search writes (services/search_postprocess.service.ts).               *)
(*                                                                         *)
(* Within its process a search runs without a break once it has the        *)
(* embedding, but it opens no transaction: what other processes write      *)
(* falls between any two of its steps, each the reads of one function.     *)
(* The recency boost, off by default, is left out.                         *)
(***************************************************************************)
EXTENDS Corpus

CONSTANTS Named,       \* query of hex digits -> [hex, ids]: how many, and the ids that begin so
          MaxTopK, PrefixCap,              \* SEARCH_MAX_TOP_K, ID_PREFIX_MATCH_HARD_CAP
          Overfetch, PoolFactor, PoolMax,  \* SUPPRESSION_OVERFETCH_FACTOR, CANDIDATE_POOL_*
          DefaultGate, Unrelated, Strong,  \* min_relevance and the calibration band, percent
          PromoteAt    \* primer.promoteThreshold

VARIABLE search        \* per process, the search it is in

RrfK == 60
RrfScale == 1000000

Lesser(a, b) == IF a < b THEN a ELSE b

\* What the handlers make of their arguments when the caller gives only a query.
Request(kind, query, topK) ==
  [kind |-> kind, query |-> query,
   topK |-> IF kind = "context" THEN 1 ELSE Lesser(topK, MaxTopK),
   status |-> "active", proj |-> "any", minImp |-> 0, tagged |-> FALSE, hybrid |-> TRUE,
   cluster |-> IF kind = "clusters" THEN "only" ELSE "any",
   supersession |-> IF kind = "search" THEN "suppress" ELSE "flag",
   contradiction |-> "flag",
   gate |-> IF kind = "context" THEN 0 ELSE DefaultGate,
   group |-> FALSE]

NoSearch == [pc |-> "idle"]

Fresh(req) ==
  [pc |-> "ask", req |-> req, byId |-> FALSE, ambiguous |-> FALSE, degraded |-> FALSE, lexical |-> TRUE,
   vec |-> <<>>, bm |-> <<>>, items |-> <<>>, matched |-> 0, dropped |-> 0,
   todo |-> <<>>, out |-> <<>>, primed |-> <<>>, chain |-> {}]

At(p, pc) == search[p].pc = pc

Goto(p, s) == search' = [search EXCEPT ![p] = s]

Finished(s) == [s EXCEPT !.pc = "done"]

Ids(items) == [i \in DOMAIN items |-> items[i].id]

(***************************************************************************)
(* Scope.                                                                  *)
(***************************************************************************)
InCluster(h, x, cluster) == cluster # "any" => h.th[x].cluster = (cluster = "only")

Scoped(h, x, req) ==
  /\ h.th[x].status = req.status
  /\ req.proj # "any" => h.th[x].proj = req.proj \/ h.th[x].pinned

\* buildFilterSQL; pinned stands for is_global here.
Passes(h, x, req) ==
  /\ Has(h, x)
  /\ Scoped(h, x, req) /\ InCluster(h, x, req.cluster)
  /\ h.th[x].imp >= req.minImp

CandidateK_NoOverfetch(req) == req.topK

CandidateK(req) == IF req.supersession = "suppress" \/ req.gate > 0
                   THEN Lesser(MaxTopK, req.topK * Overfetch) ELSE req.topK

Pool(req) == Lesser(PoolMax, CandidateK(req) * PoolFactor)

(***************************************************************************)
(* An id-shaped query. A full id ignores the scope but for the kind of     *)
(* thought asked for; a prefix is a window of time and obeys it.           *)
(***************************************************************************)
ShortestPrefix == 13
IdHexLength == 32

\* parseThoughtIdQuery: fewer digits are a word or a date.
IdShaped(query) ==
  query \in DOMAIN Named /\ Named[query].hex \in ShortestPrefix..IdHexLength

Exact(query) == Named[query].hex = IdHexLength

Beginning(h, req) ==
  {x \in Named[req.query].ids :
     /\ Has(h, x) /\ InCluster(h, x, req.cluster)
     /\ Exact(req.query) \/ Scoped(h, x, req)}

Addressed_NoMore(h, req) == FirstOf(SortedIds(Beginning(h, req)), Lesser(req.topK, PrefixCap))

\* findThoughtsByIdQuery, asked for one row more than will be shown.
Addressed(h, req) == FirstOf(SortedIds(Beginning(h, req)), Lesser(req.topK + 1, PrefixCap))

\* runIdLookup: a miss falls through to a search for the text.
Ask(p) ==
  LET s == search[p]
      hit == IF IdShaped(s.req.query) THEN Addressed(g, s.req) ELSE <<>>
      shown == FirstOf(hit, Lesser(s.req.topK, PrefixCap))
  IN  /\ At(p, "ask")
      /\ Goto(p, IF hit = <<>> THEN [s EXCEPT !.pc = "embed"]
                 ELSE [s EXCEPT !.pc = "replaces", !.byId = TRUE, !.ambiguous = Len(hit) > 1,
                         !.items = [i \in DOMAIN shown |->
                                      [id |-> shown[i], via |-> {"id"}, sim |-> 0,
                                       standing |-> "none"]]])
      /\ UNCHANGED <<corpus, saw, writes>>

(***************************************************************************)
(* The legs.                                                               *)
(***************************************************************************)
AfterVec(s) == IF s.req.hybrid THEN "bm" ELSE "hydrate"

Embedded(p) ==
  /\ At(p, "embed")
  /\ Goto(p, [search[p] EXCEPT !.pc = "vec"])
  /\ UNCHANGED <<corpus, saw, writes>>

\* The embedder failed or took more than 5 s: the words alone have to do.
NoEmbedding(p) ==
  /\ At(p, "embed")
  /\ Goto(p, [search[p] EXCEPT !.pc = AfterVec(search[p]), !.degraded = TRUE])
  /\ UNCHANGED <<corpus, saw, writes>>

\* vec0 ranks all the vectors; the scope is applied to the nearest of them.
VecLeg(p) ==
  LET s == search[p]
      Sim(x) == Similarity(s.req.query, vec[x])
      InScope(x) == Passes(g, x, s.req)
  IN  /\ At(p, "vec")
      /\ \E near \in Ranked(DOMAIN vec, Sim) :
           LET kept == FirstOf(Filtered(FirstOf(near, Pool(s.req)), InScope), CandidateK(s.req))
           IN  Goto(p, [s EXCEPT !.pc = AfterVec(s),
                          !.vec = [i \in DOMAIN kept |-> [id |-> kept[i], sim |-> Sim(kept[i])]]])
      /\ UNCHANGED <<corpus, saw, writes>>

\* Filtered BM25: three pools of matches are read before the scope is applied.
BmLeg(p) ==
  LET s == search[p]
      Score(x) == Match(s.req.query, g.th[x].content)
      InScope(x) == Passes(g, x, s.req)
  IN  /\ At(p, "bm")
      /\ \E best \in Ranked({x \in DOMAIN g.th : Score(x) > 0}, Score) :
           Goto(p, [s EXCEPT !.pc = "hydrate",
                      !.bm = FirstOf(Filtered(FirstOf(best, Lesser(PoolMax, 3 * Pool(s.req))), InScope),
                                     Pool(s.req))])
      /\ UNCHANGED <<corpus, saw, writes>>

\* A leg that throws leaves the other one.
LegFails(p) ==
  LET s == search[p]
  IN  /\ At(p, "vec") \/ At(p, "bm")
      /\ Goto(p, IF At(p, "vec") THEN [s EXCEPT !.pc = AfterVec(s), !.degraded = TRUE]
                 ELSE [s EXCEPT !.pc = "hydrate", !.degraded = TRUE, !.lexical = FALSE])
      /\ UNCHANGED <<corpus, saw, writes>>

PlaceIn(l, x) == SelectInSeq(l, LAMBDA y : y = x)

RrfScore(lists, x) ==
  LET Share(l) == IF x \in ToSet(l) THEN RrfScale \div (RrfK + PlaceIn(l, x)) ELSE 0
  IN  Share(lists[1]) + Share(lists[2])

\* rrfMerge: a stable sort of the ids in the order the lists first name them.
RrfMerge(lists) ==
  LET FirstIn(x) == IF x \in ToSet(lists[1]) THEN PlaceIn(lists[1], x)
                  ELSE Len(lists[1]) + PlaceIn(lists[2], x)
      Before(x, y) == \/ RrfScore(lists, x) > RrfScore(lists, y)
                      \/ RrfScore(lists, x) = RrfScore(lists, y) /\ FirstIn(x) < FirstIn(y)
  IN  Sorted(ToSet(lists[1]) \cup ToSet(lists[2]), Before)

Fused(s) == IF s.req.hybrid
            THEN {FirstOf(m, CandidateK(s.req)) : m \in RrfMerge(<<Ids(s.vec), s.bm>>)}
            ELSE {Ids(s.vec)}

\* fetchThoughtsByIds applies the scope again.
Hydrate(p) ==
  LET s == search[p]
      Near(x) == {v \in ToSet(s.vec) : v.id = x}
      Item(x) == [id |-> x, standing |-> "none",
                  sim |-> IF Near(x) = {} THEN 0 ELSE (CHOOSE v \in Near(x) : TRUE).sim,
                  via |-> (IF Near(x) = {} THEN {} ELSE {"embedding"})
                            \cup (IF x \in ToSet(s.bm) THEN {"bm25"} ELSE {})]
  IN  /\ At(p, "hydrate")
      /\ \E fused \in Fused(s) :
           LET kept == Filtered(fused, LAMBDA x : Passes(g, x, s.req))
           IN  Goto(p, [s EXCEPT !.pc = IF s.req.tagged THEN "tags" ELSE "replaces",
                          !.items = [i \in DOMAIN kept |-> Item(kept[i])]])
      /\ UNCHANGED <<corpus, saw, writes>>

Tagged(h, x, req) == req.tagged => Has(h, x) /\ "t" \in h.th[x].tags

\* filterByTags, a read of its own after the scope was applied.
FilterTags(p) ==
  LET s == search[p]
  IN  /\ At(p, "tags")
      /\ Goto(p, [s EXCEPT !.pc = "replaces",
                           !.items = Filtered(@, LAMBDA r : Tagged(g, r.id, s.req))])
      /\ UNCHANGED <<corpus, saw, writes>>

(***************************************************************************)
(* Graph standing and the relevance gate.                                  *)
(***************************************************************************)
Superseded_BySource(h, x) == \E e \in h.ed : e.type = "replaces" /\ e.s = x

Superseded(h, x) == \E e \in h.ed : e.type = "replaces" /\ e.t = x

Contested(h, x) == \E e \in h.ed : e.type = "contradicts" /\ e.s # e.t /\ x \in {e.s, e.t}

\* Neither kind of doubt is asked about.
Unjudged(req) == req.supersession = "off" /\ req.contradiction = "off"

\* annotateGraphStanding asks first who is superseded ...
ReadReplaces(p) ==
  LET s == search[p]
      Marked(r) == [r EXCEPT !.standing = IF s.req.supersession # "off" /\ Superseded(g, r.id)
                                          THEN "superseded" ELSE "current"]
  IN  /\ At(p, "replaces")
      /\ Goto(p, [s EXCEPT !.pc = "standing",
                           !.items = IF Unjudged(s.req) THEN @ ELSE [i \in DOMAIN @ |-> Marked(@[i])]])
      /\ UNCHANGED <<corpus, saw, writes>>

\* ... and then who is contradicted; nothing holds the store in between.
Annotated(item, req) ==
  IF item.standing # "superseded" /\ req.contradiction # "off" /\ Contested(g, item.id)
  THEN [item EXCEPT !.standing = "contradicted"] ELSE item

\* applyGraphStanding and orderByStanding; an item named by its id is flagged,
\* never suppressed.
Standings(s) ==
  LET all == [i \in DOMAIN s.items |-> Annotated(s.items[i], s.req)]
      With(standing) == Filtered(all, LAMBDA r : r.standing = standing)
      suppress == s.req.supersession = "suppress" /\ ~s.byId
  IN  IF Unjudged(s.req) THEN s.items
      ELSE With("current") \o With("contradicted")
             \o (IF suppress THEN <<>> ELSE With("superseded"))

\* calibrateRelevance(sim) >= gate.
Relevant(sim, gate) ==
  IF Strong > Unrelated THEN 100 * (sim - Unrelated) >= gate * (Strong - Unrelated)
  ELSE sim >= Strong

KeptByGate_NoAnchor(item, gate) == gate <= 0 \/ ("embedding" \in item.via /\ Relevant(item.sim, gate))

\* keepsUnderRelevanceGate: the words of the query in a thought anchor it.
KeptByGate(item, gate) ==
  \/ gate <= 0
  \/ "bm25" \in item.via
  \/ "embedding" \in item.via /\ Relevant(item.sim, gate)

Flat(ids) == [i \in DOMAIN ids |-> [cluster |-> "none", ids |-> <<ids[i]>>]]

\* contextHandler: the best match, if there is one, with its neighbourhood.
Nearby(s) == IF s.items = <<>> THEN Finished(s) ELSE [s EXCEPT !.pc = "chain"]

\* Standing, gate and the cut at topK; context goes on to the best match's
\* neighbourhood, the others to what a search leaves behind.
Stand(p) ==
  LET s == search[p]
      standing == Standings(s)
      gated == IF s.byId THEN standing
               ELSE Filtered(standing, LAMBDA r : KeptByGate(r, s.req.gate))
      final == FirstOf(gated, s.req.topK)
      answered == [s EXCEPT !.items = final, !.out = Flat(Ids(final)), !.todo = Flat(Ids(final)),
                            !.matched = IF s.byId THEN Len(final) ELSE Len(standing),
                            !.dropped = Len(standing) - Len(gated)]
  IN  /\ At(p, "standing")
      /\ Goto(p, IF s.req.kind = "context" THEN Nearby(answered)
                 ELSE [answered EXCEPT !.pc = IF s.req.group THEN "group" ELSE "hit"])
      /\ UNCHANGED <<corpus, saw, writes>>

\* getContextService; of a cluster only the members are shown.
Chain(p) ==
  LET s == search[p]
      best == s.items[1].id
  IN  /\ At(p, "chain")
      /\ Goto(p, [Finished(s) EXCEPT !.chain = IF IsCluster(g, best)
                                               THEN {e \in Shown(g, best) : e.s = best}
                                               ELSE Shown(g, best)])
      /\ UNCHANGED <<corpus, saw, writes>>

(***************************************************************************)
(* What the answer looks like, and what it leaves behind.                  *)
(***************************************************************************)
\* groupResultsByCluster: what is in no cluster, then a group for each cluster.
Grouped(ids, home) ==
  LET Of(c) == Filtered(ids, LAMBDA x : x \in DOMAIN home /\ home[x] = c)
      lone == Filtered(ids, LAMBDA x : x \notin DOMAIN home)
      first == Filtered(ids, LAMBDA x : x \in DOMAIN home /\ Of(home[x])[1] = x)
  IN  Flat(lone) \o [i \in DOMAIN first |-> [cluster |-> home[first[i]], ids |-> Of(home[first[i]])]]

Group(p) ==
  LET s == search[p]
      ids == Ids(s.items)
  IN  /\ At(p, "group")
      /\ \E home \in Homes(g, ToSet(ids)) :
           Goto(p, [s EXCEPT !.pc = "hit", !.out = Grouped(ids, home), !.todo = Grouped(ids, home)])
      /\ UNCHANGED <<corpus, saw, writes>>

IsPrimer(x) == x \in ToSet(primers)

\* extractResultIds: the first thought of what is left to count, and the rest.
Counted(todo) == todo[1].ids[1]

Past(todo) == IF Len(todo[1].ids) = 1 THEN Tail(todo) ELSE [todo EXCEPT ![1].ids = Tail(@)]

\* updatePrimerHits, one thought: a hit is counted and its count read back; a
\* thought at the threshold that is no primer yet goes on to be one.
Hit(p) ==
  LET s == search[p]
      x == Counted(s.todo)
  IN  /\ At(p, "hit") /\ s.todo # <<>>
      /\ hits' = IF Has(g, x) THEN [hits EXCEPT ![x] = @ + 1] ELSE hits
      /\ Goto(p, IF Has(g, x) /\ ~IsPrimer(x) /\ hits[x] + 1 >= PromoteAt
                 THEN [s EXCEPT !.pc = "promote"]
                 ELSE [s EXCEPT !.todo = Past(@)])
      /\ UNCHANGED <<g, vec, queued, lost, primers, saw, writes>>

\* promoteThoughtToPrimer after its own look for a row: no constraint stops a
\* second row, but the foreign key stops one for a deleted thought, and the
\* whole call fails.
Promote(p) ==
  LET s == search[p]
      x == Counted(s.todo)
  IN  /\ At(p, "promote")
      /\ IF Has(g, x)
         THEN /\ primers' = Append(primers, x)
              /\ g' = BoostImportance(g, x)
              /\ See(g')
              /\ Goto(p, [s EXCEPT !.pc = "hit", !.todo = Past(@)])
         ELSE /\ Goto(p, [s EXCEPT !.pc = "failed"])
              /\ UNCHANGED <<primers, g, saw>>
      /\ UNCHANGED <<vec, queued, lost, hits, writes>>

InAny(out, x) == \E i \in DOMAIN out : x \in ToSet(out[i].ids)

Hoisted_KeepsTail(out, order) == Flat(Filtered(order, LAMBDA x : InAny(out, x))) \o out

\* prependPrimerResults.
Hoisted(out, order) ==
  LET found == Filtered(order, LAMBDA x : InAny(out, x))
      rest == [i \in DOMAIN out |->
                 [out[i] EXCEPT !.ids = Filtered(@, LAMBDA x : x \notin ToSet(found))]]
  IN  Flat(found) \o Filtered(rest, LAMBDA r : r.ids # <<>>)

Hoist(p) ==
  LET s == search[p]
  IN  /\ At(p, "hit") /\ s.todo = <<>>
      /\ Goto(p, [Finished(s) EXCEPT !.primed = primers, !.out = Hoisted(s.out, primers)])
      /\ UNCHANGED <<corpus, saw, writes>>

\* searchReason: why an answer is empty, or not the whole of one.
Reason(s) ==
  IF IdShaped(s.req.query) /\ ~s.byId /\ s.matched = 0 THEN "id_not_found"
  ELSE IF s.ambiguous THEN "ambiguous_id"
  ELSE IF s.matched = 0 THEN "no_match" ELSE "none"

SearchStep(p) ==
  \/ Ask(p) \/ Embedded(p) \/ NoEmbedding(p)
  \/ VecLeg(p) \/ BmLeg(p) \/ LegFails(p)
  \/ Hydrate(p) \/ FilterTags(p) \/ ReadReplaces(p) \/ Stand(p) \/ Chain(p) \/ Group(p)
  \/ Hit(p) \/ Promote(p) \/ Hoist(p)
=============================================================================
