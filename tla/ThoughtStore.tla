---------------------------- MODULE ThoughtStore ----------------------------
(***************************************************************************)
(* The knowledge graph one database file holds, and what one transaction   *)
(* does to it: thoughts (db/thoughts.ts), the edges between them           *)
(* (db/edges.ts) and the services that write several rows at once.         *)
(*                                                                         *)
(* A store is a record g:                                                  *)
(*   th    the thoughts that exist, [id -> row]                            *)
(*   ed    the edge rows [s, t, type, ver]; `ver` tells two rows on one    *)
(*         pair apart, as their ids do                                     *)
(*   projs the project rows; nothing ties a thought's project to them      *)
(*   made  how many thoughts were created, so that an id is never reused   *)
(*   ver   how many transactions wrote an edge                             *)
(* A transaction body maps a store to an outcome [ok, why, g, id]; when it *)
(* is not ok the transaction is rolled back and g is the store it began    *)
(* with.                                                                   *)
(*                                                                         *)
(* A row keeps its `content` and project, and apart from them the `hash`   *)
(* the last write computed from both: the dedupe index reads the hash.     *)
(* `imp` counts importance in steps up to MaxImp (a missing row reads 1.0),*)
(* `hit` is hit_count > 0, `pinned` is_global or a surface_after that has  *)
(* not come. Tags, links, importance rows of their own and wording are     *)
(* left out.                                                               *)
(***************************************************************************)
EXTENDS Naturals, Sequences, FiniteSets, FiniteSetsExt, SequencesExt

CONSTANTS NewIds,          \* the ids later creations take, in order
          DefaultProject,  \* the project `_meta.default_project_id` names
          MaxImp,          \* importance 1.0, in steps
          Floor,           \* retentionReview.importanceFloor, in steps
          MinAge           \* retentionReview.minAgeDays, in ticks

EdgeTypes == {"related", "parent", "replaces", "develops", "cluster",
              "references", "depends_on", "contradicts", "supports"}

Symmetric == {"related", "contradicts"}

Statuses == {"draft", "active", "archived"}

Has(g, id) == id \in DOMAIN g.th

Live(g) == {x \in DOMAIN g.th : g.th[x].status # "archived"}

IsCluster(g, id) == Has(g, id) /\ g.th[id].cluster

EdgesOf(g, id) == {e \in g.ed : id \in {e.s, e.t}}

Pair(g, a, b) == {e \in g.ed : {e.s, e.t} = {a, b}}

Neighbours(g, id) == (UNION {{e.s, e.t} : e \in EdgesOf(g, id)}) \ {id}

Done(g) == [ok |-> TRUE, why |-> "ok", g |-> g]
Refuse(g, why) == [ok |-> FALSE, why |-> why, g |-> g]

(***************************************************************************)
(* Thoughts.                                                               *)
(***************************************************************************)
Hash(row) == <<row.content, row.proj>>

\* The live rows the unique index (content_hash, project_id) would clash with.
Twins(g, row) == {x \in Live(g) : g.th[x].hash = row.hash /\ g.th[x].proj = row.proj}

\* createThought: a live thought with this content is returned, stamped,
\* instead of a second one.  d: [content, proj, status, prot, cluster].
CreateThought(g, d, t) ==
  LET row == [content |-> d.content, proj |-> d.proj, status |-> d.status,
              prot |-> d.prot, cluster |-> d.cluster,
              hash |-> <<d.content, d.proj>>, imp |-> MaxImp, hit |-> FALSE,
              pinned |-> FALSE, born |-> t, gone |-> 0, stamp |-> t]
      new == NewIds[g.made + 1]
      twins == IF d.status = "archived" THEN {} ELSE Twins(g, row)
      twin == CHOOSE x \in twins : TRUE
  IN  IF twins # {}
      THEN [ok |-> TRUE, why |-> "twin", id |-> twin,
            g |-> [g EXCEPT !.th[twin].stamp = t]]
      ELSE [ok |-> TRUE, why |-> "ok", id |-> new,
            g |-> [g EXCEPT !.made = @ + 1,
                            !.th = [x \in DOMAIN @ \cup {new} |->
                                      IF x = new THEN row ELSE @[x]]]]

CanCreate(g, n) == g.made + n <= Len(NewIds)

\* The ids later creations take.
Unused(g) == {NewIds[i] : i \in (g.made + 1)..Len(NewIds)}

\* As UpdateThought, but a change of project alone keeps the hash.
UpdateThought_KeepsHash(g, id, d, t) ==
  LET old == g.th[id]
      given == [f \in DOMAIN old |-> IF f \in DOMAIN d THEN d[f] ELSE old[f]]
      new == [given EXCEPT !.hash = IF "content" \in DOMAIN d THEN Hash(given) ELSE @,
                           !.stamp = t]
  IN  IF ~Has(g, id) THEN Refuse(g, "missing")
      ELSE IF DOMAIN d # {} /\ new.status # "archived" /\ Twins(g, new) \ {id} # {}
           THEN Refuse(g, "clash")
      ELSE Done([g EXCEPT !.th[id] = new])

\* updateThought: d holds the fields given. The hash is computed again when
\* content or project is among them, and a live row must not clash.
UpdateThought(g, id, d, t) ==
  LET old == g.th[id]
      given == [f \in DOMAIN old |-> IF f \in DOMAIN d THEN d[f] ELSE old[f]]
      rehash == {"content", "proj"} \cap DOMAIN d # {}
      new == [given EXCEPT !.hash = IF rehash THEN Hash(given) ELSE @, !.stamp = t]
      checked == rehash \/ "status" \in DOMAIN d
  IN  IF ~Has(g, id) THEN Refuse(g, "missing")
      ELSE IF DOMAIN d = {} THEN Done(g)
      ELSE IF checked /\ new.status # "archived" /\ Twins(g, new) \ {id} # {}
           THEN Refuse(g, "clash")
      ELSE Done([g EXCEPT !.th[id] = new])

ArchiveThought(g, id, t) ==
  UpdateThought(g, id, [status |-> "archived", gone |-> t, prot |-> FALSE], t)

\* deleteThought: the row goes and its edges cascade.
DeleteThought(g, id) ==
  [g EXCEPT !.th = [x \in DOMAIN @ \ {id} |-> @[x]],
            !.ed = {e \in @ : id \notin {e.s, e.t}}]

\* archiveThoughtsBatchService: one transaction, failures collected per item.
ArchiveBatch(g, ids, t) ==
  FoldLeft(LAMBDA acc, id : IF Has(acc, id) /\ acc.th[id].status # "archived"
                            THEN ArchiveThought(acc, id, t).g ELSE acc, g, ids)

\* deleteProject: the thoughts move to the default project by a plain UPDATE,
\* which computes no hash and sets no stamp, and the project row goes. Where
\* the UPDATE would make two live rows clash on the unique index, nothing does.
EmptyProject(g, proj) ==
  LET clash == \E x, y \in Live(g) : /\ g.th[x].proj = proj /\ g.th[y].proj = DefaultProject
                                     /\ g.th[x].hash = g.th[y].hash
  IN  IF clash THEN g
      ELSE [g EXCEPT !.projs = @ \ {proj},
                     !.th = [x \in DOMAIN @ |-> IF @[x].proj = proj
                                                THEN [@[x] EXCEPT !.proj = DefaultProject]
                                                ELSE @[x]]]

(***************************************************************************)
(* Edges.                                                                  *)
(***************************************************************************)
ClusterRule(g, s, t, type) ==
  CASE type = "cluster"    -> IsCluster(g, s) /\ ~IsCluster(g, t)
    [] type = "references" -> IsCluster(g, s) = IsCluster(g, t)
    [] OTHER               -> ~IsCluster(g, s) /\ ~IsCluster(g, t)

\* As BoostImportance, but without the cap at 1.0.
BoostImportance_Uncapped(g, id) == [g EXCEPT !.th[id].imp = @ + 1]

BoostImportance(g, id) ==
  [g EXCEPT !.th[id].imp = IF @ < MaxImp THEN @ + 1 ELSE @]

\* insertEdge and replaceEdge: the row written, the source boosted; an insert
\* that meets a row on its pair does nothing (ON CONFLICT DO NOTHING) but the
\* boost of replaceEdge still happens.
PutEdge(g, old, s, t, type) ==
  LET cut == g.ed \ old
      free == ~\E e \in cut : {e.s, e.t} = {s, t}
      put == [g EXCEPT !.ed = IF free
                              THEN cut \cup {[s |-> s, t |-> t, type |-> type, ver |-> g.ver]}
                              ELSE cut]
  IN  BoostImportance(put, s)

\* createEdge: validation, then the rule of one edge per unordered pair; a
\* `related` edge on the pair is a placeholder and gives way.
CreateEdge(g, s, t, type) ==
  LET pair == Pair(g, s, t)
      old == CHOOSE e \in pair : TRUE
  IN  IF type \notin EdgeTypes \/ s = t \/ ~ClusterRule(g, s, t, type)
      THEN Refuse(g, "invalid")
      ELSE IF pair = {}
      THEN IF Has(g, s) /\ Has(g, t) THEN Done(PutEdge(g, {}, s, t, type))
                                     ELSE Refuse(g, "missing")
      ELSE IF old.type = type
      THEN IF type \in Symmetric THEN Done(g)
           ELSE Refuse(g, IF old.s = s THEN "exists" ELSE "conflict")
      ELSE IF old.type = "related" THEN Done(PutEdge(g, {old}, s, t, type))
      ELSE Refuse(g, "conflict")

\* A writer that takes an edge already there for success.
CreateEdgeUnlessThere(g, s, t, type) ==
  LET r == CreateEdge(g, s, t, type)
  IN  IF r.why = "exists" THEN Done(g) ELSE r

\* As Retypable, but without the cluster rule.
Retypable_AnyEndpoints(g, e, type) == type \in EdgeTypes /\ type # e.type

\* validateRetype.
Retypable(g, e, type) ==
  type \in EdgeTypes /\ type # e.type /\ ClusterRule(g, e.s, e.t, type)

\* createEdgesBatchService: one transaction, failures collected per item.
LinkBatch(g, links) ==
  FoldLeft(LAMBDA acc, l : CreateEdge(acc, l.s, l.t, l.type).g, g, links)

\* deleteEdgesBatchService, confirmed: every row is there, named once, or none
\* is deleted.
UnlinkBatch(g, edges) ==
  IF ToSet(edges) \subseteq g.ed /\ Cardinality(ToSet(edges)) = Len(edges)
  THEN [g EXCEPT !.ed = @ \ ToSet(edges)]
  ELSE g

\* The store after a transaction that began on `old`: the rows a later one
\* writes are others.
Committed(old, g) == IF g.ed = old.ed THEN g ELSE [g EXCEPT !.ver = @ + 1]

(***************************************************************************)
(* Services that write a thought and edges in one transaction.             *)
(***************************************************************************)
\* createThoughtWithParentService.
CreateWithParent(g, d, parent, relation, t) ==
  LET made == CreateThought(g, d, t)
      linked == CreateEdgeUnlessThere(made.g, parent, made.id, relation)
  IN  IF linked.ok THEN linked ELSE Refuse(g, linked.why)

\* What one call makes, c: [d, parent, relation].
CreateOne(g, c, t) ==
  IF c.parent = "none" THEN CreateThought(g, c.d, t).g
                       ELSE CreateWithParent(g, c.d, c.parent, c.relation, t).g

\* bulkCreateThoughtsService: one transaction, failures collected per item; an
\* item's project is stored as it came.
BulkCreate(g, items, t) == FoldLeft(LAMBDA acc, c : CreateOne(acc, c, t), g, items)

\* createClusterService: the cluster thought and an edge to each member, all
\* or nothing.
CreateCluster(g, members, title, proj, t) ==
  LET made == CreateThought(g, [content |-> title, proj |-> proj, status |-> "active",
                                prot |-> FALSE, cluster |-> TRUE], t)
      AddMember(m, r) == IF r.ok THEN CreateEdgeUnlessThere(r.g, made.id, m, "cluster")
                                 ELSE r
      joined == FoldSet(AddMember, Done(made.g), members)
  IN  IF joined.ok THEN joined ELSE Refuse(g, joined.why)

\* As TransferEdge, but every cluster edge is dropped.
TransferEdge_LeavesClusters(e, m, r) ==
  LET s == IF e.s = m.src THEN m.tgt ELSE e.s
      t == IF e.t = m.src THEN m.tgt ELSE e.t
      put == IF s = t \/ e.type = "cluster" THEN Done(r.g)
             ELSE CreateEdgeUnlessThere(r.g, s, t, e.type)
  IN  IF ~r.ok \/ ~put.ok THEN Refuse(r.g, "transfer")
      ELSE Done([put.g EXCEPT !.ed = @ \ {e}])

\* transferEdgesFromSource, one edge of the merged source: remapped onto the
\* target unless it joins the two; a cluster edge only where the rule allows
\* it, a duplicate skipped, any other refusal aborting the merge. The old row
\* is deleted.
TransferEdge(e, m, r) ==
  LET s == IF e.s = m.src THEN m.tgt ELSE e.s
      t == IF e.t = m.src THEN m.tgt ELSE e.t
      dropped == s = t \/ (e.type = "cluster" /\ ~(IsCluster(r.g, s) /\ ~IsCluster(r.g, t)))
      put == IF dropped THEN Done(r.g) ELSE CreateEdgeUnlessThere(r.g, s, t, e.type)
  IN  IF ~r.ok \/ ~put.ok THEN Refuse(r.g, "transfer")
      ELSE Done([put.g EXCEPT !.ed = @ \ {e}])

\* mergeThoughtsService, its transaction. m: [src, tgt, content, archivedOk];
\* `proj` is the project the service resolved before the transaction.
MergeThoughts(g, m, proj, t) ==
  LET d == IF m.content = "none" THEN [proj |-> proj]
           ELSE [proj |-> proj, content |-> m.content]
      updated == UpdateThought(g, m.tgt, d, t)
      moved == FoldSet(LAMBDA e, r : TransferEdge(e, m, r), updated, EdgesOf(g, m.src))
      archived == ArchiveThought(moved.g, m.src, t)
      linked == CreateEdge(archived.g, m.tgt, m.src, "replaces")
      mergeable == /\ m.src # m.tgt
                   /\ Has(g, m.src)
                   /\ m.archivedOk \/ g.th[m.src].status # "archived"
  IN  IF ~mergeable \/ ~updated.ok \/ ~moved.ok \/ ~linked.ok THEN Refuse(g, "merge")
      ELSE linked

(***************************************************************************)
(* Retention review.                                                       *)
(***************************************************************************)
Anchor(row) == IF row.gone # 0 THEN row.gone ELSE row.born

IncomingActive(g, id) == {e \in g.ed : e.t = id /\ g.th[e.s].status = "active"}

\* evaluateEligibility, at time t.
Eligible(g, id, t) ==
  LET row == g.th[id] IN
  /\ Has(g, id)
  /\ row.status \in {"archived", "draft"}
  /\ ~row.prot
  /\ ~row.pinned
  /\ Anchor(row) + MinAge < t
  /\ row.imp < Floor
  /\ ~row.hit
  /\ IncomingActive(g, id) = {}

\* As RetentionDelete, but on the judgement made before the transaction.
RetentionDelete_JudgedOnce(g, id, t) ==
  IF Has(g, id) THEN Done(DeleteThought(g, id)) ELSE Refuse(g, "ineligible")

\* deleteRetentionReviewCandidateService, its transaction: judged again, then
\* removed.
RetentionDelete(g, id, t) ==
  IF Eligible(g, id, t) THEN Done(DeleteThought(g, id)) ELSE Refuse(g, "ineligible")

\* compactRetentionReviewCandidatesService, its transaction: the sources are
\* judged again, a protected active summary is created (no live thought may
\* have its content) and every source merged into it, or nothing happens. The
\* sources are judged as of `at`, read before the transaction; the summary goes
\* to the project the call names, unchecked, or to the sources'.
Compact(g, ids, summary, given, at, t) ==
  LET projs == {g.th[x].proj : x \in ids}
      proj == IF given # "none" THEN given ELSE CHOOSE p \in projs : TRUE
      row == [content |-> summary, proj |-> proj]
      clash == \E x \in Live(g) : g.th[x].hash = Hash(row) /\ g.th[x].proj = proj
      made == CreateThought(g, [content |-> summary, proj |-> proj, status |-> "active",
                                prot |-> TRUE, cluster |-> FALSE], t)
      MergeOne(x, r) ==
        IF ~r.ok THEN r
        ELSE MergeThoughts(r.g, [src |-> x, tgt |-> made.id, content |-> summary,
                                 archivedOk |-> TRUE], r.g.th[made.id].proj, t)
      merged == FoldSet(MergeOne, made, ids)
  IN  IF (\E x \in ids : ~Eligible(g, x, at)) \/ Cardinality(projs) # 1 \/ clash \/ ~merged.ok
      THEN Refuse(g, "compact")
      ELSE merged
=============================================================================
