---------------------------- MODULE HealthChecks ----------------------------
(***************************************************************************)
(* The finders of the health check (db/health-check), each the set of rows *)
(* its query returns on a store, the report and the score made of them     *)
(* (services/health-check.service.ts), and the repairs bound to some.      *)
(*                                                                         *)
(* Left out are the finders of what a store does not hold (vectors,        *)
(* primers, tags, lengths and likenesses of contents) and                  *)
(* findReplacesChains, whose answer depends on the order of the rows.      *)
(***************************************************************************)
EXTENDS ThoughtStore

CONSTANTS TestContents,  \* the contents findTestRemnants takes for a test's
          ClusterAge,    \* autoCluster.minAgeDays, in ticks
          StaleAge,      \* the age of findStaleDrafts, in ticks
          DenseAt,       \* minEdges of findClusterlessDense
          OverlinkedAt   \* maxEdges of findOverlinkedThoughts

HierarchyTypes == {"parent", "develops"}

OfType(g, types) == {e \in g.ed : e.type \in types}

Regular(g) == {x \in DOMAIN g.th : ~g.th[x].cluster}
LiveClusters(g) == {x \in Live(g) : g.th[x].cluster}

Members(g, c) == {e.t : e \in {f \in g.ed : f.s = c /\ f.type = "cluster"}}

(* structural_integrity *)
OrphanEdges(g) == {e \in g.ed : ~Has(g, e.s) \/ ~Has(g, e.t)}

SelfLoopEdges(g) == {e \in g.ed : e.s = e.t}

DuplicateEdges(g) ==
  {e \in g.ed : \E f \in g.ed \ {e} : f.s = e.s /\ f.t = e.t /\ f.type = e.type}

ClusterViolations(g) ==
  {e \in g.ed \ OrphanEdges(g) :
     \/ e.type = "cluster" /\ (~IsCluster(g, e.s) \/ IsCluster(g, e.t))
     \/ e.type = "references" /\ IsCluster(g, e.s) # IsCluster(g, e.t)
     \/ /\ e.type \notin {"cluster", "references"}
        /\ IsCluster(g, e.s) \/ IsCluster(g, e.t)}

(* cluster_health *)
EmptyClusters(g) == {c \in LiveClusters(g) : Members(g, c) = {}}

OrphanedClusterMembers(g) == {e \in OfType(g, {"cluster"}) : ~IsCluster(g, e.s)}

SingletonClusters(g) == {c \in LiveClusters(g) : Cardinality(Members(g, c)) <= 1}

\* As old as auto-clustering asks, linked enough, and in no cluster.
ClusterlessDense(g, now) ==
  {x \in Regular(g) :
     /\ g.th[x].status = "active" /\ g.th[x].born + ClusterAge <= now
     /\ ~\E e \in EdgesOf(g, x) : e.type = "cluster"
     /\ Cardinality({e \in EdgesOf(g, x) : e.type = "related"}) >= DenseAt}

(* connectivity *)
IslandThoughts(g) ==
  {x \in Regular(g) : g.th[x].status = "active" /\ EdgesOf(g, x) = {}}

OverlinkedThoughts(g) ==
  {x \in Regular(g) : Cardinality(EdgesOf(g, x)) > OverlinkedAt}

(* content_quality *)
DuplicateContent(g) ==
  {pair \in kSubset(2, Live(g)) : \A x, y \in pair : g.th[x].content = g.th[y].content}

StaleDrafts(g, now) ==
  {x \in Regular(g) : g.th[x].status = "draft" /\ now - g.th[x].born > StaleAge}

TestRemnants(g) == {x \in Live(g) \cap Regular(g) : g.th[x].content \in TestContents}

(* semantic_consistency *)
\* What a chain of hierarchy edges leads to from x: the least set that they lead
\* into from x and not out of.
Below(g, x) ==
  LET down == OfType(g, HierarchyTypes)
      ends == {e.t : e \in down}
      closed == {S \in SUBSET ends : \A e \in down : e.s \in S \cup {x} => e.t \in S}
  IN  {y \in ends : \A S \in closed : y \in S}

\* findCircularChains reports cycles, here the thoughts on one.
CircularChains(g) == {x \in DOMAIN g.th : x \in Below(g, x)}

BrokenParentChains(g) ==
  {e \in OfType(g, HierarchyTypes) :
     g.th[e.t].status \in {"archived", "draft"} /\ g.th[e.s].status # "archived"}

\* As ArchivedParentEdges, but with the other status.
ArchivedParentEdges_Drafts(g) ==
  {e \in BrokenParentChains(g) : g.th[e.t].status = "draft"}

\* Those autofixArchivedParentEdges takes: a draft target is left for review.
ArchivedParentEdges(g) ==
  {e \in BrokenParentChains(g) : g.th[e.t].status = "archived"}

Contradictions(g) == OfType(g, {"contradicts"})

SamePair(e, f) == {e.s, e.t} = {f.s, f.t}

ContradictsWithHierarchy(g) ==
  {e \in Contradictions(g) : e.t \in Below(g, e.s) \/ e.s \in Below(g, e.t)}

ContradictionInCluster(g) ==
  {e \in Contradictions(g) :
     /\ {e.s, e.t} \subseteq Live(g)
     /\ \E c \in DOMAIN g.th : {e.s, e.t} \subseteq Members(g, c)}

ContradictsToArchived(g) == {e \in Contradictions(g) : {e.s, e.t} \cap Live(g) = {}}

ContradictsRedundantWithReplaces(g) ==
  {e \in Contradictions(g) : \E f \in OfType(g, {"replaces"}) : SamePair(e, f)}

SupportsSelfConflict(g) ==
  {e \in OfType(g, {"supports"}) : \E f \in Contradictions(g) : SamePair(e, f)}

(***************************************************************************)
(* The report: how often each check, of its category and severity, finds   *)
(* something.                                                              *)
(***************************************************************************)
Check(name, category, severity, found) ==
  [name |-> name, category |-> category, severity |-> severity, count |-> Cardinality(found)]

Report(g, now) ==
  { Check("orphan_edges", "structural", "critical", OrphanEdges(g)),
    Check("self_loop_edges", "structural", "critical", SelfLoopEdges(g)),
    Check("duplicate_edges", "structural", "critical", DuplicateEdges(g)),
    Check("cluster_constraint_violations", "structural", "critical", ClusterViolations(g)),
    Check("empty_clusters", "cluster", "warning", EmptyClusters(g)),
    Check("singleton_clusters", "cluster", "warning", SingletonClusters(g)),
    Check("orphaned_cluster_members", "cluster", "warning", OrphanedClusterMembers(g)),
    Check("clusterless_dense_thoughts", "cluster", "warning", ClusterlessDense(g, now)),
    Check("island_thoughts", "connectivity", "info", IslandThoughts(g)),
    Check("overlinked_thoughts", "connectivity", "warning", OverlinkedThoughts(g)),
    Check("duplicate_content", "content", "info", DuplicateContent(g)),
    Check("test_remnants", "content", "info", TestRemnants(g)),
    Check("stale_drafts", "content", "info", StaleDrafts(g, now)),
    Check("circular_chains", "semantic", "warning", CircularChains(g)),
    Check("broken_parent_chains", "semantic", "warning", BrokenParentChains(g)),
    Check("contradicts_with_hierarchy", "semantic", "warning", ContradictsWithHierarchy(g)),
    Check("contradiction_in_cluster", "semantic", "warning", ContradictionInCluster(g)),
    Check("contradicts_redundant_with_replaces", "semantic", "info",
          ContradictsRedundantWithReplaces(g)),
    Check("contradicts_to_archived", "semantic", "info", ContradictsToArchived(g)),
    Check("supports_self_conflict", "semantic", "critical", SupportsSelfConflict(g)) }

SeverityOrder == [critical |-> 0, warning |-> 1, info |-> 2]

\* health_score of the checks at least as severe as `least`, in quarters of a
\* point: a category counts once, an information as often as it is found, and
\* the islands do not count.
HealthScore(g, now, least) ==
  LET shown == {c \in Report(g, now) : SeverityOrder[c.severity] <= SeverityOrder[least]}
      Categories(severity) == {c.category : c \in {k \in shown : k.severity = severity /\ k.count > 0}}
      notes == {c \in shown : c.severity = "info" /\ c.name # "island_thoughts"}
      Count(c) == c.count
      penalty == 160 * Cardinality(Categories("critical")) + 60 * Cardinality(Categories("warning"))
                   + MapThenSumSet(Count, notes)
  IN  IF penalty > 400 THEN 0 ELSE 400 - penalty

(***************************************************************************)
(* Repairs. A report lists, check by check in the order of CATEGORIES, what *)
(* the fixable checks found; its fingerprint is the set of those ids.      *)
(***************************************************************************)
RepairList(g) ==
  << [check |-> "orphan_edges", found |-> OrphanEdges(g)],
     [check |-> "self_loop_edges", found |-> SelfLoopEdges(g)],
     [check |-> "empty_clusters", found |-> EmptyClusters(g)],
     [check |-> "orphaned_cluster_members", found |-> OrphanedClusterMembers(g)],
     [check |-> "test_remnants", found |-> TestRemnants(g)],
     [check |-> "broken_parent_chains", found |-> ArchivedParentEdges(g)] >>

ArchivingChecks == {"empty_clusters", "test_remnants"}

\* healthRepairFingerprint.
RepairFingerprint(g) ==
  [edges |-> OrphanEdges(g) \cup SelfLoopEdges(g) \cup OrphanedClusterMembers(g)
               \cup ArchivedParentEdges(g),
   thoughts |-> EmptyClusters(g) \cup TestRemnants(g)]

\* As ArchiveUnprotected, but a protected thought is archived as well.
ArchiveUnprotected_Any(g, ids, t) ==
  FoldSet(LAMBDA x, acc : IF Has(acc, x) THEN ArchiveThought(acc, x, t).g ELSE acc, g, ids)

\* archiveThoughts: the ones that are not protected.
ArchiveUnprotected(g, ids, t) ==
  FoldSet(LAMBDA x, acc : IF Has(acc, x) /\ ~acc.th[x].prot
                          THEN ArchiveThought(acc, x, t).g ELSE acc, g, ids)

\* One repair, on details read earlier: edges by id, thoughts by id.
Autofix(g, item, t) ==
  IF item.check \in ArchivingChecks THEN ArchiveUnprotected(g, item.found, t)
  ELSE [g EXCEPT !.ed = @ \ item.found]

\* runAutoFix when nobody writes in between.
Repaired(g, t) == FoldLeft(LAMBDA acc, item : Autofix(acc, item, t), g, RepairList(g))
=============================================================================
