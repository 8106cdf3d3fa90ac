------------------------------ MODULE Curation ------------------------------
(***************************************************************************)
(* Processes that share one database file and curate the graph in it: plain *)
(* writes (create, update, link, cluster) and the destructive tools, which *)
(* first preview, handing out a token, and execute on a second call that   *)
(* presents it (archive, archive_batch, merge, unlink, retype, project     *)
(* deletion, retention deletion, auto-clustering, health repair), or on    *)
(* `confirm` alone (compaction).                                           *)
(*                                                                         *)
(* A statement or a transaction is one step of SQLite; between two of them *)
(* another process may write. A confirm therefore has three steps: Claim   *)
(* (the fingerprint is computed and the token's row deleted), Judge (what  *)
(* the service reads before its transaction) and Execute (the              *)
(* transaction). The fingerprint is read before the token is deleted, but  *)
(* the deletion touches no row of the graph, so the two are one step here. *)
(***************************************************************************)
EXTENDS HealthChecks

CONSTANTS Processes,
          InitStores,    \* the graphs a run may begin with
          InitNow, MaxNow,
          TokenTTL,      \* PREVIEW_TOKEN_TTL_MINUTES, in ticks
          TokenIds,      \* the tokens ever issued, each once
          RetypeTypes,   \* the types edges are retyped to
          MaxEdits,      \* bound: plain writes and untokened confirms
          Creations, BulkItems, Updates, Links, Requests, \* the calls clients make
          Near,          \* pairs of thoughts with close embeddings
          MinMembers,    \* autoCluster.minMembers
          ClusterTitle   \* the title auto-clustering gives

VARIABLES g,        \* the store
          tokens,   \* preview_tokens; a row once deleted stays "spent"
          job,      \* what each process is in the middle of confirming
          now, edits

vars == <<g, tokens, job, now, edits>>

Idle == [phase |-> "idle"]
NoToken == [state |-> "none"]
SpentToken == [state |-> "spent"]

(***************************************************************************)
(* Requests: [kind, ids, arg, proj] and, for one edge, `edge`. A call's     *)
(* `cwd` is resolved to a project in a read before anything else, and no   *)
(* later step asks again whether that project exists: `proj` is the project *)
(* it resolved to, or the one a summary names, or "none".                  *)
(***************************************************************************)
EdgeKinds == {"unlink", "retype"}

EdgeRequests ==
  {[kind |-> "unlink", ids |-> <<>>, arg |-> "none", proj |-> "none", edge |-> e] :
     e \in g.ed}
    \cup {[kind |-> "retype", ids |-> <<>>, arg |-> type, proj |-> "none", edge |-> e] :
            e \in g.ed, type \in RetypeTypes}

Callable == {r \in Requests : r.kind \notin {"compact", "cluster"}} \cup EdgeRequests

\* As ThoughtFingerprint, but without updated_at.
ThoughtFingerprint_NoStamp(id) ==
  IF Has(g, id) THEN <<g.th[id].status, g.th[id].prot>> ELSE <<"missing">>

\* thoughtFingerprint.
ThoughtFingerprint(id) ==
  IF Has(g, id) THEN <<g.th[id].status, g.th[id].stamp, g.th[id].prot>> ELSE <<"missing">>

ThoughtsIn(proj) == {x \in DOMAIN g.th : g.th[x].proj = proj}

Candidates ==
  {x \in Live(g) \cap Regular(g) :
     /\ g.th[x].born + ClusterAge < now
     /\ ~\E e \in OfType(g, {"cluster"}) : e.t = x}

\* groupCandidates: the connected components of the candidates, joined where
\* their embeddings are close, that are large enough.
GroupOf(x, cands) ==
  LET Reach[n \in Nat] ==
        IF n = 0 THEN {x}
        ELSE Reach[n - 1] \cup {y \in cands : \E z \in Reach[n - 1] : {y, z} \in Near}
  IN  Reach[Cardinality(cands)]

Groups(cands) ==
  {c \in {GroupOf(x, cands) : x \in cands} : Cardinality(c) >= MinMembers}

Fingerprint(r) ==
  CASE r.kind \in {"archive", "archive_batch"} ->
         [i \in DOMAIN r.ids |-> ThoughtFingerprint(r.ids[i])]
    [] r.kind = "merge" ->
         <<ThoughtFingerprint(r.ids[1]), ThoughtFingerprint(r.ids[2]), r.arg, r.proj>>
    [] r.kind = "retention_delete" ->
         IF Has(g, r.ids[1]) THEN <<g.th[r.ids[1]].status, g.th[r.ids[1]].prot>>
                             ELSE <<"missing">>
    [] r.kind = "manage_delete" -> <<Cardinality(ThoughtsIn(r.arg))>>
    [] r.kind = "auto_cluster" -> <<Cardinality(Candidates), Groups(Candidates)>>
    [] r.kind = "health_repair" -> RepairFingerprint(g)
    [] OTHER -> <<r.edge, r.arg>>

\* What the handler checks before it looks at a token; when it fails the call
\* changes nothing and no token is issued or burnt.
Admitted(r) ==
  CASE r.kind = "archive" -> Has(g, r.ids[1])
    [] r.kind = "merge" -> Has(g, r.ids[1]) /\ Has(g, r.ids[2])
    [] r.kind = "retention_delete" -> Has(g, r.ids[1])
    [] r.kind = "manage_delete" -> r.arg \in g.projs \ {DefaultProject}
    [] r.kind = "retype" -> r.edge \in g.ed /\ Retypable(g, r.edge, r.arg)
    [] r.kind = "unlink" -> r.edge \in g.ed
    [] OTHER -> TRUE

\* What a caller reads of a thought in a preview.
Seen(id) ==
  IF Has(g, id) THEN <<g.th[id].content, g.th[id].status, g.th[id].prot>> ELSE <<"missing">>

(***************************************************************************)
(* Previews and tokens.                                                    *)
(***************************************************************************)
Preview(k, r) ==
  /\ tokens[k].state = "none"
  /\ Admitted(r)
  /\ r.kind = "retention_delete" => Eligible(g, r.ids[1], now)
  /\ tokens' = [tokens EXCEPT ![k] =
       [state |-> "live", req |-> r, fp |-> Fingerprint(r), exp |-> now + TokenTTL,
        at |-> now, seen |-> [i \in DOMAIN r.ids |-> Seen(r.ids[i])]]]
  /\ UNCHANGED <<g, job, now, edits>>

\* consumePreviewTokenService, the claimed row against the call: kind, target,
\* expiry, fingerprint, in that order.
TokenGood(row, r) ==
  /\ row.req.kind = r.kind
  /\ IF r.kind \in EdgeKinds THEN row.req.edge = r.edge
     ELSE IF r.kind = "manage_delete" THEN row.req.arg = r.arg
     ELSE row.req.ids = r.ids
  /\ ~(row.exp < now)
  /\ row.fp = Fingerprint(r)

\* As Consumed, but a good token is only read, and left for the end to delete.
Consumed_LeavesGood(k, good) ==
  IF good THEN tokens ELSE [tokens EXCEPT ![k] = SpentToken]

\* DELETE ... RETURNING: the row is gone whether the claim is good or not.
Consumed(k, good) == [tokens EXCEPT ![k] = SpentToken]

Started(k, r) ==
  [phase |-> IF r.kind \in {"merge", "retention_delete", "retype", "auto_cluster"}
             THEN "claimed" ELSE "judged",
   req |-> r, tok |-> k, at |-> now,
   proj |-> "none", groups |-> {},
   repairs |-> IF r.kind = "health_repair" THEN RepairList(g) ELSE <<>>]

\* A token presented to another tool is burnt as a stale one is: the calls
\* tried are those of the token's own kind.
Claim(p, k, r) ==
  /\ job[p] = Idle
  /\ tokens[k].state = "live"
  /\ r.kind = tokens[k].req.kind
  /\ Admitted(r)
  /\ LET good == TokenGood(tokens[k], r)
         noop == r.kind = "archive" /\ g.th[r.ids[1]].status = "archived"
     IN  /\ tokens' = Consumed(k, good)
         /\ job' = IF good /\ ~noop THEN [job EXCEPT ![p] = Started(k, r)] ELSE job
  /\ UNCHANGED <<g, now, edits>>

(***************************************************************************)
(* What a service reads before its transaction.                            *)
(***************************************************************************)
Judging(p, kind) == job[p].phase = "claimed" /\ job[p].req.kind = kind

JudgedOr(p, passes, j) ==
  job' = [job EXCEPT ![p] = IF passes THEN [j EXCEPT !.phase = "judged"] ELSE Idle]

\* mergeThoughtsService: both thoughts, the preconditions, and the project the
\* target will be written back with: the caller's, or else the target's own.
JudgeMerge(p) ==
  /\ Judging(p, "merge")
  /\ LET j == job[p]
         src == j.req.ids[1]
         tgt == j.req.ids[2]
         fit == /\ src # tgt /\ Has(g, src) /\ Has(g, tgt)
                /\ g.th[src].status # "archived"
     IN  JudgedOr(p, fit, [j EXCEPT !.proj = IF j.req.proj # "none" THEN j.req.proj
                                             ELSE IF fit THEN g.th[tgt].proj ELSE @])
  /\ UNCHANGED <<g, tokens, now, edits>>

\* deleteRetentionReviewCandidateService: `now` is read here and kept.
JudgeRetentionDelete(p) ==
  /\ Judging(p, "retention_delete")
  /\ JudgedOr(p, Eligible(g, job[p].req.ids[1], now), [job[p] EXCEPT !.at = now])
  /\ UNCHANGED <<g, tokens, now, edits>>

\* retypeEdge: the edge is found and validated again.
JudgeRetype(p) ==
  /\ Judging(p, "retype")
  /\ LET r == job[p].req
     IN  JudgedOr(p, r.edge \in g.ed /\ Retypable(g, r.edge, r.arg), job[p])
  /\ UNCHANGED <<g, tokens, now, edits>>

\* runAutoClusterJob, the run that creates: candidates are read again, and the
\* groups made of them after embeddings were awaited.
JudgeAutoCluster(p) ==
  /\ Judging(p, "auto_cluster")
  /\ JudgedOr(p, Groups(Candidates) # {}, [job[p] EXCEPT !.groups = Groups(Candidates)])
  /\ UNCHANGED <<g, tokens, now, edits>>

(***************************************************************************)
(* The transactions.                                                       *)
(***************************************************************************)
Ready(p, kind) == job[p].phase = "judged" /\ job[p].req.kind = kind

Finish(p) == job' = [job EXCEPT ![p] = Idle]

ExecuteArchive(p) ==
  /\ Ready(p, "archive")
  /\ g' = ArchiveThought(g, job[p].req.ids[1], now).g
  /\ Finish(p)
  /\ UNCHANGED <<tokens, now, edits>>

ExecuteArchiveBatch(p) ==
  /\ Ready(p, "archive_batch")
  /\ g' = ArchiveBatch(g, job[p].req.ids, now)
  /\ Finish(p)
  /\ UNCHANGED <<tokens, now, edits>>

ExecuteMerge(p) ==
  /\ Ready(p, "merge")
  /\ LET r == job[p].req
         m == [src |-> r.ids[1], tgt |-> r.ids[2], content |-> r.arg, archivedOk |-> FALSE]
     IN  g' = Committed(g, MergeThoughts(g, m, job[p].proj, now).g)
  /\ Finish(p)
  /\ UNCHANGED <<tokens, now, edits>>

ExecuteUnlink(p) ==
  /\ Ready(p, "unlink")
  /\ g' = [g EXCEPT !.ed = @ \ {job[p].req.edge}]
  /\ Finish(p)
  /\ UNCHANGED <<tokens, now, edits>>

\* replaceEdge on the row found before: its endpoints may be gone by now, then
\* the foreign key fails the transaction.
ExecuteRetype(p) ==
  /\ Ready(p, "retype")
  /\ LET r == job[p].req
         e == r.edge
     IN  g' = IF Has(g, e.s) /\ Has(g, e.t)
              THEN Committed(g, PutEdge(g, {e}, e.s, e.t, r.arg)) ELSE g
  /\ Finish(p)
  /\ UNCHANGED <<tokens, now, edits>>

ExecuteRetentionDelete(p) ==
  /\ Ready(p, "retention_delete")
  /\ g' = RetentionDelete(g, job[p].req.ids[1], job[p].at).g
  /\ Finish(p)
  /\ UNCHANGED <<tokens, now, edits>>

\* The project goes although another call may have resolved to it, or read it
\* as its target's or its members'.
ExecuteDeleteProject(p) ==
  /\ Ready(p, "manage_delete")
  /\ g' = EmptyProject(g, job[p].req.arg)
  /\ Finish(p)
  /\ UNCHANGED <<tokens, now, edits>>

\* createClusterService reads the members of one group, and takes the cluster's
\* project from them unless the call has one.
ClusterProject(members) ==
  LET projs == {g.th[x].proj : x \in members}
  IN  IF Cardinality(projs) = 1 THEN CHOOSE q \in projs : TRUE ELSE DefaultProject

NextGroup(j) == CHOOSE c \in j.groups : TRUE

ReadMembers(j) ==
  [j EXCEPT !.phase = "read",
            !.proj = IF j.req.proj # "none" THEN j.req.proj ELSE ClusterProject(NextGroup(j))]

ReadGroup(p) ==
  /\ Ready(p, "auto_cluster")
  /\ LET j == job[p]
     IN  job' = [job EXCEPT ![p] = IF NextGroup(j) \subseteq DOMAIN g.th
                                   THEN ReadMembers(j) ELSE Idle]
  /\ UNCHANGED <<g, tokens, now, edits>>

\* Its transaction; an error ends an automatic run, the groups before it stay.
ExecuteCluster(p) ==
  /\ job[p].phase = "read"
  /\ CanCreate(g, 1)
  /\ LET j == job[p]
         group == NextGroup(j)
         rest == j.groups \ {group}
         title == IF j.req.kind = "cluster" THEN j.req.arg ELSE ClusterTitle
         made == CreateCluster(g, group, title, j.proj, now)
     IN  /\ g' = Committed(g, made.g)
         /\ job' = [job EXCEPT ![p] = IF made.ok /\ rest # {}
                                      THEN [j EXCEPT !.phase = "judged", !.groups = rest]
                                      ELSE Idle]
  /\ UNCHANGED <<tokens, now, edits>>

\* runAutoFix: the fixes in the report's order, each on the details the
\* report held, none in a transaction with another.
ExecuteRepair(p) ==
  /\ Ready(p, "health_repair")
  /\ LET list == job[p].repairs
         due == {i \in DOMAIN list : list[i].found # {}}
     IN  \/ due = {} /\ g' = g /\ Finish(p)
         \/ \E i \in due :
              /\ \A k \in due : i <= k
              /\ g' = Autofix(g, list[i], now)
              /\ job' = [job EXCEPT ![p] = IF due = {i} THEN Idle
                                          ELSE [@ EXCEPT !.repairs[i].found = {}]]
  /\ UNCHANGED <<tokens, now, edits>>

(***************************************************************************)
(* Services called without a token that read before their transaction: a   *)
(* compaction, judged and then executed on `confirm` alone, and            *)
(* memory_crystallize cluster.                                             *)
(***************************************************************************)
Opened(p, j) ==
  /\ job[p] = Idle /\ edits < MaxEdits
  /\ job' = [job EXCEPT ![p] = j]
  /\ edits' = edits + 1
  /\ UNCHANGED <<g, tokens, now>>

Untokened(r) == [Started("none", r) EXCEPT !.groups = {ToSet(r.ids)}]

StartCompact(p, r) ==
  /\ r.kind = "compact"
  /\ \A i \in DOMAIN r.ids : Eligible(g, r.ids[i], now)
  /\ Cardinality({g.th[x].proj : x \in ToSet(r.ids)}) = 1
  /\ Opened(p, Untokened(r))

StartCluster(p, r) ==
  /\ r.kind = "cluster"
  /\ ToSet(r.ids) \subseteq DOMAIN g.th
  /\ Opened(p, ReadMembers(Untokened(r)))

ExecuteCompact(p) ==
  /\ Ready(p, "compact")
  /\ CanCreate(g, 1)
  /\ LET r == job[p].req
     IN  g' = Committed(g, Compact(g, ToSet(r.ids), r.arg, r.proj, job[p].at, now).g)
  /\ Finish(p)
  /\ UNCHANGED <<tokens, now, edits>>

(***************************************************************************)
(* Plain writes, each one transaction. The project a creation or an update *)
(* carries is the one its cwd resolved to before the transaction, or an    *)
(* item's own, which nobody checks: none of them asks for it here.         *)
(***************************************************************************)
Edit(new) ==
  /\ edits < MaxEdits
  /\ g' = Committed(g, new)
  /\ edits' = edits + 1
  /\ UNCHANGED <<tokens, job, now>>

\* memory_store create.  c: [d, parent, relation].
Create(c) ==
  /\ CanCreate(g, 1)
  /\ Edit(CreateOne(g, c, now))

\* memory_store bulk_create.
CreateMany(c1, c2) ==
  /\ CanCreate(g, 2)
  /\ Edit(BulkCreate(g, <<c1, c2>>, now))

\* memory_store update.
Update(id, d) ==
  /\ UpdateThought(g, id, d, now).ok
  /\ Edit(UpdateThought(g, id, d, now).g)

\* memory_store link and link_batch.
LinkAll(links) == LinkBatch(g, links).ed # g.ed /\ Edit(LinkBatch(g, links))

\* memory_store unlink_batch.
UnlinkAll(edges) == Edit(UnlinkBatch(g, edges))

\* retention_review protect: judged, and again in the transaction.
Protect(id) ==
  /\ Eligible(g, id, now)
  /\ Edit(UpdateThought(g, id, [prot |-> TRUE], now).g)

\* updatePrimerHits: a search answered with the thought.
SearchHit(id) ==
  /\ Has(g, id)
  /\ Edit([g EXCEPT !.th[id].hit = TRUE])

\* decayImportance: the daily job.
Decay ==
  LET Less(row) == [row EXCEPT !.imp = IF @ > 0 THEN @ - 1 ELSE 0]
  IN  Edit([g EXCEPT !.th = [x \in DOMAIN g.th |-> Less(g.th[x])]])

Tick ==
  /\ now < MaxNow
  /\ now' = now + 1
  /\ UNCHANGED <<g, tokens, job, edits>>

Write ==
  \/ \E c \in Creations : Create(c)
  \/ \E c1, c2 \in BulkItems : CreateMany(c1, c2)
  \/ \E id \in DOMAIN g.th, d \in Updates : Update(id, d)
  \/ \E l \in Links : LinkAll(<<l>>)
  \/ \E l1, l2 \in Links : LinkAll(<<l1, l2>>)
  \/ \E e1, e2 \in g.ed : UnlinkAll(<<e1, e2>>)
  \/ \E id \in DOMAIN g.th : Protect(id) \/ SearchHit(id)
  \/ Decay

Confirm(p) ==
  \/ \E k \in TokenIds, r \in Callable : Claim(p, k, r)
  \/ JudgeMerge(p) \/ JudgeRetentionDelete(p) \/ JudgeRetype(p) \/ JudgeAutoCluster(p)
  \/ ExecuteArchive(p) \/ ExecuteArchiveBatch(p) \/ ExecuteMerge(p)
  \/ ExecuteUnlink(p) \/ ExecuteRetype(p) \/ ExecuteRetentionDelete(p)
  \/ ExecuteDeleteProject(p) \/ ReadGroup(p) \/ ExecuteCluster(p) \/ ExecuteRepair(p)
  \/ \E r \in Requests : StartCompact(p, r) \/ StartCluster(p, r)
  \/ ExecuteCompact(p)

Init ==
  /\ g \in InitStores
  /\ tokens = [k \in TokenIds |-> NoToken]
  /\ job = [p \in Processes |-> Idle]
  /\ now = InitNow
  /\ edits = 0

Next ==
  \/ Write
  \/ \E k \in TokenIds, r \in Callable : Preview(k, r)
  \/ \E p \in Processes : Confirm(p)
  \/ Tick

Spec == Init /\ [][Next]_vars

(***************************************************************************)
(* What a store is, and what makes it sound.                               *)
(***************************************************************************)
Rows == [content : STRING, proj : STRING, status : Statuses, prot : BOOLEAN,
         cluster : BOOLEAN, hash : Seq(STRING), imp : 0..MaxImp, hit : BOOLEAN,
         pinned : BOOLEAN, born : 1..MaxNow, gone : 0..MaxNow, stamp : 1..MaxNow]

\* Finite tables, with columns of their types.
Store(s) ==
  /\ s = [th |-> s.th, ed |-> s.ed, projs |-> s.projs, made |-> s.made, ver |-> s.ver]
  /\ IsFiniteSet(DOMAIN s.th) /\ s.th \in [DOMAIN s.th -> Rows]
  /\ IsFiniteSet(s.ed)
  /\ \A e \in s.ed : /\ e = [s |-> e.s, t |-> e.t, type |-> e.type, ver |-> e.ver]
                      /\ e.type \in EdgeTypes /\ e.ver \in 0..s.ver
  /\ s.projs \subseteq STRING
  /\ s.made \in 0..Len(NewIds) /\ s.ver \in Nat

\* The critical checks of the health report, and those it says createEdge makes
\* impossible, find nothing, and no two thoughts are joined twice.
StructurallySound(s) ==
  /\ OrphanEdges(s) = {} /\ SelfLoopEdges(s) = {} /\ DuplicateEdges(s) = {}
  /\ ClusterViolations(s) = {} /\ OrphanedClusterMembers(s) = {}
  /\ SupportsSelfConflict(s) = {} /\ ContradictsRedundantWithReplaces(s) = {}
  /\ \A e, f \in s.ed : SamePair(e, f) => e = f

\* The dedupe index can be trusted: no two live thoughts share its key, and the
\* hash is of the content and of the project the thought is in, or was in until
\* that project was deleted, which alone lets a project hold the same live
\* content twice.
DedupeKeySound(s) ==
  /\ \A x, y \in Live(s) :
       x # y /\ s.th[x].proj = s.th[y].proj => s.th[x].hash # s.th[y].hash
  /\ \A x \in DOMAIN s.th :
       LET row == s.th[x]
       IN  row.hash # Hash(row) => /\ row.hash[1] = row.content
                                   /\ row.hash[2] \notin s.projs

\* What a file holds that the writers above and the migrations left, and what
\* the tools' schemas let callers ask for.
ASSUME CurationAssumption ==
  /\ MaxImp \in Nat /\ MaxEdits \in Nat /\ OverlinkedAt \in Nat
  /\ InitNow \in Nat \ {0} /\ MaxNow \in Nat /\ InitNow <= MaxNow
  /\ DefaultProject \in STRING /\ ClusterTitle \in STRING
  /\ NewIds \in Seq(STRING)
  /\ \A i, j \in DOMAIN NewIds : NewIds[i] = NewIds[j] => i = j
  /\ \A s \in InitStores :
       /\ Store(s) /\ StructurallySound(s) /\ DedupeKeySound(s)
       /\ Unused(s) \cap DOMAIN s.th = {}
       /\ \A x \in DOMAIN s.th : s.th[x].stamp <= InitNow
  /\ \A c \in Creations \cup BulkItems :
       c.d \in [content : STRING, proj : STRING, status : Statuses, prot : BOOLEAN,
                cluster : BOOLEAN]
  /\ \A d \in Updates :
       /\ DOMAIN d \subseteq {"content", "proj", "status", "prot"}
       /\ "content" \in DOMAIN d => d.content \in STRING
       /\ "proj" \in DOMAIN d => d.proj \in STRING
       /\ "status" \in DOMAIN d => d.status \in Statuses
       /\ "prot" \in DOMAIN d => d.prot \in BOOLEAN
  /\ \A r \in Requests :
       /\ r.kind \notin EdgeKinds /\ r.arg \in STRING /\ r.proj \in STRING
       /\ r.ids \in Seq(STRING)
       /\ r.kind = "merge" => Len(r.ids) = 2
  /\ MinAge \in Nat

(***************************************************************************)
(* Properties.                                                             *)
(***************************************************************************)
\* The store, the tokens and the jobs have the shapes the actions rely on.
TypeOK ==
  /\ Store(g)
  /\ \A k \in TokenIds : tokens[k].state \in {"none", "live", "spent"}
  /\ \A p \in Processes : job[p].phase \in {"idle", "claimed", "judged", "read"}
  /\ now \in InitNow..MaxNow /\ edits \in 0..MaxEdits

\* One preview authorises one confirm: no two processes ever confirm with the
\* same token, and an archive, a batch or a merge starts only if every thought
\* it names reads as it did in the preview, in content, status and protection.
\* The fingerprint holds updated_at instead of the content, so the one escape
\* is a thought written in the very instant of its preview.
ConfirmsAsPreviewed ==
  [][\A p \in Processes :
       LET j == job'[p]
           row == tokens[j.tok]
       IN  job[p] = Idle /\ j # Idle =>
             /\ j.tok # "none" =>
                  \A q \in Processes \ {p} : job[q] = Idle \/ job[q].tok # j.tok
             /\ j.req.kind \in {"archive", "archive_batch", "merge"} =>
                  \A i \in DOMAIN j.req.ids :
                    \/ Seen(j.req.ids[i]) = row.seen[i]
                    \/ g.th[j.req.ids[i]].stamp = row.at]_vars

\* A repair heals: run twice on the store it begins with -- once is not enough,
\* a thought archived by one check is an archived target for another -- it
\* leaves no live thought under an archived one, has touched no protected
\* thought and cut no edge to a live one, and no category of the report that
\* had no warning has one.
RepairHeals ==
  [][\A p \in Processes :
       job[p] = Idle /\ job'[p] # Idle /\ job'[p].req.kind = "health_repair" =>
         LET healed == Repaired(Repaired(g, now), now)
         IN  /\ \A e \in OfType(healed, HierarchyTypes) :
                  healed.th[e.t].status = "archived" => healed.th[e.s].status = "archived"
             /\ \A e \in g.ed \ healed.ed : healed.th[e.t].status = "archived"
             /\ \A x \in DOMAIN g.th : g.th[x].prot => healed.th[x] = g.th[x]
             /\ HealthScore(healed, now, "warning") >= HealthScore(g, now, "warning")]_vars

\* What a merge or a compaction commits: each source is archived and left with
\* the one edge from the thought that replaces it, and whoever was linked to a
\* source is linked to that thought, other sources and itself aside.
Replaced(src, new) ==
  /\ g'.th[src].status = "archived"
  /\ \A e \in EdgesOf(g', src) : e.s = new /\ e.type = "replaces"
MergeKeepsNeighbours ==
  [][\A p \in Processes :
       LET r == job[p].req
           gone == IF r.kind = "merge" THEN {r.ids[1]} ELSE ToSet(r.ids)
           new == IF r.kind = "merge" THEN r.ids[2] ELSE NewIds[g.made + 1]
       IN  (/\ job[p].phase = "judged" /\ job'[p] = Idle
            /\ r.kind \in {"merge", "compact"} /\ g'.th # g.th)
           => \A src \in gone :
                /\ Replaced(src, new)
                /\ Neighbours(g, src) \ (gone \cup {new}) \subseteq Neighbours(g', new)]_vars

\* A thought disappears only by a retention deletion, and is at that moment
\* what the review may delete: unprotected, not active, unused, and pointed at
\* by no active thought, whatever was written since it was judged.
RemovedOnlyIfEligible ==
  [][\A x \in DOMAIN g.th : Has(g', x) \/ Eligible(g, x, now)]_vars

\* What every writer of the graph leaves behind, together, whatever project it
\* was given: that a thought's project exists is nowhere checked, and no part
\* of this.
GraphSound == TypeOK /\ StructurallySound(g) /\ DedupeKeySound(g)
=============================================================================
