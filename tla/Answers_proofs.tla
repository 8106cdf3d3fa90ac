--------------------------- MODULE Answers_proofs ---------------------------
(***************************************************************************)
(* What a plan and a search tell their caller, and what a reflection       *)
(* writes, for any number of calls and of writes between their reads. Each *)
(* read leaves the call with something that was so in one of the stores it *)
(* has seen, and with everything that was so in all of them; the           *)
(* invariants say what that is read by read. They mention the stores of    *)
(* the call alone, not the one there is, and lose nothing when a write     *)
(* adds another.                                                           *)
(***************************************************************************)
EXTENDS Retrieval_proofs

-----------------------------------------------------------------------------
(* Edges and lifecycle.                                                    *)

\* In a sequence with a member of T there is a first one.
LEMMA FirstPlace ==
  ASSUME NEW A, NEW s \in Seq(A), NEW T, NEW i \in DOMAIN s, s[i] \in T
  PROVE  \E k \in DOMAIN s : s[k] \in T /\ \A j \in DOMAIN s : j < k => s[j] \notin T
<1> DEFINE P == {j \in DOMAIN s : s[j] \in T}
<1>1. DOMAIN s = 1..Len(s) /\ Len(s) \in Nat
  OBVIOUS
<1>2. P \in SUBSET Nat /\ i \in P
  BY <1>1
<1> HIDE DEF P
<1>3. PICK k \in P : \A j \in P : k <= j
  BY <1>2, LeastOf
<1>4. \A j \in DOMAIN s : j < k => j \notin P
  BY <1>1, <1>2, <1>3
<1> QED BY <1>3, <1>4 DEF P

\* A rule that fires decides: the first needs a newer source, and without cues
\* there is but the last.
LEMMA ClassifiedIs ==
  ASSUME NEW r, NEW x, Fires(r, x), NEW e, e = Classified(r, x)
  PROVE  /\ e.target = x
         /\ e.type = "replaces" => Mine(r).born > r.rows[x].born
         /\ (Cueless(Mine(r)) /\ Cueless(r.rows[x])) => e.type = "related"
<1> DEFINE rules == Rules(r, x)
           k == FirstSuch(rules, LAMBDA q : q.fires)
           s == Signals(r, x)
<1>1. /\ DOMAIN rules = 1..6
      /\ rules[1].type = "replaces" /\ rules[2].type = "contradicts"
      /\ rules[3].type = "supports" /\ rules[4].type = "develops"
      /\ rules[5].type = "depends_on" /\ rules[6].type = "related"
  BY DEF Rules
<1>2. /\ rules[1].fires => s.newer /\ s.evolution
      /\ rules[2].fires => s.opposed
      /\ rules[3].fires => s.evidence
      /\ rules[4].fires => s.evolution
      /\ rules[5].fires => s.dependency
  BY DEF Rules
<1>3. e.target = x /\ e.type = rules[k].type
  BY DEF Classified
<1>4. /\ s.newer => Mine(r).born > r.rows[x].born
      /\ \E i \in DOMAIN rules : rules[i].fires
  BY DEF Signals, Mine, Fires
<1>5. ASSUME Cueless(Mine(r)), Cueless(r.rows[x])
      PROVE  ~s.opposed /\ ~s.evidence /\ ~s.evolution /\ ~s.dependency
  <2>1. ASSUME NEW row, Cueless(row), NEW c, c = Heard(row)
        PROVE  c.negated = ("negation" \in {}) /\ ~c.evidence /\ ~c.evolution /\ ~c.dependency
    <3>1. Cues(row.content) = {} /\ row.tags \cap {"pending", "todo", "blocked", "task"} = {}
      BY <2>1 DEF Cueless
    <3> QED BY <2>1, <3>1 DEF Heard
  <2> QED BY <1>5, <2>1 DEF Signals, Mine
<1>6. k \in DOMAIN rules /\ rules[k].fires /\ \A j \in DOMAIN rules : j < k => ~rules[j].fires
  <2> HIDE DEF rules, s
  <2>1. \E i \in DOMAIN rules : rules[i].fires /\ \A j \in DOMAIN rules : j < i => ~rules[j].fires
    BY <1>1, <1>2, <1>4
  <2> QED BY <2>1 DEF FirstSuch
<1> HIDE DEF rules, k, s
<1>7. k = 1 \/ k = 2 \/ k = 3 \/ k = 4 \/ k = 5 \/ k = 6
  BY <1>1, <1>6
<1>8. e.type = "replaces" => k = 1
  BY <1>1, <1>3, <1>7
<1>9. (Cueless(Mine(r)) /\ Cueless(r.rows[x])) => k = 6
  <2> SUFFICES ASSUME Cueless(Mine(r)), Cueless(r.rows[x]) PROVE k = 6
    OBVIOUS
  <2>1. ~s.opposed /\ ~s.evidence /\ ~s.evolution /\ ~s.dependency
    BY <1>5
  <2>2. ~rules[1].fires /\ ~rules[2].fires /\ ~rules[3].fires /\ ~rules[4].fires /\ ~rules[5].fires
    BY <1>2, <2>1
  <2>3. rules[k].fires
    BY <1>6
  <2> QED BY <1>7, <2>2, <2>3
<1> QED BY <1>1, <1>2, <1>3, <1>4, <1>6, <1>8, <1>9

\* A supersession of the fate is one of the edges before the cut; a merge is
\* with the duplicate.
LEMMA FateIs ==
  ASSUME NEW r, NEW A, NEW all \in Seq(A), NEW f, f = Fate(r, all)
  PROVE  /\ f.action = "replaces+archive" =>
              \E i \in DOMAIN all : all[i].type = "replaces" /\ f.target = all[i].target
         /\ f.action = "merge" => r.merge # "none" /\ f.target = r.merge
<1> DEFINE Newer(e) == e.type = "replaces" /\ r.rows[e.target].status = "active"
           k == FirstSuch(all, Newer)
<1>1. CASE \E i \in DOMAIN all : Newer(all[i])
  <2>1. f = [action |-> "replaces+archive", target |-> all[k].target]
    BY <1>1 DEF Fate
  <2>2. PICK i \in DOMAIN all : Newer(all[i])
    BY <1>1
  <2> DEFINE T == {e \in A : Newer(e)}
  <2>3. \A j \in DOMAIN all : all[j] \in T <=> Newer(all[j])
    OBVIOUS
  <2> HIDE DEF T, Newer
  <2>4. PICK j \in DOMAIN all : all[j] \in T /\ \A m \in DOMAIN all : m < j => all[m] \notin T
    BY <2>2, <2>3, FirstPlace
  <2>5. k \in DOMAIN all /\ Newer(all[k])
    BY <2>3, <2>4 DEF FirstSuch
  <2> HIDE DEF k
  <2>6. k \in DOMAIN all /\ all[k].type = "replaces"
    BY <2>5 DEF Newer
  <2> QED BY <2>1, <2>6
<1>2. CASE ~\E i \in DOMAIN all : Newer(all[i])
  <2>1. f = IF r.merge # "none" THEN [action |-> "merge", target |-> r.merge]
            ELSE IF all # <<>> THEN [action |-> "link", target |-> all[1].target] ELSE NoFate
    BY <1>2 DEF Fate
  <2> QED BY <2>1 DEF NoFate
<1> QED BY <1>1, <1>2

\* A sequence has finitely many members.
LEMMA SeqMembersFinite ==
  ASSUME NEW A, NEW s \in Seq(A)
  PROVE  IsFiniteSet(ToSet(s))
<1>1. IsFiniteSet(DOMAIN s)
  BY SeqFinite
<1>2. s \in Surjection(DOMAIN s, ToSet(s))
  <2>1. s \in [DOMAIN s -> ToSet(s)]
    BY DEF ToSet
  <2> QED BY <2>1 DEF Surjection, ToSet
<1> QED BY <1>1, <1>2, FS_Surjection

-----------------------------------------------------------------------------
(* A place.                                                                *)

\* Who has more than half of the votes counted has more than all others, even
\* if of a thought in several clusters any may have been counted.
LEMMA ElectedIs ==
  ASSUME NEW h, NEW near, IsFiniteSet(near), NEW proj, NEW home,
         home \in Homes(h, near),
         NEW c, c = Elected(h, proj, home), c # "none"
  PROVE  /\ \E x : c \in ClustersOf(h, x)
         /\ MayWin(h, near, c, proj)
<1> DEFINE counted == {x \in DOMAIN home : h.th[home[x]].proj = proj}
           votes(d) == {x \in counted : home[x] = d}
           best == {d \in {home[x] : x \in counted} :
                      Majority(Cardinality(votes(d)), Cardinality(counted))}
           ayes == {x \in near : c \in ClustersOf(h, x)}
           nays == {x \in near : HomesIn(h, x, proj) # {} /\ c \notin ClustersOf(h, x)
                                 /\ ClustersOf(h, x) = HomesIn(h, x, proj)}
<1>1. /\ DOMAIN home = {x \in near : ClustersOf(h, x) # {}}
      /\ \A x \in DOMAIN home : home[x] \in ClustersOf(h, x)
  BY DEF Homes
<1>2. c \in best
  <2>1. c = IF best = {} THEN "none" ELSE CHOOSE d \in best : TRUE
    BY Zenon DEF Elected
  <2> HIDE DEF best
  <2> QED BY <2>1
<1>3. votes(c) \subseteq ayes /\ votes(c) \subseteq counted /\ ayes \subseteq near
  BY <1>1
<1>4. nays \subseteq counted /\ nays \cap votes(c) = {} /\ counted \subseteq near
  BY <1>1 DEF HomesIn
<1>5. 2 * Cardinality(votes(c)) > Cardinality(counted) /\ \E x : c \in ClustersOf(h, x)
  BY <1>1, <1>2 DEF Majority
<1>6. PICK V : V = votes(c)
  OBVIOUS
<1> HIDE DEF votes, ayes, nays, counted, best
<1>7. IsFiniteSet(V) /\ IsFiniteSet(ayes) /\ IsFiniteSet(nays) /\ IsFiniteSet(counted)
  BY <1>3, <1>4, <1>6, FS_Subset
<1>8. Cardinality(V) <= Cardinality(ayes)
  BY <1>3, <1>6, <1>7, FS_Subset
<1>9. /\ Cardinality(V) \in Nat /\ Cardinality(nays) \in Nat /\ Cardinality(counted) \in Nat
      /\ Cardinality(ayes) \in Nat
  BY <1>7, FS_CardinalityType
<1>10. Cardinality(V) + Cardinality(nays) <= Cardinality(counted)
  <2>1. Cardinality(V \cup nays) <= Cardinality(counted)
    BY <1>3, <1>4, <1>6, <1>7, FS_Subset
  <2>2. Cardinality(V \cup nays) = Cardinality(V) + Cardinality(nays) - Cardinality(V \cap nays)
    BY <1>7, FS_Union
  <2>3. Cardinality(V \cap nays) = 0
    BY <1>4, <1>6, FS_EmptySet
  <2> QED BY <1>9, <2>1, <2>2, <2>3
<1>11. Cardinality(ayes) > Cardinality(nays)
  BY <1>5, <1>6, <1>8, <1>9, <1>10
<1> QED BY <1>5, <1>11 DEF MayWin, ayes, nays

-----------------------------------------------------------------------------
(* A plan, read by read.                                                   *)

\* The candidates were thoughts of the project, and the duplicate is another.
Pooled(r, S) ==
  /\ r.pool \in Seq(ToSet(r.pool))
  /\ \A x \in ToSet(r.pool) \ {r.src} :
       \E h \in S : Has(h, x) /\ ~h.th[x].cluster /\ h.th[x].proj = Mine(r).proj
  /\ r.merge # "none" => r.merge # r.src

\* The cluster the neighbours voted for.
Won(r, S) ==
  r.cluster # "none" => /\ \E h \in S : IsCluster(h, r.cluster)
                        /\ \A h \in S : S = {h} => MayWin(h, Paired(r), r.cluster, Mine(r).proj)

Blank(r) == r.placed.kind = "none" /\ r.edges = <<>>

Concluded(r, S) ==
  /\ EdgesSound(r, S) /\ FateSound(r, S) /\ PlaceSound(r, S)
  /\ r.degraded => r.edges = <<>> /\ r.placed.kind = "none"

PlanFacts(r, S) ==
  /\ r.pc = "start" => r.rows = <<>>
  /\ r.pc \in {"start", "pending", "stored", "embed"} => Blank(r)
  /\ r.pc \notin {"done", "failed"} => r.degraded = FALSE
  /\ r.pc \notin {"start", "done", "failed"} => Pooled(r, S)
  /\ r.pc \in {"cluster", "room", "parent", "link"} => PlaceSound(r, S)
  /\ r.pc = "room" => Won(r, S)
  /\ (r.pc = "done" /\ r.rows # <<>>) => Concluded(r, S)

\* A write takes nothing away from what a plan knows.
LEMMA PlanFactsMoved ==
  ASSUME NEW S, S # {}, NEW T, S \subseteq T, NEW r, PlanFacts(r, S)
  PROVE  PlanFacts(r, T)
<1>1. \A h \in T : T = {h} => h \in S /\ S = {h}
  OBVIOUS
<1>2. Pooled(r, S) => Pooled(r, T)
  BY DEF Pooled
<1>3. Won(r, S) => Won(r, T)
  BY <1>1 DEF Won
<1>4. PlaceSound(r, S) => PlaceSound(r, T)
  BY <1>1 DEF PlaceSound
<1>5. \A x : Apart(r, S, x) => Apart(r, T, x)
  BY DEF Apart
<1>6. \A x : Linkable(r, S, x) => Linkable(r, T, x)
  BY <1>5 DEF Linkable
<1>7. EdgesSound(r, S) => EdgesSound(r, T)
  BY <1>6 DEF EdgesSound
<1>8. FateSound(r, S) => FateSound(r, T)
  BY <1>5 DEF FateSound
<1>9. Concluded(r, S) => Concluded(r, T)
  BY <1>4, <1>7, <1>8 DEF Concluded
<1> QED BY <1>2, <1>3, <1>4, <1>9 DEF PlanFacts

\* What a step of process p has to show for its plan.
PlanTurns(p) == \E n : plan' = [plan EXCEPT ![p] = n] /\ PlanFacts(n, saw[p])

\* What the later steps leave alone, what is said of it holds of.
LEMMA SameCall ==
  ASSUME NEW r, NEW n, n.src = r.src, n.rows = r.rows, n.pool = r.pool, n.merge = r.merge
  PROVE  /\ Mine(n) = Mine(r)
         /\ \A S : Pooled(r, S) => Pooled(n, S)
         /\ n.vectors = r.vectors => Paired(n) = Paired(r)
         /\ \A S, x : Apart(r, S, x) => Apart(n, S, x)
<1>1. Mine(n) = Mine(r)
  BY DEF Mine
<1>2. n.vectors = r.vectors => Paired(n) = Paired(r)
  BY DEF Paired
<1>3. \A S : Pooled(r, S) => Pooled(n, S)
  BY <1>1 DEF Pooled
<1>4. \A S, x : Apart(r, S, x) => Apart(n, S, x)
  BY DEF Apart
<1> QED BY <1>1, <1>2, <1>3, <1>4

\* A duplicate is one of the candidates.
LEMMA MergeIs ==
  ASSUME NEW rows, NEW pool, NEW src, NEW m, m = MergeTarget(rows, pool, src)
  PROVE  m = "none" \/ m \in ToSet(pool) \ {src}
<1> DEFINE Near(x) == IF rows[x].content = rows[src].content THEN 100
                      ELSE Overlap(rows[src].content, rows[x].content)
           found == {x \in ToSet(pool) \ {src} : Near(x) >= 60}
           best == {x \in found : \A y \in found \ {x} :
                      Near(x) > Near(y) \/ (Near(x) = Near(y) /\ Earlier(x, y))}
<1>1. m = IF best = {} THEN "none" ELSE CHOOSE x \in best : TRUE
  BY Zenon DEF MergeTarget
<1>2. best \subseteq ToSet(pool) \ {src}
  OBVIOUS
<1> HIDE DEF best
<1> QED BY <1>1, <1>2

LEMMA StartFacts ==
  ASSUME Tables(g), NEW p, Start(p), g \in saw[p], PlanRecord(plan[p]), PlanFacts(plan[p], saw[p])
  PROVE  PlanTurns(p)
<1> DEFINE r == plan[p]
           S == saw[p]
           call == r.call
           src == IF call.id = "none" THEN Draft ELSE call.id
           row == IF src = Draft THEN DraftRow(call) ELSE g.th[src]
           Rows(pool) == [x \in ToSet(pool) |-> IF x = src THEN row ELSE g.th[x]]
           Begun(pool) == [r EXCEPT !.pc = "pending", !.src = src, !.pool = pool,
                             !.rows = Rows(pool), !.merge = MergeTarget(Rows(pool), pool, src),
                             !.blind = lost]
           Turns(n) == plan' = [plan EXCEPT ![p] = n]
<1>1. PlanRecord(r) /\ r.pc = "start" /\ PlanFacts(r, S) /\ g \in S /\ S = saw[p]
  BY DEF Start, In
<1>2. \/ Turns([r EXCEPT !.pc = "failed"])
      \/ Turns([r EXCEPT !.pc = "done", !.src = src])
      \/ \E pool \in Pools(g, src, row.proj) : Turns(Begun(pool))
  BY Zenon DEF Start, Set, ReadOrder
<1> HIDE DEF r, S, Turns
<1>3. r.rows = <<>> /\ Blank(r) /\ r.degraded = FALSE
  BY <1>1 DEF PlanFacts
<1>4. CASE Turns([r EXCEPT !.pc = "failed"])
  <2>1. PICK n : n = [r EXCEPT !.pc = "failed"] /\ Turns(n)
    BY <1>4
  <2>2. n.pc = "failed"
    BY <1>1, <2>1 DEF PlanRecord
  <2>3. PlanFacts(n, S)
    BY <2>2 DEF PlanFacts
  <2> QED BY <1>1, <2>1, <2>3 DEF PlanTurns, Turns
<1>5. CASE Turns([r EXCEPT !.pc = "done", !.src = src])
  <2> HIDE DEF src
  <2>1. PICK n : n = [r EXCEPT !.pc = "done", !.src = src] /\ Turns(n)
    BY <1>5
  <2>2. n.pc = "done" /\ n.rows = <<>>
    BY <1>1, <1>3, <2>1 DEF PlanRecord
  <2>3. PlanFacts(n, S)
    BY <2>2 DEF PlanFacts
  <2> QED BY <1>1, <2>1, <2>3 DEF PlanTurns, Turns
<1>6. ASSUME NEW pool \in Pools(g, src, row.proj), Turns(Begun(pool))
      PROVE  PlanTurns(p)
  <2>1. PICK rows, merge, n : rows = Rows(pool) /\ n = Begun(pool) /\ Turns(n)
                              /\ merge = MergeTarget(Rows(pool), pool, src)
    BY <1>6
  <2>2. PICK source, mine : source = src /\ mine = row
    OBVIOUS
  <2>3. /\ pool \in Seq(ToSet(pool)) /\ source \in ToSet(pool)
        /\ \A x \in ToSet(pool) \ {source} : Has(g, x) /\ ~g.th[x].cluster /\ g.th[x].proj = mine.proj
    <3> HIDE DEF src, row
    <3> QED BY <1>6, <2>2, PoolIn
  <2>4. rows[source] = mine
    BY <2>1, <2>2, <2>3
  <2>5. merge # "none" => merge # source
    <3> HIDE DEF src, Rows
    <3>1. merge = MergeTarget(rows, pool, source)
      BY <2>1, <2>2
    <3> QED BY <3>1, MergeIs
  <2> HIDE DEF src, Rows, row
  <2>6. n = [pc |-> "pending", call |-> r.call, src |-> source, rows |-> rows, pool |-> pool,
             merge |-> merge, pending |-> r.pending, vectors |-> r.vectors,
             blind |-> lost, degraded |-> r.degraded, cluster |-> r.cluster,
             placed |-> r.placed, edges |-> r.edges, fate |-> r.fate]
    BY <1>1, <2>1, <2>2 DEF PlanRecord
  <2> HIDE DEF Begun
  <2>7. /\ n.pc = "pending" /\ n.src = source /\ n.rows = rows /\ n.pool = pool /\ n.merge = merge
        /\ n.degraded = FALSE /\ Blank(n)
    BY <1>3, <2>6 DEF Blank
  <2>8. Pooled(n, S)
    BY <1>1, <2>3, <2>4, <2>5, <2>7 DEF Pooled, Mine
  <2>9. PlanFacts(n, S)
    BY <2>7, <2>8 DEF PlanFacts
  <2> QED BY <1>1, <2>1, <2>9 DEF PlanTurns, Turns
<1> QED BY <1>2, <1>4, <1>5, <1>6

\* The reads of the vectors, and their making, leave all else as it is.
LEMMA ReadFacts ==
  ASSUME NEW p, ReadPending(p) \/ ReadStored(p) \/ Embed(p), PlanRecord(plan[p]),
         PlanFacts(plan[p], saw[p])
  PROVE  PlanTurns(p)
<1>1. PICK r, S : r = plan[p] /\ S = saw[p]
  OBVIOUS
<1> DEFINE Turns(n) == plan' = [plan EXCEPT ![p] = n]
           Goes(n) == /\ n.pc \in {"stored", "embed", "cluster"} /\ n.src = r.src /\ n.rows = r.rows
                      /\ n.pool = r.pool /\ n.merge = r.merge /\ n.degraded = r.degraded
                      /\ n.placed = r.placed /\ n.edges = r.edges
<1>2. PlanRecord(r) /\ PlanFacts(r, S) /\ r.pc \in {"pending", "stored", "embed"}
  BY <1>1 DEF ReadPending, ReadStored, Embed, In
<1>3. ASSUME ReadPending(p) PROVE \E n : Goes(n) /\ Turns(n)
  <2>1. PICK pending, n : n = [r EXCEPT !.pc = "stored", !.pending = pending] /\ Turns(n)
    BY <1>1, <1>3 DEF ReadPending, Set, AfterRead, ReadOrder
  <2>2. n = [pc |-> "stored", call |-> r.call, src |-> r.src, rows |-> r.rows, pool |-> r.pool,
             merge |-> r.merge, pending |-> pending, vectors |-> r.vectors,
             blind |-> r.blind, degraded |-> r.degraded, cluster |-> r.cluster,
             placed |-> r.placed, edges |-> r.edges, fate |-> r.fate]
    BY <1>2, <2>1 DEF PlanRecord
  <2> QED BY <2>1, <2>2
<1>4. ASSUME ReadStored(p) PROVE \E n : Goes(n) /\ Turns(n)
  <2>1. PICK vectors, n : n = [r EXCEPT !.pc = "embed", !.vectors = vectors] /\ Turns(n)
    BY <1>1, <1>4 DEF ReadStored, Set, AfterRead, ReadOrder
  <2>2. n = [pc |-> "embed", call |-> r.call, src |-> r.src, rows |-> r.rows, pool |-> r.pool,
             merge |-> r.merge, pending |-> r.pending, vectors |-> vectors,
             blind |-> r.blind, degraded |-> r.degraded, cluster |-> r.cluster,
             placed |-> r.placed, edges |-> r.edges, fate |-> r.fate]
    BY <1>2, <2>1 DEF PlanRecord
  <2> QED BY <2>1, <2>2
<1>5. ASSUME Embed(p) PROVE \E n : Goes(n) /\ Turns(n)
  <2>1. PICK vectors, n : n = [r EXCEPT !.pc = "cluster", !.vectors = vectors] /\ Turns(n)
    BY <1>1, <1>5 DEF Embed, Set
  <2>2. n = [pc |-> "cluster", call |-> r.call, src |-> r.src, rows |-> r.rows, pool |-> r.pool,
             merge |-> r.merge, pending |-> r.pending, vectors |-> vectors,
             blind |-> r.blind, degraded |-> r.degraded, cluster |-> r.cluster,
             placed |-> r.placed, edges |-> r.edges, fate |-> r.fate]
    BY <1>2, <2>1 DEF PlanRecord
  <2> QED BY <2>1, <2>2
<1>6. PICK n : Goes(n) /\ Turns(n)
  BY <1>3, <1>4, <1>5
<1>7. Pooled(n, S) /\ Blank(n) /\ n.degraded = FALSE
  <2>1. Pooled(r, S) /\ Blank(r) /\ r.degraded = FALSE
    BY <1>2 DEF PlanFacts
  <2> QED BY <1>6, <2>1, SameCall DEF Blank
<1>8. PlanFacts(n, S)
  BY <1>6, <1>7 DEF PlanFacts, Blank, PlaceSound
<1> QED BY <1>1, <1>6, <1>8 DEF PlanTurns

LEMMA EmbedFailsFacts ==
  ASSUME NEW p, EmbedFails(p), PlanRecord(plan[p]), PlanFacts(plan[p], saw[p])
  PROVE  PlanTurns(p)
<1>1. PICK r, S : r = plan[p] /\ S = saw[p]
  OBVIOUS
<1>2. PlanRecord(r) /\ PlanFacts(r, S) /\ r.pc = "embed"
  BY <1>1 DEF EmbedFails, In
<1>3. PICK fate, n : /\ fate = Fate(r, <<>>)
                     /\ n = [r EXCEPT !.pc = "done", !.degraded = TRUE, !.vectors = <<>>, !.fate = fate]
                     /\ plan' = [plan EXCEPT ![p] = n]
  BY <1>1 DEF EmbedFails, Set
<1>4. n = [pc |-> "done", call |-> r.call, src |-> r.src, rows |-> r.rows, pool |-> r.pool,
           merge |-> r.merge, pending |-> r.pending, vectors |-> <<>>,
           blind |-> r.blind, degraded |-> TRUE, cluster |-> r.cluster,
           placed |-> r.placed, edges |-> r.edges, fate |-> fate]
  BY <1>2, <1>3 DEF PlanRecord
<1>5. /\ n.pc = "done" /\ n.src = r.src /\ n.placed = r.placed /\ n.edges = r.edges /\ n.fate = fate
  BY <1>4
<1>6. Pooled(r, S) /\ Blank(r)
  BY <1>2 DEF PlanFacts
<1>7. EdgesSound(n, S)
  <2>1. n.edges = <<>> /\ Len(<<>>) = 0 /\ DOMAIN <<>> = {}
    BY <1>5, <1>6 DEF Blank
  <2> QED BY <2>1, ConfigAssumption DEF EdgesSound
<1>8. FateSound(n, S)
  <2>1. <<>> \in Seq(Nat) /\ DOMAIN <<>> = {}
    OBVIOUS
  <2>2. fate.action # "replaces+archive"
    BY <1>3, <2>1, FateIs
  <2>3. fate.action = "merge" => fate.target # r.src
    BY <1>3, <1>6, <2>1, FateIs DEF Pooled
  <2> QED BY <1>5, <2>2, <2>3 DEF FateSound
<1>9. Concluded(n, S)
  BY <1>5, <1>6, <1>7, <1>8 DEF Concluded, PlaceSound, Blank
<1> QED BY <1>1, <1>3, <1>5, <1>9 DEF PlanTurns, PlanFacts

LEMMA ClusterFacts ==
  ASSUME Tables(g), NEW p, PlaceByCluster(p), g \in saw[p], PlanRecord(plan[p]),
         PlanFacts(plan[p], saw[p])
  PROVE  PlanTurns(p)
<1>1. PICK r, S : r = plan[p] /\ S = saw[p]
  OBVIOUS
<1>2. PlanRecord(r) /\ PlanFacts(r, S) /\ r.pc = "cluster" /\ g \in S
  BY <1>1 DEF PlaceByCluster, In
<1>3. PICK near, proj : near = Paired(r) /\ proj = Mine(r).proj
  OBVIOUS
<1>4. PICK home \in Homes(g, near) :
        plan' = [plan EXCEPT ![p] = [r EXCEPT !.pc = "room", !.cluster = Elected(g, proj, home)]]
  BY <1>1, <1>3 DEF PlaceByCluster, Set, Mine
<1>5. PICK c, n : /\ c = Elected(g, proj, home) /\ n = [r EXCEPT !.pc = "room", !.cluster = c]
                  /\ plan' = [plan EXCEPT ![p] = n]
  BY <1>4
<1>6. n = [pc |-> "room", call |-> r.call, src |-> r.src, rows |-> r.rows, pool |-> r.pool,
           merge |-> r.merge, pending |-> r.pending, vectors |-> r.vectors,
           blind |-> r.blind, degraded |-> r.degraded, cluster |-> c,
           placed |-> r.placed, edges |-> r.edges, fate |-> r.fate]
  BY <1>2, <1>5 DEF PlanRecord
<1>7. /\ n.pc = "room" /\ n.src = r.src /\ n.rows = r.rows /\ n.pool = r.pool /\ n.merge = r.merge
      /\ n.vectors = r.vectors /\ n.placed = r.placed /\ n.degraded = r.degraded /\ n.cluster = c
  BY <1>6
<1>8. IsFiniteSet(near)
  <2>1. near \subseteq ToSet(r.pool) /\ r.pool \in Seq(ToSet(r.pool))
    BY <1>2, <1>3 DEF PlanFacts, Pooled, Paired, Pairs
  <2> QED BY <2>1, SeqMembersFinite, FS_Subset
<1>9. ASSUME c # "none" PROVE IsCluster(g, c) /\ MayWin(g, near, c, proj)
  <2>1. (\E x : c \in ClustersOf(g, x)) /\ MayWin(g, near, c, proj)
    BY <1>4, <1>5, <1>8, <1>9, ElectedIs
  <2>2. PICK e \in g.ed : e.s = c /\ e.type = "cluster"
    BY <2>1 DEF ClustersOf
  <2> QED BY <2>1, <2>2 DEF Tables
<1>10. Won(n, S)
  BY <1>2, <1>3, <1>7, <1>9, SameCall DEF Won
<1>11. Pooled(n, S) /\ n.degraded = FALSE /\ PlaceSound(n, S)
  <2>1. Pooled(r, S) /\ r.degraded = FALSE /\ PlaceSound(r, S)
    BY <1>2 DEF PlanFacts
  <2> QED BY <1>7, <2>1, SameCall DEF PlaceSound
<1>12. PlanFacts(n, S)
  BY <1>7, <1>10, <1>11 DEF PlanFacts
<1> QED BY <1>1, <1>5, <1>12 DEF PlanTurns

LEMMA RoomFacts ==
  ASSUME NEW p, CheckRoom(p), g \in saw[p], PlanRecord(plan[p]), PlanFacts(plan[p], saw[p])
  PROVE  PlanTurns(p)
<1>1. PICK r, S : r = plan[p] /\ S = saw[p]
  OBVIOUS
<1>2. PlanRecord(r) /\ PlanFacts(r, S) /\ r.pc = "room" /\ g \in S
  BY <1>1 DEF CheckRoom, In
<1> DEFINE fits == r.cluster # "none" /\ Roomy(g, r.cluster)
           pc == IF fits THEN "link" ELSE "parent"
           placed == IF fits THEN [kind |-> "cluster", target |-> r.cluster] ELSE r.placed
<1>3. PICK n : n = [r EXCEPT !.pc = pc, !.placed = placed] /\ plan' = [plan EXCEPT ![p] = n]
  BY <1>1 DEF CheckRoom, Set, Roomy
<1>4. n = [pc |-> pc, call |-> r.call, src |-> r.src, rows |-> r.rows, pool |-> r.pool,
           merge |-> r.merge, pending |-> r.pending, vectors |-> r.vectors,
           blind |-> r.blind, degraded |-> r.degraded, cluster |-> r.cluster,
           placed |-> placed, edges |-> r.edges, fate |-> r.fate]
  <2> HIDE DEF pc, placed
  <2> QED BY <1>2, <1>3 DEF PlanRecord
<1>5. /\ n.pc = pc /\ n.src = r.src /\ n.rows = r.rows /\ n.pool = r.pool /\ n.merge = r.merge
      /\ n.vectors = r.vectors /\ n.placed = placed /\ n.degraded = r.degraded
  <2> HIDE DEF pc, placed
  <2> QED BY <1>4
<1>6. /\ Pooled(r, S) /\ r.degraded = FALSE /\ PlaceSound(r, S) /\ Won(r, S)
  BY <1>2 DEF PlanFacts
<1>7. Mine(n) = Mine(r) /\ Paired(n) = Paired(r) /\ Pooled(n, S)
  BY <1>5, <1>6, SameCall
<1>8. PlaceSound(n, S)
  <2>1. CASE fits
    <3>1. n.placed = [kind |-> "cluster", target |-> r.cluster]
      BY <1>5, <2>1
    <3>2. n.placed.target = r.cluster
      BY <3>1
    <3>3. PICK h \in S : IsCluster(h, r.cluster)
      BY <1>6, <2>1 DEF Won
    <3>4. (\E k \in S : IsCluster(k, r.cluster) /\ Roomy(k, r.cluster))
          \/ (\E k \in S : ~IsCluster(k, r.cluster))
      BY <1>2, <2>1
    <3> QED BY <1>6, <1>7, <2>1, <3>2, <3>3, <3>4 DEF PlaceSound, Won
  <2>2. CASE ~fits
    <3>1. n.placed = r.placed
      BY <1>5, <2>2
    <3> QED BY <1>6, <1>7, <3>1 DEF PlaceSound
  <2> QED BY <2>1, <2>2
<1>9. n.pc \in {"link", "parent"}
  BY <1>5
<1>10. PlanFacts(n, S)
  BY <1>5, <1>6, <1>7, <1>8, <1>9 DEF PlanFacts
<1> QED BY <1>1, <1>3, <1>10 DEF PlanTurns

LEMMA ParentFacts ==
  ASSUME NEW p, PlaceByParent(p), PlanRecord(plan[p]), PlanFacts(plan[p], saw[p])
  PROVE  PlanTurns(p)
<1>1. PICK r, S : r = plan[p] /\ S = saw[p]
  OBVIOUS
<1>2. PlanRecord(r) /\ PlanFacts(r, S) /\ r.pc = "parent"
  BY <1>1 DEF PlaceByParent, In
<1>3. PICK placed, n : /\ n = [r EXCEPT !.pc = "link", !.placed = placed]
                       /\ plan' = [plan EXCEPT ![p] = n]
                       /\ placed = r.placed \/ placed.kind = "parent"
  <2>1. PICK chained, x : plan' = [plan EXCEPT ![p] = [plan[p] EXCEPT !.pc = "link",
          !.placed = IF chained = <<>> THEN @ ELSE [kind |-> "parent", target |-> x]]]
    BY Zenon DEF PlaceByParent, Set
  <2>2. PICK placed : placed = IF chained = <<>> THEN r.placed ELSE [kind |-> "parent", target |-> x]
    OBVIOUS
  <2>3. plan' = [plan EXCEPT ![p] = [r EXCEPT !.pc = "link", !.placed = placed]]
    BY <1>1, <2>1, <2>2
  <2>4. placed = r.placed \/ placed.kind = "parent"
    BY <2>2
  <2>5. PICK n : n = [r EXCEPT !.pc = "link", !.placed = placed] /\ plan' = [plan EXCEPT ![p] = n]
    BY <2>3
  <2> QED BY <2>4, <2>5
<1>4. n = [pc |-> "link", call |-> r.call, src |-> r.src, rows |-> r.rows, pool |-> r.pool,
           merge |-> r.merge, pending |-> r.pending, vectors |-> r.vectors,
           blind |-> r.blind, degraded |-> r.degraded, cluster |-> r.cluster,
           placed |-> placed, edges |-> r.edges, fate |-> r.fate]
  BY <1>2, <1>3 DEF PlanRecord
<1>5. /\ n.pc = "link" /\ n.src = r.src /\ n.rows = r.rows /\ n.pool = r.pool /\ n.merge = r.merge
      /\ n.vectors = r.vectors /\ n.placed = placed /\ n.degraded = r.degraded
  BY <1>4
<1>6. Pooled(r, S) /\ r.degraded = FALSE /\ PlaceSound(r, S)
  BY <1>2 DEF PlanFacts
<1>7. Mine(n) = Mine(r) /\ Paired(n) = Paired(r) /\ Pooled(n, S)
  BY <1>5, <1>6, SameCall
<1>8. PlaceSound(n, S)
  BY <1>3, <1>5, <1>6, <1>7 DEF PlaceSound
<1>9. PlanFacts(n, S)
  BY <1>5, <1>6, <1>7, <1>8 DEF PlanFacts
<1> QED BY <1>1, <1>3, <1>9 DEF PlanTurns

LEMMA ConcludeFacts ==
  ASSUME NEW p, Conclude(p), g \in saw[p], PlanRecord(plan[p]), PlanFacts(plan[p], saw[p])
  PROVE  PlanTurns(p)
<1>1. PICK r, S : r = plan[p] /\ S = saw[p]
  OBVIOUS
<1>2. PlanRecord(r) /\ PlanFacts(r, S) /\ r.pc = "link" /\ g \in S
  BY <1>1 DEF Conclude, In
<1>3. PICK all, edges, fate, n :
        /\ all \in Proposals(g, r)
        /\ edges = FirstOf(all, MaxProposals) /\ fate = Fate(r, all)
        /\ n = [r EXCEPT !.pc = "done", !.edges = edges, !.fate = fate]
        /\ plan' = [plan EXCEPT ![p] = n]
  BY <1>1 DEF Conclude, Set
<1>4. n = [pc |-> "done", call |-> r.call, src |-> r.src, rows |-> r.rows, pool |-> r.pool,
           merge |-> r.merge, pending |-> r.pending, vectors |-> r.vectors,
           blind |-> r.blind, degraded |-> r.degraded, cluster |-> r.cluster,
           placed |-> r.placed, edges |-> edges, fate |-> fate]
  BY <1>2, <1>3 DEF PlanRecord
<1>5. /\ n.pc = "done" /\ n.src = r.src /\ n.rows = r.rows /\ n.pool = r.pool /\ n.merge = r.merge
      /\ n.vectors = r.vectors /\ n.placed = r.placed /\ n.degraded = r.degraded
      /\ n.edges = edges /\ n.fate = fate
  BY <1>4
<1>6. Pooled(r, S) /\ r.degraded = FALSE /\ PlaceSound(r, S)
  BY <1>2 DEF PlanFacts
<1>7. Mine(n) = Mine(r) /\ Paired(n) = Paired(r)
  BY <1>5, SameCall
<1> DEFINE fresh == {x \in Paired(r) : ~Linked(g, r.src, x) /\ Fires(r, x)}
           New == {Classified(r, x) : x \in fresh}
<1>8. all \in Seq(New)
  <2>1. IsFiniteSet(fresh)
    <3>1. fresh \subseteq ToSet(r.pool) /\ r.pool \in Seq(ToSet(r.pool))
      BY <1>6 DEF Pooled, Paired, Pairs
    <3> HIDE DEF fresh
    <3> QED BY <3>1, SeqMembersFinite, FS_Subset
  <2>2. IsFiniteSet(New)
    <3> DEFINE f == [x \in fresh |-> Classified(r, x)]
    <3>1. f \in Surjection(fresh, New)
      BY DEF Surjection
    <3> HIDE DEF f, New, fresh
    <3> QED BY <2>1, <3>1, FS_Surjection
  <2>3. all \in SetToSeqs(New)
    BY <1>3 DEF Proposals, Sorted
  <2> HIDE DEF New
  <2> QED BY <2>2, <2>3, OrderIs
<1>9. ASSUME NEW e \in New
      PROVE  /\ Linkable(n, S, e.target)
             /\ e.type = "replaces" => r.rows[e.target].born < Mine(r).born
             /\ (Cueless(Mine(r)) /\ Cueless(r.rows[e.target])) => e.type = "related"
  <2>1. PICK x \in fresh : e = Classified(r, x)
    BY <1>9
  <2>2. x \in ToSet(r.pool) \ {r.src}
    BY <2>1 DEF Paired, Pairs
  <2>3. /\ e.target = x
        /\ e.type = "replaces" => Mine(r).born > r.rows[x].born
        /\ (Cueless(Mine(r)) /\ Cueless(r.rows[x])) => e.type = "related"
    BY <2>1, ClassifiedIs
  <2>4. Apart(n, S, x)
    BY <1>2, <1>5, <2>1 DEF Apart
  <2>5. Linkable(n, S, x)
    BY <1>5, <1>6, <1>7, <2>2, <2>4 DEF Linkable, Pooled
  <2> QED BY <2>3, <2>5
<1> HIDE DEF New, fresh
<1>10. EdgesSound(n, S)
  <2>1. edges \in Seq(New) /\ Len(edges) <= MaxProposals
    BY <1>3, <1>8, FirstOfIs, ConfigAssumption
  <2>2. \A i \in DOMAIN edges : edges[i] \in New
    BY <2>1
  <2> QED BY <1>5, <1>7, <1>9, <2>1, <2>2 DEF EdgesSound
<1>11. FateSound(n, S)
  <2>1. /\ fate.action = "replaces+archive" =>
             \E i \in DOMAIN all : all[i].type = "replaces" /\ fate.target = all[i].target
        /\ fate.action = "merge" => r.merge # "none" /\ fate.target = r.merge
    BY <1>3, <1>8, FateIs
  <2>2. \A i \in DOMAIN all : all[i] \in New
    BY <1>8
  <2>3. fate.action = "replaces+archive" =>
          r.rows[fate.target].born < Mine(r).born /\ Linkable(n, S, fate.target)
    BY <1>9, <2>1, <2>2
  <2> QED BY <1>5, <1>6, <1>7, <2>1, <2>3 DEF FateSound, Linkable, Pooled
<1>12. PlaceSound(n, S)
  BY <1>5, <1>6, <1>7 DEF PlaceSound
<1>13. PlanFacts(n, S)
  BY <1>5, <1>6, <1>10, <1>11, <1>12 DEF PlanFacts, Concluded
<1> QED BY <1>1, <1>3, <1>13 DEF PlanTurns

-----------------------------------------------------------------------------
(* The invariant of the plans holds.                                       *)

PlansOK == \A p \in Processes : plan[p] = NoPlan \/ PlanFacts(plan[p], saw[p])

LEMMA InitPlans == Init => PlansOK
<1> SUFFICES ASSUME Init, NEW p \in Processes PROVE plan[p] = NoPlan \/ PlanFacts(plan[p], saw[p])
  BY DEF PlansOK
<1>1. PICK call : plan[p] = NoPlan \/ plan[p] = NewPlan(call)
  BY DEF Init
<1>2. PICK r : r = NewPlan(call)
  OBVIOUS
<1>3. r.pc = "start" /\ r.rows = <<>> /\ r.placed.kind = "none" /\ r.edges = <<>> /\ r.degraded = FALSE
  BY <1>2 DEF NewPlan
<1>4. PlanFacts(r, saw[p])
  BY <1>3 DEF PlanFacts, Blank
<1> QED BY <1>1, <1>2, <1>4

LEMMA NextPlans == RInv /\ PlansOK /\ [Next]_vars => PlansOK'
<1> SUFFICES ASSUME RInv, PlansOK, [Next]_vars PROVE PlansOK'
  OBVIOUS
<1>1. StoreMoves /\ StoreOK
  BY StepMoves, RInvIs
<1>2. ASSUME NEW q \in Processes, plan'[q] = plan[q]
      PROVE  plan'[q] = NoPlan \/ PlanFacts(plan'[q], saw'[q])
  <2>1. CASE plan[q] = NoPlan
    BY <1>2, <2>1
  <2>2. CASE plan[q] # NoPlan
    <3>1. g \in saw[q] /\ PlanFacts(plan[q], saw[q])
      BY <2>2 DEF RInv, PlansOK
    <3>2. saw[q] \subseteq saw'[q] /\ saw[q] # {}
      BY <1>1, <3>1 DEF StoreMoves
    <3> QED BY <1>2, <3>1, <3>2, PlanFactsMoved
  <2> QED BY <2>1, <2>2
<1>3. ASSUME NEW p \in Processes, PlanStep(p)
      PROVE  PlansOK'
  <2>1. CallsOK(p) /\ plan[p] # NoPlan
    BY <1>3, PlanBegun, RInvIs
  <2>2. /\ g \in saw[p] /\ PlanOK(plan[p], saw[p], vec, queued) /\ PlanFacts(plan[p], saw[p])
        /\ PlanRecord(plan[p]) /\ Tables(g)
    BY <1>1, <2>1 DEF CallsOK, PlansOK, PlanOK, StoreOK
  <2>3. UNCHANGED saw
    BY <1>1, <1>3, <2>2, PlanStepOK DEF PlanGoesOn, PlanSteps
  <2>4. PlanTurns(p)
    BY <1>3, <2>2, StartFacts, ReadFacts, EmbedFailsFacts, ClusterFacts, RoomFacts, ParentFacts,
       ConcludeFacts DEF PlanStep, Place
  <2>5. PICK n : plan' = [plan EXCEPT ![p] = n] /\ PlanFacts(n, saw[p])
    BY <2>4 DEF PlanTurns
  <2>6. plan'[p] = n /\ \A q \in Processes \ {p} : plan'[q] = plan[q]
    <3>1. plan = [q \in Processes |-> plan[q]]
      BY DEF RInv
    <3> QED BY <2>5, <3>1
  <2>7. PlanFacts(plan'[p], saw'[p])
    BY <2>3, <2>5, <2>6
  <2> QED BY <1>2, <2>6, <2>7 DEF PlansOK
<1>4. CASE UNCHANGED plan
  BY <1>2, <1>4 DEF PlansOK
<1> QED BY <1>3, <1>4 DEF Next, vars

LEMMA PlansAre == PlansOK => PlanSound
BY DEF PlansOK, PlanSound, PlanFacts, Concluded, NoPlan

\* A plan links a thought to no other project's, to no cluster, to itself or
\* where a link has been all along, and calls what has no cue related; it
\* supersedes only what is older, and places a thought in a cluster that had
\* room or is none any more, and in a store that stood still the one most of
\* its neighbours are in.  (PlanSound; proposePlacementPlan)
THEOREM PlansAreSound == Spec => []PlanSound
<1>1. Spec => [](RInv /\ PlansOK)
  BY InitRInv, NextRInv, InitPlans, NextPlans, PTL DEF Spec
<1> QED BY <1>1, PlansAre, PTL

-----------------------------------------------------------------------------
(* What a search knows.                                                    *)

List(s) == s \in Seq(ToSet(s))

Distinct(s) == \A i, j \in DOMAIN s : i # j => s[i] # s[j]

SearchRecord(s) ==
  s = [pc |-> s.pc, req |-> s.req, byId |-> s.byId, ambiguous |-> s.ambiguous,
       degraded |-> s.degraded, lexical |-> s.lexical, vec |-> s.vec, bm |-> s.bm,
       items |-> s.items, matched |-> s.matched, dropped |-> s.dropped, todo |-> s.todo,
       out |-> s.out, primed |-> s.primed, chain |-> s.chain]

ItemRecord(r) == r = [id |-> r.id, via |-> r.via, sim |-> r.sim, standing |-> r.standing]

\* Why the look-up by id went as it did.
LookedUp(s, S) ==
  /\ (IdShaped(s.req.query) /\ ~s.byId) => \E h \in S : \A x \in DOMAIN h.th : ~InScopeById(h, x, s.req)
  /\ (s.byId /\ ~s.ambiguous) => \E h \in S : OnlyOneById(h, s.req)

\* Each leg names different thoughts that were in scope, tags apart.
LegOK(ids, S, req) == List(ids) /\ Distinct(ids) /\ \A x \in ToSet(ids) : \E h \in S : Passes(h, x, req)

\* The words found what contained them all along.
WordsFound(s, S) ==
  (s.req.hybrid /\ s.lexical /\ FewFound(s, S)) =>
    \A x \in Ever(S) : (Always(s, S, x) /\ Worded(s, S, x)) => x \in ToSet(s.bm)

\* Different thoughts.
ItemsListed(s) ==
  /\ List(s.items) /\ Distinct(Ids(s.items))
  /\ \A i \in DOMAIN s.items : ItemRecord(s.items[i])

\* Each in scope at some moment.
ItemsOK(s, S) ==
  /\ ItemsListed(s)
  /\ \A i \in DOMAIN s.items : WasInScope(s, S, s.items[i].id)

NamedFound(s, S) ==
  (s.byId /\ FewNamed(s, S)) => \A x \in Ever(S) : Always(s, S, x) => x \in ToSet(Ids(s.items))

\* What contained the words all along is among the items.
WordsKept(s, S) ==
  (~s.byId /\ s.req.hybrid /\ s.lexical /\ FewFound(s, S)) =>
    \A x \in Ever(S) : (Always(s, S, x) /\ Worded(s, S, x)) =>
      \E i \in DOMAIN s.items : s.items[i].id = x /\ "bm25" \in s.items[i].via

\* Before the tags are asked for.
Hydrated(s, S) ==
  /\ ~s.byId /\ ItemsListed(s) /\ WordsKept(s, S)
  /\ \A i \in DOMAIN s.items : \E h \in S : Passes(h, s.items[i].id, s.req)

Candidates(s, S) ==
  /\ ItemsOK(s, S) /\ NamedFound(s, S) /\ WordsKept(s, S)
  /\ s.byId => s.items # <<>> /\ Len(s.items) <= s.req.topK

\* An item is marked as superseded if it is so in h.
Marked(h, item, req) ==
  /\ item.standing \in {"current", "superseded"}
  /\ item.standing = "superseded" <=> (req.supersession # "off" /\ Replaced(h, item.id))

\* All were looked up in one store.
Judged(s, S) ==
  ~Unjudged(s.req) => \E h \in S : \A i \in DOMAIN s.items : Marked(h, s.items[i], s.req)

\* What is answered: at most topK, the doubtful last, and nothing missed but
\* for want of room.
Chosen(s, S) ==
  /\ ItemsOK(s, S) /\ NamedFound(s, S) /\ Len(s.items) <= s.req.topK
  /\ Suppresses(s) => \A i \in DOMAIN s.items : \E h \in S : ~Replaced(h, s.items[i].id)
  /\ \A i, j \in DOMAIN s.items :
       i < j => ~AlwaysBehind(S, s.req, s.items[i].id, s.items[j].id)
  /\ (/\ ~s.byId /\ s.req.hybrid /\ s.lexical /\ FewFound(s, S) /\ Len(s.items) < s.req.topK) =>
       \A x \in Ever(S) :
         (/\ Always(s, S, x) /\ Worded(s, S, x)
          /\ Suppresses(s) => \A h \in S : ~Replaced(h, x)) => x \in ToSet(Ids(s.items))

\* Results that name each thought once.
Unique(out) ==
  \A i, k \in DOMAIN out : \A j \in DOMAIN out[i].ids, l \in DOMAIN out[k].ids :
    out[i].ids[j] = out[k].ids[l] => i = k /\ j = l

MembersOf(out) == UNION {ToSet(out[i].ids) : i \in DOMAIN out}

ResultsOK(out) ==
  /\ List(out)
  /\ \A i \in DOMAIN out : out[i] = [cluster |-> out[i].cluster, ids |-> out[i].ids] /\ List(out[i].ids)

\* The answer shows what was chosen.
Laid(s) ==
  /\ ResultsOK(s.out) /\ Unique(s.out)
  /\ MembersOf(s.out) = ToSet(Ids(s.items))
  /\ ~s.req.group => s.out = Flat(Ids(s.items))

\* What is left to count was there.
ToCount(s, S) ==
  /\ ResultsOK(s.todo) /\ MembersOf(s.todo) \subseteq Ever(S)
  /\ \A i \in DOMAIN s.todo : s.todo[i].ids # <<>>

SearchOK(s, S) ==
  /\ SearchRecord(s) /\ s.req.topK \in 1..MaxTopK
  /\ s.pc \in {"ask", "embed", "vec", "bm", "hydrate"} \/ s.pc \in {"tags", "replaces", "standing"}
       \/ s.pc \in {"group", "chain", "hit", "promote", "done", "failed"}
  /\ s.pc = "ask" => s = Fresh(s.req)
  /\ s.pc # "ask" => LookedUp(s, S)
  /\ s.pc # "done" => s.primed = <<>>
  /\ s.pc \in {"embed", "vec", "bm", "hydrate"} =>
       /\ ~s.byId /\ List(s.vec)
       /\ LegOK(Ids(s.vec), S, s.req) /\ LegOK(s.bm, S, s.req)
  /\ s.pc = "hydrate" => WordsFound(s, S)
  /\ s.pc = "tags" => Hydrated(s, S)
  /\ s.pc \in {"replaces", "standing"} => Candidates(s, S)
  /\ s.pc = "standing" => Judged(s, S)
  /\ s.pc \in {"group", "chain", "hit", "promote"} => Chosen(s, S) /\ Laid(s) /\ ToCount(s, S)
  /\ s.pc = "promote" => s.todo # <<>>
  /\ s.pc = "group" => s.req.group
  /\ s.pc = "done" => /\ Chosen(s, S) /\ Answered(s) = ToSet(Ids(s.items))
                      /\ HitsSound(s, S) /\ DoubtsLast(s, S) /\ ReasonSound(s, S)
  /\ s.pc = "failed" => \E x \in Ever(S), h \in S : ~Has(h, x)

SearchesOK ==
  /\ IsFiniteSet(DOMAIN vec) /\ List(primers)
  /\ search = [p \in Processes |-> search[p]]
  /\ \A p \in Processes :
       search[p] = NoSearch \/ (g \in saw[p] /\ IsFiniteSet(Ever(saw[p])) /\ SearchOK(search[p], saw[p]))

-----------------------------------------------------------------------------
(* What passes a test.                                                     *)

\* f is what s has at the places in K, in its order.
Picks(f, s, K) ==
  \E a \in [DOMAIN f -> K] :
    /\ \A i, j \in DOMAIN f : i < j => a[i] < a[j]
    /\ \A k \in K : \E i \in DOMAIN f : a[i] = k
    /\ \A i \in DOMAIN f : f[i] = s[a[i]]

\* The numbers of a finite set in their order are each of them once.
LEMMA AscendingIs ==
  ASSUME NEW m \in Nat, NEW K \in SUBSET (1..m), NEW a, a = Ascending(K)
  PROVE  /\ DOMAIN a = 1..Cardinality(K) /\ Cardinality(K) \in Nat
         /\ a \in [DOMAIN a -> K]
         /\ \A i, j \in DOMAIN a : i < j => a[i] < a[j]
         /\ \A k \in K : \E i \in DOMAIN a : a[i] = k
<1> DEFINE Upto(i) == {j \in K : j <= i}
           n == Cardinality(K)
           f == [i \in K |-> Cardinality(Upto(i))]
<1>1. IsFiniteSet(K) /\ n \in Nat
  <2>1. IsFiniteSet(1..m)
    BY FS_Interval
  <2> QED BY <2>1, FS_Subset, FS_CardinalityType
<1>2. ASSUME NEW i \in K PROVE IsFiniteSet(Upto(i)) /\ Cardinality(Upto(i)) \in 1..n
  <2>1. IsFiniteSet(Upto(i)) /\ Cardinality(Upto(i)) <= n /\ Cardinality(Upto(i)) \in Nat
    BY <1>1, FS_Subset, FS_CardinalityType
  <2>2. Upto(i) # {}
    OBVIOUS
  <2>3. Cardinality(Upto(i)) # 0
    BY <2>1, <2>2, FS_EmptySet
  <2> QED BY <1>1, <2>1, <2>3
<1>3. ASSUME NEW i \in K, NEW j \in K, i < j PROVE f[i] < f[j]
  <2>1. i \in Int /\ j \in Int /\ \A k \in K : k \in Int
    OBVIOUS
  <2>2. Upto(i) \subseteq Upto(j) /\ j \in Upto(j) /\ j \notin Upto(i)
    <3>1. \A k \in K : k <= i => k <= j
      BY <1>3, <2>1
    <3>2. j <= j /\ ~(j <= i)
      BY <1>3, <2>1
    <3> QED BY Zenon, <3>1, <3>2
  <2> HIDE DEF Upto
  <2>3. Cardinality(Upto(i)) <= Cardinality(Upto(j)) /\ Cardinality(Upto(i)) # Cardinality(Upto(j))
    BY <1>2, <2>2, FS_Subset
  <2> QED BY <1>2, <2>3
<1>4. f \in [K -> 1..n]
  BY <1>2
<1> HIDE DEF f, n
<1>5. \A i, j \in K : i # j => f[i] # f[j]
  <2> SUFFICES ASSUME NEW i \in K, NEW j \in K, i # j PROVE f[i] # f[j]
    OBVIOUS
  <2>1. f[i] \in Nat /\ f[j] \in Nat /\ i \in Int /\ j \in Int
    BY <1>1, <1>4
  <2>2. i < j \/ j < i
    BY <2>1
  <2> QED BY <1>3, <2>1, <2>2
<1>6. \A k \in 1..n : \E i \in K : f[i] = k
  <2>1. IsFiniteSet(1..n) /\ Cardinality(1..n) = n
    BY <1>1, FS_Interval
  <2>2. f \in Injection(K, 1..n)
    BY <1>4, <1>5 DEF Injection, IsInjective
  <2>3. Cardinality(K) = n
    BY DEF n
  <2>4. f \in Surjection(K, 1..n)
    BY <2>1, <2>2, <2>3, FS_Injection
  <2> QED BY <2>4 DEF Surjection
<1>7. a = [k \in 1..n |-> CHOOSE i \in K : f[i] = k]
  <2>1. a = [k \in 1..n |-> CHOOSE i \in K : Cardinality(Upto(i)) = k]
    BY DEF Ascending, n
  <2>2. \A k : (CHOOSE i \in K : Cardinality(Upto(i)) = k) = (CHOOSE i \in K : f[i] = k)
    <3> HIDE DEF Upto
    <3>1. \A i \in K : f[i] = Cardinality(Upto(i))
      BY DEF f
    <3> QED BY Zenon, <3>1
  <2> HIDE DEF Upto
  <2> QED BY <2>1, <2>2
<1>8. \A k \in 1..n : a[k] \in K /\ f[a[k]] = k
  BY <1>6, <1>7
<1>9. DOMAIN a = 1..n
  BY <1>7
<1>10. a \in [DOMAIN a -> K]
  <2>1. a = [k \in 1..n |-> a[k]]
    BY <1>7
  <2> QED BY <1>8, <1>9, <2>1
<1>11. ASSUME NEW i \in DOMAIN a, NEW j \in DOMAIN a, i < j PROVE a[i] < a[j]
  <2>1. a[i] \in K /\ a[j] \in K /\ f[a[i]] = i /\ f[a[j]] = j
    BY <1>8, <1>9
  <2>2. a[i] \in Int /\ a[j] \in Int /\ i \in Int /\ j \in Int
    <3>1. \A k \in K : k \in Int
      OBVIOUS
    <3>2. \A k \in 1..n : k \in Int
      BY <1>1
    <3> QED BY <1>9, <2>1, <3>1, <3>2
  <2>3. ~(a[j] < a[i])
    BY <1>3, <1>11, <2>1, <2>2
  <2>4. a[i] # a[j]
    BY <1>11, <2>1, <2>2
  <2> QED BY <2>2, <2>3, <2>4
<1>12. \A k \in K : \E i \in DOMAIN a : a[i] = k
  <2> SUFFICES ASSUME NEW k \in K PROVE a[f[k]] = k /\ f[k] \in DOMAIN a
    OBVIOUS
  <2>1. f[k] \in 1..n
    BY <1>4
  <2>2. a[f[k]] \in K /\ f[a[f[k]]] = f[k]
    BY <1>8, <2>1
  <2> QED BY <1>5, <1>9, <2>1, <2>2
<1> QED BY <1>1, <1>9, <1>10, <1>11, <1>12 DEF n

\* What is listed is.
LEMMA ListIs ==
  ASSUME NEW A, NEW s \in Seq(A)
  PROVE  List(s) /\ ToSet(s) \subseteq A
<1>1. ToSet(s) \subseteq A
  BY DEF ToSet
<1>2. PICK n \in Nat : s \in [1..n -> A]
  OBVIOUS
<1>3. \A i \in 1..n : s[i] \in ToSet(s)
  BY <1>2 DEF ToSet
<1>4. s \in [1..n -> ToSet(s)]
  BY <1>2, <1>3
<1> QED BY <1>1, <1>4 DEF List

\* The places of a list are the numbers up to its length.
LEMMA ListOf ==
  ASSUME NEW s, List(s)
  PROVE  Len(s) \in Nat /\ DOMAIN s = 1..Len(s) /\ \A i \in DOMAIN s : s[i] \in ToSet(s)
BY DEF List, ToSet

\* What has the places 1 to n is a list.
LEMMA ListFrom ==
  ASSUME NEW n \in Nat, NEW f, DOMAIN f = 1..n, f = [i \in 1..n |-> f[i]]
  PROVE  List(f) /\ Len(f) = n
<1>1. \A i \in 1..n : f[i] \in ToSet(f)
  BY DEF ToSet
<1>2. f \in [1..n -> ToSet(f)]
  BY <1>1
<1>3. f \in Seq(ToSet(f))
  BY <1>2
<1> QED BY <1>3 DEF List

\* So a filter picks the places where the test holds.
LEMMA FilterPicks ==
  ASSUME NEW s, List(s), NEW K \in SUBSET DOMAIN s, NEW f,
         f = [n \in DOMAIN Ascending(K) |-> s[Ascending(K)[n]]]
  PROVE  List(f) /\ Picks(f, s, K)
<1>1. PICK a : a = Ascending(K)
  OBVIOUS
<1>2. PICK m \in Nat : DOMAIN s = 1..m
  BY ListOf
<1>3. /\ DOMAIN a = 1..Cardinality(K) /\ Cardinality(K) \in Nat
      /\ a \in [DOMAIN a -> K]
      /\ \A i, j \in DOMAIN a : i < j => a[i] < a[j]
      /\ \A k \in K : \E i \in DOMAIN a : a[i] = k
  BY <1>1, <1>2, AscendingIs
<1>4. f = [n \in DOMAIN a |-> s[a[n]]]
  BY <1>1
<1>5. DOMAIN f = DOMAIN a /\ \A i \in DOMAIN f : f[i] = s[a[i]]
  BY <1>4
<1>6. Picks(f, s, K)
  <2>1. a \in [DOMAIN f -> K]
    BY <1>3, <1>5
  <2> QED BY <1>3, <1>5, <2>1 DEF Picks
<1>7. PICK c \in Nat : DOMAIN f = 1..c
  BY <1>3, <1>5
<1>8. f = [i \in 1..c |-> f[i]]
  BY <1>4, <1>5, <1>7
<1> QED BY <1>6, <1>7, <1>8, ListFrom

\* What is picked was there, and all that should be is.
LEMMA PickedIs ==
  ASSUME NEW f, NEW s, NEW K, Picks(f, s, K)
  PROVE  /\ \A i \in DOMAIN f : \E k \in K : f[i] = s[k]
         /\ \A k \in K : \E i \in DOMAIN f : f[i] = s[k]
BY DEF Picks

\* Each two of s, one after the other, are in R.
InTurn(s, R) == \A i, j \in DOMAIN s : i < j => <<s[i], s[j]>> \in R

\* What is picked keeps its order.
LEMMA PickedInTurn ==
  ASSUME NEW f, NEW s, NEW K \in SUBSET DOMAIN s, Picks(f, s, K), NEW R, InTurn(s, R)
  PROVE  InTurn(f, R)
<1> SUFFICES ASSUME NEW i \in DOMAIN f, NEW j \in DOMAIN f, i < j PROVE <<f[i], f[j]>> \in R
  BY DEF InTurn
<1>1. PICK k, l \in K : k < l /\ f[i] = s[k] /\ f[j] = s[l]
  BY DEF Picks
<1> QED BY <1>1 DEF InTurn

Unlike(A) == {e \in A \X A : e[1] # e[2]}

\* That its things are different is an order, too: picking keeps it.
LEMMA DistinctIs ==
  ASSUME NEW s, List(s), NEW A, ToSet(s) \subseteq A
  PROVE  Distinct(s) <=> InTurn(s, Unlike(A))
<1>1. \A i \in DOMAIN s : s[i] \in A /\ i \in Int
  BY ListOf
<1>2. ASSUME Distinct(s) PROVE InTurn(s, Unlike(A))
  <2> SUFFICES ASSUME NEW i \in DOMAIN s, NEW j \in DOMAIN s, i < j
               PROVE  <<s[i], s[j]>> \in Unlike(A)
    BY DEF InTurn
  <2>1. i # j
    BY <1>1
  <2>2. s[i] # s[j]
    BY <1>2, <2>1 DEF Distinct
  <2> QED BY <1>1, <2>2 DEF Unlike
<1>3. ASSUME InTurn(s, Unlike(A)) PROVE Distinct(s)
  <2> SUFFICES ASSUME NEW i \in DOMAIN s, NEW j \in DOMAIN s, i # j PROVE s[i] # s[j]
    BY DEF Distinct
  <2>1. i < j \/ j < i
    BY <1>1
  <2>2. <<s[i], s[j]>> \in Unlike(A) \/ <<s[j], s[i]>> \in Unlike(A)
    BY <1>3, <2>1 DEF InTurn
  <2> QED BY <2>2 DEF Unlike
<1> QED BY <1>2, <1>3

\* Of different things it picks different ones.
LEMMA PickedDistinct ==
  ASSUME NEW f, List(f), NEW s, List(s), NEW K \in SUBSET DOMAIN s, Picks(f, s, K), Distinct(s)
  PROVE  Distinct(f)
<1>1. ToSet(f) \subseteq ToSet(s)
  BY PickedIs DEF ToSet
<1>2. InTurn(s, Unlike(ToSet(s)))
  BY DistinctIs
<1>3. InTurn(f, Unlike(ToSet(s)))
  BY <1>2, PickedInTurn
<1> QED BY <1>1, <1>3, DistinctIs

\* Different members of a finite set are no more than it has.
LEMMA DistinctFit ==
  ASSUME NEW s, List(s), Distinct(s), NEW B, IsFiniteSet(B), ToSet(s) \subseteq B
  PROVE  Len(s) <= Cardinality(B)
<1>1. IsFiniteSet(DOMAIN s) /\ Cardinality(DOMAIN s) = Len(s)
  BY SeqFinite DEF List
<1>2. s \in [DOMAIN s -> B]
  <2>1. \A i \in DOMAIN s : s[i] \in B
    BY DEF ToSet
  <2>2. s = [i \in DOMAIN s |-> s[i]]
    BY DEF List
  <2> QED BY <2>1, <2>2
<1>3. s \in Injection(DOMAIN s, B)
  BY <1>2 DEF Injection, IsInjective, Distinct
<1> QED BY <1>1, <1>3, FS_Injection

\* And those of s are as many as it is long.
LEMMA DistinctCount ==
  ASSUME NEW s, List(s), Distinct(s)
  PROVE  IsFiniteSet(ToSet(s)) /\ Cardinality(ToSet(s)) = Len(s)
<1>1. IsFiniteSet(DOMAIN s) /\ Cardinality(DOMAIN s) = Len(s)
  BY SeqFinite DEF List
<1>2. s \in Surjection(DOMAIN s, ToSet(s)) /\ s \in Injection(DOMAIN s, ToSet(s))
  <2>1. s \in [DOMAIN s -> ToSet(s)]
    BY DEF List, ToSet
  <2> QED BY <2>1 DEF Surjection, Injection, IsInjective, Distinct, ToSet
<1> QED BY <1>1, <1>2, FS_Surjection

\* The first k, in their order; where there are no more, all of it.
LEMMA FirstKept ==
  ASSUME NEW s, List(s), NEW k \in Nat, NEW f, f = FirstOf(s, k)
  PROVE  /\ List(f) /\ Len(f) <= k /\ DOMAIN f \subseteq DOMAIN s /\ \A i \in DOMAIN f : f[i] = s[i]
         /\ ToSet(f) \subseteq ToSet(s)
         /\ Distinct(s) => Distinct(f)
         /\ (Len(s) <= k \/ Len(f) < k) => f = s
<1>1. /\ f \in Seq(ToSet(s)) /\ Len(f) <= k /\ DOMAIN f \subseteq DOMAIN s
      /\ \A i \in DOMAIN f : f[i] = s[i]
      /\ Len(f) < k => DOMAIN f = DOMAIN s
  BY FirstOfIs DEF List
<1>2. List(f)
  BY <1>1, ListIs
<1>3. ToSet(f) \subseteq ToSet(s)
  BY <1>1 DEF ToSet
<1>4. Distinct(s) => Distinct(f)
  BY <1>1 DEF Distinct
<1>5. ASSUME Len(s) <= k \/ Len(f) < k PROVE f = s
  <2>1. DOMAIN f = DOMAIN s
    <3>1. CASE Len(s) <= k
      <4>1. (IF Len(s) < k THEN Len(s) ELSE k) = Len(s)
        BY <3>1, ListOf
      <4>2. f = SubSeq(s, 1, Len(s))
        BY <4>1 DEF FirstOf
      <4> QED BY <4>2 DEF List
    <3> QED BY <1>1, <1>5, <3>1
  <2>2. f \in Seq(ToSet(s)) /\ s \in Seq(ToSet(s))
    BY <1>1 DEF List
  <2> QED BY <1>1, <2>1, <2>2
<1> QED BY <1>1, <1>2, <1>3, <1>4, <1>5

\* One list behind another.
Joined(a, b, c) ==
  /\ \A i \in DOMAIN a : i \in DOMAIN c /\ c[i] = a[i]
  /\ \A j \in DOMAIN b : Len(a) + j \in DOMAIN c /\ c[Len(a) + j] = b[j]
  /\ \A k \in DOMAIN c \ DOMAIN a : k > Len(a) /\ \E j \in DOMAIN b : k = Len(a) + j

\* One list after another.
LEMMA JoinIs ==
  ASSUME NEW a, List(a), NEW b, List(b)
  PROVE  List(a \o b) /\ Len(a \o b) = Len(a) + Len(b) /\ Joined(a, b, a \o b)
<1>1. PICK c : c = a \o b
  OBVIOUS
<1> DEFINE A == ToSet(a) \cup ToSet(b)
<1>2. a \in Seq(A) /\ b \in Seq(A)
  BY DEF List
<1> HIDE DEF A
<1>3. /\ c \in Seq(A) /\ Len(c) = Len(a) + Len(b)
      /\ \A i \in DOMAIN a : i \in DOMAIN c /\ c[i] = a[i]
      /\ \A j \in DOMAIN b : Len(a) + j \in DOMAIN c /\ c[Len(a) + j] = b[j]
  BY <1>1, <1>2
<1>4. List(c)
  BY <1>3, ListIs
<1>5. ASSUME NEW k \in DOMAIN c, k \notin DOMAIN a
      PROVE  k > Len(a) /\ \E j \in DOMAIN b : k = Len(a) + j
  <2>1. k \in 1..(Len(a) + Len(b)) /\ k \notin 1..Len(a) /\ Len(a) \in Nat /\ Len(b) \in Nat
        /\ DOMAIN b = 1..Len(b)
    BY <1>2, <1>3, <1>5
  <2>2. k - Len(a) \in DOMAIN b /\ k = Len(a) + (k - Len(a))
    BY <2>1
  <2> QED BY <2>1, <2>2
<1>6. Joined(a, b, c)
  BY <1>3, <1>5 DEF Joined
<1> QED BY <1>1, <1>3, <1>4, <1>6

\* Where what is in the second goes after what is in the first.
LEMMA JoinInTurn ==
  ASSUME NEW a, List(a), NEW b, List(b), NEW c, c = a \o b, NEW R, InTurn(a, R), InTurn(b, R),
         \A i \in DOMAIN a, j \in DOMAIN b : <<a[i], b[j]>> \in R
  PROVE  InTurn(c, R)
<1> SUFFICES ASSUME NEW k \in DOMAIN c, NEW l \in DOMAIN c, k < l PROVE <<c[k], c[l]>> \in R
  BY DEF InTurn
<1>1. Joined(a, b, c)
  BY JoinIs
<1>2. /\ \A i \in DOMAIN a : i \in DOMAIN c /\ c[i] = a[i]
      /\ \A j \in DOMAIN b : Len(a) + j \in DOMAIN c /\ c[Len(a) + j] = b[j]
      /\ k \in DOMAIN a \/ (k > Len(a) /\ \E j \in DOMAIN b : k = Len(a) + j)
      /\ l \in DOMAIN a \/ (l > Len(a) /\ \E j \in DOMAIN b : l = Len(a) + j)
  BY <1>1 DEF Joined
<1>3. /\ Len(a) \in Nat /\ \A i \in DOMAIN a : i \in Int /\ i <= Len(a)
      /\ \A j \in DOMAIN b : j \in Int /\ j > 0
  BY ListOf
<1>4. CASE l \in DOMAIN a
  <2>1. k \in DOMAIN a
    BY <1>2, <1>3, <1>4
  <2> QED BY <1>2, <1>4, <2>1 DEF InTurn
<1>5. CASE l \notin DOMAIN a
  <2>1. PICK j \in DOMAIN b : l = Len(a) + j
    BY <1>2, <1>5
  <2>2. CASE k \in DOMAIN a
    BY <1>2, <2>1, <2>2
  <2>3. CASE k \notin DOMAIN a
    <3>1. PICK i \in DOMAIN b : k = Len(a) + i
      BY <1>2, <2>3
    <3>2. i < j
      BY <1>3, <2>1, <3>1
    <3> QED BY <1>2, <2>1, <3>1, <3>2 DEF InTurn
  <2> QED BY <2>2, <2>3
<1> QED BY <1>4, <1>5

-----------------------------------------------------------------------------
(* How many candidates are looked at.                                      *)

\* A positive multiple of a number is no less.
LEMMA TimesMore ==
  ASSUME NEW a \in Nat, NEW b \in Nat \ {0}
  PROVE  a * b \in Nat /\ a <= a * b
<1>1. PICK c \in Nat : b = c + 1
  <2>1. b - 1 \in Nat /\ b = (b - 1) + 1
    OBVIOUS
  <2> QED BY <2>1
<1>2. a * c \in Nat
  OBVIOUS
<1>3. a * b = a * c + a
  BY <1>1
<1> QED BY <1>2, <1>3

\* The bounds of a search: it reads no fewer than it is to answer.
LEMMA WindowIs ==
  ASSUME NEW req, req.topK \in 1..MaxTopK
  PROVE  /\ CandidateK(req) = Window(req) /\ Window(req) \in Nat \ {0} /\ Window(req) <= Pool(req)
         /\ Pool(req) \in Nat /\ Lesser(PoolMax, 3 * Pool(req)) \in Nat
         /\ Lesser(req.topK, PrefixCap) \in Nat \ {0} /\ Lesser(req.topK, PrefixCap) <= req.topK
         /\ Lesser(req.topK + 1, PrefixCap) \in Nat /\ Lesser(req.topK + 1, PrefixCap) > 1
         /\ Lesser(req.topK, PrefixCap) <= Lesser(req.topK + 1, PrefixCap)
         /\ req.topK \in Nat \ {0}
<1> USE SearchAssumption
<1>1. CandidateK(req) = Window(req)
  BY DEF CandidateK, Window
<1>2. PICK t \in Nat \ {0} : t = req.topK /\ t <= MaxTopK
  OBVIOUS
<1>3. t * Overfetch \in Nat /\ t <= t * Overfetch
  BY <1>2, TimesMore
<1>4. Window(req) \in Nat \ {0} /\ Window(req) <= MaxTopK
  BY <1>2, <1>3 DEF Window, Lesser
<1>5. PICK w \in Nat \ {0} : w = Window(req) /\ w <= MaxTopK
  BY <1>4
<1>6. w * PoolFactor \in Nat /\ w <= w * PoolFactor
  BY <1>5, TimesMore
<1>7. Pool(req) \in Nat /\ w <= Pool(req)
  BY <1>1, <1>5, <1>6 DEF Pool, Lesser
<1>8. Lesser(PoolMax, 3 * Pool(req)) \in Nat
  BY <1>7 DEF Lesser
<1> QED BY <1>1, <1>2, <1>5, <1>7, <1>8 DEF Lesser

-----------------------------------------------------------------------------
(* A write takes nothing away from what a search knows.                    *)

\* What is in scope is there.
LEMMA InScopeHas ==
  ASSUME NEW s, NEW h, NEW x, InScope(s, h, x)
  PROVE  x \in DOMAIN h.th /\ (~s.byId => Passes(h, x, s.req))
BY DEF InScope, InScopeById, Passes, Has

\* What was in scope was there.
LEMMA WasThere ==
  ASSUME NEW s, NEW S, NEW x, WasInScope(s, S, x)
  PROVE  x \in Ever(S)
BY DEF WasInScope, InScope, InScopeById, Passes, Has, Ever

\* A part of few is few.
LEMMA SmallerSet ==
  ASSUME NEW B, IsFiniteSet(B), NEW A \in SUBSET B, NEW k \in Int, Cardinality(B) <= k
  PROVE  Cardinality(A) <= k
<1>1. Cardinality(A) <= Cardinality(B) /\ Cardinality(A) \in Nat /\ Cardinality(B) \in Nat
  BY FS_Subset, FS_CardinalityType
<1> QED BY <1>1

\* Few in all the stores are few in some of them.
LEMMA FewMoved ==
  ASSUME NEW S, NEW T, S \subseteq T, IsFiniteSet(Ever(T)), NEW s, s.req.topK \in 1..MaxTopK
  PROVE  /\ FewNamed(s, T) => FewNamed(s, S)
         /\ FewFound(s, T) => FewFound(s, S)
<1>1. Ever(S) \subseteq Ever(T)
  BY DEF Ever
<1>2. /\ Lesser(s.req.topK, PrefixCap) \in Int /\ Window(s.req) \in Int
      /\ Lesser(PoolMax, 3 * Pool(s.req)) \in Int
  BY WindowIs
<1>3. ASSUME FewNamed(s, T) PROVE FewNamed(s, S)
  <2> DEFINE A == {x \in Ever(S) : \E h \in S : InScope(s, h, x)}
             B == {x \in Ever(T) : \E h \in T : InScope(s, h, x)}
  <2>1. A \subseteq B /\ B \subseteq Ever(T)
    BY <1>1
  <2>2. IsFiniteSet(B)
    BY <2>1, FS_Subset
  <2>3. Cardinality(B) <= Lesser(s.req.topK, PrefixCap)
    BY <1>3 DEF FewNamed
  <2> HIDE DEF A, B
  <2>4. Cardinality(A) <= Lesser(s.req.topK, PrefixCap)
    BY <1>2, <2>1, <2>2, <2>3, SmallerSet
  <2> QED BY <2>4 DEF A, FewNamed
<1>4. ASSUME FewFound(s, T) PROVE FewFound(s, S)
  <2> DEFINE A == {x \in Ever(S) : \E h \in S : Passes(h, x, s.req)}
             B == {x \in Ever(T) : \E h \in T : Passes(h, x, s.req)}
             C == {x \in Ever(S) : \E h \in S : Has(h, x) /\ Match(s.req.query, h.th[x].content) > 0}
             D == {x \in Ever(T) : \E h \in T : Has(h, x) /\ Match(s.req.query, h.th[x].content) > 0}
  <2>1. A \subseteq B /\ B \subseteq Ever(T) /\ C \subseteq D /\ D \subseteq Ever(T)
    BY <1>1
  <2>2. IsFiniteSet(B) /\ IsFiniteSet(D)
    BY <2>1, FS_Subset
  <2>3. Cardinality(B) <= Window(s.req) /\ Cardinality(D) <= Lesser(PoolMax, 3 * Pool(s.req))
    BY <1>4 DEF FewFound
  <2> HIDE DEF A, B, C, D
  <2>4. Cardinality(A) <= Window(s.req) /\ Cardinality(C) <= Lesser(PoolMax, 3 * Pool(s.req))
    BY <1>2, <2>1, <2>2, <2>3, SmallerSet
  <2> QED BY <2>4 DEF A, C, FewFound
<1> QED BY <1>3, <1>4

\* What a search knows of the stores it has seen it still knows when there is
\* one more.
LEMMA SearchMoved ==
  ASSUME NEW S, S # {}, NEW T, S \subseteq T, IsFiniteSet(Ever(T)), NEW s, SearchOK(s, S)
  PROVE  SearchOK(s, T)
<1>1. Ever(S) \subseteq Ever(T)
  BY DEF Ever
<1>2. \A x : Always(s, T, x) => Always(s, S, x) /\ x \in Ever(S)
  <2> SUFFICES ASSUME NEW x, Always(s, T, x) PROVE Always(s, S, x) /\ x \in Ever(S)
    OBVIOUS
  <2>1. Always(s, S, x)
    BY DEF Always
  <2>2. PICK h \in S : InScope(s, h, x)
    BY <2>1 DEF Always
  <2> QED BY <2>1, <2>2, InScopeHas DEF Ever
<1>3. \A x : Worded(s, T, x) => Worded(s, S, x)
  BY DEF Worded
<1>4. (FewNamed(s, T) => FewNamed(s, S)) /\ (FewFound(s, T) => FewFound(s, S))
  BY FewMoved DEF SearchOK
<1>5. LookedUp(s, S) => LookedUp(s, T)
  BY DEF LookedUp
<1>6. \A ids : LegOK(ids, S, s.req) => LegOK(ids, T, s.req)
  BY DEF LegOK
<1>7. WordsFound(s, S) => WordsFound(s, T)
  BY <1>2, <1>3, <1>4 DEF WordsFound
<1>8. ItemsOK(s, S) => ItemsOK(s, T)
  <2>1. \A x : WasInScope(s, S, x) => WasInScope(s, T, x)
    BY DEF WasInScope
  <2> QED BY <2>1 DEF ItemsOK
<1>9. NamedFound(s, S) => NamedFound(s, T)
  BY <1>2, <1>4 DEF NamedFound
<1>10. /\ Candidates(s, S) => Candidates(s, T)
       /\ Hydrated(s, S) => Hydrated(s, T)
       /\ Judged(s, S) => Judged(s, T)
  <2>1. WordsKept(s, S) => WordsKept(s, T)
    BY <1>2, <1>3, <1>4 DEF WordsKept
  <2>2. Candidates(s, S) => Candidates(s, T)
    BY <1>8, <1>9, <2>1 DEF Candidates
  <2>3. Hydrated(s, S) => Hydrated(s, T)
    BY <2>1 DEF Hydrated
  <2>4. Judged(s, S) => Judged(s, T)
    BY DEF Judged
  <2> QED BY <2>2, <2>3, <2>4
<1>11. \A x, y : AlwaysBehind(T, s.req, x, y) => AlwaysBehind(S, s.req, x, y)
  BY DEF AlwaysBehind
<1>12. Chosen(s, S) => Chosen(s, T)
  <2> SUFFICES ASSUME Chosen(s, S) PROVE Chosen(s, T)
    OBVIOUS
  <2>1. Suppresses(s) => \A i \in DOMAIN s.items : \E h \in T : ~Replaced(h, s.items[i].id)
    BY DEF Chosen
  <2>2. \A i, j \in DOMAIN s.items : i < j => ~AlwaysBehind(T, s.req, s.items[i].id, s.items[j].id)
    BY <1>11 DEF Chosen
  <2>3. ASSUME ~s.byId, s.req.hybrid, s.lexical, FewFound(s, T), Len(s.items) < s.req.topK,
               NEW x \in Ever(T), Always(s, T, x), Worded(s, T, x),
               Suppresses(s) => \A h \in T : ~Replaced(h, x)
        PROVE  x \in ToSet(Ids(s.items))
    BY <1>2, <1>3, <1>4, <2>3 DEF Chosen
  <2> QED BY <1>8, <1>9, <2>1, <2>2, <2>3 DEF Chosen
<1>13. ToCount(s, S) => ToCount(s, T)
  BY <1>1 DEF ToCount
<1>14. HitsSound(s, S) => HitsSound(s, T)
  <2>1. \A x : WasInScope(s, S, x) => WasInScope(s, T, x)
    BY DEF WasInScope
  <2> QED BY <2>1 DEF HitsSound
<1>15. DoubtsLast(s, S) => DoubtsLast(s, T)
  BY <1>11 DEF DoubtsLast
<1>16. ReasonSound(s, S) => ReasonSound(s, T)
  BY DEF ReasonSound
<1>17. (\E x \in Ever(S), h \in S : ~Has(h, x)) => (\E x \in Ever(T), h \in T : ~Has(h, x))
  BY <1>1
<1> QED
  BY <1>5, <1>6, <1>7, <1>10, <1>12, <1>13, <1>14, <1>15, <1>16, <1>17 DEF SearchOK

-----------------------------------------------------------------------------
(* The look-up by id.                                                      *)

\* The ids of items are in the order of the items.
LEMMA IdsAre ==
  ASSUME NEW items, List(items)
  PROVE  /\ List(Ids(items)) /\ Len(Ids(items)) = Len(items) /\ DOMAIN Ids(items) = DOMAIN items
         /\ \A i \in DOMAIN items : Ids(items)[i] = items[i].id
<1>1. PICK f : f = Ids(items)
  OBVIOUS
<1>2. f = [i \in DOMAIN items |-> items[i].id]
  BY <1>1 DEF Ids
<1>3. PICK n \in Nat : n = Len(items) /\ DOMAIN items = 1..n
  BY ListOf
<1>4. List(f) /\ Len(f) = n
  BY <1>2, <1>3, ListFrom
<1> QED BY <1>1, <1>2, <1>3, <1>4

\* Ids in their order are those ids, each once.
LEMMA SortedIdsAre ==
  ASSUME NEW B \in SUBSET ToSet(IdOrder)
  PROVE  List(SortedIds(B)) /\ Distinct(SortedIds(B)) /\ ToSet(SortedIds(B)) = B
<1> DEFINE K == {i \in DOMAIN IdOrder : IdOrder[i] \in B}
<1>1. List(IdOrder) /\ Distinct(IdOrder)
  BY SearchAssumption, ListIs DEF Distinct
<1>2. PICK f : f = SortedIds(B)
  OBVIOUS
<1>3. f = [n \in DOMAIN Ascending(K) |-> IdOrder[Ascending(K)[n]]]
  BY <1>2 DEF SortedIds, Filtered
<1>4. /\ \A i \in K : IdOrder[i] \in B
      /\ \A x \in B : \E i \in K : IdOrder[i] = x
      /\ K \subseteq DOMAIN IdOrder
  BY DEF ToSet
<1> HIDE DEF K
<1>5. List(f) /\ Picks(f, IdOrder, K)
  BY <1>1, <1>3, <1>4, FilterPicks
<1>6. Distinct(f)
  BY <1>1, <1>4, <1>5, PickedDistinct
<1>7. /\ \A i \in DOMAIN f : f[i] \in B
      /\ \A x \in B : \E i \in DOMAIN f : f[i] = x
  BY <1>4, <1>5, PickedIs
<1>8. ToSet(f) = B
  BY <1>7 DEF ToSet
<1> QED BY <1>2, <1>5, <1>6, <1>8

\* The same question, of what s has become.
LEMMA SameSearch ==
  ASSUME NEW s, NEW n, n.req = s.req, n.byId = s.byId
  PROVE  /\ \A h, x : InScope(n, h, x) <=> InScope(s, h, x)
         /\ \A S, x : WasInScope(n, S, x) <=> WasInScope(s, S, x)
         /\ \A S, x : Always(n, S, x) <=> Always(s, S, x)
         /\ \A S, x : Worded(n, S, x) <=> Worded(s, S, x)
         /\ \A S : FewNamed(n, S) <=> FewNamed(s, S)
         /\ \A S : FewFound(n, S) <=> FewFound(s, S)
         /\ Suppresses(n) <=> Suppresses(s)
<1>1. \A h, x : InScope(n, h, x) <=> InScope(s, h, x)
  BY DEF InScope
<1>2. \A S, x : Always(n, S, x) <=> Always(s, S, x)
  BY <1>1 DEF Always
<1>3. \A S, x : Worded(n, S, x) <=> Worded(s, S, x)
  BY DEF Worded
<1>4. ASSUME NEW S PROVE FewNamed(n, S) <=> FewNamed(s, S)
  <2>1. {x \in Ever(S) : \E h \in S : InScope(n, h, x)} = {x \in Ever(S) : \E h \in S : InScope(s, h, x)}
    BY <1>1
  <2> QED BY <2>1 DEF FewNamed
<1>5. \A S : FewFound(n, S) <=> FewFound(s, S)
  BY DEF FewFound
<1>6. Suppresses(n) <=> Suppresses(s)
  BY DEF Suppresses
<1>7. \A S, x : WasInScope(n, S, x) <=> WasInScope(s, S, x)
  BY <1>1 DEF WasInScope
<1> QED BY <1>1, <1>2, <1>3, <1>4, <1>5, <1>6, <1>7

\* What a step of process p has to show for its search.
SearchGoesOn(p) == \E n : Goto(p, n) /\ SearchOK(n, saw[p])

\* A leg that names nothing.
LEMMA Nothing ==
  /\ List(<<>>) /\ Distinct(<<>>) /\ Ids(<<>>) = <<>>
  /\ \A S, req : LegOK(<<>>, S, req)
<1>1. List(<<>>) /\ DOMAIN <<>> = {}
  BY DEF List
<1>2. Distinct(<<>>)
  BY <1>1 DEF Distinct
<1>3. Ids(<<>>) = <<>>
  BY DEF Ids
<1>4. ToSet(<<>>) = {}
  BY <1>1 DEF ToSet
<1>5. \A S, req : LegOK(<<>>, S, req)
  BY <1>1, <1>2, <1>4 DEF LegOK
<1> QED BY <1>1, <1>2, <1>3, <1>5

\* A query that is no id, or an unknown one, goes on to the words.
LEMMA AskMisses ==
  ASSUME NEW s, NEW S, SearchOK(s, S), s.pc = "ask",
         IdShaped(s.req.query) => \E h \in S : \A x \in DOMAIN h.th : ~InScopeById(h, x, s.req),
         NEW n, n = [s EXCEPT !.pc = "embed"]
  PROVE  SearchOK(n, S)
<1>1. SearchRecord(s) /\ s.req.topK \in 1..MaxTopK /\ s = Fresh(s.req)
  BY DEF SearchOK
<1>2. s.byId = FALSE /\ s.vec = <<>> /\ s.bm = <<>> /\ s.primed = <<>> /\ s.ambiguous = FALSE
  <2>1. PICK req : req = s.req
    OBVIOUS
  <2>2. s = Fresh(req)
    BY <1>1, <2>1
  <2> QED BY <2>2 DEF Fresh
<1>3. n = [pc |-> "embed", req |-> s.req, byId |-> s.byId, ambiguous |-> s.ambiguous,
           degraded |-> s.degraded, lexical |-> s.lexical, vec |-> s.vec, bm |-> s.bm,
           items |-> s.items, matched |-> s.matched, dropped |-> s.dropped, todo |-> s.todo,
           out |-> s.out, primed |-> s.primed, chain |-> s.chain]
  BY <1>1 DEF SearchRecord
<1>4. /\ n.pc = "embed" /\ n.req = s.req /\ n.byId = FALSE /\ n.vec = <<>> /\ n.bm = <<>>
      /\ n.primed = <<>> /\ n.ambiguous = FALSE /\ SearchRecord(n)
  BY <1>2, <1>3 DEF SearchRecord
<1>5. LookedUp(n, S)
  BY <1>4 DEF LookedUp
<1> QED BY <1>1, <1>4, <1>5, Nothing DEF SearchOK

\* What a look-up by id knows.
LEMMA AskSound ==
  ASSUME NEW p, Ask(p), g \in saw[p], Tables(g), IsFiniteSet(Ever(saw[p])), SearchOK(search[p], saw[p])
  PROVE  SearchGoesOn(p)
<1> DEFINE s == search[p]
           S == saw[p]
           B == Beginning(g, s.req)
           hit == IF IdShaped(s.req.query) THEN Addressed(g, s.req) ELSE <<>>
           K == Lesser(s.req.topK, PrefixCap)
           shown == FirstOf(hit, K)
           items == [i \in DOMAIN shown |->
                      [id |-> shown[i], via |-> {"id"}, sim |-> 0, standing |-> "none"]]
           Located(t) == [t EXCEPT !.pc = "replaces", !.byId = TRUE, !.ambiguous = Len(hit) > 1,
                                 !.items = items]
<1>1. s.pc = "ask" /\ SearchOK(s, S) /\ SearchRecord(s) /\ s.req.topK \in 1..MaxTopK /\ s = Fresh(s.req)
  BY DEF Ask, At, SearchOK
<1>2. Goto(p, IF hit = <<>> THEN [s EXCEPT !.pc = "embed"] ELSE Located(s))
  BY DEF Ask
<1>3. ASSUME IdShaped(s.req.query)
      PROVE  /\ \A x : x \in B <=> x \in DOMAIN g.th /\ InScopeById(g, x, s.req)
             /\ B \subseteq ToSet(IdOrder) /\ IsFiniteSet(B)
             /\ hit = FirstOf(SortedIds(B), Lesser(s.req.topK + 1, PrefixCap))
  <2>1. B \subseteq Named[s.req.query].ids /\ B \subseteq DOMAIN g.th
    BY DEF Beginning, Has
  <2>2. B \subseteq ToSet(IdOrder)
    BY <1>3, <2>1, SearchAssumption DEF IdShaped
  <2>3. IsFiniteSet(B)
    BY <2>1, FS_Subset DEF Tables
  <2>4. \A x : x \in B <=> x \in DOMAIN g.th /\ InScopeById(g, x, s.req)
    BY DEF Beginning, InScopeById, Has
  <2>5. hit = FirstOf(SortedIds(B), Lesser(s.req.topK + 1, PrefixCap))
    BY <1>3 DEF Addressed
  <2> QED BY <2>2, <2>3, <2>4, <2>5
<1>4. /\ K \in Nat \ {0} /\ K <= s.req.topK /\ Lesser(s.req.topK + 1, PrefixCap) \in Nat
      /\ Lesser(s.req.topK + 1, PrefixCap) > 1 /\ K <= Lesser(s.req.topK + 1, PrefixCap)
  BY <1>1, WindowIs
<1>5. S = saw[p] /\ g \in S /\ IsFiniteSet(Ever(S))
  OBVIOUS
<1> HIDE DEF s, S, B, hit, K, shown, items, Located
<1>6. PICK ids : ids = SortedIds(B)
  OBVIOUS
<1>7. PICK k \in Nat : k = Lesser(s.req.topK + 1, PrefixCap) /\ k > 1 /\ K <= k
  BY <1>4
<1>8. ASSUME IdShaped(s.req.query)
      PROVE  /\ List(ids) /\ Distinct(ids) /\ ToSet(ids) = B
             /\ List(hit) /\ Len(hit) <= k /\ Distinct(hit) /\ ToSet(hit) \subseteq B
             /\ (Len(ids) <= k \/ Len(hit) < k) => hit = ids
  <2>1. List(ids) /\ Distinct(ids) /\ ToSet(ids) = B
    BY <1>3, <1>6, <1>8, SortedIdsAre
  <2>2. hit = FirstOf(ids, k)
    BY <1>3, <1>6, <1>7, <1>8
  <2> QED BY <2>1, <2>2, FirstKept
<1>9. CASE hit = <<>>
  <2>1. ASSUME IdShaped(s.req.query)
        PROVE  \A x \in DOMAIN g.th : ~InScopeById(g, x, s.req)
    <3>1. hit = ids
      BY <1>7, <1>8, <1>9, <2>1
    <3>2. B = {}
      BY <1>8, <1>9, <2>1, <3>1 DEF ToSet
    <3> QED BY <1>3, <2>1, <3>2
  <2>2. PICK n : n = [s EXCEPT !.pc = "embed"] /\ Goto(p, n)
    BY <1>2, <1>9
  <2>3. SearchOK(n, S)
    BY <1>1, <1>5, <2>1, <2>2, AskMisses
  <2> QED BY <1>5, <2>2, <2>3 DEF SearchGoesOn
<1>10. CASE hit # <<>>
  <2>1. IdShaped(s.req.query)
    BY <1>10 DEF hit
  <2>2. PICK f : f = shown
    OBVIOUS
  <2>3. /\ List(f) /\ Len(f) <= K /\ ToSet(f) \subseteq ToSet(hit) /\ Distinct(f)
        /\ (Len(hit) <= K \/ Len(f) < K) => f = hit
    BY <1>4, <1>8, <2>1, <2>2, FirstKept DEF shown
  <2>4. f # <<>>
    BY <1>4, <1>10, <2>3
  <2>5. PICK n : n = Located(s) /\ Goto(p, n)
    BY <1>2, <1>10
  <2>6. n = [pc |-> "replaces", req |-> s.req, byId |-> TRUE, ambiguous |-> Len(hit) > 1,
             degraded |-> s.degraded, lexical |-> s.lexical, vec |-> s.vec, bm |-> s.bm,
             items |-> items, matched |-> s.matched, dropped |-> s.dropped, todo |-> s.todo,
             out |-> s.out, primed |-> s.primed, chain |-> s.chain]
    BY <1>1, <2>5 DEF SearchRecord, Located
  <2>7. /\ n.pc = "replaces" /\ n.req = s.req /\ n.byId = TRUE /\ n.ambiguous = (Len(hit) > 1)
        /\ n.items = items /\ n.primed = s.primed /\ SearchRecord(n)
    BY <2>6 DEF SearchRecord
  <2>8. s.primed = <<>>
    BY <1>1 DEF SearchOK
  <2>9. /\ DOMAIN items = DOMAIN f
        /\ \A i \in DOMAIN f : items[i] = [id |-> f[i], via |-> {"id"}, sim |-> 0, standing |-> "none"]
        /\ items = [i \in DOMAIN f |-> items[i]]
    BY <2>2 DEF items
  <2>10. List(items) /\ Len(items) = Len(f)
    BY <2>3, <2>9, ListOf, ListFrom
  <2>11. \A i \in DOMAIN items : ItemRecord(items[i]) /\ items[i].id = f[i]
    BY <2>9 DEF ItemRecord
  <2>12. Ids(items) = f
    <3>1. Ids(items) = [i \in DOMAIN f |-> f[i]]
      BY <2>9, <2>11 DEF Ids
    <3> QED BY <2>3, <3>1 DEF List
  <2>13. \A h, x : InScope(n, h, x) <=> InScopeById(h, x, s.req)
    BY <2>7 DEF InScope
  <2>14. ItemsOK(n, S)
    <3>1. \A i \in DOMAIN items : items[i].id \in B
      BY <1>8, <2>1, <2>3, <2>9, <2>11, ListOf
    <3>2. \A i \in DOMAIN items : InScope(n, g, items[i].id)
      BY <1>3, <2>1, <2>13, <3>1
    <3>3. \A i \in DOMAIN items : WasInScope(n, S, items[i].id)
      BY <1>5, <2>7, <3>2 DEF WasInScope
    <3> QED BY <2>3, <2>7, <2>10, <2>11, <2>12, <3>3 DEF ItemsOK, ItemsListed
  <2>15. NamedFound(n, S)
    <3> SUFFICES ASSUME FewNamed(n, S), NEW x \in Ever(S), Always(n, S, x) PROVE x \in ToSet(f)
      BY <2>7, <2>12 DEF NamedFound
    <3> DEFINE All == {y \in Ever(S) : \E h \in S : InScope(n, h, y)}
    <3>1. B \subseteq All /\ All \subseteq Ever(S)
      BY <1>3, <1>5, <2>1, <2>13 DEF Ever
    <3>2. IsFiniteSet(All) /\ Cardinality(All) <= K
      BY <1>5, <2>7, <3>1, FS_Subset DEF FewNamed, K
    <3> HIDE DEF All
    <3>3. Cardinality(B) <= K
      BY <1>4, <3>1, <3>2, SmallerSet
    <3>4. Len(ids) <= Cardinality(B)
      BY <1>3, <1>8, <2>1, DistinctFit
    <3>5. Len(ids) \in Nat /\ Cardinality(B) \in Nat
      BY <1>3, <1>8, <2>1, ListOf, FS_CardinalityType
    <3>6. Len(ids) <= K /\ Len(ids) <= k
      BY <1>4, <1>7, <3>3, <3>4, <3>5
    <3>7. f = ids
      BY <1>8, <2>1, <2>3, <3>6
    <3>8. x \in B
      BY <1>3, <1>5, <2>1, <2>13, InScopeHas DEF Always
    <3> QED BY <1>8, <2>1, <3>7, <3>8
  <2>16. Candidates(n, S)
    <3>1. items # <<>>
      BY <2>4, <2>9
    <3>2. Len(items) <= s.req.topK
      BY <1>1, <1>4, <2>3, <2>10, ListOf
    <3> QED BY <2>7, <2>14, <2>15, <3>1, <3>2 DEF Candidates, WordsKept
  <2>17. LookedUp(n, S)
    <3>1. SUFFICES ASSUME ~(Len(hit) > 1) PROVE OnlyOneById(g, s.req)
      BY <1>5, <2>7 DEF LookedUp
    <3>2. List(hit) /\ Len(hit) \in Nat
      BY <1>8, <2>1, ListOf
    <3>3. Len(hit) # 0
      BY <1>10, <3>2 DEF List
    <3>4. Len(hit) = 1
      <4>1. PICK m \in Nat : m = Len(hit)
        BY <3>2
      <4> QED BY <3>1, <3>3, <4>1
    <3>5. hit = ids
      BY <1>7, <1>8, <2>1, <3>4
    <3>6. DOMAIN hit = 1..1
      BY <3>2, <3>4, ListOf
    <3>7. PICK x : x = hit[1]
      OBVIOUS
    <3>8. ToSet(hit) = {x}
      BY <3>6, <3>7 DEF ToSet
    <3>9. B = {x}
      BY <1>8, <2>1, <3>5, <3>8
    <3>10. x \in DOMAIN g.th /\ \A y \in DOMAIN g.th : InScopeById(g, y, s.req) <=> y = x
      BY <1>3, <2>1, <3>9
    <3> QED BY <3>10 DEF OnlyOneById
  <2>18. SearchOK(n, S)
    BY <1>1, <2>7, <2>8, <2>16, <2>17 DEF SearchOK
  <2> QED BY <1>5, <2>5, <2>18 DEF SearchGoesOn
<1> QED BY <1>9, <1>10

-----------------------------------------------------------------------------
(* The legs.                                                               *)

\* A search that has its legs, or one of them, or none yet.
LEMMA LaterLeg ==
  ASSUME NEW s, NEW S, SearchOK(s, S), s.pc \in {"embed", "vec", "bm"},
         NEW pc \in {"vec", "bm", "hydrate"}, NEW degraded, NEW lexical, NEW v, NEW b,
         List(v), LegOK(Ids(v), S, s.req), LegOK(b, S, s.req),
         NEW n,
         n = [pc |-> pc, req |-> s.req, byId |-> s.byId, ambiguous |-> s.ambiguous,
              degraded |-> degraded, lexical |-> lexical, vec |-> v, bm |-> b,
              items |-> s.items, matched |-> s.matched, dropped |-> s.dropped, todo |-> s.todo,
              out |-> s.out, primed |-> s.primed, chain |-> s.chain],
         pc = "hydrate" => WordsFound(n, S)
  PROVE  SearchOK(n, S)
<1>1. /\ n.pc = pc /\ n.req = s.req /\ n.byId = s.byId /\ n.vec = v /\ n.bm = b
      /\ n.primed = s.primed /\ n.ambiguous = s.ambiguous /\ SearchRecord(n)
  BY DEF SearchRecord
<1>2. /\ s.req.topK \in 1..MaxTopK /\ LookedUp(s, S) /\ s.primed = <<>> /\ ~s.byId
  BY DEF SearchOK
<1>3. LookedUp(n, S)
  BY <1>1, <1>2 DEF LookedUp
<1> QED BY <1>1, <1>2, <1>3 DEF SearchOK

\* Those of a list of different things that pass the test, and no more than k.
LEMMA PassingIs ==
  ASSUME NEW all, List(all), Distinct(all), NEW l \in Nat, NEW k \in Nat, NEW req, NEW h,
         NEW first, first = FirstOf(all, l), NEW K \in SUBSET DOMAIN first,
         \A i \in DOMAIN first : i \in K <=> Passes(h, first[i], req),
         NEW fl, List(fl), Picks(fl, first, K), NEW kept, kept = FirstOf(fl, k)
  PROVE  /\ List(kept) /\ Distinct(kept)
         /\ \A x \in ToSet(kept) : Passes(h, x, req) /\ x \in ToSet(all)
         /\ \A B : (/\ Len(all) <= l /\ IsFiniteSet(B) /\ Cardinality(B) <= k
                    /\ \A x \in ToSet(all) : Passes(h, x, req) => x \in B) =>
              \A x \in ToSet(all) : Passes(h, x, req) => x \in ToSet(kept)
<1>1. /\ List(first) /\ Distinct(first) /\ ToSet(first) \subseteq ToSet(all)
      /\ Len(all) <= l => first = all
  BY FirstKept
<1>2. Distinct(fl)
  BY <1>1, PickedDistinct
<1>3. /\ \A i \in DOMAIN fl : \E j \in K : fl[i] = first[j]
      /\ \A j \in K : \E i \in DOMAIN fl : fl[i] = first[j]
  BY PickedIs
<1>4. \A x \in ToSet(fl) : Passes(h, x, req) /\ x \in ToSet(first)
  BY <1>3 DEF ToSet
<1>5. \A x \in ToSet(first) : Passes(h, x, req) => x \in ToSet(fl)
  <2> SUFFICES ASSUME NEW i \in DOMAIN first, Passes(h, first[i], req) PROVE first[i] \in ToSet(fl)
    BY DEF ToSet
  <2>1. i \in K
    OBVIOUS
  <2> QED BY <1>3, <2>1 DEF ToSet
<1>6. /\ List(kept) /\ Distinct(kept) /\ ToSet(kept) \subseteq ToSet(fl)
      /\ Len(fl) <= k => kept = fl
  BY <1>2, FirstKept
<1>7. ASSUME NEW B, Len(all) <= l, IsFiniteSet(B), Cardinality(B) <= k,
             \A x \in ToSet(all) : Passes(h, x, req) => x \in B
      PROVE  \A x \in ToSet(all) : Passes(h, x, req) => x \in ToSet(kept)
  <2>1. first = all
    BY <1>1, <1>7
  <2>2. ToSet(fl) \subseteq B
    BY <1>4, <1>7, <2>1
  <2>3. Len(fl) <= Cardinality(B) /\ Len(fl) \in Nat /\ Cardinality(B) \in Nat
    BY <1>2, <1>7, <2>2, DistinctFit, ListOf, FS_CardinalityType
  <2>4. kept = fl
    BY <1>6, <1>7, <2>3
  <2> QED BY <1>5, <2>1, <2>4
<1> QED BY <1>1, <1>4, <1>6, <1>7

\* The leg of the vectors names what is in scope.
LEMMA VecLegSound ==
  ASSUME NEW p, VecLeg(p), g \in saw[p], IsFiniteSet(DOMAIN vec), SearchOK(search[p], saw[p])
  PROVE  SearchGoesOn(p)
<1> DEFINE s == search[p]
           S == saw[p]
           Near(x) == Similarity(s.req.query, vec[x])
           first(near) == FirstOf(near, Pool(s.req))
           K(near) == {i \in DOMAIN first(near) : Passes(g, first(near)[i], s.req)}
           fl(near) == [n \in DOMAIN Ascending(K(near)) |-> first(near)[Ascending(K(near))[n]]]
           kept(near) == FirstOf(fl(near), CandidateK(s.req))
           v(near) == [i \in DOMAIN kept(near) |-> [id |-> kept(near)[i], sim |-> Near(kept(near)[i])]]
<1>1. /\ s.pc = "vec" /\ SearchOK(s, S) /\ SearchRecord(s) /\ s.req.topK \in 1..MaxTopK
      /\ LegOK(s.bm, S, s.req) /\ S = saw[p] /\ g \in S
  BY DEF VecLeg, At, SearchOK
<1>2. PICK near \in Ranked(DOMAIN vec, Near) : Goto(p, [s EXCEPT !.pc = AfterVec(s), !.vec = v(near)])
  BY DEF VecLeg, Filtered
<1>3. List(near) /\ Distinct(near)
  <2>1. near \in SetToSeqs(DOMAIN vec)
    BY <1>2 DEF Ranked
  <2>2. near \in Seq(DOMAIN vec) /\ \A i, j \in DOMAIN near : i # j => near[i] # near[j]
    BY <2>1, OrderIs
  <2> QED BY <2>2, ListIs DEF Distinct
<1>4. Pool(s.req) \in Nat /\ CandidateK(s.req) \in Nat
  BY <1>1, WindowIs
<1>5. PICK f : f = kept(near)
  OBVIOUS
<1>6. List(f) /\ Distinct(f) /\ \A x \in ToSet(f) : Passes(g, x, s.req)
  <2>1. PICK f1 : f1 = first(near)
    OBVIOUS
  <2>2. PICK k1 : k1 = K(near)
    OBVIOUS
  <2>3. PICK f2 : f2 = fl(near)
    OBVIOUS
  <2>4. /\ f1 = FirstOf(near, Pool(s.req)) /\ f = FirstOf(f2, CandidateK(s.req))
        /\ k1 \subseteq DOMAIN f1 /\ \A i \in DOMAIN f1 : i \in k1 <=> Passes(g, f1[i], s.req)
        /\ f2 = [n \in DOMAIN Ascending(k1) |-> f1[Ascending(k1)[n]]]
    BY <1>5, <2>1, <2>2, <2>3
  <2>5. List(f1)
    BY <1>3, <1>4, <2>4, FirstKept
  <2>6. List(f2) /\ Picks(f2, f1, k1)
    BY <2>4, <2>5, FilterPicks
  <2> HIDE DEF s, S, v, kept, Near, fl, K, first
  <2> QED BY <1>3, <1>4, <2>4, <2>6, PassingIs
<1>7. PICK u : u = v(near)
  OBVIOUS
<1>8. u = [i \in DOMAIN f |-> [id |-> f[i], sim |-> Near(f[i])]]
  BY <1>5, <1>7
<1> HIDE DEF s, S, v, kept, Near, fl, K, first
<1>9. List(u) /\ Ids(u) = f
  <2>1. DOMAIN u = DOMAIN f /\ \A i \in DOMAIN f : u[i].id = f[i]
    BY <1>8
  <2>2. List(u)
    BY <1>6, <1>8, <2>1, ListOf, ListFrom
  <2>3. Ids(u) = [i \in DOMAIN f |-> f[i]]
    BY <2>1 DEF Ids
  <2> QED BY <1>6, <2>2, <2>3 DEF List
<1>10. LegOK(Ids(u), S, s.req)
  BY <1>1, <1>6, <1>9 DEF LegOK
<1>11. PICK n : n = [s EXCEPT !.pc = AfterVec(s), !.vec = u] /\ Goto(p, n)
  BY <1>2, <1>7
<1>12. PICK pc \in {"bm", "hydrate"} : pc = AfterVec(s) /\ (pc = "hydrate" => ~s.req.hybrid)
  BY DEF AfterVec
<1>13. n = [pc |-> pc, req |-> s.req, byId |-> s.byId, ambiguous |-> s.ambiguous,
            degraded |-> s.degraded, lexical |-> s.lexical, vec |-> u, bm |-> s.bm,
            items |-> s.items, matched |-> s.matched, dropped |-> s.dropped, todo |-> s.todo,
            out |-> s.out, primed |-> s.primed, chain |-> s.chain]
  BY <1>1, <1>11, <1>12 DEF SearchRecord
<1>14. n.req = s.req
  BY <1>13
<1>15. pc = "hydrate" => WordsFound(n, S)
  BY <1>12, <1>14 DEF WordsFound
<1>16. SearchOK(n, S)
  BY <1>1, <1>9, <1>10, <1>12, <1>13, <1>15, LaterLeg
<1> QED BY <1>1, <1>11, <1>16 DEF SearchGoesOn

\* And the leg of the words, which misses nothing where few are in scope.
LEMMA BmLegSound ==
  ASSUME NEW p, BmLeg(p), g \in saw[p], Tables(g), IsFiniteSet(Ever(saw[p])), SearchOK(search[p], saw[p])
  PROVE  SearchGoesOn(p)
<1> DEFINE s == search[p]
           S == saw[p]
           Score(x) == Match(s.req.query, g.th[x].content)
           M == {x \in DOMAIN g.th : Score(x) > 0}
           L == Lesser(PoolMax, 3 * Pool(s.req))
           first(best) == FirstOf(best, L)
           K(best) == {i \in DOMAIN first(best) : Passes(g, first(best)[i], s.req)}
           fl(best) == [n \in DOMAIN Ascending(K(best)) |-> first(best)[Ascending(K(best))[n]]]
           kept(best) == FirstOf(fl(best), Pool(s.req))
           A == {x \in Ever(S) : \E h \in S : Has(h, x) /\ Match(s.req.query, h.th[x].content) > 0}
           B == {x \in Ever(S) : \E h \in S : Passes(h, x, s.req)}
<1>1. /\ s.pc = "bm" /\ SearchOK(s, S) /\ SearchRecord(s) /\ s.req.topK \in 1..MaxTopK
      /\ List(s.vec) /\ LegOK(Ids(s.vec), S, s.req) /\ S = saw[p] /\ g \in S /\ ~s.byId
      /\ IsFiniteSet(Ever(S))
  BY DEF BmLeg, At, SearchOK
<1>2. PICK best \in Ranked(M, Score) : Goto(p, [s EXCEPT !.pc = "hydrate", !.bm = kept(best)])
  BY DEF BmLeg, Filtered
<1>3. IsFiniteSet(M)
  BY FS_Subset DEF Tables
<1>4. List(best) /\ Distinct(best) /\ ToSet(best) = M
  <2>1. best \in SetToSeqs(M)
    BY <1>2 DEF Ranked
  <2> HIDE DEF M
  <2>2. /\ best \in Seq(M)
        /\ \A i, j \in DOMAIN best : i # j => best[i] # best[j]
        /\ \A x \in M : \E i \in DOMAIN best : best[i] = x
    BY <1>3, <2>1, OrderIs
  <2>3. List(best) /\ ToSet(best) \subseteq M
    BY <2>2, ListIs
  <2>4. M \subseteq ToSet(best)
    BY <2>2 DEF ToSet
  <2> QED BY <2>2, <2>3, <2>4 DEF Distinct
<1>5. Pool(s.req) \in Nat /\ L \in Nat /\ Window(s.req) \in Nat /\ Window(s.req) <= Pool(s.req)
  BY <1>1, WindowIs
<1>6. PICK f1 : f1 = first(best)
  OBVIOUS
<1>7. PICK k1 : k1 = K(best)
  OBVIOUS
<1>8. PICK f2 : f2 = fl(best)
  OBVIOUS
<1>9. PICK f : f = kept(best)
  OBVIOUS
<1>10. /\ f1 = FirstOf(best, L) /\ f = FirstOf(f2, Pool(s.req))
       /\ k1 \subseteq DOMAIN f1 /\ \A i \in DOMAIN f1 : i \in k1 <=> Passes(g, f1[i], s.req)
       /\ f2 = [n \in DOMAIN Ascending(k1) |-> f1[Ascending(k1)[n]]]
  BY <1>6, <1>7, <1>8, <1>9
<1>11. Goto(p, [s EXCEPT !.pc = "hydrate", !.bm = f])
  BY <1>2, <1>9
<1>12. M \subseteq A /\ A \subseteq Ever(S) /\ B \subseteq Ever(S)
  BY <1>1 DEF Ever, Has
<1>13. IsFiniteSet(A) /\ IsFiniteSet(B)
  BY <1>1, <1>12, FS_Subset
<1>14. FewFound(s, S) => Cardinality(A) <= L /\ Cardinality(B) <= Window(s.req)
  BY DEF FewFound
<1>15. \A x : Passes(g, x, s.req) => x \in B
  BY <1>1 DEF Ever, Passes, Has
<1>16. \A x \in Ever(S) : (Passes(g, x, s.req) /\ Worded(s, S, x)) => x \in M
  BY <1>1 DEF Passes, Has, Worded
<1> HIDE DEF s, S, Score, M, L, first, K, fl, kept, A, B
<1>17. List(f1)
  BY <1>4, <1>5, <1>10, FirstKept
<1>18. List(f2) /\ Picks(f2, f1, k1)
  BY <1>10, <1>17, FilterPicks
<1>19. /\ List(f) /\ Distinct(f)
       /\ \A x \in ToSet(f) : Passes(g, x, s.req)
       /\ (Len(best) <= L /\ Cardinality(B) <= Pool(s.req)) =>
            \A x \in ToSet(best) : Passes(g, x, s.req) => x \in ToSet(f)
  <2>1. /\ List(f) /\ Distinct(f)
        /\ \A x \in ToSet(f) : Passes(g, x, s.req) /\ x \in ToSet(best)
        /\ \A C : (/\ Len(best) <= L /\ IsFiniteSet(C) /\ Cardinality(C) <= Pool(s.req)
                   /\ \A x \in ToSet(best) : Passes(g, x, s.req) => x \in C) =>
             \A x \in ToSet(best) : Passes(g, x, s.req) => x \in ToSet(f)
    BY <1>4, <1>5, <1>10, <1>18, PassingIs
  <2> QED BY <1>13, <1>15, <2>1
<1>20. LegOK(f, S, s.req)
  BY <1>1, <1>19 DEF LegOK
<1>21. FewFound(s, S) => \A x \in M : Passes(g, x, s.req) => x \in ToSet(f)
  <2> SUFFICES ASSUME FewFound(s, S) PROVE \A x \in M : Passes(g, x, s.req) => x \in ToSet(f)
    OBVIOUS
  <2>1. Cardinality(M) <= L
    BY <1>5, <1>12, <1>13, <1>14, SmallerSet
  <2>2. Len(best) <= Cardinality(M)
    BY <1>3, <1>4, DistinctFit
  <2>3. Len(best) \in Nat /\ Cardinality(M) \in Nat /\ Cardinality(B) \in Nat
    BY <1>3, <1>4, <1>13, ListOf, FS_CardinalityType
  <2>4. Len(best) <= L /\ Cardinality(B) <= Pool(s.req)
    BY <1>5, <1>14, <2>1, <2>2, <2>3
  <2> QED BY <1>4, <1>19, <2>4
<1>22. PICK n : n = [s EXCEPT !.pc = "hydrate", !.bm = f] /\ Goto(p, n)
  BY <1>11
<1>23. n = [pc |-> "hydrate", req |-> s.req, byId |-> s.byId, ambiguous |-> s.ambiguous,
            degraded |-> s.degraded, lexical |-> s.lexical, vec |-> s.vec, bm |-> f,
            items |-> s.items, matched |-> s.matched, dropped |-> s.dropped, todo |-> s.todo,
            out |-> s.out, primed |-> s.primed, chain |-> s.chain]
  BY <1>1, <1>22 DEF SearchRecord
<1>24. n.req = s.req /\ n.byId = s.byId /\ n.bm = f
  BY <1>23
<1>25. WordsFound(n, S)
  <2> SUFFICES ASSUME FewFound(n, S), NEW x \in Ever(S), Always(n, S, x), Worded(n, S, x)
               PROVE  x \in ToSet(f)
    BY <1>24 DEF WordsFound
  <2>1. FewFound(s, S) /\ Always(s, S, x) /\ Worded(s, S, x)
    BY <1>24, SameSearch
  <2>2. Passes(g, x, s.req)
    BY <1>1, <2>1, InScopeHas DEF Always
  <2> QED BY <1>16, <1>21, <2>1, <2>2
<1>26. SearchOK(n, S)
  BY <1>1, <1>20, <1>23, <1>25, LaterLeg
<1> QED BY <1>1, <1>22, <1>26 DEF SearchGoesOn

\* Going on to a leg, or without one.
LEMMA LegSteps ==
  ASSUME NEW p, Embedded(p) \/ NoEmbedding(p) \/ LegFails(p), SearchOK(search[p], saw[p])
  PROVE  SearchGoesOn(p)
<1> DEFINE s == search[p]
           S == saw[p]
<1>1. /\ s.pc \in {"embed", "vec", "bm"} /\ SearchOK(s, S) /\ SearchRecord(s)
      /\ List(s.vec) /\ LegOK(Ids(s.vec), S, s.req) /\ LegOK(s.bm, S, s.req) /\ S = saw[p]
  BY DEF Embedded, NoEmbedding, LegFails, At, SearchOK
<1>2. PICK n : /\ Goto(p, n)
               /\ \/ n = [s EXCEPT !.pc = "vec"]
                  \/ n = [s EXCEPT !.pc = AfterVec(s), !.degraded = TRUE]
                  \/ n = [s EXCEPT !.pc = "hydrate", !.degraded = TRUE, !.lexical = FALSE]
  BY DEF Embedded, NoEmbedding, LegFails
<1> HIDE DEF s, S
<1>3. PICK after : /\ after = AfterVec(s) /\ after \in {"bm", "hydrate"}
                   /\ after = "hydrate" => ~s.req.hybrid
  BY DEF AfterVec
<1> DEFINE Leg(pc, degraded, lexical) ==
             [pc |-> pc, req |-> s.req, byId |-> s.byId, ambiguous |-> s.ambiguous,
              degraded |-> degraded, lexical |-> lexical, vec |-> s.vec, bm |-> s.bm,
              items |-> s.items, matched |-> s.matched, dropped |-> s.dropped, todo |-> s.todo,
              out |-> s.out, primed |-> s.primed, chain |-> s.chain]
<1>4. PICK pc, degraded, lexical :
        /\ n = Leg(pc, degraded, lexical) /\ pc \in {"vec", "bm", "hydrate"}
        /\ pc = "hydrate" => ~s.req.hybrid \/ lexical = FALSE
  <2>1. CASE n = [s EXCEPT !.pc = "vec"]
    <3>1. n = Leg("vec", s.degraded, s.lexical)
      BY <1>1, <2>1 DEF SearchRecord
    <3> HIDE DEF Leg
    <3> QED BY <3>1
  <2>2. CASE n = [s EXCEPT !.pc = AfterVec(s), !.degraded = TRUE]
    <3>1. n = Leg(after, TRUE, s.lexical)
      BY <1>1, <1>3, <2>2 DEF SearchRecord
    <3> HIDE DEF Leg
    <3> QED BY <1>3, <3>1
  <2>3. CASE n = [s EXCEPT !.pc = "hydrate", !.degraded = TRUE, !.lexical = FALSE]
    <3>1. n = Leg("hydrate", TRUE, FALSE)
      BY <1>1, <2>3 DEF SearchRecord
    <3> HIDE DEF Leg
    <3> QED BY <3>1
  <2> QED BY <1>2, <2>1, <2>2, <2>3
<1>5. n.req = s.req /\ n.lexical = lexical
  BY <1>4
<1>6. pc = "hydrate" => WordsFound(n, S)
  BY <1>4, <1>5 DEF WordsFound
<1>7. SearchOK(n, S)
  BY <1>1, <1>4, <1>6, LaterLeg
<1> QED BY <1>1, <1>2, <1>7 DEF SearchGoesOn

-----------------------------------------------------------------------------
(* Fusion and hydration.                                                   *)

\* Fusing the legs loses nothing of the words where few are in scope.
LEMMA FusedIs ==
  ASSUME NEW s, NEW S, s.req.topK \in 1..MaxTopK, IsFiniteSet(Ever(S)),
         LegOK(Ids(s.vec), S, s.req), LegOK(s.bm, S, s.req), NEW fused \in Fused(s)
  PROVE  /\ LegOK(fused, S, s.req)
         /\ (s.req.hybrid /\ FewFound(s, S)) => ToSet(s.bm) \subseteq ToSet(fused)
<1>1. CASE ~s.req.hybrid
  <2>1. fused = Ids(s.vec)
    BY <1>1 DEF Fused
  <2> QED BY <1>1, <2>1
<1>2. CASE s.req.hybrid
  <2> DEFINE v == ToSet(Ids(s.vec))
             w == ToSet(s.bm)
             B == {x \in Ever(S) : \E h \in S : Passes(h, x, s.req)}
  <2>1. PICK m : m \in SetToSeqs(v \cup w) /\ fused = FirstOf(m, CandidateK(s.req))
    <3>1. PICK m \in RrfMerge(<<Ids(s.vec), s.bm>>) : fused = FirstOf(m, CandidateK(s.req))
      BY <1>2 DEF Fused
    <3>2. m \in SetToSeqs(v \cup w)
      BY <3>1 DEF RrfMerge, Sorted
    <3> QED BY <3>1, <3>2
  <2>2. IsFiniteSet(v) /\ IsFiniteSet(w)
    BY DistinctCount DEF LegOK
  <2>3. v \subseteq B /\ w \subseteq B
    BY DEF LegOK, Ever, Passes, Has
  <2>4. IsFiniteSet(B)
    <3>1. B \subseteq Ever(S)
      OBVIOUS
    <3> QED BY <3>1, FS_Subset
  <2>5. FewFound(s, S) => Cardinality(B) <= Window(s.req)
    BY DEF FewFound
  <2>6. \A x \in B : \E h \in S : Passes(h, x, s.req)
    OBVIOUS
  <2> HIDE DEF v, w, B
  <2>7. IsFiniteSet(v \cup w)
    BY <2>2, FS_Union
  <2>8. List(m) /\ Distinct(m) /\ ToSet(m) \subseteq B /\ w \subseteq ToSet(m)
    <3>1. PICK all : all = v \cup w
      OBVIOUS
    <3>2. /\ m \in Seq(all)
          /\ \A i, j \in DOMAIN m : i # j => m[i] # m[j]
          /\ \A x \in all : \E i \in DOMAIN m : m[i] = x
      <4>1. m \in SetToSeqs(all) /\ IsFiniteSet(all)
        BY <2>1, <2>7, <3>1
      <4> QED BY <4>1, OrderIs
    <3>3. List(m) /\ ToSet(m) \subseteq all
      BY <3>2, ListIs
    <3>4. Distinct(m)
      BY <3>2 DEF Distinct
    <3>5. all \subseteq ToSet(m)
      BY <3>2 DEF ToSet
    <3> QED BY <2>3, <3>1, <3>3, <3>4, <3>5
  <2>9. CandidateK(s.req) = Window(s.req) /\ Window(s.req) \in Nat
    BY WindowIs
  <2>10. /\ List(fused) /\ Distinct(fused) /\ ToSet(fused) \subseteq ToSet(m)
         /\ Len(m) <= Window(s.req) => fused = m
    BY <2>1, <2>8, <2>9, FirstKept
  <2>11. LegOK(fused, S, s.req)
    BY <2>6, <2>8, <2>10 DEF LegOK
  <2>12. FewFound(s, S) => fused = m
    <3> SUFFICES ASSUME FewFound(s, S) PROVE Len(m) <= Window(s.req)
      BY <2>10
    <3>1. Len(m) <= Cardinality(B) /\ Len(m) \in Nat /\ Cardinality(B) \in Nat
      BY <2>4, <2>8, DistinctFit, ListOf, FS_CardinalityType
    <3> QED BY <2>5, <2>9, <3>1
  <2>13. w = ToSet(s.bm)
    BY DEF w
  <2> QED BY <2>8, <2>11, <2>12, <2>13
<1> QED BY <1>1, <1>2

\* The items it makes of the fused ids.
LEMMA HydrateSound ==
  ASSUME NEW p, Hydrate(p), g \in saw[p], IsFiniteSet(Ever(saw[p])), SearchOK(search[p], saw[p])
  PROVE  SearchGoesOn(p)
<1> DEFINE s == search[p]
           S == saw[p]
           Near(x) == {v \in ToSet(s.vec) : v.id = x}
           Sim1(x) == IF Near(x) = {} THEN 0 ELSE (CHOOSE v \in Near(x) : TRUE).sim
           Via(x) == (IF Near(x) = {} THEN {} ELSE {"embedding"})
                       \cup (IF x \in ToSet(s.bm) THEN {"bm25"} ELSE {})
           Item(x) == [id |-> x, standing |-> "none", sim |-> Sim1(x), via |-> Via(x)]
           K(fused) == {i \in DOMAIN fused : Passes(g, fused[i], s.req)}
           kept(fused) == [n \in DOMAIN Ascending(K(fused)) |-> fused[Ascending(K(fused))[n]]]
           items(fused) == [i \in DOMAIN kept(fused) |-> Item(kept(fused)[i])]
           next == IF s.req.tagged THEN "tags" ELSE "replaces"
<1>1. /\ s.pc = "hydrate" /\ SearchOK(s, S) /\ SearchRecord(s) /\ s.req.topK \in 1..MaxTopK
      /\ LegOK(Ids(s.vec), S, s.req) /\ LegOK(s.bm, S, s.req) /\ S = saw[p] /\ g \in S /\ ~s.byId
      /\ IsFiniteSet(Ever(S)) /\ WordsFound(s, S) /\ LookedUp(s, S) /\ s.primed = <<>>
  BY DEF Hydrate, At, SearchOK
<1>2. PICK fused \in Fused(s) : Goto(p, [s EXCEPT !.pc = next, !.items = items(fused)])
  BY DEF Hydrate, Filtered
<1>3. PICK k1 : k1 = K(fused)
  OBVIOUS
<1>4. PICK f : f = kept(fused)
  OBVIOUS
<1>5. PICK its : its = items(fused)
  OBVIOUS
<1>6. /\ k1 \subseteq DOMAIN fused
      /\ \A i \in DOMAIN fused : i \in k1 <=> Passes(g, fused[i], s.req)
      /\ f = [n \in DOMAIN Ascending(k1) |-> fused[Ascending(k1)[n]]]
      /\ its = [i \in DOMAIN f |-> Item(f[i])]
  BY <1>3, <1>4, <1>5
<1>7. PICK n : n = [s EXCEPT !.pc = next, !.items = its] /\ Goto(p, n)
  BY <1>2, <1>5
<1>8. \A x \in ToSet(s.bm) : "bm25" \in Via(x)
  OBVIOUS
<1>9. next \in {"tags", "replaces"} /\ (next = "replaces" => ~s.req.tagged)
  OBVIOUS
<1> HIDE DEF s, S, Near, Sim1, Via, K, kept, items, next
<1>10. /\ LegOK(fused, S, s.req)
       /\ (s.req.hybrid /\ FewFound(s, S)) => ToSet(s.bm) \subseteq ToSet(fused)
  BY <1>1, <1>2, FusedIs
<1>11. List(f) /\ Picks(f, fused, k1) /\ Distinct(f)
  <2>1. List(fused) /\ Distinct(fused)
    BY <1>10 DEF LegOK
  <2>2. List(f) /\ Picks(f, fused, k1)
    BY <1>6, <2>1, FilterPicks
  <2> QED BY <1>6, <2>1, <2>2, PickedDistinct
<1>12. /\ DOMAIN its = DOMAIN f /\ its = [i \in DOMAIN f |-> its[i]]
       /\ \A i \in DOMAIN f : /\ its[i].id = f[i] /\ its[i].via = Via(f[i]) /\ ItemRecord(its[i])
  BY <1>6 DEF ItemRecord
<1> HIDE DEF Item
<1>13. List(its)
  BY <1>11, <1>12, ListOf, ListFrom
<1>14. Ids(its) = f
  <2>1. Ids(its) = [i \in DOMAIN f |-> f[i]]
    BY <1>12 DEF Ids
  <2> QED BY <1>11, <2>1 DEF List
<1>15. n = [pc |-> next, req |-> s.req, byId |-> s.byId, ambiguous |-> s.ambiguous,
            degraded |-> s.degraded, lexical |-> s.lexical, vec |-> s.vec, bm |-> s.bm,
            items |-> its, matched |-> s.matched, dropped |-> s.dropped, todo |-> s.todo,
            out |-> s.out, primed |-> s.primed, chain |-> s.chain]
  BY <1>1, <1>7 DEF SearchRecord
<1>16. /\ n.pc = next /\ n.req = s.req /\ n.byId = s.byId /\ n.ambiguous = s.ambiguous
       /\ n.lexical = s.lexical /\ n.items = its /\ n.primed = s.primed /\ SearchRecord(n)
  BY <1>15 DEF SearchRecord
<1>17. \A i \in DOMAIN its : Passes(g, its[i].id, n.req)
  <2>1. \A i \in DOMAIN its : \E j \in k1 : its[i].id = fused[j]
    BY <1>11, <1>12, PickedIs
  <2> QED BY <1>6, <1>16, <2>1
<1>18. ItemsListed(n)
  BY <1>11, <1>12, <1>13, <1>14, <1>16 DEF ItemsListed
<1>19. ASSUME n.req.hybrid, n.lexical, FewFound(n, S), NEW x \in Ever(S), Always(n, S, x), Worded(n, S, x)
       PROVE  \E i \in DOMAIN its : its[i].id = x /\ "bm25" \in its[i].via
  <2>1. FewFound(s, S) /\ Always(s, S, x) /\ Worded(s, S, x)
    BY <1>16, <1>19, SameSearch
  <2>2. x \in ToSet(s.bm)
    BY <1>1, <1>16, <1>19, <2>1 DEF WordsFound
  <2>3. PICK j \in DOMAIN fused : fused[j] = x
    BY <1>10, <1>16, <1>19, <2>1, <2>2 DEF ToSet
  <2>4. j \in k1
    BY <1>1, <1>6, <2>1, <2>3, InScopeHas DEF Always
  <2>5. PICK i \in DOMAIN f : f[i] = x
    BY <1>11, <2>3, <2>4, PickedIs
  <2> QED BY <1>8, <1>12, <2>2, <2>5
<1>20. WordsKept(n, S)
  BY <1>16, <1>19 DEF WordsKept
<1>21. Hydrated(n, S)
  BY <1>1, <1>16, <1>17, <1>18, <1>20 DEF Hydrated
<1>22. ASSUME next = "replaces" PROVE Candidates(n, S)
  <2>1. \A x : Tagged(g, x, n.req)
    BY <1>9, <1>16, <1>22 DEF Tagged
  <2>2. \A i \in DOMAIN its : WasInScope(n, S, its[i].id)
    BY <1>1, <1>16, <1>17, <2>1 DEF WasInScope
  <2> QED BY <1>1, <1>16, <1>18, <1>20, <2>2 DEF Candidates, ItemsOK, NamedFound
<1>23. LookedUp(n, S)
  BY <1>1, <1>16 DEF LookedUp
<1>24. SearchOK(n, S)
  BY <1>1, <1>9, <1>16, <1>21, <1>22, <1>23 DEF SearchOK
<1> QED BY <1>1, <1>7, <1>24 DEF SearchGoesOn

\* What is picked of items has different ids if the items have.
LEMMA PickedIds ==
  ASSUME NEW items, List(items), Distinct(Ids(items)), NEW K \in SUBSET DOMAIN items,
         NEW f, List(f), Picks(f, items, K)
  PROVE  Distinct(Ids(f))
<1>1. /\ List(Ids(items)) /\ DOMAIN Ids(items) = DOMAIN items
      /\ \A i \in DOMAIN items : Ids(items)[i] = items[i].id
      /\ List(Ids(f)) /\ DOMAIN Ids(f) = DOMAIN f /\ \A i \in DOMAIN f : Ids(f)[i] = f[i].id
  BY IdsAre
<1>2. Picks(Ids(f), Ids(items), K)
  <2>1. PICK a \in [DOMAIN f -> K] :
          /\ \A i, j \in DOMAIN f : i < j => a[i] < a[j]
          /\ \A k \in K : \E i \in DOMAIN f : a[i] = k
          /\ \A i \in DOMAIN f : f[i] = items[a[i]]
    BY DEF Picks
  <2>2. \A i \in DOMAIN f : Ids(f)[i] = Ids(items)[a[i]]
    BY <1>1, <2>1
  <2> QED BY <1>1, <2>1, <2>2 DEF Picks
<1> QED BY <1>1, <1>2, PickedDistinct

\* Of the hydrated items those with the tags.
LEMMA FilterTagsSound ==
  ASSUME NEW p, FilterTags(p), g \in saw[p], SearchOK(search[p], saw[p])
  PROVE  SearchGoesOn(p)
<1> DEFINE s == search[p]
           S == saw[p]
           K == {i \in DOMAIN s.items : Tagged(g, s.items[i].id, s.req)}
           kept == [n \in DOMAIN Ascending(K) |-> s.items[Ascending(K)[n]]]
<1>1. /\ s.pc = "tags" /\ SearchOK(s, S) /\ SearchRecord(s) /\ S = saw[p] /\ g \in S
      /\ Hydrated(s, S) /\ LookedUp(s, S) /\ s.primed = <<>>
  BY DEF FilterTags, At, SearchOK
<1>2. Goto(p, [s EXCEPT !.pc = "replaces", !.items = kept])
  BY DEF FilterTags, Filtered
<1>3. PICK k : k = K
  OBVIOUS
<1>4. PICK f : f = kept
  OBVIOUS
<1>5. /\ k \subseteq DOMAIN s.items
      /\ \A i \in DOMAIN s.items : i \in k <=> Tagged(g, s.items[i].id, s.req)
      /\ f = [n \in DOMAIN Ascending(k) |-> s.items[Ascending(k)[n]]]
  BY <1>3, <1>4
<1>6. PICK n : n = [s EXCEPT !.pc = "replaces", !.items = f] /\ Goto(p, n)
  BY <1>2, <1>4
<1> HIDE DEF s, S, K, kept
<1>7. /\ List(s.items) /\ Distinct(Ids(s.items)) /\ ~s.byId /\ WordsKept(s, S)
      /\ \A i \in DOMAIN s.items : ItemRecord(s.items[i]) /\ \E h \in S : Passes(h, s.items[i].id, s.req)
  BY <1>1 DEF Hydrated, ItemsListed
<1>8. List(f) /\ Picks(f, s.items, k)
  BY <1>5, <1>7, FilterPicks
<1>9. /\ \A i \in DOMAIN f : \E j \in k : f[i] = s.items[j]
      /\ \A j \in k : \E i \in DOMAIN f : f[i] = s.items[j]
  BY <1>8, PickedIs
<1>10. n = [pc |-> "replaces", req |-> s.req, byId |-> s.byId, ambiguous |-> s.ambiguous,
            degraded |-> s.degraded, lexical |-> s.lexical, vec |-> s.vec, bm |-> s.bm,
            items |-> f, matched |-> s.matched, dropped |-> s.dropped, todo |-> s.todo,
            out |-> s.out, primed |-> s.primed, chain |-> s.chain]
  BY <1>1, <1>6 DEF SearchRecord
<1>11. /\ n.pc = "replaces" /\ n.req = s.req /\ n.byId = s.byId /\ n.ambiguous = s.ambiguous
       /\ n.lexical = s.lexical /\ n.items = f /\ n.primed = s.primed /\ SearchRecord(n)
  BY <1>10 DEF SearchRecord
<1>12. ItemsListed(n)
  <2>1. Distinct(Ids(f))
    BY <1>5, <1>7, <1>8, PickedIds
  <2> QED BY <1>5, <1>7, <1>8, <1>9, <1>11, <2>1 DEF ItemsListed
<1>13. \A i \in DOMAIN f : WasInScope(n, S, f[i].id)
  BY <1>1, <1>5, <1>7, <1>9, <1>11 DEF WasInScope
<1>14. WordsKept(n, S)
  <2> SUFFICES ASSUME n.req.hybrid, n.lexical, FewFound(n, S),
                      NEW x \in Ever(S), Always(n, S, x), Worded(n, S, x)
               PROVE  \E i \in DOMAIN f : f[i].id = x /\ "bm25" \in f[i].via
    BY <1>11 DEF WordsKept
  <2>1. FewFound(s, S) /\ Always(s, S, x) /\ Worded(s, S, x)
    BY <1>11, SameSearch
  <2>2. PICK j \in DOMAIN s.items : s.items[j].id = x /\ "bm25" \in s.items[j].via
    BY <1>7, <1>11, <2>1 DEF WordsKept
  <2>3. Tagged(g, x, s.req)
    BY <1>1, <1>7, <2>1 DEF Always, InScope
  <2> QED BY <1>5, <1>9, <2>2, <2>3
<1>15. Candidates(n, S)
  BY <1>7, <1>11, <1>12, <1>13, <1>14 DEF Candidates, ItemsOK, NamedFound
<1>16. LookedUp(n, S)
  BY <1>1, <1>11 DEF LookedUp
<1>17. SearchOK(n, S)
  BY <1>1, <1>11, <1>15, <1>16 DEF SearchOK
<1> QED BY <1>1, <1>6, <1>17 DEF SearchGoesOn

-----------------------------------------------------------------------------
(* Graph standing, the gate and the cut.                                   *)

\* The marks are of one store.
LEMMA ReadReplacesSound ==
  ASSUME NEW p, ReadReplaces(p), g \in saw[p], SearchOK(search[p], saw[p])
  PROVE  SearchGoesOn(p)
<1> DEFINE s == search[p]
           S == saw[p]
           As(r) == [r EXCEPT !.standing = IF s.req.supersession # "off" /\ Superseded(g, r.id)
                                           THEN "superseded" ELSE "current"]
           items == IF Unjudged(s.req) THEN s.items ELSE [i \in DOMAIN s.items |-> As(s.items[i])]
<1>1. /\ s.pc = "replaces" /\ SearchOK(s, S) /\ SearchRecord(s) /\ S = saw[p] /\ g \in S
      /\ Candidates(s, S) /\ LookedUp(s, S) /\ s.primed = <<>>
  BY DEF ReadReplaces, At, SearchOK
<1>2. Goto(p, [s EXCEPT !.pc = "standing", !.items = items])
  BY DEF ReadReplaces
<1>3. PICK its : its = items
  OBVIOUS
<1>4. PICK n : n = [s EXCEPT !.pc = "standing", !.items = its] /\ Goto(p, n)
  BY <1>2, <1>3
<1>5. /\ List(s.items) /\ Distinct(Ids(s.items)) /\ NamedFound(s, S) /\ WordsKept(s, S)
      /\ \A i \in DOMAIN s.items : ItemRecord(s.items[i]) /\ WasInScope(s, S, s.items[i].id)
      /\ s.byId => s.items # <<>> /\ Len(s.items) <= s.req.topK
  BY <1>1 DEF Candidates, ItemsOK, ItemsListed
<1>6. ASSUME NEW item, ItemRecord(item)
      PROVE  /\ ItemRecord(As(item)) /\ As(item).id = item.id /\ As(item).via = item.via
             /\ Marked(g, As(item), s.req)
  <2>1. PICK a, st : /\ a = As(item)
                     /\ st = IF s.req.supersession # "off" /\ Superseded(g, item.id)
                             THEN "superseded" ELSE "current"
                     /\ a = [item EXCEPT !.standing = st]
    OBVIOUS
  <2>2. a = [id |-> item.id, via |-> item.via, sim |-> item.sim, standing |-> st]
    BY <1>6, <2>1 DEF ItemRecord
  <2>3. Superseded(g, item.id) <=> Replaced(g, item.id)
    BY DEF Superseded, Replaced
  <2>4. ItemRecord(a) /\ a.id = item.id /\ a.via = item.via /\ a.standing = st
    BY <2>2 DEF ItemRecord
  <2>5. Marked(g, a, s.req)
    BY <2>1, <2>3, <2>4 DEF Marked
  <2> QED BY <2>1, <2>4, <2>5
<1>7. PICK m \in Nat : m = Len(s.items) /\ DOMAIN s.items = 1..m
  BY <1>5, ListOf
<1>8. /\ List(its) /\ DOMAIN its = 1..m /\ Len(its) = m
      /\ \A i \in 1..m : ItemRecord(its[i]) /\ its[i].id = s.items[i].id /\ its[i].via = s.items[i].via
      /\ ~Unjudged(s.req) => \A i \in 1..m : Marked(g, its[i], s.req)
  <2>1. CASE Unjudged(s.req)
    BY <1>3, <1>5, <1>7, <2>1
  <2>2. CASE ~Unjudged(s.req)
    <3> HIDE DEF As
    <3>1. its = [i \in 1..m |-> As(s.items[i])]
      BY <1>3, <1>7, <2>2
    <3>2. DOMAIN its = 1..m /\ its = [i \in 1..m |-> its[i]] /\ \A i \in 1..m : its[i] = As(s.items[i])
      BY <3>1
    <3>3. List(its) /\ Len(its) = m
      BY <3>2, ListFrom
    <3> QED BY <1>5, <1>6, <1>7, <3>2, <3>3
  <2> QED BY <2>1, <2>2
<1> HIDE DEF s, S, As, items
<1>9. n = [pc |-> "standing", req |-> s.req, byId |-> s.byId, ambiguous |-> s.ambiguous,
           degraded |-> s.degraded, lexical |-> s.lexical, vec |-> s.vec, bm |-> s.bm,
           items |-> its, matched |-> s.matched, dropped |-> s.dropped, todo |-> s.todo,
           out |-> s.out, primed |-> s.primed, chain |-> s.chain]
  BY <1>1, <1>4 DEF SearchRecord
<1>10. /\ n.pc = "standing" /\ n.req = s.req /\ n.byId = s.byId /\ n.ambiguous = s.ambiguous
       /\ n.lexical = s.lexical /\ n.items = its /\ n.primed = s.primed /\ SearchRecord(n)
  BY <1>9 DEF SearchRecord
<1>11. Ids(its) = Ids(s.items)
  <2>1. /\ Ids(its) = [i \in 1..m |-> its[i].id]
        /\ Ids(s.items) = [i \in 1..m |-> s.items[i].id]
    BY <1>7, <1>8 DEF Ids
  <2> QED BY <1>8, <2>1
<1>12. ItemsOK(n, S)
  <2>1. \A x : WasInScope(n, S, x) <=> WasInScope(s, S, x)
    BY <1>10, SameSearch
  <2> QED BY <1>5, <1>7, <1>8, <1>10, <1>11, <2>1 DEF ItemsOK, ItemsListed
<1>13. /\ \A x : (Always(n, S, x) <=> Always(s, S, x)) /\ (Worded(n, S, x) <=> Worded(s, S, x))
       /\ (FewNamed(n, S) <=> FewNamed(s, S)) /\ (FewFound(n, S) <=> FewFound(s, S))
  BY <1>10, SameSearch
<1>14. NamedFound(n, S)
  BY <1>5, <1>10, <1>11, <1>13 DEF NamedFound
<1>15. WordsKept(n, S)
  BY <1>5, <1>7, <1>8, <1>10, <1>13 DEF WordsKept
<1>16. its = <<>> => s.items = <<>>
  BY <1>5, <1>7, <1>8
<1>17. Candidates(n, S)
  BY <1>5, <1>7, <1>8, <1>10, <1>12, <1>14, <1>15, <1>16 DEF Candidates
<1>18. Judged(n, S)
  BY <1>1, <1>8, <1>10 DEF Judged
<1>19. LookedUp(n, S)
  BY <1>1, <1>10 DEF LookedUp
<1>20. SearchOK(n, S)
  BY <1>1, <1>10, <1>17, <1>18, <1>19 DEF SearchOK
<1> QED BY <1>1, <1>4, <1>20 DEF SearchGoesOn

\* How doubtful a standing says a thought is.
Level(standing) == IF standing = "superseded" THEN 2 ELSE IF standing = "contradicted" THEN 1 ELSE 0

\* An item marked in h is annotated with how it stands in h and in the store.
LEMMA AnnotatedIs ==
  ASSUME NEW h, NEW item, ItemRecord(item), NEW req, Marked(h, item, req),
         NEW a, a = Annotated(item, req)
  PROVE  /\ ItemRecord(a) /\ a.id = item.id /\ a.via = item.via
         /\ a.standing \in {"current", "contradicted", "superseded"}
         /\ Doubt(h, g, a.id, req) = Level(a.standing)
         /\ a.standing = "superseded" <=> (req.supersession # "off" /\ Replaced(h, item.id))
<1> DEFINE contested == /\ item.standing # "superseded"
                        /\ req.contradiction # "off" /\ Contested(g, item.id)
<1>1. CASE contested
  <2>1. a = [item EXCEPT !.standing = "contradicted"]
    BY <1>1 DEF Annotated
  <2>2. a = [id |-> item.id, via |-> item.via, sim |-> item.sim, standing |-> "contradicted"]
    BY <2>1 DEF ItemRecord
  <2> QED BY <1>1, <2>2 DEF ItemRecord, Marked, Doubt, Level
<1>2. CASE ~contested
  <2>1. a = item
    BY <1>2 DEF Annotated
  <2> QED BY <1>2, <2>1 DEF Marked, Doubt, Level
<1> QED BY <1>1, <1>2

\* One before the other: different thoughts, the second no less doubtful.
Behind(h, A, req) == {e \in A \X A : e[1].id # e[2].id /\ Doubt(h, g, e[1].id, req) <= Doubt(h, g, e[2].id, req)}

\* Each with its level, no two of one id.
Levelled(h, all, req) ==
  /\ List(all)
  /\ \A i, j \in DOMAIN all : i # j => all[i].id # all[j].id
  /\ \A i \in DOMAIN all : Doubt(h, g, all[i].id, req) = Level(all[i].standing)

\* Those of one standing, in their order.
Segment(h, f, all, req, st) ==
  /\ List(f) /\ InTurn(f, Behind(h, ToSet(all), req))
  /\ \A i \in DOMAIN f : f[i] \in ToSet(all) /\ f[i].standing = st
  /\ \A x \in ToSet(all) : x.standing = st => \E i \in DOMAIN f : f[i] = x

\* The items of one standing are a segment.
LEMMA WithIs ==
  ASSUME NEW h, NEW all, NEW req, Levelled(h, all, req), NEW st,
         NEW K \in SUBSET DOMAIN all, \A i \in DOMAIN all : i \in K <=> all[i].standing = st,
         NEW f, List(f), Picks(f, all, K)
  PROVE  Segment(h, f, all, req, st)
<1>1. K \subseteq DOMAIN all /\ \A i \in DOMAIN all : i \in K <=> all[i].standing = st
  OBVIOUS
<1>2. /\ \A i \in DOMAIN f : \E k \in K : f[i] = all[k]
      /\ \A k \in K : \E i \in DOMAIN f : f[i] = all[k]
      /\ \A i, j \in DOMAIN f : i < j => \E k, l \in K : k < l /\ f[i] = all[k] /\ f[j] = all[l]
  BY DEF Picks
<1>3. \A i \in DOMAIN f : f[i] \in ToSet(all) /\ f[i].standing = st
  BY <1>1, <1>2 DEF ToSet
<1>4. \A x \in ToSet(all) : x.standing = st => \E i \in DOMAIN f : f[i] = x
  BY <1>1, <1>2 DEF ToSet
<1>5. InTurn(f, Behind(h, ToSet(all), req))
  <2> SUFFICES ASSUME NEW i \in DOMAIN f, NEW j \in DOMAIN f, i < j
               PROVE  <<f[i], f[j]>> \in Behind(h, ToSet(all), req)
    BY DEF InTurn
  <2>1. PICK k, l \in K : k < l /\ f[i] = all[k] /\ f[j] = all[l]
    BY <1>2
  <2>2. k # l
    BY <1>1, <2>1, ListOf DEF Levelled
  <2>3. f[i].id # f[j].id
    BY <1>1, <2>1, <2>2 DEF Levelled
  <2>4. Doubt(h, g, f[i].id, req) = Level(st) /\ Doubt(h, g, f[j].id, req) = Level(st)
    BY <1>1, <2>1 DEF Levelled
  <2>5. Doubt(h, g, f[i].id, req) <= Doubt(h, g, f[j].id, req)
    BY <2>4 DEF Level
  <2> QED BY <1>3, <2>3, <2>5 DEF Behind
<1> QED BY <1>3, <1>4, <1>5 DEF Segment

\* What stands better goes before what stands worse.
LEMMA AcrossIs ==
  ASSUME NEW h, NEW all, NEW req, Levelled(h, all, req), NEW x \in ToSet(all), NEW y \in ToSet(all),
         x.standing # y.standing, Level(x.standing) <= Level(y.standing)
  PROVE  <<x, y>> \in Behind(h, ToSet(all), req)
<1>1. PICK i \in DOMAIN all : x = all[i]
  BY DEF ToSet
<1>2. PICK j \in DOMAIN all : y = all[j]
  BY DEF ToSet
<1> QED BY <1>1, <1>2 DEF Levelled, Behind

\* The items of s as they stand in h and the store: none before one less doubtful, none superseded
\* that should not be, and no other missing.
Stood(h, w, s) ==
  /\ List(w)
  /\ \A i, j \in DOMAIN w : i < j => /\ w[i].id # w[j].id
                                     /\ Doubt(h, g, w[i].id, s.req) <= Doubt(h, g, w[j].id, s.req)
  /\ \A i \in DOMAIN w : /\ ItemRecord(w[i])
                         /\ \E j \in DOMAIN s.items : w[i].id = s.items[j].id
                         /\ Suppresses(s) => ~Replaced(h, w[i].id)
  /\ \A j \in DOMAIN s.items : (Suppresses(s) => ~Replaced(h, s.items[j].id)) =>
       \E i \in DOMAIN w : w[i].id = s.items[j].id /\ w[i].via = s.items[j].via

\* The current first, then the contested, then the superseded unless they are
\* suppressed.
LEMMA StandingsAre ==
  ASSUME NEW s, List(s.items), Distinct(Ids(s.items)), \A i \in DOMAIN s.items : ItemRecord(s.items[i]),
         NEW h, ~Unjudged(s.req) => \A i \in DOMAIN s.items : Marked(h, s.items[i], s.req),
         NEW w, w = Standings(s)
  PROVE  Stood(h, w, s)
<1> DEFINE its == s.items
           req == s.req
           off == Unjudged(req)
           all == [i \in DOMAIN its |-> Annotated(its[i], req)]
           K(st) == {i \in DOMAIN all : all[i].standing = st}
           With(st) == [n \in DOMAIN Ascending(K(st)) |-> all[Ascending(K(st))[n]]]
           tail == IF req.supersession = "suppress" /\ ~s.byId THEN <<>> ELSE With("superseded")
<1>1. w = IF off THEN its ELSE (With("current") \o With("contradicted")) \o tail
  BY DEF Standings, Filtered
<1>2. \A i, j \in DOMAIN its : i # j => its[i].id # its[j].id
  BY IdsAre DEF Distinct
<1>3. PICK m \in Nat : DOMAIN its = 1..m
  BY ListOf
<1>4. CASE off
  <2>1. w = its
    BY <1>1, <1>4
  <2>2. \A x : Doubt(h, g, x, req) = 0
    BY <1>4 DEF Unjudged, Doubt
  <2>3. ~Suppresses(s)
    BY <1>4 DEF Unjudged, Suppresses
  <2>4. \A i, j \in DOMAIN w : i < j => w[i].id # w[j].id
    BY <1>2, <1>3, <2>1
  <2> QED BY <2>1, <2>2, <2>3, <2>4 DEF Stood
<1>5. CASE ~off
  <2>1. PICK a : a = all
    OBVIOUS
  <2>2. /\ DOMAIN a = DOMAIN its /\ a = [i \in DOMAIN its |-> a[i]]
        /\ \A i \in DOMAIN its : a[i] = Annotated(its[i], req)
    BY <2>1
  <2>3. \A i \in DOMAIN a :
          /\ ItemRecord(a[i]) /\ a[i].id = its[i].id /\ a[i].via = its[i].via
          /\ a[i].standing \in {"current", "contradicted", "superseded"}
          /\ Doubt(h, g, a[i].id, req) = Level(a[i].standing)
          /\ a[i].standing = "superseded" <=> (req.supersession # "off" /\ Replaced(h, its[i].id))
    BY <1>5, <2>2, AnnotatedIs
  <2>4. List(a)
    BY <1>3, <2>2, ListFrom
  <2>5. Levelled(h, a, req)
    <3>1. \A i, j \in DOMAIN a : i # j => a[i].id # a[j].id
      <4> SUFFICES ASSUME NEW i \in DOMAIN a, NEW j \in DOMAIN a, i # j PROVE a[i].id # a[j].id
        OBVIOUS
      <4>1. a[i].id = its[i].id /\ a[j].id = its[j].id
        BY <2>3
      <4> QED BY <1>2, <2>2, <4>1
    <3>2. \A i \in DOMAIN a : Doubt(h, g, a[i].id, req) = Level(a[i].standing)
      BY <2>3
    <3> QED BY <2>4, <3>1, <3>2 DEF Levelled
  <2> DEFINE R == Behind(h, ToSet(a), req)
  <2>6. ASSUME NEW st PROVE Segment(h, With(st), a, req, st)
    <3>1. PICK k : k = K(st)
      OBVIOUS
    <3>2. PICK f : f = With(st)
      OBVIOUS
    <3>3. /\ k \subseteq DOMAIN a /\ \A i \in DOMAIN a : i \in k <=> a[i].standing = st
      BY <2>1, <3>1
    <3>4. f = [n \in DOMAIN Ascending(k) |-> a[Ascending(k)[n]]]
      BY <2>1, <3>1, <3>2
    <3> HIDE DEF K, With, all
    <3>5. List(f) /\ Picks(f, a, k)
      BY <2>4, <3>3, <3>4, FilterPicks
    <3>6. Segment(h, f, a, req, st)
      BY <2>5, <3>3, <3>5, WithIs
    <3> QED BY <3>2, <3>6
  <2>7. PICK c : c = With("current")
    OBVIOUS
  <2>8. PICK d : d = With("contradicted")
    OBVIOUS
  <2>9. PICK u : u = tail
    OBVIOUS
  <2>10. Suppresses(s) <=> req.supersession = "suppress" /\ ~s.byId
    BY DEF Suppresses
  <2>11. w = (c \o d) \o u
    BY <1>1, <1>5, <2>7, <2>8, <2>9
  <2> HIDE DEF K, With, all
  <2>12. /\ List(c) /\ InTurn(c, R)
         /\ \A i \in DOMAIN c : c[i] \in ToSet(a) /\ c[i].standing = "current"
         /\ \A x \in ToSet(a) : x.standing = "current" => \E i \in DOMAIN c : c[i] = x
    BY <2>6, <2>7 DEF Segment
  <2>13. /\ List(d) /\ InTurn(d, R)
         /\ \A i \in DOMAIN d : d[i] \in ToSet(a) /\ d[i].standing = "contradicted"
         /\ \A x \in ToSet(a) : x.standing = "contradicted" => \E i \in DOMAIN d : d[i] = x
    BY <2>6, <2>8 DEF Segment
  <2>14. /\ List(u) /\ InTurn(u, R)
         /\ \A i \in DOMAIN u : u[i] \in ToSet(a) /\ u[i].standing = "superseded"
         /\ Suppresses(s) => u = <<>>
         /\ ~Suppresses(s) => \A x \in ToSet(a) : x.standing = "superseded" => \E i \in DOMAIN u : u[i] = x
    <3>1. CASE Suppresses(s)
      <4>1. u = <<>> /\ DOMAIN u = {}
        BY <2>9, <2>10, <3>1
      <4>2. List(u) /\ InTurn(u, R)
        BY <4>1, Nothing DEF InTurn
      <4> QED BY <3>1, <4>1, <4>2
    <3>2. CASE ~Suppresses(s)
      <4>1. u = With("superseded")
        BY <2>9, <2>10, <3>2
      <4> QED BY <2>6, <3>2, <4>1 DEF Segment
    <3> QED BY <3>1, <3>2
  <2> HIDE DEF tail, R
  <2>15. PICK e : e = c \o d
    OBVIOUS
  <2>16. List(e) /\ Joined(c, d, e)
    BY <2>12, <2>13, <2>15, JoinIs
  <2>17. w = e \o u /\ List(w) /\ Joined(e, u, w)
    BY <2>11, <2>14, <2>15, <2>16, JoinIs
  <2>18. \A x, y \in ToSet(a) : (x.standing # y.standing /\ Level(x.standing) <= Level(y.standing)) =>
           <<x, y>> \in R
    BY <2>5, AcrossIs DEF R
  <2>19. InTurn(e, R)
    <3>1. \A i \in DOMAIN c, j \in DOMAIN d : <<c[i], d[j]>> \in R
      BY <2>12, <2>13, <2>18 DEF Level
    <3> QED BY <2>12, <2>13, <2>15, <3>1, JoinInTurn
  <2>20. \A i \in DOMAIN e : e[i] \in ToSet(a) /\ e[i].standing \in {"current", "contradicted"}
    <3> SUFFICES ASSUME NEW i \in DOMAIN e
                 PROVE  e[i] \in ToSet(a) /\ e[i].standing \in {"current", "contradicted"}
      OBVIOUS
    <3>1. (i \in DOMAIN c /\ e[i] = c[i]) \/ (\E j \in DOMAIN d : e[i] = d[j])
      BY <2>16 DEF Joined
    <3> QED BY <2>12, <2>13, <3>1
  <2>21. InTurn(w, R)
    <3>1. \A i \in DOMAIN e, j \in DOMAIN u : <<e[i], u[j]>> \in R
      BY <2>14, <2>18, <2>20 DEF Level
    <3> QED BY <2>14, <2>16, <2>17, <2>19, <3>1, JoinInTurn
  <2>22. \A i \in DOMAIN w : w[i] \in ToSet(a) /\ (Suppresses(s) => w[i].standing # "superseded")
    <3> SUFFICES ASSUME NEW i \in DOMAIN w
                 PROVE  w[i] \in ToSet(a) /\ (Suppresses(s) => w[i].standing # "superseded")
      OBVIOUS
    <3>1. (i \in DOMAIN e /\ w[i] = e[i]) \/ (\E j \in DOMAIN u : w[i] = u[j])
      BY <2>17 DEF Joined
    <3> QED BY <2>14, <2>20, <3>1
  <2>23. \A x \in ToSet(a) : (Suppresses(s) => x.standing # "superseded") => \E i \in DOMAIN w : w[i] = x
    <3> SUFFICES ASSUME NEW x \in ToSet(a), Suppresses(s) => x.standing # "superseded"
                 PROVE  \E i \in DOMAIN w : w[i] = x
      OBVIOUS
    <3>1. x.standing \in {"current", "contradicted", "superseded"}
      BY <2>3 DEF ToSet
    <3>2. CASE x.standing = "current"
      BY <2>12, <2>16, <2>17, <3>2 DEF Joined
    <3>3. CASE x.standing = "contradicted"
      BY <2>13, <2>16, <2>17, <3>3 DEF Joined
    <3>4. CASE x.standing = "superseded"
      <4>1. PICK i \in DOMAIN u : u[i] = x
        BY <2>14, <3>4
      <4> QED BY <2>17, <4>1 DEF Joined
    <3> QED BY <3>1, <3>2, <3>3, <3>4
  <2>24. \A x \in ToSet(a) : \E j \in DOMAIN its :
           /\ x = a[j] /\ ItemRecord(x) /\ x.id = its[j].id /\ x.via = its[j].via
           /\ x.standing = "superseded" <=> (req.supersession # "off" /\ Replaced(h, its[j].id))
    BY <2>2, <2>3 DEF ToSet
  <2>25. \A i, j \in DOMAIN w : i < j => /\ w[i].id # w[j].id
                                         /\ Doubt(h, g, w[i].id, req) <= Doubt(h, g, w[j].id, req)
    <3> SUFFICES ASSUME NEW i \in DOMAIN w, NEW j \in DOMAIN w, i < j
                 PROVE  w[i].id # w[j].id /\ Doubt(h, g, w[i].id, req) <= Doubt(h, g, w[j].id, req)
      OBVIOUS
    <3>1. <<w[i], w[j]>> \in R
      BY <2>21 DEF InTurn
    <3> QED BY <3>1 DEF R, Behind
  <2>26. \A i \in DOMAIN w : /\ ItemRecord(w[i])
                             /\ \E j \in DOMAIN its : w[i].id = its[j].id
                             /\ Suppresses(s) => ~Replaced(h, w[i].id)
    BY <2>10, <2>22, <2>24
  <2>27. ASSUME NEW j \in DOMAIN its, Suppresses(s) => ~Replaced(h, its[j].id)
         PROVE  \E i \in DOMAIN w : w[i].id = its[j].id /\ w[i].via = its[j].via
    <3>1. a[j] \in ToSet(a)
      BY <2>2 DEF ToSet
    <3>2. Suppresses(s) => a[j].standing # "superseded"
      BY <2>2, <2>3, <2>27
    <3> QED BY <2>2, <2>3, <2>23, <3>1, <3>2
  <2> QED BY <2>17, <2>25, <2>26, <2>27 DEF Stood
<1> QED BY <1>4, <1>5

-----------------------------------------------------------------------------
(* Results and what they name.                                             *)

\* A spot of an answer is a place in one of its results.
LEMMA SpotsAre ==
  ASSUME NEW out
  PROVE  /\ \A i \in DOMAIN out : \A j \in DOMAIN out[i].ids :
              <<i, j>> \in Spots(out) /\ IdAt(out, <<i, j>>) = out[i].ids[j]
         /\ \A q \in Spots(out) : /\ q = <<q[1], q[2]>> /\ q[1] \in DOMAIN out
                                  /\ q[2] \in DOMAIN out[q[1]].ids
                                  /\ IdAt(out, q) = out[q[1]].ids[q[2]]
BY DEF Spots, IdAt

\* What is answered is what the results name.
LEMMA AnsweredIs ==
  ASSUME NEW s
  PROVE  Answered(s) = MembersOf(s.out)
<1>1. \A x \in Answered(s) : x \in MembersOf(s.out)
  <2> SUFFICES ASSUME NEW q \in Spots(s.out) PROVE IdAt(s.out, q) \in MembersOf(s.out)
    BY DEF Answered
  <2> QED BY SpotsAre DEF MembersOf, ToSet
<1>2. \A x \in MembersOf(s.out) : x \in Answered(s)
  <2> SUFFICES ASSUME NEW x \in MembersOf(s.out) PROVE x \in Answered(s)
    OBVIOUS
  <2>1. PICK i \in DOMAIN s.out : x \in ToSet(s.out[i].ids)
    BY DEF MembersOf
  <2>2. PICK j \in DOMAIN s.out[i].ids : s.out[i].ids[j] = x
    BY <2>1 DEF ToSet
  <2>3. <<i, j>> \in Spots(s.out) /\ IdAt(s.out, <<i, j>>) = x
    BY <2>2, SpotsAre
  <2> QED BY <2>3 DEF Answered
<1> QED BY <1>1, <1>2

\* A result for each thought.
LEMMA FlatIs ==
  ASSUME NEW ids, List(ids)
  PROVE  /\ ResultsOK(Flat(ids)) /\ MembersOf(Flat(ids)) = ToSet(ids)
         /\ DOMAIN Flat(ids) = DOMAIN ids
         /\ \A i \in DOMAIN ids : Flat(ids)[i].ids = <<ids[i]>>
         /\ Distinct(ids) => Unique(Flat(ids))
<1>1. PICK f : f = Flat(ids)
  OBVIOUS
<1>2. PICK n \in Nat : DOMAIN ids = 1..n
  BY ListOf
<1>3. /\ DOMAIN f = 1..n /\ f = [i \in 1..n |-> f[i]]
      /\ \A i \in DOMAIN f : f[i] = [cluster |-> "none", ids |-> <<ids[i]>>]
  BY <1>1, <1>2 DEF Flat
<1>4. List(f)
  BY <1>3, ListFrom
<1>5. \A x : List(<<x>>) /\ DOMAIN <<x>> = {1} /\ <<x>>[1] = x /\ ToSet(<<x>>) = {x}
  <2> SUFFICES ASSUME NEW x PROVE List(<<x>>) /\ DOMAIN <<x>> = {1} /\ <<x>>[1] = x /\ ToSet(<<x>>) = {x}
    OBVIOUS
  <2>1. DOMAIN <<x>> = {1} /\ <<x>>[1] = x
    OBVIOUS
  <2>2. ToSet(<<x>>) = {x}
    BY <2>1 DEF ToSet
  <2>3. List(<<x>>)
    BY <2>2 DEF List
  <2> QED BY <2>1, <2>2, <2>3
<1>6. \A i \in DOMAIN f : f[i].ids = <<ids[i]>> /\ f[i] = [cluster |-> f[i].cluster, ids |-> f[i].ids]
  BY <1>3
<1>7. ResultsOK(f)
  BY <1>4, <1>5, <1>6 DEF ResultsOK
<1>8. MembersOf(f) = ToSet(ids)
  <2>1. \A i \in DOMAIN f : ToSet(f[i].ids) = {ids[i]}
    BY <1>5, <1>6
  <2>2. DOMAIN f = DOMAIN ids
    BY <1>2, <1>3
  <2> QED BY <2>1, <2>2 DEF MembersOf, ToSet
<1>9. ASSUME Distinct(ids) PROVE Unique(f)
  <2> SUFFICES ASSUME NEW i \in DOMAIN f, NEW k \in DOMAIN f, NEW j \in DOMAIN f[i].ids, NEW l \in DOMAIN f[k].ids,
                      f[i].ids[j] = f[k].ids[l]
               PROVE  i = k /\ j = l
    BY DEF Unique
  <2>1. j = 1 /\ l = 1 /\ f[i].ids[j] = ids[i] /\ f[k].ids[l] = ids[k]
    BY <1>5, <1>6
  <2>2. i = k
    BY <1>2, <1>3, <1>9, <2>1 DEF Distinct
  <2> QED BY <2>1, <2>2
<1> QED BY <1>1, <1>2, <1>3, <1>6, <1>7, <1>8, <1>9

\* What is at one spot at most is shown once at most.
LEMMA OneSpot ==
  ASSUME NEW s, NEW x,
         \A q, r \in Spots(s.out) : IdAt(s.out, q) = x /\ IdAt(s.out, r) = x => q = r
  PROVE  Shows(s, x) \in {0, 1}
<1> DEFINE A == {q \in Spots(s.out) : IdAt(s.out, q) = x}
<1>1. \A q, r \in A : q = r
  OBVIOUS
<1>2. Shows(s, x) = Cardinality(A)
  BY DEF Shows
<1> HIDE DEF A
<1>3. CASE A = {}
  <2>1. Cardinality(A) = 0
    BY <1>3, FS_EmptySet
  <2> QED BY <1>2, <2>1
<1>4. CASE A # {}
  <2>1. PICK q : A = {q}
    BY <1>1, <1>4
  <2>2. Cardinality(A) = 1
    BY <2>1, FS_Singleton
  <2> QED BY <1>2, <2>2
<1> QED BY <1>3, <1>4

\* What names each thought once has one spot for it.
LEMMA UniqueShows ==
  ASSUME NEW s, Unique(s.out), NEW x
  PROVE  Shows(s, x) \in {0, 1}
<1>1. ASSUME NEW q \in Spots(s.out), NEW r \in Spots(s.out), IdAt(s.out, q) = x, IdAt(s.out, r) = x
      PROVE  q = r
  <2>1. /\ q = <<q[1], q[2]>> /\ q[1] \in DOMAIN s.out /\ q[2] \in DOMAIN s.out[q[1]].ids
        /\ r = <<r[1], r[2]>> /\ r[1] \in DOMAIN s.out /\ r[2] \in DOMAIN s.out[r[1]].ids
        /\ s.out[q[1]].ids[q[2]] = x /\ s.out[r[1]].ids[r[2]] = x
    BY <1>1, SpotsAre
  <2>2. q[1] = r[1] /\ q[2] = r[2]
    BY <2>1 DEF Unique
  <2> QED BY <2>1, <2>2
<1> QED BY <1>1, OneSpot

\* Whatever the answer is, why it is so is so.
LEMMA LookedUpReason ==
  ASSUME NEW s, NEW S, LookedUp(s, S)
  PROVE  ReasonSound(s, S)
BY DEF LookedUp, ReasonSound, Reason

\* An answer that shows what was chosen, no primers yet.
LEMMA LaidIsSound ==
  ASSUME NEW s, NEW S, Chosen(s, S), Laid(s), LookedUp(s, S), s.primed = <<>>
  PROVE  /\ Answered(s) = ToSet(Ids(s.items))
         /\ HitsSound(s, S) /\ DoubtsLast(s, S) /\ ReasonSound(s, S)
<1>1. /\ List(s.items) /\ Distinct(Ids(s.items))
      /\ \A i \in DOMAIN s.items : WasInScope(s, S, s.items[i].id)
      /\ Len(s.items) <= s.req.topK
      /\ Suppresses(s) => \A i \in DOMAIN s.items : \E h \in S : ~Replaced(h, s.items[i].id)
      /\ \A i, j \in DOMAIN s.items : i < j => ~AlwaysBehind(S, s.req, s.items[i].id, s.items[j].id)
  BY DEF Chosen, ItemsOK, ItemsListed
<1>2. Answered(s) = ToSet(Ids(s.items))
  BY AnsweredIs DEF Laid
<1>3. /\ List(Ids(s.items)) /\ Len(Ids(s.items)) = Len(s.items)
      /\ DOMAIN Ids(s.items) = DOMAIN s.items
      /\ \A i \in DOMAIN s.items : Ids(s.items)[i] = s.items[i].id
  BY <1>1, IdsAre
<1>4. \A x \in Answered(s) : \E i \in DOMAIN s.items : x = s.items[i].id
  BY <1>2, <1>3 DEF ToSet
<1>5. HitsSound(s, S)
  <2>1. Cardinality(Answered(s)) <= s.req.topK
    BY <1>1, <1>2, <1>3, DistinctCount
  <2>2. \A x : ~(Shows(s, x) > 1)
    <3> SUFFICES ASSUME NEW x PROVE ~(Shows(s, x) > 1)
      OBVIOUS
    <3>1. Shows(s, x) \in {0, 1}
      BY UniqueShows DEF Laid
    <3> QED BY <3>1
  <2> QED BY <1>1, <1>4, <2>1, <2>2 DEF HitsSound
<1>6. DoubtsLast(s, S)
  <2> SUFFICES ASSUME ~s.req.group, NEW q \in Spots(s.out), NEW r \in Spots(s.out), q[1] < r[1]
               PROVE  ~AlwaysBehind(S, s.req, IdAt(s.out, q), IdAt(s.out, r))
    BY DEF DoubtsLast
  <2>1. s.out = Flat(Ids(s.items))
    BY DEF Laid
  <2>2. /\ q[1] \in DOMAIN s.out /\ q[2] \in DOMAIN s.out[q[1]].ids /\ IdAt(s.out, q) = s.out[q[1]].ids[q[2]]
        /\ r[1] \in DOMAIN s.out /\ r[2] \in DOMAIN s.out[r[1]].ids /\ IdAt(s.out, r) = s.out[r[1]].ids[r[2]]
    BY SpotsAre
  <2>3. DOMAIN s.out = DOMAIN s.items /\ \A i \in DOMAIN s.items : s.out[i].ids = <<s.items[i].id>>
    BY <1>3, <2>1, FlatIs
  <2>4. IdAt(s.out, q) = s.items[q[1]].id /\ IdAt(s.out, r) = s.items[r[1]].id
    BY <2>2, <2>3
  <2> QED BY <1>1, <2>2, <2>3, <2>4
<1> QED BY <1>2, <1>5, <1>6, LookedUpReason

\* All of it is picked.
LEMMA AllPicked ==
  ASSUME NEW w
  PROVE  Picks(w, w, DOMAIN w)
<1>1. PICK a : a = [i \in DOMAIN w |-> i]
  OBVIOUS
<1>2. a \in [DOMAIN w -> DOMAIN w] /\ \A i \in DOMAIN w : a[i] = i
  BY <1>1
<1> QED BY <1>2 DEF Picks

\* The first k of what passes the gate: all of it where there are no more.
Cut(z, w, R, K, k) ==
  /\ List(z) /\ Len(z) <= k /\ InTurn(z, R)
  /\ \A i \in DOMAIN z : \E j \in DOMAIN w : z[i] = w[j]
  /\ Len(z) < k => \A j \in K : \E i \in DOMAIN z : z[i] = w[j]

\* The first k of what a gate leaves of w.
LEMMA CutIs ==
  ASSUME NEW w, List(w), NEW R, InTurn(w, R), NEW K \in SUBSET DOMAIN w,
         NEW f, List(f), Picks(f, w, K), NEW k \in Nat
  PROVE  /\ Cut(FirstOf(f, k), w, R, K, k)
         /\ Len(f) <= k => FirstOf(f, k) = f
<1>1. PICK z : z = FirstOf(f, k)
  OBVIOUS
<1>2. /\ List(z) /\ Len(z) <= k /\ DOMAIN z \subseteq DOMAIN f /\ \A i \in DOMAIN z : z[i] = f[i]
      /\ (Len(f) <= k \/ Len(z) < k) => z = f
  BY <1>1, FirstKept
<1>3. InTurn(f, R)
  BY PickedInTurn
<1>4. InTurn(z, R)
  BY <1>2, <1>3 DEF InTurn
<1>5. /\ \A i \in DOMAIN f : \E j \in K : f[i] = w[j]
      /\ \A j \in K : \E i \in DOMAIN f : f[i] = w[j]
  BY PickedIs
<1>6. \A i \in DOMAIN z : \E j \in DOMAIN w : z[i] = w[j]
  BY <1>2, <1>5
<1>7. Cut(z, w, R, K, k)
  BY <1>2, <1>4, <1>5, <1>6 DEF Cut
<1> QED BY <1>1, <1>2, <1>7

\* An answer that shows its items has been chosen from the candidates.
LEMMA CutChosen ==
  ASSUME NEW s, NEW S, g \in S, Candidates(s, S), s.req.topK \in 1..MaxTopK,
         NEW h \in S, NEW w, Stood(h, w, s),
         NEW K \in SUBSET DOMAIN w, \A i \in DOMAIN w : "bm25" \in w[i].via => i \in K,
         NEW z, Cut(z, w, Behind(h, ToSet(w), s.req), K, s.req.topK),
         s.byId => z = w,
         NEW n, n.req = s.req, n.byId = s.byId, n.lexical = s.lexical, n.items = z
  PROVE  Chosen(n, S)
<1>1. /\ List(s.items) /\ Distinct(Ids(s.items)) /\ NamedFound(s, S)
      /\ \A i \in DOMAIN s.items : WasInScope(s, S, s.items[i].id)
      /\ (~s.byId /\ s.req.hybrid /\ s.lexical /\ FewFound(s, S)) =>
           \A x \in Ever(S) : (Always(s, S, x) /\ Worded(s, S, x)) =>
             \E i \in DOMAIN s.items : s.items[i].id = x /\ "bm25" \in s.items[i].via
  BY DEF Candidates, ItemsOK, ItemsListed, WordsKept
<1>2. /\ List(w)
      /\ \A i \in DOMAIN w : /\ ItemRecord(w[i])
                             /\ \E j \in DOMAIN s.items : w[i].id = s.items[j].id
                             /\ Suppresses(s) => ~Replaced(h, w[i].id)
      /\ \A j \in DOMAIN s.items : (Suppresses(s) => ~Replaced(h, s.items[j].id)) =>
           \E i \in DOMAIN w : w[i].id = s.items[j].id /\ w[i].via = s.items[j].via
  BY DEF Stood
<1>3. /\ List(z) /\ Len(z) <= s.req.topK
      /\ \A i \in DOMAIN z : \E j \in DOMAIN w : z[i] = w[j]
      /\ Len(z) < s.req.topK => \A j \in K : \E i \in DOMAIN z : z[i] = w[j]
  BY DEF Cut
<1>4. \A i, j \in DOMAIN z : i < j => /\ z[i].id # z[j].id
                                      /\ Doubt(h, g, z[i].id, s.req) <= Doubt(h, g, z[j].id, s.req)
  <2> SUFFICES ASSUME NEW i \in DOMAIN z, NEW j \in DOMAIN z, i < j
               PROVE  z[i].id # z[j].id /\ Doubt(h, g, z[i].id, s.req) <= Doubt(h, g, z[j].id, s.req)
    OBVIOUS
  <2>1. <<z[i], z[j]>> \in Behind(h, ToSet(w), s.req)
    BY DEF Cut, InTurn
  <2> QED BY <2>1 DEF Behind
<1>5. /\ \A i \in DOMAIN z : Ids(z)[i] = z[i].id
      /\ DOMAIN Ids(z) = DOMAIN z
      /\ \A i \in DOMAIN z : i \in Int
      /\ \A i \in DOMAIN s.items : Ids(s.items)[i] = s.items[i].id
      /\ DOMAIN Ids(s.items) = DOMAIN s.items
  BY <1>1, <1>3, IdsAre, ListOf
<1>6. Distinct(Ids(z))
  <2> SUFFICES ASSUME NEW i \in DOMAIN z, NEW j \in DOMAIN z, i # j PROVE z[i].id # z[j].id
    BY <1>5 DEF Distinct
  <2>1. i \in Int /\ j \in Int
    BY <1>5
  <2>2. i < j \/ j < i
    BY <2>1
  <2> QED BY <1>4, <2>2
<1>7. /\ \A x : WasInScope(n, S, x) <=> WasInScope(s, S, x)
      /\ \A x : Always(n, S, x) <=> Always(s, S, x)
      /\ \A x : Worded(n, S, x) <=> Worded(s, S, x)
      /\ (FewNamed(n, S) <=> FewNamed(s, S)) /\ (FewFound(n, S) <=> FewFound(s, S))
      /\ (Suppresses(n) <=> Suppresses(s))
  BY SameSearch
<1>8. \A i \in DOMAIN z : /\ ItemRecord(z[i]) /\ WasInScope(n, S, z[i].id)
                          /\ Suppresses(n) => ~Replaced(h, z[i].id)
  <2> SUFFICES ASSUME NEW i \in DOMAIN z
               PROVE  /\ ItemRecord(z[i]) /\ WasInScope(n, S, z[i].id)
                      /\ Suppresses(n) => ~Replaced(h, z[i].id)
    OBVIOUS
  <2>1. PICK j \in DOMAIN w : z[i] = w[j]
    BY <1>3
  <2>2. PICK k \in DOMAIN s.items : w[j].id = s.items[k].id
    BY <1>2
  <2>3. WasInScope(s, S, s.items[k].id)
    BY <1>1
  <2> QED BY <1>2, <1>7, <2>1, <2>2, <2>3
<1>9. ItemsOK(n, S)
  BY <1>3, <1>6, <1>8 DEF ItemsOK, ItemsListed
<1>10. NamedFound(n, S)
  <2> SUFFICES ASSUME n.byId, FewNamed(n, S), NEW x \in Ever(S), Always(n, S, x)
               PROVE  x \in ToSet(Ids(z))
    BY DEF NamedFound
  <2>1. x \in ToSet(Ids(s.items))
    BY <1>1, <1>7 DEF NamedFound
  <2>2. PICK j \in DOMAIN s.items : s.items[j].id = x
    BY <1>5, <2>1 DEF ToSet
  <2>3. ~Suppresses(s)
    BY DEF Suppresses
  <2>4. PICK i \in DOMAIN w : w[i].id = x
    BY <1>2, <2>2, <2>3
  <2>5. z = w
    OBVIOUS
  <2> QED BY <1>5, <2>4, <2>5 DEF ToSet
<1>11. ASSUME NEW i \in DOMAIN z, NEW j \in DOMAIN z, i < j
       PROVE  ~AlwaysBehind(S, n.req, z[i].id, z[j].id)
  <2>1. Doubt(h, g, z[i].id, s.req) <= Doubt(h, g, z[j].id, s.req)
    BY <1>4, <1>11
  <2>2. Doubt(h, g, z[i].id, s.req) \in {0, 1, 2} /\ Doubt(h, g, z[j].id, s.req) \in {0, 1, 2}
    BY DEF Doubt
  <2>3. ~(Doubt(h, g, z[i].id, s.req) > Doubt(h, g, z[j].id, s.req))
    BY <2>1, <2>2
  <2> QED BY <2>3 DEF AlwaysBehind
<1>12. ASSUME ~n.byId, n.req.hybrid, n.lexical, FewFound(n, S), Len(z) < n.req.topK,
              NEW x \in Ever(S), Always(n, S, x), Worded(n, S, x),
              Suppresses(n) => \A k \in S : ~Replaced(k, x)
       PROVE  x \in ToSet(Ids(z))
  <2>1. PICK j \in DOMAIN s.items : s.items[j].id = x /\ "bm25" \in s.items[j].via
    BY <1>1, <1>7, <1>12
  <2>2. Suppresses(s) => ~Replaced(h, x)
    BY <1>7, <1>12
  <2>3. PICK i \in DOMAIN w : w[i].id = x /\ w[i].via = s.items[j].via
    BY <1>2, <2>1, <2>2
  <2>4. i \in K
    BY <2>1, <2>3
  <2>5. PICK l \in DOMAIN z : z[l] = w[i]
    BY <1>3, <1>12, <2>4
  <2> QED BY <1>5, <2>3, <2>5 DEF ToSet
<1> QED BY <1>3, <1>8, <1>9, <1>10, <1>11, <1>12 DEF Chosen

\* The candidates are annotated, gated and cut: what is left is the answer, to be
\* grouped, to follow its chain or to count its hits.
LEMMA StandSound ==
  ASSUME NEW p, Stand(p), g \in saw[p], IsFiniteSet(Ever(saw[p])), SearchOK(search[p], saw[p])
  PROVE  SearchGoesOn(p)
<1> DEFINE s == search[p]
           S == saw[p]
           standing == Standings(s)
           gated == IF s.byId THEN standing
                    ELSE Filtered(standing, LAMBDA r : KeptByGate(r, s.req.gate))
           final == FirstOf(gated, s.req.topK)
           matched == IF s.byId THEN Len(final) ELSE Len(standing)
           dropped == Len(standing) - Len(gated)
           Passed(t) == [t EXCEPT !.items = final, !.out = Flat(Ids(final)), !.todo = Flat(Ids(final)),
                           !.matched = matched, !.dropped = dropped]
<1>1. s.pc = "standing" /\ SearchOK(s, S) /\ SearchRecord(s) /\ s.req.topK \in 1..MaxTopK
      /\ Candidates(s, S) /\ Judged(s, S) /\ LookedUp(s, S) /\ s.primed = <<>>
  BY DEF Stand, At, SearchOK
<1>2. Goto(p, IF s.req.kind = "context" THEN Nearby(Passed(s))
              ELSE [Passed(s) EXCEPT !.pc = IF s.req.group THEN "group" ELSE "hit"])
  BY DEF Stand
<1>3. PICK w : w = standing
  OBVIOUS
<1>4. PICK f : f = gated
  OBVIOUS
<1>5. PICK z : z = final
  OBVIOUS
<1>6. PICK K : K = IF s.byId THEN DOMAIN w ELSE {i \in DOMAIN w : KeptByGate(w[i], s.req.gate)}
  OBVIOUS
<1>7. K \subseteq DOMAIN w /\ \A i \in DOMAIN w : "bm25" \in w[i].via => i \in K
  BY <1>6 DEF KeptByGate
<1>8. f = IF s.byId THEN w ELSE [n \in DOMAIN Ascending(K) |-> w[Ascending(K)[n]]]
  BY <1>3, <1>4, <1>6 DEF Filtered
<1>9. z = FirstOf(f, s.req.topK)
  BY <1>4, <1>5
<1>10. PICK n : /\ n = [pc |-> n.pc, req |-> s.req, byId |-> s.byId, ambiguous |-> s.ambiguous,
                        degraded |-> s.degraded, lexical |-> s.lexical, vec |-> s.vec, bm |-> s.bm,
                        items |-> z, matched |-> matched, dropped |-> dropped,
                        todo |-> Flat(Ids(z)), out |-> Flat(Ids(z)), primed |-> s.primed,
                        chain |-> s.chain]
                /\ n.pc \in {"done", "chain", "group", "hit"}
                /\ n.pc = "group" => s.req.group
                /\ Goto(p, n)
  <2>1. PICK a : a = Passed(s)
    OBVIOUS
  <2>2. a = [pc |-> s.pc, req |-> s.req, byId |-> s.byId, ambiguous |-> s.ambiguous,
             degraded |-> s.degraded, lexical |-> s.lexical, vec |-> s.vec, bm |-> s.bm,
             items |-> z, matched |-> matched, dropped |-> dropped,
             todo |-> Flat(Ids(z)), out |-> Flat(Ids(z)), primed |-> s.primed, chain |-> s.chain]
    BY <1>1, <1>5, <2>1 DEF SearchRecord
  <2>3. PICK pc \in {"done", "chain", "group", "hit"} : /\ Goto(p, [a EXCEPT !.pc = pc])
                                                        /\ pc = "group" => s.req.group
    BY <1>2, <2>1 DEF Nearby, Finished
  <2> HIDE DEF Passed, matched, dropped
  <2> QED BY <2>2, <2>3
<1> HIDE DEF s, S, standing, gated, final, matched, dropped, Passed
<1>11. S = saw[p] /\ g \in S /\ IsFiniteSet(Ever(S))
  BY DEF S
<1>12. /\ n.req = s.req /\ n.byId = s.byId /\ n.ambiguous = s.ambiguous /\ n.lexical = s.lexical
       /\ n.items = z /\ n.out = Flat(Ids(z)) /\ n.todo = Flat(Ids(z)) /\ n.primed = <<>>
       /\ SearchRecord(n)
  BY <1>1, <1>10 DEF SearchRecord
<1>13. /\ List(s.items) /\ Distinct(Ids(s.items))
       /\ \A i \in DOMAIN s.items : ItemRecord(s.items[i])
       /\ s.byId => Len(s.items) <= s.req.topK
  BY <1>1 DEF Candidates, ItemsOK, ItemsListed
<1>14. w = Standings(s)
  BY <1>3 DEF standing
<1>15. PICK h \in S : ~Unjudged(s.req) => \A i \in DOMAIN s.items : Marked(h, s.items[i], s.req)
  BY <1>1, <1>11 DEF Judged
<1>16. Stood(h, w, s)
  BY <1>13, <1>14, <1>15, StandingsAre
<1>17. List(w)
  BY <1>16 DEF Stood
<1>18. \A i, j \in DOMAIN w : i < j => /\ w[i].id # w[j].id
                                      /\ Doubt(h, g, w[i].id, s.req) <= Doubt(h, g, w[j].id, s.req)
  BY <1>16 DEF Stood
<1>19. \A i \in DOMAIN w : \E j \in DOMAIN s.items : w[i].id = s.items[j].id
  BY <1>16 DEF Stood
<1>20. PICK R : R = Behind(h, ToSet(w), s.req)
  OBVIOUS
<1>21. InTurn(w, R)
  BY <1>20, <1>17, <1>18, ListOf DEF InTurn, Behind
<1>22. List(f) /\ Picks(f, w, K)
  <2>1. CASE s.byId
    BY <1>6, <1>8, <1>17, <2>1, AllPicked
  <2>2. CASE ~s.byId
    <3>1. f = [m \in DOMAIN Ascending(K) |-> w[Ascending(K)[m]]]
      BY <1>8, <2>2
    <3> QED BY <1>7, <1>17, <3>1, FilterPicks
  <2> QED BY <2>1, <2>2
<1>23. PICK k \in Nat \ {0} : k = s.req.topK /\ k \in 1..MaxTopK
  BY <1>1, WindowIs
<1>24. Cut(z, w, R, K, k) /\ (Len(f) <= k => z = f)
  <2>1. z = FirstOf(f, k) /\ K \in SUBSET DOMAIN w /\ List(w) /\ k \in Nat
    BY <1>7, <1>9, <1>23, <1>17
  <2> QED BY <1>21, <1>22, <2>1, CutIs
<1>25. ASSUME s.byId PROVE z = w
  <2>1. f = w
    BY <1>8, <1>25
  <2>2. /\ List(Ids(s.items)) /\ Len(Ids(s.items)) = Len(s.items) /\ DOMAIN Ids(s.items) = DOMAIN s.items
        /\ \A i \in DOMAIN s.items : Ids(s.items)[i] = s.items[i].id
        /\ List(Ids(w)) /\ Len(Ids(w)) = Len(w) /\ DOMAIN Ids(w) = DOMAIN w
        /\ \A i \in DOMAIN w : Ids(w)[i] = w[i].id
    BY <1>13, <1>17, IdsAre
  <2>3. IsFiniteSet(ToSet(Ids(s.items))) /\ Cardinality(ToSet(Ids(s.items))) = Len(s.items)
    BY <1>13, <2>2, DistinctCount
  <2>4. ToSet(Ids(w)) \subseteq ToSet(Ids(s.items))
    <3> SUFFICES ASSUME NEW i \in DOMAIN w PROVE w[i].id \in ToSet(Ids(s.items))
      BY <2>2 DEF ToSet
    <3>1. PICK j \in DOMAIN s.items : w[i].id = s.items[j].id
      BY <1>19
    <3> QED BY <2>2, <3>1 DEF ToSet
  <2>5. Distinct(Ids(w))
    <3> SUFFICES ASSUME NEW i \in DOMAIN w, NEW j \in DOMAIN w, i # j PROVE w[i].id # w[j].id
      BY <2>2 DEF Distinct
    <3>1. i \in Int /\ j \in Int
      BY <1>17, ListOf
    <3>2. i < j \/ j < i
      BY <3>1
    <3> QED BY <1>18, <3>2
  <2>6. Len(w) <= Len(s.items)
    BY <2>2, <2>3, <2>4, <2>5, DistinctFit
  <2>7. Len(w) <= k
    BY <1>13, <1>23, <1>25, <1>17, <2>6, ListOf
  <2> QED BY <1>24, <2>1, <2>7
<1>26. Chosen(n, S)
  <2>1. Cut(z, w, Behind(h, ToSet(w), s.req), K, s.req.topK) /\ K \in SUBSET DOMAIN w
    BY <1>7, <1>20, <1>23, <1>24
  <2>2. s.byId => z = w
    BY <1>25
  <2> QED BY <1>1, <1>7, <1>11, <1>12, <1>16, <2>1, <2>2, CutChosen
<1>27. List(Ids(z)) /\ DOMAIN Ids(z) = DOMAIN z /\ Distinct(Ids(z))
       /\ \A i \in DOMAIN z : Ids(z)[i] = z[i].id
  BY <1>12, <1>26, IdsAre DEF Chosen, ItemsOK, ItemsListed
<1>28. /\ ResultsOK(n.out) /\ MembersOf(n.out) = ToSet(Ids(z)) /\ Unique(n.out)
       /\ DOMAIN n.out = DOMAIN Ids(z) /\ \A i \in DOMAIN n.out : n.out[i].ids = <<Ids(z)[i]>>
  BY <1>12, <1>27, FlatIs
<1>29. Laid(n)
  BY <1>12, <1>28 DEF Laid
<1>30. ToCount(n, S)
  <2>1. \A i \in DOMAIN z : z[i].id \in Ever(S)
    BY <1>12, <1>26, WasThere DEF Chosen, ItemsOK
  <2>2. ToSet(Ids(z)) \subseteq Ever(S)
    BY <1>27, <2>1 DEF ToSet
  <2>3. \A i \in DOMAIN n.out : n.out[i].ids # <<>>
    BY <1>28
  <2> QED BY <1>12, <1>28, <2>2, <2>3 DEF ToCount
<1>31. LookedUp(n, S)
  BY <1>1, <1>12 DEF LookedUp
<1>32. n.pc = "done" => /\ Answered(n) = ToSet(Ids(n.items))
                        /\ HitsSound(n, S) /\ DoubtsLast(n, S) /\ ReasonSound(n, S)
  BY <1>12, <1>26, <1>29, <1>31, LaidIsSound
<1>33. /\ n.pc \in {"done", "chain", "group", "hit"} /\ n.req.topK \in 1..MaxTopK
       /\ n.pc = "group" => n.req.group
  BY <1>1, <1>10, <1>12
<1>34. SearchOK(n, S)
  BY <1>12, <1>26, <1>29, <1>30, <1>31, <1>32, <1>33 DEF SearchOK
<1> QED BY <1>10, <1>11, <1>34 DEF SearchGoesOn

\* What stays as it was chosen when only the answer is laid out anew.
LEMMA SameChosen ==
  ASSUME NEW s, NEW S, Chosen(s, S), NEW n, n.req = s.req, n.byId = s.byId,
         n.lexical = s.lexical, n.items = s.items
  PROVE  Chosen(n, S)
<1>1. /\ \A x : WasInScope(n, S, x) <=> WasInScope(s, S, x)
      /\ \A x : Always(n, S, x) <=> Always(s, S, x)
      /\ \A x : Worded(n, S, x) <=> Worded(s, S, x)
      /\ (FewNamed(n, S) <=> FewNamed(s, S)) /\ (FewFound(n, S) <=> FewFound(s, S))
      /\ (Suppresses(n) <=> Suppresses(s))
  BY SameSearch
<1>2. ItemsOK(s, S) /\ NamedFound(s, S)
  BY DEF Chosen
<1>3. ItemsOK(n, S)
  BY <1>1, <1>2 DEF ItemsOK, ItemsListed
<1>4. NamedFound(n, S)
  BY <1>1, <1>2 DEF NamedFound
<1> QED BY <1>1, <1>3, <1>4 DEF Chosen

\* Following the chain changes nothing that is answered.
LEMMA ChainSound ==
  ASSUME NEW p, Chain(p), SearchOK(search[p], saw[p])
  PROVE  SearchGoesOn(p)
<1> DEFINE s == search[p]
           S == saw[p]
<1>1. /\ SearchOK(s, S) /\ SearchRecord(s) /\ s.req.topK \in 1..MaxTopK /\ s.primed = <<>>
      /\ Chosen(s, S) /\ Laid(s) /\ LookedUp(s, S)
  BY DEF Chain, At, SearchOK
<1>2. PICK c : Goto(p, [Finished(s) EXCEPT !.chain = c])
  BY DEF Chain
<1>3. PICK n : n = [Finished(s) EXCEPT !.chain = c]
  OBVIOUS
<1>4. n = [pc |-> "done", req |-> s.req, byId |-> s.byId, ambiguous |-> s.ambiguous,
           degraded |-> s.degraded, lexical |-> s.lexical, vec |-> s.vec, bm |-> s.bm,
           items |-> s.items, matched |-> s.matched, dropped |-> s.dropped,
           todo |-> s.todo, out |-> s.out, primed |-> s.primed, chain |-> c]
  BY <1>1, <1>3 DEF SearchRecord, Finished
<1> HIDE DEF s
<1>5. /\ n.pc = "done" /\ n.req = s.req /\ n.byId = s.byId /\ n.ambiguous = s.ambiguous
      /\ n.lexical = s.lexical /\ n.items = s.items /\ n.out = s.out /\ n.primed = <<>>
      /\ SearchRecord(n)
  BY <1>1, <1>4 DEF SearchRecord
<1>6. Chosen(n, S)
  BY <1>1, <1>5, SameChosen
<1>7. Laid(n) /\ LookedUp(n, S)
  BY <1>1, <1>5 DEF Laid, LookedUp
<1>8. SearchOK(n, S)
  BY <1>1, <1>5, <1>6, <1>7, LaidIsSound DEF SearchOK
<1> QED BY <1>2, <1>3, <1>8 DEF SearchGoesOn

\* What a filter leaves of different things.
LEMMA KeptIs ==
  ASSUME NEW s, List(s), Distinct(s), NEW A, NEW K \in SUBSET DOMAIN s,
         \A i \in DOMAIN s : i \in K <=> s[i] \in A,
         NEW f, f = [n \in DOMAIN Ascending(K) |-> s[Ascending(K)[n]]]
  PROVE  List(f) /\ Distinct(f) /\ ToSet(f) = ToSet(s) \cap A
<1>1. PICK h : h = f
  OBVIOUS
<1>2. List(h) /\ Picks(h, s, K)
  BY <1>1, FilterPicks
<1>3. Distinct(h)
  BY <1>2, PickedDistinct
<1>4. /\ \A i \in DOMAIN h : \E k \in K : h[i] = s[k]
      /\ \A k \in K : \E i \in DOMAIN h : h[i] = s[k]
  BY <1>2, PickedIs
<1>5. \A x \in ToSet(h) : x \in ToSet(s) /\ x \in A
  BY <1>4 DEF ToSet
<1>6. \A x \in ToSet(s) \cap A : x \in ToSet(h)
  BY <1>4 DEF ToSet
<1> QED BY <1>1, <1>2, <1>3, <1>5, <1>6

\* Results without a thought in common, each with different thoughts.
LEMMA UniqueFrom ==
  ASSUME NEW out, \A i \in DOMAIN out : Distinct(out[i].ids),
         \A i, k \in DOMAIN out : (\E x : x \in ToSet(out[i].ids) /\ x \in ToSet(out[k].ids)) => i = k
  PROVE  Unique(out)
<1> SUFFICES ASSUME NEW i \in DOMAIN out, NEW k \in DOMAIN out,
                    NEW j \in DOMAIN out[i].ids, NEW l \in DOMAIN out[k].ids,
                    out[i].ids[j] = out[k].ids[l]
             PROVE  i = k /\ j = l
  BY DEF Unique
<1>1. out[i].ids[j] \in ToSet(out[i].ids) /\ out[k].ids[l] \in ToSet(out[k].ids)
  BY DEF ToSet
<1>2. i = k
  BY <1>1
<1> QED BY <1>2 DEF Distinct

\* A group for each cluster, and a result of its own for what is in none.
LEMMA GroupedIs ==
  ASSUME NEW ids, List(ids), Distinct(ids), NEW home, NEW out, out = Grouped(ids, home)
  PROVE  /\ ResultsOK(out) /\ Unique(out) /\ MembersOf(out) = ToSet(ids)
         /\ \A i \in DOMAIN out : out[i].ids # <<>>
<1> DEFINE D == DOMAIN home
           Places(A) == {i \in DOMAIN ids : ids[i] \in A}
           Of(c) == Filtered(ids, LAMBDA x : x \in DOMAIN home /\ home[x] = c)
           lone == Filtered(ids, LAMBDA x : x \notin DOMAIN home)
           first == Filtered(ids, LAMBDA x : x \in DOMAIN home /\ Of(home[x])[1] = x)
           groups == [i \in DOMAIN first |-> [cluster |-> home[first[i]], ids |-> Of(home[first[i]])]]
<1>1. ASSUME NEW c
      PROVE  /\ List(Of(c)) /\ Distinct(Of(c))
             /\ ToSet(Of(c)) = ToSet(ids) \cap {x \in D : home[x] = c}
  <2> DEFINE A == {x \in D : home[x] = c}
             K == {i \in DOMAIN ids : ids[i] \in DOMAIN home /\ home[ids[i]] = c}
  <2>1. PICK f : f = Of(c)
    OBVIOUS
  <2>2. f = [n \in DOMAIN Ascending(K) |-> ids[Ascending(K)[n]]]
    BY <2>1 DEF Filtered
  <2>3. K \subseteq DOMAIN ids /\ \A i \in DOMAIN ids : i \in K <=> ids[i] \in A
    OBVIOUS
  <2> HIDE DEF A, K, Of
  <2>4. List(f) /\ Distinct(f) /\ ToSet(f) = ToSet(ids) \cap A
    BY <2>2, <2>3, KeptIs
  <2> QED BY <2>1, <2>4 DEF A
<1>2. List(lone) /\ Distinct(lone) /\ \A x : x \in ToSet(lone) <=> x \in ToSet(ids) /\ x \notin D
  <2> DEFINE A == ToSet(ids) \ D
             K == {i \in DOMAIN ids : ids[i] \notin DOMAIN home}
  <2>1. PICK f : f = lone
    OBVIOUS
  <2>2. f = [n \in DOMAIN Ascending(K) |-> ids[Ascending(K)[n]]]
    BY <2>1 DEF Filtered
  <2>3. K \subseteq DOMAIN ids /\ \A i \in DOMAIN ids : i \in K <=> ids[i] \in A
    BY DEF ToSet
  <2> HIDE DEF A, K, lone
  <2>4. List(f) /\ Distinct(f) /\ ToSet(f) = ToSet(ids) \cap A
    BY <2>2, <2>3, KeptIs
  <2> QED BY <2>1, <2>4 DEF A
<1>3. /\ List(first) /\ Distinct(first)
      /\ \A x : x \in ToSet(first) <=> x \in ToSet(ids) /\ x \in D /\ Of(home[x])[1] = x
  <2> DEFINE A == {x \in D : Of(home[x])[1] = x}
             K == {i \in DOMAIN ids : ids[i] \in DOMAIN home /\ Of(home[ids[i]])[1] = ids[i]}
  <2>1. PICK f : f = first
    OBVIOUS
  <2>2. f = [n \in DOMAIN Ascending(K) |-> ids[Ascending(K)[n]]]
    <3> HIDE DEF Of
    <3> QED BY <2>1 DEF Filtered
  <2> HIDE DEF Of
  <2>3. K \subseteq DOMAIN ids /\ \A i \in DOMAIN ids : i \in K <=> ids[i] \in A
    OBVIOUS
  <2> HIDE DEF A, K, first
  <2>4. List(f) /\ Distinct(f) /\ ToSet(f) = ToSet(ids) \cap A
    BY <2>2, <2>3, KeptIs
  <2> QED BY <2>1, <2>4 DEF A
<1>4. out = Flat(lone) \o groups
  BY DEF Grouped
<1>5. PICK a : a = lone
  OBVIOUS
<1>6. PICK f : f = first
  OBVIOUS
<1>7. PICK b : b = groups
  OBVIOUS
<1>8. PICK c : c = out
  OBVIOUS
<1>9. /\ DOMAIN b = DOMAIN f /\ b = [i \in DOMAIN f |-> b[i]]
      /\ \A i \in DOMAIN f : b[i] = [cluster |-> home[f[i]], ids |-> Of(home[f[i]])]
  <2> HIDE DEF Of, first
  <2> QED BY <1>6, <1>7
<1> HIDE DEF Of, lone, first, groups
<1>10. c = Flat(a) \o b
  BY <1>4, <1>5, <1>7, <1>8
<1>11. /\ List(f) /\ Distinct(f)
       /\ \A x : x \in ToSet(f) <=> x \in ToSet(ids) /\ x \in D /\ Of(home[x])[1] = x
  BY <1>3, <1>6
<1>12. \A i \in DOMAIN f : f[i] \in ToSet(ids) /\ f[i] \in D /\ Of(home[f[i]])[1] = f[i]
  BY <1>11 DEF ToSet
<1>13. \A i \in DOMAIN b : /\ b[i].cluster = home[f[i]] /\ b[i].ids = Of(home[f[i]])
                          /\ b[i] = [cluster |-> b[i].cluster, ids |-> b[i].ids]
  BY <1>9
<1>14. List(b)
  BY <1>9, <1>11, ListOf, ListFrom
<1>15. PICK fl : fl = Flat(a)
  OBVIOUS
<1>16. /\ ResultsOK(fl) /\ MembersOf(fl) = ToSet(a) /\ DOMAIN fl = DOMAIN a
       /\ \A i \in DOMAIN fl : fl[i].ids = <<a[i]>>
       /\ Unique(fl) /\ List(fl)
  BY <1>2, <1>5, <1>15, FlatIs DEF ResultsOK
<1>17. List(c) /\ Joined(fl, b, c)
  BY <1>10, <1>14, <1>15, <1>16, JoinIs
<1>18. \A k \in DOMAIN c : \/ k \in DOMAIN fl /\ c[k] = fl[k]
                          \/ \E j \in DOMAIN b : k = Len(fl) + j /\ c[k] = b[j]
  BY <1>17 DEF Joined
<1>19. \A k \in DOMAIN c : \/ k \in DOMAIN a /\ c[k].ids = <<a[k]>> /\ ToSet(c[k].ids) = {a[k]}
                          \/ \E j \in DOMAIN f : /\ k = Len(fl) + j /\ c[k].ids = Of(home[f[j]])
                                                 /\ ToSet(c[k].ids) = ToSet(ids) \cap {x \in D : home[x] = home[f[j]]}
  <2>1. \A x : ToSet(<<x>>) = {x}
    BY DEF ToSet
  <2>2. \A k \in DOMAIN fl : fl[k].ids = <<a[k]>> /\ ToSet(fl[k].ids) = {a[k]} /\ k \in DOMAIN a
    BY <1>16, <2>1
  <2>3. \A j \in DOMAIN b : /\ j \in DOMAIN f /\ b[j].ids = Of(home[f[j]])
                            /\ ToSet(b[j].ids) = ToSet(ids) \cap {x \in D : home[x] = home[f[j]]}
    BY <1>1, <1>9, <1>13
  <2> QED BY <1>18, <2>2, <2>3
<1>20. ResultsOK(c)
  <2>1. \A i \in DOMAIN fl : fl[i] = [cluster |-> fl[i].cluster, ids |-> fl[i].ids] /\ List(fl[i].ids)
    BY <1>16 DEF ResultsOK
  <2>2. \A i \in DOMAIN b : b[i] = [cluster |-> b[i].cluster, ids |-> b[i].ids] /\ List(b[i].ids)
    BY <1>1, <1>13
  <2>3. \A k \in DOMAIN c : c[k] = [cluster |-> c[k].cluster, ids |-> c[k].ids] /\ List(c[k].ids)
    <3> SUFFICES ASSUME NEW k \in DOMAIN c
                 PROVE  c[k] = [cluster |-> c[k].cluster, ids |-> c[k].ids] /\ List(c[k].ids)
      OBVIOUS
    <3>1. (k \in DOMAIN fl /\ c[k] = fl[k]) \/ (\E j \in DOMAIN b : c[k] = b[j])
      BY <1>18
    <3>2. CASE k \in DOMAIN fl /\ c[k] = fl[k]
      BY <2>1, <3>2
    <3>3. CASE \E j \in DOMAIN b : c[k] = b[j]
      BY <2>2, <3>3
    <3> QED BY <3>1, <3>2, <3>3
  <2> QED BY <1>17, <2>3 DEF ResultsOK
<1>21. \A i \in DOMAIN a : a[i] \in ToSet(ids) /\ a[i] \notin D
  BY <1>2, <1>5 DEF ToSet
<1>22. Unique(c)
  <2>1. \A x : Distinct(<<x>>)
    BY DEF Distinct
  <2>2. ASSUME NEW k \in DOMAIN c PROVE Distinct(c[k].ids)
    <3>1. c[k].ids = <<a[k]>> \/ \E j \in DOMAIN f : c[k].ids = Of(home[f[j]])
      BY <1>19
    <3> QED BY <1>1, <2>1, <3>1
  <2>3. ASSUME NEW i \in DOMAIN c, NEW k \in DOMAIN c, NEW x, x \in ToSet(c[i].ids), x \in ToSet(c[k].ids)
        PROVE  i = k
    <3>1. CASE x \in D
      <4>1. PICK j \in DOMAIN f : i = Len(fl) + j /\ home[x] = home[f[j]]
        BY <1>19, <1>21, <2>3, <3>1
      <4>2. PICK l \in DOMAIN f : k = Len(fl) + l /\ home[x] = home[f[l]]
        BY <1>19, <1>21, <2>3, <3>1
      <4>3. f[j] = f[l]
        BY <1>12, <4>1, <4>2
      <4>4. j = l
        BY <1>11, <4>3 DEF Distinct
      <4> QED BY <4>1, <4>2, <4>4
    <3>2. CASE x \notin D
      <4>1. i \in DOMAIN a /\ a[i] = x /\ k \in DOMAIN a /\ a[k] = x
        BY <1>19, <2>3, <3>2
      <4> QED BY <1>2, <1>5, <4>1 DEF Distinct
    <3> QED BY <3>1, <3>2
  <2> QED BY <2>2, <2>3, UniqueFrom
<1>23. \A x \in MembersOf(c) : x \in ToSet(ids)
  BY <1>19, <1>21 DEF MembersOf
<1>24. ASSUME NEW x \in ToSet(ids) PROVE x \in MembersOf(c)
  <2>1. CASE x \in D
    <3>1. PICK o : o = Of(home[x])
      OBVIOUS
    <3>2. List(o) /\ \A y : y \in ToSet(o) <=> y \in ToSet(ids) /\ y \in D /\ home[y] = home[x]
      BY <1>1, <3>1
    <3>3. x \in ToSet(o)
      BY <2>1, <3>2
    <3>4. 1 \in DOMAIN o
      BY <3>2, <3>3, ListOf DEF ToSet
    <3>5. PICK y : y = o[1]
      OBVIOUS
    <3>6. y \in ToSet(ids) /\ y \in D /\ home[y] = home[x]
      BY <3>2, <3>4, <3>5 DEF ToSet
    <3>7. y \in ToSet(f)
      BY <1>11, <3>1, <3>5, <3>6
    <3>8. PICK j \in DOMAIN f : f[j] = y
      BY <3>7 DEF ToSet
    <3>9. j \in DOMAIN b /\ b[j].ids = o
      BY <1>9, <1>13, <3>1, <3>6, <3>8
    <3>10. Len(fl) + j \in DOMAIN c /\ c[Len(fl) + j] = b[j]
      BY <1>17, <3>9 DEF Joined
    <3> QED BY <3>3, <3>9, <3>10 DEF MembersOf
  <2>2. CASE x \notin D
    <3>1. x \in ToSet(a)
      BY <1>2, <1>5, <2>2
    <3>2. PICK i \in DOMAIN fl : x \in ToSet(fl[i].ids)
      BY <1>16, <3>1 DEF MembersOf
    <3>3. i \in DOMAIN c /\ c[i] = fl[i]
      BY <1>17 DEF Joined
    <3> QED BY <3>2, <3>3 DEF MembersOf
  <2> QED BY <2>1, <2>2
<1>25. \A k \in DOMAIN c : c[k].ids # <<>>
  <2> SUFFICES ASSUME NEW k \in DOMAIN c PROVE c[k].ids # <<>>
    OBVIOUS
  <2>1. \E x : x \in ToSet(c[k].ids)
    BY <1>12, <1>19
  <2> QED BY <2>1 DEF ToSet
<1> QED BY <1>8, <1>20, <1>22, <1>23, <1>24, <1>25

\* Grouping lays the same thoughts out anew.
LEMMA GroupSound ==
  ASSUME NEW p, Group(p), SearchOK(search[p], saw[p])
  PROVE  SearchGoesOn(p)
<1> DEFINE s == search[p]
           S == saw[p]
           ids == Ids(s.items)
<1>1. /\ SearchOK(s, S) /\ SearchRecord(s) /\ s.req.topK \in 1..MaxTopK /\ s.primed = <<>>
      /\ Chosen(s, S) /\ Laid(s) /\ ToCount(s, S) /\ LookedUp(s, S) /\ s.req.group
  BY DEF Group, At, SearchOK
<1>2. PICK home : Goto(p, [s EXCEPT !.pc = "hit", !.out = Grouped(ids, home), !.todo = Grouped(ids, home)])
  BY DEF Group
<1>3. PICK out : out = Grouped(ids, home)
  OBVIOUS
<1>4. PICK n : n = [s EXCEPT !.pc = "hit", !.out = out, !.todo = out]
  OBVIOUS
<1>5. n = [pc |-> "hit", req |-> s.req, byId |-> s.byId, ambiguous |-> s.ambiguous,
           degraded |-> s.degraded, lexical |-> s.lexical, vec |-> s.vec, bm |-> s.bm,
           items |-> s.items, matched |-> s.matched, dropped |-> s.dropped,
           todo |-> out, out |-> out, primed |-> s.primed, chain |-> s.chain]
  BY <1>1, <1>4 DEF SearchRecord
<1> HIDE DEF s
<1>6. /\ n.pc = "hit" /\ n.req = s.req /\ n.byId = s.byId /\ n.ambiguous = s.ambiguous
      /\ n.lexical = s.lexical /\ n.items = s.items /\ n.out = out /\ n.todo = out /\ n.primed = <<>>
      /\ SearchRecord(n)
  BY <1>1, <1>5 DEF SearchRecord
<1>7. Chosen(n, S)
  BY <1>1, <1>6, SameChosen
<1>8. List(ids) /\ Distinct(ids)
  BY <1>1, IdsAre DEF Chosen, ItemsOK, ItemsListed
<1>9. /\ ResultsOK(out) /\ Unique(out) /\ MembersOf(out) = ToSet(ids)
      /\ \A i \in DOMAIN out : out[i].ids # <<>>
  <2> HIDE DEF ids
  <2> QED BY <1>3, <1>8, GroupedIs
<1>10. Laid(n) /\ LookedUp(n, S)
  BY <1>1, <1>6, <1>9 DEF Laid, LookedUp
<1>11. MembersOf(out) \subseteq Ever(S)
  <2>1. \A i \in DOMAIN s.items : s.items[i].id \in Ever(S)
    BY <1>1, WasThere DEF Chosen, ItemsOK
  <2>2. DOMAIN ids = DOMAIN s.items /\ \A i \in DOMAIN s.items : ids[i] = s.items[i].id
    BY <1>1, IdsAre DEF Chosen, ItemsOK, ItemsListed
  <2> QED BY <1>9, <2>1, <2>2 DEF ToSet
<1>12. ToCount(n, S)
  BY <1>6, <1>9, <1>11 DEF ToCount
<1>13. SearchOK(n, S)
  BY <1>1, <1>6, <1>7, <1>10, <1>12 DEF SearchOK
<1> QED BY <1>2, <1>3, <1>4, <1>13 DEF SearchGoesOn

\* What is left to count after the first thought of it.
LEMMA TailIs ==
  ASSUME NEW s, List(s), s # <<>>
  PROVE  /\ List(Tail(s)) /\ Len(Tail(s)) = Len(s) - 1 /\ 1 \in DOMAIN s
         /\ \A i \in DOMAIN Tail(s) : i + 1 \in DOMAIN s /\ Tail(s)[i] = s[i + 1]
<1>1. PICK t : t = Tail(s)
  OBVIOUS
<1>2. s \in Seq(ToSet(s))
  BY DEF List
<1>3. /\ t \in Seq(ToSet(s)) /\ Len(t) = Len(s) - 1 /\ 1 \in DOMAIN s
      /\ \A i \in DOMAIN t : i + 1 \in DOMAIN s /\ t[i] = s[i + 1]
  BY <1>1, <1>2
<1>4. List(t)
  BY <1>3, ListIs
<1> QED BY <1>1, <1>3, <1>4

\* Counting takes the thoughts of the results one by one.
LEMMA PastIs ==
  ASSUME NEW todo, ResultsOK(todo), todo # <<>>, \A i \in DOMAIN todo : todo[i].ids # <<>>,
         NEW t, t = Past(todo)
  PROVE  /\ Counted(todo) \in MembersOf(todo)
         /\ ResultsOK(t) /\ MembersOf(t) \subseteq MembersOf(todo)
         /\ \A i \in DOMAIN t : t[i].ids # <<>>
<1>1. /\ List(todo)
      /\ \A i \in DOMAIN todo : todo[i] = [cluster |-> todo[i].cluster, ids |-> todo[i].ids] /\ List(todo[i].ids)
  BY DEF ResultsOK
<1>2. 1 \in DOMAIN todo
  BY <1>1, TailIs
<1>3. PICK ids : ids = todo[1].ids
  OBVIOUS
<1>4. /\ List(ids) /\ ids # <<>> /\ 1 \in DOMAIN ids /\ ToSet(ids) \subseteq MembersOf(todo)
      /\ List(Tail(ids)) /\ Len(Tail(ids)) = Len(ids) - 1
      /\ \A i \in DOMAIN Tail(ids) : i + 1 \in DOMAIN ids /\ Tail(ids)[i] = ids[i + 1]
  BY <1>1, <1>2, <1>3, TailIs DEF MembersOf
<1>5. Counted(todo) \in MembersOf(todo)
  BY <1>3, <1>4 DEF Counted, ToSet
<1>6. CASE Len(ids) = 1
  <2>1. t = Tail(todo)
    BY <1>3, <1>6 DEF Past
  <2>2. List(t) /\ \A i \in DOMAIN t : i + 1 \in DOMAIN todo /\ t[i] = todo[i + 1]
    BY <1>1, <2>1, TailIs
  <2>3. \A i \in DOMAIN t : t[i] = [cluster |-> t[i].cluster, ids |-> t[i].ids] /\ List(t[i].ids)
    BY <1>1, <2>2
  <2>4. ResultsOK(t)
    BY <2>2, <2>3 DEF ResultsOK
  <2>5. MembersOf(t) \subseteq MembersOf(todo)
    BY <2>2 DEF MembersOf
  <2>6. \A i \in DOMAIN t : t[i].ids # <<>>
    BY <2>2
  <2> QED BY <1>5, <2>4, <2>5, <2>6
<1>7. CASE Len(ids) # 1
  <2>1. PICK u : u = Tail(ids)
    OBVIOUS
  <2>2. List(u) /\ u # <<>> /\ ToSet(u) \subseteq ToSet(ids)
    <3>1. Len(ids) \in Nat /\ Len(ids) # 0
      BY <1>4, ListOf
    <3>2. Len(u) # 0
      BY <1>4, <1>7, <2>1, <3>1
    <3>3. u # <<>>
      BY <3>2
    <3>4. ToSet(u) \subseteq ToSet(ids)
      BY <1>4, <2>1 DEF ToSet
    <3> QED BY <1>4, <2>1, <3>3, <3>4
  <2>3. t = [todo EXCEPT ![1].ids = u]
    BY <1>3, <1>7, <2>1 DEF Past
  <2>4. PICK m \in Nat : DOMAIN todo = 1..m
    BY <1>1, ListOf
  <2>5. todo = [i \in DOMAIN todo |-> todo[i]]
    BY <1>1 DEF List
  <2>6. DOMAIN t = 1..m /\ t = [i \in 1..m |-> t[i]]
    BY <2>3, <2>4, <2>5
  <2>7. \A i \in DOMAIN todo : i # 1 => t[i] = todo[i]
    BY <2>3
  <2>8. t[1] = [cluster |-> todo[1].cluster, ids |-> u]
    <3>1. t[1] = [todo[1] EXCEPT !.ids = u]
      BY <1>2, <2>3
    <3>2. todo[1] = [cluster |-> todo[1].cluster, ids |-> todo[1].ids]
      BY <1>1, <1>2
    <3> QED BY <3>1, <3>2
  <2>9. \A i \in DOMAIN t : /\ t[i] = [cluster |-> t[i].cluster, ids |-> t[i].ids] /\ List(t[i].ids)
                            /\ t[i].ids # <<>> /\ ToSet(t[i].ids) \subseteq ToSet(todo[i].ids)
    <3> SUFFICES ASSUME NEW i \in DOMAIN t
                 PROVE  /\ t[i] = [cluster |-> t[i].cluster, ids |-> t[i].ids] /\ List(t[i].ids)
                        /\ t[i].ids # <<>> /\ ToSet(t[i].ids) \subseteq ToSet(todo[i].ids)
      OBVIOUS
    <3>1. CASE i = 1
      BY <1>3, <2>2, <2>8, <3>1
    <3>2. CASE i # 1
      BY <1>1, <2>4, <2>6, <2>7, <3>2
    <3> QED BY <3>1, <3>2
  <2>10. ResultsOK(t)
    BY <2>6, <2>9, ListFrom DEF ResultsOK
  <2>11. MembersOf(t) \subseteq MembersOf(todo)
    <3> SUFFICES ASSUME NEW x \in MembersOf(t) PROVE x \in MembersOf(todo)
      OBVIOUS
    <3>1. PICK i \in DOMAIN t : x \in ToSet(t[i].ids)
      BY DEF MembersOf
    <3>2. i \in DOMAIN todo /\ x \in ToSet(todo[i].ids)
      BY <2>4, <2>6, <2>9, <3>1
    <3> QED BY <3>2 DEF MembersOf
  <2> QED BY <1>5, <2>9, <2>10, <2>11
<1> QED BY <1>6, <1>7

\* Counting a hit changes nothing that is answered, and a search fails over a
\* thought it has found and the store no longer has.
LEMMA HitSound ==
  ASSUME NEW p, Hit(p), SearchOK(search[p], saw[p])
  PROVE  SearchGoesOn(p)
<1> DEFINE s == search[p]
           S == saw[p]
           x == Counted(s.todo)
<1>1. /\ SearchOK(s, S) /\ SearchRecord(s) /\ s.req.topK \in 1..MaxTopK /\ s.primed = <<>>
      /\ Chosen(s, S) /\ Laid(s) /\ ToCount(s, S) /\ LookedUp(s, S)
      /\ s.pc = "hit" /\ s.todo # <<>>
  BY DEF Hit, At, SearchOK
<1>2. PICK past : past = Past(s.todo)
  OBVIOUS
<1>3. PICK pc \in {"hit", "promote"}, todo \in {past, s.todo} :
        Goto(p, [s EXCEPT !.pc = pc, !.todo = todo]) /\ (pc = "promote" => todo = s.todo)
  <2>1. CASE Has(g, x) /\ ~IsPrimer(x) /\ hits[x] + 1 >= PromoteAt
    <3>1. Goto(p, [s EXCEPT !.pc = "promote"])
      BY <2>1 DEF Hit
    <3>2. [s EXCEPT !.pc = "promote"] = [s EXCEPT !.pc = "promote", !.todo = s.todo]
      BY <1>1 DEF SearchRecord
    <3> HIDE DEF s
    <3> QED BY <3>1, <3>2
  <2>2. CASE ~(Has(g, x) /\ ~IsPrimer(x) /\ hits[x] + 1 >= PromoteAt)
    <3>1. Goto(p, [s EXCEPT !.todo = past])
      BY <1>2, <2>2 DEF Hit
    <3>2. [s EXCEPT !.todo = past] = [s EXCEPT !.pc = "hit", !.todo = past]
      BY <1>1 DEF SearchRecord
    <3> HIDE DEF s
    <3> QED BY <3>1, <3>2
  <2> QED BY <2>1, <2>2
<1>4. PICK n : n = [s EXCEPT !.pc = pc, !.todo = todo]
  OBVIOUS
<1>5. n = [pc |-> pc, req |-> s.req, byId |-> s.byId, ambiguous |-> s.ambiguous,
           degraded |-> s.degraded, lexical |-> s.lexical, vec |-> s.vec, bm |-> s.bm,
           items |-> s.items, matched |-> s.matched, dropped |-> s.dropped,
           todo |-> todo, out |-> s.out, primed |-> s.primed, chain |-> s.chain]
  BY <1>1, <1>4 DEF SearchRecord
<1> HIDE DEF s, x
<1>6. /\ n.pc = pc /\ n.req = s.req /\ n.byId = s.byId /\ n.ambiguous = s.ambiguous
      /\ n.lexical = s.lexical /\ n.items = s.items /\ n.out = s.out /\ n.todo = todo
      /\ n.primed = <<>> /\ SearchRecord(n)
  BY <1>1, <1>5 DEF SearchRecord
<1>7. Chosen(n, S)
  BY <1>1, <1>6, SameChosen
<1>8. Laid(n) /\ LookedUp(n, S)
  BY <1>1, <1>6 DEF Laid, LookedUp
<1>9. /\ ResultsOK(past) /\ MembersOf(past) \subseteq MembersOf(s.todo)
      /\ \A i \in DOMAIN past : past[i].ids # <<>>
  BY <1>1, <1>2, PastIs DEF ToCount
<1>10. ToCount(n, S)
  BY <1>1, <1>3, <1>6, <1>9 DEF ToCount
<1>11. SearchOK(n, S)
  BY <1>1, <1>3, <1>6, <1>7, <1>8, <1>10 DEF SearchOK
<1> QED BY <1>3, <1>4, <1>11 DEF SearchGoesOn

\* Promoting a thought changes nothing that is answered.
LEMMA PromoteSound ==
  ASSUME NEW p, Promote(p), g \in saw[p], SearchOK(search[p], saw[p])
  PROVE  SearchGoesOn(p)
<1> DEFINE s == search[p]
           S == saw[p]
           x == Counted(s.todo)
<1>1. /\ SearchOK(s, S) /\ SearchRecord(s) /\ s.req.topK \in 1..MaxTopK /\ s.primed = <<>>
      /\ Chosen(s, S) /\ Laid(s) /\ ToCount(s, S) /\ LookedUp(s, S) /\ s.todo # <<>>
      /\ g \in S
  BY DEF Promote, At, SearchOK
<1>2. PICK past : past = Past(s.todo)
  OBVIOUS
<1>3. /\ ResultsOK(past) /\ MembersOf(past) \subseteq MembersOf(s.todo) /\ x \in MembersOf(s.todo)
      /\ \A i \in DOMAIN past : past[i].ids # <<>>
  BY <1>1, <1>2, PastIs DEF ToCount
<1>4. PICK pc \in {"hit", "failed"}, todo \in {past, s.todo} :
        Goto(p, [s EXCEPT !.pc = pc, !.todo = todo]) /\ (pc = "failed" => ~Has(g, x))
  <2>1. CASE Has(g, x)
    <3>1. Goto(p, [s EXCEPT !.pc = "hit", !.todo = past])
      BY <1>2, <2>1 DEF Promote
    <3> HIDE DEF s
    <3> QED BY <3>1
  <2>2. CASE ~Has(g, x)
    <3>1. Goto(p, [s EXCEPT !.pc = "failed"])
      BY <2>2 DEF Promote
    <3>2. [s EXCEPT !.pc = "failed"] = [s EXCEPT !.pc = "failed", !.todo = s.todo]
      BY <1>1 DEF SearchRecord
    <3> HIDE DEF s
    <3> QED BY <2>2, <3>1, <3>2
  <2> QED BY <2>1, <2>2
<1>5. PICK n : n = [s EXCEPT !.pc = pc, !.todo = todo]
  OBVIOUS
<1>6. n = [pc |-> pc, req |-> s.req, byId |-> s.byId, ambiguous |-> s.ambiguous,
           degraded |-> s.degraded, lexical |-> s.lexical, vec |-> s.vec, bm |-> s.bm,
           items |-> s.items, matched |-> s.matched, dropped |-> s.dropped,
           todo |-> todo, out |-> s.out, primed |-> s.primed, chain |-> s.chain]
  BY <1>1, <1>5 DEF SearchRecord
<1> HIDE DEF s, x, S
<1>7. /\ n.pc = pc /\ n.req = s.req /\ n.byId = s.byId /\ n.ambiguous = s.ambiguous
      /\ n.lexical = s.lexical /\ n.items = s.items /\ n.out = s.out /\ n.todo = todo
      /\ n.primed = <<>> /\ SearchRecord(n)
  BY <1>1, <1>6 DEF SearchRecord
<1>8. Chosen(n, S)
  BY <1>1, <1>7, SameChosen
<1>9. Laid(n) /\ LookedUp(n, S)
  BY <1>1, <1>7 DEF Laid, LookedUp
<1>10. ToCount(n, S)
  BY <1>1, <1>3, <1>4, <1>7 DEF ToCount
<1>11. pc = "failed" => \E y \in Ever(S), h \in S : ~Has(h, y)
  BY <1>1, <1>3, <1>4 DEF ToCount
<1>12. SearchOK(n, S)
  BY <1>1, <1>4, <1>7, <1>8, <1>9, <1>10, <1>11 DEF SearchOK
<1> QED BY <1>4, <1>5, <1>12 DEF SearchGoesOn, S

-----------------------------------------------------------------------------
(* Primers among the results come first.                                   *)

\* found are the primers that were answered, in the primers' order and as often
\* as they are named; kept the results they leave.
Lifted(out, order, found, kept) ==
  /\ List(found) /\ Picks(found, order, {i \in DOMAIN order : order[i] \in MembersOf(out)})
  /\ ResultsOK(kept) /\ \A i \in DOMAIN kept : Distinct(kept[i].ids)
  /\ \E b \in [DOMAIN kept -> DOMAIN out] :
       /\ \A i, j \in DOMAIN kept : i < j => b[i] < b[j]
       /\ \A i \in DOMAIN kept : ToSet(kept[i].ids) = ToSet(out[b[i]].ids) \ ToSet(found)
       /\ \A k \in DOMAIN out : (\E x : x \in ToSet(out[k].ids) /\ x \notin ToSet(found)) =>
            \E i \in DOMAIN kept : b[i] = k

\* A primer is shown if a result names it.
LEMMA InAnyIs ==
  ASSUME NEW out, NEW x
  PROVE  InAny(out, x) <=> x \in MembersOf(out)
BY DEF InAny, MembersOf

\* The primers come first, and leave the results they are taken from.
LEMMA HoistedIs ==
  ASSUME NEW out, ResultsOK(out), Unique(out), NEW order, List(order), NEW z, z = Hoisted(out, order)
  PROVE  \E found, kept : z = Flat(found) \o kept /\ Lifted(out, order, found, kept)
<1> DEFINE primes == Filtered(order, LAMBDA x : InAny(out, x))
           Less(ids) == Filtered(ids, LAMBDA x : x \notin ToSet(primes))
           rest == [i \in DOMAIN out |-> [out[i] EXCEPT !.ids = Less(out[i].ids)]]
           left == Filtered(rest, LAMBDA r : r.ids # <<>>)
           M == {i \in DOMAIN order : order[i] \in MembersOf(out)}
<1>1. z = Flat(primes) \o left
  BY DEF Hoisted
<1>2. PICK found : found = primes
  OBVIOUS
<1>3. List(found) /\ Picks(found, order, M)
  <2>1. found = [n \in DOMAIN Ascending({i \in DOMAIN order : InAny(out, order[i])}) |->
                   order[Ascending({i \in DOMAIN order : InAny(out, order[i])})[n]]]
    BY <1>2 DEF Filtered
  <2>2. {i \in DOMAIN order : InAny(out, order[i])} = M
    BY InAnyIs
  <2>3. found = [n \in DOMAIN Ascending(M) |-> order[Ascending(M)[n]]]
    <3> HIDE DEF M
    <3> QED BY <2>1, <2>2
  <2>4. M \subseteq DOMAIN order
    OBVIOUS
  <2> HIDE DEF M, primes
  <2> QED BY <2>3, <2>4, FilterPicks
<1>4. ASSUME NEW ids, List(ids), Distinct(ids)
      PROVE  List(Less(ids)) /\ Distinct(Less(ids)) /\ ToSet(Less(ids)) = ToSet(ids) \ ToSet(found)
  <2> DEFINE A == ToSet(ids) \ ToSet(found)
             K == {i \in DOMAIN ids : ids[i] \notin ToSet(primes)}
  <2>1. PICK f : f = Less(ids)
    OBVIOUS
  <2> HIDE DEF primes
  <2>2. f = [n \in DOMAIN Ascending(K) |-> ids[Ascending(K)[n]]]
    BY <2>1 DEF Filtered
  <2>3. K \subseteq DOMAIN ids /\ \A i \in DOMAIN ids : i \in K <=> ids[i] \in A
    BY <1>2 DEF ToSet
  <2> HIDE DEF A, K, Less
  <2>4. List(f) /\ Distinct(f) /\ ToSet(f) = ToSet(ids) \cap A
    BY <1>4, <2>2, <2>3, KeptIs
  <2> QED BY <2>1, <2>4 DEF A
<1>5. /\ List(out)
      /\ \A i \in DOMAIN out : out[i] = [cluster |-> out[i].cluster, ids |-> out[i].ids] /\ List(out[i].ids)
  BY DEF ResultsOK
<1>6. \A i \in DOMAIN out : Distinct(out[i].ids)
  BY DEF Unique, Distinct
<1>7. PICK r : r = rest
  OBVIOUS
<1>8. DOMAIN r = DOMAIN out /\ r = [i \in DOMAIN out |-> r[i]]
      /\ \A i \in DOMAIN out : r[i] = [out[i] EXCEPT !.ids = Less(out[i].ids)]
  <2> HIDE DEF Less
  <2> QED BY <1>7
<1>9. PICK kept : kept = left
  OBVIOUS
<1> DEFINE K == {i \in DOMAIN r : r[i].ids # <<>>}
<1>10. kept = [n \in DOMAIN Ascending(K) |-> r[Ascending(K)[n]]]
  <2> HIDE DEF rest
  <2> QED BY <1>7, <1>9 DEF Filtered
<1> HIDE DEF primes, Less, rest, left
<1>11. \A i \in DOMAIN r : /\ r[i] = [cluster |-> r[i].cluster, ids |-> r[i].ids]
                            /\ List(r[i].ids) /\ Distinct(r[i].ids)
                            /\ ToSet(r[i].ids) = ToSet(out[i].ids) \ ToSet(found)
  <2> SUFFICES ASSUME NEW i \in DOMAIN r
               PROVE  /\ r[i] = [cluster |-> r[i].cluster, ids |-> r[i].ids]
                      /\ List(r[i].ids) /\ Distinct(r[i].ids)
                      /\ ToSet(r[i].ids) = ToSet(out[i].ids) \ ToSet(found)
    OBVIOUS
  <2>1. i \in DOMAIN out
    BY <1>8
  <2>2. PICK l : l = Less(out[i].ids)
    OBVIOUS
  <2>3. List(l) /\ Distinct(l) /\ ToSet(l) = ToSet(out[i].ids) \ ToSet(found)
    BY <1>4, <1>5, <1>6, <2>1, <2>2
  <2>4. out[i] = [cluster |-> out[i].cluster, ids |-> out[i].ids]
    BY <1>5, <2>1
  <2>5. r[i] = [cluster |-> out[i].cluster, ids |-> l]
    BY <1>8, <2>1, <2>2, <2>4
  <2> QED BY <2>3, <2>5
<1>12. List(r)
  BY <1>5, <1>8, ListOf, ListFrom
<1>13. K \subseteq DOMAIN r /\ \A i \in DOMAIN r : i \in K <=> r[i].ids # <<>>
  OBVIOUS
<1> HIDE DEF K
<1>14. List(kept) /\ Picks(kept, r, K)
  BY <1>10, <1>12, <1>13, FilterPicks
<1>15. PICK b \in [DOMAIN kept -> K] : /\ \A i, j \in DOMAIN kept : i < j => b[i] < b[j]
                                       /\ \A k \in K : \E i \in DOMAIN kept : b[i] = k
                                       /\ \A i \in DOMAIN kept : kept[i] = r[b[i]]
  BY <1>14 DEF Picks
<1>16. b \in [DOMAIN kept -> DOMAIN out]
  BY <1>8, <1>13, <1>15
<1>17. \A i \in DOMAIN kept : b[i] \in DOMAIN r /\ kept[i] = r[b[i]]
  BY <1>8, <1>15, <1>16
<1>18. ResultsOK(kept) /\ \A i \in DOMAIN kept : Distinct(kept[i].ids)
  <2>1. \A i \in DOMAIN kept : /\ kept[i] = [cluster |-> kept[i].cluster, ids |-> kept[i].ids]
                               /\ List(kept[i].ids) /\ Distinct(kept[i].ids)
    BY <1>11, <1>17
  <2> QED BY <1>14, <2>1 DEF ResultsOK
<1>19. \A i \in DOMAIN kept : ToSet(kept[i].ids) = ToSet(out[b[i]].ids) \ ToSet(found)
  BY <1>11, <1>17
<1>20. ASSUME NEW k \in DOMAIN out, NEW x \in ToSet(out[k].ids), x \notin ToSet(found)
       PROVE  \E i \in DOMAIN kept : b[i] = k
  <2>1. x \in ToSet(r[k].ids) /\ k \in DOMAIN r
    BY <1>8, <1>11, <1>20
  <2>2. r[k].ids # <<>>
    BY <2>1 DEF ToSet
  <2> QED BY <1>13, <1>15, <2>1, <2>2
<1>21. Lifted(out, order, found, kept)
  BY <1>3, <1>15, <1>16, <1>18, <1>19, <1>20 DEF Lifted
<1> QED BY <1>1, <1>2, <1>9, <1>21

\* Each spot of the answer then is a primer's or one of the results left.
SpotsLifted(z, found, kept) ==
  /\ \A i \in DOMAIN found : <<i, 1>> \in Spots(z) /\ IdAt(z, <<i, 1>>) = found[i]
  /\ \A i \in DOMAIN kept : \A j \in DOMAIN kept[i].ids :
       /\ <<Len(found) + i, j>> \in Spots(z)
       /\ IdAt(z, <<Len(found) + i, j>>) = kept[i].ids[j]
  /\ \A q \in Spots(z) :
       \/ q = <<q[1], 1>> /\ q[1] \in DOMAIN found /\ IdAt(z, q) = found[q[1]]
       \/ \E i \in DOMAIN kept : /\ q = <<Len(found) + i, q[2]>> /\ q[2] \in DOMAIN kept[i].ids
                                  /\ IdAt(z, q) = kept[i].ids[q[2]]

\* A spot of the hoisted answer is a primer or a spot of what is left.
LEMMA HoistedSpots ==
  ASSUME NEW found, List(found), NEW kept, List(kept)
  PROVE  SpotsLifted(Flat(found) \o kept, found, kept)
<1>1. PICK fl : fl = Flat(found)
  OBVIOUS
<1>2. List(fl) /\ DOMAIN fl = DOMAIN found /\ \A i \in DOMAIN fl : fl[i].ids = <<found[i]>>
  BY <1>1, FlatIs DEF ResultsOK
<1>3. PICK c : c = Flat(found) \o kept
  OBVIOUS
<1>4. List(c) /\ Joined(fl, kept, c) /\ Len(fl) = Len(found)
  <2>1. c = fl \o kept
    BY <1>1, <1>3
  <2>2. Len(fl) = Len(found)
    BY <1>2, ListOf
  <2> QED BY <1>2, <2>1, <2>2, JoinIs
<1>5. /\ \A i \in DOMAIN found : i \in DOMAIN c /\ c[i].ids = <<found[i]>>
      /\ \A i \in DOMAIN kept : Len(found) + i \in DOMAIN c /\ c[Len(found) + i] = kept[i]
      /\ \A k \in DOMAIN c : k \in DOMAIN found \/ \E i \in DOMAIN kept : k = Len(found) + i
  BY <1>2, <1>4 DEF Joined
<1>6. \A x : DOMAIN <<x>> = {1} /\ <<x>>[1] = x
  OBVIOUS
<1>7. \A i \in DOMAIN found : <<i, 1>> \in Spots(c) /\ IdAt(c, <<i, 1>>) = found[i]
  <2> SUFFICES ASSUME NEW i \in DOMAIN found
               PROVE  <<i, 1>> \in Spots(c) /\ IdAt(c, <<i, 1>>) = found[i]
    OBVIOUS
  <2>1. i \in DOMAIN c /\ 1 \in DOMAIN c[i].ids /\ c[i].ids[1] = found[i]
    BY <1>5, <1>6
  <2> QED BY <2>1, SpotsAre
<1>8. \A i \in DOMAIN kept : \A j \in DOMAIN kept[i].ids :
        /\ <<Len(found) + i, j>> \in Spots(c)
        /\ IdAt(c, <<Len(found) + i, j>>) = kept[i].ids[j]
  <2> SUFFICES ASSUME NEW i \in DOMAIN kept, NEW j \in DOMAIN kept[i].ids
               PROVE  /\ <<Len(found) + i, j>> \in Spots(c)
                      /\ IdAt(c, <<Len(found) + i, j>>) = kept[i].ids[j]
    OBVIOUS
  <2>1. PICK k : k = Len(found) + i
    OBVIOUS
  <2>2. k \in DOMAIN c /\ c[k] = kept[i]
    BY <1>5, <2>1
  <2>3. <<k, j>> \in Spots(c) /\ IdAt(c, <<k, j>>) = kept[i].ids[j]
    BY <2>2, SpotsAre
  <2> QED BY <2>1, <2>3
<1>9. ASSUME NEW q \in Spots(c)
      PROVE  \/ q = <<q[1], 1>> /\ q[1] \in DOMAIN found /\ IdAt(c, q) = found[q[1]]
             \/ \E i \in DOMAIN kept : /\ q = <<Len(found) + i, q[2]>> /\ q[2] \in DOMAIN kept[i].ids
                                        /\ IdAt(c, q) = kept[i].ids[q[2]]
  <2>1. /\ q = <<q[1], q[2]>> /\ q[1] \in DOMAIN c /\ q[2] \in DOMAIN c[q[1]].ids
        /\ IdAt(c, q) = c[q[1]].ids[q[2]]
    BY SpotsAre
  <2>2. CASE q[1] \in DOMAIN found
    <3>1. c[q[1]].ids = <<found[q[1]]>>
      BY <1>5, <2>2
    <3>2. q[2] = 1 /\ c[q[1]].ids[q[2]] = found[q[1]]
      BY <1>6, <2>1, <3>1
    <3> QED BY <2>1, <2>2, <3>2
  <2>3. CASE q[1] \notin DOMAIN found
    <3>1. PICK i \in DOMAIN kept : q[1] = Len(found) + i
      BY <1>5, <2>1, <2>3
    <3>2. c[q[1]] = kept[i]
      BY <1>5, <3>1
    <3> QED BY <2>1, <3>1, <3>2
  <2> QED BY <2>2, <2>3
<1>10. SpotsLifted(c, found, kept)
  BY <1>7, <1>8, <1>9 DEF SpotsLifted
<1> QED BY <1>3, <1>10

\* Nothing is answered that was not, and nothing no more.
LEMMA HoistedAnswers ==
  ASSUME NEW out, NEW order, NEW found, NEW kept, Lifted(out, order, found, kept),
         NEW n, n.out = Flat(found) \o kept
  PROVE  Answered(n) = MembersOf(out)
<1>1. PICK b \in [DOMAIN kept -> DOMAIN out] :
        /\ \A i \in DOMAIN kept : ToSet(kept[i].ids) = ToSet(out[b[i]].ids) \ ToSet(found)
        /\ \A k \in DOMAIN out : (\E x : x \in ToSet(out[k].ids) /\ x \notin ToSet(found)) =>
             \E i \in DOMAIN kept : b[i] = k
  BY DEF Lifted
<1>2. List(found) /\ List(kept) /\ \A i \in DOMAIN found : found[i] \in MembersOf(out)
  BY PickedIs DEF Lifted, ResultsOK
<1>3. PICK z : z = n.out /\ z = Flat(found) \o kept
  OBVIOUS
<1>4. /\ \A i \in DOMAIN found : <<i, 1>> \in Spots(z) /\ IdAt(z, <<i, 1>>) = found[i]
      /\ \A i \in DOMAIN kept : \A j \in DOMAIN kept[i].ids :
           /\ <<Len(found) + i, j>> \in Spots(z)
           /\ IdAt(z, <<Len(found) + i, j>>) = kept[i].ids[j]
      /\ \A q \in Spots(z) :
           \/ q = <<q[1], 1>> /\ q[1] \in DOMAIN found /\ IdAt(z, q) = found[q[1]]
           \/ \E i \in DOMAIN kept : /\ q = <<Len(found) + i, q[2]>> /\ q[2] \in DOMAIN kept[i].ids
                                      /\ IdAt(z, q) = kept[i].ids[q[2]]
  <2>1. SpotsLifted(z, found, kept)
    BY <1>2, <1>3, HoistedSpots
  <2> QED BY <2>1 DEF SpotsLifted
<1>5. ASSUME NEW q \in Spots(z) PROVE IdAt(z, q) \in MembersOf(out)
  <2>1. CASE \E i \in DOMAIN kept : q[2] \in DOMAIN kept[i].ids /\ IdAt(z, q) = kept[i].ids[q[2]]
    <3>1. PICK i \in DOMAIN kept : IdAt(z, q) \in ToSet(kept[i].ids)
      BY <2>1 DEF ToSet
    <3>2. IdAt(z, q) \in ToSet(out[b[i]].ids) /\ b[i] \in DOMAIN out
      BY <1>1, <3>1
    <3> QED BY <3>2 DEF MembersOf
  <2> QED BY <1>2, <1>4, <2>1
<1>6. ASSUME NEW x \in MembersOf(out) PROVE \E q \in Spots(z) : IdAt(z, q) = x
  <2>1. PICK k \in DOMAIN out : x \in ToSet(out[k].ids)
    BY DEF MembersOf
  <2>2. CASE x \in ToSet(found)
    <3>1. PICK i \in DOMAIN found : found[i] = x
      BY <2>2 DEF ToSet
    <3> QED BY <1>4, <3>1
  <2>3. CASE x \notin ToSet(found)
    <3>1. PICK i \in DOMAIN kept : b[i] = k
      BY <1>1, <2>1, <2>3
    <3>2. x \in ToSet(kept[i].ids)
      BY <1>1, <2>1, <2>3, <3>1
    <3>3. PICK j \in DOMAIN kept[i].ids : kept[i].ids[j] = x
      BY <3>2 DEF ToSet
    <3> QED BY <1>4, <3>3
  <2> QED BY <2>2, <2>3
<1> QED BY <1>3, <1>5, <1>6 DEF Answered

\* A primer is shown as often as the primers name it, another thought once.
LEMMA HoistedShows ==
  ASSUME NEW out, ResultsOK(out), Unique(out), NEW order, List(order), NEW found, NEW kept,
         Lifted(out, order, found, kept), NEW n, n.out = Flat(found) \o kept, NEW x
  PROVE  Shows(n, x) > 1 => Shows(n, x) = Times(order, x)
<1> DEFINE M == {i \in DOMAIN order : order[i] \in MembersOf(out)}
<1>1. PICK b \in [DOMAIN kept -> DOMAIN out] :
        /\ \A i, j \in DOMAIN kept : i < j => b[i] < b[j]
        /\ \A i \in DOMAIN kept : ToSet(kept[i].ids) = ToSet(out[b[i]].ids) \ ToSet(found)
  BY DEF Lifted
<1>2. List(found) /\ List(kept) /\ Picks(found, order, M) /\ \A i \in DOMAIN kept : Distinct(kept[i].ids)
  BY DEF Lifted, ResultsOK
<1>3. PICK z : z = n.out /\ z = Flat(found) \o kept
  OBVIOUS
<1>4. /\ \A i \in DOMAIN found : <<i, 1>> \in Spots(z) /\ IdAt(z, <<i, 1>>) = found[i]
      /\ \A q \in Spots(z) :
           \/ q = <<q[1], 1>> /\ q[1] \in DOMAIN found /\ IdAt(z, q) = found[q[1]]
           \/ \E i \in DOMAIN kept : /\ q = <<Len(found) + i, q[2]>> /\ q[2] \in DOMAIN kept[i].ids
                                      /\ IdAt(z, q) = kept[i].ids[q[2]]
  <2>1. SpotsLifted(z, found, kept)
    BY <1>2, <1>3, HoistedSpots
  <2> QED BY <2>1 DEF SpotsLifted
<1>5. \A i \in DOMAIN kept : \A j \in DOMAIN kept[i].ids :
        /\ kept[i].ids[j] \notin ToSet(found)
        /\ b[i] \in DOMAIN out /\ kept[i].ids[j] \in ToSet(out[b[i]].ids)
  <2> SUFFICES ASSUME NEW i \in DOMAIN kept, NEW j \in DOMAIN kept[i].ids
               PROVE  /\ kept[i].ids[j] \notin ToSet(found)
                      /\ b[i] \in DOMAIN out /\ kept[i].ids[j] \in ToSet(out[b[i]].ids)
    OBVIOUS
  <2>1. kept[i].ids[j] \in ToSet(kept[i].ids)
    BY DEF ToSet
  <2> QED BY <1>1, <2>1
<1>6. CASE x \in ToSet(found)
  <2> DEFINE A == {q \in Spots(z) : IdAt(z, q) = x}
             B == {k \in DOMAIN order : order[k] = x}
  <2>1. PICK a \in [DOMAIN found -> M] :
          /\ \A i, j \in DOMAIN found : i < j => a[i] < a[j]
          /\ \A k \in M : \E i \in DOMAIN found : a[i] = k
          /\ \A i \in DOMAIN found : found[i] = order[a[i]]
    BY <1>2 DEF Picks
  <2>2. \A q \in A : q = <<q[1], 1>> /\ q[1] \in DOMAIN found /\ found[q[1]] = x
    BY <1>4, <1>5, <1>6
  <2>3. IsFiniteSet(B)
    <3>1. IsFiniteSet(DOMAIN order) /\ B \subseteq DOMAIN order
      BY SeqFinite DEF List
    <3> QED BY <3>1, FS_Subset
  <2>4. \A i \in DOMAIN found : a[i] \in DOMAIN order /\ order[a[i]] = found[i] /\ a[i] \in M
    BY <2>1
  <2>5. \A k \in B : \E i \in DOMAIN found : a[i] = k /\ found[i] = x
    <3>1. PICK m \in DOMAIN found : found[m] = x
      BY <1>6 DEF ToSet
    <3>2. x \in MembersOf(out)
      BY <2>4, <3>1
    <3>3. \A k \in B : k \in M
      BY <3>2
    <3> QED BY <2>1, <3>3
  <2>6. \A i, j \in DOMAIN found : a[i] = a[j] => i = j
    <3> SUFFICES ASSUME NEW i \in DOMAIN found, NEW j \in DOMAIN found, i # j PROVE a[i] # a[j]
      OBVIOUS
    <3>1. i \in Int /\ j \in Int /\ a[i] \in Int /\ a[j] \in Int
      BY <1>2, <2>4, ListOf
    <3>2. i < j \/ j < i
      BY <3>1
    <3>3. a[i] < a[j] \/ a[j] < a[i]
      BY <2>1, <3>2
    <3> QED BY <3>1, <3>3
  <2> HIDE DEF M
  <2>7. PICK f : f = [q \in A |-> a[q[1]]]
    OBVIOUS
  <2>8. f \in [A -> B] /\ \A q \in A : f[q] = a[q[1]]
    <3>1. \A q \in A : a[q[1]] \in B
      BY <2>2, <2>4
    <3> HIDE DEF A, B
    <3> QED BY <2>7, <3>1
  <2>9. \A k \in B : \E q \in A : f[q] = k
    <3> SUFFICES ASSUME NEW k \in B PROVE \E q \in A : f[q] = k
      OBVIOUS
    <3>1. PICK i \in DOMAIN found : a[i] = k /\ found[i] = x
      BY <2>5
    <3>2. <<i, 1>> \in A
      BY <1>4, <3>1
    <3>3. f[<<i, 1>>] = a[i]
      BY <2>8, <3>2
    <3> QED BY <3>1, <3>2, <3>3
  <2>10. \A q, r \in A : f[q] = f[r] => q = r
    <3> SUFFICES ASSUME NEW q \in A, NEW r \in A, f[q] = f[r] PROVE q = r
      OBVIOUS
    <3>1. q[1] = r[1]
      BY <2>2, <2>6, <2>8
    <3> QED BY <2>2, <3>1
  <2>11. Shows(n, x) = Cardinality(A) /\ Times(order, x) = Cardinality(B)
    BY <1>3 DEF Shows, Times
  <2> HIDE DEF A, B
  <2>12. f \in Injection(A, B) /\ f \in Surjection(A, B)
    BY <2>8, <2>9, <2>10 DEF Injection, IsInjective, Surjection
  <2>13. IsFiniteSet(A) /\ Cardinality(A) = Cardinality(B)
    BY <2>3, <2>12, FS_Injection
  <2> QED BY <2>11, <2>13
<1>7. CASE x \notin ToSet(found)
  <2>1. \A i \in DOMAIN found : found[i] # x
    BY <1>7 DEF ToSet
  <2>2. ASSUME NEW q \in Spots(z), NEW r \in Spots(z), IdAt(z, q) = x, IdAt(z, r) = x
        PROVE  q = r
    <3>1. PICK i \in DOMAIN kept : /\ q = <<Len(found) + i, q[2]>> /\ q[2] \in DOMAIN kept[i].ids
                                   /\ kept[i].ids[q[2]] = x
      BY <1>4, <2>1, <2>2
    <3>2. PICK j \in DOMAIN kept : /\ r = <<Len(found) + j, r[2]>> /\ r[2] \in DOMAIN kept[j].ids
                                   /\ kept[j].ids[r[2]] = x
      BY <1>4, <2>1, <2>2
    <3>3. /\ b[i] \in DOMAIN out /\ x \in ToSet(out[b[i]].ids)
          /\ b[j] \in DOMAIN out /\ x \in ToSet(out[b[j]].ids)
      BY <1>5, <3>1, <3>2
    <3>4. b[i] = b[j]
      <4>1. \E k \in DOMAIN out[b[i]].ids, l \in DOMAIN out[b[j]].ids :
              out[b[i]].ids[k] = x /\ out[b[j]].ids[l] = x
        BY <3>3 DEF ToSet
      <4> QED BY <3>3, <4>1 DEF Unique
    <3>5. i = j
      <4>1. i \in Int /\ j \in Int
        BY <1>2, ListOf
      <4>2. SUFFICES ASSUME i # j PROVE FALSE
        OBVIOUS
      <4>3. i < j \/ j < i
        BY <4>1, <4>2
      <4>4. b[i] < b[j] \/ b[j] < b[i]
        BY <1>1, <4>3
      <4>5. b[i] < b[i]
        BY <3>4, <4>4
      <4>6. b[i] \in Int
        BY <3>3, ListOf DEF ResultsOK
      <4> QED BY <4>5, <4>6
    <3>6. q[2] = r[2]
      BY <1>2, <3>1, <3>2, <3>5 DEF Distinct
    <3> QED BY <3>1, <3>2, <3>5, <3>6
  <2>3. Shows(n, x) \in {0, 1}
    BY <1>3, <2>2, OneSpot
  <2> QED BY <2>3
<1> QED BY <1>6, <1>7

\* What no primer is stays in its order.
LEMMA HoistedOrder ==
  ASSUME NEW s, NEW S, Chosen(s, S), s.out = Flat(Ids(s.items)), NEW order, NEW found, NEW kept,
         Lifted(s.out, order, found, kept), NEW n, n.out = Flat(found) \o kept,
         n.req = s.req, n.primed = order
  PROVE  DoubtsLast(n, S)
<1>1. PICK b \in [DOMAIN kept -> DOMAIN s.out] :
        /\ \A i, j \in DOMAIN kept : i < j => b[i] < b[j]
        /\ \A i \in DOMAIN kept : ToSet(kept[i].ids) = ToSet(s.out[b[i]].ids) \ ToSet(found)
  BY DEF Lifted
<1>2. List(found) /\ List(kept)
  BY DEF Lifted, ResultsOK
<1>3. \A i \in DOMAIN found : found[i] \in ToSet(order)
  <2>1. PICK M : M = {i \in DOMAIN order : order[i] \in MembersOf(s.out)}
    OBVIOUS
  <2>2. \A i \in DOMAIN found : \E k \in M : found[i] = order[k]
    BY <2>1, PickedIs DEF Lifted
  <2>3. \A k \in M : order[k] \in ToSet(order)
    BY <2>1 DEF ToSet
  <2> QED BY <2>2, <2>3
<1>4. PICK z : z = n.out /\ z = Flat(found) \o kept
  OBVIOUS
<1>5. \A q \in Spots(z) :
        \/ q = <<q[1], 1>> /\ q[1] \in DOMAIN found /\ IdAt(z, q) = found[q[1]]
        \/ \E i \in DOMAIN kept : /\ q = <<Len(found) + i, q[2]>> /\ q[2] \in DOMAIN kept[i].ids
                                   /\ IdAt(z, q) = kept[i].ids[q[2]]
  <2>1. SpotsLifted(z, found, kept)
    BY <1>2, <1>4, HoistedSpots
  <2> QED BY <2>1 DEF SpotsLifted
<1>6. /\ List(s.items)
      /\ \A i, j \in DOMAIN s.items : i < j => ~AlwaysBehind(S, s.req, s.items[i].id, s.items[j].id)
  BY DEF Chosen, ItemsOK, ItemsListed
<1>7. DOMAIN s.out = DOMAIN s.items /\ \A i \in DOMAIN s.out : ToSet(s.out[i].ids) = {s.items[i].id}
  <2>1. PICK ids : ids = Ids(s.items)
    OBVIOUS
  <2>2. /\ List(ids) /\ DOMAIN ids = DOMAIN s.items
        /\ \A i \in DOMAIN ids : ids[i] = s.items[i].id
    BY <1>6, <2>1, IdsAre
  <2>3. /\ DOMAIN s.out = DOMAIN ids /\ \A i \in DOMAIN ids : s.out[i].ids = <<ids[i]>>
    BY <2>1, <2>2, FlatIs
  <2>4. \A x : ToSet(<<x>>) = {x}
    BY DEF ToSet
  <2> QED BY <2>2, <2>3, <2>4
<1>8. \A i \in DOMAIN kept : \A j \in DOMAIN kept[i].ids :
        b[i] \in DOMAIN s.items /\ kept[i].ids[j] = s.items[b[i]].id
  <2> SUFFICES ASSUME NEW i \in DOMAIN kept, NEW j \in DOMAIN kept[i].ids
               PROVE  b[i] \in DOMAIN s.items /\ kept[i].ids[j] = s.items[b[i]].id
    OBVIOUS
  <2>1. kept[i].ids[j] \in ToSet(kept[i].ids)
    BY DEF ToSet
  <2>2. b[i] \in DOMAIN s.out
    BY <1>1
  <2> QED BY <1>1, <1>7, <2>1, <2>2
<1> SUFFICES ASSUME NEW q \in Spots(z), NEW r \in Spots(z), q[1] < r[1],
                    IdAt(z, q) \notin ToSet(order), IdAt(z, r) \notin ToSet(order)
             PROVE  ~AlwaysBehind(S, s.req, IdAt(z, q), IdAt(z, r))
  BY <1>4 DEF DoubtsLast
<1>9. PICK i \in DOMAIN kept : /\ q[1] = Len(found) + i /\ b[i] \in DOMAIN s.items
                                /\ IdAt(z, q) = s.items[b[i]].id
  <2>1. PICK k \in DOMAIN kept : /\ q = <<Len(found) + k, q[2]>> /\ q[2] \in DOMAIN kept[k].ids
                                 /\ IdAt(z, q) = kept[k].ids[q[2]]
    BY <1>3, <1>5
  <2>2. q[1] = Len(found) + k
    BY <2>1
  <2> QED BY <1>8, <2>1, <2>2
<1>10. PICK j \in DOMAIN kept : /\ r[1] = Len(found) + j /\ b[j] \in DOMAIN s.items
                                 /\ IdAt(z, r) = s.items[b[j]].id
  <2>1. PICK k \in DOMAIN kept : /\ r = <<Len(found) + k, r[2]>> /\ r[2] \in DOMAIN kept[k].ids
                                 /\ IdAt(z, r) = kept[k].ids[r[2]]
    BY <1>3, <1>5
  <2>2. r[1] = Len(found) + k
    BY <2>1
  <2> QED BY <1>8, <2>1, <2>2
<1>11. i < j
  <2>1. i \in Int /\ j \in Int /\ Len(found) \in Int
    BY <1>2, ListOf
  <2> QED BY <1>9, <1>10, <2>1
<1>12. b[i] < b[j]
  BY <1>1, <1>11
<1> QED BY <1>6, <1>9, <1>10, <1>12

\* Hoisting the primers changes the order of the answer only.
LEMMA HoistSound ==
  ASSUME NEW p, Hoist(p), List(primers), SearchOK(search[p], saw[p])
  PROVE  SearchGoesOn(p)
<1> DEFINE s == search[p]
           S == saw[p]
<1>1. /\ SearchOK(s, S) /\ SearchRecord(s) /\ s.req.topK \in 1..MaxTopK
      /\ Chosen(s, S) /\ Laid(s) /\ LookedUp(s, S)
  BY DEF Hoist, At, SearchOK
<1>2. PICK out : out = Hoisted(s.out, primers)
  OBVIOUS
<1>3. PICK n : n = [Finished(s) EXCEPT !.primed = primers, !.out = out]
  OBVIOUS
<1>4. Goto(p, n)
  BY <1>2, <1>3 DEF Hoist
<1>5. n = [pc |-> "done", req |-> s.req, byId |-> s.byId, ambiguous |-> s.ambiguous,
           degraded |-> s.degraded, lexical |-> s.lexical, vec |-> s.vec, bm |-> s.bm,
           items |-> s.items, matched |-> s.matched, dropped |-> s.dropped,
           todo |-> s.todo, out |-> out, primed |-> primers, chain |-> s.chain]
  BY <1>1, <1>3 DEF SearchRecord, Finished
<1> HIDE DEF s
<1>6. /\ n.pc = "done" /\ n.req = s.req /\ n.byId = s.byId /\ n.ambiguous = s.ambiguous
      /\ n.lexical = s.lexical /\ n.items = s.items /\ n.out = out /\ n.primed = primers
      /\ SearchRecord(n)
  BY <1>1, <1>5 DEF SearchRecord
<1>7. Chosen(n, S)
  BY <1>1, <1>6, SameChosen
<1>8. LookedUp(n, S)
  BY <1>1, <1>6 DEF LookedUp
<1>9. /\ ResultsOK(s.out) /\ Unique(s.out) /\ MembersOf(s.out) = ToSet(Ids(s.items))
      /\ ~s.req.group => s.out = Flat(Ids(s.items))
  BY <1>1 DEF Laid
<1>10. PICK found, kept : out = Flat(found) \o kept /\ Lifted(s.out, primers, found, kept)
  BY <1>2, <1>9, HoistedIs
<1>11. n.out = Flat(found) \o kept
  BY <1>6, <1>10
<1>12. Answered(n) = ToSet(Ids(s.items))
  BY <1>9, <1>10, <1>11, HoistedAnswers
<1>13. /\ List(n.items) /\ Distinct(Ids(n.items)) /\ Len(n.items) <= n.req.topK
       /\ \A i \in DOMAIN n.items : WasInScope(n, S, n.items[i].id)
       /\ Suppresses(n) => \A i \in DOMAIN n.items : \E h \in S : ~Replaced(h, n.items[i].id)
  BY <1>7 DEF Chosen, ItemsOK, ItemsListed
<1>14. /\ List(Ids(n.items)) /\ Len(Ids(n.items)) = Len(n.items)
       /\ DOMAIN Ids(n.items) = DOMAIN n.items
       /\ \A i \in DOMAIN n.items : Ids(n.items)[i] = n.items[i].id
  BY <1>13, IdsAre
<1>15. HitsSound(n, S)
  <2>1. Cardinality(Answered(n)) <= n.req.topK
    BY <1>6, <1>12, <1>13, <1>14, DistinctCount
  <2>2. \A x \in Answered(n) : \E i \in DOMAIN n.items : x = n.items[i].id
    BY <1>6, <1>12, <1>14 DEF ToSet
  <2>3. \A x : Shows(n, x) > 1 => Shows(n, x) = Times(n.primed, x)
    BY <1>6, <1>9, <1>10, <1>11, HoistedShows
  <2> QED BY <1>13, <2>1, <2>2, <2>3 DEF HitsSound
<1>16. DoubtsLast(n, S)
  <2>1. CASE n.req.group
    BY <2>1 DEF DoubtsLast
  <2>2. CASE ~n.req.group
    BY <1>1, <1>6, <1>9, <1>10, <1>11, <2>2, HoistedOrder
  <2> QED BY <2>1, <2>2
<1>17. SearchOK(n, S)
  BY <1>1, <1>6, <1>7, <1>8, <1>12, <1>15, <1>16, LookedUpReason DEF SearchOK
<1> QED BY <1>4, <1>17 DEF SearchGoesOn

-----------------------------------------------------------------------------
(* The invariant of the searches holds.                                    *)

\* The list without x.
Without(s, x) == Filtered(s, LAMBDA y : y # x)

\* A step is seen if it writes, and leaves a primer behind, takes one away or
\* does neither.
StepSees ==
  /\ UNCHANGED saw \/ See(g')
  /\ \/ UNCHANGED primers
     \/ \E x : primers' = Append(primers, x)
     \/ \E x : primers' = Without(primers, x)

\* Every step is seen.
LEMMA NextSees == [Next]_vars => StepSees
<1>1. ASSUME NEW p \in Processes, SearchStep(p) PROVE StepSees
  <2>1. CASE Promote(p)
    <3>1. (UNCHANGED saw \/ See(g')) /\ (UNCHANGED primers \/ \E x : primers' = Append(primers, x))
      BY <2>1 DEF Promote
    <3> QED BY <3>1 DEF StepSees
  <2>2. CASE Hit(p)
    <3>1. UNCHANGED <<primers, saw>>
      BY <2>2 DEF Hit
    <3> QED BY <3>1 DEF StepSees
  <2>3. CASE ~Promote(p) /\ ~Hit(p)
    <3>1. CASE Ask(p) \/ Embedded(p) \/ NoEmbedding(p)
      BY <3>1, Zenon DEF Ask, Embedded, NoEmbedding, corpus, StepSees
    <3>2. CASE VecLeg(p) \/ BmLeg(p) \/ LegFails(p)
      BY <3>2, Zenon DEF VecLeg, BmLeg, LegFails, corpus, StepSees
    <3>3. CASE Hydrate(p) \/ FilterTags(p) \/ ReadReplaces(p) \/ Stand(p)
      BY <3>3, Zenon DEF Hydrate, FilterTags, ReadReplaces, Stand, corpus, StepSees
    <3>4. CASE Chain(p) \/ Group(p) \/ Hoist(p)
      BY <3>4, Zenon DEF Chain, Group, Hoist, corpus, StepSees
    <3> QED BY <1>1, <2>3, <3>1, <3>2, <3>3, <3>4 DEF SearchStep
  <2> QED BY <2>1, <2>2, <2>3
<1>2. ASSUME NEW p \in Processes, PlanStep(p) PROVE StepSees
  <2>1. UNCHANGED <<corpus, saw, writes>>
    BY <1>2, Zenon DEF PlanStep, Start, ReadPending, ReadStored, Embed, EmbedFails, Place,
       PlaceByCluster, CheckRoom, PlaceByParent, Conclude
  <2> QED BY <2>1, Zenon DEF corpus, StepSees
<1>3. ASSUME NEW p \in Processes, AgendaStep(p) PROVE StepSees
  <2>1. CASE Reflect(p)
    <3>1. UNCHANGED primers /\ (UNCHANGED saw \/ See(g'))
      BY <2>1 DEF Reflect, corpus
    <3> QED BY <3>1 DEF StepSees
  <2>2. CASE ~Reflect(p)
    <3>1. UNCHANGED <<corpus, goals, notes, saw, writes>>
      BY <1>3, <2>2, Zenon DEF AgendaStep, ReadDue, ReadOutdated, ReadUpstream, Rank, ReadPrimers, ReadOwn,
         ReadGlobal, Count, Page, ReadEdges, FindProject
    <3> QED BY <3>1, Zenon DEF corpus, StepSees
  <2> QED BY <2>1, <2>2
<1>4. ASSUME Others PROVE StepSees
  <2>1. ASSUME NEW new, Write(new) PROVE See(g')
    BY <2>1 DEF Write
  <2>2. ASSUME NEW id, Wake(id) PROVE StepSees
    BY <2>1, <2>2, Zenon DEF Wake, StepSees
  <2>3. ASSUME NEW id, NEW d, Update(id, d) \/ LateEdit(id, d) PROVE StepSees
    BY <2>1, <2>3, Zenon DEF Update, LateEdit, StepSees
  <2>4. ASSUME NEW s, NEW t, NEW type, Link(s, t, type) PROVE StepSees
    BY <2>1, <2>4, Zenon DEF Link, StepSees
  <2>5. ASSUME NEW e, NEW type, Unlink(e) \/ Retype(e, type) PROVE StepSees
    BY <2>1, <2>5, Zenon DEF Unlink, Retype, StepSees
  <2>6. ASSUME NEW id, Work(id) PROVE StepSees
    BY <2>6, Zenon DEF Work, StepSees
  <2>7. ASSUME NEW id, Delete(id) PROVE StepSees
    <3>1. See(g') /\ primers' = Without(primers, id)
      BY <2>1, <2>7, Zenon DEF Delete, Without
    <3> QED BY <3>1 DEF StepSees
  <2> QED BY <1>4, <2>2, <2>3, <2>4, <2>5, <2>6, <2>7 DEF Others
<1>5. ASSUME UNCHANGED vars PROVE StepSees
  BY <1>5 DEF vars, StepSees
<1> QED BY <1>1, <1>2, <1>3, <1>4, <1>5 DEF Next

\* The primers stay a list.
LEMMA PrimersStay ==
  ASSUME List(primers), StepSees
  PROVE  List(primers')
<1>1. ASSUME NEW x, primers' = Append(primers, x) PROVE List(primers')
  <2> DEFINE A == ToSet(primers) \cup {x}
  <2>1. primers \in Seq(A) /\ x \in A
    BY DEF List
  <2> HIDE DEF A
  <2>2. primers' \in Seq(A)
    BY <1>1, <2>1
  <2> QED BY <2>2, ListIs
<1>2. ASSUME NEW x, primers' = Without(primers, x) PROVE List(primers')
  <2> DEFINE K == {i \in DOMAIN primers : primers[i] # x}
  <2>1. PICK f : f = primers'
    OBVIOUS
  <2>2. f = [n \in DOMAIN Ascending(K) |-> primers[Ascending(K)[n]]]
    BY <1>2, <2>1 DEF Without, Filtered
  <2>3. K \subseteq DOMAIN primers
    OBVIOUS
  <2> HIDE DEF K
  <2>4. List(f)
    BY <2>2, <2>3, FilterPicks
  <2> QED BY <2>1, <2>4
<1> QED BY <1>1, <1>2 DEF StepSees

\* There is no end to what a call may see, but at any time it has seen finitely
\* many thoughts.
LEMMA EverStays ==
  ASSUME StoreMoves, StepSees, NEW p \in Processes, IsFiniteSet(Ever(saw[p]))
  PROVE  IsFiniteSet(Ever(saw'[p]))
<1>1. saw'[p] = saw[p] \/ saw'[p] = {} \/ saw'[p] = saw[p] \cup {g'}
  BY DEF StepSees, See
<1>2. IsFiniteSet(DOMAIN g'.th)
  BY DEF StoreMoves, Tables
<1>3. Ever({}) = {} /\ IsFiniteSet({})
  BY FS_EmptySet DEF Ever
<1>4. Ever(saw[p] \cup {g'}) = Ever(saw[p]) \cup DOMAIN g'.th
  BY DEF Ever
<1>5. IsFiniteSet(Ever(saw[p]) \cup DOMAIN g'.th)
  BY <1>2, FS_Union
<1> QED BY <1>1, <1>3, <1>4, <1>5

\* There are finitely many vectors.
LEMMA VectorsStay ==
  ASSUME StoreMoves, Tables(g), IsFiniteSet(DOMAIN vec)
  PROVE  IsFiniteSet(DOMAIN vec')
<1>1. DOMAIN vec' \subseteq DOMAIN vec \cup DOMAIN g.th
  BY DEF StoreMoves, Has
<1>2. IsFiniteSet(DOMAIN vec \cup DOMAIN g.th)
  BY FS_Union DEF Tables
<1> QED BY <1>1, <1>2, FS_Subset

\* A step of a search is one of a search that has begun.
LEMMA SearchBegun ==
  ASSUME NEW p, SearchStep(p)
  PROVE  search[p] # NoSearch
<1>1. search[p].pc # "idle"
  BY Zenon DEF SearchStep, Ask, Embedded, NoEmbedding, VecLeg, BmLeg, LegFails, Hydrate,
     FilterTags, ReadReplaces, Stand, Chain, Group, Hit, Promote, Hoist, At
<1> QED BY <1>1 DEF NoSearch

\* No search has begun.
LEMMA InitSearches == Init => SearchesOK
<1> SUFFICES ASSUME Init PROVE SearchesOK
  OBVIOUS
<1>1. PICK s \in Scenarios :
        /\ g = s.g /\ vec = s.vec /\ primers = s.primers
        /\ saw = [p \in Processes |-> IF p \in DOMAIN s.asks \cup DOMAIN s.plans \cup DOMAIN s.sheets
                                      THEN {s.g} ELSE {}]
        /\ search = [p \in Processes |-> IF p \in DOMAIN s.asks THEN Fresh(s.asks[p]) ELSE NoSearch]
  BY DEF Init
<1>2. IsFiniteSet(DOMAIN vec) /\ List(primers) /\ Tables(g)
  BY <1>1, ListIs, ScenariosAssumption
<1>3. search = [p \in Processes |-> search[p]]
  BY <1>1
<1>4. ASSUME NEW p \in Processes
      PROVE  search[p] = NoSearch \/ (g \in saw[p] /\ IsFiniteSet(Ever(saw[p])) /\ SearchOK(search[p], saw[p]))
  <2>1. CASE p \in DOMAIN s.asks
    <3>1. PICK req : req = s.asks[p] /\ req.topK \in 1..MaxTopK
      BY <2>1, ScenariosAssumption
    <3>2. search[p] = Fresh(req) /\ saw[p] = {g}
      BY <1>1, <2>1, <3>1
    <3>3. IsFiniteSet(Ever({g}))
      <4>1. Ever({g}) = DOMAIN g.th
        BY DEF Ever
      <4> QED BY <1>2, <4>1 DEF Tables
    <3>4. PICK f : f = Fresh(req)
      OBVIOUS
    <3>5. f.pc = "ask" /\ f.req = req /\ f.primed = <<>> /\ SearchRecord(f)
      BY <3>4 DEF Fresh, SearchRecord
    <3>6. SearchOK(f, {g})
      BY <3>1, <3>4, <3>5 DEF SearchOK
    <3> QED BY <3>2, <3>3, <3>4, <3>6
  <2>2. CASE p \notin DOMAIN s.asks
    BY <1>1, <2>2
  <2> QED BY <2>1, <2>2
<1> QED BY <1>2, <1>3, <1>4 DEF SearchesOK

\* What a search knows after any of its steps.
LEMMA SearchStepSound ==
  ASSUME NEW p, SearchStep(p), g \in saw[p], Tables(g), IsFiniteSet(Ever(saw[p])),
         IsFiniteSet(DOMAIN vec), List(primers), SearchOK(search[p], saw[p])
  PROVE  SearchGoesOn(p)
<1>1. CASE Ask(p) \/ Embedded(p) \/ NoEmbedding(p) \/ LegFails(p)
  BY <1>1, AskSound, LegSteps
<1>2. CASE VecLeg(p) \/ BmLeg(p) \/ Hydrate(p)
  BY <1>2, VecLegSound, BmLegSound, HydrateSound
<1>3. CASE FilterTags(p) \/ ReadReplaces(p) \/ Stand(p) \/ Chain(p) \/ Group(p)
  BY <1>3, FilterTagsSound, ReadReplacesSound, StandSound, ChainSound, GroupSound
<1>4. CASE Hit(p) \/ Promote(p) \/ Hoist(p)
  BY <1>4, HitSound, PromoteSound, HoistSound
<1> QED BY <1>1, <1>2, <1>3, <1>4 DEF SearchStep

\* The invariant is inductive: what no search wrote is one more store it sees.
LEMMA NextSearches == RInv /\ SearchesOK /\ [Next]_vars => SearchesOK'
<1> SUFFICES ASSUME RInv, SearchesOK, [Next]_vars PROVE SearchesOK'
  OBVIOUS
<1>1. StoreMoves /\ StoreOK /\ StepSees
  BY StepMoves, RInvIs, NextSees
<1>2. /\ IsFiniteSet(DOMAIN vec) /\ List(primers) /\ Tables(g)
      /\ search = [p \in Processes |-> search[p]]
  BY <1>1 DEF SearchesOK, StoreOK
<1>3. IsFiniteSet(DOMAIN vec') /\ List(primers')
  BY <1>1, <1>2, VectorsStay, PrimersStay
<1>4. ASSUME NEW q \in Processes, search[q] # NoSearch, NEW n, SearchOK(n, saw[q])
      PROVE  g' \in saw'[q] /\ IsFiniteSet(Ever(saw'[q])) /\ SearchOK(n, saw'[q])
  <2>1. g \in saw[q] /\ IsFiniteSet(Ever(saw[q]))
    BY <1>4 DEF SearchesOK
  <2>2. saw[q] \subseteq saw'[q] /\ g' \in saw'[q] /\ saw[q] # {}
    BY <1>1, <2>1 DEF StoreMoves
  <2>3. IsFiniteSet(Ever(saw'[q]))
    BY <1>1, <2>1, EverStays
  <2> QED BY <1>4, <2>2, <2>3, SearchMoved
<1>5. ASSUME NEW q \in Processes, search'[q] = search[q]
      PROVE  search'[q] = NoSearch
               \/ (g' \in saw'[q] /\ IsFiniteSet(Ever(saw'[q])) /\ SearchOK(search'[q], saw'[q]))
  BY <1>4, <1>5 DEF SearchesOK
<1>6. ASSUME NEW p \in Processes, SearchStep(p) PROVE SearchesOK'
  <2>1. search[p] # NoSearch
    BY <1>6, SearchBegun
  <2>2. g \in saw[p] /\ IsFiniteSet(Ever(saw[p])) /\ SearchOK(search[p], saw[p])
    BY <2>1 DEF SearchesOK
  <2>3. PICK n : search' = [search EXCEPT ![p] = n] /\ SearchOK(n, saw[p])
    BY <1>2, <1>6, <2>2, SearchStepSound DEF SearchGoesOn, Goto
  <2>4. /\ search'[p] = n /\ search' = [q \in Processes |-> search'[q]]
        /\ \A q \in Processes \ {p} : search'[q] = search[q]
    BY <1>2, <2>3
  <2>5. g' \in saw'[p] /\ IsFiniteSet(Ever(saw'[p])) /\ SearchOK(search'[p], saw'[p])
    BY <1>4, <2>1, <2>3, <2>4
  <2> QED BY <1>3, <1>5, <2>4, <2>5 DEF SearchesOK
<1>7. CASE UNCHANGED search
  BY <1>2, <1>3, <1>5, <1>7 DEF SearchesOK
<1> QED BY <1>6, <1>7 DEF Next, vars

\* And it is what AnswerSound says.
LEMMA SearchesSound == SearchesOK => AnswerSound
BY DEF SearchesOK, SearchOK, AnswerSound, NoSearch

\* And what AnswerComplete says.
LEMMA SearchesComplete == SearchesOK => AnswerComplete
<1> SUFFICES ASSUME SearchesOK, NEW p \in Processes, search[p].pc = "done",
                    NEW s, s = search[p], NEW S, S = saw[p]
             PROVE  /\ (s.byId /\ FewNamed(s, S)) => \A x \in Ever(S) : Always(s, S, x) => x \in Answered(s)
                    /\ (/\ ~s.byId /\ s.req.hybrid /\ s.lexical /\ FewFound(s, S)
                        /\ Cardinality(Answered(s)) < s.req.topK) =>
                         \A x \in Ever(S) :
                           (/\ Always(s, S, x) /\ Worded(s, S, x)
                            /\ Suppresses(s) => \A h \in S : ~Replaced(h, x)) => x \in Answered(s)
  BY DEF AnswerComplete
<1>1. Chosen(s, S) /\ Answered(s) = ToSet(Ids(s.items))
  BY DEF SearchesOK, SearchOK, NoSearch
<1>2. List(s.items) /\ Distinct(Ids(s.items)) /\ NamedFound(s, S)
  BY <1>1 DEF Chosen, ItemsOK, ItemsListed
<1>3. Cardinality(Answered(s)) = Len(s.items)
  BY <1>1, <1>2, IdsAre, DistinctCount
<1>4. (s.byId /\ FewNamed(s, S)) => \A x \in Ever(S) : Always(s, S, x) => x \in Answered(s)
  BY <1>1, <1>2 DEF NamedFound
<1>5. (/\ ~s.byId /\ s.req.hybrid /\ s.lexical /\ FewFound(s, S) /\ Len(s.items) < s.req.topK) =>
        \A x \in Ever(S) :
          (/\ Always(s, S, x) /\ Worded(s, S, x)
           /\ Suppresses(s) => \A h \in S : ~Replaced(h, x)) => x \in Answered(s)
  BY <1>1 DEF Chosen
<1> QED BY <1>3, <1>4, <1>5

\* Whatever is written in the middle of a search, all it answers was in its scope
\* at some moment and had the tags it asks for at some moment, perhaps another;
\* nothing superseded all along is answered where those are suppressed, no more
\* than was asked for and each once, and none before one that would be less in
\* doubt at whatever two moments of the search their standing is looked up; an id
\* is called unknown only where it was, an answer by id not called ambiguous is of
\* the one thought it named, and a search fails only over a thought that was
\* deleted.  (AnswerSound; searchThoughtsOutcome in services/search.service.ts
\* with its look-up by id, legs, tag filter, two standing queries, gate and primers)
THEOREM AnswersAreSound == Spec => []AnswerSound
<1>1. Spec => [](RInv /\ SearchesOK)
  BY InitRInv, NextRInv, InitSearches, NextSearches, PTL DEF Spec
<1> QED BY <1>1, SearchesSound, PTL

\* An answer with room left has every thought that contained the words, was in
\* scope and was current all through the search, where no more were candidates
\* than it looks at; and an id or a prefix finds what it names.  (AnswerComplete;
\* the same code)
THEOREM AnswersAreComplete == Spec => []AnswerComplete
<1>1. Spec => [](RInv /\ SearchesOK)
  BY InitRInv, NextRInv, InitSearches, NextSearches, PTL DEF Spec
<1> QED BY <1>1, SearchesComplete, PTL

-----------------------------------------------------------------------------
(* The thoughts of a reflection.                                           *)

\* The rows of a store have their labels.
AllLabels(h) == \A x \in DOMAIN h.th : Labels(h.th[x])

\* One row is written, with its labels.
LEMMA OneLabelled ==
  ASSUME NEW h, AllLabels(h), NEW x, NEW row, x \in DOMAIN h.th => Labels(row), NEW n,
         n.th = [h.th EXCEPT ![x] = row]
  PROVE  AllLabels(n)
BY DEF AllLabels

\* A boost writes the importance alone.
LEMMA BoostLabels ==
  ASSUME NEW h, Tables(h), AllLabels(h), NEW x
  PROVE  AllLabels(BoostImportance(h, x))
<1> DEFINE was == h.th[x]
           row == [was EXCEPT !.imp = IF @ < MaxImp THEN @ + 1 ELSE @]
<1>1. PICK n : n = BoostImportance(h, x)
  OBVIOUS
<1>2. n.th = [h.th EXCEPT ![x] = row]
  BY <1>1 DEF BoostImportance, Tables
<1>3. x \in DOMAIN h.th => Labels(row)
  <2>1. x \in DOMAIN h.th => Columns(was) /\ Labels(was)
    BY DEF Tables, AllLabels
  <2> HIDE DEF was
  <2>2. Columns(was) /\ Labels(was) => Labels(row)
    BY DEF Columns, Labels, Hash
  <2> QED BY <2>1, <2>2
<1> HIDE DEF row
<1> QED BY <1>1, <1>2, <1>3, OneLabelled

\* A link writes no row but the importance of its source.
LEMMA LinkLabels ==
  ASSUME NEW h, Tables(h), AllLabels(h), NEW s, NEW t, NEW type
  PROVE  AllLabels(CreateEdge(h, s, t, type).g)
<1>1. \/ CreateEdge(h, s, t, type).g = h
      \/ \E old : /\ type = "cluster" => IsCluster(h, s)
                  /\ CreateEdge(h, s, t, type).g = PutEdge(h, old, s, t, type)
  <2> DEFINE pair == Pair(h, s, t)
             one == CHOOSE e \in pair : TRUE
  <2>1. \A x : Done(x).g = x /\ \A why : Refuse(x, why).g = x
    BY DEF Done, Refuse
  <2>2. \/ \E why : CreateEdge(h, s, t, type) = Refuse(h, why)
        \/ CreateEdge(h, s, t, type) = Done(h)
        \/ /\ ClusterRule(h, s, t, type)
           /\ \/ CreateEdge(h, s, t, type) = Done(PutEdge(h, {}, s, t, type))
              \/ CreateEdge(h, s, t, type) = Done(PutEdge(h, {one}, s, t, type))
    BY DEF CreateEdge
  <2>3. ClusterRule(h, s, t, type) => (type = "cluster" => IsCluster(h, s))
    BY DEF ClusterRule
  <2> HIDE DEF one
  <2> QED BY <2>1, <2>2, <2>3
<1>2. ASSUME NEW old, type = "cluster" => IsCluster(h, s)
      PROVE  AllLabels(PutEdge(h, old, s, t, type))
  <2> DEFINE cut == h.ed \ old
             free == ~\E e \in cut : {e.s, e.t} = {s, t}
             ed == IF free THEN cut \cup {[s |-> s, t |-> t, type |-> type, ver |-> h.ver]} ELSE cut
  <2>1. PICK put : put = [h EXCEPT !.ed = ed]
    OBVIOUS
  <2>2. PutEdge(h, old, s, t, type) = BoostImportance(put, s)
    BY <2>1 DEF PutEdge
  <2>3. Membership(h, ed)
    BY <1>2 DEF Tables, Membership
  <2> HIDE DEF ed
  <2>4. put = [th |-> h.th, ed |-> ed, projs |-> h.projs, made |-> h.made, ver |-> h.ver]
    BY <2>1 DEF Tables
  <2>5. Tables(put)
    BY <2>3, <2>4, EdgesKept DEF Keeps
  <2>6. AllLabels(put)
    BY <2>4 DEF AllLabels
  <2> QED BY <2>2, <2>5, <2>6, BoostLabels
<1> QED BY <1>1, <1>2

\* The version is not of a row.
LEMMA CommittedLabels ==
  ASSUME NEW h, NEW n, Tables(n), AllLabels(n)
  PROVE  AllLabels(Committed(h, n))
<1>1. Committed(h, n) = n \/ Committed(h, n) = [n EXCEPT !.ver = @ + 1]
  BY DEF Committed
<1>2. [n EXCEPT !.ver = @ + 1].th = n.th
  BY DEF Tables
<1> QED BY <1>1, <1>2 DEF AllLabels

\* An update computes the hash when content or project is given.
LEMMA UpdateLabels ==
  ASSUME NEW h, Tables(h), AllLabels(h), NEW id \in DOMAIN h.th, NEW d \in Edits, NEW t
  PROVE  AllLabels(UpdateThought(h, id, d, t).g)
<1> DEFINE old == h.th[id]
           given == [f \in DOMAIN old |-> IF f \in DOMAIN d THEN d[f] ELSE old[f]]
           rehash == {"content", "proj"} \cap DOMAIN d # {}
           hash == IF rehash THEN Hash(given) ELSE given.hash
           new == [given EXCEPT !.hash = IF rehash THEN Hash(given) ELSE @, !.stamp = t]
<1>1. PICK n : n = UpdateThought(h, id, d, t).g
  OBVIOUS
<1>2. n = h \/ n = [h EXCEPT !.th[id] = new]
  <2>1. \A x : Done(x).g = x /\ \A why : Refuse(x, why).g = x
    BY DEF Done, Refuse
  <2>2. \/ \E why : UpdateThought(h, id, d, t) = Refuse(h, why)
        \/ UpdateThought(h, id, d, t) = Done(h)
        \/ UpdateThought(h, id, d, t) = Done([h EXCEPT !.th[id] = new])
    BY DEF UpdateThought
  <2> HIDE DEF new
  <2> QED BY <1>1, <2>1, <2>2
<1>3. Labels(new)
  <2>1. Labels(old) /\ Columns(old)
    BY DEF AllLabels, Tables
  <2>2. "hash" \notin DOMAIN d
    BY EditsAssumption
  <2> HIDE DEF old
  <2>3. /\ DOMAIN given = DOMAIN old /\ given.hash = old.hash
        /\ ~rehash => given.content = old.content /\ given.proj = old.proj
    BY <2>1, <2>2 DEF Columns, Labels
  <2> DEFINE whole == Hash(given)
  <2>4. ~rehash => given.hash = whole
    BY <2>1, <2>3 DEF Labels, Hash
  <2>5. whole = <<given.content, given.proj>>
    BY DEF Hash
  <2> HIDE DEF given, whole
  <2>6. new = [given EXCEPT !.hash = hash, !.stamp = t] /\ hash = whole
    BY <2>4 DEF hash, whole
  <2> HIDE DEF new, hash
  <2>7. /\ DOMAIN new = DOMAIN given /\ new.hash = hash
        /\ new.content = given.content /\ new.proj = given.proj
    <3>1. {"content", "proj", "hash"} \subseteq DOMAIN given
      BY <2>1, <2>3 DEF Labels, Columns
    <3> QED BY <2>6, <3>1
  <2>8. new.hash = <<new.content, new.proj>>
    BY <2>5, <2>6, <2>7
  <2> QED BY <2>1, <2>3, <2>7, <2>8 DEF Labels, Hash
<1>4. CASE n = h
  BY <1>1, <1>4
<1>5. CASE n = [h EXCEPT !.th[id] = new]
  <2> HIDE DEF new
  <2>1. n.th = [h.th EXCEPT ![id] = new]
    BY <1>5 DEF Tables
  <2> QED BY <1>1, <1>3, <2>1, OneLabelled
<1> QED BY <1>2, <1>4, <1>5

\* A thought has been noted: one with its content got its tags, or one is new.
NotedAs(h, n, c, tags, wait, status) ==
  \E id \in Live(n) :
    /\ n.th[id].content = c /\ n.th[id].tags = tags
    /\ \A x \in DOMAIN h.th \ {id} : n.th[x] = h.th[x]
    /\ \/ /\ id \in Live(h) /\ DOMAIN n.th = DOMAIN h.th
          /\ h.th[id].content = c /\ n.th[id].status = h.th[id].status
          /\ n.th[id].wait = h.th[id].wait
       \/ /\ id \notin DOMAIN h.th /\ DOMAIN n.th = DOMAIN h.th \cup {id}
          /\ n.th[id].wait = wait /\ n.th[id].status = status

\* createThought with tags does that, be there a twin or not.
LEMMA NotedIs ==
  ASSUME NEW h, Tables(h), AllLabels(h), CanCreate(h, 1), NEW t \in Nat, NEW c, NEW req,
         NEW status \in {"active", "draft"}, NEW tags, NEW wait, NEW n,
         n = Noted(h, Draw(c, req, status), tags, wait, t)
  PROVE  AllLabels(n) /\ NotedAs(h, n, c, tags, wait, status)
<1>1. PICK d : d = Draw(c, req, status)
  OBVIOUS
<1>2. d.content = c /\ d.status = status
  BY <1>1 DEF Draw
<1> DEFINE row == [content |-> d.content, proj |-> d.proj, status |-> d.status,
                   prot |-> d.prot, cluster |-> d.cluster,
                   hash |-> <<d.content, d.proj>>, imp |-> MaxImp, hit |-> FALSE,
                   pinned |-> FALSE, born |-> t, gone |-> 0, stamp |-> t]
           new == NewIds[h.made + 1]
           twins == Twins(h, row)
           twin == CHOOSE x \in twins : TRUE
           r == CreateThought(h, d, t)
<1>3. PICK made : made = r
  OBVIOUS
<1>4. n = IF made.why = "twin" THEN [made.g EXCEPT !.th[made.id].tags = tags]
          ELSE [made.g EXCEPT !.th[made.id] = Labelled(@, tags, wait)]
  BY <1>1, <1>3 DEF Noted
<1>5. CASE twins # {}
  <2>1. r = [ok |-> TRUE, why |-> "twin", id |-> twin, g |-> [h EXCEPT !.th[twin].stamp = t]]
    BY <1>2, <1>5 DEF CreateThought
  <2>2. twin \in Live(h) /\ h.th[twin].hash = <<c, d.proj>>
    BY <1>2, <1>5 DEF Twins
  <2>3. PICK id : id = twin
    OBVIOUS
  <2> HIDE DEF twin, twins, row, new, r
  <2>4. PICK k : k = [h EXCEPT !.th[id].stamp = t]
    OBVIOUS
  <2>5. made.why = "twin" /\ made.id = id /\ made.g = k
    BY <1>3, <2>1, <2>3, <2>4
  <2>6. n = [k EXCEPT !.th[id].tags = tags]
    BY <1>4, <2>5
  <2>7. PICK was : was = h.th[id]
    OBVIOUS
  <2>8. PICK note : note = [was EXCEPT !.stamp = t, !.tags = tags]
    OBVIOUS
  <2>9. id \in DOMAIN h.th /\ was.status # "archived" /\ was.hash = <<c, d.proj>>
    BY <2>2, <2>3, <2>7 DEF Live
  <2>10. n.th = [h.th EXCEPT ![id] = note]
    BY <2>6, <2>7, <2>8, <2>9, <2>4 DEF Tables
  <2>11. Labels(was) /\ Columns(was)
    BY <2>7, <2>9 DEF AllLabels, Tables
  <2>12. was.content = c
    BY <2>9, <2>11 DEF Labels, Hash
  <2>13. /\ Labels(note) /\ note.content = c /\ note.tags = tags
         /\ note.status = was.status /\ note.wait = was.wait
    BY <2>8, <2>11, <2>12 DEF Labels, Columns, Hash
  <2>14. AllLabels(n)
    BY <2>10, <2>13, OneLabelled
  <2>15. /\ DOMAIN n.th = DOMAIN h.th /\ n.th[id] = note
         /\ \A x \in DOMAIN h.th \ {id} : n.th[x] = h.th[x]
    BY <2>9, <2>10
  <2>16. id \in Live(n) /\ id \in Live(h)
    BY <2>7, <2>9, <2>13, <2>15 DEF Live
  <2> QED BY <2>7, <2>12, <2>13, <2>14, <2>15, <2>16 DEF NotedAs
<1>6. CASE twins = {}
  <2> DEFINE th == [x \in DOMAIN h.th \cup {new} |-> IF x = new THEN row ELSE h.th[x]]
  <2>1. r = [ok |-> TRUE, why |-> "ok", id |-> new, g |-> [h EXCEPT !.made = @ + 1, !.th = th]]
    BY <1>2, <1>6 DEF CreateThought
  <2>2. new \in Unused(h)
    BY ScenariosAssumption DEF Tables, Unused, CanCreate
  <2>3. PICK was : was = row
    OBVIOUS
  <2>4. /\ was.hash = Hash(was) /\ was.content = c /\ was.status = status
        /\ {"content", "proj", "hash", "status"} \subseteq DOMAIN was
    BY <1>2, <2>3 DEF Hash
  <2>5. PICK id : id = new
    OBVIOUS
  <2>6. id \notin DOMAIN h.th
    BY <2>2, <2>5 DEF Tables
  <2>7. th = [x \in DOMAIN h.th \cup {id} |-> IF x = id THEN was ELSE h.th[x]]
    BY <2>3, <2>5
  <2>8. PICK k : k = [h EXCEPT !.made = @ + 1, !.th = th]
    OBVIOUS
  <2>9. made.why # "twin" /\ made.id = id /\ made.g = k
    BY <1>3, <2>1, <2>5, <2>8
  <2> HIDE DEF th, twins, row, new, r
  <2>10. n = [k EXCEPT !.th[id] = Labelled(@, tags, wait)]
    BY <1>4, <2>9
  <2>11. PICK note : note = Labelled(was, tags, wait)
    OBVIOUS
  <2>12. n.th = [th EXCEPT ![id] = note]
    <3>1. th[id] = was
      BY <2>7
    <3> QED BY <2>10, <2>11, <2>8, <3>1 DEF Tables
  <2>13. /\ DOMAIN n.th = DOMAIN h.th \cup {id} /\ n.th[id] = note
         /\ \A x \in DOMAIN h.th \ {id} : n.th[x] = h.th[x]
    BY <2>7, <2>12
  <2>14. /\ Labels(note) /\ note.content = c /\ note.tags = tags
         /\ note.status = status /\ note.wait = wait
    BY <2>4, <2>11 DEF Labels, Labelled, Hash
  <2>15. AllLabels(n)
    BY <2>13, <2>14 DEF AllLabels
  <2>16. id \in Live(n)
    BY <2>13, <2>14 DEF Live
  <2> QED BY <2>6, <2>13, <2>14, <2>15, <2>16 DEF NotedAs
<1> QED BY <1>5, <1>6

\* Overlap is a measure, the same both ways.
OverlapIsSymmetric == \A c, d : Overlap(c, d) \in Int /\ Overlap(c, d) = Overlap(d, c)

\* What the decisions in C make of h.
Deciding(h, n, C) ==
  /\ AllLabels(n)
  /\ \A x \in DOMAIN h.th : /\ x \in DOMAIN n.th /\ n.th[x].content = h.th[x].content
                            /\ n.th[x] # h.th[x] => h.th[x].content \in C
  /\ \A x \in DOMAIN n.th \ DOMAIN h.th : x \in Live(n) /\ n.th[x].content \in C
  /\ DecisionsSound(h, n)

\* One more content is decided, if no live decision overlaps it.
LEMMA DecideOne ==
  ASSUME OverlapIsSymmetric, NEW h, NEW C, NEW a, Deciding(h, a, C), NEW c, ~Decided(a, c), NEW n,
         AllLabels(n), NEW tags, NEW wait, NEW status, NotedAs(a, n, c, tags, wait, status)
  PROVE  Deciding(h, n, C \cup {c})
<1>1. PICK id \in Live(n) :
        /\ n.th[id].content = c
        /\ \A x \in DOMAIN a.th \ {id} : n.th[x] = a.th[x]
        /\ DOMAIN n.th = DOMAIN a.th \cup {id}
        /\ id \in DOMAIN a.th => a.th[id].content = c
  BY DEF NotedAs, Live
<1>2. ASSUME NEW x \in DOMAIN h.th
      PROVE  /\ x \in DOMAIN n.th /\ n.th[x].content = h.th[x].content
             /\ n.th[x] # h.th[x] => h.th[x].content \in C \cup {c}
  BY <1>1 DEF Deciding
<1>3. ASSUME NEW x \in DOMAIN n.th \ DOMAIN h.th
      PROVE  x \in Live(n) /\ n.th[x].content \in C \cup {c}
  <2>1. CASE x = id
    BY <1>1, <2>1
  <2>2. CASE x # id
    <3>1. x \in DOMAIN a.th \ DOMAIN h.th /\ n.th[x] = a.th[x]
      BY <1>1, <2>2
    <3>2. x \in Live(a) /\ a.th[x].content \in C
      BY <3>1 DEF Deciding
    <3> QED BY <1>3, <3>1, <3>2 DEF Live
  <2> QED BY <2>1, <2>2
<1>4. ASSUME NEW x \in DOMAIN n.th \ DOMAIN h.th, NEW y \in Live(n), x # y,
             Decision(n, x), Decision(n, y)
      PROVE  Overlap(n.th[x].content, n.th[y].content) < 60
  <2>1. \A z \in Live(n) \ {id} : z \in Live(a) /\ n.th[z] = a.th[z]
    BY <1>1 DEF Live
  <2>2. \A z \in Live(n) \ {id} : Decision(n, z) =>
          z \in Decisions(a) /\ Overlap(c, n.th[z].content) < 60 /\ Overlap(n.th[z].content, c) < 60
    <3> SUFFICES ASSUME NEW z \in Live(n) \ {id}, Decision(n, z)
                 PROVE  z \in Decisions(a) /\ Overlap(c, n.th[z].content) < 60
                        /\ Overlap(n.th[z].content, c) < 60
      OBVIOUS
    <3>1. z \in Decisions(a) /\ n.th[z] = a.th[z]
      BY <2>1 DEF Decisions, Decision
    <3>2. ~(Overlap(c, a.th[z].content) >= 60)
      BY <3>1 DEF Decided
    <3>3. PICK v : v = n.th[z].content
      OBVIOUS
    <3>4. /\ Overlap(c, v) \in Int /\ Overlap(c, v) = Overlap(v, c) /\ ~(Overlap(c, v) >= 60)
      BY <3>1, <3>2, <3>3 DEF OverlapIsSymmetric
    <3>5. Overlap(c, v) < 60
      BY <3>4
    <3> QED BY <3>1, <3>3, <3>4, <3>5
  <2>3. x \in Live(n)
    BY <1>3
  <2>4. CASE x = id
    BY <1>1, <1>4, <2>2, <2>4
  <2>5. CASE y = id
    BY <1>1, <1>4, <2>2, <2>3, <2>5
  <2>6. CASE x # id /\ y # id
    <3>1. x \in Live(a) /\ n.th[x] = a.th[x] /\ y \in Live(a) /\ n.th[y] = a.th[y]
      BY <2>1, <2>3, <2>6
    <3>2. x \in DOMAIN a.th \ DOMAIN h.th /\ Decision(a, x) /\ Decision(a, y)
      BY <1>4, <3>1 DEF Live, Decision
    <3>3. Overlap(a.th[x].content, a.th[y].content) < 60
      BY <1>4, <3>1, <3>2 DEF Deciding, DecisionsSound
    <3> QED BY <3>1, <3>3
  <2> QED BY <2>4, <2>5, <2>6
<1>5. DecisionsSound(h, n)
  BY <1>4 DEF DecisionsSound
<1> QED BY <1>2, <1>3, <1>5 DEF Deciding

\* What leaving C pending makes of h.
Postponing(h, n, C) ==
  /\ AllLabels(n)
  /\ \A x \in DOMAIN h.th : /\ x \in DOMAIN n.th /\ n.th[x].content = h.th[x].content
                            /\ n.th[x] # h.th[x] => h.th[x].content \in C
                            /\ n.th[x].status = h.th[x].status
                            /\ Decision(n, x) => Decision(h, x)
  /\ \A x \in DOMAIN n.th \ DOMAIN h.th :
       ~Decision(n, x) /\ n.th[x].wait = TRUE /\ n.th[x].status = "draft"
  /\ \A c \in C : \E x \in Live(n) : n.th[x].content = c /\ "pending" \in n.th[x].tags

\* One more content is put off.
LEMMA PostponeOne ==
  ASSUME NEW h, NEW C, NEW a, Postponing(h, a, C), NEW c, NEW n,
         AllLabels(n), NotedAs(a, n, c, {"pending", "reflect"}, TRUE, "draft")
  PROVE  Postponing(h, n, C \cup {c})
<1>1. PICK id \in Live(n) :
        /\ n.th[id].content = c /\ n.th[id].tags = {"pending", "reflect"}
        /\ \A x \in DOMAIN a.th \ {id} : n.th[x] = a.th[x]
        /\ DOMAIN n.th = DOMAIN a.th \cup {id}
        /\ id \in DOMAIN a.th => /\ a.th[id].content = c /\ n.th[id].status = a.th[id].status
                                 /\ n.th[id].wait = a.th[id].wait
        /\ id \notin DOMAIN a.th => n.th[id].wait = TRUE /\ n.th[id].status = "draft"
  BY DEF NotedAs, Live
<1>2. ~Decision(n, id) /\ "pending" \in n.th[id].tags
  BY <1>1 DEF Decision
<1>3. ASSUME NEW x \in DOMAIN h.th
      PROVE  /\ x \in DOMAIN n.th /\ n.th[x].content = h.th[x].content
             /\ n.th[x] # h.th[x] => h.th[x].content \in C \cup {c}
             /\ n.th[x].status = h.th[x].status
             /\ Decision(n, x) => Decision(h, x)
  <2>1. /\ x \in DOMAIN a.th /\ a.th[x].content = h.th[x].content
        /\ a.th[x] # h.th[x] => h.th[x].content \in C
        /\ a.th[x].status = h.th[x].status
        /\ Decision(a, x) => Decision(h, x)
    BY DEF Postponing
  <2>2. CASE x = id
    BY <1>1, <1>2, <2>1, <2>2
  <2>3. CASE x # id
    BY <1>1, <2>1, <2>3 DEF Decision
  <2> QED BY <2>2, <2>3
<1>4. ASSUME NEW x \in DOMAIN n.th \ DOMAIN h.th
      PROVE  ~Decision(n, x) /\ n.th[x].wait = TRUE /\ n.th[x].status = "draft"
  <2>1. x \in DOMAIN a.th => ~Decision(a, x) /\ a.th[x].wait = TRUE /\ a.th[x].status = "draft"
    BY DEF Postponing
  <2>2. CASE x = id
    BY <1>1, <1>2, <2>1, <2>2
  <2>3. CASE x # id
    BY <1>1, <2>1, <2>3 DEF Decision
  <2> QED BY <2>2, <2>3
<1>5. ASSUME NEW b \in C \cup {c}
      PROVE  \E x \in Live(n) : n.th[x].content = b /\ "pending" \in n.th[x].tags
  <2>1. CASE b = c
    BY <1>1, <1>2, <2>1
  <2>2. CASE b # c
    <3>1. PICK x \in Live(a) : a.th[x].content = b /\ "pending" \in a.th[x].tags
      BY <2>2 DEF Postponing
    <3>2. x # id /\ x \in DOMAIN a.th
      BY <1>1, <2>2, <3>1 DEF Live
    <3> QED BY <1>1, <3>1, <3>2 DEF Live
  <2> QED BY <2>1, <2>2
<1> QED BY <1>3, <1>4, <1>5 DEF Postponing

\* There are ids for what is yet to be noted.
LEMMA RoomLeft ==
  ASSUME NEW h, Tables(h), NEW S, IsFiniteSet(S), CanCreate(h, Cardinality(S)),
         NEW T \in SUBSET S, NEW x \in T, NEW a, Keeps(h, a),
         a.made <= h.made + Cardinality(T \ {x})
  PROVE  Tables(a) /\ CanCreate(a, 1)
<1>1. /\ Cardinality(T) \in Nat /\ Cardinality(T \ {x}) = Cardinality(T) - 1
      /\ Cardinality(S) \in Nat /\ Cardinality(T) <= Cardinality(S)
  BY FS_Subset, FS_CardinalityType, FS_RemoveElement
<1>2. Tables(a) /\ a.made \in Nat /\ h.made \in Nat
  BY DEF Keeps, Tables
<1>3. Len(NewIds) \in Nat /\ h.made + Cardinality(S) <= Len(NewIds)
  BY ScenariosAssumption DEF CanCreate
<1> QED BY <1>1, <1>2, <1>3 DEF CanCreate

\* The items at the places in T.
Among(seq, T) == {seq[i] : i \in T}

\* One more place, one more content.
LEMMA AmongGrows ==
  ASSUME NEW s, NEW T, NEW x \in T
  PROVE  Among(s, T) = Among(s, T \ {x}) \cup {s[x]}
BY DEF Among

\* After Decide, all its contents have been decided.
LEMMA DecideIs ==
  ASSUME OverlapIsSymmetric, NEW h, Tables(h), AllLabels(h), NEW req, req.decisions \in Seq(STRING),
         req.now \in Nat, CanCreate(h, Len(req.decisions))
  PROVE  LET n == Decide(h, req)
         IN  /\ Tables(n) /\ n.made <= h.made + Len(req.decisions)
             /\ Deciding(h, n, ToSet(req.decisions))
<1> DEFINE S == DOMAIN req.decisions
<1>1. IsFiniteSet(S) /\ Cardinality(S) = Len(req.decisions) /\ ToSet(req.decisions) = Among(req.decisions, S)
  <2>1. IsFiniteSet(S) /\ Cardinality(S) = Len(req.decisions)
    BY SeqFinite
  <2> QED BY <2>1 DEF ToSet, Among
<1>2. PICK f : Decide(h, req) = f[S] /\ f[{}] = h /\ DecideSteps(f, req)
  BY DecideFold
<1>3. PICK m : m = Cardinality(S) /\ m \in Nat /\ CanCreate(h, m)
  BY <1>1, FS_CardinalityType
<1> HIDE DEF S
<1>4. NotesOnly(f, S, req.now)
  BY <1>2 DEF NotesOnly, DecideSteps, S
<1>5. \A T \in SUBSET S : Keeps(h, f[T]) /\ f[T].made <= h.made + Cardinality(T)
  BY <1>1, <1>2, <1>3, <1>4, NotesKeep
<1>6. ASSUME NEW T \in SUBSET S, NEW x \in T
      PROVE  Tables(f[T \ {x}]) /\ CanCreate(f[T \ {x}], 1)
  BY <1>1, <1>3, <1>5, <1>6, RoomLeft
<1> DEFINE D == {T \in SUBSET S : Deciding(h, f[T], Among(req.decisions, T))}
<1>7. {} \in D
  <2>1. DecisionsSound(h, h)
    BY DEF DecisionsSound
  <2> QED BY <1>2, <2>1 DEF Deciding
<1>8. ASSUME NEW T \in SUBSET S, T # {}
      PROVE  \E x \in T : T \ {x} \in D => T \in D
  <2>1. PICK x \in T : f[T] = (IF Decided(f[T \ {x}], req.decisions[x]) THEN f[T \ {x}]
                               ELSE Noted(f[T \ {x}], Draw(req.decisions[x], req, "active"),
                                          {"decision", "reflect"}, FALSE, req.now))
    BY <1>2, <1>8 DEF DecideSteps, S
  <2>2. PICK a, b, c : a = f[T \ {x}] /\ b = f[T] /\ c = req.decisions[x]
    OBVIOUS
  <2>3. PICK C, E : C = Among(req.decisions, T \ {x}) /\ E = Among(req.decisions, T) /\ E = C \cup {c}
    <3>1. Among(req.decisions, T) = Among(req.decisions, T \ {x}) \cup {req.decisions[x]}
      BY AmongGrows
    <3> QED BY <2>2, <3>1
  <2>4. ASSUME Deciding(h, a, C) PROVE Deciding(h, b, E)
    <3>1. CASE Decided(a, c)
      <4>1. b = a
        BY <2>1, <2>2, <3>1
      <4> QED BY <2>3, <2>4, <4>1 DEF Deciding
    <3>2. CASE ~Decided(a, c)
      <4>1. b = Noted(a, Draw(c, req, "active"), {"decision", "reflect"}, FALSE, req.now)
        BY <2>1, <2>2, <3>2
      <4>2. Tables(a) /\ CanCreate(a, 1) /\ AllLabels(a)
        BY <1>6, <2>2, <2>4 DEF Deciding
      <4>3. AllLabels(b) /\ NotedAs(a, b, c, {"decision", "reflect"}, FALSE, "active")
        BY <4>1, <4>2, NotedIs
      <4>4. Deciding(h, b, C \cup {c})
        BY <2>4, <3>2, <4>3, DecideOne
      <4> QED BY <2>3, <4>4
    <3> QED BY <3>1, <3>2
  <2>5. T \ {x} \in D => T \in D
    BY <2>2, <2>3, <2>4
  <2> QED BY <2>5
<1>9. Climbs(S, D)
  BY <1>7, <1>8 DEF Climbs
<1> HIDE DEF D
<1>10. S \in D
  BY <1>1, <1>9, SubsetInduction
<1>11. Deciding(h, f[S], Among(req.decisions, S))
  BY <1>10 DEF D
<1> QED BY <1>1, <1>2, <1>5, <1>11 DEF Keeps

\* After Postpone, all its contents have been put off.
LEMMA PostponeIs ==
  ASSUME NEW h, Tables(h), AllLabels(h), NEW req, req.pending \in Seq(STRING),
         req.now \in Nat, CanCreate(h, Len(req.pending))
  PROVE  Postponing(h, Postpone(h, req), ToSet(req.pending))
<1> DEFINE S == DOMAIN req.pending
<1>1. IsFiniteSet(S) /\ Cardinality(S) = Len(req.pending) /\ ToSet(req.pending) = Among(req.pending, S)
  <2>1. IsFiniteSet(S) /\ Cardinality(S) = Len(req.pending)
    BY SeqFinite
  <2> QED BY <2>1 DEF ToSet, Among
<1>2. PICK f : Postpone(h, req) = f[S] /\ f[{}] = h /\ PostponeSteps(f, req)
  BY PostponeFold
<1>3. CanCreate(h, Cardinality(S))
  BY <1>1
<1> HIDE DEF S
<1>4. NotesOnly(f, S, req.now)
  BY <1>2 DEF NotesOnly, PostponeSteps, S
<1>5. \A T \in SUBSET S : Keeps(h, f[T]) /\ f[T].made <= h.made + Cardinality(T)
  BY <1>1, <1>2, <1>3, <1>4, NotesKeep
<1>6. ASSUME NEW T \in SUBSET S, NEW x \in T
      PROVE  Tables(f[T \ {x}]) /\ CanCreate(f[T \ {x}], 1)
  BY <1>1, <1>3, <1>5, <1>6, RoomLeft
<1> DEFINE D == {T \in SUBSET S : Postponing(h, f[T], Among(req.pending, T))}
<1>7. {} \in D
  <2>1. Among(req.pending, {}) = {}
    BY DEF Among
  <2> QED BY <1>2, <2>1 DEF Postponing
<1>8. ASSUME NEW T \in SUBSET S, T # {}
      PROVE  \E x \in T : T \ {x} \in D => T \in D
  <2>1. PICK x \in T : f[T] = Noted(f[T \ {x}], Draw(req.pending[x], req, "draft"),
                                    {"pending", "reflect"}, TRUE, req.now)
    BY <1>2, <1>8 DEF PostponeSteps, S
  <2>2. PICK a, b, c : a = f[T \ {x}] /\ b = f[T] /\ c = req.pending[x]
    OBVIOUS
  <2>3. PICK C, E : C = Among(req.pending, T \ {x}) /\ E = Among(req.pending, T) /\ E = C \cup {c}
    <3>1. Among(req.pending, T) = Among(req.pending, T \ {x}) \cup {req.pending[x]}
      BY AmongGrows
    <3> QED BY <2>2, <3>1
  <2>4. ASSUME Postponing(h, a, C) PROVE Postponing(h, b, E)
    <3>1. b = Noted(a, Draw(c, req, "draft"), {"pending", "reflect"}, TRUE, req.now)
      BY <2>1, <2>2
    <3>2. Tables(a) /\ CanCreate(a, 1) /\ AllLabels(a)
      BY <1>6, <2>2, <2>4 DEF Postponing
    <3>3. AllLabels(b) /\ NotedAs(a, b, c, {"pending", "reflect"}, TRUE, "draft")
      BY <3>1, <3>2, NotedIs
    <3>4. Postponing(h, b, C \cup {c})
      BY <2>4, <3>3, PostponeOne
    <3> QED BY <2>3, <3>4
  <2>5. T \ {x} \in D => T \in D
    BY <2>2, <2>3, <2>4
  <2> QED BY <2>5
<1>9. Climbs(S, D)
  BY <1>7, <1>8 DEF Climbs
<1> HIDE DEF D
<1>10. S \in D
  BY <1>1, <1>9, SubsetInduction
<1>11. Postponing(h, f[S], Among(req.pending, S))
  BY <1>10 DEF D
<1> QED BY <1>1, <1>2, <1>11

\* Ids for all the items are ids for the first ones and for the rest.
LEMMA RoomForBoth ==
  ASSUME NEW i \in Nat, NEW j \in Nat, NEW l \in Nat, NEW m \in Nat, m + (i + j) <= l
  PROVE  m + i <= l /\ \A n \in Nat : n <= m + i => n + j <= l
OBVIOUS

\* The store after a reflection.
LEMMA ThoughtsSound ==
  ASSUME OverlapIsSymmetric, NEW h, Tables(h), AllLabels(h), NEW req,
         req.decisions \in Seq(STRING), req.pending \in Seq(STRING), req.now \in Nat,
         CanCreate(h, Len(req.decisions) + Len(req.pending)),
         NEW n, n = Postpone(Decide(h, req), req)
  PROVE  /\ AllLabels(n)
         /\ DecisionsSound(h, n) /\ PendingSound(req, h, n) /\ OnlyItems(req, h, n)
<1>1. PICK D, P : D = ToSet(req.decisions) /\ P = ToSet(req.pending)
  OBVIOUS
<1>2. PICK i, j, l, m \in Nat :
        /\ i = Len(req.decisions) /\ j = Len(req.pending) /\ l = Len(NewIds) /\ m = h.made
        /\ m + (i + j) <= l
  <2>1. Len(req.decisions) \in Nat /\ Len(req.pending) \in Nat
    OBVIOUS
  <2>2. Len(NewIds) \in Nat
    BY ScenariosAssumption
  <2>3. h.made \in Nat /\ h.made + (Len(req.decisions) + Len(req.pending)) <= Len(NewIds)
    BY DEF Tables, CanCreate
  <2> QED BY <2>1, <2>2, <2>3
<1>3. m + i <= l /\ \A o \in Nat : o <= m + i => o + j <= l
  BY <1>2, RoomForBoth
<1>4. CanCreate(h, Len(req.decisions))
  BY <1>2, <1>3 DEF CanCreate
<1>5. PICK k : k = Decide(h, req) /\ Tables(k) /\ k.made <= m + i /\ Deciding(h, k, D)
  BY <1>1, <1>2, <1>4, DecideIs
<1>6. CanCreate(k, Len(req.pending)) /\ AllLabels(k)
  <2>1. k.made \in Nat
    BY <1>5 DEF Tables
  <2>2. k.made + j <= l
    BY <1>5, <1>3, <2>1
  <2> QED BY <1>2, <1>5, <2>2 DEF CanCreate, Deciding
<1>7. Postponing(k, n, P)
  BY <1>1, <1>5, <1>6, PostponeIs
<1>8. ASSUME NEW x \in DOMAIN n.th \ DOMAIN h.th, NEW y \in Live(n), x # y,
             Decision(n, x), Decision(n, y)
      PROVE  Overlap(n.th[x].content, n.th[y].content) < 60
  <2>1. \A z \in Live(n) : Decision(n, z) =>
          z \in Live(k) /\ Decision(k, z) /\ n.th[z].content = k.th[z].content
    BY <1>7 DEF Postponing, Live
  <2>2. x \in DOMAIN k.th /\ Decision(k, x) /\ n.th[x].content = k.th[x].content
    BY <1>7, <1>8 DEF Postponing
  <2> QED BY <1>5, <1>8, <2>1, <2>2 DEF Deciding, DecisionsSound
<1>9. DecisionsSound(h, n)
  BY <1>8 DEF DecisionsSound
<1>10. ASSUME NEW c \in P
      PROVE  \E x \in Live(n) :
               /\ n.th[x].content = c /\ "pending" \in n.th[x].tags
               /\ (x \notin DOMAIN h.th /\ c \notin D) => n.th[x].wait /\ n.th[x].status = "draft"
  <2>1. PICK x \in Live(n) : n.th[x].content = c /\ "pending" \in n.th[x].tags
    BY <1>7 DEF Postponing
  <2>2. ASSUME x \notin DOMAIN h.th, c \notin D PROVE n.th[x].wait = TRUE /\ n.th[x].status = "draft"
    <3>1. x \in DOMAIN k.th => k.th[x].content \in D /\ n.th[x].content = k.th[x].content
      BY <1>5, <1>7, <2>2 DEF Deciding, Postponing
    <3>2. x \in DOMAIN n.th \ DOMAIN k.th
      BY <2>1, <2>2, <3>1 DEF Live
    <3> QED BY <1>7, <3>2 DEF Postponing
  <2> QED BY <2>1, <2>2
<1>11. PendingSound(req, h, n)
  BY <1>1, <1>10 DEF PendingSound
<1>12. ASSUME NEW x \in DOMAIN h.th
       PROVE  x \in DOMAIN n.th /\ (n.th[x] # h.th[x] => h.th[x].content \in D \cup P)
  BY <1>5, <1>7 DEF Deciding, Postponing
<1>13. OnlyItems(req, h, n)
  BY <1>1, <1>12 DEF OnlyItems
<1> QED BY <1>7, <1>9, <1>11, <1>13 DEF Postponing

-----------------------------------------------------------------------------
(* The goals of a slot.                                                    *)

\* What a slot is made of.
LineOf == [goal : STRING, whole : BOOLEAN]

\* The goals that are added as a fold.
AddedSteps(f, add) ==
  \A T \in SUBSET (DOMAIN add) : T # {} =>
    \E x \in T : LET acc == f[T \ {x}]
                 IN  f[T] = IF Contains(acc, Line(add[x])) THEN acc ELSE Append(acc, Line(add[x]))

\* The loop that adds goals, as a function on the subsets of their indices.
LEMMA AddedFold ==
  ASSUME NEW s, NEW A, NEW add \in Seq(A)
  PROVE  \E f : Added(s, add) = f[DOMAIN add] /\ f[{}] = s /\ AddedSteps(f, add)
<1> DEFINE Op(x, acc) == IF Contains(acc, Line(add[x])) THEN acc ELSE Append(acc, Line(add[x]))
           Ch(T) == Max(T)
           S0 == DOMAIN add
           Body(f, T) == IF T = {} THEN s ELSE Op(Ch(T), f[T \ {Ch(T)}])
           Is(f, D) == f = [T \in D |-> Body(f, T)]
           N == {n \in Nat : \E f : Is(f, UpTo(S0, n))}
           it == CHOOSE f : Is(f, SUBSET S0)
<1>1. Added(s, add) = it[S0]
  BY DEF Added, FoldLeft, MapThenFoldSet, Max
<1>2. IsFiniteSet(S0) /\ \A T \in SUBSET S0 : T # {} => Ch(T) \in T
  <2>1. S0 = 1..Len(add) /\ Len(add) \in Nat
    OBVIOUS
  <2>2. IsFiniteSet(S0)
    BY <2>1, FS_Interval
  <2>3. S0 \subseteq Nat
    BY <2>1
  <2> HIDE DEF S0
  <2>4. ASSUME NEW T \in SUBSET S0, T # {} PROVE Ch(T) \in T
    <3>1. \E x \in T : \A y \in T : x >= y
      BY <2>2, <2>3, <2>4, GreatestOf
    <3> QED BY <3>1 DEF Max
  <2> QED BY <2>2, <2>4
<1> HIDE DEF Op, Ch, S0
<1>3. 0 \in N
  <2>1. Is([T \in UpTo(S0, 0) |-> s], UpTo(S0, 0))
    BY <1>2, UpToIs
  <2> QED BY <2>1
<1>4. ASSUME NEW n \in Nat, n \in N PROVE n + 1 \in N
  <2>1. PICK f : Is(f, UpTo(S0, n))
    BY <1>4
  <2> DEFINE h == [T \in UpTo(S0, n + 1) |-> Body(f, T)]
  <2>2. \A T \in UpTo(S0, n) : h[T] = f[T]
    BY <1>2, <2>1, UpToIs
  <2>3. \A T \in UpTo(S0, n + 1) : T # {} => T \ {Ch(T)} \in UpTo(S0, n)
    <3>1. \A T \in UpTo(S0, n + 1) : T \in SUBSET S0
      BY DEF UpTo
    <3> QED BY <1>2, <3>1, UpToIs
  <2>4. \A T \in UpTo(S0, n + 1) : Body(h, T) = Body(f, T)
    <3> HIDE DEF h
    <3> QED BY <2>2, <2>3
  <2>5. Is(h, UpTo(S0, n + 1))
    BY <2>4
  <2> HIDE DEF h, Is
  <2> QED BY <2>5
<1> HIDE DEF N
<1>5. Cardinality(S0) \in N /\ UpTo(S0, Cardinality(S0)) = SUBSET S0
  BY <1>2, <1>3, <1>4, Levels, UpToIs
<1>6. Is(it, SUBSET S0)
  <2>1. \E f : Is(f, SUBSET S0)
    BY <1>5 DEF N
  <2> HIDE DEF Is
  <2> QED BY <2>1
<1>7. it[{}] = s
  BY <1>6
<1>8. ASSUME NEW T \in SUBSET S0, T # {} PROVE it[T] = Op(Ch(T), it[T \ {Ch(T)}])
  BY <1>6, <1>8
<1> HIDE DEF it
<1>9. \A T \in SUBSET S0 : T # {} => \E x \in T : it[T] = Op(x, it[T \ {x}])
  BY <1>2, <1>8
<1>10. AddedSteps(it, add)
  BY <1>9 DEF AddedSteps, Op, S0
<1> QED BY <1>1, <1>7, <1>10 DEF S0

\* b has the lines of k, and after them those at the places T of add, and no others.
Adding(k, b, add, T) ==
  /\ GoodLines(b) /\ Len(k) <= Len(b) /\ Len(b) <= Len(k) + Cardinality(T)
  /\ \A i \in DOMAIN k : b[i] = k[i]
  /\ \A i \in DOMAIN b : i > Len(k) => \E x \in T : b[i] = Line(add[x])
  /\ \A x \in T : \E i \in DOMAIN b : b[i] = Line(add[x])

\* b is a and then l.
Longer(a, l, b) ==
  /\ GoodLines(b) /\ Len(b) = Len(a) + 1
  /\ \A i \in DOMAIN a : i \in DOMAIN b /\ b[i] = a[i]
  /\ Len(b) \in DOMAIN b /\ b[Len(b)] = l
  /\ \A i \in DOMAIN b : i \notin DOMAIN a => i = Len(b)

\* A line that is not there yet leaves the lines good.
LEMMA AppendGood ==
  ASSUME NEW a, GoodLines(a), NEW l \in LineOf, \A i \in DOMAIN a : a[i] # l
  PROVE  Longer(a, l, Append(a, l))
<1>1. PICK b : b = Append(a, l)
  OBVIOUS
<1>2. a \in Seq(LineOf)
  BY DEF GoodLines, LineOf
<1>3. /\ b \in Seq(LineOf) /\ Len(b) = Len(a) + 1 /\ Len(a) \in Nat
      /\ DOMAIN a = 1..Len(a) /\ DOMAIN b = 1..(Len(a) + 1)
      /\ \A i \in 1..Len(a) : b[i] = a[i]
      /\ b[Len(a) + 1] = l
  BY <1>2, <1>1
<1>4. PICK n \in Nat : n = Len(a)
  BY <1>3
<1>5. /\ DOMAIN a = 1..n /\ DOMAIN b = 1..(n + 1) /\ \A i \in 1..n : b[i] = a[i] /\ b[n + 1] = l
      /\ Len(b) = n + 1
  BY <1>3, <1>4
<1>6. \A i \in 1..(n + 1) : i \in 1..n \/ i = n + 1
  OBVIOUS
<1>7. \A i, j \in DOMAIN b : (b[i].whole /\ b[i] = b[j]) => i = j
  <2> SUFFICES ASSUME NEW i \in DOMAIN b, NEW j \in DOMAIN b, b[i].whole, b[i] = b[j] PROVE i = j
    OBVIOUS
  <2>1. \A m, o \in 1..n : (a[m].whole /\ a[m] = a[o]) => m = o
    BY <1>5 DEF GoodLines
  <2>2. \A m \in 1..n : a[m] # l
    BY <1>5
  <2> QED BY <1>5, <1>6, <2>1, <2>2
<1>8. GoodLines(b)
  BY <1>3, <1>7 DEF GoodLines, LineOf
<1>9. Longer(a, l, b)
  BY <1>3, <1>4, <1>5, <1>6, <1>8 DEF Longer
<1> QED BY <1>1, <1>9

\* One more goal is added.
LEMMA AddOne ==
  ASSUME NEW k, GoodLines(k), NEW add \in Seq(STRING), NEW T \in SUBSET DOMAIN add, NEW x \in T,
         NEW a, Adding(k, a, add, T \ {x}), NEW b,
         b = IF Contains(a, Line(add[x])) THEN a ELSE Append(a, Line(add[x]))
  PROVE  Adding(k, b, add, T)
<1>1. PICK l \in LineOf : l = Line(add[x])
  <2>1. add[x] \in STRING
    OBVIOUS
  <2> QED BY <2>1 DEF Line, LineOf
<1>2. PICK c, m, n \in Nat : /\ c = Cardinality(T) /\ Cardinality(T \ {x}) = c - 1
                             /\ m = Len(k) /\ n = Len(a)
                              /\ m <= n /\ n <= m + (c - 1)
  <2>1. IsFiniteSet(T)
    BY SeqFinite, FS_Subset
  <2>2. Cardinality(T) \in Nat /\ Cardinality(T \ {x}) = Cardinality(T) - 1
    BY <2>1, FS_RemoveElement, FS_CardinalityType
  <2>3. Len(k) \in Nat /\ Len(a) \in Nat
    BY DEF GoodLines, Adding
  <2> QED BY <2>2, <2>3 DEF Adding
<1>3. a \in Seq(LineOf) /\ DOMAIN a = 1..n /\ GoodLines(a)
  BY <1>2 DEF Adding, GoodLines, LineOf
<1>4. /\ \A i \in DOMAIN k : a[i] = k[i]
      /\ \A i \in DOMAIN a : i > m => \E y \in T : a[i] = Line(add[y])
      /\ \A y \in T \ {x} : \E i \in DOMAIN a : a[i] = Line(add[y])
  BY <1>2 DEF Adding
<1>5. CASE \E i \in DOMAIN a : a[i] = l
  <2>1. Contains(a, l)
    BY <1>2, <1>3, <1>5 DEF Contains
  <2>2. b = a
    BY <1>1, <2>1
  <2>3. n <= m + c
    BY <1>2
  <2>4. \A y \in T : \E i \in DOMAIN a : a[i] = Line(add[y])
    BY <1>1, <1>4, <1>5
  <2> QED BY <1>2, <1>3, <1>4, <2>2, <2>3, <2>4 DEF Adding
<1>6. CASE ~\E i \in DOMAIN a : a[i] = l
  <2>1. ~Contains(a, l)
    BY <1>2, <1>3, <1>6 DEF Contains
  <2>2. b = Append(a, l)
    BY <1>1, <2>1
  <2>3. /\ GoodLines(b) /\ Len(b) = n + 1
        /\ \A i \in DOMAIN a : i \in DOMAIN b /\ b[i] = a[i]
        /\ n + 1 \in DOMAIN b /\ b[n + 1] = l
        /\ \A i \in DOMAIN b : i \notin DOMAIN a => i = n + 1
    <3>1. /\ GoodLines(b) /\ Len(b) = Len(a) + 1
          /\ \A i \in DOMAIN a : i \in DOMAIN b /\ b[i] = a[i]
          /\ Len(b) \in DOMAIN b /\ b[Len(b)] = l
          /\ \A i \in DOMAIN b : i \notin DOMAIN a => i = Len(b)
      <4>1. Longer(a, l, Append(a, l))
        BY <1>3, <1>6, AppendGood
      <4> QED BY <2>2, <4>1 DEF Longer
    <3>2. Len(b) = n + 1
      BY <1>2, <3>1
    <3> QED BY <3>1, <3>2
  <2>4. m <= n + 1 /\ n + 1 <= m + c
    BY <1>2
  <2>5. \A i \in DOMAIN k : b[i] = k[i]
    <3>1. DOMAIN k \subseteq DOMAIN a
      <4>1. DOMAIN k = 1..m
        BY <1>2 DEF GoodLines
      <4> QED BY <1>2, <1>3, <4>1
    <3> QED BY <1>4, <2>3, <3>1
  <2>6. \A i \in DOMAIN b : i > m => \E y \in T : b[i] = Line(add[y])
    <3> SUFFICES ASSUME NEW i \in DOMAIN b, i > m PROVE \E y \in T : b[i] = Line(add[y])
      OBVIOUS
    <3>1. CASE i \in DOMAIN a
      BY <1>4, <2>3, <3>1
    <3>2. CASE i \notin DOMAIN a
      BY <1>1, <2>3, <3>2
    <3> QED BY <3>1, <3>2
  <2>7. \A y \in T : \E i \in DOMAIN b : b[i] = Line(add[y])
    <3> SUFFICES ASSUME NEW y \in T PROVE \E i \in DOMAIN b : b[i] = Line(add[y])
      OBVIOUS
    <3>1. CASE y = x
      BY <1>1, <2>3, <3>1
    <3>2. CASE y # x
      BY <1>4, <2>3, <3>2
    <3> QED BY <3>1, <3>2
  <2> QED BY <1>2, <2>3, <2>4, <2>5, <2>6, <2>7 DEF Adding
<1> QED BY <1>5, <1>6

\* After Added, all the goals have been.
LEMMA AddedIs ==
  ASSUME NEW k, GoodLines(k), NEW add \in Seq(STRING), NEW b, b = Added(k, add)
  PROVE  Adding(k, b, add, DOMAIN add) /\ Cardinality(DOMAIN add) = Len(add)
<1> DEFINE S == DOMAIN add
<1>1. IsFiniteSet(S) /\ Cardinality(S) = Len(add)
  BY SeqFinite
<1>2. PICK f : b = f[S] /\ f[{}] = k /\ AddedSteps(f, add)
  BY AddedFold
<1> DEFINE D == {T \in SUBSET S : Adding(k, f[T], add, T)}
<1>3. {} \in D
  <2>1. Len(k) \in Nat /\ Cardinality({}) = 0 /\ \A i \in DOMAIN k : ~(i > Len(k))
    BY FS_EmptySet DEF GoodLines
  <2> QED BY <1>2, <2>1 DEF Adding
<1>4. ASSUME NEW T \in SUBSET S, T # {}
      PROVE  \E x \in T : T \ {x} \in D => T \in D
  <2>1. PICK x \in T : f[T] = IF Contains(f[T \ {x}], Line(add[x])) THEN f[T \ {x}]
                              ELSE Append(f[T \ {x}], Line(add[x]))
    BY <1>2, <1>4 DEF AddedSteps
  <2>2. Adding(k, f[T \ {x}], add, T \ {x}) => Adding(k, f[T], add, T)
    BY <2>1, AddOne
  <2>3. T \ {x} \in D => T \in D
    BY <2>2
  <2> QED BY <2>3
<1>5. Climbs(S, D)
  BY <1>3, <1>4 DEF Climbs
<1> HIDE DEF D
<1>6. S \in D
  BY <1>1, <1>5, SubsetInduction
<1>7. Adding(k, f[S], add, S)
  BY <1>6 DEF D
<1> QED BY <1>1, <1>2, <1>7

\* A removal names the line.
Removed(req, l) == \E j \in DOMAIN req.remove : Says(l, req.remove[j])

\* What is kept are good lines, none of which a removal names.
LEMMA LinesKept ==
  ASSUME NEW lines, GoodLines(lines), NEW req, NEW k, k = Kept(lines, req.remove)
  PROVE  /\ GoodLines(k)
         /\ \A i \in DOMAIN k : k[i] \in ToSet(lines) /\ ~Removed(req, k[i])
<1> DEFINE K == {i \in DOMAIN lines : ~Removed(req, lines[i])}
<1>1. k = [n \in DOMAIN Ascending(K) |-> lines[Ascending(K)[n]]]
  BY DEF Kept, Filtered, Removed
<1>2. List(lines) /\ lines \in Seq(LineOf)
  BY ListIs DEF GoodLines, LineOf
<1>3. K \subseteq DOMAIN lines /\ \A i \in K : ~Removed(req, lines[i])
  OBVIOUS
<1> HIDE DEF K
<1>4. List(k) /\ Picks(k, lines, K)
  BY <1>1, <1>2, <1>3, FilterPicks
<1>5. PICK a \in [DOMAIN k -> K] :
        /\ \A i, j \in DOMAIN k : i < j => a[i] < a[j]
        /\ \A i \in DOMAIN k : k[i] = lines[a[i]]
  BY <1>4 DEF Picks
<1>6. /\ \A i \in DOMAIN k : a[i] \in K /\ a[i] \in DOMAIN lines /\ i \in Int /\ a[i] \in Int
      /\ DOMAIN k = 1..Len(k) /\ Len(k) \in Nat
  <2>1. DOMAIN k = 1..Len(k) /\ Len(k) \in Nat
    BY <1>4, ListOf
  <2>2. \A i \in DOMAIN lines : i \in Int
    BY <1>2
  <2> QED BY <1>3, <1>5, <2>1, <2>2
<1>7. \A i \in DOMAIN k : k[i] \in ToSet(lines) /\ ~Removed(req, k[i])
  BY <1>3, <1>5, <1>6 DEF ToSet
<1>8. \A i, j \in DOMAIN k : i # j => a[i] # a[j]
  <2> SUFFICES ASSUME NEW i \in DOMAIN k, NEW j \in DOMAIN k, i # j PROVE a[i] # a[j]
    OBVIOUS
  <2>1. i < j \/ j < i
    BY <1>6
  <2>2. a[i] < a[j] \/ a[j] < a[i]
    BY <1>5, <2>1
  <2> QED BY <1>6, <2>2
<1>9. \A i, j \in DOMAIN k : (k[i].whole /\ k[i] = k[j]) => i = j
  BY <1>5, <1>6, <1>8 DEF GoodLines
<1>10. k \in Seq(LineOf)
  <2>1. ToSet(lines) \subseteq LineOf
    BY <1>2, ListIs
  <2>2. ToSet(k) \subseteq ToSet(lines)
    BY <1>7 DEF ToSet
  <2>3. k \in Seq(ToSet(k))
    BY <1>4 DEF List
  <2> QED BY <2>1, <2>2, <2>3
<1> QED BY <1>7, <1>9, <1>10 DEF GoodLines, LineOf

\* What one number was added to was the same.
LEMMA SameSum ==
  ASSUME NEW i \in Int, NEW j \in Int, NEW d \in Int, i + d = j + d
  PROVE  i = j
OBVIOUS

\* t has the last lines of b, d of them having gone, perhaps after the end of another.
TailOf(b, t, d) ==
  /\ \A i \in DOMAIN t : \/ i + d \in DOMAIN b /\ t[i] = b[i + d]
                         \/ t[i].whole = FALSE
  /\ \A j \in DOMAIN b : j > Len(b) - MaxLines => \E i \in DOMAIN t : t[i] = b[j]

\* What tail leaves of good lines is good.
LEMMA TailsAre ==
  ASSUME NEW b, GoodLines(b), NEW t \in Tails(b)
  PROVE  GoodLines(t) /\ \E d \in Nat : TailOf(b, t, d)
<1>1. b \in Seq(LineOf)
  BY DEF GoodLines, LineOf
<1>2. PICK n \in Nat : n = Len(b) /\ b \in [1..n -> LineOf] /\ DOMAIN b = 1..n
  BY <1>1
<1>3. PICK m \in Nat : m = MaxLines
  BY ConfigAssumption
<1>4. /\ t \in Seq(LineOf) /\ \E d \in Nat : TailOf(b, t, d)
  <2>1. CASE n <= m
    <3>1. t = b
      BY <1>2, <1>3, <2>1 DEF Tails
    <3>2. TailOf(b, b, 0)
      <4>1. \A i \in 1..n : i + 0 = i
        BY <1>2
      <4> QED BY <1>2, <4>1 DEF TailOf
    <3> QED BY <1>1, <3>1, <3>2
  <2>2. CASE n > m
    <3>1. PICK last, cut : last = SubSeq(b, n - m + 1, n) /\ cut = [b[n - m] EXCEPT !.whole = FALSE]
      OBVIOUS
    <3>2. t = last \/ t = <<cut>> \o last
      <4>1. Tails(b) = IF n <= m THEN {b} ELSE {last, <<cut>> \o last}
        BY <1>2, <1>3, <3>1 DEF Tails
      <4>2. ~(n <= m)
        BY <2>2
      <4> QED BY <4>1, <4>2
    <3>3. n - m \in Nat /\ n - m \in 1..n /\ (n - m) + m = n
      BY <2>2
    <3>4. PICK d \in Nat : d = n - m /\ d \in 1..n /\ d + m = n
      BY <3>3
    <3>5. /\ last \in Seq(LineOf) /\ Len(last) = m /\ DOMAIN last = 1..m
          /\ \A i \in 1..m : last[i] = b[i + d]
      <4>1. last = SubSeq(b, d + 1, n)
        BY <3>1, <3>4
      <4>2. n \in Int /\ d + 1 \in Int /\ d + 1 <= n + 1 /\ n - (d + 1) + 1 = m
            /\ \A i \in (d + 1)..n : i \in 1..n
        BY <3>4
      <4>3. \A i \in (d + 1)..n : b[i] \in LineOf
        BY <1>2, <4>2
      <4>4. /\ SubSeq(b, d + 1, n) \in Seq(LineOf)
            /\ Len(SubSeq(b, d + 1, n)) = IF d + 1 <= n THEN n - (d + 1) + 1 ELSE 0
            /\ \A i \in 1..(n - (d + 1) + 1) : SubSeq(b, d + 1, n)[i] = b[(d + 1) + i - 1]
        BY <4>2, <4>3, SubSeqProperties
      <4>5. Len(last) = m /\ last \in Seq(LineOf) /\ DOMAIN last = 1..m
        BY <3>4, <4>1, <4>2, <4>4
      <4>6. \A i \in 1..m : (d + 1) + i - 1 = i + d
        BY <3>4
      <4> QED BY <4>1, <4>2, <4>4, <4>5, <4>6
    <3>6. cut \in LineOf /\ cut.whole = FALSE
      <4>1. b[d] \in LineOf
        BY <1>2, <3>4
      <4> QED BY <3>1, <3>4, <4>1 DEF LineOf
    <3>7. CASE t = last
      <4>1. \A i \in 1..m : i + d \in 1..n
        BY <3>4
      <4>2. \A j \in 1..n : j > n - m => j - d \in 1..m /\ (j - d) + d = j
        BY <3>4
      <4>3. TailOf(b, t, d)
        BY <1>2, <1>3, <3>5, <3>7, <4>1, <4>2 DEF TailOf
      <4> QED BY <3>5, <3>7, <4>3
    <3>8. CASE t = <<cut>> \o last
      <4>1. /\ t \in Seq(LineOf) /\ DOMAIN t = 1..(m + 1) /\ t[1] = cut
            /\ \A i \in 1..m : t[i + 1] = last[i]
        BY <3>5, <3>6, <3>8
      <4>2. d - 1 \in Nat
        BY <3>4
      <4>3. \A i \in 1..(m + 1) : i = 1 \/ (i - 1 \in 1..m /\ (i - 1) + 1 = i /\ i + (d - 1) \in 1..n
                                            /\ (i - 1) + d = i + (d - 1))
        BY <3>4
      <4>4. \A j \in 1..n : j > n - m => /\ j - d \in 1..m /\ (j - d) + d = j
                                         /\ (j - d) + 1 \in 1..(m + 1)
        BY <3>4
      <4>5. \A i \in DOMAIN t : \/ i + (d - 1) \in DOMAIN b /\ t[i] = b[i + (d - 1)]
                                \/ t[i].whole = FALSE
        <5> SUFFICES ASSUME NEW i \in 1..(m + 1)
                     PROVE  \/ i + (d - 1) \in DOMAIN b /\ t[i] = b[i + (d - 1)]
                            \/ t[i].whole = FALSE
          BY <4>1
        <5>1. CASE i = 1
          BY <3>6, <4>1, <5>1
        <5>2. CASE i # 1
          <6>1. /\ i - 1 \in 1..m /\ (i - 1) + 1 = i /\ i + (d - 1) \in 1..n
                /\ (i - 1) + d = i + (d - 1)
            BY <4>3, <5>2
          <6>2. t[i] = last[i - 1] /\ last[i - 1] = b[i + (d - 1)]
            BY <3>5, <4>1, <6>1
          <6> QED BY <1>2, <6>1, <6>2
        <5> QED BY <5>1, <5>2
      <4>6. \A j \in DOMAIN b : j > Len(b) - MaxLines => \E i \in DOMAIN t : t[i] = b[j]
        <5> SUFFICES ASSUME NEW j \in 1..n, j > n - m PROVE t[(j - d) + 1] = b[j] /\ (j - d) + 1 \in DOMAIN t
          BY <1>2, <1>3
        <5>1. j - d \in 1..m /\ (j - d) + d = j /\ (j - d) + 1 \in 1..(m + 1)
          BY <4>4
        <5>2. t[(j - d) + 1] = last[j - d] /\ last[j - d] = b[j]
          BY <3>5, <4>1, <5>1
        <5> QED BY <4>1, <5>1, <5>2
      <4> QED BY <4>1, <4>2, <4>5, <4>6 DEF TailOf
    <3> QED BY <3>2, <3>7, <3>8
  <2> QED BY <1>2, <1>3, <2>1, <2>2
<1>5. \A i, j \in DOMAIN t : (t[i].whole /\ t[i] = t[j]) => i = j
  <2> SUFFICES ASSUME NEW i \in DOMAIN t, NEW j \in DOMAIN t, t[i].whole, t[i] = t[j] PROVE i = j
    OBVIOUS
  <2>1. PICK d \in Nat : TailOf(b, t, d)
    BY <1>4
  <2>2. /\ i + d \in DOMAIN b /\ t[i] = b[i + d]
        /\ j + d \in DOMAIN b /\ t[j] = b[j + d]
    BY <2>1 DEF TailOf
  <2>3. i + d = j + d
    BY <2>2 DEF GoodLines
  <2>4. i \in Int /\ j \in Int
    BY <1>4
  <2>5. d \in Int
    OBVIOUS
  <2> QED BY <2>3, <2>4, <2>5, SameSum
<1> QED BY <1>4, <1>5 DEF GoodLines, LineOf

\* A slot after a reflection.
LEMMA GoalsAreSound ==
  ASSUME NEW lines, GoodLines(lines), NEW req, req.add \in Seq(STRING), NEW t \in Goals(lines, req)
  PROVE  GoodLines(t) /\ GoalsSound(req, lines, t)
<1>1. PICK add : add = req.add /\ add \in Seq(STRING)
  OBVIOUS
<1>2. PICK k : /\ k = Kept(lines, req.remove) /\ GoodLines(k)
               /\ \A i \in DOMAIN k : k[i] \in ToSet(lines) /\ ~Removed(req, k[i])
  BY LinesKept
<1>3. PICK b : /\ b = Added(k, add) /\ Adding(k, b, add, DOMAIN add)
               /\ Cardinality(DOMAIN add) = Len(add)
  BY <1>1, <1>2, AddedIs
<1>4. PICK d \in Nat : GoodLines(t) /\ TailOf(b, t, d)
  <2>1. t \in Tails(b) /\ GoodLines(b)
    BY <1>1, <1>2, <1>3 DEF Goals, Adding
  <2> QED BY <2>1, TailsAre
<1>5. PICK n, m, o \in Nat : n = Len(b) /\ m = Len(k) /\ o = Len(add) /\ m <= n /\ n <= m + o
                             /\ DOMAIN b = 1..n /\ DOMAIN k = 1..m
  BY <1>1, <1>2, <1>3 DEF Adding, GoodLines
<1>6. PICK q \in Nat : q = MaxLines
  BY ConfigAssumption
<1>7. \A i \in DOMAIN b : IF i <= m THEN i \in DOMAIN k /\ b[i] = k[i]
                          ELSE \E x \in DOMAIN add : b[i] = Line(add[x])
  <2> SUFFICES ASSUME NEW i \in 1..n PROVE IF i <= m THEN i \in DOMAIN k /\ b[i] = k[i]
                                           ELSE \E x \in DOMAIN add : b[i] = Line(add[x])
    BY <1>5
  <2>1. i <= m => i \in 1..m
    BY <1>5
  <2>2. ~(i <= m) => i > m
    BY <1>5
  <2> QED BY <1>3, <1>5, <2>1, <2>2 DEF Adding
<1>8. ASSUME NEW x \in DOMAIN add, ~(o > q)
      PROVE  LET l == Line(add[x]) IN l \in ToSet(t) \/ (l \in ToSet(lines) /\ ~Removed(req, l))
  <2>1. PICK i \in DOMAIN b : b[i] = Line(add[x])
    BY <1>3 DEF Adding
  <2>2. CASE i <= m
    BY <1>2, <1>7, <2>1, <2>2
  <2>3. CASE ~(i <= m)
    <3>1. i > n - q
      <4>1. i \in 1..n
        BY <1>5
      <4> QED BY <1>5, <1>6, <1>8, <2>3, <4>1
    <3>2. \E j \in DOMAIN t : t[j] = b[i]
      BY <1>4, <1>5, <1>6, <3>1 DEF TailOf
    <3> QED BY <2>1, <3>2 DEF ToSet
  <2> QED BY <2>2, <2>3
<1>9. ASSUME NEW i \in DOMAIN t, t[i].whole
      PROVE  /\ \A j \in DOMAIN t : j # i => t[j] # t[i]
             /\ Removed(req, t[i]) => t[i].goal \in ToSet(add)
  <2>1. \A j \in DOMAIN t : j # i => t[j] # t[i]
    BY <1>4, <1>9 DEF GoodLines
  <2>2. i + d \in DOMAIN b /\ t[i] = b[i + d]
    BY <1>4, <1>9 DEF TailOf
  <2>3. CASE i + d <= m
    BY <1>2, <1>7, <2>1, <2>2, <2>3
  <2>4. CASE ~(i + d <= m)
    <3>1. PICK x \in DOMAIN add : t[i] = Line(add[x])
      BY <1>7, <2>2, <2>4
    <3> QED BY <2>1, <3>1 DEF Line, ToSet
  <2> QED BY <2>3, <2>4
<1> QED BY <1>1, <1>4, <1>5, <1>6, <1>8, <1>9 DEF GoalsSound, Removed

-----------------------------------------------------------------------------
(* The reflection among the other steps.                                   *)

\* What the store and the slots are between two transactions.
NotesOK == AllLabels(g) /\ \A slot \in DOMAIN goals : GoodLines(goals[slot])

\* The file holds such a store and such slots.
LEMMA InitNotes == Init => NotesOK
<1> SUFFICES ASSUME NEW s \in Scenarios, g = s.g, goals = s.goals PROVE NotesOK
  BY DEF Init
<1>1. /\ \A x \in DOMAIN s.g.th : Labels(s.g.th[x])
      /\ \A slot \in DOMAIN s.goals : GoodLines(s.goals[slot])
  BY ScenariosAssumption
<1> QED BY <1>1 DEF NotesOK, AllLabels

\* What another process writes leaves a row its labels.
LEMMA OthersLabels ==
  ASSUME Tables(g), AllLabels(g), Others
  PROVE  AllLabels(g')
<1>1. ASSUME NEW id \in DOMAIN g.th, Wake(id) PROVE AllLabels(g')
  <2> DEFINE was == g.th[id]
             row == [was EXCEPT !.wait = FALSE]
  <2>1. PICK new : new = g' /\ new = [g EXCEPT !.th[id] = row]
    BY <1>1 DEF Wake, Write
  <2>2. Columns(was) /\ Labels(was)
    BY DEF Tables, AllLabels
  <2> HIDE DEF was
  <2>3. Labels(row)
    BY <2>2 DEF Columns, Labels, Hash
  <2> HIDE DEF row
  <2>4. new.th = [g.th EXCEPT ![id] = row]
    BY <2>1 DEF Tables
  <2>5. AllLabels(new)
    BY <2>3, <2>4, OneLabelled
  <2> QED BY <2>1, <2>5
<1>2. ASSUME NEW id, NEW d \in Edits, Update(id, d) \/ LateEdit(id, d) PROVE AllLabels(g')
  <2>1. PICK t : id \in DOMAIN g.th /\ g' = UpdateThought(g, id, d, t).g
    BY <1>2 DEF Update, LateEdit, Write, Has
  <2> QED BY <2>1, UpdateLabels
<1>3. ASSUME NEW s, NEW t, NEW type, Link(s, t, type) PROVE AllLabels(g')
  <2>1. PICK n : n = CreateEdge(g, s, t, type).g /\ g' = Committed(g, n)
    BY <1>3 DEF Link, Write
  <2>2. Tables(n) /\ AllLabels(n)
    BY <2>1, LinkKept, LinkLabels DEF Keeps
  <2> QED BY <2>1, <2>2, CommittedLabels
<1>4. ASSUME NEW e, Unlink(e) PROVE AllLabels(g')
  <2>1. PICK h : h = g
    OBVIOUS
  <2>2. PICK n : n = [h EXCEPT !.ed = @ \ {e}] /\ g' = Committed(h, n)
    BY <1>4, <2>1 DEF Unlink, Write
  <2>3. n = [th |-> h.th, ed |-> h.ed \ {e}, projs |-> h.projs, made |-> h.made, ver |-> h.ver]
    BY <2>1, <2>2 DEF Tables
  <2>4. Membership(h, h.ed \ {e})
    BY <2>1 DEF Tables, Membership
  <2>5. Tables(n)
    BY <2>1, <2>3, <2>4, EdgesKept DEF Keeps
  <2>6. AllLabels(n)
    BY <2>1, <2>3 DEF AllLabels
  <2> QED BY <2>2, <2>5, <2>6, CommittedLabels
<1>5. ASSUME NEW e, NEW type, Retype(e, type) PROVE AllLabels(g')
  <2> DEFINE fresh == [s |-> e.s, t |-> e.t, type |-> type, ver |-> e.ver]
             ed == (g.ed \ {e}) \cup {fresh}
  <2>1. PICK put, boosted : /\ put = [g EXCEPT !.ed = ed] /\ boosted = BoostImportance(put, e.s)
                            /\ g' = Committed(g, boosted)
    BY <1>5 DEF Retype, Write
  <2>2. Membership(g, ed)
    BY <1>5 DEF Retype, Retypable, ClusterRule, Tables, Membership
  <2> HIDE DEF ed
  <2>3. put = [th |-> g.th, ed |-> ed, projs |-> g.projs, made |-> g.made, ver |-> g.ver]
    BY <2>1 DEF Tables
  <2>4. Tables(put)
    BY <2>2, <2>3, EdgesKept DEF Keeps
  <2>5. AllLabels(put)
    BY <2>3 DEF AllLabels
  <2>6. Tables(boosted) /\ AllLabels(boosted)
    <3>1. Tables(BoostImportance(put, e.s)) /\ AllLabels(BoostImportance(put, e.s))
      BY <2>4, <2>5, BoostKept, BoostLabels DEF Keeps
    <3> QED BY <2>1, <3>1
  <2> QED BY <2>1, <2>6, CommittedLabels
<1>6. ASSUME NEW id, Delete(id) PROVE AllLabels(g')
  <2>1. PICK n : n = Committed(g, DeleteThought(g, id)) /\ g' = n
    BY <1>6 DEF Delete, Write
  <2>2. DOMAIN n.th = DOMAIN g.th \ {id} /\ \A x \in DOMAIN n.th : n.th[x] = g.th[x]
    BY <2>1, DeleteIs
  <2> QED BY <2>1, <2>2 DEF AllLabels
<1>7. ASSUME NEW id, Work(id) PROVE AllLabels(g')
  BY <1>7 DEF Work
<1> QED BY <1>1, <1>2, <1>3, <1>4, <1>5, <1>6, <1>7 DEF Others

\* An empty slot is good.
LEMMA NothingIsGood == GoodLines(<<>>)
BY DEF GoodLines

\* The sheet of the call goes on to the state laid down.
LEMMA LaidPc ==
  ASSUME RInv, NEW p \in Processes, SheetRecord(sheet[p]), NEW pc,
         Lay(p, [sheet[p] EXCEPT !.pc = pc])
  PROVE  sheet'[p].pc = pc
<1>1. PICK r : r = sheet[p] /\ SheetRecord(r)
  OBVIOUS
<1>2. PICK n : n = [r EXCEPT !.pc = pc] /\ n.pc = pc
  BY <1>1 DEF SheetRecord
<1>3. sheet' = [sheet EXCEPT ![p] = n] /\ sheet = [q \in Processes |-> sheet[q]]
  BY <1>1, <1>2 DEF Lay, RInv
<1> QED BY <1>2, <1>3

\* The transaction of a reflection, the store and the slots being what they are.
LEMMA ReflectSound ==
  ASSUME OverlapIsSymmetric, RInv, NotesOK, NEW p \in Processes, Reflect(p)
  PROVE  /\ NotesOK'
         /\ sheet[p].pc = "write"
         /\ LET req == sheet[p].req
                scope == Scope(req)
            IN  IF sheet'[p].pc = "failed" THEN UNCHANGED <<g, goals, notes>>
                ELSE /\ GoalsSound(req, SlotOf(goals, scope, <<>>), SlotOf(goals', scope, <<>>))
                     /\ DecisionsSound(g, g') /\ PendingSound(req, g, g')
                     /\ OnlyItems(req, g, g')
<1>1. PICK req, scope, old : req = sheet[p].req /\ scope = Scope(req) /\ old = SlotOf(goals, scope, <<>>)
  OBVIOUS
<1>2. sheet[p].pc = "write" /\ CanCreate(g, Len(req.decisions) + Len(req.pending))
  BY <1>1 DEF Reflect, Doing
<1>3. /\ SheetRecord(sheet[p]) /\ Tables(g)
      /\ req.decisions \in Seq(STRING) /\ req.pending \in Seq(STRING) /\ req.now \in Nat
      /\ req.add \in Seq(STRING)
  BY <1>1, <1>2 DEF RInv, NoSheet, SheetOK, Asked
<1>4. GoodLines(old)
  BY <1>1, NothingIsGood DEF SlotOf, NotesOK
<1>5. CASE req.blank
  <2>1. UNCHANGED <<g, goals, notes>>
    BY <1>1, <1>5 DEF Reflect, corpus
  <2>2. sheet'[p].pc = "failed"
    BY <1>1, <1>3, <1>5, LaidPc DEF Reflect
  <2> QED BY <1>1, <1>2, <2>1, <2>2 DEF NotesOK
<1>6. CASE ~req.blank
  <2>1. sheet'[p].pc = "done"
    BY <1>1, <1>3, <1>6, LaidPc DEF Reflect
  <2>2. PICK new : new = Postpone(Decide(g, req), req) /\ g' = new
    BY <1>1, <1>6 DEF Reflect
  <2>3. AllLabels(new) /\ DecisionsSound(g, new) /\ PendingSound(req, g, new) /\ OnlyItems(req, g, new)
    BY <1>2, <1>3, <2>2, ThoughtsSound DEF NotesOK
  <2>4. \/ req.add = <<>> /\ req.remove = <<>> /\ goals' = goals
        \/ \E tail \in Goals(old, req) : goals' = Upserted(goals, scope, tail)
    BY <1>1, <1>6 DEF Reflect
  <2>5. CASE req.add = <<>> /\ req.remove = <<>> /\ goals' = goals
    <3>1. GoalsSound(req, old, old)
      BY <1>4, <2>5 DEF GoalsSound, GoodLines
    <3> QED BY <1>1, <1>2, <2>1, <2>2, <2>3, <2>5, <3>1 DEF NotesOK
  <2>6. ASSUME NEW tail \in Goals(old, req), goals' = Upserted(goals, scope, tail)
        PROVE  /\ SlotOf(goals', scope, <<>>) = tail /\ GoalsSound(req, old, tail)
               /\ \A slot \in DOMAIN goals' : GoodLines(goals'[slot])
    <3>1. GoodLines(tail) /\ GoalsSound(req, old, tail)
      BY <1>3, <1>4, GoalsAreSound
    <3>2. /\ DOMAIN goals' = DOMAIN goals \cup {scope} /\ goals'[scope] = tail
          /\ \A slot \in DOMAIN goals \ {scope} : goals'[slot] = goals[slot]
      <4>1. PICK slots : slots = goals'
        OBVIOUS
      <4>2. slots = [x \in DOMAIN goals \cup {scope} |-> IF x = scope THEN tail ELSE goals[x]]
        BY <2>6, <4>1 DEF Upserted
      <4> QED BY <4>1, <4>2
    <3>3. \A slot \in DOMAIN goals' : GoodLines(goals'[slot])
      BY <3>1, <3>2 DEF NotesOK
    <3> QED BY <3>1, <3>2, <3>3 DEF SlotOf
  <2>7. ASSUME NEW tail \in Goals(old, req), goals' = Upserted(goals, scope, tail)
        PROVE  /\ NotesOK'
               /\ GoalsSound(req, old, SlotOf(goals', scope, <<>>))
    BY <2>2, <2>3, <2>6, <2>7 DEF NotesOK
  <2> QED BY <1>1, <1>2, <2>1, <2>2, <2>3, <2>4, <2>5, <2>7
<1> QED BY <1>5, <1>6

\* No other step of a call ends a reflection.
LEMMA OthersLetBe ==
  ASSUME RInv, NEW p \in Processes, sheet[p].pc = "write", NEW q \in Processes, AgendaStep(q), ~Reflect(p)
  PROVE  sheet'[p] = sheet[p]
<1>1. q # p
  BY Zenon DEF AgendaStep, ReadDue, ReadOutdated, ReadUpstream, Rank, ReadPrimers, ReadOwn,
     ReadGlobal, Count, Page, ReadEdges, FindProject, Doing
<1>2. \E n : sheet' = [sheet EXCEPT ![q] = n]
  <2>1. CASE Reflect(q)
    BY <2>1, Zenon DEF Reflect, Lay
  <2>2. CASE ReadDue(q) \/ ReadOutdated(q) \/ ReadUpstream(q) \/ Rank(q)
    BY <2>2, Zenon DEF ReadDue, ReadOutdated, ReadUpstream, Rank, Lay
  <2>3. CASE ReadPrimers(q) \/ ReadOwn(q) \/ ReadGlobal(q) \/ FindProject(q)
    BY <2>3, Zenon DEF ReadPrimers, ReadOwn, ReadGlobal, FindProject, Lay
  <2>4. CASE Count(q) \/ Page(q) \/ ReadEdges(q)
    BY <2>4, Zenon DEF Count, Page, ReadEdges, Lay
  <2> QED BY <2>1, <2>2, <2>3, <2>4, Zenon DEF AgendaStep
<1>3. PICK n : sheet' = [sheet EXCEPT ![q] = n]
  BY <1>2
<1>4. sheet = [r \in Processes |-> sheet[r]]
  BY DEF RInv
<1> QED BY <1>1, <1>3, <1>4

\* Every step leaves the store and the slots so, and does what a reflection may.
Reflections ==
  \A p \in Processes :
    (sheet[p].pc = "write" /\ sheet'[p].pc # "write") =>
      LET req == sheet[p].req
          scope == Scope(req)
      IN  IF sheet'[p].pc = "failed" THEN UNCHANGED <<g, goals, notes>>
          ELSE /\ GoalsSound(req, SlotOf(goals, scope, <<>>), SlotOf(goals', scope, <<>>))
               /\ DecisionsSound(g, g') /\ PendingSound(req, g, g')
               /\ OnlyItems(req, g, g')

\* That is so of every step.
LEMMA NextReflections ==
  ASSUME OverlapIsSymmetric
  PROVE  RInv /\ NotesOK /\ [Next]_vars => NotesOK' /\ Reflections
<1> SUFFICES ASSUME RInv, NotesOK, [Next]_vars PROVE NotesOK' /\ Reflections
  OBVIOUS
<1>1. Tables(g) /\ AllLabels(g)
  BY DEF RInv, NotesOK
<1>2. CASE \E p \in Processes : Reflect(p)
  <2>1. PICK p \in Processes : Reflect(p)
    BY <1>2
  <2>2. NotesOK'
    BY <2>1, ReflectSound
  <2>3. ASSUME NEW q \in Processes, sheet[q].pc = "write", sheet'[q].pc # "write" PROVE Reflect(q)
    BY <2>1, <2>3, OthersLetBe DEF AgendaStep
  <2>4. Reflections
    BY <2>3, ReflectSound, Zenon DEF Reflections
  <2> QED BY <2>2, <2>4
<1>3. CASE ~\E p \in Processes : Reflect(p)
  <2>1. \A p \in Processes : sheet[p].pc = "write" => sheet'[p] = sheet[p]
    BY <1>3, OthersLetBe, Zenon DEF Next, vars
  <2>2. UNCHANGED goals
    <3>1. ASSUME NEW p \in Processes, AgendaStep(p) PROVE UNCHANGED goals
      <4>1. ~Reflect(p)
        BY <1>3
      <4> QED BY <3>1, <4>1, Zenon DEF AgendaStep, ReadDue, ReadOutdated, ReadUpstream, Rank,
            ReadPrimers, ReadOwn, ReadGlobal, Count, Page, ReadEdges, FindProject
    <3> QED BY <3>1, Zenon DEF Next, vars
  <2>3. AllLabels(g')
    <3>1. ASSUME NEW p \in Processes, SearchStep(p) PROVE AllLabels(g')
      <4>1. CASE Promote(p)
        <5>1. g' = g \/ \E x : g' = BoostImportance(g, x)
          BY <4>1 DEF Promote
        <5> QED BY <1>1, <5>1, BoostLabels
      <4>2. CASE ~Promote(p)
        <5>1. UNCHANGED g
          BY <3>1, <4>2, Zenon DEF SearchStep, Ask, Embedded, NoEmbedding, VecLeg, BmLeg, LegFails,
             Hydrate, FilterTags, ReadReplaces, Stand, Chain, Group, Hit, Hoist, corpus
        <5> QED BY <1>1, <5>1
      <4> QED BY <4>1, <4>2
    <3>2. ASSUME NEW p \in Processes, PlanStep(p) PROVE UNCHANGED g
      BY <3>2, Zenon DEF PlanStep, Start, ReadPending, ReadStored, Embed, EmbedFails, Place,
         PlaceByCluster, CheckRoom, PlaceByParent, Conclude, corpus
    <3>3. ASSUME NEW p \in Processes, AgendaStep(p) PROVE UNCHANGED g
      <4>1. ~Reflect(p)
        BY <1>3
      <4> QED BY <3>3, <4>1, Zenon DEF AgendaStep, ReadDue, ReadOutdated, ReadUpstream, Rank,
            ReadPrimers, ReadOwn, ReadGlobal, Count, Page, ReadEdges, FindProject, corpus
    <3>4. UNCHANGED vars => UNCHANGED g
      BY DEF vars
    <3> QED BY <1>1, <3>1, <3>2, <3>3, <3>4, OthersLabels DEF Next
  <2> QED BY <1>1, <2>1, <2>2, <2>3 DEF NotesOK, Reflections
<1> QED BY <1>2, <1>3

\* A reflection that fails writes nothing, and one that succeeds has written what
\* it was told to and no more: its slot has every goal added, each whole line
\* once, none that a removal names unless it was added in the same call;
\* no decision it made repeats a live one; every pending item is a live thought
\* tagged as one, and a draft that waits for its day if it is new; and it changed
\* no thought whose content was not among its items.  (ReflectionSound;
\* applySessionReflection in services/session-reflection.service.ts)  The overlap
\* of two contents is a Jaccard index, which is symmetric.
THEOREM ReflectionsAreSound == ASSUME OverlapIsSymmetric PROVE Spec => ReflectionSound
<1>1. Init => RInv /\ NotesOK
  BY InitRInv, InitNotes
<1>2. RInv /\ NotesOK /\ [Next]_vars => (RInv /\ NotesOK)' /\ Reflections
  BY NextRInv, NextReflections
<1>3. Reflections => \A p \in Processes :
          (sheet[p].pc = "write" /\ sheet'[p].pc # "write") =>
            LET req == sheet[p].req
                scope == Scope(req)
            IN  IF sheet'[p].pc = "failed" THEN UNCHANGED <<g, goals, notes>>
                ELSE /\ GoalsSound(req, SlotOf(goals, scope, <<>>), SlotOf(goals', scope, <<>>))
                     /\ DecisionsSound(g, g') /\ PendingSound(req, g, g')
                     /\ OnlyItems(req, g, g')
  BY Zenon DEF Reflections
<1> QED BY <1>1, <1>2, <1>3, PTL DEF Spec, ReflectionSound
=============================================================================
