--------------------------- MODULE Curation_proofs ---------------------------
(***************************************************************************)
(* Proofs about Curation: the graph stays sound under every writer, a      *)
(* token authorises what its preview showed, nothing that may not go goes, *)
(* merges lose no neighbour, and a repair heals.                           *)
(*                                                                         *)
(* Every operation of the store takes a store in order (Good) to one in    *)
(* order and only grows it (Grows), the deletion of a thought and of a     *)
(* project apart. The loops among them are folds: each is first shown to   *)
(* be a function on subsets, then carried along them one element at a      *)
(* time. The invariant CInv adds what the tokens and the jobs of the       *)
(* processes hold of the store, and that writes of others keep it.         *)
(***************************************************************************)
EXTENDS Curation, FiniteInduction

(***************************************************************************)
(* Stores that are in order.                                               *)
(***************************************************************************)
EdgesSound(s) ==
  /\ \A e \in s.ed : Has(s, e.s) /\ Has(s, e.t) /\ e.s # e.t /\ ClusterRule(s, e.s, e.t, e.type)
  /\ \A e, f \in s.ed : SamePair(e, f) => e = f

Good(s) ==
  /\ Store(s) /\ EdgesSound(s) /\ DedupeKeySound(s)
  /\ Unused(s) \cap DOMAIN s.th = {}

\* A transaction at time t made n of s: no thought is gone or became a cluster,
\* the new ones have unused ids, and a content that is new left its stamp.
Grows(s, n, t) ==
  /\ DOMAIN s.th \subseteq DOMAIN n.th
  /\ DOMAIN n.th \subseteq DOMAIN s.th \cup Unused(s)
  /\ s.made <= n.made
  /\ \A x \in DOMAIN s.th :
       /\ n.th[x].cluster = s.th[x].cluster
       /\ \/ n.th[x].content = s.th[x].content /\ n.th[x].stamp = s.th[x].stamp
          \/ n.th[x].stamp = t
  /\ \A x \in DOMAIN n.th : x \in DOMAIN s.th \/ n.th[x].stamp = t

Times == 1..MaxNow

\* What an update may be given.
Given(d) ==
  /\ DOMAIN d \subseteq {"content", "proj", "status", "prot", "gone"}
  /\ "content" \in DOMAIN d => d["content"] \in STRING
  /\ "proj" \in DOMAIN d => d["proj"] \in STRING
  /\ "status" \in DOMAIN d => d["status"] \in Statuses
  /\ "prot" \in DOMAIN d => d["prot"] \in BOOLEAN
  /\ "gone" \in DOMAIN d => d["gone"] \in Times

\* The checks of the report say what the edges are.
LEMMA SoundIs ==
  ASSUME NEW s, Store(s)
  PROVE  StructurallySound(s) <=> EdgesSound(s)
<1>1. ASSUME StructurallySound(s), NEW e \in s.ed
      PROVE  Has(s, e.s) /\ Has(s, e.t) /\ e.s # e.t /\ ClusterRule(s, e.s, e.t, e.type)
  <2>1. Has(s, e.s) /\ Has(s, e.t)
    BY <1>1 DEF StructurallySound, OrphanEdges
  <2>2. e.s # e.t
    BY <1>1 DEF StructurallySound, SelfLoopEdges
  <2>3. ~(\/ e.type = "cluster" /\ (~IsCluster(s, e.s) \/ IsCluster(s, e.t))
          \/ e.type = "references" /\ IsCluster(s, e.s) # IsCluster(s, e.t)
          \/ /\ e.type \notin {"cluster", "references"}
             /\ IsCluster(s, e.s) \/ IsCluster(s, e.t))
    BY <1>1, <2>1 DEF StructurallySound, ClusterViolations, OrphanEdges
  <2> QED BY <2>1, <2>2, <2>3 DEF ClusterRule
<1>2. ASSUME EdgesSound(s) PROVE StructurallySound(s)
  <2>1. OrphanEdges(s) = {} /\ SelfLoopEdges(s) = {}
    BY <1>2 DEF EdgesSound, OrphanEdges, SelfLoopEdges
  <2>2. DuplicateEdges(s) = {} /\ SupportsSelfConflict(s) = {}
        /\ ContradictsRedundantWithReplaces(s) = {}
    BY <1>2 DEF EdgesSound, DuplicateEdges, SupportsSelfConflict, SamePair,
                ContradictsRedundantWithReplaces, OfType, Contradictions
  <2>3. ClusterViolations(s) = {} /\ OrphanedClusterMembers(s) = {}
    BY <1>2 DEF EdgesSound, ClusterViolations, OrphanedClusterMembers, OfType, ClusterRule
  <2> QED BY <1>2, <2>1, <2>2, <2>3 DEF EdgesSound, StructurallySound
<1> QED BY <1>1, <1>2 DEF StructurallySound, EdgesSound

\* Nothing is a transaction too.
LEMMA GrowsSame == ASSUME NEW s, Store(s), NEW t PROVE Grows(s, s, t)
BY DEF Grows, Store

\* The ids left for later become fewer.
LEMMA UnusedLess ==
  ASSUME NEW s, NEW n, Store(s), Store(n), s.made <= n.made
  PROVE  Unused(n) \subseteq Unused(s)
BY DEF Unused, Store

\* Transactions follow one another.
LEMMA GrowsOn ==
  ASSUME NEW a, NEW b, NEW c, NEW t, Store(a), Store(b), Store(c),
         Grows(a, b, t), Grows(b, c, t)
  PROVE  Grows(a, c, t)
<1>1. Unused(b) \subseteq Unused(a) /\ a.made <= c.made
  BY UnusedLess DEF Grows, Store
<1>2. DOMAIN a.th \subseteq DOMAIN c.th /\ DOMAIN c.th \subseteq DOMAIN a.th \cup Unused(a)
  BY <1>1 DEF Grows
<1> QED BY <1>1, <1>2 DEF Grows

\* A row whose given columns are written.
LEMMA GivenRow ==
  ASSUME NEW old \in Rows, NEW d, Given(d), NEW n,
         n = [f \in DOMAIN old |-> IF f \in DOMAIN d THEN d[f] ELSE old[f]]
  PROVE  /\ n \in Rows
         /\ n.cluster = old.cluster /\ n.hash = old.hash /\ n.stamp = old.stamp
         /\ n.content = IF "content" \in DOMAIN d THEN d["content"] ELSE old.content
         /\ n.proj = IF "proj" \in DOMAIN d THEN d["proj"] ELSE old.proj
         /\ n.status = IF "status" \in DOMAIN d THEN d["status"] ELSE old.status
BY SMT DEF Given, Rows, Times

\* A pair is a sequence.
LEMMA PairIs == ASSUME NEW S, NEW a \in S, NEW b \in S PROVE <<a, b>> \in Seq(S)
OBVIOUS

\* What a thought may be rewritten to: the hash is of the row, or the row is as
\* it was but for status and protection, and no live row has its key.
Fits(s, id, new, t) ==
  /\ new \in Rows /\ new.cluster = s.th[id].cluster
  /\ \/ new.content = s.th[id].content /\ new.stamp = s.th[id].stamp
     \/ new.stamp = t
  /\ \/ new.hash = Hash(new)
     \/ /\ new.hash = s.th[id].hash
        /\ new.content = s.th[id].content /\ new.proj = s.th[id].proj
  /\ \/ new.status = "archived"
     \/ Twins(s, new) \ {id} = {}
     \/ /\ new.hash = s.th[id].hash /\ new.status = s.th[id].status
        /\ new.proj = s.th[id].proj

\* A thought that is rewritten.
LEMMA RewriteGood ==
  ASSUME NEW t \in Times, NEW s, Good(s), NEW id \in DOMAIN s.th, NEW new,
         Fits(s, id, new, t), NEW n, n = [s EXCEPT !.th[id] = new]
  PROVE  Good(n) /\ Grows(s, n, t) /\ n.ed = s.ed /\ DOMAIN n.th = DOMAIN s.th
         /\ n.made = s.made
         /\ \A x \in DOMAIN s.th : n.th[x] = IF x = id THEN new ELSE s.th[x]
<1>1. s = [th |-> s.th, ed |-> s.ed, projs |-> s.projs, made |-> s.made, ver |-> s.ver]
  BY DEF Good, Store
<1>2. n = [th |-> [s.th EXCEPT ![id] = new], ed |-> s.ed, projs |-> s.projs, made |-> s.made,
           ver |-> s.ver]
  BY <1>1
<1>3. /\ n.th = [s.th EXCEPT ![id] = new] /\ n.ed = s.ed /\ n.projs = s.projs
      /\ n.made = s.made /\ n.ver = s.ver
      /\ n = [th |-> n.th, ed |-> n.ed, projs |-> n.projs, made |-> n.made, ver |-> n.ver]
  BY <1>2
<1>4. s.th \in [DOMAIN s.th -> Rows]
  BY DEF Good, Store
<1>5. /\ DOMAIN n.th = DOMAIN s.th /\ n.th \in [DOMAIN n.th -> Rows]
      /\ \A x \in DOMAIN s.th : n.th[x] = IF x = id THEN new ELSE s.th[x]
  BY <1>3, <1>4 DEF Fits
<1>6. Store(n)
  BY <1>3, <1>5 DEF Good, Store
<1>7. Unused(n) = Unused(s)
  BY <1>3 DEF Unused
<1>8. \A x : IsCluster(n, x) = IsCluster(s, x) /\ Has(n, x) = Has(s, x)
  BY <1>5 DEF IsCluster, Has, Fits
<1>9. EdgesSound(n)
  BY <1>3, <1>8 DEF Good, EdgesSound, ClusterRule
<1>10. DedupeKeySound(n)
  <2>1. \A x \in DOMAIN n.th :
          n.th[x].hash # Hash(n.th[x]) => /\ n.th[x].hash[1] = n.th[x].content
                                          /\ n.th[x].hash[2] \notin n.projs
    BY <1>3, <1>5 DEF Good, DedupeKeySound, Hash, Fits
  <2>2. ASSUME NEW x \in Live(n), NEW y \in Live(n), x # y, n.th[x].proj = n.th[y].proj
        PROVE  n.th[x].hash # n.th[y].hash
    <3>1. x \in DOMAIN s.th /\ y \in DOMAIN s.th
      BY <1>5 DEF Live
    <3>2. CASE x # id /\ y # id
      BY <1>5, <2>2, <3>1, <3>2 DEF Live, Good, DedupeKeySound
    <3>3. CASE new.status # "archived" /\ Twins(s, new) \ {id} = {}
      BY <1>5, <2>2, <3>1, <3>2, <3>3 DEF Live, Twins
    <3>4. CASE /\ new.hash = s.th[id].hash /\ new.status = s.th[id].status
               /\ new.proj = s.th[id].proj
      <4>1. /\ n.th[x].hash = s.th[x].hash /\ n.th[x].proj = s.th[x].proj
            /\ n.th[x].status = s.th[x].status
            /\ n.th[y].hash = s.th[y].hash /\ n.th[y].proj = s.th[y].proj
            /\ n.th[y].status = s.th[y].status
        BY <1>5, <3>1, <3>4
      <4>2. x \in Live(s) /\ y \in Live(s)
        BY <2>2, <3>1, <4>1 DEF Live
      <4> QED BY <2>2, <4>1, <4>2 DEF Good, DedupeKeySound
    <3> QED BY <1>5, <2>2, <3>1, <3>2, <3>3, <3>4 DEF Live, Fits
  <2> QED BY <2>1, <2>2 DEF DedupeKeySound
<1>11. Good(n)
  BY <1>3, <1>5, <1>6, <1>7, <1>9, <1>10 DEF Good, Fits
<1>12. Grows(s, n, t)
  BY <1>3, <1>5 DEF Grows, Good, Store, Fits
<1> QED BY <1>3, <1>5, <1>11, <1>12

\* A transaction that rewrote the thought id, or was refused.
Rewrote(s, r, id, t) ==
  /\ r.ok \in BOOLEAN /\ Good(r.g) /\ Grows(s, r.g, t)
  /\ r.g.ed = s.ed /\ r.g.made = s.made /\ DOMAIN r.g.th = DOMAIN s.th
  /\ \A x \in DOMAIN s.th : x # id => r.g.th[x] = s.th[x]
  /\ r.ok => id \in DOMAIN s.th

Restatus(s, r, id, d) ==
  r.ok => r.g.th[id].status = IF "status" \in DOMAIN d THEN d["status"] ELSE s.th[id].status

\* An update: refused, or the row as given, with its hash and stamp.
LEMMA UpdateGood ==
  ASSUME NEW t \in Times, NEW s, Good(s), NEW id,
         NEW d, Given(d), NEW r, r = UpdateThought(s, id, d, t)
  PROVE  Rewrote(s, r, id, t) /\ Restatus(s, r, id, d)
<1>1. Store(s) /\ Grows(s, s, t)
  BY GrowsSame DEF Good
<1>2. CASE r.g = s /\ (r.ok = FALSE \/ (r.ok = TRUE /\ DOMAIN d = {} /\ id \in DOMAIN s.th))
  BY <1>1, <1>2 DEF Rewrote, Restatus
<1>3. CASE ~(r.g = s /\ (r.ok = FALSE \/ (r.ok = TRUE /\ DOMAIN d = {} /\ id \in DOMAIN s.th)))
  <2> DEFINE old == s.th[id]
             given == [f \in DOMAIN old |-> IF f \in DOMAIN d THEN d[f] ELSE old[f]]
             rehash == {"content", "proj"} \cap DOMAIN d # {}
             new == [given EXCEPT !.hash = IF rehash THEN Hash(given) ELSE @, !.stamp = t]
             checked == rehash \/ "status" \in DOMAIN d
  <2>1. /\ id \in DOMAIN s.th
        /\ ~(checked /\ new.status # "archived" /\ Twins(s, new) \ {id} # {})
        /\ r.ok = TRUE /\ r.g = [s EXCEPT !.th[id] = new]
    BY <1>3 DEF UpdateThought, Has, Done, Refuse
  <2>2. old \in Rows
    BY <2>1 DEF Good, Store
  <2> HIDE DEF old
  <2>3. /\ given \in Rows
        /\ given.cluster = old.cluster /\ given.hash = old.hash /\ given.stamp = old.stamp
        /\ given.content = IF "content" \in DOMAIN d THEN d["content"] ELSE old.content
        /\ given.proj = IF "proj" \in DOMAIN d THEN d["proj"] ELSE old.proj
        /\ given.status = IF "status" \in DOMAIN d THEN d["status"] ELSE old.status
    BY <2>2, GivenRow
  <2> HIDE DEF given
  <2>4. Hash(given) \in Seq(STRING)
    BY <2>3, PairIs DEF Hash, Rows
  <2>5. /\ new \in Rows /\ new.cluster = given.cluster /\ new.stamp = t
        /\ new.content = given.content /\ new.proj = given.proj /\ new.status = given.status
        /\ new.hash = IF rehash THEN Hash(given) ELSE given.hash
    BY <2>3, <2>4 DEF Rows, Times
  <2> HIDE DEF new
  <2>6. Hash(new) = Hash(given)
    BY <2>5 DEF Hash
  <2>7. new.hash = Hash(new) \/ (/\ new.hash = old.hash
                                 /\ new.content = old.content /\ new.proj = old.proj)
    BY <2>3, <2>5, <2>6
  <2>8. \/ new.status = "archived"
        \/ Twins(s, new) \ {id} = {}
        \/ /\ new.hash = old.hash /\ new.status = old.status /\ new.proj = old.proj
    BY <2>1, <2>3, <2>5
  <2>9. Fits(s, id, new, t)
    BY <2>3, <2>5, <2>7, <2>8 DEF Fits, old
  <2>10. /\ Good(r.g) /\ Grows(s, r.g, t) /\ r.g.ed = s.ed /\ DOMAIN r.g.th = DOMAIN s.th
         /\ r.g.made = s.made
         /\ \A x \in DOMAIN s.th : r.g.th[x] = IF x = id THEN new ELSE s.th[x]
    BY ONLY <2>1, <2>9, t \in Times, Good(s), RewriteGood
  <2> QED BY <2>1, <2>3, <2>5, <2>10 DEF old, Rewrote, Restatus
<1> QED BY <1>2, <1>3

\* Archiving is an update.
LEMMA ArchiveGood ==
  ASSUME NEW t \in Times, NEW s, Good(s), NEW id,
         NEW r, r = ArchiveThought(s, id, t)
  PROVE  /\ Rewrote(s, r, id, t)
         /\ r.ok => r.g.th[id].status = "archived"
<1> DEFINE d == [status |-> "archived", gone |-> t, prot |-> FALSE]
<1>1. Given(d) /\ "status" \in DOMAIN d /\ d["status"] = "archived"
  BY DEF Given, Statuses
<1>2. r = UpdateThought(s, id, d, t)
  BY DEF ArchiveThought
<1> HIDE DEF d
<1>3. Rewrote(s, r, id, t) /\ Restatus(s, r, id, d)
  BY <1>1, <1>2, UpdateGood
<1> QED BY <1>1, <1>3 DEF Restatus

\* An archived thought is not refused.
LEMMA ArchiveDone ==
  ASSUME NEW s, Good(s), NEW id \in DOMAIN s.th, NEW t
  PROVE  ArchiveThought(s, id, t).ok
<1> DEFINE d == [status |-> "archived", gone |-> t, prot |-> FALSE]
           old == s.th[id]
           given == [f \in DOMAIN old |-> IF f \in DOMAIN d THEN d[f] ELSE old[f]]
           rehash == {"content", "proj"} \cap DOMAIN d # {}
           new == [given EXCEPT !.hash = IF rehash THEN Hash(given) ELSE @, !.stamp = t]
<1>1. given.status = "archived" /\ "status" \in DOMAIN given
  BY DEF Good, Store, Rows
<1>2. new.status = "archived"
  BY <1>1
<1> QED BY <1>2 DEF ArchiveThought, UpdateThought, Has, Done, Refuse

\* What a new thought is made of.
NewThought(d) ==
  /\ d.content \in STRING /\ d.proj \in STRING /\ d.status \in Statuses
  /\ d.prot \in BOOLEAN /\ d.cluster \in BOOLEAN

\* A transaction that created a thought, or found its twin.
Created(s, r, t) ==
  /\ r.ok = TRUE /\ Good(r.g) /\ Grows(s, r.g, t)
  /\ r.g.ed = s.ed /\ r.g.made <= s.made + 1 /\ r.id \in DOMAIN r.g.th
  /\ \A x \in DOMAIN s.th : x # r.id => r.g.th[x] = s.th[x]

\* The row createThought writes.
FirstRow(d, t) ==
  [content |-> d.content, proj |-> d.proj, status |-> d.status,
   prot |-> d.prot, cluster |-> d.cluster,
   hash |-> <<d.content, d.proj>>, imp |-> MaxImp, hit |-> FALSE,
   pinned |-> FALSE, born |-> t, gone |-> 0, stamp |-> t]

\* The next id is unused, and only once.
LEMMA NextId ==
  ASSUME NEW s, Store(s), CanCreate(s, 1)
  PROVE  /\ s.made + 1 \in DOMAIN NewIds /\ NewIds[s.made + 1] \in Unused(s)
         /\ \A n : Store(n) /\ n.made = s.made + 1 =>
              Unused(n) = Unused(s) \ {NewIds[s.made + 1]}
<1>1. s.made \in Nat /\ s.made + 1 <= Len(NewIds) /\ Len(NewIds) \in Nat
      /\ DOMAIN NewIds = 1..Len(NewIds)
  BY CurationAssumption DEF Store, CanCreate
<1>2. s.made + 1 \in DOMAIN NewIds /\ NewIds[s.made + 1] \in Unused(s)
  BY <1>1 DEF Unused
<1>3. ASSUME NEW n, n.made = s.made + 1
      PROVE  Unused(n) = Unused(s) \ {NewIds[s.made + 1]}
  <2> DEFINE m == s.made
  <2>1. \A i \in (m + 1 + 1)..Len(NewIds) :
          i \in (m + 1)..Len(NewIds) /\ i \in DOMAIN NewIds /\ i # m + 1
    BY <1>1
  <2>2. \A i \in (m + 1)..Len(NewIds) : i = m + 1 \/ i \in (m + 1 + 1)..Len(NewIds)
    BY <1>1
  <2>3. \A i \in (m + 1 + 1)..Len(NewIds) : NewIds[i] # NewIds[m + 1]
    BY <1>2, <2>1, CurationAssumption
  <2> HIDE DEF m
  <2> QED BY <1>3, <2>1, <2>2, <2>3 DEF Unused, m
<1> QED BY <1>2, <1>3

\* A thought that has no twin gets a row of its own.
LEMMA NewRowGood ==
  ASSUME NEW t \in Times, NEW s, Good(s), CanCreate(s, 1),
         NEW d, NewThought(d),
         d.status = "archived" \/ Twins(s, FirstRow(d, t)) = {},
         NEW new, new = NewIds[s.made + 1],
         NEW n, n = [s EXCEPT !.made = @ + 1,
                              !.th = [x \in DOMAIN @ \cup {new} |->
                                        IF x = new THEN FirstRow(d, t) ELSE @[x]]]
  PROVE  Created(s, [ok |-> TRUE, g |-> n, id |-> new], t)
<1> DEFINE row == FirstRow(d, t)
<1>1. /\ s = [th |-> s.th, ed |-> s.ed, projs |-> s.projs, made |-> s.made, ver |-> s.ver]
      /\ s.th \in [DOMAIN s.th -> Rows] /\ s.made \in Nat
  BY DEF Good, Store
<1>2. n = [th |-> [x \in DOMAIN s.th \cup {new} |-> IF x = new THEN row ELSE s.th[x]],
           ed |-> s.ed, projs |-> s.projs, made |-> s.made + 1, ver |-> s.ver]
  BY <1>1
<1>3. /\ n.th = [x \in DOMAIN s.th \cup {new} |-> IF x = new THEN row ELSE s.th[x]]
      /\ n.ed = s.ed /\ n.projs = s.projs /\ n.made = s.made + 1 /\ n.ver = s.ver
      /\ n = [th |-> n.th, ed |-> n.ed, projs |-> n.projs, made |-> n.made, ver |-> n.ver]
  BY <1>2
<1>4. /\ row.content = d.content /\ row.proj = d.proj /\ row.status = d.status
      /\ row.hash = <<d.content, d.proj>> /\ row.cluster = d.cluster /\ row.stamp = t
  BY DEF FirstRow
<1>5. row \in Rows
  <2>1. <<d.content, d.proj>> \in Seq(STRING)
    BY PairIs DEF NewThought
  <2>2. MaxImp \in 0..MaxImp /\ 0 \in 0..MaxNow
    BY CurationAssumption
  <2> QED BY <2>1, <2>2 DEF NewThought, FirstRow, Rows, Times
<1> HIDE DEF row
<1>6. s.made + 1 \in DOMAIN NewIds /\ new \in Unused(s) /\ new \notin DOMAIN s.th
  BY NextId DEF Good
<1>7. /\ DOMAIN n.th = DOMAIN s.th \cup {new} /\ n.th \in [DOMAIN n.th -> Rows]
      /\ n.th[new] = row
      /\ \A x \in DOMAIN s.th : n.th[x] = s.th[x]
  BY <1>1, <1>3, <1>5, <1>6
<1>8. Store(n)
  <2>1. IsFiniteSet(DOMAIN n.th)
    BY <1>7, FS_AddElement DEF Good, Store
  <2>2. n.made \in 0..Len(NewIds)
    BY <1>3, <1>6, CurationAssumption DEF Good, Store
  <2> QED BY <1>3, <1>7, <2>1, <2>2 DEF Good, Store
<1>9. Unused(n) \cap DOMAIN n.th = {}
  <2>1. Unused(n) = Unused(s) \ {new}
    BY <1>3, <1>8, NextId DEF Good
  <2> QED BY <1>7, <2>1 DEF Good
<1>10. EdgesSound(n)
  <2>1. \A x \in DOMAIN s.th : Has(n, x) /\ IsCluster(n, x) = IsCluster(s, x)
    BY <1>7 DEF Has, IsCluster
  <2>2. \A e \in s.ed : e.s \in DOMAIN s.th /\ e.t \in DOMAIN s.th
    BY DEF Good, EdgesSound, Has
  <2>3. EdgesSound(s) /\ n.ed = s.ed
    BY <1>3 DEF Good
  <2> QED BY ONLY <2>1, <2>2, <2>3 DEF EdgesSound, ClusterRule
<1>11. DedupeKeySound(n)
  <2>1. \A x \in DOMAIN n.th :
          n.th[x].hash # Hash(n.th[x]) => /\ n.th[x].hash[1] = n.th[x].content
                                          /\ n.th[x].hash[2] \notin n.projs
    <3>1. ASSUME NEW x \in DOMAIN s.th, n.th[x].hash # Hash(n.th[x])
          PROVE  n.th[x].hash[1] = n.th[x].content /\ n.th[x].hash[2] \notin n.projs
      <4>1. n.th[x] = s.th[x] /\ n.projs = s.projs
        BY <1>3, <1>7
      <4> QED BY <3>1, <4>1 DEF Good, DedupeKeySound
    <3>2. n.th[new].hash = Hash(n.th[new])
      BY <1>4, <1>7 DEF Hash
    <3> QED BY <1>7, <3>1, <3>2
  <2>2. ASSUME NEW x \in DOMAIN s.th, NEW y \in DOMAIN s.th, x \in Live(n), y \in Live(n),
               x # y, n.th[x].proj = n.th[y].proj
        PROVE  n.th[x].hash # n.th[y].hash
    <3>1. x \in Live(s) /\ y \in Live(s) /\ s.th[x].proj = s.th[y].proj
      BY <1>7, <2>2 DEF Live
    <3>2. DedupeKeySound(s)
      BY DEF Good
    <3>3. s.th[x].hash # s.th[y].hash
      BY <2>2, <3>1, <3>2 DEF DedupeKeySound
    <3> QED BY <1>7, <3>3
  <2>3. new \in Live(n) => Twins(s, row) = {}
    BY <1>4, <1>7 DEF Live, row
  <2>4. ASSUME new \in Live(n), NEW x \in Live(n), x # new, n.th[x].proj = row.proj
        PROVE  n.th[x].hash # row.hash
    BY <1>7, <2>3, <2>4 DEF Twins, Live
  <2>5. \A x \in Live(n) : x = new \/ x \in DOMAIN s.th
    BY <1>7 DEF Live
  <2>6. ASSUME NEW x \in Live(n), NEW y \in Live(n), x # y, n.th[x].proj = n.th[y].proj
        PROVE  n.th[x].hash # n.th[y].hash
    BY <1>7, <2>2, <2>4, <2>5, <2>6, ZenonT(30)
  <2>7. \A x, y \in Live(n) : x # y /\ n.th[x].proj = n.th[y].proj => n.th[x].hash # n.th[y].hash
    BY ONLY <2>6
  <2> QED BY ONLY <2>1, <2>7 DEF DedupeKeySound
<1>12. Good(n)
  BY <1>8, <1>9, <1>10, <1>11 DEF Good
<1>13. Grows(s, n, t)
  BY <1>1, <1>3, <1>4, <1>6, <1>7 DEF Grows
<1> DEFINE r == [ok |-> TRUE, g |-> n, id |-> new]
<1>14. r.ok = TRUE /\ r.g = n /\ r.id = new
  OBVIOUS
<1> HIDE DEF r
<1>15. Created(s, r, t)
  BY <1>1, <1>3, <1>7, <1>12, <1>13, <1>14 DEF Created
<1> QED BY <1>15 DEF r

\* createThought: the twin stamped, or a row of its own.
LEMMA CreateGood ==
  ASSUME NEW t \in Times, NEW s, Good(s), CanCreate(s, 1),
         NEW d, NewThought(d)
  PROVE  /\ Created(s, CreateThought(s, d, t), t)
         /\ Twins(s, FirstRow(d, t)) = {} =>
              CreateThought(s, d, t).id = NewIds[s.made + 1]
<1> DEFINE row == FirstRow(d, t)
           new == NewIds[s.made + 1]
           twins == IF d.status = "archived" THEN {} ELSE Twins(s, row)
           twin == CHOOSE x \in twins : TRUE
           r == CreateThought(s, d, t)
<1>1. CASE twins # {}
  <2>1. /\ r = [ok |-> TRUE, why |-> "twin", id |-> twin, g |-> [s EXCEPT !.th[twin].stamp = t]]
        /\ Twins(s, row) # {}
    BY <1>1 DEF CreateThought, FirstRow
  <2>2. twin \in DOMAIN s.th
    BY <1>1 DEF Twins, Live
  <2> HIDE DEF twin, twins, r
  <2> DEFINE was == s.th[twin]
             now2 == [was EXCEPT !.stamp = t]
  <2>3. was \in Rows
    BY <2>2 DEF Good, Store
  <2>4. /\ now2 \in Rows /\ now2.cluster = was.cluster /\ now2.proj = was.proj
        /\ now2.stamp = t /\ now2.hash = was.hash /\ now2.content = was.content
        /\ now2.status = was.status
    BY <2>3 DEF Rows, Times
  <2>5. Fits(s, twin, now2, t)
    BY <2>3, <2>4 DEF Fits
  <2>6. PICK n : n = [s EXCEPT !.th[twin].stamp = t]
    OBVIOUS
  <2>7. n = [s EXCEPT !.th[twin] = now2]
    BY <2>6
  <2> HIDE DEF now2, was
  <2>8. /\ Good(n) /\ Grows(s, n, t) /\ n.ed = s.ed /\ DOMAIN n.th = DOMAIN s.th
        /\ n.made = s.made
        /\ \A x \in DOMAIN s.th : n.th[x] = IF x = twin THEN now2 ELSE s.th[x]
    BY ONLY <2>2, <2>5, <2>7, t \in Times, Good(s), RewriteGood
  <2>9. r.ok = TRUE /\ r.g = n /\ r.id = twin
    BY <2>1, <2>6
  <2>10. n.made <= s.made + 1
    BY <2>8 DEF Good, Store
  <2>11. Created(s, r, t)
    BY <2>2, <2>8, <2>9, <2>10 DEF Created
  <2> QED BY <2>1, <2>11 DEF r
<1>2. CASE twins = {}
  <2> DEFINE n == [s EXCEPT !.made = @ + 1,
                            !.th = [x \in DOMAIN @ \cup {new} |-> IF x = new THEN row ELSE @[x]]]
  <2>1. r = [ok |-> TRUE, why |-> "ok", id |-> new, g |-> n]
    BY <1>2 DEF CreateThought, FirstRow
  <2>2. d.status = "archived" \/ Twins(s, row) = {}
    BY <1>2
  <2>3. Created(s, [ok |-> TRUE, g |-> n, id |-> new], t)
    BY <2>2, NewRowGood
  <2> HIDE DEF n, new, r
  <2>4. r.ok = TRUE /\ r.g = n /\ r.id = new
    BY <2>1
  <2>5. Created(s, r, t)
    BY <2>3, <2>4 DEF Created
  <2> QED BY <2>4, <2>5 DEF r, new
<1> QED BY <1>1, <1>2

(***************************************************************************)
(* Edges.                                                                  *)
(***************************************************************************)
\* Nothing but the edges is different, and every thought of one store is in
\* the other.
SameStatus(s, n, x) == n.th[x].status = s.th[x].status

SameThoughts(s, n) ==
  /\ DOMAIN n.th = DOMAIN s.th /\ n.made = s.made
  /\ \A x \in DOMAIN s.th : SameStatus(s, n, x)

\* E is of s.ed but for an edge from a to b, and nothing else joins those.
OneLink(s, E, a, b, type) ==
  LET e == [s |-> a, t |-> b, type |-> type, ver |-> s.ver]
      cut == E \ {e}
  IN  /\ cut \subseteq s.ed /\ e \in E
      /\ a # b /\ ClusterRule(s, a, b, type)
      /\ \A f \in cut : {f.s, f.t} # {a, b}

\* Edges are cut, and perhaps one is put where its pair is free.
LEMMA EdgesGood ==
  ASSUME NEW t, NEW s, Good(s), NEW E,
         \/ E \subseteq s.ed
         \/ \E a, b \in DOMAIN s.th, type \in EdgeTypes : OneLink(s, E, a, b, type),
         NEW n, n = [s EXCEPT !.ed = E]
  PROVE  Good(n) /\ Grows(s, n, t) /\ SameThoughts(s, n) /\ n.ed = E /\ n.th = s.th
<1>1. s = [th |-> s.th, ed |-> s.ed, projs |-> s.projs, made |-> s.made, ver |-> s.ver]
  BY DEF Good, Store
<1>2. n = [th |-> s.th, ed |-> E, projs |-> s.projs, made |-> s.made, ver |-> s.ver]
  BY <1>1
<1>3. /\ n.th = s.th /\ n.ed = E /\ n.projs = s.projs /\ n.made = s.made /\ n.ver = s.ver
      /\ n = [th |-> n.th, ed |-> n.ed, projs |-> n.projs, made |-> n.made, ver |-> n.ver]
  BY <1>2
<1>4. /\ Unused(n) = Unused(s)
      /\ \A x : Has(n, x) = Has(s, x) /\ IsCluster(n, x) = IsCluster(s, x)
      /\ DedupeKeySound(n)
  BY <1>3 DEF Unused, Has, IsCluster, Good, DedupeKeySound, Live
<1>5. ASSUME E \subseteq s.ed PROVE Store(n) /\ EdgesSound(n)
  <2>1. IsFiniteSet(E)
    BY <1>5, FS_Subset DEF Good, Store
  <2>2. Store(n)
    BY <1>3, <1>5, <2>1 DEF Good, Store
  <2>3. EdgesSound(n)
    BY <1>3, <1>4, <1>5 DEF Good, EdgesSound, ClusterRule
  <2> QED BY <2>2, <2>3
<1>6. ASSUME NEW a \in DOMAIN s.th, NEW b \in DOMAIN s.th, NEW type \in EdgeTypes, NEW e,
             e = [s |-> a, t |-> b, type |-> type, ver |-> s.ver], e \in E,
             E \ {e} \subseteq s.ed, a # b, ClusterRule(s, a, b, type),
             \A f \in E \ {e} : {f.s, f.t} # {a, b}
      PROVE  Store(n) /\ EdgesSound(n)
  <2>1. IsFiniteSet(E)
    <3>1. IsFiniteSet(E \ {e})
      BY <1>6, FS_Subset DEF Good, Store
    <3>2. E = (E \ {e}) \cup {e}
      BY <1>6
    <3> QED BY <3>1, <3>2, FS_AddElement
  <2>2. e.s = a /\ e.t = b /\ e.type = type /\ e.ver = s.ver
        /\ e = [s |-> e.s, t |-> e.t, type |-> e.type, ver |-> e.ver]
    BY <1>6
  <2>3. \A f \in E : f = e \/ (f \in s.ed /\ {f.s, f.t} # {a, b})
    BY <1>6
  <2>4. s.ver \in Nat /\ s.ver \in 0..s.ver
    BY DEF Good, Store
  <2>5. Store(n)
    BY <1>3, <2>1, <2>2, <2>3, <2>4, <1>6 DEF Good, Store
  <2>6. \A f \in E : Has(n, f.s) /\ Has(n, f.t) /\ f.s # f.t /\ ClusterRule(n, f.s, f.t, f.type)
    BY <1>4, <1>6, <2>2, <2>3 DEF Good, EdgesSound, ClusterRule, Has
  <2>7. ASSUME NEW f \in E, NEW h \in E, SamePair(f, h) PROVE f = h
    BY <2>2, <2>3, <2>7 DEF SamePair, Good, EdgesSound
  <2> QED BY <1>3, <2>5, <2>6, <2>7 DEF EdgesSound
<1>7. Store(n) /\ EdgesSound(n)
  <2>1. CASE E \subseteq s.ed
    BY <1>5, <2>1
  <2>2. CASE \E a, b \in DOMAIN s.th, type \in EdgeTypes : OneLink(s, E, a, b, type)
    <3>1. PICK a \in DOMAIN s.th, b \in DOMAIN s.th, type \in EdgeTypes :
                 OneLink(s, E, a, b, type)
      BY <2>2
    <3>2. PICK e : /\ e = [s |-> a, t |-> b, type |-> type, ver |-> s.ver] /\ e \in E
                   /\ E \ {e} \subseteq s.ed /\ a # b /\ ClusterRule(s, a, b, type)
                   /\ \A f \in E \ {e} : {f.s, f.t} # {a, b}
      BY <3>1 DEF OneLink
    <3> QED BY <1>6, <3>2
  <2> QED BY <2>1, <2>2
<1> QED BY <1>3, <1>4, <1>7 DEF Good, Grows, SameThoughts, SameStatus, Store

\* Columns are written that neither the index nor the edges depend on.
LEMMA TouchGood ==
  ASSUME NEW t, NEW s, Good(s), NEW F \in [DOMAIN s.th -> Rows],
         \A x \in DOMAIN s.th :
           /\ F[x].cluster = s.th[x].cluster /\ F[x].content = s.th[x].content
           /\ F[x].stamp = s.th[x].stamp /\ F[x].hash = s.th[x].hash
           /\ F[x].proj = s.th[x].proj /\ F[x].status = s.th[x].status,
         NEW n, n = [s EXCEPT !.th = F]
  PROVE  Good(n) /\ Grows(s, n, t) /\ SameThoughts(s, n) /\ n.ed = s.ed /\ n.ver = s.ver
<1>1. s = [th |-> s.th, ed |-> s.ed, projs |-> s.projs, made |-> s.made, ver |-> s.ver]
  BY DEF Good, Store
<1>2. n = [th |-> F, ed |-> s.ed, projs |-> s.projs, made |-> s.made, ver |-> s.ver]
  BY <1>1
<1>3. /\ n.th = F /\ n.ed = s.ed /\ n.projs = s.projs /\ n.made = s.made /\ n.ver = s.ver
      /\ n = [th |-> n.th, ed |-> n.ed, projs |-> n.projs, made |-> n.made, ver |-> n.ver]
  BY <1>2
<1>4. DOMAIN n.th = DOMAIN s.th /\ n.th \in [DOMAIN n.th -> Rows]
  BY <1>3
<1>5. Store(n)
  BY <1>3, <1>4 DEF Good, Store
<1>6. /\ Unused(n) = Unused(s)
      /\ \A x : Has(n, x) = Has(s, x) /\ IsCluster(n, x) = IsCluster(s, x)
  BY <1>3, <1>4 DEF Unused, Has, IsCluster
<1>7. EdgesSound(n)
  BY <1>3, <1>6 DEF Good, EdgesSound, ClusterRule
<1>8. DedupeKeySound(n)
  <2>1. \A x \in DOMAIN s.th :
          /\ n.th[x].content = s.th[x].content /\ n.th[x].hash = s.th[x].hash
          /\ n.th[x].proj = s.th[x].proj /\ Hash(n.th[x]) = Hash(s.th[x])
    BY <1>3 DEF Hash
  <2>2. Live(n) = Live(s)
    BY <1>3, <1>4 DEF Live
  <2>3. \A x \in Live(s) : x \in DOMAIN s.th
    BY DEF Live
  <2>4. ASSUME NEW x \in Live(n), NEW y \in Live(n), x # y, n.th[x].proj = n.th[y].proj
        PROVE  n.th[x].hash # n.th[y].hash
    BY <2>1, <2>2, <2>3, <2>4 DEF Good, DedupeKeySound
  <2>5. ASSUME NEW x \in DOMAIN n.th, n.th[x].hash # Hash(n.th[x])
        PROVE  n.th[x].hash[1] = n.th[x].content /\ n.th[x].hash[2] \notin n.projs
    BY <1>3, <1>4, <2>1, <2>5 DEF Good, DedupeKeySound
  <2> QED BY <2>4, <2>5 DEF DedupeKeySound
<1>9. Good(n)
  BY <1>3, <1>4, <1>5, <1>6, <1>7, <1>8 DEF Good
<1>10. Grows(s, n, t) /\ SameThoughts(s, n)
  BY <1>3, <1>4 DEF Grows, SameThoughts, SameStatus, Good, Store
<1> QED BY <1>3, <1>9, <1>10

\* An importance is raised.
LEMMA BoostGood ==
  ASSUME NEW t, NEW s, Good(s), NEW id \in DOMAIN s.th, NEW n, n = BoostImportance(s, id)
  PROVE  Good(n) /\ Grows(s, n, t) /\ SameThoughts(s, n) /\ n.ed = s.ed /\ n.ver = s.ver
<1> DEFINE row == s.th[id]
           new == [row EXCEPT !.imp = IF @ < MaxImp THEN @ + 1 ELSE @]
           F == [s.th EXCEPT ![id] = new]
<1>1. s.th \in [DOMAIN s.th -> Rows] /\ row \in Rows
  BY DEF Good, Store
<1>2. /\ new \in Rows /\ new.cluster = row.cluster /\ new.content = row.content
      /\ new.stamp = row.stamp /\ new.hash = row.hash /\ new.proj = row.proj
      /\ new.status = row.status
  <2>1. MaxImp \in Nat
    BY CurationAssumption
  <2>2. row.imp \in 0..MaxImp
    BY <1>1 DEF Rows
  <2> DEFINE imp == IF row.imp < MaxImp THEN row.imp + 1 ELSE row.imp
  <2>3. imp \in 0..MaxImp
    BY <2>1, <2>2
  <2>4. new = [row EXCEPT !.imp = imp]
    OBVIOUS
  <2> HIDE DEF imp, row, new
  <2> QED BY <1>1, <2>3, <2>4 DEF Rows
<1>3. n = [s EXCEPT !.th = F]
  <2>1. s = [th |-> s.th, ed |-> s.ed, projs |-> s.projs, made |-> s.made, ver |-> s.ver]
    BY DEF Good, Store
  <2> QED BY <2>1 DEF BoostImportance
<1> HIDE DEF new
<1>4. /\ F \in [DOMAIN s.th -> Rows]
      /\ \A x \in DOMAIN s.th : F[x] = IF x = id THEN new ELSE s.th[x]
  BY <1>1, <1>2
<1> HIDE DEF F
<1>5. \A x \in DOMAIN s.th :
        /\ F[x].cluster = s.th[x].cluster /\ F[x].content = s.th[x].content
        /\ F[x].stamp = s.th[x].stamp /\ F[x].hash = s.th[x].hash
        /\ F[x].proj = s.th[x].proj /\ F[x].status = s.th[x].status
  BY <1>2, <1>4
<1> QED BY <1>3, <1>4, <1>5, TouchGood

\* What a write of one edge from a to b leaves: at most that edge is new, and
\* one that is gone made room for it.
Joined(s, a, b) == \E e \in s.ed : {e.s, e.t} = {a, b}

LinksOnly(s, n, a, b, type) ==
  /\ \A e \in n.ed : e \in s.ed \/ (e.s = a /\ e.t = b /\ e.type = type)
  /\ \A e \in s.ed : e \in n.ed \/ (({e.s, e.t} = {a, b}) /\ Joined(n, a, b))

\* replaceEdge and insertEdge, old the row to go (if any).
LEMMA PutEdgeGood ==
  ASSUME NEW t, NEW s, Good(s), NEW a \in DOMAIN s.th, NEW b \in DOMAIN s.th,
         a # b, NEW type \in EdgeTypes, ClusterRule(s, a, b, type),
         NEW old, \A e \in old : e \in s.ed => {e.s, e.t} = {a, b},
         NEW n, n = PutEdge(s, old, a, b, type)
  PROVE  /\ Good(n) /\ Grows(s, n, t) /\ SameThoughts(s, n)
         /\ LinksOnly(s, n, a, b, type) /\ Joined(n, a, b)
<1> DEFINE cut == s.ed \ old
           new == [s |-> a, t |-> b, type |-> type, ver |-> s.ver]
           free == ~\E e \in cut : {e.s, e.t} = {a, b}
           E == IF free THEN cut \cup {new} ELSE cut
<1> PICK m : m = [s EXCEPT !.ed = E]
  OBVIOUS
<1>1. n = BoostImportance(m, a)
  BY DEF PutEdge
<1>2. E \subseteq s.ed \/ OneLink(s, E, a, b, type)
  BY DEF OneLink
<1>3. \E e \in E : {e.s, e.t} = {a, b}
  <2>1. new.s = a /\ new.t = b
    OBVIOUS
  <2> HIDE DEF new
  <2> QED BY <2>1
<1>4. /\ \A e \in E : e \in s.ed \/ (e.s = a /\ e.t = b /\ e.type = type)
      /\ \A e \in s.ed : e \in E \/ {e.s, e.t} = {a, b}
  OBVIOUS
<1> HIDE DEF E
<1>5. Good(m) /\ Grows(s, m, t) /\ SameThoughts(s, m) /\ m.ed = E /\ m.th = s.th
  BY ONLY <1>2, EdgesGood, Good(s), a \in DOMAIN s.th, b \in DOMAIN s.th, type \in EdgeTypes,
          m = [s EXCEPT !.ed = E]
<1>6. Good(n) /\ Grows(m, n, t) /\ SameThoughts(m, n) /\ n.ed = m.ed
  <2>1. a \in DOMAIN m.th
    BY <1>5
  <2> QED BY ONLY <1>1, <1>5, <2>1, BoostGood
<1>7. Grows(s, n, t)
  BY <1>5, <1>6, GrowsOn DEF Good
<1>8. SameThoughts(s, n)
  BY <1>5, <1>6 DEF SameThoughts, SameStatus
<1> QED BY <1>3, <1>4, <1>5, <1>6, <1>7, <1>8 DEF LinksOnly, Joined

\* A transaction that made one edge, found it made, or was refused.
EdgeMade(s, r, a, b, type, t) ==
  /\ r.ok \in BOOLEAN /\ Good(r.g) /\ Grows(s, r.g, t) /\ SameThoughts(s, r.g)
  /\ LinksOnly(s, r.g, a, b, type)
  /\ r.ok => Joined(r.g, a, b) /\ ClusterRule(s, a, b, type) /\ type \in EdgeTypes /\ a # b

\* An edge that is refused, or there already, changes nothing.
LEMMA SameEdges ==
  ASSUME NEW t, NEW s, Good(s), NEW a, NEW b, NEW type
  PROVE  /\ Grows(s, s, t) /\ SameThoughts(s, s) /\ LinksOnly(s, s, a, b, type)
BY GrowsSame DEF Good, SameThoughts, SameStatus, LinksOnly

\* createEdge.
LEMMA CreateEdgeGood ==
  ASSUME NEW t, NEW s, Good(s), NEW a, NEW b, NEW type, NEW r,
         r = CreateEdge(s, a, b, type) \/ r = CreateEdgeUnlessThere(s, a, b, type)
  PROVE  EdgeMade(s, r, a, b, type, t)
<1> DEFINE pair == Pair(s, a, b)
           old == CHOOSE e \in pair : TRUE
           bad == type \notin EdgeTypes \/ a = b \/ ~ClusterRule(s, a, b, type)
           c == CreateEdge(s, a, b, type)
           OnPair(cut) == \A e \in cut : e \in s.ed => {e.s, e.t} = {a, b}
<1>1. \/ c.ok = FALSE /\ c.g = s /\ (c.why = "exists" => pair # {} /\ ~bad)
      \/ c.ok = TRUE /\ c.g = s /\ pair # {} /\ ~bad /\ c.why = "ok"
      \/ /\ c.ok = TRUE /\ ~bad /\ pair = {} /\ Has(s, a) /\ Has(s, b)
         /\ c.g = PutEdge(s, {}, a, b, type) /\ c.why = "ok"
      \/ /\ c.ok = TRUE /\ ~bad /\ pair # {} /\ c.g = PutEdge(s, {old}, a, b, type)
         /\ c.why = "ok"
  BY DEF CreateEdge, Done, Refuse
<1>2. \/ r.ok = FALSE /\ r.g = s
      \/ r.ok = TRUE /\ r.g = s /\ pair # {} /\ ~bad
      \/ /\ r.ok = TRUE /\ ~bad /\ pair = {} /\ Has(s, a) /\ Has(s, b)
         /\ r.g = PutEdge(s, {}, a, b, type)
      \/ /\ r.ok = TRUE /\ ~bad /\ pair # {} /\ r.g = PutEdge(s, {old}, a, b, type)
  BY <1>1 DEF CreateEdgeUnlessThere, Done
<1>3. Joined(s, a, b) <=> pair # {}
  BY DEF Joined, Pair
<1>4. CASE r.g = s /\ (r.ok = FALSE \/ (r.ok = TRUE /\ pair # {} /\ ~bad))
  BY <1>3, <1>4, SameEdges DEF EdgeMade
<1>5. ASSUME NEW cut, OnPair(cut),
             Has(s, a), Has(s, b), ~bad, r.ok = TRUE, r.g = PutEdge(s, cut, a, b, type)
      PROVE  EdgeMade(s, r, a, b, type, t)
  <2>1. a \in DOMAIN s.th /\ b \in DOMAIN s.th /\ a # b /\ type \in EdgeTypes
        /\ ClusterRule(s, a, b, type)
    BY <1>5 DEF Has
  <2> PICK n : n = r.g
    OBVIOUS
  <2>2. n = PutEdge(s, cut, a, b, type)
    BY <1>5
  <2>3. /\ Good(n) /\ Grows(s, n, t) /\ SameThoughts(s, n)
        /\ LinksOnly(s, n, a, b, type) /\ Joined(n, a, b)
    BY ONLY <1>5, <2>1, <2>2, Good(s), PutEdgeGood
  <2>4. r.ok = TRUE /\ r.g = n
    BY <1>5
  <2> QED BY ONLY <2>1, <2>3, <2>4 DEF EdgeMade
<1>6. CASE pair # {} /\ ~bad /\ r.ok = TRUE /\ r.g = PutEdge(s, {old}, a, b, type)
  <2>1. old \in s.ed /\ {old.s, old.t} = {a, b}
    BY <1>6 DEF Pair
  <2> HIDE DEF old
  <2>2. Has(s, a) /\ Has(s, b)
    <3>1. Has(s, old.s) /\ Has(s, old.t)
      BY <2>1 DEF Good, EdgesSound
    <3>2. (a = old.s \/ a = old.t) /\ (b = old.s \/ b = old.t)
      BY <2>1
    <3> QED BY <3>1, <3>2
  <2>3. OnPair({old})
    BY <2>1
  <2> HIDE DEF pair, bad, OnPair
  <2> QED BY <1>5, <1>6, <2>2, <2>3
<1>7. CASE /\ r.ok = TRUE /\ ~bad /\ pair = {} /\ Has(s, a) /\ Has(s, b)
           /\ r.g = PutEdge(s, {}, a, b, type)
  BY <1>5, <1>7
<1> HIDE DEF old, pair, bad
<1> QED BY <1>2, <1>4, <1>6, <1>7

\* deleteThought: the row goes and its edges with it.
LEMMA DeleteGood ==
  ASSUME NEW s, Good(s), NEW id, NEW n, n = DeleteThought(s, id)
  PROVE  /\ Good(n) /\ DOMAIN n.th = DOMAIN s.th \ {id} /\ n.made = s.made
         /\ n.projs = s.projs
         /\ \A x \in DOMAIN s.th : x # id => n.th[x] = s.th[x]
<1>1. s = [th |-> s.th, ed |-> s.ed, projs |-> s.projs, made |-> s.made, ver |-> s.ver]
  BY DEF Good, Store
<1>2. n = [th |-> [x \in DOMAIN s.th \ {id} |-> s.th[x]],
           ed |-> {e \in s.ed : id \notin {e.s, e.t}},
           projs |-> s.projs, made |-> s.made, ver |-> s.ver]
  BY <1>1 DEF DeleteThought
<1>3. /\ n.th = [x \in DOMAIN s.th \ {id} |-> s.th[x]]
      /\ n.ed = {e \in s.ed : id \notin {e.s, e.t}}
      /\ n.projs = s.projs /\ n.made = s.made /\ n.ver = s.ver
      /\ n = [th |-> n.th, ed |-> n.ed, projs |-> n.projs, made |-> n.made, ver |-> n.ver]
  BY <1>2
<1>4. s.th \in [DOMAIN s.th -> Rows]
  BY DEF Good, Store
<1>5. /\ DOMAIN n.th = DOMAIN s.th \ {id} /\ n.th \in [DOMAIN n.th -> Rows]
      /\ \A x \in DOMAIN s.th : x # id => n.th[x] = s.th[x]
  BY <1>3, <1>4
<1>6. IsFiniteSet(DOMAIN n.th) /\ IsFiniteSet(n.ed)
  <2>1. n.ed \in SUBSET s.ed /\ DOMAIN n.th \in SUBSET DOMAIN s.th
    BY <1>3, <1>5
  <2>2. IsFiniteSet(s.ed) /\ IsFiniteSet(DOMAIN s.th)
    BY DEF Good, Store
  <2> QED BY <2>1, <2>2, FS_Subset
<1>7. Store(n)
  <2>1. \A e \in n.ed : e \in s.ed
    BY <1>3
  <2> QED BY <1>3, <1>5, <1>6, <2>1 DEF Good, Store
<1>8. EdgesSound(n)
  <2>1. \A x : x # id => Has(n, x) = Has(s, x) /\ IsCluster(n, x) = IsCluster(s, x)
    BY <1>5 DEF Has, IsCluster
  <2>2. \A e \in n.ed : e \in s.ed /\ e.s # id /\ e.t # id
    BY <1>3
  <2> QED BY <2>1, <2>2 DEF Good, EdgesSound, ClusterRule
<1>9. DedupeKeySound(n)
  <2>1. \A x \in Live(n) : x \in Live(s) /\ n.th[x] = s.th[x]
    BY <1>5 DEF Live
  <2>2. \A x \in DOMAIN n.th : x \in DOMAIN s.th /\ n.th[x] = s.th[x]
    BY <1>5
  <2>3. ASSUME NEW x \in Live(n), NEW y \in Live(n), x # y, n.th[x].proj = n.th[y].proj
        PROVE  n.th[x].hash # n.th[y].hash
    BY <2>1, <2>3 DEF Good, DedupeKeySound
  <2>4. ASSUME NEW x \in DOMAIN n.th, n.th[x].hash # Hash(n.th[x])
        PROVE  n.th[x].hash[1] = n.th[x].content /\ n.th[x].hash[2] \notin n.projs
    BY <1>3, <2>2, <2>4 DEF Good, DedupeKeySound
  <2> QED BY <2>3, <2>4 DEF DedupeKeySound
<1>10. Unused(n) = Unused(s)
  BY <1>3 DEF Unused
<1> QED BY <1>3, <1>5, <1>7, <1>8, <1>9, <1>10 DEF Good

\* deleteProject.
\* No thought of s came, went, or changed in what previews and retypes rely on.
KeptThoughts(s, n) ==
  /\ DOMAIN n.th = DOMAIN s.th /\ n.made = s.made
  /\ \A x \in DOMAIN s.th : /\ n.th[x].cluster = s.th[x].cluster
                            /\ n.th[x].content = s.th[x].content
                            /\ n.th[x].stamp = s.th[x].stamp

\* updateThoughtsProject and the deletion of the project, or neither when the dedupe
\* index refuses the UPDATE.
LEMMA EmptyGood ==
  ASSUME NEW s, Good(s), NEW proj, NEW n, n = EmptyProject(s, proj)
  PROVE  Good(n) /\ KeptThoughts(s, n)
<1> DEFINE clash == \E x, y \in Live(s) : /\ s.th[x].proj = proj /\ s.th[y].proj = DefaultProject
                                          /\ s.th[x].hash = s.th[y].hash
           F == [x \in DOMAIN s.th |-> IF s.th[x].proj = proj
                                       THEN [s.th[x] EXCEPT !.proj = DefaultProject]
                                       ELSE s.th[x]]
<1>1. CASE clash
  <2>1. n = s
    BY <1>1 DEF EmptyProject
  <2> QED BY <2>1 DEF Good, KeptThoughts
<1>2. CASE ~clash
  <2>1. s = [th |-> s.th, ed |-> s.ed, projs |-> s.projs, made |-> s.made, ver |-> s.ver]
        /\ s.th \in [DOMAIN s.th -> Rows] /\ DefaultProject \in STRING
    BY CurationAssumption DEF Good, Store
  <2>2. n = [th |-> F, ed |-> s.ed, projs |-> s.projs \ {proj}, made |-> s.made, ver |-> s.ver]
    BY <1>2, <2>1 DEF EmptyProject
  <2>3. \A x \in DOMAIN s.th :
          /\ F[x] \in Rows
          /\ F[x].cluster = s.th[x].cluster /\ F[x].content = s.th[x].content
          /\ F[x].stamp = s.th[x].stamp /\ F[x].hash = s.th[x].hash
          /\ F[x].status = s.th[x].status
          /\ F[x].proj = IF s.th[x].proj = proj THEN DefaultProject ELSE s.th[x].proj
    <3> SUFFICES ASSUME NEW x \in DOMAIN s.th, NEW row \in Rows, row = s.th[x]
                 PROVE  LET new == IF row.proj = proj THEN [row EXCEPT !.proj = DefaultProject]
                                   ELSE row
                        IN  /\ new \in Rows
                            /\ new.cluster = row.cluster /\ new.content = row.content
                            /\ new.stamp = row.stamp /\ new.hash = row.hash
                            /\ new.status = row.status
                            /\ new.proj = IF row.proj = proj THEN DefaultProject ELSE row.proj
      BY <2>1
    <3> QED BY <2>1 DEF Rows
  <2>4. DOMAIN F = DOMAIN s.th
    OBVIOUS
  <2> HIDE DEF F
  <2>5. /\ n.th = F /\ n.ed = s.ed /\ n.projs = s.projs \ {proj} /\ n.made = s.made
        /\ n.ver = s.ver
        /\ n = [th |-> n.th, ed |-> n.ed, projs |-> n.projs, made |-> n.made, ver |-> n.ver]
    BY <2>2
  <2>6. Store(n)
    <3>1. \A x \in DOMAIN n.th : n.th[x] \in Rows
      BY <2>3, <2>4, <2>5
    <3>2. n.th = [x \in DOMAIN n.th |-> n.th[x]]
      BY <2>2, <2>5 DEF F
    <3>3. n.th \in [DOMAIN n.th -> Rows]
      BY <3>1, <3>2
    <3> QED BY <2>4, <2>5, <3>3 DEF Good, Store
  <2>7. EdgesSound(n)
    <3>1. \A x : Has(n, x) = Has(s, x) /\ IsCluster(n, x) = IsCluster(s, x)
      BY <2>3, <2>4, <2>5 DEF Has, IsCluster
    <3> QED BY <2>5, <3>1 DEF Good, EdgesSound, ClusterRule
  <2>8. DedupeKeySound(n)
    <3>1. \A x \in Live(n) : x \in Live(s) /\ x \in DOMAIN s.th
      BY <2>3, <2>4, <2>5 DEF Live
    <3>2. ASSUME NEW x \in Live(n), NEW y \in Live(n), x # y, n.th[x].proj = n.th[y].proj,
                 n.th[x].hash = n.th[y].hash
          PROVE  FALSE
      <4>1. x \in Live(s) /\ y \in Live(s) /\ s.th[x].hash = s.th[y].hash
        BY <2>3, <2>5, <3>1, <3>2
      <4>2. s.th[x].proj # s.th[y].proj
        BY <3>2, <4>1 DEF Good, DedupeKeySound
      <4>3. \/ s.th[x].proj = proj /\ s.th[y].proj = DefaultProject
            \/ s.th[y].proj = proj /\ s.th[x].proj = DefaultProject
        BY <2>3, <2>5, <3>1, <3>2, <4>2
      <4> QED BY <1>2, <4>1, <4>3
    <3>3. ASSUME NEW x \in DOMAIN s.th, n.th[x].hash # Hash(n.th[x])
          PROVE  n.th[x].hash[1] = n.th[x].content /\ n.th[x].hash[2] \notin n.projs
      <4>1. n.th[x].hash = s.th[x].hash /\ n.th[x].content = s.th[x].content
        BY <2>3, <2>5
      <4>2. CASE s.th[x].hash = Hash(s.th[x])
        <5>1. n.th[x].proj # s.th[x].proj
          BY <3>3, <4>1, <4>2 DEF Hash
        <5>2. s.th[x].proj = proj
          BY <2>3, <2>5, <5>1
        <5> QED BY <2>5, <4>1, <4>2, <5>2 DEF Hash
      <4>3. CASE s.th[x].hash # Hash(s.th[x])
        BY <2>5, <4>1, <4>3 DEF Good, DedupeKeySound
      <4> QED BY <4>2, <4>3
    <3> QED BY <2>4, <2>5, <3>2, <3>3 DEF DedupeKeySound
  <2>9. Unused(n) = Unused(s)
    BY <2>5 DEF Unused
  <2>10. Good(n)
    BY <2>4, <2>5, <2>6, <2>7, <2>8, <2>9 DEF Good
  <2> QED BY <2>3, <2>4, <2>5, <2>10 DEF KeptThoughts
<1> QED BY <1>1, <1>2

(***************************************************************************)
(* Folds. FoldSet and FoldLeft are a function on the subsets of a finite   *)
(* set, each value made of the one without a chosen element: that there is *)
(* such a function is shown level by level of cardinality.                 *)
(***************************************************************************)
\* archiveThoughts as a fold.
ArchiveUnprotectedSteps(f, S, t) ==
  \A T \in SUBSET (S) : T # {} =>
    \E x \in T : LET acc == f[T \ {x}]
                 IN  f[T] = (IF Has(acc, x) /\ ~acc.th[x].prot
                                          THEN ArchiveThought(acc, x, t).g ELSE acc)

\* The fold of archiveUnprotected, as a function on the subsets of S.
LEMMA ArchiveUnprotectedFold ==
  ASSUME NEW s, NEW S, IsFiniteSet(S), NEW t
  PROVE  \E f : ArchiveUnprotected(s, S, t) = f[S] /\ f[{}] = s /\ ArchiveUnprotectedSteps(f, S, t)
<1> DEFINE Op(x, acc) == (IF Has(acc, x) /\ ~acc.th[x].prot
                                          THEN ArchiveThought(acc, x, t).g ELSE acc)
           Ch(T) == CHOOSE x \in T : TRUE
           S0 == S
           Body(f, T) == IF T = {} THEN s ELSE Op(Ch(T), f[T \ {Ch(T)}])
           Is(f, D) == f = [T \in D |-> Body(f, T)]
           N == {n \in Nat : \E f : Is(f, UpTo(S0, n))}
           it == CHOOSE f : Is(f, SUBSET S0)
<1>1. ArchiveUnprotected(s, S, t) = it[S0]
  BY DEF ArchiveUnprotected, FoldSet, MapThenFoldSet
<1>2. IsFiniteSet(S0) /\ \A T \in SUBSET S0 : T # {} => Ch(T) \in T
  OBVIOUS
<1> HIDE DEF Op, Ch, S0
<1>3. 0 \in N
  <2>1. Is([T \in UpTo(S0, 0) |-> s], UpTo(S0, 0))
    BY <1>2, UpToIs
  <2> QED BY <2>1
<1>4. ASSUME NEW n \in Nat, n \in N PROVE n + 1 \in N
  <2>1. PICK f : Is(f, UpTo(S0, n))
    BY <1>4
  <2> DEFINE h == [T \in UpTo(S0, n + 1) |-> Body(f, T)]
  <2>2. \A T \in UpTo(S0, n) : h[T] = f[T]
    BY <1>2, <2>1, UpToIs
  <2>3. \A T \in UpTo(S0, n + 1) : T # {} => T \ {Ch(T)} \in UpTo(S0, n)
    <3>1. \A T \in UpTo(S0, n + 1) : T \in SUBSET S0
      BY DEF UpTo
    <3> QED BY <1>2, <3>1, UpToIs
  <2>4. \A T \in UpTo(S0, n + 1) : Body(h, T) = Body(f, T)
    <3> HIDE DEF h
    <3> QED BY <2>2, <2>3
  <2>5. Is(h, UpTo(S0, n + 1))
    BY <2>4
  <2> HIDE DEF h, Is
  <2> QED BY <2>5
<1> HIDE DEF N
<1>5. Cardinality(S0) \in N /\ UpTo(S0, Cardinality(S0)) = SUBSET S0
  BY <1>2, <1>3, <1>4, Levels, UpToIs
<1>6. Is(it, SUBSET S0)
  <2>1. \E f : Is(f, SUBSET S0)
    BY <1>5 DEF N
  <2> HIDE DEF Is
  <2> QED BY <2>1
<1>7. it[{}] = s
  BY <1>6
<1>8. ASSUME NEW T \in SUBSET S0, T # {} PROVE it[T] = Op(Ch(T), it[T \ {Ch(T)}])
  BY <1>6, <1>8
<1> HIDE DEF it
<1>9. \A T \in SUBSET S0 : T # {} => \E x \in T : it[T] = Op(x, it[T \ {x}])
  BY <1>2, <1>8
<1>10. ArchiveUnprotectedSteps(it, S, t)
  BY <1>9 DEF ArchiveUnprotectedSteps, Op, S0
<1> QED BY <1>1, <1>7, <1>10 DEF S0

\* archiveThoughtsBatchService as a fold.
ArchiveBatchSteps(f, ids, t) ==
  \A T \in SUBSET (DOMAIN ids) : T # {} =>
    \E x \in T : LET acc == f[T \ {x}]
                 IN  f[T] = (IF Has(acc, ids[x]) /\ acc.th[ids[x]].status # "archived"
                                          THEN ArchiveThought(acc, ids[x], t).g ELSE acc)

\* The loop of the archive batch, as a function on the subsets of the list's indices.
LEMMA ArchiveBatchFold ==
  ASSUME NEW s, NEW A, NEW ids \in Seq(A), NEW t
  PROVE  \E f : ArchiveBatch(s, ids, t) = f[DOMAIN ids] /\ f[{}] = s /\ ArchiveBatchSteps(f, ids, t)
<1> DEFINE Op(x, acc) == (IF Has(acc, ids[x]) /\ acc.th[ids[x]].status # "archived"
                                          THEN ArchiveThought(acc, ids[x], t).g ELSE acc)
           Ch(T) == Max(T)
           S0 == DOMAIN ids
           Body(f, T) == IF T = {} THEN s ELSE Op(Ch(T), f[T \ {Ch(T)}])
           Is(f, D) == f = [T \in D |-> Body(f, T)]
           N == {n \in Nat : \E f : Is(f, UpTo(S0, n))}
           it == CHOOSE f : Is(f, SUBSET S0)
<1>1. ArchiveBatch(s, ids, t) = it[S0]
  BY DEF ArchiveBatch, FoldLeft, MapThenFoldSet, Max
<1>2. IsFiniteSet(S0) /\ \A T \in SUBSET S0 : T # {} => Ch(T) \in T
  <2>1. S0 = 1..Len(ids) /\ Len(ids) \in Nat
    OBVIOUS
  <2>2. IsFiniteSet(S0)
    BY <2>1, FS_Interval
  <2>3. S0 \subseteq Nat
    BY <2>1
  <2> HIDE DEF S0
  <2>4. ASSUME NEW T \in SUBSET S0, T # {} PROVE Ch(T) \in T
    <3>1. \E x \in T : \A y \in T : x >= y
      BY <2>2, <2>3, <2>4, GreatestOf
    <3> QED BY <3>1 DEF Max
  <2> QED BY <2>2, <2>4
<1> HIDE DEF Op, Ch, S0
<1>3. 0 \in N
  <2>1. Is([T \in UpTo(S0, 0) |-> s], UpTo(S0, 0))
    BY <1>2, UpToIs
  <2> QED BY <2>1
<1>4. ASSUME NEW n \in Nat, n \in N PROVE n + 1 \in N
  <2>1. PICK f : Is(f, UpTo(S0, n))
    BY <1>4
  <2> DEFINE h == [T \in UpTo(S0, n + 1) |-> Body(f, T)]
  <2>2. \A T \in UpTo(S0, n) : h[T] = f[T]
    BY <1>2, <2>1, UpToIs
  <2>3. \A T \in UpTo(S0, n + 1) : T # {} => T \ {Ch(T)} \in UpTo(S0, n)
    <3>1. \A T \in UpTo(S0, n + 1) : T \in SUBSET S0
      BY DEF UpTo
    <3> QED BY <1>2, <3>1, UpToIs
  <2>4. \A T \in UpTo(S0, n + 1) : Body(h, T) = Body(f, T)
    <3> HIDE DEF h
    <3> QED BY <2>2, <2>3
  <2>5. Is(h, UpTo(S0, n + 1))
    BY <2>4
  <2> HIDE DEF h, Is
  <2> QED BY <2>5
<1> HIDE DEF N
<1>5. Cardinality(S0) \in N /\ UpTo(S0, Cardinality(S0)) = SUBSET S0
  BY <1>2, <1>3, <1>4, Levels, UpToIs
<1>6. Is(it, SUBSET S0)
  <2>1. \E f : Is(f, SUBSET S0)
    BY <1>5 DEF N
  <2> HIDE DEF Is
  <2> QED BY <2>1
<1>7. it[{}] = s
  BY <1>6
<1>8. ASSUME NEW T \in SUBSET S0, T # {} PROVE it[T] = Op(Ch(T), it[T \ {Ch(T)}])
  BY <1>6, <1>8
<1> HIDE DEF it
<1>9. \A T \in SUBSET S0 : T # {} => \E x \in T : it[T] = Op(x, it[T \ {x}])
  BY <1>2, <1>8
<1>10. ArchiveBatchSteps(it, ids, t)
  BY <1>9 DEF ArchiveBatchSteps, Op, S0
<1> QED BY <1>1, <1>7, <1>10 DEF S0

\* createEdgesBatchService as a fold.
LinkBatchSteps(f, links) ==
  \A T \in SUBSET (DOMAIN links) : T # {} =>
    \E x \in T : LET acc == f[T \ {x}]
                 IN  f[T] = CreateEdge(acc, links[x].s, links[x].t, links[x].type).g

\* The loop of the link batch.
LEMMA LinkBatchFold ==
  ASSUME NEW s, NEW A, NEW links \in Seq(A)
  PROVE  \E f : LinkBatch(s, links) = f[DOMAIN links] /\ f[{}] = s /\ LinkBatchSteps(f, links)
<1> DEFINE Op(x, acc) == CreateEdge(acc, links[x].s, links[x].t, links[x].type).g
           Ch(T) == Max(T)
           S0 == DOMAIN links
           Body(f, T) == IF T = {} THEN s ELSE Op(Ch(T), f[T \ {Ch(T)}])
           Is(f, D) == f = [T \in D |-> Body(f, T)]
           N == {n \in Nat : \E f : Is(f, UpTo(S0, n))}
           it == CHOOSE f : Is(f, SUBSET S0)
<1>1. LinkBatch(s, links) = it[S0]
  BY DEF LinkBatch, FoldLeft, MapThenFoldSet, Max
<1>2. IsFiniteSet(S0) /\ \A T \in SUBSET S0 : T # {} => Ch(T) \in T
  <2>1. S0 = 1..Len(links) /\ Len(links) \in Nat
    OBVIOUS
  <2>2. IsFiniteSet(S0)
    BY <2>1, FS_Interval
  <2>3. S0 \subseteq Nat
    BY <2>1
  <2> HIDE DEF S0
  <2>4. ASSUME NEW T \in SUBSET S0, T # {} PROVE Ch(T) \in T
    <3>1. \E x \in T : \A y \in T : x >= y
      BY <2>2, <2>3, <2>4, GreatestOf
    <3> QED BY <3>1 DEF Max
  <2> QED BY <2>2, <2>4
<1> HIDE DEF Op, Ch, S0
<1>3. 0 \in N
  <2>1. Is([T \in UpTo(S0, 0) |-> s], UpTo(S0, 0))
    BY <1>2, UpToIs
  <2> QED BY <2>1
<1>4. ASSUME NEW n \in Nat, n \in N PROVE n + 1 \in N
  <2>1. PICK f : Is(f, UpTo(S0, n))
    BY <1>4
  <2> DEFINE h == [T \in UpTo(S0, n + 1) |-> Body(f, T)]
  <2>2. \A T \in UpTo(S0, n) : h[T] = f[T]
    BY <1>2, <2>1, UpToIs
  <2>3. \A T \in UpTo(S0, n + 1) : T # {} => T \ {Ch(T)} \in UpTo(S0, n)
    <3>1. \A T \in UpTo(S0, n + 1) : T \in SUBSET S0
      BY DEF UpTo
    <3> QED BY <1>2, <3>1, UpToIs
  <2>4. \A T \in UpTo(S0, n + 1) : Body(h, T) = Body(f, T)
    <3> HIDE DEF h
    <3> QED BY <2>2, <2>3
  <2>5. Is(h, UpTo(S0, n + 1))
    BY <2>4
  <2> HIDE DEF h, Is
  <2> QED BY <2>5
<1> HIDE DEF N
<1>5. Cardinality(S0) \in N /\ UpTo(S0, Cardinality(S0)) = SUBSET S0
  BY <1>2, <1>3, <1>4, Levels, UpToIs
<1>6. Is(it, SUBSET S0)
  <2>1. \E f : Is(f, SUBSET S0)
    BY <1>5 DEF N
  <2> HIDE DEF Is
  <2> QED BY <2>1
<1>7. it[{}] = s
  BY <1>6
<1>8. ASSUME NEW T \in SUBSET S0, T # {} PROVE it[T] = Op(Ch(T), it[T \ {Ch(T)}])
  BY <1>6, <1>8
<1> HIDE DEF it
<1>9. \A T \in SUBSET S0 : T # {} => \E x \in T : it[T] = Op(x, it[T \ {x}])
  BY <1>2, <1>8
<1>10. LinkBatchSteps(it, links)
  BY <1>9 DEF LinkBatchSteps, Op, S0
<1> QED BY <1>1, <1>7, <1>10 DEF S0

\* bulkCreateThoughtsService as a fold.
BulkCreateSteps(f, items, t) ==
  \A T \in SUBSET (DOMAIN items) : T # {} =>
    \E x \in T : LET acc == f[T \ {x}]
                 IN  f[T] = CreateOne(acc, items[x], t)

\* The loop of the bulk creation.
LEMMA BulkCreateFold ==
  ASSUME NEW s, NEW A, NEW items \in Seq(A), NEW t
  PROVE  \E f : BulkCreate(s, items, t) = f[DOMAIN items] /\ f[{}] = s
                /\ BulkCreateSteps(f, items, t)
<1> DEFINE Op(x, acc) == CreateOne(acc, items[x], t)
           Ch(T) == Max(T)
           S0 == DOMAIN items
           Body(f, T) == IF T = {} THEN s ELSE Op(Ch(T), f[T \ {Ch(T)}])
           Is(f, D) == f = [T \in D |-> Body(f, T)]
           N == {n \in Nat : \E f : Is(f, UpTo(S0, n))}
           it == CHOOSE f : Is(f, SUBSET S0)
<1>1. BulkCreate(s, items, t) = it[S0]
  BY DEF BulkCreate, FoldLeft, MapThenFoldSet, Max
<1>2. IsFiniteSet(S0) /\ \A T \in SUBSET S0 : T # {} => Ch(T) \in T
  <2>1. S0 = 1..Len(items) /\ Len(items) \in Nat
    OBVIOUS
  <2>2. IsFiniteSet(S0)
    BY <2>1, FS_Interval
  <2>3. S0 \subseteq Nat
    BY <2>1
  <2> HIDE DEF S0
  <2>4. ASSUME NEW T \in SUBSET S0, T # {} PROVE Ch(T) \in T
    <3>1. \E x \in T : \A y \in T : x >= y
      BY <2>2, <2>3, <2>4, GreatestOf
    <3> QED BY <3>1 DEF Max
  <2> QED BY <2>2, <2>4
<1> HIDE DEF Op, Ch, S0
<1>3. 0 \in N
  <2>1. Is([T \in UpTo(S0, 0) |-> s], UpTo(S0, 0))
    BY <1>2, UpToIs
  <2> QED BY <2>1
<1>4. ASSUME NEW n \in Nat, n \in N PROVE n + 1 \in N
  <2>1. PICK f : Is(f, UpTo(S0, n))
    BY <1>4
  <2> DEFINE h == [T \in UpTo(S0, n + 1) |-> Body(f, T)]
  <2>2. \A T \in UpTo(S0, n) : h[T] = f[T]
    BY <1>2, <2>1, UpToIs
  <2>3. \A T \in UpTo(S0, n + 1) : T # {} => T \ {Ch(T)} \in UpTo(S0, n)
    <3>1. \A T \in UpTo(S0, n + 1) : T \in SUBSET S0
      BY DEF UpTo
    <3> QED BY <1>2, <3>1, UpToIs
  <2>4. \A T \in UpTo(S0, n + 1) : Body(h, T) = Body(f, T)
    <3> HIDE DEF h
    <3> QED BY <2>2, <2>3
  <2>5. Is(h, UpTo(S0, n + 1))
    BY <2>4
  <2> HIDE DEF h, Is
  <2> QED BY <2>5
<1> HIDE DEF N
<1>5. Cardinality(S0) \in N /\ UpTo(S0, Cardinality(S0)) = SUBSET S0
  BY <1>2, <1>3, <1>4, Levels, UpToIs
<1>6. Is(it, SUBSET S0)
  <2>1. \E f : Is(f, SUBSET S0)
    BY <1>5 DEF N
  <2> HIDE DEF Is
  <2> QED BY <2>1
<1>7. it[{}] = s
  BY <1>6
<1>8. ASSUME NEW T \in SUBSET S0, T # {} PROVE it[T] = Op(Ch(T), it[T \ {Ch(T)}])
  BY <1>6, <1>8
<1> HIDE DEF it
<1>9. \A T \in SUBSET S0 : T # {} => \E x \in T : it[T] = Op(x, it[T \ {x}])
  BY <1>2, <1>8
<1>10. BulkCreateSteps(it, items, t)
  BY <1>9 DEF BulkCreateSteps, Op, S0
<1> QED BY <1>1, <1>7, <1>10 DEF S0

\* The members joined to the cluster id, beginning with the outcome b.
AllJoined(S, id, b) ==
  FoldSet(LAMBDA m, r : IF r.ok THEN CreateEdgeUnlessThere(r.g, id, m, "cluster") ELSE r, b, S)

\* The joining as a fold.
AllJoinedSteps(f, S, id) ==
  \A T \in SUBSET (S) : T # {} =>
    \E x \in T : LET acc == f[T \ {x}]
                 IN  f[T] = (IF acc.ok THEN CreateEdgeUnlessThere(acc.g, id, x, "cluster")
                                          ELSE acc)

\* The loop that joins a new cluster to its members.
LEMMA AllJoinedFold ==
  ASSUME NEW S, IsFiniteSet(S), NEW id, NEW b
  PROVE  \E f : AllJoined(S, id, b) = f[S] /\ f[{}] = b /\ AllJoinedSteps(f, S, id)
<1> DEFINE Op(x, acc) == (IF acc.ok THEN CreateEdgeUnlessThere(acc.g, id, x, "cluster")
                                          ELSE acc)
           Ch(T) == CHOOSE x \in T : TRUE
           S0 == S
           Body(f, T) == IF T = {} THEN b ELSE Op(Ch(T), f[T \ {Ch(T)}])
           Is(f, D) == f = [T \in D |-> Body(f, T)]
           N == {n \in Nat : \E f : Is(f, UpTo(S0, n))}
           it == CHOOSE f : Is(f, SUBSET S0)
<1>1. AllJoined(S, id, b) = it[S0]
  BY DEF AllJoined, FoldSet, MapThenFoldSet
<1>2. IsFiniteSet(S0) /\ \A T \in SUBSET S0 : T # {} => Ch(T) \in T
  OBVIOUS
<1> HIDE DEF Op, Ch, S0
<1>3. 0 \in N
  <2>1. Is([T \in UpTo(S0, 0) |-> b], UpTo(S0, 0))
    BY <1>2, UpToIs
  <2> QED BY <2>1
<1>4. ASSUME NEW n \in Nat, n \in N PROVE n + 1 \in N
  <2>1. PICK f : Is(f, UpTo(S0, n))
    BY <1>4
  <2> DEFINE h == [T \in UpTo(S0, n + 1) |-> Body(f, T)]
  <2>2. \A T \in UpTo(S0, n) : h[T] = f[T]
    BY <1>2, <2>1, UpToIs
  <2>3. \A T \in UpTo(S0, n + 1) : T # {} => T \ {Ch(T)} \in UpTo(S0, n)
    <3>1. \A T \in UpTo(S0, n + 1) : T \in SUBSET S0
      BY DEF UpTo
    <3> QED BY <1>2, <3>1, UpToIs
  <2>4. \A T \in UpTo(S0, n + 1) : Body(h, T) = Body(f, T)
    <3> HIDE DEF h
    <3> QED BY <2>2, <2>3
  <2>5. Is(h, UpTo(S0, n + 1))
    BY <2>4
  <2> HIDE DEF h, Is
  <2> QED BY <2>5
<1> HIDE DEF N
<1>5. Cardinality(S0) \in N /\ UpTo(S0, Cardinality(S0)) = SUBSET S0
  BY <1>2, <1>3, <1>4, Levels, UpToIs
<1>6. Is(it, SUBSET S0)
  <2>1. \E f : Is(f, SUBSET S0)
    BY <1>5 DEF N
  <2> HIDE DEF Is
  <2> QED BY <2>1
<1>7. it[{}] = b
  BY <1>6
<1>8. ASSUME NEW T \in SUBSET S0, T # {} PROVE it[T] = Op(Ch(T), it[T \ {Ch(T)}])
  BY <1>6, <1>8
<1> HIDE DEF it
<1>9. \A T \in SUBSET S0 : T # {} => \E x \in T : it[T] = Op(x, it[T \ {x}])
  BY <1>2, <1>8
<1>10. AllJoinedSteps(it, S, id)
  BY <1>9 DEF AllJoinedSteps, Op, S0
<1> QED BY <1>1, <1>7, <1>10 DEF S0

\* The edges transferred, beginning with the outcome b.
AllMoved(S, m, b) == FoldSet(LAMBDA e, r : TransferEdge(e, m, r), b, S)

\* The transfer as a fold.
AllMovedSteps(f, S, m) ==
  \A T \in SUBSET (S) : T # {} =>
    \E x \in T : LET acc == f[T \ {x}]
                 IN  f[T] = TransferEdge(x, m, acc)

\* The loop that transfers a merged thought's edges.
LEMMA AllMovedFold ==
  ASSUME NEW S, IsFiniteSet(S), NEW m, NEW b
  PROVE  \E f : AllMoved(S, m, b) = f[S] /\ f[{}] = b /\ AllMovedSteps(f, S, m)
<1> DEFINE Op(x, acc) == TransferEdge(x, m, acc)
           Ch(T) == CHOOSE x \in T : TRUE
           S0 == S
           Body(f, T) == IF T = {} THEN b ELSE Op(Ch(T), f[T \ {Ch(T)}])
           Is(f, D) == f = [T \in D |-> Body(f, T)]
           N == {n \in Nat : \E f : Is(f, UpTo(S0, n))}
           it == CHOOSE f : Is(f, SUBSET S0)
<1>1. AllMoved(S, m, b) = it[S0]
  BY DEF AllMoved, FoldSet, MapThenFoldSet
<1>2. IsFiniteSet(S0) /\ \A T \in SUBSET S0 : T # {} => Ch(T) \in T
  OBVIOUS
<1> HIDE DEF Op, Ch, S0
<1>3. 0 \in N
  <2>1. Is([T \in UpTo(S0, 0) |-> b], UpTo(S0, 0))
    BY <1>2, UpToIs
  <2> QED BY <2>1
<1>4. ASSUME NEW n \in Nat, n \in N PROVE n + 1 \in N
  <2>1. PICK f : Is(f, UpTo(S0, n))
    BY <1>4
  <2> DEFINE h == [T \in UpTo(S0, n + 1) |-> Body(f, T)]
  <2>2. \A T \in UpTo(S0, n) : h[T] = f[T]
    BY <1>2, <2>1, UpToIs
  <2>3. \A T \in UpTo(S0, n + 1) : T # {} => T \ {Ch(T)} \in UpTo(S0, n)
    <3>1. \A T \in UpTo(S0, n + 1) : T \in SUBSET S0
      BY DEF UpTo
    <3> QED BY <1>2, <3>1, UpToIs
  <2>4. \A T \in UpTo(S0, n + 1) : Body(h, T) = Body(f, T)
    <3> HIDE DEF h
    <3> QED BY <2>2, <2>3
  <2>5. Is(h, UpTo(S0, n + 1))
    BY <2>4
  <2> HIDE DEF h, Is
  <2> QED BY <2>5
<1> HIDE DEF N
<1>5. Cardinality(S0) \in N /\ UpTo(S0, Cardinality(S0)) = SUBSET S0
  BY <1>2, <1>3, <1>4, Levels, UpToIs
<1>6. Is(it, SUBSET S0)
  <2>1. \E f : Is(f, SUBSET S0)
    BY <1>5 DEF N
  <2> HIDE DEF Is
  <2> QED BY <2>1
<1>7. it[{}] = b
  BY <1>6
<1>8. ASSUME NEW T \in SUBSET S0, T # {} PROVE it[T] = Op(Ch(T), it[T \ {Ch(T)}])
  BY <1>6, <1>8
<1> HIDE DEF it
<1>9. \A T \in SUBSET S0 : T # {} => \E x \in T : it[T] = Op(x, it[T \ {x}])
  BY <1>2, <1>8
<1>10. AllMovedSteps(it, S, m)
  BY <1>9 DEF AllMovedSteps, Op, S0
<1> QED BY <1>1, <1>7, <1>10 DEF S0

\* A source merged into the summary id, if nothing was refused before.
OneMerged(x, id, summary, t, r) ==
  IF ~r.ok THEN r
  ELSE MergeThoughts(r.g, [src |-> x, tgt |-> id, content |-> summary,
                           archivedOk |-> TRUE], r.g.th[id].proj, t)

AllMerged(S, id, summary, t, b) == FoldSet(LAMBDA x, r : OneMerged(x, id, summary, t, r), b, S)

\* Compaction as a fold.
AllMergedSteps(f, S, id, summary, t) ==
  \A T \in SUBSET (S) : T # {} =>
    \E x \in T : LET acc == f[T \ {x}]
                 IN  f[T] = OneMerged(x, id, summary, t, acc)

\* The loop that merges a compaction's sources into the summary.
LEMMA AllMergedFold ==
  ASSUME NEW S, IsFiniteSet(S), NEW id, NEW summary, NEW t, NEW b
  PROVE  \E f : AllMerged(S, id, summary, t, b) = f[S] /\ f[{}] = b
                /\ AllMergedSteps(f, S, id, summary, t)
<1> DEFINE Op(x, acc) == OneMerged(x, id, summary, t, acc)
           Ch(T) == CHOOSE x \in T : TRUE
           S0 == S
           Body(f, T) == IF T = {} THEN b ELSE Op(Ch(T), f[T \ {Ch(T)}])
           Is(f, D) == f = [T \in D |-> Body(f, T)]
           N == {n \in Nat : \E f : Is(f, UpTo(S0, n))}
           it == CHOOSE f : Is(f, SUBSET S0)
<1>1. AllMerged(S, id, summary, t, b) = it[S0]
  BY DEF AllMerged, FoldSet, MapThenFoldSet
<1>2. IsFiniteSet(S0) /\ \A T \in SUBSET S0 : T # {} => Ch(T) \in T
  OBVIOUS
<1> HIDE DEF Op, Ch, S0
<1>3. 0 \in N
  <2>1. Is([T \in UpTo(S0, 0) |-> b], UpTo(S0, 0))
    BY <1>2, UpToIs
  <2> QED BY <2>1
<1>4. ASSUME NEW n \in Nat, n \in N PROVE n + 1 \in N
  <2>1. PICK f : Is(f, UpTo(S0, n))
    BY <1>4
  <2> DEFINE h == [T \in UpTo(S0, n + 1) |-> Body(f, T)]
  <2>2. \A T \in UpTo(S0, n) : h[T] = f[T]
    BY <1>2, <2>1, UpToIs
  <2>3. \A T \in UpTo(S0, n + 1) : T # {} => T \ {Ch(T)} \in UpTo(S0, n)
    <3>1. \A T \in UpTo(S0, n + 1) : T \in SUBSET S0
      BY DEF UpTo
    <3> QED BY <1>2, <3>1, UpToIs
  <2>4. \A T \in UpTo(S0, n + 1) : Body(h, T) = Body(f, T)
    <3> HIDE DEF h
    <3> QED BY <2>2, <2>3
  <2>5. Is(h, UpTo(S0, n + 1))
    BY <2>4
  <2> HIDE DEF h, Is
  <2> QED BY <2>5
<1> HIDE DEF N
<1>5. Cardinality(S0) \in N /\ UpTo(S0, Cardinality(S0)) = SUBSET S0
  BY <1>2, <1>3, <1>4, Levels, UpToIs
<1>6. Is(it, SUBSET S0)
  <2>1. \E f : Is(f, SUBSET S0)
    BY <1>5 DEF N
  <2> HIDE DEF Is
  <2> QED BY <2>1
<1>7. it[{}] = b
  BY <1>6
<1>8. ASSUME NEW T \in SUBSET S0, T # {} PROVE it[T] = Op(Ch(T), it[T \ {Ch(T)}])
  BY <1>6, <1>8
<1> HIDE DEF it
<1>9. \A T \in SUBSET S0 : T # {} => \E x \in T : it[T] = Op(x, it[T \ {x}])
  BY <1>2, <1>8
<1>10. AllMergedSteps(it, S, id, summary, t)
  BY <1>9 DEF AllMergedSteps, Op, S0
<1> QED BY <1>1, <1>7, <1>10 DEF S0

\* A fold of transactions at time t, each of which leaves a good store good.
Keeps(f, S, t) ==
  \A T \in SUBSET S : T # {} =>
    \E x \in T : Good(f[T \ {x}]) => Good(f[T]) /\ Grows(f[T \ {x}], f[T], t)

\* A loop each step of which keeps stores in order and only grows them does so.
LEMMA FoldGood ==
  ASSUME NEW t, NEW s, Good(s), NEW S, IsFiniteSet(S), NEW f, f[{}] = s,
         Keeps(f, S, t)
  PROVE  Good(f[S]) /\ Grows(s, f[S], t)
<1> DEFINE D == {T \in SUBSET S : Good(f[T]) /\ Grows(s, f[T], t)}
<1>1. {} \in D
  BY GrowsSame DEF Good
<1>2. ASSUME NEW T \in SUBSET S, T # {}
      PROVE  \E x \in T : T \ {x} \in D => T \in D
  <2>1. PICK x \in T : Good(f[T \ {x}]) => Good(f[T]) /\ Grows(f[T \ {x}], f[T], t)
    BY <1>2 DEF Keeps
  <2>2. ASSUME T \ {x} \in D PROVE T \in D
    <3>1. PICK a, b : a = f[T \ {x}] /\ b = f[T]
      OBVIOUS
    <3>2. Good(a) /\ Grows(s, a, t) /\ Good(b) /\ Grows(a, b, t)
      BY <2>1, <2>2, <3>1
    <3>3. Grows(s, b, t)
      BY <3>2, GrowsOn DEF Good
    <3> QED BY <3>1, <3>2, <3>3
  <2> QED BY <2>2
<1>3. Climbs(S, D)
  BY <1>1, <1>2 DEF Climbs
<1> HIDE DEF D
<1>4. S \in D
  BY <1>3, SubsetInduction
<1> QED BY <1>4 DEF D

\* Archiving what a health check found.
LEMMA ArchiveUnprotectedGood ==
  ASSUME NEW t \in Times, NEW s, Good(s), NEW S, IsFiniteSet(S)
  PROVE  Good(ArchiveUnprotected(s, S, t)) /\ Grows(s, ArchiveUnprotected(s, S, t), t)
<1> DEFINE S0 == S
<1>1. PICK f : ArchiveUnprotected(s, S, t) = f[S0] /\ f[{}] = s /\ ArchiveUnprotectedSteps(f, S, t)
  BY ArchiveUnprotectedFold
<1>2. IsFiniteSet(S0)
  OBVIOUS
<1>3. ASSUME NEW T \in SUBSET S0, T # {}
      PROVE  \E x \in T : Good(f[T \ {x}]) => Good(f[T]) /\ Grows(f[T \ {x}], f[T], t)
  <2>1. PICK x, a, r : /\ x \in T /\ a = f[T \ {x}] /\ r = ArchiveThought(a, x, t)
                       /\ (f[T] = a \/ f[T] = r.g)
    BY <1>1, <1>3 DEF ArchiveUnprotectedSteps
  <2>2. ASSUME Good(a) PROVE Good(f[T]) /\ Grows(a, f[T], t)
    <3>1. Rewrote(a, r, x, t)
      BY <2>1, <2>2, ArchiveGood
    <3>2. Grows(a, a, t)
      BY <2>2, GrowsSame DEF Good
    <3> QED BY <2>1, <2>2, <3>1, <3>2 DEF Rewrote
  <2> QED BY <2>1, <2>2
<1> HIDE DEF S0
<1>4. Keeps(f, S0, t)
  BY <1>3 DEF Keeps
<1>5. Good(f[S0]) /\ Grows(s, f[S0], t)
  BY <1>1, <1>2, <1>4, FoldGood
<1> QED BY <1>1, <1>5

\* Archiving a list of thoughts.
LEMMA ArchiveBatchGood ==
  ASSUME NEW t \in Times, NEW s, Good(s),
         NEW A, NEW ids \in Seq(A)
  PROVE  Good(ArchiveBatch(s, ids, t)) /\ Grows(s, ArchiveBatch(s, ids, t), t)
<1> DEFINE S0 == DOMAIN ids
<1>1. PICK f : ArchiveBatch(s, ids, t) = f[S0] /\ f[{}] = s /\ ArchiveBatchSteps(f, ids, t)
  BY ArchiveBatchFold
<1>2. IsFiniteSet(S0)
  BY SeqFinite
<1>3. ASSUME NEW T \in SUBSET S0, T # {}
      PROVE  \E x \in T : Good(f[T \ {x}]) => Good(f[T]) /\ Grows(f[T \ {x}], f[T], t)
  <2>1. PICK x, a, r : /\ x \in T /\ a = f[T \ {x}] /\ r = ArchiveThought(a, ids[x], t)
                       /\ (f[T] = a \/ f[T] = r.g)
    BY <1>1, <1>3 DEF ArchiveBatchSteps
  <2>2. ASSUME Good(a) PROVE Good(f[T]) /\ Grows(a, f[T], t)
    <3>1. Rewrote(a, r, ids[x], t)
      BY <2>1, <2>2, ArchiveGood
    <3>2. Grows(a, a, t)
      BY <2>2, GrowsSame DEF Good
    <3> QED BY <2>1, <2>2, <3>1, <3>2 DEF Rewrote
  <2> QED BY <2>1, <2>2
<1> HIDE DEF S0
<1>4. Keeps(f, S0, t)
  BY <1>3 DEF Keeps
<1>5. Good(f[S0]) /\ Grows(s, f[S0], t)
  BY <1>1, <1>2, <1>4, FoldGood
<1> QED BY <1>1, <1>5

\* Linking a list of pairs.
LEMMA LinkBatchGood ==
  ASSUME NEW t, NEW s, Good(s), NEW A, NEW links \in Seq(A)
  PROVE  Good(LinkBatch(s, links)) /\ Grows(s, LinkBatch(s, links), t)
<1> DEFINE S0 == DOMAIN links
<1>1. PICK f : LinkBatch(s, links) = f[S0] /\ f[{}] = s /\ LinkBatchSteps(f, links)
  BY LinkBatchFold
<1>2. IsFiniteSet(S0)
  BY SeqFinite
<1>3. ASSUME NEW T \in SUBSET S0, T # {}
      PROVE  \E x \in T : Good(f[T \ {x}]) => Good(f[T]) /\ Grows(f[T \ {x}], f[T], t)
  <2>1. PICK x, a, r : /\ x \in T /\ a = f[T \ {x}] /\ f[T] = r.g
                       /\ r = CreateEdge(a, links[x].s, links[x].t, links[x].type)
    BY <1>1, <1>3 DEF LinkBatchSteps
  <2>2. ASSUME Good(a) PROVE Good(f[T]) /\ Grows(a, f[T], t)
    <3>1. EdgeMade(a, r, links[x].s, links[x].t, links[x].type, t)
      BY <2>1, <2>2, CreateEdgeGood
    <3> QED BY <2>1, <3>1 DEF EdgeMade
  <2> QED BY <2>1, <2>2
<1> HIDE DEF S0
<1>4. Keeps(f, S0, t)
  BY <1>3 DEF Keeps
<1>5. Good(f[S0]) /\ Grows(s, f[S0], t)
  BY <1>1, <1>2, <1>4, FoldGood
<1> QED BY <1>1, <1>5

\* The end of a transaction: the rows a later one writes are others.
LEMMA CommittedGood ==
  ASSUME NEW t, NEW s, NEW old, NEW n, Good(n), Grows(s, n, t),
         NEW m, m = Committed(old, n)
  PROVE  Good(m) /\ Grows(s, m, t) /\ m.th = n.th /\ m.ed = n.ed /\ m.made = n.made
         /\ m.projs = n.projs
<1>1. CASE m = n
  BY <1>1
<1>2. CASE m = [n EXCEPT !.ver = @ + 1]
  <2>1. n = [th |-> n.th, ed |-> n.ed, projs |-> n.projs, made |-> n.made, ver |-> n.ver]
        /\ n.ver \in Nat
    BY DEF Good, Store
  <2>2. m = [th |-> n.th, ed |-> n.ed, projs |-> n.projs, made |-> n.made, ver |-> n.ver + 1]
    BY <1>2, <2>1
  <2>3. /\ m.th = n.th /\ m.ed = n.ed /\ m.projs = n.projs /\ m.made = n.made
        /\ m.ver = n.ver + 1
        /\ m = [th |-> m.th, ed |-> m.ed, projs |-> m.projs, made |-> m.made, ver |-> m.ver]
    BY <2>2
  <2>4. Store(m)
    BY <2>1, <2>3 DEF Good, Store
  <2>5. /\ Unused(m) = Unused(n)
        /\ \A x : Has(m, x) = Has(n, x) /\ IsCluster(m, x) = IsCluster(n, x)
        /\ DedupeKeySound(m)
    BY <2>3 DEF Unused, Has, IsCluster, Good, DedupeKeySound, Live
  <2>6. EdgesSound(m)
    BY <2>3, <2>5 DEF Good, EdgesSound, ClusterRule
  <2> QED BY <2>3, <2>4, <2>5, <2>6 DEF Good, Grows
<1> QED BY <1>1, <1>2 DEF Committed

\* createThoughtWithParentService.
LEMMA WithParentGood ==
  ASSUME NEW t \in Times, NEW s, Good(s), CanCreate(s, 1),
         NEW d, NewThought(d), NEW parent, NEW relation,
         NEW r, r = CreateWithParent(s, d, parent, relation, t)
  PROVE  Good(r.g) /\ Grows(s, r.g, t) /\ r.g.made <= s.made + 1
<1> PICK made : made = CreateThought(s, d, t)
  OBVIOUS
<1> PICK linked : linked = CreateEdgeUnlessThere(made.g, parent, made.id, relation)
  OBVIOUS
<1>1. Created(s, made, t)
  BY CreateGood
<1>2. EdgeMade(made.g, linked, parent, made.id, relation, t)
  BY <1>1, CreateEdgeGood DEF Created
<1>3. Good(linked.g) /\ Grows(s, linked.g, t) /\ Grows(s, s, t)
  BY <1>1, <1>2, GrowsOn, GrowsSame DEF Created, EdgeMade, Good
<1>4. r.g = linked.g \/ r.g = s
  BY DEF CreateWithParent, Refuse
<1>5. linked.g.made <= s.made + 1 /\ s.made <= s.made + 1
  <2>1. linked.g.made = made.g.made
    BY <1>2 DEF EdgeMade, SameThoughts
  <2>2. s.made \in Nat
    BY DEF Good, Store
  <2> QED BY <1>1, <2>1, <2>2 DEF Created
<1> QED BY <1>3, <1>4, <1>5

\* What one call makes.
LEMMA CreateOneGood ==
  ASSUME NEW t \in Times, NEW s, Good(s), CanCreate(s, 1),
         NEW c, NewThought(c.d), NEW n, n = CreateOne(s, c, t)
  PROVE  Good(n) /\ Grows(s, n, t) /\ n.made <= s.made + 1
<1>1. CASE c.parent = "none"
  BY <1>1, CreateGood DEF CreateOne, Created
<1>2. CASE c.parent # "none"
  BY <1>2, WithParentGood DEF CreateOne
<1> QED BY <1>1, <1>2

\* Items that have ids to take: no more thoughts are made than there are items.
LEMMA BulkCreateGood ==
  ASSUME NEW t \in Times, NEW s, Good(s),
         NEW A, NEW items \in Seq(A), \A c \in A : NewThought(c.d), CanCreate(s, Len(items))
  PROVE  Good(BulkCreate(s, items, t)) /\ Grows(s, BulkCreate(s, items, t), t)
<1> DEFINE S == DOMAIN items
<1>1. PICK f : BulkCreate(s, items, t) = f[S] /\ f[{}] = s /\ BulkCreateSteps(f, items, t)
  BY BulkCreateFold
<1>2. IsFiniteSet(S) /\ Cardinality(S) = Len(items)
  BY SeqFinite
<1>3. \A x \in S : NewThought(items[x].d)
  OBVIOUS
<1> DEFINE D == {T \in SUBSET S : /\ Good(f[T]) /\ Grows(s, f[T], t)
                                  /\ f[T].made <= s.made + Cardinality(T)}
<1>4. {} \in D
  <2>1. Cardinality({}) = 0 /\ s.made \in Nat /\ Grows(s, s, t)
    BY FS_EmptySet, GrowsSame DEF Good, Store
  <2> QED BY <1>1, <2>1
<1>5. ASSUME NEW T \in SUBSET S, T # {}
      PROVE  \E x \in T : T \ {x} \in D => T \in D
  <2>1. PICK x, a, n : x \in T /\ a = f[T \ {x}] /\ f[T] = n /\ n = CreateOne(a, items[x], t)
    BY <1>1, <1>5 DEF BulkCreateSteps
  <2>2. /\ IsFiniteSet(T) /\ Cardinality(T) \in Nat /\ Cardinality(T) <= Cardinality(S)
        /\ Cardinality(T \ {x}) = Cardinality(T) - 1
    BY <1>2, <2>1, FS_Subset, FS_CardinalityType, FS_RemoveElement
  <2>3. ASSUME T \ {x} \in D PROVE T \in D
    <3>1. Good(a) /\ Grows(s, a, t) /\ a.made <= s.made + (Cardinality(T) - 1)
          /\ a.made \in Nat /\ s.made \in Nat
      <4>1. Good(a) /\ Grows(s, a, t) /\ a.made <= s.made + Cardinality(T \ {x})
        BY <2>1, <2>3
      <4> HIDE DEF S, D
      <4> QED BY ONLY <4>1, <2>2, Good(s) DEF Good, Store
    <3>2. CanCreate(a, 1)
      BY <1>2, <2>2, <3>1, CurationAssumption DEF CanCreate
    <3>3. Good(n) /\ Grows(a, n, t) /\ n.made <= a.made + 1
      BY <1>3, <2>1, <3>1, <3>2, CreateOneGood
    <3>4. Good(n) /\ Grows(s, n, t)
      BY <3>1, <3>3, GrowsOn DEF Good
    <3>5. n.made <= s.made + Cardinality(T)
      BY <2>2, <3>1, <3>3 DEF Good, Store
    <3> QED BY <2>1, <3>4, <3>5
  <2> QED BY <2>1, <2>3
<1>6. Climbs(S, D)
  BY <1>4, <1>5 DEF Climbs
<1> HIDE DEF D, S
<1>7. S \in D
  BY <1>2, <1>6, SubsetInduction
<1> QED BY <1>1, <1>7 DEF D

\* The joining of members.
LEMMA AllJoinedGood ==
  ASSUME NEW t, NEW S, IsFiniteSet(S), NEW id, NEW b, Good(b.g)
  PROVE  Good(AllJoined(S, id, b).g) /\ Grows(b.g, AllJoined(S, id, b).g, t)
<1>1. PICK f : AllJoined(S, id, b) = f[S] /\ f[{}] = b /\ AllJoinedSteps(f, S, id)
  BY AllJoinedFold
<1> DEFINE D == {T \in SUBSET S : Good(f[T].g) /\ Grows(b.g, f[T].g, t)}
<1>2. {} \in D
  BY <1>1, GrowsSame DEF Good
<1>3. ASSUME NEW T \in SUBSET S, T # {}
      PROVE  \E x \in T : T \ {x} \in D => T \in D
  <2>1. PICK x, a, r : /\ x \in T /\ a = f[T \ {x}] /\ (f[T] = a \/ f[T] = r)
                       /\ r = CreateEdgeUnlessThere(a.g, id, x, "cluster")
    BY <1>1, <1>3 DEF AllJoinedSteps
  <2>2. ASSUME T \ {x} \in D PROVE T \in D
    <3>1. Good(a.g) /\ Grows(b.g, a.g, t)
      BY <2>1, <2>2
    <3>2. EdgeMade(a.g, r, id, x, "cluster", t)
      BY <2>1, <3>1, CreateEdgeGood
    <3>3. Good(r.g) /\ Grows(b.g, r.g, t)
      BY <3>1, <3>2, GrowsOn DEF EdgeMade, Good
    <3> QED BY <2>1, <3>1, <3>3
  <2> QED BY <2>1, <2>2
<1>4. Climbs(S, D)
  BY <1>2, <1>3 DEF Climbs
<1> HIDE DEF D
<1>5. S \in D
  BY <1>4, SubsetInduction
<1> QED BY <1>1, <1>5 DEF D

\* createClusterService.
LEMMA ClusterGood ==
  ASSUME NEW t \in Times, NEW s, Good(s), CanCreate(s, 1),
         NEW members, IsFiniteSet(members), NEW title \in STRING, NEW proj \in STRING,
         NEW r, r = CreateCluster(s, members, title, proj, t)
  PROVE  Good(r.g) /\ Grows(s, r.g, t)
<1> PICK d : d = [content |-> title, proj |-> proj, status |-> "active",
                  prot |-> FALSE, cluster |-> TRUE]
  OBVIOUS
<1> PICK made : made = CreateThought(s, d, t)
  OBVIOUS
<1> PICK joined : joined = AllJoined(members, made.id, Done(made.g))
  OBVIOUS
<1>1. NewThought(d)
  BY CurationAssumption DEF NewThought, Statuses
<1>2. Created(s, made, t)
  BY <1>1, CreateGood
<1>3. Done(made.g).g = made.g
  BY DEF Done
<1>4. Good(joined.g) /\ Grows(made.g, joined.g, t)
  <2>1. Good(Done(made.g).g)
    BY <1>2, <1>3 DEF Created
  <2>2. Good(joined.g) /\ Grows(Done(made.g).g, joined.g, t)
    BY <2>1, AllJoinedGood
  <2> QED BY <1>3, <2>2
<1>5. Grows(s, joined.g, t) /\ Grows(s, s, t)
  BY <1>2, <1>4, GrowsOn, GrowsSame DEF Created, Good
<1>6. r = IF joined.ok THEN joined ELSE Refuse(s, joined.why)
  BY DEF CreateCluster, AllJoined, FoldSet, MapThenFoldSet
<1> QED BY <1>4, <1>5, <1>6 DEF Refuse

(***************************************************************************)
(* Merging.                                                                *)
(***************************************************************************)
\* The edges at a thought, and who is joined to it.
LEMMA JoinedKept ==
  ASSUME NEW s, NEW n, NEW a, NEW b, NEW type, LinksOnly(s, n, a, b, type),
         NEW x, NEW y, Joined(s, x, y)
  PROVE  Joined(n, x, y)
<1>1. PICK e \in s.ed : {e.s, e.t} = {x, y}
  BY DEF Joined
<1>2. e \in n.ed \/ ({e.s, e.t} = {a, b} /\ Joined(n, a, b))
  BY <1>1 DEF LinksOnly
<1> QED BY <1>1, <1>2 DEF Joined

\* e is one of u's, or joins tgt to a neighbour of src.
OverTo(u, e, src, tgt) ==
  \E z : {e.s, e.t} = {tgt, z} /\ z # src /\ Joined(u, src, z)

\* r is what the transfer of the edges T from src to tgt made of u.
Moved(u, r, src, tgt, T, t) ==
  /\ r.ok \in BOOLEAN /\ Good(r.g) /\ Grows(u, r.g, t) /\ SameThoughts(u, r.g)
  /\ r.ok =>
       /\ \A e \in r.g.ed : src \in {e.s, e.t} => e \in u.ed /\ e \notin T
       /\ ~IsCluster(u, src) /\ ~IsCluster(u, tgt) =>
            \A e \in T : \A y \in {e.s, e.t} : y # src /\ y # tgt => Joined(r.g, tgt, y)
       /\ \A x, y : Joined(u, x, y) /\ src \notin {x, y} => Joined(r.g, x, y)
       /\ \A e \in r.g.ed : e \in u.ed \/ OverTo(u, e, src, tgt)

\* From r the edge e of m.src, whose other end is y, may have been put between
\* a and b, which made p.
MayPut(r, p, a, b, e, m, y, t) ==
  /\ {a, b} = {m.tgt, y} /\ Good(p) /\ Grows(r.g, p, t) /\ SameThoughts(r.g, p)
  /\ LinksOnly(r.g, p, a, b, e.type)
  /\ \/ y = m.tgt \/ Joined(p, a, b)
     \/ /\ e.type = "cluster" /\ a = (IF e.s = m.src THEN m.tgt ELSE e.s)
        /\ b = (IF e.t = m.src THEN m.tgt ELSE e.t)
        /\ ~(IsCluster(r.g, a) /\ ~IsCluster(r.g, b))

\* e is an edge of m.src, to y.
AtSource(e, m, y) ==
  e.s # e.t /\ m.src # m.tgt /\ {e.s, e.t} = {m.src, y} /\ y # m.src

\* What TransferEdge does once it is not refused: the edge e goes, and one from
\* m.tgt to its other end may be put.
Transferred(r, q, e, m, y, t) ==
  \/ q.ok = FALSE /\ q.g = r.g
  \/ /\ q.ok = TRUE /\ r.ok
     /\ \E p, a, b : MayPut(r, p, a, b, e, m, y, t) /\ q.g = [p EXCEPT !.ed = @ \ {e}]

\* transferEdge: the other end is joined to the target, the edge is gone from the source.
LEMMA TransferIs ==
  ASSUME NEW t, NEW r, Good(r.g), NEW e, NEW m, NEW y, AtSource(e, m, y),
         NEW q, q = TransferEdge(e, m, r)
  PROVE  Transferred(r, q, e, m, y, t)
<1> PICK a, b : a = (IF e.s = m.src THEN m.tgt ELSE e.s) /\ b = (IF e.t = m.src THEN m.tgt ELSE e.t)
  OBVIOUS
<1>1. {a, b} = {m.tgt, y}
  BY DEF AtSource
<1> DEFINE dropped == a = b \/ (e.type = "cluster" /\ ~(IsCluster(r.g, a) /\ ~IsCluster(r.g, b)))
<1> PICK put : put = IF dropped THEN Done(r.g) ELSE CreateEdgeUnlessThere(r.g, a, b, e.type)
  OBVIOUS
<1>2. q = IF ~r.ok \/ ~put.ok THEN Refuse(r.g, "transfer")
          ELSE Done([put.g EXCEPT !.ed = @ \ {e}])
  BY DEF TransferEdge
<1>3. CASE ~r.ok \/ ~put.ok
  BY ONLY <1>2, <1>3 DEF Refuse, Transferred
<1>4. CASE r.ok /\ put.ok
  <2>1. q.ok = TRUE /\ q.g = [put.g EXCEPT !.ed = @ \ {e}]
    BY ONLY <1>2, <1>4 DEF Done
  <2>2. CASE dropped
    <3>1. put.g = r.g
      BY <2>2 DEF Done
    <3>2. Grows(r.g, r.g, t) /\ SameThoughts(r.g, r.g) /\ LinksOnly(r.g, r.g, a, b, e.type)
      BY SameEdges
    <3>3. y = m.tgt \/ (/\ e.type = "cluster" /\ ~(IsCluster(r.g, a) /\ ~IsCluster(r.g, b)))
      BY <1>1, <2>2
    <3>4. MayPut(r, put.g, a, b, e, m, y, t)
      BY <1>1, <3>1, <3>2, <3>3 DEF MayPut
    <3> QED BY <1>4, <2>1, <3>4 DEF Transferred
  <2>3. CASE ~dropped
    <3>1. EdgeMade(r.g, put, a, b, e.type, t)
      BY <2>3, CreateEdgeGood
    <3>2. /\ Good(put.g) /\ Grows(r.g, put.g, t) /\ SameThoughts(r.g, put.g)
          /\ LinksOnly(r.g, put.g, a, b, e.type) /\ Joined(put.g, a, b)
      BY <1>4, <3>1 DEF EdgeMade
    <3>3. MayPut(r, put.g, a, b, e, m, y, t)
      BY <1>1, <3>2 DEF MayPut
    <3> QED BY <1>4, <2>1, <3>3 DEF Transferred
  <2> QED BY <2>2, <2>3
<1> QED BY <1>3, <1>4

\* One edge more.
LEMMA TransferGood ==
  ASSUME NEW t, NEW u, Good(u), NEW m, m.src # m.tgt,
         m.src \in DOMAIN u.th, m.tgt \in DOMAIN u.th,
         NEW T, T \subseteq EdgesOf(u, m.src), NEW e \in T,
         NEW r, Moved(u, r, m.src, m.tgt, T \ {e}, t),
         NEW q, q = TransferEdge(e, m, r)
  PROVE  Moved(u, q, m.src, m.tgt, T, t)
<1> PICK src, tgt : src = m.src /\ tgt = m.tgt
  OBVIOUS
<1>1. e \in u.ed /\ e.s # e.t /\ src \in {e.s, e.t} /\ ClusterRule(u, e.s, e.t, e.type)
  BY DEF EdgesOf, Good, EdgesSound
<1> PICK y : y = IF e.s = src THEN e.t ELSE e.s
  OBVIOUS
<1>2. {e.s, e.t} = {src, y} /\ y # src
  BY <1>1
<1>3. Joined(u, src, y)
  BY <1>1, <1>2 DEF Joined
<1>4. /\ r.ok \in BOOLEAN /\ Good(r.g) /\ Grows(u, r.g, t) /\ SameThoughts(u, r.g)
  BY DEF Moved
<1>5. \/ q.ok = FALSE /\ q.g = r.g
      \/ /\ q.ok = TRUE /\ r.ok
         /\ \E p, a, b : MayPut(r, p, a, b, e, m, y, t) /\ q.g = [p EXCEPT !.ed = @ \ {e}]
  <2>1. Good(r.g) /\ AtSource(e, m, y) /\ q = TransferEdge(e, m, r)
    BY <1>1, <1>2, <1>4 DEF AtSource
  <2>2. Transferred(r, q, e, m, y, t)
    BY ONLY <2>1, TransferIs
  <2> QED BY <2>2 DEF Transferred
<1>6. CASE q.ok = FALSE /\ q.g = r.g
  BY <1>4, <1>6 DEF Moved
<1>7. CASE q.ok = TRUE /\ r.ok
           /\ \E p, a, b : MayPut(r, p, a, b, e, m, y, t) /\ q.g = [p EXCEPT !.ed = @ \ {e}]
  <2>1. PICK p, a, b : MayPut(r, p, a, b, e, m, y, t) /\ q.g = [p EXCEPT !.ed = @ \ {e}]
    BY <1>7
  <2>2. /\ {a, b} = {tgt, y} /\ Good(p) /\ Grows(r.g, p, t) /\ SameThoughts(r.g, p)
        /\ LinksOnly(r.g, p, a, b, e.type)
    BY <2>1 DEF MayPut
  <2> PICK n : n = q.g
    OBVIOUS
  <2>3. n = [p EXCEPT !.ed = p.ed \ {e}] /\ p.ed \ {e} \subseteq p.ed
    BY <2>1
  <2>4. Good(n) /\ Grows(p, n, t) /\ SameThoughts(p, n) /\ n.ed = p.ed \ {e} /\ n.th = p.th
    BY <2>2, <2>3, EdgesGood
  <2>5. Grows(u, n, t) /\ SameThoughts(u, n)
    <3>1. Grows(u, p, t)
      BY <1>4, <2>2, GrowsOn DEF Good
    <3>2. Grows(u, n, t)
      BY <2>2, <2>4, <3>1, GrowsOn DEF Good
    <3> QED BY <1>4, <2>2, <2>4, <3>2 DEF SameThoughts, SameStatus
  <2>6. ASSUME NEW v, NEW w, Joined(p, v, w), src \notin {v, w} PROVE Joined(n, v, w)
    <3>1. PICK f \in p.ed : {f.s, f.t} = {v, w}
      BY <2>6 DEF Joined
    <3>2. f # e
      BY <1>2, <2>6, <3>1
    <3> QED BY <2>4, <3>1, <3>2 DEF Joined
  <2>7. ASSUME NEW v, NEW w, Joined(r.g, v, w), src \notin {v, w} PROVE Joined(n, v, w)
    BY <2>2, <2>6, <2>7, JoinedKept
  <2>8. ASSUME NEW f \in n.ed PROVE (f \in r.g.ed /\ f # e) \/ (f.s = a /\ f.t = b)
    BY <2>2, <2>4 DEF LinksOnly
  <2>9. \A f \in n.ed : src \in {f.s, f.t} => f \in u.ed /\ f \notin T
    <3> SUFFICES ASSUME NEW f \in n.ed, src \in {f.s, f.t} PROVE f \in u.ed /\ f \notin T
      OBVIOUS
    <3>1. f \in r.g.ed /\ f # e
      BY <1>2, <2>2, <2>8
    <3> QED BY <1>7, <3>1 DEF Moved
  <2>10. ASSUME ~IsCluster(u, src), ~IsCluster(u, tgt), NEW f \in T, NEW v \in {f.s, f.t},
                v # src, v # tgt
         PROVE  Joined(n, tgt, v)
    <3>1. CASE f # e
      <4>1. Joined(r.g, tgt, v)
        BY <1>7, <2>10, <3>1 DEF Moved
      <4> QED BY <2>7, <2>10, <4>1
    <3>2. CASE f = e
      <4>1. v = y
        BY <1>2, <2>10, <3>2
      <4>2. Joined(p, a, b)
        <5>1. ASSUME e.type = "cluster", a = (IF e.s = m.src THEN m.tgt ELSE e.s),
                     b = (IF e.t = m.src THEN m.tgt ELSE e.t)
              PROVE  IsCluster(r.g, a) /\ ~IsCluster(r.g, b)
          <6>1. IsCluster(u, e.s) /\ ~IsCluster(u, e.t)
            BY <1>1, <5>1 DEF ClusterRule
          <6>2. e.t = src /\ a = e.s /\ b = tgt
            BY <1>1, <2>10, <5>1, <6>1
          <6>3. \A x \in DOMAIN u.th : IsCluster(r.g, x) = IsCluster(u, x)
            BY <1>4 DEF Grows, IsCluster, Has
          <6>4. e.s \in DOMAIN u.th
            BY <6>1 DEF IsCluster, Has
          <6> QED BY <2>10, <6>1, <6>2, <6>3, <6>4
        <5> QED BY <2>1, <2>10, <4>1, <5>1 DEF MayPut
      <4>3. Joined(p, tgt, v)
        BY <2>2, <4>1, <4>2 DEF Joined
      <4> QED BY <2>6, <2>10, <4>3
    <3> QED BY <3>1, <3>2
  <2>11. ASSUME NEW v, NEW w, Joined(u, v, w), src \notin {v, w} PROVE Joined(n, v, w)
    <3>1. Joined(r.g, v, w)
      BY <1>7, <2>11 DEF Moved
    <3> QED BY <2>7, <2>11, <3>1
  <2>12. ASSUME NEW f \in n.ed PROVE f \in u.ed \/ OverTo(u, f, src, tgt)
    <3>1. CASE f \in r.g.ed
      BY <1>7, <3>1 DEF Moved
    <3>2. CASE f.s = a /\ f.t = b
      BY <1>2, <1>3, <2>2, <3>2 DEF OverTo
    <3> QED BY <2>8, <3>1, <3>2
  <2> QED BY ZenonT(30), <1>7, <2>4, <2>5, <2>9, <2>10, <2>11, <2>12 DEF Moved
<1> QED BY <1>5, <1>6, <1>7

\* All of the source's edges are transferred, or an error ends it.
LEMMA AllMovedGood ==
  ASSUME NEW t, NEW u, Good(u), NEW m, m.src # m.tgt,
         m.src \in DOMAIN u.th, m.tgt \in DOMAIN u.th,
         NEW b, b.ok \in BOOLEAN, b.g = u
  PROVE  Moved(u, AllMoved(EdgesOf(u, m.src), m, b), m.src, m.tgt, EdgesOf(u, m.src), t)
<1> PICK S : S = EdgesOf(u, m.src)
  OBVIOUS
<1>1. IsFiniteSet(S) /\ S \subseteq EdgesOf(u, m.src)
  <2>1. S \in SUBSET u.ed
    BY DEF EdgesOf
  <2>2. IsFiniteSet(u.ed)
    BY DEF Good, Store
  <2> QED BY <2>1, <2>2, FS_Subset
<1>2. PICK f : AllMoved(S, m, b) = f[S] /\ f[{}] = b /\ AllMovedSteps(f, S, m)
  BY <1>1, AllMovedFold
<1> DEFINE D == {T \in SUBSET S : Moved(u, f[T], m.src, m.tgt, T, t)}
<1>3. {} \in D
  <2>1. Grows(u, u, t) /\ SameThoughts(u, u)
    BY SameEdges
  <2>2. Moved(u, b, m.src, m.tgt, {}, t)
    BY <2>1 DEF Moved
  <2> QED BY <1>2, <2>2
<1>4. ASSUME NEW T \in SUBSET S, T # {}
      PROVE  \E x \in T : T \ {x} \in D => T \in D
  <2>1. PICK x \in T : f[T] = TransferEdge(x, m, f[T \ {x}])
    BY <1>2, <1>4 DEF AllMovedSteps
  <2>2. ASSUME T \ {x} \in D PROVE T \in D
    <3>1. PICK r, q : r = f[T \ {x}] /\ q = f[T]
      OBVIOUS
    <3>2. Moved(u, r, m.src, m.tgt, T \ {x}, t) /\ q = TransferEdge(x, m, r)
      BY <2>1, <2>2, <3>1
    <3>3. T \subseteq EdgesOf(u, m.src)
      BY <1>1
    <3> HIDE DEF D
    <3>4. Moved(u, q, m.src, m.tgt, T, t)
      BY <3>2, <3>3, TransferGood
    <3> QED BY <3>1, <3>4 DEF D
  <2> QED BY <2>2
<1>5. Climbs(S, D)
  BY <1>3, <1>4 DEF Climbs
<1> HIDE DEF D
<1>6. S \in D
  BY <1>1, <1>5, SubsetInduction
<1> QED BY <1>2, <1>6 DEF D

\* r is what the merge of src into tgt made of s.
Merged(s, r, src, tgt, t) ==
  /\ r.ok \in BOOLEAN /\ Good(r.g) /\ Grows(s, r.g, t) /\ r.g.made = s.made
  /\ ~r.ok => r.g = s
  /\ r.ok =>
       /\ src \in DOMAIN s.th /\ tgt \in DOMAIN s.th /\ src # tgt
       /\ r.g.th[src].status = "archived"
       /\ \A x \in DOMAIN s.th : x # src /\ x # tgt => SameStatus(s, r.g, x)
       /\ \A e \in r.g.ed : src \in {e.s, e.t} => e.s = tgt /\ e.t = src /\ e.type = "replaces"
       /\ \A y : Joined(s, src, y) /\ y # src /\ y # tgt => Joined(r.g, tgt, y)
       /\ \A x, y : Joined(s, x, y) /\ src \notin {x, y} => Joined(r.g, x, y)
       /\ \A e \in r.g.ed : e \in s.ed \/ OverTo(s, e, src, tgt) \/ src \in {e.s, e.t}

\* What a thought is, a cluster or not, stays.
LEMMA SameCluster ==
  ASSUME NEW s, NEW n, NEW t, Grows(s, n, t), NEW x \in DOMAIN s.th
  PROVE  IsCluster(n, x) = IsCluster(s, x)
BY DEF Grows, IsCluster, Has

\* mergeThoughtsService.
LEMMA MergeGood ==
  ASSUME NEW t \in Times, NEW s, Good(s), NEW proj \in STRING,
         NEW m, m.content \in STRING, NEW r, r = MergeThoughts(s, m, proj, t)
  PROVE  Merged(s, r, m.src, m.tgt, t)
<1> PICK src, tgt : src = m.src /\ tgt = m.tgt
  OBVIOUS
<1> DEFINE d == IF m.content = "none" THEN [proj |-> proj]
                ELSE [proj |-> proj, content |-> m.content]
           updated == UpdateThought(s, m.tgt, d, t)
           moved == AllMoved(EdgesOf(s, m.src), m, updated)
           archived == ArchiveThought(moved.g, m.src, t)
           linked == CreateEdge(archived.g, m.tgt, m.src, "replaces")
           mergeable == /\ m.src # m.tgt /\ Has(s, m.src)
                        /\ m.archivedOk \/ s.th[m.src].status # "archived"
<1>1. r = IF ~mergeable \/ ~updated.ok \/ ~moved.ok \/ ~linked.ok THEN Refuse(s, "merge")
          ELSE linked
  <2>1. MergeThoughts(s, m, proj, t) =
          IF ~mergeable \/ ~updated.ok \/ ~moved.ok \/ ~linked.ok THEN Refuse(s, "merge")
          ELSE linked
    BY Zenon DEF MergeThoughts, AllMoved
  <2> HIDE DEF mergeable, updated, moved, linked
  <2> QED BY <2>1
<1>2. Given(d) /\ "status" \notin DOMAIN d
  BY DEF Given
<1> HIDE DEF d
<1>3. updated = UpdateThought(s, tgt, d, t)
  OBVIOUS
<1> HIDE DEF updated
<1>4. moved = AllMoved(EdgesOf(s, src), m, updated)
  OBVIOUS
<1> HIDE DEF moved
<1>5. archived = ArchiveThought(moved.g, src, t)
  OBVIOUS
<1> HIDE DEF archived
<1>6. linked = CreateEdge(archived.g, tgt, src, "replaces")
      /\ (mergeable => src # tgt /\ src \in DOMAIN s.th)
  BY DEF Has
<1> HIDE DEF linked, mergeable
<1>7. CASE ~mergeable \/ ~updated.ok \/ ~moved.ok \/ ~linked.ok
  <2>1. r.ok = FALSE /\ r.g = s
    BY <1>1, <1>7 DEF Refuse
  <2>2. Grows(s, s, t)
    BY GrowsSame DEF Good
  <2> QED BY <2>1, <2>2 DEF Merged
<1>8. CASE mergeable /\ updated.ok /\ moved.ok /\ linked.ok
  <2>1. r = linked /\ src # tgt /\ src \in DOMAIN s.th
    BY <1>1, <1>8, <1>6
  <2>2. Rewrote(s, updated, tgt, t) /\ Restatus(s, updated, tgt, d)
    BY <1>2, <1>3, UpdateGood
  <2> PICK u : u = updated.g
    OBVIOUS
  <2>3. /\ updated.ok \in BOOLEAN /\ Good(u) /\ Grows(s, u, t) /\ u.ed = s.ed
        /\ u.made = s.made /\ DOMAIN u.th = DOMAIN s.th /\ tgt \in DOMAIN s.th
        /\ \A x \in DOMAIN s.th : SameStatus(s, u, x)
    BY <1>2, <1>8, <2>2 DEF Rewrote, Restatus, SameStatus
  <2>4. EdgesOf(s, src) = EdgesOf(u, m.src)
    BY <2>3 DEF EdgesOf
  <2>5. Moved(u, moved, src, tgt, EdgesOf(u, src), t)
    BY <1>4, <2>1, <2>3, <2>4, AllMovedGood
  <2> PICK v : v = moved.g
    OBVIOUS
  <2>6. Good(v) /\ Grows(u, v, t) /\ SameThoughts(u, v)
    BY <2>5 DEF Moved
  <2>7. Rewrote(v, archived, src, t) /\ (archived.ok => archived.g.th[src].status = "archived")
    BY <1>5, <2>6, ArchiveGood
  <2>8. archived.ok
    BY <1>5, <2>1, <2>3, <2>6, ArchiveDone DEF SameThoughts
  <2> PICK w : w = archived.g
    OBVIOUS
  <2>9. /\ Good(w) /\ Grows(v, w, t) /\ w.ed = v.ed /\ w.made = v.made
         /\ DOMAIN w.th = DOMAIN v.th /\ w.th[src].status = "archived"
         /\ \A x \in DOMAIN v.th : x # src => SameStatus(v, w, x)
    BY <2>7, <2>8 DEF Rewrote, SameStatus
  <2> PICK n : n = r.g
    OBVIOUS
  <2>10. EdgeMade(w, r, tgt, src, "replaces", t)
    BY <1>6, <2>1, <2>9, CreateEdgeGood
  <2>11. /\ Good(n) /\ Grows(w, n, t) /\ SameThoughts(w, n)
         /\ LinksOnly(w, n, tgt, src, "replaces") /\ Joined(n, tgt, src)
         /\ ClusterRule(w, tgt, src, "replaces") /\ r.ok = TRUE
    BY <1>8, <2>1, <2>10 DEF EdgeMade
  <2>12. Grows(s, n, t)
    <3>1. Grows(s, v, t)
      BY <2>3, <2>6, GrowsOn DEF Good
    <3>2. Grows(s, w, t)
      BY <2>6, <2>9, <3>1, GrowsOn DEF Good
    <3> QED BY <2>9, <2>11, <3>2, GrowsOn DEF Good
  <2>13. DOMAIN n.th = DOMAIN s.th /\ n.made = s.made /\ n.th[src].status = "archived"
    <3>1. DOMAIN n.th = DOMAIN s.th /\ n.made = s.made /\ src \in DOMAIN w.th
      BY <2>1, <2>3, <2>6, <2>9, <2>11 DEF SameThoughts
    <3>2. SameStatus(w, n, src)
      BY <2>11, <3>1 DEF SameThoughts
    <3> QED BY <2>9, <3>1, <3>2 DEF SameStatus
  <2>14. \A x \in DOMAIN s.th : x # src => SameStatus(s, n, x)
    <3> SUFFICES ASSUME NEW x \in DOMAIN s.th, x # src PROVE SameStatus(s, n, x)
      OBVIOUS
    <3>1. x \in DOMAIN u.th /\ x \in DOMAIN v.th /\ x \in DOMAIN w.th
      BY <2>3, <2>6, <2>9 DEF SameThoughts
    <3>2. SameStatus(s, u, x) /\ SameStatus(u, v, x) /\ SameStatus(v, w, x) /\ SameStatus(w, n, x)
      BY <2>3, <2>6, <2>9, <2>11, <3>1 DEF SameThoughts
    <3> QED BY <3>2 DEF SameStatus
  <2>15. ~IsCluster(u, src) /\ ~IsCluster(u, tgt)
    <3>1. ~IsCluster(w, src) /\ ~IsCluster(w, tgt)
      BY <2>11 DEF ClusterRule
    <3>2. src \in DOMAIN u.th /\ tgt \in DOMAIN u.th /\ src \in DOMAIN v.th /\ tgt \in DOMAIN v.th
      BY <2>1, <2>3, <2>6 DEF SameThoughts
    <3>3. /\ IsCluster(v, src) = IsCluster(u, src) /\ IsCluster(v, tgt) = IsCluster(u, tgt)
          /\ IsCluster(w, src) = IsCluster(v, src) /\ IsCluster(w, tgt) = IsCluster(v, tgt)
      BY <2>6, <2>9, <3>2, SameCluster
    <3> QED BY <3>1, <3>3
  <2>16. \A e \in w.ed : src \notin {e.s, e.t}
    <3>1. \A e \in v.ed : src \in {e.s, e.t} => e \in u.ed /\ e \notin EdgesOf(u, src)
      BY <1>8, <2>5 DEF Moved
    <3> QED BY <2>9, <3>1 DEF EdgesOf
  <2>17. ASSUME NEW e \in n.ed, src \in {e.s, e.t}
         PROVE  e.s = tgt /\ e.t = src /\ e.type = "replaces"
    BY <2>11, <2>16, <2>17 DEF LinksOnly
  <2>18. \A x, y : Joined(v, x, y) => Joined(n, x, y)
    <3>1. \A x, y : Joined(v, x, y) => Joined(w, x, y)
      BY <2>9 DEF Joined
    <3> QED BY <2>11, <3>1, JoinedKept
  <2>19. \A x, y : Joined(s, x, y) <=> Joined(u, x, y)
    BY <2>3 DEF Joined
  <2>20. ASSUME NEW y, Joined(s, src, y), y # src, y # tgt PROVE Joined(n, tgt, y)
    <3>1. Joined(u, src, y)
      BY <2>19, <2>20
    <3>2. PICK e \in u.ed : {e.s, e.t} = {src, y}
      BY <3>1 DEF Joined
    <3>3. e \in EdgesOf(u, src) /\ y \in {e.s, e.t}
      BY <3>2 DEF EdgesOf
    <3>4. Joined(v, tgt, y)
      BY <1>8, <2>5, <2>15, <2>20, <3>3 DEF Moved
    <3> QED BY <2>18, <3>4
  <2>21. ASSUME NEW x, NEW y, Joined(s, x, y), src \notin {x, y} PROVE Joined(n, x, y)
    <3>1. Joined(v, x, y)
      BY <1>8, <2>5, <2>19, <2>21 DEF Moved
    <3> QED BY <2>18, <3>1
  <2>22. ASSUME NEW e \in n.ed PROVE e \in s.ed \/ OverTo(s, e, src, tgt) \/ src \in {e.s, e.t}
    <3>1. CASE e \in w.ed
      <4>1. e \in u.ed \/ OverTo(u, e, src, tgt)
        BY <1>8, <2>5, <2>9, <3>1 DEF Moved
      <4> QED BY <2>3, <2>19, <4>1 DEF OverTo
    <3>2. CASE e.t = src
      BY <3>2
    <3> QED BY <2>11, <3>1, <3>2 DEF LinksOnly
  <2> QED BY <2>1, <2>3, <2>11, <2>12, <2>13, <2>14, <2>17, <2>20, <2>21, <2>22 DEF Merged
<1> QED BY <1>7, <1>8

\* x is archived and has no edge left but from the thought that replaces it.
Gone(n, x, id) ==
  /\ n.th[x].status = "archived"
  /\ \A e \in n.ed : x \in {e.s, e.t} => e.s = id /\ e.type = "replaces"

\* r is what merging T, some of the sources S, into id made of c.
Merging(c, r, S, T, id, t) ==
  /\ r.ok \in BOOLEAN /\ Good(r.g) /\ Grows(c, r.g, t)
  /\ r.ok =>
       /\ \A x \in T : Gone(r.g, x, id)
       /\ \A x \in T : \A y : Joined(c, x, y) /\ y \notin S /\ y # id => Joined(r.g, id, y)
       /\ \A x \in S \ T : \A y : Joined(c, x, y) /\ y \notin S /\ y # id => Joined(r.g, x, y)

\* One source more.
LEMMA OneMergedGood ==
  ASSUME NEW t \in Times, NEW c, Good(c), NEW S,
         S \subseteq DOMAIN c.th, NEW id \in DOMAIN c.th, id \notin S, NEW summary \in STRING,
         NEW T \in SUBSET S, NEW x \in T,
         NEW r, Merging(c, r, S, T \ {x}, id, t),
         NEW q, q = OneMerged(x, id, summary, t, r)
  PROVE  Merging(c, q, S, T, id, t)
<1>1. CASE r.ok # TRUE
  <2>1. q = r /\ r.ok = FALSE
    BY <1>1 DEF OneMerged, Merging
  <2> QED BY <2>1 DEF Merging
<1>2. CASE r.ok
  <2>1. PICK m : m.src = x /\ m.tgt = id /\ m.content = summary
                 /\ q = MergeThoughts(r.g, m, r.g.th[id].proj, t)
    <3> WITNESS [src |-> x, tgt |-> id, content |-> summary, archivedOk |-> TRUE]
    <3> QED BY <1>2 DEF OneMerged
  <2> PICK u, n : u = r.g /\ n = q.g
    OBVIOUS
  <2>2. Good(u) /\ Grows(c, u, t) /\ id \in DOMAIN u.th /\ S \subseteq DOMAIN u.th
    BY DEF Merging, Grows
  <2>3. u.th[id].proj \in STRING
    <3>1. u.th[id] \in Rows
      BY <2>2 DEF Good, Store
    <3> QED BY <3>1 DEF Rows
  <2>4. Merged(u, q, x, id, t)
    BY <2>1, <2>2, <2>3, MergeGood
  <2>5. q.ok \in BOOLEAN /\ Good(n) /\ Grows(u, n, t)
    BY <2>4 DEF Merged
  <2>6. Grows(c, n, t)
    BY <2>2, <2>5, GrowsOn DEF Good
  <2>7. ASSUME q.ok, NEW w \in T PROVE Gone(n, w, id)
    <3>1. CASE w = x
      BY <2>4, <2>7, <3>1 DEF Merged, Gone
    <3>2. CASE w # x
      <4>1. Gone(u, w, id)
        BY <1>2, <3>2 DEF Merging
      <4>2. w \in DOMAIN u.th /\ w # id /\ x # id
        BY <2>2
      <4>3. SameStatus(u, n, w)
        BY <2>4, <2>7, <3>2, <4>2 DEF Merged
      <4>4. ~Joined(u, x, w)
        <5> SUFFICES ASSUME Joined(u, x, w) PROVE FALSE
          OBVIOUS
        <5>1. PICK e \in u.ed : {e.s, e.t} = {x, w}
          BY DEF Joined
        <5>2. e.s = id
          BY <4>1, <5>1 DEF Gone
        <5> QED BY <4>2, <5>1, <5>2
      <4>5. ASSUME NEW e \in n.ed, w \in {e.s, e.t} PROVE e.s = id /\ e.type = "replaces"
        <5>1. e \in u.ed \/ OverTo(u, e, x, id) \/ x \in {e.s, e.t}
          BY <2>4, <2>7 DEF Merged
        <5>2. ~OverTo(u, e, x, id)
          BY <4>2, <4>4, <4>5 DEF OverTo
        <5>3. x \in {e.s, e.t} => e.s = id /\ e.type = "replaces"
          BY <2>4, <2>7 DEF Merged
        <5> QED BY <4>1, <4>5, <5>1, <5>2, <5>3 DEF Gone
      <4> QED BY <4>1, <4>3, <4>5 DEF Gone, SameStatus
    <3> QED BY <3>1, <3>2
  <2>8. ASSUME q.ok, NEW a, NEW b, Joined(u, a, b), x \notin {a, b} PROVE Joined(n, a, b)
    BY <2>4, <2>8 DEF Merged
  <2>9. ASSUME q.ok, NEW w \in T, NEW y, Joined(c, w, y), y \notin S, y # id
        PROVE  Joined(n, id, y)
    <3>1. x # y /\ x # id
      BY <2>9
    <3>2. CASE w = x
      <4>1. x \in S \ (T \ {x})
        OBVIOUS
      <4>2. Joined(u, x, y)
        BY <1>2, <2>9, <3>2, <4>1 DEF Merging
      <4> QED BY <2>4, <2>9, <3>1, <4>2 DEF Merged
    <3>3. CASE w # x
      <4>1. Joined(u, id, y)
        BY <1>2, <2>9, <3>3 DEF Merging
      <4> QED BY <2>8, <2>9, <3>1, <4>1
    <3> QED BY <3>2, <3>3
  <2>10. ASSUME q.ok, NEW w \in S \ T, NEW y, Joined(c, w, y), y \notin S, y # id
         PROVE  Joined(n, w, y)
    <3>1. w \in S \ (T \ {x}) /\ w # x /\ y # x
      BY <2>10
    <3>2. Joined(u, w, y)
      BY <1>2, <2>10, <3>1 DEF Merging
    <3> QED BY <2>8, <2>10, <3>1, <3>2
  <2> QED BY <2>5, <2>6, <2>7, <2>9, <2>10 DEF Merging
<1> QED BY <1>1, <1>2

\* All sources.
LEMMA AllMergedGood ==
  ASSUME NEW t \in Times, NEW c, Good(c), NEW S, IsFiniteSet(S),
         S \subseteq DOMAIN c.th, NEW id \in DOMAIN c.th, id \notin S, NEW summary \in STRING,
         NEW b, b.ok = TRUE, b.g = c, NEW q, q = AllMerged(S, id, summary, t, b)
  PROVE  Merging(c, q, S, S, id, t)
<1>1. PICK f : q = f[S] /\ f[{}] = b /\ AllMergedSteps(f, S, id, summary, t)
  BY AllMergedFold
<1> DEFINE D == {T \in SUBSET S : Merging(c, f[T], S, T, id, t)}
<1>2. {} \in D
  <2>1. Grows(c, c, t)
    BY GrowsSame DEF Good
  <2>2. Merging(c, b, S, {}, id, t)
    BY <2>1 DEF Merging
  <2> QED BY <1>1, <2>2
<1>3. ASSUME NEW T \in SUBSET S, T # {}
      PROVE  \E x \in T : T \ {x} \in D => T \in D
  <2>1. PICK x \in T : f[T] = OneMerged(x, id, summary, t, f[T \ {x}])
    BY <1>1, <1>3 DEF AllMergedSteps
  <2>2. ASSUME T \ {x} \in D PROVE T \in D
    <3>1. PICK r, n : r = f[T \ {x}] /\ n = f[T]
      OBVIOUS
    <3>2. Merging(c, r, S, T \ {x}, id, t) /\ n = OneMerged(x, id, summary, t, r)
      BY <2>1, <2>2, <3>1
    <3> HIDE DEF D
    <3>3. Merging(c, n, S, T, id, t)
      BY <3>2, OneMergedGood
    <3> QED BY <3>1, <3>3 DEF D
  <2> QED BY <2>2
<1>4. Climbs(S, D)
  BY <1>2, <1>3 DEF Climbs
<1> HIDE DEF D
<1>5. S \in D
  BY <1>4, SubsetInduction
<1> QED BY <1>1, <1>5 DEF D

\* r is what the compaction of S into id made of s.
Compacted(s, r, S, id, t) ==
  /\ r.ok \in BOOLEAN /\ Good(r.g) /\ Grows(s, r.g, t)
  /\ ~r.ok => r.g = s
  /\ r.ok => /\ S \subseteq DOMAIN s.th
             /\ \A x \in S : Gone(r.g, x, id)
             /\ \A x \in S : \A y : Joined(s, x, y) /\ y \notin S /\ y # id => Joined(r.g, id, y)

\* compactRetentionReviewCandidatesService.
LEMMA CompactGood ==
  ASSUME NEW t \in Times, NEW s, Good(s), CanCreate(s, 1),
         NEW S, IsFiniteSet(S), NEW summary \in STRING, NEW given \in STRING, NEW at,
         NEW r, r = Compact(s, S, summary, given, at, t)
  PROVE  Compacted(s, r, S, NewIds[s.made + 1], t)
<1> DEFINE projs == {s.th[x].proj : x \in S}
           proj == IF given # "none" THEN given ELSE CHOOSE p \in projs : TRUE
           row == [content |-> summary, proj |-> proj]
           clash == \E x \in Live(s) : s.th[x].hash = Hash(row) /\ s.th[x].proj = proj
           d == [content |-> summary, proj |-> proj, status |-> "active",
                 prot |-> TRUE, cluster |-> FALSE]
           made == CreateThought(s, d, t)
           merged == AllMerged(S, made.id, summary, t, made)
           fit == ~((\E x \in S : ~Eligible(s, x, at)) \/ Cardinality(projs) # 1 \/ clash)
<1>1. r = IF (\E x \in S : ~Eligible(s, x, at)) \/ Cardinality(projs) # 1 \/ clash \/ ~merged.ok
          THEN Refuse(s, "compact") ELSE merged
  BY DEF Compact, AllMerged, OneMerged, FoldSet, MapThenFoldSet
<1>2. r = IF fit /\ merged.ok THEN merged ELSE Refuse(s, "compact")
  <2> HIDE DEF projs, clash, merged
  <2> QED BY <1>1
<1>3. fit => S \subseteq DOMAIN s.th /\ proj \in STRING
  <2> SUFFICES ASSUME fit PROVE S \subseteq DOMAIN s.th /\ proj \in STRING
    OBVIOUS
  <2>1. S \subseteq DOMAIN s.th
    BY DEF Eligible, Has
  <2>2. projs # {}
    <3> SUFFICES ASSUME projs = {} PROVE FALSE
      OBVIOUS
    <3>1. Cardinality(projs) = 1
      OBVIOUS
    <3> HIDE DEF projs
    <3> QED BY <3>1, FS_EmptySet
  <2>3. (CHOOSE p \in projs : TRUE) \in projs
    BY <2>2
  <2>4. projs \subseteq STRING
    <3>1. s.th \in [DOMAIN s.th -> Rows]
      BY DEF Good, Store
    <3> QED BY <2>1, <3>1 DEF Rows
  <2> HIDE DEF projs
  <2> QED BY <2>1, <2>3, <2>4
<1>4. fit => Twins(s, FirstRow(d, t)) = {}
  <2> HIDE DEF proj
  <2>1. FirstRow(d, t).hash = Hash(row) /\ FirstRow(d, t).proj = proj
    BY DEF FirstRow, Hash
  <2> HIDE DEF d, row
  <2> QED BY <2>1 DEF Twins
<1>5. NewThought(d) <=> proj \in STRING
  BY DEF NewThought, Statuses
<1> HIDE DEF d
<1>6. made = CreateThought(s, d, t)
  OBVIOUS
<1> HIDE DEF made
<1>7. merged = AllMerged(S, made.id, summary, t, made)
  OBVIOUS
<1> HIDE DEF merged, fit, proj
<1>8. CASE ~(fit /\ merged.ok)
  <2>1. r.ok = FALSE /\ r.g = s
    BY <1>2, <1>8 DEF Refuse
  <2>2. Grows(s, s, t)
    BY GrowsSame DEF Good
  <2> QED BY <2>1, <2>2 DEF Compacted
<1>9. CASE fit /\ merged.ok
  <2>1. Created(s, made, t) /\ made.id = NewIds[s.made + 1]
    BY <1>3, <1>4, <1>5, <1>6, <1>9, CreateGood
  <2> PICK c, id : c = made.g /\ id = made.id
    OBVIOUS
  <2>2. /\ made.ok = TRUE /\ Good(c) /\ Grows(s, c, t) /\ c.ed = s.ed /\ id \in DOMAIN c.th
    BY <2>1 DEF Created
  <2>3. S \subseteq DOMAIN s.th /\ S \subseteq DOMAIN c.th /\ id \notin S
    <3>1. id \in Unused(s)
      BY <2>1, NextId DEF Good
    <3> QED BY <1>3, <1>9, <2>2, <3>1 DEF Good, Grows
  <2>4. Merging(c, merged, S, S, id, t)
    BY <1>7, <2>2, <2>3, AllMergedGood
  <2>5. r = merged
    BY <1>2, <1>9
  <2>6. Grows(s, r.g, t)
    BY <2>2, <2>4, <2>5, GrowsOn DEF Merging, Good
  <2>7. \A x, y : Joined(s, x, y) => Joined(c, x, y)
    BY <2>2 DEF Joined
  <2>8. \A x \in S : \A y : Joined(s, x, y) /\ y \notin S /\ y # id => Joined(r.g, id, y)
    BY <1>9, <2>4, <2>5, <2>7 DEF Merging
  <2> QED BY <1>9, <2>1, <2>3, <2>4, <2>5, <2>6, <2>8 DEF Merging, Compacted
<1> QED BY <1>8, <1>9

(***************************************************************************)
(* The inductive invariant.                                                *)
(***************************************************************************)
\* From s to n, by writes at time t, some thoughts may be gone: an id is of the
\* thought it was of, and a content that is new left its stamp.
Evolves(s, n, t) ==
  /\ Unused(n) \subseteq Unused(s)
  /\ \A x \in DOMAIN n.th :
       IF x \in DOMAIN s.th
       THEN /\ n.th[x].cluster = s.th[x].cluster
            /\ \/ n.th[x].content = s.th[x].content /\ n.th[x].stamp = s.th[x].stamp
               \/ n.th[x].stamp = t
       ELSE x \in Unused(s) /\ n.th[x].stamp = t

\* A retype that was found valid is valid while both ends are there.
StillValid(s, e, type) ==
  /\ type \in EdgeTypes /\ e.s # e.t
  /\ e.s \notin Unused(s) /\ e.t \notin Unused(s)
  /\ Has(s, e.s) /\ Has(s, e.t) => ClusterRule(s, e.s, e.t, type)

\* What a preview at time `at` held of the thought id, in its fingerprint fp and
\* as it was seen: while the thought has that stamp it has that content, unless
\* it was written at that very time.
Held(s, fp, seen, id, at) ==
  \/ fp = <<"missing">> /\ seen = <<"missing">>
  \/ \E content, status, stamp, prot :
       /\ fp = <<status, stamp, prot>> /\ seen = <<content, status, prot>>
       /\ stamp <= at /\ id \notin Unused(s)
       /\ Has(s, id) => s.th[id].content = content \/ s.th[id].stamp >= at

Fingerprinted == {"archive", "archive_batch", "merge"}

TokenOK(row) ==
  /\ row.state \in {"none", "live", "spent"}
  /\ row.state = "live" =>
       /\ row.req \in Requests \/ row.req.kind \in EdgeKinds
       /\ row.at \in Nat /\ row.at <= now
       /\ row.req.kind \in Fingerprinted =>
            \A i \in DOMAIN row.req.ids : Held(g, row.fp[i], row.seen[i], row.req.ids[i], row.at)

\* Each process's job, once it has one.
JobRecord(j) ==
  j = [phase |-> j.phase, req |-> j.req, tok |-> j.tok, at |-> j.at,
       proj |-> j.proj, groups |-> j.groups, repairs |-> j.repairs]

Listed(item) == item = [check |-> item.check, found |-> item.found] /\ IsFiniteSet(item.found)

\* A job that will write a thought with the project it read.
WritesProject(j) == j.phase = "read" \/ (j.phase = "judged" /\ j.req.kind = "merge")

JobOK(j) ==
  j # Idle =>
    /\ JobRecord(j) /\ j.phase \in {"claimed", "judged", "read"}
    /\ j.req \in Requests \/ j.req.kind \in EdgeKinds
    /\ j.at \in Nat /\ j.at <= now
    /\ j.tok # "none" => j.tok \in TokenIds /\ tokens[j.tok].state = "spent"
    /\ WritesProject(j) => j.proj \in STRING
    /\ j.phase = "read" => /\ j.req.kind \in {"cluster", "auto_cluster"}
                          /\ IsFiniteSet(NextGroup(j))
    /\ j.req.kind = "retype" /\ j.phase = "judged" => StillValid(g, j.req.edge, j.req.arg)
    /\ \A i \in DOMAIN j.repairs : Listed(j.repairs[i])

CInv ==
  /\ Good(g)
  /\ now \in InitNow..MaxNow /\ edits \in 0..MaxEdits
  /\ \A x \in DOMAIN g.th : g.th[x].stamp <= now
  /\ tokens = [k \in TokenIds |-> tokens[k]] /\ \A k \in TokenIds : TokenOK(tokens[k])
  /\ job = [p \in Processes |-> job[p]] /\ \A p \in Processes : JobOK(job[p])

(***************************************************************************)
(* What a step keeps of the tokens and of the jobs it does not touch.      *)
(***************************************************************************)
Moves == Evolves(g, g', now) /\ now' \in Nat /\ now <= now'

\* Growing is one way to evolve.
LEMMA EvolvesGrows ==
  ASSUME NEW s, NEW n, NEW t, Store(s), Store(n), Grows(s, n, t)
  PROVE  Evolves(s, n, t)
<1>1. Unused(n) \subseteq Unused(s)
  BY UnusedLess DEF Grows
<1> QED BY <1>1 DEF Grows, Evolves

\* Nothing is another.
LEMMA EvolvesSame == ASSUME NEW s, NEW t PROVE Evolves(s, s, t)
BY DEF Evolves

\* A retype found valid stays so: no id is used again, no thought becomes a cluster.
LEMMA ValidStays ==
  ASSUME NEW s, NEW n, NEW t, Evolves(s, n, t), NEW e, NEW type, StillValid(s, e, type)
  PROVE  StillValid(n, e, type)
<1>1. e.s \notin Unused(n) /\ e.t \notin Unused(n)
  BY DEF Evolves, StillValid
<1>2. ASSUME Has(n, e.s), Has(n, e.t) PROVE ClusterRule(n, e.s, e.t, type)
  <2>1. Has(s, e.s) /\ Has(s, e.t)
    BY <1>2 DEF Has, Evolves, StillValid
  <2>2. IsCluster(n, e.s) = IsCluster(s, e.s) /\ IsCluster(n, e.t) = IsCluster(s, e.t)
    BY <1>2, <2>1 DEF Has, Evolves, IsCluster
  <2> QED BY <2>1, <2>2 DEF StillValid, ClusterRule
<1> QED BY <1>1, <1>2 DEF StillValid

\* What a preview held stays true of whatever is written since: a content that is new
\* has a stamp no older than the preview.
LEMMA HeldStays ==
  ASSUME NEW s, NEW n, NEW t \in Nat, Evolves(s, n, t), NEW at \in Nat, at <= t,
         NEW fp, NEW seen, NEW id, Held(s, fp, seen, id, at)
  PROVE  Held(n, fp, seen, id, at)
<1>1. CASE fp = <<"missing">> /\ seen = <<"missing">>
  BY <1>1 DEF Held
<1>2. CASE ~(fp = <<"missing">> /\ seen = <<"missing">>)
  <2>1. PICK content, status, stamp, prot :
          /\ fp = <<status, stamp, prot>> /\ seen = <<content, status, prot>>
          /\ stamp <= at /\ id \notin Unused(s)
          /\ Has(s, id) => s.th[id].content = content \/ s.th[id].stamp >= at
    BY <1>2 DEF Held
  <2>2. id \notin Unused(n)
    BY <2>1 DEF Evolves
  <2>3. ASSUME Has(n, id) PROVE n.th[id].content = content \/ n.th[id].stamp >= at
    <3>1. Has(s, id)
      BY <2>1, <2>3 DEF Has, Evolves
    <3>2. \/ n.th[id].content = s.th[id].content /\ n.th[id].stamp = s.th[id].stamp
          \/ n.th[id].stamp = t
      BY <2>3, <3>1 DEF Has, Evolves
    <3> QED BY <2>1, <3>1, <3>2
  <2> QED BY <2>1, <2>2, <2>3 DEF Held
<1> QED BY <1>1, <1>2

\* The clock.
LEMMA NowIs == ASSUME CInv PROVE now \in Nat /\ now \in Times
BY CurationAssumption DEF CInv, Times

\* A token nobody claims.
LEMMA TokenStays ==
  ASSUME CInv, Moves, NEW k \in TokenIds, tokens'[k] = tokens[k]
  PROVE  TokenOK(tokens[k])'
<1> PICK row : row = tokens[k]
  OBVIOUS
<1>1. TokenOK(row) /\ row = tokens'[k] /\ now \in Nat
  BY NowIs DEF CInv
<1>2. CASE row.state # "live"
  BY <1>1, <1>2 DEF TokenOK
<1>3. CASE row.state = "live"
  <2>1. /\ row.req \in Requests \/ row.req.kind \in EdgeKinds
        /\ row.at \in Nat /\ row.at <= now /\ row.at <= now'
    BY <1>1, <1>3 DEF TokenOK, Moves
  <2>2. ASSUME row.req.kind \in Fingerprinted, NEW i \in DOMAIN row.req.ids
        PROVE  Held(g', row.fp[i], row.seen[i], row.req.ids[i], row.at)
    <3>1. Held(g, row.fp[i], row.seen[i], row.req.ids[i], row.at)
      BY <1>1, <1>3, <2>2 DEF TokenOK
    <3> QED BY <1>1, <2>1, <3>1, HeldStays DEF Moves
  <2> QED BY <1>1, <1>3, <2>1, <2>2 DEF TokenOK
<1> QED BY <1>2, <1>3

\* A process that does nothing.
LEMMA JobStays ==
  ASSUME CInv, Moves, NEW p \in Processes, job'[p] = job[p],
         \A k \in TokenIds : tokens[k].state = "spent" => tokens'[k].state = "spent"
  PROVE  JobOK(job[p])'
<1> PICK j : j = job[p]
  OBVIOUS
<1>1. JobOK(j) /\ j = job'[p] /\ now \in Nat
  BY NowIs DEF CInv
<1>2. CASE j = Idle
  BY <1>1, <1>2 DEF JobOK, Idle
<1>3. CASE j # Idle
  <2>1. /\ JobRecord(j) /\ j.phase \in {"claimed", "judged", "read"}
        /\ j.req \in Requests \/ j.req.kind \in EdgeKinds
        /\ j.at \in Nat /\ j.at <= now'
        /\ j.tok # "none" => j.tok \in TokenIds /\ tokens'[j.tok].state = "spent"
        /\ WritesProject(j) => j.proj \in STRING
        /\ j.phase = "read" => /\ j.req.kind \in {"cluster", "auto_cluster"}
                              /\ IsFiniteSet(NextGroup(j))
        /\ \A i \in DOMAIN j.repairs : Listed(j.repairs[i])
    BY <1>1, <1>3 DEF JobOK, Moves
  <2>2. j.req.kind = "retype" /\ j.phase = "judged" => StillValid(g', j.req.edge, j.req.arg)
    BY <1>1, <1>3, ValidStays DEF JobOK, Moves
  <2> QED BY <1>1, <2>1, <2>2 DEF JobOK
<1> QED BY <1>2, <1>3

\* A step keeps the invariant if it keeps it of the store, of each token and of
\* each job.
LEMMA StepKeeps ==
  ASSUME CInv, Moves, Good(g'),
         now' \in InitNow..MaxNow, edits' \in 0..MaxEdits,
         tokens' = [k \in TokenIds |-> tokens'[k]], \A k \in TokenIds : TokenOK(tokens[k])',
         job' = [p \in Processes |-> job'[p]], \A p \in Processes : JobOK(job[p])'
  PROVE  CInv'
<1>1. \A x \in DOMAIN g'.th : g'.th[x].stamp <= now'
  <2> SUFFICES ASSUME NEW x \in DOMAIN g'.th PROVE g'.th[x].stamp <= now'
    OBVIOUS
  <2>1. now \in Nat /\ now' \in Nat /\ now <= now'
    BY NowIs DEF Moves
  <2>2. CASE x \in DOMAIN g.th
    <3>1. g.th[x].stamp <= now
      BY <2>2 DEF CInv
    <3>2. g.th[x] \in Rows
      BY <2>2 DEF CInv, Good, Store
    <3>3. g.th[x].stamp \in Nat
      BY SMTT(30), <3>2, CurationAssumption DEF Rows
    <3>4. g'.th[x].stamp = g.th[x].stamp \/ g'.th[x].stamp = now
      BY <2>2 DEF Moves, Evolves
    <3> QED BY <2>1, <3>1, <3>3, <3>4
  <2>3. CASE x \notin DOMAIN g.th
    BY <2>1, <2>3 DEF Moves, Evolves
  <2> QED BY <2>2, <2>3
<1> QED BY <1>1 DEF CInv

\* A write of the graph by the process p, which ends or goes on, if any does.
LEMMA WriteKeeps ==
  ASSUME CInv, Good(g'), Evolves(g, g', now),
         UNCHANGED <<tokens, now>>, edits' \in 0..MaxEdits,
         job' = [q \in Processes |-> job'[q]],
         \A q \in Processes : job'[q] = job[q] \/ JobOK(job[q])'
  PROVE  CInv'
<1>1. Moves
  BY NowIs DEF Moves
<1>2. \A k \in TokenIds : TokenOK(tokens[k])'
  BY <1>1, TokenStays
<1>3. ASSUME NEW q \in Processes PROVE JobOK(job[q])'
  <2>1. CASE job'[q] = job[q]
    BY <1>1, <2>1, JobStays
  <2> QED BY <2>1
<1>4. now' \in InitNow..MaxNow
      /\ tokens' = [k \in TokenIds |-> tokens'[k]]
      /\ Good(g')
  BY DEF CInv
<1> QED BY <1>1, <1>2, <1>3, <1>4, StepKeeps

\* A transaction that only adds and rewrites.
LEMMA GrowthIs ==
  ASSUME CInv, Good(g'), Grows(g, g', now)
  PROVE  Evolves(g, g', now)
BY EvolvesGrows DEF CInv, Good, Grows

\* A process with nothing to do.
LEMMA IdleOK == ASSUME NEW p, job'[p] = Idle PROVE JobOK(job[p])'
BY DEF JobOK, Idle

\* A plain write.
LEMMA EditKeeps ==
  ASSUME CInv, NEW n, Good(n), Grows(g, n, now), Edit(n)
  PROVE  CInv' /\ DOMAIN g.th \subseteq DOMAIN g'.th /\ job' = job
<1>1. Good(g') /\ Grows(g, g', now)
  BY CommittedGood DEF Edit
<1>2. Evolves(g, g', now)
  BY <1>1, GrowthIs
<1>3. edits' \in 0..MaxEdits
  BY CurationAssumption DEF Edit, CInv
<1>4. job' = [q \in Processes |-> job'[q]]
  BY DEF Edit, CInv
<1>5. CInv'
  BY <1>1, <1>2, <1>3, <1>4, WriteKeeps DEF Edit
<1> QED BY <1>1, <1>5 DEF Edit, Grows

\* A transaction of p, after which p is idle.
LEMMA FinishKeeps ==
  ASSUME CInv, NEW p \in Processes, Good(g'), Evolves(g, g', now),
         Finish(p), UNCHANGED <<tokens, now, edits>>
  PROVE  CInv'
<1>1. job' = [q \in Processes |-> job'[q]] /\ job'[p] = Idle
      /\ \A q \in Processes : q # p => job'[q] = job[q]
  BY DEF Finish, CInv
<1>2. \A q \in Processes : job'[q] = job[q] \/ JobOK(job[q])'
  BY <1>1, IdleOK
<1>3. edits' \in 0..MaxEdits
  BY DEF CInv
<1> QED BY <1>1, <1>2, <1>3, WriteKeeps

(***************************************************************************)
(* Plain writes.                                                           *)
(***************************************************************************)
Wrote == CInv' /\ DOMAIN g.th \subseteq DOMAIN g'.th /\ job' = job

\* memory_store create.
LEMMA CreateKeeps == ASSUME CInv, NEW c \in Creations, Create(c) PROVE Wrote
<1>1. now \in Times /\ Good(g) /\ CanCreate(g, 1) /\ NewThought(c.d)
  <2>1. c.d \in [content : STRING, proj : STRING, status : Statuses, prot : BOOLEAN,
                 cluster : BOOLEAN]
    BY CurationAssumption
  <2> QED BY <2>1, NowIs DEF CInv, Create, NewThought
<1> PICK n : n = CreateOne(g, c, now)
  OBVIOUS
<1>2. Good(n) /\ Grows(g, n, now)
  BY <1>1, CreateOneGood
<1>3. Edit(n)
  BY DEF Create
<1> QED BY <1>2, <1>3, EditKeeps DEF Wrote

\* memory_store bulk_create.
LEMMA CreateManyKeeps ==
  ASSUME CInv, NEW c1 \in BulkItems, NEW c2 \in BulkItems, CreateMany(c1, c2)
  PROVE  Wrote
<1> PICK A, items : A = {c1, c2} /\ items = <<c1, c2>>
  OBVIOUS
<1>1. items \in Seq(A) /\ Len(items) = 2
  OBVIOUS
<1>2. now \in Times /\ Good(g) /\ CanCreate(g, Len(items))
  BY <1>1, NowIs DEF CInv, CreateMany
<1>3. \A c \in A : NewThought(c.d)
  <2>1. \A c \in {c1, c2} :
          c.d \in [content : STRING, proj : STRING, status : Statuses, prot : BOOLEAN,
                   cluster : BOOLEAN]
    BY CurationAssumption
  <2> QED BY <2>1 DEF NewThought
<1> PICK n : n = BulkCreate(g, items, now)
  OBVIOUS
<1>4. Good(n) /\ Grows(g, n, now)
  BY <1>1, <1>2, <1>3, BulkCreateGood
<1>5. Edit(n)
  BY DEF CreateMany
<1> QED BY <1>4, <1>5, EditKeeps DEF Wrote

\* An edit that updates one thought.
LEMMA RewriteKeeps ==
  ASSUME CInv, NEW id, NEW d, Given(d), NEW n,
         n = UpdateThought(g, id, d, now).g, Edit(n)
  PROVE  Wrote
<1> PICK r : r = UpdateThought(g, id, d, now)
  OBVIOUS
<1>1. now \in Times /\ Good(g)
  BY NowIs DEF CInv
<1>2. Rewrote(g, r, id, now)
  BY <1>1, UpdateGood
<1> QED BY <1>2, EditKeeps DEF Wrote, Rewrote

\* memory_store update.
LEMMA UpdateKeeps == ASSUME CInv, NEW id, NEW d \in Updates, Update(id, d) PROVE Wrote
<1>1. Given(d)
  BY CurationAssumption DEF Given
<1>2. Edit(UpdateThought(g, id, d, now).g)
  BY DEF Update
<1> QED BY <1>1, <1>2, RewriteKeeps

\* retention_review protect.
LEMMA ProtectKeeps == ASSUME CInv, NEW id, Protect(id) PROVE Wrote
<1> DEFINE d == [prot |-> TRUE]
<1>1. Given(d)
  BY DEF Given
<1>2. Edit(UpdateThought(g, id, d, now).g)
  BY DEF Protect
<1> HIDE DEF d
<1> QED BY <1>1, <1>2, RewriteKeeps

\* memory_store link and link_batch.
LEMMA LinkAllKeeps ==
  ASSUME CInv, NEW A, NEW links \in Seq(A), LinkAll(links)
  PROVE  Wrote
<1> PICK n : n = LinkBatch(g, links)
  OBVIOUS
<1>1. Good(n) /\ Grows(g, n, now)
  BY LinkBatchGood DEF CInv
<1>2. Edit(n)
  BY DEF LinkAll
<1> QED BY <1>1, <1>2, EditKeeps DEF Wrote

\* memory_store unlink_batch.
LEMMA UnlinkAllKeeps == ASSUME CInv, NEW edges, UnlinkAll(edges) PROVE Wrote
<1> PICK n : n = UnlinkBatch(g, edges)
  OBVIOUS
<1>1. Good(n) /\ Grows(g, n, now)
  <2>1. CASE n = g
    BY <2>1, GrowsSame DEF CInv, Good
  <2>2. CASE n = [g EXCEPT !.ed = @ \ ToSet(edges)]
    <3> PICK E : E = g.ed \ ToSet(edges)
      OBVIOUS
    <3>1. n = [g EXCEPT !.ed = E] /\ E \subseteq g.ed
      BY <2>2
    <3>2. Good(g)
      BY DEF CInv
    <3> QED BY ONLY <3>1, <3>2, EdgesGood
  <2> QED BY <2>1, <2>2 DEF UnlinkBatch
<1>2. Edit(n)
  BY DEF UnlinkAll
<1> QED BY <1>1, <1>2, EditKeeps DEF Wrote

\* The project a cluster of thoughts there are is put in.
LEMMA ClusterProjectIs ==
  ASSUME CInv, NEW members, members \subseteq DOMAIN g.th
  PROVE  ClusterProject(members) \in STRING /\ IsFiniteSet(members)
<1> DEFINE projs == {g.th[x].proj : x \in members}
<1>1. IsFiniteSet(members)
  BY FS_Subset DEF CInv, Good, Store
<1>2. projs \subseteq STRING /\ DefaultProject \in STRING
  <2>1. g.th \in [DOMAIN g.th -> Rows]
    BY DEF CInv, Good, Store
  <2> QED BY <2>1, CurationAssumption DEF Rows
<1>3. ClusterProject(members) = IF Cardinality(projs) = 1 THEN CHOOSE q \in projs : TRUE
                                ELSE DefaultProject
  BY DEF ClusterProject
<1> HIDE DEF projs
<1>4. CASE Cardinality(projs) = 1
  <2>1. projs # {}
    BY <1>4, FS_EmptySet
  <2> QED BY <1>1, <1>2, <1>3, <1>4, <2>1
<1> QED BY <1>1, <1>2, <1>3, <1>4

\* A write of columns no rule is about.
LEMMA TouchKeeps ==
  ASSUME CInv, NEW F \in [DOMAIN g.th -> Rows],
         \A x \in DOMAIN g.th :
           /\ F[x].cluster = g.th[x].cluster /\ F[x].content = g.th[x].content
           /\ F[x].stamp = g.th[x].stamp /\ F[x].hash = g.th[x].hash
           /\ F[x].proj = g.th[x].proj /\ F[x].status = g.th[x].status,
         NEW n, n = [g EXCEPT !.th = F], Edit(n)
  PROVE  Wrote
<1> PICK s : s = g
  OBVIOUS
<1>1. Good(s)
  BY DEF CInv
<1>2. Good(n) /\ Grows(s, n, now)
  BY <1>1, TouchGood
<1> QED BY <1>2, EditKeeps DEF Wrote

\* updatePrimerHits.
LEMMA SearchHitKeeps == ASSUME CInv, NEW id, SearchHit(id) PROVE Wrote
<1> PICK th : th = g.th
  OBVIOUS
<1>1. th \in [DOMAIN th -> Rows] /\ id \in DOMAIN th
  BY DEF CInv, Good, Store, SearchHit, Has
<1> DEFINE row == [th[id] EXCEPT !.hit = TRUE]
           F == [th EXCEPT ![id] = row]
<1>2. /\ row \in Rows /\ row.cluster = th[id].cluster /\ row.content = th[id].content
      /\ row.stamp = th[id].stamp /\ row.hash = th[id].hash
      /\ row.proj = th[id].proj /\ row.status = th[id].status
  <2>1. th[id] \in Rows
    BY <1>1
  <2> PICK w, v : w = th[id] /\ v = row
    OBVIOUS
  <2>2. w \in Rows /\ v = [w EXCEPT !.hit = TRUE]
    BY <2>1
  <2>3. /\ v \in Rows /\ v.cluster = w.cluster /\ v.content = w.content
        /\ v.stamp = w.stamp /\ v.hash = w.hash /\ v.proj = w.proj /\ v.status = w.status
    BY ONLY <2>2 DEF Rows
  <2> QED BY <2>3
<1> PICK n : n = [g EXCEPT !.th[id].hit = TRUE]
  OBVIOUS
<1>3. n = [g EXCEPT !.th = F]
  OBVIOUS
<1> HIDE DEF row
<1>4. F \in [DOMAIN th -> Rows] /\ \A x \in DOMAIN th : F[x] = IF x = id THEN row ELSE th[x]
  BY <1>1, <1>2
<1> HIDE DEF F
<1>5. Edit(n)
  BY DEF SearchHit
<1> QED BY <1>2, <1>3, <1>4, <1>5, TouchKeeps

\* decayImportance.
LEMMA DecayKeeps == ASSUME CInv, Decay PROVE Wrote
<1> PICK th : th = g.th
  OBVIOUS
<1>1. th \in [DOMAIN th -> Rows]
  BY DEF CInv, Good, Store
<1> DEFINE Less(row) == [row EXCEPT !.imp = IF @ > 0 THEN @ - 1 ELSE 0]
<1>2. ASSUME NEW row \in Rows
      PROVE  /\ Less(row) \in Rows
             /\ Less(row).cluster = row.cluster /\ Less(row).content = row.content
             /\ Less(row).stamp = row.stamp /\ Less(row).hash = row.hash
             /\ Less(row).proj = row.proj /\ Less(row).status = row.status
  <2> PICK imp : imp = IF row.imp > 0 THEN row.imp - 1 ELSE 0
    OBVIOUS
  <2>1. imp \in 0..MaxImp
    BY CurationAssumption DEF Rows
  <2>2. Less(row) = [row EXCEPT !.imp = imp]
    OBVIOUS
  <2> HIDE DEF Less
  <2> QED BY <2>1, <2>2 DEF Rows
<1> DEFINE G == [x \in DOMAIN g.th |-> Less(g.th[x])]
<1>3. Edit([g EXCEPT !.th = G])
  BY DEF Decay
<1> HIDE DEF Less
<1>4. DOMAIN G = DOMAIN th /\ G = [x \in DOMAIN G |-> G[x]]
      /\ \A x \in DOMAIN th : G[x] = Less(th[x])
  OBVIOUS
<1> HIDE DEF G
<1> PICK F : F = G
  OBVIOUS
<1>5. ASSUME NEW x \in DOMAIN th
      PROVE  /\ F[x] \in Rows
             /\ F[x].cluster = th[x].cluster /\ F[x].content = th[x].content
             /\ F[x].stamp = th[x].stamp /\ F[x].hash = th[x].hash
             /\ F[x].proj = th[x].proj /\ F[x].status = th[x].status
  <2>1. th[x] \in Rows /\ F[x] = Less(th[x])
    BY <1>1, <1>4
  <2> QED BY <1>2, <2>1
<1>6. F \in [DOMAIN th -> Rows]
  BY <1>4, <1>5
<1> QED BY <1>3, <1>5, <1>6, TouchKeeps

\* Every plain write.
LEMMA WriteIs == ASSUME CInv, Write PROVE Wrote
<1>1. ASSUME NEW l1 \in Links, NEW l2 \in Links
      PROVE  <<l1>> \in Seq(Links) /\ <<l1, l2>> \in Seq(Links)
  OBVIOUS
<1>2. CASE \E c \in Creations : Create(c)
  BY <1>2, CreateKeeps
<1>3. CASE \E c1, c2 \in BulkItems : CreateMany(c1, c2)
  BY <1>3, CreateManyKeeps
<1>4. CASE \E id \in DOMAIN g.th, d \in Updates : Update(id, d)
  BY <1>4, UpdateKeeps
<1>5. CASE \E l \in Links : LinkAll(<<l>>)
  BY <1>1, <1>5, LinkAllKeeps
<1>6. CASE \E l1, l2 \in Links : LinkAll(<<l1, l2>>)
  BY <1>1, <1>6, LinkAllKeeps
<1>7. CASE \E e1, e2 \in g.ed : UnlinkAll(<<e1, e2>>)
  BY <1>7, UnlinkAllKeeps
<1>8. CASE \E id \in DOMAIN g.th : Protect(id) \/ SearchHit(id)
  BY <1>8, ProtectKeeps, SearchHitKeeps
<1>9. CASE Decay
  BY <1>9, DecayKeeps
<1> QED BY <1>2, <1>3, <1>4, <1>5, <1>6, <1>7, <1>8, <1>9 DEF Write

(***************************************************************************)
(* Steps that leave the graph.                                             *)
(***************************************************************************)
LEMMA StillKeeps ==
  ASSUME CInv, UNCHANGED g, now' \in InitNow..MaxNow, now <= now',
         edits' \in 0..MaxEdits, tokens' = [k \in TokenIds |-> tokens'[k]],
         \A k \in TokenIds : tokens'[k] = tokens[k] \/ TokenOK(tokens[k])',
         \A k \in TokenIds : tokens[k].state = "spent" => tokens'[k].state = "spent",
         job' = [q \in Processes |-> job'[q]],
         \A q \in Processes : job'[q] = job[q] \/ JobOK(job[q])'
  PROVE  CInv'
<1>1. Moves
  <2>1. Evolves(g, g', now)
    BY EvolvesSame
  <2> QED BY <2>1, CurationAssumption DEF Moves
<1>2. \A k \in TokenIds : TokenOK(tokens[k])'
  BY <1>1, TokenStays
<1>3. ASSUME NEW q \in Processes PROVE JobOK(job[q])'
  <2>1. CASE job'[q] = job[q]
    BY <1>1, <2>1, JobStays
  <2> QED BY <2>1
<1>4. Good(g')
  BY DEF CInv
<1> QED BY <1>1, <1>2, <1>3, <1>4, StepKeeps

\* The clock goes on.
LEMMA TickKeeps == ASSUME CInv, Tick PROVE CInv'
<1>1. now' \in InitNow..MaxNow /\ now <= now'
  BY CurationAssumption DEF Tick, CInv
<1>2. edits' \in 0..MaxEdits /\ UNCHANGED <<g, tokens, job>>
      /\ tokens' = [k \in TokenIds |-> tokens'[k]] /\ job' = [q \in Processes |-> job'[q]]
  BY DEF Tick, CInv
<1>3. /\ \A k \in TokenIds : tokens'[k] = tokens[k]
      /\ \A k \in TokenIds : tokens[k].state = "spent" => tokens'[k].state = "spent"
      /\ \A q \in Processes : job'[q] = job[q]
  BY <1>2
<1> QED BY <1>1, <1>2, <1>3, StillKeeps

\* What a preview holds of a thought.
LEMMA HeldNow ==
  ASSUME CInv, NEW id
  PROVE  Held(g, ThoughtFingerprint(id), Seen(id), id, now)
<1>1. CASE Has(g, id)
  <2> PICK row : row = g.th[id]
    OBVIOUS
  <2>1. row.stamp <= now /\ id \notin Unused(g)
    BY <1>1 DEF CInv, Good, Has
  <2>2. /\ ThoughtFingerprint(id) = <<row.status, row.stamp, row.prot>>
        /\ Seen(id) = <<row.content, row.status, row.prot>>
    BY <1>1 DEF ThoughtFingerprint, Seen
  <2> QED BY <2>1, <2>2 DEF Held
<1>2. CASE ~Has(g, id)
  BY <1>2 DEF ThoughtFingerprint, Seen, Held
<1> QED BY <1>1, <1>2

\* The fingerprint of a request has the one of each thought it names.
LEMMA FingerprintIs ==
  ASSUME NEW r \in Requests, r.kind \in Fingerprinted, NEW i \in DOMAIN r.ids
  PROVE  Fingerprint(r)[i] = ThoughtFingerprint(r.ids[i])
<1>1. CASE r.kind \in {"archive", "archive_batch"}
  BY <1>1 DEF Fingerprint
<1>2. CASE r.kind = "merge"
  <2>1. i = 1 \/ i = 2
    BY <1>2, CurationAssumption
  <2>2. Fingerprint(r) = <<ThoughtFingerprint(r.ids[1]), ThoughtFingerprint(r.ids[2]), r.arg,
                           r.proj>>
    BY <1>2 DEF Fingerprint
  <2> QED BY <2>1, <2>2
<1> QED BY <1>1, <1>2 DEF Fingerprinted

\* What a token can be for.
LEMMA CallableIs == ASSUME NEW r \in Callable PROVE r \in Requests \/ r.kind \in EdgeKinds
BY DEF Callable, EdgeRequests, EdgeKinds

\* A preview writes its token alone, and holds what it shows.
LEMMA PreviewKeeps ==
  ASSUME CInv, NEW k \in TokenIds, NEW r \in Callable, Preview(k, r)
  PROVE  CInv' /\ UNCHANGED <<g, job>>
<1> PICK seen : seen = [i \in DOMAIN r.ids |-> Seen(r.ids[i])]
  OBVIOUS
<1> PICK row : row = [state |-> "live", req |-> r, fp |-> Fingerprint(r), exp |-> now + TokenTTL,
                      at |-> now, seen |-> seen]
  OBVIOUS
<1>1. row.state = "live" /\ row.req = r /\ row.fp = Fingerprint(r) /\ row.at = now
      /\ row.seen = seen
  OBVIOUS
<1>2. tokens' = [tokens EXCEPT ![k] = row] /\ tokens[k].state = "none"
      /\ UNCHANGED <<g, job, now, edits>>
  BY DEF Preview
<1>3. tokens'[k] = row /\ \A c \in TokenIds : c # k => tokens'[c] = tokens[c]
  BY <1>2 DEF CInv
<1>4. TokenOK(tokens[k])'
  <2>1. ASSUME r.kind \in Fingerprinted, NEW i \in DOMAIN r.ids
        PROVE  Held(g, row.fp[i], row.seen[i], r.ids[i], now)
    <3>1. r \in Requests
      BY <2>1, CallableIs DEF EdgeKinds, Fingerprinted
    <3>2. row.fp[i] = ThoughtFingerprint(r.ids[i]) /\ row.seen[i] = Seen(r.ids[i])
      BY <1>1, <2>1, <3>1, FingerprintIs
    <3> QED BY <3>2, HeldNow
  <2>2. now' = now /\ now \in Nat /\ g' = g
    BY <1>2, NowIs
  <2>3. r \in Requests \/ r.kind \in EdgeKinds
    BY CallableIs
  <2> QED BY ONLY <1>1, <1>3, <2>1, <2>2, <2>3 DEF TokenOK
<1>5. now' \in InitNow..MaxNow /\ now <= now' /\ edits' \in 0..MaxEdits
      /\ tokens' = [c \in TokenIds |-> tokens'[c]] /\ job' = [q \in Processes |-> job'[q]]
  <2>1. now' \in InitNow..MaxNow /\ now <= now' /\ edits' \in 0..MaxEdits
    BY ONLY <1>2, CInv, CurationAssumption DEF CInv
  <2> QED BY ONLY <1>2, <2>1, CInv DEF CInv
<1>6. \A c \in TokenIds : tokens[c].state = "spent" => tokens'[c].state = "spent"
  BY <1>2, <1>3
<1> QED BY <1>2, <1>3, <1>4, <1>5, <1>6, StillKeeps

\* What the checks of a report found is finite.
LEMMA RepairListIs ==
  ASSUME NEW s, Store(s), NEW i \in DOMAIN RepairList(s)
  PROVE  Listed(RepairList(s)[i])
<1>1. \A S : S \subseteq s.ed \/ S \subseteq DOMAIN s.th => IsFiniteSet(S)
  BY FS_Subset DEF Store
<1>2. /\ OrphanEdges(s) \subseteq s.ed /\ SelfLoopEdges(s) \subseteq s.ed
      /\ OrphanedClusterMembers(s) \subseteq s.ed /\ ArchivedParentEdges(s) \subseteq s.ed
      /\ EmptyClusters(s) \subseteq DOMAIN s.th /\ TestRemnants(s) \subseteq DOMAIN s.th
  BY DEF OrphanEdges, SelfLoopEdges, OrphanedClusterMembers, ArchivedParentEdges,
         BrokenParentChains, OfType, EmptyClusters, LiveClusters, TestRemnants, Live
<1>3. \A check, found : found \subseteq s.ed \/ found \subseteq DOMAIN s.th =>
        Listed([check |-> check, found |-> found])
  BY <1>1 DEF Listed
<1>4. i \in 1..6
  BY DEF RepairList
<1>5. i = 1 \/ i = 2 \/ i = 3 \/ i = 4 \/ i = 5 \/ i = 6
  BY <1>4
<1>6. CASE i = 1
  BY <1>2, <1>3, <1>6 DEF RepairList
<1>7. CASE i = 2
  BY <1>2, <1>3, <1>7 DEF RepairList
<1>8. CASE i = 3
  BY <1>2, <1>3, <1>8 DEF RepairList
<1>9. CASE i = 4
  BY <1>2, <1>3, <1>9 DEF RepairList
<1>10. CASE i = 5
  BY <1>2, <1>3, <1>10 DEF RepairList
<1>11. CASE i = 6
  BY <1>2, <1>3, <1>11 DEF RepairList
<1> QED BY <1>5, <1>6, <1>7, <1>8, <1>9, <1>10, <1>11

\* A confirm begins: its token is spent, its job is the token's request.
LEMMA ClaimKeeps ==
  ASSUME CInv, NEW p \in Processes, NEW k \in TokenIds, NEW r \in Callable, Claim(p, k, r)
  PROVE  CInv' /\ g' = g /\ \A q \in Processes : job'[q] = job[q] \/ (q = p /\ job[p] = Idle)
<1>1. /\ job[p] = Idle /\ tokens[k].state = "live" /\ Admitted(r)
      /\ tokens' = [tokens EXCEPT ![k] = SpentToken]
      /\ job' = [job EXCEPT ![p] = Started(k, r)] \/ job' = job
      /\ UNCHANGED <<g, now, edits>>
  BY DEF Claim, Consumed
<1>2. /\ tokens'[k] = SpentToken /\ \A c \in TokenIds : c # k => tokens'[c] = tokens[c]
      /\ \A q \in Processes : q # p => job'[q] = job[q]
      /\ job'[p] = Started(k, r) \/ job'[p] = job[p]
      /\ tokens' = [c \in TokenIds |-> tokens'[c]] /\ job' = [q \in Processes |-> job'[q]]
  BY <1>1 DEF CInv
<1>3. TokenOK(tokens[k])'
  BY <1>2 DEF TokenOK, SpentToken
<1>4. ASSUME job'[p] = Started(k, r) PROVE JobOK(job[p])'
  <2> PICK j : j = Started(k, r)
    OBVIOUS
  <2>1. /\ JobRecord(j) /\ j.phase \in {"claimed", "judged"} /\ j.req = r /\ j.at = now /\ j.tok = k
        /\ r.kind \in {"merge", "retype"} => j.phase = "claimed"
        /\ j.repairs = (IF r.kind = "health_repair" THEN RepairList(g) ELSE <<>>)
    BY DEF Started, JobRecord
  <2>2. \A i \in DOMAIN j.repairs : Listed(j.repairs[i])
    <3>1. CASE r.kind = "health_repair"
      BY <2>1, <3>1, RepairListIs DEF CInv, Good
    <3>2. CASE r.kind # "health_repair"
      BY <2>1, <3>2
    <3> QED BY <3>1, <3>2
  <2>3. tokens'[k].state = "spent"
    BY <1>2 DEF SpentToken
  <2>4. now' = now /\ now \in Nat
    BY <1>1, NowIs
  <2>5. r \in Requests \/ r.kind \in EdgeKinds
    BY CallableIs
  <2>6. ~WritesProject(j) /\ j.phase # "read" /\ ~(r.kind = "retype" /\ j.phase = "judged")
    BY ONLY <2>1 DEF WritesProject
  <2>7. job'[p] = j
    BY <1>4
  <2> QED BY ONLY <2>1, <2>2, <2>3, <2>4, <2>5, <2>6, <2>7, k \in TokenIds DEF JobOK
<1>5. now' \in InitNow..MaxNow /\ now <= now' /\ edits' \in 0..MaxEdits
  BY <1>1, CurationAssumption DEF CInv
<1>6. \A c \in TokenIds : tokens[c].state = "spent" => tokens'[c].state = "spent"
  BY <1>2 DEF SpentToken
<1>7. \A c \in TokenIds : tokens'[c] = tokens[c] \/ TokenOK(tokens[c])'
  BY <1>2, <1>3
<1>8. \A q \in Processes : job'[q] = job[q] \/ JobOK(job[q])'
  BY <1>2, <1>4
<1>9. UNCHANGED g
  BY <1>1
<1>10. CInv'
  BY <1>2, <1>5, <1>6, <1>7, <1>8, <1>9, StillKeeps
<1> QED BY <1>1, <1>2, <1>10

\* The state is good, and p's job is j.
Passed(p, j) == CInv' /\ \A q \in Processes : job'[q] = IF q = p THEN j ELSE job[q]

\* p goes on to what it does next, or gives up; nothing else happens.
LEMMA JobKeeps ==
  ASSUME CInv, NEW p \in Processes, UNCHANGED <<g, tokens, now>>,
         edits' \in 0..MaxEdits, NEW j, job' = [job EXCEPT ![p] = j], JobOK(job[p])'
  PROVE  Passed(p, j)
<1>1. /\ \A q \in Processes : job'[q] = IF q = p THEN j ELSE job[q]
      /\ job' = [q \in Processes |-> job'[q]] /\ tokens' = [c \in TokenIds |-> tokens'[c]]
  BY DEF CInv
<1>2. \A c \in TokenIds : tokens'[c] = tokens[c]
  OBVIOUS
<1>3. \A c \in TokenIds : tokens[c].state = "spent" => tokens'[c].state = "spent"
  OBVIOUS
<1>4. \A q \in Processes : job'[q] = job[q] \/ JobOK(job[q])'
  BY <1>1
<1>5. now' \in InitNow..MaxNow /\ now <= now'
  BY CurationAssumption DEF CInv
<1> QED BY <1>1, <1>2, <1>3, <1>4, <1>5, StillKeeps DEF Passed

\* What a service reads before its transaction: p passes with j or gives up.
LEMMA JudgedKeeps ==
  ASSUME CInv, NEW p \in Processes, job[p] # Idle, NEW j, JobRecord(j), j.req = job[p].req,
         j.tok = job[p].tok, j.repairs = job[p].repairs, j.at \in Nat, j.at <= now,
         NEW passes \in BOOLEAN,
         passes /\ j.req.kind = "merge" => j.proj \in STRING,
         passes /\ j.req.kind = "retype" => StillValid(g, j.req.edge, j.req.arg),
         JudgedOr(p, passes, j), UNCHANGED <<g, tokens, now, edits>>
  PROVE  CInv' /\ g' = g /\ \A q \in Processes : job'[q] = job[q] \/ (q = p /\ job[p] # Idle)
<1>1. JobOK(job[p]) /\ edits' \in 0..MaxEdits
  BY DEF CInv
<1>2. CASE passes
  <2> PICK n : n = [j EXCEPT !.phase = "judged"]
    OBVIOUS
  <2>1. /\ JobRecord(n) /\ n.phase = "judged" /\ n.req = j.req /\ n.tok = j.tok /\ n.at = j.at
        /\ n.proj = j.proj /\ n.repairs = j.repairs
    BY DEF JobRecord
  <2>2. job' = [job EXCEPT ![p] = n]
    BY <1>2 DEF JudgedOr
  <2>3. job'[p] = n
    BY <2>2 DEF CInv
  <2>4. /\ n.req \in Requests \/ n.req.kind \in EdgeKinds
        /\ n.tok # "none" => n.tok \in TokenIds /\ tokens'[n.tok].state = "spent"
        /\ \A i \in DOMAIN n.repairs : Listed(n.repairs[i])
    BY <1>1, <2>1 DEF JobOK
  <2>5. JobOK(job[p])'
    BY <1>2, <2>1, <2>3, <2>4 DEF JobOK, WritesProject
  <2>6. Passed(p, n)
    BY <1>1, <2>2, <2>5, JobKeeps
  <2> QED BY <2>6 DEF Passed
<1>3. CASE ~passes
  <2>1. job' = [job EXCEPT ![p] = Idle]
    BY <1>3 DEF JudgedOr
  <2>2. job'[p] = Idle
    BY <2>1 DEF CInv
  <2>3. JobOK(job[p])'
    BY <2>2, IdleOK
  <2>4. Passed(p, Idle)
    BY <1>1, <2>1, <2>3, JobKeeps
  <2> QED BY <2>4 DEF Passed
<1> QED BY <1>2, <1>3

\* What a process at work is in the middle of.
LEMMA BusyIs ==
  ASSUME CInv, NEW p \in Processes, job[p].phase # "idle"
  PROVE  JobOK(job[p]) /\ job[p] # Idle /\ JobRecord(job[p])
BY DEF CInv, JobOK, Idle

Judged(p) == CInv' /\ g' = g /\ \A q \in Processes : job'[q] = job[q] \/ (q = p /\ job[p] # Idle)

\* What mergeThoughtsService reads before its transaction.
LEMMA JudgeMergeKeeps == ASSUME CInv, NEW p \in Processes, JudgeMerge(p) PROVE Judged(p)
<1>1. JobOK(job[p]) /\ job[p] # Idle /\ JobRecord(job[p])
  BY BusyIs DEF JudgeMerge, Judging
<1> PICK b, src, tgt : b = job[p] /\ src = b.req.ids[1] /\ tgt = b.req.ids[2]
  OBVIOUS
<1> PICK fit : fit = (/\ src # tgt /\ Has(g, src) /\ Has(g, tgt)
                      /\ g.th[src].status # "archived")
  OBVIOUS
<1> PICK proj : proj = IF b.req.proj # "none" THEN b.req.proj
                      ELSE IF fit THEN g.th[tgt].proj ELSE b.proj
  OBVIOUS
<1> PICK j : j = [b EXCEPT !.proj = proj]
  OBVIOUS
<1>2. JudgedOr(p, fit, j) /\ UNCHANGED <<g, tokens, now, edits>>
  BY DEF JudgeMerge
<1>3. /\ JobRecord(j) /\ j.req = b.req /\ j.tok = b.tok /\ j.repairs = b.repairs
      /\ j.at = b.at /\ j.proj = proj
  BY <1>1 DEF JobRecord
<1>4. j.at \in Nat /\ j.at <= now /\ b.req.kind = "merge"
  BY <1>1, <1>3 DEF JobOK, JudgeMerge, Judging
<1>5. fit \in BOOLEAN
  OBVIOUS
<1>6. fit /\ j.req.kind = "merge" => j.proj \in STRING
  <2>1. b.req.proj \in STRING
    BY <1>1, <1>4, CurationAssumption DEF JobOK, EdgeKinds
  <2>2. fit => g.th[tgt] \in Rows
    BY DEF CInv, Good, Store, Has
  <2>3. fit => g.th[tgt].proj \in STRING
    BY <2>2 DEF Rows
  <2> QED BY <1>3, <2>1, <2>3
<1>7. fit /\ j.req.kind = "retype" => StillValid(g, j.req.edge, j.req.arg)
  BY <1>3, <1>4
<1>8. fit \in BOOLEAN /\ j.req = job[p].req /\ j.tok = job[p].tok /\ j.repairs = job[p].repairs
  BY <1>3, <1>5
<1>9. JobRecord(j) /\ j.at \in Nat /\ j.at <= now
  BY <1>3, <1>4
<1> QED BY ONLY CInv, p \in Processes, <1>1, <1>2, <1>6, <1>7, <1>8, <1>9, JudgedKeeps DEF Judged

\* What the retention deletion reads.
LEMMA JudgeRetentionDeleteKeeps ==
  ASSUME CInv, NEW p \in Processes, JudgeRetentionDelete(p) PROVE Judged(p)
<1>1. JobOK(job[p]) /\ job[p] # Idle /\ JobRecord(job[p])
  BY BusyIs DEF JudgeRetentionDelete, Judging
<1> PICK b, fit, j : b = job[p] /\ fit = Eligible(g, b.req.ids[1], now) /\ j = [b EXCEPT !.at = now]
  OBVIOUS
<1>2. JudgedOr(p, fit, j) /\ UNCHANGED <<g, tokens, now, edits>>
  BY DEF JudgeRetentionDelete
<1>3. /\ JobRecord(j) /\ j.req = b.req /\ j.tok = b.tok /\ j.repairs = b.repairs /\ j.at = now
  BY <1>1 DEF JobRecord
<1>4. now \in Nat /\ b.req.kind = "retention_delete" /\ fit \in BOOLEAN
  BY NowIs DEF JudgeRetentionDelete, Judging, Eligible
<1>5. /\ fit /\ j.req.kind = "merge" => j.proj \in STRING
      /\ fit /\ j.req.kind = "retype" => StillValid(g, j.req.edge, j.req.arg)
  BY <1>3, <1>4
<1>6. JobRecord(j) /\ j.at \in Nat /\ j.at <= now /\ fit \in BOOLEAN
      /\ j.req = job[p].req /\ j.tok = job[p].tok /\ j.repairs = job[p].repairs
  BY <1>3, <1>4
<1> QED BY ONLY CInv, p \in Processes, <1>1, <1>2, <1>5, <1>6, JudgedKeeps DEF Judged

\* What retypeEdge reads: the retype it goes on with is valid.
LEMMA JudgeRetypeKeeps == ASSUME CInv, NEW p \in Processes, JudgeRetype(p) PROVE Judged(p)
<1>1. JobOK(job[p]) /\ job[p] # Idle /\ JobRecord(job[p])
  BY BusyIs DEF JudgeRetype, Judging
<1> PICK b, e, type : b = job[p] /\ e = b.req.edge /\ type = b.req.arg
  OBVIOUS
<1> PICK fit : fit = (e \in g.ed /\ Retypable(g, e, type))
  OBVIOUS
<1>2. JudgedOr(p, fit, b) /\ UNCHANGED <<g, tokens, now, edits>>
  BY DEF JudgeRetype
<1>3. b.at \in Nat /\ b.at <= now /\ b.req.kind = "retype" /\ fit \in BOOLEAN
  BY <1>1 DEF JobOK, JudgeRetype, Judging
<1>4. fit => StillValid(g, e, type)
  BY DEF CInv, Good, EdgesSound, Has, Retypable, StillValid
<1> QED BY <1>1, <1>2, <1>3, <1>4, JudgedKeeps DEF Judged

\* What the clustering job reads.
LEMMA JudgeAutoClusterKeeps ==
  ASSUME CInv, NEW p \in Processes, JudgeAutoCluster(p) PROVE Judged(p)
<1>1. JobOK(job[p]) /\ job[p] # Idle /\ JobRecord(job[p])
  BY BusyIs DEF JudgeAutoCluster, Judging
<1> PICK b, fit, j : b = job[p] /\ fit = (Groups(Candidates) # {})
                     /\ j = [b EXCEPT !.groups = Groups(Candidates)]
  OBVIOUS
<1>2. JudgedOr(p, fit, j) /\ UNCHANGED <<g, tokens, now, edits>>
  BY DEF JudgeAutoCluster
<1>3. /\ JobRecord(j) /\ j.req = b.req /\ j.tok = b.tok /\ j.repairs = b.repairs /\ j.at = b.at
  BY <1>1 DEF JobRecord
<1>4. j.at \in Nat /\ j.at <= now /\ b.req.kind = "auto_cluster" /\ fit \in BOOLEAN
  BY <1>1, <1>3 DEF JobOK, JudgeAutoCluster, Judging
<1> QED BY <1>1, <1>2, <1>3, <1>4, JudgedKeeps DEF Judged

\* What is about to run.
LEMMA ReadyIs ==
  ASSUME CInv, NEW p \in Processes, NEW kind, Ready(p, kind)
  PROVE  /\ JobOK(job[p]) /\ job[p] # Idle /\ JobRecord(job[p])
         /\ job[p].phase = "judged" /\ job[p].req.kind = kind
         /\ kind \notin EdgeKinds => job[p].req \in Requests
BY BusyIs DEF Ready, JobOK

\* What the service that makes a cluster reads of a group.
LEMMA ReadGroupKeeps == ASSUME CInv, NEW p \in Processes, ReadGroup(p) PROVE Judged(p)
<1>1. /\ JobOK(job[p]) /\ job[p] # Idle /\ JobRecord(job[p])
      /\ job[p].req.kind = "auto_cluster" /\ job[p].req \in Requests
  BY ReadyIs DEF ReadGroup, EdgeKinds
<1> PICK b, group : b = job[p] /\ group = NextGroup(b)
  OBVIOUS
<1> PICK j : j = IF group \subseteq DOMAIN g.th THEN ReadMembers(b) ELSE Idle
  OBVIOUS
<1>2. job' = [job EXCEPT ![p] = j] /\ UNCHANGED <<g, tokens, now, edits>>
  BY DEF ReadGroup
<1>3. job'[p] = j /\ edits' \in 0..MaxEdits
  BY <1>2 DEF CInv
<1>4. JobOK(job[p])'
  <2>1. CASE group \subseteq DOMAIN g.th
    <3>1. ClusterProject(group) \in STRING /\ IsFiniteSet(group) /\ b.req.proj \in STRING
      BY <1>1, <2>1, ClusterProjectIs, CurationAssumption
    <3>2. /\ JobRecord(j) /\ j.phase = "read" /\ j.req = b.req /\ j.tok = b.tok /\ j.at = b.at
          /\ j.proj \in STRING /\ j.groups = b.groups /\ j.repairs = b.repairs
      BY <1>1, <2>1, <3>1 DEF ReadMembers, JobRecord
    <3>3. IsFiniteSet(NextGroup(j))
      BY <3>1, <3>2 DEF NextGroup
    <3> QED BY <1>1, <1>2, <1>3, <3>2, <3>3 DEF JobOK
  <2>2. CASE ~(group \subseteq DOMAIN g.th)
    BY <1>3, <2>2, IdleOK
  <2> QED BY <2>1, <2>2
<1>5. Passed(p, j)
  BY <1>2, <1>3, <1>4, JobKeeps
<1> QED BY <1>1, <1>2, <1>5 DEF Passed, Judged

\* A process that had no job has one, without a token.
Began(p) ==
  /\ CInv' /\ g' = g
  /\ \A q \in Processes : job'[q] = job[q] \/ q = p
  /\ job'[p].tok = "none" /\ job'[p].req.kind \in {"compact", "cluster"}

LEMMA OpenedKeeps ==
  ASSUME CInv, NEW p \in Processes, NEW j, Opened(p, j), JobRecord(j), j.at = now,
         j.req \in Requests, j.tok = "none", j.repairs = <<>>,
         \/ j.phase = "judged" /\ j.req.kind = "compact"
         \/ /\ j.phase = "read" /\ j.req.kind = "cluster"
            /\ j.proj \in STRING /\ IsFiniteSet(NextGroup(j))
  PROVE  Began(p)
<1>1. job' = [job EXCEPT ![p] = j] /\ job[p] = Idle /\ UNCHANGED <<g, tokens, now>>
  BY DEF Opened
<1>2. edits' \in 0..MaxEdits
  BY CurationAssumption DEF Opened, CInv
<1>3. job'[p] = j
  BY <1>1 DEF CInv
<1>4. JobOK(job[p])'
  BY <1>1, <1>3, NowIs DEF JobOK, WritesProject
<1>5. Passed(p, j)
  BY <1>1, <1>2, <1>4, JobKeeps
<1> QED BY <1>1, <1>3, <1>5 DEF Passed, Began

\* A compaction begins, on `confirm` alone.
LEMMA StartCompactKeeps ==
  ASSUME CInv, NEW p \in Processes, NEW r \in Requests, StartCompact(p, r) PROVE Began(p)
<1> PICK j : j = Untokened(r)
  OBVIOUS
<1>1. Opened(p, j) /\ r.kind = "compact"
  BY DEF StartCompact
<1>2. /\ JobRecord(j) /\ j.phase = "judged" /\ j.req = r /\ j.tok = "none" /\ j.at = now
      /\ j.repairs = <<>>
  BY <1>1 DEF Untokened, Started, JobRecord
<1> QED BY ONLY <1>1, <1>2, OpenedKeeps, CInv, p \in Processes, r \in Requests

\* memory_crystallize cluster begins, with what it reads.
LEMMA StartClusterKeeps ==
  ASSUME CInv, NEW p \in Processes, NEW r \in Requests, StartCluster(p, r) PROVE Began(p)
<1> PICK b : b = Untokened(r)
  OBVIOUS
<1> PICK j : j = ReadMembers(b)
  OBVIOUS
<1>1. Opened(p, j) /\ r.kind = "cluster" /\ ToSet(r.ids) \subseteq DOMAIN g.th
  BY DEF StartCluster
<1>2. /\ JobRecord(b) /\ b.req = r /\ b.tok = "none" /\ b.at = now
      /\ b.repairs = <<>> /\ b.groups = {ToSet(r.ids)}
  BY <1>1 DEF Untokened, Started, JobRecord
<1>3. NextGroup(b) = ToSet(r.ids)
  BY <1>2 DEF NextGroup
<1>4. ClusterProject(NextGroup(b)) \in STRING /\ IsFiniteSet(NextGroup(b)) /\ r.proj \in STRING
  BY <1>1, <1>3, ClusterProjectIs, CurationAssumption
<1>5. /\ JobRecord(j) /\ j.phase = "read" /\ j.req = r /\ j.tok = "none" /\ j.at = now
      /\ j.repairs = <<>> /\ j.proj \in STRING /\ j.groups = b.groups
  BY <1>2, <1>4 DEF ReadMembers, JobRecord
<1>6. IsFiniteSet(NextGroup(j))
  BY <1>4, <1>5 DEF NextGroup
<1> QED BY <1>1, <1>5, <1>6, OpenedKeeps

(***************************************************************************)
(* Transactions.                                                           *)
(***************************************************************************)
Others(p) == \A q \in Processes : q # p => job'[q] = job[q]

Ran(p) == CInv' /\ DOMAIN g.th \subseteq DOMAIN g'.th /\ Others(p)

\* A transaction that grows the store and ends its confirm.
LEMMA RanIs ==
  ASSUME CInv, NEW p \in Processes, Good(g'), Grows(g, g', now),
         Finish(p), UNCHANGED <<tokens, now, edits>>
  PROVE  Ran(p)
<1>1. CInv'
  BY GrowthIs, FinishKeeps
<1>2. DOMAIN g.th \subseteq DOMAIN g'.th
  BY DEF Grows
<1>3. Others(p)
  BY DEF Others, Finish, CInv
<1> QED BY <1>1, <1>2, <1>3 DEF Ran

\* The same, when the transaction is the end of a service.
LEMMA CommitIs ==
  ASSUME CInv, NEW p \in Processes, NEW n, Good(n), Grows(g, n, now),
         g' = Committed(g, n), Finish(p), UNCHANGED <<tokens, now, edits>>
  PROVE  Ran(p) /\ g'.th = n.th /\ g'.ed = n.ed
<1>1. Good(g') /\ Grows(g, g', now) /\ g'.th = n.th /\ g'.ed = n.ed
  BY CommittedGood
<1> QED BY <1>1, RanIs

\* The transaction of an archive.
LEMMA ExecuteArchiveRan == ASSUME CInv, NEW p \in Processes, ExecuteArchive(p) PROVE Ran(p)
<1> PICK r : r = ArchiveThought(g, job[p].req.ids[1], now)
  OBVIOUS
<1>1. now \in Times /\ Good(g)
  BY NowIs DEF CInv
<1>2. Good(r.g) /\ Grows(g, r.g, now)
  BY <1>1, ArchiveGood DEF Rewrote
<1>3. g' = r.g /\ Finish(p) /\ UNCHANGED <<tokens, now, edits>>
  BY DEF ExecuteArchive
<1> QED BY <1>2, <1>3, RanIs

\* Of an archive batch.
LEMMA ExecuteArchiveBatchRan ==
  ASSUME CInv, NEW p \in Processes, ExecuteArchiveBatch(p) PROVE Ran(p)
<1> PICK ids : ids = job[p].req.ids
  OBVIOUS
<1>1. now \in Times /\ Good(g)
  BY NowIs DEF CInv
<1>2. ids \in Seq(STRING)
  BY ReadyIs, CurationAssumption DEF ExecuteArchiveBatch, EdgeKinds
<1> PICK n : n = ArchiveBatch(g, ids, now)
  OBVIOUS
<1>3. Good(n) /\ Grows(g, n, now)
  BY <1>1, <1>2, ArchiveBatchGood
<1>4. g' = n /\ Finish(p) /\ UNCHANGED <<tokens, now, edits>>
  BY DEF ExecuteArchiveBatch
<1> QED BY <1>3, <1>4, RanIs

\* Whom src was joined to, gone and new aside, new is joined to.
TakesOver(s, n, src, gone, new) ==
  \A y : Joined(s, src, y) /\ y # src /\ y # new /\ y \notin gone => Joined(n, new, y)

\* Of a merge, which leaves nothing on the source and takes over all its neighbours, or
\* changes nothing.
LEMMA ExecuteMergeRan ==
  ASSUME CInv, NEW p \in Processes, ExecuteMerge(p),
         NEW src, NEW tgt, src = job[p].req.ids[1], tgt = job[p].req.ids[2]
  PROVE  Ran(p) /\ (g'.th # g.th => Gone(g', src, tgt) /\ TakesOver(g, g', src, {src}, tgt))
<1> PICK req, proj : req = job[p].req /\ proj = job[p].proj
  OBVIOUS
<1> PICK m, r :
       /\ m = [src |-> req.ids[1], tgt |-> req.ids[2], content |-> req.arg, archivedOk |-> FALSE]
       /\ r = MergeThoughts(g, m, proj, now)
  OBVIOUS
<1>1. now \in Times /\ Good(g)
  BY NowIs DEF CInv
<1>2. JobOK(job[p]) /\ job[p] # Idle /\ job[p].phase = "judged" /\ req.kind = "merge"
      /\ req \in Requests
  BY ReadyIs DEF ExecuteMerge, EdgeKinds
<1>3. proj \in STRING /\ m.content \in STRING /\ m.src = src /\ m.tgt = tgt
  BY <1>2, CurationAssumption DEF JobOK, WritesProject
<1>4. Merged(g, r, src, tgt, now)
  BY <1>1, <1>3, MergeGood
<1>5. g' = Committed(g, r.g) /\ Finish(p) /\ UNCHANGED <<tokens, now, edits>>
  BY DEF ExecuteMerge
<1>6. Ran(p) /\ g'.th = r.g.th /\ g'.ed = r.g.ed
  <2>1. Good(r.g) /\ Grows(g, r.g, now)
    BY ONLY <1>4 DEF Merged
  <2> QED BY <1>5, <2>1, CommitIs
<1>7. ASSUME g'.th # g.th PROVE Gone(g', src, tgt) /\ TakesOver(g, g', src, {src}, tgt)
  <2>1. r.ok
    BY <1>4, <1>6, <1>7 DEF Merged
  <2>2. Gone(r.g, src, tgt)
    BY <1>4, <2>1 DEF Merged, Gone
  <2>3. TakesOver(g, r.g, src, {src}, tgt)
    BY <1>4, <2>1 DEF Merged, TakesOver
  <2>4. Gone(g', src, tgt)
    BY <1>6, <2>2 DEF Gone
  <2>5. \A u, v : Joined(g', u, v) = Joined(r.g, u, v)
    BY ONLY <1>6 DEF Joined
  <2>6. TakesOver(g, g', src, {src}, tgt)
    BY <2>3, <2>5 DEF TakesOver
  <2> QED BY <2>4, <2>6
<1> QED BY <1>6, <1>7

\* Of a compaction, likewise for each of its sources.
LEMMA ExecuteCompactRan ==
  ASSUME CInv, NEW p \in Processes, ExecuteCompact(p),
         NEW S, S = ToSet(job[p].req.ids), NEW id, id = NewIds[g.made + 1]
  PROVE  /\ Ran(p)
         /\ g'.th # g.th => \A x \in S : Gone(g', x, id) /\ TakesOver(g, g', x, S, id)
<1> PICK req, at : req = job[p].req /\ at = job[p].at
  OBVIOUS
<1> PICK r : r = Compact(g, S, req.arg, req.proj, at, now)
  OBVIOUS
<1>1. now \in Times /\ Good(g) /\ CanCreate(g, 1)
  BY NowIs DEF CInv, ExecuteCompact
<1>2. req \in Requests
  BY ReadyIs DEF ExecuteCompact, EdgeKinds
<1>3. req.arg \in STRING /\ req.proj \in STRING /\ IsFiniteSet(S)
  <2>1. req.arg \in STRING /\ req.proj \in STRING /\ req.ids \in Seq(STRING)
    BY <1>2, CurationAssumption
  <2>2. IsFiniteSet(DOMAIN req.ids)
    BY <2>1, SeqFinite
  <2> PICK D, f : D = DOMAIN req.ids /\ f = req.ids
    OBVIOUS
  <2>3. S = {f[i] : i \in D} /\ f = [i \in D |-> f[i]]
    BY <2>1 DEF ToSet
  <2>4. f \in Surjection(D, S)
    BY <2>3 DEF Surjection
  <2>5. IsFiniteSet(S)
    BY <2>2, <2>4, FS_Surjection
  <2> QED BY <2>1, <2>5
<1>4. Compacted(g, r, S, id, now)
  BY <1>1, <1>3, CompactGood
<1>5. g' = Committed(g, r.g) /\ Finish(p) /\ UNCHANGED <<tokens, now, edits>>
  BY DEF ExecuteCompact
<1>6. Ran(p) /\ g'.th = r.g.th /\ g'.ed = r.g.ed
  BY <1>4, <1>5, CommitIs DEF Compacted
<1>7. ASSUME g'.th # g.th, NEW x \in S PROVE Gone(g', x, id) /\ TakesOver(g, g', x, S, id)
  <2>1. r.ok
    BY <1>4, <1>6, <1>7 DEF Compacted
  <2>2. Gone(r.g, x, id)
    BY <1>4, <2>1 DEF Compacted
  <2>3. TakesOver(g, r.g, x, S, id)
    BY <1>4, <2>1 DEF Compacted, TakesOver
  <2>4. Gone(g', x, id)
    BY <1>6, <2>2 DEF Gone
  <2>5. \A u, v : Joined(g', u, v) = Joined(r.g, u, v)
    BY ONLY <1>6 DEF Joined
  <2>6. TakesOver(g, g', x, S, id)
    BY <2>3, <2>5 DEF TakesOver
  <2> QED BY <2>4, <2>6
<1> QED BY <1>6, <1>7

\* Of an unlink.
LEMMA ExecuteUnlinkRan == ASSUME CInv, NEW p \in Processes, ExecuteUnlink(p) PROVE Ran(p)
<1> PICK E : E = g.ed \ {job[p].req.edge}
  OBVIOUS
<1> PICK n : n = g'
  OBVIOUS
<1>1. n = [g EXCEPT !.ed = E] /\ E \subseteq g.ed /\ Good(g)
  BY DEF ExecuteUnlink, CInv
<1>2. Good(n) /\ Grows(g, n, now)
  BY ONLY <1>1, EdgesGood
<1>3. Finish(p) /\ UNCHANGED <<tokens, now, edits>>
  BY DEF ExecuteUnlink
<1> QED BY <1>2, <1>3, RanIs

\* Of a retype, whose edge and ends may be gone by now.
LEMMA ExecuteRetypeRan == ASSUME CInv, NEW p \in Processes, ExecuteRetype(p) PROVE Ran(p)
<1> PICK e, type : e = job[p].req.edge /\ type = job[p].req.arg
  OBVIOUS
<1>1. StillValid(g, e, type) /\ Good(g)
  BY ReadyIs DEF ExecuteRetype, JobOK, CInv
<1>2. Finish(p) /\ UNCHANGED <<tokens, now, edits>>
  BY DEF ExecuteRetype
<1>3. CASE Has(g, e.s) /\ Has(g, e.t)
  <2> PICK n, a, b : n = PutEdge(g, {e}, e.s, e.t, type) /\ a = e.s /\ b = e.t
    OBVIOUS
  <2>1. a \in DOMAIN g.th /\ b \in DOMAIN g.th /\ a # b /\ type \in EdgeTypes
        /\ ClusterRule(g, a, b, type)
    BY <1>1, <1>3 DEF StillValid, Has
  <2>2. \A f \in {e} : f \in g.ed => {f.s, f.t} = {a, b}
    OBVIOUS
  <2>3. n = PutEdge(g, {e}, a, b, type)
    OBVIOUS
  <2>4. Good(n) /\ Grows(g, n, now)
    BY ONLY <1>1, <2>1, <2>2, <2>3, PutEdgeGood
  <2>5. g' = Committed(g, n)
    BY <1>3 DEF ExecuteRetype
  <2> QED BY <1>2, <2>4, <2>5, CommitIs
<1>4. CASE ~(Has(g, e.s) /\ Has(g, e.t))
  <2>1. g' = g
    BY <1>4 DEF ExecuteRetype
  <2>2. Good(g') /\ Grows(g, g', now)
    BY <1>1, <2>1, GrowsSame DEF Good
  <2> QED BY <1>2, <2>2, RanIs
<1> QED BY <1>3, <1>4

\* What may be deleted may be later.
LEMMA EligibleStays ==
  ASSUME NEW s, Good(s), NEW id, NEW at \in Nat, NEW t \in Nat, at <= t,
         Eligible(s, id, at)
  PROVE  Eligible(s, id, t)
<1> PICK row : row = s.th[id]
  OBVIOUS
<1>1. row \in Rows
  BY DEF Eligible, Has, Good, Store
<1>2. Anchor(row) \in Nat
  BY <1>1, CurationAssumption DEF Anchor, Rows
<1>3. Anchor(row) + MinAge < t
  BY <1>2, CurationAssumption DEF Eligible
<1> QED BY <1>3 DEF Eligible

\* Of a retention deletion, which removes what is eligible and that only.
LEMMA ExecuteRetentionDeleteRan ==
  ASSUME CInv, NEW p \in Processes, ExecuteRetentionDelete(p)
  PROVE  /\ CInv' /\ Others(p)
         /\ \A x \in DOMAIN g.th : Has(g', x) \/ Eligible(g, x, now)
<1> PICK id, at : id = job[p].req.ids[1] /\ at = job[p].at
  OBVIOUS
<1>1. Good(g) /\ at \in Nat /\ at <= now /\ now \in Nat
  BY ReadyIs, NowIs DEF ExecuteRetentionDelete, JobOK, CInv
<1>2. Finish(p) /\ UNCHANGED <<tokens, now, edits>> /\ Others(p)
  BY DEF ExecuteRetentionDelete, Finish, Others, CInv
<1>3. CASE Eligible(g, id, at)
  <2> PICK n : n = DeleteThought(g, id)
    OBVIOUS
  <2>1. g' = n
    BY <1>3 DEF ExecuteRetentionDelete, RetentionDelete, Done
  <2>2. /\ Good(n) /\ DOMAIN n.th = DOMAIN g.th \ {id} /\ n.made = g.made
        /\ n.projs = g.projs
        /\ \A x \in DOMAIN g.th : x # id => n.th[x] = g.th[x]
    BY <1>1, DeleteGood
  <2>3. Unused(n) = Unused(g)
    BY <2>2 DEF Unused
  <2>4. Evolves(g, n, now)
    BY <2>2, <2>3 DEF Evolves
  <2>5. CInv'
    BY <1>2, <2>1, <2>2, <2>4, FinishKeeps
  <2>6. Eligible(g, id, now)
    BY <1>1, <1>3, EligibleStays
  <2> QED BY <1>2, <2>1, <2>2, <2>5, <2>6 DEF Has
<1>4. CASE ~Eligible(g, id, at)
  <2>1. g' = g
    BY <1>4 DEF ExecuteRetentionDelete, RetentionDelete, Refuse
  <2>2. Good(g') /\ Grows(g, g', now)
    BY <1>1, <2>1, GrowsSame DEF Good
  <2>3. Ran(p)
    BY <1>2, <2>2, RanIs
  <2> QED BY <1>2, <2>3 DEF Ran, Has
<1> QED BY <1>3, <1>4

\* Of a project's deletion: whoever holds the project goes on with it.
LEMMA ExecuteDeleteProjectRan ==
  ASSUME CInv, NEW p \in Processes, ExecuteDeleteProject(p) PROVE Ran(p)
<1> PICK n : n = g'
  OBVIOUS
<1>1. n = EmptyProject(g, job[p].req.arg) /\ Finish(p) /\ UNCHANGED <<tokens, now, edits>>
  BY DEF ExecuteDeleteProject
<1>2. /\ Good(n) /\ DOMAIN n.th = DOMAIN g.th /\ n.made = g.made
      /\ \A x \in DOMAIN g.th : /\ n.th[x].cluster = g.th[x].cluster
                                /\ n.th[x].content = g.th[x].content
                                /\ n.th[x].stamp = g.th[x].stamp
  BY <1>1, EmptyGood DEF CInv, KeptThoughts
<1>3. Evolves(g, n, now)
  <2>1. Unused(n) = Unused(g)
    BY <1>2 DEF Unused
  <2> QED BY <1>2, <2>1 DEF Evolves
<1>4. CInv'
  BY <1>1, <1>2, <1>3, FinishKeeps
<1>5. Others(p)
  BY <1>1 DEF Others, Finish, CInv
<1> QED BY <1>2, <1>4, <1>5 DEF Ran

\* p has more to do, as `n` has it, and nothing else of its job is different.
GoesOn(j, n) ==
  /\ JobRecord(n) /\ n.phase = "judged" /\ n.req = j.req /\ n.tok = j.tok /\ n.at = j.at
  /\ n.req.kind \notin {"merge", "retype"} /\ \A i \in DOMAIN n.repairs : Listed(n.repairs[i])

\* A transaction that grows the store and may leave its confirm more to do.
LEMMA PartIs ==
  ASSUME CInv, NEW p \in Processes, job[p] # Idle, Good(g'),
         Grows(g, g', now), NEW n, n = Idle \/ GoesOn(job[p], n),
         job' = [job EXCEPT ![p] = n], UNCHANGED <<tokens, now, edits>>
  PROVE  Ran(p)
<1>1. Evolves(g, g', now)
  BY GrowthIs
<1>2. job'[p] = n /\ Others(p) /\ job' = [q \in Processes |-> job'[q]]
  BY DEF CInv, Others
<1>3. JobOK(job[p])'
  <2>1. CASE n = Idle
    BY <1>2, <2>1, IdleOK
  <2>2. CASE GoesOn(job[p], n)
    <3> PICK j : j = job[p]
      OBVIOUS
    <3>1. JobOK(j) /\ j # Idle /\ GoesOn(j, n)
      BY <2>2 DEF CInv
    <3>2. /\ JobRecord(n) /\ n.phase = "judged" /\ n.req.kind \notin {"merge", "retype"}
          /\ n.req \in Requests \/ n.req.kind \in EdgeKinds
          /\ n.at \in Nat /\ n.at <= now'
          /\ n.tok # "none" => n.tok \in TokenIds /\ tokens'[n.tok].state = "spent"
          /\ \A i \in DOMAIN n.repairs : Listed(n.repairs[i])
      BY <1>1, <3>1 DEF JobOK, GoesOn
    <3> QED BY <1>2, <3>2 DEF JobOK, WritesProject
  <2> QED BY <2>1, <2>2
<1>4. \A q \in Processes : job'[q] = job[q] \/ JobOK(job[q])'
  BY <1>2, <1>3 DEF Others
<1>5. edits' \in 0..MaxEdits
  BY DEF CInv
<1>6. CInv'
  BY <1>1, <1>2, <1>4, <1>5, WriteKeeps
<1> QED BY <1>2, <1>6 DEF Ran, Grows

\* One cluster.
LEMMA ExecuteClusterRan ==
  ASSUME CInv, NEW p \in Processes, ExecuteCluster(p)
  PROVE  Ran(p) /\ job[p] # Idle /\ job[p].req.kind \in {"cluster", "auto_cluster"}
<1> PICK j, group, rest, title :
       /\ j = job[p] /\ group = NextGroup(j) /\ rest = j.groups \ {group}
       /\ title = IF j.req.kind = "cluster" THEN j.req.arg ELSE ClusterTitle
  OBVIOUS
<1> PICK made : made = CreateCluster(g, group, title, j.proj, now)
  OBVIOUS
<1> PICK n : n = IF made.ok /\ rest # {} THEN [j EXCEPT !.phase = "judged", !.groups = rest]
                                        ELSE Idle
  OBVIOUS
<1>1. now \in Times /\ Good(g) /\ CanCreate(g, 1)
  BY NowIs DEF CInv, ExecuteCluster
<1>2. JobOK(j) /\ j # Idle /\ JobRecord(j) /\ j.phase = "read"
  BY BusyIs DEF ExecuteCluster
<1>3. g' = Committed(g, made.g) /\ UNCHANGED <<tokens, now, edits>>
      /\ job' = [job EXCEPT ![p] = n]
  BY DEF ExecuteCluster
<1>4. /\ IsFiniteSet(group) /\ j.proj \in STRING /\ j.req.kind \in {"cluster", "auto_cluster"}
      /\ j.req \in Requests
  BY <1>2 DEF JobOK, EdgeKinds, WritesProject
<1>5. title \in STRING
  BY <1>4, CurationAssumption
<1>6. Good(made.g) /\ Grows(g, made.g, now)
  BY <1>1, <1>4, <1>5, ClusterGood
<1>7. Good(g') /\ Grows(g, g', now)
  BY <1>3, <1>6, CommittedGood
<1>8. n = Idle \/ GoesOn(j, n)
  BY <1>2, <1>4 DEF JobOK, JobRecord, GoesOn
<1>9. Ran(p)
  BY <1>2, <1>3, <1>7, <1>8, PartIs
<1> QED BY <1>2, <1>4, <1>9

\* One repair.
LEMMA AutofixGood ==
  ASSUME NEW t \in Times, NEW s, Good(s), NEW item, Listed(item),
         NEW n, n = Autofix(s, item, t)
  PROVE  Good(n) /\ Grows(s, n, t)
<1>1. CASE item.check \in ArchivingChecks
  <2>1. n = ArchiveUnprotected(s, item.found, t) /\ IsFiniteSet(item.found)
    BY <1>1 DEF Autofix, Listed
  <2> QED BY <2>1, ArchiveUnprotectedGood
<1>2. CASE item.check \notin ArchivingChecks
  <2> PICK E : E = s.ed \ item.found
    OBVIOUS
  <2>1. n = [s EXCEPT !.ed = E] /\ E \subseteq s.ed
    BY <1>2 DEF Autofix
  <2> QED BY ONLY <2>1, EdgesGood, Good(s)
<1> QED BY <1>1, <1>2

\* One fix of a repair run.
LEMMA ExecuteRepairRan == ASSUME CInv, NEW p \in Processes, ExecuteRepair(p) PROVE Ran(p)
<1> PICK j, list, due :
       /\ j = job[p] /\ list = j.repairs
       /\ due = {i \in DOMAIN list : list[i].found # {}}
  OBVIOUS
<1>1. now \in Times /\ Good(g)
  BY NowIs DEF CInv
<1>2. /\ JobOK(j) /\ j # Idle /\ JobRecord(j) /\ \A i \in DOMAIN list : Listed(list[i])
      /\ j.phase = "judged" /\ j.req.kind = "health_repair"
  BY ReadyIs DEF ExecuteRepair, JobOK
<1>3. UNCHANGED <<tokens, now, edits>>
  BY DEF ExecuteRepair
<1>4. CASE due = {} /\ g' = g /\ Finish(p)
  <2>1. Good(g') /\ Grows(g, g', now)
    BY <1>1, <1>4, GrowsSame DEF Good
  <2> QED BY <1>3, <1>4, <2>1, RanIs
<1>5. CASE \E i \in due :
             /\ g' = Autofix(g, list[i], now)
             /\ job' = [job EXCEPT ![p] = IF due = {i} THEN Idle
                                          ELSE [j EXCEPT !.repairs[i].found = {}]]
  <2>1. PICK i \in due :
          /\ g' = Autofix(g, list[i], now)
          /\ job' = [job EXCEPT ![p] = IF due = {i} THEN Idle
                                       ELSE [j EXCEPT !.repairs[i].found = {}]]
    BY <1>5
  <2> PICK n, left, item :
         /\ n = (IF due = {i} THEN Idle ELSE [j EXCEPT !.repairs[i].found = {}])
         /\ item = [list[i] EXCEPT !.found = {}] /\ left = [list EXCEPT ![i] = item]
    OBVIOUS
  <2>2. i \in DOMAIN list /\ Listed(list[i])
    BY <1>2
  <2> PICK b : b = g'
    OBVIOUS
  <2>3. Good(b) /\ Grows(g, b, now)
    BY <1>1, <2>1, <2>2, AutofixGood
  <2>4. Listed(item)
    BY <2>2, FS_EmptySet DEF Listed
  <2>5. \A k \in DOMAIN left : Listed(left[k])
    BY <1>2, <2>2, <2>4
  <2>6. n = Idle \/ n = [j EXCEPT !.repairs = left]
    OBVIOUS
  <2>7. n = Idle \/ GoesOn(j, n)
    BY <1>2, <2>5, <2>6 DEF JobRecord, GoesOn, JobOK
  <2>8. job' = [job EXCEPT ![p] = n]
    BY <2>1
  <2> QED BY <1>2, <1>3, <2>3, <2>7, <2>8, PartIs
<1> QED BY <1>4, <1>5 DEF ExecuteRepair

(***************************************************************************)
(* Every step keeps the invariant.                                         *)
(***************************************************************************)
\* A store a run may begin with, before any call.
LEMMA InitKeeps == ASSUME Init PROVE CInv
<1>1. /\ Store(g) /\ StructurallySound(g) /\ DedupeKeySound(g)
      /\ Unused(g) \cap DOMAIN g.th = {}
      /\ \A x \in DOMAIN g.th : g.th[x].stamp <= InitNow
  BY CurationAssumption DEF Init
<1>2. Good(g)
  BY <1>1, SoundIs DEF Good
<1>3. now \in InitNow..MaxNow /\ edits \in 0..MaxEdits
  BY CurationAssumption DEF Init
<1>4. tokens = [k \in TokenIds |-> tokens[k]] /\ \A k \in TokenIds : TokenOK(tokens[k])
  BY DEF Init, TokenOK, NoToken
<1>5. job = [p \in Processes |-> job[p]] /\ \A p \in Processes : JobOK(job[p])
  BY DEF Init, JobOK
<1> QED BY <1>1, <1>2, <1>3, <1>4, <1>5 DEF CInv, Init

\* p ended, or went on with, a confirm that neither merges nor deletes.
Ends(p) == Ran(p) /\ job[p] # Idle /\ job[p].req.kind \notin {"merge", "compact"}

\* The steps of a confirm, those apart that the properties are about.
LEMMA ConfirmIs ==
  ASSUME CInv, NEW p \in Processes, Confirm(p)
  PROVE  \/ \E k \in TokenIds, r \in Callable : Claim(p, k, r)
         \/ \E r \in Requests : StartCompact(p, r) \/ StartCluster(p, r)
         \/ Judged(p) \/ Ends(p)
         \/ ExecuteMerge(p) \/ ExecuteCompact(p) \/ ExecuteRetentionDelete(p)
<1>1. ASSUME JudgeMerge(p) \/ JudgeRetentionDelete(p) \/ JudgeRetype(p) \/ JudgeAutoCluster(p)
             \/ ReadGroup(p)
      PROVE  Judged(p)
  BY <1>1, JudgeMergeKeeps, JudgeRetentionDeleteKeeps, JudgeRetypeKeeps, JudgeAutoClusterKeeps,
     ReadGroupKeeps
<1>2. ASSUME ExecuteArchive(p) PROVE Ends(p)
  BY <1>2, ExecuteArchiveRan, ReadyIs DEF ExecuteArchive, Ends
<1>3. ASSUME ExecuteArchiveBatch(p) PROVE Ends(p)
  BY <1>3, ExecuteArchiveBatchRan, ReadyIs DEF ExecuteArchiveBatch, Ends
<1>4. ASSUME ExecuteUnlink(p) PROVE Ends(p)
  BY <1>4, ExecuteUnlinkRan, ReadyIs DEF ExecuteUnlink, Ends
<1>5. ASSUME ExecuteRetype(p) PROVE Ends(p)
  BY <1>5, ExecuteRetypeRan, ReadyIs DEF ExecuteRetype, Ends
<1>6. ASSUME ExecuteDeleteProject(p) PROVE Ends(p)
  BY <1>6, ExecuteDeleteProjectRan, ReadyIs DEF ExecuteDeleteProject, Ends
<1>7. ASSUME ExecuteCluster(p) PROVE Ends(p)
  BY <1>7, ExecuteClusterRan DEF Ends
<1>8. ASSUME ExecuteRepair(p) PROVE Ends(p)
  BY <1>8, ExecuteRepairRan, ReadyIs DEF ExecuteRepair, Ends
<1> QED BY <1>1, <1>2, <1>3, <1>4, <1>5, <1>6, <1>7, <1>8 DEF Confirm

\* A step of a confirm.
LEMMA ConfirmKeeps == ASSUME CInv, NEW p \in Processes, Confirm(p) PROVE CInv'
<1>1. CASE \E k \in TokenIds, r \in Callable : Claim(p, k, r)
  BY <1>1, ClaimKeeps
<1>2. CASE \E r \in Requests : StartCompact(p, r) \/ StartCluster(p, r)
  BY <1>2, StartCompactKeeps, StartClusterKeeps DEF Began
<1>3. CASE Judged(p) \/ Ends(p)
  BY <1>3 DEF Judged, Ends, Ran
<1>4. CASE ExecuteMerge(p)
  BY <1>4, ExecuteMergeRan DEF Ran
<1>5. CASE ExecuteCompact(p)
  BY <1>5, ExecuteCompactRan DEF Ran
<1>6. CASE ExecuteRetentionDelete(p)
  BY <1>6, ExecuteRetentionDeleteRan
<1> QED BY <1>1, <1>2, <1>3, <1>4, <1>5, <1>6, ConfirmIs

\* It leaves the jobs of the others alone.
LEMMA ConfirmsAlone ==
  ASSUME CInv, NEW q \in Processes, Confirm(q), NEW p \in Processes, p # q
  PROVE  job'[p] = job[p]
<1>1. CASE \E k \in TokenIds, r \in Callable : Claim(q, k, r)
  BY <1>1, ClaimKeeps
<1>2. CASE \E r \in Requests : StartCompact(q, r) \/ StartCluster(q, r)
  BY <1>2, StartCompactKeeps, StartClusterKeeps DEF Began
<1>3. CASE Judged(q) \/ Ends(q)
  BY <1>3 DEF Judged, Ends, Ran, Others
<1>4. CASE ExecuteMerge(q)
  BY <1>4, ExecuteMergeRan DEF Ran, Others
<1>5. CASE ExecuteCompact(q)
  BY <1>5, ExecuteCompactRan DEF Ran, Others
<1>6. CASE ExecuteRetentionDelete(q)
  BY <1>6, ExecuteRetentionDeleteRan DEF Others
<1> QED BY <1>1, <1>2, <1>3, <1>4, <1>5, <1>6, ConfirmIs

\* A step is a write, a preview or nothing, which leave the jobs alone, or a
\* step of a confirm.
LEMMA StepIs ==
  ASSUME CInv, [Next]_vars PROVE Wrote \/ \E p \in Processes : Confirm(p)
<1>1. CASE Write
  BY <1>1, WriteIs
<1>2. CASE \E k \in TokenIds, r \in Callable : Preview(k, r)
  BY <1>2, PreviewKeeps DEF Wrote
<1>3. CASE Tick
  BY <1>3, TickKeeps DEF Wrote, Tick
<1>4. CASE UNCHANGED vars
  <2>1. edits' \in 0..MaxEdits /\ now' \in InitNow..MaxNow /\ now <= now'
        /\ UNCHANGED <<g, tokens, job>>
        /\ tokens' = [k \in TokenIds |-> tokens'[k]] /\ job' = [q \in Processes |-> job'[q]]
    BY <1>4, CurationAssumption DEF CInv, vars
  <2>2. /\ \A k \in TokenIds : tokens'[k] = tokens[k]
        /\ \A k \in TokenIds : tokens[k].state = "spent" => tokens'[k].state = "spent"
        /\ \A q \in Processes : job'[q] = job[q]
    BY <2>1
  <2> QED BY <2>1, <2>2, StillKeeps DEF Wrote
<1> QED BY <1>1, <1>2, <1>3, <1>4 DEF Next

\* Any step.
LEMMA NextKeeps == ASSUME CInv, [Next]_vars PROVE CInv'
BY StepIs, ConfirmKeeps DEF Wrote

\* The invariant holds of every behaviour.
LEMMA CInvAlways == Spec => []CInv
<1>1. Init => CInv
  BY InitKeeps
<1>2. CInv /\ [Next]_vars => CInv'
  BY NextKeeps
<1> QED BY <1>1, <1>2, PTL DEF Spec

(***************************************************************************)
(* What holds of every behaviour.                                          *)
(***************************************************************************)
\* Whatever curates the graph, in whichever order, leaves tables of the right
\* shape, no finding of the checks that must find nothing and a dedupe index that
\* can be trusted, although no writer checks the project it was given.
THEOREM StoreStaysSound == Spec => []GraphSound
<1>1. CInv => GraphSound
  <2> SUFFICES ASSUME CInv PROVE GraphSound
    OBVIOUS
  <2>1. TypeOK
    <3>1. \A k \in TokenIds : tokens[k].state \in {"none", "live", "spent"}
      BY DEF CInv, TokenOK
    <3>2. ASSUME NEW p \in Processes PROVE job[p].phase \in {"idle", "claimed", "judged", "read"}
      BY DEF CInv, JobOK, Idle
    <3> QED BY <3>1, <3>2 DEF TypeOK, CInv, Good
  <2>2. StructurallySound(g) /\ DedupeKeySound(g)
    BY SoundIs DEF CInv, Good
  <2> QED BY <2>1, <2>2 DEF GraphSound
<1> QED BY <1>1, CInvAlways, PTL

\* What a good claim of a token says of what its preview showed.
LEMMA SeenIsPreviewed ==
  ASSUME CInv, NEW k \in TokenIds, tokens[k].state = "live", NEW r \in Requests,
         r.kind \in Fingerprinted, r.kind = tokens[k].req.kind, TokenGood(tokens[k], r),
         NEW i \in DOMAIN r.ids
  PROVE  Seen(r.ids[i]) = tokens[k].seen[i] \/ g.th[r.ids[i]].stamp = tokens[k].at
<1> PICK row, id, fp, seen, at :
       row = tokens[k] /\ id = r.ids[i] /\ fp = row.fp[i] /\ seen = row.seen[i] /\ at = row.at
  OBVIOUS
<1>1. row.req.ids = r.ids /\ row.fp = Fingerprint(r)
  BY DEF TokenGood, Fingerprinted, EdgeKinds
<1>2. Held(g, fp, seen, id, at) /\ at \in Nat
  BY <1>1 DEF CInv, TokenOK
<1>3. fp = ThoughtFingerprint(id)
  BY <1>1, FingerprintIs
<1>4. CASE ~Has(g, id)
  BY <1>2, <1>3, <1>4 DEF Held, ThoughtFingerprint, Seen
<1>5. CASE Has(g, id)
  <2> PICK th : th = g.th[id]
    OBVIOUS
  <2>1. fp = <<th.status, th.stamp, th.prot>> /\ Seen(id) = <<th.content, th.status, th.prot>>
    BY <1>3, <1>5 DEF ThoughtFingerprint, Seen
  <2>2. th.stamp \in Nat
    BY <1>5, NowIs DEF CInv, Good, Store, Rows, Has
  <2>3. fp # <<"missing">>
    <3>1. Len(fp) = 3 /\ Len(<<"missing">>) = 1
      BY <2>1
    <3> QED BY ONLY <3>1
  <2>4. PICK content, status, stamp, prot :
          /\ fp = <<status, stamp, prot>> /\ seen = <<content, status, prot>>
          /\ stamp <= at /\ (th.content = content \/ th.stamp >= at)
    BY Zenon, <1>2, <1>5, <2>3 DEF Held
  <2>5. th.status = status /\ th.stamp = stamp /\ th.prot = prot
    BY <2>1, <2>4
  <2> QED BY <1>2, <2>1, <2>2, <2>4, <2>5
<1> QED BY <1>4, <1>5

\* And of the confirm that begins with it: nobody else has its token.
LEMMA ClaimIsPreviewed ==
  ASSUME CInv, NEW p \in Processes, NEW k \in TokenIds, NEW r \in Callable, Claim(p, k, r),
         job'[p] # Idle
  PROVE  /\ job'[p].tok = k
         /\ \A q \in Processes \ {p} : job[q] = Idle \/ job[q].tok # k \/ k = "none"
         /\ job'[p].req.kind \in Fingerprinted =>
              \A i \in DOMAIN job'[p].req.ids :
                \/ Seen(job'[p].req.ids[i]) = tokens[k].seen[i]
                \/ g.th[job'[p].req.ids[i]].stamp = tokens[k].at
<1>1. /\ tokens[k].state = "live" /\ r.kind = tokens[k].req.kind /\ TokenGood(tokens[k], r)
      /\ job' = [job EXCEPT ![p] = Started(k, r)]
  BY DEF Claim
<1>2. job'[p] = Started(k, r)
  BY <1>1 DEF CInv
<1>3. job'[p].tok = k /\ job'[p].req = r
  BY <1>2 DEF Started
<1>4. ASSUME NEW q \in Processes, job[q] # Idle, job[q].tok = k, k # "none" PROVE FALSE
  <2>1. tokens[k].state = "spent"
    BY <1>4 DEF CInv, JobOK
  <2> QED BY <1>1, <2>1
<1>5. r.kind \in Fingerprinted => r \in Requests
  BY DEF Callable, EdgeRequests, Fingerprinted
<1> QED BY <1>1, <1>3, <1>4, <1>5, SeenIsPreviewed

\* No call spends a token another has spent, and what the caller of an archive
\* or a merge was shown is what there is when its confirm begins -- whatever
\* the other processes did between the preview and the confirm -- unless the
\* thought was written at the very time of the preview.
THEOREM PreviewsAuthorise == Spec => ConfirmsAsPreviewed
<1> DEFINE As(p) ==
      LET j == job'[p]
          row == tokens[j.tok]
      IN  job[p] = Idle /\ j # Idle =>
            /\ j.tok # "none" =>
                 \A q \in Processes \ {p} : job[q] = Idle \/ job[q].tok # j.tok
            /\ j.req.kind \in {"archive", "archive_batch", "merge"} =>
                 \A i \in DOMAIN j.req.ids :
                   \/ Seen(j.req.ids[i]) = row.seen[i]
                   \/ g.th[j.req.ids[i]].stamp = row.at
<1>1. ASSUME CInv, [Next]_vars, NEW p \in Processes PROVE As(p)
  <2> SUFFICES ASSUME job[p] = Idle, job'[p] # Idle PROVE As(p)
    OBVIOUS
  <2>1. CASE \E k \in TokenIds, r \in Callable : Claim(p, k, r)
    <3>1. PICK k \in TokenIds, r \in Callable : Claim(p, k, r)
      BY <2>1
    <3> QED BY <1>1, <3>1, ClaimIsPreviewed DEF Fingerprinted
  <2>2. CASE \E r \in Requests : StartCompact(p, r) \/ StartCluster(p, r)
    <3>1. job'[p].tok = "none" /\ job'[p].req.kind \in {"compact", "cluster"}
      BY <1>1, <2>2, StartCompactKeeps, StartClusterKeeps DEF Began
    <3> QED BY <3>1
  <2>3. Wrote => FALSE
    BY DEF Wrote
  <2>4. ASSUME NEW q \in Processes, q # p, Confirm(q) PROVE FALSE
    <3>1. job'[p] = job[p]
      BY <1>1, <2>4, ConfirmsAlone
    <3> QED BY <3>1
  <2>5. ASSUME Judged(p) \/ Ends(p) \/ ExecuteMerge(p) \/ ExecuteCompact(p)
               \/ ExecuteRetentionDelete(p)
        PROVE  FALSE
    BY <1>1, <2>5, ReadyIs DEF Judged, Ends, ExecuteMerge, ExecuteCompact, ExecuteRetentionDelete
  <2> QED BY <1>1, <2>1, <2>2, <2>3, <2>4, <2>5, StepIs, ConfirmIs
<1>2. CInv /\ [Next]_vars => [\A p \in Processes : As(p)]_vars
  BY <1>1
<1> QED BY <1>2, CInvAlways, PTL DEF Spec, ConfirmsAsPreviewed

\* A thought goes only by a retention deletion, and only while it may, whatever
\* was written since the deletion was judged.
THEOREM RemovalIsEligible == Spec => RemovedOnlyIfEligible
<1>1. ASSUME CInv, [Next]_vars, NEW x \in DOMAIN g.th PROVE Has(g', x) \/ Eligible(g, x, now)
  <2>1. CASE Wrote
    BY <2>1 DEF Wrote, Has
  <2>2. ASSUME NEW p \in Processes, Confirm(p) PROVE Has(g', x) \/ Eligible(g, x, now)
    <3>1. CASE ExecuteRetentionDelete(p)
      BY <1>1, <3>1, ExecuteRetentionDeleteRan
    <3>2. CASE ~ExecuteRetentionDelete(p)
      <4>1. DOMAIN g.th \subseteq DOMAIN g'.th
        BY <1>1, <2>2, <3>2, ConfirmIs, ClaimKeeps, StartCompactKeeps, StartClusterKeeps,
           ExecuteMergeRan, ExecuteCompactRan DEF Judged, Ends, Ran, Began
      <4> QED BY <4>1 DEF Has
    <3> QED BY <3>1, <3>2
  <2> QED BY <1>1, <2>1, <2>2, StepIs
<1>2. CInv /\ [Next]_vars => [\A x \in DOMAIN g.th : Has(g', x) \/ Eligible(g, x, now)]_vars
  BY <1>1
<1> QED BY <1>2, CInvAlways, PTL DEF Spec, RemovedOnlyIfEligible

\* Taking over, as the store's neighbours say it.
LEMMA NeighboursTaken ==
  ASSUME NEW s, NEW n, NEW src, NEW gone, NEW new, src \in gone, TakesOver(s, n, src, gone, new)
  PROVE  Neighbours(s, src) \ (gone \cup {new}) \subseteq Neighbours(n, new)
<1> SUFFICES ASSUME NEW y \in Neighbours(s, src), y \notin gone, y # new
             PROVE  y \in Neighbours(n, new)
  OBVIOUS
<1>1. PICK e \in s.ed : src \in {e.s, e.t} /\ y \in {e.s, e.t} /\ y # src
  BY DEF Neighbours, EdgesOf
<1>2. Joined(s, src, y)
  BY <1>1 DEF Joined
<1>3. PICK f \in n.ed : {f.s, f.t} = {new, y}
  BY <1>1, <1>2 DEF TakesOver, Joined
<1>4. f \in EdgesOf(n, new) /\ y \in {f.s, f.t}
  BY <1>3 DEF EdgesOf
<1> QED BY <1>4 DEF Neighbours

\* What the property says of the thought src, replaced by new with the rest of
\* gone.
MovedTo(src, gone, new) ==
  Replaced(src, new) /\ Neighbours(g, src) \ (gone \cup {new}) \subseteq Neighbours(g', new)

\* A source a merge is done with is moved, as the property says.
LEMMA MovedIs ==
  ASSUME NEW src, NEW gone, NEW new, src \in gone, Gone(g', src, new),
         TakesOver(g, g', src, gone, new)
  PROVE  MovedTo(src, gone, new)
<1>1. Replaced(src, new)
  BY DEF Gone, Replaced, EdgesOf
<1> QED BY <1>1, NeighboursTaken DEF MovedTo

\* A merge or a compaction commits all of it or nothing: its sources archived,
\* no edge left on them but the one from what replaces them, and no neighbour
\* lost -- whatever was linked to them since they were judged.
THEOREM MergesKeepNeighbours == Spec => MergeKeepsNeighbours
<1> DEFINE As(p) ==
      LET r == job[p].req
          gone == IF r.kind = "merge" THEN {r.ids[1]} ELSE ToSet(r.ids)
          new == IF r.kind = "merge" THEN r.ids[2] ELSE NewIds[g.made + 1]
      IN  (/\ job[p].phase = "judged" /\ job'[p] = Idle
           /\ r.kind \in {"merge", "compact"} /\ g'.th # g.th)
          => \A src \in gone :
               /\ Replaced(src, new)
               /\ Neighbours(g, src) \ (gone \cup {new}) \subseteq Neighbours(g', new)
<1>1. ASSUME CInv, [Next]_vars, NEW p \in Processes,
             job[p].phase = "judged", job'[p] = Idle,
             job[p].req.kind \in {"merge", "compact"}, g'.th # g.th,
             NEW gone, gone = IF job[p].req.kind = "merge" THEN {job[p].req.ids[1]}
                              ELSE ToSet(job[p].req.ids),
             NEW new, new = IF job[p].req.kind = "merge" THEN job[p].req.ids[2]
                            ELSE NewIds[g.made + 1],
             NEW src \in gone
      PROVE  MovedTo(src, gone, new)
  <2>1. job[p] # Idle /\ job'[p] # job[p]
    BY <1>1 DEF Idle
  <2>2. ~Wrote
    BY <2>1 DEF Wrote
  <2>3. ASSUME NEW q \in Processes, Confirm(q) PROVE ExecuteMerge(p) \/ ExecuteCompact(p)
    <3>1. CASE q # p
      <4>1. job'[p] = job[p]
        BY <1>1, <2>3, <3>1, ConfirmsAlone
      <4> QED BY <2>1, <4>1
    <3>2. CASE q = p
      <4>1. \/ g' = g \/ Ends(p) \/ ExecuteMerge(p) \/ ExecuteCompact(p)
            \/ ExecuteRetentionDelete(p)
        BY <1>1, <2>3, <3>2, ConfirmIs, ClaimKeeps, StartCompactKeeps, StartClusterKeeps
           DEF Judged, Began
      <4>2. ~Ends(p) /\ ~ExecuteRetentionDelete(p)
        BY <1>1 DEF Ends, ExecuteRetentionDelete, Ready
      <4> QED BY <1>1, <4>1, <4>2
    <3> QED BY <3>1, <3>2
  <2>4. CASE ExecuteMerge(p)
    <3>1. job[p].req.kind = "merge" /\ src = job[p].req.ids[1] /\ new = job[p].req.ids[2]
          /\ gone = {src}
      BY <1>1, <2>4 DEF ExecuteMerge, Ready
    <3>2. Gone(g', src, new) /\ TakesOver(g, g', src, {src}, new)
      BY <1>1, <2>4, <3>1, ExecuteMergeRan
    <3> QED BY <3>1, <3>2, MovedIs
  <2>5. CASE ExecuteCompact(p)
    <3>1. gone = ToSet(job[p].req.ids) /\ new = NewIds[g.made + 1]
      BY <1>1, <2>5 DEF ExecuteCompact, Ready
    <3>2. Gone(g', src, new) /\ TakesOver(g, g', src, gone, new)
      BY <1>1, <2>5, <3>1, ExecuteCompactRan
    <3> QED BY <3>2, <1>1, MovedIs
  <2> QED BY <1>1, <2>2, <2>3, <2>4, <2>5, StepIs
<1>2. ASSUME CInv, [Next]_vars, NEW p \in Processes PROVE As(p)
  <2> SUFFICES ASSUME job[p].phase = "judged", job'[p] = Idle,
                      job[p].req.kind \in {"merge", "compact"}, g'.th # g.th
               PROVE  As(p)
    OBVIOUS
  <2> PICK gone, new : /\ gone = IF job[p].req.kind = "merge" THEN {job[p].req.ids[1]}
                                 ELSE ToSet(job[p].req.ids)
                       /\ new = IF job[p].req.kind = "merge" THEN job[p].req.ids[2]
                                ELSE NewIds[g.made + 1]
    OBVIOUS
  <2>1. \A src \in gone : MovedTo(src, gone, new)
    BY <1>1, <1>2
  <2> QED BY <2>1 DEF MovedTo
<1>3. CInv /\ [Next]_vars => [\A p \in Processes : As(p)]_vars
  BY <1>2
<1> QED BY <1>3, CInvAlways, PTL DEF Spec, MergeKeepsNeighbours

(***************************************************************************)
(* Repairs.  A pass takes what its report names, so what two passes make   *)
(* of a store in order can be said outright (Healed); each check that      *)
(* warns then finds no more than before.                                   *)
(***************************************************************************)
\* What archiving leaves of a row.
Shelved(row, t) == [row EXCEPT !.status = "archived", !.gone = t, !.prot = FALSE, !.stamp = t]

\* n is s with the thoughts in A archived at t and without the edges in E.
Fixed(s, n, A, E, t) ==
  /\ n.th = [x \in DOMAIN s.th |-> IF x \in A THEN Shelved(s.th[x], t) ELSE s.th[x]]
  /\ n.ed = s.ed \ E

\* Those a repair may archive.
Unprotected(s, S) == {x \in S : ~s.th[x].prot}

\* An archived row is as any other, but that it is archived and unprotected now.
LEMMA ShelvedIs ==
  ASSUME NEW row \in Rows, NEW t \in Times
  PROVE  /\ Shelved(row, t) \in Rows /\ Shelved(Shelved(row, t), t) = Shelved(row, t)
         /\ Shelved(row, t).status = "archived" /\ Shelved(row, t).prot = FALSE
         /\ Shelved(row, t).cluster = row.cluster /\ Shelved(row, t).content = row.content
<1> DEFINE new == Shelved(row, t)
<1>1. /\ DOMAIN new = DOMAIN row
      /\ DOMAIN row = {"content", "proj", "status", "prot", "cluster", "hash", "imp", "hit",
                       "pinned", "born", "gone", "stamp"}
  BY DEF Shelved, Rows
<1>2. \A f \in DOMAIN row :
        new[f] = IF f = "stamp" THEN t ELSE IF f = "prot" THEN FALSE ELSE IF f = "gone" THEN t
                 ELSE IF f = "status" THEN "archived" ELSE row[f]
  BY <1>1 DEF Shelved
<1>3. new \in Rows
  <2>1. new = [f \in DOMAIN row |-> new[f]]
    BY <1>1 DEF Shelved
  <2>2. /\ row.content \in STRING /\ row.proj \in STRING /\ row.cluster \in BOOLEAN
        /\ row.hash \in Seq(STRING) /\ row.imp \in 0..MaxImp /\ row.hit \in BOOLEAN
        /\ row.pinned \in BOOLEAN /\ row.born \in 1..MaxNow
    BY DEF Rows
  <2>3. t \in 1..MaxNow /\ t \in 0..MaxNow /\ "archived" \in Statuses
    BY DEF Times, Statuses
  <2> HIDE DEF new
  <2> QED BY <1>1, <1>2, <2>1, <2>2, <2>3 DEF Rows
<1>4. new.status = "archived" /\ new.prot = FALSE /\ new.cluster = row.cluster
      /\ new.content = row.content
  BY <1>1, <1>2
<1>5. Shelved(new, t) = new
  <2>1. new = [f \in DOMAIN row |-> new[f]]
    BY <1>1, <1>3 DEF Rows
  <2> HIDE DEF new
  <2>2. \A f \in DOMAIN row : Shelved(new, t)[f] = new[f]
    BY <1>1, <1>2 DEF Shelved
  <2>3. Shelved(new, t) = [f \in DOMAIN row |-> Shelved(new, t)[f]]
    BY <1>1, <2>1 DEF Shelved
  <2> QED BY <2>1, <2>2, <2>3
<1> QED BY <1>3, <1>4, <1>5

\* Archiving one thought changes its row and nothing else.
LEMMA ArchiveIs ==
  ASSUME NEW s, Store(s), NEW id \in DOMAIN s.th, NEW t \in Times
  PROVE  ArchiveThought(s, id, t).g = [s EXCEPT !.th[id] = Shelved(s.th[id], t)]
<1> DEFINE d == [status |-> "archived", gone |-> t, prot |-> FALSE]
           old == s.th[id]
           given == [f \in DOMAIN old |-> IF f \in DOMAIN d THEN d[f] ELSE old[f]]
           rehash == {"content", "proj"} \cap DOMAIN d # {}
           new == [given EXCEPT !.hash = IF rehash THEN Hash(given) ELSE @, !.stamp = t]
<1>1. old \in Rows
  BY DEF Store
<1> HIDE DEF old
<1>2. DOMAIN d = {"status", "gone", "prot"}
      /\ d["status"] = "archived" /\ d["gone"] = t /\ d["prot"] = FALSE
  OBVIOUS
<1> HIDE DEF d
<1>3. given = [old EXCEPT !.status = "archived", !.gone = t, !.prot = FALSE]
  <2>1. \A f \in DOMAIN old :
          given[f] = [old EXCEPT !.status = "archived", !.gone = t, !.prot = FALSE][f]
    BY <1>2
  <2> QED BY <1>1, <2>1 DEF Rows
<1> HIDE DEF given
<1>4. new = [given EXCEPT !.stamp = t] /\ new.status = "archived"
  BY <1>1, <1>3, <1>2 DEF Rows
<1>5. new = Shelved(old, t)
  BY <1>1, <1>3, <1>4 DEF Shelved, Rows
<1> HIDE DEF new
<1>6. ArchiveThought(s, id, t).g = [s EXCEPT !.th[id] = new]
  BY <1>2, <1>4 DEF d, ArchiveThought, UpdateThought, Has, Done, Refuse, new, given, old
<1> QED BY <1>5, <1>6 DEF old

\* archiveThoughts archives the ones that are not protected.
LEMMA ArchiveUnprotectedIs ==
  ASSUME NEW s, Store(s), NEW S \in SUBSET DOMAIN s.th, NEW t \in Times
  PROVE  Fixed(s, ArchiveUnprotected(s, S, t), Unprotected(s, S), {}, t)
<1>1. IsFiniteSet(S)
  BY FS_Subset DEF Store
<1>2. PICK f : ArchiveUnprotected(s, S, t) = f[S] /\ f[{}] = s /\ ArchiveUnprotectedSteps(f, S, t)
  BY <1>1, ArchiveUnprotectedFold
<1> DEFINE Row(T, x) == IF x \in Unprotected(s, T) THEN Shelved(s.th[x], t) ELSE s.th[x]
           Upto(T) == [s EXCEPT !.th = [x \in DOMAIN s.th |-> Row(T, x)]]
           D == {T \in SUBSET S : f[T] = Upto(T)}
<1>3. {} \in D
  <2>1. s.th = [x \in DOMAIN s.th |-> s.th[x]]
    BY DEF Store
  <2>2. \A x \in DOMAIN s.th : Row({}, x) = s.th[x]
    BY DEF Unprotected
  <2>3. Upto({}) = [s EXCEPT !.th = s.th]
    BY <2>1, <2>2
  <2>4. [s EXCEPT !.th = s.th] = s
    BY DEF Store
  <2> QED BY <1>2, <2>3, <2>4
<1>4. ASSUME NEW T \in SUBSET S, T # {}
      PROVE  \E x \in T : T \ {x} \in D => T \in D
  <2>1. PICK x \in T : LET acc == f[T \ {x}]
                       IN  f[T] = IF Has(acc, x) /\ ~acc.th[x].prot
                                  THEN ArchiveThought(acc, x, t).g ELSE acc
    BY <1>2, <1>4 DEF ArchiveUnprotectedSteps
  <2> DEFINE a == Upto(T \ {x})
  <2>2. x \in DOMAIN s.th /\ s.th[x] \in Rows /\ x \notin Unprotected(s, T \ {x})
    BY DEF Unprotected, Store
  <2>3. DOMAIN a.th = DOMAIN s.th /\ a.th[x] = s.th[x]
    BY <2>2 DEF Store
  <2>4. \A y \in DOMAIN s.th : y # x => Row(T, y) = Row(T \ {x}, y)
    BY DEF Unprotected
  <2>5. Row(T, x) = IF s.th[x].prot THEN s.th[x] ELSE Shelved(s.th[x], t)
    BY <2>2 DEF Unprotected
  <2>6. Store(a)
    <3>1. \A y \in DOMAIN s.th : Row(T \ {x}, y) \in Rows
      BY ShelvedIs DEF Store
    <3> DEFINE F == [y \in DOMAIN s.th |-> Row(T \ {x}, y)]
    <3>2. F \in [DOMAIN F -> Rows] /\ DOMAIN F = DOMAIN s.th
      BY <3>1
    <3>3. a = [s EXCEPT !.th = F]
      OBVIOUS
    <3> HIDE DEF F, a
    <3>4. /\ a.th = F /\ a.ed = s.ed /\ a.projs = s.projs /\ a.made = s.made /\ a.ver = s.ver
          /\ a = [th |-> F, ed |-> s.ed, projs |-> s.projs, made |-> s.made, ver |-> s.ver]
      BY <3>3 DEF Store
    <3> QED BY <3>2, <3>4 DEF Store
  <2>7. ASSUME f[T \ {x}] = a PROVE f[T] = Upto(T)
    <3>1. CASE s.th[x].prot
      <4>1. f[T] = a
        BY <2>1, <2>3, <2>7, <3>1
      <4>2. \A y \in DOMAIN s.th : Row(T, y) = Row(T \ {x}, y)
        BY <2>2, <2>3, <2>4, <2>5, <3>1
      <4> QED BY <4>1, <4>2
    <3>2. CASE ~s.th[x].prot
      <4>1. f[T] = ArchiveThought(a, x, t).g
        BY <2>1, <2>2, <2>3, <2>7, <3>2 DEF Has
      <4> HIDE DEF a
      <4>2. f[T] = [a EXCEPT !.th[x] = Shelved(s.th[x], t)]
        BY <2>2, <2>3, <2>6, <4>1, ArchiveIs
      <4>3. \A y \in DOMAIN s.th :
              Row(T, y) = IF y = x THEN Shelved(s.th[x], t) ELSE Row(T \ {x}, y)
        BY <2>4, <2>5, <3>2
      <4>4. a = Upto(T \ {x})
        BY DEF a
      <4> HIDE DEF Row
      <4>5. [a EXCEPT !.th[x] = Shelved(s.th[x], t)] = Upto(T)
        BY <2>2, <4>3, <4>4 DEF Store
      <4> QED BY <4>2, <4>5
    <3> QED BY <3>1, <3>2
  <2> HIDE DEF a
  <2>8. T \ {x} \in D => T \in D
    BY <2>7 DEF a
  <2> QED BY <2>8
<1> HIDE DEF D
<1>5. Climbs(S, D)
  BY <1>3, <1>4 DEF Climbs
<1>6. S \in D
  BY <1>1, <1>5, SubsetInduction
<1>7. f[S] = Upto(S)
  BY <1>6 DEF D
<1> HIDE DEF Row
<1>8. Upto(S).th = [x \in DOMAIN s.th |-> Row(S, x)] /\ Upto(S).ed = s.ed
  BY DEF Store
<1> QED BY <1>2, <1>7, <1>8 DEF Fixed, Row

\* archiveThoughts after other repairs.
LEMMA ArchiveMore ==
  ASSUME NEW s, Store(s), NEW a, Store(a), NEW A, NEW E, NEW t \in Times, Fixed(s, a, A, E, t),
         NEW S \in SUBSET DOMAIN s.th
  PROVE  Fixed(s, ArchiveUnprotected(a, S, t), A \cup Unprotected(s, S), E, t)
<1> PICK n : n = ArchiveUnprotected(a, S, t)
  OBVIOUS
<1>1. DOMAIN a.th = DOMAIN s.th
  BY DEF Fixed
<1>2. Fixed(a, n, Unprotected(a, S), {}, t)
  BY <1>1, ArchiveUnprotectedIs
<1>3. n.ed = s.ed \ E /\ n.th = [x \in DOMAIN s.th |-> n.th[x]]
  BY <1>1, <1>2 DEF Fixed
<1>4. ASSUME NEW x \in DOMAIN s.th
      PROVE  n.th[x] = IF x \in A \cup Unprotected(s, S) THEN Shelved(s.th[x], t) ELSE s.th[x]
  <2> PICK row, shelved : row = s.th[x] /\ shelved = Shelved(row, t)
    OBVIOUS
  <2>1. row \in Rows
    BY DEF Store
  <2>2. Shelved(shelved, t) = shelved /\ shelved.prot = FALSE
    BY <2>1, ShelvedIs
  <2>3. /\ a.th[x] = IF x \in A THEN shelved ELSE row
        /\ n.th[x] = IF x \in S /\ ~a.th[x].prot THEN Shelved(a.th[x], t) ELSE a.th[x]
    BY <1>1, <1>2 DEF Fixed, Unprotected
  <2>4. x \in Unprotected(s, S) <=> x \in S /\ ~row.prot
    BY DEF Unprotected
  <2> QED BY <2>2, <2>3, <2>4
<1> QED BY <1>3, <1>4 DEF Fixed

\* The repairs of a report are six.
LEMMA SixIsFinite == IsFiniteSet(1..6)
<1>1. \A n \in Nat : IsFiniteSet(1..n)
  BY FS_Interval
<1> QED BY <1>1

\* runAutoFix as a fold: each repair is made once, in some order.
RepairSteps(f, L, t) ==
  \A T \in SUBSET DOMAIN L : T # {} => \E x \in T : f[T] = Autofix(f[T \ {x}], L[x], t)

\* The fold of runAutoFix, as a function on the sets of repairs made.
LEMMA RepairedFold ==
  ASSUME NEW s, NEW t, NEW L, L = RepairList(s)
  PROVE  \E f : Repaired(s, t) = f[DOMAIN L] /\ f[{}] = s /\ RepairSteps(f, L, t)
<1> DEFINE Op(x, acc) == Autofix(acc, L[x], t)
           Ch(T) == Max(T)
           S0 == DOMAIN L
           Body(f, T) == IF T = {} THEN s ELSE Op(Ch(T), f[T \ {Ch(T)}])
           Is(f, D) == f = [T \in D |-> Body(f, T)]
           N == {n \in Nat : \E f : Is(f, UpTo(S0, n))}
           it == CHOOSE f : Is(f, SUBSET S0)
<1>1. Repaired(s, t) = it[S0]
  BY DEF Repaired, FoldLeft, MapThenFoldSet, Max
<1>2. IsFiniteSet(S0) /\ \A T \in SUBSET S0 : T # {} => Ch(T) \in T
  <2>1. S0 = 1..6
    BY DEF RepairList
  <2>2. IsFiniteSet(S0)
    BY <2>1, SixIsFinite
  <2>3. S0 \subseteq Nat
    BY <2>1
  <2> HIDE DEF S0
  <2>4. ASSUME NEW T \in SUBSET S0, T # {} PROVE Ch(T) \in T
    <3>1. \E x \in T : \A y \in T : x >= y
      BY <2>2, <2>3, <2>4, GreatestOf
    <3> QED BY <3>1 DEF Max
  <2> QED BY <2>2, <2>4
<1> HIDE DEF Op, Ch, S0
<1>3. 0 \in N
  <2>1. Is([T \in UpTo(S0, 0) |-> s], UpTo(S0, 0))
    BY <1>2, UpToIs
  <2> QED BY <2>1
<1>4. ASSUME NEW n \in Nat, n \in N PROVE n + 1 \in N
  <2>1. PICK f : Is(f, UpTo(S0, n))
    BY <1>4
  <2> DEFINE h == [T \in UpTo(S0, n + 1) |-> Body(f, T)]
  <2>2. \A T \in UpTo(S0, n) : h[T] = f[T]
    BY <1>2, <2>1, UpToIs
  <2>3. \A T \in UpTo(S0, n + 1) : T # {} => T \ {Ch(T)} \in UpTo(S0, n)
    <3>1. \A T \in UpTo(S0, n + 1) : T \in SUBSET S0
      BY DEF UpTo
    <3> QED BY <1>2, <3>1, UpToIs
  <2>4. \A T \in UpTo(S0, n + 1) : Body(h, T) = Body(f, T)
    <3> HIDE DEF h
    <3> QED BY <2>2, <2>3
  <2>5. Is(h, UpTo(S0, n + 1))
    BY <2>4
  <2> HIDE DEF h, Is
  <2> QED BY <2>5
<1> HIDE DEF N
<1>5. Cardinality(S0) \in N /\ UpTo(S0, Cardinality(S0)) = SUBSET S0
  BY <1>2, <1>3, <1>4, Levels, UpToIs
<1>6. Is(it, SUBSET S0)
  <2>1. \E f : Is(f, SUBSET S0)
    BY <1>5 DEF N
  <2> HIDE DEF Is
  <2> QED BY <2>1
<1>7. it[{}] = s
  BY <1>6
<1>8. ASSUME NEW T \in SUBSET S0, T # {} PROVE it[T] = Op(Ch(T), it[T \ {Ch(T)}])
  BY <1>6, <1>8
<1> HIDE DEF it
<1>9. \A T \in SUBSET S0 : T # {} => \E x \in T : it[T] = Op(x, it[T \ {x}])
  BY <1>2, <1>8
<1>10. RepairSteps(it, L, t)
  BY <1>9 DEF RepairSteps, Op, S0
<1> QED BY <1>1, <1>7, <1>10 DEF S0

\* What the repairs of a report take: the thoughts they archive and the edges they cut.
Shelves(s, T) ==
  LET archiving == {k \in T : RepairList(s)[k].check \in ArchivingChecks}
  IN  Unprotected(s, UNION {RepairList(s)[i].found : i \in archiving})
Cuts(s, T) ==
  LET cutting == {k \in T : RepairList(s)[k].check \notin ArchivingChecks}
  IN  UNION {RepairList(s)[i].found : i \in cutting}

\* One pass archives and cuts what its report names, in whatever order, and
\* nothing else.
LEMMA RepairedOnce ==
  ASSUME NEW t \in Times, NEW s, Good(s)
  PROVE  /\ Good(Repaired(s, t)) /\ Grows(s, Repaired(s, t), t)
         /\ Fixed(s, Repaired(s, t), Shelves(s, 1..6), Cuts(s, 1..6), t)
<1> PICK L : L = RepairList(s)
  OBVIOUS
<1>1. Store(s)
  BY DEF Good
<1>2. DOMAIN L = 1..6 /\ IsFiniteSet(DOMAIN L)
  <2>1. DOMAIN L = 1..6
    BY DEF RepairList
  <2> QED BY <2>1, SixIsFinite
<1>3. PICK f : Repaired(s, t) = f[DOMAIN L] /\ f[{}] = s /\ RepairSteps(f, L, t)
  BY RepairedFold
<1>4. \A i \in DOMAIN L : /\ Listed(L[i])
                          /\ L[i].check \in ArchivingChecks => L[i].found \subseteq DOMAIN s.th
  <2>1. \A i \in DOMAIN L : Listed(L[i])
    BY <1>1, RepairListIs
  <2>2. L[3].found \subseteq DOMAIN s.th /\ L[5].found \subseteq DOMAIN s.th
    BY DEF RepairList, EmptyClusters, LiveClusters, TestRemnants, Live
  <2>3. \A i \in DOMAIN L : L[i].check \in ArchivingChecks => i = 3 \/ i = 5
    BY <1>2 DEF RepairList, ArchivingChecks
  <2> QED BY <2>1, <2>2, <2>3
<1> DEFINE Doing(n, T) == Fixed(s, n, Shelves(s, T), Cuts(s, T), t)
           D == {T \in SUBSET DOMAIN L : Good(f[T]) /\ Grows(s, f[T], t) /\ Doing(f[T], T)}
<1>5. {} \in D
  <2>1. Shelves(s, {}) = {} /\ Cuts(s, {}) = {}
    BY DEF Shelves, Cuts, Unprotected
  <2>2. s.th = [x \in DOMAIN s.th |-> s.th[x]]
    BY <1>1 DEF Store
  <2> QED BY <1>1, <1>3, <2>1, <2>2, GrowsSame DEF Fixed
<1>6. ASSUME NEW T \in SUBSET DOMAIN L, T # {}
      PROVE  \E x \in T : T \ {x} \in D => T \in D
  <2>1. PICK x \in T : f[T] = Autofix(f[T \ {x}], L[x], t)
    BY <1>3, <1>6 DEF RepairSteps
  <2> PICK a, n, item, U : a = f[T \ {x}] /\ n = f[T] /\ item = L[x] /\ U = T \ {x}
    OBVIOUS
  <2>2. n = Autofix(a, item, t) /\ Listed(item) /\ x \in DOMAIN L
    BY <1>4, <2>1
  <2>3. ASSUME Good(a), Grows(s, a, t), Doing(a, U)
        PROVE  Good(n) /\ Grows(s, n, t) /\ Doing(n, T)
    <3>1. Good(n) /\ Grows(a, n, t)
      BY <2>2, <2>3, AutofixGood
    <3>2. Grows(s, n, t)
      BY <1>1, <2>3, <3>1, GrowsOn DEF Good
    <3>3. CASE item.check \in ArchivingChecks
      <4>1. item.found \subseteq DOMAIN s.th /\ n = ArchiveUnprotected(a, item.found, t)
        BY <1>4, <2>2, <3>3 DEF Autofix
      <4>2. Fixed(s, n, Shelves(s, U) \cup Unprotected(s, item.found), Cuts(s, U), t)
        <5> PICK A, E, S : A = Shelves(s, U) /\ E = Cuts(s, U) /\ S = item.found
          OBVIOUS
        <5>1. Store(a) /\ Fixed(s, a, A, E, t) /\ S \in SUBSET DOMAIN s.th
          BY <2>3, <4>1 DEF Good
        <5>2. Fixed(s, ArchiveUnprotected(a, S, t), A \cup Unprotected(s, S), E, t)
          BY ONLY <1>1, <5>1, t \in Times, ArchiveMore
        <5> QED BY <4>1, <5>2
      <4>3. Shelves(s, T) = Shelves(s, U) \cup Unprotected(s, item.found)
        BY <3>3 DEF Shelves, Unprotected
      <4>4. Cuts(s, T) = Cuts(s, U)
        BY <3>3 DEF Cuts
      <4> QED BY <3>1, <3>2, <4>2, <4>3, <4>4
    <3>4. CASE item.check \notin ArchivingChecks
      <4>1. n = [a EXCEPT !.ed = @ \ item.found]
        BY <2>2, <3>4 DEF Autofix
      <4>2. n.th = a.th /\ n.ed = a.ed \ item.found
        BY <2>3, <4>1 DEF Good, Store
      <4>3. Shelves(s, T) = Shelves(s, U)
        BY <3>4 DEF Shelves
      <4>4. Cuts(s, T) = Cuts(s, U) \cup item.found
        BY <3>4 DEF Cuts
      <4>5. n.ed = s.ed \ Cuts(s, T)
        BY <2>3, <4>2, <4>4 DEF Fixed
      <4>6. Doing(n, T)
        BY <2>3, <4>2, <4>3, <4>5 DEF Fixed
      <4> QED BY <3>1, <3>2, <4>6
    <3> QED BY <3>3, <3>4
  <2> HIDE DEF Doing
  <2>4. U \in D => T \in D
    BY <2>3
  <2> QED BY <2>4
<1> HIDE DEF D
<1>7. Climbs(DOMAIN L, D)
  BY <1>5, <1>6 DEF Climbs
<1>8. DOMAIN L \in D
  BY <1>2, <1>7, SubsetInduction
<1> QED BY <1>2, <1>3, <1>8 DEF D

\* In a store in order the only edges cut are those to an archived parent.
LEMMA RepairTakes ==
  ASSUME NEW s, Good(s)
  PROVE  /\ Shelves(s, 1..6) = Unprotected(s, EmptyClusters(s) \cup TestRemnants(s))
         /\ Cuts(s, 1..6) = ArchivedParentEdges(s)
<1> PICK L : L = RepairList(s)
  OBVIOUS
<1>1. OrphanEdges(s) = {} /\ SelfLoopEdges(s) = {} /\ OrphanedClusterMembers(s) = {}
  BY SoundIs DEF Good, StructurallySound
<1>2. /\ L[1].found = {} /\ L[2].found = {} /\ L[4].found = {}
      /\ L[3].found = EmptyClusters(s) /\ L[5].found = TestRemnants(s)
      /\ L[6].found = ArchivedParentEdges(s)
  BY <1>1 DEF RepairList
<1>3. /\ L[3].check \in ArchivingChecks /\ L[5].check \in ArchivingChecks
      /\ L[1].check \notin ArchivingChecks /\ L[2].check \notin ArchivingChecks
      /\ L[4].check \notin ArchivingChecks /\ L[6].check \notin ArchivingChecks
  BY DEF RepairList, ArchivingChecks
<1>4. \A i \in 1..6 : i = 1 \/ i = 2 \/ i = 3 \/ i = 4 \/ i = 5 \/ i = 6
  OBVIOUS
<1>5. {k \in 1..6 : L[k].check \in ArchivingChecks} = {3, 5}
      /\ {k \in 1..6 : L[k].check \notin ArchivingChecks} = {1, 2, 4, 6}
  BY <1>3, <1>4
<1>6. UNION {L[i].found : i \in {3, 5}} = EmptyClusters(s) \cup TestRemnants(s)
  BY <1>2
<1>7. UNION {L[i].found : i \in {1, 2, 4, 6}} = ArchivedParentEdges(s)
  BY <1>2
<1> PICK I, J : /\ I = {k \in 1..6 : L[k].check \in ArchivingChecks}
                 /\ J = {k \in 1..6 : L[k].check \notin ArchivingChecks}
  OBVIOUS
<1>8. /\ Shelves(s, 1..6) = Unprotected(s, UNION {L[i].found : i \in I})
      /\ Cuts(s, 1..6) = UNION {L[i].found : i \in J}
  BY DEF Shelves, Cuts
<1>9. I = {3, 5} /\ J = {1, 2, 4, 6}
  BY <1>5
<1> QED BY ONLY <1>6, <1>7, <1>8, <1>9

\* Two passes of repair at t made h of s.
Healed(s, h, t) ==
  /\ DOMAIN h.th = DOMAIN s.th
  /\ \A x \in DOMAIN s.th : h.th[x] = s.th[x] \/ (~s.th[x].prot /\ h.th[x] = Shelved(s.th[x], t))
  /\ h.ed \subseteq s.ed
  /\ \A e \in s.ed \ h.ed : e.type \in HierarchyTypes /\ h.th[e.t].status = "archived"
  /\ \A e \in OfType(h, HierarchyTypes) :
       h.th[e.t].status = "archived" => h.th[e.s].status = "archived"

\* What the first pass took the second finds no more.
LEMMA TakenOnce ==
  ASSUME NEW s, Store(s), NEW t \in Times, NEW n,
         Fixed(s, n, Unprotected(s, EmptyClusters(s) \cup TestRemnants(s)),
               ArchivedParentEdges(s), t)
  PROVE  Unprotected(n, EmptyClusters(n) \cup TestRemnants(n)) = {}
<1> DEFINE A == Unprotected(s, EmptyClusters(s) \cup TestRemnants(s))
<1>1. /\ DOMAIN n.th = DOMAIN s.th
      /\ \A x \in DOMAIN s.th : n.th[x] = IF x \in A THEN Shelved(s.th[x], t) ELSE s.th[x]
  BY DEF Fixed
<1>2. ASSUME NEW x \in Live(n) PROVE x \in Live(s) /\ n.th[x] = s.th[x] /\ x \notin A
  <2>1. x \in DOMAIN s.th /\ s.th[x] \in Rows /\ n.th[x].status # "archived"
    BY <1>1, <1>2 DEF Live, Store
  <2>2. Shelved(s.th[x], t).status = "archived"
    BY <2>1, ShelvedIs
  <2>3. x \notin A
    BY <1>1, <2>1, <2>2
  <2> HIDE DEF A
  <2>4. n.th[x] = s.th[x]
    BY <1>1, <2>1, <2>3
  <2> QED BY <2>1, <2>3, <2>4 DEF Live
<1>3. \A c : Members(n, c) = Members(s, c)
  <2>1. \A e \in s.ed : e.type = "cluster" => e \in n.ed
    BY DEF Fixed, ArchivedParentEdges, BrokenParentChains, OfType, HierarchyTypes
  <2>2. n.ed \subseteq s.ed
    BY DEF Fixed
  <2> QED BY <2>1, <2>2 DEF Members
<1>4. ASSUME NEW x \in EmptyClusters(n)
      PROVE  x \in EmptyClusters(s) /\ n.th[x] = s.th[x] /\ x \notin A
  <2>1. x \in Live(n) /\ n.th[x].cluster /\ Members(n, x) = {}
    BY <1>4 DEF EmptyClusters, LiveClusters
  <2> HIDE DEF A
  <2> QED BY <1>2, <1>3, <2>1 DEF EmptyClusters, LiveClusters
<1>5. ASSUME NEW x \in TestRemnants(n)
      PROVE  x \in TestRemnants(s) /\ n.th[x] = s.th[x] /\ x \notin A
  <2>1. x \in Live(n) /\ ~n.th[x].cluster /\ n.th[x].content \in TestContents
    BY <1>5 DEF TestRemnants, Regular
  <2> HIDE DEF A
  <2>2. x \in Live(s) /\ n.th[x] = s.th[x] /\ x \notin A
    BY <1>2, <2>1
  <2> QED BY <2>1, <2>2 DEF TestRemnants, Regular, Live
<1>6. ASSUME NEW x \in EmptyClusters(n) \cup TestRemnants(n) PROVE n.th[x].prot
  <2>1. x \in EmptyClusters(s) \cup TestRemnants(s) /\ n.th[x] = s.th[x] /\ x \notin A
    BY <1>4, <1>5, <1>6
  <2> QED BY <2>1 DEF Unprotected
<1> QED BY <1>6 DEF Unprotected

\* So the second only cuts the edges to what the first archived.
LEMMA RepairedTwice ==
  ASSUME NEW t \in Times, NEW s, Good(s),
         NEW h, h = Repaired(Repaired(s, t), t)
  PROVE  Good(h) /\ Healed(s, h, t)
<1> PICK n : n = Repaired(s, t)
  OBVIOUS
<1> PICK A : A = Unprotected(s, EmptyClusters(s) \cup TestRemnants(s))
  OBVIOUS
<1>1. Good(n) /\ Fixed(s, n, A, ArchivedParentEdges(s), t)
  BY RepairedOnce, RepairTakes
<1>2. Good(h) /\ Fixed(n, h, {}, ArchivedParentEdges(n), t)
  <2>1. Good(h) /\ Fixed(n, h, Shelves(n, 1..6), Cuts(n, 1..6), t)
    BY <1>1, RepairedOnce
  <2>2. Cuts(n, 1..6) = ArchivedParentEdges(n)
        /\ Shelves(n, 1..6) = Unprotected(n, EmptyClusters(n) \cup TestRemnants(n))
    BY <1>1, RepairTakes
  <2>3. Unprotected(n, EmptyClusters(n) \cup TestRemnants(n)) = {}
    BY <1>1, TakenOnce DEF Good
  <2> QED BY <2>1, <2>2, <2>3
<1>3. /\ DOMAIN n.th = DOMAIN s.th /\ DOMAIN h.th = DOMAIN s.th
      /\ \A x \in DOMAIN s.th : h.th[x] = n.th[x]
      /\ \A x \in DOMAIN s.th : h.th[x] = IF x \in A THEN Shelved(s.th[x], t) ELSE s.th[x]
      /\ n.ed = s.ed \ ArchivedParentEdges(s) /\ h.ed = n.ed \ ArchivedParentEdges(n)
  BY <1>1, <1>2 DEF Fixed
<1>4. \A x \in A : ~s.th[x].prot
  BY DEF Unprotected
<1>5. \A e \in s.ed : Has(s, e.s) /\ Has(s, e.t)
  BY DEF Good, EdgesSound
<1>6. \A x \in DOMAIN s.th : Shelved(s.th[x], t).status = "archived"
  BY ShelvedIs DEF Good, Store
<1>7. ASSUME NEW e \in s.ed \ h.ed PROVE e.type \in HierarchyTypes /\ h.th[e.t].status = "archived"
  <2>1. CASE e \in ArchivedParentEdges(s)
    <3>1. e.type \in HierarchyTypes /\ s.th[e.t].status = "archived"
      BY <2>1 DEF ArchivedParentEdges, BrokenParentChains, OfType
    <3> QED BY <1>3, <1>5, <1>6, <1>7, <3>1 DEF Has
  <2>2. CASE e \in ArchivedParentEdges(n)
    <3>1. e.type \in HierarchyTypes /\ n.th[e.t].status = "archived"
      BY <2>2 DEF ArchivedParentEdges, BrokenParentChains, OfType
    <3> QED BY <1>3, <1>5, <1>7, <3>1 DEF Has
  <2> QED BY <1>3, <1>7, <2>1, <2>2
<1>8. ASSUME NEW e \in OfType(h, HierarchyTypes), h.th[e.t].status = "archived"
      PROVE  h.th[e.s].status = "archived"
  <2>1. e \in n.ed /\ e \in s.ed /\ e \notin ArchivedParentEdges(n) /\ e.type \in HierarchyTypes
    BY <1>3, <1>8 DEF OfType
  <2>2. n.th[e.s] = h.th[e.s] /\ n.th[e.t] = h.th[e.t]
    BY <1>3, <1>5, <2>1 DEF Has
  <2> QED BY <1>8, <2>1, <2>2 DEF ArchivedParentEdges, BrokenParentChains, OfType
<1>9. h.ed \subseteq s.ed
  BY <1>3
<1>10. \A x \in DOMAIN s.th : h.th[x] = s.th[x] \/ (~s.th[x].prot /\ h.th[x] = Shelved(s.th[x], t))
  BY <1>3, <1>4
<1> QED BY <1>2, <1>3, <1>7, <1>8, <1>9, <1>10 DEF Healed

\* With fewer edges less is below a thought.
LEMMA BelowShrinks ==
  ASSUME NEW s, NEW h, h.ed \subseteq s.ed, NEW x
  PROVE  Below(h, x) \subseteq Below(s, x)
<1> DEFINE down(g0) == OfType(g0, HierarchyTypes)
           ends(g0) == {e.t : e \in down(g0)}
           Closed(g0, S) == \A e \in down(g0) : e.s \in S \cup {x} => e.t \in S
<1>1. \A g0, y : y \in Below(g0, x) <=>
                   y \in ends(g0) /\ \A S \in SUBSET ends(g0) : Closed(g0, S) => y \in S
  BY DEF Below
<1>2. down(h) \subseteq down(s)
  BY DEF OfType
<1> HIDE DEF down
<1>3. ends(h) \subseteq ends(s)
  BY <1>2
<1>4. ASSUME NEW y \in Below(h, x), NEW S \in SUBSET ends(s), Closed(s, S) PROVE y \in S
  <2>1. S \cap ends(h) \in SUBSET ends(h) /\ Closed(h, S \cap ends(h))
    BY <1>2, <1>4
  <2>2. PICK R : R = S \cap ends(h)
    OBVIOUS
  <2> HIDE DEF ends, Closed
  <2>3. y \in R
    BY <1>1, <1>4, <2>1, <2>2
  <2> QED BY <2>2, <2>3
<1> QED BY <1>1, <1>3, <1>4

\* What is left of a store that was repaired.
LEMMA HealedIs ==
  ASSUME NEW s, Store(s), NEW t \in Times, NEW h, Healed(s, h, t)
  PROVE  /\ DOMAIN h.th = DOMAIN s.th /\ h.ed \subseteq s.ed
         /\ \A x \in DOMAIN s.th : /\ h.th[x].cluster = s.th[x].cluster
                                   /\ h.th[x].status = "archived" \/ h.th[x] = s.th[x]
         /\ \A e \in s.ed : e.type \notin HierarchyTypes => e \in h.ed
         /\ Live(h) \subseteq Live(s)
         /\ \A c : Members(h, c) = Members(s, c)
         /\ \A x : EdgesOf(h, x) \subseteq EdgesOf(s, x)
         /\ \A x : Below(h, x) \subseteq Below(s, x)
<1>1. DOMAIN h.th = DOMAIN s.th /\ h.ed \subseteq s.ed
  BY DEF Healed
<1>2. ASSUME NEW x \in DOMAIN s.th
      PROVE  h.th[x].cluster = s.th[x].cluster /\ (h.th[x].status = "archived" \/ h.th[x] = s.th[x])
  <2> PICK row, new : row = s.th[x] /\ new = h.th[x]
    OBVIOUS
  <2>1. row \in Rows
    BY DEF Store
  <2>2. new = row \/ new = Shelved(row, t)
    BY DEF Healed
  <2>3. Shelved(row, t).status = "archived" /\ Shelved(row, t).cluster = row.cluster
    BY <2>1, ShelvedIs
  <2> QED BY <2>2, <2>3
<1>3. \A e \in s.ed : e.type \notin HierarchyTypes => e \in h.ed
  BY DEF Healed
<1>4. Live(h) \subseteq Live(s)
  BY <1>1, <1>2 DEF Live
<1>5. \A c : Members(h, c) = Members(s, c)
  BY <1>1, <1>3 DEF Members, HierarchyTypes
<1>6. \A x : EdgesOf(h, x) \subseteq EdgesOf(s, x)
  BY <1>1 DEF EdgesOf
<1> QED BY <1>1, <1>2, <1>3, <1>4, <1>5, <1>6, BelowShrinks

\* The warnings of a report.
Warned(s, t) == {c.category : c \in {k \in Report(s, t) : k.severity = "warning" /\ k.count > 0}}

\* The checks of a category that make it one of them.
Troubled(s, t, cat) ==
  \/ /\ cat = "cluster"
     /\ \/ EmptyClusters(s) # {} \/ SingletonClusters(s) # {}
        \/ OrphanedClusterMembers(s) # {} \/ ClusterlessDense(s, t) # {}
  \/ cat = "connectivity" /\ OverlinkedThoughts(s) # {}
  \/ /\ cat = "semantic"
     /\ \/ CircularChains(s) # {} \/ BrokenParentChains(s) # {}
        \/ ContradictsWithHierarchy(s) # {} \/ ContradictionInCluster(s) # {}

\* The columns of a finding, and what its count tells.
LEMMA CheckIs ==
  /\ \A name, category, severity, found :
       LET c == Check(name, category, severity, found)
       IN  /\ c.name = name /\ c.category = category /\ c.severity = severity
           /\ c.count = Cardinality(found)
  /\ Cardinality({}) = 0
  /\ \A found : IsFiniteSet(found) /\ found # {} => Cardinality(found) > 0
<1>1. Cardinality({}) = 0
  BY FS_EmptySet
<1>2. \A found : IsFiniteSet(found) /\ found # {} => Cardinality(found) > 0
  <2>1. \A found : IsFiniteSet(found) =>
          Cardinality(found) \in Nat /\ (Cardinality(found) = 0 <=> found = {})
    BY FS_CardinalityType, FS_EmptySet
  <2> QED BY <2>1
<1> QED BY <1>1, <1>2 DEF Check

\* The findings of the warnings are finite.
LEMMA FindingsFinite ==
  ASSUME NEW s, Store(s), NEW t
  PROVE  /\ IsFiniteSet(EmptyClusters(s)) /\ IsFiniteSet(SingletonClusters(s))
         /\ IsFiniteSet(OrphanedClusterMembers(s)) /\ IsFiniteSet(ClusterlessDense(s, t))
         /\ IsFiniteSet(OverlinkedThoughts(s)) /\ IsFiniteSet(CircularChains(s))
         /\ IsFiniteSet(BrokenParentChains(s)) /\ IsFiniteSet(ContradictsWithHierarchy(s))
         /\ IsFiniteSet(ContradictionInCluster(s))
<1>1. \A S : S \subseteq s.ed \/ S \subseteq DOMAIN s.th => IsFiniteSet(S)
  BY FS_Subset DEF Store
<1>2. /\ EmptyClusters(s) \subseteq DOMAIN s.th /\ SingletonClusters(s) \subseteq DOMAIN s.th
      /\ ClusterlessDense(s, t) \subseteq DOMAIN s.th /\ OverlinkedThoughts(s) \subseteq DOMAIN s.th
      /\ CircularChains(s) \subseteq DOMAIN s.th
  BY DEF EmptyClusters, SingletonClusters, LiveClusters, Live, ClusterlessDense, Regular,
         OverlinkedThoughts, CircularChains
<1>3. /\ OrphanedClusterMembers(s) \subseteq s.ed /\ BrokenParentChains(s) \subseteq s.ed
      /\ ContradictsWithHierarchy(s) \subseteq s.ed /\ ContradictionInCluster(s) \subseteq s.ed
  BY DEF OrphanedClusterMembers, BrokenParentChains, ContradictsWithHierarchy,
         ContradictionInCluster, Contradictions, OfType
<1> QED BY <1>1, <1>2, <1>3

\* A category has a warning if one of its checks finds something.
LEMMA WarnedIs ==
  ASSUME NEW s, Store(s), NEW t, NEW cat
  PROVE  cat \in Warned(s, t) <=> Troubled(s, t, cat)
<1>1. ASSUME NEW k \in Report(s, t), k.severity = "warning", k.count > 0
      PROVE  Troubled(s, t, k.category)
  <2>1. \/ k = Check("empty_clusters", "cluster", "warning", EmptyClusters(s))
        \/ k = Check("singleton_clusters", "cluster", "warning", SingletonClusters(s))
        \/ k = Check("orphaned_cluster_members", "cluster", "warning", OrphanedClusterMembers(s))
        \/ k = Check("clusterless_dense_thoughts", "cluster", "warning", ClusterlessDense(s, t))
        \/ k = Check("overlinked_thoughts", "connectivity", "warning", OverlinkedThoughts(s))
        \/ k = Check("circular_chains", "semantic", "warning", CircularChains(s))
        \/ k = Check("broken_parent_chains", "semantic", "warning", BrokenParentChains(s))
        \/ k = Check("contradicts_with_hierarchy", "semantic", "warning",
                     ContradictsWithHierarchy(s))
        \/ k = Check("contradiction_in_cluster", "semantic", "warning", ContradictionInCluster(s))
    BY <1>1, CheckIs DEF Report
  <2>2. ASSUME NEW name, NEW category, NEW found, k = Check(name, category, "warning", found)
        PROVE  k.category = category /\ found # {}
    <3>1. k.category = category /\ Cardinality(found) > 0
      BY <1>1, <2>2, CheckIs
    <3>2. ~(Cardinality({}) > 0)
      BY CheckIs
    <3> QED BY <3>1, <3>2
  <2> QED BY <2>1, <2>2 DEF Troubled
<1>2. ASSUME NEW name, NEW category, NEW found, IsFiniteSet(found), found # {},
             Check(name, category, "warning", found) \in Report(s, t)
      PROVE  category \in Warned(s, t)
  <2> PICK k : k = Check(name, category, "warning", found)
    OBVIOUS
  <2>1. k \in Report(s, t) /\ k.severity = "warning" /\ k.count > 0 /\ k.category = category
    BY <1>2, CheckIs
  <2> QED BY <2>1 DEF Warned
<1>3. ASSUME Troubled(s, t, cat) PROVE cat \in Warned(s, t)
  <2>1. { Check("empty_clusters", "cluster", "warning", EmptyClusters(s)),
          Check("singleton_clusters", "cluster", "warning", SingletonClusters(s)),
          Check("orphaned_cluster_members", "cluster", "warning", OrphanedClusterMembers(s)),
          Check("clusterless_dense_thoughts", "cluster", "warning", ClusterlessDense(s, t)),
          Check("overlinked_thoughts", "connectivity", "warning", OverlinkedThoughts(s)),
          Check("circular_chains", "semantic", "warning", CircularChains(s)),
          Check("broken_parent_chains", "semantic", "warning", BrokenParentChains(s)),
          Check("contradicts_with_hierarchy", "semantic", "warning", ContradictsWithHierarchy(s)),
          Check("contradiction_in_cluster", "semantic", "warning", ContradictionInCluster(s)) }
          \subseteq Report(s, t)
    BY DEF Report
  <2> QED BY <1>2, <1>3, <2>1, FindingsFinite DEF Troubled
<1>4. ASSUME cat \in Warned(s, t) PROVE Troubled(s, t, cat)
  BY <1>1, <1>4 DEF Warned
<1> QED BY <1>3, <1>4

\* There are three categories a warning can be of.
LEMMA WarnedFinite ==
  ASSUME NEW s, Store(s), NEW t
  PROVE  IsFiniteSet(Warned(s, t)) /\ Cardinality(Warned(s, t)) \in Nat
<1>1. IsFiniteSet({"cluster"} \cup {"connectivity"} \cup {"semantic"})
  BY FS_Singleton, FS_Union
<1>2. Warned(s, t) \subseteq {"cluster"} \cup {"connectivity"} \cup {"semantic"}
  BY WarnedIs DEF Troubled
<1> QED BY <1>1, <1>2, FS_Subset, FS_CardinalityType

\* A score that shows no notes counts the categories with a critical finding, of
\* which a store in order has none, and those with a warning.
LEMMA ScoreIs ==
  ASSUME NEW s, Good(s), NEW t
  PROVE  HealthScore(s, t, "warning") = IF 60 * Cardinality(Warned(s, t)) > 400 THEN 0
                                        ELSE 400 - 60 * Cardinality(Warned(s, t))
<1> DEFINE shown == {c \in Report(s, t) : SeverityOrder[c.severity] <= SeverityOrder["warning"]}
           Categories(severity) ==
             {c.category : c \in {k \in shown : k.severity = severity /\ k.count > 0}}
           notes == {c \in shown : c.severity = "info" /\ c.name # "island_thoughts"}
           Count(c) == c.count
           penalty == 160 * Cardinality(Categories("critical"))
                        + 60 * Cardinality(Categories("warning")) + MapThenSumSet(Count, notes)
<1>1. HealthScore(s, t, "warning") = IF penalty > 400 THEN 0 ELSE 400 - penalty
  BY DEF HealthScore
<1>2. SeverityOrder["critical"] = 0 /\ SeverityOrder["warning"] = 1 /\ SeverityOrder["info"] = 2
  BY DEF SeverityOrder
<1>3. notes = {}
  BY <1>2
<1>4. Categories("warning") = Warned(s, t)
  BY <1>2 DEF Warned
<1>5. Categories("critical") = {}
  <2>1. /\ OrphanEdges(s) = {} /\ SelfLoopEdges(s) = {} /\ DuplicateEdges(s) = {}
        /\ ClusterViolations(s) = {} /\ SupportsSelfConflict(s) = {}
    BY SoundIs DEF Good, StructurallySound
  <2>2. ASSUME NEW k \in Report(s, t), k.severity = "critical" PROVE k.count = 0
    <3>1. \/ k = Check("orphan_edges", "structural", "critical", OrphanEdges(s))
          \/ k = Check("self_loop_edges", "structural", "critical", SelfLoopEdges(s))
          \/ k = Check("duplicate_edges", "structural", "critical", DuplicateEdges(s))
          \/ k = Check("cluster_constraint_violations", "structural", "critical",
                       ClusterViolations(s))
          \/ k = Check("supports_self_conflict", "semantic", "critical", SupportsSelfConflict(s))
      BY <2>2, CheckIs DEF Report
    <3>2. \E name, category : k = Check(name, category, "critical", {})
      BY <2>1, <3>1
    <3> QED BY <3>2, CheckIs
  <2>3. \A k \in shown : k.severity = "critical" => ~(k.count > 0)
    BY <2>2
  <2> HIDE DEF shown
  <2> QED BY <2>3
<1> HIDE DEF shown, Categories, notes
<1>6. MapThenSumSet(Count, notes) = 0
  <2>1. MapThenSumSet(Count, {}) = 0
    BY DEF MapThenSumSet, MapThenFoldSet
  <2> QED BY <1>3, <2>1
<1>7. Cardinality(Categories("critical")) = 0
  BY <1>5, CheckIs
<1>8. penalty = 60 * Cardinality(Warned(s, t))
  <2> PICK a, b, c, d : /\ a = Cardinality(Categories("critical"))
                        /\ b = Cardinality(Categories("warning"))
                        /\ c = MapThenSumSet(Count, notes) /\ d = Cardinality(Warned(s, t))
    OBVIOUS
  <2>1. a = 0 /\ c = 0 /\ b = d /\ d \in Nat
    BY <1>4, <1>6, <1>7, WarnedFinite DEF Good
  <2>2. penalty = 160 * a + 60 * b + c
    OBVIOUS
  <2> HIDE DEF penalty
  <2> QED BY <2>1, <2>2
<1> QED BY <1>1, <1>8

\* Each check of a warning finds after the repair only what it found before.
LEMMA FindingsShrink ==
  ASSUME NEW s, Good(s), NEW t \in Times, NEW h, Healed(s, h, t), Good(h)
  PROVE  /\ EmptyClusters(h) \subseteq EmptyClusters(s)
         /\ SingletonClusters(h) \subseteq SingletonClusters(s)
         /\ OrphanedClusterMembers(h) = {}
         /\ ClusterlessDense(h, t) \subseteq ClusterlessDense(s, t)
         /\ OverlinkedThoughts(h) \subseteq OverlinkedThoughts(s)
         /\ CircularChains(h) \subseteq CircularChains(s)
         /\ BrokenParentChains(h) \subseteq BrokenParentChains(s)
         /\ ContradictsWithHierarchy(h) \subseteq ContradictsWithHierarchy(s)
         /\ ContradictionInCluster(h) \subseteq ContradictionInCluster(s)
<1>1. Store(s) /\ Store(h)
  BY DEF Good
<1>2. /\ DOMAIN h.th = DOMAIN s.th /\ h.ed \subseteq s.ed
      /\ \A x \in DOMAIN s.th : /\ h.th[x].cluster = s.th[x].cluster
                                /\ h.th[x].status = "archived" \/ h.th[x] = s.th[x]
      /\ \A e \in s.ed : e.type \notin HierarchyTypes => e \in h.ed
      /\ Live(h) \subseteq Live(s)
      /\ \A c : Members(h, c) = Members(s, c)
      /\ \A x : EdgesOf(h, x) \subseteq EdgesOf(s, x)
      /\ \A x : Below(h, x) \subseteq Below(s, x)
  BY <1>1, HealedIs
<1>3. LiveClusters(h) \subseteq LiveClusters(s)
  BY <1>2 DEF LiveClusters, Live
<1>4. EmptyClusters(h) \subseteq EmptyClusters(s)
  BY <1>2, <1>3 DEF EmptyClusters
<1>5. SingletonClusters(h) \subseteq SingletonClusters(s)
  BY <1>2, <1>3 DEF SingletonClusters
<1>6. OrphanedClusterMembers(h) = {}
  BY <1>1, SoundIs DEF Good, StructurallySound
<1>7. \A x : IsFiniteSet(EdgesOf(s, x)) /\ IsFiniteSet(EdgesOf(h, x))
  <2>1. \A x : EdgesOf(s, x) \subseteq s.ed /\ EdgesOf(h, x) \subseteq h.ed
    BY DEF EdgesOf
  <2> QED BY <1>1, <2>1, FS_Subset DEF Store
<1>8. ASSUME NEW x \in ClusterlessDense(h, t) PROVE x \in ClusterlessDense(s, t)
  <2>1. /\ x \in DOMAIN h.th /\ ~h.th[x].cluster
        /\ h.th[x].status = "active" /\ h.th[x].born + ClusterAge <= t
        /\ ~\E e \in EdgesOf(h, x) : e.type = "cluster"
        /\ Cardinality({e \in EdgesOf(h, x) : e.type = "related"}) >= DenseAt
    BY <1>8 DEF ClusterlessDense, Regular
  <2>2. h.th[x] = s.th[x]
    BY <1>2, <2>1
  <2>3. \A e \in EdgesOf(s, x) : e.type \notin HierarchyTypes => e \in EdgesOf(h, x)
    BY <1>2 DEF EdgesOf
  <2>4. {e \in EdgesOf(h, x) : e.type = "related"} = {e \in EdgesOf(s, x) : e.type = "related"}
    BY <1>2, <2>3 DEF HierarchyTypes
  <2>5. ~\E e \in EdgesOf(s, x) : e.type = "cluster"
    BY <2>1, <2>3 DEF HierarchyTypes
  <2> QED BY <1>2, <2>1, <2>2, <2>4, <2>5 DEF ClusterlessDense, Regular
<1>9. ASSUME NEW x \in OverlinkedThoughts(h) PROVE x \in OverlinkedThoughts(s)
  <2> PICK a, b : a = Cardinality(EdgesOf(h, x)) /\ b = Cardinality(EdgesOf(s, x))
    OBVIOUS
  <2>1. x \in DOMAIN h.th /\ ~h.th[x].cluster /\ a > OverlinkedAt
    BY <1>9 DEF OverlinkedThoughts, Regular
  <2>2. a \in Nat /\ b \in Nat /\ a <= b
    BY <1>2, <1>7, FS_Subset, FS_CardinalityType
  <2>3. b > OverlinkedAt
    BY <2>1, <2>2, CurationAssumption
  <2> QED BY <1>2, <2>1, <2>3 DEF OverlinkedThoughts, Regular
<1>10. CircularChains(h) \subseteq CircularChains(s)
  BY <1>2 DEF CircularChains
<1>11. ASSUME NEW e \in BrokenParentChains(h) PROVE e \in BrokenParentChains(s)
  <2>1. /\ e \in OfType(h, HierarchyTypes) /\ h.th[e.t].status \in {"archived", "draft"}
        /\ h.th[e.s].status # "archived"
    BY <1>11 DEF BrokenParentChains
  <2>2. h.th[e.t].status = "draft"
    BY <2>1 DEF Healed
  <2>3. e \in OfType(s, HierarchyTypes) /\ e.s \in DOMAIN s.th /\ e.t \in DOMAIN s.th
    BY <1>2, <2>1 DEF OfType, Good, EdgesSound, Has
  <2>4. h.th[e.s] = s.th[e.s] /\ h.th[e.t] = s.th[e.t]
    BY <1>2, <2>1, <2>2, <2>3
  <2> QED BY <2>1, <2>2, <2>3, <2>4 DEF BrokenParentChains
<1>12. Contradictions(h) \subseteq Contradictions(s)
  BY <1>2 DEF Contradictions, OfType
<1>13. ContradictsWithHierarchy(h) \subseteq ContradictsWithHierarchy(s)
  BY <1>2, <1>12 DEF ContradictsWithHierarchy
<1>14. ContradictionInCluster(h) \subseteq ContradictionInCluster(s)
  BY <1>2, <1>12 DEF ContradictionInCluster
<1> QED BY <1>4, <1>5, <1>6, <1>8, <1>9, <1>10, <1>11, <1>13, <1>14

\* So no category of the report gets a warning, and the score is no lower.
LEMMA ScoreGrows ==
  ASSUME NEW s, Good(s), NEW t \in Times, NEW h, Healed(s, h, t), Good(h)
  PROVE  HealthScore(h, t, "warning") >= HealthScore(s, t, "warning")
<1>1. Store(s) /\ Store(h)
  BY DEF Good
<1>2. ASSUME NEW cat \in Warned(h, t) PROVE cat \in Warned(s, t)
  <2>1. Troubled(h, t, cat)
    BY <1>1, <1>2, WarnedIs
  <2>2. Troubled(s, t, cat)
    BY <2>1, FindingsShrink DEF Troubled
  <2> QED BY <1>1, <2>2, WarnedIs
<1> PICK a, b : a = Cardinality(Warned(h, t)) /\ b = Cardinality(Warned(s, t))
  OBVIOUS
<1>3. a \in Nat /\ b \in Nat /\ a <= b
  <2>1. IsFiniteSet(Warned(s, t)) /\ IsFiniteSet(Warned(h, t)) /\ a \in Nat /\ b \in Nat
    BY <1>1, WarnedFinite
  <2> QED BY <1>2, <2>1, FS_Subset
<1>4. /\ HealthScore(h, t, "warning") = IF 60 * a > 400 THEN 0 ELSE 400 - 60 * a
      /\ HealthScore(s, t, "warning") = IF 60 * b > 400 THEN 0 ELSE 400 - 60 * b
  BY ScoreIs
<1> PICK u, v : u = HealthScore(h, t, "warning") /\ v = HealthScore(s, t, "warning")
  OBVIOUS
<1>5. u >= v
  BY <1>3, <1>4
<1> QED BY <1>5

\* Two passes of a repair leave no live thought under an archived one, touch no
\* protected thought, cut no edge but to an archived one, and bring no category a
\* warning it did not have.  (RepairHeals; runAutoFix in
\* services/health-check.service.ts)
THEOREM RepairsHeal == Spec => RepairHeals
<1> DEFINE Heals(p) ==
      job[p] = Idle /\ job'[p] # Idle /\ job'[p].req.kind = "health_repair" =>
        LET healed == Repaired(Repaired(g, now), now)
        IN  /\ \A e \in OfType(healed, HierarchyTypes) :
                 healed.th[e.t].status = "archived" => healed.th[e.s].status = "archived"
            /\ \A e \in g.ed \ healed.ed : healed.th[e.t].status = "archived"
            /\ \A x \in DOMAIN g.th : g.th[x].prot => healed.th[x] = g.th[x]
            /\ HealthScore(healed, now, "warning") >= HealthScore(g, now, "warning")
<1>1. ASSUME CInv, NEW p \in Processes PROVE Heals(p)
  <2> PICK h : h = Repaired(Repaired(g, now), now)
    OBVIOUS
  <2>1. now \in Times /\ Good(g)
    BY <1>1, NowIs DEF CInv
  <2>2. Good(h) /\ Healed(g, h, now)
    BY <2>1, RepairedTwice
  <2>3. HealthScore(h, now, "warning") >= HealthScore(g, now, "warning")
    BY <2>1, <2>2, ScoreGrows
  <2>4. /\ \A e \in OfType(h, HierarchyTypes) :
             h.th[e.t].status = "archived" => h.th[e.s].status = "archived"
        /\ \A e \in g.ed \ h.ed : h.th[e.t].status = "archived"
        /\ \A x \in DOMAIN g.th : g.th[x].prot => h.th[x] = g.th[x]
    BY <2>2 DEF Healed
  <2> QED BY <2>3, <2>4
<1>2. CInv /\ [Next]_vars => [\A p \in Processes : Heals(p)]_vars
  BY <1>1
<1> QED BY <1>2, CInvAlways, PTL DEF Spec, RepairHeals
=============================================================================
