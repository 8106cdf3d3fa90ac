-------------------------- MODULE Retrieval_proofs --------------------------
(***************************************************************************)
(* Theorems about Retrieval, for any number of calls and of writes between *)
(* their reads: a placement plan uses no vector of a content its thought   *)
(* did not have since the call began, a caller who pages through a listing *)
(* sees what stood still in it exactly once, and a frontier shows what is  *)
(* due.                                                                    *)
(*                                                                         *)
(* What a call knows is compared with `saw`, the stores of its time.  The  *)
(* invariants are stated over that set and the store, so that a write of   *)
(* another process, which only adds to the set, is one lemma for all       *)
(* calls.                                                                  *)
(***************************************************************************)
EXTENDS Retrieval, FiniteInduction, SequenceTheorems

-----------------------------------------------------------------------------
(* The invariant.                                                          *)

\* A thought had a content at some moment.
Was(S, x, content) == \E h \in S : Has(h, x) /\ h.th[x].content = content

PlanRecord(r) ==
  r = [pc |-> r.pc, call |-> r.call, src |-> r.src, rows |-> r.rows, pool |-> r.pool,
       merge |-> r.merge, pending |-> r.pending, vectors |-> r.vectors, blind |-> r.blind,
       degraded |-> r.degraded, cluster |-> r.cluster, placed |-> r.placed,
       edges |-> r.edges, fate |-> r.fate]

\* The vectors of a plan were of their thoughts, those not counted on aside.
Backed(S, vectors, blind) == \A x \in DOMAIN vectors \ blind : Was(S, x, vectors[x])

\* A plan r of a call that saw S, in a file with the vectors v and the queue q:
\* until it reads the queue, what is not queued was so at some moment; then,
\* what it did not find queued; and at last the vectors it has itself.
PlanOK(r, S, v, q) ==
  /\ PlanRecord(r)
  /\ r.pc \in {"start", "pending", "stored", "embed"} \/ r.pc \in {"cluster", "room", "link", "parent"}
       \/ r.pc \in {"done", "failed"}
  /\ r.pc = "start" => r.vectors = <<>>
  /\ r.pc \in {"pending", "stored", "embed"} =>
       \A x \in ToSet(r.pool) \ {Draft} : Was(S, x, r.rows[x].content)
  /\ r.pc = "pending" => Backed(S, v, q \cup r.blind)
  /\ r.pc = "stored" => \A x \in ToSet(r.pool) \cap DOMAIN v :
                          x \notin r.pending \cup r.blind => Was(S, x, v[x])
  /\ r.pc = "embed" => Backed(S, r.vectors, r.pending \cup r.blind)
  /\ r.pc \notin {"start", "pending", "stored", "embed"} => Backed(S, r.vectors, r.blind \cup {Draft})

\* What a listing has in front of x, and what stands still there.
InFront(h, y, x, req) == Listed(h, y, req) /\ ~Ahead(h, x, y, req)

Leading(h, x, req) == {y \in DOMAIN h.th \ {x} : InFront(h, y, x, req)}

Steady(S, x, y, req) ==
  \/ \A h \in S : InFront(h, y, x, req) /\ Ahead(h, y, x, req)
  \/ \A h \in S : ~InFront(h, y, x, req)

Undisturbed(S, x, req) ==
  /\ \A h \in S : Listed(h, x, req)
  /\ \A y \in Ever(S) \ {x} : Steady(S, x, y, req)

Once(items, x) ==
  \E i \in DOMAIN items : items[i].id = x /\ \A j \in DOMAIN items : items[j].id = x => j = i

Never(items, x) == \A i \in DOMAIN items : items[i].id # x

\* How many places of the listing have been read.
Covered(r) == IF r.pc = "page" \/ (r.pc = "count" /\ r.req.kind = "review") THEN r.offset
              ELSE r.offset + r.req.limit

\* x, with n thoughts in front of it, has been shown if its place was read, and
\* is to come otherwise.
Placed(r, x, n) ==
  /\ n < Covered(r) => Once(r.items, x)
  /\ ~(n < Covered(r)) => Never(r.items, x)
  /\ r.pc = "page" /\ r.req.kind = "review" => n < r.total
  /\ r.pc = "done" => n < Covered(r)

PageRecord(r) ==
  /\ r.pc \in {"count", "page", "done"}
  /\ r.items \in Seq(ToSet(r.items))
  /\ r.offset \in Nat /\ r.total \in Nat /\ r.req.limit \in Nat

Paging(r, S, h) ==
  /\ PageRecord(r)
  /\ \A i \in DOMAIN r.items : \E k \in S : Listed(k, r.items[i].id, r.req)
  /\ \A x \in DOMAIN h.th : Undisturbed(S, x, r.req) => Placed(r, x, Cardinality(Leading(h, x, r.req)))

SheetRecord(r) ==
  r = [pc |-> r.pc, req |-> r.req, due |-> r.due, outdated |-> r.outdated, blocked |-> r.blocked,
       items |-> r.items, primed |-> r.primed, lines |-> r.lines, offset |-> r.offset,
       total |-> r.total, edges |-> r.edges, cut |-> r.cut]

Asked(req) ==
  /\ req.kind \in DOMAIN FirstStep
  /\ req.kind \in {"list", "review", "frontier", "slots"} => req.limit \in Nat
  /\ req.kind = "slots" => req.offset \in Nat
  /\ req.kind \in {"frontier", "reflect"} => req.now \in Nat
  /\ req.kind = "reflect" => /\ req.decisions \in Seq(STRING) /\ req.pending \in Seq(STRING)
                             /\ req.add \in Seq(STRING)

SheetOK(r, S, h) ==
  /\ SheetRecord(r) /\ Asked(r.req)
  /\ r.req.kind \in {"list", "review"} => Paging(r, S, h)
  /\ r.pc \in {"project", "write"} => r.req.kind = "reflect"

RInv ==
  /\ Tables(g) /\ Accounted(g, vec, queued, lost)
  /\ plan = [p \in Processes |-> plan[p]]
  /\ sheet = [p \in Processes |-> sheet[p]]
  /\ saw = [p \in Processes |-> saw[p]]
  /\ \A p \in Processes :
       /\ plan[p] = NoPlan \/ (g \in saw[p] /\ PlanOK(plan[p], saw[p], vec, queued))
       /\ sheet[p] = NoSheet \/ (g \in saw[p] /\ SheetOK(sheet[p], saw[p], g))

-----------------------------------------------------------------------------
(* What the writers of the store keep of it.                               *)

Keeps(h, n) ==
  /\ Tables(n) /\ DOMAIN h.th \subseteq DOMAIN n.th
  /\ \A x \in DOMAIN h.th : n.th[x].content = h.th[x].content

\* What is kept is kept by what follows.
LEMMA KeptOn ==
  ASSUME NEW h, NEW k, NEW n, Keeps(h, k), Keeps(k, n)
  PROVE  Keeps(h, n)
BY DEF Keeps

\* A row whose content, and its being a cluster, are left alone.
SameRow(old, new) == Columns(new) /\ new.content = old.content /\ new.cluster = old.cluster

\* Edges of which only those of clusters are memberships.
Membership(h, ed) == \A e \in ed : e.type = "cluster" => IsCluster(h, e.s)

\* A write of one row, or of the edges alone.
LEMMA RowKept ==
  ASSUME NEW h, Tables(h), NEW th, DOMAIN th = DOMAIN h.th,
         \A y \in DOMAIN h.th : SameRow(h.th[y], th[y]),
         NEW ed, Membership(h, ed), NEW ver, NEW n,
         n = [th |-> th, ed |-> ed, projs |-> h.projs, made |-> h.made, ver |-> ver]
  PROVE  Keeps(h, n)
<1>1. n.th = th /\ n.made = h.made /\ n.ed = ed
  OBVIOUS
<1>2. Unused(n) = Unused(h)
  BY <1>1 DEF Unused
<1>3. n = [th |-> n.th, ed |-> n.ed, projs |-> n.projs, made |-> n.made, ver |-> n.ver]
  OBVIOUS
<1>4. \A x \in DOMAIN n.th : Columns(n.th[x]) /\ n.th[x].content = h.th[x].content
                                             /\ n.th[x].cluster = h.th[x].cluster
  BY <1>1 DEF SameRow
<1>5. \A e \in n.ed : e.type = "cluster" => IsCluster(n, e.s)
  BY <1>1, <1>4 DEF Membership, IsCluster, Has
<1>6. IsFiniteSet(DOMAIN n.th) /\ n.made \in Nat /\ Unused(n) \cap DOMAIN n.th = {}
  BY <1>1, <1>2 DEF Tables
<1>7. Tables(n)
  BY <1>3, <1>4, <1>5, <1>6 DEF Tables
<1> QED BY <1>1, <1>4, <1>7 DEF Keeps

\* The other rows are what they were.
LEMMA OneRow ==
  ASSUME NEW h, Tables(h), NEW x, NEW row, x \in DOMAIN h.th => SameRow(h.th[x], row), NEW th,
         th = [h.th EXCEPT ![x] = row]
  PROVE  DOMAIN th = DOMAIN h.th /\ \A y \in DOMAIN h.th : SameRow(h.th[y], th[y])
BY DEF Tables, SameRow

LEMMA TablesMembers ==
  ASSUME NEW h, Tables(h)
  PROVE  Membership(h, h.ed)
BY DEF Tables, Membership

\* The importance of a thought.
LEMMA BoostKept ==
  ASSUME NEW h, Tables(h), NEW x
  PROVE  Keeps(h, BoostImportance(h, x))
<1> DEFINE n == BoostImportance(h, x)
           was == h.th[x]
           row == [was EXCEPT !.imp = IF @ < MaxImp THEN @ + 1 ELSE @]
           th == [h.th EXCEPT ![x] = row]
<1>1. n = [th |-> th, ed |-> h.ed, projs |-> h.projs, made |-> h.made, ver |-> h.ver]
  BY DEF BoostImportance, Tables
<1>2. x \in DOMAIN h.th => SameRow(was, row)
  <2>1. x \in DOMAIN h.th => Columns(was)
    BY DEF Tables
  <2> HIDE DEF was
  <2>2. Columns(was) => SameRow(was, row)
    BY ConfigAssumption DEF Columns, SameRow
  <2> QED BY <2>1, <2>2
<1> HIDE DEF row
<1>3. DOMAIN th = DOMAIN h.th /\ \A y \in DOMAIN h.th : SameRow(h.th[y], th[y])
  BY <1>2, OneRow
<1> HIDE DEF th, n
<1>4. n = BoostImportance(h, x)
  BY DEF n
<1> QED BY <1>1, <1>3, <1>4, RowKept, TablesMembers

\* The edges alone.
LEMMA EdgesKept ==
  ASSUME NEW h, Tables(h), NEW ed, Membership(h, ed), NEW ver, NEW n,
         n = [th |-> h.th, ed |-> ed, projs |-> h.projs, made |-> h.made, ver |-> ver]
  PROVE  Keeps(h, n)
<1>1. \A y \in DOMAIN h.th : SameRow(h.th[y], h.th[y])
  BY DEF Tables, SameRow
<1> QED BY <1>1, RowKept

LEMMA CommittedKept ==
  ASSUME NEW h, Tables(h), NEW n, Keeps(h, n)
  PROVE  Keeps(h, Committed(h, n))
<1>1. CASE n.ed = h.ed
  BY <1>1 DEF Committed
<1>2. CASE n.ed # h.ed
  <2>1. PICK c : c = Committed(h, n)
    OBVIOUS
  <2>2. c = [th |-> n.th, ed |-> n.ed, projs |-> n.projs, made |-> n.made, ver |-> n.ver + 1]
    BY <1>2, <2>1 DEF Committed, Keeps, Tables
  <2>3. Keeps(n, c)
    BY <2>2, EdgesKept, TablesMembers DEF Keeps
  <2> QED BY <2>1, <2>3, KeptOn
<1> QED BY <1>1, <1>2

LEMMA PutKept ==
  ASSUME NEW h, Tables(h), NEW old, NEW s, NEW t, NEW type, type = "cluster" => IsCluster(h, s)
  PROVE  Keeps(h, PutEdge(h, old, s, t, type))
<1>1. PICK put : /\ Keeps(h, put)
                 /\ PutEdge(h, old, s, t, type) = BoostImportance(put, s)
  <2> DEFINE cut == h.ed \ old
             free == ~\E e \in cut : {e.s, e.t} = {s, t}
             ed == IF free THEN cut \cup {[s |-> s, t |-> t, type |-> type, ver |-> h.ver]} ELSE cut
             put == [h EXCEPT !.ed = ed]
  <2>1. PutEdge(h, old, s, t, type) = BoostImportance(put, s)
    BY DEF PutEdge
  <2>2. Membership(h, ed)
    BY DEF Tables, Membership
  <2> HIDE DEF ed
  <2>3. put = [th |-> h.th, ed |-> ed, projs |-> h.projs, made |-> h.made, ver |-> h.ver]
    BY DEF Tables
  <2> HIDE DEF put
  <2>4. Keeps(h, put)
    BY <2>3, <2>2, EdgesKept
  <2> QED BY <2>1, <2>4
<1> QED BY <1>1, BoostKept, KeptOn DEF Keeps

\* A link, or nothing.
LEMMA LinkKept ==
  ASSUME NEW h, Tables(h), NEW s, NEW t, NEW type
  PROVE  Keeps(h, CreateEdge(h, s, t, type).g)
<1>1. Keeps(h, h)
  BY DEF Keeps
<1>2. \/ CreateEdge(h, s, t, type).g = h
      \/ /\ type = "cluster" => IsCluster(h, s)
         /\ \E old : CreateEdge(h, s, t, type).g = PutEdge(h, old, s, t, type)
  <2> DEFINE pair == Pair(h, s, t)
             one == CHOOSE e \in pair : TRUE
  <2>1. \A x : Done(x).g = x /\ \A why : Refuse(x, why).g = x
    BY DEF Done, Refuse
  <2>2. \/ \E why : CreateEdge(h, s, t, type) = Refuse(h, why)
        \/ CreateEdge(h, s, t, type) = Done(h)
        \/ /\ ClusterRule(h, s, t, type)
           /\ \/ CreateEdge(h, s, t, type) = Done(PutEdge(h, {}, s, t, type))
              \/ CreateEdge(h, s, t, type) = Done(PutEdge(h, {one}, s, t, type))
    BY DEF CreateEdge
  <2>3. ClusterRule(h, s, t, type) => (type = "cluster" => IsCluster(h, s))
    BY DEF ClusterRule
  <2> HIDE DEF one
  <2> QED BY <2>1, <2>2, <2>3
<1> QED BY <1>1, <1>2, PutKept

\* An update touches its row alone, and the content only if that is given.
LEMMA UpdateIs ==
  ASSUME NEW h, Tables(h), NEW id \in DOMAIN h.th, NEW d \in Edits, NEW t, NEW n,
         n = UpdateThought(h, id, d, t).g
  PROVE  /\ Tables(n) /\ DOMAIN n.th = DOMAIN h.th
         /\ \A x \in DOMAIN h.th : n.th[x].content # h.th[x].content =>
              x = id /\ "content" \in DOMAIN d
<1> DEFINE old == h.th[id]
           given == [f \in DOMAIN old |-> IF f \in DOMAIN d THEN d[f] ELSE old[f]]
           rehash == {"content", "proj"} \cap DOMAIN d # {}
           hash == IF rehash THEN Hash(given) ELSE given.hash
           new == [given EXCEPT !.hash = IF rehash THEN Hash(given) ELSE @, !.stamp = t]
           th == [h.th EXCEPT ![id] = new]
<1>1. n = h \/ n = [h EXCEPT !.th[id] = new]
  <2>1. \A x : Done(x).g = x /\ \A why : Refuse(x, why).g = x
    BY DEF Done, Refuse
  <2>2. \/ \E why : UpdateThought(h, id, d, t) = Refuse(h, why)
        \/ UpdateThought(h, id, d, t) = Done(h)
        \/ UpdateThought(h, id, d, t) = Done([h EXCEPT !.th[id] = new])
    BY DEF UpdateThought
  <2> HIDE DEF new
  <2> QED BY <2>1, <2>2
<1>2. /\ Columns(new) /\ new.cluster = old.cluster
      /\ "content" \notin DOMAIN d => new.content = old.content
  <2>1. Columns(old)
    BY DEF Tables
  <2>2. {"imp", "born", "cluster"} \cap DOMAIN d = {}
    BY EditsAssumption
  <2> HIDE DEF old
  <2>3. /\ DOMAIN given = DOMAIN old /\ given.imp = old.imp /\ given.born = old.born
        /\ given.cluster = old.cluster
        /\ "content" \notin DOMAIN d => given.content = old.content
    BY <2>1, <2>2 DEF Columns
  <2> HIDE DEF given, hash
  <2>4. new = [given EXCEPT !.hash = hash, !.stamp = t]
    BY DEF hash
  <2> HIDE DEF new
  <2>5. /\ DOMAIN new = DOMAIN given
        /\ \A f \in DOMAIN given : f \notin {"hash", "stamp"} => new[f] = given[f]
    BY <2>4
  <2>6. {"content", "imp", "born", "cluster"} \subseteq DOMAIN given
    BY <2>1, <2>3 DEF Columns
  <2>7. /\ {"content", "imp", "born", "cluster"} \subseteq DOMAIN new
        /\ new.imp = given.imp /\ new.born = given.born
        /\ new.cluster = given.cluster /\ new.content = given.content
    BY ONLY <2>5, <2>6
  <2>8. Columns(new)
    BY <2>1, <2>3, <2>7 DEF Columns
  <2> QED BY <2>3, <2>7, <2>8
<1>3. CASE n = h
  BY <1>3
<1>4. CASE n = [h EXCEPT !.th[id] = new]
  <2> HIDE DEF new
  <2>1. n = [th |-> th, ed |-> h.ed, projs |-> h.projs, made |-> h.made, ver |-> h.ver]
    BY <1>4 DEF Tables
  <2>2. \A x \in DOMAIN h.th : th[x] = IF x = id THEN new ELSE h.th[x]
    OBVIOUS
  <2>3. DOMAIN th = DOMAIN h.th
    OBVIOUS
  <2>4. n.th = th /\ n.made = h.made /\ n.ed = h.ed
        /\ n = [th |-> n.th, ed |-> n.ed, projs |-> n.projs, made |-> n.made, ver |-> n.ver]
    BY <2>1
  <2>5. Unused(n) = Unused(h)
    BY <2>4 DEF Unused
  <2>6. \A x \in DOMAIN h.th : /\ Columns(th[x]) /\ th[x].cluster = h.th[x].cluster
                               /\ th[x].content # h.th[x].content => x = id /\ "content" \in DOMAIN d
    BY <1>2, <2>2 DEF Tables
  <2> HIDE DEF th
  <2>7. \A e \in n.ed : e.type = "cluster" => IsCluster(n, e.s)
    BY <2>3, <2>4, <2>6 DEF Tables, IsCluster, Has
  <2>8. Tables(n)
    BY <2>3, <2>4, <2>5, <2>6, <2>7 DEF Tables
  <2> QED BY <2>3, <2>4, <2>6, <2>8
<1> QED BY <1>1, <1>3, <1>4

\* A deletion takes its row alone.
LEMMA DeleteIs ==
  ASSUME NEW h, Tables(h), NEW id, NEW n, n = Committed(h, DeleteThought(h, id))
  PROVE  /\ Tables(n) /\ DOMAIN n.th = DOMAIN h.th \ {id}
         /\ \A x \in DOMAIN n.th : n.th[x] = h.th[x]
<1> DEFINE th == [x \in DOMAIN h.th \ {id} |-> h.th[x]]
           ed == {e \in h.ed : id \notin {e.s, e.t}}
<1>1. PICK cut : cut = DeleteThought(h, id)
  OBVIOUS
<1>2. n.th = th /\ n.made = h.made /\ n.ed = ed
      /\ n = [th |-> n.th, ed |-> n.ed, projs |-> n.projs, made |-> n.made, ver |-> n.ver]
  <2>1. cut = [h EXCEPT !.th = th, !.ed = ed]
    BY <1>1 DEF DeleteThought
  <2> HIDE DEF th, ed
  <2>2. cut = [th |-> th, ed |-> ed, projs |-> h.projs, made |-> h.made, ver |-> h.ver]
    BY <2>1 DEF Tables
  <2>3. n = cut \/ n = [cut EXCEPT !.ver = @ + 1]
    BY <1>1 DEF Committed
  <2> QED BY <2>2, <2>3
<1>3. Unused(n) = Unused(h)
  BY <1>2 DEF Unused
<1>4. DOMAIN th = DOMAIN h.th \ {id} /\ \A x \in DOMAIN th : th[x] = h.th[x]
  OBVIOUS
<1> HIDE DEF th
<1>5. IsFiniteSet(DOMAIN n.th)
  BY <1>2, <1>4, FS_Subset DEF Tables
<1>6. \A e \in n.ed : e.type = "cluster" => IsCluster(n, e.s)
  BY <1>2, <1>4 DEF Tables, IsCluster, Has
<1> QED BY <1>2, <1>3, <1>4, <1>5, <1>6 DEF Tables

\* The text of a thought that is created is new, and no other changes.
LEMMA CreatedKept ==
  ASSUME NEW h, Tables(h), NEW d, NEW t \in Nat, CanCreate(h, 1)
  PROVE  LET r == CreateThought(h, d, t)
         IN  /\ Keeps(h, r.g) /\ r.g.made \in {h.made, h.made + 1}
             /\ r.id \in DOMAIN r.g.th
<1> DEFINE row == [content |-> d.content, proj |-> d.proj, status |-> d.status,
                   prot |-> d.prot, cluster |-> d.cluster,
                   hash |-> <<d.content, d.proj>>, imp |-> MaxImp, hit |-> FALSE,
                   pinned |-> FALSE, born |-> t, gone |-> 0, stamp |-> t]
           new == NewIds[h.made + 1]
           twins == IF d.status = "archived" THEN {} ELSE Twins(h, row)
           twin == CHOOSE x \in twins : TRUE
           r == CreateThought(h, d, t)
<1>1. CASE twins # {}
  <2>1. r = [ok |-> TRUE, why |-> "twin", id |-> twin, g |-> [h EXCEPT !.th[twin].stamp = t]]
    BY <1>1 DEF CreateThought
  <2>2. twin \in DOMAIN h.th
    BY <1>1 DEF Twins, Live
  <2> HIDE DEF twin, twins, r
  <2> DEFINE was == h.th[twin]
             now2 == [was EXCEPT !.stamp = t]
             th == [h.th EXCEPT ![twin] = now2]
  <2>3. Columns(was)
    BY <2>2 DEF Tables
  <2>4. PICK n : n = [h EXCEPT !.th[twin].stamp = t]
    OBVIOUS
  <2>5. n = [h EXCEPT !.th[twin] = now2]
    BY <2>4
  <2>6. SameRow(was, now2)
    <3> HIDE DEF was
    <3> QED BY <2>3 DEF Columns, SameRow
  <2> HIDE DEF now2
  <2>7. n = [th |-> th, ed |-> h.ed, projs |-> h.projs, made |-> h.made, ver |-> h.ver]
    BY <2>5 DEF Tables
  <2>8. DOMAIN th = DOMAIN h.th /\ \A y \in DOMAIN h.th : SameRow(h.th[y], th[y])
    BY <2>2, <2>6, OneRow
  <2> HIDE DEF th
  <2>9. Keeps(h, n) /\ n.made = h.made
    BY <2>7, <2>8, RowKept, TablesMembers
  <2>10. r.g = n /\ r.id = twin
    BY <2>1, <2>4
  <2> QED BY <2>2, <2>9, <2>10 DEF r, Keeps
<1>2. CASE twins = {}
  <2> DEFINE th == [x \in DOMAIN h.th \cup {new} |-> IF x = new THEN row ELSE h.th[x]]
  <2>1. r = [ok |-> TRUE, why |-> "ok", id |-> new, g |-> [h EXCEPT !.made = @ + 1, !.th = th]]
    BY <1>2 DEF CreateThought
  <2>2. Columns(row)
    BY ConfigAssumption DEF Columns
  <2>3. new \in Unused(h) /\ h.made \in Nat /\ h.made + 1 \in 1..Len(NewIds)
    BY ScenariosAssumption DEF Tables, Unused, CanCreate
  <2> HIDE DEF row, twins, r
  <2>4. /\ DOMAIN th = DOMAIN h.th \cup {new}
        /\ \A x \in DOMAIN th : Columns(th[x])
        /\ \A x \in DOMAIN h.th : th[x] = h.th[x]
    BY <2>2, <2>3 DEF Tables
  <2>5. PICK n : n = [h EXCEPT !.made = @ + 1, !.th = th]
    OBVIOUS
  <2> HIDE DEF th
  <2>6. n = [th |-> th, ed |-> h.ed, projs |-> h.projs, made |-> h.made + 1, ver |-> h.ver]
    BY <2>5 DEF Tables
  <2>7. /\ n.th = th /\ n.made = h.made + 1 /\ n.ed = h.ed
        /\ n = [th |-> n.th, ed |-> n.ed, projs |-> n.projs, made |-> n.made, ver |-> n.ver]
    BY <2>6
  <2>8. Unused(n) \subseteq Unused(h) /\ new \notin Unused(n)
    <3>1. DOMAIN NewIds = 1..Len(NewIds) /\ Len(NewIds) \in Nat
      BY ScenariosAssumption
    <3>2. \A i, j \in DOMAIN NewIds : NewIds[i] = NewIds[j] => i = j
      BY ScenariosAssumption
    <3>3. \A i \in (n.made + 1)..Len(NewIds) : i \in (h.made + 1)..Len(NewIds) /\ NewIds[i] # new
      BY <2>3, <2>7, <3>1, <3>2
    <3> HIDE DEF new
    <3> QED BY <3>3 DEF Unused
  <2> HIDE DEF new
  <2>9. IsFiniteSet(DOMAIN n.th)
    BY <2>4, <2>7, FS_AddElement DEF Tables
  <2>10. Unused(n) \cap DOMAIN n.th = {}
    BY <2>4, <2>7, <2>8 DEF Tables
  <2>11. \A e \in n.ed : e.type = "cluster" => IsCluster(n, e.s)
    BY <2>4, <2>7 DEF Tables, IsCluster, Has
  <2>12. Tables(n)
    BY <2>3, <2>4, <2>7, <2>9, <2>10, <2>11 DEF Tables
  <2>13. Keeps(h, n)
    BY <2>4, <2>7, <2>12 DEF Keeps
  <2>14. r.g = n /\ r.id = new
    BY <2>1, <2>5
  <2> QED BY <2>4, <2>7, <2>13, <2>14 DEF r
<1> QED BY <1>1, <1>2

\* With its tags, too.
LEMMA NotedKept ==
  ASSUME NEW h, Tables(h), NEW d, NEW tags, NEW wait, NEW t \in Nat, CanCreate(h, 1)
  PROVE  LET n == Noted(h, d, tags, wait, t)
         IN  Keeps(h, n) /\ n.made \in {h.made, h.made + 1}
<1>1. PICK r : /\ r = CreateThought(h, d, t)
               /\ Keeps(h, r.g) /\ r.g.made \in {h.made, h.made + 1} /\ r.id \in DOMAIN r.g.th
  BY CreatedKept
<1>2. PICK k, id : k = r.g /\ id = r.id
  OBVIOUS
<1>3. PICK n : n = Noted(h, d, tags, wait, t)
  OBVIOUS
<1> DEFINE was == k.th[id]
           twin == [was EXCEPT !.tags = tags]
           whole == Labelled(was, tags, wait)
<1>4. n = [k EXCEPT !.th[id] = twin] \/ n = [k EXCEPT !.th[id] = whole]
  BY <1>1, <1>2, <1>3 DEF Noted
<1>5. Tables(k) /\ Columns(was)
  BY <1>1, <1>2 DEF Keeps, Tables
<1> HIDE DEF was
<1>6. SameRow(was, twin)
  BY <1>5 DEF Columns, SameRow
<1>7. SameRow(was, whole)
  BY <1>5 DEF Labelled, Columns, SameRow
<1> HIDE DEF twin, whole
<1>8. PICK row : n = [k EXCEPT !.th[id] = row] /\ SameRow(was, row)
  BY <1>4, <1>6, <1>7
<1> DEFINE th == [k.th EXCEPT ![id] = row]
<1>9. n = [th |-> th, ed |-> k.ed, projs |-> k.projs, made |-> k.made, ver |-> k.ver]
  BY <1>5, <1>8 DEF Tables
<1>10. DOMAIN th = DOMAIN k.th /\ \A y \in DOMAIN k.th : SameRow(k.th[y], th[y])
  BY <1>5, <1>8, OneRow DEF was
<1> HIDE DEF th
<1>11. Keeps(k, n) /\ n.made = k.made
  BY <1>5, <1>9, <1>10, RowKept, TablesMembers
<1>12. Keeps(h, n)
  BY <1>1, <1>2, <1>11, KeptOn
<1> QED BY <1>1, <1>2, <1>3, <1>11, <1>12

\* The decisions of a reflection as a fold.
DecideSteps(f, req) ==
  \A T \in SUBSET (DOMAIN req.decisions) : T # {} =>
    \E x \in T : LET acc == f[T \ {x}]
                 IN  f[T] = (IF Decided(acc, req.decisions[x]) THEN acc
                             ELSE Noted(acc, Draw(req.decisions[x], req, "active"), {"decision", "reflect"},
                                        FALSE, req.now))

\* The loop that stores the decisions, as a function on the subsets of their indices.
LEMMA DecideFold ==
  ASSUME NEW s, NEW A, NEW req, req.decisions \in Seq(A)
  PROVE  \E f : Decide(s, req) = f[DOMAIN req.decisions] /\ f[{}] = s /\ DecideSteps(f, req)
<1> DEFINE Op(x, acc) == IF Decided(acc, req.decisions[x]) THEN acc
                     ELSE Noted(acc, Draw(req.decisions[x], req, "active"), {"decision", "reflect"},
                                FALSE, req.now)
           Ch(T) == Max(T)
           S0 == DOMAIN req.decisions
           Body(f, T) == IF T = {} THEN s ELSE Op(Ch(T), f[T \ {Ch(T)}])
           Is(f, D) == f = [T \in D |-> Body(f, T)]
           N == {n \in Nat : \E f : Is(f, UpTo(S0, n))}
           it == CHOOSE f : Is(f, SUBSET S0)
<1>1. Decide(s, req) = it[S0]
  BY DEF Decide, FoldLeft, MapThenFoldSet, Max
<1>2. IsFiniteSet(S0) /\ \A T \in SUBSET S0 : T # {} => Ch(T) \in T
  <2>1. S0 = 1..Len(req.decisions) /\ Len(req.decisions) \in Nat
    OBVIOUS
  <2>2. IsFiniteSet(S0)
    BY <2>1, FS_Interval
  <2>3. S0 \subseteq Nat
    BY <2>1
  <2> HIDE DEF S0
  <2>4. ASSUME NEW T \in SUBSET S0, T # {} PROVE Ch(T) \in T
    <3>1. \E x \in T : \A y \in T : x >= y
      BY <2>2, <2>3, <2>4, GreatestOf
    <3> QED BY <3>1 DEF Max
  <2> QED BY <2>2, <2>4
<1> HIDE DEF Op, Ch, S0
<1>3. 0 \in N
  <2>1. Is([T \in UpTo(S0, 0) |-> s], UpTo(S0, 0))
    BY <1>2, UpToIs
  <2> QED BY <2>1
<1>4. ASSUME NEW n \in Nat, n \in N PROVE n + 1 \in N
  <2>1. PICK f : Is(f, UpTo(S0, n))
    BY <1>4
  <2> DEFINE h == [T \in UpTo(S0, n + 1) |-> Body(f, T)]
  <2>2. \A T \in UpTo(S0, n) : h[T] = f[T]
    BY <1>2, <2>1, UpToIs
  <2>3. \A T \in UpTo(S0, n + 1) : T # {} => T \ {Ch(T)} \in UpTo(S0, n)
    <3>1. \A T \in UpTo(S0, n + 1) : T \in SUBSET S0
      BY DEF UpTo
    <3> QED BY <1>2, <3>1, UpToIs
  <2>4. \A T \in UpTo(S0, n + 1) : Body(h, T) = Body(f, T)
    <3> HIDE DEF h
    <3> QED BY <2>2, <2>3
  <2>5. Is(h, UpTo(S0, n + 1))
    BY <2>4
  <2> HIDE DEF h, Is
  <2> QED BY <2>5
<1> HIDE DEF N
<1>5. Cardinality(S0) \in N /\ UpTo(S0, Cardinality(S0)) = SUBSET S0
  BY <1>2, <1>3, <1>4, Levels, UpToIs
<1>6. Is(it, SUBSET S0)
  <2>1. \E f : Is(f, SUBSET S0)
    BY <1>5 DEF N
  <2> HIDE DEF Is
  <2> QED BY <2>1
<1>7. it[{}] = s
  BY <1>6
<1>8. ASSUME NEW T \in SUBSET S0, T # {} PROVE it[T] = Op(Ch(T), it[T \ {Ch(T)}])
  BY <1>6, <1>8
<1> HIDE DEF it
<1>9. \A T \in SUBSET S0 : T # {} => \E x \in T : it[T] = Op(x, it[T \ {x}])
  BY <1>2, <1>8
<1>10. DecideSteps(it, req)
  BY <1>9 DEF DecideSteps, Op, S0
<1> QED BY <1>1, <1>7, <1>10 DEF S0

\* What it leaves pending as a fold.
PostponeSteps(f, req) ==
  \A T \in SUBSET (DOMAIN req.pending) : T # {} =>
    \E x \in T : LET acc == f[T \ {x}]
                 IN  f[T] = Noted(acc, Draw(req.pending[x], req, "draft"), {"pending", "reflect"}, TRUE,
                                  req.now)

\* The loop that stores what is left pending.
LEMMA PostponeFold ==
  ASSUME NEW s, NEW A, NEW req, req.pending \in Seq(A)
  PROVE  \E f : Postpone(s, req) = f[DOMAIN req.pending] /\ f[{}] = s /\ PostponeSteps(f, req)
<1> DEFINE Op(x, acc) == Noted(acc, Draw(req.pending[x], req, "draft"), {"pending", "reflect"}, TRUE,
                           req.now)
           Ch(T) == Max(T)
           S0 == DOMAIN req.pending
           Body(f, T) == IF T = {} THEN s ELSE Op(Ch(T), f[T \ {Ch(T)}])
           Is(f, D) == f = [T \in D |-> Body(f, T)]
           N == {n \in Nat : \E f : Is(f, UpTo(S0, n))}
           it == CHOOSE f : Is(f, SUBSET S0)
<1>1. Postpone(s, req) = it[S0]
  BY DEF Postpone, FoldLeft, MapThenFoldSet, Max
<1>2. IsFiniteSet(S0) /\ \A T \in SUBSET S0 : T # {} => Ch(T) \in T
  <2>1. S0 = 1..Len(req.pending) /\ Len(req.pending) \in Nat
    OBVIOUS
  <2>2. IsFiniteSet(S0)
    BY <2>1, FS_Interval
  <2>3. S0 \subseteq Nat
    BY <2>1
  <2> HIDE DEF S0
  <2>4. ASSUME NEW T \in SUBSET S0, T # {} PROVE Ch(T) \in T
    <3>1. \E x \in T : \A y \in T : x >= y
      BY <2>2, <2>3, <2>4, GreatestOf
    <3> QED BY <3>1 DEF Max
  <2> QED BY <2>2, <2>4
<1> HIDE DEF Op, Ch, S0
<1>3. 0 \in N
  <2>1. Is([T \in UpTo(S0, 0) |-> s], UpTo(S0, 0))
    BY <1>2, UpToIs
  <2> QED BY <2>1
<1>4. ASSUME NEW n \in Nat, n \in N PROVE n + 1 \in N
  <2>1. PICK f : Is(f, UpTo(S0, n))
    BY <1>4
  <2> DEFINE h == [T \in UpTo(S0, n + 1) |-> Body(f, T)]
  <2>2. \A T \in UpTo(S0, n) : h[T] = f[T]
    BY <1>2, <2>1, UpToIs
  <2>3. \A T \in UpTo(S0, n + 1) : T # {} => T \ {Ch(T)} \in UpTo(S0, n)
    <3>1. \A T \in UpTo(S0, n + 1) : T \in SUBSET S0
      BY DEF UpTo
    <3> QED BY <1>2, <3>1, UpToIs
  <2>4. \A T \in UpTo(S0, n + 1) : Body(h, T) = Body(f, T)
    <3> HIDE DEF h
    <3> QED BY <2>2, <2>3
  <2>5. Is(h, UpTo(S0, n + 1))
    BY <2>4
  <2> HIDE DEF h, Is
  <2> QED BY <2>5
<1> HIDE DEF N
<1>5. Cardinality(S0) \in N /\ UpTo(S0, Cardinality(S0)) = SUBSET S0
  BY <1>2, <1>3, <1>4, Levels, UpToIs
<1>6. Is(it, SUBSET S0)
  <2>1. \E f : Is(f, SUBSET S0)
    BY <1>5 DEF N
  <2> HIDE DEF Is
  <2> QED BY <2>1
<1>7. it[{}] = s
  BY <1>6
<1>8. ASSUME NEW T \in SUBSET S0, T # {} PROVE it[T] = Op(Ch(T), it[T \ {Ch(T)}])
  BY <1>6, <1>8
<1> HIDE DEF it
<1>9. \A T \in SUBSET S0 : T # {} => \E x \in T : it[T] = Op(x, it[T \ {x}])
  BY <1>2, <1>8
<1>10. PostponeSteps(it, req)
  BY <1>9 DEF PostponeSteps, Op, S0
<1> QED BY <1>1, <1>7, <1>10 DEF S0

\* A fold that notes thoughts at time t, or does nothing at a step.
NotesOnly(f, S, t) ==
  \A T \in SUBSET S : T # {} =>
    \E x \in T : \/ f[T] = f[T \ {x}]
                 \/ \E d, tags, wait : f[T] = Noted(f[T \ {x}], d, tags, wait, t)

\* It keeps the store, if there are ids for as many thoughts.
LEMMA NotesKeep ==
  ASSUME NEW h, Tables(h), NEW S, IsFiniteSet(S), CanCreate(h, Cardinality(S)),
         NEW f, f[{}] = h, NEW t \in Nat, NotesOnly(f, S, t)
  PROVE  \A T \in SUBSET S : Keeps(h, f[T]) /\ f[T].made <= h.made + Cardinality(T)
<1> DEFINE Small(n, T) == Keeps(h, n) /\ n.made <= h.made + Cardinality(T)
           D == {T \in SUBSET S : Small(f[T], T)}
<1>1. {} \in D
  BY FS_EmptySet DEF Keeps, Tables
<1>2. ASSUME NEW T \in SUBSET S, T # {}
      PROVE  \E x \in T : T \ {x} \in D => T \in D
  <2>1. PICK x \in T : \/ f[T] = f[T \ {x}]
                       \/ \E d, tags, wait : f[T] = Noted(f[T \ {x}], d, tags, wait, t)
    BY <1>2 DEF NotesOnly
  <2>2. ASSUME T \ {x} \in D PROVE T \in D
    <3>1. PICK a, b : a = f[T \ {x}] /\ b = f[T]
      OBVIOUS
    <3>2. /\ Cardinality(T) \in Nat /\ Cardinality(T \ {x}) = Cardinality(T) - 1
          /\ Cardinality(S) \in Nat /\ Cardinality(T) <= Cardinality(S)
      BY FS_Subset, FS_CardinalityType, FS_RemoveElement
    <3>3. Keeps(h, a) /\ a.made <= h.made + (Cardinality(T) - 1)
      BY <2>2, <3>1, <3>2
    <3>4. Tables(a) /\ a.made \in Nat /\ h.made \in Nat
      BY <3>3 DEF Keeps, Tables
    <3>5. CanCreate(a, 1)
      <4>1. Len(NewIds) \in Nat /\ h.made + Cardinality(S) <= Len(NewIds)
        BY ScenariosAssumption DEF CanCreate
      <4> QED BY <3>2, <3>3, <3>4, <4>1 DEF CanCreate
    <3>6. Keeps(a, b) /\ b.made \in {a.made, a.made + 1}
      <4>1. Keeps(a, a)
        BY <3>4 DEF Keeps
      <4>2. \A d, tags, wait : /\ Keeps(a, Noted(a, d, tags, wait, t))
                              /\ Noted(a, d, tags, wait, t).made \in {a.made, a.made + 1}
        BY <3>4, <3>5, NotedKept
      <4> QED BY <2>1, <3>1, <4>1, <4>2
    <3>7. Keeps(h, b)
      BY <3>3, <3>6, KeptOn
    <3>8. b.made <= h.made + Cardinality(T)
      BY <3>2, <3>3, <3>4, <3>6
    <3>9. Small(b, T)
      BY <3>7, <3>8
    <3> HIDE DEF Small
    <3> QED BY <3>1, <3>9
  <2> QED BY <2>2
<1>3. Climbs(S, D)
  BY <1>1, <1>2 DEF Climbs
<1> HIDE DEF D
<1>4. \A T \in SUBSET S : T \in D
  BY <1>3, SubsetInduction
<1> QED BY <1>4 DEF D

\* A reflection keeps what is there.
LEMMA ReflectKept ==
  ASSUME NEW h, Tables(h), NEW req,
         req.decisions \in Seq(STRING), req.pending \in Seq(STRING), req.now \in Nat,
         CanCreate(h, Len(req.decisions) + Len(req.pending))
  PROVE  Keeps(h, Postpone(Decide(h, req), req))
<1> DEFINE S == DOMAIN req.decisions
           U == DOMAIN req.pending
<1>1. PICK m, n, l : m = Cardinality(S) /\ n = Cardinality(U) /\ l = Len(NewIds)
  OBVIOUS
<1>2. /\ IsFiniteSet(S) /\ IsFiniteSet(U) /\ m \in Nat /\ n \in Nat /\ l \in Nat
      /\ h.made \in Nat /\ h.made + (m + n) <= l
  <2>1. IsFiniteSet(S) /\ m = Len(req.decisions) /\ IsFiniteSet(U) /\ n = Len(req.pending)
    BY <1>1, SeqFinite
  <2>2. m \in Nat /\ n \in Nat
    BY <1>1, <2>1, FS_CardinalityType
  <2>3. l \in Nat
    BY <1>1, ScenariosAssumption
  <2>4. h.made \in Nat
    BY DEF Tables
  <2> HIDE DEF S, U
  <2>5. h.made + (Len(req.decisions) + Len(req.pending)) <= l
    BY <1>1 DEF CanCreate
  <2> QED BY <2>1, <2>2, <2>3, <2>4, <2>5
<1> HIDE DEF S, U
<1>3. PICK f : Decide(h, req) = f[S] /\ f[{}] = h /\ DecideSteps(f, req)
  BY DecideFold DEF S
<1>4. NotesOnly(f, S, req.now)
  BY <1>3 DEF NotesOnly, DecideSteps, S
<1>5. PICK k : k = Decide(h, req) /\ Keeps(h, k) /\ k.made <= h.made + m
  <2>1. h.made + m <= l
    BY <1>2
  <2>2. CanCreate(h, Cardinality(S))
    BY <1>1, <2>1 DEF CanCreate
  <2> QED BY <1>1, <1>2, <1>3, <1>4, <2>2, NotesKeep
<1>6. Tables(k) /\ CanCreate(k, Cardinality(U))
  <2>1. Tables(k) /\ k.made \in Nat
    BY <1>5 DEF Keeps, Tables
  <2>2. k.made + n <= l
    BY <1>2, <1>5, <2>1
  <2> QED BY <1>1, <2>1, <2>2 DEF CanCreate
<1>7. PICK e : Postpone(k, req) = e[U] /\ e[{}] = k /\ PostponeSteps(e, req)
  BY PostponeFold DEF U
<1>8. NotesOnly(e, U, req.now)
  BY <1>7 DEF NotesOnly, PostponeSteps, U
<1>9. Keeps(k, e[U])
  BY <1>2, <1>6, <1>7, <1>8, NotesKeep
<1> QED BY <1>5, <1>7, <1>9, KeptOn

-----------------------------------------------------------------------------
(* A plan, while the store is what it is.                                  *)

\* A sequence is one of its members.
LEMMA SeqOfMembers ==
  ASSUME NEW A, NEW s \in Seq(A)
  PROVE  s \in Seq(ToSet(s))
<1>1. PICK n \in Nat : n = Len(s) /\ s \in [1..n -> A]
  OBVIOUS
<1>2. s \in [1..n -> ToSet(s)]
  BY <1>1 DEF ToSet
<1> HIDE DEF ToSet
<1> QED BY <1>2

\* The candidates are of the store, but for the draft.
LEMMA PoolIn ==
  ASSUME NEW h, Tables(h), NEW src, NEW proj, NEW pool \in Pools(h, src, proj)
  PROVE  /\ pool \in Seq(ToSet(pool)) /\ src \in ToSet(pool)
         /\ \A x \in ToSet(pool) \ {src} : Has(h, x) /\ ~h.th[x].cluster /\ h.th[x].proj = proj
<1> DEFINE Newest(x) == h.th[x].born
           active == {x \in DOMAIN h.th : h.th[x].status = "active" /\ h.th[x].proj = proj}
           Regulars(s) == {x \in ToSet(FirstOf(s, MaxCandidates)) : ~h.th[x].cluster}
<1>1. \A A, s : (IsFiniteSet(A) /\ s \in SetToSeqs(A)) =>
        s \in Seq(A) /\ ToSet(s) \subseteq A
  <2>1. ASSUME NEW A, IsFiniteSet(A), NEW s \in SetToSeqs(A) PROVE s \in Seq(A) /\ ToSet(s) \subseteq A
    <3>1. PICK n \in Nat : n = Cardinality(A)
      BY <2>1, FS_CardinalityType
    <3>2. s \in [1..n -> A]
      BY <2>1, <3>1 DEF SetToSeqs
    <3>3. s \in Seq(A)
      BY <3>2
    <3> QED BY <3>2, <3>3 DEF ToSet
  <2> QED BY <2>1
<1>2. ASSUME NEW s \in Ranked(active, Newest) PROVE Regulars(s) \subseteq active /\ IsFiniteSet(Regulars(s))
  <2>1. s \in SetToSeqs(active)
    BY <1>2 DEF Ranked
  <2>2. IsFiniteSet(active)
    BY FS_Subset DEF Tables
  <2>3. s \in Seq(active) /\ ToSet(s) \subseteq active
    BY <1>1, <2>1, <2>2
  <2>4. ToSet(FirstOf(s, MaxCandidates)) \subseteq active
    <3>1. PICK k : k \in Nat /\ k <= Len(s) /\ FirstOf(s, MaxCandidates) = SubSeq(s, 1, k)
      <4>1. MaxCandidates \in Nat /\ Len(s) \in Nat
        BY <2>3, ConfigAssumption
      <4> QED BY <4>1 DEF FirstOf
    <3>2. SubSeq(s, 1, k) \in Seq(active)
      BY <2>3, <3>1
    <3> QED BY <3>1, <3>2 DEF ToSet
  <2> HIDE DEF active
  <2>5. Regulars(s) \subseteq active
    BY <2>4
  <2> QED BY <2>2, <2>5, FS_Subset
<1>3. PICK s \in Ranked(active, Newest) : \E o \in Ranked(Regulars(s), Newest) :
        pool = IF src \in ToSet(o) THEN o ELSE <<src>> \o o
  BY DEF Pools
<1>4. PICK o \in SetToSeqs(Regulars(s)) : pool = IF src \in ToSet(o) THEN o ELSE <<src>> \o o
  BY <1>3 DEF Ranked
<1> DEFINE Those == {x \in DOMAIN h.th : ~h.th[x].cluster /\ h.th[x].proj = proj}
<1>5. o \in Seq(Those) /\ ToSet(o) \subseteq Those
  <2>1. Regulars(s) \subseteq Those /\ IsFiniteSet(Regulars(s))
    BY <1>2, <1>3
  <2> HIDE DEF Regulars
  <2>2. o \in Seq(Regulars(s)) /\ ToSet(o) \subseteq Regulars(s)
    BY <1>1, <1>4, <2>1
  <2> QED BY <2>1, <2>2
<1> HIDE DEF active, Regulars, Newest, Those
<1>6. ToSet(pool) \subseteq Those \cup {src} /\ src \in ToSet(pool) /\ pool \in Seq(ToSet(pool))
  <2>1. CASE src \in ToSet(o)
    BY <1>4, <1>5, <2>1, SeqOfMembers
  <2>2. CASE src \notin ToSet(o)
    <3>1. pool = <<src>> \o o
      BY <1>4, <2>2
    <3>2. pool \in Seq(Those \cup {src}) /\ pool[1] = src /\ 1 \in DOMAIN pool
      BY <1>5, <3>1
    <3> QED BY <3>2, SeqOfMembers DEF ToSet
  <2> QED BY <2>1, <2>2
<1> QED BY <1>6 DEF Those, Has

-----------------------------------------------------------------------------
(* What a write does to the calls under way.                               *)

\* A write, of whatever the tables hold: the calls see it, the tables stay in
\* order, and a vector is what it was, no less out of date than before, or is
\* made of what the thought says at the time.
StoreMoves ==
  /\ Tables(g') /\ Accounted(g', vec', queued', lost')
  /\ \A x \in DOMAIN vec' : \/ x \in DOMAIN vec /\ vec'[x] = vec[x] /\ (x \in queued => x \in queued')
                            \/ Has(g, x) /\ vec'[x] = g.th[x].content
  /\ saw' = [p \in Processes |-> saw'[p]]
  /\ \A p \in Processes : g \in saw[p] => saw[p] \subseteq saw'[p] /\ g' \in saw'[p]

StoreOK == Tables(g) /\ Accounted(g, vec, queued, lost) /\ saw = [p \in Processes |-> saw[p]]

\* What is seen of a commit.
LEMMA SeeIs ==
  ASSUME NEW new, See(new), g' = new
  PROVE  /\ saw' = [p \in Processes |-> saw'[p]]
         /\ \A p \in Processes : g \in saw[p] => saw[p] \subseteq saw'[p] /\ g' \in saw'[p]
BY DEF See

\* A write that keeps what is there and queues no less.
LEMMA KeptMoves ==
  ASSUME StoreOK, NEW new, Keeps(g, new), g' = new, See(new), vec' = vec, lost' = lost,
         queued \subseteq queued'
  PROVE  StoreMoves
<1>1. Tables(g')
  BY DEF Keeps
<1>2. Accounted(g', vec', queued', lost')
  BY DEF StoreOK, Accounted, Keeps, Has
<1> QED BY <1>1, <1>2, SeeIs DEF StoreMoves

LEMMA NothingMoves ==
  ASSUME StoreOK, UNCHANGED <<g, vec, queued, lost, saw>>
  PROVE  StoreMoves
BY DEF StoreOK, StoreMoves

LEMMA WakeMoves ==
  ASSUME StoreOK, NEW id \in DOMAIN g.th, Wake(id)
  PROVE  StoreMoves
<1>1. PICK h : h = g
  OBVIOUS
<1> DEFINE was == h.th[id]
           row == [was EXCEPT !.wait = FALSE]
           th == [h.th EXCEPT ![id] = row]
<1>2. PICK new : /\ new = [h EXCEPT !.th[id].wait = FALSE]
                 /\ g' = new /\ See(new) /\ vec' = vec /\ lost' = lost /\ queued' = queued
  BY <1>1 DEF Wake, Write
<1>3. Tables(h) /\ id \in DOMAIN h.th
  BY <1>1 DEF StoreOK
<1>4. new = [h EXCEPT !.th[id] = row]
  BY <1>2
<1>5. SameRow(was, row)
  <2>1. Columns(was)
    BY <1>3 DEF Tables
  <2> HIDE DEF was
  <2> QED BY <2>1 DEF Columns, SameRow
<1> HIDE DEF row
<1>6. new = [th |-> th, ed |-> h.ed, projs |-> h.projs, made |-> h.made, ver |-> h.ver]
  BY <1>3, <1>4 DEF Tables
<1>7. DOMAIN th = DOMAIN h.th /\ \A y \in DOMAIN h.th : SameRow(h.th[y], th[y])
  BY <1>3, <1>5, OneRow
<1> HIDE DEF th
<1>8. Keeps(h, new)
  BY <1>3, <1>6, <1>7, RowKept, TablesMembers
<1> QED BY <1>1, <1>2, <1>8, KeptMoves

LEMMA UpdateMoves ==
  ASSUME StoreOK, NEW id, NEW d \in Edits, Update(id, d)
  PROVE  StoreMoves
<1>1. PICK new, t : /\ new = UpdateThought(g, id, d, t).g /\ id \in DOMAIN g.th
                    /\ g' = new /\ See(new) /\ vec' = vec /\ lost' = lost
                    /\ queued' = IF "content" \in DOMAIN d THEN queued \cup {id} ELSE queued
  BY DEF Update, Write, Has
<1>2. /\ Tables(new) /\ DOMAIN new.th = DOMAIN g.th
      /\ \A x \in DOMAIN g.th : new.th[x].content # g.th[x].content =>
                                  x = id /\ "content" \in DOMAIN d
  BY <1>1, UpdateIs DEF StoreOK
<1>3. Accounted(g', vec', queued', lost')
  BY <1>1, <1>2 DEF StoreOK, Accounted, Has
<1> QED BY <1>1, <1>2, <1>3, SeeIs DEF StoreMoves

LEMMA LateEditMoves ==
  ASSUME StoreOK, NEW id, NEW d \in Edits, LateEdit(id, d)
  PROVE  StoreMoves
<1>1. PICK new, t : /\ new = UpdateThought(g, id, d, t).g /\ id \in DOMAIN g.th
                    /\ g' = new /\ See(new)
                    /\ vec' = [x \in DOMAIN vec \cup {id} |->
                                 IF x = id THEN g.th[id].content ELSE vec[x]]
                    /\ queued' = queued \ {id} /\ lost' = lost \cup {id}
  BY DEF LateEdit, Write, Has
<1>2. /\ Tables(new) /\ DOMAIN new.th = DOMAIN g.th
      /\ \A x \in DOMAIN g.th : new.th[x].content # g.th[x].content =>
                                  x = id /\ "content" \in DOMAIN d
  BY <1>1, UpdateIs DEF StoreOK
<1>3. /\ DOMAIN vec' = DOMAIN vec \cup {id} /\ vec'[id] = g.th[id].content
      /\ \A x \in DOMAIN vec \ {id} : vec'[x] = vec[x]
  BY <1>1
<1>4. Accounted(g', vec', queued', lost')
  BY <1>1, <1>2, <1>3 DEF StoreOK, Accounted, Has
<1>5. \A x \in DOMAIN vec' : \/ x \in DOMAIN vec /\ vec'[x] = vec[x] /\ (x \in queued => x \in queued')
                             \/ Has(g, x) /\ vec'[x] = g.th[x].content
  BY <1>1, <1>3 DEF Has
<1> QED BY <1>1, <1>2, <1>4, <1>5, SeeIs DEF StoreMoves

LEMMA LinkMoves ==
  ASSUME StoreOK, NEW s, NEW t, NEW type, Link(s, t, type)
  PROVE  StoreMoves
<1>1. PICK made, new : /\ made = CreateEdge(g, s, t, type).g /\ new = Committed(g, made)
                       /\ g' = new /\ See(new) /\ vec' = vec /\ lost' = lost /\ queued' = queued
  BY DEF Link, Write
<1>2. Keeps(g, new)
  BY <1>1, LinkKept, CommittedKept DEF StoreOK
<1> QED BY <1>1, <1>2, KeptMoves

LEMMA UnlinkMoves ==
  ASSUME StoreOK, NEW e, Unlink(e)
  PROVE  StoreMoves
<1>1. PICK h : h = g
  OBVIOUS
<1>2. PICK cut, new : /\ cut = [h EXCEPT !.ed = @ \ {e}] /\ new = Committed(h, cut)
                      /\ g' = new /\ See(new) /\ vec' = vec /\ lost' = lost /\ queued' = queued
  BY <1>1 DEF Unlink, Write
<1>3. Tables(h)
  BY <1>1 DEF StoreOK
<1>4. cut = [th |-> h.th, ed |-> h.ed \ {e}, projs |-> h.projs, made |-> h.made, ver |-> h.ver]
  BY <1>2, <1>3 DEF Tables
<1>5. Membership(h, h.ed \ {e})
  BY <1>3 DEF Tables, Membership
<1>6. Keeps(h, new)
  BY <1>2, <1>3, <1>4, <1>5, EdgesKept, CommittedKept
<1> QED BY <1>1, <1>2, <1>6, KeptMoves

LEMMA RetypeMoves ==
  ASSUME StoreOK, NEW e, NEW type, Retype(e, type)
  PROVE  StoreMoves
<1>1. PICK h : h = g
  OBVIOUS
<1> DEFINE fresh == [s |-> e.s, t |-> e.t, type |-> type, ver |-> e.ver]
           ed == (h.ed \ {e}) \cup {fresh}
<1>2. PICK put, boosted, new :
        /\ put = [h EXCEPT !.ed = ed] /\ boosted = BoostImportance(put, e.s)
        /\ new = Committed(h, boosted)
        /\ g' = new /\ See(new) /\ vec' = vec /\ lost' = lost /\ queued' = queued
  BY <1>1 DEF Retype, Write
<1>3. Tables(h) /\ (type = "cluster" => IsCluster(h, e.s))
  BY <1>1 DEF StoreOK, Retype, Retypable, ClusterRule
<1>4. Membership(h, ed)
  BY <1>3 DEF Tables, Membership
<1> HIDE DEF ed
<1>5. put = [th |-> h.th, ed |-> ed, projs |-> h.projs, made |-> h.made, ver |-> h.ver]
  BY <1>2, <1>3 DEF Tables
<1>6. Keeps(h, put)
  BY <1>3, <1>4, <1>5, EdgesKept
<1>7. Keeps(put, boosted)
  <2>1. Tables(put)
    BY <1>6 DEF Keeps
  <2>2. Keeps(put, BoostImportance(put, e.s))
    BY <2>1, BoostKept
  <2> QED BY <1>2, <2>2
<1>8. Keeps(h, new)
  BY <1>2, <1>3, <1>6, <1>7, KeptOn, CommittedKept
<1> QED BY <1>1, <1>2, <1>8, KeptMoves

LEMMA DeleteMoves ==
  ASSUME StoreOK, NEW id, Delete(id)
  PROVE  StoreMoves
<1>1. PICK new : /\ new = Committed(g, DeleteThought(g, id))
                 /\ g' = new /\ See(new) /\ lost' = lost /\ queued' = queued \ {id}
                 /\ vec' = [x \in DOMAIN vec \ {id} |-> vec[x]]
  BY DEF Delete, Write
<1>2. /\ Tables(new) /\ DOMAIN new.th = DOMAIN g.th \ {id}
      /\ \A x \in DOMAIN new.th : new.th[x] = g.th[x]
  BY <1>1, DeleteIs DEF StoreOK
<1>3. DOMAIN vec' = DOMAIN vec \ {id} /\ \A x \in DOMAIN vec' : vec'[x] = vec[x]
  BY <1>1
<1>4. Accounted(g', vec', queued', lost')
  BY <1>1, <1>2, <1>3 DEF StoreOK, Accounted, Has
<1> QED BY <1>1, <1>2, <1>3, <1>4, SeeIs DEF StoreMoves

LEMMA WorkMoves ==
  ASSUME StoreOK, NEW id, Work(id)
  PROVE  StoreMoves
<1>1. /\ id \in DOMAIN g.th /\ g' = g /\ saw' = saw
      /\ queued' = queued \ {id} /\ lost' = lost \ {id}
      /\ vec' = [x \in DOMAIN vec \cup {id} |-> IF x = id THEN g.th[id].content ELSE vec[x]]
  BY DEF Work, Has
<1>2. /\ DOMAIN vec' = DOMAIN vec \cup {id} /\ vec'[id] = g.th[id].content
      /\ \A x \in DOMAIN vec \ {id} : vec'[x] = vec[x]
  BY <1>1
<1>3. Accounted(g', vec', queued', lost')
  BY <1>1, <1>2 DEF StoreOK, Accounted, Has
<1>4. \A x \in DOMAIN vec' : \/ x \in DOMAIN vec /\ vec'[x] = vec[x] /\ (x \in queued => x \in queued')
                             \/ Has(g, x) /\ vec'[x] = g.th[x].content
  BY <1>1, <1>2 DEF Has
<1> QED BY <1>1, <1>3, <1>4 DEF StoreMoves, StoreOK

LEMMA PromoteMoves ==
  ASSUME StoreOK, NEW p, Promote(p)
  PROVE  StoreMoves
<1>1. UNCHANGED <<vec, queued, lost>>
  BY DEF Promote
<1>2. \/ UNCHANGED <<g, saw>>
      \/ \E x : g' = BoostImportance(g, x) /\ See(g')
  BY DEF Promote
<1>3. CASE UNCHANGED <<g, saw>>
  BY <1>1, <1>3, NothingMoves
<1>4. ASSUME NEW x, g' = BoostImportance(g, x), See(g') PROVE StoreMoves
  <2>1. PICK new : new = BoostImportance(g, x)
    OBVIOUS
  <2>2. Keeps(g, new)
    BY <2>1, BoostKept DEF StoreOK
  <2> QED BY <1>1, <1>4, <2>1, <2>2, KeptMoves
<1> QED BY <1>2, <1>3, <1>4

LEMMA ReflectMoves ==
  ASSUME StoreOK, NEW p, Reflect(p),
         sheet[p].req.decisions \in Seq(STRING), sheet[p].req.pending \in Seq(STRING),
         sheet[p].req.now \in Nat
  PROVE  StoreMoves
<1>1. PICK req : req = sheet[p].req
  OBVIOUS
<1>2. PICK new : new = Postpone(Decide(g, req), req)
  OBVIOUS
<1>3. CanCreate(g, Len(req.decisions) + Len(req.pending))
  BY <1>1 DEF Reflect
<1>4. Keeps(g, new)
  BY <1>1, <1>2, <1>3, ReflectKept DEF StoreOK
<1>5. \/ UNCHANGED <<g, vec, queued, lost, saw>>
      \/ /\ g' = new /\ See(new) /\ vec' = vec /\ lost' = lost
         /\ queued' = queued \cup (DOMAIN new.th \ DOMAIN g.th)
  BY <1>1, <1>2 DEF Reflect, corpus
<1>6. CASE UNCHANGED <<g, vec, queued, lost, saw>>
  BY <1>6, NothingMoves
<1>7. CASE /\ g' = new /\ See(new) /\ vec' = vec /\ lost' = lost
           /\ queued' = queued \cup (DOMAIN new.th \ DOMAIN g.th)
  BY <1>4, <1>7, KeptMoves
<1> QED BY <1>5, <1>6, <1>7

\* What the other processes write.
LEMMA OthersMove ==
  ASSUME StoreOK, Others
  PROVE  StoreMoves
BY WakeMoves, UpdateMoves, LateEditMoves, LinkMoves, UnlinkMoves, RetypeMoves, DeleteMoves, WorkMoves
   DEF Others

-----------------------------------------------------------------------------
(* The plans.                                                              *)

\* What was so stays so for a call that has seen more.
LEMMA WasOn ==
  ASSUME NEW S, NEW T, S \subseteq T, NEW x, NEW content, Was(S, x, content)
  PROVE  Was(T, x, content)
BY DEF Was

\* A plan is none the worse for a write.
LEMMA PlanMoved ==
  ASSUME StoreMoves, NEW r, NEW S, NEW T, g \in S, S \subseteq T, PlanOK(r, S, vec, queued)
  PROVE  PlanOK(r, T, vec', queued')
<1>1. \A x, c : Was(S, x, c) => Was(T, x, c)
  BY WasOn
<1>2. \A v, b : Backed(S, v, b) => Backed(T, v, b)
  BY <1>1 DEF Backed
<1>3. \A x : Has(g, x) => Was(T, x, g.th[x].content)
  BY DEF Was
<1>4. r.pc = "pending" => Backed(T, vec', queued' \cup r.blind)
  BY <1>1, <1>3 DEF PlanOK, StoreMoves, Backed
<1>5. r.pc = "stored" => \A x \in ToSet(r.pool) \cap DOMAIN vec' :
                           x \notin r.pending \cup r.blind => Was(T, x, vec'[x])
  BY <1>1, <1>3 DEF PlanOK, StoreMoves
<1>6. r.pc \in {"pending", "stored", "embed"} =>
        \A x \in ToSet(r.pool) \ {Draft} : Was(T, x, r.rows[x].content)
  BY <1>1 DEF PlanOK
<1> HIDE DEF Backed
<1> QED BY <1>2, <1>4, <1>5, <1>6 DEF PlanOK

\* The plan of one process steps, and no store.
PlanSteps(p, r, n) ==
  /\ r = plan[p] /\ plan' = [plan EXCEPT ![p] = n]
  /\ UNCHANGED <<g, vec, queued, lost, saw>>

\* A step that leaves the vectors of a plan alone, after they were got.
Later(r, n) ==
  /\ n = [pc |-> n.pc, call |-> r.call, src |-> r.src, rows |-> r.rows, pool |-> r.pool,
          merge |-> r.merge, pending |-> r.pending, vectors |-> r.vectors, blind |-> r.blind,
          degraded |-> r.degraded, cluster |-> n.cluster, placed |-> n.placed,
          edges |-> n.edges, fate |-> n.fate]
  /\ n.pc \in {"room", "link", "parent", "done"}

LEMMA LaterOK ==
  ASSUME NEW r, NEW n, Later(r, n), NEW S, PlanOK(r, S, vec, queued),
         r.pc \in {"cluster", "room", "link", "parent"}
  PROVE  PlanOK(n, S, vec, queued)
<1>1. Backed(S, r.vectors, r.blind \cup {Draft})
  BY DEF PlanOK
<1>2. PlanRecord(n) /\ n.vectors = r.vectors /\ n.blind = r.blind
  BY DEF Later, PlanRecord
<1>3. n.pc \in {"room", "link", "parent", "done"}
  BY DEF Later
<1> QED BY <1>1, <1>2, <1>3 DEF PlanOK

LEMMA PlacingSteps ==
  ASSUME NEW p, Place(p) \/ Conclude(p), PlanRecord(plan[p])
  PROVE  \E n : /\ PlanSteps(p, plan[p], n) /\ Later(plan[p], n)
                /\ plan[p].pc \in {"cluster", "room", "link", "parent"}
<1>1. PICK r : r = plan[p]
  OBVIOUS
<1>2. PlanRecord(r)
  BY <1>1
<1>3. ASSUME NEW pc \in {"room", "link", "parent", "done"}, NEW cluster, NEW placed, NEW edges,
             NEW fate, NEW n,
             n = [pc |-> pc, call |-> r.call, src |-> r.src, rows |-> r.rows, pool |-> r.pool,
                  merge |-> r.merge, pending |-> r.pending, vectors |-> r.vectors,
                  blind |-> r.blind, degraded |-> r.degraded, cluster |-> cluster,
                  placed |-> placed, edges |-> edges, fate |-> fate]
      PROVE  Later(r, n)
  BY <1>3 DEF Later
<1>4. UNCHANGED <<g, vec, queued, lost, saw>> /\ r.pc \in {"cluster", "room", "link", "parent"}
  BY <1>1 DEF Place, PlaceByCluster, CheckRoom, PlaceByParent, Conclude, In, corpus
<1>5. CASE PlaceByCluster(p)
  <2>1. PICK c, n : n = [r EXCEPT !.pc = "room", !.cluster = c] /\ plan' = [plan EXCEPT ![p] = n]
    BY <1>1, <1>5 DEF PlaceByCluster, Set
  <2>2. n = [pc |-> "room", call |-> r.call, src |-> r.src, rows |-> r.rows, pool |-> r.pool,
             merge |-> r.merge, pending |-> r.pending, vectors |-> r.vectors,
             blind |-> r.blind, degraded |-> r.degraded, cluster |-> c,
             placed |-> r.placed, edges |-> r.edges, fate |-> r.fate]
    BY <1>2, <2>1 DEF PlanRecord
  <2>3. Later(r, n)
    BY <1>3, <2>2
  <2> QED BY <1>1, <1>4, <2>1, <2>3 DEF PlanSteps
<1>6. CASE CheckRoom(p)
  <2> DEFINE To(pc, placed) == plan' = [plan EXCEPT ![p] = [r EXCEPT !.pc = pc, !.placed = placed]]
  <2>1. PICK pc, placed : pc \in {"link", "parent"} /\ To(pc, placed)
    <3>1. PICK there : there = [kind |-> "cluster", target |-> r.cluster]
      OBVIOUS
    <3>2. To("link", there) \/ To("parent", r.placed)
      BY <1>1, <1>6, <3>1 DEF CheckRoom, Set
    <3> HIDE DEF To
    <3> QED BY <3>2
  <2>2. PICK n : n = [r EXCEPT !.pc = pc, !.placed = placed] /\ plan' = [plan EXCEPT ![p] = n]
    BY <2>1
  <2>3. n = [pc |-> pc, call |-> r.call, src |-> r.src, rows |-> r.rows, pool |-> r.pool,
             merge |-> r.merge, pending |-> r.pending, vectors |-> r.vectors,
             blind |-> r.blind, degraded |-> r.degraded, cluster |-> r.cluster,
             placed |-> placed, edges |-> r.edges, fate |-> r.fate]
    BY <1>2, <2>2 DEF PlanRecord
  <2>4. Later(r, n)
    BY <1>3, <2>1, <2>3
  <2> QED BY <1>1, <1>4, <2>2, <2>4 DEF PlanSteps
<1>7. CASE PlaceByParent(p)
  <2>1. PICK placed, n : n = [r EXCEPT !.pc = "link", !.placed = placed]
                         /\ plan' = [plan EXCEPT ![p] = n]
    BY <1>1, <1>7 DEF PlaceByParent, Set
  <2>2. n = [pc |-> "link", call |-> r.call, src |-> r.src, rows |-> r.rows, pool |-> r.pool,
             merge |-> r.merge, pending |-> r.pending, vectors |-> r.vectors,
             blind |-> r.blind, degraded |-> r.degraded, cluster |-> r.cluster,
             placed |-> placed, edges |-> r.edges, fate |-> r.fate]
    BY <1>2, <2>1 DEF PlanRecord
  <2>3. Later(r, n)
    BY <1>3, <2>2
  <2> QED BY <1>1, <1>4, <2>1, <2>3 DEF PlanSteps
<1>8. CASE Conclude(p)
  <2>1. PICK edges, fate, n : n = [r EXCEPT !.pc = "done", !.edges = edges, !.fate = fate]
                              /\ plan' = [plan EXCEPT ![p] = n]
    BY <1>1, <1>8 DEF Conclude, Set
  <2>2. n = [pc |-> "done", call |-> r.call, src |-> r.src, rows |-> r.rows, pool |-> r.pool,
             merge |-> r.merge, pending |-> r.pending, vectors |-> r.vectors,
             blind |-> r.blind, degraded |-> r.degraded, cluster |-> r.cluster,
             placed |-> r.placed, edges |-> edges, fate |-> fate]
    BY <1>2, <2>1 DEF PlanRecord
  <2>3. Later(r, n)
    BY <1>3, <2>2
  <2> QED BY <1>1, <1>4, <2>1, <2>3 DEF PlanSteps
<1> QED BY <1>5, <1>6, <1>7, <1>8 DEF Place

\* What a step of process p has to show for its plan.
PlanGoesOn(p) ==
  \E n : PlanSteps(p, plan[p], n) /\ PlanOK(n, saw[p], vec, queued)

LEMMA StartOK ==
  ASSUME StoreOK, NEW p, Start(p), g \in saw[p], PlanOK(plan[p], saw[p], vec, queued)
  PROVE  PlanGoesOn(p)
<1> DEFINE r == plan[p]
           S == saw[p]
<1>1. r = plan[p] /\ S = saw[p]
  OBVIOUS
<1>2. PlanRecord(r) /\ r.pc = "start" /\ r.vectors = <<>>
  BY <1>1 DEF PlanOK, Start, In
<1>3. UNCHANGED <<g, vec, queued, lost, saw>>
  BY DEF Start, corpus
<1> DEFINE call == r.call
           src == IF call.id = "none" THEN Draft ELSE call.id
           row == IF src = Draft THEN DraftRow(call) ELSE g.th[src]
           Rows(pool) == [x \in ToSet(pool) |-> IF x = src THEN row ELSE g.th[x]]
           Begun(pool) == [r EXCEPT !.pc = "pending", !.src = src, !.pool = pool,
                             !.rows = Rows(pool), !.merge = MergeTarget(Rows(pool), pool, src),
                             !.blind = lost]
           Turns(n) == plan' = [plan EXCEPT ![p] = n]
<1>4. \/ Turns([r EXCEPT !.pc = "failed"])
      \/ Turns([r EXCEPT !.pc = "done", !.src = src])
      \/ /\ src # Draft => Has(g, src)
         /\ \E pool \in Pools(g, src, row.proj) : Turns(Begun(pool))
  BY Zenon DEF Start, Set, ReadOrder
<1> HIDE DEF r, S
<1> HIDE DEF Turns
<1>5. CASE Turns([r EXCEPT !.pc = "failed"])
  <2>1. PICK n : n = [r EXCEPT !.pc = "failed"] /\ Turns(n)
    BY <1>5
  <2>2. n = [pc |-> "failed", call |-> r.call, src |-> r.src, rows |-> r.rows, pool |-> r.pool,
             merge |-> r.merge, pending |-> r.pending, vectors |-> r.vectors,
             blind |-> r.blind, degraded |-> r.degraded, cluster |-> r.cluster,
             placed |-> r.placed, edges |-> r.edges, fate |-> r.fate]
    BY <1>2, <2>1 DEF PlanRecord
  <2>3. PlanOK(n, S, vec, queued)
    BY <1>2, <2>2 DEF PlanOK, PlanRecord, Backed
  <2> QED BY <1>1, <1>3, <2>1, <2>3 DEF PlanGoesOn, PlanSteps, Turns
<1>6. CASE Turns([r EXCEPT !.pc = "done", !.src = src])
  <2> HIDE DEF src
  <2>1. PICK n : n = [r EXCEPT !.pc = "done", !.src = src] /\ Turns(n)
    BY <1>6
  <2>2. n = [pc |-> "done", call |-> r.call, src |-> src, rows |-> r.rows, pool |-> r.pool,
             merge |-> r.merge, pending |-> r.pending, vectors |-> r.vectors,
             blind |-> r.blind, degraded |-> r.degraded, cluster |-> r.cluster,
             placed |-> r.placed, edges |-> r.edges, fate |-> r.fate]
    BY <1>2, <2>1 DEF PlanRecord
  <2>3. PlanOK(n, S, vec, queued)
    BY <1>2, <2>2 DEF PlanOK, PlanRecord, Backed
  <2> QED BY <1>1, <1>3, <2>1, <2>3 DEF PlanGoesOn, PlanSteps, Turns
<1>7. ASSUME src # Draft => Has(g, src), NEW pool \in Pools(g, src, row.proj), Turns(Begun(pool))
      PROVE  PlanGoesOn(p)
  <2>1. \A x \in ToSet(pool) \ {Draft} : /\ Has(g, x)
                                         /\ Rows(pool)[x].content = g.th[x].content
    <3>1. ToSet(pool) \subseteq DOMAIN g.th \cup {src}
      <4> HIDE DEF src, row
      <4> QED BY <1>7, PoolIn DEF StoreOK, Has
    <3> QED BY <1>7, <3>1 DEF Has
  <2>2. \A x \in ToSet(pool) \ {Draft} : Was(S, x, Rows(pool)[x].content)
    <3> HIDE DEF Rows
    <3> QED BY <1>1, <2>1 DEF Was
  <2>3. Backed(S, vec, queued \cup lost)
    BY <1>1 DEF StoreOK, Accounted, Backed, Was
  <2> HIDE DEF src, Rows
  <2>4. PICK rows, merge, n : rows = Rows(pool) /\ n = Begun(pool)
                              /\ merge = MergeTarget(Rows(pool), pool, src)
    OBVIOUS
  <2>5. n = [pc |-> "pending", call |-> r.call, src |-> src, rows |-> rows, pool |-> pool,
             merge |-> merge, pending |-> r.pending, vectors |-> r.vectors,
             blind |-> lost, degraded |-> r.degraded, cluster |-> r.cluster,
             placed |-> r.placed, edges |-> r.edges, fate |-> r.fate]
    BY <1>2, <2>4 DEF PlanRecord
  <2>6. /\ PlanRecord(n) /\ n.pc = "pending" /\ n.pool = pool /\ n.rows = rows /\ n.blind = lost
    BY <2>5 DEF PlanRecord
  <2>7. PlanOK(n, S, vec, queued)
    BY <2>2, <2>3, <2>4, <2>6 DEF PlanOK
  <2> QED BY <1>1, <1>3, <1>7, <2>4, <2>7 DEF PlanGoesOn, PlanSteps, Turns
<1> QED BY <1>4, <1>5, <1>6, <1>7

LEMMA ReadPendingOK ==
  ASSUME NEW p, ReadPending(p), PlanOK(plan[p], saw[p], vec, queued)
  PROVE  PlanGoesOn(p)
<1>1. PICK r, S : r = plan[p] /\ S = saw[p]
  OBVIOUS
<1>2. PlanRecord(r) /\ r.pc = "pending" /\ PlanOK(r, S, vec, queued)
  BY <1>1 DEF PlanOK, ReadPending, In
<1>3. UNCHANGED <<g, vec, queued, lost, saw>>
  BY DEF ReadPending, corpus
<1>4. PICK found \in {queued \cap ToSet(r.pool), ToSet(r.pool)} :
        plan' = [plan EXCEPT ![p] = [r EXCEPT !.pc = "stored", !.pending = found]]
  BY <1>1 DEF ReadPending, Set, AfterRead, ReadOrder
<1>5. PICK n : n = [r EXCEPT !.pc = "stored", !.pending = found] /\ plan' = [plan EXCEPT ![p] = n]
  BY <1>4
<1>6. n = [pc |-> "stored", call |-> r.call, src |-> r.src, rows |-> r.rows, pool |-> r.pool,
           merge |-> r.merge, pending |-> found, vectors |-> r.vectors,
           blind |-> r.blind, degraded |-> r.degraded, cluster |-> r.cluster,
           placed |-> r.placed, edges |-> r.edges, fate |-> r.fate]
  BY <1>2, <1>5 DEF PlanRecord
<1>7. /\ PlanRecord(n) /\ n.pc = "stored" /\ n.pool = r.pool /\ n.rows = r.rows
      /\ n.blind = r.blind /\ n.pending = found
  BY <1>6 DEF PlanRecord
<1>8. \A x \in ToSet(r.pool) \cap DOMAIN vec : x \notin found \cup r.blind => Was(S, x, vec[x])
  BY <1>2, <1>4 DEF PlanOK, Backed
<1>9. \A x \in ToSet(r.pool) \ {Draft} : Was(S, x, r.rows[x].content)
  BY <1>2 DEF PlanOK
<1>10. PlanOK(n, S, vec, queued)
  BY <1>7, <1>8, <1>9 DEF PlanOK
<1> QED BY <1>1, <1>3, <1>5, <1>10 DEF PlanGoesOn, PlanSteps

LEMMA ReadStoredOK ==
  ASSUME NEW p, ReadStored(p), PlanOK(plan[p], saw[p], vec, queued)
  PROVE  PlanGoesOn(p)
<1>1. PICK r, S : r = plan[p] /\ S = saw[p]
  OBVIOUS
<1>2. PlanRecord(r) /\ r.pc = "stored" /\ PlanOK(r, S, vec, queued)
  BY <1>1 DEF PlanOK, ReadStored, In
<1>3. UNCHANGED <<g, vec, queued, lost, saw>>
  BY DEF ReadStored, corpus
<1>4. PICK found \in {DOMAIN vec \cap ToSet(r.pool), {}} :
        plan' = [plan EXCEPT ![p] = [r EXCEPT !.pc = "embed", !.vectors = [x \in found |-> vec[x]]]]
  BY <1>1 DEF ReadStored, Set, AfterRead, ReadOrder
<1>5. PICK vectors, n : /\ vectors = [x \in found |-> vec[x]]
                        /\ n = [r EXCEPT !.pc = "embed", !.vectors = vectors]
                        /\ plan' = [plan EXCEPT ![p] = n]
  BY <1>4
<1>6. n = [pc |-> "embed", call |-> r.call, src |-> r.src, rows |-> r.rows, pool |-> r.pool,
           merge |-> r.merge, pending |-> r.pending, vectors |-> vectors,
           blind |-> r.blind, degraded |-> r.degraded, cluster |-> r.cluster,
           placed |-> r.placed, edges |-> r.edges, fate |-> r.fate]
  BY <1>2, <1>5 DEF PlanRecord
<1>7. /\ PlanRecord(n) /\ n.pc = "embed" /\ n.pool = r.pool /\ n.rows = r.rows
      /\ n.blind = r.blind /\ n.pending = r.pending /\ n.vectors = vectors
  BY <1>6 DEF PlanRecord
<1>8. Backed(S, vectors, r.pending \cup r.blind)
  BY <1>2, <1>4, <1>5 DEF PlanOK, Backed
<1>9. \A x \in ToSet(r.pool) \ {Draft} : Was(S, x, r.rows[x].content)
  BY <1>2 DEF PlanOK
<1>10. PlanOK(n, S, vec, queued)
  BY <1>7, <1>8, <1>9 DEF PlanOK
<1> QED BY <1>1, <1>3, <1>5, <1>10 DEF PlanGoesOn, PlanSteps

LEMMA EmbedOK ==
  ASSUME NEW p, Embed(p), PlanOK(plan[p], saw[p], vec, queued)
  PROVE  PlanGoesOn(p)
<1>1. PICK r, S : r = plan[p] /\ S = saw[p]
  OBVIOUS
<1>2. PlanRecord(r) /\ r.pc = "embed" /\ PlanOK(r, S, vec, queued)
  BY <1>1 DEF PlanOK, Embed, In
<1>3. UNCHANGED <<g, vec, queued, lost, saw>>
  BY DEF Embed, corpus
<1>4. PICK vectors, n : /\ vectors = [x \in ToSet(r.pool) |-> IF x \in Missing(r) THEN r.rows[x].content
                                                               ELSE r.vectors[x]]
                        /\ n = [r EXCEPT !.pc = "cluster", !.vectors = vectors]
                        /\ plan' = [plan EXCEPT ![p] = n]
  BY <1>1 DEF Embed, Set
<1>5. n = [pc |-> "cluster", call |-> r.call, src |-> r.src, rows |-> r.rows, pool |-> r.pool,
           merge |-> r.merge, pending |-> r.pending, vectors |-> vectors,
           blind |-> r.blind, degraded |-> r.degraded, cluster |-> r.cluster,
           placed |-> r.placed, edges |-> r.edges, fate |-> r.fate]
  BY <1>2, <1>4 DEF PlanRecord
<1>6. PlanRecord(n) /\ n.pc = "cluster" /\ n.blind = r.blind /\ n.vectors = vectors
  BY <1>5 DEF PlanRecord
<1>7. Backed(S, vectors, r.blind \cup {Draft})
  <2>1. ASSUME NEW x \in ToSet(r.pool) \ (r.blind \cup {Draft}) PROVE Was(S, x, vectors[x])
    <3>1. CASE x \in Missing(r)
      BY <1>2, <1>4, <2>1, <3>1 DEF PlanOK
    <3>2. CASE x \notin Missing(r)
      <4>1. x \in DOMAIN r.vectors /\ x \notin r.pending /\ vectors[x] = r.vectors[x]
        BY <1>4, <2>1, <3>2 DEF Missing
      <4>2. Backed(S, r.vectors, r.pending \cup r.blind)
        BY <1>2 DEF PlanOK
      <4> QED BY <2>1, <4>1, <4>2 DEF Backed
    <3> QED BY <3>1, <3>2
  <2> QED BY <1>4, <2>1 DEF Backed
<1>8. PlanOK(n, S, vec, queued)
  BY <1>6, <1>7 DEF PlanOK
<1> QED BY <1>1, <1>3, <1>4, <1>8 DEF PlanGoesOn, PlanSteps

LEMMA EmbedFailsOK ==
  ASSUME NEW p, EmbedFails(p), PlanOK(plan[p], saw[p], vec, queued)
  PROVE  PlanGoesOn(p)
<1>1. PICK r, S : r = plan[p] /\ S = saw[p]
  OBVIOUS
<1>2. PlanRecord(r)
  BY <1>1 DEF PlanOK
<1>3. UNCHANGED <<g, vec, queued, lost, saw>>
  BY DEF EmbedFails, corpus
<1>4. PICK fate, n : /\ n = [r EXCEPT !.pc = "done", !.degraded = TRUE, !.vectors = <<>>, !.fate = fate]
                     /\ plan' = [plan EXCEPT ![p] = n]
  BY <1>1 DEF EmbedFails, Set
<1>5. n = [pc |-> "done", call |-> r.call, src |-> r.src, rows |-> r.rows, pool |-> r.pool,
           merge |-> r.merge, pending |-> r.pending, vectors |-> <<>>,
           blind |-> r.blind, degraded |-> TRUE, cluster |-> r.cluster,
           placed |-> r.placed, edges |-> r.edges, fate |-> fate]
  BY <1>2, <1>4 DEF PlanRecord
<1>6. PlanOK(n, S, vec, queued)
  BY <1>5 DEF PlanOK, PlanRecord, Backed
<1> QED BY <1>1, <1>3, <1>4, <1>6 DEF PlanGoesOn, PlanSteps

\* Every step of a plan.
LEMMA PlanStepOK ==
  ASSUME StoreOK, NEW p, PlanStep(p), g \in saw[p], PlanOK(plan[p], saw[p], vec, queued)
  PROVE  PlanGoesOn(p)
<1>1. CASE Place(p) \/ Conclude(p)
  BY <1>1, PlacingSteps, LaterOK DEF PlanGoesOn, PlanOK
<1> QED BY <1>1, StartOK, ReadPendingOK, ReadStoredOK, EmbedOK, EmbedFailsOK DEF PlanStep

-----------------------------------------------------------------------------
(* The order of a listing.                                                 *)

\* As many different members as a set has are all of it.
LEMMA InjectionFills ==
  ASSUME NEW A, IsFiniteSet(A), NEW f \in [1..Cardinality(A) -> A],
         \A i, j \in 1..Cardinality(A) : i # j => f[i] # f[j]
  PROVE  \A a \in A : \E i \in 1..Cardinality(A) : f[i] = a
<1>1. PICK n \in Nat : n = Cardinality(A)
  BY FS_CardinalityType
<1>2. IsFiniteSet(1..n) /\ Cardinality(1..n) = n
  BY FS_Interval
<1>3. f \in Injection(1..n, A)
  BY <1>1 DEF Injection, IsInjective
<1>4. f \in Surjection(1..n, A)
  BY <1>1, <1>2, <1>3, FS_Injection
<1> QED BY <1>1, <1>4 DEF Surjection

\* All that is listed.
AllListed(h, req) == {x \in DOMAIN h.th : Listed(h, x, req)}

LEMMA ListingIs ==
  ASSUME NEW h, Tables(h), NEW req, NEW s \in Listings(h, req)
  PROVE  /\ IsFiniteSet(AllListed(h, req)) /\ s \in Seq(AllListed(h, req))
         /\ \A i, j \in DOMAIN s : i # j => s[i] # s[j]
         /\ \A x \in AllListed(h, req) : \E i \in DOMAIN s : s[i] = x
         /\ \A i, j \in DOMAIN s : i < j => ~Ahead(h, s[j], s[i], req)
<1> DEFINE L == AllListed(h, req)
<1>1. s \in SetToSeqs(L) /\ \A i, j \in DOMAIN s : i < j => ~Ahead(h, s[j], s[i], req)
  BY DEF Listings, AllListed
<1>2. IsFiniteSet(L)
  BY FS_Subset DEF Tables, AllListed
<1> HIDE DEF L
<1>3. PICK n \in Nat : n = Cardinality(L)
  BY <1>2, FS_CardinalityType
<1>4. s \in [1..n -> L] /\ \A i, j \in 1..n : i # j => s[i] # s[j]
  BY <1>1, <1>3 DEF SetToSeqs
<1>5. \A x \in L : \E i \in 1..n : s[i] = x
  BY <1>2, <1>3, <1>4, InjectionFills
<1>6. s \in Seq(L) /\ DOMAIN s = 1..n
  BY <1>4
<1> QED BY <1>1, <1>2, <1>4, <1>5, <1>6 DEF L

\* What stands still has its place in the listing by what is in front of it.
LEMMA PlaceOf ==
  ASSUME NEW h, Tables(h), NEW S, h \in S, NEW req, NEW x, Undisturbed(S, x, req),
         NEW s \in Listings(h, req), NEW n, n = Cardinality(Leading(h, x, req))
  PROVE  /\ n \in Nat /\ n + 1 \in DOMAIN s /\ s[n + 1] = x
         /\ \A i \in DOMAIN s : s[i] = x => i = n + 1
<1> DEFINE L == AllListed(h, req)
           F == Leading(h, x, req)
<1>1. /\ s \in Seq(L) /\ \A i, j \in DOMAIN s : i # j => s[i] # s[j]
      /\ \A y \in L : \E i \in DOMAIN s : s[i] = y
      /\ \A i, j \in DOMAIN s : i < j => ~Ahead(h, s[j], s[i], req)
  BY ListingIs
<1>2. DOMAIN s = 1..Len(s) /\ Len(s) \in Nat
  BY <1>1
<1>3. x \in L
  BY DEF Undisturbed, AllListed, Listed, Has
<1>4. PICK k \in DOMAIN s : s[k] = x
  BY <1>1, <1>3
<1>5. k \in Nat /\ k >= 1 /\ k <= Len(s)
  BY <1>2, <1>4
<1>6. \A i \in DOMAIN s : i < k => s[i] \in F
  <2>1. ASSUME NEW i \in DOMAIN s, i < k PROVE s[i] \in F
    <3>1. s[i] \in L /\ s[i] # x
      BY <1>1, <1>4, <1>5, <2>1
    <3>2. ~Ahead(h, x, s[i], req)
      BY <1>1, <1>4, <2>1
    <3> QED BY <3>1, <3>2 DEF Leading, InFront, AllListed
  <2> QED BY <2>1
<1>7. \A y \in F : \E i \in DOMAIN s : i < k /\ s[i] = y
  <2>1. ASSUME NEW y \in F PROVE \E i \in DOMAIN s : i < k /\ s[i] = y
    <3>1. y \in DOMAIN h.th /\ y # x /\ InFront(h, y, x, req)
      BY <2>1 DEF Leading
    <3>2. Steady(S, x, y, req)
      BY <3>1 DEF Undisturbed, Ever
    <3>3. Ahead(h, y, x, req)
      BY <3>1, <3>2 DEF Steady
    <3>4. PICK i \in DOMAIN s : s[i] = y
      BY <1>1, <3>1 DEF InFront, AllListed
    <3>5. ~(k < i)
      BY <1>1, <1>4, <3>3, <3>4
    <3>6. i # k
      BY <1>4, <3>1, <3>4
    <3> QED BY <1>2, <1>5, <3>4, <3>5, <3>6
  <2> QED BY <2>1
<1>8. IsFiniteSet(F)
  BY FS_Subset DEF Tables, Leading
<1> HIDE DEF F, L
<1> DEFINE f == [i \in 1..(k - 1) |-> s[i]]
<1>9. \A i \in 1..(k - 1) : i \in DOMAIN s /\ i < k
  BY <1>2, <1>5
<1>10. f \in Injection(1..(k - 1), F)
  BY <1>1, <1>6, <1>9 DEF Injection, IsInjective
<1>11. f \in Surjection(1..(k - 1), F)
  <2>1. ASSUME NEW y \in F PROVE \E i \in 1..(k - 1) : f[i] = y
    <3>1. PICK i \in DOMAIN s : i < k /\ s[i] = y
      BY <1>7
    <3>2. i \in 1..(k - 1)
      BY <1>2, <1>5, <3>1
    <3> QED BY <3>1, <3>2
  <2>2. f \in [1..(k - 1) -> F]
    BY <1>6, <1>9
  <2> QED BY <2>1, <2>2 DEF Surjection
<1>12. Cardinality(1..(k - 1)) = k - 1
  BY SMTT(30), <1>5, FS_Interval
<1>13. Cardinality(F) = k - 1
  BY <1>8, <1>10, <1>11, <1>12, FS_Injection
<1>14. n + 1 = k /\ n \in Nat
  BY <1>5, <1>13 DEF F
<1> QED BY <1>1, <1>4, <1>14

\* It is the same whenever one looks.
LEMMA LeadingStays ==
  ASSUME NEW S, NEW h \in S, NEW k \in S, NEW req, NEW x, Undisturbed(S, x, req)
  PROVE  x \in DOMAIN h.th /\ Leading(h, x, req) = Leading(k, x, req)
<1>1. x \in DOMAIN h.th
  BY DEF Undisturbed, Listed, Has
<1>2. \A y \in Leading(h, x, req) : y \in Leading(k, x, req)
  BY DEF Undisturbed, Ever, Steady, Leading, InFront, Listed, Has
<1>3. \A y \in Leading(k, x, req) : y \in Leading(h, x, req)
  BY DEF Undisturbed, Ever, Steady, Leading, InFront, Listed, Has
<1> QED BY <1>1, <1>2, <1>3

\* Who saw less saw it stand still as well.
LEMMA UndisturbedBefore ==
  ASSUME NEW S, NEW T, S \subseteq T, NEW req, NEW x, Undisturbed(T, x, req)
  PROVE  Undisturbed(S, x, req)
BY DEF Undisturbed, Ever, Steady

\* rows are those of s after the first `offset`, at most `limit` of them.
Sliced(A, s, offset, limit, rows) ==
  /\ rows \in Seq(A)
  /\ \A j \in DOMAIN rows : j + offset \in DOMAIN s /\ rows[j] = s[j + offset] /\ j <= limit
  /\ \A i \in DOMAIN s : (offset < i /\ i <= offset + limit) => i - offset \in DOMAIN rows

\* A page of a listing.
LEMMA SliceIs ==
  ASSUME NEW A, NEW s \in Seq(A), NEW offset \in Nat, NEW limit \in Nat,
         NEW rows, rows = Slice(s, offset, limit)
  PROVE  Sliced(A, s, offset, limit, rows)
<1>1. PICK l \in Nat : l = Len(s) /\ DOMAIN s = 1..l
  OBVIOUS
<1>2. PICK t : t = SubSeq(s, offset + 1, l)
  OBVIOUS
<1>3. /\ t \in Seq(A) /\ Len(t) = IF offset + 1 <= l THEN l - offset ELSE 0
      /\ \A j \in 1..Len(t) : t[j] = s[j + offset]
  BY SMTT(30), <1>1, <1>2
<1>4. PICK m : m = (IF Len(t) < limit THEN Len(t) ELSE limit)
  OBVIOUS
<1>5. m \in Nat /\ m <= Len(t) /\ m <= limit /\ (m = Len(t) \/ m = limit)
  <2>1. Len(t) \in Nat
    BY <1>3
  <2> QED BY <1>4, <2>1
<1>6. rows = SubSeq(t, 1, m)
  BY <1>1, <1>2, <1>4 DEF Slice, FirstOf
<1>7. rows \in Seq(A) /\ DOMAIN rows = 1..m /\ \A j \in 1..m : rows[j] = t[j]
  BY <1>3, <1>5, <1>6
<1>8. ASSUME NEW j \in DOMAIN rows
      PROVE  j + offset \in DOMAIN s /\ rows[j] = s[j + offset] /\ j <= limit
  BY <1>1, <1>3, <1>5, <1>7, <1>8
<1>9. ASSUME NEW i \in DOMAIN s, offset < i, i <= offset + limit
      PROVE  i - offset \in DOMAIN rows
  <2>1. i \in Nat /\ i <= l /\ Len(t) = l - offset
    BY <1>1, <1>3, <1>9
  <2>2. i - offset \in Nat /\ 1 <= i - offset /\ i - offset <= l - offset /\ i - offset <= limit
    BY <1>1, <1>9, <2>1
  <2> QED BY <1>1, <1>5, <1>7, <2>1, <2>2
<1> QED BY <1>7, <1>8, <1>9 DEF Sliced

-----------------------------------------------------------------------------
(* The pages.                                                              *)

\* The items b are the items a and those of the rows.
Grown(a, rows, b) ==
  /\ b \in Seq(ToSet(b))
  /\ \A i \in DOMAIN b : \/ \E j \in DOMAIN a : b[i].id = a[j].id
                         \/ \E j \in DOMAIN rows : b[i].id = rows[j]
  /\ \A x : (\A j \in DOMAIN rows : rows[j] # x) => /\ Once(a, x) => Once(b, x)
                                                    /\ Never(a, x) => Never(b, x)
  /\ \A x, j : (/\ Never(a, x) /\ j \in DOMAIN rows /\ rows[j] = x
                /\ \A i \in DOMAIN rows : rows[i] = x => i = j) => Once(b, x)

\* What a page adds to those before it.
LEMMA ItemsGrow ==
  ASSUME NEW A, NEW a \in Seq(A), NEW B, NEW rows \in Seq(B),
         NEW b, b = a \o [i \in DOMAIN rows |-> [id |-> rows[i], by |-> {}]]
  PROVE  Grown(a, rows, b)
<1>1. PICK m, n : m = Len(a) /\ n = Len(rows)
  OBVIOUS
<1>2. m \in Nat /\ n \in Nat /\ DOMAIN a = 1..m /\ DOMAIN rows = 1..n
  BY <1>1
<1> DEFINE c == [i \in 1..n |-> [id |-> rows[i], by |-> {}]]
           C == {c[i] : i \in 1..n}
<1>3. b = a \o c
  BY <1>2
<1>4. \A i \in 1..n : c[i].id = rows[i]
  OBVIOUS
<1>5. c \in Seq(C) /\ Len(c) = n
  <2>1. c \in [1..n -> C]
    OBVIOUS
  <2> HIDE DEF c, C
  <2> QED BY <1>2, <2>1
<1> HIDE DEF c, C
<1>6. /\ DOMAIN b = 1..(m + n)
      /\ \A i \in 1..m : b[i] = a[i]
      /\ \A i \in 1..n : b[m + i] = c[i]
      /\ \A i \in 1..(m + n) : i \in 1..m \/ (i - m \in 1..n /\ b[i] = c[i - m])
  <2> PICK D : D = A \cup C
    OBVIOUS
  <2>1. a \in Seq(D) /\ c \in Seq(D)
    BY <1>5
  <2>2. /\ Len(a \o c) = Len(a) + Len(c)
        /\ \A i \in 1..(Len(a) + Len(c)) :
             (a \o c)[i] = IF i <= Len(a) THEN a[i] ELSE c[i - Len(a)]
    BY ONLY <2>1, ConcatProperties
  <2>3. /\ Len(b) = m + n /\ b \in Seq(D)
        /\ \A i \in 1..(m + n) : b[i] = IF i <= m THEN a[i] ELSE c[i - m]
    <3>1. m = Len(a) /\ n = Len(c)
      BY ONLY <1>1, <1>5
    <3>2. a \o c \in Seq(D)
      BY ONLY <2>1, ConcatProperties
    <3> QED BY Zenon, <1>3, <2>2, <3>1, <3>2
  <2>4. DOMAIN b = 1..(m + n)
    BY ONLY <2>3
  <2>5. \A i \in 1..m : b[i] = a[i]
    BY ONLY <1>2, <2>3
  <2>6. ASSUME NEW i \in 1..n PROVE b[m + i] = c[i]
    <3>1. m + i \in 1..(m + n) /\ ~(m + i <= m) /\ (m + i) - m = i
      BY ONLY <1>2, i \in 1..n
    <3> QED BY ONLY <2>3, <3>1
  <2>7. ASSUME NEW i \in 1..(m + n) PROVE i \in 1..m \/ (i - m \in 1..n /\ b[i] = c[i - m])
    <3>1. i \in 1..m \/ (i - m \in 1..n /\ ~(i <= m))
      BY ONLY <1>2, i \in 1..(m + n)
    <3> QED BY ONLY <2>3, <3>1, i \in 1..(m + n)
  <2> QED BY ONLY <2>4, <2>5, <2>6, <2>7
<1>7. b \in Seq(ToSet(b))
  <2>1. PICK D : D = A \cup C
    OBVIOUS
  <2>2. a \in Seq(D) /\ c \in Seq(D)
    BY <1>5, <2>1
  <2>3. \A u, v \in Seq(D) : u \o v \in Seq(D)
    OBVIOUS
  <2>4. b \in Seq(D)
    BY <1>3, <2>2, <2>3
  <2> QED BY <2>4, SeqOfMembers
<1>8. /\ \A i \in 1..m : i \in 1..(m + n) /\ b[i].id = a[i].id
      /\ \A i \in 1..n : b[m + i].id = rows[i] /\ m + i \in 1..(m + n) /\ m + i \notin 1..m
      /\ \A i \in 1..(m + n) : i \in 1..m \/ (i - m \in 1..n /\ b[i].id = rows[i - m])
  <2>1. \A i \in 1..m : i \in 1..(m + n) /\ b[i].id = a[i].id
    BY <1>2, <1>6
  <2>2. \A i \in 1..n : b[m + i].id = rows[i] /\ m + i \in 1..(m + n) /\ m + i \notin 1..m
    BY <1>2, <1>4, <1>6
  <2>3. \A i \in 1..(m + n) : i \in 1..m \/ (i - m \in 1..n /\ b[i].id = rows[i - m])
    BY <1>4, <1>6
  <2> QED BY <2>1, <2>2, <2>3
<1>9. \A i \in DOMAIN b : \/ \E j \in DOMAIN a : b[i].id = a[j].id
                          \/ \E j \in DOMAIN rows : b[i].id = rows[j]
  <2>1. ASSUME NEW i \in 1..(m + n)
        PROVE  \/ \E j \in DOMAIN a : b[i].id = a[j].id
               \/ \E j \in DOMAIN rows : b[i].id = rows[j]
    <3>1. CASE i \in 1..m
      BY <1>2, <1>8, <3>1
    <3>2. CASE i - m \in 1..n /\ b[i].id = rows[i - m]
      BY <1>2, <3>2
    <3> QED BY <1>8, <3>1, <3>2
  <2> QED BY <1>6, <2>1
<1>10. ASSUME NEW x, \A j \in DOMAIN rows : rows[j] # x
       PROVE  (Once(a, x) => Once(b, x)) /\ (Never(a, x) => Never(b, x))
  <2>1. \A i \in DOMAIN b : b[i].id = x => i \in DOMAIN a /\ a[i].id = x
    BY <1>2, <1>6, <1>8, <1>10
  <2>2. \A i \in DOMAIN a : i \in DOMAIN b /\ b[i].id = a[i].id
    BY <1>2, <1>6, <1>8
  <2> QED BY ONLY <2>1, <2>2 DEF Once, Never
<1>11. ASSUME NEW x, NEW j, Never(a, x), j \in DOMAIN rows, rows[j] = x,
              \A i \in DOMAIN rows : rows[i] = x => i = j
       PROVE  Once(b, x)
  <2>1. m + j \in DOMAIN b /\ b[m + j].id = x
    BY <1>2, <1>6, <1>8, <1>11
  <2>2. ASSUME NEW i \in DOMAIN b, b[i].id = x PROVE i = m + j
    <3>1. i \notin 1..m
      BY <1>2, <1>8, <1>11, <2>2 DEF Never
    <3>2. i - m \in 1..n /\ rows[i - m] = x
      BY <1>6, <1>8, <2>2, <3>1
    <3>3. i - m = j
      BY <1>2, <1>11, <3>2
    <3> QED BY <1>2, <1>6, <1>11, <2>2, <3>3
  <2> QED BY <2>1, <2>2 DEF Once
<1> QED BY <1>7, <1>9, <1>10, <1>11 DEF Grown

\* The question whether there is another page.
LEMMA TurnIs ==
  ASSUME NEW r, SheetRecord(r), NEW total, NEW n, n = Turn(r, total)
  PROVE  /\ SheetRecord(n) /\ n.req = r.req /\ n.items = r.items /\ n.total = total
         /\ \/ /\ r.offset + r.req.limit < total /\ n.offset = r.offset + r.req.limit
               /\ n.pc = FirstStep[r.req.kind]
            \/ ~(r.offset + r.req.limit < total) /\ n.offset = r.offset /\ n.pc = "done"
<1>1. PICK next, pc : next = r.offset + r.req.limit /\ pc = FirstStep[r.req.kind]
  OBVIOUS
<1>2. CASE next < total
  <2>1. n = [r EXCEPT !.pc = pc, !.offset = next, !.total = total]
    BY <1>1, <1>2 DEF Turn
  <2>2. n = [pc |-> pc, req |-> r.req, due |-> r.due, outdated |-> r.outdated, blocked |-> r.blocked,
             items |-> r.items, primed |-> r.primed, lines |-> r.lines, offset |-> next,
             total |-> total, edges |-> r.edges,
             cut |-> r.cut]
    BY <2>1 DEF SheetRecord
  <2>3. SheetRecord(n) /\ n.req = r.req /\ n.items = r.items /\ n.total = total
        /\ n.offset = next /\ n.pc = pc
    BY <2>2 DEF SheetRecord
  <2> QED BY <1>1, <1>2, <2>3
<1>3. CASE ~(next < total)
  <2>1. n = [r EXCEPT !.pc = "done", !.total = total]
    BY <1>1, <1>3 DEF Turn
  <2>2. n = [pc |-> "done", req |-> r.req, due |-> r.due, outdated |-> r.outdated, blocked |-> r.blocked,
             items |-> r.items, primed |-> r.primed, lines |-> r.lines, offset |-> r.offset,
             total |-> total, edges |-> r.edges,
             cut |-> r.cut]
    BY <2>1 DEF SheetRecord
  <2>3. SheetRecord(n) /\ n.req = r.req /\ n.items = r.items /\ n.total = total
        /\ n.offset = r.offset /\ n.pc = "done"
    BY <2>2 DEF SheetRecord
  <2> QED BY <1>1, <1>3, <2>3
<1> QED BY <1>2, <1>3

\* What a step of process p that writes nothing has to show for its listing.
SheetGoesOn(p) ==
  \E n : /\ sheet' = [sheet EXCEPT ![p] = n] /\ UNCHANGED <<g, vec, queued, lost, saw>>
         /\ SheetOK(n, saw[p], g)

LEMMA PageOK ==
  ASSUME Tables(g), NEW p, Page(p), g \in saw[p], SheetOK(sheet[p], saw[p], g)
  PROVE  SheetGoesOn(p)
<1>1. PICK r, S, h, req : r = sheet[p] /\ S = saw[p] /\ h = g /\ req = r.req
  OBVIOUS
<1>2. SheetRecord(r) /\ Asked(req) /\ r.pc = "page" /\ Tables(h) /\ h \in S
  BY <1>1 DEF SheetOK, Page, Doing
<1>3. UNCHANGED <<g, vec, queued, lost, saw>>
  BY DEF Page, corpus
<1> DEFINE Rows(s) == Slice(s, r.offset, r.req.limit)
           More(s) == r.items \o [i \in DOMAIN Rows(s) |-> [id |-> Rows(s)[i], by |-> {}]]
           Read(s) == [r EXCEPT !.items = More(s)]
           Next1(s) == IF r.req.kind = "review" THEN Turn(Read(s), r.total)
                       ELSE [Read(s) EXCEPT !.pc = "count"]
<1>4. PICK s \in Listings(h, req) : sheet' = [sheet EXCEPT ![p] = Next1(s)]
  <2>1. \E s \in Listings(g, r.req) : Lay(p, Next1(s))
    BY <1>1, Zenon DEF Page
  <2> HIDE DEF Next1
  <2> QED BY <1>1, <2>1 DEF Lay
<1>5. PICK rows, items, read, n : /\ rows = Rows(s) /\ items = More(s) /\ read = Read(s)
                                  /\ n = Next1(s)
  OBVIOUS
<1>6. /\ items = r.items \o [i \in DOMAIN rows |-> [id |-> rows[i], by |-> {}]]
      /\ read = [r EXCEPT !.items = items]
      /\ n = IF req.kind = "review" THEN Turn(read, r.total) ELSE [read EXCEPT !.pc = "count"]
      /\ sheet' = [sheet EXCEPT ![p] = n]
      /\ rows = Slice(s, r.offset, req.limit)
  BY <1>1, <1>4, <1>5
<1> HIDE DEF Rows, More, Read, Next1
<1>7. read = [pc |-> r.pc, req |-> r.req, due |-> r.due, outdated |-> r.outdated,
              blocked |-> r.blocked, items |-> items, primed |-> r.primed, lines |-> r.lines,
              offset |-> r.offset, total |-> r.total, edges |-> r.edges,
              cut |-> r.cut]
  BY <1>2, <1>6 DEF SheetRecord
<1>8. SheetRecord(read) /\ read.req = req /\ read.items = items /\ read.offset = r.offset
  BY <1>1, <1>7 DEF SheetRecord
<1>9. /\ SheetRecord(n) /\ n.req = req /\ n.items = items /\ n.total = r.total
      /\ \/ req.kind # "review" /\ n.offset = r.offset /\ n.pc = "count"
         \/ req.kind = "review" /\ n.offset = r.offset + req.limit /\ n.pc = "count"
         \/ /\ req.kind = "review" /\ n.offset = r.offset /\ n.pc = "done"
            /\ ~(r.offset + req.limit < r.total)
  <2>1. CASE req.kind = "review"
    <3>1. n = Turn(read, r.total)
      BY <1>6, <2>1
    <3> QED BY <1>8, <2>1, <3>1, TurnIs DEF FirstStep
  <2>2. CASE req.kind # "review"
    <3>1. n = [read EXCEPT !.pc = "count"]
      BY <1>6, <2>2
    <3>2. n = [pc |-> "count", req |-> r.req, due |-> r.due, outdated |-> r.outdated,
               blocked |-> r.blocked, items |-> items, primed |-> r.primed, lines |-> r.lines,
               offset |-> r.offset, total |-> r.total, edges |-> r.edges,
               cut |-> r.cut]
      BY <1>7, <3>1
    <3>3. SheetRecord(n) /\ n.req = req /\ n.items = items /\ n.total = r.total
          /\ n.offset = r.offset /\ n.pc = "count"
      BY <1>1, <3>2 DEF SheetRecord
    <3> QED BY <2>2, <3>3
  <2> QED BY <2>1, <2>2
<1>10. ASSUME req.kind \in {"list", "review"} PROVE Paging(n, S, h)
  <2>1. Paging(r, S, h) /\ PageRecord(r)
    BY <1>1, <1>10 DEF SheetOK, Paging
  <2>2. PICK offset, limit, total \in Nat : offset = r.offset /\ limit = req.limit /\ total = r.total
    BY <1>1, <2>1 DEF PageRecord
  <2>3. r.items \in Seq(ToSet(r.items))
    BY <2>1 DEF PageRecord
  <2>4. s \in Seq(AllListed(h, req))
    BY <1>2, <1>4, ListingIs
  <2>5. /\ rows \in Seq(AllListed(h, req))
        /\ \A j \in DOMAIN rows : j + offset \in DOMAIN s /\ rows[j] = s[j + offset] /\ j <= limit
        /\ \A i \in DOMAIN s : (offset < i /\ i <= offset + limit) => i - offset \in DOMAIN rows
    <3>1. rows = Slice(s, offset, limit)
      BY <1>6, <2>2
    <3>2. Sliced(AllListed(h, req), s, offset, limit, rows)
      BY <2>2, <2>4, <3>1, SliceIs
    <3> QED BY <3>2 DEF Sliced
  <2>6. /\ items \in Seq(ToSet(items))
        /\ \A i \in DOMAIN items : \/ \E j \in DOMAIN r.items : items[i].id = r.items[j].id
                                   \/ \E j \in DOMAIN rows : items[i].id = rows[j]
        /\ \A x : (\A j \in DOMAIN rows : rows[j] # x) =>
                    (Once(r.items, x) => Once(items, x)) /\ (Never(r.items, x) => Never(items, x))
        /\ \A x, j : (/\ Never(r.items, x) /\ j \in DOMAIN rows /\ rows[j] = x
                      /\ \A i \in DOMAIN rows : rows[i] = x => i = j) => Once(items, x)
    <3>1. PICK a, A, B : /\ a = r.items /\ a \in Seq(A) /\ rows \in Seq(B)
                         /\ items = a \o [i \in DOMAIN rows |-> [id |-> rows[i], by |-> {}]]
      BY <1>6, <2>3, <2>5
    <3>2. Grown(a, rows, items)
      BY <3>1, ItemsGrow
    <3> QED BY <3>1, <3>2 DEF Grown
  <2>7. PageRecord(n)
    <3>1. n.offset \in Nat /\ n.total \in Nat /\ n.req.limit \in Nat /\ n.pc \in {"count", "page", "done"}
      BY <1>9, <2>2
    <3> QED BY <1>9, <2>6, <3>1 DEF PageRecord
  <2>8. \A i \in DOMAIN items : \E k \in S : Listed(k, items[i].id, req)
    <3>1. \A j \in DOMAIN rows : Listed(h, rows[j], req)
      <4>1. \A j \in DOMAIN rows : rows[j] \in AllListed(h, req)
        BY <2>5
      <4> QED BY <4>1 DEF AllListed
    <3>2. \A j \in DOMAIN r.items : \E k \in S : Listed(k, r.items[j].id, req)
      BY <1>1, <2>1 DEF Paging
    <3> QED BY <1>2, <2>6, <3>1, <3>2
  <2>9. Covered(r) = offset /\ Covered(n) = offset + limit
    BY <1>2, <1>9, <1>10, <2>2 DEF Covered
  <2>10. ASSUME NEW x \in DOMAIN h.th, Undisturbed(S, x, req)
         PROVE  Placed(n, x, Cardinality(Leading(h, x, req)))
    <3>1. PICK m : m = Cardinality(Leading(h, x, req))
      OBVIOUS
    <3>2. /\ m \in Nat /\ m + 1 \in DOMAIN s /\ s[m + 1] = x
          /\ \A i \in DOMAIN s : s[i] = x => i = m + 1
      BY <1>2, <1>4, <2>10, <3>1, PlaceOf
    <3>3. Placed(r, x, m)
      BY <1>1, <2>1, <2>10, <3>1 DEF Paging
    <3>4. DOMAIN rows \subseteq Nat /\ \A j \in DOMAIN rows : j >= 1
      BY <2>5
    <3>5. \A j \in DOMAIN rows : rows[j] = x => j + offset = m + 1
      BY <2>5, <3>2
    <3>6. CASE m < offset
      <4>1. \A j \in DOMAIN rows : rows[j] # x
        BY <2>2, <3>2, <3>4, <3>5, <3>6
      <4>2. Once(items, x)
        BY <2>6, <2>9, <3>3, <3>6, <4>1 DEF Placed
      <4>3. m < offset + limit
        BY <2>2, <3>2, <3>6
      <4> QED BY <1>9, <2>9, <3>1, <4>2, <4>3 DEF Placed
    <3>7. CASE ~(m < offset) /\ m < offset + limit
      <4>1. Never(r.items, x)
        BY <2>9, <3>3, <3>7 DEF Placed
      <4>2. PICK j : j = m + 1 - offset
        OBVIOUS
      <4>3. j \in DOMAIN rows /\ j + offset = m + 1
        BY <2>2, <2>5, <3>2, <3>7, <4>2
      <4>4. rows[j] = x /\ \A i \in DOMAIN rows : rows[i] = x => i = j
        BY <2>2, <2>5, <3>2, <3>4, <3>5, <4>3
      <4>5. Once(items, x)
        BY <2>6, <4>1, <4>3, <4>4
      <4> QED BY <1>9, <2>9, <3>1, <3>7, <4>5 DEF Placed
    <3>8. CASE ~(m < offset + limit)
      <4>1. ~(m < offset)
        BY <2>2, <3>2, <3>8
      <4>2. \A j \in DOMAIN rows : rows[j] # x
        BY <2>2, <2>5, <3>2, <3>4, <3>5, <3>8
      <4>3. Never(items, x)
        BY <2>6, <2>9, <3>3, <4>1, <4>2 DEF Placed
      <4>4. n.pc # "done"
        <5>1. ASSUME n.pc = "done" PROVE FALSE
          <6>1. req.kind = "review" /\ ~(offset + limit < total)
            BY <1>9, <2>2, <5>1
          <6>2. m < total
            BY <1>1, <1>2, <2>2, <3>3, <6>1 DEF Placed
          <6> QED BY <2>2, <3>2, <3>8, <6>1, <6>2
        <5> QED BY <5>1
      <4> QED BY <1>9, <2>9, <3>1, <3>8, <4>3, <4>4 DEF Placed
    <3> QED BY <3>6, <3>7, <3>8
  <2> QED BY <1>9, <2>7, <2>8, <2>10 DEF Paging
<1>11. SheetOK(n, S, h)
  BY <1>2, <1>9, <1>10 DEF SheetOK
<1> QED BY <1>1, <1>3, <1>6, <1>11 DEF SheetGoesOn

\* What is in front of something listed is less than all that is listed.
LEMMA LeadingIsLess ==
  ASSUME NEW h, Tables(h), NEW req, NEW x, Listed(h, x, req), NEW m,
         m = Cardinality(Leading(h, x, req)), NEW total, total = Cardinality(AllListed(h, req))
  PROVE  m \in Nat /\ total \in Nat /\ m < total
<1> DEFINE F == Leading(h, x, req)
           L == AllListed(h, req)
<1>1. IsFiniteSet(L) /\ x \in L /\ F \subseteq L \ {x}
  BY FS_Subset DEF Tables, AllListed, Leading, InFront, Listed, Has
<1> HIDE DEF F, L
<1>2. IsFiniteSet(L \ {x}) /\ Cardinality(L \ {x}) = Cardinality(L) - 1 /\ Cardinality(L) \in Nat
  BY <1>1, FS_RemoveElement, FS_CardinalityType
<1>3. IsFiniteSet(F) /\ Cardinality(F) \in Nat /\ Cardinality(F) <= Cardinality(L \ {x})
  BY <1>1, <1>2, FS_Subset, FS_CardinalityType
<1> QED BY <1>2, <1>3 DEF F, L

LEMMA CountOK ==
  ASSUME Tables(g), NEW p, Count(p), g \in saw[p], SheetOK(sheet[p], saw[p], g)
  PROVE  SheetGoesOn(p)
<1>1. PICK r, S, h, req : r = sheet[p] /\ S = saw[p] /\ h = g /\ req = r.req
  OBVIOUS
<1>2. SheetRecord(r) /\ Asked(req) /\ r.pc = "count" /\ Tables(h) /\ h \in S
  BY <1>1 DEF SheetOK, Count, Doing
<1>3. UNCHANGED <<g, vec, queued, lost, saw>>
  BY DEF Count, corpus
<1>4. PICK total : total = Cardinality(AllListed(h, req))
  OBVIOUS
<1>5. \/ /\ req.kind = "review"
         /\ sheet' = [sheet EXCEPT ![p] = [r EXCEPT !.pc = "page", !.total = total]]
      \/ /\ req.kind = "graph"
         /\ sheet' = [sheet EXCEPT ![p] = [r EXCEPT !.pc = "edges", !.total = total]]
      \/ req.kind # "review" /\ sheet' = [sheet EXCEPT ![p] = Turn(r, total)]
  BY <1>1, <1>4 DEF Count, Lay, AllListed
<1>6. ASSUME NEW pc \in {"page", "edges"}, NEW n, n = [r EXCEPT !.pc = pc, !.total = total]
      PROVE  /\ SheetRecord(n) /\ n.req = req /\ n.items = r.items /\ n.total = total
             /\ n.offset = r.offset /\ n.pc = pc
  <2>1. n = [pc |-> pc, req |-> r.req, due |-> r.due, outdated |-> r.outdated,
             blocked |-> r.blocked, items |-> r.items, primed |-> r.primed, lines |-> r.lines,
             offset |-> r.offset, total |-> total, edges |-> r.edges,
             cut |-> r.cut]
    BY <1>2, <1>6 DEF SheetRecord
  <2> QED BY <1>1, <2>1 DEF SheetRecord
<1>7. PICK n : /\ sheet' = [sheet EXCEPT ![p] = n]
               /\ SheetRecord(n) /\ n.req = req /\ n.items = r.items /\ n.total = total
               /\ \/ req.kind = "review" /\ n.offset = r.offset /\ n.pc = "page"
                  \/ req.kind = "graph" /\ n.pc = "edges"
                  \/ /\ req.kind # "review" /\ r.offset + req.limit < total
                     /\ n.offset = r.offset + req.limit /\ n.pc = FirstStep[req.kind]
                  \/ /\ req.kind # "review" /\ ~(r.offset + req.limit < total)
                     /\ n.offset = r.offset /\ n.pc = "done"
  <2>1. CASE /\ req.kind = "review"
             /\ sheet' = [sheet EXCEPT ![p] = [r EXCEPT !.pc = "page", !.total = total]]
    <3>1. PICK n : n = [r EXCEPT !.pc = "page", !.total = total] /\ sheet' = [sheet EXCEPT ![p] = n]
      BY <2>1
    <3> QED BY <1>6, <2>1, <3>1
  <2>2. CASE /\ req.kind = "graph"
             /\ sheet' = [sheet EXCEPT ![p] = [r EXCEPT !.pc = "edges", !.total = total]]
    <3>1. PICK n : n = [r EXCEPT !.pc = "edges", !.total = total] /\ sheet' = [sheet EXCEPT ![p] = n]
      BY <2>2
    <3> QED BY ZenonT(30), <1>6, <2>2, <3>1
  <2>3. CASE req.kind # "review" /\ sheet' = [sheet EXCEPT ![p] = Turn(r, total)]
    <3>1. PICK n : n = Turn(r, total) /\ sheet' = [sheet EXCEPT ![p] = n]
      BY <2>3
    <3>2. /\ SheetRecord(n) /\ n.req = r.req /\ n.items = r.items /\ n.total = total
          /\ \/ /\ r.offset + r.req.limit < total /\ n.offset = r.offset + r.req.limit
                /\ n.pc = FirstStep[r.req.kind]
             \/ ~(r.offset + r.req.limit < total) /\ n.offset = r.offset /\ n.pc = "done"
      BY <1>2, <3>1, TurnIs
    <3> QED BY <1>1, <2>3, <3>1, <3>2
  <2> QED BY <1>5, <2>1, <2>2, <2>3
<1>8. ASSUME req.kind \in {"list", "review"} PROVE Paging(n, S, h)
  <2>1. Paging(r, S, h) /\ PageRecord(r)
    BY <1>1, <1>8 DEF SheetOK, Paging
  <2>2. PICK offset, limit \in Nat : offset = r.offset /\ limit = req.limit
    BY <1>1, <2>1 DEF PageRecord
  <2>3. total \in Nat
    <3>1. IsFiniteSet(AllListed(h, req))
      BY <1>2, FS_Subset DEF Tables, AllListed
    <3> QED BY <1>4, <3>1, FS_CardinalityType
  <2>4. \/ req.kind = "review" /\ n.offset = offset /\ n.pc = "page"
        \/ req.kind = "list" /\ n.offset = offset + limit /\ n.pc = "page"
        \/ /\ req.kind = "list" /\ n.offset = offset /\ n.pc = "done"
           /\ ~(offset + limit < total)
    BY <1>7, <1>8, <2>2 DEF FirstStep
  <2>5. PageRecord(n)
    <3>1. n.offset \in Nat /\ n.total \in Nat /\ n.req.limit \in Nat /\ n.pc \in {"count", "page", "done"}
      BY <1>7, <2>2, <2>3, <2>4
    <3> QED BY <1>7, <2>1, <3>1 DEF PageRecord
  <2>6. Covered(n) = Covered(r)
    BY <1>1, <1>2, <1>7, <2>2, <2>4 DEF Covered
  <2>7. \A i \in DOMAIN n.items : \E k \in S : Listed(k, n.items[i].id, n.req)
    BY <1>1, <1>7, <2>1 DEF Paging
  <2>8. ASSUME NEW x \in DOMAIN h.th, Undisturbed(S, x, req)
        PROVE  Placed(n, x, Cardinality(Leading(h, x, req)))
    <3>1. PICK m : m = Cardinality(Leading(h, x, req))
      OBVIOUS
    <3>2. m \in Nat /\ m < total
      BY <1>2, <1>4, <2>8, <3>1, LeadingIsLess DEF Undisturbed
    <3>3. Placed(r, x, m)
      BY <1>1, <2>1, <2>8, <3>1 DEF Paging
    <3>4. (m < Covered(n) => Once(n.items, x)) /\ (~(m < Covered(n)) => Never(n.items, x))
      BY <1>7, <2>6, <3>3 DEF Placed
    <3>5. n.pc = "done" => m < Covered(n)
      <4>1. ASSUME n.pc = "done" PROVE m < offset + limit
        BY <2>2, <2>3, <2>4, <3>2, <4>1
      <4>2. n.pc = "done" => Covered(n) = offset + limit
        BY <1>7, <2>2, <2>4 DEF Covered
      <4> QED BY <4>1, <4>2
    <3> QED BY <1>7, <3>1, <3>2, <3>4, <3>5 DEF Placed
  <2> QED BY <1>7, <2>5, <2>7, <2>8 DEF Paging
<1>9. n.pc \in {"project", "write"} => req.kind = "reflect"
  BY <1>2, <1>7 DEF Asked, FirstStep
<1>10. SheetOK(n, S, h)
  BY <1>2, <1>7, <1>8, <1>9 DEF SheetOK
<1> QED BY <1>1, <1>3, <1>7, <1>10 DEF SheetGoesOn

-----------------------------------------------------------------------------
(* The other calls.                                                        *)

\* A step of a call that lists nothing goes on to nothing of that kind.
LEMMA OtherOK ==
  ASSUME NEW r, NEW S, NEW h, SheetOK(r, S, h), r.pc \notin {"count", "page", "done"},
         NEW n, SheetRecord(n), n.req = r.req,
         n.pc \in {"project", "write"} => r.pc = "project"
  PROVE  SheetOK(n, S, h)
BY DEF SheetOK, Paging, PageRecord

LEMMA ReadUpstreamOK ==
  ASSUME NEW p, ReadUpstream(p), SheetOK(sheet[p], saw[p], g)
  PROVE  SheetGoesOn(p)
<1> DEFINE r == sheet[p]
<1>1. /\ UNCHANGED <<g, vec, queued, lost, saw>> /\ r.pc = "upstream"
      /\ SheetRecord(r) /\ SheetOK(r, saw[p], g)
  BY DEF ReadUpstream, Doing, corpus, SheetOK
<1>2. PICK blocked : sheet' = [sheet EXCEPT ![p] = [r EXCEPT !.pc = "rank", !.blocked = blocked]]
  BY Zenon DEF ReadUpstream, Lay
<1> HIDE DEF r
<1>3. PICK n : n = [r EXCEPT !.pc = "rank", !.blocked = blocked] /\ sheet' = [sheet EXCEPT ![p] = n]
  BY <1>2
<1>4. n = [pc |-> "rank", req |-> r.req, due |-> r.due, outdated |-> r.outdated,
           blocked |-> blocked, items |-> r.items, primed |-> r.primed, lines |-> r.lines,
           offset |-> r.offset, total |-> r.total, edges |-> r.edges,
           cut |-> r.cut]
  BY <1>1, <1>3 DEF SheetRecord
<1>5. SheetRecord(n) /\ n.req = r.req /\ n.pc = "rank"
  BY <1>4 DEF SheetRecord
<1>6. SheetOK(n, saw[p], g)
  BY <1>1, <1>2, <1>5, OtherOK
<1> QED BY <1>1, <1>3, <1>6 DEF SheetGoesOn

LEMMA RankOK ==
  ASSUME NEW p, Rank(p), SheetOK(sheet[p], saw[p], g)
  PROVE  SheetGoesOn(p)
<1> DEFINE r == sheet[p]
<1>1. /\ UNCHANGED <<g, vec, queued, lost, saw>> /\ r.pc = "rank"
      /\ SheetRecord(r) /\ SheetOK(r, saw[p], g)
  BY DEF Rank, Doing, corpus, SheetOK
<1>2. PICK items : sheet' = [sheet EXCEPT ![p] = [r EXCEPT !.pc = "done", !.items = items]]
  BY Zenon DEF Rank, Lay
<1> HIDE DEF r
<1>3. PICK n : n = [r EXCEPT !.pc = "done", !.items = items] /\ sheet' = [sheet EXCEPT ![p] = n]
  BY <1>2
<1>4. n = [pc |-> "done", req |-> r.req, due |-> r.due, outdated |-> r.outdated,
           blocked |-> r.blocked, items |-> items, primed |-> r.primed, lines |-> r.lines,
           offset |-> r.offset, total |-> r.total, edges |-> r.edges,
           cut |-> r.cut]
  BY <1>1, <1>3 DEF SheetRecord
<1>5. SheetRecord(n) /\ n.req = r.req /\ n.pc = "done"
  BY <1>4 DEF SheetRecord
<1>6. SheetOK(n, saw[p], g)
  BY <1>1, <1>2, <1>5, OtherOK
<1> QED BY <1>1, <1>3, <1>6 DEF SheetGoesOn

LEMMA ReadPrimersOK ==
  ASSUME NEW p, ReadPrimers(p), SheetOK(sheet[p], saw[p], g)
  PROVE  SheetGoesOn(p)
<1> DEFINE r == sheet[p]
<1>1. /\ UNCHANGED <<g, vec, queued, lost, saw>> /\ r.pc = "primers"
      /\ SheetRecord(r) /\ SheetOK(r, saw[p], g)
  BY DEF ReadPrimers, Doing, corpus, SheetOK
<1>2. PICK primed : sheet' = [sheet EXCEPT ![p] = [r EXCEPT !.pc = "own", !.primed = primed]]
  BY Zenon DEF ReadPrimers, Lay
<1> HIDE DEF r
<1>3. PICK n : n = [r EXCEPT !.pc = "own", !.primed = primed] /\ sheet' = [sheet EXCEPT ![p] = n]
  BY <1>2
<1>4. n = [pc |-> "own", req |-> r.req, due |-> r.due, outdated |-> r.outdated,
           blocked |-> r.blocked, items |-> r.items, primed |-> primed, lines |-> r.lines,
           offset |-> r.offset, total |-> r.total, edges |-> r.edges,
           cut |-> r.cut]
  BY <1>1, <1>3 DEF SheetRecord
<1>5. SheetRecord(n) /\ n.req = r.req /\ n.pc = "own"
  BY <1>4 DEF SheetRecord
<1>6. SheetOK(n, saw[p], g)
  BY <1>1, <1>2, <1>5, OtherOK
<1> QED BY <1>1, <1>3, <1>6 DEF SheetGoesOn

LEMMA ReadGlobalOK ==
  ASSUME NEW p, ReadGlobal(p), SheetOK(sheet[p], saw[p], g)
  PROVE  SheetGoesOn(p)
<1> DEFINE r == sheet[p]
<1>1. /\ UNCHANGED <<g, vec, queued, lost, saw>> /\ r.pc = "global"
      /\ SheetRecord(r) /\ SheetOK(r, saw[p], g)
  BY DEF ReadGlobal, Doing, corpus, SheetOK
<1>2. PICK lines : sheet' = [sheet EXCEPT ![p] = [r EXCEPT !.pc = "done", !.lines = lines]]
  BY Zenon DEF ReadGlobal, Lay
<1> HIDE DEF r
<1>3. PICK n : n = [r EXCEPT !.pc = "done", !.lines = lines] /\ sheet' = [sheet EXCEPT ![p] = n]
  BY <1>2
<1>4. n = [pc |-> "done", req |-> r.req, due |-> r.due, outdated |-> r.outdated,
           blocked |-> r.blocked, items |-> r.items, primed |-> r.primed, lines |-> lines,
           offset |-> r.offset, total |-> r.total, edges |-> r.edges,
           cut |-> r.cut]
  BY <1>1, <1>3 DEF SheetRecord
<1>5. SheetRecord(n) /\ n.req = r.req /\ n.pc = "done"
  BY <1>4 DEF SheetRecord
<1>6. SheetOK(n, saw[p], g)
  BY <1>1, <1>2, <1>5, OtherOK
<1> QED BY <1>1, <1>3, <1>6 DEF SheetGoesOn

LEMMA ReadEdgesOK ==
  ASSUME NEW p, ReadEdges(p), SheetOK(sheet[p], saw[p], g)
  PROVE  SheetGoesOn(p)
<1> DEFINE r == sheet[p]
<1>1. /\ UNCHANGED <<g, vec, queued, lost, saw>> /\ r.pc = "edges"
      /\ SheetRecord(r) /\ SheetOK(r, saw[p], g)
  BY DEF ReadEdges, Doing, corpus, SheetOK
<1>2. PICK edges : sheet' = [sheet EXCEPT ![p] = [r EXCEPT !.pc = "done", !.edges = edges]]
  BY Zenon DEF ReadEdges, Lay
<1> HIDE DEF r
<1>3. PICK n : n = [r EXCEPT !.pc = "done", !.edges = edges] /\ sheet' = [sheet EXCEPT ![p] = n]
  BY <1>2
<1>4. n = [pc |-> "done", req |-> r.req, due |-> r.due, outdated |-> r.outdated,
           blocked |-> r.blocked, items |-> r.items, primed |-> r.primed,
           lines |-> r.lines, offset |-> r.offset, total |-> r.total, edges |-> edges,
           cut |-> r.cut]
  BY <1>1, <1>3 DEF SheetRecord
<1>5. SheetRecord(n) /\ n.req = r.req /\ n.pc = "done"
  BY <1>4 DEF SheetRecord
<1>6. SheetOK(n, saw[p], g)
  BY <1>1, <1>2, <1>5, OtherOK
<1> QED BY <1>1, <1>3, <1>6 DEF SheetGoesOn

LEMMA ReadOwnOK ==
  ASSUME NEW p, ReadOwn(p), SheetOK(sheet[p], saw[p], g)
  PROVE  SheetGoesOn(p)
<1> DEFINE r == sheet[p]
<1>1. /\ UNCHANGED <<g, vec, queued, lost, saw>> /\ r.pc = "own"
      /\ SheetRecord(r) /\ SheetOK(r, saw[p], g)
  BY DEF ReadOwn, Doing, corpus, SheetOK
<1> DEFINE To(pc, lines) == sheet' = [sheet EXCEPT ![p] = [r EXCEPT !.pc = pc, !.lines = lines]]
<1>2. PICK pc, lines : pc \in {"done", "global"} /\ To(pc, lines)
  <2> DEFINE next == IF r.req.proj \in DOMAIN goals THEN "done" ELSE "global"
  <2>1. To(next, SlotOf(goals, r.req.proj, <<>>))
    BY DEF ReadOwn, Lay
  <2>2. next \in {"done", "global"}
    OBVIOUS
  <2> HIDE DEF next, r, To
  <2> QED BY <2>1, <2>2
<1> HIDE DEF r
<1>3. PICK n : n = [r EXCEPT !.pc = pc, !.lines = lines] /\ sheet' = [sheet EXCEPT ![p] = n]
  BY <1>2
<1>4. n = [pc |-> pc, req |-> r.req, due |-> r.due, outdated |-> r.outdated,
           blocked |-> r.blocked, items |-> r.items, primed |-> r.primed, lines |-> lines,
           offset |-> r.offset, total |-> r.total, edges |-> r.edges,
           cut |-> r.cut]
  BY <1>1, <1>3 DEF SheetRecord
<1>5. SheetRecord(n) /\ n.req = r.req /\ n.pc = pc
  BY <1>4 DEF SheetRecord
<1>6. SheetOK(n, saw[p], g)
  BY <1>1, <1>2, <1>5, OtherOK
<1> QED BY <1>1, <1>3, <1>6 DEF SheetGoesOn

LEMMA FindProjectOK ==
  ASSUME NEW p, FindProject(p), SheetOK(sheet[p], saw[p], g)
  PROVE  SheetGoesOn(p)
<1> DEFINE r == sheet[p]
<1>1. /\ UNCHANGED <<g, vec, queued, lost, saw>> /\ r.pc = "project"
      /\ SheetRecord(r) /\ SheetOK(r, saw[p], g)
  BY DEF FindProject, Doing, corpus, SheetOK
<1>2. PICK pc : /\ pc \in {"write", "failed"}
                /\ sheet' = [sheet EXCEPT ![p] = [r EXCEPT !.pc = pc]]
  BY Zenon DEF FindProject, Lay
<1> HIDE DEF r
<1>3. PICK n : n = [r EXCEPT !.pc = pc] /\ sheet' = [sheet EXCEPT ![p] = n]
  BY <1>2
<1>4. n = [pc |-> pc, req |-> r.req, due |-> r.due, outdated |-> r.outdated,
           blocked |-> r.blocked, items |-> r.items, primed |-> r.primed,
           lines |-> r.lines, offset |-> r.offset, total |-> r.total, edges |-> r.edges,
           cut |-> r.cut]
  BY <1>1, <1>3 DEF SheetRecord
<1>5. SheetRecord(n) /\ n.req = r.req /\ n.pc = pc
  BY <1>4 DEF SheetRecord
<1>6. SheetOK(n, saw[p], g)
  BY <1>1, <1>2, <1>5, OtherOK
<1> QED BY <1>1, <1>3, <1>6 DEF SheetGoesOn

LEMMA ReadOutdatedOK ==
  ASSUME NEW p, ReadOutdated(p), SheetOK(sheet[p], saw[p], g)
  PROVE  SheetGoesOn(p)
<1> DEFINE r == sheet[p]
<1>1. /\ UNCHANGED <<g, vec, queued, lost, saw>> /\ r.pc = "outdated"
      /\ SheetRecord(r) /\ SheetOK(r, saw[p], g)
  BY DEF ReadOutdated, Doing, corpus, SheetOK
<1> DEFINE To(pc, outdated, due) ==
             sheet' = [sheet EXCEPT ![p] = [r EXCEPT !.pc = pc, !.outdated = outdated, !.due = due]]
<1>2. PICK pc, outdated, due : pc \in {"due", "upstream"} /\ To(pc, outdated, due)
  <2> DEFINE next == IF r.req.kind = "slots" THEN "due" ELSE "upstream"
             left == [x \in DOMAIN r.due \ Outdated(g) |-> r.due[x]]
  <2>1. To(next, Outdated(g), left)
    BY DEF ReadOutdated, Lay
  <2>2. next \in {"due", "upstream"}
    OBVIOUS
  <2> HIDE DEF next, left, r, To
  <2> QED BY <2>1, <2>2
<1> HIDE DEF r
<1>3. PICK n : n = [r EXCEPT !.pc = pc, !.outdated = outdated, !.due = due] /\ sheet' = [sheet EXCEPT ![p] = n]
  BY <1>2
<1>4. n = [pc |-> pc, req |-> r.req, due |-> due, outdated |-> outdated,
           blocked |-> r.blocked, items |-> r.items, primed |-> r.primed,
           lines |-> r.lines, offset |-> r.offset, total |-> r.total, edges |-> r.edges,
           cut |-> r.cut]
  BY <1>1, <1>3 DEF SheetRecord
<1>5. SheetRecord(n) /\ n.req = r.req /\ n.pc = pc
  BY <1>4 DEF SheetRecord
<1>6. SheetOK(n, saw[p], g)
  BY <1>1, <1>2, <1>5, OtherOK
<1> QED BY <1>1, <1>3, <1>6 DEF SheetGoesOn

LEMMA ReadDueOK ==
  ASSUME NEW p, ReadDue(p), SheetOK(sheet[p], saw[p], g)
  PROVE  SheetGoesOn(p)
<1> DEFINE r == sheet[p]
           To1(cut, items) == [r EXCEPT !.pc = "primers", !.cut = cut, !.items = items]
           To2(due) == [r EXCEPT !.pc = "outdated", !.due = due]
           Turns(n) == sheet' = [sheet EXCEPT ![p] = n]
<1>1. /\ UNCHANGED <<g, vec, queued, lost, saw>> /\ r.pc = "due"
      /\ SheetRecord(r) /\ SheetOK(r, saw[p], g)
  BY DEF ReadDue, Doing, corpus, SheetOK
<1>2. (\E cut, items : Turns(To1(cut, items))) \/ (\E due : Turns(To2(due)))
  BY Zenon DEF ReadDue, Lay
<1> HIDE DEF r, Turns
<1>3. ASSUME NEW cut, NEW items, Turns(To1(cut, items)) PROVE SheetGoesOn(p)
  <2>1. PICK n : n = [r EXCEPT !.pc = "primers", !.cut = cut, !.items = items] /\ Turns(n)
    BY <1>3
  <2>2. n = [pc |-> "primers", req |-> r.req, due |-> r.due, outdated |-> r.outdated,
             blocked |-> r.blocked, items |-> items, primed |-> r.primed,
             lines |-> r.lines, offset |-> r.offset, total |-> r.total, edges |-> r.edges,
             cut |-> cut]
    BY <1>1, <2>1 DEF SheetRecord
  <2>3. SheetRecord(n) /\ n.req = r.req /\ n.pc = "primers"
    BY <2>2 DEF SheetRecord
  <2>4. SheetOK(n, saw[p], g)
    BY <1>1, <2>3, OtherOK
  <2> QED BY <1>1, <2>1, <2>4 DEF SheetGoesOn, Turns
<1>4. ASSUME NEW due, Turns(To2(due)) PROVE SheetGoesOn(p)
  <2>1. PICK n : n = [r EXCEPT !.pc = "outdated", !.due = due] /\ Turns(n)
    BY <1>4
  <2>2. n = [pc |-> "outdated", req |-> r.req, due |-> due, outdated |-> r.outdated,
             blocked |-> r.blocked, items |-> r.items, primed |-> r.primed,
             lines |-> r.lines, offset |-> r.offset, total |-> r.total, edges |-> r.edges,
             cut |-> r.cut]
    BY <1>1, <2>1 DEF SheetRecord
  <2>3. SheetRecord(n) /\ n.req = r.req /\ n.pc = "outdated"
    BY <2>2 DEF SheetRecord
  <2>4. SheetOK(n, saw[p], g)
    BY <1>1, <2>3, OtherOK
  <2> QED BY <1>1, <2>1, <2>4 DEF SheetGoesOn, Turns
<1> QED BY <1>2, <1>3, <1>4

\* Every step of a call but the reflection's transaction.
LEMMA AgendaStepOK ==
  ASSUME StoreOK, NEW p, AgendaStep(p), ~Reflect(p), g \in saw[p], SheetOK(sheet[p], saw[p], g)
  PROVE  SheetGoesOn(p)
<1>1. Tables(g)
  BY DEF StoreOK
<1> QED BY <1>1, ReadDueOK, ReadOutdatedOK, ReadUpstreamOK, RankOK, ReadPrimersOK, ReadOwnOK,
           ReadGlobalOK, CountOK, PageOK, ReadEdgesOK, FindProjectOK DEF AgendaStep

\* A call is none the worse for a write.
LEMMA SheetMoved ==
  ASSUME StoreMoves, NEW r, NEW S, NEW T, g \in S, S \subseteq T, g' \in T, SheetOK(r, S, g)
  PROVE  SheetOK(r, T, g')
<1>1. ASSUME Paging(r, S, g) PROVE Paging(r, T, g')
  <2>1. \A i \in DOMAIN r.items : \E k \in T : Listed(k, r.items[i].id, r.req)
    BY <1>1 DEF Paging
  <2>2. ASSUME NEW x \in DOMAIN g'.th, Undisturbed(T, x, r.req)
        PROVE  Placed(r, x, Cardinality(Leading(g', x, r.req)))
    <3>1. Undisturbed(S, x, r.req)
      BY <2>2, UndisturbedBefore
    <3>2. x \in DOMAIN g.th /\ Leading(g, x, r.req) = Leading(g', x, r.req)
      <4>1. PICK h, k : h = g /\ k = g'
        OBVIOUS
      <4>2. h \in T /\ k \in T
        BY <4>1
      <4>3. x \in DOMAIN h.th /\ Leading(h, x, r.req) = Leading(k, x, r.req)
        BY <2>2, <4>2, LeadingStays
      <4> QED BY <4>1, <4>3
    <3>3. Placed(r, x, Cardinality(Leading(g, x, r.req)))
      BY <1>1, <3>1, <3>2 DEF Paging
    <3> QED BY <3>2, <3>3
  <2> QED BY <1>1, <2>1, <2>2 DEF Paging
<1> QED BY <1>1 DEF SheetOK

\* The reflection's transaction.
LEMMA ReflectOK ==
  ASSUME StoreOK, NEW p, Reflect(p), g \in saw[p], SheetOK(sheet[p], saw[p], g)
  PROVE  /\ StoreMoves
         /\ \E n : sheet' = [sheet EXCEPT ![p] = n] /\ \A T, h : SheetOK(n, T, h)
<1> DEFINE r == sheet[p]
<1>1. SheetRecord(r) /\ Asked(r.req) /\ r.req.kind = "reflect"
  BY DEF SheetOK, Reflect, Doing
<1>2. StoreMoves
  BY <1>1, ReflectMoves DEF Asked
<1>3. PICK pc : /\ pc \in {"failed", "done"}
                /\ sheet' = [sheet EXCEPT ![p] = [r EXCEPT !.pc = pc]]
  <2>1. \/ sheet' = [sheet EXCEPT ![p] = [r EXCEPT !.pc = "failed"]]
        \/ sheet' = [sheet EXCEPT ![p] = [r EXCEPT !.pc = "done"]]
    BY Zenon DEF Reflect, Lay
  <2> HIDE DEF r
  <2> QED BY <2>1, Zenon
<1> HIDE DEF r
<1>4. PICK n : n = [r EXCEPT !.pc = pc] /\ sheet' = [sheet EXCEPT ![p] = n]
  BY <1>3
<1>5. n = [pc |-> pc, req |-> r.req, due |-> r.due, outdated |-> r.outdated,
           blocked |-> r.blocked, items |-> r.items, primed |-> r.primed,
           lines |-> r.lines, offset |-> r.offset, total |-> r.total, edges |-> r.edges,
           cut |-> r.cut]
  BY <1>1, <1>4 DEF SheetRecord
<1>6. SheetRecord(n) /\ n.req = r.req
  BY <1>5 DEF SheetRecord
<1>7. \A T, h : SheetOK(n, T, h)
  BY <1>1, <1>6 DEF SheetOK
<1> QED BY <1>2, <1>4, <1>7

-----------------------------------------------------------------------------
(* The invariant holds.                                                    *)

\* What a call of one process has to be.
CallsOK(p) ==
  /\ plan[p] = NoPlan \/ (g \in saw[p] /\ PlanOK(plan[p], saw[p], vec, queued))
  /\ sheet[p] = NoSheet \/ (g \in saw[p] /\ SheetOK(sheet[p], saw[p], g))

LEMMA RInvIs ==
  RInv <=> /\ StoreOK /\ plan = [p \in Processes |-> plan[p]] /\ sheet = [p \in Processes |-> sheet[p]]
           /\ \A p \in Processes : CallsOK(p)
BY DEF RInv, StoreOK, CallsOK

\* A sheet that has just been begun.
LEMMA NewSheetOK ==
  ASSUME NEW req, Asked(req), NEW h, Tables(h)
  PROVE  SheetOK(NewSheet(req), {h}, h)
<1> DEFINE r == NewSheet(req)
<1>1. /\ SheetRecord(r) /\ r.req = req /\ r.items = <<>> /\ r.offset = 0 /\ r.total = 0
      /\ r.pc = FirstStep[req.kind]
  BY DEF NewSheet, SheetRecord
<1> HIDE DEF r
<1>2. ASSUME req.kind \in {"list", "review"} PROVE Paging(r, {h}, h)
  <2>1. \/ req.kind = "list" /\ r.pc = "page"
        \/ req.kind = "review" /\ r.pc = "count"
    BY <1>1, <1>2 DEF FirstStep
  <2>2. PageRecord(r)
    <3>1. <<>> \in Seq(ToSet(<<>>)) /\ 0 \in Nat
      OBVIOUS
    <3>2. req.limit \in Nat
      BY <1>2 DEF Asked
    <3> QED BY <1>1, <2>1, <3>1, <3>2 DEF PageRecord
  <2>3. Covered(r) = 0
    BY <1>1, <2>1 DEF Covered
  <2>4. DOMAIN r.items = {}
    BY <1>1
  <2>5. ASSUME NEW x \in DOMAIN h.th PROVE Placed(r, x, Cardinality(Leading(h, x, req)))
    <3>1. PICK m : m = Cardinality(Leading(h, x, req))
      OBVIOUS
    <3>2. m \in Nat
      <4>1. IsFiniteSet(Leading(h, x, req))
        BY FS_Subset DEF Tables, Leading
      <4> QED BY <3>1, <4>1, FS_CardinalityType
    <3>3. ~(m < Covered(r))
      BY <2>3, <3>2
    <3>4. Never(r.items, x)
      BY <2>4 DEF Never
    <3> QED BY <1>1, <2>1, <3>1, <3>3, <3>4 DEF Placed
  <2> QED BY <1>1, <2>2, <2>4, <2>5 DEF Paging
<1>3. r.pc \in {"project", "write"} => req.kind = "reflect"
  BY <1>1 DEF FirstStep, Asked
<1> QED BY <1>1, <1>2, <1>3 DEF SheetOK, r

LEMMA InitRInv == Init => RInv
<1> SUFFICES ASSUME Init PROVE RInv
  OBVIOUS
<1>1. PICK s \in Scenarios :
        /\ g = s.g /\ vec = s.vec /\ queued = s.queued /\ lost = s.lost
        /\ saw = [p \in Processes |-> IF p \in DOMAIN s.asks \cup DOMAIN s.plans \cup DOMAIN s.sheets
                                      THEN {s.g} ELSE {}]
        /\ plan = [p \in Processes |-> IF p \in DOMAIN s.plans THEN NewPlan(s.plans[p]) ELSE NoPlan]
        /\ sheet = [p \in Processes |-> IF p \in DOMAIN s.sheets THEN NewSheet(s.sheets[p]) ELSE NoSheet]
  BY DEF Init
<1>2. StoreOK
  <2>1. Tables(g) /\ Accounted(g, vec, queued, lost)
    BY <1>1, ScenariosAssumption
  <2>2. saw = [p \in Processes |-> saw[p]]
    BY <1>1
  <2> QED BY <2>1, <2>2 DEF StoreOK
<1>3. plan = [p \in Processes |-> plan[p]] /\ sheet = [p \in Processes |-> sheet[p]]
  BY <1>1
<1>4. ASSUME NEW p \in Processes PROVE plan[p] = NoPlan \/ (g \in saw[p] /\ PlanOK(plan[p], saw[p], vec, queued))
  <2>1. CASE p \in DOMAIN s.plans
    <3>1. plan[p] = NewPlan(s.plans[p]) /\ g \in saw[p]
      BY <1>1, <2>1
    <3>2. \A c : PlanOK(NewPlan(c), saw[p], vec, queued)
      BY DEF NewPlan, PlanOK, PlanRecord
    <3> QED BY <3>1, <3>2
  <2>2. CASE p \notin DOMAIN s.plans
    BY <1>1, <2>2
  <2> QED BY <2>1, <2>2
<1>5. ASSUME NEW p \in Processes PROVE sheet[p] = NoSheet \/ (g \in saw[p] /\ SheetOK(sheet[p], saw[p], g))
  <2>1. CASE p \in DOMAIN s.sheets
    <3>1. PICK req : req = s.sheets[p]
      OBVIOUS
    <3>2. sheet[p] = NewSheet(req) /\ saw[p] = {g}
      BY <1>1, <2>1, <3>1
    <3>3. Asked(req)
      BY <2>1, <3>1, ScenariosAssumption DEF Asked
    <3>4. SheetOK(NewSheet(req), {g}, g)
      BY <1>2, <3>3, NewSheetOK DEF StoreOK
    <3> QED BY <3>2, <3>4
  <2>2. CASE p \notin DOMAIN s.sheets
    BY <1>1, <2>2
  <2> QED BY <2>1, <2>2
<1> QED BY <1>2, <1>3, <1>4, <1>5, RInvIs DEF CallsOK

\* After a write, the calls that did not step are still in order.
LEMMA CallsMoved ==
  ASSUME StoreMoves, NEW p \in Processes, CallsOK(p)
  PROVE  /\ plan[p] = NoPlan \/ (g' \in saw'[p] /\ PlanOK(plan[p], saw'[p], vec', queued'))
         /\ sheet[p] = NoSheet \/ (g' \in saw'[p] /\ SheetOK(sheet[p], saw'[p], g'))
<1>1. g \in saw[p] => saw[p] \subseteq saw'[p] /\ g' \in saw'[p]
  BY DEF StoreMoves
<1> QED BY <1>1, PlanMoved, SheetMoved DEF CallsOK

\* A write of somebody who is in no plan and on no sheet.
LEMMA WriteStep ==
  ASSUME RInv, StoreMoves, UNCHANGED <<plan, sheet>>
  PROVE  RInv'
<1>1. StoreOK'
  BY DEF StoreMoves, StoreOK
<1>2. \A p \in Processes : CallsOK(p)'
  BY CallsMoved, RInvIs DEF CallsOK
<1>3. (plan = [p \in Processes |-> plan[p]])' /\ (sheet = [p \in Processes |-> sheet[p]])'
  BY DEF RInv
<1> QED BY <1>1, <1>2, <1>3 DEF RInv, StoreOK, CallsOK

\* The statements of a search read the store, but for a promotion.
LEMMA SearchMoves ==
  ASSUME StoreOK, NEW p, SearchStep(p)
  PROVE  StoreMoves
<1>1. CASE Promote(p)
  BY <1>1, PromoteMoves
<1>2. CASE Hit(p)
  <2>1. UNCHANGED <<g, vec, queued, lost, saw>>
    BY <1>2 DEF Hit
  <2> QED BY <2>1, NothingMoves
<1>3. CASE ~Promote(p) /\ ~Hit(p)
  <2>1. UNCHANGED <<corpus, saw, writes>>
    <3>1. \/ Ask(p) \/ Embedded(p) \/ NoEmbedding(p) \/ VecLeg(p) \/ BmLeg(p) \/ LegFails(p)
          \/ Hydrate(p) \/ FilterTags(p) \/ ReadReplaces(p) \/ Stand(p)
          \/ Chain(p) \/ Group(p) \/ Hoist(p)
      BY <1>3 DEF SearchStep
    <3>2. CASE Ask(p) \/ Embedded(p) \/ NoEmbedding(p)
      BY <3>2, Zenon DEF Ask, Embedded, NoEmbedding
    <3>3. CASE VecLeg(p) \/ BmLeg(p) \/ LegFails(p)
      BY <3>3, Zenon DEF VecLeg, BmLeg, LegFails
    <3>4. CASE Hydrate(p) \/ FilterTags(p) \/ ReadReplaces(p) \/ Stand(p)
      BY <3>4, Zenon DEF Hydrate, FilterTags, ReadReplaces, Stand
    <3>5. CASE Chain(p) \/ Group(p) \/ Hoist(p)
      BY <3>5, Zenon DEF Chain, Group, Hoist
    <3> QED BY <3>1, <3>2, <3>3, <3>4, <3>5
  <2>2. UNCHANGED <<g, vec, queued, lost, saw>>
    BY <2>1 DEF corpus
  <2> QED BY <2>2, NothingMoves
<1> QED BY <1>1, <1>2, <1>3

\* A plan that steps was begun.
LEMMA PlanBegun ==
  ASSUME NEW p, PlanStep(p)
  PROVE  plan[p] # NoPlan
<1>1. plan[p].pc # "idle"
  BY Zenon DEF PlanStep, Start, ReadPending, ReadStored, Embed, EmbedFails, Place,
     PlaceByCluster, CheckRoom, PlaceByParent, Conclude, In
<1> QED BY <1>1 DEF NoPlan

LEMMA SheetBegun ==
  ASSUME NEW p, AgendaStep(p)
  PROVE  sheet[p] # NoSheet
<1>1. sheet[p].pc # "idle"
  BY Zenon DEF AgendaStep, ReadDue, ReadOutdated, ReadUpstream, Rank, ReadPrimers, ReadOwn,
     ReadGlobal, Count, Page, ReadEdges, FindProject, Reflect, Doing
<1> QED BY <1>1 DEF NoSheet

LEMMA PlanStepKeeps ==
  ASSUME RInv, NEW p \in Processes, PlanStep(p), UNCHANGED sheet
  PROVE  RInv'
<1>1. StoreOK /\ CallsOK(p)
  BY RInvIs
<1>2. g \in saw[p] /\ PlanOK(plan[p], saw[p], vec, queued)
  BY <1>1, PlanBegun DEF CallsOK
<1>3. PICK n : PlanSteps(p, plan[p], n) /\ PlanOK(n, saw[p], vec, queued)
  BY <1>1, <1>2, PlanStepOK DEF PlanGoesOn
<1>4. /\ plan' = [plan EXCEPT ![p] = n] /\ UNCHANGED <<g, vec, queued, lost, saw>>
      /\ plan = [q \in Processes |-> plan[q]]
  BY <1>3 DEF PlanSteps, RInv
<1>5. plan' = [q \in Processes |-> plan'[q]] /\ plan'[p] = n
      /\ \A q \in Processes \ {p} : plan'[q] = plan[q]
  BY <1>4
<1>6. \A q \in Processes : CallsOK(q)'
  BY <1>2, <1>3, <1>4, <1>5, RInvIs DEF CallsOK
<1>7. StoreOK' /\ (sheet = [q \in Processes |-> sheet[q]])'
  BY <1>1, <1>4 DEF StoreOK, RInv
<1> QED BY <1>5, <1>6, <1>7 DEF RInv, StoreOK, CallsOK

LEMMA AgendaStepKeeps ==
  ASSUME RInv, NEW p \in Processes, AgendaStep(p), UNCHANGED plan
  PROVE  RInv'
<1>1. StoreOK /\ CallsOK(p)
  BY RInvIs
<1>2. g \in saw[p] /\ SheetOK(sheet[p], saw[p], g)
  BY <1>1, SheetBegun DEF CallsOK
<1>3. PICK n : /\ sheet' = [sheet EXCEPT ![p] = n] /\ StoreMoves
               /\ SheetOK(n, saw'[p], g')
  <2>1. CASE Reflect(p)
    BY <1>1, <1>2, <2>1, ReflectOK
  <2>2. CASE ~Reflect(p)
    <3>1. PICK n : /\ sheet' = [sheet EXCEPT ![p] = n] /\ UNCHANGED <<g, vec, queued, lost, saw>>
                   /\ SheetOK(n, saw[p], g)
      BY <1>1, <1>2, <2>2, AgendaStepOK DEF SheetGoesOn
    <3>2. StoreMoves
      BY <1>1, <3>1, NothingMoves
    <3> QED BY <3>1, <3>2
  <2> QED BY <2>1, <2>2
<1>4. sheet' = [q \in Processes |-> sheet'[q]] /\ sheet'[p] = n
      /\ \A q \in Processes \ {p} : sheet'[q] = sheet[q]
  <2>1. sheet = [q \in Processes |-> sheet[q]]
    BY DEF RInv
  <2> QED BY <1>3, <2>1
<1>5. g' \in saw'[p]
  BY <1>2, <1>3 DEF StoreMoves
<1>6. ASSUME NEW q \in Processes PROVE CallsOK(q)'
  <2>1. /\ plan[q] = NoPlan \/ (g' \in saw'[q] /\ PlanOK(plan[q], saw'[q], vec', queued'))
        /\ sheet[q] = NoSheet \/ (g' \in saw'[q] /\ SheetOK(sheet[q], saw'[q], g'))
    BY <1>3, CallsMoved, RInvIs
  <2> QED BY <1>3, <1>4, <1>5, <2>1 DEF CallsOK
<1>7. StoreOK'
  BY <1>3 DEF StoreMoves, StoreOK
<1>8. (plan = [q \in Processes |-> plan[q]])'
  BY DEF RInv
<1> QED BY <1>4, <1>6, <1>7, <1>8 DEF RInv, StoreOK, CallsOK

LEMMA NextRInv == RInv /\ [Next]_vars => RInv'
<1> SUFFICES ASSUME RInv, [Next]_vars PROVE RInv'
  OBVIOUS
<1>1. StoreOK
  BY RInvIs
<1>2. ASSUME NEW p \in Processes, SearchStep(p), UNCHANGED <<plan, sheet>> PROVE RInv'
  BY <1>1, <1>2, SearchMoves, WriteStep
<1>3. ASSUME NEW p \in Processes, PlanStep(p), UNCHANGED sheet PROVE RInv'
  BY <1>3, PlanStepKeeps
<1>4. ASSUME NEW p \in Processes, AgendaStep(p), UNCHANGED plan PROVE RInv'
  BY <1>4, AgendaStepKeeps
<1>5. ASSUME Others, UNCHANGED <<plan, sheet>> PROVE RInv'
  BY <1>1, <1>5, OthersMove, WriteStep
<1>6. ASSUME UNCHANGED <<g, vec, queued, lost, saw, plan, sheet>> PROVE RInv'
  BY <1>1, <1>6, NothingMoves, WriteStep
<1> QED BY <1>2, <1>3, <1>4, <1>5, <1>6 DEF Next, vars

-----------------------------------------------------------------------------
(* What it comes to.                                                       *)

LEMMA RInvVectors == RInv => VectorsCurrent
<1> SUFFICES ASSUME RInv, NEW p \in Processes,
                    plan[p].pc \notin {"idle", "start", "pending", "stored", "embed"},
                    NEW x \in DOMAIN plan[p].vectors \ (plan[p].blind \cup {Draft})
             PROVE  plan[p].vectors[x] \in Contents(p, x)
  BY DEF VectorsCurrent
<1>1. PlanOK(plan[p], saw[p], vec, queued)
  BY DEF RInv, NoPlan
<1>2. Backed(saw[p], plan[p].vectors, plan[p].blind \cup {Draft})
  BY <1>1 DEF PlanOK
<1>3. Was(saw[p], x, plan[p].vectors[x])
  BY <1>2 DEF Backed
<1> QED BY <1>3 DEF Was, Contents

LEMMA RInvPages == RInv => PagesComplete
<1> SUFFICES ASSUME RInv, NEW p \in Processes,
                    sheet[p].pc = "done", sheet[p].req.kind \in {"list", "review"},
                    NEW x \in EverThere(p)
             PROVE  LET r == sheet[p]
                        ids == [i \in DOMAIN r.items |-> r.items[i].id]
                    IN  /\ x \in ToSet(ids) => \E h \in saw[p] : Listed(h, x, r.req)
                        /\ Undisturbed(saw[p], x, r.req) => Times(ids, x) = 1
  BY Zenon DEF PagesComplete, Undisturbed, Steady, InFront, EverThere, Ever
<1> DEFINE r == sheet[p]
           ids == [i \in DOMAIN r.items |-> r.items[i].id]
<1>1. g \in saw[p] /\ Paging(r, saw[p], g) /\ r.pc = "done"
  BY DEF RInv, NoSheet, SheetOK
<1> HIDE DEF r
<1>2. ASSUME x \in ToSet(ids) PROVE \E h \in saw[p] : Listed(h, x, r.req)
  BY <1>1, <1>2 DEF Paging, ToSet
<1>3. ASSUME Undisturbed(saw[p], x, r.req) PROVE Times(ids, x) = 1
  <2>1. x \in DOMAIN g.th
    BY <1>1, <1>3 DEF Undisturbed, Listed, Has
  <2>2. Once(r.items, x)
    BY <1>1, <1>3, <2>1 DEF Paging, Placed
  <2>3. PICK i \in DOMAIN ids : ids[i] = x /\ \A j \in DOMAIN ids : ids[j] = x => j = i
    BY <2>2 DEF Once
  <2>4. {j \in DOMAIN ids : ids[j] = x} = {i}
    BY <2>3
  <2>5. Cardinality({i}) = 1
    BY FS_Singleton
  <2> QED BY <2>4, <2>5 DEF Times
<1> QED BY <1>2, <1>3 DEF r

\* A placement plan uses no vector of a content its thought did not have since
\* the call began, those lost to a late edit before it aside, however many
\* processes edit, re-embed, link and delete between its reads
\* (candidate-embeddings.service.ts reads the queue before the vectors).
THEOREM VectorsAreCurrent == Spec => []VectorsCurrent
<1>1. Spec => []RInv
  BY InitRInv, NextRInv, PTL DEF Spec
<1> QED BY <1>1, RInvVectors, PTL

\* A caller who pages through a listing or through the review sees only what was
\* listed at some moment of it, and exactly once whatever was listed all the
\* while with the same thoughts in front of it and none level with it: a page of
\* listThoughts or of listRetentionReviewCandidates begins where the last
\* one ended by count, and the order of a listing leaves ties open.
THEOREM PagesAreComplete == Spec => []PagesComplete
<1>1. Spec => []RInv
  BY InitRInv, NextRInv, PTL DEF Spec
<1> QED BY <1>1, RInvPages, PTL

-----------------------------------------------------------------------------
(* Orders and their beginnings.                                            *)

\* An order of a finite set has each of its members once.
LEMMA OrderIs ==
  ASSUME NEW A, IsFiniteSet(A), NEW s \in SetToSeqs(A)
  PROVE  /\ s \in Seq(A)
         /\ \A i, j \in DOMAIN s : i # j => s[i] # s[j]
         /\ \A x \in A : \E i \in DOMAIN s : s[i] = x
<1>1. PICK n \in Nat : n = Cardinality(A)
  BY FS_CardinalityType
<1>2. s \in [1..n -> A] /\ \A i, j \in 1..n : i # j => s[i] # s[j]
  BY <1>1 DEF SetToSeqs
<1>3. \A x \in A : \E i \in 1..n : s[i] = x
  BY <1>1, <1>2, InjectionFills
<1>4. s \in Seq(A) /\ DOMAIN s = 1..n
  BY <1>2
<1> QED BY <1>2, <1>3, <1>4

\* The first k of a sequence, or all of it.
LEMMA FirstOfIs ==
  ASSUME NEW A, NEW s \in Seq(A), NEW k \in Nat, NEW f, f = FirstOf(s, k)
  PROVE  /\ f \in Seq(A) /\ Len(f) <= k /\ DOMAIN f \subseteq DOMAIN s
         /\ \A i \in DOMAIN f : f[i] = s[i]
         /\ Len(f) < k => DOMAIN f = DOMAIN s
<1> DEFINE m == IF Len(s) < k THEN Len(s) ELSE k
<1>1. /\ f = SubSeq(s, 1, m) /\ m \in Nat /\ m <= Len(s) /\ m <= k
      /\ m = Len(s) \/ m = k
  BY DEF FirstOf
<1> HIDE DEF m
<1>2. f \in Seq(A) /\ Len(f) = m /\ \A i \in 1..m : f[i] = s[i]
  BY <1>1
<1>3. DOMAIN f = 1..m /\ DOMAIN s = 1..Len(s)
  BY <1>2
<1>4. 1..m \subseteq 1..Len(s) /\ (m < k => m = Len(s))
  BY <1>1
<1>5. \A i \in DOMAIN f : f[i] = s[i]
  BY <1>2, <1>3
<1>6. Len(f) < k => DOMAIN f = DOMAIN s
  BY <1>2, <1>3, <1>4
<1> QED BY <1>1, <1>2, <1>3, <1>4, <1>5, <1>6

\* What is on a page of all of A was in A.
LEMMA PageHas ==
  ASSUME NEW A, IsFiniteSet(A), NEW s \in SetToSeqs(A), NEW offset \in Nat, NEW limit \in Nat
  PROVE  Slice(s, offset, limit) \in Seq(A)
<1>1. s \in Seq(A) /\ \A x \in A : \E i \in DOMAIN s : s[i] = x
  BY OrderIs
<1>2. Sliced(A, s, offset, limit, Slice(s, offset, limit))
  BY <1>1, SliceIs
<1> QED BY <1>2 DEF Sliced

\* A page that is not full leaves out no more than it skips.
LEMMA PageMisses ==
  ASSUME NEW A, IsFiniteSet(A), NEW s \in SetToSeqs(A), NEW offset \in Nat, NEW limit \in Nat,
         NEW page, page = Slice(s, offset, limit),
         NEW M, \A x \in M : x \in A /\ \A i \in DOMAIN page : page[i] # x
  PROVE  Len(page) < limit => IsFiniteSet(M) /\ Cardinality(M) <= offset
<1>1. s \in Seq(A) /\ \A x \in A : \E i \in DOMAIN s : s[i] = x
  BY OrderIs
<1>2. PICK rows : rows = page /\ Sliced(A, s, offset, limit, rows)
  BY <1>1, SliceIs
<1>3. rows \in Seq(A)
  BY <1>2 DEF Sliced
<1>4. ASSUME Len(rows) < limit PROVE IsFiniteSet(M) /\ Cardinality(M) <= offset
  <2>1. PICK l \in Nat, m \in Nat : /\ l = Len(s) /\ DOMAIN s = 1..l
                                    /\ m = Len(rows) /\ DOMAIN rows = 1..m /\ m < limit
    BY <1>1, <1>3, <1>4
  <2>2. ASSUME NEW i \in 1..l, offset < i
        PROVE  \E j \in DOMAIN rows : rows[j] = s[i]
    <3>1. CASE i <= offset + limit
      <4>1. i - offset \in DOMAIN rows
        BY <1>2, <2>1, <2>2, <3>1 DEF Sliced
      <4>2. rows[i - offset] = s[(i - offset) + offset] /\ (i - offset) + offset = i
        BY <1>2, <2>1, <4>1 DEF Sliced
      <4> QED BY <4>1, <4>2
    <3>2. CASE ~(i <= offset + limit)
      <4>1. offset + limit \in 1..l /\ offset < offset + limit
        BY <2>1, <3>2
      <4>2. (offset + limit) - offset \in DOMAIN rows
        BY <1>2, <2>1, <4>1 DEF Sliced
      <4> QED BY <2>1, <4>2
    <3> QED BY <3>1, <3>2
  <2>3. \A x \in M : \E i \in 1..offset : i \in DOMAIN s /\ s[i] = x
    <3>1. ASSUME NEW x \in M PROVE \E i \in 1..offset : i \in DOMAIN s /\ s[i] = x
      <4>1. PICK i \in 1..l : s[i] = x
        BY <1>1, <2>1
      <4>2. ~(offset < i)
        BY <1>2, <2>2, <4>1
      <4> QED BY <2>1, <4>1, <4>2
    <3> QED BY <3>1
  <2> DEFINE f == [x \in M |-> CHOOSE i \in 1..offset : i \in DOMAIN s /\ s[i] = x]
  <2>4. \A x \in M : f[x] \in 1..offset /\ s[f[x]] = x
    BY <2>3
  <2>5. f \in [M -> 1..offset]
    BY <2>3
  <2> HIDE DEF f
  <2>6. f \in Injection(M, 1..offset)
    BY <2>4, <2>5 DEF Injection, IsInjective
  <2>7. IsFiniteSet(1..offset) /\ Cardinality(1..offset) = offset
    BY FS_Interval
  <2> QED BY <2>6, <2>7, FS_Injection
<1> QED BY <1>2, <1>3, <1>4

-----------------------------------------------------------------------------
(* A frontier and the slots.                                               *)

\* What was found due was, and its row is of that moment; what stood all along
\* was found.
Found(r, S) ==
  /\ IsFiniteSet(DOMAIN r.due)
  /\ \A x \in DOMAIN r.due : /\ Columns(r.due[x])
                             /\ \E h \in S : Due(h, x, r.req) /\ r.due[x] = h.th[x]
  /\ \A x \in Ever(S) : (\A h \in S : Stands(h, x, r.req)) => x \in DOMAIN r.due

NotReplaced(r, S) == \A x \in DOMAIN r.due : \E h \in S : ~Replaced(h, x)

\* Of the candidates, those that block x did at some moment, and those that did
\* all along do.
Dependencies(r, S) ==
  /\ DOMAIN r.blocked = DOMAIN r.due
  /\ \A x \in DOMAIN r.due : \A y \in r.blocked[x] :
       y \in DOMAIN r.due /\ \E h \in S : Waits(h, x, y)
  /\ \A x, y \in DOMAIN r.due : (\A h \in S : Waits(h, x, y)) => y \in r.blocked[x]

\* AllDue, of a set that can be counted.
FewMissed(r, S) ==
  (~r.cut /\ Len(r.items) < r.req.limit) =>
    /\ IsFiniteSet(Missed(r, S)) /\ Skips(r.req) \in Nat
    /\ Cardinality(Missed(r, S)) <= Skips(r.req)

SheetSound(r, S) == OnlyDue(r, S) /\ FewMissed(r, S) /\ Blocking(r, S) /\ BlockedBehind(r, S)

FrontierOK(r, S) ==
  /\ r.pc \in {"due", "outdated", "upstream", "rank", "done"}
  /\ r.pc = "due" => r.outdated = {}
  /\ r.pc \in {"outdated", "upstream", "rank"} => Found(r, S)
  /\ r.pc \in {"upstream", "rank"} => NotReplaced(r, S)
  /\ r.pc = "rank" => Dependencies(r, S)
  /\ r.pc = "done" => SheetSound(r, S)

SlotsOK(r, S) ==
  /\ r.pc \in {"outdated", "due", "primers", "own", "global", "done"}
  /\ r.pc = "due" => \E h \in S : r.outdated = Outdated(h)
  /\ r.pc \in {"primers", "own", "global", "done"} => SheetSound(r, S)

AgendaOK(r, S) ==
  /\ r.req.kind = "frontier" => FrontierOK(r, S)
  /\ r.req.kind = "slots" => SlotsOK(r, S)

\* A write takes nothing away from what an agenda knows.
LEMMA AgendaMoved ==
  ASSUME NEW S, S # {}, NEW T, S \subseteq T, NEW r, AgendaOK(r, S)
  PROVE  AgendaOK(r, T)
<1>1. \A x \in Ever(T) : (\A h \in T : Stands(h, x, r.req)) => x \in Ever(S)
  BY DEF Ever, Stands, Due, Has
<1>2. Found(r, S) => Found(r, T)
  BY <1>1 DEF Found
<1>3. NotReplaced(r, S) => NotReplaced(r, T)
  BY DEF NotReplaced
<1>4. Dependencies(r, S) => Dependencies(r, T)
  BY DEF Dependencies
<1>5. OnlyDue(r, S) => OnlyDue(r, T)
  BY DEF OnlyDue
<1>6. ASSUME FewMissed(r, S) PROVE FewMissed(r, T)
  <2>1. Missed(r, T) \subseteq Missed(r, S)
    BY <1>1 DEF Missed
  <2>2. ASSUME IsFiniteSet(Missed(r, S))
        PROVE  /\ IsFiniteSet(Missed(r, T)) /\ Cardinality(Missed(r, S)) \in Nat
               /\ Cardinality(Missed(r, T)) \in Nat
               /\ Cardinality(Missed(r, T)) <= Cardinality(Missed(r, S))
    BY <2>1, <2>2, FS_Subset, FS_CardinalityType
  <2> QED BY <1>6, <2>2 DEF FewMissed
<1>7. Blocking(r, S) => Blocking(r, T)
  BY DEF Blocking
<1>8. BlockedBehind(r, S) => BlockedBehind(r, T)
  <2>1. ASSUME NEW x, Blocked(T, x, r.req) PROVE Blocked(S, x, r.req)
    <3>1. PICK y \in Ever(T) : \A h \in T : Stands(h, y, r.req) /\ Waits(h, x, y)
      BY <2>1 DEF Blocked
    <3>2. y \in Ever(S)
      BY <1>1, <3>1
    <3> QED BY <3>1, <3>2 DEF Blocked
  <2>2. \A x : Unblocked(T, x) => Unblocked(S, x)
    BY DEF Unblocked, Ever
  <2>3. \A x, y : NoBetter(T, x, y) => NoBetter(S, x, y)
    BY DEF NoBetter
  <2> QED BY <2>1, <2>2, <2>3 DEF BlockedBehind
<1>9. SheetSound(r, S) => SheetSound(r, T)
  BY <1>5, <1>6, <1>7, <1>8 DEF SheetSound
<1>10. FrontierOK(r, S) => FrontierOK(r, T)
  BY <1>2, <1>3, <1>4, <1>9 DEF FrontierOK
<1>11. SlotsOK(r, S) => SlotsOK(r, T)
  BY <1>9 DEF SlotsOK
<1> QED BY <1>10, <1>11 DEF AgendaOK

\* The same question, for what r has become.
LEMMA SoundAs ==
  ASSUME NEW S, NEW r, NEW n, n.req = r.req, n.items = r.items, n.cut = r.cut, SheetSound(r, S)
  PROVE  SheetSound(n, S)
<1>1. OnSheet(n) = OnSheet(r)
  BY DEF OnSheet
<1>2. Missed(n, S) = Missed(r, S)
  BY <1>1 DEF Missed
<1> QED BY <1>1, <1>2 DEF SheetSound, OnlyDue, FewMissed, Blocking, BlockedBehind

\* What a step of process p has to show for its agenda.
AgendaGoesOn(p) == \E n : sheet' = [sheet EXCEPT ![p] = n] /\ AgendaOK(n, saw[p])

\* What it is worth to be important, young and free.
LEMMA WorthMore ==
  ASSUME NEW a, NEW b, a.born \in Nat, b.born \in Nat, a.born <= b.born,
         NEW i \in Nat, NEW j \in Nat, i <= j, NEW by, by # {}, NEW now \in Nat
  PROVE  /\ Priority(a, i, by, now) \in Int /\ Priority(b, j, {}, now) \in Int
         /\ Priority(a, i, by, now) < Priority(b, j, {}, now)
<1>1. PICK m \in Nat \ {0} : m = MaxImp
  BY ConfigAssumption
<1>2. PICK c \in Nat, d \in Nat : c = 50 * i /\ d = 50 * j /\ c <= d
  OBVIOUS
<1>3. (c \div m) \in Int /\ (d \div m) \in Int /\ c \div m <= d \div m
  BY <1>2
<1>4. PICK x, y \in Int : x = c \div m /\ y = d \div m /\ x <= y
  BY <1>3
<1>5. PICK s, t \in Int : s = now - a.born /\ t = now - b.born /\ t <= s
  OBVIOUS
<1> DEFINE Bonus(age) == IF age <= Recent THEN 10 ELSE IF age <= Aging THEN 5 ELSE 0
<1>6. Bonus(s) \in Int /\ Bonus(t) \in Int /\ Bonus(s) <= Bonus(t)
  BY <1>5, ConfigAssumption
<1>7. Priority(a, i, by, now) = x + 0 + Bonus(s) /\ Priority(b, j, {}, now) = y + 15 + Bonus(t)
  BY <1>1, <1>2, <1>4, <1>5 DEF Priority
<1> HIDE DEF Bonus
<1> QED BY <1>4, <1>6, <1>7

\* What is due, and not known to be replaced.
LEMMA ReadDueSound ==
  ASSUME NEW p, ReadDue(p), g \in saw[p], Tables(g), SheetRecord(sheet[p]), Asked(sheet[p].req),
         AgendaOK(sheet[p], saw[p])
  PROVE  AgendaGoesOn(p)
<1> DEFINE r == sheet[p]
           S == saw[p]
           proj == IF r.req.kind = "slots" THEN "any" ELSE r.req.proj
           due == {x \in DOMAIN g.th : Actionable(g, x, proj)} \ r.outdated
           pending == {x \in due : "pending" \in g.th[x].tags}
           Turns(n) == sheet' = [sheet EXCEPT ![p] = n]
           Part(s) == Slice(s, r.req.offset, r.req.limit)
           Items(s, fit) == [i \in 1..fit |-> [id |-> s[i], by |-> {}]]
<1>1. SheetRecord(r) /\ AgendaOK(r, S) /\ g \in S /\ r.pc = "due" /\ Asked(r.req)
  BY DEF ReadDue, Doing
<1>2. IF r.req.kind = "slots"
      THEN \E s \in SetToSeqs(pending) : \E fit \in 0..Len(Part(s)) :
             Turns([r EXCEPT !.pc = "primers", !.cut = fit < Len(Part(s)),
                             !.items = Items(Part(s), fit)])
      ELSE Turns([r EXCEPT !.pc = "outdated", !.due = [x \in due |-> g.th[x]]])
  BY Zenon DEF ReadDue, Lay
<1>3. \A x \in due : x \in DOMAIN g.th
  OBVIOUS
<1>4. IsFiniteSet(due)
  BY <1>3, FS_Subset DEF Tables
<1>5. S = saw[p]
  OBVIOUS
<1>6. \A x \in DOMAIN g.th : x \in due <=> Actionable(g, x, proj) /\ x \notin r.outdated
  OBVIOUS
<1> HIDE DEF r, S, due, Turns
<1>7. CASE r.req.kind = "slots"
  <2>1. PICK s \in SetToSeqs(pending) : \E fit \in 0..Len(Part(s)) :
          Turns([r EXCEPT !.pc = "primers", !.cut = fit < Len(Part(s)),
                          !.items = Items(Part(s), fit)])
    BY <1>2, <1>7
  <2>2. PICK fit \in 0..Len(Part(s)) :
          Turns([r EXCEPT !.pc = "primers", !.cut = fit < Len(Part(s)),
                          !.items = Items(Part(s), fit)])
    BY <2>1
  <2>3. IsFiniteSet(pending)
    BY <1>4, FS_Subset
  <2>4. PICK offset \in Nat, limit \in Nat : offset = r.req.offset /\ limit = r.req.limit
    BY <1>1, <1>7 DEF Asked
  <2>5. PICK page, items, cut : /\ page = Slice(s, offset, limit)
                                /\ items = Items(page, fit) /\ cut = (fit < Len(page))
    OBVIOUS
  <2>6. page \in Seq(pending)
    <3> HIDE DEF pending, Items
    <3> QED BY <2>1, <2>3, <2>5, PageHas
  <2>7. fit \in 0..Len(page) /\ fit \in Nat /\ 1..fit \subseteq DOMAIN page
    <3>1. fit \in 0..Len(page) /\ Len(page) \in Nat /\ DOMAIN page = 1..Len(page)
      BY <2>2, <2>4, <2>5, <2>6
    <3> QED BY <3>1
  <2>8. DOMAIN items = 1..fit /\ \A i \in 1..fit : items[i].id = page[i] /\ items[i].by = {}
    BY <2>5
  <2>9. Len(items) = fit
    BY <2>5, <2>7
  <2>10. PICK n : n = [r EXCEPT !.pc = "primers", !.cut = cut, !.items = items] /\ Turns(n)
    BY <2>2, <2>4, <2>5
  <2>11. n = [pc |-> "primers", req |-> r.req, due |-> r.due, outdated |-> r.outdated,
             blocked |-> r.blocked, items |-> items, primed |-> r.primed,
             lines |-> r.lines, offset |-> r.offset, total |-> r.total, edges |-> r.edges,
             cut |-> cut]
    BY <1>1, <2>10 DEF SheetRecord
  <2>12. n.pc = "primers" /\ n.req = r.req /\ n.items = items /\ n.cut = cut
    BY <2>11
  <2>13. OnSheet(n) = {page[i] : i \in 1..fit}
    BY <2>8, <2>12 DEF OnSheet
  <2>14. PICK h \in S : r.outdated = Outdated(h)
    BY <1>1, <1>7 DEF AgendaOK, SlotsOK
  <2>15. \A k, x : x \in Outdated(k) <=> Replaced(k, x)
    BY DEF Outdated, Replaced
  <2>16. proj = "any"
    BY <1>7
  <2>17. \A x \in pending : Due(g, x, r.req) /\ ~Replaced(h, x)
    BY <1>3, <1>6, <1>7, <2>14, <2>15, <2>16 DEF Due, Has
  <2>18. \A x : (\A k \in S : Stands(k, x, r.req)) => x \in pending
    BY <1>1, <1>6, <1>7, <2>14, <2>15, <2>16 DEF Stands, Due, Has
  <2> HIDE DEF pending, Items
  <2>19. OnSheet(n) \subseteq pending
    BY <2>6, <2>7, <2>13
  <2>20. OnlyDue(n, S)
    BY <1>1, <2>12, <2>17, <2>19 DEF OnlyDue
  <2>21. FewMissed(n, S)
    <3> DEFINE M == Missed(n, S)
    <3>1. ASSUME ~cut, Len(items) < limit PROVE IsFiniteSet(M) /\ Cardinality(M) <= offset
      <4>1. Len(page) = fit /\ Len(items) = fit
        <5>1. ~(fit < Len(page))
          BY <2>5, <3>1, Zenon
        <5> QED BY <2>6, <2>7, <2>9, <5>1
      <4>2. \A x \in M : x \in pending /\ \A i \in DOMAIN page : page[i] # x
        BY <2>6, <2>12, <2>13, <2>18, <4>1 DEF Missed
      <4> HIDE DEF M
      <4> QED BY <2>1, <2>3, <2>4, <2>5, <3>1, <4>1, <4>2, PageMisses
    <3>2. Skips(n.req) = offset
      BY <1>7, <2>4, <2>12 DEF Skips
    <3> HIDE DEF M
    <3> QED BY <2>4, <2>12, <3>1, <3>2 DEF FewMissed, M
  <2>22. Blocking(n, S) /\ BlockedBehind(n, S)
    BY <1>7, <2>8, <2>12 DEF Blocking, BlockedBehind
  <2>23. AgendaOK(n, S)
    BY <1>7, <2>12, <2>20, <2>21, <2>22 DEF AgendaOK, SlotsOK, SheetSound
  <2> QED BY <1>5, <2>10, <2>23 DEF AgendaGoesOn, Turns
<1>8. CASE r.req.kind # "slots"
  <2>1. PICK rows : rows = [x \in due |-> g.th[x]]
    OBVIOUS
  <2>2. PICK n : n = [r EXCEPT !.pc = "outdated", !.due = rows] /\ Turns(n)
    BY <1>2, <1>8, <2>1
  <2>3. n = [pc |-> "outdated", req |-> r.req, due |-> rows, outdated |-> r.outdated,
             blocked |-> r.blocked, items |-> r.items, primed |-> r.primed,
             lines |-> r.lines, offset |-> r.offset, total |-> r.total, edges |-> r.edges,
             cut |-> r.cut]
    BY <1>1, <2>2 DEF SheetRecord
  <2>4. n.pc = "outdated" /\ n.req = r.req /\ n.due = rows
    BY <2>3
  <2>5. ASSUME r.req.kind = "frontier" PROVE Found(n, S)
    <3>1. r.outdated = {}
      BY <1>1, <2>5 DEF AgendaOK, FrontierOK
    <3>2. DOMAIN rows = due /\ \A x \in due : rows[x] = g.th[x]
      BY <2>1
    <3>3. \A x \in DOMAIN g.th : x \in due <=> Due(g, x, r.req)
      BY <1>6, <1>8, <3>1 DEF Due, Has
    <3>4. \A x \in due : Columns(g.th[x])
      BY <1>3 DEF Tables
    <3>5. \A x : (\A h \in S : Stands(h, x, r.req)) => x \in due
      BY <1>1, <3>3 DEF Stands, Due, Has
    <3> QED BY <1>1, <1>3, <1>4, <2>4, <3>2, <3>3, <3>4, <3>5 DEF Found
  <2>6. AgendaOK(n, S)
    BY <1>8, <2>4, <2>5 DEF AgendaOK, FrontierOK
  <2> QED BY <1>5, <2>2, <2>6 DEF AgendaGoesOn, Turns
<1> QED BY <1>7, <1>8

\* What is replaced.
LEMMA ReadOutdatedSound ==
  ASSUME NEW p, ReadOutdated(p), g \in saw[p], SheetRecord(sheet[p]), AgendaOK(sheet[p], saw[p])
  PROVE  AgendaGoesOn(p)
<1> DEFINE r == sheet[p]
           S == saw[p]
           left == DOMAIN r.due \ Outdated(g)
           rows == [x \in left |-> r.due[x]]
           next == IF r.req.kind = "slots" THEN "due" ELSE "upstream"
           Turns(n) == sheet' = [sheet EXCEPT ![p] = n]
<1>1. SheetRecord(r) /\ AgendaOK(r, S) /\ g \in S /\ r.pc = "outdated" /\ S = saw[p]
  BY DEF ReadOutdated, Doing
<1>2. Turns([r EXCEPT !.pc = next, !.outdated = Outdated(g), !.due = rows])
  BY DEF ReadOutdated, Lay
<1>3. DOMAIN rows = left /\ \A x \in left : rows[x] = r.due[x]
  OBVIOUS
<1> HIDE DEF r, S, rows, next, Turns
<1>4. PICK n : n = [r EXCEPT !.pc = next, !.outdated = Outdated(g), !.due = rows] /\ Turns(n)
  BY <1>2
<1>5. n = [pc |-> next, req |-> r.req, due |-> rows, outdated |-> Outdated(g),
           blocked |-> r.blocked, items |-> r.items, primed |-> r.primed,
           lines |-> r.lines, offset |-> r.offset, total |-> r.total, edges |-> r.edges,
           cut |-> r.cut]
  BY <1>1, <1>4 DEF SheetRecord
<1>6. n.pc = next /\ n.req = r.req /\ n.due = rows /\ n.outdated = Outdated(g)
  BY <1>5
<1>7. ASSUME r.req.kind = "slots" PROVE SlotsOK(n, S)
  BY <1>1, <1>6, <1>7 DEF SlotsOK, next
<1>8. ASSUME r.req.kind = "frontier" PROVE FrontierOK(n, S)
  <2>1. Found(r, S)
    BY <1>1, <1>8 DEF AgendaOK, FrontierOK
  <2>2. \A x \in Outdated(g) : Replaced(g, x)
    BY DEF Outdated, Replaced
  <2>3. \A x : Replaced(g, x) => x \in Outdated(g)
    BY DEF Outdated, Replaced
  <2>4. IsFiniteSet(left)
    BY <2>1, FS_Subset DEF Found
  <2>5. \A x \in Ever(S) : (\A h \in S : Stands(h, x, r.req)) => x \in left
    BY <1>1, <2>1, <2>2 DEF Found, Stands
  <2>6. Found(n, S)
    BY <1>3, <1>6, <2>1, <2>4, <2>5 DEF Found
  <2>7. NotReplaced(n, S)
    BY <1>1, <1>3, <1>6, <2>3 DEF NotReplaced
  <2>8. n.pc = "upstream"
    BY <1>6, <1>8 DEF next
  <2> QED BY <2>6, <2>7, <2>8 DEF FrontierOK
<1>9. AgendaOK(n, S)
  BY <1>6, <1>7, <1>8 DEF AgendaOK
<1> QED BY <1>1, <1>4, <1>9 DEF AgendaGoesOn, Turns

\* What blocks what is due.
LEMMA ReadUpstreamSound ==
  ASSUME NEW p, ReadUpstream(p), g \in saw[p], SheetRecord(sheet[p]), AgendaOK(sheet[p], saw[p])
  PROVE  AgendaGoesOn(p)
<1> DEFINE r == sheet[p]
           S == saw[p]
           blocked == [x \in DOMAIN r.due |-> Upstream(g, x, DOMAIN r.due)]
           Turns(n) == sheet' = [sheet EXCEPT ![p] = n]
<1>1. SheetRecord(r) /\ AgendaOK(r, S) /\ g \in S /\ r.pc = "upstream" /\ S = saw[p]
  BY DEF ReadUpstream, Doing
<1>2. Turns([r EXCEPT !.pc = "rank", !.blocked = blocked])
  BY Zenon DEF ReadUpstream, Lay
<1>3. DOMAIN blocked = DOMAIN r.due
      /\ \A x \in DOMAIN r.due : blocked[x] = Upstream(g, x, DOMAIN r.due)
  OBVIOUS
<1> HIDE DEF r, S, blocked, Turns
<1>4. PICK n : n = [r EXCEPT !.pc = "rank", !.blocked = blocked] /\ Turns(n)
  BY <1>2
<1>5. n = [pc |-> "rank", req |-> r.req, due |-> r.due, outdated |-> r.outdated,
           blocked |-> blocked, items |-> r.items, primed |-> r.primed,
           lines |-> r.lines, offset |-> r.offset, total |-> r.total, edges |-> r.edges,
           cut |-> r.cut]
  BY <1>1, <1>4 DEF SheetRecord
<1>6. n.pc = "rank" /\ n.req = r.req /\ n.due = r.due /\ n.blocked = blocked
  BY <1>5
<1>7. \A x, y : y \in Upstream(g, x, DOMAIN r.due) <=> y \in DOMAIN r.due /\ Waits(g, x, y)
  BY DEF Upstream, Waits
<1>8. ASSUME r.req.kind = "frontier" PROVE FrontierOK(n, S)
  <2>1. Found(r, S) /\ NotReplaced(r, S)
    BY <1>1, <1>8 DEF AgendaOK, FrontierOK
  <2>2. Found(n, S) /\ NotReplaced(n, S)
    BY <1>6, <2>1 DEF Found, NotReplaced
  <2>3. Dependencies(n, S)
    BY <1>1, <1>3, <1>6, <1>7 DEF Dependencies
  <2> QED BY <1>6, <2>2, <2>3 DEF FrontierOK
<1>9. r.req.kind # "slots"
  BY <1>1 DEF AgendaOK, SlotsOK
<1>10. AgendaOK(n, S)
  BY <1>6, <1>8, <1>9 DEF AgendaOK
<1> QED BY <1>1, <1>4, <1>10 DEF AgendaGoesOn, Turns

\* Every step of the slots after their items.
LEMMA LaterSound ==
  ASSUME NEW S, NEW r, AgendaOK(r, S), NEW n, n.req = r.req, n.items = r.items, n.cut = r.cut,
         r.pc \in {"primers", "own", "global"}, n.pc \in {"own", "global", "done"}
  PROVE  AgendaOK(n, S)
<1>1. r.req.kind = "slots" => SheetSound(n, S)
  BY SoundAs DEF AgendaOK, SlotsOK
<1>2. r.req.kind # "frontier"
  BY DEF AgendaOK, FrontierOK
<1> QED BY <1>1, <1>2 DEF AgendaOK, SlotsOK

LEMMA ReadSlotsSound ==
  ASSUME NEW p, ReadPrimers(p) \/ ReadOwn(p) \/ ReadGlobal(p), SheetRecord(sheet[p]),
         AgendaOK(sheet[p], saw[p])
  PROVE  AgendaGoesOn(p)
<1> DEFINE r == sheet[p]
           S == saw[p]
           Turns(n) == sheet' = [sheet EXCEPT ![p] = n]
           Goes(n) == /\ n.pc \in {"own", "global", "done"}
                      /\ n.req = r.req /\ n.items = r.items /\ n.cut = r.cut
<1>1. SheetRecord(r) /\ AgendaOK(r, S) /\ r.pc \in {"primers", "own", "global"} /\ S = saw[p]
  BY DEF ReadPrimers, ReadOwn, ReadGlobal, Doing
<1>2. \E n : Goes(n) /\ Turns(n)
  <2>1. CASE ReadPrimers(p)
    <3>1. PICK primed : Turns([r EXCEPT !.pc = "own", !.primed = primed])
      BY <2>1, Zenon DEF ReadPrimers, Lay
    <3> HIDE DEF r, Turns
    <3>2. PICK n : n = [r EXCEPT !.pc = "own", !.primed = primed] /\ Turns(n)
      BY <3>1
    <3>3. n = [pc |-> "own", req |-> r.req, due |-> r.due, outdated |-> r.outdated,
               blocked |-> r.blocked, items |-> r.items, primed |-> primed,
               lines |-> r.lines, offset |-> r.offset, total |-> r.total, edges |-> r.edges,
               cut |-> r.cut]
      BY <1>1, <3>2 DEF SheetRecord
    <3>4. Goes(n)
      BY <3>3
    <3> QED BY <3>2, <3>4
  <2>2. CASE ReadOwn(p)
    <3> DEFINE next == IF r.req.proj \in DOMAIN goals THEN "done" ELSE "global"
    <3>1. PICK lines : Turns([r EXCEPT !.pc = next, !.lines = lines])
      BY <2>2, Zenon DEF ReadOwn, Lay
    <3>2. next \in {"own", "global", "done"}
      OBVIOUS
    <3> HIDE DEF r, next, Turns
    <3>3. PICK n : n = [r EXCEPT !.pc = next, !.lines = lines] /\ Turns(n)
      BY <3>1
    <3>4. n = [pc |-> next, req |-> r.req, due |-> r.due, outdated |-> r.outdated,
               blocked |-> r.blocked, items |-> r.items, primed |-> r.primed,
               lines |-> lines, offset |-> r.offset, total |-> r.total, edges |-> r.edges,
               cut |-> r.cut]
      BY <1>1, <3>3 DEF SheetRecord
    <3>5. Goes(n)
      BY <3>2, <3>4
    <3> QED BY <3>3, <3>5
  <2>3. CASE ReadGlobal(p)
    <3>1. PICK lines : Turns([r EXCEPT !.pc = "done", !.lines = lines])
      BY <2>3, Zenon DEF ReadGlobal, Lay
    <3> HIDE DEF r, Turns
    <3>2. PICK n : n = [r EXCEPT !.pc = "done", !.lines = lines] /\ Turns(n)
      BY <3>1
    <3>3. n = [pc |-> "done", req |-> r.req, due |-> r.due, outdated |-> r.outdated,
               blocked |-> r.blocked, items |-> r.items, primed |-> r.primed,
               lines |-> lines, offset |-> r.offset, total |-> r.total, edges |-> r.edges,
               cut |-> r.cut]
      BY <1>1, <3>2 DEF SheetRecord
    <3>4. Goes(n)
      BY <3>3
    <3> QED BY <3>2, <3>4
  <2> QED BY <2>1, <2>2, <2>3
<1> HIDE DEF r, S, Turns
<1>3. PICK n : Goes(n) /\ Turns(n)
  BY <1>2
<1>4. AgendaOK(n, S)
  BY <1>1, <1>3, LaterSound
<1> QED BY <1>1, <1>3, <1>4 DEF AgendaGoesOn, Turns

\* The candidates in their order.
LEMMA RankSound ==
  ASSUME NEW p, Rank(p), g \in saw[p], Tables(g), SheetRecord(sheet[p]), Asked(sheet[p].req),
         AgendaOK(sheet[p], saw[p])
  PROVE  AgendaGoesOn(p)
<1> DEFINE r == sheet[p]
           S == saw[p]
           Worth(x) == Priority(r.due[x], IF Has(g, x) THEN g.th[x].imp ELSE MaxImp,
                                r.blocked[x], r.req.now)
           Before(x, y) == Worth(x) > Worth(y) \/ (Worth(x) = Worth(y) /\ Earlier(x, y))
           Items(s) == [i \in DOMAIN s |-> [id |-> s[i], by |-> r.blocked[s[i]]]]
           Turns(n) == sheet' = [sheet EXCEPT ![p] = n]
<1>1. SheetRecord(r) /\ AgendaOK(r, S) /\ g \in S /\ r.pc = "rank" /\ S = saw[p] /\ Asked(r.req)
  BY DEF Rank, Doing
<1>2. PICK order \in Sorted(DOMAIN r.due, Before) :
        Turns([r EXCEPT !.pc = "done", !.items = Items(FirstOf(order, r.req.limit))])
  BY Zenon DEF Rank, Lay
<1>3. order \in SetToSeqs(DOMAIN r.due) /\ \A i, j \in DOMAIN order : i < j => ~Before(order[j], order[i])
  BY <1>2 DEF Sorted
<1> HIDE DEF r, S, Turns
<1>4. PICK s, items, n : /\ s = FirstOf(order, r.req.limit) /\ items = Items(s)
                         /\ n = [r EXCEPT !.pc = "done", !.items = items] /\ Turns(n)
  BY <1>2
<1>5. n = [pc |-> "done", req |-> r.req, due |-> r.due, outdated |-> r.outdated,
           blocked |-> r.blocked, items |-> items, primed |-> r.primed,
           lines |-> r.lines, offset |-> r.offset, total |-> r.total, edges |-> r.edges,
           cut |-> r.cut]
  BY <1>1, <1>4 DEF SheetRecord
<1>6. n.pc = "done" /\ n.req = r.req /\ n.items = items
  BY <1>5
<1>7. /\ DOMAIN items = DOMAIN s
      /\ \A i \in DOMAIN s : items[i].id = s[i] /\ items[i].by = r.blocked[s[i]]
  BY <1>4
<1>8. r.req.kind # "slots"
  BY <1>1 DEF AgendaOK, SlotsOK
<1> HIDE DEF Items
<1>9. ASSUME r.req.kind = "frontier" PROVE SheetSound(n, S)
  <2> HIDE DEF Before
  <2>1. Found(r, S) /\ NotReplaced(r, S) /\ Dependencies(r, S)
    BY <1>1, <1>9 DEF AgendaOK, FrontierOK
  <2>2. r.req.limit \in Nat /\ r.req.now \in Nat
    BY <1>1, <1>9 DEF Asked
  <2>3. /\ order \in Seq(DOMAIN r.due)
        /\ \A x \in DOMAIN r.due : \E i \in DOMAIN order : order[i] = x
    <3>1. IsFiniteSet(DOMAIN r.due)
      BY <2>1 DEF Found
    <3> QED BY <1>3, <3>1, OrderIs
  <2>4. /\ s \in Seq(DOMAIN r.due) /\ DOMAIN s \subseteq DOMAIN order
        /\ \A i \in DOMAIN s : s[i] = order[i]
        /\ Len(s) < r.req.limit => DOMAIN s = DOMAIN order
    <3>1. PICK n1, D : n1 = r.req.limit /\ D = DOMAIN r.due
      OBVIOUS
    <3>2. s = FirstOf(order, n1) /\ n1 \in Nat /\ order \in Seq(D)
      BY <1>4, <2>2, <2>3, <3>1
    <3>3. /\ s \in Seq(D) /\ DOMAIN s \subseteq DOMAIN order
          /\ \A i \in DOMAIN s : s[i] = order[i]
          /\ Len(s) < n1 => DOMAIN s = DOMAIN order
      BY ONLY <3>2, FirstOfIs
    <3> QED BY <3>1, <3>3
  <2>5. /\ \A i \in DOMAIN s : s[i] \in DOMAIN r.due
        /\ DOMAIN s \subseteq Nat
    BY <2>4
  <2>6. OnlyDue(n, S)
    BY <1>6, <1>7, <2>1, <2>5 DEF OnlyDue, OnSheet, Found, NotReplaced
  <2>7. FewMissed(n, S)
    <3>1. ASSUME Len(items) < r.req.limit, NEW x \in DOMAIN r.due PROVE x \in OnSheet(n)
      <4>1. Len(s) = Len(items)
        <5>1. DOMAIN s = 1..Len(s) /\ Len(s) \in Nat
          BY <2>4
        <5> QED BY <1>7, <5>1
      <4>2. PICK i \in DOMAIN s : s[i] = x
        BY <2>3, <2>4, <3>1, <4>1
      <4> QED BY <1>6, <1>7, <4>2 DEF OnSheet
    <3>2. Skips(n.req) = 0
      BY <1>6, <1>8 DEF Skips
    <3>3. ASSUME Len(items) < r.req.limit PROVE Missed(n, S) = {}
      BY <1>6, <2>1, <3>1, <3>3 DEF Found, Missed
    <3>4. IsFiniteSet({}) /\ Cardinality({}) = 0
      BY FS_EmptySet
    <3>5. ASSUME Len(items) < r.req.limit
          PROVE  IsFiniteSet(Missed(n, S)) /\ Cardinality(Missed(n, S)) = 0
      BY <3>3, <3>4, <3>5
    <3>6. Skips(n.req) \in Nat /\ 0 <= Skips(n.req)
      BY <3>2
    <3> QED BY <1>6, <3>5, <3>6 DEF FewMissed
  <2>8. Blocking(n, S)
    BY <1>6, <1>7, <2>1, <2>5 DEF Blocking, Dependencies
  <2>9. ASSUME NEW i \in DOMAIN s, NEW j \in DOMAIN s, i < j, Blocked(S, s[i], r.req),
               Unblocked(S, s[j]), NoBetter(S, s[i], s[j])
        PROVE  FALSE
    <3>1. PICK x, y : x = s[i] /\ y = s[j]
      OBVIOUS
    <3>2. x \in DOMAIN r.due /\ y \in DOMAIN r.due
      BY <2>5, <3>1
    <3>3. ~Before(y, x)
      <4>1. ~Before(order[j], order[i])
        BY <1>3, <2>4, <2>9
      <4> QED BY <2>4, <3>1, <4>1
    <3>4. r.blocked[x] # {}
      <4>1. PICK z \in Ever(S) : \A h \in S : Stands(h, z, r.req) /\ Waits(h, x, z)
        BY <2>9, <3>1 DEF Blocked
      <4>2. z \in DOMAIN r.due
        BY <2>1, <4>1 DEF Found
      <4> QED BY <2>1, <3>2, <4>1, <4>2 DEF Dependencies
    <3>5. r.blocked[y] = {}
      <4>1. ASSUME NEW z \in r.blocked[y] PROVE FALSE
        <5>1. PICK h \in S : Waits(h, y, z)
          BY <2>1, <3>2 DEF Dependencies
        <5>2. z \in Ever(S)
          BY <2>1, <3>2 DEF Dependencies, Found, Due, Has, Ever
        <5> QED BY <2>9, <3>1, <5>1, <5>2 DEF Unblocked
      <4> QED BY <4>1
    <3>6. /\ Columns(r.due[x]) /\ Columns(r.due[y]) /\ r.due[x].born <= r.due[y].born
      <4>1. PICK h \in S, k \in S : r.due[x] = h.th[x] /\ r.due[y] = k.th[y]
        BY <2>1, <3>2 DEF Found
      <4>2. h.th[x].born <= k.th[y].born
        BY <2>9, <3>1 DEF NoBetter
      <4> QED BY <2>1, <3>2, <4>1, <4>2 DEF Found
    <3>7. /\ Has(g, x) /\ Has(g, y) /\ g.th[x].imp <= g.th[y].imp
          /\ g.th[x].imp \in Nat /\ g.th[y].imp \in Nat
      <4>1. Has(g, x) /\ Has(g, y) /\ g.th[x].imp <= g.th[y].imp
        BY <1>1, <2>9, <3>1 DEF NoBetter
      <4> QED BY <4>1 DEF Has, Tables, Columns
    <3>8. PICK a, b, c, d, w, v : /\ a = r.due[x] /\ b = r.due[y] /\ c = g.th[x].imp /\ d = g.th[y].imp
                                  /\ w = Priority(a, c, r.blocked[x], r.req.now)
                                  /\ v = Priority(b, d, {}, r.req.now)
      OBVIOUS
    <3>9. w \in Int /\ v \in Int /\ w < v
      BY <2>2, <3>4, <3>6, <3>7, <3>8, WorthMore DEF Columns
    <3>10. Worth(x) = w /\ Worth(y) = v
      BY <3>5, <3>7, <3>8
    <3>11. Worth(y) > Worth(x)
      <4> HIDE DEF Worth
      <4> QED BY <3>9, <3>10
    <3>12. Before(y, x)
      <4> HIDE DEF Worth
      <4> QED BY <3>11 DEF Before
    <3> QED BY <3>3, <3>12
  <2>10. BlockedBehind(n, S)
    BY <1>6, <1>7, <2>9 DEF BlockedBehind
  <2> QED BY <2>6, <2>7, <2>8, <2>10 DEF SheetSound
<1>10. AgendaOK(n, S)
  BY <1>6, <1>8, <1>9 DEF AgendaOK, FrontierOK
<1> QED BY <1>1, <1>4, <1>10 DEF AgendaGoesOn, Turns

\* The next page is of the same listing.
LEMMA TurnAsks ==
  ASSUME NEW r, SheetRecord(r), NEW total
  PROVE  Turn(r, total).req = r.req
<1> DEFINE n == Turn(r, total)
           next == r.offset + r.req.limit
           first == FirstStep[r.req.kind]
<1>1. \/ n = [r EXCEPT !.pc = first, !.offset = next, !.total = total]
      \/ n = [r EXCEPT !.pc = "done", !.total = total]
  BY DEF Turn
<1> HIDE DEF n, next, first
<1>2. "req" \in DOMAIN r
  BY DEF SheetRecord
<1>3. n.req = r.req
  BY <1>1, <1>2
<1> QED BY <1>3 DEF n

\* The steps of the other calls.
LEMMA OthersAsk ==
  ASSUME NEW p, Count(p) \/ Page(p) \/ ReadEdges(p) \/ FindProject(p), SheetRecord(sheet[p])
  PROVE  \E n : sheet' = [sheet EXCEPT ![p] = n] /\ n.req = sheet[p].req
<1> DEFINE r == sheet[p]
<1>1. SheetRecord(r)
  OBVIOUS
<1>2. CASE Count(p)
  <2> DEFINE total == Cardinality({x \in DOMAIN g.th : Listed(g, x, r.req)})
             a == [r EXCEPT !.pc = "page", !.total = total]
             b == [r EXCEPT !.pc = "edges", !.total = total]
             c == Turn(r, total)
             Turns(n) == sheet' = [sheet EXCEPT ![p] = n]
  <2>1. Turns(a) \/ Turns(b) \/ Turns(c)
    <3>1. Turns(CASE r.req.kind = "review" -> a [] r.req.kind = "graph" -> b [] OTHER -> c)
      BY <1>2, Zenon DEF Count, Lay
    <3> HIDE DEF a, b, c, Turns, r
    <3> QED BY <3>1
  <2>2. a.req = r.req /\ b.req = r.req
    <3> HIDE DEF r, total
    <3> QED BY <1>1 DEF SheetRecord
  <2>3. c.req = r.req
    <3> HIDE DEF r, total
    <3> QED BY <1>1, TurnAsks
  <2> HIDE DEF a, b, c
  <2> QED BY <2>1, <2>2, <2>3
<1>3. CASE Page(p)
  <2> DEFINE Read(rows) == [r EXCEPT !.items = @ \o [i \in DOMAIN rows |-> [id |-> rows[i], by |-> {}]]]
             Counts(rows) == [Read(rows) EXCEPT !.pc = "count"]
             Turns(n) == sheet' = [sheet EXCEPT ![p] = n]
  <2>1. PICK rows : Turns(Turn(Read(rows), r.total)) \/ Turns(Counts(rows))
    <3>1. PICK rows : Turns(IF r.req.kind = "review" THEN Turn(Read(rows), r.total)
                                                     ELSE Counts(rows))
      BY <1>3, Zenon DEF Page, Lay
    <3> HIDE DEF Counts, Read, Turns, r
    <3> QED BY <3>1
  <2>2. SheetRecord(Read(rows)) /\ Read(rows).req = r.req
    <3> HIDE DEF r
    <3>1. PICK more, n : n = [r EXCEPT !.items = more] /\ n = Read(rows)
      OBVIOUS
    <3>2. n = [pc |-> r.pc, req |-> r.req, due |-> r.due, outdated |-> r.outdated,
               blocked |-> r.blocked, items |-> more, primed |-> r.primed,
               lines |-> r.lines, offset |-> r.offset, total |-> r.total, edges |-> r.edges,
               cut |-> r.cut]
      BY <1>1, <3>1 DEF SheetRecord
    <3>3. SheetRecord(n) /\ n.req = r.req
      BY <3>2 DEF SheetRecord
    <3> HIDE DEF Read
    <3> QED BY <3>1, <3>3
  <2>3. Turn(Read(rows), r.total).req = r.req
    <3> HIDE DEF r, Read
    <3> QED BY <2>2, TurnAsks
  <2>4. Counts(rows).req = r.req
    <3> HIDE DEF Read
    <3> QED BY <2>2 DEF SheetRecord
  <2> HIDE DEF Counts, Read
  <2> QED BY <2>1, <2>3, <2>4
<1>4. CASE ReadEdges(p)
  <2>1. PICK edges : sheet' = [sheet EXCEPT ![p] = [r EXCEPT !.pc = "done", !.edges = edges]]
    BY <1>4, Zenon DEF ReadEdges, Lay
  <2>2. [r EXCEPT !.pc = "done", !.edges = edges].req = r.req
    <3> HIDE DEF r
    <3> QED BY <1>1 DEF SheetRecord
  <2> QED BY <2>1, <2>2
<1>5. CASE FindProject(p)
  <2>1. PICK pc : sheet' = [sheet EXCEPT ![p] = [r EXCEPT !.pc = pc]]
    BY <1>5, Zenon DEF FindProject, Lay
  <2>2. [r EXCEPT !.pc = pc].req = r.req
    <3> HIDE DEF r
    <3> QED BY <1>1 DEF SheetRecord
  <2> QED BY <2>1, <2>2
<1> QED BY <1>2, <1>3, <1>4, <1>5

LEMMA ReflectAsks ==
  ASSUME NEW p, Reflect(p), SheetOK(sheet[p], saw[p], g)
  PROVE  \E n : sheet' = [sheet EXCEPT ![p] = n] /\ n.req.kind = "reflect"
<1> DEFINE r == sheet[p]
<1>1. SheetRecord(r) /\ r.req.kind = "reflect"
  BY DEF SheetOK, Reflect, Doing
<1>2. \/ sheet' = [sheet EXCEPT ![p] = [r EXCEPT !.pc = "failed"]]
      \/ sheet' = [sheet EXCEPT ![p] = [r EXCEPT !.pc = "done"]]
  BY Zenon DEF Reflect, Lay
<1>3. [r EXCEPT !.pc = "failed"].req = r.req /\ [r EXCEPT !.pc = "done"].req = r.req
  <2> HIDE DEF r
  <2> QED BY <1>1 DEF SheetRecord
<1> QED BY <1>1, <1>2, <1>3

\* Every step of a call, but the reflection's transaction.
LEMMA AgendaStepSound ==
  ASSUME NEW p, AgendaStep(p), ~Reflect(p), g \in saw[p], Tables(g), SheetOK(sheet[p], saw[p], g),
         AgendaOK(sheet[p], saw[p])
  PROVE  AgendaGoesOn(p)
<1>1. SheetRecord(sheet[p]) /\ Asked(sheet[p].req)
  BY DEF SheetOK
<1>2. CASE Count(p) \/ Page(p) \/ ReadEdges(p) \/ FindProject(p)
  <2>1. sheet[p].pc \in {"count", "page", "edges", "project"}
    BY <1>2 DEF Count, Page, ReadEdges, FindProject, Doing
  <2>2. sheet[p].req.kind \notin {"frontier", "slots"}
    BY <2>1 DEF AgendaOK, FrontierOK, SlotsOK
  <2>3. PICK n : sheet' = [sheet EXCEPT ![p] = n] /\ n.req = sheet[p].req
    BY <1>1, <1>2, OthersAsk
  <2> QED BY <2>2, <2>3 DEF AgendaGoesOn, AgendaOK
<1> QED BY <1>1, <1>2, ReadDueSound, ReadOutdatedSound, ReadUpstreamSound, RankSound, ReadSlotsSound
        DEF AgendaStep

-----------------------------------------------------------------------------
(* The invariant holds.                                                    *)

AgendasOK == \A p \in Processes : sheet[p] = NoSheet \/ AgendaOK(sheet[p], saw[p])

\* Every step moves the store, if at all, as a write.
LEMMA StepMoves ==
  ASSUME RInv, [Next]_vars
  PROVE  StoreMoves
<1>1. StoreOK
  BY RInvIs
<1>2. ASSUME NEW p \in Processes, SearchStep(p) PROVE StoreMoves
  BY <1>1, <1>2, SearchMoves
<1>3. ASSUME NEW p \in Processes, PlanStep(p) PROVE StoreMoves
  <2>1. CallsOK(p)
    BY RInvIs
  <2>2. g \in saw[p] /\ PlanOK(plan[p], saw[p], vec, queued)
    BY <1>3, <2>1, PlanBegun DEF CallsOK
  <2>3. UNCHANGED <<g, vec, queued, lost, saw>>
    BY <1>1, <1>3, <2>2, PlanStepOK DEF PlanGoesOn, PlanSteps
  <2> QED BY <1>1, <2>3, NothingMoves
<1>4. ASSUME NEW p \in Processes, AgendaStep(p) PROVE StoreMoves
  <2>1. CallsOK(p)
    BY RInvIs
  <2>2. g \in saw[p] /\ SheetOK(sheet[p], saw[p], g)
    BY <1>4, <2>1, SheetBegun DEF CallsOK
  <2>3. CASE Reflect(p)
    BY <1>1, <2>2, <2>3, ReflectOK
  <2>4. CASE ~Reflect(p)
    <3>1. UNCHANGED <<g, vec, queued, lost, saw>>
      BY <1>1, <1>4, <2>2, <2>4, AgendaStepOK DEF SheetGoesOn
    <3> QED BY <1>1, <3>1, NothingMoves
  <2> QED BY <2>3, <2>4
<1>5. ASSUME Others PROVE StoreMoves
  BY <1>1, <1>5, OthersMove
<1>6. ASSUME UNCHANGED <<g, vec, queued, lost, saw>> PROVE StoreMoves
  BY <1>1, <1>6, NothingMoves
<1> QED BY <1>2, <1>3, <1>4, <1>5, <1>6 DEF Next, vars

LEMMA InitAgendas == Init => AgendasOK
<1> SUFFICES ASSUME Init, NEW p \in Processes PROVE sheet[p] = NoSheet \/ AgendaOK(sheet[p], saw[p])
  BY DEF AgendasOK
<1>1. PICK req : sheet[p] = NoSheet \/ sheet[p] = NewSheet(req)
  BY DEF Init
<1>2. PICK r : r = NewSheet(req)
  OBVIOUS
<1>3. r.req = req /\ r.pc = FirstStep[req.kind] /\ r.outdated = {}
  BY <1>2 DEF NewSheet
<1>4. /\ req.kind = "frontier" => r.pc = "due"
      /\ req.kind = "slots" => r.pc = "outdated"
  BY <1>3 DEF FirstStep
<1>5. AgendaOK(r, saw[p])
  BY <1>3, <1>4 DEF AgendaOK, FrontierOK, SlotsOK
<1> QED BY <1>1, <1>2, <1>5

LEMMA NextAgendas == RInv /\ AgendasOK /\ [Next]_vars => AgendasOK'
<1> SUFFICES ASSUME RInv, AgendasOK, [Next]_vars PROVE AgendasOK'
  OBVIOUS
<1>1. StoreMoves /\ StoreOK
  BY StepMoves, RInvIs
<1>2. ASSUME NEW q \in Processes, sheet'[q] = sheet[q]
      PROVE  sheet'[q] = NoSheet \/ AgendaOK(sheet'[q], saw'[q])
  <2>1. CASE sheet[q] = NoSheet
    BY <1>2, <2>1
  <2>2. CASE sheet[q] # NoSheet
    <3>1. g \in saw[q] /\ AgendaOK(sheet[q], saw[q])
      BY <2>2 DEF RInv, AgendasOK
    <3>2. saw[q] \subseteq saw'[q] /\ saw[q] # {}
      BY <1>1, <3>1 DEF StoreMoves
    <3> QED BY <1>2, <3>1, <3>2, AgendaMoved
  <2> QED BY <2>1, <2>2
<1>3. ASSUME NEW p \in Processes, AgendaStep(p)
      PROVE  AgendasOK'
  <2>1. CallsOK(p) /\ sheet[p] # NoSheet
    BY <1>3, SheetBegun, RInvIs
  <2>2. g \in saw[p] /\ SheetOK(sheet[p], saw[p], g) /\ AgendaOK(sheet[p], saw[p])
    BY <2>1 DEF CallsOK, AgendasOK
  <2>3. PICK n : sheet' = [sheet EXCEPT ![p] = n] /\ AgendaOK(n, saw'[p])
    <3>1. CASE Reflect(p)
      <4>1. PICK n : sheet' = [sheet EXCEPT ![p] = n] /\ n.req.kind = "reflect"
        BY <2>2, <3>1, ReflectAsks
      <4> QED BY <4>1 DEF AgendaOK
    <3>2. CASE ~Reflect(p)
      <4>1. AgendaGoesOn(p) /\ UNCHANGED saw
        BY <1>1, <1>3, <2>2, <3>2, AgendaStepSound, AgendaStepOK DEF StoreOK, SheetGoesOn
      <4> QED BY <4>1 DEF AgendaGoesOn
    <3> QED BY <3>1, <3>2
  <2>4. sheet'[p] = n /\ \A q \in Processes \ {p} : sheet'[q] = sheet[q]
    <3>1. sheet = [q \in Processes |-> sheet[q]]
      BY DEF RInv
    <3> QED BY <2>3, <3>1
  <2> QED BY <1>2, <2>3, <2>4 DEF AgendasOK
<1>4. CASE UNCHANGED sheet
  BY <1>2, <1>4 DEF AgendasOK
<1> QED BY <1>3, <1>4 DEF Next, vars

LEMMA AgendasAre == AgendasOK => AgendaSound
<1> SUFFICES ASSUME AgendasOK, NEW p \in Processes, NEW r, r = sheet[p],
                    r.pc = "done", r.req.kind \in {"frontier", "slots"}
             PROVE  /\ OnlyDue(r, saw[p]) /\ AllDue(r, saw[p])
                    /\ Blocking(r, saw[p]) /\ BlockedBehind(r, saw[p])
  BY DEF AgendaSound
<1>1. SheetSound(r, saw[p])
  BY DEF AgendasOK, AgendaOK, FrontierOK, SlotsOK, NoSheet
<1>2. AllDue(r, saw[p])
  BY <1>1 DEF SheetSound, FewMissed, AllDue
<1> QED BY <1>1, <1>2 DEF SheetSound

\* A frontier and the slot of the pending items show only what was due at some
\* moment of the call and not replaced all along.  Of what stood all along a
\* list that the limit leaves room in, and that does not say it is truncated,
\* leaves out no more than the offset skips, which is none for a frontier.  What
\* is named as blocking a thought did, and a thought blocked all along never
\* comes before one that never was and is as important and as young
\* (getFrontierService and getSlots read the candidates, the replaced ones and
\* the edges one after the other, while others write).
THEOREM AgendasAreSound == Spec => []AgendaSound
<1>1. Spec => [](RInv /\ AgendasOK)
  BY InitRInv, NextRInv, InitAgendas, NextAgendas, PTL DEF Spec
<1> QED BY <1>1, AgendasAre, PTL
=============================================================================
