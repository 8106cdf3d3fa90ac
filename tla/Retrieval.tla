----------------------------- MODULE Retrieval ------------------------------
(***************************************************************************)
(* Searches, placement plans and agendas of several processes over one     *)
(* database file, while others write to it.  Their reads hold no           *)
(* transaction and no snapshot, so an answer is put together from reads of *)
(* different stores; what can be asked of it is judged against every store *)
(* the file held while the call was under way (`saw`).                     *)
(***************************************************************************)
EXTENDS Search, Planner, Agenda

CONSTANTS Scenarios  \* what the file holds and which calls begin on it

\* The columns of a row that are asked about.
Columns(row) ==
  /\ {"content", "imp", "born", "cluster"} \subseteq DOMAIN row
  /\ row.imp \in Nat /\ row.born \in Nat

\* Those a reflection asks about or sets; the hash is of content and project.
Labels(row) ==
  /\ {"tags", "wait", "derived", "status", "proj", "hash"} \subseteq DOMAIN row
  /\ row.hash = Hash(row)

\* The lines of a slot: no two whole ones are the same.
GoodLines(lines) ==
  /\ lines \in Seq([goal : STRING, whole : BOOLEAN])
  /\ \A i, j \in DOMAIN lines : (lines[i].whole /\ lines[i] = lines[j]) => i = j

\* Finite tables, each id yet to come unused; only clusters have members.
Tables(h) ==
  /\ h = [th |-> h.th, ed |-> h.ed, projs |-> h.projs, made |-> h.made, ver |-> h.ver]
  /\ IsFiniteSet(DOMAIN h.th) /\ \A x \in DOMAIN h.th : Columns(h.th[x])
  /\ \A e \in h.ed : e.type = "cluster" => IsCluster(h, e.s)
  /\ h.made \in Nat /\ Unused(h) \cap DOMAIN h.th = {}

\* A vector is of the content its thought has, unless its row is queued or was
\* lost to a late edit.
Accounted(h, v, q, l) == \A x \in DOMAIN v \ (q \cup l) : Has(h, x) /\ v[x] = h.th[x].content

\* updateThought writes neither importance nor created_at, computes the hash, and
\* nobody who calls it gives it is_cluster.
ASSUME EditsAssumption == \A d \in Edits : DOMAIN d \cap {"imp", "born", "cluster", "hash"} = {}

\* The defaults of the configuration are of these types.
ASSUME ConfigAssumption ==
  /\ MaxCandidates \in Nat /\ MaxProposals \in Nat /\ MaxLines \in Nat
  /\ MaxImp \in Nat \ {0} /\ Recent \in Nat /\ Aging \in Nat

\* The limits of a search, and the ids there are for it to name.
ASSUME SearchAssumption ==
  /\ MaxTopK \in Nat \ {0} /\ Overfetch \in Nat \ {0}
  /\ PoolFactor \in Nat \ {0} /\ PoolMax \in Nat /\ MaxTopK <= PoolMax
  /\ PrefixCap \in Nat /\ PrefixCap > 1
  /\ IdOrder \in Seq(STRING) /\ \A i, j \in DOMAIN IdOrder : IdOrder[i] = IdOrder[j] => i = j
  /\ \A query \in DOMAIN Named : Named[query].ids \subseteq ToSet(IdOrder)

\* What the file can hold, and the tools' schemas let callers ask for.
ASSUME ScenariosAssumption ==
  /\ NewIds \in Seq(STRING) /\ \A i, j \in DOMAIN NewIds : NewIds[i] = NewIds[j] => i = j
  /\ \A s \in Scenarios :
       /\ Tables(s.g) /\ \A x \in DOMAIN s.g.th : Labels(s.g.th[x])
       /\ Accounted(s.g, s.vec, s.queued, s.lost)
       /\ \A slot \in DOMAIN s.goals : GoodLines(s.goals[slot])
       /\ IsFiniteSet(DOMAIN s.vec) /\ s.primers \in Seq(STRING)
       /\ \A p \in DOMAIN s.asks : s.asks[p].topK \in 1..MaxTopK
       /\ \A p \in DOMAIN s.sheets :
            LET req == s.sheets[p]
            IN  /\ req.kind \in DOMAIN FirstStep
                /\ req.kind \in {"list", "review", "frontier", "slots"} => req.limit \in Nat
                /\ req.kind = "slots" => req.offset \in Nat
                /\ req.kind \in {"frontier", "reflect"} => req.now \in Nat
                /\ req.kind = "reflect" => /\ req.decisions \in Seq(STRING)
                                           /\ req.pending \in Seq(STRING)
                                           /\ req.add \in Seq(STRING)

vars == <<g, vec, queued, lost, primers, hits, goals, notes, saw, writes, search, plan, sheet>>

Init ==
  \E s \in Scenarios :
    /\ g = s.g /\ vec = s.vec /\ queued = s.queued /\ lost = s.lost
    /\ primers = s.primers /\ hits = s.hits /\ writes = s.writes
    /\ goals = s.goals /\ notes = <<>>
    /\ saw = [p \in Processes |-> IF p \in DOMAIN s.asks \cup DOMAIN s.plans \cup DOMAIN s.sheets
                                  THEN {s.g} ELSE {}]
    /\ search = [p \in Processes |-> IF p \in DOMAIN s.asks THEN Fresh(s.asks[p]) ELSE NoSearch]
    /\ plan = [p \in Processes |-> IF p \in DOMAIN s.plans THEN NewPlan(s.plans[p]) ELSE NoPlan]
    /\ sheet = [p \in Processes |-> IF p \in DOMAIN s.sheets THEN NewSheet(s.sheets[p]) ELSE NoSheet]

Over == {"idle", "done", "failed"}

Busy(p) == search[p].pc \notin Over \/ plan[p].pc \notin Over \/ sheet[p].pc \notin Over

\* Writes matter while a call is under way.
Next ==
  \/ \E p \in Processes : SearchStep(p) /\ UNCHANGED <<plan, goals, notes, sheet>>
  \/ \E p \in Processes : PlanStep(p) /\ UNCHANGED <<search, goals, notes, sheet>>
  \/ \E p \in Processes : AgendaStep(p) /\ UNCHANGED <<search, plan>>
  \/ /\ \E p \in Processes : Busy(p)
     /\ Others
     /\ UNCHANGED <<search, plan, goals, notes, sheet>>

Spec == Init /\ [][Next]_vars

(***************************************************************************)
(* What a call may rely on.                                                *)
(***************************************************************************)
\* An answer is a list of results, each with one id or a group of them.
Spots(out) == UNION {{<<i, j>> : j \in DOMAIN out[i].ids} : i \in DOMAIN out}

IdAt(out, q) == out[q[1]].ids[q[2]]

Answered(s) == {IdAt(s.out, q) : q \in Spots(s.out)}

Shows(s, x) == Cardinality({q \in Spots(s.out) : IdAt(s.out, q) = x})

Ever(S) == UNION {DOMAIN h.th : h \in S}

EverThere(p) == Ever(saw[p])

Times(seq, x) == Cardinality({i \in DOMAIN seq : seq[i] = x})

Replaced(h, x) == \E f \in h.ed : f.type = "replaces" /\ f.t = x

\* 0 a current thought, 1 a contested one, 2 a superseded one, as the caller asks,
\* if it is looked for who is replaced in h and for who is contested in k.
Doubt(h, k, x, req) ==
  IF req.supersession # "off" /\ Replaced(h, x) THEN 2
  ELSE IF req.contradiction # "off" /\ Contested(k, x) THEN 1 ELSE 0

InScopeById(h, x, req) ==
  /\ Has(h, x) /\ InCluster(h, x, req.cluster)
  /\ x \in Named[req.query].ids
  /\ Exact(req.query) \/ Scoped(h, x, req)

OnlyOneById(h, req) ==
  \E x \in DOMAIN h.th : \A y \in DOMAIN h.th : InScopeById(h, y, req) <=> y = x

InScope(s, h, x) ==
  IF s.byId THEN InScopeById(h, x, s.req)
  ELSE Passes(h, x, s.req) /\ Tagged(h, x, s.req)

\* Whichever of the stores the two looks fall on.
AlwaysBehind(S, req, x, y) == \A h, k \in S : Doubt(h, k, x, req) > Doubt(h, k, y, req)

\* The scope and the tags are asked for one after the other.
WasInScope(s, S, x) ==
  IF s.byId THEN \E h \in S : InScope(s, h, x)
  ELSE (\E h \in S : Passes(h, x, s.req)) /\ (\E h \in S : Tagged(h, x, s.req))

Suppresses(s) == s.req.supersession = "suppress" /\ ~s.byId

HitsSound(s, S) ==
  /\ Cardinality(Answered(s)) <= s.req.topK
  /\ \A x \in Answered(s) :
       /\ WasInScope(s, S, x)
       /\ Suppresses(s) => \E h \in S : ~Replaced(h, x)
       /\ Shows(s, x) > 1 => Shows(s, x) = Times(s.primed, x)

DoubtsLast(s, S) ==
  ~s.req.group =>
    \A q, r \in Spots(s.out) :
      LET x == IdAt(s.out, q)
          y == IdAt(s.out, r)
      IN  (q[1] < r[1] /\ {x, y} \cap ToSet(s.primed) = {}) => ~AlwaysBehind(S, s.req, x, y)

ReasonSound(s, S) ==
  /\ (s.byId /\ Reason(s) # "ambiguous_id") => \E h \in S : OnlyOneById(h, s.req)
  /\ Reason(s) = "id_not_found" => \E h \in S : \A x \in DOMAIN h.th : ~InScopeById(h, x, s.req)

(***************************************************************************)
(* Whatever the others write in the middle of a search, everything it      *)
(* answers was in the scope asked for at some moment of it, and had the    *)
(* tags asked for at some moment, perhaps another; what was superseded all *)
(* along is not answered when supersession suppresses; the answer has no   *)
(* more thoughts than were asked for, each once (but as often as the       *)
(* primers name it twice); and a thought is not put before one that would  *)
(* be the less in doubt at whatever two moments it is looked up who is     *)
(* superseded and who is contested, primers and clusters apart.  An answer *)
(* by id that is not called ambiguous names the one thought there was, and *)
(* an id is called unknown only if there was none.  A search fails only if *)
(* a thought it found has been deleted.                                    *)
(***************************************************************************)
AnswerSound ==
  \A p \in Processes :
    LET s == search[p]
    IN  /\ s.pc = "done" => /\ HitsSound(s, saw[p]) /\ DoubtsLast(s, saw[p])
                            /\ ReasonSound(s, saw[p])
        /\ s.pc = "failed" => \E x \in Ever(saw[p]), h \in saw[p] : ~Has(h, x)

\* How many candidates a search promises to look at before it filters them.
Window(req) == IF req.supersession = "suppress" \/ req.gate > 0
               THEN Lesser(MaxTopK, req.topK * Overfetch) ELSE req.topK

Always(s, S, x) == \A h \in S : InScope(s, h, x)

Worded(s, S, x) == \A h \in S : Match(s.req.query, h.th[x].content) > 0

\* As many as a look-up shows.
FewNamed(s, S) ==
  Cardinality({x \in Ever(S) : \E h \in S : InScope(s, h, x)}) <= Lesser(s.req.topK, PrefixCap)

\* As many in scope, tags apart, as are looked at, and as many with the words as
\* are read before the scope is asked for.
FewFound(s, S) ==
  /\ Cardinality({x \in Ever(S) : \E h \in S : Passes(h, x, s.req)}) <= Window(s.req)
  /\ Cardinality({x \in Ever(S) : \E h \in S : /\ Has(h, x)
                                               /\ Match(s.req.query, h.th[x].content) > 0})
       <= Lesser(PoolMax, 3 * Pool(s.req))

(***************************************************************************)
(* A search whose answer has room left misses nothing that contained the   *)
(* words of the query, was in scope and was current all through it, unless *)
(* the leg that reads words failed, or more candidates were in scope or    *)
(* contained the words than it looks at (the tags are asked for last, and  *)
(* do not make room).  An id, or a prefix of few, finds what it names.     *)
(***************************************************************************)
AnswerComplete ==
  \A p \in Processes :
    LET s == search[p]
        S == saw[p]
    IN  s.pc = "done" =>
          /\ (s.byId /\ FewNamed(s, S)) => \A x \in Ever(S) : Always(s, S, x) => x \in Answered(s)
          /\ (/\ ~s.byId /\ s.req.hybrid /\ s.lexical /\ FewFound(s, S)
              /\ Cardinality(Answered(s)) < s.req.topK) =>
               \A x \in Ever(S) :
                 (/\ Always(s, S, x) /\ Worded(s, S, x)
                  /\ Suppresses(s) => \A h \in S : ~Replaced(h, x)) => x \in Answered(s)

Contents(p, x) == {h.th[x].content : h \in {k \in saw[p] : Has(k, x)}}

(***************************************************************************)
(* A plan uses no vector of a content its thought did not have since the   *)
(* call began: the queue is read before the vectors, so that a vector      *)
(* refreshed in between is taken anew and never taken stale.  Vectors lost *)
(* to an earlier late edit are the exception.                              *)
(***************************************************************************)
VectorsCurrent ==
  \A p \in Processes :
    plan[p].pc \notin {"idle", "start", "pending", "stored", "embed"} =>
      \A x \in DOMAIN plan[p].vectors \ (plan[p].blind \cup {Draft}) :
        plan[p].vectors[x] \in Contents(p, x)

HomesIn(h, x, proj) == {c \in ClustersOf(h, x) : h.th[c].proj = proj}

\* A reference for the vote: the neighbours surely in another cluster, and
\* those that may be in c.
MayWin(h, near, c, proj) ==
  LET ayes == {x \in near : c \in ClustersOf(h, x)}
      nays == {x \in near : HomesIn(h, x, proj) # {} /\ c \notin ClustersOf(h, x)
                            /\ ClustersOf(h, x) = HomesIn(h, x, proj)}
  IN  Cardinality(ayes) > Cardinality(nays)

Mine(r) == r.rows[r.src]

Cueless(row) == Cues(row.content) = {} /\ row.tags \subseteq {"t"}

\* Not linked to the source at some moment of S, the stores of the call.
Apart(r, S, x) == r.src # Draft => \E h \in S : ~Linked(h, r.src, x)

Linkable(r, S, x) ==
  /\ x # r.src /\ Apart(r, S, x)
  /\ \E h \in S : Has(h, x) /\ ~h.th[x].cluster /\ h.th[x].proj = Mine(r).proj

EdgesSound(r, S) ==
  /\ Len(r.edges) <= MaxProposals
  /\ \A i \in DOMAIN r.edges :
       LET e == r.edges[i]
       IN  /\ Linkable(r, S, e.target)
           /\ (Cueless(Mine(r)) /\ Cueless(r.rows[e.target])) => e.type = "related"

FateSound(r, S) ==
  /\ r.fate.action = "replaces+archive" => /\ r.rows[r.fate.target].born < Mine(r).born
                                           /\ Apart(r, S, r.fate.target)
  /\ r.fate.action = "merge" => r.fate.target # r.src

Roomy(h, c) == Cardinality(ClusterMembers(h, c)) < MaxClusterSize

PlaceSound(r, S) ==
  LET c == r.placed.target
  IN  r.placed.kind = "cluster" =>
        /\ \E h \in S : IsCluster(h, c)
        /\ (\E h \in S : IsCluster(h, c) /\ Roomy(h, c)) \/ (\E h \in S : ~IsCluster(h, c))
        /\ \A h \in S : S = {h} => MayWin(h, Paired(r), c, Mine(r).proj)

(***************************************************************************)
(* A plan never proposes an edge to the thought itself, to a cluster, to   *)
(* another project's thought or where one has been all along; texts        *)
(* without a cue are related and nothing more, and only an older thought   *)
(* is superseded; it places a thought in a cluster that had room, or has   *)
(* been deleted since it was chosen (its members are counted without a     *)
(* look at the cluster), and, when nothing was written meanwhile, more of  *)
(* its neighbours than all others.  Without vectors it proposes neither    *)
(* edges nor a place.                                                      *)
(***************************************************************************)
PlanSound ==
  \A p \in Processes :
    LET r == plan[p]
    IN  (r.pc = "done" /\ r.rows # <<>>) =>
          /\ EdgesSound(r, saw[p]) /\ FateSound(r, saw[p]) /\ PlaceSound(r, saw[p])
          /\ r.degraded => r.edges = <<>> /\ r.placed.kind = "none"

\* Something to be done, for a frontier or for the slot of the pending items.
Due(h, x, req) ==
  /\ Has(h, x) /\ Actionable(h, x, IF req.kind = "slots" THEN "any" ELSE req.proj)
  /\ req.kind = "slots" => "pending" \in h.th[x].tags

Stands(h, x, req) == Due(h, x, req) /\ ~Replaced(h, x)

\* x waits for y.
Waits(h, x, y) ==
  \E e \in h.ed : e.type = "depends_on" /\ e.s = x /\ e.t = y /\ Active(h, e)

OnSheet(r) == {r.items[i].id : i \in DOMAIN r.items}

OnlyDue(r, S) ==
  \A x \in OnSheet(r) : (\E h \in S : Due(h, x, r.req)) /\ (\E h \in S : ~Replaced(h, x))

\* The page of a slot may begin further down; a frontier begins at the top.
Skips(req) == IF req.kind = "slots" THEN req.offset ELSE 0

\* What stood all along and is not shown.
Missed(r, S) == {x \in Ever(S) : (\A h \in S : Stands(h, x, r.req)) /\ x \notin OnSheet(r)}

AllDue(r, S) ==
  (~r.cut /\ Len(r.items) < r.req.limit) => Cardinality(Missed(r, S)) <= Skips(r.req)

Blocking(r, S) ==
  \A i \in DOMAIN r.items : \A y \in r.items[i].by : \E h \in S : Waits(h, r.items[i].id, y)

Blocked(S, x, req) ==
  \E y \in Ever(S) : \A h \in S : Stands(h, y, req) /\ Waits(h, x, y)

Unblocked(S, x) == \A h \in S, y \in Ever(S) : ~Waits(h, x, y)

\* x was there all along, and never more important or younger than y was.
NoBetter(S, x, y) ==
  \A h, k \in S : /\ Has(h, x) /\ Has(k, y)
                  /\ h.th[x].imp <= k.th[y].imp /\ h.th[x].born <= k.th[y].born

BlockedBehind(r, S) ==
  r.req.kind = "frontier" =>
    \A i, j \in DOMAIN r.items :
      (i < j /\ Blocked(S, r.items[i].id, r.req) /\ Unblocked(S, r.items[j].id)) =>
        ~NoBetter(S, r.items[i].id, r.items[j].id)

(***************************************************************************)
(* The frontier and the slot of the pending items show only what was due   *)
(* at some moment of the call and not replaced all along.  Of what was due *)
(* and not replaced all along they miss none, if the limit leaves room and *)
(* the slot does not say that it is truncated, or, on a page of the slot,  *)
(* no more than the offset skips.  A thought that waited for another all   *)
(* along does not come before one that never did and was always as         *)
(* important and as young; and what is named as blocking it was.           *)
(***************************************************************************)
AgendaSound ==
  \A p \in Processes :
    LET r == sheet[p]
    IN  (r.pc = "done" /\ r.req.kind \in {"frontier", "slots"}) =>
          OnlyDue(r, saw[p]) /\ AllDue(r, saw[p]) /\ Blocking(r, saw[p]) /\ BlockedBehind(r, saw[p])

(***************************************************************************)
(* A caller that pages through a listing sees every thought that was on it *)
(* all the while exactly once, if what is ahead of it did not change in    *)
(* the meantime and none is level with it: thoughts may come, go and move  *)
(* behind it.                                                              *)
(***************************************************************************)
PagesComplete ==
  \A p \in Processes :
    LET r == sheet[p]
        ids == [i \in DOMAIN r.items |-> r.items[i].id]
        InFront(h, y, x) == Listed(h, y, r.req) /\ ~Ahead(h, x, y, r.req)
        Steady(x, y) == \/ \A h \in saw[p] : InFront(h, y, x) /\ Ahead(h, y, x, r.req)
                        \/ \A h \in saw[p] : ~InFront(h, y, x)
        Undisturbed(x) == /\ \A h \in saw[p] : Listed(h, x, r.req)
                          /\ \A y \in EverThere(p) \ {x} : Steady(x, y)
    IN  (r.pc = "done" /\ r.req.kind \in {"list", "review"}) =>
          \A x \in EverThere(p) :
            /\ x \in ToSet(ids) => \E h \in saw[p] : Listed(h, x, r.req)
            /\ Undisturbed(x) => Times(ids, x) = 1

\* A slot before and after a reflection.
GoalsSound(req, old, new) ==
  LET Removed(l) == \E i \in DOMAIN req.remove : Says(l, req.remove[i])
  IN  /\ \A i \in DOMAIN req.add :
           LET l == Line(req.add[i])
           IN  \/ l \in ToSet(new)
               \/ l \in ToSet(old) /\ ~Removed(l)
               \/ Len(req.add) > MaxLines
      /\ \A i \in DOMAIN new : new[i].whole =>
           /\ \A j \in DOMAIN new : j # i => new[j] # new[i]
           /\ Removed(new[i]) => new[i].goal \in ToSet(req.add)

Decision(h, x) == "decision" \in h.th[x].tags

\* The store before it and after it.
DecisionsSound(h, n) ==
  \A x \in DOMAIN n.th \ DOMAIN h.th, y \in Live(n) :
    (x # y /\ Decision(n, x) /\ Decision(n, y)) => Overlap(n.th[x].content, n.th[y].content) < 60

PendingSound(req, h, n) ==
  \A c \in ToSet(req.pending) : \E x \in Live(n) :
    /\ n.th[x].content = c /\ "pending" \in n.th[x].tags
    /\ (x \notin DOMAIN h.th /\ c \notin ToSet(req.decisions)) =>
         n.th[x].wait /\ n.th[x].status = "draft"

OnlyItems(req, h, n) ==
  \A x \in DOMAIN h.th :
    /\ x \in DOMAIN n.th
    /\ n.th[x] # h.th[x] => h.th[x].content \in ToSet(req.decisions) \cup ToSet(req.pending)

(***************************************************************************)
(* A reflection that fails leaves nothing behind.  One that succeeds has   *)
(* stored every goal it adds, if so many fit, even one a removal of the    *)
(* same call names; no removed goal and no goal twice; and no decision     *)
(* that repeats a live one, also when two sessions reflect at once.  What  *)
(* it leaves pending is a draft that waits, and of the thoughts that were  *)
(* there it touches only those with the content of its items.              *)
(***************************************************************************)
ReflectionSound ==
  [][\A p \in Processes :
       (sheet[p].pc = "write" /\ sheet'[p].pc # "write") =>
         LET req == sheet[p].req
             scope == Scope(req)
         IN  IF sheet'[p].pc = "failed" THEN UNCHANGED <<g, goals, notes>>
             ELSE /\ GoalsSound(req, SlotOf(goals, scope, <<>>), SlotOf(goals', scope, <<>>))
                  /\ DecisionsSound(g, g') /\ PendingSound(req, g, g')
                  /\ OnlyItems(req, g, g')]_vars
=============================================================================
