------------------------------- MODULE Agenda -------------------------------
(***************************************************************************)
(* What a session is told when it begins and what it leaves when it ends:  *)
(* the frontier of things to do next (services/frontier.service.ts), the   *)
(* slots (services/slots.service.ts), the listings a caller pages through  *)
(* (memory_recall list, memory_reflect timeline, the retention review, the *)
(* graph) and the reflection that writes goals, decisions and pending      *)
(* items (services/session-reflection.service.ts).                         *)
(*                                                                         *)
(* The reads of one call share no transaction; a reflection is one.  The   *)
(* goals of a slot are its lines, compared without regard to case, and the *)
(* characters that fit in it are counted in lines: `tail` keeps the last   *)
(* MaxLines of them and perhaps the end of the one before.  The items of a *)
(* slot are lines too, but not even in length: max_chars may cut anywhere. *)
(***************************************************************************)
EXTENDS Corpus

CONSTANTS Says(_, _),  \* whether a line of a slot contains a text
          MaxLines,    \* how many goals fit into max_chars
          TopPrimers,  \* primer.topN
          Recent, Aging  \* ages a frontier bonus ends at, in ticks

VARIABLES goals,  \* active_goals: scope -> its lines, oldest first
          notes,  \* project_context: scope -> how many summaries it took
          sheet   \* per process, the call it is in

Doing(p, pc) == sheet[p].pc = pc

Lay(p, r) == sheet' = [sheet EXCEPT ![p] = r]

NoSheet == [pc |-> "idle"]

\* The statement each kind of call begins with.
FirstStep == [frontier |-> "due", slots |-> "outdated", list |-> "page", graph |-> "page",
              review |-> "count", reflect |-> "project"]

NewSheet(req) ==
  [pc |-> FirstStep[req.kind], req |-> req, due |-> <<>>, outdated |-> {}, blocked |-> <<>>,
   items |-> <<>>, primed |-> <<>>, lines |-> <<>>, offset |-> 0, total |-> 0, edges |-> {},
   cut |-> FALSE]

(***************************************************************************)
(* The frontier, and the slots that show part of it.                       *)
(***************************************************************************)
\* findFrontierCandidates; a derived thought is an old profile summary.
Actionable(h, x, proj) ==
  LET row == h.th[x]
  IN  /\ row.tags \cap {"directive", "todo", "pending"} # {}
      /\ row.status # "archived" /\ ~row.cluster /\ ~row.wait /\ ~row.derived
      /\ proj = "any" \/ row.proj = proj

Outdated_Sources(h) == {e.s : e \in {f \in h.ed : f.type = "replaces"}}

\* getReplacedTargetIds.
Outdated(h) == {e.t : e \in {f \in h.ed : f.type = "replaces"}}

Slice_SkipsOne(s, offset, limit) == FirstOf(SubSeq(s, offset + 2, Len(s)), limit)

\* LIMIT ? OFFSET ?, and slice(offset, offset + limit).
Slice(s, offset, limit) == FirstOf(SubSeq(s, offset + 1, Len(s)), limit)

\* The frontier reads what is due and then what is replaced, the slot of the
\* pending items the other way round, for every project.  Of the slot's items,
\* which are in no order, the caller gets the page it asked for, and of that the
\* lines that fit into max_chars.
ReadDue(p) ==
  LET r == sheet[p]
      proj == IF r.req.kind = "slots" THEN "any" ELSE r.req.proj
      due == {x \in DOMAIN g.th : Actionable(g, x, proj)} \ r.outdated
      pending == {x \in due : "pending" \in g.th[x].tags}
  IN  /\ Doing(p, "due")
      /\ IF r.req.kind = "slots"
         THEN \E order \in SetToSeqs(pending) :
                LET page == Slice(order, r.req.offset, r.req.limit)
                IN  \E fit \in 0..Len(page) :
                      Lay(p, [r EXCEPT !.pc = "primers", !.cut = fit < Len(page),
                                !.items = [i \in 1..fit |-> [id |-> page[i], by |-> {}]]])
         ELSE Lay(p, [r EXCEPT !.pc = "outdated", !.due = [x \in due |-> g.th[x]]])
      /\ UNCHANGED <<corpus, goals, notes, saw, writes>>

ReadOutdated(p) ==
  LET r == sheet[p]
      left == DOMAIN r.due \ Outdated(g)
  IN  /\ Doing(p, "outdated")
      /\ Lay(p, [r EXCEPT !.pc = IF r.req.kind = "slots" THEN "due" ELSE "upstream",
                          !.outdated = Outdated(g), !.due = [x \in left |-> @[x]]])
      /\ UNCHANGED <<corpus, goals, notes, saw, writes>>

Active(h, e) == h.th[e.s].status = "active" /\ h.th[e.t].status = "active"

\* getAllActiveEdges: an edge of a draft blocks nothing.
Upstream(h, x, among) ==
  {e.t : e \in {f \in h.ed : f.s = x /\ f.type = "depends_on" /\ f.t \in among /\ Active(h, f)}}

ReadUpstream(p) ==
  LET r == sheet[p]
  IN  /\ Doing(p, "upstream")
      /\ Lay(p, [r EXCEPT !.pc = "rank",
                          !.blocked = [x \in DOMAIN r.due |-> Upstream(g, x, DOMAIN r.due)]])
      /\ UNCHANGED <<corpus, goals, notes, saw, writes>>

\* In hundredths; a deleted thought has no row and counts as important.
Priority(row, imp, by, now) ==
  LET age == now - row.born
  IN  (50 * imp) \div MaxImp + (IF by = {} THEN 15 ELSE 0)
        + (IF age <= Recent THEN 10 ELSE IF age <= Aging THEN 5 ELSE 0)

\* getFrontierService, once it has the importance of every candidate.
Rank(p) ==
  LET r == sheet[p]
      Worth(x) == Priority(r.due[x], IF Has(g, x) THEN g.th[x].imp ELSE MaxImp,
                           r.blocked[x], r.req.now)
      Before(x, y) == Worth(x) > Worth(y) \/ (Worth(x) = Worth(y) /\ Earlier(x, y))
  IN  /\ Doing(p, "rank")
      /\ \E order \in Sorted(DOMAIN r.due, Before) :
           LET ranked == FirstOf(order, r.req.limit)
           IN  Lay(p, [r EXCEPT !.pc = "done",
                         !.items = [i \in DOMAIN ranked |->
                                      [id |-> ranked[i], by |-> r.blocked[ranked[i]]]]])
      /\ UNCHANGED <<corpus, goals, notes, saw, writes>>

\* architectureDecisionsContent: the primers most hit, then their thoughts.
ReadPrimers(p) ==
  LET Hits(x) == hits[x]
  IN  /\ Doing(p, "primers")
      /\ \E best \in Ranked(ToSet(primers), Hits) :
           Lay(p, [sheet[p] EXCEPT !.pc = "own",
                                   !.primed = FirstOf(best, TopPrimers)])
      /\ UNCHANGED <<corpus, goals, notes, saw, writes>>

\* getSlotRow.
SlotOf(slots, scope, empty) == IF scope \in DOMAIN slots THEN slots[scope] ELSE empty

\* upsertSlot.
Upserted(slots, scope, content) ==
  [x \in DOMAIN slots \cup {scope} |-> IF x = scope THEN content ELSE slots[x]]

\* getSlots: the row of the project before the global one.
ReadOwn(p) ==
  LET r == sheet[p]
      own == r.req.proj \in DOMAIN goals
  IN  /\ Doing(p, "own")
      /\ Lay(p, [r EXCEPT !.pc = IF own THEN "done" ELSE "global",
                          !.lines = SlotOf(goals, r.req.proj, <<>>)])
      /\ UNCHANGED <<corpus, goals, notes, saw, writes>>

ReadGlobal(p) ==
  /\ Doing(p, "global")
  /\ Lay(p, [sheet[p] EXCEPT !.pc = "done", !.lines = SlotOf(goals, "global", <<>>)])
  /\ UNCHANGED <<corpus, goals, notes, saw, writes>>

(***************************************************************************)
(* Listings.  The caller asks for page after page until it has asked for   *)
(* as many as the last answer says there are.                              *)
(***************************************************************************)
\* buildThoughtsWhere, and the WHERE clause of the retention review.
Listed(h, x, req) ==
  /\ Has(h, x)
  /\ IF req.kind = "review"
     THEN Eligible(h, x, req.now) /\ ~h.th[x].wait
     ELSE /\ req.status = "all" \/ h.th[x].status = req.status
          /\ req.proj = "any" \/ h.th[x].proj = req.proj

\* What puts x before y: the older anchor, then the id; the newer thought, and
\* nothing among equals.
Ahead(h, x, y, req) ==
  IF req.kind = "review"
  THEN \/ Anchor(h.th[x]) < Anchor(h.th[y])
       \/ Anchor(h.th[x]) = Anchor(h.th[y]) /\ Earlier(x, y)
  ELSE h.th[x].born > h.th[y].born

Listings(h, req) ==
  {s \in SetToSeqs({x \in DOMAIN h.th : Listed(h, x, req)}) :
     \A i, j \in DOMAIN s : i < j => ~Ahead(h, s[j], s[i], req)}

\* The next page is asked for if the total says that there is one.
Turn(r, total) ==
  LET next == r.offset + r.req.limit
  IN  IF next < total THEN [r EXCEPT !.pc = FirstStep[r.req.kind], !.offset = next, !.total = total]
      ELSE [r EXCEPT !.pc = "done", !.total = total]

\* The review counts before it reads the page, the others after it.
Count(p) ==
  LET r == sheet[p]
      total == Cardinality({x \in DOMAIN g.th : Listed(g, x, r.req)})
  IN  /\ Doing(p, "count")
      /\ Lay(p, CASE r.req.kind = "review" -> [r EXCEPT !.pc = "page", !.total = total]
                  [] r.req.kind = "graph"  -> [r EXCEPT !.pc = "edges", !.total = total]
                  [] OTHER                 -> Turn(r, total))
      /\ UNCHANGED <<corpus, goals, notes, saw, writes>>

Page(p) ==
  LET r == sheet[p]
  IN  /\ Doing(p, "page")
      /\ \E s \in Listings(g, r.req) :
           LET rows == Slice(s, r.offset, r.req.limit)
               read == [r EXCEPT !.items = @ \o [i \in DOMAIN rows |-> [id |-> rows[i], by |-> {}]]]
           IN  Lay(p, IF r.req.kind = "review" THEN Turn(read, r.total) ELSE [read EXCEPT !.pc = "count"])
      /\ UNCHANGED <<corpus, goals, notes, saw, writes>>

\* getGraphDataService, its last read: the active edges among the nodes.
ReadEdges(p) ==
  LET r == sheet[p]
      nodes == {r.items[i].id : i \in DOMAIN r.items}
  IN  /\ Doing(p, "edges")
      /\ Lay(p, [r EXCEPT !.pc = "done",
                   !.edges = {e \in g.ed : e.s \in nodes /\ e.t \in nodes /\ Active(g, e)}])
      /\ UNCHANGED <<corpus, goals, notes, saw, writes>>

(***************************************************************************)
(* The reflection.                                                         *)
(***************************************************************************)
Line(goal) == [goal |-> goal, whole |-> TRUE]

Scope(req) == IF req.proj = "any" THEN "global" ELSE req.proj

Kept(lines, remove) ==
  Filtered(lines, LAMBDA l : ~\E i \in DOMAIN remove : Says(l, remove[i]))

Added(lines, add) ==
  FoldLeft(LAMBDA acc, goal : IF Contains(acc, Line(goal)) THEN acc ELSE Append(acc, Line(goal)),
           lines, add)

\* tail: what the characters leave of the lines.
Tails(lines) ==
  LET n == Len(lines)
      last == SubSeq(lines, n - MaxLines + 1, n)
  IN  IF n <= MaxLines THEN {lines}
      ELSE {last, <<[lines[n - MaxLines] EXCEPT !.whole = FALSE]>> \o last}

Goals_AddsFirst(lines, req) == Tails(Kept(Added(lines, req.add), req.remove))

\* Removals before additions: a goal added in the same call is never dropped.
Goals(lines, req) == Tails(Added(Kept(lines, req.remove), req.add))

\* A row with the columns that ThoughtStore leaves out.
Labelled(row, tags, wait) ==
  [f \in DOMAIN row \cup {"tags", "wait", "derived"} |->
     CASE f = "tags" -> tags [] f = "wait" -> wait [] f = "derived" -> FALSE [] OTHER -> row[f]]

\* createThought with its tags: those of a twin are replaced, its day is not.
Noted(h, d, tags, wait, t) ==
  LET r == CreateThought(h, d, t)
  IN  IF r.why = "twin" THEN [r.g EXCEPT !.th[r.id].tags = tags]
      ELSE [r.g EXCEPT !.th[r.id] = Labelled(@, tags, wait)]

Draw(content, req, status) ==
  [content |-> content, proj |-> IF req.proj = "any" THEN DefaultProject ELSE req.proj,
   status |-> status, prot |-> TRUE, cluster |-> FALSE]

\* findActiveDecisionThoughts: those of every project.
Decisions(h) == {x \in Live(h) : "decision" \in h.th[x].tags}

\* hasDuplicateDecision.
Decided(h, content) == \E x \in Decisions(h) : Overlap(content, h.th[x].content) >= 60

Decide(h, req) ==
  FoldLeft(LAMBDA acc, c : IF Decided(acc, c) THEN acc
                           ELSE Noted(acc, Draw(c, req, "active"), {"decision", "reflect"}, FALSE, req.now),
           h, req.decisions)

Postpone(h, req) ==
  FoldLeft(LAMBDA acc, c : Noted(acc, Draw(c, req, "draft"), {"pending", "reflect"}, TRUE, req.now),
           h, req.pending)

\* The project is looked for before the transaction begins.
FindProject(p) ==
  LET r == sheet[p]
  IN  /\ Doing(p, "project")
      /\ Lay(p, [r EXCEPT !.pc = IF r.req.proj \in g.projs \cup {"any"} THEN "write" ELSE "failed"])
      /\ UNCHANGED <<corpus, goals, notes, saw, writes>>

\* A blank entry or a delay out of range is found when all before it has been
\* written, and takes it back.
Reflect(p) ==
  LET r == sheet[p]
      scope == Scope(r.req)
      new == Postpone(Decide(g, r.req), r.req)
      lines == SlotOf(goals, scope, <<>>)
  IN  /\ Doing(p, "write")
      /\ CanCreate(g, Len(r.req.decisions) + Len(r.req.pending))
      /\ IF r.req.blank
         THEN /\ Lay(p, [r EXCEPT !.pc = "failed"])
              /\ UNCHANGED <<corpus, goals, notes, saw>>
         ELSE /\ Lay(p, [r EXCEPT !.pc = "done"])
              /\ IF r.req.add = <<>> /\ r.req.remove = <<>> THEN goals' = goals
                 ELSE \E tail \in Goals(lines, r.req) : goals' = Upserted(goals, scope, tail)
              /\ notes' = IF r.req.summary
                          THEN Upserted(notes, scope, SlotOf(notes, scope, 0) + 1) ELSE notes
              /\ g' = new
              /\ See(new)
              /\ queued' = queued \cup (DOMAIN new.th \ DOMAIN g.th)
              /\ UNCHANGED <<vec, lost, primers, hits>>
      /\ UNCHANGED writes

AgendaStep(p) ==
  \/ ReadDue(p) \/ ReadOutdated(p) \/ ReadUpstream(p) \/ Rank(p)
  \/ ReadPrimers(p) \/ ReadOwn(p) \/ ReadGlobal(p)
  \/ Count(p) \/ Page(p) \/ ReadEdges(p)
  \/ FindProject(p) \/ Reflect(p)
=============================================================================
