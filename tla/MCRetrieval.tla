---------------------------- MODULE MCRetrieval -----------------------------
EXTENDS Retrieval, TLC

CONSTANTS P1, P2

MCIdOrder == <<"(draft)", "a", "b", "c", "d", "k", "l">>

\* Contents are named for what they say: x and y make the same claim, nx denies
\* it, ex is a later version of it and w is about something else.
Close == {{"q", "x"}, {"q", "y"}, {"q", "ex"}, {"x", "y"}, {"x", "nx"}, {"x", "ex"},
          {"y", "nx"}, {"y", "ex"}, {"nx", "ex"}}

MCSimilarity(c, d) == IF c = d THEN 100 ELSE IF {c, d} \in Close THEN 80
                      ELSE IF "w" \in {c, d} THEN 20 ELSE 50

MCMatch(q, c) == CASE c = "x" -> 2 [] c \in {"y", "w"} -> 1 [] OTHER -> 0

MCOverlap(c, d) == IF c = d THEN 100 ELSE IF {c, d} \subseteq {"x", "ex", "nx"} THEN 60
                   ELSE IF {c, d} \subseteq {"x", "y"} THEN 40 ELSE 0

MCCues(c) == CASE c = "nx" -> {"negation"} [] c = "ex" -> {"evolution"} [] c = "w" -> {"dependency"}
               [] OTHER -> {}

Row(content, born) ==
  [content |-> content, proj |-> "p", hash |-> <<content, "p">>, status |-> "active",
   prot |-> FALSE, cluster |-> content = "title", imp |-> 1, hit |-> FALSE, pinned |-> FALSE,
   born |-> born, gone |-> 0, stamp |-> 1, wait |-> FALSE, derived |-> FALSE,
   tags |-> IF content = "title" THEN {"t"} ELSE {}]

E(s, t, type, ver) == [s |-> s, t |-> t, type |-> type, ver |-> ver]

Graph(th, edges) == [th |-> th, ed |-> edges, projs |-> {"p"}, made |-> Len(MCIdOrder), ver |-> 9]

Vectors(th) == [x \in DOMAIN th |-> th[x].content]

\* Nothing queued, no primers: what a scenario says otherwise overrides.
Scenario(th, edges, n, asks, plans) ==
  [g |-> Graph(th, edges), vec |-> Vectors(th), queued |-> {}, lost |-> {}, primers |-> <<>>,
   hits |-> [x \in ToSet(MCIdOrder) |-> 0], writes |-> n, asks |-> asks, plans |-> plans,
   goals |-> <<>>, sheets |-> <<>>]

Two == ("a" :> Row("x", 1)) @@ ("b" :> Row("w", 2))
Three == Two @@ ("c" :> Row("y", 3))
Homed == ("a" :> Row("ex", 5)) @@ ("b" :> Row("x", 1)) @@ ("c" :> Row("y", 2))
           @@ ("k" :> Row("title", 1)) @@ ("l" :> Row("title", 1))
Members == {E("k", "b", "cluster", 1), E("l", "c", "cluster", 2)}

Query(kind, topK) == Request(kind, "q", topK)

ById(query) == Request("search", query, 1)

Plan(id, content) == [id |-> id, content |-> content, proj |-> "p", now |-> 9]

Searches ==
  { \* the best match is superseded, the next one near only in words
    Scenario(Two, {E("b", "a", "replaces", 1)}, 3, P1 :> Query("search", 1), <<>>),
    \* the best match is contested; a hit away from being a primer
    [Scenario(Three, {E("a", "b", "contradicts", 1)}, 2, P1 :> Query("search", 2), <<>>)
       EXCEPT !.primers = <<"c">>, !.hits["a"] = 1],
    \* what contests the best match may come to replace it
    Scenario(Three, {E("c", "a", "contradicts", 1)}, 2,
             P1 :> [Query("search", 2) EXCEPT !.supersession = "flag"], <<>>),
    \* two searches promote one thought
    [Scenario(Two, {}, 1, (P1 :> Query("search", 1)) @@ (P2 :> Query("search", 2)), <<>>)
       EXCEPT !.hits["a"] = 1],
    \* as it stands in clusters, and without the words
    [Scenario(Homed, Members \cup {E("k", "c", "cluster", 3)}, 2,
              P1 :> [Query("search", 2) EXCEPT !.group = TRUE, !.hybrid = FALSE], <<>>)
       EXCEPT !.vec = [x \in {"b", "c", "k"} |-> Homed[x].content]],
    \* a cluster that has the tag asked for, and one that has not
    Scenario([Homed EXCEPT !["k"].tags = {}], Members, 2,
             P1 :> [Query("clusters", 2) EXCEPT !.tagged = TRUE], <<>>),
    Scenario(Three, {E("a", "b", "contradicts", 1), E("c", "a", "related", 2)}, 2,
             P1 :> Query("context", 5), <<>>),
    \* by id and by prefix
    Scenario(Two, {E("b", "a", "replaces", 1)}, 2, P1 :> ById("id-a"), <<>>),
    Scenario(Three, {E("b", "a", "replaces", 1)}, 2,
             P1 :> [ById("ab") EXCEPT !.topK = 2, !.proj = "p"], <<>>),
    Scenario(Two, {}, 2, P1 :> ById("ab"), <<>>),
    \* what is superseded or contested, taken as it comes
    Scenario(Three, {E("b", "a", "replaces", 1), E("a", "c", "contradicts", 2)}, 1,
             P1 :> [Query("search", 3) EXCEPT !.supersession = "off", !.contradiction = "off"], <<>>),
    \* an id nothing has, and digits that are no id
    Scenario(Two, {}, 1, P1 :> [ById("id-z") EXCEPT !.status = "draft"], <<>>),
    Scenario(Two, {}, 1, P1 :> ById("2025"), <<>>) }

Plans ==
  { \* a vector out of date, a later version of another thought
    [Scenario(("a" :> Row("ex", 5)) @@ ("b" :> Row("x", 1)), {}, 3, <<>>, P1 :> Plan("a", "none"))
       EXCEPT !.vec["b"] = "w", !.queued = {"b"}],
    \* neighbours in two clusters, in one, and in a parent chain
    Scenario(Homed, Members, 2, <<>>, P1 :> Plan("a", "none")),
    Scenario(Homed, {E("k", "b", "cluster", 1)}, 2, <<>>, P1 :> Plan("none", "x")),
    Scenario(Homed, {E("k", "b", "cluster", 1), E("k", "c", "cluster", 2)}, 2, <<>>,
             P1 :> Plan("none", "x")),
    Scenario(Three, {E("c", "b", "parent", 1)}, 2, <<>>, P1 :> Plan("a", "none")),
    Scenario(Homed, Members, 0, <<>>, P1 :> Plan("k", "none")) }

\* The scenarios of the agendas: drafts to review, things to do, sessions that end.
Task(content, born, tag) == [Row(content, born) EXCEPT !.tags = {tag}]

Tasks == ("a" :> Task("x", 1, "todo")) @@ ("b" :> Task("w", 2, "pending"))
           @@ ("c" :> [Task("y", 3, "todo") EXCEPT !.imp = 2])

Old == [x \in {"a", "b", "c"} |-> [Row(x, IF x = "a" THEN 1 ELSE 2) EXCEPT !.imp = 0, !.status = "draft"]]

\* The items of a slot: two that are due, and a profile summary.
Items == ("a" :> Task("x", 1, "pending")) @@ ("b" :> Task("w", 2, "pending"))
           @@ ("c" :> [Task("y", 3, "pending") EXCEPT !.derived = TRUE])

Call(kind, limit) == [kind |-> kind, proj |-> "any", limit |-> limit, status |-> "all", now |-> 9]

Slot(proj, limit, offset) ==
  [kind |-> "slots", proj |-> proj, limit |-> limit, offset |-> offset]

Session(proj, add, remove, decisions, pending) ==
  [kind |-> "reflect", proj |-> proj, now |-> 9, add |-> add, remove |-> remove,
   decisions |-> decisions, pending |-> pending, summary |-> TRUE, blank |-> FALSE]

Reads(th, edges, n, call) ==
  [Scenario(th, edges, n, <<>>, <<>>) EXCEPT !.sheets = P1 :> call]

Agendas ==
  { Reads(Tasks, {E("a", "b", "depends_on", 1)}, 2, Call("frontier", 2)),
    Reads([Tasks EXCEPT !["c"].imp = 1, !["c"].wait = TRUE],
          {E("a", "c", "depends_on", 1), E("b", "a", "replaces", 2)}, 2, Call("frontier", 3)),
    \* all of a slot, then a page of it
    [Reads(Tasks, {E("a", "b", "replaces", 1)}, 2, Slot("p", 9, 0))
       EXCEPT !.primers = <<"b", "c">>, !.goals = "global" :> <<Line("g1")>>,
              !.sheets = @ @@ (P2 :> Session("p", <<"g2">>, <<>>, <<>>, <<>>))],
    Reads(Items, {E("a", "b", "related", 1)}, 2, Slot("any", 2, 1)),
    Reads(Old, {}, 2, Call("review", 1)),
    Reads([Old EXCEPT !["b"].born = 3], {E("a", "c", "related", 1)}, 2, Call("list", 1)),
    [Reads(Two, {E("a", "b", "related", 1)}, 1, Call("graph", 2))
       EXCEPT !.sheets = @ @@ (P2 :> Session("gone", <<"g1">>, <<>>, <<>>, <<>>))],
    [Scenario(Two, {}, 1, <<>>, <<>>)
       EXCEPT !.g.made = 3, !.g.projs = {"p", "def"}, !.goals = "p" :> <<Line("g1"), Line("g2")>>,
              !.sheets = (P1 :> Session("p", <<"g1", "g3">>, <<"g1">>, <<"x", "ex">>, <<"w">>))
                           @@ (P2 :> Session("p", <<"g2", "g4">>, <<>>, <<"ex">>, <<>>))],
    [Scenario(Two, {}, 1, <<>>, <<>>)
       EXCEPT !.g.made = 3, !.g.th["a"].tags = {"decision"},
              !.sheets = (P1 :> [Session("any", <<>>, <<>>, <<"ex">>, <<"y">>) EXCEPT !.blank = TRUE])
                           @@ (P2 :> [Session("any", <<>>, <<>>, <<>>, <<"y">>) EXCEPT !.summary = FALSE])] }

MCScenarios == Searches \cup Plans \cup Agendas

MCSays(line, text) == line.whole /\ line.goal = text

MCNamed == ("id-a" :> [hex |-> 32, ids |-> {"a"}]) @@ ("ab" :> [hex |-> 13, ids |-> {"a", "b"}])
             @@ ("id-z" :> [hex |-> 32, ids |-> {}]) @@ ("2025" :> [hex |-> 8, ids |-> {"a", "b"}])

MCEdits == {[content |-> "nx"], [status |-> "archived"], [tags |-> {"t", "todo"}]}

MCNewLinks == {[s |-> "c", t |-> "a", type |-> "replaces"], [s |-> "a", t |-> "b", type |-> "related"]}

MCNewTypes == {"replaces"}

MCDeletable == {"a", "b", "k"}
=============================================================================
