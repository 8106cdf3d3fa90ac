----------------------------- MODULE MCCuration -----------------------------
EXTENDS Curation, TLC

CONSTANTS P1, P2, K1, K2

MCNewIds == <<"n1", "n2">>

Row(content, status, prot, cluster, imp) ==
  [content |-> content, proj |-> "p2", hash |-> <<content, "p2">>, status |-> status,
   prot |-> prot, cluster |-> cluster, imp |-> imp, hit |-> FALSE, pinned |-> FALSE,
   born |-> 1, gone |-> IF status = "archived" THEN 1 ELSE 0, stamp |-> 1]

E(s, t, type) == [s |-> s, t |-> t, type |-> type, ver |-> 0]

Graph(edges) ==
  [th |-> ("a" :> Row("x", "active", TRUE, FALSE, 2))
            @@ ("b" :> Row("y", "draft", FALSE, FALSE, 0))
            @@ ("c" :> Row("x", "archived", FALSE, FALSE, 0))
            @@ ("k" :> Row("title", "active", FALSE, TRUE, 2)),
   ed |-> edges, projs |-> {"def", "p2"}, made |-> 0, ver |-> 0]

\* One graph where the cluster holds a, b hangs on a and c on b; one where the
\* cluster is empty, and b and c are free to be reviewed.
MCInitStores ==
  { Graph({E("k", "a", "cluster"), E("a", "b", "parent"), E("c", "b", "related")}),
    Graph({E("c", "b", "contradicts")}) }

New(content, proj, status) ==
  [content |-> content, proj |-> proj, status |-> status, prot |-> TRUE, cluster |-> FALSE]

\* Under an archived parent, as a duplicate of a in its project, and as one of
\* a in another project.
MCCreations ==
  { [d |-> New("w", "p2", "draft"), parent |-> "c", relation |-> "parent"],
    [d |-> New("x", "p2", "draft"), parent |-> "b", relation |-> "develops"],
    [d |-> New("x", "def", "active"), parent |-> "none", relation |-> "none"] }

\* In a project that never was, under the cluster (refused), and as a duplicate
\* of a.
MCBulkItems ==
  { [d |-> New("w", "un", "active"), parent |-> "a", relation |-> "supports"],
    [d |-> New("w", "p2", "draft"), parent |-> "k", relation |-> "parent"],
    [d |-> New("x", "p2", "active"), parent |-> "none", relation |-> "none"] }

MCUpdates ==
  { [content |-> "z"], [proj |-> "def"], [status |-> "active"], [prot |-> TRUE] }

MCLinks ==
  { [s |-> "a", t |-> "c", type |-> "supports"], [s |-> "k", t |-> "c", type |-> "cluster"],
    [s |-> "a", t |-> "b", type |-> "contradicts"] }

Call(kind, ids, arg, proj) == [kind |-> kind, ids |-> ids, arg |-> arg, proj |-> proj]

MCRequests ==
  { Call("archive", <<"a">>, "none", "none"),
    Call("archive_batch", <<"b", "c">>, "none", "none"),
    Call("merge", <<"a", "b">>, "none", "none"),
    Call("merge", <<"b", "a">>, "z", "def"),
    Call("retention_delete", <<"b">>, "none", "none"),
    Call("manage_delete", <<>>, "p2", "none"),
    Call("auto_cluster", <<>>, "none", "none"),
    Call("health_repair", <<>>, "none", "none"),
    Call("cluster", <<"a", "b">>, "title", "none"),
    Call("compact", <<"b", "c">>, "z", "un") }

MCNear == {{"a", "b"}}

Symmetry == Permutations(Processes) \cup Permutations(TokenIds)
=============================================================================
