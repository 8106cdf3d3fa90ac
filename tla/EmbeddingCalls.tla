--------------------------- MODULE EmbeddingCalls ---------------------------
(***************************************************************************)
(* What the embedder promises its callers, whatever happens to the process *)
(* that computes the vectors: a call gets the vectors of all its texts,    *)
(* chunk after chunk, or one error; it gets exactly one of the two, and it *)
(* gets it in the end.                                                     *)
(***************************************************************************)
EXTENDS Integers

CONSTANTS
  Call,     \* calls of generateEmbedding(s)
  Chunks    \* requests a call is split into, at least one

VARIABLES
  answer,   \* what a call has been told
  got       \* the vectors it has, in chunks

vars == <<answer, got>>

TypeOK ==
  /\ answer \in [Call -> {"none", "asked", "vectors", "error"}]
  /\ got \in [Call -> 0 .. Chunks]

Init ==
  /\ answer = [c \in Call |-> "none"]
  /\ got = [c \in Call |-> 0]

\* A call may be refused on the spot.
Ask(c) ==
  /\ answer[c] = "none"
  /\ \E a \in {"asked", "error"} : answer' = [answer EXCEPT ![c] = a]
  /\ UNCHANGED got

Receive(c) ==
  /\ answer[c] = "asked" /\ got[c] < Chunks
  /\ got' = [got EXCEPT ![c] = @ + 1]
  /\ answer' = [answer EXCEPT ![c] = IF got[c] + 1 = Chunks THEN "vectors" ELSE @]

\* A failure of the process is told to everybody who waits for it.
Fail(S) ==
  /\ \A c \in S : answer[c] = "asked"
  /\ answer' = [c \in Call |-> IF c \in S THEN "error" ELSE answer[c]]
  /\ UNCHANGED got

Next ==
  \/ \E c \in Call : Ask(c) \/ Receive(c)
  \/ \E S \in SUBSET Call : Fail(S)

Spec == Init /\ [][Next]_vars

\* Whoever asks is told something in the end.
Answered == \A c \in Call : answer[c] = "asked" ~> answer[c] # "asked"
=============================================================================
