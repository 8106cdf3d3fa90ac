------------------------------ MODULE Sessions ------------------------------
(***************************************************************************)
(* The MCP listener of a server process (mcp/http-transport.ts): the rate  *)
(* limiter in front of it, sessions opened by initialize requests, the     *)
(* requests and streams on them, the sweep of idle sessions, the event     *)
(* store a client resumes from, and stop().                                *)
(*                                                                         *)
(* Everything between two awaits is one step: the cap is counted after the *)
(* body was awaited, the session registered while handleRequest is awaited,*)
(* and looked up again when it answers.                                    *)
(*                                                                         *)
(* A session, its server/transport pair and its id are named by the        *)
(* request that opened it. A request slot is used once. What the SDK does  *)
(* inside connect and handleRequest is taken from the callbacks the        *)
(* listener passes to it.                                                  *)
(***************************************************************************)
EXTENDS Naturals, Sequences, FiniteSets, FiniteSetsExt, SequencesExt

CONSTANTS Users,
          Reqs,          \* the slots of requests, 1..n
          MaxSessions,   \* mcp.maxSessions
          SessionTTL,    \* mcp.sessionTtlMs, in ticks
          MaxKeys,       \* MAX_TRACKED_KEYS
          RateMax,       \* rateLimit.max; a client is known by its user here
          Window,        \* rateLimit.windowMs, in ticks
          MaxEvents,     \* MAX_EVENTS_PER_SESSION
          Streams,
          NoReq

ASSUME SessionsAssumption ==
  /\ IsFiniteSet(Reqs)
  /\ MaxSessions \in Nat /\ MaxEvents \in Nat /\ SessionTTL \in Nat /\ Window \in Nat
  /\ MaxKeys \in Nat \ {0}
  /\ RateMax \in Nat \ {0}    \* 0 switches the limiter off

VARIABLES sess,    \* the map of sessions, [id -> [user, last]]
          live,    \* the pairs built and not disposed
          req,     \* [Reqs -> request in its phase]
          stop,    \* "up", "waiting", "disposing", "draining"
          bucket,  \* the limiter's store; `at` is an entry's place in its order
          log,     \* [id -> events stored, [id, stream], oldest first]
          clock,
          peak,    \* [user -> most initializes that were past the cap at once]
          late,    \* sessions answered while stop() awaited its disposals
          quota,   \* [user -> requests admitted in the window it began]
          stored   \* [id -> streams of all events ever stored]

sessionVars == <<sess, live, req, stop, bucket, log, clock, peak, late,
                 quota, stored>>

Unsent == [phase |-> "unsent"]
Over == [phase |-> "over"]

\* The next slot of a request.
Slot == Min({r \in Reqs : req[r].phase = "unsent"})

Set(r, v) == [req EXCEPT ![r] = v]

Of(u) == {s \in DOMAIN sess : sess[s].user = u}

Building(u) == {r \in Reqs : req[r].phase = "building" /\ req[r].user = u}

Without(m, gone) == [s \in DOMAIN m \ gone |-> m[s]]

Streaming(r) == req[r].phase \in {"streaming", "replaying"}

\* Disposing a pair ends the streams on it.
Cut(reqs, gone) ==
  [r \in Reqs |-> IF reqs[r].phase \in {"streaming", "replaying"} /\ reqs[r].sid \in gone
                  THEN Over ELSE reqs[r]]

(***************************************************************************)
(* The rate limiter (middleware/rate-limit.ts).                            *)
(***************************************************************************)
\* The key inserted first, the place of one inserted next, and Map.set.
Oldest(b) == CHOOSE u \in DOMAIN b : \A v \in DOMAIN b : b[u].at <= b[v].at

NextAt(b) == Max({0} \cup {b[u].at : u \in DOMAIN b}) + 1

Put(b, u, e) == [v \in DOMAIN b \cup {u} |-> IF v = u THEN e ELSE b[v]]

\* As Counted, but the request that fills the quota is let through once more.
Counted_OffByOne(b, u) ==
  LET rest == Without(b, {u})
  IN  [b |-> Put(rest, u, [b[u] EXCEPT !.count = @ + 1, !.at = NextAt(rest)]),
       ok |-> b[u].count <= RateMax]

\* A key in its window: counted, and the newest from now on.
Counted(b, u) ==
  LET rest == Without(b, {u})
  IN  [b |-> Put(rest, u, [b[u] EXCEPT !.count = @ + 1, !.at = NextAt(rest)]),
       ok |-> b[u].count + 1 <= RateMax]

\* As Begun, but nothing is ever evicted.
Begun_NeverEvicts(b, u) ==
  [b |-> Put(b, u, [count |-> 1, reset |-> clock + Window,
                    at |-> IF u \in DOMAIN b THEN b[u].at ELSE NextAt(b)]),
   ok |-> TRUE]

\* A key without a window begins one; at the limit the oldest key is evicted
\* first. Map.set leaves an expired entry of the key where it is.
Begun(b, u) ==
  LET kept == IF Cardinality(DOMAIN b) >= MaxKeys THEN Without(b, {Oldest(b)}) ELSE b
  IN  [b |-> Put(kept, u, [count |-> 1, reset |-> clock + Window,
                           at |-> IF u \in DOMAIN kept THEN kept[u].at ELSE NextAt(kept)]),
       ok |-> TRUE]

InWindow(b, u) == u \in DOMAIN b /\ ~(clock > b[u].reset)

Limited(u) == IF InWindow(bucket, u) THEN Counted(bucket, u) ELSE Begun(bucket, u)

\* The quota of every user after u's request met the limiter. A window of the
\* limiter that began after it had forgotten the user ends after the user's own.
Charged(u) ==
  LET lost == DOMAIN bucket \ DOMAIN Limited(u).b
      mine == IF clock > quota[u].reset \/ quota[u].count = 0
              THEN [count |-> 1, reset |-> clock + Window,
                    forgotten |-> quota[u].forgotten /\ InWindow(bucket, u)]
              ELSE [quota[u] EXCEPT !.count = @ + 1]
      charged == IF Limited(u).ok THEN [quota EXCEPT ![u] = mine] ELSE quota
  IN  [v \in Users |-> IF v \in lost THEN [charged[v] EXCEPT !.forgotten = TRUE]
                       ELSE charged[v]]

CleanUp ==
  LET old == {u \in DOMAIN bucket : clock > bucket[u].reset} IN
  /\ old # {}
  /\ bucket' = Without(bucket, old)
  /\ UNCHANGED <<sess, live, req, stop, log, clock, peak, late, quota, stored>>

(***************************************************************************)
(* Requests.                                                               *)
(***************************************************************************)
Listening == stop # "draining"

\* A request up to its first await. s is the session id it names, or NoReq.
Arrive(r, u, s, kind) ==
  /\ Listening /\ req[r].phase = "unsent"
  /\ bucket' = Limited(u).b
  /\ quota' = Charged(u)
  /\ LET mine == s \in DOMAIN sess /\ sess[s].user = u IN
     IF ~Limited(u).ok THEN req' = Set(r, Over) /\ sess' = sess
     ELSE IF s = NoReq
     THEN req' = Set(r, [phase |-> "probing", user |-> u]) /\ sess' = sess
     ELSE IF mine
     THEN /\ sess' = [sess EXCEPT ![s].last = clock]
          /\ req' = Set(r, [phase |-> "following", user |-> u, sid |-> s, kind |-> kind])
     ELSE req' = Set(r, Over) /\ sess' = sess
  /\ UNCHANGED <<live, stop, log, clock, peak, late, stored>>

\* probeInitializeRequest: of a batch one message is enough; a body that cannot
\* be read, or was not posted, has none.
Initializes(methods) == "initialize" \in methods

\* The body is there: only an initialize opens a session, and only under the cap.
Probe(r, methods) ==
  /\ req[r].phase = "probing"
  /\ LET u == req[r].user
         full == Cardinality(Of(u)) >= MaxSessions
     IN  IF ~Initializes(methods) \/ full
         THEN req' = Set(r, Over) /\ UNCHANGED <<live, peak>>
         ELSE /\ req' = Set(r, [phase |-> "building", user |-> u])
              /\ live' = live \cup {r}
              /\ peak' = [peak EXCEPT ![u] = LET n == Cardinality(Building(u)) + 1
                                             IN  IF n > @ THEN n ELSE @]
  /\ UNCHANGED <<sess, stop, bucket, log, clock, late, quota, stored>>

\* onsessioninitialized, called while handleRequest is awaited.
Register(r) ==
  /\ req[r].phase = "building"
  /\ sess' = [s \in DOMAIN sess \cup {r} |->
                IF s = r THEN [user |-> req[r].user, last |-> clock] ELSE sess[s]]
  /\ req' = Set(r, [req[r] EXCEPT !.phase = "registered"])
  /\ UNCHANGED <<live, stop, bucket, log, clock, peak, late, quota, stored>>

\* connect or handleRequest threw, or registered nothing.
BuildFails(r) ==
  /\ req[r].phase = "building"
  /\ live' = live \ {r}
  /\ req' = Set(r, Over)
  /\ UNCHANGED <<sess, stop, bucket, log, clock, peak, late, quota, stored>>

Late(r) == IF stop = "disposing" THEN late \cup {r} ELSE late

\* As Answer, but the session is not looked up again.
Answer_Blindly(r) ==
  /\ req[r].phase = "registered"
  /\ req' = Set(r, Over)
  /\ late' = Late(r)
  /\ UNCHANGED <<sess, live, stop, bucket, log, clock, peak, quota, stored>>

\* handleRequest answered: a pair whose session is gone by now is disposed.
Answer(r) ==
  /\ req[r].phase = "registered"
  /\ req' = Set(r, Over)
  /\ live' = IF r \in DOMAIN sess THEN live ELSE live \ {r}
  /\ late' = Late(r)
  /\ UNCHANGED <<sess, stop, bucket, log, clock, peak, quota, stored>>

Following(r, kind) == req[r].phase = "following" /\ req[r].kind = kind

\* A GET or POST whose answer is a stream, while the pair lives.
OpenStream(r, x) ==
  /\ Following(r, "stream")
  /\ req' = Set(r, IF req[r].sid \in live
                   THEN [phase |-> "streaming", user |-> req[r].user, sid |-> req[r].sid,
                         stream |-> x]
                   ELSE Over)
  /\ UNCHANGED <<sess, live, stop, bucket, log, clock, peak, late, quota, stored>>

\* DELETE: onsessionclosed, and the transport closes.
CloseSession(r) ==
  /\ Following(r, "delete")
  /\ LET s == req[r].sid IN
     /\ sess' = Without(sess, {s})
     /\ live' = live \ {s}
     /\ req' = Cut(Set(r, Over), {s})
  /\ UNCHANGED <<stop, bucket, log, clock, peak, late, quota, stored>>

\* The client leaves, or the answer is complete.
EndStream(r) ==
  /\ Streaming(r)
  /\ req' = Set(r, Over)
  /\ UNCHANGED <<sess, live, stop, bucket, log, clock, peak, late, quota, stored>>

(***************************************************************************)
(* Events (mcp/in-memory-event-store.ts).                                  *)
(***************************************************************************)
LastOf(seq, n) == IF Len(seq) > n THEN SubSeq(seq, Len(seq) - n + 1, Len(seq)) ELSE seq

\* storeEvent for an event on stream x of session s, and the event sent: a
\* chunk on the stream keeps the session fresh.
Emit(s, x) ==
  /\ s \in live /\ s \in DOMAIN sess
  /\ LET id == Len(stored[s]) + 1
         all == Append(log[s], [id |-> id, stream |-> x])
         cut == {e \in ToSet(all) : e \notin ToSet(LastOf(all, MaxEvents))}
         open == \E r \in Reqs : req[r].phase = "streaming" /\ req[r].sid = s
                                                            /\ req[r].stream = x
     IN  /\ stored' = [stored EXCEPT ![s] = Append(@, x)]
         /\ log' = [log EXCEPT ![s] = LastOf(all, MaxEvents)]
         /\ sess' = IF open THEN [sess EXCEPT ![s].last = clock] ELSE sess
         /\ req' = [r \in Reqs |->
              IF req[r].phase = "replaying" /\ req[r].sid = s
              THEN [req[r] EXCEPT !.lost = @ \cup {e.id : e \in
                      {f \in cut : f.id > req[r].pos /\ f.stream = req[r].stream}}]
              ELSE req[r]]
  /\ UNCHANGED <<live, stop, bucket, clock, peak, late, quota>>

\* replayEventsAfter up to its first send. An anchor that is not stored any
\* more ends it; which of these were evicted is remembered for a warning only.
Resume(r, anchor) ==
  /\ Following(r, "resume")
  /\ LET s == req[r].sid
         found == {e \in ToSet(log[s]) : e.id = anchor}
     IN  req' = Set(r, IF s \notin live \/ found = {} THEN Over
                       ELSE [phase |-> "replaying", user |-> req[r].user, sid |-> s,
                             stream |-> (CHOOSE e \in found : TRUE).stream,
                             from |-> anchor, pos |-> anchor, out |-> <<>>,
                             lost |-> {}])
  /\ UNCHANGED <<sess, live, stop, bucket, log, clock, peak, late, quota, stored>>

\* As Ahead, but of every stream.
Ahead_AnyStream(q) == {e \in ToSet(log[q.sid]) : e.id > q.pos}

\* What the iteration over the map has still before it.
Ahead(q) == {e \in ToSet(log[q.sid]) : e.id > q.pos /\ e.stream = q.stream}

\* One send awaited; when none is left, the stream goes on live.
ReplayStep(r) ==
  /\ req[r].phase = "replaying"
  /\ LET q == req[r] IN
     \/ /\ Ahead(q) = {}
        /\ req' = Set(r, [phase |-> "streaming", user |-> q.user, sid |-> q.sid,
                          stream |-> q.stream])
        /\ sess' = sess
     \/ \E next \in Ahead(q) :
          /\ \A e \in Ahead(q) : next.id <= e.id
          /\ req' = Set(r, [q EXCEPT !.pos = next.id, !.out = Append(@, next.id)])
          /\ sess' = IF q.sid \in DOMAIN sess
                     THEN [sess EXCEPT ![q.sid].last = clock] ELSE sess
  /\ UNCHANGED <<live, stop, bucket, log, clock, peak, late, quota, stored>>

(***************************************************************************)
(* The sweep, stop() and time.                                             *)
(***************************************************************************)
Idle(s) == clock - sess[s].last > SessionTTL

Sweep ==
  LET gone == {s \in DOMAIN sess : Idle(s)} IN
  /\ stop \in {"up", "waiting"} /\ gone # {}
  /\ sess' = Without(sess, gone)
  /\ live' = live \ gone
  /\ req' = Cut(req, gone)
  /\ UNCHANGED <<stop, bucket, log, clock, peak, late, quota, stored>>

\* A signal: background jobs stop and the embedder's end is awaited.
Shutdown ==
  /\ stop = "up"
  /\ stop' = "waiting"
  /\ UNCHANGED <<sess, live, req, bucket, log, clock, peak, late, quota, stored>>

\* As Dispose, but only the map will be cleared.
Dispose_Nothing ==
  /\ stop = "waiting"
  /\ stop' = "disposing"
  /\ UNCHANGED <<sess, live, req, bucket, log, clock, peak, late, quota, stored>>

\* stop(): the sweep ends, the sessions there are disposed, and that awaited.
Dispose ==
  /\ stop = "waiting"
  /\ stop' = "disposing"
  /\ live' = live \ DOMAIN sess
  /\ req' = Cut(req, DOMAIN sess)
  /\ UNCHANGED <<sess, bucket, log, clock, peak, late, quota, stored>>

\* The map is cleared and the listener stopped: no request arrives any more.
Clear ==
  /\ stop = "disposing"
  /\ stop' = "draining"
  /\ sess' = <<>>
  /\ UNCHANGED <<live, req, bucket, log, clock, peak, late, quota, stored>>

InFlight == {r \in Reqs : req[r].phase \notin {"unsent", "over"}}

SessionTick ==
  /\ clock' = clock + 1
  /\ UNCHANGED <<sess, live, req, stop, bucket, log, peak, late, quota, stored>>

SessionsInit ==
  /\ sess = <<>> /\ live = {}
  /\ req = [r \in Reqs |-> Unsent]
  /\ stop = "up"
  /\ bucket = <<>>
  /\ log = [r \in Reqs |-> <<>>]
  /\ clock = 0
  /\ peak = [u \in Users |-> 0]
  /\ late = {}
  /\ quota = [u \in Users |-> [count |-> 0, reset |-> 0, forgotten |-> FALSE]]
  /\ stored = [r \in Reqs |-> <<>>]
(***************************************************************************)
(* Properties.                                                             *)
(***************************************************************************)
Requests ==
  [phase : {"unsent", "over"}]
    \cup [phase : {"probing", "building", "registered"}, user : Users]
    \cup [phase : {"following"}, user : Users, sid : Reqs,
          kind : {"stream", "delete", "resume"}]
    \cup [phase : {"streaming"}, user : Users, sid : Reqs, stream : Streams]
    \cup [phase : {"replaying"}, user : Users, sid : Reqs, stream : Streams, from : Nat,
          pos : Nat, out : Seq(Nat), lost : SUBSET Nat]

\* The sessions, requests and events have the shapes the actions rely on.
RequestsTypeOK ==
  /\ sess \in [DOMAIN sess -> [user : Users, last : Nat]] /\ DOMAIN sess \subseteq Reqs
  /\ live \subseteq Reqs /\ late \subseteq Reqs
  /\ req \in [Reqs -> Requests]
  /\ stop \in {"up", "waiting", "disposing", "draining"}
  /\ log \in [Reqs -> Seq([id : Nat, stream : Streams])]
  /\ stored \in [Reqs -> Seq(Streams)]
  /\ clock \in Nat /\ peak \in [Users -> Nat]

\* The limiter's and the event store's maps stay within their bounds.
SessionsTypeOK ==
  /\ RequestsTypeOK
  /\ \A s \in DOMAIN sess : sess[s].last <= clock
  /\ Cardinality(DOMAIN bucket) <= MaxKeys
  /\ \A s \in Reqs : Len(log[s]) <= MaxEvents

\* A user has more sessions than the cap only by as many initializes as were
\* past the check, and not registered, at one time.
SessionsCapped ==
  \A u \in Users : Cardinality(Of(u)) <= MaxSessions + (IF peak[u] > 1 THEN peak[u] - 1 ELSE 0)

\* No client gets more than its quota of requests in a window it began, unless
\* the limiter had to forget it for a newer one.
RateHeld == \A u \in Users : quota[u].count <= RateMax \/ quota[u].forgotten

\* The limits hold up to the windows the code leaves.
QuotasHeld == SessionsTypeOK /\ SessionsCapped /\ RateHeld

\* When stop() has disposed the sessions it saw, a pair stays alive without a
\* request on it only if it was answered while stop() awaited the others, or
\* registered in the map that had just been cleared.
LeakedOnlyIfLate ==
  stop \in {"disposing", "draining"} =>
    \A s \in live : \/ req[s].phase \in {"building", "registered"}
                   \/ s \in late
                   \/ (stop = "draining" /\ s \in DOMAIN sess)

\* A replay has sent, in order and once, every event of its stream after the
\* anchor up to where it is, except those evicted before it came to them.
ReplayComplete ==
  \A r \in Reqs :
    req[r].phase = "replaying" =>
      LET q == req[r]
          due == {id \in DOMAIN stored[q.sid] :
                    id > q.from /\ id <= q.pos /\ stored[q.sid][id] = q.stream}
      IN  /\ ToSet(q.out) = due \ q.lost
          /\ \A i, j \in DOMAIN q.out : i < j => q.out[i] < q.out[j]
=============================================================================
