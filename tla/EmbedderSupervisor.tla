-------------------------- MODULE EmbedderSupervisor --------------------------
(***************************************************************************)
(* How a server of SynaptoMind keeps an embedder child process and talks   *)
(* to it.                                                                  *)
(*                                                                         *)
(* The server spawns the child on demand, waits until it reports ready,    *)
(* sends it requests and matches the replies.  The child may hang, crash,  *)
(* unload itself when idle, or be told to stop; after a loss the next      *)
(* caller has it replaced.  Every child is known by its generation, and    *)
(* whatever an earlier generation still says is ignored.                   *)
(*                                                                         *)
(* The server is one event loop: an event -- a message, an exit, a timer,  *)
(* a call -- is handled to the end, with every continuation it makes       *)
(* runnable, before the next one.  A step here is one synchronous stretch  *)
(* of code; "Busy" says that a continuation is still to run, and no event  *)
(* is taken before.  The children are other processes and act any time.    *)
(***************************************************************************)
EXTENDS Integers, Sequences, FiniteSets

CONSTANTS
  Call,         \* calls of generateEmbedding(s)
  Chunks,       \* requests each call is split into
  MaxPending,   \* MAX_PENDING
  OrderedExit,  \* the runtime reports an exit after the child's last message
  MaxLosses,    \* bound: crashes and idle exits in all
  MaxGen        \* bound: generations

ASSUME BoundsAssumption ==
  /\ Chunks \in Nat \ {0} /\ MaxPending \in Nat \ {0}
  /\ MaxLosses \in Nat /\ MaxGen \in Nat
ASSUME OrderAssumption == OrderedExit \in BOOLEAN

VARIABLES
  child,    \* the children by generation, with their pipe to the server
  sup,      \* the supervisor's fields
  run,      \* runEnsureReady, single-flight: where it awaits, and what it owns
  stop,     \* teardownProcess likewise
  call,     \* the callers
  losses    \* children lost so far

vars == <<child, sup, run, stop, call, losses>>

Generation == 1 .. MaxGen
NoProc     == 0

Request == Call \X (1 .. Chunks)
Message == {[type |-> "ready"], [type |-> "exiting"]}
             \cup [type: {"result", "error"}, id: Request]

\* `told`: killed or asked to shut down; `seen`: its exit has been reported.
ChildRec == [state: {"unborn", "loading", "up", "leaving", "gone"}, told: BOOLEAN,
             asked: SUBSET Request, wire: Seq(Message), seen: BOOLEAN]
Unborn   == [state |-> "unborn", told |-> FALSE, asked |-> {}, wire |-> <<>>,
             seen |-> FALSE]

\* `promise` is readyPromise; `cooling` stands for cooldownUntil > now.
SupRec == [proc: 0 .. MaxGen, gen: 0 .. MaxGen, ready: BOOLEAN, dead: BOOLEAN,
           stopping: BOOLEAN, failed: BOOLEAN, cooling: BOOLEAN,
           promise: {"none", "pending", "kept", "broken"}]

Killing == {"respawning", "failing", "ending"}
RunRec  == [pc: {"idle", "waiting", "cooling", "pausing"} \cup Killing,
            proc: 0 .. MaxGen, gen: 0 .. MaxGen, late: BOOLEAN]
NoRun   == [pc |-> "idle", proc |-> NoProc, gen |-> 0, late |-> FALSE]

StopRec == [pc: {"no", "asked", "killing", "settling", "done"},
            proc: 0 .. MaxGen, gen: 0 .. MaxGen, run: BOOLEAN]

\* `got`: chunks received; `at`: the entry in the map of pending requests -- the
\* child its request was written to, NoProc when it has none.
CallRec == [state: {"idle", "waiting", "sending", "sent", "done", "failed"},
            got: 0 .. Chunks, at: 0 .. MaxGen]

TypeOK ==
  /\ child \in [Generation -> ChildRec]
  /\ sup \in SupRec /\ run \in RunRec /\ stop \in StopRec
  /\ call \in [Call -> CallRec]
  /\ losses \in 0 .. MaxLosses

Init ==
  /\ child = [g \in Generation |-> Unborn]
  /\ sup = [proc |-> NoProc, gen |-> 0, ready |-> FALSE, dead |-> FALSE,
            stopping |-> FALSE, failed |-> FALSE, cooling |-> FALSE,
            promise |-> "none"]
  /\ run = NoRun
  /\ stop = [pc |-> "no", proc |-> NoProc, gen |-> 0, run |-> FALSE]
  /\ call = [r \in Call |-> [state |-> "idle", got |-> 0, at |-> NoProc]]
  /\ losses = 0

\* Somebody's continuation is runnable.
Busy ==
  \/ \E r \in Call : call[r].state = "sending"
  \/ run.pc = "waiting" /\ sup.promise # "pending"
  \/ run.pc \in Killing /\ child[run.proc].seen
  \/ stop.pc \in {"asked", "killing"} /\ child[stop.proc].seen
  \/ stop.pc = "settling" /\ ~(stop.run /\ run.pc # "idle")

-----------------------------------------------------------------------------
(* The children.                                                           *)

ChildReady(c) ==
  /\ child[c].state = "loading"
  /\ child' = [child EXCEPT ![c].state = "up",
                            ![c].wire = Append(@, [type |-> "ready"])]
  /\ UNCHANGED <<sup, run, stop, call, losses>>

ChildReplies(c, id, type) ==
  /\ child[c].state = "up" /\ id \in child[c].asked
  /\ child' = [child EXCEPT ![c].asked = @ \ {id},
                            ![c].wire = Append(@, [type |-> type, id |-> id])]
  /\ UNCHANGED <<sup, run, stop, call, losses>>

\* The idle timer does not ask whether a request is being worked on.
ChildIdles(c) ==
  /\ child[c].state = "up" /\ losses < MaxLosses
  /\ child' = [child EXCEPT ![c].state = "leaving",
                            ![c].wire = Append(@, [type |-> "exiting"])]
  /\ losses' = losses + 1
  /\ UNCHANGED <<sup, run, stop, call>>

ChildCrashes(c) ==
  /\ child[c].state \in {"loading", "up"} /\ losses < MaxLosses
  /\ child' = [child EXCEPT ![c].state = "gone"]
  /\ losses' = losses + 1
  /\ UNCHANGED <<sup, run, stop, call>>

ChildStops(c) ==
  /\ child[c].state \in {"loading", "up", "leaving"}
  /\ child[c].told \/ child[c].state = "leaving"
  /\ child' = [child EXCEPT ![c].state = "gone"]
  /\ UNCHANGED <<sup, run, stop, call, losses>>

-----------------------------------------------------------------------------
(* Callers.                                                                *)

\* Mutant: a request that is settled stays in the map.
Settled_Kept(cr, st) == [cr EXCEPT !.state = st]

Settled(cr, st) == [cr EXCEPT !.state = st, !.at = NoProc]

RejectAllPending(cs) ==
  [r \in Call |-> IF cs[r].at # NoProc THEN Settled(cs[r], "failed") ELSE cs[r]]

\* Everybody who awaits the run goes on.
Resume(cs, ok) ==
  [r \in Call |-> IF cs[r].state # "waiting" THEN cs[r]
                  ELSE IF ok THEN [cs[r] EXCEPT !.state = "sending"]
                  ELSE Settled(cs[r], "failed")]

\* The map of pending requests.
Pending == {r \in Call : call[r].at # NoProc}

\* sendRequest.  The pipe of a child that is gone may refuse the message, and
\* then the child counts as dead before its exit is reported.
Send(r) ==
  LET id == <<r, call[r].got + 1>>
      refused == \/ Cardinality(Pending) >= MaxPending
                 \/ sup.proc = NoProc \/ sup.dead
  IN  /\ call[r].state = "sending"
      /\ \/ /\ refused
            /\ call' = [call EXCEPT ![r] = Settled(@, "failed")]
            /\ UNCHANGED <<child, sup>>
         \/ /\ ~refused
            /\ call' = [call EXCEPT ![r].state = "sent", ![r].at = sup.proc]
            /\ child' = [child EXCEPT ![sup.proc].asked = @ \cup {id}]
            /\ UNCHANGED sup
         \/ /\ ~refused /\ child[sup.proc].state = "gone"
            /\ call' = [call EXCEPT ![r] = Settled(@, "failed")]
            /\ sup' = [sup EXCEPT !.dead = TRUE, !.ready = FALSE]
            /\ UNCHANGED child
      /\ UNCHANGED <<run, stop, losses>>

RequestTimeout(r) ==
  /\ ~Busy
  /\ call[r].at # NoProc
  /\ call' = [call EXCEPT ![r] = Settled(@, "failed")]
  /\ UNCHANGED <<child, sup, run, stop, losses>>

-----------------------------------------------------------------------------
(* runEnsureReady.                                                         *)

At(pc, p, g, late) == [pc |-> pc, proc |-> p, gen |-> g, late |-> late]

\* These end a stretch of the run; k, s and cs are the children, the
\* supervisor's fields and the callers as the stretch leaves them.
Return(k, s, cs, ok) ==
  /\ child' = k
  /\ sup' = s
  /\ run' = NoRun
  /\ call' = Resume(cs, ok)

Await(k, s, cs, pc, late) ==
  /\ child' = k
  /\ sup' = s
  /\ run' = At(pc, s.proc, s.gen, late)
  /\ call' = cs

\* killCurrentChild: the child is disowned at once, then waited for.
Kill(k, s, cs, pc, late) ==
  /\ s.gen < MaxGen
  /\ child' = [k EXCEPT ![s.proc].told = TRUE]
  /\ sup' = [s EXCEPT !.gen = @ + 1]
  /\ run' = At(pc, s.proc, s.gen, late)
  /\ call' = cs

\* Mutant: after the deadline the child is left to itself.
GiveUp_NoKill(k, s, cs) == Return(k, s, cs, FALSE)

\* What follows the loop once the deadline has passed.
GiveUp(k, s, cs) ==
  IF s.proc # NoProc /\ ~s.ready THEN Kill(k, s, cs, "ending", TRUE)
  ELSE Return(k, s, cs, FALSE)

\* spawnProcess, and the wait for it.  The deadline may have passed while the
\* run waited for the previous child to exit: then the new one is killed.
Spawn(s, cs, late) ==
  LET g == s.gen + 1
      k == [child EXCEPT ![g].state = "loading"]
      t == [s EXCEPT !.proc = g, !.gen = g, !.ready = FALSE, !.dead = FALSE,
                     !.stopping = FALSE, !.promise = "pending"]
  IN  /\ g <= MaxGen
      /\ IF late THEN GiveUp(k, t, cs) ELSE Await(k, t, cs, "waiting", late)

\* From the head of the loop to the next await.
Loop(s, cs, late) ==
  IF late THEN GiveUp(child, s, cs)
  ELSE IF s.ready THEN Return(child, s, cs, TRUE)
  ELSE IF s.stopping THEN Return(child, s, cs, FALSE)
  ELSE IF s.failed /\ s.cooling THEN Await(child, s, cs, "cooling", late)
  ELSE IF s.proc = NoProc THEN Spawn(s, cs, late)
  ELSE IF s.dead THEN Kill(child, s, cs, "respawning", late)
  ELSE Await(child, s, cs, "waiting", late)

\* generateEmbedding, up to its first await: single-flight.
Ask(r) ==
  /\ ~Busy
  /\ call[r].state = "idle"
  /\ \/ /\ sup.ready
        /\ call' = [call EXCEPT ![r].state = "sending"]
        /\ UNCHANGED <<child, sup, run>>
     \/ /\ ~sup.ready /\ run.pc # "idle"
        /\ call' = [call EXCEPT ![r].state = "waiting"]
        /\ UNCHANGED <<child, sup, run>>
     \/ /\ ~sup.ready /\ run.pc = "idle"
        /\ Loop(sup, [call EXCEPT ![r].state = "waiting"], FALSE)
  /\ UNCHANGED <<stop, losses>>

\* startEmbedderProcess, at boot.
Start ==
  /\ ~Busy
  /\ sup.gen = 0 /\ ~sup.ready /\ run.pc = "idle"
  /\ Loop(sup, call, FALSE)
  /\ UNCHANGED <<stop, losses>>

\* After a failed wait.
BackOff(s) ==
  IF s.failed THEN Loop([s EXCEPT !.cooling = TRUE], call, run.late)
  ELSE Await(child, s, call, "pausing", run.late)

Disowned(s) == [s EXCEPT !.proc = NoProc, !.dead = TRUE, !.ready = FALSE,
                         !.failed = TRUE]

\* Mutant: the deadline does not interrupt the wait for the child.
Expired_Never == FALSE

Expired == run.late

\* Mutant: a child that failed to start is forgotten, not killed.
StartFailed_NoKill == BackOff(Disowned(sup))

\* The catch block.
StartFailed ==
  IF sup.stopping THEN Return(child, sup, call, FALSE)
  ELSE IF ~sup.ready /\ run.proc # NoProc /\ sup.proc = run.proc /\ sup.gen = run.gen
       THEN Kill(child, sup, call, "failing", run.late)
  ELSE BackOff(sup)

\* The wait ends: readiness, a rejection, or the deadline.
WaitEnds ==
  /\ run.pc = "waiting"
  /\ \/ sup.promise = "kept" /\ sup.ready /\ Return(child, sup, call, TRUE)
     \/ sup.promise = "kept" /\ ~sup.ready /\ Loop(sup, call, run.late)
     \/ sup.promise = "broken" /\ StartFailed
     \/ sup.promise = "pending" /\ Expired /\ ~Busy /\ StartFailed
  /\ UNCHANGED <<stop, losses>>

\* Mutant: shuttingDown is not asked again after the wait for the old child.
Respawn_Blindly == Spawn(sup, call, run.late)

Respawn == IF sup.stopping THEN Return(child, sup, call, FALSE)
           ELSE Spawn(sup, call, run.late)

\* The killed child exits, or a second has passed.
KillEnds ==
  /\ run.pc \in Killing
  /\ child[run.proc].seen \/ ~Busy
  /\ \/ run.pc = "respawning" /\ Respawn
     \/ run.pc = "failing"    /\ BackOff(Disowned(sup))
     \/ run.pc = "ending"     /\ Return(child, Disowned(sup), call, FALSE)
  /\ UNCHANGED <<stop, losses>>

\* A sleep ends: the cooldown, or the pause after a wait that did not fail.
SleepEnds ==
  /\ ~Busy
  /\ run.pc = "pausing" \/ (run.pc = "cooling" /\ ~sup.cooling)
  /\ Loop(sup, call, run.late)
  /\ UNCHANGED <<stop, losses>>

\* Time: the start deadline of the run, the end of the cooldown.
Deadline ==
  /\ ~Busy
  /\ run.pc # "idle" /\ ~run.late
  /\ run' = [run EXCEPT !.late = TRUE]
  /\ UNCHANGED <<child, sup, stop, call, losses>>

CooldownEnds ==
  /\ ~Busy
  /\ sup.cooling
  /\ sup' = [sup EXCEPT !.cooling = FALSE]
  /\ UNCHANGED <<child, run, stop, call, losses>>

-----------------------------------------------------------------------------
(* What the server hears of a child.                                       *)

Broken(s) == IF ~s.ready /\ s.promise = "pending" THEN "broken" ELSE s.promise

\* 'ready'.
HearReady ==
  /\ sup' = [sup EXCEPT !.ready = TRUE, !.failed = FALSE, !.cooling = FALSE,
                        !.promise = IF @ = "pending" THEN "kept" ELSE @]
  /\ UNCHANGED call

\* 'exiting'.
HearExiting ==
  /\ sup' = [sup EXCEPT !.dead = TRUE, !.ready = FALSE, !.proc = NoProc,
                        !.promise = Broken(sup)]
  /\ call' = IF sup.stopping THEN call ELSE RejectAllPending(call)

\* Mutant: the loop over the chunks runs once more.
AfterChunk_OneMore(n) == IF n > Chunks THEN "done" ELSE "sending"

AfterChunk(n) == IF n = Chunks THEN "done" ELSE "sending"

\* Mutant: a late reply settles its call a second time.
HearReply_Late(m) ==
  LET r == m.id[1]
  IN  /\ call' = [call EXCEPT ![r] = Settled(@, IF m.type = "error" THEN "failed" ELSE "done")]
      /\ UNCHANGED sup

\* 'result' and 'error': a request that is not in flight any more is ignored.
HearReply(m) ==
  LET r   == m.id[1]
      n   == call[r].got + 1
      hit == call[r].at # NoProc /\ m.id[2] = n
  IN  /\ call' = IF ~hit THEN call
                 ELSE IF m.type = "error" THEN [call EXCEPT ![r] = Settled(@, "failed")]
                 ELSE [call EXCEPT ![r] = [@ EXCEPT !.got = n, !.at = NoProc,
                                             !.state = AfterChunk(n)]]
      /\ UNCHANGED sup

Hear(m) == \/ m.type = "ready" /\ HearReady
           \/ m.type = "exiting" /\ HearExiting
           \/ m.type \in {"result", "error"} /\ HearReply(m)

\* Mutant: no generation guard.
OnMessage_AnyGeneration(c) ==
  /\ ~Busy
  /\ child[c].wire # <<>>
  /\ child' = [child EXCEPT ![c].wire = Tail(@)]
  /\ Hear(Head(child[c].wire))
  /\ UNCHANGED <<run, stop, losses>>

\* The ipc callback of the child of generation c.
OnMessage(c) ==
  /\ ~Busy
  /\ child[c].wire # <<>>
  /\ child' = [child EXCEPT ![c].wire = Tail(@)]
  /\ IF c = sup.gen THEN Hear(Head(child[c].wire)) ELSE UNCHANGED <<sup, call>>
  /\ UNCHANGED <<run, stop, losses>>

\* Its exited callback.
OnExit(c) ==
  /\ ~Busy
  /\ child[c].state = "gone" /\ ~child[c].seen
  /\ OrderedExit => child[c].wire = <<>>
  /\ child' = [child EXCEPT ![c].seen = TRUE]
  /\ IF c # sup.gen THEN UNCHANGED <<sup, call>>
     ELSE /\ sup' = [sup EXCEPT !.proc = NoProc, !.dead = TRUE, !.ready = FALSE,
                       !.failed = @ \/ (~sup.dead /\ ~sup.stopping),
                       !.promise = IF sup.stopping THEN @ ELSE Broken(sup)]
          /\ call' = IF sup.stopping THEN call ELSE RejectAllPending(call)
  /\ UNCHANGED <<run, stop, losses>>

-----------------------------------------------------------------------------
(* teardownProcess.                                                        *)

Settling == [stop EXCEPT !.pc = "settling"]

StopBegins ==
  /\ ~Busy
  /\ stop.pc = "no"
  /\ sup' = [sup EXCEPT !.stopping = TRUE,
                        !.promise = IF @ = "pending" THEN "broken" ELSE @]
  /\ stop' = [pc |-> IF sup.proc = NoProc THEN "settling" ELSE "asked",
              proc |-> sup.proc, gen |-> sup.gen, run |-> run.pc # "idle"]
  /\ child' = IF sup.proc = NoProc THEN child ELSE [child EXCEPT ![sup.proc].told = TRUE]
  /\ UNCHANGED <<run, call, losses>>

\* The child exits, or three seconds have passed.
StopAsked ==
  /\ stop.pc = "asked"
  /\ child[stop.proc].seen \/ ~Busy
  /\ IF sup.gen = stop.gen /\ sup.proc = stop.proc
     THEN /\ sup.gen < MaxGen
          /\ sup' = [sup EXCEPT !.gen = @ + 1]
          /\ stop' = [stop EXCEPT !.pc = "killing"]
     ELSE stop' = Settling /\ UNCHANGED sup
  /\ UNCHANGED <<child, run, call, losses>>

StopKilled ==
  /\ stop.pc = "killing"
  /\ child[stop.proc].seen \/ ~Busy
  /\ stop' = Settling
  /\ UNCHANGED <<child, sup, run, call, losses>>

StopEnds ==
  LET own == sup.proc = stop.proc /\ sup.gen \in {stop.gen, stop.gen + 1}
  IN  /\ stop.pc = "settling" /\ ~(stop.run /\ run.pc # "idle")
      /\ sup' = IF own THEN [sup EXCEPT !.proc = NoProc, !.ready = FALSE, !.dead = TRUE,
                               !.failed = FALSE, !.cooling = FALSE, !.stopping = FALSE]
                ELSE [sup EXCEPT !.stopping = FALSE]
      /\ call' = RejectAllPending(call)
      /\ stop' = [stop EXCEPT !.pc = "done"]
      /\ UNCHANGED <<child, run, losses>>

-----------------------------------------------------------------------------

ChildNext ==
  \E c \in Generation :
    \/ ChildReady(c)
    \/ \E id \in child[c].asked, type \in {"result", "error"} : ChildReplies(c, id, type)
    \/ ChildIdles(c)
    \/ ChildCrashes(c)
    \/ ChildStops(c)

\* What the event loop gets to in the end, whatever the children do.
Hearing == \E c \in Generation : OnMessage(c) \/ OnExit(c)
Running == WaitEnds \/ KillEnds \/ SleepEnds
Stopping == StopAsked \/ StopKilled \/ StopEnds
Sending == \E r \in Call : Send(r)

Next ==
  \/ ChildNext
  \/ \E r \in Call : Ask(r) \/ RequestTimeout(r)
  \/ Start \/ StopBegins
  \/ Hearing \/ Running \/ Stopping \/ Sending
  \/ Deadline \/ CooldownEnds

Spec == Init /\ [][Next]_vars

\* Timers fire, events are delivered, and runnable code runs.
Fairness ==
  /\ WF_vars(Sending) /\ WF_vars(Running) /\ WF_vars(Stopping)
  /\ WF_vars(Hearing) /\ WF_vars(Deadline) /\ WF_vars(CooldownEnds)
  /\ \A r \in Call : WF_vars(RequestTimeout(r))

FairSpec == Spec /\ Fairness

-----------------------------------------------------------------------------
(* Properties.                                                             *)

Answer == [idle |-> "none", waiting |-> "asked", sending |-> "asked",
           sent |-> "asked", done |-> "vectors", failed |-> "error"]

Calls == INSTANCE EmbeddingCalls
           WITH answer <- [r \in Call |-> Answer[call[r].state]],
                got    <- [r \in Call |-> call[r].got]

\* However children are lost and replaced, a call collects its chunks one by
\* one and is settled once: no reply that comes after a rejection, and no
\* reply to another request, reaches it.
CallsImplemented == Calls!Spec

\* Every call is settled in the end, by vectors or an error: whatever becomes
\* of the child, some timer of the server ends the wait.
CallsAnswered == Calls!Answered

\* When callers are let through, the child they will write to is the one that
\* reported ready, and it has not been found dead: what an earlier child says
\* late does not open the door to its successor, which is still loading.
ReadyIsCurrent ==
  sup.ready => /\ sup.proc # NoProc /\ ~sup.dead
               /\ child[sup.proc].state \notin {"unborn", "loading"}

\* The server loses no child that still runs: one it does not keep as its own
\* was told to go, or is leaving by itself.
NoStray ==
  \A c \in Generation :
    child[c].state \in {"loading", "up"} /\ ~child[c].told => sup.proc = c

\* The map of pending requests holds exactly the requests somebody awaits: an
\* entry that outlived its caller would count against MAX_PENDING, and a caller
\* without entry would hear of no reply, rejection or timeout.
PendingIsAwaited == Pending = {r \in Call : call[r].state = "sent"}

StopActive == stop.pc \in {"asked", "killing", "settling"}

\* getEmbedderState promises no perpetual 'starting': while it answers so,
\* somebody with a deadline watches the child.
StartingIsWatched ==
  sup.proc # NoProc /\ ~sup.dead /\ ~sup.ready => run.pc # "idle" \/ StopActive

\* Every running child is accounted for: it is the server's own or on its way
\* out, and while it is not ready somebody waits for it with a deadline.
ChildrenAccountedFor == NoStray /\ StartingIsWatched

\* A shutdown is not overtaken by a start that was under way: while the
\* teardown runs no child is spawned (the spawn would also clear shuttingDown).
NoSpawnDuringStop ==
  [][StopActive => \A c \in Generation :
        child[c].state = "unborn" => child'[c].state = "unborn"]_vars
=============================================================================
