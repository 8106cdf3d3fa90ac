---------------------- MODULE EmbedderSupervisor_proofs ----------------------
(***************************************************************************)
(* Theorems about EmbedderSupervisor: for any number of callers, chunks    *)
(* and generations, its variables keep their types, the map of pending     *)
(* requests is what the callers wait for, and a call gets what             *)
(* EmbeddingCalls promises.  Then of its children, where the runtime       *)
(* reports an exit after the child's last message: callers are let through *)
(* to the child that reported ready, and no child is lost while it runs.   *)
(* A shutdown is not overtaken by a start.                                 *)
(***************************************************************************)
EXTENDS EmbedderSupervisor, TLAPS

Calling == [Call -> CallRec]
Children == [Generation -> ChildRec]

\* Whoever waits for the child waits on a run that is under way.
WaitingHasRun == run.pc = "idle" => \A r \in Call : call[r].state # "waiting"

-----------------------------------------------------------------------------
(* The callers.  A call has an entry in the map of pending requests just   *)
(* while it awaits a reply, and it lacks a chunk until it is settled.      *)

CallOK(cr) ==
  /\ cr \in CallRec
  /\ cr.at # NoProc <=> cr.state = "sent"
  /\ cr.state \notin {"done", "failed"} => cr.got < Chunks

CallsOK(cs) == cs \in Calling /\ \A r \in Call : CallOK(cs[r])

\* Settling an answered or refused call.
LEMMA SettledOK ==
  ASSUME NEW cr, CallOK(cr), NEW st \in {"done", "failed"}
  PROVE  CallOK(Settled(cr, st)) /\ Settled(cr, st).state = st
<1>1. 0 \in 0 .. MaxGen BY BoundsAssumption
<1>2. Settled(cr, st) \in CallRec BY <1>1 DEF CallOK, CallRec, Settled, NoProc
<1>3. Settled(cr, st).state = st /\ Settled(cr, st).at = NoProc
  BY DEF CallOK, CallRec, Settled
<1> QED BY <1>2, <1>3 DEF CallOK

\* rejectAllPending drops requests and nothing else.
LEMMA RejectOK ==
  ASSUME NEW cs, CallsOK(cs)
  PROVE  CallsOK(RejectAllPending(cs))
<1>1. \A r \in Call : CallOK(RejectAllPending(cs)[r])
  BY SettledOK DEF CallsOK, RejectAllPending
<1> QED BY <1>1 DEF CallsOK, CallOK, Calling, RejectAllPending

\* Those who wait for the run are let through or refused; nobody waits on.
LEMMA ResumeOK ==
  ASSUME NEW cs, CallsOK(cs), NEW ok \in BOOLEAN
  PROVE  /\ CallsOK(Resume(cs, ok))
         /\ \A r \in Call : Resume(cs, ok)[r].state # "waiting"
<1>1. ASSUME NEW r \in Call
      PROVE  CallOK(Resume(cs, ok)[r]) /\ Resume(cs, ok)[r].state # "waiting"
  <2>0. CallOK(cs[r]) BY DEF CallsOK
  <2>1. CASE cs[r].state # "waiting" BY <2>0, <2>1 DEF Resume
  <2>2. CASE cs[r].state = "waiting" /\ ok
    BY <2>0, <2>2 DEF Resume, CallOK, CallRec
  <2>3. CASE cs[r].state = "waiting" /\ ~ok
    BY <2>0, <2>3, SettledOK DEF Resume
  <2> QED BY <2>1, <2>2, <2>3
<1> QED BY <1>1 DEF CallsOK, CallOK, Calling, Resume

-----------------------------------------------------------------------------
(* The children.                                                           *)

\* What one step does to one child.
LEMMA ChildOK ==
  ASSUME NEW k \in Children, NEW g, NEW rec, g \in Generation => rec \in ChildRec
  PROVE  [k EXCEPT ![g] = rec] \in Children
BY DEF Children

\* A child that is told to exit keeps its type.
LEMMA ToldOK ==
  ASSUME NEW k \in Children, NEW g
  PROVE  [k EXCEPT ![g].told = TRUE] \in Children
<1>1. ASSUME g \in Generation PROVE [k[g] EXCEPT !.told = TRUE] \in ChildRec
  <2>1. k[g] \in ChildRec BY <1>1 DEF Children
  <2> QED BY <2>1 DEF ChildRec
<1> QED BY <1>1, ChildOK

\* So does one whose state changes.
LEMMA StateOK ==
  ASSUME NEW k \in Children, NEW g, NEW st \in {"loading", "up", "leaving", "gone"}
  PROVE  [k EXCEPT ![g].state = st] \in Children
<1>1. ASSUME g \in Generation PROVE [k[g] EXCEPT !.state = st] \in ChildRec
  <2>1. k[g] \in ChildRec BY <1>1 DEF Children
  <2> QED BY <2>1 DEF ChildRec
<1> QED BY <1>1, ChildOK

-----------------------------------------------------------------------------
(* The supervisor's fields.                                                *)

\* And the supervisor's record, field by field.
LEMMA SupOK ==
  ASSUME NEW s \in SupRec, NEW g \in 0 .. MaxGen, NEW b \in BOOLEAN,
         NEW pr \in {"none", "pending", "kept", "broken"}
  PROVE  /\ [s EXCEPT !.proc = g] \in SupRec /\ [s EXCEPT !.gen = g] \in SupRec
         /\ [s EXCEPT !.ready = b] \in SupRec /\ [s EXCEPT !.dead = b] \in SupRec
         /\ [s EXCEPT !.stopping = b] \in SupRec /\ [s EXCEPT !.failed = b] \in SupRec
         /\ [s EXCEPT !.cooling = b] \in SupRec /\ [s EXCEPT !.promise = pr] \in SupRec
<1>1. [s EXCEPT !.proc = g] \in SupRec /\ [s EXCEPT !.gen = g] \in SupRec BY DEF SupRec
<1>2. [s EXCEPT !.ready = b] \in SupRec BY DEF SupRec
<1>3. [s EXCEPT !.dead = b] \in SupRec BY DEF SupRec
<1>4. [s EXCEPT !.stopping = b] \in SupRec BY DEF SupRec
<1>5. [s EXCEPT !.failed = b] \in SupRec BY DEF SupRec
<1>6. [s EXCEPT !.cooling = b] \in SupRec BY DEF SupRec
<1>7. [s EXCEPT !.promise = pr] \in SupRec BY DEF SupRec
<1> QED BY <1>1, <1>2, <1>3, <1>4, <1>5, <1>6, <1>7

-----------------------------------------------------------------------------
(* The run.  Every way a stretch of it ends keeps the types.               *)

RunOK == child \in Children /\ sup \in SupRec /\ run \in RunRec /\ CallsOK(call)
           /\ WaitingHasRun

\* A run returns to its callers.
LEMMA ReturnOK ==
  ASSUME NEW k \in Children, NEW s \in SupRec, NEW cs, CallsOK(cs),
         NEW ok \in BOOLEAN, Return(k, s, cs, ok)
  PROVE  RunOK'
<1>1. CallsOK(call') /\ \A r \in Call : call'[r].state # "waiting"
  BY ResumeOK DEF Return
<1>2. run' \in RunRec
  BY BoundsAssumption DEF Return, NoRun, RunRec, NoProc
<1> QED BY <1>1, <1>2 DEF Return, RunOK, WaitingHasRun, CallsOK

Awaiting == {"waiting", "cooling", "pausing"}

\* A run awaits ready.
LEMMA AwaitOK ==
  ASSUME NEW k \in Children, NEW s \in SupRec, NEW cs, CallsOK(cs),
         NEW pc \in Awaiting, NEW late \in BOOLEAN, Await(k, s, cs, pc, late)
  PROVE  RunOK'
<1>1. run' \in RunRec /\ run'.pc # "idle"
  BY DEF Await, At, Awaiting, RunRec, SupRec
<1> QED BY <1>1 DEF Await, RunOK, WaitingHasRun, CallsOK

\* A run kills the current child.
LEMMA KillOK ==
  ASSUME NEW k \in Children, NEW s \in SupRec, NEW cs, CallsOK(cs),
         NEW pc \in Killing, NEW late \in BOOLEAN, Kill(k, s, cs, pc, late)
  PROVE  RunOK'
<1>1. run' \in RunRec /\ run'.pc # "idle"
  BY DEF Kill, At, Killing, RunRec, SupRec
<1>2. sup' \in SupRec
  BY BoundsAssumption DEF Kill, SupRec
<1>3. child' \in Children
  BY ToldOK DEF Kill
<1> QED BY <1>1, <1>2, <1>3 DEF Kill, RunOK, WaitingHasRun, CallsOK

\* A run gives its child up.
LEMMA GiveUpOK ==
  ASSUME NEW k \in Children, NEW s \in SupRec, NEW cs, CallsOK(cs), GiveUp(k, s, cs)
  PROVE  RunOK'
BY KillOK, ReturnOK DEF GiveUp, Killing

\* A run spawns a child.
LEMMA SpawnOK ==
  ASSUME child \in Children, NEW s \in SupRec, NEW cs, CallsOK(cs),
         NEW late \in BOOLEAN, Spawn(s, cs, late)
  PROVE  RunOK'
<1> DEFINE g == s.gen + 1
           k == [child EXCEPT ![g].state = "loading"]
           t == [s EXCEPT !.proc = g, !.gen = g, !.ready = FALSE, !.dead = FALSE,
                          !.stopping = FALSE, !.promise = "pending"]
<1>1. g <= MaxGen /\ IF late THEN GiveUp(k, t, cs) ELSE Await(k, t, cs, "waiting", late)
  BY DEF Spawn
<1>2. k \in Children BY StateOK
<1>3. t \in SupRec
  <2>1. g \in 0 .. MaxGen BY <1>1, BoundsAssumption DEF SupRec
  <2> HIDE DEF g
  <2> QED BY <2>1, SupOK
<1> HIDE DEF g, k, t
<1> QED BY <1>1, <1>2, <1>3, GiveUpOK, AwaitOK DEF Awaiting

\* A run goes round its loop.
LEMMA LoopOK ==
  ASSUME child \in Children, NEW s \in SupRec, NEW cs, CallsOK(cs),
         NEW late \in BOOLEAN, Loop(s, cs, late)
  PROVE  RunOK'
<1>1. \/ GiveUp(child, s, cs) \/ Return(child, s, cs, TRUE) \/ Return(child, s, cs, FALSE)
      \/ Await(child, s, cs, "cooling", late) \/ Await(child, s, cs, "waiting", late)
      \/ Spawn(s, cs, late) \/ Kill(child, s, cs, "respawning", late)
  BY DEF Loop
<1> QED BY <1>1, GiveUpOK, ReturnOK, AwaitOK, SpawnOK, KillOK DEF Awaiting, Killing

\* A run backs off before it goes round again.
LEMMA BackOffOK ==
  ASSUME child \in Children, CallsOK(call), run \in RunRec, NEW s \in SupRec, BackOff(s)
  PROVE  RunOK'
<1>1. [s EXCEPT !.cooling = TRUE] \in SupRec BY DEF SupRec
<1>2. run.late \in BOOLEAN BY DEF RunRec
<1> QED BY <1>1, <1>2, LoopOK, AwaitOK DEF BackOff, Awaiting

\* A start fails, and is tried again or given up.
LEMMA StartFailedOK ==
  ASSUME RunOK, StartFailed
  PROVE  RunOK'
<1>1. run.late \in BOOLEAN BY DEF RunOK, RunRec
<1>2. \/ Return(child, sup, call, FALSE) \/ Kill(child, sup, call, "failing", run.late)
      \/ BackOff(sup)
  BY DEF StartFailed
<1> QED BY <1>1, <1>2, ReturnOK, KillOK, BackOffOK DEF RunOK, Killing

\* The record of a supervisor that disowned its child.
LEMMA DisownedOK ==
  ASSUME sup \in SupRec
  PROVE  Disowned(sup) \in SupRec
<1>1. NoProc \in 0 .. MaxGen BY BoundsAssumption DEF NoProc
<1> QED BY <1>1, SupOK DEF Disowned

-----------------------------------------------------------------------------
(* The inductive invariant.                                                *)

IInv == RunOK /\ stop \in StopRec /\ losses \in 0 .. MaxLosses

\* The inductive invariant says what the runs check.
LEMMA IInvMeans == IInv => TypeOK /\ PendingIsAwaited
BY DEF IInv, RunOK, CallsOK, CallOK, Calling, Children, TypeOK, PendingIsAwaited, Pending

\* It holds before the first caller.
LEMMA InitOK == Init => IInv
<1> SUFFICES ASSUME Init PROVE IInv OBVIOUS
<1>1. 0 \in 0 .. MaxGen /\ 0 \in 0 .. MaxLosses /\ 0 \in 0 .. Chunks /\ 0 < Chunks
  BY BoundsAssumption
<1>2. Unborn \in ChildRec
  <2>1. <<>> \in Seq(Message) /\ {} \in SUBSET Request OBVIOUS
  <2> QED BY <2>1 DEF Unborn, ChildRec
<1>3. child \in Children BY <1>2 DEF Init, Children
<1>4. sup \in SupRec BY <1>1 DEF Init, SupRec, NoProc
<1>5. run \in RunRec BY <1>1 DEF Init, RunRec, NoRun, NoProc
<1>6. stop \in StopRec BY <1>1 DEF Init, StopRec, NoProc
<1>7. CallsOK(call)
  <2> DEFINE c0 == [state |-> "idle", got |-> 0, at |-> NoProc]
  <2>1. c0 \in CallRec BY <1>1 DEF CallRec, NoProc
  <2>2. CallOK(c0) BY <1>1, <2>1 DEF CallOK
  <2>3. call = [r \in Call |-> c0] BY DEF Init
  <2> HIDE DEF c0
  <2> QED BY <2>1, <2>2, <2>3 DEF CallsOK, Calling
<1>8. WaitingHasRun BY DEF Init, WaitingHasRun
<1> QED BY <1>1, <1>3, <1>4, <1>5, <1>6, <1>7, <1>8 DEF Init, IInv, RunOK

\* A step that only changes the children.
LEMMA ChildStepOK ==
  ASSUME IInv, child' \in Children, UNCHANGED <<sup, run, stop, call>>,
         losses' \in 0 .. MaxLosses
  PROVE  IInv'
BY DEF IInv, RunOK, WaitingHasRun, CallsOK, CallOK

\* What a child writes into its pipe.
LEMMA WireOK ==
  ASSUME NEW rec \in ChildRec, NEW m \in Message,
         NEW st \in {"loading", "up", "leaving", "gone"}, NEW id
  PROVE  /\ [rec EXCEPT !.state = st, !.wire = Append(@, m)] \in ChildRec
         /\ [rec EXCEPT !.asked = @ \ {id}, !.wire = Append(@, m)] \in ChildRec
<1>1. Append(rec.wire, m) \in Seq(Message) BY DEF ChildRec
<1>2. rec.asked \ {id} \in SUBSET Request BY DEF ChildRec
<1> QED BY <1>1, <1>2 DEF ChildRec

\* What a child does by itself.
LEMMA ChildNextOK ==
  ASSUME IInv, ChildNext
  PROVE  IInv'
<1>0. child \in Children /\ losses \in 0 .. MaxLosses BY DEF IInv, RunOK
<1>1. PICK c \in Generation :
        \/ ChildReady(c)
        \/ \E id \in child[c].asked, type \in {"result", "error"} : ChildReplies(c, id, type)
        \/ ChildIdles(c) \/ ChildCrashes(c) \/ ChildStops(c)
  BY DEF ChildNext
<1>2. child[c] \in ChildRec BY <1>0 DEF Children
<1>3. losses < MaxLosses => losses + 1 \in 0 .. MaxLosses BY <1>0, BoundsAssumption
<1>4. CASE ChildReady(c)
  <2>1. [type |-> "ready"] \in Message BY DEF Message
  <2>2. [child[c] EXCEPT !.state = "up", !.wire = Append(@, [type |-> "ready"])] \in ChildRec
    BY <1>2, <2>1, WireOK
  <2>3. child' \in Children
    BY ZenonT(30), <1>0, <1>4, <2>2, ChildOK DEF ChildReady
  <2> QED BY <1>0, <1>4, <2>3, ChildStepOK DEF ChildReady
<1>5. ASSUME NEW id \in child[c].asked, NEW type \in {"result", "error"},
             ChildReplies(c, id, type)
      PROVE  IInv'
  <2>1. [type |-> type, id |-> id] \in Message BY <1>2 DEF Message, ChildRec
  <2>2. [child[c] EXCEPT !.asked = @ \ {id}, !.wire = Append(@, [type |-> type, id |-> id])]
          \in ChildRec
    BY <1>2, <2>1, WireOK
  <2>3. child' \in Children
    BY ZenonT(30), <1>0, <1>5, <2>2, ChildOK DEF ChildReplies
  <2> QED BY <1>0, <1>5, <2>3, ChildStepOK DEF ChildReplies
<1>6. CASE ChildIdles(c)
  <2>1. [type |-> "exiting"] \in Message BY DEF Message
  <2>2. [child[c] EXCEPT !.state = "leaving", !.wire = Append(@, [type |-> "exiting"])]
          \in ChildRec
    BY <1>2, <2>1, WireOK
  <2>3. child' \in Children
    BY ZenonT(30), <1>0, <1>6, <2>2, ChildOK DEF ChildIdles
  <2> QED BY <1>3, <1>6, <2>3, ChildStepOK DEF ChildIdles
<1>7. CASE ChildCrashes(c)
  BY <1>0, <1>3, <1>7, StateOK, ChildStepOK DEF ChildCrashes
<1>8. CASE ChildStops(c)
  BY <1>0, <1>8, StateOK, ChildStepOK DEF ChildStops
<1> QED BY <1>1, <1>4, <1>5, <1>6, <1>7, <1>8

-----------------------------------------------------------------------------
(* Callers.                                                                *)

\* A change of one call.
LEMMA OneCallOK ==
  ASSUME NEW cs, CallsOK(cs), NEW r \in Call, NEW cr, CallOK(cr)
  PROVE  CallsOK([cs EXCEPT ![r] = cr])
BY DEF CallsOK, CallOK, Calling

\* A caller goes on to a state in which it awaits no reply.
LEMMA MovedOK ==
  ASSUME NEW cr, CallOK(cr), cr.state \in {"idle", "waiting", "sending"},
         NEW st \in {"waiting", "sending"}
  PROVE  CallOK([cr EXCEPT !.state = st])
BY DEF CallOK, CallRec

\* A step that changes callers, children and fields but leaves the run alone.
LEMMA CallStepOK ==
  ASSUME IInv, child' \in Children, sup' \in SupRec, CallsOK(call'),
         \A r \in Call : call'[r].state = "waiting" =>
                          call[r].state = "waiting" \/ run.pc # "idle",
         UNCHANGED <<run, losses>>, stop' \in StopRec
  PROVE  IInv'
BY DEF IInv, RunOK, WaitingHasRun, CallsOK, CallOK

\* A request is sent, and awaited from then on.
LEMMA SendOK ==
  ASSUME IInv, NEW r \in Call, Send(r)
  PROVE  IInv'
<1> DEFINE id == <<r, call[r].got + 1>>
           settled == call' = [call EXCEPT ![r] = Settled(@, "failed")]
<1>0. /\ child \in Children /\ sup \in SupRec /\ stop \in StopRec
      /\ CallsOK(call) /\ CallOK(call[r]) /\ call \in Calling
  BY DEF IInv, RunOK, CallsOK
<1>1. call[r].state = "sending" /\ UNCHANGED <<run, stop, losses>> BY DEF Send
<1>2. CASE settled /\ child' = child /\ sup' \in SupRec
  <2>1. CallsOK(call') BY <1>0, <1>2, SettledOK, OneCallOK
  <2>2. Settled(call[r], "failed").state = "failed" BY <1>0, SettledOK
  <2>3. \A q \in Call : call'[q].state = "waiting" => call[q].state = "waiting"
    BY <1>0, <1>2, <2>2 DEF Calling
  <2> QED BY <1>0, <1>1, <1>2, <2>1, <2>3, CallStepOK
<1>3. CASE /\ sup.proc # NoProc
           /\ call' = [call EXCEPT ![r].state = "sent", ![r].at = sup.proc]
           /\ child' = [child EXCEPT ![sup.proc].asked = @ \cup {id}]
           /\ UNCHANGED sup
  <2> DEFINE cr == [call[r] EXCEPT !.state = "sent", !.at = sup.proc]
  <2>1. sup.proc \in 0 .. MaxGen BY <1>0 DEF SupRec
  <2>2. cr \in CallRec BY <1>0, <2>1 DEF CallOK, CallRec
  <2>3. cr.state = "sent" /\ cr.at = sup.proc /\ cr.got = call[r].got
    BY <1>0 DEF CallOK, CallRec
  <2>4. CallOK(cr) BY <1>0, <1>1, <1>3, <2>2, <2>3 DEF CallOK
  <2>5. call' = [call EXCEPT ![r] = cr] BY <1>3
  <2> HIDE DEF cr
  <2>6. CallsOK(call') BY <1>0, <2>4, <2>5, OneCallOK
  <2>7. \A q \in Call : call'[q].state = "waiting" => call[q].state = "waiting"
    BY <1>0, <2>3, <2>5 DEF Calling
  <2>8. id \in Request
    <3>1. call[r].got \in 0 .. Chunks /\ call[r].got < Chunks
      BY <1>0, <1>1 DEF CallOK, CallRec
    <3>2. call[r].got + 1 \in 1 .. Chunks BY <3>1, BoundsAssumption
    <3> QED BY <3>2 DEF Request
  <2>9. child' \in Children
    <3> HIDE DEF id
    <3>1. ASSUME sup.proc \in Generation
          PROVE  [child[sup.proc] EXCEPT !.asked = @ \cup {id}] \in ChildRec
      <4>1. child[sup.proc] \in ChildRec BY <1>0, <3>1 DEF Children
      <4>2. child[sup.proc].asked \cup {id} \in SUBSET Request
        BY <2>8, <4>1 DEF ChildRec
      <4> QED BY <4>1, <4>2 DEF ChildRec
    <3> QED BY <1>0, <1>3, <3>1, ChildOK
  <2> QED BY <1>0, <1>1, <1>3, <2>6, <2>7, <2>9, CallStepOK
<1>4. [sup EXCEPT !.dead = TRUE, !.ready = FALSE] \in SupRec BY <1>0 DEF SupRec
<1> QED BY <1>0, <1>2, <1>3, <1>4 DEF Send

\* A request that timed out is not awaited any more.
LEMMA RequestTimeoutOK ==
  ASSUME IInv, NEW r \in Call, RequestTimeout(r)
  PROVE  IInv'
<1>0. /\ child \in Children /\ sup \in SupRec /\ stop \in StopRec
      /\ CallsOK(call) /\ CallOK(call[r]) /\ call \in Calling
  BY DEF IInv, RunOK, CallsOK
<1>1. CallOK(Settled(call[r], "failed")) /\ Settled(call[r], "failed").state = "failed"
  BY <1>0, SettledOK
<1>2. CallsOK(call') BY <1>0, <1>1, OneCallOK DEF RequestTimeout
<1>3. \A q \in Call : call'[q].state = "waiting" => call[q].state = "waiting"
  BY <1>0, <1>1 DEF RequestTimeout, Calling
<1> QED BY <1>0, <1>2, <1>3, CallStepOK DEF RequestTimeout

\* A step that ends a stretch of the run.
LEMMA RunStepOK ==
  ASSUME IInv, RunOK', UNCHANGED <<stop, losses>>
  PROVE  IInv'
BY DEF IInv

\* A caller asks for the embedder.
LEMMA AskOK ==
  ASSUME IInv, NEW r \in Call, Ask(r)
  PROVE  IInv'
<1>0. /\ child \in Children /\ sup \in SupRec /\ stop \in StopRec
      /\ CallsOK(call) /\ CallOK(call[r]) /\ call \in Calling
  BY DEF IInv, RunOK, CallsOK
<1>1. call[r].state = "idle" BY DEF Ask
<1>2. \A st \in {"waiting", "sending"} : CallsOK([call EXCEPT ![r].state = st])
  BY <1>0, <1>1, MovedOK, OneCallOK
<1>3. CASE /\ call' = [call EXCEPT ![r].state = "sending"]
           /\ UNCHANGED <<child, sup, run, stop, losses>>
  <2>1. \A q \in Call : call'[q].state = "waiting" => call[q].state = "waiting"
    BY <1>0, <1>3 DEF Calling, CallRec
  <2> QED BY <1>0, <1>2, <1>3, <2>1, CallStepOK
<1>4. CASE /\ run.pc # "idle" /\ call' = [call EXCEPT ![r].state = "waiting"]
           /\ UNCHANGED <<child, sup, run, stop, losses>>
  BY <1>0, <1>2, <1>4, CallStepOK
<1>5. CASE /\ Loop(sup, [call EXCEPT ![r].state = "waiting"], FALSE)
           /\ UNCHANGED <<stop, losses>>
  BY <1>0, <1>2, <1>5, LoopOK, RunStepOK
<1> QED BY <1>3, <1>4, <1>5 DEF Ask

\* A caller starts it.
LEMMA StartOK ==
  ASSUME IInv, Start
  PROVE  IInv'
<1>1. child \in Children /\ sup \in SupRec /\ CallsOK(call) BY DEF IInv, RunOK
<1> QED BY <1>1, LoopOK, RunStepOK DEF Start

-----------------------------------------------------------------------------
(* The run's own steps.                                                    *)

\* The steps of a start under way.
LEMMA RunningOK ==
  ASSUME IInv, Running
  PROVE  IInv'
<1>0. /\ RunOK /\ child \in Children /\ sup \in SupRec /\ CallsOK(call)
      /\ run \in RunRec /\ run.late \in BOOLEAN
  BY DEF IInv, RunOK, RunRec
<1>1. CASE WaitEnds
  BY <1>0, <1>1, ReturnOK, LoopOK, StartFailedOK, RunStepOK DEF WaitEnds
<1>2. CASE KillEnds
  <2>1. CASE Respawn
    BY <1>0, <1>2, <2>1, ReturnOK, SpawnOK, RunStepOK DEF Respawn, KillEnds
  <2>2. CASE BackOff(Disowned(sup))
    BY <1>0, <1>2, <2>2, DisownedOK, BackOffOK, RunStepOK DEF KillEnds
  <2>3. CASE Return(child, Disowned(sup), call, FALSE)
    BY <1>0, <1>2, <2>3, DisownedOK, ReturnOK, RunStepOK DEF KillEnds
  <2> QED BY <1>2, <2>1, <2>2, <2>3 DEF KillEnds
<1>3. CASE SleepEnds
  BY <1>0, <1>3, LoopOK, RunStepOK DEF SleepEnds
<1> QED BY <1>1, <1>2, <1>3 DEF Running

\* Time passes.
LEMMA ClockOK ==
  ASSUME IInv, Deadline \/ CooldownEnds
  PROVE  IInv'
<1>0. RunOK /\ sup \in SupRec /\ run \in RunRec BY DEF IInv, RunOK
<1>1. CASE Deadline
  <2>1. run' \in RunRec /\ run'.pc = run.pc BY <1>0, <1>1 DEF Deadline, RunRec
  <2>2. RunOK' BY <1>0, <1>1, <2>1 DEF Deadline, RunOK, WaitingHasRun, CallsOK, CallOK
  <2> QED BY <1>1, <2>2, RunStepOK DEF Deadline
<1>2. CASE CooldownEnds
  <2>1. sup' \in SupRec BY <1>0, <1>2 DEF CooldownEnds, SupRec
  <2>2. RunOK' BY <1>0, <1>2, <2>1 DEF CooldownEnds, RunOK, WaitingHasRun, CallsOK, CallOK
  <2> QED BY <1>2, <2>2, RunStepOK DEF CooldownEnds
<1> QED BY <1>1, <1>2

-----------------------------------------------------------------------------
(* What the server hears.                                                  *)

\* Rejections make nobody wait.
LEMMA RejectMakesNoneWait ==
  ASSUME NEW cs, CallsOK(cs), NEW r \in Call,
         RejectAllPending(cs)[r].state = "waiting"
  PROVE  cs[r].state = "waiting"
BY SettledOK DEF RejectAllPending, CallsOK

\* What becomes of the promise of ready.
LEMMA BrokenOK ==
  ASSUME sup \in SupRec
  PROVE  Broken(sup) \in {"none", "pending", "kept", "broken"}
BY DEF Broken, SupRec

\* What hearing does to the fields and the callers.
HeardOK ==
  /\ sup' \in SupRec /\ CallsOK(call')
  /\ \A r \in Call : call'[r].state = "waiting" => call[r].state = "waiting"

\* ready arrives.
LEMMA HearReadyOK ==
  ASSUME IInv, HearReady
  PROVE  HeardOK
<1>0. sup \in SupRec /\ CallsOK(call) /\ UNCHANGED call BY DEF IInv, RunOK, HearReady
<1>1. 0 \in 0 .. MaxGen BY BoundsAssumption
<1> DEFINE pr == IF sup.promise = "pending" THEN "kept" ELSE sup.promise
<1>2. pr \in {"none", "pending", "kept", "broken"} BY <1>0 DEF SupRec
<1>3. sup' = [sup EXCEPT !.ready = TRUE, !.failed = FALSE, !.cooling = FALSE, !.promise = pr]
  BY DEF HearReady
<1> HIDE DEF pr
<1>4. sup' \in SupRec BY <1>0, <1>1, <1>2, <1>3, SupOK
<1> QED BY <1>0, <1>4 DEF HeardOK, CallsOK, CallOK

\* exiting arrives.
LEMMA HearExitingOK ==
  ASSUME IInv, HearExiting
  PROVE  HeardOK
<1>0. sup \in SupRec /\ CallsOK(call) BY DEF IInv, RunOK
<1>1. NoProc \in 0 .. MaxGen BY BoundsAssumption DEF NoProc
<1>2. sup' \in SupRec BY <1>0, <1>1, BrokenOK, SupOK DEF HearExiting
<1>3. call' = call \/ call' = RejectAllPending(call) BY DEF HearExiting
<1> QED BY <1>0, <1>2, <1>3, RejectOK, RejectMakesNoneWait DEF HeardOK

\* A reply arrives for a pending request, or for none.
LEMMA HearReplyOK ==
  ASSUME IInv, NEW m, m.id \in Request, HearReply(m)
  PROVE  HeardOK
<1> DEFINE r  == m.id[1]
           n  == call[r].got + 1
           cr == [call[r] EXCEPT !.got = n, !.at = NoProc, !.state = AfterChunk(n)]
<1>0. sup' \in SupRec /\ CallsOK(call) /\ call \in Calling
  BY DEF IInv, RunOK, CallsOK, HearReply
<1>1. r \in Call /\ CallOK(call[r]) BY <1>0 DEF Request, CallsOK
<1>2. CASE call' = call BY <1>0, <1>2 DEF HeardOK
<1>3. CASE call' = [call EXCEPT ![r] = Settled(@, "failed")]
  <2>1. CallOK(Settled(call[r], "failed")) /\ Settled(call[r], "failed").state = "failed"
    BY <1>1, SettledOK
  <2> HIDE DEF r
  <2>2. CallsOK(call') BY <1>0, <1>1, <1>3, <2>1, OneCallOK
  <2> QED BY <1>0, <1>1, <1>3, <2>1, <2>2 DEF HeardOK, Calling
<1>4. CASE call[r].at # NoProc /\ call' = [call EXCEPT ![r] = cr]
  <2>1. call[r] \in CallRec /\ call[r].got \in 0 .. Chunks /\ call[r].got < Chunks
    BY <1>1, <1>4 DEF CallOK, CallRec
  <2>2. n \in 0 .. Chunks /\ (n # Chunks => n < Chunks)
    BY <2>1, BoundsAssumption
  <2>3. AfterChunk(n) \in {"done", "sending"} /\ (AfterChunk(n) = "sending" => n < Chunks)
    BY <2>2 DEF AfterChunk
  <2>4. NoProc \in 0 .. MaxGen BY BoundsAssumption DEF NoProc
  <2> HIDE DEF n
  <2>5. cr \in CallRec BY <2>1, <2>2, <2>3, <2>4 DEF CallRec
  <2>6. cr.state = AfterChunk(n) /\ cr.at = NoProc /\ cr.got = n BY <2>1 DEF CallRec
  <2> HIDE DEF cr
  <2>7. CallOK(cr) BY <2>3, <2>5, <2>6 DEF CallOK
  <2> HIDE DEF r
  <2>8. CallsOK(call') BY <1>0, <1>1, <1>4, <2>7, OneCallOK
  <2> QED BY <1>0, <1>1, <1>4, <2>3, <2>6, <2>8 DEF HeardOK, Calling
<1> QED BY <1>2, <1>3, <1>4 DEF HearReply

\* Reading one message off a pipe.
LEMMA WireReadOK ==
  ASSUME child \in Children, NEW c \in Generation, child[c].wire # <<>>
  PROVE  /\ [child EXCEPT ![c].wire = Tail(@)] \in Children
         /\ Head(child[c].wire) \in Message
<1>1. child[c] \in ChildRec BY DEF Children
<1>2. Tail(child[c].wire) \in Seq(Message) /\ Head(child[c].wire) \in Message
  BY <1>1 DEF ChildRec
<1>3. [child[c] EXCEPT !.wire = Tail(@)] \in ChildRec BY <1>1, <1>2 DEF ChildRec
<1> QED BY <1>2, <1>3, ChildOK

\* Any message arrives.
LEMMA OnMessageOK ==
  ASSUME IInv, NEW c \in Generation, OnMessage(c)
  PROVE  IInv'
<1> DEFINE m == Head(child[c].wire)
<1>0. /\ child \in Children /\ sup \in SupRec /\ CallsOK(call) /\ stop \in StopRec
      /\ UNCHANGED <<run, stop, losses>>
  BY DEF IInv, RunOK, OnMessage
<1>1. child' \in Children /\ m \in Message
  BY <1>0, WireReadOK DEF OnMessage
<1>2. m.type \in {"result", "error"} => m.id \in Request
  BY <1>1 DEF Message
<1>3. HeardOK
  <2>1. CASE UNCHANGED <<sup, call>> BY <1>0, <2>1 DEF HeardOK
  <2>2. CASE Hear(m)
    BY <1>2, <2>2, HearReadyOK, HearExitingOK, HearReplyOK DEF Hear
  <2> QED BY <2>1, <2>2 DEF OnMessage
<1> QED BY <1>0, <1>1, <1>3, CallStepOK DEF HeardOK

\* An exit is noticed: all that was pending on the child is rejected.
LEMMA OnExitOK ==
  ASSUME IInv, NEW c \in Generation, OnExit(c)
  PROVE  IInv'
<1>0. /\ child \in Children /\ sup \in SupRec /\ CallsOK(call) /\ stop \in StopRec
      /\ UNCHANGED <<run, stop, losses>>
  BY DEF IInv, RunOK, OnExit
<1>1. child' \in Children
  <2>1. child[c] \in ChildRec BY <1>0 DEF Children
  <2>2. [child[c] EXCEPT !.seen = TRUE] \in ChildRec BY <2>1 DEF ChildRec
  <2> QED BY <1>0, <2>2, ChildOK DEF OnExit
<1>2. HeardOK
  <2>1. CASE UNCHANGED <<sup, call>> BY <1>0, <2>1 DEF HeardOK
  <2>2. CASE c = sup.gen
    <3> DEFINE pr == IF sup.stopping THEN sup.promise ELSE Broken(sup)
               fl == sup.failed \/ (~sup.dead /\ ~sup.stopping)
    <3>1. pr \in {"none", "pending", "kept", "broken"} BY <1>0, BrokenOK DEF SupRec
    <3>2. NoProc \in 0 .. MaxGen /\ fl \in BOOLEAN BY BoundsAssumption DEF NoProc
    <3>3. sup' = [sup EXCEPT !.proc = NoProc, !.dead = TRUE, !.ready = FALSE,
                             !.failed = fl, !.promise = pr]
      BY <2>2 DEF OnExit
    <3> HIDE DEF pr, fl
    <3>4. sup' \in SupRec BY <1>0, <3>1, <3>2, <3>3, SupOK
    <3>5. call' = call \/ call' = RejectAllPending(call) BY <2>2 DEF OnExit
    <3> QED BY <1>0, <3>4, <3>5, RejectOK, RejectMakesNoneWait DEF HeardOK
  <2> QED BY <2>1, <2>2 DEF OnExit
<1> QED BY <1>0, <1>1, <1>2, CallStepOK DEF HeardOK

-----------------------------------------------------------------------------
(* The teardown.                                                           *)

\* stop() begins.
LEMMA StopBeginsOK ==
  ASSUME IInv, StopBegins
  PROVE  IInv'
<1>0. /\ child \in Children /\ sup \in SupRec /\ CallsOK(call)
      /\ UNCHANGED <<run, call, losses>>
  BY DEF IInv, RunOK, StopBegins
<1>1. child' \in Children BY <1>0, ToldOK DEF StopBegins
<1>2. sup' \in SupRec
  <2> DEFINE pr == IF sup.promise = "pending" THEN "broken" ELSE sup.promise
  <2>1. pr \in {"none", "pending", "kept", "broken"} BY <1>0 DEF SupRec
  <2>2. sup' = [sup EXCEPT !.stopping = TRUE, !.promise = pr] BY DEF StopBegins
  <2> HIDE DEF pr
  <2> QED BY <1>0, <2>1, <2>2 DEF SupRec
<1>3. stop' \in StopRec
  <2>1. sup.proc \in 0 .. MaxGen /\ sup.gen \in 0 .. MaxGen BY <1>0 DEF SupRec
  <2>2. (run.pc # "idle") \in BOOLEAN OBVIOUS
  <2> QED BY <2>1, <2>2 DEF StopBegins, StopRec
<1> QED BY <1>0, <1>1, <1>2, <1>3, CallStepOK DEF CallsOK, CallOK

\* stop() goes on.
LEMMA StoppingOK ==
  ASSUME IInv, Stopping
  PROVE  IInv'
<1>0. /\ child \in Children /\ sup \in SupRec /\ CallsOK(call) /\ stop \in StopRec
      /\ UNCHANGED <<child, run, losses>>
  BY DEF IInv, RunOK, Stopping, StopAsked, StopKilled, StopEnds
<1>1. \A pc \in {"killing", "settling", "done"} : [stop EXCEPT !.pc = pc] \in StopRec
  BY <1>0 DEF StopRec
<1>2. CASE StopAsked
  <2>1. sup' \in SupRec BY <1>0, <1>2, BoundsAssumption DEF StopAsked, SupRec
  <2>2. stop' \in StopRec BY <1>1, <1>2 DEF StopAsked, Settling
  <2>3. UNCHANGED call BY <1>2 DEF StopAsked
  <2> QED BY <1>0, <2>1, <2>2, <2>3, CallStepOK DEF CallsOK, CallOK
<1>3. CASE StopKilled
  <2>1. stop' \in StopRec BY <1>1, <1>3 DEF StopKilled, Settling
  <2>2. UNCHANGED <<sup, call>> BY <1>3 DEF StopKilled
  <2> QED BY <1>0, <2>1, <2>2, CallStepOK DEF CallsOK, CallOK
<1>4. CASE StopEnds
  <2>1. NoProc \in 0 .. MaxGen BY BoundsAssumption DEF NoProc
  <2>2. sup' \in SupRec
    <3>1. CASE sup' = [sup EXCEPT !.proc = NoProc, !.ready = FALSE, !.dead = TRUE,
                             !.failed = FALSE, !.cooling = FALSE, !.stopping = FALSE]
      BY <1>0, <2>1, <3>1, SupOK
    <3>2. CASE sup' = [sup EXCEPT !.stopping = FALSE] BY <1>0, <3>2 DEF SupRec
    <3> QED BY <1>4, <3>1, <3>2 DEF StopEnds
  <2>3. stop' \in StopRec BY <1>1, <1>4 DEF StopEnds
  <2>4. call' = RejectAllPending(call) BY <1>4 DEF StopEnds
  <2> QED BY <1>0, <2>2, <2>3, <2>4, RejectOK, RejectMakesNoneWait, CallStepOK
<1> QED BY <1>2, <1>3, <1>4 DEF Stopping

-----------------------------------------------------------------------------
(* The theorems.                                                           *)

\* The invariant is inductive.
LEMMA StepOK ==
  ASSUME IInv, [Next]_vars
  PROVE  IInv'
<1>1. CASE UNCHANGED vars
  BY <1>1 DEF vars, IInv, RunOK, WaitingHasRun, CallsOK, CallOK
<1>2. CASE Next
  BY <1>2, ChildNextOK, AskOK, RequestTimeoutOK, StartOK, StopBeginsOK, OnMessageOK,
     OnExitOK, RunningOK, StoppingOK, SendOK, ClockOK DEF Next, Hearing, Sending
<1> QED BY <1>1, <1>2

\* The types, the pending map, and what keeps them: a call that is not settled
\* lacks a chunk, and whoever waits for the child waits on a run.
THEOREM InvariantHolds == Spec => []IInv
<1>1. IInv /\ [Next]_vars => IInv' BY StepOK
<1> QED BY <1>1, InitOK, PTL DEF Spec

\* Every variable of the supervisor model keeps its type: no call ever
\* collects more chunks than it asked for, and no pipe carries a reply to a
\* request that was never sent.
THEOREM SupervisorTypeCorrect == Spec => []TypeOK
BY InvariantHolds, IInvMeans, PTL

\* The map of pending requests holds exactly the requests somebody awaits,
\* whatever is lost, rejected, timed out or torn down, in whatever order.
THEOREM PendingHolds == Spec => []PendingIsAwaited
BY InvariantHolds, IInvMeans, PTL

-----------------------------------------------------------------------------
(* The refinement of EmbeddingCalls.                                       *)

\* What EmbeddingCalls sees of a call.
AnswerOf(cr) == Answer[cr.state]

\* An answer in the detailed model is one in the abstract.
LEMMA AnswerIs ==
  /\ Answer["idle"] = "none" /\ Answer["waiting"] = "asked" /\ Answer["sending"] = "asked"
  /\ Answer["sent"] = "asked" /\ Answer["done"] = "vectors" /\ Answer["failed"] = "error"
BY DEF Answer

CallsStep == [Calls!Next]_(Calls!vars)

\* A step that gives an error to some of those who asked, and nothing else to
\* anybody.
Refusing(cs) ==
  \A r \in Call :
    /\ cs[r].got = call[r].got
    /\ \/ AnswerOf(cs[r]) = AnswerOf(call[r])
       \/ AnswerOf(call[r]) = "asked" /\ AnswerOf(cs[r]) = "error"

\* Refusing calls is refusing them there.
LEMMA RefusingRefines ==
  ASSUME Refusing(call')
  PROVE  CallsStep
<1>0. PICK S \in SUBSET Call : S = {r \in Call : AnswerOf(call'[r]) # AnswerOf(call[r])}
  OBVIOUS
<1>1. \A r \in S : AnswerOf(call[r]) = "asked" /\ AnswerOf(call'[r]) = "error"
  BY <1>0 DEF Refusing
<1>2. [r \in Call |-> call'[r].got] = [r \in Call |-> call[r].got] BY DEF Refusing
<1>3. [r \in Call |-> AnswerOf(call'[r])] =
        [r \in Call |-> IF r \in S THEN "error" ELSE AnswerOf(call[r])]
  BY <1>0, <1>1
<1>4. Calls!Fail(S) BY <1>1, <1>2, <1>3 DEF Calls!Fail, AnswerOf
<1> QED BY <1>4 DEF CallsStep, Calls!Next

\* Resuming the callers of a run, and rejecting the pending requests.
LEMMA ResumeRefuses ==
  ASSUME CallsOK(call), NEW ok \in BOOLEAN
  PROVE  Refusing(Resume(call, ok))
<1> SUFFICES ASSUME NEW r \in Call
             PROVE  /\ Resume(call, ok)[r].got = call[r].got
                    /\ \/ AnswerOf(Resume(call, ok)[r]) = AnswerOf(call[r])
                       \/ /\ AnswerOf(call[r]) = "asked"
                          /\ AnswerOf(Resume(call, ok)[r]) = "error"
  BY DEF Refusing
<1>0. call[r] \in CallRec BY DEF CallsOK, CallOK
<1>1. CASE call[r].state # "waiting" BY <1>1 DEF Resume
<1>2. CASE call[r].state = "waiting" /\ ok
  BY <1>0, <1>2, AnswerIs DEF Resume, AnswerOf, CallRec
<1>3. CASE call[r].state = "waiting" /\ ~ok
  BY <1>0, <1>3, AnswerIs DEF Resume, AnswerOf, CallRec, Settled
<1> QED BY <1>1, <1>2, <1>3

\* Rejecting what is pending refuses those calls.
LEMMA RejectRefuses ==
  ASSUME CallsOK(call)
  PROVE  Refusing(RejectAllPending(call))
<1> SUFFICES ASSUME NEW r \in Call
             PROVE  /\ RejectAllPending(call)[r].got = call[r].got
                    /\ \/ AnswerOf(RejectAllPending(call)[r]) = AnswerOf(call[r])
                       \/ /\ AnswerOf(call[r]) = "asked"
                          /\ AnswerOf(RejectAllPending(call)[r]) = "error"
  BY DEF Refusing
<1>0. CallOK(call[r]) BY DEF CallsOK
<1>1. CASE call[r].at = NoProc BY <1>1 DEF RejectAllPending
<1>2. CASE call[r].at # NoProc
  BY <1>0, <1>2, AnswerIs DEF RejectAllPending, AnswerOf, CallOK, CallRec, Settled
<1> QED BY <1>1, <1>2

\* The ways one call goes on without being answered, or with an error.
LEMMA OneRefused ==
  ASSUME CallsOK(call), NEW r \in Call, NEW cr, cr.got = call[r].got,
         \/ AnswerOf(cr) = AnswerOf(call[r])
         \/ AnswerOf(call[r]) = "asked" /\ AnswerOf(cr) = "error"
  PROVE  Refusing([call EXCEPT ![r] = cr])
BY DEF Refusing, CallsOK, Calling

\* What a stretch of the run makes of its callers.
Resumed(cs) == call' = cs \/ \E ok \in BOOLEAN : call' = Resume(cs, ok)

\* Spawning resumes waiting callers only.
LEMMA SpawnResumes ==
  ASSUME NEW s, NEW cs, NEW late, Spawn(s, cs, late)
  PROVE  Resumed(cs)
BY DEF Spawn, GiveUp, Return, Kill, Await, Resumed

\* So does the loop,
LEMMA LoopResumes ==
  ASSUME NEW s, NEW cs, NEW late, Loop(s, cs, late)
  PROVE  Resumed(cs)
BY SpawnResumes DEF Loop, GiveUp, Return, Kill, Await, Resumed

\* and every step of a start under way.
LEMMA RunningResumes ==
  ASSUME Running
  PROVE  Resumed(call)
<1>1. ASSUME NEW s, BackOff(s) PROVE Resumed(call)
  BY <1>1, LoopResumes DEF BackOff, Await, Resumed
<1>2. CASE WaitEnds
  BY <1>1, <1>2, LoopResumes DEF WaitEnds, StartFailed, Return, Kill, Resumed
<1>3. CASE KillEnds
  BY <1>1, <1>3, SpawnResumes DEF KillEnds, Respawn, Return, Resumed
<1>4. CASE SleepEnds BY <1>4, LoopResumes DEF SleepEnds
<1> QED BY <1>2, <1>3, <1>4 DEF Running

\* Resumed callers have their outcome, or none yet.
LEMMA ResumedRefines ==
  ASSUME CallsOK(call), Resumed(call)
  PROVE  CallsStep
<1>1. Refusing(call) BY DEF Refusing
<1>2. Refusing(call') BY <1>1, ResumeRefuses DEF Resumed
<1> QED BY <1>2, RefusingRefines

\* Asking is calling.
LEMMA AskRefines ==
  ASSUME IInv, NEW r \in Call, Ask(r)
  PROVE  CallsStep
<1>0. CallsOK(call) /\ call \in Calling /\ call[r] \in CallRec /\ WaitingHasRun
  BY DEF IInv, RunOK, CallsOK, CallOK
<1>1. call[r].state = "idle" BY DEF Ask
<1> DEFINE asking == [call EXCEPT ![r].state = "waiting"]
<1>2. SUFFICES ASSUME /\ \A q \in Call : call'[q].got = call[q].got
                      /\ \A q \in Call \ {r} : call'[q] = call[q]
                      /\ AnswerOf(call'[r]) \in {"asked", "error"}
               PROVE  CallsStep
  <2>1. CASE call' = [call EXCEPT ![r].state = "sending"]
    BY <1>0, <1>2, <2>1, AnswerIs DEF Calling, CallRec, AnswerOf
  <2>2. CASE call' = asking
    BY <1>0, <1>2, <2>2, AnswerIs DEF Calling, CallRec, AnswerOf
  <2>3. CASE run.pc = "idle" /\ \E ok \in BOOLEAN : call' = Resume(asking, ok)
    <3>1. \A q \in Call \ {r} : asking[q] = call[q] /\ asking[q].state # "waiting"
      BY <1>0, <2>3 DEF WaitingHasRun, Calling
    <3>2. asking[r] = [call[r] EXCEPT !.state = "waiting"] BY <1>0 DEF Calling
    <3>3. asking[r].state = "waiting" /\ asking[r].got = call[r].got /\ asking[r] \in CallRec
      BY <1>0, <3>2 DEF CallRec
    <3> HIDE DEF asking
    <3>4. \A q \in Call \ {r} : call'[q] = call[q] BY <2>3, <3>1 DEF Resume
    <3>5. PICK ok \in BOOLEAN : call' = Resume(asking, ok) BY <2>3
    <3>6. call'[r] = IF ok THEN [asking[r] EXCEPT !.state = "sending"]
                     ELSE Settled(asking[r], "failed")
      BY <3>3, <3>5 DEF Resume
    <3>7. call'[r].got = call[r].got /\ AnswerOf(call'[r]) \in {"asked", "error"}
      BY <3>3, <3>6, AnswerIs DEF CallRec, Settled, AnswerOf
    <3> QED BY <1>2, <3>4, <3>7
  <2> QED BY <2>1, <2>2, <2>3, LoopResumes DEF Ask, Resumed
<1>3. [q \in Call |-> call'[q].got] = [q \in Call |-> call[q].got] BY <1>2
<1>4. AnswerOf(call[r]) = "none" BY <1>1, AnswerIs DEF AnswerOf
<1>5. PICK a \in {"asked", "error"} : AnswerOf(call'[r]) = a BY <1>2
<1>6. [q \in Call |-> AnswerOf(call'[q])]
        = [[q \in Call |-> AnswerOf(call[q])] EXCEPT ![r] = a]
  BY <1>2, <1>5
<1>7. Calls!Ask(r) BY <1>3, <1>4, <1>6 DEF Calls!Ask, AnswerOf
<1> QED BY <1>7 DEF CallsStep, Calls!Next

\* Sending answers nobody.
LEMMA SendRefines ==
  ASSUME IInv, NEW r \in Call, Send(r) \/ RequestTimeout(r)
  PROVE  CallsStep
<1>0. CallsOK(call) /\ CallOK(call[r]) BY DEF IInv, RunOK, CallsOK
<1>1. AnswerOf(call[r]) = "asked"
  BY <1>0, AnswerIs DEF Send, RequestTimeout, CallOK, AnswerOf
<1>2. PICK cr : /\ call' = [call EXCEPT ![r] = cr]
                /\ \/ cr = Settled(call[r], "failed")
                   \/ cr = [call[r] EXCEPT !.state = "sent", !.at = sup.proc]
  BY ZenonT(30) DEF Send, RequestTimeout
<1>3. cr.got = call[r].got /\ AnswerOf(cr) \in {"asked", "error"}
  BY <1>0, <1>2, AnswerIs DEF CallOK, CallRec, Settled, AnswerOf
<1> QED BY <1>0, <1>1, <1>2, <1>3, OneRefused, RefusingRefines

\* A reply answers the call it names, at most once.
LEMMA HearReplyRefines ==
  ASSUME IInv, NEW m, m.id \in Request, HearReply(m)
  PROVE  CallsStep
<1> DEFINE r  == m.id[1]
           n  == call[r].got + 1
           cr == [call[r] EXCEPT !.got = n, !.at = NoProc, !.state = AfterChunk(n)]
<1>0. CallsOK(call) /\ call \in Calling /\ r \in Call /\ CallOK(call[r])
  BY DEF IInv, RunOK, CallsOK, Request
<1>1. CASE call' = call
  BY <1>1, RefusingRefines DEF Refusing
<1>2. CASE call[r].at # NoProc /\ call' = [call EXCEPT ![r] = Settled(@, "failed")]
  <2>1. AnswerOf(call[r]) = "asked" BY <1>0, <1>2, AnswerIs DEF CallOK, AnswerOf
  <2>2. Settled(call[r], "failed").got = call[r].got
          /\ AnswerOf(Settled(call[r], "failed")) = "error"
    BY <1>0, AnswerIs DEF CallOK, CallRec, Settled, AnswerOf
  <2> HIDE DEF r
  <2> QED BY <1>0, <1>2, <2>1, <2>2, OneRefused, RefusingRefines
<1>3. CASE call[r].at # NoProc /\ call' = [call EXCEPT ![r] = cr]
  <2>1. call[r].state = "sent" /\ call[r].got < Chunks /\ call[r] \in CallRec
    BY <1>0, <1>3 DEF CallOK
  <2>2. cr.got = n /\ cr.state = AfterChunk(n)
    <3> HIDE DEF n
    <3> QED BY <2>1 DEF CallRec
  <2>3. AnswerOf(call[r]) = "asked" BY <2>1, AnswerIs DEF AnswerOf
  <2>4. AnswerOf(cr) = IF n = Chunks THEN "vectors" ELSE "asked"
    <3> HIDE DEF n, cr
    <3> QED BY <2>2, AnswerIs DEF AnswerOf, AfterChunk
  <2> HIDE DEF cr, r
  <2>5. call'[r] = cr /\ \A q \in Call \ {r} : call'[q] = call[q]
    BY <1>0, <1>3 DEF Calling
  <2>6. [q \in Call |-> call'[q].got] = [[q \in Call |-> call[q].got] EXCEPT ![r] = n]
    BY <2>2, <2>5
  <2>7. [q \in Call |-> AnswerOf(call'[q])]
          = [[q \in Call |-> AnswerOf(call[q])] EXCEPT
               ![r] = IF n = Chunks THEN "vectors" ELSE @]
    BY <1>0, <2>3, <2>4, <2>5
  <2>8. Calls!Receive(r)
    BY <1>0, <2>1, <2>3, <2>6, <2>7 DEF Calls!Receive, AnswerOf
  <2> QED BY <1>0, <2>8 DEF CallsStep, Calls!Next
<1> QED BY <1>1, <1>2, <1>3 DEF HearReply

\* Any other message or an exit at most refuses calls.
LEMMA HearingRefines ==
  ASSUME IInv, Hearing
  PROVE  CallsStep
<1>0. child \in Children /\ CallsOK(call) BY DEF IInv, RunOK
<1>1. CASE call' = call \/ call' = RejectAllPending(call)
  <2>1. Refusing(call) BY DEF Refusing
  <2> QED BY <1>0, <1>1, <2>1, RejectRefuses, RefusingRefines
<1>2. ASSUME NEW c \in Generation, OnMessage(c) PROVE CallsStep
  <2> DEFINE m == Head(child[c].wire)
  <2>1. m \in Message BY <1>0, <1>2, WireReadOK DEF OnMessage
  <2>2. m.type \in {"result", "error"} => m.id \in Request BY <2>1 DEF Message
  <2> QED BY <1>1, <1>2, <2>2, HearReplyRefines DEF OnMessage, Hear, HearReady, HearExiting
<1>3. ASSUME NEW c \in Generation, OnExit(c) PROVE CallsStep
  BY <1>1, <1>3 DEF OnExit
<1> QED BY <1>2, <1>3 DEF Hearing

\* Whatever is lost, replaced, late or torn down, a call collects its chunks
\* one by one and is settled once: the supervisor implements EmbeddingCalls.
THEOREM SupervisorImplementsCalls == Spec => CallsImplemented
<1>1. Init => Calls!Init
  BY AnswerIs DEF Init, Calls!Init
<1>2. IInv /\ [Next]_vars => [Calls!Next]_(Calls!vars)
  <2> SUFFICES ASSUME IInv, [Next]_vars PROVE CallsStep BY DEF CallsStep
  <2>0. CallsOK(call) BY DEF IInv, RunOK
  <2>1. CASE call' = call
    BY <2>1, RefusingRefines DEF Refusing
  <2>2. CASE Running BY <2>0, <2>2, RunningResumes, ResumedRefines
  <2>3. CASE Start BY <2>0, <2>3, LoopResumes, ResumedRefines DEF Start
  <2>4. CASE StopEnds BY <2>0, <2>4, RejectRefuses, RefusingRefines DEF StopEnds
  <2>5. CASE Next
    BY <2>1, <2>2, <2>3, <2>4, <2>5, AskRefines, SendRefines, HearingRefines
       DEF Next, ChildNext, ChildReady, ChildReplies, ChildIdles, ChildCrashes,
           ChildStops, StopBegins, Stopping, StopAsked, StopKilled, Sending,
           Deadline, CooldownEnds
  <2> QED BY <2>1, <2>5 DEF vars
<1> QED BY <1>1, <1>2, InvariantHolds, PTL DEF Spec, CallsImplemented, Calls!Spec

-----------------------------------------------------------------------------
(* The invariant, over the children, the supervisor's fields, the run, the *)
(* teardown and the callers a step leaves.                                 *)

\* The server is still to hear that a child is up.
Unheard(kr) ==
  kr.state = "loading" \/ (kr.wire # <<>> /\ Head(kr.wire).type = "ready")

\* A child says first that it is ready, and that it exits when it leaves.
Orderly(kr) ==
  /\ kr.state \in {"unborn", "loading"} => kr.wire = <<>>
  /\ \A i \in 1 .. Len(kr.wire) :
       /\ kr.wire[i].type = "ready" => i = 1
       /\ kr.wire[i].type = "exiting" => kr.state \in {"leaving", "gone"}

\* No child is of a generation to come, and the server's own child was
\* spawned; when it is not of the latest generation, it was told to go and no
\* other has taken its place.
Spawned(k, s) ==
  /\ \A c \in Generation : Orderly(k[c]) /\ (c > s.gen => k[c].state = "unborn")
  /\ s.proc # NoProc =>
       /\ s.proc <= s.gen /\ k[s.proc].state # "unborn"
       /\ s.proc # s.gen => k[s.proc].told /\ k[s.gen].state = "unborn"

\* While the latest child is unheard of, it is the server's own and neither
\* dead nor ready; when it is neither, it is unheard of or crashed at once.
Current(k, s) ==
  s.gen # 0 =>
    /\ Unheard(k[s.gen]) => s.proc = s.gen /\ ~s.dead /\ ~s.ready
    /\ s.proc = s.gen /\ ~s.dead /\ ~s.ready =>
         Unheard(k[s.gen]) \/ (k[s.gen].wire = <<>> /\ k[s.gen].state = "gone")

\* ReadyIsCurrent and NoStray.
Kept(k, s) ==
  /\ s.ready => s.proc # NoProc /\ ~s.dead /\ k[s.proc].state \notin {"unborn", "loading"}
  /\ \A c \in Generation : k[c].state \in {"loading", "up"} /\ ~k[c].told => s.proc = c

Ours(k, s) == Spawned(k, s) /\ Current(k, s) /\ Kept(k, s)

\* A run that waits for a killed child is the only one to know of it.
Killed(k, s, rn) ==
  rn.pc \in Killing =>
    /\ rn.proc \in Generation /\ k[rn.proc].told
    /\ s.proc \in {NoProc, rn.proc} /\ s.gen # 0 /\ k[s.gen].state = "unborn"
    /\ rn.pc = "respawning" => s.dead

\* Somebody has a deadline for a child that is not ready.
Active(st) == st.pc \in {"asked", "killing", "settling"}

Watched(s, rn, st) ==
  s.proc # NoProc /\ ~s.dead /\ ~s.ready => rn.pc # "idle" \/ Active(st)

\* While the teardown runs, the child is the one it told to go, or none; the
\* generation moves on once for the teardown, and again for a run that kills.
Halting(k, s, st) ==
  /\ st.proc <= st.gen /\ st.gen <= s.gen
  /\ st.proc # NoProc => k[st.proc].told
  /\ s.proc \in {NoProc, st.proc}
  /\ st.pc # "asked" /\ s.proc # NoProc => s.gen > st.gen

Bounded(s, st) ==
  s.proc # NoProc /\ ~s.dead =>
    (st.pc = "asked" => s.gen = st.gen) /\ s.gen <= st.gen + 1

Stopped(k, s, rn, st) ==
  /\ s.stopping <=> Active(st)
  /\ Active(st) => /\ Halting(k, s, st)
                   /\ rn.pc # "idle" => st.run
                   /\ rn.pc \notin Killing => Bounded(s, st)

\* Callers are let through when the child is ready; none of them is about to
\* write while the run has something to do.
Eager(k, s, rn) ==
  \/ rn.pc = "waiting" /\ s.promise # "pending"
  \/ rn.pc \in Killing /\ k[rn.proc].seen

NoSender(cs) == \A r \in Call : cs[r].state # "sending"

Senders(k, s, rn, cs) ==
  NoSender(cs) \/ ((s.ready \/ s.dead \/ s.proc = NoProc) /\ ~Eager(k, s, rn))

Life(k, s, rn, st, cs) ==
  /\ Ours(k, s) /\ Killed(k, s, rn) /\ Watched(s, rn, st)
  /\ Stopped(k, s, rn, st) /\ Senders(k, s, rn, cs)

LifeInv == IInv /\ Life(child, sup, run, stop, call)

\* The invariant says what the runs check.
LEMMA LifeMeans ==
  ASSUME LifeInv
  PROVE  ReadyIsCurrent /\ ChildrenAccountedFor
  BY DEF LifeInv, Life, Ours, Kept, Watched, Active, ReadyIsCurrent, ChildrenAccountedFor,
         NoStray, StartingIsWatched, StopActive

\* Before the first spawn there is no child to be wrong about.
LEMMA LifeBegins == Init => LifeInv
<1> SUFFICES ASSUME Init PROVE LifeInv
  OBVIOUS
<1>1. \A c \in Generation : child[c] = Unborn
  BY DEF Init
<1>2. Orderly(Unborn) /\ Unborn.state = "unborn"
  BY DEF Orderly, Unborn
<1>3. /\ sup.proc = NoProc /\ sup.gen = 0 /\ ~sup.ready /\ ~sup.stopping
      /\ run.pc = "idle" /\ stop.pc = "no" /\ \A r \in Call : call[r].state = "idle"
  BY DEF Init, NoRun
<1>4. Ours(child, sup)
  BY <1>1, <1>2, <1>3 DEF Ours, Spawned, Current, Kept
<1>5. /\ Killed(child, sup, run) /\ Watched(sup, run, stop)
      /\ Stopped(child, sup, run, stop) /\ Senders(child, sup, run, call)
  BY <1>3 DEF Killed, Killing, Watched, Stopped, Active, Senders, NoSender
<1> QED BY <1>4, <1>5, InitOK DEF LifeInv, Life

-----------------------------------------------------------------------------
(* What is said over a pipe.                                               *)

\* Saying something keeps the order, and what was to be heard first.
LEMMA SaidOrderly ==
  ASSUME NEW kr \in ChildRec, Orderly(kr), NEW m \in Message, NEW nr \in ChildRec,
         nr.wire = Append(kr.wire, m),
         m.type = "ready" => kr.wire = <<>>,
         m.type = "exiting" => nr.state \in {"leaving", "gone"},
         nr.state \notin {"unborn", "loading"},
         kr.state \in {"leaving", "gone"} => nr.state \in {"leaving", "gone"}
  PROVE  /\ Orderly(nr) /\ nr.wire # <<>>
         /\ kr.wire # <<>> => (Unheard(nr) <=> Head(kr.wire).type = "ready")
         /\ kr.wire = <<>> => (Unheard(nr) <=> m.type = "ready")
<1>1. kr.wire \in Seq(Message)
  BY DEF ChildRec
<1>2. /\ Len(nr.wire) = Len(kr.wire) + 1 /\ nr.wire[Len(nr.wire)] = m
      /\ \A i \in 1 .. Len(kr.wire) : nr.wire[i] = kr.wire[i]
      /\ nr.wire \in Seq(Message) /\ nr.wire # <<>>
  BY <1>1
<1>3. Len(kr.wire) \in Nat /\ (kr.wire = <<>> <=> Len(kr.wire) = 0)
  BY <1>1
<1>4. ASSUME NEW i \in 1 .. Len(nr.wire)
      PROVE  /\ nr.wire[i].type = "ready" => i = 1
             /\ nr.wire[i].type = "exiting" => nr.state \in {"leaving", "gone"}
  <2>1. CASE i = Len(nr.wire)
    BY <1>2, <1>3, <2>1
  <2>2. CASE i \in 1 .. Len(kr.wire)
    BY <1>2, <2>2 DEF Orderly
  <2> QED BY <1>2, <1>3, <2>1, <2>2
<1>5. kr.wire # <<>> => Head(nr.wire) = Head(kr.wire)
  BY <1>1, <1>2, <1>3
<1>6. kr.wire = <<>> => Head(nr.wire) = m
  BY <1>2, <1>3
<1> QED BY <1>2, <1>4, <1>5, <1>6 DEF Orderly, Unheard

\* Hearing something keeps the order; only the first thing heard is "ready".
LEMMA HeardOrderly ==
  ASSUME NEW kr \in ChildRec, Orderly(kr), kr.wire # <<>>, NEW nr,
         nr.wire = Tail(kr.wire), nr.state = kr.state
  PROVE  /\ Orderly(nr) /\ ~Unheard(nr)
         /\ kr.state \notin {"unborn", "loading"}
         /\ Head(kr.wire).type = "exiting" => kr.state \in {"leaving", "gone"}
<1>1. kr.wire \in Seq(Message) /\ Len(kr.wire) \in Nat \ {0}
  BY DEF ChildRec
<1>2. /\ Len(nr.wire) = Len(kr.wire) - 1 /\ nr.wire \in Seq(Message)
      /\ \A i \in 1 .. Len(nr.wire) : nr.wire[i] = kr.wire[i + 1]
  BY <1>1
<1>3. kr.state \notin {"unborn", "loading"}
  BY DEF Orderly
<1>4. \A i \in 1 .. Len(nr.wire) :
        /\ nr.wire[i].type # "ready"
        /\ nr.wire[i].type = "exiting" => nr.state \in {"leaving", "gone"}
  BY <1>1, <1>2 DEF Orderly
<1>5. Head(kr.wire) = kr.wire[1]
  BY <1>1
<1>6. nr.wire # <<>> => Head(nr.wire) = nr.wire[1] /\ 1 \in 1 .. Len(nr.wire)
  BY <1>2
<1> QED BY <1>1, <1>3, <1>4, <1>5, <1>6 DEF Orderly, Unheard

-----------------------------------------------------------------------------
(* What the stretches of a run do to the children and the fields.          *)

\* Only these fields matter to the children.
LEMMA OursDependsOn ==
  ASSUME NEW k, NEW s, NEW t, Ours(k, s),
         t.proc = s.proc, t.gen = s.gen, t.dead = s.dead, t.ready = s.ready
  PROVE  Ours(k, t)
  BY DEF Ours, Spawned, Current, Kept

\* The child after a killed one was told to go is another.
LEMMA DisownOurs ==
  ASSUME NEW k, NEW s \in SupRec, NEW rn, Ours(k, s), Killed(k, s, rn), rn.pc \in Killing
  PROVE  Ours(k, Disowned(s))
<1>1. /\ Disowned(s).proc = NoProc /\ Disowned(s).gen = s.gen
      /\ Disowned(s).dead /\ ~Disowned(s).ready
  BY DEF Disowned, SupRec
<1>2. /\ rn.proc \in Generation /\ k[rn.proc].told /\ s.proc \in {NoProc, rn.proc}
      /\ s.gen # 0 /\ k[s.gen].state = "unborn"
  BY DEF Killed
<1>3. s.gen \in Generation
  BY <1>2, BoundsAssumption DEF SupRec, Generation
<1>4. ~Unheard(k[s.gen])
  BY <1>2, <1>3 DEF Ours, Spawned, Orderly, Unheard
<1>5. Spawned(k, Disowned(s)) /\ Current(k, Disowned(s))
  BY <1>1, <1>4 DEF Ours, Spawned, Current
<1>6. Kept(k, Disowned(s))
  BY <1>1, <1>2 DEF Ours, Kept, NoProc, Generation
<1> QED BY <1>5, <1>6 DEF Ours

\* Spawning, when the old child is gone from the fields or was told to go.
LEMMA SpawnOurs ==
  ASSUME NEW k \in Children, NEW s \in SupRec, Ours(k, s), s.gen + 1 <= MaxGen,
         s.proc = NoProc \/ k[s.proc].told,
         NEW t, t.proc = s.gen + 1, t.gen = s.gen + 1, ~t.ready, ~t.dead
  PROVE  Ours([k EXCEPT ![s.gen + 1].state = "loading"], t)
<1> DEFINE g == s.gen + 1
           n == [k EXCEPT ![g].state = "loading"]
<1>1. g \in Generation /\ s.gen \in 0 .. MaxGen
  BY BoundsAssumption DEF SupRec, Generation
<1>2. k[g].state = "unborn" /\ k[g] \in ChildRec /\ Orderly(k[g])
  BY <1>1 DEF Ours, Spawned, Children, Generation
<1>3. /\ n[g].state = "loading" /\ n[g].wire = k[g].wire /\ n[g].told = k[g].told
      /\ \A c \in Generation : c # g => n[c] = k[c]
  BY <1>1, <1>2 DEF Children, ChildRec
<1> HIDE DEF n
<1>4. Orderly(n[g]) /\ Unheard(n[g])
  BY <1>2, <1>3 DEF Orderly, Unheard
<1>5. Spawned(n, t)
  BY <1>1, <1>3, <1>4 DEF Ours, Spawned, Generation
<1>6. Current(n, t)
  BY <1>4 DEF Current
<1>7. Kept(n, t)
  BY <1>1, <1>3 DEF Ours, Kept, Generation, NoProc
<1> QED BY <1>5, <1>6, <1>7 DEF Ours, n

\* Telling a child to go changes nothing else of it.
LEMMA ToldColumns ==
  ASSUME NEW k \in Children, NEW c \in Generation
  PROVE  LET n == [k EXCEPT ![c].told = TRUE] IN
         /\ n[c].told /\ n[c].state = k[c].state /\ n[c].wire = k[c].wire
         /\ n[c].seen = k[c].seen
         /\ \A d \in Generation : d # c => n[d] = k[d]
  BY DEF Children, ChildRec

\* Telling a child that was spawned to go keeps the children's order.
LEMMA ToldOurs ==
  ASSUME NEW k \in Children, NEW c \in Generation, NEW s \in SupRec, Ours(k, s),
         k[c].state # "unborn"
  PROVE  Ours([k EXCEPT ![c].told = TRUE], s)
<1> DEFINE n == [k EXCEPT ![c].told = TRUE]
<1>1. /\ n[c].told /\ n[c].state = k[c].state /\ n[c].wire = k[c].wire
      /\ \A d \in Generation : d # c => n[d] = k[d]
  BY ToldColumns
<1> HIDE DEF n
<1>2. \A d \in Generation : /\ Orderly(n[d]) <=> Orderly(k[d])
                            /\ Unheard(n[d]) <=> Unheard(k[d])
                            /\ n[d].state = k[d].state /\ n[d].wire = k[d].wire
                            /\ k[d].told => n[d].told
  BY ZenonT(30), <1>1 DEF Orderly, Unheard
<1>3. s.gen # 0 => s.gen \in Generation
  BY BoundsAssumption DEF SupRec, Generation
<1>4. s.proc # NoProc => s.proc \in Generation
  BY BoundsAssumption DEF SupRec, Generation, NoProc
<1>5. s.proc # NoProc => s.gen # 0
  BY <1>4 DEF Ours, Spawned, NoProc, Generation, SupRec
<1>6. Spawned(n, s)
  BY <1>2, <1>3, <1>4, <1>5 DEF Ours, Spawned
<1>7. Current(n, s)
  BY <1>2, <1>3 DEF Ours, Current
<1>8. Kept(n, s)
  BY <1>2, <1>4 DEF Ours, Kept
<1> QED BY <1>6, <1>7, <1>8 DEF Ours, n

\* Disowning a child that was told to go leaves a generation without one.
LEMMA NextGenerationOurs ==
  ASSUME NEW k \in Children, NEW s \in SupRec, Ours(k, s), s.gen < MaxGen,
         s.proc # NoProc => k[s.proc].told,
         NEW t, t.proc = s.proc, t.gen = s.gen + 1, t.ready = s.ready, t.dead = s.dead
  PROVE  Ours(k, t) /\ s.gen + 1 \in Generation /\ k[s.gen + 1].state = "unborn"
<1>1. s.gen + 1 \in Generation /\ s.gen \in Nat
  BY BoundsAssumption DEF SupRec, Generation
<1>2. k[s.gen + 1].state = "unborn" /\ Orderly(k[s.gen + 1])
  BY <1>1 DEF Ours, Spawned
<1>3. ~Unheard(k[s.gen + 1])
  BY <1>2 DEF Orderly, Unheard
<1>4. s.proc # NoProc => s.proc \in Nat /\ s.proc <= s.gen
  BY DEF Ours, Spawned, SupRec
<1>5. Spawned(k, t)
  BY <1>1, <1>2, <1>4 DEF Ours, Spawned, Generation
<1>6. Current(k, t)
  BY <1>1, <1>3, <1>4 DEF Current, NoProc
<1>7. Kept(k, t)
  BY DEF Ours, Kept
<1> QED BY <1>1, <1>2, <1>5, <1>6, <1>7 DEF Ours

-----------------------------------------------------------------------------
(* How a stretch of the run ends.                                          *)

\* What holds within a stretch, of the children and the fields as they are.
Stretch(k, s, st, cs) ==
  /\ Ours(k, s) /\ NoSender(cs)
  /\ s.stopping <=> Active(st)
  /\ Active(st) => Halting(k, s, st) /\ Bounded(s, st)

\* A run that returns: ready if it succeeded, and nobody is about to write
\* otherwise.
LEMMA ReturnLife ==
  ASSUME NEW k, NEW s, NEW st, NEW cs \in Calling, NEW ok \in BOOLEAN,
         Stretch(k, s, st, cs), ok => s.ready,
         s.proc # NoProc /\ ~s.dead /\ ~s.ready => Active(st)
  PROVE  Life(k, s, NoRun, st, Resume(cs, ok))
<1>1. NoRun.pc = "idle"
  BY DEF NoRun
<1>2. ~ok => NoSender(Resume(cs, ok))
  BY DEF Stretch, NoSender, Resume, Settled, Calling, CallRec
<1>3. Senders(k, s, NoRun, Resume(cs, ok))
  BY <1>1, <1>2 DEF Senders, Eager, Killing
<1> QED BY <1>1, <1>3 DEF Life, Stretch, Killed, Killing, Watched, Stopped

\* A run that begins to wait for ready, while nothing is stopping.
LEMMA AwaitLife ==
  ASSUME NEW k, NEW s, NEW st, NEW cs, NEW pc \in Awaiting, NEW late,
         Stretch(k, s, st, cs), ~Active(st)
  PROVE  Life(k, s, At(pc, s.proc, s.gen, late), st, cs)
<1>1. At(pc, s.proc, s.gen, late).pc = pc /\ pc # "idle" /\ pc \notin Killing
  BY DEF At, Awaiting, Killing
<1> QED BY <1>1 DEF Life, Stretch, Killed, Watched, Stopped, Senders

\* A run that kills tells the child to go, and moves the generation on.
LEMMA KillLife ==
  ASSUME NEW k \in Children, NEW s \in SupRec, NEW st, NEW cs, NEW pc \in Killing, NEW late,
         Ours(k, s), NoSender(cs), s.stopping <=> Active(st),
         Active(st) => Halting(k, s, st) /\ st.run /\ st.proc \in 0 .. MaxGen /\ st.gen \in Int,
         s.proc # NoProc, s.gen < MaxGen, pc = "respawning" => s.dead
  PROVE  Life([k EXCEPT ![s.proc].told = TRUE], [s EXCEPT !.gen = @ + 1],
              At(pc, s.proc, s.gen, late), st, cs)
<1> DEFINE n == [k EXCEPT ![s.proc].told = TRUE]
           t == [s EXCEPT !.gen = @ + 1]
           rn == At(pc, s.proc, s.gen, late)
<1>1. s.proc \in Generation /\ k[s.proc].state # "unborn" /\ s.gen \in Nat
  BY BoundsAssumption DEF Ours, Spawned, SupRec, Generation, NoProc
<1>2. Ours(n, s) /\ n[s.proc].told /\ n \in Children
  BY <1>1, ToldOurs, ToldColumns, ToldOK
<1>3. \A d \in Generation : k[d].told => n[d].told
  BY <1>1, ToldColumns
<1>4. /\ t.proc = s.proc /\ t.gen = s.gen + 1 /\ t.ready = s.ready /\ t.dead = s.dead
      /\ t.stopping = s.stopping
  BY DEF SupRec
<1>5. rn.pc = pc /\ rn.proc = s.proc /\ rn.pc # "idle"
  BY DEF At, Killing
<1> HIDE DEF n, t, rn
<1>6. Ours(n, t) /\ n[t.gen].state = "unborn"
  BY <1>2, <1>4, NextGenerationOurs
<1>7. Killed(n, t, rn)
  BY <1>1, <1>2, <1>4, <1>5, <1>6 DEF Killed
<1>8. Active(st) => Halting(n, t, st)
  <2>1. st.proc # NoProc /\ st.proc \in 0 .. MaxGen => st.proc \in Generation
    BY BoundsAssumption DEF NoProc, Generation
  <2> QED BY <1>1, <1>3, <1>4, <2>1 DEF Halting
<1>9. Watched(t, rn, st) /\ Stopped(n, t, rn, st) /\ Senders(n, t, rn, cs)
  BY <1>4, <1>5, <1>8 DEF Watched, Stopped, Senders
<1> QED BY <1>6, <1>7, <1>9 DEF Life, n, t, rn

\* The same, as the step the actions take.
LEMMA KillStepLife ==
  ASSUME NEW k \in Children, NEW s \in SupRec, NEW cs, stop \in StopRec, NEW pc \in Killing,
         NEW late, Ours(k, s), NoSender(cs), s.stopping <=> Active(stop),
         Active(stop) => Halting(k, s, stop) /\ stop.run,
         s.proc # NoProc, pc = "respawning" => s.dead, Kill(k, s, cs, pc, late)
  PROVE  Life(child', sup', run', stop, call')
<1>1. stop.proc \in 0 .. MaxGen /\ stop.gen \in Int /\ s.gen < MaxGen
  BY BoundsAssumption DEF StopRec, Kill
<1>2. Life([k EXCEPT ![s.proc].told = TRUE], [s EXCEPT !.gen = @ + 1],
           At(pc, s.proc, s.gen, late), stop, cs)
  BY <1>1, KillLife
<1> QED BY <1>2 DEF Kill

\* A run that gives up kills the child if there is one.
LEMMA GiveUpLife ==
  ASSUME NEW k \in Children, NEW s \in SupRec, NEW cs \in Calling, stop \in StopRec,
         Stretch(k, s, stop, cs), Active(stop) => stop.run, GiveUp(k, s, cs)
  PROVE  Life(child', sup', run', stop, call')
<1>1. CASE s.proc # NoProc /\ ~s.ready
  <2>1. Kill(k, s, cs, "ending", TRUE)
    BY <1>1 DEF GiveUp
  <2>2. "ending" \in Killing
    BY DEF Killing
  <2> QED BY <1>1, <2>1, <2>2, KillStepLife DEF Stretch
<1>2. CASE ~(s.proc # NoProc /\ ~s.ready)
  <2>1. Return(k, s, cs, FALSE)
    BY <1>2 DEF GiveUp
  <2> QED BY <1>2, <2>1, ReturnLife DEF Return
<1> QED BY <1>1, <1>2

\* A spawned child is the current one, and has not spoken.
LEMMA SpawnLife ==
  ASSUME child \in Children, NEW s \in SupRec, NEW cs \in Calling, NEW late, stop \in StopRec,
         Stretch(child, s, stop, cs), ~s.stopping, s.proc = NoProc \/ child[s.proc].told,
         Spawn(s, cs, late)
  PROVE  Life(child', sup', run', stop, call')
<1> DEFINE g == s.gen + 1
           k == [child EXCEPT ![g].state = "loading"]
           t == [s EXCEPT !.proc = g, !.gen = g, !.ready = FALSE, !.dead = FALSE,
                          !.stopping = FALSE, !.promise = "pending"]
<1>1. g <= MaxGen /\ IF late THEN GiveUp(k, t, cs) ELSE Await(k, t, cs, "waiting", late)
  BY DEF Spawn
<1>2. k \in Children /\ t \in SupRec
  <2>1. g \in 0 .. MaxGen BY <1>1, BoundsAssumption DEF SupRec
  <2>2. k \in Children BY StateOK
  <2> HIDE DEF g
  <2> QED BY <2>1, <2>2, SupOK
<1>3. t.proc = s.gen + 1 /\ t.gen = s.gen + 1 /\ ~t.ready /\ ~t.dead /\ ~t.stopping
  BY DEF SupRec
<1> HIDE DEF t
<1>4. Ours(k, t)
  BY <1>1, <1>3, SpawnOurs DEF Stretch
<1> HIDE DEF k, g
<1>5. Stretch(k, t, stop, cs) /\ ~Active(stop)
  BY <1>3, <1>4 DEF Stretch
<1> QED BY <1>1, <1>2, <1>5, GiveUpLife, AwaitLife DEF Await, Awaiting

\* Whatever a run finds at the head of its loop.
LEMMA LoopLife ==
  ASSUME child \in Children, NEW s \in SupRec, NEW cs \in Calling, NEW late \in BOOLEAN,
         stop \in StopRec, Stretch(child, s, stop, cs),
         late /\ Active(stop) => stop.run, Loop(s, cs, late)
  PROVE  Life(child', sup', run', stop, call')
<1>1. CASE late
  BY <1>1, GiveUpLife DEF Loop
<1>2. CASE ~late /\ s.ready
  BY <1>2, ReturnLife DEF Loop, Return
<1>3. CASE ~late /\ ~s.ready /\ s.stopping
  BY <1>3, ReturnLife DEF Loop, Return, Stretch
<1>4. CASE ~late /\ ~s.ready /\ ~s.stopping
  <2>1. ~Active(stop)
    BY <1>4 DEF Stretch
  <2>2. \/ Await(child, s, cs, "cooling", late) \/ Await(child, s, cs, "waiting", late)
        \/ s.proc = NoProc /\ Spawn(s, cs, late)
        \/ s.proc # NoProc /\ s.dead /\ Kill(child, s, cs, "respawning", late)
    BY <1>4 DEF Loop
  <2>3. Kill(child, s, cs, "respawning", late) /\ s.proc # NoProc /\ s.dead =>
          Life(child', sup', run', stop, call')
    <3>1. "respawning" \in Killing
      BY DEF Killing
    <3> QED BY <2>1, <3>1, KillStepLife DEF Stretch
  <2> QED BY <1>4, <2>1, <2>2, <2>3, AwaitLife, SpawnLife DEF Await, Awaiting
<1> QED BY <1>1, <1>2, <1>3, <1>4

-----------------------------------------------------------------------------
(* The steps of the run.                                                   *)

Living == Life(child', sup', run', stop', call')

\* A stretch of the run begins when no caller is about to write.
LEMMA StretchBegins ==
  ASSUME LifeInv, NoSender(call), run.pc \notin Killing
  PROVE  Stretch(child, sup, stop, call)
  BY DEF LifeInv, Life, Stretch, Stopped

\* The variables have their types.
LEMMA Typed ==
  ASSUME LifeInv
  PROVE  /\ child \in Children /\ sup \in SupRec /\ run \in RunRec /\ stop \in StopRec
         /\ call \in Calling /\ run.late \in BOOLEAN
  BY DEF LifeInv, IInv, RunOK, CallsOK, RunRec

\* Backing off only sleeps.
LEMMA BackOffLife ==
  ASSUME LifeInv, NEW s \in SupRec, Stretch(child, s, stop, call), BackOff(s),
         ~s.failed => ~Active(stop), Active(stop) => stop.run
  PROVE  Life(child', sup', run', stop, call')
<1>1. CASE s.failed
  <2> DEFINE t == [s EXCEPT !.cooling = TRUE]
  <2>1. /\ t \in SupRec /\ t.proc = s.proc /\ t.gen = s.gen /\ t.dead = s.dead
        /\ t.ready = s.ready /\ t.stopping = s.stopping
    BY DEF SupRec
  <2>2. Loop(t, call, run.late)
    BY <1>1 DEF BackOff
  <2> HIDE DEF t
  <2>3. Ours(child, t)
    BY <2>1, OursDependsOn DEF Stretch
  <2>4. Stretch(child, t, stop, call)
    BY <2>1, <2>3 DEF Stretch, Halting, Bounded
  <2> QED BY <2>1, <2>2, <2>4, Typed, LoopLife
<1>2. CASE ~s.failed
  <2>1. "pausing" \in Awaiting
    BY DEF Awaiting
  <2> QED BY <1>2, <2>1, AwaitLife DEF BackOff, Await
<1> QED BY <1>1, <1>2

\* A start that failed backs off or gives up.
LEMMA StartFailedLife ==
  ASSUME LifeInv, Stretch(child, sup, stop, call), Active(stop) => stop.run, StartFailed
  PROVE  Life(child', sup', run', stop, call')
<1>1. CASE sup.stopping
  BY <1>1, Typed, ReturnLife DEF StartFailed, Return, Stretch
<1>2. CASE ~sup.stopping /\ sup.proc # NoProc /\ Kill(child, sup, call, "failing", run.late)
  <2>1. "failing" \in Killing
    BY DEF Killing
  <2> QED BY <1>2, <2>1, Typed, KillStepLife DEF Stretch
<1>3. CASE ~sup.stopping /\ BackOff(sup)
  BY <1>3, Typed, BackOffLife DEF Stretch
<1> QED BY <1>1, <1>2, <1>3 DEF StartFailed

\* The wait for ready ends, with the child ready or given up.
LEMMA WaitEndsLife ==
  ASSUME LifeInv, WaitEnds
  PROVE  Living
<1>1. stop' = stop /\ run.pc = "waiting"
  BY DEF WaitEnds
<1>2. Active(stop) => stop.run
  BY <1>1 DEF LifeInv, Life, Stopped
<1>3. NoSender(call)
  <2>1. CASE sup.promise # "pending"
    BY <1>1, <2>1 DEF LifeInv, Life, Senders, Eager
  <2>2. CASE ~Busy
    BY <2>2 DEF Busy, NoSender
  <2> QED BY <2>1, <2>2 DEF WaitEnds
<1>4. Stretch(child, sup, stop, call)
  BY <1>1, <1>3, StretchBegins DEF Killing
<1>5. CASE sup.ready /\ Return(child, sup, call, TRUE)
  BY <1>1, <1>4, <1>5, Typed, ReturnLife DEF Return, Living
<1>6. CASE Loop(sup, call, run.late)
  BY <1>1, <1>2, <1>4, <1>6, Typed, LoopLife DEF Living
<1>7. CASE StartFailed
  BY <1>1, <1>2, <1>4, <1>7, StartFailedLife DEF Living
<1> QED BY <1>5, <1>6, <1>7 DEF WaitEnds

\* The fields of a child that is disowned.
LEMMA DisownedIs ==
  ASSUME NEW s \in SupRec
  PROVE  /\ Disowned(s).proc = NoProc /\ Disowned(s).dead /\ ~Disowned(s).ready
         /\ Disowned(s).failed /\ Disowned(s).gen = s.gen
         /\ Disowned(s).stopping = s.stopping
  BY DEF Disowned, SupRec

\* The wait for a killed child's exit ends.
LEMMA KillEndsLife ==
  ASSUME LifeInv, KillEnds
  PROVE  Living
<1>1. stop' = stop /\ run.pc \in Killing
  BY DEF KillEnds
<1>2. /\ Ours(child, sup) /\ Killed(child, sup, run) /\ Stopped(child, sup, run, stop)
      /\ run.pc # "idle"
  BY <1>1 DEF LifeInv, Life, Killing
<1>3. NoSender(call)
  <2>1. CASE child[run.proc].seen
    BY <1>1, <2>1 DEF LifeInv, Life, Senders, Eager
  <2>2. CASE ~Busy
    BY <2>2 DEF Busy, NoSender
  <2> QED BY <2>1, <2>2 DEF KillEnds
<1>4. Active(stop) => stop.run
  BY <1>2 DEF Stopped
<1>5. CASE run.pc = "respawning" /\ Respawn
  <2>1. sup.dead /\ (sup.proc = NoProc \/ child[sup.proc].told)
    BY <1>1, <1>2, <1>5 DEF Killed
  <2>2. Stretch(child, sup, stop, call)
    BY <1>2, <1>3, <2>1 DEF Stretch, Stopped, Bounded
  <2>3. CASE sup.stopping
    BY <1>1, <1>5, <2>1, <2>2, <2>3, Typed, ReturnLife DEF Respawn, Return, Living
  <2>4. CASE ~sup.stopping
    BY <1>1, <1>5, <2>1, <2>2, <2>4, Typed, SpawnLife DEF Respawn, Living
  <2> QED BY <2>3, <2>4
<1>6. Stretch(child, Disowned(sup), stop, call) /\ Disowned(sup) \in SupRec
  <2>1. Ours(child, Disowned(sup))
    BY <1>1, <1>2, Typed, DisownOurs
  <2> QED BY <1>2, <1>3, <2>1, Typed, DisownedIs, DisownedOK
       DEF Stretch, Stopped, Halting, Bounded
<1>7. CASE BackOff(Disowned(sup))
  BY <1>1, <1>4, <1>6, <1>7, Typed, DisownedIs, BackOffLife DEF Living
<1>8. CASE Return(child, Disowned(sup), call, FALSE)
  BY <1>1, <1>6, <1>8, Typed, DisownedIs, ReturnLife DEF Return, Living
<1> QED BY <1>5, <1>7, <1>8 DEF KillEnds

\* The sleep before another attempt ends, and it spawns or gives up.
LEMMA SleepEndsLife ==
  ASSUME LifeInv, SleepEnds
  PROVE  Living
<1>1. /\ stop' = stop /\ run.pc \in {"pausing", "cooling"} /\ NoSender(call)
      /\ Loop(sup, call, run.late)
  BY DEF SleepEnds, Busy, NoSender
<1>2. Active(stop) => stop.run
  BY <1>1 DEF LifeInv, Life, Stopped
<1>3. Stretch(child, sup, stop, call)
  BY <1>1, StretchBegins DEF Killing
<1> QED BY <1>1, <1>2, <1>3, Typed, LoopLife DEF Living

\* A caller that asks changes no child.
LEMMA AskLife ==
  ASSUME LifeInv, NEW r \in Call, Ask(r)
  PROVE  Living
<1>1. stop' = stop /\ NoSender(call) /\ ~Eager(child, sup, run) /\ call[r].state = "idle"
  BY DEF Ask, Busy, NoSender, Eager
<1>2. call[r] \in CallRec
  BY Typed DEF Calling
<1>3. NoSender([call EXCEPT ![r].state = "waiting"])
  BY <1>1, <1>2, Typed DEF NoSender, Calling, CallRec
<1>4. CASE sup.ready /\ UNCHANGED <<child, sup, run>>
  BY <1>1, <1>4 DEF LifeInv, Life, Living, Senders
<1>5. CASE call' = [call EXCEPT ![r].state = "waiting"] /\ UNCHANGED <<child, sup, run>>
  BY <1>1, <1>3, <1>5 DEF LifeInv, Life, Living, Senders
<1>6. CASE run.pc = "idle" /\ Loop(sup, [call EXCEPT ![r].state = "waiting"], FALSE)
  <2>1. Stretch(child, sup, stop, call)
    BY <1>1, <1>6, StretchBegins DEF Killing
  <2>2. [call EXCEPT ![r].state = "waiting"] \in Calling
    BY <1>2, Typed DEF Calling, CallRec
  <2>3. Stretch(child, sup, stop, [call EXCEPT ![r].state = "waiting"])
    BY <1>3, <2>1 DEF Stretch
  <2> QED BY <1>1, <1>6, <2>2, <2>3, Typed, LoopLife DEF Living
<1> QED BY <1>4, <1>5, <1>6 DEF Ask

\* A caller that starts spawns a child if there is none.
LEMMA StartLife ==
  ASSUME LifeInv, Start
  PROVE  Living
<1>1. /\ stop' = stop /\ NoSender(call) /\ run.pc \notin Killing
      /\ Loop(sup, call, FALSE)
  BY DEF Start, Busy, NoSender, Killing
<1> QED BY <1>1, StretchBegins, Typed, LoopLife DEF Living

-----------------------------------------------------------------------------
(* The steps of the children.                                              *)

\* A child goes on: it says nothing new that it is ready, unless it was loading.
LEMMA ChildLife ==
  ASSUME LifeInv, NEW c \in Generation, NEW nr \in ChildRec,
         child' = [child EXCEPT ![c] = nr], UNCHANGED <<sup, run, stop, call>>,
         child[c].state \in {"loading", "up", "leaving"},
         nr.state \in {"up", "leaving", "gone"},
         nr.state = "up" => child[c].state \in {"loading", "up"},
         nr.told = child[c].told, nr.seen = child[c].seen, Orderly(nr),
         Unheard(nr) => Unheard(child[c]),
         Unheard(child[c]) => Unheard(nr) \/ (nr.wire = <<>> /\ nr.state = "gone")
  PROVE  Living
<1>1. /\ child'[c] = nr /\ \A d \in Generation : d # c => child'[d] = child[d]
      /\ child'[c].told = child[c].told /\ child'[c].seen = child[c].seen
  BY Typed DEF Children
<1>2. \A d \in Generation : child'[d].told = child[d].told /\ child'[d].seen = child[d].seen
  BY <1>1
<1>3. /\ Ours(child, sup) /\ Killed(child, sup, run) /\ Watched(sup, run, stop)
      /\ Stopped(child, sup, run, stop) /\ Senders(child, sup, run, call)
  BY DEF LifeInv, Life
<1>4. sup.gen # 0 => sup.gen \in Generation
  BY Typed, BoundsAssumption DEF SupRec, Generation
<1>5. sup.proc # NoProc => sup.proc \in Generation
  BY Typed, BoundsAssumption DEF SupRec, Generation, NoProc
<1>6. stop.proc # NoProc => stop.proc \in Generation
  BY Typed, BoundsAssumption DEF StopRec, Generation, NoProc
<1>7. sup.proc # NoProc => sup.gen # 0
  BY <1>3, <1>5, Typed DEF Ours, Spawned, NoProc, Generation, SupRec
<1>8. \A d \in Generation : child'[d].state = "unborn" <=> child[d].state = "unborn"
  BY <1>1
<1>9. Spawned(child', sup)
  BY <1>1, <1>2, <1>3, <1>4, <1>5, <1>7, <1>8 DEF Ours, Spawned
<1>10. Current(child', sup)
  BY <1>1, <1>3, <1>4 DEF Ours, Current
<1>11. Kept(child', sup)
  BY <1>1, <1>3, <1>5 DEF Ours, Kept
<1>12. Killed(child', sup, run) /\ (run.pc \in Killing => run.proc \in Generation)
  BY <1>2, <1>3, <1>4, <1>8 DEF Killed
<1>13. Stopped(child', sup, run, stop)
  BY <1>2, <1>3, <1>6 DEF Stopped, Halting
<1>14. Senders(child', sup, run, call)
  BY <1>2, <1>3, <1>12 DEF Senders, Eager
<1> QED BY <1>3, <1>9, <1>10, <1>11, <1>12, <1>13, <1>14 DEF Living, Life, Ours

\* The same, when it says something else than that it is ready.
LEMMA ChildSaysLife ==
  ASSUME LifeInv, NEW c \in Generation, NEW nr \in ChildRec, NEW m \in Message,
         child' = [child EXCEPT ![c] = nr], UNCHANGED <<sup, run, stop, call>>,
         child[c].state = "up", nr.state \in {"up", "leaving"},
         m.type # "ready", m.type = "exiting" => nr.state = "leaving",
         nr.wire = Append(child[c].wire, m),
         nr.told = child[c].told, nr.seen = child[c].seen
  PROVE  Living
<1>1. child[c] \in ChildRec /\ Orderly(child[c])
  BY Typed DEF Children, LifeInv, Life, Ours, Spawned
<1>2. /\ Orderly(nr)
      /\ child[c].wire # <<>> => (Unheard(nr) <=> Head(child[c].wire).type = "ready")
      /\ child[c].wire = <<>> => ~Unheard(nr)
  BY <1>1, SaidOrderly
<1>3. Unheard(nr) <=> Unheard(child[c])
  BY <1>2 DEF Unheard
<1> QED BY <1>2, <1>3, ChildLife

\* A child loads, speaks, leaves or dies on its own.
LEMMA ChildNextLife ==
  ASSUME LifeInv, ChildNext
  PROVE  Living
<1>1. PICK c \in Generation :
        \/ ChildReady(c)
        \/ \E id \in child[c].asked, type \in {"result", "error"} : ChildReplies(c, id, type)
        \/ ChildIdles(c) \/ ChildCrashes(c) \/ ChildStops(c)
  BY DEF ChildNext
<1>2. child[c] \in ChildRec /\ Orderly(child[c]) /\ child[c].wire \in Seq(Message)
  BY Typed DEF Children, ChildRec, LifeInv, Life, Ours, Spawned
<1>3. CASE ChildReady(c)
  <2> DEFINE m == [type |-> "ready"]
             nr == [child[c] EXCEPT !.state = "up", !.wire = Append(@, m)]
  <2>1. m \in Message /\ m.type = "ready"
    BY DEF Message
  <2>2. /\ nr \in ChildRec /\ nr.state = "up" /\ nr.told = child[c].told
        /\ nr.seen = child[c].seen /\ nr.wire = Append(child[c].wire, m)
    <3>1. nr \in ChildRec
      BY <1>2, <2>1, WireOK
    <3> QED BY <1>2, <3>1 DEF ChildRec
  <2>3. child' = [child EXCEPT ![c] = nr] /\ child[c].state = "loading"
    BY <1>3, Typed DEF ChildReady, Children
  <2>4. UNCHANGED <<sup, run, stop, call>>
    BY <1>3 DEF ChildReady
  <2> HIDE DEF m, nr
  <2>5. child[c].wire = <<>>
    BY <1>2, <2>3 DEF Orderly
  <2>6. Orderly(nr) /\ Unheard(nr) /\ Unheard(child[c])
    BY <1>2, <2>1, <2>2, <2>3, <2>5, SaidOrderly DEF Unheard
  <2> QED BY <2>2, <2>3, <2>4, <2>6, ChildLife
<1>4. ASSUME NEW id \in child[c].asked, NEW type \in {"result", "error"},
             ChildReplies(c, id, type)
      PROVE  Living
  <2> DEFINE m == [type |-> type, id |-> id]
             nr == [child[c] EXCEPT !.asked = @ \ {id}, !.wire = Append(@, m)]
  <2>1. m \in Message /\ m.type = type
    BY <1>2 DEF Message, ChildRec
  <2>2. nr \in ChildRec
    BY <1>2, <2>1, WireOK
  <2>3. /\ nr.state = child[c].state /\ nr.told = child[c].told
        /\ nr.seen = child[c].seen /\ nr.wire = Append(child[c].wire, m)
    BY <1>2 DEF ChildRec
  <2>4. child' = [child EXCEPT ![c] = nr] /\ child[c].state = "up"
    BY <1>4, Typed DEF ChildReplies, Children
  <2>5. UNCHANGED <<sup, run, stop, call>>
    BY <1>4 DEF ChildReplies
  <2> HIDE DEF m, nr
  <2>6. m.type # "ready" /\ m.type # "exiting"
    BY <2>1
  <2> QED BY <2>1, <2>2, <2>3, <2>4, <2>5, <2>6, ChildSaysLife
<1>5. CASE ChildIdles(c)
  <2> DEFINE m == [type |-> "exiting"]
             nr == [child[c] EXCEPT !.state = "leaving", !.wire = Append(@, m)]
  <2>1. m \in Message /\ m.type = "exiting"
    BY DEF Message
  <2>2. /\ nr \in ChildRec /\ nr.state = "leaving" /\ nr.told = child[c].told
        /\ nr.seen = child[c].seen /\ nr.wire = Append(child[c].wire, m)
    <3>1. nr \in ChildRec
      BY <1>2, <2>1, WireOK
    <3> QED BY <1>2, <3>1 DEF ChildRec
  <2>3. child' = [child EXCEPT ![c] = nr] /\ child[c].state = "up"
    BY <1>5, Typed DEF ChildIdles, Children
  <2>4. UNCHANGED <<sup, run, stop, call>>
    BY <1>5 DEF ChildIdles
  <2> HIDE DEF m, nr
  <2> QED BY <2>1, <2>2, <2>3, <2>4, ChildSaysLife
<1>6. CASE ChildCrashes(c) \/ ChildStops(c)
  <2> DEFINE nr == [child[c] EXCEPT !.state = "gone"]
  <2>1. /\ nr \in ChildRec /\ nr.state = "gone" /\ nr.told = child[c].told
        /\ nr.seen = child[c].seen /\ nr.wire = child[c].wire
    BY <1>2 DEF ChildRec
  <2>2. child' = [child EXCEPT ![c] = nr] /\ child[c].state \in {"loading", "up", "leaving"}
    BY <1>6, Typed DEF ChildCrashes, ChildStops, Children
  <2>3. UNCHANGED <<sup, run, stop, call>>
    BY <1>6 DEF ChildCrashes, ChildStops
  <2> HIDE DEF nr
  <2>4. Orderly(nr) /\ (Unheard(nr) => Unheard(child[c]))
    BY <1>2, <2>1, <2>2 DEF Orderly, Unheard
  <2>5. Unheard(child[c]) => Unheard(nr) \/ (nr.wire = <<>> /\ nr.state = "gone")
    BY <1>2, <2>1, <2>2 DEF Orderly, Unheard
  <2> QED BY <2>1, <2>2, <2>3, <2>4, <2>5, ChildLife
<1> QED BY <1>1, <1>3, <1>4, <1>5, <1>6

-----------------------------------------------------------------------------
(* Writing to a child, and the clock.                                      *)

Parts ==
  /\ Ours(child, sup) /\ Killed(child, sup, run) /\ Watched(sup, run, stop)
  /\ Stopped(child, sup, run, stop) /\ Senders(child, sup, run, call)
  /\ sup.gen # 0 => sup.gen \in Generation
  /\ sup.proc # NoProc => sup.proc \in Generation /\ sup.gen # 0
  /\ stop.proc # NoProc => stop.proc \in Generation

\* What the actions read of the invariant.
LEMMA PartsHold ==
  ASSUME LifeInv
  PROVE  Parts
<1>1. /\ Ours(child, sup) /\ Killed(child, sup, run) /\ Watched(sup, run, stop)
      /\ Stopped(child, sup, run, stop) /\ Senders(child, sup, run, call)
  BY DEF LifeInv, Life
<1>2. /\ sup.gen # 0 => sup.gen \in Generation
      /\ sup.proc # NoProc => sup.proc \in Generation
      /\ stop.proc # NoProc => stop.proc \in Generation
  BY Typed, BoundsAssumption DEF SupRec, StopRec, Generation, NoProc
<1>3. sup.proc # NoProc => sup.gen # 0
  BY <1>1, <1>2, Typed DEF Ours, Spawned, NoProc, Generation, SupRec
<1> QED BY <1>1, <1>2, <1>3 DEF Parts

\* What a child was asked for does not matter here.
LEMMA AskedLife ==
  ASSUME LifeInv, UNCHANGED <<sup, run, stop>>, Senders(child, sup, run, call'),
         \A d \in Generation : /\ child'[d].state = child[d].state
                               /\ child'[d].wire = child[d].wire
                               /\ child'[d].told = child[d].told
                               /\ child'[d].seen = child[d].seen
  PROVE  Living
<1>1. Parts
  BY PartsHold
<1>2. \A d \in Generation : (Orderly(child'[d]) <=> Orderly(child[d]))
                         /\ (Unheard(child'[d]) <=> Unheard(child[d]))
  BY DEF Orderly, Unheard
<1>3. Spawned(child', sup)
  BY <1>1, <1>2 DEF Parts, Ours, Spawned
<1>4. Current(child', sup)
  BY <1>1, <1>2 DEF Parts, Ours, Current
<1>5. Kept(child', sup)
  BY <1>1 DEF Parts, Ours, Kept
<1>6. Killed(child', sup, run) /\ (run.pc \in Killing => run.proc \in Generation)
  BY <1>1 DEF Parts, Killed
<1>7. Stopped(child', sup, run, stop)
  BY <1>1 DEF Parts, Stopped, Halting
<1>8. Senders(child', sup, run, call')
  BY <1>6 DEF Senders, Eager
<1> QED BY <1>1, <1>3, <1>4, <1>5, <1>6, <1>7, <1>8 DEF Parts, Living, Life, Ours

\* A request sent adds nothing to what children said.
LEMMA SendLife ==
  ASSUME LifeInv, NEW r \in Call, Send(r)
  PROVE  Living
<1>1. call[r].state = "sending" /\ UNCHANGED <<run, stop>>
  BY DEF Send
<1>2. Parts /\ (sup.ready \/ sup.dead \/ sup.proc = NoProc) /\ ~Eager(child, sup, run)
  BY <1>1, PartsHold DEF Parts, Senders, NoSender
<1>3. CASE UNCHANGED <<child, sup>>
  <2>1. Senders(child, sup, run, call')
    BY <1>2 DEF Senders
  <2> QED BY <1>1, <1>3, <2>1, AskedLife
<1>4. CASE /\ UNCHANGED sup /\ sup.proc # NoProc
           /\ child' = [child EXCEPT ![sup.proc].asked = @ \cup {<<r, call[r].got + 1>>}]
  <2>1. sup.proc \in Generation /\ child[sup.proc] \in ChildRec
    BY <1>2, <1>4, Typed DEF Parts, Children
  <2>2. \A d \in Generation : /\ child'[d].state = child[d].state
                              /\ child'[d].wire = child[d].wire
                              /\ child'[d].told = child[d].told
                              /\ child'[d].seen = child[d].seen
    BY <1>4, <2>1, Typed DEF Children, ChildRec
  <2>3. Senders(child, sup, run, call')
    BY <1>2 DEF Senders
  <2> QED BY <1>1, <1>4, <2>2, <2>3, AskedLife
<1>5. CASE /\ sup.proc # NoProc /\ ~sup.dead /\ UNCHANGED child
           /\ sup' = [sup EXCEPT !.dead = TRUE, !.ready = FALSE]
  <2>1. /\ sup'.proc = sup.proc /\ sup'.gen = sup.gen /\ sup'.dead /\ ~sup'.ready
        /\ sup'.stopping = sup.stopping /\ sup'.promise = sup.promise
    BY <1>5, Typed DEF SupRec
  <2>2. sup.ready
    BY <1>2, <1>5
  <2>3. Ours(child, sup')
    BY <1>2, <2>1, <2>2 DEF Parts, Ours, Spawned, Current, Kept
  <2>4. Killed(child, sup', run) /\ Watched(sup', run, stop)
    BY <1>2, <2>1 DEF Parts, Killed, Watched
  <2>5. Stopped(child, sup', run, stop)
    BY <1>2, <2>1 DEF Parts, Stopped, Halting, Bounded
  <2>6. Senders(child, sup', run, call')
    BY <1>2, <2>1 DEF Senders, Eager
  <2> QED BY <1>1, <1>5, <2>3, <2>4, <2>5, <2>6 DEF Living, Life
<1> QED BY <1>3, <1>4, <1>5 DEF Send

\* Nobody is about to write when an event is taken.
LEMMA QuietNow ==
  ASSUME ~Busy
  PROVE  NoSender(call) /\ ~Eager(child, sup, run)
  BY DEF Busy, NoSender, Eager

\* A request that timed out kills no child by itself.
LEMMA RequestTimeoutLife ==
  ASSUME LifeInv, NEW r \in Call, RequestTimeout(r)
  PROVE  Living
<1>1. NoSender(call) /\ UNCHANGED <<child, sup, run, stop>> /\ call[r] \in CallRec
  BY QuietNow, Typed DEF RequestTimeout, Calling
<1>2. Settled(call[r], "failed").state = "failed"
  BY <1>1 DEF Settled, CallRec
<1>3. NoSender(call')
  BY <1>1, <1>2, Typed DEF RequestTimeout, NoSender, Calling
<1> QED BY <1>1, <1>3, AskedLife DEF Senders

\* Time changes no child.
LEMMA ClockLife ==
  ASSUME LifeInv, Deadline \/ CooldownEnds
  PROVE  Living
<1>1. Parts /\ NoSender(call) /\ UNCHANGED <<child, stop, call>>
  BY QuietNow, PartsHold DEF Deadline, CooldownEnds
<1>2. /\ run'.pc = run.pc /\ run'.proc = run.proc
      /\ sup'.proc = sup.proc /\ sup'.gen = sup.gen /\ sup'.dead = sup.dead
      /\ sup'.ready = sup.ready /\ sup'.stopping = sup.stopping
  BY Typed DEF Deadline, CooldownEnds, RunRec, SupRec
<1>3. Ours(child, sup')
  BY <1>1, <1>2, OursDependsOn DEF Parts
<1>4. Killed(child, sup', run') /\ Watched(sup', run', stop)
  BY <1>1, <1>2 DEF Parts, Killed, Watched
<1>5. Stopped(child, sup', run', stop)
  BY <1>1, <1>2 DEF Parts, Stopped, Halting, Bounded
<1> QED BY <1>1, <1>3, <1>4, <1>5 DEF Living, Life, Senders

-----------------------------------------------------------------------------
(* What the server hears.                                                  *)

\* A message taken off a pipe.
LEMMA TakenOff ==
  ASSUME LifeInv, NEW c \in Generation, child[c].wire # <<>>,
         child' = [child EXCEPT ![c].wire = Tail(@)]
  PROVE  /\ Orderly(child'[c]) /\ ~Unheard(child'[c])
         /\ child[c].state \notin {"unborn", "loading"}
         /\ Head(child[c].wire).type = "exiting" => child[c].state \in {"leaving", "gone"}
         /\ \A d \in Generation : d # c => child'[d] = child[d]
         /\ \A d \in Generation : /\ child'[d].state = child[d].state
                                  /\ child'[d].told = child[d].told
                                  /\ child'[d].seen = child[d].seen
<1>1. child[c] \in ChildRec /\ Orderly(child[c])
  BY Typed, PartsHold DEF Children, Parts, Ours, Spawned
<1>2. /\ child'[c].wire = Tail(child[c].wire) /\ child'[c].state = child[c].state
      /\ child'[c].told = child[c].told /\ child'[c].seen = child[c].seen
      /\ \A d \in Generation : d # c => child'[d] = child[d]
  BY <1>1, Typed DEF Children, ChildRec
<1> QED BY <1>1, <1>2, HeardOrderly

\* What a message or an exit of child c leaves.
Heard(c) ==
  /\ \A d \in Generation : d # c => child'[d] = child[d]
  /\ child'[c].state = child[c].state /\ child'[c].told = child[c].told
  /\ Orderly(child'[c]) /\ ~Unheard(child'[c]) /\ child[c].state \notin {"unborn", "loading"}
  /\ sup'.gen = sup.gen /\ sup'.stopping = sup.stopping /\ UNCHANGED <<run, stop>>

\* The fields stay as they are.
LEMMA UnmovedLife ==
  ASSUME LifeInv, NEW c \in Generation, Heard(c), UNCHANGED sup,
         c = sup.gen => \/ sup.proc # c \/ sup.dead \/ sup.ready
                        \/ child'[c].wire = <<>> /\ child'[c].state = "gone",
         Senders(child', sup, run, call')
  PROVE  Living
<1>1. Parts
  BY PartsHold
<1>2. \A d \in Generation : child'[d].state = child[d].state /\ child'[d].told = child[d].told
  BY DEF Heard
<1>3. Spawned(child', sup)
  BY <1>1, <1>2 DEF Heard, Parts, Ours, Spawned
<1>4. Current(child', sup)
  BY <1>1 DEF Heard, Parts, Ours, Current
<1>5. Kept(child', sup)
  BY <1>1, <1>2 DEF Parts, Ours, Kept
<1>6. Killed(child', sup, run)
  BY <1>1, <1>2 DEF Parts, Killed
<1>7. Stopped(child', sup, run, stop)
  BY <1>1, <1>2 DEF Parts, Stopped, Halting
<1> QED BY <1>1, <1>3, <1>4, <1>5, <1>6, <1>7 DEF Heard, Living, Life, Ours, Parts

\* The latest child has reported ready.
LEMMA ReadiedLife ==
  ASSUME LifeInv, Heard(sup.gen), sup.gen \in Generation, sup.proc = sup.gen, ~sup.dead,
         sup'.proc = sup.proc, ~sup'.dead, sup'.ready, NoSender(call')
  PROVE  Living
<1>1. Parts /\ sup.gen # 0 /\ sup.gen # NoProc
  BY PartsHold DEF Generation, NoProc
<1>2. \A d \in Generation : child'[d].state = child[d].state /\ child'[d].told = child[d].told
  BY DEF Heard
<1>3. Spawned(child', sup')
  BY <1>1, <1>2 DEF Heard, Parts, Ours, Spawned
<1>4. Current(child', sup')
  BY <1>1 DEF Heard, Current
<1>5. Kept(child', sup')
  BY <1>1, <1>2 DEF Heard, Parts, Ours, Kept
<1>6. run.pc \notin Killing
  BY <1>1 DEF Heard, Parts, Killed
<1>7. Stopped(child', sup', run, stop)
  BY <1>1, <1>2 DEF Heard, Parts, Stopped, Halting, Bounded
<1> QED BY <1>3, <1>4, <1>5, <1>6, <1>7 DEF Heard, Living, Life, Ours, Killed, Watched, Senders

\* The latest child leaves, and is no longer the server's own.
LEMMA GoneLife ==
  ASSUME LifeInv, Heard(sup.gen), sup.gen \in Generation,
         child[sup.gen].state \in {"leaving", "gone"},
         sup'.proc = NoProc, sup'.dead, ~sup'.ready, NoSender(call')
  PROVE  Living
<1>1. Parts /\ sup.gen # 0
  BY PartsHold DEF Generation
<1>2. \A d \in Generation : child'[d].state = child[d].state /\ child'[d].told = child[d].told
  BY DEF Heard
<1>3. sup.proc \in {NoProc, sup.gen}
  BY <1>1 DEF Heard, Parts, Ours, Spawned
<1>4. Spawned(child', sup')
  BY <1>1, <1>2 DEF Heard, Parts, Ours, Spawned
<1>5. Current(child', sup')
  BY <1>1 DEF Heard, Current
<1>6. Kept(child', sup')
  BY <1>1, <1>2, <1>3 DEF Heard, Parts, Ours, Kept, NoProc, Generation
<1>7. run.pc \notin Killing
  BY <1>1 DEF Heard, Parts, Killed
<1>8. Stopped(child', sup', run, stop)
  BY <1>1, <1>2 DEF Heard, Parts, Stopped, Halting, Bounded
<1> QED BY <1>4, <1>5, <1>6, <1>7, <1>8 DEF Heard, Living, Life, Ours, Killed, Watched, Senders

\* Rejecting what is pending sends nothing.
LEMMA RejectSendsNone ==
  ASSUME NoSender(call), call \in Calling
  PROVE  NoSender(RejectAllPending(call))
  BY DEF NoSender, RejectAllPending, Settled, Calling, CallRec

\* A message is the head of one child's wire: ready, exiting or a reply.
LEMMA OnMessageLife ==
  ASSUME LifeInv, NEW c \in Generation, OnMessage(c)
  PROVE  Living
<1> DEFINE m == Head(child[c].wire)
<1>1. /\ child[c].wire # <<>> /\ UNCHANGED <<run, stop>>
      /\ child' = [child EXCEPT ![c].wire = Tail(@)]
      /\ NoSender(call) /\ ~Eager(child, sup, run) /\ Parts
  BY QuietNow, PartsHold DEF OnMessage
<1>2. /\ Orderly(child'[c]) /\ ~Unheard(child'[c])
      /\ child[c].state \notin {"unborn", "loading"}
      /\ m.type = "exiting" => child[c].state \in {"leaving", "gone"}
      /\ \A d \in Generation : d # c => child'[d] = child[d]
      /\ \A d \in Generation : /\ child'[d].state = child[d].state
                               /\ child'[d].told = child[d].told
                               /\ child'[d].seen = child[d].seen
  BY <1>1, TakenOff
<1>3. c = sup.gen => sup.gen # 0 /\ (sup.proc = c \/ sup.proc = NoProc)
  BY <1>1, <1>2 DEF Parts, Ours, Spawned, Generation
<1>4. CASE c # sup.gen
  <2>1. UNCHANGED <<sup, call>>
    BY <1>4 DEF OnMessage
  <2> QED BY <1>1, <1>2, <1>4, <2>1, UnmovedLife DEF Heard, Senders
<1>5. CASE c = sup.gen /\ m.type = "ready" /\ HearReady
  <2>1. Unheard(child[c])
    BY <1>1, <1>5 DEF Unheard
  <2>2. sup.proc = sup.gen /\ ~sup.dead
    BY <1>1, <1>3, <1>5, <2>1 DEF Parts, Ours, Current
  <2>3. /\ sup'.proc = sup.proc /\ sup'.gen = sup.gen /\ sup'.dead = sup.dead /\ sup'.ready
        /\ sup'.stopping = sup.stopping /\ call' = call
    BY <1>5, Typed DEF HearReady, SupRec
  <2> QED BY <1>1, <1>2, <1>5, <2>2, <2>3, ReadiedLife DEF Heard
<1>6. CASE c = sup.gen /\ m.type = "exiting" /\ HearExiting
  <2>1. /\ sup'.proc = NoProc /\ sup'.gen = sup.gen /\ sup'.dead /\ ~sup'.ready
        /\ sup'.stopping = sup.stopping
    BY <1>6, Typed DEF HearExiting, SupRec
  <2>2. NoSender(call')
    BY <1>1, <1>6, Typed, RejectSendsNone DEF HearExiting
  <2> QED BY <1>1, <1>2, <1>6, <2>1, <2>2, GoneLife DEF Heard
<1>7. CASE c = sup.gen /\ m.type \in {"result", "error"} /\ HearReply(m)
  <2>1. ~Unheard(child[c])
    BY <1>1, <1>2, <1>7 DEF Unheard
  <2>2. sup.proc # c \/ sup.dead \/ sup.ready
    BY <1>1, <1>3, <1>7, <2>1 DEF Parts, Ours, Current
  <2>3. sup.ready \/ sup.dead \/ sup.proc = NoProc
    BY <1>3, <1>7, <2>2
  <2>4. run.pc \notin Killing
    BY <1>1, <1>2, <1>7 DEF Parts, Killed
  <2>5. UNCHANGED sup
    BY <1>7 DEF HearReply
  <2>6. Senders(child', sup, run, call')
    BY <1>1, <2>3, <2>4 DEF Senders, Eager
  <2> QED BY <1>1, <1>2, <2>2, <2>5, <2>6, UnmovedLife DEF Heard
<1>8. c = sup.gen => Hear(m)
  BY DEF OnMessage
<1> HIDE DEF m
<1> QED BY <1>4, <1>5, <1>6, <1>7, <1>8 DEF Hear

\* An exit is reported after the last message: nothing is to be heard any more.
LEMMA OnExitLife ==
  ASSUME OrderedExit, LifeInv, NEW c \in Generation, OnExit(c)
  PROVE  Living
<1>1. /\ child[c].state = "gone" /\ child[c].wire = <<>> /\ UNCHANGED <<run, stop>>
      /\ child' = [child EXCEPT ![c].seen = TRUE]
      /\ NoSender(call) /\ Parts
  BY QuietNow, PartsHold DEF OnExit
<1>2. /\ child'[c].state = "gone" /\ child'[c].wire = <<>> /\ child'[c].told = child[c].told
      /\ \A d \in Generation : d # c => child'[d] = child[d]
  BY <1>1, Typed DEF Children, ChildRec
<1>3. Orderly(child'[c]) /\ ~Unheard(child'[c])
  BY <1>2 DEF Orderly, Unheard
<1>4. CASE c # sup.gen
  <2>1. UNCHANGED <<sup, call>>
    BY <1>4 DEF OnExit
  <2> QED BY <1>1, <1>2, <1>3, <1>4, <2>1, UnmovedLife DEF Heard, Senders
<1>5. CASE c = sup.gen
  <2>1. /\ sup'.proc = NoProc /\ sup'.gen = sup.gen /\ sup'.dead /\ ~sup'.ready
        /\ sup'.stopping = sup.stopping
    BY <1>5, Typed DEF OnExit, SupRec
  <2>2. NoSender(call')
    BY <1>1, <1>5, Typed, RejectSendsNone DEF OnExit
  <2> QED BY <1>1, <1>2, <1>3, <1>5, <2>1, <2>2, GoneLife DEF Heard
<1> QED BY <1>4, <1>5

-----------------------------------------------------------------------------
(* The teardown.                                                           *)

\* stop() begins: what is pending is rejected.
LEMMA StopBeginsLife ==
  ASSUME LifeInv, StopBegins
  PROVE  Living
<1>1. NoSender(call) /\ Parts /\ UNCHANGED <<run, call>>
  BY QuietNow, PartsHold DEF StopBegins
<1>2. /\ sup'.proc = sup.proc /\ sup'.gen = sup.gen /\ sup'.dead = sup.dead
      /\ sup'.ready = sup.ready /\ sup'.stopping
  BY Typed DEF StopBegins, SupRec
<1>3. /\ stop'.pc = IF sup.proc = NoProc THEN "settling" ELSE "asked"
      /\ stop'.proc = sup.proc /\ stop'.gen = sup.gen /\ stop'.run = (run.pc # "idle")
  BY DEF StopBegins
<1>4. Active(stop') /\ (stop'.pc = "asked" <=> sup.proc # NoProc)
  BY <1>3 DEF Active
<1>5. /\ Ours(child', sup)
      /\ sup.proc # NoProc => child'[sup.proc].told
      /\ \A d \in Generation : /\ child'[d].state = child[d].state
                               /\ child[d].told => child'[d].told
  <2>1. CASE sup.proc = NoProc
    BY <1>1, <2>1 DEF StopBegins, Parts
  <2>2. CASE sup.proc # NoProc
    <3>1. /\ sup.proc \in Generation /\ child[sup.proc].state # "unborn" /\ Ours(child, sup)
          /\ child' = [child EXCEPT ![sup.proc].told = TRUE]
      BY <1>1, <2>2 DEF StopBegins, Parts, Ours, Spawned
    <3>2. child \in Children /\ sup \in SupRec
      BY Typed
    <3>3. Ours([child EXCEPT ![sup.proc].told = TRUE], sup)
      BY <3>1, <3>2, ToldOurs
    <3>4. /\ child'[sup.proc].told /\ child'[sup.proc].state = child[sup.proc].state
          /\ \A d \in Generation : d # sup.proc => child'[d] = child[d]
      BY <3>1, <3>2, ToldColumns
    <3> QED BY <3>1, <3>3, <3>4
  <2> QED BY <2>1, <2>2
<1>6. Ours(child', sup')
  BY <1>2, <1>5, OursDependsOn
<1>7. Killed(child', sup', run)
  BY <1>1, <1>2, <1>5 DEF Parts, Killed
<1>8. sup.gen \in Int
  BY Typed DEF SupRec
<1>9. sup.proc <= sup.gen
  BY <1>1, Typed DEF Parts, Ours, Spawned, NoProc, SupRec
<1>10. Halting(child', sup', stop')
  BY <1>2, <1>3, <1>4, <1>5, <1>8, <1>9 DEF Halting
<1>11. Bounded(sup', stop')
  BY <1>2, <1>3, <1>8 DEF Bounded
<1>12. Stopped(child', sup', run, stop')
  BY <1>2, <1>3, <1>4, <1>10, <1>11 DEF Stopped
<1> QED BY <1>1, <1>4, <1>6, <1>7, <1>12 DEF Living, Life, Watched, Senders

\* stop() tells the child to exit.
LEMMA StopAskedLife ==
  ASSUME LifeInv, StopAsked
  PROVE  Living
<1>1. /\ Parts /\ stop.pc = "asked" /\ Active(stop) /\ sup.stopping
      /\ Halting(child, sup, stop) /\ UNCHANGED <<child, run, call>>
      /\ sup.gen \in Nat /\ stop.gen \in Nat
  BY PartsHold, Typed DEF StopAsked, Active, Parts, Stopped, SupRec, StopRec
<1>2. stop'.proc = stop.proc /\ stop'.gen = stop.gen /\ stop'.run = stop.run
  BY Typed DEF StopAsked, Settling, StopRec
<1>3. CASE sup.gen = stop.gen /\ sup.proc = stop.proc
  <2>1. sup.gen < MaxGen /\ stop'.pc = "killing" /\ Active(stop')
    BY <1>3, Typed DEF StopAsked, StopRec, Active
  <2>2. /\ sup'.proc = sup.proc /\ sup'.gen = sup.gen + 1 /\ sup'.dead = sup.dead
        /\ sup'.ready = sup.ready /\ sup'.stopping = sup.stopping
        /\ sup'.promise = sup.promise
    BY <1>3, Typed DEF StopAsked, SupRec
  <2>3. sup.proc # NoProc => child[sup.proc].told
    BY <1>1, <1>3 DEF Halting
  <2>4. Ours(child, sup') /\ child[sup'.gen].state = "unborn"
    <3>1. child \in Children /\ sup \in SupRec /\ Ours(child, sup)
      BY <1>1, Typed DEF Parts
    <3>2. Ours(child, sup') /\ child[sup.gen + 1].state = "unborn"
      BY <2>1, <2>2, <2>3, <3>1, NextGenerationOurs
    <3> QED BY <2>2, <3>2
  <2>5. Killed(child, sup', run)
    BY <1>1, <2>2, <2>4 DEF Parts, Killed
  <2>6. Halting(child, sup', stop')
    BY <1>1, <1>2, <1>3, <2>1, <2>2 DEF Halting
  <2>7. Bounded(sup', stop')
    BY <1>1, <1>2, <1>3, <2>1, <2>2 DEF Bounded
  <2>8. Stopped(child, sup', run, stop')
    BY <1>1, <1>2, <2>1, <2>2, <2>6, <2>7 DEF Parts, Stopped
  <2>9. Senders(child, sup', run, call)
    BY <1>1, <2>2 DEF Parts, Senders, Eager
  <2> QED BY <1>1, <2>1, <2>4, <2>5, <2>8, <2>9 DEF Living, Life, Watched
<1>4. CASE ~(sup.gen = stop.gen /\ sup.proc = stop.proc)
  <2>1. stop'.pc = "settling" /\ Active(stop') /\ UNCHANGED sup
    BY <1>4, Typed DEF StopAsked, Settling, StopRec, Active
  <2>2. Halting(child, sup, stop')
    BY <1>1, <1>2, <1>4, <2>1 DEF Halting
  <2>3. Stopped(child, sup, run, stop')
    BY <1>1, <1>2, <2>1, <2>2 DEF Parts, Stopped, Bounded
  <2> QED BY <1>1, <2>1, <2>3 DEF Parts, Living, Life, Watched
<1> QED BY <1>3, <1>4

\* stop() kills the child that did not exit in time.
LEMMA StopKilledLife ==
  ASSUME LifeInv, StopKilled
  PROVE  Living
<1>1. /\ Parts /\ stop.pc = "killing" /\ UNCHANGED <<child, sup, run, call>>
  BY PartsHold DEF StopKilled
<1>2. /\ stop'.proc = stop.proc /\ stop'.gen = stop.gen /\ stop'.run = stop.run
      /\ stop'.pc = "settling"
  BY Typed DEF StopKilled, Settling, StopRec
<1>3. Active(stop) /\ Active(stop')
  BY <1>1, <1>2 DEF Active
<1>4. Stopped(child, sup, run, stop')
  BY <1>1, <1>2, <1>3 DEF Parts, Stopped, Halting, Bounded
<1> QED BY <1>1, <1>3, <1>4 DEF Parts, Living, Life, Watched

\* stop() ends without a child.
LEMMA StopEndsLife ==
  ASSUME LifeInv, StopEnds
  PROVE  Living
<1>1. /\ Parts /\ stop.pc = "settling" /\ Active(stop) /\ UNCHANGED <<child, run>>
      /\ Halting(child, sup, stop) /\ sup.gen \in Int /\ stop.gen \in Int
  BY PartsHold, Typed DEF StopEnds, Active, Parts, Stopped, SupRec, StopRec
<1>2. run.pc = "idle" /\ run.pc \notin Killing
  BY <1>1 DEF StopEnds, Parts, Stopped, Killing
<1>3. Bounded(sup, stop)
  BY <1>1, <1>2 DEF Parts, Stopped
<1>4. ~Active(stop')
  BY Typed DEF StopEnds, StopRec, Active
<1>5. ~Eager(child, sup', run)
  BY <1>2 DEF Eager
<1>6. NoSender(call) => NoSender(call')
  BY Typed, RejectSendsNone DEF StopEnds
<1> DEFINE own == sup.proc = stop.proc /\ sup.gen \in {stop.gen, stop.gen + 1}
<1>7. CASE own
  <2>1. /\ sup'.proc = NoProc /\ sup'.gen = sup.gen /\ sup'.dead /\ ~sup'.ready
        /\ ~sup'.stopping
    BY <1>7, Typed DEF StopEnds, SupRec
  <2>2. sup.gen # 0 => ~Unheard(child[sup.gen])
    <3> SUFFICES ASSUME sup.gen # 0, Unheard(child[sup.gen])
                 PROVE  FALSE
      OBVIOUS
    <3>1. sup.proc = sup.gen
      BY <1>1 DEF Parts, Ours, Current
    <3>2. sup.proc # NoProc
      BY <3>1 DEF NoProc
    <3>3. stop.proc \in Int
      BY Typed DEF StopRec
    <3> QED BY <1>1, <1>7, <3>1, <3>2, <3>3 DEF Halting
  <2>3. Spawned(child, sup') /\ Current(child, sup')
    BY <1>1, <2>1, <2>2 DEF Parts, Ours, Spawned, Current
  <2>4. Kept(child, sup')
    BY <1>1, <1>7, <2>1 DEF Parts, Ours, Kept, Halting, NoProc, Generation
  <2> QED BY <1>1, <1>2, <1>4, <1>5, <2>1, <2>3, <2>4
       DEF Living, Life, Ours, Killed, Watched, Stopped, Senders
<1>8. CASE ~own
  <2>1. /\ sup'.proc = sup.proc /\ sup'.gen = sup.gen /\ sup'.dead = sup.dead
        /\ sup'.ready = sup.ready /\ ~sup'.stopping
    BY <1>8, Typed DEF StopEnds, SupRec
  <2>2. Ours(child, sup')
    BY <1>1, <2>1, OursDependsOn DEF Parts
  <2>3. sup.proc = NoProc \/ sup.dead
    BY <1>1, <1>3, <1>8 DEF Halting, Bounded
  <2> HIDE DEF own
  <2> QED BY <1>1, <1>2, <1>4, <1>5, <2>1, <2>2, <2>3
       DEF Living, Life, Killed, Watched, Stopped, Senders
<1> QED BY <1>7, <1>8

-----------------------------------------------------------------------------
(* The theorems.                                                           *)

\* The invariant is inductive where exits come in order.
LEMMA LifeStep ==
  ASSUME OrderedExit, LifeInv, [Next]_vars
  PROVE  LifeInv'
<1>1. IInv'
  BY StepOK DEF LifeInv
<1>2. CASE UNCHANGED vars
  <2>1. Living
    BY <1>2, AskedLife, PartsHold DEF vars, Parts
  <2> QED BY <1>1, <2>1 DEF LifeInv, Living
<1>3. CASE Next
  <2>1. Living
    BY <1>3, ChildNextLife, AskLife, RequestTimeoutLife, StartLife, StopBeginsLife,
       OnMessageLife, OnExitLife, WaitEndsLife, KillEndsLife, SleepEndsLife, StopAskedLife,
       StopKilledLife, StopEndsLife, SendLife, ClockLife
       DEF Next, Hearing, Running, Stopping, Sending
  <2> QED BY <1>1, <2>1 DEF LifeInv, Living
<1> QED BY <1>2, <1>3

\* What keeps the children accounted for.
THEOREM LifeHolds ==
  ASSUME OrderedExit
  PROVE  Spec => []LifeInv
<1>1. LifeInv /\ [Next]_vars => LifeInv'
  BY LifeStep
<1> QED BY <1>1, LifeBegins, PTL DEF Spec

\* Callers are let through to the child that reported ready and was not found
\* dead, however many children were lost before, if the runtime reports exits
\* in order.
THEOREM ReadyIsTheCurrentChild ==
  ASSUME OrderedExit
  PROVE  Spec => []ReadyIsCurrent
  BY LifeHolds, LifeMeans, PTL

\* No child that still runs is lost, and one that is not ready is waited for
\* with a deadline, if the runtime reports exits in order.
THEOREM NoChildIsLost ==
  ASSUME OrderedExit
  PROVE  Spec => []ChildrenAccountedFor
  BY LifeHolds, LifeMeans, PTL

-----------------------------------------------------------------------------
(* A shutdown is not overtaken by a start.                                 *)

StoppingInv == IInv /\ (sup.stopping <=> StopActive)

\* A stretch of the run leaves `stopping` alone, and spawns nothing under it.
Quietly(s) ==
  /\ sup'.stopping = s.stopping
  /\ s.stopping => \A c \in Generation :
                     child[c].state = "unborn" => child'[c].state = "unborn"

\* Killing spawns nothing.
LEMMA KillIsQuiet ==
  ASSUME child \in Children, NEW s \in SupRec, NEW cs, NEW pc, NEW late,
         Kill(child, s, cs, pc, late)
  PROVE  Quietly(s)
<1>1. sup'.stopping = s.stopping
  BY DEF Kill, SupRec
<1>2. \A c \in Generation : child'[c].state = child[c].state
  BY DEF Kill, Children, ChildRec
<1> QED BY <1>1, <1>2 DEF Quietly

\* Nor does giving up,
LEMMA GiveUpIsQuiet ==
  ASSUME child \in Children, NEW s \in SupRec, NEW cs, GiveUp(child, s, cs)
  PROVE  Quietly(s)
  BY KillIsQuiet DEF GiveUp, Return, Quietly

\* Spawning clears `stopping`, but happens only when it is clear.
LEMMA SpawnIsQuiet ==
  ASSUME NEW s \in SupRec, NEW cs, NEW late, ~s.stopping, Spawn(s, cs, late)
  PROVE  Quietly(s)
<1> DEFINE t == [s EXCEPT !.proc = s.gen + 1, !.gen = s.gen + 1, !.ready = FALSE,
                          !.dead = FALSE, !.stopping = FALSE, !.promise = "pending"]
<1>1. sup' = t \/ sup' = [t EXCEPT !.gen = @ + 1]
  BY DEF Spawn, GiveUp, Return, Kill, Await
<1>2. sup'.stopping = FALSE
  BY <1>1 DEF SupRec
<1>3. s.stopping = FALSE
  BY DEF SupRec
<1> QED BY <1>2, <1>3 DEF Quietly

\* nor the start loop while it is stopping,
LEMMA LoopIsQuiet ==
  ASSUME child \in Children, NEW s \in SupRec, NEW cs, NEW late, Loop(s, cs, late)
  PROVE  Quietly(s)
<1>1. \/ GiveUp(child, s, cs) \/ Return(child, s, cs, TRUE) \/ Return(child, s, cs, FALSE)
      \/ Await(child, s, cs, "cooling", late) \/ Await(child, s, cs, "waiting", late)
      \/ (~s.stopping /\ Spawn(s, cs, late)) \/ Kill(child, s, cs, "respawning", late)
  BY DEF Loop
<1> QED BY <1>1, GiveUpIsQuiet, SpawnIsQuiet, KillIsQuiet DEF Return, Await, Quietly

\* nor backing off,
LEMMA BackOffIsQuiet ==
  ASSUME child \in Children, NEW s \in SupRec, BackOff(s)
  PROVE  Quietly(s)
<1>1. [s EXCEPT !.cooling = TRUE] \in SupRec /\ [s EXCEPT !.cooling = TRUE].stopping = s.stopping
  BY DEF SupRec
<1> QED BY <1>1, LoopIsQuiet DEF BackOff, Await, Quietly

\* nor any step of a start that sees the flag.
LEMMA RunIsQuiet ==
  ASSUME IInv, Running \/ Start \/ \E r \in Call : Ask(r)
  PROVE  Quietly(sup) /\ UNCHANGED stop
<1>1. child \in Children /\ sup \in SupRec
  BY DEF IInv, RunOK
<1>2. Disowned(sup) \in SupRec /\ Disowned(sup).stopping = sup.stopping
  BY <1>1, DisownedOK, DisownedIs
<1>3. CASE WaitEnds
  BY <1>1, <1>3, LoopIsQuiet, KillIsQuiet, BackOffIsQuiet
     DEF WaitEnds, StartFailed, Return, Quietly
<1>4. CASE KillEnds
  <2>1. Respawn => Quietly(sup)
    BY <1>1, SpawnIsQuiet DEF Respawn, Return, Quietly
  <2>2. BackOff(Disowned(sup)) => Quietly(sup)
    BY <1>1, <1>2, BackOffIsQuiet DEF Quietly
  <2>3. Return(child, Disowned(sup), call, FALSE) => Quietly(sup)
    BY <1>2 DEF Return, Quietly
  <2> QED BY <1>4, <2>1, <2>2, <2>3 DEF KillEnds
<1>5. CASE SleepEnds
  BY <1>1, <1>5, LoopIsQuiet DEF SleepEnds
<1>6. CASE Start
  BY <1>1, <1>6, LoopIsQuiet DEF Start
<1>7. ASSUME NEW r \in Call, Ask(r) PROVE Quietly(sup) /\ UNCHANGED stop
  BY <1>1, <1>7, LoopIsQuiet DEF Ask, Quietly
<1> QED BY <1>3, <1>4, <1>5, <1>6, <1>7 DEF Running, WaitEnds, KillEnds, SleepEnds, Start

\* Everything else leaves `stopping` alone, or is the teardown's own step, and
\* spawns nothing.
LEMMA RestIsQuiet ==
  ASSUME StoppingInv, Next, ~Running, ~Start, \A r \in Call : ~Ask(r)
  PROVE  /\ sup'.stopping <=> StopActive'
         /\ \A c \in Generation : child[c].state = "unborn" => child'[c].state = "unborn"
<1>1. /\ child \in Children /\ sup \in SupRec /\ stop \in StopRec
      /\ sup.stopping <=> StopActive
  BY DEF StoppingInv, IInv, RunOK
<1>2. CASE ChildNext
  <2>1. UNCHANGED <<sup, stop>>
    BY <1>2 DEF ChildNext, ChildReady, ChildReplies, ChildIdles, ChildCrashes, ChildStops
  <2>2. PICK c \in Generation :
          \/ ChildReady(c)
          \/ \E id \in child[c].asked, type \in {"result", "error"} : ChildReplies(c, id, type)
          \/ ChildIdles(c) \/ ChildCrashes(c) \/ ChildStops(c)
    BY <1>2 DEF ChildNext
  <2>3. child[c].state # "unborn" /\ \A d \in Generation : d # c => child'[d] = child[d]
    BY <1>1, <2>2
       DEF ChildReady, ChildReplies, ChildIdles, ChildCrashes, ChildStops, Children
  <2> QED BY <1>1, <2>1, <2>3 DEF StopActive
<1>3. ASSUME NEW c \in Generation, OnMessage(c) \/ OnExit(c)
      PROVE  /\ UNCHANGED stop /\ sup'.stopping = sup.stopping
             /\ \A d \in Generation : child'[d].state = child[d].state
  <2>1. UNCHANGED stop /\ sup'.stopping = sup.stopping
    BY <1>1, <1>3 DEF OnMessage, OnExit, Hear, HearReady, HearExiting, HearReply, SupRec
  <2>2. child[c] \in ChildRec
    BY <1>1 DEF Children
  <2>3. \A d \in Generation : child'[d].state = child[d].state
    <3>1. \/ child' = [child EXCEPT ![c].wire = Tail(@)]
          \/ child' = [child EXCEPT ![c].seen = TRUE]
      BY <1>3 DEF OnMessage, OnExit
    <3>2. CASE child' = [child EXCEPT ![c].wire = Tail(@)]
      BY <1>1, <2>2, <3>2 DEF Children, ChildRec
    <3>3. CASE child' = [child EXCEPT ![c].seen = TRUE]
      BY <1>1, <2>2, <3>3 DEF Children, ChildRec
    <3> QED BY <3>1, <3>2, <3>3
  <2> QED BY <2>1, <2>3
<1>4. ASSUME NEW r \in Call, Send(r) \/ RequestTimeout(r)
      PROVE  /\ UNCHANGED stop /\ sup'.stopping = sup.stopping
             /\ \A d \in Generation : child'[d].state = child[d].state
  <2>1. UNCHANGED stop /\ sup'.stopping = sup.stopping
    BY <1>1, <1>4 DEF Send, RequestTimeout, SupRec
  <2>2. \A d \in Generation : child'[d].state = child[d].state
    BY SMTT(30), <1>1, <1>4 DEF Send, RequestTimeout, Children, ChildRec
  <2> QED BY <2>1, <2>2
<1>5. CASE Deadline \/ CooldownEnds
  <2>1. UNCHANGED <<child, stop>> /\ sup'.stopping = sup.stopping
    BY <1>1, <1>5 DEF Deadline, CooldownEnds, SupRec
  <2> QED BY <1>1, <2>1 DEF StopActive
<1>6. CASE StopBegins
  <2>1. sup'.stopping /\ StopActive'
    BY <1>1, <1>6 DEF StopBegins, SupRec, StopActive
  <2>2. \A d \in Generation : child'[d].state = child[d].state
    BY <1>1, <1>6 DEF StopBegins, Children, ChildRec
  <2> QED BY <2>1, <2>2
<1>7. CASE Stopping
  <2>1. UNCHANGED child
    BY <1>7 DEF Stopping, StopAsked, StopKilled, StopEnds
  <2>2. CASE StopAsked \/ StopKilled
    <3>1. sup'.stopping = sup.stopping
      BY <1>1, <2>2 DEF StopAsked, StopKilled, SupRec
    <3>2. StopActive /\ StopActive'
      BY <1>1, <2>2 DEF StopAsked, StopKilled, Settling, StopRec, StopActive
    <3> QED BY <1>1, <2>1, <3>1, <3>2
  <2>3. CASE StopEnds
    BY <1>1, <2>1, <2>3 DEF StopEnds, SupRec, StopRec, StopActive
  <2> QED BY <1>7, <2>2, <2>3 DEF Stopping
<1> QED BY <1>1, <1>2, <1>3, <1>4, <1>5, <1>6, <1>7
     DEF Next, Hearing, Sending, StopActive

\* While stop() is at work no step spawns a child, and the flag and the
\* teardown agree.
LEMMA StoppingStep ==
  ASSUME StoppingInv, [Next]_vars
  PROVE  /\ StoppingInv'
         /\ StopActive => \A c \in Generation :
                            child[c].state = "unborn" => child'[c].state = "unborn"
<1>1. IInv /\ IInv' /\ (sup.stopping <=> StopActive)
  BY StepOK DEF StoppingInv
<1>2. CASE Running \/ Start \/ \E r \in Call : Ask(r)
  BY <1>1, <1>2, RunIsQuiet DEF StoppingInv, Quietly, StopActive
<1>3. CASE Next /\ ~(Running \/ Start \/ \E r \in Call : Ask(r))
  BY <1>1, <1>3, RestIsQuiet DEF StoppingInv
<1>4. CASE UNCHANGED vars
  BY <1>1, <1>4 DEF StoppingInv, StopActive, vars
<1> QED BY <1>2, <1>3, <1>4

\* While the teardown runs no child is spawned, whatever run was under way when
\* it began: nothing clears shuttingDown but the teardown's end.
THEOREM ShutdownStands == Spec => NoSpawnDuringStop
<1> DEFINE Stands == StopActive => \A c \in Generation :
                       child[c].state = "unborn" => child'[c].state = "unborn"
<1>1. Init => StoppingInv
  BY InitOK DEF Init, StoppingInv, StopActive
<1>2. StoppingInv /\ [Next]_vars => StoppingInv' /\ [Stands]_vars
  BY StoppingStep
<1> QED BY <1>1, <1>2, PTL DEF Spec, NoSpawnDuringStop
=============================================================================
