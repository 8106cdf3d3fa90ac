------------------------------- MODULE Server -------------------------------
(***************************************************************************)
(* Processes on one database file, one of them the HTTP server: a process  *)
(* opens and migrates the file before it listens (index.ts), sessions live *)
(* while it serves, a signal stops it, and a crash ends everything it had. *)
(***************************************************************************)
EXTENDS Startup, Sessions

CONSTANTS Http,      \* the process that listens; the others are stdio servers
          Budgets    \* bound: the runs considered, [file, boots, reqs, events, time]

\* A file as a process that was not disturbed leaves it, or a new one.
Settled(f) ==
  /\ f \in Files
  /\ f.applied = 1..f.version
  /\ f.vec = "none" => f.version = 0 /\ f.dims = 0

ASSUME FilesAssumption == \A b \in Budgets : Settled(b.file)
ASSUME ListenerAssumption == Http \in Procs

VARIABLE budget      \* what is left of it

vars == <<startupVars, sessionVars, budget>>

Serving == At(Http, "serving")

Spend(what) == budget[what] > 0 /\ budget' = [budget EXCEPT ![what] = @ - 1]
Keep == budget' = budget

Init ==
  /\ budget \in Budgets
  /\ StartupInit(budget.file)
  /\ SessionsInit

\* openDatabase of one process, statement by statement.
Start ==
  \E p \in Procs :
    /\ Starts(p)
    /\ IF At(p, "down") THEN Spend("boots") ELSE Keep
    /\ UNCHANGED sessionVars

Index == /\ Embed /\ Keep /\ UNCHANGED sessionVars

\* The memory of a listener that ends.
Forget ==
  /\ sess' = <<>> /\ live' = {} /\ stop' = "up" /\ bucket' = <<>> /\ late' = {}
  /\ req' = [r \in Reqs |-> IF r \in InFlight THEN Over ELSE req[r]]
  /\ log' = [r \in Reqs |-> <<>>] /\ stored' = [r \in Reqs |-> <<>>]
  /\ peak' = [u \in Users |-> 0]
  /\ quota' = [u \in Users |-> [count |-> 0, reset |-> 0, forgotten |-> FALSE]]
  /\ UNCHANGED clock

Die ==
  \E p \in Procs :
    /\ Crash(p) /\ Keep
    /\ IF p = Http THEN Forget ELSE UNCHANGED sessionVars

\* What a listening server does for its clients.
Serve ==
  /\ Serving
  /\ \/ /\ Spend("reqs")
        /\ \E u \in Users, s \in {NoReq} \cup DOMAIN sess,
              kind \in {"stream", "delete", "resume"} : Arrive(Slot, u, s, kind)
     \/ /\ \E s \in Reqs, x \in Streams : Emit(s, x)
        /\ Spend("events")
     \/ /\ SessionTick /\ Spend("time")
     \/ /\ \/ \E r \in Reqs :
                \/ \E methods \in SUBSET {"initialize", "other"} : Probe(r, methods)
                \/ Register(r) \/ BuildFails(r) \/ Answer(r)
                \/ \E x \in Streams : OpenStream(r, x)
                \/ CloseSession(r) \/ EndStream(r)
                \/ \E s \in Reqs : \E e \in ToSet(log[s]) : Resume(r, e.id)
                \/ ReplayStep(r)
           \/ CleanUp \/ Sweep \/ Shutdown \/ Dispose \/ Clear
        /\ Keep
  /\ UNCHANGED startupVars

\* The last request answered, the server closes the file and exits.
Exit ==
  /\ Serving /\ stop = "draining" /\ InFlight = {}
  /\ Ends(Http) /\ Keep /\ Forget
  /\ UNCHANGED <<file, backups, taken, overlap, clash, unlinked>>

Next == Start \/ Index \/ Die \/ Serve \/ Exit

Spec == Init /\ [][Next]_vars
=============================================================================
