------------------------------ MODULE Service ------------------------------
(***************************************************************************)
(* One process of the API: requests that share a bounded pool of database  *)
(* connections, the readiness probe that needs a connection like any       *)
(* other, and the shutdown that drains them.                               *)
(*                                                                         *)
(* A handler works in sections, each of which takes a connection and gives *)
(* it back: the middleware's read, the transaction, and for some handlers  *)
(* a read of what was just written.  In the transaction it waits for a row *)
(* lock while it keeps its connection; between sections it keeps nothing.  *)
(* All writes contend for one row.  A released connection goes straight to *)
(* one of those who wait (database/sql chooses any).                       *)
(***************************************************************************)
EXTENDS Naturals, Sequences, FiniteSets

CONSTANTS Readers,  \* requests that only read: the public menu
          Editors,  \* requests that read the membership and write
          Rereaders, \* those that read back: entries, sections' updates
          Probe,    \* the load balancer's readiness request
          MaxConns, \* SetMaxOpenConns
          Grace     \* shutdownTimeout, in ticks

ASSUME PoolIsBounded == MaxConns \in Nat \ {0} /\ Grace \in Nat

\* Each comes at most once, but the load balancer asks again and again.
Reqs  == Readers \cup Editors \cup Rereaders
Procs == Reqs \cup {Probe}
Writes(p) == p \in Editors \cup Rereaders

ASSUME RequestsAreOneKind ==
  /\ Probe \notin Reqs
  /\ Readers \cap (Editors \cup Rereaders) = {} /\ Editors \cap Rereaders = {}

\* What a handler does with the database, in sections.
Work(p) ==
  CASE p \in Editors   -> <<"read", "transaction">>
    [] p \in Rereaders -> <<"read", "transaction", "read">>
    [] OTHER           -> <<"read">>

VARIABLES
  phase,  \* "serving", "draining", "closed" (the database is) or "exited"
  left,   \* what is left of the grace period
  done,   \* of a process: how many of its sections it has done
  state,  \* "idle", "ready", "waiting", "using", "locked" or "ended"
  answer, \* "none", "ok", "error", "refused" (database closed) or "gone"
  stored, \* requests whose transaction is committed
  unsure, \* history: requests that lost the connection while committing
  abrupt  \* history: the listener failed or a second signal came

vars == <<phase, left, done, state, answer, stored, unsure, abrupt>>

Init ==
  /\ phase = "serving"
  /\ left = Grace
  /\ done = [p \in Procs |-> 0]
  /\ state = [p \in Procs |-> "idle"]
  /\ answer = [p \in Procs |-> "none"]
  /\ stored = {}
  /\ unsure = {}
  /\ abrupt = FALSE

Section(p) ==
  IF done[p] < Len(Work(p)) THEN Work(p)[done[p] + 1] ELSE "answer"

Running == phase # "exited"
Busy(p) == state[p] \notin {"idle", "ended"}

----------------------------------------------------------------------------
(* The pool.                                                               *)

InUse   == {p \in Procs : state[p] \in {"using", "locked"}}
Waiting == {p \in Procs : state[p] = "waiting"}

\* p goes over to state s, and its connection, if it has one, to a process
\* that waits.
Leave(p, s) ==
  IF p \in InUse /\ Waiting # {}
  THEN \E w \in Waiting : state' = [state EXCEPT ![p] = s, ![w] = "using"]
  ELSE state' = [state EXCEPT ![p] = s]

\* p's section ends well.
Release(p) ==
  /\ done' = [done EXCEPT ![p] = @ + 1]
  /\ Leave(p, "ready")
  /\ UNCHANGED answer

\* p's request ends.
Finish(p, a) ==
  /\ answer' = [answer EXCEPT ![p] = a]
  /\ Leave(p, "ended")
  /\ UNCHANGED done

\* Faulty: the pool has no bound.
Unbounded(p) ==
  /\ Running /\ state[p] = "ready" /\ Section(p) # "answer"
  /\ IF phase = "closed"
     THEN Finish(p, "refused")
     ELSE state' = [state EXCEPT ![p] = "using"] /\ UNCHANGED <<done, answer>>
  /\ UNCHANGED <<phase, left, stored, unsure, abrupt>>

\* The handler asks for a connection.
GetConn(p) ==
  /\ Running /\ state[p] = "ready" /\ Section(p) # "answer"
  /\ IF phase = "closed"
     THEN Finish(p, "refused")
     ELSE /\ state' = [state EXCEPT ![p] =
                         IF Cardinality(InUse) < MaxConns THEN "using" ELSE "waiting"]
          /\ UNCHANGED <<done, answer>>
  /\ UNCHANGED <<phase, left, stored, unsure, abrupt>>

----------------------------------------------------------------------------
(* Requests.                                                               *)

Arrive(p) ==
  /\ phase = "serving" /\ state[p] = "idle"
  /\ state' = [state EXCEPT ![p] = "ready"]
  /\ UNCHANGED <<phase, left, done, answer, stored, unsure, abrupt>>

\* A query ends, with rows to go on with or with a reason to refuse.
EndRead(p) ==
  /\ Running /\ state[p] = "using" /\ Section(p) = "read"
  /\ Release(p) \/ Finish(p, "error")
  /\ UNCHANGED <<phase, left, stored, unsure, abrupt>>

\* The transaction's first write gets the row.
LockRow(p) ==
  /\ Running /\ state[p] = "using" /\ Section(p) = "transaction"
  /\ \A q \in Procs : state[q] # "locked"
  /\ state' = [state EXCEPT ![p] = "locked"]
  /\ UNCHANGED <<phase, left, done, answer, stored, unsure, abrupt>>

Commit(p) ==
  /\ Running /\ state[p] = "locked" /\ Section(p) = "transaction"
  /\ stored' = stored \cup {p}
  /\ Release(p)
  /\ UNCHANGED <<phase, left, unsure, abrupt>>

\* Faulty: an error returns without the rollback.
Forget(p) ==
  /\ Running /\ state[p] \in {"using", "locked"} /\ Section(p) = "transaction"
  /\ answer' = [answer EXCEPT ![p] = "error"]
  /\ done' = [done EXCEPT ![p] = Len(Work(p))]
  /\ UNCHANGED <<phase, left, state, stored, unsure, abrupt>>

\* A statement fails: the deferred Rollback.
Rollback(p) ==
  /\ Running /\ state[p] \in {"using", "locked"} /\ Section(p) = "transaction"
  /\ Finish(p, "error")
  /\ UNCHANGED <<phase, left, stored, unsure, abrupt>>

\* The connection breaks after COMMIT was sent: the handler sees an error.
LoseCommit(p) ==
  /\ Running /\ state[p] = "locked" /\ Section(p) = "transaction"
  /\ stored' = stored \cup {p}
  /\ unsure' = unsure \cup {p}
  /\ Finish(p, "error")
  /\ UNCHANGED <<phase, left, abrupt>>

\* The client is gone: its context ends a wait and a transaction alike.
GiveUp(p) ==
  /\ Running /\ Busy(p)
  /\ Finish(p, "gone")
  /\ UNCHANGED <<phase, left, stored, unsure, abrupt>>

\* Faulty: the answer does not wait for the commit.
AnswerEarly(p) ==
  /\ Running /\ state[p] = "ready" /\ Section(p) # "read"
  /\ Finish(p, "ok")
  /\ UNCHANGED <<phase, left, stored, unsure, abrupt>>

\* The client takes the answer, as slowly as WriteTimeout allows.
Answer(p) ==
  /\ Running /\ state[p] = "ready" /\ Section(p) = "answer"
  /\ Finish(p, "ok")
  /\ UNCHANGED <<phase, left, stored, unsure, abrupt>>

----------------------------------------------------------------------------
(* Readiness: Health pings through the pool and waits one second at most.  *)

HandleReadiness ==
  /\ phase = "serving" /\ ~Busy(Probe)
  /\ state' = [state EXCEPT ![Probe] = "ready"]
  /\ done' = [done EXCEPT ![Probe] = 0]
  /\ UNCHANGED <<phase, left, answer, stored, unsure, abrupt>>

\* The second is over: 503, database unavailable.
HealthTimesOut ==
  /\ Running /\ state[Probe] \in {"waiting", "using"}
  /\ Finish(Probe, "error")
  /\ UNCHANGED <<phase, left, stored, unsure, abrupt>>

----------------------------------------------------------------------------
(* Shutdown.                                                               *)

Signal ==
  /\ phase = "serving"
  /\ phase' = "draining"
  /\ UNCHANGED <<left, done, state, answer, stored, unsure, abrupt>>

\* Faulty: the timer is not stopped at its end.
TickOn ==
  /\ phase = "draining"
  /\ left' = left - 1
  /\ UNCHANGED <<phase, done, state, answer, stored, unsure, abrupt>>

Tick ==
  /\ phase = "draining" /\ left > 0
  /\ left' = left - 1
  /\ UNCHANGED <<phase, done, state, answer, stored, unsure, abrupt>>

\* db.Close: those who wait for a connection are refused, those who have one
\* go on with it.
CloseDatabase ==
  /\ phase' = "closed"
  /\ state' = [p \in Procs |-> IF p \in Waiting THEN "ended" ELSE state[p]]
  /\ answer' = [p \in Procs |-> IF p \in Waiting THEN "refused" ELSE answer[p]]
  /\ UNCHANGED <<left, done, stored, unsure>>

\* Faulty: the database is closed first, then the requests are drained.
CloseFirst == phase = "draining" /\ CloseDatabase /\ UNCHANGED abrupt

\* Faulty: the grace period has no end.
WaitForAll ==
  /\ phase = "draining"
  /\ \A p \in Procs : ~Busy(p)
  /\ CloseDatabase
  /\ UNCHANGED abrupt

\* Shutdown: the requests have ended or the time is up; then closeResources.
Shutdown ==
  /\ phase = "draining"
  /\ left = 0 \/ \A p \in Procs : ~Busy(p)
  /\ CloseDatabase
  /\ UNCHANGED abrupt

\* ListenAndServe returns an error: the deferred Close, without a drain.
ServeFails ==
  /\ phase = "serving"
  /\ abrupt' = TRUE
  /\ CloseDatabase

\* run returns and the process is gone, with what it had not committed.
Exit ==
  /\ phase = "closed"
  /\ phase' = "exited"
  /\ UNCHANGED <<left, done, state, answer, stored, unsure, abrupt>>

\* After stopSignals a second signal has its default effect.
SecondSignal ==
  /\ phase \in {"draining", "closed"}
  /\ phase' = "exited"
  /\ abrupt' = TRUE
  /\ UNCHANGED <<left, done, state, answer, stored, unsure>>

----------------------------------------------------------------------------
\* What a process does by itself once its request has come.
Step(p) == GetConn(p) \/ EndRead(p) \/ LockRow(p) \/ Commit(p)

Main == Tick \/ Shutdown \/ Exit

Next ==
  \/ \E p \in Reqs : Arrive(p) \/ Rollback(p) \/ LoseCommit(p) \/ GiveUp(p)
  \/ \E p \in Procs : Step(p) \/ Answer(p)
  \/ HandleReadiness \/ HealthTimesOut
  \/ Signal \/ Main \/ ServeFails \/ SecondSignal

Spec == Init /\ [][Next]_vars

\* Handlers run on, the row goes to those who wait for it in turn, and the
\* main goroutine and its timer run.  No request and no signal has to come,
\* nothing has to fail, and no client has to take its answer.
FairSpec ==
  /\ Spec
  /\ \A p \in Procs : SF_vars(Step(p))
  /\ WF_vars(Main)

----------------------------------------------------------------------------
(* Properties.                                                             *)

(* Every variable keeps its type. *)
TypeOK ==
  /\ phase \in {"serving", "draining", "closed", "exited"}
  /\ left \in 0 .. Grace
  /\ \A p \in Procs : done[p] \in 0 .. Len(Work(p))
  /\ DOMAIN done = Procs
  /\ state \in [Procs -> {"idle", "ready", "waiting", "using", "locked", "ended"}]
  /\ answer \in [Procs -> {"none", "ok", "error", "refused", "gone"}]
  /\ stored \subseteq Reqs
  /\ unsure \subseteq Reqs
  /\ abrupt \in BOOLEAN

(* The bound NewService sets on the pool: a spike of requests queues in the
   process and never takes more connections than that, and nobody queues
   while one is free, whatever is handed over, broken or given up. *)
PoolIsWorkConserving ==
  /\ Cardinality(InUse) <= MaxConns
  /\ Waiting # {} => Cardinality(InUse) = MaxConns

(* An edit that was answered with success is committed, whatever shutdown and
   pool did meanwhile.  One that was answered with an error, a refusal by the
   closed database included, is not: unless the connection broke in the
   COMMIT, or the handler reads back what it wrote, when the read may fail. *)
AnswersAreTrue ==
  \A p \in Reqs :
    /\ answer[p] = "ok" /\ Writes(p) => p \in stored
    /\ answer[p] \in {"error", "refused"} /\ p \in stored =>
         p \in unsure \/ p \in Rereaders

(* A graceful shutdown refuses a request its database connection only when
   the grace period is over: the server is drained before closeResources. *)
DrainedBeforeClose ==
  \A p \in Procs : answer[p] = "refused" => left = 0 \/ abrupt

Working(p) == Busy(p) /\ Section(p) # "answer"

(* With sections that never hold one connection while they ask for another,
   the pool cannot lock up: as the requests come once, all of them get through
   their work with the database, or are refused, or the process ends. *)
EveryRequestGetsThrough == []<>(Running => \A p \in Procs : ~Working(p))

(* After a signal the process ends, even when a client keeps its request open
   for longer than the grace period. *)
ExitsAfterSignal == phase = "draining" ~> phase = "exited"
=============================================================================
