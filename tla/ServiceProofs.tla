--------------------------- MODULE ServiceProofs ---------------------------
(***************************************************************************)
(* The safety of the pool, of the answers and of the shutdown, for any     *)
(* number of requests, any bound of the pool and any grace period.         *)
(***************************************************************************)
EXTENDS Service, FiniteSetTheorems, TLAPS

PhaseStates == {"idle", "ready", "waiting", "using", "locked", "ended"}
Answers == {"none", "ok", "error", "refused", "gone"}

\* The pool, of which we also need that it is finite: there may be infinitely
\* many requests.
PoolSound == IsFiniteSet(InUse) /\ PoolIsWorkConserving

\* Only a request with work left waits for a connection or has one.
AtWork == \A p \in Procs : state[p] \in {"waiting", "using", "locked"} => Section(p) # "answer"

\* A request is answered once.
Answered == \A p \in Reqs : answer[p] # "none" => state[p] = "ended"

\* What is stored is what has the transaction behind it.
StoredSound ==
  \A p \in Reqs :
    /\ p \in stored => Writes(p)
    /\ p \in stored /\ p \notin unsure => done[p] >= 2
    /\ Writes(p) /\ done[p] >= 2 => p \in stored

\* The database is closed once the time is up or the work is done, unless the
\* end was abrupt.
ClosedInTime == phase = "closed" => (left = 0 \/ abrupt \/ \A p \in Procs : ~Busy(p))

IInv == /\ TypeOK /\ PoolSound /\ AtWork /\ Answered /\ StoredSound /\ AnswersAreTrue
        /\ ClosedInTime /\ DrainedBeforeClose

----------------------------------------------------------------------------
(* Sections.                                                               *)

LEMMA WorkFacts ==
  ASSUME NEW p \in Procs
  PROVE  /\ p \in Editors => Work(p) = <<"read", "transaction">>
         /\ p \in Rereaders => Work(p) = <<"read", "transaction", "read">>
         /\ ~Writes(p) => Work(p) = <<"read">>
         /\ Writes(p) => p \in Reqs
BY RequestsAreOneKind DEF Work, Writes, Procs, Reqs

LEMMA SectionFacts ==
  ASSUME NEW p \in Procs, done[p] \in 0 .. Len(Work(p))
  PROVE  /\ Len(Work(p)) \in 1 .. 3 /\ done[p] \in 0 .. 3
         /\ Section(p) \in {"read", "transaction", "answer"}
         /\ Section(p) = "answer" <=> done[p] = Len(Work(p))
         /\ Section(p) = "transaction" => Writes(p) /\ done[p] = 1
         /\ Section(p) = "read" => (done[p] = 0 \/ (done[p] = 2 /\ p \in Rereaders))
         /\ Section(p) = "answer" /\ Writes(p) => done[p] >= 2
         /\ done[p] >= 2 /\ Section(p) # "answer" => p \in Rereaders
<1>1. CASE p \in Editors
  <2>1. Work(p) = <<"read", "transaction">> /\ Writes(p)
    BY <1>1, WorkFacts DEF Writes
  <2>2. done[p] \in {0, 1, 2}
    BY <2>1
  <2> QED BY <2>1, <2>2 DEF Section
<1>2. CASE p \in Rereaders
  <2>1. Work(p) = <<"read", "transaction", "read">> /\ Writes(p)
    BY <1>2, WorkFacts DEF Writes
  <2>2. done[p] \in {0, 1, 2, 3}
    BY <2>1
  <2> QED BY <1>2, <2>1, <2>2 DEF Section
<1>3. CASE ~Writes(p)
  <2>1. Work(p) = <<"read">>
    BY <1>3, WorkFacts
  <2>2. done[p] \in {0, 1}
    BY <2>1
  <2> QED BY <1>3, <2>1, <2>2 DEF Section
<1> QED BY <1>1, <1>2, <1>3 DEF Writes

LEMMA Typed ==
  ASSUME IInv, NEW p \in Procs
  PROVE  /\ done[p] \in 0 .. Len(Work(p)) /\ DOMAIN done = Procs
         /\ state \in [Procs -> PhaseStates] /\ answer \in [Procs -> Answers]
BY DEF IInv, TypeOK, PhaseStates, Answers

----------------------------------------------------------------------------
(* The pool.                                                               *)

LEMMA PoolKept ==
  ASSUME PoolSound, UNCHANGED state
  PROVE  PoolSound'
<1>1. InUse' = InUse /\ Waiting' = Waiting
  BY DEF InUse, Waiting
<1> QED BY <1>1 DEF PoolSound, PoolIsWorkConserving

\* p leaves; if it had a connection, it is handed to one who waits.
LEMMA LeaveFacts ==
  ASSUME PoolSound, state \in [Procs -> PhaseStates], NEW p \in Procs,
         NEW s \in {"ready", "ended"}, Leave(p, s)
  PROVE  /\ state' \in [Procs -> PhaseStates] /\ state'[p] = s
         /\ \A q \in Procs \ {p} :
              (state'[q] = state[q]) \/ (state[q] = "waiting" /\ state'[q] = "using")
         /\ PoolSound'
<1>0. IsFiniteSet(InUse) /\ Cardinality(InUse) \in Nat /\ MaxConns \in Nat
  BY PoolIsBounded, FS_CardinalityType DEF PoolSound
<1>1. CASE p \in InUse /\ Waiting # {}
  <2>1. PICK w \in Waiting : state' = [state EXCEPT ![p] = s, ![w] = "using"]
    BY <1>1 DEF Leave
  <2>2. w \in Procs /\ w # p /\ state[w] = "waiting" /\ w \notin InUse
    BY <1>1, <2>1 DEF Waiting, InUse
  <2>3. InUse' = (InUse \ {p}) \cup {w}
    BY <2>1, <2>2 DEF InUse
  <2>4. IsFiniteSet(InUse \ {p}) /\ Cardinality(InUse \ {p}) = Cardinality(InUse) - 1
    BY <1>0, <1>1, FS_RemoveElement
  <2>5. IsFiniteSet(InUse') /\ Cardinality(InUse') = Cardinality(InUse \ {p}) + 1
    BY <2>2, <2>3, <2>4, FS_AddElement
  <2>6. Cardinality(InUse') = Cardinality(InUse) /\ Cardinality(InUse) = MaxConns
    BY <1>0, <1>1, <2>4, <2>5 DEF PoolSound, PoolIsWorkConserving
  <2>7. PoolSound'
    BY <1>0, <2>5, <2>6 DEF PoolSound, PoolIsWorkConserving
  <2> QED BY <2>1, <2>2, <2>7 DEF PhaseStates
<1>2. CASE p \notin InUse
  <2>1. state' = [state EXCEPT ![p] = s]
    BY <1>2 DEF Leave
  <2>2. InUse' = InUse /\ Waiting' \subseteq Waiting
    BY <1>2, <2>1 DEF InUse, Waiting
  <2> QED BY <2>1, <2>2 DEF PoolSound, PoolIsWorkConserving, PhaseStates
<1>3. CASE p \in InUse /\ Waiting = {}
  <2>1. state' = [state EXCEPT ![p] = s]
    BY <1>3 DEF Leave
  <2>2. InUse' = InUse \ {p} /\ Waiting' = {}
    BY <1>3, <2>1 DEF InUse, Waiting
  <2>3. IsFiniteSet(InUse') /\ Cardinality(InUse') = Cardinality(InUse) - 1
    BY <1>0, <1>3, <2>2, FS_RemoveElement
  <2> QED BY <1>0, <2>1, <2>2, <2>3 DEF PoolSound, PoolIsWorkConserving, PhaseStates
<1> QED BY <1>1, <1>2, <1>3

----------------------------------------------------------------------------
(* The two ways in which a request gives its connection back.              *)

LEMMA FinishKeeps ==
  ASSUME IInv, NEW p \in Procs, NEW a \in Answers, Finish(p, a), Busy(p),
         UNCHANGED <<phase, left, abrupt>>,
         \/ UNCHANGED <<stored, unsure>>
         \/ stored' = stored \cup {p} /\ unsure' = unsure \cup {p} /\ Writes(p),
         a = "ok" /\ Writes(p) => p \in stored,
         a \in {"error", "refused"} /\ p \in stored' => (p \in unsure' \/ p \in Rereaders),
         a = "refused" => (left = 0 \/ abrupt)
  PROVE  IInv'
<1>0. /\ answer' = [answer EXCEPT ![p] = a] /\ done' = done /\ Leave(p, "ended")
      /\ phase' = phase /\ left' = left /\ abrupt' = abrupt
      /\ \/ stored' = stored /\ unsure' = unsure
         \/ stored' = stored \cup {p} /\ unsure' = unsure \cup {p} /\ Writes(p)
  BY DEF Finish
<1>1. /\ state \in [Procs -> PhaseStates] /\ answer \in [Procs -> Answers]
      /\ DOMAIN done = Procs /\ \A q \in Procs : done[q] \in 0 .. Len(Work(q))
      /\ stored \subseteq Reqs /\ unsure \subseteq Reqs
  BY DEF IInv, TypeOK, PhaseStates, Answers
<1>2. /\ state' \in [Procs -> PhaseStates] /\ state'[p] = "ended"
      /\ \A q \in Procs \ {p} :
           (state'[q] = state[q]) \/ (state[q] = "waiting" /\ state'[q] = "using")
      /\ PoolSound'
  BY <1>0, <1>1, LeaveFacts DEF IInv
<1>3. answer'[p] = a /\ \A q \in Procs \ {p} : answer'[q] = answer[q]
  BY <1>0, <1>1
<1>4. Writes(p) => p \in Reqs
  BY WorkFacts
<1>5. TypeOK'
  BY <1>0, <1>1, <1>2, <1>4 DEF IInv, TypeOK, PhaseStates, Answers
<1>6. \A q \in Procs : Section(q)' = Section(q)
  BY <1>0 DEF Section
<1>7. AtWork'
  BY <1>2, <1>6 DEF IInv, AtWork
<1>8. Answered'
  <2> SUFFICES ASSUME NEW q \in Reqs, answer'[q] # "none" PROVE state'[q] = "ended"
    BY DEF Answered
  <2> QED BY <1>2, <1>3 DEF IInv, Answered, Procs
<1>9. StoredSound'
  <2> SUFFICES ASSUME NEW q \in Reqs
               PROVE  /\ q \in stored' => Writes(q)
                      /\ q \in stored' /\ q \notin unsure' => done[q] >= 2
                      /\ Writes(q) /\ done[q] >= 2 => q \in stored'
    BY <1>0 DEF StoredSound
  <2>1. /\ q \in stored => Writes(q)
        /\ q \in stored /\ q \notin unsure => done[q] >= 2
        /\ Writes(q) /\ done[q] >= 2 => q \in stored
    BY DEF IInv, StoredSound
  <2> QED BY <1>0, <2>1
<1>10. AnswersAreTrue'
  <2> SUFFICES ASSUME NEW q \in Reqs
               PROVE  /\ answer'[q] = "ok" /\ Writes(q) => q \in stored'
                      /\ answer'[q] \in {"error", "refused"} /\ q \in stored' =>
                           q \in unsure' \/ q \in Rereaders
    BY DEF AnswersAreTrue
  <2>1. CASE q = p
    BY <1>0, <1>3, <2>1
  <2>2. CASE q # p
    BY <1>0, <1>3, <2>2 DEF IInv, AnswersAreTrue, Procs
  <2> QED BY <2>1, <2>2
<1>11. \A q \in Procs : ~Busy(q) => ~Busy(q)'
  BY <1>2 DEF Busy
<1>12. ClosedInTime'
  BY <1>0, <1>11 DEF IInv, ClosedInTime
<1>13. DrainedBeforeClose'
  BY <1>0, <1>3 DEF IInv, DrainedBeforeClose
<1> QED BY <1>2, <1>5, <1>7, <1>8, <1>9, <1>10, <1>12, <1>13 DEF IInv

LEMMA ReleaseKeeps ==
  ASSUME IInv, NEW p \in Procs, Release(p), state[p] \in {"using", "locked"},
         UNCHANGED <<phase, left, unsure, abrupt>>,
         \/ Section(p) = "read" /\ stored' = stored
         \/ Section(p) = "transaction" /\ stored' = stored \cup {p}
  PROVE  IInv'
<1>0. /\ done' = [done EXCEPT ![p] = @ + 1] /\ Leave(p, "ready") /\ answer' = answer
      /\ phase' = phase /\ left' = left /\ unsure' = unsure /\ abrupt' = abrupt
  BY DEF Release
<1>1. /\ state \in [Procs -> PhaseStates] /\ answer \in [Procs -> Answers]
      /\ DOMAIN done = Procs /\ \A q \in Procs : done[q] \in 0 .. Len(Work(q))
      /\ stored \subseteq Reqs
  BY DEF IInv, TypeOK, PhaseStates, Answers
<1>2. /\ state' \in [Procs -> PhaseStates] /\ state'[p] = "ready"
      /\ \A q \in Procs \ {p} :
           (state'[q] = state[q]) \/ (state[q] = "waiting" /\ state'[q] = "using")
      /\ PoolSound'
  BY <1>0, <1>1, LeaveFacts DEF IInv
<1>3. /\ DOMAIN done' = Procs /\ done'[p] = done[p] + 1
      /\ \A q \in Procs \ {p} : done'[q] = done[q]
  BY <1>0, <1>1
<1>4. /\ Len(Work(p)) \in 1 .. 3 /\ done[p] \in 0 .. 3 /\ done[p] \in 0 .. Len(Work(p))
      /\ done[p] # Len(Work(p))
      /\ Section(p) = "transaction" => Writes(p) /\ done[p] = 1
      /\ Section(p) = "read" => (done[p] = 0 \/ (done[p] = 2 /\ p \in Rereaders))
  BY <1>1, SectionFacts
<1>5. Writes(p) => p \in Reqs
  BY WorkFacts
<1>6. done'[p] \in 0 .. Len(Work(p))
  BY <1>3, <1>4
<1>7. TypeOK'
  BY <1>0, <1>1, <1>2, <1>3, <1>4, <1>5, <1>6 DEF IInv, TypeOK, PhaseStates, Answers
<1>8. \A q \in Procs \ {p} : Section(q)' = Section(q)
  BY <1>3 DEF Section
<1>9. AtWork'
  BY <1>2, <1>8 DEF IInv, AtWork
<1>10. Answered'
  <2> SUFFICES ASSUME NEW q \in Reqs, answer[q] # "none" PROVE state'[q] = "ended"
    BY <1>0 DEF Answered
  <2>1. state[q] = "ended"
    BY DEF IInv, Answered
  <2> QED BY <1>2, <2>1 DEF Procs
<1>11. StoredSound'
  <2> SUFFICES ASSUME NEW q \in Reqs
               PROVE  /\ q \in stored' => Writes(q)
                      /\ q \in stored' /\ q \notin unsure => done'[q] >= 2
                      /\ Writes(q) /\ done'[q] >= 2 => q \in stored'
    BY <1>0 DEF StoredSound
  <2>1. /\ q \in stored => Writes(q)
        /\ q \in stored /\ q \notin unsure => done[q] >= 2
        /\ Writes(q) /\ done[q] >= 2 => q \in stored
    BY DEF IInv, StoredSound
  <2>2. CASE q = p
    <3>1. CASE Section(p) = "read" /\ stored' = stored
      <4>1. CASE done[p] = 0
        BY <1>3, <2>1, <2>2, <3>1, <4>1
      <4>2. CASE done[p] = 2
        BY <1>3, <2>1, <2>2, <3>1, <4>2
      <4> QED BY <1>4, <3>1, <4>1, <4>2
    <3>2. CASE Section(p) = "transaction" /\ stored' = stored \cup {p}
      BY <1>3, <1>4, <2>2, <3>2
    <3> QED BY <3>1, <3>2
  <2>3. CASE q # p
    <3>1. done'[q] = done[q] /\ (q \in stored' <=> q \in stored)
      BY <1>3, <2>3 DEF Procs
    <3> QED BY <2>1, <3>1
  <2> QED BY <2>2, <2>3
<1>12. AnswersAreTrue'
  <2> SUFFICES ASSUME NEW q \in Reqs
               PROVE  /\ answer[q] = "ok" /\ Writes(q) => q \in stored'
                      /\ answer[q] \in {"error", "refused"} /\ q \in stored' =>
                           q \in unsure \/ q \in Rereaders
    BY <1>0 DEF AnswersAreTrue
  <2>1. CASE q = p
    <3>1. answer[q] = "none"
      BY <2>1 DEF IInv, Answered
    <3> QED BY <3>1
  <2>2. CASE q # p
    BY <2>2 DEF IInv, AnswersAreTrue
  <2> QED BY <2>1, <2>2
<1>13. \A q \in Procs : ~Busy(q) => ~Busy(q)'
  BY <1>2 DEF Busy
<1>14. ClosedInTime'
  BY <1>0, <1>13 DEF IInv, ClosedInTime
<1>15. DrainedBeforeClose'
  BY <1>0 DEF IInv, DrainedBeforeClose
<1> QED BY <1>2, <1>7, <1>9, <1>10, <1>11, <1>12, <1>14, <1>15 DEF IInv

----------------------------------------------------------------------------
(* Requests that come, take a connection, or get the row.                  *)

LEMMA MoveKeeps ==
  ASSUME IInv, NEW p \in Procs, NEW s \in PhaseStates, state' = [state EXCEPT ![p] = s],
         UNCHANGED <<phase, left, done, answer, stored, unsure, abrupt>>,
         PoolSound', s \in {"waiting", "using", "locked"} => Section(p) # "answer",
         state[p] # "ended",
         Busy(p) \/ phase # "closed"
  PROVE  IInv'
<1>0. /\ phase' = phase /\ left' = left /\ done' = done /\ answer' = answer
      /\ stored' = stored /\ unsure' = unsure /\ abrupt' = abrupt
  OBVIOUS
<1>1. state \in [Procs -> PhaseStates]
  BY DEF IInv, TypeOK, PhaseStates
<1>2. state'[p] = s /\ \A q \in Procs \ {p} : state'[q] = state[q]
  BY <1>1
<1>3. TypeOK'
  BY <1>0, <1>1 DEF IInv, TypeOK, PhaseStates
<1>4. \A q \in Procs : Section(q)' = Section(q)
  BY <1>0 DEF Section
<1>5. AtWork'
  BY <1>2, <1>4 DEF IInv, AtWork
<1>6. Answered'
  <2> SUFFICES ASSUME NEW q \in Reqs, answer[q] # "none" PROVE state'[q] = "ended"
    BY <1>0 DEF Answered
  <2>1. state[q] = "ended"
    BY DEF IInv, Answered
  <2> QED BY <1>2, <2>1 DEF Procs
<1>7. StoredSound' /\ AnswersAreTrue' /\ DrainedBeforeClose'
  BY <1>0 DEF IInv, StoredSound, AnswersAreTrue, DrainedBeforeClose
<1>8. ClosedInTime'
  BY <1>0, <1>2 DEF IInv, ClosedInTime, Busy
<1> QED BY <1>3, <1>5, <1>6, <1>7, <1>8 DEF IInv

LEMMA GetConnKeeps ==
  ASSUME IInv, NEW p \in Procs, GetConn(p)
  PROVE  IInv'
<1>0. /\ state \in [Procs -> PhaseStates] /\ state[p] = "ready" /\ Section(p) # "answer"
      /\ UNCHANGED <<phase, left, stored, unsure, abrupt>>
  BY DEF IInv, TypeOK, PhaseStates, GetConn
<1>1. Busy(p)
  BY <1>0 DEF Busy
<1>2. CASE phase = "closed"
  <2>1. Finish(p, "refused")
    BY <1>2 DEF GetConn
  <2>2. left = 0 \/ abrupt
    BY <1>1, <1>2 DEF IInv, ClosedInTime
  <2>3. p \in stored => (p \in unsure \/ p \in Rereaders)
    BY <1>0, Typed, SectionFacts DEF IInv, TypeOK, StoredSound
  <2> QED BY <1>0, <1>1, <2>1, <2>2, <2>3, FinishKeeps DEF Answers
<1>3. CASE phase # "closed"
  <2> DEFINE s == IF Cardinality(InUse) < MaxConns THEN "using" ELSE "waiting"
  <2>1. state' = [state EXCEPT ![p] = s] /\ UNCHANGED <<done, answer>>
    BY <1>3 DEF GetConn
  <2>2. IsFiniteSet(InUse) /\ Cardinality(InUse) \in Nat /\ MaxConns \in Nat
        /\ Cardinality(InUse) <= MaxConns /\ (Waiting # {} => Cardinality(InUse) = MaxConns)
    BY PoolIsBounded, FS_CardinalityType DEF IInv, PoolSound, PoolIsWorkConserving
  <2>3. CASE Cardinality(InUse) < MaxConns
    <3>1. s = "using" /\ Waiting = {}
      BY <2>2, <2>3
    <3>2. InUse' = InUse \cup {p} /\ p \notin InUse /\ Waiting' = {}
      BY <1>0, <2>1, <3>1 DEF InUse, Waiting
    <3>3. IsFiniteSet(InUse') /\ Cardinality(InUse') = Cardinality(InUse) + 1
      BY <2>2, <3>2, FS_AddElement
    <3>4. PoolSound'
      BY <2>2, <2>3, <3>2, <3>3 DEF PoolSound, PoolIsWorkConserving
    <3> QED BY <1>0, <1>1, <1>3, <2>1, <3>1, <3>4, MoveKeeps DEF PhaseStates
  <2>4. CASE ~(Cardinality(InUse) < MaxConns)
    <3>1. s = "waiting" /\ Cardinality(InUse) = MaxConns
      BY <2>2, <2>4
    <3>2. InUse' = InUse
      BY <1>0, <2>1, <3>1 DEF InUse
    <3>3. PoolSound'
      BY <2>2, <3>1, <3>2 DEF PoolSound, PoolIsWorkConserving
    <3> QED BY <1>0, <1>1, <1>3, <2>1, <3>1, <3>3, MoveKeeps DEF PhaseStates
  <2> QED BY <2>3, <2>4
<1> QED BY <1>2, <1>3

LEMMA ArriveKeeps ==
  ASSUME IInv, NEW p \in Procs, Arrive(p)
  PROVE  IInv'
<1>1. /\ state \in [Procs -> PhaseStates] /\ state[p] = "idle" /\ phase = "serving"
      /\ state' = [state EXCEPT ![p] = "ready"]
      /\ UNCHANGED <<phase, left, done, answer, stored, unsure, abrupt>>
  BY DEF IInv, TypeOK, PhaseStates, Arrive
<1>2. InUse' = InUse /\ Waiting' = Waiting
  BY <1>1 DEF InUse, Waiting
<1>3. PoolSound'
  BY <1>2 DEF IInv, PoolSound, PoolIsWorkConserving
<1> QED BY <1>1, <1>3, MoveKeeps DEF PhaseStates

LEMMA LockRowKeeps ==
  ASSUME IInv, NEW p \in Procs, LockRow(p)
  PROVE  IInv'
<1>1. /\ state \in [Procs -> PhaseStates] /\ state[p] = "using" /\ Section(p) # "answer"
      /\ state' = [state EXCEPT ![p] = "locked"]
      /\ UNCHANGED <<phase, left, done, answer, stored, unsure, abrupt>>
  BY DEF IInv, TypeOK, PhaseStates, LockRow
<1>2. InUse' = InUse /\ Waiting' = Waiting /\ Busy(p)
  BY <1>1 DEF InUse, Waiting, Busy
<1>3. PoolSound'
  BY <1>2 DEF IInv, PoolSound, PoolIsWorkConserving
<1> QED BY <1>1, <1>2, <1>3, MoveKeeps DEF PhaseStates

----------------------------------------------------------------------------
(* Queries, transactions and answers.                                      *)

\* A request that has not its transaction behind it is not stored.
LEMMA NotStoredYet ==
  ASSUME IInv, NEW p \in Procs, Section(p) # "answer", p \in stored
  PROVE  p \in unsure \/ p \in Rereaders
BY Typed, SectionFacts DEF IInv, TypeOK, StoredSound

LEMMA EndReadKeeps ==
  ASSUME IInv, NEW p \in Procs, EndRead(p)
  PROVE  IInv'
<1>1. /\ state[p] = "using" /\ Section(p) = "read" /\ Busy(p)
      /\ UNCHANGED <<phase, left, stored, unsure, abrupt>>
  BY DEF EndRead, Busy
<1>2. CASE Release(p)
  BY <1>1, <1>2, ReleaseKeeps
<1>3. CASE Finish(p, "error")
  BY <1>1, <1>3, NotStoredYet, FinishKeeps DEF Answers
<1> QED BY <1>2, <1>3 DEF EndRead

LEMMA CommitKeeps ==
  ASSUME IInv, NEW p \in Procs, Commit(p)
  PROVE  IInv'
BY ReleaseKeeps DEF Commit

LEMMA RollbackKeeps ==
  ASSUME IInv, NEW p \in Procs, Rollback(p)
  PROVE  IInv'
<1>1. /\ Section(p) # "answer" /\ Busy(p) /\ Finish(p, "error")
      /\ UNCHANGED <<phase, left, stored, unsure, abrupt>>
  BY DEF Rollback, Busy
<1> QED BY <1>1, NotStoredYet, FinishKeeps DEF Answers

LEMMA LoseCommitKeeps ==
  ASSUME IInv, NEW p \in Procs, LoseCommit(p)
  PROVE  IInv'
<1>1. /\ Section(p) = "transaction" /\ Busy(p) /\ Finish(p, "error")
      /\ stored' = stored \cup {p} /\ unsure' = unsure \cup {p}
      /\ UNCHANGED <<phase, left, abrupt>>
  BY DEF LoseCommit, Busy
<1>2. Writes(p)
  BY <1>1, Typed, SectionFacts
<1> QED BY <1>1, <1>2, FinishKeeps DEF Answers

LEMMA GiveUpKeeps ==
  ASSUME IInv, NEW p \in Procs, GiveUp(p)
  PROVE  IInv'
BY FinishKeeps DEF GiveUp, Answers

LEMMA AnswerKeeps ==
  ASSUME IInv, NEW p \in Procs, Answer(p)
  PROVE  IInv'
<1>1. /\ Section(p) = "answer" /\ Busy(p) /\ Finish(p, "ok")
      /\ UNCHANGED <<phase, left, stored, unsure, abrupt>>
  BY DEF Answer, Busy
<1>2. Writes(p) => p \in stored
  BY <1>1, Typed, SectionFacts, WorkFacts DEF IInv, StoredSound
<1> QED BY <1>1, <1>2, FinishKeeps DEF Answers

----------------------------------------------------------------------------
(* The probe.                                                              *)

LEMMA ProbeIsAProcess == Probe \in Procs /\ Probe \notin Reqs
BY RequestsAreOneKind DEF Procs

LEMMA HandleReadinessKeeps ==
  ASSUME IInv, HandleReadiness
  PROVE  IInv'
<1>1. /\ phase = "serving" /\ state[Probe] \in {"idle", "ended"}
      /\ state' = [state EXCEPT ![Probe] = "ready"] /\ done' = [done EXCEPT ![Probe] = 0]
      /\ phase' = phase /\ left' = left /\ answer' = answer
      /\ stored' = stored /\ unsure' = unsure /\ abrupt' = abrupt
  BY DEF HandleReadiness, Busy
<1>2. /\ state \in [Procs -> PhaseStates] /\ DOMAIN done = Procs
      /\ \A q \in Procs : done[q] \in 0 .. Len(Work(q))
  BY DEF IInv, TypeOK, PhaseStates
<1>3. /\ state'[Probe] = "ready" /\ done'[Probe] = 0 /\ DOMAIN done' = Procs
      /\ \A q \in Procs \ {Probe} : state'[q] = state[q] /\ done'[q] = done[q]
  BY <1>1, <1>2, ProbeIsAProcess
<1>4. 0 \in 0 .. Len(Work(Probe))
  BY <1>2, ProbeIsAProcess, SectionFacts
<1>5. TypeOK'
  BY <1>1, <1>2, <1>3, <1>4 DEF IInv, TypeOK, PhaseStates
<1>6. InUse' = InUse /\ Waiting' = Waiting
  BY <1>1, <1>2, <1>3 DEF InUse, Waiting
<1>7. PoolSound'
  BY <1>6 DEF IInv, PoolSound, PoolIsWorkConserving
<1>8. AtWork'
  BY <1>3 DEF IInv, AtWork, Section
<1>9. Answered' /\ StoredSound' /\ AnswersAreTrue'
  BY <1>1, <1>3, ProbeIsAProcess DEF IInv, Answered, StoredSound, AnswersAreTrue, Procs
<1>10. ClosedInTime' /\ DrainedBeforeClose'
  BY <1>1 DEF IInv, ClosedInTime, DrainedBeforeClose
<1> QED BY <1>5, <1>7, <1>8, <1>9, <1>10 DEF IInv

LEMMA HealthTimesOutKeeps ==
  ASSUME IInv, HealthTimesOut
  PROVE  IInv'
<1>1. /\ Busy(Probe) /\ Finish(Probe, "error") /\ Probe \notin stored
      /\ UNCHANGED <<phase, left, stored, unsure, abrupt>>
  BY ProbeIsAProcess DEF HealthTimesOut, Busy, IInv, TypeOK
<1>2. ~Writes(Probe)
  BY ProbeIsAProcess, WorkFacts
<1> QED BY <1>1, <1>2, ProbeIsAProcess, FinishKeeps DEF Answers

----------------------------------------------------------------------------
(* Shutdown.                                                               *)

\* The requests are as they were.
LEMMA PhaseKeeps ==
  ASSUME IInv, UNCHANGED <<done, state, answer, stored, unsure>>,
         phase' \in {"serving", "draining", "exited"}, left' \in 0 .. Grace,
         left = 0 => left' = 0, abrupt' \in BOOLEAN, abrupt => abrupt'
  PROVE  IInv'
<1>1. TypeOK'
  BY DEF IInv, TypeOK
<1>2. PoolSound'
  BY PoolKept DEF IInv
<1>3. AtWork' /\ Answered' /\ StoredSound' /\ AnswersAreTrue'
  BY DEF IInv, AtWork, Section, Answered, StoredSound, AnswersAreTrue
<1>4. ClosedInTime' /\ DrainedBeforeClose'
  BY DEF IInv, ClosedInTime, DrainedBeforeClose
<1> QED BY <1>1, <1>2, <1>3, <1>4 DEF IInv

LEMMA CloseDatabaseKeeps ==
  ASSUME IInv, CloseDatabase, abrupt' \in BOOLEAN, abrupt => abrupt',
         left = 0 \/ abrupt' \/ \A p \in Procs : ~Busy(p)
  PROVE  IInv'
<1>1. /\ phase' = "closed"
      /\ state' = [p \in Procs |-> IF p \in Waiting THEN "ended" ELSE state[p]]
      /\ answer' = [p \in Procs |-> IF p \in Waiting THEN "refused" ELSE answer[p]]
      /\ left' = left /\ done' = done /\ stored' = stored /\ unsure' = unsure
  BY DEF CloseDatabase
<1>2. state \in [Procs -> PhaseStates] /\ answer \in [Procs -> Answers]
  BY DEF IInv, TypeOK, PhaseStates, Answers
<1>3. state' \in [Procs -> PhaseStates] /\ answer' \in [Procs -> Answers]
  BY <1>1, <1>2 DEF PhaseStates, Answers
<1>4. TypeOK'
  BY <1>1, <1>3 DEF IInv, TypeOK, PhaseStates, Answers
<1>5. InUse' = InUse /\ Waiting' = {}
  BY <1>1 DEF InUse, Waiting
<1>6. PoolSound'
  BY <1>5 DEF IInv, PoolSound, PoolIsWorkConserving
<1>7. AtWork' /\ StoredSound'
  BY <1>1 DEF IInv, AtWork, Section, StoredSound
<1>8. Answered'
  BY <1>1 DEF IInv, Answered, Procs
<1>9. AnswersAreTrue'
  <2>1. ASSUME NEW p \in Waiting PROVE Section(p) # "answer" /\ p \in Procs
    BY DEF Waiting, IInv, AtWork
  <2>2. \A p \in Waiting : p \in stored => (p \in unsure \/ p \in Rereaders)
    BY <2>1, NotStoredYet
  <2> QED BY <1>1, <2>2 DEF IInv, AnswersAreTrue, Procs
<1>10. \A p \in Procs : ~Busy(p) => ~Busy(p)'
  BY <1>1 DEF Busy
<1>11. ClosedInTime'
  BY <1>1, <1>10 DEF ClosedInTime
<1>12. Waiting # {} => (left = 0 \/ abrupt')
  BY DEF Waiting, Busy
<1>13. DrainedBeforeClose'
  BY <1>1, <1>12 DEF IInv, DrainedBeforeClose
<1> QED BY <1>4, <1>6, <1>7, <1>8, <1>9, <1>11, <1>13 DEF IInv

LEMMA MainKeeps ==
  ASSUME IInv, Main
  PROVE  IInv'
<1>0. left \in 0 .. Grace /\ Grace \in Nat /\ abrupt \in BOOLEAN
  BY PoolIsBounded DEF IInv, TypeOK
<1>1. CASE Tick
  BY <1>0, <1>1, PhaseKeeps DEF Tick
<1>2. CASE Shutdown
  BY <1>0, <1>2, CloseDatabaseKeeps DEF Shutdown
<1>3. CASE Exit
  BY <1>0, <1>3, PhaseKeeps DEF Exit
<1> QED BY <1>1, <1>2, <1>3 DEF Main

LEMMA InitHolds == Init => IInv
<1> SUFFICES ASSUME Init PROVE IInv
  OBVIOUS
<1>1. \A p \in Procs : done[p] = 0 /\ state[p] = "idle" /\ answer[p] = "none"
  BY DEF Init
<1>2. InUse = {} /\ Waiting = {}
  BY <1>1 DEF InUse, Waiting
<1>3. PoolSound
  BY <1>2, FS_EmptySet, PoolIsBounded DEF PoolSound, PoolIsWorkConserving
<1>4. \A p \in Procs : 0 \in 0 .. Len(Work(p))
  <2>1. ASSUME NEW p \in Procs PROVE Len(Work(p)) \in Nat
    BY WorkFacts DEF Writes
  <2> QED BY <2>1
<1>5. TypeOK
  <2>1. left \in 0 .. Grace
    BY PoolIsBounded DEF Init
  <2>2. /\ state \in [Procs -> PhaseStates] /\ answer \in [Procs -> Answers]
        /\ DOMAIN done = Procs
    BY DEF Init, PhaseStates, Answers
  <2>3. \A p \in Procs : done[p] \in 0 .. Len(Work(p))
    BY <1>1, <1>4
  <2> QED BY <2>1, <2>2, <2>3 DEF Init, TypeOK, PhaseStates, Answers
<1>6. AtWork /\ Answered /\ StoredSound /\ AnswersAreTrue
  BY <1>1 DEF Init, AtWork, Answered, StoredSound, AnswersAreTrue, Procs
<1>7. ClosedInTime /\ DrainedBeforeClose
  BY <1>1 DEF Init, ClosedInTime, DrainedBeforeClose
<1> QED BY <1>3, <1>5, <1>6, <1>7 DEF IInv

LEMMA NextKeeps ==
  ASSUME IInv, Next
  PROVE  IInv'
<1>0. Reqs \subseteq Procs /\ left \in 0 .. Grace /\ abrupt \in BOOLEAN
  BY DEF Procs, IInv, TypeOK
<1>1. ASSUME NEW p \in Reqs, Arrive(p) \/ Rollback(p) \/ LoseCommit(p) \/ GiveUp(p)
      PROVE  IInv'
  BY <1>0, <1>1, ArriveKeeps, RollbackKeeps, LoseCommitKeeps, GiveUpKeeps
<1>2. ASSUME NEW p \in Procs, Step(p) \/ Answer(p)
      PROVE  IInv'
  BY <1>2, GetConnKeeps, EndReadKeeps, LockRowKeeps, CommitKeeps, AnswerKeeps DEF Step
<1>3. CASE Signal
  BY <1>0, <1>3, PhaseKeeps DEF Signal
<1>4. CASE ServeFails
  BY <1>4, CloseDatabaseKeeps DEF ServeFails
<1>5. CASE SecondSignal
  BY <1>0, <1>5, PhaseKeeps DEF SecondSignal
<1> QED BY <1>1, <1>2, <1>3, <1>4, <1>5, HandleReadinessKeeps, HealthTimesOutKeeps, MainKeeps
        DEF Next

LEMMA StutterKeeps ==
  ASSUME IInv, UNCHANGED vars
  PROVE  IInv'
<1>1. PoolSound'
  BY PoolKept DEF vars, IInv
<1> QED BY <1>1 DEF vars, IInv, TypeOK, AtWork, Section, Answered, StoredSound,
                    AnswersAreTrue, ClosedInTime, Busy, DrainedBeforeClose

THEOREM Invariance == Spec => []IInv
<1>1. IInv /\ [Next]_vars => IInv'
  BY NextKeeps, StutterKeeps
<1> QED BY <1>1, InitHolds, PTL DEF Spec

(* TypeOK: every variable keeps its type. *)
THEOREM TypeCorrect == Spec => []TypeOK
<1>1. IInv => TypeOK
  BY DEF IInv
<1> QED BY <1>1, Invariance, PTL

(* PoolIsWorkConserving: whatever bound is set, it is kept, and nobody queues
   while a connection is free. *)
THEOREM PoolSafe == Spec => []PoolIsWorkConserving
<1>1. IInv => PoolIsWorkConserving
  BY DEF IInv, PoolSound
<1> QED BY <1>1, Invariance, PTL

(* AnswersAreTrue: what was answered is what happened, across shutdowns,
   refusals and broken connections. *)
THEOREM AnswersTrue == Spec => []AnswersAreTrue
<1>1. IInv => AnswersAreTrue
  BY DEF IInv
<1> QED BY <1>1, Invariance, PTL

(* DrainedBeforeClose: a graceful shutdown refuses nobody before its time. *)
THEOREM DrainedFirst == Spec => []DrainedBeforeClose
<1>1. IInv => DrainedBeforeClose
  BY DEF IInv
<1> QED BY <1>1, Invariance, PTL
=============================================================================
