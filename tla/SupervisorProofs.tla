-------------------------- MODULE SupervisorProofs --------------------------
(***************************************************************************)
(* Proofs about Supervisor, for any finite set of requests, any sessions,  *)
(* any number of workers and any size of the queue.                        *)
(*                                                                         *)
(* A handler works on a pool record: it may unregister a process, which    *)
(* runs processQueue, and then starts, queues, sends or answers its own    *)
(* request.  PoolOK says what holds of that record in the middle of a      *)
(* handler; the lemmas say that each of its operations keeps PoolOK and    *)
(* that each way a handler ends restores the invariant.                    *)
(***************************************************************************)
EXTENDS Supervisor, QueueLemmas, FiniteSetTheorems

Queued  == {x \in Requests : stage[x] = "queued"}
Started == {x \in Requests : stage[x] = "started"}

(* The pool's variables, with what a handler relies on after an await:     *)
(* only started requests name processes, only starting ones belong to a    *)
(* run of processQueue, a session exists or was announced, and a request   *)
(* that was not made yet is at most about the session it will create.      *)
PoolInv ==
    /\ processes \subseteq Started
    /\ sessionToProcess \in [SessionIds -> Requests \cup {None}]
    /\ workerQueue \in Seq(Requests)
    /\ MaxQueueSize > 0 => Len(workerQueue) <= MaxQueueSize
    /\ stage \in [Requests -> Stages]
    /\ session \in [Requests -> SessionIds]
    /\ draining \subseteq
           {x \in Requests : stage[x] \in {"spawning", "identifying"}}
    /\ \A x \in Requests :
        /\ session[x] \in Sessions \cup {x} \cup Started
        /\ stage[x] = "unsent" => session[x] = x
    /\ MappingSound
    /\ NoQueueStall
    /\ QueueAccurate

CallTypeOK ==
    /\ proc \in [Requests -> {"none", "busy", "idle", "terminated"}]
    /\ via \in [Requests -> {"none", "start", "resume", "message"}]
    /\ target \in [Requests -> Requests \cup {None}]
    /\ stopping \subseteq Requests
    /\ inbox \in [Requests -> Requests \cup {None}]

-----------------------------------------------------------------------------
(* The pool in the middle of a handler                                     *)

Pools == [reg   : SUBSET Requests,
          to    : [SessionIds -> Requests \cup {None}],
          queue : Seq(Requests),
          taken : SUBSET Requests]

PoolOK(P) ==
    /\ P \in Pools
    /\ P.reg \subseteq Started
    /\ \A s \in SessionIds : P.to[s] # None => /\ P.to[s] \in P.reg
                                               /\ session[P.to[s]] = s
    /\ IsInjective(P.queue)
    /\ MaxQueueSize > 0 => Len(P.queue) <= MaxQueueSize
    /\ P.taken \cap ToSet(P.queue) = {}
    /\ P.taken \cup ToSet(P.queue) = Queued
    /\ P.queue # <<>> /\ ~AtCapacity(P.reg) => draining \cup P.taken # {}

\* Fewer processes leave at least as many free workers.
LEMMA CapacityFreed ==
    ASSUME NEW S, NEW T \in SUBSET Requests, S \subseteq T, ~AtCapacity(T)
    PROVE  ~AtCapacity(S)
<1>1. IsFiniteSet(T)
  BY ConstantsOK, FS_Subset
<1>2. /\ Cardinality(S) <= Cardinality(T)
      /\ Cardinality(S) \in Nat /\ Cardinality(T) \in Nat
  BY <1>1, FS_Subset, FS_CardinalityType
<1> QED
  BY <1>2, ConstantsOK DEF AtCapacity

\* One round of processQueue moves the head of the queue, if a worker is free.
LEMMA DrainedPool ==
    ASSUME NEW P \in Pools, IsInjective(P.queue),
           P.taken \cap ToSet(P.queue) = {}
    PROVE  /\ Drained(P) \in Pools
           /\ Drained(P).reg = P.reg /\ Drained(P).to = P.to
           /\ IsInjective(Drained(P).queue)
           /\ Len(Drained(P).queue) <= Len(P.queue)
           /\ P.taken \subseteq Drained(P).taken
           /\ Drained(P).taken \cap ToSet(Drained(P).queue) = {}
           /\ Drained(P).taken \cup ToSet(Drained(P).queue)
                = P.taken \cup ToSet(P.queue)
           /\ Drained(P).queue # <<>> /\ ~AtCapacity(P.reg)
                => Drained(P).taken # {}
<1>0. Len(P.queue) \in Nat
  BY DEF Pools
<1>1. CASE P.queue # <<>> /\ ~AtCapacity(P.reg)
  <2> DEFINE h == Head(P.queue)
             t == Tail(P.queue)
  <2>1. /\ h \in Requests /\ h \in ToSet(P.queue) /\ t \in Seq(Requests)
        /\ IsInjective(t) /\ ToSet(t) = ToSet(P.queue) \ {h}
        /\ Len(t) = Len(P.queue) - 1
    BY <1>1, TailOfQueue DEF Pools
  <2>2. Drained(P) = [P EXCEPT !.queue = t, !.taken = P.taken \cup {h}]
    BY <1>1 DEF Drained
  <2> HIDE DEF h, t
  <2>3. /\ Drained(P) \in Pools
        /\ Drained(P).reg = P.reg /\ Drained(P).to = P.to
        /\ Drained(P).queue = t /\ Drained(P).taken = P.taken \cup {h}
    BY <2>1, <2>2 DEF Pools
  <2> QED
    BY <1>0, <2>1, <2>3
<1>2. CASE ~(P.queue # <<>> /\ ~AtCapacity(P.reg))
  <2>1. Drained(P) = P
    BY <1>2 DEF Drained
  <2> QED
    BY <1>0, <1>2, <2>1
<1> QED
  BY <1>1, <1>2

LEMMA BeginOK ==
    ASSUME PoolInv
    PROVE  PoolOK(Begin)
<1>1. /\ Begin.reg = processes /\ Begin.to = sessionToProcess
      /\ Begin.queue = workerQueue /\ Begin.taken = {}
  BY DEF Begin
<1>2. Begin \in Pools
  BY DEF Begin, Pools, PoolInv, Started
<1> HIDE DEF Begin
<1> QED
  BY <1>1, <1>2 DEF PoolOK, PoolInv, MappingSound, QueueAccurate,
     NoQueueStall, Queued

\* unregisterProcess takes p out of both maps.
LEMMA UnregisteredPool ==
    ASSUME NEW P, PoolOK(P), NEW p
    PROVE  /\ PoolOK(Unregistered(P, p))
           /\ Unregistered(P, p).reg = P.reg \ {p}
           /\ \A s \in SessionIds :
                Unregistered(P, p).to[s] = IF P.to[s] = p THEN None
                                                          ELSE P.to[s]
           /\ ToSet(Unregistered(P, p).queue) \subseteq ToSet(P.queue)
<1>1. CASE p \notin P.reg
  <2>1. Unregistered(P, p) = P
    BY <1>1 DEF Unregistered
  <2> QED
    BY <1>1, <2>1 DEF PoolOK
<1>2. CASE p \in P.reg
  <2> DEFINE to == [s \in SessionIds |-> IF P.to[s] = p THEN None ELSE P.to[s]]
             Q == [P EXCEPT !.reg = P.reg \ {p}, !.to = to]
  <2>1. /\ Q \in Pools
        /\ Q.reg = P.reg \ {p} /\ Q.to = to
        /\ Q.queue = P.queue /\ Q.taken = P.taken
    BY DEF PoolOK, Pools
  <2>2. Unregistered(P, p) = Drained(Q)
    BY <1>2 DEF Unregistered
  <2>3. \A s \in SessionIds : Q.to[s] # None => /\ Q.to[s] \in Q.reg
                                                /\ session[Q.to[s]] = s
    BY <2>1 DEF PoolOK
  <2>4. \A s \in SessionIds :
            Q.to[s] = IF P.to[s] = p THEN None ELSE P.to[s]
    BY <2>1
  <2> HIDE DEF Q
  <2>5. Len(P.queue) \in Nat /\ Len(Drained(Q).queue) \in Nat
    BY <2>1, DrainedPool DEF PoolOK, Pools
  <2>6. /\ Drained(Q) \in Pools
        /\ Drained(Q).reg = Q.reg /\ Drained(Q).to = Q.to
        /\ IsInjective(Drained(Q).queue)
        /\ Len(Drained(Q).queue) <= Len(P.queue)
        /\ Drained(Q).taken \cap ToSet(Drained(Q).queue) = {}
        /\ Drained(Q).taken \cup ToSet(Drained(Q).queue)
             = P.taken \cup ToSet(P.queue)
        /\ P.taken \subseteq Drained(Q).taken
        /\ Drained(Q).queue # <<>> /\ ~AtCapacity(Q.reg)
             => Drained(Q).taken # {}
    BY <2>1, DrainedPool DEF PoolOK
  <2>7. MaxQueueSize > 0 => Len(Drained(Q).queue) <= MaxQueueSize
    BY <2>5, <2>6, ConstantsOK DEF PoolOK
  <2>8. PoolOK(Drained(Q))
    BY <2>1, <2>3, <2>6, <2>7 DEF PoolOK
  <2>9. ToSet(Drained(Q).queue) \subseteq ToSet(P.queue)
    BY <2>6 DEF PoolOK
  <2> QED
    BY <2>1, <2>2, <2>4, <2>6, <2>8, <2>9
<1> QED
  BY <1>1, <1>2

-----------------------------------------------------------------------------
(* The ways a handler ends                                                 *)

(* Only the handled request may get a session, one that clients know.      *)
SessionSet(r) ==
    /\ session' \in [Requests -> SessionIds]
    /\ \A x \in Requests : x # r => session'[x] = session[x]
    /\ session'[r] \in Sessions \cup {r} \cup Started

(* Pool P is what a handler leaves when request r ends up in stage st.     *)
PoolFits(P, r, st) ==
    /\ P \in Pools
    /\ P.reg \subseteq Started \cup (IF st = "started" THEN {r} ELSE {})
    /\ \A s \in SessionIds : P.to[s] # None => /\ P.to[s] \in P.reg
                                               /\ session'[P.to[s]] = s
    /\ IsInjective(P.queue)
    /\ MaxQueueSize > 0 => Len(P.queue) <= MaxQueueSize
    /\ P.taken \cap ToSet(P.queue) = {}
    /\ r \notin P.taken
    /\ P.taken \cup ToSet(P.queue)
         = (Queued \ {r}) \cup (IF st = "queued" THEN {r} ELSE {})
    /\ \A x, y \in ToSet(P.queue) : session'[x] = session'[y] => x = y
    /\ P.queue # <<>> /\ ~AtCapacity(P.reg)
         => (draining \ {r}) \cup P.taken # {}

LEMMA HandlerEnds ==
    ASSUME PoolInv, NEW r \in Requests, NEW st \in Stages \ {"unsent"}, NEW P,
           stage[r] # "started", SessionSet(r), PoolFits(P, r, st),
           Moves(P, r, st)
    PROVE  PoolInv'
<1>0. /\ P.reg \subseteq Requests /\ P.taken \subseteq Requests
      /\ P.to \in [SessionIds -> Requests \cup {None}]
      /\ P.queue \in Seq(Requests)
      /\ processes' = P.reg /\ sessionToProcess' = P.to
      /\ workerQueue' = P.queue
      /\ draining' = (draining \ {r}) \cup P.taken
  BY DEF PoolFits, Pools, Moves, PoolBecomes
<1>1. /\ stage' \in [Requests -> Stages] /\ stage'[r] = st
      /\ \A x \in Requests : x # r =>
           stage'[x] = IF x \in P.taken THEN "spawning" ELSE stage[x]
  BY <1>0 DEF Moves, StageAfter, PoolInv, Stages, Awaiting
<1>2. /\ \A x \in P.taken : x # r /\ stage[x] = "queued"
      /\ ToSet(P.queue) \subseteq Requests
  BY DEF PoolFits, Queued
<1>3. Started \subseteq Started'
  BY <1>1, <1>2 DEF Started
<1>4. processes' \subseteq Started'
  BY <1>0, <1>1, <1>3 DEF PoolFits, Started
<1>5. draining' \subseteq
        {x \in Requests : stage'[x] \in {"spawning", "identifying"}}
  BY <1>0, <1>1, <1>2 DEF PoolInv
<1>6. \A x \in Requests :
        /\ session'[x] \in Sessions \cup {x} \cup Started'
        /\ stage'[x] = "unsent" => session'[x] = x
  BY <1>1, <1>3 DEF PoolInv, SessionSet
<1>7. MappingSound'
  BY <1>0 DEF PoolFits, MappingSound
<1>8. NoQueueStall'
  BY <1>0 DEF PoolFits, NoQueueStall, AtCapacity
<1>9. ToSet(workerQueue') = {x \in Requests : stage'[x] = "queued"}
  <2>1. ASSUME NEW x \in Requests, x # r
        PROVE  x \in ToSet(P.queue) <=> stage'[x] = "queued"
    BY <1>1, <2>1 DEF PoolFits, Queued
  <2>2. r \in ToSet(P.queue) <=> st = "queued"
    BY DEF PoolFits
  <2> QED
    BY <1>0, <1>1, <1>2, <2>1, <2>2
<1>10. QueueAccurate'
  BY <1>0, <1>9 DEF PoolFits, QueueAccurate
<1>11. MaxQueueSize > 0 => Len(workerQueue') <= MaxQueueSize
  BY <1>0 DEF PoolFits
<1> QED
  BY <1>0, <1>1, <1>4, <1>5, <1>6, <1>7, <1>8, <1>10, <1>11
     DEF PoolInv, SessionSet

(* A request that a handler is about and that is not in the queue          *)
Handled(r) == stage[r] \notin {"queued", "started"} /\ r \notin draining

\* A request that is answered, or waits for something, leaves no trace in the
\* pool.
LEMMA AnswerKeeps ==
    ASSUME PoolInv, NEW r \in Requests, NEW st \in Stages, NEW P, PoolOK(P),
           Handled(r), SessionSet(r), st \notin {"unsent", "queued", "started"},
           Moves(P, r, st)
    PROVE  PoolInv'
<1>1. r \notin Queued /\ r \notin Started
  BY DEF Handled, Queued, Started
<1>2. /\ P.reg \subseteq Started /\ P.taken \subseteq Queued
      /\ ToSet(P.queue) \subseteq Queued
      /\ Queued \subseteq Requests /\ Started \subseteq Requests
  BY DEF PoolOK, Queued, Started
<1>3. \A s \in SessionIds : P.to[s] # None => /\ P.to[s] \in P.reg
                                              /\ session'[P.to[s]] = s
  BY <1>1, <1>2 DEF PoolOK, SessionSet
<1>4. \A x, y \in ToSet(P.queue) : session'[x] = session'[y] => x = y
  <2>1. \A x \in Queued : session'[x] = session[x]
    BY <1>1, <1>2 DEF SessionSet
  <2>2. \A x, y \in Queued : session[x] = session[y] => x = y
    BY DEF PoolInv, QueueAccurate, Queued
  <2> QED
    BY <1>2, <2>1, <2>2
<1>5. PoolFits(P, r, st)
  BY <1>1, <1>2, <1>3, <1>4 DEF PoolOK, PoolFits, Handled
<1> QED
  BY <1>5, HandlerEnds DEF Handled

\* A request may be queued when no worker is free and there is room, unless a
\* request for its session is already queued.
LEMMA QueueKeeps ==
    ASSUME PoolInv, NEW r \in Requests, NEW P, PoolOK(P),
           Handled(r), SessionSet(r), AtCapacity(P.reg), ~QueueFull(P.queue),
           \A x \in ToSet(P.queue) : session'[x] # session'[r],
           Moves([P EXCEPT !.queue = Append(P.queue, r)], r, "queued")
    PROVE  PoolInv'
<1> DEFINE Q == [P EXCEPT !.queue = Append(P.queue, r)]
<1>1. r \notin Queued /\ r \notin Started
  BY DEF Handled, Queued, Started
<1>2. /\ P.reg \subseteq Started /\ P.taken \subseteq Queued
      /\ ToSet(P.queue) \subseteq Queued
      /\ Queued \subseteq Requests /\ Started \subseteq Requests
      /\ P.queue \in Seq(Requests) /\ Len(P.queue) \in Nat
  BY DEF PoolOK, Queued, Started, Pools
<1>3. /\ Append(P.queue, r) \in Seq(Requests)
      /\ IsInjective(Append(P.queue, r))
      /\ ToSet(Append(P.queue, r)) = ToSet(P.queue) \cup {r}
      /\ Len(Append(P.queue, r)) = Len(P.queue) + 1
  BY <1>1, <1>2, AppendToQueue DEF PoolOK
<1>4. /\ Q \in Pools
      /\ Q.reg = P.reg /\ Q.to = P.to /\ Q.taken = P.taken
      /\ Q.queue = Append(P.queue, r)
  BY <1>3 DEF PoolOK, Pools
<1> HIDE DEF Q
<1>5. \A s \in SessionIds : Q.to[s] # None => /\ Q.to[s] \in Q.reg
                                              /\ session'[Q.to[s]] = s
  BY <1>1, <1>2, <1>4 DEF PoolOK, SessionSet
<1>6. \A x, y \in ToSet(Q.queue) : session'[x] = session'[y] => x = y
  <2>1. \A x \in Queued : session'[x] = session[x]
    BY <1>1, <1>2 DEF SessionSet
  <2>2. \A x, y \in Queued : session[x] = session[y] => x = y
    BY DEF PoolInv, QueueAccurate, Queued
  <2> QED
    BY <1>2, <1>3, <1>4, <2>1, <2>2
<1>7. MaxQueueSize > 0 => Len(Q.queue) <= MaxQueueSize
  BY <1>2, <1>3, <1>4, ConstantsOK DEF QueueFull
<1>8. PoolFits(Q, r, "queued")
  BY <1>1, <1>2, <1>3, <1>4, <1>5, <1>6, <1>7 DEF PoolOK, PoolFits, Handled
<1>9. Moves(Q, r, "queued") /\ "queued" \in Stages \ {"unsent"}
  BY DEF Q, Stages
<1> QED
  BY <1>8, <1>9, HandlerEnds DEF Handled

\* A handler that is about no request ends with pool P.
LEMMA PoolSettles ==
    ASSUME PoolInv, NEW P, PoolOK(P), Ends(P), session' = session
    PROVE  PoolInv'
<1>0. /\ P.reg \subseteq Requests /\ P.taken \subseteq Requests
      /\ P.to \in [SessionIds -> Requests \cup {None}]
      /\ P.queue \in Seq(Requests)
      /\ processes' = P.reg /\ sessionToProcess' = P.to
      /\ workerQueue' = P.queue /\ draining' = draining \cup P.taken
  BY DEF PoolOK, Pools, Ends, PoolBecomes
<1>1. /\ stage' \in [Requests -> Stages]
      /\ \A x \in Requests :
           stage'[x] = IF x \in P.taken THEN "spawning" ELSE stage[x]
  BY <1>0 DEF Ends, StageAfter, PoolInv, Stages, Awaiting
<1>2. \A x \in P.taken : stage[x] = "queued"
  BY DEF PoolOK, Queued
<1>3. Started' = Started
  BY <1>1, <1>2 DEF Started
<1>4. draining' \subseteq
        {x \in Requests : stage'[x] \in {"spawning", "identifying"}}
  BY <1>0, <1>1, <1>2 DEF PoolInv
<1>5. MappingSound' /\ NoQueueStall'
  BY <1>0 DEF PoolOK, MappingSound, NoQueueStall, AtCapacity
<1>6. ToSet(workerQueue') = {x \in Requests : stage'[x] = "queued"}
  BY <1>0, <1>1 DEF PoolOK, Queued
<1>7. QueueAccurate'
  <2>1. \A x, y \in Queued : session[x] = session[y] => x = y
    BY DEF PoolInv, QueueAccurate, Queued
  <2>2. ToSet(P.queue) \subseteq Queued
    BY DEF PoolOK
  <2> QED
    BY <1>0, <1>6, <2>1, <2>2 DEF PoolOK, QueueAccurate
<1> QED
  BY <1>0, <1>1, <1>3, <1>4, <1>5, <1>7 DEF PoolInv, PoolOK

-----------------------------------------------------------------------------
(* Admission of a request                                                  *)

LEMMA AdmitKeeps ==
    ASSUME PoolInv, NEW r \in Requests, NEW P, PoolOK(P),
           Handled(r), SessionSet(r),
           \A x \in ToSet(P.queue) : session'[x] # session'[r],
           Admit(P, r)
    PROVE  PoolInv'
<1>1. ASSUME NEW st \in {"spawning", "refused", "preempting"}, Moves(P, r, st)
      PROVE  PoolInv'
  BY <1>1, AnswerKeeps DEF Stages, Awaiting
<1>2. CASE Moves([P EXCEPT !.queue = Append(P.queue, r)], r, "queued")
             /\ AtCapacity(P.reg) /\ ~QueueFull(P.queue)
  BY <1>2, QueueKeeps
<1> QED
  BY <1>1, <1>2 DEF Admit, Answer, Await

LEMMA AdmitOnceKeeps ==
    ASSUME PoolInv, NEW r \in Requests, NEW P, PoolOK(P),
           Handled(r), SessionSet(r), AdmitOnce(P, r, session'[r])
    PROVE  PoolInv'
<1>1. CASE \E x \in ToSet(P.queue) : session[x] = session'[r]
  BY <1>1, AnswerKeeps DEF AdmitOnce, Answer, Stages
<1>2. CASE ~\E x \in ToSet(P.queue) : session[x] = session'[r]
  <2>1. \A x \in ToSet(P.queue) : x \in Requests /\ x # r
    BY DEF PoolOK, Queued, Handled
  <2>2. \A x \in ToSet(P.queue) : session'[x] # session'[r]
    BY <1>2, <2>1 DEF SessionSet
  <2> QED
    BY <1>2, <2>2, AdmitKeeps DEF AdmitOnce
<1> QED
  BY <1>1, <1>2

LEMMA SendKeeps ==
    ASSUME PoolInv, NEW r \in Requests, NEW P, PoolOK(P),
           Handled(r), SessionSet(r), NEW p, Send(P, r, p)
    PROVE  PoolInv'
<1>1. PICK st \in {"delivered", "restarting", "toggling"} : Moves(P, r, st)
  BY DEF Send, Deliver, Await
<1> QED
  BY <1>1, AnswerKeeps DEF Stages, Awaiting

LEMMA ResumeInKeeps ==
    ASSUME PoolInv, NEW r \in Requests, NEW P, PoolOK(P),
           Handled(r), SessionSet(r), ResumeIn(P, r, session'[r])
    PROVE  PoolInv'
<1> DEFINE p == P.to[session'[r]]
<1>1. PoolOK(Unregistered(P, p))
  BY UnregisteredPool
<1>2. \/ AdmitOnce(P, r, session'[r])
      \/ AdmitOnce(Unregistered(P, p), r, session'[r])
      \/ Send(P, r, p)
  BY DEF ResumeIn
<1> QED
  BY <1>1, <1>2, AdmitOnceKeeps, SendKeeps

\* After the start of request r a run of processQueue goes on, if r belongs to
\* one: no request waits for a free worker without a run that will start it.
LEMMA LoopPool ==
    ASSUME PoolInv, NEW r \in Requests, NEW R \in Pools,
           processes \subseteq R.reg, R.queue = workerQueue, R.taken = {}
    PROVE  LET P == LoopGoesOn(R, r)
           IN  /\ P \in Pools
               /\ P.reg = R.reg /\ P.to = R.to
               /\ IsInjective(P.queue)
               /\ MaxQueueSize > 0 => Len(P.queue) <= MaxQueueSize
               /\ P.taken \cap ToSet(P.queue) = {}
               /\ P.taken \cup ToSet(P.queue) = Queued
               /\ P.queue # <<>> /\ ~AtCapacity(P.reg)
                    => (draining \ {r}) \cup P.taken # {}
<1>1. /\ IsInjective(workerQueue) /\ ToSet(workerQueue) = Queued
      /\ Len(workerQueue) \in Nat
      /\ MaxQueueSize > 0 => Len(workerQueue) <= MaxQueueSize
  BY DEF PoolInv, QueueAccurate, Queued
<1>2. /\ IsInjective(R.queue) /\ R.taken \cap ToSet(R.queue) = {}
      /\ R.taken \cup ToSet(R.queue) = Queued
  BY <1>1
<1>3. CASE r \in draining
  <2>1. LoopGoesOn(R, r) = Drained(R)
    BY <1>3 DEF LoopGoesOn
  <2>2. /\ Drained(R) \in Pools
        /\ Drained(R).reg = R.reg /\ Drained(R).to = R.to
        /\ IsInjective(Drained(R).queue)
        /\ Len(Drained(R).queue) <= Len(R.queue)
        /\ Drained(R).taken \cap ToSet(Drained(R).queue) = {}
        /\ Drained(R).taken \cup ToSet(Drained(R).queue) = Queued
        /\ Drained(R).queue # <<>> /\ ~AtCapacity(R.reg)
             => Drained(R).taken # {}
    BY <1>2, DrainedPool
  <2>3. Len(Drained(R).queue) \in Nat
    BY <2>2 DEF Pools
  <2>4. MaxQueueSize > 0 => Len(Drained(R).queue) <= MaxQueueSize
    BY <1>1, <2>2, <2>3, ConstantsOK
  <2> QED
    BY <2>1, <2>2, <2>4
<1>4. CASE r \notin draining
  <2>1. LoopGoesOn(R, r) = R
    BY <1>4 DEF LoopGoesOn
  <2>2. R.queue # <<>> /\ ~AtCapacity(R.reg) => draining # {}
    <3>1. R.reg \in SUBSET Requests
      BY DEF Pools
    <3>2. ~AtCapacity(R.reg) => ~AtCapacity(processes)
      BY <3>1, CapacityFreed
    <3> QED
      BY <3>2 DEF PoolInv, NoQueueStall
  <2> QED
    BY <1>1, <1>2, <1>4, <2>1, <2>2
<1> QED
  BY <1>3, <1>4

\* registerProcess(r) names the process and lets processQueue go on.
LEMMA RegisterKeeps ==
    ASSUME PoolInv, NEW r \in Requests, Register(r), session' = session,
           stage[r] \in {"spawning", "identifying"}
    PROVE  PoolInv'
<1> DEFINE R == Registered(Begin, r)
           to == [sessionToProcess EXCEPT ![session[r]] = r]
           P == LoopGoesOn(R, r)
<1>1. session[r] \in SessionIds /\ r \notin Queued /\ SessionSet(r)
  BY DEF PoolInv, Queued, SessionSet
<1>2. /\ R \in Pools
      /\ R.reg = processes \cup {r} /\ R.to = to
      /\ R.queue = workerQueue /\ R.taken = {}
  BY <1>1 DEF Registered, Begin, Pools, PoolInv, Started
<1>3. \A s \in SessionIds : to[s] = IF s = session[r] THEN r
                                    ELSE sessionToProcess[s]
  BY <1>1 DEF PoolInv
<1>4. Moves(P, r, "started") /\ "started" \in Stages \ {"unsent"}
  BY DEF Register, Stages
<1> HIDE DEF R, to
<1>5. /\ P \in Pools /\ P.reg = processes \cup {r} /\ P.to = to
      /\ IsInjective(P.queue)
      /\ MaxQueueSize > 0 => Len(P.queue) <= MaxQueueSize
      /\ P.taken \cap ToSet(P.queue) = {}
      /\ P.taken \cup ToSet(P.queue) = Queued
      /\ P.queue # <<>> /\ ~AtCapacity(P.reg)
           => (draining \ {r}) \cup P.taken # {}
  BY <1>2, LoopPool
<1> HIDE DEF P
<1>6. \A s \in SessionIds : P.to[s] # None => /\ P.to[s] \in P.reg
                                              /\ session'[P.to[s]] = s
  BY <1>3, <1>5 DEF PoolInv, MappingSound
<1>7. \A x, y \in ToSet(P.queue) : session'[x] = session'[y] => x = y
  BY <1>5 DEF PoolInv, QueueAccurate, Queued
<1>8. PoolFits(P, r, "started")
  BY <1>1, <1>5, <1>6, <1>7 DEF PoolFits, PoolInv
<1> QED
  BY <1>1, <1>4, <1>8, HandlerEnds

\* The start of a request fails, and processQueue goes on.
LEMMA FailureKeeps ==
    ASSUME PoolInv, NEW r \in Requests, SpawnFails(r)
    PROVE  PoolInv'
<1> DEFINE P == LoopGoesOn(Begin, r)
<1>1. /\ session' = session /\ stage[r] = "spawning" /\ SessionSet(r)
      /\ r \notin Queued
      /\ Moves(P, r, "failed") /\ "failed" \in Stages \ {"unsent"}
  BY DEF SpawnFails, Answer, callVars, PoolInv, SessionSet, Queued, Stages
<1>2. /\ Begin \in Pools /\ Begin.reg = processes
      /\ Begin.to = sessionToProcess
      /\ Begin.queue = workerQueue /\ Begin.taken = {}
  BY BeginOK DEF PoolOK, Begin
<1>3. /\ P \in Pools /\ P.reg = processes /\ P.to = sessionToProcess
      /\ IsInjective(P.queue)
      /\ MaxQueueSize > 0 => Len(P.queue) <= MaxQueueSize
      /\ P.taken \cap ToSet(P.queue) = {}
      /\ P.taken \cup ToSet(P.queue) = Queued
      /\ P.queue # <<>> /\ ~AtCapacity(P.reg)
           => (draining \ {r}) \cup P.taken # {}
  BY <1>2, LoopPool
<1> HIDE DEF P
<1>4. \A x, y \in ToSet(P.queue) : session'[x] = session'[y] => x = y
  BY <1>1, <1>3 DEF PoolInv, QueueAccurate, Queued
<1>5. PoolFits(P, r, "failed")
  BY <1>1, <1>3, <1>4 DEF PoolFits, PoolInv, MappingSound
<1> QED
  BY <1>1, <1>5, HandlerEnds

-----------------------------------------------------------------------------
(* Every step keeps the pool's invariant                                   *)

LEMMA PoolKept ==
    ASSUME PoolInv, UNCHANGED <<poolVars, stage, session, draining>>
    PROVE  PoolInv'
BY DEF PoolInv, poolVars, Started, MappingSound, NoQueueStall, QueueAccurate,
       AtCapacity

LEMMA CancelKeeps ==
    ASSUME PoolInv, NEW r \in Requests, CancelQueuedRequest(r)
    PROVE  PoolInv'
<1> DEFINE left == RemoveFirst(workerQueue, r)
           P == [Begin EXCEPT !.queue = left]
<1>1. /\ r \in ToSet(workerQueue) /\ IsInjective(workerQueue)
      /\ workerQueue \in Seq(Requests) /\ Len(workerQueue) \in Nat
      /\ ToSet(workerQueue) = Queued
      /\ session' = session
  BY DEF CancelQueuedRequest, PoolInv, QueueAccurate, Queued, callVars
<1>2. /\ left \in Seq(Requests) /\ IsInjective(left)
      /\ ToSet(left) = Queued \ {r}
      /\ Len(left) = Len(workerQueue) - 1
  BY <1>1, RemoveFromQueue
<1>3. Moves(P, r, "cancelled")
  BY DEF CancelQueuedRequest, Answer
<1> HIDE DEF left
<1>4. /\ P \in Pools
      /\ P.reg = processes /\ P.to = sessionToProcess
      /\ P.queue = left /\ P.taken = {}
  BY <1>2 DEF Begin, Pools, PoolInv, Started
<1> HIDE DEF P
<1>5. /\ stage[r] = "queued" /\ r \notin draining /\ SessionSet(r)
      /\ stage[r] # "started" /\ "cancelled" \in Stages \ {"unsent"}
  BY <1>1 DEF Queued, PoolInv, SessionSet, Stages
<1>6. P.queue # <<>> => workerQueue # <<>>
  BY <1>1, HeadOfQueue
<1>7. \A x, y \in ToSet(P.queue) : session'[x] = session'[y] => x = y
  BY <1>1, <1>2, <1>4 DEF PoolInv, QueueAccurate
<1>8. MaxQueueSize > 0 => Len(P.queue) <= MaxQueueSize
  BY <1>1, <1>2, <1>4, ConstantsOK DEF PoolInv
<1>9. P.queue # <<>> /\ ~AtCapacity(P.reg)
        => (draining \ {r}) \cup P.taken # {}
  <2>1. ~AtCapacity(P.reg) => ~AtCapacity(processes)
    BY <1>4
  <2> QED
    BY <1>4, <1>5, <1>6, <2>1 DEF PoolInv, NoQueueStall
<1>10. PoolFits(P, r, "cancelled")
  BY <1>1, <1>2, <1>4, <1>7, <1>8, <1>9
     DEF PoolFits, PoolInv, MappingSound
<1> QED
  BY <1>3, <1>5, <1>10, HandlerEnds

LEMMA StepPool ==
    ASSUME PoolInv, [Next]_vars
    PROVE  PoolInv'
<1>1. PoolOK(Begin)
  BY BeginOK
<1>2. \A p : PoolOK(Unregistered(Begin, p))
  BY <1>1, UnregisteredPool
<1>3. ASSUME NEW r \in Requests, session' = session
      PROVE  SessionSet(r)
  BY <1>3 DEF PoolInv, SessionSet
<1>4. ASSUME NEW r \in Requests,
             stage[r] \in {"unsent", "preempting", "restarting", "toggling"}
      PROVE  Handled(r)
  BY <1>4 DEF PoolInv, Handled
<1>5. ASSUME NEW r \in Requests, StartSession(r)
      PROVE  PoolInv'
  <2>1. session' = session /\ stage[r] = "unsent" /\ Admit(Begin, r)
    BY <1>5 DEF StartSession
  <2>2. ASSUME NEW x \in ToSet(Begin.queue)
        PROVE  session'[x] # session'[r]
    <3>1. x \in Requests /\ stage[x] = "queued"
      BY DEF Begin, PoolInv, QueueAccurate
    <3>2. session[r] = r /\ stage[session[r]] # "started"
      BY <2>1 DEF PoolInv
    <3>3. session[x] \in Sessions \cup {x} \cup Started
      BY <3>1 DEF PoolInv
    <3> QED
      BY <2>1, <3>1, <3>2, <3>3, ConstantsOK DEF Started
  <2> QED
    BY <1>1, <1>3, <1>4, <2>1, <2>2, AdmitKeeps
<1>6. ASSUME NEW r \in Requests, NEW s \in SessionIds, MayCall(r, s),
             session' = [session EXCEPT ![r] = s]
      PROVE  SessionSet(r) /\ Handled(r) /\ session'[r] = s
  <2>1. s \in Sessions \cup Started
    BY <1>6 DEF MayCall, Known, SessionIds, Started
  <2> QED
    BY <1>4, <1>6, <2>1 DEF PoolInv, SessionSet, MayCall
<1>7. ASSUME NEW r \in Requests, NEW s \in SessionIds, ResumeSession(r, s)
      PROVE  PoolInv'
  <2>1. /\ SessionSet(r) /\ Handled(r) /\ session'[r] = s
        /\ ResumeIn(Begin, r, s)
    BY <1>6, <1>7 DEF ResumeSession
  <2> QED
    BY <1>1, <2>1, ResumeInKeeps
<1>8. ASSUME NEW r \in Requests, NEW s \in SessionIds,
             QueueMessageToSession(r, s)
      PROVE  PoolInv'
  <2>1. /\ SessionSet(r) /\ Handled(r)
        /\ Send(Begin, r, sessionToProcess[s])
    BY <1>6, <1>8 DEF QueueMessageToSession
  <2> QED
    BY <1>1, <2>1, SendKeeps
<1>9. ASSUME NEW r \in Requests, PreemptEnds(r)
      PROVE  PoolInv'
  <2>1. /\ SessionSet(r) /\ Handled(r)
        /\ Moves(Unregistered(Begin, target[r]), r, "spawning")
    BY <1>3, <1>4, <1>9 DEF PreemptEnds, callVars, Answer
  <2> QED
    BY <1>2, <2>1, AnswerKeeps DEF Stages, Awaiting
<1>10. ASSUME NEW r \in Requests, RestartEnds(r)
       PROVE  PoolInv'
  <2> DEFINE P == Unregistered(Begin, target[r])
  <2>1. /\ SessionSet(r) /\ Handled(r) /\ session'[r] = session[r]
        /\ \/ Deliver(P, r, target[r])
           \/ AdmitOnce(P, r, session[r])
           \/ ResumeIn(P, r, session[r])
    BY <1>3, <1>4, <1>10 DEF RestartEnds
  <2>2. Deliver(P, r, target[r]) => Moves(P, r, "delivered")
    BY DEF Deliver
  <2>3. PoolOK(P)
    BY <1>2
  <2> HIDE DEF P
  <2> QED
    BY <2>1, <2>2, <2>3, AnswerKeeps, AdmitOnceKeeps, ResumeInKeeps DEF Stages
<1>11. ASSUME NEW r \in Requests, ToggleEnds(r)
       PROVE  PoolInv'
  <2>1. /\ SessionSet(r) /\ Handled(r) /\ session'[r] = session[r]
        /\ \/ \E st \in {"delivered", "refused"} : Moves(Begin, r, st)
           \/ AdmitOnce(Begin, r, session[r])
    BY <1>3, <1>4, <1>11 DEF ToggleEnds, callVars, Deliver, Answer
  <2> QED
    BY <1>1, <2>1, AnswerKeeps, AdmitOnceKeeps DEF Stages
<1>12. ASSUME NEW r \in Requests, CancelQueuedRequest(r)
       PROVE  PoolInv'
  BY <1>12, CancelKeeps
<1>13. ASSUME NEW r \in Requests, SpawnResumed(r) \/ Identified(r)
       PROVE  PoolInv'
  BY <1>13, RegisterKeeps DEF SpawnResumed, Identified, callVars
<1>14. ASSUME NEW r \in Requests, SpawnNew(r)
       PROVE  PoolInv'
  <2>1. /\ stage[r] = "spawning"
        /\ stage' = [stage EXCEPT ![r] = "identifying"]
        /\ UNCHANGED <<processes, sessionToProcess, workerQueue, session,
                       draining>>
    BY <1>14 DEF SpawnNew, poolVars, callVars
  <2>2. /\ stage' \in [Requests -> Stages] /\ Started' = Started
        /\ {x \in Requests : stage'[x] = "queued"}
             = {x \in Requests : stage[x] = "queued"}
        /\ draining' \subseteq
             {x \in Requests : stage'[x] \in {"spawning", "identifying"}}
    BY <2>1 DEF PoolInv, Started, Stages, Awaiting
  <2>3. MappingSound' /\ NoQueueStall' /\ QueueAccurate'
    BY <2>1, <2>2
       DEF PoolInv, MappingSound, NoQueueStall, QueueAccurate, AtCapacity
  <2> QED
    BY <2>1, <2>2, <2>3 DEF PoolInv
<1>15. ASSUME NEW r \in Requests, SpawnFails(r)
       PROVE  PoolInv'
  BY <1>15, FailureKeeps
<1>16. ASSUME NEW p \in Requests,
              Dies(p) \/ IdleTimeout(p) \/ AbortProcessEnds(p)
       PROVE  PoolInv'
  BY <1>2, <1>16, PoolSettles DEF Dies, IdleTimeout, AbortProcessEnds, callVars
<1>17. ASSUME NEW p \in Requests, TurnEnds(p) \/ AbortProcess(p)
       PROVE  PoolInv'
  BY <1>17, PoolKept DEF TurnEnds, AbortProcess, callVars
<1>18. CASE UNCHANGED vars
  BY <1>18, PoolKept DEF vars, callVars
<1> QED
  BY <1>5, <1>7, <1>8, <1>9, <1>10, <1>11, <1>12, <1>13, <1>14, <1>15, <1>16,
     <1>17, <1>18 DEF Next, ClientStep, CallStep, ProcessStep

-----------------------------------------------------------------------------
(* The other variables keep their types                                    *)

CallsTyped ==
    /\ proc' \in [Requests -> {"none", "busy", "idle", "terminated"}]
    /\ target' \in [Requests -> Requests \cup {None}]
    /\ inbox' \in [Requests -> Requests \cup {None}]

LEMMA AnswerTyped ==
    ASSUME CallTypeOK, NEW r \in Requests, NEW P, NEW st,
           NEW p \in Requests \cup {None},
           Deliver(P, r, p) \/ Await(P, r, st, p) \/ Answer(P, r, st)
    PROVE  CallsTyped
BY DEF CallTypeOK, CallsTyped, Deliver, Await, Answer

LEMMA AdmitTyped ==
    ASSUME CallTypeOK, NEW r \in Requests, NEW P, P.reg \subseteq Requests,
           NEW s, Admit(P, r) \/ AdmitOnce(P, r, s)
    PROVE  CallsTyped
<1>1. \/ \E Q, st : Answer(Q, r, st)
      \/ \E p \in P.reg : Await(P, r, "preempting", p)
  BY DEF Admit, AdmitOnce
<1> QED
  BY <1>1, AnswerTyped

LEMMA ResumeInTyped ==
    ASSUME CallTypeOK, NEW r \in Requests, NEW P, PoolOK(P),
           NEW s \in SessionIds, ResumeIn(P, r, s)
    PROVE  CallsTyped
<1> DEFINE p == P.to[s]
<1>1. p \in Requests \cup {None} /\ P.reg \subseteq Requests
  BY DEF PoolOK, Pools
<1>2. Unregistered(P, p).reg \subseteq Requests
  BY <1>1, UnregisteredPool
<1>3. \/ AdmitOnce(P, r, s)
      \/ AdmitOnce(Unregistered(P, p), r, s)
      \/ \E st : Deliver(P, r, p) \/ Await(P, r, st, p)
  BY DEF ResumeIn, Send
<1> HIDE DEF p
<1> QED
  BY <1>1, <1>2, <1>3, AdmitTyped, AnswerTyped

LEMMA StepCalls ==
    ASSUME PoolInv, CallTypeOK, [Next]_vars
    PROVE  CallTypeOK'
<1>0. /\ PoolOK(Begin)
      /\ \A p : PoolOK(Unregistered(Begin, p))
      /\ \A r \in Requests : target[r] \in Requests \cup {None}
      /\ \A r \in Requests : session[r] \in SessionIds
  BY BeginOK, UnregisteredPool DEF CallTypeOK, PoolInv
<1>1. \A P : PoolOK(P) => P.reg \subseteq Requests
  BY DEF PoolOK, Pools
<1>2. ASSUME NEW r \in Requests, CallsTyped, stopping' = stopping,
             \/ via' = via
             \/ \E v \in {"start", "resume", "message"} :
                  via' = [via EXCEPT ![r] = v]
      PROVE  CallTypeOK'
  BY <1>2 DEF CallTypeOK, CallsTyped
<1>3. ASSUME NEW r \in Requests, StartSession(r)
      PROVE  CallTypeOK'
  <2>1. CallsTyped
    BY <1>0, <1>1, <1>3, AdmitTyped DEF StartSession
  <2> QED
    BY <1>2, <1>3, <2>1 DEF StartSession
<1>4. ASSUME NEW r \in Requests, NEW s \in SessionIds, ResumeSession(r, s)
      PROVE  CallTypeOK'
  <2>1. CallsTyped
    BY <1>0, <1>4, ResumeInTyped DEF ResumeSession
  <2> QED
    BY <1>2, <1>4, <2>1 DEF ResumeSession
<1>5. ASSUME NEW r \in Requests, NEW s \in SessionIds,
             QueueMessageToSession(r, s)
      PROVE  CallTypeOK'
  <2>1. sessionToProcess[s] \in Requests \cup {None}
    BY DEF PoolInv
  <2>2. CallsTyped
    BY <1>5, <2>1, AnswerTyped DEF QueueMessageToSession, Send
  <2> QED
    BY <1>2, <1>5, <2>2 DEF QueueMessageToSession
<1>6. ASSUME NEW r \in Requests, \/ PreemptEnds(r) \/ CancelQueuedRequest(r)
                                 \/ SpawnFails(r)
      PROVE  CallTypeOK'
  <2>1. \E P, st : Answer(P, r, st)
    BY <1>6 DEF PreemptEnds, CancelQueuedRequest, SpawnFails
  <2>2. CallsTyped
    BY <2>1, AnswerTyped
  <2> QED
    BY <1>2, <1>6, <2>2
       DEF PreemptEnds, CancelQueuedRequest, SpawnFails, callVars
<1>7. ASSUME NEW r \in Requests, RestartEnds(r)
      PROVE  CallTypeOK'
  <2>1. \/ Deliver(Unregistered(Begin, target[r]), r, target[r])
        \/ AdmitOnce(Unregistered(Begin, target[r]), r, session[r])
        \/ ResumeIn(Unregistered(Begin, target[r]), r, session[r])
    BY <1>7 DEF RestartEnds
  <2>2. CallsTyped
    BY <1>0, <1>1, <2>1, AnswerTyped, AdmitTyped, ResumeInTyped
  <2> QED
    BY <1>2, <1>7, <2>2 DEF RestartEnds
<1>8. ASSUME NEW r \in Requests, ToggleEnds(r)
      PROVE  CallTypeOK'
  <2>1. \/ Deliver(Begin, r, target[r])
        \/ AdmitOnce(Begin, r, session[r])
        \/ Answer(Begin, r, "refused")
    BY <1>8 DEF ToggleEnds
  <2>2. CallsTyped
    BY <1>0, <1>1, <2>1, AnswerTyped, AdmitTyped
  <2> QED
    BY <1>2, <1>8, <2>2 DEF ToggleEnds, callVars
<1>9. ASSUME NEW r \in Requests,
             \/ SpawnResumed(r) \/ SpawnNew(r) \/ Identified(r)
             \/ TurnEnds(r) \/ Dies(r) \/ IdleTimeout(r)
             \/ AbortProcess(r) \/ AbortProcessEnds(r)
      PROVE  CallTypeOK'
  BY <1>9 DEF SpawnResumed, SpawnNew, Identified, TurnEnds, Dies, IdleTimeout,
     AbortProcess, AbortProcessEnds, CallTypeOK, callVars
<1>10. CASE UNCHANGED vars
  BY <1>10 DEF vars, callVars, CallTypeOK
<1> QED
  BY <1>3, <1>4, <1>5, <1>6, <1>7, <1>8, <1>9, <1>10
     DEF Next, ClientStep, CallStep, ProcessStep

-----------------------------------------------------------------------------
(* Theorems about any interleaving of calls                                *)

\* Init, and every call, every end of an await and every event of a process,
\* establishes or keeps the invariant.
THEOREM PoolInductive == Spec => [](PoolInv /\ CallTypeOK)
<1>1. Init => PoolInv
  <2> SUFFICES ASSUME Init PROVE PoolInv
    OBVIOUS
  <2>1. /\ MappingSound /\ NoQueueStall /\ ToSet(workerQueue) = {}
        /\ IsInjective(workerQueue)
    BY DEF Init, MappingSound, NoQueueStall, IsInjective, ToSet
  <2>2. QueueAccurate
    BY <2>1 DEF Init, QueueAccurate
  <2> QED
    BY <2>1, <2>2, ConstantsOK
       DEF Init, PoolInv, SessionIds, Stages, Started
<1>2. Init => CallTypeOK
  BY DEF Init, CallTypeOK
<1>3. PoolInv /\ CallTypeOK /\ [Next]_vars => (PoolInv /\ CallTypeOK)'
  BY StepPool, StepCalls
<1> QED
  BY <1>1, <1>2, <1>3, PTL DEF Spec

\* The variables of the pool and of the calls keep their types, and the queue
\* never holds more than its limit.
THEOREM TypeCorrect == Spec => []TypeOK
<1>1. PoolInv /\ CallTypeOK => TypeOK
  BY DEF PoolInv, CallTypeOK, TypeOK, Started
<1> QED
  BY <1>1, PoolInductive, PTL

\* However calls for one session overlap, and whenever processes die, an entry
\* of sessionToProcess leads to a registered process of that session.
THEOREM MappingIsSound == Spec => []MappingSound
<1>1. PoolInv => MappingSound
  BY DEF PoolInv
<1> QED
  BY <1>1, PoolInductive, PTL

\* No request stays in the queue beside a free worker unless a run of
\* processQueue is under way: every handler that frees a worker, and every end
\* of a start that the queue waits for, looks at the queue again.
THEOREM QueueNeverStalls == Spec => []NoQueueStall
<1>1. PoolInv => NoQueueStall
  BY DEF PoolInv
<1> QED
  BY <1>1, PoolInductive, PTL

\* The queue and the answers given to the clients agree: it holds the requests
\* that were told "queued", each once, and one per session.
THEOREM QueueMatchesAnswers == Spec => []QueueAccurate
<1>1. PoolInv => QueueAccurate
  BY DEF PoolInv
<1> QED
  BY <1>1, PoolInductive, PTL

=============================================================================
