--------------------------- MODULE SessionManager ----------------------------
(***************************************************************************)
(* The pool of sessions of the Koheron server (server/core/session_manager *)
(* .hpp and .cpp): allocation and reuse of session ids under a mutex.      *)
(*                                                                         *)
(* create_session and delete_session are split at every point where a      *)
(* thread that does NOT take the mutex (get_session, delete_all and        *)
(* exit_comm read the pool without it) can see their effect:               *)
(*                                                                         *)
(*   create_session:  new -> insert -> count_up -> idle                    *)
(*   delete_session:  idle -> erase -> push -> count_down -> idle          *)
(*                                                                         *)
(* A session object is named by the session thread that creates it: every  *)
(* connection has one thread, which calls create_session once.             *)
(***************************************************************************)
EXTENDS Integers, Sequences, FiniteSets, Functions

CONSTANTS Sessions,   \* the session threads, one per accepted connection
          Main,       \* the thread of Server::run
          NoThread    \* owner of a mutex that is free

ASSUME SessionsAssumption ==
    /\ Main \notin Sessions
    /\ NoThread \notin Sessions \cup {Main}

Callers == Sessions \cup {Main}

VARIABLES session_pool,        \* std::map<SessionID, unique_ptr<Session>>
          reusable_ids,        \* std::vector<SessionID>, used as a stack
          number_of_sessions,
          mutex,               \* the caller that holds SessionManager::mutex
          call,                \* where each caller is in create/delete_session
          call_id              \* new_id of its create, or id of its delete

sm_vars == <<session_pool, reusable_ids, number_of_sessions, mutex, call, call_id>>

SMInit ==
    /\ session_pool = [id \in {} |-> id]
    /\ reusable_ids = <<>>
    /\ number_of_sessions = 0
    /\ mutex = NoThread
    /\ call = [t \in Callers |-> IF t = Main THEN "idle" ELSE "new"]
    /\ call_id = [t \in Callers |-> 0]

-----------------------------------------------------------------------------
\* Step t from one point of its call to the next.
Goto(t, from, to) ==
    /\ call[t] = from
    /\ call' = [call EXCEPT ![t] = to]

\* Mutant: the lock_guard is missing.
AcquireWithoutLock(t) == mutex' = t

\* lock_guard at the head of both functions, and its release at their end.
Acquire(t) == mutex = NoThread /\ mutex' = t

Release(t) == mutex' = NoThread

\* Mutant: pop_back is missing.
CreateChooseIdNoPop(t) ==
    /\ Goto(t, "new", "insert")
    /\ Acquire(t)
    /\ call_id' = [call_id EXCEPT ![t] = IF reusable_ids = <<>> THEN number_of_sessions
                                         ELSE reusable_ids[Len(reusable_ids)]]
    /\ UNCHANGED <<session_pool, reusable_ids, number_of_sessions>>

\* Mutant: the id is always number_of_sessions.
CreateChooseIdByCount(t) ==
    /\ Goto(t, "new", "insert")
    /\ Acquire(t)
    /\ call_id' = [call_id EXCEPT ![t] = number_of_sessions]
    /\ UNCHANGED <<session_pool, reusable_ids, number_of_sessions>>

\* Mutant: new_id = number_of_sessions + 1.
CreateChooseIdOffByOne(t) ==
    /\ Goto(t, "new", "insert")
    /\ Acquire(t)
    /\ reusable_ids = <<>>
    /\ call_id' = [call_id EXCEPT ![t] = number_of_sessions + 1]
    /\ UNCHANGED <<session_pool, reusable_ids, number_of_sessions>>

\* create_session: take the lock, choose the id.
CreateChooseId(t) ==
    /\ Goto(t, "new", "insert")
    /\ Acquire(t)
    /\ IF reusable_ids = <<>>
       THEN /\ call_id' = [call_id EXCEPT ![t] = number_of_sessions]
            /\ UNCHANGED reusable_ids
       ELSE /\ call_id' = [call_id EXCEPT ![t] = reusable_ids[Len(reusable_ids)]]
            /\ reusable_ids' = SubSeq(reusable_ids, 1, Len(reusable_ids) - 1)
    /\ UNCHANGED <<session_pool, number_of_sessions>>

\* std::map::insert keeps the old entry, and drops the new one, when the key
\* is already there.
CreateInsert(t) ==
    /\ Goto(t, "insert", "count_up")
    /\ session_pool' = [id \in DOMAIN session_pool \cup {call_id[t]} |->
                          IF id \in DOMAIN session_pool THEN session_pool[id] ELSE t]
    /\ UNCHANGED <<reusable_ids, number_of_sessions, mutex, call_id>>

\* Mutant: number_of_sessions++ is missing.
CreateNoCount(t) ==
    /\ Goto(t, "count_up", "idle")
    /\ Release(t)
    /\ UNCHANGED <<session_pool, reusable_ids, number_of_sessions, call_id>>

CreateCount(t) ==
    /\ Goto(t, "count_up", "idle")
    /\ number_of_sessions' = number_of_sessions + 1
    /\ Release(t)
    /\ UNCHANGED <<session_pool, reusable_ids, call_id>>

\* delete_session of an id that is in the pool: take the lock, find it, shut
\* its socket down and close it (the descriptors are the composition's).
DeleteLookup(t, id) ==
    /\ Goto(t, "idle", "erase")
    /\ Acquire(t)
    /\ id \in DOMAIN session_pool
    /\ call_id' = [call_id EXCEPT ![t] = id]
    /\ UNCHANGED <<session_pool, reusable_ids, number_of_sessions>>

\* Mutant: the early return is missing, the count is decremented all the same.
DeleteNotAllocatedCounts(t, id) ==
    /\ call[t] = "idle"
    /\ mutex = NoThread
    /\ id \notin DOMAIN session_pool
    /\ number_of_sessions' = number_of_sessions - 1
    /\ UNCHANGED <<session_pool, reusable_ids, mutex, call, call_id>>

\* delete_session of any other id takes the lock, logs and returns.
DeleteNotAllocated(t, id) ==
    /\ call[t] = "idle"
    /\ mutex = NoThread
    /\ id \notin DOMAIN session_pool
    /\ UNCHANGED sm_vars

\* session_pool.erase destroys the session object.
DeleteErase(t) ==
    /\ Goto(t, "erase", "push")
    /\ session_pool' = Restrict(session_pool, DOMAIN session_pool \ {call_id[t]})
    /\ UNCHANGED <<reusable_ids, number_of_sessions, mutex, call_id>>

DeletePush(t) ==
    /\ Goto(t, "push", "count_down")
    /\ reusable_ids' = Append(reusable_ids, call_id[t])
    /\ UNCHANGED <<session_pool, number_of_sessions, mutex, call_id>>

\* Mutant: the mutex is locked by hand and not unlocked.
DeleteKeepsLock(t) ==
    /\ Goto(t, "count_down", "idle")
    /\ number_of_sessions' = number_of_sessions - 1
    /\ call_id' = [call_id EXCEPT ![t] = 0]
    /\ UNCHANGED <<session_pool, reusable_ids, mutex>>

DeleteCount(t) ==
    /\ Goto(t, "count_down", "idle")
    /\ number_of_sessions' = number_of_sessions - 1
    /\ Release(t)
    /\ call_id' = [call_id EXCEPT ![t] = 0]
    /\ UNCHANGED <<session_pool, reusable_ids>>

SMNext ==
    \/ \E t \in Sessions : CreateChooseId(t) \/ CreateInsert(t) \/ CreateCount(t)
    \/ \E t \in Callers : \/ \E id \in DOMAIN session_pool : DeleteLookup(t, id)
                          \/ DeleteErase(t) \/ DeletePush(t) \/ DeleteCount(t)
                          \/ DeleteNotAllocated(t, call_id[t])

SMSpec == SMInit /\ [][SMNext]_sm_vars

-----------------------------------------------------------------------------
\* Type invariant of the pool.
SMTypeOK ==
    /\ DOMAIN session_pool \subseteq Nat
    /\ session_pool \in [DOMAIN session_pool -> Sessions]
    /\ reusable_ids \in Seq(Nat)
    /\ number_of_sessions \in Nat
    /\ mutex \in Callers \cup {NoThread}
    /\ call \in [Callers -> {"new", "insert", "count_up", "idle",
                             "erase", "push", "count_down"}]
    /\ call_id \in [Callers -> Nat]

\* get_session_ids asserts that no id of the pool is reusable; it runs
\* without the lock in delete_all, so this must hold in EVERY state, also in
\* the middle of a create or a delete.  An id may not be reusable twice
\* either: it would be given to two sessions.
NoIdIsPooledAndReusable ==
    /\ \A i \in 1..Len(reusable_ids) : reusable_ids[i] \notin DOMAIN session_pool
    /\ \A i, j \in 1..Len(reusable_ids) : i # j => reusable_ids[i] # reusable_ids[j]

\* number_of_sessions is the id create_session gives out when no id is
\* reusable, so it has to be exactly the size of the pool whenever the mutex
\* can be taken.
CountMatchesPool ==
    mutex = NoThread => number_of_sessions = Cardinality(DOMAIN session_pool)

\* A thread that is about to insert has an id nobody has: std::map::insert,
\* which keeps an existing entry, never drops the new session.
InsertIsFresh ==
    \A t \in Sessions : call[t] = "insert" => call_id[t] \notin DOMAIN session_pool

\* The inductive invariant.  Only the owner of the mutex is inside a call;
\* and the ids known to the pool, the stack and the call in progress are
\* an initial segment of the naturals, whose length number_of_sessions and
\* the length of the stack determine.
Phase == IF mutex = NoThread THEN "idle" ELSE call[mutex]

IdInTransit == IF Phase \in {"insert", "push"} THEN {call_id[mutex]} ELSE {}

KnownIds == DOMAIN session_pool \cup Range(reusable_ids) \cup IdInTransit

\* One past the largest id, corrected for the call in progress.
NumberOfIds ==
    number_of_sessions + Len(reusable_ids)
      + (IF Phase \in {"insert", "count_up"} THEN 1
         ELSE IF Phase = "count_down" THEN -1 ELSE 0)

\* number_of_sessions, corrected for the call in progress.
PoolSize ==
    number_of_sessions
      + (IF Phase = "count_up" THEN 1
         ELSE IF Phase \in {"push", "count_down"} THEN -1 ELSE 0)

OnlyOwnerIsCalling ==
    /\ mutex # NoThread => call[mutex] \notin {"new", "idle"}
    /\ \A t \in Callers : call[t] \notin {"new", "idle"} => mutex = t

CallIdInv ==
    /\ Phase \in {"insert", "push"} =>
          /\ call_id[mutex] \notin DOMAIN session_pool
          /\ \A i \in 1..Len(reusable_ids) : reusable_ids[i] # call_id[mutex]
    /\ Phase = "erase" => call_id[mutex] \in DOMAIN session_pool

IdsAreInitialSegment == KnownIds = 0 .. NumberOfIds - 1

PoolSizeInv ==
    /\ IsFiniteSet(DOMAIN session_pool)
    /\ Cardinality(DOMAIN session_pool) = PoolSize

SMInv ==
    /\ SMTypeOK
    /\ OnlyOwnerIsCalling
    /\ NoIdIsPooledAndReusable
    /\ CallIdInv
    /\ IdsAreInitialSegment
    /\ PoolSizeInv

-----------------------------------------------------------------------------
Registry == INSTANCE SessionRegistry WITH
              live    <- session_pool,
              created <- {t \in Sessions : call[t] \notin {"new", "insert"}}

\* SessionManager implements the registry: every step of its callers either
\* registers one session under a fresh id, removes one, or changes no entry.
RegistrySpec == Registry!Spec
=============================================================================
