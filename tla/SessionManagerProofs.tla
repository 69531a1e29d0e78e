------------------------ MODULE SessionManagerProofs -------------------------
(***************************************************************************)
(* Proofs about the session pool, for every set of session threads.        *)
(***************************************************************************)
EXTENDS SessionManager, FiniteSetTheorems, SequenceTheorems, TLAPS

\* The points a caller can be at.
CallStates == {"new", "insert", "count_up", "idle", "erase", "push", "count_down"}

LEMMA InitInv == SMInit => SMInv
<1> SUFFICES ASSUME SMInit PROVE SMInv
  OBVIOUS
<1> USE SessionsAssumption DEF SMInit
<1>1. DOMAIN session_pool = {}
  OBVIOUS
<1>2. SMTypeOK
  BY <1>1 DEF SMTypeOK, Callers
<1>3. Phase = "idle"
  BY DEF Phase
<1>4. IsFiniteSet(DOMAIN session_pool) /\ Cardinality(DOMAIN session_pool) = PoolSize
  BY <1>1, <1>3, FS_EmptySet DEF PoolSize
<1>5. KnownIds = 0 .. NumberOfIds - 1
  <2>1. KnownIds = {}
    BY <1>1, <1>3 DEF KnownIds, IdInTransit, Range
  <2>2. NumberOfIds = 0
    BY <1>3 DEF NumberOfIds
  <2> QED
    BY <2>1, <2>2
<1>6. NoIdIsPooledAndReusable
  BY DEF NoIdIsPooledAndReusable
<1> QED
  BY <1>2, <1>3, <1>4, <1>5, <1>6
  DEF SMInv, Callers, OnlyOwnerIsCalling, CallIdInv, IdsAreInitialSegment, PoolSizeInv

-----------------------------------------------------------------------------
(* The stack of reusable ids: what back() and pop_back(), and push_back(), do *)
(* to its elements.                                                          *)

LEMMA RangeOfIds ==
  ASSUME NEW s \in Seq(Nat)
  PROVE  /\ Len(s) \in Nat
         /\ Range(s) = {s[i] : i \in 1..Len(s)}
BY DEF Range

LEMMA PopProperties ==
  ASSUME NEW s \in Seq(Nat), s # <<>>,
         NEW front, front = SubSeq(s, 1, Len(s) - 1)
  PROVE  /\ Len(s) \in Nat \ {0}
         /\ s[Len(s)] \in Nat
         /\ front \in Seq(Nat)
         /\ Len(front) = Len(s) - 1
         /\ \A i \in 1 .. Len(s) - 1 : front[i] = s[i]
         /\ Range(s) = Range(front) \cup {s[Len(s)]}
<1>1. Len(s) \in Nat \ {0} /\ s[Len(s)] \in Nat
  BY EmptySeq, LenProperties, ElementOfSeq
<1>2. /\ front \in Seq(Nat)
      /\ Len(front) = Len(s) - 1
      /\ \A i \in 1 .. Len(s) - 1 : front[i] = s[i]
  <2> DEFINE n == Len(s) - 1
  <2>1. n \in Nat /\ n <= Len(s)
    BY <1>1
  <2> HIDE DEF n
  <2>2. SubSeq(s, 1, n) \in Seq(Nat)
    BY <2>1
  <2>3. Len(SubSeq(s, 1, n)) = n
    BY <2>1
  <2>4. \A i \in 1 .. n : SubSeq(s, 1, n)[i] = s[i]
    BY <2>1
  <2> QED
    BY <2>2, <2>3, <2>4 DEF n
<1>3. Range(front) = {s[i] : i \in 1 .. Len(s) - 1}
  BY <1>1, <1>2, RangeOfIds
<1>4. Range(s) = {s[i] : i \in 1..Len(s)}
  BY RangeOfIds
<1>5. Range(s) = Range(front) \cup {s[Len(s)]}
  BY <1>1, <1>3, <1>4
<1> QED
  BY <1>1, <1>2, <1>5

LEMMA PushRange ==
  ASSUME NEW s \in Seq(Nat), NEW id \in Nat, NEW r \in Seq(Nat),
         Len(r) = Len(s) + 1,
         \A i \in 1..Len(s) : r[i] = s[i],
         r[Len(s) + 1] = id
  PROVE  Range(r) = Range(s) \cup {id}
<1>1. Len(s) \in Nat
  BY LenProperties
<1>2. Range(r) = {r[i] : i \in 1 .. Len(s) + 1}
  BY RangeOfIds
<1>3. Range(s) = {s[i] : i \in 1..Len(s)}
  BY RangeOfIds
<1> QED
  BY <1>1, <1>2, <1>3, SMTT(60)

-----------------------------------------------------------------------------
(* A step of a call, from one point to the next, is a step of the owner of  *)
(* the mutex, or of a caller that takes it.                                 *)

LEMMA OwnerMoves ==
  ASSUME SMInv, NEW t \in Callers,
         NEW from \in CallStates, NEW to \in CallStates \ {"new"},
         Goto(t, from, to),
         from \in {"new", "idle"} => mutex = NoThread,
         mutex' = IF to = "idle" THEN NoThread ELSE t
  PROVE  /\ call' \in [Callers -> CallStates]
         /\ mutex' \in Callers \cup {NoThread}
         /\ OnlyOwnerIsCalling'
         /\ Phase = IF from \in {"new", "idle"} THEN "idle" ELSE from
         /\ from \notin {"new", "idle"} => mutex = t
         /\ Phase' = to
<1> USE DEF SMInv, SMTypeOK, OnlyOwnerIsCalling, Goto, CallStates
<1>1. t # NoThread /\ NoThread \notin Callers
  BY SessionsAssumption DEF Callers
<1>2. call' \in [Callers -> CallStates]
  OBVIOUS
<1>3. mutex' \in Callers \cup {NoThread}
  OBVIOUS
<1>4. from \notin {"new", "idle"} => mutex = t
  OBVIOUS
<1>5. \A u \in Callers \ {t} : call[u] \in {"new", "idle"} /\ call'[u] = call[u]
  BY <1>1, <1>4
<1>6. OnlyOwnerIsCalling'
  <2>1. call'[t] = to
    OBVIOUS
  <2>2. CASE to = "idle"
    BY <1>5, <2>1, <2>2
  <2>3. CASE to # "idle"
    BY <1>5, <2>1, <2>3
  <2> QED
    BY <2>2, <2>3
<1>7. Phase = IF from \in {"new", "idle"} THEN "idle" ELSE from
  BY <1>1, <1>4 DEF Phase
<1>8. Phase' = to
  BY <1>1 DEF Phase
<1> QED
  BY <1>2, <1>3, <1>4, <1>6, <1>7, <1>8

-----------------------------------------------------------------------------
(* create_session. *)

LEMMA CreateChooseIdInv ==
  ASSUME SMInv, NEW t \in Sessions, CreateChooseId(t)
  PROVE  SMInv'
<1> DEFINE n == number_of_sessions
<1> DEFINE new_id == call_id'[t]
<1>1. SMTypeOK /\ t \in Callers
  BY DEF SMInv, Callers
<1>2. /\ call' \in [Callers -> CallStates] /\ mutex' \in Callers \cup {NoThread}
      /\ OnlyOwnerIsCalling' /\ Phase = "idle" /\ Phase' = "insert" /\ mutex' = t
  <2>1. Goto(t, "new", "insert") /\ mutex = NoThread /\ mutex' = t
    BY DEF CreateChooseId, Acquire
  <2> QED
    BY <1>1, <2>1, OwnerMoves DEF CallStates
<1>3. /\ DOMAIN session_pool \cup Range(reusable_ids) = 0 .. n + Len(reusable_ids) - 1
      /\ IsFiniteSet(DOMAIN session_pool) /\ Cardinality(DOMAIN session_pool) = n
      /\ n \in Nat /\ Len(reusable_ids) \in Nat
  <2>1. n \in Nat /\ Len(reusable_ids) \in Nat
    BY <1>1, LenProperties DEF SMTypeOK
  <2>2. PoolSize = n /\ NumberOfIds = n + Len(reusable_ids)
    BY <1>2, <2>1 DEF PoolSize, NumberOfIds
  <2>3. KnownIds = DOMAIN session_pool \cup Range(reusable_ids)
    BY <1>2 DEF KnownIds, IdInTransit
  <2>4. KnownIds = 0 .. NumberOfIds - 1
    BY DEF SMInv, IdsAreInitialSegment
  <2> QED
    BY <2>1, <2>2, <2>3, <2>4 DEF SMInv, PoolSizeInv
<1>4. session_pool' = session_pool /\ number_of_sessions' = n
  BY DEF CreateChooseId
<1>5. /\ new_id \in Nat /\ call_id' \in [Callers -> Nat]
      /\ reusable_ids' \in Seq(Nat) /\ Len(reusable_ids') \in Nat
      /\ new_id \notin DOMAIN session_pool
      /\ \A i \in 1..Len(reusable_ids') : reusable_ids'[i] # new_id
      /\ NoIdIsPooledAndReusable'
      /\ DOMAIN session_pool \cup Range(reusable_ids') \cup {new_id} = 0 .. n + Len(reusable_ids')
  <2>1. CASE reusable_ids = <<>>
    <3>1. new_id = n /\ reusable_ids' = reusable_ids /\ call_id' \in [Callers -> Nat]
      BY <1>1, <1>3, <2>1 DEF CreateChooseId, SMTypeOK
    <3>2. Len(reusable_ids) = 0 /\ Range(reusable_ids) = {}
      BY <2>1 DEF Range
    <3>3. DOMAIN session_pool = 0 .. n - 1
      BY <1>3, <3>2
    <3>4. NoIdIsPooledAndReusable'
      BY <3>1, <3>2 DEF NoIdIsPooledAndReusable
    <3>5. DOMAIN session_pool \cup Range(reusable_ids') \cup {new_id} = 0 .. n + Len(reusable_ids')
      BY <1>3, <3>1, <3>2, <3>3
    <3> QED
      BY <1>1, <1>3, <3>1, <3>2, <3>3, <3>4, <3>5 DEF SMTypeOK
  <2>2. CASE reusable_ids # <<>>
    <3> DEFINE last == reusable_ids[Len(reusable_ids)]
    <3>1. /\ new_id = last /\ call_id' = [call_id EXCEPT ![t] = last]
          /\ reusable_ids' = SubSeq(reusable_ids, 1, Len(reusable_ids) - 1)
      BY <1>1, <2>2 DEF CreateChooseId, SMTypeOK
    <3>2. /\ Len(reusable_ids) \in Nat \ {0} /\ last \in Nat
          /\ reusable_ids' \in Seq(Nat) /\ Len(reusable_ids') = Len(reusable_ids) - 1
          /\ \A i \in 1 .. Len(reusable_ids) - 1 : reusable_ids'[i] = reusable_ids[i]
          /\ Range(reusable_ids) = Range(reusable_ids') \cup {last}
      <4>1. reusable_ids \in Seq(Nat)
        BY <1>1 DEF SMTypeOK
      <4> QED
        BY <2>2, <3>1, <4>1, PopProperties
    <3>3. NoIdIsPooledAndReusable
      BY DEF SMInv
    <3>4. /\ \A i \in 1..Len(reusable_ids') : reusable_ids'[i] # last
          /\ last \notin DOMAIN session_pool
          /\ NoIdIsPooledAndReusable'
      BY <1>4, <3>2, <3>3 DEF NoIdIsPooledAndReusable
    <3>5. DOMAIN session_pool \cup Range(reusable_ids') \cup {last} = 0 .. n + Len(reusable_ids')
      <4>1. n + Len(reusable_ids') = n + Len(reusable_ids) - 1
        BY <1>3, <3>2
      <4> QED
        BY <1>3, <3>2, <4>1, Zenon
    <3>6. call_id' \in [Callers -> Nat]
      BY <1>1, <3>1, <3>2 DEF SMTypeOK
    <3> QED
      BY <1>3, <3>1, <3>2, <3>4, <3>5, <3>6
  <2> QED
    BY <2>1, <2>2
<1>6. SMTypeOK'
  BY <1>1, <1>2, <1>3, <1>4, <1>5 DEF SMTypeOK, CallStates
<1>7. CallIdInv'
  BY <1>2, <1>4, <1>5 DEF CallIdInv
<1>8. IdsAreInitialSegment'
  <2>1. NumberOfIds' - 1 = n + Len(reusable_ids')
    BY <1>2, <1>3, <1>4, <1>5 DEF NumberOfIds
  <2>2. KnownIds' = DOMAIN session_pool \cup Range(reusable_ids') \cup {new_id}
    BY <1>2, <1>4 DEF KnownIds, IdInTransit
  <2> QED
    BY <1>5, <2>1, <2>2 DEF IdsAreInitialSegment
<1>9. PoolSizeInv'
  BY <1>2, <1>3, <1>4 DEF PoolSizeInv, PoolSize
<1> QED
  BY <1>2, <1>5, <1>6, <1>7, <1>8, <1>9 DEF SMInv

LEMMA CreateInsertInv ==
  ASSUME SMInv, NEW t \in Sessions, CreateInsert(t)
  PROVE  SMInv'
<1> DEFINE id == call_id[t]
<1>1. SMTypeOK /\ t \in Callers
  BY DEF SMInv, Callers
<1>2. /\ call' \in [Callers -> CallStates] /\ mutex' \in Callers \cup {NoThread}
      /\ OnlyOwnerIsCalling' /\ Phase = "insert" /\ Phase' = "count_up" /\ mutex = t
  <2>1. Goto(t, "insert", "count_up") /\ mutex' = mutex
    BY DEF CreateInsert
  <2>2. mutex = t
    BY <1>1, <2>1 DEF SMInv, OnlyOwnerIsCalling, Goto
  <2> QED
    BY <1>1, <2>1, <2>2, OwnerMoves DEF CallStates
<1>3. /\ reusable_ids' = reusable_ids /\ number_of_sessions' = number_of_sessions
      /\ call_id' = call_id
  BY DEF CreateInsert
<1>4. id \in Nat /\ id \notin DOMAIN session_pool
      /\ \A i \in 1..Len(reusable_ids) : reusable_ids[i] # id
  BY <1>1, <1>2 DEF SMInv, SMTypeOK, CallIdInv
<1>5. /\ DOMAIN session_pool' = DOMAIN session_pool \cup {id}
      /\ session_pool' \in [DOMAIN session_pool' -> Sessions]
  BY <1>1 DEF CreateInsert, SMTypeOK
<1>6. SMTypeOK'
  BY <1>1, <1>2, <1>3, <1>4, <1>5 DEF SMTypeOK, CallStates
<1>7. NoIdIsPooledAndReusable'
  BY <1>3, <1>4, <1>5 DEF SMInv, NoIdIsPooledAndReusable
<1>8. CallIdInv'
  BY <1>2 DEF CallIdInv
<1>9. IdsAreInitialSegment'
  <2>1. NumberOfIds' = NumberOfIds
    BY <1>2, <1>3 DEF NumberOfIds
  <2>2. KnownIds' = KnownIds
    BY <1>2, <1>3, <1>5 DEF KnownIds, IdInTransit
  <2> QED
    BY <2>1, <2>2 DEF SMInv, IdsAreInitialSegment
<1>10. PoolSizeInv'
  <2>1. PoolSize = number_of_sessions /\ PoolSize' = number_of_sessions + 1
    BY <1>1, <1>2, <1>3 DEF PoolSize, SMTypeOK
  <2> QED
    BY <1>4, <1>5, <2>1, FS_AddElement DEF SMInv, PoolSizeInv
<1> QED
  BY <1>2, <1>6, <1>7, <1>8, <1>9, <1>10 DEF SMInv

LEMMA CreateCountInv ==
  ASSUME SMInv, NEW t \in Sessions, CreateCount(t)
  PROVE  SMInv'
<1>1. SMTypeOK /\ t \in Callers
  BY DEF SMInv, Callers
<1>2. /\ call' \in [Callers -> CallStates] /\ mutex' \in Callers \cup {NoThread}
      /\ OnlyOwnerIsCalling' /\ Phase = "count_up" /\ Phase' = "idle"
  <2>1. Goto(t, "count_up", "idle") /\ mutex' = NoThread
    BY DEF CreateCount, Release
  <2> QED
    BY <1>1, <2>1, OwnerMoves DEF CallStates
<1>3. /\ session_pool' = session_pool /\ reusable_ids' = reusable_ids
      /\ call_id' = call_id /\ number_of_sessions' = number_of_sessions + 1
  BY DEF CreateCount
<1>4. SMTypeOK'
  BY <1>1, <1>2, <1>3 DEF SMTypeOK, CallStates
<1>5. NoIdIsPooledAndReusable' /\ CallIdInv'
  BY <1>2, <1>3 DEF SMInv, NoIdIsPooledAndReusable, CallIdInv
<1>6. IdsAreInitialSegment'
  <2>1. NumberOfIds' = NumberOfIds
    BY <1>1, <1>2, <1>3, LenProperties DEF NumberOfIds, SMTypeOK
  <2>2. KnownIds' = KnownIds
    BY <1>2, <1>3 DEF KnownIds, IdInTransit
  <2> QED
    BY <2>1, <2>2 DEF SMInv, IdsAreInitialSegment
<1>7. PoolSizeInv'
  BY <1>1, <1>2, <1>3 DEF SMInv, SMTypeOK, PoolSizeInv, PoolSize
<1> QED
  BY <1>2, <1>4, <1>5, <1>6, <1>7 DEF SMInv

-----------------------------------------------------------------------------
(* delete_session. *)

LEMMA DeleteLookupInv ==
  ASSUME SMInv, NEW t \in Callers, NEW id, DeleteLookup(t, id)
  PROVE  SMInv'
<1>1. SMTypeOK
  BY DEF SMInv
<1>2. /\ call' \in [Callers -> CallStates] /\ mutex' \in Callers \cup {NoThread}
      /\ OnlyOwnerIsCalling' /\ Phase = "idle" /\ Phase' = "erase" /\ mutex' = t
  <2>1. Goto(t, "idle", "erase") /\ mutex = NoThread /\ mutex' = t
    BY DEF DeleteLookup, Acquire
  <2> QED
    BY <2>1, OwnerMoves DEF CallStates
<1>3. /\ session_pool' = session_pool /\ reusable_ids' = reusable_ids
      /\ number_of_sessions' = number_of_sessions
  BY DEF DeleteLookup
<1>4. id \in Nat /\ id \in DOMAIN session_pool /\ call_id' = [call_id EXCEPT ![t] = id]
  BY <1>1 DEF DeleteLookup, SMTypeOK
<1>5. SMTypeOK'
  BY <1>1, <1>2, <1>3, <1>4 DEF SMTypeOK, CallStates
<1>6. NoIdIsPooledAndReusable' /\ CallIdInv'
  BY <1>1, <1>2, <1>3, <1>4 DEF SMInv, SMTypeOK, NoIdIsPooledAndReusable, CallIdInv
<1>7. IdsAreInitialSegment'
  <2>1. NumberOfIds' = NumberOfIds
    BY <1>2, <1>3 DEF NumberOfIds
  <2>2. KnownIds' = KnownIds
    BY <1>2, <1>3 DEF KnownIds, IdInTransit
  <2> QED
    BY <2>1, <2>2 DEF SMInv, IdsAreInitialSegment
<1>8. PoolSizeInv'
  BY <1>2, <1>3 DEF SMInv, PoolSizeInv, PoolSize
<1> QED
  BY <1>2, <1>5, <1>6, <1>7, <1>8 DEF SMInv

LEMMA DeleteEraseInv ==
  ASSUME SMInv, NEW t \in Callers, DeleteErase(t)
  PROVE  SMInv'
<1> DEFINE id == call_id[t]
<1>1. SMTypeOK
  BY DEF SMInv
<1>2. /\ call' \in [Callers -> CallStates] /\ mutex' \in Callers \cup {NoThread}
      /\ OnlyOwnerIsCalling' /\ Phase = "erase" /\ Phase' = "push"
      /\ mutex = t /\ mutex' = t
  <2>1. Goto(t, "erase", "push") /\ mutex' = mutex
    BY DEF DeleteErase
  <2>2. mutex = t
    BY <1>1, <2>1 DEF SMInv, OnlyOwnerIsCalling, Goto
  <2> QED
    BY <2>1, <2>2, OwnerMoves DEF CallStates
<1>3. /\ reusable_ids' = reusable_ids /\ number_of_sessions' = number_of_sessions
      /\ call_id' = call_id
  BY DEF DeleteErase
<1>4. id \in DOMAIN session_pool
  BY <1>2 DEF SMInv, CallIdInv
<1>5. /\ DOMAIN session_pool' = DOMAIN session_pool \ {id}
      /\ session_pool' \in [DOMAIN session_pool' -> Sessions]
  BY <1>1 DEF DeleteErase, Restrict, SMTypeOK
<1>6. SMTypeOK'
  BY <1>1, <1>2, <1>3, <1>5 DEF SMTypeOK, CallStates
<1>7. NoIdIsPooledAndReusable' /\ CallIdInv'
  BY <1>2, <1>3, <1>4, <1>5 DEF SMInv, NoIdIsPooledAndReusable, CallIdInv
<1>8. IdsAreInitialSegment'
  <2>1. NumberOfIds' = NumberOfIds
    BY <1>2, <1>3 DEF NumberOfIds
  <2>2. KnownIds' = KnownIds
    BY <1>2, <1>3, <1>4, <1>5 DEF KnownIds, IdInTransit
  <2> QED
    BY <2>1, <2>2 DEF SMInv, IdsAreInitialSegment
<1>9. PoolSizeInv'
  <2>1. PoolSize = number_of_sessions /\ PoolSize' = number_of_sessions - 1
    BY <1>1, <1>2, <1>3 DEF PoolSize, SMTypeOK
  <2> QED
    BY <1>4, <1>5, <2>1, FS_RemoveElement DEF SMInv, PoolSizeInv
<1> QED
  BY <1>2, <1>6, <1>7, <1>8, <1>9 DEF SMInv

LEMMA DeletePushInv ==
  ASSUME SMInv, NEW t \in Callers, DeletePush(t)
  PROVE  SMInv'
<1> DEFINE id == call_id[t]
<1>1. SMTypeOK
  BY DEF SMInv
<1>2. /\ call' \in [Callers -> CallStates] /\ mutex' \in Callers \cup {NoThread}
      /\ OnlyOwnerIsCalling' /\ Phase = "push" /\ Phase' = "count_down" /\ mutex = t
  <2>1. Goto(t, "push", "count_down") /\ mutex' = mutex
    BY DEF DeletePush
  <2>2. mutex = t
    BY <1>1, <2>1 DEF SMInv, OnlyOwnerIsCalling, Goto
  <2> QED
    BY <2>1, <2>2, OwnerMoves DEF CallStates
<1>3. /\ session_pool' = session_pool /\ number_of_sessions' = number_of_sessions
      /\ call_id' = call_id /\ reusable_ids' = Append(reusable_ids, id)
  BY DEF DeletePush
<1>4. id \in Nat /\ id \notin DOMAIN session_pool
      /\ \A i \in 1..Len(reusable_ids) : reusable_ids[i] # id
  BY <1>1, <1>2 DEF SMInv, SMTypeOK, CallIdInv
<1>5. /\ Len(reusable_ids) \in Nat
      /\ reusable_ids' \in Seq(Nat) /\ Len(reusable_ids') = Len(reusable_ids) + 1
      /\ \A i \in 1..Len(reusable_ids) : reusable_ids'[i] = reusable_ids[i]
      /\ reusable_ids'[Len(reusable_ids) + 1] = id
      /\ Range(reusable_ids') = Range(reusable_ids) \cup {id}
  <2>1. reusable_ids \in Seq(Nat)
    BY <1>1 DEF SMTypeOK
  <2>2. id \in Nat /\ reusable_ids' = Append(reusable_ids, id)
    BY <1>3, <1>4
  <2>3. reusable_ids' \in Seq(Nat)
    BY <2>1, <2>2, AppendProperties
  <2>4. /\ Len(reusable_ids) \in Nat
        /\ Len(reusable_ids') = Len(reusable_ids) + 1
        /\ \A i \in 1..Len(reusable_ids) : reusable_ids'[i] = reusable_ids[i]
        /\ reusable_ids'[Len(reusable_ids) + 1] = id
    BY <2>1, <2>2
  <2>5. Range(reusable_ids') = Range(reusable_ids) \cup {id}
    BY <1>4, <2>1, <2>3, <2>4, PushRange
  <2> QED
    BY <2>3, <2>4, <2>5
<1>6. SMTypeOK'
  BY <1>1, <1>2, <1>3, <1>5 DEF SMTypeOK, CallStates
<1>7. NoIdIsPooledAndReusable'
  <2>1. \A i \in 1..Len(reusable_ids') : i \in 1..Len(reusable_ids) \/ i = Len(reusable_ids) + 1
    BY <1>5
  <2> QED
    BY <1>3, <1>4, <1>5, <2>1 DEF SMInv, NoIdIsPooledAndReusable
<1>8. CallIdInv'
  BY <1>2 DEF CallIdInv
<1>9. IdsAreInitialSegment'
  <2>1. NumberOfIds' = NumberOfIds
    BY <1>1, <1>2, <1>3, <1>5 DEF NumberOfIds, SMTypeOK
  <2>2. KnownIds' = KnownIds
    BY <1>2, <1>3, <1>5 DEF KnownIds, IdInTransit
  <2> QED
    BY <2>1, <2>2 DEF SMInv, IdsAreInitialSegment
<1>10. PoolSizeInv'
  BY <1>2, <1>3 DEF SMInv, PoolSizeInv, PoolSize
<1> QED
  BY <1>2, <1>6, <1>7, <1>8, <1>9, <1>10 DEF SMInv

LEMMA DeleteCountInv ==
  ASSUME SMInv, NEW t \in Callers, DeleteCount(t)
  PROVE  SMInv'
<1>1. SMTypeOK
  BY DEF SMInv
<1>2. /\ call' \in [Callers -> CallStates] /\ mutex' \in Callers \cup {NoThread}
      /\ OnlyOwnerIsCalling' /\ Phase = "count_down" /\ Phase' = "idle"
  <2>1. Goto(t, "count_down", "idle") /\ mutex' = NoThread
    BY DEF DeleteCount, Release
  <2> QED
    BY <2>1, OwnerMoves DEF CallStates
<1>3. /\ session_pool' = session_pool /\ reusable_ids' = reusable_ids
      /\ call_id' = [call_id EXCEPT ![t] = 0] /\ number_of_sessions' = number_of_sessions - 1
  BY DEF DeleteCount
<1>4. number_of_sessions - 1 \in Nat
  BY <1>1, <1>2, FS_CardinalityType DEF SMInv, SMTypeOK, PoolSizeInv, PoolSize
<1>5. SMTypeOK'
  BY <1>1, <1>2, <1>3, <1>4 DEF SMTypeOK, CallStates
<1>6. NoIdIsPooledAndReusable' /\ CallIdInv'
  BY <1>2, <1>3 DEF SMInv, NoIdIsPooledAndReusable, CallIdInv
<1>7. IdsAreInitialSegment'
  <2>1. NumberOfIds' = NumberOfIds
    BY <1>1, <1>2, <1>3, LenProperties DEF NumberOfIds, SMTypeOK
  <2>2. KnownIds' = KnownIds
    BY <1>2, <1>3 DEF KnownIds, IdInTransit
  <2> QED
    BY <2>1, <2>2 DEF SMInv, IdsAreInitialSegment
<1>8. PoolSizeInv'
  BY <1>1, <1>2, <1>3 DEF SMInv, SMTypeOK, PoolSizeInv, PoolSize
<1> QED
  BY <1>2, <1>5, <1>6, <1>7, <1>8 DEF SMInv

LEMMA StutterInv ==
  ASSUME SMInv, UNCHANGED sm_vars
  PROVE  SMInv'
BY DEF SMInv, sm_vars, SMTypeOK, OnlyOwnerIsCalling, NoIdIsPooledAndReusable, CallIdInv,
       IdsAreInitialSegment, KnownIds, IdInTransit, NumberOfIds, PoolSizeInv, PoolSize, Phase

LEMMA NextInv == SMInv /\ [SMNext]_sm_vars => SMInv'
<1> SUFFICES ASSUME SMInv, [SMNext]_sm_vars
             PROVE  SMInv'
  OBVIOUS
<1>1. ASSUME NEW t \in Sessions, CreateChooseId(t) PROVE SMInv'
  BY <1>1, CreateChooseIdInv
<1>2. ASSUME NEW t \in Sessions, CreateInsert(t) PROVE SMInv'
  BY <1>2, CreateInsertInv
<1>3. ASSUME NEW t \in Sessions, CreateCount(t) PROVE SMInv'
  BY <1>3, CreateCountInv
<1>4. ASSUME NEW t \in Callers, NEW id, DeleteLookup(t, id) PROVE SMInv'
  BY <1>4, DeleteLookupInv
<1>5. ASSUME NEW t \in Callers, DeleteErase(t) PROVE SMInv'
  BY <1>5, DeleteEraseInv
<1>6. ASSUME NEW t \in Callers, DeletePush(t) PROVE SMInv'
  BY <1>6, DeletePushInv
<1>7. ASSUME NEW t \in Callers, DeleteCount(t) PROVE SMInv'
  BY <1>7, DeleteCountInv
<1>8. ASSUME NEW t \in Callers, NEW id, DeleteNotAllocated(t, id) PROVE SMInv'
  BY <1>8, StutterInv DEF DeleteNotAllocated
<1>9. CASE UNCHANGED sm_vars
  BY <1>9, StutterInv
<1> QED
  BY <1>1, <1>2, <1>3, <1>4, <1>5, <1>6, <1>7, <1>8, <1>9 DEF SMNext

-----------------------------------------------------------------------------
(* For any set of session threads and any interleaving of their creates and *)
(* deletes with those of the main thread, the pool keeps its type, an id is *)
(* never in the pool and reusable at once, and so on for every part of the  *)
(* inductive invariant.                                                     *)
THEOREM PoolInvariant == SMSpec => []SMInv
BY InitInv, NextInv, PTL DEF SMSpec

(* The pool has its type in every reachable state: in particular             *)
(* number_of_sessions, which delete_session decrements, never gets negative. *)
THEOREM PoolTypeCorrect == SMSpec => []SMTypeOK
<1>1. SMInv => SMTypeOK
  BY DEF SMInv
<1> QED
  BY <1>1, PoolInvariant, PTL

(* get_session_ids asserts !is_reusable_id: no id of the pool is reusable,  *)
(* and none is reusable twice, also between the steps of a call.            *)
THEOREM IdsAreNotShared == SMSpec => []NoIdIsPooledAndReusable
<1>1. SMInv => NoIdIsPooledAndReusable
  BY DEF SMInv
<1> QED
  BY <1>1, PoolInvariant, PTL

(* Whenever the mutex is free, number_of_sessions is the size of the pool.  *)
THEOREM CountIsCorrect == SMSpec => []CountMatchesPool
<1>1. SMInv => CountMatchesPool
  BY DEF SMInv, SMTypeOK, PoolSizeInv, PoolSize, Phase, CountMatchesPool
<1> QED
  BY <1>1, PoolInvariant, PTL

(* create_session never inserts under an id that is taken, which            *)
(* std::map::insert would silently ignore.                                  *)
THEOREM InsertedIdIsFresh == SMSpec => []InsertIsFresh
<1>1. SMInv => InsertIsFresh
  <2> SUFFICES ASSUME SMInv, NEW t \in Sessions, call[t] = "insert"
               PROVE  call_id[t] \notin DOMAIN session_pool
    BY DEF InsertIsFresh
  <2>1. t \in Callers /\ t # NoThread
    BY SessionsAssumption DEF Callers
  <2>2. mutex = t
    BY <2>1 DEF SMInv, OnlyOwnerIsCalling
  <2> QED
    BY <2>1, <2>2 DEF SMInv, CallIdInv, Phase
<1> QED
  BY <1>1, PoolInvariant, PTL

-----------------------------------------------------------------------------
(* Refinement: the sessions that were created are those whose thread is past *)
(* the insert.                                                               *)
Created == {t \in Sessions : call[t] \notin {"new", "insert"}}

LEMMA CreatedUnchanged ==
  ASSUME SMInv, NEW t \in Callers, NEW from \in CallStates, NEW to \in CallStates,
         Goto(t, from, to),
         from \in {"new", "insert"} <=> to \in {"new", "insert"}
  PROVE  Created' = Created
<1>1. call \in [Callers -> CallStates]
  BY DEF SMInv, SMTypeOK, CallStates
<1>2. \A u \in Sessions : call'[u] \in {"new", "insert"} <=> call[u] \in {"new", "insert"}
  BY <1>1 DEF Goto, Callers
<1> QED
  BY <1>2 DEF Created

LEMMA InsertRegisters ==
  ASSUME SMInv, NEW t \in Sessions, CreateInsert(t)
  PROVE  Registry!Register(t)
<1> DEFINE id == call_id[t]
<1>1. t \in Callers /\ call[t] = "insert" /\ call \in [Callers -> CallStates]
  BY DEF CreateInsert, Goto, SMInv, SMTypeOK, Callers, CallStates
<1>2. mutex = t /\ Phase = "insert"
  BY <1>1, SessionsAssumption DEF SMInv, OnlyOwnerIsCalling, Phase, Callers
<1>3. id \in Nat /\ id \notin DOMAIN session_pool
  BY <1>1, <1>2 DEF SMInv, SMTypeOK, CallIdInv
<1>4. session_pool' = [i \in DOMAIN session_pool \cup {id} |->
                         IF i = id THEN t ELSE session_pool[i]]
  BY <1>3 DEF CreateInsert
<1>5. id \in DOMAIN session_pool' \ DOMAIN session_pool
  BY <1>3, <1>4
<1>6. t \notin Created /\ Created' = Created \cup {t}
  <2>1. \A u \in Sessions : call'[u] = IF u = t THEN "count_up" ELSE call[u]
    BY <1>1 DEF CreateInsert, Goto, Callers
  <2> QED
    BY <1>1, <2>1 DEF Created
<1> QED
  BY <1>3, <1>4, <1>5, <1>6 DEF Registry!Register, Created

LEMMA EraseUnregisters ==
  ASSUME SMInv, NEW t \in Callers, DeleteErase(t)
  PROVE  \E id \in DOMAIN session_pool : Registry!Unregister(id)
<1> DEFINE id == call_id[t]
<1>1. call[t] = "erase" /\ mutex = t /\ Phase = "erase"
  BY SessionsAssumption DEF DeleteErase, Goto, SMInv, OnlyOwnerIsCalling, Phase, Callers
<1>2. id \in DOMAIN session_pool
  BY <1>1 DEF SMInv, CallIdInv
<1>3. session_pool' = [i \in DOMAIN session_pool \ {id} |-> session_pool[i]]
  BY DEF DeleteErase, Restrict
<1>4. Created' = Created
  BY CreatedUnchanged DEF DeleteErase, CallStates
<1> QED
  BY <1>2, <1>3, <1>4 DEF Registry!Unregister, Created

LEMMA StepRefines ==
  ASSUME SMInv, [SMNext]_sm_vars
  PROVE  Registry!Next \/ (session_pool' = session_pool /\ Created' = Created)
<1> DEFINE Same == session_pool' = session_pool /\ Created' = Created
<1>1. ASSUME NEW t \in Sessions, CreateChooseId(t) PROVE Same
  BY <1>1, CreatedUnchanged DEF CreateChooseId, CallStates, Callers
<1>2. ASSUME NEW t \in Sessions, CreateInsert(t) PROVE Registry!Next
  BY <1>2, InsertRegisters DEF Registry!Next
<1>3. ASSUME NEW t \in Sessions, CreateCount(t) PROVE Same
  BY <1>3, CreatedUnchanged DEF CreateCount, CallStates, Callers
<1>4. ASSUME NEW t \in Callers, NEW id, DeleteLookup(t, id) PROVE Same
  BY <1>4, CreatedUnchanged DEF DeleteLookup, CallStates
<1>5. ASSUME NEW t \in Callers, DeleteErase(t) PROVE Registry!Next
  BY <1>5, EraseUnregisters DEF Registry!Next
<1>6. ASSUME NEW t \in Callers, DeletePush(t) PROVE Same
  BY <1>6, CreatedUnchanged DEF DeletePush, CallStates
<1>7. ASSUME NEW t \in Callers, DeleteCount(t) PROVE Same
  BY <1>7, CreatedUnchanged DEF DeleteCount, CallStates
<1>8. ASSUME UNCHANGED sm_vars PROVE Same
  BY <1>8 DEF sm_vars, Created
<1>9. ASSUME NEW t \in Callers, NEW id, DeleteNotAllocated(t, id) PROVE Same
  BY <1>8, <1>9 DEF DeleteNotAllocated
<1> QED
  BY <1>1, <1>2, <1>3, <1>4, <1>5, <1>6, <1>7, <1>8, <1>9 DEF SMNext

(* SessionManager implements SessionRegistry: an id names at most one live  *)
(* session, every session whose create returned was registered, and no step *)
(* touches the entry of another session.                                    *)
THEOREM PoolImplementsRegistry == SMSpec => RegistrySpec
<1>1. SMInit => Registry!Init
  <2> SUFFICES ASSUME SMInit PROVE Registry!Init
    OBVIOUS
  <2>1. \A t \in Sessions : call[t] = "new"
    BY SessionsAssumption DEF SMInit, Callers
  <2> QED
    BY <2>1 DEF SMInit, Registry!Init
<1>2. SMInv /\ [SMNext]_sm_vars
        => [Registry!Next]_<<session_pool, {t \in Sessions : call[t] \notin {"new", "insert"}}>>
  BY StepRefines DEF Created
<1> QED
  BY <1>1, <1>2, PoolInvariant, PTL DEF SMSpec, RegistrySpec, Registry!Spec
=============================================================================
