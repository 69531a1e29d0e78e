---------------------------- MODULE ServerProofs -----------------------------
(***************************************************************************)
(* Proofs about the whole server, for any set of connections, any number   *)
(* of workers and any set of descriptors: the threads use the pool only as *)
(* SessionManager allows, so what holds of the pool alone holds in the     *)
(* server.                                                                 *)
(***************************************************************************)
EXTENDS Server, SessionManagerProofs

\* A step of a session thread is a step of the pool or leaves it alone.
LEMMA SessionThreadUsesPool ==
  ASSUME NEW c \in Sessions, SessionThread(c)
  PROVE  [SMNext]_sm_vars
<1>1. CASE Create(c)
  BY <1>1 DEF Create, SMNext
<1>2. CASE Delete(c)
  <2>1. c \in Callers
    BY DEF Callers
  <2>2. ASSUME DeleteLookup(c, call_id[c]) PROVE SMNext
    BY <2>1, <2>2 DEF SMNext, DeleteLookup
  <2>3. ASSUME DeleteErase(c) \/ DeletePush(c) \/ DeleteCount(c)
               \/ DeleteNotAllocated(c, call_id[c])
        PROVE  SMNext
    BY <2>1, <2>3 DEF SMNext
  <2> QED
    BY <1>2, <2>2, <2>3 DEF Delete
<1>3. CASE Enter(c) \/ GetSession(c) \/ GetSessionThrows(c) \/ GetSessionFaults(c) \/ InitSession(c)
  BY <1>3 DEF Enter, GetSession, GetSessionThrows, GetSessionFaults, InitSession
<1>4. CASE RunLoop(c) \/ ReadCommand(c) \/ ReadEnds(c) \/ Execute(c)
           \/ ExecuteFaults(c) \/ ExecuteThrows(c) \/ Leave(c)
  BY <1>4 DEF RunLoop, ReadCommand, ReadEnds, Execute, ExecuteFaults, ExecuteThrows, Leave
<1> QED
  BY <1>1, <1>2, <1>3, <1>4 DEF SessionThread

\* So is a step of the main thread, which deletes sessions at the shutdown.
LEMMA MainThreadUsesPool ==
  ASSUME MainThread
  PROVE  [SMNext]_sm_vars
<1>1. CASE MainDeletes
  <2>1. Main \in Callers
    BY DEF Callers
  <2>2. ASSUME NEW id \in todo, DeleteLookup(Main, id) PROVE SMNext
    BY <2>1, <2>2 DEF SMNext, DeleteLookup
  <2>3. ASSUME DeleteErase(Main) \/ DeletePush(Main) \/ DeleteCount(Main) PROVE SMNext
    BY <2>1, <2>3 DEF SMNext
  <2>4. ASSUME NEW id \in todo, DeleteNotAllocated(Main, id) PROVE UNCHANGED sm_vars
    BY <2>4 DEF DeleteNotAllocated
  <2> QED
    BY <1>1, <2>2, <2>3, <2>4 DEF MainDeletes
<1>2. CASE \E l \in Channels : MainStartsWorker(l) \/ MainShutsDown(l)
  BY <1>2 DEF MainStartsWorker, MainShutsDown
<1>3. CASE MainCannotListen \/ MainStarted \/ MainNotifiesReady \/ MainInterrupted
  BY <1>3 DEF MainCannotListen, MainStarted, MainNotifiesReady, MainInterrupted
<1>4. CASE MainListsSessions \/ MainDeletedAll \/ MainExitsComm
  BY <1>4 DEF MainListsSessions, MainDeletedAll, MainExitsComm
<1>5. CASE MainSignalsSessions \/ MainFaults \/ MainFaultsAgain \/ MainJoins
  BY <1>5 DEF MainSignalsSessions, MainFaults, MainFaultsAgain, MainJoins, vars
<1> QED
  BY <1>1, <1>2, <1>3, <1>4, <1>5 DEF MainThread

LEMMA ServerStepUsesPool == [Next]_vars => [SMNext]_sm_vars
<1> SUFFICES ASSUME [Next]_vars PROVE [SMNext]_sm_vars
  OBVIOUS
<1>1. ASSUME NEW c \in Connections, ClientConnects(c) PROVE UNCHANGED sm_vars
  BY <1>1 DEF ClientConnects
<1>2. CASE Signal
  BY <1>2 DEF Signal
<1>3. ASSUME NEW l \in Channels, Listen(l) \/ ListenInterrupted(l) \/ Spawn(l)
      PROVE  UNCHANGED sm_vars
  BY <1>3 DEF Listen, ListenInterrupted, Spawn
<1>4. ASSUME NEW c \in Sessions, SessionThread(c) PROVE [SMNext]_sm_vars
  BY <1>4, SessionThreadUsesPool
<1>5. CASE MainThread
  BY <1>5, MainThreadUsesPool
<1>6. CASE UNCHANGED vars
  BY <1>6 DEF vars
<1> QED
  BY <1>1, <1>2, <1>3, <1>4, <1>5, <1>6 DEF Next, Ended

(* The server is a correct client of the pool: listening threads, session   *)
(* threads and the shutdown in Server::run together drive SessionManager    *)
(* only through create_session and delete_session as it specifies them.     *)
THEOREM ServerUsesPool == Spec => PoolSpec
<1>1. Init => SMInit
  BY DEF Init
<1> QED
  BY <1>1, ServerStepUsesPool, PTL DEF Spec, PoolSpec, SMSpec

(* In the whole server, for any number of clients, number_of_sessions is    *)
(* the size of the pool whenever a thread can take the mutex, also while    *)
(* delete_all races the session threads.                                    *)
THEOREM ServerCountIsCorrect == Spec => []CountMatchesPool
BY ServerUsesPool, CountIsCorrect, PTL DEF PoolSpec

(* In the whole server a session that is created is registered under an id  *)
(* no live session has, and stays until a delete_session of that id.        *)
THEOREM ServerImplementsRegistry == Spec => RegistrySpec
BY ServerUsesPool, PoolImplementsRegistry, PTL DEF PoolSpec

-----------------------------------------------------------------------------
(* Type correctness of the composition.  SMTypeOK is the pool's own.        *)

LEMMA ListenersKeepTypes ==
  ASSUME TypeOK, SMTypeOK', NEW l \in Channels, Listen(l) \/ ListenInterrupted(l) \/ Spawn(l)
  PROVE  TypeOK'
<1> USE ServerAssumption, ChannelAssumption
    DEF TypeOK, Step, ConnectionStates, ListenerStates, thread_vars, main_vars
<1>1. CASE Spawn(l)
  BY <1>1 DEF Spawn, DispatchSpawn, ThreadStates
<1>2. CASE Listen(l) /\ (Begin(l) \/ LoopHead(l) \/ AcceptFails(l))
  BY <1>2 DEF Listen, Begin, LoopHead, AcceptFails
<1>3. CASE Listen(l) /\ (CheckExit(l) \/ DispatchNone(l) \/ DispatchMax(l))
  BY <1>3 DEF Listen, CheckExit, DispatchNone, DispatchMax
<1>4. ASSUME Listen(l), NEW c \in Connections, Accept(l, c) PROVE TypeOK'
  BY <1>4 DEF Listen, Accept
<1>5. ASSUME Listen(l), NEW c \in Connections, AcceptRefused(l, c) PROVE TypeOK'
  BY <1>5 DEF Listen, AcceptRefused
<1>6. CASE ListenInterrupted(l)
  BY <1>6 DEF ListenInterrupted, AcceptInterrupted
<1> QED
  BY <1>1, <1>2, <1>3, <1>4, <1>5, <1>6 DEF Listen

LEMMA SessionThreadsKeepTypes ==
  ASSUME TypeOK, SMTypeOK', NEW c \in Sessions, SessionThread(c)
  PROVE  TypeOK'
<1> USE ServerAssumption, ChannelAssumption
    DEF TypeOK, Move, ThreadStates, lc_vars, main_vars
<1>1. CASE Enter(c)
  BY <1>1 DEF Enter, ThreadEnters
<1>2. CASE Create(c)
  BY <1>2 DEF Create
<1>3. CASE GetSession(c)
  BY <1>3 DEF GetSession, SMTypeOK
<1>4. CASE GetSessionThrows(c) \/ ExecuteThrows(c)
  BY <1>4 DEF GetSessionThrows, ExecuteThrows, thread_vars
<1>5. CASE InitSession(c) \/ RunLoop(c) \/ ReadCommand(c) \/ ReadEnds(c)
  BY <1>5, ZenonT(60) DEF InitSession, RunLoop, ReadCommand, ReadEnds
<1>6. CASE Execute(c) \/ ExecuteFaults(c) \/ GetSessionFaults(c)
  BY <1>6, ZenonT(60) DEF Execute, ExecuteFaults, GetSessionFaults, Fault
<1>7. CASE Delete(c)
  BY <1>7 DEF Delete, Close
<1>8. CASE Leave(c)
  BY <1>8 DEF Leave, ThreadLeaves
<1> QED
  BY <1>1, <1>2, <1>3, <1>4, <1>5, <1>6, <1>7, <1>8 DEF SessionThread

LEMMA MainKeepsTypes ==
  ASSUME TypeOK, SMTypeOK', MainThread
  PROVE  TypeOK'
<1> USE ServerAssumption, ChannelAssumption
    DEF TypeOK, Proceed, ListenerStates, lc_vars, main_vars, rest_vars
<1>1. ASSUME NEW l \in Channels, MainStartsWorker(l) PROVE TypeOK'
  BY <1>1 DEF MainStartsWorker, StartWorker, Step
<1>2. ASSUME NEW l \in Channels, MainShutsDown(l) PROVE TypeOK'
  BY <1>2 DEF MainShutsDown, Shutdown
<1>3. CASE MainCannotListen \/ MainStarted \/ MainNotifiesReady \/ MainInterrupted
  BY <1>3 DEF MainCannotListen, MainStarted, MainNotifiesReady, MainInterrupted
<1>4. CASE MainListsSessions
  BY <1>4 DEF MainListsSessions, SeenIds, SMTypeOK
<1>5. CASE MainDeletes
  BY <1>5 DEF MainDeletes, Close
<1>6. CASE MainDeletedAll \/ MainExitsComm \/ MainFaults \/ MainJoins
  BY <1>6 DEF MainDeletedAll, MainExitsComm, MainFaults, MainJoins
<1>7. CASE MainSignalsSessions
  BY <1>7 DEF MainSignalsSessions
<1>8. CASE MainFaultsAgain
  BY <1>8 DEF MainFaultsAgain, vars, thread_vars
<1> QED
  BY <1>1, <1>2, <1>3, <1>4, <1>5, <1>6, <1>7, <1>8 DEF MainThread

LEMMA InitTypes == Init => TypeOK
<1> SUFFICES ASSUME Init PROVE TypeOK
  OBVIOUS
<1>1. SMTypeOK
  BY InitInv DEF Init, SMInv
<1>2. number_of_threads \in [Channels -> Int]
  BY DEF Init, LCInit
<1>3. /\ connection \in [Connections -> ConnectionStates]
      /\ fd_table \in [Descriptors -> Connections \cup {NoConnection}]
      /\ comm_fd \in [Connections -> Nat]
      /\ listener \in [Channels -> ListenerStates]
      /\ accepted \in [Channels -> Connections \cup {NoConnection}]
  BY DEF Init, LCInit, ConnectionStates, ListenerStates
<1>4. /\ thread \in [Sessions -> ThreadStates]
      /\ session \in [Sessions -> Sessions \cup {NoConnection}]
      /\ exit_signal \in [Sessions -> BOOLEAN]
      /\ listening \in [Channels -> BOOLEAN]
      /\ is_ready \in [Channels -> BOOLEAN]
  BY DEF Init, LCInit, ThreadStates
<1> QED
  BY <1>1, <1>2, <1>3, <1>4 DEF Init, LCInit, TypeOK

LEMMA NextTypes == TypeOK /\ SMTypeOK' /\ [Next]_vars => TypeOK'
<1> SUFFICES ASSUME TypeOK, SMTypeOK', [Next]_vars PROVE TypeOK'
  OBVIOUS
<1>1. ASSUME NEW c \in Connections, ClientConnects(c) PROVE TypeOK'
  BY <1>1, ChannelAssumption
  DEF ClientConnects, Connect, TypeOK, ConnectionStates, thread_vars, main_vars
<1>2. CASE Signal
  BY <1>2 DEF Signal, TypeOK, lc_vars, thread_vars, main_vars
<1>3. CASE UNCHANGED vars
  BY <1>3 DEF vars, TypeOK, lc_vars, thread_vars, main_vars
<1> QED
  BY <1>1, <1>2, <1>3, ListenersKeepTypes, SessionThreadsKeepTypes, MainKeepsTypes
  DEF Next, Ended

(* Every variable of the server keeps its type; in particular accept always *)
(* records the descriptor of a connection, and get_session only returns     *)
(* Session objects.                                                         *)
THEOREM ServerTypeCorrect == Spec => []TypeOK
<1>1. Spec => []SMTypeOK
  BY ServerUsesPool, PoolTypeCorrect, PTL DEF PoolSpec
<1> QED
  BY <1>1, InitTypes, NextTypes, PTL DEF Spec
=============================================================================
