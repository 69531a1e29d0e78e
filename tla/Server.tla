------------------------------- MODULE Server --------------------------------
(***************************************************************************)
(* The Koheron server (server/core/server.hpp, server.cpp, session.hpp):   *)
(* the listening threads of ListeningChannel, the detached session threads *)
(* they start, and the main thread of Server::run, all on one              *)
(* SessionManager.                                                         *)
(*                                                                         *)
(* A session thread runs session_thread_call, and in it Session::run:      *)
(*   enter -> create -> get -> init -> loop <-> read <-> exec              *)
(*   -> delete -> leave -> done        (or crashed, in a driver)            *)
(* It is named like its connection and like the Session object it creates. *)
(* `session` is the object that get_session returned, which need not be    *)
(* its own and may since have been destroyed: what a thread reads from a   *)
(* destroyed object (exit_signal, status) is then an arbitrary value, and  *)
(* comm_fd the stale number.                                               *)
(***************************************************************************)
EXTENDS SessionManager, ListeningChannel

ASSUME ServerAssumption == Connections = Sessions

VARIABLES thread,          \* where each session thread is
          session,         \* the Session object it runs
          exit_signal,     \* SessionAbstract::exit_signal of each object
          main,            \* where Server::run is
          todo,            \* delete_all: the ids still to delete
          exit_requested,  \* signal_handler.interrupt() || exit_all
          process          \* "alive", "exited", or "aborted" by std::terminate

thread_vars == <<thread, session, exit_signal>>
main_vars   == <<main, todo, process>>
vars == <<sm_vars, lc_vars, thread_vars, main_vars, exit_requested>>

Init ==
    /\ SMInit
    /\ LCInit
    /\ thread = [c \in Sessions |-> "none"]
    /\ session = [c \in Sessions |-> NoConnection]
    /\ exit_signal = [c \in Sessions |-> FALSE]
    /\ main = "start"
    /\ todo = {}
    /\ exit_requested = FALSE
    /\ process = "alive"

-----------------------------------------------------------------------------
(* Clients and signals: the environment. *)

ClientConnects(c) ==
    /\ Connect(c)
    /\ UNCHANGED <<sm_vars, thread_vars, main_vars, exit_requested>>

\* exit_signal_handler, on SIGINT or SIGTERM.
Signal ==
    /\ ~exit_requested
    /\ exit_requested' = TRUE
    /\ UNCHANGED <<sm_vars, lc_vars, thread_vars, main_vars>>

-----------------------------------------------------------------------------
(* Listening threads: comm_thread_call. *)

Spawn(l) ==
    /\ DispatchSpawn(l)
    /\ thread' = [thread EXCEPT ![accepted[l]] = "enter"]
    /\ UNCHANGED <<sm_vars, session, exit_signal, main_vars, exit_requested>>

Listen(l) ==
    /\ \/ Begin(l)
       \/ LoopHead(l)
       \/ \E c \in Connections : Accept(l, c) \/ AcceptRefused(l, c)
       \/ AcceptFails(l)
       \/ CheckExit(l)
       \/ DispatchNone(l)
       \/ DispatchMax(l)
    /\ UNCHANGED <<sm_vars, thread_vars, main_vars, exit_requested>>

\* A signal that interrupts accept has been handled.
ListenInterrupted(l) ==
    /\ exit_requested
    /\ AcceptInterrupted(l)
    /\ UNCHANGED <<sm_vars, thread_vars, main_vars, exit_requested>>

-----------------------------------------------------------------------------
(* Session threads: session_thread_call and Session::run. *)

Move(c, from, to) ==
    /\ thread[c] = from
    /\ thread' = [thread EXCEPT ![c] = to]

Enter(c) ==
    /\ Move(c, "enter", "create")
    /\ ThreadEnters(ChannelOf[c])
    /\ UNCHANGED <<sm_vars, session, exit_signal, main_vars, exit_requested>>

Create(c) ==
    /\ thread[c] = "create"
    /\ \/ (CreateChooseId(c) \/ CreateInsert(c)) /\ UNCHANGED thread
       \/ CreateCount(c) /\ Move(c, "create", "get")
    /\ UNCHANGED <<lc_vars, session, exit_signal, main_vars, exit_requested>>

\* Another thread is inside std::map::insert or erase, and rebalances the tree.
PoolChanges(t) == \E u \in Callers \ {t} : call[u] \in {"insert", "erase"}

\* What a reader of session_pool that does not hold the mutex can find in it:
\* while it changes, a search or an iteration can miss any entry.  The reader
\* may as well follow a pointer into an erased node: GetSessionFaults and
\* MainFaults.
SeenIds(t) ==
    IF PoolChanges(t) THEN SUBSET DOMAIN session_pool ELSE {DOMAIN session_pool}

\* get_session: session_pool.at(sid), without the lock.
GetSession(c) ==
    /\ Move(c, "get", "init")
    /\ call_id[c] \in DOMAIN session_pool
    /\ session' = [session EXCEPT ![c] = session_pool[call_id[c]]]
    /\ UNCHANGED <<sm_vars, lc_vars, exit_signal, main_vars, exit_requested>>

\* at() throws std::out_of_range, nothing catches it in the detached thread.
GetSessionThrows(c) ==
    /\ thread[c] = "get"
    /\ \E seen \in SeenIds(c) : call_id[c] \notin seen
    /\ process' = "aborted"
    /\ UNCHANGED <<sm_vars, lc_vars, thread_vars, main, todo, exit_requested>>

\* SIGSEGV in a session thread: crash_signal_handler requests the exit and
\* returns to the faulting instruction, for ever.
Fault(c, from) ==
    /\ Move(c, from, "crashed")
    /\ session' = [session EXCEPT ![c] = NoConnection]
    /\ exit_requested' = TRUE

\* The search reads an erased node.
GetSessionFaults(c) ==
    /\ Fault(c, "get")
    /\ PoolChanges(c)
    /\ UNCHANGED <<sm_vars, lc_vars, exit_signal, main_vars>>

\* init_session: only the WebSocket handshake can fail.
InitSession(c) ==
    /\ \/ Move(c, "init", "loop")
       \/ ChannelOf[c] = "WEBSOCK" /\ Move(c, "init", "delete")
    /\ UNCHANGED <<sm_vars, lc_vars, session, exit_signal, main_vars, exit_requested>>

Freed(o) == o \notin Range(session_pool)

\* The values a thread can read from exit_signal of the object it runs.
ExitSignal(c) == IF Freed(session[c]) THEN BOOLEAN ELSE {exit_signal[session[c]]}

\* while (!exit_signal); leaving the loop runs exit_session and returns.
RunLoop(c) ==
    /\ thread[c] = "loop"
    /\ \E e \in ExitSignal(c) : Move(c, "loop", IF e THEN "delete" ELSE "read")
    /\ UNCHANGED <<sm_vars, lc_vars, session, exit_signal, main_vars, exit_requested>>

\* The connection behind the descriptor number the thread reads from.
Peer(c) == fd_table[comm_fd[session[c]]]

\* read_command returns a command: some connection is behind the number.
ReadCommand(c) ==
    /\ thread[c] = "read"
    /\ Peer(c) # NoConnection
    /\ \E e \in ExitSignal(c) : Move(c, "read", IF e THEN "delete" ELSE "exec")
    /\ UNCHANGED <<sm_vars, lc_vars, session, exit_signal, main_vars, exit_requested>>

\* read_command returns 0 or -1: the client closed, the socket was shut down
\* and closed under the thread, or what was read is not a command.
ReadEnds(c) ==
    /\ Move(c, "read", "delete")
    /\ UNCHANGED <<sm_vars, lc_vars, session, exit_signal, main_vars, exit_requested>>

\* driver_manager.execute(cmd).  A reply of which no byte could be sent sets
\* status to CLOSED, which leaves the loop; a driver that cannot be allocated
\* sets exit_all.
Execute(c) ==
    /\ \E next \in {"loop", "delete"} : Move(c, "exec", next)
    /\ exit_requested' \in {exit_requested, TRUE}
    /\ UNCHANGED <<sm_vars, lc_vars, session, exit_signal, main_vars>>

\* A driver crashes.
ExecuteFaults(c) ==
    /\ Fault(c, "exec")
    /\ UNCHANGED <<sm_vars, lc_vars, exit_signal, main_vars>>

\* The commands of the server itself, GET_VERSION and GET_CMDS, reply through
\* get_session(cmd.session_id), which throws like the one above.
ExecuteThrows(c) ==
    /\ thread[c] = "exec"
    /\ \E seen \in SeenIds(c) : call_id[c] \notin seen
    /\ process' = "aborted"
    /\ UNCHANGED <<sm_vars, lc_vars, thread_vars, main, todo, exit_requested>>

\* delete_session(sid) by its own thread.
Delete(c) ==
    /\ thread[c] = "delete"
    /\ \/ DeleteLookup(c, call_id[c]) /\ Close(comm_fd[session_pool[call_id[c]]])
                                      /\ UNCHANGED thread
       \/ (DeleteErase(c) \/ DeletePush(c)) /\ UNCHANGED <<lc_vars, thread>>
       \/ (DeleteCount(c) \/ DeleteNotAllocated(c, call_id[c]))
          /\ Move(c, "delete", "leave") /\ UNCHANGED lc_vars
    /\ UNCHANGED <<session, exit_signal, main_vars, exit_requested>>

Leave(c) ==
    /\ Move(c, "leave", "done")
    /\ ThreadLeaves(ChannelOf[c])
    /\ session' = [session EXCEPT ![c] = NoConnection]
    /\ UNCHANGED <<sm_vars, exit_signal, main_vars, exit_requested>>

SessionThread(c) ==
    \/ Enter(c) \/ Create(c) \/ GetSession(c) \/ GetSessionThrows(c) \/ GetSessionFaults(c)
    \/ InitSession(c)
    \/ RunLoop(c) \/ ReadCommand(c) \/ ReadEnds(c) \/ Execute(c) \/ ExecuteFaults(c)
    \/ ExecuteThrows(c)
    \/ Delete(c) \/ Leave(c)

-----------------------------------------------------------------------------
(* The main thread: Server::run. *)

Proceed(from, to) == main = from /\ main' = to

rest_vars == <<thread, session, exit_requested>>

\* start_listeners_workers, in order; a channel that is off is skipped.
Predecessors(l) == {ChannelOrder[j] : j \in 1..(CHOOSE i \in 1..3 : ChannelOrder[i] = l) - 1}

MainStartsWorker(l) ==
    /\ main = "start"
    /\ l \in OpenChannels
    /\ \A k \in Predecessors(l) \cap OpenChannels : listener[k] # "off"
    /\ StartWorker(l)
    /\ UNCHANGED <<sm_vars, exit_signal, main_vars, rest_vars>>

\* listen() fails: run() returns -1 and main() exits.
MainCannotListen ==
    /\ main = "start"
    /\ \E l \in OpenChannels : listener[l] = "off"
    /\ process' = "exited"
    /\ UNCHANGED <<sm_vars, lc_vars, exit_signal, main, todo, rest_vars>>

MainStarted ==
    /\ \A l \in OpenChannels : listener[l] # "off"
    /\ Proceed("start", "poll")
    /\ UNCHANGED <<sm_vars, lc_vars, exit_signal, todo, process, rest_vars>>

\* is_ready() at last: log it and notify systemd, once.
MainNotifiesReady ==
    /\ Proceed("poll", "ready")
    /\ \A l \in OpenChannels : is_ready[l]
    /\ UNCHANGED <<sm_vars, lc_vars, exit_signal, todo, process, rest_vars>>

\* if (signal_handler.interrupt() || exit_all): delete_all is entered.
MainInterrupted ==
    /\ exit_requested
    /\ Proceed("poll", "delete_all") \/ Proceed("ready", "delete_all")
    /\ UNCHANGED <<sm_vars, lc_vars, exit_signal, todo, process, rest_vars>>

\* delete_all: get_session_ids(), without the lock.
MainListsSessions ==
    /\ Proceed("delete_all", "deleting")
    /\ todo' \in SeenIds(Main)
    /\ UNCHANGED <<sm_vars, lc_vars, exit_signal, process, rest_vars>>

\* delete_session of the listed ids, in increasing order.
MainDeletes ==
    /\ main = "deleting"
    /\ \/ \E id \in todo :
             /\ \A other \in todo : id <= other
             /\ \/ DeleteLookup(Main, id) /\ Close(comm_fd[session_pool[id]])
                \/ DeleteNotAllocated(Main, id) /\ UNCHANGED lc_vars
             /\ todo' = todo \ {id}
       \/ /\ DeleteErase(Main) \/ DeletePush(Main) \/ DeleteCount(Main)
          /\ UNCHANGED <<lc_vars, todo>>
    /\ UNCHANGED <<exit_signal, main, process, rest_vars>>

\* delete_all returns; close_listeners: exit_comm = true.
MainDeletedAll ==
    /\ todo = {} /\ call[Main] = "idle"
    /\ Proceed("deleting", "deleted_all")
    /\ UNCHANGED <<sm_vars, lc_vars, exit_signal, todo, process, rest_vars>>

\* Mutant: exit_comm.store(true) is missing.
MainForgetsExitComm ==
    /\ Proceed("deleted_all", "exit_comm")
    /\ UNCHANGED <<sm_vars, lc_vars, exit_signal, todo, process, rest_vars>>

MainExitsComm ==
    /\ Proceed("deleted_all", "exit_comm")
    /\ exit_comm' = TRUE
    /\ UNCHANGED <<sm_vars, connection, fd_table, comm_fd, listener, accepted, listening,
                   is_ready, number_of_threads, exit_signal, todo, process, rest_vars>>

\* session_manager.exit_comm(): the sessions it finds in the pool, without the lock.
MainSignalsSessions ==
    /\ Proceed("exit_comm", "shutdown")
    /\ \E seen \in SeenIds(Main) :
          exit_signal' = [c \in Sessions |->
                            exit_signal[c] \/ \E id \in seen : session_pool[id] = c]
    /\ UNCHANGED <<sm_vars, lc_vars, todo, process, rest_vars>>

\* Either iteration meets an erased node or a destroyed Session: SIGSEGV in the
\* main thread.  crash_signal_handler returns at once, since the exit is already
\* requested, to the faulting instruction, and so for ever.
MainFaults ==
    /\ PoolChanges(Main)
    /\ Proceed("delete_all", "crashed") \/ Proceed("exit_comm", "crashed")
    /\ UNCHANGED <<sm_vars, lc_vars, exit_signal, todo, process, rest_vars>>

MainFaultsAgain == main = "crashed" /\ UNCHANGED vars

\* shutdown() of the channels in order, then join_listeners_workers().
MainShutsDown(l) ==
    /\ main = "shutdown"
    /\ l \in OpenChannels /\ listening[l]
    /\ \A k \in Predecessors(l) : ~listening[k]
    /\ Shutdown(l)
    /\ UNCHANGED <<sm_vars, exit_signal, main_vars, rest_vars>>

MainJoins ==
    /\ Proceed("shutdown", "returned")
    /\ \A l \in Channels : ~listening[l] /\ Joinable(l)
    /\ process' = "exited"
    /\ UNCHANGED <<sm_vars, lc_vars, exit_signal, todo, rest_vars>>

MainThread ==
    \/ \E l \in Channels : MainStartsWorker(l) \/ MainShutsDown(l)
    \/ MainCannotListen \/ MainStarted \/ MainNotifiesReady \/ MainInterrupted
    \/ MainListsSessions \/ MainDeletes \/ MainDeletedAll \/ MainExitsComm
    \/ MainSignalsSessions \/ MainFaults \/ MainFaultsAgain \/ MainJoins

-----------------------------------------------------------------------------
Alive == process = "alive"

\* exit() or abort() ends every thread.
Ended == process # "alive" /\ UNCHANGED vars

Next ==
    \/ /\ Alive
       /\ \/ \E c \in Connections : ClientConnects(c)
          \/ Signal
          \/ \E l \in Channels : Listen(l) \/ ListenInterrupted(l) \/ Spawn(l)
          \/ \E c \in Sessions : SessionThread(c)
          \/ MainThread
    \/ Ended

Spec == Init /\ [][Next]_vars

\* What a session thread does without waiting for its client.
RunsAlone(c) ==
    \/ Enter(c) \/ Create(c) \/ GetSession(c) \/ GetSessionThrows(c)
    \/ InitSession(c) /\ ChannelOf[c] # "WEBSOCK"
    \/ RunLoop(c) \/ Delete(c) \/ Leave(c)

\* Every thread of the server is scheduled, and a thread that waits for the
\* mutex gets it: callers take it finitely often.  A thread need not get out
\* of a read, of the handshake, of a driver or of sending its reply: the
\* client may say nothing, and WebSocket::read_n_bytes repeats a failing
\* read for ever.  Clients and signals owe nothing.
Fairness ==
    /\ \A l \in Channels : WF_vars(Alive /\ (Listen(l) \/ Spawn(l)))
    /\ \A c \in Sessions : WF_vars(Alive /\ RunsAlone(c))
    /\ WF_vars(Alive /\ (\/ \E l \in Channels : MainStartsWorker(l) \/ MainShutsDown(l)
                         \/ MainStarted \/ MainInterrupted \/ MainListsSessions
                         \/ MainDeletes \/ MainDeletedAll \/ MainExitsComm
                         \/ MainSignalsSessions \/ MainJoins))

FairSpec == Spec /\ Fairness

-----------------------------------------------------------------------------
ThreadStates == {"none", "enter", "create", "get", "init", "loop", "read", "exec",
                 "delete", "leave", "done", "crashed"}

\* Type invariant of the composition.
TypeOK ==
    /\ SMTypeOK
    /\ connection \in [Connections -> ConnectionStates]
    /\ fd_table \in [Descriptors -> Connections \cup {NoConnection}]
    /\ comm_fd \in [Connections -> Nat]
    /\ listener \in [Channels -> ListenerStates]
    /\ accepted \in [Channels -> Connections \cup {NoConnection}]
    /\ listening \in [Channels -> BOOLEAN]
    /\ is_ready \in [Channels -> BOOLEAN]
    /\ number_of_threads \in [Channels -> Int]
    /\ exit_comm \in BOOLEAN
    /\ thread \in [Sessions -> ThreadStates]
    /\ session \in [Sessions -> Sessions \cup {NoConnection}]
    /\ exit_signal \in [Sessions -> BOOLEAN]
    /\ main \in {"start", "poll", "ready", "delete_all", "deleting", "deleted_all", "exit_comm",
                 "shutdown", "returned", "crashed"}
    /\ todo \in SUBSET Nat
    /\ exit_requested \in BOOLEAN
    /\ process \in {"alive", "exited", "aborted"}

Serving == main \in {"start", "poll", "ready"}
Running(c) == thread[c] \in {"init", "loop", "read", "exec"}

\* Between create_session and the erase in its own delete_session.
HasSession(c) ==
    \/ thread[c] \in {"get", "init", "loop", "read", "exec"}
    \/ thread[c] = "delete" /\ call[c] \in {"idle", "erase"}

\* As long as the server is not being shut down, a session thread finds its
\* own Session object under the id create_session gave it, that object is not
\* destroyed while the thread runs it, its descriptor is still the one of its
\* own connection, and delete_session closes that one: no thread ever touches
\* the session of another client.
ThreadOwnsItsSession ==
    Serving => \A c \in Sessions :
        /\ HasSession(c) => call_id[c] \in DOMAIN session_pool /\ session_pool[call_id[c]] = c
        /\ Running(c) => session[c] = c /\ Peer(c) = c

\* Between accept and create_session comm_fd is a local variable of a thread.
InTransit(c) ==
    \/ connection[c] = "held"
    \/ connection[c] = "handed" /\ thread[c] \in {"enter", "create"}

BeingClosed(c) ==
    \E t \in Callers : call[t] = "erase" /\ session_pool[call_id[t]] = c

\* Descriptors are neither leaked by a session nor closed under one, also
\* while delete_all runs: an open descriptor is on its way to a session, in
\* the pool, or was dropped by a listener; and a session of the pool has its
\* own descriptor open until delete_session closes it.
DescriptorsAreOwned ==
    /\ \A fd \in Descriptors : LET c == fd_table[fd] IN
          c # NoConnection =>
             /\ comm_fd[c] = fd
             /\ InTransit(c) \/ connection[c] = "dropped" \/ c \in Range(session_pool)
    /\ \A c \in Range(session_pool) : fd_table[comm_fd[c]] = c \/ BeingClosed(c)

\* The inductive invariant.  A connection is with its listening thread, then
\* with its session thread ...
HandOverInv ==
    /\ \A l \in Channels : accepted[l] # NoConnection =>
          /\ listener[l] \in {"check", "dispatch"}
          /\ connection[accepted[l]] = "held" /\ ChannelOf[accepted[l]] = l
    /\ \A c \in Sessions : connection[c] = "handed" <=> thread[c] # "none"

\* ... which is inside create_session or delete_session only where it calls
\* them; the main thread is inside delete_session only in delete_all.
CallsOf(state) ==
    IF state \in {"none", "enter"} THEN {"new"}
    ELSE IF state = "create" THEN {"new", "insert", "count_up"}
    ELSE IF state = "delete" THEN {"idle", "erase", "push", "count_down"}
    ELSE {"idle"}

CallsInv ==
    /\ \A c \in Sessions : call[c] \in CallsOf(thread[c])
    /\ main # "deleting" => call[Main] = "idle"

\* An object is in the pool at most once, from its insertion on.
ObjectsInv ==
    /\ \A id \in DOMAIN session_pool : call[session_pool[id]] \notin {"new", "insert"}
    /\ \A i, j \in DOMAIN session_pool : session_pool[i] = session_pool[j] => i = j
    /\ \A c \in Sessions : call[c] = "count_up" =>
          call_id[c] \in DOMAIN session_pool /\ session_pool[call_id[c]] = c

\* The connections that hold a descriptor are behind exactly that one.
Open(c) ==
    \/ InTransit(c)
    \/ connection[c] = "dropped"
    \/ c \in Range(session_pool) /\ ~BeingClosed(c)

DescriptorsInv ==
    \A c \in Connections :
        /\ Open(c) => comm_fd[c] \in Descriptors
        /\ \A fd \in Descriptors : fd_table[fd] = c <=> Open(c) /\ comm_fd[c] = fd

\* Until delete_all, the id of a thread is that of its own object.
OwnSessionInv ==
    Serving => \A c \in Sessions :
        /\ HasSession(c) => call_id[c] \in DOMAIN session_pool /\ session_pool[call_id[c]] = c
        /\ Running(c) => session[c] = c

ServerInv ==
    /\ TypeOK
    /\ SMInv
    /\ HandOverInv
    /\ CallsInv
    /\ ObjectsInv
    /\ DescriptorsInv
    /\ OwnSessionInv

\* The pool is used only through create_session and delete_session, one
\* caller at a time, by the session threads and the main thread together.
PoolSpec == SMSpec

\* After a signal, or when a driver could not be allocated, run() returns:
\* it is not held up by the mutex, by a listening thread in accept, by a lack
\* of descriptors, nor by sessions that start during the shutdown.  The one
\* thing that stops it is the pool changing under an iteration without the lock.
ShutdownCompletes == exit_requested ~> ~Alive \/ main = "crashed"

\* Whoever else creates and deletes sessions, a thread that left Session::run
\* gets the mutex, deletes its session and ends.
FinishedSessionIsDeleted ==
    \A c \in Sessions : thread[c] = "delete" ~> thread[c] = "done" \/ ~Alive

-----------------------------------------------------------------------------
(* What comments and assertions of the code say, and the code does not do. *)

\* session_manager.cpp:109, at the end of delete_all:
\* assert(number_of_sessions == 0).
DeleteAllLeavesNoSession ==
    [][main = "deleting" /\ main' = "deleted_all" => number_of_sessions = 0]_vars

\* config.hpp:38: "TCP max parallel connections" (43 and 48 for the others).
AtMostWorkerConnections ==
    \A l \in OpenChannels : number_of_threads[l] <= worker_connections[l]
=============================================================================
