-------------------------- MODULE ListeningChannel ---------------------------
(***************************************************************************)
(* The listening channels of the Koheron server (ListeningChannel in       *)
(* server/core/server.hpp and listening_channel.cpp): one thread per kind  *)
(* of socket, which accepts connections and hands each one to a detached   *)
(* session thread.                                                         *)
(*                                                                         *)
(* A connection is named by the session thread that may come to serve it.  *)
(* Descriptors are numbers: accept returns the lowest free one, as POSIX   *)
(* says, so a number that was closed comes back with another connection.   *)
(***************************************************************************)
EXTENDS Integers, Sequences, FiniteSets

CONSTANTS Connections,         \* the connections that clients may open
          ChannelOf,           \* the channel each connection is made to
          worker_connections,  \* config.hpp: maximum per channel, 0 disables it
          Descriptors,         \* the descriptor numbers left to the process
          NoConnection

\* The order in which the server starts, shuts down and joins them.
ChannelOrder == <<"TCP", "WEBSOCK", "UNIX">>
Channels == {"TCP", "WEBSOCK", "UNIX"}

ASSUME ChannelAssumption ==
    /\ ChannelOf \in [Connections -> Channels]
    /\ worker_connections \in [Channels -> Nat]
    /\ Descriptors \subseteq Nat
    /\ NoConnection \notin Connections

\* Server::Server calls init() only on these; the others keep listen_fd = -1.
OpenChannels == {l \in Channels : worker_connections[l] > 0}

VARIABLES connection,         \* how far a connection has come (see below)
          fd_table,           \* the connection behind each descriptor number
          comm_fd,            \* the descriptor number a connection was given
          listener,           \* where each listening thread is
          accepted,           \* comm_fd in comm_thread_call: a connection or -1
          listening,          \* the listening socket is open
          is_ready,
          number_of_threads,  \* atomic<int>, -1 until init()
          exit_comm           \* Server::exit_comm, read by the listeners

lc_vars == <<connection, fd_table, comm_fd, listener, accepted, listening,
             is_ready, number_of_threads, exit_comm>>

\* "away"     the client has not connected
\* "queued"   connected, waits in the backlog of the listening socket
\* "held"     accepted, comm_fd is a local variable of the listening thread
\* "handed"   a session thread was started with comm_fd
\* "dropped"  the listening thread forgot comm_fd without closing it
\* "refused"  set_socket_options failed and closed comm_fd
ConnectionStates == {"away", "queued", "held", "handed", "dropped", "refused"}
ListenerStates == {"off", "begin", "loop", "accept", "check", "dispatch", "closed"}

LCInit ==
    /\ connection = [c \in Connections |-> "away"]
    /\ fd_table = [fd \in Descriptors |-> NoConnection]
    /\ comm_fd = [c \in Connections |-> 0]
    /\ listener = [l \in Channels |-> "off"]
    /\ accepted = [l \in Channels |-> NoConnection]
    /\ listening = [l \in Channels |-> FALSE]
    /\ is_ready = [l \in Channels |-> FALSE]
    /\ number_of_threads = [l \in Channels |-> IF l \in OpenChannels THEN 0 ELSE -1]
    /\ exit_comm = FALSE

-----------------------------------------------------------------------------
Step(l, from, to) ==
    /\ listener[l] = from
    /\ listener' = [listener EXCEPT ![l] = to]

\* A client connects; the kernel queues it while the socket listens.
Connect(c) ==
    /\ connection[c] = "away"
    /\ listening[ChannelOf[c]]
    /\ connection' = [connection EXCEPT ![c] = "queued"]
    /\ UNCHANGED <<fd_table, comm_fd, listener, accepted, listening, is_ready,
                   number_of_threads, exit_comm>>

\* start_worker: listen() and start the thread of comm_thread_call.
StartWorker(l) ==
    /\ Step(l, "off", "begin")
    /\ listening' = [listening EXCEPT ![l] = TRUE]
    /\ UNCHANGED <<connection, fd_table, comm_fd, accepted, is_ready,
                   number_of_threads, exit_comm>>

\* comm_thread_call: is_ready = true.
Begin(l) ==
    /\ Step(l, "begin", "loop")
    /\ is_ready' = [is_ready EXCEPT ![l] = TRUE]
    /\ UNCHANGED <<connection, fd_table, comm_fd, accepted, listening,
                   number_of_threads, exit_comm>>

\* while (!exit_comm)
LoopHead(l) ==
    /\ Step(l, "loop", IF exit_comm THEN "closed" ELSE "accept")
    /\ UNCHANGED <<connection, fd_table, comm_fd, accepted, listening, is_ready,
                   number_of_threads, exit_comm>>

LowestFree(fd) ==
    /\ fd_table[fd] = NoConnection
    /\ \A other \in Descriptors : other < fd => fd_table[other] # NoConnection

\* open_communication: accept, and set_socket_options succeeds.
Accept(l, c) ==
    /\ Step(l, "accept", "check")
    /\ listening[l]
    /\ connection[c] = "queued" /\ ChannelOf[c] = l
    /\ \E fd \in Descriptors :
          /\ LowestFree(fd)
          /\ fd_table' = [fd_table EXCEPT ![fd] = c]
          /\ comm_fd' = [comm_fd EXCEPT ![c] = fd]
    /\ connection' = [connection EXCEPT ![c] = "held"]
    /\ accepted' = [accepted EXCEPT ![l] = c]
    /\ UNCHANGED <<listening, is_ready, number_of_threads, exit_comm>>

\* Mutant: close(comm_fd) is missing when set_socket_options fails.
AcceptRefusedLeaks(l, c) ==
    /\ Step(l, "accept", "check")
    /\ listening[l] /\ l # "UNIX"
    /\ connection[c] = "queued" /\ ChannelOf[c] = l
    /\ \E fd \in Descriptors : LowestFree(fd) /\ fd_table' = [fd_table EXCEPT ![fd] = c]
                                              /\ comm_fd' = [comm_fd EXCEPT ![c] = fd]
    /\ connection' = [connection EXCEPT ![c] = "refused"]
    /\ accepted' = [accepted EXCEPT ![l] = NoConnection]
    /\ UNCHANGED <<listening, is_ready, number_of_threads, exit_comm>>

\* open_communication: accepted, but set_socket_options failed and closed it,
\* or aborted before it was accepted.  The UNIX channel sets no options, and
\* its clients do not abort.
AcceptRefused(l, c) ==
    /\ Step(l, "accept", "check")
    /\ listening[l] /\ l # "UNIX"
    /\ connection[c] = "queued" /\ ChannelOf[c] = l
    /\ \E fd \in Descriptors : LowestFree(fd)
    /\ connection' = [connection EXCEPT ![c] = "refused"]
    /\ accepted' = [accepted EXCEPT ![l] = NoConnection]
    /\ UNCHANGED <<fd_table, comm_fd, listening, is_ready, number_of_threads,
                   exit_comm>>

\* accept returns -1: the listening socket was shut down, or no descriptor
\* is left, whether or not a connection is queued.
AcceptFails(l) ==
    /\ Step(l, "accept", "check")
    /\ ~listening[l] \/ \A fd \in Descriptors : fd_table[fd] # NoConnection
    /\ accepted' = [accepted EXCEPT ![l] = NoConnection]
    /\ UNCHANGED <<connection, fd_table, comm_fd, listening, is_ready,
                   number_of_threads, exit_comm>>

\* accept returns -1 because of a signal: SIGINT and SIGTERM are handled
\* without SA_RESTART.
AcceptInterrupted(l) ==
    /\ Step(l, "accept", "check")
    /\ accepted' = [accepted EXCEPT ![l] = NoConnection]
    /\ UNCHANGED <<connection, fd_table, comm_fd, listening, is_ready,
                   number_of_threads, exit_comm>>

\* if (exit_comm) break: whatever was accepted is forgotten, not closed.
CheckExit(l) ==
    /\ Step(l, "check", IF exit_comm THEN "closed" ELSE "dispatch")
    /\ connection' = IF exit_comm /\ accepted[l] # NoConnection
                     THEN [connection EXCEPT ![accepted[l]] = "dropped"]
                     ELSE connection
    /\ accepted' = IF exit_comm THEN [accepted EXCEPT ![l] = NoConnection] ELSE accepted
    /\ UNCHANGED <<fd_table, comm_fd, listening, is_ready,
                   number_of_threads, exit_comm>>

is_max_threads(l) == number_of_threads[l] >= worker_connections[l]

\* comm_fd < 0: log and continue.
DispatchNone(l) ==
    /\ Step(l, "dispatch", "loop")
    /\ accepted[l] = NoConnection
    /\ UNCHANGED <<connection, fd_table, comm_fd, accepted, listening, is_ready,
                   number_of_threads, exit_comm>>

\* is_max_threads(): log and continue, comm_fd stays open.
DispatchMax(l) ==
    /\ Step(l, "dispatch", "loop")
    /\ accepted[l] # NoConnection
    /\ is_max_threads(l)
    /\ connection' = [connection EXCEPT ![accepted[l]] = "dropped"]
    /\ accepted' = [accepted EXCEPT ![l] = NoConnection]
    /\ UNCHANGED <<fd_table, comm_fd, listening, is_ready,
                   number_of_threads, exit_comm>>

\* Start a detached session thread.  It, not the listener, counts itself.
DispatchSpawn(l) ==
    /\ Step(l, "dispatch", "loop")
    /\ accepted[l] # NoConnection
    /\ ~is_max_threads(l)
    /\ connection' = [connection EXCEPT ![accepted[l]] = "handed"]
    /\ accepted' = [accepted EXCEPT ![l] = NoConnection]
    /\ UNCHANGED <<fd_table, comm_fd, listening, is_ready,
                   number_of_threads, exit_comm>>

\* session_thread_call: number_of_threads++ on entry, -- on exit.
ThreadEnters(l) ==
    /\ number_of_threads' = [number_of_threads EXCEPT ![l] = @ + 1]
    /\ UNCHANGED <<connection, fd_table, comm_fd, listener, accepted, listening,
                   is_ready, exit_comm>>

ThreadLeaves(l) ==
    /\ number_of_threads' = [number_of_threads EXCEPT ![l] = @ - 1]
    /\ UNCHANGED <<connection, fd_table, comm_fd, listener, accepted, listening,
                   is_ready, exit_comm>>

\* Mutant: close() is missing.
NoClose(fd) == UNCHANGED lc_vars

\* close(fd): the number is free again.
Close(fd) ==
    /\ fd_table' = [fd_table EXCEPT ![fd] = NoConnection]
    /\ UNCHANGED <<connection, comm_fd, listener, accepted, listening, is_ready,
                   number_of_threads, exit_comm>>

\* ListeningChannel::shutdown: shutdown() and close() of the listening socket;
\* connections in its backlog are reset and served by nobody.
Shutdown(l) ==
    /\ listening' = [listening EXCEPT ![l] = FALSE]
    /\ UNCHANGED <<connection, fd_table, comm_fd, listener, accepted, is_ready,
                   number_of_threads, exit_comm>>

\* join_worker, when listen_fd >= 0, waits for this.
Joinable(l) == l \in OpenChannels => listener[l] = "closed"
=============================================================================
