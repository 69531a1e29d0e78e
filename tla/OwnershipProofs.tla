--------------------------- MODULE OwnershipProofs ---------------------------
(***************************************************************************)
(* Who owns what in the whole server, for any clients, workers and         *)
(* descriptors: every open descriptor belongs to one connection on its way *)
(* to a session, in the pool or dropped, and until the shutdown no thread  *)
(* touches the session or the descriptor of another client.                *)
(***************************************************************************)
EXTENDS ServerProofs

-----------------------------------------------------------------------------
(* The descriptors depend on which connections are open. *)

LEMMA SessionFacts ==
  ASSUME ServerInv
  PROVE  /\ Sessions = Connections /\ Sessions \subseteq Callers /\ Main \in Callers
         /\ Main \notin Sessions /\ NoThread \notin Callers /\ NoConnection \notin Sessions
         /\ DOMAIN thread = Sessions /\ DOMAIN session = Sessions /\ DOMAIN connection = Sessions
         /\ DOMAIN call = Callers /\ DOMAIN call_id = Callers /\ call_id \in [Callers -> Nat]
         /\ DOMAIN fd_table = Descriptors /\ DOMAIN comm_fd = Sessions
         /\ DOMAIN accepted = Channels /\ DOMAIN listener = Channels
         /\ \A l \in Channels : accepted[l] \in Sessions \cup {NoConnection}
         /\ \A id \in DOMAIN session_pool : session_pool[id] \in Sessions
BY ServerAssumption, SessionsAssumption, ChannelAssumption
DEF ServerInv, TypeOK, SMTypeOK, Callers

LEMMA InPool ==
  ASSUME NEW c
  PROVE  c \in Range(session_pool) <=> \E id \in DOMAIN session_pool : session_pool[id] = c
BY DEF Range

LEMMA InPoolPrime ==
  ASSUME NEW c
  PROVE  c \in Range(session_pool)' <=> \E id \in DOMAIN session_pool' : session_pool'[id] = c
BY DEF Range

\* A session is only being closed by the owner of the mutex.
LEMMA ClosedByOwner ==
  ASSUME ServerInv, NEW c, BeingClosed(c)
  PROVE  /\ mutex \in Callers /\ call[mutex] = "erase" /\ session_pool[call_id[mutex]] = c
         /\ call_id[mutex] \in DOMAIN session_pool
<1>1. PICK t \in Callers : call[t] = "erase" /\ session_pool[call_id[t]] = c
  BY DEF BeingClosed
<1>2. mutex = t
  BY <1>1 DEF ServerInv, SMInv, OnlyOwnerIsCalling
<1>3. t # NoThread
  BY SessionsAssumption DEF Callers
<1>4. call_id[t] \in DOMAIN session_pool
  BY <1>1, <1>2, <1>3 DEF ServerInv, SMInv, CallIdInv, Phase
<1> QED
  BY <1>1, <1>2, <1>4

LEMMA SameOpen ==
  ASSUME DescriptorsInv, \A c \in Connections : Open(c)' <=> Open(c),
         UNCHANGED <<fd_table, comm_fd>>
  PROVE  DescriptorsInv'
<1>1. fd_table' = fd_table /\ comm_fd' = comm_fd
  OBVIOUS
<1>2. ASSUME NEW c \in Connections
      PROVE  /\ Open(c)' => comm_fd'[c] \in Descriptors
             /\ \A fd \in Descriptors : fd_table'[fd] = c <=> Open(c)' /\ comm_fd'[c] = fd
  <2>1. /\ Open(c) => comm_fd[c] \in Descriptors
        /\ \A fd \in Descriptors : fd_table[fd] = c <=> Open(c) /\ comm_fd[c] = fd
    BY Zenon DEF DescriptorsInv
  <2> QED
    BY <1>1, <2>1, Zenon
<1> QED
  BY <1>2, Zenon DEF DescriptorsInv

\* What changes nothing in the pool.
LEMMA PoolUntouched ==
  ASSUME UNCHANGED sm_vars
  PROVE  /\ \A c : BeingClosed(c)' <=> BeingClosed(c)
         /\ Range(session_pool)' = Range(session_pool)
         /\ ObjectsInv => ObjectsInv'
<1>1. session_pool' = session_pool /\ call' = call /\ call_id' = call_id
  BY DEF sm_vars
<1> QED
  BY <1>1 DEF BeingClosed, Range, ObjectsInv

LEMMA SameHands ==
  ASSUME ServerInv, UNCHANGED sm_vars, UNCHANGED <<fd_table, comm_fd>>,
         \A c \in Connections : InTransit(c)' \/ connection'[c] = "dropped"
                                  <=> InTransit(c) \/ connection[c] = "dropped"
  PROVE  DescriptorsInv' /\ ObjectsInv'
<1>1. \A c : BeingClosed(c)' <=> BeingClosed(c)
  BY PoolUntouched
<1>2. Range(session_pool)' = Range(session_pool)
  BY PoolUntouched
<1>3. \A c \in Connections : Open(c)' <=> Open(c)
  BY <1>1, <1>2, Zenon DEF Open
<1> QED
  BY <1>3, SameOpen, PoolUntouched DEF ServerInv

\* A session thread that does not run keeps what is known of the others.
LEMMA SameSessions ==
  ASSUME ServerInv, UNCHANGED sm_vars, UNCHANGED <<session, main>>,
         \A c \in Sessions : thread'[c] = thread[c]
                              \/ (thread[c] = "none" /\ thread'[c] = "enter")
  PROVE  CallsInv' /\ OwnSessionInv'
<1>1. session_pool' = session_pool /\ call' = call /\ call_id' = call_id /\ session' = session
      /\ main' = main
  BY DEF sm_vars
<1>2. \A c \in Sessions : CallsOf(thread'[c]) = CallsOf(thread[c])
  BY DEF CallsOf
<1>3. CallsInv'
  BY <1>1, <1>2, Zenon DEF CallsInv, ServerInv
<1>4. \A c \in Sessions : (HasSession(c)' => HasSession(c)) /\ (Running(c)' => Running(c))
  BY <1>1 DEF HasSession, Running
<1>5. OwnSessionInv'
  BY <1>1, <1>4, Zenon DEF OwnSessionInv, Serving, ServerInv
<1> QED
  BY <1>3, <1>5

-----------------------------------------------------------------------------
(* Clients and listening threads. *)

Ownership == HandOverInv /\ CallsInv /\ ObjectsInv /\ DescriptorsInv /\ OwnSessionInv

LEMMA ConnectStep ==
  ASSUME ServerInv, NEW c \in Connections, ClientConnects(c)
  PROVE  Ownership'
<1>1. /\ connection[c] = "away" /\ connection' = [connection EXCEPT ![c] = "queued"]
      /\ UNCHANGED <<fd_table, comm_fd>> /\ listener' = listener /\ accepted' = accepted
      /\ UNCHANGED sm_vars /\ thread' = thread /\ UNCHANGED <<session, main>>
  BY DEF ClientConnects, Connect, thread_vars, main_vars
<1>2. \A d \in Sessions : connection'[d] = IF d = c THEN "queued" ELSE connection[d]
  BY <1>1, SessionFacts
<1>3. HandOverInv'
  BY <1>1, <1>2, SessionFacts DEF HandOverInv, ServerInv
<1>4. \A d \in Connections : InTransit(d)' \/ connection'[d] = "dropped"
                               <=> InTransit(d) \/ connection[d] = "dropped"
  BY <1>1, <1>2, SessionFacts DEF InTransit
<1>5. \A d \in Sessions : thread'[d] = thread[d]
  BY <1>1
<1> QED
  BY <1>1, <1>3, <1>4, <1>5, SameHands, SameSessions DEF Ownership

\* A listening thread gives up the connection it holds, to a session thread
\* or to nobody.
LEMMA GivesUp ==
  ASSUME ServerInv, NEW l \in Channels, accepted[l] # NoConnection,
         NEW state \in {"handed", "dropped"},
         connection' = [connection EXCEPT ![accepted[l]] = state],
         accepted' = [accepted EXCEPT ![l] = NoConnection],
         thread' = IF state = "handed" THEN [thread EXCEPT ![accepted[l]] = "enter"] ELSE thread,
         \A k \in Channels \ {l} : listener'[k] = listener[k],
         UNCHANGED sm_vars, UNCHANGED <<fd_table, comm_fd>>, UNCHANGED <<session, main>>
  PROVE  Ownership'
<1>1. PICK c : c = accepted[l]
  OBVIOUS
<1>2. /\ c \in Sessions /\ connection[c] = "held" /\ ChannelOf[c] = l /\ thread[c] = "none"
  BY <1>1, SessionFacts DEF ServerInv, HandOverInv
<1>3. /\ \A d \in Sessions : connection'[d] = IF d = c THEN state ELSE connection[d]
      /\ \A k \in Channels : accepted'[k] = IF k = l THEN NoConnection ELSE accepted[k]
      /\ \A d \in Sessions : thread'[d] = IF d = c /\ state = "handed" THEN "enter" ELSE thread[d]
  BY <1>1, <1>2, SessionFacts
<1>4. ASSUME NEW k \in Channels, accepted'[k] # NoConnection
      PROVE  /\ listener'[k] \in {"check", "dispatch"}
             /\ connection'[accepted'[k]] = "held" /\ ChannelOf[accepted'[k]] = k
  <2>1. k # l /\ accepted'[k] = accepted[k]
    BY <1>3, <1>4
  <2>2. /\ accepted[k] \in Sessions /\ listener[k] \in {"check", "dispatch"}
        /\ connection[accepted[k]] = "held" /\ ChannelOf[accepted[k]] = k
    BY <1>4, <2>1, SessionFacts DEF ServerInv, HandOverInv
  <2>3. accepted[k] # c /\ listener'[k] = listener[k]
    BY <1>2, <2>1, <2>2
  <2> QED
    BY <1>3, <2>1, <2>2, <2>3
<1>5. ASSUME NEW d \in Sessions
      PROVE  connection'[d] = "handed" <=> thread'[d] # "none"
  BY <1>2, <1>3, <1>5 DEF ServerInv, HandOverInv
<1>6. HandOverInv'
  BY <1>4, <1>5, Zenon DEF HandOverInv
<1>7. \A d \in Connections : InTransit(d)' \/ connection'[d] = "dropped"
                               <=> InTransit(d) \/ connection[d] = "dropped"
  BY <1>2, <1>3, SessionFacts DEF InTransit
<1>8. \A d \in Sessions : thread'[d] = thread[d] \/ (thread[d] = "none" /\ thread'[d] = "enter")
  BY <1>2, <1>3
<1> QED
  BY <1>6, <1>7, <1>8, SameHands, SameSessions DEF Ownership

\* A listening thread goes on with what it holds, if it holds anything.
LEMMA ListenerGoesOn ==
  ASSUME ServerInv, NEW l \in Channels, accepted' = accepted,
         accepted[l] = NoConnection \/ listener'[l] \in {"check", "dispatch"},
         \A k \in Channels \ {l} : listener'[k] = listener[k],
         connection' = connection \/ \E c \in Sessions :
            connection[c] = "queued" /\ connection' = [connection EXCEPT ![c] = "refused"],
         UNCHANGED sm_vars, UNCHANGED <<fd_table, comm_fd>>, UNCHANGED <<thread, session, main>>
  PROVE  Ownership'
<1>1. thread' = thread /\ UNCHANGED <<session, main>>
  OBVIOUS
<1>2. \A d \in Sessions : \/ connection'[d] = connection[d]
                          \/ connection[d] = "queued" /\ connection'[d] = "refused"
  BY SessionFacts
<1>3. ASSUME NEW k \in Channels, accepted'[k] # NoConnection
      PROVE  /\ listener'[k] \in {"check", "dispatch"}
             /\ connection'[accepted'[k]] = "held" /\ ChannelOf[accepted'[k]] = k
  BY <1>2, <1>3, SessionFacts DEF ServerInv, HandOverInv
<1>4. \A d \in Sessions : connection'[d] = "handed" <=> thread'[d] # "none"
  BY <1>1, <1>2 DEF ServerInv, HandOverInv
<1>5. HandOverInv'
  BY <1>3, <1>4, Zenon DEF HandOverInv
<1>6. \A d \in Connections : InTransit(d)' \/ connection'[d] = "dropped"
                               <=> InTransit(d) \/ connection[d] = "dropped"
  BY <1>1, <1>2, SessionFacts DEF InTransit
<1>7. \A d \in Sessions : thread'[d] = thread[d]
  BY <1>1
<1> QED
  BY <1>1, <1>5, <1>6, <1>7, SameHands, SameSessions DEF Ownership

\* accept: the lowest free descriptor goes to a connection that has none.
LEMMA AcceptStep ==
  ASSUME ServerInv, NEW l \in Channels, NEW c \in Connections, Accept(l, c),
         UNCHANGED <<sm_vars, thread_vars, main_vars>>
  PROVE  Ownership'
<1>1. PICK fd \in Descriptors :
         /\ fd_table[fd] = NoConnection
         /\ fd_table' = [fd_table EXCEPT ![fd] = c] /\ comm_fd' = [comm_fd EXCEPT ![c] = fd]
  BY DEF Accept, LowestFree
<1>2. /\ listener[l] = "accept" /\ listener' = [listener EXCEPT ![l] = "check"]
      /\ connection[c] = "queued" /\ ChannelOf[c] = l
      /\ connection' = [connection EXCEPT ![c] = "held"]
      /\ accepted' = [accepted EXCEPT ![l] = c]
      /\ thread' = thread /\ UNCHANGED <<session, main>> /\ UNCHANGED sm_vars
  BY DEF Accept, Step, thread_vars, main_vars
<1>3. c \in Sessions /\ c # NoConnection
  BY SessionFacts
<1>4. /\ \A d \in Sessions : connection'[d] = IF d = c THEN "held" ELSE connection[d]
      /\ \A k \in Channels : accepted'[k] = IF k = l THEN c ELSE accepted[k]
      /\ \A k \in Channels : listener'[k] = IF k = l THEN "check" ELSE listener[k]
      /\ \A f \in Descriptors : fd_table'[f] = IF f = fd THEN c ELSE fd_table[f]
      /\ \A d \in Sessions : comm_fd'[d] = IF d = c THEN fd ELSE comm_fd[d]
  BY <1>1, <1>2, <1>3, SessionFacts
<1>5. ASSUME NEW k \in Channels, accepted'[k] # NoConnection
      PROVE  /\ listener'[k] \in {"check", "dispatch"}
             /\ connection'[accepted'[k]] = "held" /\ ChannelOf[accepted'[k]] = k
  <2>1. CASE k = l
    BY <1>2, <1>3, <1>4, <2>1
  <2>2. CASE k # l
    BY <1>2, <1>4, <1>5, <2>2, SessionFacts DEF ServerInv, HandOverInv
  <2> QED
    BY <2>1, <2>2
<1>6. HandOverInv'
  <2>1. \A d \in Sessions : connection'[d] = "handed" <=> thread'[d] # "none"
    BY <1>2, <1>4 DEF ServerInv, HandOverInv
  <2> QED
    BY <1>5, <2>1, Zenon DEF HandOverInv
<1>7. ~Open(c)
  <2>1. thread[c] = "none"
    BY <1>2, <1>3 DEF ServerInv, HandOverInv
  <2>2. call[c] = "new"
    BY <1>3, <2>1 DEF ServerInv, CallsInv, CallsOf
  <2>3. c \notin Range(session_pool)
    BY <2>2, InPool DEF ServerInv, ObjectsInv
  <2> QED
    BY <1>2, <2>3 DEF Open, InTransit
<1>8. Open(c)'
  BY <1>3, <1>4 DEF Open, InTransit
<1>9. ASSUME NEW d \in Connections, d # c PROVE Open(d)' <=> Open(d)
  <2>1. InTransit(d)' \/ connection'[d] = "dropped" <=> InTransit(d) \/ connection[d] = "dropped"
    BY <1>2, <1>4, <1>9, SessionFacts DEF InTransit
  <2>2. BeingClosed(d)' <=> BeingClosed(d)
    BY <1>2, PoolUntouched
  <2>3. Range(session_pool)' = Range(session_pool)
    BY <1>2, PoolUntouched
  <2> QED
    BY <2>1, <2>2, <2>3, Zenon DEF Open
<1>10. DescriptorsInv'
  <2> SUFFICES ASSUME NEW d \in Connections
               PROVE  /\ Open(d)' => comm_fd'[d] \in Descriptors
                      /\ \A f \in Descriptors : fd_table'[f] = d <=> Open(d)' /\ comm_fd'[d] = f
    BY DEF DescriptorsInv
  <2>1. d \in Sessions
    BY SessionFacts
  <2>2. /\ Open(d) => comm_fd[d] \in Descriptors
        /\ \A f \in Descriptors : fd_table[f] = d <=> Open(d) /\ comm_fd[d] = f
    BY DEF ServerInv, DescriptorsInv
  <2>3. CASE d = c
    BY <1>4, <1>7, <1>8, <2>1, <2>2, <2>3
  <2>4. CASE d # c
    <3>1. Open(d)' <=> Open(d)
      BY <1>9, <2>4
    <3>2. comm_fd'[d] = comm_fd[d] /\ d # NoConnection
      BY <1>4, <2>1, <2>4, SessionFacts
    <3>3. \A f \in Descriptors : fd_table'[f] = d <=> fd_table[f] = d
      BY <1>1, <1>4, <2>4, <3>2
    <3> QED
      BY <2>2, <3>1, <3>2, <3>3, Zenon
  <2> QED
    BY <2>3, <2>4
<1>11. \A d \in Sessions : thread'[d] = thread[d]
  BY <1>2
<1> QED
  BY <1>2, <1>6, <1>10, <1>11, SameSessions, PoolUntouched DEF Ownership, ServerInv

LEMMA ListenStep ==
  ASSUME ServerInv, NEW l \in Channels, Listen(l) \/ ListenInterrupted(l) \/ Spawn(l)
  PROVE  Ownership'
<1>1. /\ UNCHANGED sm_vars /\ UNCHANGED <<session, main>>
      /\ Listen(l) \/ ListenInterrupted(l) =>
           UNCHANGED <<sm_vars, thread_vars, main_vars>> /\ thread' = thread
  BY DEF Listen, ListenInterrupted, Spawn, thread_vars, main_vars
<1>2. accepted[l] # NoConnection => listener[l] \in {"check", "dispatch"}
  BY DEF ServerInv, HandOverInv
<1>3. /\ DOMAIN accepted = Channels /\ DOMAIN listener = Channels /\ Sessions = Connections
      /\ accepted \in [Channels -> Connections \cup {NoConnection}]
  BY SessionFacts DEF ServerInv, TypeOK
<1>4. CASE Spawn(l)
  <2>1. /\ accepted[l] # NoConnection
        /\ connection' = [connection EXCEPT ![accepted[l]] = "handed"]
        /\ accepted' = [accepted EXCEPT ![l] = NoConnection]
        /\ thread' = [thread EXCEPT ![accepted[l]] = "enter"]
        /\ \A k \in Channels \ {l} : listener'[k] = listener[k]
        /\ UNCHANGED <<fd_table, comm_fd>>
    BY <1>3, <1>4 DEF Spawn, DispatchSpawn, Step
  <2> QED
    BY <1>1, <2>1, GivesUp
<1>5. CASE Listen(l) /\ (Begin(l) \/ LoopHead(l) \/ DispatchNone(l))
  <2>1. /\ accepted[l] = NoConnection /\ accepted' = accepted /\ connection' = connection
        /\ \A k \in Channels \ {l} : listener'[k] = listener[k]
        /\ UNCHANGED <<fd_table, comm_fd>>
    BY <1>2, <1>3, <1>5 DEF Begin, LoopHead, DispatchNone, Step
  <2> QED
    BY <1>1, <1>5, <2>1, ListenerGoesOn
<1>6. ASSUME Listen(l), NEW c \in Connections, Accept(l, c) PROVE Ownership'
  BY <1>1, <1>6, AcceptStep
<1>7. ASSUME Listen(l), NEW c \in Connections, AcceptRefused(l, c) PROVE Ownership'
  <2>1. /\ accepted[l] = NoConnection /\ accepted' = [accepted EXCEPT ![l] = NoConnection]
        /\ connection[c] = "queued" /\ connection' = [connection EXCEPT ![c] = "refused"]
        /\ \A k \in Channels \ {l} : listener'[k] = listener[k]
        /\ UNCHANGED <<fd_table, comm_fd>> /\ c \in Sessions
    BY <1>2, <1>3, <1>7 DEF AcceptRefused, Step
  <2>2. accepted' = accepted
    BY <1>3, <2>1
  <2> QED
    BY <1>1, <1>7, <2>1, <2>2, ListenerGoesOn
<1>8. CASE (Listen(l) /\ AcceptFails(l)) \/ ListenInterrupted(l)
  <2>1. /\ accepted[l] = NoConnection /\ accepted' = [accepted EXCEPT ![l] = NoConnection]
        /\ connection' = connection
        /\ \A k \in Channels \ {l} : listener'[k] = listener[k]
        /\ UNCHANGED <<fd_table, comm_fd>>
    BY <1>2, <1>3, <1>8 DEF AcceptFails, ListenInterrupted, AcceptInterrupted, Step
  <2>2. accepted' = accepted
    BY <1>3, <2>1
  <2> QED
    BY <1>1, <1>8, <2>1, <2>2, ListenerGoesOn
<1>9. CASE Listen(l) /\ CheckExit(l)
  <2>1. /\ \A k \in Channels \ {l} : listener'[k] = listener[k]
        /\ UNCHANGED <<fd_table, comm_fd>>
    BY <1>3, <1>9 DEF CheckExit, Step
  <2>2. CASE exit_comm /\ accepted[l] # NoConnection
    <3>1. /\ connection' = [connection EXCEPT ![accepted[l]] = "dropped"]
          /\ accepted' = [accepted EXCEPT ![l] = NoConnection]
      BY <1>9, <2>2 DEF CheckExit
    <3> QED
      BY <1>1, <1>9, <2>1, <2>2, <3>1, GivesUp
  <2>3. CASE exit_comm /\ accepted[l] = NoConnection
    <3>1. connection' = connection /\ accepted' = accepted
      BY <1>3, <1>9, <2>3 DEF CheckExit
    <3> QED
      BY <1>1, <1>9, <2>1, <2>3, <3>1, ListenerGoesOn
  <2>4. CASE ~exit_comm
    <3>1. connection' = connection /\ accepted' = accepted /\ listener'[l] = "dispatch"
      BY <1>3, <1>9, <2>4 DEF CheckExit, Step
    <3> QED
      BY <1>1, <1>9, <2>1, <3>1, ListenerGoesOn
  <2> QED
    BY <2>2, <2>3, <2>4
<1>10. CASE Listen(l) /\ DispatchMax(l)
  <2>1. /\ accepted[l] # NoConnection
        /\ connection' = [connection EXCEPT ![accepted[l]] = "dropped"]
        /\ accepted' = [accepted EXCEPT ![l] = NoConnection]
        /\ \A k \in Channels \ {l} : listener'[k] = listener[k]
        /\ UNCHANGED <<fd_table, comm_fd>>
    BY <1>3, <1>10 DEF DispatchMax, Step
  <2> QED
    BY <1>1, <1>10, <2>1, GivesUp
<1> QED
  BY <1>4, <1>5, <1>6, <1>7, <1>8, <1>9, <1>10 DEF Listen

-----------------------------------------------------------------------------
(* Steps of a session thread outside create_session and delete_session. *)

\* The descriptors and the hand over do not depend on where a thread is past
\* its start.
LEMMA ThreadHands ==
  ASSUME ServerInv, NEW c \in Sessions, thread[c] # "none",
         NEW to, to # "none", thread' = [thread EXCEPT ![c] = to],
         UNCHANGED <<connection, listener, accepted>>
  PROVE  /\ HandOverInv'
         /\ \A d \in Sessions : thread'[d] = IF d = c THEN to ELSE thread[d]
         /\ \A d \in Sessions \ {c} : InTransit(d)' <=> InTransit(d)
         /\ InTransit(c)' <=> to \in {"enter", "create"}
         /\ InTransit(c) <=> thread[c] \in {"enter", "create"}
         /\ connection[c] = "handed" /\ connection' = connection
<1>1. connection' = connection /\ listener' = listener /\ accepted' = accepted
  OBVIOUS
<1>2. \A d \in Sessions : thread'[d] = IF d = c THEN to ELSE thread[d]
  BY SessionFacts
<1>3. HandOverInv'
  BY <1>1, <1>2 DEF ServerInv, HandOverInv
<1>4. connection[c] = "handed"
  BY DEF ServerInv, HandOverInv
<1> QED
  BY <1>1, <1>2, <1>3, <1>4 DEF InTransit

LEMMA QuietThread ==
  ASSUME ServerInv, NEW c \in Sessions, NEW to \in ThreadStates \ {"none"}, thread[c] # "none",
         thread' = [thread EXCEPT ![c] = to],
         thread[c] \in {"enter", "create"} <=> to \in {"enter", "create"},
         call[c] \in CallsOf(to),
         \A d \in Sessions \ {c} : session'[d] = session[d],
         Serving => (HasSession(c)' => HasSession(c)) /\ (Running(c)' => session'[c] = c),
         UNCHANGED sm_vars, UNCHANGED <<connection, listener, accepted>>,
         UNCHANGED <<fd_table, comm_fd>>, main' = main
  PROVE  Ownership'
<1>1. /\ HandOverInv' /\ connection' = connection
      /\ \A d \in Sessions : thread'[d] = IF d = c THEN to ELSE thread[d]
      /\ \A d \in Sessions \ {c} : InTransit(d)' <=> InTransit(d)
      /\ InTransit(c)' <=> InTransit(c)
  BY ThreadHands, ZenonT(60)
<1>2. \A d \in Connections : InTransit(d)' \/ connection'[d] = "dropped"
                               <=> InTransit(d) \/ connection[d] = "dropped"
  BY <1>1, SessionFacts
<1>3. DescriptorsInv' /\ ObjectsInv'
  BY <1>2, SameHands
<1>4. session_pool' = session_pool /\ call' = call /\ call_id' = call_id
  BY DEF sm_vars
<1>5. CallsInv'
  BY <1>1, <1>4 DEF CallsInv, ServerInv
<1>6. ASSUME NEW d \in Sessions, d # c
      PROVE  (HasSession(d)' <=> HasSession(d)) /\ (Running(d)' <=> Running(d))
  BY <1>1, <1>4, <1>6 DEF HasSession, Running
<1>7. OwnSessionInv'
  <2> SUFFICES ASSUME Serving, NEW d \in Sessions
               PROVE  /\ HasSession(d)' => call_id[d] \in DOMAIN session_pool /\ session_pool[call_id[d]] = d
                      /\ Running(d)' => session'[d] = d
    BY <1>4 DEF OwnSessionInv, Serving
  <2>1. /\ HasSession(d) => call_id[d] \in DOMAIN session_pool /\ session_pool[call_id[d]] = d
        /\ Running(d) => session[d] = d
    BY DEF ServerInv, OwnSessionInv
  <2>2. CASE d = c
    BY <2>1, <2>2, Zenon
  <2>3. CASE d # c
    BY <1>6, <2>1, <2>3
  <2> QED
    BY <2>2, <2>3
<1> QED
  BY <1>1, <1>3, <1>5, <1>7 DEF Ownership

\* A step of no thread of the server and of no channel.
LEMMA ProcessStep ==
  ASSUME ServerInv, UNCHANGED sm_vars, UNCHANGED <<thread, session>>,
         UNCHANGED <<connection, accepted, fd_table, comm_fd>>,
         \A l \in Channels : listener'[l] = listener[l] \/ listener[l] = "off",
         Serving' => Serving, main # "deleting" \/ main' = "deleting" \/ call[Main] = "idle"
  PROVE  Ownership'
<1>1. /\ session_pool' = session_pool /\ call' = call /\ call_id' = call_id
      /\ thread' = thread /\ session' = session /\ connection' = connection /\ accepted' = accepted
  BY DEF sm_vars
<1>2. HandOverInv'
  <2>1. ASSUME NEW l \in Channels, accepted'[l] # NoConnection
        PROVE  /\ listener'[l] \in {"check", "dispatch"}
               /\ connection'[accepted'[l]] = "held" /\ ChannelOf[accepted'[l]] = l
    BY <1>1, <2>1 DEF ServerInv, HandOverInv
  <2>2. \A c \in Sessions : connection'[c] = "handed" <=> thread'[c] # "none"
    BY <1>1 DEF ServerInv, HandOverInv
  <2> QED
    BY <2>1, <2>2, Zenon DEF HandOverInv
<1>3. \A d \in Connections : InTransit(d)' \/ connection'[d] = "dropped"
                               <=> InTransit(d) \/ connection[d] = "dropped"
  BY <1>1 DEF InTransit
<1>4. CallsInv'
  BY <1>1 DEF ServerInv, CallsInv
<1>5. OwnSessionInv'
  <2>2. \A c : (HasSession(c)' <=> HasSession(c)) /\ (Running(c)' <=> Running(c))
    BY <1>1 DEF HasSession, Running
  <2> QED
    BY <1>1, <2>2, Zenon DEF ServerInv, OwnSessionInv
<1> QED
  BY <1>2, <1>3, <1>4, <1>5, SameHands DEF Ownership

\* A step that leaves the pool, the threads and the channels alone.
LEMMA NothingMoves ==
  ASSUME ServerInv, UNCHANGED <<sm_vars, lc_vars, thread, session>>,
         Serving' => Serving, main # "deleting" \/ main' = "deleting" \/ call[Main] = "idle"
  PROVE  Ownership'
<1>1. /\ session_pool' = session_pool /\ call' = call /\ call_id' = call_id /\ thread' = thread
      /\ session' = session /\ UNCHANGED sm_vars /\ UNCHANGED <<fd_table, comm_fd>>
      /\ connection' = connection /\ accepted' = accepted /\ listener' = listener
  BY DEF sm_vars, lc_vars
<1> QED
  BY <1>1, ProcessStep

LEMMA ThreadStep ==
  ASSUME ServerInv, NEW c \in Sessions, SessionThread(c), UNCHANGED sm_vars
  PROVE  Ownership'
<1> USE DEF Move
<1>1. CASE GetSessionThrows(c) \/ ExecuteThrows(c)
  BY <1>1, NothingMoves DEF GetSessionThrows, ExecuteThrows, thread_vars, Serving
<1>2. CASE Enter(c)
  <2>1. /\ thread[c] = "enter" /\ thread' = [thread EXCEPT ![c] = "create"]
        /\ UNCHANGED <<connection, listener, accepted>> /\ UNCHANGED <<fd_table, comm_fd>>
        /\ session' = session /\ main' = main
    BY <1>2 DEF Enter, ThreadEnters, main_vars
  <2>2. thread'[c] = "create" /\ call[c] = "new"
    BY <2>1, SessionFacts DEF ServerInv, CallsInv, CallsOf
  <2>3. call[c] \in CallsOf("create") /\ ~HasSession(c)' /\ ~Running(c)'
    BY <2>2 DEF CallsOf, HasSession, Running
  <2> QED
    BY <2>1, <2>3, QuietThread DEF ThreadStates
<1>9. CASE GetSessionFaults(c) \/ ExecuteFaults(c)
  <2>1. /\ thread[c] \in {"get", "exec"} /\ thread' = [thread EXCEPT ![c] = "crashed"]
        /\ UNCHANGED <<connection, listener, accepted>> /\ UNCHANGED <<fd_table, comm_fd>>
        /\ session' = [session EXCEPT ![c] = NoConnection] /\ main' = main
    BY <1>9 DEF GetSessionFaults, ExecuteFaults, Fault, lc_vars, main_vars
  <2>2. thread'[c] = "crashed" /\ call[c] = "idle"
    BY <2>1, SessionFacts DEF ServerInv, CallsInv, CallsOf
  <2>3. call[c] \in CallsOf("crashed") /\ ~HasSession(c)' /\ ~Running(c)'
    BY <2>2 DEF CallsOf, HasSession, Running
  <2>4. \A d \in Sessions \ {c} : session'[d] = session[d]
    BY <2>1, SessionFacts
  <2> QED
    BY <2>1, <2>3, <2>4, QuietThread DEF ThreadStates
<1>3. CASE GetSession(c)
  <2>1. /\ thread[c] = "get" /\ thread' = [thread EXCEPT ![c] = "init"]
        /\ UNCHANGED <<connection, listener, accepted>> /\ UNCHANGED <<fd_table, comm_fd>>
        /\ session' = [session EXCEPT ![c] = session_pool[call_id[c]]] /\ main' = main
    BY <1>3 DEF GetSession, lc_vars, main_vars
  <2>2. call[c] \in CallsOf("init") /\ HasSession(c)
    BY <2>1 DEF ServerInv, CallsInv, CallsOf, HasSession
  <2>3. Serving => session'[c] = c
    BY <2>1, <2>2, SessionFacts DEF ServerInv, OwnSessionInv
  <2>4. \A d \in Sessions \ {c} : session'[d] = session[d]
    BY <2>1, SessionFacts
  <2> QED
    BY <2>1, <2>2, <2>3, <2>4, QuietThread DEF ThreadStates
<1>4. CASE InitSession(c) \/ RunLoop(c) \/ ReadCommand(c) \/ ReadEnds(c) \/ Execute(c)
  <2>1. PICK to \in {"loop", "read", "exec", "delete", "crashed"} :
          thread' = [thread EXCEPT ![c] = to]
    BY <1>4 DEF InitSession, RunLoop, ReadCommand, ReadEnds, Execute
  <2>2. /\ Running(c) /\ session' = session /\ main' = main
        /\ UNCHANGED <<connection, listener, accepted>> /\ UNCHANGED <<fd_table, comm_fd>>
    BY <1>4 DEF InitSession, RunLoop, ReadCommand, ReadEnds, Execute, lc_vars, main_vars, Running
  <2>3. call[c] \in CallsOf(to) /\ HasSession(c)
    BY <2>2 DEF ServerInv, CallsInv, CallsOf, HasSession, Running
  <2>4. Serving => session'[c] = c
    BY <2>2 DEF ServerInv, OwnSessionInv
  <2>5. /\ thread[c] # "none" /\ thread[c] \notin {"enter", "create"} /\ to \notin {"enter", "create"}
        /\ to \in ThreadStates \ {"none"}
    BY <2>2 DEF Running, ThreadStates
  <2> QED
    BY <2>1, <2>2, <2>3, <2>4, <2>5, QuietThread
<1>5. CASE Leave(c)
  <2>1. /\ thread[c] = "leave" /\ thread' = [thread EXCEPT ![c] = "done"]
        /\ UNCHANGED <<connection, listener, accepted>> /\ UNCHANGED <<fd_table, comm_fd>>
        /\ session' = [session EXCEPT ![c] = NoConnection] /\ main' = main
    BY <1>5 DEF Leave, ThreadLeaves, main_vars
  <2>2. thread'[c] = "done" /\ call[c] \in CallsOf("done")
    BY <2>1, SessionFacts DEF ServerInv, CallsInv, CallsOf
  <2>3. ~HasSession(c)' /\ ~Running(c)'
    BY <2>2 DEF HasSession, Running
  <2>4. \A d \in Sessions \ {c} : session'[d] = session[d]
    BY <2>1, SessionFacts
  <2> QED
    BY <2>1, <2>2, <2>3, <2>4, QuietThread DEF ThreadStates
<1>6. ASSUME Delete(c), DeleteNotAllocated(c, call_id[c]) PROVE Ownership'
  <2>1. call[c] = "idle" /\ thread[c] = "delete" /\ call' = call
    BY <1>6 DEF Delete, DeleteNotAllocated, sm_vars
  <2>2. /\ thread' = [thread EXCEPT ![c] = "leave"]
        /\ UNCHANGED <<connection, listener, accepted>> /\ UNCHANGED <<fd_table, comm_fd>>
        /\ session' = session /\ main' = main
    <3>1. ~ DeleteLookup(c, call_id[c]) /\ ~DeleteErase(c) /\ ~DeletePush(c)
      BY <1>6, <2>1, SessionFacts DEF DeleteLookup, DeleteErase, DeletePush, Goto
    <3> QED
      BY <1>6, <2>1, <3>1 DEF Delete, lc_vars, main_vars
  <2>3. thread'[c] = "leave" /\ call[c] \in CallsOf("leave")
    BY <2>1, <2>2, SessionFacts DEF CallsOf
  <2>4. ~HasSession(c)' /\ ~Running(c)'
    BY <2>3 DEF HasSession, Running
  <2> QED
    BY <2>1, <2>2, <2>3, <2>4, QuietThread DEF ThreadStates
<1>7. ~Create(c)
  <2>1. call' = call
    BY DEF sm_vars
  <2> QED
    BY <2>1, SessionFacts DEF Create, CreateChooseId, CreateInsert, CreateCount, Goto
<1>8. CASE Delete(c)
  <2>1. call' = call
    BY DEF sm_vars
  <2>2. DeleteNotAllocated(c, call_id[c])
    BY <1>8, <2>1, SessionFacts DEF Delete, DeleteLookup, DeleteErase, DeletePush, DeleteCount, Goto
  <2> QED
    BY <1>6, <1>8, <2>2
<1> QED
  BY <1>1, <1>2, <1>3, <1>4, <1>5, <1>7, <1>8, <1>9 DEF SessionThread

-----------------------------------------------------------------------------
(* Steps inside create_session and delete_session, by the owner of the      *)
(* mutex.                                                                   *)

LEMMA NotClosing ==
  ASSUME ServerInv, NEW t \in Callers, mutex \in {t, NoThread}, call[t] # "erase"
  PROVE  \A c : ~BeingClosed(c)
<1> SUFFICES ASSUME NEW c, BeingClosed(c) PROVE FALSE
  OBVIOUS
<1> QED
  BY ClosedByOwner, SessionFacts

LEMMA NotClosingAfter ==
  ASSUME ServerInv, NEW t \in Callers, mutex \in {t, NoThread},
         NEW to, to # "erase", call' = [call EXCEPT ![t] = to]
  PROVE  \A c : ~BeingClosed(c)'
<1> SUFFICES ASSUME NEW c, NEW u \in Callers, call'[u] = "erase" PROVE FALSE
  BY DEF BeingClosed
<1>1. u # t /\ call[u] = "erase"
  BY SessionFacts
<1>2. mutex = u /\ u # NoThread
  BY <1>1, SessionFacts DEF ServerInv, SMInv, OnlyOwnerIsCalling
<1> QED
  BY <1>1, <1>2

\* t moves to a point `to` of its call, and nobody else moves.
CallStep(t, to) ==
    /\ mutex \in {t, NoThread}
    /\ call' = [call EXCEPT ![t] = to]
    /\ \A u \in Callers \ {t} : call_id'[u] = call_id[u]
    /\ \A d \in Sessions \ {t} : thread'[d] = thread[d]
    /\ t \in Sessions => /\ thread[t] \in {"create", "delete"} /\ thread'[t] # "none"
                         /\ to \in CallsOf(thread'[t])
    /\ t \notin Sessions => main = "deleting"
    /\ session' = session /\ main' = main
    /\ connection' = connection /\ listener' = listener /\ accepted' = accepted
    /\ comm_fd' = comm_fd

LEMMA CallStepHands ==
  ASSUME ServerInv, NEW t \in Callers, NEW to, CallStep(t, to)
  PROVE  /\ HandOverInv' /\ CallsInv'
         /\ \A d \in Sessions \ {t} : InTransit(d)' <=> InTransit(d)
<1>1. /\ connection' = connection /\ listener' = listener /\ accepted' = accepted /\ main' = main
      /\ \A d \in Sessions \ {t} : thread'[d] = thread[d]
      /\ t \in Sessions => /\ thread[t] # "none" /\ thread'[t] # "none"
                           /\ to \in CallsOf(thread'[t])
      /\ t \notin Sessions => main = "deleting"
  BY DEF CallStep
<1>2. \A u \in Callers : call'[u] = IF u = t THEN to ELSE call[u]
  BY SessionFacts DEF CallStep
<1>3. HandOverInv'
  <2>1. \A d \in Sessions : connection'[d] = "handed" <=> thread'[d] # "none"
    BY <1>1 DEF ServerInv, HandOverInv
  <2> QED
    BY <1>1, <2>1, Zenon DEF ServerInv, HandOverInv
<1>4. CallsInv'
  <2>1. \A d \in Sessions : call'[d] \in CallsOf(thread'[d])
    BY <1>1, <1>2, SessionFacts DEF ServerInv, CallsInv
  <2>2. main' # "deleting" => call'[Main] = "idle"
    BY <1>1, <1>2, SessionFacts DEF ServerInv, CallsInv
  <2> QED
    BY <2>1, <2>2 DEF CallsInv
<1> QED
  BY <1>1, <1>3, <1>4 DEF InTransit

\* The sessions of the other threads, when their entries stay.
LEMMA CallStepSessions ==
  ASSUME ServerInv, NEW t \in Callers, NEW to, CallStep(t, to),
         Serving => \A d \in Sessions \ {t} : HasSession(d) =>
                       /\ call_id[d] \in DOMAIN session_pool'
                       /\ session_pool'[call_id[d]] = session_pool[call_id[d]],
         Serving /\ t \in Sessions =>
            /\ ~Running(t)'
            /\ HasSession(t)' => /\ call_id'[t] \in DOMAIN session_pool'
                                 /\ session_pool'[call_id'[t]] = t
  PROVE  OwnSessionInv'
<1>1. main' = main /\ session' = session
  BY DEF CallStep
<1> SUFFICES ASSUME Serving, NEW d \in Sessions
             PROVE  /\ HasSession(d)' => /\ call_id'[d] \in DOMAIN session_pool'
                                         /\ session_pool'[call_id'[d]] = d
                    /\ Running(d)' => session'[d] = d
  BY <1>1 DEF OwnSessionInv, Serving
<1>2. CASE d = t
  BY <1>2, Zenon
<1>3. CASE d # t
  <2>1. thread'[d] = thread[d] /\ call'[d] = call[d] /\ call_id'[d] = call_id[d]
    BY <1>3, SessionFacts DEF CallStep
  <2>2. (HasSession(d)' <=> HasSession(d)) /\ (Running(d)' <=> Running(d))
    BY <2>1 DEF HasSession, Running
  <2>3. /\ HasSession(d) => call_id[d] \in DOMAIN session_pool /\ session_pool[call_id[d]] = d
        /\ Running(d) => session[d] = d
    BY DEF ServerInv, OwnSessionInv
  <2> QED
    BY <1>1, <1>3, <2>1, <2>2, <2>3
<1> QED
  BY <1>2, <1>3

\* A step that neither changes the pool nor starts or ends a close.
LEMMA PoolKept ==
  ASSUME ServerInv, NEW t \in Callers, NEW to, CallStep(t, to),
         session_pool' = session_pool, fd_table' = fd_table,
         call[t] # "erase", to \notin {"erase", "count_up"},
         to \in {"new", "insert"} => call[t] \in {"new", "insert"},
         t \in Sessions => (InTransit(t)' \/ t \in Range(session_pool)
                              <=> InTransit(t) \/ t \in Range(session_pool)),
         Serving /\ t \in Sessions =>
            /\ ~Running(t)'
            /\ HasSession(t)' => /\ call_id'[t] \in DOMAIN session_pool
                                 /\ session_pool[call_id'[t]] = t
  PROVE  Ownership'
<1>1. HandOverInv' /\ CallsInv' /\ \A d \in Sessions \ {t} : InTransit(d)' <=> InTransit(d)
  BY CallStepHands
<1>2. OwnSessionInv'
  BY CallStepSessions DEF ServerInv, OwnSessionInv
<1>3. \A c : ~BeingClosed(c) /\ ~BeingClosed(c)'
  BY NotClosing, NotClosingAfter DEF CallStep
<1>4. \A u \in Callers : call'[u] = IF u = t THEN to ELSE call[u]
  BY SessionFacts DEF CallStep
<1>5. \A u \in Callers \ {t} : call_id'[u] = call_id[u]
  BY DEF CallStep
<1>6. ObjectsInv'
  <2>1. \A id \in DOMAIN session_pool : call'[session_pool[id]] \notin {"new", "insert"}
    BY <1>4, SessionFacts DEF ServerInv, ObjectsInv
  <2>2. \A c \in Sessions : call'[c] = "count_up" =>
           call_id'[c] \in DOMAIN session_pool /\ session_pool[call_id'[c]] = c
    BY <1>4, <1>5, SessionFacts DEF ServerInv, ObjectsInv
  <2> QED
    BY <2>1, <2>2, Zenon DEF ServerInv, ObjectsInv
<1>7. connection' = connection /\ comm_fd' = comm_fd
  BY DEF CallStep
<1>8. Range(session_pool)' = Range(session_pool)
  BY DEF Range
<1>9. ASSUME NEW d \in Connections PROVE Open(d)' <=> Open(d)
  <2>1. d \in Sessions
    BY SessionFacts
  <2>2. InTransit(d)' \/ d \in Range(session_pool) <=> InTransit(d) \/ d \in Range(session_pool)
    BY <1>1, <2>1
  <2> QED
    BY <1>3, <1>7, <1>8, <2>2, Zenon DEF Open
<1> QED
  BY <1>1, <1>2, <1>6, <1>7, <1>9, SameOpen DEF Ownership, ServerInv

\* delete_session finds the session and closes its descriptor.
LEMMA CloseStep ==
  ASSUME ServerInv, NEW t \in Callers, NEW id \in DOMAIN session_pool, DeleteLookup(t, id),
         Close(comm_fd[session_pool[id]]), CallStep(t, "erase"),
         t \in Sessions => thread[t] = "delete" /\ thread' = thread /\ id = call_id[t]
  PROVE  Ownership'
<1>1. PICK c : c = session_pool[id]
  OBVIOUS
<1>2. PICK fd : fd = comm_fd[c]
  OBVIOUS
<1>3. /\ call[t] = "idle" /\ mutex = NoThread /\ session_pool' = session_pool
      /\ call_id' = [call_id EXCEPT ![t] = id]
      /\ fd_table' = [fd_table EXCEPT ![fd] = NoConnection]
      /\ connection' = connection /\ comm_fd' = comm_fd
  BY <1>1, <1>2 DEF DeleteLookup, Goto, Acquire, Close
<1>4. /\ \A u \in Callers : call'[u] = IF u = t THEN "erase" ELSE call[u]
      /\ \A u \in Callers : call_id'[u] = IF u = t THEN id ELSE call_id[u]
      /\ c \in Sessions /\ c \in Connections /\ c \in Callers
  BY <1>1, <1>3, SessionFacts DEF CallStep
<1>5. HandOverInv' /\ CallsInv' /\ \A d \in Sessions \ {t} : InTransit(d)' <=> InTransit(d)
  BY CallStepHands
<1>6. \A d \in Sessions : InTransit(d)' <=> InTransit(d)
  <2>1. t \in Sessions => (InTransit(t)' <=> InTransit(t))
    BY <1>3 DEF InTransit
  <2> QED
    BY <1>5, <2>1
<1>7. ~InTransit(c) /\ connection[c] # "dropped"
  <2>1. call[c] \notin {"new", "insert"}
    BY <1>1 DEF ServerInv, ObjectsInv
  <2>2. call[c] # "count_up"
    BY <1>3, <1>4, SessionFacts DEF ServerInv, SMInv, OnlyOwnerIsCalling
  <2>3. thread[c] \notin {"none", "enter", "create"}
    BY <1>4, <2>1, <2>2 DEF ServerInv, CallsInv, CallsOf
  <2>4. connection[c] = "handed"
    BY <1>4, <2>3 DEF ServerInv, HandOverInv
  <2> QED
    BY <2>3, <2>4 DEF InTransit
<1>8. \A d : ~BeingClosed(d)
  BY <1>3, NotClosing
<1>9. \A d : BeingClosed(d)' <=> d = c
  <2>1. BeingClosed(c)'
    BY <1>1, <1>3, <1>4 DEF BeingClosed
  <2>2. ASSUME NEW d, NEW u \in Callers, call'[u] = "erase", session_pool'[call_id'[u]] = d
        PROVE  d = c
    <3>1. u = t
      BY <1>3, <1>4, <2>2, SessionFacts DEF ServerInv, SMInv, OnlyOwnerIsCalling
    <3> QED
      BY <1>1, <1>3, <1>4, <2>2, <3>1
  <2> QED
    BY <2>1, <2>2 DEF BeingClosed
<1>10. Range(session_pool)' = Range(session_pool)
  BY <1>3 DEF Range
<1>11. c \in Range(session_pool)
  BY <1>1, InPool
<1>12. Open(c) /\ ~Open(c)'
  BY <1>3, <1>4, <1>6, <1>7, <1>8, <1>9, <1>11 DEF Open
<1>13. ASSUME NEW d \in Connections, d # c PROVE Open(d)' <=> Open(d)
  <2>1. InTransit(d)' <=> InTransit(d)
    BY <1>6, SessionFacts
  <2> QED
    BY <1>3, <1>8, <1>9, <1>10, <1>13, <2>1, Zenon DEF Open
<1>14. fd \in Descriptors /\ fd_table[fd] = c
       /\ \A f \in Descriptors : fd_table[f] = c => f = fd
  BY <1>2, <1>4, <1>12 DEF ServerInv, DescriptorsInv
<1>15. \A f \in Descriptors : fd_table'[f] = IF f = fd THEN NoConnection ELSE fd_table[f]
  BY <1>3, SessionFacts
<1>16. DescriptorsInv'
  <2> SUFFICES ASSUME NEW d \in Connections
               PROVE  /\ Open(d)' => comm_fd'[d] \in Descriptors
                      /\ \A f \in Descriptors : fd_table'[f] = d <=> Open(d)' /\ comm_fd'[d] = f
    BY DEF DescriptorsInv
  <2>1. d # NoConnection
    BY SessionFacts
  <2>2. /\ Open(d) => comm_fd[d] \in Descriptors
        /\ \A f \in Descriptors : fd_table[f] = d <=> Open(d) /\ comm_fd[d] = f
    BY DEF ServerInv, DescriptorsInv
  <2>3. CASE d = c
    <3>1. \A f \in Descriptors : fd_table'[f] # d
      BY <1>14, <1>15, <2>1, <2>3
    <3> QED
      BY <1>12, <2>3, <3>1, Zenon
  <2>4. CASE d # c
    <3>1. \A f \in Descriptors : fd_table'[f] = d <=> fd_table[f] = d
      BY <1>14, <1>15, <2>1, <2>4
    <3>2. Open(d)' <=> Open(d)
      BY <1>13, <2>4
    <3> QED
      BY <1>3, <2>2, <3>1, <3>2, Zenon
  <2> QED
    BY <2>3, <2>4
<1>17. ObjectsInv'
  <2>1. \A i \in DOMAIN session_pool : call'[session_pool[i]] \notin {"new", "insert"}
    BY <1>4, SessionFacts DEF ServerInv, ObjectsInv
  <2>2. \A d \in Sessions : call'[d] = "count_up" =>
           call_id'[d] \in DOMAIN session_pool /\ session_pool[call_id'[d]] = d
    BY <1>4, SessionFacts DEF ServerInv, ObjectsInv
  <2> QED
    BY <1>3, <2>1, <2>2, Zenon DEF ServerInv, ObjectsInv
<1>18. OwnSessionInv'
  <2>1. ASSUME Serving, t \in Sessions
        PROVE  ~Running(t)' /\ id \in DOMAIN session_pool /\ session_pool[id] = t
    <3>1. HasSession(t) /\ id = call_id[t] /\ thread'[t] = "delete"
      BY <1>3, <2>1 DEF HasSession
    <3> QED
      BY <2>1, <3>1 DEF ServerInv, OwnSessionInv, Running
  <2>2. \A d \in Sessions : Serving /\ HasSession(d) => call_id[d] \in DOMAIN session_pool
    BY DEF ServerInv, OwnSessionInv
  <2> QED
    BY <1>3, <1>4, <2>1, <2>2, CallStepSessions
<1> QED
  BY <1>5, <1>16, <1>17, <1>18 DEF Ownership

\* session_pool.erase: the session, whose descriptor is closed, leaves the pool.
LEMMA EraseStep ==
  ASSUME ServerInv, NEW t \in Callers, DeleteErase(t), CallStep(t, "push"), fd_table' = fd_table,
         t \in Sessions => thread[t] = "delete" /\ thread' = thread
  PROVE  Ownership'
<1>1. PICK id : id = call_id[t]
  OBVIOUS
<1>2. /\ call[t] = "erase" /\ call_id' = call_id
      /\ session_pool' = [i \in DOMAIN session_pool \ {id} |-> session_pool[i]]
  BY <1>1 DEF DeleteErase, Goto, Restrict
<1>3. mutex = t /\ id \in DOMAIN session_pool
  BY <1>1, <1>2, SessionFacts DEF ServerInv, SMInv, OnlyOwnerIsCalling, CallIdInv, Phase
<1>4. PICK c : c = session_pool[id]
  OBVIOUS
<1>5. /\ \A u \in Callers : call'[u] = IF u = t THEN "push" ELSE call[u]
      /\ connection' = connection /\ comm_fd' = comm_fd
  BY SessionFacts DEF CallStep
<1>6. HandOverInv' /\ CallsInv' /\ \A d \in Sessions \ {t} : InTransit(d)' <=> InTransit(d)
  BY CallStepHands
<1>7. \A d \in Sessions : InTransit(d)' <=> InTransit(d)
  <2>1. t \in Sessions => (InTransit(t)' <=> InTransit(t))
    BY <1>5 DEF InTransit
  <2> QED
    BY <1>6, <2>1
<1>8. \A d : BeingClosed(d) <=> d = c
  <2>1. BeingClosed(c)
    BY <1>1, <1>2, <1>4 DEF BeingClosed
  <2>2. ASSUME NEW d, BeingClosed(d) PROVE d = c
    BY <1>1, <1>3, <1>4, <2>2, ClosedByOwner
  <2> QED
    BY <2>1, <2>2
<1>9. \A d : ~BeingClosed(d)'
  BY NotClosingAfter DEF CallStep
<1>10. \A d : d \in Range(session_pool)' <=> d \in Range(session_pool) /\ d # c
  <2>1. \A d : d \in Range(session_pool)'
                 <=> \E i \in DOMAIN session_pool \ {id} : session_pool[i] = d
    BY <1>2, InPoolPrime
  <2>2. \A i \in DOMAIN session_pool : session_pool[i] = c => i = id
    BY <1>3, <1>4 DEF ServerInv, ObjectsInv
  <2> QED
    BY <1>4, <2>1, <2>2, InPool
<1>11. \A d \in Connections : Open(d)' <=> Open(d)
  <2>1. \A d \in Connections : InTransit(d)' <=> InTransit(d)
    BY <1>7, SessionFacts
  <2> QED
    BY <1>5, <1>8, <1>9, <1>10, <2>1, Zenon DEF Open
<1>12. DescriptorsInv'
  BY <1>5, <1>11, SameOpen DEF ServerInv
<1>13. ObjectsInv'
  <2>1. \A i \in DOMAIN session_pool' : /\ i \in DOMAIN session_pool
                                        /\ session_pool'[i] = session_pool[i]
    BY <1>2
  <2>2. \A i \in DOMAIN session_pool' : call'[session_pool'[i]] \notin {"new", "insert"}
    BY <1>5, <2>1, SessionFacts DEF ServerInv, ObjectsInv
  <2>3. \A i, j \in DOMAIN session_pool' : session_pool'[i] = session_pool'[j] => i = j
    BY <2>1 DEF ServerInv, ObjectsInv
  <2>4. \A d \in Sessions : call'[d] # "count_up"
    BY <1>3, <1>5, SessionFacts DEF ServerInv, SMInv, OnlyOwnerIsCalling
  <2> QED
    BY <2>2, <2>3, <2>4 DEF ObjectsInv
<1>14. OwnSessionInv'
  <2>1. t \in Sessions => ~Running(t)' /\ ~HasSession(t)'
    BY <1>5 DEF Running, HasSession
  <2>2. ASSUME Serving, NEW d \in Sessions \ {t}, HasSession(d)
        PROVE  /\ call_id[d] \in DOMAIN session_pool'
               /\ session_pool'[call_id[d]] = session_pool[call_id[d]]
    <3>1. t \in Sessions
      BY <2>2 DEF CallStep, Serving
    <3>2. HasSession(t)
      BY <1>2, <3>1 DEF HasSession
    <3>3. /\ session_pool[call_id[t]] = t
          /\ call_id[d] \in DOMAIN session_pool /\ session_pool[call_id[d]] = d
      BY <2>2, <3>1, <3>2 DEF ServerInv, OwnSessionInv
    <3> QED
      BY <1>1, <1>2, <3>3
  <2> QED
    BY <2>1, <2>2, CallStepSessions
<1> QED
  BY <1>6, <1>12, <1>13, <1>14 DEF Ownership

\* session_pool.insert: the thread still holds the descriptor, and now its
\* object is in the pool.
LEMMA InsertStep ==
  ASSUME ServerInv, NEW t \in Sessions, CreateInsert(t), CallStep(t, "count_up"),
         fd_table' = fd_table, thread[t] = "create", thread' = thread
  PROVE  Ownership'
<1>1. PICK id : id = call_id[t]
  OBVIOUS
<1>2. call[t] = "insert" /\ call_id' = call_id /\ t \in Callers
  BY SessionFacts DEF CreateInsert, Goto
<1>3. id \notin DOMAIN session_pool
  BY <1>1, <1>2, SessionFacts DEF ServerInv, SMInv, OnlyOwnerIsCalling, CallIdInv, Phase
<1>4. /\ DOMAIN session_pool' = DOMAIN session_pool \cup {id}
      /\ session_pool'[id] = t
      /\ \A i \in DOMAIN session_pool : session_pool'[i] = session_pool[i]
  BY <1>1, <1>3 DEF CreateInsert
<1>5. /\ \A u \in Callers : call'[u] = IF u = t THEN "count_up" ELSE call[u]
      /\ connection' = connection /\ comm_fd' = comm_fd
  BY SessionFacts DEF CallStep
<1>6. HandOverInv' /\ CallsInv' /\ \A d \in Sessions \ {t} : InTransit(d)' <=> InTransit(d)
  BY <1>2, CallStepHands
<1>7. InTransit(t) /\ InTransit(t)'
  <2>1. connection[t] = "handed"
    BY DEF ServerInv, HandOverInv
  <2> QED
    BY <1>5, <2>1 DEF InTransit
<1>8. \A d : ~BeingClosed(d) /\ ~BeingClosed(d)'
  BY <1>2, NotClosing, NotClosingAfter DEF CallStep
<1>9. \A d : d # t => (d \in Range(session_pool)' <=> d \in Range(session_pool))
  BY <1>3, <1>4, InPool, InPoolPrime
<1>10. ASSUME NEW d \in Connections PROVE Open(d)' <=> Open(d)
  <2>1. CASE d = t
    BY <1>7, <2>1 DEF Open
  <2>2. CASE d # t
    <3>1. InTransit(d)' <=> InTransit(d)
      BY <1>6, <2>2, SessionFacts
    <3>2. d \in Range(session_pool)' <=> d \in Range(session_pool)
      BY <1>9, <2>2
    <3> QED
      BY <1>5, <1>8, <3>1, <3>2, Zenon DEF Open
  <2> QED
    BY <2>1, <2>2
<1>11. DescriptorsInv'
  BY <1>5, <1>10, SameOpen DEF ServerInv
<1>12. \A i \in DOMAIN session_pool : session_pool[i] # t
  BY <1>2 DEF ServerInv, ObjectsInv
<1>13. ObjectsInv'
  <2>1. \A i \in DOMAIN session_pool' : call'[session_pool'[i]] \notin {"new", "insert"}
    BY <1>2, <1>4, <1>5, SessionFacts DEF ServerInv, ObjectsInv
  <2>2. \A i, j \in DOMAIN session_pool' : session_pool'[i] = session_pool'[j] => i = j
    BY <1>3, <1>4, <1>12 DEF ServerInv, ObjectsInv
  <2>3. \A d \in Sessions : call'[d] = "count_up" =>
           call_id'[d] \in DOMAIN session_pool' /\ session_pool'[call_id'[d]] = d
    BY <1>1, <1>2, <1>4, <1>5, SessionFacts DEF ServerInv, ObjectsInv
  <2> QED
    BY <2>1, <2>2, <2>3, Zenon DEF ObjectsInv
<1>14. OwnSessionInv'
  <2>1. ~Running(t)' /\ ~HasSession(t)'
    BY DEF Running, HasSession
  <2>2. \A d \in Sessions : Serving /\ HasSession(d) => call_id[d] \in DOMAIN session_pool
    BY DEF ServerInv, OwnSessionInv
  <2> QED
    BY <1>2, <1>4, <2>1, <2>2, CallStepSessions
<1> QED
  BY <1>6, <1>11, <1>13, <1>14 DEF Ownership

\* The first and the last step of create_session.
LEMMA CreateStep ==
  ASSUME ServerInv, NEW c \in Sessions, Create(c)
  PROVE  Ownership'
<1>1. /\ thread[c] = "create" /\ connection' = connection /\ listener' = listener
      /\ accepted' = accepted /\ comm_fd' = comm_fd /\ fd_table' = fd_table
      /\ session' = session /\ main' = main /\ c \in Callers
      /\ mutex # NoThread => call[mutex] \notin {"new", "idle"}
      /\ \A t \in Callers : call[t] \notin {"new", "idle"} => mutex = t
  BY SessionFacts DEF Create, lc_vars, main_vars, ServerInv, SMInv, OnlyOwnerIsCalling
<1>2. connection[c] = "handed" /\ InTransit(c)
  BY <1>1 DEF ServerInv, HandOverInv, InTransit
<1>3. CASE CreateChooseId(c)
  <2>1. /\ call[c] = "new" /\ call' = [call EXCEPT ![c] = "insert"] /\ mutex = NoThread
        /\ session_pool' = session_pool
        /\ \E id : call_id' = [call_id EXCEPT ![c] = id]
    BY <1>3 DEF CreateChooseId, Goto, Acquire
  <2>2. thread' = thread
    BY <1>3, <2>1, SessionFacts DEF Create, CreateCount, Goto
  <2>3. \A u \in Callers \ {c} : call_id'[u] = call_id[u]
    BY <2>1, SessionFacts
  <2>4. "insert" \in CallsOf(thread'[c]) /\ ~Running(c)' /\ ~HasSession(c)'
    BY <1>1, <2>2 DEF CallsOf, Running, HasSession
  <2>5. CallStep(c, "insert")
    BY <1>1, <2>1, <2>2, <2>3, <2>4 DEF CallStep
  <2>6. InTransit(c)'
    BY <1>1, <1>2, <2>2 DEF InTransit
  <2> QED
    BY <1>1, <1>2, <2>1, <2>4, <2>5, <2>6, PoolKept
<1>4. CASE CreateInsert(c)
  <2>1. call[c] = "insert" /\ call' = [call EXCEPT ![c] = "count_up"] /\ call_id' = call_id
    BY <1>4 DEF CreateInsert, Goto
  <2>2. thread' = thread
    BY <1>4, <2>1, SessionFacts DEF Create, CreateCount, Goto
  <2>3. "count_up" \in CallsOf(thread'[c])
    BY <1>1, <2>2 DEF CallsOf
  <2>4. CallStep(c, "count_up")
    BY <1>1, <2>1, <2>2, <2>3 DEF CallStep
  <2> QED
    BY <1>1, <1>4, <2>2, <2>4, InsertStep
<1>5. CASE CreateCount(c)
  <2>1. /\ call[c] = "count_up" /\ call' = [call EXCEPT ![c] = "idle"] /\ call_id' = call_id
        /\ session_pool' = session_pool
    BY <1>5 DEF CreateCount, Goto
  <2>2. thread' = [thread EXCEPT ![c] = "get"]
    BY <1>5, <2>1, SessionFacts DEF Create, CreateChooseId, CreateInsert, Goto, Move
  <2>3. \A d \in Sessions : thread'[d] = IF d = c THEN "get" ELSE thread[d]
    BY <2>2, SessionFacts
  <2>4. "idle" \in CallsOf(thread'[c]) /\ ~Running(c)'
    BY <2>3 DEF CallsOf, Running
  <2>5. CallStep(c, "idle")
    BY <1>1, <2>1, <2>3, <2>4 DEF CallStep
  <2>6. call_id[c] \in DOMAIN session_pool /\ session_pool[call_id[c]] = c
    BY <2>1 DEF ServerInv, ObjectsInv
  <2>7. c \in Range(session_pool)
    BY <2>6, InPool
  <2> QED
    BY <1>1, <2>1, <2>4, <2>5, <2>6, <2>7, PoolKept
<1> QED
  BY <1>3, <1>4, <1>5 DEF Create

\* delete_session, by a session thread or by delete_all.
LEMMA DeleteStep ==
  ASSUME ServerInv, NEW c \in Sessions, Delete(c), ~UNCHANGED sm_vars
  PROVE  Ownership'
<1>1. /\ thread[c] = "delete" /\ session' = session /\ main' = main /\ c \in Callers
      /\ mutex # NoThread => call[mutex] \notin {"new", "idle"}
      /\ \A t \in Callers : call[t] \notin {"new", "idle"} => mutex = t
  BY SessionFacts DEF Delete, main_vars, ServerInv, SMInv, OnlyOwnerIsCalling
<1>2. connection[c] = "handed" /\ ~InTransit(c)
  BY <1>1 DEF ServerInv, HandOverInv, InTransit
<1>3. /\ "erase" \in CallsOf("delete") /\ "push" \in CallsOf("delete")
      /\ "count_down" \in CallsOf("delete") /\ "idle" \in CallsOf("leave")
  BY DEF CallsOf
<1>4. ASSUME DeleteLookup(c, call_id[c]), Close(comm_fd[session_pool[call_id[c]]]), thread' = thread
      PROVE  Ownership'
  <2>1. /\ mutex = NoThread /\ call' = [call EXCEPT ![c] = "erase"]
        /\ call_id[c] \in DOMAIN session_pool
        /\ \A u \in Callers \ {c} : call_id'[u] = call_id[u]
        /\ connection' = connection /\ listener' = listener /\ accepted' = accepted
        /\ comm_fd' = comm_fd
    BY <1>4, SessionFacts DEF DeleteLookup, Goto, Acquire, Close
  <2>2. CallStep(c, "erase")
    BY <1>1, <1>3, <1>4, <2>1 DEF CallStep
  <2> QED
    BY <1>1, <1>4, <2>1, <2>2, CloseStep
<1>5. ASSUME DeleteErase(c) \/ DeletePush(c), UNCHANGED <<lc_vars, thread>> PROVE Ownership'
  <2>1. /\ connection' = connection /\ listener' = listener /\ accepted' = accepted
        /\ comm_fd' = comm_fd /\ fd_table' = fd_table /\ thread' = thread /\ call_id' = call_id
    BY <1>5 DEF lc_vars, DeleteErase, DeletePush
  <2>2. CASE DeleteErase(c)
    <3>1. call[c] = "erase" /\ call' = [call EXCEPT ![c] = "push"]
      BY <2>2 DEF DeleteErase, Goto
    <3>2. CallStep(c, "push")
      BY <1>1, <1>3, <2>1, <3>1 DEF CallStep
    <3> QED
      BY <1>1, <2>1, <2>2, <3>2, EraseStep
  <2>3. CASE DeletePush(c)
    <3>1. /\ call[c] = "push" /\ call' = [call EXCEPT ![c] = "count_down"]
          /\ session_pool' = session_pool
      BY <2>3 DEF DeletePush, Goto
    <3>2. CallStep(c, "count_down")
      BY <1>1, <1>3, <2>1, <3>1 DEF CallStep
    <3>3. call'[c] = "count_down" /\ thread'[c] = "delete"
      BY <1>1, <2>1, <3>1, SessionFacts
    <3>4. ~InTransit(c)' /\ ~Running(c)' /\ ~HasSession(c)'
      BY <1>2, <2>1, <3>3 DEF InTransit, Running, HasSession
    <3> QED
      BY <1>1, <1>2, <2>1, <3>1, <3>2, <3>4, PoolKept
  <2> QED
    BY <1>5, <2>2, <2>3
<1>6. ASSUME DeleteCount(c), Move(c, "delete", "leave"), UNCHANGED lc_vars PROVE Ownership'
  <2>1. /\ connection' = connection /\ listener' = listener /\ accepted' = accepted
        /\ comm_fd' = comm_fd /\ fd_table' = fd_table
        /\ call[c] = "count_down" /\ call' = [call EXCEPT ![c] = "idle"]
        /\ session_pool' = session_pool
        /\ \A u \in Callers \ {c} : call_id'[u] = call_id[u]
        /\ \A d \in Sessions : thread'[d] = IF d = c THEN "leave" ELSE thread[d]
    BY <1>6, SessionFacts DEF lc_vars, DeleteCount, Goto, Move
  <2>2. CallStep(c, "idle")
    BY <1>1, <1>3, <2>1 DEF CallStep
  <2>3. ~InTransit(c)' /\ ~Running(c)' /\ ~HasSession(c)'
    BY <1>2, <2>1 DEF InTransit, Running, HasSession
  <2> QED
    BY <1>1, <1>2, <2>1, <2>2, <2>3, PoolKept
<1>7. ~DeleteNotAllocated(c, call_id[c])
  BY DEF DeleteNotAllocated
<1> QED
  BY <1>4, <1>5, <1>6, <1>7 DEF Delete

LEMMA DeleteAllStep ==
  ASSUME ServerInv, MainDeletes
  PROVE  Ownership'
<1>1. /\ main = "deleting" /\ thread' = thread /\ session' = session /\ main' = main
      /\ Main \in Callers /\ Main \notin Sessions /\ ~Serving
      /\ mutex # NoThread => call[mutex] \notin {"new", "idle"}
      /\ \A t \in Callers : call[t] \notin {"new", "idle"} => mutex = t
  BY SessionFacts DEF MainDeletes, rest_vars, ServerInv, SMInv, OnlyOwnerIsCalling, Serving
<1>2. ASSUME NEW id \in todo, DeleteLookup(Main, id), Close(comm_fd[session_pool[id]])
      PROVE  Ownership'
  <2>1. /\ mutex = NoThread /\ call' = [call EXCEPT ![Main] = "erase"]
        /\ id \in DOMAIN session_pool
        /\ \A u \in Callers \ {Main} : call_id'[u] = call_id[u]
        /\ connection' = connection /\ listener' = listener /\ accepted' = accepted
        /\ comm_fd' = comm_fd
    BY <1>2, SessionFacts DEF DeleteLookup, Goto, Acquire, Close
  <2>2. CallStep(Main, "erase")
    BY <1>1, <2>1 DEF CallStep
  <2> QED
    BY <1>1, <1>2, <2>1, <2>2, CloseStep
<1>3. ASSUME NEW id \in todo, DeleteNotAllocated(Main, id), UNCHANGED lc_vars PROVE Ownership'
  BY <1>1, <1>3, NothingMoves DEF DeleteNotAllocated, Serving
<1>4. ASSUME DeleteErase(Main) \/ DeletePush(Main) \/ DeleteCount(Main), UNCHANGED lc_vars
      PROVE  Ownership'
  <2>1. /\ connection' = connection /\ listener' = listener /\ accepted' = accepted
        /\ comm_fd' = comm_fd /\ fd_table' = fd_table
        /\ \A u \in Callers \ {Main} : call_id'[u] = call_id[u]
    BY <1>4, SessionFacts DEF lc_vars, DeleteErase, DeletePush, DeleteCount
  <2>2. CASE DeleteErase(Main)
    <3>1. call[Main] = "erase" /\ call' = [call EXCEPT ![Main] = "push"]
      BY <2>2 DEF DeleteErase, Goto
    <3>2. CallStep(Main, "push")
      BY <1>1, <2>1, <3>1 DEF CallStep
    <3> QED
      BY <1>1, <2>1, <2>2, <3>2, EraseStep
  <2>3. CASE DeletePush(Main) \/ DeleteCount(Main)
    <3>1. PICK to \in {"count_down", "idle"} : call' = [call EXCEPT ![Main] = to]
      BY <2>3 DEF DeletePush, DeleteCount, Goto
    <3>2. call[Main] \in {"push", "count_down"} /\ session_pool' = session_pool
      BY <2>3 DEF DeletePush, DeleteCount, Goto
    <3>3. CallStep(Main, to)
      BY <1>1, <2>1, <3>1, <3>2 DEF CallStep
    <3> QED
      BY <1>1, <2>1, <3>1, <3>2, <3>3, PoolKept
  <2> QED
    BY <1>4, <2>2, <2>3
<1> QED
  BY <1>2, <1>3, <1>4 DEF MainDeletes

-----------------------------------------------------------------------------
(* The whole server. *)

LEMMA MainStep ==
  ASSUME ServerInv, MainThread
  PROVE  Ownership'
<1> USE DEF Proceed, rest_vars, main_vars, Serving
<1>1. CASE MainDeletes
  BY <1>1, DeleteAllStep
<1>2. CASE MainCannotListen \/ MainStarted \/ MainNotifiesReady \/ MainInterrupted
  BY <1>2, NothingMoves DEF MainCannotListen, MainStarted, MainNotifiesReady, MainInterrupted
<1>3. CASE MainListsSessions \/ MainDeletedAll \/ MainSignalsSessions \/ MainFaults \/ MainJoins
  BY <1>3, NothingMoves DEF MainListsSessions, MainDeletedAll, MainSignalsSessions, MainFaults, MainJoins
<1>4. CASE MainExitsComm
  <2>1. /\ UNCHANGED sm_vars /\ UNCHANGED <<thread, session>>
        /\ UNCHANGED <<connection, accepted, fd_table, comm_fd>>
        /\ \A l \in Channels : listener'[l] = listener[l]
        /\ main = "deleted_all" /\ main' = "exit_comm"
    BY <1>4 DEF MainExitsComm
  <2> QED
    BY <2>1, ProcessStep
<1>5. ASSUME NEW l \in Channels, MainStartsWorker(l) \/ MainShutsDown(l) PROVE Ownership'
  <2>1. /\ UNCHANGED sm_vars /\ UNCHANGED <<thread, session>>
        /\ UNCHANGED <<connection, accepted, fd_table, comm_fd>> /\ main' = main
    BY <1>5 DEF MainStartsWorker, MainShutsDown, StartWorker, Shutdown
  <2>2. \A k \in Channels : listener'[k] = listener[k] \/ listener[k] = "off"
    BY <1>5, SessionFacts DEF MainStartsWorker, MainShutsDown, StartWorker, Shutdown, Step
  <2> QED
    BY <2>1, <2>2, ProcessStep
<1>6. CASE MainFaultsAgain
  BY <1>6, NothingMoves DEF MainFaultsAgain, vars, thread_vars
<1> QED
  BY <1>1, <1>2, <1>3, <1>4, <1>5, <1>6 DEF MainThread

LEMMA OwnershipStep ==
  ASSUME ServerInv, [Next]_vars
  PROVE  Ownership'
<1>1. ASSUME NEW c \in Connections, ClientConnects(c) PROVE Ownership'
  BY <1>1, ConnectStep
<1>2. CASE Signal
  BY <1>2, NothingMoves DEF Signal, thread_vars, main_vars, Serving
<1>3. ASSUME NEW l \in Channels, Listen(l) \/ ListenInterrupted(l) \/ Spawn(l) PROVE Ownership'
  BY <1>3, ListenStep
<1>4. ASSUME NEW c \in Sessions, SessionThread(c) PROVE Ownership'
  <2>1. CASE UNCHANGED sm_vars
    BY <1>4, <2>1, ThreadStep
  <2>2. CASE ~UNCHANGED sm_vars
    <3>1. Create(c) \/ Delete(c)
      BY <1>4, <2>2 DEF SessionThread, Enter, GetSession, GetSessionThrows, GetSessionFaults, InitSession, RunLoop,
                        ReadCommand, ReadEnds, Execute, ExecuteFaults, ExecuteThrows, Leave
    <3> QED
      BY <2>2, <3>1, CreateStep, DeleteStep
  <2> QED
    BY <2>1, <2>2
<1>5. CASE MainThread
  BY <1>5, MainStep
<1>6. CASE UNCHANGED vars
  BY <1>6, NothingMoves DEF vars, thread_vars, main_vars, Serving
<1> QED
  BY <1>1, <1>2, <1>3, <1>4, <1>5, <1>6 DEF Next, Ended

LEMMA OwnershipInit ==
  ASSUME Init
  PROVE  ServerInv
<1>1. TypeOK /\ SMInv
  BY InitTypes, InitInv DEF Init
<1>2. /\ Sessions = Connections /\ Main \notin Sessions /\ NoConnection \notin Connections
      /\ \A l \in Channels : accepted[l] = NoConnection
      /\ \A c \in Sessions : connection[c] = "away" /\ thread[c] = "none" /\ call[c] = "new"
      /\ call[Main] = "idle" /\ main = "start" /\ DOMAIN session_pool = {}
      /\ \A fd \in Descriptors : fd_table[fd] = NoConnection
  BY ServerAssumption, SessionsAssumption, ChannelAssumption DEF Init, SMInit, LCInit, Callers
<1>3. HandOverInv /\ CallsInv /\ ObjectsInv
  BY <1>2 DEF HandOverInv, CallsInv, CallsOf, ObjectsInv
<1>4. \A c \in Connections : ~Open(c)
  BY <1>2, InPool DEF Open, InTransit
<1>5. DescriptorsInv
  BY <1>2, <1>4 DEF DescriptorsInv
<1>6. OwnSessionInv
  BY <1>2 DEF OwnSessionInv, HasSession, Running
<1> QED
  BY <1>1, <1>3, <1>5, <1>6 DEF ServerInv

(* The inductive invariant of the whole server, whatever the clients do and *)
(* whenever the signal comes: who holds each connection, who is inside      *)
(* create_session or delete_session, which descriptors are open, and under  *)
(* which ids the session threads find their objects.                        *)
THEOREM ServerInvariant == Spec => []ServerInv
<1>1. Init => ServerInv
  BY OwnershipInit
<1>2. ServerInv /\ [Next]_vars => ServerInv'
  <2> SUFFICES ASSUME ServerInv, [Next]_vars PROVE ServerInv'
    OBVIOUS
  <2>1. SMInv'
    BY ServerStepUsesPool, NextInv DEF ServerInv
  <2>2. TypeOK'
    BY <2>1, NextTypes DEF ServerInv, SMInv
  <2> QED
    BY <2>1, <2>2, OwnershipStep DEF ServerInv, Ownership
<1> QED
  BY <1>1, <1>2, PTL DEF Spec

(* No descriptor is leaked by a session and none is closed under one, also  *)
(* while delete_all deletes the sessions of threads that still run: an open *)
(* descriptor is that of one connection, on its way to a session, in the    *)
(* pool or dropped by its listener, and a session of the pool has its own   *)
(* descriptor until delete_session closes it.                               *)
THEOREM DescriptorOwnership == Spec => []DescriptorsAreOwned
<1>1. ServerInv => DescriptorsAreOwned
  <2> SUFFICES ASSUME ServerInv PROVE DescriptorsAreOwned
    OBVIOUS
  <2>1. ASSUME NEW fd \in Descriptors, fd_table[fd] # NoConnection
        PROVE  /\ comm_fd[fd_table[fd]] = fd
               /\ \/ InTransit(fd_table[fd]) \/ connection[fd_table[fd]] = "dropped"
                  \/ fd_table[fd] \in Range(session_pool)
    <3>1. fd_table[fd] \in Connections
      BY <2>1 DEF ServerInv, TypeOK
    <3>2. Open(fd_table[fd]) /\ comm_fd[fd_table[fd]] = fd
      BY <3>1 DEF ServerInv, DescriptorsInv
    <3> QED
      BY <3>2 DEF Open
  <2>2. ASSUME NEW c \in Range(session_pool), ~BeingClosed(c) PROVE fd_table[comm_fd[c]] = c
    <3>1. c \in Connections
      BY InPool, SessionFacts
    <3>2. Open(c)
      BY <2>2 DEF Open
    <3> QED
      BY <3>1, <3>2 DEF ServerInv, DescriptorsInv
  <2> QED
    BY <2>1, <2>2 DEF DescriptorsAreOwned
<1> QED
  BY <1>1, ServerInvariant, PTL

(* Until the shutdown, a session thread finds its own Session object under  *)
(* its id, runs that object, reads from its own client's descriptor and     *)
(* closes that one: reused ids and descriptor numbers never lead it to the  *)
(* session of another client.                                               *)
THEOREM SessionOwnership == Spec => []ThreadOwnsItsSession
<1>1. ServerInv => ThreadOwnsItsSession
  <2> SUFFICES ASSUME ServerInv, Serving, NEW c \in Sessions
               PROVE  /\ HasSession(c) => /\ call_id[c] \in DOMAIN session_pool
                                          /\ session_pool[call_id[c]] = c
                      /\ Running(c) => session[c] = c /\ Peer(c) = c
    BY DEF ThreadOwnsItsSession
  <2>1. /\ HasSession(c) => call_id[c] \in DOMAIN session_pool /\ session_pool[call_id[c]] = c
        /\ Running(c) => session[c] = c
    BY DEF ServerInv, OwnSessionInv
  <2>2. ASSUME Running(c) PROVE Peer(c) = c
    <3>1. HasSession(c) /\ c \in Connections
      BY <2>2, SessionFacts DEF HasSession, Running
    <3>2. c \in Range(session_pool)
      BY <2>1, <3>1, InPool
    <3>3. ~BeingClosed(c)
      <4> SUFFICES ASSUME BeingClosed(c) PROVE FALSE
        OBVIOUS
      <4>1. mutex \in Callers /\ call[mutex] = "erase" /\ session_pool[call_id[mutex]] = c
        BY ClosedByOwner
      <4>2. mutex \in Sessions /\ thread[mutex] = "delete"
        BY <4>1 DEF ServerInv, CallsInv, CallsOf, Callers, Serving
      <4>3. session_pool[call_id[mutex]] = mutex
        BY <4>1, <4>2 DEF ServerInv, OwnSessionInv, HasSession
      <4> QED
        BY <2>2, <4>1, <4>2, <4>3 DEF Running
    <3>4. fd_table[comm_fd[c]] = c
      BY <3>1, <3>2, <3>3 DEF ServerInv, DescriptorsInv, Open
    <3> QED
      BY <2>1, <2>2, <3>4 DEF Peer
  <2> QED
    BY <2>1, <2>2
<1> QED
  BY <1>1, ServerInvariant, PTL
=============================================================================
