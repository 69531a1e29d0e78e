---------------------------- MODULE DriverService ----------------------------
(***************************************************************************)
(* What DriverManager promises the sessions: a driver is brought up once   *)
(* and for all, a command runs on a driver that is up, and the commands of *)
(* one driver run one after the other.                                     *)
(***************************************************************************)
CONSTANTS Threads, Drivers, NoDriver

VARIABLES up,      \* the drivers that were constructed
          running  \* the driver each thread executes a command of

Init ==
    /\ up = {}
    /\ running = [t \in Threads |-> NoDriver]

BringUp(d) ==
    /\ d \notin up
    /\ up' = up \cup {d}
    /\ UNCHANGED running

Begin(t, d) ==
    /\ d \in up
    /\ running[t] = NoDriver
    /\ \A u \in Threads : running[u] # d
    /\ running' = [running EXCEPT ![t] = d]
    /\ UNCHANGED up

End(t) ==
    /\ running[t] # NoDriver
    /\ running' = [running EXCEPT ![t] = NoDriver]
    /\ UNCHANGED up

Next ==
    \/ \E d \in Drivers : BringUp(d)
    \/ \E t \in Threads : End(t) \/ \E d \in Drivers : Begin(t, d)

Spec == Init /\ [][Next]_<<up, running>>
=============================================================================
