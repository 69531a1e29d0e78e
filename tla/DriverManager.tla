---------------------------- MODULE DriverManager ----------------------------
(***************************************************************************)
(* The drivers of the Koheron server (server/core/drivers_manager.hpp and  *)
(* .cpp): a driver is constructed when the first command for it arrives,   *)
(* or when the constructor of another driver asks for it with ctx.get<>(). *)
(*                                                                         *)
(* execute() reads is_started without the mutex.  alloc_driver() takes a   *)
(* recursive mutex, checks is_started again, and constructs the driver,    *)
(* which calls alloc_driver() for what it needs: a thread has a stack of   *)
(* such calls.  A frame is the driver, the point it is at and the number   *)
(* of dependencies already asked for:                                      *)
(*                                                                         *)
(*     lock -> started? -> alloc -> construct -> publish -> (return)       *)
(*                                                                         *)
(* The flags are plain bools: the two stores that publish a driver, to     *)
(* device_list and to is_started, reach other threads in either order.     *)
(***************************************************************************)
EXTENDS Naturals, Sequences, FiniteSets, SequencesExt

CONSTANTS Threads,   \* the session threads
          Main,      \* the thread of Server::Server
          NoThread,
          Drivers,
          NoDriver,
          Common,    \* the driver that DriverManager::init starts
          Needs      \* the drivers each constructor asks for, in order

ASSUME DriversAssumption ==
    /\ Main \notin Threads
    /\ NoThread \notin Threads \cup {Main}
    /\ NoDriver \notin Drivers
    /\ Common \in Drivers
    /\ Needs \in [Drivers -> Seq(Drivers)]
    /\ Needs[Common] = <<>>   \* Common's constructor calls ctx.mm.get only

Callers == Threads \cup {Main}

VARIABLES is_started,   \* DriverManager::is_started
          device_list,  \* 0: nullptr, else the number of the Driver<> object
          container,    \* is_starting and is_started of DriverContainer
          instances,    \* how often each driver was constructed
          null_refs,    \* constructors and what they got a null reference for
          mutex,        \* the owner of the recursive mutex
          stack,        \* the nested calls of alloc_driver
          exit_all,
          pc,           \* where each thread is in execute (Main: in the constructor)
          cmd,          \* the driver of its command
          object        \* the Driver<> object whose mutex it holds

vars == <<is_started, device_list, container, instances, null_refs, mutex, stack,
          exit_all, pc, cmd, object>>

alloc_vars == <<is_started, device_list, container, instances, null_refs, mutex, stack>>

Init ==
    /\ is_started = [d \in Drivers |-> FALSE]
    /\ device_list = [d \in Drivers |-> 0]
    /\ container = [d \in Drivers |-> "absent"]
    /\ instances = [d \in Drivers |-> 0]
    /\ null_refs = {}
    /\ mutex = NoThread
    /\ stack = [t \in Callers |-> <<>>]
    /\ exit_all = FALSE
    /\ pc = [t \in Callers |-> IF t = Main THEN "check" ELSE "idle"]
    /\ cmd = [t \in Callers |-> IF t = Main THEN Common ELSE NoDriver]
    /\ object = [t \in Callers |-> 0]

-----------------------------------------------------------------------------
Frame(d) == [driver |-> d, at |-> "lock", asked |-> 0]
Top(t) == Last(stack[t])
Move(t, from, to) == pc[t] = from /\ pc' = [pc EXCEPT ![t] = to]

\* Step the innermost call of alloc_driver of t.
GoOn(t, from, to) ==
    /\ stack[t] # <<>> /\ Top(t).at = from
    /\ stack' = [stack EXCEPT ![t][Len(stack[t])].at = to]

\* The driver whose constructor made that call.
Caller(t) == {stack[t][i].driver : i \in {Len(stack[t]) - 1} \ {0}}

\* Mutant: the mutex is not unlocked.
ReturnKeepsLock(t) ==
    /\ stack' = [stack EXCEPT ![t] = Front(@)]
    /\ UNCHANGED mutex

\* Mutant: the mutex is unlocked by every return.
ReturnUnlocks(t) ==
    /\ stack' = [stack EXCEPT ![t] = Front(@)]
    /\ mutex' = NoThread

\* Return from the innermost call; the outermost one unlocks the mutex.
Return(t) ==
    /\ stack' = [stack EXCEPT ![t] = Front(@)]
    /\ mutex' = IF Len(stack[t]) = 1 THEN NoThread ELSE mutex

\* lock_guard<recursive_mutex>.
Lock(t) ==
    /\ GoOn(t, "lock", "started?")
    /\ mutex \in {NoThread, t}
    /\ mutex' = t
    /\ UNCHANGED <<is_started, device_list, container, instances, null_refs,
                   exit_all, pc, cmd, object>>

\* Mutant: is_started is not checked again under the mutex.
NoCheckAgain(t) ==
    /\ GoOn(t, "started?", "alloc")
    /\ UNCHANGED <<is_started, device_list, container, instances, null_refs, mutex,
                   exit_all, pc, cmd, object>>

\* if (is_started) return, now under the mutex.
CheckAgain(t) ==
    /\ stack[t] # <<>> /\ Top(t).at = "started?"
    /\ IF is_started[Top(t).driver]
       THEN Return(t)
       ELSE GoOn(t, "started?", "alloc") /\ UNCHANGED mutex
    /\ UNCHANGED <<is_started, device_list, container, instances, null_refs,
                   exit_all, pc, cmd, object>>

\* DriverContainer::alloc: is_starting, then make_unique calls the constructor;
\* nothing to construct if the container has it already.
AllocInContainer(t) ==
    /\ stack[t] # <<>>
    /\ container[Top(t).driver] # "starting"
    /\ IF container[Top(t).driver] = "started"
       THEN GoOn(t, "alloc", "publish") /\ UNCHANGED container
       ELSE /\ GoOn(t, "alloc", "construct")
            /\ container' = [container EXCEPT ![Top(t).driver] = "starting"]
    /\ UNCHANGED <<is_started, device_list, instances, null_refs, mutex,
                   exit_all, pc, cmd, object>>

\* Mutant: exit_all is not set.
CircularDependencyIgnored(t) ==
    /\ stack[t] # <<>> /\ Top(t).at = "alloc"
    /\ container[Top(t).driver] = "starting"
    /\ null_refs' = null_refs \cup (Caller(t) \X {Top(t).driver})
    /\ Return(t)
    /\ UNCHANGED <<is_started, device_list, container, instances, exit_all, pc, cmd, object>>

\* "Circular dependency detected": alloc returns -1, alloc_driver sets exit_all
\* and returns, and get() hands the caller a reference to nothing.
CircularDependency(t) ==
    /\ stack[t] # <<>> /\ Top(t).at = "alloc"
    /\ container[Top(t).driver] = "starting"
    /\ exit_all' = TRUE
    /\ null_refs' = null_refs \cup (Caller(t) \X {Top(t).driver})
    /\ Return(t)
    /\ UNCHANGED <<is_started, device_list, container, instances, pc, cmd, object>>

\* The constructor calls ctx.get<>() for its next dependency.
AskFor(t) ==
    /\ stack[t] # <<>> /\ Top(t).at = "construct"
    /\ Top(t).asked < Len(Needs[Top(t).driver])
    /\ LET d    == Needs[Top(t).driver][Top(t).asked + 1]
           next == [stack[t] EXCEPT ![Len(stack[t])].asked = @ + 1]
       IN  stack' = [stack EXCEPT ![t] = IF is_started[d] THEN next ELSE Append(next, Frame(d))]
    /\ UNCHANGED <<is_started, device_list, container, instances, null_refs, mutex,
                   exit_all, pc, cmd, object>>

\* The constructor returns; the container stores the driver.
Construct(t) ==
    /\ GoOn(t, "construct", "publish")
    /\ Top(t).asked = Len(Needs[Top(t).driver])
    /\ instances' = [instances EXCEPT ![Top(t).driver] = @ + 1]
    /\ container' = [container EXCEPT ![Top(t).driver] = "started"]
    /\ UNCHANGED <<is_started, device_list, null_refs, mutex, exit_all, pc, cmd, object>>

\* device_list = make_unique<Driver>; is_started = true; return.  Another
\* thread can see the second store before the first.
Publish(t) ==
    /\ \/ /\ GoOn(t, "publish", "device") \/ GoOn(t, "started", "both")
          /\ device_list' = [device_list EXCEPT ![Top(t).driver] = @ + 1]
          /\ UNCHANGED is_started
       \/ /\ GoOn(t, "publish", "started") \/ GoOn(t, "device", "both")
          /\ is_started' = [is_started EXCEPT ![Top(t).driver] = TRUE]
          /\ UNCHANGED device_list
    /\ UNCHANGED <<container, instances, null_refs, mutex, exit_all, pc, cmd, object>>

Published(t) ==
    /\ stack[t] # <<>> /\ Top(t).at = "both"
    /\ Return(t)
    /\ UNCHANGED <<is_started, device_list, container, instances, null_refs,
                   exit_all, pc, cmd, object>>

AllocDriver(t) ==
    \/ Lock(t) \/ CheckAgain(t) \/ AllocInContainer(t)
    \/ CircularDependency(t) \/ AskFor(t) \/ Construct(t) \/ Publish(t) \/ Published(t)

-----------------------------------------------------------------------------
(* Server::Server: driver_manager.init() runs before any session exists. *)

Booted == pc[Main] = "up"

\* get<Common>().init(), after which the constructor stores exit_all = false.
\* If ctx.init() fails before, Server::Server exits: nothing has been started
\* and no thread exists, so the model begins where it has succeeded.
Boot ==
    /\ Move(Main, "fetch", "up")
    /\ exit_all' = FALSE
    /\ UNCHANGED <<alloc_vars, cmd, object>>

-----------------------------------------------------------------------------
(* DriverManager::execute, for a command with driver >= 2. *)

Receive(t, d) ==
    /\ Booted
    /\ Move(t, "idle", "check")
    /\ cmd' = [cmd EXCEPT ![t] = d]
    /\ UNCHANGED <<alloc_vars, exit_all, object>>

\* if (!is_started) start(driver), without the mutex.  get() does the same.
Check(t) ==
    /\ pc[t] = "check"
    /\ IF is_started[cmd[t]]
       THEN Move(t, "check", "fetch") /\ UNCHANGED stack
       ELSE Move(t, "check", "alloc") /\ stack' = [stack EXCEPT ![t] = <<Frame(cmd[t])>>]
    /\ UNCHANGED <<is_started, device_list, container, instances, null_refs, mutex,
                   exit_all, cmd, object>>

\* start() returns; in Main, get<Common>() does.
Started(t) ==
    /\ stack[t] = <<>>
    /\ Move(t, "alloc", IF t = Main THEN "fetch" ELSE "started")
    /\ UNCHANGED <<alloc_vars, exit_all, cmd, object>>

\* device_list[driver - 2].get(), then Driver::execute, which locks the mutex
\* of that object ...
Dispatch(t) ==
    /\ t # Main
    /\ pc[t] \in {"fetch", "started"}
    /\ device_list[cmd[t]] # 0
    /\ \A u \in Threads : ~(object[u] = device_list[cmd[t]] /\ cmd[u] = cmd[t])
    /\ object' = [object EXCEPT ![t] = device_list[cmd[t]]]
    /\ pc' = [pc EXCEPT ![t] = "busy"]
    /\ UNCHANGED <<alloc_vars, exit_all, cmd>>

\* ... or reads dev_abs->type of a null pointer: SIGSEGV.
Crash(t) ==
    /\ t # Main
    /\ pc[t] \in {"fetch", "started"}
    /\ device_list[cmd[t]] = 0
    /\ pc' = [pc EXCEPT ![t] = IF pc[t] = "started" THEN "crashed_after_start" ELSE "crashed"]
    /\ UNCHANGED <<alloc_vars, exit_all, cmd, object>>

\* The operation returns and unlocks the mutex of the driver.
Finish(t) ==
    /\ Move(t, "busy", "idle")
    /\ object' = [object EXCEPT ![t] = 0]
    /\ cmd' = [cmd EXCEPT ![t] = NoDriver]
    /\ UNCHANGED <<alloc_vars, exit_all>>

Execute(t) == Check(t) \/ AllocDriver(t) \/ Started(t) \/ Dispatch(t) \/ Crash(t) \/ Finish(t)

Next ==
    \/ Boot
    \/ \E t \in Threads, d \in Drivers : Receive(t, d)
    \/ \E t \in Callers : Execute(t)

Spec == Init /\ [][Next]_vars

\* Every thread is scheduled and driver operations return.
FairSpec == Spec /\ WF_vars(Boot) /\ \A t \in Callers : WF_vars(Execute(t))

-----------------------------------------------------------------------------
Points == {"lock", "started?", "alloc", "construct", "publish", "device", "started", "both"}
Frames == [driver : Drivers, asked : Nat, at : Points]

\* Type invariant.
TypeOK ==
    /\ is_started \in [Drivers -> BOOLEAN]
    /\ device_list \in [Drivers -> Nat]
    /\ container \in [Drivers -> {"absent", "starting", "started"}]
    /\ instances \in [Drivers -> Nat]
    /\ null_refs \subseteq Drivers \X Drivers
    /\ mutex \in Callers \cup {NoThread}
    /\ stack \in [Callers -> Seq(Frames)]
    /\ exit_all \in BOOLEAN
    /\ pc \in [Callers -> {"idle", "check", "alloc", "fetch", "started", "busy", "crashed",
                           "crashed_after_start", "up"}]
    /\ pc[Main] \in {"check", "alloc", "fetch", "up"}
    /\ cmd \in [Callers -> Drivers \cup {NoDriver}]
    /\ object \in [Callers -> Nat]

\* drivers_table.hpp: "Drivers are stored as unique_ptr ensuring single
\* instantiation of each driver", whichever threads and constructors ask for
\* it, also in a circle; nor is its Driver<> object, which has the mutex,
\* ever replaced.
SingleInstantiation == \A d \in Drivers : instances[d] <= 1 /\ device_list[d] <= 1

\* A thread that went through start() itself never finds a null device, in
\* spite of the unlocked reads and whatever the other threads start.
StartedDriverIsFound == \A t \in Threads : pc[t] # "crashed_after_start"

\* A driver is constructed after everything it needs, except for a dependency
\* of its own that closes a circle; then exit_all is set, so the server does
\* not go on with a reference to nothing.
DependenciesComeFirst ==
    \A d \in Drivers : instances[d] > 0 =>
        \A i \in 1..Len(Needs[d]) : 
            \/ instances[Needs[d][i]] > 0
            \/ <<d, Needs[d][i]>> \in null_refs /\ exit_all

\* The inductive invariant.  A constructor waits for the call that is next on
\* the stack; the thread past the lock of its outermost call owns the mutex.
Waits(t, i) ==
    /\ stack[t][i].at = "construct" /\ stack[t][i].asked > 0
    /\ stack[t][i + 1].driver = Needs[stack[t][i].driver][stack[t][i].asked]

StackInv ==
    \A t \in Callers :
        /\ mutex = t <=> stack[t] # <<>> /\ stack[t][1].at # "lock"
        /\ stack[t] # <<>> => pc[t] = "alloc" /\ stack[t][1].driver = cmd[t]
        /\ \A i \in 1..Len(stack[t]) : stack[t][i].asked <= Len(Needs[stack[t][i].driver])
        /\ \A i \in 1..Len(stack[t]) - 1 : Waits(t, i)

Publishing == {"publish", "device", "started", "both"}

\* What a call says about its driver.
FrameInv(t, i) ==
    LET d == stack[t][i].driver
    IN  /\ stack[t][i].at = "alloc" => ~is_started[d]
        /\ stack[t][i].at = "construct" => container[d] = "starting"
        /\ stack[t][i].at \in Publishing =>
              /\ container[d] = "started"
              /\ device_list[d] = IF stack[t][i].at \in {"device", "both"} THEN 1 ELSE 0
              /\ is_started[d] <=> stack[t][i].at \in {"started", "both"}

FramesInv == \A t \in Callers : \A i \in 1..Len(stack[t]) : FrameInv(t, i)

OneConstructor ==
    \A t \in Callers : \A i, j \in 1..Len(stack[t]) :
        i # j /\ stack[t][i].at = "construct" /\ stack[t][j].at = "construct"
          => stack[t][i].driver # stack[t][j].driver

BeingConstructed(d) ==
    /\ mutex # NoThread
    /\ \E i \in 1..Len(stack[mutex]) :
          stack[mutex][i].driver = d /\ stack[mutex][i].at = "construct"

BeingPublished(d) == mutex # NoThread /\ Top(mutex).driver = d /\ Top(mutex).at \in Publishing

\* A driver that is started is published, except while the owner of the mutex
\* is about to publish it.
DriverStateInv(d) ==
    /\ instances[d] = IF container[d] = "started" THEN 1 ELSE 0
    /\ container[d] # "started" => ~is_started[d] /\ device_list[d] = 0
    /\ container[d] = "started" => (is_started[d] /\ device_list[d] = 1) \/ BeingPublished(d)
    /\ container[d] = "starting" => BeingConstructed(d)

PublishedInv == \A d \in Drivers : DriverStateInv(d)

\* A thread that came back from start() has its driver, and the thread that
\* executes a command has locked the only object of its driver.
CommandInv ==
    /\ cmd[Main] = Common
    /\ \A t \in Threads :
          /\ pc[t] # "idle" => cmd[t] \in Drivers
          /\ pc[t] = "busy" => object[t] = 1
          /\ pc[t] # "crashed_after_start"
    /\ \A t \in Callers :
          (pc[t] = "alloc" /\ stack[t] = <<>>) \/ pc[t] \in {"started", "busy"}
            => device_list[cmd[t]] = 1

DriverInv ==
    /\ TypeOK
    /\ StackInv
    /\ FramesInv
    /\ OneConstructor
    /\ PublishedInv
    /\ CommandInv

\* Why dependencies come first: what a constructor has asked for is there, or
\* is the call it waits for.
Asked(t, i) ==
    \A j \in 1..stack[t][i].asked :
        \/ instances[Needs[stack[t][i].driver][j]] > 0
        \/ <<stack[t][i].driver, Needs[stack[t][i].driver][j]>> \in null_refs /\ exit_all
        \/ i < Len(stack[t]) /\ j = stack[t][i].asked

\* Server::Server, which clears exit_all at its end, constructs Common only.
BootInv ==
    ~Booted => /\ null_refs = {}
               /\ \A t \in Threads : pc[t] = "idle"
               /\ Len(stack[Main]) <= 1
               /\ \A d \in Drivers : instances[d] > 0 => d = Common

AskedInv ==
    /\ \A t \in Callers : \A i \in 1..Len(stack[t]) : Asked(t, i)
    /\ BootInv

Service == INSTANCE DriverService WITH
             Threads <- Threads,
             up      <- {d \in Drivers : instances[d] > 0},
             running <- [t \in Threads |-> IF pc[t] = "busy" THEN cmd[t] ELSE NoDriver]

\* Commands run on constructed drivers, one at a time per driver.
ServiceSpec == Service!Spec

\* Threads that start drivers at the same time, drivers that need each other
\* too, do not block each other: every start() returns.
StartCompletes == \A t \in Callers : pc[t] = "alloc" ~> pc[t] # "alloc"
=============================================================================
