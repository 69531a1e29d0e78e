# A TLA+ model of the Koheron server and the sesenta acoustic camera

The repository is an acoustic camera on a Zynq: Verilog that samples the
microphones, a C++ server (a copy of the Koheron SDK) that runs on the ARM core
and gives clients access to the hardware through *drivers*, and clients in
Python, C++ and (over WebSocket) a browser. This directory holds TLA+ modules
that model it, the TLC configurations that check them on small instances, and
TLAPS proofs of what matters most for every instance.

`PROJECT.json` records, for every definition that models code, the lines it
models (`map`), every run with what it checks, the hazards of the code with the
properties that cover them, the findings and the theorems.

## 1. The system

### Components

| component | state | operations | talks to |
|---|---|---|---|
| session pool `server/core/session_manager.*` | map id → session, stack of reusable ids, count, mutex | `create_session`, `delete_session`, `get_session`, `delete_all`, `exit_comm` | session threads and the main thread, all at once |
| listening channels `server/core/listening_channel.cpp`, `server.hpp` | listening socket, `is_ready`, number of threads, statistics | `init`, `start_worker`, `comm_thread_call`, `shutdown`, `join_worker` | kernel (accept), starts session threads |
| server `server/core/server.*`, `main.cpp`, `signal_handler.*` | `exit_comm`, `exit_all`, the three channels | `run`, `start_listeners_workers`, `is_ready`, `close_listeners` | everything |
| session `server/core/session.*` | descriptor, `exit_signal`, `status`, command buffer | `run`, `read_command`, `recv`, `send` for TCP, UNIX and WebSocket | pool, drivers, client |
| WebSocket `server/core/websocket.*` | read buffer, frame header, `connection_closed` | handshake, frame reader, frame writer | session |
| driver manager `server/core/drivers_manager.*`, templates | per driver: started flag, object; recursive mutex, per-driver mutex | `execute`, `alloc_driver`, `get`, constructor dependencies | sessions, drivers |
| serialisation `server/core/serializer_deserializer.hpp`, `commands.hpp` | none | pack and unpack of scalars, vectors, strings | sessions, generated parser |
| command parser generator `server/__init__.py`, `server/templates` | none at run time | writes one `execute_operation` per driver operation | drivers |
| hardware context `server/context` | mapped register windows, SPI and I2C devices, fclk and FPGA manager | register read, write, read-modify-write; `init` | drivers |
| DMA driver `server/drivers/dma-s2mm.hpp` | registers of two AXI DMA engines | `setup_transfer` (`reset`, `start`, `set_length`), `wait_for_transfer` | FPGA |
| sesenta `projects/sesenta/sesenta.hpp` | flags and buffers of the beamforming thread | captures, microphone selection, delays, beamforming | DMA, FPGA registers |
| FPGA cores `fpga/cores`, RTL `projects/sesenta` | counters, shift registers, block RAMs | one step per clock | sesenta through registers |
| clients `python/koheron`, `server/client` | socket | send a command, wait for a reply | session |

### What is hard here

* **Threads.** Every connection has a detached thread, every kind of socket a
  listening thread, and `Server::run` is a third party that deletes sessions
  from under their threads. `get_session`, `get_session_ids` and
  `SessionManager::exit_comm` read the `std::map` without its mutex.
* **Reuse.** Session ids and descriptor numbers are both reused at once. A
  thread that holds on to one after it was given away acts on another client.
* **Shutdown.** Sessions are deleted before the listeners are closed, so new ones
  appear while `delete_all` runs.
* **Lazy start.** The first command of a driver constructs it, while other
  threads read its flags without a lock and constructors ask for other drivers.
* **Partial messages.** `read()` returns any number of bytes, a connection ends
  inside a command, and two independent copies of the serialisation, in the server
  and in the client, must agree on every byte.
* **Hardware that is waited for.** Captures are polled without a time-out. DMA
  transfers are not polled at all: the driver sleeps for three times what they
  should take, gives up on an engine that does not answer and goes on.
* **Counters nobody resets.** The packet counter of `axis_tlast` goes on from
  where the last transfer left it.

Each such point is listed in `PROJECT.json` under `hazards` at its line.

## 2. Modules

    SessionRegistry          abstract: live sessions under unique ids
      ^ implements
    SessionManager           the pool, step by step         <- SessionManagerProofs
      + ListeningChannel     accept, refuse, drop, hand over, descriptors
      = Server               session threads, main thread   <- ServerProofs,
                                                               OwnershipProofs
    DriverService            abstract: drivers come up once, one command at a time
      ^ implements
    DriverManager            lazy start under a recursive mutex
                                                            <- DriverManagerProofs
    Capture                  FPGA capture and the driver's threads  <- CaptureProofs
    WireFormat               digits, sizes and families of types
      + Serializer           the server's serialisation
      + Session              a TCP session and the generated parsers
      + WebSocket            a WebSocket session: handshake, frames
      + ClientSerializer     the client's serialisation
      = Link                 one client, one connection, one session
                                                <- LinkLemmas, LinkProofs
    DmaTransfer              DMA commands, streams, gates and engines
                                                            <- DmaTransferProofs

`MCServer`, `MCDriverManager`, `MCCapture`, `MCLink` and `MCDmaTransfer` give the
constants values.

**SessionManager.** Variables have the names of the members of the class.
`create_session` is `CreateChooseId`, `CreateInsert`, `CreateCount`;
`delete_session` is `DeleteLookup`, `DeleteErase`, `DeletePush`, `DeleteCount`,
or `DeleteNotAllocated`. They are split because other threads read the pool
and the count without the mutex in between. A session object has the name of
the thread that creates it. `mutex` is the holder of the lock guard.

**ListeningChannel.** `comm_thread_call` as `Begin`, `LoopHead`, `Accept*`,
`CheckExit`, `Dispatch*`. The kernel is external and modelled by how the code uses
it: `accept` takes a queued connection and gives it the *lowest free* descriptor
number, fails when the listening socket was shut down or when no number is left,
may be interrupted by a signal at any time (`AcceptInterrupted`, without fairness), and
blocks otherwise. A connection that comes when `is_max_threads()` holds, or
when `exit_comm` is set, is *dropped*: the code forgets the descriptor without
closing it. The model keeps such a number occupied for good.

**Server.** Composes the two. A session thread goes through
`session_thread_call` and `Session::run` (`enter, create, get, init, loop, read,
exec, delete, leave, done`). Commands are abstracted to "a command", "no more
commands" and "a driver crashes". The main thread goes through `Server::run`
and `close_listeners`.

*Data races are choices.* A thread that searches or iterates the map without
the mutex while another one is inside `insert` or `erase` may miss any entry:
`SeenIds(t)` is then every subset of the ids. It may as well read an erased node and
fault (`GetSessionFaults`; `MainFaults` in `delete_all` and `exit_comm`). Each iteration
is one step, so ids of different moments are not mixed in one list. `get_session` uses `at()`, which
throws when it misses; nothing catches it in a detached thread, and the process
is `aborted`. What a thread reads from a destroyed Session is any value. A
crashing driver raises SIGSEGV, whose handler asks for the exit and returns to
the faulting instruction: the thread is `crashed` and never continues. When that is
the main thread, the server is never shut down.

**DriverManager.** `stack[t]` is the stack of nested `alloc_driver` calls of a
thread, one frame per driver under construction. Since the flags are plain
`bool`s, the two stores that publish a driver reach other threads in either
order (`Publish`). A thread that sees `is_started` before `device_list` calls a
null driver: `Crash`.

**Capture.** Hardware and software in one module, since what is interesting is
between them. `Clock` is one clock of the FPGA: the delay selection and the delay
lines (`DelayLines`), the registers of `sesenta.v` (`LatchSamples`), the address
counter (`CountAddress`) and port B of the block RAMs (`WriteMemory`) all take
their inputs from before the clock edge. The actions of a thread are the register
accesses of `set_mic_sel` (`SelectDirection`, `SetStart`, `ClearStart`,
`WaitDone`), one word of the copy in `get_mic_ith` (`ReadWord`), and the loops of
`beamf_thread` and `get_mics_bram` around them. The beamforming threads never take
the driver mutex and there may be several of them; the session threads take it, so
there is one `Client`. Audio data is abstracted to the number of the sample and
the delays it was taken with. The four block RAMs are written in lockstep and are
one function. Registers without an initial value start at 0, as the FPGA loads
them. Which direction has the largest power is a free choice.

**Link.** One connection from both ends. `up` and `down` are the bytes on their
way. What the TCP session reads is digits base `Radix`; `WireFormat` says how many
each type has, and `append_int`, `extract_int` put them in the order of the shifts
in the code, so a value is really taken apart and put together again, once by
`serializer_deserializer.hpp` (`Serializer`) and once by the copy in
`koheron-client.hpp` (`ClientSerializer`).

`Session` is what a session does with them. `need` is the rest of the
`rcv_n_bytes` in progress and `Read` one `read()` of any size. `build_args_packs` groups
arguments as `server/__init__.py` does, and `Parse` is the generated parser: it
reads pack after pack and then executes. The generated code tests the result of a
read for `< 0`, while `rcv_n_bytes` returns 0 at the end of the stream: `EofInPack`
goes on to the next pack with what is in the buffer (`Unknown`), and at the end
of the arguments the operation runs. `EofInLength` does so with a length that was
not read: any vector may come out, or an allocation that aborts the server. An
error (`-1`) is tested and the command is given up, except in front of a vector: there
it is divided by the size of an element first, and the operation runs with an empty one.

`WebSocket` adds the handshake, which must arrive in one read, and
the frame reader: the header, the two longer forms of a length, the mask, the limit of
`read_header`, and the test of `read_n_bytes` that takes a frame of exactly
`KOHERON_READ_STR_LEN` bytes for an overflow. A byte carries what it is, so one
read at the wrong place shows. `RetryRead` is the loop on a failing read.
`FitsSendBuffer` is the condition under which `send` drops a reply.

`Link` adds the C++ client (`Call`, `RecvStatic`, `RecvLength`, `RecvDynamic`) or a
browser (external) that may die within a call, close, or lose the connection.
The histories `calls`, `executed` and `received` say what was called, what ran and
which result was taken for which call.

**DmaTransfer.** A command is a sequence of register accesses, `todo`; the FPGA
runs between any two. For each of the two banks: `valid` is the beat that
`axis_variable` offers until it is taken, `gate` the bit of `pipeline_gate`, `beats` the
counter of `axis_tlast`, `engine` and `fifo` the AXI DMA. A beat passes as soon as it
can (`Settled`): the FPGA clock is thousands of times faster than samples and a
register access takes many clocks. The engine is external. What is assumed of it:
it comes out of reset and starts some time later or never; it takes a transfer
when running and given a length that is not 0 in its 23 bits; it takes every
beat of a transfer, and up to `Skid` beats ahead of one, which become its first rows, up to the
last beat of the stream or to the length; a reset drops them.
`ASSUME Skid < ReadOffset` is what `read_offset` is for: the beats taken
ahead were counted by `axis_tlast` and are missing from the next transfer, which
is so much shorter than `n_samples`. The memory is abstracted to the number of
rows the last transfer has written; older rows are *old*. What a command reads is a
record of the microphones, the stride, the samples and the banks (`get_mics6`,
`get_mics4`, `get_mics`, `get_mics_ith`, `read_mics6`, each with the numbers of its
own loops), from which `RowsReadBy` computes the rows, and `data_ret` is the answer:
what was read, its rows, and which of them are old. `get_mics` steps by 16 words through rows of 8, `get_mics_ith`
takes a microphone beyond the row from the next one, and `read_mics6` reads as
many rows as its own argument says, whatever was transferred. From 2^31 samples on
`(int)samples` is negative and the loop does not run; at 2^31 - 1 the sum
overflows and it runs not at all or for all (`Iterations`). A row beyond the mapped 16 MiB
counts as old; the program would fault there.
`Sample` keeps a sample that coincides with the taking of the one before, which
`axis_variable` loses; with `Settled` the two never coincide. `failed` records that a loop gave up with its
log line or that a length was out of range. In each sleep of 500 ms at least as many
samples come as the frequency in the code says; really there are 15 times as many.

## 3. Runs

| run | instance | what it shows |
|---|---|---|
| `server` | 3 TCP clients, 2 workers, 2 descriptors, symmetric | while the server serves no thread runs, reads from or deletes the session of another client (`ThreadOwnsItsSession`); at all times every open descriptor is accounted for and every session of the pool has its own (`DescriptorsAreOwned`); ids are unique (`NoIdIsPooledAndReusable`, `InsertIsFresh`), the count is right (`CountMatchesPool`), the inductive invariant `SMInv` of the proof holds, and the pool implements `SessionRegistry` |
| `channels` | 1 TCP and 1 WebSocket client, a worker each | the same ownership when two listeners accept at once and the handshake can fail; the inductive invariant `ServerInv` |
| `shutdown` | 2 WebSocket clients, 1 worker, 2 descriptors; with both taken `accept` fails and loops | a requested exit ends `run()` unless the main thread faults in the map (`ShutdownCompletes`); a thread that left `Session::run` deletes its session (`FinishedSessionIsDeleted`); under fairness |
| `drivers` | 3 sessions; common, dma, sesenta and two drivers that need each other | one instance per driver and one driver mutex (`SingleInstantiation`), a thread that went through `start` finds its driver, dependencies are constructed first, except one that closes a circle (`DependenciesComeFirst`), commands of a driver one at a time on a constructed driver (`ServiceSpec`), every start returns; the inductive invariants `DriverInv` and `AskedInv` hold; the circle is detected, the server is told to exit, and nobody waits for ever |
| `capture` | 1 beamforming thread, 3 directions, 2 microphones, 3 words; a client that copies the block RAM and sets the LEDs | what the thread adds up for a direction are successive samples with the delays of that direction (`BeamIsSteered`), although selection, samples, counter and polling all have their own delays; the inductive invariant `SteeringInv` |
| `capture_shared` | beamforming thread and a client that captures another direction, 4 words | a capture that is done is complete (`DoneMeansComplete`) whoever restarts it when; the inductive invariant `CaptureInv` |
| `capture_live` | 2 beamforming threads and all commands, 2 words | everyone who polls for the end of a capture gets it (`CaptureEnds`) |
| `link` | 6 operations with every family of arguments and results; a TCP client or a browser; 2 calls | operations run in order, once, with the arguments they were called with (`ExecutedAsCalled`); what the client takes for the result of a call is the result of that call (`RepliesInOrder`); a session ends, and a client brings the server down, only for the reasons listed (`SessionEndsForAReason`); no call waits for ever (`CallIsAnswered`). The assumptions are evaluated first: `RoundTrip` compares the two serialisers on the ends of every type, `CodecAssumption` takes every call and every answer apart again |
| `dma` | 3 transfers of 2 sizes and one that wraps around; gates and `n_samples` set in between, the memory read by all the commands that do | a command that reads one row for each sample of the transfer returns no old row, and what any command reads beyond the points is old (`RowsOfTransfer`), the counter of `axis_tlast` stays in step (`CounterInStep`), and a command returns whatever the engines do (`CommandReturns`); the inductive invariant `DmaInv` |
| `delete_all_empties` | *violation* | `assert(number_of_sessions == 0)` at the end of `delete_all` is wrong: the listeners still accept while it runs |
| `max_threads` | *violation* | the "max parallel connections" of `config.hpp` is exceeded: the counter the listener tests is incremented later, by the session thread |
| `capture_source` | *violation*; 4 directions | "select source mic (0-3)" of `sesenta.v` is not what `delay_module` does: its table is numbered 1 to 4, direction 0 of the beamforming thread is not steered at all |

**Why the bounds are enough.** Two sessions are needed for an id or descriptor
to change hands, a third to take part in the middle of it. With two descriptors and three
clients the numbers run out, so both reuse and a failing `accept` happen; in
`shutdown` two clients hold both numbers, one of them dropped, while the listener
still accepts. With one
or two workers the maximum is reached. Three threads are needed for one to construct
a driver, one to wait for the mutex and one to read the flags without it.
Symmetry is used only in safety runs, over connections on one channel.
A block RAM of 4 words has a first, a middle and a last written word (word 0 is never
written), one of 3 a first and a last; sample
numbers are modulo more than the number of words, so a lost or repeated sample
shows. The sleep, 1 us, is 100 clocks at `fclk0`. One clock is the hardest case for the
pipeline of the delay selection, and `capture` and its proof show that even that is
enough; `capture_source` sleeps three.
Samples come at any distance of two clocks or more (really 2000 or so): no property
relies on more.

In `link` a "byte" has 4 values, so a uint64_t has 8 digits and still every digit
has its place; the limits of the buffers are 20 bytes of payload, 23 and 28, and the
arguments lie on both sides of each and on it. Two calls are enough for
something left over of one to reach the next. In `dma` the constants keep the
relations of the code (`Skid = ReadOffset - 1`; two banks and a shared counter that allows
more than one sleep), `MaxTransfers` and `MaxFailed` bound the transfers:
out of step after one transfer shows in the second, and the third is set up
by one whose gates were left open. The other commands are not bounded.

**Fairness.** Weak fairness for each listening thread, for the main thread, and
for what a session thread does without waiting for its client. Nothing is
assumed of clients, signals, reads, the WebSocket handshake, driver operations
or replies: `read_n_bytes` may repeat a failing read for ever, and a reply may
block. `MainCannotListen` and `MainNotifiesReady` need not happen. Weak fairness
is enough for the mutex because every caller takes it finitely often (once
to create, once to delete; `delete_all` once per id it listed). In
`DriverManager` driver operations are assumed to return, which waiting for the
driver mutex requires; `StartCompletes` only depends on the recursive mutex.

In `Capture` the clock runs and samples keep coming. Threads get strong fairness,
step by step. Two of their steps can be disabled again: a register write
while another one is on its way (the bus serves every master), and the poll of
`done_capture` when another thread restarts the capture. The poll is a tight loop,
and between the end of a capture and the next start every other thread has a block
RAM to copy over the bus or a command to receive, so a poll does not miss every one
of infinitely many ends. No fairness is assumed of commands.

In `Link` the session thread runs, and a client that receives goes on receiving
(weak fairness of `Serve` and `Receive`); nothing makes a client call or go away.
In `DmaTransfer` the thread of the command runs, samples keep coming and beats
pass. Nothing is assumed of the engines: `CommandReturns` holds because every
loop gives up.

Deadlock is checked in every run: a state without a step would be one where
everyone waits. `Ended` is the state of a process that is gone.

## 4. Proofs

Each `...Proofs` module proves, for every value of the constants, an inductive
invariant that a run also checks, and from it the properties. All have the same layout:
lemmas about operators, `Init => Inv`, one lemma per action or per conjunct, and the
temporal theorems at the end.

**The pool** (`SessionManagerProofs`, `ServerProofs`) for any set of session threads,
clients, channels' limits and descriptors. Assumptions: the main thread is not a
session thread and the "no thread" value is neither (`SessionsAssumption`), the
constants of the channels have their types (`ChannelAssumption`), and there is one
session thread per connection (`ServerAssumption`).

* `CountMatchesPool` and `InsertIsFresh` are not inductive: the id
  `create_session` gives out is `number_of_sessions`, which is unused only if the ids
  in use and the reusable ones together are exactly `0 .. n-1`. The inductive
  invariant `SMInv` says this in every intermediate state of a call
  (`IdsAreInitialSegment`), with the size of the pool (`PoolSizeInv`), the
  distinctness of ids (`NoIdIsPooledAndReusable`, `CallIdInv`) and mutual
  exclusion (`OnlyOwnerIsCalling`). `PoolInvariant` proves it.
* From it: `IdsAreNotShared`, `CountIsCorrect`,
  `InsertedIdIsFresh`, and `PoolImplementsRegistry`, the refinement.
* `ServerUsesPool` proves that the composition takes only steps of
  `SessionManager` on the pool (`Spec => SMSpec`), so everything proved of the pool
  holds in the whole server: `ServerCountIsCorrect`, `ServerImplementsRegistry`.
* `ServerTypeCorrect` proves the type invariant of the composition.

**Ownership in the server** (`OwnershipProofs`), from the same assumptions, with
signals, crashing drivers, refused and dropped connections at any moment.

* Who owns a descriptor depends on where its connection is, so `ServerInv` follows the
  connection: it is with its listening thread and then with its session thread
  (`HandOverInv`), that thread is inside `create_session` or `delete_session` only where
  its code calls them (`CallsInv`), its object is in the pool at most once
  (`ObjectsInv`), an open connection is behind exactly one descriptor and
  a descriptor behind at most one connection (`DescriptorsInv`), and until
  `delete_all` a thread's id leads to its own object (`OwnSessionInv`, which needs that
  ids are not shared, from `SMInv`).
* `ServerInvariant` proves it; `DescriptorOwnership` and `SessionOwnership` follow.
  The second is about the time before the shutdown: afterwards `delete_all` takes
  sessions from their threads and it is not true.

**The driver manager** (`DriverManagerProofs`) for any drivers, any needs (circles
included) and any number of threads. `DriversAssumption`: the names are distinct and the
driver that `Server` starts by itself needs none, which is so in the code.

* `DriverInv`: who is past the lock owns the recursive mutex and every call below
  the top of a stack is in a constructor (`StackInv`, `FramesInv`), no driver is
  under construction twice (`OneConstructor`), flags and objects agree with the call
  that writes them, in either order of its stores (`PublishedInv`, `CommandInv`).
  From it `ConstructedOnce`, `StartIsComplete`.
* `DependenciesComeFirst` needs what a constructor has been given so far:
  `AskedInvariant`, then `DependenciesFirst`.
* `ManagerImplementsService`: the refinement of `DriverService`, action by action.

**Captures** (`CaptureProofs`) for block RAMs of any size of at least two words
and any set of threads (`CaptureAssumption`).

* `CaptureInvariant` and `DoneIsComplete` hold for any order of register
  writes. `DoneMeansComplete` is not inductive: that the words up to the
  last are successive samples must be known while they are written, and there is
  a clock between counting an address and writing it. `CaptureInv` says for both
  halves which words are filled and that the newest sample of the delay lines
  is the successor of the last one written or about to be written. The key fact is
  that two samples never come in successive clocks, which is why the counter stops
  before it wraps. The proof has one lemma per branch of `addr_counter` and shows
  that threads cannot disturb it. `CaptureTypeCorrect` gives the types it needs.
* `SteeringInvariant` and `BeamSteered` have the hypothesis `OnlyTheBeamCaptures`: clients copy
  the block RAM and set the LEDs, but none captures or starts a second thread.
  The driver gives no protection against those, and with them the property is false.
  `SteeringInv` follows a selection through the registers (`SelectionInv`), shows that the
  capture starts afresh within the sleep, however short, so that a `done_capture` left
  over from the capture before is not taken for this one's (`StartInv`), and that the words
  are those of this capture (`WordsInv`).

**DMA** (`DmaTransferProofs`) for transfers of any size, any number of them and any
`Skid < ReadOffset`. `DmaAssumption` also has `2 <= Frequency <= 3000 * ReadOffset`
(3072 and 15000 in the code): the duration of the sleep is an integer division,
and with a larger frequency that of a short transfer would be 0.

* The invariant `DmaInv` says for every place in the sequence of accesses (`Pos`) what a
  bank looks like: at rest the counter of `axis_tlast` is ahead by no more
  than the beats in the engine (`Resting`); between `reset` and `set_length` it is ahead by
  what the reset dropped too, and the last beat may have been taken already (`TakenAhead`);
  then rows and counter differ by what was dropped (`Moving`); and while the driver
  sleeps every sample seen is a row (`Progress`).
* That the transfer is over when the sleep is: with `f` samples a second and `n` points there
  are `3000 n / f` ms of it and, in every 500 ms, `f / 2` samples; `LongEnough` shows that
  this is at least `n` in integer arithmetic.
* An answer is there only between two commands (`AnswerInv`), so no transfer changes the rows
  it was taken from; `RowsOfTransfer` is established where it is read, from what the
  invariant of the accesses (`AccessInv`) says of a bank at that place.
* `DmaInvariant`, and from it `DmaTypes`, `RowsRead` and `CounterKept`. `RowsRead` is about
  what is returned: no old row by the commands that read one row for each sample, of a
  transfer of any size; it has `~failed` as a hypothesis and so says nothing of sizes out of range.
* The proof attempt corrected the model: `SetLength` gave an engine that had taken more beats
  ahead than the length more rows than that, which could not happen with `Skid = 1`.

**The link** (`LinkLemmas`, `LinkProofs`) for any interface, any number of calls, any sizes of
the buffers and every way to cut the two streams into reads, over TCP and over a WebSocket.
`LinkAssumption` gives the constants their types. `CodecAssumption` is about one message at a
time: the packs of an operation are its arguments in order and none is empty
(`OperationParses`), the server finds in the bytes of a call the operation and, pack by pack,
its arguments, and nothing is left (`CallDecodes`), the client finds in the bytes of an
answer the header and the result (`ReplyDecodes`), and a length in a frame is read as it was
written (`LengthDecodes`). That is what two right serialisers do; to derive it
from their digits takes induction over data, so TLC evaluates it for every call and answer
of the instance. A serialiser that is changed on one side only makes it false.
What the proof adds is everything between messages: that no reader ever starts in the
middle of one.

* None of the properties is inductive: a command that runs wrong is the result of bytes that
  were read at the wrong place long before. The inductive invariant `Inv` describes the stream.
  `Stream` says that the bytes read and the bytes on their way are, one call after the
  other, what is left of the calls (`Layout`; the place of each call is a witness, a function
  `st` that is shifted when bytes are consumed). `Position` says where in
  the current call the session is, for each place of its loop: between calls, in the `i`-th pack
  or in the length in front of it with the arguments before it decoded (`InPack`), in a frame
  whose length is known so far (`InFrame`), or at its end (`Complete`).
* `CutShort` describes the stream that has ended inside a call: nothing follows, the
  command is marked as cut, and its arguments are right up to one and unknown or empty from
  there (`CutArgs`). `Handshake` and `Stopped` are the states before and after.
* `Downlink` is the same for the answers, of which there is never more than one on its way:
  what has been received and what is still to come is the answer to the last call, and the
  number of bytes asked for ends exactly where `recv_all` has to stop (`Waiting`).
* `LinkLemmas` has the shape of the messages: what masking, unmasking and the three forms
  of a length do to each byte, and what consuming bytes does to a `Layout`. `LinkProofs` has one
  lemma per action for `Typing` and `Uplink`, and one for `Histories` and `Downlink`.
* From it `TypeCorrect`, `RunsWhatIsCalled`, `AnswersWhatIsCalled` and `SessionEnds`. TLC has also
  checked `Inv` on the instance of the run, with `st` computed from the state.
* The proof attempt corrected `ExecutedAsCalled`. It said that only the last *call* can be
  cut, but with an operation that takes a vector and returns nothing, the client may have made
  further calls when the connection is lost: `get_pack_length` fails, the vector
  becomes empty, and the operation runs although it was not the last call. The property now says so and the
  run has such an operation (`load`).

Only model-checked:

* liveness (`ShutdownCompletes`, `FinishedSessionIsDeleted`, `StartCompletes`, `CaptureEnds`,
  `CallIsAnswered`, `CommandReturns`), which is outside the prover's reach;
* `RoundTrip` and `CodecAssumption` of `Link`: what the serialisers compute for a sequence
  of any length takes induction over data. TLC evaluates them.

## 5. What the models show beyond the properties

Behaviour that no comment or test of the repository rules out, so that there is no
property to refute; the models have it and the properties name it as an exception:

* An operation runs with arguments that were never received when its client goes
  away in the middle of a command, and with an empty vector when the connection is lost in
  front of it (`ExecutedAsCalled`, second case).
* A session does not survive a WebSocket frame of exactly `KOHERON_READ_STR_LEN` bytes,
  and a client waits for ever for a reply that does not fit into `send_buf`.
* Once `reset` or `start` has given up, or a length was out of range, the counter of
  `axis_tlast` may be further ahead than `read_offset` makes up for. Later transfers then end
  early, and their commands return old rows without an error: nothing but a reset of
  the FPGA or a lucky length puts it back (without `~failed`, `CounterInStep` and
  `RowsOfTransfer` are violated).
* From 32763 samples on the length does not fit the 23 bits of the register.
* `get_mics` steps by 16 words through rows of 8, so from 4 samples on it also
  returns rows that its transfer did not write. So does `read_mics6` with a larger
  argument than the transfer had.
* `get_session` may miss its entry and abort the server, or fault.
* The main thread may fault while it iterates the map at the shutdown; the server
  then goes on serving whoever is connected and never ends.
* During the shutdown a session thread whose id was given out again may delete the
  session of the new client.

## 6. Plan

Every invariant and every refinement that a run checks is also proved.
Proofs to come: action properties of the shutdown of the server (what
`delete_all` may and may not take from a thread); `CodecAssumption` for families of types
of fixed size, whose digits need no induction.
Models to come: the CIC decimator with its word widths against a reference definition; SPI
and I2C devices shared by drivers, when a configuration uses them.

## 7. Not modelled

* SHA-1 and base64 of the handshake: a request is answered or it is not.
* The Python client; complex numbers in the C++ client, which has none.
* Partial writes: a blocking `write` to a socket returns early only on a signal.
* SPI, I2C, the FPGA manager and the clocks of the context: no driver of the
  sesenta configuration uses them. Optional drivers it does not build, the
  second copy of the context under `client/`.
* The CIC decimator, the clock generators, the LED driver and the AXI handshakes of
  the register cores: an access to a register is one step.
* `ListenerStats`, which nothing reads.
* The build: extraction of the operations from headers, templates, Tcl, board
  presets, notebooks; logging.
