---------------------------- MODULE DmaTransfer -----------------------------
(***************************************************************************)
(* The transfer of raw microphone samples to memory: the commands of       *)
(* sesenta.hpp that use the DMA, the driver DmaS2MM (dma-s2mm.hpp), the    *)
(* cores axis_variable and axis_tlast of the FPGA and, external, the two   *)
(* AXI DMA engines.                                                        *)
(*                                                                         *)
(* There are two banks of microphones, each with its stream, its gate, its *)
(* engine and its memory. A beat of the stream fills one row of the        *)
(* memory. The commands run one at a time, under the mutex of the driver;  *)
(* a command is the sequence of its accesses to the registers, and the     *)
(* FPGA runs between any two of them.                                      *)
(***************************************************************************)
EXTENDS Integers, Sequences, FiniteSetsExt

CONSTANTS
    ReadOffset,     \* read_offset, 5 in the code
    MaxSleeps,      \* max_sleeps_cnt, 4 in the code
    Frequency,      \* pdm_f, the samples per second the driver counts on
    Word,           \* the size of a uint32_t, 2^32
    PointBeats,     \* the beats of the bytes asked for per point, 256 / 32
    LengthRange,    \* beats the length register of an engine can express
    Skid,           \* beats an engine accepts ahead of a transfer
    Samples,        \* arguments of the commands
    MicIdx,         \* second arguments of get_mics_ith
    MaxTransfers,   \* bound: transfers of a run
    MaxFailed       \* bound: once one has failed, transfers of a run

ASSUME DmaAssumption ==
    /\ ReadOffset \in Nat /\ MaxSleeps \in Nat /\ Frequency \in 2 .. 3000 * ReadOffset
    /\ PointBeats \in Nat \ {0} /\ LengthRange \in Nat \ {0}
    /\ MaxTransfers \in Nat /\ MaxFailed \in 0 .. MaxTransfers
    /\ Word \in Nat \ {0} /\ Samples \subseteq 0 .. Word - 1
    /\ MicIdx \subseteq Nat
    /\ Skid \in Nat /\ Skid < ReadOffset

Bank == {0, 1}

NoTransfer == -1

VARIABLES
    valid,          \* int_tvalid_reg of axis_variable: a beat waits
    gate,           \* registers dma_gate and dma_gate1
    n_samples,      \* register n_samples
    beats,          \* cnt of axis_tlast
    engine,         \* state of each DMA engine
    fifo,           \* m_axis_tlast of the beats an engine accepted ahead
    length,         \* register s2mm_length, in beats
    rows,           \* rows written since the last transfer was set up
    todo,           \* the accesses the command in progress has still to do
    sleeps,         \* cnt of reset and of start
    left,           \* total_sleep_duration, in milliseconds
    elapsed,        \* samples seen in the current sleep
    asked,          \* argument of the last transfer
    failed,         \* an ERROR was logged, or a length was out of range
    data_ret,       \* what the last command returned: at most one answer
    transfers       \* transfers so far

fpga == <<valid, gate, n_samples, beats, engine, fifo, length, rows>>
driver == <<todo, sleeps, left, elapsed, asked, failed, data_ret, transfers>>
vars == <<fpga, driver>>

(***************************************************************************)
(* The FPGA. Once the microphones have a sample, axis_variable offers it   *)
(* as a beat until it is taken; axis_tlast lets it through while the gate  *)
(* is open, counts it and marks the n_samples-th as the last.              *)
(***************************************************************************)
m_axis_tlast(e) == n_samples # 0 /\ beats[e] = n_samples - 1

\* External: an engine under reset takes nothing, an engine with a transfer
\* to do takes every beat, and one without takes a few ahead of the next.
m_axis_tready(e) == \/ engine[e] = "busy"
                    \/ engine[e] # "reset" /\ Len(fifo[e]) < Skid

new_sample(e) == valid[e] /\ gate[e] /\ m_axis_tready(e)

\* External: a transfer ends with the last beat of the stream; a stream
\* longer than the length is an error, which halts the engine.
AfterRow(last, r, len) == IF last THEN "idle"
                          ELSE IF r = len THEN "halted" ELSE "busy"

\* A beat passes: at the clock of the FPGA, before anything else happens.
Beat(e) ==
    /\ new_sample(e)
    /\ valid' = [valid EXCEPT ![e] = FALSE]
    /\ beats' = [beats EXCEPT ![e] = IF m_axis_tlast(e) THEN 0 ELSE @ + 1]
    /\ IF engine[e] = "busy"
       THEN /\ rows' = [rows EXCEPT ![e] = @ + 1]
            /\ engine' = [engine EXCEPT
                 ![e] = AfterRow(m_axis_tlast(e), rows[e] + 1, length[e])]
            /\ fifo' = fifo
       ELSE /\ fifo' = [fifo EXCEPT ![e] = Append(@, m_axis_tlast(e))]
            /\ UNCHANGED <<rows, engine>>
    /\ UNCHANGED <<gate, n_samples, length, driver>>

Settled == \A e \in Bank : ~new_sample(e)

At(op, e) == todo # <<>> /\ Head(todo) = <<op, e>>

\* The samples seen in one sleep of sleep_interval are at least these.
PerSleep == Frequency \div 2

\* The microphones have a sample (mics_data_valid), for both banks at once.
\* A sample at the very clock at which a waiting beat is taken is lost. A beat
\* waits for a gate or an engine only, hence not during the sleep, and outside
\* it a sample that is lost is one that does not happen.
Sample ==
    /\ Settled
    /\ valid' = [e \in Bank |-> TRUE]
    /\ elapsed' = IF At("sleep", 0) /\ left > 0 /\ elapsed < PerSleep
                  THEN elapsed + 1 ELSE elapsed
    /\ UNCHANGED <<gate, n_samples, beats, engine, fifo, length, rows, todo,
                   sleeps, left, asked, failed, data_ret, transfers>>

\* External: an engine comes out of reset halted, and some time after the
\* run bit is set it is no longer halted.
EngineStep(e) ==
    /\ engine[e] \in {"reset", "starting"}
    /\ engine' = [engine EXCEPT
                    ![e] = IF @ = "reset" THEN "halted" ELSE "idle"]
    /\ UNCHANGED <<valid, gate, n_samples, beats, fifo, length, rows, driver>>

(***************************************************************************)
(* The driver. An access is <<operation, bank>>, or <<operation, argument>>*)
(* for the ones that write n_samples.                                      *)
(***************************************************************************)
reset == <<<<"reset", 0>>, <<"reset", 1>>,
           <<"wait_reset", 0>>, <<"wait_reset", 1>>>>

start == <<<<"run", 0>>, <<"run", 1>>,
           <<"wait_start", 0>>, <<"wait_start", 1>>>>

\* The destination addresses are always those of ram and ram2: that access
\* is left out.
set_length == <<<<"length", 0>>, <<"length", 1>>>>

setup_transfer == reset \o start \o set_length

start_dma_transfer(samples) ==
    <<<<"points", samples>>>> \o setup_transfer
      \o <<<<"on", 0>>, <<"on", 1>>, <<"duration", 0>>, <<"sleep", 0>>>>

\* get_mics6, get_mics4, get_mics and get_mics_ith are the same up to the
\* reading. read_mics6 reads without a transfer.
transfer_and_read(samples) == start_dma_transfer(samples)
                                \o <<<<"off", 0>>, <<"off", 1>>, <<"read", samples>>>>

Transfers == {transfer_and_read(n) : n \in Samples}
               \cup {start_dma_transfer(n) : n \in Samples}

\* set_nsamples, read_mics6, dma_on, dma_off, dma1_on and dma1_off.
Accesses == {<<<<op, n>>>> : op \in {"nsamples", "read_mics6"}, n \in Samples}
              \cup {<<<<op, e>>>> : op \in {"on", "off"}, e \in Bank}

\* What the commands read: in iteration i the words i * num_mics + mic_idx of
\* the memory of each bank.
read_mics6(n) == [samples |-> n, num_mics |-> 8, mics |-> 0 .. 1, banks |-> Bank]

get_mics6(n) == [samples |-> n, num_mics |-> 8, mics |-> 0 .. 1, banks |-> Bank]

get_mics4(n) == [samples |-> n, num_mics |-> 8, mics |-> 0 .. 3, banks |-> {0}]

get_mics(n) == [samples |-> n, num_mics |-> 16, mics |-> 0 .. 15, banks |-> Bank]

get_mics_ith(n, mic_idx) == [samples |-> n, num_mics |-> 8, mics |-> {mic_idx}, banks |-> Bank]

AfterTransfer(n) == {get_mics6(n), get_mics4(n), get_mics(n)}
                      \cup {get_mics_ith(n, m) : m \in MicIdx}

\* The iterations of i < (int)samples + 1, from i = 1: none if samples is
\* negative as an int, and none or all where the sum overflows.
Iterations(n) == {k \in {0, n} : /\ n < Word \div 2 - 1 => k = n
                                 /\ n >= Word \div 2 => k = 0}

\* A row is a beat of 256 bits.
RowWords == 8

RowsReadBy(r, k) == {(i * r.num_mics + m) \div RowWords : i \in 1 .. k, m \in r.mics}

Command(p) ==
    /\ todo = <<>>
    /\ todo' = p
    /\ data_ret' = {}
    /\ UNCHANGED <<fpga, sleeps, left, elapsed, asked, failed, transfers>>

Done == todo' = Tail(todo)

set_nsamples(samples) ==
    /\ At("nsamples", samples) /\ Done
    /\ n_samples' = samples
    /\ UNCHANGED <<valid, gate, beats, engine, fifo, length, rows,
                   sleeps, left, elapsed, asked, failed, data_ret, transfers>>

\* Mutants: the addition does not wrap; the offset is forgotten.
Points_unbounded(n) == n + ReadOffset
Points_no_offset(n) == n % Word

Points(n) == (n + ReadOffset) % Word

\* The points of n samples are counted without wrapping around, and the
\* length register holds the bytes asked for.
InRange(n) == /\ n + ReadOffset < Word
              /\ PointBeats * (n + ReadOffset) < LengthRange

\* The first lines of start_dma_transfer.
set_points(samples) ==
    /\ At("points", samples) /\ Done
    /\ transfers' = transfers + 1
    /\ n_samples' = Points(samples)
    /\ asked' = samples
    /\ failed' = (failed \/ ~InRange(samples))
    /\ rows' = [e \in Bank |-> 0]
    /\ UNCHANGED <<valid, gate, beats, engine, fifo, length, sleeps,
                   left, elapsed, data_ret>>

\* External: a reset drops the beats taken ahead and stops the transfer.
ResetEngine(e) ==
    /\ At("reset", e) /\ Done
    /\ engine' = [engine EXCEPT ![e] = "reset"]
    /\ fifo' = [fifo EXCEPT ![e] = <<>>]
    /\ UNCHANGED <<valid, gate, n_samples, beats, length, rows,
                   sleeps, left, elapsed, asked, failed, data_ret, transfers>>

\* External: the run bit set under reset is lost.
RunEngine(e) ==
    /\ At("run", e) /\ Done
    /\ engine' = [engine EXCEPT ![e] = IF @ = "halted" THEN "starting" ELSE @]
    /\ UNCHANGED <<valid, gate, n_samples, beats, fifo, length, rows,
                   sleeps, left, elapsed, asked, failed, data_ret, transfers>>

halted(e) == engine[e] \in {"reset", "halted", "starting"}

GivesUp(n) == n > MaxSleeps

\* Mutant: the sleeps are not counted.
WaitEngine_no_count(op, e, waiting) ==
    /\ At(op, e)
    /\ IF waiting THEN todo' = todo ELSE Done
    /\ UNCHANGED <<fpga, sleeps, left, elapsed, asked, failed, data_ret, transfers>>

\* One iteration of the loops of reset and of start. The two loops of each
\* share one counter, which is gone after the second.
WaitEngine(op, e, waiting) ==
    /\ At(op, e)
    /\ failed' = (failed \/ (waiting /\ GivesUp(sleeps + 1)))
    /\ IF waiting /\ ~GivesUp(sleeps + 1)
       THEN todo' = todo /\ sleeps' = sleeps + 1
       ELSE /\ Done
            /\ sleeps' = IF e = 1 THEN 0
                         ELSE IF waiting THEN sleeps + 1 ELSE sleeps
    /\ UNCHANGED <<fpga, left, elapsed, asked, data_ret, transfers>>

\* External: the length starts the transfer if the engine runs and it is
\* not zero; the register keeps its low bits only. The beats taken ahead are
\* its first rows, up to the last of the stream or to the length.
SetLength(e) ==
    /\ At("length", e) /\ Done
    /\ LET len == (PointBeats * n_samples) % LengthRange
           lasts == {i \in 1 .. Len(fifo[e]) : fifo[e][i]}
           r == Min(lasts \cup {Len(fifo[e]), len})
       IN IF engine[e] = "idle" /\ len # 0
          THEN /\ length' = [length EXCEPT ![e] = len]
               /\ rows' = [rows EXCEPT ![e] = r]
               /\ engine' = [engine EXCEPT ![e] = AfterRow(r \in lasts, r, len)]
               /\ fifo' = [fifo EXCEPT ![e] = SubSeq(@, r + 1, Len(@))]
          ELSE UNCHANGED <<length, rows, engine, fifo>>
    /\ UNCHANGED <<valid, gate, n_samples, beats, sleeps, left,
                   elapsed, asked, failed, data_ret, transfers>>

\* dma_on and dma1_on, dma_off and dma1_off.
SetGate(op, e, open) ==
    /\ At(op, e) /\ Done
    /\ gate' = [gate EXCEPT ![e] = open]
    /\ UNCHANGED <<valid, n_samples, beats, engine, fifo, length, rows,
                   sleeps, left, elapsed, asked, failed, data_ret, transfers>>

\* Mutant: the duration is taken for milliseconds.
total_sleep_short(n) == (3 * n) \div Frequency

\* Three times the duration of the transfer, in milliseconds.
total_sleep(n) == (3000 * n) \div Frequency

SetDuration ==
    /\ At("duration", 0) /\ Done
    /\ left' = total_sleep(n_samples)
    /\ UNCHANGED <<fpga, sleeps, elapsed, asked, failed, data_ret, transfers>>

\* The loop of wait_for_transfer: it looks at the engines only to print.
wait_for_transfer ==
    /\ At("sleep", 0)
    /\ \/ left <= 0 /\ Done /\ left' = 0 /\ UNCHANGED elapsed
       \/ /\ left > 0 /\ elapsed >= PerSleep
          /\ left' = left - 500 /\ elapsed' = 0
          /\ UNCHANGED todo
    /\ UNCHANGED <<fpga, sleeps, asked, failed, data_ret, transfers>>

\* The rows are read and returned: which ones, and those of them that the
\* last transfer has not written in a bank. A row beyond the memory counts as
\* not written; the program would fault there.
ReadRows(op, r) ==
    /\ At(op, r.samples) /\ Done
    /\ \E k \in Iterations(r.samples) :
         data_ret' = {[read |-> r, rows |-> RowsReadBy(r, k),
                       old |-> [e \in r.banks |-> {i \in RowsReadBy(r, k) : i >= rows[e]}]]}
    /\ UNCHANGED <<fpga, sleeps, left, elapsed, asked, failed, transfers>>

DriverStep ==
    /\ Settled
    /\ \/ \E n \in Samples : \/ set_nsamples(n) \/ set_points(n)
                             \/ \E r \in AfterTransfer(n) : ReadRows("read", r)
                             \/ ReadRows("read_mics6", read_mics6(n))
       \/ SetDuration \/ wait_for_transfer
       \/ \E e \in Bank :
            \/ ResetEngine(e) \/ RunEngine(e) \/ SetLength(e)
            \/ WaitEngine("wait_reset", e, engine[e] = "reset")
            \/ WaitEngine("wait_start", e, halted(e))
            \/ SetGate("on", e, TRUE) \/ SetGate("off", e, FALSE)

Init ==
    /\ valid = [e \in Bank |-> FALSE]
    /\ gate = [e \in Bank |-> FALSE]
    /\ n_samples = 0
    /\ beats = [e \in Bank |-> 0]
    /\ engine = [e \in Bank |-> "halted"]
    /\ fifo = [e \in Bank |-> <<>>]
    /\ length = [e \in Bank |-> 0]
    /\ rows = [e \in Bank |-> 0]
    /\ todo = <<>> /\ sleeps = 0 /\ left = 0 /\ elapsed = 0
    /\ asked = NoTransfer /\ failed = FALSE
    /\ data_ret = {} /\ transfers = 0

Next ==
    \/ \E p \in Accesses : Command(p)
    \/ /\ transfers < (IF failed THEN MaxFailed ELSE MaxTransfers)
       /\ \E p \in Transfers : Command(p)
    \/ DriverStep
    \/ Sample
    \/ \E e \in Bank : Beat(e) \/ EngineStep(e)

\* The thread of the command runs, the FPGA is clocked and the microphones
\* go on sampling. Nothing is assumed of the engines.
Fairness ==
    /\ WF_vars(DriverStep) /\ WF_vars(Sample)
    /\ \A e \in Bank : WF_vars(Beat(e))

Spec == Init /\ [][Next]_vars /\ Fairness

(***************************************************************************)
(* Properties                                                              *)
(***************************************************************************)
Engines == {"reset", "halted", "starting", "idle", "busy"}

Operations == {"points", "reset", "wait_reset", "run", "wait_start", "length", "on", "duration",
               "sleep", "off", "read", "read_mics6", "nsamples"}

\* All but the answer.
AccessTypes ==
    /\ valid \in [Bank -> BOOLEAN] /\ gate \in [Bank -> BOOLEAN]
    /\ n_samples \in 0 .. Word - 1
    /\ beats \in [Bank -> Nat]
    /\ engine \in [Bank -> Engines]
    /\ fifo \in [Bank -> Seq(BOOLEAN)] /\ \A e \in Bank : Len(fifo[e]) <= Skid
    /\ length \in [Bank -> Nat] /\ rows \in [Bank -> Nat]
    /\ \A e \in Bank : engine[e] = "busy" => rows[e] < length[e]
    /\ todo \in Seq(Operations \X (Bank \cup Samples))
    /\ asked \in Samples \cup {NoTransfer}
    /\ sleeps \in 0 .. MaxSleeps + 1
    /\ left \in Int /\ elapsed \in 0 .. PerSleep
    /\ failed \in BOOLEAN /\ transfers \in 0 .. MaxTransfers

AnswerTypes ==
    /\ \A d1, d2 \in data_ret : d1 = d2
    /\ \A d \in data_ret :
         /\ \E n \in Samples : d.read \in AfterTransfer(n) \cup {read_mics6(n)}
         /\ d.rows \subseteq Nat
         /\ d.old \in [d.read.banks -> SUBSET d.rows]

\* The registers of the FPGA and the variables of the command in progress
\* keep their types; the counter of reset and start stays within its limit
\* and never more than the length an engine was given is written.
TypeOK == AccessTypes /\ AnswerTypes

\* What a command returns. Asked for no more samples than the last transfer
\* was, a command that reads one row for each (get_mics6, get_mics4,
\* read_mics6 and get_mics_ith below 8) returns no row the transfer did not
\* write, whatever the engine took ahead of the transfer and the counter of
\* axis_tlast kept from the one before. Any command returns the rows that
\* every transfer of that size writes and, as old ones, all beyond its points,
\* which get_mics reaches from 4 samples on and read_mics6 with a larger
\* argument. Not so once reset or start gave up or a length was out of range:
\* the counter is then out of step for good.
RowsOfTransfer ==
    asked # NoTransfer /\ ~failed =>
      \A d \in data_ret : \A e \in d.read.banks :
        /\ d.read.samples <= asked /\ d.read.num_mics = RowWords
             /\ d.read.mics \subseteq 0 .. RowWords - 1
           => d.old[e] = {}
        /\ \A i \in d.rows :
             /\ i < asked + ReadOffset - Skid => i \notin d.old[e]
             /\ i >= asked + ReadOffset => i \in d.old[e]

\* The counter of axis_tlast, which nothing the driver does resets, runs
\* ahead by no more beats than one engine takes when a command ends.
CounterInStep ==
    todo = <<>> /\ ~failed => \A e \in Bank : beats[e] <= Skid

\* The inductive invariant. The place of an access in transfer_and_read, and in
\* start_dma_transfer; set_nsamples and read_mics6 are no part of them.
Place(access) ==
    LET op == access[1]
        bank == IF op \in {"points", "nsamples", "read", "read_mics6"} THEN 0 ELSE access[2]
        first == [points |-> 1, reset |-> 2, wait_reset |-> 4, run |-> 6, wait_start |-> 8,
                  length |-> 10, on |-> 12, duration |-> 14, sleep |-> 15, off |-> 16,
                  read |-> 18, nsamples |-> 19, read_mics6 |-> 19]
    IN first[op] + bank

\* What is still to do are accesses in their order, up to the end of a command.
TodoInv ==
    /\ \A i \in 1 .. Len(todo) - 1 : /\ Place(todo[i + 1]) = Place(todo[i]) + 1
                                   /\ Place(todo[i]) < 18
    /\ Len(todo) = 1 => todo[1][1] \in {"sleep", "read", "nsamples", "read_mics6", "on", "off"}
    /\ Len(todo) > 1 => todo[Len(todo)][1] \in {"sleep", "read"}

\* The place the command in progress is at; the command dma_on is not in one.
Pos == IF todo = <<>> \/ (Len(todo) = 1 /\ todo[1][1] = "on") THEN 0
       ELSE Place(todo[1])

LoopInv ==
    /\ sleeps <= IF Pos \in {5, 9} THEN MaxSleeps + 1 ELSE IF Pos \in {4, 8} THEN MaxSleeps ELSE 0
    /\ Pos # 15 => left = 0
    /\ left <= 0 => elapsed = 0
    /\ Pos = 1 => transfers < MaxTransfers
    /\ \A e \in Bank : Pos \in 13 + e .. 15 => gate[e]

\* No transfer: the counter of axis_tlast is ahead by what the engine took.
Resting(e) == engine[e] # "busy" /\ beats[e] <= Len(fifo[e])

\* Between reset and length: the counter is ahead by the beats which the reset
\* dropped, and the transfer may even be complete already.
TakenAhead(e) ==
    \/ /\ \A i \in 1 .. Len(fifo[e]) : ~fifo[e][i]
       /\ beats[e] - Len(fifo[e]) \in 0 .. Skid
       /\ beats[e] < n_samples
    \/ \E i \in 1 .. Len(fifo[e]) :
         /\ \A j \in 1 .. Len(fifo[e]) : fifo[e][j] <=> j = i
         /\ n_samples - i \in 0 .. Skid
         /\ beats[e] = Len(fifo[e]) - i

\* From length on: what the reset dropped is missing in the memory.
Moving(e) ==
    \/ /\ engine[e] = "busy" /\ fifo[e] = <<>> /\ length[e] >= n_samples
       /\ beats[e] - rows[e] \in 0 .. Skid
       /\ beats[e] < n_samples
    \/ /\ engine[e] = "idle" /\ beats[e] <= Len(fifo[e])
       /\ rows[e] \in n_samples - Skid .. n_samples

\* Every sample of the sleep is a row, or a beat about to become one.
Progress(e) ==
    engine[e] = "busy" =>
        500 * (rows[e] + (IF valid[e] THEN 1 ELSE 0))
          >= PerSleep * (total_sleep(n_samples) - left) + 500 * elapsed

BankInv(e) ==
    /\ Pos \notin 3 + e .. 15 => Resting(e)
    /\ Pos \in 3 + e .. 6 + e =>
          TakenAhead(e) /\ (engine[e] = "halted" \/ (engine[e] = "reset" /\ Pos <= 4 + e))
    /\ Pos \in 7 + e .. 10 + e =>
          TakenAhead(e) /\ (engine[e] = "idle" \/ (engine[e] = "starting" /\ Pos <= 8 + e))
    /\ Pos \in 11 + e .. 15 => Moving(e)
    /\ Pos = 15 => Progress(e)
    /\ Pos \notin 2 .. 15 /\ asked # NoTransfer =>
          rows[e] \in asked + ReadOffset - Skid .. asked + ReadOffset

PointsInv == Pos \in 2 .. 15 => asked # NoTransfer /\ n_samples = Points(asked)

TransferInv ==
    ~failed => /\ Pos \in 2 .. 15 => InRange(asked)
               /\ \A e \in Bank : BankInv(e)

AccessInv == AccessTypes /\ TodoInv /\ LoopInv /\ PointsInv /\ TransferInv

\* An answer is there between two commands only, so that no transfer can
\* change the rows it was taken from.
AnswerInv == (todo # <<>> => data_ret = {}) /\ RowsOfTransfer

DmaInv == TypeOK /\ AccessInv /\ AnswerInv

\* A command ends, even if the engines never answer: the loops of reset and
\* of start give up and wait_for_transfer does not depend on them.
CommandReturns == (todo # <<>>) ~> (todo = <<>>)
=============================================================================
