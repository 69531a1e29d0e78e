------------------------------ MODULE Capture --------------------------------
(***************************************************************************)
(* The capture of steered microphone samples in the sesenta instrument:    *)
(* the FPGA (delay_module.v, delay_line.v, the registers of sesenta.v and  *)
(* the core addr_counter.v) fills one block RAM per microphone, and the    *)
(* driver (sesenta.hpp) selects a direction, starts the capture, waits for *)
(* it and reads the block RAMs.                                            *)
(*                                                                         *)
(* Two kinds of threads do that: the beamforming threads, which never take *)
(* the mutex of the driver, and the session thread of the command in       *)
(* progress, which does; so there is one of these, Client.                 *)
(*                                                                         *)
(*   set_mic_sel:  select -> set -> sleep -> wait                          *)
(*   get_mic_ith:  read -> got                                             *)
(*                                                                         *)
(* The hardware takes one step per clock (Clock).  A register write of the *)
(* processor takes effect between two clocks, at most one write at a time. *)
(* All block RAMs are written in lockstep: bram stands for each of them. A *)
(* word is the newest sample in the delay lines when it was taken and the  *)
(* delays it was taken with.                                               *)
(***************************************************************************)
EXTENDS Integers, Sequences

CONSTANTS Beams,        \* the beamforming threads that may come to exist
          FirstBeam,    \* the one the constructor of Sesenta starts
          Client,       \* the session thread that executes a command
          Commands,     \* the operations clients call
          Selects,      \* bound: the arguments they call them with
          num_directions,
          num_mics,
          mic_size,     \* words of a block RAM, 2^ADDR_WIDTH
          SampleCount,  \* bound: samples are numbered modulo this
          SleepClocks,  \* bound: clocks in the sleep of set_mic_sel, at least
          NoWord        \* what a block RAM holds before the first capture

Operations == {"set_mic_sel", "get_mic_ith", "get_mics_bram", "set_led_sel",
               "start_beamforming"}

\* delay_module: the delays in samples of the four microphones, for a source
\* in front of each of them.
SourceDelays == <<<<0, 5, 8, 4>>, <<5, 0, 4, 8>>, <<8, 4, 0, 5>>, <<4, 8, 5, 0>>>>
MicDelays(select) == IF select \in 1..4 THEN SourceDelays[select] ELSE <<0, 0, 0, 0>>

\* The LED beside the microphone in front of the source, by direction.
M_DATA_TO_MIC == <<14, 8, 2, 20>>

\* What a block RAM holds for a microphone.
Delays == {MicDelays(s) : s \in 0..7}
Word == [sample : 0..SampleCount - 1, delays : Delays]

\* The number of the next sample.
Succ(n) == (n + 1) % SampleCount

ASSUME CaptureAssumption ==
    /\ FirstBeam \in Beams
    /\ Client \notin Beams
    /\ Commands \subseteq Operations
    /\ Selects \subseteq 0..7
    /\ num_directions \in 1..4
    /\ num_mics \in Nat \ {0} /\ SampleCount \in Nat \ {0} /\ SleepClocks \in Nat \ {0}
    /\ mic_size \in Nat \ {0, 1}
    /\ NoWord \notin Word

Threads == Beams \cup {Client}
Directions == 0..num_directions - 1

VARIABLES \* registers the processor writes
          mic_select, start_capture, led_select,
          clocked,       \* the hardware saw the last register write
          \* registers of the hardware
          mics_data_valid, mic_delays, delay_reg, newest, reg_mics_data,
          addr_count, started, done_count, write_enable, bram,
          \* the driver
          beamforming_started,
          pc,            \* where each thread is
          op,            \* the operation Client executes
          dir, mic,      \* loop variables
          slept,         \* clocks since it began to sleep
          raw_data       \* what get_mic_ith has read

ctl_vars  == <<mic_select, start_capture, led_select, clocked>>
hw_vars   == <<mics_data_valid, mic_delays, delay_reg, newest, reg_mics_data,
               addr_count, started, done_count, write_enable, bram>>
soft_vars == <<beamforming_started, pc, op, dir, mic, slept, raw_data>>
vars      == <<ctl_vars, hw_vars, soft_vars>>

Init ==
    /\ mic_select = 0 /\ start_capture = FALSE /\ led_select = 0 /\ clocked = TRUE
    /\ mics_data_valid = FALSE
    /\ mic_delays = MicDelays(0) /\ delay_reg = MicDelays(0)
    /\ newest = 0
    /\ reg_mics_data = [sample |-> 0, delays |-> MicDelays(0)]
    /\ addr_count = 0 /\ started = FALSE /\ done_count = FALSE /\ write_enable = FALSE
    /\ bram = [a \in 0..mic_size - 1 |-> NoWord]
    /\ beamforming_started = FALSE
    /\ pc = [t \in Threads |-> IF t = FirstBeam THEN "begin"
                               ELSE IF t = Client THEN "idle" ELSE "none"]
    /\ op = "none"
    /\ dir = [t \in Threads |-> 0] /\ mic = [t \in Threads |-> 0]
    /\ slept = [t \in Threads |-> 0]
    /\ raw_data = [t \in Threads |-> <<>>]

-----------------------------------------------------------------------------
(* The hardware. *)

\* delay_module and delay_line: the selection reaches the output two clocks
\* later; a new sample is shifted in when it is valid.
DelayLines ==
    /\ mic_delays' = MicDelays(mic_select)
    /\ delay_reg' = mic_delays
    /\ newest' = IF mics_data_valid THEN Succ(newest) ELSE newest

\* sesenta.v latches the output of the delay lines at every clock.
LatchSamples == reg_mics_data' = [sample |-> newest, delays |-> delay_reg]

\* Mutant: start does not clear done.
CountAddressKeepsDone ==
    \/ /\ start_capture
       /\ addr_count' = 0 /\ started' = TRUE /\ write_enable' = FALSE
       /\ UNCHANGED done_count
    \/ /\ ~start_capture /\ mics_data_valid /\ started
       /\ addr_count' = (addr_count + 1) % mic_size
       /\ write_enable' = TRUE
       /\ UNCHANGED <<started, done_count>>
    \/ /\ ~start_capture /\ ~(mics_data_valid /\ started)
       /\ write_enable' = FALSE
       /\ started' = (started /\ addr_count # mic_size - 1)
       /\ done_count' = (done_count \/ addr_count = mic_size - 1)
       /\ UNCHANGED addr_count

\* Mutant: the end of the count does not clear started.
CountAddressGoesOn ==
    \/ /\ start_capture
       /\ addr_count' = 0 /\ started' = TRUE /\ done_count' = FALSE /\ write_enable' = FALSE
    \/ /\ ~start_capture /\ mics_data_valid /\ started
       /\ addr_count' = (addr_count + 1) % mic_size
       /\ write_enable' = TRUE
       /\ UNCHANGED <<started, done_count>>
    \/ /\ ~start_capture /\ ~(mics_data_valid /\ started)
       /\ write_enable' = FALSE
       /\ done_count' = (done_count \/ addr_count = mic_size - 1)
       /\ UNCHANGED <<addr_count, started>>

\* Mutant: max_count is one too large, the count never gets there.
CountAddressTooFar ==
    \/ /\ start_capture
       /\ addr_count' = 0 /\ started' = TRUE /\ done_count' = FALSE /\ write_enable' = FALSE
    \/ /\ ~start_capture /\ mics_data_valid /\ started
       /\ addr_count' = (addr_count + 1) % mic_size
       /\ write_enable' = TRUE
       /\ UNCHANGED <<started, done_count>>
    \/ /\ ~start_capture /\ ~(mics_data_valid /\ started)
       /\ write_enable' = FALSE
       /\ UNCHANGED <<addr_count, started, done_count>>

\* addr_counter: its if, else if, else if, else.
CountAddress ==
    \/ /\ start_capture
       /\ addr_count' = 0 /\ started' = TRUE /\ done_count' = FALSE /\ write_enable' = FALSE
    \/ /\ ~start_capture /\ mics_data_valid /\ started
       /\ addr_count' = (addr_count + 1) % mic_size
       /\ write_enable' = TRUE
       /\ UNCHANGED <<started, done_count>>
    \/ /\ ~start_capture /\ ~(mics_data_valid /\ started)
       /\ write_enable' = FALSE
       /\ started' = (started /\ addr_count # mic_size - 1)
       /\ done_count' = (done_count \/ addr_count = mic_size - 1)
       /\ UNCHANGED addr_count

\* Port B of the block RAMs.
WriteMemory ==
    bram' = IF write_enable THEN [bram EXCEPT ![addr_count] = reg_mics_data] ELSE bram

\* Sleeping threads see time pass.
Sleep == slept' = [t \in Threads |-> IF pc[t] = "sleep" /\ slept[t] < SleepClocks
                                     THEN slept[t] + 1 ELSE slept[t]]

\* One clock.  pcm_valid of the decimator is high for one clock per sample.
Clock ==
    /\ DelayLines /\ LatchSamples /\ CountAddress /\ WriteMemory /\ Sleep
    /\ mics_data_valid' \in IF mics_data_valid THEN {FALSE} ELSE BOOLEAN
    /\ clocked' = TRUE
    /\ UNCHANGED <<mic_select, start_capture, led_select, beamforming_started, pc, op, dir,
                   mic, raw_data>>

-----------------------------------------------------------------------------
(* The driver. *)

Move(t, from, to) == pc[t] = from /\ pc' = [pc EXCEPT ![t] = to]

\* The register write is on the bus until the next clock.
RegisterWrite == clocked /\ clocked' = FALSE

\* set_mic_sel: write the direction, ...
SelectDirection(t) ==
    /\ Move(t, "select", "set")
    /\ RegisterWrite
    /\ mic_select' = dir[t]
    /\ UNCHANGED <<start_capture, led_select, hw_vars, beamforming_started, op, dir, mic,
                   slept, raw_data>>

\* ... set the start bit, ...
SetStart(t) ==
    /\ Move(t, "set", "sleep")
    /\ RegisterWrite
    /\ start_capture' = TRUE
    /\ slept' = [slept EXCEPT ![t] = 0]
    /\ UNCHANGED <<mic_select, led_select, hw_vars, beamforming_started, op, dir, mic, raw_data>>

\* ... sleep for a microsecond, clear it, ...
ClearStart(t) ==
    /\ slept[t] = SleepClocks
    /\ Move(t, "sleep", "wait")
    /\ RegisterWrite
    /\ start_capture' = FALSE
    /\ slept' = [slept EXCEPT ![t] = 0]
    /\ UNCHANGED <<mic_select, led_select, hw_vars, beamforming_started, op, dir, mic, raw_data>>

\* ... and poll done_capture.  All callers but the command itself then read.
WaitDone(t) ==
    /\ done_count
    /\ Move(t, "wait", IF t = Client /\ op = "set_mic_sel" THEN "idle" ELSE "read")
    /\ UNCHANGED <<ctl_vars, hw_vars, beamforming_started, op, dir, mic, slept, raw_data>>

\* get_mic_ith copies the block RAM word by word.
ReadWord(t) ==
    /\ pc[t] = "read"
    /\ raw_data' = [raw_data EXCEPT ![t] = Append(@, bram[Len(@)])]
    /\ pc' = [pc EXCEPT ![t] = IF Len(raw_data[t]) = mic_size - 1 THEN "got" ELSE "read"]
    /\ UNCHANGED <<ctl_vars, hw_vars, beamforming_started, op, dir, mic, slept>>

\* beamf_thread announces itself; only now start_beamforming sees it.
BeamBegins(t) ==
    /\ t # Client
    /\ Move(t, "begin", "select")
    /\ beamforming_started' = TRUE
    /\ UNCHANGED <<ctl_vars, hw_vars, op, dir, mic, slept, raw_data>>

\* Mutant: the next direction is taken without a new capture.
BeamNextDoesNotSelect(t) ==
    /\ t # Client /\ pc[t] = "got"
    /\ raw_data' = [raw_data EXCEPT ![t] = <<>>]
    /\ mic' = [mic EXCEPT ![t] = (@ + 1) % num_mics]
    /\ dir' = [dir EXCEPT ![t] = IF mic[t] + 1 < num_mics THEN @ ELSE (@ + 1) % num_directions]
    /\ pc' = [pc EXCEPT ![t] = "read"]
    /\ UNCHANGED <<ctl_vars, hw_vars, beamforming_started, op, slept>>

\* Mutant: the inner loop variable is not reset.
BeamNextKeepsMic(t) ==
    /\ t # Client /\ pc[t] = "got"
    /\ raw_data' = [raw_data EXCEPT ![t] = <<>>]
    /\ mic' = [mic EXCEPT ![t] = @ + 1]
    /\ dir' = [dir EXCEPT ![t] = IF mic[t] + 1 < num_mics THEN @ ELSE (@ + 1) % num_directions]
    /\ pc' = [pc EXCEPT ![t] = IF mic[t] + 1 < num_mics THEN "read"
                               ELSE IF dir[t] + 1 < num_directions THEN "select" ELSE "led"]
    /\ UNCHANGED <<ctl_vars, hw_vars, beamforming_started, op, slept>>

\* beamf_thread: the next microphone of this capture, or a capture in the next
\* direction, or the end of the round.
BeamNext(t) ==
    /\ t # Client /\ pc[t] = "got"
    /\ raw_data' = [raw_data EXCEPT ![t] = <<>>]
    /\ mic' = [mic EXCEPT ![t] = (@ + 1) % num_mics]
    /\ dir' = [dir EXCEPT ![t] = IF mic[t] + 1 < num_mics THEN @ ELSE (@ + 1) % num_directions]
    /\ pc' = [pc EXCEPT ![t] = IF mic[t] + 1 < num_mics THEN "read"
                               ELSE IF dir[t] + 1 < num_directions THEN "select" ELSE "led"]
    /\ UNCHANGED <<ctl_vars, hw_vars, beamforming_started, op, slept>>

\* set_led_sel of the direction with the largest power, which may be any; then
\* the next round: nothing clears beamforming_started while the server runs.
BeamShowsDirection(t) ==
    /\ t # Client
    /\ Move(t, "led", "select")
    /\ RegisterWrite
    /\ \E d \in Directions : led_select' = M_DATA_TO_MIC[d + 1]
    /\ UNCHANGED <<mic_select, start_capture, hw_vars, beamforming_started, op, dir, mic,
                   slept, raw_data>>

\* start_beamforming: if (!beamforming_started) start a thread.
StartBeamforming ==
    /\ "start_beamforming" \in Commands /\ pc[Client] = "idle"
    /\ ~beamforming_started
    /\ \E t \in Beams : Move(t, "none", "begin")
    /\ UNCHANGED <<ctl_vars, hw_vars, beamforming_started, op, dir, mic, slept, raw_data>>

\* A command that captures, or that reads without a capture.  delay_select is
\* three bits wide, so larger arguments add nothing.  The microphone to read
\* makes no difference; get_mic_ith of one that does not exist reads nothing.
Command(o, sel) ==
    /\ o \in Commands \cap {"set_mic_sel", "get_mics_bram", "get_mic_ith"}
    /\ Move(Client, "idle", IF o = "get_mic_ith" THEN "read" ELSE "select")
    /\ op' = o
    /\ dir' = [dir EXCEPT ![Client] = sel]
    /\ UNCHANGED <<ctl_vars, hw_vars, beamforming_started, mic, slept, raw_data>>

SetLedSel(sel) ==
    /\ "set_led_sel" \in Commands /\ pc[Client] = "idle"
    /\ RegisterWrite
    /\ led_select' = sel
    /\ UNCHANGED <<mic_select, start_capture, hw_vars, soft_vars>>

\* get_mics_bram captures again for every microphone.
ClientNext ==
    /\ pc[Client] = "got"
    /\ raw_data' = [raw_data EXCEPT ![Client] = <<>>]
    /\ LET more == op = "get_mics_bram" /\ mic[Client] + 1 < num_mics
       IN  /\ mic' = [mic EXCEPT ![Client] = IF more THEN @ + 1 ELSE 0]
           /\ pc' = [pc EXCEPT ![Client] = IF more THEN "select" ELSE "idle"]
    /\ UNCHANGED <<ctl_vars, hw_vars, beamforming_started, op, dir, slept>>

Run(t) ==
    \/ SelectDirection(t) \/ SetStart(t) \/ ClearStart(t) \/ WaitDone(t) \/ ReadWord(t)
    \/ BeamBegins(t) \/ BeamNext(t) \/ BeamShowsDirection(t)

Next ==
    \/ Clock
    \/ \E t \in Threads : Run(t)
    \/ ClientNext \/ StartBeamforming
    \/ \E s \in Selects : SetLedSel(s) \/ \E o \in Operations : Command(o, s)

Spec == Init /\ [][Next]_vars

\* The clock runs and samples keep coming.  The bus gives every thread its turn
\* to write; and a thread that polls done_capture reads it again and again
\* while any other thread, before it can start a new capture, has a block RAM
\* to read over the bus or a command to receive, so it does not miss it for
\* ever: strong fairness for each thread.
FairSpec ==
    /\ Spec
    /\ WF_vars(Clock) /\ WF_vars(Clock /\ mics_data_valid')
    /\ \A t \in Threads : SF_vars(Run(t))
    /\ WF_vars(ClientNext)

-----------------------------------------------------------------------------
HardwareTypeOK ==
    /\ mic_delays \in Delays /\ delay_reg \in Delays
    /\ newest \in 0..SampleCount - 1
    /\ reg_mics_data \in Word
    /\ addr_count \in 0..mic_size - 1
    /\ bram \in [0..mic_size - 1 -> Word \cup {NoWord}]
    /\ mics_data_valid \in BOOLEAN /\ start_capture \in BOOLEAN
    /\ started \in BOOLEAN /\ done_count \in BOOLEAN /\ write_enable \in BOOLEAN

DriverTypeOK ==
    /\ mic_select \in 0..7 /\ led_select \in Nat
    /\ clocked \in BOOLEAN /\ beamforming_started \in BOOLEAN
    /\ pc \in [Threads -> {"none", "idle", "begin", "select", "set", "sleep", "wait",
                           "read", "got", "led"}]
    /\ op \in Operations \cup {"none"}
    /\ dir \in [Threads -> 0..7]
    /\ mic \in [Threads -> 0..num_mics - 1]
    /\ slept \in [Threads -> 0..SleepClocks]
    /\ raw_data \in [Threads -> Seq(Word \cup {NoWord})]

\* A copy of a block RAM ends after its last word.
CopyInBounds ==
    \A t \in Threads : \/ pc[t] = "got" /\ Len(raw_data[t]) = mic_size
                       \/ pc[t] = "read" /\ Len(raw_data[t]) < mic_size
                       \/ pc[t] \notin {"read", "got"} /\ Len(raw_data[t]) = 0

\* Type invariant.
TypeOK == HardwareTypeOK /\ DriverTypeOK /\ CopyInBounds

Consecutive(w, v) == w # NoWord /\ v # NoWord /\ v.sample = Succ(w.sample)

\* The words 1..k of the block RAM are successive samples.
Filled(k) ==
    /\ k >= 1 => bram[1] # NoWord
    /\ \A a \in 1..k - 1 : Consecutive(bram[a], bram[a + 1])

\* When done_capture is set, the words from 1 on are successive samples, the
\* last one included: whoever restarted the capture at whatever moment.
DoneMeansComplete == done_count => Filled(mic_size - 1)

\* Why that is so.  A word is written one clock after the address was counted,
\* in which no sample can come; so the count never runs over its end, every
\* address is written with the sample that follows the one before it, and done
\* is set in the very clock in which the last word is written.
CaptureInv ==
    /\ done_count => ~started /\ ~write_enable /\ addr_count = mic_size - 1
                     /\ Filled(mic_size - 1)
    /\ ~started /\ addr_count = mic_size - 1 => done_count
    /\ started /\ mics_data_valid => addr_count < mic_size - 1
    /\ write_enable => /\ started /\ ~mics_data_valid /\ addr_count >= 1
                       /\ newest = Succ(reg_mics_data.sample)
                       /\ Filled(addr_count - 1)
                       /\ addr_count >= 2 => Consecutive(bram[addr_count - 1], reg_mics_data)
    /\ started /\ ~write_enable /\ addr_count >= 1 =>
          /\ Filled(addr_count)
          /\ bram[addr_count] # NoWord /\ newest = Succ(bram[addr_count].sample)

\* What a beamforming thread adds up for a direction are successive samples
\* taken with the delays of that direction only, if no command captures at the
\* same time.  Word 0 is left out: addr_counter increments before it writes.
BeamIsSteered ==
    \A t \in Beams : pc[t] = "got" =>
        /\ \A i \in 2..mic_size : /\ raw_data[t][i] # NoWord
                                  /\ raw_data[t][i].delays = MicDelays(dir[t])
        /\ \A i \in 2..mic_size - 1 : Consecutive(raw_data[t][i], raw_data[t][i + 1])

\* Clients call nothing that captures and do not start a second thread.
OnlyTheBeamCaptures == Commands \subseteq {"get_mic_ith", "set_led_sel"}

\* Why the beam is steered then.  Nobody but the one thread captures, ...
BeamIsAlone ==
    /\ \A t \in Threads \ {FirstBeam} :
          pc[t] \in IF t = Client THEN {"idle", "read", "got"} ELSE {"none"}
    /\ op # "get_mics_bram"
    /\ pc[FirstBeam] \notin {"none", "idle"}

\* ... its selection has gone through the registers before the first word is
\* taken, ...
SelectionInv ==
    /\ pc[FirstBeam] \in {"set", "sleep", "wait"} => mic_select = dir[FirstBeam]
    /\ (pc[FirstBeam] = "set" /\ clocked) \/ pc[FirstBeam] \in {"sleep", "wait"} =>
          mic_delays = MicDelays(dir[FirstBeam])
    /\ (pc[FirstBeam] = "sleep" /\ slept[FirstBeam] >= 1) \/ pc[FirstBeam] = "wait" =>
          delay_reg = MicDelays(dir[FirstBeam])

\* ... the capture starts afresh in the sleep, so that done_capture cannot be
\* the one of the capture before, ...
StartInv ==
    /\ start_capture <=> pc[FirstBeam] = "sleep"
    /\ pc[FirstBeam] \in {"begin", "select", "set", "led"} => ~started /\ ~write_enable
    /\ pc[FirstBeam] = "sleep" => ~write_enable
    /\ pc[FirstBeam] = "sleep" /\ slept[FirstBeam] >= 1 => ~done_count /\ addr_count = 0
    /\ pc[FirstBeam] \in {"read", "got"} => done_count

\* ... and the block RAM, and what was read of it, has words of this capture.
Steered(a) == bram[a] # NoWord /\ bram[a].delays = MicDelays(dir[FirstBeam])

WordsInv ==
    /\ pc[FirstBeam] = "wait" =>
          /\ write_enable => reg_mics_data.delays = MicDelays(dir[FirstBeam])
          /\ \A a \in 1..addr_count : Steered(a) \/ (a = addr_count /\ write_enable)
    /\ pc[FirstBeam] \in {"read", "got"} =>
          /\ \A a \in 1..mic_size - 1 : Steered(a)
          /\ \A i \in 1..Len(raw_data[FirstBeam]) : raw_data[FirstBeam][i] = bram[i - 1]

SteeringInv == BeamIsAlone /\ SelectionInv /\ StartInv /\ WordsInv

\* set_mic_sel has no timeout, and yet it returns, also when two threads
\* capture at the same time and restart each other's captures.
CaptureEnds == \A t \in Threads : pc[t] = "wait" ~> pc[t] # "wait"

-----------------------------------------------------------------------------
(* What a comment of the code says, and the code does not do. *)

\* sesenta.v:209, "select source mic (0-3)": what the beamforming thread has
\* captured for a direction is steered to a microphone, the only one without
\* a delay.
DirectionSelectsSource ==
    \A t \in Beams : pc[t] = "got" =>
        \E m \in 1..4 : \A n \in 1..4 : raw_data[t][2].delays[n] = 0 <=> n = m
=============================================================================
