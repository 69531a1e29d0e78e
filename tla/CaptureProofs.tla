---------------------------- MODULE CaptureProofs ----------------------------
(***************************************************************************)
(* For block RAMs of any size and any number of threads: a capture that is *)
(* done is complete.                                                       *)
(***************************************************************************)
EXTENDS Capture, TLAPS

LEMMA ModRange == \A a \in Nat, b \in Nat \ {0} : a % b \in 0..b - 1
  OBVIOUS

LEMMA SuccRange == \A n \in 0..SampleCount - 1 : Succ(n) \in 0..SampleCount - 1
  BY ModRange, CaptureAssumption DEF Succ

LEMMA DelaysType == \A s : MicDelays(s) \in Delays
  <1>1. 0 \in 0..7 OBVIOUS
  <1>2. \A s \in 1..4 : s \in 0..7 OBVIOUS
  <1>3. \A s \in 0..7 : MicDelays(s) \in Delays BY Zenon DEF Delays
  <1>4. \A s : s \notin 1..4 => MicDelays(s) = MicDelays(0) BY DEF MicDelays
  <1> QED BY <1>1, <1>2, <1>3, <1>4

-----------------------------------------------------------------------------
LEMMA HardwareTypeInit == Init => HardwareTypeOK
  <1> SUFFICES ASSUME Init PROVE HardwareTypeOK OBVIOUS
  <1>1. mic_delays \in Delays /\ delay_reg \in Delays
    BY DelaysType DEF Init
  <1>2. reg_mics_data \in Word
    BY CaptureAssumption, DelaysType DEF Init, Word
  <1>3. newest \in 0..SampleCount - 1 /\ addr_count \in 0..mic_size - 1
    BY CaptureAssumption DEF Init
  <1>4. bram \in [0..mic_size - 1 -> Word \cup {NoWord}]
    BY DEF Init
  <1>5. /\ mics_data_valid \in BOOLEAN /\ start_capture \in BOOLEAN
        /\ started \in BOOLEAN /\ done_count \in BOOLEAN /\ write_enable \in BOOLEAN
    BY Zenon DEF Init
  <1> QED BY <1>1, <1>2, <1>3, <1>4, <1>5 DEF HardwareTypeOK

\* Only the clock changes the hardware; a thread changes its registers.
LEMMA HardwareTypeStep == HardwareTypeOK /\ [Next]_vars => HardwareTypeOK'
  <1> SUFFICES ASSUME HardwareTypeOK, [Next]_vars PROVE HardwareTypeOK'
    OBVIOUS
  <1> USE CaptureAssumption DEF HardwareTypeOK
  <1>1. CASE Clock
    <2> USE <1>1 DEF Clock
    <2>1. /\ mic_delays' \in Delays /\ delay_reg' \in Delays
          /\ newest' \in 0..SampleCount - 1
      BY DelaysType, SuccRange DEF DelayLines
    <2>2. reg_mics_data' \in Word
      BY DEF LatchSamples, Word
    <2>3. addr_count' \in 0..mic_size - 1
      <3>1. (addr_count + 1) % mic_size \in 0..mic_size - 1
        <4>1. addr_count + 1 \in Nat /\ mic_size \in Nat \ {0} OBVIOUS
        <4> HIDE CaptureAssumption DEF HardwareTypeOK
        <4> QED BY <4>1, ModRange
      <3> QED BY <3>1 DEF CountAddress
    <2>4. started' \in BOOLEAN /\ done_count' \in BOOLEAN /\ write_enable' \in BOOLEAN
      BY Zenon DEF CountAddress
    <2>5. bram' \in [0..mic_size - 1 -> Word \cup {NoWord}]
      BY DEF WriteMemory
    <2>6. mics_data_valid' \in BOOLEAN /\ start_capture' \in BOOLEAN
      BY Zenon
    <2> QED BY <2>1, <2>2, <2>3, <2>4, <2>5, <2>6
  <1>2. CASE ~Clock
    <2>1. UNCHANGED hw_vars /\ start_capture' \in BOOLEAN
      BY <1>2, Zenon DEF Next, Run, SelectDirection, SetStart, ClearStart, WaitDone, ReadWord,
         BeamBegins, BeamNext, BeamShowsDirection, ClientNext, StartBeamforming, SetLedSel,
         Command, vars, ctl_vars, hw_vars, soft_vars
    <2> QED BY <2>1 DEF hw_vars
  <1> QED BY <1>1, <1>2

LEMMA DriverTypeInit == Init => DriverTypeOK /\ CopyInBounds
  <1> SUFFICES ASSUME Init PROVE DriverTypeOK /\ CopyInBounds OBVIOUS
  <1>1. mic_select \in 0..7 /\ led_select \in Nat
    BY DEF Init
  <1>2. clocked \in BOOLEAN /\ beamforming_started \in BOOLEAN
    BY Zenon DEF Init
  <1>3. /\ dir \in [Threads -> 0..7] /\ mic \in [Threads -> 0..num_mics - 1]
        /\ slept \in [Threads -> 0..SleepClocks]
    BY CaptureAssumption DEF Init
  <1>4. raw_data \in [Threads -> Seq(Word \cup {NoWord})] /\ CopyInBounds
    BY DEF Init, CopyInBounds
  <1> QED BY <1>1, <1>2, <1>3, <1>4 DEF Init, DriverTypeOK

LEMMA DriverTypeStep ==
  TypeOK /\ [Next]_vars => DriverTypeOK' /\ CopyInBounds'
  <1> SUFFICES ASSUME TypeOK, [Next]_vars PROVE DriverTypeOK' /\ CopyInBounds'
    OBVIOUS
  <1> USE CaptureAssumption DEF DriverTypeOK, CopyInBounds, TypeOK
  <1>1. CASE Clock BY <1>1, SMTT(60) DEF Clock, Sleep
  <1>2. ASSUME NEW t \in Threads, Run(t) PROVE DriverTypeOK' /\ CopyInBounds'
    <2>1. CASE SelectDirection(t) BY <2>1 DEF SelectDirection, Move, RegisterWrite
    <2>2. CASE SetStart(t)
      <3>1. slept' \in [Threads -> 0..SleepClocks] BY <2>2 DEF SetStart
      <3> QED BY <2>2, <3>1 DEF SetStart, Move, RegisterWrite
    <2>3. CASE ClearStart(t)
      <3>1. slept' \in [Threads -> 0..SleepClocks] BY <2>3 DEF ClearStart
      <3> QED BY <2>3, <3>1 DEF ClearStart, Move, RegisterWrite
    <2>4. CASE WaitDone(t) BY <2>4 DEF WaitDone, Move, ctl_vars
    <2>5. CASE ReadWord(t)
      <3> USE <2>5 DEF ReadWord, ctl_vars
      <3>1. bram[Len(raw_data[t])] \in Word \cup {NoWord}
        BY DEF HardwareTypeOK
      <3>2. /\ Append(raw_data[t], bram[Len(raw_data[t])]) \in Seq(Word \cup {NoWord})
            /\ Len(Append(raw_data[t], bram[Len(raw_data[t])])) = Len(raw_data[t]) + 1
        BY <3>1
      <3>3. DriverTypeOK'
        BY <3>2
      <3>4. CopyInBounds'
        BY <3>2
      <3> QED BY <3>3, <3>4
    <2>6. CASE BeamBegins(t) BY <2>6 DEF BeamBegins, Move, ctl_vars
    <2>7. CASE BeamNext(t)
      <3> USE <2>7 DEF BeamNext, ctl_vars
      <3>1. (mic[t] + 1) % num_mics \in 0..num_mics - 1
        <4>1. mic[t] + 1 \in Nat OBVIOUS
        <4> HIDE DEF DriverTypeOK, CopyInBounds, TypeOK
        <4> QED BY <4>1, ModRange
      <3>2. (dir[t] + 1) % num_directions \in 0..7
        <4>1. dir[t] \in 0..7 OBVIOUS
        <4> HIDE DEF DriverTypeOK, CopyInBounds, TypeOK
        <4>2. dir[t] + 1 \in Nat BY <4>1
        <4>3. num_directions \in 1..4 OBVIOUS
        <4> HIDE CaptureAssumption
        <4>4. num_directions \in Nat \ {0} BY <4>3
        <4>5. (dir[t] + 1) % num_directions \in 0..num_directions - 1 BY <4>2, <4>4, ModRange
        <4> QED BY <4>3, <4>5
      <3>3. mic' \in [Threads -> 0..num_mics - 1] BY <3>1
      <3>4. dir' \in [Threads -> 0..7] BY <3>2
      <3> QED BY <3>3, <3>4
    <2>8. CASE BeamShowsDirection(t)
      <3>1. PICK d \in Directions : led_select' = M_DATA_TO_MIC[d + 1]
        BY <2>8 DEF BeamShowsDirection
      <3>2. d \in 0..3 BY DEF Directions
      <3>3. M_DATA_TO_MIC[d + 1] \in Nat BY <3>2 DEF M_DATA_TO_MIC
      <3> QED BY <2>8, <3>1, <3>3 DEF BeamShowsDirection, Move, RegisterWrite
    <2> QED BY <1>2, <2>1, <2>2, <2>3, <2>4, <2>5, <2>6, <2>7, <2>8 DEF Run
  <1>3. CASE ClientNext BY <1>3, SMTT(60) DEF ClientNext, ctl_vars, Threads
  <1>4. CASE StartBeamforming BY <1>4 DEF StartBeamforming, Move, ctl_vars, Threads
  <1>5. ASSUME NEW s \in Selects, SetLedSel(s) PROVE DriverTypeOK' /\ CopyInBounds'
    <2>1. s \in Nat OBVIOUS
    <2> QED BY <1>5, <2>1 DEF SetLedSel, RegisterWrite, soft_vars
  <1>6. ASSUME NEW s \in Selects, NEW o \in Operations, Command(o, s)
        PROVE DriverTypeOK' /\ CopyInBounds'
    BY <1>6 DEF Command, Move, ctl_vars, Threads
  <1>7. CASE UNCHANGED vars BY <1>7 DEF vars, ctl_vars, soft_vars
  <1> QED BY <1>1, <1>2, <1>3, <1>4, <1>5, <1>6, <1>7 DEF Next

\* Every variable keeps its type, and get_mic_ith stays within its block RAM.
THEOREM CaptureTypeCorrect == Spec => []TypeOK
  <1>1. Init => TypeOK BY HardwareTypeInit, DriverTypeInit DEF TypeOK
  <1>2. TypeOK /\ [Next]_vars => TypeOK' BY HardwareTypeStep, DriverTypeStep DEF TypeOK
  <1> QED BY <1>1, <1>2, PTL DEF Spec

-----------------------------------------------------------------------------
\* One more word: the last one before the write is w, at address k.
LEMMA FilledExtend ==
  ASSUME HardwareTypeOK, NEW k \in 1..mic_size - 1, WriteMemory, write_enable,
         addr_count = k, Filled(k - 1),
         k >= 2 => Consecutive(bram[k - 1], reg_mics_data)
  PROVE  Filled(k)'
  <1> USE CaptureAssumption DEF HardwareTypeOK
  <1>1. /\ bram'[k] = reg_mics_data
        /\ \A a \in 1..k - 1 : bram'[a] = bram[a]
    BY DEF WriteMemory
  <1>2. reg_mics_data # NoWord
    OBVIOUS
  <1>3. bram'[1] # NoWord
    <2>1. CASE k = 1 BY <2>1, <1>1, <1>2
    <2>2. CASE k >= 2 BY <2>2, <1>1 DEF Filled
    <2> QED BY <2>1, <2>2
  <1>4. ASSUME NEW a \in 1..k - 1 PROVE Consecutive(bram'[a], bram'[a + 1])
    <2>1. CASE a = k - 1 BY <2>1, <1>1
    <2>2. CASE a # k - 1
      <3>1. a \in 1..(k - 1) - 1 /\ a + 1 \in 1..k - 1 BY <2>2
      <3> QED BY <3>1, <1>1 DEF Filled
    <2> QED BY <2>1, <2>2
  <1>5. \A a \in 1..k - 1 : Consecutive(bram[a], bram[a + 1])'
    BY <1>4 DEF Consecutive
  <1> QED BY <1>3, <1>5 DEF Filled

\* A clock in which the processor holds start_capture.
LEMMA ClockStart ==
  ASSUME HardwareTypeOK, Clock, start_capture PROVE CaptureInv'
  <1>1. addr_count' = 0 /\ started' = TRUE /\ done_count' = FALSE /\ write_enable' = FALSE
    BY DEF Clock, CountAddress
  <1> QED BY <1>1, CaptureAssumption DEF CaptureInv

\* A clock with a sample: the address is counted, the word is written next.
LEMMA ClockSample ==
  ASSUME HardwareTypeOK, CaptureInv, Clock, ~start_capture, mics_data_valid, started
  PROVE  CaptureInv'
  <1> USE CaptureAssumption
  <1>1. ~write_enable /\ addr_count < mic_size - 1 /\ ~done_count
    BY Zenon DEF CaptureInv
  <1>2. /\ addr_count' = (addr_count + 1) % mic_size /\ write_enable' = TRUE
        /\ started' = started /\ done_count' = done_count
    BY DEF Clock, CountAddress
  <1>3. addr_count' = addr_count + 1 /\ addr_count \in 0..mic_size - 2
    BY <1>1, <1>2 DEF HardwareTypeOK
  <1>4. /\ bram' = bram /\ mics_data_valid' = FALSE
        /\ newest' = Succ(newest) /\ reg_mics_data' = [sample |-> newest, delays |-> delay_reg]
    BY <1>1 DEF Clock, WriteMemory, DelayLines, LatchSamples
  <1>5. newest' = Succ(reg_mics_data'.sample)
    BY <1>4
  <1>6. Filled(addr_count - 1)'
    <2>1. addr_count' - 1 = addr_count BY <1>3
    <2>2. Filled(addr_count)
      <3>1. CASE addr_count = 0 BY <3>1 DEF Filled
      <3>2. CASE addr_count >= 1 BY <3>2, <1>1 DEF CaptureInv
      <3> QED BY <3>1, <3>2, <1>3
    <2> QED BY <2>1, <2>2, <1>3, <1>4 DEF Filled, Consecutive
  <1>7. addr_count' >= 2 => Consecutive(bram'[addr_count' - 1], reg_mics_data')
    <2> SUFFICES ASSUME addr_count' >= 2
                 PROVE  Consecutive(bram'[addr_count' - 1], reg_mics_data')
      OBVIOUS
    <2>1. addr_count >= 1 /\ addr_count' - 1 = addr_count BY <1>3
    <2>2. bram[addr_count] # NoWord /\ newest = Succ(bram[addr_count].sample)
      BY <2>1, <1>1 DEF CaptureInv
    <2>3. [sample |-> newest, delays |-> delay_reg] # NoWord
      BY DEF HardwareTypeOK, Word
    <2> QED BY <2>1, <2>2, <2>3, <1>4 DEF Consecutive
  <1> QED BY <1>1, <1>2, <1>3, <1>4, <1>5, <1>6, <1>7 DEF CaptureInv

\* A clock without a sample: a word that was counted is written; after the last
\* one the capture is done.
LEMMA ClockIdle ==
  ASSUME HardwareTypeOK, CaptureInv, Clock, ~start_capture, ~(mics_data_valid /\ started)
  PROVE  CaptureInv'
  <1> USE CaptureAssumption
  <1>1. /\ write_enable' = FALSE /\ addr_count' = addr_count
        /\ started' = (started /\ addr_count # mic_size - 1)
        /\ done_count' = (done_count \/ addr_count = mic_size - 1)
    BY DEF Clock, CountAddress
  <1>2. CASE write_enable
    <2>1. /\ started /\ ~mics_data_valid /\ addr_count \in 1..mic_size - 1
          /\ newest = Succ(reg_mics_data.sample) /\ Filled(addr_count - 1)
          /\ addr_count >= 2 => Consecutive(bram[addr_count - 1], reg_mics_data)
          /\ ~done_count
      BY <1>2 DEF CaptureInv, HardwareTypeOK
    <2>2. WriteMemory /\ newest' = newest
      BY <2>1 DEF Clock, DelayLines
    <2>3. Filled(addr_count)'
      BY <1>1, <1>2, <2>1, <2>2, FilledExtend
    <2>4. bram'[addr_count] = reg_mics_data /\ reg_mics_data # NoWord
      BY <1>2, <2>1, <2>2 DEF WriteMemory, HardwareTypeOK
    <2>5. newest' = Succ(bram'[addr_count'].sample) BY <1>1, <2>1, <2>2, <2>4
    <2>6. CASE addr_count = mic_size - 1
      <3>1. started' = FALSE /\ done_count' = TRUE BY <1>1, <2>6
      <3> QED BY <1>1, <2>3, <2>6, <3>1 DEF CaptureInv
    <2>7. CASE addr_count # mic_size - 1
      <3>1. started' = TRUE /\ done_count' = FALSE BY <1>1, <2>1, <2>7, Zenon
      <3>2. addr_count' < mic_size - 1 BY <1>1, <2>1, <2>7
      <3> QED BY <1>1, <2>3, <2>4, <2>5, <3>1, <3>2 DEF CaptureInv
    <2> QED BY <2>6, <2>7
  <1>3. CASE ~write_enable
    <2>1. bram' = bram BY <1>3 DEF Clock, WriteMemory
    <2>2. started => newest' = newest BY DEF Clock, DelayLines
    <2>3. CASE started
      <3>1. ~done_count BY <2>3 DEF CaptureInv
      <3>2. addr_count >= 1 => /\ Filled(addr_count)
                               /\ bram[addr_count] # NoWord
                               /\ newest = Succ(bram[addr_count].sample)
        BY <1>3, <2>3 DEF CaptureInv
      <3>3. Filled(addr_count) => Filled(addr_count)'
        BY <1>1, <2>1 DEF Filled, Consecutive
      <3>4. CASE addr_count = mic_size - 1
        <4>1. started' = FALSE /\ done_count' = TRUE BY <1>1, <3>4
        <4> QED BY <1>1, <3>2, <3>3, <3>4, <4>1 DEF CaptureInv
      <3>5. CASE addr_count # mic_size - 1
        <4>1. started' = TRUE /\ done_count' = FALSE BY <1>1, <2>3, <3>1, <3>5, Zenon
        <4>2. addr_count' < mic_size - 1 BY <1>1, <3>5 DEF HardwareTypeOK
        <4> QED BY <1>1, <2>1, <2>2, <2>3, <3>2, <3>3, <4>1, <4>2 DEF CaptureInv
      <3> QED BY <3>4, <3>5
    <2>4. CASE ~started
      <3>1. addr_count = mic_size - 1 <=> done_count
        BY <2>4 DEF CaptureInv
      <3>2. done_count => Filled(mic_size - 1)' 
        BY <2>1 DEF CaptureInv, Filled, Consecutive
      <3> QED BY <1>1, <2>4, <3>1, <3>2 DEF CaptureInv
    <2> QED BY <2>3, <2>4
  <1> QED BY <1>2, <1>3

\* The invariant of the capture holds for block RAMs of any size, whatever
\* threads write the registers in whatever order.
THEOREM CaptureInvariant == Spec => []CaptureInv
  <1>1. Init => CaptureInv
    BY CaptureAssumption DEF Init, CaptureInv
  <1>2. HardwareTypeOK /\ CaptureInv /\ [Next]_vars => CaptureInv'
    <2> SUFFICES ASSUME HardwareTypeOK, CaptureInv, [Next]_vars PROVE CaptureInv'
      OBVIOUS
    <2>1. CASE Clock
      BY <2>1, ClockStart, ClockSample, ClockIdle
    <2>2. CASE ~Clock
      <3>1. UNCHANGED hw_vars
        BY <2>2, Zenon DEF Next, Run, SelectDirection, SetStart, ClearStart, WaitDone, ReadWord,
           BeamBegins, BeamNext, BeamShowsDirection, ClientNext, StartBeamforming, SetLedSel,
           Command, vars, ctl_vars, hw_vars, soft_vars
      <3> QED BY <3>1 DEF hw_vars, CaptureInv, Filled, Consecutive
    <2> QED BY <2>1, <2>2
  <1>3. TypeOK => HardwareTypeOK BY DEF TypeOK
  <1> QED BY <1>1, <1>2, <1>3, CaptureTypeCorrect, PTL DEF Spec

\* done_capture is never set before the last word is in the block RAM, and the
\* words are successive samples, for every size, thread and order of commands.
THEOREM DoneIsComplete == Spec => []DoneMeansComplete
  <1>1. CaptureInv => DoneMeansComplete
    BY DEF CaptureInv, DoneMeansComplete
  <1> QED BY <1>1, CaptureInvariant, PTL

-----------------------------------------------------------------------------
(* The beam is steered, for any number of words, directions and microphones *)
(* and a sleep of one clock or more.                                        *)

\* A thread other than the beamforming thread only reads.
LEMMA OthersOnlyRead ==
  ASSUME OnlyTheBeamCaptures, DriverTypeOK, BeamIsAlone, NEW t \in Threads \ {FirstBeam}, Run(t)
  PROVE  /\ t = Client /\ ReadWord(t)
         /\ UNCHANGED <<ctl_vars, hw_vars, op, dir, slept>>
         /\ pc'[FirstBeam] = pc[FirstBeam] /\ raw_data'[FirstBeam] = raw_data[FirstBeam]
         /\ BeamIsAlone'
  <1>1. pc[t] \in {"none", "idle", "read", "got"} /\ (pc[t] # "none" => t = Client)
    BY DEF BeamIsAlone
  <1>2. t = Client /\ ReadWord(t) /\ pc[t] = "read"
    BY <1>1 DEF Run, SelectDirection, SetStart, ClearStart, WaitDone, ReadWord, BeamBegins,
       BeamNext, BeamShowsDirection, Move
  <1>3. UNCHANGED <<ctl_vars, hw_vars, op, dir, slept>> /\ op' = op
    BY <1>2 DEF ReadWord
  <1>4. /\ FirstBeam \in Threads
        /\ \A u \in Threads \ {t} : pc'[u] = pc[u] /\ raw_data'[u] = raw_data[u]
        /\ pc'[t] \in {"read", "got"}
    BY <1>2, CaptureAssumption DEF ReadWord, DriverTypeOK, Threads
  <1> QED BY <1>2, <1>3, <1>4 DEF BeamIsAlone

\* Where the invariant does not change.
LEMMA SteeringKept ==
  ASSUME SelectionInv, StartInv, WordsInv,
         UNCHANGED <<mic_select, start_capture, hw_vars>>, clocked' => clocked,
         pc'[FirstBeam] = pc[FirstBeam], dir'[FirstBeam] = dir[FirstBeam],
         slept'[FirstBeam] = slept[FirstBeam], raw_data'[FirstBeam] = raw_data[FirstBeam]
  PROVE  SelectionInv' /\ StartInv' /\ WordsInv'
  <1>1. /\ mic_select' = mic_select /\ start_capture' = start_capture
        /\ mic_delays' = mic_delays /\ delay_reg' = delay_reg /\ started' = started
        /\ write_enable' = write_enable /\ done_count' = done_count /\ addr_count' = addr_count
        /\ reg_mics_data' = reg_mics_data /\ bram' = bram
    BY DEF hw_vars
  <1>2. SelectionInv' BY <1>1 DEF SelectionInv
  <1>3. StartInv' BY <1>1 DEF StartInv
  <1>4. \A a : Steered(a)' <=> Steered(a) BY <1>1 DEF Steered
  <1>5. WordsInv'
    BY <1>1, <1>4 DEF WordsInv
  <1> QED BY <1>2, <1>3, <1>5

LEMMA ClientSteering ==
  ASSUME OnlyTheBeamCaptures, TypeOK, SteeringInv,
         \/ ClientNext \/ StartBeamforming
         \/ \E s \in Selects : SetLedSel(s) \/ \E o \in Operations : Command(o, s)
  PROVE  SteeringInv'
  <1> USE DEF SteeringInv, TypeOK
  <1>1. Client # FirstBeam /\ FirstBeam \in Threads /\ Client \in Threads
    BY CaptureAssumption DEF Threads
  <1>2. CASE ClientNext
    <2>1. /\ UNCHANGED <<mic_select, start_capture, hw_vars>> /\ clocked' = clocked /\ op' = op
          /\ dir' = dir /\ slept' = slept /\ pc' = [pc EXCEPT ![Client] = "idle"]
          /\ raw_data' = [raw_data EXCEPT ![Client] = <<>>]
      BY <1>2 DEF ClientNext, ctl_vars, BeamIsAlone
    <2>2. BeamIsAlone' BY <1>1, <2>1 DEF BeamIsAlone, DriverTypeOK
    <2>3. pc'[FirstBeam] = pc[FirstBeam] /\ raw_data'[FirstBeam] = raw_data[FirstBeam]
      BY <1>1, <2>1 DEF DriverTypeOK
    <2> QED BY <2>1, <2>2, <2>3, SteeringKept
  <1>3. CASE StartBeamforming
    BY <1>3 DEF StartBeamforming, OnlyTheBeamCaptures
  <1>4. ASSUME NEW s \in Selects, SetLedSel(s) PROVE SteeringInv'
    <2>1. /\ UNCHANGED <<mic_select, start_capture, hw_vars>> /\ clocked' = FALSE /\ op' = op
          /\ dir' = dir /\ slept' = slept /\ pc' = pc /\ raw_data' = raw_data
      BY <1>4 DEF SetLedSel, RegisterWrite, soft_vars
    <2>2. BeamIsAlone' BY <2>1 DEF BeamIsAlone
    <2> QED BY <2>1, <2>2, SteeringKept
  <1>5. ASSUME NEW s \in Selects, NEW o \in Operations, Command(o, s) PROVE SteeringInv'
    <2>1. o = "get_mic_ith" BY <1>5 DEF Command, OnlyTheBeamCaptures
    <2>2. /\ UNCHANGED <<mic_select, start_capture, hw_vars>> /\ clocked' = clocked /\ op' = o
          /\ dir' = [dir EXCEPT ![Client] = s] /\ slept' = slept
          /\ pc' = [pc EXCEPT ![Client] = "read"] /\ raw_data' = raw_data
      BY <1>5, <2>1 DEF Command, Move, ctl_vars
    <2>3. BeamIsAlone' BY <1>1, <2>1, <2>2 DEF BeamIsAlone, DriverTypeOK
    <2>4. pc'[FirstBeam] = pc[FirstBeam] /\ dir'[FirstBeam] = dir[FirstBeam]
      BY <1>1, <2>2 DEF DriverTypeOK
    <2> QED BY <2>2, <2>3, <2>4, SteeringKept
  <1> QED BY <1>2, <1>3, <1>4, <1>5

\* The beamforming thread moves on.
LEMMA BeamSteering ==
  ASSUME TypeOK, CaptureInv, SteeringInv, Run(FirstBeam)
  PROVE  SteeringInv'
  <1>1. FirstBeam \in Threads /\ FirstBeam # Client /\ SleepClocks >= 1
    BY CaptureAssumption DEF Threads
  <1>2. PICK b : b = FirstBeam OBVIOUS
  <1>3. /\ pc \in [Threads -> {"none", "idle", "begin", "select", "set", "sleep", "wait",
                              "read", "got", "led"}]
        /\ DOMAIN dir = Threads /\ DOMAIN slept = Threads /\ DOMAIN raw_data = Threads
    BY DEF TypeOK, DriverTypeOK
  <1>4. ASSUME NEW to \in {"select", "set", "sleep", "wait", "read", "got", "led"}, op' = op,
               pc' = [pc EXCEPT ![b] = to]
        PROVE  pc'[b] = to /\ BeamIsAlone'
    BY <1>1, <1>2, <1>3, <1>4 DEF SteeringInv, BeamIsAlone
  <1>5. SelectionInv /\ StartInv /\ WordsInv
    BY DEF SteeringInv
  <1>6. CASE SelectDirection(b)
    <2>1. /\ pc[b] = "select" /\ pc' = [pc EXCEPT ![b] = "set"] /\ op' = op /\ clocked' = FALSE
          /\ mic_select' = dir[b] /\ dir' = dir /\ start_capture' = start_capture
          /\ started' = started /\ write_enable' = write_enable
      BY <1>6 DEF SelectDirection, Move, RegisterWrite, hw_vars
    <2>2. pc'[b] = "set" /\ BeamIsAlone' BY <1>4, <2>1, Zenon
    <2>3. SelectionInv' BY <1>2, <2>1, <2>2 DEF SelectionInv
    <2>4. StartInv' BY <1>2, <1>5, <2>1, <2>2 DEF StartInv
    <2>5. WordsInv' BY <1>2, <2>2 DEF WordsInv
    <2> QED BY <2>2, <2>3, <2>4, <2>5 DEF SteeringInv
  <1>7. CASE SetStart(b)
    <2>1. /\ pc[b] = "set" /\ pc' = [pc EXCEPT ![b] = "sleep"] /\ op' = op /\ clocked
          /\ mic_select' = mic_select /\ dir' = dir /\ start_capture' = TRUE
          /\ slept' = [slept EXCEPT ![b] = 0]
          /\ mic_delays' = mic_delays /\ write_enable' = write_enable
      BY <1>7 DEF SetStart, Move, RegisterWrite, hw_vars
    <2>2. pc'[b] = "sleep" /\ BeamIsAlone' BY <1>4, <2>1, Zenon
    <2>3. slept'[b] = 0 BY <1>1, <1>2, <1>3, <2>1
    <2>4. SelectionInv' BY <1>2, <1>5, <2>1, <2>2, <2>3 DEF SelectionInv
    <2>5. StartInv' BY <1>2, <1>5, <2>1, <2>2, <2>3 DEF StartInv
    <2>6. WordsInv' BY <1>2, <2>2 DEF WordsInv
    <2> QED BY <2>2, <2>4, <2>5, <2>6 DEF SteeringInv
  <1>8. CASE ClearStart(b)
    <2>1. /\ pc[b] = "sleep" /\ pc' = [pc EXCEPT ![b] = "wait"] /\ op' = op
          /\ slept[b] >= 1
          /\ mic_select' = mic_select /\ dir' = dir /\ start_capture' = FALSE
          /\ mic_delays' = mic_delays /\ delay_reg' = delay_reg /\ write_enable' = write_enable
          /\ addr_count' = addr_count
      BY <1>1, <1>8 DEF ClearStart, Move, hw_vars
    <2>2. pc'[b] = "wait" /\ BeamIsAlone' BY <1>4, <2>1, Zenon
    <2>3. SelectionInv' BY <1>2, <1>5, <2>1, <2>2 DEF SelectionInv
    <2>4. StartInv' BY <1>2, <2>1, <2>2 DEF StartInv
    <2>5. addr_count' = 0 /\ ~write_enable' BY <1>2, <1>5, <2>1 DEF StartInv
    <2>6. WordsInv' BY <1>2, <2>2, <2>5 DEF WordsInv
    <2> QED BY <2>2, <2>3, <2>4, <2>6 DEF SteeringInv
  <1>9. CASE WaitDone(b)
    <2>1. /\ pc[b] = "wait" /\ pc' = [pc EXCEPT ![b] = "read"] /\ op' = op /\ done_count
          /\ done_count' = done_count /\ dir' = dir /\ start_capture' = start_capture
          /\ bram' = bram /\ raw_data' = raw_data
      BY <1>1, <1>2, <1>9 DEF WaitDone, Move, ctl_vars, hw_vars
    <2>2. pc'[b] = "read" /\ BeamIsAlone' BY <1>4, <2>1, Zenon
    <2>3. SelectionInv' BY <1>2, <2>2 DEF SelectionInv
    <2>4. StartInv' BY <1>2, <1>5, <2>1, <2>2 DEF StartInv
    <2>5. addr_count = mic_size - 1 /\ ~write_enable BY <2>1 DEF CaptureInv
    <2>6. \A a \in 1..mic_size - 1 : Steered(a)'
      BY <1>2, <1>5, <2>1, <2>5 DEF WordsInv, Steered
    <2>7. Len(raw_data'[b]) = 0
      BY <1>1, <1>2, <2>1 DEF TypeOK, CopyInBounds
    <2>8. WordsInv' BY <1>2, <2>2, <2>6, <2>7 DEF WordsInv
    <2> QED BY <2>2, <2>3, <2>4, <2>8 DEF SteeringInv
  <1>10. CASE ReadWord(b)
    <2>1. /\ pc[b] = "read" /\ op' = op
          /\ pc' = [pc EXCEPT ![b] = IF Len(raw_data[b]) = mic_size - 1 THEN "got" ELSE "read"]
          /\ done_count' = done_count /\ dir' = dir /\ start_capture' = start_capture
          /\ bram' = bram
          /\ raw_data' = [raw_data EXCEPT ![b] = Append(raw_data[b], bram[Len(raw_data[b])])]
      BY <1>10 DEF ReadWord, ctl_vars, hw_vars
    <2>2. pc'[b] \in {"read", "got"} /\ BeamIsAlone' BY <1>4, <2>1, Zenon
    <2>3. SelectionInv' BY <1>2, <2>2 DEF SelectionInv
    <2>4. StartInv' BY <1>2, <1>5, <2>1, <2>2 DEF StartInv
    <2>5. \A a \in 1..mic_size - 1 : Steered(a)'
      BY <1>2, <1>5, <2>1 DEF WordsInv, Steered
    <2>6. \A i \in 1..Len(raw_data'[b]) : raw_data'[b][i] = bram[i - 1]
      <3>1. /\ raw_data[b] \in Seq(Word \cup {NoWord})
            /\ raw_data'[b] = Append(raw_data[b], bram[Len(raw_data[b])])
        BY <1>1, <1>2, <2>1 DEF TypeOK, DriverTypeOK
      <3>2. bram[Len(raw_data[b])] \in Word \cup {NoWord}
        <4>1. Len(raw_data[b]) \in Nat /\ Len(raw_data[b]) < mic_size
          BY <1>1, <1>2, <2>1, <3>1 DEF TypeOK, CopyInBounds
        <4> QED BY <4>1, CaptureAssumption DEF TypeOK, HardwareTypeOK
      <3>3. \A i \in 1..Len(raw_data[b]) : raw_data[b][i] = bram[i - 1]
        BY <1>2, <1>5, <2>1 DEF WordsInv
      <3> QED BY <3>1, <3>2, <3>3
    <2>7. WordsInv' BY <1>2, <2>1, <2>2, <2>5, <2>6 DEF WordsInv
    <2> QED BY <2>2, <2>3, <2>4, <2>7 DEF SteeringInv
  <1>11. CASE BeamBegins(b)
    <2>1. /\ pc[b] = "begin" /\ pc' = [pc EXCEPT ![b] = "select"] /\ op' = op
          /\ start_capture' = start_capture /\ started' = started /\ write_enable' = write_enable
      BY <1>11 DEF BeamBegins, Move, ctl_vars, hw_vars
    <2>2. pc'[b] = "select" /\ BeamIsAlone' BY <1>4, <2>1, Zenon
    <2>3. StartInv' BY <1>2, <1>5, <2>1, <2>2 DEF StartInv
    <2> QED BY <1>2, <2>2, <2>3 DEF SteeringInv, SelectionInv, WordsInv
  <1>12. CASE BeamNext(b)
    <2>1. PICK to \in {"read", "select", "led"} :
            /\ pc' = [pc EXCEPT ![b] = to]
            /\ to = "read" => dir' = [dir EXCEPT ![b] = dir[b]]
      BY <1>12 DEF BeamNext
    <2>2. /\ pc[b] = "got" /\ op' = op /\ start_capture' = start_capture /\ started' = started
          /\ write_enable' = write_enable /\ done_count' = done_count /\ bram' = bram
          /\ raw_data' = [raw_data EXCEPT ![b] = <<>>]
      BY <1>12 DEF BeamNext, ctl_vars, hw_vars
    <2>3. pc'[b] = to /\ BeamIsAlone' BY <1>4, <2>1, <2>2
    <2>4. ~started /\ ~write_enable /\ done_count
      BY <1>2, <1>5, <2>2 DEF StartInv, CaptureInv
    <2>5. StartInv' BY <1>2, <1>5, <2>2, <2>3, <2>4 DEF StartInv
    <2>6. SelectionInv' BY <1>2, <2>3 DEF SelectionInv
    <2>7. WordsInv'
      <3>1. CASE to = "read"
        <4>1. dir'[b] = dir[b] /\ raw_data'[b] = <<>>
          BY <1>1, <1>2, <1>3, <2>1, <2>2, <3>1
        <4>2. \A a \in 1..mic_size - 1 : Steered(a)'
          BY <1>2, <1>5, <2>2, <4>1 DEF WordsInv, Steered
        <4> QED BY <1>2, <2>3, <3>1, <4>1, <4>2 DEF WordsInv
      <3>2. CASE to # "read" BY <1>2, <2>3, <3>2 DEF WordsInv
      <3> QED BY <3>1, <3>2
    <2> QED BY <2>3, <2>5, <2>6, <2>7 DEF SteeringInv
  <1>13. CASE BeamShowsDirection(b)
    <2>1. /\ pc[b] = "led" /\ pc' = [pc EXCEPT ![b] = "select"] /\ op' = op
          /\ start_capture' = start_capture /\ started' = started /\ write_enable' = write_enable
      BY <1>13 DEF BeamShowsDirection, Move, hw_vars
    <2>2. pc'[b] = "select" /\ BeamIsAlone' BY <1>4, <2>1, Zenon
    <2>3. StartInv' BY <1>2, <1>5, <2>1, <2>2 DEF StartInv
    <2> QED BY <1>2, <2>2, <2>3 DEF SteeringInv, SelectionInv, WordsInv
  <1> QED
    BY <1>2, <1>6, <1>7, <1>8, <1>9, <1>10, <1>11, <1>12, <1>13 DEF Run

\* A clock takes the selection one register further and, in a capture, counts
\* an address or writes a word.
LEMMA ClockSteering ==
  ASSUME TypeOK, CaptureInv, SteeringInv, Clock
  PROVE  SteeringInv'
  <1>1. FirstBeam \in Threads BY CaptureAssumption DEF Threads
  <1>2. PICK b : b = FirstBeam OBVIOUS
  <1>3. PICK d : d = MicDelays(dir[b]) OBVIOUS
  <1>4. /\ pc' = pc /\ op' = op /\ dir' = dir /\ raw_data' = raw_data /\ mic_select' = mic_select
        /\ start_capture' = start_capture
        /\ mic_delays' = MicDelays(mic_select) /\ delay_reg' = mic_delays
        /\ reg_mics_data' = [sample |-> newest, delays |-> delay_reg]
        /\ bram' = IF write_enable THEN [bram EXCEPT ![addr_count] = reg_mics_data] ELSE bram
    BY DEF Clock, DelayLines, LatchSamples, WriteMemory
  <1>5. BeamIsAlone' BY <1>4 DEF SteeringInv, BeamIsAlone
  <1>6. SelectionInv /\ StartInv /\ WordsInv BY DEF SteeringInv
  <1>7. SelectionInv'
    BY <1>4, <1>6 DEF SelectionInv
  <1>8. CASE pc[b] \in {"begin", "select", "set", "led"}
    <2>1. ~start_capture /\ ~started BY <1>2, <1>6, <1>8 DEF StartInv
    <2>2. ~started' /\ ~write_enable' BY <2>1, Zenon DEF Clock, CountAddress
    <2>3. StartInv' BY <1>2, <1>4, <1>8, <2>1, <2>2 DEF StartInv
    <2>4. WordsInv' BY <1>2, <1>4, <1>8 DEF WordsInv
    <2> QED BY <1>5, <1>7, <2>3, <2>4 DEF SteeringInv
  <1>9. CASE pc[b] = "sleep"
    <2>1. start_capture BY <1>2, <1>6, <1>9 DEF StartInv
    <2>2. done_count' = FALSE /\ write_enable' = FALSE /\ addr_count' = 0
      BY <2>1 DEF Clock, CountAddress
    <2>3. StartInv' BY <1>2, <1>4, <1>9, <2>1, <2>2 DEF StartInv
    <2>4. WordsInv' BY <1>2, <1>4, <1>9 DEF WordsInv
    <2> QED BY <1>5, <1>7, <2>3, <2>4 DEF SteeringInv
  <1>10. CASE pc[b] = "wait"
    <2>1. ~start_capture /\ delay_reg = d
      BY <1>2, <1>3, <1>6, <1>10 DEF StartInv, SelectionInv
    <2>2. StartInv' BY <1>2, <1>4, <1>10, <2>1 DEF StartInv
    <2>3. /\ write_enable => reg_mics_data.delays = d
          /\ \A a \in 1..addr_count : \/ bram[a] # NoWord /\ bram[a].delays = d
                                      \/ a = addr_count /\ write_enable
      BY <1>2, <1>3, <1>6, <1>10 DEF WordsInv, Steered
    <2>4. addr_count \in 0..mic_size - 1 /\ reg_mics_data \in Word /\ reg_mics_data # NoWord
          /\ DOMAIN bram = 0..mic_size - 1
      BY CaptureAssumption DEF TypeOK, HardwareTypeOK
    <2>5. reg_mics_data'.delays = d BY <1>4, <2>1
    <2>6. \A a \in 1..addr_count : bram'[a] # NoWord /\ bram'[a].delays = d
      <3>1. CASE write_enable
        <4>1. \A a \in 1..addr_count :
                bram'[a] = IF a = addr_count THEN reg_mics_data ELSE bram[a]
          BY <1>4, <2>4, <3>1
        <4> QED BY <2>3, <2>4, <3>1, <4>1
      <3>2. CASE ~write_enable BY <1>4, <2>3, <3>2
      <3> QED BY <3>1, <3>2
    <2>7. \A a \in 1..addr_count' : \/ bram'[a] # NoWord /\ bram'[a].delays = d
                                    \/ a = addr_count' /\ write_enable'
      <3>1. CASE mics_data_valid /\ started
        <4>1. addr_count' = (addr_count + 1) % mic_size /\ write_enable' = TRUE
          BY <2>1, <3>1 DEF Clock, CountAddress
        <4>2. addr_count < mic_size - 1 BY <3>1 DEF CaptureInv
        <4>3. addr_count' = addr_count + 1 BY <2>4, <4>1, <4>2, CaptureAssumption
        <4> QED BY <2>4, <2>6, <4>1, <4>3
      <3>2. CASE ~(mics_data_valid /\ started)
        <4>1. addr_count' = addr_count BY <2>1, <3>2, Zenon DEF Clock, CountAddress
        <4> QED BY <2>6, <4>1
      <3> QED BY <3>1, <3>2
    <2>8. \A a : Steered(a)' <=> bram'[a] # NoWord /\ bram'[a].delays = d
      BY <1>2, <1>3, <1>4 DEF Steered
    <2>9. WordsInv'
      BY <1>2, <1>3, <1>4, <1>10, <2>5, <2>7, <2>8 DEF WordsInv
    <2> QED BY <1>5, <1>7, <2>2, <2>9 DEF SteeringInv
  <1>11. CASE pc[b] \in {"read", "got"}
    <2>1. ~start_capture /\ done_count /\ ~started /\ ~write_enable
      BY <1>2, <1>6, <1>11 DEF StartInv, CaptureInv
    <2>2. done_count' = TRUE /\ bram' = bram
      BY <1>4, <2>1, Zenon DEF Clock, CountAddress
    <2>3. StartInv' BY <1>2, <1>4, <1>11, <2>1, <2>2 DEF StartInv
    <2>4. \A a : Steered(a)' <=> Steered(a) BY <1>4, <2>2 DEF Steered
    <2>5. WordsInv' BY <1>2, <1>4, <1>6, <1>11, <2>2, <2>4 DEF WordsInv
    <2> QED BY <1>5, <1>7, <2>3, <2>5 DEF SteeringInv
  <1>12. pc[b] \in {"begin", "select", "set", "sleep", "wait", "read", "got", "led"}
    BY <1>1, <1>2 DEF TypeOK, DriverTypeOK, SteeringInv, BeamIsAlone
  <1> QED BY <1>8, <1>9, <1>10, <1>11, <1>12

\* The invariant of the steering, when no client captures: the selection has
\* settled before the first word of a capture is taken, whatever the length of
\* the sleep, and no word of the capture before is left when it is done.
THEOREM SteeringInvariant ==
  ASSUME OnlyTheBeamCaptures PROVE Spec => []SteeringInv
  <1>1. Init => SteeringInv
    <2> SUFFICES ASSUME Init PROVE SteeringInv OBVIOUS
    <2>1. FirstBeam \in Threads /\ FirstBeam # Client BY CaptureAssumption DEF Threads
    <2>2. pc[FirstBeam] = "begin" /\ ~started /\ ~write_enable /\ ~start_capture /\ op = "none"
      BY <2>1 DEF Init
    <2>3. BeamIsAlone BY <2>1, <2>2 DEF Init, BeamIsAlone
    <2> QED BY <2>2, <2>3 DEF SteeringInv, SelectionInv, StartInv, WordsInv
  <1>2. TypeOK /\ CaptureInv /\ SteeringInv /\ [Next]_vars => SteeringInv'
    <2> SUFFICES ASSUME TypeOK, CaptureInv, SteeringInv, [Next]_vars PROVE SteeringInv'
      OBVIOUS
    <2>1. CASE Clock BY <2>1, ClockSteering
    <2>2. ASSUME NEW t \in Threads, Run(t) PROVE SteeringInv'
      <3>1. CASE t = FirstBeam BY <2>2, <3>1, BeamSteering
      <3>2. CASE t # FirstBeam
        <4>1. /\ UNCHANGED <<ctl_vars, hw_vars, op, dir, slept>> /\ BeamIsAlone'
              /\ pc'[FirstBeam] = pc[FirstBeam] /\ raw_data'[FirstBeam] = raw_data[FirstBeam]
          BY <2>2, <3>2, OthersOnlyRead DEF TypeOK, SteeringInv
        <4> QED BY <4>1, SteeringKept DEF ctl_vars, SteeringInv
      <3> QED BY <3>1, <3>2
    <2>3. CASE \/ ClientNext \/ StartBeamforming
               \/ \E s \in Selects : SetLedSel(s) \/ \E o \in Operations : Command(o, s)
      BY <2>3, ClientSteering
    <2>4. CASE UNCHANGED vars
      <3>1. BeamIsAlone' BY <2>4 DEF vars, soft_vars, SteeringInv, BeamIsAlone
      <3> QED BY <2>4, <3>1, SteeringKept DEF vars, ctl_vars, soft_vars, SteeringInv
    <2> QED BY <2>1, <2>2, <2>3, <2>4 DEF Next
  <1> QED BY <1>1, <1>2, CaptureTypeCorrect, CaptureInvariant, PTL DEF Spec

\* What the beamforming thread adds up for a direction are successive samples
\* with the delays of that direction only, for block RAMs of any size and any
\* number of directions and microphones, when no client captures as well.
THEOREM BeamSteered ==
  ASSUME OnlyTheBeamCaptures PROVE Spec => []BeamIsSteered
  <1>1. TypeOK /\ CaptureInv /\ SteeringInv => BeamIsSteered
    <2> SUFFICES ASSUME TypeOK, CaptureInv, SteeringInv, NEW t \in Beams, pc[t] = "got"
                 PROVE  /\ \A i \in 2..mic_size : /\ raw_data[t][i] # NoWord
                                                  /\ raw_data[t][i].delays = MicDelays(dir[t])
                        /\ \A i \in 2..mic_size - 1 :
                              Consecutive(raw_data[t][i], raw_data[t][i + 1])
      BY DEF BeamIsSteered
    <2>1. t = FirstBeam /\ t \in Threads
      BY CaptureAssumption DEF SteeringInv, BeamIsAlone, Threads
    <2>2. Len(raw_data[t]) = mic_size BY <2>1 DEF TypeOK, CopyInBounds
    <2>3. /\ \A a \in 1..mic_size - 1 : bram[a] # NoWord /\ bram[a].delays = MicDelays(dir[t])
          /\ \A i \in 1..mic_size : raw_data[t][i] = bram[i - 1]
      BY <2>1, <2>2 DEF SteeringInv, WordsInv, Steered
    <2>4. \A a \in 1..mic_size - 2 : Consecutive(bram[a], bram[a + 1])
      BY <2>1, CaptureAssumption DEF SteeringInv, StartInv, CaptureInv, Filled
    <2>5. ASSUME NEW i \in 2..mic_size
          PROVE  raw_data[t][i] # NoWord /\ raw_data[t][i].delays = MicDelays(dir[t])
      BY <2>3, CaptureAssumption
    <2>6. ASSUME NEW i \in 2..mic_size - 1 PROVE Consecutive(raw_data[t][i], raw_data[t][i + 1])
      <3>1. PICK a \in 1..mic_size - 2 : i = a + 1 BY CaptureAssumption
      <3>2. raw_data[t][i] = bram[a] /\ raw_data[t][i + 1] = bram[a + 1]
        BY <2>3, <3>1, CaptureAssumption
      <3> QED BY <2>4, <3>2
    <2> QED BY <2>5, <2>6
  <1> QED BY <1>1, CaptureTypeCorrect, CaptureInvariant, SteeringInvariant, PTL
=============================================================================
