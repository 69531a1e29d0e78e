-------------------------- MODULE DmaTransferProofs --------------------------
(***************************************************************************)
(* For every size of transfer, any number of transfers and engines that    *)
(* take any number of beats ahead below read_offset: which of the rows a   *)
(* command returns were written by the last transfer, and that the counter *)
(* of axis_tlast is in step again when a command ends.                     *)
(*                                                                         *)
(* The state of a bank is known from the place of the command in progress  *)
(* (Pos), so the proof first follows that place through the sequence of    *)
(* accesses (Places to Moves), then shows by arithmetic that the sleep is  *)
(* long enough (LongEnough), and takes the actions one by one. The answers *)
(* come last: when a command reads, the rows of the banks are known.       *)
(***************************************************************************)
EXTENDS DmaTransfer, SequenceTheorems, WellFoundedInduction, TLAPS

-----------------------------------------------------------------------------
LEMMA Places ==
  \A x \in Nat :
    /\ Place(<<"points", x>>) = 1      /\ Place(<<"reset", x>>) = 2 + x
    /\ Place(<<"wait_reset", x>>) = 4 + x  /\ Place(<<"run", x>>) = 6 + x
    /\ Place(<<"wait_start", x>>) = 8 + x  /\ Place(<<"length", x>>) = 10 + x
    /\ Place(<<"on", x>>) = 12 + x     /\ Place(<<"duration", x>>) = 14 + x
    /\ Place(<<"sleep", x>>) = 15 + x  /\ Place(<<"off", x>>) = 16 + x
    /\ Place(<<"read", x>>) = 18       /\ Place(<<"nsamples", x>>) = 19
    /\ Place(<<"read_mics6", x>>) = 19
  BY DEF Place

LEMMA Args == Bank \cup Samples \subseteq Nat
  BY DmaAssumption DEF Bank

LEMMA PlaceType ==
  \A a \in Operations \X (Bank \cup Samples) : Place(a) \in Nat
  <1>1. \A o \in Operations, x \in Nat : Place(<<o, x>>) \in Nat
    BY DEF Place, Operations
  <1>2. \A a \in Operations \X (Bank \cup Samples) :
          a = <<a[1], a[2]>> /\ a[1] \in Operations /\ a[2] \in Nat
    BY Args
  <1> QED BY <1>1, <1>2, Zenon

\* The steps of a command, by their places.
PosAt ==
  /\ \A n \in Samples : /\ At("points", n) => Pos = 1
                        /\ At("nsamples", n) => Pos = 19
                        /\ At("read", n) => Pos = 18
                        /\ At("read_mics6", n) => Pos = 19
  /\ \A e \in Bank :
       /\ At("reset", e) => Pos = 2 + e
       /\ At("wait_reset", e) => Pos = 4 + e
       /\ At("run", e) => Pos = 6 + e
       /\ At("wait_start", e) => Pos = 8 + e
       /\ At("length", e) => Pos = 10 + e
       /\ At("on", e) => Pos = IF Len(todo) = 1 THEN 0 ELSE 12 + e
       /\ At("off", e) => Pos = 16 + e
  /\ At("duration", 0) => Pos = 14
  /\ At("sleep", 0) => Pos = 15

LEMMA PosIsAt == AccessTypes => PosAt /\ Pos \in Nat /\ (todo = <<>> => Pos = 0)
  <1> SUFFICES ASSUME todo \in Seq(Operations \X (Bank \cup Samples))
               PROVE PosAt /\ Pos \in Nat /\ (todo = <<>> => Pos = 0)
    BY DEF AccessTypes
  <1>1. ASSUME NEW op, NEW x, At(op, x)
        PROVE /\ todo[1] = <<op, x>> /\ Len(todo) \in Nat \ {0}
              /\ op # "on" => Pos = Place(<<op, x>>)
              /\ op = "on" => Pos = IF Len(todo) = 1 THEN 0 ELSE Place(<<op, x>>)
    <2>1. todo # <<>> /\ todo[1] = <<op, x>> /\ Len(todo) \in Nat \ {0}
      BY <1>1 DEF At
    <2>2. todo[1][1] = op
      BY <2>1
    <2> QED BY <2>1, <2>2 DEF Pos
  <1>2. \A n \in Samples : n \in Nat
    BY Args
  <1>3. \A e \in Bank : e \in Nat
    BY Args
  <1>a. \A op \in Operations, x \in Nat :
          At(op, x) => Pos = IF op = "on" /\ Len(todo) = 1 THEN 0 ELSE Place(<<op, x>>)
    BY <1>1
  <1>4. ASSUME NEW n \in Samples
        PROVE /\ At("points", n) => Pos = 1
              /\ At("nsamples", n) => Pos = 19
              /\ At("read", n) => Pos = 18
              /\ At("read_mics6", n) => Pos = 19
    BY <1>a, <1>2, Places DEF Operations
  <1>5. ASSUME NEW e \in Bank
        PROVE /\ At("reset", e) => Pos = 2 + e
              /\ At("wait_reset", e) => Pos = 4 + e
              /\ At("run", e) => Pos = 6 + e
              /\ At("wait_start", e) => Pos = 8 + e
              /\ At("length", e) => Pos = 10 + e
              /\ At("off", e) => Pos = 16 + e
    BY <1>a, <1>3, Places DEF Operations
  <1>6. ASSUME NEW e \in Bank
        PROVE At("on", e) => Pos = IF Len(todo) = 1 THEN 0 ELSE 12 + e
    BY <1>a, <1>3, Places DEF Operations
  <1>7. /\ At("duration", 0) => Pos = 14
        /\ At("sleep", 0) => Pos = 15
    <2>1. ASSUME NEW x \in {0}
          PROVE /\ At("duration", x) => Pos = 14 + x
                /\ At("sleep", x) => Pos = 15 + x
      BY <1>a, Places, ZenonT(60) DEF Operations
    <2> QED BY <2>1
  <1>8. Pos \in Nat
    <2>1. CASE todo = <<>>
      BY <2>1 DEF Pos
    <2>2. CASE todo # <<>>
      <3>1. todo[1] \in Operations \X (Bank \cup Samples)
        BY <2>2
      <3> QED BY <3>1, PlaceType DEF Pos
    <2> QED BY <2>1, <2>2
  <1>9. todo = <<>> => Pos = 0
    BY DEF Pos
  <1> QED BY <1>4, <1>5, <1>6, <1>7, <1>8, <1>9 DEF PosAt

\* A step of a command is done: the command is at the next one, or over.
LEMMA Advance ==
  ASSUME AccessTypes, TodoInv, todo # <<>>, todo' = Tail(todo)
  PROVE  /\ todo' \in Seq(Operations \X (Bank \cup Samples)) /\ TodoInv'
         /\ Len(todo) = 1 => Pos' = 0
         /\ Len(todo) # 1 => Pos' = Pos + 1
         /\ Len(todo) \in Nat \ {0}
  <1>1. todo \in Seq(Operations \X (Bank \cup Samples))
    BY DEF AccessTypes
  <1>2. /\ todo' \in Seq(Operations \X (Bank \cup Samples))
        /\ Len(todo) \in Nat \ {0} /\ Len(todo') = Len(todo) - 1
        /\ \A i \in 1 .. Len(todo') : todo'[i] = todo[i + 1]
    BY <1>1
  <1>3. TodoInv'
    <2>1. ASSUME NEW i \in 1 .. Len(todo') - 1
          PROVE Place(todo'[i + 1]) = Place(todo'[i]) + 1 /\ Place(todo'[i]) < 18
      <3>1. /\ todo'[i + 1] = todo[(i + 1) + 1] /\ todo'[i] = todo[i + 1]
            /\ i + 1 \in 1 .. Len(todo) - 1
        BY <1>2
      <3> QED BY <3>1 DEF TodoInv
    <2>2. Len(todo') >= 1 => todo'[Len(todo')][1] \in {"sleep", "read"}
      <3>1. Len(todo') >= 1 => todo'[Len(todo')] = todo[Len(todo)] /\ Len(todo) > 1
        BY <1>2
      <3> QED BY <3>1 DEF TodoInv
    <2>3. Len(todo') \in Nat
      BY <1>2
    <2>4. /\ Len(todo') = 1 => todo'[1][1] \in {"sleep", "read", "nsamples", "read_mics6", "on", "off"}
          /\ Len(todo') > 1 => todo'[Len(todo')][1] \in {"sleep", "read"}
      <3>1. Len(todo') = 1 \/ Len(todo') > 1 => Len(todo') >= 1
        BY <2>3
      <3>2. Len(todo') = 1 => todo'[Len(todo')] = todo'[1]
        OBVIOUS
      <3> QED BY <2>2, <3>1, <3>2, Zenon
    <2> QED BY <2>1, <2>4, Zenon DEF TodoInv
  <1>4. Len(todo) = 1 => Pos' = 0
    BY <1>2 DEF Pos
  <1>5. Len(todo) # 1 => Pos' = Pos + 1
    <2> SUFFICES ASSUME Len(todo) # 1 PROVE Pos' = Pos + 1
      OBVIOUS
    <2>1. Pos = Place(todo[1])
      BY DEF Pos
    <2>2. todo' # <<>> /\ todo'[1] = todo[2]
      <3>1. Len(todo') # 0 /\ 1 \in 1 .. Len(todo') /\ 1 + 1 = 2
        BY <1>2
      <3> QED BY <3>1, <1>2
    <2>3. Place(todo[2]) = Place(todo[1]) + 1
      <3>1. 1 \in 1 .. Len(todo) - 1 /\ 1 + 1 = 2
        BY <1>2
      <3> QED BY <3>1 DEF TodoInv
    <2>4. Len(todo') = 1 => todo'[1][1] # "on"
      BY <1>2, <2>2 DEF TodoInv
    <2> QED BY <2>1, <2>2, <2>3, <2>4 DEF Pos
  <1> QED BY <1>2, <1>3, <1>4, <1>5

-----------------------------------------------------------------------------
\* The accesses of a transfer, one by one.
LEMMA StartIsProgram ==
  ASSUME NEW n \in Samples
  PROVE  LET p == start_dma_transfer(n)
         IN  /\ Len(p) = 15 /\ p \in Seq(Operations \X (Bank \cup Samples))
             /\ p[1] = <<"points", n>> /\ p[2] = <<"reset", 0>> /\ p[3] = <<"reset", 1>>
             /\ p[4] = <<"wait_reset", 0>> /\ p[5] = <<"wait_reset", 1>>
             /\ p[6] = <<"run", 0>> /\ p[7] = <<"run", 1>>
             /\ p[8] = <<"wait_start", 0>> /\ p[9] = <<"wait_start", 1>>
             /\ p[10] = <<"length", 0>> /\ p[11] = <<"length", 1>>
             /\ p[12] = <<"on", 0>> /\ p[13] = <<"on", 1>>
             /\ p[14] = <<"duration", 0>> /\ p[15] = <<"sleep", 0>>
  <1> DEFINE Access == Operations \X (Bank \cup Samples)
             first == <<<<"points", n>>>>
             last == <<<<"on", 0>>, <<"on", 1>>, <<"duration", 0>>, <<"sleep", 0>>>>
  <1>1. first \in Seq(Access) /\ reset \in Seq(Access) /\ start \in Seq(Access)
    BY DEF Operations, Bank, reset, start
  <1>2. set_length \in Seq(Access) /\ last \in Seq(Access)
    BY DEF Operations, Bank, set_length
  <1>3. /\ Len(first) = 1 /\ Len(reset) = 4 /\ Len(start) = 4 /\ Len(set_length) = 2
        /\ Len(last) = 4
    BY DEF reset, start, set_length
  <1> HIDE DEF Access
  <1>4. setup_transfer \in Seq(Access)
    BY <1>1, <1>2 DEF setup_transfer
  <1>5. Len(setup_transfer) = 10
    BY DEF setup_transfer, reset, start, set_length
  <1>6. /\ setup_transfer[1] = <<"reset", 0>> /\ setup_transfer[2] = <<"reset", 1>>
        /\ setup_transfer[3] = <<"wait_reset", 0>> /\ setup_transfer[4] = <<"wait_reset", 1>>
        /\ setup_transfer[5] = <<"run", 0>> /\ setup_transfer[6] = <<"run", 1>>
    BY DEF setup_transfer, reset, start, set_length
  <1>7. /\ setup_transfer[7] = <<"wait_start", 0>> /\ setup_transfer[8] = <<"wait_start", 1>>
        /\ setup_transfer[9] = <<"length", 0>> /\ setup_transfer[10] = <<"length", 1>>
    BY DEF setup_transfer, reset, start, set_length
  <1> DEFINE p == start_dma_transfer(n)
  <1>8. p = first \o setup_transfer \o last
    BY DEF start_dma_transfer
  <1> DEFINE a == first \o setup_transfer
  <1>9. p \in Seq(Access) /\ Len(p) = 15 /\ Len(a) = 11
    <2> HIDE DEF first, last, p
    <2>1. a \in Seq(Access) /\ Len(a) = Len(first) + Len(setup_transfer)
      BY <1>1, <1>4, ConcatProperties, Zenon
    <2>2. a \o last \in Seq(Access) /\ Len(a \o last) = Len(a) + Len(last)
      BY <1>2, <2>1, ConcatProperties, Zenon
    <2> QED BY <1>3, <1>5, <1>8, <2>1, <2>2
  <1>10. \A i \in 1 .. 15 : p[i] = IF i = 1 THEN first[1] ELSE IF i <= 11 THEN setup_transfer[i - 1]
                                   ELSE last[i - 11]
    <2> HIDE DEF first, last, p
    <2>1. a \in Seq(Access)
          /\ \A i \in 1 .. Len(first) + Len(setup_transfer) :
               a[i] = IF i <= Len(first) THEN first[i] ELSE setup_transfer[i - Len(first)]
      BY <1>1, <1>4, ConcatProperties, Zenon
    <2>2. \A i \in 1 .. Len(a) + Len(last) :
            (a \o last)[i] = IF i <= Len(a) THEN a[i] ELSE last[i - Len(a)]
      BY <1>2, <2>1, ConcatProperties, Zenon
    <2>3. \A i \in 1 .. 11 : a[i] = IF i <= 1 THEN first[i] ELSE setup_transfer[i - 1]
      <3>1. Len(first) + Len(setup_transfer) = 11 /\ Len(first) = 1
        BY <1>3, <1>5
      <3> QED BY <2>1, <3>1, Zenon
    <2>4. \A i \in 1 .. 15 : p[i] = IF i <= 11 THEN a[i] ELSE last[i - 11]
      <3>1. Len(a) + Len(last) = 15 /\ Len(a) = 11
        BY <1>3, <1>9
      <3> QED BY <1>8, <2>2, <3>1, Zenon
    <2> HIDE DEF a
    <2> QED BY <2>3, <2>4
  <1>11. first[1] = <<"points", n>> /\ last[1] = <<"on", 0>> /\ last[2] = <<"on", 1>>
         /\ last[3] = <<"duration", 0>> /\ last[4] = <<"sleep", 0>>
    OBVIOUS
  <1> HIDE DEF first, last, p
  <1>12. /\ p[1] = first[1] /\ p[2] = setup_transfer[1] /\ p[3] = setup_transfer[2]
         /\ p[4] = setup_transfer[3] /\ p[5] = setup_transfer[4] /\ p[6] = setup_transfer[5]
         /\ p[7] = setup_transfer[6] /\ p[8] = setup_transfer[7]
    BY <1>10
  <1>13. /\ p[9] = setup_transfer[8] /\ p[10] = setup_transfer[9] /\ p[11] = setup_transfer[10]
         /\ p[12] = last[1] /\ p[13] = last[2] /\ p[14] = last[3] /\ p[15] = last[4]
    BY <1>10
  <1>14. /\ Len(p) = 15 /\ p \in Seq(Access)
         /\ p[1] = <<"points", n>> /\ p[2] = <<"reset", 0>> /\ p[3] = <<"reset", 1>>
         /\ p[4] = <<"wait_reset", 0>> /\ p[5] = <<"wait_reset", 1>>
         /\ p[6] = <<"run", 0>> /\ p[7] = <<"run", 1>>
         /\ p[8] = <<"wait_start", 0>> /\ p[9] = <<"wait_start", 1>>
         /\ p[10] = <<"length", 0>> /\ p[11] = <<"length", 1>>
         /\ p[12] = <<"on", 0>> /\ p[13] = <<"on", 1>>
         /\ p[14] = <<"duration", 0>> /\ p[15] = <<"sleep", 0>>
    BY <1>6, <1>7, <1>9, <1>11, <1>12, <1>13, Zenon
  <1> QED BY <1>14, Zenon DEF p, Access

LEMMA StartPlaces ==
  ASSUME NEW n \in Samples
  PROVE  LET p == start_dma_transfer(n)
         IN  /\ Len(p) = 15 /\ p \in Seq(Operations \X (Bank \cup Samples))
             /\ \A i \in 1 .. 15 : Place(p[i]) = i
             /\ p[15] = <<"sleep", 0>>
  <1> DEFINE p == start_dma_transfer(n)
  <1>1. n \in Nat
    BY Args
  <1>2. /\ Place(<<"points", n>>) = 1 /\ Place(<<"reset", 0>>) = 2 /\ Place(<<"reset", 1>>) = 3
        /\ Place(<<"wait_reset", 0>>) = 4 /\ Place(<<"wait_reset", 1>>) = 5
        /\ Place(<<"run", 0>>) = 6 /\ Place(<<"run", 1>>) = 7
        /\ Place(<<"wait_start", 0>>) = 8 /\ Place(<<"wait_start", 1>>) = 9
        /\ Place(<<"length", 0>>) = 10 /\ Place(<<"length", 1>>) = 11
        /\ Place(<<"on", 0>>) = 12 /\ Place(<<"on", 1>>) = 13
        /\ Place(<<"duration", 0>>) = 14 /\ Place(<<"sleep", 0>>) = 15
    BY <1>1 DEF Place
  <1>3. /\ Place(p[1]) = 1 /\ Place(p[2]) = 2 /\ Place(p[3]) = 3 /\ Place(p[4]) = 4
        /\ Place(p[5]) = 5 /\ Place(p[6]) = 6 /\ Place(p[7]) = 7 /\ Place(p[8]) = 8
        /\ Place(p[9]) = 9 /\ Place(p[10]) = 10 /\ Place(p[11]) = 11 /\ Place(p[12]) = 12
        /\ Place(p[13]) = 13 /\ Place(p[14]) = 14 /\ Place(p[15]) = 15
    <2>1. p = start_dma_transfer(n) OBVIOUS
    <2> QED BY <1>2, <2>1, StartIsProgram, Zenon
  <1> HIDE DEF p
  <1>4. \A i \in 1 .. 15 : Place(p[i]) = i
    <2> SUFFICES ASSUME NEW i \in 1 .. 15 PROVE Place(p[i]) = i OBVIOUS
    <2>1. \/ i = 1 \/ i = 2 \/ i = 3 \/ i = 4 \/ i = 5 \/ i = 6 \/ i = 7 \/ i = 8 \/ i = 9
          \/ i = 10 \/ i = 11 \/ i = 12 \/ i = 13 \/ i = 14 \/ i = 15
      OBVIOUS
    <2> QED BY <1>3, <2>1, Zenon
  <1>5. /\ Len(p) = 15 /\ p \in Seq(Operations \X (Bank \cup Samples))
        /\ p[15] = <<"sleep", 0>>
    BY StartIsProgram, Zenon DEF p
  <1> QED BY <1>4, <1>5 DEF p

LEMMA MicsPlaces ==
  ASSUME NEW n \in Samples
  PROVE  LET p == transfer_and_read(n)
         IN  /\ Len(p) = 18 /\ p \in Seq(Operations \X (Bank \cup Samples))
             /\ \A i \in 1 .. 18 : Place(p[i]) = i
             /\ p[18] = <<"read", n>>
  <1> DEFINE Access == Operations \X (Bank \cup Samples)
             s == start_dma_transfer(n)
             last == <<<<"off", 0>>, <<"off", 1>>, <<"read", n>>>>
             p == transfer_and_read(n)
  <1>1. s \in Seq(Access) /\ Len(s) = 15 /\ \A i \in 1 .. 15 : Place(s[i]) = i
    BY StartPlaces, Zenon
  <1>2. last \in Seq(Access) /\ Len(last) = 3
    BY DEF Operations, Bank
  <1>b. Place(<<"read", n>>) = 18
    BY Places, Args
  <1>3. /\ Place(last[1]) = 16 /\ Place(last[2]) = 17 /\ Place(last[3]) = 18
        /\ last[3] = <<"read", n>>
    <2>1. /\ last[1] = <<"off", 0>> /\ last[2] = <<"off", 1>> /\ last[3] = <<"read", n>>
      OBVIOUS
    <2>2. /\ Place(<<"off", 0>>) = 16 /\ Place(<<"off", 1>>) = 17 /\ Place(<<"read", n>>) = 18
      BY <1>b DEF Place
    <2> HIDE DEF last
    <2> QED BY <2>1, <2>2, Zenon
  <1>4. p = s \o last
    BY DEF transfer_and_read
  <1> HIDE DEF Access, s, last, p
  <1>a. /\ p \in Seq(Access) /\ Len(p) = Len(s) + Len(last)
        /\ \A i \in 1 .. Len(s) + Len(last) : p[i] = IF i <= Len(s) THEN s[i] ELSE last[i - Len(s)]
    BY <1>1, <1>2, <1>4, ConcatProperties, Zenon
  <1>5. p \in Seq(Access) /\ Len(p) = 18
    BY <1>1, <1>2, <1>a
  <1>6. \A i \in 1 .. 18 : p[i] = IF i <= 15 THEN s[i] ELSE last[i - 15]
    <2>1. Len(s) + Len(last) = 18 /\ Len(s) = 15
      BY <1>1, <1>2
    <2> QED BY <1>a, <2>1, Zenon
  <1>7. p[16] = last[1] /\ p[17] = last[2] /\ p[18] = last[3]
    BY <1>6
  <1>8. \A i \in 1 .. 18 : Place(p[i]) = i
    <2> SUFFICES ASSUME NEW i \in 1 .. 18 PROVE Place(p[i]) = i OBVIOUS
    <2>1. CASE i \in 1 .. 15
      BY <1>1, <1>6, <2>1, SMTT(60)
    <2>2. CASE i \notin 1 .. 15
      <3>1. i = 16 \/ i = 17 \/ i = 18
        BY <2>2
      <3> QED BY <1>3, <1>7, <3>1, Zenon
    <2> QED BY <2>1, <2>2
  <1>9. p[18] = <<"read", n>>
    BY <1>3, <1>7
  <1> QED BY <1>5, <1>8, <1>9 DEF p, Access

\* A transfer begins with its points.
LEMMA TransferBegins ==
  ASSUME NEW p \in Transfers, todo' = p
  PROVE  /\ todo' \in Seq(Operations \X (Bank \cup Samples))
         /\ TodoInv' /\ Pos' = 1
  <1>1. PICK k \in {15, 18} :
          /\ Len(p) = k /\ p \in Seq(Operations \X (Bank \cup Samples))
          /\ \A i \in 1 .. k : Place(p[i]) = i
          /\ p[k][1] \in {"sleep", "read"}
    <2>1. CASE \E n \in Samples : p = transfer_and_read(n)
      <3>1. PICK n \in Samples : p = transfer_and_read(n)
        BY <2>1
      <3>2. /\ Len(p) = 18 /\ p \in Seq(Operations \X (Bank \cup Samples))
            /\ \A i \in 1 .. 18 : Place(p[i]) = i
            /\ p[18] = <<"read", n>>
        BY <3>1, MicsPlaces, Zenon
      <3>3. p[18][1] \in {"sleep", "read"}
        BY <3>2
      <3> QED BY <3>2, <3>3, Zenon
    <2>2. CASE \E n \in Samples : p = start_dma_transfer(n)
      <3>1. PICK n \in Samples : p = start_dma_transfer(n)
        BY <2>2
      <3>2. /\ Len(p) = 15 /\ p \in Seq(Operations \X (Bank \cup Samples))
            /\ \A i \in 1 .. 15 : Place(p[i]) = i
            /\ p[15] = <<"sleep", 0>>
        BY <3>1, StartPlaces, Zenon
      <3>3. p[15][1] \in {"sleep", "read"}
        BY <3>2
      <3> QED BY <3>2, <3>3, Zenon
    <2> QED BY <2>1, <2>2, Zenon DEF Transfers
  <1>2. /\ Len(todo') = k /\ k > 1 /\ k # 1 /\ 1 \in 1 .. k /\ todo' # <<>>
        /\ \A i \in 1 .. k - 1 : i \in 1 .. k /\ i + 1 \in 1 .. k /\ i < 18
    BY <1>1
  <1>3. TodoInv'
    BY <1>1, <1>2, Zenon DEF TodoInv
  <1>4. Pos' = 1
    BY <1>1, <1>2, Zenon DEF Pos
  <1> QED BY <1>1, <1>3, <1>4

\* An access of its own is no step of a transfer.
LEMMA AccessBegins ==
  ASSUME NEW p \in Accesses, todo' = p
  PROVE  /\ todo' \in Seq(Operations \X (Bank \cup Samples))
         /\ TodoInv' /\ Pos' \in Nat \ 1 .. 15
  <1>1. PICK op \in {"nsamples", "read_mics6", "on", "off"}, x \in Bank \cup Samples :
           p = <<<<op, x>>>>
    <2>1. \/ \E o \in {"nsamples", "read_mics6"}, n \in Samples : p = <<<<o, n>>>>
          \/ \E o \in {"on", "off"}, e \in Bank : p = <<<<o, e>>>>
      BY DEF Accesses
    <2> QED BY <2>1, Zenon
  <1>2. op \in Operations /\ op \in {"sleep", "read", "nsamples", "read_mics6", "on", "off"} /\ x \in Nat
    BY Args DEF Operations
  <1>3. /\ todo' \in Seq(Operations \X (Bank \cup Samples)) /\ Len(todo') = 1
        /\ todo'[1] = <<op, x>> /\ todo'[1][1] = op /\ todo' # <<>>
    BY <1>1, <1>2
  <1>4. \A i \in 1 .. Len(todo') - 1 : FALSE
    BY <1>3
  <1>5. ~(Len(todo') > 1)
    BY <1>3
  <1>6. TodoInv'
    BY <1>2, <1>3, <1>4, <1>5, Zenon DEF TodoInv
  <1>7. Pos' = IF op = "on" THEN 0 ELSE Place(<<op, x>>)
    BY <1>3, Zenon DEF Pos
  <1>8. op # "on" => Place(<<op, x>>) \in Nat \ 1 .. 15
    <2>1. /\ Place(<<"nsamples", x>>) = 19 /\ Place(<<"off", x>>) = 16 + x
          /\ Place(<<"read_mics6", x>>) = 19
      BY <1>2, Places
    <2>2. Place(<<op, x>>) = Place(<<"nsamples", x>>) \/ op = "on"
          \/ Place(<<op, x>>) = Place(<<"off", x>>) \/ Place(<<op, x>>) = Place(<<"read_mics6", x>>)
      BY Zenon
    <2> QED BY <1>2, <2>1, <2>2
  <1> QED BY <1>3, <1>6, <1>7, <1>8

-----------------------------------------------------------------------------
LEMMA MulMono == \A a, b, c \in Nat : a <= b => a * c <= b * c
  <1> SUFFICES ASSUME NEW a \in Nat, NEW b \in Nat, NEW c \in Nat, a <= b
               PROVE a * c <= b * c
    OBVIOUS
  <1>1. b * c - a * c = (b - a) * c /\ b - a \in Nat
    OBVIOUS
  <1>2. (b - a) * c >= 0
    BY <1>1
  <1>3. a * c \in Int /\ b * c \in Int
    OBVIOUS
  <1> QED BY <1>1, <1>2, <1>3

LEMMA DivFacts ==
  \A a \in Nat, b \in Nat \ {0} :
     /\ a \div b \in Nat /\ b * (a \div b) <= a /\ a < b * (a \div b) + b
  OBVIOUS

LEMMA ModSmall == \A a, b \in Nat : a < b => a % b = a
  OBVIOUS

LEMMA ModRange == \A a \in Nat, b \in Nat \ {0} : a % b \in 0 .. b - 1
  OBVIOUS

\* The sleeps of wait_for_transfer see at least as many samples as the
\* transfer has points: in each of the (3000 * n) / f slots of 500 ms, f / 2.
LEMMA LongEnough ==
  ASSUME NEW n \in Nat, NEW f \in Nat, f >= 2, f <= 3000 * n
  PROVE  (f \div 2) * ((3000 * n) \div f) >= 500 * n
  <1>1. PICK N \in Nat : N = 3000 * n
    OBVIOUS
  <1>2. PICK q : q = N \div f
    OBVIOUS
  <1>3. PICK h : h = f \div 2
    OBVIOUS
  <1>4. q \in Nat /\ f * q <= N /\ N < f * q + f
    BY <1>1, <1>2, DivFacts
  <1>5. h \in Nat /\ h >= 1 /\ f <= 3 * h
    BY <1>3
  <1>6. q >= 1
    <2> SUFFICES ASSUME q = 0 PROVE FALSE
      BY <1>4
    <2> QED BY <1>1, <1>4
  <1>7. f * q <= (3 * h) * q
    BY <1>4, <1>5, MulMono
  <1>8. f <= f * q
    <2>1. 1 * f <= q * f
      BY <1>4, <1>6, MulMono
    <2> QED BY <2>1, <1>4
  <1>9. PICK x : x = f * q
    OBVIOUS
  <1>10. PICK y : y = h * q
    OBVIOUS
  <1>11. x \in Int /\ y \in Int /\ x <= 3 * y
    <2>1. (3 * h) * q = 3 * (h * q)
      BY <1>4, <1>5
    <2>2. x \in Int /\ y \in Int
      BY <1>4, <1>5, <1>9, <1>10
    <2> QED BY <1>7, <1>9, <1>10, <2>1, <2>2
  <1>12. N < 2 * x
    BY <1>4, <1>8, <1>9, <1>11
  <1>13. y >= 500 * n
    BY <1>1, <1>11, <1>12
  <1> QED BY <1>1, <1>2, <1>3, <1>10, <1>13

\* What a transfer in range works with.
LEMMA RangeFacts ==
  ASSUME NEW a \in Samples, InRange(a)
  PROVE  /\ Points(a) = a + ReadOffset /\ Skid < Points(a) /\ Points(a) \in Nat
         /\ a \in Nat
         /\ (PointBeats * Points(a)) % LengthRange = PointBeats * Points(a)
         /\ PointBeats * Points(a) \in Nat /\ PointBeats * Points(a) >= Points(a)
         /\ PerSleep * total_sleep(Points(a)) >= 500 * Points(a)
  <1>1. /\ a \in Nat /\ ReadOffset \in Nat /\ Word \in Nat \ {0} /\ Skid \in Nat
        /\ Skid < ReadOffset /\ PointBeats \in Nat \ {0} /\ LengthRange \in Nat
        /\ a + ReadOffset < Word /\ PointBeats * (a + ReadOffset) < LengthRange
    BY DmaAssumption DEF InRange
  <1>2. PICK n \in Nat : n = a + ReadOffset
    BY <1>1
  <1>3. Points(a) = n
    BY <1>1, <1>2, ModSmall DEF Points
  <1>4. PICK m : m = PointBeats * n
    OBVIOUS
  <1>5. m \in Nat /\ m < LengthRange
    BY <1>1, <1>2, <1>4
  <1>6. m % LengthRange = m
    BY <1>1, <1>5, ModSmall
  <1>7. m >= n
    <2>1. 1 * n <= PointBeats * n
      BY <1>1, <1>2, MulMono
    <2> QED BY <1>2, <1>4, <2>1
  <1>8. PerSleep * total_sleep(n) >= 500 * n
    <2>1. Frequency \in Nat /\ Frequency >= 2 /\ Frequency <= 3000 * n
      <3>1. Frequency \in Nat /\ Frequency >= 2 /\ Frequency <= 3000 * ReadOffset
        BY DmaAssumption
      <3> QED BY <1>1, <1>2, <3>1
    <2> QED BY <1>2, <2>1, LongEnough DEF PerSleep, total_sleep
  <1> QED BY <1>1, <1>2, <1>3, <1>4, <1>5, <1>6, <1>7, <1>8

-----------------------------------------------------------------------------
\* Where each step of a command is taken, and where it leads to.
LEMMA Moves ==
  ASSUME AccessTypes, TodoInv, Done
  PROVE  /\ \A n \in Samples :
              /\ At("points", n) => Pos = 1 /\ Pos' = 2
              /\ At("nsamples", n) => Pos = 19 /\ Pos' \in {0, 20}
              /\ At("read", n) \/ At("read_mics6", n) =>
                   Pos \in {18, 19} /\ todo' = <<>> /\ Pos' = 0
         /\ \A e \in Bank :
              /\ At("reset", e) => Pos = 2 + e /\ Pos' = 3 + e
              /\ At("wait_reset", e) => Pos = 4 + e /\ Pos' = 5 + e
              /\ At("run", e) => Pos = 6 + e /\ Pos' = 7 + e
              /\ At("wait_start", e) => Pos = 8 + e /\ Pos' = 9 + e
              /\ At("length", e) => Pos = 10 + e /\ Pos' = 11 + e
              /\ At("on", e) => (Pos = 0 /\ Pos' = 0) \/ (Pos = 12 + e /\ Pos' = 13 + e)
              /\ At("off", e) => Pos = 16 + e /\ Pos' \in {0, 17 + e}
         /\ At("duration", 0) => Pos = 14 /\ Pos' = 15
         /\ At("sleep", 0) => Pos = 15 /\ Pos' \in {0, 16}
         /\ todo # <<>> => todo' \in Seq(Operations \X (Bank \cup Samples)) /\ TodoInv'
  <1>1. todo # <<>> =>
          /\ todo' \in Seq(Operations \X (Bank \cup Samples)) /\ TodoInv'
          /\ Len(todo) = 1 => Pos' = 0
          /\ Len(todo) # 1 => Pos' = Pos + 1
    BY Advance DEF Done
  <1>2. PosAt
    BY PosIsAt
  <1>3. ASSUME NEW op, NEW x, At(op, x)
        PROVE  /\ Pos' = IF Len(todo) = 1 THEN 0 ELSE Pos + 1
               /\ op \notin {"sleep", "read", "nsamples", "read_mics6", "on", "off"} => Pos' = Pos + 1
    <2>1. todo # <<>> /\ todo[1][1] = op
      BY <1>3 DEF At
    <2>2. op \notin {"sleep", "read", "nsamples", "read_mics6", "on", "off"} => Len(todo) # 1
      BY <2>1, Zenon DEF TodoInv
    <2> QED BY <1>1, <2>1, <2>2
  <1>4. \A op \in Operations, x \in Nat :
          At(op, x) =>
            /\ Pos' = IF Len(todo) = 1 THEN 0 ELSE Pos + 1
            /\ op \notin {"sleep", "read", "nsamples", "read_mics6", "on", "off"} => Pos' = Pos + 1
    BY <1>3
  <1>5. Samples \subseteq Nat /\ Bank \subseteq Nat
    BY Args
  <1>6. ASSUME NEW n \in Samples
        PROVE /\ At("points", n) => Pos = 1 /\ Pos' = 2
              /\ At("nsamples", n) => Pos = 19 /\ Pos' \in {0, 20}
    <2>1. /\ At("points", n) => Pos = 1 /\ Pos' = Pos + 1
          /\ At("nsamples", n) => Pos = 19 /\ (Pos' = 0 \/ Pos' = Pos + 1)
      BY <1>2, <1>4, <1>5 DEF PosAt, Operations
    <2> QED BY <2>1
  <1>7. ASSUME NEW e \in Bank
        PROVE /\ At("reset", e) => Pos = 2 + e /\ Pos' = Pos + 1
              /\ At("wait_reset", e) => Pos = 4 + e /\ Pos' = Pos + 1
              /\ At("run", e) => Pos = 6 + e /\ Pos' = Pos + 1
              /\ At("wait_start", e) => Pos = 8 + e /\ Pos' = Pos + 1
              /\ At("length", e) => Pos = 10 + e /\ Pos' = Pos + 1
    BY <1>2, <1>4, <1>5 DEF PosAt, Operations
  <1>8. ASSUME NEW e \in Bank
        PROVE /\ At("on", e) => (Pos = 0 /\ Pos' = 0) \/ (Pos = 12 + e /\ Pos' = Pos + 1)
              /\ At("off", e) => Pos = 16 + e /\ Pos' \in {0, Pos + 1}
    BY <1>2, <1>4, <1>5 DEF PosAt, Operations
  <1>9. /\ At("duration", 0) => Pos = 14 /\ Pos' = 15
        /\ At("sleep", 0) => Pos = 15 /\ Pos' \in {0, 16}
    <2>1. ASSUME NEW x \in {0}
          PROVE /\ At("duration", x) => Pos' = Pos + 1
                /\ At("sleep", x) => Pos' = 0 \/ Pos' = Pos + 1
      BY <1>4 DEF Operations
    <2> QED BY <1>2, <2>1 DEF PosAt
  <1>10. ASSUME NEW e \in Bank
         PROVE (1 + e) + 1 = 2 + e /\ (2 + e) + 1 = 3 + e /\ (4 + e) + 1 = 5 + e
               /\ (6 + e) + 1 = 7 + e /\ (8 + e) + 1 = 9 + e /\ (10 + e) + 1 = 11 + e
               /\ (12 + e) + 1 = 13 + e /\ (16 + e) + 1 = 17 + e
    BY DEF Bank
  <1>11. ASSUME NEW e \in Bank
        PROVE /\ At("reset", e) => Pos = 2 + e /\ Pos' = 3 + e
              /\ At("wait_reset", e) => Pos = 4 + e /\ Pos' = 5 + e
              /\ At("run", e) => Pos = 6 + e /\ Pos' = 7 + e
              /\ At("wait_start", e) => Pos = 8 + e /\ Pos' = 9 + e
              /\ At("length", e) => Pos = 10 + e /\ Pos' = 11 + e
              /\ At("on", e) => (Pos = 0 /\ Pos' = 0) \/ (Pos = 12 + e /\ Pos' = 13 + e)
              /\ At("off", e) => Pos = 16 + e /\ Pos' \in {0, 17 + e}
    BY <1>7, <1>8, <1>10, Zenon
  <1>12. ASSUME NEW n \in Samples, At("read", n) \/ At("read_mics6", n)
         PROVE  Pos \in {18, 19} /\ todo' = <<>> /\ Pos' = 0
    <2>1. todo # <<>> /\ Pos \in {18, 19}
      BY <1>2, <1>12 DEF PosAt, At
    <2>2. (todo[1] = <<"read", n>> \/ todo[1] = <<"read_mics6", n>>)
      BY <1>12 DEF At
    <2>3. Place(todo[1]) \in {18, 19}
      BY <2>2, <1>5, Places
    <2>4. Len(todo) \in Nat \ {0} /\ Len(todo') = Len(todo) - 1
          /\ todo' \in Seq(Operations \X (Bank \cup Samples))
      BY <1>1, <2>1 DEF AccessTypes, Done
    <2>5. Len(todo) = 1
      <3>1. Len(todo) # 1 => 1 \in 1 .. Len(todo) - 1
        BY <2>4
      <3>2. Len(todo) # 1 => Place(todo[1]) < 18
        BY <3>1, Zenon DEF TodoInv
      <3> QED BY <2>3, <3>2
    <2>6. todo' = <<>>
      BY <2>4, <2>5
    <2> QED BY <1>1, <2>1, <2>5, <2>6
  <1> QED BY <1>1, <1>6, <1>9, <1>11, <1>12, Zenon

-----------------------------------------------------------------------------
\* The state of bank f but its waiting beat and its gate.
SameBank(f) ==
  /\ beats'[f] = beats[f] /\ engine'[f] = engine[f] /\ fifo'[f] = fifo[f]
  /\ length'[f] = length[f] /\ rows'[f] = rows[f]

\* The command is at the same stage as before as far as bank f goes.
SameStage(f) ==
  /\ Pos' \in 3 + f .. 15 <=> Pos \in 3 + f .. 15
  /\ Pos' \in 3 + f .. 6 + f => Pos \in 3 + f .. 6 + f /\ (Pos <= 4 + f => Pos' <= 4 + f)
  /\ Pos' \in 7 + f .. 10 + f => Pos \in 7 + f .. 10 + f /\ (Pos <= 8 + f => Pos' <= 8 + f)
  /\ Pos' \in 11 + f .. 15 => Pos \in 11 + f .. 15
  /\ Pos \in 2 .. 15 => Pos' \in 2 .. 15

LEMMA SameFacts ==
  ASSUME NEW f \in Bank, SameBank(f)
  PROVE  /\ Resting(f) => Resting(f)'
         /\ n_samples' = n_samples /\ TakenAhead(f) => TakenAhead(f)'
         /\ n_samples' = n_samples /\ Moving(f) => Moving(f)'
         /\ UNCHANGED <<n_samples, left, elapsed>> /\ valid'[f] = valid[f] /\ Progress(f)
               => Progress(f)'
  <1>1. Resting(f) => Resting(f)'
    BY DEF SameBank, Resting
  <1>2. n_samples' = n_samples /\ TakenAhead(f) => TakenAhead(f)'
    BY Zenon DEF SameBank, TakenAhead
  <1>3. n_samples' = n_samples /\ Moving(f) => Moving(f)'
    BY Zenon DEF SameBank, Moving
  <1>4. UNCHANGED <<n_samples, left, elapsed>> /\ valid'[f] = valid[f] /\ Progress(f)
               => Progress(f)'
    <2> SUFFICES ASSUME n_samples' = n_samples, left' = left, elapsed' = elapsed,
                        valid'[f] = valid[f], Progress(f)
                 PROVE Progress(f)'
      OBVIOUS
    <2> QED BY DEF SameBank, Progress
  <1> QED BY <1>1, <1>2, <1>3, <1>4

\* A step of something else leaves what is known of bank f.
LEMMA BankKept ==
  ASSUME NEW f \in Bank, BankInv(f), SameBank(f), SameStage(f), Pos \in Nat, Pos' \in Nat,
         UNCHANGED <<n_samples, asked>>, Pos' = 15 => Progress(f)'
  PROVE  BankInv(f)'
  <1>1. /\ Resting(f) => Resting(f)'
        /\ TakenAhead(f) => TakenAhead(f)'
        /\ Moving(f) => Moving(f)'
    BY SameFacts
  <1>2. Pos' \notin 3 + f .. 15 => Resting(f)'
    BY <1>1 DEF BankInv, SameStage
  <1>3. Pos' \in 3 + f .. 6 + f =>
          TakenAhead(f)' /\ (engine'[f] = "halted" \/ (engine'[f] = "reset" /\ Pos' <= 4 + f))
    BY <1>1 DEF BankInv, SameStage, SameBank
  <1>4. Pos' \in 7 + f .. 10 + f =>
          TakenAhead(f)' /\ (engine'[f] = "idle" \/ (engine'[f] = "starting" /\ Pos' <= 8 + f))
    BY <1>1 DEF BankInv, SameStage, SameBank
  <1>5. Pos' \in 11 + f .. 15 => Moving(f)'
    BY <1>1 DEF BankInv, SameStage
  <1>6. Pos' \notin 2 .. 15 /\ asked' # NoTransfer =>
          rows'[f] \in asked' + ReadOffset - Skid .. asked' + ReadOffset
    BY Zenon DEF BankInv, SameStage, SameBank
  <1> QED BY <1>2, <1>3, <1>4, <1>5, <1>6, Zenon DEF BankInv

LEMMA Unmoved ==
  ASSUME UNCHANGED todo
  PROVE  Pos' = Pos /\ (TodoInv => TodoInv')
  <1>1. Pos' = Pos
    BY Zenon DEF Pos
  <1>2. TodoInv => TodoInv'
    BY Zenon DEF TodoInv
  <1> QED BY <1>1, <1>2

LEMMA StageUnmoved == Pos' = Pos => \A f \in Bank : SameStage(f)
  BY Zenon DEF SameStage

\* During a transfer that has not failed.
LEMMA Working ==
  ASSUME AccessTypes, PointsInv, TransferInv, ~failed, Pos \in 2 .. 15
  PROVE  /\ asked \in Samples /\ asked # NoTransfer /\ asked \in Nat /\ InRange(asked)
         /\ n_samples = asked + ReadOffset /\ n_samples \in Nat /\ Skid < n_samples
         /\ (PointBeats * n_samples) % LengthRange = PointBeats * n_samples
         /\ PointBeats * n_samples \in Nat /\ PointBeats * n_samples >= n_samples
         /\ PerSleep * total_sleep(n_samples) >= 500 * n_samples
  <1>1. /\ asked \in Samples \cup {NoTransfer} /\ asked # NoTransfer
        /\ n_samples = Points(asked) /\ InRange(asked)
    BY Zenon DEF AccessTypes, PointsInv, TransferInv
  <1>2. asked \in Samples
    BY <1>1
  <1>3. PICK n : n = Points(asked)
    OBVIOUS
  <1>4. /\ n = asked + ReadOffset /\ Skid < n /\ n \in Nat /\ asked \in Nat
        /\ (PointBeats * n) % LengthRange = PointBeats * n
        /\ PointBeats * n \in Nat /\ PointBeats * n >= n
        /\ PerSleep * total_sleep(n) >= 500 * n
    <2>1. /\ Points(asked) = asked + ReadOffset /\ Skid < Points(asked) /\ Points(asked) \in Nat
          /\ asked \in Nat
          /\ (PointBeats * Points(asked)) % LengthRange = PointBeats * Points(asked)
          /\ PointBeats * Points(asked) \in Nat /\ PointBeats * Points(asked) >= Points(asked)
          /\ PerSleep * total_sleep(Points(asked)) >= 500 * Points(asked)
      BY <1>1, <1>2, RangeFacts, Zenon
    <2> QED BY <1>3, <2>1, Zenon
  <1>5. n = n_samples
    BY <1>1, <1>3
  <1> QED BY <1>1, <1>2, <1>4, <1>5, Zenon

LEMMA ConstantTypes ==
  /\ ReadOffset \in Nat /\ MaxSleeps \in Nat /\ Frequency \in Nat \ {0} /\ PerSleep \in Nat
  /\ PointBeats \in Nat \ {0} /\ LengthRange \in Nat \ {0} /\ MaxTransfers \in Nat
  /\ Skid \in Nat /\ Skid < ReadOffset /\ Word \in Nat \ {0}
  <1>1. Frequency \in Nat /\ Frequency >= 2
    BY DmaAssumption
  <1>2. PerSleep \in Nat
    BY <1>1 DEF PerSleep
  <1> QED BY <1>1, <1>2, DmaAssumption

-----------------------------------------------------------------------------
\* A beat passes.
LEMMA BeatEffect ==
  ASSUME AccessTypes, NEW e \in Bank, Beat(e)
  PROVE  \E b \in BOOLEAN :
           /\ b <=> (n_samples # 0 /\ beats[e] = n_samples - 1)
           /\ beats'[e] = IF b THEN 0 ELSE beats[e] + 1
           /\ engine[e] = "busy" =>
                /\ rows'[e] = rows[e] + 1 /\ fifo'[e] = fifo[e]
                /\ engine'[e] = AfterRow(b, rows[e] + 1, length[e])
           /\ engine[e] # "busy" =>
                /\ fifo'[e] = Append(fifo[e], b) /\ Len(fifo[e]) < Skid /\ engine[e] # "reset"
                /\ rows'[e] = rows[e] /\ engine'[e] = engine[e]
           /\ length'[e] = length[e] /\ valid[e] /\ ~valid'[e]
           /\ \A f \in Bank \ {e} : SameBank(f) /\ valid'[f] = valid[f]
  <1>1. PICK b \in BOOLEAN : b = m_axis_tlast(e)
    BY Zenon DEF m_axis_tlast
  <1>2. b <=> (n_samples # 0 /\ beats[e] = n_samples - 1)
    BY <1>1, Zenon DEF m_axis_tlast
  <1>3. /\ valid' = [valid EXCEPT ![e] = FALSE]
        /\ beats' = [beats EXCEPT ![e] = IF b THEN 0 ELSE beats[e] + 1]
        /\ engine[e] = "busy" =>
             /\ rows' = [rows EXCEPT ![e] = rows[e] + 1] /\ fifo' = fifo
             /\ engine' = [engine EXCEPT ![e] = AfterRow(b, rows[e] + 1, length[e])]
        /\ engine[e] # "busy" =>
             /\ fifo' = [fifo EXCEPT ![e] = Append(fifo[e], b)] /\ rows' = rows /\ engine' = engine
        /\ length' = length /\ valid[e]
        /\ engine[e] # "busy" => engine[e] # "reset" /\ Len(fifo[e]) < Skid
    BY <1>1 DEF Beat, new_sample, m_axis_tready
  <1>4. /\ valid \in [Bank -> BOOLEAN] /\ beats \in [Bank -> Nat] /\ engine \in [Bank -> Engines]
        /\ fifo \in [Bank -> Seq(BOOLEAN)] /\ length \in [Bank -> Nat] /\ rows \in [Bank -> Nat]
    BY DEF AccessTypes
  <1>5. \A f \in Bank \ {e} : SameBank(f) /\ valid'[f] = valid[f]
    BY <1>3, <1>4 DEF SameBank
  <1>6. beats'[e] = (IF b THEN 0 ELSE beats[e] + 1) /\ length'[e] = length[e] /\ valid[e] /\ ~valid'[e]
    BY <1>3, <1>4
  <1>7. engine[e] = "busy" =>
                /\ rows'[e] = rows[e] + 1 /\ fifo'[e] = fifo[e]
                /\ engine'[e] = AfterRow(b, rows[e] + 1, length[e])
    BY <1>3, <1>4
  <1>8. engine[e] # "busy" =>
                /\ fifo'[e] = Append(fifo[e], b) /\ Len(fifo[e]) < Skid /\ engine[e] # "reset"
                /\ rows'[e] = rows[e] /\ engine'[e] = engine[e]
    BY <1>3, <1>4
  <1> QED BY <1>2, <1>5, <1>6, <1>7, <1>8, Zenon

LEMMA BeatTypes ==
  ASSUME AccessTypes, NEW e \in Bank, Beat(e)
  PROVE  AccessTypes'
  <1>1. PICK b \in BOOLEAN :
           /\ beats'[e] = IF b THEN 0 ELSE beats[e] + 1
           /\ engine[e] = "busy" =>
                /\ rows'[e] = rows[e] + 1 /\ fifo'[e] = fifo[e]
                /\ engine'[e] = AfterRow(b, rows[e] + 1, length[e])
           /\ engine[e] # "busy" =>
                /\ fifo'[e] = Append(fifo[e], b) /\ Len(fifo[e]) < Skid
                /\ rows'[e] = rows[e] /\ engine'[e] = engine[e]
           /\ length'[e] = length[e]
           /\ \A f \in Bank \ {e} : SameBank(f) /\ valid'[f] = valid[f]
    BY BeatEffect, Zenon
  <1>2. /\ valid \in [Bank -> BOOLEAN] /\ beats \in [Bank -> Nat] /\ engine \in [Bank -> Engines]
        /\ fifo \in [Bank -> Seq(BOOLEAN)] /\ length \in [Bank -> Nat] /\ rows \in [Bank -> Nat]
        /\ \A f \in Bank : Len(fifo[f]) <= Skid
        /\ \A f \in Bank : engine[f] = "busy" => rows[f] < length[f]
    BY DEF AccessTypes
  <1>3. AfterRow(b, rows[e] + 1, length[e]) \in Engines
    BY DEF AfterRow, Engines
  <1>4. /\ beats'[e] \in Nat /\ rows'[e] \in Nat /\ engine'[e] \in Engines /\ fifo'[e] \in Seq(BOOLEAN)
        /\ Len(fifo'[e]) <= Skid
    <2>1. beats[e] \in Nat /\ rows[e] \in Nat /\ fifo[e] \in Seq(BOOLEAN) /\ engine[e] \in Engines
          /\ Len(fifo[e]) <= Skid /\ Len(fifo[e]) \in Nat /\ Skid \in Nat
      BY <1>2, ConstantTypes
    <2>2. CASE engine[e] = "busy"
      BY <1>1, <1>3, <2>1, <2>2
    <2>3. CASE engine[e] # "busy"
      <3>1. Append(fifo[e], b) \in Seq(BOOLEAN) /\ Len(Append(fifo[e], b)) = Len(fifo[e]) + 1
        BY <2>1
      <3>2. /\ fifo'[e] = Append(fifo[e], b) /\ Len(fifo[e]) < Skid
            /\ rows'[e] = rows[e] /\ engine'[e] = engine[e]
        BY <1>1, <2>3, Zenon
      <3>3. beats'[e] \in Nat
        BY <1>1, <2>1
      <3>4. fifo'[e] \in Seq(BOOLEAN) /\ Len(fifo'[e]) = Len(fifo[e]) + 1
        BY <3>1, <3>2, Zenon
      <3> QED BY <2>1, <3>2, <3>3, <3>4
    <2> QED BY <2>2, <2>3
  <1>5. engine'[e] = "busy" => rows'[e] < length'[e]
    BY <1>1, <1>2 DEF AfterRow
  <1>6. /\ valid' \in [Bank -> BOOLEAN] /\ beats' \in [Bank -> Nat]
        /\ length' \in [Bank -> Nat]
    BY <1>2 DEF Beat
  <1>7. /\ engine' \in [Bank -> Engines] /\ fifo' \in [Bank -> Seq(BOOLEAN)]
        /\ rows' \in [Bank -> Nat]
    <2>1. CASE engine[e] = "busy"
      <3>1. /\ rows' = [rows EXCEPT ![e] = rows[e] + 1] /\ fifo' = fifo
            /\ \E x : engine' = [engine EXCEPT ![e] = x]
        BY <2>1 DEF Beat
      <3> QED BY <1>2, <1>4, <3>1
    <2>2. CASE engine[e] # "busy"
      <3>1. rows' = rows /\ engine' = engine /\ \E x : fifo' = [fifo EXCEPT ![e] = x]
        BY <2>2 DEF Beat
      <3> QED BY <1>2, <1>4, <3>1
    <2> QED BY <2>1, <2>2
  <1>8. \A f \in Bank : Len(fifo'[f]) <= Skid /\ (engine'[f] = "busy" => rows'[f] < length'[f])
    BY <1>1, <1>2, <1>4, <1>5 DEF SameBank
  <1>9. UNCHANGED <<gate, n_samples, driver>>
    BY DEF Beat
  <1> QED BY <1>6, <1>7, <1>8, <1>9 DEF AccessTypes, driver

\* A beat is a row of the transfer, or one more taken ahead.
LEMMA BeatBank ==
  ASSUME AccessInv, ~failed, NEW e \in Bank, Beat(e)
  PROVE  BankInv(e)'
  <1>1. PICK b \in BOOLEAN :
           /\ b <=> (n_samples # 0 /\ beats[e] = n_samples - 1)
           /\ beats'[e] = IF b THEN 0 ELSE beats[e] + 1
           /\ engine[e] = "busy" =>
                /\ rows'[e] = rows[e] + 1 /\ fifo'[e] = fifo[e]
                /\ engine'[e] = AfterRow(b, rows[e] + 1, length[e])
           /\ engine[e] # "busy" =>
                /\ fifo'[e] = Append(fifo[e], b) /\ Len(fifo[e]) < Skid /\ engine[e] # "reset"
                /\ rows'[e] = rows[e] /\ engine'[e] = engine[e]
           /\ length'[e] = length[e] /\ valid[e] /\ ~valid'[e]
    BY BeatEffect, Zenon DEF AccessInv
  <1>2. /\ beats[e] \in Nat /\ rows[e] \in Nat /\ fifo[e] \in Seq(BOOLEAN) /\ length[e] \in Nat
        /\ Len(fifo[e]) <= Skid /\ Len(fifo[e]) \in Nat /\ Skid \in Nat /\ n_samples \in Nat
        /\ engine[e] \in Engines /\ elapsed \in Nat /\ left \in Int
    BY ConstantTypes DEF AccessInv, AccessTypes
  <1>3. Pos' = Pos /\ UNCHANGED <<n_samples, asked, left, elapsed>> /\ Pos \in Nat
    BY Unmoved, PosIsAt DEF Beat, driver, AccessInv
  <1>4. BankInv(e) /\ AccessTypes /\ PointsInv /\ TransferInv
    BY Zenon DEF AccessInv, TransferInv
  <1>5. e \in {0, 1}
    BY DEF Bank
  <1>6. Pos \in 2 .. 15 => Skid < n_samples /\ n_samples \in Nat
    BY <1>4, Working, Zenon
  <1>7. CASE engine[e] = "busy"
    <2>1. Pos \in 11 + e .. 15
      BY <1>3, <1>4, <1>5, <1>7 DEF BankInv, Resting
    <2>2. /\ fifo[e] = <<>> /\ length[e] >= n_samples
          /\ beats[e] - rows[e] \in 0 .. Skid /\ beats[e] < n_samples
      BY <1>4, <1>7, <2>1 DEF BankInv, Moving
    <2>3. Pos = 15 => Progress(e)
      BY <1>4 DEF BankInv
    <2>4. /\ rows'[e] = rows[e] + 1 /\ fifo'[e] = fifo[e]
          /\ engine'[e] = AfterRow(b, rows[e] + 1, length[e]) /\ length'[e] = length[e]
      BY <1>1, <1>7, Zenon
    <2>5. Moving(e)'
      <3>1. CASE b
        <4>1. /\ beats[e] = n_samples - 1 /\ beats'[e] = 0 /\ engine'[e] = "idle"
          BY <1>1, <2>4, <3>1 DEF AfterRow
        <4>2. rows'[e] \in n_samples - Skid .. n_samples /\ beats'[e] <= Len(fifo'[e])
          BY <1>2, <2>2, <2>4, <4>1
        <4> QED BY <1>3, <4>1, <4>2 DEF Moving
      <3>2. CASE ~b
        <4>1. beats[e] # n_samples - 1 /\ beats'[e] = beats[e] + 1
          BY <1>1, <1>2, <2>2, <3>2
        <4>2. rows[e] + 1 # length[e] /\ beats'[e] < n_samples
              /\ beats'[e] - rows'[e] \in 0 .. Skid
          <5>1. /\ beats[e] \in Nat /\ rows[e] \in Nat /\ length[e] \in Nat /\ n_samples \in Nat
                /\ Skid \in Nat
            BY <1>2
          <5>2. rows'[e] = rows[e] + 1
            BY <2>4
          <5> QED BY <2>2, <4>1, <5>1, <5>2, SMTT(60)
        <4>3. engine'[e] = "busy"
          BY <2>4, <3>2, <4>2 DEF AfterRow
        <4> QED BY <1>3, <2>2, <2>4, <4>2, <4>3 DEF Moving
      <3> QED BY <3>1, <3>2
    <2>6. Pos = 15 => Progress(e)'
      <3> SUFFICES ASSUME Pos = 15 PROVE Progress(e)'
        OBVIOUS
      <3>1. PICK x : x = PerSleep * (total_sleep(n_samples) - left) + 500 * elapsed
        OBVIOUS
      <3>2. 500 * (rows[e] + 1) >= x
        BY <1>1, <1>7, <2>3, <3>1 DEF Progress
      <3>3. 500 * (rows'[e] + 0) >= x
        BY <1>2, <2>4, <3>2
      <3>4. x = PerSleep * (total_sleep(n_samples') - left') + 500 * elapsed'
        BY <1>3, <3>1
      <3> QED BY <1>1, <3>3, <3>4 DEF Progress
    <2> QED BY <1>3, <1>5, <2>1, <2>5, <2>6 DEF BankInv
  <1>8. CASE engine[e] # "busy"
    <2>1. /\ fifo'[e] = Append(fifo[e], b) /\ Len(fifo[e]) < Skid
          /\ rows'[e] = rows[e] /\ engine'[e] = engine[e] /\ length'[e] = length[e]
      BY <1>1, <1>8, Zenon
    <2>2. /\ Len(fifo'[e]) = Len(fifo[e]) + 1
          /\ \A i \in 1 .. Len(fifo[e]) : fifo'[e][i] = fifo[e][i]
          /\ fifo'[e][Len(fifo[e]) + 1] = b
      BY <1>2, <2>1
    <2>3. Resting(e) => Resting(e)'
      BY <1>1, <1>2, <1>8, <2>1, <2>2 DEF Resting
    <2>4. Pos \in 2 .. 15 /\ TakenAhead(e) => TakenAhead(e)'
      <3> SUFFICES ASSUME Skid < n_samples, TakenAhead(e) PROVE TakenAhead(e)'
        BY <1>6
      <3>1. CASE /\ \A i \in 1 .. Len(fifo[e]) : ~fifo[e][i]
                 /\ beats[e] - Len(fifo[e]) \in 0 .. Skid
                 /\ beats[e] < n_samples
        <4>1. CASE b
          <5>1. PICK i : i = Len(fifo[e]) + 1
            OBVIOUS
          <5>2. i \in 1 .. Len(fifo'[e]) /\ beats[e] = n_samples - 1 /\ beats'[e] = 0
            BY <1>1, <1>2, <2>2, <4>1, <5>1
          <5>3. n_samples - i \in 0 .. Skid /\ beats'[e] = Len(fifo'[e]) - i
            BY <1>2, <2>2, <3>1, <5>1, <5>2
          <5>4. ASSUME NEW j \in 1 .. Len(fifo'[e])
                PROVE fifo'[e][j] <=> j = i
            <6>1. CASE j = i
              BY <2>2, <4>1, <5>1, <6>1
            <6>2. CASE j # i
              <7>1. j \in 1 .. Len(fifo[e])
                BY <1>2, <2>2, <5>1, <6>2
              <7>2. fifo'[e][j] = fifo[e][j] /\ ~fifo[e][j]
                BY <2>2, <3>1, <7>1, Zenon
              <7> QED BY <6>2, <7>2, Zenon
            <6> QED BY <6>1, <6>2
          <5> QED BY <1>3, <5>2, <5>3, <5>4 DEF TakenAhead
        <4>2. CASE ~b
          <5>1. beats[e] # n_samples - 1 /\ beats'[e] = beats[e] + 1
            BY <1>1, <1>2, <3>1, <4>2
          <5>2. beats'[e] - Len(fifo'[e]) \in 0 .. Skid /\ beats'[e] < n_samples
            <6>1. /\ beats[e] - Len(fifo[e]) \in 0 .. Skid /\ beats[e] < n_samples
                  /\ Len(fifo'[e]) = Len(fifo[e]) + 1
              BY <2>2, <3>1, Zenon
            <6>2. /\ beats[e] \in Nat /\ Len(fifo[e]) \in Nat /\ Skid \in Nat /\ n_samples \in Nat
              BY <1>2
            <6> QED BY <5>1, <6>1, <6>2
          <5>3. ASSUME NEW j \in 1 .. Len(fifo'[e]) PROVE ~fifo'[e][j]
            <6>1. j = Len(fifo[e]) + 1 \/ j \in 1 .. Len(fifo[e])
              BY <1>2, <2>2
            <6> QED BY <2>2, <3>1, <4>2, <6>1, Zenon
          <5> QED BY <1>3, <5>2, <5>3 DEF TakenAhead
        <4> QED BY <4>1, <4>2
      <3>2. CASE \E i \in 1 .. Len(fifo[e]) :
                   /\ \A j \in 1 .. Len(fifo[e]) : fifo[e][j] <=> j = i
                   /\ n_samples - i \in 0 .. Skid
                   /\ beats[e] = Len(fifo[e]) - i
        <4>1. PICK i \in 1 .. Len(fifo[e]) :
                   /\ \A j \in 1 .. Len(fifo[e]) : fifo[e][j] <=> j = i
                   /\ n_samples - i \in 0 .. Skid
                   /\ beats[e] = Len(fifo[e]) - i
          BY <3>2
        <4>2. beats[e] # n_samples - 1
          BY <1>2, <2>1, <4>1
        <4>3. ~b /\ beats'[e] = beats[e] + 1
          BY <1>1, <4>2
        <4>4. i \in 1 .. Len(fifo'[e]) /\ beats'[e] = Len(fifo'[e]) - i
          BY <1>2, <2>2, <4>1, <4>3
        <4>5. ASSUME NEW j \in 1 .. Len(fifo'[e])
              PROVE fifo'[e][j] <=> j = i
          <5>1. (j = Len(fifo[e]) + 1 /\ j # i) \/ j \in 1 .. Len(fifo[e])
            BY <1>2, <2>2
          <5> QED BY <2>2, <4>1, <4>3, <5>1, Zenon
        <4> QED BY <1>3, <4>1, <4>4, <4>5 DEF TakenAhead
      <3> QED BY <3>1, <3>2 DEF TakenAhead
    <2>5. Moving(e) => Moving(e)'
      <3> SUFFICES ASSUME Moving(e) PROVE Moving(e)'
        OBVIOUS
      <3>1. /\ engine[e] = "idle" /\ beats[e] <= Len(fifo[e])
            /\ rows[e] \in n_samples - Skid .. n_samples
        BY <1>8 DEF Moving
      <3>2. beats'[e] <= Len(fifo'[e])
        BY <1>1, <1>2, <2>2, <3>1
      <3> QED BY <1>3, <2>1, <3>1, <3>2 DEF Moving
    <2>6. Progress(e)'
      BY <1>8, <2>1 DEF Progress
    <2>7. Pos' \notin 3 + e .. 15 => Resting(e)'
      BY <1>3, <1>4, <2>3, Zenon DEF BankInv
    <2>8. Pos' \in 3 + e .. 6 + e =>
            TakenAhead(e)' /\ (engine'[e] = "halted" \/ (engine'[e] = "reset" /\ Pos' <= 4 + e))
      BY <1>3, <1>4, <1>5, <2>1, <2>4, SMTT(60) DEF BankInv
    <2>9. Pos' \in 7 + e .. 10 + e =>
            TakenAhead(e)' /\ (engine'[e] = "idle" \/ (engine'[e] = "starting" /\ Pos' <= 8 + e))
      BY <1>3, <1>4, <1>5, <2>1, <2>4 DEF BankInv
    <2>10. Pos' \in 11 + e .. 15 => Moving(e)'
      BY <1>3, <1>4, <2>5, Zenon DEF BankInv
    <2>11. Pos' \notin 2 .. 15 /\ asked' # NoTransfer =>
             rows'[e] \in asked' + ReadOffset - Skid .. asked' + ReadOffset
      BY <1>3, <1>4, <2>1, Zenon DEF BankInv
    <2> QED BY <2>6, <2>7, <2>8, <2>9, <2>10, <2>11, Zenon DEF BankInv
  <1> QED BY <1>7, <1>8

\* A step of the FPGA leaves the command where it is.
LEMMA FpgaStep ==
  ASSUME AccessInv, AccessTypes', UNCHANGED <<todo, sleeps, left, n_samples, asked, failed, transfers, gate>>,
         left <= 0 => elapsed' = elapsed,
         ~failed => \A f \in Bank : BankInv(f)'
  PROVE  AccessInv'
  <1>1. Pos' = Pos /\ TodoInv'
    BY Unmoved DEF AccessInv
  <1>2. LoopInv'
    BY <1>1 DEF AccessInv, LoopInv
  <1>3. PointsInv'
    BY <1>1, Zenon DEF AccessInv, PointsInv
  <1>4. TransferInv'
    BY <1>1, Zenon DEF AccessInv, TransferInv
  <1> QED BY <1>1, <1>2, <1>3, <1>4 DEF AccessInv

LEMMA BeatStep ==
  ASSUME AccessInv, NEW e \in Bank, Beat(e)
  PROVE  AccessInv'
  <1>1. AccessTypes'
    BY BeatTypes DEF AccessInv
  <1>2. UNCHANGED <<todo, sleeps, left, n_samples, asked, failed, transfers, gate, elapsed>>
    BY DEF Beat, driver
  <1>3. ASSUME ~failed, NEW f \in Bank PROVE BankInv(f)'
    <2>1. CASE f = e
      BY <1>3, <2>1, BeatBank
    <2>2. CASE f # e
      <3>1. SameBank(f) /\ valid'[f] = valid[f]
        BY <2>2, BeatEffect, Zenon DEF AccessInv
      <3>2. BankInv(f)
        BY <1>3, Zenon DEF AccessInv, TransferInv
      <3>3. Pos' = Pos /\ Pos \in Nat /\ SameStage(f)
        BY <1>2, Unmoved, PosIsAt, StageUnmoved DEF AccessInv
      <3>4. Pos' = 15 => Progress(f)'
        BY <1>2, <3>1, <3>2, <3>3, SameFacts DEF BankInv
      <3> QED BY <1>2, <3>1, <3>2, <3>3, <3>4, BankKept
    <2> QED BY <2>1, <2>2
  <1> QED BY <1>1, <1>2, <1>3, FpgaStep

LEMMA EngineStepStep ==
  ASSUME AccessInv, NEW e \in Bank, EngineStep(e)
  PROVE  AccessInv'
  <1>1. UNCHANGED <<valid, todo, sleeps, left, n_samples, asked, failed, transfers, gate, elapsed,
                    beats, fifo, length, rows>>
    BY DEF EngineStep, driver
  <1>2. engine \in [Bank -> Engines] /\ AccessTypes
    BY DEF AccessInv, AccessTypes
  <1>3. /\ \/ engine[e] = "reset" /\ engine'[e] = "halted"
           \/ engine[e] = "starting" /\ engine'[e] = "idle"
        /\ \A f \in Bank \ {e} : engine'[f] = engine[f]
        /\ engine' \in [Bank -> Engines]
    BY <1>2 DEF EngineStep, Engines
  <1>4. AccessTypes'
    BY <1>1, <1>2, <1>3 DEF AccessTypes
  <1>5. Pos' = Pos /\ Pos \in Nat
    BY <1>1, <1>2, Unmoved, PosIsAt
  <1>6. ASSUME ~failed, NEW f \in Bank PROVE BankInv(f)'
    <2>1. BankInv(f)
      BY <1>6, Zenon DEF AccessInv, TransferInv
    <2>2. CASE f # e
      <3>1. SameBank(f)
        BY <1>1, <1>3, <2>2 DEF SameBank
      <3>2. Pos' = 15 => Progress(f)'
        BY <1>1, <1>5, <2>1, <3>1, SameFacts DEF BankInv
      <3> QED BY <1>1, <1>5, <2>1, <3>1, <3>2, BankKept, StageUnmoved
    <2>3. CASE f = e
      <3>1. f \in {0, 1}
        BY DEF Bank
      <3>2. Pos \notin 11 + f .. 15
        BY <1>3, <2>1, <2>3 DEF BankInv, Moving
      <3>3. Resting(f) => Resting(f)'
        BY <1>1, <1>3, <2>3 DEF Resting
      <3>4. TakenAhead(f) => TakenAhead(f)'
        BY <1>1, Zenon DEF TakenAhead
      <3>5. Pos' \in 3 + f .. 6 + f => TakenAhead(f)' /\ engine'[f] = "halted"
        BY <1>3, <1>5, <2>1, <2>3, <3>1, <3>4 DEF BankInv
      <3>6. Pos' \in 7 + f .. 10 + f => TakenAhead(f)' /\ engine'[f] = "idle"
        BY <1>3, <1>5, <2>1, <2>3, <3>1, <3>4 DEF BankInv
      <3>7. Pos' \notin 3 + f .. 15 => Resting(f)'
        BY <1>5, <2>1, <3>3, Zenon DEF BankInv
      <3>8. Pos' \notin 11 + f .. 15 /\ Pos' # 15
        BY <1>5, <3>1, <3>2
      <3>9. Pos' \notin 2 .. 15 /\ asked' # NoTransfer =>
              rows'[f] \in asked' + ReadOffset - Skid .. asked' + ReadOffset
        BY <1>1, <1>5, <2>1, Zenon DEF BankInv
      <3> QED BY <3>5, <3>6, <3>7, <3>8, <3>9, Zenon DEF BankInv
    <2> QED BY <2>2, <2>3
  <1> QED BY <1>1, <1>4, <1>6, FpgaStep

\* Once every beat has passed, none waits for an engine with a transfer to do.
LEMMA Delivered ==
  ASSUME LoopInv, AccessTypes, Settled, NEW e \in Bank, Pos = 15, engine[e] = "busy"
  PROVE  valid[e] = FALSE
  <1>1. gate[e]
    <2>1. 15 \in 13 + e .. 15
      BY DEF Bank
    <2> QED BY <2>1, Zenon DEF LoopInv
  <1>2. ~new_sample(e)
    BY Zenon DEF Settled
  <1>3. valid[e] \in BOOLEAN
    BY DEF AccessTypes
  <1> QED BY <1>1, <1>2, <1>3, Zenon DEF new_sample, m_axis_tready

LEMMA SampleStep ==
  ASSUME AccessInv, Sample
  PROVE  AccessInv'
  <1>1. UNCHANGED <<todo, sleeps, left, n_samples, asked, failed, transfers, gate,
                    engine, beats, fifo, length, rows>>
    BY DEF Sample
  <1>2. AccessTypes /\ LoopInv
    BY DEF AccessInv
  <1>3. elapsed' = elapsed \/ (elapsed' = elapsed + 1 /\ left > 0 /\ elapsed < PerSleep)
    BY DEF Sample
  <1>4. elapsed' \in 0 .. PerSleep /\ elapsed \in Nat /\ left \in Int
    BY <1>2, <1>3, ConstantTypes DEF AccessTypes
  <1>5. valid' \in [Bank -> BOOLEAN] /\ \A f \in Bank : valid'[f] = TRUE
    BY DEF Sample
  <1>6. AccessTypes'
    BY <1>1, <1>2, <1>4, <1>5 DEF AccessTypes
  <1>7. left <= 0 => elapsed' = elapsed
    BY <1>3, <1>4
  <1>8. Pos' = Pos /\ Pos \in Nat
    BY <1>1, <1>2, Unmoved, PosIsAt
  <1>9. ASSUME ~failed, NEW f \in Bank PROVE BankInv(f)'
    <2>1. BankInv(f)
      BY <1>9, Zenon DEF AccessInv, TransferInv
    <2>2. SameBank(f)
      BY <1>1 DEF SameBank
    <2>3. Pos' = 15 => Progress(f)'
      <3> SUFFICES ASSUME Pos = 15, engine[f] = "busy"
                   PROVE 500 * (rows[f] + 1)
                           >= PerSleep * (total_sleep(n_samples) - left) + 500 * elapsed'
        BY <1>1, <1>5, <1>8 DEF Progress
      <3>1. valid[f] = FALSE
        BY <1>2, Delivered DEF Sample
      <3>2. PICK x : x = PerSleep * (total_sleep(n_samples) - left)
        OBVIOUS
      <3>3. x \in Int
        <4>1. total_sleep(n_samples) \in Int
          <5>1. 3000 * n_samples \in Nat
            BY <1>2 DEF AccessTypes
          <5> QED BY <5>1, ConstantTypes, DivFacts DEF total_sleep
        <4> QED BY <1>4, <3>2, <4>1, ConstantTypes
      <3>4. 500 * (rows[f] + 0) >= x + 500 * elapsed
        BY <2>1, <3>1, <3>2 DEF BankInv, Progress
      <3>5. rows[f] \in Nat
        BY <1>2 DEF AccessTypes
      <3> QED BY <1>3, <1>4, <3>2, <3>3, <3>4, <3>5
    <2> QED BY <1>1, <1>8, <2>1, <2>2, <2>3, BankKept, StageUnmoved
  <1> QED BY <1>1, <1>6, <1>7, <1>9, FpgaStep

-----------------------------------------------------------------------------
\* A step of a command, but for the ones that set n_samples.
LEMMA CommandStep ==
  ASSUME AccessInv, AccessTypes', TodoInv', LoopInv', UNCHANGED <<n_samples, asked>>,
         failed => failed', Pos' \in 2 .. 15 => Pos \in 2 .. 15,
         ~failed' => \A f \in Bank : BankInv(f)'
  PROVE  AccessInv'
  <1>1. PointsInv'
    BY Zenon DEF AccessInv, PointsInv
  <1>2. TransferInv'
    BY Zenon DEF AccessInv, TransferInv
  <1> QED BY <1>1, <1>2 DEF AccessInv

\* A step that leaves the banks alone, at the same stage of both.
LEMMA BanksKept ==
  ASSUME AccessInv, failed => failed', ~failed', UNCHANGED <<n_samples, asked>>,
         Pos' \in Nat, \A f \in Bank : SameBank(f) /\ SameStage(f),
         \A f \in Bank : Pos' = 15 /\ Progress(f) => Progress(f)', Pos' = 15 => Pos = 15
  PROVE  \A f \in Bank : BankInv(f)'
  <1> SUFFICES ASSUME NEW f \in Bank PROVE BankInv(f)'
    OBVIOUS
  <1>1. BankInv(f)
    BY Zenon DEF AccessInv, TransferInv
  <1>2. Pos \in Nat
    BY PosIsAt DEF AccessInv
  <1>3. Pos' = 15 => Progress(f)'
    BY <1>1, Zenon DEF BankInv
  <1> QED BY <1>1, <1>2, <1>3, BankKept

\* A command begins.
LEMMA CommandBegins ==
  ASSUME AccessInv, NEW p, Command(p),
         \/ p \in Accesses
         \/ p \in Transfers /\ transfers < (IF failed THEN MaxFailed ELSE MaxTransfers)
  PROVE  AccessInv'
  <1>1. todo = <<>> /\ todo' = p /\ UNCHANGED <<fpga, sleeps, left, elapsed, asked, failed, transfers>>
    BY DEF Command
  <1>2. Pos = 0 /\ AccessTypes /\ LoopInv
    BY <1>1, PosIsAt DEF AccessInv
  <1>3. /\ todo' \in Seq(Operations \X (Bank \cup Samples)) /\ TodoInv'
        /\ \/ Pos' \in Nat \ 1 .. 15
           \/ Pos' = 1 /\ transfers < (IF failed THEN MaxFailed ELSE MaxTransfers)
    BY <1>1, TransferBegins, AccessBegins, Zenon
  <1>4. Pos' = 1 => transfers < MaxTransfers
    BY <1>2, <1>3, DmaAssumption DEF AccessTypes
  <1>5. Pos' \in Nat /\ Pos' \notin 2 .. 15
    BY <1>3
  <1>6. AccessTypes'
    BY <1>1, <1>2, <1>3 DEF AccessTypes, fpga
  <1>7. LoopInv'
    <2>1. sleeps = 0 /\ left = 0 /\ elapsed = 0
      BY <1>2 DEF LoopInv, AccessTypes
    <2>2. sleeps' <= IF Pos' \in {5, 9} THEN MaxSleeps + 1 ELSE IF Pos' \in {4, 8} THEN MaxSleeps ELSE 0
      BY <1>1, <1>5, <2>1
    <2>3. \A e \in Bank : Pos' \notin 13 + e .. 15
      BY <1>5 DEF Bank
    <2> QED BY <1>1, <1>4, <2>1, <2>2, <2>3 DEF LoopInv
  <1>8. \A f \in Bank : SameBank(f) /\ SameStage(f)
    BY <1>1, <1>2, <1>5 DEF SameBank, SameStage, fpga, Bank
  <1>9. UNCHANGED <<n_samples, asked, failed>> /\ Pos' # 15
    BY <1>1, <1>5 DEF fpga
  <1>10. ~failed' => \A f \in Bank : BankInv(f)'
    BY <1>5, <1>8, <1>9, BanksKept
  <1> QED BY <1>3, <1>5, <1>6, <1>7, <1>9, <1>10, CommandStep

\* What a command may read.
LEMMA ReadingFacts ==
  ASSUME NEW n \in Samples, NEW r \in AfterTransfer(n) \cup {read_mics6(n)}
  PROVE  /\ r.samples = n /\ r.num_mics \in {8, 16}
         /\ r.mics \subseteq Nat /\ r.banks \subseteq Bank
  BY DmaAssumption DEF AfterTransfer, read_mics6, get_mics6, get_mics4, get_mics, get_mics_ith, Bank

LEMMA ReadRowsStep ==
  ASSUME AccessInv, NEW n \in Samples, NEW op \in {"read", "read_mics6"}, NEW r,
         r.samples = n, ReadRows(op, r)
  PROVE  AccessInv' /\ Pos \in {18, 19} /\ todo' = <<>>
  <1>1. /\ (At("read", n) \/ At("read_mics6", n)) /\ Done /\ todo # <<>>
        /\ UNCHANGED <<fpga, sleeps, left, elapsed, asked, failed, transfers>>
    BY DEF ReadRows, At
  <1>2. AccessTypes /\ LoopInv /\ TodoInv
    BY DEF AccessInv
  <1>3. Pos \in {18, 19} /\ Pos' = 0 /\ todo' = <<>> /\ todo' \in Seq(Operations \X (Bank \cup Samples)) /\ TodoInv'
    BY <1>1, <1>2, Moves
  <1>4. AccessTypes'
    BY <1>1, <1>2, <1>3 DEF AccessTypes, fpga
  <1>5. LoopInv'
    BY <1>1, <1>2, <1>3 DEF LoopInv, fpga, Bank
  <1>6. \A f \in Bank : SameBank(f) /\ SameStage(f)
    BY <1>1, <1>3 DEF SameBank, SameStage, fpga, Bank
  <1>7. UNCHANGED <<n_samples, asked, failed>> /\ Pos' \in Nat /\ Pos' \notin 2 .. 15
    BY <1>1, <1>3 DEF fpga
  <1>8. ~failed' => \A f \in Bank : BankInv(f)'
    BY <1>3, <1>6, <1>7, BanksKept
  <1> QED BY <1>3, <1>4, <1>5, <1>7, <1>8, CommandStep

LEMMA SetNsamplesStep == ASSUME AccessInv, NEW n \in Samples, set_nsamples(n) PROVE AccessInv'
  <1>1. /\ At("nsamples", n) /\ Done /\ todo # <<>> /\ n_samples' = n
        /\ UNCHANGED <<valid, gate, beats, engine, fifo, length, rows,
                       sleeps, left, elapsed, asked, failed, transfers>>
    BY DEF set_nsamples, At
  <1>2. AccessTypes /\ LoopInv /\ TodoInv
    BY DEF AccessInv
  <1>3. Pos = 19 /\ Pos' \in {0, 20} /\ todo' \in Seq(Operations \X (Bank \cup Samples)) /\ TodoInv'
    BY <1>1, <1>2, Moves
  <1>4. n_samples' \in 0 .. Word - 1
    BY <1>1, DmaAssumption
  <1>5. AccessTypes'
    BY <1>1, <1>2, <1>3, <1>4 DEF AccessTypes
  <1>6. LoopInv'
    BY <1>1, <1>2, <1>3 DEF LoopInv, Bank
  <1>7. Pos' \notin 2 .. 15 /\ Pos \notin 2 .. 15
    BY <1>3
  <1>8. ASSUME ~failed, NEW f \in Bank PROVE BankInv(f)'
    <2>1. BankInv(f)
      BY <1>8, Zenon DEF AccessInv, TransferInv
    <2>2. /\ Pos \notin 3 + f .. 15 /\ Pos' # 15
          /\ Pos' \notin 3 + f .. 6 + f /\ Pos' \notin 7 + f .. 10 + f /\ Pos' \notin 11 + f .. 15
      BY <1>3 DEF Bank
    <2>3. Resting(f)'
      BY <1>1, <2>1, <2>2 DEF BankInv, Resting
    <2>4. asked' # NoTransfer => rows'[f] \in asked' + ReadOffset - Skid .. asked' + ReadOffset
      BY <1>1, <1>7, <2>1, Zenon DEF BankInv
    <2> QED BY <2>2, <2>3, <2>4, Zenon DEF BankInv
  <1>9. PointsInv' /\ TransferInv'
    BY <1>1, <1>7, <1>8, Zenon DEF PointsInv, TransferInv
  <1> QED BY <1>3, <1>5, <1>6, <1>9 DEF AccessInv

\* A transfer begins to be set up.
LEMMA SetPointsStep == ASSUME AccessInv, NEW n \in Samples, set_points(n) PROVE AccessInv'
  <1>1. /\ At("points", n) /\ Done /\ todo # <<>> /\ n_samples' = Points(n) /\ asked' = n
        /\ failed' = (failed \/ ~InRange(n)) /\ rows' = [e \in Bank |-> 0]
        /\ transfers' = transfers + 1
        /\ UNCHANGED <<valid, gate, beats, engine, fifo, length, sleeps, left, elapsed>>
    BY DEF set_points, At
  <1>2. AccessTypes /\ LoopInv /\ TodoInv
    BY DEF AccessInv
  <1>3. Pos = 1 /\ Pos' = 2 /\ todo' \in Seq(Operations \X (Bank \cup Samples)) /\ TodoInv'
    BY <1>1, <1>2, Moves
  <1>4. n_samples' \in 0 .. Word - 1
    <2>1. n + ReadOffset \in Nat /\ Word \in Nat \ {0}
      BY DmaAssumption
    <2> QED BY <1>1, <2>1, ModRange DEF Points
  <1>5. transfers' \in 0 .. MaxTransfers
    BY <1>1, <1>2, <1>3, ConstantTypes DEF LoopInv, AccessTypes
  <1>6. rows' \in [Bank -> Nat] /\ (\A f \in Bank : rows'[f] = 0)
    BY <1>1
  <1>7. failed' \in BOOLEAN
    BY <1>1, <1>2, Zenon DEF AccessTypes
  <1>8. \A f \in Bank : engine'[f] = "busy" => rows'[f] < length'[f]
    BY <1>1, <1>2, <1>6 DEF AccessTypes
  <1>9. AccessTypes'
    BY <1>1, <1>2, <1>3, <1>4, <1>5, <1>6, <1>7, <1>8 DEF AccessTypes
  <1>10. LoopInv'
    BY <1>1, <1>2, <1>3 DEF LoopInv, Bank
  <1>11. ASSUME ~failed, NEW f \in Bank PROVE BankInv(f)'
    <2>1. BankInv(f)
      BY <1>11, Zenon DEF AccessInv, TransferInv
    <2>2. /\ Pos \notin 3 + f .. 15 /\ Pos' # 15 /\ Pos' \in 2 .. 15
          /\ Pos' \notin 3 + f .. 6 + f /\ Pos' \notin 7 + f .. 10 + f /\ Pos' \notin 11 + f .. 15
      BY <1>3 DEF Bank
    <2>3. Resting(f)'
      BY <1>1, <2>1, <2>2 DEF BankInv, Resting
    <2> QED BY <2>2, <2>3, Zenon DEF BankInv
  <1>12. n # NoTransfer
    BY DmaAssumption DEF NoTransfer
  <1>13. PointsInv' /\ TransferInv'
    BY <1>1, <1>11, <1>12, Zenon DEF PointsInv, TransferInv
  <1> QED BY <1>3, <1>9, <1>10, <1>13 DEF AccessInv

\* A gate is opened in its turn, or outside of a transfer.
LEMMA SetGateStep ==
  ASSUME AccessInv, NEW e \in Bank,
         SetGate("on", e, TRUE) \/ SetGate("off", e, FALSE)
  PROVE  AccessInv'
  <1>1. /\ Done /\ todo # <<>>
        /\ \/ At("on", e) /\ gate' = [gate EXCEPT ![e] = TRUE]
           \/ At("off", e) /\ gate' = [gate EXCEPT ![e] = FALSE]
        /\ UNCHANGED <<valid, n_samples, beats, engine, fifo, length, rows,
                       sleeps, left, elapsed, asked, failed, transfers>>
    BY DEF SetGate, At
  <1>2. AccessTypes /\ LoopInv /\ TodoInv /\ gate \in [Bank -> BOOLEAN]
    BY DEF AccessInv, AccessTypes
  <1>3. /\ todo' \in Seq(Operations \X (Bank \cup Samples)) /\ TodoInv'
        /\ At("on", e) => (Pos = 0 /\ Pos' = 0) \/ (Pos = 12 + e /\ Pos' = 13 + e)
        /\ At("off", e) => Pos = 16 + e /\ Pos' \in {0, 17 + e}
    BY <1>1, <1>2, Moves, Zenon
  <1>4. e \in {0, 1}
    BY DEF Bank
  <1>5. /\ \/ Pos = 0 /\ Pos' = 0
           \/ Pos = 12 + e /\ Pos' = 13 + e /\ gate'[e]
           \/ Pos = 16 + e /\ Pos' \in {0, 17 + e}
        /\ \A f \in Bank \ {e} : gate'[f] = gate[f]
        /\ gate' \in [Bank -> BOOLEAN]
    BY <1>1, <1>2, <1>3
  <1>6. AccessTypes'
    BY <1>1, <1>2, <1>3, <1>5 DEF AccessTypes
  <1>7. LoopInv'
    <2>1. ASSUME NEW f \in Bank, Pos' \in 13 + f .. 15 PROVE gate'[f]
      <3>1. f \in {0, 1}
        BY DEF Bank
      <3>2. Pos = 12 + e /\ Pos' = 13 + e /\ gate'[e]
        BY <1>4, <1>5, <2>1, <3>1
      <3>3. CASE f = e
        BY <3>2, <3>3
      <3>4. CASE f # e
        <4>1. Pos \in 13 + f .. 15
          BY <1>4, <2>1, <3>1, <3>2, <3>4
        <4>2. gate[f]
          BY <1>2, <4>1, Zenon DEF LoopInv
        <4> QED BY <1>5, <3>4, <4>2
      <3> QED BY <3>3, <3>4
    <2>2. /\ Pos \notin {4, 5, 8, 9, 15} /\ Pos' \notin {1, 4, 5, 8, 9, 15}
      BY <1>4, <1>5
    <2>3. /\ sleeps <= 0 /\ left = 0 /\ (left <= 0 => elapsed = 0)
      BY <1>2, <2>2 DEF LoopInv
    <2>4. sleeps' <= IF Pos' \in {5, 9} THEN MaxSleeps + 1 ELSE IF Pos' \in {4, 8} THEN MaxSleeps ELSE 0
      BY <1>1, <2>2, <2>3
    <2>5. (Pos' # 15 => left' = 0) /\ (left' <= 0 => elapsed' = 0) /\ Pos' # 1
      BY <1>1, <2>2, <2>3
    <2> QED BY <2>1, <2>4, <2>5, Zenon DEF LoopInv
  <1>8. \A f \in Bank : SameBank(f) /\ SameStage(f)
    <2>1. \A f \in Bank : SameBank(f)
      BY <1>1 DEF SameBank
    <2>2. \A f \in {0, 1} : SameStage(f)
      BY <1>4, <1>5 DEF SameStage
    <2> QED BY <2>1, <2>2 DEF Bank
  <1>9. Pos' \in Nat /\ Pos' # 15 /\ (Pos' \in 2 .. 15 => Pos \in 2 .. 15)
    BY <1>4, <1>5
  <1>10. UNCHANGED <<n_samples, asked, failed>>
    BY <1>1
  <1>11. ~failed' => \A f \in Bank : BankInv(f)'
    BY <1>8, <1>9, <1>10, BanksKept
  <1> QED BY <1>3, <1>6, <1>7, <1>9, <1>10, <1>11, CommandStep

LEMMA SleepTypes == AccessTypes => total_sleep(n_samples) \in Nat
  <1> SUFFICES ASSUME AccessTypes PROVE total_sleep(n_samples) \in Nat
    OBVIOUS
  <1>1. 3000 * n_samples \in Nat
    BY DEF AccessTypes
  <1> QED BY <1>1, ConstantTypes, DivFacts DEF total_sleep

LEMMA SetDurationStep == ASSUME AccessInv, SetDuration PROVE AccessInv'
  <1>1. /\ At("duration", 0) /\ Done /\ todo # <<>> /\ left' = total_sleep(n_samples)
        /\ UNCHANGED <<fpga, sleeps, elapsed, asked, failed, transfers>>
    BY DEF SetDuration, At
  <1>2. AccessTypes /\ LoopInv /\ TodoInv
    BY DEF AccessInv
  <1>3. Pos = 14 /\ Pos' = 15 /\ todo' \in Seq(Operations \X (Bank \cup Samples)) /\ TodoInv'
    BY <1>1, <1>2, Moves
  <1>4. left' \in Nat
    BY <1>1, <1>2, SleepTypes
  <1>5. AccessTypes'
    BY <1>1, <1>2, <1>3, <1>4 DEF AccessTypes, fpga
  <1>6. elapsed = 0
    BY <1>2, <1>3 DEF LoopInv
  <1>7. LoopInv'
    <2>1. \A f \in Bank : gate'[f]
      <3>1. \A f \in Bank : 14 \in 13 + f .. 15
        BY DEF Bank
      <3>2. gate' = gate
        BY <1>1 DEF fpga
      <3> QED BY <1>2, <1>3, <3>1, <3>2, Zenon DEF LoopInv
    <2>2. sleeps <= 0
      BY <1>2, <1>3 DEF LoopInv
    <2> QED BY <1>1, <1>3, <1>6, <2>1, <2>2 DEF LoopInv
  <1>8. ASSUME ~failed, NEW f \in Bank PROVE BankInv(f)'
    <2>1. BankInv(f)
      BY <1>8, Zenon DEF AccessInv, TransferInv
    <2>2. SameBank(f) /\ SameStage(f)
      BY <1>1, <1>3 DEF SameBank, SameStage, fpga, Bank
    <2>3. Progress(f)'
      <3>1. rows'[f] \in Nat /\ PerSleep \in Nat
        BY <1>5, ConstantTypes DEF AccessTypes
      <3>2. n_samples' = n_samples /\ elapsed' = 0
        BY <1>1, <1>6 DEF fpga
      <3>3. total_sleep(n_samples') - left' = 0
        BY <1>1, <1>4, <3>2
      <3>4. PerSleep * (total_sleep(n_samples') - left') + 500 * elapsed' = 0
        BY <3>1, <3>2, <3>3
      <3>5. 500 * (rows'[f] + (IF valid'[f] THEN 1 ELSE 0)) >= 0
        BY <3>1
      <3> QED BY <3>4, <3>5 DEF Progress
    <2>4. UNCHANGED <<n_samples, asked>> /\ Pos \in Nat /\ Pos' \in Nat
      BY <1>1, <1>3 DEF fpga
    <2> QED BY <2>1, <2>2, <2>3, <2>4, BankKept
  <1>9. UNCHANGED <<n_samples, asked, failed>> /\ (Pos' \in 2 .. 15 => Pos \in 2 .. 15)
    BY <1>1, <1>3 DEF fpga
  <1> QED BY <1>3, <1>5, <1>7, <1>8, <1>9, CommandStep

\* The last sleep is over: the transfer of each bank is.
LEMMA TransferOver ==
  ASSUME AccessInv, ~failed, Settled, Pos = 15, left <= 0, NEW f \in Bank
  PROVE  /\ engine[f] = "idle" /\ beats[f] <= Len(fifo[f])
         /\ rows[f] \in n_samples - Skid .. n_samples
  <1>1. AccessTypes /\ LoopInv /\ PointsInv /\ TransferInv /\ BankInv(f)
    BY Zenon DEF AccessInv, TransferInv
  <1>2. Moving(f) /\ Progress(f)
    <2>1. 15 \in 11 + f .. 15
      BY DEF Bank
    <2> QED BY <1>1, <2>1, Zenon DEF BankInv
  <1>3. n_samples \in Nat /\ PerSleep * total_sleep(n_samples) >= 500 * n_samples
    <2>1. Pos \in 2 .. 15
      OBVIOUS
    <2> QED BY <1>1, <2>1, Working, Zenon
  <1>4. rows[f] \in Nat /\ beats[f] \in Nat /\ left \in Int /\ elapsed = 0 /\ Skid \in Nat
    BY <1>1, ConstantTypes DEF AccessTypes, LoopInv
  <1>5. engine[f] # "busy"
    <2> SUFFICES ASSUME engine[f] = "busy" PROVE FALSE
      OBVIOUS
    <2>1. rows[f] < n_samples
      BY <1>2, <1>3, <1>4 DEF Moving
    <2>2. valid[f] = FALSE
      BY <1>1, Delivered
    <2>3. PICK t \in Nat : t = total_sleep(n_samples)
      BY <1>1, SleepTypes
    <2>4. PICK d \in Nat : d = t - left
      BY <1>4, <2>3
    <2>5. 500 * (rows[f] + 0) >= PerSleep * d + 500 * 0
      BY <1>2, <1>4, <2>2, <2>3, <2>4 DEF Progress
    <2>6. t * PerSleep <= d * PerSleep
      <3>1. t <= d
        BY <1>4, <2>4
      <3> QED BY <3>1, ConstantTypes, MulMono
    <2>7. PICK x \in Int : x = PerSleep * d
      BY ConstantTypes
    <2>8. PICK y \in Int : y = PerSleep * t
      BY ConstantTypes
    <2>9. y <= x
      <3>1. t * PerSleep = PerSleep * t /\ d * PerSleep = PerSleep * d
        BY ConstantTypes
      <3> QED BY <2>6, <2>7, <2>8, <3>1
    <2>10. y >= 500 * n_samples
      BY <1>3, <2>3, <2>8
    <2>11. 500 * rows[f] >= x
      BY <1>4, <2>5, <2>7
    <2> QED BY <1>3, <1>4, <2>1, <2>9, <2>10, <2>11
  <1> QED BY <1>2, <1>5 DEF Moving

LEMMA WaitForTransferStep == ASSUME AccessInv, Settled, wait_for_transfer PROVE AccessInv'
  <1>1. /\ At("sleep", 0) /\ todo # <<>> /\ UNCHANGED <<fpga, sleeps, asked, failed, transfers>>
    BY DEF wait_for_transfer, At
  <1>2. AccessTypes /\ LoopInv /\ TodoInv /\ PosAt
    BY PosIsAt DEF AccessInv
  <1>3. Pos = 15 /\ left \in Int /\ elapsed \in 0 .. PerSleep /\ PerSleep \in Nat
    BY <1>1, <1>2, ConstantTypes DEF PosAt, AccessTypes
  <1>4. UNCHANGED <<n_samples, asked, failed>>
    BY <1>1 DEF fpga
  <1>5. CASE left <= 0
    <2>1. Done /\ left' = 0 /\ elapsed' = elapsed
      BY <1>3, <1>5 DEF wait_for_transfer
    <2>2. Pos' \in {0, 16} /\ todo' \in Seq(Operations \X (Bank \cup Samples)) /\ TodoInv'
      BY <1>1, <1>2, <2>1, Moves
    <2>3. AccessTypes'
      BY <1>1, <1>2, <2>1, <2>2 DEF AccessTypes, fpga
    <2>4. LoopInv'
      <3>1. elapsed = 0 /\ sleeps <= 0
        BY <1>2, <1>3, <1>5 DEF LoopInv
      <3> QED BY <1>1, <2>1, <2>2, <3>1 DEF LoopInv, Bank
    <2>5. ASSUME ~failed, NEW f \in Bank PROVE BankInv(f)'
      <3>1. /\ engine[f] = "idle" /\ beats[f] <= Len(fifo[f])
            /\ rows[f] \in n_samples - Skid .. n_samples
        BY <1>3, <1>5, <2>5, TransferOver
      <3>2. n_samples = asked + ReadOffset /\ asked \in Nat
        <4>1. PointsInv /\ TransferInv /\ Pos \in 2 .. 15
          BY <1>3 DEF AccessInv
        <4> QED BY <1>2, <2>5, <4>1, Working, Zenon
      <3>3. Resting(f)'
        BY <1>1, <3>1 DEF Resting, fpga
      <3>4. rows'[f] \in asked' + ReadOffset - Skid .. asked' + ReadOffset
        <4>1. rows' = rows /\ asked' = asked
          BY <1>1 DEF fpga
        <4> QED BY <3>1, <3>2, <4>1, ConstantTypes
      <3>5. /\ Pos' # 15 /\ Pos' \notin 3 + f .. 6 + f /\ Pos' \notin 7 + f .. 10 + f
            /\ Pos' \notin 11 + f .. 15
        BY <2>2 DEF Bank
      <3> QED BY <3>3, <3>4, <3>5, Zenon DEF BankInv
    <2>6. Pos' \in 2 .. 15 => Pos \in 2 .. 15
      BY <1>3
    <2> QED BY <1>4, <2>2, <2>3, <2>4, <2>5, <2>6, CommandStep
  <1>6. CASE left > 0
    <2>1. todo' = todo /\ left' = left - 500 /\ elapsed' = 0 /\ elapsed = PerSleep
      BY <1>3, <1>6 DEF wait_for_transfer
    <2>2. Pos' = Pos /\ TodoInv'
      BY <1>2, <2>1, Unmoved
    <2>3. AccessTypes'
      BY <1>1, <1>2, <1>3, <2>1 DEF AccessTypes, fpga
    <2>4. LoopInv'
      BY <1>1, <1>2, <1>3, <2>1, <2>2 DEF LoopInv, fpga
    <2>5. \A f \in Bank : SameBank(f) /\ SameStage(f)
      BY <1>1, <2>2, StageUnmoved DEF SameBank, fpga
    <2>6. ASSUME NEW f \in Bank, Progress(f) PROVE Progress(f)'
      <3>1. UNCHANGED <<rows, engine, valid, n_samples>>
        BY <1>1 DEF fpga
      <3>2. PICK t \in Nat : t = total_sleep(n_samples)
        BY <1>2, SleepTypes
      <3>3. PICK d \in Int : d = t - left
        BY <1>3, <3>2
      <3>4. PerSleep * d + 500 * PerSleep = PerSleep * (d + 500)
        BY <1>3
      <3>5. PerSleep * (total_sleep(n_samples) - left) + 500 * elapsed
              = PerSleep * (total_sleep(n_samples') - left') + 500 * elapsed'
        <4>1. t - left' = d + 500
          BY <1>3, <2>1, <3>2, <3>3
        <4>2. PerSleep * (d + 500) + 500 * 0 = PerSleep * (d + 500)
          BY <1>3, <3>3
        <4> QED BY <2>1, <3>1, <3>2, <3>3, <3>4, <4>1, <4>2
      <3> QED BY <2>6, <3>1, <3>5 DEF Progress
    <2>7. ~failed' => \A f \in Bank : BankInv(f)'
      BY <1>3, <1>4, <2>2, <2>5, <2>6, BanksKept
    <2> QED BY <1>4, <2>2, <2>3, <2>4, <2>7, CommandStep
  <1> QED BY <1>3, <1>5, <1>6

\* One iteration of a loop of reset or of start.
LEMMA WaitEngineStep ==
  ASSUME AccessInv, NEW e \in Bank,
         \/ WaitEngine("wait_reset", e, engine[e] = "reset")
         \/ WaitEngine("wait_start", e, halted(e))
  PROVE  AccessInv'
  <1>1. PICK w \in BOOLEAN :
          /\ \/ At("wait_reset", e) /\ (w <=> engine[e] = "reset")
             \/ At("wait_start", e) /\ (w <=> halted(e))
          /\ failed' = (failed \/ (w /\ GivesUp(sleeps + 1)))
          /\ IF w /\ ~GivesUp(sleeps + 1)
             THEN todo' = todo /\ sleeps' = sleeps + 1
             ELSE /\ Done
                  /\ sleeps' = IF e = 1 THEN 0 ELSE IF w THEN sleeps + 1 ELSE sleeps
          /\ UNCHANGED <<fpga, left, elapsed, asked, transfers>>
    <2>1. CASE WaitEngine("wait_reset", e, engine[e] = "reset")
      <3>1. PICK w \in BOOLEAN : w = (engine[e] = "reset")
        BY Zenon
      <3> QED BY <2>1, <3>1, Zenon DEF WaitEngine
    <2>2. CASE WaitEngine("wait_start", e, halted(e))
      <3>1. PICK w \in BOOLEAN : w = halted(e)
        <4>1. halted(e) \in BOOLEAN
          BY DEF halted
        <4> QED BY <4>1, Zenon
      <3> QED BY <2>2, <3>1, Zenon DEF WaitEngine
    <2> QED BY <2>1, <2>2
  <1>2. AccessTypes /\ LoopInv /\ TodoInv /\ PosAt /\ Pos \in Nat
    BY PosIsAt DEF AccessInv
  <1>3. /\ todo # <<>> /\ e \in {0, 1} /\ sleeps \in Nat /\ MaxSleeps \in Nat
        /\ failed \in BOOLEAN
    BY <1>1, <1>2, ConstantTypes DEF At, Bank, AccessTypes
  <1>4. UNCHANGED <<n_samples, asked, valid, gate, beats, engine, fifo, length, rows,
                    left, elapsed, transfers>>
    BY <1>1 DEF fpga
  <1>5. failed' \in BOOLEAN /\ (failed => failed') /\ (~failed' => ~(w /\ GivesUp(sleeps + 1)))
    BY <1>1, <1>3, Zenon
  <1>6. CASE w /\ ~GivesUp(sleeps + 1)
    <2>1. todo' = todo /\ sleeps' = sleeps + 1 /\ sleeps + 1 <= MaxSleeps
      BY <1>1, <1>3, <1>6 DEF GivesUp
    <2>2. Pos' = Pos /\ TodoInv'
      BY <1>2, <2>1, Unmoved
    <2>3. Pos \in {4, 5, 8, 9}
      BY <1>1, <1>2, <1>3 DEF PosAt
    <2>4. AccessTypes'
      BY <1>2, <1>3, <1>4, <1>5, <2>1, SMTT(60) DEF AccessTypes
    <2>5. LoopInv'
      BY <1>2, <1>3, <1>4, <2>1, <2>2, <2>3 DEF LoopInv
    <2>6. \A f \in Bank : SameBank(f) /\ SameStage(f)
      BY <1>4, <2>2, StageUnmoved DEF SameBank
    <2>7. ~failed' => \A f \in Bank : BankInv(f)'
      BY <1>2, <1>4, <1>5, <2>2, <2>3, <2>6, BanksKept
    <2> QED BY <1>4, <1>5, <2>2, <2>4, <2>5, <2>7, CommandStep
  <1>7. CASE ~(w /\ ~GivesUp(sleeps + 1))
    <2>1. Done /\ sleeps' = IF e = 1 THEN 0 ELSE IF w THEN sleeps + 1 ELSE sleeps
      BY <1>1, <1>7, Zenon
    <2>2. /\ todo' \in Seq(Operations \X (Bank \cup Samples)) /\ TodoInv'
          /\ \/ Pos = 4 + e /\ Pos' = 5 + e /\ (w <=> engine[e] = "reset")
             \/ Pos = 8 + e /\ Pos' = 9 + e /\ (w <=> halted(e))
      BY <1>1, <1>2, <1>3, <2>1, Moves, Zenon
    <2>3. /\ sleeps <= IF e = 1 THEN MaxSleeps + 1 ELSE MaxSleeps
          /\ sleeps' <= IF e = 1 THEN 0 ELSE MaxSleeps + 1
          /\ sleeps' \in 0 .. MaxSleeps + 1
      <3>1. sleeps <= IF e = 1 THEN MaxSleeps + 1 ELSE MaxSleeps
        BY <1>2, <1>3, <2>2 DEF LoopInv
      <3> QED BY <1>3, <2>1, <3>1
    <2>4. AccessTypes'
      BY <1>2, <1>4, <1>5, <2>2, <2>3 DEF AccessTypes
    <2>5. Pos # 15 /\ Pos' # 15 /\ Pos' # 1 /\ Pos' \in Nat /\ Pos \in 2 .. 15
      BY <1>3, <2>2
    <2>6. LoopInv'
      <3>1. sleeps' <= IF Pos' \in {5, 9} THEN MaxSleeps + 1
                       ELSE IF Pos' \in {4, 8} THEN MaxSleeps ELSE 0
        BY <1>3, <2>2, <2>3
      <3>2. \A f \in {0, 1} : Pos' \notin 13 + f .. 15
        BY <1>3, <2>2
      <3>3. left = 0 /\ (left <= 0 => elapsed = 0)
        BY <1>2, <2>5 DEF LoopInv
      <3> QED BY <1>4, <2>5, <3>1, <3>2, <3>3 DEF LoopInv, Bank
    <2>7. ASSUME ~failed', NEW f \in Bank PROVE BankInv(f)'
      <3>1. ~w /\ BankInv(f)
        BY <1>5, <1>7, <2>7, Zenon DEF AccessInv, TransferInv
      <3>2. SameBank(f) /\ f \in {0, 1}
        BY <1>4 DEF SameBank, Bank
      <3>3. CASE f # e
        <4>1. SameStage(f)
          <5>1. (Pos = 4 + e /\ Pos' = 5 + e) \/ (Pos = 8 + e /\ Pos' = 9 + e)
            BY <2>2, Zenon
          <5>2. (e = 0 /\ f = 1) \/ (e = 1 /\ f = 0)
            BY <1>3, <3>2, <3>3
          <5> QED BY <5>1, <5>2 DEF SameStage
        <4> QED BY <1>2, <1>4, <2>5, <3>1, <3>2, <4>1, BankKept
      <3>4. CASE f = e
        <4>1. TakenAhead(f)
          BY <1>3, <2>2, <3>1, <3>4 DEF BankInv
        <4>2. TakenAhead(f)'
          BY <1>4, <3>2, <4>1, SameFacts
        <4>3. Pos' \in 3 + f .. 15 /\ Pos' \in 2 .. 15 /\ Pos' \notin 11 + f .. 15
          BY <1>3, <2>2, <3>4
        <4>4. Pos' \in 3 + f .. 6 + f => engine'[f] = "halted"
          BY <1>3, <1>4, <2>2, <3>1, <3>2, <3>4 DEF BankInv
        <4>5. Pos' \in 7 + f .. 10 + f => engine'[f] = "idle"
          BY <1>3, <1>4, <2>2, <3>1, <3>2, <3>4 DEF BankInv, halted
        <4> QED BY <2>5, <4>2, <4>3, <4>4, <4>5, Zenon DEF BankInv
      <3> QED BY <3>3, <3>4
    <2> QED BY <1>4, <1>5, <2>2, <2>4, <2>5, <2>6, <2>7, CommandStep
  <1> QED BY <1>6, <1>7

\* The common part of the steps that work on one engine: at bank e the command
\* goes from place p to the next, on to another stage; at the other bank f
\* nothing changes.
LEMMA EngineSteps ==
  ASSUME AccessInv, NEW e \in Bank, NEW p \in {2, 6, 10}, Pos = p + e, Pos' = (p + 1) + e,
         AccessTypes', TodoInv',
         UNCHANGED <<valid, gate, n_samples, sleeps, left, elapsed, asked, failed, transfers>>,
         \A f \in Bank \ {e} : SameBank(f),
         ~failed => BankInv(e)'
  PROVE  AccessInv'
  <1>1. AccessTypes /\ LoopInv /\ e \in {0, 1}
    BY DEF AccessInv, Bank
  <1>2. /\ Pos \in Nat /\ Pos' \in Nat /\ Pos' # 15 /\ Pos' # 1 /\ Pos # 15 /\ Pos \in 2 .. 15
        /\ Pos \notin {4, 5, 8, 9} /\ Pos' \notin {5, 9}
    BY <1>1
  <1>3. LoopInv'
    <2>1. sleeps' <= IF Pos' \in {5, 9} THEN MaxSleeps + 1
                     ELSE IF Pos' \in {4, 8} THEN MaxSleeps ELSE 0
      <3>1. sleeps <= 0 /\ sleeps' = sleeps
        BY <1>1, <1>2 DEF LoopInv
      <3>2. sleeps \in Nat /\ MaxSleeps \in Nat
        BY <1>1, ConstantTypes DEF AccessTypes
      <3> QED BY <3>1, <3>2
    <2>2. \A f \in {0, 1} : Pos' \notin 13 + f .. 15
      BY <1>1
    <2>3. left = 0 /\ (left <= 0 => elapsed = 0)
      BY <1>1, <1>2 DEF LoopInv
    <2> QED BY <1>2, <2>1, <2>2, <2>3 DEF LoopInv, Bank
  <1>4. ASSUME ~failed, NEW f \in Bank PROVE BankInv(f)'
    <2>1. CASE f = e
      BY <1>4, <2>1
    <2>2. CASE f # e
      <3>1. SameBank(f) /\ BankInv(f) /\ f \in {0, 1}
        BY <1>4, <2>2 DEF AccessInv, TransferInv, Bank
      <3>2. SameStage(f)
        BY <1>1, <2>2, <3>1 DEF SameStage
      <3> QED BY <1>2, <3>1, <3>2, BankKept
    <2> QED BY <2>1, <2>2
  <1> QED BY <1>2, <1>3, <1>4, CommandStep

LEMMA ResetEngineStep == ASSUME AccessInv, NEW e \in Bank, ResetEngine(e) PROVE AccessInv'
  <1>1. /\ At("reset", e) /\ Done /\ todo # <<>>
        /\ engine' = [engine EXCEPT ![e] = "reset"] /\ fifo' = [fifo EXCEPT ![e] = <<>>]
        /\ UNCHANGED <<valid, gate, n_samples, beats, length, rows,
                       sleeps, left, elapsed, asked, failed, transfers>>
    BY DEF ResetEngine, At
  <1>2. /\ AccessTypes /\ TodoInv /\ PointsInv /\ TransferInv
        /\ engine \in [Bank -> Engines] /\ fifo \in [Bank -> Seq(BOOLEAN)]
    BY DEF AccessInv, AccessTypes
  <1>3. /\ Pos = 2 + e /\ Pos' = 3 + e
        /\ todo' \in Seq(Operations \X (Bank \cup Samples)) /\ TodoInv'
    BY <1>1, <1>2, Moves, Zenon
  <1>4. /\ engine'[e] = "reset" /\ fifo'[e] = <<>>
        /\ \A f \in Bank \ {e} : engine'[f] = engine[f] /\ fifo'[f] = fifo[f]
        /\ engine' \in [Bank -> Engines] /\ fifo' \in [Bank -> Seq(BOOLEAN)]
    BY <1>1, <1>2 DEF Engines
  <1>5. AccessTypes'
    <2>1. \A f \in Bank : Len(fifo'[f]) <= Skid /\ (engine'[f] = "busy" => rows'[f] < length'[f])
      BY <1>1, <1>2, <1>4, ConstantTypes DEF AccessTypes
    <2> QED BY <1>1, <1>2, <1>3, <1>4, <2>1 DEF AccessTypes
  <1>6. \A f \in Bank \ {e} : SameBank(f)
    BY <1>1, <1>4 DEF SameBank
  <1>7. ASSUME ~failed PROVE BankInv(e)'
    <2>1. BankInv(e) /\ e \in {0, 1}
      BY <1>7 DEF AccessInv, TransferInv, Bank
    <2>2. Pos \in 2 .. 15 /\ Pos \notin 3 + e .. 15
      BY <1>3, <2>1
    <2>3. n_samples \in Nat /\ Skid < n_samples
      BY <1>2, <1>7, <2>2, Working, Zenon
    <2>4. beats[e] \in Nat /\ beats[e] <= Skid /\ Skid \in Nat
      <3>1. beats[e] <= Len(fifo[e]) /\ Len(fifo[e]) <= Skid
        BY <1>2, <2>1, <2>2 DEF BankInv, Resting, AccessTypes
      <3>2. beats[e] \in Nat /\ Len(fifo[e]) \in Nat /\ Skid \in Nat
        BY <1>2, ConstantTypes DEF AccessTypes
      <3> QED BY <3>1, <3>2
    <2>5. TakenAhead(e)'
      <3>1. Len(fifo'[e]) = 0
        BY <1>4
      <3>2. beats' = beats /\ n_samples' = n_samples
        BY <1>1
      <3>3. beats'[e] - Len(fifo'[e]) \in 0 .. Skid /\ beats'[e] < n_samples'
        BY <2>3, <2>4, <3>1, <3>2
      <3>4. \A i \in 1 .. Len(fifo'[e]) : ~fifo'[e][i]
        BY <3>1
      <3> QED BY <3>3, <3>4, Zenon DEF TakenAhead
    <2>6. /\ Pos' \in 3 + e .. 15 /\ Pos' \in 2 .. 15 /\ Pos' <= 4 + e /\ Pos' # 15
          /\ Pos' \notin 7 + e .. 10 + e /\ Pos' \notin 11 + e .. 15
      BY <1>3, <2>1
    <2> QED BY <1>4, <2>5, <2>6, Zenon DEF BankInv
  <1>8. Pos = 2 + e /\ Pos' = (2 + 1) + e
    BY <1>3
  <1> QED BY <1>1, <1>3, <1>5, <1>6, <1>7, <1>8, EngineSteps

LEMMA RunEngineStep == ASSUME AccessInv, NEW e \in Bank, RunEngine(e) PROVE AccessInv'
  <1>1. /\ At("run", e) /\ Done /\ todo # <<>>
        /\ engine' = [engine EXCEPT ![e] = IF engine[e] = "halted" THEN "starting" ELSE engine[e]]
        /\ UNCHANGED <<valid, gate, n_samples, beats, fifo, length, rows,
                       sleeps, left, elapsed, asked, failed, transfers>>
    BY DEF RunEngine, At
  <1>2. AccessTypes /\ TodoInv /\ engine \in [Bank -> Engines]
    BY DEF AccessInv, AccessTypes
  <1>3. /\ Pos = 6 + e /\ Pos' = 7 + e
        /\ todo' \in Seq(Operations \X (Bank \cup Samples)) /\ TodoInv'
    BY <1>1, <1>2, Moves, Zenon
  <1>4. /\ engine'[e] = (IF engine[e] = "halted" THEN "starting" ELSE engine[e])
        /\ \A f \in Bank \ {e} : engine'[f] = engine[f]
        /\ engine' \in [Bank -> Engines]
    BY <1>1, <1>2 DEF Engines
  <1>5. AccessTypes'
    <2>1. \A f \in Bank : engine'[f] = "busy" => rows'[f] < length'[f]
      BY <1>1, <1>2, <1>4 DEF AccessTypes
    <2> QED BY <1>1, <1>2, <1>3, <1>4, <2>1 DEF AccessTypes
  <1>6. \A f \in Bank \ {e} : SameBank(f)
    BY <1>1, <1>4 DEF SameBank
  <1>7. ASSUME ~failed PROVE BankInv(e)'
    <2>1. BankInv(e) /\ e \in {0, 1}
      BY <1>7 DEF AccessInv, TransferInv, Bank
    <2>2. TakenAhead(e) /\ engine[e] = "halted"
      BY <1>3, <2>1 DEF BankInv
    <2>3. TakenAhead(e)'
      BY <1>1, <2>2, Zenon DEF TakenAhead
    <2>4. /\ Pos' \in 3 + e .. 15 /\ Pos' \in 2 .. 15 /\ Pos' <= 8 + e /\ Pos' # 15
          /\ Pos' \notin 3 + e .. 6 + e /\ Pos' \notin 11 + e .. 15
      BY <1>3, <2>1
    <2> QED BY <1>4, <2>2, <2>3, <2>4, Zenon DEF BankInv
  <1>8. Pos = 6 + e /\ Pos' = (6 + 1) + e
    BY <1>3
  <1> QED BY <1>1, <1>3, <1>5, <1>6, <1>7, <1>8, EngineSteps

-----------------------------------------------------------------------------
LEMMA MinFacts ==
  ASSUME NEW S \in SUBSET Nat, S # {}
  PROVE  Min(S) \in S /\ \A y \in S : Min(S) <= y
  <1>1. PICK x \in S : \A y \in S : ~(<<y, x>> \in OpToRel(<, Nat))
    BY WFMin, NatLessThanWellFounded, Zenon
  <1>2. \A y \in S : ~(y < x)
    BY <1>1 DEF OpToRel
  <1>3. \A y \in S : x <= y
    BY <1>2
  <1>4. \E m \in S : \A y \in S : m <= y
    BY <1>3
  <1> QED BY <1>4, Zenon DEF Min

\* The length starts the transfer, and r beats taken ahead are its first rows.
Started(e, len, r, b) ==
  /\ r \in 0 .. Len(fifo[e]) /\ r <= len
  /\ b <=> (r > 0 /\ fifo[e][r])
  /\ b \/ r = Len(fifo[e]) \/ r = len
  /\ \A i \in 1 .. Len(fifo[e]) : fifo[e][i] => r <= i
  /\ length' = [length EXCEPT ![e] = len]
  /\ rows' = [rows EXCEPT ![e] = r]
  /\ engine' = [engine EXCEPT ![e] = AfterRow(b, r, len)]
  /\ fifo' = [fifo EXCEPT ![e] = SubSeq(fifo[e], r + 1, Len(fifo[e]))]

LEMMA SetLengthEffect ==
  ASSUME AccessTypes, NEW e \in Bank, SetLength(e)
  PROVE  LET len == (PointBeats * n_samples) % LengthRange
         IN  /\ len \in Nat
             /\ \/ /\ ~(engine[e] = "idle" /\ len # 0)
                   /\ UNCHANGED <<length, rows, engine, fifo>>
                \/ /\ engine[e] = "idle" /\ len # 0
                   /\ \E r \in Nat, b \in BOOLEAN : Started(e, len, r, b)
  <1> DEFINE len == (PointBeats * n_samples) % LengthRange
             lasts == {i \in 1 .. Len(fifo[e]) : fifo[e][i]}
             r == Min(lasts \cup {Len(fifo[e]), len})
  <1>1. \/ /\ ~(engine[e] = "idle" /\ len # 0)
           /\ UNCHANGED <<length, rows, engine, fifo>>
        \/ /\ engine[e] = "idle" /\ len # 0
           /\ length' = [length EXCEPT ![e] = len]
           /\ rows' = [rows EXCEPT ![e] = r]
           /\ engine' = [engine EXCEPT ![e] = AfterRow(r \in lasts, r, len)]
           /\ fifo' = [fifo EXCEPT ![e] = SubSeq(fifo[e], r + 1, Len(fifo[e]))]
    BY Zenon DEF SetLength
  <1>2. len \in Nat
    <2>1. PointBeats * n_samples \in Nat
      BY ConstantTypes DEF AccessTypes
    <2> QED BY <2>1, ConstantTypes, ModRange
  <1>3. fifo[e] \in Seq(BOOLEAN) /\ Len(fifo[e]) \in Nat
    BY DEF AccessTypes
  <1> HIDE DEF len
  <1>4. PICK S \in SUBSET Nat : S = lasts \cup {Len(fifo[e]), len} /\ S # {}
    <2>1. lasts \subseteq Nat
      BY <1>3
    <2> HIDE DEF lasts
    <2>2. lasts \cup {Len(fifo[e]), len} \in SUBSET Nat
      BY <1>2, <1>3, <2>1
    <2> QED BY <2>2
  <1>5. r = Min(S) /\ r \in S /\ \A y \in S : r <= y
    BY <1>4, MinFacts, Zenon
  <1>6. PICK q \in Nat : q = r
    BY <1>4, <1>5
  <1> HIDE DEF r
  <1>7. q \in 0 .. Len(fifo[e]) /\ q <= len /\ (q \in lasts \/ q = Len(fifo[e]) \/ q = len)
    BY <1>2, <1>3, <1>4, <1>5, <1>6
  <1>8. \A i \in 1 .. Len(fifo[e]) : fifo[e][i] => q <= i
    BY <1>4, <1>5, <1>6
  <1>9. q \in lasts <=> (q > 0 /\ fifo[e][q])
    BY <1>3, <1>7
  <1> HIDE DEF lasts
  <1>10. PICK b \in BOOLEAN : b = (q \in lasts)
    <2>1. (q \in lasts) \in BOOLEAN
      OBVIOUS
    <2> QED BY <2>1, Zenon
  <1>11. b <=> (q > 0 /\ fifo[e][q])
    BY <1>9, <1>10, Zenon
  <1>12. b \/ q = Len(fifo[e]) \/ q = len
    BY <1>7, <1>10, Zenon
  <1>13. engine[e] = "idle" /\ len # 0 => Started(e, len, q, b)
    BY <1>1, <1>6, <1>7, <1>8, <1>10, <1>11, <1>12, Zenon DEF Started
  <1>14. \/ /\ ~(engine[e] = "idle" /\ len # 0)
            /\ UNCHANGED <<length, rows, engine, fifo>>
         \/ engine[e] = "idle" /\ len # 0
    BY <1>1, Zenon
  <1> QED BY <1>2, <1>13, <1>14, Zenon DEF len

LEMMA SetLengthTypes ==
  ASSUME AccessTypes, NEW e \in Bank, NEW len \in Nat, NEW r \in Nat, NEW b \in BOOLEAN,
         Started(e, len, r, b)
  PROVE  /\ length' \in [Bank -> Nat] /\ rows' \in [Bank -> Nat] /\ engine' \in [Bank -> Engines]
         /\ fifo' \in [Bank -> Seq(BOOLEAN)]
         /\ length'[e] = len /\ rows'[e] = r /\ engine'[e] = AfterRow(b, r, len)
         /\ Len(fifo'[e]) = Len(fifo[e]) - r
         /\ \A f \in Bank \ {e} : /\ length'[f] = length[f] /\ rows'[f] = rows[f]
                                  /\ engine'[f] = engine[f] /\ fifo'[f] = fifo[f]
         /\ \A f \in Bank : /\ Len(fifo'[f]) <= Skid
                            /\ engine'[f] = "busy" => rows'[f] < length'[f]
  <1>1. /\ engine \in [Bank -> Engines] /\ fifo \in [Bank -> Seq(BOOLEAN)]
        /\ length \in [Bank -> Nat] /\ rows \in [Bank -> Nat]
        /\ \A f \in Bank : Len(fifo[f]) <= Skid
        /\ \A f \in Bank : engine[f] = "busy" => rows[f] < length[f]
    BY DEF AccessTypes
  <1>2. /\ r \in 0 .. Len(fifo[e]) /\ r <= len
        /\ length' = [length EXCEPT ![e] = len]
        /\ rows' = [rows EXCEPT ![e] = r]
        /\ engine' = [engine EXCEPT ![e] = AfterRow(b, r, len)]
        /\ fifo' = [fifo EXCEPT ![e] = SubSeq(fifo[e], r + 1, Len(fifo[e]))]
    BY Zenon DEF Started
  <1>3. AfterRow(b, r, len) \in Engines /\ (AfterRow(b, r, len) = "busy" => r # len)
    BY DEF AfterRow, Engines
  <1>4. /\ SubSeq(fifo[e], r + 1, Len(fifo[e])) \in Seq(BOOLEAN)
        /\ Len(SubSeq(fifo[e], r + 1, Len(fifo[e]))) = Len(fifo[e]) - r
    <2>1. /\ fifo[e] \in Seq(BOOLEAN) /\ Len(fifo[e]) \in Nat
          /\ \A i \in r + 1 .. Len(fifo[e]) : fifo[e][i] \in BOOLEAN
      BY <1>1
    <2>2. PICK n \in Int : n = Len(fifo[e])
      BY <2>1
    <2>3. PICK m \in Int : m = r + 1
      OBVIOUS
    <2>4. \A i \in m .. n : fifo[e][i] \in BOOLEAN
      BY <2>1, <2>2, <2>3, Zenon
    <2>5. /\ SubSeq(fifo[e], m, n) \in Seq(BOOLEAN)
          /\ Len(SubSeq(fifo[e], m, n)) = IF m <= n THEN n - m + 1 ELSE 0
      BY <2>4, SubSeqProperties
    <2>6. (IF m <= n THEN n - m + 1 ELSE 0) = n - r
      BY <1>2, <2>2, <2>3
    <2> QED BY <2>2, <2>3, <2>5, <2>6, Zenon
  <1>5. length' \in [Bank -> Nat] /\ rows' \in [Bank -> Nat] /\ engine' \in [Bank -> Engines]
        /\ fifo' \in [Bank -> Seq(BOOLEAN)]
    BY <1>1, <1>2, <1>3, <1>4
  <1>6. /\ length'[e] = len /\ rows'[e] = r /\ engine'[e] = AfterRow(b, r, len)
        /\ fifo'[e] = SubSeq(fifo[e], r + 1, Len(fifo[e]))
        /\ \A f \in Bank \ {e} : /\ length'[f] = length[f] /\ rows'[f] = rows[f]
                                 /\ engine'[f] = engine[f] /\ fifo'[f] = fifo[f]
    BY <1>1, <1>2, Zenon
  <1>7. Len(fifo'[e]) = Len(fifo[e]) - r /\ Len(fifo'[e]) <= Skid
    <2>1. Len(fifo[e]) \in Nat /\ Skid \in Nat /\ Len(fifo[e]) <= Skid
      BY <1>1, ConstantTypes
    <2>2. Len(fifo'[e]) = Len(fifo[e]) - r
      BY <1>4, <1>6, Zenon
    <2> QED BY <2>1, <2>2
  <1>8. engine'[e] = "busy" => rows'[e] < length'[e]
    BY <1>2, <1>3, <1>6
  <1> QED BY <1>1, <1>5, <1>6, <1>7, <1>8, Zenon

\* The transfer of a bank begins, or is complete with the beats taken ahead.
LEMMA SetLengthBank ==
  ASSUME AccessInv, ~failed, NEW e \in Bank, SetLength(e), Pos = 10 + e
  PROVE  Moving(e)'
  <1>1. AccessTypes /\ PointsInv /\ TransferInv /\ BankInv(e) /\ e \in {0, 1}
    BY DEF AccessInv, TransferInv, Bank
  <1>2. TakenAhead(e) /\ engine[e] = "idle"
    BY <1>1 DEF BankInv
  <1>3. PICK len \in Nat : len = PointBeats * n_samples /\ len >= n_samples
                           /\ len = (PointBeats * n_samples) % LengthRange
    <2>1. Pos \in 2 .. 15
      BY <1>1
    <2> QED BY <1>1, <2>1, Working, Zenon
  <1>4. n_samples \in Nat /\ Skid < n_samples /\ Skid \in Nat
    <2>1. Pos \in 2 .. 15
      BY <1>1
    <2> QED BY <1>1, <2>1, Working, ConstantTypes, Zenon
  <1>5. len # 0
    BY <1>3, <1>4
  <1>6. PICK r \in Nat, b \in BOOLEAN : Started(e, len, r, b)
    BY <1>1, <1>2, <1>3, <1>5, SetLengthEffect, Zenon
  <1>7. /\ length'[e] = len /\ rows'[e] = r /\ engine'[e] = AfterRow(b, r, len)
        /\ Len(fifo'[e]) = Len(fifo[e]) - r /\ fifo' \in [Bank -> Seq(BOOLEAN)]
    BY <1>1, <1>6, SetLengthTypes
  <1>8. /\ r \in 0 .. Len(fifo[e]) /\ r <= len /\ (b <=> (r > 0 /\ fifo[e][r]))
        /\ b \/ r = Len(fifo[e]) \/ r = len
        /\ \A i \in 1 .. Len(fifo[e]) : fifo[e][i] => r <= i
    BY <1>6, Zenon DEF Started
  <1>9. beats' = beats /\ n_samples' = n_samples /\ beats[e] \in Nat /\ Len(fifo[e]) \in Nat
    BY <1>1 DEF SetLength, AccessTypes
  <1>10. CASE /\ \A i \in 1 .. Len(fifo[e]) : ~fifo[e][i]
              /\ beats[e] - Len(fifo[e]) \in 0 .. Skid
              /\ beats[e] < n_samples
    <2>1. ~b
      <3>1. r > 0 => r \in 1 .. Len(fifo[e])
        BY <1>8, <1>9
      <3> QED BY <1>8, <1>10, <3>1, Zenon
    <2>2. beats[e] - Len(fifo[e]) \in 0 .. Skid /\ beats[e] < n_samples
      BY <1>10
    <2>3. r = Len(fifo[e]) \/ r = len
      BY <1>8, <2>1, Zenon
    <2>4. r = Len(fifo[e]) /\ r # len
      BY <1>3, <1>4, <1>9, <2>2, <2>3, <1>8
    <2>5. engine'[e] = "busy"
      BY <1>7, <2>1, <2>4 DEF AfterRow
    <2>6. fifo'[e] = <<>>
      <3>1. Len(fifo'[e]) = 0
        BY <1>7, <1>9, <2>4
      <3>2. fifo'[e] \in Seq(BOOLEAN)
        BY <1>7
      <3> QED BY <3>1, <3>2
    <2>7. beats'[e] - rows'[e] \in 0 .. Skid /\ beats'[e] < n_samples' /\ length'[e] >= n_samples'
      BY <1>3, <1>7, <1>9, <2>2, <2>4
    <2> QED BY <2>5, <2>6, <2>7 DEF Moving
  <1>11. CASE \E i \in 1 .. Len(fifo[e]) :
                /\ \A j \in 1 .. Len(fifo[e]) : fifo[e][j] <=> j = i
                /\ n_samples - i \in 0 .. Skid
                /\ beats[e] = Len(fifo[e]) - i
    <2>1. PICK i \in 1 .. Len(fifo[e]) :
                /\ \A j \in 1 .. Len(fifo[e]) : fifo[e][j] <=> j = i
                /\ n_samples - i \in 0 .. Skid
                /\ beats[e] = Len(fifo[e]) - i
      BY <1>11
    <2>2. fifo[e][i] /\ r <= i /\ (b => r = i)
      <3>1. fifo[e][i]
        BY <2>1, Zenon
      <3>2. r <= i
        BY <1>8, <3>1, Zenon
      <3>3. r > 0 => r \in 1 .. Len(fifo[e])
        BY <1>8, <1>9
      <3>4. b => r = i
        BY <1>8, <2>1, <3>3, Zenon
      <3> QED BY <3>1, <3>2, <3>4
    <2>3. r = i
      <3>1. CASE b
        BY <2>2, <3>1
      <3>2. CASE ~b
        <4>1. r = Len(fifo[e]) \/ r = len
          BY <1>8, <3>2, Zenon
        <4>2. n_samples - i \in 0 .. Skid
          BY <2>1
        <4>3. i <= Len(fifo[e]) /\ i \in Nat /\ r <= i
          BY <1>9, <2>2
        <4> QED BY <1>3, <1>4, <1>9, <4>1, <4>2, <4>3
      <3> QED BY <3>1, <3>2
    <2>4. b
      <3>1. i > 0
        BY <1>9
      <3> QED BY <1>8, <2>2, <2>3, <3>1, Zenon
    <2>5. engine'[e] = "idle"
      BY <1>7, <2>4 DEF AfterRow
    <2>6. rows'[e] \in n_samples' - Skid .. n_samples' /\ beats'[e] <= Len(fifo'[e])
      <3>1. n_samples - i \in 0 .. Skid /\ beats[e] = Len(fifo[e]) - i
        BY <2>1
      <3> QED BY <1>4, <1>7, <1>9, <2>3, <3>1
    <2> QED BY <2>5, <2>6 DEF Moving
  <1> QED BY <1>2, <1>10, <1>11 DEF TakenAhead

LEMMA SetLengthStep == ASSUME AccessInv, NEW e \in Bank, SetLength(e) PROVE AccessInv'
  <1>1. /\ At("length", e) /\ Done /\ todo # <<>>
        /\ UNCHANGED <<valid, gate, n_samples, beats, sleeps, left, elapsed, asked, failed, transfers>>
    BY DEF SetLength, At
  <1>2. AccessTypes /\ TodoInv
    BY DEF AccessInv
  <1>3. /\ Pos = 10 + e /\ Pos' = 11 + e
        /\ todo' \in Seq(Operations \X (Bank \cup Samples)) /\ TodoInv'
    BY <1>1, <1>2, Moves, Zenon
  <1>4. PICK len \in Nat :
          \/ UNCHANGED <<length, rows, engine, fifo>>
          \/ \E r \in Nat, b \in BOOLEAN : Started(e, len, r, b)
    BY <1>2, SetLengthEffect, Zenon
  <1>5. /\ length' \in [Bank -> Nat] /\ rows' \in [Bank -> Nat] /\ engine' \in [Bank -> Engines]
        /\ fifo' \in [Bank -> Seq(BOOLEAN)]
        /\ \A f \in Bank \ {e} : /\ length'[f] = length[f] /\ rows'[f] = rows[f]
                                 /\ engine'[f] = engine[f] /\ fifo'[f] = fifo[f]
        /\ \A f \in Bank : /\ Len(fifo'[f]) <= Skid
                           /\ engine'[f] = "busy" => rows'[f] < length'[f]
    <2>1. CASE UNCHANGED <<length, rows, engine, fifo>>
      BY <1>2, <2>1 DEF AccessTypes
    <2>2. CASE \E r \in Nat, b \in BOOLEAN : Started(e, len, r, b)
      <3>1. PICK r \in Nat, b \in BOOLEAN : Started(e, len, r, b)
        BY <2>2
      <3>2. AccessTypes /\ e \in Bank /\ len \in Nat
        BY <1>2, <1>4
      <3>3. /\ length' \in [Bank -> Nat] /\ rows' \in [Bank -> Nat] /\ engine' \in [Bank -> Engines]
            /\ fifo' \in [Bank -> Seq(BOOLEAN)]
            /\ length'[e] = len /\ rows'[e] = r /\ engine'[e] = AfterRow(b, r, len)
            /\ Len(fifo'[e]) = Len(fifo[e]) - r
            /\ \A f \in Bank \ {e} : /\ length'[f] = length[f] /\ rows'[f] = rows[f]
                                     /\ engine'[f] = engine[f] /\ fifo'[f] = fifo[f]
            /\ \A f \in Bank : /\ Len(fifo'[f]) <= Skid
                               /\ engine'[f] = "busy" => rows'[f] < length'[f]
        BY <3>1, <3>2, SetLengthTypes, ZenonT(60)
      <3> QED BY <3>3, ZenonT(60)
    <2> QED BY <1>4, <2>1, <2>2
  <1>6. AccessTypes'
    BY <1>1, <1>2, <1>3, <1>5 DEF AccessTypes
  <1>7. \A f \in Bank \ {e} : SameBank(f)
    BY <1>1, <1>5 DEF SameBank
  <1>8. ASSUME ~failed PROVE BankInv(e)'
    <2>1. Moving(e)'
      BY <1>3, <1>8, SetLengthBank
    <2>2. /\ Pos' \in 3 + e .. 15 /\ Pos' \in 2 .. 15 /\ Pos' # 15
          /\ Pos' \notin 3 + e .. 6 + e /\ Pos' \notin 7 + e .. 10 + e
      BY <1>3 DEF Bank
    <2> QED BY <2>1, <2>2, Zenon DEF BankInv
  <1>9. Pos = 10 + e /\ Pos' = (10 + 1) + e
    BY <1>3 DEF Bank
  <1> QED BY <1>1, <1>3, <1>6, <1>7, <1>8, <1>9, EngineSteps

-----------------------------------------------------------------------------
LEMMA InitAccess == Init => AccessInv
  <1> SUFFICES ASSUME Init PROVE AccessInv
    OBVIOUS
  <1>1. AccessTypes
    <2>1. /\ valid \in [Bank -> BOOLEAN] /\ gate \in [Bank -> BOOLEAN]
          /\ beats \in [Bank -> Nat] /\ engine \in [Bank -> Engines]
          /\ length \in [Bank -> Nat] /\ rows \in [Bank -> Nat]
      BY DEF Init, Engines
    <2>2. /\ fifo \in [Bank -> Seq(BOOLEAN)] /\ \A e \in Bank : Len(fifo[e]) <= Skid
          /\ \A e \in Bank : engine[e] # "busy"
      BY ConstantTypes DEF Init
    <2>3. /\ n_samples \in 0 .. Word - 1 /\ todo \in Seq(Operations \X (Bank \cup Samples))
          /\ asked \in Samples \cup {NoTransfer} /\ sleeps \in 0 .. MaxSleeps + 1
          /\ left \in Int /\ elapsed \in 0 .. PerSleep /\ transfers \in 0 .. MaxTransfers
      BY ConstantTypes DEF Init
    <2>4. failed \in BOOLEAN
      BY Zenon DEF Init
    <2> QED BY <2>1, <2>2, <2>3, <2>4, Zenon DEF AccessTypes
  <1>2. Pos = 0
    BY <1>1, PosIsAt DEF Init
  <1>3. TodoInv
    <2>1. Len(todo) = 0
      BY DEF Init
    <2> QED BY <2>1 DEF TodoInv
  <1>4. LoopInv
    BY <1>2 DEF Init, LoopInv, Bank
  <1>5. PointsInv
    BY <1>2 DEF PointsInv
  <1>6. ASSUME NEW e \in Bank PROVE BankInv(e)
    <2>1. Resting(e)
      BY DEF Init, Resting
    <2>2. /\ Pos \notin 3 + e .. 6 + e /\ Pos \notin 7 + e .. 10 + e /\ Pos \notin 11 + e .. 15
          /\ Pos # 15
      BY <1>2 DEF Bank
    <2>3. asked = NoTransfer
      BY DEF Init
    <2> QED BY <2>1, <2>2, <2>3, Zenon DEF BankInv
  <1>7. TransferInv
    BY <1>2, <1>6 DEF TransferInv
  <1> QED BY <1>1, <1>3, <1>4, <1>5, <1>7 DEF AccessInv

LEMMA NextAccess == AccessInv /\ [Next]_vars => AccessInv'
  <1> SUFFICES ASSUME AccessInv, [Next]_vars PROVE AccessInv'
    OBVIOUS
  <1>1. CASE \E p \in Accesses : Command(p)
    BY <1>1, CommandBegins
  <1>2. CASE /\ transfers < (IF failed THEN MaxFailed ELSE MaxTransfers)
             /\ \E p \in Transfers : Command(p)
    BY <1>2, CommandBegins
  <1>3. CASE DriverStep
    <2>1. ASSUME NEW n \in Samples, set_nsamples(n) \/ set_points(n) PROVE AccessInv'
      BY <2>1, SetNsamplesStep, SetPointsStep
    <2>2. CASE SetDuration \/ wait_for_transfer
      BY <1>3, <2>2, SetDurationStep, WaitForTransferStep DEF DriverStep
    <2>4. ASSUME NEW n \in Samples,
                 \/ \E r \in AfterTransfer(n) : ReadRows("read", r)
                 \/ ReadRows("read_mics6", read_mics6(n))
          PROVE AccessInv'
      <3>1. PICK op \in {"read", "read_mics6"}, r \in AfterTransfer(n) \cup {read_mics6(n)} :
               ReadRows(op, r)
        BY <2>4, Zenon
      <3>2. r.samples = n
        BY ReadingFacts
      <3> QED BY <3>1, <3>2, ReadRowsStep
    <2>3. ASSUME NEW e \in Bank,
                 \/ ResetEngine(e) \/ RunEngine(e) \/ SetLength(e)
                 \/ WaitEngine("wait_reset", e, engine[e] = "reset")
                 \/ WaitEngine("wait_start", e, halted(e))
                 \/ SetGate("on", e, TRUE) \/ SetGate("off", e, FALSE)
          PROVE AccessInv'
      BY <2>3, ResetEngineStep, RunEngineStep, SetLengthStep, WaitEngineStep, SetGateStep, Zenon
    <2> QED BY <1>3, <2>1, <2>2, <2>3, <2>4, Zenon DEF DriverStep
  <1>4. CASE Sample
    BY <1>4, SampleStep
  <1>5. CASE \E e \in Bank : Beat(e) \/ EngineStep(e)
    BY <1>5, BeatStep, EngineStepStep
  <1>6. CASE UNCHANGED vars
    <2>1. AccessTypes'
      BY <1>6 DEF AccessInv, AccessTypes, vars, fpga, driver
    <2>2. UNCHANGED <<todo, sleeps, left, n_samples, asked, failed, transfers, gate, elapsed, valid>>
      BY <1>6 DEF vars, fpga, driver
    <2>3. \A f \in Bank : SameBank(f) /\ SameStage(f)
      BY <1>6, <2>2, Unmoved, StageUnmoved DEF SameBank, vars, fpga
    <2>4. \A f \in Bank : Progress(f) => Progress(f)'
      BY <2>2, <2>3, SameFacts
    <2>5. Pos' = Pos /\ Pos \in Nat
      BY <2>2, Unmoved, PosIsAt DEF AccessInv
    <2>6. ~failed => \A f \in Bank : BankInv(f)'
      BY <2>2, <2>3, <2>4, <2>5, BanksKept
    <2> QED BY <2>1, <2>2, <2>6, FpgaStep
  <1> QED BY <1>1, <1>2, <1>3, <1>4, <1>5, <1>6, Zenon DEF Next

-----------------------------------------------------------------------------
\* Nothing is returned yet, or what was returned is not touched.
LEMMA AnswerKept ==
  ASSUME AnswerTypes, AnswerInv,
         data_ret' = {} \/ UNCHANGED <<todo, data_ret, asked, failed>>
  PROVE  AnswerTypes' /\ AnswerInv'
  <1>1. CASE data_ret' = {}
    BY <1>1, Zenon DEF AnswerTypes, AnswerInv, RowsOfTransfer
  <1>2. CASE todo' = todo /\ data_ret' = data_ret /\ asked' = asked /\ failed' = failed
    BY <1>2, Zenon DEF AnswerTypes, AnswerInv, RowsOfTransfer
  <1> QED BY <1>1, <1>2

\* The rows of k iterations: one for each if an iteration reads within a row.
LEMMA RowsReadFacts ==
  ASSUME NEW r, NEW k \in Nat, r.num_mics \in {8, 16}, r.mics \subseteq Nat
  PROVE  /\ RowsReadBy(r, k) \subseteq Nat
         /\ r.num_mics = RowWords /\ r.mics \subseteq 0 .. RowWords - 1
              => RowsReadBy(r, k) \subseteq 1 .. k
  <1>1. ASSUME NEW i \in 1 .. k, NEW m \in r.mics
        PROVE  (i * r.num_mics + m) \div RowWords \in Nat
    <2>1. PICK c \in {8, 16} : c = r.num_mics
      OBVIOUS
    <2>2. m \in Nat /\ (i * c + m) \div 8 \in Nat
      BY <2>1
    <2> QED BY <2>1, <2>2 DEF RowWords
  <1>2. ASSUME NEW i \in 1 .. k, NEW m \in r.mics,
               r.num_mics = RowWords, r.mics \subseteq 0 .. RowWords - 1
        PROVE  (i * r.num_mics + m) \div RowWords \in 1 .. k
    <2>1. m \in 0 .. 7 /\ r.num_mics = 8
      BY <1>2 DEF RowWords
    <2>2. (i * 8 + m) \div 8 = i
      BY <2>1
    <2> QED BY <2>1, <2>2 DEF RowWords
  <1>3. RowsReadBy(r, k) \subseteq Nat
    BY <1>1 DEF RowsReadBy
  <1>4. ASSUME r.num_mics = RowWords, r.mics \subseteq 0 .. RowWords - 1
        PROVE RowsReadBy(r, k) \subseteq 1 .. k
    BY <1>2, <1>4 DEF RowsReadBy
  <1> QED BY <1>3, <1>4

\* A command reads: the rows the last transfer wrote are known.
LEMMA ReadRowsAnswer ==
  ASSUME DmaInv, NEW n \in Samples, NEW op \in {"read", "read_mics6"},
         NEW r \in AfterTransfer(n) \cup {read_mics6(n)}, ReadRows(op, r)
  PROVE  AnswerTypes' /\ AnswerInv'
  <1>1. /\ r.samples = n /\ r.num_mics \in {8, 16}
        /\ r.mics \subseteq Nat /\ r.banks \subseteq Bank
    BY ReadingFacts
  <1>2. Pos \in {18, 19} /\ todo' = <<>>
    BY <1>1, ReadRowsStep DEF DmaInv
  <1>3. PICK k \in Iterations(n) :
          data_ret' = {[read |-> r, rows |-> RowsReadBy(r, k),
                        old |-> [e \in r.banks |-> {i \in RowsReadBy(r, k) : i >= rows[e]}]]}
    BY <1>1 DEF ReadRows
  <1>4. asked' = asked /\ failed' = failed
    BY DEF ReadRows
  <1>5. n \in Nat /\ k \in Nat /\ k <= n
    BY Args DEF Iterations
  <1>6. PICK R : R = RowsReadBy(r, k)
    OBVIOUS
  <1>7. /\ R \subseteq Nat
        /\ r.num_mics = RowWords /\ r.mics \subseteq 0 .. RowWords - 1 => R \subseteq 1 .. k
    BY <1>1, <1>5, <1>6, RowsReadFacts
  <1>8. PICK old : old = [e \in r.banks |-> {i \in R : i >= rows[e]}]
    OBVIOUS
  <1>9. PICK d : d = [read |-> r, rows |-> R, old |-> old]
    OBVIOUS
  <1>10. data_ret' = {d}
    BY <1>3, <1>6, <1>8, <1>9
  <1>11. d.read = r /\ d.rows = R /\ d.old = old
    BY <1>9
  <1>12. AnswerTypes'
    <2>1. old \in [r.banks -> SUBSET R]
      BY <1>8
    <2> QED BY <1>7, <1>10, <1>11, <2>1, Zenon DEF AnswerTypes
  <1>13. ASSUME asked # NoTransfer, ~failed, NEW e \in r.banks
         PROVE  /\ n <= asked /\ r.num_mics = RowWords /\ r.mics \subseteq 0 .. RowWords - 1
                     => old[e] = {}
                /\ \A i \in R : /\ i < asked + ReadOffset - Skid => i \notin old[e]
                                /\ i >= asked + ReadOffset => i \in old[e]
    <2>1. e \in Bank /\ BankInv(e)
      BY <1>1, <1>13, Zenon DEF DmaInv, AccessInv, TransferInv
    <2>2. Pos \notin 2 .. 15
      BY <1>2
    <2>3. rows[e] \in asked + ReadOffset - Skid .. asked + ReadOffset
      BY <1>13, <2>1, <2>2, Zenon DEF BankInv
    <2>4. asked \in Nat /\ ReadOffset \in Nat /\ Skid \in Nat /\ Skid < ReadOffset
      BY <1>13, Args, DmaAssumption DEF DmaInv, AccessInv, AccessTypes
    <2>5. old[e] = {i \in R : i >= rows[e]}
      BY <1>8, <1>13
    <2>6. ASSUME n <= asked, r.num_mics = RowWords, r.mics \subseteq 0 .. RowWords - 1
          PROVE  old[e] = {}
      <3>1. R \subseteq 1 .. k
        BY <1>7, <2>6
      <3>2. ASSUME NEW i \in R PROVE ~(i >= rows[e])
        <4>1. i \in 1 .. k /\ k <= asked
          BY <1>5, <2>4, <2>6, <3>1
        <4>2. PICK w \in Int : w = rows[e] /\ w >= asked + ReadOffset - Skid
          BY <2>3, <2>4
        <4>3. i < w /\ i \in Int
          BY <1>5, <2>4, <4>1, <4>2
        <4> QED BY <4>2, <4>3
      <3> QED BY <2>5, <3>2
    <2>7. ASSUME NEW i \in R
          PROVE  /\ i < asked + ReadOffset - Skid => i \notin old[e]
                 /\ i >= asked + ReadOffset => i \in old[e]
      <3>1. i \in Nat
        BY <1>7
      <3>2. /\ i < asked + ReadOffset - Skid => ~(i >= rows[e])
            /\ i >= asked + ReadOffset => i >= rows[e]
        BY <2>3, <2>4, <3>1
      <3> QED BY <2>5, <3>2
    <2> QED BY <2>6, <2>7, Zenon
  <1>14. AnswerInv'
    <2>1. (todo # <<>> => data_ret = {})'
      BY <1>2
    <2>2. RowsOfTransfer'
      BY <1>1, <1>4, <1>10, <1>11, <1>13, Zenon DEF RowsOfTransfer
    <2> QED BY <2>1, <2>2 DEF AnswerInv
  <1> QED BY <1>12, <1>14

LEMMA InitInv == Init => DmaInv
  <1> SUFFICES ASSUME Init PROVE DmaInv
    OBVIOUS
  <1>1. data_ret = {}
    BY DEF Init
  <1>2. AnswerTypes /\ AnswerInv
    BY <1>1, Zenon DEF AnswerTypes, AnswerInv, RowsOfTransfer
  <1> QED BY <1>2, InitAccess DEF DmaInv, TypeOK, AccessInv

LEMMA NextInv == DmaInv /\ [Next]_vars => DmaInv'
  <1> SUFFICES ASSUME DmaInv, [Next]_vars PROVE DmaInv'
    OBVIOUS
  <1>1. AnswerTypes /\ AnswerInv
    BY DEF DmaInv, TypeOK
  <1>2. ASSUME NEW p, Command(p) PROVE data_ret' = {}
    BY <1>2 DEF Command
  <1>3. ASSUME DriverStep PROVE AnswerTypes' /\ AnswerInv'
    <2>1. ASSUME todo # <<>>, data_ret' = data_ret PROVE data_ret' = {}
      BY <1>1, <2>1 DEF AnswerInv
    <2>2. ASSUME NEW n \in Samples, set_nsamples(n) \/ set_points(n) PROVE data_ret' = {}
      BY <2>1, <2>2 DEF set_nsamples, set_points, At
    <2>3. ASSUME SetDuration \/ wait_for_transfer PROVE data_ret' = {}
      BY <2>1, <2>3 DEF SetDuration, wait_for_transfer, At
    <2>4. ASSUME NEW e \in Bank,
                 \/ ResetEngine(e) \/ RunEngine(e) \/ SetLength(e)
                 \/ WaitEngine("wait_reset", e, engine[e] = "reset")
                 \/ WaitEngine("wait_start", e, halted(e))
                 \/ SetGate("on", e, TRUE) \/ SetGate("off", e, FALSE)
          PROVE data_ret' = {}
      BY <2>1, <2>4 DEF ResetEngine, RunEngine, SetLength, WaitEngine, SetGate, At
    <2>5. ASSUME NEW n \in Samples,
                 \/ \E r \in AfterTransfer(n) : ReadRows("read", r)
                 \/ ReadRows("read_mics6", read_mics6(n))
          PROVE AnswerTypes' /\ AnswerInv'
      <3>1. PICK op \in {"read", "read_mics6"}, r \in AfterTransfer(n) \cup {read_mics6(n)} :
               ReadRows(op, r)
        BY <2>5, Zenon
      <3> QED BY <3>1, ReadRowsAnswer
    <2> QED BY <1>1, <1>3, <2>2, <2>3, <2>4, <2>5, AnswerKept, Zenon DEF DriverStep
  <1>4. ASSUME Sample \/ (\E e \in Bank : Beat(e) \/ EngineStep(e)) \/ UNCHANGED vars
        PROVE  AnswerTypes' /\ AnswerInv'
    <2>1. UNCHANGED <<todo, data_ret, asked, failed>>
      BY <1>4 DEF Sample, Beat, EngineStep, vars, driver
    <2> QED BY <1>1, <2>1, AnswerKept
  <1>5. AnswerTypes' /\ AnswerInv'
    BY <1>1, <1>2, <1>3, <1>4, AnswerKept, Zenon DEF Next
  <1>6. AccessInv'
    BY NextAccess DEF DmaInv
  <1> QED BY <1>5, <1>6 DEF DmaInv, TypeOK, AccessInv

\* The inductive invariant of the DMA path: for engines that take any number
\* of beats ahead below read_offset, for transfers of any size and any number
\* of them, at every step of start_dma_transfer the counter of axis_tlast, the
\* rows written and the beats taken ahead account for each other.
THEOREM DmaInvariant == Spec => []DmaInv
  <1> QED BY InitInv, NextInv, PTL DEF Spec

\* The registers and the variables of the driver keep their types, and no
\* engine writes more rows than the length it was given.
THEOREM DmaTypes == Spec => []TypeOK
  <1>1. DmaInv => TypeOK
    BY DEF DmaInv
  <1> QED BY <1>1, DmaInvariant, PTL

\* What a command returns, for every size of transfer and of reading while
\* nothing failed: get_mics6, get_mics4, get_mics_ith below 8, and read_mics6
\* with no larger argument than the transfer, return rows of the last transfer
\* only, since wait_for_transfer, which never asks the engines, slept long
\* enough; and whatever is read beyond the points of the transfer is old.
THEOREM RowsRead == Spec => []RowsOfTransfer
  <1>1. DmaInv => RowsOfTransfer
    BY DEF DmaInv, AnswerInv
  <1> QED BY <1>1, DmaInvariant, PTL

\* The counter of axis_tlast, which no command resets, is in step again at the
\* end of every command that did not fail.
THEOREM CounterKept == Spec => []CounterInStep
  <1>1. DmaInv => CounterInStep
    <2> SUFFICES ASSUME AccessInv, todo = <<>>, ~failed, NEW e \in Bank PROVE beats[e] <= Skid
      BY DEF CounterInStep, DmaInv
    <2>1. Pos = 0 /\ BankInv(e)
      BY PosIsAt DEF AccessInv, TransferInv
    <2>2. Pos \notin 3 + e .. 15
      BY <2>1 DEF Bank
    <2>3. beats[e] <= Len(fifo[e])
      BY <2>1, <2>2, Zenon DEF BankInv, Resting
    <2>4. Len(fifo[e]) <= Skid /\ Len(fifo[e]) \in Nat /\ beats[e] \in Nat /\ Skid \in Nat
      BY ConstantTypes DEF AccessInv, AccessTypes
    <2> QED BY <2>3, <2>4
  <1> QED BY <1>1, DmaInvariant, PTL
=============================================================================
