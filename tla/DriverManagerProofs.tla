------------------------- MODULE DriverManagerProofs -------------------------
(***************************************************************************)
(* For any drivers, whatever their constructors ask for, and any number of *)
(* session threads: every driver is constructed once, a thread that        *)
(* started a driver finds it, and commands run as DriverService promises.  *)
(***************************************************************************)
EXTENDS DriverManager, SequenceTheorems, TLAPS

-----------------------------------------------------------------------------
(* Stacks of calls: the innermost call, and the three ways in which a step  *)
(* of alloc_driver changes them.                                            *)

LEMMA Positions ==
  ASSUME NEW n \in Nat \ {0}
  PROVE  /\ 1 \in 1..n /\ n \in 1..n /\ n \notin 1..n - 1
         /\ n # 1 => 1 \in 1..n - 1
         /\ \A i \in 1..n : i = n \/ i \in 1..n - 1
         /\ \A i \in 1..n - 1 : i \in 1..n /\ i + 1 \in 1..n /\ i # n
         /\ n = 1 => \A i \in 1..n : i = 1
OBVIOUS

LEMMA FrameFields ==
  ASSUME NEW f \in Frames
  PROVE  f.driver \in Drivers /\ f.asked \in Nat /\ f.at \in Points
BY DEF Frames

LEMMA TopOfStack ==
  ASSUME NEW s \in Seq(Frames), s # <<>>
  PROVE  Len(s) \in Nat \ {0} /\ Last(s) = s[Len(s)] /\ Last(s) \in Frames
BY EmptySeq, LenProperties, ElementOfSeq DEF Last

\* The innermost call is replaced.
LEMMA ReplaceTop ==
  ASSUME NEW s \in Seq(Frames), s # <<>>, NEW f \in Frames,
         NEW r, r = [s EXCEPT ![Len(s)] = f]
  PROVE  /\ r \in Seq(Frames) /\ Len(r) = Len(s) /\ r[Len(s)] = f
         /\ \A i \in 1..Len(s) - 1 : r[i] = s[i]
<1>1. Len(s) \in Nat \ {0}
  BY TopOfStack
<1>2. Len(s) \in 1..Len(s)
  BY <1>1
<1>3. /\ r \in Seq(Frames) /\ Len(r) = Len(s)
      /\ \A j \in 1..Len(s) : r[j] = IF j = Len(s) THEN f ELSE s[j]
  BY <1>2, ExceptSeq
<1>4. r[Len(s)] = f
  BY <1>2, <1>3
<1>5. ASSUME NEW i \in 1..Len(s) - 1 PROVE r[i] = s[i]
  <2>1. i \in 1..Len(s) /\ i # Len(s)
    BY <1>1
  <2> QED
    BY <1>3, <2>1, Zenon
<1> QED
  BY <1>3, <1>4, <1>5, Zenon

\* The innermost call returns.
LEMMA PopTop ==
  ASSUME NEW s \in Seq(Frames), s # <<>>
  PROVE  /\ Front(s) \in Seq(Frames) /\ Len(Front(s)) = Len(s) - 1
         /\ \A i \in 1..Len(s) - 1 : Front(s)[i] = s[i]
<1>1. Len(s) \in Nat \ {0}
  BY TopOfStack
<1> DEFINE n == Len(s) - 1
<1>2. n \in Nat /\ n <= Len(s)
  BY <1>1
<1> HIDE DEF n
<1>3. SubSeq(s, 1, n) \in Seq(Frames)
  BY <1>2
<1>4. Len(SubSeq(s, 1, n)) = n
  BY <1>2
<1>5. \A i \in 1..n : SubSeq(s, 1, n)[i] = s[i]
  BY <1>2
<1> QED
  BY <1>3, <1>4, <1>5 DEF n, Front

LEMMA GoOnStack ==
  ASSUME stack \in [Callers -> Seq(Frames)], NEW t \in Callers,
         NEW from, NEW to \in Points, GoOn(t, from, to)
  PROVE  /\ Top(t).at = from
         /\ stack' \in [Callers -> Seq(Frames)] /\ Len(stack'[t]) = Len(stack[t])
         /\ \A i \in 1..Len(stack[t]) - 1 : stack'[t][i] = stack[t][i]
         /\ stack'[t][Len(stack[t])] = [Top(t) EXCEPT !.at = to]
         /\ \A u \in Callers \ {t} : stack'[u] = stack[u]
<1> DEFINE r == [stack[t] EXCEPT ![Len(stack[t])] = [Top(t) EXCEPT !.at = to]]
<1>1. stack[t] # <<>> /\ Top(t) \in Frames /\ Top(t) = stack[t][Len(stack[t])]
  BY TopOfStack DEF GoOn, Top
<1>2. [Top(t) EXCEPT !.at = to] \in Frames
  BY <1>1 DEF Frames
<1>3. Top(t).at = from /\ stack' = [stack EXCEPT ![t] = r]
  BY <1>1 DEF GoOn
<1>4. /\ r \in Seq(Frames) /\ Len(r) = Len(stack[t])
      /\ r[Len(stack[t])] = [Top(t) EXCEPT !.at = to]
      /\ \A i \in 1..Len(stack[t]) - 1 : r[i] = stack[t][i]
  BY <1>1, <1>2, ReplaceTop
<1> HIDE DEF r
<1> QED
  BY <1>3, <1>4

LEMMA ReturnStack ==
  ASSUME stack \in [Callers -> Seq(Frames)], NEW t \in Callers, stack[t] # <<>>, Return(t)
  PROVE  /\ stack' \in [Callers -> Seq(Frames)] /\ Len(stack'[t]) = Len(stack[t]) - 1
         /\ \A i \in 1..Len(stack[t]) - 1 : stack'[t][i] = stack[t][i]
         /\ \A u \in Callers \ {t} : stack'[u] = stack[u]
<1>1. stack' = [stack EXCEPT ![t] = Front(stack[t])]
  BY DEF Return
<1>2. /\ Front(stack[t]) \in Seq(Frames) /\ Len(Front(stack[t])) = Len(stack[t]) - 1
      /\ \A i \in 1..Len(stack[t]) - 1 : Front(stack[t])[i] = stack[t][i]
  BY PopTop
<1> QED
  BY <1>1, <1>2

\* A constructor asks for its next dependency: it is there, or a call begins.
LEMMA AskForStack ==
  ASSUME stack \in [Callers -> Seq(Frames)], NEW t \in Callers, AskFor(t)
  PROVE  LET n == Len(stack[t])
             d == Needs[Top(t).driver][Top(t).asked + 1]
         IN  /\ Top(t).at = "construct" /\ Top(t).asked + 1 \in 1..Len(Needs[Top(t).driver])
             /\ d \in Drivers
             /\ stack' \in [Callers -> Seq(Frames)]
             /\ \A i \in 1..n - 1 : stack'[t][i] = stack[t][i]
             /\ stack'[t][n] = [Top(t) EXCEPT !.asked = @ + 1]
             /\ IF is_started[d] THEN Len(stack'[t]) = n
                ELSE Len(stack'[t]) = n + 1 /\ stack'[t][n + 1] = Frame(d)
             /\ \A u \in Callers \ {t} : stack'[u] = stack[u]
<1> DEFINE n == Len(stack[t])
           d == Needs[Top(t).driver][Top(t).asked + 1]
           f == [Top(t) EXCEPT !.asked = @ + 1]
           r == [stack[t] EXCEPT ![n] = f]
<1>1. stack[t] # <<>> /\ Top(t).at = "construct" /\ Top(t).asked < Len(Needs[Top(t).driver])
  BY DEF AskFor
<1>2. n \in Nat \ {0} /\ Top(t) \in Frames /\ Top(t) = stack[t][n]
  BY <1>1, TopOfStack DEF Top
<1>3. Top(t).driver \in Drivers /\ Top(t).asked \in Nat
  BY <1>2, FrameFields
<1>4. Needs[Top(t).driver] \in Seq(Drivers)
  BY <1>3, DriversAssumption
<1>5. Top(t).asked + 1 \in 1..Len(Needs[Top(t).driver])
  BY <1>1, <1>3, <1>4, LenProperties
<1>6. d \in Drivers
  BY <1>4, <1>5, ElementOfSeq
<1>7. f \in Frames
  BY <1>2, <1>3 DEF Frames
<1>8. /\ r \in Seq(Frames) /\ Len(r) = n /\ r[n] = f
      /\ \A i \in 1..n - 1 : r[i] = stack[t][i]
  BY <1>1, <1>7, ReplaceTop
<1>9. stack' = [stack EXCEPT ![t] = IF is_started[d] THEN r ELSE Append(r, Frame(d))]
  BY <1>2 DEF AskFor
<1>10. Frame(d) \in Frames
  BY <1>6 DEF Frame, Frames, Points
<1> HIDE DEF r, f, d
<1>11. /\ Append(r, Frame(d)) \in Seq(Frames) /\ Len(Append(r, Frame(d))) = n + 1
       /\ \A i \in 1..n : Append(r, Frame(d))[i] = r[i]
       /\ Append(r, Frame(d))[n + 1] = Frame(d)
  BY <1>8, <1>10, AppendProperties
<1>12. CASE is_started[d]
  <2>1. stack' = [stack EXCEPT ![t] = r]
    BY <1>9, <1>12
  <2> QED
    BY <1>1, <1>2, <1>5, <1>6, <1>8, <1>12, <2>1 DEF d, f
<1>13. CASE ~is_started[d]
  <2>1. stack' = [stack EXCEPT ![t] = Append(r, Frame(d))]
    BY <1>9, <1>13
  <2>2. \A i \in 1..n - 1 : Append(r, Frame(d))[i] = stack[t][i]
    BY <1>2, <1>8, <1>11
  <2>3. Append(r, Frame(d))[n] = f
    BY <1>2, <1>8, <1>11
  <2> QED
    BY <1>1, <1>2, <1>5, <1>6, <1>11, <1>13, <2>1, <2>2, <2>3 DEF d, f
<1> QED
  BY <1>12, <1>13

-----------------------------------------------------------------------------
(* Type correctness. *)

LEMMA TypeInit == Init => TypeOK
<1> SUFFICES ASSUME Init PROVE TypeOK
  OBVIOUS
<1>1. stack \in [Callers -> Seq(Frames)]
  BY DEF Init
<1>2. is_started \in [Drivers -> BOOLEAN] /\ exit_all \in BOOLEAN
  BY DEF Init
<1>3. Main \in Callers
  BY DEF Callers
<1> QED
  BY <1>1, <1>2, <1>3, DriversAssumption DEF Init, TypeOK

LEMMA AllocTypes ==
  ASSUME TypeOK, NEW t \in Callers, AllocDriver(t)
  PROVE  TypeOK'
<1> USE DEF TypeOK
<1>1. stack[t] # <<>> => Top(t) \in Frames /\ Top(t).driver \in Drivers
  BY TopOfStack, FrameFields DEF Top
<1>2. CASE Lock(t)
  BY <1>2, GoOnStack DEF Lock, Points
<1>3. CASE CheckAgain(t)
  <2>1. CASE Return(t)
    BY <1>3, <2>1, ReturnStack DEF CheckAgain, Return
  <2>2. CASE GoOn(t, "started?", "alloc") /\ UNCHANGED mutex
    BY <1>3, <2>2, GoOnStack DEF CheckAgain, Points
  <2> QED
    BY <1>3, <2>1, <2>2 DEF CheckAgain
<1>4. CASE AllocInContainer(t)
  <2>1. stack' \in [Callers -> Seq(Frames)]
    BY <1>4, GoOnStack DEF AllocInContainer, Points
  <2> QED
    BY <1>1, <1>4, <2>1 DEF AllocInContainer
<1>5. CASE CircularDependency(t)
  <2>1. stack' \in [Callers -> Seq(Frames)]
    BY <1>5, ReturnStack DEF CircularDependency
  <2>2. Caller(t) \subseteq Drivers
    <3> SUFFICES ASSUME NEW i \in {Len(stack[t]) - 1} \ {0} PROVE stack[t][i].driver \in Drivers
      BY DEF Caller
    <3>1. Len(stack[t]) \in Nat \ {0}
      BY <1>5, TopOfStack DEF CircularDependency
    <3>2. i \in 1..Len(stack[t])
      BY <3>1
    <3> QED
      BY <3>2, ElementOfSeq, FrameFields
  <2>3. Top(t).driver \in Drivers
    BY <1>1, <1>5 DEF CircularDependency
  <2> QED
    BY <1>5, <2>1, <2>2, <2>3 DEF CircularDependency, Return
<1>6. CASE AskFor(t)
  BY <1>6, AskForStack DEF AskFor
<1>7. CASE Construct(t)
  <2>1. stack' \in [Callers -> Seq(Frames)] /\ Top(t).driver \in Drivers
    BY <1>1, <1>7, GoOnStack DEF Construct, Points, GoOn
  <2>2. instances' \in [Drivers -> Nat] /\ container' \in [Drivers -> {"absent", "starting", "started"}]
    BY <1>7, <2>1, SMTT(60) DEF Construct
  <2>3. UNCHANGED <<is_started, device_list, null_refs, mutex, exit_all, pc, cmd, object>>
    BY <1>7 DEF Construct
  <2> QED
    BY <2>1, <2>2, <2>3
<1>8. CASE Publish(t)
  <2>1. PICK from, to \in Points : GoOn(t, from, to)
    BY <1>8 DEF Publish, Points
  <2>2. stack' \in [Callers -> Seq(Frames)] /\ Top(t).driver \in Drivers
    BY <1>1, <2>1, GoOnStack DEF GoOn
  <2>3. device_list' \in [Drivers -> Nat]
    <3>1. \/ device_list' = [device_list EXCEPT ![Top(t).driver] = @ + 1]
          \/ device_list' = device_list
      BY <1>8, Zenon DEF Publish
    <3>2. device_list \in [Drivers -> Nat]
      OBVIOUS
    <3> HIDE DEF TypeOK
    <3> QED
      BY <2>2, <3>1, <3>2
  <2>4. is_started' \in [Drivers -> BOOLEAN]
    BY <1>8, <2>2 DEF Publish
  <2>5. UNCHANGED <<container, instances, null_refs, mutex, exit_all, pc, cmd, object>>
    BY <1>8 DEF Publish
  <2> QED
    BY <2>2, <2>3, <2>4, <2>5
<1>9. CASE Published(t)
  BY <1>9, ReturnStack DEF Published, Return
<1> QED
  BY <1>2, <1>3, <1>4, <1>5, <1>6, <1>7, <1>8, <1>9 DEF AllocDriver

-----------------------------------------------------------------------------
(* The stacks.  Only the innermost call is anywhere but in a constructor,   *)
(* and only the owner of the mutex is past the lock.                        *)

LEMMA OwnerOfFrame ==
  ASSUME stack \in [Callers -> Seq(Frames)], StackInv, NEW t \in Callers,
         NEW i \in 1..Len(stack[t])
  PROVE  /\ Len(stack[t]) \in Nat \ {0} /\ stack[t] # <<>> /\ stack[t][i] \in Frames
         /\ stack[t][i].at # "lock" => mutex = t
         /\ Len(stack[t]) # 1 => mutex = t
         /\ stack[t][i].at # "construct" => i = Len(stack[t])
<1>1. Len(stack[t]) \in Nat \ {0} /\ stack[t] # <<>> /\ stack[t][i] \in Frames
  BY LenProperties, EmptySeq, ElementOfSeq
<1>2. \A j \in 1..Len(stack[t]) - 1 : stack[t][j].at = "construct"
  BY DEF StackInv, Waits
<1>3. mutex = t <=> stack[t][1].at # "lock"
  BY <1>1 DEF StackInv
<1>4. "construct" # "lock"
  OBVIOUS
<1> QED
  BY <1>1, <1>2, <1>3, <1>4, Positions, Zenon

\* What a step of t leaves of the stacks of the others.
LEMMA OtherStacks ==
  ASSUME stack \in [Callers -> Seq(Frames)], StackInv, NEW t \in Callers,
         NEW u \in Callers, u # t, mutex \in {t, NoThread}, mutex' \in {t, NoThread},
         stack'[u] = stack[u], UNCHANGED <<pc, cmd>>
  PROVE  /\ mutex' = u <=> stack'[u] # <<>> /\ stack'[u][1].at # "lock"
         /\ stack'[u] # <<>> => pc'[u] = "alloc" /\ stack'[u][1].driver = cmd'[u]
         /\ \A i \in 1..Len(stack'[u]) : stack'[u][i].asked <= Len(Needs[stack'[u][i].driver])
         /\ \A i \in 1..Len(stack'[u]) - 1 : Waits(u, i)'
<1>1. mutex # u /\ mutex' # u
  BY DriversAssumption DEF Callers
<1>2. pc' = pc /\ cmd' = cmd
  OBVIOUS
<1>3. \A i : Waits(u, i)' <=> Waits(u, i)
  BY DEF Waits
<1> QED
  BY <1>1, <1>2, <1>3, Zenon DEF StackInv

LEMMA GoOnStackInv ==
  ASSUME stack \in [Callers -> Seq(Frames)], StackInv, NEW t \in Callers,
         NEW from, NEW to \in Points, to # "lock", GoOn(t, from, to),
         mutex \in {t, NoThread}, mutex' = t, UNCHANGED <<pc, cmd>>
  PROVE  StackInv'
<1> DEFINE n == Len(stack[t])
<1>1. n \in Nat \ {0} /\ stack[t] # <<>> /\ Top(t) = stack[t][n] /\ Top(t) \in Frames
  BY TopOfStack DEF Top, GoOn
<1>2. /\ stack' \in [Callers -> Seq(Frames)] /\ Len(stack'[t]) = n
      /\ \A i \in 1..n - 1 : stack'[t][i] = stack[t][i]
      /\ stack'[t][n] = [Top(t) EXCEPT !.at = to]
      /\ \A u \in Callers \ {t} : stack'[u] = stack[u]
  BY GoOnStack
<1>3. /\ stack'[t][n].driver = stack[t][n].driver /\ stack'[t][n].asked = stack[t][n].asked
      /\ stack'[t][n].at = to
  BY <1>1, <1>2 DEF Frames
<1>4. stack'[t] # <<>>
  BY <1>1, <1>2, EmptySeq
<1>5. \A i \in 1..n : i = n \/ i \in 1..n - 1
  BY <1>1
<1>6. \A i \in 1..n - 1 : i + 1 \in 1..n /\ i \in 1..n
  BY <1>1
<1>7. 1 \in 1..n
  BY <1>1
<1> HIDE DEF n
<1>8. /\ \A i \in 1..n - 1 : Waits(t, i)
      /\ \A i \in 1..n : stack[t][i].asked <= Len(Needs[stack[t][i].driver])
      /\ pc[t] = "alloc" /\ stack[t][1].driver = cmd[t]
  BY <1>1, Zenon DEF StackInv, n
<1>9. \A i \in 1..n : /\ stack'[t][i].driver = stack[t][i].driver
                      /\ stack'[t][i].asked = stack[t][i].asked
  BY <1>2, <1>3, <1>5, Zenon
<1>10. stack'[t][1].at # "lock"
  <2>1. "construct" # "lock"
    OBVIOUS
  <2> QED
    BY <1>2, <1>3, <1>5, <1>7, <1>8, <2>1, Zenon DEF Waits
<1>11. \A i \in 1..n - 1 : Waits(t, i)'
  BY <1>2, <1>6, <1>8, <1>9, ZenonT(60) DEF Waits
<1>12. \A i \in 1..n : stack'[t][i].asked <= Len(Needs[stack'[t][i].driver])
  BY <1>8, <1>9, Zenon
<1>13. pc'[t] = "alloc" /\ stack'[t][1].driver = cmd'[t]
  BY <1>7, <1>8, <1>9, Zenon
<1>14. mutex' \in {t, NoThread}
  OBVIOUS
<1> QED
  BY <1>2, <1>4, <1>10, <1>11, <1>12, <1>13, <1>14, OtherStacks, ZenonT(60) DEF StackInv, n

LEMMA ReturnStackInv ==
  ASSUME stack \in [Callers -> Seq(Frames)], StackInv, NEW t \in Callers,
         stack[t] # <<>>, mutex = t, Return(t), UNCHANGED <<pc, cmd>>
  PROVE  StackInv' /\ mutex' \in {t, NoThread}
<1> DEFINE n == Len(stack[t])
<1>1. n \in Nat \ {0}
  BY TopOfStack
<1>2. /\ stack' \in [Callers -> Seq(Frames)] /\ Len(stack'[t]) = n - 1
      /\ \A i \in 1..n - 1 : stack'[t][i] = stack[t][i]
      /\ \A u \in Callers \ {t} : stack'[u] = stack[u]
  BY ReturnStack
<1>3. mutex' = IF n = 1 THEN NoThread ELSE t
  BY DEF Return
<1>4. t # NoThread
  BY DriversAssumption DEF Callers
<1>5. \A i \in 1..n - 1 : i \in 1..n
  BY <1>1
<1>6. \A i \in 1..(n - 1) - 1 : i + 1 \in 1..n - 1 /\ i \in 1..n - 1
  BY <1>1
<1>7. /\ n # 1 => 1 \in 1..n - 1
      /\ stack'[t] # <<>> <=> n # 1
  BY <1>1, <1>2, EmptySeq
<1> HIDE DEF n
<1>8. /\ \A i \in 1..n - 1 : Waits(t, i)
      /\ \A i \in 1..n : stack[t][i].asked <= Len(Needs[stack[t][i].driver])
      /\ pc[t] = "alloc" /\ stack[t][1].driver = cmd[t] /\ stack[t][1].at # "lock"
  BY Zenon DEF StackInv, n
<1>9. mutex' = t <=> stack'[t] # <<>> /\ stack'[t][1].at # "lock"
  BY <1>2, <1>3, <1>4, <1>7, <1>8, Zenon
<1>10. \A i \in 1..(n - 1) - 1 : Waits(t, i)'
  BY <1>2, <1>6, <1>8, Zenon DEF Waits
<1>11. \A i \in 1..n - 1 : stack'[t][i].asked <= Len(Needs[stack'[t][i].driver])
  BY <1>2, <1>5, <1>8, Zenon
<1>12. stack'[t] # <<>> => pc'[t] = "alloc" /\ stack'[t][1].driver = cmd'[t]
  BY <1>2, <1>7, <1>8, Zenon
<1>13. mutex' \in {t, NoThread}
  BY <1>3
<1> QED
  BY <1>2, <1>9, <1>10, <1>11, <1>12, <1>13, OtherStacks, Zenon DEF StackInv, n

-----------------------------------------------------------------------------
(* The drivers.  Steps that leave the flags alone come first.               *)

Flags == <<is_started, device_list, container, instances>>

DriversInv == TypeOK /\ StackInv /\ FramesInv /\ OneConstructor /\ PublishedInv

\* What is known of the innermost call of the owner.
LEMMA TopFacts ==
  ASSUME DriversInv, NEW t \in Callers, stack[t] # <<>>
  PROVE  /\ Len(stack[t]) \in Nat \ {0} /\ Top(t) = stack[t][Len(stack[t])]
         /\ Top(t) \in Frames /\ Top(t).driver \in Drivers /\ t # NoThread
         /\ Top(t).at # "lock" => mutex = t
         /\ Len(stack[t]) # 1 => mutex = t
         /\ FrameInv(t, Len(stack[t]))
         /\ \A i \in 1..Len(stack[t]) - 1 : stack[t][i].at = "construct"
         /\ \A u \in Callers : \A i \in 1..Len(stack[u]) :
               stack[u][i].at # "lock" => mutex = u
<1>1. stack \in [Callers -> Seq(Frames)] /\ StackInv
  BY DEF DriversInv, TypeOK
<1>2. /\ Len(stack[t]) \in Nat \ {0} /\ Top(t) = stack[t][Len(stack[t])]
      /\ Top(t) \in Frames /\ Top(t).driver \in Drivers
  BY <1>1, TopOfStack, FrameFields DEF Top
<1>3. Len(stack[t]) \in 1..Len(stack[t])
  BY <1>2
<1>4. FrameInv(t, Len(stack[t]))
  BY <1>3 DEF DriversInv, FramesInv
<1>5. t # NoThread
  BY DriversAssumption DEF Callers
<1>6. \A i \in 1..Len(stack[t]) - 1 : stack[t][i].at = "construct"
  BY <1>1 DEF StackInv, Waits
<1>7. \A u \in Callers : \A i \in 1..Len(stack[u]) :
         /\ stack[u][i].at # "lock" => mutex = u
         /\ Len(stack[u]) # 1 => mutex = u
  BY <1>1, OwnerOfFrame
<1> QED
  BY <1>2, <1>3, <1>4, <1>5, <1>6, <1>7, Zenon

\* A call that stays where it is, with the flags of its driver as they are.
LEMMA SameFrame ==
  ASSUME NEW u, NEW i, stack'[u][i] = stack[u][i],
         LET d == stack[u][i].driver
         IN  is_started'[d] = is_started[d] /\ device_list'[d] = device_list[d]
             /\ container'[d] = container[d]
  PROVE  FrameInv(u, i)' <=> FrameInv(u, i)
<1> DEFINE d == stack[u][i].driver
<1>1. stack'[u][i].driver = d /\ stack'[u][i].at = stack[u][i].at
  OBVIOUS
<1> HIDE DEF d
<1>2. is_started'[d] = is_started[d] /\ device_list'[d] = device_list[d]
      /\ container'[d] = container[d]
  BY DEF d
<1> QED
  BY <1>1, <1>2 DEF FrameInv, d

\* No constructor is entered.
LEMMA SameConstructors ==
  ASSUME OneConstructor, NEW t \in Callers,
         \A u \in Callers \ {t} : stack'[u] = stack[u],
         \A i \in 1..Len(stack'[t]) : stack'[t][i].at = "construct" =>
            /\ i \in 1..Len(stack[t]) /\ stack[t][i].at = "construct"
            /\ stack'[t][i].driver = stack[t][i].driver
  PROVE  OneConstructor'
<1> SUFFICES ASSUME NEW u \in Callers, NEW i \in 1..Len(stack'[u]), NEW j \in 1..Len(stack'[u]),
                    i # j, stack'[u][i].at = "construct", stack'[u][j].at = "construct"
             PROVE  stack'[u][i].driver # stack'[u][j].driver
  BY Zenon DEF OneConstructor
<1>1. CASE u = t
  <2>1. /\ i \in 1..Len(stack[t]) /\ stack[t][i].at = "construct"
        /\ stack'[t][i].driver = stack[t][i].driver
    BY <1>1, Zenon
  <2>2. /\ j \in 1..Len(stack[t]) /\ stack[t][j].at = "construct"
        /\ stack'[t][j].driver = stack[t][j].driver
    BY <1>1, Zenon
  <2>3. stack[t][i].driver # stack[t][j].driver
    BY <2>1, <2>2, Zenon DEF OneConstructor
  <2> QED
    BY <1>1, <2>1, <2>2, <2>3, Zenon
<1>2. CASE u # t
  <2>1. stack'[u] = stack[u]
    BY <1>2
  <2>2. /\ i \in 1..Len(stack[u]) /\ stack[u][i].at = "construct"
        /\ j \in 1..Len(stack[u]) /\ stack[u][j].at = "construct"
    BY <2>1
  <2>3. stack[u][i].driver # stack[u][j].driver
    BY <2>2, Zenon DEF OneConstructor
  <2> QED
    BY <2>1, <2>3
<1> QED
  BY <1>1, <1>2

Quiet == {"lock", "started?", "alloc"}

LEMMA QuietGoOn ==
  ASSUME DriversInv, NEW t \in Callers, NEW from \in Quiet, NEW to \in Quiet \ {"lock"},
         GoOn(t, from, to), to = "alloc" => ~is_started[Top(t).driver],
         mutex \in {t, NoThread}, mutex' = t, UNCHANGED Flags
  PROVE  FramesInv' /\ OneConstructor' /\ PublishedInv'
<1>0. PICK n : n = Len(stack[t])
  OBVIOUS
<1>1. stack[t] # <<>> /\ to \in Points /\ stack \in [Callers -> Seq(Frames)]
  BY DEF GoOn, Quiet, Points, DriversInv, TypeOK
<1>2. /\ n \in Nat \ {0} /\ Top(t) = stack[t][n] /\ Top(t) \in Frames /\ t # NoThread
  BY <1>0, <1>1, TopFacts
<1>3. /\ Top(t).at = from /\ Len(stack'[t]) = n
      /\ \A i \in 1..n - 1 : stack'[t][i] = stack[t][i]
      /\ stack'[t][n] = [Top(t) EXCEPT !.at = to]
      /\ \A u \in Callers \ {t} : stack'[u] = stack[u]
  BY <1>0, <1>1, GoOnStack
<1>4. stack'[t][n].driver = stack[t][n].driver /\ stack'[t][n].at = to
  BY <1>2, <1>3 DEF Frames
<1>5. /\ is_started' = is_started /\ device_list' = device_list
      /\ container' = container /\ instances' = instances
  BY DEF Flags
<1>6. \A u \in Callers : \A i \in 1..Len(stack[u]) : FrameInv(u, i)
  BY DEF DriversInv, FramesInv
<1>7. FramesInv'
  <2>1. \A i \in 1..n - 1 : FrameInv(t, i)'
    BY <1>0, <1>2, <1>3, <1>5, <1>6, SameFrame, Positions, Zenon
  <2>2. FrameInv(t, n)'
    <3>1. to # "construct" /\ to \notin Publishing
      BY DEF Quiet, Publishing
    <3>2. to = "alloc" => ~is_started'[stack'[t][n].driver]
      BY <1>2, <1>4, <1>5
    <3> QED
      BY <1>4, <3>1, <3>2 DEF FrameInv
  <2>3. \A u \in Callers \ {t} : Len(stack'[u]) = Len(stack[u])
                                  /\ \A i \in 1..Len(stack[u]) : FrameInv(u, i)'
    BY <1>3, <1>5, <1>6, SameFrame, Zenon
  <2>4. \A i \in 1..Len(stack'[t]) : FrameInv(t, i)'
    BY <1>2, <1>3, <2>1, <2>2, Positions, Zenon
  <2> QED
    BY <2>3, <2>4, Zenon DEF FramesInv
<1>8. from # "construct" /\ to # "construct" /\ from \notin Publishing
  BY DEF Quiet, Publishing
<1>9. OneConstructor'
  <2>1. \A i \in 1..n : stack'[t][i].at = "construct" =>
           stack[t][i].at = "construct" /\ stack'[t][i].driver = stack[t][i].driver
    BY <1>2, <1>3, <1>4, <1>8, Positions, Zenon
  <2>2. OneConstructor
    BY DEF DriversInv
  <2> QED
    BY <1>0, <1>3, <2>1, <2>2, SameConstructors, Zenon
<1>10. ASSUME NEW d \in Drivers, container[d] = "started"
       PROVE  is_started[d] /\ device_list[d] = 1
  <2>1. ~BeingPublished(d)
    BY <1>3, <1>8 DEF BeingPublished
  <2> QED
    BY <1>10, <2>1 DEF DriversInv, PublishedInv, DriverStateInv
<1>11. ASSUME NEW d \in Drivers, container[d] = "starting"
       PROVE  BeingConstructed(d)'
  <2>1. BeingConstructed(d)
    BY <1>11 DEF DriversInv, PublishedInv, DriverStateInv
  <2>2. mutex = t
    BY <2>1 DEF BeingConstructed
  <2>3. PICK i \in 1..n : stack[t][i].driver = d /\ stack[t][i].at = "construct"
    BY <1>0, <2>1, <2>2 DEF BeingConstructed
  <2>4. i \in 1..n - 1
    BY <1>2, <1>3, <1>8, <2>3, Positions
  <2> QED
    BY <1>2, <1>3, <2>3, <2>4 DEF BeingConstructed
<1>12. PublishedInv'
  BY <1>5, <1>10, <1>11, Zenon DEF PublishedInv, DriverStateInv, DriversInv
<1> QED
  BY <1>7, <1>9, <1>12

-----------------------------------------------------------------------------
(* Steps of the owner of the mutex: nobody else is past the lock, and the   *)
(* calls below the innermost one are in constructors.                       *)

LEMMA OwnerFrames ==
  ASSUME DriversInv, NEW t \in Callers, mutex = t, stack[t] # <<>>,
         NEW n, n = Len(stack[t]),
         \A u \in Callers \ {t} : stack'[u] = stack[u],
         \A i \in 1..n - 1 : /\ stack'[t][i] = stack[t][i]
                             /\ container'[stack[t][i].driver] = "starting",
         \A i \in 1..Len(stack'[t]) : i \in 1..n - 1 \/ FrameInv(t, i)'
  PROVE  FramesInv'
<1>1. ASSUME NEW i \in 1..n - 1 PROVE FrameInv(t, i)'
  <2>1. stack[t][i].at = "construct"
    BY TopFacts
  <2>2. stack'[t][i].at = "construct" /\ container'[stack'[t][i].driver] = "starting"
    BY <2>1
  <2> QED
    BY <2>2 DEF FrameInv, Publishing
<1>2. ASSUME NEW u \in Callers, u # t, NEW i \in 1..Len(stack'[u]) PROVE FrameInv(u, i)'
  <2>1. stack'[u] = stack[u]
    BY <1>2
  <2>2. stack'[u][i].at = "lock"
    BY <1>2, <2>1, TopFacts
  <2> QED
    BY <2>2 DEF FrameInv, Publishing
<1> QED
  BY <1>1, <1>2, Zenon DEF FramesInv

\* The drivers under construction, below the innermost call.
LEMMA BelowTop ==
  ASSUME DriversInv, NEW t \in Callers, mutex = t, stack[t] # <<>>
  PROVE  \A i \in 1..Len(stack[t]) - 1 :
            stack[t][i].at = "construct" /\ container[stack[t][i].driver] = "starting"
<1>1. Len(stack[t]) \in Nat \ {0} /\ \A i \in 1..Len(stack[t]) - 1 : stack[t][i].at = "construct"
  BY TopFacts
<1>2. \A i \in 1..Len(stack[t]) - 1 : FrameInv(t, i)
  BY <1>1, Positions, Zenon DEF DriversInv, FramesInv
<1> QED
  BY <1>1, <1>2, Zenon DEF FrameInv

LEMMA QuietReturn ==
  ASSUME DriversInv, NEW t \in Callers, mutex = t, stack[t] # <<>>, Return(t),
         Top(t).at \in {"started?", "alloc", "both"}, UNCHANGED Flags
  PROVE  FramesInv' /\ OneConstructor' /\ PublishedInv'
<1>0. PICK n : n = Len(stack[t])
  OBVIOUS
<1>1. stack \in [Callers -> Seq(Frames)]
  BY DEF DriversInv, TypeOK
<1>2. n \in Nat \ {0} /\ Top(t) = stack[t][n] /\ t # NoThread /\ FrameInv(t, n)
  BY <1>0, TopFacts
<1>3. /\ Len(stack'[t]) = n - 1
      /\ \A i \in 1..n - 1 : stack'[t][i] = stack[t][i]
      /\ \A u \in Callers \ {t} : stack'[u] = stack[u]
  BY <1>0, <1>1, ReturnStack
<1>4. /\ is_started' = is_started /\ device_list' = device_list
      /\ container' = container /\ instances' = instances
  BY DEF Flags
<1>5. \A i \in 1..n - 1 : stack[t][i].at = "construct" /\ container[stack[t][i].driver] = "starting"
  BY <1>0, BelowTop
<1>6. FramesInv'
  BY <1>0, <1>3, <1>4, <1>5, OwnerFrames, Zenon
<1>7. OneConstructor'
  <2>1. OneConstructor
    BY DEF DriversInv
  <2>2. \A i \in 1..n - 1 : i \in 1..n
    BY <1>2, Positions
  <2> QED
    BY <1>0, <1>3, <2>1, <2>2, SameConstructors, Zenon
<1>8. ASSUME NEW d \in Drivers, container[d] = "started"
      PROVE  is_started[d] /\ device_list[d] = 1
  <2>1. CASE BeingPublished(d)
    <3>1. Top(t).driver = d /\ Top(t).at = "both"
      BY <2>1 DEF BeingPublished, Publishing
    <3> QED
      BY <1>2, <3>1 DEF FrameInv, Publishing
  <2> QED
    BY <1>8, <2>1 DEF DriversInv, PublishedInv, DriverStateInv
<1>9. ASSUME NEW d \in Drivers, container[d] = "starting"
      PROVE  BeingConstructed(d)'
  <2>1. BeingConstructed(d)
    BY <1>9 DEF DriversInv, PublishedInv, DriverStateInv
  <2>2. PICK i \in 1..n : stack[t][i].driver = d /\ stack[t][i].at = "construct"
    BY <1>0, <2>1 DEF BeingConstructed
  <2>3. i \in 1..n - 1
    BY <1>2, <2>2, Positions
  <2>4. mutex' = t
    BY <1>0, <1>2, <2>3 DEF Return
  <2> QED
    BY <1>2, <1>3, <2>2, <2>3, <2>4 DEF BeingConstructed
<1>10. PublishedInv'
  BY <1>4, <1>8, <1>9, Zenon DEF PublishedInv, DriverStateInv, DriversInv
<1> QED
  BY <1>6, <1>7, <1>10

\* AskFor: the constructor has asked for one more driver, and waits for it
\* if it is not started.
LEMMA AskForInv ==
  ASSUME DriversInv, NEW t \in Callers, AskFor(t)
  PROVE  StackInv' /\ FramesInv' /\ OneConstructor' /\ PublishedInv'
<1>0. PICK n : n = Len(stack[t])
  OBVIOUS
<1>1. PICK d : d = Needs[Top(t).driver][Top(t).asked + 1]
  OBVIOUS
<1>2. stack[t] # <<>> /\ stack \in [Callers -> Seq(Frames)] /\ Top(t).at = "construct"
  BY DEF AskFor, DriversInv, TypeOK
<1>3. /\ n \in Nat \ {0} /\ Top(t) = stack[t][n] /\ Top(t) \in Frames
      /\ t # NoThread /\ mutex = t /\ FrameInv(t, n)
  BY <1>0, <1>2, TopFacts
<1>4. /\ Top(t).asked + 1 \in 1..Len(Needs[Top(t).driver])
      /\ \A i \in 1..n - 1 : stack'[t][i] = stack[t][i]
      /\ stack'[t][n] = [Top(t) EXCEPT !.asked = @ + 1]
      /\ \A u \in Callers \ {t} : stack'[u] = stack[u]
  BY <1>0, <1>2, AskForStack, Zenon
<1>5. Len(stack'[t]) = n \/ (Len(stack'[t]) = n + 1 /\ stack'[t][n + 1] = Frame(d))
  BY <1>0, <1>1, <1>2, AskForStack
<1>6. /\ stack'[t][n].driver = stack[t][n].driver /\ stack'[t][n].at = "construct"
      /\ stack'[t][n].asked = stack[t][n].asked + 1
  BY <1>2, <1>3, <1>4 DEF Frames
<1>7. Frame(d).driver = d /\ Frame(d).at = "lock" /\ Frame(d).asked = 0
  BY DEF Frame
<1>8. UNCHANGED <<is_started, device_list, container, instances, mutex, pc, cmd>>
  BY DEF AskFor
<1>9. PICK m : m = Len(stack'[t])
  OBVIOUS
<1>10. m \in Nat \ {0} /\ (m = n \/ m = n + 1)
  BY <1>3, <1>5, <1>9
<1>11. \A i \in 1..m : i \in 1..n - 1 \/ i = n \/ (i = n + 1 /\ m = n + 1)
  BY <1>3, <1>10
<1>12. \A i \in 1..n - 1 : i \in 1..m /\ i \in 1..n /\ i + 1 \in 1..n
  BY <1>3, <1>10
<1>13. m = n + 1 => /\ stack'[t][n + 1].driver = d /\ stack'[t][n + 1].at = "lock"
                    /\ stack'[t][n + 1].asked = 0
  BY <1>3, <1>5, <1>7, <1>9
<1>14. \A i \in 1..n : stack'[t][i].driver = stack[t][i].driver /\ stack'[t][i].at = stack[t][i].at
  BY <1>2, <1>3, <1>4, <1>6, Positions, Zenon
<1>15. StackInv'
  <2>1. /\ \A i \in 1..n - 1 : Waits(t, i)
        /\ \A i \in 1..n : stack[t][i].asked <= Len(Needs[stack[t][i].driver])
        /\ pc[t] = "alloc" /\ stack[t][1].driver = cmd[t] /\ stack[t][1].at # "lock"
    BY <1>0, <1>2, <1>3, Zenon DEF StackInv, DriversInv
  <2>2. stack'[t] # <<>>
    BY <1>9, <1>10, EmptySeq
  <2>3. /\ stack'[t][1].at # "lock" /\ pc'[t] = "alloc" /\ stack'[t][1].driver = cmd'[t]
    BY <1>3, <1>8, <1>14, <2>1, Positions
  <2>4. mutex' = t /\ mutex' \in {t, NoThread} /\ mutex \in {t, NoThread}
    BY <1>3, <1>8
  <2>5. \A i \in 1..n - 1 : Waits(t, i)'
    BY <1>4, <1>12, <1>14, <2>1, Zenon DEF Waits
  <2>6. m = n + 1 => Waits(t, n)'
    <3>1. stack'[t][n].asked > 0
      BY <1>3, <1>6, FrameFields
    <3>2. d = Needs[stack'[t][n].driver][stack'[t][n].asked]
      BY <1>1, <1>3, <1>6
    <3> QED
      BY <1>6, <1>13, <3>1, <3>2, Zenon DEF Waits
  <2>7. \A i \in 1..m - 1 : i \in 1..n - 1 \/ (i = n /\ m = n + 1)
    BY <1>3, <1>10
  <2>8. \A i \in 1..m - 1 : Waits(t, i)'
    BY <2>5, <2>6, <2>7, Zenon
  <2>9. stack'[t][n].asked <= Len(Needs[stack'[t][n].driver])
    BY <1>3, <1>4, <1>6
  <2>10. m = n + 1 => stack'[t][n + 1].asked <= Len(Needs[stack'[t][n + 1].driver])
    <3>1. d \in Drivers
      BY <1>0, <1>1, <1>2, AskForStack
    <3>2. Len(Needs[d]) \in Nat
      BY <3>1, DriversAssumption, LenProperties
    <3> QED
      BY <1>13, <3>2
  <2>11. \A i \in 1..m : stack'[t][i].asked <= Len(Needs[stack'[t][i].driver])
    BY <1>4, <1>11, <1>12, <2>1, <2>9, <2>10, Zenon
  <2>12. StackInv /\ UNCHANGED <<pc, cmd>>
    BY <1>8 DEF DriversInv
  <2> QED
    BY <1>2, <1>4, <1>9, <2>2, <2>3, <2>4, <2>8, <2>11, <2>12, OtherStacks, ZenonT(60) DEF StackInv
<1>16. FramesInv'
  <2>1. \A i \in 1..n - 1 : container[stack[t][i].driver] = "starting"
    BY <1>0, <1>2, <1>3, BelowTop
  <2>2. container[stack[t][n].driver] = "starting"
    BY <1>2, <1>3 DEF FrameInv
  <2>3. FrameInv(t, n)'
    BY <1>6, <1>8, <2>2 DEF FrameInv, Publishing
  <2>4. m = n + 1 => FrameInv(t, n + 1)'
    BY <1>13 DEF FrameInv, Publishing
  <2>5. container' = container
    BY <1>8
  <2>6. \A i \in 1..Len(stack'[t]) : i \in 1..n - 1 \/ FrameInv(t, i)'
    BY <1>9, <1>11, <2>3, <2>4, Zenon
  <2> QED
    BY <1>0, <1>2, <1>3, <1>4, <2>1, <2>5, <2>6, OwnerFrames, Zenon
<1>17. OneConstructor'
  <2>1. OneConstructor /\ "lock" # "construct"
    BY DEF DriversInv
  <2>2. n \in 1..n
    BY <1>3
  <2>3. \A i \in 1..m : stack'[t][i].at = "construct" => i \in 1..n
    BY <1>11, <1>12, <1>13, <2>1, <2>2, Zenon
  <2> QED
    BY <1>0, <1>4, <1>9, <1>14, <2>1, <2>3, SameConstructors, Zenon
<1>18. PublishedInv'
  <2>1. ASSUME NEW d1 \in Drivers, container[d1] = "started"
        PROVE  is_started[d1] /\ device_list[d1] = 1
    <3>1. ~BeingPublished(d1)
      BY <1>2, <1>3 DEF BeingPublished, Publishing
    <3> QED
      BY <2>1, <3>1 DEF DriversInv, PublishedInv, DriverStateInv
  <2>2. ASSUME NEW d1 \in Drivers, container[d1] = "starting"
        PROVE  BeingConstructed(d1)'
    <3>1. BeingConstructed(d1)
      BY <2>2 DEF DriversInv, PublishedInv, DriverStateInv
    <3>2. PICK i \in 1..n : stack[t][i].driver = d1 /\ stack[t][i].at = "construct"
      BY <1>0, <1>3, <3>1 DEF BeingConstructed
    <3>3. i \in 1..Len(stack'[t])
      BY <1>3, <1>9, <1>10
    <3>4. mutex' = t
      BY <1>3, <1>8
    <3> QED
      BY <1>3, <1>14, <3>2, <3>3, <3>4 DEF BeingConstructed
  <2>3. /\ is_started' = is_started /\ device_list' = device_list
        /\ container' = container /\ instances' = instances
    BY <1>8
  <2> QED
    BY <2>1, <2>2, <2>3, Zenon DEF PublishedInv, DriverStateInv, DriversInv
<1> QED
  BY <1>15, <1>16, <1>17, <1>18

\* The owner steps its innermost call.
OwnerGoesOn(t, from, to) ==
    /\ from # "lock" /\ to \in Points \ {"lock"}
    /\ GoOn(t, from, to)
    /\ UNCHANGED <<mutex, pc, cmd>>

LEMMA OwnerGoOn ==
  ASSUME DriversInv, NEW t \in Callers, NEW from, NEW to, OwnerGoesOn(t, from, to), NEW n, n = Len(stack[t])
  PROVE  /\ mutex = t /\ mutex' = t /\ t # NoThread /\ stack[t] # <<>>
         /\ n \in Nat \ {0} /\ Len(stack'[t]) = n
         /\ Top(t).at = from /\ Top(t).driver \in Drivers
         /\ stack[t][n] = Top(t) /\ FrameInv(t, n)
         /\ stack'[t][n].driver = Top(t).driver /\ stack'[t][n].at = to
         /\ \A i \in 1..n - 1 : /\ stack'[t][i] = stack[t][i]
                                /\ stack[t][i].at = "construct"
                                /\ container[stack[t][i].driver] = "starting"
         /\ \A u \in Callers \ {t} : stack'[u] = stack[u]
         /\ StackInv'
<1>0. /\ from # "lock" /\ to \in Points \ {"lock"} /\ GoOn(t, from, to)
      /\ UNCHANGED <<mutex, pc, cmd>>
  BY DEF OwnerGoesOn
<1>1. stack[t] # <<>> /\ stack \in [Callers -> Seq(Frames)] /\ StackInv
  BY <1>0 DEF GoOn, DriversInv, TypeOK
<1>2. /\ Top(t).at = from /\ Len(stack'[t]) = n
      /\ \A i \in 1..n - 1 : stack'[t][i] = stack[t][i]
      /\ stack'[t][n] = [Top(t) EXCEPT !.at = to]
      /\ \A u \in Callers \ {t} : stack'[u] = stack[u]
  BY <1>0, <1>1, GoOnStack
<1>3. /\ n \in Nat \ {0} /\ Top(t) = stack[t][n] /\ Top(t) \in Frames /\ Top(t).driver \in Drivers
      /\ t # NoThread /\ FrameInv(t, n) /\ mutex = t
  BY <1>0, <1>1, <1>2, TopFacts
<1>4. stack'[t][n].driver = Top(t).driver /\ stack'[t][n].at = to
  BY <1>2, <1>3 DEF Frames
<1>5. \A i \in 1..n - 1 : stack[t][i].at = "construct" /\ container[stack[t][i].driver] = "starting"
  BY <1>1, <1>3, BelowTop
<1>6. mutex' = t
  BY <1>0, <1>3
<1>7. StackInv'
  BY <1>0, <1>1, <1>3, <1>6, GoOnStackInv
<1> QED
  BY <1>1, <1>2, <1>3, <1>4, <1>5, <1>6, <1>7

\* Only the driver of the innermost call is affected.
LEMMA OwnerDrivers ==
  ASSUME DriversInv, NEW t \in Callers, NEW from, NEW to, OwnerGoesOn(t, from, to)
  PROVE  /\ \A d : BeingPublished(d) <=> d = Top(t).driver /\ from \in Publishing
         /\ \A d : BeingPublished(d)' <=> d = Top(t).driver /\ to \in Publishing
         /\ \A d : d # Top(t).driver /\ BeingConstructed(d) => BeingConstructed(d)'
         /\ \A d : d = Top(t).driver /\ to = "construct" => BeingConstructed(d)'
<1>0. PICK n : n = Len(stack[t])
  OBVIOUS
<1>1. /\ mutex = t /\ mutex' = t /\ t # NoThread
      /\ n \in Nat \ {0} /\ Len(stack'[t]) = n /\ Top(t).at = from /\ stack[t][n] = Top(t)
      /\ stack'[t][n].driver = Top(t).driver /\ stack'[t][n].at = to
      /\ \A i \in 1..n - 1 : stack'[t][i] = stack[t][i]
  BY <1>0, OwnerGoOn
<1>2. Top(mutex)' = stack'[t][n]
  BY <1>1 DEF Top, Last
<1>3. \A d : BeingPublished(d) <=> d = Top(t).driver /\ from \in Publishing
  BY <1>1 DEF BeingPublished
<1>4. \A d : BeingPublished(d)' <=> d = Top(t).driver /\ to \in Publishing
  <2>1. Publishing' = Publishing
    BY DEF Publishing
  <2> QED
    BY <1>1, <1>2, <2>1 DEF BeingPublished
<1>5. n \in 1..n
  BY <1>1
<1>6. ASSUME NEW d, d # Top(t).driver, BeingConstructed(d) PROVE BeingConstructed(d)'
  <2>1. PICK i \in 1..n : stack[t][i].driver = d /\ stack[t][i].at = "construct"
    BY <1>0, <1>1, <1>6 DEF BeingConstructed
  <2>2. i \in 1..n - 1
    BY <1>1, <1>6, <2>1, Positions
  <2> QED
    BY <1>1, <2>1, <2>2 DEF BeingConstructed
<1>7. \A d : d = Top(t).driver /\ to = "construct" => BeingConstructed(d)'
  BY <1>1, <1>5 DEF BeingConstructed
<1> QED
  BY <1>3, <1>4, <1>6, <1>7

\* The invariant after such a step, from what it does to that one driver.
LEMMA OwnerStep ==
  ASSUME DriversInv, NEW t \in Callers, NEW from, NEW to, OwnerGoesOn(t, from, to), NEW n, n = Len(stack[t]),
         \A d \in Drivers \ {Top(t).driver} :
            /\ is_started'[d] = is_started[d] /\ device_list'[d] = device_list[d]
            /\ container'[d] = container[d] /\ instances'[d] = instances[d],
         \A i \in 1..n - 1 : stack[t][i].driver # Top(t).driver,
         FrameInv(t, n)', \A d : d = Top(t).driver => DriverStateInv(d)'
  PROVE  StackInv' /\ FramesInv' /\ OneConstructor' /\ PublishedInv'
<1>1. /\ mutex = t /\ stack[t] # <<>> /\ StackInv'
      /\ n \in Nat \ {0} /\ Len(stack'[t]) = n
      /\ stack'[t][n].driver = Top(t).driver
      /\ \A i \in 1..n - 1 : /\ stack'[t][i] = stack[t][i]
                             /\ stack[t][i].at = "construct"
                             /\ container[stack[t][i].driver] = "starting"
      /\ \A u \in Callers \ {t} : stack'[u] = stack[u]
  BY OwnerGoOn
<1>2. stack \in [Callers -> Seq(Frames)] /\ OneConstructor
  BY DEF DriversInv, TypeOK
<1>3. \A i \in 1..n - 1 : stack[t][i].driver \in Drivers
  BY <1>1, <1>2, Positions, ElementOfSeq, FrameFields
<1>4. FramesInv'
  <2>1. \A i \in 1..n - 1 : container'[stack[t][i].driver] = "starting"
    BY <1>1, <1>3
  <2>2. \A i \in 1..Len(stack'[t]) : i \in 1..n - 1 \/ FrameInv(t, i)'
    BY <1>1, Positions, Zenon
  <2> QED
    BY <1>1, <2>1, <2>2, OwnerFrames, ZenonT(60)
<1>5. OneConstructor'
  <2> SUFFICES ASSUME NEW u \in Callers, NEW i \in 1..Len(stack'[u]), NEW j \in 1..Len(stack'[u]),
                      i # j, stack'[u][i].at = "construct", stack'[u][j].at = "construct"
               PROVE  stack'[u][i].driver # stack'[u][j].driver
    BY Zenon DEF OneConstructor
  <2>1. CASE u # t
    <3>1. stack'[u] = stack[u]
      BY <1>1, <2>1
    <3> QED
      BY <1>2, <3>1 DEF OneConstructor
  <2>2. CASE u = t
    <3>1. i \in 1..n /\ j \in 1..n
      BY <1>1, <2>2
    <3>2. \A k \in 1..n - 1 : stack'[t][k].driver # stack'[t][n].driver
      BY <1>1
    <3>3. CASE i = n
      BY <1>1, <2>2, <3>1, <3>2, <3>3, Positions, Zenon
    <3>4. CASE j = n
      BY <1>1, <2>2, <3>1, <3>2, <3>4, Positions, Zenon
    <3>5. CASE i # n /\ j # n
      <4>1. i \in 1..n - 1 /\ j \in 1..n - 1
        BY <1>1, <3>1, <3>5, Positions, Zenon
      <4>2. /\ i \in 1..Len(stack[t]) /\ j \in 1..Len(stack[t])
            /\ stack[t][i].at = "construct" /\ stack[t][j].at = "construct"
        BY <1>1, <3>1, <4>1
      <4>3. stack[t][i].driver # stack[t][j].driver
        BY <1>2, <4>2, Zenon DEF OneConstructor
      <4> QED
        BY <1>1, <2>2, <4>1, <4>3, Zenon
    <3> QED
      BY <3>3, <3>4, <3>5
  <2> QED
    BY <2>1, <2>2
<1>6. PublishedInv'
  <2> SUFFICES ASSUME NEW d \in Drivers, d # Top(t).driver PROVE DriverStateInv(d)'
    BY Zenon DEF PublishedInv
  <2>1. /\ is_started'[d] = is_started[d] /\ device_list'[d] = device_list[d]
        /\ container'[d] = container[d] /\ instances'[d] = instances[d]
    OBVIOUS
  <2>2. DriverStateInv(d)
    BY DEF DriversInv, PublishedInv
  <2>3. ~BeingPublished(d)
    BY OwnerDrivers
  <2>4. BeingConstructed(d) => BeingConstructed(d)'
    BY OwnerDrivers
  <2> QED
    BY <2>1, <2>2, <2>3, <2>4, Zenon DEF DriverStateInv
<1> QED
  BY <1>1, <1>4, <1>5, <1>6

\* AllocInContainer: the driver was absent, so no other call constructs it.
LEMMA AllocInContainerInv ==
  ASSUME DriversInv, NEW t \in Callers, AllocInContainer(t)
  PROVE  StackInv' /\ FramesInv' /\ OneConstructor' /\ PublishedInv'
<1>0. PICK n, d0 : n = Len(stack[t]) /\ d0 = Top(t).driver
  OBVIOUS
<1>1. /\ UNCHANGED <<is_started, device_list, instances, mutex, pc, cmd>>
      /\ stack[t] # <<>> /\ Top(t).at = "alloc" /\ container[d0] # "starting"
  BY <1>0 DEF AllocInContainer, GoOn
<1>2. /\ mutex = t /\ d0 \in Drivers /\ FrameInv(t, n) /\ n \in Nat \ {0} /\ Top(t) = stack[t][n]
  BY <1>0, <1>1, TopFacts
<1>3. ~is_started[d0]
  BY <1>0, <1>1, <1>2 DEF FrameInv
<1>4. DriverStateInv(d0)
  BY <1>2 DEF DriversInv, PublishedInv
<1>5. container[d0] # "started"
  <2>1. ~BeingPublished(d0)
    BY <1>1, <1>2 DEF BeingPublished, Publishing
  <2> QED
    BY <1>3, <1>4, <2>1 DEF DriverStateInv
<1>6. OwnerGoesOn(t, "alloc", "construct")
  BY <1>0, <1>1, <1>5 DEF AllocInContainer, OwnerGoesOn, Points
<1>7. container' = [container EXCEPT ![d0] = "starting"] /\ DOMAIN container = Drivers
  BY <1>0, <1>5 DEF AllocInContainer, DriversInv, TypeOK
<1>8. /\ container'[d0] = "starting"
      /\ \A d \in Drivers \ {Top(t).driver} :
            /\ is_started'[d] = is_started[d] /\ device_list'[d] = device_list[d]
            /\ container'[d] = container[d] /\ instances'[d] = instances[d]
  BY <1>0, <1>1, <1>2, <1>7
<1>9. stack'[t][n].driver = d0 /\ stack'[t][n].at = "construct"
  BY <1>0, <1>6, OwnerGoOn
<1>10. FrameInv(t, n)'
  BY <1>8, <1>9 DEF FrameInv, Publishing
<1>11. BeingConstructed(d0)'
  BY <1>0, <1>6, OwnerDrivers
<1>12. DriverStateInv(d0)'
  <2>1. is_started' = is_started /\ device_list' = device_list /\ instances' = instances
    BY <1>1
  <2> QED
    BY <1>4, <1>5, <1>8, <1>11, <2>1 DEF DriverStateInv
<1>13. \A i \in 1..n - 1 : stack[t][i].driver # Top(t).driver
  BY <1>0, <1>1, <1>2, BelowTop
<1> QED
  BY <1>0, <1>6, <1>8, <1>10, <1>12, <1>13, OwnerStep, Zenon

\* Construct: the first and only time, and nothing of it is published yet.
LEMMA ConstructInv ==
  ASSUME DriversInv, NEW t \in Callers, Construct(t)
  PROVE  StackInv' /\ FramesInv' /\ OneConstructor' /\ PublishedInv'
<1>0. PICK n, d0 : n = Len(stack[t]) /\ d0 = Top(t).driver
  OBVIOUS
<1>1. OwnerGoesOn(t, "construct", "publish") /\ is_started' = is_started /\ device_list' = device_list
  BY DEF Construct, OwnerGoesOn, Points
<1>2. /\ d0 \in Drivers /\ FrameInv(t, n) /\ n \in Nat \ {0} /\ Top(t) = stack[t][n]
      /\ Top(t).at = "construct" /\ stack'[t][n].driver = d0 /\ stack'[t][n].at = "publish"
      /\ \A i \in 1..n - 1 : stack[t][i].at = "construct"
  BY <1>0, <1>1, OwnerGoOn
<1>3. DriverStateInv(d0) /\ container[d0] = "starting"
  BY <1>0, <1>2 DEF DriversInv, PublishedInv, FrameInv
<1>4. /\ container' = [container EXCEPT ![d0] = "started"] /\ DOMAIN container = Drivers
      /\ instances' = [instances EXCEPT ![d0] = @ + 1] /\ instances \in [Drivers -> Nat]
  BY <1>0 DEF Construct, DriversInv, TypeOK
<1>5. /\ container'[d0] = "started" /\ instances'[d0] = instances[d0] + 1
      /\ \A d \in Drivers \ {Top(t).driver} :
            /\ is_started'[d] = is_started[d] /\ device_list'[d] = device_list[d]
            /\ container'[d] = container[d] /\ instances'[d] = instances[d]
  BY <1>0, <1>1, <1>2, <1>4
<1>6. ~is_started[d0] /\ device_list[d0] = 0 /\ instances[d0] = 0
  BY <1>3 DEF DriverStateInv
<1>7. FrameInv(t, n)'
  BY <1>1, <1>2, <1>5, <1>6 DEF FrameInv, Publishing
<1>8. BeingPublished(d0)'
  BY <1>0, <1>1, OwnerDrivers DEF Publishing
<1>9. DriverStateInv(d0)'
  BY <1>1, <1>5, <1>6, <1>8 DEF DriverStateInv
<1>10. \A i \in 1..n - 1 : stack[t][i].driver # Top(t).driver
  BY <1>0, <1>2, Positions DEF DriversInv, OneConstructor
<1> QED
  BY <1>0, <1>1, <1>5, <1>7, <1>9, <1>10, OwnerStep, Zenon

\* Publish: either store first.
LEMMA PublishInv ==
  ASSUME DriversInv, NEW t \in Callers, Publish(t)
  PROVE  StackInv' /\ FramesInv' /\ OneConstructor' /\ PublishedInv'
<1>0. PICK n, d0 : n = Len(stack[t]) /\ d0 = Top(t).driver
  OBVIOUS
<1>1. PICK from, to :
         /\ GoOn(t, from, to)
         /\ \/ /\ <<from, to>> \in {<<"publish", "device">>, <<"started", "both">>}
               /\ device_list' = [device_list EXCEPT ![d0] = @ + 1]
               /\ UNCHANGED is_started
            \/ /\ <<from, to>> \in {<<"publish", "started">>, <<"device", "both">>}
               /\ is_started' = [is_started EXCEPT ![d0] = TRUE]
               /\ UNCHANGED device_list
  BY <1>0 DEF Publish
<1>2. UNCHANGED <<container, instances, mutex, pc, cmd>>
  BY DEF Publish
<1>3. from \in Publishing /\ to \in Publishing
  BY <1>1 DEF Publishing
<1>4. OwnerGoesOn(t, from, to)
  BY <1>1, <1>2, <1>3 DEF OwnerGoesOn, Points, Publishing
<1>5. /\ d0 \in Drivers /\ FrameInv(t, n) /\ n \in Nat \ {0} /\ Top(t) = stack[t][n]
      /\ mutex = t /\ stack[t] # <<>>
      /\ Top(t).at = from /\ stack'[t][n].driver = d0 /\ stack'[t][n].at = to
  BY <1>0, <1>4, OwnerGoOn
<1>6. DriverStateInv(d0) /\ container[d0] = "started"
  BY <1>0, <1>3, <1>5 DEF DriversInv, PublishedInv, FrameInv
<1>7. is_started \in [Drivers -> BOOLEAN] /\ device_list \in [Drivers -> Nat]
  BY DEF DriversInv, TypeOK
<1>8. \A d \in Drivers \ {Top(t).driver} :
         /\ is_started'[d] = is_started[d] /\ device_list'[d] = device_list[d]
         /\ container'[d] = container[d] /\ instances'[d] = instances[d]
  BY <1>0, <1>1, <1>2, <1>5, <1>7
<1>9. FrameInv(t, n)'
  <2>1. /\ device_list[d0] = IF from \in {"device", "both"} THEN 1 ELSE 0
        /\ is_started[d0] <=> from \in {"started", "both"}
    BY <1>0, <1>3, <1>5 DEF FrameInv
  <2>2. /\ device_list'[d0] = IF to \in {"device", "both"} THEN 1 ELSE 0
        /\ is_started'[d0] <=> to \in {"started", "both"}
    BY <1>1, <1>5, <1>7, <2>1
  <2>3. container'[d0] = "started" /\ to # "alloc" /\ to # "construct"
    BY <1>2, <1>3, <1>6 DEF Publishing
  <2> QED
    BY <1>5, <2>2, <2>3 DEF FrameInv
<1>10. BeingPublished(d0)'
  BY <1>0, <1>3, <1>4, OwnerDrivers
<1>11. DriverStateInv(d0)'
  BY <1>2, <1>6, <1>10 DEF DriverStateInv
<1>12. \A i \in 1..n - 1 : stack[t][i].driver # Top(t).driver
  BY <1>0, <1>5, <1>6, BelowTop
<1> QED
  BY <1>0, <1>4, <1>8, <1>9, <1>11, <1>12, OwnerStep, Zenon

\* Every step of alloc_driver keeps the stacks and the drivers in order.
LEMMA AllocDriverInv ==
  ASSUME DriversInv, NEW t \in Callers, AllocDriver(t)
  PROVE  DriversInv'
<1>1. TypeOK'
  BY AllocTypes DEF DriversInv
<1>2. stack \in [Callers -> Seq(Frames)] /\ StackInv
  BY DEF DriversInv, TypeOK
<1> SUFFICES StackInv' /\ FramesInv' /\ OneConstructor' /\ PublishedInv'
  BY <1>1 DEF DriversInv
<1>3. CASE Lock(t)
  <2>1. /\ GoOn(t, "lock", "started?") /\ mutex \in {t, NoThread} /\ mutex' = t
        /\ UNCHANGED <<pc, cmd>> /\ UNCHANGED Flags
    BY <1>3 DEF Lock, Flags
  <2>2. "lock" \in Quiet /\ "started?" \in Quiet \ {"lock"} /\ "started?" \in Points /\ "started?" # "lock"
        /\ "started?" # "alloc"
    BY DEF Quiet, Points
  <2>3. StackInv'
    BY <1>2, <2>1, <2>2, GoOnStackInv
  <2> QED
    BY <2>1, <2>2, <2>3, QuietGoOn
<1>4. CASE CheckAgain(t)
  <2>1. stack[t] # <<>> /\ Top(t).at = "started?" /\ UNCHANGED <<pc, cmd>> /\ UNCHANGED Flags
    BY <1>4 DEF CheckAgain, Flags
  <2>2. mutex = t
    BY <2>1, TopFacts
  <2>3. CASE Return(t)
    BY <1>2, <2>1, <2>2, <2>3, ReturnStackInv, QuietReturn
  <2>4. CASE ~is_started[Top(t).driver] /\ GoOn(t, "started?", "alloc") /\ UNCHANGED mutex
    <3>1. "started?" \in Quiet /\ "alloc" \in Quiet \ {"lock"} /\ "alloc" \in Points
      BY DEF Quiet, Points
    <3>2. mutex \in {t, NoThread} /\ mutex' = t
      BY <2>2, <2>4
    <3>3. StackInv'
      BY <1>2, <2>1, <2>4, <3>1, <3>2, GoOnStackInv
    <3> QED
      BY <2>1, <2>4, <3>1, <3>2, <3>3, QuietGoOn
  <2> QED
    BY <1>4, <2>3, <2>4 DEF CheckAgain
<1>5. CASE AllocInContainer(t)
  BY <1>5, AllocInContainerInv
<1>6. CASE CircularDependency(t)
  <2>1. stack[t] # <<>> /\ Top(t).at = "alloc" /\ Return(t) /\ UNCHANGED <<pc, cmd>> /\ UNCHANGED Flags
    BY <1>6 DEF CircularDependency, Flags
  <2>2. mutex = t
    BY <2>1, TopFacts
  <2> QED
    BY <1>2, <2>1, <2>2, ReturnStackInv, QuietReturn
<1>7. CASE AskFor(t)
  BY <1>7, AskForInv
<1>8. CASE Construct(t)
  BY <1>8, ConstructInv
<1>9. CASE Publish(t)
  BY <1>9, PublishInv
<1>10. CASE Published(t)
  <2>1. stack[t] # <<>> /\ Top(t).at = "both" /\ Return(t) /\ UNCHANGED <<pc, cmd>> /\ UNCHANGED Flags
    BY <1>10 DEF Published, Flags
  <2>2. mutex = t
    BY <2>1, TopFacts
  <2> QED
    BY <1>2, <2>1, <2>2, ReturnStackInv, QuietReturn
<1> QED
  BY <1>3, <1>4, <1>5, <1>6, <1>7, <1>8, <1>9, <1>10 DEF AllocDriver

-----------------------------------------------------------------------------
(* The steps of execute() and of Server::Server outside alloc_driver.       *)

LEMMA EmptyOutsideAlloc ==
  ASSUME StackInv, NEW t \in Callers, pc[t] # "alloc"
  PROVE  stack[t] = <<>>
BY DEF StackInv

LEMMA ExecuteTypes ==
  ASSUME TypeOK, CommandInv, NEW t \in Callers,
         Check(t) \/ Started(t) \/ Dispatch(t) \/ Crash(t) \/ Finish(t)
  PROVE  TypeOK'
<1> USE DEF TypeOK, Move, alloc_vars
<1>1. CASE Check(t)
  <2>1. cmd[t] \in Drivers
    BY <1>1, DriversAssumption DEF Check, CommandInv, Callers
  <2>2. <<Frame(cmd[t])>> \in Seq(Frames)
    BY <2>1 DEF Frame, Frames, Points
  <2>3. stack' \in [Callers -> Seq(Frames)]
    BY <1>1, <2>2 DEF Check
  <2>4. PICK to \in {"fetch", "alloc"} : pc' = [pc EXCEPT ![t] = to]
    BY <1>1 DEF Check
  <2>5. UNCHANGED <<is_started, device_list, container, instances, null_refs, mutex,
                    exit_all, cmd, object>>
    BY <1>1 DEF Check
  <2> QED
    BY <2>3, <2>4, <2>5
<1>2. CASE Started(t)
  BY <1>2 DEF Started
<1>3. CASE Dispatch(t)
  <2>1. cmd[t] \in Drivers
    BY <1>3 DEF Dispatch, CommandInv, Callers
  <2> QED
    BY <1>3, <2>1 DEF Dispatch
<1>4. CASE Crash(t)
  BY <1>4 DEF Crash
<1>5. CASE Finish(t)
  BY <1>5 DEF Finish
<1> QED
  BY <1>1, <1>2, <1>3, <1>4, <1>5

LEMMA OutsideAlloc ==
  ASSUME DriversInv, TypeOK', NEW t \in Callers, stack[t] = <<>>, UNCHANGED alloc_vars,
         \A u \in Callers \ {t} : pc'[u] = pc[u] /\ cmd'[u] = cmd[u]
  PROVE  DriversInv'
<1>1. /\ is_started' = is_started /\ device_list' = device_list /\ container' = container
      /\ instances' = instances /\ mutex' = mutex /\ stack' = stack
  BY DEF alloc_vars
<1>2. StackInv'
  <2>1. \A u \in Callers : \A i : Waits(u, i)' <=> Waits(u, i)
    BY <1>1 DEF Waits
  <2> QED
    BY <1>1, <2>1, Zenon DEF StackInv, DriversInv
<1>3. FramesInv'
  <2>1. \A u \in Callers : \A i : FrameInv(u, i)' <=> FrameInv(u, i)
    BY <1>1 DEF FrameInv, Publishing
  <2> QED
    BY <1>1, <2>1, Zenon DEF FramesInv, DriversInv
<1>4. OneConstructor'
  BY <1>1, ZenonT(60) DEF OneConstructor, DriversInv
<1>5. PublishedInv'
  <2>1. \A d : BeingPublished(d)' <=> BeingPublished(d)
    BY <1>1 DEF BeingPublished, Publishing, Top
  <2>2. \A d : BeingConstructed(d)' <=> BeingConstructed(d)
    BY <1>1 DEF BeingConstructed
  <2> QED
    BY <1>1, <2>1, <2>2, Zenon DEF PublishedInv, DriverStateInv, DriversInv
<1> QED
  BY <1>2, <1>3, <1>4, <1>5 DEF DriversInv

\* execute() or get() calls alloc_driver.
LEMMA CheckInv ==
  ASSUME DriversInv, CommandInv, NEW t \in Callers, Check(t)
  PROVE  DriversInv'
<1>1. /\ TypeOK /\ StackInv /\ stack \in [Callers -> Seq(Frames)]
      /\ mutex \in Callers \cup {NoThread} /\ DOMAIN pc = Callers
  BY DEF DriversInv, TypeOK
<1>2. TypeOK' /\ stack[t] = <<>> /\ pc[t] = "check"
  BY <1>1, ExecuteTypes, EmptyOutsideAlloc DEF Check
<1>3. CASE is_started[cmd[t]]
  <2>1. UNCHANGED alloc_vars /\ \A u \in Callers \ {t} : pc'[u] = pc[u] /\ cmd'[u] = cmd[u]
    BY <1>1, <1>3 DEF Check, Move, alloc_vars
  <2> QED
    BY <1>2, <2>1, OutsideAlloc
<1>4. CASE ~is_started[cmd[t]]
  <2>1. /\ stack' = [stack EXCEPT ![t] = <<Frame(cmd[t])>>] /\ pc' = [pc EXCEPT ![t] = "alloc"]
        /\ UNCHANGED <<is_started, device_list, container, instances, mutex, cmd>>
    BY <1>4 DEF Check, Move
  <2>2. \A u \in Callers \ {t} : stack'[u] = stack[u] /\ pc'[u] = pc[u]
    BY <1>1, <2>1
  <2>3. stack'[t] = <<Frame(cmd[t])>> /\ pc'[t] = "alloc"
    BY <1>1, <2>1
  <2>4. /\ Len(stack'[t]) = 1 /\ stack'[t] # <<>> /\ stack'[t][1].driver = cmd[t]
        /\ stack'[t][1].at = "lock" /\ stack'[t][1].asked = 0
    BY <2>3 DEF Frame
  <2>5. mutex # t /\ mutex' = mutex /\ cmd' = cmd
    BY <1>1, <1>2, <2>1 DEF StackInv
  <2>6. StackInv'
    <3>1. cmd[t] \in Drivers
      BY <1>2, DriversAssumption DEF CommandInv, Callers
    <3>2. stack'[t][1].asked <= Len(Needs[stack'[t][1].driver])
      BY <2>4, <3>1, DriversAssumption, LenProperties
    <3>3. \A i \in 1..Len(stack'[t]) : i = 1
      BY <2>4
    <3>4. 1..Len(stack'[t]) - 1 = {}
      BY <2>4
    <3>5. \A u \in Callers \ {t} : \A i : Waits(u, i)' <=> Waits(u, i)
      BY <2>2 DEF Waits
    <3>6. /\ mutex' = t <=> stack'[t] # <<>> /\ stack'[t][1].at # "lock"
          /\ stack'[t] # <<>> => pc'[t] = "alloc" /\ stack'[t][1].driver = cmd'[t]
          /\ \A i \in 1..Len(stack'[t]) : stack'[t][i].asked <= Len(Needs[stack'[t][i].driver])
          /\ \A i \in 1..Len(stack'[t]) - 1 : Waits(t, i)'
      BY <2>3, <2>4, <2>5, <3>2, <3>3, <3>4, Zenon
    <3>7. ASSUME NEW u \in Callers \ {t}
          PROVE  /\ mutex' = u <=> stack'[u] # <<>> /\ stack'[u][1].at # "lock"
                 /\ stack'[u] # <<>> => pc'[u] = "alloc" /\ stack'[u][1].driver = cmd'[u]
                 /\ \A i \in 1..Len(stack'[u]) :
                       stack'[u][i].asked <= Len(Needs[stack'[u][i].driver])
                 /\ \A i \in 1..Len(stack'[u]) - 1 : Waits(u, i)'
      <4>1. stack'[u] = stack[u] /\ pc'[u] = pc[u] /\ cmd'[u] = cmd[u] /\ mutex' = mutex
        BY <2>2, <2>5
      <4>2. u \in Callers
        OBVIOUS
      <4> QED
        BY <1>1, <3>5, <4>1, <4>2, Zenon DEF StackInv
    <3> QED
      BY <3>6, <3>7, Zenon DEF StackInv
  <2>7. FramesInv'
    <3>1. ASSUME NEW u \in Callers \ {t} PROVE \A i \in 1..Len(stack'[u]) : FrameInv(u, i)'
      <4>1. stack'[u] = stack[u] /\ \A i \in 1..Len(stack[u]) : FrameInv(u, i)
        BY <2>2 DEF DriversInv, FramesInv
      <4>2. \A i : FrameInv(u, i)' <=> FrameInv(u, i)
        BY <2>1, <4>1, SameFrame
      <4> QED
        BY <4>1, <4>2, Zenon
    <3>2. FrameInv(t, 1)'
      BY <2>4 DEF FrameInv, Publishing
    <3>3. \A i \in 1..Len(stack'[t]) : i = 1
      BY <2>4
    <3> QED
      BY <3>1, <3>2, <3>3, Zenon DEF FramesInv
  <2>8. OneConstructor'
    <3>1. \A i \in 1..Len(stack'[t]) : stack'[t][i].at # "construct"
      BY <2>4
    <3> QED
      BY <2>2, <3>1, SameConstructors DEF DriversInv
  <2>9. PublishedInv'
    <3>1. mutex # NoThread => stack'[mutex] = stack[mutex]
      BY <1>1, <2>2, <2>5
    <3>2. \A d : BeingPublished(d)' <=> BeingPublished(d)
      BY <2>5, <3>1 DEF BeingPublished, Publishing, Top
    <3>3. \A d : BeingConstructed(d)' <=> BeingConstructed(d)
      BY <2>5, <3>1 DEF BeingConstructed
    <3>4. /\ is_started' = is_started /\ device_list' = device_list /\ container' = container
          /\ instances' = instances
      BY <2>1
    <3> QED
      BY <3>2, <3>3, <3>4, Zenon DEF PublishedInv, DriverStateInv, DriversInv
  <2> QED
    BY <1>2, <2>6, <2>7, <2>8, <2>9 DEF DriversInv
<1> QED
  BY <1>3, <1>4

-----------------------------------------------------------------------------
(* The commands.                                                            *)

\* There is at most one Driver<> object for each driver.
LEMMA OneDevice ==
  ASSUME DriversInv, NEW d \in Drivers
  PROVE  device_list[d] \in {0, 1} /\ instances[d] \in {0, 1}
<1>1. DriverStateInv(d) /\ container[d] \in {"absent", "starting", "started"}
  BY DEF DriversInv, PublishedInv, TypeOK
<1>2. CASE BeingPublished(d)
  <2>1. mutex \in Callers /\ StackInv
    BY <1>2 DEF BeingPublished, DriversInv, TypeOK
  <2>2. stack[mutex] # <<>>
    BY <2>1 DEF StackInv
  <2>3. FrameInv(mutex, Len(stack[mutex])) /\ Top(mutex) = stack[mutex][Len(stack[mutex])]
    BY <2>1, <2>2, TopFacts
  <2> QED
    BY <1>1, <1>2, <2>3 DEF FrameInv, BeingPublished, DriverStateInv
<1>3. CASE ~BeingPublished(d)
  BY <1>1, <1>3 DEF DriverStateInv
<1> QED
  BY <1>2, <1>3

\* When the outermost call returns, its driver is published: a circular
\* dependency is found in an inner call.
LEMMA OutermostReturn ==
  ASSUME DriversInv, NEW t \in Callers, AllocDriver(t), stack'[t] = <<>>
  PROVE  device_list'[cmd[t]] = 1
<1>0. PICK n : n = Len(stack[t])
  OBVIOUS
<1>1. stack \in [Callers -> Seq(Frames)] /\ StackInv /\ stack[t] # <<>>
  BY DEF DriversInv, TypeOK, AllocDriver, Lock, CheckAgain, AllocInContainer, CircularDependency,
         AskFor, Construct, Publish, Published, GoOn
<1>2. /\ n \in Nat \ {0} /\ Top(t) = stack[t][n] /\ Top(t).driver \in Drivers
      /\ FrameInv(t, n)
      /\ Top(t).at # "lock" => mutex = t
  BY <1>0, <1>1, TopFacts
<1>3. Len(stack'[t]) = 0
  OBVIOUS
<1>4. ASSUME NEW from, NEW to \in Points, GoOn(t, from, to) PROVE FALSE
  BY <1>0, <1>1, <1>2, <1>3, <1>4, GoOnStack
<1>5. CASE Return(t) /\ Top(t).at \in {"started?", "alloc", "both"} /\ UNCHANGED Flags
           /\ (Top(t).at = "started?" => is_started[Top(t).driver])
           /\ (Top(t).at = "alloc" => container[Top(t).driver] = "starting")
  <2>1. n = 1
    BY <1>0, <1>1, <1>2, <1>3, <1>5, ReturnStack
  <2>2. Top(t).driver = cmd[t] /\ device_list' = device_list /\ mutex = t
    BY <1>0, <1>1, <1>2, <1>5, <2>1 DEF StackInv, Flags
  <2>3. DriverStateInv(cmd[t])
    BY <1>2, <2>2 DEF DriversInv, PublishedInv
  <2>4. CASE Top(t).at = "started?"
    <3>1. ~BeingPublished(cmd[t])
      BY <2>2, <2>4 DEF BeingPublished, Publishing
    <3> QED
      BY <1>5, <2>2, <2>3, <2>4, <3>1 DEF DriverStateInv
  <2>5. CASE Top(t).at = "both"
    BY <1>2, <2>2, <2>5 DEF FrameInv, Publishing
  <2>6. Top(t).at # "alloc"
    <3> SUFFICES ASSUME Top(t).at = "alloc" PROVE FALSE
      OBVIOUS
    <3>1. BeingConstructed(cmd[t])
      BY <1>5, <2>2, <2>3 DEF DriverStateInv
    <3>2. PICK i \in 1..n : stack[t][i].at = "construct"
      BY <1>0, <2>2, <3>1 DEF BeingConstructed
    <3>3. i = n
      BY <2>1
    <3> QED
      BY <1>2, <3>2, <3>3
  <2> QED
    BY <1>5, <2>4, <2>5, <2>6
<1>6. CASE Lock(t)
  BY <1>4, <1>6 DEF Lock, Points
<1>7. CASE CheckAgain(t)
  BY <1>4, <1>5, <1>7 DEF CheckAgain, Points, Flags
<1>8. CASE AllocInContainer(t)
  BY <1>4, <1>8 DEF AllocInContainer, Points
<1>9. CASE CircularDependency(t)
  BY <1>5, <1>9 DEF CircularDependency, Flags
<1>10. CASE AskFor(t)
  <2>1. Len(stack'[t]) = n \/ Len(stack'[t]) = n + 1
    BY <1>0, <1>1, <1>10, AskForStack
  <2> QED
    BY <1>2, <1>3, <2>1
<1>11. CASE Construct(t)
  BY <1>4, <1>11 DEF Construct, Points
<1>12. CASE Publish(t)
  BY <1>4, <1>12 DEF Publish, Points
<1>13. CASE Published(t)
  BY <1>5, <1>13 DEF Published, Flags
<1> QED
  BY <1>6, <1>7, <1>8, <1>9, <1>10, <1>11, <1>12, <1>13 DEF AllocDriver

\* A Driver<> object is never replaced.
LEMMA DeviceStays ==
  ASSUME DriversInv, NEW t \in Callers, AllocDriver(t), NEW d \in Drivers, device_list[d] = 1
  PROVE  device_list'[d] = 1
<1>1. device_list \in [Drivers -> Nat]
  BY DEF DriversInv, TypeOK
<1>2. CASE Publish(t) /\ device_list' # device_list
  <2>1. /\ stack[t] # <<>> /\ Top(t).at \in {"publish", "started"}
        /\ device_list' = [device_list EXCEPT ![Top(t).driver] = @ + 1]
    BY <1>2 DEF Publish, GoOn
  <2>2. FrameInv(t, Len(stack[t])) /\ Top(t) = stack[t][Len(stack[t])]
    BY <2>1, TopFacts
  <2>3. device_list[Top(t).driver] = 0
    BY <2>1, <2>2 DEF FrameInv, Publishing
  <2> QED
    BY <1>1, <2>1, <2>3
<1>3. ~Publish(t) => device_list' = device_list
  BY DEF AllocDriver, Lock, CheckAgain, AllocInContainer, CircularDependency, AskFor, Construct,
         Published
<1> QED
  BY <1>2, <1>3

LEMMA AllocOthers ==
  ASSUME stack \in [Callers -> Seq(Frames)], NEW t \in Callers, AllocDriver(t)
  PROVE  /\ \A u \in Callers \ {t} : stack'[u] = stack[u]
         /\ UNCHANGED <<pc, cmd, object>>
<1>1. UNCHANGED <<pc, cmd, object>>
  BY DEF AllocDriver, Lock, CheckAgain, AllocInContainer, CircularDependency, AskFor, Construct,
         Publish, Published
<1>2. ASSUME NEW u \in Callers \ {t} PROVE stack'[u] = stack[u]
  BY DEF AllocDriver, Lock, CheckAgain, AllocInContainer, CircularDependency, AskFor, Construct,
         Publish, Published, GoOn, Return
<1> QED
  BY <1>1, <1>2

LEMMA CommandDriver ==
  ASSUME CommandInv, NEW t \in Callers, pc[t] # "idle"
  PROVE  cmd[t] \in Drivers
BY DriversAssumption DEF CommandInv, Callers

LEMMA AllocCommandInv ==
  ASSUME DriversInv, CommandInv, NEW t \in Callers, AllocDriver(t)
  PROVE  CommandInv'
<1>1. stack \in [Callers -> Seq(Frames)]
  BY DEF DriversInv, TypeOK
<1>2. /\ pc' = pc /\ cmd' = cmd /\ object' = object
      /\ \A u \in Callers \ {t} : stack'[u] = stack[u]
  BY <1>1, AllocOthers
<1>3. ASSUME NEW u \in Callers,
             (pc[u] = "alloc" /\ stack'[u] = <<>>) \/ pc[u] \in {"started", "busy"}
      PROVE  device_list'[cmd[u]] = 1
  <2>1. CASE u = t /\ stack'[u] = <<>>
    BY <2>1, OutermostReturn
  <2>2. CASE u # t \/ stack'[u] # <<>>
    <3>1. device_list[cmd[u]] = 1
      BY <1>2, <1>3, <2>2 DEF CommandInv
    <3>2. cmd[u] \in Drivers
      BY <1>3, CommandDriver
    <3> QED
      BY <3>1, <3>2, DeviceStays
  <2> QED
    BY <2>1, <2>2
<1> QED
  BY <1>2, <1>3, Zenon DEF CommandInv

\* The other steps of a thread: it changes only its own entries.
LEMMA ExecuteCommandInv ==
  ASSUME DriversInv, CommandInv, NEW t \in Callers,
         Check(t) \/ Started(t) \/ Dispatch(t) \/ Crash(t) \/ Finish(t)
  PROVE  CommandInv'
<1>1. /\ DOMAIN pc = Callers /\ DOMAIN cmd = Callers /\ DOMAIN object = Callers
      /\ DOMAIN stack = Callers /\ pc[Main] \in {"check", "alloc", "fetch", "up"}
      /\ Main \in Callers /\ Main \notin Threads /\ Threads \subseteq Callers /\ StackInv
  BY DriversAssumption DEF DriversInv, TypeOK, Callers
<1>2. device_list' = device_list
  BY DEF Check, Started, Dispatch, Crash, Finish, alloc_vars
<1>3. ASSUME NEW u \in Callers \ {t}
      PROVE  /\ pc'[u] = pc[u] /\ cmd'[u] = cmd[u] /\ object'[u] = object[u]
             /\ stack'[u] = stack[u]
  BY <1>1 DEF Check, Started, Dispatch, Crash, Finish, alloc_vars, Move
<1>4. /\ t = Main => cmd'[t] = Common
      /\ t # Main => /\ pc'[t] # "idle" => cmd'[t] \in Drivers
                     /\ pc'[t] = "busy" => object'[t] = 1
                     /\ pc'[t] # "crashed_after_start"
      /\ (pc'[t] = "alloc" /\ stack'[t] = <<>>) \/ pc'[t] \in {"started", "busy"}
            => device_list[cmd'[t]] = 1
  <2>1. pc[t] # "idle" => cmd[t] \in Drivers
    BY CommandDriver
  <2>2. /\ pc[t] # "crashed_after_start" \/ t = Main
        /\ t = Main => cmd[t] = Common
        /\ (pc[t] = "alloc" /\ stack[t] = <<>>) \/ pc[t] \in {"started", "busy"}
              => device_list[cmd[t]] = 1
    BY DEF CommandInv, Callers
  <2>3. CASE Check(t)
    <3>1. cmd' = cmd /\ cmd[t] \in Drivers
      BY <2>1, <2>3 DEF Check
    <3>2. pc'[t] = "fetch" \/ (pc'[t] = "alloc" /\ stack'[t] # <<>>)
      BY <1>1, <2>3 DEF Check, Move
    <3> QED
      BY <2>2, <3>1, <3>2
  <2>4. CASE Started(t)
    <3>1. /\ cmd' = cmd /\ pc[t] = "alloc" /\ stack[t] = <<>> /\ cmd[t] \in Drivers
          /\ pc'[t] \in {"fetch", "started"}
      BY <1>1, <2>1, <2>4 DEF Started, Move
    <3> QED
      BY <2>2, <3>1
  <2>5. CASE Dispatch(t)
    <3>1. /\ cmd' = cmd /\ t # Main /\ cmd[t] \in Drivers /\ device_list[cmd[t]] # 0
          /\ pc'[t] = "busy" /\ object'[t] = device_list[cmd[t]]
      BY <1>1, <2>1, <2>5 DEF Dispatch
    <3>2. device_list[cmd[t]] = 1
      BY <3>1, OneDevice
    <3> QED
      BY <3>1, <3>2
  <2>6. CASE Crash(t)
    <3>1. /\ cmd' = cmd /\ t # Main /\ cmd[t] \in Drivers /\ device_list[cmd[t]] = 0
          /\ pc'[t] = IF pc[t] = "started" THEN "crashed_after_start" ELSE "crashed"
      BY <1>1, <2>1, <2>6 DEF Crash
    <3>2. pc[t] # "started"
      BY <2>2, <3>1
    <3> QED
      BY <3>1, <3>2
  <2>7. CASE Finish(t)
    <3>1. t # Main /\ pc'[t] = "idle"
      BY <1>1, <2>7 DEF Finish, Move
    <3> QED
      BY <3>1
  <2> QED
    BY <2>3, <2>4, <2>5, <2>6, <2>7
<1>5. cmd'[Main] = Common
  BY <1>1, <1>3, <1>4 DEF CommandInv
<1>6. ASSUME NEW u \in Threads
      PROVE  /\ pc'[u] # "idle" => cmd'[u] \in Drivers
             /\ pc'[u] = "busy" => object'[u] = 1
             /\ pc'[u] # "crashed_after_start"
  <2>1. u \in Callers /\ u # Main
    BY <1>1
  <2>2. CASE u = t
    BY <1>4, <2>1, <2>2, Zenon
  <2>3. CASE u # t
    BY <1>3, <2>1, <2>3 DEF CommandInv
  <2> QED
    BY <2>2, <2>3
<1>7. ASSUME NEW u \in Callers,
             (pc'[u] = "alloc" /\ stack'[u] = <<>>) \/ pc'[u] \in {"started", "busy"}
      PROVE  device_list'[cmd'[u]] = 1
  <2>1. CASE u = t
    BY <1>2, <1>4, <1>7, <2>1, Zenon
  <2>2. CASE u # t
    BY <1>2, <1>3, <1>7, <2>2 DEF CommandInv
  <2> QED
    BY <2>1, <2>2
<1> QED
  BY <1>5, <1>6, <1>7, Zenon DEF CommandInv

-----------------------------------------------------------------------------
(* The theorems.                                                            *)

LEMMA DriverInvInit == Init => DriverInv
<1> SUFFICES ASSUME Init PROVE DriverInv
  OBVIOUS
<1>1. TypeOK
  BY TypeInit
<1>2. \A t \in Callers : stack[t] = <<>> /\ mutex = NoThread /\ Len(stack[t]) = 0 /\ t # NoThread
  BY DriversAssumption DEF Init, Callers
<1>3. StackInv
  BY <1>2 DEF StackInv
<1>4. FramesInv /\ OneConstructor
  BY <1>2 DEF FramesInv, OneConstructor
<1>5. PublishedInv
  BY DEF Init, PublishedInv, DriverStateInv
<1>6. CommandInv
  BY DriversAssumption DEF Init, CommandInv, Callers
<1> QED
  BY <1>1, <1>3, <1>4, <1>5, <1>6 DEF DriverInv

LEMMA ServerStepInv ==
  ASSUME DriverInv, Boot \/ \E t \in Threads, d \in Drivers : Receive(t, d)
  PROVE  DriverInv'
<1>1. DriversInv /\ CommandInv /\ TypeOK /\ StackInv
  BY DEF DriverInv, DriversInv
<1>2. PICK t \in Callers, to \in {"check", "up"} :
         /\ pc[t] # "alloc" /\ pc' = [pc EXCEPT ![t] = to]
         /\ UNCHANGED <<alloc_vars, object>>
         /\ t = Main => cmd' = cmd
         /\ t # Main => \E d \in Drivers : cmd' = [cmd EXCEPT ![t] = d]
  BY DriversAssumption DEF Boot, Receive, Move, Callers
<1>3. exit_all' \in BOOLEAN
  BY <1>1 DEF TypeOK, Boot, Receive
<1>4. t = Main => to = "up"
  BY <1>1, <1>2, DriversAssumption DEF Boot, Receive, Move, TypeOK, Callers
<1>5. TypeOK'
  <2>1. pc' \in [Callers -> {"idle", "check", "alloc", "fetch", "started", "busy", "crashed",
                             "crashed_after_start", "up"}]
    BY <1>1, <1>2 DEF TypeOK
  <2>2. pc'[Main] \in {"check", "alloc", "fetch", "up"}
    BY <1>1, <1>2, <1>4 DEF TypeOK
  <2>3. cmd' \in [Callers -> Drivers \cup {NoDriver}]
    BY <1>1, <1>2 DEF TypeOK
  <2>4. UNCHANGED <<is_started, device_list, container, instances, null_refs, mutex, stack, object>>
    BY <1>2 DEF alloc_vars
  <2> QED
    BY <1>1, <1>3, <2>1, <2>2, <2>3, <2>4 DEF TypeOK
<1>6. \A u \in Callers \ {t} : pc'[u] = pc[u] /\ cmd'[u] = cmd[u]
  BY <1>1, <1>2 DEF TypeOK
<1>7. DriversInv'
  BY <1>1, <1>2, <1>5, <1>6, EmptyOutsideAlloc, OutsideAlloc
<1>8. /\ pc'[t] = to
      /\ t # Main => cmd'[t] \in Drivers
      /\ t = Main => cmd'[t] = cmd[t]
      /\ device_list' = device_list /\ stack' = stack /\ object' = object
  BY <1>1, <1>2 DEF TypeOK, alloc_vars
<1>9. CommandInv'
  <2>1. cmd'[Main] = Common
    BY <1>1, <1>6, <1>8 DEF CommandInv, Callers
  <2>2. ASSUME NEW u \in Threads
        PROVE  /\ pc'[u] # "idle" => cmd'[u] \in Drivers
               /\ pc'[u] = "busy" => object'[u] = 1
               /\ pc'[u] # "crashed_after_start"
    <3>1. u \in Callers /\ u # Main
      BY DriversAssumption DEF Callers
    <3>2. CASE u = t
      BY <1>8, <3>1, <3>2
    <3>3. CASE u # t
      BY <1>1, <1>6, <1>8, <3>1, <3>3 DEF CommandInv
    <3> QED
      BY <3>2, <3>3
  <2>3. ASSUME NEW u \in Callers,
               (pc'[u] = "alloc" /\ stack'[u] = <<>>) \/ pc'[u] \in {"started", "busy"}
        PROVE  device_list'[cmd'[u]] = 1
    <3>1. u # t
      BY <1>8, <2>3
    <3> QED
      BY <1>1, <1>6, <1>8, <2>3, <3>1 DEF CommandInv
  <2> QED
    BY <2>1, <2>2, <2>3, Zenon DEF CommandInv
<1> QED
  BY <1>7, <1>9 DEF DriverInv, DriversInv

LEMMA DriverInvStep == DriverInv /\ [Next]_vars => DriverInv'
<1> SUFFICES ASSUME DriverInv, [Next]_vars PROVE DriverInv'
  OBVIOUS
<1>1. DriversInv /\ CommandInv /\ TypeOK /\ StackInv
  BY DEF DriverInv, DriversInv
<1>2. CASE Boot \/ \E t \in Threads, d \in Drivers : Receive(t, d)
  BY <1>2, ServerStepInv
<1>3. ASSUME NEW t \in Callers, AllocDriver(t) PROVE DriverInv'
  <2>1. DriversInv' /\ CommandInv'
    BY <1>1, <1>3, AllocDriverInv, AllocCommandInv
  <2> QED
    BY <2>1 DEF DriverInv, DriversInv
<1>4. ASSUME NEW t \in Callers, Check(t) PROVE DriverInv'
  <2>1. DriversInv' /\ CommandInv'
    BY <1>1, <1>4, CheckInv, ExecuteCommandInv
  <2> QED
    BY <2>1 DEF DriverInv, DriversInv
<1>5. ASSUME NEW t \in Callers, Started(t) \/ Dispatch(t) \/ Crash(t) \/ Finish(t)
      PROVE  DriverInv'
  <2>1. TypeOK' /\ CommandInv'
    BY <1>1, <1>5, ExecuteTypes, ExecuteCommandInv
  <2>2. stack[t] = <<>> /\ UNCHANGED alloc_vars
    BY <1>1, <1>5, EmptyOutsideAlloc DEF Started, Dispatch, Crash, Finish, Move
  <2>3. DOMAIN pc = Callers /\ DOMAIN cmd = Callers
    BY <1>1 DEF TypeOK
  <2>4. \A u \in Callers \ {t} : pc'[u] = pc[u] /\ cmd'[u] = cmd[u]
    BY <1>5, <2>3 DEF Started, Dispatch, Crash, Finish, Move
  <2>5. DriversInv'
    BY <1>1, <2>1, <2>2, <2>4, OutsideAlloc
  <2> QED
    BY <2>1, <2>5 DEF DriverInv, DriversInv
<1>6. CASE UNCHANGED vars
  <2>1. TypeOK' /\ UNCHANGED alloc_vars /\ pc' = pc /\ cmd' = cmd /\ object' = object
    BY <1>1, <1>6 DEF vars, alloc_vars, TypeOK
  <2>2. UNCHANGED <<stack, device_list>>
    BY <1>6 DEF vars
  <2>3. CommandInv'
    BY <1>1, <2>1, <2>2 DEF CommandInv
  <2>4. mutex' = mutex /\ stack' = stack
    BY <1>6 DEF vars
  <2>5. DriversInv'
    <3>1. /\ is_started' = is_started /\ device_list' = device_list /\ container' = container
          /\ instances' = instances
      BY <1>6 DEF vars
    <3> QED
      BY <1>1, <2>1, <2>4, <3>1
         DEF DriversInv, StackInv, Waits, FramesInv, FrameInv, Publishing, OneConstructor, PublishedInv,
             DriverStateInv, BeingPublished, BeingConstructed, Top
  <2> QED
    BY <2>3, <2>5 DEF DriverInv, DriversInv
<1> QED
  BY <1>2, <1>3, <1>4, <1>5, <1>6 DEF Next, Execute

\* The inductive invariant of the driver manager.
THEOREM DriverInvariant == Spec => []DriverInv
BY DriverInvInit, DriverInvStep, PTL DEF Spec

\* Type correctness of the driver manager.
THEOREM TypeCorrectness == Spec => []TypeOK
<1>1. DriverInv => TypeOK
  BY DEF DriverInv
<1> QED
  BY <1>1, DriverInvariant, PTL

\* Every driver is constructed once and gets one Driver<> object, with any
\* number of threads and whatever the constructors ask for, also in a circle.
THEOREM ConstructedOnce == Spec => []SingleInstantiation
<1>1. DriverInv => SingleInstantiation
  BY OneDevice DEF DriverInv, DriversInv, SingleInstantiation
<1> QED
  BY <1>1, DriverInvariant, PTL

\* start() never returns to execute() without the device, although is_started
\* and device_list are read without the mutex and written in either order.
THEOREM StartIsComplete == Spec => []StartedDriverIsFound
<1>1. DriverInv => StartedDriverIsFound
  BY DEF DriverInv, CommandInv, StartedDriverIsFound
<1> QED
  BY <1>1, DriverInvariant, PTL

-----------------------------------------------------------------------------
(* The refinement of DriverService. *)

Up == {d \in Drivers : instances[d] > 0}
Running == [t \in Threads |-> IF pc[t] = "busy" THEN cmd[t] ELSE NoDriver]

LEMMA ConstructBringsUp ==
  ASSUME DriversInv, NEW t \in Callers, Construct(t)
  PROVE  \E d \in Drivers : Service!BringUp(d)
<1>0. PICK d0 : d0 = Top(t).driver
  OBVIOUS
<1>1. stack[t] # <<>> /\ Top(t).at = "construct"
  BY DEF Construct, GoOn
<1>2. /\ d0 \in Drivers /\ FrameInv(t, Len(stack[t])) /\ Top(t) = stack[t][Len(stack[t])]
  BY <1>0, <1>1, TopFacts
<1>3. DriverStateInv(d0) /\ container[d0] = "starting"
  BY <1>0, <1>1, <1>2 DEF DriversInv, PublishedInv, FrameInv
<1>4. instances[d0] = 0
  BY <1>3 DEF DriverStateInv
<1>5. instances' = [instances EXCEPT ![d0] = @ + 1] /\ instances \in [Drivers -> Nat]
  BY <1>0 DEF Construct, DriversInv, TypeOK
<1>6. d0 \notin Up /\ Up' = Up \cup {d0}
  BY <1>2, <1>4, <1>5 DEF Up
<1>7. Running' = Running
  BY DEF Construct, Running
<1> QED
  BY <1>2, <1>6, <1>7 DEF Service!BringUp, Up, Running

\* The mutex of the only Driver<> object lets one command run at a time.
LEMMA DispatchBegins ==
  ASSUME DriversInv, CommandInv, NEW t \in Callers, Dispatch(t)
  PROVE  t \in Threads /\ \E d \in Drivers : Service!Begin(t, d)
<1>1. /\ t \in Threads /\ pc[t] \in {"fetch", "started"} /\ device_list[cmd[t]] # 0
      /\ \A u \in Threads : ~(object[u] = device_list[cmd[t]] /\ cmd[u] = cmd[t])
      /\ pc' = [pc EXCEPT ![t] = "busy"] /\ cmd' = cmd /\ instances' = instances
  BY DEF Dispatch, Callers, alloc_vars
<1>2. cmd[t] \in Drivers /\ DOMAIN pc = Callers /\ Threads \subseteq Callers
  BY <1>1, CommandDriver DEF Callers, DriversInv, TypeOK
<1>3. device_list[cmd[t]] = 1
  BY <1>1, <1>2, OneDevice
<1>4. cmd[t] \in Up
  <2>1. DriverStateInv(cmd[t])
    BY <1>2 DEF DriversInv, PublishedInv
  <2> QED
    BY <1>2, <1>3, <2>1 DEF DriverStateInv, Up
<1>5. Running[t] = NoDriver
  BY <1>1 DEF Running
<1>6. ASSUME NEW u \in Threads PROVE Running[u] # cmd[t]
  <2>1. CASE pc[u] = "busy"
    BY <1>1, <1>3, <2>1 DEF CommandInv, Running
  <2>2. CASE pc[u] # "busy"
    BY <1>2, <2>2, DriversAssumption DEF Running
  <2> QED
    BY <2>1, <2>2
<1>7. Running' = [Running EXCEPT ![t] = cmd[t]]
  BY <1>1, <1>2 DEF Running
<1>8. Up' = Up
  BY <1>1 DEF Up
<1> QED
  BY <1>1, <1>2, <1>4, <1>5, <1>6, <1>7, <1>8 DEF Service!Begin, Up, Running

LEMMA FinishEnds ==
  ASSUME DriversInv, CommandInv, NEW t \in Callers, Finish(t)
  PROVE  t \in Threads /\ Service!End(t)
<1>1. /\ pc[t] = "busy" /\ pc' = [pc EXCEPT ![t] = "idle"]
      /\ cmd' = [cmd EXCEPT ![t] = NoDriver] /\ instances' = instances
  BY DEF Finish, Move, alloc_vars
<1>2. /\ DOMAIN pc = Callers /\ DOMAIN cmd = Callers /\ Threads \subseteq Callers
      /\ pc[Main] # "busy"
  BY DEF Callers, DriversInv, TypeOK
<1>3. t \in Threads
  BY <1>1, <1>2 DEF Callers
<1>4. Running[t] # NoDriver
  BY <1>1, <1>3, CommandDriver, DriversAssumption DEF Running
<1>5. Running' = [Running EXCEPT ![t] = NoDriver]
  BY <1>1, <1>2, <1>3 DEF Running
<1>6. Up' = Up
  BY <1>1 DEF Up
<1> QED
  BY <1>3, <1>4, <1>5, <1>6 DEF Service!End, Up, Running

LEMMA ServiceStep ==
  ASSUME DriverInv, [Next]_vars
  PROVE  Service!Next \/ (Up' = Up /\ Running' = Running)
<1>1. /\ DriversInv /\ CommandInv /\ DOMAIN pc = Callers /\ DOMAIN cmd = Callers
      /\ Threads \subseteq Callers
  BY DEF DriverInv, DriversInv, TypeOK, Callers
<1>2. ASSUME NEW t \in Callers, Construct(t) PROVE Service!Next
  BY <1>1, <1>2, ConstructBringsUp DEF Service!Next
<1>3. ASSUME NEW t \in Callers, Dispatch(t) PROVE Service!Next
  BY <1>1, <1>3, DispatchBegins DEF Service!Next
<1>4. ASSUME NEW t \in Callers, Finish(t) PROVE Service!Next
  BY <1>1, <1>4, FinishEnds DEF Service!Next
<1>5. ASSUME NEW t \in Callers, AllocDriver(t), ~Construct(t) PROVE Up' = Up /\ Running' = Running
  <2>1. UNCHANGED <<pc, cmd, instances>>
    BY <1>5 DEF AllocDriver, Lock, CheckAgain, AllocInContainer, CircularDependency, AskFor,
                Publish, Published
  <2> QED
    BY <2>1 DEF Up, Running
<1>6. ASSUME NEW t \in Callers, Check(t) \/ Started(t) \/ Crash(t) PROVE Up' = Up /\ Running' = Running
  <2>1. PICK to : /\ UNCHANGED <<cmd, instances>> /\ pc[t] # "busy" /\ to # "busy"
                  /\ pc' = [pc EXCEPT ![t] = to]
    BY <1>6 DEF Check, Started, Crash, Move, alloc_vars
  <2> QED
    BY <1>1, <2>1 DEF Up, Running
<1>7. CASE Boot
  BY <1>1, <1>7 DEF Boot, Move, alloc_vars, Up, Running
<1>8. ASSUME NEW t \in Threads, NEW d \in Drivers, Receive(t, d)
      PROVE  Up' = Up /\ Running' = Running
  <2>1. /\ UNCHANGED instances /\ pc[t] # "busy"
        /\ pc' = [pc EXCEPT ![t] = "check"] /\ cmd' = [cmd EXCEPT ![t] = d]
    BY <1>8 DEF Receive, Move, alloc_vars
  <2> QED
    BY <1>1, <2>1 DEF Up, Running
<1>9. CASE UNCHANGED vars
  BY <1>9 DEF vars, Up, Running
<1> QED
  BY <1>2, <1>3, <1>4, <1>5, <1>6, <1>7, <1>8, <1>9 DEF Next, Execute

\* DriverManager implements DriverService: the mutexes, the flags and the
\* stacks of constructors come down to drivers brought up once and commands
\* that run one at a time on a driver that is up.
THEOREM ManagerImplementsService == Spec => ServiceSpec
<1>1. Init => Service!Init
  <2> SUFFICES ASSUME Init PROVE Service!Init
    OBVIOUS
  <2>1. Up = {}
    BY DEF Init, Up
  <2>2. Running = [t \in Threads |-> NoDriver]
    BY DriversAssumption DEF Init, Running, Callers
  <2> QED
    BY <2>1, <2>2 DEF Service!Init, Up, Running
<1>2. DriverInv /\ [Next]_vars
        => [Service!Next]_<<{d \in Drivers : instances[d] > 0},
                            [t \in Threads |-> IF pc[t] = "busy" THEN cmd[t] ELSE NoDriver]>>
  BY ServiceStep DEF Up, Running
<1> QED
  BY <1>1, <1>2, DriverInvariant, PTL DEF Spec, ServiceSpec, Service!Spec

-----------------------------------------------------------------------------
(* Dependencies come first. *)

LEMMA StartedIsConstructed ==
  ASSUME DriversInv, NEW d \in Drivers, is_started[d] \/ container[d] = "started"
  PROVE  instances[d] > 0
<1>1. DriverStateInv(d)
  BY DEF DriversInv, PublishedInv
<1> QED
  BY <1>1 DEF DriverStateInv

\* What was constructed stays, and so do null references and exit_all.
LEMMA AllocMonotone ==
  ASSUME DriversInv, NEW t \in Callers, AllocDriver(t)
  PROVE  /\ \A d \in Drivers : instances[d] > 0 => instances'[d] > 0
         /\ null_refs \subseteq null_refs'
         /\ exit_all => exit_all'
<1>1. instances \in [Drivers -> Nat]
  BY DEF DriversInv, TypeOK
<1>2. instances' = instances \/ instances' = [instances EXCEPT ![Top(t).driver] = @ + 1]
  BY DEF AllocDriver, Lock, CheckAgain, AllocInContainer, CircularDependency, AskFor, Construct,
         Publish, Published
<1>3. null_refs' = null_refs \/ null_refs' = null_refs \cup (Caller(t) \X {Top(t).driver})
  BY DEF AllocDriver, Lock, CheckAgain, AllocInContainer, CircularDependency, AskFor, Construct,
         Publish, Published
<1>4. exit_all' = exit_all \/ exit_all' = TRUE
  BY DEF AllocDriver, Lock, CheckAgain, AllocInContainer, CircularDependency, AskFor, Construct,
         Publish, Published
<1> QED
  BY <1>1, <1>2, <1>3, <1>4

\* A call that is as it was still has what it asked for.
LEMMA AskedStays ==
  ASSUME TypeOK, NEW u \in Callers, NEW i \in 1..Len(stack[u]), Asked(u, i),
         stack[u][i].asked <= Len(Needs[stack[u][i].driver]),
         stack'[u][i].driver = stack[u][i].driver, stack'[u][i].asked = stack[u][i].asked,
         i < Len(stack[u]) => i < Len(stack'[u]),
         \A d \in Drivers : instances[d] > 0 => instances'[d] > 0,
         null_refs \subseteq null_refs', exit_all => exit_all'
  PROVE  Asked(u, i)'
<1>1. stack[u][i] \in Frames
  BY ElementOfSeq DEF TypeOK
<1>2. PICK d, a : d = stack[u][i].driver /\ a = stack[u][i].asked
  OBVIOUS
<1>3. d \in Drivers /\ a \in Nat /\ a <= Len(Needs[d])
  BY <1>1, <1>2, FrameFields
<1>4. ASSUME NEW j \in 1..a
      PROVE  \/ instances'[Needs[d][j]] > 0
             \/ <<d, Needs[d][j]>> \in null_refs' /\ exit_all'
             \/ i < Len(stack'[u]) /\ j = a
  <2>1. \/ instances[Needs[d][j]] > 0
        \/ <<d, Needs[d][j]>> \in null_refs /\ exit_all
        \/ i < Len(stack[u]) /\ j = a
    BY <1>2 DEF Asked
  <2>2. Needs[d] \in Seq(Drivers)
    BY <1>3, DriversAssumption
  <2>3. j \in 1..Len(Needs[d])
    BY <1>3, <2>2, LenProperties
  <2>4. Needs[d][j] \in Drivers
    BY <2>2, <2>3, ElementOfSeq
  <2> QED
    BY <2>1, <2>4
<1> QED
  BY <1>2, <1>4 DEF Asked

\* Before the boot only Main runs, and it only constructs Common.
LEMMA BootAlloc ==
  ASSUME DriverInv, BootInv, NEW t \in Callers, AllocDriver(t)
  PROVE  BootInv'
<1> SUFFICES ASSUME ~Booted'
             PROVE  /\ null_refs' = {}
                    /\ \A u \in Threads : pc'[u] = "idle"
                    /\ Len(stack'[Main]) <= 1
                    /\ \A d \in Drivers : instances'[d] > 0 => d = Common
  BY DEF BootInv
<1>1. DriversInv /\ StackInv /\ CommandInv /\ stack \in [Callers -> Seq(Frames)]
      /\ instances \in [Drivers -> Nat]
  BY DEF DriverInv, DriversInv, TypeOK
<1>2. pc' = pc /\ \A u \in Callers \ {t} : stack'[u] = stack[u]
  BY <1>1, AllocOthers
<1>3. /\ null_refs = {} /\ Len(stack[Main]) <= 1
      /\ \A u \in Threads : pc[u] = "idle"
      /\ \A d \in Drivers : instances[d] > 0 => d = Common
  BY <1>2 DEF BootInv, Booted
<1>4. stack[t] # <<>>
  BY DEF AllocDriver, Lock, CheckAgain, AllocInContainer, CircularDependency, AskFor, Construct,
         Publish, Published, GoOn
<1>5. t = Main
  BY <1>1, <1>3, <1>4 DEF StackInv, Callers
<1>6. Len(stack[t]) \in Nat \ {0} /\ Top(t) = stack[t][Len(stack[t])] /\ Top(t) \in Frames
  BY <1>1, <1>4, TopFacts
<1>7. Len(stack[t]) = 1 /\ Top(t).driver = Common /\ Top(t).asked \in Nat
  <2>1. Len(stack[t]) = 1
    <3>1. Len(stack[t]) <= 1 /\ Len(stack[t]) \in Nat \ {0}
      BY <1>3, <1>5, <1>6, Zenon
    <3>2. \A m \in Nat \ {0} : m <= 1 => m = 1
      OBVIOUS
    <3> QED
      BY <3>1, <3>2, Zenon
  <2>2. stack[t][1].driver = cmd[t] /\ cmd[t] = Common
    BY <1>1, <1>4, <1>5 DEF StackInv, CommandInv
  <2> QED
    BY <1>6, <2>1, <2>2, FrameFields
<1>8. ~AskFor(t)
  BY <1>7, DriversAssumption DEF AskFor
<1>9. Caller(t) = {}
  BY <1>7 DEF Caller
<1>10. null_refs' = {}
  BY <1>3, <1>9 DEF AllocDriver, Lock, CheckAgain, AllocInContainer, CircularDependency, AskFor,
                    Construct, Publish, Published
<1>11. Len(stack'[t]) <= 1
  <2>1. CASE Return(t)
    BY <1>1, <1>4, <1>7, <2>1, ReturnStack
  <2>2. ASSUME NEW from, NEW to \in Points, GoOn(t, from, to) PROVE Len(stack'[t]) <= 1
    <3>1. Len(stack'[t]) = Len(stack[t])
      BY <1>1, <2>2, GoOnStack
    <3> QED
      BY <1>7, <3>1
  <2> QED
    BY <1>8, <2>1, <2>2 DEF AllocDriver, Lock, CheckAgain, AllocInContainer, CircularDependency,
                            Construct, Publish, Published, Points
<1>12. instances' = instances \/ instances' = [instances EXCEPT ![Common] = @ + 1]
  BY <1>7 DEF AllocDriver, Lock, CheckAgain, AllocInContainer, CircularDependency, AskFor, Construct,
              Publish, Published
<1>13. \A d \in Drivers : instances'[d] > 0 => d = Common
  BY <1>1, <1>3, <1>12
<1> QED
  BY <1>2, <1>3, <1>5, <1>10, <1>11, <1>13

\* The innermost call returns: the constructor that waited for it has its
\* driver, or it closed a circle.
LEMMA ReturnAsked ==
  ASSUME DriversInv, AskedInv, NEW t \in Callers, AllocDriver(t), Return(t), stack[t] # <<>>,
         \/ instances'[Top(t).driver] > 0
         \/ Caller(t) \X {Top(t).driver} \subseteq null_refs' /\ exit_all'
  PROVE  \A i \in 1..Len(stack'[t]) : Asked(t, i)'
<1>0. PICK n : n = Len(stack[t])
  OBVIOUS
<1>1. TypeOK /\ StackInv /\ stack \in [Callers -> Seq(Frames)]
  BY DEF DriversInv, TypeOK
<1>2. n \in Nat \ {0} /\ Top(t) = stack[t][n]
  BY <1>0, TopFacts
<1>3. Len(stack'[t]) = n - 1 /\ \A i \in 1..n - 1 : stack'[t][i] = stack[t][i]
  BY <1>0, <1>1, ReturnStack
<1>4. /\ \A d \in Drivers : instances[d] > 0 => instances'[d] > 0
      /\ null_refs \subseteq null_refs' /\ (exit_all => exit_all')
  BY AllocMonotone
<1>5. \A i \in 1..n : Asked(t, i) /\ stack[t][i].asked <= Len(Needs[stack[t][i].driver])
  BY <1>0, <1>1 DEF AskedInv, StackInv
<1>6. ASSUME NEW i \in 1..(n - 1) - 1 PROVE Asked(t, i)'
  <2>1. i \in 1..n /\ i \in 1..n - 1 /\ i < n - 1
    BY <1>2
  <2> QED
    BY <1>0, <1>1, <1>3, <1>4, <1>5, <2>1, AskedStays
<1>7. n - 1 # 0 => Asked(t, n - 1)'
  <2> SUFFICES ASSUME n - 1 # 0 PROVE Asked(t, n - 1)'
    OBVIOUS
  <2>1. PICK k : k = n - 1
    OBVIOUS
  <2>2. k \in 1..n - 1 /\ k \in 1..n /\ k + 1 = n /\ k \in Nat
    BY <1>2, <2>1
  <2>3. Waits(t, k)
    BY <1>0, <1>1, <2>2 DEF StackInv
  <2>4. PICK d, a : d = stack[t][k].driver /\ a = stack[t][k].asked
    OBVIOUS
  <2>5. Top(t).driver = Needs[d][a]
    BY <1>2, <2>2, <2>3, <2>4 DEF Waits
  <2>6. stack[t][k] \in Frames
    BY <1>0, <1>1, <2>2, ElementOfSeq
  <2>7. d \in Drivers /\ a \in Nat /\ a <= Len(Needs[d])
    BY <1>5, <2>2, <2>4, <2>6, FrameFields
  <2>8. d \in Caller(t)
    BY <1>0, <1>2, <2>1, <2>4 DEF Caller
  <2>9. ASSUME NEW j \in 1..a
        PROVE  instances'[Needs[d][j]] > 0 \/ (<<d, Needs[d][j]>> \in null_refs' /\ exit_all')
    <3>1. \/ instances[Needs[d][j]] > 0
          \/ <<d, Needs[d][j]>> \in null_refs /\ exit_all
          \/ j = a
      BY <1>5, <2>2, <2>4 DEF Asked
    <3>2. Needs[d] \in Seq(Drivers)
      BY <2>7, DriversAssumption
    <3>3. j \in 1..Len(Needs[d])
      BY <2>7, <3>2, LenProperties
    <3>4. Needs[d][j] \in Drivers
      BY <3>2, <3>3, ElementOfSeq
    <3>5. Caller(t) \X {Top(t).driver} \subseteq null_refs' => <<d, Needs[d][a]>> \in null_refs'
      BY <2>5, <2>8
    <3> QED
      BY <1>4, <2>5, <3>1, <3>4, <3>5
  <2>10. stack'[t][k].driver = d /\ stack'[t][k].asked = a
    BY <1>3, <2>2, <2>4
  <2>11. Asked(t, k)'
    BY <2>9, <2>10 DEF Asked
  <2> QED
    BY <2>1, <2>11
<1>8. \A i \in 1..n - 1 : i \in 1..(n - 1) - 1 \/ (i = n - 1 /\ n - 1 # 0)
  BY <1>2
<1> QED
  BY <1>3, <1>6, <1>7, <1>8, Zenon

\* A step that only moves the innermost call on.
LEMMA GoOnAsked ==
  ASSUME DriversInv, AskedInv, NEW t \in Callers, AllocDriver(t), NEW from, NEW to \in Points,
         GoOn(t, from, to)
  PROVE  \A i \in 1..Len(stack'[t]) : Asked(t, i)'
<1>0. PICK n : n = Len(stack[t])
  OBVIOUS
<1>1. TypeOK /\ StackInv /\ stack \in [Callers -> Seq(Frames)] /\ stack[t] # <<>>
  BY DEF DriversInv, TypeOK, GoOn
<1>2. n \in Nat \ {0} /\ Top(t) = stack[t][n] /\ Top(t) \in Frames
  BY <1>0, <1>1, TopFacts
<1>3. /\ Len(stack'[t]) = n /\ \A i \in 1..n - 1 : stack'[t][i] = stack[t][i]
      /\ stack'[t][n] = [Top(t) EXCEPT !.at = to]
  BY <1>0, <1>1, GoOnStack
<1>4. stack'[t][n].driver = stack[t][n].driver /\ stack'[t][n].asked = stack[t][n].asked
  BY <1>2, <1>3 DEF Frames
<1>5. \A i \in 1..n : /\ stack'[t][i].driver = stack[t][i].driver
                      /\ stack'[t][i].asked = stack[t][i].asked
  BY <1>2, <1>3, <1>4, Positions, Zenon
<1>6. \A i \in 1..n : Asked(t, i) /\ stack[t][i].asked <= Len(Needs[stack[t][i].driver])
  BY <1>0, <1>1 DEF AskedInv, StackInv
<1>7. /\ \A d \in Drivers : instances[d] > 0 => instances'[d] > 0
      /\ null_refs \subseteq null_refs' /\ (exit_all => exit_all')
  BY AllocMonotone
<1> QED
  BY <1>0, <1>1, <1>3, <1>5, <1>6, <1>7, AskedStays

\* A constructor asks: the driver is there, or it waits for the new call.
LEMMA AskForAsked ==
  ASSUME DriversInv, AskedInv, NEW t \in Callers, AskFor(t)
  PROVE  \A i \in 1..Len(stack'[t]) : Asked(t, i)'
<1>0. PICK n, d0, a : n = Len(stack[t]) /\ d0 = Top(t).driver /\ a = Top(t).asked
  OBVIOUS
<1>1. /\ TypeOK /\ StackInv /\ stack \in [Callers -> Seq(Frames)] /\ stack[t] # <<>>
      /\ UNCHANGED <<instances, null_refs, exit_all, is_started>>
  BY DEF DriversInv, TypeOK, AskFor
<1>2. n \in Nat \ {0} /\ Top(t) = stack[t][n] /\ Top(t) \in Frames /\ d0 \in Drivers /\ a \in Nat
  BY <1>0, <1>1, TopFacts, FrameFields
<1>3. PICK d : d = Needs[d0][a + 1]
  OBVIOUS
<1>4. /\ d \in Drivers
      /\ \A i \in 1..n - 1 : stack'[t][i] = stack[t][i]
      /\ stack'[t][n] = [Top(t) EXCEPT !.asked = @ + 1]
      /\ IF is_started[d] THEN Len(stack'[t]) = n
         ELSE Len(stack'[t]) = n + 1 /\ stack'[t][n + 1] = Frame(d)
  BY <1>0, <1>1, <1>3, AskForStack
<1>5. stack'[t][n].driver = d0 /\ stack'[t][n].asked = a + 1
  BY <1>0, <1>2, <1>4 DEF Frames
<1>6. \A i \in 1..n : Asked(t, i) /\ stack[t][i].asked <= Len(Needs[stack[t][i].driver])
  BY <1>0, <1>1 DEF AskedInv, StackInv
<1>7. ASSUME NEW i \in 1..n - 1 PROVE Asked(t, i)'
  <2>1. i \in 1..n /\ i < Len(stack'[t])
    BY <1>2, <1>4
  <2> QED
    BY <1>0, <1>1, <1>4, <1>6, <2>1, AskedStays
<1>8. Asked(t, n)'
  <2>1. \A j \in 1..a : instances[Needs[d0][j]] > 0 \/ (<<d0, Needs[d0][j]>> \in null_refs /\ exit_all)
    <3>1. Asked(t, n)
      BY <1>2, <1>6
    <3> QED
      BY <1>0, <1>2, <3>1 DEF Asked
  <2>2. instances[d] > 0 \/ n < Len(stack'[t])
    BY <1>2, <1>4, StartedIsConstructed
  <2>3. \A j \in 1..a + 1 : j \in 1..a \/ j = a + 1
    BY <1>2
  <2>4. \A j \in 1..a + 1 : \/ instances'[Needs[d0][j]] > 0
                            \/ <<d0, Needs[d0][j]>> \in null_refs' /\ exit_all'
                            \/ n < Len(stack'[t]) /\ j = a + 1
    BY <1>1, <1>3, <2>1, <2>2, <2>3
  <2> QED
    BY <1>5, <2>4 DEF Asked
<1>9. n + 1 \in 1..Len(stack'[t]) => Asked(t, n + 1)'
  <2>1. n + 1 \in 1..Len(stack'[t]) => stack'[t][n + 1] = Frame(d)
    BY <1>2, <1>4
  <2>2. n + 1 \in 1..Len(stack'[t]) => stack'[t][n + 1].asked = 0
    BY <2>1 DEF Frame
  <2> QED
    BY <2>2 DEF Asked
<1>10. \A i \in 1..Len(stack'[t]) : i \in 1..n - 1 \/ i = n \/ i = n + 1
  BY <1>2, <1>4
<1> QED
  BY <1>7, <1>8, <1>9, <1>10, Zenon

LEMMA AllocAsked ==
  ASSUME DriverInv, AskedInv, NEW t \in Callers, AllocDriver(t)
  PROVE  AskedInv'
<1>1. /\ DriversInv /\ TypeOK /\ StackInv /\ BootInv /\ stack \in [Callers -> Seq(Frames)]
  BY DEF DriverInv, DriversInv, TypeOK, AskedInv
<1>2. ASSUME NEW u \in Callers \ {t}, NEW i \in 1..Len(stack'[u]) PROVE Asked(u, i)'
  <2>1. stack'[u] = stack[u]
    BY <1>1, AllocOthers
  <2>2. i \in 1..Len(stack[u]) /\ i < Len(stack[u]) => i < Len(stack'[u])
    BY <2>1
  <2>3. Asked(u, i) /\ stack[u][i].asked <= Len(Needs[stack[u][i].driver])
    BY <1>1, <2>1 DEF AskedInv, StackInv
  <2>4. stack'[u][i].driver = stack[u][i].driver /\ stack'[u][i].asked = stack[u][i].asked
    BY <2>1
  <2>5. /\ \A d \in Drivers : instances[d] > 0 => instances'[d] > 0
        /\ null_refs \subseteq null_refs' /\ (exit_all => exit_all')
    BY <1>1, AllocMonotone
  <2> QED
    BY <1>1, <2>1, <2>2, <2>3, <2>4, <2>5, AskedStays
<1>3. \A i \in 1..Len(stack'[t]) : Asked(t, i)'
  <2>1. ASSUME NEW from, NEW to \in Points, GoOn(t, from, to)
        PROVE  \A i \in 1..Len(stack'[t]) : Asked(t, i)'
    BY <1>1, <2>1, GoOnAsked
  <2>2. CASE stack[t] # <<>> /\ Return(t) /\ instances' = instances
             /\ (is_started[Top(t).driver] \/ Top(t).at = "both")
    <3>1. /\ Top(t).driver \in Drivers /\ FrameInv(t, Len(stack[t]))
          /\ Top(t) = stack[t][Len(stack[t])]
      BY <1>1, <2>2, TopFacts
    <3>2. Top(t).at = "both" => container[Top(t).driver] = "started"
      BY <3>1 DEF FrameInv, Publishing
    <3>3. instances'[Top(t).driver] > 0
      BY <1>1, <2>2, <3>1, <3>2, StartedIsConstructed
    <3> QED
      BY <1>1, <2>2, <3>3, ReturnAsked
  <2>3. CASE CircularDependency(t)
    <3>1. stack[t] # <<>> /\ Return(t) /\ Caller(t) \X {Top(t).driver} \subseteq null_refs' /\ exit_all'
      BY <2>3 DEF CircularDependency
    <3> QED
      BY <1>1, <3>1, ReturnAsked
  <2>4. CASE AskFor(t)
    BY <1>1, <2>4, AskForAsked
  <2>5. CASE CheckAgain(t)
    BY <2>1, <2>2, <2>5 DEF CheckAgain, Points
  <2>6. CASE Published(t)
    BY <2>2, <2>6 DEF Published
  <2>7. CASE Lock(t) \/ AllocInContainer(t) \/ Construct(t) \/ Publish(t)
    BY <2>1, <2>7 DEF Lock, AllocInContainer, Construct, Publish, Points
  <2> QED
    BY <2>3, <2>4, <2>5, <2>6, <2>7 DEF AllocDriver
<1>4. BootInv'
  BY <1>1, BootAlloc
<1> QED
  BY <1>2, <1>3, <1>4, Zenon DEF AskedInv

\* Only Construct adds a driver, after all it has asked for.
LEMMA AllocDependencies ==
  ASSUME DriverInv, AskedInv, DependenciesComeFirst, NEW t \in Callers, AllocDriver(t)
  PROVE  DependenciesComeFirst'
<1>1. /\ DriversInv /\ TypeOK /\ StackInv /\ stack \in [Callers -> Seq(Frames)]
      /\ instances \in [Drivers -> Nat]
  BY DEF DriverInv, DriversInv, TypeOK
<1>2. /\ \A d \in Drivers : instances[d] > 0 => instances'[d] > 0
      /\ null_refs \subseteq null_refs' /\ (exit_all => exit_all')
  BY <1>1, AllocMonotone
<1> SUFFICES ASSUME NEW d \in Drivers, instances'[d] > 0, NEW i \in 1..Len(Needs[d])
             PROVE  instances'[Needs[d][i]] > 0 \/ (<<d, Needs[d][i]>> \in null_refs' /\ exit_all')
  BY DEF DependenciesComeFirst
<1>3. Needs[d][i] \in Drivers
  BY DriversAssumption, ElementOfSeq
<1>4. CASE instances[d] > 0
  BY <1>2, <1>3, <1>4 DEF DependenciesComeFirst
<1>5. CASE ~(instances[d] > 0)
  <2>0. PICK n : n = Len(stack[t])
    OBVIOUS
  <2>1. instances' # instances
    BY <1>5
  <2>2. Construct(t)
    BY <2>1 DEF AllocDriver, Lock, CheckAgain, AllocInContainer, CircularDependency, AskFor, Publish,
                Published
  <2>3. /\ instances' = [instances EXCEPT ![Top(t).driver] = @ + 1] /\ stack[t] # <<>>
        /\ Top(t).asked = Len(Needs[Top(t).driver]) /\ null_refs' = null_refs /\ exit_all' = exit_all
    BY <2>2 DEF Construct, GoOn
  <2>4. Top(t).driver = d
    BY <1>1, <1>5, <2>3
  <2>5. n \in Nat \ {0} /\ Top(t) = stack[t][n]
    BY <1>1, <2>0, <2>3, TopFacts
  <2>6. Asked(t, n)
    BY <2>0, <2>5 DEF AskedInv
  <2>7. instances[Needs[d][i]] > 0 \/ (<<d, Needs[d][i]>> \in null_refs /\ exit_all)
    BY <2>0, <2>3, <2>4, <2>5, <2>6 DEF Asked
  <2> QED
    BY <1>2, <1>3, <2>3, <2>7
<1> QED
  BY <1>4, <1>5

\* The steps outside alloc_driver construct nothing.
LEMMA OtherAsked ==
  ASSUME DriverInv, AskedInv, DependenciesComeFirst, NEW t \in Callers,
         Check(t) \/ Started(t) \/ Dispatch(t) \/ Crash(t) \/ Finish(t)
  PROVE  AskedInv' /\ DependenciesComeFirst'
<1>1. /\ TypeOK /\ StackInv /\ BootInv /\ stack \in [Callers -> Seq(Frames)] /\ DOMAIN pc = Callers
      /\ pc[Main] \in {"check", "alloc", "fetch", "up"} /\ Main \in Callers
      /\ Main \notin Threads /\ Threads \subseteq Callers
  BY DriversAssumption DEF DriverInv, TypeOK, AskedInv, Callers
<1>2. instances' = instances /\ null_refs' = null_refs /\ exit_all' = exit_all
  BY DEF Check, Started, Dispatch, Crash, Finish, alloc_vars
<1>3. DependenciesComeFirst'
  BY <1>2 DEF DependenciesComeFirst
<1>4. /\ \A u \in Callers \ {t} : stack'[u] = stack[u] /\ pc'[u] = pc[u]
      /\ stack'[t] = stack[t] \/ (stack[t] = <<>> /\ stack'[t] = <<Frame(cmd[t])>>)
  <2>1. Check(t) => stack[t] = <<>>
    BY <1>1, EmptyOutsideAlloc DEF Check
  <2> QED
    BY <1>1, <2>1 DEF Check, Started, Dispatch, Crash, Finish, alloc_vars, Move
<1>5. ASSUME NEW u \in Callers, NEW i \in 1..Len(stack'[u]) PROVE Asked(u, i)'
  <2>1. CASE stack'[u] = stack[u]
    BY <1>2, <2>1 DEF AskedInv, Asked
  <2>2. CASE stack'[u] = <<Frame(cmd[t])>>
    <3>1. stack'[u][i].asked = 0
      BY <2>2 DEF Frame
    <3> QED
      BY <3>1 DEF Asked
  <2> QED
    BY <1>4, <2>1, <2>2
<1>6. BootInv'
  <2> SUFFICES ASSUME ~Booted'
               PROVE  /\ \A u \in Threads : pc'[u] = "idle"
                      /\ Len(stack'[Main]) <= 1
                      /\ null_refs = {} /\ \A d \in Drivers : instances[d] > 0 => d = Common
    BY <1>2 DEF BootInv
  <2>1. ~Booted
    <3>1. pc[t] # "up" \/ t # Main
      BY DEF Check, Started, Dispatch, Crash, Finish, Move
    <3> QED
      BY <1>1, <1>4, <3>1 DEF Booted
  <2>2. /\ null_refs = {} /\ \A u \in Threads : pc[u] = "idle"
        /\ Len(stack[Main]) <= 1
        /\ \A d \in Drivers : instances[d] > 0 => d = Common
    BY <1>1, <2>1 DEF BootInv
  <2>3. t \notin Threads
    BY <2>2 DEF Check, Started, Dispatch, Crash, Finish, Move
  <2>4. \A u \in Threads : pc'[u] = "idle"
    BY <1>1, <1>4, <2>2, <2>3
  <2>5. Len(stack'[Main]) <= 1
    <3>1. stack'[Main] = stack[Main] \/ stack'[Main] = <<Frame(cmd[t])>>
      BY <1>1, <1>4
    <3>2. Len(<<Frame(cmd[t])>>) = 1 /\ 1 <= 1
      OBVIOUS
    <3> QED
      BY <2>2, <3>1, <3>2, Zenon
  <2> QED
    BY <2>2, <2>4, <2>5
<1> QED
  BY <1>3, <1>5, <1>6, Zenon DEF AskedInv

LEMMA DependenciesStep ==
  DriverInv /\ AskedInv /\ DependenciesComeFirst /\ [Next]_vars => AskedInv' /\ DependenciesComeFirst'
<1> SUFFICES ASSUME DriverInv, AskedInv, DependenciesComeFirst, [Next]_vars
             PROVE  AskedInv' /\ DependenciesComeFirst'
  OBVIOUS
<1>1. /\ BootInv /\ DOMAIN pc = Callers /\ Main \in Callers /\ Main \notin Threads
      /\ Threads \subseteq Callers
  BY DriversAssumption DEF DriverInv, TypeOK, AskedInv, Callers
<1>2. CASE Boot
  <2>1. /\ ~Booted /\ Booted' /\ UNCHANGED <<stack, instances, null_refs>>
    BY <1>1, <1>2 DEF Boot, Booted, Move, alloc_vars
  <2>2. null_refs = {} /\ \A d \in Drivers : instances[d] > 0 => d = Common
    BY <1>1, <2>1 DEF BootInv
  <2>3. BootInv'
    BY <2>1 DEF BootInv
  <2>4. ASSUME NEW u \in Callers, NEW i \in 1..Len(stack'[u]) PROVE Asked(u, i)'
    <3>1. Asked(u, i)
      BY <2>1 DEF AskedInv
    <3> QED
      BY <2>1, <2>2, <3>1 DEF Asked
  <2>5. DependenciesComeFirst'
    BY <2>1, <2>2, DriversAssumption DEF DependenciesComeFirst
  <2> QED
    BY <2>3, <2>4, <2>5, Zenon DEF AskedInv
<1>3. ASSUME NEW t \in Threads, NEW d \in Drivers, Receive(t, d)
      PROVE  AskedInv' /\ DependenciesComeFirst'
  <2>1. /\ Booted' /\ UNCHANGED <<stack, instances, null_refs, exit_all>>
    BY <1>1, <1>3 DEF Receive, Booted, Move, alloc_vars
  <2> QED
    BY <2>1 DEF AskedInv, Asked, BootInv, DependenciesComeFirst
<1>4. ASSUME NEW t \in Callers, AllocDriver(t) PROVE AskedInv' /\ DependenciesComeFirst'
  BY <1>4, AllocAsked, AllocDependencies
<1>5. ASSUME NEW t \in Callers, Check(t) \/ Started(t) \/ Dispatch(t) \/ Crash(t) \/ Finish(t)
      PROVE  AskedInv' /\ DependenciesComeFirst'
  BY <1>5, OtherAsked
<1>6. CASE UNCHANGED vars
  <2>1. UNCHANGED <<stack, instances, null_refs, exit_all, pc>>
    BY <1>6 DEF vars
  <2> QED
    BY <2>1 DEF AskedInv, Asked, BootInv, Booted, DependenciesComeFirst
<1> QED
  BY <1>2, <1>3, <1>4, <1>5, <1>6 DEF Next, Execute

\* What a constructor has asked for is there when it goes on, whichever
\* threads construct drivers at the same time, unless it closes a circle.
THEOREM AskedInvariant == Spec => [](AskedInv /\ DependenciesComeFirst)
<1>1. Init => AskedInv /\ DependenciesComeFirst
  <2> SUFFICES ASSUME Init PROVE AskedInv /\ DependenciesComeFirst
    OBVIOUS
  <2>1. /\ \A t \in Callers : Len(stack[t]) = 0
        /\ null_refs = {} /\ \A d \in Drivers : instances[d] = 0
        /\ \A t \in Threads : pc[t] = "idle"
    BY DriversAssumption DEF Init, Callers
  <2>2. BootInv
    BY <2>1 DEF BootInv, Callers
  <2> QED
    BY <2>1, <2>2 DEF AskedInv, DependenciesComeFirst
<1> QED
  BY <1>1, DependenciesStep, DriverInvariant, PTL DEF Spec

\* A driver is constructed after everything its constructor asks for; a circle
\* leaves exit_all set.
THEOREM DependenciesFirst == Spec => []DependenciesComeFirst
BY AskedInvariant, PTL
=============================================================================
