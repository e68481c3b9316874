---------------------------- MODULE MotionProofs ----------------------------
(***************************************************************************)
(* Proofs about the filter of AccelerometerDemo, for any number of         *)
(* samples and any number of handlers at once.                             *)
(***************************************************************************)
EXTENDS Motion, TLAPS

(* As long as no two handlers have overlapped: one runs at a time, what it *)
(* has read is what the properties hold, and they hold every sample.       *)
Serial == \A g, h \in Samples : Running(g) /\ Running(h) => g = h

ReadIsCurrent ==
  \A h \in Samples :
    /\ pc[h] \in {"readX", "sawX"} => old[h]["x"] = filter["x"]
    /\ pc[h] = "readY" => old[h]["y"] = filter["y"]

FilterComplete ==
  /\ filter["x"] = {h \in Samples : Reached(h, PastX)}
  /\ filter["y"] = {h \in Samples : Reached(h, PastY)}

(* No rotation, on its way or on screen, is newer than the filter. *)
RotationsOld ==
  /\ \A i \in 1 .. Len(mainQueue) : \A a \in Axes : mainQueue[i][a] \subseteq filter[a]
  /\ \A a \in Axes : shown.rotation[a] \subseteq filter[a]

(* Nor than the numbers that go with it. *)
NumbersNew ==
  /\ printing => shown.rotation["x"] \subseteq seenX
  /\ ~printing => \A a \in Axes : shown.rotation[a] \subseteq shown.numbers[a]

Orderly == Serial /\ ReadIsCurrent /\ FilterComplete /\ RotationsOld /\ NumbersNew

(* The types without the buttons. *)
DataTypes ==
  /\ pc \in [Samples -> Stages]
  /\ old \in [Samples -> Mixture]
  /\ filter \in Mixture
  /\ mainQueue \in Seq(Mixture)
  /\ printing \in BOOLEAN
  /\ seenX \subseteq Samples
  /\ shown \in [rotation : Mixture, numbers : Mixture]
  /\ raced \in BOOLEAN
  /\ printing => mainQueue # <<>>

ButtonTypes ==
  /\ startEnabled \in BOOLEAN /\ stopEnabled \in BOOLEAN
  /\ updating \in BOOLEAN
  /\ (stopEnabled <=> updating) /\ (startEnabled <=> ~updating)

IInv ==
  /\ ButtonTypes
  /\ DataTypes
  /\ ~raced => Orderly

LEMMA Types == TypeOK /\ (printing => mainQueue # <<>>) <=> ButtonTypes /\ DataTypes
BY DEF TypeOK, ButtonTypes, DataTypes

LEMMA InitHolds == Init => IInv
<1> SUFFICES ASSUME Init PROVE IInv
  OBVIOUS
<1>1. ButtonTypes
  BY DEF Init, ButtonTypes
<1>2. DataTypes
  <2>1. Unfiltered \in Mixture
    BY DEF Unfiltered, Mixture
  <2>2. mainQueue \in Seq(Mixture)
    BY DEF Init
  <2>3. shown \in [rotation : Mixture, numbers : Mixture]
    BY <2>1 DEF Init
  <2>4. old \in [Samples -> Mixture] /\ pc \in [Samples -> Stages]
    BY <2>1 DEF Init, Stages
  <2> QED
    BY <2>1, <2>2, <2>3, <2>4 DEF Init, DataTypes
<1>3. Orderly
  BY DEF Init, Orderly, Serial, ReadIsCurrent, FilterComplete, RotationsOld, NumbersNew,
         Running, Reached, PastX, PastY, Unfiltered, Axes
<1> QED
  BY <1>1, <1>2, <1>3 DEF IInv

----------------------------------------------------------------------------
(* The types, for each action. *)
LEMMA ButtonsPreserved ==
  ASSUME ButtonTypes, [Next]_vars
  PROVE  ButtonTypes'
<1>1. CASE UNCHANGED buttons
  BY <1>1 DEF ButtonTypes, buttons
<1>2. CASE DynamicStart \/ DynamicStop
  BY <1>2 DEF ButtonTypes, DynamicStart, DynamicStop
<1> QED
  BY <1>1, <1>2
     DEF Next, SampleArrives, Handler, TurnImage, PrintLabel, vars, buttons

LEMMA DataPreserved ==
  ASSUME DataTypes, Next
  PROVE  DataTypes'
<1>1. CASE DynamicStart \/ DynamicStop
  BY <1>1 DEF DataTypes, DynamicStart, DynamicStop, handlers, screen
<1>2. ASSUME NEW h \in Samples, SampleArrives(h) PROVE DataTypes'
  BY <1>2 DEF DataTypes, SampleArrives, Stages, buttons, screen
<1>3. ASSUME NEW h \in Samples, Handler(h) PROVE DataTypes'
  <2>1. raced' \in BOOLEAN /\ UNCHANGED screen
    BY <1>3 DEF DataTypes, Handler
  <2>2. ASSUME NEW a \in Axes, NEW from, NEW to \in Stages, Read(h, a, from, to)
        PROVE  DataTypes'
    <3>1. [old[h] EXCEPT ![a] = filter[a]] \in Mixture
      BY DEF DataTypes, Mixture
    <3>2. old' \in [Samples -> Mixture]
      BY <2>2, <3>1 DEF DataTypes, Read
    <3> QED
      BY <2>1, <2>2, <3>2 DEF DataTypes, Read, screen
  <2>3. ASSUME NEW a \in Axes, NEW from, NEW to \in Stages, Write(h, a, from, to)
        PROVE  DataTypes'
    <3>1. filter' \in Mixture
      BY <2>3 DEF DataTypes, Mixture, Write, Mixed
    <3> QED
      BY <2>1, <2>3, <3>1 DEF DataTypes, Write, screen
  <2>4. ASSUME SendRotation(h) PROVE DataTypes'
    <3>1. [old[h] EXCEPT !["y"] = filter["y"]] \in Mixture /\ Unfiltered \in Mixture
      BY DEF DataTypes, Mixture, Axes, Unfiltered
    <3>2. mainQueue' \in Seq(Mixture) /\ mainQueue' # <<>>
      BY <2>4, <3>1 DEF DataTypes, SendRotation
    <3> QED
      BY <2>1, <2>4, <3>1, <3>2 DEF DataTypes, SendRotation, Stages, screen
  <2> QED
    BY <1>3, <2>2, <2>3, <2>4 DEF Handler, Axes, Stages
<1>4. CASE TurnImage
  <2>1. Head(mainQueue) \in Mixture /\ filter["x"] \subseteq Samples
    BY <1>4 DEF DataTypes, TurnImage, Mixture, Axes
  <2>2. shown' \in [rotation : Mixture, numbers : Mixture]
    BY <1>4, <2>1 DEF DataTypes, TurnImage
  <2> QED
    BY <1>4, <2>1, <2>2 DEF DataTypes, TurnImage, handlers
<1>5. CASE PrintLabel
  <2>1. [filter EXCEPT !["x"] = seenX] \in Mixture
    BY DEF DataTypes, Mixture, Axes
  <2>2. shown' \in [rotation : Mixture, numbers : Mixture]
    BY <1>5, <2>1 DEF DataTypes, PrintLabel
  <2>3. Tail(mainQueue) \in Seq(Mixture)
    BY <1>5 DEF DataTypes, PrintLabel
  <2> QED
    BY <1>5, <2>2, <2>3 DEF DataTypes, PrintLabel, handlers
<1> QED
  BY <1>1, <1>2, <1>3, <1>4, <1>5 DEF Next

----------------------------------------------------------------------------
(* A step of a handler that leaves raced down finds no other one running.  *)
LEMMA Alone ==
  ASSUME DataTypes, NEW h \in Samples, Handler(h), ~raced'
  PROVE  /\ ~raced
         /\ UNCHANGED screen
         /\ Running(h)' => \A g \in Samples \ {h} : ~Running(g)
BY DEF DataTypes, Handler, Running

(* Where the handler of each sample is decides what the filter must hold:  *)
(* reads and the last step change nothing there.                           *)
LEMMA ReadOrderly ==
  ASSUME DataTypes, Orderly, NEW h \in Samples, Handler(h), ~raced',
         NEW a \in Axes, NEW from, NEW to,
         <<from, a, to>> \in {<<"queued", "x", "readX">>, <<"wroteX", "y", "readY">>,
                              <<"wroteY", "x", "sawX">>},
         Read(h, a, from, to)
  PROVE  Orderly'
<1>1. \A g \in Samples \ {h} : ~Running(g) /\ pc'[g] = pc[g] /\ old'[g] = old[g]
  BY Alone DEF Read, Running, DataTypes
<1>2. pc'[h] = to /\ pc[h] = from /\ old'[h][a] = filter[a] /\ UNCHANGED <<filter, mainQueue, screen>>
  BY Alone DEF Read, DataTypes, Mixture
<1>3. Serial'
  BY <1>1 DEF Serial, Running
<1>4. ReadIsCurrent'
  BY <1>1, <1>2 DEF Orderly, ReadIsCurrent, Axes, Running
<1>5. FilterComplete'
  BY <1>1, <1>2 DEF Orderly, FilterComplete, Reached, PastX, PastY
<1>6. RotationsOld' /\ NumbersNew'
  BY <1>2 DEF Orderly, RotationsOld, NumbersNew, screen
<1> QED
  BY <1>3, <1>4, <1>5, <1>6 DEF Orderly

(* A write adds its sample to what the axis holds. *)
LEMMA WriteOrderly ==
  ASSUME DataTypes, Orderly, NEW h \in Samples, Handler(h), ~raced',
         NEW a \in Axes, NEW from, NEW to,
         <<from, a, to>> \in {<<"readX", "x", "wroteX">>, <<"readY", "y", "wroteY">>},
         Write(h, a, from, to)
  PROVE  Orderly'
<1>1. \A g \in Samples \ {h} : ~Running(g) /\ pc'[g] = pc[g]
  BY Alone DEF Write, Running, DataTypes
<1>2. /\ pc'[h] = to /\ pc[h] = from
      /\ filter' = [filter EXCEPT ![a] = filter[a] \cup {h}]
      /\ UNCHANGED <<old, mainQueue, screen>>
  BY Alone DEF Write, Mixed, DataTypes, Orderly, ReadIsCurrent
<1>3. Serial'
  BY <1>1 DEF Serial, Running
<1>4. ReadIsCurrent'
  BY <1>1, <1>2 DEF ReadIsCurrent, Running
<1>5. FilterComplete'
  BY <1>1, <1>2 DEF DataTypes, Mixture, Orderly, FilterComplete, Reached, PastX, PastY, Axes
<1>6. \A b \in Axes : filter[b] \subseteq filter'[b]
  BY <1>2 DEF DataTypes, Mixture
<1>7. RotationsOld' /\ NumbersNew'
  BY <1>2, <1>6 DEF Orderly, RotationsOld, NumbersNew, screen
<1> QED
  BY <1>3, <1>4, <1>5, <1>7 DEF Orderly

LEMMA SendOrderly ==
  ASSUME DataTypes, Orderly, NEW h \in Samples, Handler(h), ~raced', SendRotation(h)
  PROVE  Orderly'
<1> DEFINE rotation == [old[h] EXCEPT !["y"] = filter["y"]]
<1>1. /\ \A g \in Samples \ {h} : pc'[g] = pc[g] /\ old'[g] = old[g]
      /\ pc[h] = "sawX" /\ pc'[h] = "done" /\ UNCHANGED <<filter, screen>>
      /\ mainQueue' = Append(mainQueue, rotation)
  BY Alone DEF SendRotation, DataTypes
<1>2. rotation \in Mixture /\ \A a \in Axes : rotation[a] \subseteq filter[a]
  BY <1>1 DEF DataTypes, Mixture, Axes, Orderly, ReadIsCurrent
<1>3. Serial'
  BY <1>1 DEF Serial, Running, Orderly
<1>4. ReadIsCurrent'
  BY <1>1 DEF ReadIsCurrent, Orderly
<1>5. FilterComplete'
  BY <1>1 DEF Orderly, FilterComplete, Reached, PastX, PastY
<1>6. \A i \in 1 .. Len(mainQueue') : \A a \in Axes : mainQueue'[i][a] \subseteq filter'[a]
  <2> HIDE DEF rotation
  <2>1. Len(mainQueue') = Len(mainQueue) + 1 /\ mainQueue'[Len(mainQueue) + 1] = rotation
    BY <1>1, <1>2 DEF DataTypes
  <2>2. \A i \in 1 .. Len(mainQueue) : mainQueue'[i] = mainQueue[i]
    BY <1>1, <1>2 DEF DataTypes
  <2>3. Len(mainQueue) \in Nat
    BY DEF DataTypes
  <2> QED
    BY <1>1, <1>2, <2>1, <2>2, <2>3 DEF Orderly, RotationsOld
<1>7. RotationsOld' /\ NumbersNew'
  BY <1>1, <1>6 DEF Orderly, RotationsOld, NumbersNew, screen
<1> QED
  BY <1>3, <1>4, <1>5, <1>7 DEF Orderly

(* The blocks of the main queue leave the handlers alone. *)
LEMMA ScreenOrderly ==
  ASSUME DataTypes, Orderly, TurnImage \/ PrintLabel
  PROVE  Orderly'
<1>1. UNCHANGED handlers
  BY DEF TurnImage, PrintLabel
<1>2. Serial' /\ ReadIsCurrent' /\ FilterComplete'
  BY <1>1 DEF Orderly, Serial, ReadIsCurrent, FilterComplete, Running, Reached, handlers
<1>3. CASE TurnImage
  <2>1. Head(mainQueue) = mainQueue[1] /\ 1 \in 1 .. Len(mainQueue)
    BY <1>3 DEF DataTypes, TurnImage
  <2>2. shown'.rotation = mainQueue[1] /\ UNCHANGED mainQueue
    BY <1>3, <2>1 DEF DataTypes, TurnImage
  <2>3. RotationsOld'
    BY <1>1, <2>1, <2>2 DEF Orderly, RotationsOld, handlers
  <2>4. NumbersNew'
    BY <1>3, <2>1, <2>2 DEF Orderly, RotationsOld, NumbersNew, TurnImage, Axes
  <2> QED
    BY <1>2, <2>3, <2>4 DEF Orderly
<1>4. CASE PrintLabel
  <2>1. shown'.rotation = shown.rotation /\ shown'.numbers = [filter EXCEPT !["x"] = seenX]
    BY <1>4 DEF DataTypes, PrintLabel
  <2>2. /\ Len(Tail(mainQueue)) = Len(mainQueue) - 1
        /\ \A i \in 1 .. Len(mainQueue) - 1 : Tail(mainQueue)[i] = mainQueue[i + 1]
        /\ Len(mainQueue) \in Nat
    BY <1>4 DEF DataTypes, PrintLabel
  <2>3. RotationsOld'
    BY <1>1, <1>4, <2>1, <2>2 DEF Orderly, RotationsOld, PrintLabel, handlers
  <2>4. NumbersNew'
    BY <1>4, <2>1 DEF Orderly, RotationsOld, NumbersNew, PrintLabel, DataTypes, Mixture, Axes
  <2> QED
    BY <1>2, <2>3, <2>4 DEF Orderly
<1> QED
  BY <1>3, <1>4

LEMMA OrderlyPreserved ==
  ASSUME IInv, Next, ~raced'
  PROVE  Orderly'
<1>1. DataTypes
  BY DEF IInv
<1>2. ASSUME NEW h \in Samples, Handler(h) PROVE Orderly'
  <2>1. Orderly
    BY <1>1, <1>2, Alone DEF IInv
  <2>2. CASE SendRotation(h)
    BY <1>1, <1>2, <2>1, <2>2, SendOrderly
  <2>3. CASE Read(h, "x", "queued", "readX")
    BY <1>1, <1>2, <2>1, <2>3, ReadOrderly DEF Axes
  <2>4. CASE Read(h, "y", "wroteX", "readY")
    BY <1>1, <1>2, <2>1, <2>4, ReadOrderly DEF Axes
  <2>5. CASE Read(h, "x", "wroteY", "sawX")
    BY <1>1, <1>2, <2>1, <2>5, ReadOrderly DEF Axes
  <2>6. CASE Write(h, "x", "readX", "wroteX")
    BY <1>1, <1>2, <2>1, <2>6, WriteOrderly DEF Axes
  <2>7. CASE Write(h, "y", "readY", "wroteY")
    BY <1>1, <1>2, <2>1, <2>7, WriteOrderly DEF Axes
  <2> QED
    BY <1>2, <2>2, <2>3, <2>4, <2>5, <2>6, <2>7 DEF Handler
<1>3. CASE TurnImage \/ PrintLabel
  BY <1>1, <1>3, ScreenOrderly DEF IInv, TurnImage, PrintLabel
<1>4. CASE DynamicStart \/ DynamicStop
  BY <1>4 DEF IInv, DynamicStart, DynamicStop, handlers, screen, Orderly, Serial, ReadIsCurrent,
       FilterComplete, RotationsOld, NumbersNew, Running, Reached
<1>5. ASSUME NEW h \in Samples, SampleArrives(h) PROVE Orderly'
  <2>1. /\ Orderly /\ pc[h] = "none" /\ pc'[h] = "queued"
        /\ \A g \in Samples \ {h} : pc'[g] = pc[g]
        /\ UNCHANGED <<old, filter, mainQueue, screen>>
    BY <1>1, <1>5 DEF IInv, SampleArrives, DataTypes
  <2>2. Serial' /\ ReadIsCurrent'
    BY <2>1 DEF Orderly, Serial, ReadIsCurrent, Running
  <2>3. FilterComplete'
    BY <2>1 DEF Orderly, FilterComplete, Reached, PastX, PastY
  <2>4. RotationsOld' /\ NumbersNew'
    BY <2>1 DEF Orderly, RotationsOld, NumbersNew, screen
  <2> QED
    BY <2>2, <2>3, <2>4 DEF Orderly
<1> QED
  BY <1>2, <1>3, <1>4, <1>5 DEF Next

LEMMA StepPreserves == IInv /\ [Next]_vars => IInv'
<1> SUFFICES ASSUME IInv, [Next]_vars PROVE IInv'
  OBVIOUS
<1>1. CASE Next
  BY <1>1, ButtonsPreserved, DataPreserved, OrderlyPreserved DEF IInv
<1>2. CASE UNCHANGED vars
  BY <1>2 DEF IInv, ButtonTypes, DataTypes, Orderly, Serial, ReadIsCurrent, FilterComplete,
       RotationsOld, NumbersNew, Running, Reached, vars, buttons, handlers, screen
<1> QED
  BY <1>1, <1>2

----------------------------------------------------------------------------
(* The invariant holds in every reachable state: without a race handlers   *)
(* are serial, and filter, rotations and numbers are in that order of age. *)
THEOREM Invariance == Spec => []IInv
BY InitHolds, StepPreserves, PTL DEF Spec

(* The state keeps its types, and Stop is enabled exactly while samples    *)
(* are delivered, Start while they are not.                                *)
THEOREM TypeCorrect == Spec => []TypeOK
<1>1. IInv => TypeOK
  BY Types DEF IInv
<1> QED
  BY Invariance, <1>1, PTL

(* For any number of samples, one is lost only if handlers overlapped.     *)
THEOREM NothingLost == Spec => []LostOnlyIfRaced
<1>1. IInv => LostOnlyIfRaced
  BY DEF IInv, Orderly, FilterComplete, LostOnlyIfRaced
<1> QED
  BY Invariance, <1>1, PTL

(* For any number of samples and blocks, the numbers under an image are no *)
(* older than its rotation unless handlers overlapped.                     *)
THEOREM NumbersFollow == Spec => []NumbersNoOlderThanImage
<1>1. IInv => NumbersNoOlderThanImage
  BY DEF IInv, Orderly, NumbersNew, NumbersNoOlderThanImage
<1> QED
  BY Invariance, <1>1, PTL
=============================================================================
