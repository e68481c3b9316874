------------------------------- MODULE Motion -------------------------------
(***************************************************************************)
(* AccelerometerDemo: samples are filtered by handlers on an operation     *)
(* queue that runs several of them at once, on one pair of properties      *)
(* without a lock; each handler sends the rotation it computed to the main *)
(* queue.  A filtered value is the set of the samples mixed into it.  The  *)
(* z axis is filtered as the other two and only printed.                   *)
(***************************************************************************)
EXTENDS Naturals, Sequences

CONSTANT MaxSamples     \* bound: the samples the sensor delivers

ASSUME MotionAssumption == MaxSamples \in Nat

Samples == 1 .. MaxSamples
Axes == {"x", "y"}
Mixture == [Axes -> SUBSET Samples]
Unfiltered == [a \in Axes |-> {}]

VARIABLES
  startEnabled, stopEnabled,   \* the two buttons
  updating,      \* the manager sends samples to the handler
  pc,            \* where the handler of each sample is
  old,           \* what it has read of the properties
  filter,        \* self.x and self.y
  mainQueue,     \* rotations on their way to the screen
  printing,      \* a block has turned the image and not yet set the label
  seenX,         \* the x it has read for the label
  shown,         \* rotation of the image and numbers of the label
  raced          \* history: two handlers have overlapped

buttons == <<startEnabled, stopEnabled, updating>>
handlers == <<pc, old, filter>>
screen == <<printing, seenX, shown>>
vars == <<buttons, handlers, mainQueue, screen, raced>>

Stages == {"none", "queued", "readX", "wroteX", "readY", "wroteY", "sawX", "done"}

TypeOK ==
  /\ startEnabled \in BOOLEAN /\ stopEnabled \in BOOLEAN
  /\ updating \in BOOLEAN
  /\ (stopEnabled <=> updating) /\ (startEnabled <=> ~updating)
  /\ pc \in [Samples -> Stages]
  /\ old \in [Samples -> Mixture]
  /\ filter \in Mixture
  /\ mainQueue \in Seq(Mixture)
  /\ printing \in BOOLEAN
  /\ seenX \subseteq Samples
  /\ shown \in [rotation : Mixture, numbers : Mixture]
  /\ raced \in BOOLEAN

Running(h) == pc[h] \notin {"none", "queued", "done"}

(* viewDidLoad, on a device with an accelerometer. *)
Init ==
  /\ startEnabled = TRUE /\ stopEnabled = FALSE
  /\ updating = FALSE
  /\ pc = [h \in Samples |-> "none"]
  /\ old = [h \in Samples |-> Unfiltered]
  /\ filter = Unfiltered
  /\ mainQueue = <<>>
  /\ printing = FALSE /\ seenX = {}
  /\ shown = [rotation |-> Unfiltered, numbers |-> Unfiltered]
  /\ raced = FALSE

----------------------------------------------------------------------------
(* The buttons, on the main queue, between two of its blocks.              *)

(* Mutant: Start stays enabled. *)
DynamicStartTwice ==
  /\ ~printing /\ startEnabled
  /\ stopEnabled' = TRUE /\ updating' = TRUE
  /\ UNCHANGED <<startEnabled, handlers, mainQueue, screen, raced>>

DynamicStart ==
  /\ ~printing /\ startEnabled
  /\ startEnabled' = FALSE /\ stopEnabled' = TRUE
  /\ updating' = TRUE
  /\ UNCHANGED <<handlers, mainQueue, screen, raced>>

DynamicStop ==
  /\ ~printing /\ stopEnabled
  /\ updating' = FALSE
  /\ startEnabled' = TRUE /\ stopEnabled' = FALSE
  /\ UNCHANGED <<handlers, mainQueue, screen, raced>>

(* The manager queues a handler per sample; those queued before a Stop run *)
(* all the same, and a second Start gives the samples a queue of its own.  *)
SampleArrives(h) ==
  /\ updating
  /\ pc[h] = "none" /\ \A g \in 1 .. h - 1 : pc[g] # "none"
  /\ pc' = [pc EXCEPT ![h] = "queued"]
  /\ UNCHANGED <<buttons, old, filter, mainQueue, screen, raced>>

----------------------------------------------------------------------------
(* The handler of sample h, one access of a property at a time.            *)

(* Mutant: the handler forgets what it has read. *)
OnlyNew(h, a) == {h}

(* .1 * new + .9 * old *)
Mixed(h, a) == old[h][a] \cup {h}

Read(h, a, from, to) ==
  /\ pc[h] = from
  /\ pc' = [pc EXCEPT ![h] = to]
  /\ old' = [old EXCEPT ![h][a] = filter[a]]
  /\ UNCHANGED <<filter, mainQueue>>

Write(h, a, from, to) ==
  /\ pc[h] = from
  /\ pc' = [pc EXCEPT ![h] = to]
  /\ filter' = [filter EXCEPT ![a] = Mixed(h, a)]
  /\ UNCHANGED <<old, mainQueue>>

(* Mutant: the rotation is computed from what was read before the mixing.  *)
SendOldRotation(h) ==
  /\ pc[h] = "sawX"
  /\ pc' = [pc EXCEPT ![h] = "done"]
  /\ mainQueue' = Append(mainQueue, [a \in Axes |-> old[h][a] \ {h}])
  /\ old' = [old EXCEPT ![h] = Unfiltered]
  /\ UNCHANGED filter

SendRotation(h) ==
  /\ pc[h] = "sawX"
  /\ pc' = [pc EXCEPT ![h] = "done"]
  /\ mainQueue' = Append(mainQueue, [old[h] EXCEPT !["y"] = filter["y"]])
  /\ old' = [old EXCEPT ![h] = Unfiltered]
  /\ UNCHANGED filter

Handler(h) ==
  /\ \/ Read(h, "x", "queued", "readX")
     \/ Write(h, "x", "readX", "wroteX")
     \/ Read(h, "y", "wroteX", "readY")
     \/ Write(h, "y", "readY", "wroteY")
     \/ Read(h, "x", "wroteY", "sawX")
     \/ SendRotation(h)
  /\ raced' = (raced \/ \E g \in Samples \ {h} : Running(g) /\ Running(h)')
  /\ UNCHANGED <<buttons, screen>>

----------------------------------------------------------------------------
(* The block on the main queue turns the image by the rotation it was sent *)
(* and prints the properties as they are now.                              *)

TurnImage ==
  /\ ~printing /\ mainQueue # <<>>
  /\ shown' = [shown EXCEPT !.rotation = Head(mainQueue)]
  /\ printing' = TRUE /\ seenX' = filter["x"]
  /\ UNCHANGED <<buttons, handlers, mainQueue, raced>>

(* Mutant: the label keeps the y it printed last. *)
PrintOldLabel ==
  /\ printing
  /\ shown' = [shown EXCEPT !.numbers["x"] = seenX]
  /\ printing' = FALSE /\ seenX' = {}
  /\ mainQueue' = Tail(mainQueue)
  /\ UNCHANGED <<buttons, handlers, raced>>

PrintLabel ==
  /\ printing
  /\ shown' = [shown EXCEPT !.numbers = [filter EXCEPT !["x"] = seenX]]
  /\ printing' = FALSE /\ seenX' = {}
  /\ mainQueue' = Tail(mainQueue)
  /\ UNCHANGED <<buttons, handlers, raced>>

Next ==
  \/ DynamicStart \/ DynamicStop
  \/ \E h \in Samples : SampleArrives(h) \/ Handler(h)
  \/ TurnImage \/ PrintLabel

(* Queues run what they hold; the sensor and the user promise nothing.     *)
Fairness ==
  /\ \A h \in Samples : WF_vars(Handler(h))
  /\ WF_vars(TurnImage) /\ WF_vars(PrintLabel)

Spec == Init /\ [][Next]_vars /\ Fairness

----------------------------------------------------------------------------
Reached(h, stages) == pc[h] \in stages
PastX == {"wroteX", "readY", "wroteY", "sawX", "done"}
PastY == {"wroteY", "sawX", "done"}

(* A sample is lost only to the race: as long as no two handlers have      *)
(* overlapped, each axis is the mixture of exactly the samples handled.    *)
LostOnlyIfRaced ==
  ~raced => /\ filter["x"] = {h \in Samples : Reached(h, PastX)}
            /\ filter["y"] = {h \in Samples : Reached(h, PastY)}

(* Without a race the numbers printed under an image are never older than  *)
(* the rotation of the image, though they are read after it was computed.  *)
NumbersNoOlderThanImage ==
  ~raced /\ ~printing =>
    \A a \in Axes : shown.rotation[a] \subseteq shown.numbers[a]

(* Every sample that arrived has been handled and shown. *)
AtRest ==
  /\ \A h \in Samples : pc[h] \in {"none", "done"}
  /\ mainQueue = <<>> /\ ~printing
  /\ shown = [rotation |-> filter, numbers |-> filter]

(* After Stop the screen comes to rest on everything that was sampled,     *)
(* unless handlers raced or the user starts again.                         *)
ScreenCatchesUp == ~stopEnabled ~> (AtRest \/ raced \/ updating)
=============================================================================
