# Verification of the coursera-objc-ios apps

The repository is a collection of some forty independent iOS and console
programs in Objective-C, written along a course. Each has one process, one main
thread on which UIKit, SpriteKit, MapKit or CoreLocation call its handlers, and
little code of its own. What can go wrong in them is seldom in a line: it is in
the order in which callbacks arrive, in a copy of a value that is not refreshed,
in a save that fails, in a process that is killed. This directory models the
apps in which such orders matter, checks them with TLC on small instances and
proves the central properties with TLAPS for every instance.

## Inventory

State, operations, interaction and hard behaviour of each component. The full
list, with the components that are not modelled and the reasons, is in
`PROJECT.json`; file names below are relative to `src/`.

| component | state it keeps | operations | how it interacts, and what is hard |
|---|---|---|---|
| ToDoManager, editor and delegate | SQLite store, `viewContext` with pending changes, `localToDoEntity`, the three inputs, `wasDeleted`, first responder | add, open, type, turn the picker, trash, back, swipe and let go; launch, terminate | one context shared by both screens; UIKit delivers editingDidEnd before, during or after viewWillDisappear; any save covers every pending object and throws when one is invalid; the process is killed between handlers |
| ToDoManager, list | objects of the fetched results controller, rows of the table, the entity of each cell | insert, delete, update and move of a row; segue | the controller's index paths belong to different states of the list; rows are edited, never reloaded |
| DistanceMeasure and the DistanceGetter pod | enabled state of the button, `req`, the labels; per request a counter, a buffer and a callback | tap; completion of the source search and of three parallel destination searches | completions in any order, with or without a place; exactly one callback |
| BreakoutDemo | presented scene, blocks, balls, `motivatingTouch` | contacts, ends of action sequences, touches, presentScene | several sequences under way at once, also on one node; two ends in one frame; several fingers |
| TableViewDemo | `ourStrings`, the rows, the loop variables | Add, Sort | the data source and the rows are edited one step at a time; loop bounds |
| CurrencyConverter and the CurrencyRequest pod | enabled state of the button, amount, labels; the download and the answer on its way | tap, edit the amount; download fails or succeeds; callback | the completion handler runs on the session's queue, the callback on the main one; failed or partial downloads fall back on bundled rates |
| CoreDataCoursera | store, context, two picker rollers with copies of the rows, log text | add chore, person, log; delete | the copies are refreshed by hand, one by one; delete saves twice; a failed save aborts; indices into the wrong copy |
| Playground | store of users, screens of a VIPER navigation | sign-up, login, delete user | a failed save leaves its insert pending for the next one; `PGDApplicationAssembly.m:29` calls a method declared nowhere, so it does not compile |
| GeoFenceDemo01 | authorisation, switch, monitored region, `mapIsMoving`, annotation, labels | switch, Check, map moves, CoreLocation callbacks; launch, kill | authorisation, position and region callbacks at any time; the region outlives the process |
| Geo Fence Peer Review, MapMyPoints | the same, less the switch or the region | the same | the same |
| Reverse Geocode Live Demo 01 | `lookUp`, the label | map moved, geocoder answers or fails | a change during a look-up; an error answer |
| GrammyPlus | sign-in state, two chained downloads | login, logout, refresh | the states after sign-in are never reached |
| AccelerometerDemo | `x`, `y`, `z` of the filter, two buttons, image and label | start, stop, samples | handlers overlap on a concurrent queue, without a lock; labels are set on another |
| Device Motion Demo | attitude, image | updates | raises at launch |
| PongDemo | two followed touches, an action per paddle, ball speed | touches | grouping of several fingers in one event |
| the others | no state that outlives a tap | | not modelled |

What makes the modelled components correct:

* **ToDoManager**: the disk only ever holds complete items; what was trashed
  never comes back; what the editor shows when it leaves is on disk; the process
  dies of a failed save only where the user left a title empty; the list shows
  the context, row for row.
* **DistanceMeasure**: a tap is always answered, once, with all the labels at
  once and only after all its searches ended.
* **CurrencyConverter**: one answer per tap; a tap that meets an outage ends with
  labels from the bundled rates, and never ends the process.
* **BreakoutDemo**: a decided game ends, with the scene that fits it, and is
  never left on screen with nothing more to win or lose; the paddle follows a
  finger that is down.
* **TableViewDemo**: Sort stays inside the array, sorts it, ends, and the rows
  are never out of step with the array.
* **GeoFenceDemo01**: a grant always enables the switch; a region is watched only
  behind a switch that says so, an earlier process's excepted; the map follows.
* **Reverse Geocode Live Demo 01**: one question at a time, and the label never
  goes back.
* **AccelerometerDemo**: every sample is mixed in, and label and image agree once
  sampling stops, except where handlers overlap.
* **PongDemo**: each paddle goes where its own finger is.
* **CoreDataCoursera**: the rollers offer what is stored; a deletion cut short
  loses the chores before the persons.

## Plan

1. *(done)* `ToDoManager` with its abstract specification `DurableItems`, and
   its proofs; `ToDoList` composed over it.
2. *(done)* `DistanceMeasure` with its abstract specification `Calculation`, and
   its proofs.
3. *(done)* `Breakout` with its proofs.
4. *(done)* `SortTable` with its proofs.
5. *(done)* `Currency`.
6. *(done)* `Motion` with the proofs of its safety, `Paddles` with its proofs.
7. *(done)* `Fence`, `Geocode` and `Chores`, and the proofs of all three.
8. *(done)* The proofs of the safety of `Currency`.
9. *(done)* The proofs of `FieldsFollowEntity` of `ToDoManager` and of the list,
   `ToDoList`: every safety property a run checks is proved.
10. *(done)* What the liveness of `SortTable` and `Breakout` rests on: a bound on
   the comparisons of Sort, and that a decided game has an end due and stays
   decided. Left: the same for the answers of `DistanceMeasure` and `Currency`.
11. Left to model, for whoever has a model of the engine to put beside them: the
   paddle's actions and the damping of BreakoutDemo.

## Modules

`DurableItems` (abstract) is what the ToDoManager app promises of its disk:
complete items are put one at a time and a discarded item is gone for good.

`ToDoManager` is the app. `ctx` is `viewContext` as the process sees it, `store`
the SQLite file as a relaunch finds it; a row is a record or `Absent`. Each
action is one handler with every save it makes: `TitleFieldEdited` sets title,
date and picker and saves; `TrashTapped` deletes, saves and starts the pop;
`ViewWillDisappear` runs `saveEverything` unless `wasDeleted`. A save takes the
contents of the whole context, validates all of it against the data model, and
throws (`screen = "crashed"`) if one object is invalid. The text fields, the
picker and the first responder are UIKit's (external): their actions only
change what is shown. `EndCommentsEditing` saves nothing because the observer
is registered for notifications whose object is the editor, while a text view
posts them with itself as the object.
Blank stands for nil and for the empty string. Object identities are not reused
once trashed. `trashed` is a history variable.

`ToDoList` extends it with the fetched results controller's objects and the
table's rows. A change of the context moves the controller by one of insert,
delete, update or move, with any order allowed among equal dates, and the row
edits of `didChangeObject` are applied at the index paths it reports.

`Calculation` (abstract) and `DistanceMeasure`: request objects with their
counter, buffer and callback, and the searches under way. `CallBack` runs the
screen's block only if it is still set, as the pod does.

`Currency`: a table of rates is the set of currencies it lists, since all that the
screen can tell is whether a rate is there. `Currencies` are those the bank can
list, `Snapshot` those of `eurofxref-daily-snapshot.xml`, the document bundled with
the pod; it lists the dollar, the yen and the pound, and not all the bank may
list (the krona of Iceland is one). `DownloadFailed` and `DownloadSucceeded` are
the completion handler on the session's queue; the body of the bank and, in
`OfflineResponse`, the bundled document go through the same parser, `Parsed`.
`RetrievedCurrencies` is the block the handler sends to the main queue. An
exception in that block ends the process (`alive`). `outage` is history: the
requests to which the bank gave no document, or none with a rate, until the
screen has had their answer.

`Breakout`: a node is whole, on its way out (its action sequence runs) or gone.
`RemoveBlock` and `RemoveBall` are the end of a sequence: the block that removes
the node and the one that follows it, which are instantaneous and run in the
same frame. `Present` after another `Present` in one frame may or may not take,
since `self.view` may be nil by then.

`SortTable`: the handler of Sort one comparison at a time, to see the array and
the rows between the edits. Positions start at 1.

`Motion`: AccelerometerDemo's handler of a sample runs on an `NSOperationQueue`
without a limit, so several run at once on the properties `x` and `y`. It is
therefore modelled one property access at a time: `Read` and `Write` for each
axis, a second read of `x`, then `SendRotation`, which reads `y` and queues the
block. The block is two steps, `TurnImage` (which also reads `x` for the label)
and `PrintLabel`, since handlers run between them. A filtered value is the set
of the samples mixed into it: the weights .1 and .9 make no difference to what
was lost. `raced` records that two handlers have overlapped; the properties say
what holds until then, since what a race leaves is anybody's guess. An
accelerometer is present. Buttons are on the main queue, so no tap falls between
`TurnImage` and `PrintLabel`.

`Fence`: GeoFenceDemo01 and the part of CoreLocation that outlives it. `monitored`
and `inside` survive `Kill`; `Launch` is `viewDidLoad`, which does not look at
the regions already monitored. `target` is where an animation takes the map, or
the user's finger; `DidUpdateLocations` starts an animation only if
`mapIsMoving` is off, and drops the fix otherwise. `viewDidLoad` sets the region
with an animation, so the map may be moving when a process starts. Check can be
tapped at any time: `checkSwitchButton`, the outlet by which the code would disable
it, is connected to nothing in the storyboard. A device that can monitor regions
is assumed. `inherited` and `unfollowed` are history.

`Geocode`: the flag `lookUp`, set in `executeReverseGeocodeCall` and reset by
`GeocoderAnswers` but not by `GeocoderFails`, which returns first. Places are
numbered by the region change that brought them under the pin.

`Paddles`: PongDemo's three touch handlers, each with the loop over its set of
touches and the tracking of both paddles. A `moveToY` action under the key
`moving!` replaces the one before (`moving`); `Frame` is SpriteKit's.

`Chores`: every handler of CoreDataCoursera saves what it changed or ends the
process, so between handlers context and disk are equal, and one variable per
entity stands for both. `Abort` is a save or a fetch that fails; a fetch after a
save that succeeded leaves the disk changed. `DeleteTapped` has a case for each
place among its two saves where it can end. `ChoreLogTapped` raises in every state.

`MC*` instantiate these for TLC. The `*Proofs` modules hold the theorems. A
comment beginning with *Mutant* marks an altered version of the definition that
follows; each is a plausible bug and breaks one of the properties.

## Runs

| run | instance | shows |
|---|---|---|
| `todo` | 2 items, 2 titles, 1 comment, 2 dates, item symmetry | types; the context is ahead of the disk by at most the item just added; trash is final; leaving saves what is shown; fields follow the entity; a crash needs a blank title; the disk implements `DurableItems` |
| `todo_list` | 3 items, 2 titles, 3 dates, item symmetry | rows mirror the context after every callback; a tapped row opens what it shows |
| `distance` | 3 destinations, 2 request objects, 2 distances | the button is disabled exactly while one request will answer; answers are complete; implements `Calculation`, liveness included |
| `breakout` | 2 balls, 3 blocks, 2 fingers | no dead game; the end fits; decided games end; the followed touch is down |
| `currency` | 2 request objects, 2 amounts, tables over 4 currencies, 3 of them bundled | one conversion at a time; a request that met an outage draws the labels; every tap is answered |
| `currency_readme` | the same | **violated**: see below |
| `sort` | arrays of up to 5 strings over 4 values | bounds, order, permutation, rows in step, termination |
| `motion` | 3 samples | no sample lost and no label older than its image but for a race; after Stop the screen catches up |
| `fence` | 2 places and the origin | a grant enables the switch; what is monitored behind a switch that is off; the map at rest shows the last fix |
| `geocode` | 8 region changes | the flag tells whether a look-up is under way, or one has failed; the label never goes back |
| `paddles` | 2 fingers, 3 heights, 2 doublings | a paddle follows one finger, is sent to it, and reaches it |
| `chores` | 2 chores, 3 persons | rollers and disk agree after every handler; the persons go last |

Why the bounds are enough. *todo*: a second item is needed because a save covers
every object of the context; two titles and dates tell an old value from a new
one; a third item would only repeat the second. *todo_list*: a row that moves
past a neighbour in either direction, with a third row that must stay, needs
three items and three dates; comments are not shown in a row and are left blank.
*distance*: the app has exactly three destinations; two request objects allow a
new one while the old could still have searches. *breakout*: the game has two
balls; of three blocks one can be gone, one exploding and one whole; two
fingers can come and go in one event or in two. *sort*: five positions exercise
first, last and inner positions of both loops; the proofs cover every length.

*currency*: the dollar is the base, and of the two other currencies on the screen
a table can lack one, both or none; a fourth is listed by the bank alone.

*motion*: a race needs two handlers; the third sample can arrive after it, before
it or after a second Start. *fence*: the second place tells the old fix from the
new one; the origin is where the annotation starts. *geocode*: two changes during
one look-up and one after it need four. *paddles*: the second finger takes a
paddle over, or has the other; of three heights one lies between two others.
*chores*: more persons than chores, so that a row of one roller is no row of the
other.

The violated run: the README of the CurrencyRequest pod says it fakes the rates
if getting them fails "for any reason". `FakedIfItFails` states that no answer of
the bank ends the app or leaves it without a dollar rate. TLC finds the way out:
a document with some rates is taken as it is, and the getter of a missing one
raises in the callback of the screen (or, when it is the dollar that is missing,
divides by zero).

Four bounds guard an action or limit a counter: `MaxRows` of `SortTable`,
`MaxSamples` of `Motion` (the samples the sensor delivers), `MaxChanges` of
`Geocode` (the region changes of one process) and `MaxDoublings` of `Paddles` (the
touches between the sides). The other models are finite because their constants
are. The types of `Motion`, `Paddles`, `Fence`, `Geocode` and `Chores` are proved
and in no run.

## Fairness

* `DistanceMeasure`: weak fairness of `SearchCompleted`: MapKit calls the handler
  of every search it started, with a result or an error.
* `Breakout`: weak fairness of the end of each sequence (they have fixed
  durations) and of `FrameEnds` (SpriteKit keeps rendering). Nothing is assumed
  of contacts or touches.
* `Currency`: weak fairness of the end of each download (a session task always
  completes) and of the block on the main queue.
* `SortTable`: weak fairness of `ComparePair`: a handler runs to its end.
* `Motion`: weak fairness of the handler of each sample and of the two halves of
  the block on the main queue: a queue runs what it holds. Nothing is assumed of
  the sensor or the buttons.
* `Paddles`: weak fairness of `Frame` for each paddle: frames are rendered whatever
  the fingers do.
* `Fence`, `Geocode`, `Chores`: none. A fix, an answer or a callback may never come.
* `ToDoManager`, `ToDoList`: none. The user may stop at any point.

## Proofs

TLAPS checks, for any values of the constants that satisfy the named
assumptions:

* `ToDoManagerProofs`, from `DataAssumption` (dates are positive numbers and
  `Absent`, `Blank` and `NoItem` are none of the values they stand beside). The
  properties are not inductive one by one: `TrashedStayGone` needs to know that
  a late `TitleFieldEdited` writes to an object that is gone, `LeavingIsSaved`
  that a save which succeeded left context and disk equal. `IInv` is their
  conjunction with the types, with `StoreValid` (the disk only holds valid
  rows) and `EntityFate` (the editor's entity is alive until the trash button
  and gone after it). `SaveOutcome` and `SavePreserves` say once what a save does
  to all of them; each action then follows from its arguments to the save.
  `Invariance`, `TypeCorrect`, `PendingInsertOnly`, `TrashIsFinal` and
  `LeavingSaves` are consequences; `CrashesOnlyUntitled` and `Refinement` (every
  step is a `Put`, a `Discard` or a stutter of `DurableItems`) are action
  properties from the same invariant. `FieldsFollow` adds `FieldsFollowEntity`
  to it, step by step: a save that succeeds leaves title and date as the editor
  has them, one that fails leaves the editor.
* The list, in the same module. Its invariant `ListIInv` says of the positions
  what the runs check of the rows: the controller's objects enumerate the
  context, each once (`Enumerates`), newest first, and the table shows them one
  by one (`Shows`). `InsertAtElements` and `RemoveAtElements` say what an insertion
  and a removal do to every position of a sequence; `InsertKeepsRows`,
  `DeleteKeepsRows` and `UpdateKeepsRows` carry `Enumerates` and `Shows` through the
  change of one row, and a move is a deletion followed by an insertion. They need
  that a step changes one row of the context at most (`OneRowChanges`), which
  holds because the context is ahead of the disk by one row at most, so that
  losing what is pending, too, changes no more. `PerformFetch` lists the context only if
  it is finite, and `Items` need not be: `Finite` is part of the invariant, one
  object being added at a time (`FinitePreserved`). `TapOpensWhatIsShown` needs
  `Dated`: every object on disk has a date, for otherwise the editor would show
  the picker's own. `ListAddsNothing` shows that the app under its list takes only
  steps of the app, which is why the theorems about `Spec` hold of `ListSpec`.
* `SortTableProofs`, from `StringsAssumption` (strings are ordered as numbers are;
  two of them at first). `IInv` adds to the checked invariants `Carrying`: between
  two comparisons the suffix from `i` on is in order but for the string at `j`,
  which is no smaller than those it has been carried past; and `SameStrings`:
  every string occurs as often as when Sort was tapped, kept because
  `MoveIsExchange` shows that moving a row by one is the exchange of two strings.
  `InBounds`, `RowsInStep` and `SortIsCorrect` follow for arrays of any length.

* `DistanceMeasureProofs`, from `DistanceAssumption` (finitely many destinations; no
  request is `NoRequest`). `OneRequestInFlight` alone does not say that the
  counter is right before the destinations are searched, nor that the request
  the screen waits for still has its callback; `Tracked` adds both. `OneLess` is
  the arithmetic: the counter is zero exactly when the completion at hand was the
  last. `ScreenStep` then shows that every step answers, taps or leaves the
  screen alone, from which `AnswersWhole` and `KeepsCalculation` follow.
* `BreakoutProofs`, from `BreakoutAssumption` (a game has blocks; the sentinels are
  distinct). `NoDeadGame` needs the converse `QueueFits`: a scene is on its way
  only in a game, and only if the game earned it; that is also what `EndsFit`
  rests on.
* `CurrencyProofs`, from `CurrencyAssumption` (the bundled document lists the dollar
  and the currencies of the screen; no table and no label is `Nothing`).
  `OneConversion` does not exclude that a request is in flight twice over, in its
  download and on the main queue; `OneResult` does, and with it the answer to
  the one request in flight leaves none. `OutageNeverKills` spans the end of the
  download and the callback: `OutageBridged` carries what the one delivered, the
  bundled table as it was parsed, to the other, and with `OneConversion` no other
  request can end the process or replace the labels in between.
* `MotionProofs`, from `MotionAssumption`, for any number of samples. `Orderly` is
  what holds until handlers overlap: one runs at a time (`Serial`), so what it
  has read is what the properties hold (`ReadIsCurrent`), the filter is complete
  (`FilterComplete`, which is `LostOnlyIfRaced`), and every rotation on its way or
  on screen is a part of the filter (`RotationsOld`) and so of the numbers read
  later (`NumbersNew`). A step that overlaps sets `raced` and owes nothing more.
* `PaddlesProofs`, from `PaddlesAssumption` (finitely many fingers; `None` is neither
  a finger nor a height). The conjunction of the types with the two invariants is
  inductive: `HeadsForFinger` alone does not know that a followed finger is
  down, so that a touch which begins cannot move it. `TrackSends` says what
  tracking does to both paddles at once.
* `ScreenProofs` holds the proofs of three apps of one screen, which share
  nothing: it extends `Fence`, `Geocode` and `Chores`, in which no name occurs twice
  (`LookUpInit` and `ChoresInit` beside `Init`, and so on).
  `Fence`, from `FenceAssumption` (a finger is no position): `GrantEnables` and
  `OnlyLeftBehind` are inductive as they stand; `MapFollowsFix` is about maps at
  rest and needs `AnimationToFix` for those that move.
  `Geocode`: `FlagTellsLookUp` is inductive as it stands; that the label never
  goes back needs `RequestsAhead`, which puts what the geocoder is asked about
  between the label and the pin. Neither needs the bound `MaxChanges`, which only
  the types do (`LookUpTypeCorrect`, from `GeocodeAssumption`).
  `Chores`: the types with `RollersMirrorDisk` are inductive, and `PersonsGoLast`
  holds of every step by itself, for any sets of chores and persons.

Two theorems state what a liveness property rests on, short of the fairness.
`SortIsBounded` counts down `TurnsLeft`, `i * N - j` while the handler runs: it
starts at the square of `N - 1` and each comparison lowers it, so no array keeps
the main thread longer. For `DecidedGameEnds`, `DecidedEndsDue` finds in every
decided game a scene on its way, a falling ball or an exploding block (from
`NoDeadGame`), and `DecidedForGood` shows that no contact, touch or other end
takes the decision back; the run with fairness shows that what is due happens.

Only model-checked, in the runs: everything temporal beyond safety (`SortEnds`,
`DecidedGameEnds`, `EveryTapAnswered`, `ScreenCatchesUp`, `ReachesFinger`, the
liveness part of `ImplementsCalculation`), which needs fairness and ENABLED and
is out of the provers' reach.

## Not modelled

* Loading of the Core Data store, which is taken to succeed. Saves that fail for
  the disk's reasons are modelled in `Chores`; in `ToDoManager` a save fails only for
  the reason the data model gives.
* What the labels and rows print: number and date formats, units, layout.
* The physics of BreakoutDemo: where balls fly, the damping computed in
  `update:`, the moves of the paddle.
* Of AccelerometerDemo, the static button, which copies the sensor's latest sample
  to a label of its own, and a device without an accelerometer, where every
  button stays disabled.
* Of CoreDataCoursera, names and the text of the log: no log is ever saved.
* Geo Fence Peer Review and MapMyPoints: their map handlers are those of
  GeoFenceDemo01. The former has no switch, `didChangeAuthorizationStatus` starts
  its monitoring; the switch of the latter only starts and stops the updates.
* GrammyPlus: the delegate's handler of the sign-in redirect is misspelled
  (`allication:openURL:`), so iOS never calls it and the states after a sign-in
  are not reached. Playground does not compile. Device Motion Demo asks for
  `castl4.jpg` where the file is `castle4.jpg`, and the array literal the image
  goes into raises at launch.
* The other components marked `not_modelled` in `PROJECT.json` keep no state that
  outlives a handler or are third-party code.
