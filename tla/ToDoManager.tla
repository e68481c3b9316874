---------------------------- MODULE ToDoManager ----------------------------
(***************************************************************************)
(* The ToDoManager app: a list screen, an editor screen and one Core Data  *)
(* context shared by both.  The context (ctx) is what the running process  *)
(* sees, pending inserts included; the store is what a relaunch finds.     *)
(* Handlers run one at a time on the main thread; UIKit chooses when       *)
(* editingDidEnd arrives relative to the screen's disappearance, the user  *)
(* and the system choose everything else.                                  *)
(***************************************************************************)
EXTENDS Naturals

CONSTANTS
  Items,      \* identities of managed objects, never reused once trashed
  Titles,     \* non-empty titles
  Texts,      \* non-empty comments
  Dates,      \* the dates a picker or the clock can produce, as numbers
  PickerDefault,  \* the date the storyboard gives a new picker
  Blank,      \* nil or the empty string: both show as an empty field
  Absent,     \* an object that the context or the store does not hold
  NoItem      \* the editor's entity when there is no editor

NoDate == 0   \* a nil lastUpdateDateTime sorts before every date

TitleText == Titles \cup {Blank}
DetailText == Texts \cup {Blank}
Row == [title : TitleText, details : DetailText, date : Dates \cup {NoDate}]

(* The data model: toDoTitle is not optional and has at least one          *)
(* character, the other two attributes are optional.                       *)
ValidRow == [title : Titles, details : DetailText, date : Dates \cup {NoDate}]

EmptyRow == [title |-> Blank, details |-> Blank, date |-> NoDate]

ASSUME DataAssumption ==
  /\ Dates \subseteq Nat \ {0}
  /\ PickerDefault \in Dates
  /\ Absent \notin Row
  /\ Blank \notin Titles \cup Texts
  /\ NoItem \notin Items

VARIABLES
  store,          \* the rows on disk
  ctx,            \* the rows in viewContext
  screen,         \* what is on screen, or how the process ended
  cur,            \* localToDoEntity of the editor
  titleField, commentsField, picker,   \* the editor's three inputs
  wasDeleted,     \* the editor's flag
  focus,          \* which of its text inputs is first responder
  turned,         \* the picker was turned, its editingDidEnd has not come
  trashed         \* history: the items the user has trashed

fields == <<titleField, commentsField, picker>>
editor == <<cur, fields, wasDeleted, focus, turned>>
vars == <<store, ctx, screen, editor, trashed>>

Screens == {"list", "editor", "leaving", "off", "crashed"}
Running == screen \in {"list", "editor", "leaving"}

TypeOK ==
  /\ store \in [Items -> Row \cup {Absent}]
  /\ ctx \in [Items -> Row \cup {Absent}]
  /\ screen \in Screens
  /\ cur \in Items \cup {NoItem}
  /\ screen \in {"editor", "leaving"} => cur \in Items
  /\ titleField \in TitleText
  /\ commentsField \in DetailText
  /\ picker \in Dates \cup {NoDate}
  /\ wasDeleted \in BOOLEAN
  /\ focus \in {"none", "title", "comments"}
  /\ turned \in BOOLEAN
  /\ trashed \subseteq Items

Live(c) == {i \in Items : c[i] # Absent}

(* Validation, as Core Data runs it over every object it is about to save. *)
AllValid(c) == \A i \in Items : c[i] \in ValidRow \cup {Absent}

----------------------------------------------------------------------------
(* Building blocks of the handlers.                                        *)

NoEditor ==
  /\ cur' = NoItem
  /\ titleField' = Blank /\ commentsField' = Blank /\ picker' = NoDate
  /\ wasDeleted' = FALSE /\ focus' = "none" /\ turned' = FALSE

(* Mutant: the data model does not require a title. *)
SaveUnvalidated(c, next) == ctx' = c /\ store' = c /\ screen' = next

(* save: with the context's contents at c; it throws or aborts when an     *)
(* object does not validate, which ends the process.                       *)
SaveMyToDoEntity(c, next) ==
  \/ /\ AllValid(c)
     /\ ctx' = c /\ store' = c /\ screen' = next
  \/ /\ ~AllValid(c)
     /\ ctx' = store /\ UNCHANGED store /\ screen' = "crashed"

(* A property set on an object that was deleted and saved reaches no       *)
(* context.                                                                *)
WithTitleAndDate(d) ==
  IF ctx[cur] = Absent THEN ctx
  ELSE [ctx EXCEPT ![cur].title = titleField, ![cur].date = d]

WithDate ==
  IF ctx[cur] = Absent THEN ctx ELSE [ctx EXCEPT ![cur].date = picker]

WithAllFields ==
  [ctx EXCEPT ![cur] = [title |-> titleField, details |-> commentsField, date |-> picker]]

(* Mutant: the picker is not set from the entity. *)
ViewWillAppearPickerUnset(row, shown) ==
  /\ wasDeleted' = FALSE
  /\ titleField' = row.title /\ commentsField' = row.details
  /\ picker' = shown

(* viewWillAppear: a nil date leaves the picker at whatever it shows.      *)
ViewWillAppear(row, shown) ==
  /\ wasDeleted' = FALSE
  /\ titleField' = row.title
  /\ commentsField' = row.details
  /\ picker' = IF row.date = NoDate THEN shown ELSE row.date

----------------------------------------------------------------------------
(* The process.                                                            *)

Init ==
  /\ store = [i \in Items |-> Absent]
  /\ ctx = store
  /\ screen = "list"
  /\ cur = NoItem /\ titleField = Blank /\ commentsField = Blank
  /\ picker = NoDate /\ wasDeleted = FALSE /\ focus = "none" /\ turned = FALSE
  /\ trashed = {}

Launch ==
  /\ ~Running
  /\ screen' = "list"
  /\ ctx' = store
  /\ NoEditor
  /\ UNCHANGED <<store, trashed>>

(* applicationWillTerminate: saveContext, which aborts when save fails.    *)
Terminate ==
  /\ Running
  /\ SaveMyToDoEntity(ctx, "off")
  /\ UNCHANGED <<editor, trashed>>

(* The system kills the process and tells it nothing.                      *)
Kill ==
  /\ Running
  /\ screen' = "off"
  /\ ctx' = store
  /\ UNCHANGED <<store, editor, trashed>>

----------------------------------------------------------------------------
(* The list: prepareForSegue, then the editor's viewWillAppear.  Add       *)
(* inserts an object with no attribute set, and does not save it.          *)

(* Mutant: the new entity is not handed to the editor. *)
AddTappedNoEntity(i) ==
  /\ screen = "list"
  /\ ctx[i] = Absent /\ store[i] = Absent /\ i \notin trashed
  /\ ctx' = [ctx EXCEPT ![i] = EmptyRow]
  /\ ViewWillAppear(EmptyRow, PickerDefault)
  /\ screen' = "editor" /\ focus' = "none" /\ turned' = FALSE
  /\ UNCHANGED <<store, cur, trashed>>

AddTapped(i) ==
  /\ screen = "list"
  /\ ctx[i] = Absent /\ store[i] = Absent /\ i \notin trashed
  /\ ctx' = [ctx EXCEPT ![i] = EmptyRow]
  /\ cur' = i
  /\ ViewWillAppear(EmptyRow, PickerDefault)
  /\ screen' = "editor" /\ focus' = "none" /\ turned' = FALSE
  /\ UNCHANGED <<store, trashed>>

RowTapped(i) ==
  /\ screen = "list"
  /\ ctx[i] # Absent
  /\ cur' = i
  /\ ViewWillAppear(ctx[i], PickerDefault)
  /\ screen' = "editor" /\ focus' = "none" /\ turned' = FALSE
  /\ UNCHANGED <<store, ctx, trashed>>

----------------------------------------------------------------------------
(* The editor.                                                             *)

TypeTitle(t) ==
  /\ screen = "editor" /\ focus = "title"
  /\ titleField' = t
  /\ UNCHANGED <<store, ctx, screen, cur, commentsField, picker, wasDeleted, focus, turned, trashed>>

TypeComments(t) ==
  /\ screen = "editor" /\ focus = "comments"
  /\ commentsField' = t
  /\ UNCHANGED <<store, ctx, screen, cur, titleField, picker, wasDeleted, focus, turned, trashed>>

BeginEditing(f) ==
  /\ screen = "editor" /\ focus = "none"
  /\ focus' = f
  /\ UNCHANGED <<store, ctx, screen, cur, fields, wasDeleted, turned, trashed>>

(* The text view posts its end-of-editing notification with itself as the  *)
(* object; the editor observes only those whose object is the editor, so   *)
(* its handler saves nothing.                                              *)
EndCommentsEditing(f) ==
  /\ screen \in {"editor", "leaving"} /\ focus = "comments"
  /\ screen = "leaving" => f = "none"
  /\ focus' = f
  /\ UNCHANGED <<store, ctx, screen, cur, fields, wasDeleted, turned, trashed>>

(* Mutant: the picker is not moved to the new date. *)
TitleEditedPickerKept(f) ==
  /\ screen \in {"editor", "leaving"} /\ focus = "title"
  /\ screen = "leaving" => f = "none"
  /\ focus' = f
  /\ \E newDate \in Dates : SaveMyToDoEntity(WithTitleAndDate(newDate), screen)
  /\ UNCHANGED <<cur, fields, wasDeleted, turned, trashed>>

(* editingDidEnd of the title field, also when it arrives after            *)
(* viewWillDisappear or after the entity was trashed.                      *)
TitleFieldEdited(f) ==
  /\ screen \in {"editor", "leaving"} /\ focus = "title"
  /\ screen = "leaving" => f = "none"
  /\ focus' = f
  /\ \E newDate \in Dates :
       /\ picker' = newDate
       /\ SaveMyToDoEntity(WithTitleAndDate(newDate), screen)
  /\ UNCHANGED <<cur, titleField, commentsField, wasDeleted, turned, trashed>>

(* Turning the wheels changes only what the picker shows.                  *)
TurnPicker(d) ==
  /\ screen = "editor"
  /\ picker' = d /\ turned' = TRUE
  /\ UNCHANGED <<store, ctx, screen, cur, titleField, commentsField, wasDeleted, focus, trashed>>

(* Mutant: the date is set and left unsaved. *)
DueDateEditedUnsaved ==
  /\ screen \in {"editor", "leaving"} /\ turned
  /\ turned' = FALSE
  /\ ctx' = WithDate
  /\ UNCHANGED <<store, screen, cur, fields, wasDeleted, focus, trashed>>

(* dueDateEdited is wired to the picker's editingDidEnd, not to its        *)
(* valueChanged: it runs some time after a turn, or never.                 *)
DueDateEdited ==
  /\ screen \in {"editor", "leaving"} /\ turned
  /\ turned' = FALSE
  /\ SaveMyToDoEntity(WithDate, screen)
  /\ UNCHANGED <<cur, fields, wasDeleted, focus, trashed>>

(* Mutant: the object is deleted and the deletion left unsaved. *)
TrashTappedUnsaved ==
  /\ screen = "editor"
  /\ wasDeleted' = TRUE
  /\ trashed' = trashed \cup {cur}
  /\ ctx' = [ctx EXCEPT ![cur] = Absent]
  /\ screen' = "leaving"
  /\ UNCHANGED <<store, cur, fields, focus, turned>>

TrashTapped ==
  /\ screen = "editor"
  /\ wasDeleted' = TRUE
  /\ trashed' = trashed \cup {cur}
  /\ SaveMyToDoEntity([ctx EXCEPT ![cur] = Absent], "leaving")
  /\ UNCHANGED <<cur, fields, focus, turned>>

(* Mutant: leaving saves nothing. *)
ViewWillDisappearUnsaved ==
  /\ screen = "editor" /\ ~wasDeleted
  /\ ctx' = WithAllFields
  /\ screen' = "leaving"
  /\ UNCHANGED <<store, editor, trashed>>

(* The back button or a back swipe: viewWillDisappear of an entity that    *)
(* was not trashed.  After TrashTapped it does nothing to the context.     *)
ViewWillDisappear ==
  /\ screen = "editor" /\ ~wasDeleted
  /\ SaveMyToDoEntity(WithAllFields, "leaving")
  /\ UNCHANGED <<editor, trashed>>

(* A back swipe let go half-way: viewWillAppear once more.                 *)
SwipeCancelled ==
  /\ screen = "leaving" /\ ~wasDeleted
  /\ ViewWillAppear(ctx[cur], picker)
  /\ screen' = "editor"
  /\ UNCHANGED <<store, ctx, cur, focus, turned, trashed>>

(* The transition ends and the editor is deallocated.                      *)
Popped ==
  /\ screen = "leaving"
  /\ screen' = "list"
  /\ NoEditor
  /\ UNCHANGED <<store, ctx, trashed>>

EditorStep ==
  \/ \E t \in TitleText : TypeTitle(t)
  \/ \E t \in DetailText : TypeComments(t)
  \/ \E f \in {"title", "comments"} : BeginEditing(f)
  \/ \E f \in {"none", "title"} : EndCommentsEditing(f)
  \/ \E f \in {"none", "comments"} : TitleFieldEdited(f)
  \/ \E d \in Dates : TurnPicker(d)
  \/ DueDateEdited
  \/ TrashTapped
  \/ ViewWillDisappear
  \/ SwipeCancelled
  \/ Popped

ProcessStep == Launch \/ Terminate \/ Kill

ListStep == \E i \in Items : AddTapped(i) \/ RowTapped(i)

Next == ListStep \/ EditorStep \/ ProcessStep

Spec == Init /\ [][Next]_vars

----------------------------------------------------------------------------
(* The context is ahead of the disk by at most the item that Add has just  *)
(* inserted, and only in its editor: whatever way the editor is left, the  *)
(* list shows nothing that a relaunch would not (prepareForSegue inserts   *)
(* without saving, the handlers save one by one).                          *)
OnlyInsertPending ==
  \/ ctx = store
  \/ /\ screen = "editor"
     /\ store[cur] = Absent
     /\ ctx = [store EXCEPT ![cur] = EmptyRow]

(* A trashed item never comes back, on the list or after a relaunch, even  *)
(* when the title field's editingDidEnd, the picker's, or the screen's     *)
(* disappearance is handled after the trash button.                        *)
TrashedStayGone == \A i \in trashed : ctx[i] = Absent /\ store[i] = Absent

(* While the editor leaves, what it shows is what is on disk, whichever of *)
(* viewWillDisappear and the late editingDidEnd handlers came last.        *)
LeavingIsSaved ==
  screen = "leaving" /\ ~wasDeleted =>
    store[cur] = [title |-> titleField, details |-> commentsField, date |-> picker]

(* In the editor, a field differs from the entity only while the user is   *)
(* at it: the title while it is first responder, the date from a turn of   *)
(* the wheels to their editingDidEnd, or as long as the entity has none.   *)
FieldsFollowEntity ==
  screen = "editor" =>
    /\ ctx[cur] # Absent
    /\ ctx[cur].title = titleField \/ focus = "title"
    /\ ctx[cur].date \in {picker, NoDate} \/ turned

(* The process dies of a failed save only in an editor whose item has no   *)
(* title, in the entity or in the field: the trash button, a relaunch or a *)
(* termination from the list never do it.                                  *)
CrashNeedsBlankTitle ==
  [][screen # "crashed" /\ screen' = "crashed" =>
       /\ screen = "editor" /\ trashed' = trashed
       /\ ctx[cur].title = Blank \/ titleField = Blank]_vars

(* The disk behaves as DurableItems promises: only complete items, one per *)
(* save, none after it was trashed.                                        *)
Durable == INSTANCE DurableItems WITH Complete <- ValidRow, rows <- store, gone <- trashed
ImplementsDurableItems == Durable!Spec
============================================================================
