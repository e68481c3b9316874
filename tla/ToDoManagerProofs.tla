------------------------- MODULE ToDoManagerProofs -------------------------
(***************************************************************************)
(* Proofs about the ToDoManager app and its list, for any number of items, *)
(* titles, comments and dates.                                             *)
(***************************************************************************)
EXTENDS ToDoList, FiniteSetTheorems, SequenceTheorems, TLAPS

(* What holds of the editor's entity: it is alive and not trashed until    *)
(* the trash button, gone afterwards, and saved once the screen leaves.    *)
EntityFate ==
  /\ screen = "editor" => ~wasDeleted
  /\ screen \in {"editor", "leaving"} /\ ~wasDeleted => ctx[cur] # Absent
  /\ screen = "leaving" /\ wasDeleted => ctx[cur] = Absent

(* The disk holds complete items only.                                     *)
StoreValid == AllValid(store)

IInv ==
  /\ TypeOK
  /\ StoreValid
  /\ OnlyInsertPending
  /\ TrashedStayGone
  /\ LeavingIsSaved
  /\ EntityFate

Contents == [Items -> Row \cup {Absent}]

(* A save ends with the context equal to the disk and the disk valid, and  *)
(* either it wrote what it was given or the process died.                  *)
LEMMA SaveOutcome ==
  ASSUME TypeOK, StoreValid, NEW c \in Contents, NEW next \in Screens,
         SaveMyToDoEntity(c, next)
  PROVE  /\ ctx' = store'
         /\ ctx' \in Contents /\ store' \in Contents
         /\ screen' \in Screens
         /\ StoreValid'
         /\ \/ store' = c /\ screen' = next
            \/ store' = store /\ screen' = "crashed"
  BY DEF SaveMyToDoEntity, TypeOK, StoreValid, AllValid, Contents, Screens

(* What the handlers hand to save is again a context.                      *)
LEMMA HandedOver ==
  ASSUME IInv, screen \in {"editor", "leaving"}
  PROVE  /\ \A d \in Dates \cup {NoDate} :
              /\ WithTitleAndDate(d) \in Contents
              /\ \A i \in Items : i # cur => WithTitleAndDate(d)[i] = ctx[i]
              /\ ctx[cur] = Absent => WithTitleAndDate(d) = ctx
              /\ ctx[cur] # Absent => WithTitleAndDate(d)[cur] =
                   [title |-> titleField, details |-> ctx[cur].details, date |-> d]
         /\ WithDate \in Contents
         /\ \A i \in Items : i # cur => WithDate[i] = ctx[i]
         /\ ctx[cur] = Absent => WithDate = ctx
         /\ ctx[cur] # Absent => WithDate[cur] =
              [title |-> ctx[cur].title, details |-> ctx[cur].details, date |-> picker]
         /\ WithAllFields \in Contents
         /\ \A i \in Items : i # cur => WithAllFields[i] = ctx[i]
         /\ WithAllFields[cur] =
              [title |-> titleField, details |-> commentsField, date |-> picker]
<1> USE DEF Contents
<1>1. cur \in Items /\ ctx \in Contents /\ titleField \in TitleText
      /\ commentsField \in DetailText /\ picker \in Dates \cup {NoDate}
  BY DEF IInv, TypeOK
<1>2. ctx[cur] # Absent => ctx[cur] \in Row
  BY <1>1
<1>3. ASSUME NEW d \in Dates \cup {NoDate}
      PROVE  /\ WithTitleAndDate(d) \in Contents
             /\ \A i \in Items : i # cur => WithTitleAndDate(d)[i] = ctx[i]
             /\ ctx[cur] = Absent => WithTitleAndDate(d) = ctx
             /\ ctx[cur] # Absent => WithTitleAndDate(d)[cur] =
                  [title |-> titleField, details |-> ctx[cur].details, date |-> d]
  BY <1>1, <1>2 DEF WithTitleAndDate, Row
<1>4. /\ WithDate \in Contents
      /\ \A i \in Items : i # cur => WithDate[i] = ctx[i]
      /\ ctx[cur] = Absent => WithDate = ctx
      /\ ctx[cur] # Absent => WithDate[cur] =
           [title |-> ctx[cur].title, details |-> ctx[cur].details, date |-> picker]
  BY <1>1, <1>2 DEF WithDate, Row
<1>5. /\ WithAllFields \in Contents
      /\ \A i \in Items : i # cur => WithAllFields[i] = ctx[i]
      /\ WithAllFields[cur] =
           [title |-> titleField, details |-> commentsField, date |-> picker]
  BY <1>1 DEF WithAllFields, Row
<1>6. QED
  BY <1>3, <1>4, <1>5

----------------------------------------------------------------------------
(* The parts of the invariant after a save: with the context equal to the  *)
(* disk, only the trashed items and the leaving editor remain to be        *)
(* checked.                                                                *)
LEMMA SavePreserves ==
  ASSUME IInv, screen \in {"editor", "leaving"},
         NEW c \in Contents, NEW next \in {"editor", "leaving"},
         \A i \in Items : i # cur => c[i] = ctx[i],
         SaveMyToDoEntity(c, next)
  PROVE  /\ ctx' = store'
         /\ ctx' \in Contents
         /\ screen' \in {next, "crashed"}
         /\ StoreValid'
         /\ \A i \in trashed \ {cur} : ctx'[i] = Absent
         /\ screen' = next => store' = c
<1>1. TypeOK /\ StoreValid /\ TrashedStayGone
  BY DEF IInv
<1>2. /\ ctx' = store'
      /\ ctx' \in Contents /\ StoreValid'
      /\ \/ store' = c /\ screen' = next
         \/ store' = store /\ screen' = "crashed"
  BY <1>1, SaveOutcome DEF Screens
<1>3. next # "crashed"
  OBVIOUS
<1>4. ASSUME NEW i \in trashed \ {cur} PROVE ctx'[i] = Absent
  <2>1. i \in Items /\ ctx[i] = Absent /\ store[i] = Absent
    BY <1>1, <1>4 DEF TypeOK, TrashedStayGone
  <2>2. QED
    BY <1>2, <2>1, <1>4
<1>5. QED
  BY <1>2, <1>3, <1>4

(* The pending insert of a context that is ahead of the disk.              *)
LEMMA Ahead ==
  ASSUME IInv
  PROVE  /\ screen # "editor" => ctx = store
         /\ \A i \in Items : i # cur => ctx[i] = store[i]
  BY DEF IInv, OnlyInsertPending, TypeOK

LEMMA InitEstablishes == Init => IInv
  BY DataAssumption
     DEF Init, IInv, TypeOK, StoreValid, AllValid, OnlyInsertPending, TrashedStayGone,
         LeavingIsSaved, EntityFate, Screens, TitleText, DetailText

LEMMA LaunchPreserves == IInv /\ Launch => IInv'
  BY DEF IInv, Launch, NoEditor, Running, TypeOK, StoreValid, AllValid, OnlyInsertPending,
         TrashedStayGone, LeavingIsSaved, EntityFate, Screens, TitleText, DetailText

LEMMA KillPreserves == IInv /\ Kill => IInv'
  BY DEF IInv, Kill, Running, TypeOK, StoreValid, AllValid, OnlyInsertPending,
         TrashedStayGone, LeavingIsSaved, EntityFate, Screens, editor, fields

LEMMA TerminatePreserves == IInv /\ Terminate => IInv'
<1> SUFFICES ASSUME IInv, Terminate PROVE IInv'
  OBVIOUS
<1>1. TypeOK /\ StoreValid /\ ctx \in Contents
  BY DEF IInv, TypeOK, Contents
<1>2. SaveMyToDoEntity(ctx, "off") /\ UNCHANGED <<editor, trashed>>
  BY DEF Terminate
<1>3. /\ ctx' = store' /\ ctx' \in Contents /\ StoreValid'
      /\ screen' \in {"off", "crashed"}
      /\ store' \in {ctx, store}
  BY <1>1, <1>2, SaveOutcome DEF Screens
<1>4. TrashedStayGone'
  BY <1>2, <1>3 DEF IInv, TrashedStayGone
<1>5. TypeOK'
  BY <1>1, <1>2, <1>3 DEF TypeOK, Contents, editor, fields, Screens
<1>6. QED
  BY <1>3, <1>4, <1>5 DEF IInv, OnlyInsertPending, LeavingIsSaved, EntityFate

LEMMA ListPreserves == IInv /\ ListStep => IInv'
<1> SUFFICES ASSUME IInv, NEW i \in Items, AddTapped(i) \/ RowTapped(i) PROVE IInv'
  BY DEF ListStep
<1>1. ctx = store /\ TypeOK
  BY Ahead DEF IInv, AddTapped, RowTapped
<1>2. CASE AddTapped(i)
  <2>1. EmptyRow \in Row /\ EmptyRow # Absent /\ PickerDefault \in Dates
    BY DataAssumption DEF EmptyRow, Row, TitleText, DetailText
  <2>2. TypeOK'
    BY <1>1, <1>2, <2>1
       DEF AddTapped, TypeOK, ViewWillAppear, Screens, EmptyRow, Row, TitleText, DetailText
  <2>3. QED
    BY <1>1, <1>2, <2>1, <2>2
       DEF AddTapped, IInv, TypeOK, ViewWillAppear, StoreValid, AllValid, OnlyInsertPending,
           TrashedStayGone, LeavingIsSaved, EntityFate
<1>3. CASE RowTapped(i)
  <2>1. ctx[i] \in Row /\ PickerDefault \in Dates
    BY <1>1, <1>3, DataAssumption DEF RowTapped, TypeOK
  <2>2. TypeOK'
    BY <1>1, <1>3, <2>1 DEF RowTapped, TypeOK, ViewWillAppear, Screens, Row
  <2>3. QED
    BY <1>1, <1>3, <2>2
       DEF RowTapped, IInv, ViewWillAppear, StoreValid, AllValid, OnlyInsertPending,
           TrashedStayGone, LeavingIsSaved, EntityFate
<1>4. QED
  BY <1>2, <1>3

----------------------------------------------------------------------------
(* The editor's actions that change no row.                                *)
LEMMA QuietPreserves ==
  ASSUME IInv,
         \/ \E t \in TitleText : TypeTitle(t)
         \/ \E t \in DetailText : TypeComments(t)
         \/ \E f \in {"title", "comments"} : BeginEditing(f)
         \/ \E f \in {"none", "title"} : EndCommentsEditing(f)
         \/ \E d \in Dates : TurnPicker(d)
         \/ SwipeCancelled
         \/ Popped
  PROVE  IInv'
<1>1. CASE \E t \in TitleText : TypeTitle(t)
  BY <1>1 DEF TypeTitle, IInv, TypeOK, StoreValid, AllValid, OnlyInsertPending,
       TrashedStayGone, LeavingIsSaved, EntityFate
<1>2. CASE \E t \in DetailText : TypeComments(t)
  BY <1>2 DEF TypeComments, IInv, TypeOK, StoreValid, AllValid, OnlyInsertPending,
       TrashedStayGone, LeavingIsSaved, EntityFate
<1>3. CASE \E f \in {"title", "comments"} : BeginEditing(f)
  BY <1>3 DEF BeginEditing, fields, IInv, TypeOK, StoreValid, AllValid, OnlyInsertPending,
       TrashedStayGone, LeavingIsSaved, EntityFate
<1>4. CASE \E f \in {"none", "title"} : EndCommentsEditing(f)
  BY <1>4 DEF EndCommentsEditing, fields, IInv, TypeOK, StoreValid, AllValid,
       OnlyInsertPending, TrashedStayGone, LeavingIsSaved, EntityFate
<1>5. CASE \E d \in Dates : TurnPicker(d)
  BY <1>5 DEF TurnPicker, IInv, TypeOK, StoreValid, AllValid, OnlyInsertPending,
       TrashedStayGone, LeavingIsSaved, EntityFate
<1>6. CASE SwipeCancelled
  <2>1. ctx = store /\ ctx[cur] \in Row /\ picker \in Dates \cup {NoDate}
    BY <1>6, Ahead DEF SwipeCancelled, IInv, TypeOK, EntityFate
  <2>2. TypeOK'
    BY <1>6, <2>1 DEF SwipeCancelled, ViewWillAppear, IInv, TypeOK, Screens, Row
  <2>3. QED
    BY <1>6, <2>1, <2>2
       DEF SwipeCancelled, ViewWillAppear, IInv, StoreValid, AllValid, OnlyInsertPending,
           TrashedStayGone, LeavingIsSaved, EntityFate
<1>7. CASE Popped
  <2>1. ctx = store
    BY <1>7, Ahead DEF Popped
  <2>2. QED
    BY <1>7, <2>1
       DEF Popped, NoEditor, IInv, TypeOK, Screens, TitleText, DetailText, StoreValid, AllValid,
           OnlyInsertPending, TrashedStayGone, LeavingIsSaved, EntityFate
<1>8. QED
  BY <1>1, <1>2, <1>3, <1>4, <1>5, <1>6, <1>7

LEMMA TitleEditedPreserves ==
  ASSUME IInv, NEW f \in {"none", "comments"}, TitleFieldEdited(f)
  PROVE  IInv'
<1>1. PICK d \in Dates : picker' = d /\ SaveMyToDoEntity(WithTitleAndDate(d), screen)
  BY DEF TitleFieldEdited
<1>2. /\ screen \in {"editor", "leaving"}
      /\ UNCHANGED <<cur, titleField, commentsField, wasDeleted, turned, trashed>>
      /\ focus' \in {"none", "comments"}
  BY DEF TitleFieldEdited
<1>3. TypeOK /\ TrashedStayGone /\ LeavingIsSaved /\ EntityFate /\ cur \in Items
  BY <1>2 DEF IInv, TypeOK
<1>4. /\ WithTitleAndDate(d) \in Contents
      /\ \A i \in Items : i # cur => WithTitleAndDate(d)[i] = ctx[i]
      /\ ctx[cur] = Absent => WithTitleAndDate(d) = ctx
      /\ ctx[cur] # Absent => WithTitleAndDate(d)[cur] =
           [title |-> titleField, details |-> ctx[cur].details, date |-> d]
  BY <1>2, HandedOver
<1>5. /\ ctx' = store' /\ ctx' \in Contents
      /\ screen' \in {screen, "crashed"}
      /\ StoreValid'
      /\ \A i \in trashed \ {cur} : ctx'[i] = Absent
      /\ screen' = screen => store' = WithTitleAndDate(d)
  BY <1>1, <1>2, <1>4, SavePreserves
<1>6. screen' = "crashed" => store' = store
  BY <1>1, <1>2 DEF SaveMyToDoEntity
<1>7. TrashedStayGone'
  <2>1. cur \in trashed => ctx'[cur] = Absent
    BY <1>2, <1>3, <1>4, <1>5, <1>6 DEF TrashedStayGone
  <2>2. QED
    BY <1>2, <1>5, <2>1 DEF TrashedStayGone
<1>8. TypeOK'
  BY <1>1, <1>2, <1>3, <1>5 DEF TypeOK, Contents, Screens
<1>9. [title |-> titleField, details |-> commentsField, date |-> d] # Absent
  BY <1>3, DataAssumption DEF TypeOK, Row
<1>10. LeavingIsSaved' /\ EntityFate'
  <2>1. ctx[cur] # Absent =>
          [title |-> titleField, details |-> ctx[cur].details, date |-> d] # Absent
    BY <1>3, DataAssumption DEF TypeOK, Row
  <2>2. CASE screen' = "crashed"
    BY <2>2 DEF LeavingIsSaved, EntityFate
  <2>3. CASE screen' = "editor"
    BY <2>1, <2>3, <1>2, <1>3, <1>4, <1>5 DEF LeavingIsSaved, EntityFate
  <2>4. CASE screen' = "leaving" /\ wasDeleted
    BY <2>4, <1>2, <1>3, <1>4, <1>5 DEF LeavingIsSaved, EntityFate
  <2>5. CASE screen' = "leaving" /\ ~wasDeleted
    <3>1. screen = "leaving" /\ ctx = store /\ ctx[cur] # Absent
      BY <2>5, <1>2, <1>3, <1>5, Ahead DEF EntityFate
    <3>2. ctx[cur].details = commentsField
      BY <3>1, <2>5, <1>3 DEF LeavingIsSaved
    <3>3. store'[cur] = [title |-> titleField, details |-> commentsField, date |-> d]
      BY <3>1, <3>2, <2>5, <1>4, <1>5
    <3>4. QED
      BY <3>3, <2>5, <1>1, <1>2, <1>5, <1>9 DEF LeavingIsSaved, EntityFate
  <2>6. QED
    BY <2>2, <2>3, <2>4, <2>5, <1>2, <1>5
<1>11. QED
  BY <1>5, <1>7, <1>8, <1>10 DEF IInv, OnlyInsertPending

LEMMA DueDatePreserves == ASSUME IInv, DueDateEdited PROVE IInv'
<1>1. /\ screen \in {"editor", "leaving"}
      /\ SaveMyToDoEntity(WithDate, screen)
      /\ UNCHANGED <<cur, titleField, commentsField, picker, wasDeleted, focus, trashed>>
      /\ turned' = FALSE
  BY DEF DueDateEdited, fields
<1>2. TypeOK /\ TrashedStayGone /\ LeavingIsSaved /\ EntityFate /\ cur \in Items
  BY <1>1 DEF IInv, TypeOK
<1>3. /\ WithDate \in Contents
      /\ \A i \in Items : i # cur => WithDate[i] = ctx[i]
      /\ ctx[cur] = Absent => WithDate = ctx
      /\ ctx[cur] # Absent => WithDate[cur] =
           [title |-> ctx[cur].title, details |-> ctx[cur].details, date |-> picker]
  BY <1>1, HandedOver
<1>4. /\ ctx' = store' /\ ctx' \in Contents
      /\ screen' \in {screen, "crashed"}
      /\ StoreValid'
      /\ \A i \in trashed \ {cur} : ctx'[i] = Absent
      /\ screen' = screen => store' = WithDate
  BY <1>1, <1>3, SavePreserves
<1>5. screen' = "crashed" => store' = store
  BY <1>1 DEF SaveMyToDoEntity
<1>6. TrashedStayGone'
  <2>1. cur \in trashed => ctx'[cur] = Absent
    BY <1>1, <1>2, <1>3, <1>4, <1>5 DEF TrashedStayGone
  <2>2. QED
    BY <1>1, <1>4, <2>1 DEF TrashedStayGone
<1>7. TypeOK'
  BY <1>1, <1>2, <1>4 DEF TypeOK, Contents, Screens
<1>8. LeavingIsSaved' /\ EntityFate'
  <2>1. ctx[cur] # Absent =>
          [title |-> ctx[cur].title, details |-> ctx[cur].details, date |-> picker] # Absent
    BY <1>2, DataAssumption DEF TypeOK, Row
  <2>2. CASE screen' = "crashed"
    BY <2>2 DEF LeavingIsSaved, EntityFate
  <2>3. CASE screen' = "editor"
    BY <2>1, <2>3, <1>1, <1>2, <1>3, <1>4 DEF LeavingIsSaved, EntityFate
  <2>4. CASE screen' = "leaving" /\ wasDeleted
    BY <2>4, <1>1, <1>2, <1>3, <1>4 DEF LeavingIsSaved, EntityFate
  <2>5. CASE screen' = "leaving" /\ ~wasDeleted
    <3>1. screen = "leaving" /\ ctx = store /\ ctx[cur] # Absent
      BY <2>5, <1>1, <1>2, <1>4, Ahead DEF EntityFate
    <3>2. ctx[cur].title = titleField /\ ctx[cur].details = commentsField
      BY <3>1, <2>5, <1>2 DEF LeavingIsSaved
    <3>3. QED
      BY <3>1, <3>2, <2>1, <2>5, <1>1, <1>3, <1>4 DEF LeavingIsSaved, EntityFate
  <2>6. QED
    BY <2>2, <2>3, <2>4, <2>5, <1>1, <1>4
<1>9. QED
  BY <1>4, <1>6, <1>7, <1>8 DEF IInv, OnlyInsertPending

(* The trash button never fails to save: what is left is what was on disk. *)
LEMMA TrashSaves ==
  ASSUME IInv, TrashTapped
  PROVE  /\ cur \in Items
         /\ [ctx EXCEPT ![cur] = Absent] = [store EXCEPT ![cur] = Absent]
         /\ AllValid([ctx EXCEPT ![cur] = Absent])
         /\ store' = [store EXCEPT ![cur] = Absent] /\ ctx' = store'
         /\ screen' = "leaving"
<1>1. cur \in Items /\ ctx \in Contents /\ store \in Contents /\ screen = "editor"
  BY DEF TrashTapped, IInv, TypeOK, Contents
<1>2. [ctx EXCEPT ![cur] = Absent] = [store EXCEPT ![cur] = Absent]
  BY <1>1, Ahead DEF Contents
<1>3. AllValid([ctx EXCEPT ![cur] = Absent])
  BY <1>1, <1>2 DEF IInv, StoreValid, AllValid, Contents
<1>4. SaveMyToDoEntity([ctx EXCEPT ![cur] = Absent], "leaving")
  BY DEF TrashTapped
<1>5. QED
  BY <1>1, <1>2, <1>3, <1>4 DEF SaveMyToDoEntity

LEMMA TrashPreserves == ASSUME IInv, TrashTapped PROVE IInv'
<1>1. /\ cur \in Items
      /\ store' = [store EXCEPT ![cur] = Absent] /\ ctx' = store'
      /\ screen' = "leaving"
  BY TrashSaves
<1>2. /\ wasDeleted' = TRUE /\ trashed' = trashed \cup {cur}
      /\ UNCHANGED <<cur, titleField, commentsField, picker, focus, turned>>
  BY DEF TrashTapped, fields
<1>3. TypeOK'
  BY <1>1, <1>2 DEF IInv, TypeOK, Screens
<1>4. StoreValid' /\ TrashedStayGone'
  BY <1>1, <1>2 DEF IInv, TypeOK, StoreValid, AllValid, TrashedStayGone
<1>5. LeavingIsSaved' /\ EntityFate'
  BY <1>1, <1>2 DEF IInv, TypeOK, LeavingIsSaved, EntityFate
<1>6. QED
  BY <1>1, <1>3, <1>4, <1>5 DEF IInv, OnlyInsertPending

LEMMA DisappearPreserves == ASSUME IInv, ViewWillDisappear PROVE IInv'
<1>1. /\ screen = "editor" /\ ~wasDeleted
      /\ SaveMyToDoEntity(WithAllFields, "leaving")
      /\ UNCHANGED <<cur, titleField, commentsField, picker, wasDeleted, focus, turned, trashed>>
  BY DEF ViewWillDisappear, editor, fields
<1>2. /\ WithAllFields \in Contents
      /\ \A i \in Items : i # cur => WithAllFields[i] = ctx[i]
      /\ WithAllFields[cur] =
           [title |-> titleField, details |-> commentsField, date |-> picker]
  BY <1>1, HandedOver
<1>3. /\ ctx' = store' /\ ctx' \in Contents
      /\ screen' \in {"leaving", "crashed"}
      /\ StoreValid'
      /\ \A i \in trashed \ {cur} : ctx'[i] = Absent
      /\ screen' = "leaving" => store' = WithAllFields
  BY <1>1, <1>2, SavePreserves
<1>4. TypeOK /\ cur \in Items /\ ctx[cur] # Absent /\ cur \notin trashed
  BY <1>1 DEF IInv, TypeOK, EntityFate, TrashedStayGone
<1>5. TypeOK'
  BY <1>1, <1>3, <1>4 DEF TypeOK, Contents, Screens
<1>6. TrashedStayGone'
  BY <1>1, <1>3, <1>4 DEF TrashedStayGone
<1>7. [title |-> titleField, details |-> commentsField, date |-> picker] # Absent
  BY <1>4, DataAssumption DEF TypeOK, Row
<1>8. LeavingIsSaved' /\ EntityFate'
  BY <1>1, <1>2, <1>3, <1>7 DEF LeavingIsSaved, EntityFate
<1>9. QED
  BY <1>3, <1>5, <1>6, <1>8 DEF IInv, OnlyInsertPending

LEMMA StepPreserves == IInv /\ [Next]_vars => IInv'
<1> SUFFICES ASSUME IInv, [Next]_vars PROVE IInv'
  OBVIOUS
<1>1. CASE ListStep
  BY <1>1, ListPreserves
<1>2. CASE ProcessStep
  BY <1>2, LaunchPreserves, TerminatePreserves, KillPreserves DEF ProcessStep
<1>3. CASE \E f \in {"none", "comments"} : TitleFieldEdited(f)
  BY <1>3, TitleEditedPreserves
<1>4. CASE DueDateEdited
  BY <1>4, DueDatePreserves
<1>5. CASE TrashTapped
  BY <1>5, TrashPreserves
<1>6. CASE ViewWillDisappear
  BY <1>6, DisappearPreserves
<1>7. CASE UNCHANGED vars
  BY <1>7 DEF vars, editor, fields, IInv, TypeOK, StoreValid, AllValid, OnlyInsertPending,
       TrashedStayGone, LeavingIsSaved, EntityFate
<1>8. QED
  BY <1>1, <1>2, <1>3, <1>4, <1>5, <1>6, <1>7, QuietPreserves DEF Next, EditorStep

----------------------------------------------------------------------------
(* The inductive invariant holds throughout.                               *)
THEOREM Invariance == Spec => []IInv
<1>1. Init => IInv
  BY InitEstablishes
<1>2. IInv /\ [Next]_vars => IInv'
  BY StepPreserves
<1>3. QED
  BY <1>1, <1>2, PTL DEF Spec

(* The types of the app's state, and a disk without incomplete items.      *)
THEOREM TypeCorrect == Spec => [](TypeOK /\ StoreValid)
<1>1. IInv => TypeOK /\ StoreValid
  BY DEF IInv
<1>2. QED
  BY <1>1, Invariance, PTL

(* Outside the editor of an item just added, the context and the disk      *)
(* agree (prepareForSegue, saveMyToDoEntity).                              *)
THEOREM PendingInsertOnly == Spec => []OnlyInsertPending
<1>1. IInv => OnlyInsertPending
  BY DEF IInv
<1>2. QED
  BY <1>1, Invariance, PTL

(* A trashed item never comes back (trashTapped and the late callbacks).   *)
THEOREM TrashIsFinal == Spec => []TrashedStayGone
<1>1. IInv => TrashedStayGone
  BY DEF IInv
<1>2. QED
  BY <1>1, Invariance, PTL

(* What a leaving editor shows is on disk (viewWillDisappear and the late  *)
(* editingDidEnd handlers, in either order).                               *)
THEOREM LeavingSaves == Spec => []LeavingIsSaved
<1>1. IInv => LeavingIsSaved
  BY DEF IInv
<1>2. QED
  BY <1>1, Invariance, PTL

----------------------------------------------------------------------------
(* When a save fails in an editor, it is the edited item that has no title.*)
LEMMA InvalidIsUntitled ==
  ASSUME IInv, cur \in Items, NEW c \in Contents,
         \A i \in Items : i # cur => c[i] = ctx[i], ~AllValid(c)
  PROVE  c[cur] \in Row /\ c[cur] # Absent /\ c[cur].title = Blank
<1>1. \A i \in Items : i # cur => c[i] \in ValidRow \cup {Absent}
  BY Ahead DEF IInv, StoreValid, AllValid
<1>2. c[cur] \in Row /\ c[cur] \notin ValidRow \cup {Absent}
  BY <1>1 DEF AllValid, Contents
<1>3. c[cur].title \notin Titles
  <2>1. SUFFICES ASSUME c[cur].title \in Titles PROVE c[cur] \in ValidRow
    BY <1>2
  <2>2. QED
    BY <1>2, <2>1 DEF Row, ValidRow
<1>4. QED
  BY <1>2, <1>3 DEF Row, TitleText

(* A row that is on disk has a title.                                      *)
LEMMA StoredIsTitled ==
  ASSUME IInv, cur \in Items, store[cur] # Absent
  PROVE  store[cur].title # Blank
<1>1. store[cur] \in ValidRow
  BY DEF IInv, StoreValid, AllValid
<1>2. QED
  BY <1>1, DataAssumption DEF ValidRow

LEMMA CrashStep ==
  ASSUME IInv, Next, screen # "crashed", screen' = "crashed"
  PROVE  /\ screen = "editor" /\ trashed' = trashed
         /\ ctx[cur].title = Blank \/ titleField = Blank
<1>1. CASE Terminate
  <2>1. ~AllValid(ctx) /\ trashed' = trashed
    BY <1>1 DEF Terminate, SaveMyToDoEntity
  <2>2. screen = "editor"
    BY <2>1, Ahead DEF IInv, StoreValid
  <2>3. cur \in Items /\ ctx \in Contents
    BY <2>2 DEF IInv, TypeOK, Contents
  <2>4. QED
    BY <2>1, <2>2, <2>3, InvalidIsUntitled
<1>2. CASE \E f \in {"none", "comments"} : TitleFieldEdited(f)
  <2>1. PICK d \in Dates :
          screen' = screen \/ ~AllValid(WithTitleAndDate(d))
    BY <1>2 DEF TitleFieldEdited, SaveMyToDoEntity
  <2>2. screen \in {"editor", "leaving"} /\ trashed' = trashed /\ cur \in Items
    BY <1>2 DEF TitleFieldEdited, IInv, TypeOK
  <2>3. WithTitleAndDate(d)[cur] # Absent /\ WithTitleAndDate(d)[cur].title = Blank
    BY <2>1, <2>2, HandedOver, InvalidIsUntitled
  <2>4. ctx[cur] # Absent /\ titleField = Blank
    <3>1. ctx[cur] = Absent => WithTitleAndDate(d) = ctx
      BY <2>2, HandedOver
    <3>2. ctx[cur] # Absent => WithTitleAndDate(d)[cur] =
            [title |-> titleField, details |-> ctx[cur].details, date |-> d]
      BY <2>2, HandedOver
    <3>3. ctx[cur] # Absent
      BY <2>3, <3>1
    <3>4. QED
      BY <2>3, <3>2, <3>3
  <2>5. screen # "leaving"
    <3>1. SUFFICES ASSUME screen = "leaving" PROVE FALSE
      OBVIOUS
    <3>2. ~wasDeleted /\ ctx = store
      BY <2>4, <3>1, Ahead DEF IInv, EntityFate
    <3>3. store[cur] = [title |-> titleField, details |-> commentsField, date |-> picker]
      BY <3>1, <3>2 DEF IInv, LeavingIsSaved
    <3>4. QED
      BY <2>2, <2>4, <3>2, <3>3, StoredIsTitled
  <2>6. QED
    BY <2>2, <2>4, <2>5
<1>3. CASE DueDateEdited
  <2>1. screen \in {"editor", "leaving"} /\ trashed' = trashed /\ cur \in Items
    BY <1>3 DEF DueDateEdited, IInv, TypeOK
  <2>2. ~AllValid(WithDate)
    BY <1>3 DEF DueDateEdited, SaveMyToDoEntity
  <2>3. WithDate[cur] # Absent /\ WithDate[cur].title = Blank
    BY <2>1, <2>2, HandedOver, InvalidIsUntitled
  <2>4. ctx[cur] # Absent /\ ctx[cur].title = Blank
    BY <2>1, <2>3, HandedOver
  <2>5. screen # "leaving"
    BY <2>1, <2>4, Ahead, StoredIsTitled
  <2>6. QED
    BY <2>1, <2>4, <2>5
<1>4. CASE TrashTapped
  BY <1>4, TrashSaves
<1>5. CASE ViewWillDisappear
  <2>1. screen = "editor" /\ trashed' = trashed /\ cur \in Items
    BY <1>5 DEF ViewWillDisappear, IInv, TypeOK
  <2>2. ~AllValid(WithAllFields)
    BY <1>5 DEF ViewWillDisappear, SaveMyToDoEntity
  <2>3. QED
    BY <2>1, <2>2, HandedOver, InvalidIsUntitled
<1>6. CASE ListStep \/ Launch \/ Kill
  BY <1>6 DEF ListStep, AddTapped, RowTapped, Launch, Kill
<1>7. ASSUME \/ \E t \in TitleText : TypeTitle(t)
             \/ \E t \in DetailText : TypeComments(t)
             \/ \E f \in {"title", "comments"} : BeginEditing(f)
             \/ \E f \in {"none", "title"} : EndCommentsEditing(f)
             \/ \E d \in Dates : TurnPicker(d)
             \/ SwipeCancelled
             \/ Popped
      PROVE  FALSE
  BY <1>7 DEF TypeTitle, TypeComments, BeginEditing, EndCommentsEditing, TurnPicker,
       SwipeCancelled, Popped
<1>8. QED
  BY <1>1, <1>2, <1>3, <1>4, <1>5, <1>6, <1>7 DEF Next, EditorStep, ProcessStep

(* The app dies of a failed save only in the editor of an untitled item.   *)
THEOREM CrashesOnlyUntitled == Spec => CrashNeedsBlankTitle
<1>1. ASSUME IInv, [Next]_vars
      PROVE  [screen # "crashed" /\ screen' = "crashed" =>
                /\ screen = "editor" /\ trashed' = trashed
                /\ ctx[cur].title = Blank \/ titleField = Blank]_vars
  BY <1>1, CrashStep
<1>2. QED
  BY <1>1, Invariance, PTL DEF Spec, CrashNeedsBlankTitle

----------------------------------------------------------------------------
(* A save from an editor whose item is alive puts one complete row, or     *)
(* leaves the disk alone.                                                  *)
LEMMA SaveIsPut ==
  ASSUME IInv, screen \in {"editor", "leaving"}, NEW c \in Contents, NEW next \in Screens,
         \A i \in Items : i # cur => c[i] = ctx[i],
         c[cur] # Absent, ctx[cur] # Absent,
         SaveMyToDoEntity(c, next), trashed' = trashed
  PROVE  Durable!Next \/ UNCHANGED Durable!vars
<1>1. cur \in Items /\ store \in Contents /\ cur \notin trashed
  BY DEF IInv, TypeOK, TrashedStayGone, Contents
<1>2. CASE store' = store
  BY <1>2 DEF Durable!vars
<1>3. CASE AllValid(c) /\ store' = c
  <2>1. c[cur] \in ValidRow
    BY <1>1, <1>3 DEF AllValid
  <2>2. \A i \in Items : i # cur => c[i] = store[i]
    BY Ahead
  <2>3. c = [store EXCEPT ![cur] = c[cur]]
    BY <1>1, <2>2 DEF Contents
  <2>4. Durable!Put(cur, c[cur])
    BY <1>1, <1>3, <2>3 DEF Durable!Put
  <2>5. QED
    BY <1>1, <2>1, <2>4 DEF Durable!Next
<1>4. QED
  BY <1>2, <1>3 DEF SaveMyToDoEntity

(* The same handler after the item is gone writes what is on disk already. *)
LEMMA DeadSaveStutters ==
  ASSUME IInv, screen \in {"editor", "leaving"}, ctx[cur] = Absent, NEW next \in Screens,
         SaveMyToDoEntity(ctx, next), trashed' = trashed
  PROVE  UNCHANGED Durable!vars
<1>1. screen = "leaving"
  BY DEF IInv, EntityFate
<1>2. ctx = store
  BY <1>1, Ahead
<1>3. QED
  BY <1>2 DEF SaveMyToDoEntity, Durable!vars

LEMMA StepRefines == IInv /\ [Next]_vars => [Durable!Next]_Durable!vars
<1> SUFFICES ASSUME IInv, [Next]_vars PROVE Durable!Next \/ UNCHANGED Durable!vars
  OBVIOUS
<1>1. CASE Terminate
  <2>1. store' \in {ctx, store} /\ (store' = ctx => AllValid(ctx) \/ ctx = store)
        /\ trashed' = trashed
    BY <1>1 DEF Terminate, SaveMyToDoEntity
  <2>2. AllValid(ctx) => ctx = store
    <3>1. EmptyRow \notin ValidRow \cup {Absent}
      BY DataAssumption DEF EmptyRow, ValidRow, Row, TitleText, DetailText
    <3>2. SUFFICES ASSUME AllValid(ctx), ctx # store PROVE FALSE
      OBVIOUS
    <3>3. screen = "editor" /\ ctx = [store EXCEPT ![cur] = EmptyRow]
      BY <3>2 DEF IInv, OnlyInsertPending
    <3>4. cur \in Items /\ ctx[cur] = EmptyRow
      BY <3>3 DEF IInv, TypeOK
    <3>5. QED
      BY <3>1, <3>2, <3>4 DEF AllValid
  <2>3. QED
    BY <2>1, <2>2 DEF Durable!vars
<1>2. CASE \E f \in {"none", "comments"} : TitleFieldEdited(f)
  <2>1. PICK d \in Dates : SaveMyToDoEntity(WithTitleAndDate(d), screen)
    BY <1>2 DEF TitleFieldEdited
  <2>2. screen \in {"editor", "leaving"} /\ screen \in Screens /\ trashed' = trashed
    BY <1>2 DEF TitleFieldEdited, Screens
  <2>3. /\ WithTitleAndDate(d) \in Contents
        /\ \A i \in Items : i # cur => WithTitleAndDate(d)[i] = ctx[i]
        /\ ctx[cur] = Absent => WithTitleAndDate(d) = ctx
    BY <2>2, HandedOver
  <2>4. CASE ctx[cur] = Absent
    BY <2>1, <2>2, <2>3, <2>4, DeadSaveStutters
  <2>5. CASE ctx[cur] # Absent
    <3>1. WithTitleAndDate(d)[cur] =
            [title |-> titleField, details |-> ctx[cur].details, date |-> d]
      BY <2>2, <2>5, HandedOver
    <3>2. cur \in Items /\ ctx[cur] \in Row /\ titleField \in TitleText
      BY <2>2, <2>5 DEF IInv, TypeOK
    <3>3. WithTitleAndDate(d)[cur] # Absent
      BY <3>1, <3>2, DataAssumption DEF Row
    <3>4. QED
      BY <2>1, <2>2, <2>3, <2>5, <3>3, SaveIsPut
  <2>6. QED
    BY <2>4, <2>5
<1>3. CASE DueDateEdited
  <2>1. screen \in {"editor", "leaving"} /\ screen \in Screens /\ trashed' = trashed
        /\ SaveMyToDoEntity(WithDate, screen)
    BY <1>3 DEF DueDateEdited, Screens
  <2>2. /\ WithDate \in Contents
        /\ \A i \in Items : i # cur => WithDate[i] = ctx[i]
        /\ ctx[cur] = Absent => WithDate = ctx
    BY <2>1, HandedOver
  <2>3. CASE ctx[cur] = Absent
    BY <2>1, <2>2, <2>3, DeadSaveStutters
  <2>4. CASE ctx[cur] # Absent
    <3>1. WithDate[cur] =
            [title |-> ctx[cur].title, details |-> ctx[cur].details, date |-> picker]
      BY <2>1, <2>4, HandedOver
    <3>2. cur \in Items /\ ctx[cur] \in Row /\ picker \in Dates \cup {NoDate}
      BY <2>1, <2>4 DEF IInv, TypeOK
    <3>3. WithDate[cur] # Absent
      BY <3>1, <3>2, DataAssumption DEF Row
    <3>4. QED
      BY <2>1, <2>2, <2>4, <3>3, SaveIsPut
  <2>5. QED
    BY <2>3, <2>4
<1>4. CASE TrashTapped
  <2>1. cur \in Items /\ cur \notin trashed
    BY <1>4 DEF TrashTapped, IInv, TypeOK, EntityFate, TrashedStayGone
  <2>2. store' = [store EXCEPT ![cur] = Absent] /\ trashed' = trashed \cup {cur}
    BY <1>4, TrashSaves DEF TrashTapped
  <2>3. QED
    BY <2>1, <2>2 DEF Durable!Next, Durable!Discard
<1>5. CASE ViewWillDisappear
  <2>1. screen = "editor" /\ ~wasDeleted /\ trashed' = trashed
        /\ SaveMyToDoEntity(WithAllFields, "leaving") /\ ctx[cur] # Absent
    BY <1>5 DEF ViewWillDisappear, IInv, EntityFate
  <2>2. /\ WithAllFields \in Contents
        /\ \A i \in Items : i # cur => WithAllFields[i] = ctx[i]
        /\ WithAllFields[cur] =
             [title |-> titleField, details |-> commentsField, date |-> picker]
    BY <2>1, HandedOver
  <2>3. WithAllFields[cur] # Absent
    BY <2>1, <2>2, DataAssumption DEF IInv, TypeOK, Row
  <2>4. QED
    BY <2>1, <2>2, <2>3, SaveIsPut DEF Screens
<1>6. CASE ListStep \/ Launch \/ Kill
  BY <1>6 DEF ListStep, AddTapped, RowTapped, Launch, Kill, Durable!vars
<1>7. CASE \/ \E t \in TitleText : TypeTitle(t)
           \/ \E t \in DetailText : TypeComments(t)
           \/ \E f \in {"title", "comments"} : BeginEditing(f)
           \/ \E f \in {"none", "title"} : EndCommentsEditing(f)
           \/ \E d \in Dates : TurnPicker(d)
           \/ SwipeCancelled
           \/ Popped
  BY <1>7 DEF TypeTitle, TypeComments, BeginEditing, EndCommentsEditing, TurnPicker,
       SwipeCancelled, Popped, Durable!vars
<1>8. CASE UNCHANGED vars
  BY <1>8 DEF vars, Durable!vars
<1>9. QED
  BY <1>1, <1>2, <1>3, <1>4, <1>5, <1>6, <1>7, <1>8 DEF Next, EditorStep, ProcessStep

(* The app implements DurableItems: whatever the callbacks and the crashes *)
(* do, the disk gets complete items one at a time and trash is final.      *)
THEOREM Refinement == Spec => ImplementsDurableItems
<1>1. Init => Durable!Init
  BY DEF Init, Durable!Init
<1>2. IInv /\ [Next]_vars => [Durable!Next]_Durable!vars
  BY StepRefines
<1>3. QED
  BY <1>1, <1>2, Invariance, PTL DEF Spec, ImplementsDurableItems, Durable!Spec
----------------------------------------------------------------------------
(* The handlers that save from an editor that stays: what they leave of    *)
(* the entity is what the fields and the picker show.                      *)
LEMMA FieldsAfterSave ==
  ASSUME IInv, screen = "editor", NEW c \in Contents, NEW next \in Screens,
         SaveMyToDoEntity(c, next), screen' = "editor"
  PROVE  ctx' = c
BY SaveOutcome DEF SaveMyToDoEntity

LEMMA FieldsPreserved == IInv /\ FieldsFollowEntity /\ [Next]_vars => FieldsFollowEntity'
<1> SUFFICES ASSUME IInv, FieldsFollowEntity, [Next]_vars, screen' = "editor"
             PROVE  FieldsFollowEntity'
  BY DEF FieldsFollowEntity
<1>1. CASE \E i \in Items : AddTapped(i)
  <2>1. EmptyRow # Absent
    BY DataAssumption DEF EmptyRow, Row, TitleText, DetailText
  <2>2. PICK i \in Items : AddTapped(i)
    BY <1>1
  <2>3. ctx' = [ctx EXCEPT ![i] = EmptyRow] /\ cur' = i /\ titleField' = Blank
        /\ ctx \in Contents
    BY <2>2 DEF AddTapped, ViewWillAppear, EmptyRow, IInv, TypeOK, Contents
  <2> QED
    BY <2>1, <2>3 DEF FieldsFollowEntity, EmptyRow, Contents
<1>2. CASE \E i \in Items : RowTapped(i)
  BY <1>2 DEF RowTapped, ViewWillAppear, FieldsFollowEntity
<1>3. CASE \/ \E t \in TitleText : TypeTitle(t)
           \/ \E t \in DetailText : TypeComments(t)
           \/ \E f \in {"title", "comments"} : BeginEditing(f)
           \/ \E f \in {"none", "title"} : EndCommentsEditing(f)
           \/ \E d \in Dates : TurnPicker(d)
  BY <1>3 DEF TypeTitle, TypeComments, BeginEditing, EndCommentsEditing, TurnPicker, fields,
       FieldsFollowEntity
<1>4. CASE \E f \in {"none", "comments"} : TitleFieldEdited(f)
  <2>1. PICK d \in Dates : picker' = d /\ SaveMyToDoEntity(WithTitleAndDate(d), screen)
    BY <1>4 DEF TitleFieldEdited
  <2>2. /\ screen \in {"editor", "leaving"} /\ screen \in Screens
        /\ UNCHANGED <<cur, titleField>>
    BY <1>4 DEF TitleFieldEdited, Screens
  <2>3. screen = "editor"
    BY <2>1, <2>2 DEF SaveMyToDoEntity
  <2>4. cur \in Items /\ ctx[cur] \in Row /\ ctx[cur] # Absent /\ titleField \in TitleText
    BY <2>3 DEF IInv, TypeOK, EntityFate
  <2>5. /\ WithTitleAndDate(d) \in Contents
        /\ WithTitleAndDate(d)[cur] =
             [title |-> titleField, details |-> ctx[cur].details, date |-> d]
    BY <2>2, <2>4, HandedOver
  <2>6. ctx' = WithTitleAndDate(d)
    BY <2>1, <2>2, <2>3, <2>5, FieldsAfterSave
  <2>7. ctx'[cur'] # Absent
    BY <2>2, <2>4, <2>5, <2>6, DataAssumption DEF Row
  <2> QED
    BY <2>1, <2>2, <2>5, <2>6, <2>7 DEF FieldsFollowEntity
<1>5. CASE DueDateEdited
  <2>1. /\ screen \in {"editor", "leaving"} /\ screen \in Screens
        /\ SaveMyToDoEntity(WithDate, screen)
        /\ UNCHANGED <<cur, titleField, picker, focus>>
    BY <1>5 DEF DueDateEdited, fields, Screens
  <2>2. screen = "editor"
    BY <2>1 DEF SaveMyToDoEntity
  <2>3. cur \in Items /\ ctx[cur] \in Row /\ ctx[cur] # Absent
        /\ picker \in Dates \cup {NoDate}
    BY <2>2 DEF IInv, TypeOK, EntityFate
  <2>4. /\ WithDate \in Contents
        /\ WithDate[cur] =
             [title |-> ctx[cur].title, details |-> ctx[cur].details, date |-> picker]
    BY <2>1, <2>3, HandedOver
  <2>5. ctx' = WithDate
    BY <2>1, <2>2, <2>4, FieldsAfterSave
  <2>6. ctx'[cur'] # Absent
    BY <2>1, <2>3, <2>4, <2>5, DataAssumption DEF Row
  <2> QED
    BY <2>1, <2>2, <2>4, <2>5, <2>6 DEF FieldsFollowEntity
<1>6. CASE SwipeCancelled
  BY <1>6 DEF SwipeCancelled, ViewWillAppear, FieldsFollowEntity, IInv, EntityFate
<1>7. ~TrashTapped /\ ~ViewWillDisappear /\ ~Popped /\ ~ProcessStep
  BY DEF TrashTapped, ViewWillDisappear, Popped, ProcessStep, Launch, Terminate, Kill,
       SaveMyToDoEntity
<1>8. CASE UNCHANGED vars
  BY <1>8 DEF vars, editor, fields, FieldsFollowEntity
<1> QED
  BY <1>1, <1>2, <1>3, <1>4, <1>5, <1>6, <1>7, <1>8 DEF Next, ListStep, EditorStep

(* While the editor is open, its title and date differ from the entity's   *)
(* only while the user is at them (viewWillAppear, titleFieldEdited,       *)
(* dueDateEdited).                                                         *)
THEOREM FieldsFollow == Spec => []FieldsFollowEntity
<1>1. Init => FieldsFollowEntity
  BY DEF Init, FieldsFollowEntity
<1> QED
  BY <1>1, FieldsPreserved, Invariance, PTL DEF Spec

----------------------------------------------------------------------------
(* The list.  Inserting and removing one element of a sequence.            *)
LEMMA InsertAtElements ==
  ASSUME NEW S, NEW s \in Seq(S), NEW n \in 1 .. Len(s) + 1, NEW e \in S
  PROVE  /\ InsertAt(s, n, e) \in Seq(S)
         /\ Len(InsertAt(s, n, e)) = Len(s) + 1
         /\ \A p \in 1 .. Len(s) + 1 :
              InsertAt(s, n, e)[p] = IF p < n THEN s[p] ELSE IF p = n THEN e ELSE s[p - 1]
<1> DEFINE a == SubSeq(s, 1, n - 1)
           b == SubSeq(s, n, Len(s))
           c == a \o <<e>>
<1>1. Len(s) \in Nat /\ n \in Nat /\ n >= 1 /\ n <= Len(s) + 1
  OBVIOUS
<1>2. a \in Seq(S) /\ Len(a) = n - 1 /\ \A p \in 1 .. n - 1 : a[p] = s[p]
  BY <1>1
<1>3. b \in Seq(S) /\ Len(b) = Len(s) - n + 1 /\ \A p \in 1 .. Len(s) - n + 1 : b[p] = s[n + p - 1]
  BY <1>1, SubSeqProperties
<1>4. InsertAt(s, n, e) = c \o b
  BY DEF InsertAt
<1> HIDE DEF a, b
<1>5. c \in Seq(S) /\ Len(c) = n /\ \A p \in 1 .. n : c[p] = IF p < n THEN s[p] ELSE e
  BY <1>1, <1>2
<1> HIDE DEF c
<1>6. /\ c \o b \in Seq(S) /\ Len(c \o b) = Len(s) + 1
      /\ \A p \in 1 .. Len(s) + 1 : (c \o b)[p] = IF p <= n THEN c[p] ELSE b[p - n]
  <2>1. /\ c \o b \in Seq(S) /\ Len(c \o b) = Len(c) + Len(b)
        /\ \A p \in 1 .. Len(c) + Len(b) :
             (c \o b)[p] = IF p <= Len(c) THEN c[p] ELSE b[p - Len(c)]
    BY <1>3, <1>5, ConcatProperties
  <2>2. Len(c) = n /\ Len(c) + Len(b) = Len(s) + 1
    BY <1>1, <1>3, <1>5
  <2> QED
    BY <2>1, <2>2
<1>7. ASSUME NEW p \in 1 .. Len(s) + 1
      PROVE  (c \o b)[p] = IF p < n THEN s[p] ELSE IF p = n THEN e ELSE s[p - 1]
  <2>0. p <= n \/ p > n
    BY <1>1
  <2>1. CASE p <= n
    BY <1>1, <1>5, <1>6, <2>1
  <2>2. CASE p > n
    <3>1. p - n \in 1 .. Len(s) - n + 1 /\ n + (p - n) - 1 = p - 1
      BY <1>1, <2>2
    <3>2. (c \o b)[p] = b[p - n]
      BY <1>1, <1>6, <2>2
    <3>3. b[p - n] = s[p - 1]
      BY <1>3, <3>1
    <3> QED
      BY <1>1, <2>2, <3>2, <3>3
  <2> QED
    BY <2>0, <2>1, <2>2
<1> QED
  BY <1>4, <1>6, <1>7

LEMMA RemoveAtElements ==
  ASSUME NEW S, NEW s \in Seq(S), NEW n \in 1 .. Len(s)
  PROVE  /\ RemoveAt(s, n) \in Seq(S)
         /\ Len(RemoveAt(s, n)) = Len(s) - 1
         /\ \A p \in 1 .. Len(s) - 1 :
              RemoveAt(s, n)[p] = IF p < n THEN s[p] ELSE s[p + 1]
<1> DEFINE a == SubSeq(s, 1, n - 1)
           b == SubSeq(s, n + 1, Len(s))
<1>1. Len(s) \in Nat /\ n \in Nat /\ n >= 1 /\ n <= Len(s)
  OBVIOUS
<1>2. a \in Seq(S) /\ Len(a) = n - 1 /\ \A p \in 1 .. n - 1 : a[p] = s[p]
  BY <1>1
<1>3. b \in Seq(S) /\ Len(b) = Len(s) - n /\ \A p \in 1 .. Len(s) - n : b[p] = s[n + p]
  BY <1>1
<1>4. RemoveAt(s, n) = a \o b
  BY DEF RemoveAt
<1> HIDE DEF a, b
<1>5. /\ a \o b \in Seq(S) /\ Len(a \o b) = Len(s) - 1
      /\ \A p \in 1 .. Len(s) - 1 : (a \o b)[p] = IF p <= n - 1 THEN a[p] ELSE b[p - (n - 1)]
  <2>1. /\ a \o b \in Seq(S) /\ Len(a \o b) = Len(a) + Len(b)
        /\ \A p \in 1 .. Len(a) + Len(b) :
             (a \o b)[p] = IF p <= Len(a) THEN a[p] ELSE b[p - Len(a)]
    BY <1>2, <1>3, ConcatProperties
  <2>2. Len(a) = n - 1 /\ Len(a) + Len(b) = Len(s) - 1
    BY <1>1, <1>2, <1>3
  <2> QED
    BY <2>1, <2>2
<1>6. ASSUME NEW p \in 1 .. Len(s) - 1
      PROVE  (a \o b)[p] = IF p < n THEN s[p] ELSE s[p + 1]
  <2>0. p < n \/ p >= n
    BY <1>1
  <2>1. CASE p < n
    BY <1>1, <1>2, <1>5, <2>1
  <2>2. CASE p >= n
    <3>1. p - (n - 1) \in 1 .. Len(s) - n /\ n + (p - (n - 1)) = p + 1
      BY <1>1, <2>2
    <3>2. (a \o b)[p] = b[p - (n - 1)]
      BY <1>1, <1>5, <2>2
    <3>3. b[p - (n - 1)] = s[p + 1]
      BY <1>3, <3>1
    <3> QED
      BY <1>1, <2>2, <3>2, <3>3
  <2> QED
    BY <2>0, <2>1, <2>2
<1> QED
  BY <1>4, <1>5, <1>6

----------------------------------------------------------------------------
(* A sequence that lists every object of the context once; a table that    *)
(* shows such a sequence row for row.                                      *)
Enumerates(objs, c) ==
  /\ objs \in Seq(Items)
  /\ \A j, k \in 1 .. Len(objs) : objs[j] = objs[k] => j = k
  /\ \A i \in Items : c[i] # Absent <=> \E k \in 1 .. Len(objs) : objs[k] = i

Shows(rows, objs, c) ==
  /\ rows \in Seq(Cell)
  /\ Len(rows) = Len(objs)
  /\ \A k \in 1 .. Len(objs) : rows[k] = SetInternalFields(c, objs[k])

LEMMA CellOf ==
  ASSUME NEW c \in Contents, NEW i \in Items, c[i] # Absent
  PROVE  SetInternalFields(c, i) \in Cell
BY DEF SetInternalFields, Cell, Contents, Row

(* The rows follow an insertion, a deletion, an update of one object.      *)
LEMMA InsertKeepsRows ==
  ASSUME NEW c \in Contents, NEW d \in Contents, NEW i \in Items,
         c[i] = Absent, d[i] # Absent, \A j \in Items : j # i => d[j] = c[j],
         NEW objs, NEW rows, Enumerates(objs, c), Shows(rows, objs, c),
         NEW n \in 1 .. Len(objs) + 1
  PROVE  /\ Enumerates(InsertAt(objs, n, i), d)
         /\ InsertAt(objs, n, i)[n] = i
         /\ Shows(InsertAt(rows, n, SetInternalFields(d, i)), InsertAt(objs, n, i), d)
<1> DEFINE o == InsertAt(objs, n, i)
           r == InsertAt(rows, n, SetInternalFields(d, i))
<1>1. /\ objs \in Seq(Items) /\ Len(objs) \in Nat /\ n \in Nat /\ n >= 1
      /\ \A k \in 1 .. Len(objs) : objs[k] \in Items /\ objs[k] # i
      /\ rows \in Seq(Cell) /\ Len(rows) = Len(objs)
  BY DEF Enumerates, Shows
<1>2. /\ o \in Seq(Items) /\ Len(o) = Len(objs) + 1
      /\ \A p \in 1 .. Len(objs) + 1 :
           o[p] = IF p < n THEN objs[p] ELSE IF p = n THEN i ELSE objs[p - 1]
  BY <1>1, InsertAtElements
<1>3. /\ r \in Seq(Cell) /\ Len(r) = Len(objs) + 1
      /\ \A p \in 1 .. Len(objs) + 1 :
           r[p] = IF p < n THEN rows[p] ELSE IF p = n THEN SetInternalFields(d, i) ELSE rows[p - 1]
  BY <1>1, CellOf, InsertAtElements
<1> HIDE DEF o, r
<1>4. \A j, k \in 1 .. Len(o) : o[j] = o[k] => j = k
  <2>1. \A j, k \in 1 .. Len(objs) : objs[j] = objs[k] => j = k
    BY DEF Enumerates
  <2>2. ASSUME NEW p \in 1 .. Len(o)
        PROVE  /\ p < n => p \in 1 .. Len(objs) /\ o[p] = objs[p] /\ o[p] # i
               /\ p = n => o[p] = i
               /\ p > n => p - 1 \in 1 .. Len(objs) /\ o[p] = objs[p - 1] /\ o[p] # i
    <3>1. p < n => p \in 1 .. Len(objs) /\ o[p] = objs[p]
      BY <1>1, <1>2
    <3>2. p = n => o[p] = i
      BY <1>1, <1>2
    <3>3. p > n => p - 1 \in 1 .. Len(objs) /\ o[p] = objs[p - 1]
      BY <1>1, <1>2
    <3> QED
      BY <1>1, <3>1, <3>2, <3>3
  <2>3. ASSUME NEW j \in 1 .. Len(o), NEW k \in 1 .. Len(o), o[j] = o[k] PROVE j = k
    <3>1. CASE j < n /\ k < n
      BY <1>1, <2>1, <2>2, <2>3, <3>1
    <3>2. CASE j < n /\ k > n
      <4>1. j \in 1 .. Len(objs) /\ k - 1 \in 1 .. Len(objs) /\ objs[j] = objs[k - 1]
        BY <2>2, <2>3, <3>2
      <4> QED
        BY <1>1, <2>1, <3>2, <4>1
    <3>3. CASE j > n /\ k < n
      <4>1. j - 1 \in 1 .. Len(objs) /\ k \in 1 .. Len(objs) /\ objs[j - 1] = objs[k]
        BY <2>2, <2>3, <3>3
      <4> QED
        BY <1>1, <2>1, <3>3, <4>1
    <3>4. CASE j > n /\ k > n
      <4>1. j - 1 \in 1 .. Len(objs) /\ k - 1 \in 1 .. Len(objs) /\ objs[j - 1] = objs[k - 1]
        BY <2>2, <2>3, <3>4
      <4> QED
        BY <1>1, <2>1, <4>1
    <3>5. CASE j = n \/ k = n
      BY <1>1, <2>2, <2>3, <3>5
    <3> QED
      BY <1>1, <2>2, <3>1, <3>2, <3>3, <3>4, <3>5
  <2> QED
    BY <2>3
<1>5. ASSUME NEW j \in Items PROVE d[j] # Absent <=> \E k \in 1 .. Len(o) : o[k] = j
  <2>1. CASE j = i
    BY <1>1, <1>2, <2>1
  <2>2. CASE j # i
    <3>1. ASSUME NEW k \in 1 .. Len(objs), objs[k] = j PROVE \E q \in 1 .. Len(o) : o[q] = j
      <4>1. CASE k < n
        BY <1>1, <1>2, <3>1, <4>1
      <4>2. CASE k >= n
        <5>1. k + 1 \in 1 .. Len(o) /\ ~(k + 1 < n) /\ k + 1 # n /\ (k + 1) - 1 = k
          BY <1>1, <1>2, <4>2
        <5> QED
          BY <1>2, <3>1, <5>1
      <4> QED
        BY <1>1, <4>1, <4>2
    <3>2. ASSUME NEW q \in 1 .. Len(o), o[q] = j PROVE \E k \in 1 .. Len(objs) : objs[k] = j
      <4>1. \/ q < n /\ q \in 1 .. Len(objs)
            \/ q = n
            \/ q > n /\ q - 1 \in 1 .. Len(objs)
        BY <1>1, <1>2
      <4>2. q < n => o[q] = objs[q]
        BY <1>1, <1>2
      <4>3. q = n => o[q] = i
        BY <1>1, <1>2
      <4>4. q > n => o[q] = objs[q - 1]
        BY <1>1, <1>2
      <4> QED
        BY <2>2, <3>2, <4>1, <4>2, <4>3, <4>4
    <3>3. d[j] = c[j]
      BY <2>2
    <3> QED
      BY <3>1, <3>2, <3>3 DEF Enumerates
  <2> QED
    BY <2>1, <2>2
<1>6. ASSUME NEW p \in 1 .. Len(o) PROVE r[p] = SetInternalFields(d, o[p])
  <2>1. \A k \in 1 .. Len(objs) : rows[k] = SetInternalFields(d, objs[k])
    BY <1>1 DEF Shows, SetInternalFields
  <2>2. p < n => p \in 1 .. Len(objs)
    BY <1>1, <1>2
  <2>3. p > n => p - 1 \in 1 .. Len(objs)
    BY <1>1, <1>2
  <2>4. CASE p < n
    BY <1>2, <1>3, <2>1, <2>2, <2>4
  <2>5. CASE p = n
    BY <1>1, <1>2, <1>3, <2>5
  <2>6. CASE p > n
    <3>1. r[p] = rows[p - 1]
      BY <1>1, <1>2, <1>3, <2>6
    <3>2. o[p] = objs[p - 1]
      BY <1>1, <1>2, <2>6
    <3> QED
      BY <2>1, <2>3, <2>6, <3>1, <3>2
  <2>7. p < n \/ p = n \/ p > n
    BY <1>1, <1>2
  <2> QED
    BY <2>4, <2>5, <2>6, <2>7
<1>7. o[n] = i
  BY <1>1, <1>2
<1> QED
  BY <1>2, <1>3, <1>4, <1>5, <1>6, <1>7 DEF o, r, Enumerates, Shows

LEMMA DeleteKeepsRows ==
  ASSUME NEW c \in Contents, NEW d \in Contents, NEW i \in Items,
         d[i] = Absent, \A j \in Items : j # i => d[j] = c[j],
         NEW objs, NEW rows, Enumerates(objs, c), Shows(rows, objs, c),
         NEW n \in 1 .. Len(objs), objs[n] = i
  PROVE  /\ Enumerates(RemoveAt(objs, n), d)
         /\ Shows(RemoveAt(rows, n), RemoveAt(objs, n), d)
         /\ NewestFirst(objs, c) => NewestFirst(RemoveAt(objs, n), d)
<1> DEFINE o == RemoveAt(objs, n)
           r == RemoveAt(rows, n)
<1>1. /\ objs \in Seq(Items) /\ Len(objs) \in Nat /\ n \in Nat /\ n >= 1 /\ n <= Len(objs)
      /\ \A k \in 1 .. Len(objs) : objs[k] \in Items /\ (k # n => objs[k] # i)
      /\ rows \in Seq(Cell) /\ Len(rows) = Len(objs)
  BY DEF Enumerates, Shows
<1>2. /\ o \in Seq(Items) /\ Len(o) = Len(objs) - 1
      /\ \A p \in 1 .. Len(objs) - 1 : o[p] = IF p < n THEN objs[p] ELSE objs[p + 1]
  BY <1>1, RemoveAtElements
<1>3. /\ r \in Seq(Cell) /\ Len(r) = Len(objs) - 1
      /\ \A p \in 1 .. Len(objs) - 1 : r[p] = IF p < n THEN rows[p] ELSE rows[p + 1]
  BY <1>1, RemoveAtElements
<1> HIDE DEF o, r
<1>4. \A p \in 1 .. Len(o) : p \in 1 .. Len(objs) /\ p + 1 \in 1 .. Len(objs) /\ o[p] # i
  BY <1>1, <1>2
<1>5. \A j, k \in 1 .. Len(o) : o[j] = o[k] => j = k
  BY <1>1, <1>2, <1>4 DEF Enumerates
<1>6. ASSUME NEW j \in Items PROVE d[j] # Absent <=> \E k \in 1 .. Len(o) : o[k] = j
  <2>1. CASE j = i
    BY <1>4, <2>1
  <2>2. CASE j # i
    <3>1. ASSUME NEW k \in 1 .. Len(objs), objs[k] = j PROVE \E q \in 1 .. Len(o) : o[q] = j
      <4>1. CASE k < n
        <5>1. k \in 1 .. Len(o) /\ k \in 1 .. Len(objs) - 1
          BY <1>1, <1>2, <4>1
        <5>2. o[k] = objs[k]
          BY <1>2, <4>1, <5>1
        <5> QED
          BY <3>1, <5>1, <5>2
      <4>2. CASE k > n
        <5>1. k - 1 \in 1 .. Len(o) /\ ~(k - 1 < n) /\ (k - 1) + 1 = k
          BY <1>1, <1>2, <4>2
        <5> QED
          BY <1>2, <3>1, <5>1
      <4> QED
        BY <1>1, <2>2, <3>1, <4>1, <4>2
    <3>2. ASSUME NEW q \in 1 .. Len(o), o[q] = j PROVE \E k \in 1 .. Len(objs) : objs[k] = j
      BY <1>1, <1>2, <1>4, <3>2
    <3>3. d[j] = c[j]
      BY <2>2
    <3> QED
      BY <3>1, <3>2, <3>3 DEF Enumerates
  <2> QED
    BY <2>1, <2>2
<1>7. ASSUME NEW p \in 1 .. Len(o) PROVE r[p] = SetInternalFields(d, o[p])
  <2>1. \A k \in 1 .. Len(objs) : k # n => rows[k] = SetInternalFields(d, objs[k])
    BY <1>1 DEF Shows, SetInternalFields
  <2> QED
    BY <1>1, <1>2, <1>3, <1>4, <2>1
<1>8. NewestFirst(objs, c) => NewestFirst(o, d)
  <2>1. DOMAIN o = 1 .. Len(o) /\ DOMAIN objs = 1 .. Len(objs)
    BY <1>1, <1>2
  <2>2. \A k \in 1 .. Len(objs) : k # n => d[objs[k]] = c[objs[k]]
    BY <1>1
  <2>3. \A p \in 1 .. Len(o) : \E k \in 1 .. Len(objs) :
          k # n /\ o[p] = objs[k] /\ k = (IF p < n THEN p ELSE p + 1)
    BY <1>1, <1>2, <1>4
  <2>4. ASSUME NewestFirst(objs, c), NEW p \in 1 .. Len(o), NEW q \in 1 .. Len(o), p < q
        PROVE  d[o[p]].date >= d[o[q]].date
    <3>1. PICK j \in 1 .. Len(objs) : j # n /\ o[p] = objs[j] /\ j = (IF p < n THEN p ELSE p + 1)
      BY <2>3
    <3>2. PICK k \in 1 .. Len(objs) : k # n /\ o[q] = objs[k] /\ k = (IF q < n THEN q ELSE q + 1)
      BY <2>3
    <3>3. j < k
      BY <1>1, <2>4, <3>1, <3>2
    <3>4. c[objs[j]].date >= c[objs[k]].date
      BY <2>1, <2>4, <3>3 DEF NewestFirst
    <3> QED
      BY <2>2, <3>1, <3>2, <3>4
  <2> QED
    BY <2>1, <2>4 DEF NewestFirst
<1> QED
  BY <1>2, <1>3, <1>5, <1>6, <1>7, <1>8 DEF o, r, Enumerates, Shows

LEMMA UpdateKeepsRows ==
  ASSUME NEW c \in Contents, NEW d \in Contents, NEW i \in Items,
         c[i] # Absent, d[i] # Absent, \A j \in Items : j # i => d[j] = c[j],
         NEW objs, NEW rows, Enumerates(objs, c), Shows(rows, objs, c),
         NEW n \in 1 .. Len(objs), objs[n] = i
  PROVE  /\ Enumerates(objs, d)
         /\ Shows(ReplaceAt(rows, n, SetInternalFields(d, i)), objs, d)
<1> DEFINE r == ReplaceAt(rows, n, SetInternalFields(d, i))
<1>1. /\ objs \in Seq(Items)
      /\ \A k \in 1 .. Len(objs) : objs[k] \in Items /\ (k # n => objs[k] # i)
      /\ rows \in Seq(Cell) /\ Len(rows) = Len(objs)
  BY DEF Enumerates, Shows
<1>2. /\ r \in Seq(Cell) /\ Len(r) = Len(objs)
      /\ \A p \in 1 .. Len(objs) : r[p] = IF p = n THEN SetInternalFields(d, i) ELSE rows[p]
  BY <1>1, CellOf, ExceptSeq DEF ReplaceAt
<1> HIDE DEF r
<1>3. \A k \in 1 .. Len(objs) : k # n => rows[k] = SetInternalFields(d, objs[k])
  BY <1>1 DEF Shows, SetInternalFields
<1>4. Enumerates(objs, d)
  <2>1. \A j \in Items : d[j] # Absent <=> c[j] # Absent
    OBVIOUS
  <2> QED
    BY <2>1 DEF Enumerates
<1> QED
  BY <1>1, <1>2, <1>3, <1>4 DEF r, Shows
----------------------------------------------------------------------------
(* The app, seen from the list: a step changes one row of the context at   *)
(* most, the context stays finite, and every date on disk or in the picker *)
(* is a real one.                                                          *)
OneRow == \A i, j \in Items : ctx'[i] # ctx[i] /\ ctx'[j] # ctx[j] => i = j

Finite == IsFiniteSet(Live(ctx))

Dated ==
  /\ \A i \in Items : store[i] # Absent => store[i].date \in Dates
  /\ screen \in {"editor", "leaving"} => picker \in Dates

LEMMA OneRowChanges ==
  ASSUME IInv, [Next]_vars
  PROVE  OneRow
<1>1. cur \in Items \cup {NoItem} /\ ctx \in Contents
  BY DEF IInv, TypeOK, Contents
<1>2. ASSUME NEW i \in Items, AddTapped(i) \/ RowTapped(i) PROVE OneRow
  BY <1>1, <1>2 DEF AddTapped, RowTapped, OneRow, Contents
<1>3. ASSUME screen \in {"editor", "leaving"}, NEW c \in Contents, NEW next,
             \A j \in Items : j # cur => c[j] = ctx[j],
             SaveMyToDoEntity(c, next)
      PROVE  OneRow
  <2>1. ctx' = store \/ ctx' = c
    BY <1>3 DEF SaveMyToDoEntity
  <2> QED
    BY <1>3, <2>1, Ahead DEF OneRow
<1>4. CASE \E f \in {"none", "comments"} : TitleFieldEdited(f)
  <2>1. PICK d \in Dates : /\ screen \in {"editor", "leaving"}
                           /\ SaveMyToDoEntity(WithTitleAndDate(d), screen)
    BY <1>4 DEF TitleFieldEdited
  <2> QED
    BY <1>3, <2>1, HandedOver
<1>5. CASE DueDateEdited
  BY <1>3, <1>5, HandedOver DEF DueDateEdited
<1>6. CASE TrashTapped
  <2>1. /\ [ctx EXCEPT ![cur] = Absent] \in Contents
        /\ \A j \in Items : j # cur => [ctx EXCEPT ![cur] = Absent][j] = ctx[j]
    BY <1>1 DEF Contents
  <2> QED
    BY <1>3, <1>6, <2>1 DEF TrashTapped
<1>7. CASE ViewWillDisappear
  BY <1>3, <1>7, HandedOver DEF ViewWillDisappear
<1>8. CASE ProcessStep
  <2>1. ctx' \in {ctx, store}
    BY <1>8 DEF ProcessStep, Launch, Terminate, Kill, SaveMyToDoEntity
  <2> QED
    BY <2>1, Ahead DEF OneRow
<1>9. CASE \/ \E t \in TitleText : TypeTitle(t)
           \/ \E t \in DetailText : TypeComments(t)
           \/ \E f \in {"title", "comments"} : BeginEditing(f)
           \/ \E f \in {"none", "title"} : EndCommentsEditing(f)
           \/ \E d \in Dates : TurnPicker(d)
           \/ SwipeCancelled
           \/ Popped
           \/ UNCHANGED vars
  BY <1>9 DEF TypeTitle, TypeComments, BeginEditing, EndCommentsEditing, TurnPicker,
       SwipeCancelled, Popped, vars, OneRow
<1> QED
  BY <1>2, <1>4, <1>5, <1>6, <1>7, <1>8, <1>9 DEF Next, ListStep, EditorStep

LEMMA FinitePreserved == IInv /\ Finite /\ [Next]_vars => Finite'
<1> SUFFICES ASSUME IInv, Finite, [Next]_vars PROVE Finite'
  OBVIOUS
<1>1. CASE \E i \in Items : ctx'[i] # ctx[i]
  <2>1. PICK i \in Items : ctx'[i] # ctx[i]
    BY <1>1
  <2>2. Live(ctx)' \subseteq Live(ctx) \cup {i}
    BY <2>1, OneRowChanges DEF OneRow, Live
  <2> QED
    BY <2>2, FS_AddElement, FS_Subset DEF Finite
<1>2. CASE \A i \in Items : ctx'[i] = ctx[i]
  BY <1>2 DEF Finite, Live
<1> QED
  BY <1>1, <1>2

LEMMA SaveDates ==
  ASSUME IInv, Dated, screen \in {"editor", "leaving"},
         NEW c \in Contents, NEW next,
         \A j \in Items : j # cur => c[j] = ctx[j],
         c[cur] # Absent => c[cur].date \in Dates,
         SaveMyToDoEntity(c, next)
  PROVE  \A i \in Items : store'[i] # Absent => store'[i].date \in Dates
<1>1. store' = c \/ store' = store
  BY DEF SaveMyToDoEntity
<1>2. \A i \in Items : i # cur => c[i] = store[i]
  BY Ahead
<1> QED
  BY <1>1, <1>2 DEF Dated

LEMMA DatedPreserved == IInv /\ Dated /\ [Next]_vars => Dated'
<1> SUFFICES ASSUME IInv, Dated, [Next]_vars PROVE Dated'
  OBVIOUS
<1> DEFINE StoreDated == \A i \in Items : store[i] # Absent => store[i].date \in Dates
<1>1. /\ PickerDefault \in Dates
      /\ ctx \in Contents /\ StoreDated
      /\ \A i \in Items : ctx[i] # Absent => ctx[i].date \in Dates \cup {NoDate}
      /\ screen \in {"editor", "leaving"} => cur \in Items
  BY DataAssumption DEF IInv, TypeOK, Contents, Row, Dated
<1>2. CASE ListStep
  <2>1. PICK i \in Items : AddTapped(i) \/ RowTapped(i)
    BY <1>2 DEF ListStep
  <2>2. store' = store /\ picker' \in Dates
    BY <1>1, <2>1 DEF AddTapped, RowTapped, ViewWillAppear, EmptyRow
  <2> QED
    BY <1>1, <2>2 DEF Dated
<1>3. CASE \E f \in {"none", "comments"} : TitleFieldEdited(f)
  <2>1. PICK d \in Dates : /\ screen \in {"editor", "leaving"}
                           /\ picker' = d
                           /\ SaveMyToDoEntity(WithTitleAndDate(d), screen)
    BY <1>3 DEF TitleFieldEdited
  <2>2. WithTitleAndDate(d)[cur] # Absent => WithTitleAndDate(d)[cur].date \in Dates
    <3>1. CASE ctx[cur] = Absent
      BY <2>1, <3>1, HandedOver
    <3>2. CASE ctx[cur] # Absent
      <4>1. WithTitleAndDate(d)[cur] =
              [title |-> titleField, details |-> ctx[cur].details, date |-> d]
        BY <2>1, <3>2, HandedOver
      <4> QED
        BY <4>1
    <3> QED
      BY <3>1, <3>2
  <2>3. StoreDated'
    BY <2>1, <2>2, HandedOver, SaveDates
  <2> QED
    BY <2>1, <2>3 DEF Dated
<1>4. CASE DueDateEdited
  <2>1. /\ screen \in {"editor", "leaving"} /\ picker \in Dates
        /\ SaveMyToDoEntity(WithDate, screen) /\ picker' = picker
    BY <1>4 DEF DueDateEdited, fields, Dated
  <2>2. WithDate[cur] # Absent => WithDate[cur].date \in Dates
    BY <2>1, HandedOver
  <2>3. StoreDated'
    BY <2>1, <2>2, HandedOver, SaveDates
  <2> QED
    BY <2>1, <2>3 DEF Dated
<1>5. CASE TrashTapped
  <2> DEFINE c == [ctx EXCEPT ![cur] = Absent]
  <2>1. /\ screen \in {"editor", "leaving"} /\ picker \in Dates
        /\ SaveMyToDoEntity(c, "leaving") /\ picker' = picker
    BY <1>5 DEF TrashTapped, fields, Dated
  <2>2. c \in Contents /\ c[cur] = Absent /\ \A j \in Items : j # cur => c[j] = ctx[j]
    BY <1>1, <2>1 DEF Contents
  <2> HIDE DEF c
  <2>3. StoreDated'
    BY <2>1, <2>2, SaveDates
  <2> QED
    BY <2>1, <2>3 DEF Dated
<1>6. CASE ViewWillDisappear
  <2>1. /\ screen \in {"editor", "leaving"} /\ picker \in Dates
        /\ SaveMyToDoEntity(WithAllFields, "leaving") /\ picker' = picker
    BY <1>6 DEF ViewWillDisappear, editor, fields, Dated
  <2>2. WithAllFields[cur] # Absent => WithAllFields[cur].date \in Dates
    BY <2>1, HandedOver
  <2>3. StoreDated'
    BY <2>1, <2>2, HandedOver, SaveDates
  <2> QED
    BY <2>1, <2>3 DEF Dated
<1>7. CASE SwipeCancelled
  <2>1. store' = store /\ picker \in Dates /\ ctx[cur] # Absent /\ cur \in Items
    BY <1>1, <1>7 DEF SwipeCancelled, Dated, IInv, EntityFate
  <2>2. picker' \in Dates
    BY <1>1, <1>7, <2>1 DEF SwipeCancelled, ViewWillAppear
  <2> QED
    BY <1>1, <2>1, <2>2 DEF Dated
<1>8. CASE Terminate
  <2>1. store' \in {ctx, store} /\ screen' \notin {"editor", "leaving"}
    BY <1>8 DEF Terminate, SaveMyToDoEntity
  <2>2. CASE ctx = store
    BY <1>1, <2>1, <2>2 DEF Dated
  <2>3. CASE ctx # store
    <3>1. cur \in Items /\ ctx[cur] = EmptyRow
      BY <1>1, <2>3 DEF IInv, OnlyInsertPending, TypeOK
    <3>2. EmptyRow \notin ValidRow \cup {Absent}
      BY DataAssumption DEF EmptyRow, ValidRow, Row, TitleText, DetailText
    <3>3. store' = store
      BY <1>8, <3>1, <3>2 DEF Terminate, SaveMyToDoEntity, AllValid
    <3> QED
      BY <1>1, <2>1, <3>3 DEF Dated
  <2> QED
    BY <2>2, <2>3
<1>9. CASE Launch \/ Kill \/ Popped
  BY <1>1, <1>9 DEF Launch, Kill, Popped, Dated
<1>10. CASE \E d \in Dates : TurnPicker(d)
  BY <1>1, <1>10 DEF TurnPicker, Dated
<1>11. CASE \/ \E t \in TitleText : TypeTitle(t)
            \/ \E t \in DetailText : TypeComments(t)
            \/ \E f \in {"title", "comments"} : BeginEditing(f)
            \/ \E f \in {"none", "title"} : EndCommentsEditing(f)
            \/ UNCHANGED vars
  BY <1>11 DEF TypeTitle, TypeComments, BeginEditing, EndCommentsEditing, Dated, vars,
       editor, fields
<1> QED
  BY <1>2, <1>3, <1>4, <1>5, <1>6, <1>7, <1>8, <1>9, <1>10, <1>11
     DEF Next, EditorStep, ProcessStep
----------------------------------------------------------------------------
(* The list's invariant: while the app runs the controller holds every     *)
(* object of the context once, newest first, and the table shows them.     *)
InStep ==
  /\ Enumerates(fetched, ctx)
  /\ NewestFirst(fetched, ctx)
  /\ Shows(table, fetched, ctx)

ListIInv ==
  /\ IInv
  /\ Finite
  /\ Dated
  /\ fetched \in Seq(Items)
  /\ table \in Seq(Cell)
  /\ Running => InStep

LEMMA PositionFound ==
  ASSUME InStep, NEW i \in Items, ctx[i] # Absent
  PROVE  PositionOf(i) \in 1 .. Len(fetched) /\ fetched[PositionOf(i)] = i
<1>1. DOMAIN fetched = 1 .. Len(fetched)
  BY DEF InStep, Enumerates
<1>2. \E k \in DOMAIN fetched : fetched[k] = i
  BY <1>1 DEF InStep, Enumerates
<1> QED
  BY <1>1, <1>2 DEF PositionOf

(* The row edits of didChangeObject keep the table in step.                *)
LEMMA ControllerFollows ==
  ASSUME ctx \in Contents, ctx' \in Contents, InStep, OneRow, ControllerStep
  PROVE  InStep'
<1>1. CASE ctx' = ctx /\ UNCHANGED <<fetched, table>>
  BY <1>1 DEF InStep, Enumerates, Shows, NewestFirst, SetInternalFields
<1>2. ASSUME NEW i \in Items, ctx'[i] # ctx[i],
             ObjectInserted(i) \/ ObjectDeleted(i) \/ ObjectUpdated(i) \/ ObjectMoved(i)
      PROVE  InStep'
  <2>1. \A j \in Items : j # i => ctx'[j] = ctx[j]
    BY <1>2 DEF OneRow
  <2>2. /\ Enumerates(fetched, ctx) /\ NewestFirst(fetched, ctx) /\ Shows(table, fetched, ctx)
        /\ DOMAIN fetched = 1 .. Len(fetched) /\ Len(fetched) \in Nat
    BY DEF InStep, Enumerates
  <2>3. SUFFICES /\ Enumerates(fetched', ctx')
                 /\ NewestFirst(fetched', ctx')
                 /\ Shows(table', fetched', ctx')
    BY DEF InStep, Enumerates, Shows, NewestFirst, SetInternalFields
  <2>4. CASE ObjectInserted(i)
    <3>1. PICK new \in 1 .. Len(fetched) + 1 :
            /\ fetched' = InsertAt(fetched, new, i)
            /\ NewestFirst(fetched', ctx')
            /\ table' = InsertAt(table, new, SetInternalFields(ctx', fetched'[new]))
      BY <2>4 DEF ObjectInserted, InsertRow
    <3>2. ctx[i] = Absent /\ ctx'[i] # Absent
      BY <1>2, <2>4 DEF ObjectInserted
    <3>3. /\ Enumerates(InsertAt(fetched, new, i), ctx')
          /\ InsertAt(fetched, new, i)[new] = i
          /\ Shows(InsertAt(table, new, SetInternalFields(ctx', i)),
                   InsertAt(fetched, new, i), ctx')
      BY <2>1, <2>2, <3>2, InsertKeepsRows
    <3> QED
      BY <3>1, <3>3
  <2>5. CASE ObjectDeleted(i)
    <3>1. ctx[i] # Absent /\ ctx'[i] = Absent
      BY <1>2, <2>5 DEF ObjectDeleted
    <3>2. PositionOf(i) \in 1 .. Len(fetched) /\ fetched[PositionOf(i)] = i
      BY <3>1, PositionFound
    <3>3. fetched' = RemoveAt(fetched, PositionOf(i)) /\ table' = RemoveAt(table, PositionOf(i))
      BY <2>5 DEF ObjectDeleted, DeleteRow
    <3> QED
      BY <2>1, <2>2, <3>1, <3>2, <3>3, DeleteKeepsRows
  <2>6. CASE ObjectUpdated(i)
    <3>1. ctx[i] # Absent /\ ctx'[i] # Absent
      BY <2>6 DEF ObjectUpdated
    <3>2. PositionOf(i) \in 1 .. Len(fetched) /\ fetched[PositionOf(i)] = i
      BY <3>1, PositionFound
    <3>3. /\ fetched' = fetched /\ NewestFirst(fetched, ctx')
          /\ table' = ReplaceAt(table, PositionOf(i), SetInternalFields(ctx', i))
      BY <2>6, <3>2 DEF ObjectUpdated, UpdateRow
    <3> QED
      BY <2>1, <2>2, <3>1, <3>2, <3>3, UpdateKeepsRows
  <2>7. CASE ObjectMoved(i)
    <3> DEFINE without == [ctx EXCEPT ![i] = Absent]
               s == RemoveAt(fetched, PositionOf(i))
               t == RemoveAt(table, PositionOf(i))
    <3>1. ctx[i] # Absent /\ ctx'[i] # Absent
      BY <2>7 DEF ObjectMoved
    <3>2. PositionOf(i) \in 1 .. Len(fetched) /\ fetched[PositionOf(i)] = i
      BY <3>1, PositionFound
    <3>3. PICK new \in 1 .. Len(fetched) :
            /\ fetched' = InsertAt(s, new, i)
            /\ NewestFirst(fetched', ctx')
            /\ table' = InsertAt(t, new, SetInternalFields(ctx', fetched'[new]))
      BY <2>2, <2>7 DEF ObjectMoved, MoveRow
    <3>4. /\ without \in Contents /\ without[i] = Absent
          /\ \A j \in Items : j # i => without[j] = ctx[j]
      BY DEF Contents
    <3> HIDE DEF without
    <3>5. Enumerates(s, without) /\ Shows(t, s, without)
      BY <2>2, <3>2, <3>4, DeleteKeepsRows
    <3>6. Len(s) = Len(fetched) - 1
      BY <2>2, <3>2, RemoveAtElements DEF Enumerates
    <3>7. new \in 1 .. Len(s) + 1
      BY <2>2, <3>6
    <3>8. \A j \in Items : j # i => ctx'[j] = without[j]
      BY <2>1, <3>4
    <3> HIDE DEF s, t
    <3>9. /\ Enumerates(InsertAt(s, new, i), ctx')
          /\ InsertAt(s, new, i)[new] = i
          /\ Shows(InsertAt(t, new, SetInternalFields(ctx', i)), InsertAt(s, new, i), ctx')
      BY <3>1, <3>4, <3>5, <3>7, <3>8, InsertKeepsRows
    <3> QED
      BY <3>3, <3>9
  <2> QED
    BY <1>2, <2>4, <2>5, <2>6, <2>7
<1> QED
  BY <1>1, <1>2 DEF ControllerStep

(* performFetch lists a finite context, each object once.                  *)
LEMMA FetchLists ==
  ASSUME NEW c \in Contents, IsFiniteSet(Live(c)), NEW s \in SetToSeqs(Live(c))
  PROVE  Enumerates(s, c)
<1> DEFINE n == Cardinality(Live(c))
<1>1. n \in Nat
  BY FS_CardinalityType
<1>2. s \in [1 .. n -> Live(c)] /\ \A j, k \in 1 .. n : j # k => s[j] # s[k]
  BY DEF SetToSeqs
<1> HIDE DEF n
<1>3. s \in Injection(1 .. n, Live(c))
  BY <1>2 DEF Injection, IsInjective
<1>4. Cardinality(1 .. n) = n
  BY <1>1, FS_Interval
<1>5. s \in Surjection(1 .. n, Live(c))
  BY <1>3, <1>4, FS_Injection DEF n
<1>6. \A i \in Live(c) : \E k \in 1 .. n : s[k] = i
  BY <1>5 DEF Surjection
<1>7. s \in Seq(Items) /\ Len(s) = n
  BY <1>1, <1>2 DEF Live
<1> QED
  BY <1>2, <1>6, <1>7 DEF Enumerates, Live
----------------------------------------------------------------------------
(* The list adds nothing to what the app can do: a row that is tapped is   *)
(* the row of an item.                                                     *)
LEMMA ListStepIsStep == ListIInv /\ [ListNext]_listVars => [Next]_vars
<1> SUFFICES ASSUME ListIInv, [ListNext]_listVars PROVE [Next]_vars
  OBVIOUS
<1>1. \A k \in DOMAIN table : table[k].item \in Items
  <2>1. DOMAIN table = 1 .. Len(table) /\ \A k \in 1 .. Len(table) : table[k] \in Cell
    BY DEF ListIInv
  <2>2. \A x \in Cell : x.item \in Items
    BY DEF Cell
  <2> QED
    BY <2>1, <2>2
<1>2. CASE PrepareForSegue
  BY <1>1, <1>2 DEF PrepareForSegue, Next, ListStep
<1>3. CASE EditorStep \/ Terminate \/ Kill \/ Launch
  BY <1>3 DEF Next, ProcessStep
<1>4. CASE UNCHANGED listVars
  BY <1>4 DEF listVars
<1> QED
  BY <1>2, <1>3, <1>4 DEF ListNext

LEMMA ListInit_ListIInv == ListInit => ListIInv
<1> SUFFICES ASSUME ListInit PROVE ListIInv
  OBVIOUS
<1>1. Init /\ fetched = <<>> /\ table = <<>>
  BY DEF ListInit
<1>2. IInv
  BY <1>1, InitEstablishes
<1>3. Live(ctx) = {} /\ \A i \in Items : ctx[i] = Absent /\ store[i] = Absent
  BY <1>1 DEF Init, Live
<1>4. Finite
  BY <1>3, FS_EmptySet DEF Finite
<1>5. Dated
  BY <1>1, <1>3 DEF Dated, Init
<1>6. /\ fetched \in Seq(Items) /\ table \in Seq(Cell)
      /\ Len(fetched) = 0 /\ Len(table) = 0 /\ DOMAIN fetched = {}
  BY <1>1
<1>7. InStep
  BY <1>3, <1>6 DEF InStep, Enumerates, Shows, NewestFirst
<1> QED
  BY <1>2, <1>4, <1>5, <1>6, <1>7 DEF ListIInv

LEMMA ListPreserved == ListIInv /\ [ListNext]_listVars => ListIInv'
<1> SUFFICES ASSUME ListIInv, [ListNext]_listVars PROVE ListIInv'
  OBVIOUS
<1>1. IInv /\ Finite /\ Dated /\ [Next]_vars
  BY ListStepIsStep DEF ListIInv
<1>2. IInv' /\ Finite' /\ Dated'
  BY <1>1, StepPreserves, FinitePreserved, DatedPreserved
<1>3. ctx \in Contents /\ ctx' \in Contents /\ store \in Contents
  BY <1>1, <1>2 DEF IInv, TypeOK, Contents
<1>4. SUFFICES (fetched \in Seq(Items) /\ table \in Seq(Cell) /\ (Running => InStep))'
  BY <1>2 DEF ListIInv
<1>5. InStep' => fetched' \in Seq(Items) /\ table' \in Seq(Cell)
  BY DEF InStep, Enumerates, Shows
<1>6. CASE (PrepareForSegue \/ EditorStep) /\ screen' # "crashed" /\ ControllerStep
  <2>1. Running
    BY <1>6 DEF Running, PrepareForSegue, AddTapped, RowTapped, EditorStep, TypeTitle,
         TypeComments, BeginEditing, EndCommentsEditing, TitleFieldEdited, TurnPicker,
         DueDateEdited, TrashTapped, ViewWillDisappear, SwipeCancelled, Popped
  <2>2. InStep
    BY <2>1 DEF ListIInv
  <2>3. OneRow
    BY <1>1, OneRowChanges
  <2> QED
    BY <1>3, <1>5, <1>6, <2>2, <2>3, ControllerFollows
<1>7. CASE fetched' = <<>> /\ table' = <<>> /\ ~Running'
  BY <1>7
<1>8. CASE EditorStep /\ screen' = "crashed" /\ fetched' = <<>> /\ table' = <<>>
  BY <1>7, <1>8 DEF Running
<1>9. CASE (Terminate \/ Kill) /\ fetched' = <<>> /\ table' = <<>>
  BY <1>7, <1>9 DEF Running, Terminate, Kill, SaveMyToDoEntity
<1>10. CASE Launch /\ PerformFetch
  <2>1. ctx' = store /\ fetched' \in SetToSeqs(Live(store)) /\ NewestFirst(fetched', store)
        /\ table' = [k \in DOMAIN fetched' |-> SetInternalFields(store, fetched'[k])]
    BY <1>10 DEF Launch, PerformFetch
  <2>2. IsFiniteSet(Live(store))
    BY <1>2, <2>1 DEF Finite, Live
  <2>3. Enumerates(fetched', store)
    BY <1>3, <2>1, <2>2, FetchLists
  <2>4. /\ DOMAIN fetched' = 1 .. Len(fetched') /\ Len(fetched') \in Nat
        /\ \A k \in 1 .. Len(fetched') : fetched'[k] \in Items /\ store[fetched'[k]] # Absent
    BY <2>3 DEF Enumerates
  <2>5. \A k \in 1 .. Len(fetched') : SetInternalFields(store, fetched'[k]) \in Cell
    BY <1>3, <2>4, CellOf
  <2>6. Shows(table', fetched', store)
    BY <2>1, <2>4, <2>5 DEF Shows
  <2>7. InStep'
    BY <2>1, <2>3, <2>6 DEF InStep, Enumerates, NewestFirst, Shows, SetInternalFields
  <2> QED
    BY <1>5, <2>7
<1>11. CASE UNCHANGED listVars
  BY <1>11 DEF listVars, vars, ListIInv, InStep, Enumerates, NewestFirst, Shows,
       SetInternalFields, Running
<1> QED
  BY <1>6, <1>8, <1>9, <1>10, <1>11 DEF ListNext

----------------------------------------------------------------------------
(* The list's inductive invariant holds throughout.                        *)
THEOREM ListInvariance == ListSpec => []ListIInv
  BY ListInit_ListIInv, ListPreserved, PTL DEF ListSpec

(* The controller's objects and the table's cells stay of their types      *)
(* through every row edit of didChangeObject.                              *)
THEOREM ListTypeCorrect == ListSpec => []ListTypeOK
<1>1. ListIInv => ListTypeOK
  BY DEF ListIInv, ListTypeOK
<1> QED
  BY <1>1, ListInvariance, PTL

(* The app behind the list takes only its own steps, so that everything    *)
(* proved of Spec holds of the app with its list (prepareForSegue hands    *)
(* the editor an item, never a leftover cell).                             *)
THEOREM ListAddsNothing == ListSpec => Spec
<1>1. ListInit => Init
  BY DEF ListInit
<1> QED
  BY <1>1, ListInvariance, ListStepIsStep, PTL DEF ListSpec, Spec

(* The rows of the table are the objects of the context, each once, up to  *)
(* date and newest first (controller:didChangeObject: and its four cases). *)
THEOREM RowsAreContext == ListSpec => []RowsMirrorContext
<1>1. ListIInv => RowsMirrorContext
  <2> SUFFICES ASSUME ListIInv, Running PROVE RowsMirrorContext
    BY DEF RowsMirrorContext
  <2>1. /\ Enumerates(fetched, ctx) /\ NewestFirst(fetched, ctx) /\ Shows(table, fetched, ctx)
        /\ DOMAIN fetched = 1 .. Len(fetched) /\ DOMAIN table = 1 .. Len(fetched)
    BY DEF ListIInv, InStep, Enumerates, Shows
  <2>2. \A k \in DOMAIN table :
          /\ table[k] = SetInternalFields(ctx, fetched[k])
          /\ table[k].item = fetched[k]
          /\ table[k].date = ctx[fetched[k]].date
    BY <2>1 DEF Shows, SetInternalFields
  <2>3. {table[k].item : k \in DOMAIN table} = Live(ctx)
    BY <2>1, <2>2 DEF Enumerates, Live
  <2>4. \A j, k \in DOMAIN table : j # k => table[j].item # table[k].item
    BY <2>1, <2>2 DEF Enumerates
  <2>5. \A k \in DOMAIN table : table[k] = SetInternalFields(ctx, table[k].item)
    BY <2>2
  <2>6. \A j, k \in DOMAIN table : j < k => table[j].date >= table[k].date
    BY <2>1, <2>2 DEF NewestFirst
  <2> QED
    BY <2>3, <2>4, <2>5, <2>6 DEF RowsMirrorContext
<1> QED
  BY <1>1, ListInvariance, PTL

(* Tapping a row opens what the row showed, and that is on disk            *)
(* (prepareForSegue takes the entity from the cell, viewWillAppear shows   *)
(* its fields).                                                            *)
THEOREM TapOpensRow == ListSpec => TapOpensWhatIsShown
<1> DEFINE Tap == screen = "list" /\ screen' = "editor" /\ ctx[cur'] # Absent =>
                    \E k \in DOMAIN table :
                      /\ table[k].item = cur'
                      /\ titleField' = table[k].title /\ picker' = table[k].date
                      /\ store[cur'].title = table[k].title
                      /\ store[cur'].date = table[k].date
<1>1. ListIInv /\ [ListNext]_listVars => Tap
  <2> SUFFICES ASSUME ListIInv, [ListNext]_listVars,
                      screen = "list", screen' = "editor", ctx[cur'] # Absent
               PROVE  \E k \in DOMAIN table :
                        /\ table[k].item = cur'
                        /\ titleField' = table[k].title /\ picker' = table[k].date
                        /\ store[cur'].title = table[k].title
                        /\ store[cur'].date = table[k].date
    OBVIOUS
  <2>1. ~EditorStep /\ ~Terminate /\ ~Kill /\ ~Launch /\ ~UNCHANGED listVars
    BY DEF EditorStep, TypeTitle, TypeComments, BeginEditing, EndCommentsEditing,
         TitleFieldEdited, TurnPicker, DueDateEdited, TrashTapped, ViewWillDisappear,
         SwipeCancelled, Popped, Terminate, Kill, Launch, SaveMyToDoEntity, Running,
         listVars, vars
  <2>2. ~ \E i \in Items : AddTapped(i)
    BY DEF AddTapped
  <2>3. PICK k \in DOMAIN table : RowTapped(table[k].item)
    BY <2>1, <2>2 DEF ListNext, PrepareForSegue
  <2>4. IInv /\ Dated /\ InStep /\ ctx = store
    BY Ahead DEF ListIInv, Running
  <2>5. /\ k \in 1 .. Len(fetched) /\ fetched[k] \in Items
        /\ table[k] = SetInternalFields(ctx, fetched[k])
    BY <2>4 DEF InStep, Enumerates, Shows
  <2>6. cur' = fetched[k] /\ ViewWillAppear(ctx[fetched[k]], PickerDefault)
    BY <2>3, <2>5 DEF RowTapped, SetInternalFields
  <2>7. ctx[fetched[k]].date \in Dates /\ NoDate \notin Dates
    BY <2>4, <2>5, <2>6, DataAssumption DEF Dated, NoDate
  <2> QED
    BY <2>4, <2>5, <2>6, <2>7 DEF ViewWillAppear, SetInternalFields
<1> QED
  BY <1>1, ListInvariance, PTL DEF ListSpec, TapOpensWhatIsShown
============================================================================
