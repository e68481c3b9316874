------------------------------ MODULE ToDoList ------------------------------
(***************************************************************************)
(* The list screen over the ToDoManager app: a fetched results controller  *)
(* (external: NSFetchedResultsController) keeps the objects of the context *)
(* sorted by date, newest first, and reports each change to the table view *)
(* controller, which edits the rows of the table and never reloads them.   *)
(* Each row keeps the entity its cell was last given; tapping the row      *)
(* opens that entity.                                                      *)
(***************************************************************************)
EXTENDS ToDoManager, SequencesExt

VARIABLES
  fetched,   \* the controller's objects, in order
  table      \* the table's cells, in order

listVars == <<vars, fetched, table>>

Cell == [item : Items, title : TitleText, date : Dates \cup {NoDate}]

ListTypeOK ==
  /\ fetched \in Seq(Items)
  /\ table \in Seq(Cell)

NewestFirst(s, c) ==
  \A j, k \in DOMAIN s : j < k => c[s[j]].date >= c[s[k]].date

(* Mutant: the cell is not given its entity. *)
SetFieldsNoEntity(c, i) == [item |-> NoItem, title |-> c[i].title, date |-> c[i].date]

(* cellForRowAtIndexPath and setInternalFields: the cell for object i of   *)
(* the context c.                                                          *)
SetInternalFields(c, i) == [item |-> i, title |-> c[i].title, date |-> c[i].date]

(* Mutants: an update that refreshes nothing; a move that deletes at both  *)
(* index paths, as the list of the tableViewPlusCD app does.               *)
UpdateIgnored(old, objs, c) == table
MoveDeletesBoth(old, new, objs, c) ==
  IF old = new THEN RemoveAt(table, old)
  ELSE RemoveAt(RemoveAt(table, IF old < new THEN new ELSE old),
                IF old < new THEN old ELSE new)

(* didChangeObject, between beginUpdates and endUpdates: objs is what the  *)
(* controller holds by then.                                               *)
InsertRow(new, objs, c) == InsertAt(table, new, SetInternalFields(c, objs[new]))
DeleteRow(old) == RemoveAt(table, old)
UpdateRow(old, objs, c) == ReplaceAt(table, old, SetInternalFields(c, objs[old]))
MoveRow(old, new, objs, c) ==
  InsertAt(RemoveAt(table, old), new, SetInternalFields(c, objs[new]))

PositionOf(i) == CHOOSE k \in DOMAIN fetched : fetched[k] = i

(* The controller's answer to a change of object i.  Among objects with    *)
(* the same date any order may come out, but an object whose sort key did  *)
(* not change stays where it is.                                           *)
ObjectInserted(i) ==
  /\ ctx[i] = Absent
  /\ \E new \in 1..Len(fetched) + 1 :
       /\ fetched' = InsertAt(fetched, new, i)
       /\ NewestFirst(fetched', ctx')
       /\ table' = InsertRow(new, fetched', ctx')

ObjectDeleted(i) ==
  /\ ctx'[i] = Absent
  /\ fetched' = RemoveAt(fetched, PositionOf(i))
  /\ table' = DeleteRow(PositionOf(i))

ObjectUpdated(i) ==
  /\ ctx[i] # Absent /\ ctx'[i] # Absent
  /\ NewestFirst(fetched, ctx')
  /\ UNCHANGED fetched
  /\ table' = UpdateRow(PositionOf(i), fetched, ctx')

ObjectMoved(i) ==
  /\ ctx[i] # Absent /\ ctx'[i] # Absent
  /\ ctx'[i].date # ctx[i].date
  /\ \E new \in DOMAIN fetched :
       /\ fetched' = InsertAt(RemoveAt(fetched, PositionOf(i)), new, i)
       /\ NewestFirst(fetched', ctx')
       /\ table' = MoveRow(PositionOf(i), new, fetched', ctx')

ControllerStep ==
  \/ ctx' = ctx /\ UNCHANGED <<fetched, table>>
  \/ \E i \in Items :
       /\ ctx'[i] # ctx[i]
       /\ ObjectInserted(i) \/ ObjectDeleted(i) \/ ObjectUpdated(i) \/ ObjectMoved(i)

(* viewDidLoad: performFetch, then every row is asked for.                 *)
PerformFetch ==
  /\ fetched' \in {s \in SetToSeqs(Live(store)) : NewestFirst(s, store)}
  /\ table' = [k \in DOMAIN fetched' |-> SetInternalFields(store, fetched'[k])]

(* The segue of a row takes the entity from the tapped cell.               *)
PrepareForSegue ==
  \/ \E i \in Items : AddTapped(i)
  \/ \E k \in DOMAIN table : RowTapped(table[k].item)

ListInit == Init /\ fetched = <<>> /\ table = <<>>

ListNext ==
  \/ (PrepareForSegue \/ EditorStep) /\ screen' # "crashed" /\ ControllerStep
  \/ EditorStep /\ screen' = "crashed" /\ fetched' = <<>> /\ table' = <<>>
  \/ (Terminate \/ Kill) /\ fetched' = <<>> /\ table' = <<>>
  \/ Launch /\ PerformFetch

ListSpec == ListInit /\ [][ListNext]_listVars

----------------------------------------------------------------------------
(* The rows of the table are exactly the objects of the context, each row  *)
(* shows the current title and date of its entity, and the dates go down:  *)
(* the row edits of the callbacks, applied to the positions the controller *)
(* names, never leave a stale, a missing or a doubled row.                 *)
RowsMirrorContext ==
  Running =>
    /\ {table[k].item : k \in DOMAIN table} = Live(ctx)
    /\ \A j, k \in DOMAIN table : j # k => table[j].item # table[k].item
    /\ \A k \in DOMAIN table : table[k] = SetInternalFields(ctx, table[k].item)
    /\ \A j, k \in DOMAIN table : j < k => table[j].date >= table[k].date

(* What opens when a row is tapped is what the row showed: the editor's    *)
(* title and date are the ones the user saw in the list, and they are on   *)
(* disk.                                                                   *)
TapOpensWhatIsShown ==
  [][screen = "list" /\ screen' = "editor" /\ ctx[cur'] # Absent =>
       \E k \in DOMAIN table :
         /\ table[k].item = cur'
         /\ titleField' = table[k].title /\ picker' = table[k].date
         /\ store[cur'].title = table[k].title
         /\ store[cur'].date = table[k].date]_listVars
=============================================================================
