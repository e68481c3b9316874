------------------------------- MODULE Chores -------------------------------
(***************************************************************************)
(* CoreDataCoursera: chores and persons in a Core Data store, each shown   *)
(* in a roller whose helper keeps a copy of the rows.  Every handler that  *)
(* changes the context saves it or ends the process, so that between       *)
(* handlers the context holds what the disk holds.  A save aborts the      *)
(* process when the disk refuses it, and so does a fetch that fails.  The  *)
(* order of the rows is whatever the fetch returns.                        *)
(***************************************************************************)
EXTENDS Integers, FiniteSets

CONSTANTS Chores, Persons    \* identities of managed objects

ASSUME ChoresAssumption == IsFiniteSet(Chores) /\ IsFiniteSet(Persons)

VARIABLES
  process,       \* "running", or how it ended
  diskChores, diskPersons,
  choreData, personData    \* pickerData of the two helpers

disk == <<diskChores, diskPersons>>
rollers == <<choreData, personData>>
choresVars == <<process, disk, rollers>>

Ends == {"killed", "aborted", "rangeException", "unrecognizedSelector"}

ChoresTypeOK ==
  /\ process \in {"running"} \cup Ends
  /\ diskChores \subseteq Chores /\ diskPersons \subseteq Persons
  /\ choreData \subseteq Chores /\ personData \subseteq Persons

Running == process = "running"

ChoresInit ==
  /\ process = "running"
  /\ diskChores = {} /\ diskPersons = {}
  /\ choreData = {} /\ personData = {}

(* applicationWillTerminate finds nothing to save. *)
ChoresKill ==
  /\ Running
  /\ process' = "killed"
  /\ UNCHANGED <<disk, rollers>>

(* A save or a fetch fails; what the rollers show no longer matters. *)
Abort ==
  /\ process' = "aborted"
  /\ UNCHANGED rollers

(* viewDidLoad fetches both copies. *)
ChoresLaunch ==
  /\ ~Running
  /\ \/ /\ process' = "running"
        /\ choreData' = diskChores /\ personData' = diskPersons
     \/ Abort
  /\ UNCHANGED disk

(* Mutant: the roller of chores is not refreshed. *)
ChoreTappedUnseen(c) ==
  /\ Running /\ c \notin diskChores
  /\ \/ /\ diskChores' = diskChores \cup {c}
        /\ UNCHANGED <<process, rollers>>
     \/ Abort /\ UNCHANGED diskChores
  /\ UNCHANGED diskPersons

(* The save fails, or the fetch after it. *)
ChoreTapped(c) ==
  /\ Running /\ c \notin diskChores
  /\ \/ /\ diskChores' = diskChores \cup {c}
        /\ choreData' = diskChores'
        /\ UNCHANGED <<process, personData>>
     \/ Abort /\ diskChores' \in {diskChores, diskChores \cup {c}}
  /\ UNCHANGED diskPersons

PersonTapped(p) ==
  /\ Running /\ p \notin diskPersons
  /\ \/ /\ diskPersons' = diskPersons \cup {p}
        /\ personData' = diskPersons'
        /\ UNCHANGED <<process, choreData>>
     \/ Abort /\ diskPersons' \in {diskPersons, diskPersons \cup {p}}
  /\ UNCHANGED diskChores

(* Mutant: the persons are deleted first. *)
DeletePersonsFirst ==
  /\ Running
  /\ diskPersons' = {}
  /\ \/ /\ diskChores' = {}
        /\ choreData' = {} /\ personData' = {}
        /\ UNCHANGED process
     \/ Abort /\ UNCHANGED diskChores

(* Two saves, the chores' and then the persons'; either can fail, and so   *)
(* can a fetch before or after it; a kill in between leaves the same disk. *)
(* The rollers are refreshed after both.                                   *)
DeleteTapped ==
  /\ Running
  /\ \/ /\ diskChores' = {} /\ diskPersons' = {}
        /\ choreData' = {} /\ personData' = {}
        /\ UNCHANGED process
     \/ Abort /\ diskChores' = {} /\ diskPersons' \in {diskPersons, {}}
     \/ Abort /\ UNCHANGED disk

(* The rows a picker of n rows can have selected. *)
SelectedRow(n) == IF n = 0 THEN {-1} ELSE 0 .. n - 1

(* choreLogTapped looks both rows up in the copy of the chores, and then   *)
(* sets the attributes of a log on an object it has created as a chore,    *)
(* which has none of them: it raises one way or the other, with nothing    *)
(* saved.                                                                  *)
ChoreLogTapped ==
  /\ Running
  /\ \E choreRow \in SelectedRow(Cardinality(choreData)),
        personRow \in SelectedRow(Cardinality(personData)) :
       process' = IF {choreRow, personRow} \subseteq 0 .. Cardinality(choreData) - 1
                  THEN "unrecognizedSelector" ELSE "rangeException"
  /\ UNCHANGED <<disk, rollers>>

ChoresNext ==
  \/ ChoresLaunch \/ ChoresKill
  \/ \E c \in Chores : ChoreTapped(c)
  \/ \E p \in Persons : PersonTapped(p)
  \/ DeleteTapped \/ ChoreLogTapped

ChoresSpec == ChoresInit /\ [][ChoresNext]_choresVars

----------------------------------------------------------------------------
(* The rollers, refreshed by hand and one by one, offer what the disk      *)
(* holds after every handler, relaunches and failed saves included.        *)
RollersMirrorDisk == Running => choreData = diskChores /\ personData = diskPersons

(* A person leaves the disk only when no chore is left there: a deletion   *)
(* cut short never leaves chores behind that have lost the persons.        *)
PersonsGoLast == [][~(diskPersons \subseteq diskPersons') => diskChores' = {}]_choresVars
=============================================================================
