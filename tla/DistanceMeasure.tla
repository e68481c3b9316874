-------------------------- MODULE DistanceMeasure --------------------------
(***************************************************************************)
(* The DistanceMeasure app: a screen with one button and one label per     *)
(* destination, over the DistanceGetter pod, which looks the source up and *)
(* then every destination in parallel and calls back once.  All handlers   *)
(* run on the main thread; MapKit (external) completes its searches in any *)
(* order, each once, with a place or without.                              *)
(***************************************************************************)
EXTENDS Naturals, FiniteSets

CONSTANTS
  Slots,      \* the destinations of a request; three in the app
  Requests,   \* identities of DGDistanceRequest objects
  Distances,  \* distances between two places found
  Unknown,    \* the number -1 that stands in a response with no distance
  Untouched,  \* the text of a label before the first answer
  NoRequest   \* a nil req

ASSUME DistanceAssumption ==
  /\ IsFiniteSet(Slots)
  /\ NoRequest \notin Requests

Responses == [Slots -> Distances \cup {Unknown}]

VARIABLES
  enabled,      \* calculateButton.enabled
  req,          \* the screen's request
  labels,       \* what the labels show
  source,       \* per request, is its source search under way
  pending,      \* per request, the destinations being searched
  outstanding,  \* per request, its outstandingRequests counter
  responses,    \* per request, its response buffer
  callback      \* per request, is its callback set

searches == <<source, pending>>
request == <<outstanding, responses, callback>>
vars == <<enabled, req, labels, searches, request>>

TypeOK ==
  /\ enabled \in BOOLEAN
  /\ req \in Requests \cup {NoRequest}
  /\ labels \in [Slots -> Distances \cup {Unknown, Untouched}]
  /\ source \in [Requests -> BOOLEAN]
  /\ pending \in [Requests -> SUBSET Slots]
  /\ outstanding \in [Requests -> Nat]
  /\ responses \in [Requests -> Responses]
  /\ callback \in [Requests -> BOOLEAN]

NoResponses == [k \in Slots |-> Unknown]

(* Some search of request r is still under way.                            *)
InFlight(r) == source[r] \/ pending[r] # {}

Init ==
  /\ enabled = TRUE
  /\ req = NoRequest
  /\ labels = [k \in Slots |-> Untouched]
  /\ source = [r \in Requests |-> FALSE]
  /\ pending = [r \in Requests |-> {}]
  /\ outstanding = [r \in Requests |-> 0]
  /\ responses = [r \in Requests |-> NoResponses]
  /\ callback = [r \in Requests |-> FALSE]

(* A new request object r, one that no search holds: the screen disables   *)
(* its button, sets the callback, and start fills the buffer and launches  *)
(* the source search.                                                      *)
CalculateButtonTapped(r) ==
  /\ enabled
  /\ ~InFlight(r)
  /\ enabled' = FALSE
  /\ req' = r
  /\ callback' = [callback EXCEPT ![r] = TRUE]
  /\ outstanding' = [outstanding EXCEPT ![r] = Cardinality(Slots)]
  /\ responses' = [responses EXCEPT ![r] = NoResponses]
  /\ source' = [source EXCEPT ![r] = TRUE]
  /\ UNCHANGED <<labels, pending>>

(* The screen's callback block, run if it is still set, and only once.     *)
CallBack(r, answer) ==
  /\ callback' = [callback EXCEPT ![r] = FALSE]
  /\ IF callback[r]
     THEN labels' = answer /\ enabled' = TRUE /\ req' = NoRequest
     ELSE UNCHANGED <<labels, enabled, req>>

(* Mutant: a failed source search returns without calling back. *)
SourceFailedSilently(r) ==
  /\ source[r]
  /\ source' = [source EXCEPT ![r] = FALSE]
  /\ UNCHANGED <<callback, labels, enabled, req, pending, outstanding, responses>>

SourceFailed(r) ==
  /\ source[r]
  /\ source' = [source EXCEPT ![r] = FALSE]
  /\ CallBack(r, responses[r])
  /\ UNCHANGED <<pending, outstanding, responses>>

SourceFound(r) ==
  /\ source[r]
  /\ source' = [source EXCEPT ![r] = FALSE]
  /\ IF outstanding[r] = 0
     THEN CallBack(r, responses[r]) /\ UNCHANGED pending
     ELSE /\ pending' = [pending EXCEPT ![r] = Slots]
          /\ UNCHANGED <<callback, labels, enabled, req>>
  /\ UNCHANGED <<outstanding, responses>>

(* Mutants: counting a completion twice, or only when it found a place. *)
CountedTwice(n, d) == n - 2
CountedIfFound(n, d) == IF d = Unknown THEN n ELSE n - 1

(* outstandingRequests--, whatever the search found.                       *)
Counted(n, d) == n - 1

(* Mutant: answering when one search is left. *)
AlmostLast(n) == n <= 1

(* "If this was the last one, let's send our response array".              *)
WasLast(n) == n = 0

(* The completion of destination k with d, a distance or none.             *)
DestinationCompleted(r, k, d) ==
  /\ k \in pending[r]
  /\ pending' = [pending EXCEPT ![r] = @ \ {k}]
  /\ responses' = [responses EXCEPT ![r][k] = IF d = Unknown THEN @ ELSE d]
  /\ outstanding' = [outstanding EXCEPT ![r] = Counted(@, d)]
  /\ IF WasLast(outstanding'[r])
     THEN CallBack(r, responses'[r])
     ELSE UNCHANGED <<callback, labels, enabled, req>>
  /\ UNCHANGED source

SearchCompleted ==
  \E r \in Requests :
    \/ SourceFailed(r)
    \/ SourceFound(r)
    \/ \E k \in Slots, d \in Distances \cup {Unknown} : DestinationCompleted(r, k, d)

Next == SearchCompleted \/ \E r \in Requests : CalculateButtonTapped(r)

(* MapKit completes every search it was given.                             *)
Spec == Init /\ [][Next]_vars /\ WF_vars(SearchCompleted)

----------------------------------------------------------------------------
(* The button is disabled exactly while the screen's request still has a   *)
(* search to wait for and a callback to run, and no other request has one: *)
(* no tap is lost to a request that can no longer answer, and no answer    *)
(* can land on a screen that waits for another.                            *)
OneRequestInFlight ==
  /\ ~enabled <=> req # NoRequest
  /\ \A r \in Requests : InFlight(r) \/ callback[r] <=> req = r
  /\ \A r \in Requests : InFlight(r) /\ ~source[r] =>
       outstanding[r] = Cardinality(pending[r])

(* The labels change only when every search of the request is over, and    *)
(* then to what those searches found: no label shows a distance that was   *)
(* still being looked up, or one of an earlier tap.                        *)
AnswersAreComplete ==
  [][labels' # labels \/ (~enabled /\ enabled') =>
       /\ req \in Requests
       /\ ~source'[req] /\ pending'[req] = {}
       /\ labels' = responses'[req]]_vars

(* The screen keeps the promise of Calculation, the answer that always     *)
(* comes included.                                                         *)
Screen == INSTANCE Calculation WITH
  Values <- Distances \cup {Unknown, Untouched}, ready <- enabled, shown <- labels
ImplementsCalculation == Screen!Spec
============================================================================
