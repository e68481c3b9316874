------------------------------ MODULE Currency ------------------------------
(***************************************************************************)
(* The CurrencyConverter app over the CurrencyRequest pod: a tap downloads *)
(* the table of the European Central Bank; the completion handler, on the  *)
(* session's queue, parses it or falls back on the table bundled with the  *)
(* pod, and hands it to the screen on the main queue.  A table is the set  *)
(* of currencies it has a rate for, all of them against the euro.          *)
(***************************************************************************)
CONSTANTS
  Requests,     \* identities of CRCurrencyRequest objects
  Amounts,      \* what the input field can hold
  Currencies,   \* the currencies a table of the bank can list
  Snapshot,     \* those of the document bundled with the pod
  USD,          \* the one the results are based on
  OnScreen,     \* the currencies of the three labels, but for the euro
  Nothing       \* no table; a label before the first answer

ASSUME CurrencyAssumption ==
  /\ Snapshot \subseteq Currencies
  /\ USD \in Snapshot
  /\ OnScreen \subseteq Snapshot \ {USD}
  /\ \A table \in SUBSET Currencies : Nothing # table
  /\ Nothing \notin [of : Amounts, table : SUBSET Currencies]

Tables == (SUBSET Currencies) \ {{}}

VARIABLES
  alive,       \* no exception has ended the process
  enabled,     \* convertButton.enabled
  amount,      \* the text of inputField
  labels,      \* the amount and the table the labels were computed from
  loading,     \* the requests whose download is under way
  answered,    \* the tables on their way to the main queue, by request
  outage       \* history: the requests on their way there to which the bank
               \* gave no document, or none with a rate

vars == <<alive, enabled, amount, labels, loading, answered, outage>>

TypeOK ==
  /\ alive \in BOOLEAN /\ enabled \in BOOLEAN
  /\ amount \in Amounts
  /\ labels \in {Nothing} \cup [of : Amounts, table : Tables]
  /\ loading \subseteq Requests
  /\ answered \in [Requests -> {Nothing} \cup Tables]
  /\ outage \subseteq Requests

Init ==
  /\ alive = TRUE /\ enabled = TRUE
  /\ amount \in Amounts
  /\ labels = Nothing
  /\ loading = {}
  /\ answered = [r \in Requests |-> Nothing]
  /\ outage = {}

InFlight(r) == r \in loading \/ answered[r] # Nothing

EditAmount(a) ==
  /\ alive
  /\ amount' = a
  /\ UNCHANGED <<alive, enabled, labels, loading, answered, outage>>

(* Mutant: the button stays enabled. *)
ButtonTappedEnabled(r) ==
  /\ alive /\ enabled /\ ~InFlight(r)
  /\ loading' = loading \cup {r}
  /\ UNCHANGED <<alive, enabled, amount, labels, answered, outage>>

ButtonTapped(r) ==
  /\ alive /\ enabled /\ ~InFlight(r)
  /\ enabled' = FALSE
  /\ loading' = loading \cup {r}
  /\ UNCHANGED <<alive, amount, labels, answered, outage>>

(* Mutant: a document without a rate is parsed to an empty table.          *)
ParsedAny(body) == body

(* _initWithXMLData: nil when the body does not parse or lists no rate;    *)
(* the empty set stands for either.                                        *)
Parsed(body) == IF body # {} THEN body ELSE Nothing

(* The bundled document goes through the same parser.                      *)
OfflineResponse == Parsed(Snapshot)

(* The completion handler.  A request keeps itself alive through self in   *)
(* its handler, so strongSelf is never nil.  Mutants: an error calls       *)
(* nobody; the page that comes with a bad status is taken for a table.     *)
DownloadFailedSilently(r) ==
  /\ alive /\ r \in loading
  /\ loading' = loading \ {r}
  /\ UNCHANGED <<alive, enabled, amount, labels, answered, outage>>
DownloadFailedAccepted(r) ==
  /\ alive /\ r \in loading
  /\ loading' = loading \ {r}
  /\ answered' \in {[answered EXCEPT ![r] = body] : body \in Tables}
  /\ outage' = outage \cup {r}
  /\ UNCHANGED <<alive, enabled, amount, labels>>

(* An error, no data, or a status other than 2xx.                          *)
DownloadFailed(r) ==
  /\ alive /\ r \in loading
  /\ loading' = loading \ {r}
  /\ answered' = [answered EXCEPT ![r] = OfflineResponse]
  /\ outage' = outage \cup {r}
  /\ UNCHANGED <<alive, enabled, amount, labels>>

DownloadSucceeded(r, body) ==
  /\ alive /\ r \in loading
  /\ loading' = loading \ {r}
  /\ answered' = [answered EXCEPT ![r] =
       IF Parsed(body) = Nothing THEN OfflineResponse ELSE Parsed(body)]
  /\ outage' = IF body = {} THEN outage \cup {r} ELSE outage
  /\ UNCHANGED <<alive, enabled, amount, labels>>

(* _rateForCurrency raises for a currency the table does not list, the     *)
(* dollar and the euro excepted.                                           *)
Raises(table) == ~(OnScreen \subseteq table)

(* currencyRequest:retrievedCurrencies:, on the main queue.                *)
RetrievedCurrencies(r) ==
  /\ alive /\ answered[r] # Nothing
  /\ answered' = [answered EXCEPT ![r] = Nothing]
  /\ enabled' = TRUE
  /\ IF Raises(answered[r])
     THEN alive' = FALSE /\ UNCHANGED labels
     ELSE labels' = [of |-> amount, table |-> answered[r]] /\ UNCHANGED alive
  /\ outage' = outage \ {r}
  /\ UNCHANGED <<amount, loading>>

(* What the session can deliver: nothing, no table, or any set of rates.   *)
DownloadCompleted(r) ==
  DownloadFailed(r) \/ \E body \in SUBSET Currencies : DownloadSucceeded(r, body)

Launch ==
  /\ ~alive
  /\ alive' = TRUE /\ enabled' = TRUE
  /\ labels' = Nothing
  /\ loading' = {}
  /\ answered' = [r \in Requests |-> Nothing]
  /\ outage' = {}
  /\ UNCHANGED amount

Next ==
  \/ Launch
  \/ \E a \in Amounts : EditAmount(a)
  \/ \E r \in Requests : ButtonTapped(r)
  \/ \E r \in Requests : DownloadCompleted(r)
  \/ \E r \in Requests : RetrievedCurrencies(r)

(* The session completes every task, the main queue runs every block.      *)
Fairness == \A r \in Requests :
  WF_vars(DownloadCompleted(r)) /\ WF_vars(RetrievedCurrencies(r))

Spec == Init /\ [][Next]_vars /\ Fairness

----------------------------------------------------------------------------
(* The button is disabled exactly while one request, and no more than one, *)
(* has yet to answer: an answer never overtakes that of a later tap.       *)
OneConversion ==
  alive => /\ ~enabled <=> \E r \in Requests : InFlight(r)
           /\ \A r, s \in Requests : InFlight(r) /\ InFlight(s) => r = s

(* An outage never ends the process: a request to which the bank had no    *)
(* answer, for whatever reason, stays on its way to the screen until it    *)
(* draws the labels, with a rate for each of them and for the dollar that  *)
(* they are divided by.                                                    *)
OutageNeverKills ==
  [][\A r \in outage :
       /\ alive'
       /\ r \notin outage' => /\ labels' # Nothing
                             /\ {USD} \cup OnScreen \subseteq labels'.table]_vars

(* Every tap comes to an end, whatever the session delivers: the button is *)
(* enabled again, if only for the moment before an exception.              *)
EveryTapAnswered == ~enabled ~> enabled

(* What the README of the pod says: the pod fakes the rates if getting     *)
(* them fails for any reason.  A table without the dollar or without a     *)
(* currency of the screen is no answer, and yet it is not replaced by the  *)
(* bundled one: its rates divide by zero, or raise.                        *)
FakedIfItFails == alive /\ (labels # Nothing => USD \in labels.table)
=============================================================================
