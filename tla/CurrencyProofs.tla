--------------------------- MODULE CurrencyProofs ---------------------------
(***************************************************************************)
(* Proofs about CurrencyConverter and its pod, for any request objects,    *)
(* any amounts and any tables the bank can send.                           *)
(***************************************************************************)
EXTENDS Currency, TLAPS

ButtonTypes == alive \in BOOLEAN /\ enabled \in BOOLEAN

DataTypes ==
  /\ amount \in Amounts
  /\ labels \in {Nothing} \cup [of : Amounts, table : Tables]
  /\ loading \subseteq Requests
  /\ answered \in [Requests -> {Nothing} \cup Tables]
  /\ outage \subseteq Requests

(* OneConversion does not say that a request in flight is either in its    *)
(* download or on the main queue, and not both.                            *)
OneResult == \A r \in loading : answered[r] = Nothing

(* What became of an outage: a request on the main queue with the bundled  *)
(* table, in a process that is alive.                                      *)
OutageBridged == \A r \in outage : alive /\ r \notin loading /\ answered[r] = OfflineResponse

IInv == ButtonTypes /\ DataTypes /\ OneConversion /\ OneResult /\ OutageBridged

LEMMA TablesAreTables == \A table \in Tables : table # Nothing
BY CurrencyAssumption DEF Tables

(* The bundled document is parsed to a table, with all the screen asks for. *)
LEMMA OfflineIsTable ==
  OfflineResponse \in Tables /\ {USD} \cup OnScreen \subseteq OfflineResponse
BY CurrencyAssumption DEF OfflineResponse, Parsed, Tables

LEMMA ParsedIsTable ==
  ASSUME NEW body \in SUBSET Currencies
  PROVE  (IF Parsed(body) = Nothing THEN OfflineResponse ELSE Parsed(body)) \in Tables
<1>1. CASE body = {}
  BY <1>1, OfflineIsTable DEF Parsed
<1>2. CASE body # {}
  BY <1>2, TablesAreTables DEF Parsed, Tables
<1> QED
  BY <1>1, <1>2

LEMMA InitHolds == Init => IInv
BY DEF Init, IInv, ButtonTypes, DataTypes, OneConversion, OneResult, OutageBridged, InFlight

(* The button is enabled, so no request is in flight; the tap starts one.  *)
LEMMA ButtonTappedPreserves ==
  ASSUME IInv, NEW r \in Requests, ButtonTapped(r)
  PROVE  IInv'
<1>1. \A s \in Requests : ~InFlight(s)
  BY DEF IInv, OneConversion, ButtonTapped
<1>2. \A s \in Requests : InFlight(s)' <=> s = r
  BY <1>1 DEF InFlight, ButtonTapped
<1>3. OneConversion'
  BY <1>2 DEF OneConversion, ButtonTapped
<1>4. ButtonTypes'
  BY DEF IInv, ButtonTypes, ButtonTapped
<1>5. DataTypes' /\ OneResult'
  BY <1>1 DEF IInv, DataTypes, OneResult, InFlight, ButtonTapped
<1>6. outage = {}
  BY <1>1, OfflineIsTable, TablesAreTables DEF IInv, DataTypes, OutageBridged, InFlight
<1>7. OutageBridged'
  BY <1>6 DEF OutageBridged, ButtonTapped
<1> QED
  BY <1>3, <1>4, <1>5, <1>7 DEF IInv

(* A download that ends with some table or other leaves its request in     *)
(* flight; if it ends as an outage, the table is the bundled one.          *)
LEMMA DownloadPreserves ==
  ASSUME IInv, NEW r \in Requests, NEW table \in Tables,
         r \in loading,
         loading' = loading \ {r},
         answered' = [answered EXCEPT ![r] = table],
         \/ UNCHANGED outage
         \/ outage' = outage \cup {r} /\ table = OfflineResponse,
         alive, UNCHANGED <<alive, enabled, amount, labels>>
  PROVE  IInv'
<1>1. ButtonTypes'
  BY DEF IInv, ButtonTypes
<1>2. DataTypes' /\ OneResult'
  BY DEF IInv, DataTypes, OneResult
<1>3. \A s \in Requests : InFlight(s)' <=> InFlight(s)
  BY TablesAreTables DEF InFlight, IInv, DataTypes
<1>4. OneConversion'
  BY <1>3 DEF IInv, OneConversion
<1>5. OutageBridged'
  <2>1. r \notin outage
    BY DEF IInv, OutageBridged
  <2> QED
    BY <2>1 DEF IInv, DataTypes, OutageBridged
<1> QED
  BY <1>1, <1>2, <1>4, <1>5 DEF IInv

LEMMA CompletedPreserves ==
  ASSUME IInv, NEW r \in Requests, DownloadCompleted(r)
  PROVE  IInv'
<1>1. CASE DownloadFailed(r)
  BY <1>1, OfflineIsTable, DownloadPreserves DEF DownloadFailed
<1>2. ASSUME NEW body \in SUBSET Currencies, DownloadSucceeded(r, body)
      PROVE  IInv'
  <2> DEFINE table == IF Parsed(body) = Nothing THEN OfflineResponse ELSE Parsed(body)
  <2>1. table \in Tables
    BY ParsedIsTable
  <2>2. /\ r \in loading /\ loading' = loading \ {r}
        /\ answered' = [answered EXCEPT ![r] = table]
        /\ alive /\ UNCHANGED <<alive, enabled, amount, labels>>
    BY <1>2 DEF DownloadSucceeded
  <2>3. UNCHANGED outage \/ (outage' = outage \cup {r} /\ table = OfflineResponse)
    BY <1>2 DEF DownloadSucceeded, Parsed
  <2> HIDE DEF table
  <2> QED
    BY <2>1, <2>2, <2>3, DownloadPreserves
<1> QED
  BY <1>1, <1>2 DEF DownloadCompleted

(* The request of an outage is the one in flight.                          *)
LEMMA OutageIsTheOne ==
  ASSUME IInv, NEW r \in Requests, answered[r] # Nothing, NEW q \in outage
  PROVE  q = r
<1>1. alive /\ q \in Requests /\ answered[q] # Nothing
  BY OfflineIsTable, TablesAreTables DEF IInv, DataTypes, OutageBridged
<1> QED
  BY <1>1 DEF IInv, OneConversion, InFlight

(* The one request in flight answers, and is in flight no more: by         *)
(* OneResult its download has ended.                                       *)
LEMMA RetrievedPreserves ==
  ASSUME IInv, NEW r \in Requests, RetrievedCurrencies(r)
  PROVE  IInv'
<1>1. /\ answered[r] # Nothing
      /\ answered' = [answered EXCEPT ![r] = Nothing]
      /\ UNCHANGED <<amount, loading>>
  BY DEF RetrievedCurrencies
<1>2. r \notin loading /\ answered[r] \in Tables
  BY <1>1 DEF IInv, DataTypes, OneResult
<1>3. ButtonTypes'
  BY DEF IInv, ButtonTypes, RetrievedCurrencies
<1>4. labels' \in {Nothing} \cup [of : Amounts, table : Tables]
  <2>1. UNCHANGED labels \/ labels' = [of |-> amount, table |-> answered[r]]
    BY DEF RetrievedCurrencies
  <2> QED
    BY <1>2, <2>1 DEF IInv, DataTypes
<1>5. DataTypes' /\ OneResult' /\ OutageBridged'
  <2>1. outage' = {}
    BY <1>1, OutageIsTheOne DEF RetrievedCurrencies
  <2> QED
    BY <1>1, <1>4, <2>1 DEF IInv, DataTypes, OneResult, OutageBridged
<1>6. InFlight(r) /\ alive
  BY <1>1 DEF InFlight, RetrievedCurrencies
<1>7. \A s \in Requests : ~InFlight(s)'
  BY <1>1, <1>2, <1>6 DEF IInv, DataTypes, OneConversion, InFlight
<1>8. OneConversion'
  BY <1>7 DEF OneConversion, RetrievedCurrencies
<1> QED
  BY <1>3, <1>5, <1>8 DEF IInv

LEMMA StepPreserves == IInv /\ [Next]_vars => IInv'
<1> SUFFICES ASSUME IInv, [Next]_vars PROVE IInv'
  OBVIOUS
<1>1. CASE Launch
  <2>1. ButtonTypes' /\ DataTypes' /\ OneResult' /\ OutageBridged'
    BY <1>1 DEF IInv, ButtonTypes, DataTypes, OneResult, OutageBridged, Launch
  <2>2. OneConversion'
    BY <1>1 DEF OneConversion, InFlight, Launch
  <2> QED
    BY <2>1, <2>2 DEF IInv
<1>2. ASSUME NEW a \in Amounts, EditAmount(a) PROVE IInv'
  BY <1>2 DEF EditAmount, IInv, ButtonTypes, DataTypes, OneResult, OneConversion,
    OutageBridged, InFlight
<1>3. CASE UNCHANGED vars
  BY <1>3 DEF vars, IInv, ButtonTypes, DataTypes, OneResult, OneConversion,
    OutageBridged, InFlight
<1> QED
  BY <1>1, <1>2, <1>3, ButtonTappedPreserves, CompletedPreserves, RetrievedPreserves DEF Next

(* The request of an outage leaves the main queue by its callback alone,   *)
(* which finds every rate it asks for.                                     *)
LEMMA StepSurvivesOutage ==
  ASSUME IInv, [Next]_vars, NEW q \in outage
  PROVE  /\ alive'
         /\ q \notin outage' => /\ labels' # Nothing
                               /\ {USD} \cup OnScreen \subseteq labels'.table
<1>1. alive /\ q \in Requests /\ answered[q] = OfflineResponse
  BY DEF IInv, DataTypes, OutageBridged
<1>2. ASSUME NEW r \in Requests, RetrievedCurrencies(r)
      PROVE  alive' /\ labels' # Nothing /\ {USD} \cup OnScreen \subseteq labels'.table
  <2>1. q = r
    BY <1>2, OutageIsTheOne DEF RetrievedCurrencies
  <2>2. ~Raises(answered[r])
    BY <1>1, <2>1, OfflineIsTable DEF Raises
  <2>3. alive' = TRUE /\ labels' = [of |-> amount, table |-> OfflineResponse]
    BY <1>1, <1>2, <2>1, <2>2 DEF RetrievedCurrencies
  <2>4. labels' # Nothing
    <3>1. [of |-> amount, table |-> OfflineResponse] \in [of : Amounts, table : SUBSET Currencies]
      BY OfflineIsTable DEF IInv, DataTypes, Tables
    <3> QED
      BY <2>3, <3>1, CurrencyAssumption
  <2> QED
    BY <2>3, <2>4, OfflineIsTable
<1>3. CASE ~ \E r \in Requests : RetrievedCurrencies(r)
  BY <1>1, <1>3 DEF Next, vars, Launch, EditAmount, ButtonTapped, DownloadCompleted,
    DownloadFailed, DownloadSucceeded
<1> QED
  BY <1>2, <1>3

----------------------------------------------------------------------------
(* Buttons, labels and answers keep their types.                           *)
THEOREM TypeCorrect == Spec => []TypeOK
<1>1. IInv => TypeOK
  BY DEF IInv, TypeOK, ButtonTypes, DataTypes
<1> QED
  BY InitHolds, StepPreserves, <1>1, PTL DEF Spec

(* The button is disabled exactly while one request has yet to answer.     *)
THEOREM OneAtATime == Spec => []OneConversion
<1>1. IInv => OneConversion
  BY DEF IInv
<1> QED
  BY InitHolds, StepPreserves, <1>1, PTL DEF Spec

(* Failed downloads and bodies that do not parse never end the process:    *)
(* the bundled table they are answered with draws the labels.              *)
THEOREM OutagesAreBridged == Spec => OutageNeverKills
<1>1. IInv /\ [Next]_vars =>
        [\A r \in outage :
           /\ alive'
           /\ r \notin outage' => /\ labels' # Nothing
                                 /\ {USD} \cup OnScreen \subseteq labels'.table]_vars
  BY StepSurvivesOutage
<1> QED
  BY InitHolds, StepPreserves, <1>1, PTL DEF Spec, OutageNeverKills
=============================================================================
