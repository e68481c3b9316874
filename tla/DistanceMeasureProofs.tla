----------------------- MODULE DistanceMeasureProofs -----------------------
(***************************************************************************)
(* Proofs about the DistanceMeasure screen and the DistanceGetter pod, for *)
(* any finite number of destinations and any requests.                     *)
(***************************************************************************)
EXTENDS DistanceMeasure, FiniteSetTheorems, TLAPS

(* What is known of request r: the screen's own has a search under way and *)
(* a callback set, every other one neither; until the source is found no   *)
(* destination is searched, and from then on the counter counts searches.  *)
Tracked(r) ==
  /\ req = r => callback[r] /\ InFlight(r)
  /\ req # r => ~callback[r] /\ ~InFlight(r)
  /\ source[r] => pending[r] = {} /\ outstanding[r] = Cardinality(Slots)
  /\ ~source[r] /\ InFlight(r) => outstanding[r] = Cardinality(pending[r])

IInv ==
  /\ TypeOK
  /\ ~enabled <=> req # NoRequest
  /\ \A r \in Requests : Tracked(r)

LEMMA SlotCount == Cardinality(Slots) \in Nat /\ (Cardinality(Slots) = 0 <=> Slots = {})
BY DistanceAssumption, FS_CardinalityType, FS_EmptySet

(* One completed search is one less to wait for, and the counter reaches   *)
(* zero exactly with the last.                                             *)
LEMMA OneLess ==
  ASSUME NEW P \in SUBSET Slots, NEW k \in P
  PROVE  /\ Cardinality(P) - 1 \in Nat
         /\ Cardinality(P \ {k}) = Cardinality(P) - 1
         /\ Cardinality(P) - 1 = 0 <=> P \ {k} = {}
<1>1. IsFiniteSet(P) /\ IsFiniteSet(P \ {k})
  BY DistanceAssumption, FS_Subset
<1>2. Cardinality(P \ {k}) = Cardinality(P) - 1
  BY <1>1, FS_RemoveElement
<1>3. Cardinality(P \ {k}) \in Nat /\ (Cardinality(P \ {k}) = 0 <=> P \ {k} = {})
  BY <1>1, FS_CardinalityType, FS_EmptySet
<1> QED
  BY <1>2, <1>3

LEMMA InitHolds == Init => IInv
BY DistanceAssumption
   DEF Init, IInv, TypeOK, Tracked, InFlight, Responses, NoResponses

----------------------------------------------------------------------------
(* The tap starts a request that nothing was waiting for.                  *)
LEMMA TapPreserves ==
  ASSUME IInv, NEW r \in Requests, CalculateButtonTapped(r)
  PROVE  IInv'
<1>1. TypeOK /\ req = NoRequest /\ r # NoRequest /\ ~InFlight(r) /\ enabled
  BY DistanceAssumption DEF IInv, CalculateButtonTapped
<1>2. TypeOK'
  BY <1>1, SlotCount DEF CalculateButtonTapped, TypeOK, Responses, NoResponses
<1>3. (~enabled <=> req # NoRequest)'
  BY <1>1 DEF CalculateButtonTapped
<1>4. ASSUME NEW s \in Requests PROVE Tracked(s)'
  <2>1. Tracked(s) /\ req # s
    BY <1>1, DistanceAssumption DEF IInv
  <2>2. CASE s = r
    BY <1>1, <2>1, <2>2 DEF Tracked, InFlight, CalculateButtonTapped, TypeOK
  <2>3. CASE s # r
    BY <1>1, <2>1, <2>3 DEF Tracked, InFlight, CalculateButtonTapped, TypeOK
  <2> QED
    BY <2>2, <2>3
<1> QED
  BY <1>2, <1>3, <1>4 DEF IInv

(* The callback of the request the screen waits for, once no search of it  *)
(* is left: what both handlers have to establish before they call it.      *)
LEMMA CallBackPreserves ==
  ASSUME IInv, NEW r \in Requests, InFlight(r),
         NEW answer \in Responses, CallBack(r, answer),
         source' = [source EXCEPT ![r] = FALSE],
         pending' = [pending EXCEPT ![r] = {}],
         outstanding' \in [Requests -> Nat],
         \A s \in Requests \ {r} : outstanding'[s] = outstanding[s],
         responses' \in [Requests -> Responses]
  PROVE  IInv'
<1>1. TypeOK /\ Tracked(r) /\ req = r /\ callback[r] /\ r # NoRequest
  BY DistanceAssumption DEF IInv, Tracked
<1>2. /\ labels' = answer /\ enabled' = TRUE /\ req' = NoRequest
      /\ callback' = [callback EXCEPT ![r] = FALSE]
  BY <1>1 DEF CallBack
<1>3. TypeOK'
  BY <1>1, <1>2 DEF TypeOK, Responses
<1>4. ASSUME NEW s \in Requests PROVE Tracked(s)'
  <2>1. req' # s
    BY <1>2, DistanceAssumption
  <2>2. CASE s = r
    BY <1>1, <1>2, <2>1, <2>2 DEF Tracked, InFlight, TypeOK
  <2>3. CASE s # r
    <3>1. Tracked(s) /\ req # s
      BY <1>1, <2>3 DEF IInv
    <3> QED
      BY <1>1, <1>2, <2>1, <2>3, <3>1 DEF Tracked, InFlight, TypeOK
  <2> QED
    BY <2>2, <2>3
<1> QED
  BY <1>2, <1>3, <1>4 DEF IInv

LEMMA FailedPreserves ==
  ASSUME IInv, NEW r \in Requests, SourceFailed(r)
  PROVE  IInv'
<1>1. TypeOK /\ Tracked(r) /\ source[r] /\ InFlight(r) /\ responses[r] \in Responses
  BY DEF IInv, SourceFailed, InFlight, TypeOK
<1>2. pending' = [pending EXCEPT ![r] = {}]
  BY <1>1 DEF Tracked, SourceFailed, TypeOK
<1> QED
  BY <1>1, <1>2, CallBackPreserves DEF SourceFailed, TypeOK

(* With no destination at all the source answers at once; otherwise all of *)
(* them are searched, as many as the counter says.                         *)
LEMMA FoundPreserves ==
  ASSUME IInv, NEW r \in Requests, SourceFound(r)
  PROVE  IInv'
<1>1. /\ TypeOK /\ Tracked(r) /\ source[r] /\ InFlight(r) /\ req = r
      /\ pending[r] = {} /\ outstanding[r] = Cardinality(Slots)
      /\ responses[r] \in Responses
  BY DEF IInv, SourceFound, InFlight, TypeOK, Tracked
<1>2. CASE outstanding[r] = 0
  <2>1. pending' = [pending EXCEPT ![r] = {}]
    BY <1>1, <1>2 DEF SourceFound, TypeOK
  <2> QED
    BY <1>1, <1>2, <2>1, CallBackPreserves DEF SourceFound, TypeOK
<1>3. CASE outstanding[r] # 0
  <2>1. Slots # {}
    BY <1>1, <1>3, SlotCount
  <2>2. /\ source' = [source EXCEPT ![r] = FALSE]
        /\ pending' = [pending EXCEPT ![r] = Slots]
        /\ UNCHANGED <<callback, labels, enabled, req, outstanding, responses>>
    BY <1>3 DEF SourceFound
  <2>3. TypeOK'
    BY <1>1, <2>2 DEF TypeOK, Responses
  <2>4. ASSUME NEW s \in Requests PROVE Tracked(s)'
    <3>1. CASE s = r
      BY <1>1, <2>1, <2>2, <3>1 DEF Tracked, InFlight, TypeOK
    <3>2. CASE s # r
      <4>1. Tracked(s)
        BY DEF IInv
      <4> QED
        BY <1>1, <2>2, <3>2, <4>1 DEF Tracked, InFlight, TypeOK
    <3> QED
      BY <3>1, <3>2
  <2> QED
    BY <2>2, <2>3, <2>4 DEF IInv
<1> QED
  BY <1>2, <1>3

LEMMA DestinationPreserves ==
  ASSUME IInv, NEW r \in Requests, NEW k \in Slots,
         NEW d \in Distances \cup {Unknown}, DestinationCompleted(r, k, d)
  PROVE  IInv'
<1>1. TypeOK /\ Tracked(r) /\ k \in pending[r] /\ pending[r] \in SUBSET Slots
  BY DEF IInv, DestinationCompleted, TypeOK
<1>2. /\ ~source[r] /\ InFlight(r) /\ req = r
      /\ outstanding[r] = Cardinality(pending[r])
  BY <1>1 DEF Tracked, InFlight
<1>3. /\ source' = source
      /\ pending' = [pending EXCEPT ![r] = pending[r] \ {k}]
      /\ outstanding' = [outstanding EXCEPT ![r] = outstanding[r] - 1]
      /\ responses' \in [Requests -> Responses]
  BY <1>1 DEF DestinationCompleted, Counted, TypeOK, Responses
<1>4. /\ outstanding[r] - 1 \in Nat
      /\ Cardinality(pending[r] \ {k}) = outstanding[r] - 1
      /\ outstanding[r] - 1 = 0 <=> pending[r] \ {k} = {}
  BY <1>1, <1>2, OneLess
<1>5. /\ outstanding' \in [Requests -> Nat] /\ outstanding'[r] = outstanding[r] - 1
      /\ \A s \in Requests \ {r} : outstanding'[s] = outstanding[s]
  BY <1>1, <1>3, <1>4 DEF TypeOK
<1>6. CASE WasLast(outstanding'[r])
  <2>1. pending' = [pending EXCEPT ![r] = {}] /\ source' = [source EXCEPT ![r] = FALSE]
    BY <1>1, <1>2, <1>3, <1>4, <1>5, <1>6 DEF WasLast, TypeOK
  <2>2. CallBack(r, responses'[r]) /\ responses'[r] \in Responses
    BY <1>3, <1>6 DEF DestinationCompleted
  <2> QED
    BY <1>2, <1>3, <1>5, <2>1, <2>2, CallBackPreserves
<1>7. CASE ~WasLast(outstanding'[r])
  <2>1. UNCHANGED <<callback, labels, enabled, req>>
    BY <1>7 DEF DestinationCompleted
  <2>2. pending[r] \ {k} # {}
    BY <1>4, <1>5, <1>7 DEF WasLast
  <2>3. TypeOK'
    BY <1>1, <1>3, <1>5, <2>1 DEF TypeOK
  <2>4. ASSUME NEW s \in Requests PROVE Tracked(s)'
    <3>1. CASE s = r
      BY <1>1, <1>2, <1>3, <1>4, <1>5, <2>1, <2>2, <3>1 DEF Tracked, InFlight, TypeOK
    <3>2. CASE s # r
      <4>1. Tracked(s)
        BY DEF IInv
      <4> QED
        BY <1>1, <1>2, <1>3, <1>5, <2>1, <3>2, <4>1 DEF Tracked, InFlight, TypeOK
    <3> QED
      BY <3>1, <3>2
  <2> QED
    BY <2>1, <2>3, <2>4 DEF IInv
<1> QED
  BY <1>6, <1>7

LEMMA StepPreserves ==
  ASSUME IInv, [Next]_vars
  PROVE  IInv'
<1>1. CASE \E r \in Requests : CalculateButtonTapped(r)
  BY <1>1, TapPreserves
<1>2. CASE SearchCompleted
  BY <1>2, FailedPreserves, FoundPreserves, DestinationPreserves DEF SearchCompleted
<1>3. CASE UNCHANGED vars
  BY <1>3 DEF IInv, TypeOK, Tracked, InFlight, vars, searches, request
<1> QED
  BY <1>1, <1>2, <1>3 DEF Next

(* In every reachable state the screen waits for a request that is under   *)
(* way and will call back, and for no other.                               *)
THEOREM Invariance == Spec => []IInv
<1>1. Init => IInv
  BY InitHolds
<1>2. IInv /\ [Next]_vars => IInv'
  BY StepPreserves
<1> QED
  BY <1>1, <1>2, PTL DEF Spec

(* Types, the counter that never goes below zero included: no completion   *)
(* of a search is ever counted twice.                                      *)
THEOREM TypeCorrect == Spec => []TypeOK
<1>1. IInv => TypeOK
  BY DEF IInv
<1> QED
  BY <1>1, Invariance, PTL

(* The button is disabled exactly while one request will answer.           *)
THEOREM OneAtATime == Spec => []OneRequestInFlight
<1>1. IInv => OneRequestInFlight
  BY DEF IInv, Tracked, OneRequestInFlight, InFlight
<1> QED
  BY <1>1, Invariance, PTL

(* What the screen's callback does when it runs: it is the one of the      *)
(* screen's request, and all it shows is what it was given.                *)
LEMMA CallBackAnswers ==
  ASSUME IInv, NEW r \in Requests, InFlight(r), NEW answer, CallBack(r, answer)
  PROVE  req = r /\ ~enabled /\ enabled' = TRUE /\ labels' = answer
<1>1. req = r /\ callback[r] /\ r # NoRequest
  BY DistanceAssumption DEF IInv, Tracked
<1> QED
  BY <1>1 DEF IInv, TypeOK, CallBack

(* A step that answers: which one it is, and what it finds finished.       *)
Answers ==
  \E r \in Requests :
    /\ req = r
    /\ ~source'[r] /\ pending'[r] = {}
    /\ responses' \in [Requests -> Responses]
    /\ ~enabled /\ enabled' = TRUE
    /\ labels' = responses'[r]

LEMMA FailedAnswers ==
  ASSUME IInv, NEW r \in Requests, SourceFailed(r)
  PROVE  Answers
<1>1. TypeOK /\ Tracked(r) /\ source[r] /\ InFlight(r)
  BY DEF IInv, SourceFailed, InFlight
<1>2. req = r /\ ~enabled /\ enabled' = TRUE /\ labels' = responses[r]
  BY <1>1, CallBackAnswers DEF SourceFailed
<1>3. ~source'[r] /\ pending'[r] = {} /\ responses' = responses
  BY <1>1 DEF SourceFailed, Tracked, TypeOK
<1> QED
  BY <1>1, <1>2, <1>3 DEF Answers, TypeOK

LEMMA FoundAnswersOrWaits ==
  ASSUME IInv, NEW r \in Requests, SourceFound(r)
  PROVE  Answers \/ UNCHANGED <<labels, enabled>>
<1>1. TypeOK /\ Tracked(r) /\ source[r] /\ InFlight(r)
  BY DEF IInv, SourceFound, InFlight
<1>2. CASE outstanding[r] = 0
  <2>1. req = r /\ ~enabled /\ enabled' = TRUE /\ labels' = responses[r]
    BY <1>1, <1>2, CallBackAnswers DEF SourceFound
  <2>2. ~source'[r] /\ pending'[r] = {} /\ responses' = responses
    BY <1>1, <1>2 DEF SourceFound, Tracked, TypeOK
  <2> QED
    BY <1>1, <2>1, <2>2 DEF Answers, TypeOK
<1>3. CASE outstanding[r] # 0
  BY <1>3 DEF SourceFound
<1> QED
  BY <1>2, <1>3

LEMMA DestinationAnswersOrWaits ==
  ASSUME IInv, NEW r \in Requests, NEW k \in Slots,
         NEW d \in Distances \cup {Unknown}, DestinationCompleted(r, k, d)
  PROVE  Answers \/ UNCHANGED <<labels, enabled>>
<1>1. TypeOK /\ Tracked(r) /\ k \in pending[r] /\ pending[r] \in SUBSET Slots
  BY DEF IInv, DestinationCompleted, TypeOK
<1>2. ~source[r] /\ InFlight(r) /\ outstanding[r] = Cardinality(pending[r])
  BY <1>1 DEF Tracked, InFlight
<1>3. CASE WasLast(outstanding'[r])
  <2>1. req = r /\ ~enabled /\ enabled' = TRUE /\ labels' = responses'[r]
    BY <1>2, <1>3, CallBackAnswers DEF DestinationCompleted
  <2>2. outstanding'[r] = outstanding[r] - 1
    BY <1>1 DEF DestinationCompleted, Counted, TypeOK
  <2>3. pending[r] \ {k} = {}
    BY <1>1, <1>2, <1>3, <2>2, OneLess DEF WasLast
  <2>4. /\ ~source'[r] /\ pending'[r] = {}
        /\ responses' \in [Requests -> Responses]
    BY <1>1, <1>2, <2>3 DEF DestinationCompleted, TypeOK, Responses
  <2> QED
    BY <2>1, <2>4 DEF Answers
<1>4. CASE ~WasLast(outstanding'[r])
  BY <1>4 DEF DestinationCompleted
<1> QED
  BY <1>3, <1>4

(* Every step of the system answers, leaves the screen alone or is a tap.  *)
LEMMA ScreenStep ==
  ASSUME IInv, [Next]_vars
  PROVE  \/ Answers
         \/ UNCHANGED <<labels, enabled>>
         \/ enabled /\ enabled' = FALSE /\ UNCHANGED labels
<1>1. CASE \E r \in Requests : CalculateButtonTapped(r)
  BY <1>1 DEF CalculateButtonTapped
<1>2. CASE SearchCompleted
  BY <1>2, FailedAnswers, FoundAnswersOrWaits, DestinationAnswersOrWaits
     DEF SearchCompleted
<1>3. CASE UNCHANGED vars
  BY <1>3 DEF vars
<1> QED
  BY <1>1, <1>2, <1>3 DEF Next

(* The labels are only ever filled from a request whose searches are over. *)
THEOREM AnswersWhole == Spec => AnswersAreComplete
<1>1. ASSUME IInv, [Next]_vars
      PROVE  [labels' # labels \/ (~enabled /\ enabled') =>
                /\ req \in Requests
                /\ ~source'[req] /\ pending'[req] = {}
                /\ labels' = responses'[req]]_vars
  BY <1>1, ScreenStep DEF Answers
<1> QED
  BY <1>1, Invariance, PTL DEF Spec, AnswersAreComplete

(* The screen takes no step but those of Calculation: the safety part of   *)
(* ImplementsCalculation, whose fairness is left to model checking.        *)
THEOREM KeepsCalculation ==
  Spec => Screen!Init /\ [][Screen!Ask \/ Screen!Answer]_<<enabled, labels>>
<1>1. Init => Screen!Init
  BY DEF Init, Screen!Init
<1>2. ASSUME IInv, [Next]_vars
      PROVE  [Screen!Ask \/ Screen!Answer]_<<enabled, labels>>
  <2>1. CASE Answers
    <3>1. labels' \in Responses /\ ~enabled /\ enabled' = TRUE
      BY <2>1 DEF Answers
    <3>2. labels' \in [Slots -> Distances \cup {Unknown, Untouched}]
      BY <3>1 DEF Responses
    <3> QED
      BY <3>1, <3>2 DEF Screen!Answer
  <2>2. CASE UNCHANGED <<labels, enabled>>
    BY <2>2
  <2>3. CASE enabled /\ enabled' = FALSE /\ UNCHANGED labels
    BY <2>3 DEF Screen!Ask
  <2> QED
    BY <1>2, <2>1, <2>2, <2>3, ScreenStep
<1> QED
  BY <1>1, <1>2, Invariance, PTL DEF Spec
=============================================================================
