------------------------- MODULE SubscriptionsProofs -------------------------
(***************************************************************************)
(* Theorems about Subscriptions for every number of watchers and requests  *)
(* and every limit.  Those about one request at a time hold for everything *)
(* the environment may do; those about what the application has been told  *)
(* assume Orderly, the absence of the choices that TLC shows to break them.*)
(***************************************************************************)
EXTENDS Subscriptions, FiniteSetTheorems, TLAPS

-----------------------------------------------------------------------------
(* The methods of a request make requests out of requests. *)

LEMMA TimerTypes ==
  ASSUME NEW r \in Request, NEW b \in BOOLEAN
  PROVE  /\ [r EXCEPT !.refresh = b] \in Request
         /\ [r EXCEPT !.expiry = b] \in Request
<1>1. [r EXCEPT !.refresh = b] \in Request
  BY DEF Request
<1>2. [r EXCEPT !.expiry = b] \in Request
  BY DEF Request
<1>3. QED
  BY <1>1, <1>2

LEMMA CountTypes ==
  ASSUME NEW r \in Request, NEW n \in 0..3
  PROVE  /\ [r EXCEPT !.resps = n] \in Request
         /\ [r EXCEPT !.resps = n, !.expiry = FALSE] \in Request
<1>1. [r EXCEPT !.resps = n] \in Request
  BY DEF Request
<1>2. [r EXCEPT !.resps = n, !.expiry = FALSE] \in Request
  BY DEF Request
<1>3. QED
  BY <1>1, <1>2

LEMMA PostType ==
  ASSUME NEW r \in Request, NEW status \in Status
  PROVE  Post(r, status) \in Request
BY DEF Post, Request, Status, NoSig, Overrun

LEMMA SetReqStateType ==
  ASSUME NEW r \in Request, NEW s \in ReqState
  PROVE  SetReqState(r, s) \in Request
BY DEF SetReqState, Request

LEMMA SetResponseMethodType ==
  ASSUME NEW r \in Request, NEW m \in {"Unknown", "Status", "Notify"}
  PROVE  SetResponseMethod(r, m) \in Request
BY DEF SetResponseMethod, Request

LEMMA RetryLaterType ==
  ASSUME NEW r \in Request
  PROVE  RetryLater(r) \in Request
<1>1. /\ "Failed" \in ReqState /\ "ReTry" \in ReqState
      /\ "Completion" \in Status
  BY DEF ReqState, Status
<1>2. SetReqState(r, "Failed") \in Request /\ SetReqState(r, "ReTry") \in Request
  BY <1>1, SetReqStateType
<1>3. Post(SetReqState(r, "Failed"), "Completion") \in Request
  BY <1>1, <1>2, PostType
<1>4. [SetReqState(r, "ReTry") EXCEPT !.refresh = TRUE] \in Request
  BY <1>2 DEF Request
<1>5. QED
  BY <1>3, <1>4 DEF RetryLater

LEMMA StopTimersType ==
  ASSUME NEW r \in Request
  PROVE  StopTimers(r) \in Request
BY DEF StopTimers, Request

LEMMA CompleteSubscriptionType ==
  ASSUME NEW r \in Request, NEW status \in Status
  PROVE  CompleteSubscription(r, status) \in Request
<1> DEFINE q == StopTimers(r)
           n == IF r.resps < 3 THEN r.resps + 1 ELSE 3
           p == [q EXCEPT !.sub = IF status = "Pend" THEN "Pending" ELSE @]
           c == [SetReqState(q, "Complete") EXCEPT !.resps = n, !.expiry = FALSE]
           m == [q EXCEPT !.resps = n]
<1>1. q \in Request
  BY StopTimersType
<1>2. /\ "Failed" \in ReqState /\ "Complete" \in ReqState
      /\ "ActiveSubs" \in ReqState
  BY DEF ReqState
<1>3. n \in 0..3
  BY DEF Request
<1>4. p \in Request
  BY <1>1 DEF Request
<1>5. m \in Request
  BY <1>1, <1>3 DEF Request
<1>6. /\ SetReqState(q, "Failed") \in Request
      /\ SetReqState(q, "Complete") \in Request
      /\ SetReqState(q, "ActiveSubs") \in Request
      /\ SetReqState(p, "ActiveSubs") \in Request
  BY <1>1, <1>2, <1>4, SetReqStateType
<1>7. c \in Request
  BY <1>3, <1>6, CountTypes
<1>8. /\ Post(SetReqState(q, "Failed"), status) \in Request
      /\ Post(SetReqState(q, "Complete"), status) \in Request
      /\ Post(SetReqState(p, "ActiveSubs"), status) \in Request
      /\ Post(c, status) \in Request
      /\ Post(m, status) \in Request
  BY <1>5, <1>6, <1>7, PostType
<1>9. RetryLater(q) \in Request
  BY <1>1, RetryLaterType
<1> HIDE DEF q, n, p, c, m
<1>10. QED
  BY <1>6, <1>8, <1>9 DEF CompleteSubscription, q, n, p, c, m

LEMMA CompleteNotificationType ==
  ASSUME NEW r \in Request, NEW status \in Status
  PROVE  CompleteNotification(r, status) \in Request
<1> DEFINE seen == [r EXCEPT !.sub = IF status = "Pend" THEN "Pending" ELSE "Active"]
           n == IF r.resps < 3 THEN r.resps + 1 ELSE 3
           gone == [r EXCEPT !.dialog = "none"]
           late == [gone EXCEPT !.refresh = FALSE]
           c == [SetReqState(seen, "Complete") EXCEPT !.resps = n, !.expiry = FALSE]
           m == [seen EXCEPT !.resps = n]
<1>1. seen \in Request /\ gone \in Request
  BY DEF Request
<1>2. n \in 0..3
  BY DEF Request
<1> HIDE DEF seen, n, gone
<1>3. late \in Request
  BY <1>1, TimerTypes
<1>4. /\ SetReqState(seen, "Complete") \in Request
      /\ SetReqState(gone, "Complete") \in Request
      /\ SetReqState(gone, "Failed") \in Request
  BY <1>1, SetReqStateType DEF ReqState
<1>5. c \in Request
  BY <1>2, <1>4, CountTypes
<1>6. m \in Request
  BY <1>1, <1>2, CountTypes
<1>7. /\ Post(r, status) \in Request
      /\ Post(seen, status) \in Request
      /\ Post(c, status) \in Request
      /\ Post(m, status) \in Request
      /\ Post(SetReqState(gone, "Complete"), status) \in Request
      /\ Post(SetReqState(gone, "Failed"), status) \in Request
  BY <1>1, <1>4, <1>5, <1>6, PostType
<1>8. RetryLater(late) \in Request
  BY <1>3, RetryLaterType
<1> HIDE DEF late, c, m
<1>9. QED
  BY <1>7, <1>8 DEF CompleteNotification, seen, n, gone, late, c, m

LEMMA CompleteType ==
  ASSUME NEW r \in Request, NEW status \in Status
  PROVE  Complete(r, status) \in Request
<1> DEFINE q == [r EXCEPT !.long = FALSE, !.expiry = FALSE, !.refresh = FALSE]
<1>1. q \in Request
  BY DEF Request
<1>2. SetReqState(q, "Failed") \in Request
  BY <1>1, SetReqStateType DEF ReqState
<1>3. Post(SetReqState(q, "Failed"), status) \in Request /\ Post(r, status) \in Request
  BY <1>2, PostType
<1>4. QED
  BY <1>3, CompleteNotificationType, CompleteSubscriptionType DEF Complete

LEMMA DestroyStartType ==
  ASSUME NEW r \in Request
  PROVE  DestroyStart(r) \in Request
<1>1. SetReqState(r, "Deleting") \in Request
  BY SetReqStateType DEF ReqState
<1>2. QED
  BY <1>1 DEF DestroyStart, Request

LEMMA CreateDialogType ==
  ASSUME NEW r \in Request
  PROVE  CreateDialog(r) \in Request
BY DEF CreateDialog, Request

LEMMA NewRequestType ==
  ASSUME NEW kind \in Kind, NEW auto \in BOOLEAN, NEW active \in BOOLEAN
  PROVE  NewRequest(kind, auto, active) \in Request
<1>1. CASE active
  BY <1>1 DEF NewRequest, Request, ReqState, Type, NoSig
<1>2. CASE ~active
  BY <1>2 DEF NewRequest, Request, ReqState, Type, NoSig
<1>3. QED
  BY <1>1, <1>2

-----------------------------------------------------------------------------
(* Type correctness, action by action. *)

LEMMA IdFinite == IsFiniteSet(Id)
BY ConstantsAssumption, FS_Product DEF Id

LEMMA LiveFinite == IsFiniteSet(Live) /\ \A x \in Watchers : IsFiniteSet(Of(x))
<1>1. Live \subseteq Id /\ \A x \in Watchers : Of(x) \subseteq Id
  BY DEF Live, Of
<1>2. QED
  BY <1>1, IdFinite, FS_Subset

LEMMA LiveRequest ==
  ASSUME TypeOK, NEW id \in Live
  PROVE  id \in Id /\ rq[id] \in Request
BY DEF TypeOK, Live

(* The requests that count are among those that are given. *)
LEMMA CountingFinite ==
  ASSUME NEW ids \in SUBSET Live
  PROVE  /\ Counting(ids) \in SUBSET Live
         /\ IsFiniteSet(Counting(ids))
         /\ Cardinality(Counting(ids)) \in Nat
<1>1. Counting(ids) \in SUBSET Live
  BY DEF Counting
<1>2. QED
  BY <1>1, LiveFinite, FS_Subset, FS_CardinalityType

LEMMA DecreasedType ==
  ASSUME nbrSubs \in Nat, NEW k \in Nat
  PROVE  Decreased(k) \in Nat
BY DEF Decreased

LEMMA NoReqDiffers == NoReq \notin Request
<1>1. ASSUME NEW r \in Request PROVE r # NoReq
  <2>1. r.state \in ReqState /\ "NoReq" \notin ReqState
    BY DEF Request, ReqState
  <2>2. QED
    BY <2>1 DEF NoReq
<1>2. QED
  BY <1>1

(* A request that changes stays in the list. *)
LEMMA UpdateKeepsLive ==
  ASSUME TypeOK, NEW id \in Live, NEW r \in Request, Update(id, r)
  PROVE  Live' = Live
<1>1. \A i \in Id : rq'[i] = IF i = id THEN r ELSE rq[i]
  BY DEF Update, TypeOK
<1>2. QED
  BY <1>1, NoReqDiffers DEF Live

(* What most actions do: one request changes, nothing else. *)
LEMMA RequestStep ==
  ASSUME TypeOK, NEW id \in Live, NEW r \in Request, Update(id, r),
         UNCHANGED <<sip, nbrSubs, ahead, w, app>>
  PROVE  TypeOK' /\ Live' = Live /\ nbrSubs' = nbrSubs
<1>1. Live' = Live
  BY UpdateKeepsLive
<1>2. QED
  BY <1>1 DEF TypeOK, Update, Live

LEMMA SubscribeType ==
  ASSUME TypeOK, NEW x \in Watchers, NEW kind \in Kinds, NEW auto \in Refreshes,
         Subscribe(x, kind, auto)
  PROVE  TypeOK'
<1> DEFINE free == {s \in Slots : rq[<<x, s>>] = NoReq}
           slot == CHOOSE s \in free : TRUE
           id == <<x, slot>>
<1>1. slot \in Slots /\ id \in Id
  BY DEF Subscribe, Id
<1>2. kind \in Kind /\ auto \in BOOLEAN
  BY ConstantsAssumption
<1>3. NewRequest(kind, auto, sip = "Active") \in Request
  BY <1>2, NewRequestType
<1>4. /\ Update(id, NewRequest(kind, auto, sip = "Active"))
      /\ ahead' = [ahead EXCEPT ![id] = Live]
      /\ nbrSubs' \in {nbrSubs, nbrSubs + 1}
      /\ w' = [w EXCEPT ![x].iRequest = kind, ![x].iResCount = 0,
                        ![x].iSubsId = IF kind = "Get" THEN @ ELSE slot]
      /\ app' = [app EXCEPT ![x] = "asked"]
      /\ sip' = sip
  BY DEF Subscribe, InUse
<1> HIDE DEF slot, id
<1>5. rq' \in [Id -> Request \cup {NoReq}]
  BY <1>1, <1>3, <1>4 DEF TypeOK, Update
<1>6. ahead' \in [Id -> SUBSET Id]
  BY <1>1, <1>4 DEF TypeOK, Live
<1>7. w' \in [Watchers -> Watcher]
  <2>1. w[x] \in Watcher
    BY DEF TypeOK
  <2>2. (IF kind = "Get" THEN w[x].iSubsId ELSE slot) \in Slots \cup {0}
    BY <1>1, <2>1 DEF Watcher
  <2>3. kind \in Kind \cup {"Stop", "None"}
    BY <1>2
  <2>4. 0 \in 0..2
    OBVIOUS
  <2>5. [w[x] EXCEPT !.iRequest = kind, !.iResCount = 0,
                     !.iSubsId = IF kind = "Get" THEN @ ELSE slot] \in Watcher
    BY <2>1, <2>2, <2>3, <2>4 DEF Watcher
  <2>6. w' = [w EXCEPT ![x] =
               [w[x] EXCEPT !.iRequest = kind, !.iResCount = 0,
                            !.iSubsId = IF kind = "Get" THEN @ ELSE slot]]
    BY <1>4 DEF TypeOK
  <2>7. QED
    BY <2>5, <2>6 DEF TypeOK
<1>8. QED
  BY <1>4, <1>5, <1>6, <1>7 DEF TypeOK, AppState

LEMMA UnsubscribeType ==
  ASSUME TypeOK, NEW x \in Watchers, Unsubscribe(x)
  PROVE  TypeOK' /\ Live' = Live /\ nbrSubs' = nbrSubs
<1> DEFINE id == <<x, w[x].iSubsId>>
           r == [rq[id] EXCEPT !.type = "Stop", !.expires = FALSE]
           q == Complete(SetResponseMethod(SetReqState(r, "Stopping"), "Unknown"),
                         "Completion")
           t == [r EXCEPT !.trans = "none"]
           u == [SetReqState(r, "Stopping") EXCEPT
                   !.trans = "unsubscribe", !.expiry = TRUE]
<1>1. id \in Live
  BY DEF Unsubscribe, AsStop
<1>2. id \in Id /\ rq[id] \in Request
  BY <1>1, LiveRequest
<1>3. r \in Request
  BY <1>2 DEF Request, Type
<1> HIDE DEF r
<1>4. SetReqState(r, "Stopping") \in Request
  BY <1>3, SetReqStateType DEF ReqState
<1>5. q \in Request
  BY <1>4, SetResponseMethodType, CompleteType DEF Status
<1>6. t \in Request
  BY <1>3 DEF Request
<1>7. u \in Request
  BY <1>4 DEF Request
<1>8. /\ \/ Update(id, r) /\ UNCHANGED <<w, app>>
         \/ Update(id, t) /\ UNCHANGED <<w, app>>
         \/ /\ Update(id, q) \/ Update(id, u)
            /\ w' = [w EXCEPT ![x].iRequest = "Stop", ![x].iComplete = FALSE,
                              ![x].iResCount = 0]
            /\ app' = [app EXCEPT ![x] = "stopping"]
      /\ UNCHANGED <<sip, nbrSubs, ahead>>
  BY DEF Unsubscribe, AsStop, r
<1> HIDE DEF id, q, t, u
<1>9. rq' \in [Id -> Request \cup {NoReq}]
  BY <1>2, <1>3, <1>5, <1>6, <1>7, <1>8 DEF Update, TypeOK
<1>10. w' \in [Watchers -> Watcher]
  BY <1>8 DEF TypeOK, Watcher
<1>11. app' \in [Watchers -> AppState]
  BY <1>8 DEF TypeOK, AppState
<1>12. Live' = Live
  BY <1>1, <1>3, <1>5, <1>6, <1>7, <1>8, UpdateKeepsLive
<1>13. QED
  BY <1>8, <1>9, <1>10, <1>11, <1>12 DEF TypeOK

LEMMA RemoveType ==
  ASSUME TypeOK, NEW ids \in SUBSET Id, Remove(ids)
  PROVE  /\ rq' \in [Id -> Request \cup {NoReq}]
         /\ ahead' \in [Id -> SUBSET Id]
<1>1. \A id \in Id : rq[id] \in Request \cup {NoReq} /\ ahead[id] \in SUBSET Id
  BY DEF TypeOK
<1>2. QED
  BY <1>1 DEF Remove

LEMMA CloseType ==
  ASSUME TypeOK, NEW x \in Watchers, Close(x)
  PROVE  TypeOK'
<1>1. Of(x) \in SUBSET Id /\ Cardinality(Counting(Of(x))) \in Nat
  BY CountingFinite DEF Of, Live
<1>2. nbrSubs' \in Nat
  BY <1>1, DecreasedType DEF Close, TypeOK
<1>3. NewWatcher(w[x].winfo) \in Watcher
  BY DEF NewWatcher, Watcher, TypeOK
<1>4. w' \in [Watchers -> Watcher] /\ app' \in [Watchers -> AppState]
  BY <1>3 DEF Close, TypeOK, AppState
<1>5. QED
  BY <1>1, <1>2, <1>4, RemoveType DEF Close, TypeOK

LEMMA DestroyType ==
  ASSUME TypeOK, NEW id \in Live, Destroy(id)
  PROVE  TypeOK'
<1>1. id \in Id /\ id[1] \in Watchers
  BY DEF Id, Live
<1>2. w' \in [Watchers -> Watcher]
  BY <1>1 DEF Destroy, TypeOK, Watcher
<1>3. Cardinality(Counting({id})) \in Nat
  BY CountingFinite
<1>4. nbrSubs' \in Nat
  BY <1>3, DecreasedType DEF Destroy, TypeOK
<1>5. QED
  BY <1>1, <1>2, <1>4, RemoveType DEF Destroy, TypeOK

LEMMA CountedType ==
  ASSUME NEW n \in 0..2, NEW byNotify \in BOOLEAN, NEW status
  PROVE  Counted(n, byNotify, status) \in 0..2
BY DEF Counted

LEMMA DeliverType ==
  ASSUME TypeOK, NEW id \in Live, Deliver(id)
  PROVE  /\ TypeOK' /\ Live' = Live
         /\ nbrSubs' \in {nbrSubs, Decreased(Cardinality(Counting({id})))}
<1> DEFINE x == id[1]
           r == rq[id]
           status == IF r.sig = "Pend" THEN "OK" ELSE r.sig
           byNotify == r.method = "Notify"
           stop == r.type = "Stop"
           n == Counted(w[x].iResCount, byNotify, status)
           over == n > 1
           answers == IF byNotify THEN stop /\ over
                      ELSE ~w[x].iComplete /\ (stop => over)
           ends == over /\ r.type \notin {"Stop", "Get"} /\ ~answers
           told == IF answers
                     THEN ReqComplete(app[x], IF stop THEN "OK" ELSE status, r.type)
                     ELSE app[x]
           idle == [r EXCEPT !.sig = NoSig, !.method = "Unknown"]
           gone == [idle EXCEPT !.type = "DestroyStart"]
<1>1. id \in Id /\ r \in Request /\ x \in Watchers
  BY LiveRequest DEF Id
<1>2. idle \in Request
  BY <1>1 DEF Request
<1> HIDE DEF idle
<1>3. gone \in Request
  BY <1>2 DEF Request, Type
<1> HIDE DEF gone
<1>4. DestroyStart(gone) \in Request
  BY <1>3, DestroyStartType
<1>5. n \in 0..2
  BY <1>1, CountedType DEF TypeOK, Watcher
<1>6. told \in AppState
  BY <1>1 DEF TypeOK, ReqComplete, AppState
<1>7. (IF ends THEN Terminated(told) ELSE told) \in AppState
  BY <1>6 DEF Terminated, AppState
<1>8. /\ Update(id, IF over THEN DestroyStart(gone) ELSE idle)
      /\ nbrSubs' = IF over THEN Decreased(Cardinality(Counting({id}))) ELSE nbrSubs
      /\ w' = [w EXCEPT ![x].iResCount = n,
                        ![x].iRequest = IF over THEN "None" ELSE @,
                        ![x].iComplete = ~over /\ (@ \/ answers)]
      /\ app' = [app EXCEPT ![x] = IF ends THEN Terminated(told) ELSE told]
      /\ UNCHANGED <<sip, ahead>>
  BY DEF Deliver, Answers, idle, gone
<1>9. w[x].iComplete \in BOOLEAN
  BY <1>1 DEF TypeOK, Watcher
<1> HIDE DEF n
<1>10. over \in BOOLEAN /\ stop \in BOOLEAN /\ byNotify \in BOOLEAN
  BY <1>5
<1> HIDE DEF over, stop, byNotify
<1>11. answers \in BOOLEAN
  BY <1>9, <1>10
<1> HIDE DEF x, r, answers, ends, told
<1>12. rq' \in [Id -> Request \cup {NoReq}]
  BY <1>1, <1>2, <1>4, <1>8 DEF Update, TypeOK
<1>13. w' \in [Watchers -> Watcher]
  <2>1. w[x] \in Watcher
    BY <1>1 DEF TypeOK
  <2>2. (IF over THEN "None" ELSE w[x].iRequest) \in Kind \cup {"Stop", "None"}
    BY <2>1 DEF Watcher
  <2>3. (~over /\ (w[x].iComplete \/ answers)) \in BOOLEAN
    OBVIOUS
  <2>4. [w[x] EXCEPT !.iResCount = n, !.iRequest = IF over THEN "None" ELSE @,
                     !.iComplete = ~over /\ (@ \/ answers)] \in Watcher
    BY <1>5, <2>1, <2>2, <2>3 DEF Watcher
  <2>5. QED
    BY <1>1, <1>8, <2>4 DEF TypeOK
<1>14. app' \in [Watchers -> AppState]
  BY <1>1, <1>7, <1>8 DEF TypeOK
<1>15. nbrSubs' \in Nat
  <2>1. Cardinality(Counting({id})) \in Nat
    BY CountingFinite
  <2>2. QED
    BY <1>8, <2>1, DecreasedType DEF TypeOK
<1>16. Live' = Live
  BY <1>2, <1>4, <1>8, UpdateKeepsLive
<1>17. QED
  BY <1>8, <1>12, <1>13, <1>14, <1>15, <1>16 DEF TypeOK

LEMMA RunLType ==
  ASSUME TypeOK, NEW id \in Id, RunL(id)
  PROVE  TypeOK'
BY DestroyType, DeliverType DEF RunL

LEMMA ExpiryFiresType ==
  ASSUME TypeOK, NEW id \in Id, ExpiryFires(id)
  PROVE  TypeOK' /\ Live' = Live /\ nbrSubs' = nbrSubs
<1>1. id \in Live /\ rq[id] \in Request
  BY LiveRequest DEF ExpiryFires
<1>2. [rq[id] EXCEPT !.expiry = FALSE] \in Request
  BY <1>1, TimerTypes
<1>3. Complete([rq[id] EXCEPT !.expiry = FALSE], "TimedOut") \in Request
  BY <1>2, CompleteType DEF Status
<1>4. QED
  BY <1>1, <1>3, RequestStep DEF ExpiryFires

LEMMA RefreshFiresType ==
  ASSUME TypeOK, NEW id \in Id, RefreshFires(id)
  PROVE  TypeOK' /\ Live' = Live /\ nbrSubs' = nbrSubs
<1> DEFINE fired == [rq[id] EXCEPT !.refresh = FALSE]
           ended == IF fired.auto THEN fired ELSE Complete(fired, "TimedOut")
           r == [ended EXCEPT !.expiry = TRUE]
           recreating == SetReqState(r, "DialogReCre")
           failed == Complete(SetReqState(recreating, "Failed"), "Temp")
<1>1. id \in Live /\ rq[id] \in Request
  BY LiveRequest DEF RefreshFires
<1>2. fired \in Request
  BY <1>1, TimerTypes
<1> HIDE DEF fired
<1>3. ended \in Request
  BY <1>2, CompleteType DEF Status
<1> HIDE DEF ended
<1>4. r \in Request
  BY <1>3, TimerTypes
<1> HIDE DEF r
<1>5. recreating \in Request /\ SetReqState(r, "Pending") \in Request
  BY <1>4, SetReqStateType DEF ReqState
<1> HIDE DEF recreating
<1>6. SetReqState(recreating, "Failed") \in Request
  BY <1>5, SetReqStateType DEF ReqState
<1>7. failed \in Request
  BY <1>6, CompleteType DEF Status
<1>8. CreateDialog(recreating) \in Request
  BY <1>5, CreateDialogType
<1>9. /\ \/ Update(id, r)
         \/ Update(id, SetReqState(r, "Pending"))
         \/ Update(id, CreateDialog(recreating))
         \/ Update(id, failed)
      /\ UNCHANGED <<sip, nbrSubs, ahead, w, app>>
  BY DEF RefreshFires, fired, ended, r, recreating
<1> HIDE DEF failed
<1>10. QED
  BY <1>1, <1>4, <1>5, <1>7, <1>8, <1>9, RequestStep

LEMMA AfterResponseType ==
  ASSUME NEW r \in Request, NEW status
  PROVE  AfterResponse(r, status) \in Request
BY DEF AfterResponse, Request

LEMMA ResponseType ==
  ASSUME TypeOK, NEW id \in Id, NEW status \in ResponseStatus, Response(id, status)
  PROVE  TypeOK' /\ Live' = Live /\ nbrSubs' = nbrSubs
<1>1. id \in Live /\ rq[id] \in Request /\ status \in Status
  BY LiveRequest DEF Response, ResponseStatus, Status
<1>2. AfterResponse(rq[id], status) \in Request
  BY <1>1, AfterResponseType
<1>3. SetResponseMethod(AfterResponse(rq[id], status), "Status") \in Request
  BY <1>2, SetResponseMethodType
<1>4. QED
  BY <1>1, <1>3, CompleteType, RequestStep DEF Response

LEMMA TransactionFailsType ==
  ASSUME TypeOK, NEW id \in Id, NEW status \in {"Temp", "Error"},
         TransactionFails(id, status)
  PROVE  TypeOK' /\ Live' = Live /\ nbrSubs' = nbrSubs
<1>1. id \in Live /\ rq[id] \in Request /\ status \in Status
  BY LiveRequest DEF TransactionFails, Status
<1>2. AfterResponse(rq[id], status) \in Request
  BY <1>1, AfterResponseType
<1>3. SetResponseMethod(AfterResponse(rq[id], status), "Unknown") \in Request
  BY <1>2, SetResponseMethodType
<1>4. QED
  BY <1>1, <1>3, CompleteType, RequestStep DEF TransactionFails

LEMMA RefreshFailsType ==
  ASSUME TypeOK, NEW id \in Id, NEW status \in {"Temp", "Error"},
         NEW long \in BOOLEAN, RefreshFails(id, status, long)
  PROVE  TypeOK' /\ Live' = Live /\ nbrSubs' = nbrSubs
<1> DEFINE dead == [rq[id] EXCEPT !.dialog = "dead", !.long = long]
<1>1. id \in Live /\ rq[id] \in Request /\ status \in Status
  BY LiveRequest DEF RefreshFails, Status
<1>2. dead \in Request
  BY <1>1 DEF Request
<1>3. Update(id, Complete(SetResponseMethod(dead, "Unknown"), status))
  BY DEF RefreshFails
<1> HIDE DEF dead
<1>4. SetResponseMethod(dead, "Unknown") \in Request
  BY <1>2, SetResponseMethodType
<1>5. QED
  BY <1>1, <1>3, <1>4, CompleteType, RequestStep DEF RefreshFails

LEMMA NotifyStateType ==
  ASSUME TypeOK, NEW id \in Id, NEW status \in Accepted, NotifyState(id, status)
  PROVE  TypeOK' /\ Live' = Live /\ nbrSubs' = nbrSubs
<1>1. id \in Live /\ rq[id] \in Request /\ status \in Status
  BY LiveRequest DEF NotifyState, CanNotify, Accepted, Status
<1>2. SetResponseMethod(rq[id], "Notify") \in Request
  BY <1>1, SetResponseMethodType
<1>3. [SetResponseMethod(rq[id], "Notify") EXCEPT !.errs = 0] \in Request
  BY <1>2 DEF Request
<1>4. QED
  BY <1>1, <1>3, CompleteType, RequestStep DEF NotifyState

LEMMA NotifyTerminatedType ==
  ASSUME TypeOK, NEW id \in Id, NEW permanent \in BOOLEAN, NEW long \in BOOLEAN,
         NotifyTerminated(id, permanent, long)
  PROVE  TypeOK' /\ Live' = Live /\ nbrSubs' = nbrSubs
<1> DEFINE n == IF rq[id].errs < 2 THEN rq[id].errs + 1 ELSE 2
           m == SetResponseMethod(rq[id], "Notify")
           r == [m EXCEPT !.errs = n, !.long = long, !.dialog = "dead"]
<1>1. id \in Live /\ rq[id] \in Request
  BY LiveRequest DEF NotifyTerminated, CanNotify
<1>2. n \in 0..2
  BY <1>1 DEF Request
<1>3. m \in Request
  BY <1>1, SetResponseMethodType
<1>4. /\ Update(id, Complete(r, "Completion")) \/ Update(id, Complete(r, "Temp"))
      /\ UNCHANGED <<sip, nbrSubs, ahead, w, app>>
  BY DEF NotifyTerminated
<1> HIDE DEF n, m
<1>5. r \in Request
  BY <1>2, <1>3 DEF Request
<1> HIDE DEF r
<1>6. Complete(r, "Completion") \in Request /\ Complete(r, "Temp") \in Request
  BY <1>5, CompleteType DEF Status
<1>7. QED
  BY <1>1, <1>4, <1>6, RequestStep

LEMMA DisconnectType ==
  ASSUME TypeOK, NEW state \in SipStates, Disconnect(state)
  PROVE  TypeOK'
<1> DEFINE lost(r) == SetResponseMethod(
                        [r EXCEPT !.trans = "none",
                                  !.dialog = IF @ = "none" THEN @ ELSE "dead"],
                        "Unknown")
<1>1. ASSUME NEW r \in Request PROVE Complete(lost(r), "Disconnected") \in Request
  <2>1. [r EXCEPT !.trans = "none",
                  !.dialog = IF @ = "none" THEN @ ELSE "dead"] \in Request
    BY DEF Request
  <2>2. lost(r) \in Request
    BY <2>1, SetResponseMethodType
  <2>3. QED
    BY <2>2, CompleteType DEF Status
<1>2. rq' = [id \in Id |-> IF id \in Live THEN Complete(lost(rq[id]), "Disconnected")
                                          ELSE NoReq]
  BY DEF Disconnect
<1> HIDE DEF lost
<1>3. rq' \in [Id -> Request \cup {NoReq}]
  BY <1>1, <1>2, LiveRequest
<1>4. QED
  BY <1>3 DEF Disconnect, TypeOK

LEMMA ResumeType ==
  ASSUME NEW r \in Request, NEW sent \in BOOLEAN
  PROVE  Resume(r, sent) \in Request
<1>1. Resumed(r) \in Request
  BY SetReqStateType DEF Resumed, ReqState
<1>2. SetReqState(Resumed(r), "Failed") \in Request
  BY <1>1, SetReqStateType DEF ReqState
<1>3. Complete(SetReqState(Resumed(r), "Failed"), "Error") \in Request
  BY <1>2, CompleteType DEF Status
<1>4. QED
  BY <1>1, <1>3, CreateDialogType DEF Resume

(* Activate changes each request to itself or to a resumed one. *)
LEMMA ActivateStep ==
  ASSUME Activate, NEW id \in Id
  PROVE  \/ rq'[id] = rq[id]
         \/ /\ id \in Live /\ WaitsForNetwork(id)
            /\ \E sent \in BOOLEAN : rq'[id] = Resume(rq[id], sent)
<1> DEFINE resuming == IF sip = "Suspend" THEN Reached ELSE {}
<1>1. PICK refused \in SUBSET resuming :
        rq' = [i \in Id |-> IF i \in resuming THEN Resume(rq[i], i \notin refused)
                                              ELSE rq[i]]
  BY DEF Activate
<1>2. id \in resuming => id \in Live /\ WaitsForNetwork(id)
  BY DEF Reached
<1> HIDE DEF resuming
<1>3. CASE id \in resuming
  <2>1. rq'[id] = Resume(rq[id], id \notin refused)
    BY <1>1, <1>3
  <2>2. (id \notin refused) \in BOOLEAN
    OBVIOUS
  <2>3. QED
    BY <1>2, <1>3, <2>1, <2>2
<1>4. CASE id \notin resuming
  BY <1>1, <1>4
<1>5. QED
  BY <1>3, <1>4

LEMMA ActivateType ==
  ASSUME TypeOK, Activate
  PROVE  TypeOK' /\ Live' = Live /\ nbrSubs' = nbrSubs
<1>1. ASSUME NEW id \in Id PROVE rq'[id] \in Request \cup {NoReq}
  BY ActivateStep, LiveRequest, ResumeType DEF TypeOK
<1>2. rq' = [id \in Id |-> rq'[id]]
  BY DEF Activate
<1>3. rq' \in [Id -> Request \cup {NoReq}]
  BY <1>1, <1>2
<1>4. Live' = Live
  <2>1. ASSUME NEW id \in Id PROVE rq'[id] # NoReq <=> rq[id] # NoReq
    BY ActivateStep, LiveRequest, ResumeType, NoReqDiffers DEF Live
  <2>2. QED
    BY <2>1 DEF Live
<1>5. QED
  BY <1>3, <1>4, ConstantsAssumption DEF Activate, TypeOK

(* Every variable keeps its type: no completion, timer or network event    *)
(* leaves a request, a watcher or the counter of CSimpleSipConnection in a *)
(* state that the code's enumerations do not name.                         *)
THEOREM TypeCorrect == Spec => []TypeOK
<1>1. Init => TypeOK
  BY ConstantsAssumption DEF Init, TypeOK, NewWatcher, Watcher, AppState
<1>2. TypeOK /\ [Next]_vars => TypeOK'
  <2> SUFFICES ASSUME TypeOK, [Next]_vars PROVE TypeOK'
    OBVIOUS
  <2>1. CASE App
    BY <2>1, SubscribeType, UnsubscribeType, CloseType DEF App
  <2>2. CASE Network
    <3>1. ASSUME Suspend PROVE TypeOK'
      BY <3>1 DEF Suspend, TypeOK
    <3>2. QED
      BY <2>2, <3>1, ResponseType, TransactionFailsType, RefreshFailsType,
         NotifyStateType, NotifyTerminatedType, DisconnectType, ActivateType
         DEF Network
  <2>3. CASE Engine
    BY <2>3, RunLType, ExpiryFiresType, RefreshFiresType DEF Engine
  <2>4. CASE UNCHANGED vars
    BY <2>4 DEF vars, TypeOK
  <2>5. QED
    BY <2>1, <2>2, <2>3, <2>4 DEF Next
<1>3. QED
  BY <1>1, <1>2, PTL DEF Spec

-----------------------------------------------------------------------------
(* No request waits without a timer and no completion is posted twice.     *)
(* Sound is the strengthening that is inductive request by request.  It    *)
(* adds what keeps events away from a request: one that waits for a retry  *)
(* or for the network has no dialog a NOTIFY could come in on, and a live  *)
(* subscription has no transaction a response could complete.  A request   *)
(* being deleted either has its timer or has the timer's completion        *)
(* posted, which CSimpleWatcher::Complete counts twice whatever it counted *)
(* before, so that the deletion is started again at the latest then.       *)

Parked == {"PendingInit", "ReTry", "Pending"}

Sound(r) ==
  /\ r.sig # Overrun
  /\ r.state \in Parked => r.sig = NoSig /\ r.dialog \in {"none", "dead"}
  /\ r.state = "ActiveSubs" => r.trans = "none"
  /\ r.state \in Waiting \ {"Deleting"} => r.expiry
  /\ r.state = "ReTry" => r.refresh
  /\ r.state = "Deleting" =>
       /\ r.sig = NoSig => r.method = "Unknown"
       /\ r.expiry \/ (r.sig = "TimedOut" /\ r.method = "Unknown")

AllSound == \A id \in Live : Sound(rq[id])

(* The fields that Sound reads, after each of the small operators. *)
LEMMA PostFields ==
  ASSUME NEW r \in Request, NEW status \in Status
  PROVE  /\ Post(r, status).state = r.state
         /\ Post(r, status).trans = r.trans
         /\ Post(r, status).dialog = r.dialog
         /\ Post(r, status).expiry = r.expiry
         /\ Post(r, status).refresh = r.refresh
         /\ Post(r, status).method = r.method
         /\ r.sig = NoSig => Post(r, status).sig = status
         /\ r.sig # NoSig => Post(r, status).sig = Overrun
BY DEF Post, Request

LEMMA SetReqStateFields ==
  ASSUME NEW r \in Request, NEW s \in ReqState
  PROVE  /\ SetReqState(r, s).state = s
         /\ SetReqState(r, s).trans = r.trans
         /\ SetReqState(r, s).dialog = r.dialog
         /\ SetReqState(r, s).expiry = r.expiry
         /\ SetReqState(r, s).refresh = r.refresh
         /\ SetReqState(r, s).method = r.method
         /\ SetReqState(r, s).sig = r.sig
BY DEF SetReqState, Request

LEMMA StopTimersFields ==
  ASSUME NEW r \in Request
  PROVE  /\ StopTimers(r).state = r.state
         /\ StopTimers(r).trans = r.trans
         /\ StopTimers(r).dialog = r.dialog
         /\ StopTimers(r).expiry = (r.expiry /\ r.state = "Stopping")
         /\ StopTimers(r).method = r.method
         /\ StopTimers(r).sig = r.sig
BY DEF StopTimers, Request

LEMMA StatusesDiffer == NoSig \notin Status /\ Overrun \notin Status
BY DEF NoSig, Overrun, Status

(* A request that has ended is sound, whatever is posted on it. *)
LEMMA EndedSound ==
  ASSUME NEW r \in Request, r.state \in {"Complete", "Failed"}, r.sig # Overrun
  PROVE  Sound(r)
BY DEF Sound, Parked, Waiting

LEMMA PostEndedSound ==
  ASSUME NEW r \in Request, r.state \in {"Complete", "Failed"}, r.sig = NoSig,
         NEW status \in Status
  PROVE  Sound(Post(r, status))
<1>1. Post(r, status) \in Request
  BY PostType
<1>2. QED
  BY <1>1, PostFields, EndedSound, StatusesDiffer

LEMMA PostFailedSound ==
  ASSUME NEW r \in Request, r.sig = NoSig, NEW status \in Status,
         NEW s \in {"Complete", "Failed"}
  PROVE  Sound(Post(SetReqState(r, s), status))
<1>1. s \in ReqState
  BY DEF ReqState
<1>2. SetReqState(r, s) \in Request
  BY <1>1, SetReqStateType
<1>3. QED
  BY <1>1, <1>2, SetReqStateFields, PostEndedSound

LEMMA RetryLaterSound ==
  ASSUME NEW r \in Request, r.sig = NoSig, r.dialog \in {"none", "dead"}
  PROVE  Sound(RetryLater(r))
<1>1. Sound(Post(SetReqState(r, "Failed"), "Completion"))
  BY PostFailedSound DEF Status
<1>2. Sound([SetReqState(r, "ReTry") EXCEPT !.refresh = TRUE])
  <2>1. "ReTry" \in ReqState
    BY DEF ReqState
  <2>2. SetReqState(r, "ReTry") \in Request
    BY <2>1, SetReqStateType
  <2>3. /\ SetReqState(r, "ReTry").state = "ReTry"
        /\ SetReqState(r, "ReTry").dialog = r.dialog
        /\ SetReqState(r, "ReTry").sig = NoSig
    BY <2>1, SetReqStateFields
  <2>4. QED
    BY <2>2, <2>3 DEF Sound, Parked, Waiting, Request, NoSig, Overrun
<1>3. QED
  BY <1>1, <1>2 DEF RetryLater

LEMMA CompleteSubscriptionSound ==
  ASSUME NEW r \in Request, NEW status \in Status, r.sig = NoSig,
         r.state = "Stopping" /\ status \in Accepted => r.expiry,
         r.state = "ActiveSubs" => r.dialog \in {"none", "dead"},
         status \in Accepted => r.trans = "none"
  PROVE  Sound(CompleteSubscription(r, status))
<1> DEFINE q == StopTimers(r)
           n == IF r.resps < 3 THEN r.resps + 1 ELSE 3
           p == [q EXCEPT !.sub = IF status = "Pend" THEN "Pending" ELSE @]
           c == [SetReqState(q, "Complete") EXCEPT !.resps = n, !.expiry = FALSE]
           m == [q EXCEPT !.resps = n]
<1>1. /\ q \in Request
      /\ q.state = r.state /\ q.trans = r.trans /\ q.dialog = r.dialog
      /\ q.expiry = (r.expiry /\ r.state = "Stopping") /\ q.sig = NoSig
  BY StopTimersType, StopTimersFields
<1> HIDE DEF q
<1>2. n \in 0..3
  BY DEF Request
<1> HIDE DEF n
<1>3. p \in Request /\ p.trans = r.trans /\ p.sig = NoSig
  BY <1>1 DEF Request
<1> HIDE DEF p
<1>4. Sound(Post(SetReqState(q, "Failed"), status))
      /\ Sound(Post(SetReqState(q, "Complete"), status))
  BY <1>1, PostFailedSound
<1>5. r.trans = "none" => Sound(SetReqState(q, "ActiveSubs"))
  <2>1. "ActiveSubs" \in ReqState
    BY DEF ReqState
  <2>2. QED
    BY <1>1, <2>1, SetReqStateFields, StatusesDiffer
       DEF Sound, Parked, Waiting, NoSig, Overrun
<1>6. r.trans = "none" => Sound(Post(SetReqState(p, "ActiveSubs"), status))
  <2>1. "ActiveSubs" \in ReqState
    BY DEF ReqState
  <2>2. SetReqState(p, "ActiveSubs") \in Request
    BY <1>3, <2>1, SetReqStateType
  <2>3. QED
    BY <1>3, <2>1, <2>2, SetReqStateFields, PostFields, StatusesDiffer
       DEF Sound, Parked, Waiting
<1>7. Sound(Post(c, status))
  <2>1. "Complete" \in ReqState
    BY DEF ReqState
  <2>2. SetReqState(q, "Complete") \in Request
    BY <1>1, <2>1, SetReqStateType
  <2>3. /\ SetReqState(q, "Complete").state = "Complete"
        /\ SetReqState(q, "Complete").sig = NoSig
    BY <1>1, <2>1, SetReqStateFields
  <2>4. c \in Request
    BY <1>2, <2>2, CountTypes
  <2>5. c.state = "Complete" /\ c.sig = NoSig
    BY <2>2, <2>3 DEF Request
  <2>6. QED
    BY <2>4, <2>5, PostEndedSound
<1>8. r.state = "Stopping" /\ status \in Accepted => Sound(Post(m, status))
  <2> SUFFICES ASSUME r.state = "Stopping", status \in Accepted
               PROVE  Sound(Post(m, status))
    OBVIOUS
  <2>1. m \in Request
    BY <1>1, <1>2, CountTypes
  <2>2. m.state = q.state /\ m.expiry = q.expiry /\ m.sig = q.sig
    BY <1>1 DEF Request
  <2>3. m.state = "Stopping" /\ m.expiry /\ m.sig = NoSig
    BY <1>1, <2>2
  <2> HIDE DEF m
  <2>4. /\ Post(m, status).state = "Stopping" /\ Post(m, status).expiry
        /\ Post(m, status).sig = status
    BY <2>1, <2>3, PostFields
  <2>5. QED
    BY <2>4, StatusesDiffer DEF Sound, Parked, Waiting
<1>9. r.state = "ActiveSubs" => Sound(RetryLater(q))
  BY <1>1, RetryLaterSound
<1> HIDE DEF c, m
<1>10. QED
  BY <1>4, <1>5, <1>6, <1>7, <1>8, <1>9
     DEF CompleteSubscription, q, n, p, c, m, Accepted

LEMMA CompleteNotificationSound ==
  ASSUME NEW r \in Request, NEW status \in Status, r.sig = NoSig, Sound(r),
         r.state \notin Parked \cup {"Deleting"}
  PROVE  Sound(CompleteNotification(r, status))
<1> DEFINE seen == [r EXCEPT !.sub = IF status = "Pend" THEN "Pending" ELSE "Active"]
           n == IF r.resps < 3 THEN r.resps + 1 ELSE 3
           gone == [r EXCEPT !.dialog = "none"]
           late == [gone EXCEPT !.refresh = FALSE]
           c == [SetReqState(seen, "Complete") EXCEPT !.resps = n, !.expiry = FALSE]
           m == [seen EXCEPT !.resps = n]
<1>1. n \in 0..3
  BY DEF Request
<1>2. /\ seen \in Request
      /\ seen.state = r.state /\ seen.trans = r.trans /\ seen.dialog = r.dialog
      /\ seen.expiry = r.expiry /\ seen.refresh = r.refresh /\ seen.sig = r.sig
  BY DEF Request
<1>3. gone \in Request /\ gone.sig = r.sig /\ gone.dialog = "none"
  BY DEF Request
<1> HIDE DEF seen, n, gone
<1>4. late \in Request
  BY <1>3, TimerTypes
<1>5. late.sig = NoSig /\ late.dialog = "none"
  BY <1>3 DEF Request
<1> HIDE DEF late
<1>6. Sound(RetryLater(late))
  BY <1>4, <1>5, RetryLaterSound
<1>7. ASSUME NEW q \in Request,
             q.state = r.state, q.trans = r.trans, q.sig = r.sig,
             q.expiry = r.expiry, q.refresh = r.refresh
      PROVE  Sound(Post(q, status))
  <2>1. /\ Post(q, status).state = r.state /\ Post(q, status).trans = r.trans
        /\ Post(q, status).expiry = r.expiry /\ Post(q, status).sig = status
    BY <1>7, PostFields
  <2>2. r.state \notin Parked /\ r.state # "Deleting" /\ r.state # "ReTry"
    BY DEF Parked
  <2>3. /\ r.state = "ActiveSubs" => r.trans = "none"
        /\ r.state \in Waiting \ {"Deleting"} => r.expiry
    BY DEF Sound
  <2>4. QED
    BY <2>1, <2>2, <2>3, StatusesDiffer DEF Sound
<1>8. Sound(Post(r, status)) /\ Sound(Post(seen, status))
  BY <1>2, <1>7
<1>9. Sound(Post(m, status))
  <2>1. m \in Request
    BY <1>1, <1>2, CountTypes
  <2>2. /\ m.state = seen.state /\ m.trans = seen.trans /\ m.sig = seen.sig
        /\ m.expiry = seen.expiry /\ m.refresh = seen.refresh
    BY <1>2 DEF Request
  <2> HIDE DEF m
  <2>3. QED
    BY <1>2, <1>7, <2>1, <2>2
<1>10. Sound(Post(c, status))
  <2>1. "Complete" \in ReqState
    BY DEF ReqState
  <2>2. SetReqState(seen, "Complete") \in Request
    BY <1>2, <2>1, SetReqStateType
  <2>3. /\ SetReqState(seen, "Complete").state = "Complete"
        /\ SetReqState(seen, "Complete").sig = NoSig
    BY <1>2, <2>1, SetReqStateFields
  <2>4. c \in Request
    BY <1>1, <2>2, CountTypes
  <2>5. c.state = "Complete" /\ c.sig = NoSig
    BY <2>2, <2>3 DEF Request
  <2>6. QED
    BY <2>4, <2>5, PostEndedSound
<1>11. /\ Sound(Post(SetReqState(gone, "Complete"), status))
       /\ Sound(Post(SetReqState(gone, "Failed"), status))
  BY <1>3, PostFailedSound
<1> HIDE DEF c, m
<1>12. QED
  BY <1>6, <1>8, <1>9, <1>10, <1>11
     DEF CompleteNotification, seen, n, gone, late, c, m

(* Complete for a request that is being deleted: only the completion. *)
LEMMA CompleteDeletingSound ==
  ASSUME NEW r \in Request, NEW status \in Status, r.sig = NoSig,
         r.state = "Deleting",
         r.expiry \/ (status = "TimedOut" /\ r.method = "Unknown")
  PROVE  Sound(Complete(r, status))
<1>1. Complete(r, status) = Post(r, status)
  BY DEF Complete
<1>2. /\ Post(r, status).state = "Deleting" /\ Post(r, status).expiry = r.expiry
      /\ Post(r, status).method = r.method /\ Post(r, status).sig = status
  BY PostFields
<1>3. QED
  BY <1>1, <1>2, StatusesDiffer DEF Sound, Parked, Waiting

(* Complete for any other request that gives up. *)
LEMMA CompleteGivesUp ==
  ASSUME NEW r \in Request, NEW status \in {"Disconnected", "TimedOut"},
         r.sig = NoSig, r.state # "Deleting"
  PROVE  Sound(Complete(r, status)) /\ Complete(r, status).state = "Failed"
<1> DEFINE q == [r EXCEPT !.long = FALSE, !.expiry = FALSE, !.refresh = FALSE]
<1>1. q \in Request /\ q.sig = NoSig
  BY DEF Request
<1>2. Complete(r, status) = Post(SetReqState(q, "Failed"), status)
  BY DEF Complete
<1> HIDE DEF q
<1>3. status \in Status /\ "Failed" \in ReqState
  BY DEF Status, ReqState
<1>4. Sound(Post(SetReqState(q, "Failed"), status))
  BY <1>1, <1>3, PostFailedSound
<1>5. Post(SetReqState(q, "Failed"), status).state = "Failed"
  BY <1>1, <1>3, SetReqStateType, SetReqStateFields, PostFields
<1>6. QED
  BY <1>2, <1>4, <1>5

LEMMA CompleteSound ==
  ASSUME NEW r \in Request, NEW status \in Status \ {"Disconnected", "TimedOut"},
         r.sig = NoSig,
         r.state = "Deleting" => r.expiry,
         r.method = "Notify" /\ r.state # "Deleting" => Sound(r) /\ r.state \notin Parked,
         r.method # "Notify" => /\ r.state = "Stopping" /\ status \in Accepted => r.expiry
                                /\ r.state = "ActiveSubs" => r.dialog \in {"none", "dead"}
                                /\ status \in Accepted => r.trans = "none"
  PROVE  Sound(Complete(r, status))
<1>1. CASE r.state = "Deleting"
  BY <1>1, CompleteDeletingSound
<1>2. CASE r.state # "Deleting" /\ r.method = "Notify"
  BY <1>2, CompleteNotificationSound DEF Complete
<1>3. CASE r.state # "Deleting" /\ r.method # "Notify"
  BY <1>3, CompleteSubscriptionSound DEF Complete
<1>4. QED
  BY <1>1, <1>2, <1>3

LEMMA CompleteFailedSound ==
  ASSUME NEW r \in Request, NEW status \in {"Temp", "Error"},
         r.sig = NoSig, r.state = "Failed"
  PROVE  Sound(Complete(r, status))
<1>1. Sound(r)
  BY EndedSound DEF NoSig, Overrun
<1>2. status \in Status \ {"Disconnected", "TimedOut"} /\ status \notin Accepted
  BY DEF Status, Accepted
<1>3. QED
  BY <1>1, <1>2, CompleteSound DEF Parked

-----------------------------------------------------------------------------
(* Soundness is preserved, action by action. *)

LEMMA SoundStep ==
  ASSUME TypeOK, AllSound, NEW id \in Id, NEW r \in Request, Sound(r), Update(id, r)
  PROVE  AllSound'
BY DEF TypeOK, AllSound, Live, Update

(* What AllSound says of a live request with nothing posted. *)
LEMMA QuietRequest ==
  ASSUME TypeOK, AllSound, Quiet, NEW id \in Live
  PROVE  /\ id \in Id /\ rq[id] \in Request
         /\ rq[id].sig = NoSig /\ Sound(rq[id])
         /\ rq[id].state = "Deleting" => rq[id].expiry /\ rq[id].method = "Unknown"
<1>1. id \in Id /\ rq[id] \in Request /\ rq[id].sig = NoSig /\ Sound(rq[id])
  BY LiveRequest DEF Quiet, AllSound
<1>2. QED
  BY <1>1 DEF Sound, NoSig

LEMMA SetResponseMethodFields ==
  ASSUME NEW r \in Request, NEW m \in {"Unknown", "Status", "Notify"}
  PROVE  /\ SetResponseMethod(r, m).state = r.state
         /\ SetResponseMethod(r, m).trans = r.trans
         /\ SetResponseMethod(r, m).dialog = r.dialog
         /\ SetResponseMethod(r, m).expiry = r.expiry
         /\ SetResponseMethod(r, m).refresh = r.refresh
         /\ SetResponseMethod(r, m).method = m
         /\ SetResponseMethod(r, m).sig = r.sig
BY DEF SetResponseMethod, Request

LEMMA NewRequestSound ==
  ASSUME NEW kind \in Kind, NEW auto \in BOOLEAN, NEW active \in BOOLEAN
  PROVE  Sound(NewRequest(kind, auto, active))
<1>1. CASE active
  BY <1>1 DEF NewRequest, Sound, Parked, Waiting, NoSig, Overrun
<1>2. CASE ~active
  BY <1>2 DEF NewRequest, Sound, Parked, Waiting, NoSig, Overrun
<1>3. QED
  BY <1>1, <1>2

LEMMA SubscribeSound ==
  ASSUME TypeOK, AllSound, NEW x \in Watchers, NEW kind \in Kinds,
         NEW auto \in Refreshes, Subscribe(x, kind, auto)
  PROVE  AllSound'
<1> DEFINE free == {s \in Slots : rq[<<x, s>>] = NoReq}
           slot == CHOOSE s \in free : TRUE
           id == <<x, slot>>
<1>1. id \in Id
  BY DEF Subscribe, Id
<1>2. kind \in Kind /\ auto \in BOOLEAN
  BY ConstantsAssumption
<1>3. /\ NewRequest(kind, auto, sip = "Active") \in Request
      /\ Sound(NewRequest(kind, auto, sip = "Active"))
  BY <1>2, NewRequestType, NewRequestSound
<1>4. Update(id, NewRequest(kind, auto, sip = "Active"))
  BY DEF Subscribe
<1> HIDE DEF id
<1>5. QED
  BY <1>1, <1>3, <1>4, SoundStep

LEMMA UnsubscribeSound ==
  ASSUME TypeOK, AllSound, NEW x \in Watchers, Unsubscribe(x)
  PROVE  AllSound'
<1> DEFINE id == <<x, w[x].iSubsId>>
           r == [rq[id] EXCEPT !.type = "Stop", !.expires = FALSE]
           s == SetResponseMethod(SetReqState(r, "Stopping"), "Unknown")
           t == [r EXCEPT !.trans = "none"]
           u == [SetReqState(r, "Stopping") EXCEPT
                   !.trans = "unsubscribe", !.expiry = TRUE]
<1>1. id \in Live
  BY DEF Unsubscribe, AsStop
<1>2. id \in Id /\ rq[id] \in Request /\ Sound(rq[id])
  BY <1>1, LiveRequest DEF AllSound
<1>3. \/ Update(id, r)
      \/ r.state \in {"ReTry", "PendingInit", "Pending"} /\ Update(id, Complete(s, "Completion"))
      \/ Update(id, t)
      \/ Update(id, u)
  BY DEF Unsubscribe, AsStop
<1> HIDE DEF id
<1>4. /\ r \in Request
      /\ r.state = rq[id].state /\ r.trans = rq[id].trans /\ r.dialog = rq[id].dialog
      /\ r.expiry = rq[id].expiry /\ r.refresh = rq[id].refresh
      /\ r.method = rq[id].method /\ r.sig = rq[id].sig
  BY <1>2 DEF Request, Type
<1> HIDE DEF r
<1>5. Sound(r)
  BY <1>2, <1>4 DEF Sound
<1>6. t \in Request /\ Sound(t)
  <2>1. /\ t \in Request
        /\ t.state = r.state /\ t.trans = "none" /\ t.dialog = r.dialog
        /\ t.expiry = r.expiry /\ t.refresh = r.refresh
        /\ t.method = r.method /\ t.sig = r.sig
    BY <1>4 DEF Request
  <2>2. QED
    BY <1>5, <2>1 DEF Sound
<1>7. /\ SetReqState(r, "Stopping") \in Request
      /\ SetReqState(r, "Stopping").state = "Stopping"
      /\ SetReqState(r, "Stopping").sig = r.sig
  BY <1>4, SetReqStateType, SetReqStateFields DEF ReqState
<1>8. u \in Request /\ Sound(u)
  <2>1. /\ u \in Request /\ u.state = "Stopping" /\ u.expiry /\ u.sig = r.sig
    BY <1>7 DEF Request
  <2>2. r.sig # Overrun
    BY <1>5 DEF Sound
  <2>3. QED
    BY <2>1, <2>2 DEF Sound, Parked, Waiting
<1>9. ASSUME r.state \in {"ReTry", "PendingInit", "Pending"}
      PROVE  Complete(s, "Completion") \in Request /\ Sound(Complete(s, "Completion"))
  <2>1. r.sig = NoSig
    BY <1>5, <1>9 DEF Sound, Parked
  <2>2. s \in Request /\ s.state = "Stopping" /\ s.sig = NoSig /\ s.method = "Unknown"
    BY <1>7, <2>1, SetResponseMethodType, SetResponseMethodFields
  <2> HIDE DEF s
  <2>3. "Completion" \in Status \ {"Disconnected", "TimedOut"}
        /\ "Completion" \notin Accepted
    BY DEF Status, Accepted
  <2>4. QED
    BY <2>2, <2>3, CompleteType, CompleteSound
<1> HIDE DEF s, t, u
<1>10. QED
  BY <1>2, <1>3, <1>4, <1>5, <1>6, <1>8, <1>9, SoundStep

LEMMA RemoveSound ==
  ASSUME AllSound, NEW ids \in SUBSET Id, Remove(ids)
  PROVE  AllSound'
BY DEF AllSound, Remove, Live

LEMMA DeliverSound ==
  ASSUME TypeOK, AllSound, NEW id \in Live, Deliver(id)
  PROVE  AllSound'
<1> DEFINE x == id[1]
           r == rq[id]
           status == IF r.sig = "Pend" THEN "OK" ELSE r.sig
           n == Counted(w[x].iResCount, r.method = "Notify", status)
           idle == [r EXCEPT !.sig = NoSig, !.method = "Unknown"]
           gone == [idle EXCEPT !.type = "DestroyStart"]
<1>1. id \in Id /\ r \in Request /\ Sound(r) /\ x \in Watchers
  BY LiveRequest DEF Id, AllSound
<1>2. Update(id, IF n > 1 THEN DestroyStart(gone) ELSE idle)
  BY DEF Deliver, Answers
<1>3. /\ idle \in Request
      /\ idle.state = r.state /\ idle.trans = r.trans /\ idle.dialog = r.dialog
      /\ idle.expiry = r.expiry /\ idle.refresh = r.refresh
      /\ idle.method = "Unknown" /\ idle.sig = NoSig
  BY <1>1 DEF Request
<1>4. r.sig = "TimedOut" /\ r.method = "Unknown" => n > 1
  <2>1. w[x].iResCount \in 0..2
    BY <1>1 DEF TypeOK, Watcher
  <2>2. QED
    BY <2>1 DEF Counted
<1> HIDE DEF n, idle
<1>5. DestroyStart(gone) \in Request /\ Sound(DestroyStart(gone))
  <2>1. gone \in Request /\ gone.method = "Unknown" /\ gone.sig = NoSig
    BY <1>3 DEF Request, Type
  <2> HIDE DEF gone
  <2>2. "Deleting" \in ReqState
    BY DEF ReqState
  <2>3. /\ SetReqState(gone, "Deleting") \in Request
        /\ SetReqState(gone, "Deleting").state = "Deleting"
        /\ SetReqState(gone, "Deleting").method = "Unknown"
        /\ SetReqState(gone, "Deleting").sig = NoSig
    BY <2>1, <2>2, SetReqStateType, SetReqStateFields
  <2>4. /\ DestroyStart(gone).state = "Deleting" /\ DestroyStart(gone).expiry
        /\ DestroyStart(gone).method = "Unknown" /\ DestroyStart(gone).sig = NoSig
    BY <2>3 DEF DestroyStart, Request
  <2>5. QED
    BY <2>1, <2>4, DestroyStartType, StatusesDiffer
       DEF Sound, Parked, Waiting, NoSig, Overrun
<1>6. n > 1 \/ Sound(idle)
  BY <1>1, <1>3, <1>4 DEF Sound, NoSig, Overrun
<1> HIDE DEF gone
<1>7. QED
  BY <1>1, <1>2, <1>3, <1>5, <1>6, SoundStep

LEMMA RunLSound ==
  ASSUME TypeOK, AllSound, NEW id \in Id, RunL(id)
  PROVE  AllSound'
<1>1. ASSUME Destroy(id) PROVE AllSound'
  BY <1>1, RemoveSound DEF Destroy
<1>2. QED
  BY <1>1, DeliverSound DEF RunL

LEMMA ExpiryFiresSound ==
  ASSUME TypeOK, AllSound, NEW id \in Id, ExpiryFires(id)
  PROVE  AllSound'
<1> DEFINE r == [rq[id] EXCEPT !.expiry = FALSE]
<1>1. /\ Quiet /\ id \in Live
      /\ Update(id, Complete(r, "TimedOut"))
  BY DEF ExpiryFires
<1>2. /\ rq[id] \in Request /\ rq[id].sig = NoSig
      /\ rq[id].state = "Deleting" => rq[id].method = "Unknown"
  BY <1>1, QuietRequest
<1>3. /\ r \in Request /\ r.sig = NoSig
      /\ r.state = "Deleting" => r.method = "Unknown"
  BY <1>2 DEF Request
<1> HIDE DEF r
<1>4. Complete(r, "TimedOut") \in Request
  BY <1>3, CompleteType DEF Status
<1>5. Sound(Complete(r, "TimedOut"))
  <2>1. CASE r.state = "Deleting"
    BY <1>3, <2>1, CompleteDeletingSound DEF Status
  <2>2. CASE r.state # "Deleting"
    BY <1>3, <2>2, CompleteGivesUp
  <2>3. QED
    BY <2>1, <2>2
<1>6. QED
  BY <1>1, <1>4, <1>5, SoundStep

LEMMA CreateDialogSound ==
  ASSUME NEW r \in Request, r.state \in {"RunningInit", "DialogReCre"},
         r.sig = NoSig, r.expiry
  PROVE  Sound(CreateDialog(r))
<1>1. /\ CreateDialog(r).state = r.state /\ CreateDialog(r).sig = NoSig
      /\ CreateDialog(r).expiry
  BY DEF CreateDialog, Request
<1>2. QED
  BY <1>1, StatusesDiffer DEF Sound, Parked, Waiting, NoSig, Overrun

LEMMA RefreshFiresSound ==
  ASSUME TypeOK, AllSound, NEW id \in Id, RefreshFires(id)
  PROVE  AllSound'
<1> DEFINE fired == [rq[id] EXCEPT !.refresh = FALSE]
           ended == IF fired.auto THEN fired ELSE Complete(fired, "TimedOut")
           r == [ended EXCEPT !.expiry = TRUE]
           recreating == SetReqState(r, "DialogReCre")
           failed == Complete(SetReqState(recreating, "Failed"), "Temp")
<1>1. /\ Quiet /\ id \in Live
      /\ \/ r.state \notin {"ReTry", "Pending"} /\ Update(id, r)
         \/ r.state \in {"ReTry", "Pending"} /\ Update(id, SetReqState(r, "Pending"))
         \/ r.state \in {"ReTry", "Pending"} /\ Update(id, CreateDialog(recreating))
         \/ r.state \in {"ReTry", "Pending"} /\ Update(id, failed)
  BY DEF RefreshFires
<1>2. /\ rq[id] \in Request /\ rq[id].sig = NoSig /\ Sound(rq[id])
      /\ rq[id].state = "Deleting" => rq[id].expiry /\ rq[id].method = "Unknown"
  BY <1>1, QuietRequest
<1>3. /\ fired \in Request /\ fired.sig = NoSig
      /\ fired.state = rq[id].state /\ fired.trans = rq[id].trans
      /\ fired.dialog = rq[id].dialog /\ fired.expiry = rq[id].expiry
      /\ fired.method = rq[id].method
  BY <1>2 DEF Request
<1> HIDE DEF fired
<1>4. CASE fired.auto
  <2>1. ended = fired
    BY <1>4
  <2>2. /\ r \in Request /\ r.sig = NoSig /\ r.expiry
        /\ r.state = rq[id].state /\ r.trans = rq[id].trans
        /\ r.dialog = rq[id].dialog /\ r.method = rq[id].method
    BY <1>3, <2>1 DEF Request
  <2> HIDE DEF ended, r
  <2>3. r.state # "ReTry" => Sound(r)
    BY <1>2, <2>2 DEF Sound
  <2>4. ASSUME r.state \in {"ReTry", "Pending"}
        PROVE  SetReqState(r, "Pending") \in Request /\ Sound(SetReqState(r, "Pending"))
    <3>1. "Pending" \in ReqState
      BY DEF ReqState
    <3>2. /\ SetReqState(r, "Pending").state = "Pending"
          /\ SetReqState(r, "Pending").dialog = r.dialog
          /\ SetReqState(r, "Pending").expiry
          /\ SetReqState(r, "Pending").sig = NoSig
      BY <2>2, <3>1, SetReqStateFields
    <3>3. r.dialog \in {"none", "dead"}
      BY <1>2, <2>2, <2>4 DEF Sound, Parked
    <3>4. QED
      BY <2>2, <3>1, <3>2, <3>3, SetReqStateType
         DEF Sound, Parked, Waiting, NoSig, Overrun
  <2>5. /\ recreating \in Request /\ recreating.state = "DialogReCre"
        /\ recreating.expiry /\ recreating.sig = NoSig
    BY <2>2, SetReqStateType, SetReqStateFields DEF ReqState
  <2> HIDE DEF recreating
  <2>6. CreateDialog(recreating) \in Request /\ Sound(CreateDialog(recreating))
    BY <2>5, CreateDialogType, CreateDialogSound
  <2>7. /\ SetReqState(recreating, "Failed") \in Request
        /\ SetReqState(recreating, "Failed").state = "Failed"
        /\ SetReqState(recreating, "Failed").sig = NoSig
    BY <2>5, SetReqStateType, SetReqStateFields DEF ReqState
  <2>8. failed \in Request /\ Sound(failed)
    BY <2>7, CompleteType, CompleteFailedSound DEF Status
  <2> HIDE DEF failed
  <2>9. QED
    BY <1>1, <2>2, <2>3, <2>4, <2>6, <2>8, SoundStep
<1>5. CASE ~fired.auto
  <2>1. ended = Complete(fired, "TimedOut")
    BY <1>5
  <2>2. ended \in Request
    BY <1>3, <2>1, CompleteType DEF Status
  <2>3. Sound(ended) /\ ended.state \in {"Failed", "Deleting"}
    <3>1. CASE fired.state = "Deleting"
      <4>1. ended = Post(fired, "TimedOut")
        BY <2>1, <3>1 DEF Complete
      <4>2. "TimedOut" \in Status
        BY DEF Status
      <4>3. Sound(ended)
        BY <1>2, <1>3, <2>1, <3>1, <4>2, CompleteDeletingSound
      <4>4. QED
        BY <1>3, <3>1, <4>1, <4>2, <4>3, PostFields
    <3>2. CASE fired.state # "Deleting"
      BY <1>3, <2>1, <3>2, CompleteGivesUp
    <3>3. QED
      BY <3>1, <3>2
  <2> HIDE DEF ended
  <2>4. /\ r \in Request /\ r.state = ended.state /\ r.expiry /\ r.sig = ended.sig
        /\ r.method = ended.method
    BY <2>2 DEF Request
  <2> HIDE DEF r, failed, recreating
  <2>5. Sound(r)
    BY <2>3, <2>4 DEF Sound, Parked, Waiting
  <2>6. Update(id, r)
    BY <1>1, <2>3, <2>4
  <2>7. QED
    BY <1>1, <2>4, <2>5, <2>6, SoundStep
<1>6. QED
  BY <1>4, <1>5

LEMMA AfterResponseFields ==
  ASSUME NEW r \in Request, NEW status
  PROVE  /\ AfterResponse(r, status).state = r.state
         /\ AfterResponse(r, status).trans = "none"
         /\ AfterResponse(r, status).expiry = r.expiry
         /\ AfterResponse(r, status).sig = r.sig
BY DEF AfterResponse, Request

(* The common part of a response and a failed transaction. *)
LEMMA TransactionEndsSound ==
  ASSUME NEW r \in Request, NEW status \in ResponseStatus,
         NEW m \in {"Unknown", "Status"},
         Sound(r), r.sig = NoSig, r.trans # "none", r.state = "Deleting" => r.expiry
  PROVE  LET q == SetResponseMethod(AfterResponse(r, status), m)
         IN  Complete(q, status) \in Request /\ Sound(Complete(q, status))
<1> DEFINE a == AfterResponse(r, status)
           q == SetResponseMethod(a, m)
<1>1. /\ a \in Request /\ a.state = r.state /\ a.trans = "none"
      /\ a.expiry = r.expiry /\ a.sig = NoSig
  BY AfterResponseType, AfterResponseFields
<1> HIDE DEF a
<1>2. /\ q \in Request /\ q.state = r.state /\ q.trans = "none"
      /\ q.expiry = r.expiry /\ q.sig = NoSig /\ q.method = m
  <2>1. m \in {"Unknown", "Status", "Notify"}
    OBVIOUS
  <2>2. QED
    BY <1>1, <2>1, SetResponseMethodType, SetResponseMethodFields
<1>3. /\ r.state # "ActiveSubs"
      /\ r.state = "Stopping" => r.expiry
  BY DEF Sound, Waiting
<1>4. status \in Status \ {"Disconnected", "TimedOut"}
  BY DEF ResponseStatus, Status
<1> HIDE DEF q
<1>5. Complete(q, status) \in Request
  BY <1>2, <1>4, CompleteType
<1>6. Sound(Complete(q, status))
  BY <1>2, <1>3, <1>4, CompleteSound
<1>7. QED
  BY <1>5, <1>6 DEF q, a

LEMMA ResponseSound ==
  ASSUME TypeOK, AllSound, NEW id \in Id, NEW status \in ResponseStatus,
         Response(id, status)
  PROVE  AllSound'
BY QuietRequest, TransactionEndsSound, SoundStep DEF Response

LEMMA TransactionFailsSound ==
  ASSUME TypeOK, AllSound, NEW id \in Id, NEW status \in {"Temp", "Error"},
         TransactionFails(id, status)
  PROVE  AllSound'
<1>1. status \in ResponseStatus
  BY DEF ResponseStatus
<1>2. QED
  BY <1>1, QuietRequest, TransactionEndsSound, SoundStep DEF TransactionFails

LEMMA RefreshFailsSound ==
  ASSUME TypeOK, AllSound, NEW id \in Id, NEW status \in {"Temp", "Error"},
         NEW long \in BOOLEAN, RefreshFails(id, status, long)
  PROVE  AllSound'
<1> DEFINE dead == [rq[id] EXCEPT !.dialog = "dead", !.long = long]
           q == SetResponseMethod(dead, "Unknown")
<1>1. Quiet /\ id \in Live /\ Update(id, Complete(q, status))
  BY DEF RefreshFails
<1>2. /\ rq[id] \in Request /\ rq[id].sig = NoSig
      /\ rq[id].state = "Deleting" => rq[id].expiry
  BY <1>1, QuietRequest
<1>3. /\ dead \in Request /\ dead.sig = NoSig /\ dead.dialog = "dead"
      /\ dead.state = rq[id].state /\ dead.expiry = rq[id].expiry
  BY <1>2 DEF Request
<1> HIDE DEF dead
<1>4. /\ q \in Request /\ q.sig = NoSig /\ q.dialog = "dead" /\ q.method = "Unknown"
      /\ q.state = rq[id].state /\ q.expiry = rq[id].expiry
  BY <1>3, SetResponseMethodType, SetResponseMethodFields
<1> HIDE DEF q
<1>5. status \in Status \ {"Disconnected", "TimedOut"} /\ status \notin Accepted
  BY DEF Status, Accepted
<1>6. Complete(q, status) \in Request /\ Sound(Complete(q, status))
  BY <1>2, <1>4, <1>5, CompleteType, CompleteSound
<1>7. QED
  BY <1>1, <1>6, SoundStep

(* A NOTIFY comes in on an open dialog, so never for a request that waits  *)
(* for a retry or for the network.                                         *)
LEMMA NotifySound ==
  ASSUME NEW q \in Request, NEW r \in Request, Sound(q), q.sig = NoSig,
         q.state = "Deleting" => q.expiry,
         q.dialog \in {"open", "kept"},
         r.state = q.state, r.trans = q.trans, r.expiry = q.expiry,
         r.refresh = q.refresh, r.sig = NoSig, r.method = "Notify",
         NEW status \in {"OK", "Pend", "Completion", "Temp"}
  PROVE  Complete(r, status) \in Request /\ Sound(Complete(r, status))
<1>1. q.state \notin Parked
  BY DEF Sound
<1>2. r.state # "Deleting" => Sound(r)
  BY <1>1 DEF Sound, NoSig, Overrun
<1>3. status \in Status \ {"Disconnected", "TimedOut"}
  BY DEF Status
<1>4. QED
  BY <1>1, <1>2, <1>3, CompleteType, CompleteSound

LEMMA NotifyStateSound ==
  ASSUME TypeOK, AllSound, NEW id \in Id, NEW status \in Accepted,
         NotifyState(id, status)
  PROVE  AllSound'
<1> DEFINE m == SetResponseMethod(rq[id], "Notify")
           r == [m EXCEPT !.errs = 0]
<1>1. /\ Quiet /\ id \in Live /\ rq[id].dialog \in {"open", "kept"}
      /\ Update(id, Complete(r, status))
  BY DEF NotifyState, CanNotify
<1>2. /\ rq[id] \in Request /\ rq[id].sig = NoSig /\ Sound(rq[id])
      /\ rq[id].state = "Deleting" => rq[id].expiry
  BY <1>1, QuietRequest
<1>3. /\ m \in Request /\ m.state = rq[id].state /\ m.trans = rq[id].trans
      /\ m.expiry = rq[id].expiry /\ m.refresh = rq[id].refresh
      /\ m.sig = NoSig /\ m.method = "Notify"
  BY <1>2, SetResponseMethodType, SetResponseMethodFields
<1> HIDE DEF m
<1>4. /\ r \in Request /\ r.state = m.state /\ r.trans = m.trans
      /\ r.expiry = m.expiry /\ r.refresh = m.refresh
      /\ r.sig = NoSig /\ r.method = "Notify"
  BY <1>3 DEF Request
<1> HIDE DEF r
<1>5. Complete(r, status) \in Request /\ Sound(Complete(r, status))
  BY <1>1, <1>2, <1>3, <1>4, NotifySound DEF Accepted
<1>6. QED
  BY <1>1, <1>5, SoundStep

LEMMA NotifyTerminatedSound ==
  ASSUME TypeOK, AllSound, NEW id \in Id, NEW permanent \in BOOLEAN,
         NEW long \in BOOLEAN, NotifyTerminated(id, permanent, long)
  PROVE  AllSound'
<1> DEFINE n == IF rq[id].errs < 2 THEN rq[id].errs + 1 ELSE 2
           m == SetResponseMethod(rq[id], "Notify")
           r == [m EXCEPT !.errs = n, !.long = long, !.dialog = "dead"]
<1>1. /\ Quiet /\ id \in Live /\ rq[id].dialog \in {"open", "kept"}
      /\ Update(id, Complete(r, "Completion")) \/ Update(id, Complete(r, "Temp"))
  BY DEF NotifyTerminated, CanNotify
<1>2. /\ rq[id] \in Request /\ rq[id].sig = NoSig /\ Sound(rq[id])
      /\ rq[id].state = "Deleting" => rq[id].expiry
  BY <1>1, QuietRequest
<1>3. n \in 0..2
  BY <1>2 DEF Request
<1>4. /\ m \in Request /\ m.state = rq[id].state /\ m.trans = rq[id].trans
      /\ m.expiry = rq[id].expiry /\ m.refresh = rq[id].refresh
      /\ m.sig = NoSig /\ m.method = "Notify"
  BY <1>2, SetResponseMethodType, SetResponseMethodFields
<1> HIDE DEF m, n
<1>5. /\ r \in Request /\ r.state = m.state /\ r.trans = m.trans
      /\ r.expiry = m.expiry /\ r.refresh = m.refresh
      /\ r.sig = NoSig /\ r.method = "Notify"
  BY <1>3, <1>4 DEF Request
<1> HIDE DEF r
<1>6. /\ Complete(r, "Completion") \in Request /\ Sound(Complete(r, "Completion"))
      /\ Complete(r, "Temp") \in Request /\ Sound(Complete(r, "Temp"))
  BY <1>1, <1>2, <1>4, <1>5, NotifySound
<1>7. QED
  BY <1>1, <1>6, SoundStep

LEMMA DisconnectSound ==
  ASSUME TypeOK, AllSound, NEW state \in SipStates, Disconnect(state)
  PROVE  AllSound'
<1> DEFINE lost(r) == SetResponseMethod(
                        [r EXCEPT !.trans = "none",
                                  !.dialog = IF @ = "none" THEN @ ELSE "dead"],
                        "Unknown")
<1>1. ASSUME NEW r \in Request, r.sig = NoSig, r.state = "Deleting" => r.expiry
      PROVE  Sound(Complete(lost(r), "Disconnected"))
  <2> DEFINE cut == [r EXCEPT !.trans = "none",
                              !.dialog = IF @ = "none" THEN @ ELSE "dead"]
  <2>1. /\ cut \in Request /\ cut.state = r.state
        /\ cut.expiry = r.expiry /\ cut.sig = NoSig
    BY <1>1 DEF Request
  <2> HIDE DEF cut
  <2>2. LET q == SetResponseMethod(cut, "Unknown")
        IN  q \in Request /\ q.state = r.state /\ q.expiry = r.expiry /\ q.sig = NoSig
    BY <2>1, SetResponseMethodType, SetResponseMethodFields
  <2>3. lost(r) = SetResponseMethod(cut, "Unknown")
    BY DEF cut
  <2> HIDE DEF lost
  <2>4. CASE r.state = "Deleting"
    BY <1>1, <2>2, <2>3, <2>4, CompleteDeletingSound DEF Status
  <2>5. CASE r.state # "Deleting"
    BY <2>2, <2>3, <2>5, CompleteGivesUp
  <2>6. QED
    BY <2>4, <2>5
<1>2. /\ Quiet
      /\ rq' = [id \in Id |-> IF id \in Live THEN Complete(lost(rq[id]), "Disconnected")
                                             ELSE NoReq]
  BY DEF Disconnect
<1> HIDE DEF lost
<1>3. ASSUME NEW id \in Id, rq'[id] # NoReq PROVE Sound(rq'[id])
  <2>1. id \in Live /\ rq'[id] = Complete(lost(rq[id]), "Disconnected")
    BY <1>2, <1>3
  <2>2. rq[id] \in Request /\ rq[id].sig = NoSig
        /\ (rq[id].state = "Deleting" => rq[id].expiry)
    BY <1>2, <2>1, QuietRequest
  <2>3. QED
    BY <1>1, <2>1, <2>2
<1>4. QED
  BY <1>3 DEF AllSound, Live

LEMMA ResumeSound ==
  ASSUME NEW r \in Request, NEW sent \in BOOLEAN, Sound(r),
         r.state \in {"PendingInit", "Pending"}
  PROVE  Sound(Resume(r, sent))
<1>1. r.sig = NoSig /\ r.expiry
  BY DEF Sound, Parked, Waiting
<1>2. /\ Resumed(r) \in Request
      /\ Resumed(r).state \in {"RunningInit", "DialogReCre"}
      /\ Resumed(r).expiry /\ Resumed(r).sig = NoSig
  BY <1>1, SetReqStateType, SetReqStateFields DEF Resumed, ReqState
<1>3. Sound(CreateDialog(Resumed(r)))
  BY <1>2, CreateDialogSound
<1>4. /\ SetReqState(Resumed(r), "Failed") \in Request
      /\ SetReqState(Resumed(r), "Failed").state = "Failed"
      /\ SetReqState(Resumed(r), "Failed").sig = NoSig
  BY <1>2, SetReqStateType, SetReqStateFields DEF ReqState
<1>5. Sound(Complete(SetReqState(Resumed(r), "Failed"), "Error"))
  BY <1>4, CompleteFailedSound
<1>6. QED
  BY <1>3, <1>5 DEF Resume

LEMMA ActivateSound ==
  ASSUME TypeOK, AllSound, Activate
  PROVE  AllSound'
<1>1. ASSUME NEW id \in Id, rq'[id] # NoReq PROVE Sound(rq'[id])
  <2>1. CASE rq'[id] = rq[id]
    BY <1>1, <2>1 DEF AllSound, Live
  <2>2. CASE /\ id \in Live /\ WaitsForNetwork(id)
             /\ \E sent \in BOOLEAN : rq'[id] = Resume(rq[id], sent)
    BY <2>2, LiveRequest, ResumeSound DEF AllSound, WaitsForNetwork
  <2>3. QED
    BY <2>1, <2>2, ActivateStep
<1>2. QED
  BY <1>1 DEF AllSound, Live

(* Every request is sound in every reachable state. *)
THEOREM RequestsSound == Spec => []AllSound
<1>1. Init => AllSound
  BY DEF Init, AllSound, Live
<1>2. TypeOK /\ AllSound /\ [Next]_vars => AllSound'
  <2> SUFFICES ASSUME TypeOK, AllSound, [Next]_vars PROVE AllSound'
    OBVIOUS
  <2>1. CASE App
    <3>1. ASSUME NEW x \in Watchers, Close(x) PROVE AllSound'
      <4>1. Of(x) \in SUBSET Id
        BY DEF Of, Live
      <4>2. QED
        BY <3>1, <4>1, RemoveSound DEF Close
    <3>2. QED
      BY <2>1, <3>1, SubscribeSound, UnsubscribeSound DEF App
  <2>2. CASE Network
    <3>1. ASSUME Suspend PROVE AllSound'
      BY <3>1 DEF Suspend, AllSound, Live
    <3>2. QED
      BY <2>2, <3>1, ResponseSound, TransactionFailsSound, RefreshFailsSound,
         NotifyStateSound, NotifyTerminatedSound, DisconnectSound, ActivateSound
         DEF Network
  <2>3. CASE Engine
    BY <2>3, RunLSound, ExpiryFiresSound, RefreshFiresSound DEF Engine
  <2>4. CASE UNCHANGED vars
    BY <2>4 DEF vars, AllSound, Live
  <2>5. QED
    BY <2>1, <2>2, <2>3, <2>4 DEF Next
<1>3. QED
  BY <1>1, <1>2, TypeCorrect, PTL DEF Spec

(* No request waits without a timer that will end the wait.                *)
THEOREM NoInfiniteWait == Spec => []WaitingIsTimed
<1>1. AllSound => WaitingIsTimed
  BY DEF AllSound, Sound, WaitingIsTimed, Timed, Waiting, NoSig
<1>2. QED
  BY <1>1, RequestsSound, PTL

(* No completion is posted to a request that has one posted already.       *)
THEOREM NeverSignalledTwice == Spec => []NoOverrun
<1>1. AllSound => NoOverrun
  BY DEF AllSound, Sound, NoOverrun
<1>2. QED
  BY <1>1, RequestsSound, PTL

-----------------------------------------------------------------------------
(* The counter of subscriptions.  DecreaseNbrSubs is called twice for one  *)
(* request, so the counter may run behind the list of requests; it never   *)
(* runs ahead of it.                                                       *)

LEMMA DecreasedBound ==
  ASSUME nbrSubs \in Nat, NEW k \in Nat, NEW c \in Nat, nbrSubs <= c
  PROVE  /\ Decreased(k) <= c
         /\ k <= c => Decreased(k) <= c - k
BY DEF Decreased

(* A watcher never changes its class. *)
ClassesKept == \A x \in Watchers : w'[x].winfo = w[x].winfo

LEMMA StepsKeepClasses ==
  ASSUME TypeOK, [Next]_vars
  PROVE  ClassesKept
<1>1. ASSUME w' = w PROVE ClassesKept
  BY <1>1 DEF ClassesKept
<1>2. \A x \in Watchers : w[x] \in Watcher
  BY DEF TypeOK
<1>3. CASE App
  <2>1. PICK x \in Watchers :
           \/ \E kind \in Kinds, auto \in Refreshes : Subscribe(x, kind, auto)
           \/ Unsubscribe(x)
           \/ Close(x)
    BY <1>3 DEF App
  <2>2. ASSUME NEW kind \in Kinds, NEW auto \in Refreshes, Subscribe(x, kind, auto)
        PROVE  ClassesKept
    BY <1>2, <2>2 DEF Subscribe, InUse, ClassesKept, TypeOK, Watcher
  <2>3. CASE Unsubscribe(x)
    BY <1>1, <1>2, <2>3 DEF Unsubscribe, AsStop, ClassesKept, TypeOK, Watcher
  <2>4. CASE Close(x)
    BY <1>2, <2>4 DEF Close, NewWatcher, ClassesKept, TypeOK
  <2>5. QED
    BY <2>1, <2>2, <2>3, <2>4
<1>4. CASE Network
  BY <1>1, <1>4 DEF Network, Response, TransactionFails, RefreshFails, NotifyState,
                    NotifyTerminated, Disconnect, Suspend, Activate
<1>5. CASE Engine
  <2>1. PICK id \in Id : RunL(id) \/ ExpiryFires(id) \/ RefreshFires(id)
    BY <1>5 DEF Engine
  <2>2. CASE ExpiryFires(id) \/ RefreshFires(id)
    BY <1>1, <2>2 DEF ExpiryFires, RefreshFires
  <2>3. CASE Destroy(id)
    BY <1>2, <2>3 DEF Destroy, ClassesKept, TypeOK, Watcher
  <2>4. CASE Deliver(id)
    BY <1>2, <2>4 DEF Deliver, Answers, ClassesKept, TypeOK, Watcher
  <2>5. QED
    BY <2>1, <2>2, <2>3, <2>4 DEF RunL
<1>6. CASE UNCHANGED vars
  BY <1>1, <1>6 DEF vars
<1>7. QED
  BY <1>3, <1>4, <1>5, <1>6 DEF Next

(* Then what counts depends on the list alone. *)
LEMMA CountingOfLive ==
  ASSUME ClassesKept
  PROVE  /\ Live' = Live => Counting(Live)' = Counting(Live)
         /\ \A ids \in SUBSET Live :
              Live' = Live \ ids => Counting(Live)' = Counting(Live) \ Counting(ids)
<1>1. \A id \in Id : id[1] \in Watchers
  BY DEF Id
<1>2. Live \subseteq Id /\ Live' \subseteq Id
  BY DEF Live
<1>3. QED
  BY <1>1, <1>2 DEF Counting, ClassesKept

LEMMA SameListCounted ==
  ASSUME CounterBounded, ClassesKept, Live' = Live,
         nbrSubs' <= Cardinality(Counting(Live))
  PROVE  CounterBounded'
BY CountingOfLive DEF CounterBounded

LEMMA SubscribeCounted ==
  ASSUME TypeOK, CounterBounded, ClassesKept, NEW x \in Watchers, NEW kind \in Kinds,
         NEW auto \in Refreshes, Subscribe(x, kind, auto)
  PROVE  CounterBounded'
<1> DEFINE free == {s \in Slots : rq[<<x, s>>] = NoReq}
           slot == CHOOSE s \in free : TRUE
           id == <<x, slot>>
           r == NewRequest(kind, auto, sip = "Active")
<1>1. slot \in free
  BY DEF Subscribe
<1>2. id \in Id /\ id \notin Live /\ id[1] = x
  <2>1. slot \in Slots /\ rq[id] = NoReq
    BY <1>1
  <2> HIDE DEF slot
  <2>2. QED
    BY <2>1 DEF Id, Live
<1>3. kind \in Kind /\ auto \in BOOLEAN
  BY ConstantsAssumption
<1>4. r \in Request
  BY <1>3, NewRequestType
<1>5. /\ Update(id, r)
      /\ nbrSubs' = IF kind = "Winfo" THEN nbrSubs ELSE nbrSubs + 1
      /\ w[x].winfo = (kind = "Winfo")
  BY DEF Subscribe
<1> HIDE DEF id, r
<1>6. \A i \in Id : rq'[i] = IF i = id THEN r ELSE rq[i]
  BY <1>5 DEF Update, TypeOK
<1>7. Live' = Live \cup {id}
  BY <1>2, <1>4, <1>6, NoReqDiffers DEF Live
<1>8. \A i \in Live' : w'[i[1]].winfo = w[i[1]].winfo
  BY DEF ClassesKept, Live, Id
<1>9. Counting(Live)' = Counting(Live) \cup (IF w[x].winfo THEN {} ELSE {id})
  BY <1>2, <1>7, <1>8 DEF Counting
<1>10. IsFiniteSet(Counting(Live)) /\ id \notin Counting(Live)
  BY <1>2, CountingFinite DEF Counting
<1>11. Cardinality(Counting(Live)) \in Nat
  BY CountingFinite
<1>12. CASE w[x].winfo
  <2>1. Counting(Live)' = Counting(Live)
    BY <1>9, <1>12
  <2>2. nbrSubs' = nbrSubs
    BY <1>5, <1>12
  <2>3. QED
    BY <2>1, <2>2 DEF CounterBounded
<1>13. CASE ~w[x].winfo
  <2>1. Counting(Live)' = Counting(Live) \cup {id}
    BY <1>9, <1>13
  <2>2. Cardinality(Counting(Live)') = Cardinality(Counting(Live)) + 1
    BY <2>1, <1>10, FS_AddElement
  <2>3. nbrSubs' = nbrSubs + 1
    BY <1>5, <1>13
  <2>4. QED
    BY <1>11, <2>2, <2>3 DEF CounterBounded, TypeOK
<1>14. QED
  BY <1>12, <1>13

(* Requests that go away take with them what they count for. *)
LEMMA RemoveCounted ==
  ASSUME TypeOK, CounterBounded, ClassesKept, NEW ids \in SUBSET Live, Remove(ids),
         nbrSubs' = Decreased(Cardinality(Counting(ids)))
  PROVE  CounterBounded'
<1> DEFINE all == Counting(Live)
           gone == Counting(ids)
<1>1. Live' = Live \ ids
  BY DEF Remove, Live
<1>2. Counting(Live)' = all \ gone
  BY <1>1, CountingOfLive
<1>3. IsFiniteSet(all) /\ gone \subseteq all
  BY CountingFinite DEF Counting
<1>4. Cardinality(all) \in Nat /\ Cardinality(gone) \in Nat
  BY CountingFinite
<1> HIDE DEF all, gone
<1>5. all \cap gone = gone
  BY <1>3
<1>6. Cardinality(all \ gone) = Cardinality(all) - Cardinality(gone)
  BY <1>3, <1>5, FS_Difference
<1>7. Cardinality(gone) <= Cardinality(all)
  BY <1>3, FS_Subset
<1>8. nbrSubs \in Nat /\ nbrSubs <= Cardinality(all)
  BY DEF CounterBounded, TypeOK, all
<1>9. Decreased(Cardinality(gone)) <= Cardinality(all) - Cardinality(gone)
  BY <1>4, <1>7, <1>8, DecreasedBound
<1>10. QED
  BY <1>2, <1>6, <1>9 DEF CounterBounded, gone

LEMMA CloseCounted ==
  ASSUME TypeOK, CounterBounded, ClassesKept, NEW x \in Watchers, Close(x)
  PROVE  CounterBounded'
<1>1. Of(x) \in SUBSET Live
  BY DEF Of
<1>2. QED
  BY <1>1, RemoveCounted DEF Close

LEMMA RunLCounted ==
  ASSUME TypeOK, CounterBounded, ClassesKept, NEW id \in Id, RunL(id)
  PROVE  CounterBounded'
<1>1. id \in Live
  BY DEF RunL
<1>2. CASE Destroy(id)
  BY <1>1, <1>2, RemoveCounted DEF Destroy
<1>3. CASE Deliver(id)
  <2>1. Live' = Live /\ nbrSubs' \in {nbrSubs, Decreased(Cardinality(Counting({id})))}
    BY <1>1, <1>3, DeliverType
  <2>2. /\ Cardinality(Counting(Live)) \in Nat
        /\ Cardinality(Counting({id})) \in Nat
    BY <1>1, CountingFinite
  <2>3. Decreased(Cardinality(Counting({id}))) <= Cardinality(Counting(Live))
    BY <2>2, DecreasedBound DEF CounterBounded, TypeOK
  <2>4. QED
    BY <2>1, <2>3, SameListCounted DEF CounterBounded
<1>4. QED
  BY <1>2, <1>3 DEF RunL

LEMMA DisconnectCounted ==
  ASSUME TypeOK, NEW state \in SipStates, Disconnect(state)
  PROVE  CounterBounded'
<1>1. Counting(Live)' \subseteq Id
  BY DEF Live, Counting
<1>2. Cardinality(Counting(Live)') \in Nat
  BY <1>1, IdFinite, FS_Subset, FS_CardinalityType
<1>3. nbrSubs' = 0
  BY DEF Disconnect
<1>4. QED
  BY <1>2, <1>3 DEF CounterBounded

(* iCurrentNbrSubs never exceeds the number of presence subscriptions that *)
(* are alive, however often DecreaseNbrSubs is called and whatever the     *)
(* network does: requests that are gone, and requests for watcher info,    *)
(* never use up MaxSubscriptions().                                        *)
THEOREM CounterNeverAhead == Spec => []CounterBounded
<1>1. Init => CounterBounded
  <2>1. Init => Counting(Live) = {}
    BY DEF Init, Live, Counting
  <2>2. QED
    BY <2>1, FS_EmptySet DEF Init, CounterBounded
<1>2. TypeOK /\ CounterBounded /\ [Next]_vars => CounterBounded'
  <2> SUFFICES ASSUME TypeOK, CounterBounded, [Next]_vars PROVE CounterBounded'
    OBVIOUS
  <2>1. ClassesKept
    BY StepsKeepClasses
  <2>2. ASSUME Live' = Live, nbrSubs' = nbrSubs PROVE CounterBounded'
    BY <2>1, <2>2, SameListCounted DEF CounterBounded
  <2>3. CASE App
    BY <2>1, <2>2, <2>3, SubscribeCounted, UnsubscribeType, CloseCounted DEF App
  <2>4. CASE Network
    <3>1. ASSUME Suspend PROVE CounterBounded'
      BY <2>2, <3>1 DEF Suspend, Live
    <3>2. QED
      BY <2>2, <2>4, <3>1, ResponseType, TransactionFailsType, RefreshFailsType,
         NotifyStateType, NotifyTerminatedType, DisconnectCounted, ActivateType
         DEF Network
  <2>5. CASE Engine
    BY <2>1, <2>2, <2>5, RunLCounted, ExpiryFiresType, RefreshFiresType DEF Engine
  <2>6. CASE UNCHANGED vars
    BY <2>2, <2>6 DEF vars, Live
  <2>7. QED
    BY <2>3, <2>4, <2>5, <2>6 DEF Next
<1>3. QED
  BY <1>1, <1>2, TypeCorrect, PTL DEF Spec

-----------------------------------------------------------------------------
(* What has ended stays ended, action by action. *)

LEMMA CompleteStaysEnded ==
  ASSUME NEW r \in Request, NEW status \in Status
  PROVE  StaysEnded(r, Complete(r, status))
<1>1. CASE r.state = "Deleting"
  BY <1>1, PostFields DEF Complete, StaysEnded
<1>2. CASE r.state \in {"Complete", "Failed"}
  <2>1. CASE status \in {"Disconnected", "TimedOut"}
    <3> DEFINE q == [r EXCEPT !.long = FALSE, !.expiry = FALSE, !.refresh = FALSE]
    <3>1. q \in Request
      BY DEF Request
    <3>2. Complete(r, status) = Post(SetReqState(q, "Failed"), status)
      BY <1>2, <2>1 DEF Complete
    <3> HIDE DEF q
    <3>3. SetReqState(q, "Failed") \in Request /\ SetReqState(q, "Failed").state = "Failed"
      BY <3>1, SetReqStateType, SetReqStateFields DEF ReqState
    <3>4. Complete(r, status).state = "Failed"
      BY <3>2, <3>3, PostFields
    <3>5. QED
      BY <1>2, <3>4 DEF StaysEnded, Final
  <2>2. CASE status \notin {"Disconnected", "TimedOut"} /\ r.method = "Notify"
    <3>1. Complete(r, status) = CompleteNotification(r, status)
      BY <1>2, <2>2 DEF Complete
    <3>2. CompleteNotification(r, status).state = r.state
      <4> DEFINE seen == [r EXCEPT !.sub = IF status = "Pend" THEN "Pending"
                                                            ELSE "Active"]
      <4>1. seen \in Request /\ seen.state = r.state
        BY DEF Request
      <4>2. CompleteNotification(r, status) \in {Post(seen, status), Post(r, status)}
        BY <1>2 DEF CompleteNotification
      <4> HIDE DEF seen
      <4>3. QED
        BY <4>1, <4>2, PostFields
    <3>3. QED
      BY <1>2, <3>1, <3>2 DEF StaysEnded, Final
  <2>3. CASE status \notin {"Disconnected", "TimedOut"} /\ r.method # "Notify"
    <3>1. Complete(r, status) = Post(SetReqState(StopTimers(r), "Failed"), status)
      BY <1>2, <2>3 DEF Complete, CompleteSubscription
    <3>2. /\ SetReqState(StopTimers(r), "Failed") \in Request
          /\ SetReqState(StopTimers(r), "Failed").state = "Failed"
      BY StopTimersType, SetReqStateType, SetReqStateFields DEF ReqState
    <3>3. QED
      BY <1>2, <3>1, <3>2, PostFields DEF StaysEnded, Final
  <2>4. QED
    BY <2>1, <2>2, <2>3
<1>3. CASE r.state \notin Final
  BY <1>3 DEF StaysEnded, Final
<1>4. QED
  BY <1>1, <1>2, <1>3 DEF Final

LEMMA UpdateStaysEnded ==
  ASSUME TypeOK, NEW id \in Live, NEW q, Update(id, q), StaysEnded(rq[id], q)
  PROVE  EndedStay
<1>1. \A i \in Live : rq'[i] = IF i = id THEN q ELSE rq[i]
  BY DEF Update, TypeOK, Live
<1>2. \A i \in Live : StaysEnded(rq[i], rq[i])
  BY DEF StaysEnded, Final
<1>3. QED
  BY <1>1, <1>2 DEF EndedStay

(* An event first notes something about the request, in fields that are    *)
(* not its state, and then completes it.                                   *)
LEMMA EventStaysEnded ==
  ASSUME TypeOK, NEW id \in Live, NEW q \in Request, q.state = rq[id].state,
         NEW status \in Status, Update(id, Complete(q, status))
  PROVE  EndedStay
<1>1. StaysEnded(q, Complete(q, status))
  BY CompleteStaysEnded
<1>2. StaysEnded(rq[id], Complete(q, status))
  BY <1>1 DEF StaysEnded
<1>3. QED
  BY <1>2, UpdateStaysEnded

LEMMA SubscribeStaysEnded ==
  ASSUME TypeOK, NEW x \in Watchers, NEW kind, NEW auto, Subscribe(x, kind, auto)
  PROVE  EndedStay
<1> DEFINE free == {s \in Slots : rq[<<x, s>>] = NoReq}
           slot == CHOOSE s \in free : TRUE
           id == <<x, slot>>
<1>1. rq[id] = NoReq /\ Update(id, NewRequest(kind, auto, sip = "Active"))
  BY DEF Subscribe
<1> HIDE DEF id
<1>2. \A i \in Live : rq'[i] = rq[i]
  BY <1>1 DEF Update, TypeOK, Live
<1>3. QED
  BY <1>2 DEF EndedStay, StaysEnded, Final

LEMMA UnsubscribeStaysEnded ==
  ASSUME TypeOK, NEW x \in Watchers, Unsubscribe(x)
  PROVE  EndedStay
<1> DEFINE id == <<x, w[x].iSubsId>>
           r == [rq[id] EXCEPT !.type = "Stop", !.expires = FALSE]
           q == Complete(SetResponseMethod(SetReqState(r, "Stopping"), "Unknown"),
                         "Completion")
           t == [r EXCEPT !.trans = "none"]
           u == [SetReqState(r, "Stopping") EXCEPT
                   !.trans = "unsubscribe", !.expiry = TRUE]
<1>1. id \in Live
  BY DEF Unsubscribe, AsStop
<1>2. \/ Update(id, r)
      \/ r.state \in {"ReTry", "PendingInit", "Pending"} /\ Update(id, q)
      \/ Update(id, t)
      \/ r.state # "Deleting" /\ Update(id, u)
  BY DEF Unsubscribe, AsStop
<1> HIDE DEF id
<1>3. r \in Request /\ r.state = rq[id].state
  BY <1>1, LiveRequest DEF Request, Type
<1> HIDE DEF r
<1>4. StaysEnded(rq[id], r) /\ StaysEnded(rq[id], t)
  <2>1. t.state = r.state
    BY <1>3 DEF Request
  <2>2. QED
    BY <1>3, <2>1 DEF StaysEnded, Final
<1>5. r.state # "Deleting" => StaysEnded(rq[id], u)
  <2>1. /\ SetReqState(r, "Stopping") \in Request
        /\ SetReqState(r, "Stopping").state = "Stopping"
    BY <1>3, SetReqStateType, SetReqStateFields DEF ReqState
  <2>2. u.state = "Stopping"
    BY <2>1 DEF Request
  <2>3. QED
    BY <1>3, <2>2 DEF StaysEnded
<1>6. r.state \in {"ReTry", "PendingInit", "Pending"} => StaysEnded(rq[id], q)
  BY <1>3 DEF StaysEnded
<1> HIDE DEF q, t, u
<1>7. QED
  BY <1>1, <1>2, <1>4, <1>5, <1>6, UpdateStaysEnded

LEMMA RemoveStaysEnded ==
  ASSUME NEW ids, Remove(ids)
  PROVE  EndedStay
<1>1. \A i \in Live : rq'[i] = NoReq \/ rq'[i] = rq[i]
  BY DEF Remove, Live
<1>2. QED
  BY <1>1 DEF EndedStay, StaysEnded, Final

LEMMA DeliverStaysEnded ==
  ASSUME TypeOK, NEW id \in Live, Deliver(id)
  PROVE  EndedStay
<1> DEFINE idle == [rq[id] EXCEPT !.sig = NoSig, !.method = "Unknown"]
           gone == DestroyStart([idle EXCEPT !.type = "DestroyStart"])
<1>1. Update(id, gone) \/ Update(id, idle)
  BY DEF Deliver, Answers
<1>2. idle \in Request /\ idle.state = rq[id].state
  BY LiveRequest DEF Request
<1> HIDE DEF idle
<1>3. gone.state = "Deleting"
  <2>1. [idle EXCEPT !.type = "DestroyStart"] \in Request
    BY <1>2 DEF Request, Type
  <2>2. QED
    BY <2>1, SetReqStateType, SetReqStateFields DEF DestroyStart, Request, ReqState
<1>4. StaysEnded(rq[id], gone) /\ StaysEnded(rq[id], idle)
  BY <1>2, <1>3 DEF StaysEnded, Final
<1> HIDE DEF gone
<1>5. QED
  BY <1>1, <1>4, UpdateStaysEnded

LEMMA ExpiryFiresStaysEnded ==
  ASSUME TypeOK, NEW id \in Id, ExpiryFires(id)
  PROVE  EndedStay
<1> DEFINE q == [rq[id] EXCEPT !.expiry = FALSE]
<1>1. id \in Live /\ Update(id, Complete(q, "TimedOut"))
  BY DEF ExpiryFires
<1>2. q \in Request /\ q.state = rq[id].state
  BY <1>1, LiveRequest DEF Request
<1> HIDE DEF q
<1>3. QED
  BY <1>1, <1>2, EventStaysEnded DEF Status

(* Only a request that waits to retry can be sent again, and an ended one  *)
(* does not: the timer merely completes it.                                *)
LEMMA RefreshFiresStaysEnded ==
  ASSUME TypeOK, NEW id \in Id, RefreshFires(id)
  PROVE  EndedStay
<1> DEFINE fired == [rq[id] EXCEPT !.refresh = FALSE]
           ended == IF fired.auto THEN fired ELSE Complete(fired, "TimedOut")
           r == [ended EXCEPT !.expiry = TRUE]
           recreating == SetReqState(r, "DialogReCre")
           failed == Complete(SetReqState(recreating, "Failed"), "Temp")
<1>1. id \in Live
  BY DEF RefreshFires
<1>2. fired \in Request /\ fired.state = rq[id].state
  BY <1>1, LiveRequest DEF Request
<1>3. \/ Update(id, r)
      \/ /\ r.state \in {"ReTry", "Pending"}
         /\ \E q : Update(id, q)
  BY DEF RefreshFires
<1> HIDE DEF fired
<1>4. ended \in Request /\ StaysEnded(rq[id], ended)
  <2>1. StaysEnded(fired, Complete(fired, "TimedOut"))
    BY <1>2, CompleteStaysEnded DEF Status
  <2>2. Complete(fired, "TimedOut") \in Request
    BY <1>2, CompleteType DEF Status
  <2>3. QED
    BY <1>2, <2>1, <2>2 DEF StaysEnded, Final
<1> HIDE DEF ended
<1>5. r.state = ended.state
  BY <1>4 DEF Request
<1> HIDE DEF r
<1>6. NoReq \notin Request
  BY NoReqDiffers
<1>7. StaysEnded(rq[id], r)
  BY <1>4, <1>5, <1>6 DEF StaysEnded
<1>8. ASSUME NEW q, r.state \in {"ReTry", "Pending"}
      PROVE  StaysEnded(rq[id], q)
  BY <1>4, <1>5, <1>6, <1>8 DEF StaysEnded, Final
<1>9. QED
  BY <1>1, <1>3, <1>7, <1>8, UpdateStaysEnded

(* The events of the network: each notes something and completes. *)
LEMMA TransactionStaysEnded ==
  ASSUME TypeOK, NEW id \in Live, NEW status \in Status, NEW m \in {"Unknown", "Status"},
         Update(id, Complete(SetResponseMethod(AfterResponse(rq[id], status), m), status))
  PROVE  EndedStay
<1>1. rq[id] \in Request
  BY LiveRequest
<1>2. /\ AfterResponse(rq[id], status) \in Request
      /\ AfterResponse(rq[id], status).state = rq[id].state
  BY <1>1, AfterResponseType, AfterResponseFields
<1>3. m \in {"Unknown", "Status", "Notify"}
  OBVIOUS
<1>4. /\ SetResponseMethod(AfterResponse(rq[id], status), m) \in Request
      /\ SetResponseMethod(AfterResponse(rq[id], status), m).state = rq[id].state
  BY <1>2, <1>3, SetResponseMethodType, SetResponseMethodFields
<1>5. QED
  BY <1>4, EventStaysEnded

LEMMA ResponseStaysEnded ==
  ASSUME TypeOK, NEW id \in Id, NEW status \in ResponseStatus, Response(id, status)
  PROVE  EndedStay
<1>1. id \in Live /\ status \in Status
  BY DEF Response, ResponseStatus, Status
<1>2. QED
  BY <1>1, TransactionStaysEnded DEF Response

LEMMA TransactionFailsStaysEnded ==
  ASSUME TypeOK, NEW id \in Id, NEW status \in {"Temp", "Error"},
         TransactionFails(id, status)
  PROVE  EndedStay
<1>1. id \in Live /\ status \in Status
  BY DEF TransactionFails, Status
<1>2. QED
  BY <1>1, TransactionStaysEnded DEF TransactionFails

LEMMA RefreshFailsStaysEnded ==
  ASSUME TypeOK, NEW id \in Id, NEW status \in {"Temp", "Error"},
         NEW long \in BOOLEAN, RefreshFails(id, status, long)
  PROVE  EndedStay
<1> DEFINE dead == [rq[id] EXCEPT !.dialog = "dead", !.long = long]
           q == SetResponseMethod(dead, "Unknown")
<1>1. id \in Live /\ status \in Status
  BY DEF RefreshFails, Status
<1>2. dead \in Request /\ dead.state = rq[id].state
  BY <1>1, LiveRequest DEF Request
<1>3. Update(id, Complete(q, status))
  BY DEF RefreshFails
<1> HIDE DEF dead
<1>4. q \in Request /\ q.state = rq[id].state
  BY <1>2, SetResponseMethodType, SetResponseMethodFields
<1> HIDE DEF q
<1>5. QED
  BY <1>1, <1>3, <1>4, EventStaysEnded

LEMMA NotifyStateStaysEnded ==
  ASSUME TypeOK, NEW id \in Id, NEW status \in Accepted, NotifyState(id, status)
  PROVE  EndedStay
<1> DEFINE m == SetResponseMethod(rq[id], "Notify")
           q == [m EXCEPT !.errs = 0]
<1>1. id \in Live /\ status \in Status
  BY DEF NotifyState, CanNotify, Accepted, Status
<1>2. Update(id, Complete(q, status))
  BY DEF NotifyState
<1>3. m \in Request /\ m.state = rq[id].state
  BY <1>1, LiveRequest, SetResponseMethodType, SetResponseMethodFields
<1> HIDE DEF m
<1>4. q \in Request /\ q.state = rq[id].state
  BY <1>3 DEF Request
<1> HIDE DEF q
<1>5. QED
  BY <1>1, <1>2, <1>4, EventStaysEnded

LEMMA NotifyTerminatedStaysEnded ==
  ASSUME TypeOK, NEW id \in Id, NEW permanent \in BOOLEAN, NEW long \in BOOLEAN,
         NotifyTerminated(id, permanent, long)
  PROVE  EndedStay
<1> DEFINE n == IF rq[id].errs < 2 THEN rq[id].errs + 1 ELSE 2
           m == SetResponseMethod(rq[id], "Notify")
           q == [m EXCEPT !.errs = n, !.long = long, !.dialog = "dead"]
<1>1. id \in Live
  BY DEF NotifyTerminated, CanNotify
<1>2. Update(id, Complete(q, "Completion")) \/ Update(id, Complete(q, "Temp"))
  BY DEF NotifyTerminated
<1>3. n \in 0..2
  BY <1>1, LiveRequest DEF Request
<1>4. m \in Request /\ m.state = rq[id].state
  BY <1>1, LiveRequest, SetResponseMethodType, SetResponseMethodFields
<1> HIDE DEF n, m
<1>5. q \in Request /\ q.state = rq[id].state
  BY <1>3, <1>4 DEF Request
<1> HIDE DEF q
<1>6. "Completion" \in Status /\ "Temp" \in Status
  BY DEF Status
<1>7. QED
  BY <1>1, <1>2, <1>5, <1>6, EventStaysEnded

LEMMA DisconnectStaysEnded ==
  ASSUME TypeOK, NEW state \in SipStates, Disconnect(state)
  PROVE  EndedStay
<1> DEFINE mid(r) == [r EXCEPT !.trans = "none",
                               !.dialog = IF @ = "none" THEN @ ELSE "dead"]
           lost(r) == SetResponseMethod(mid(r), "Unknown")
<1>1. ASSUME NEW r \in Request
      PROVE  StaysEnded(r, Complete(lost(r), "Disconnected"))
  <2>1. mid(r) \in Request /\ mid(r).state = r.state
    BY DEF Request
  <2> HIDE DEF mid
  <2>2. lost(r) \in Request /\ lost(r).state = r.state
    BY <2>1, SetResponseMethodType, SetResponseMethodFields
  <2>3. StaysEnded(lost(r), Complete(lost(r), "Disconnected"))
    BY <2>2, CompleteStaysEnded DEF Status
  <2>4. QED
    BY <2>2, <2>3 DEF StaysEnded
<1>2. rq' = [id \in Id |-> IF id \in Live THEN Complete(lost(rq[id]), "Disconnected")
                                          ELSE NoReq]
  BY DEF Disconnect
<1> HIDE DEF lost
<1>3. QED
  BY <1>1, <1>2, LiveRequest DEF EndedStay

LEMMA ActivateStaysEnded ==
  ASSUME TypeOK, Activate
  PROVE  EndedStay
<1>1. ASSUME NEW id \in Live PROVE StaysEnded(rq[id], rq'[id])
  <2>1. CASE rq'[id] = rq[id]
    BY <2>1 DEF StaysEnded, Final
  <2>2. CASE WaitsForNetwork(id)
    <3>1. rq[id].state \in {"PendingInit", "Pending"}
      BY <2>2 DEF WaitsForNetwork
    <3>2. QED
      BY <3>1 DEF StaysEnded
  <2>3. QED
    BY <2>1, <2>2, LiveRequest, ActivateStep
<1>2. QED
  BY <1>1 DEF EndedStay

(* What has ended stays ended, in every step: a late response, a NOTIFY, a *)
(* timer of its own or the network's return never makes a completed,       *)
(* failed or deleted request of CSimpleRequest live again; the only thing  *)
(* that can still be sent for it is an unsubscription.                     *)
THEOREM EndedNeverRevived == Spec => NeverRevived
<1>1. TypeOK /\ [Next]_vars => [EndedStay]_vars
  <2> SUFFICES ASSUME TypeOK, Next PROVE EndedStay
    OBVIOUS
  <2>1. CASE App
    BY <2>1, SubscribeStaysEnded, UnsubscribeStaysEnded, RemoveStaysEnded
       DEF App, Close
  <2>2. CASE Network
    <3>1. ASSUME Suspend PROVE EndedStay
      BY <3>1 DEF Suspend, EndedStay, StaysEnded, Final
    <3>2. QED
      BY <2>2, <3>1, ResponseStaysEnded, TransactionFailsStaysEnded,
         RefreshFailsStaysEnded, NotifyStateStaysEnded, NotifyTerminatedStaysEnded,
         DisconnectStaysEnded, ActivateStaysEnded DEF Network
  <2>3. CASE Engine
    <3>1. ASSUME NEW id \in Id, RunL(id) PROVE EndedStay
      BY <3>1, RemoveStaysEnded, DeliverStaysEnded DEF RunL, Destroy
    <3>2. QED
      BY <2>3, <3>1, ExpiryFiresStaysEnded, RefreshFiresStaysEnded DEF Engine
  <2>4. QED
    BY <2>1, <2>2, <2>3 DEF Next
<1>2. QED
  BY <1>1, TypeCorrect, PTL DEF Spec, NeverRevived

-----------------------------------------------------------------------------
(* One request at a time, and the watcher knows which.  What the four      *)
(* invariants about the application rest on: a watcher has at most one     *)
(* request that is not being deleted, and that request, the counters of    *)
(* the watcher and what the application has been told fit together.        *)

Current(x) == {id \in Of(x) : rq[id].state # "Deleting"}

(* iResCount once the posted completion, if there is one, is delivered. *)
Delivered(u, r) ==
  IF r.sig = NoSig THEN u.iResCount
  ELSE Counted(u.iResCount, r.method = "Notify", IF r.sig = "Pend" THEN "OK" ELSE r.sig)

Open(r) == r.dialog = "open" /\ r.trans = "none"

(* The request as it is while the application waits for its answer,        *)
Starting(a, r) ==
  /\ a = "asked" /\ r.type # "Stop" /\ r.sig = NoSig
  /\ \/ r.state = "PendingInit" /\ r.trans = "none"
     \/ /\ r.state = "RunningInit" /\ r.trans = "subscribe"
        /\ r.dialog \in {"open", "kept"}
(* when the answer is posted,                                              *)
Begun(a, r) ==
  /\ a = "asked" /\ r.type # "Stop" /\ r.sig \in Accepted /\ r.method = "Status"
  /\ r.state = IF r.type = "Get" THEN "Complete" ELSE "ActiveSubs"
  /\ r.type = "Get" => Open(r)
(* while the application is subscribed, with a NOTIFY posted or nothing,   *)
On(a, r) ==
  /\ a = "on" /\ r.type \notin {"Stop", "Get"} /\ r.state \in Established
  /\ r.state = "DialogReCre" => r.trans = "subscribe"
  /\ r.sig # NoSig =>
       r.state = "ActiveSubs" /\ r.sig \in Accepted /\ r.method = "Notify"
(* while the NOTIFY of an answered fetch may still come,                   *)
Fetching(a, r) ==
  /\ a = "idle" /\ r.type = "Get" /\ r.state = "Complete" /\ Open(r)
  /\ r.sig # NoSig => r.sig \in Accepted /\ r.method = "Notify"
(* while the end of the subscription is awaited, when the responses that   *)
(* the request has counted are not ahead of the watcher's count,           *)
Ceasing(u, r) ==
  r.type = "Stop" /\ r.state = "Stopping" /\ r.resps <= Delivered(u, r)
(* and when it has ended: the completion that is posted is the last one.   *)
Ended(u, r) ==
  r.state \in {"Complete", "Failed"} /\ r.sig # NoSig /\ Delivered(u, r) = 2

Phase(a, u, r) ==
  Starting(a, r) \/ Begun(a, r) \/ On(a, r) \/ Fetching(a, r) \/ Ceasing(u, r)
    \/ Ended(u, r)

Unanswered(a, u) == a = "asked" /\ u.iResCount = 0 /\ u.iComplete = FALSE
Answered(a, u, b) == a = b /\ u.iResCount = 1 /\ u.iComplete = TRUE

(* Where the application and the watcher stand with the request, by its    *)
(* type.                                                                   *)
Standing(a, u, r) ==
  /\ u.iRequest = r.type
  /\ r.type = "Stop" => a = "stopping" /\ u.iResCount < 2 /\ u.iComplete = FALSE
  /\ r.type = "Get" => Unanswered(a, u) \/ Answered(a, u, "idle")
  /\ r.type \notin {"Stop", "Get"} => Unanswered(a, u) \/ Answered(a, u, "on")

(* What can be said of the request alone: no NOTIFY is forgotten, nothing  *)
(* is counted before it stops, and a fetch is never stopped or refreshed.  *)
Regular(r) ==
  /\ r.type # "DestroyStart"
  /\ r.sig = NoSig => r.method # "Notify"
  /\ r.type # "Stop" => r.kind = r.type /\ r.resps = 0
  /\ r.kind = "Get" => r.type = "Get" /\ r.dialog # "kept" /\ r.expires = FALSE

Serves(a, u, r) ==
  /\ Standing(a, u, r)
  /\ Regular(r)
  /\ Phase(a, u, r)

Served(x) ==
  /\ \A id \in Of(x) : rq[id].state = "Deleting" <=> rq[id].type = "DestroyStart"
  /\ w[x].iSubsId # 0 => <<x, w[x].iSubsId>> \in Live
  /\ w[x].iRequest = "None" => app[x] = "idle" /\ w[x].iComplete = FALSE
  /\ w[x].iRequest # "None" => Current(x) # {}
  /\ \A id \in Current(x) :
       /\ Current(x) = {id}
       /\ Serves(app[x], w[x], rq[id])
       /\ (w[x].iSubsId = id[2]) <=> (w[x].iRequest # "Get")

AllServed == \A x \in Watchers : Served(x)

(* What the invariant says of a request in use, and of its watcher. *)
LEMMA InUseServes ==
  ASSUME AllServed, NEW id \in Live, rq[id].state # "Deleting", id[1] \in Watchers
  PROVE  /\ Serves(app[id[1]], w[id[1]], rq[id])
         /\ Current(id[1]) = {id}
         /\ rq[id].type # "DestroyStart"
         /\ (w[id[1]].iSubsId = id[2]) <=> (w[id[1]].iRequest # "Get")
<1>1. id \in Current(id[1])
  BY DEF Current, Of
<1>2. Served(id[1])
  BY DEF AllServed
<1>3. /\ Serves(app[id[1]], w[id[1]], rq[id]) /\ Current(id[1]) = {id}
      /\ (w[id[1]].iSubsId = id[2]) <=> (w[id[1]].iRequest # "Get")
  BY <1>1, <1>2 DEF Served
<1>4. QED
  BY <1>3 DEF Serves, Regular

LEMMA InUseCurrent ==
  ASSUME AllServed, NEW x \in Watchers, w[x].iRequest # "None"
  PROVE  \E id \in Of(x) : /\ id \in Live /\ id[1] = x /\ rq[id].state # "Deleting"
                           /\ Serves(app[x], w[x], rq[id])
<1>1. PICK id \in Current(x) : TRUE
  BY DEF AllServed, Served
<1>2. id \in Of(x) /\ rq[id].state # "Deleting"
  BY DEF Current
<1>3. id \in Live /\ id[1] = x
  BY <1>2 DEF Of
<1>4. QED
  BY <1>2, <1>3, InUseServes

LEMMA ServedTold ==
  ASSUME AllServed PROVE ToldOnIsOn
<1> SUFFICES ASSUME Quiet, NEW x \in Watchers, app[x] = "on"
             PROVE  \E id \in Of(x) : rq[id].state \in Established
  BY DEF ToldOnIsOn
<1>1. w[x].iRequest # "None"
  BY DEF AllServed, Served
<1>2. PICK id \in Of(x) : id \in Live /\ Serves(app[x], w[x], rq[id])
  BY <1>1, InUseCurrent
<1>3. rq[id].sig = NoSig
  BY <1>2 DEF Quiet
<1>4. ~Starting(app[x], rq[id]) /\ ~Begun(app[x], rq[id]) /\ ~Fetching(app[x], rq[id])
      /\ ~Ended(w[x], rq[id])
  BY <1>3 DEF Starting, Begun, Fetching, Ended
<1>5. ~Ceasing(w[x], rq[id])
  BY <1>2 DEF Ceasing, Serves, Standing
<1>6. On(app[x], rq[id])
  BY <1>2, <1>4, <1>5 DEF Serves, Phase
<1>7. QED
  BY <1>6 DEF On

LEMMA ServedNoOrphan ==
  ASSUME TypeOK, AllServed PROVE NoOrphan
<1> SUFFICES ASSUME Quiet, NEW id \in Live, rq[id].state \in Established
             PROVE  app[id[1]] \in {"on", "stopping"}
  BY DEF NoOrphan
<1> DEFINE a == app[id[1]]
           u == w[id[1]]
           r == rq[id]
<1>1. r.sig = NoSig /\ r.state \in Established /\ r.state # "Deleting"
  BY DEF Quiet, Established
<1>2. id[1] \in Watchers
  <2>1. id \in Watchers \X Slots
    BY LiveRequest DEF Id
  <2>2. QED
    BY <2>1
<1>3. Serves(a, u, r)
  BY <1>1, <1>2, InUseServes
<1> HIDE DEF a, u, r
<1>4. ~Starting(a, r) /\ ~Begun(a, r) /\ ~Fetching(a, r) /\ ~Ended(u, r) /\ ~Ceasing(u, r)
  BY <1>1 DEF Starting, Begun, Fetching, Ended, Ceasing, Established, Accepted, NoSig
<1>5. On(a, r)
  BY <1>3, <1>4 DEF Serves, Phase
<1>6. QED
  BY <1>5 DEF On, a

LEMMA ServedTimed ==
  ASSUME TypeOK, AllSound, AllServed PROVE AppWaitIsTimed
<1> SUFFICES ASSUME NEW x \in Watchers, app[x] \in {"asked", "stopping"}
             PROVE  \E id \in Of(x) : rq[id].expiry \/ rq[id].sig # NoSig
  BY DEF AppWaitIsTimed
<1>1. w[x].iRequest # "None"
  BY DEF AllServed, Served
<1>2. PICK id \in Of(x) : /\ id \in Live /\ rq[id].state # "Deleting"
                          /\ Serves(app[x], w[x], rq[id])
  BY <1>1, InUseCurrent
<1>3. Sound(rq[id])
  BY <1>2 DEF AllSound
<1>4. SUFFICES ASSUME rq[id].sig = NoSig
               PROVE  rq[id].expiry
  BY <1>2
<1>5. ~Begun(app[x], rq[id]) /\ ~Ended(w[x], rq[id])
  BY <1>4 DEF Begun, Ended, Accepted, NoSig
<1>6. ~On(app[x], rq[id]) /\ ~Fetching(app[x], rq[id])
  BY DEF On, Fetching
<1>7. rq[id].state \in {"PendingInit", "RunningInit", "Stopping"}
  BY <1>2, <1>5, <1>6 DEF Serves, Phase, Starting, Ceasing
<1>8. QED
  BY <1>3, <1>7 DEF Sound, Waiting

LEMMA ServedNeverStuck ==
  ASSUME TypeOK, AllServed PROVE NeverStuck
<1> SUFFICES ASSUME NEW x \in Watchers, w[x].iRequest # "None"
             PROVE  \E id \in Of(x) : ~Abandoned(rq[id])
  BY DEF NeverStuck
<1>1. PICK id \in Of(x) : Serves(app[x], w[x], rq[id])
  BY InUseCurrent
<1>2. SUFFICES ASSUME Abandoned(rq[id]) PROVE FALSE
  OBVIOUS
<1>3. /\ rq[id].state \in {"Complete", "Failed"} /\ rq[id].sig = NoSig
      /\ rq[id].dialog # "open"
  BY <1>2 DEF Abandoned
<1>4. /\ ~Starting(app[x], rq[id]) /\ ~Begun(app[x], rq[id]) /\ ~On(app[x], rq[id])
      /\ ~Fetching(app[x], rq[id]) /\ ~Ceasing(w[x], rq[id]) /\ ~Ended(w[x], rq[id])
  BY <1>3 DEF Starting, Begun, On, Fetching, Ceasing, Ended, Established, Open,
              Accepted, NoSig
<1>5. QED
  BY <1>1, <1>4 DEF Serves, Phase

-----------------------------------------------------------------------------
(* What a completion does to the request, the fields the phases read.      *)

Alike(r, q) ==
  /\ q.type = r.type /\ q.kind = r.kind /\ q.resps = r.resps
  /\ q.auto = r.auto /\ q.expires = r.expires
  /\ q.trans = r.trans /\ q.method = r.method

LEMMA PostAlike ==
  ASSUME NEW r \in Request, NEW status \in Status, r.sig = NoSig
  PROVE  /\ Post(r, status) \in Request /\ Alike(r, Post(r, status))
         /\ Post(r, status).state = r.state
         /\ Post(r, status).dialog = r.dialog
         /\ Post(r, status).sig = status
<1>1. Alike(r, Post(r, status))
  BY DEF Post, Request, Alike
<1>2. QED
  BY <1>1, PostType, PostFields

LEMMA SetReqStateAlike ==
  ASSUME NEW r \in Request, NEW s \in ReqState
  PROVE  /\ SetReqState(r, s) \in Request /\ Alike(r, SetReqState(r, s))
         /\ SetReqState(r, s).state = s
         /\ SetReqState(r, s).dialog = r.dialog
         /\ SetReqState(r, s).sig = r.sig
<1>1. Alike(r, SetReqState(r, s))
  BY DEF SetReqState, Request, Alike
<1>2. QED
  BY <1>1, SetReqStateType, SetReqStateFields

LEMMA EndAlike ==
  ASSUME NEW r \in Request, NEW s \in {"Complete", "Failed", "ActiveSubs"},
         NEW status \in Status, r.sig = NoSig
  PROVE  LET q == Post(SetReqState(r, s), status) IN
         /\ q \in Request /\ Alike(r, q) /\ q.state = s /\ q.dialog = r.dialog
         /\ q.sig = status
<1>1. s \in ReqState
  BY DEF ReqState
<1> DEFINE p == SetReqState(r, s)
<1>2. p \in Request /\ Alike(r, p) /\ p.state = s /\ p.dialog = r.dialog /\ p.sig = NoSig
  BY <1>1, SetReqStateAlike
<1> HIDE DEF p
<1>3. /\ Post(p, status) \in Request /\ Alike(p, Post(p, status))
      /\ Post(p, status).state = s /\ Post(p, status).dialog = r.dialog
      /\ Post(p, status).sig = status
  BY <1>2, PostAlike
<1>4. Alike(r, Post(p, status))
  BY <1>2, <1>3 DEF Alike
<1>5. QED
  BY <1>3, <1>4 DEF p

LEMMA StopTimersAlike ==
  ASSUME NEW r \in Request
  PROVE  /\ StopTimers(r) \in Request /\ Alike(r, StopTimers(r))
         /\ StopTimers(r).state = r.state
         /\ StopTimers(r).dialog = r.dialog
         /\ StopTimers(r).sig = r.sig
         /\ StopTimers(r).long = r.long
<1>1. Alike(r, StopTimers(r)) /\ StopTimers(r).long = r.long
  BY DEF StopTimers, Request, Alike
<1>2. QED
  BY <1>1, StopTimersType, StopTimersFields

LEMMA RetryLaterAlike ==
  ASSUME NEW r \in Request, r.sig = NoSig
  PROVE  LET q == RetryLater(r) IN
         /\ q \in Request /\ Alike(r, q) /\ q.dialog = r.dialog
         /\ \/ q.state = "Failed" /\ q.sig = "Completion"
            \/ q.state = "ReTry" /\ q.sig = NoSig
<1> DEFINE p == SetReqState(r, "ReTry")
           q == [p EXCEPT !.refresh = TRUE]
           f == Post(SetReqState(r, "Failed"), "Completion")
<1>1. /\ p \in Request /\ Alike(r, p) /\ p.state = "ReTry" /\ p.dialog = r.dialog
      /\ p.sig = NoSig
  BY SetReqStateAlike DEF ReqState
<1> HIDE DEF p
<1>2. /\ q \in Request /\ Alike(r, q) /\ q.dialog = r.dialog
      /\ q.state = "ReTry" /\ q.sig = NoSig
  BY <1>1 DEF Request, Alike
<1>3. /\ f \in Request /\ Alike(r, f) /\ f.dialog = r.dialog
      /\ f.state = "Failed" /\ f.sig = "Completion"
  <2>1. "Completion" \in Status
    BY DEF Status
  <2>2. QED
    BY <2>1, EndAlike
<1>4. RetryLater(r) = IF r.long THEN f ELSE q
  BY DEF RetryLater, p
<1> HIDE DEF q, f
<1>5. QED
  BY <1>2, <1>3, <1>4

(* A request that gives up. *)
LEMMA CompleteEnds ==
  ASSUME NEW r \in Request, NEW status \in {"Disconnected", "TimedOut"},
         r.sig = NoSig, r.state # "Deleting"
  PROVE  LET q == Complete(r, status) IN
         /\ q \in Request /\ Alike(r, q) /\ q.state = "Failed" /\ q.dialog = r.dialog
         /\ q.sig = status
<1> DEFINE p == [r EXCEPT !.long = FALSE, !.expiry = FALSE, !.refresh = FALSE]
           q == Post(SetReqState(p, "Failed"), status)
<1>1. p \in Request /\ Alike(r, p) /\ p.sig = NoSig /\ p.dialog = r.dialog
  BY DEF Request, Alike
<1>2. Complete(r, status) = q
  BY DEF Complete
<1> HIDE DEF p
<1>3. /\ q \in Request /\ Alike(p, q) /\ q.state = "Failed" /\ q.dialog = p.dialog
      /\ q.sig = status
  BY <1>1, EndAlike DEF Status
<1> HIDE DEF q
<1>4. Alike(r, q)
  BY <1>1, <1>3 DEF Alike
<1>5. QED
  BY <1>1, <1>2, <1>3, <1>4

(* A completion that is not about a NOTIFY, by the state it meets. *)
Early == Status \ {"Disconnected", "TimedOut"}

LEMMA CompleteIsSubscription ==
  ASSUME NEW r \in Request, NEW status \in Early, r.state # "Deleting",
         r.method # "Notify"
  PROVE  Complete(r, status) = CompleteSubscription(r, status)
BY DEF Complete, Early

LEMMA CompleteIsNotification ==
  ASSUME NEW r \in Request, NEW status \in Early, r.state # "Deleting",
         r.method = "Notify"
  PROVE  Complete(r, status) = CompleteNotification(r, status)
BY DEF Complete, Early

LEMMA CompleteStarting ==
  ASSUME NEW r \in Request, NEW status \in Early, r.method # "Notify",
         r.sig = NoSig, r.state = "RunningInit"
  PROVE  LET q == Complete(r, status) IN
         /\ q \in Request /\ Alike(r, q) /\ q.dialog = r.dialog /\ q.sig = status
         /\ q.state = IF status \notin Accepted THEN "Failed"
                      ELSE IF r.kind = "Get" THEN "Complete" ELSE "ActiveSubs"
<1> DEFINE q == StopTimers(r)
           p == [q EXCEPT !.sub = IF status = "Pend" THEN "Pending" ELSE @]
           f == Post(SetReqState(q, "Failed"), status)
           c == Post(SetReqState(q, "Complete"), status)
           s == Post(SetReqState(p, "ActiveSubs"), status)
<1>1. q \in Request /\ Alike(r, q) /\ q.dialog = r.dialog /\ q.sig = NoSig
  BY StopTimersAlike
<1> HIDE DEF q
<1>2. p \in Request /\ Alike(q, p) /\ p.dialog = q.dialog /\ p.sig = NoSig
  BY <1>1 DEF Request, Alike
<1> HIDE DEF p
<1>3. status \in Status
  BY DEF Early
<1>4. /\ f \in Request /\ Alike(q, f) /\ f.state = "Failed" /\ f.dialog = q.dialog
      /\ f.sig = status
  BY <1>1, <1>3, EndAlike
<1>5. /\ c \in Request /\ Alike(q, c) /\ c.state = "Complete" /\ c.dialog = q.dialog
      /\ c.sig = status
  BY <1>1, <1>3, EndAlike
<1>6. /\ s \in Request /\ Alike(p, s) /\ s.state = "ActiveSubs" /\ s.dialog = p.dialog
      /\ s.sig = status
  BY <1>2, <1>3, EndAlike
<1>7. /\ status \notin Accepted => CompleteSubscription(r, status) = f
      /\ status \in Accepted /\ r.kind = "Get" => CompleteSubscription(r, status) = c
      /\ status \in Accepted /\ r.kind # "Get" => CompleteSubscription(r, status) = s
  BY DEF CompleteSubscription, q, p, f, c, s
<1> HIDE DEF f, c, s
<1>8. Alike(r, f) /\ Alike(r, c) /\ Alike(r, s)
  BY <1>1, <1>2, <1>4, <1>5, <1>6 DEF Alike
<1>9. Complete(r, status) = CompleteSubscription(r, status)
  BY CompleteIsSubscription
<1>10. QED
  BY <1>1, <1>2, <1>4, <1>5, <1>6, <1>7, <1>8, <1>9

LEMMA CompleteActive ==
  ASSUME NEW r \in Request, NEW status \in Early, r.method # "Notify",
         r.sig = NoSig, r.state = "ActiveSubs"
  PROVE  LET q == Complete(r, status) IN
         /\ q \in Request /\ Alike(r, q) /\ q.dialog = r.dialog
         /\ \/ q.state = "Failed" /\ q.sig = "Completion"
            \/ q.state = "ReTry" /\ q.sig = NoSig
<1> DEFINE p == StopTimers(r)
           q == RetryLater(p)
<1>1. p \in Request /\ Alike(r, p) /\ p.dialog = r.dialog /\ p.sig = NoSig
  BY StopTimersAlike
<1> HIDE DEF p
<1>2. /\ q \in Request /\ Alike(p, q) /\ q.dialog = p.dialog
      /\ \/ q.state = "Failed" /\ q.sig = "Completion"
         \/ q.state = "ReTry" /\ q.sig = NoSig
  BY <1>1, RetryLaterAlike
<1>3. CompleteSubscription(r, status) = q
  BY DEF CompleteSubscription, p
<1> HIDE DEF q
<1>4. Alike(r, q)
  BY <1>1, <1>2 DEF Alike
<1>5. Complete(r, status) = CompleteSubscription(r, status)
  BY CompleteIsSubscription
<1>6. QED
  BY <1>1, <1>2, <1>3, <1>4, <1>5

LEMMA CompleteStopping ==
  ASSUME NEW r \in Request, NEW status \in Early, r.method # "Notify",
         r.sig = NoSig, r.state = "Stopping"
  PROVE  LET q == Complete(r, status) IN
         /\ q \in Request /\ q.type = r.type /\ q.kind = r.kind
         /\ q.auto = r.auto /\ q.expires = r.expires
         /\ q.trans = r.trans /\ q.method = r.method /\ q.dialog = r.dialog
         /\ q.sig = status
         /\ q.state = IF status \notin Accepted \/ r.resps = 1 THEN "Complete"
                                                              ELSE "Stopping"
         /\ q.resps = IF r.resps < 3 THEN r.resps + 1 ELSE 3
<1> DEFINE p == StopTimers(r)
           n == IF r.resps < 3 THEN r.resps + 1 ELSE 3
           e == SetReqState(p, "Complete")
           c == [e EXCEPT !.resps = n, !.expiry = FALSE]
           m == [p EXCEPT !.resps = n]
<1>1. /\ p \in Request /\ Alike(r, p) /\ p.dialog = r.dialog /\ p.sig = NoSig
      /\ p.state = "Stopping"
  BY StopTimersAlike
<1> HIDE DEF p
<1>2. n \in 0..3 /\ status \in Status
  BY DEF Request, Early
<1> HIDE DEF n
<1>3. /\ e \in Request /\ Alike(p, e) /\ e.dialog = p.dialog /\ e.sig = NoSig
      /\ e.state = "Complete"
  BY <1>1, SetReqStateAlike DEF ReqState
<1> HIDE DEF e
<1>4. /\ c \in Request /\ c.type = e.type /\ c.kind = e.kind /\ c.auto = e.auto
      /\ c.expires = e.expires
      /\ c.trans = e.trans /\ c.method = e.method /\ c.dialog = e.dialog
      /\ c.state = "Complete" /\ c.resps = n /\ c.sig = NoSig
  BY <1>2, <1>3 DEF Request
<1>5. /\ m \in Request /\ m.type = p.type /\ m.kind = p.kind /\ m.auto = p.auto
      /\ m.expires = p.expires
      /\ m.trans = p.trans /\ m.method = p.method /\ m.dialog = p.dialog
      /\ m.state = "Stopping" /\ m.resps = n /\ m.sig = NoSig
  BY <1>1, <1>2 DEF Request
<1> HIDE DEF c, m
<1>6. /\ Post(c, status) \in Request /\ Alike(c, Post(c, status))
      /\ Post(c, status).dialog = c.dialog /\ Post(c, status).state = "Complete"
      /\ Post(c, status).sig = status
  BY <1>2, <1>4, PostAlike
<1>7. /\ Post(m, status) \in Request /\ Alike(m, Post(m, status))
      /\ Post(m, status).dialog = m.dialog /\ Post(m, status).state = "Stopping"
      /\ Post(m, status).sig = status
  BY <1>2, <1>5, PostAlike
<1>8. CompleteSubscription(r, status) =
        Post(IF status \notin Accepted \/ r.resps = 1 THEN c ELSE m, status)
  BY DEF CompleteSubscription, p, n, e, c, m
<1>9. Complete(r, status) = CompleteSubscription(r, status)
  BY CompleteIsSubscription
<1>10. CASE status \notin Accepted \/ r.resps = 1
  BY <1>1, <1>3, <1>4, <1>6, <1>8, <1>9, <1>10 DEF Alike, n
<1>11. CASE ~(status \notin Accepted \/ r.resps = 1)
  BY <1>1, <1>5, <1>7, <1>8, <1>9, <1>11 DEF Alike, n
<1>12. QED
  BY <1>10, <1>11

LEMMA CompleteRecreated ==
  ASSUME NEW r \in Request, r.method # "Notify",
         r.sig = NoSig, r.state = "DialogReCre"
  PROVE  LET q == Complete(r, "OK") IN
         /\ q \in Request /\ Alike(r, q) /\ q.dialog = r.dialog
         /\ q.state = "ActiveSubs" /\ q.sig = NoSig
<1> DEFINE p == StopTimers(r)
           q == SetReqState(p, "ActiveSubs")
<1>1. p \in Request /\ Alike(r, p) /\ p.dialog = r.dialog /\ p.sig = NoSig
  BY StopTimersAlike
<1> HIDE DEF p
<1>2. /\ q \in Request /\ Alike(p, q) /\ q.dialog = p.dialog
      /\ q.state = "ActiveSubs" /\ q.sig = NoSig
  BY <1>1, SetReqStateAlike DEF ReqState
<1>3. CompleteSubscription(r, "OK") = q
  BY DEF CompleteSubscription, p
<1> HIDE DEF q
<1>4. Alike(r, q)
  BY <1>1, <1>2 DEF Alike
<1>5. "OK" \in Early /\ r.state # "Deleting"
  BY DEF Early, Status
<1>6. Complete(r, "OK") = CompleteSubscription(r, "OK")
  BY <1>5, CompleteIsSubscription
<1>7. QED
  BY <1>1, <1>2, <1>3, <1>4, <1>6

LEMMA CompleteOther ==
  ASSUME NEW r \in Request, NEW status \in Early, r.method # "Notify", r.sig = NoSig,
         r.state \notin {"RunningInit", "ActiveSubs", "Stopping", "Deleting"},
         r.state = "DialogReCre" => status # "OK"
  PROVE  LET q == Complete(r, status) IN
         /\ q \in Request /\ Alike(r, q) /\ q.dialog = r.dialog
         /\ q.state = "Failed" /\ q.sig = status
<1> DEFINE p == StopTimers(r)
           q == Post(SetReqState(p, "Failed"), status)
<1>1. p \in Request /\ Alike(r, p) /\ p.dialog = r.dialog /\ p.sig = NoSig
  BY StopTimersAlike
<1> HIDE DEF p
<1>2. status \in Status
  BY DEF Early
<1>3. /\ q \in Request /\ Alike(p, q) /\ q.dialog = p.dialog
      /\ q.state = "Failed" /\ q.sig = status
  BY <1>1, <1>2, EndAlike
<1>4. CompleteSubscription(r, status) = q
  BY DEF CompleteSubscription, p
<1> HIDE DEF q
<1>5. Alike(r, q)
  BY <1>1, <1>3 DEF Alike
<1>6. Complete(r, status) = CompleteSubscription(r, status)
  BY CompleteIsSubscription
<1>7. QED
  BY <1>1, <1>3, <1>4, <1>5, <1>6

(* A NOTIFY that the subscription is pending or active, when it is not the *)
(* "pending" of a subscription that is stopping.                           *)
LEMMA CompleteNotified ==
  ASSUME NEW r \in Request, NEW status \in Accepted, r.method = "Notify",
         r.sig = NoSig, r.state # "Deleting",
         r.state = "Stopping" => status = "OK"
  PROVE  LET q == Complete(r, status) IN
         /\ q \in Request /\ Alike(r, q) /\ q.dialog = r.dialog
         /\ q.state = r.state /\ q.sig = status
<1> DEFINE p == [r EXCEPT !.sub = IF status = "Pend" THEN "Pending" ELSE "Active"]
           q == Post(p, status)
<1>1. /\ p \in Request /\ Alike(r, p) /\ p.dialog = r.dialog /\ p.sig = NoSig
      /\ p.state = r.state
  BY DEF Request, Alike
<1>2. status \in Early /\ status \in Status
  BY DEF Accepted, Early, Status
<1>3. CompleteNotification(r, status) = q
  BY DEF CompleteNotification
<1> HIDE DEF p
<1>4. /\ q \in Request /\ Alike(p, q) /\ q.dialog = p.dialog
      /\ q.state = p.state /\ q.sig = status
  BY <1>1, <1>2, PostAlike
<1> HIDE DEF q
<1>5. Alike(r, q)
  BY <1>1, <1>4 DEF Alike
<1>6. Complete(r, status) = CompleteNotification(r, status)
  BY <1>2, CompleteIsNotification
<1>7. QED
  BY <1>1, <1>3, <1>4, <1>5, <1>6

(* A NOTIFY that ends the subscription for good. *)
LEMMA CompleteTerminated ==
  ASSUME NEW r \in Request, r.method = "Notify", r.sig = NoSig, r.state # "Deleting"
  PROVE  LET q == Complete(r, "Completion") IN
         /\ q \in Request /\ Alike(r, q) /\ q.sig = "Completion"
         /\ q.state = IF r.state = "ActiveSubs" THEN "Complete" ELSE r.state
         /\ r.state # "ActiveSubs" => q.dialog = r.dialog
<1> DEFINE p == [r EXCEPT !.dialog = "none"]
           q == Post(SetReqState(p, "Complete"), "Completion")
           o == Post(r, "Completion")
<1>1. p \in Request /\ Alike(r, p) /\ p.sig = NoSig
  BY DEF Request, Alike
<1>2. "Completion" \in Early /\ "Completion" \in Status
  BY DEF Early, Status
<1>3. /\ r.state = "ActiveSubs" => CompleteNotification(r, "Completion") = q
      /\ r.state # "ActiveSubs" => CompleteNotification(r, "Completion") = o
  BY DEF CompleteNotification, Accepted
<1> HIDE DEF p
<1>4. /\ q \in Request /\ Alike(p, q) /\ q.state = "Complete" /\ q.sig = "Completion"
  BY <1>1, <1>2, EndAlike
<1>5. /\ o \in Request /\ Alike(r, o) /\ o.state = r.state /\ o.sig = "Completion"
      /\ o.dialog = r.dialog
  BY <1>2, PostAlike
<1> HIDE DEF q, o
<1>6. Alike(r, q)
  BY <1>1, <1>4 DEF Alike
<1>7. Complete(r, "Completion") = CompleteNotification(r, "Completion")
  BY <1>2, CompleteIsNotification
<1>8. QED
  BY <1>3, <1>4, <1>5, <1>6, <1>7

-----------------------------------------------------------------------------
(* A request whose watcher is told serves it after each event.             *)

(* What an event changes before the request is completed: the dialog and   *)
(* the transaction may be lost, timers stop, the response method is set.   *)
Kept(r, s) ==
  /\ s.type = r.type /\ s.kind = r.kind /\ s.resps = r.resps
  /\ s.auto = r.auto /\ s.expires = r.expires
  /\ s.state = r.state /\ s.sig = r.sig
  /\ s.dialog = "kept" => r.dialog = "kept"

LEMMA KeptServes ==
  ASSUME NEW a, NEW u, NEW r, NEW s, Serves(a, u, r), Kept(r, s),
         s.method # "Notify"
  PROVE  Standing(a, u, s) /\ Regular(s)
BY DEF Serves, Kept, Standing, Regular

(* The last completion is one that is no success and not about a NOTIFY.   *)
LEMMA ErrorEnds ==
  ASSUME NEW u \in Watcher, NEW q \in Request,
         q.state \in {"Complete", "Failed"}, q.sig \in Status \ Accepted,
         q.method # "Notify"
  PROVE  Ended(u, q)
<1>1. u.iResCount \in 0..2
  BY DEF Watcher
<1>2. q.sig # NoSig /\ q.sig # "Pend" /\ q.sig # "OK"
  BY StatusesDiffer DEF Accepted
<1>3. Counted(u.iResCount, q.method = "Notify", q.sig) = 2
  BY <1>1, <1>2 DEF Counted
<1>4. QED
  BY <1>2, <1>3 DEF Ended, Delivered

LEMMA ErrorServes ==
  ASSUME NEW a, NEW u \in Watcher, NEW s, NEW q \in Request,
         Standing(a, u, s), Regular(s),
         q.type = s.type, q.kind = s.kind, q.expires = s.expires,
         q.type # "Stop" => q.resps = 0,
         q.dialog = "kept" => s.dialog = "kept",
         q.state \in {"Complete", "Failed"}, q.sig \in Status \ Accepted,
         q.method # "Notify"
  PROVE  Serves(a, u, q)
<1>1. Ended(u, q)
  BY ErrorEnds
<1>2. Standing(a, u, q)
  BY DEF Standing
<1>3. Regular(q)
  BY StatusesDiffer DEF Regular
<1>4. QED
  BY <1>1, <1>2, <1>3 DEF Serves, Phase

LEMMA GivesUpServes ==
  ASSUME NEW a, NEW u \in Watcher, NEW s \in Request,
         NEW status \in {"Disconnected", "TimedOut"},
         Standing(a, u, s), Regular(s), s.sig = NoSig, s.state # "Deleting"
  PROVE  Serves(a, u, Complete(s, status)) /\ Complete(s, status).state = "Failed"
<1> DEFINE q == Complete(s, status)
<1>1. /\ q \in Request /\ Alike(s, q) /\ q.state = "Failed" /\ q.dialog = s.dialog
      /\ q.sig = status
  BY CompleteEnds
<1> HIDE DEF q
<1>2. q.method # "Notify"
  BY <1>1 DEF Regular, Alike
<1>3. status \in Status \ Accepted
  BY DEF Status, Accepted
<1>4. q.type # "Stop" => q.resps = 0
  BY <1>1 DEF Regular, Alike
<1>5. Serves(a, u, q)
  BY <1>1, <1>2, <1>3, <1>4, ErrorServes DEF Alike
<1>6. QED
  BY <1>1, <1>5 DEF q

(* An error ends the subscription, or starts a retry of a live one. *)
LEMMA FailsServes ==
  ASSUME NEW a, NEW u \in Watcher, NEW s \in Request,
         NEW status \in {"Temp", "Error", "Completion"},
         Standing(a, u, s), Regular(s), s.sig = NoSig, s.state # "Deleting",
         s.state = "Stopping" => s.type = "Stop",
         s.state = "ActiveSubs" => a = "on" /\ s.type \notin {"Stop", "Get"}
  PROVE  LET q == Complete(s, status) IN
         /\ Serves(a, u, q)
         /\ q.state \in {"Complete", "Failed", "ReTry"}
<1> DEFINE q == Complete(s, status)
<1>1. status \in Early /\ status \in Status \ Accepted
  BY DEF Status, Accepted, Early
<1>2. s.method # "Notify"
  BY DEF Regular
<1>3. s.type # "Stop" => s.resps = 0
  BY DEF Regular
<1>4. CASE s.state = "ActiveSubs"
  <2>1. /\ q \in Request /\ Alike(s, q) /\ q.dialog = s.dialog
        /\ \/ q.state = "Failed" /\ q.sig = "Completion"
           \/ q.state = "ReTry" /\ q.sig = NoSig
    BY <1>1, <1>2, <1>4, CompleteActive
  <2> HIDE DEF q
  <2>2. CASE q.state = "Failed" /\ q.sig = "Completion"
    <3>1. q.sig \in Status \ Accepted
      BY <2>2 DEF Status, Accepted
    <3>2. Serves(a, u, q)
      BY <1>2, <1>3, <2>1, <2>2, <3>1, ErrorServes DEF Alike
    <3>3. QED
      BY <2>2, <3>2 DEF q
  <2>3. CASE q.state = "ReTry" /\ q.sig = NoSig
    <3>1. On(a, q)
      BY <1>4, <2>1, <2>3 DEF On, Alike, Established
    <3>2. Standing(a, u, q) /\ Regular(q)
      BY <1>2, <2>1, <2>3 DEF Standing, Regular, Alike
    <3>3. Serves(a, u, q)
      BY <3>1, <3>2 DEF Serves, Phase
    <3>4. QED
      BY <2>3, <3>3 DEF q
  <2>4. QED
    BY <2>1, <2>2, <2>3
<1>5. CASE s.state = "Stopping"
  <2>1. /\ q \in Request /\ q.type = s.type /\ q.kind = s.kind /\ q.expires = s.expires
        /\ q.method = s.method /\ q.dialog = s.dialog /\ q.sig = status
        /\ q.state = "Complete"
    BY <1>1, <1>2, <1>5, CompleteStopping
  <2> HIDE DEF q
  <2>2. Serves(a, u, q)
    BY <1>1, <1>2, <1>5, <2>1, ErrorServes
  <2>3. QED
    BY <2>1, <2>2 DEF q
<1>6. CASE s.state \notin {"ActiveSubs", "Stopping"}
  <2>1. /\ q \in Request /\ Alike(s, q) /\ q.dialog = s.dialog
        /\ q.state = "Failed" /\ q.sig = status
    <3>1. CASE s.state = "RunningInit"
      BY <1>1, <1>2, <3>1, CompleteStarting
    <3>2. CASE s.state # "RunningInit"
      BY <1>1, <1>2, <1>6, <3>2, CompleteOther
    <3>3. QED
      BY <3>1, <3>2
  <2> HIDE DEF q
  <2>2. Serves(a, u, q)
    BY <1>1, <1>2, <1>3, <2>1, ErrorServes DEF Alike
  <2>3. QED
    BY <2>1, <2>2 DEF q
<1>7. QED
  BY <1>4, <1>5, <1>6

(* With nothing posted there are four phases. *)
LEMMA QuietPhase ==
  ASSUME NEW a, NEW u, NEW r, Serves(a, u, r), r.sig = NoSig
  PROVE  /\ \/ Starting(a, r)
            \/ On(a, r)
            \/ Fetching(a, r)
            \/ /\ r.type = "Stop" /\ r.state = "Stopping"
               /\ r.resps <= u.iResCount
         /\ r.state # "Deleting"
         /\ r.state = "Stopping" => r.type = "Stop"
         /\ r.state = "ActiveSubs" => a = "on" /\ r.type \notin {"Stop", "Get"}
<1>1. ~Begun(a, r) /\ ~Ended(u, r)
  BY DEF Begun, Ended, Accepted, NoSig
<1>2. Starting(a, r) \/ On(a, r) \/ Fetching(a, r) \/ Ceasing(u, r)
  BY <1>1 DEF Serves, Phase
<1>3. Ceasing(u, r) => /\ r.type = "Stop" /\ r.state = "Stopping"
                       /\ r.resps <= u.iResCount
  BY DEF Ceasing, Delivered
<1>4. QED
  BY <1>2, <1>3 DEF Starting, On, Fetching, Established

LEMMA CountsOne ==
  ASSUME NEW u \in Watcher, NEW q \in Request, q.sig \in Accepted, q.method # "Notify"
  PROVE  Delivered(u, q) = IF u.iResCount < 2 THEN u.iResCount + 1 ELSE 2
<1>1. u.iResCount \in 0..2
  BY DEF Watcher
<1>2. q.sig # NoSig /\ (IF q.sig = "Pend" THEN "OK" ELSE q.sig) = "OK"
  BY DEF Accepted, NoSig
<1>3. Counted(u.iResCount, q.method = "Notify", "OK")
        = IF u.iResCount < 2 THEN u.iResCount + 1 ELSE 2
  BY <1>1 DEF Counted
<1>4. QED
  BY <1>2, <1>3 DEF Delivered

(* A response that accepts. *)
LEMMA AcceptedServes ==
  ASSUME NEW a, NEW u \in Watcher, NEW r \in Request, NEW s \in Request,
         NEW status \in Accepted,
         Serves(a, u, r), Kept(r, s), r.sig = NoSig,
         r.trans # "none", s.trans = "none", s.dialog = r.dialog,
         s.method = "Status",
         r.state = "ActiveSubs" => r.trans = "none"
  PROVE  /\ Serves(a, u, Complete(s, status))
         /\ Complete(s, status).state # "Deleting"
<1> DEFINE q == Complete(s, status)
<1>1. status \in Early /\ s.sig = NoSig /\ s.method # "Notify" /\ s.state = r.state
  BY DEF Accepted, Early, Status, Kept
<1>2. Standing(a, u, s) /\ Regular(s)
  BY KeptServes
<1>3. CASE r.state = "RunningInit"
  <2>1. /\ q \in Request /\ Alike(s, q) /\ q.dialog = s.dialog /\ q.sig = status
        /\ q.state = IF s.kind = "Get" THEN "Complete" ELSE "ActiveSubs"
    BY <1>1, <1>3, CompleteStarting
  <2> HIDE DEF q
  <2>2. a = "asked" /\ r.type # "Stop" /\ r.dialog \in {"open", "kept"}
    BY <1>3, QuietPhase DEF Starting, On, Fetching, Established
  <2>3. q.type = s.type /\ s.type = r.type /\ s.kind = s.type
    BY <1>2, <2>1, <2>2 DEF Alike, Kept, Regular
  <2>4. s.type = "Get" => Open(q)
    BY <1>2, <2>1, <2>2, <2>3 DEF Alike, Regular, Open
  <2>5. q.method = "Status"
    BY <2>1 DEF Alike
  <2>6. Begun(a, q)
    BY <2>1, <2>2, <2>3, <2>4, <2>5 DEF Begun
  <2>7. Standing(a, u, q) /\ Regular(q)
    BY <1>1, <1>2, <2>1 DEF Standing, Regular, Alike
  <2>8. QED
    BY <2>1, <2>6, <2>7 DEF Serves, Phase, q
<1>4. CASE r.state = "Stopping"
  <2>1. /\ q \in Request /\ q.type = s.type /\ q.kind = s.kind /\ q.expires = s.expires
        /\ q.method = s.method /\ q.dialog = s.dialog /\ q.sig = status
        /\ q.state = IF s.resps = 1 THEN "Complete" ELSE "Stopping"
        /\ q.resps = IF s.resps < 3 THEN s.resps + 1 ELSE 3
    BY <1>1, <1>4, CompleteStopping
  <2> HIDE DEF q
  <2>2. s.resps <= u.iResCount /\ s.type = "Stop"
    BY <1>4, QuietPhase DEF Starting, On, Fetching, Established, Kept
  <2>3. u.iResCount \in 0..1
    BY <1>2, <2>2 DEF Standing, Watcher
  <2>4. Delivered(u, q) = u.iResCount + 1
    BY <1>1, <2>1, <2>3, CountsOne
  <2>5. s.resps \in Nat
    BY DEF Request
  <2>6. IF s.resps = 1 THEN Ended(u, q) ELSE Ceasing(u, q)
    <3>1. q.sig # NoSig
      BY <2>1 DEF Accepted, NoSig
    <3>2. QED
      BY <2>1, <2>2, <2>3, <2>4, <2>5, <3>1 DEF Ended, Ceasing
  <2>7. Standing(a, u, q) /\ Regular(q)
    BY <1>1, <1>2, <2>1, <2>2 DEF Standing, Regular
  <2>8. QED
    BY <2>1, <2>6, <2>7 DEF Serves, Phase, q
<1>5. CASE r.state = "DialogReCre" /\ status = "OK"
  <2>1. /\ q \in Request /\ Alike(s, q) /\ q.dialog = s.dialog
        /\ q.state = "ActiveSubs" /\ q.sig = NoSig
    BY <1>1, <1>5, CompleteRecreated
  <2> HIDE DEF q
  <2>2. a = "on" /\ r.type \notin {"Stop", "Get"}
    BY <1>5, QuietPhase DEF Starting, On, Fetching, Established
  <2>3. On(a, q)
    BY <2>1, <2>2 DEF On, Established, Alike, Kept
  <2>4. Standing(a, u, q) /\ Regular(q)
    BY <1>1, <1>2, <2>1 DEF Standing, Regular, Alike
  <2>5. QED
    BY <2>1, <2>3, <2>4 DEF Serves, Phase, q
<1>6. CASE r.state \notin {"RunningInit", "Stopping"}
           /\ ~(r.state = "DialogReCre" /\ status = "OK")
  <2>1. a = "on" /\ r.state # "ActiveSubs" /\ r.state # "Deleting"
        /\ r.type \notin {"Stop", "Get"}
    BY <1>6, QuietPhase DEF Starting, On, Fetching, Established, Open
  <2>2. /\ q \in Request /\ Alike(s, q) /\ q.dialog = s.dialog
        /\ q.state = "Failed" /\ q.sig = status
    BY <1>1, <1>6, <2>1, CompleteOther
  <2> HIDE DEF q
  <2>3. u.iResCount = 1
    BY <1>2, <2>1 DEF Standing, Unanswered, Answered, Kept
  <2>4. Delivered(u, q) = 2
    BY <1>1, <2>2, <2>3, CountsOne DEF Alike
  <2>5. Ended(u, q)
    BY <2>2, <2>4 DEF Ended, Accepted, NoSig
  <2>6. Standing(a, u, q) /\ Regular(q)
    BY <1>1, <1>2, <2>2 DEF Standing, Regular, Alike
  <2>7. QED
    BY <2>2, <2>5, <2>6 DEF Serves, Phase, q
<1>7. QED
  BY <1>3, <1>4, <1>5, <1>6

(* A NOTIFY on an open dialog meets a live subscription, a fetch that is   *)
(* answered or a subscription that is stopping.                            *)
LEMMA NotifyMeets ==
  ASSUME NEW a, NEW u, NEW r, Serves(a, u, r), Sound(r), r.sig = NoSig,
         r.trans = "none", r.dialog \in {"open", "kept"}
  PROVE  \/ On(a, r) /\ r.state = "ActiveSubs"
         \/ Fetching(a, r)
         \/ r.type = "Stop" /\ r.state = "Stopping" /\ r.resps <= u.iResCount
<1>1. r.state \notin Parked
  BY DEF Sound
<1>2. ~Starting(a, r)
  BY <1>1 DEF Starting, Parked
<1>3. On(a, r) => r.state = "ActiveSubs"
  BY <1>1 DEF On, Established, Parked
<1>4. QED
  BY <1>2, <1>3, QuietPhase

LEMMA NotifiedServes ==
  ASSUME NEW a, NEW u \in Watcher, NEW r, NEW s \in Request, NEW status \in Accepted,
         Serves(a, u, r), Sound(r), Kept(r, s), r.sig = NoSig,
         r.trans = "none", r.dialog \in {"open", "kept"},
         s.trans = r.trans, s.dialog = r.dialog, s.method = "Notify",
         r.type = "Stop" => status = "OK"
  PROVE  /\ Serves(a, u, Complete(s, status))
         /\ Complete(s, status).state # "Deleting"
<1> DEFINE q == Complete(s, status)
<1>1. s.sig = NoSig /\ s.state = r.state /\ s.type = r.type /\ s.resps = r.resps
  BY DEF Kept
<1>2. /\ r.state # "Deleting"
      /\ r.state = "Stopping" => status = "OK"
  BY QuietPhase
<1>3. /\ q \in Request /\ Alike(s, q) /\ q.dialog = s.dialog
      /\ q.state = s.state /\ q.sig = status
  BY <1>1, <1>2, CompleteNotified
<1> HIDE DEF q
<1>4. Standing(a, u, q) /\ Regular(q)
  BY <1>3 DEF Serves, Standing, Regular, Alike, Kept, Accepted, NoSig
<1>5. On(a, r) /\ r.state = "ActiveSubs" => On(a, q)
  BY <1>1, <1>3 DEF On, Alike, Established
<1>6. Fetching(a, r) => Fetching(a, q)
  BY <1>1, <1>3 DEF Fetching, Alike, Open
<1>7. ASSUME r.type = "Stop", r.state = "Stopping", r.resps <= u.iResCount
      PROVE  Ceasing(u, q)
  <2>1. q.sig = "OK" /\ q.method = "Notify" /\ q.sig # NoSig
    BY <1>3, <1>7 DEF Alike, NoSig
  <2>2. u.iResCount \in 0..2
    BY DEF Watcher
  <2>3. Counted(u.iResCount, q.method = "Notify", q.sig) = u.iResCount
    BY <2>1, <2>2 DEF Counted
  <2>4. Delivered(u, q) = u.iResCount
    BY <2>1, <2>3 DEF Delivered
  <2>5. QED
    BY <1>1, <1>3, <1>7, <2>4 DEF Ceasing, Alike
<1>8. Phase(a, u, q)
  BY <1>5, <1>6, <1>7, NotifyMeets DEF Phase
<1>9. QED
  BY <1>1, <1>2, <1>3, <1>4, <1>8 DEF Serves, q

LEMMA TerminatedServes ==
  ASSUME NEW a, NEW u \in Watcher, NEW r, NEW s \in Request,
         Serves(a, u, r), Sound(r), Kept(r, s), r.sig = NoSig,
         r.trans = "none", r.dialog \in {"open", "kept"},
         s.method = "Notify"
  PROVE  /\ Serves(a, u, Complete(s, "Completion"))
         /\ Complete(s, "Completion").state # "Deleting"
<1> DEFINE q == Complete(s, "Completion")
<1>1. /\ s.sig = NoSig /\ s.state = r.state /\ s.type = r.type /\ s.resps = r.resps
      /\ s.kind = r.kind
  BY DEF Kept
<1>2. r.state # "Deleting"
  BY QuietPhase
<1>3. /\ q \in Request /\ Alike(s, q) /\ q.sig = "Completion"
      /\ q.state = IF s.state = "ActiveSubs" THEN "Complete" ELSE s.state
      /\ s.state # "ActiveSubs" => q.dialog = s.dialog
  BY <1>1, <1>2, CompleteTerminated
<1> HIDE DEF q
<1>4. r.kind # "Get" \/ r.state # "ActiveSubs"
  BY QuietPhase DEF Serves, Regular
<1>5. Standing(a, u, q) /\ Regular(q)
  BY <1>1, <1>3, <1>4 DEF Serves, Standing, Regular, Alike, Kept, NoSig
<1>6. u.iResCount \in 0..2
  BY DEF Watcher
<1>7. Delivered(u, q) = IF u.iResCount < 2 THEN u.iResCount + 1 ELSE 2
  <2>1. q.sig = "Completion" /\ q.method = "Notify" /\ q.sig # NoSig
    BY <1>3 DEF Alike, NoSig
  <2>2. Counted(u.iResCount, q.method = "Notify", q.sig)
          = IF u.iResCount < 2 THEN u.iResCount + 1 ELSE 2
    BY <1>6, <2>1 DEF Counted
  <2>3. QED
    BY <2>1, <2>2 DEF Delivered
<1>8. ASSUME a \in {"on", "idle"}, r.state \in {"ActiveSubs", "Complete"}
      PROVE  Ended(u, q)
  <2>1. u.iResCount = 1
    BY <1>8 DEF Serves, Standing, Unanswered, Answered
  <2>2. QED
    BY <1>1, <1>3, <1>7, <1>8, <2>1 DEF Ended, NoSig
<1>9. ASSUME r.type = "Stop", r.state = "Stopping", r.resps <= u.iResCount
      PROVE  Ceasing(u, q)
  <2>1. q.resps <= Delivered(u, q)
    BY <1>1, <1>3, <1>6, <1>7, <1>9 DEF Alike, Request
  <2>2. QED
    BY <1>1, <1>3, <1>9, <2>1 DEF Ceasing, Alike
<1>10. Phase(a, u, q)
  BY <1>8, <1>9, NotifyMeets DEF Phase, On, Fetching
<1>11. QED
  BY <1>1, <1>2, <1>3, <1>5, <1>10 DEF Serves, q

-----------------------------------------------------------------------------
(* The invariant is preserved, action by action.                           *)

(* A step that changes requests only keeps those that are being deleted    *)
(* and lets the others serve their watchers.                               *)
Faithful(r, q, a, u) ==
  IF r.state = "Deleting" THEN q.state = "Deleting" /\ q.type = r.type
  ELSE q.state # "Deleting" /\ Serves(a, u, q)

LEMMA WatcherOfLive ==
  ASSUME TypeOK, NEW id \in Live
  PROVE  /\ id[1] \in Watchers /\ id[2] \in Slots /\ id = <<id[1], id[2]>>
         /\ w[id[1]] \in Watcher /\ id \in Of(id[1])
<1>1. id \in Watchers \X Slots
  BY LiveRequest DEF Id
<1>2. id[1] \in Watchers /\ id[2] \in Slots /\ id = <<id[1], id[2]>>
  BY <1>1
<1>3. QED
  BY <1>2 DEF TypeOK, Of

LEMMA FaithfulStep ==
  ASSUME TypeOK, AllServed, UNCHANGED <<w, app>>, Live' = Live,
         \A id \in Live : Faithful(rq[id], rq'[id], app[id[1]], w[id[1]])
  PROVE  AllServed'
<1> SUFFICES ASSUME NEW x \in Watchers PROVE Served(x)'
  BY DEF AllServed
<1>1. Served(x)
  BY DEF AllServed
<1>2. Of(x)' = Of(x) /\ Of(x) \subseteq Live /\ \A id \in Of(x) : id[1] = x
  BY DEF Of
<1>3. \A id \in Of(x) : Faithful(rq[id], rq'[id], app[x], w[x])
  BY <1>2
<1>4. Current(x)' = Current(x)
  BY <1>2, <1>3 DEF Current, Faithful
<1>5. \A id \in Of(x) : rq'[id].state = "Deleting" <=> rq'[id].type = "DestroyStart"
  <2> SUFFICES ASSUME NEW id \in Of(x)
               PROVE  rq'[id].state = "Deleting" <=> rq'[id].type = "DestroyStart"
    OBVIOUS
  <2>1. rq[id].state = "Deleting" <=> rq[id].type = "DestroyStart"
    BY <1>1 DEF Served
  <2>2. QED
    BY <1>3, <2>1 DEF Faithful, Serves, Regular
<1>6. \A id \in Current(x) : Serves(app[x], w[x], rq'[id])
  BY <1>3 DEF Current, Faithful
<1>7. QED
  BY <1>1, <1>2, <1>4, <1>5, <1>6 DEF Served

LEMMA ServedStep ==
  ASSUME TypeOK, AllServed, UNCHANGED <<w, app>>, NEW id \in Live,
         NEW q \in Request, Update(id, q),
         Faithful(rq[id], q, app[id[1]], w[id[1]])
  PROVE  AllServed'
<1>1. Live' = Live
  BY UpdateKeepsLive
<1>2. rq'[id] = q /\ \A i \in Live \ {id} : rq'[i] = rq[i]
  BY LiveRequest DEF Update, TypeOK, Live
<1>3. \A i \in Live \ {id} : Faithful(rq[i], rq[i], app[i[1]], w[i[1]])
  <2> SUFFICES ASSUME NEW i \in Live, rq[i].state # "Deleting"
               PROVE  Serves(app[i[1]], w[i[1]], rq[i])
    BY DEF Faithful
  <2>1. QED
    BY WatcherOfLive, InUseServes
<1>4. \A i \in Live : Faithful(rq[i], rq'[i], app[i[1]], w[i[1]])
  BY <1>2, <1>3
<1>5. QED
  BY <1>1, <1>4, FaithfulStep

(* A completion of a request that is being deleted is only posted. *)
LEMMA CompleteFaithful ==
  ASSUME NEW a, NEW u, NEW r \in Request, NEW s \in Request, NEW status \in Status,
         Kept(r, s), r.state = "Deleting"
  PROVE  Faithful(r, Complete(s, status), a, u)
<1>1. Complete(s, status) = Post(s, status)
  BY DEF Complete, Kept
<1>2. Post(s, status).state = s.state /\ Post(s, status).type = s.type
  BY DEF Post, Request
<1>3. QED
  BY <1>1, <1>2 DEF Faithful, Kept

LEMMA ExpiryFiresServed ==
  ASSUME TypeOK, AllSound, AllServed, NEW id \in Id, ExpiryFires(id)
  PROVE  AllServed'
<1> DEFINE r == rq[id]
           s == [r EXCEPT !.expiry = FALSE]
           a == app[id[1]]
           u == w[id[1]]
           q == Complete(s, "TimedOut")
<1>1. Quiet /\ id \in Live /\ Update(id, q) /\ UNCHANGED <<w, app>>
  BY DEF ExpiryFires
<1>2. r \in Request /\ r.sig = NoSig /\ u \in Watcher /\ id[1] \in Watchers
  BY <1>1, QuietRequest, WatcherOfLive
<1>3. s \in Request /\ Kept(r, s) /\ s.method = r.method
  BY <1>2 DEF Request, Kept
<1>4. r.state # "Deleting" => Serves(a, u, r)
  BY <1>1, <1>2, InUseServes
<1> HIDE DEF r, s, a, u
<1>5. Faithful(r, q, a, u)
  <2>1. CASE r.state = "Deleting"
    BY <1>2, <1>3, <2>1, CompleteFaithful DEF Status
  <2>2. CASE r.state # "Deleting"
    <3>1. s.method # "Notify"
      BY <1>2, <1>3, <1>4, <2>2 DEF Serves, Regular
    <3>2. Standing(a, u, s) /\ Regular(s)
      BY <1>3, <1>4, <2>2, <3>1, KeptServes
    <3>3. s.sig = NoSig /\ s.state # "Deleting"
      BY <1>2, <1>3, <2>2 DEF Kept
    <3>4. Serves(a, u, q) /\ q.state = "Failed"
      BY <1>2, <1>3, <3>2, <3>3, GivesUpServes
    <3>5. QED
      BY <2>2, <3>4 DEF Faithful
  <2>3. QED
    BY <2>1, <2>2
<1>6. q \in Request
  BY <1>3, CompleteType DEF Status
<1> HIDE DEF q
<1>7. QED
  BY <1>1, <1>5, <1>6, ServedStep DEF r, a, u

(* What a handler that runs when nothing is posted finds. *)
LEMMA QuietServes ==
  ASSUME TypeOK, AllSound, AllServed, Quiet, NEW id \in Live
  PROVE  /\ rq[id] \in Request /\ rq[id].sig = NoSig /\ Sound(rq[id])
         /\ w[id[1]] \in Watcher
         /\ rq[id].state # "Deleting" =>
              /\ Serves(app[id[1]], w[id[1]], rq[id])
              /\ rq[id].method # "Notify"
<1>1. id[1] \in Watchers
  BY WatcherOfLive
<1>2. rq[id].sig = NoSig
  BY QuietRequest
<1>3. rq[id].state # "Deleting" =>
        /\ Serves(app[id[1]], w[id[1]], rq[id])
        /\ rq[id].method # "Notify"
  BY <1>1, <1>2, InUseServes DEF Serves, Regular
<1>4. QED
  BY <1>3, QuietRequest, WatcherOfLive

(* An error after an event that the response method does not call a NOTIFY.*)
LEMMA ErrorFaithful ==
  ASSUME NEW a, NEW u \in Watcher, NEW r \in Request, NEW s \in Request,
         NEW status \in {"Temp", "Error"},
         r.state # "Deleting" => Serves(a, u, r),
         r.sig = NoSig, Kept(r, s), s.method # "Notify"
  PROVE  Faithful(r, Complete(s, status), a, u)
<1> DEFINE q == Complete(s, status)
<1>1. CASE r.state = "Deleting"
  BY <1>1, CompleteFaithful DEF Status
<1>2. CASE r.state # "Deleting"
  <2>1. Standing(a, u, s) /\ Regular(s)
    BY <1>2, KeptServes
  <2>2. /\ s.sig = NoSig /\ s.state # "Deleting"
        /\ s.state = "Stopping" => s.type = "Stop"
        /\ s.state = "ActiveSubs" => a = "on" /\ s.type \notin {"Stop", "Get"}
    BY <1>2, QuietPhase DEF Kept
  <2>3. Serves(a, u, q) /\ q.state \in {"Complete", "Failed", "ReTry"}
    BY <2>1, <2>2, FailsServes
  <2> HIDE DEF q
  <2>4. q.state # "Deleting"
    BY <2>3
  <2>5. Faithful(r, q, a, u)
    BY <1>2, <2>3, <2>4 DEF Faithful
  <2>6. QED
    BY <2>5 DEF q
<1>3. QED
  BY <1>1, <1>2

LEMMA AfterResponseKept ==
  ASSUME NEW r \in Request, NEW status, NEW m \in {"Unknown", "Status", "Notify"}
  PROVE  LET s == SetResponseMethod(AfterResponse(r, status), m) IN
         /\ s \in Request /\ Kept(r, s) /\ s.method = m /\ s.trans = "none"
         /\ status \in Accepted => s.dialog = r.dialog
<1> DEFINE p == AfterResponse(r, status)
           s == SetResponseMethod(p, m)
<1>1. /\ p \in Request /\ Kept(r, p) /\ p.trans = "none"
      /\ status \in Accepted => p.dialog = r.dialog
  BY DEF AfterResponse, Request, Kept
<1> HIDE DEF p
<1>2. /\ s \in Request /\ Kept(p, s) /\ s.method = m /\ s.trans = p.trans
      /\ s.dialog = p.dialog
  BY <1>1 DEF SetResponseMethod, Request, Kept
<1> HIDE DEF s
<1>3. Kept(r, s)
  BY <1>1, <1>2 DEF Kept
<1>4. QED
  BY <1>1, <1>2, <1>3 DEF p, s

LEMMA ResponseServed ==
  ASSUME TypeOK, AllSound, AllServed, NEW id \in Id, NEW status \in ResponseStatus,
         Response(id, status)
  PROVE  AllServed'
<1> DEFINE r == rq[id]
           s == SetResponseMethod(AfterResponse(r, status), "Status")
           a == app[id[1]]
           u == w[id[1]]
           q == Complete(s, status)
<1>1. /\ Quiet /\ id \in Live /\ r.trans # "none" /\ Update(id, q)
      /\ UNCHANGED <<w, app>>
  BY DEF Response
<1>2. /\ r \in Request /\ r.sig = NoSig /\ u \in Watcher /\ Sound(r)
      /\ r.state # "Deleting" => Serves(a, u, r)
  BY <1>1, QuietServes
<1> HIDE DEF r, a, u
<1>3. /\ s \in Request /\ Kept(r, s) /\ s.method = "Status" /\ s.trans = "none"
      /\ status \in Accepted => s.dialog = r.dialog
  BY <1>2, AfterResponseKept
<1> HIDE DEF s
<1>4. Faithful(r, q, a, u)
  <2>1. CASE r.state = "Deleting"
    <3>1. status \in Status
      BY DEF Status, ResponseStatus
    <3>2. QED
      BY <1>2, <1>3, <2>1, <3>1, CompleteFaithful
  <2>2. CASE r.state # "Deleting" /\ status \in Accepted
    <3>1. r.state # "ActiveSubs"
      BY <1>1, <1>2 DEF Sound
    <3>2. Serves(a, u, q) /\ q.state # "Deleting"
      BY <1>1, <1>2, <1>3, <2>2, <3>1, AcceptedServes
    <3>3. QED
      BY <2>2, <3>2 DEF Faithful
  <2>3. CASE status \notin Accepted
    <3>1. status \in {"Temp", "Error"}
      BY <2>3 DEF Accepted, ResponseStatus
    <3>2. QED
      BY <1>2, <1>3, <3>1, ErrorFaithful
  <2>4. QED
    BY <2>1, <2>2, <2>3
<1>5. q \in Request
  BY <1>3, CompleteType DEF Status, ResponseStatus
<1> HIDE DEF q
<1>6. QED
  BY <1>1, <1>4, <1>5, ServedStep DEF r, a, u

LEMMA TransactionFailsServed ==
  ASSUME TypeOK, AllSound, AllServed, NEW id \in Id, NEW status \in {"Temp", "Error"},
         TransactionFails(id, status)
  PROVE  AllServed'
<1> DEFINE r == rq[id]
           s == SetResponseMethod(AfterResponse(r, status), "Unknown")
           a == app[id[1]]
           u == w[id[1]]
           q == Complete(s, status)
<1>1. Quiet /\ id \in Live /\ Update(id, q) /\ UNCHANGED <<w, app>>
  BY DEF TransactionFails
<1>2. /\ r \in Request /\ r.sig = NoSig /\ u \in Watcher
      /\ r.state # "Deleting" => Serves(a, u, r)
  BY <1>1, QuietServes
<1> HIDE DEF r, a, u
<1>3. s \in Request /\ Kept(r, s) /\ s.method = "Unknown"
  BY <1>2, AfterResponseKept
<1> HIDE DEF s
<1>4. Faithful(r, q, a, u)
  BY <1>2, <1>3, ErrorFaithful
<1>5. q \in Request
  BY <1>3, CompleteType DEF Status
<1> HIDE DEF q
<1>6. QED
  BY <1>1, <1>4, <1>5, ServedStep DEF r, a, u

LEMMA RefreshFailsServed ==
  ASSUME TypeOK, AllSound, AllServed, NEW id \in Id, NEW status \in {"Temp", "Error"},
         NEW long \in BOOLEAN, RefreshFails(id, status, long)
  PROVE  AllServed'
<1> DEFINE r == rq[id]
           p == [r EXCEPT !.dialog = "dead", !.long = long]
           s == SetResponseMethod(p, "Unknown")
           a == app[id[1]]
           u == w[id[1]]
           q == Complete(s, status)
<1>1. Quiet /\ id \in Live /\ Update(id, q) /\ UNCHANGED <<w, app>>
  BY DEF RefreshFails
<1>2. /\ r \in Request /\ r.sig = NoSig /\ u \in Watcher
      /\ r.state # "Deleting" => Serves(a, u, r)
  BY <1>1, QuietServes
<1> HIDE DEF r, a, u
<1>3. p \in Request /\ Kept(r, p) /\ p.dialog = "dead"
  BY <1>2 DEF Request, Kept
<1> HIDE DEF p
<1>4. /\ s \in Request /\ Kept(p, s) /\ s.method = "Unknown" /\ s.dialog = "dead"
  BY <1>3 DEF SetResponseMethod, Request, Kept
<1> HIDE DEF s
<1>5. Kept(r, s)
  BY <1>3, <1>4 DEF Kept
<1>6. Faithful(r, q, a, u)
  BY <1>2, <1>4, <1>5, ErrorFaithful
<1>7. q \in Request
  BY <1>4, CompleteType DEF Status
<1> HIDE DEF q
<1>8. QED
  BY <1>1, <1>6, <1>7, ServedStep DEF r, a, u

(* An environment that keeps NOTIFYs in order and does not ask for retries,*)
(* and an application whose calls of UnsubscribeL do not leave.            *)
Orderly == Env \cap {"notifyFirst", "stopLeaves", "latePending", "retryNotify"} = {}

LEMMA NotifyStateServed ==
  ASSUME Orderly, TypeOK, AllSound, AllServed, NEW id \in Id, NEW status \in Accepted,
         NotifyState(id, status)
  PROVE  AllServed'
<1> DEFINE r == rq[id]
           p == SetResponseMethod(r, "Notify")
           s == [p EXCEPT !.errs = 0]
           a == app[id[1]]
           u == w[id[1]]
           q == Complete(s, status)
<1>1. /\ Quiet /\ id \in Live /\ Update(id, q) /\ UNCHANGED <<w, app>>
      /\ r.trans = "none" /\ r.dialog \in {"open", "kept"}
      /\ r.type = "Stop" => status = "OK"
  BY DEF NotifyState, CanNotify, Orderly
<1>2. /\ r \in Request /\ r.sig = NoSig /\ u \in Watcher /\ Sound(r)
      /\ r.state # "Deleting" => Serves(a, u, r)
  BY <1>1, QuietServes
<1> HIDE DEF r, a, u
<1>3. /\ p \in Request /\ Kept(r, p) /\ p.method = "Notify" /\ p.trans = r.trans
      /\ p.dialog = r.dialog
  BY <1>2 DEF SetResponseMethod, Request, Kept
<1> HIDE DEF p
<1>4. /\ s \in Request /\ Kept(p, s) /\ s.method = "Notify" /\ s.trans = p.trans
      /\ s.dialog = p.dialog
  BY <1>3 DEF Request, Kept
<1> HIDE DEF s
<1>5. Kept(r, s)
  BY <1>3, <1>4 DEF Kept
<1>6. status \in Status
  BY DEF Accepted, Status
<1>7. Faithful(r, q, a, u)
  <2>1. CASE r.state = "Deleting"
    BY <1>2, <1>4, <1>5, <1>6, <2>1, CompleteFaithful
  <2>2. CASE r.state # "Deleting"
    <3>1. Serves(a, u, q) /\ q.state # "Deleting"
      BY <1>1, <1>2, <1>3, <1>4, <1>5, <2>2, NotifiedServes
    <3>2. QED
      BY <2>2, <3>1 DEF Faithful
  <2>3. QED
    BY <2>1, <2>2
<1>8. q \in Request
  BY <1>4, <1>6, CompleteType
<1> HIDE DEF q
<1>9. QED
  BY <1>1, <1>7, <1>8, ServedStep DEF r, a, u

LEMMA NotifyTerminatedServed ==
  ASSUME Orderly, TypeOK, AllSound, AllServed, NEW id \in Id,
         NEW permanent \in BOOLEAN, NEW long \in BOOLEAN,
         NotifyTerminated(id, permanent, long)
  PROVE  AllServed'
<1> DEFINE r == rq[id]
           n == IF r.errs < 2 THEN r.errs + 1 ELSE 2
           p == SetResponseMethod(r, "Notify")
           s == [p EXCEPT !.errs = n, !.long = long, !.dialog = "dead"]
           a == app[id[1]]
           u == w[id[1]]
           q == Complete(s, "Completion")
<1>1. /\ Quiet /\ id \in Live /\ Update(id, q) /\ UNCHANGED <<w, app>>
      /\ r.trans = "none" /\ r.dialog \in {"open", "kept"}
  BY DEF NotifyTerminated, CanNotify, Orderly
<1>2. /\ r \in Request /\ r.sig = NoSig /\ u \in Watcher /\ Sound(r)
      /\ r.state # "Deleting" => Serves(a, u, r)
  BY <1>1, QuietServes
<1> HIDE DEF r, a, u
<1>3. n \in 0..2
  BY <1>2 DEF Request
<1> HIDE DEF n
<1>4. p \in Request /\ Kept(r, p) /\ p.method = "Notify"
  BY <1>2 DEF SetResponseMethod, Request, Kept
<1> HIDE DEF p
<1>5. s \in Request /\ Kept(p, s) /\ s.method = "Notify"
  BY <1>3, <1>4 DEF Request, Kept
<1> HIDE DEF s
<1>6. Kept(r, s)
  BY <1>4, <1>5 DEF Kept
<1>7. Faithful(r, q, a, u)
  <2>1. CASE r.state = "Deleting"
    BY <1>2, <1>5, <1>6, <2>1, CompleteFaithful DEF Status
  <2>2. CASE r.state # "Deleting"
    <3>1. Serves(a, u, q) /\ q.state # "Deleting"
      BY <1>1, <1>2, <1>5, <1>6, <2>2, TerminatedServes
    <3>2. QED
      BY <2>2, <3>1 DEF Faithful
  <2>3. QED
    BY <2>1, <2>2
<1>8. q \in Request
  BY <1>5, CompleteType DEF Status
<1> HIDE DEF q
<1>9. QED
  BY <1>1, <1>7, <1>8, ServedStep DEF r, a, u

(* The timers are no part of it. *)
LEMMA AlikeServes ==
  ASSUME NEW a, NEW u, NEW r, NEW s, Serves(a, u, r), Alike(r, s),
         s.state = r.state, s.dialog = r.dialog, s.sig = r.sig
  PROVE  Serves(a, u, s)
<1>1. Delivered(u, s) = Delivered(u, r)
  BY DEF Delivered, Alike
<1>2. Standing(a, u, s) /\ Regular(s)
  BY DEF Serves, Standing, Regular, Alike
<1>3. /\ Starting(a, r) => Starting(a, s)
      /\ Begun(a, r) => Begun(a, s)
      /\ On(a, r) => On(a, s)
      /\ Fetching(a, r) => Fetching(a, s)
  BY DEF Starting, Begun, On, Fetching, Open, Alike
<1>4. /\ Ceasing(u, r) => Ceasing(u, s)
      /\ Ended(u, r) => Ended(u, s)
  BY <1>1 DEF Ceasing, Ended, Alike
<1>5. QED
  BY <1>2, <1>3, <1>4 DEF Serves, Phase

(* A live subscription moves on through its retries. *)
LEMMA OnServes ==
  ASSUME NEW a, NEW u, NEW s, Standing(a, u, s), Regular(s), a = "on",
         s.type \notin {"Stop", "Get"}, s.sig = NoSig, s.state \in Established,
         s.state = "DialogReCre" => s.trans = "subscribe"
  PROVE  Serves(a, u, s)
BY DEF Serves, Phase, On

LEMMA RefreshFiresServed ==
  ASSUME TypeOK, AllSound, AllServed, NEW id \in Id, RefreshFires(id)
  PROVE  AllServed'
<1> DEFINE old == rq[id]
           fired == [old EXCEPT !.refresh = FALSE]
           ended == IF fired.auto THEN fired ELSE Complete(fired, "TimedOut")
           r == [ended EXCEPT !.expiry = TRUE]
           recreating == SetReqState(r, "DialogReCre")
           recreated == CreateDialog(recreating)
           failing == SetReqState(recreating, "Failed")
           failed == Complete(failing, "Temp")
           a == app[id[1]]
           u == w[id[1]]
<1>1. /\ Quiet /\ id \in Live /\ UNCHANGED <<w, app>>
      /\ \/ r.state \notin {"ReTry", "Pending"} /\ Update(id, r)
         \/ r.state \in {"ReTry", "Pending"} /\ Update(id, SetReqState(r, "Pending"))
         \/ r.state \in {"ReTry", "Pending"} /\ Update(id, recreated)
         \/ r.state \in {"ReTry", "Pending"} /\ Update(id, failed)
  BY DEF RefreshFires
<1>2. /\ old \in Request /\ old.sig = NoSig /\ u \in Watcher
      /\ old.state # "Deleting" => Serves(a, u, old)
  BY <1>1, QuietServes
<1> HIDE DEF old, a, u
<1>3. /\ fired \in Request /\ Kept(old, fired) /\ Alike(old, fired)
      /\ fired.dialog = old.dialog
  BY <1>2 DEF Request, Kept, Alike
<1> HIDE DEF fired
<1>4. CASE fired.auto = TRUE
  <2>1. ended = fired
    BY <1>4
  <2> HIDE DEF ended
  <2>2. /\ r \in Request /\ Alike(fired, r) /\ r.state = fired.state
        /\ r.dialog = fired.dialog /\ r.sig = fired.sig
    BY <1>3, <2>1 DEF Request, Alike
  <2> HIDE DEF r
  <2>3. /\ Alike(old, r) /\ r.state = old.state /\ r.dialog = old.dialog
        /\ r.sig = NoSig
    BY <1>2, <1>3, <2>2 DEF Alike, Kept
  <2>4. old.state # "Deleting" => Serves(a, u, r)
    BY <1>2, <2>3, AlikeServes
  <2>5. Faithful(old, r, a, u)
    BY <2>3, <2>4 DEF Faithful, Alike
  <2>6. ASSUME r.state \in {"ReTry", "Pending"}
        PROVE  /\ SetReqState(r, "Pending") \in Request
               /\ Faithful(old, SetReqState(r, "Pending"), a, u)
               /\ recreated \in Request /\ Faithful(old, recreated, a, u)
               /\ failed \in Request /\ Faithful(old, failed, a, u)
    <3>1. old.state # "Deleting" /\ Serves(a, u, r)
      BY <2>3, <2>4, <2>6
    <3>2. a = "on" /\ r.type \notin {"Stop", "Get"}
      BY <2>3, <2>6, <3>1, QuietPhase DEF Starting, On, Fetching
    <3>3. /\ Standing(a, u, r) /\ Regular(r) /\ r.method # "Notify"
          /\ r.kind # "Get" /\ r.resps = 0
      BY <2>3, <3>1, <3>2 DEF Serves, Regular
    <3> DEFINE p == SetReqState(r, "Pending")
    <3>4. /\ p \in Request /\ Alike(r, p) /\ p.state = "Pending" /\ p.sig = NoSig
          /\ p.dialog = r.dialog
      BY <2>2, <2>3, SetReqStateAlike DEF ReqState
    <3> HIDE DEF p
    <3>5. Serves(a, u, p)
      <4>1. Standing(a, u, p) /\ Regular(p)
        BY <3>3, <3>4 DEF Standing, Regular, Alike
      <4>2. QED
        BY <3>2, <3>4, <4>1, OnServes DEF Alike, Established
    <3>6. /\ recreating \in Request /\ Alike(r, recreating)
          /\ recreating.state = "DialogReCre" /\ recreating.sig = NoSig
      BY <2>2, <2>3, SetReqStateAlike DEF ReqState
    <3> HIDE DEF recreating
    <3>7. /\ recreated \in Request /\ recreated.state = "DialogReCre"
          /\ recreated.sig = NoSig /\ recreated.trans = "subscribe"
          /\ recreated.type = r.type /\ recreated.kind = r.kind
          /\ recreated.resps = r.resps /\ recreated.method = r.method
      <4>1. recreated \in Request
        BY <3>6, CreateDialogType
      <4>2. QED
        BY <3>6, <4>1 DEF CreateDialog, Request, Alike
    <3> HIDE DEF recreated
    <3>8. Serves(a, u, recreated)
      <4>1. Standing(a, u, recreated) /\ Regular(recreated)
        BY <3>3, <3>7 DEF Standing, Regular
      <4>2. QED
        BY <3>2, <3>7, <4>1, OnServes DEF Established
    <3>9. /\ failing \in Request /\ Alike(recreating, failing)
          /\ failing.state = "Failed" /\ failing.sig = NoSig
      BY <3>6, SetReqStateAlike DEF ReqState
    <3> HIDE DEF failing
    <3>10. Standing(a, u, failing) /\ Regular(failing)
      BY <3>3, <3>6, <3>9 DEF Standing, Regular, Alike
    <3>11. Serves(a, u, failed) /\ failed.state # "Deleting" /\ failed \in Request
      <4>1. Serves(a, u, failed) /\ failed.state \in {"Complete", "Failed", "ReTry"}
        BY <1>2, <3>9, <3>10, FailsServes
      <4>2. failed \in Request
        BY <3>9, CompleteType DEF Status
      <4>3. QED
        BY <4>1, <4>2
    <3> HIDE DEF failed
    <3>12. QED
      BY <3>1, <3>4, <3>5, <3>7, <3>8, <3>11 DEF Faithful, p
  <2> HIDE DEF recreating, recreated, failing, failed
  <2>7. QED
    BY <1>1, <2>2, <2>5, <2>6, ServedStep DEF old, a, u
<1>5. CASE fired.auto # TRUE
  <2>1. ended = Complete(fired, "TimedOut") /\ ended \in Request
    BY <1>3, <1>5, CompleteType DEF Status, Request
  <2>2. Faithful(old, ended, a, u) /\ ended.state \in {"Failed", "Deleting"}
    <3>1. CASE old.state = "Deleting"
      <4>1. Faithful(old, ended, a, u)
        BY <1>2, <1>3, <2>1, <3>1, CompleteFaithful DEF Status
      <4>2. QED
        BY <3>1, <4>1 DEF Faithful
    <3>2. CASE old.state # "Deleting"
      <4>1. Standing(a, u, fired) /\ Regular(fired)
        BY <1>2, <1>3, <3>2, AlikeServes DEF Serves, Kept
      <4>2. fired.sig = NoSig /\ fired.state # "Deleting"
        BY <1>2, <1>3, <3>2 DEF Kept
      <4>3. Serves(a, u, ended) /\ ended.state = "Failed"
        BY <1>2, <1>3, <2>1, <4>1, <4>2, GivesUpServes
      <4>4. QED
        BY <3>2, <4>3 DEF Faithful
    <3>3. QED
      BY <3>1, <3>2
  <2> HIDE DEF ended
  <2>3. /\ r \in Request /\ Alike(ended, r) /\ r.state = ended.state
        /\ r.dialog = ended.dialog /\ r.sig = ended.sig
    BY <2>1 DEF Request, Alike
  <2> HIDE DEF r, recreated, failed
  <2>4. Faithful(old, r, a, u)
    <3>1. Serves(a, u, ended) => Serves(a, u, r)
      BY <2>3, AlikeServes
    <3>2. QED
      BY <2>2, <2>3, <3>1 DEF Faithful, Alike
  <2>5. Update(id, r)
    BY <1>1, <2>2, <2>3
  <2>6. QED
    BY <1>1, <2>3, <2>4, <2>5, ServedStep DEF old, a, u
<1>6. QED
  BY <1>4, <1>5

LEMMA DisconnectServed ==
  ASSUME TypeOK, AllSound, AllServed, NEW state \in SipStates, Disconnect(state)
  PROVE  AllServed'
<1> DEFINE cut(r) == [r EXCEPT !.trans = "none",
                               !.dialog = IF @ = "none" THEN @ ELSE "dead"]
           lost(r) == SetResponseMethod(cut(r), "Unknown")
<1>1. /\ Quiet /\ UNCHANGED <<w, app>>
      /\ rq' = [id \in Id |-> IF id \in Live THEN Complete(lost(rq[id]), "Disconnected")
                                             ELSE NoReq]
  BY DEF Disconnect
<1>2. ASSUME NEW id \in Live
      PROVE  /\ rq'[id] \in Request
             /\ Faithful(rq[id], rq'[id], app[id[1]], w[id[1]])
  <2> DEFINE r == rq[id]
             p == cut(r)
             s == lost(r)
             a == app[id[1]]
             u == w[id[1]]
             q == Complete(s, "Disconnected")
  <2>1. /\ r \in Request /\ r.sig = NoSig /\ u \in Watcher
        /\ r.state # "Deleting" => Serves(a, u, r)
    BY <1>1, QuietServes
  <2>2. rq'[id] = q
    BY <1>1, LiveRequest
  <2> HIDE DEF r, a, u
  <2>3. p \in Request /\ Kept(r, p)
    BY <2>1 DEF Request, Kept
  <2>4. s = SetResponseMethod(p, "Unknown")
    OBVIOUS
  <2> HIDE DEF p, s
  <2>5. s \in Request /\ Kept(p, s) /\ s.method = "Unknown"
    BY <2>3, <2>4 DEF SetResponseMethod, Request, Kept
  <2>6. Kept(r, s)
    BY <2>3, <2>5 DEF Kept
  <2>7. Faithful(r, q, a, u)
    <3>1. CASE r.state = "Deleting"
      BY <2>1, <2>5, <2>6, <3>1, CompleteFaithful DEF Status
    <3>2. CASE r.state # "Deleting"
      <4>1. Standing(a, u, s) /\ Regular(s)
        BY <2>1, <2>5, <2>6, <3>2, KeptServes
      <4>2. s.sig = NoSig /\ s.state # "Deleting"
        BY <2>1, <2>6, <3>2 DEF Kept
      <4>3. Serves(a, u, q) /\ q.state = "Failed"
        BY <2>1, <2>5, <4>1, <4>2, GivesUpServes
      <4>4. QED
        BY <3>2, <4>3 DEF Faithful
    <3>3. QED
      BY <3>1, <3>2
  <2>8. q \in Request
    BY <2>5, CompleteType DEF Status
  <2> HIDE DEF q
  <2>9. QED
    BY <2>2, <2>7, <2>8 DEF r, a, u
<1>3. Live' = Live
  <2>1. \A id \in Id : id \in Live' <=> id \in Live
    BY <1>1, <1>2, NoReqDiffers DEF Live
  <2>2. QED
    BY <2>1 DEF Live
<1>4. QED
  BY <1>1, <1>2, <1>3, FaithfulStep

LEMMA SuspendServed ==
  ASSUME AllServed, UNCHANGED <<rq, w, app>>
  PROVE  AllServed'
BY DEF AllServed, Served, Current, Of, Live

LEMMA ResumeServes ==
  ASSUME NEW a, NEW u \in Watcher, NEW r \in Request, NEW sent \in BOOLEAN,
         Serves(a, u, r), r.sig = NoSig, r.state \in {"PendingInit", "Pending"}
  PROVE  Resume(r, sent) \in Request /\ Faithful(r, Resume(r, sent), a, u)
<1> DEFINE s == IF r.state = "PendingInit" THEN "RunningInit" ELSE "DialogReCre"
           p == SetReqState(r, s)
           c == CreateDialog(p)
           f == SetReqState(p, "Failed")
           q == Complete(f, "Error")
<1>1. /\ p \in Request /\ Alike(r, p) /\ p.state = s /\ p.sig = NoSig
      /\ p.dialog = r.dialog
  BY SetReqStateAlike DEF ReqState
<1>2. Resume(r, sent) = IF sent THEN c ELSE q
  BY DEF Resume, Resumed
<1> HIDE DEF p
<1>3. /\ r.method # "Notify" /\ r.type # "Stop" /\ r.kind = r.type /\ r.resps = 0
      /\ r.state = "PendingInit" => a = "asked"
      /\ r.state = "Pending" => a = "on" /\ r.type # "Get"
      /\ r.kind = "Get" => r.dialog # "kept" /\ r.expires = FALSE
      /\ Standing(a, u, r) /\ Regular(r)
  <2>1. Standing(a, u, r) /\ Regular(r)
    BY DEF Serves
  <2>2. r.state = "PendingInit" => a = "asked" /\ r.type # "Stop"
    BY QuietPhase DEF Starting, On, Fetching, Established
  <2>3. r.state = "Pending" => a = "on" /\ r.type \notin {"Stop", "Get"}
    BY QuietPhase DEF Starting, On, Fetching, Established
  <2>4. QED
    BY <2>1, <2>2, <2>3 DEF Regular
<1>4. /\ c \in Request /\ c.state = p.state /\ c.sig = NoSig /\ c.trans = "subscribe"
      /\ c.type = p.type /\ c.kind = p.kind /\ c.resps = p.resps /\ c.method = p.method
      /\ c.expires = p.expires
      /\ c.dialog \in {"open", "kept"} /\ (p.expires = FALSE => c.dialog = "open")
  <2>1. c \in Request
    BY <1>1, CreateDialogType
  <2>2. QED
    BY <1>1, <2>1 DEF CreateDialog, Request
<1> HIDE DEF c
<1>5. Standing(a, u, c) /\ Regular(c)
  BY <1>1, <1>3, <1>4 DEF Standing, Regular, Alike
<1>6. Starting(a, c) \/ On(a, c)
  BY <1>1, <1>3, <1>4 DEF Starting, On, Alike, Established, NoSig
<1>7. Serves(a, u, c) /\ c.state # "Deleting"
  BY <1>1, <1>4, <1>5, <1>6 DEF Serves, Phase
<1>8. /\ f \in Request /\ Alike(p, f) /\ f.state = "Failed" /\ f.sig = NoSig
      /\ f.dialog = p.dialog
  BY <1>1, SetReqStateAlike DEF ReqState
<1> HIDE DEF f
<1>9. Standing(a, u, f) /\ Regular(f)
  BY <1>1, <1>3, <1>8 DEF Standing, Regular, Alike
<1>10. Serves(a, u, q) /\ q.state # "Deleting" /\ q \in Request
  <2>1. Serves(a, u, q) /\ q.state \in {"Complete", "Failed", "ReTry"}
    BY <1>8, <1>9, FailsServes
  <2>2. q \in Request
    BY <1>8, CompleteType DEF Status
  <2>3. QED
    BY <2>1, <2>2
<1> HIDE DEF q
<1>11. QED
  BY <1>2, <1>4, <1>7, <1>10 DEF Faithful

LEMMA ActivateServed ==
  ASSUME TypeOK, AllSound, AllServed, Activate
  PROVE  AllServed'
<1>1. Quiet /\ UNCHANGED <<w, app>>
  BY DEF Activate
<1>2. Live' = Live
  BY ActivateType
<1>3. ASSUME NEW id \in Live
      PROVE  Faithful(rq[id], rq'[id], app[id[1]], w[id[1]])
  <2>1. /\ rq[id] \in Request /\ rq[id].sig = NoSig /\ w[id[1]] \in Watcher
        /\ rq[id].state # "Deleting" => Serves(app[id[1]], w[id[1]], rq[id])
    BY <1>1, QuietServes
  <2>2. CASE rq'[id] = rq[id]
    BY <2>1, <2>2 DEF Faithful
  <2>3. CASE /\ WaitsForNetwork(id)
             /\ \E sent \in BOOLEAN : rq'[id] = Resume(rq[id], sent)
    <3>1. PICK sent \in BOOLEAN : rq'[id] = Resume(rq[id], sent)
      BY <2>3
    <3>2. rq[id].state \in {"PendingInit", "Pending"}
      BY <2>3 DEF WaitsForNetwork
    <3>3. Faithful(rq[id], Resume(rq[id], sent), app[id[1]], w[id[1]])
      BY <2>1, <3>2, ResumeServes
    <3>4. QED
      BY <3>1, <3>3
  <2>4. QED
    BY <2>2, <2>3, LiveRequest, ActivateStep
<1>4. QED
  BY <1>1, <1>2, <1>3, FaithfulStep

(* What is done for one watcher is nothing to the others. *)
LEMMA OtherServed ==
  ASSUME AllServed, NEW y \in Watchers, w'[y] = w[y], app'[y] = app[y],
         \A s \in Slots : rq'[<<y, s>>] = rq[<<y, s>>]
  PROVE  Served(y)'
<1>1. \A id \in Id : id[1] = y => rq'[id] = rq[id]
  <2> SUFFICES ASSUME NEW id \in Id, id[1] = y PROVE rq'[id] = rq[id]
    OBVIOUS
  <2>1. id \in Watchers \X Slots
    BY DEF Id
  <2>2. id[2] \in Slots /\ id = <<y, id[2]>>
    BY <2>1
  <2>3. QED
    BY <2>2
<1>2. Of(y)' = Of(y) /\ \A id \in Of(y) : rq'[id] = rq[id]
  BY <1>1 DEF Of, Live
<1>3. Current(y)' = Current(y) /\ \A id \in Current(y) : rq'[id] = rq[id]
  BY <1>2 DEF Current
<1>4. Served(y)
  BY DEF AllServed
<1>5. w[y].iSubsId # 0 => <<y, w[y].iSubsId>> \in Live'
  <2> SUFFICES ASSUME w[y].iSubsId # 0 PROVE <<y, w[y].iSubsId>> \in Live'
    OBVIOUS
  <2>1. <<y, w[y].iSubsId>> \in Live
    BY <1>4 DEF Served
  <2>2. QED
    BY <1>1, <2>1 DEF Live
<1>6. QED
  BY <1>2, <1>3, <1>4, <1>5 DEF Served

LEMMA SubscribeServed ==
  ASSUME TypeOK, AllServed, NEW x \in Watchers, NEW kind \in Kinds,
         NEW auto \in Refreshes, Subscribe(x, kind, auto)
  PROVE  AllServed'
<1> DEFINE free == {s \in Slots : rq[<<x, s>>] = NoReq}
           slot == CHOOSE s \in free : TRUE
           id == <<x, slot>>
           active == sip = "Active"
           q == NewRequest(kind, auto, active)
<1>1. /\ slot \in Slots /\ id \in Id /\ rq[id] = NoReq
      /\ kind \in Kind /\ auto \in BOOLEAN /\ active \in BOOLEAN
      /\ kind \in {"Get", "Winfo"} => auto
      /\ w[x].iRequest = "None"
  BY ConstantsAssumption DEF Subscribe, Id
<1>2. /\ Update(id, q)
      /\ w' = [w EXCEPT ![x].iRequest = kind, ![x].iResCount = 0,
                        ![x].iSubsId = IF kind = "Get" THEN @ ELSE slot]
      /\ app' = [app EXCEPT ![x] = "asked"]
  BY DEF Subscribe, InUse
<1>3. id[1] = x /\ id[2] = slot
  OBVIOUS
<1> HIDE DEF slot, active
<1>4. q \in Request
  BY <1>1, NewRequestType
<1>5. /\ q.type = kind /\ q.kind = kind /\ q.resps = 0 /\ q.sig = NoSig
      /\ q.method = "Unknown" /\ q.expires = (kind # "Get")
      /\ active => /\ q.state = "RunningInit" /\ q.trans = "subscribe"
                   /\ q.dialog \in {"open", "kept"}
      /\ ~active => q.state = "PendingInit" /\ q.trans = "none" /\ q.dialog = "none"
      /\ kind = "Get" => q.dialog # "kept"
  <2>1. CASE active
    BY <1>1, <2>1 DEF NewRequest
  <2>2. CASE ~active
    BY <1>1, <2>2 DEF NewRequest
  <2>3. QED
    BY <2>1, <2>2
<1> HIDE DEF q, id
<1>6. ASSUME NEW y \in Watchers, y # x PROVE Served(y)'
  <2>1. w'[y] = w[y] /\ app'[y] = app[y]
    BY <1>2, <1>6 DEF TypeOK
  <2>2. \A s \in Slots : rq'[<<y, s>>] = rq[<<y, s>>]
    BY <1>1, <1>2, <1>6 DEF TypeOK, Update, Id, id
  <2>3. QED
    BY <2>1, <2>2, OtherServed
<1>7. Served(x)'
  <2>1. /\ w'[x].iRequest = kind /\ w'[x].iResCount = 0
        /\ w'[x].iComplete = w[x].iComplete
        /\ w'[x].iSubsId = IF kind = "Get" THEN w[x].iSubsId ELSE slot
        /\ app'[x] = "asked"
    BY <1>2 DEF TypeOK, Watcher
  <2>2. w[x].iComplete = FALSE
    BY <1>1 DEF AllServed, Served
  <2>3. Current(x) = {}
    <3> SUFFICES ASSUME NEW i \in Current(x) PROVE FALSE
      OBVIOUS
    <3>1. i \in Live /\ rq[i].state # "Deleting" /\ i[1] = x
      BY DEF Current, Of
    <3>2. Serves(app[x], w[x], rq[i])
      BY <3>1, InUseServes
    <3>3. rq[i].type # "None"
      BY <3>1, LiveRequest DEF Request, Type, Kind
    <3>4. QED
      BY <1>1, <3>2, <3>3 DEF Serves, Standing
  <2>4. rq'[id] = q /\ \A i \in Id \ {id} : rq'[i] = rq[i]
    BY <1>1, <1>2 DEF TypeOK, Update
  <2>5. q # NoReq
    BY <1>4, NoReqDiffers
  <2>6. /\ Of(x)' = Of(x) \cup {id} /\ id \notin Of(x) /\ Live' = Live \cup {id}
        /\ \A i \in Of(x) : rq'[i] = rq[i]
    BY <1>1, <1>3, <2>4, <2>5 DEF Of, Live
  <2>7. q.state # "Deleting" /\ q.type # "DestroyStart"
    BY <1>1, <1>5 DEF Kind
  <2>8. Current(x)' = {id}
    BY <2>3, <2>4, <2>6, <2>7 DEF Current
  <2>9. Serves("asked", w'[x], q)
    <3>1. Standing("asked", w'[x], q)
      BY <1>1, <1>5, <2>1, <2>2 DEF Standing, Unanswered, Kind
    <3>2. Regular(q)
      BY <1>1, <1>5 DEF Regular, Kind
    <3>3. Starting("asked", q)
      BY <1>1, <1>5 DEF Starting, Kind
    <3>4. QED
      BY <3>1, <3>2, <3>3 DEF Serves, Phase
  <2>10. \A i \in Of(x)' : rq'[i].state = "Deleting" <=> rq'[i].type = "DestroyStart"
    <3>1. \A i \in Of(x) : rq[i].state = "Deleting" <=> rq[i].type = "DestroyStart"
      BY DEF AllServed, Served
    <3>2. QED
      BY <2>4, <2>6, <2>7, <3>1
  <2>11. w[x].iSubsId # 0 => <<x, w[x].iSubsId>> \in Live
    BY DEF AllServed, Served
  <2>12. slot # 0 /\ slot # w[x].iSubsId
    BY <1>1, <2>11, ConstantsAssumption DEF Live, id
  <2>13. w'[x].iSubsId # 0 => <<x, w'[x].iSubsId>> \in Live'
    BY <2>1, <2>6, <2>11 DEF id
  <2>14. (w'[x].iSubsId = id[2]) <=> (w'[x].iRequest # "Get")
    BY <1>3, <2>1, <2>12
  <2>15. w'[x].iRequest # "None"
    BY <1>1, <2>1 DEF Kind
  <2>16. QED
    BY <2>1, <2>4, <2>8, <2>9, <2>10, <2>13, <2>14, <2>15 DEF Served
<1>8. QED
  BY <1>6, <1>7 DEF AllServed

(* A step of one watcher and of the request it is in use by: the request   *)
(* serves on, or it has served and the watcher is free.                    *)
LEMMA WatcherStep ==
  ASSUME TypeOK, AllServed, NEW x \in Watchers, NEW id \in Live, id[1] = x,
         rq[id].state # "Deleting", NEW q \in Request, Update(id, q),
         \A y \in Watchers \ {x} : w'[y] = w[y] /\ app'[y] = app[y],
         w'[x].iSubsId = w[x].iSubsId,
         \/ /\ q.state # "Deleting" /\ Serves(app'[x], w'[x], q)
            /\ w'[x].iRequest # "None"
            /\ (w[x].iSubsId = id[2]) <=> (w'[x].iRequest # "Get")
         \/ /\ q.state = "Deleting" /\ q.type = "DestroyStart"
            /\ w'[x].iRequest = "None" /\ app'[x] = "idle"
            /\ w'[x].iComplete = FALSE
  PROVE  AllServed'
<1>1. Live' = Live
  BY UpdateKeepsLive
<1>2. id \in Id /\ rq'[id] = q /\ \A i \in Id \ {id} : rq'[i] = rq[i]
  BY LiveRequest DEF Update, TypeOK
<1>3. id[2] \in Slots /\ id = <<x, id[2]>> /\ id \in Of(x)
  BY WatcherOfLive
<1>4. ASSUME NEW y \in Watchers, y # x PROVE Served(y)'
  <2>1. w'[y] = w[y] /\ app'[y] = app[y]
    BY <1>4
  <2>2. \A s \in Slots : rq'[<<y, s>>] = rq[<<y, s>>]
    BY <1>2, <1>3, <1>4 DEF Id
  <2>3. QED
    BY <2>1, <2>2, OtherServed
<1>5. Served(x)'
  <2>1. Of(x)' = Of(x) /\ Of(x) \subseteq Id
    BY <1>1 DEF Of, Live
  <2>2. Current(x) = {id}
    BY InUseServes
  <2>3. \A i \in Of(x) : rq[i].state = "Deleting" <=> rq[i].type = "DestroyStart"
    BY DEF AllServed, Served
  <2>4. /\ q.state = "Deleting" <=> q.type = "DestroyStart"
        /\ q.state # "Deleting" => Serves(app'[x], w'[x], q)
    BY DEF Serves, Regular
  <2>5. \A i \in Of(x)' : rq'[i].state = "Deleting" <=> rq'[i].type = "DestroyStart"
    BY <1>2, <2>1, <2>3, <2>4
  <2>6. Current(x)' = IF q.state = "Deleting" THEN {} ELSE {id}
    BY <1>2, <1>3, <2>1, <2>2 DEF Current
  <2>7. w'[x].iSubsId # 0 => <<x, w'[x].iSubsId>> \in Live'
    BY <1>1 DEF AllServed, Served
  <2>8. QED
    BY <1>2, <2>4, <2>5, <2>6, <2>7 DEF Served
<1>6. QED
  BY <1>4, <1>5 DEF AllServed

(* UnsubscribeL, when it does not leave, finds the request in use, stops   *)
(* it and takes the watcher over.                                          *)
LEMMA UnsubscribeFinds ==
  ASSUME Orderly, TypeOK, AllServed, NEW x \in Watchers, Unsubscribe(x)
  PROVE  LET id == <<x, w[x].iSubsId>> IN
         /\ id \in Live /\ id[1] = x /\ id[2] = w[x].iSubsId
         /\ rq[id].state # "Deleting" /\ Serves(app[x], w[x], rq[id])
         /\ rq[id].type \notin {"Stop", "Get"} /\ app[x] \in {"asked", "on"}
         /\ w[x].iRequest \notin {"None", "Get", "Stop"}
         /\ w' = [w EXCEPT ![x].iRequest = "Stop", ![x].iComplete = FALSE,
                           ![x].iResCount = 0]
         /\ app' = [app EXCEPT ![x] = "stopping"]
<1> DEFINE id == <<x, w[x].iSubsId>>
<1>1. /\ id \in Live /\ rq[id].state # "Deleting" /\ app[x] \in {"idle", "asked", "on"}
      /\ w' = [w EXCEPT ![x].iRequest = "Stop", ![x].iComplete = FALSE,
                        ![x].iResCount = 0]
      /\ app' = [app EXCEPT ![x] = "stopping"]
  BY DEF Unsubscribe, Orderly, AsStop
<1>2. id[1] = x /\ id[2] = w[x].iSubsId
  OBVIOUS
<1> HIDE DEF id
<1>3. Serves(app[x], w[x], rq[id]) /\ Current(x) = {id} /\ rq[id].type # "DestroyStart"
  BY <1>1, <1>2, InUseServes
<1>4. w[x].iRequest # "Get"
  BY <1>2, <1>3 DEF AllServed, Served
<1>5. rq[id].type \notin {"Stop", "Get"} /\ w[x].iRequest = rq[id].type
  BY <1>1, <1>3, <1>4 DEF Serves, Standing
<1>6. rq[id].type # "None"
  BY <1>1, LiveRequest DEF Request, Type, Kind
<1>7. app[x] \in {"asked", "on"}
  BY <1>3, <1>5 DEF Serves, Standing, Unanswered, Answered
<1>8. QED
  BY <1>1, <1>2, <1>3, <1>5, <1>6, <1>7 DEF id

LEMMA UnsubscribeServed ==
  ASSUME Orderly, TypeOK, AllSound, AllServed, NEW x \in Watchers, Unsubscribe(x)
  PROVE  AllServed'
<1> DEFINE id == <<x, w[x].iSubsId>>
           old == rq[id]
           r == [old EXCEPT !.type = "Stop", !.expires = FALSE]
           p == SetReqState(r, "Stopping")
           s == SetResponseMethod(p, "Unknown")
           q == Complete(s, "Completion")
           t == [p EXCEPT !.trans = "unsubscribe", !.expiry = TRUE]
           u == w'[x]
<1>1. /\ id \in Live /\ id[1] = x /\ id[2] = w[x].iSubsId
      /\ old.state # "Deleting" /\ Serves(app[x], w[x], old)
      /\ old.type \notin {"Stop", "Get"} /\ app[x] \in {"asked", "on"}
      /\ w' = [w EXCEPT ![x].iRequest = "Stop", ![x].iComplete = FALSE,
                        ![x].iResCount = 0]
      /\ app' = [app EXCEPT ![x] = "stopping"]
  BY UnsubscribeFinds
<1>2. \/ old.state \in Parked /\ Update(id, q)
      \/ Update(id, t)
  <2>1. \/ r.state \in {"ReTry", "PendingInit", "Pending"} /\ Update(id, q)
        \/ Update(id, t)
    BY DEF Unsubscribe, Orderly, AsStop
  <2>2. r.state = old.state
    BY <1>1, LiveRequest DEF Request
  <2>3. QED
    BY <2>1, <2>2 DEF Parked
<1>3. /\ u.iRequest = "Stop" /\ u.iComplete = FALSE /\ u.iResCount = 0
      /\ u.iSubsId = w[x].iSubsId /\ u \in Watcher /\ app'[x] = "stopping"
      /\ \A y \in Watchers \ {x} : w'[y] = w[y] /\ app'[y] = app[y]
  <2>1. w[x] \in Watcher /\ 0 \in 0..2
    BY DEF TypeOK
  <2>2. u = [w[x] EXCEPT !.iRequest = "Stop", !.iComplete = FALSE, !.iResCount = 0]
    BY <1>1 DEF TypeOK
  <2>3. /\ u.iRequest = "Stop" /\ u.iComplete = FALSE /\ u.iResCount = 0
        /\ u.iSubsId = w[x].iSubsId /\ u \in Watcher
    BY <2>1, <2>2 DEF Watcher
  <2>4. app'[x] = "stopping" /\ \A y \in Watchers \ {x} : w'[y] = w[y] /\ app'[y] = app[y]
    BY <1>1 DEF TypeOK
  <2>5. QED
    BY <2>3, <2>4
<1>4. /\ old \in Request /\ Sound(old) /\ old.kind # "Get" /\ old.resps = 0
      /\ old.sig = NoSig => old.method # "Notify"
  BY <1>1, LiveRequest DEF AllSound, Serves, Regular
<1> HIDE DEF old, u, id
<1>5. /\ r \in Request /\ r.type = "Stop" /\ r.kind = old.kind /\ r.resps = old.resps
      /\ r.method = old.method /\ r.sig = old.sig /\ r.dialog = old.dialog
  BY <1>4 DEF Request, Type
<1> HIDE DEF r
<1>6. /\ p \in Request /\ Alike(r, p) /\ p.state = "Stopping" /\ p.dialog = r.dialog
      /\ p.sig = r.sig
  BY <1>5, SetReqStateAlike DEF ReqState
<1> HIDE DEF p
<1>7. /\ s \in Request /\ s.type = p.type /\ s.kind = p.kind /\ s.resps = p.resps
      /\ s.method = "Unknown" /\ s.sig = p.sig /\ s.state = p.state
  BY <1>6 DEF SetResponseMethod, Request
<1> HIDE DEF s
<1>8. /\ t \in Request /\ t.type = p.type /\ t.kind = p.kind /\ t.resps = p.resps
      /\ t.method = p.method /\ t.sig = p.sig /\ t.state = p.state
  BY <1>6 DEF Request
<1> HIDE DEF t
<1>9. /\ old.state \in Parked => Serves("stopping", u, q) /\ q.state # "Deleting"
      /\ q \in Request
  <2>1. q \in Request
    BY <1>7, CompleteType DEF Status
  <2>2. ASSUME old.state \in Parked
        PROVE  Serves("stopping", u, q) /\ q.state # "Deleting"
    <3>1. s.sig = NoSig
      BY <1>4, <1>5, <1>6, <1>7, <2>2 DEF Sound
    <3>2. Standing("stopping", u, s) /\ Regular(s)
      BY <1>3, <1>4, <1>5, <1>6, <1>7 DEF Standing, Regular, Alike
    <3>3. Serves("stopping", u, q) /\ q.state \in {"Complete", "Failed", "ReTry"}
      BY <1>3, <1>5, <1>6, <1>7, <3>1, <3>2, FailsServes DEF Alike
    <3>4. QED
      BY <3>3
  <2>3. QED
    BY <2>1, <2>2
<1>10. Serves("stopping", u, t)
  <2>1. Standing("stopping", u, t) /\ Regular(t)
    BY <1>3, <1>4, <1>5, <1>6, <1>8 DEF Standing, Regular, Alike
  <2>2. t.resps = 0 /\ t.type = "Stop" /\ t.state = "Stopping"
    BY <1>4, <1>5, <1>6, <1>8 DEF Alike
  <2>3. 0 <= Delivered(u, t)
    <3> DEFINE status == IF t.sig = "Pend" THEN "OK" ELSE t.sig
               byNotify == t.method = "Notify"
    <3>1. Counted(u.iResCount, byNotify, status) \in 0..2
      BY <1>3, CountedType DEF Watcher
    <3>2. Delivered(u, t) = IF t.sig = NoSig THEN u.iResCount
                            ELSE Counted(u.iResCount, byNotify, status)
      BY DEF Delivered
    <3>3. QED
      BY <1>3, <3>1, <3>2
  <2>4. Ceasing(u, t)
    BY <2>2, <2>3 DEF Ceasing
  <2>5. QED
    BY <2>1, <2>4 DEF Serves, Phase
<1> HIDE DEF q
<1>11. PICK v \in {q, t} : /\ Update(id, v) /\ v \in Request
                           /\ Serves("stopping", u, v) /\ v.state # "Deleting"
  BY <1>2, <1>6, <1>8, <1>9, <1>10
<1>12. QED
  BY <1>1, <1>3, <1>11, WatcherStep DEF u, old

(* What CSimpleWatcher::Complete makes of the completion of a request in   *)
(* use: the watcher is free and the application idle, or the request goes  *)
(* on and the application has been told that it is subscribed, or that the *)
(* fetch is accepted, or nothing.                                          *)
LEMMA DeliverOutcome ==
  ASSUME TypeOK, AllSound, AllServed, NEW id \in Live, Deliver(id),
         rq[id].sig # NoSig
  PROVE  LET x == id[1]
             r == rq[id]
             n == Delivered(w[x], r)
             idle == [r EXCEPT !.sig = NoSig, !.method = "Unknown"]
         IN /\ x \in Watchers /\ r.state # "Deleting" /\ Serves(app[x], w[x], r)
            /\ n \in 0..2
            /\ Update(id, IF n > 1
                            THEN DestroyStart([idle EXCEPT !.type = "DestroyStart"])
                            ELSE idle)
            /\ \A y \in Watchers \ {x} : w'[y] = w[y] /\ app'[y] = app[y]
            /\ w'[x] = [w[x] EXCEPT !.iResCount = n,
                                    !.iRequest = IF n > 1 THEN "None" ELSE @,
                                    !.iComplete = w'[x].iComplete]
            /\ n > 1 => app'[x] = "idle" /\ w'[x].iComplete = FALSE
            /\ n < 2 =>
                 IF Begun(app[x], r)
                   THEN /\ app'[x] = IF r.type = "Get" THEN "idle" ELSE "on"
                        /\ w'[x].iComplete = TRUE
                   ELSE /\ app'[x] = app[x]
                        /\ w'[x].iComplete = w[x].iComplete
<1> DEFINE x == id[1]
           r == rq[id]
           u == w[x]
           a == app[x]
           status == IF r.sig = "Pend" THEN "OK" ELSE r.sig
           byNotify == r.method = "Notify"
           n == Counted(u.iResCount, byNotify, status)
           over == n > 1
           answers == IF byNotify THEN r.type = "Stop" /\ over
                      ELSE ~u.iComplete /\ (r.type = "Stop" => over)
           ends == over /\ r.type \notin {"Stop", "Get"} /\ ~answers
           told == IF answers
                     THEN ReqComplete(a, IF r.type = "Stop" THEN "OK" ELSE status, r.type)
                     ELSE a
           idle == [r EXCEPT !.sig = NoSig, !.method = "Unknown"]
           gone == DestroyStart([idle EXCEPT !.type = "DestroyStart"])
<1>1. /\ r.type # "DestroyStart"
      /\ Update(id, IF over THEN gone ELSE idle)
      /\ w' = [w EXCEPT ![x].iResCount = n,
                        ![x].iRequest = IF over THEN "None" ELSE @,
                        ![x].iComplete = ~over /\ (@ \/ answers)]
      /\ app' = [app EXCEPT ![x] = IF ends THEN Terminated(told) ELSE told]
  BY DEF Deliver, Answers
<1>2. x \in Watchers /\ u \in Watcher /\ r \in Request /\ Sound(r) /\ id \in Of(x)
  BY WatcherOfLive, LiveRequest DEF AllSound
<1>3. r.state # "Deleting"
  BY <1>1, <1>2 DEF AllServed, Served
<1>4. Serves(a, u, r)
  BY <1>2, <1>3, InUseServes
<1>5. n = Delivered(u, r) /\ n \in 0..2
  <2>1. n \in 0..2
    BY <1>2, CountedType DEF Watcher
  <2>2. QED
    BY <2>1 DEF Delivered
<1>6. app'[x] = IF ends THEN Terminated(told) ELSE told
  BY <1>1, <1>2 DEF TypeOK
<1>7. /\ w'[x].iComplete = (~over /\ (u.iComplete \/ answers))
      /\ w'[x] = [u EXCEPT !.iResCount = n, !.iRequest = IF over THEN "None" ELSE @,
                           !.iComplete = w'[x].iComplete]
  <2> DEFINE b == ~over /\ (u.iComplete \/ answers)
  <2>1. w'[x] = [u EXCEPT !.iResCount = n, !.iRequest = IF over THEN "None" ELSE @,
                          !.iComplete = b]
    BY <1>1, <1>2 DEF TypeOK
  <2> HIDE DEF b
  <2>2. w'[x].iComplete = b
    BY <1>2, <2>1 DEF Watcher
  <2>3. QED
    BY <2>1, <2>2 DEF b
<1>8. \A y \in Watchers \ {x} : w'[y] = w[y] /\ app'[y] = app[y]
  BY <1>1, <1>2 DEF TypeOK
<1> HIDE DEF x, r, u, a, idle, gone
<1>9. /\ Unanswered(a, u) => /\ a = "asked" /\ u.iResCount = 0 /\ u.iComplete = FALSE
      /\ Answered(a, u, "on") => a = "on" /\ u.iResCount = 1 /\ u.iComplete = TRUE
      /\ Answered(a, u, "idle") => a = "idle" /\ u.iResCount = 1 /\ u.iComplete = TRUE
  BY DEF Unanswered, Answered
<1>10. /\ r.type = "Stop" => a = "stopping" /\ u.iResCount < 2 /\ u.iComplete = FALSE
       /\ r.type = "Get" => Unanswered(a, u) \/ Answered(a, u, "idle")
       /\ r.type \notin {"Stop", "Get"} => Unanswered(a, u) \/ Answered(a, u, "on")
  BY <1>4 DEF Serves, Standing
<1>11. ASSUME over
       PROVE  app'[x] = "idle" /\ w'[x].iComplete = FALSE
  <2>1. w'[x].iComplete = FALSE
    BY <1>7, <1>11
  <2>2. CASE r.type = "Stop"
    <3>1. a = "stopping" /\ u.iComplete = FALSE
      BY <1>10, <2>2
    <3>2. answers
      BY <1>11, <3>1, <2>2
    <3>3. ~ends
      BY <2>2
    <3> HIDE DEF ends, answers
    <3>4. QED
      BY <1>6, <2>1, <3>1, <3>2, <3>3 DEF ReqComplete
  <2>3. CASE r.type # "Stop" /\ Unanswered(a, u)
    <3>1. a = "asked" /\ u.iResCount = 0 /\ u.iComplete = FALSE
      BY <1>9, <2>3
    <3>2. ~byNotify /\ status # "OK"
      BY <1>11, <3>1 DEF Counted
    <3>3. answers
      BY <2>3, <3>1, <3>2
    <3>4. ~ends
      BY <3>3
    <3> HIDE DEF ends, answers, status
    <3>5. QED
      BY <1>6, <2>1, <2>3, <3>1, <3>2, <3>3, <3>4 DEF ReqComplete
  <2>4. CASE r.type # "Stop" /\ ~Unanswered(a, u)
    <3>1. u.iComplete = TRUE
      BY <1>9, <1>10, <2>4
    <3>2. ~answers
      BY <2>4, <3>1
    <3>3. CASE r.type = "Get"
      <4>1. ~ends /\ a = "idle"
        BY <1>9, <1>10, <2>4, <3>3
      <4> HIDE DEF ends, answers
      <4>2. QED
        BY <1>6, <2>1, <3>2, <4>1
    <3>4. CASE r.type # "Get"
      <4>1. ends /\ a = "on"
        BY <1>9, <1>10, <1>11, <2>4, <3>2, <3>4
      <4> HIDE DEF ends, answers
      <4>2. QED
        BY <1>6, <2>1, <3>2, <4>1 DEF Terminated
    <3>5. QED
      BY <3>3, <3>4
  <2>5. QED
    BY <2>2, <2>3, <2>4
<1>12. ASSUME ~over, Begun(a, r)
       PROVE  /\ app'[x] = IF r.type = "Get" THEN "idle" ELSE "on"
              /\ w'[x].iComplete = TRUE
  <2>1. a = "asked" /\ r.type # "Stop" /\ status = "OK" /\ ~byNotify
    BY <1>12 DEF Begun, Accepted
  <2>2. u.iComplete = FALSE
    BY <1>9, <1>10, <2>1 DEF Answered
  <2>3. answers
    BY <2>1, <2>2
  <2>4. ~ends
    BY <2>3
  <2> HIDE DEF ends, answers, status, byNotify, over
  <2>5. app'[x] = IF r.type = "Get" THEN "idle" ELSE "on"
    BY <1>6, <2>1, <2>3, <2>4 DEF ReqComplete
  <2>6. w'[x].iComplete = TRUE
    BY <1>7, <1>12, <2>3
  <2>7. QED
    BY <2>5, <2>6
<1>13. ASSUME ~over, ~Begun(a, r)
       PROVE  app'[x] = a /\ w'[x].iComplete = u.iComplete
  <2>1. r.sig # NoSig /\ ~Ended(u, r)
    BY <1>5, <1>13 DEF Ended, r
  <2>2. \/ r.type = "Stop"
        \/ byNotify /\ r.type # "Stop"
    BY <1>4, <1>13, <2>1 DEF Serves, Phase, Starting, On, Fetching, Ceasing
  <2>3. ~answers
    BY <1>13, <2>2
  <2>4. ~ends
    BY <1>13
  <2>5. u.iComplete \in BOOLEAN
    BY <1>2 DEF Watcher
  <2> HIDE DEF ends, answers, over
  <2>6. QED
    BY <1>6, <1>7, <1>13, <2>3, <2>4, <2>5
<1>14. n > 1 <=> over
  OBVIOUS
<1>15. n < 2 <=> ~over
  BY <1>5
<1> HIDE DEF n, over, ends, answers, status, byNotify
<1>16. QED
  BY <1>1, <1>2, <1>3, <1>4, <1>5, <1>7, <1>8, <1>11, <1>12, <1>13, <1>14, <1>15
     DEF x, r, u, a, idle, gone

LEMMA DeliverServed ==
  ASSUME TypeOK, AllSound, AllServed, NEW id \in Live, Deliver(id),
         rq[id].sig # NoSig
  PROVE  AllServed'
<1> DEFINE x == id[1]
           r == rq[id]
           u == w[x]
           v == w'[x]
           a == app[x]
           n == Delivered(u, r)
           idle == [r EXCEPT !.sig = NoSig, !.method = "Unknown"]
           last == [idle EXCEPT !.type = "DestroyStart"]
           gone == DestroyStart(last)
<1>1. /\ x \in Watchers /\ r.state # "Deleting" /\ Serves(a, u, r)
      /\ n \in 0..2
      /\ Update(id, IF n > 1 THEN gone ELSE idle)
      /\ \A y \in Watchers \ {x} : w'[y] = w[y] /\ app'[y] = app[y]
      /\ v = [u EXCEPT !.iResCount = n, !.iRequest = IF n > 1 THEN "None" ELSE @,
                       !.iComplete = v.iComplete]
      /\ n > 1 => app'[x] = "idle" /\ v.iComplete = FALSE
      /\ n < 2 => IF Begun(a, r)
                    THEN /\ app'[x] = IF r.type = "Get" THEN "idle" ELSE "on"
                         /\ v.iComplete = TRUE
                    ELSE app'[x] = a /\ v.iComplete = u.iComplete
  BY DeliverOutcome, Zenon
<1>2. r \in Request /\ r.sig # NoSig /\ u \in Watcher
  BY LiveRequest, WatcherOfLive
<1>3. Current(x) = {id} /\ ((u.iSubsId = id[2]) <=> (u.iRequest # "Get"))
  BY <1>1, InUseServes
<1> HIDE DEF n, r, u, v, a
<1>4. /\ v.iResCount = n /\ v.iSubsId = u.iSubsId
      /\ v.iRequest = IF n > 1 THEN "None" ELSE u.iRequest
  BY <1>1, <1>2 DEF Watcher
<1>5. /\ idle \in Request /\ idle.type = r.type /\ idle.kind = r.kind
      /\ idle.resps = r.resps /\ idle.expires = r.expires /\ idle.trans = r.trans
      /\ idle.dialog = r.dialog /\ idle.state = r.state
      /\ idle.sig = NoSig /\ idle.method = "Unknown"
  BY <1>2 DEF Request
<1> HIDE DEF idle
<1>6. last \in Request /\ last.type = "DestroyStart"
  BY <1>5 DEF Request, Type
<1> HIDE DEF last
<1>7. gone \in Request /\ gone.state = "Deleting" /\ gone.type = "DestroyStart"
  <2>1. /\ SetReqState(last, "Deleting") \in Request
        /\ Alike(last, SetReqState(last, "Deleting"))
        /\ SetReqState(last, "Deleting").state = "Deleting"
    BY <1>6, SetReqStateAlike DEF ReqState
  <2>2. gone.state = "Deleting" /\ gone.type = "DestroyStart"
    BY <1>6, <2>1 DEF DestroyStart, Request, Alike
  <2>3. QED
    BY <1>6, <2>2, DestroyStartType
<1> HIDE DEF gone
<1>8. CASE n > 1
  BY <1>1, <1>2, <1>4, <1>7, <1>8, WatcherStep DEF r, u, v, x
<1>9. CASE ~(n > 1)
  <2>1. n < 2 /\ v.iRequest = u.iRequest /\ v.iRequest = r.type
    BY <1>1, <1>4, <1>9 DEF Serves, Standing
  <2>2. r.type # "None"
    BY <1>2 DEF Request, Type, Kind
  <2>3. Regular(idle)
    BY <1>1, <1>5 DEF Serves, Regular
  <2>4. ASSUME Serves(app'[x], v, idle) PROVE AllServed'
    <3>1. /\ x \in Watchers /\ rq[id].state # "Deleting" /\ Update(id, idle)
          /\ idle \in Request /\ idle.state # "Deleting"
      BY <1>1, <1>5, <1>9 DEF r
    <3>2. \A y \in Watchers \ {x} : w'[y] = w[y] /\ app'[y] = app[y]
      BY <1>1
    <3>3. /\ w'[x].iSubsId = w[x].iSubsId /\ w'[x].iRequest # "None"
          /\ (w[x].iSubsId = id[2]) <=> (w'[x].iRequest # "Get")
      BY <1>3, <1>4, <2>1, <2>2 DEF u, v
    <3>4. Serves(app'[x], w'[x], idle)
      BY <2>4 DEF v
    <3>5. id[1] = x
      BY DEF x
    <3> HIDE DEF x
    <3>6. QED
      BY <3>1, <3>2, <3>3, <3>4, <3>5, WatcherStep
  <2>5. CASE Begun(a, r)
    <3>1. r.type # "Stop" /\ a = "asked" /\ r.sig \in Accepted /\ r.method # "Notify"
      BY <2>5 DEF Begun
    <3>2. u.iResCount = 0
      BY <1>1, <3>1 DEF Serves, Standing, Unanswered, Answered
    <3>3. n = 1
      BY <1>2, <3>1, <3>2, CountsOne DEF n
    <3>4. app'[x] = (IF r.type = "Get" THEN "idle" ELSE "on") /\ v.iComplete = TRUE
      BY <1>1, <2>1, <2>5
    <3>5. Standing(app'[x], v, idle)
      BY <1>4, <1>5, <2>1, <3>1, <3>3, <3>4 DEF Standing, Answered
    <3>6. On(app'[x], idle) \/ Fetching(app'[x], idle)
      BY <1>5, <2>5, <3>1, <3>4 DEF On, Fetching, Begun, Open, Established
    <3>7. Serves(app'[x], v, idle)
      BY <2>3, <3>5, <3>6 DEF Serves, Phase
    <3>8. QED
      BY <2>4, <3>7
  <2>6. CASE ~Begun(a, r)
    <3>1. app'[x] = a /\ v.iComplete = u.iComplete
      BY <1>1, <2>1, <2>6
    <3>2. ~Ended(u, r)
      BY <1>9 DEF Ended, n
    <3>3. \/ On(a, r) /\ r.sig \in Accepted /\ r.method = "Notify"
          \/ Fetching(a, r) /\ r.sig \in Accepted /\ r.method = "Notify"
          \/ Ceasing(u, r)
      BY <1>1, <1>2, <2>6, <3>2 DEF Serves, Phase, Starting, On, Fetching
    <3>4. ASSUME r.sig \in Accepted, r.method = "Notify" PROVE n = u.iResCount
      <4>1. (IF r.sig = "Pend" THEN "OK" ELSE r.sig) = "OK"
        BY <3>4 DEF Accepted
      <4>2. u.iResCount \in 0..2
        BY <1>2 DEF Watcher
      <4>3. Counted(u.iResCount, r.method = "Notify", "OK") = u.iResCount
        BY <3>4, <4>2 DEF Counted
      <4>4. QED
        BY <1>2, <4>1, <4>3 DEF Delivered, n
    <3>5. On(a, r) => On(a, idle)
      BY <1>2, <1>5 DEF On, Established
    <3>6. Fetching(a, r) => Fetching(a, idle)
      BY <1>5 DEF Fetching, Open
    <3>7. Ceasing(u, r) => Ceasing(v, idle)
      BY <1>4, <1>5 DEF Ceasing, Delivered, n
    <3>8. Phase(a, v, idle)
      BY <3>3, <3>5, <3>6, <3>7 DEF Phase
    <3>9. Standing(a, v, idle)
      <4>1. CASE r.type = "Stop"
        BY <1>1, <1>4, <1>5, <2>1, <3>1, <4>1 DEF Serves, Standing
      <4>2. CASE r.type # "Stop"
        <5>1. n = u.iResCount
          BY <3>3, <3>4, <4>2 DEF Ceasing
        <5>2. QED
          BY <1>1, <1>4, <1>5, <2>1, <3>1, <4>2, <5>1
             DEF Serves, Standing, Unanswered, Answered
      <4>3. QED
        BY <4>1, <4>2
    <3>10. Serves(app'[x], v, idle)
      BY <2>3, <3>1, <3>8, <3>9 DEF Serves
    <3>11. QED
      BY <2>4, <3>10
  <2>7. QED
    BY <2>5, <2>6
<1>10. QED
  BY <1>8, <1>9

(* The end of the delayed deletion: the watcher forgets the subscription.  *)
LEMMA DestroyServed ==
  ASSUME TypeOK, AllServed, NEW id \in Live, Destroy(id)
  PROVE  AllServed'
<1> DEFINE x == id[1]
<1>1. /\ rq[id].type = "DestroyStart" /\ Remove({id}) /\ app' = app
      /\ w' = [w EXCEPT ![x].iSubsId = IF @ = id[2] THEN 0 ELSE @]
  BY DEF Destroy
<1>2. /\ x \in Watchers /\ id[2] \in Slots /\ id = <<x, id[2]>> /\ id \in Of(x)
      /\ w[x] \in Watcher
  BY WatcherOfLive
<1>3. \A i \in Id : rq'[i] = IF i = id THEN NoReq ELSE rq[i]
  BY <1>1 DEF Remove
<1> HIDE DEF x
<1>4. ASSUME NEW y \in Watchers, y # x PROVE Served(y)'
  <2>1. w'[y] = w[y] /\ app'[y] = app[y]
    BY <1>1, <1>4 DEF TypeOK
  <2>2. \A s \in Slots : rq'[<<y, s>>] = rq[<<y, s>>]
    BY <1>2, <1>3, <1>4 DEF Id
  <2>3. QED
    BY <2>1, <2>2, OtherServed
<1>5. Served(x)'
  <2> DEFINE v == w'[x]
             u == w[x]
  <2>1. v = [u EXCEPT !.iSubsId = IF u.iSubsId = id[2] THEN 0 ELSE u.iSubsId]
    BY <1>1, <1>2 DEF TypeOK
  <2>2. Served(x)
    BY <1>2 DEF AllServed
  <2> HIDE DEF v
  <2>3. /\ v.iRequest = u.iRequest /\ v.iResCount = u.iResCount
        /\ v.iComplete = u.iComplete
        /\ v.iSubsId = IF u.iSubsId = id[2] THEN 0 ELSE u.iSubsId
    BY <1>2, <2>1 DEF Watcher
  <2>4. Live' = Live \ {id} /\ Of(x)' = Of(x) \ {id}
    BY <1>3 DEF Live, Of
  <2>5. rq[id].state = "Deleting"
    BY <1>1, <1>2, <2>2 DEF Served
  <2>6. /\ Current(x)' = Current(x) /\ id \notin Current(x)
        /\ \A i \in Of(x)' : rq'[i] = rq[i]
    BY <1>3, <2>4, <2>5 DEF Current, Of, Live
  <2>7. \A i \in Of(x)' : rq'[i].state = "Deleting" <=> rq'[i].type = "DestroyStart"
    <3>1. \A i \in Of(x) : rq[i].state = "Deleting" <=> rq[i].type = "DestroyStart"
      BY <2>2 DEF Served
    <3>2. QED
      BY <2>4, <2>6, <3>1
  <2>8. v.iSubsId # 0 => <<x, v.iSubsId>> \in Live'
    <3> SUFFICES ASSUME v.iSubsId # 0 PROVE <<x, v.iSubsId>> \in Live'
      OBVIOUS
    <3>1. u.iSubsId = v.iSubsId /\ u.iSubsId # id[2]
      BY <2>3
    <3>2. <<x, u.iSubsId>> \in Live /\ <<x, u.iSubsId>> # id
      BY <1>2, <2>2, <3>1 DEF Served
    <3>3. QED
      BY <2>4, <3>1, <3>2
  <2>9. u.iRequest = "None" => app[x] = "idle" /\ u.iComplete = FALSE
    BY <2>2 DEF Served
  <2>10. ASSUME NEW i \in Current(x)
         PROVE  /\ Current(x) = {i} /\ Serves(app[x], v, rq'[i])
                /\ (v.iSubsId = i[2]) <=> (v.iRequest # "Get")
    <3>1. /\ Current(x) = {i} /\ Serves(app[x], u, rq[i])
          /\ (u.iSubsId = i[2]) <=> (u.iRequest # "Get")
      BY <2>2 DEF Served
    <3>2. i \in Of(x)' /\ i \in Live /\ i[1] = x /\ i # id
      BY <2>4, <2>6 DEF Current, Of
    <3>3. i[2] \in Slots /\ i = <<x, i[2]>>
      BY <3>2, WatcherOfLive
    <3>4. i[2] # id[2] /\ i[2] # 0
      BY <1>2, <3>2, <3>3, ConstantsAssumption
    <3>5. (v.iSubsId = i[2]) <=> (v.iRequest # "Get")
      BY <2>3, <3>1, <3>4
    <3>6. Delivered(v, rq[i]) = Delivered(u, rq[i])
      BY <2>3 DEF Delivered
    <3>7. Standing(app[x], v, rq[i])
      BY <2>3, <3>1 DEF Serves, Standing, Unanswered, Answered
    <3>8. Phase(app[x], v, rq[i])
      BY <3>1, <3>6 DEF Serves, Phase, Ceasing, Ended
    <3>9. Serves(app[x], v, rq[i])
      BY <3>1, <3>7, <3>8 DEF Serves
    <3>10. QED
      BY <2>6, <3>1, <3>2, <3>5, <3>9
  <2>11. u.iRequest # "None" => Current(x) # {}
    BY <2>2 DEF Served
  <2>12. Current(x)' = Current(x) /\ app'[x] = app[x]
    BY <1>1, <2>6
  <2>13. QED
    BY <2>3, <2>7, <2>8, <2>9, <2>10, <2>11, <2>12 DEF Served, v
<1>6. QED
  BY <1>4, <1>5 DEF AllServed

LEMMA CloseServed ==
  ASSUME TypeOK, AllServed, NEW x \in Watchers, Close(x)
  PROVE  AllServed'
<1>1. /\ Remove(Of(x)) /\ app' = [app EXCEPT ![x] = "idle"]
      /\ w' = [w EXCEPT ![x] = NewWatcher(w[x].winfo)]
  BY DEF Close
<1>2. \A i \in Id : rq'[i] = IF i \in Of(x) THEN NoReq ELSE rq[i]
  BY <1>1 DEF Remove
<1>3. ASSUME NEW y \in Watchers, y # x PROVE Served(y)'
  <2>1. w'[y] = w[y] /\ app'[y] = app[y]
    BY <1>1, <1>3 DEF TypeOK
  <2>2. \A s \in Slots : rq'[<<y, s>>] = rq[<<y, s>>]
    BY <1>2, <1>3 DEF Id, Of
  <2>3. QED
    BY <2>1, <2>2, OtherServed
<1>4. Served(x)'
  <2>1. Of(x)' = {}
    BY <1>2 DEF Of, Live
  <2>2. Current(x)' = {}
    BY <2>1 DEF Current
  <2>3. w'[x] = NewWatcher(w[x].winfo) /\ app'[x] = "idle"
    BY <1>1 DEF TypeOK
  <2>4. /\ w'[x].iSubsId = 0 /\ w'[x].iRequest = "None" /\ w'[x].iComplete = FALSE
    BY <2>3 DEF NewWatcher
  <2>5. QED
    BY <2>1, <2>2, <2>3, <2>4 DEF Served
<1>5. QED
  BY <1>3, <1>4 DEF AllServed

LEMMA NextServed ==
  ASSUME Orderly, TypeOK, AllSound, AllServed, [Next]_vars
  PROVE  AllServed'
<1>1. CASE App
  BY <1>1, SubscribeServed, UnsubscribeServed, CloseServed DEF App
<1>2. ASSUME NEW id \in Id, RunL(id) PROVE AllServed'
  <2>1. id \in Live /\ rq[id].sig # NoSig
    BY <1>2 DEF RunL
  <2>2. QED
    BY <1>2, <2>1, DestroyServed, DeliverServed DEF RunL
<1>3. CASE Engine
  BY <1>2, <1>3, ExpiryFiresServed, RefreshFiresServed DEF Engine
<1>4. CASE Suspend
  BY <1>4, SuspendServed DEF Suspend
<1>5. CASE Network
  BY <1>4, <1>5, ResponseServed, TransactionFailsServed, RefreshFailsServed,
     NotifyStateServed, NotifyTerminatedServed, DisconnectServed, ActivateServed
     DEF Network
<1>6. CASE UNCHANGED vars
  BY <1>6, SuspendServed DEF vars
<1>7. QED
  BY <1>1, <1>3, <1>5, <1>6 DEF Next

LEMMA ServedInvariance == ASSUME Orderly PROVE Spec => []AllServed
<1>1. Init => AllServed
  <2> SUFFICES ASSUME Init PROVE AllServed
    OBVIOUS
  <2>1. Live = {}
    BY DEF Init, Live
  <2>2. \A x \in Watchers : Of(x) = {} /\ Current(x) = {}
    BY <2>1 DEF Of, Current
  <2>3. \A x \in Watchers : /\ w[x].iSubsId = 0 /\ w[x].iRequest = "None"
                            /\ w[x].iComplete = FALSE /\ app[x] = "idle"
    BY DEF Init, NewWatcher
  <2>4. QED
    BY <2>2, <2>3 DEF AllServed, Served
<1>2. TypeOK /\ AllSound /\ AllServed /\ [Next]_vars => AllServed'
  BY NextServed
<1>3. QED
  BY <1>1, <1>2, TypeCorrect, RequestsSound, PTL DEF Spec

(* What the application believes is so: once every completion has been     *)
(* delivered, a watcher that WatcherReqCompleteL has told it is subscribed *)
(* has a live subscription, unless a NOTIFY overtakes the response, a call *)
(* of UnsubscribeL leaves, the server reports "pending" late or asks for a *)
(* retry.                                                                  *)
THEOREM TrulyOn == ASSUME Orderly PROVE Spec => []ToldOnIsOn
BY ServedInvariance, ServedTold, PTL

(* And no subscription is alive that the application does not know of.     *)
THEOREM NothingOrphaned == ASSUME Orderly PROVE Spec => []NoOrphan
BY TypeCorrect, ServedInvariance, ServedNoOrphan, PTL

(* Whatever the application waits for, a posted completion or a timer of   *)
(* the request bounds the wait.                                            *)
THEOREM WaitsAreTimed == ASSUME Orderly PROVE Spec => []AppWaitIsTimed
BY TypeCorrect, RequestsSound, ServedInvariance, ServedTimed, PTL

(* No watcher is left in use by a request that has ended and that no event *)
(* will collect.                                                           *)
THEOREM NeverLeftInUse == ASSUME Orderly PROVE Spec => []NeverStuck
BY TypeCorrect, ServedInvariance, ServedNeverStuck, PTL

-----------------------------------------------------------------------------
(* The safety half of the watcher's contract: every step of the engine is  *)
(* a step of WatcherContract or changes nothing that it speaks of.         *)

LEMMA PromiseStutters ==
  ASSUME UNCHANGED app, \A x \in Watchers : w'[x].iRequest = w[x].iRequest
  PROVE  UNCHANGED Promise!vars
BY DEF Promise!vars, Use

LEMMA PromiseBecomes ==
  ASSUME TypeOK, TypeOK', NEW x \in Watchers,
         \A y \in Watchers \ {x} : w'[y] = w[y] /\ app'[y] = app[y]
  PROVE  Promise!Becomes(x, app'[x], Use(x)')
<1>1. app' = [app EXCEPT ![x] = app'[x]]
  BY DEF TypeOK
<1>2. \A y \in Watchers \ {x} : Use(y)' = Use(y)
  BY DEF Use
<1>3. [y \in Watchers |-> Use(y)]' = [[y \in Watchers |-> Use(y)] EXCEPT ![x] = Use(x)']
  BY <1>2
<1>4. QED
  BY <1>1, <1>3 DEF Promise!Becomes

LEMMA SubscribeKeepsPromise ==
  ASSUME TypeOK, TypeOK', NEW x \in Watchers, NEW kind \in Kinds,
         NEW auto \in Refreshes, Subscribe(x, kind, auto)
  PROVE  Promise!Next
<1> DEFINE slot == CHOOSE s \in {s \in Slots : rq[<<x, s>>] = NoReq} : TRUE
<1>1. /\ app[x] = "idle" /\ w[x].iRequest = "None"
      /\ w' = [w EXCEPT ![x].iRequest = kind, ![x].iResCount = 0,
                        ![x].iSubsId = IF kind = "Get" THEN @ ELSE slot]
      /\ app' = [app EXCEPT ![x] = "asked"]
  BY DEF Subscribe, InUse
<1> HIDE DEF slot
<1>2. kind \in Kind
  BY ConstantsAssumption
<1>3. w'[x].iRequest = kind /\ app'[x] = "asked"
  BY <1>1 DEF TypeOK, Watcher
<1>4. \A y \in Watchers \ {x} : w'[y] = w[y] /\ app'[y] = app[y]
  BY <1>1 DEF TypeOK
<1>5. Promise!Becomes(x, "asked", Use(x)')
  BY <1>3, <1>4, PromiseBecomes
<1>6. Use(x) = "free" /\ Use(x)' \in {"subscription", "fetch"}
  BY <1>1, <1>2, <1>3 DEF Use, Kind
<1>7. Promise!Ask(x)
  BY <1>1, <1>5, <1>6 DEF Promise!Ask
<1>8. QED
  BY <1>7 DEF Promise!Next

LEMMA UnsubscribeKeepsPromise ==
  ASSUME Orderly, TypeOK, TypeOK', AllServed, NEW x \in Watchers, Unsubscribe(x)
  PROVE  Promise!Next
<1>1. /\ app[x] \in {"asked", "on"} /\ w[x].iRequest \notin {"None", "Get", "Stop"}
      /\ w' = [w EXCEPT ![x].iRequest = "Stop", ![x].iComplete = FALSE,
                        ![x].iResCount = 0]
      /\ app' = [app EXCEPT ![x] = "stopping"]
  BY UnsubscribeFinds
<1>2. w'[x].iRequest = "Stop" /\ app'[x] = "stopping"
  BY <1>1 DEF TypeOK, Watcher
<1>3. \A y \in Watchers \ {x} : w'[y] = w[y] /\ app'[y] = app[y]
  BY <1>1 DEF TypeOK
<1>4. Use(x) = "subscription" /\ Use(x)' = "subscription"
  BY <1>1, <1>2 DEF Use
<1>5. Promise!Becomes(x, "stopping", "subscription")
  BY <1>2, <1>3, <1>4, PromiseBecomes
<1>6. Promise!Stop(x)
  BY <1>1, <1>4, <1>5 DEF Promise!Stop
<1>7. QED
  BY <1>6 DEF Promise!Next

LEMMA DeliverKeepsPromise ==
  ASSUME TypeOK, TypeOK', AllSound, AllServed, NEW id \in Live, Deliver(id),
         rq[id].sig # NoSig
  PROVE  Promise!Next \/ UNCHANGED Promise!vars
<1> DEFINE x == id[1]
           r == rq[id]
           u == w[x]
           v == w'[x]
           a == app[x]
           n == Delivered(u, r)
<1>1. /\ x \in Watchers /\ Serves(a, u, r)
      /\ n \in 0..2
      /\ \A y \in Watchers \ {x} : w'[y] = w[y] /\ app'[y] = app[y]
      /\ v = [u EXCEPT !.iResCount = n, !.iRequest = IF n > 1 THEN "None" ELSE @,
                       !.iComplete = v.iComplete]
      /\ n > 1 => app'[x] = "idle"
      /\ n < 2 => IF Begun(a, r) THEN app'[x] = IF r.type = "Get" THEN "idle" ELSE "on"
                                 ELSE app'[x] = a
  BY DeliverOutcome
<1>2. r \in Request /\ u \in Watcher
  BY LiveRequest, WatcherOfLive
<1>3. Promise!Becomes(x, app'[x], Use(x)')
  BY <1>1, PromiseBecomes
<1>4. v.iRequest = IF n > 1 THEN "None" ELSE u.iRequest
  <2> HIDE DEF n, v
  <2>1. QED
    BY <1>1, <1>2 DEF Watcher
<1>5. /\ u.iRequest = r.type
      /\ Use(x) = (IF r.type = "Get" THEN "fetch" ELSE "subscription")
      /\ a \in {"asked", "stopping", "on", "idle"}
      /\ a = "idle" => r.type = "Get"
  <2>1. r.type # "None"
    BY <1>2 DEF Request, Type, Kind
  <2>2. u.iRequest = r.type
    BY <1>1 DEF Serves, Standing
  <2>3. a \in {"asked", "stopping", "on", "idle"} /\ (a = "idle" => r.type = "Get")
    BY <1>1 DEF Serves, Standing, Unanswered, Answered
  <2>4. QED
    BY <2>1, <2>2, <2>3 DEF Use
<1> HIDE DEF n, x, r, u, v, a
<1>6. CASE n > 1
  <2>1. Use(x)' = "free" /\ app'[x] = "idle"
    BY <1>1, <1>4, <1>6 DEF Use, v
  <2>2. Promise!Becomes(x, "idle", "free")
    BY <1>3, <2>1
  <2>3. \/ Promise!Finish(x) \/ Promise!Stopped(x)
        \/ Promise!Terminate(x) \/ Promise!Fetched(x)
    BY <1>1, <1>5, <2>2
       DEF Promise!Finish, Promise!Stopped, Promise!Terminate, Promise!Fetched, a
  <2>4. QED
    BY <1>1, <2>3 DEF Promise!Next
<1>7. CASE ~(n > 1)
  <2>1. v.iRequest = u.iRequest /\ Use(x)' = Use(x)
    BY <1>4, <1>7 DEF Use, u, v
  <2>2. CASE Begun(a, r)
    <3>1. a = "asked" /\ app'[x] = IF r.type = "Get" THEN "idle" ELSE "on"
      BY <1>1, <1>7, <2>2 DEF Begun
    <3>2. Promise!Becomes(x, IF Use(x) = "fetch" THEN "idle" ELSE "on", Use(x))
      BY <1>3, <1>5, <2>1, <3>1
    <3>3. [y \in Watchers |-> Use(y)][x] = Use(x)
      BY <1>1
    <3>4. Promise!Accept(x)
      BY <3>1, <3>2, <3>3 DEF Promise!Accept, a
    <3>5. QED
      BY <1>1, <3>4 DEF Promise!Next
  <2>3. CASE ~Begun(a, r)
    <3>1. app'[x] = app[x]
      BY <1>1, <1>7, <2>3 DEF a
    <3>2. app' = app
      BY <1>1, <3>1 DEF TypeOK
    <3>3. \A y \in Watchers : w'[y].iRequest = w[y].iRequest
      BY <1>1, <2>1 DEF u, v
    <3>4. QED
      BY <3>2, <3>3, PromiseStutters
  <2>4. QED
    BY <2>2, <2>3
<1>8. QED
  BY <1>6, <1>7

LEMMA RunLKeepsPromise ==
  ASSUME TypeOK, TypeOK', AllSound, AllServed, NEW id \in Id, RunL(id)
  PROVE  Promise!Next \/ UNCHANGED Promise!vars
<1>1. id \in Live /\ rq[id].sig # NoSig
  BY DEF RunL
<1>2. CASE Destroy(id)
  <2>1. app' = app /\ w' = [w EXCEPT ![id[1]].iSubsId = IF @ = id[2] THEN 0 ELSE @]
    BY <1>2 DEF Destroy
  <2>2. \A x \in Watchers : w'[x].iRequest = w[x].iRequest
    BY <2>1 DEF TypeOK, Watcher
  <2>3. QED
    BY <2>1, <2>2, PromiseStutters
<1>3. CASE Deliver(id)
  BY <1>1, <1>3, DeliverKeepsPromise
<1>4. QED
  BY <1>2, <1>3 DEF RunL

LEMMA NetworkKeepsPromise ==
  ASSUME Network
  PROVE  UNCHANGED Promise!vars
<1>1. UNCHANGED <<w, app>>
  BY DEF Network, Response, TransactionFails, RefreshFails, NotifyState,
         NotifyTerminated, Disconnect, Suspend, Activate
<1>2. QED
  BY <1>1, PromiseStutters

LEMMA NextKeepsPromise ==
  ASSUME Orderly, "close" \notin Env, TypeOK, TypeOK', AllSound, AllServed, [Next]_vars
  PROVE  [Promise!Next]_Promise!vars
<1>1. CASE App
  <2>1. PICK x \in Watchers :
          \/ \E kind \in Kinds, auto \in Refreshes : Subscribe(x, kind, auto)
          \/ Unsubscribe(x)
          \/ Close(x)
    BY <1>1 DEF App
  <2>2. ~Close(x)
    BY DEF Close
  <2>3. QED
    BY <2>1, <2>2, SubscribeKeepsPromise, UnsubscribeKeepsPromise
<1>2. CASE Engine
  <2>1. ASSUME NEW id \in Id, ExpiryFires(id) \/ RefreshFires(id)
        PROVE  UNCHANGED Promise!vars
    BY <2>1, PromiseStutters DEF ExpiryFires, RefreshFires
  <2>2. QED
    BY <1>2, <2>1, RunLKeepsPromise DEF Engine
<1>3. CASE Network
  BY <1>3, NetworkKeepsPromise
<1>4. CASE UNCHANGED vars
  BY <1>4, PromiseStutters DEF vars
<1>5. QED
  BY <1>1, <1>2, <1>3, <1>4 DEF Next

(* Under the same conditions, and while no watcher is closed, the engine   *)
(* implements WatcherContract: one request at a time per watcher, one      *)
(* answer to each, one end of each accepted subscription, and the watcher  *)
(* in use exactly that long.  That the answer comes is liveness.           *)
THEOREM ImplementsWatcherContract ==
  ASSUME Orderly, "close" \notin Env
  PROVE  Spec => Promise!Init /\ [][Promise!Next]_Promise!vars
<1>1. Init => Promise!Init
  BY DEF Init, NewWatcher, Promise!Init, Use
<1>2. TypeOK /\ TypeOK' /\ AllSound /\ AllServed /\ [Next]_vars
        => [Promise!Next]_Promise!vars
  BY NextKeepsPromise
<1>3. QED
  BY <1>1, <1>2, TypeCorrect, RequestsSound, ServedInvariance, PTL DEF Spec

-----------------------------------------------------------------------------
(* Only a NOTIFY makes an active subscription pending.  A response could   *)
(* do so in RunningInit only: the request must not have been notified      *)
(* while its SUBSCRIBE is not answered.                                    *)

Unheard(r) ==
  r.state = "PendingInit" \/ (r.state = "RunningInit" /\ r.trans # "none")
    => r.sub = "None"
AllUnheard == \A id \in Live : Unheard(rq[id])

(* What a step may do to a request. *)
Told(r, q) ==
  /\ Unheard(q)
  /\ r.sub = "Active" /\ q.sub = "Pending" => q.method = "Notify"

(* The subscription state stays or the subscription is over. *)
SubKept(r, q) ==
  q.sub \in {r.sub, "Terminated"} /\ q.trans = r.trans /\ q.method = r.method

LEMMA PostSubKept ==
  ASSUME NEW r \in Request, NEW status \in Status
  PROVE  /\ Post(r, status) \in Request /\ SubKept(r, Post(r, status))
         /\ Post(r, status).sub = r.sub /\ Post(r, status).state = r.state
<1>1. /\ Post(r, status).sub = r.sub /\ Post(r, status).state = r.state
      /\ Post(r, status).trans = r.trans /\ Post(r, status).method = r.method
  BY DEF Post, Request
<1>2. QED
  BY <1>1, PostType DEF SubKept

LEMMA SetReqStateSubKept ==
  ASSUME NEW r \in Request, NEW s \in ReqState
  PROVE  /\ SetReqState(r, s) \in Request /\ SubKept(r, SetReqState(r, s))
         /\ SetReqState(r, s).state = s
         /\ s \in Final => SetReqState(r, s).sub = "Terminated"
         /\ s \notin Final => SetReqState(r, s).sub = r.sub
<1>1. /\ SetReqState(r, s).state = s
      /\ s \in Final => SetReqState(r, s).sub = "Terminated"
      /\ s \notin Final => SetReqState(r, s).sub = r.sub
      /\ SetReqState(r, s).trans = r.trans /\ SetReqState(r, s).method = r.method
  BY DEF SetReqState, Request
<1>2. QED
  BY <1>1, SetReqStateType DEF SubKept

LEMMA EndSubKept ==
  ASSUME NEW r \in Request, NEW s \in ReqState, NEW status \in Status
  PROVE  LET q == Post(SetReqState(r, s), status) IN
         q \in Request /\ SubKept(r, q) /\ q.state = s
<1> DEFINE p == SetReqState(r, s)
<1>1. p \in Request /\ SubKept(r, p) /\ p.state = s
  BY SetReqStateSubKept
<1> HIDE DEF p
<1>2. Post(p, status) \in Request /\ SubKept(p, Post(p, status))
      /\ Post(p, status).state = p.state /\ Post(p, status).sub = p.sub
  BY <1>1, PostSubKept
<1>3. SubKept(r, Post(p, status))
  BY <1>1, <1>2 DEF SubKept
<1>4. QED
  BY <1>1, <1>2, <1>3 DEF p

LEMMA RetryLaterSubKept ==
  ASSUME NEW r \in Request
  PROVE  LET q == RetryLater(r) IN SubKept(r, q) /\ q.state \in {"Failed", "ReTry"}
<1> DEFINE p == SetReqState(r, "ReTry")
           q == [p EXCEPT !.refresh = TRUE]
           f == Post(SetReqState(r, "Failed"), "Completion")
<1>1. p \in Request /\ SubKept(r, p) /\ p.state = "ReTry"
  BY SetReqStateSubKept DEF ReqState
<1> HIDE DEF p
<1>2. SubKept(r, q) /\ q.state = "ReTry"
  BY <1>1 DEF Request, SubKept
<1>3. SubKept(r, f) /\ f.state = "Failed"
  <2>1. "Completion" \in Status /\ "Failed" \in ReqState
    BY DEF Status, ReqState
  <2>2. QED
    BY <2>1, EndSubKept
<1>4. RetryLater(r) = IF r.long THEN f ELSE q
  BY DEF RetryLater, p
<1> HIDE DEF q, f
<1>5. QED
  BY <1>2, <1>3, <1>4

LEMMA CompleteSubscriptionSub ==
  ASSUME NEW r \in Request, NEW status \in Status
  PROVE  LET q == CompleteSubscription(r, status) IN
         /\ q.state \notin {"PendingInit", "RunningInit"}
         /\ \/ SubKept(r, q)
            \/ r.state = "RunningInit" /\ status = "Pend" /\ q.sub = "Pending"
<1> DEFINE t == StopTimers(r)
           n == IF r.resps < 3 THEN r.resps + 1 ELSE 3
           p == [t EXCEPT !.sub = IF status = "Pend" THEN "Pending" ELSE @]
           e == SetReqState(t, "Complete")
           c == [e EXCEPT !.resps = n, !.expiry = FALSE]
           m == [t EXCEPT !.resps = n]
           q == CompleteSubscription(r, status)
<1>1. t \in Request /\ SubKept(r, t) /\ t.state = r.state
  <2>1. t.sub = r.sub /\ t.trans = r.trans /\ t.method = r.method /\ t.state = r.state
    BY DEF StopTimers, Request
  <2>2. QED
    BY <2>1, StopTimersType DEF SubKept
<1> HIDE DEF t
<1>2. n \in 0..3 /\ {"Failed", "Complete", "ActiveSubs"} \subseteq ReqState
      /\ "Complete" \in ReqState /\ "Failed" \in ReqState /\ "ActiveSubs" \in ReqState
  BY DEF Request, ReqState
<1> HIDE DEF n
<1>3. /\ p \in Request
      /\ p.sub = IF status = "Pend" THEN "Pending" ELSE t.sub
      /\ p.trans = t.trans /\ p.method = t.method
  BY <1>1 DEF Request
<1> HIDE DEF p
<1>4. e \in Request /\ SubKept(t, e) /\ e.state = "Complete"
  BY <1>1, <1>2, SetReqStateSubKept
<1> HIDE DEF e
<1>5. c \in Request /\ SubKept(e, c) /\ c.state = "Complete"
  BY <1>2, <1>4 DEF Request, SubKept
<1>6. m \in Request /\ SubKept(t, m) /\ m.state = t.state
  BY <1>1, <1>2 DEF Request, SubKept
<1> HIDE DEF c, m
<1>7. SubKept(c, Post(c, status)) /\ Post(c, status).state = "Complete"
      /\ SubKept(m, Post(m, status)) /\ Post(m, status).state = r.state
  BY <1>1, <1>5, <1>6, PostSubKept
<1>8. CASE r.state = "RunningInit"
  <2> DEFINE f == Post(SetReqState(t, "Failed"), status)
             g == Post(SetReqState(t, "Complete"), status)
             s == Post(SetReqState(p, "ActiveSubs"), status)
  <2>1. /\ SubKept(t, f) /\ f.state = "Failed" /\ SubKept(t, g) /\ g.state = "Complete"
        /\ s.state = "ActiveSubs" /\ s.sub = p.sub /\ s.trans = p.trans
        /\ s.method = p.method
    <3>1. /\ SetReqState(p, "ActiveSubs") \in Request
          /\ SetReqState(p, "ActiveSubs").sub = p.sub
          /\ SubKept(p, SetReqState(p, "ActiveSubs"))
      BY <1>2, <1>3, SetReqStateSubKept DEF Final
    <3>2. s.sub = p.sub
      BY <3>1, PostSubKept
    <3>3. SubKept(p, s) /\ s.state = "ActiveSubs"
      BY <1>2, <1>3, EndSubKept
    <3>4. QED
      BY <1>1, <1>2, <3>2, <3>3, EndSubKept DEF SubKept
  <2>2. q \in {f, g, s}
    BY <1>8 DEF CompleteSubscription, t, p
  <2> HIDE DEF q, f, g, s
  <2>3. QED
    BY <1>1, <1>3, <1>8, <2>1, <2>2 DEF SubKept, q
<1>9. CASE r.state = "ActiveSubs"
  <2> DEFINE v == RetryLater(t)
  <2>1. q = v
    BY <1>9 DEF CompleteSubscription, t
  <2>2. SubKept(t, v) /\ v.state \in {"Failed", "ReTry"}
    BY <1>1, RetryLaterSubKept
  <2> HIDE DEF q, v
  <2>3. QED
    BY <1>1, <2>1, <2>2 DEF SubKept, q
<1>10. CASE r.state = "Stopping"
  <2>1. q \in {Post(c, status), Post(m, status)}
    BY <1>10 DEF CompleteSubscription, t, n, e, c, m
  <2>2. SubKept(r, Post(c, status)) /\ SubKept(r, Post(m, status))
    BY <1>1, <1>4, <1>5, <1>6, <1>7 DEF SubKept
  <2> HIDE DEF q
  <2>3. QED
    BY <1>7, <1>10, <2>1, <2>2 DEF q
<1>11. CASE r.state \notin {"RunningInit", "ActiveSubs", "Stopping"}
  <2> DEFINE a == SetReqState(t, "ActiveSubs")
             f == Post(SetReqState(t, "Failed"), status)
  <2>1. q \in {a, f}
    BY <1>11 DEF CompleteSubscription, t
  <2>2. SubKept(t, a) /\ a.state = "ActiveSubs" /\ SubKept(t, f) /\ f.state = "Failed"
    BY <1>1, <1>2, SetReqStateSubKept, EndSubKept
  <2> HIDE DEF q, a, f
  <2>3. QED
    BY <1>1, <2>1, <2>2 DEF SubKept, q
<1>12. QED
  BY <1>8, <1>9, <1>10, <1>11

LEMMA CompleteNotificationSub ==
  ASSUME NEW r \in Request, NEW status \in Status
  PROVE  LET q == CompleteNotification(r, status) IN
         /\ q.state \in {r.state, "Complete", "Failed", "ReTry"}
         /\ q.trans = r.trans /\ q.method = r.method
<1> DEFINE seen == [r EXCEPT !.sub = IF status = "Pend" THEN "Pending" ELSE "Active"]
           n == IF r.resps < 3 THEN r.resps + 1 ELSE 3
           gone == [r EXCEPT !.dialog = "none"]
           late == [gone EXCEPT !.refresh = FALSE]
           e == SetReqState(seen, "Complete")
           c == [e EXCEPT !.resps = n, !.expiry = FALSE]
           m == [seen EXCEPT !.resps = n]
           alike(q) == /\ q.state \in {r.state, "Complete", "Failed", "ReTry"}
                       /\ q.trans = r.trans /\ q.method = r.method
<1>1. n \in 0..3 /\ "Complete" \in ReqState /\ "Failed" \in ReqState
  BY DEF Request, ReqState
<1> HIDE DEF n
<1>2. seen \in Request /\ alike(seen)
  BY DEF Request
<1>3. gone \in Request /\ alike(gone)
  BY DEF Request
<1> HIDE DEF seen, gone
<1>4. late \in Request /\ alike(late)
  BY <1>3 DEF Request
<1>5. e \in Request /\ e.state = "Complete" /\ alike(e)
  BY <1>1, <1>2, SetReqStateSubKept DEF SubKept
<1> HIDE DEF e, late
<1>6. c \in Request /\ alike(c)
  BY <1>1, <1>5 DEF Request
<1>7. m \in Request /\ alike(m)
  BY <1>1, <1>2 DEF Request
<1> HIDE DEF c, m
<1>8. /\ alike(Post(r, status)) /\ alike(Post(seen, status)) /\ alike(Post(c, status))
      /\ alike(Post(m, status))
  BY <1>2, <1>6, <1>7, PostSubKept DEF SubKept
<1>9. /\ alike(Post(SetReqState(gone, "Complete"), status))
      /\ alike(Post(SetReqState(gone, "Failed"), status))
  BY <1>1, <1>3, EndSubKept DEF SubKept
<1>10. alike(RetryLater(late))
  BY <1>4, RetryLaterSubKept DEF SubKept
<1>11. CompleteNotification(r, status)
         \in {Post(r, status), Post(seen, status), Post(c, status), Post(m, status),
              Post(SetReqState(gone, "Complete"), status),
              Post(SetReqState(gone, "Failed"), status), RetryLater(late)}
  BY DEF CompleteNotification, seen, n, gone, late, e, c, m
<1>12. QED
  BY <1>8, <1>9, <1>10, <1>11

LEMMA CompleteTold ==
  ASSUME NEW r \in Request, NEW s \in Request, NEW status \in Status,
         s.sub \in {r.sub, "Terminated"}, Unheard(s),
         s.method = "Notify" =>
           \/ status \in {"Disconnected", "TimedOut"}
           \/ s.state # "PendingInit" /\ (s.state = "RunningInit" => s.trans = "none"),
         s.state = "RunningInit" /\ status = "Pend" /\ s.method # "Notify"
           => r.sub # "Active"
  PROVE  Told(r, Complete(s, status))
<1> DEFINE q == Complete(s, status)
<1>1. CASE s.state = "Deleting"
  <2>1. q = Post(s, status)
    BY <1>1 DEF Complete
  <2>2. q.state = "Deleting" /\ q.sub = s.sub
    BY <1>1, <2>1, PostSubKept
  <2> HIDE DEF q
  <2>3. QED
    BY <2>2 DEF Told, Unheard, q
<1>2. CASE s.state # "Deleting" /\ status \in {"Disconnected", "TimedOut"}
  <2> DEFINE p == [s EXCEPT !.long = FALSE, !.expiry = FALSE, !.refresh = FALSE]
  <2>1. q = Post(SetReqState(p, "Failed"), status)
    BY <1>2 DEF Complete
  <2>2. p \in Request /\ p.sub = s.sub
    BY DEF Request
  <2> HIDE DEF p
  <2>3. q.state = "Failed" /\ SubKept(p, q)
    <3>1. "Failed" \in ReqState
      BY DEF ReqState
    <3>2. QED
      BY <2>1, <2>2, <3>1, EndSubKept
  <2> HIDE DEF q
  <2>4. QED
    BY <2>2, <2>3 DEF Told, Unheard, SubKept, q
<1>3. CASE /\ s.state # "Deleting" /\ status \notin {"Disconnected", "TimedOut"}
           /\ s.method = "Notify"
  <2>1. q = CompleteNotification(s, status)
    BY <1>3 DEF Complete
  <2>2. /\ q.state \in {s.state, "Complete", "Failed", "ReTry"}
        /\ q.trans = s.trans /\ q.method = "Notify"
    BY <1>3, <2>1, CompleteNotificationSub
  <2> HIDE DEF q
  <2>3. QED
    BY <1>3, <2>2 DEF Told, Unheard, q
<1>4. CASE /\ s.state # "Deleting" /\ status \notin {"Disconnected", "TimedOut"}
           /\ s.method # "Notify"
  <2>1. q = CompleteSubscription(s, status)
    BY <1>4 DEF Complete
  <2>2. /\ q.state \notin {"PendingInit", "RunningInit"}
        /\ \/ SubKept(s, q)
           \/ s.state = "RunningInit" /\ status = "Pend" /\ q.sub = "Pending"
    BY <2>1, CompleteSubscriptionSub
  <2> HIDE DEF q
  <2>3. QED
    BY <1>4, <2>2 DEF Told, Unheard, SubKept, q
<1>5. QED
  BY <1>1, <1>2, <1>3, <1>4

AllTold == \A id \in Id : rq'[id] = NoReq \/ Told(rq[id], rq'[id])

LEMMA UpdateTold ==
  ASSUME TypeOK, AllUnheard, NEW id \in Id, NEW q, Update(id, q), Told(rq[id], q)
  PROVE  AllTold
<1>1. \A i \in Id : rq'[i] = IF i = id THEN q ELSE rq[i]
  BY DEF Update, TypeOK
<1>2. \A i \in Live : Told(rq[i], rq[i])
  BY DEF AllUnheard, Told
<1>3. QED
  BY <1>1, <1>2 DEF AllTold, Live

LEMMA TimedOutEnds ==
  ASSUME NEW r \in Request
  PROVE  Complete(r, "TimedOut").state \in {"Failed", "Deleting"}
<1> DEFINE p == [r EXCEPT !.long = FALSE, !.expiry = FALSE, !.refresh = FALSE]
           q == Post(SetReqState(p, "Failed"), "TimedOut")
<1>1. "TimedOut" \in Status /\ "Failed" \in ReqState /\ p \in Request
  BY DEF Status, ReqState, Request
<1>2. Complete(r, "TimedOut") = IF r.state = "Deleting" THEN Post(r, "TimedOut") ELSE q
  BY DEF Complete
<1> HIDE DEF p
<1>3. q.state = "Failed"
  BY <1>1, EndSubKept
<1>4. Post(r, "TimedOut").state = r.state
  BY <1>1, PostSubKept
<1> HIDE DEF q
<1>5. QED
  BY <1>2, <1>3, <1>4

(* An event that is no NOTIFY, on a request that is not being subscribed   *)
(* for the first time, or that does not accept the subscription.           *)
LEMMA EventTold ==
  ASSUME NEW r \in Request, NEW s \in Request, NEW status \in Status, Unheard(r),
         s.state = r.state, s.sub = r.sub, s.trans \in {r.trans, "none"},
         status # "Pend",
         s.method = "Notify" => status \in {"Disconnected", "TimedOut"}
  PROVE  Told(r, Complete(s, status))
<1>1. Unheard(s)
  BY DEF Unheard
<1>2. QED
  BY <1>1, CompleteTold

LEMMA SubscribeTold ==
  ASSUME TypeOK, AllUnheard, NEW x \in Watchers, NEW kind \in Kinds,
         NEW auto \in Refreshes, Subscribe(x, kind, auto)
  PROVE  AllTold
<1> DEFINE free == {s \in Slots : rq[<<x, s>>] = NoReq}
           slot == CHOOSE s \in free : TRUE
           id == <<x, slot>>
           q == NewRequest(kind, auto, sip = "Active")
<1>1. free # {} /\ Update(id, q)
  BY DEF Subscribe
<1>2. slot \in Slots
  BY <1>1
<1> HIDE DEF slot
<1>3. id \in Id
  BY <1>2 DEF Id
<1>4. q.sub = "None"
  BY DEF NewRequest
<1> HIDE DEF id, q
<1>5. Told(rq[id], q)
  BY <1>4 DEF Told, Unheard
<1>6. QED
  BY <1>1, <1>3, <1>5, UpdateTold

LEMMA UnsubscribeTold ==
  ASSUME TypeOK, AllUnheard, NEW x \in Watchers, Unsubscribe(x)
  PROVE  AllTold
<1> DEFINE id == <<x, w[x].iSubsId>>
           r == AsStop(rq[id])
           p == SetReqState(r, "Stopping")
           n == SetResponseMethod(p, "Unknown")
           q == Complete(n, "Completion")
           t == [r EXCEPT !.trans = "none"]
           u == [p EXCEPT !.trans = "unsubscribe", !.expiry = TRUE]
<1>1. id \in Live
  BY DEF Unsubscribe
<1>2. Update(id, r) \/ Update(id, q) \/ Update(id, t) \/ Update(id, u)
  BY DEF Unsubscribe
<1>3. id \in Id /\ rq[id] \in Request /\ Unheard(rq[id])
  BY <1>1, LiveRequest DEF AllUnheard
<1> HIDE DEF id
<1>4. /\ r \in Request /\ r.state = rq[id].state /\ r.sub = rq[id].sub
      /\ r.trans = rq[id].trans
  BY <1>3 DEF AsStop, Request, Type
<1> HIDE DEF r
<1>5. p \in Request /\ p.state = "Stopping" /\ p.sub = r.sub
  <2>1. "Stopping" \in ReqState /\ "Stopping" \notin Final
    BY DEF ReqState, Final
  <2>2. QED
    BY <1>4, <2>1, SetReqStateSubKept
<1> HIDE DEF p
<1>6. n \in Request /\ n.state = "Stopping" /\ n.sub = p.sub /\ n.method = "Unknown"
  BY <1>5 DEF SetResponseMethod, Request
<1> HIDE DEF n
<1>7. Told(rq[id], q)
  <2>1. "Completion" \in Status /\ Unheard(n)
    BY <1>6 DEF Status, Unheard
  <2>2. QED
    BY <1>3, <1>4, <1>5, <1>6, <2>1, CompleteTold
<1>8. t.state = r.state /\ t.sub = r.sub /\ t.trans = "none"
  BY <1>4 DEF Request
<1>9. u.state = "Stopping" /\ u.sub = p.sub
  BY <1>5 DEF Request
<1> HIDE DEF q, t, u
<1>10. Told(rq[id], r) /\ Told(rq[id], t) /\ Told(rq[id], u)
  BY <1>3, <1>4, <1>5, <1>8, <1>9 DEF Told, Unheard
<1>11. QED
  BY <1>2, <1>3, <1>7, <1>10, UpdateTold

LEMMA RemoveTold ==
  ASSUME AllUnheard, NEW ids, Remove(ids)
  PROVE  AllTold
<1>1. \A i \in Id : rq'[i] = NoReq \/ rq'[i] = rq[i]
  BY DEF Remove
<1>2. \A i \in Live : Told(rq[i], rq[i])
  BY DEF AllUnheard, Told
<1>3. QED
  BY <1>1, <1>2 DEF AllTold, Live

LEMMA DeliverTold ==
  ASSUME TypeOK, AllUnheard, NEW id \in Live, Deliver(id)
  PROVE  AllTold
<1> DEFINE idle == [rq[id] EXCEPT !.sig = NoSig, !.method = "Unknown"]
           last == [idle EXCEPT !.type = "DestroyStart"]
           gone == DestroyStart(last)
<1>1. Update(id, gone) \/ Update(id, idle)
  BY DEF Deliver
<1>2. id \in Id /\ rq[id] \in Request /\ Unheard(rq[id])
  BY LiveRequest DEF AllUnheard
<1>3. /\ idle \in Request /\ idle.state = rq[id].state /\ idle.sub = rq[id].sub
      /\ idle.trans = rq[id].trans
  BY <1>2 DEF Request
<1> HIDE DEF idle
<1>4. gone.state = "Deleting" /\ gone.sub = "Terminated"
  <2>1. last \in Request
    BY <1>3 DEF Request, Type
  <2> HIDE DEF last
  <2>2. /\ SetReqState(last, "Deleting") \in Request
        /\ SetReqState(last, "Deleting").state = "Deleting"
        /\ SetReqState(last, "Deleting").sub = "Terminated"
    BY <2>1, SetReqStateSubKept DEF ReqState, Final
  <2>3. QED
    BY <2>2 DEF DestroyStart, Request
<1> HIDE DEF gone
<1>5. Told(rq[id], gone) /\ Told(rq[id], idle)
  BY <1>2, <1>3, <1>4 DEF Told, Unheard
<1>6. QED
  BY <1>1, <1>2, <1>5, UpdateTold

LEMMA ExpiryFiresTold ==
  ASSUME TypeOK, AllUnheard, NEW id \in Id, ExpiryFires(id)
  PROVE  AllTold
<1> DEFINE s == [rq[id] EXCEPT !.expiry = FALSE]
<1>1. id \in Live /\ Update(id, Complete(s, "TimedOut"))
  BY DEF ExpiryFires
<1>2. rq[id] \in Request /\ Unheard(rq[id])
  BY <1>1, LiveRequest DEF AllUnheard
<1>3. /\ s \in Request /\ s.state = rq[id].state /\ s.sub = rq[id].sub
      /\ s.trans = rq[id].trans /\ "TimedOut" \in Status
  BY <1>2 DEF Request, Status
<1> HIDE DEF s
<1>4. Told(rq[id], Complete(s, "TimedOut"))
  BY <1>2, <1>3, EventTold
<1>5. QED
  BY <1>1, <1>4, UpdateTold DEF Live

(* Only a request that waits to retry is sent again, which is not a first  *)
(* SUBSCRIBE.                                                              *)
LEMMA RefreshFiresTold ==
  ASSUME TypeOK, AllUnheard, NEW id \in Id, RefreshFires(id)
  PROVE  AllTold
<1> DEFINE fired == [rq[id] EXCEPT !.refresh = FALSE]
           late == Complete(fired, "TimedOut")
           ended == IF fired.auto THEN fired ELSE late
           r == [ended EXCEPT !.expiry = TRUE]
           wait == SetReqState(r, "Pending")
           again == SetReqState(r, "DialogReCre")
           sent == CreateDialog(again)
           lost == SetReqState(again, "Failed")
           q == Complete(lost, "Temp")
<1>1. id \in Live
  BY DEF RefreshFires
<1>2. \/ Update(id, r)
      \/ /\ r.state \in {"ReTry", "Pending"}
         /\ Update(id, wait) \/ Update(id, sent) \/ Update(id, q)
  BY DEF RefreshFires
<1>3. rq[id] \in Request /\ Unheard(rq[id])
  BY <1>1, LiveRequest DEF AllUnheard
<1>4. /\ fired \in Request /\ fired.state = rq[id].state /\ fired.sub = rq[id].sub
      /\ fired.trans = rq[id].trans
  BY <1>3 DEF Request
<1> HIDE DEF fired
<1>5. late \in Request /\ Told(rq[id], late) /\ late.state \in {"Failed", "Deleting"}
  <2>1. "TimedOut" \in Status
    BY DEF Status
  <2>2. Told(rq[id], late)
    BY <1>3, <1>4, <2>1, EventTold
  <2>3. late \in Request /\ late.state \in {"Failed", "Deleting"}
    BY <1>4, <2>1, CompleteType, TimedOutEnds
  <2>4. QED
    BY <2>2, <2>3
<1> HIDE DEF late
<1>6. ended \in Request /\ Told(rq[id], ended)
  BY <1>3, <1>4, <1>5 DEF Told, Unheard
<1>7. ended.state \in {"ReTry", "Pending"} => ended.sub = rq[id].sub
  BY <1>4, <1>5
<1> HIDE DEF ended
<1>8. /\ r \in Request /\ r.state = ended.state /\ r.sub = ended.sub
      /\ r.trans = ended.trans /\ r.method = ended.method
  BY <1>6 DEF Request
<1> HIDE DEF r
<1>9. Told(rq[id], r)
  BY <1>6, <1>8 DEF Told, Unheard
<1>10. ASSUME r.state \in {"ReTry", "Pending"}
       PROVE  Told(rq[id], wait) /\ Told(rq[id], sent) /\ Told(rq[id], q)
  <2>1. /\ "Pending" \in ReqState \ Final /\ "DialogReCre" \in ReqState \ Final
        /\ "Failed" \in ReqState /\ "Failed" \in Final
    BY DEF ReqState, Final
  <2>2. wait.state = "Pending" /\ wait.sub = rq[id].sub
    BY <1>7, <1>8, <1>10, <2>1, SetReqStateSubKept
  <2>3. again \in Request /\ again.state = "DialogReCre" /\ again.sub = rq[id].sub
    BY <1>7, <1>8, <1>10, <2>1, SetReqStateSubKept
  <2> HIDE DEF wait, again
  <2>4. sent.state = "DialogReCre" /\ sent.sub = rq[id].sub
    BY <2>3 DEF CreateDialog, Request
  <2>5. lost \in Request /\ lost.state = "Failed" /\ lost.sub = "Terminated"
    BY <2>1, <2>3, SetReqStateSubKept
  <2> HIDE DEF sent, lost
  <2>6. "Temp" \in Status /\ Unheard(lost)
    BY <2>5 DEF Status, Unheard
  <2>7. Told(rq[id], q)
    BY <1>3, <2>5, <2>6, CompleteTold
  <2>8. QED
    BY <2>2, <2>4, <2>7 DEF Told, Unheard
<1> HIDE DEF wait, sent, q
<1>11. QED
  BY <1>1, <1>2, <1>9, <1>10, UpdateTold DEF Live

LEMMA AfterResponseTold ==
  ASSUME NEW r \in Request, NEW status \in Status, NEW m \in {"Unknown", "Status"}
  PROVE  LET s == SetResponseMethod(AfterResponse(r, status), m) IN
         /\ s \in Request /\ s.state = r.state /\ s.sub = r.sub
         /\ s.trans = "none" /\ s.method = m
<1> DEFINE a == AfterResponse(r, status)
<1>1. a \in Request /\ a.state = r.state /\ a.sub = r.sub /\ a.trans = "none"
  <2>1. a.state = r.state /\ a.sub = r.sub /\ a.trans = "none"
    BY DEF AfterResponse, Request
  <2>2. QED
    BY <2>1, AfterResponseType
<1> HIDE DEF a
<1>2. QED
  BY <1>1 DEF SetResponseMethod, Request, a

(* The response to a SUBSCRIBE is the first thing that is heard. *)
LEMMA ResponseTold ==
  ASSUME TypeOK, AllUnheard, NEW id \in Id, NEW status \in ResponseStatus,
         Response(id, status)
  PROVE  AllTold
<1> DEFINE s == SetResponseMethod(AfterResponse(rq[id], status), "Status")
<1>1. id \in Live /\ rq[id].trans # "none" /\ Update(id, Complete(s, status))
  BY DEF Response
<1>2. rq[id] \in Request /\ Unheard(rq[id]) /\ status \in Status
  BY <1>1, LiveRequest DEF AllUnheard, ResponseStatus, Status
<1>3. /\ s \in Request /\ s.state = rq[id].state /\ s.sub = rq[id].sub
      /\ s.trans = "none" /\ s.method = "Status"
  BY <1>2, AfterResponseTold
<1> HIDE DEF s
<1>4. Unheard(s) /\ (s.state = "RunningInit" => rq[id].sub # "Active")
  BY <1>1, <1>2, <1>3 DEF Unheard
<1>5. Told(rq[id], Complete(s, status))
  BY <1>2, <1>3, <1>4, CompleteTold
<1>6. QED
  BY <1>1, <1>5, UpdateTold DEF Live

LEMMA TransactionFailsTold ==
  ASSUME TypeOK, AllUnheard, NEW id \in Id, NEW status \in {"Temp", "Error"},
         TransactionFails(id, status)
  PROVE  AllTold
<1> DEFINE s == SetResponseMethod(AfterResponse(rq[id], status), "Unknown")
<1>1. id \in Live /\ Update(id, Complete(s, status))
  BY DEF TransactionFails
<1>2. rq[id] \in Request /\ Unheard(rq[id]) /\ status \in Status
  BY <1>1, LiveRequest DEF AllUnheard, Status
<1>3. /\ s \in Request /\ s.state = rq[id].state /\ s.sub = rq[id].sub
      /\ s.trans = "none" /\ s.method = "Unknown"
  BY <1>2, AfterResponseTold
<1> HIDE DEF s
<1>4. Told(rq[id], Complete(s, status))
  BY <1>2, <1>3, EventTold
<1>5. QED
  BY <1>1, <1>4, UpdateTold DEF Live

LEMMA RefreshFailsTold ==
  ASSUME TypeOK, AllUnheard, NEW id \in Id, NEW status \in {"Temp", "Error"},
         NEW long \in BOOLEAN, RefreshFails(id, status, long)
  PROVE  AllTold
<1> DEFINE dead == [rq[id] EXCEPT !.dialog = "dead", !.long = long]
           s == SetResponseMethod(dead, "Unknown")
<1>1. id \in Live /\ Update(id, Complete(s, status))
  BY DEF RefreshFails
<1>2. rq[id] \in Request /\ Unheard(rq[id]) /\ status \in Status
  BY <1>1, LiveRequest DEF AllUnheard, Status
<1>3. /\ dead \in Request /\ dead.state = rq[id].state /\ dead.sub = rq[id].sub
      /\ dead.trans = rq[id].trans
  BY <1>2 DEF Request
<1> HIDE DEF dead
<1>4. /\ s \in Request /\ s.state = rq[id].state /\ s.sub = rq[id].sub
      /\ s.trans = rq[id].trans /\ s.method = "Unknown"
  BY <1>3 DEF SetResponseMethod, Request
<1> HIDE DEF s
<1>5. Told(rq[id], Complete(s, status))
  BY <1>2, <1>4, EventTold
<1>6. QED
  BY <1>1, <1>5, UpdateTold DEF Live

(* A NOTIFY that does not overtake the response comes in on an open dialog *)
(* with no transaction, which a request that waits for the network has not.*)
LEMMA NotifyTold ==
  ASSUME "notifyFirst" \notin Env, TypeOK, AllSound, AllUnheard, NEW id \in Id,
         CanNotify(id), NEW s \in Request, s.state = rq[id].state,
         s.sub = rq[id].sub, s.trans = rq[id].trans, s.method = "Notify",
         NEW status \in Status, Update(id, Complete(s, status))
  PROVE  AllTold
<1>1. /\ id \in Live /\ rq[id].dialog \in {"open", "kept"} /\ rq[id].trans = "none"
  BY DEF CanNotify
<1>2. rq[id] \in Request /\ Unheard(rq[id]) /\ Sound(rq[id])
  BY <1>1, LiveRequest DEF AllUnheard, AllSound
<1>3. rq[id].state # "PendingInit"
  BY <1>1, <1>2 DEF Sound, Parked
<1>4. Unheard(s)
  BY <1>2 DEF Unheard
<1>5. Told(rq[id], Complete(s, status))
  BY <1>1, <1>2, <1>3, <1>4, CompleteTold
<1>6. QED
  BY <1>5, UpdateTold

LEMMA NotifyStateTold ==
  ASSUME "notifyFirst" \notin Env, TypeOK, AllSound, AllUnheard, NEW id \in Id,
         NEW status \in Accepted, NotifyState(id, status)
  PROVE  AllTold
<1> DEFINE m == SetResponseMethod(rq[id], "Notify")
           s == [m EXCEPT !.errs = 0]
<1>1. CanNotify(id) /\ id \in Live /\ Update(id, Complete(s, status))
  BY DEF NotifyState, CanNotify
<1>2. rq[id] \in Request /\ status \in Status
  BY <1>1, LiveRequest DEF Accepted, Status
<1>3. /\ m \in Request /\ m.state = rq[id].state /\ m.sub = rq[id].sub
      /\ m.trans = rq[id].trans /\ m.method = "Notify"
  BY <1>2 DEF SetResponseMethod, Request
<1> HIDE DEF m
<1>4. /\ s \in Request /\ s.state = rq[id].state /\ s.sub = rq[id].sub
      /\ s.trans = rq[id].trans /\ s.method = "Notify"
  BY <1>3 DEF Request
<1> HIDE DEF s
<1>5. QED
  BY <1>1, <1>2, <1>4, NotifyTold

LEMMA NotifyTerminatedTold ==
  ASSUME "notifyFirst" \notin Env, TypeOK, AllSound, AllUnheard, NEW id \in Id,
         NEW permanent \in BOOLEAN, NEW long \in BOOLEAN,
         NotifyTerminated(id, permanent, long)
  PROVE  AllTold
<1> DEFINE n == IF rq[id].errs < 2 THEN rq[id].errs + 1 ELSE 2
           m == SetResponseMethod(rq[id], "Notify")
           s == [m EXCEPT !.errs = n, !.long = long, !.dialog = "dead"]
<1>1. CanNotify(id) /\ id \in Live
      /\ (Update(id, Complete(s, "Completion")) \/ Update(id, Complete(s, "Temp")))
  BY DEF NotifyTerminated, CanNotify
<1>2. rq[id] \in Request /\ n \in 0..2
  BY <1>1, LiveRequest DEF Request
<1> HIDE DEF n
<1>3. /\ m \in Request /\ m.state = rq[id].state /\ m.sub = rq[id].sub
      /\ m.trans = rq[id].trans /\ m.method = "Notify"
  BY <1>2 DEF SetResponseMethod, Request
<1> HIDE DEF m
<1>4. /\ s \in Request /\ s.state = rq[id].state /\ s.sub = rq[id].sub
      /\ s.trans = rq[id].trans /\ s.method = "Notify"
  BY <1>2, <1>3 DEF Request
<1> HIDE DEF s
<1>5. "Completion" \in Status /\ "Temp" \in Status
  BY DEF Status
<1>6. QED
  BY <1>1, <1>4, <1>5, NotifyTold

LEMMA DisconnectTold ==
  ASSUME TypeOK, AllUnheard, NEW state \in SipStates, Disconnect(state)
  PROVE  AllTold
<1> DEFINE mid(r) == [r EXCEPT !.trans = "none",
                               !.dialog = IF @ = "none" THEN @ ELSE "dead"]
           lost(r) == SetResponseMethod(mid(r), "Unknown")
<1>1. ASSUME NEW r \in Request, Unheard(r)
      PROVE  Told(r, Complete(lost(r), "Disconnected"))
  <2>1. mid(r) \in Request /\ mid(r).state = r.state /\ mid(r).sub = r.sub
        /\ mid(r).trans = "none"
    BY DEF Request
  <2> HIDE DEF mid
  <2>2. lost(r) \in Request /\ lost(r).state = r.state /\ lost(r).sub = r.sub
        /\ lost(r).trans = "none" /\ lost(r).method = "Unknown"
    BY <2>1 DEF SetResponseMethod, Request
  <2> HIDE DEF lost
  <2>3. "Disconnected" \in Status
    BY DEF Status
  <2>4. QED
    BY <1>1, <2>2, <2>3, EventTold
<1>2. rq' = [id \in Id |-> IF id \in Live THEN Complete(lost(rq[id]), "Disconnected")
                                          ELSE NoReq]
  BY DEF Disconnect
<1> HIDE DEF lost
<1>3. QED
  BY <1>1, <1>2, LiveRequest DEF AllTold, AllUnheard

LEMMA ResumeTold ==
  ASSUME NEW r \in Request, Unheard(r), r.state \in {"PendingInit", "Pending"},
         NEW sent \in BOOLEAN
  PROVE  Told(r, Resume(r, sent))
<1> DEFINE n == IF r.state = "PendingInit" THEN "RunningInit" ELSE "DialogReCre"
           p == Resumed(r)
           lost == SetReqState(p, "Failed")
           q == CreateDialog(p)
<1>1. n \in ReqState \ Final /\ p = SetReqState(r, n)
  BY DEF ReqState, Final, Resumed
<1>2. "Failed" \in ReqState /\ "Failed" \in Final /\ "Error" \in Status
  BY DEF ReqState, Final, Status
<1> HIDE DEF p
<1>3. p \in Request /\ p.state = n /\ p.sub = r.sub
  BY <1>1, SetReqStateSubKept
<1>4. q.state = n /\ q.sub = r.sub
  BY <1>3 DEF CreateDialog, Request
<1>5. lost \in Request /\ lost.state = "Failed" /\ lost.sub = "Terminated"
  BY <1>2, <1>3, SetReqStateSubKept
<1>6. Resume(r, sent) \in {q, Complete(lost, "Error")}
  BY DEF Resume, p
<1> HIDE DEF lost, q
<1>7. Told(r, Complete(lost, "Error"))
  <2>1. Unheard(lost)
    BY <1>5 DEF Unheard
  <2>2. QED
    BY <1>2, <1>5, <2>1, CompleteTold
<1>8. Told(r, q)
  BY <1>4 DEF Told, Unheard
<1>9. QED
  BY <1>6, <1>7, <1>8

LEMMA ActivateTold ==
  ASSUME TypeOK, AllUnheard, Activate
  PROVE  AllTold
<1> SUFFICES ASSUME NEW id \in Id, rq'[id] # NoReq PROVE Told(rq[id], rq'[id])
  BY DEF AllTold
<1>1. CASE rq'[id] = rq[id]
  BY <1>1 DEF AllUnheard, Told, Live
<1>2. CASE rq'[id] # rq[id]
  <2>1. PICK sent \in BOOLEAN : rq'[id] = Resume(rq[id], sent)
    BY <1>2, ActivateStep
  <2>2. id \in Live /\ rq[id].state \in {"PendingInit", "Pending"}
    BY <1>2, ActivateStep DEF WaitsForNetwork
  <2>3. rq[id] \in Request /\ Unheard(rq[id])
    BY <2>2, LiveRequest DEF AllUnheard
  <2>4. QED
    BY <2>1, <2>2, <2>3, ResumeTold
<1>3. QED
  BY <1>1, <1>2

LEMMA NextTold ==
  ASSUME "notifyFirst" \notin Env, TypeOK, AllSound, AllUnheard, Next
  PROVE  AllTold
<1>1. CASE App
  <2>1. ASSUME NEW x \in Watchers, Close(x) PROVE AllTold
    BY <2>1, RemoveTold DEF Close
  <2>2. QED
    BY <1>1, <2>1, SubscribeTold, UnsubscribeTold DEF App
<1>2. CASE Network
  <2>1. ASSUME Suspend PROVE AllTold
    BY <2>1 DEF Suspend, AllTold, AllUnheard, Told, Live
  <2>2. QED
    BY <1>2, <2>1, ResponseTold, TransactionFailsTold, RefreshFailsTold,
       NotifyStateTold, NotifyTerminatedTold, DisconnectTold, ActivateTold
       DEF Network
<1>3. CASE Engine
  <2>1. ASSUME NEW id \in Id, RunL(id) PROVE AllTold
    BY <2>1, RemoveTold, DeliverTold DEF RunL, Destroy
  <2>2. QED
    BY <1>3, <2>1, ExpiryFiresTold, RefreshFiresTold DEF Engine
<1>4. QED
  BY <1>1, <1>2, <1>3 DEF Next

LEMMA UnheardInvariance ==
  ASSUME "notifyFirst" \notin Env
  PROVE  Spec => []AllUnheard
<1>1. Init => AllUnheard
  BY DEF Init, AllUnheard, Live
<1>2. TypeOK /\ TypeOK' /\ AllSound /\ AllUnheard /\ [Next]_vars => AllUnheard'
  <2> SUFFICES ASSUME TypeOK, TypeOK', AllSound, AllUnheard, [Next]_vars
               PROVE  AllUnheard'
    OBVIOUS
  <2>1. CASE Next
    BY <2>1, NextTold DEF AllTold, Told, AllUnheard, Live
  <2>2. CASE UNCHANGED vars
    BY <2>2 DEF vars, AllUnheard, Live
  <2>3. QED
    BY <2>1, <2>2
<1>3. QED
  BY <1>1, <1>2, TypeCorrect, RequestsSound, PTL DEF Spec

(* With a network that does not let a NOTIFY overtake the response to its  *)
(* SUBSCRIBE, and whatever else happens, only a NOTIFY makes an active     *)
(* subscription pending: neither a 202 to a re-created or ended dialog nor *)
(* a timer makes CSimpleRequest::SubscriptionState go back.                *)
THEOREM PendingOnlyByNotify ==
  ASSUME "notifyFirst" \notin Env
  PROVE  Spec => SubFollowsNotify
<1> DEFINE Follows ==
      \A id \in Live : rq[id].sub = "Active" /\ rq'[id] # NoReq
                         /\ rq'[id].sub = "Pending" => rq'[id].method = "Notify"
<1>1. TypeOK /\ AllSound /\ AllUnheard /\ [Next]_vars => [Follows]_vars
  <2> SUFFICES ASSUME TypeOK, AllSound, AllUnheard, Next PROVE Follows
    OBVIOUS
  <2>1. QED
    BY NextTold DEF AllTold, Told, Live
<1>2. QED
  BY <1>1, TypeCorrect, RequestsSound, UnheardInvariance, PTL DEF Spec, SubFollowsNotify
=============================================================================
