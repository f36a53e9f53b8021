---------------------------- MODULE Subscriptions ----------------------------
(***************************************************************************)
(* Subscriptions of the SIMPLE engine, to presence and to watcher info:    *)
(* the watchers of the application side (CSimpleWatcher and                *)
(* CSimpleWinfoWatcher, whose methods differ in the requests they make and *)
(* in the type of the document they hand on), the SIP connection that runs *)
(* their requests (CSimpleSipConnection, CSimpleSipConnectionObserver) and *)
(* the requests themselves (SubscribeRequest), with the SIP stack, the     *)
(* server and the application as the environment.                          *)
(*                                                                         *)
(* The engine is one thread of active objects.  A handler runs to its end; *)
(* what interleaves is the order in which the active objects run: SIP      *)
(* events, two timers per request, application calls, and the completions  *)
(* that requests post to themselves, which have the highest priority.      *)
(***************************************************************************)
EXTENDS SubscribeRequest, FiniteSets

CONSTANTS
  Watchers,      \* the application's watchers
  Slots,         \* bound: requests a watcher can have alive at a time
  Kinds,         \* the requests the application makes
  Refreshes,     \* the aRefresh arguments it uses
  MaxSubs,       \* MaxSubscriptions() of the settings, 0 is unlimited
  SipStates,     \* the connection states that occur
  Env            \* what the environment may do, see EnvChoices

(* notifyFirst   a NOTIFY may overtake the response to its SUBSCRIBE       *)
(* eagerStop     the application may unsubscribe at any time, not only     *)
(*               when it has been told that it is subscribed               *)
(* stopLeaves    calls of UnsubscribeL that leave happen                   *)
(* latePending   the server may still notify "pending" to a subscriber     *)
(*               that is unsubscribing                                     *)
(* retryNotify   the server may end a subscription with a reason that asks *)
(*               the subscriber to try again                               *)
(* preempt       the application may call between the posting of a         *)
(*               completion and its delivery                               *)
(* sendFails     the SIP stack may refuse to send a request                *)
(* close         the application may close a watcher                       *)
EnvChoices == {"notifyFirst", "eagerStop", "stopLeaves", "latePending",
               "retryNotify", "preempt", "sendFails", "close"}

ASSUME ConstantsAssumption ==
  /\ IsFiniteSet(Watchers) /\ IsFiniteSet(Slots) /\ 0 \notin Slots
  /\ Slots \subseteq Nat
  /\ Kinds \subseteq Kind /\ Refreshes \subseteq BOOLEAN
  /\ MaxSubs \in Nat
  /\ "Active" \in SipStates
  /\ SipStates \subseteq {"Active", "Suspend", "Inactive", "Unavailable"}
  /\ Env \subseteq EnvChoices

Id == Watchers \X Slots
NoReq == [state |-> "NoReq"]

VARIABLES
  sip,      \* CSimpleSipConnection::iSipState
  nbrSubs,  \* CSimpleSipConnection::iCurrentNbrSubs
  rq,       \* the requests of iRequestList
  ahead,    \* ahead[id]: the requests before id in iRequestList
  w,        \* the fields of each watcher
  app       \* what the callbacks have told the application about each watcher

vars == <<sip, nbrSubs, rq, ahead, w, app>>

(* iRequest, iResCount (2 is "> 1"), iComplete, iSubsId (0 when            *)
(* SearchRequests finds nothing under it), and whether it is a             *)
(* CSimpleWinfoWatcher.                                                    *)
Watcher == [winfo     : BOOLEAN,
            iRequest  : Kind \cup {"Stop", "None"},
            iResCount : 0..2,
            iComplete : BOOLEAN,
            iSubsId   : Slots \cup {0}]

NewWatcher(winfo) == [winfo |-> winfo, iRequest |-> "None", iResCount |-> 0,
                      iComplete |-> FALSE, iSubsId |-> 0]

AppState == {"idle", "asked", "on", "stopping", "spurious"}

(* Every variable has its type: the counter does not go below zero, the   *)
(* list and the watchers agree on what a request is.                       *)
TypeOK ==
  /\ sip \in SipStates
  /\ nbrSubs \in Nat
  /\ rq \in [Id -> Request \cup {NoReq}]
  /\ ahead \in [Id -> SUBSET Id]
  /\ w \in [Watchers -> Watcher]
  /\ app \in [Watchers -> AppState]

Init ==
  /\ sip \in SipStates
  /\ nbrSubs = 0
  /\ rq = [id \in Id |-> NoReq]
  /\ ahead = [id \in Id |-> {}]
  /\ \E winfo \in [Watchers -> BOOLEAN] : w = [x \in Watchers |-> NewWatcher(winfo[x])]
  /\ app = [x \in Watchers |-> "idle"]

-----------------------------------------------------------------------------
Live == {id \in Id : rq[id] # NoReq}
Of(x) == {id \in Live : id[1] = x}

(* The requests that the counter of subscriptions is about. *)
Counting(ids) == {id \in ids : ~w[id[1]].winfo}

(* No completion is waiting for delivery.  Completions run at              *)
(* EPriorityHigh, timers and SIP callbacks at lower priority: the latter   *)
(* run only then.                                                          *)
QuietMutant == TRUE   \* completions run at the priority of the other events
Quiet == \A id \in Live : rq[id].sig = NoSig

AppMayCall == Quiet \/ "preempt" \in Env

Update(id, r) == rq' = [rq EXCEPT ![id] = r]

(* CSimpleSipConnection::DecreaseNbrSubs, called k times. *)
DecreasedMutant(k) == nbrSubs   \* the decrement is missed
DecreasedWrapMutant(k) == nbrSubs - k   \* no check for zero
Decreased(k) == IF nbrSubs > k THEN nbrSubs - k ELSE 0

(* DoSubscribeL can send a SUBSCRIBE: the SIP side is active and the limit *)
(* is not reached by the subscriptions counted already, or there is none   *)
(* for the type of the request.                                            *)
WithinLimit(type)  == type = "Winfo" \/ MaxSubs = 0 \/ nbrSubs < MaxSubs
CanSubscribe(type) == sip = "Active" /\ WithinLimit(type)

Remove(ids) ==
  /\ rq' = [id \in Id |-> IF id \in ids THEN NoReq ELSE rq[id]]
  /\ ahead' = [id \in Id |-> IF id \in ids THEN {} ELSE ahead[id] \ ids]

-----------------------------------------------------------------------------
(* The application.                                                        *)

(* What the connection does with a new request, by its state: it is sent,  *)
(* or it waits for the network, or the call leaves.                        *)
Admits(kind) ==
  IF sip = "Active" THEN CanSubscribe(kind)
  ELSE sip = "Suspend" \/ (kind \in {"Lista", "Winfo"} /\ sip = "Inactive")

(* The watcher is in use by the request in a slot, under which it will     *)
(* look for it when it unsubscribes; a fetch is never looked for.          *)
InUse(x, kind, slot) ==
  [w EXCEPT ![x].iRequest = kind, ![x].iResCount = 0,
            ![x].iSubsId = IF kind = "Get" THEN @ ELSE slot]

(* CSimpleWatcher::SubscribeL, SubscribeListL and GetPresenceL, and        *)
(* CSimpleWinfoWatcher::SubscribeWatcherListL, down to                     *)
(* CSimpleSipConnection::SubscribeL, SubscribeListL and SubscribeWinfoL.   *)
(* A call that leaves changes nothing and is not a step.                   *)
Subscribe(x, kind, auto) ==
  LET free == {s \in Slots : rq[<<x, s>>] = NoReq}
      slot == CHOOSE s \in free : TRUE
      id == <<x, slot>>
  IN /\ AppMayCall
     /\ app[x] = "idle"
     /\ w[x].iRequest = "None"
     /\ free # {}
     /\ w[x].winfo = (kind = "Winfo")
     /\ Admits(kind)
     /\ kind \in {"Get", "Winfo"} => auto
     /\ Update(id, NewRequest(kind, auto, sip = "Active"))
     /\ ahead' = [ahead EXCEPT ![id] = Live]
     /\ nbrSubs' = IF kind = "Winfo" THEN nbrSubs ELSE nbrSubs + 1
     /\ w' = InUse(x, kind, slot)
     /\ app' = [app EXCEPT ![x] = "asked"]
     /\ UNCHANGED sip

(* UnsubscribeL overwrites the request type, and with it the refresh time, *)
(* before StopSubscribeL looks at the request; they stay so when it leaves.*)
AsStop(r) == [r EXCEPT !.type = "Stop", !.expires = FALSE]

(* CSimpleWatcher::UnsubscribeL, DispatchReqL and StopSubscribeL. *)
Unsubscribe(x) ==
  LET id == <<x, w[x].iSubsId>>
      r == AsStop(rq[id])
      leaves(q) ==
        /\ "stopLeaves" \in Env
        /\ Update(id, q)
        /\ UNCHANGED <<w, app>>
      stops(q) ==
        /\ Update(id, q)
        /\ w' = [w EXCEPT ![x].iRequest = "Stop", ![x].iComplete = FALSE,
                          ![x].iResCount = 0]
        /\ app' = [app EXCEPT ![x] = "stopping"]
  IN /\ AppMayCall
     /\ app[x] = "on" \/ ("eagerStop" \in Env /\ app[x] \in {"idle", "asked"})
     /\ id \in Live
     /\ \/ /\ r.dialog = "none" \/ r.state = "Deleting"
           /\ leaves(r)
        \/ /\ r.dialog # "none"
           /\ r.state \in {"ReTry", "PendingInit", "Pending"}
           /\ stops(Complete(SetResponseMethod(SetReqState(r, "Stopping"),
                                               "Unknown"),
                             "Completion"))
        \/ /\ r.dialog # "none"
           /\ r.state \notin {"ReTry", "PendingInit", "Pending", "Deleting"}
           /\ \/ /\ r.dialog = "dead" \/ sip # "Active" \/ "sendFails" \in Env
                 /\ leaves([r EXCEPT !.trans = "none"])
              \/ /\ r.dialog # "dead"
                 /\ stops([SetReqState(r, "Stopping") EXCEPT
                             !.trans = "unsubscribe", !.expiry = TRUE])
     /\ UNCHANGED <<sip, nbrSubs, ahead>>

(* MSimpleWatcher::Close: CSimpleClient::DeleteRequests sends EDestroy for *)
(* each request.  The watcher is gone; a new one takes its place.          *)
Close(x) ==
  /\ AppMayCall
  /\ "close" \in Env
  /\ Of(x) # {}
  /\ Remove(Of(x))
  /\ nbrSubs' = Decreased(Cardinality(Counting(Of(x))))
  /\ w' = [w EXCEPT ![x] = NewWatcher(w[x].winfo)]
  /\ app' = [app EXCEPT ![x] = "idle"]
  /\ UNCHANGED sip

-----------------------------------------------------------------------------
(* Delivery of a posted completion: CSimpleEngineRequest::RunL and         *)
(* CSimpleWatcher::Complete.                                               *)

(* The type says that the delayed deletion is over: EDestroy, which counts *)
(* the subscription down once more, then the request is gone.              *)
Destroy(id) ==
  LET x == id[1] IN
  /\ rq[id].type = "DestroyStart"
  /\ Remove({id})
  /\ nbrSubs' = Decreased(Cardinality(Counting({id})))
  /\ w' = [w EXCEPT ![x].iSubsId = IF @ = id[2] THEN 0 ELSE @]
  /\ UNCHANGED <<sip, app>>

(* WatcherReqCompleteL and WatcherTerminatedL as the application sees them.*)
ReqComplete(a, status, kind) ==
  CASE a = "asked" -> IF status = "OK" /\ kind # "Get" THEN "on" ELSE "idle"
    [] a = "stopping" -> "idle"
    [] OTHER -> "spurious"

Terminated(a) == IF a = "on" THEN "idle" ELSE "spurious"

(* iResCount after a completion: a response counts one, an error two, a    *)
(* NOTIFY only when it terminates the subscription.                        *)
CountedOnceMutant(n, byNotify, status) ==   \* an error counts one
  LET by == IF byNotify /\ status # "Completion" THEN 0 ELSE 1
  IN IF n + by > 2 THEN 2 ELSE n + by
Counted(n, byNotify, status) ==
  LET by == CASE byNotify -> IF status = "Completion" THEN 1 ELSE 0
              [] ~byNotify /\ status = "OK" -> 1
              [] OTHER -> 2
  IN IF n + by > 2 THEN 2 ELSE n + by

(* Whether a completion answers the application: a response does unless the *)
(* request has been answered already, but a stop only with the second      *)
(* completion, which may then be a NOTIFY.                                 *)
Answers(x, r, over) ==
  IF r.method = "Notify" THEN r.type = "Stop" /\ over
  ELSE ~w[x].iComplete /\ (r.type = "Stop" => over)

(* The rest of CSimpleWatcher::Complete: count the completion, tell the    *)
(* application, and start to delete the request after the second one.      *)
Deliver(id) ==
  LET x == id[1]
      r == rq[id]
      status == IF r.sig = "Pend" THEN "OK" ELSE r.sig
      byNotify == r.method = "Notify"
      stop == r.type = "Stop"
      n == Counted(w[x].iResCount, byNotify, status)
      over == n > 1
      answers == Answers(x, r, over)
      ends == over /\ r.type \notin {"Stop", "Get"} /\ ~answers
      told == IF answers
                THEN ReqComplete(app[x], IF stop THEN "OK" ELSE status, r.type)
                ELSE app[x]
      idle == [r EXCEPT !.sig = NoSig, !.method = "Unknown"]
  IN /\ r.type # "DestroyStart"
     /\ Update(id, IF over THEN DestroyStart([idle EXCEPT !.type = "DestroyStart"])
                           ELSE idle)
     /\ nbrSubs' = IF over THEN Decreased(Cardinality(Counting({id}))) ELSE nbrSubs
     /\ w' = [w EXCEPT ![x].iResCount = n,
                       ![x].iRequest = IF over THEN "None" ELSE @,
                       ![x].iComplete = ~over /\ (@ \/ answers)]
     /\ app' = [app EXCEPT ![x] = IF ends THEN Terminated(told) ELSE told]
     /\ UNCHANGED <<sip, ahead>>

RunL(id) ==
  /\ id \in Live
  /\ rq[id].sig \notin {NoSig, Overrun}
  /\ Destroy(id) \/ Deliver(id)

-----------------------------------------------------------------------------
(* The timers.                                                             *)

(* CSimpleExpiryTimer::RunL, StartToCheckExpiryL. *)
ExpiryFires(id) ==
  /\ Quiet
  /\ id \in Live
  /\ rq[id].expiry
  /\ Update(id, Complete([rq[id] EXCEPT !.expiry = FALSE], "TimedOut"))
  /\ UNCHANGED <<sip, nbrSubs, ahead, w, app>>

(* CSimpleRefreshTimer::RunL, StartToRefreshL, DoRefreshSubscribe: the end *)
(* of a subscription without refresh, or the time to retry.                *)
RefreshFires(id) ==
  LET fired == [rq[id] EXCEPT !.refresh = FALSE]
      ended == IF fired.auto THEN fired ELSE Complete(fired, "TimedOut")
      r == [ended EXCEPT !.expiry = TRUE]
      recreating == SetReqState(r, "DialogReCre")
  IN /\ Quiet
     /\ id \in Live
     /\ rq[id].refresh
     /\ \/ /\ r.state \notin {"ReTry", "Pending"}
           /\ Update(id, r)
        \/ /\ r.state \in {"ReTry", "Pending"}
           /\ sip # "Active"
           /\ Update(id, SetReqState(r, "Pending"))
        \/ /\ r.state \in {"ReTry", "Pending"}
           /\ sip = "Active"
           /\ \/ CanSubscribe(r.type) /\ Update(id, CreateDialog(recreating))
              \/ /\ ~CanSubscribe(r.type) \/ "sendFails" \in Env
                 /\ Update(id, Complete(SetReqState(recreating, "Failed"), "Temp"))
     /\ UNCHANGED <<sip, nbrSubs, ahead, w, app>>

-----------------------------------------------------------------------------
(* The SIP stack and the server.                                           *)

(* Where the server is after it has answered: an error ends the dialog     *)
(* that the SUBSCRIBE was to create, or that the unsubscription was to end.*)
AfterResponse(r, status) ==
  [r EXCEPT !.trans = "none",
            !.dialog = IF @ # "none" /\ status \notin Accepted THEN "dead" ELSE @]

(* CSimpleSipConnectionObserver::IncomingResponse: a final response.       *)
ResponseMutant(id, status) ==   \* any 202 makes the subscription pending
  LET r == SetResponseMethod(AfterResponse(rq[id], status), "Status") IN
  /\ Quiet
  /\ sip = "Active"
  /\ id \in Live
  /\ rq[id].trans # "none"
  /\ Update(id, Complete([r EXCEPT !.sub = IF status = "Pend" THEN "Pending" ELSE @],
                         status))
  /\ UNCHANGED <<sip, nbrSubs, ahead, w, app>>

Response(id, status) ==
  /\ Quiet
  /\ sip = "Active"
  /\ id \in Live
  /\ rq[id].trans # "none"
  /\ Update(id, Complete(SetResponseMethod(AfterResponse(rq[id], status), "Status"),
                         status))
  /\ UNCHANGED <<sip, nbrSubs, ahead, w, app>>

(* CSimpleSipConnectionObserver::ErrorOccured for a client transaction:    *)
(* it timed out, could not be sent or was rejected by the stack.           *)
TransactionFails(id, status) ==
  /\ Quiet
  /\ id \in Live
  /\ rq[id].trans # "none"
  /\ Update(id, Complete(SetResponseMethod(AfterResponse(rq[id], status), "Unknown"),
                         status))
  /\ UNCHANGED <<sip, nbrSubs, ahead, w, app>>

(* CSimpleSipConnectionObserver::ErrorOccured for a dialog: the refresh    *)
(* that the stack makes by itself has failed.                              *)
RefreshFailsMutant(id, status, long) ==   \* taken for a NOTIFY
  /\ Quiet
  /\ id \in Live
  /\ rq[id].dialog = "kept"
  /\ rq[id].trans = "none"
  /\ Update(id, Complete(SetResponseMethod([rq[id] EXCEPT !.dialog = "dead",
                                                          !.long = long],
                                           "Notify"),
                         status))
  /\ UNCHANGED <<sip, nbrSubs, ahead, w, app>>

RefreshFails(id, status, long) ==
  /\ Quiet
  /\ id \in Live
  /\ rq[id].dialog = "kept"
  /\ rq[id].trans = "none"
  /\ Update(id, Complete(SetResponseMethod([rq[id] EXCEPT !.dialog = "dead",
                                                          !.long = long],
                                           "Unknown"),
                         status))
  /\ UNCHANGED <<sip, nbrSubs, ahead, w, app>>

(* A NOTIFY can come in on an open dialog, after the response to the       *)
(* SUBSCRIBE or, since the two are not ordered, before it.                 *)
CanNotify(id) ==
  /\ Quiet
  /\ sip = "Active"
  /\ id \in Live
  /\ rq[id].dialog \in {"open", "kept"}
  /\ rq[id].trans = "none" \/ "notifyFirst" \in Env

(* HandleDialogRequestL, Subscription-State "active" or "pending". *)
NotifyState(id, status) ==
  /\ CanNotify(id)
  /\ status = "OK" \/ rq[id].type # "Stop" \/ "latePending" \in Env
  /\ Update(id, Complete([SetResponseMethod(rq[id], "Notify") EXCEPT !.errs = 0],
                         status))
  /\ UNCHANGED <<sip, nbrSubs, ahead, w, app>>

(* HandleDialogRequestL, Subscription-State "terminated": retried when the *)
(* subscription is live and refreshed, the reason is not permanent, and it *)
(* is the first one in a row.                                              *)
NotifyTerminated(id, permanent, long) ==
  LET n == IF rq[id].errs < 2 THEN rq[id].errs + 1 ELSE 2
      r == [SetResponseMethod(rq[id], "Notify") EXCEPT
              !.errs = n, !.long = long, !.dialog = "dead"]
      final == n > 1 \/ permanent \/ ~r.auto \/ r.state # "ActiveSubs"
  IN /\ CanNotify(id)
     /\ permanent \/ "retryNotify" \in Env
     /\ Update(id, Complete(r, IF final THEN "Completion" ELSE "Temp"))
     /\ UNCHANGED <<sip, nbrSubs, ahead, w, app>>

-----------------------------------------------------------------------------
(* CSimpleSipConnection::ConnectionStateChange, told by the SIP stack or   *)
(* by the profile observer.                                                *)

(* The bearer is lost: the stack drops every transaction and dialog, and   *)
(* CompleteRegularRequests completes every request.                        *)
Disconnect(state) ==
  LET lost(r) ==
        SetResponseMethod([r EXCEPT !.trans = "none",
                                    !.dialog = IF @ = "none" THEN @ ELSE "dead"],
                          "Unknown")
  IN /\ Quiet
     /\ state \in {"Inactive", "Unavailable"} \cap SipStates
     /\ sip' = state
     /\ nbrSubs' = 0
     /\ rq' = [id \in Id |-> IF id \in Live
                               THEN Complete(lost(rq[id]), "Disconnected")
                               ELSE NoReq]
     /\ UNCHANGED <<ahead, w, app>>

Suspend ==
  /\ Quiet
  /\ "Suspend" \in SipStates
  /\ sip' = "Suspend"
  /\ UNCHANGED <<nbrSubs, rq, ahead, w, app>>

WaitsForNetworkMutant(id) == rq[id].state # "ActiveSubs"   \* any but a live one
WaitsForNetwork(id) == rq[id].state \in {"PendingInit", "Pending"}

(* HandlePendings walks iRequestList and stops at the first request that   *)
(* does not wait for the network.                                          *)
Reached ==
  {id \in Live : WaitsForNetwork(id) /\ \A e \in ahead[id] : WaitsForNetwork(e)}

(* HandlePendings for one request, when its SUBSCRIBE is sent and when not.*)
Resumed(r) ==
  SetReqState(r, IF r.state = "PendingInit" THEN "RunningInit" ELSE "DialogReCre")

Resume(r, sent) ==
  IF sent THEN CreateDialog(Resumed(r))
          ELSE Complete(SetReqState(Resumed(r), "Failed"), "Error")

(* The connection is back.  Only a suspended one has requests to resume;   *)
(* DoSubscribeL checks the limit with the requests themselves counted.     *)
Activate ==
  LET resuming == IF sip = "Suspend" THEN Reached ELSE {}
      over == {id \in resuming : ~WithinLimit(rq[id].type)}
  IN /\ Quiet
     /\ sip' = "Active"
     /\ \E refused \in SUBSET resuming :
          /\ over \subseteq refused
          /\ refused = over \/ "sendFails" \in Env
          /\ rq' = [id \in Id |-> IF id \in resuming
                                    THEN Resume(rq[id], id \notin refused)
                                    ELSE rq[id]]
     /\ UNCHANGED <<nbrSubs, ahead, w, app>>

-----------------------------------------------------------------------------
App ==
  \E x \in Watchers :
    \/ \E kind \in Kinds, auto \in Refreshes : Subscribe(x, kind, auto)
    \/ Unsubscribe(x)
    \/ Close(x)

Network ==
  \/ \E id \in Id :
       \/ \E status \in ResponseStatus : Response(id, status)
       \/ \E status \in {"Temp", "Error"} : TransactionFails(id, status)
       \/ \E status \in {"Temp", "Error"}, long \in BOOLEAN :
            RefreshFails(id, status, long)
       \/ \E status \in Accepted : NotifyState(id, status)
       \/ \E permanent, long \in BOOLEAN : NotifyTerminated(id, permanent, long)
  \/ \E state \in SipStates : Disconnect(state)
  \/ Suspend
  \/ Activate

Engine ==
  \E id \in Id : RunL(id) \/ ExpiryFires(id) \/ RefreshFires(id)

Next == App \/ Network \/ Engine

Spec == Init /\ [][Next]_vars

(* The active scheduler runs a signalled active object: RunL is enabled    *)
(* until it runs.  A running timer fires in the end even though other      *)
(* completions go first, so strong fairness: nothing but a cancellation    *)
(* can keep it from firing for ever.                                       *)
Fairness ==
  \A id \in Id : WF_vars(RunL(id)) /\ SF_vars(ExpiryFires(id))
                                   /\ SF_vars(RefreshFires(id))

FairSpec == Spec /\ Fairness

-----------------------------------------------------------------------------
(* Properties.                                                             *)

Waiting == {"PendingInit", "RunningInit", "DialogReCre", "Pending",
            "Stopping", "Deleting"}

(* A request that waits for the network, for a response or for its own     *)
(* deletion, with nothing posted, has a timer running that will end the    *)
(* wait (the "infinite wait situation" of the code's comments), and one    *)
(* that waits to retry has the timer of the retry.                         *)
Timed(r) ==
  r.sig = NoSig => /\ r.state \in Waiting => r.expiry
                   /\ r.state = "ReTry" => r.refresh

WaitingIsTimed == \A id \in Live : Timed(rq[id])

(* A completion is never posted to an active object that has one posted    *)
(* already: SetActive would panic the thread.                              *)
NoOverrun == \A id \in Live : rq[id].sig # Overrun

(* iCurrentNbrSubs never exceeds the presence subscriptions that exist:    *)
(* the limit of the settings cannot be used up by subscriptions that are   *)
(* gone, nor by those to watcher info.                                     *)
CounterBounded == nbrSubs <= Cardinality(Counting(Live))

(* What the application believes is so once every posted completion has    *)
(* been delivered: a watcher that WatcherReqCompleteL has told it is       *)
(* subscribed, and WatcherTerminatedL has not, has a live subscription,    *)
Established == {"ActiveSubs", "ReTry", "DialogReCre", "Pending"}
ToldOnIsOn ==
  Quiet => \A x \in Watchers :
             app[x] = "on" => \E id \in Of(x) : rq[id].state \in Established

(* and no subscription is alive that the application does not know of.     *)
NoOrphan ==
  Quiet => \A id \in Live :
             rq[id].state \in Established => app[id[1]] \in {"on", "stopping"}

(* While the application waits for a callback, a timer or a posted         *)
(* completion guarantees that one will come, whatever the server does.     *)
AppWaitIsTimed ==
  \A x \in Watchers :
    app[x] \in {"asked", "stopping"} =>
      \E id \in Of(x) : rq[id].expiry \/ rq[id].sig # NoSig

(* No watcher is left in use by a request that has ended and that nothing  *)
(* will ever collect.                                                      *)
Abandoned(r) ==
  /\ r.state \in {"Complete", "Failed"} /\ r.sig = NoSig
  /\ ~r.expiry /\ ~r.refresh
  /\ r.dialog \notin {"open", "kept"} /\ r.trans = "none"
NeverStuck ==
  \A x \in Watchers :
    w[x].iRequest # "None" => \E id \in Of(x) : ~Abandoned(rq[id])

(* No more subscriptions in the network than the settings allow. *)
InNetwork(r) == r.state \notin Final /\ r.dialog \in {"open", "kept"}
LimitHonoured ==
  MaxSubs # 0 => Cardinality({id \in Counting(Live) : InNetwork(rq[id])}) <= MaxSubs

(* Only a NOTIFY can turn an active subscription into a pending one. *)
SubFollowsNotify ==
  [][\A id \in Live :
       rq[id].sub = "Active" /\ rq'[id] # NoReq /\ rq'[id].sub = "Pending"
         => rq'[id].method = "Notify"]_vars

(* What has ended stays ended: no later response, NOTIFY, timer or network *)
(* recovery revives it, only an unsubscription may still be sent.          *)
StaysEnded(r, q) ==
  /\ r.state = "Deleting" => q = NoReq \/ q.state = "Deleting"
  /\ r.state \in {"Complete", "Failed"} =>
       q = NoReq \/ q.state \in Final \cup {"Stopping"}
EndedStay == \A id \in Live : StaysEnded(rq[id], rq'[id])
NeverRevived == [][EndedStay]_vars

(* Every request whose deletion CSimpleWatcher::Complete has started is    *)
(* deleted from both lists in the end.                                     *)
DeletedInTheEnd ==
  \A id \in Id : rq[id] # NoReq /\ rq[id].state = "Deleting" ~> rq[id] = NoReq

-----------------------------------------------------------------------------
(* The promise of the watcher API, WatcherContract: app as the callbacks   *)
(* leave it, and what CSimpleWatcher::iRequest says the watcher is in use  *)
(* for.  With a network and an application that keep to the rules the      *)
(* engine keeps the promise.                                               *)
Use(x) ==
  CASE w[x].iRequest = "None" -> "free"
    [] w[x].iRequest = "Get" -> "fetch"
    [] OTHER -> "subscription"

Promise == INSTANCE WatcherContract WITH use <- [x \in Watchers |-> Use(x)]
Contract == Promise!Spec
=============================================================================
