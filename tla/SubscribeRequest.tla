-------------------------- MODULE SubscribeRequest --------------------------
(***************************************************************************)
(* One subscription request of the SIMPLE engine: the pair of              *)
(*   - CSimpleRequest (siputils), the request as the SIP side sees it, with *)
(*     its state machine, its two timers, its dialog and its transaction;   *)
(*   - CSimpleEngineRequest (engine), the active object that carries the    *)
(*     completion back to the watcher that owns the request.                *)
(* The two live and die together, so they are one record.  Every operator  *)
(* is a method of one of the classes, as a function of that record.        *)
(*                                                                         *)
(* SIP codes and Symbian error codes are abstracted to the classes the     *)
(* code tells apart (Status); seconds are abstracted away: a timer is      *)
(* running or it is not, and "long" stands for RetryTime() > KRetryBefore. *)
(***************************************************************************)
EXTENDS Naturals

(* CSimpleRequest::TSimpleReqState, the values subscriptions use. *)
ReqState == {"PendingInit", "RunningInit", "ActiveSubs", "ReTry",
             "DialogReCre", "Pending", "Stopping",
             "Complete", "Failed", "Deleting"}

(* States in which SetReqState declares the subscription terminated. *)
Final == {"Complete", "Failed", "Deleting"}

(* Completion codes: KErrNone, KSimpleErrPending, KSimpleErrTemporary, any  *)
(* other error, KErrCompletion, KErrTimedOut, KErrDisconnected.             *)
Status == {"OK", "Pend", "Temp", "Error", "Completion", "TimedOut",
           "Disconnected"}

(* What ConvertSipCode can make of a final SIP response. *)
ResponseStatus == {"OK", "Pend", "Temp", "Error"}

Accepted == {"OK", "Pend"}

Kind == {"Subscribe", "Lista", "Get", "Winfo"}

(* MSimpleEngineRequest::TSimpleRequest: the type is overwritten in place  *)
(* when the watcher unsubscribes and when it starts to delete the request. *)
Type == Kind \cup {"Stop", "DestroyStart"}

(* iStatus of the active object: nothing signalled, a status signalled, or *)
(* signalled twice before RunL, which panics the thread.                   *)
NoSig == "NoSig"
Overrun == "Overrun"

(* "kept" is an open dialog that the stack refreshes by itself             *)
(* (CSIPRefresh); "dead" is a CSIPSubscribeDialogAssoc object whose SIP    *)
(* dialog is gone.                                                         *)
Request ==
  [state   : ReqState,
   trans   : {"none", "subscribe", "unsubscribe"},
   dialog  : {"none", "open", "kept", "dead"},
   expiry  : BOOLEAN,                              \* iExpiryTimer active
   refresh : BOOLEAN,                              \* iRefreshTimer active
   long    : BOOLEAN,                              \* iRetryAfter > KRetryBefore
   errs    : 0..2,                                 \* iErrNotify, 2 is "> 1"
   resps   : 0..3,                                 \* iRespCount, 3 is "> 2"
   sub     : {"None", "Pending", "Active", "Terminated"},
   kind    : Kind,                                 \* request type at creation
   auto    : BOOLEAN,                              \* IsRefresh()
   type    : Type,
   expires : BOOLEAN,                              \* RefreshTime() # 0
   method  : {"Unknown", "Status", "Notify"},      \* ResponseMethod()
   sig     : Status \cup {NoSig, Overrun}]

(* A request as SubscribeL, SubscribeListL and SubscribeWinfoL leave it:   *)
(* `active' is iSipState = ESimpleSipActive, when the SUBSCRIBE has been    *)
(* sent.                                                                   *)
(* Without automatic refresh the refresh timer runs for garbage collection.*)
NewRequest(kind, auto, active) ==
  [state   |-> IF active THEN "RunningInit" ELSE "PendingInit",
   trans   |-> IF active THEN "subscribe" ELSE "none",
   dialog  |-> CASE ~active -> "none"
                 [] active /\ auto /\ kind # "Get" -> "kept"
                 [] OTHER -> "open",
   expiry  |-> TRUE,
   refresh |-> ~auto,
   long    |-> FALSE,
   errs    |-> 0,
   resps   |-> 0,
   sub     |-> "None",
   kind    |-> kind,
   auto    |-> auto,
   type    |-> kind,
   expires |-> kind # "Get",
   method  |-> "Unknown",
   sig     |-> NoSig]

-----------------------------------------------------------------------------
(* CSimpleEngineRequest::Complete: signal the active object, whose RunL    *)
(* calls the watcher later.                                                *)
Post(r, status) ==
  [r EXCEPT !.sig = IF @ = NoSig THEN status ELSE Overrun]

SetReqState(r, s) ==
  [r EXCEPT !.state = s, !.sub = IF s \in Final THEN "Terminated" ELSE @]

(* CSimpleEngineRequest::SetResponseMethod: what the next completion is a  *)
(* reaction to, a response, a NOTIFY or something else.                    *)
SetResponseMethod(r, method) == [r EXCEPT !.method = method]

(* The end of a live subscription that will be re-created: retry unless    *)
(* the server asked for too long a pause.                                  *)
RetryLater(r) ==
  IF r.long
    THEN Post(SetReqState(r, "Failed"), "Completion")
    ELSE [SetReqState(r, "ReTry") EXCEPT !.refresh = TRUE]

(* The timers a response stops: not the expiry timer of a stop request,    *)
(* which waits for both a response and a NOTIFY, and not the garbage       *)
(* collection timer of a subscription that is about to begin.              *)
StopTimersMutant(r) ==   \* the special case of the stop request is missed
  [r EXCEPT !.expiry = FALSE, !.refresh = @ /\ r.state = "RunningInit"]

StopTimers(r) ==
  [r EXCEPT !.expiry  = @ /\ r.state = "Stopping",
            !.refresh = @ /\ r.state = "RunningInit"]

(* CSimpleRequest::DoCompleteSubscription: a response, an error or a local *)
(* cancellation.                                                           *)
CompleteSubscription(r, status) ==
  LET q == StopTimers(r)
      error == status \notin Accepted
      n == IF r.resps < 3 THEN r.resps + 1 ELSE 3
      over == error \/ (r.resps = 1)
  IN CASE r.state = "RunningInit" ->
            Post(CASE error -> SetReqState(q, "Failed")
                   [] ~error /\ r.kind = "Get" -> SetReqState(q, "Complete")
                   [] OTHER ->
                        SetReqState([q EXCEPT !.sub =
                                       IF status = "Pend" THEN "Pending" ELSE @],
                                    "ActiveSubs"),
                 status)
       [] r.state = "ActiveSubs" -> RetryLater(q)
       [] r.state = "Stopping" ->
            Post(IF over THEN [SetReqState(q, "Complete") EXCEPT
                                 !.resps = n, !.expiry = FALSE]
                         ELSE [q EXCEPT !.resps = n],
                 status)
       [] r.state = "DialogReCre" /\ status = "OK" -> SetReqState(q, "ActiveSubs")
       [] OTHER -> Post(SetReqState(q, "Failed"), status)

(* CSimpleRequest::DoCompleteNotification: a NOTIFY, or anything else that *)
(* completes the request while its response method still says NOTIFY.      *)
CompleteNotification(r, status) ==
  LET seen == [r EXCEPT !.sub = IF status = "Pend" THEN "Pending" ELSE "Active"]
      counted == r.state = "Stopping" /\ status = "Pend"
      n == IF r.resps < 3 THEN r.resps + 1 ELSE 3
      gone == [r EXCEPT !.dialog = "none"]
  IN CASE status \in Accepted ->
            Post(CASE ~counted -> seen
                   [] counted /\ r.resps = 1 ->
                        [SetReqState(seen, "Complete") EXCEPT
                           !.resps = n, !.expiry = FALSE]
                   [] OTHER -> [seen EXCEPT !.resps = n],
                 status)
       [] status \notin Accepted /\ r.state = "ActiveSubs"
            /\ r.auto /\ status = "Temp" ->
            RetryLater([gone EXCEPT !.refresh = FALSE])
       [] status \notin Accepted /\ r.state = "ActiveSubs"
            /\ ~(r.auto /\ status = "Temp") ->
            Post(SetReqState(gone, IF status \in {"TimedOut", "Completion"}
                                     THEN "Complete" ELSE "Failed"),
                 status)
       [] OTHER -> Post(r, status)

(* CSimpleRequest::Complete. *)
CompleteMutant(r, status) ==   \* the guard for a request being deleted is missed
  CASE status \in {"Disconnected", "TimedOut"} ->
         Post(SetReqState([r EXCEPT !.long = FALSE, !.expiry = FALSE,
                                    !.refresh = FALSE], "Failed"),
              status)
    [] status \notin {"Disconnected", "TimedOut"} /\ r.method = "Notify" ->
         CompleteNotification(r, status)
    [] OTHER -> CompleteSubscription(r, status)

Complete(r, status) ==
  CASE r.state = "Deleting" -> Post(r, status)
    [] r.state # "Deleting" /\ status \in {"Disconnected", "TimedOut"} ->
         Post(SetReqState([r EXCEPT !.long = FALSE, !.expiry = FALSE,
                                    !.refresh = FALSE], "Failed"),
              status)
    [] r.state # "Deleting" /\ status \notin {"Disconnected", "TimedOut"}
         /\ r.method = "Notify" -> CompleteNotification(r, status)
    [] OTHER -> CompleteSubscription(r, status)

(* CSimpleRequest::DestroyStart: the request lives one more KDeleteDelay.  *)
DestroyStartMutant(r) ==   \* no timer for the deletion
  [SetReqState(r, "Deleting") EXCEPT !.refresh = FALSE]

DestroyStart(r) ==
  [SetReqState(r, "Deleting") EXCEPT !.expiry = TRUE, !.refresh = FALSE]

(* CSimpleSipConnection::DoCreateDialogL when the SUBSCRIBE could be sent. *)
CreateDialog(r) ==
  [r EXCEPT !.trans = "subscribe",
            !.dialog = IF r.auto /\ r.expires THEN "kept" ELSE "open"]
=============================================================================
