---------------------------- MODULE Publications ----------------------------
(***************************************************************************)
(* Presence publications of the SIMPLE engine: a CSimplePublisher of the   *)
(* application side, the CSimpleRequest that carries its PUBLISH requests  *)
(* in CSimpleSipConnection, and the server that keeps the document.        *)
(*                                                                         *)
(* A publisher has one request at a time.  Its handlers call one another   *)
(* within one run of an active object, and a call may send a PUBLISH with  *)
(* several outcomes, so a handler is written as an operator from a World   *)
(* (the state of all parts) to the set of Worlds it may end in.            *)
(***************************************************************************)
EXTENDS Naturals, FiniteSets

CONSTANTS
  Docs,        \* the documents the application publishes
  Refreshes,   \* the aRefresh arguments it uses
  SipStates,   \* the connection states that occur
  Env          \* what the environment may do, see EnvChoices

(* refuse        the server may refuse a PUBLISH for good (4xx), perhaps   *)
(*               because it has dropped the publication                    *)
(* busy          the server may refuse one for the moment (503)            *)
(* lose          a PUBLISH or the response to it may be lost               *)
(* slow          a timer may fire while a response is on its way           *)
(* sendFails     the SIP stack may refuse to send a PUBLISH of the engine  *)
(* modifyLeaves  calls of ModifyPublishL that leave happen                 *)
(* startLeaves   calls of StartPublishL that leave with KErrInUse happen    *)
(* overlap       the application modifies while a PUBLISH is under way     *)
(* reenter       the application calls from within a callback              *)
(* lateStart     the application starts to publish while the connection is *)
(*               suspended                                                 *)
(* behind        HandlePendings may stop before it reaches the request     *)
EnvChoices == {"refuse", "busy", "lose", "slow", "sendFails",
               "modifyLeaves", "startLeaves", "overlap", "reenter",
               "lateStart", "behind"}

NoDoc == "no document"
NoSig == "no completion"

ASSUME ConstantsAssumption ==
  /\ NoDoc \notin Docs
  /\ Refreshes \subseteq BOOLEAN
  /\ "Active" \in SipStates
  /\ SipStates \subseteq {"Active", "Suspend", "Inactive", "Unavailable"}
  /\ Env \subseteq EnvChoices

VARIABLES
  sip,   \* CSimpleSipConnection::iSipState
  req,   \* the publisher's CSimpleRequest and CSimpleEngineRequest, or NoReq
  pub,   \* the fields of the CSimplePublisher
  srv,   \* the document the server has for this publication, or NoDoc
  app    \* what the application has asked for and been told

vars == <<sip, req, pub, srv, app>>

(* An ETag is seen as the server would compare it: the one of the current  *)
(* version of the publication, an earlier one, or none.                    *)
Tag == {"None", "Current", "Stale"}

Status == {"OK", "Temporary", "Permanent", "TimedOut", "Disconnected",
           "CommsBreak", "NotReady", "Completion"}

(* The client transaction the request remembers, with the response that is *)
(* on its way: "Lost" when none will come.                                 *)
NoTrans == [answer |-> "None", etag |-> "None"]
Trans == [answer : {"None", "Lost", "OK", "Temporary", "Permanent"}, etag : Tag]

ReqState == {"PendingInit", "RunningInit", "Active", "Running", "Pending",
             "Stopping", "Complete", "Failed"}

(* CSimpleRequest with the fields of its CSimpleEngineRequest that matter: *)
(* type, auto (IsRefresh), method (ResponseMethod), sig (iStatus).  The    *)
(* engine request's ETag is set from the request's at every completion and *)
(* is equal to etag whenever a handler reads it.                           *)
Request == [state   : ReqState,
            pend    : {"No", "Modify", "Refresh", "ModifyAndRefresh"},
            type    : {"StartPublish", "PublishModify", "StopPublish"},
            auto    : BOOLEAN,
            method  : {"Unknown", "Status", "StatusETag"},
            etag    : Tag,
            given   : BOOLEAN,
            data    : Docs \cup {NoDoc},
            trans   : Trans,
            expiry  : BOOLEAN,
            refresh : BOOLEAN,
            sig     : Status \cup {NoSig}]

NoReq == [state |-> "NoReq"]

(* found: SearchRequests( iOpId ) finds the request. *)
Publisher == [iRequest   : {"None", "StartPublish", "PublishModify", "StopPublish"},
              iPublished : BOOLEAN,
              found      : BOOLEAN,
              iETag      : Tag]

(* st: what the application is waiting for or has; doc: the document of    *)
(* its last call; sure: it has been told that this call succeeded;         *)
(* dropped: a completion has not been passed on to it (of this state, the  *)
(* code keeps only st, in the callbacks it makes).                         *)
AppState == [st   : {"off", "starting", "on", "modifying", "stopping", "spurious"},
             doc  : Docs \cup {NoDoc},
             sure : BOOLEAN,
             dropped : BOOLEAN]

(* Every variable has its type. *)
TypeOK ==
  /\ sip \in SipStates
  /\ req \in Request \cup {NoReq}
  /\ pub \in Publisher
  /\ srv \in Docs \cup {NoDoc}
  /\ app \in AppState

Init ==
  /\ sip \in SipStates
  /\ req = NoReq
  /\ pub = [iRequest |-> "None", iPublished |-> FALSE,
            found |-> FALSE, iETag |-> "None"]
  /\ srv = NoDoc
  /\ app = [st |-> "off", doc |-> NoDoc, sure |-> FALSE,
            dropped |-> FALSE]

World == [sip |-> sip, req |-> req, pub |-> pub, srv |-> srv, app |-> app]
Becomes(worlds) ==
  \E s \in worlds : /\ sip' = s.sip /\ req' = s.req /\ pub' = s.pub
                    /\ srv' = s.srv /\ app' = s.app

-----------------------------------------------------------------------------
(* Sending a PUBLISH, and what the server does with it (RFC 3903): it may  *)
(* accept one that names the current ETag, or one without ETag that has a  *)
(* body; "moved" when that makes every ETag handed out before a stale one. *)

Outcome(doc, moved, answer, etag) ==
  [srv |-> doc, moved |-> moved, trans |-> [answer |-> answer, etag |-> etag]]

Refusals(s) ==
  {Outcome(s.srv, FALSE, a, "None") :
     a \in {"Permanent"} \cup (IF "busy" \in Env THEN {"Temporary"} ELSE {})}
  \cup {Outcome(NoDoc, TRUE, "Permanent", "None")}

Arrivals(s, body, stop) ==
  LET doc == IF stop THEN NoDoc ELSE IF body = NoDoc THEN s.srv ELSE body
      accepted == Outcome(doc, TRUE, "OK", IF stop THEN "None" ELSE "Current")
      acceptable == \/ s.req.etag = "Current"
                    \/ s.req.etag = "None" /\ body # NoDoc
      wrong == Outcome(s.srv, FALSE, "Permanent", "None")
  IN IF ~acceptable THEN {wrong}
     ELSE {accepted} \cup {o \in Refusals(s) :
                             \/ o.trans.answer = "Temporary"
                             \/ "refuse" \in Env}

Served(s, body, stop) ==
  LET arrivals == Arrivals(s, body, stop) IN
  arrivals \cup
    IF "lose" \notin Env THEN {}
    ELSE {[o EXCEPT !.trans = [answer |-> "Lost", etag |-> "None"]] :
            o \in arrivals \cup {Outcome(s.srv, FALSE, "Lost", "None")}}

Aged(tag) == IF tag = "Current" THEN "Stale" ELSE tag

(* DoPublishL and SetTransaction: the transaction is remembered in place   *)
(* of the one before, whose response will be ignored.                      *)
Sent(s, body, stop) ==
  {[s EXCEPT !.srv = o.srv, !.req.trans = o.trans,
             !.req.etag = IF o.moved THEN Aged(@) ELSE @,
             !.pub.iETag = IF o.moved THEN Aged(@) ELSE @] :
     o \in Served(s, body, stop)}

(* DoPublishL leaves unless the SIP side is active, and then too when the  *)
(* stack refuses: the Worlds in which it has sent, and those given for the *)
(* case that it has not.                                                   *)
DoPublish(s, body, stop) == IF s.sip = "Active" THEN Sent(s, body, stop) ELSE {}
IfNotSent(s, worlds) ==
  IF s.sip # "Active" \/ "sendFails" \in Env THEN worlds ELSE {}

(* CSimpleSipConnection::DoSendPendingPublish: a modification goes with    *)
(* its body, a refresh without.                                            *)
SendPendingPublishMutant(s) ==   \* never a body
  {[t EXCEPT !.req.pend = "No"] : t \in DoPublish(s, NoDoc, FALSE)}
SendPendingPublish(s) ==
  LET body == IF s.req.pend \in {"Modify", "ModifyAndRefresh"} THEN s.req.data
                                                               ELSE NoDoc
  IN {[t EXCEPT !.req.pend = "No"] : t \in DoPublish(s, body, FALSE)}

-----------------------------------------------------------------------------
(* CSimpleRequest::Complete for a publication.                             *)

SetReqState(s, state) == [s EXCEPT !.req.state = state]
StartRefreshTimer(s) == [s EXCEPT !.req.refresh = TRUE]
StopRefreshTimer(s) == [s EXCEPT !.req.refresh = FALSE]
StopExpiryTimer(s) == [s EXCEPT !.req.expiry = FALSE]
Post(s, status) == [s EXCEPT !.req.sig = status]
Fail(s, status) == Post(SetReqState(s, "Failed"), status)

(* The response to the first PUBLISH. *)
CompleteStart(s, status) ==
  LET t == StopExpiryTimer(s) IN
  IF status = "OK" THEN Post(StartRefreshTimer(SetReqState(t, "Active")), "OK")
                   ELSE Fail(t, status)

(* The response to a refresh after which a modification is pending.        *)
CompleteBeforeModifyMutant(s, status) ==   \* stops the expiry timer
  LET t == StopExpiryTimer(StartRefreshTimer(SetReqState(s, "Active"))) IN
  IF status # "OK" THEN {Fail(StopExpiryTimer(s), "Completion")}
  ELSE SendPendingPublish(t) \cup IfNotSent(t, {Post(t, "NotReady")})
CompleteBeforeModify(s, status) ==
  LET t == StartRefreshTimer(SetReqState(s, "Active")) IN
  IF status # "OK" THEN {Fail(StopExpiryTimer(s), "Completion")}
  ELSE SendPendingPublish(t)
       \cup IfNotSent(t, {Post(StopExpiryTimer(t), "NotReady")})

(* The response to a modification. *)
CompleteModifyMutant(s, status) ==   \* the refresh timer is not started again
  LET t == StopExpiryTimer(s) IN
  IF status \in {"OK", "Temporary"} THEN Post(SetReqState(t, "Active"), status)
                                    ELSE Fail(t, "Completion")
CompleteModify(s, status) ==
  LET t == StopExpiryTimer(s) IN
  IF status \in {"OK", "Temporary"}
    THEN Post(StartRefreshTimer(SetReqState(t, "Active")), status)
    ELSE Fail(t, "Completion")

(* The response to a refresh: nothing is posted when it succeeds. *)
CompleteRefresh(s, status) ==
  LET t == StopExpiryTimer(s) IN
  IF status = "OK"
    THEN [StartRefreshTimer(SetReqState(t, "Active")) EXCEPT !.req.method = "StatusETag"]
    ELSE Fail(t, status)

CompleteStop(s, status) ==
  Post(SetReqState(StopExpiryTimer(s), "Complete"),
       IF s.req.given THEN status ELSE "OK")

(* A modification that waits for the network ends; a refresh that waits    *)
(* with it goes on waiting.                                                *)
CompletePendingModify(s, status) ==
  SetReqState(Post(StopExpiryTimer(s), status),
    IF s.req.pend = "ModifyAndRefresh" /\ status # "OK" THEN "Pending" ELSE "Active")

(* CSimpleRequest::DoCompletePublication. *)
DoCompletePublication(s0, status) ==
  LET state == s0.req.state
      pend == s0.req.pend
      modify == s0.req.type = "PublishModify"
      s == IF state = "Pending" THEN s0 ELSE StopRefreshTimer(s0)
      waiting == state = "Pending" /\ pend \in {"Modify", "ModifyAndRefresh"}
                                  /\ status # "Completion"
      done == CASE state = "RunningInit" -> {CompleteStart(s, status)}
                [] state = "Running" /\ modify /\ pend # "No" ->
                     CompleteBeforeModify(s, status)
                [] state = "Running" /\ modify /\ pend = "No" ->
                     {CompleteModify(s, status)}
                [] state = "Running" /\ ~modify -> {CompleteRefresh(s, status)}
                [] state = "Stopping" -> {CompleteStop(s, status)}
                [] waiting -> {CompletePendingModify(s, status)}
                [] OTHER -> {Fail(StopExpiryTimer(s), status)}
      next == IF waiting /\ pend = "ModifyAndRefresh" /\ status # "OK"
                THEN "Refresh" ELSE "No"
  IN {[t EXCEPT !.req.data = NoDoc, !.req.pend = next] : t \in done}

Complete(s, status) ==
  IF status = "Disconnected"
    THEN {Fail(StopRefreshTimer(StopExpiryTimer(s)), status)}
    ELSE DoCompletePublication(s, status)

-----------------------------------------------------------------------------
(* The calls of the application.  A call that leaves without effect is not *)
(* a step.                                                                 *)

Asks(s, st, doc) ==
  [s EXCEPT !.app = [st |-> st, doc |-> doc, sure |-> FALSE,
                     dropped |-> st # "starting" /\ s.app.dropped]]

NewRequest(type, state, auto, etag, doc) ==
  [state |-> state, pend |-> "No", type |-> type, auto |-> auto,
   method |-> "Unknown", etag |-> etag, given |-> FALSE, data |-> doc,
   trans |-> NoTrans, expiry |-> TRUE, refresh |-> FALSE, sig |-> NoSig]

(* CSimplePublisher::StartPublishL (no etag) and ContinuePublishL, down to *)
(* CSimpleSipConnection::StartPublishL.                                    *)
StartPublish(s, doc, auto, etag) ==
  LET new(state) == [Asks(s, "starting", doc) EXCEPT
                       !.pub.iRequest = "StartPublish", !.pub.found = TRUE,
                       !.req = NewRequest("StartPublish", state, auto, etag, doc)]
  IN IF s.pub.iRequest # "None" THEN {}
     ELSE CASE s.sip = "Active" ->
                 {StartRefreshTimer(t) : t \in DoPublish(new("RunningInit"), doc, FALSE)}
            [] s.sip = "Suspend" /\ "lateStart" \in Env -> {new("PendingInit")}
            [] OTHER -> {}

(* A StartPublishL of a publisher in use has taken a new operation id      *)
(* before it leaves.                                                       *)
StartPublishLeaves(s) ==
  IF "startLeaves" \in Env THEN {[s EXCEPT !.pub.found = FALSE]} ELSE {}

(* CSimplePublisher::ModifyPublishL and CSimpleSipConnection::             *)
(* ModifyPublishL: sent at once, left for the response to the PUBLISH that *)
(* is under way, or left for the network.                                  *)
AddPendingModify(pend) ==
  CASE pend = "No" -> "Modify"
    [] pend = "Refresh" -> "ModifyAndRefresh"
    [] OTHER -> pend

ModifiableMutant(s) == s.pub.found /\ s.req.etag # "None"   \* in any state
Modifiable(s) ==
  s.pub.found /\ s.req.etag # "None" /\ s.req.state \in {"Active", "Pending", "Running"}

ModifyPublish(s, doc) ==
  LET typed == [s EXCEPT !.req.type = "PublishModify"]
      asked(t) == [Asks(t, "modifying", doc) EXCEPT
                     !.req.expiry = TRUE, !.pub.iRequest = "PublishModify"]
      running == [SetReqState(typed, "Running") EXCEPT !.req.data = doc]
      queued == [typed EXCEPT !.req.data = doc, !.req.pend = AddPendingModify(@)]
  IN IF ~Modifiable(s) THEN {}
     ELSE CASE s.sip = "Active" /\ s.req.state # "Running" ->
                 {asked(t) : t \in DoPublish(running, doc, FALSE)}
            [] s.sip = "Active" /\ s.req.state = "Running" -> {asked(queued)}
            [] s.sip = "Suspend" -> {asked(SetReqState(queued, "Pending"))}
            [] OTHER -> {}

(* A ModifyPublishL that leaves has overwritten the type of the request,   *)
(* and its state too when it was DoPublishL that left.                     *)
ModifyPublishLeaves(s, doc) ==
  LET typed == [s EXCEPT !.req.type = "PublishModify"] IN
  IF "modifyLeaves" \notin Env \/ ~s.pub.found THEN {}
  ELSE {typed} \cup
       IF Modifiable(s) /\ s.sip = "Active" /\ s.req.state # "Running"
         THEN {[SetReqState(typed, "Running") EXCEPT !.req.data = doc]} ELSE {}

(* CSimplePublisher::StopPublishL and CSimpleSipConnection::StopPublishL   *)
(* for a publisher that has a request.  The engine request still has the   *)
(* ETag of its last completion, which is taken for a given one.            *)
StopPublish(s, etag) ==
  LET asked(t) == [Asks(t, "stopping", NoDoc) EXCEPT
                     !.pub.iRequest = "StopPublish", !.pub.iPublished = FALSE]
      t == [StopRefreshTimer(SetReqState(s, "Stopping")) EXCEPT
              !.req.type = "StopPublish", !.req.etag = etag,
              !.req.given = @ \/ etag # "None"]
      stopped == IF etag = "None" THEN Complete(SetReqState(t, "Complete"), "OK")
                 ELSE {[u EXCEPT !.req.expiry = TRUE] : u \in DoPublish(t, NoDoc, TRUE)}
                      \cup IfNotSent(t, Complete(t, "NotReady"))
  IN IF s.pub.found THEN {asked(u) : u \in stopped} ELSE {}

(* StopPublishL with an ETag for a publisher that has none ("scratch").    *)
StopPublishScratch(s, etag) ==
  LET new == [Asks(s, "stopping", NoDoc) EXCEPT
                !.pub.iRequest = "StopPublish", !.pub.iPublished = FALSE,
                !.pub.found = TRUE,
                !.req = [NewRequest("StopPublish", "Stopping", FALSE, etag, NoDoc)
                           EXCEPT !.given = TRUE]]
  IN DoPublish(new, NoDoc, TRUE)

-----------------------------------------------------------------------------
(* Delivery of a completion: CSimpleEngineRequest::RunL and                *)
(* CSimplePublisher::Complete.                                             *)

(* PublishReqCompleteL and PublishTerminatedL as the application sees them.*)
PublishReqComplete(a, status) ==
  LET ok == status = "OK" IN
  CASE a.st = "starting" -> [a EXCEPT !.st = IF ok THEN "on" ELSE "off", !.sure = ok]
    [] a.st = "modifying" -> [a EXCEPT !.st = "on", !.sure = ok]
    [] a.st = "stopping" -> [a EXCEPT !.st = "off"]
    [] OTHER -> [a EXCEPT !.st = "spurious"]

PublishTerminated(a) == [a EXCEPT !.st = IF @ = "spurious" THEN @ ELSE "off"]

(* What the application does in PublishReqCompleteL. *)
Callback(s) ==
  {s} \cup
  IF "reenter" \notin Env \/ s.app.st # "on" THEN {}
  ELSE StopPublish(s, s.req.etag)
       \cup UNION {ModifyPublish(s, doc) : doc \in Docs \ {s.app.doc}}

(* A request that is not needed any more is deleted in both lists. *)
DestroyedMutant(orig, terminated, status) ==   \* a stopped one is kept
  terminated \/ (orig = "StartPublish" /\ status # "OK")
Destroyed(orig, terminated, status) ==
  terminated \/ orig = "StopPublish" \/ (orig = "StartPublish" /\ status # "OK")

DestroyMutant(s) == [s EXCEPT !.req = NoReq, !.pub.found = FALSE]   \* still in use
Destroy(s) == [s EXCEPT !.req = NoReq, !.pub.iRequest = "None",
                        !.pub.iPublished = FALSE, !.pub.found = FALSE]

PublisherComplete(s, status) ==
  LET orig == s.pub.iRequest
      start == orig = "StartPublish"
      lost == start /\ s.pub.iPublished /\ status # "OK"
      terminated == lost \/ status \in {"Completion", "Disconnected"}
      published == [s EXCEPT !.pub.iPublished = @ \/ (start /\ status = "OK")]
      told == IF lost THEN {published}
              ELSE Callback([published EXCEPT
                               !.app = PublishReqComplete(@, status)])
      final(t) ==
        CASE terminated -> [Destroy(t) EXCEPT !.app = PublishTerminated(@)]
          [] ~terminated /\ Destroyed(orig, terminated, status) -> Destroy(t)
          [] ~terminated /\ orig = "PublishModify" ->
               [t EXCEPT !.pub.iRequest = "StartPublish",
                         !.req.type = "StartPublish", !.req.method = "Unknown"]
          [] OTHER -> [t EXCEPT !.req.method = "Unknown"]
  IN {final(t) : t \in told}

Deliver(s) ==
  LET t == [s EXCEPT !.req.sig = NoSig, !.pub.iETag = s.req.etag] IN
  IF s.req.method = "StatusETag"
    THEN {[t EXCEPT !.req.method = "Unknown", !.app.dropped = TRUE]}
    ELSE PublisherComplete(t, s.req.sig)

-----------------------------------------------------------------------------
(* The steps: an active object runs while no completion is posted, for     *)
(* completions run at EPriorityHigh, before all others.                    *)

Exists == req # NoReq
Quiet == Exists => req.sig = NoSig

Start(doc, auto, etag) ==
  /\ Quiet
  /\ app.st = "off"
  /\ Becomes(StartPublish(World, doc, auto, etag))

Modify(doc) ==
  /\ Quiet /\ Exists
  /\ app.st \in {"on", "modifying"}
  /\ req.state = "Running" => "overlap" \in Env
  /\ Becomes(ModifyPublish(World, doc))

(* Calls that leave. *)
Leave(doc) ==
  /\ Quiet /\ Exists
  /\ Becomes(ModifyPublishLeaves(World, doc) \cup StartPublishLeaves(World))

Stop ==
  /\ Quiet /\ Exists
  /\ app.st \in {"starting", "on", "modifying"}
  /\ Becomes(StopPublish(World, req.etag))

StopScratch ==
  /\ app.st = "off" /\ pub.iRequest = "None" /\ pub.iETag # "None"
  /\ Becomes(StopPublishScratch(World, pub.iETag))

(* MSimplePublisher::Close: CSimpleClient::DeleteRequests destroys the     *)
(* request.  A new publisher takes the place of this one.                  *)
Close ==
  /\ Quiet /\ Exists
  /\ req' = NoReq
  /\ pub' = [iRequest |-> "None", iPublished |-> FALSE, found |-> FALSE,
             iETag |-> pub.iETag]
  /\ app' = [app EXCEPT !.st = "off", !.dropped = FALSE]
  /\ UNCHANGED <<sip, srv>>

RunL ==
  /\ Exists /\ req.sig # NoSig
  /\ Becomes(Deliver(World))

Answered == Exists /\ req.trans.answer \in {"OK", "Temporary", "Permanent"}
InTime == "slow" \in Env \/ ~Answered \/ sip # "Active"

(* CSimpleExpiryTimer::RunL, StartToCheckExpiryL. *)
ExpiryFires ==
  /\ Quiet /\ Exists /\ req.expiry /\ InTime
  /\ Becomes(Complete(StopExpiryTimer(World), "TimedOut"))

(* CSimpleRefreshTimer::RunL, DoRefreshPublishL: the end of a publication  *)
(* without refresh, a refresh, or the end of one that could not be         *)
(* refreshed in time.                                                      *)
AddPendingRefresh(pend) ==
  CASE pend = "No" -> "Refresh"
    [] pend = "Modify" -> "ModifyAndRefresh"
    [] OTHER -> pend

RefreshPublish(s) ==
  LET state == s.req.state
      running == SetReqState(s, "Running")
      over == state = "RunningInit" \/ (state = "Active" /\ ~s.req.auto)
      late == \/ state \notin {"RunningInit", "Pending", "Active"}
              \/ state = "Pending" /\ s.req.pend \in {"Refresh", "ModifyAndRefresh"}
      due == ~over /\ ~late
  IN CASE over -> Complete(s, "TimedOut")
       [] late -> Complete(s, "Completion")
       [] due /\ s.sip \notin {"Active", "Suspend"} -> {s}   \* leaves
       [] due /\ s.sip = "Suspend" ->
            {[StartRefreshTimer(SetReqState(s, "Pending")) EXCEPT
                !.req.pend = AddPendingRefresh(@)]}
       [] due /\ s.sip = "Active" ->
            {StartRefreshTimer(t) : t \in SendPendingPublish(running)}
            \cup IfNotSent(running, Complete(running, "NotReady"))

RefreshFires ==
  /\ Quiet /\ Exists /\ req.refresh /\ InTime
  /\ Becomes(RefreshPublish(StopRefreshTimer(World)))

(* CSimpleSipConnectionObserver::DoIncomingResponse and HandlePublishRespL.*)
PublishResp(s) ==
  LET t == s.req.trans IN
  Complete([s EXCEPT !.req.trans = NoTrans, !.req.method = "Status",
                     !.req.etag = t.etag], t.answer)

Response ==
  /\ Quiet /\ Answered /\ sip = "Active"
  /\ Becomes(PublishResp(World))

(* CSimpleSipConnectionObserver::ErrorOccured for a client transaction. *)
TransactionFails ==
  /\ Quiet /\ Exists /\ req.trans.answer = "Lost"
  /\ Becomes(Complete([World EXCEPT !.req.trans = NoTrans, !.req.method = "Unknown"],
                      "CommsBreak"))

(* ConnectionStateChange to a state without connection. *)
Disconnect(state) ==
  /\ Quiet
  /\ sip \in {"Active", "Suspend"} /\ state \notin {"Active", "Suspend"}
  /\ LET s == [World EXCEPT !.sip = state] IN
     Becomes(IF ~Exists THEN {s}
             ELSE Complete([s EXCEPT !.req.method = "Unknown"], "Disconnected"))

Suspend ==
  /\ Quiet
  /\ sip = "Active" /\ "Suspend" \in SipStates
  /\ sip' = "Suspend"
  /\ UNCHANGED <<req, pub, srv, app>>

(* HandlePendings for the publication.  The error the request is completed *)
(* with is the one variable errx has from the subscriptions before it in   *)
(* the list, KErrNone when there was none.                                 *)
HandlePending(s) ==
  LET state == IF s.req.state = "PendingInit" THEN "RunningInit" ELSE "Running"
      t == SetReqState(s, state)
      errx == {"OK"} \cup IF "behind" \in Env THEN {"NotReady"} ELSE {}
  IN SendPendingPublish(t)
     \cup IfNotSent(t, UNION {Complete(SetReqState(t, "Failed"), e) : e \in errx})

Activate ==
  /\ Quiet
  /\ sip # "Active"
  /\ LET s == [World EXCEPT !.sip = "Active"]
         waits == sip = "Suspend" /\ Exists /\ req.state \in {"PendingInit", "Pending"}
     IN Becomes((IF waits THEN HandlePending(s) ELSE {s})
                \cup IF "behind" \in Env THEN {s} ELSE {})

-----------------------------------------------------------------------------
App ==
  \/ \E doc \in Docs \ {app.doc} :
       \/ \E auto \in Refreshes, etag \in {"None", pub.iETag} : Start(doc, auto, etag)
       \/ Modify(doc)
       \/ Leave(doc)
  \/ Stop
  \/ StopScratch
  \/ Close

Network ==
  \/ Response
  \/ TransactionFails
  \/ \E state \in SipStates : Disconnect(state)
  \/ Suspend
  \/ Activate

Engine == RunL \/ ExpiryFires \/ RefreshFires

Next == App \/ Network \/ Engine

Spec == Init /\ [][Next]_vars

(* As in Subscriptions: the active scheduler runs a signalled active       *)
(* object, and nothing but a cancellation keeps a timer from firing.       *)
FairSpec == Spec /\ WF_vars(RunL) /\ SF_vars(ExpiryFires)

-----------------------------------------------------------------------------
(* Properties.                                                             *)

(* Every completion is passed on: the early return of                      *)
(* CSimplePublisher::Complete is for those that only update the ETag.      *)
NothingDropped == ~app.dropped

(* A publication the application believes on is kept alive: a completion   *)
(* is on its way to tell that it has ended, or the timer runs that will    *)
(* refresh it or notice its end.                                           *)
KeptAlive ==
  app.st = "on" /\ ~app.dropped => Exists /\ (req.sig # NoSig \/ req.refresh)

(* When nothing is under way, the engine has the ETag that the server      *)
(* expects for a publication the application believes on, and the server   *)
(* has the document that the application has been told is published.       *)
Settled == Exists /\ req.state = "Active" /\ req.sig = NoSig /\ req.trans = NoTrans
AgreesWithServer ==
  app.st = "on" /\ Settled /\ ~app.dropped =>
    req.etag = "Current" /\ (app.sure => srv = app.doc)

(* While the application waits for a callback, a timer or a posted         *)
(* completion guarantees that one will come, whatever the server does.     *)
AppWaitIsTimed ==
  app.st \in {"starting", "modifying", "stopping"} /\ ~app.dropped =>
    Exists /\ (req.expiry \/ req.sig # NoSig)

(* The publisher is in use exactly as long as it has a request. *)
InUseHasRequest == (pub.iRequest # "None") = Exists

(* The records keep their types, and publisher and request go together.   *)
PublisherSound == TypeOK /\ InUseHasRequest

(* What has ended stays ended: no late response, timer or network recovery *)
(* revives a publication; only its end may still be asked for.             *)
EndedStays ==
  [][Exists /\ req.state \in {"Complete", "Failed"} =>
       req' = NoReq \/ req'.state \in {"Complete", "Failed", "Stopping"}]_vars

-----------------------------------------------------------------------------
(* The promise of the publisher API, PublisherContract: what the callbacks *)
(* have told, and the use of the publisher that iRequest says it has.      *)
Promise == INSTANCE PublisherContract WITH told <- app.st,
                                           inUse <- pub.iRequest # "None"
Contract == Promise!Spec
=============================================================================
