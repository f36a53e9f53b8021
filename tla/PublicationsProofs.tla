------------------------- MODULE PublicationsProofs -------------------------
(***************************************************************************)
(* Theorems about Publications: a publisher is in use exactly while it has *)
(* a request, what has ended stays ended, the application never waits      *)
(* without a timer, a publication it believes on is kept alive, the server *)
(* has the document it has been told is published, and the steps are those *)
(* that PublisherContract promises.                                        *)
(*                                                                         *)
(* The operators of Publications map a World to a set of Worlds.  For each *)
(* a lemma says what it keeps and what it leaves, for Worlds with a        *)
(* request; the steps are then put together from these lemmas.             *)
(***************************************************************************)
EXTENDS Publications, TLAPS

Worlds == [sip : SipStates, req : Request, pub : Publisher,
           srv : Docs \cup {NoDoc}, app : AppState]

Bodies == Docs \cup {NoDoc}
Ended == {"Complete", "Failed"}

(* What the handlers of the engine leave to the application's calls and to *)
(* the delivery of completions.                                            *)
Kept(s, t) ==
  /\ t \in Worlds
  /\ t.sip = s.sip
  /\ t.app = s.app
  /\ t.pub.iRequest = s.pub.iRequest
  /\ t.req.type = s.req.type

(* What sending leaves in the request. *)
SameWait(s, t) ==
  /\ t.req.state = s.req.state
  /\ t.req.expiry = s.req.expiry
  /\ t.req.sig = s.req.sig
  /\ t.req.pend = s.req.pend
  /\ t.req.method = s.req.method
  /\ t.req.auto = s.req.auto

LEMMA NoSigIsNoStatus == NoSig \notin Status
BY DEF NoSig, Status

-----------------------------------------------------------------------------
(* Sending.                                                                *)

LEMMA AgedType == ASSUME NEW tag \in Tag PROVE Aged(tag) \in Tag
BY DEF Aged, Tag

LEMMA ServedType ==
  ASSUME NEW s \in Worlds, NEW body \in Bodies, NEW stop \in BOOLEAN,
         NEW o \in Served(s, body, stop)
  PROVE  o.srv \in Bodies /\ o.moved \in BOOLEAN /\ o.trans \in Trans
<1> DEFINE Good == [srv : Bodies, moved : BOOLEAN, trans : Trans]
<1>0. s.srv \in Bodies /\ NoDoc \in Bodies
  BY DEF Worlds, Bodies
<1>1. ASSUME NEW doc \in Bodies, NEW moved \in BOOLEAN,
             NEW a \in {"None", "Lost", "OK", "Temporary", "Permanent"}, NEW e \in Tag
      PROVE  Outcome(doc, moved, a, e) \in Good
  BY DEF Outcome, Trans
<1>2. Refusals(s) \subseteq Good
  <2>1. "None" \in Tag /\ FALSE \in BOOLEAN /\ TRUE \in BOOLEAN
    BY DEF Tag
  <2>2. Outcome(s.srv, FALSE, "Permanent", "None") \in Good
    BY <1>0, <1>1, <2>1
  <2>3. Outcome(s.srv, FALSE, "Temporary", "None") \in Good
    BY <1>0, <1>1, <2>1
  <2>4. Outcome(NoDoc, TRUE, "Permanent", "None") \in Good
    BY <1>0, <1>1, <2>1
  <2> HIDE DEF Good
  <2>5. QED
    BY <2>2, <2>3, <2>4 DEF Refusals
<1>3. Arrivals(s, body, stop) \subseteq Good
  <2> DEFINE doc == IF stop THEN NoDoc ELSE IF body = NoDoc THEN s.srv ELSE body
             etag == IF stop THEN "None" ELSE "Current"
  <2>1. Outcome(doc, TRUE, "OK", etag) \in Good
    BY <1>0, <1>1 DEF Tag
  <2>2. Outcome(s.srv, FALSE, "Permanent", "None") \in Good
    BY <1>0, <1>1 DEF Tag
  <2> HIDE DEF Good
  <2>3. QED
    BY <1>2, <2>1, <2>2 DEF Arrivals
<1>4. Outcome(s.srv, FALSE, "Lost", "None") \in Good
  BY <1>0, <1>1 DEF Tag
<1>5. \A p \in Good : [p EXCEPT !.trans = [answer |-> "Lost", etag |-> "None"]] \in Good
  BY DEF Trans, Tag
<1>6. Served(s, body, stop) \subseteq Good
  BY <1>3, <1>4, <1>5 DEF Served
<1>7. QED
  BY <1>6

LEMMA SentKeeps ==
  ASSUME NEW s \in Worlds, NEW body \in Bodies, NEW stop \in BOOLEAN,
         NEW t \in Sent(s, body, stop)
  PROVE  Kept(s, t) /\ SameWait(s, t)
<1>1. PICK o \in Served(s, body, stop) :
        t = [s EXCEPT !.srv = o.srv, !.req.trans = o.trans,
                      !.req.etag = IF o.moved THEN Aged(@) ELSE @,
                      !.pub.iETag = IF o.moved THEN Aged(@) ELSE @]
  BY DEF Sent
<1>2. o.srv \in Bodies /\ o.moved \in BOOLEAN /\ o.trans \in Trans
  BY <1>1, ServedType
<1>3. s.req \in Request /\ s.pub \in Publisher
  BY DEF Worlds
<1> DEFINE re == IF o.moved THEN Aged(s.req.etag) ELSE s.req.etag
           pe == IF o.moved THEN Aged(s.pub.iETag) ELSE s.pub.iETag
<1>4. re \in Tag /\ pe \in Tag
  BY <1>2, <1>3, AgedType DEF Request, Publisher
<1>5. t = [s EXCEPT !.srv = o.srv, !.req = [s.req EXCEPT !.trans = o.trans, !.etag = re],
                    !.pub = [s.pub EXCEPT !.iETag = pe]]
  BY <1>1, <1>3 DEF Worlds, Request, Publisher
<1>6. /\ [s.req EXCEPT !.trans = o.trans, !.etag = re] \in Request
      /\ [s.pub EXCEPT !.iETag = pe] \in Publisher
  BY <1>2, <1>3, <1>4 DEF Request, Publisher
<1>7. t \in Worlds
  BY <1>2, <1>5, <1>6 DEF Worlds, Bodies
<1>8. /\ t.sip = s.sip /\ t.app = s.app
      /\ t.req = [s.req EXCEPT !.trans = o.trans, !.etag = re]
      /\ t.pub = [s.pub EXCEPT !.iETag = pe]
  BY <1>5 DEF Worlds
<1>9. QED
  BY <1>3, <1>7, <1>8 DEF Kept, SameWait, Request, Publisher

LEMMA PublishKeeps ==
  ASSUME NEW s \in Worlds, NEW body \in Bodies, NEW stop \in BOOLEAN,
         NEW t \in DoPublish(s, body, stop)
  PROVE  Kept(s, t) /\ SameWait(s, t)
BY SentKeeps DEF DoPublish

-----------------------------------------------------------------------------
(* Changes of single fields of the request.                                *)

Edited(s, t, r) ==
  /\ t \in Worlds
  /\ t.sip = s.sip /\ t.app = s.app /\ t.pub = s.pub /\ t.srv = s.srv
  /\ t.req = r

LEMMA Edit ==
  ASSUME NEW s \in Worlds, NEW r \in Request
  PROVE  Edited(s, [s EXCEPT !.req = r], r)
BY DEF Edited, Worlds

LEMMA Fields ==
  ASSUME NEW s \in Worlds
  PROVE  /\ \A x \in ReqState : Edited(s, SetReqState(s, x), [s.req EXCEPT !.state = x])
         /\ \A x \in Status : Edited(s, Post(s, x), [s.req EXCEPT !.sig = x])
         /\ Edited(s, StartRefreshTimer(s), [s.req EXCEPT !.refresh = TRUE])
         /\ Edited(s, StopRefreshTimer(s), [s.req EXCEPT !.refresh = FALSE])
         /\ Edited(s, StopExpiryTimer(s), [s.req EXCEPT !.expiry = FALSE])
<1>0. s.req \in Request
  BY DEF Worlds
<1>1. \A x \in ReqState : Edited(s, SetReqState(s, x), [s.req EXCEPT !.state = x])
  BY <1>0, Edit DEF SetReqState, Request
<1>2. \A x \in Status : Edited(s, Post(s, x), [s.req EXCEPT !.sig = x])
  BY <1>0, Edit DEF Post, Request
<1>3. Edited(s, StartRefreshTimer(s), [s.req EXCEPT !.refresh = TRUE])
  BY <1>0, Edit DEF StartRefreshTimer, Request
<1>4. Edited(s, StopRefreshTimer(s), [s.req EXCEPT !.refresh = FALSE])
  BY <1>0, Edit DEF StopRefreshTimer, Request
<1>5. Edited(s, StopExpiryTimer(s), [s.req EXCEPT !.expiry = FALSE])
  BY <1>0, Edit DEF StopExpiryTimer, Request
<1>6. QED
  BY <1>1, <1>2, <1>3, <1>4, <1>5

(* The same, of the fields that the proofs are about. *)
Carried(s, t) ==
  /\ Kept(s, t)
  /\ t.pub = s.pub
  /\ t.req.pend = s.req.pend

LEMMA EditCarries ==
  ASSUME NEW s \in Worlds, NEW t, NEW r, Edited(s, t, r),
         r.type = s.req.type, r.pend = s.req.pend
  PROVE  Carried(s, t)
BY DEF Edited, Kept, Carried

LEMMA SetReqStateDoes ==
  ASSUME NEW s \in Worlds, NEW x \in ReqState
  PROVE  /\ Carried(s, SetReqState(s, x))
         /\ SetReqState(s, x).req.state = x
         /\ SetReqState(s, x).req.expiry = s.req.expiry
         /\ SetReqState(s, x).req.sig = s.req.sig
<1>1. Edited(s, SetReqState(s, x), [s.req EXCEPT !.state = x])
  BY Fields
<1>2. s.req \in Request
  BY DEF Worlds
<1>3. QED
  BY <1>1, <1>2 DEF Edited, Carried, Kept, Request

LEMMA PostDoes ==
  ASSUME NEW s \in Worlds, NEW x \in Status
  PROVE  /\ Carried(s, Post(s, x))
         /\ Post(s, x).req.sig = x
         /\ Post(s, x).req.state = s.req.state
<1>1. Edited(s, Post(s, x), [s.req EXCEPT !.sig = x])
  BY Fields
<1>2. s.req \in Request
  BY DEF Worlds
<1>3. QED
  BY <1>1, <1>2 DEF Edited, Carried, Kept, Request

LEMMA RefreshTimerDoes ==
  ASSUME NEW s \in Worlds, NEW t \in {StartRefreshTimer(s), StopRefreshTimer(s)}
  PROVE  Carried(s, t) /\ SameWait(s, t)
<1>1. PICK b \in BOOLEAN : Edited(s, t, [s.req EXCEPT !.refresh = b])
  BY Fields
<1>2. s.req \in Request
  BY DEF Worlds
<1>3. QED
  BY <1>1, <1>2 DEF Edited, Carried, Kept, SameWait, Request

LEMMA StopExpiryTimerDoes ==
  ASSUME NEW s \in Worlds
  PROVE  /\ Carried(s, StopExpiryTimer(s))
         /\ StopExpiryTimer(s).req.state = s.req.state
         /\ StopExpiryTimer(s).req.sig = s.req.sig
<1>1. Edited(s, StopExpiryTimer(s), [s.req EXCEPT !.expiry = FALSE])
  BY Fields
<1>2. s.req \in Request
  BY DEF Worlds
<1>3. QED
  BY <1>1, <1>2 DEF Edited, Carried, Kept, Request

LEMMA FailDoes ==
  ASSUME NEW s \in Worlds, NEW x \in Status
  PROVE  /\ Carried(s, Fail(s, x))
         /\ Fail(s, x).req.state = "Failed"
         /\ Fail(s, x).req.sig = x
<1>1. "Failed" \in ReqState
  BY DEF ReqState
<1>2. SetReqState(s, "Failed") \in Worlds
  BY <1>1, SetReqStateDoes DEF Carried, Kept
<1>3. QED
  BY <1>1, <1>2, SetReqStateDoes, PostDoes DEF Fail, Carried, Kept

LEMMA CarriedTwice ==
  ASSUME NEW s, NEW t, NEW u, Carried(s, t), Carried(t, u)
  PROVE  Carried(s, u)
BY DEF Carried, Kept

LEMMA SendPendingKeeps ==
  ASSUME NEW s \in Worlds, NEW t \in SendPendingPublish(s)
  PROVE  /\ Kept(s, t)
         /\ t.req.state = s.req.state
         /\ t.req.expiry = s.req.expiry
         /\ t.req.sig = s.req.sig
<1> DEFINE body == IF s.req.pend \in {"Modify", "ModifyAndRefresh"} THEN s.req.data
                                                                   ELSE NoDoc
<1>1. body \in Bodies
  BY DEF Worlds, Request, Bodies
<1>2. PICK u \in DoPublish(s, body, FALSE) : t = [u EXCEPT !.req.pend = "No"]
  BY DEF SendPendingPublish
<1>3. Kept(s, u) /\ SameWait(s, u)
  BY <1>1, <1>2, PublishKeeps
<1>4. u.req \in Request
  BY <1>3 DEF Kept, Worlds
<1>5. Edited(u, t, [u.req EXCEPT !.pend = "No"])
  BY <1>2, <1>3, <1>4, Edit DEF Kept, Request
<1>6. QED
  BY <1>3, <1>4, <1>5 DEF Kept, SameWait, Edited, Request

-----------------------------------------------------------------------------
(* CSimpleRequest::Complete.                                               *)

(* A completion is posted. *)
Posted(s, t) == Kept(s, t) /\ t.req.sig \in Status

LEMMA StartCompleted ==
  ASSUME NEW s \in Worlds, NEW status \in Status
  PROVE  Posted(s, CompleteStart(s, status))
<1> DEFINE t == StopExpiryTimer(s)
           a == SetReqState(t, "Active")
           b == StartRefreshTimer(a)
<1>1. Carried(s, t)
  BY StopExpiryTimerDoes
<1>2. Carried(t, Fail(t, status)) /\ Fail(t, status).req.sig = status
  BY <1>1, FailDoes DEF Carried, Kept
<1>3. Carried(t, a)
  BY <1>1, SetReqStateDoes DEF Carried, Kept, ReqState
<1>4. Carried(a, b)
  BY <1>3, RefreshTimerDoes DEF Carried, Kept
<1>5. Carried(b, Post(b, "OK")) /\ Post(b, "OK").req.sig = "OK"
  BY <1>4, PostDoes DEF Carried, Kept, Status
<1>6. CompleteStart(s, status) = IF status = "OK" THEN Post(b, "OK") ELSE Fail(t, status)
  BY DEF CompleteStart
<1> HIDE DEF t, a, b
<1>7. QED
  BY <1>1, <1>2, <1>3, <1>4, <1>5, <1>6 DEF Posted, Carried, Kept, Status

LEMMA BeforeModifyCompleted ==
  ASSUME NEW s \in Worlds, NEW status \in Status,
         NEW t \in CompleteBeforeModify(s, status)
  PROVE  /\ Kept(s, t)
         /\ t.req.sig \in Status \/ (status = "OK" /\ t.req.expiry = s.req.expiry)
<1> DEFINE a == SetReqState(s, "Active")
           b == StartRefreshTimer(a)
           c == StopExpiryTimer(s)
           d == StopExpiryTimer(b)
<1>1. Carried(s, a) /\ a.req.expiry = s.req.expiry
  BY SetReqStateDoes DEF ReqState
<1>2. Carried(a, b) /\ b.req.expiry = a.req.expiry
  BY <1>1, RefreshTimerDoes DEF Carried, Kept, SameWait
<1>3. Carried(s, c)
  BY StopExpiryTimerDoes
<1>4. Carried(c, Fail(c, "Completion")) /\ Fail(c, "Completion").req.sig = "Completion"
  BY <1>3, FailDoes DEF Carried, Kept, Status
<1>5. Carried(b, d)
  BY <1>2, StopExpiryTimerDoes DEF Carried, Kept
<1>6. Carried(d, Post(d, "NotReady")) /\ Post(d, "NotReady").req.sig = "NotReady"
  BY <1>5, PostDoes DEF Carried, Kept, Status
<1>7. \/ t = Fail(c, "Completion")
      \/ status = "OK" /\ t \in SendPendingPublish(b)
      \/ t = Post(d, "NotReady")
  BY DEF CompleteBeforeModify, IfNotSent
<1> HIDE DEF a, b, c, d
<1>8. CASE t = Fail(c, "Completion")
  BY <1>3, <1>4, <1>8 DEF Carried, Kept, Status
<1>9. CASE status = "OK" /\ t \in SendPendingPublish(b)
  <2>1. Kept(b, t) /\ t.req.expiry = b.req.expiry
    BY <1>2, <1>9, SendPendingKeeps DEF Carried, Kept
  <2>2. QED
    BY <1>1, <1>2, <1>9, <2>1 DEF Carried, Kept
<1>10. CASE t = Post(d, "NotReady")
  BY <1>1, <1>2, <1>5, <1>6, <1>10 DEF Carried, Kept, Status
<1>11. QED
  BY <1>7, <1>8, <1>9, <1>10

LEMMA ModifyCompleted ==
  ASSUME NEW s \in Worlds, NEW status \in Status
  PROVE  Posted(s, CompleteModify(s, status))
<1> DEFINE t == StopExpiryTimer(s)
           a == SetReqState(t, "Active")
           b == StartRefreshTimer(a)
<1>1. Carried(s, t)
  BY StopExpiryTimerDoes
<1>2. Carried(t, Fail(t, "Completion")) /\ Fail(t, "Completion").req.sig = "Completion"
  BY <1>1, FailDoes DEF Carried, Kept, Status
<1>3. Carried(t, a)
  BY <1>1, SetReqStateDoes DEF Carried, Kept, ReqState
<1>4. Carried(a, b)
  BY <1>3, RefreshTimerDoes DEF Carried, Kept
<1>5. Carried(b, Post(b, status)) /\ Post(b, status).req.sig = status
  BY <1>4, PostDoes DEF Carried, Kept
<1>6. CompleteModify(s, status) = IF status \in {"OK", "Temporary"} THEN Post(b, status)
                                  ELSE Fail(t, "Completion")
  BY DEF CompleteModify
<1> HIDE DEF t, a, b
<1>7. QED
  BY <1>1, <1>2, <1>3, <1>4, <1>5, <1>6 DEF Posted, Carried, Kept, Status

LEMMA RefreshCompleted ==
  ASSUME NEW s \in Worlds, NEW status \in Status
  PROVE  /\ Kept(s, CompleteRefresh(s, status))
         /\ status # "OK" => CompleteRefresh(s, status).req.sig \in Status
<1> DEFINE t == StopExpiryTimer(s)
           a == SetReqState(t, "Active")
           b == StartRefreshTimer(a)
           c == [b EXCEPT !.req.method = "StatusETag"]
<1>1. Carried(s, t)
  BY StopExpiryTimerDoes
<1>2. Carried(t, Fail(t, status)) /\ Fail(t, status).req.sig = status
  BY <1>1, FailDoes DEF Carried, Kept
<1>3. Carried(t, a)
  BY <1>1, SetReqStateDoes DEF Carried, Kept, ReqState
<1>4. Carried(a, b)
  BY <1>3, RefreshTimerDoes DEF Carried, Kept
<1>5. Carried(b, c)
  <2>1. b \in Worlds
    BY <1>4 DEF Carried, Kept
  <2> HIDE DEF b
  <2>2. [b.req EXCEPT !.method = "StatusETag"] \in Request
    BY <2>1 DEF Worlds, Request
  <2>3. Edited(b, c, [b.req EXCEPT !.method = "StatusETag"])
    BY <2>1, <2>2, Edit
  <2>4. QED
    BY <2>1, <2>3 DEF Edited, Carried, Kept, Worlds, Request
<1>6. CompleteRefresh(s, status) = IF status = "OK" THEN c ELSE Fail(t, status)
  BY DEF CompleteRefresh
<1> HIDE DEF t, a, b, c
<1>7. QED
  BY <1>1, <1>2, <1>3, <1>4, <1>5, <1>6 DEF Carried, Kept

LEMMA StopCompleted ==
  ASSUME NEW s \in Worlds, NEW status \in Status
  PROVE  /\ Posted(s, CompleteStop(s, status))
         /\ CompleteStop(s, status).req.state = "Complete"
<1> DEFINE t == StopExpiryTimer(s)
           a == SetReqState(t, "Complete")
           x == IF s.req.given THEN status ELSE "OK"
<1>1. Carried(s, t)
  BY StopExpiryTimerDoes
<1>2. Carried(t, a) /\ a.req.state = "Complete"
  BY <1>1, SetReqStateDoes DEF Carried, Kept, ReqState
<1>3. x \in Status
  BY DEF Status
<1>4. Carried(a, Post(a, x)) /\ Post(a, x).req.sig = x /\ Post(a, x).req.state = a.req.state
  BY <1>2, <1>3, PostDoes DEF Carried, Kept
<1>5. CompleteStop(s, status) = Post(a, x)
  BY DEF CompleteStop
<1> HIDE DEF t, a, x
<1>6. QED
  BY <1>1, <1>2, <1>3, <1>4, <1>5 DEF Posted, Carried, Kept

LEMMA PendingModifyCompleted ==
  ASSUME NEW s \in Worlds, NEW status \in Status
  PROVE  Posted(s, CompletePendingModify(s, status))
<1> DEFINE t == StopExpiryTimer(s)
           a == Post(t, status)
           x == IF s.req.pend = "ModifyAndRefresh" /\ status # "OK" THEN "Pending"
                                                                   ELSE "Active"
<1>1. Carried(s, t)
  BY StopExpiryTimerDoes
<1>2. Carried(t, a) /\ a.req.sig = status
  BY <1>1, PostDoes DEF Carried, Kept
<1>3. x \in ReqState
  BY DEF ReqState
<1>4. Carried(a, SetReqState(a, x)) /\ SetReqState(a, x).req.sig = a.req.sig
  BY <1>2, <1>3, SetReqStateDoes DEF Carried, Kept
<1>5. CompletePendingModify(s, status) = SetReqState(a, x)
  BY DEF CompletePendingModify
<1> HIDE DEF t, a, x
<1>6. QED
  BY <1>1, <1>2, <1>4, <1>5 DEF Posted, Carried, Kept

(* A completion is posted, but for the answer to a refresh: then nothing   *)
(* is posted, and a modification that waits keeps its timer.               *)
Completed(s, status, t) ==
  /\ Kept(s, t)
  /\ s.req.state \in Ended \cup {"Stopping"} => t.req.state \in Ended
  /\ \/ t.req.sig \in Status
     \/ /\ s.req.state = "Running" /\ status = "OK"
        /\ s.req.type = "PublishModify" => t.req.expiry = s.req.expiry

LEMMA OtherCompleted ==
  ASSUME NEW s \in Worlds, NEW status \in Status
  PROVE  /\ Posted(s, Fail(StopExpiryTimer(s), status))
         /\ Fail(StopExpiryTimer(s), status).req.state = "Failed"
<1> DEFINE t == StopExpiryTimer(s)
<1>1. Carried(s, t)
  BY StopExpiryTimerDoes
<1>2. /\ Carried(t, Fail(t, status)) /\ Fail(t, status).req.sig = status
      /\ Fail(t, status).req.state = "Failed"
  BY <1>1, FailDoes DEF Carried, Kept
<1> HIDE DEF t
<1>3. Posted(s, Fail(t, status)) /\ Fail(t, status).req.state = "Failed"
  BY <1>1, <1>2 DEF Posted, Carried, Kept
<1>4. QED
  BY <1>3 DEF t

(* The branches of DoCompletePublication, with the response or the error   *)
(* it ends in.                                                             *)
LEMMA BranchCompleted ==
  ASSUME NEW s \in Worlds, NEW status \in Status, NEW t,
         \/ s.req.state = "RunningInit" /\ t = CompleteStart(s, status)
         \/ s.req.state = "Running" /\ t \in CompleteBeforeModify(s, status)
         \/ s.req.state = "Running" /\ t = CompleteModify(s, status)
         \/ /\ s.req.state = "Running" /\ s.req.type # "PublishModify"
            /\ t = CompleteRefresh(s, status)
         \/ s.req.state = "Stopping" /\ t = CompleteStop(s, status)
         \/ s.req.state = "Pending" /\ t = CompletePendingModify(s, status)
         \/ t = Fail(StopExpiryTimer(s), status)
  PROVE  Completed(s, status, t)
<1>1. CASE s.req.state = "RunningInit" /\ t = CompleteStart(s, status)
  BY <1>1, StartCompleted DEF Posted, Completed, Ended
<1>2. CASE s.req.state = "Running" /\ t \in CompleteBeforeModify(s, status)
  BY <1>2, BeforeModifyCompleted DEF Completed, Ended
<1>3. CASE s.req.state = "Running" /\ t = CompleteModify(s, status)
  BY <1>3, ModifyCompleted DEF Posted, Completed, Ended
<1>4. CASE /\ s.req.state = "Running" /\ s.req.type # "PublishModify"
           /\ t = CompleteRefresh(s, status)
  BY <1>4, RefreshCompleted DEF Completed, Ended
<1>5. CASE s.req.state = "Stopping" /\ t = CompleteStop(s, status)
  BY <1>5, StopCompleted DEF Posted, Completed, Ended
<1>6. CASE s.req.state = "Pending" /\ t = CompletePendingModify(s, status)
  BY <1>6, PendingModifyCompleted DEF Posted, Completed, Ended
<1>7. CASE t = Fail(StopExpiryTimer(s), status)
  BY <1>7, OtherCompleted DEF Posted, Completed, Ended
<1>8. QED
  BY <1>1, <1>2, <1>3, <1>4, <1>5, <1>6, <1>7

LEMMA PublicationCompleted ==
  ASSUME NEW s0 \in Worlds, NEW status \in Status,
         NEW t \in DoCompletePublication(s0, status)
  PROVE  Completed(s0, status, t)
<1> DEFINE state == s0.req.state
           pend == s0.req.pend
           modify == s0.req.type = "PublishModify"
           s == IF state = "Pending" THEN s0 ELSE StopRefreshTimer(s0)
           waiting == state = "Pending" /\ pend \in {"Modify", "ModifyAndRefresh"}
                                        /\ status # "Completion"
           done == CASE state = "RunningInit" -> {CompleteStart(s, status)}
                     [] state = "Running" /\ modify /\ pend # "No" ->
                          CompleteBeforeModify(s, status)
                     [] state = "Running" /\ modify /\ pend = "No" ->
                          {CompleteModify(s, status)}
                     [] state = "Running" /\ ~modify -> {CompleteRefresh(s, status)}
                     [] state = "Stopping" -> {CompleteStop(s, status)}
                     [] waiting -> {CompletePendingModify(s, status)}
                     [] OTHER -> {Fail(StopExpiryTimer(s), status)}
           next == IF waiting /\ pend = "ModifyAndRefresh" /\ status # "OK"
                     THEN "Refresh" ELSE "No"
<1>1. PICK u \in done : t = [u EXCEPT !.req.data = NoDoc, !.req.pend = next]
  BY DEF DoCompletePublication
<1>2. Carried(s0, s) /\ SameWait(s0, s)
  BY RefreshTimerDoes DEF Carried, Kept, SameWait
<1>3. Completed(s, status, u)
  <2>1. state = s.req.state /\ (modify <=> s.req.type = "PublishModify")
    BY <1>2 DEF Carried, Kept, SameWait
  <2>2. s \in Worlds
    BY <1>2 DEF Carried, Kept
  <2> HIDE DEF s
  <2>3. \/ s.req.state = "RunningInit" /\ u = CompleteStart(s, status)
        \/ s.req.state = "Running" /\ u \in CompleteBeforeModify(s, status)
        \/ s.req.state = "Running" /\ u = CompleteModify(s, status)
        \/ /\ s.req.state = "Running" /\ s.req.type # "PublishModify"
           /\ u = CompleteRefresh(s, status)
        \/ s.req.state = "Stopping" /\ u = CompleteStop(s, status)
        \/ s.req.state = "Pending" /\ u = CompletePendingModify(s, status)
        \/ u = Fail(StopExpiryTimer(s), status)
    BY <1>1, <2>1
  <2>4. QED
    BY <2>2, <2>3, BranchCompleted
<1>4. /\ Kept(u, t) /\ t.req.state = u.req.state
      /\ t.req.sig = u.req.sig /\ t.req.expiry = u.req.expiry
  <2>1. u \in Worlds /\ u.req \in Request /\ next \in {"No", "Refresh"}
    BY <1>3 DEF Completed, Kept, Worlds
  <2> HIDE DEF next, done
  <2>2. [u.req EXCEPT !.data = NoDoc, !.pend = next] \in Request
    BY <2>1 DEF Request
  <2>3. t = [u EXCEPT !.req = [u.req EXCEPT !.data = NoDoc, !.pend = next]]
    BY <1>1, <2>1 DEF Worlds, Request
  <2>4. Edited(u, t, [u.req EXCEPT !.data = NoDoc, !.pend = next])
    BY <2>1, <2>2, <2>3, Edit
  <2>5. QED
    BY <2>1, <2>4 DEF Edited, Kept, Request
<1> HIDE DEF s, done
<1>5. QED
  BY <1>2, <1>3, <1>4 DEF Completed, Carried, Kept, SameWait

LEMMA CompleteCompletes ==
  ASSUME NEW s \in Worlds, NEW status \in Status, NEW t \in Complete(s, status)
  PROVE  Completed(s, status, t)
<1> DEFINE u == StopExpiryTimer(s)
           v == StopRefreshTimer(u)
<1>1. CASE status = "Disconnected"
  <2>1. Carried(s, u)
    BY StopExpiryTimerDoes
  <2>2. Carried(u, v)
    BY <2>1, RefreshTimerDoes DEF Carried, Kept
  <2>3. /\ Carried(v, Fail(v, status)) /\ Fail(v, status).req.sig = status
        /\ Fail(v, status).req.state = "Failed"
    BY <2>2, FailDoes DEF Carried, Kept
  <2>4. t = Fail(v, status)
    BY <1>1 DEF Complete
  <2> HIDE DEF u, v
  <2>5. QED
    BY <2>1, <2>2, <2>3, <2>4 DEF Completed, Carried, Kept, Ended
<1>2. CASE status # "Disconnected"
  BY <1>2, PublicationCompleted DEF Complete
<1>3. QED
  BY <1>1, <1>2
-----------------------------------------------------------------------------
(* The application's calls.                                                *)

AllWorlds == [sip : SipStates, req : Request \cup {NoReq}, pub : Publisher,
              srv : Docs \cup {NoDoc}, app : AppState]

InUse(s) == s \in Worlds /\ s.pub.iRequest # "None"

Waiting == {"starting", "modifying", "stopping"}

(* The answer the application waits for is posted, or the timer runs that  *)
(* will bring it, whatever the request has been through since the call.    *)
Waits(s) ==
  s.app.st \in Waiting /\ ~s.app.dropped =>
    \/ s.req.sig \in Status
    \/ /\ s.req.expiry
       /\ s.app.st = "starting" => s.req.state \in {"PendingInit", "RunningInit"}
       /\ s.app.st = "modifying" => s.req.type = "PublishModify"
       /\ s.app.st = "stopping" => s.req.state = "Stopping"

LEMMA AskedType ==
  ASSUME NEW s \in AllWorlds, NEW st \in Waiting, NEW doc \in Bodies
  PROVE  LET a == [st |-> st, doc |-> doc, sure |-> FALSE,
                   dropped |-> st # "starting" /\ s.app.dropped]
         IN a \in AppState /\ Asks(s, st, doc) = [s EXCEPT !.app = a]
BY DEF Asks, AppState, AllWorlds, Waiting, Bodies

IsRenewed(s, t, a, p, r) ==
  t \in Worlds /\ t.app = a /\ t.pub = p /\ t.req = r /\ t.sip = s.sip

LEMMA Renewed ==
  ASSUME NEW s \in AllWorlds, NEW a \in AppState, NEW p \in Publisher, NEW r \in Request
  PROVE  IsRenewed(s, [s EXCEPT !.app = a, !.pub = p, !.req = r], a, p, r)
BY DEF IsRenewed, AllWorlds, Worlds

LEMMA NewRequestType ==
  ASSUME NEW type \in {"StartPublish", "PublishModify", "StopPublish"},
         NEW state \in ReqState, NEW auto \in BOOLEAN, NEW etag \in Tag, NEW doc \in Bodies
  PROVE  /\ NewRequest(type, state, auto, etag, doc) \in Request
         /\ NewRequest(type, state, auto, etag, doc).state = state
         /\ NewRequest(type, state, auto, etag, doc).expiry
BY DEF NewRequest, Request, NoTrans, Trans, Tag, Bodies

LEMMA StartPublishStarts ==
  ASSUME NEW s \in AllWorlds, NEW doc \in Docs, NEW auto \in BOOLEAN, NEW etag \in Tag,
         NEW t \in StartPublish(s, doc, auto, etag)
  PROVE  InUse(t) /\ Waits(t) /\ s.pub.iRequest = "None"
<1> DEFINE r(state) == NewRequest("StartPublish", state, auto, etag, doc)
           p == [s.pub EXCEPT !.iRequest = "StartPublish", !.found = TRUE]
           a == [st |-> "starting", doc |-> doc, sure |-> FALSE,
                 dropped |-> "starting" # "starting" /\ s.app.dropped]
           new(state) == [Asks(s, "starting", doc) EXCEPT
                            !.pub.iRequest = "StartPublish", !.pub.found = TRUE,
                            !.req = NewRequest("StartPublish", state, auto, etag, doc)]
<1>1. /\ s.pub.iRequest = "None"
      /\ \/ \E u \in DoPublish(new("RunningInit"), doc, FALSE) : t = StartRefreshTimer(u)
         \/ t = new("PendingInit")
  BY DEF StartPublish
<1>2. ASSUME NEW state \in {"RunningInit", "PendingInit"}
      PROVE  /\ InUse(new(state)) /\ new(state).app.st = "starting"
             /\ new(state).req.expiry /\ new(state).req.state = state
  <2>1. r(state) \in Request /\ r(state).state = state /\ r(state).expiry
    <3>1. state \in ReqState /\ doc \in Bodies
      BY DEF Bodies, ReqState
    <3>2. QED
      BY <3>1, NewRequestType
  <2>2. p \in Publisher /\ p.iRequest = "StartPublish"
    BY DEF AllWorlds, Publisher
  <2>3. a \in AppState /\ Asks(s, "starting", doc) = [s EXCEPT !.app = a]
    BY AskedType DEF Waiting, Bodies
  <2>4. new(state) = [s EXCEPT !.app = a, !.pub = p, !.req = r(state)]
    BY <2>3 DEF AllWorlds
  <2>5. a.st = "starting"
    OBVIOUS
  <2> HIDE DEF new, a, p, r
  <2>6. QED
    <3>0. IsRenewed(s, [s EXCEPT !.app = a, !.pub = p, !.req = r(state)], a, p, r(state))
      BY <2>1, <2>2, <2>3, Renewed
    <3>1. IsRenewed(s, new(state), a, p, r(state))
      BY <3>0, <2>4
    <3>2. QED
      BY <2>1, <2>2, <2>5, <3>1 DEF InUse, IsRenewed
<1> HIDE DEF new
<1>3. CASE t = new("PendingInit")
  BY <1>1, <1>2, <1>3 DEF Waits
<1>4. ASSUME NEW u \in DoPublish(new("RunningInit"), doc, FALSE), t = StartRefreshTimer(u)
      PROVE  InUse(t) /\ Waits(t)
  <2>1. Kept(new("RunningInit"), u) /\ SameWait(new("RunningInit"), u)
    BY <1>2, PublishKeeps DEF InUse, Bodies
  <2>2. Carried(u, t) /\ SameWait(u, t)
    BY <1>4, <2>1, RefreshTimerDoes DEF Kept
  <2>3. QED
    BY <1>2, <2>1, <2>2 DEF InUse, Waits, Carried, Kept, SameWait
<1>5. QED
  BY <1>1, <1>3, <1>4

LEMMA WorldsAreAll == Worlds \subseteq AllWorlds
BY DEF Worlds, AllWorlds

(* The parts of a call that say what the application waits for now. *)
LEMMA ModifyAsked ==
  ASSUME NEW s \in Worlds, NEW doc \in Docs
  PROVE  LET t == [Asks(s, "modifying", doc) EXCEPT
                     !.req.expiry = TRUE, !.pub.iRequest = "PublishModify"]
         IN /\ InUse(t) /\ t.app.st = "modifying" /\ t.req.expiry
            /\ t.req.type = s.req.type /\ t.req.state = s.req.state
            /\ t.app.dropped = s.app.dropped
<1> DEFINE t == [Asks(s, "modifying", doc) EXCEPT
                   !.req.expiry = TRUE, !.pub.iRequest = "PublishModify"]
           a == [st |-> "modifying", doc |-> doc, sure |-> FALSE,
                 dropped |-> "modifying" # "starting" /\ s.app.dropped]
           p == [s.pub EXCEPT !.iRequest = "PublishModify"]
           r == [s.req EXCEPT !.expiry = TRUE]
<1>1. a \in AppState /\ Asks(s, "modifying", doc) = [s EXCEPT !.app = a]
  BY AskedType, WorldsAreAll DEF Waiting, Bodies
<1>2. p \in Publisher /\ p.iRequest = "PublishModify"
  BY DEF Worlds, Publisher
<1>3. r \in Request /\ r.expiry /\ r.type = s.req.type /\ r.state = s.req.state
  BY DEF Worlds, Request
<1>4. t = [s EXCEPT !.app = a, !.pub = p, !.req = r]
  BY <1>1 DEF Worlds
<1>5. a.st = "modifying" /\ a.dropped = s.app.dropped
  BY DEF Worlds, AppState
<1> HIDE DEF a, p, r, t
<1>6. /\ InUse(t) /\ t.app.st = "modifying" /\ t.req.expiry
      /\ t.req.type = s.req.type /\ t.req.state = s.req.state
      /\ t.app.dropped = s.app.dropped
  <2>1. IsRenewed(s, t, a, p, r)
    BY <1>1, <1>2, <1>3, <1>4, Renewed, WorldsAreAll
  <2>2. QED
    BY <1>2, <1>3, <1>5, <2>1 DEF InUse, IsRenewed
<1>7. QED
  BY <1>6 DEF t

LEMMA ModifyPublishModifies ==
  ASSUME NEW s \in Worlds, NEW doc \in Docs, NEW t \in ModifyPublish(s, doc)
  PROVE  /\ InUse(t) /\ Waits(t) /\ s.req.state \notin Ended
         /\ t.app.dropped = s.app.dropped
<1> DEFINE typed == [s EXCEPT !.req.type = "PublishModify"]
           running == [SetReqState(typed, "Running") EXCEPT !.req.data = doc]
           queued == [typed EXCEPT !.req.data = doc, !.req.pend = AddPendingModify(@)]
           asked(u) == [Asks(u, "modifying", doc) EXCEPT
                          !.req.expiry = TRUE, !.pub.iRequest = "PublishModify"]
           pending == SetReqState(queued, "Pending")
<1>1. /\ Modifiable(s)
      /\ \/ \E u \in DoPublish(running, doc, FALSE) : t = asked(u)
         \/ t = asked(queued)
         \/ t = asked(pending)
  BY DEF ModifyPublish
<1>2. s.req.state \notin Ended
  BY <1>1 DEF Modifiable, Ended
<1>3. typed \in Worlds /\ typed.req.type = "PublishModify" /\ typed.app = s.app
  BY DEF Worlds, Request
<1>4. running \in Worlds /\ running.req.type = "PublishModify" /\ running.app = s.app
  <2> DEFINE u == SetReqState(typed, "Running")
  <2>1. u \in Worlds /\ u.req.type = "PublishModify" /\ u.app = s.app
    BY <1>3, SetReqStateDoes DEF Carried, Kept, ReqState
  <2> HIDE DEF u, typed
  <2>2. QED
    BY <2>1 DEF Worlds, Request, running, u
<1>5. queued \in Worlds /\ queued.req.type = "PublishModify" /\ queued.app = s.app
  <2>1. typed.req.pend \in {"No", "Modify", "Refresh", "ModifyAndRefresh"}
    BY <1>3 DEF Worlds, Request
  <2>2. AddPendingModify(typed.req.pend) \in {"No", "Modify", "Refresh", "ModifyAndRefresh"}
    BY <2>1 DEF AddPendingModify
  <2> HIDE DEF typed
  <2>3. QED
    BY <1>3, <2>2 DEF Worlds, Request, queued
<1>6. pending \in Worlds /\ pending.req.type = "PublishModify" /\ pending.app = s.app
  BY <1>5, SetReqStateDoes DEF Carried, Kept, ReqState
<1>7. ASSUME NEW u \in Worlds, u.req.type = "PublishModify", u.app = s.app,
             t = asked(u)
      PROVE  InUse(t) /\ Waits(t) /\ t.app.dropped = s.app.dropped
  <2>1. /\ InUse(t) /\ t.app.st = "modifying" /\ t.req.expiry
        /\ t.req.type = "PublishModify" /\ t.app.dropped = s.app.dropped
    BY <1>7, ModifyAsked
  <2>2. QED
    BY <2>1 DEF Waits
<1> HIDE DEF typed, running, queued, pending, asked
<1>8. ASSUME NEW u \in DoPublish(running, doc, FALSE), t = asked(u)
      PROVE  InUse(t) /\ Waits(t) /\ t.app.dropped = s.app.dropped
  <2>1. Kept(running, u)
    BY <1>4, PublishKeeps DEF Bodies
  <2>2. u \in Worlds /\ u.req.type = "PublishModify" /\ u.app = s.app
    BY <1>4, <2>1 DEF Kept
  <2>3. QED
    BY <1>7, <1>8, <2>2
<1>9. QED
  BY <1>1, <1>2, <1>5, <1>6, <1>7, <1>8

LEMMA StopAsked ==
  ASSUME NEW s \in Worlds
  PROVE  LET t == [Asks(s, "stopping", NoDoc) EXCEPT
                     !.pub.iRequest = "StopPublish", !.pub.iPublished = FALSE]
         IN /\ InUse(t) /\ t.app.st = "stopping" /\ t.req = s.req
            /\ t.pub.iRequest = "StopPublish" /\ t.app.dropped = s.app.dropped
<1> DEFINE t == [Asks(s, "stopping", NoDoc) EXCEPT
                   !.pub.iRequest = "StopPublish", !.pub.iPublished = FALSE]
           a == [st |-> "stopping", doc |-> NoDoc, sure |-> FALSE,
                 dropped |-> "stopping" # "starting" /\ s.app.dropped]
           p == [s.pub EXCEPT !.iRequest = "StopPublish", !.iPublished = FALSE]
<1>1. a \in AppState /\ Asks(s, "stopping", NoDoc) = [s EXCEPT !.app = a]
  BY AskedType, WorldsAreAll DEF Waiting, Bodies
<1>2. p \in Publisher /\ p.iRequest = "StopPublish"
  BY DEF Worlds, Publisher
<1>3. s.req \in Request
  BY DEF Worlds
<1>4. t = [s EXCEPT !.app = a, !.pub = p, !.req = s.req]
  BY <1>1 DEF Worlds
<1>5. a.st = "stopping" /\ a.dropped = s.app.dropped
  BY DEF Worlds, AppState
<1> HIDE DEF a, p, t
<1>6. /\ InUse(t) /\ t.app.st = "stopping" /\ t.req = s.req
      /\ t.pub.iRequest = "StopPublish" /\ t.app.dropped = s.app.dropped
  <2>1. IsRenewed(s, t, a, p, s.req)
    BY <1>1, <1>2, <1>3, <1>4, Renewed, WorldsAreAll
  <2>2. QED
    BY <1>2, <1>5, <2>1 DEF InUse, IsRenewed
<1>7. QED
  BY <1>6 DEF t

(* A stop is answered at once, or waits with its timer in a state of its   *)
(* own.                                                                    *)
LEMMA StopPublishStops ==
  ASSUME NEW s \in Worlds, NEW etag \in Tag, NEW t \in StopPublish(s, etag)
  PROVE  /\ InUse(t) /\ Waits(t) /\ t.app.st = "stopping"
         /\ t.pub.iRequest = "StopPublish"
         /\ t.req.state \in Ended \cup {"Stopping"}
<1> DEFINE w == StopRefreshTimer(SetReqState(s, "Stopping"))
           v == [w EXCEPT !.req.type = "StopPublish", !.req.etag = etag,
                          !.req.given = @ \/ etag # "None"]
           asked(u) == [Asks(u, "stopping", NoDoc) EXCEPT
                          !.pub.iRequest = "StopPublish", !.pub.iPublished = FALSE]
           ended == SetReqState(v, "Complete")
           sent(u) == [u EXCEPT !.req.expiry = TRUE]
           stopped == IF etag = "None" THEN Complete(ended, "OK")
                      ELSE {sent(u) : u \in DoPublish(v, NoDoc, TRUE)}
                           \cup IfNotSent(v, Complete(v, "NotReady"))
<1>0. t \in {asked(u) : u \in stopped}
  BY DEF StopPublish
<1>1. \/ \E u \in Complete(ended, "OK") : t = asked(u)
      \/ \E u \in DoPublish(v, NoDoc, TRUE) : t = asked(sent(u))
      \/ \E u \in Complete(v, "NotReady") : t = asked(u)
  <2> HIDE DEF asked, v, ended, sent
  <2>1. PICK u \in stopped : t = asked(u)
    BY <1>0
  <2>2. QED
    BY <2>1 DEF IfNotSent
<1>2. v \in Worlds /\ v.req.state = "Stopping"
  <2>1. w \in Worlds /\ w.req.state = "Stopping"
    <3>1. /\ SetReqState(s, "Stopping") \in Worlds
          /\ SetReqState(s, "Stopping").req.state = "Stopping"
      BY SetReqStateDoes DEF Carried, Kept, ReqState
    <3>2. QED
      BY <3>1, RefreshTimerDoes DEF Carried, Kept, SameWait
  <2> DEFINE g == w.req.given \/ etag # "None"
  <2>2. g \in BOOLEAN
    OBVIOUS
  <2>3. v = [w EXCEPT !.req = [w.req EXCEPT !.type = "StopPublish", !.etag = etag,
                                            !.given = g]]
    BY <2>1 DEF Worlds, Request
  <2> HIDE DEF w, g
  <2>4. /\ [w.req EXCEPT !.type = "StopPublish", !.etag = etag, !.given = g] \in Request
        /\ [w.req EXCEPT !.type = "StopPublish", !.etag = etag, !.given = g].state
             = w.req.state
    BY <2>1, <2>2 DEF Worlds, Request
  <2>5. Edited(w, v, [w.req EXCEPT !.type = "StopPublish", !.etag = etag, !.given = g])
    BY <2>1, <2>3, <2>4, Edit
  <2>6. QED
    BY <2>1, <2>4, <2>5 DEF Edited
<1>3. ended \in Worlds /\ ended.req.state = "Complete"
  BY <1>2, SetReqStateDoes DEF Carried, Kept, ReqState
<1>4. ASSUME NEW u \in Worlds, u.req.sig \in Status, u.req.state \in Ended, t = asked(u)
      PROVE  /\ InUse(t) /\ Waits(t) /\ t.app.st = "stopping" /\ t.req.state \in Ended
             /\ t.pub.iRequest = "StopPublish"
  <2>1. /\ InUse(t) /\ t.req = u.req /\ t.app.st = "stopping"
        /\ t.pub.iRequest = "StopPublish"
    BY <1>4, StopAsked
  <2> HIDE DEF asked
  <2>2. QED
    BY <1>4, <2>1 DEF Waits
<1>5. ASSUME NEW u \in Worlds, u.req.expiry, u.req.state = "Stopping", t = asked(u)
      PROVE  /\ InUse(t) /\ Waits(t) /\ t.app.st = "stopping"
             /\ t.req.state = "Stopping" /\ t.pub.iRequest = "StopPublish"
  <2>1. /\ InUse(t) /\ t.req = u.req /\ t.app.st = "stopping"
        /\ t.pub.iRequest = "StopPublish"
    BY <1>5, StopAsked
  <2> HIDE DEF asked
  <2>2. QED
    BY <1>5, <2>1 DEF Waits
<1>6. ASSUME NEW u \in DoPublish(v, NoDoc, TRUE)
      PROVE  /\ sent(u) \in Worlds /\ sent(u).req.expiry
             /\ sent(u).req.state = "Stopping"
  <2>1. Kept(v, u) /\ SameWait(v, u)
    BY <1>2, PublishKeeps DEF Bodies
  <2>2. u \in Worlds /\ u.req \in Request /\ u.req.state = "Stopping"
    BY <1>2, <2>1 DEF Kept, SameWait, Worlds
  <2>3. [u.req EXCEPT !.expiry = TRUE] \in Request
    BY <2>2 DEF Request
  <2>4. Edited(u, sent(u), [u.req EXCEPT !.expiry = TRUE])
    BY <2>2, <2>3, Edit
  <2>5. QED
    BY <2>2, <2>4 DEF Edited, Request
<1> HIDE DEF v, ended, asked, sent
<1>7. ASSUME NEW u \in Complete(ended, "OK"), t = asked(u)
      PROVE  /\ InUse(t) /\ Waits(t) /\ t.app.st = "stopping" /\ t.req.state \in Ended
             /\ t.pub.iRequest = "StopPublish"
  <2>1. Completed(ended, "OK", u)
    BY <1>3, CompleteCompletes DEF Status
  <2>2. u \in Worlds /\ u.req.sig \in Status /\ u.req.state \in Ended
    BY <1>3, <2>1 DEF Completed, Kept, Ended
  <2>3. QED
    BY <1>4, <1>7, <2>2
<1>8. ASSUME NEW u \in Complete(v, "NotReady"), t = asked(u)
      PROVE  /\ InUse(t) /\ Waits(t) /\ t.app.st = "stopping" /\ t.req.state \in Ended
             /\ t.pub.iRequest = "StopPublish"
  <2>1. Completed(v, "NotReady", u)
    BY <1>2, CompleteCompletes DEF Status
  <2>2. u \in Worlds /\ u.req.sig \in Status /\ u.req.state \in Ended
    BY <1>2, <2>1 DEF Completed, Kept, Ended
  <2>3. QED
    BY <1>4, <1>8, <2>2
<1>9. QED
  BY <1>1, <1>5, <1>6, <1>7, <1>8

LEMMA StopPublishScratchStops ==
  ASSUME NEW s \in AllWorlds, NEW etag \in Tag, NEW t \in StopPublishScratch(s, etag)
  PROVE  /\ InUse(t) /\ Waits(t) /\ t.app.st = "stopping"
         /\ t.pub.iRequest = "StopPublish"
         /\ t.req.state = "Stopping" /\ t.req.pend = "No" /\ t.req.method = "Unknown"
         /\ t.req.auto = FALSE /\ t.app.dropped = s.app.dropped
<1> DEFINE a == [st |-> "stopping", doc |-> NoDoc, sure |-> FALSE,
                 dropped |-> "stopping" # "starting" /\ s.app.dropped]
           p == [s.pub EXCEPT !.iRequest = "StopPublish", !.iPublished = FALSE,
                              !.found = TRUE]
           q == NewRequest("StopPublish", "Stopping", FALSE, etag, NoDoc)
           r == [q EXCEPT !.given = TRUE]
           new == [Asks(s, "stopping", NoDoc) EXCEPT
                     !.pub.iRequest = "StopPublish", !.pub.iPublished = FALSE,
                     !.pub.found = TRUE, !.req = r]
<1>1. t \in DoPublish(new, NoDoc, TRUE)
  BY DEF StopPublishScratch
<1>2. a \in AppState /\ Asks(s, "stopping", NoDoc) = [s EXCEPT !.app = a]
  BY AskedType DEF Waiting, Bodies
<1>3. p \in Publisher /\ p.iRequest = "StopPublish"
  BY DEF AllWorlds, Publisher
<1>4. /\ q \in Request /\ q.state = "Stopping" /\ q.expiry
      /\ q.pend = "No" /\ q.method = "Unknown" /\ q.auto = FALSE
  <2>1. NoDoc \in Bodies /\ "Stopping" \in ReqState
    BY DEF Bodies, ReqState
  <2>2. QED
    BY <2>1, NewRequestType DEF NewRequest
<1>5. /\ r \in Request /\ r.state = "Stopping" /\ r.expiry
      /\ r.pend = "No" /\ r.method = "Unknown" /\ r.auto = FALSE
  <2> HIDE DEF q
  <2>1. QED
    BY <1>4 DEF Request
<1>6. new = [s EXCEPT !.app = a, !.pub = p, !.req = r]
  <2> HIDE DEF r
  <2>1. QED
    BY <1>2 DEF AllWorlds
<1>7. a.st = "stopping" /\ a.dropped = s.app.dropped
  BY DEF AllWorlds, AppState
<1> HIDE DEF a, p, q, r, new
<1>8. IsRenewed(s, new, a, p, r)
  BY <1>2, <1>3, <1>5, <1>6, Renewed
<1>9. Kept(new, t) /\ SameWait(new, t)
  BY <1>1, <1>8, PublishKeeps DEF IsRenewed, Bodies
<1>10. QED
  BY <1>3, <1>5, <1>7, <1>8, <1>9 DEF IsRenewed, Kept, SameWait, InUse, Waits

(* Calls that leave change the type, and the state of a request that has   *)
(* not ended, or hide it from its publisher.                               *)
LEMMA LeavingKeeps ==
  ASSUME NEW s, InUse(s), NEW doc \in Docs,
         NEW t \in ModifyPublishLeaves(s, doc) \cup StartPublishLeaves(s)
  PROVE  /\ InUse(t)
         /\ t.req.state = s.req.state \/ s.req.state \notin Ended
         /\ Waits(s) /\ s.req.sig = NoSig => Waits(t)
<1> DEFINE typed == [s EXCEPT !.req.type = "PublishModify"]
           u == SetReqState(typed, "Running")
           running == [u EXCEPT !.req.data = doc]
           hidden == [s EXCEPT !.pub.found = FALSE]
<1>1. \/ t = typed
      \/ Modifiable(s) /\ t = running
      \/ t = hidden
  BY DEF ModifyPublishLeaves, StartPublishLeaves
<1>2. s \in Worlds /\ s.req \in Request /\ s.pub \in Publisher
  BY DEF InUse, Worlds
<1>3. /\ typed \in Worlds /\ typed.pub = s.pub /\ typed.app = s.app
      /\ typed.req.state = s.req.state /\ typed.req.sig = s.req.sig
      /\ typed.req.expiry = s.req.expiry /\ typed.req.type = "PublishModify"
  BY <1>2 DEF Worlds, Request
<1>4. /\ running \in Worlds /\ running.pub = s.pub /\ running.app = s.app
      /\ running.req.expiry = s.req.expiry /\ running.req.type = "PublishModify"
  <2>1. /\ u \in Worlds /\ u.pub = s.pub /\ u.app = s.app
        /\ u.req.expiry = s.req.expiry /\ u.req.type = "PublishModify"
    <3> HIDE DEF typed
    <3>1. QED
      BY <1>3, SetReqStateDoes DEF Carried, Kept, ReqState
  <2> HIDE DEF u
  <2>2. QED
    BY <2>1 DEF Worlds, Request
<1>5. /\ hidden \in Worlds /\ hidden.pub.iRequest = s.pub.iRequest
      /\ hidden.app = s.app /\ hidden.req = s.req
  BY <1>2 DEF Worlds, Publisher
<1>6. s.req.sig = NoSig => s.req.sig \notin Status
  BY NoSigIsNoStatus
<1> HIDE DEF typed, u, running, hidden
<1>7. CASE t = typed
  BY <1>3, <1>6, <1>7 DEF InUse, Waits
<1>8. CASE Modifiable(s) /\ t = running
  <2>1. s.req.state \in {"Active", "Pending", "Running"}
    BY <1>8 DEF Modifiable
  <2>2. Waits(s) /\ s.req.sig = NoSig => Waits(t)
    BY <1>4, <1>6, <1>8, <2>1 DEF Waits
  <2>3. QED
    BY <1>4, <1>8, <2>1, <2>2 DEF InUse, Ended
<1>9. CASE t = hidden
  BY <1>5, <1>9 DEF InUse, Waits
<1>10. QED
  BY <1>1, <1>7, <1>8, <1>9

-----------------------------------------------------------------------------
(* The delivery of a completion.                                           *)

Idle(s) == s \in AllWorlds /\ s.req = NoReq /\ s.pub.iRequest = "None"

(* What has ended stays ended, or is asked to end again. *)
StaysEnded(s, t) ==
  s.req.state \in Ended => t.req = NoReq \/ t.req.state \in Ended \cup {"Stopping"}

LEMMA PublishReqCompleteType ==
  ASSUME NEW a \in AppState, NEW status
  PROVE  /\ PublishReqComplete(a, status) \in AppState
         /\ PublishReqComplete(a, status).st \notin Waiting
BY DEF PublishReqComplete, AppState, Waiting

LEMMA PublishTerminatedType ==
  ASSUME NEW a \in AppState
  PROVE  /\ PublishTerminated(a) \in AppState
         /\ PublishTerminated(a).st \notin Waiting
BY DEF PublishTerminated, AppState, Waiting

LEMMA CallbackKeeps ==
  ASSUME NEW s, InUse(s), NEW t \in Callback(s)
  PROVE  /\ InUse(t)
         /\ StaysEnded(s, t)
         /\ "reenter" \notin Env => t = s
<1>1. s \in Worlds /\ s.req.etag \in Tag
  BY DEF InUse, Worlds, Request
<1>2. CASE t = s
  BY <1>2 DEF StaysEnded
<1>3. CASE "reenter" \in Env /\ t \in StopPublish(s, s.req.etag)
  BY <1>1, <1>3, StopPublishStops DEF StaysEnded
<1>4. CASE /\ "reenter" \in Env
           /\ t \in UNION {ModifyPublish(s, doc) : doc \in Docs \ {s.app.doc}}
  <2>1. PICK doc \in Docs : t \in ModifyPublish(s, doc)
    BY <1>4
  <2>2. QED
    BY <1>1, <1>4, <2>1, ModifyPublishModifies DEF StaysEnded
<1>5. QED
  BY <1>2, <1>3, <1>4 DEF Callback

LEMMA DestroyIdles ==
  ASSUME NEW s \in Worlds
  PROVE  Idle(Destroy(s)) /\ Destroy(s).app = s.app
BY DEF Destroy, Idle, Worlds, AllWorlds, Publisher

LEMMA PublisherCompletes ==
  ASSUME NEW s, InUse(s), NEW status \in Status, NEW t \in PublisherComplete(s, status)
  PROVE  /\ InUse(t) \/ Idle(t)
         /\ StaysEnded(s, t)
         /\ "reenter" \notin Env => t.app.st \notin Waiting
<1> DEFINE orig == s.pub.iRequest
           start == orig = "StartPublish"
           lost == start /\ s.pub.iPublished /\ status # "OK"
           terminated == lost \/ status \in {"Completion", "Disconnected"}
           flag == s.pub.iPublished \/ (start /\ status = "OK")
           published == [s EXCEPT !.pub.iPublished = @ \/ (start /\ status = "OK")]
           answered == [published EXCEPT !.app = PublishReqComplete(@, status)]
           ended(u) == [Destroy(u) EXCEPT !.app = PublishTerminated(@)]
           back(u) == [u EXCEPT !.pub.iRequest = "StartPublish",
                                !.req.type = "StartPublish", !.req.method = "Unknown"]
           plain(u) == [u EXCEPT !.req.method = "Unknown"]
<1>1. PICK u : /\ \/ lost /\ u = published
                  \/ ~lost /\ u \in Callback(answered)
               /\ \/ terminated /\ t = ended(u)
                  \/ ~terminated /\ t \in {Destroy(u), back(u), plain(u)}
  BY DEF PublisherComplete
<1>2. s \in Worlds /\ s.req \in Request /\ s.pub \in Publisher
  BY DEF InUse, Worlds
<1>3. InUse(published) /\ published.req = s.req
  BY <1>2 DEF InUse, Worlds, Publisher
<1>4. InUse(answered) /\ answered.req = s.req /\ answered.app.st \notin Waiting
  <2> HIDE DEF published
  <2>1. published.app \in AppState
    BY <1>3 DEF InUse, Worlds
  <2>2. QED
    BY <1>3, <2>1, PublishReqCompleteType DEF InUse, Worlds
<1>5. /\ InUse(u) /\ StaysEnded(s, u)
      /\ "reenter" \notin Env => lost \/ u.app.st \notin Waiting
  <2> HIDE DEF published, answered, lost
  <2>1. CASE lost /\ u = published
    BY <1>3, <2>1 DEF StaysEnded
  <2>2. CASE ~lost /\ u \in Callback(answered)
    BY <1>4, <2>2, CallbackKeeps DEF StaysEnded
  <2>3. QED
    BY <1>1, <2>1, <2>2
<1>6. Idle(Destroy(u)) /\ Destroy(u).app = u.app /\ u.app \in AppState
  BY <1>5, DestroyIdles DEF InUse, Worlds
<1>7. Idle(ended(u)) /\ ended(u).app.st \notin Waiting
  BY <1>6, PublishTerminatedType DEF Idle, AllWorlds
<1>8. /\ InUse(back(u)) /\ back(u).req.state = u.req.state
      /\ back(u).app = u.app
  <2>1. u \in Worlds /\ u.req \in Request /\ u.pub \in Publisher
    BY <1>5 DEF InUse, Worlds
  <2>2. QED
    BY <2>1 DEF InUse, Worlds, Publisher, Request
<1>9. InUse(plain(u)) /\ plain(u).req.state = u.req.state /\ plain(u).app = u.app
  <2>1. u \in Worlds /\ u.req \in Request
    BY <1>5 DEF InUse, Worlds
  <2>2. QED
    BY <1>5, <2>1 DEF InUse, Worlds, Request
<1>10. NoReq.state \notin Ended
  BY DEF NoReq, Ended
<1>11. u.req \in Request /\ u.req # NoReq
  BY <1>5 DEF InUse, Worlds, Request, NoReq, ReqState
<1>12. lost => terminated
  OBVIOUS
<1> HIDE DEF published, answered, lost, terminated, ended, back, plain
<1>13. CASE t = ended(u)
  BY <1>7, <1>13 DEF Idle, StaysEnded
<1>14. CASE ~terminated /\ t = Destroy(u)
  BY <1>5, <1>6, <1>12, <1>14 DEF Idle, StaysEnded
<1>15. CASE ~terminated /\ t = back(u)
  BY <1>5, <1>8, <1>11, <1>12, <1>15 DEF StaysEnded
<1>16. CASE ~terminated /\ t = plain(u)
  BY <1>5, <1>9, <1>11, <1>12, <1>16 DEF StaysEnded
<1>17. QED
  BY <1>1, <1>13, <1>14, <1>15, <1>16

LEMMA DeliverDelivers ==
  ASSUME NEW s, InUse(s), s.req.sig \in Status, NEW t \in Deliver(s)
  PROVE  /\ InUse(t) \/ Idle(t)
         /\ StaysEnded(s, t)
         /\ "reenter" \notin Env => t.app.st \notin Waiting \/ t.app.dropped
<1> DEFINE u == [s EXCEPT !.req.sig = NoSig, !.pub.iETag = s.req.etag]
           v == [u EXCEPT !.req.method = "Unknown", !.app.dropped = TRUE]
<1>1. s \in Worlds /\ s.req \in Request /\ s.pub \in Publisher /\ s.app \in AppState
  BY DEF InUse, Worlds
<1>2. InUse(u) /\ u.req.state = s.req.state
  BY <1>1 DEF InUse, Worlds, Request, Publisher
<1>3. InUse(v) /\ v.req.state = s.req.state /\ v.app.dropped
  <2> HIDE DEF u
  <2>1. u.req \in Request /\ u.app \in AppState
    BY <1>2 DEF InUse, Worlds
  <2>2. QED
    BY <1>2, <2>1 DEF InUse, Worlds, Request, AppState
<1>4. t = v \/ t \in PublisherComplete(u, s.req.sig)
  BY DEF Deliver
<1> HIDE DEF u, v
<1>5. CASE t = v
  BY <1>3, <1>5 DEF StaysEnded
<1>6. CASE t \in PublisherComplete(u, s.req.sig)
  BY <1>2, <1>6, PublisherCompletes DEF StaysEnded
<1>7. QED
  BY <1>4, <1>5, <1>6
-----------------------------------------------------------------------------
(* The engine's events.                                                    *)

(* What an event makes of a publication that no completion is posted for.  *)
Moves(s, t) ==
  /\ InUse(t)
  /\ StaysEnded(s, t)
  /\ Waits(s) /\ s.req.sig = NoSig => Waits(t)

LEMMA CompletedMoves ==
  ASSUME NEW s, InUse(s), NEW status \in Status, NEW t, Completed(s, status, t)
  PROVE  Moves(s, t) /\ (status # "OK" => Waits(t))
<1>1. InUse(t) /\ StaysEnded(s, t)
  BY DEF Completed, Kept, InUse, StaysEnded
<1>2. t.req.sig \in Status => Waits(t)
  BY DEF Waits
<1>3. ASSUME s.req.state = "Running",
             s.req.type = "PublishModify" => t.req.expiry = s.req.expiry,
             Waits(s), s.req.sig = NoSig
      PROVE  Waits(t)
  BY <1>3, NoSigIsNoStatus DEF Waits, Completed, Kept, Waiting
<1>4. QED
  BY <1>1, <1>2, <1>3 DEF Completed, Moves

(* A change of the request that keeps what the application waits for. *)
LEMMA CarriedMoves ==
  ASSUME NEW s, InUse(s), NEW t, Kept(s, t),
         t.req.expiry = s.req.expiry, t.req.sig = s.req.sig,
         \/ t.req.state = s.req.state
         \/ s.req.state \in {"Active", "Pending"}
         \/ s.req.state = "PendingInit" /\ t.req.state = "RunningInit"
  PROVE  Moves(s, t)
<1>1. InUse(t)
  BY DEF Kept, InUse
<1>2. StaysEnded(s, t)
  BY DEF StaysEnded, Ended
<1>3. Waits(s) /\ s.req.sig = NoSig => Waits(t)
  BY NoSigIsNoStatus DEF Waits, Kept
<1>4. QED
  BY <1>1, <1>2, <1>3 DEF Moves

LEMMA RefreshMoves ==
  ASSUME NEW s, InUse(s), NEW t \in RefreshPublish(s)
  PROVE  Moves(s, t)
<1> DEFINE running == SetReqState(s, "Running")
           pending == SetReqState(s, "Pending")
           timed == StartRefreshTimer(pending)
           waiting == [timed EXCEPT !.req.pend = AddPendingRefresh(@)]
<1>1. \/ t \in Complete(s, "TimedOut")
      \/ t \in Complete(s, "Completion")
      \/ t = s
      \/ /\ s.req.state \in {"Active", "Pending"}
         /\ \/ t = waiting
            \/ \E u \in SendPendingPublish(running) : t = StartRefreshTimer(u)
            \/ t \in Complete(running, "NotReady")
  BY DEF RefreshPublish, IfNotSent
<1>2. s \in Worlds
  BY DEF InUse
<1>3. /\ running \in Worlds /\ Kept(s, running) /\ running.req.state = "Running"
      /\ running.req.expiry = s.req.expiry /\ running.req.sig = s.req.sig
  BY <1>2, SetReqStateDoes DEF Carried, Kept, ReqState
<1>4. /\ Kept(s, waiting)
      /\ waiting.req.expiry = s.req.expiry /\ waiting.req.sig = s.req.sig
  <2>1. /\ pending \in Worlds /\ Kept(s, pending)
        /\ pending.req.expiry = s.req.expiry /\ pending.req.sig = s.req.sig
    BY <1>2, SetReqStateDoes DEF Carried, Kept, ReqState
  <2>2. Kept(pending, timed) /\ SameWait(pending, timed)
    BY <2>1, RefreshTimerDoes DEF Carried
  <2>3. timed \in Worlds /\ timed.req \in Request
    BY <2>2 DEF Kept, Worlds
  <2>4. AddPendingRefresh(timed.req.pend) \in {"No", "Modify", "Refresh", "ModifyAndRefresh"}
    BY <2>3 DEF AddPendingRefresh, Request
  <2> HIDE DEF timed
  <2>5. [timed.req EXCEPT !.pend = AddPendingRefresh(@)] \in Request
    BY <2>3, <2>4 DEF Request
  <2>6. Edited(timed, waiting, [timed.req EXCEPT !.pend = AddPendingRefresh(@)])
    BY <2>3, <2>5, Edit
  <2> HIDE DEF waiting, pending
  <2>7. QED
    BY <2>1, <2>2, <2>3, <2>6 DEF Edited, Kept, SameWait, Request
<1> HIDE DEF running, pending, timed, waiting
<1>5. CASE t \in Complete(s, "TimedOut")
  BY <1>2, <1>5, CompleteCompletes, CompletedMoves DEF Status
<1>6. CASE t \in Complete(s, "Completion")
  BY <1>2, <1>6, CompleteCompletes, CompletedMoves DEF Status
<1>7. CASE t = s
  BY <1>7 DEF Moves, StaysEnded
<1>8. CASE s.req.state \in {"Active", "Pending"} /\ t = waiting
  BY <1>4, <1>8, CarriedMoves
<1>9. ASSUME s.req.state \in {"Active", "Pending"},
             NEW u \in SendPendingPublish(running), t = StartRefreshTimer(u)
      PROVE  Moves(s, t)
  <2>1. /\ Kept(running, u)
        /\ u.req.expiry = running.req.expiry /\ u.req.sig = running.req.sig
    BY <1>3, <1>9, SendPendingKeeps
  <2>2. Kept(u, t) /\ SameWait(u, t)
    BY <1>9, <2>1, RefreshTimerDoes DEF Carried, Kept
  <2>3. Kept(s, t) /\ t.req.expiry = s.req.expiry /\ t.req.sig = s.req.sig
    BY <1>3, <2>1, <2>2 DEF Kept, SameWait
  <2>4. QED
    BY <1>9, <2>3, CarriedMoves
<1>10. ASSUME s.req.state \in {"Active", "Pending"}, t \in Complete(running, "NotReady")
       PROVE  Moves(s, t)
  <2>1. InUse(running)
    BY <1>3 DEF InUse, Kept
  <2>2. Completed(running, "NotReady", t)
    BY <1>3, <1>10, CompleteCompletes DEF Status
  <2>3. InUse(t) /\ Waits(t)
    BY <2>1, <2>2, CompletedMoves DEF Moves, Status
  <2>4. QED
    BY <1>10, <2>3 DEF Moves, StaysEnded, Ended
<1>11. QED
  BY <1>1, <1>5, <1>6, <1>7, <1>8, <1>9, <1>10

LEMMA PendingMoves ==
  ASSUME NEW s, InUse(s), s.req.state \in {"PendingInit", "Pending"},
         NEW t \in HandlePending(s)
  PROVE  Moves(s, t)
<1> DEFINE state == IF s.req.state = "PendingInit" THEN "RunningInit" ELSE "Running"
           u == SetReqState(s, state)
           failed == SetReqState(u, "Failed")
<1>1. \/ t \in SendPendingPublish(u)
      \/ \E e \in {"OK", "NotReady"} : t \in Complete(failed, e)
  <2> HIDE DEF u
  <2>1. t \in SendPendingPublish(u)
             \cup UNION {Complete(SetReqState(u, "Failed"), e) : e \in {"OK", "NotReady"}}
    BY DEF HandlePending, IfNotSent, u
  <2>2. QED
    BY <2>1
<1>2. s \in Worlds
  BY DEF InUse
<1>3. /\ u \in Worlds /\ Kept(s, u) /\ u.req.state = state
      /\ u.req.expiry = s.req.expiry /\ u.req.sig = s.req.sig
  BY <1>2, SetReqStateDoes DEF Carried, Kept, ReqState
<1>4. failed \in Worlds /\ Kept(s, failed) /\ failed.req.state = "Failed"
  <2> HIDE DEF u
  <2>1. QED
    BY <1>3, SetReqStateDoes DEF Carried, Kept, ReqState
<1>5. StaysEnded(s, t)
  BY DEF StaysEnded, Ended
<1> HIDE DEF u, failed
<1>6. CASE t \in SendPendingPublish(u)
  <2>1. /\ Kept(u, t) /\ t.req.state = u.req.state
        /\ t.req.expiry = u.req.expiry /\ t.req.sig = u.req.sig
    BY <1>3, <1>6, SendPendingKeeps
  <2>2. Kept(s, t)
    BY <1>3, <2>1 DEF Kept
  <2>3. QED
    BY <1>3, <2>1, <2>2, CarriedMoves
<1>7. ASSUME NEW e \in {"OK", "NotReady"}, t \in Complete(failed, e)
      PROVE  Moves(s, t)
  <2>1. Completed(failed, e, t)
    BY <1>4, <1>7, CompleteCompletes DEF Status
  <2>2. InUse(t) /\ t.req.sig \in Status
    BY <1>4, <2>1 DEF Completed, Kept, InUse
  <2>3. QED
    BY <1>5, <2>2 DEF Moves, Waits
<1>8. QED
  BY <1>1, <1>6, <1>7
-----------------------------------------------------------------------------
(* The steps.                                                              *)

Sound(s) == InUse(s) \/ Idle(s)

(* The application's wait, with a request or without one. *)
AllWaits(s) ==
  IF s.req = NoReq THEN s.app.st \notin Waiting \/ s.app.dropped ELSE Waits(s)

Steps(s, t) ==
  /\ Sound(t)
  /\ StaysEnded(s, t)
  /\ "reenter" \notin Env /\ AllWaits(s) => AllWaits(t)

IsNext(t) == sip' = t.sip /\ req' = t.req /\ pub' = t.pub /\ srv' = t.srv /\ app' = t.app

LEMMA NoReqIsNone == NoReq \notin Request /\ NoReq.state \notin Ended
BY DEF NoReq, Request, ReqState, Ended

LEMMA WorldFields ==
  /\ World.sip = sip /\ World.req = req /\ World.pub = pub
  /\ World.srv = srv /\ World.app = app
BY DEF World

LEMMA SoundWorld == PublisherSound <=> Sound(World)
<1>1. TypeOK <=> World \in AllWorlds
  BY DEF TypeOK, World, AllWorlds
<1>2. World \in AllWorlds => (World \in Worlds <=> Exists)
  BY NoReqIsNone DEF World, Worlds, AllWorlds, Exists
<1>3. World \in Worlds => World \in AllWorlds
  BY WorldsAreAll
<1>4. QED
  BY <1>1, <1>2, <1>3, WorldFields
     DEF PublisherSound, InUseHasRequest, Sound, InUse, Idle, Exists

LEMMA SoundNext ==
  ASSUME NEW t, Sound(t), IsNext(t)
  PROVE  PublisherSound'
<1>1. t \in AllWorlds
  BY WorldsAreAll DEF Sound, InUse, Idle
<1>2. TypeOK'
  BY <1>1 DEF TypeOK, AllWorlds, IsNext
<1>3. t.pub.iRequest # "None" <=> t.req # NoReq
  <2>1. t \in Worlds => t.req # NoReq
    BY NoReqIsNone DEF Worlds
  <2>2. QED
    BY <2>1 DEF Sound, InUse, Idle
<1>4. (pub'.iRequest # "None") = (req' # NoReq)
  BY <1>3 DEF IsNext
<1>5. QED
  BY <1>2, <1>4 DEF PublisherSound, InUseHasRequest, Exists

LEMMA Became ==
  ASSUME NEW worlds, Becomes(worlds)
  PROVE  \E t \in worlds : IsNext(t)
BY DEF Becomes, IsNext

(* A publication with a request, and no completion posted. *)
LEMMA ExistsInUse ==
  ASSUME PublisherSound, Exists
  PROVE  /\ InUse(World) /\ World \in Worlds /\ World.req = req
         /\ AllWaits(World) => Waits(World)
BY SoundWorld, WorldFields DEF Sound, Idle, Exists, AllWaits, InUse

LEMMA MovesStep ==
  ASSUME PublisherSound, Exists, Quiet, NEW s, NEW t, Moves(s, t),
         s.req.state = req.state, s.req.sig = req.sig, Waits(World) => Waits(s)
  PROVE  Steps(World, t)
<1>1. t.req # NoReq
  BY NoReqIsNone DEF Moves, InUse, Worlds
<1>2. Sound(t)
  BY DEF Moves, Sound
<1>3. StaysEnded(World, t)
  BY WorldFields DEF Moves, StaysEnded
<1>4. AllWaits(World) => AllWaits(t)
  BY <1>1, ExistsInUse DEF Moves, AllWaits, Quiet
<1>5. QED
  BY <1>2, <1>3, <1>4 DEF Steps

LEMMA StartStep ==
  ASSUME PublisherSound, NEW doc \in Docs, NEW auto \in Refreshes,
         NEW etag \in {"None", pub.iETag}, Start(doc, auto, etag)
  PROVE  \E t : IsNext(t) /\ Steps(World, t)
<1>1. PICK t \in StartPublish(World, doc, auto, etag) : IsNext(t)
  BY Became DEF Start
<1>2. World \in AllWorlds
  BY SoundWorld, WorldsAreAll DEF Sound, InUse, Idle
<1>3. auto \in BOOLEAN /\ etag \in Tag
  BY ConstantsAssumption DEF PublisherSound, TypeOK, Publisher, Tag
<1>4. InUse(t) /\ Waits(t) /\ World.pub.iRequest = "None"
  BY <1>1, <1>2, <1>3, StartPublishStarts
<1>5. World.req = NoReq
  BY <1>4, SoundWorld DEF Sound, InUse, Idle
<1>6. t.req # NoReq
  BY <1>4, NoReqIsNone DEF InUse, Worlds
<1>7. Steps(World, t)
  BY <1>4, <1>5, <1>6, NoReqIsNone DEF Steps, Sound, StaysEnded, AllWaits
<1>8. QED
  BY <1>1, <1>7

LEMMA ModifyStep ==
  ASSUME PublisherSound, NEW doc \in Docs, Modify(doc)
  PROVE  \E t : IsNext(t) /\ Steps(World, t)
<1>1. PICK t \in ModifyPublish(World, doc) : IsNext(t)
  BY Became DEF Modify
<1>2. InUse(t) /\ Waits(t) /\ World.req.state \notin Ended
  BY <1>1, ExistsInUse, ModifyPublishModifies DEF Modify
<1>3. t.req # NoReq
  BY <1>2, NoReqIsNone DEF InUse, Worlds
<1>4. Steps(World, t)
  BY <1>2, <1>3 DEF Steps, Sound, StaysEnded, AllWaits
<1>5. QED
  BY <1>1, <1>4

LEMMA LeaveStep ==
  ASSUME PublisherSound, NEW doc \in Docs, Leave(doc)
  PROVE  \E t : IsNext(t) /\ Steps(World, t)
<1>1. PICK t \in ModifyPublishLeaves(World, doc) \cup StartPublishLeaves(World) :
        IsNext(t)
  BY Became DEF Leave
<1>2. Moves(World, t)
  BY <1>1, ExistsInUse, LeavingKeeps DEF Leave, Moves, StaysEnded
<1>3. Steps(World, t)
  BY <1>2, MovesStep, WorldFields DEF Leave
<1>4. QED
  BY <1>1, <1>3

LEMMA StopStep ==
  ASSUME PublisherSound, Stop
  PROVE  \E t : IsNext(t) /\ Steps(World, t)
<1>1. PICK t \in StopPublish(World, req.etag) : IsNext(t)
  BY Became DEF Stop
<1>2. World \in Worlds /\ req.etag \in Tag
  BY ExistsInUse DEF Stop, Worlds, Request
<1>3. InUse(t) /\ Waits(t) /\ t.req.state \in Ended \cup {"Stopping"}
  BY <1>1, <1>2, StopPublishStops
<1>4. t.req # NoReq
  BY <1>3, NoReqIsNone DEF InUse, Worlds
<1>5. Steps(World, t)
  BY <1>3, <1>4 DEF Steps, Sound, StaysEnded, AllWaits
<1>6. QED
  BY <1>1, <1>5

LEMMA StopScratchStep ==
  ASSUME PublisherSound, StopScratch
  PROVE  \E t : IsNext(t) /\ Steps(World, t)
<1>1. PICK t \in StopPublishScratch(World, pub.iETag) : IsNext(t)
  BY Became DEF StopScratch
<1>2. World \in AllWorlds /\ World.req = NoReq
  BY SoundWorld, WorldFields DEF StopScratch, Sound, InUse, Idle
<1>3. pub.iETag \in Tag
  BY DEF PublisherSound, TypeOK, Publisher
<1>4. InUse(t) /\ Waits(t)
  BY <1>1, <1>2, <1>3, StopPublishScratchStops
<1>5. t.req # NoReq
  BY <1>4, NoReqIsNone DEF InUse, Worlds
<1>6. Steps(World, t)
  BY <1>2, <1>4, <1>5, NoReqIsNone DEF Steps, Sound, StaysEnded, AllWaits
<1>7. QED
  BY <1>1, <1>6

LEMMA CloseStep ==
  ASSUME PublisherSound, Close
  PROVE  \E t : IsNext(t) /\ Steps(World, t)
<1> DEFINE p == [iRequest |-> "None", iPublished |-> FALSE, found |-> FALSE,
                 iETag |-> pub.iETag]
           a == [app EXCEPT !.st = "off", !.dropped = FALSE]
           t == [sip |-> sip, req |-> NoReq, pub |-> p, srv |-> srv, app |-> a]
<1>1. IsNext(t)
  BY DEF Close, IsNext
<1>2. p \in Publisher /\ a \in AppState /\ a.st = "off"
  BY DEF PublisherSound, TypeOK, Publisher, AppState
<1>3. Idle(t)
  <2> HIDE DEF a
  <2>1. QED
    BY <1>2 DEF PublisherSound, TypeOK, Idle, AllWorlds
<1>4. t.app = a /\ t.req = NoReq
  OBVIOUS
<1> HIDE DEF a, t
<1>5. Steps(World, t)
  BY <1>2, <1>3, <1>4 DEF Steps, Sound, StaysEnded, AllWaits, Waiting
<1>6. QED
  BY <1>1, <1>5

LEMMA RunLStep ==
  ASSUME PublisherSound, RunL
  PROVE  \E t : IsNext(t) /\ Steps(World, t)
<1>1. PICK t \in Deliver(World) : IsNext(t)
  BY Became DEF RunL
<1>2. InUse(World) /\ World.req.sig \in Status
  BY ExistsInUse DEF RunL, Worlds, Request
<1>3. /\ InUse(t) \/ Idle(t)
      /\ StaysEnded(World, t)
      /\ "reenter" \notin Env => t.app.st \notin Waiting \/ t.app.dropped
  BY <1>1, <1>2, DeliverDelivers
<1>4. Steps(World, t)
  BY <1>3 DEF Steps, Sound, AllWaits, Waits
<1>5. QED
  BY <1>1, <1>4

(* The end of a wait, whatever ends it. *)
LEMMA FailsStep ==
  ASSUME PublisherSound, Exists, NEW s, InUse(s), s.req.state = req.state,
         NEW status \in Status, status # "OK", NEW t \in Complete(s, status)
  PROVE  Steps(World, t)
<1>1. Completed(s, status, t)
  BY CompleteCompletes DEF InUse
<1>2. Moves(s, t) /\ Waits(t)
  BY <1>1, CompletedMoves
<1>3. t.req # NoReq
  BY <1>2, NoReqIsNone DEF Moves, InUse, Worlds
<1>4. QED
  BY <1>2, <1>3, WorldFields DEF Moves, Steps, Sound, StaysEnded, AllWaits

LEMMA ExpiryStep ==
  ASSUME PublisherSound, ExpiryFires
  PROVE  \E t : IsNext(t) /\ Steps(World, t)
<1> DEFINE s == StopExpiryTimer(World)
<1>1. PICK t \in Complete(s, "TimedOut") : IsNext(t)
  BY Became DEF ExpiryFires
<1>2. InUse(World) /\ World \in Worlds /\ World.req = req
  BY ExistsInUse DEF ExpiryFires
<1>3. InUse(s) /\ s.req.state = req.state
  BY <1>2, StopExpiryTimerDoes DEF Carried, Kept, InUse
<1> HIDE DEF s
<1>4. Steps(World, t)
  BY <1>1, <1>3, FailsStep DEF ExpiryFires, Status
<1>5. QED
  BY <1>1, <1>4

LEMMA RefreshStep ==
  ASSUME PublisherSound, RefreshFires
  PROVE  \E t : IsNext(t) /\ Steps(World, t)
<1> DEFINE s == StopRefreshTimer(World)
<1>1. PICK t \in RefreshPublish(s) : IsNext(t)
  BY Became DEF RefreshFires
<1>2. InUse(World) /\ World \in Worlds /\ World.req = req
  BY ExistsInUse DEF RefreshFires
<1>3. Carried(World, s) /\ SameWait(World, s)
  BY <1>2, RefreshTimerDoes
<1> HIDE DEF s
<1>4. /\ InUse(s) /\ s.req.state = req.state /\ s.req.sig = req.sig
      /\ Waits(World) => Waits(s)
  BY <1>2, <1>3 DEF Carried, Kept, SameWait, InUse, Waits
<1>5. Steps(World, t)
  BY <1>1, <1>4, RefreshMoves, MovesStep DEF RefreshFires
<1>6. QED
  BY <1>1, <1>5

LEMMA ResponseStep ==
  ASSUME PublisherSound, Response
  PROVE  \E t : IsNext(t) /\ Steps(World, t)
<1> DEFINE s == [World EXCEPT !.req.trans = NoTrans, !.req.method = "Status",
                              !.req.etag = World.req.trans.etag]
           status == World.req.trans.answer
<1>1. PICK t \in Complete(s, status) : IsNext(t)
  BY Became DEF Response, PublishResp
<1>2. /\ InUse(World) /\ World \in Worlds /\ World.req = req /\ req \in Request
      /\ Exists /\ Quiet
  BY ExistsInUse DEF Response, Answered, Worlds
<1>3. status \in Status
  BY <1>2 DEF Response, Answered, Status
<1> DEFINE r == [req EXCEPT !.trans = NoTrans, !.method = "Status",
                            !.etag = req.trans.etag]
<1>4. r \in Request
  BY <1>2 DEF Request, Trans, NoTrans, Tag
<1>5. /\ r.state = req.state /\ r.sig = req.sig /\ r.expiry = req.expiry
      /\ r.type = req.type
  BY <1>2 DEF Request
<1>6. s = [World EXCEPT !.req = r]
  BY <1>2 DEF World
<1> HIDE DEF r, s, status
<1>7. Edited(World, s, r)
  BY <1>2, <1>4, <1>6, Edit
<1>8. /\ InUse(s) /\ s.req.state = req.state /\ s.req.sig = req.sig
      /\ Waits(World) => Waits(s)
  BY <1>2, <1>5, <1>7 DEF Edited, InUse, Waits
<1>9. Moves(s, t)
  BY <1>1, <1>3, <1>8, CompleteCompletes, CompletedMoves DEF InUse
<1>10. Steps(World, t)
  BY <1>2, <1>8, <1>9, MovesStep
<1>11. QED
  BY <1>1, <1>10

LEMMA TransactionStep ==
  ASSUME PublisherSound, TransactionFails
  PROVE  \E t : IsNext(t) /\ Steps(World, t)
<1> DEFINE s == [World EXCEPT !.req.trans = NoTrans, !.req.method = "Unknown"]
           r == [req EXCEPT !.trans = NoTrans, !.method = "Unknown"]
<1>1. PICK t \in Complete(s, "CommsBreak") : IsNext(t)
  BY Became DEF TransactionFails
<1>2. InUse(World) /\ World \in Worlds /\ World.req = req /\ req \in Request
  BY ExistsInUse DEF TransactionFails, Worlds
<1>3. r \in Request /\ r.state = req.state
  BY <1>2 DEF Request, Trans, NoTrans, Tag
<1>4. s = [World EXCEPT !.req = r]
  BY <1>2 DEF World
<1> HIDE DEF r, s
<1>5. Edited(World, s, r)
  BY <1>2, <1>3, <1>4, Edit
<1>6. InUse(s) /\ s.req.state = req.state
  BY <1>2, <1>3, <1>5 DEF Edited, InUse
<1>7. Steps(World, t)
  BY <1>1, <1>6, FailsStep DEF TransactionFails, Status
<1>8. QED
  BY <1>1, <1>7

(* A new state of the connection, with the request as it is. *)
LEMMA Reconnected ==
  ASSUME PublisherSound, NEW state \in SipStates
  PROVE  LET s == [World EXCEPT !.sip = state] IN
         /\ Steps(World, s)
         /\ s.req = req /\ s.pub = pub /\ s.srv = srv /\ s.app = app /\ s.sip = state
         /\ Exists => InUse(s)
<1> DEFINE s == [World EXCEPT !.sip = state]
<1>1. s.req = req /\ s.pub = pub /\ s.srv = srv /\ s.app = app /\ s.sip = state
  BY DEF World
<1>2. Exists => InUse(s)
  BY ExistsInUse DEF InUse, Worlds, World
<1>3. ~Exists => Idle(s)
  BY SoundWorld, WorldFields, NoReqIsNone
     DEF Sound, Idle, InUse, Worlds, AllWorlds, World, Exists
<1> HIDE DEF s
<1>4. Steps(World, s)
  BY <1>1, <1>2, <1>3, WorldFields, NoReqIsNone
     DEF Steps, Sound, StaysEnded, AllWaits, Waits, Exists
<1>5. QED
  BY <1>1, <1>2, <1>4 DEF s

LEMMA DisconnectStep ==
  ASSUME PublisherSound, NEW state \in SipStates, Disconnect(state)
  PROVE  \E t : IsNext(t) /\ Steps(World, t)
<1> DEFINE s == [World EXCEPT !.sip = state]
           u == [s EXCEPT !.req.method = "Unknown"]
<1>1. PICK t \in IF ~Exists THEN {s} ELSE Complete(u, "Disconnected") : IsNext(t)
  BY Became DEF Disconnect
<1>2. Steps(World, s) /\ s.req = req /\ (Exists => InUse(s))
  BY Reconnected
<1> HIDE DEF s
<1>3. CASE ~Exists
  BY <1>1, <1>2, <1>3
<1>4. CASE Exists
  <2>1. s \in Worlds /\ s.req \in Request /\ InUse(s)
    BY <1>2, <1>4 DEF InUse, Worlds
  <2>2. InUse(u) /\ u.req.state = req.state
    BY <1>2, <2>1 DEF InUse, Worlds, Request
  <2> HIDE DEF u
  <2>3. Steps(World, t)
    BY <1>1, <1>4, <2>2, FailsStep DEF Status
  <2>4. QED
    BY <1>1, <2>3
<1>5. QED
  BY <1>3, <1>4

LEMMA SuspendStep ==
  ASSUME PublisherSound, Suspend
  PROVE  \E t : IsNext(t) /\ Steps(World, t)
<1> DEFINE s == [World EXCEPT !.sip = "Suspend"]
<1>1. /\ Steps(World, s)
      /\ s.req = req /\ s.pub = pub /\ s.srv = srv /\ s.app = app /\ s.sip = "Suspend"
  BY Reconnected DEF Suspend
<1> HIDE DEF s
<1>2. IsNext(s)
  BY <1>1 DEF IsNext, Suspend
<1>3. QED
  BY <1>1, <1>2

LEMMA ActivateStep ==
  ASSUME PublisherSound, Activate
  PROVE  \E t : IsNext(t) /\ Steps(World, t)
<1> DEFINE s == [World EXCEPT !.sip = "Active"]
           waits == sip = "Suspend" /\ Exists /\ req.state \in {"PendingInit", "Pending"}
<1>1. PICK t : IsNext(t) /\ (t = s \/ (waits /\ t \in HandlePending(s)))
  <2>1. PICK t \in (IF waits THEN HandlePending(s) ELSE {s})
                   \cup (IF "behind" \in Env THEN {s} ELSE {}) : IsNext(t)
    BY Became DEF Activate
  <2> HIDE DEF s, waits
  <2>2. QED
    BY <2>1
<1>2. Steps(World, s) /\ s.req = req /\ s.app = app /\ (Exists => InUse(s))
  BY Reconnected, ConstantsAssumption
<1> HIDE DEF s
<1>3. CASE t = s
  BY <1>1, <1>2, <1>3
<1>4. CASE waits /\ t \in HandlePending(s)
  <2>1. Moves(s, t)
    BY <1>2, <1>4, PendingMoves
  <2>2. Waits(World) => Waits(s)
    BY <1>2, WorldFields DEF Waits
  <2>3. Steps(World, t)
    BY <1>2, <1>4, <2>1, <2>2, MovesStep DEF Activate
  <2>4. QED
    BY <1>1, <2>3
<1>5. QED
  BY <1>1, <1>3, <1>4

LEMMA NextSteps ==
  ASSUME PublisherSound, Next
  PROVE  \E t : IsNext(t) /\ Steps(World, t)
<1>1. CASE App
  <2>1. CASE \E doc \in Docs \ {app.doc} :
               \/ \E auto \in Refreshes, etag \in {"None", pub.iETag} : Start(doc, auto, etag)
               \/ Modify(doc)
               \/ Leave(doc)
    BY <2>1, StartStep, ModifyStep, LeaveStep
  <2>2. QED
    BY <1>1, <2>1, StopStep, StopScratchStep, CloseStep DEF App
<1>2. CASE Network
  BY <1>2, ResponseStep, TransactionStep, DisconnectStep, SuspendStep, ActivateStep
     DEF Network
<1>3. CASE Engine
  BY <1>3, RunLStep, ExpiryStep, RefreshStep DEF Engine
<1>4. QED
  BY <1>1, <1>2, <1>3 DEF Next

-----------------------------------------------------------------------------
(* The theorems.                                                           *)

LEMMA InitSound == Init => PublisherSound /\ AllWaits(World)
BY DEF Init, PublisherSound, TypeOK, InUseHasRequest, Exists, Publisher, Tag,
       AppState, AllWaits, World, Waiting

(* The records keep their types, and the publisher is in use exactly as    *)
(* long as it has a request.                                               *)
THEOREM PublisherAlwaysSound == Spec => []PublisherSound
<1>1. Init => PublisherSound
  BY InitSound
<1>2. PublisherSound /\ [Next]_vars => PublisherSound'
  <2>1. ASSUME PublisherSound, Next PROVE PublisherSound'
    BY <2>1, NextSteps, SoundNext DEF Steps
  <2>2. ASSUME PublisherSound, UNCHANGED vars PROVE PublisherSound'
    BY <2>2 DEF vars, PublisherSound, TypeOK, InUseHasRequest, Exists
  <2>3. QED
    BY <2>1, <2>2
<1>3. QED
  BY <1>1, <1>2, PTL DEF Spec

(* No late response, timer or network recovery revives a publication that  *)
(* has ended.                                                              *)
THEOREM EndsForGood == Spec => EndedStays
<1>1. PublisherSound /\ [Next]_vars =>
        [Exists /\ req.state \in {"Complete", "Failed"} =>
           req' = NoReq \/ req'.state \in {"Complete", "Failed", "Stopping"}]_vars
  <2>1. ASSUME PublisherSound, Next, req.state \in {"Complete", "Failed"}
        PROVE  req' = NoReq \/ req'.state \in {"Complete", "Failed", "Stopping"}
    BY <2>1, NextSteps, WorldFields DEF Steps, StaysEnded, IsNext, Ended
  <2>2. QED
    BY <2>1
<1>2. QED
  BY <1>1, PublisherAlwaysSound, PTL DEF Spec, EndedStays

(* The application never waits for a callback without a timer or a posted  *)
(* completion that will bring it, if it makes no calls from callbacks.     *)
THEOREM AnswersTimed == ASSUME "reenter" \notin Env PROVE Spec => []AppWaitIsTimed
<1> DEFINE Timed == PublisherSound /\ AllWaits(World)
<1>1. Init => Timed
  BY InitSound
<1>2. Timed /\ [Next]_vars => Timed'
  <2>1. ASSUME Timed, Next PROVE Timed'
    <3>1. PICK t : IsNext(t) /\ Steps(World, t)
      BY <2>1, NextSteps
    <3>2. PublisherSound'
      BY <3>1, SoundNext DEF Steps
    <3>3. AllWaits(t)
      BY <2>1, <3>1 DEF Steps
    <3>4. World'.req = t.req /\ World'.app = t.app
      BY <3>1 DEF IsNext, World
    <3>5. AllWaits(World')
      BY <3>3, <3>4 DEF AllWaits, Waits
    <3>6. QED
      BY <3>2, <3>5
  <2>2. ASSUME Timed, UNCHANGED vars PROVE Timed'
    BY <2>2 DEF vars, PublisherSound, TypeOK, InUseHasRequest, Exists, World
  <2>3. QED
    BY <2>1, <2>2
<1>3. Timed => AppWaitIsTimed
  BY WorldFields, NoSigIsNoStatus DEF AppWaitIsTimed, AllWaits, Waits, Waiting, Exists
<1>4. QED
  BY <1>1, <1>2, <1>3, PTL DEF Spec

-----------------------------------------------------------------------------
(* What sending and completing make of a publication, in full: the         *)
(* properties about the refresh timer and the server's document need it.   *)

Modifies == {"Modify", "ModifyAndRefresh"}

(* The application believes that it publishes, and has been told of every  *)
(* completion.                                                             *)
Live(s) == ~s.app.dropped /\ s.app.st \in {"starting", "on", "modifying"}

(* A change of the request alone, with the fields these properties read. *)
Turned(s, t, state, sig, refresh) ==
  /\ t \in Worlds
  /\ t.sip = s.sip /\ t.app = s.app /\ t.pub = s.pub /\ t.srv = s.srv
  /\ t.req.type = s.req.type
  /\ t.req.etag = s.req.etag /\ t.req.trans = s.req.trans
  /\ t.req.state = state /\ t.req.sig = sig /\ t.req.refresh = refresh

LEMMA TurnedTwice ==
  ASSUME NEW s, NEW t, NEW u, NEW a, NEW b, NEW c, NEW d, NEW e, NEW f,
         Turned(s, t, a, b, c), Turned(t, u, d, e, f)
  PROVE  Turned(s, u, d, e, f)
BY DEF Turned

LEMMA Turns ==
  ASSUME NEW s \in Worlds
  PROVE  /\ \A x \in ReqState :
              Turned(s, SetReqState(s, x), x, s.req.sig, s.req.refresh)
         /\ \A x \in Status : Turned(s, Post(s, x), s.req.state, x, s.req.refresh)
         /\ Turned(s, StartRefreshTimer(s), s.req.state, s.req.sig, TRUE)
         /\ Turned(s, StopRefreshTimer(s), s.req.state, s.req.sig, FALSE)
         /\ Turned(s, StopExpiryTimer(s), s.req.state, s.req.sig, s.req.refresh)
<1>0. s.req \in Request
  BY DEF Worlds
<1>1. \A x \in ReqState : Turned(s, SetReqState(s, x), x, s.req.sig, s.req.refresh)
  <2>1. ASSUME NEW x \in ReqState
        PROVE  Turned(s, SetReqState(s, x), x, s.req.sig, s.req.refresh)
    <3>1. Edited(s, SetReqState(s, x), [s.req EXCEPT !.state = x])
      BY Fields
    <3>2. QED
      BY <1>0, <3>1 DEF Edited, Turned, Request
  <2>2. QED
    BY <2>1
<1>2. \A x \in Status : Turned(s, Post(s, x), s.req.state, x, s.req.refresh)
  <2>1. ASSUME NEW x \in Status
        PROVE  Turned(s, Post(s, x), s.req.state, x, s.req.refresh)
    <3>1. Edited(s, Post(s, x), [s.req EXCEPT !.sig = x])
      BY Fields
    <3>2. QED
      BY <1>0, <3>1 DEF Edited, Turned, Request
  <2>2. QED
    BY <2>1
<1>3. Turned(s, StartRefreshTimer(s), s.req.state, s.req.sig, TRUE)
  <2>1. Edited(s, StartRefreshTimer(s), [s.req EXCEPT !.refresh = TRUE])
    BY Fields
  <2>2. QED
    BY <1>0, <2>1 DEF Edited, Turned, Request
<1>4. Turned(s, StopRefreshTimer(s), s.req.state, s.req.sig, FALSE)
  <2>1. Edited(s, StopRefreshTimer(s), [s.req EXCEPT !.refresh = FALSE])
    BY Fields
  <2>2. QED
    BY <1>0, <2>1 DEF Edited, Turned, Request
<1>5. Turned(s, StopExpiryTimer(s), s.req.state, s.req.sig, s.req.refresh)
  <2>1. Edited(s, StopExpiryTimer(s), [s.req EXCEPT !.expiry = FALSE])
    BY Fields
  <2>2. QED
    BY <1>0, <2>1 DEF Edited, Turned, Request
<1>6. QED
  BY <1>1, <1>2, <1>3, <1>4, <1>5

(* Setting the state and posting, the two ends of a completion. *)
LEMMA Fails ==
  ASSUME NEW s \in Worlds, NEW x \in Status
  PROVE  Turned(s, Fail(s, x), "Failed", x, s.req.refresh)
<1> DEFINE a == SetReqState(s, "Failed")
<1>1. Turned(s, a, "Failed", s.req.sig, s.req.refresh)
  BY Turns DEF ReqState
<1>2. a \in Worlds /\ a.req.state = "Failed" /\ a.req.refresh = s.req.refresh
  BY <1>1 DEF Turned
<1> HIDE DEF a
<1>3. Turned(a, Post(a, x), "Failed", x, s.req.refresh)
  <2>1. Turned(a, Post(a, x), a.req.state, x, a.req.refresh)
    BY <1>2, Turns
  <2>2. QED
    BY <1>2, <2>1
<1>4. QED
  BY <1>1, <1>3, TurnedTwice DEF Fail, a

LEMMA Succeeds ==
  ASSUME NEW s \in Worlds
  PROVE  Turned(s, StartRefreshTimer(SetReqState(s, "Active")), "Active", s.req.sig, TRUE)
<1> DEFINE a == SetReqState(s, "Active")
<1>1. Turned(s, a, "Active", s.req.sig, s.req.refresh)
  BY Turns DEF ReqState
<1>2. a \in Worlds /\ a.req.state = "Active" /\ a.req.sig = s.req.sig
  BY <1>1 DEF Turned
<1> HIDE DEF a
<1>3. Turned(a, StartRefreshTimer(a), "Active", s.req.sig, TRUE)
  <2>1. Turned(a, StartRefreshTimer(a), a.req.state, a.req.sig, TRUE)
    BY <1>2, Turns
  <2>2. QED
    BY <1>2, <2>1
<1>4. QED
  BY <1>1, <1>3 DEF Turned, a

(* CSimpleRequest::Complete, for a request that has no modification waiting *)
(* behind the PUBLISH under way: what it makes of the request.             *)
Answers(s, status, t) ==
  LET state == s.req.state
      modify == s.req.type = "PublishModify"
  IN \/ /\ \/ state = "RunningInit" /\ status = "OK"
           \/ state = "Running" /\ modify /\ status \in {"OK", "Temporary"}
        /\ Turned(s, t, "Active", status, TRUE) /\ t.req.pend = "No"
     \/ /\ state = "Running" /\ ~modify /\ status = "OK"
        /\ Turned(s, t, "Active", s.req.sig, TRUE) /\ t.req.pend = "No"
     \/ /\ state = "Pending" /\ s.req.pend \in Modifies
        /\ status \notin {"Completion", "Disconnected"}
        /\ \/ Turned(s, t, "Active", status, s.req.refresh) /\ t.req.pend = "No"
           \/ /\ Turned(s, t, "Pending", status, s.req.refresh)
              /\ t.req.pend = "Refresh" /\ status # "OK"
     \/ /\ state \in {"RunningInit", "Running"} => status # "OK"
        /\ state = "Pending" /\ s.req.pend \in Modifies =>
             status \in {"Completion", "Disconnected"}
        /\ \E c \in BOOLEAN :
              \/ /\ Turned(s, t, "Failed", status, c)
                 /\ state = "Running" /\ modify => status = "Disconnected"
              \/ /\ Turned(s, t, "Failed", "Completion", c)
                 /\ state = "Running" /\ modify /\ status # "Disconnected"
        /\ t.req.pend = "No" \/ status = "Disconnected"
     \/ state = "Stopping"

LEMMA StartAnswers ==
  ASSUME NEW s \in Worlds, NEW status \in Status
  PROVE  IF status = "OK" THEN Turned(s, CompleteStart(s, status), "Active", "OK", TRUE)
         ELSE Turned(s, CompleteStart(s, status), "Failed", status, s.req.refresh)
<1> DEFINE t == StopExpiryTimer(s)
           a == StartRefreshTimer(SetReqState(t, "Active"))
<1>1. Turned(s, t, s.req.state, s.req.sig, s.req.refresh)
  BY Turns
<1>2. t \in Worlds /\ t.req.refresh = s.req.refresh
  BY <1>1 DEF Turned
<1>3. Turned(t, a, "Active", t.req.sig, TRUE)
  BY <1>2, Succeeds
<1>4. a \in Worlds /\ a.req.state = "Active" /\ a.req.refresh = TRUE
  BY <1>3 DEF Turned
<1>5. CompleteStart(s, status) = IF status = "OK" THEN Post(a, "OK") ELSE Fail(t, status)
  BY DEF CompleteStart
<1> HIDE DEF t, a
<1>6. Turned(t, Fail(t, status), "Failed", status, s.req.refresh)
  BY <1>2, Fails
<1>7. Turned(a, Post(a, "OK"), "Active", "OK", TRUE)
  <2>1. Turned(a, Post(a, "OK"), a.req.state, "OK", a.req.refresh)
    BY <1>4, Turns DEF Status
  <2>2. QED
    BY <1>4, <2>1
<1>8. Turned(s, Fail(t, status), "Failed", status, s.req.refresh)
  BY <1>1, <1>6 DEF Turned
<1>9. Turned(t, Post(a, "OK"), "Active", "OK", TRUE)
  BY <1>3, <1>7 DEF Turned
<1>10. Turned(s, Post(a, "OK"), "Active", "OK", TRUE)
  BY <1>1, <1>9 DEF Turned
<1>11. QED
  BY <1>5, <1>8, <1>10

LEMMA ModifyAnswers ==
  ASSUME NEW s \in Worlds, NEW status \in Status
  PROVE  IF status \in {"OK", "Temporary"}
           THEN Turned(s, CompleteModify(s, status), "Active", status, TRUE)
           ELSE Turned(s, CompleteModify(s, status), "Failed", "Completion", s.req.refresh)
<1> DEFINE t == StopExpiryTimer(s)
           a == StartRefreshTimer(SetReqState(t, "Active"))
<1>1. Turned(s, t, s.req.state, s.req.sig, s.req.refresh)
  BY Turns
<1>2. t \in Worlds /\ t.req.refresh = s.req.refresh
  BY <1>1 DEF Turned
<1>3. Turned(t, a, "Active", t.req.sig, TRUE)
  BY <1>2, Succeeds
<1>4. a \in Worlds /\ a.req.state = "Active" /\ a.req.refresh = TRUE
  BY <1>3 DEF Turned
<1>5. CompleteModify(s, status) = IF status \in {"OK", "Temporary"} THEN Post(a, status)
                                  ELSE Fail(t, "Completion")
  BY DEF CompleteModify
<1> HIDE DEF t, a
<1>6. Turned(t, Fail(t, "Completion"), "Failed", "Completion", s.req.refresh)
  BY <1>2, Fails DEF Status
<1>7. Turned(a, Post(a, status), "Active", status, TRUE)
  <2>1. Turned(a, Post(a, status), a.req.state, status, a.req.refresh)
    BY <1>4, Turns
  <2>2. QED
    BY <1>4, <2>1
<1>8. Turned(s, Fail(t, "Completion"), "Failed", "Completion", s.req.refresh)
  BY <1>1, <1>6 DEF Turned
<1>9. Turned(t, Post(a, status), "Active", status, TRUE)
  BY <1>3, <1>7 DEF Turned
<1>10. Turned(s, Post(a, status), "Active", status, TRUE)
  BY <1>1, <1>9 DEF Turned
<1>11. QED
  BY <1>5, <1>8, <1>10

LEMMA OtherAnswers ==
  ASSUME NEW s \in Worlds, NEW status \in Status
  PROVE  Turned(s, Fail(StopExpiryTimer(s), status), "Failed", status, s.req.refresh)
<1> DEFINE t == StopExpiryTimer(s)
<1>1. Turned(s, t, s.req.state, s.req.sig, s.req.refresh)
  BY Turns
<1>2. t \in Worlds /\ t.req.refresh = s.req.refresh
  BY <1>1 DEF Turned
<1> HIDE DEF t
<1>3. Turned(t, Fail(t, status), "Failed", status, s.req.refresh)
  BY <1>2, Fails
<1>4. QED
  BY <1>1, <1>3 DEF Turned, t

LEMMA RefreshAnswers ==
  ASSUME NEW s \in Worlds, NEW status \in Status
  PROVE  IF status = "OK"
           THEN Turned(s, CompleteRefresh(s, status), "Active", s.req.sig, TRUE)
           ELSE Turned(s, CompleteRefresh(s, status), "Failed", status, s.req.refresh)
<1> DEFINE t == StopExpiryTimer(s)
           a == StartRefreshTimer(SetReqState(t, "Active"))
           b == [a EXCEPT !.req.method = "StatusETag"]
<1>1. Turned(s, t, s.req.state, s.req.sig, s.req.refresh)
  BY Turns
<1>2. t \in Worlds /\ t.req.refresh = s.req.refresh /\ t.req.sig = s.req.sig
  BY <1>1 DEF Turned
<1>3. Turned(t, a, "Active", s.req.sig, TRUE)
  BY <1>2, Succeeds
<1>4. CompleteRefresh(s, status) = IF status = "OK" THEN b ELSE Fail(t, status)
  BY DEF CompleteRefresh
<1> HIDE DEF t, a
<1>5. Turned(a, b, "Active", s.req.sig, TRUE)
  <2>1. a \in Worlds /\ a.req \in Request
    BY <1>3 DEF Turned, Worlds
  <2>2. [a.req EXCEPT !.method = "StatusETag"] \in Request
    BY <2>1 DEF Request
  <2>3. Edited(a, b, [a.req EXCEPT !.method = "StatusETag"])
    BY <2>1, <2>2, Edit
  <2>4. QED
    BY <1>3, <2>1, <2>3 DEF Edited, Turned, Request
<1> HIDE DEF b
<1>6. Turned(t, b, "Active", s.req.sig, TRUE)
  BY <1>3, <1>5 DEF Turned
<1>7. Turned(s, b, "Active", s.req.sig, TRUE)
  BY <1>1, <1>6 DEF Turned
<1>8. Turned(s, Fail(t, status), "Failed", status, s.req.refresh)
  BY OtherAnswers DEF t
<1>9. QED
  BY <1>4, <1>7, <1>8

LEMMA PendingModifyAnswers ==
  ASSUME NEW s \in Worlds, NEW status \in Status
  PROVE  Turned(s, CompletePendingModify(s, status),
                IF s.req.pend = "ModifyAndRefresh" /\ status # "OK" THEN "Pending"
                                                                    ELSE "Active",
                status, s.req.refresh)
<1> DEFINE t == StopExpiryTimer(s)
           a == Post(t, status)
           x == IF s.req.pend = "ModifyAndRefresh" /\ status # "OK" THEN "Pending" ELSE "Active"
<1>1. Turned(s, t, s.req.state, s.req.sig, s.req.refresh)
  BY Turns
<1>2. t \in Worlds /\ t.req.refresh = s.req.refresh /\ t.req.state = s.req.state
  BY <1>1 DEF Turned
<1>3. Turned(t, a, t.req.state, status, t.req.refresh)
  BY <1>2, Turns
<1>4. CompletePendingModify(s, status) = SetReqState(a, x)
  BY DEF CompletePendingModify
<1>5. x \in ReqState
  BY DEF ReqState
<1>6. Turned(s, a, t.req.state, status, t.req.refresh)
  BY <1>1, <1>3 DEF Turned
<1> HIDE DEF t, a
<1>7. a \in Worlds /\ a.req.sig = status /\ a.req.refresh = s.req.refresh
  BY <1>2, <1>6 DEF Turned
<1>8. Turned(a, SetReqState(a, x), x, status, s.req.refresh)
  <2>1. Turned(a, SetReqState(a, x), x, a.req.sig, a.req.refresh)
    BY <1>5, <1>7, Turns
  <2>2. QED
    BY <1>7, <2>1
<1> HIDE DEF x
<1>9. Turned(s, SetReqState(a, x), x, status, s.req.refresh)
  BY <1>6, <1>8 DEF Turned
<1>10. QED
  BY <1>4, <1>9 DEF x

LEMMA PublicationAnswers ==
  ASSUME NEW s0 \in Worlds, NEW status \in Status, status # "Disconnected",
         s0.req.state = "Running" => s0.req.pend = "No",
         NEW t \in DoCompletePublication(s0, status)
  PROVE  Answers(s0, status, t)
<1> DEFINE state == s0.req.state
           pend == s0.req.pend
           modify == s0.req.type = "PublishModify"
           s == IF state = "Pending" THEN s0 ELSE StopRefreshTimer(s0)
           waiting == state = "Pending" /\ pend \in {"Modify", "ModifyAndRefresh"}
                                        /\ status # "Completion"
           done == CASE state = "RunningInit" -> {CompleteStart(s, status)}
                     [] state = "Running" /\ modify /\ pend # "No" ->
                          CompleteBeforeModify(s, status)
                     [] state = "Running" /\ modify /\ pend = "No" ->
                          {CompleteModify(s, status)}
                     [] state = "Running" /\ ~modify -> {CompleteRefresh(s, status)}
                     [] state = "Stopping" -> {CompleteStop(s, status)}
                     [] waiting -> {CompletePendingModify(s, status)}
                     [] OTHER -> {Fail(StopExpiryTimer(s), status)}
           next == IF waiting /\ pend = "ModifyAndRefresh" /\ status # "OK"
                     THEN "Refresh" ELSE "No"
<1>1. PICK u \in done : t = [u EXCEPT !.req.data = NoDoc, !.req.pend = next]
  BY DEF DoCompletePublication
<1>2. \/ state = "RunningInit" /\ u = CompleteStart(s, status)
      \/ state = "Running" /\ modify /\ u = CompleteModify(s, status)
      \/ state = "Running" /\ ~modify /\ u = CompleteRefresh(s, status)
      \/ state = "Stopping"
      \/ waiting /\ u = CompletePendingModify(s, status)
      \/ /\ state \notin {"RunningInit", "Running"} /\ ~waiting
         /\ u = Fail(StopExpiryTimer(s), status)
  BY <1>1
<1>3. PICK c \in BOOLEAN :
        Turned(s0, s, state, s0.req.sig, c) /\ (waiting => c = s0.req.refresh)
  <2>1. s0.req.refresh \in BOOLEAN
    BY DEF Worlds, Request
  <2>2. CASE state = "Pending"
    BY <2>1, <2>2 DEF Turned
  <2>3. CASE state # "Pending"
    BY <2>3, Turns
  <2>4. QED
    BY <2>2, <2>3
<1>4. s \in Worlds /\ s.req.state = state /\ s.req.sig = s0.req.sig /\ s.req.refresh = c
  BY <1>3 DEF Turned
<1>5. waiting => s.req.pend = pend
  OBVIOUS
<1>6. next \in {"No", "Refresh"}
  OBVIOUS
<1>7. waiting <=> /\ state = "Pending" /\ pend \in Modifies /\ status # "Completion"
  BY DEF Modifies
<1>8. next = IF waiting /\ pend = "ModifyAndRefresh" /\ status # "OK" THEN "Refresh" ELSE "No"
  OBVIOUS
<1> HIDE DEF s, next, waiting, done
<1>9. u \in Worlds =>
        Turned(u, t, u.req.state, u.req.sig, u.req.refresh) /\ t.req.pend = next
  <2>1. SUFFICES ASSUME u \in Worlds
                 PROVE  Turned(u, t, u.req.state, u.req.sig, u.req.refresh)
                        /\ t.req.pend = next
    OBVIOUS
  <2>2. u.req \in Request
    BY <2>1 DEF Worlds
  <2>3. [u.req EXCEPT !.data = NoDoc, !.pend = next] \in Request
    BY <1>6, <2>2 DEF Request
  <2>4. t = [u EXCEPT !.req = [u.req EXCEPT !.data = NoDoc, !.pend = next]]
    BY <1>1, <2>1, <2>2 DEF Worlds, Request
  <2>5. Edited(u, t, [u.req EXCEPT !.data = NoDoc, !.pend = next])
    BY <2>1, <2>3, <2>4, Edit
  <2>6. QED
    BY <2>2, <2>5 DEF Edited, Turned, Request
<1>10. CASE state = "RunningInit" /\ u = CompleteStart(s, status)
  <2>1. IF status = "OK" THEN Turned(s, u, "Active", "OK", TRUE)
        ELSE Turned(s, u, "Failed", status, c)
    BY <1>4, <1>10, StartAnswers
  <2>2. IF status = "OK" THEN Turned(s0, t, "Active", "OK", TRUE)
        ELSE Turned(s0, t, "Failed", status, c)
    BY <1>3, <1>9, <2>1 DEF Turned
  <2>3. t.req.pend = "No"
    BY <1>7, <1>8, <1>9, <1>10, <2>1 DEF Turned
  <2>4. QED
    BY <1>10, <2>2, <2>3 DEF Answers
<1>11. CASE state = "Running" /\ modify /\ u = CompleteModify(s, status)
  <2>1. IF status \in {"OK", "Temporary"} THEN Turned(s, u, "Active", status, TRUE)
        ELSE Turned(s, u, "Failed", "Completion", c)
    BY <1>4, <1>11, ModifyAnswers
  <2>2. IF status \in {"OK", "Temporary"} THEN Turned(s0, t, "Active", status, TRUE)
        ELSE Turned(s0, t, "Failed", "Completion", c)
    BY <1>3, <1>9, <2>1 DEF Turned
  <2>3. t.req.pend = "No"
    BY <1>7, <1>8, <1>9, <1>11, <2>1 DEF Turned
  <2>4. QED
    BY <1>11, <2>2, <2>3 DEF Answers
<1>12. CASE state = "Running" /\ ~modify /\ u = CompleteRefresh(s, status)
  <2>1. IF status = "OK" THEN Turned(s, u, "Active", s0.req.sig, TRUE)
        ELSE Turned(s, u, "Failed", status, c)
    BY <1>4, <1>12, RefreshAnswers
  <2>2. IF status = "OK" THEN Turned(s0, t, "Active", s0.req.sig, TRUE)
        ELSE Turned(s0, t, "Failed", status, c)
    BY <1>3, <1>9, <2>1 DEF Turned
  <2>3. t.req.pend = "No"
    BY <1>7, <1>8, <1>9, <1>12, <2>1 DEF Turned
  <2>4. QED
    BY <1>12, <2>2, <2>3 DEF Answers
<1>13. CASE waiting /\ u = CompletePendingModify(s, status)
  <2> DEFINE x == IF pend = "ModifyAndRefresh" /\ status # "OK" THEN "Pending" ELSE "Active"
  <2>1. Turned(s, u, x, status, c)
    BY <1>4, <1>5, <1>13, PendingModifyAnswers
  <2>2. Turned(s0, t, x, status, c)
    BY <1>3, <1>9, <2>1 DEF Turned
  <2>3. t.req.pend = IF pend = "ModifyAndRefresh" /\ status # "OK" THEN "Refresh" ELSE "No"
    BY <1>8, <1>9, <1>13, <2>1 DEF Turned
  <2>4. c = s0.req.refresh
    BY <1>3, <1>13
  <2>5. QED
    BY <1>7, <1>13, <2>2, <2>3, <2>4 DEF Answers
<1>14. CASE /\ state \notin {"RunningInit", "Running"} /\ ~waiting
            /\ u = Fail(StopExpiryTimer(s), status)
  <2>1. Turned(s, u, "Failed", status, c)
    BY <1>4, <1>14, OtherAnswers
  <2>2. Turned(s0, t, "Failed", status, c)
    BY <1>3, <1>9, <2>1 DEF Turned
  <2>3. t.req.pend = "No"
    BY <1>8, <1>9, <1>14, <2>1 DEF Turned
  <2>4. QED
    BY <1>7, <1>14, <2>2, <2>3 DEF Answers
<1>15. QED
  BY <1>2, <1>10, <1>11, <1>12, <1>13, <1>14 DEF Answers

LEMMA CompleteAnswers ==
  ASSUME NEW s \in Worlds, NEW status \in Status,
         s.req.state = "Running" => s.req.pend = "No",
         NEW t \in Complete(s, status)
  PROVE  Answers(s, status, t)
<1> DEFINE u == StopExpiryTimer(s)
           v == StopRefreshTimer(u)
<1>1. CASE status = "Disconnected"
  <2>1. Turned(s, u, s.req.state, s.req.sig, s.req.refresh)
    BY Turns
  <2>2. u \in Worlds
    BY <2>1 DEF Turned
  <2>3. Turned(u, v, u.req.state, u.req.sig, FALSE)
    BY <2>2, Turns
  <2>4. v \in Worlds /\ v.req.refresh = FALSE
    BY <2>3 DEF Turned
  <2>5. Turned(v, Fail(v, status), "Failed", status, v.req.refresh)
    BY <2>4, Fails
  <2>6. t = Fail(v, status)
    BY <1>1 DEF Complete
  <2> HIDE DEF u, v
  <2>7. Turned(s, t, "Failed", status, FALSE)
    BY <2>1, <2>3, <2>4, <2>5, <2>6 DEF Turned
  <2>8. QED
    BY <1>1, <2>7 DEF Answers
<1>2. CASE status # "Disconnected"
  BY <1>2, PublicationAnswers DEF Complete
<1>3. QED
  BY <1>1, <1>2

(* A PUBLISH that is sent, and what the server makes of it when it is going *)
(* to accept it.                                                           *)
Puts(s, body, t) ==
  /\ t \in Worlds
  /\ t.sip = s.sip /\ t.app = s.app
  /\ t.pub.iRequest = s.pub.iRequest /\ t.pub.iPublished = s.pub.iPublished
  /\ t.req.type = s.req.type /\ t.req.state = s.req.state /\ t.req.sig = s.req.sig
  /\ t.req.refresh = s.req.refresh /\ t.req.data = s.req.data
  /\ t.req.trans.answer = "OK" =>
       /\ t.req.trans.etag = "Current"
       /\ t.srv = IF body = NoDoc THEN s.srv ELSE body
  /\ "busy" \notin Env => t.req.trans.answer # "Temporary"

LEMMA ServedAnswers ==
  ASSUME NEW s \in Worlds, NEW body \in Bodies, NEW o \in Served(s, body, FALSE)
  PROVE  /\ o.trans.answer = "OK" =>
              /\ o.trans.etag = "Current"
              /\ o.srv = IF body = NoDoc THEN s.srv ELSE body
         /\ "busy" \notin Env => o.trans.answer # "Temporary"
<1> DEFINE doc == IF body = NoDoc THEN s.srv ELSE body
           accepted == Outcome(doc, TRUE, "OK", "Current")
           wrong == Outcome(s.srv, FALSE, "Permanent", "None")
           lost(p) == [p EXCEPT !.trans = [answer |-> "Lost", etag |-> "None"]]
           Good(p) == /\ p.trans.answer = "OK" => p.trans.etag = "Current" /\ p.srv = doc
                      /\ "busy" \notin Env => p.trans.answer # "Temporary"
<1>1. \A p \in Refusals(s) : Good(p)
  BY DEF Refusals, Outcome
<1>2. Good(accepted) /\ Good(wrong)
  BY DEF Outcome
<1>3. Arrivals(s, body, FALSE) \subseteq {accepted, wrong} \cup Refusals(s)
  BY DEF Arrivals
<1>4. \A p \in Arrivals(s, body, FALSE) : Good(p)
  <2> HIDE DEF Good, accepted, wrong
  <2>1. QED
    BY <1>1, <1>2, <1>3
<1>5. ASSUME NEW p \in Arrivals(s, body, FALSE) \cup {Outcome(s.srv, FALSE, "Lost", "None")}
      PROVE  Good(lost(p))
  <2>1. \E d, m, a, e : p = Outcome(d, m, a, e)
    BY DEF Arrivals, Refusals
  <2>2. lost(p).trans = [answer |-> "Lost", etag |-> "None"]
    BY <2>1 DEF Outcome
  <2>3. lost(p).trans.answer = "Lost"
    BY <2>2
  <2> HIDE DEF lost
  <2>4. QED
    BY <2>3
<1>6. \/ o \in Arrivals(s, body, FALSE)
      \/ \E p \in Arrivals(s, body, FALSE) \cup {Outcome(s.srv, FALSE, "Lost", "None")} :
            o = lost(p)
  BY DEF Served
<1>7. Good(o)
  <2> HIDE DEF Good, lost
  <2>1. QED
    BY <1>4, <1>5, <1>6
<1>8. QED
  BY <1>7

LEMMA SentPuts ==
  ASSUME NEW s \in Worlds, NEW body \in Bodies, NEW t \in DoPublish(s, body, FALSE)
  PROVE  Puts(s, body, t) /\ t.req.pend = s.req.pend /\ s.sip = "Active"
<1>0. t \in Sent(s, body, FALSE) /\ s.sip = "Active"
  BY DEF DoPublish
<1>1. PICK o \in Served(s, body, FALSE) :
        t = [s EXCEPT !.srv = o.srv, !.req.trans = o.trans,
                      !.req.etag = IF o.moved THEN Aged(@) ELSE @,
                      !.pub.iETag = IF o.moved THEN Aged(@) ELSE @]
  BY <1>0 DEF Sent
<1>2. t \in Worlds /\ Kept(s, t) /\ SameWait(s, t)
  BY <1>0, SentKeeps DEF Kept
<1>3. s.req \in Request /\ s.pub \in Publisher
  BY DEF Worlds
<1>4. t.srv = o.srv /\ t.req.trans = o.trans
  BY <1>1, <1>3 DEF Worlds, Request
<1>5. t.req.refresh = s.req.refresh /\ t.req.data = s.req.data
  BY <1>1, <1>3 DEF Worlds, Request
<1>6. t.pub.iPublished = s.pub.iPublished
  BY <1>1, <1>3 DEF Worlds, Publisher
<1>7. /\ o.trans.answer = "OK" =>
           /\ o.trans.etag = "Current"
           /\ o.srv = IF body = NoDoc THEN s.srv ELSE body
      /\ "busy" \notin Env => o.trans.answer # "Temporary"
  BY <1>1, ServedAnswers
<1>8. QED
  BY <1>0, <1>2, <1>4, <1>5, <1>6, <1>7 DEF Puts, Kept, SameWait

LEMMA SendPendingPuts ==
  ASSUME NEW s \in Worlds, NEW t \in SendPendingPublish(s)
  PROVE  /\ Puts(s, IF s.req.pend \in Modifies THEN s.req.data ELSE NoDoc, t)
         /\ t.req.pend = "No"
         /\ s.sip = "Active"
<1> DEFINE body == IF s.req.pend \in Modifies THEN s.req.data ELSE NoDoc
<1>1. body \in Bodies
  BY DEF Worlds, Request, Bodies
<1>2. PICK u \in DoPublish(s, body, FALSE) : t = [u EXCEPT !.req.pend = "No"]
  BY DEF SendPendingPublish, Modifies
<1> HIDE DEF body
<1>3. Puts(s, body, u) /\ s.sip = "Active"
  BY <1>1, <1>2, SentPuts
<1>4. u \in Worlds /\ u.req \in Request
  BY <1>3 DEF Puts, Worlds
<1>5. Edited(u, t, [u.req EXCEPT !.pend = "No"])
  BY <1>2, <1>4, Edit DEF Request
<1>6. Puts(s, body, t) /\ t.req.pend = "No"
  BY <1>3, <1>4, <1>5 DEF Puts, Edited, Request
<1>7. QED
  BY <1>3, <1>6 DEF body

-----------------------------------------------------------------------------
(* The refresh timer of a publication the application believes on.         *)

Connected == {"Active", "Suspend"}

(* Nothing is posted, and the refresh timer runs. *)
Steady(s) ==
  /\ s.req.refresh = TRUE
  /\ s.req.state \in {"Active", "Running", "Pending"}
  /\ s.req.state # "Pending" => s.req.pend = "No"
  /\ s.req.state = "Pending" => s.sip = "Suspend"

Starting(s) ==
  /\ s.pub.iRequest = "StartPublish"
  /\ IF s.req.sig = NoSig
       THEN /\ s.req.state \in {"PendingInit", "RunningInit"}
            /\ s.req.state = "PendingInit" => s.req.trans = NoTrans
       ELSE s.req.state \in {"Active", "Failed"}
  /\ s.req.sig # "Disconnected" => s.req.pend = "No"
  /\ s.req.sig = "OK" => s.req.refresh = TRUE /\ s.req.state = "Active"

Started(s) ==
  /\ s.pub.iPublished = TRUE /\ s.pub.iRequest \in {"StartPublish", "PublishModify"}
  /\ s.req.sig = NoSig => Steady(s)

(* A modification is under way, waits for the network, or has been         *)
(* answered; one asked for in a callback is overwritten in the publisher,  *)
(* which then ends the publication when the modification fails.            *)
Modifying(s) ==
  IF s.req.sig = NoSig
    THEN /\ s.req.state = "Active" => s.req.trans = NoTrans
         /\ s.pub.iRequest = "PublishModify" =>
              /\ s.req.type = "PublishModify"
              /\ \/ s.req.state = "Running"
                 \/ s.req.state = "Pending" /\ s.req.pend \in Modifies
    ELSE \/ s.req.sig \in {"Completion", "Disconnected"}
         \/ s.pub.iRequest = "StartPublish" /\ s.req.sig # "OK"
         \/ Steady(s) /\ s.req.state # "Running"

Alive(s) ==
  Live(s) =>
    /\ s.sip \in Connected \/ s.req.sig = "Disconnected"
    /\ s.app.st = "starting" => Starting(s)
    /\ s.app.st \in {"on", "modifying"} => Started(s)
    /\ s.app.st = "modifying" => Modifying(s)

(* A completion: a response, a timer, or the loss of the connection.       *)
LEMMA CompletionStaysAlive ==
  ASSUME NEW w \in Worlds, Alive(w), w.req.sig = NoSig,
         NEW s \in Worlds, s.app = w.app, s.pub = w.pub,
         s.req.state = w.req.state, s.req.type = w.req.type,
         s.req.pend = w.req.pend, s.req.sig = NoSig,
         s.req.trans \in {w.req.trans, NoTrans},
         NEW status \in Status,
         status = "OK" => /\ w.sip = "Active" /\ w.req.trans # NoTrans
                          /\ s.req.trans = NoTrans,
         s.sip = w.sip \/ status = "Disconnected",
         \/ s.req.refresh = w.req.refresh
         \/ w.req.state # "Pending"
         \/ status = "Completion",
         NEW t \in Complete(s, status)
  PROVE  Alive(t)
<1> SUFFICES ASSUME Live(t) PROVE Alive(t)
  BY DEF Alive
<1>1. Kept(s, t)
  BY CompleteCompletes DEF Completed
<1>2. Live(w) /\ t.app = w.app
  BY <1>1 DEF Kept, Live
<1>3. s.req.state = "Running" => s.req.pend = "No"
  BY <1>2 DEF Alive, Live, Starting, Started, Steady
<1>4. Answers(s, status, t)
  BY <1>3, CompleteAnswers
<1>5. w.sip \in Connected
  BY <1>2 DEF Alive, NoSig
<1>6. CASE w.app.st = "starting"
  <2>1. Starting(w)
    BY <1>2, <1>6 DEF Alive
  <2>2. t.sip \in Connected \/ t.req.sig = "Disconnected"
    BY <1>4, <1>5, <2>1 DEF Answers, Turned, Starting
  <2>3. Starting(t)
    BY <1>4, <2>1, NoSigIsNoStatus DEF Answers, Turned, Starting, Status
  <2>4. QED
    BY <1>2, <1>6, <2>2, <2>3 DEF Alive
<1>7. CASE w.app.st \in {"on", "modifying"}
  <2>1. Started(w) /\ Steady(w)
    BY <1>2, <1>7 DEF Alive, Started
  <2>2. t.sip \in Connected \/ t.req.sig = "Disconnected"
    BY <1>4, <1>5, <2>1 DEF Answers, Turned, Steady
  <2>3. Started(t)
    BY <1>4, <2>1, NoSigIsNoStatus DEF Answers, Turned, Started, Steady, Status
  <2>4. CASE w.app.st = "modifying"
    <3>1. Modifying(w)
      BY <1>2, <2>4 DEF Alive
    <3>2. Modifying(t)
      <4>1. t.pub = w.pub /\ t.req.trans = s.req.trans
        BY <1>4, <2>1 DEF Answers, Turned, Steady
      <4>2. CASE w.req.state = "Running"
        BY <1>4, <2>1, <3>1, <4>1, <4>2, NoSigIsNoStatus
           DEF Answers, Turned, Started, Steady, Modifying, Status
      <4>3. CASE w.req.state = "Active"
        BY <1>4, <2>1, <3>1, <4>1, <4>3, NoSigIsNoStatus
           DEF Answers, Turned, Started, Steady, Modifying, Status
      <4>4. CASE w.req.state = "Pending" /\ w.req.pend \in Modifies
        BY <1>4, <2>1, <3>1, <4>1, <4>4, NoSigIsNoStatus
           DEF Answers, Turned, Started, Steady, Modifying, Status
      <4>5. CASE w.req.state = "Pending" /\ w.req.pend \notin Modifies
        BY <1>4, <2>1, <3>1, <4>1, <4>5, NoSigIsNoStatus
           DEF Answers, Turned, Started, Steady, Modifying, Status
      <4>6. QED
        BY <2>1, <4>2, <4>3, <4>4, <4>5 DEF Steady
    <3>3. QED
      BY <1>2, <2>2, <2>3, <2>4, <3>2 DEF Alive
  <2>5. QED
    BY <1>2, <1>7, <2>2, <2>3, <2>4 DEF Alive
<1>8. QED
  BY <1>2, <1>6, <1>7 DEF Live

-----------------------------------------------------------------------------
(* What the calls of the application make of a publication.                *)

(* The PUBLISH that is on its way carries the document doc, and brings the *)
(* current ETag when it has been accepted.                                 *)
Carries(t, doc) ==
  /\ t.req.trans.answer = "OK" => t.req.trans.etag = "Current" /\ t.srv = doc
  /\ "busy" \notin Env => t.req.trans.answer # "Temporary"

LEMMA PutsCarries ==
  ASSUME NEW s \in Worlds, NEW body \in Docs, NEW t, Puts(s, body, t)
  PROVE  Carries(t, body)
BY ConstantsAssumption DEF Puts, Carries

(* A publication that has just been started. *)
Begun(s, doc, t) ==
  /\ t \in Worlds /\ t.sip = s.sip
  /\ t.app.st = "starting" /\ t.app.doc = doc /\ t.app.dropped = FALSE
  /\ t.pub.iRequest = "StartPublish" /\ t.req.type = "StartPublish"
  /\ t.req.method = "Unknown"
  /\ t.req.sig = NoSig /\ t.req.pend = "No"
  /\ \/ t.req.state = "RunningInit" /\ t.sip = "Active" /\ Carries(t, doc)
     \/ /\ t.req.state = "PendingInit" /\ t.sip = "Suspend" /\ t.req.trans = NoTrans
        /\ "lateStart" \in Env

LEMMA StartPublishBegins ==
  ASSUME NEW s \in AllWorlds, NEW doc \in Docs, NEW auto \in BOOLEAN, NEW etag \in Tag,
         NEW t \in StartPublish(s, doc, auto, etag)
  PROVE  Begun(s, doc, t) /\ t.req.auto = auto
<1> DEFINE r(state) == NewRequest("StartPublish", state, auto, etag, doc)
           p == [s.pub EXCEPT !.iRequest = "StartPublish", !.found = TRUE]
           a == [st |-> "starting", doc |-> doc, sure |-> FALSE,
                 dropped |-> "starting" # "starting" /\ s.app.dropped]
           new(state) == [Asks(s, "starting", doc) EXCEPT
                            !.pub.iRequest = "StartPublish", !.pub.found = TRUE,
                            !.req = NewRequest("StartPublish", state, auto, etag, doc)]
<1>1. \/ \E u \in DoPublish(new("RunningInit"), doc, FALSE) : t = StartRefreshTimer(u)
      \/ t = new("PendingInit") /\ s.sip = "Suspend" /\ "lateStart" \in Env
  BY DEF StartPublish
<1>2. ASSUME NEW state \in {"RunningInit", "PendingInit"}
      PROVE  /\ new(state) \in Worlds /\ new(state).sip = s.sip
             /\ new(state).app.st = "starting" /\ new(state).app.doc = doc
             /\ new(state).app.dropped = FALSE
             /\ new(state).req.method = "Unknown" /\ new(state).req.auto = auto
             /\ new(state).pub.iRequest = "StartPublish"
             /\ new(state).req.type = "StartPublish"
             /\ new(state).req.sig = NoSig /\ new(state).req.pend = "No"
             /\ new(state).req.state = state /\ new(state).req.trans = NoTrans
  <2>1. /\ r(state) \in Request /\ r(state).state = state /\ r(state).type = "StartPublish"
        /\ r(state).method = "Unknown" /\ r(state).auto = auto
        /\ r(state).sig = NoSig /\ r(state).pend = "No" /\ r(state).trans = NoTrans
    <3>1. state \in ReqState /\ doc \in Bodies
      BY DEF Bodies, ReqState
    <3>2. r(state) \in Request
      BY <3>1, NewRequestType
    <3>3. QED
      BY <3>2 DEF NewRequest
  <2>2. p \in Publisher /\ p.iRequest = "StartPublish"
    BY DEF AllWorlds, Publisher
  <2>3. a \in AppState /\ Asks(s, "starting", doc) = [s EXCEPT !.app = a]
    BY AskedType DEF Waiting, Bodies
  <2>4. new(state) = [s EXCEPT !.app = a, !.pub = p, !.req = r(state)]
    BY <2>3 DEF AllWorlds
  <2>5. a.st = "starting" /\ a.doc = doc /\ a.dropped = FALSE
    OBVIOUS
  <2> HIDE DEF new, a, p, r
  <2>6. IsRenewed(s, [s EXCEPT !.app = a, !.pub = p, !.req = r(state)], a, p, r(state))
    BY <2>1, <2>2, <2>3, Renewed
  <2>7. IsRenewed(s, new(state), a, p, r(state))
    BY <2>4, <2>6
  <2>8. QED
    BY <2>1, <2>2, <2>5, <2>7 DEF IsRenewed
<1> HIDE DEF new
<1>3. CASE t = new("PendingInit") /\ s.sip = "Suspend" /\ "lateStart" \in Env
  BY <1>2, <1>3 DEF Begun
<1>4. ASSUME NEW u \in DoPublish(new("RunningInit"), doc, FALSE), t = StartRefreshTimer(u)
      PROVE  Begun(s, doc, t) /\ t.req.auto = auto
  <2>1. /\ Puts(new("RunningInit"), doc, u) /\ u.req.pend = "No"
        /\ new("RunningInit").sip = "Active" /\ SameWait(new("RunningInit"), u)
    BY <1>2, SentPuts, PublishKeeps DEF Bodies
  <2>2. Carries(u, doc)
    BY <1>2, <2>1, PutsCarries
  <2>3. /\ Turned(u, t, u.req.state, u.req.sig, TRUE)
        /\ Carried(u, t) /\ SameWait(u, t)
    BY <1>4, <2>1, Turns, RefreshTimerDoes DEF Puts
  <2>4. t.req.method = "Unknown" /\ t.req.auto = auto /\ t.req.pend = "No"
    BY <1>2, <2>1, <2>3 DEF SameWait
  <2>5. t.app = new("RunningInit").app /\ t.req.type = new("RunningInit").req.type
    BY <2>1, <2>3 DEF Puts, Turned
  <2>6. QED
    BY <1>2, <2>1, <2>2, <2>3, <2>4, <2>5 DEF Begun, Puts, Turned, Carries
<1>5. QED
  BY <1>1, <1>3, <1>4

(* A modification that has just been asked for, when no PUBLISH was under  *)
(* way.                                                                    *)
Changed(s, doc, t) ==
  /\ t \in Worlds /\ t.sip = s.sip
  /\ t.app.st = "modifying" /\ t.app.doc = doc /\ t.app.dropped = s.app.dropped
  /\ t.pub.iRequest = "PublishModify" /\ t.pub.iPublished = s.pub.iPublished
  /\ t.req.type = "PublishModify" /\ t.req.sig = s.req.sig
  /\ t.req.refresh = s.req.refresh
  /\ t.req.method = s.req.method /\ t.req.auto = s.req.auto
  /\ \/ /\ s.sip = "Active" /\ t.req.state = "Running" /\ t.req.pend = s.req.pend
        /\ Carries(t, doc)
     \/ /\ s.sip = "Suspend" /\ t.req.state = "Pending"
        /\ t.req.pend = AddPendingModify(s.req.pend) /\ t.req.data = doc
        /\ t.req.trans = s.req.trans /\ t.req.etag = s.req.etag

LEMMA ModifyAsks ==
  ASSUME NEW s \in Worlds, NEW doc \in Docs
  PROVE  LET t == [Asks(s, "modifying", doc) EXCEPT
                     !.req.expiry = TRUE, !.pub.iRequest = "PublishModify"]
         IN /\ t \in Worlds /\ t.sip = s.sip /\ t.srv = s.srv
            /\ t.app.st = "modifying" /\ t.app.doc = doc
            /\ t.app.dropped = s.app.dropped
            /\ t.pub.iRequest = "PublishModify" /\ t.pub.iPublished = s.pub.iPublished
            /\ t.req = [s.req EXCEPT !.expiry = TRUE]
<1> DEFINE t == [Asks(s, "modifying", doc) EXCEPT
                   !.req.expiry = TRUE, !.pub.iRequest = "PublishModify"]
           a == [st |-> "modifying", doc |-> doc, sure |-> FALSE,
                 dropped |-> "modifying" # "starting" /\ s.app.dropped]
           p == [s.pub EXCEPT !.iRequest = "PublishModify"]
           r == [s.req EXCEPT !.expiry = TRUE]
<1>1. a \in AppState /\ Asks(s, "modifying", doc) = [s EXCEPT !.app = a]
  BY AskedType, WorldsAreAll DEF Waiting, Bodies
<1>2. p \in Publisher /\ p.iRequest = "PublishModify" /\ p.iPublished = s.pub.iPublished
  BY DEF Worlds, Publisher
<1>3. r \in Request
  BY DEF Worlds, Request
<1>4. t = [s EXCEPT !.app = a, !.pub = p, !.req = r]
  BY <1>1 DEF Worlds
<1>5. a.st = "modifying" /\ a.doc = doc /\ a.dropped = s.app.dropped
  BY DEF Worlds, AppState
<1>6. t.srv = s.srv
  BY <1>4 DEF Worlds
<1> HIDE DEF a, p, r, t
<1>7. IsRenewed(s, t, a, p, r)
  BY <1>1, <1>2, <1>3, <1>4, Renewed, WorldsAreAll
<1>8. QED
  BY <1>2, <1>5, <1>6, <1>7 DEF IsRenewed, r, t

LEMMA ModifyPublishChanges ==
  ASSUME NEW s \in Worlds, NEW doc \in Docs, NEW t \in ModifyPublish(s, doc),
         s.req.state # "Running"
  PROVE  Changed(s, doc, t) /\ s.req.state \in {"Active", "Pending"}
<1> DEFINE typed == [s EXCEPT !.req.type = "PublishModify"]
           running == [SetReqState(typed, "Running") EXCEPT !.req.data = doc]
           queued == [typed EXCEPT !.req.data = doc, !.req.pend = AddPendingModify(@)]
           asked(u) == [Asks(u, "modifying", doc) EXCEPT
                          !.req.expiry = TRUE, !.pub.iRequest = "PublishModify"]
           pending == SetReqState(queued, "Pending")
<1>1. /\ s.req.state \in {"Active", "Pending"}
      /\ \/ s.sip = "Active" /\ \E u \in DoPublish(running, doc, FALSE) : t = asked(u)
         \/ s.sip = "Suspend" /\ t = asked(pending)
  BY DEF ModifyPublish, Modifiable
<1>2. /\ typed \in Worlds /\ typed.sip = s.sip /\ typed.app = s.app
      /\ typed.pub = s.pub /\ typed.srv = s.srv
      /\ typed.req = [s.req EXCEPT !.type = "PublishModify"]
      /\ typed.req \in Request
  BY DEF Worlds, Request
<1>3. s.req \in Request /\ doc \in Bodies
  BY DEF Worlds, Bodies
<1>4. /\ running \in Worlds /\ running.sip = s.sip /\ running.app = s.app
      /\ running.pub = s.pub /\ running.req.type = "PublishModify"
      /\ running.req.state = "Running" /\ running.req.pend = s.req.pend
      /\ running.req.sig = s.req.sig /\ running.req.refresh = s.req.refresh
      /\ running.req.method = s.req.method /\ running.req.auto = s.req.auto
  <2> DEFINE u == SetReqState(typed, "Running")
  <2>1. Edited(typed, u, [typed.req EXCEPT !.state = "Running"])
    <3> HIDE DEF typed
    <3>1. QED
      BY <1>2, Fields DEF ReqState
  <2>2. u \in Worlds /\ u.req \in Request
    BY <2>1 DEF Edited, Worlds
  <2> HIDE DEF u, typed
  <2>3. [u.req EXCEPT !.data = doc] \in Request
    BY <1>3, <2>2 DEF Request, Bodies
  <2>4. Edited(u, running, [u.req EXCEPT !.data = doc])
    BY <2>2, <2>3, Edit DEF running, u
  <2> HIDE DEF running
  <2>5. QED
    BY <1>2, <1>3, <2>1, <2>2, <2>4 DEF Edited, Request
<1>5. /\ pending \in Worlds /\ pending.sip = s.sip /\ pending.app = s.app
      /\ pending.pub = s.pub /\ pending.req.type = "PublishModify"
      /\ pending.req.state = "Pending" /\ pending.req.pend = AddPendingModify(s.req.pend)
      /\ pending.req.sig = s.req.sig /\ pending.req.refresh = s.req.refresh
      /\ pending.req.method = s.req.method /\ pending.req.auto = s.req.auto
      /\ pending.req.data = doc /\ pending.req.trans = s.req.trans
      /\ pending.req.etag = s.req.etag
  <2> DEFINE q == [typed.req EXCEPT !.data = doc, !.pend = AddPendingModify(s.req.pend)]
  <2>1. AddPendingModify(s.req.pend) \in {"No", "Modify", "Refresh", "ModifyAndRefresh"}
    BY <1>3 DEF AddPendingModify, Request
  <2>2. typed.req.pend = s.req.pend
    BY <1>2, <1>3 DEF Request
  <2>3. queued = [typed EXCEPT !.req = q]
    <3> HIDE DEF typed
    <3>1. QED
      BY <1>2, <2>2 DEF Worlds, Request
  <2> HIDE DEF typed
  <2>4. q \in Request
    BY <1>2, <1>3, <2>1 DEF Request, Bodies
  <2>5. /\ q.data = doc /\ q.pend = AddPendingModify(s.req.pend)
        /\ q.type = "PublishModify" /\ q.sig = s.req.sig /\ q.refresh = s.req.refresh
        /\ q.trans = s.req.trans /\ q.etag = s.req.etag
        /\ q.method = s.req.method /\ q.auto = s.req.auto
    BY <1>2, <1>3 DEF Request
  <2> HIDE DEF q
  <2>6. Edited(typed, queued, q)
    BY <1>2, <2>3, <2>4, Edit
  <2>7. Edited(queued, pending, [queued.req EXCEPT !.state = "Pending"])
    <3>1. queued \in Worlds
      BY <2>6 DEF Edited
    <3> HIDE DEF queued
    <3>2. QED
      BY <3>1, Fields DEF ReqState
  <2> HIDE DEF queued, pending
  <2>8. QED
    BY <1>2, <2>4, <2>5, <2>6, <2>7 DEF Edited, Request
<1>6. ASSUME NEW u \in Worlds, t = asked(u),
             u.sip = s.sip, u.app = s.app,
             u.pub.iPublished = s.pub.iPublished, u.req.type = "PublishModify",
             u.req.sig = s.req.sig, u.req.refresh = s.req.refresh,
             u.req.method = s.req.method, u.req.auto = s.req.auto,
             \/ /\ s.sip = "Active" /\ u.req.state = "Running" /\ u.req.pend = s.req.pend
                /\ Carries(u, doc)
             \/ /\ s.sip = "Suspend" /\ u.req.state = "Pending"
                /\ u.req.pend = AddPendingModify(s.req.pend) /\ u.req.data = doc
                /\ u.req.trans = s.req.trans /\ u.req.etag = s.req.etag
      PROVE  Changed(s, doc, t)
  <2>1. /\ t \in Worlds /\ t.sip = u.sip /\ t.srv = u.srv
        /\ t.app.st = "modifying" /\ t.app.doc = doc
        /\ t.app.dropped = u.app.dropped
        /\ t.pub.iRequest = "PublishModify" /\ t.pub.iPublished = u.pub.iPublished
        /\ t.req = [u.req EXCEPT !.expiry = TRUE]
    BY <1>6, ModifyAsks
  <2>2. u.req \in Request
    BY <1>6 DEF Worlds
  <2> HIDE DEF asked
  <2>3. /\ t.req.type = u.req.type /\ t.req.sig = u.req.sig
        /\ t.req.refresh = u.req.refresh /\ t.req.state = u.req.state
        /\ t.req.pend = u.req.pend /\ t.req.data = u.req.data
        /\ t.req.trans = u.req.trans /\ t.req.etag = u.req.etag
        /\ t.req.method = u.req.method /\ t.req.auto = u.req.auto
    BY <2>1, <2>2 DEF Request
  <2>4. QED
    BY <1>6, <2>1, <2>3 DEF Changed, Carries
<1> HIDE DEF typed, running, queued, pending, asked
<1>7. ASSUME s.sip = "Active", NEW u \in DoPublish(running, doc, FALSE), t = asked(u)
      PROVE  Changed(s, doc, t)
  <2>1. Puts(running, doc, u) /\ u.req.pend = running.req.pend
    BY <1>3, <1>4, SentPuts
  <2>2. Carries(u, doc)
    BY <1>4, <2>1, PutsCarries
  <2>3. SameWait(running, u)
    BY <1>3, <1>4, <1>7, PublishKeeps
  <2>4. QED
    BY <1>4, <1>6, <1>7, <2>1, <2>2, <2>3 DEF Puts, SameWait
<1>8. CASE s.sip = "Suspend" /\ t = asked(pending)
  BY <1>1, <1>5, <1>6, <1>8
<1>9. QED
  BY <1>1, <1>7, <1>8

(* A call that leaves. *)
Leaves(s, t) ==
  /\ t \in Worlds /\ t.sip = s.sip /\ t.app = s.app /\ t.srv = s.srv
  /\ t.pub.iRequest = s.pub.iRequest /\ t.pub.iPublished = s.pub.iPublished
  /\ t.req.sig = s.req.sig /\ t.req.refresh = s.req.refresh /\ t.req.pend = s.req.pend
  /\ t.req.trans = s.req.trans /\ t.req.etag = s.req.etag
  /\ t.req.method = s.req.method /\ t.req.auto = s.req.auto
  /\ t.req.type \in {s.req.type, "PublishModify"}
  /\ \/ t.req.state = s.req.state /\ t.req.data = s.req.data
     \/ /\ s.sip = "Active" /\ s.req.state \in {"Active", "Pending"}
        /\ t.req.state = "Running" /\ t.req.type = "PublishModify"

LEMMA CallLeaves ==
  ASSUME NEW s \in Worlds, NEW doc \in Docs,
         NEW t \in ModifyPublishLeaves(s, doc) \cup StartPublishLeaves(s)
  PROVE  Leaves(s, t)
<1> DEFINE typed == [s EXCEPT !.req.type = "PublishModify"]
           r == [s.req EXCEPT !.type = "PublishModify"]
           u == SetReqState(typed, "Running")
           running == [u EXCEPT !.req.data = doc]
           hidden == [s EXCEPT !.pub.found = FALSE]
<1>1. \/ t = typed
      \/ /\ s.sip = "Active" /\ s.req.state \in {"Active", "Pending"}
         /\ t = running
      \/ t = hidden
  BY DEF ModifyPublishLeaves, StartPublishLeaves, Modifiable
<1>2. s.req \in Request /\ s.pub \in Publisher /\ doc \in Bodies
  BY DEF Worlds, Bodies
<1>3. r \in Request
  BY <1>2 DEF Request
<1>4. typed = [s EXCEPT !.req = r]
  BY DEF Worlds
<1>5. Edited(s, typed, r)
  BY <1>3, <1>4, Edit
<1> HIDE DEF typed
<1>6. Edited(typed, u, [typed.req EXCEPT !.state = "Running"])
  BY <1>5, Fields DEF Edited, ReqState
<1>7. u \in Worlds /\ u.req \in Request
  BY <1>6 DEF Edited, Worlds
<1> HIDE DEF u
<1>8. [u.req EXCEPT !.data = doc] \in Request
  BY <1>2, <1>7 DEF Request, Bodies
<1>9. Edited(u, running, [u.req EXCEPT !.data = doc])
  BY <1>7, <1>8, Edit
<1>10. hidden \in Worlds /\ hidden.sip = s.sip /\ hidden.app = s.app /\ hidden.srv = s.srv
       /\ hidden.req = s.req
       /\ hidden.pub.iRequest = s.pub.iRequest /\ hidden.pub.iPublished = s.pub.iPublished
  BY <1>2 DEF Worlds, Publisher
<1> HIDE DEF running, hidden
<1>11. CASE t = typed
  BY <1>2, <1>5, <1>11 DEF Edited, Leaves, Request
<1>12. CASE /\ s.sip = "Active" /\ s.req.state \in {"Active", "Pending"}
            /\ t = running
  <2>1. /\ typed.req.sig = s.req.sig /\ typed.req.refresh = s.req.refresh
        /\ typed.req.pend = s.req.pend /\ typed.req.trans = s.req.trans
        /\ typed.req.etag = s.req.etag /\ typed.req.type = "PublishModify"
        /\ typed.req.method = s.req.method /\ typed.req.auto = s.req.auto
        /\ typed.req \in Request
    BY <1>2, <1>3, <1>5 DEF Edited, Request
  <2>2. /\ u.req.sig = s.req.sig /\ u.req.refresh = s.req.refresh
        /\ u.req.pend = s.req.pend /\ u.req.trans = s.req.trans
        /\ u.req.etag = s.req.etag /\ u.req.type = "PublishModify"
        /\ u.req.method = s.req.method /\ u.req.auto = s.req.auto
        /\ u.req.state = "Running"
    BY <1>6, <2>1 DEF Edited, Request
  <2>3. /\ running.req.sig = s.req.sig /\ running.req.refresh = s.req.refresh
        /\ running.req.pend = s.req.pend /\ running.req.trans = s.req.trans
        /\ running.req.etag = s.req.etag /\ running.req.type = "PublishModify"
        /\ running.req.method = s.req.method /\ running.req.auto = s.req.auto
        /\ running.req.state = "Running"
    BY <1>7, <1>9, <2>2 DEF Edited, Request
  <2>4. QED
    BY <1>5, <1>6, <1>9, <1>12, <2>3 DEF Edited, Leaves
<1>13. CASE t = hidden
  BY <1>10, <1>13 DEF Leaves
<1>14. QED
  BY <1>1, <1>11, <1>12, <1>13

(* A completion that is told to the application: w is the publication when *)
(* it is told, before the callback.                                        *)
Told(s, w) ==
  /\ w \in Worlds /\ w.sip = s.sip /\ w.srv = s.srv
  /\ w.app = PublishReqComplete(s.app, s.req.sig)
  /\ w.pub.iRequest = s.pub.iRequest
  /\ w.pub.iPublished <=> s.pub.iPublished \/ (s.pub.iRequest = "StartPublish"
                                              /\ s.req.sig = "OK")
  /\ w.req.type = s.req.type /\ w.req.auto = s.req.auto
  /\ w.req.sig = NoSig /\ w.req.state = s.req.state /\ w.req.refresh = s.req.refresh
  /\ w.req.pend = s.req.pend /\ w.req.data = s.req.data
  /\ w.req.trans = s.req.trans /\ w.req.etag = s.req.etag

(* The publication goes on after the callback, which left it in u. *)
GoesOn(s, u, t) ==
  /\ t \in Worlds /\ t.sip = u.sip /\ t.srv = u.srv /\ t.app = u.app
  /\ t.pub.iPublished = u.pub.iPublished
  /\ t.req.sig = u.req.sig /\ t.req.state = u.req.state /\ t.req.refresh = u.req.refresh
  /\ t.req.pend = u.req.pend /\ t.req.data = u.req.data
  /\ t.req.trans = u.req.trans /\ t.req.etag = u.req.etag
  /\ t.req.auto = u.req.auto /\ t.req.method = "Unknown"
  /\ s.req.sig \notin {"Completion", "Disconnected"}
  /\ \/ s.pub.iRequest = "StartPublish" /\ s.req.sig = "OK"
        /\ t.pub.iRequest = u.pub.iRequest /\ t.req.type = u.req.type
     \/ s.pub.iRequest = "PublishModify"
        /\ t.pub.iRequest = "StartPublish" /\ t.req.type = "StartPublish"

(* The request is deleted after a callback that did not tell the end. *)
Removed(s, u, t) ==
  /\ t.app = u.app
  /\ \/ s.pub.iRequest = "StopPublish"
     \/ s.pub.iRequest = "StartPublish" /\ s.req.sig # "OK" /\ ~s.pub.iPublished

(* The request is deleted and the end is told: in place of the completion  *)
(* of a publication that had been told published, else after it.           *)
Finished(s, t) ==
  /\ t.req = NoReq
  /\ LET lost == /\ s.pub.iRequest = "StartPublish" /\ s.pub.iPublished
                 /\ s.req.sig # "OK"
     IN \/ lost /\ t.app = PublishTerminated(s.app)
        \/ ~lost /\ \E w : Told(s, w) /\ \E u \in Callback(w) :
                                            t.app = PublishTerminated(u.app)

LEMMA CompletionIsTold ==
  ASSUME NEW s, InUse(s), s.req.sig \in Status, NEW t \in Deliver(s)
  PROVE  \/ Finished(s, t) /\ ~Live(t)
         \/ t.req = NoReq /\ \E w : Told(s, w) /\ \E u \in Callback(w) : Removed(s, u, t)
         \/ s.req.method = "StatusETag" /\ t.app.dropped
         \/ \E w : Told(s, w) /\ \E u \in Callback(w) : GoesOn(s, u, t)
<1> DEFINE v == [s EXCEPT !.req.sig = NoSig, !.pub.iETag = s.req.etag]
           status == s.req.sig
           orig == s.pub.iRequest
           start == orig = "StartPublish"
           lost == start /\ s.pub.iPublished /\ status # "OK"
           terminated == lost \/ status \in {"Completion", "Disconnected"}
           published == [v EXCEPT !.pub.iPublished = @ \/ (start /\ status = "OK")]
           answered == [published EXCEPT !.app = PublishReqComplete(@, status)]
           ended(u) == [Destroy(u) EXCEPT !.app = PublishTerminated(@)]
           back(u) == [u EXCEPT !.pub.iRequest = "StartPublish",
                                !.req.type = "StartPublish", !.req.method = "Unknown"]
           plain(u) == [u EXCEPT !.req.method = "Unknown"]
           flagged == [v EXCEPT !.req.method = "Unknown", !.app.dropped = TRUE]
<1>1. s \in Worlds /\ s.req \in Request /\ s.pub \in Publisher /\ s.app \in AppState
      /\ orig # "None"
  BY DEF InUse, Worlds
<1>2. /\ v \in Worlds /\ v.sip = s.sip /\ v.srv = s.srv /\ v.app = s.app
      /\ v.pub.iRequest = orig /\ v.pub.iPublished = s.pub.iPublished
      /\ v.req = [s.req EXCEPT !.sig = NoSig]
  BY <1>1 DEF Worlds, Request, Publisher
<1>3. \/ s.req.method = "StatusETag" /\ t = flagged
      \/ t \in PublisherComplete(v, status)
  BY DEF Deliver
<1> HIDE DEF v
<1>4. v.req \in Request /\ v.pub \in Publisher /\ v.app \in AppState
  BY <1>2 DEF Worlds
<1>5. CASE s.req.method = "StatusETag" /\ t = flagged
  <2>1. t.app.dropped
    BY <1>2, <1>4, <1>5 DEF Worlds, AppState
  <2>2. QED
    BY <1>5, <2>1
<1>6. CASE t \in PublisherComplete(v, status)
  <2>1. PICK u : /\ \/ lost /\ u = published
                    \/ ~lost /\ u \in Callback(answered)
                 /\ \/ terminated /\ t = ended(u)
                    \/ /\ ~terminated
                       /\ (orig = "StopPublish" \/ (start /\ status # "OK")) /\ t = Destroy(u)
                    \/ /\ ~terminated /\ ~(orig = "StopPublish" \/ (start /\ status # "OK"))
                       /\ orig = "PublishModify" /\ t = back(u)
                    \/ /\ ~terminated /\ ~(orig = "StopPublish" \/ (start /\ status # "OK"))
                       /\ orig # "PublishModify" /\ t = plain(u)
    BY <1>2, <1>6 DEF PublisherComplete, Destroyed
  <2>2. /\ published \in Worlds /\ published.sip = s.sip /\ published.srv = s.srv
        /\ published.app = s.app /\ published.pub.iRequest = orig
        /\ published.pub.iPublished <=> s.pub.iPublished \/ (start /\ status = "OK")
        /\ published.req = v.req
    <3> DEFINE flag == v.pub.iPublished \/ (start /\ status = "OK")
    <3>1. flag \in BOOLEAN /\ published = [v EXCEPT !.pub.iPublished = flag]
      OBVIOUS
    <3>2. flag <=> s.pub.iPublished \/ (start /\ status = "OK")
      BY <1>2
    <3> HIDE DEF flag, published
    <3>3. QED
      BY <1>2, <1>4, <3>1, <3>2 DEF Worlds, Publisher
  <2>3. Told(s, answered)
    <3> HIDE DEF published
    <3>1. PublishReqComplete(published.app, status) \in AppState
      BY <1>1, <2>2, PublishReqCompleteType
    <3>2. /\ answered \in Worlds /\ answered.sip = s.sip /\ answered.srv = s.srv
          /\ answered.app = PublishReqComplete(s.app, status)
          /\ answered.pub = published.pub /\ answered.req = v.req
      BY <2>2, <3>1 DEF Worlds
    <3> HIDE DEF answered
    <3>3. QED
      BY <1>1, <1>2, <2>2, <3>2 DEF Told, Request
  <2>4. InUse(u)
    <3> HIDE DEF published, answered, lost
    <3>1. InUse(published) /\ InUse(answered)
      BY <1>1, <2>2, <2>3 DEF InUse, Told
    <3>2. QED
      BY <2>1, <3>1, CallbackKeeps
  <2>5. u \in Worlds /\ u.req \in Request /\ u.pub \in Publisher
    BY <2>4 DEF InUse, Worlds
  <2>6. /\ ended(u).req = NoReq /\ ~Live(ended(u)) /\ ended(u).app = PublishTerminated(u.app)
        /\ Destroy(u).req = NoReq /\ Destroy(u).app = u.app
    <3>1. /\ Destroy(u).req = NoReq /\ Destroy(u).app = u.app /\ u.app \in AppState
          /\ Destroy(u) \in AllWorlds
      BY <2>5, DestroyIdles DEF Idle, Worlds
    <3>2. ended(u).req = NoReq /\ ended(u).app = PublishTerminated(u.app)
      BY <3>1 DEF AllWorlds
    <3>3. PublishTerminated(u.app).st \in {"off", "spurious"}
      BY <3>1 DEF PublishTerminated, AppState
    <3> HIDE DEF ended
    <3>4. QED
      BY <3>1, <3>2, <3>3 DEF Live
  <2>7. /\ back(u) \in Worlds /\ back(u).sip = u.sip /\ back(u).srv = u.srv
        /\ back(u).app = u.app
        /\ back(u).pub = [u.pub EXCEPT !.iRequest = "StartPublish"]
        /\ back(u).req = [u.req EXCEPT !.type = "StartPublish", !.method = "Unknown"]
    BY <2>5 DEF Worlds, Request, Publisher
  <2>8. /\ plain(u) \in Worlds /\ plain(u).sip = u.sip /\ plain(u).srv = u.srv
        /\ plain(u).app = u.app /\ plain(u).pub = u.pub
        /\ plain(u).req = [u.req EXCEPT !.method = "Unknown"]
    BY <2>5 DEF Worlds, Request
  <2>9. lost => terminated
    OBVIOUS
  <2>10. ~terminated => status \notin {"Completion", "Disconnected"}
    OBVIOUS
  <2> HIDE DEF published, answered, lost, terminated, ended, back, plain
  <2>11. CASE t = ended(u)
    <3>1. CASE lost /\ u = published
      BY <2>2, <2>6, <2>11, <3>1 DEF lost, Finished
    <3>2. CASE ~lost /\ u \in Callback(answered)
      BY <2>3, <2>6, <2>11, <3>2 DEF lost, Finished
    <3>3. QED
      BY <2>1, <3>1, <3>2
  <2>15. CASE /\ ~terminated /\ t = Destroy(u)
              /\ orig = "StopPublish" \/ (start /\ status # "OK")
    <3>1. u \in Callback(answered)
      BY <2>1, <2>9, <2>15
    <3>2. start /\ status # "OK" => ~s.pub.iPublished
      BY <2>15 DEF terminated, lost
    <3>3. Removed(s, u, t)
      BY <2>6, <2>15, <3>2 DEF Removed
    <3>4. QED
      BY <2>3, <2>6, <2>15, <3>1, <3>3
  <2>12. CASE ~terminated /\ orig = "PublishModify" /\ t = back(u)
    <3>1. u \in Callback(answered)
      BY <2>1, <2>9, <2>12
    <3>2. GoesOn(s, u, t)
      BY <2>5, <2>7, <2>10, <2>12 DEF GoesOn, Request, Publisher
    <3>3. QED
      BY <2>3, <3>1, <3>2
  <2>13. CASE ~terminated /\ start /\ status = "OK" /\ t = plain(u)
    <3>1. u \in Callback(answered)
      BY <2>1, <2>9, <2>13
    <3>2. GoesOn(s, u, t)
      BY <2>5, <2>8, <2>10, <2>13 DEF GoesOn, Request
    <3>3. QED
      BY <2>3, <3>1, <3>2
  <2>14. QED
    BY <1>1, <2>1, <2>11, <2>12, <2>13, <2>15 DEF Publisher
<1>7. QED
  BY <1>3, <1>5, <1>6

-----------------------------------------------------------------------------
(* What the refresh timer and the network make of a publication.           *)

(* A PUBLISH for what waits: the document of a modification, or none.      *)
Resent(s, state, refresh, t) ==
  /\ t \in Worlds /\ t.sip = s.sip /\ t.app = s.app
  /\ t.pub.iRequest = s.pub.iRequest /\ t.pub.iPublished = s.pub.iPublished
  /\ t.req.type = s.req.type /\ t.req.sig = s.req.sig /\ t.req.pend = "No"
  /\ t.req.state = state /\ t.req.refresh = refresh
  /\ t.req.trans.answer = "OK" =>
       /\ t.req.trans.etag = "Current"
       /\ t.srv = IF s.req.pend \in Modifies /\ s.req.data # NoDoc THEN s.req.data
                                                                  ELSE s.srv
  /\ "busy" \notin Env => t.req.trans.answer # "Temporary"

LEMMA SetAndSend ==
  ASSUME NEW s \in Worlds, NEW state \in ReqState,
         NEW t \in SendPendingPublish(SetReqState(s, state))
  PROVE  Resent(s, state, s.req.refresh, t) /\ s.sip = "Active"
<1> DEFINE u == SetReqState(s, state)
<1>1. Edited(s, u, [s.req EXCEPT !.state = state])
  BY Fields
<1>2. u \in Worlds /\ u.sip = s.sip
  BY <1>1 DEF Edited
<1>3. /\ u.req.data = s.req.data /\ u.req.pend = s.req.pend /\ u.req.type = s.req.type
      /\ u.req.sig = s.req.sig /\ u.req.refresh = s.req.refresh /\ u.req.state = state
  BY <1>1 DEF Edited, Worlds, Request
<1> HIDE DEF u
<1>4. /\ Puts(u, IF u.req.pend \in Modifies THEN u.req.data ELSE NoDoc, t)
      /\ t.req.pend = "No" /\ u.sip = "Active"
  BY <1>2, SendPendingPuts DEF u
<1>5. QED
  BY <1>1, <1>2, <1>3, <1>4 DEF Edited, Puts, Resent

Refreshed(s, t) ==
  \/ t \in Complete(s, "TimedOut") /\ s.req.state \in {"RunningInit", "Active"}
  \/ t \in Complete(s, "Completion")
  \/ t = s /\ s.sip \notin Connected
  \/ /\ s.sip = "Suspend" /\ s.req.state \in {"Active", "Pending"}
     /\ Turned(s, t, "Pending", s.req.sig, TRUE)
     /\ t.req.pend = AddPendingRefresh(s.req.pend) /\ t.req.data = s.req.data
  \/ /\ s.sip = "Active" /\ s.req.state \in {"Active", "Pending"}
     /\ Resent(s, "Running", TRUE, t)
  \/ /\ s.sip = "Active" /\ s.req.state \in {"Active", "Pending"}
     /\ "sendFails" \in Env /\ t \in Complete(SetReqState(s, "Running"), "NotReady")

LEMMA RefreshRefreshes ==
  ASSUME NEW s \in Worlds, NEW t \in RefreshPublish(s)
  PROVE  Refreshed(s, t)
<1> DEFINE running == SetReqState(s, "Running")
           pending == SetReqState(s, "Pending")
           timed == StartRefreshTimer(pending)
           r == [timed.req EXCEPT !.pend = AddPendingRefresh(@)]
           waiting == [timed EXCEPT !.req.pend = AddPendingRefresh(@)]
<1>1. \/ t \in Complete(s, "TimedOut") /\ s.req.state \in {"RunningInit", "Active"}
      \/ t \in Complete(s, "Completion")
      \/ t = s /\ s.sip \notin Connected
      \/ /\ s.req.state \in {"Active", "Pending"} /\ s.sip \in Connected
         /\ \/ t = waiting /\ s.sip = "Suspend"
            \/ s.sip # "Suspend" /\ \E u \in SendPendingPublish(running) : t = StartRefreshTimer(u)
            \/ s.sip # "Suspend" /\ t \in IfNotSent(running, Complete(running, "NotReady"))
  BY DEF RefreshPublish, Worlds, Request, ReqState, Connected
<1>2. s.req \in Request
  BY DEF Worlds
<1>3. running \in Worlds /\ running.sip = s.sip
  BY SetReqStateDoes DEF Carried, Kept, ReqState
<1>4. /\ Turned(s, waiting, "Pending", s.req.sig, TRUE)
      /\ waiting.req.pend = AddPendingRefresh(s.req.pend)
      /\ waiting.req.data = s.req.data
  <2>1. Edited(s, pending, [s.req EXCEPT !.state = "Pending"])
    BY Fields DEF ReqState
  <2>2. pending \in Worlds /\ pending.req \in Request
    BY <2>1 DEF Edited, Worlds
  <2> HIDE DEF pending
  <2>3. Edited(pending, timed, [pending.req EXCEPT !.refresh = TRUE])
    BY <2>2, Fields
  <2>4. timed \in Worlds /\ timed.req \in Request
    BY <2>3 DEF Edited, Worlds
  <2> HIDE DEF timed
  <2>5. AddPendingRefresh(timed.req.pend) \in {"No", "Modify", "Refresh", "ModifyAndRefresh"}
    BY <2>4 DEF AddPendingRefresh, Request
  <2>6. r \in Request
    BY <2>4, <2>5 DEF Request
  <2>7. Edited(timed, waiting, r)
    BY <2>4, <2>6, Edit
  <2>8. /\ r.type = s.req.type /\ r.state = "Pending" /\ r.sig = s.req.sig
        /\ r.refresh = TRUE /\ r.pend = AddPendingRefresh(s.req.pend)
        /\ r.data = s.req.data /\ r.etag = s.req.etag /\ r.trans = s.req.trans
    BY <1>2, <2>1, <2>2, <2>3, <2>4 DEF Edited, Request
  <2> HIDE DEF r, waiting
  <2>9. QED
    BY <2>1, <2>3, <2>7, <2>8 DEF Edited, Turned
<1> HIDE DEF running, pending, timed, r, waiting
<1>5. CASE s.req.state \in {"Active", "Pending"} /\ t = waiting /\ s.sip = "Suspend"
  BY <1>4, <1>5 DEF Refreshed
<1>6. ASSUME s.req.state \in {"Active", "Pending"},
             NEW u \in SendPendingPublish(running), t = StartRefreshTimer(u)
      PROVE  Refreshed(s, t)
  <2>1. Resent(s, "Running", s.req.refresh, u) /\ s.sip = "Active"
    BY SetAndSend DEF running, ReqState
  <2>2. Edited(u, t, [u.req EXCEPT !.refresh = TRUE])
    BY <1>6, <2>1, Fields DEF Resent
  <2>3. Resent(s, "Running", TRUE, t)
    BY <2>1, <2>2 DEF Resent, Edited, Worlds, Request
  <2>4. QED
    BY <1>6, <2>1, <2>3 DEF Refreshed
<1>7. CASE /\ s.req.state \in {"Active", "Pending"} /\ s.sip \in Connected
           /\ s.sip # "Suspend" /\ t \in IfNotSent(running, Complete(running, "NotReady"))
  BY <1>3, <1>7 DEF IfNotSent, Refreshed, running, Connected
<1>8. QED
  BY <1>1, <1>5, <1>6, <1>7 DEF Refreshed

Recovers(s, t) ==
  \/ Resent(s, IF s.req.state = "PendingInit" THEN "RunningInit" ELSE "Running",
            s.req.refresh, t)
  \/ "sendFails" \in Env /\ \E e \in {"OK", "NotReady"}, c \in BOOLEAN :
                              Turned(s, t, "Failed", e, c)

LEMMA PendingRecovers ==
  ASSUME NEW s \in Worlds, s.sip = "Active", NEW t \in HandlePending(s)
  PROVE  Recovers(s, t)
<1> DEFINE state == IF s.req.state = "PendingInit" THEN "RunningInit" ELSE "Running"
           u == SetReqState(s, state)
           failed == SetReqState(u, "Failed")
<1>0. state \in ReqState
  BY DEF ReqState
<1>1. Turned(s, u, state, s.req.sig, s.req.refresh)
  BY <1>0, Turns
<1>2. u \in Worlds /\ u.sip = "Active"
  BY <1>1 DEF Turned
<1>3. \/ t \in SendPendingPublish(u)
      \/ "sendFails" \in Env /\ \E e \in {"OK", "NotReady"} : t \in Complete(failed, e)
  <2> HIDE DEF u
  <2>1. t \in SendPendingPublish(u)
             \cup IfNotSent(u, UNION {Complete(SetReqState(u, "Failed"), e) :
                                        e \in {"OK"} \cup IF "behind" \in Env THEN {"NotReady"} ELSE {}})
    BY DEF HandlePending, u
  <2>2. QED
    BY <1>2, <2>1 DEF IfNotSent
<1>4. CASE t \in SendPendingPublish(u)
  BY <1>0, <1>4, SetAndSend DEF Recovers
<1>5. ASSUME "sendFails" \in Env, NEW e \in {"OK", "NotReady"}, t \in Complete(failed, e)
      PROVE  Recovers(s, t)
  <2>1. Turned(u, failed, "Failed", u.req.sig, u.req.refresh)
    <3> HIDE DEF u
    <3>1. QED
      BY <1>2, Turns DEF ReqState
  <2>2. failed \in Worlds /\ failed.req.state = "Failed"
    BY <2>1 DEF Turned
  <2> HIDE DEF failed, u
  <2>3. Answers(failed, e, t)
    BY <1>5, <2>2, CompleteAnswers DEF Status
  <2>4. \E c \in BOOLEAN : Turned(failed, t, "Failed", e, c)
    BY <2>2, <2>3 DEF Answers
  <2>5. \E c \in BOOLEAN : Turned(s, t, "Failed", e, c)
    BY <1>1, <2>1, <2>4 DEF Turned
  <2>6. QED
    BY <1>5, <2>5 DEF Recovers
<1>6. QED
  BY <1>3, <1>4, <1>5

-----------------------------------------------------------------------------
(* Each step keeps the publication alive.                                  *)

AliveAt(s) == IF s.req = NoReq THEN ~Live(s) ELSE Alive(s)

Calm == Env \cap {"sendFails", "overlap", "behind"} = {}

LEMMA WorldAlive ==
  ASSUME PublisherSound, Exists, AliveAt(World)
  PROVE  /\ World \in Worlds /\ Alive(World) /\ InUse(World)
         /\ World.sip = sip /\ World.req = req /\ World.pub = pub
         /\ World.srv = srv /\ World.app = app
BY ExistsInUse, WorldFields DEF AliveAt, Exists

LEMMA WorldsHaveRequests ==
  ASSUME NEW t \in Worlds
  PROVE  t.req # NoReq
BY NoReqIsNone DEF Worlds

LEMMA AliveStart ==
  ASSUME PublisherSound, NEW doc \in Docs, NEW auto \in Refreshes,
         NEW etag \in {"None", pub.iETag}, Start(doc, auto, etag)
  PROVE  \E t : IsNext(t) /\ AliveAt(t)
<1>1. PICK t \in StartPublish(World, doc, auto, etag) : IsNext(t)
  BY Became DEF Start
<1>2. World \in AllWorlds
  BY SoundWorld, WorldsAreAll DEF Sound, InUse, Idle
<1>3. auto \in BOOLEAN /\ etag \in Tag
  BY ConstantsAssumption DEF PublisherSound, TypeOK, Publisher, Tag
<1>4. Begun(World, doc, t)
  BY <1>1, <1>2, <1>3, StartPublishBegins
<1>5. Alive(t)
  BY <1>4 DEF Begun, Alive, Live, Starting, Connected, NoSig
<1>6. QED
  BY <1>1, <1>4, <1>5, WorldsHaveRequests DEF AliveAt, Begun

LEMMA ChangedAlive ==
  ASSUME NEW s \in Worlds, NEW doc, NEW t, Changed(s, doc, t), Steady(s),
         s.pub.iPublished = TRUE, s.req.sig = NoSig
  PROVE  Alive(t)
<1>1. t.req.state = "Pending" => t.req.pend \in Modifies
  BY DEF Changed, AddPendingModify, Modifies, Worlds, Request
<1>2. Steady(t)
  BY DEF Changed, Steady
<1>3. t.sip \in Connected
  BY DEF Changed, Connected
<1>4. QED
  BY <1>1, <1>2, <1>3 DEF Changed, Alive, Started, Modifying

LEMMA AliveModify ==
  ASSUME PublisherSound, Calm, AliveAt(World), NEW doc \in Docs, Modify(doc)
  PROVE  \E t : IsNext(t) /\ AliveAt(t)
<1>1. PICK t \in ModifyPublish(World, doc) : IsNext(t)
  BY Became DEF Modify
<1>2. /\ World \in Worlds /\ Alive(World) /\ World.req = req /\ World.app = app
      /\ req.sig = NoSig
  BY WorldAlive DEF Modify, Quiet
<1>3. Changed(World, doc, t)
  BY <1>1, <1>2, ModifyPublishChanges DEF Modify, Calm
<1>4. CASE Live(World)
  <2>1. Steady(World) /\ World.pub.iPublished = TRUE
    BY <1>2, <1>4 DEF Modify, Alive, Started
  <2>2. Alive(t)
    BY <1>2, <1>3, <2>1, ChangedAlive
  <2>3. QED
    BY <1>1, <1>3, <2>2, WorldsHaveRequests DEF AliveAt, Changed
<1>5. CASE ~Live(World)
  <2>1. ~Live(t)
    BY <1>2, <1>3, <1>5 DEF Changed, Live, Modify
  <2>2. QED
    BY <1>1, <2>1 DEF AliveAt, Alive
<1>6. QED
  BY <1>4, <1>5

LEMMA AliveLeave ==
  ASSUME PublisherSound, AliveAt(World), NEW doc \in Docs, Leave(doc)
  PROVE  \E t : IsNext(t) /\ AliveAt(t)
<1>1. PICK t \in ModifyPublishLeaves(World, doc) \cup StartPublishLeaves(World) :
        IsNext(t)
  BY Became DEF Leave
<1>2. World \in Worlds /\ Alive(World) /\ World.req.sig = NoSig
  BY WorldAlive DEF Leave, Quiet
<1>3. Leaves(World, t)
  BY <1>1, <1>2, CallLeaves
<1>4. Alive(t)
  <2> SUFFICES ASSUME Live(t) PROVE Alive(t)
    BY DEF Alive
  <2>1. Live(World)
    BY <1>3 DEF Leaves, Live
  <2>2. t.app.st = "starting" => Starting(t)
    BY <1>2, <1>3, <2>1 DEF Leaves, Alive, Starting
  <2>3. t.app.st \in {"on", "modifying"} => Started(t)
    BY <1>2, <1>3, <2>1 DEF Leaves, Alive, Started, Steady
  <2>4. t.app.st = "modifying" => Modifying(t)
    BY <1>2, <1>3, <2>1 DEF Leaves, Alive, Started, Steady, Modifying
  <2>5. QED
    BY <1>2, <1>3, <2>1, <2>2, <2>3, <2>4 DEF Leaves, Alive
<1>5. QED
  BY <1>1, <1>3, <1>4, WorldsHaveRequests DEF AliveAt, Leaves

LEMMA AliveEnd ==
  ASSUME NEW t, t.req # NoReq, ~Live(t)
  PROVE  AliveAt(t)
BY DEF AliveAt, Alive

LEMMA AliveStop ==
  ASSUME PublisherSound, Stop
  PROVE  \E t : IsNext(t) /\ AliveAt(t)
<1>1. PICK t \in StopPublish(World, req.etag) : IsNext(t)
  BY Became DEF Stop
<1>2. World \in Worlds /\ req.etag \in Tag
  BY ExistsInUse DEF Stop, Worlds, Request
<1>3. InUse(t) /\ t.app.st = "stopping"
  BY <1>1, <1>2, StopPublishStops
<1>4. QED
  BY <1>1, <1>3, AliveEnd, WorldsHaveRequests DEF InUse, Live

LEMMA AliveStopScratch ==
  ASSUME PublisherSound, StopScratch
  PROVE  \E t : IsNext(t) /\ AliveAt(t)
<1>1. PICK t \in StopPublishScratch(World, pub.iETag) : IsNext(t)
  BY Became DEF StopScratch
<1>2. World \in AllWorlds
  BY SoundWorld, WorldsAreAll DEF Sound, InUse, Idle
<1>3. pub.iETag \in Tag
  BY DEF PublisherSound, TypeOK, Publisher
<1>4. InUse(t) /\ t.app.st = "stopping"
  BY <1>1, <1>2, <1>3, StopPublishScratchStops
<1>5. QED
  BY <1>1, <1>4, AliveEnd, WorldsHaveRequests DEF InUse, Live

LEMMA AliveClose ==
  ASSUME PublisherSound, Close
  PROVE  \E t : IsNext(t) /\ AliveAt(t)
<1> DEFINE t == [sip |-> sip', req |-> req', pub |-> pub', srv |-> srv', app |-> app']
<1>1. IsNext(t)
  BY DEF IsNext
<1>2. req' = NoReq /\ app'.st = "off"
  BY DEF Close, PublisherSound, TypeOK, AppState
<1>3. AliveAt(t)
  BY <1>2 DEF AliveAt, Live
<1>4. QED
  BY <1>1, <1>3

(* What the application may do in the callback. *)
LEMMA CallbackCalls ==
  ASSUME NEW w \in Worlds, NEW u \in Callback(w)
  PROVE  \/ u = w
         \/ u.app.st = "stopping"
         \/ \E doc \in Docs : u \in ModifyPublish(w, doc)
<1>1. w.req.etag \in Tag
  BY DEF Worlds, Request
<1>2. \/ u = w
      \/ u \in StopPublish(w, w.req.etag)
      \/ \E doc \in Docs : u \in ModifyPublish(w, doc)
  BY DEF Callback
<1>3. QED
  BY <1>1, <1>2, StopPublishStops

LEMMA CallbackEnds ==
  ASSUME NEW s, s.app \in AppState, NEW w, Told(s, w), NEW u \in Callback(w), Live(u)
  PROVE  w.app.st = "on" /\ ~w.app.dropped /\ Live(s)
<1>1. w \in Worlds /\ w.app = PublishReqComplete(s.app, s.req.sig)
  BY DEF Told
<1>2. /\ w.app.dropped = s.app.dropped
      /\ w.app.st \in {"off", "on", "spurious"}
      /\ w.app.st = "on" => s.app.st \in {"starting", "modifying"}
  BY <1>1 DEF PublishReqComplete, AppState
<1>3. ~w.app.dropped
  BY <1>1, CallbackCalls, ModifyPublishModifies DEF Live
<1>4. w.app.st = "on"
  BY <1>2 DEF Callback, Live
<1>5. QED
  BY <1>2, <1>3, <1>4 DEF Live

LEMMA CallbackStaysAlive ==
  ASSUME Calm, NEW s \in Worlds, Alive(s), NEW w, Told(s, w), NEW u \in Callback(w),
         NEW t, GoesOn(s, u, t), s.req.sig # NoSig
  PROVE  Alive(t)
<1> SUFFICES ASSUME Live(t) PROVE Alive(t)
  BY DEF Alive
<1>1. Live(u)
  BY DEF GoesOn, Live
<1>2. w.app.st = "on" /\ Live(s)
  BY <1>1, CallbackEnds DEF Worlds
<1>3. s.app.st \in {"starting", "modifying"}
  BY <1>2 DEF Told, PublishReqComplete, Live, Worlds, AppState
<1>4. w \in Worlds /\ Steady(w) /\ w.req.state # "Running" /\ w.pub.iPublished = TRUE
      /\ w.sip \in Connected /\ w.req.sig = NoSig
  <2>1. w \in Worlds /\ w.req.sig = NoSig /\ w.sip \in Connected
    BY <1>2 DEF Told, GoesOn, Alive
  <2>2. w.pub.iPublished \in BOOLEAN
    BY <2>1 DEF Worlds, Publisher
  <2>3. CASE s.app.st = "starting"
    BY <1>2, <2>1, <2>2, <2>3 DEF Told, GoesOn, Alive, Starting, Steady
  <2>4. CASE s.app.st = "modifying"
    BY <1>2, <2>1, <2>2, <2>4 DEF Told, GoesOn, Alive, Started, Modifying, Steady
  <2>5. QED
    BY <1>3, <2>1, <2>3, <2>4
<1>5. CASE u = w
  <2>1. t.pub.iRequest = "StartPublish"
    BY <1>5 DEF Told, GoesOn
  <2>2. t.app.st = "on" /\ Steady(t) /\ t.pub.iPublished = TRUE /\ t.sip \in Connected
    BY <1>2, <1>4, <1>5 DEF GoesOn, Steady
  <2>3. QED
    BY <2>1, <2>2 DEF Alive, Started
<1>6. ASSUME NEW doc \in Docs, u \in ModifyPublish(w, doc)
      PROVE  Alive(t)
  <2>1. Changed(w, doc, u)
    BY <1>4, <1>6, ModifyPublishChanges
  <2>2. Alive(u)
    BY <1>4, <2>1, ChangedAlive
  <2>3. u.app.st = "modifying" /\ u.req.sig = NoSig /\ u.req.state \in {"Running", "Pending"}
        /\ u.pub.iRequest = "PublishModify"
    BY <1>4, <2>1 DEF Changed
  <2>4. t.pub.iRequest \in {"StartPublish", "PublishModify"}
        /\ (t.pub.iRequest = "PublishModify" => t.req.type = u.req.type)
    BY <2>3 DEF GoesOn
  <2>5. QED
    BY <1>1, <2>2, <2>3, <2>4 DEF GoesOn, Alive, Started, Steady, Modifying
<1>7. QED
  BY <1>1, <1>4, <1>5, <1>6, CallbackCalls DEF Live

LEMMA AliveRunL ==
  ASSUME PublisherSound, Calm, AliveAt(World), RunL
  PROVE  \E t : IsNext(t) /\ AliveAt(t)
<1>1. PICK t \in Deliver(World) : IsNext(t)
  BY Became DEF RunL
<1>2. /\ World \in Worlds /\ Alive(World) /\ InUse(World)
      /\ World.req.sig \in Status /\ World.req.sig # NoSig /\ World.app \in AppState
  BY WorldAlive DEF RunL, Worlds, Request
<1>3. CASE Finished(World, t) /\ ~Live(t)
  BY <1>1, <1>3 DEF AliveAt, Finished
<1>4. CASE /\ t.req = NoReq
           /\ \E w : Told(World, w) /\ \E u \in Callback(w) : Removed(World, u, t)
  <2>1. PICK w : Told(World, w) /\ \E u \in Callback(w) : Removed(World, u, t)
    BY <1>4
  <2>2. PICK u \in Callback(w) : Removed(World, u, t)
    BY <2>1
  <2>3. ASSUME Live(t) PROVE FALSE
    <3>1. Live(u)
      BY <2>2, <2>3 DEF Removed, Live
    <3>2. w.app.st = "on" /\ Live(World)
      BY <1>2, <2>1, <3>1, CallbackEnds
    <3>3. World.app.st = "starting" /\ World.req.sig # "OK"
      BY <1>2, <2>2, <3>2 DEF Removed, Alive, Live, Starting, Started
    <3>4. QED
      BY <1>2, <2>1, <3>2, <3>3 DEF Told, PublishReqComplete, AppState
  <2>4. QED
    BY <1>1, <1>4, <2>3 DEF AliveAt
<1>5. CASE t.app.dropped
  BY <1>1, <1>5 DEF AliveAt, Alive, Live
<1>6. CASE \E w : Told(World, w) /\ \E u \in Callback(w) : GoesOn(World, u, t)
  <2>1. Alive(t) /\ t \in Worlds
    BY <1>2, <1>6, CallbackStaysAlive DEF GoesOn
  <2>2. QED
    BY <1>1, <2>1, WorldsHaveRequests DEF AliveAt
<1>7. QED
  BY <1>1, <1>2, <1>3, <1>4, <1>5, <1>6, CompletionIsTold

(* A completion that the request itself is prepared for by edited. *)
LEMMA AliveCompletion ==
  ASSUME PublisherSound, AliveAt(World), Exists, Quiet,
         NEW s \in Worlds, s.app = app, s.pub = pub,
         s.req.state = req.state, s.req.type = req.type, s.req.pend = req.pend,
         s.req.sig = req.sig, s.req.refresh = req.refresh,
         s.req.trans \in {req.trans, NoTrans},
         NEW status \in Status,
         status = "OK" => sip = "Active" /\ req.trans # NoTrans /\ s.req.trans = NoTrans,
         s.sip = sip \/ status = "Disconnected",
         NEW t \in Complete(s, status)
  PROVE  AliveAt(t)
<1>1. World \in Worlds /\ Alive(World) /\ World.req.sig = NoSig
  BY WorldAlive DEF Quiet
<1>2. Alive(t)
  BY <1>1, CompletionStaysAlive, WorldFields
<1>3. t \in Worlds
  BY CompleteCompletes DEF Completed, Kept
<1>4. QED
  BY <1>2, <1>3, WorldsHaveRequests DEF AliveAt

LEMMA AliveExpiry ==
  ASSUME PublisherSound, AliveAt(World), ExpiryFires
  PROVE  \E t : IsNext(t) /\ AliveAt(t)
<1> DEFINE s == StopExpiryTimer(World)
<1>1. PICK t \in Complete(s, "TimedOut") : IsNext(t)
  BY Became DEF ExpiryFires
<1>2. World \in Worlds /\ World.req = req /\ req \in Request /\ Exists /\ Quiet
  BY ExistsInUse DEF ExpiryFires, Worlds
<1>3. Edited(World, s, [req EXCEPT !.expiry = FALSE])
  BY <1>2, Fields
<1> HIDE DEF s
<1>4. AliveAt(t)
  BY <1>1, <1>2, <1>3, AliveCompletion, WorldFields DEF Edited, Request, Status
<1>5. QED
  BY <1>1, <1>4

LEMMA AliveResponse ==
  ASSUME PublisherSound, AliveAt(World), Response
  PROVE  \E t : IsNext(t) /\ AliveAt(t)
<1> DEFINE s == [World EXCEPT !.req.trans = NoTrans, !.req.method = "Status",
                              !.req.etag = World.req.trans.etag]
           status == World.req.trans.answer
           r == [req EXCEPT !.trans = NoTrans, !.method = "Status",
                            !.etag = req.trans.etag]
<1>1. PICK t \in Complete(s, status) : IsNext(t)
  BY Became DEF Response, PublishResp
<1>2. World \in Worlds /\ World.req = req /\ req \in Request /\ Exists /\ Quiet
  BY ExistsInUse DEF Response, Answered, Worlds
<1>3. status \in Status /\ sip = "Active" /\ req.trans # NoTrans
  BY <1>2 DEF Response, Answered, Status, NoTrans
<1>4. r \in Request
  BY <1>2 DEF Request, Trans, NoTrans, Tag
<1>5. /\ r.state = req.state /\ r.sig = req.sig /\ r.type = req.type
      /\ r.pend = req.pend /\ r.refresh = req.refresh /\ r.trans = NoTrans
  BY <1>2 DEF Request
<1>6. s = [World EXCEPT !.req = r]
  BY <1>2 DEF World
<1> HIDE DEF r, s, status
<1>7. Edited(World, s, r)
  BY <1>2, <1>4, <1>6, Edit
<1>8. AliveAt(t)
  BY <1>1, <1>2, <1>3, <1>5, <1>7, AliveCompletion, WorldFields DEF Edited
<1>9. QED
  BY <1>1, <1>8

LEMMA AliveTransaction ==
  ASSUME PublisherSound, AliveAt(World), TransactionFails
  PROVE  \E t : IsNext(t) /\ AliveAt(t)
<1> DEFINE s == [World EXCEPT !.req.trans = NoTrans, !.req.method = "Unknown"]
           r == [req EXCEPT !.trans = NoTrans, !.method = "Unknown"]
<1>1. PICK t \in Complete(s, "CommsBreak") : IsNext(t)
  BY Became DEF TransactionFails
<1>2. World \in Worlds /\ World.req = req /\ req \in Request /\ Exists /\ Quiet
  BY ExistsInUse DEF TransactionFails, Worlds
<1>3. r \in Request
  BY <1>2 DEF Request, Trans, NoTrans, Tag
<1>4. /\ r.state = req.state /\ r.sig = req.sig /\ r.type = req.type
      /\ r.pend = req.pend /\ r.refresh = req.refresh /\ r.trans = NoTrans
  BY <1>2 DEF Request
<1>5. s = [World EXCEPT !.req = r]
  BY <1>2 DEF World
<1> HIDE DEF r, s
<1>6. Edited(World, s, r)
  BY <1>2, <1>3, <1>5, Edit
<1>7. AliveAt(t)
  BY <1>1, <1>2, <1>4, <1>6, AliveCompletion, WorldFields DEF Edited, Status
<1>8. QED
  BY <1>1, <1>7

LEMMA AliveDisconnect ==
  ASSUME PublisherSound, AliveAt(World), NEW state \in SipStates, Disconnect(state)
  PROVE  \E t : IsNext(t) /\ AliveAt(t)
<1> DEFINE s == [World EXCEPT !.sip = state]
           u == [s EXCEPT !.req.method = "Unknown"]
<1>1. PICK t \in IF ~Exists THEN {s} ELSE Complete(u, "Disconnected") : IsNext(t)
  BY Became DEF Disconnect
<1>2. s.req = req /\ s.pub = pub /\ s.app = app /\ (Exists => InUse(s))
  BY Reconnected
<1> HIDE DEF s
<1>3. CASE ~Exists
  BY <1>1, <1>2, <1>3, WorldFields DEF Exists, AliveAt, Live
<1>4. CASE Exists
  <2>1. s \in Worlds /\ s.req \in Request /\ Quiet
    BY <1>2, <1>4 DEF InUse, Worlds, Disconnect
  <2>2. /\ u \in Worlds /\ u.app = app /\ u.pub = pub
        /\ u.req = [s.req EXCEPT !.method = "Unknown"]
    BY <1>2, <2>1 DEF Worlds, Request
  <2> HIDE DEF u
  <2>3. /\ u.req.state = req.state /\ u.req.type = req.type /\ u.req.pend = req.pend
        /\ u.req.sig = req.sig /\ u.req.refresh = req.refresh /\ u.req.trans = req.trans
    BY <1>2, <2>1, <2>2 DEF Request
  <2>4. AliveAt(t)
    BY <1>1, <1>4, <2>1, <2>2, <2>3, AliveCompletion DEF Status
  <2>5. QED
    BY <1>1, <2>4
<1>5. QED
  BY <1>3, <1>4

LEMMA AliveSuspend ==
  ASSUME PublisherSound, AliveAt(World), Suspend
  PROVE  \E t : IsNext(t) /\ AliveAt(t)
<1> DEFINE s == [World EXCEPT !.sip = "Suspend"]
<1>1. /\ s.req = req /\ s.pub = pub /\ s.srv = srv /\ s.app = app /\ s.sip = "Suspend"
      /\ Exists => InUse(s)
  BY Reconnected DEF Suspend
<1> HIDE DEF s
<1>2. IsNext(s)
  BY <1>1 DEF IsNext, Suspend
<1>3. CASE ~Exists
  BY <1>1, <1>2, <1>3, WorldFields DEF Exists, AliveAt, Live
<1>4. CASE Exists
  <2>1. Alive(World) /\ req.sig = NoSig
    BY <1>4, WorldAlive DEF Suspend, Quiet
  <2>2. Alive(s)
    BY <1>1, <2>1, WorldFields
       DEF Alive, Live, Starting, Started, Steady, Modifying, Connected
  <2>3. QED
    BY <1>1, <1>2, <1>4, <2>2 DEF Exists, AliveAt
<1>5. QED
  BY <1>3, <1>4

(* A PUBLISH has been sent again, for what waited or for the refresh. *)
LEMMA ResentAlive ==
  ASSUME NEW s \in Worlds, NEW t, Live(s), s.sip = "Active", s.req.sig = NoSig,
         s.req.state \in {"PendingInit", "Active", "Pending"},
         IF s.app.st = "starting"
           THEN Starting(s) /\ Resent(s, "RunningInit", s.req.refresh, t)
           ELSE s.pub.iPublished = TRUE /\ Resent(s, "Running", TRUE, t)
                /\ s.pub.iRequest \in {"StartPublish", "PublishModify"},
         s.app.st = "modifying" /\ s.pub.iRequest = "PublishModify" =>
           s.req.type = "PublishModify"
  PROVE  Alive(t)
BY DEF Alive, Live, Resent, Starting, Started, Steady, Modifying, Connected

LEMMA AliveActivate ==
  ASSUME PublisherSound, Calm, AliveAt(World), Activate
  PROVE  \E t : IsNext(t) /\ AliveAt(t)
<1> DEFINE s == [World EXCEPT !.sip = "Active"]
           waits == sip = "Suspend" /\ Exists /\ req.state \in {"PendingInit", "Pending"}
<1>1. PICK t : IsNext(t) /\ (IF waits THEN t \in HandlePending(s) ELSE t = s)
  <2>1. PICK t \in (IF waits THEN HandlePending(s) ELSE {s})
                   \cup (IF "behind" \in Env THEN {s} ELSE {}) : IsNext(t)
    BY Became DEF Activate
  <2> HIDE DEF s, waits
  <2>2. QED
    BY <2>1 DEF Calm
<1>2. /\ s.req = req /\ s.pub = pub /\ s.srv = srv /\ s.app = app /\ s.sip = "Active"
      /\ Exists => InUse(s)
  BY Reconnected, ConstantsAssumption
<1> HIDE DEF s
<1>3. CASE ~Exists
  BY <1>1, <1>2, <1>3, WorldFields DEF Exists, AliveAt, Live
<1>4. CASE Exists /\ ~waits
  <2>1. World \in Worlds /\ Alive(World) /\ req.sig = NoSig /\ sip # "Active"
    BY <1>4, WorldAlive DEF Quiet, Activate
  <2>2. s.req.state = "Pending" => ~Live(s)
    <3>1. Live(World) /\ req.state = "Pending" => sip = "Suspend"
      BY <2>1, WorldFields DEF Alive, Connected, NoSig
    <3>2. QED
      BY <1>2, <1>4, <3>1, WorldFields DEF Live
  <2>3. Alive(s)
    BY <1>2, <2>1, <2>2, WorldFields
       DEF Alive, Live, Starting, Started, Steady, Modifying, Connected
  <2>4. QED
    BY <1>1, <1>2, <1>4, <2>3 DEF Exists, AliveAt
<1>5. CASE waits
  <2>1. /\ World \in Worlds /\ Alive(World) /\ req.sig = NoSig /\ s \in Worlds
        /\ req.state \in {"PendingInit", "Pending"}
    BY <1>2, <1>5, WorldAlive DEF Quiet, Activate, InUse
  <2>2. Resent(s, IF s.req.state = "PendingInit" THEN "RunningInit" ELSE "Running",
               s.req.refresh, t)
    BY <1>1, <1>2, <1>5, <2>1, PendingRecovers DEF Recovers, Calm
  <2>3. t \in Worlds /\ t.app = app
    BY <1>2, <2>2 DEF Resent
  <2>4. CASE Live(World)
    <3>1. Live(s) /\ (app.st = "starting" => Starting(World) /\ Starting(s))
      BY <1>2, <2>1, <2>4, WorldFields DEF Alive, Live, Starting
    <3>2. CASE app.st = "starting"
      <4>1. req.state = "PendingInit"
        BY <2>1, <3>1, <3>2, WorldFields DEF Starting
      <4>2. QED
        BY <1>1, <1>2, <2>1, <2>2, <2>3, <3>1, <3>2, <4>1, ResentAlive, WorldsHaveRequests
           DEF AliveAt
    <3>3. CASE app.st \in {"on", "modifying"}
      <4>1. /\ Started(World) /\ Steady(World)
            /\ app.st = "modifying" => Modifying(World)
        BY <2>1, <2>4, <3>3, WorldFields DEF Alive, Started
      <4>2. /\ req.state = "Pending" /\ req.refresh = TRUE /\ pub.iPublished = TRUE
            /\ pub.iRequest \in {"StartPublish", "PublishModify"}
            /\ app.st = "modifying" /\ pub.iRequest = "PublishModify" =>
                 req.type = "PublishModify"
        BY <2>1, <4>1, WorldFields DEF Started, Steady, Modifying
      <4>3. Alive(t)
        BY <1>2, <2>1, <2>2, <3>1, <3>3, <4>2, ResentAlive
      <4>4. QED
        BY <1>1, <2>3, <4>3, WorldsHaveRequests DEF AliveAt
    <3>4. QED
      BY <2>4, <3>2, <3>3, WorldFields DEF Live
  <2>5. CASE ~Live(World)
    BY <1>1, <2>3, <2>5, AliveEnd, WorldsHaveRequests, WorldFields DEF Live
  <2>6. QED
    BY <2>4, <2>5
<1>6. QED
  BY <1>3, <1>4, <1>5

(* The refresh timer: its completions, a refresh that waits for the        *)
(* network, and a PUBLISH.                                                 *)
LEMMA RefreshStaysAlive ==
  ASSUME Calm, NEW w \in Worlds, Alive(w), w.req.sig = NoSig,
         NEW s, Turned(w, s, w.req.state, w.req.sig, FALSE),
         s.req.pend = w.req.pend,
         w.req.state = "Running" => s.req.pend = "No" \/ ~Live(w),
         NEW t, Refreshed(s, t)
  PROVE  Alive(t)
<1>1. /\ s \in Worlds /\ s.app = w.app /\ s.pub = w.pub /\ s.sip = w.sip
      /\ s.req.state = w.req.state /\ s.req.type = w.req.type
      /\ s.req.trans = w.req.trans /\ s.req.sig = NoSig
  BY DEF Turned
<1>2. CASE t \in Complete(s, "TimedOut") /\ s.req.state \in {"RunningInit", "Active"}
  <2>1. "TimedOut" \in Status /\ s.req.state # "Pending"
    BY <1>2 DEF Status
  <2>2. QED
    BY <1>1, <1>2, <2>1, CompletionStaysAlive
<1>3. CASE t \in Complete(s, "Completion")
  BY <1>1, <1>3, CompletionStaysAlive DEF Status
<1>4. CASE t = s /\ s.sip \notin Connected
  BY <1>1, <1>4 DEF Alive, Live, NoSig
<1>5. CASE /\ s.sip = "Suspend" /\ s.req.state \in {"Active", "Pending"}
           /\ Turned(s, t, "Pending", s.req.sig, TRUE)
           /\ t.req.pend = AddPendingRefresh(s.req.pend)
  <2> SUFFICES ASSUME Live(t) PROVE Alive(t)
    BY DEF Alive
  <2>1. Live(w) /\ t.app = w.app /\ t.pub = w.pub /\ t.req.type = w.req.type
        /\ t.sip = "Suspend" /\ t.req.sig = NoSig /\ t.req.state = "Pending"
        /\ t.req.refresh = TRUE
    BY <1>1, <1>5 DEF Turned, Live
  <2>2. w.app.st # "starting" /\ Started(w)
    BY <1>1, <1>5, <2>1 DEF Alive, Live, Starting
  <2>3. Started(t)
    BY <2>1, <2>2 DEF Started, Steady
  <2>4. w.req.pend \in Modifies => t.req.pend \in Modifies
    BY <1>5 DEF AddPendingRefresh, Modifies
  <2>5. w.app.st = "modifying" => Modifying(t)
    BY <1>1, <1>5, <2>1, <2>4 DEF Alive, Modifying
  <2>6. QED
    BY <2>1, <2>2, <2>3, <2>5 DEF Alive, Connected
<1>6. CASE /\ s.sip = "Active" /\ s.req.state \in {"Active", "Pending"}
           /\ Resent(s, "Running", TRUE, t)
  <2> SUFFICES ASSUME Live(t) PROVE Alive(t)
    BY DEF Alive
  <2>1. Live(w) /\ Live(s)
    BY <1>1, <1>6 DEF Resent, Live
  <2>2. w.app.st # "starting" /\ Started(w)
    BY <1>1, <1>6, <2>1 DEF Alive, Live, Starting
  <2>3. /\ s.pub.iPublished = TRUE
        /\ s.pub.iRequest \in {"StartPublish", "PublishModify"}
        /\ s.app.st = "modifying" /\ s.pub.iRequest = "PublishModify" =>
             s.req.type = "PublishModify"
    BY <1>1, <2>1, <2>2 DEF Alive, Started, Modifying
  <2>4. QED
    BY <1>1, <1>6, <2>1, <2>2, <2>3, ResentAlive
<1>7. QED
  BY <1>2, <1>3, <1>4, <1>5, <1>6 DEF Refreshed, Calm

LEMMA AliveRefresh ==
  ASSUME PublisherSound, Calm, AliveAt(World), RefreshFires
  PROVE  \E t : IsNext(t) /\ AliveAt(t)
<1> DEFINE s == StopRefreshTimer(World)
<1>1. PICK t \in RefreshPublish(s) : IsNext(t)
  BY Became DEF RefreshFires
<1>2. World \in Worlds /\ Alive(World) /\ World.req.sig = NoSig /\ InUse(World)
  BY WorldAlive DEF RefreshFires, Quiet
<1>3. Turned(World, s, World.req.state, World.req.sig, FALSE)
  BY <1>2, Turns
<1>4. Carried(World, s)
  BY <1>2, RefreshTimerDoes
<1>5. s \in Worlds /\ s.req.pend = World.req.pend /\ InUse(s)
  BY <1>2, <1>4 DEF Carried, Kept, InUse
<1> HIDE DEF s
<1>6. Refreshed(s, t)
  BY <1>1, <1>5, RefreshRefreshes
<1>7. World.req.state = "Running" => s.req.pend = "No" \/ ~Live(World)
  BY <1>2, <1>5 DEF Alive, Live, Starting, Started, Steady
<1>8. Alive(t)
  BY <1>2, <1>3, <1>5, <1>6, <1>7, RefreshStaysAlive
<1>9. t \in Worlds
  BY <1>1, <1>5, RefreshMoves DEF Moves, InUse
<1>10. QED
  BY <1>1, <1>8, <1>9, WorldsHaveRequests DEF AliveAt

LEMMA AliveNext ==
  ASSUME PublisherSound, Calm, AliveAt(World), Next
  PROVE  \E t : IsNext(t) /\ AliveAt(t)
<1>1. CASE App
  <2>1. CASE \E doc \in Docs \ {app.doc} :
               \/ \E auto \in Refreshes, etag \in {"None", pub.iETag} : Start(doc, auto, etag)
               \/ Modify(doc)
               \/ Leave(doc)
    BY <2>1, AliveStart, AliveModify, AliveLeave
  <2>2. QED
    BY <1>1, <2>1, AliveStop, AliveStopScratch, AliveClose DEF App
<1>2. CASE Network
  BY <1>2, AliveResponse, AliveTransaction, AliveDisconnect, AliveSuspend, AliveActivate
     DEF Network
<1>3. CASE Engine
  BY <1>3, AliveRunL, AliveExpiry, AliveRefresh DEF Engine
<1>4. QED
  BY <1>1, <1>2, <1>3 DEF Next

(* A publication the application believes on is kept alive by the refresh *)
(* timer until its end has been posted, if every PUBLISH of the engine can *)
(* be sent, HandlePendings reaches the request, and the application does   *)
(* not modify while a PUBLISH is under way.                                *)
THEOREM StaysAlive ==
  ASSUME Env \cap {"sendFails", "overlap", "behind"} = {}
  PROVE  Spec => []KeptAlive
<1> DEFINE Ind == PublisherSound /\ AliveAt(World)
<1>1. Init => Ind
  <2>1. Init => AliveAt(World)
    BY WorldFields DEF Init, AliveAt, Live
  <2>2. QED
    BY <2>1, InitSound
<1>2. Ind /\ [Next]_vars => Ind'
  <2>1. ASSUME Ind, Next PROVE Ind'
    <3>1. PublisherSound'
      BY <2>1, NextSteps, SoundNext DEF Steps
    <3>2. PICK t : IsNext(t) /\ AliveAt(t)
      BY <2>1, AliveNext DEF Calm
    <3>3. /\ World'.sip = t.sip /\ World'.req = t.req /\ World'.pub = t.pub
          /\ World'.app = t.app
      BY <3>2 DEF IsNext, World
    <3>4. AliveAt(World')
      BY <3>2, <3>3 DEF AliveAt, Alive, Live, Starting, Started, Steady, Modifying
    <3>5. QED
      BY <3>1, <3>4
  <2>2. ASSUME Ind, UNCHANGED vars PROVE Ind'
    BY <2>2 DEF vars, PublisherSound, TypeOK, InUseHasRequest, Exists, World
  <2>3. QED
    BY <2>1, <2>2
<1>3. Ind => KeptAlive
  BY WorldFields DEF KeptAlive, AliveAt, Alive, Live, Started, Steady, Exists
<1>4. QED
  BY <1>1, <1>2, <1>3, PTL DEF Spec

-----------------------------------------------------------------------------
(* The server has the document that the application has been told of.      *)

(* A request at rest has no transaction, and the current ETag; what waits  *)
(* for the network is the document of the application's last call.         *)
AtRest(s) ==
  /\ s.req.state \in {"Active", "Pending"} =>
       s.req.trans = NoTrans /\ s.req.etag = "Current"
  /\ s.req.state \in {"Active", "Running", "RunningInit"} => s.req.pend = "No"
  /\ s.req.state = "Pending" => s.sip = "Suspend"
  /\ s.req.state = "Pending" /\ s.req.pend \in Modifies =>
       s.app.st = "modifying" /\ s.req.sig = NoSig /\ s.req.data = s.app.doc

(* A PUBLISH under way, accepted, makes the server's document the one of   *)
(* the application's last call, but for one that has failed.               *)
UnderWay(s) ==
  /\ s.req.state \notin {"PendingInit", "Stopping"}
  /\ s.req.state = "RunningInit" => s.app.st = "starting"
  /\ s.req.state = "Running" => s.req.sig = NoSig
  /\ s.req.trans.answer # "Temporary"
  /\ s.req.state \in {"Running", "RunningInit"} /\ s.req.trans.answer = "OK" =>
       /\ s.req.trans.etag = "Current"
       /\ (s.app.st = "on" /\ ~s.app.sure) \/ s.srv = s.app.doc

(* What the answers that the application has had say of the server. *)
AsTold(s) ==
  /\ s.app.st = "starting" =>
       /\ IF s.req.sig = NoSig THEN s.req.state = "RunningInit"
                               ELSE s.req.state \in {"Active", "Failed"}
       /\ s.req.state = "Active" => s.srv = s.app.doc
  /\ s.app.st = "on" /\ s.app.sure /\ s.req.state \in {"Active", "Pending"} =>
       s.srv = s.app.doc
  /\ s.app.st = "modifying" /\ s.req.state = "Active" /\ s.req.sig \in {NoSig, "OK"} =>
       s.srv = s.app.doc
  /\ s.app.st = "modifying" /\ s.req.state = "Pending" =>
       /\ s.req.sig # "OK"
       /\ s.req.sig = NoSig => s.req.pend \in Modifies \/ s.srv = s.app.doc

Agreed(s) ==
  Live(s) => s.app.doc # NoDoc /\ AtRest(s) /\ UnderWay(s) /\ AsTold(s)

AgreedAt(s) == s.req = NoReq \/ Agreed(s)

(* The server says what it does at once, the application starts and        *)
(* modifies when it may, and the network's recovery reaches the request.   *)
Plain == Env \cap {"busy", "lateStart", "overlap", "behind"} = {}

LEMMA WorldAgreed ==
  ASSUME PublisherSound, Exists, AgreedAt(World)
  PROVE  /\ World \in Worlds /\ Agreed(World) /\ InUse(World)
         /\ World.sip = sip /\ World.req = req /\ World.pub = pub
         /\ World.srv = srv /\ World.app = app
BY ExistsInUse, WorldFields DEF AgreedAt, Exists

LEMMA CompletionStaysAgreed ==
  ASSUME NEW w \in Worlds, Agreed(w), w.req.sig = NoSig,
         NEW s \in Worlds, s.app = w.app, s.srv = w.srv,
         s.req.state = w.req.state, s.req.pend = w.req.pend, s.req.sig = NoSig,
         s.req.trans \in {w.req.trans, NoTrans},
         s.req.etag = w.req.etag \/ w.req.trans # NoTrans,
         NEW status \in Status,
         status = "OK" => /\ w.req.trans.answer = "OK"
                          /\ s.req.trans = NoTrans /\ s.req.etag = w.req.trans.etag,
         status = "Temporary" => w.req.trans.answer = "Temporary",
         s.sip = w.sip \/ status = "Disconnected",
         NEW t \in Complete(s, status)
  PROVE  Agreed(t)
<1> SUFFICES ASSUME Live(t) PROVE Agreed(t)
  BY DEF Agreed
<1>1. Kept(s, t)
  BY CompleteCompletes DEF Completed
<1>2. Live(w) /\ t.app = w.app
  BY <1>1 DEF Kept, Live
<1>3. w.app.doc # NoDoc /\ AtRest(w) /\ UnderWay(w) /\ AsTold(w)
  BY <1>2 DEF Agreed
<1>4. Answers(s, status, t)
  BY <1>3, CompleteAnswers DEF AtRest
<1>5. status # "Temporary"
  BY <1>3 DEF UnderWay
<1>6. NoTrans.answer = "None"
  BY DEF NoTrans
<1>7. ASSUME t.req.state = "Failed" PROVE Agreed(t)
  <2>1. t.req.sig # NoSig
    BY <1>3, <1>4, <1>7, NoSigIsNoStatus DEF Answers, Turned, UnderWay, Status
  <2>2. t.req.trans.answer # "Temporary"
    BY <1>3, <1>4, <1>6, <1>7 DEF Answers, Turned, UnderWay
  <2>3. QED
    BY <1>2, <1>3, <1>7, <2>1, <2>2 DEF Agreed, AtRest, UnderWay, AsTold
<1>8. CASE s.req.state \in {"RunningInit", "Running"} /\ status = "OK"
  <2>1. /\ t.req.state = "Active" /\ t.req.pend = "No" /\ t.req.trans = NoTrans
        /\ t.req.etag = "Current" /\ t.srv = w.srv
        /\ t.req.sig # NoSig \/ s.req.state = "Running"
    BY <1>3, <1>4, <1>8, NoSigIsNoStatus DEF Answers, Turned, UnderWay, Status
  <2>2. (w.app.st = "on" /\ ~w.app.sure) \/ w.srv = w.app.doc
    BY <1>3, <1>8 DEF UnderWay
  <2>3. w.app.st = "starting" => s.req.state = "RunningInit"
    BY <1>3 DEF AsTold
  <2>4. QED
    BY <1>2, <1>3, <1>6, <2>1, <2>2, <2>3 DEF Agreed, AtRest, UnderWay, AsTold
<1>9. CASE s.req.state = "Pending" /\ s.req.pend \in Modifies
  <2>1. w.app.st = "modifying" /\ status # "OK" /\ w.req.trans = NoTrans
        /\ s.req.etag = "Current" /\ s.req.trans = NoTrans
    BY <1>3, <1>6, <1>9 DEF AtRest
  <2>2. CASE t.req.state = "Failed"
    BY <1>7, <2>2
  <2>3. CASE t.req.state # "Failed"
    <3>1. /\ t.req.sig = status /\ t.sip = s.sip /\ t.srv = w.srv
          /\ t.req.trans = NoTrans /\ t.req.etag = "Current"
          /\ \/ t.req.state = "Active" /\ t.req.pend = "No"
             \/ t.req.state = "Pending" /\ t.req.pend = "Refresh"
          /\ status # "Disconnected"
      BY <1>4, <1>9, <2>1, <2>3 DEF Answers, Turned
    <3>2. QED
      BY <1>2, <1>3, <1>6, <1>9, <2>1, <3>1, NoSigIsNoStatus
         DEF Agreed, AtRest, UnderWay, AsTold, Modifies
  <2>4. QED
    BY <2>2, <2>3
<1>10. CASE /\ ~(s.req.state \in {"RunningInit", "Running"} /\ status = "OK")
            /\ ~(s.req.state = "Pending" /\ s.req.pend \in Modifies)
  <2>1. t.req.state = "Failed"
    BY <1>3, <1>4, <1>5, <1>10 DEF Answers, Turned, UnderWay
  <2>2. QED
    BY <1>7, <2>1
<1>11. QED
  BY <1>8, <1>9, <1>10

LEMMA AgreedStart ==
  ASSUME PublisherSound, Plain, NEW doc \in Docs, NEW auto \in Refreshes,
         NEW etag \in {"None", pub.iETag}, Start(doc, auto, etag)
  PROVE  \E t : IsNext(t) /\ AgreedAt(t)
<1>1. PICK t \in StartPublish(World, doc, auto, etag) : IsNext(t)
  BY Became DEF Start
<1>2. World \in AllWorlds
  BY SoundWorld, WorldsAreAll DEF Sound, InUse, Idle
<1>3. auto \in BOOLEAN /\ etag \in Tag
  BY ConstantsAssumption DEF PublisherSound, TypeOK, Publisher, Tag
<1>4. Begun(World, doc, t)
  BY <1>1, <1>2, <1>3, StartPublishBegins
<1>5. Agreed(t)
  BY <1>4, ConstantsAssumption
     DEF Begun, Carries, Plain, Agreed, AtRest, UnderWay, AsTold
<1>6. QED
  BY <1>1, <1>5 DEF AgreedAt

LEMMA ChangedAgreed ==
  ASSUME Plain, NEW s \in Worlds, NEW doc \in Docs, NEW t, Changed(s, doc, t),
         Agreed(s), Live(s), s.req.sig = NoSig, s.req.state \in {"Active", "Pending"}
  PROVE  Agreed(t)
<1>1. t.req.state = "Pending" => t.req.pend \in Modifies
  BY DEF Changed, AddPendingModify, Modifies, Worlds, Request
<1>2. AtRest(s) /\ UnderWay(s)
  BY DEF Agreed
<1>3. doc # NoDoc /\ NoTrans.answer = "None"
  BY ConstantsAssumption DEF NoTrans
<1>4. AtRest(t)
  BY <1>1, <1>2 DEF Changed, AtRest
<1>5. UnderWay(t)
  BY <1>2, <1>3 DEF Changed, AtRest, UnderWay, Carries, Plain
<1>6. AsTold(t)
  BY <1>1, <1>2 DEF Changed, AsTold, NoSig
<1>7. QED
  BY <1>3, <1>4, <1>5, <1>6 DEF Changed, Agreed

LEMMA AgreedModify ==
  ASSUME PublisherSound, Plain, AgreedAt(World), NEW doc \in Docs, Modify(doc)
  PROVE  \E t : IsNext(t) /\ AgreedAt(t)
<1>1. PICK t \in ModifyPublish(World, doc) : IsNext(t)
  BY Became DEF Modify
<1>2. /\ World \in Worlds /\ Agreed(World) /\ World.req = req /\ World.app = app
      /\ req.sig = NoSig
  BY WorldAgreed DEF Modify, Quiet
<1>3. Changed(World, doc, t) /\ World.req.state \in {"Active", "Pending"}
  BY <1>1, <1>2, ModifyPublishChanges DEF Modify, Plain
<1>4. Live(t) => Live(World)
  BY <1>2, <1>3 DEF Changed, Live, Modify
<1>5. Agreed(t)
  BY <1>2, <1>3, <1>4, ChangedAgreed DEF Agreed
<1>6. QED
  BY <1>1, <1>5 DEF AgreedAt

LEMMA AgreedLeave ==
  ASSUME PublisherSound, AgreedAt(World), NEW doc \in Docs, Leave(doc)
  PROVE  \E t : IsNext(t) /\ AgreedAt(t)
<1>1. PICK t \in ModifyPublishLeaves(World, doc) \cup StartPublishLeaves(World) :
        IsNext(t)
  BY Became DEF Leave
<1>2. World \in Worlds /\ Agreed(World) /\ World.req.sig = NoSig
  BY WorldAgreed DEF Leave, Quiet
<1>3. Leaves(World, t)
  BY <1>1, <1>2, CallLeaves
<1>4. Agreed(t)
  <2> SUFFICES ASSUME Live(t) PROVE Agreed(t)
    BY DEF Agreed
  <2>1. Live(World)
    BY <1>3 DEF Leaves, Live
  <2>2. World.app.doc # NoDoc /\ AtRest(World) /\ UnderWay(World) /\ AsTold(World)
    BY <1>2, <2>1 DEF Agreed
  <2>3. AtRest(t)
    BY <1>3, <2>2 DEF Leaves, AtRest
  <2>4. UnderWay(t)
    BY <1>2, <1>3, <2>2 DEF Leaves, AtRest, UnderWay, NoTrans
  <2>5. AsTold(t)
    BY <1>2, <1>3, <2>2 DEF Leaves, AsTold
  <2>6. QED
    BY <1>3, <2>2, <2>3, <2>4, <2>5 DEF Leaves, Agreed
<1>5. QED
  BY <1>1, <1>4 DEF AgreedAt

LEMMA AgreedEnd ==
  ASSUME NEW t, ~Live(t)
  PROVE  AgreedAt(t)
BY DEF AgreedAt, Agreed

LEMMA AgreedStop ==
  ASSUME PublisherSound, Stop
  PROVE  \E t : IsNext(t) /\ AgreedAt(t)
<1>1. PICK t \in StopPublish(World, req.etag) : IsNext(t)
  BY Became DEF Stop
<1>2. World \in Worlds /\ req.etag \in Tag
  BY ExistsInUse DEF Stop, Worlds, Request
<1>3. t.app.st = "stopping"
  BY <1>1, <1>2, StopPublishStops
<1>4. QED
  BY <1>1, <1>3, AgreedEnd DEF Live

LEMMA AgreedStopScratch ==
  ASSUME PublisherSound, StopScratch
  PROVE  \E t : IsNext(t) /\ AgreedAt(t)
<1>1. PICK t \in StopPublishScratch(World, pub.iETag) : IsNext(t)
  BY Became DEF StopScratch
<1>2. World \in AllWorlds
  BY SoundWorld, WorldsAreAll DEF Sound, InUse, Idle
<1>3. pub.iETag \in Tag
  BY DEF PublisherSound, TypeOK, Publisher
<1>4. t.app.st = "stopping"
  BY <1>1, <1>2, <1>3, StopPublishScratchStops
<1>5. QED
  BY <1>1, <1>4, AgreedEnd DEF Live

LEMMA AgreedClose ==
  ASSUME Close
  PROVE  \E t : IsNext(t) /\ AgreedAt(t)
<1> DEFINE t == [sip |-> sip', req |-> req', pub |-> pub', srv |-> srv', app |-> app']
<1>1. IsNext(t)
  BY DEF IsNext
<1>2. AgreedAt(t)
  BY DEF Close, AgreedAt
<1>3. QED
  BY <1>1, <1>2

LEMMA CallbackStaysAgreed ==
  ASSUME Plain, NEW s \in Worlds, Agreed(s), NEW w, Told(s, w), NEW u \in Callback(w),
         NEW t, GoesOn(s, u, t), s.req.sig # NoSig
  PROVE  Agreed(t)
<1> SUFFICES ASSUME Live(t) PROVE Agreed(t)
  BY DEF Agreed
<1>1. Live(u)
  BY DEF GoesOn, Live
<1>2. w.app.st = "on" /\ ~w.app.dropped /\ Live(s) /\ w \in Worlds
  BY <1>1, CallbackEnds DEF Worlds, Told
<1>3. /\ s.app.st \in {"starting", "modifying"} /\ w.app.doc = s.app.doc
      /\ w.app.sure <=> s.req.sig = "OK"
  BY <1>2 DEF Told, PublishReqComplete, Live, Worlds, AppState
<1>4. s.app.doc # NoDoc /\ AtRest(s) /\ UnderWay(s) /\ AsTold(s)
  BY <1>2 DEF Agreed
<1>5. Live(w) /\ Agreed(w) /\ w.req.sig = NoSig /\ w.req.state # "Running"
  <2>1. Live(w) /\ w.req.sig = NoSig
    BY <1>2 DEF Live, Told
  <2>2. AtRest(w)
    BY <1>4 DEF Told, AtRest
  <2>3. UnderWay(w) /\ w.req.state \notin {"Running", "RunningInit"}
    BY <1>3, <1>4 DEF Told, UnderWay, AsTold
  <2>4. AsTold(w)
    BY <1>2, <1>3, <1>4 DEF Told, AtRest, AsTold
  <2>5. QED
    BY <1>3, <1>4, <2>1, <2>2, <2>3, <2>4 DEF Agreed
<1>6. Agreed(u)
  <2>1. ASSUME NEW doc \in Docs, u \in ModifyPublish(w, doc)
        PROVE  Agreed(u)
    BY <1>2, <1>5, <2>1, ModifyPublishChanges, ChangedAgreed
  <2>2. QED
    BY <1>1, <1>2, <1>5, <2>1, CallbackCalls DEF Live
<1>7. QED
  BY <1>1, <1>6 DEF GoesOn, Agreed, AtRest, UnderWay, AsTold

LEMMA AgreedRunL ==
  ASSUME PublisherSound, Plain, AgreedAt(World), RunL
  PROVE  \E t : IsNext(t) /\ AgreedAt(t)
<1>1. PICK t \in Deliver(World) : IsNext(t)
  BY Became DEF RunL
<1>2. /\ World \in Worlds /\ Agreed(World) /\ InUse(World)
      /\ World.req.sig \in Status /\ World.req.sig # NoSig
  BY WorldAgreed DEF RunL, Worlds, Request
<1>3. CASE t.req = NoReq \/ t.app.dropped
  BY <1>1, <1>3 DEF AgreedAt, Agreed, Live
<1>4. CASE \E w : Told(World, w) /\ \E u \in Callback(w) : GoesOn(World, u, t)
  BY <1>1, <1>2, <1>4, CallbackStaysAgreed DEF AgreedAt
<1>5. QED
  BY <1>2, <1>3, <1>4, CompletionIsTold DEF Finished

LEMMA AgreedCompletion ==
  ASSUME PublisherSound, AgreedAt(World), Exists, Quiet,
         NEW s \in Worlds, s.app = app, s.srv = srv,
         s.req.state = req.state, s.req.pend = req.pend, s.req.sig = req.sig,
         s.req.trans \in {req.trans, NoTrans},
         s.req.etag = req.etag \/ req.trans # NoTrans,
         NEW status \in Status,
         status = "OK" => /\ req.trans.answer = "OK"
                          /\ s.req.trans = NoTrans /\ s.req.etag = req.trans.etag,
         status = "Temporary" => req.trans.answer = "Temporary",
         s.sip = sip \/ status = "Disconnected",
         NEW t \in Complete(s, status)
  PROVE  AgreedAt(t)
<1>1. World \in Worlds /\ Agreed(World) /\ World.req.sig = NoSig
  BY WorldAgreed DEF Quiet
<1>2. Agreed(t)
  BY <1>1, CompletionStaysAgreed, WorldFields
<1>3. QED
  BY <1>2 DEF AgreedAt

LEMMA AgreedExpiry ==
  ASSUME PublisherSound, AgreedAt(World), ExpiryFires
  PROVE  \E t : IsNext(t) /\ AgreedAt(t)
<1> DEFINE s == StopExpiryTimer(World)
<1>1. PICK t \in Complete(s, "TimedOut") : IsNext(t)
  BY Became DEF ExpiryFires
<1>2. World \in Worlds /\ World.req = req /\ req \in Request /\ Exists /\ Quiet
  BY ExistsInUse DEF ExpiryFires, Worlds
<1>3. Edited(World, s, [req EXCEPT !.expiry = FALSE])
  BY <1>2, Fields
<1> HIDE DEF s
<1>4. AgreedAt(t)
  BY <1>1, <1>2, <1>3, AgreedCompletion, WorldFields DEF Edited, Request, Status
<1>5. QED
  BY <1>1, <1>4

LEMMA AgreedResponse ==
  ASSUME PublisherSound, AgreedAt(World), Response
  PROVE  \E t : IsNext(t) /\ AgreedAt(t)
<1> DEFINE s == [World EXCEPT !.req.trans = NoTrans, !.req.method = "Status",
                              !.req.etag = World.req.trans.etag]
           status == World.req.trans.answer
           r == [req EXCEPT !.trans = NoTrans, !.method = "Status",
                            !.etag = req.trans.etag]
<1>1. PICK t \in Complete(s, status) : IsNext(t)
  BY Became DEF Response, PublishResp
<1>2. World \in Worlds /\ World.req = req /\ req \in Request /\ Exists /\ Quiet
  BY ExistsInUse DEF Response, Answered, Worlds
<1>3. status \in Status /\ req.trans # NoTrans /\ status = req.trans.answer
  BY <1>2 DEF Response, Answered, Status, NoTrans
<1>4. r \in Request
  BY <1>2 DEF Request, Trans, NoTrans, Tag
<1>5. /\ r.state = req.state /\ r.sig = req.sig /\ r.etag = req.trans.etag
      /\ r.pend = req.pend /\ r.trans = NoTrans
  BY <1>2 DEF Request
<1>6. s = [World EXCEPT !.req = r]
  BY <1>2 DEF World
<1> HIDE DEF r, s, status
<1>7. Edited(World, s, r)
  BY <1>2, <1>4, <1>6, Edit
<1>8. AgreedAt(t)
  BY <1>1, <1>2, <1>3, <1>5, <1>7, AgreedCompletion, WorldFields DEF Edited
<1>9. QED
  BY <1>1, <1>8

LEMMA AgreedTransaction ==
  ASSUME PublisherSound, AgreedAt(World), TransactionFails
  PROVE  \E t : IsNext(t) /\ AgreedAt(t)
<1> DEFINE s == [World EXCEPT !.req.trans = NoTrans, !.req.method = "Unknown"]
           r == [req EXCEPT !.trans = NoTrans, !.method = "Unknown"]
<1>1. PICK t \in Complete(s, "CommsBreak") : IsNext(t)
  BY Became DEF TransactionFails
<1>2. World \in Worlds /\ World.req = req /\ req \in Request /\ Exists /\ Quiet
  BY ExistsInUse DEF TransactionFails, Worlds
<1>3. r \in Request
  BY <1>2 DEF Request, Trans, NoTrans, Tag
<1>4. /\ r.state = req.state /\ r.sig = req.sig /\ r.etag = req.etag
      /\ r.pend = req.pend /\ r.trans = NoTrans
  BY <1>2 DEF Request
<1>5. s = [World EXCEPT !.req = r]
  BY <1>2 DEF World
<1> HIDE DEF r, s
<1>6. Edited(World, s, r)
  BY <1>2, <1>3, <1>5, Edit
<1>7. AgreedAt(t)
  BY <1>1, <1>2, <1>4, <1>6, AgreedCompletion, WorldFields DEF Edited, Status
<1>8. QED
  BY <1>1, <1>7

LEMMA AgreedDisconnect ==
  ASSUME PublisherSound, AgreedAt(World), NEW state \in SipStates, Disconnect(state)
  PROVE  \E t : IsNext(t) /\ AgreedAt(t)
<1> DEFINE s == [World EXCEPT !.sip = state]
           u == [s EXCEPT !.req.method = "Unknown"]
<1>1. PICK t \in IF ~Exists THEN {s} ELSE Complete(u, "Disconnected") : IsNext(t)
  BY Became DEF Disconnect
<1>2. s.req = req /\ s.pub = pub /\ s.app = app /\ s.srv = srv /\ (Exists => InUse(s))
  BY Reconnected
<1> HIDE DEF s
<1>3. CASE ~Exists
  BY <1>1, <1>2, <1>3 DEF Exists, AgreedAt
<1>4. CASE Exists
  <2>1. s \in Worlds /\ s.req \in Request /\ Quiet
    BY <1>2, <1>4 DEF InUse, Worlds, Disconnect
  <2>2. /\ u \in Worlds /\ u.app = app /\ u.srv = srv
        /\ u.req = [s.req EXCEPT !.method = "Unknown"]
    BY <1>2, <2>1 DEF Worlds, Request
  <2> HIDE DEF u
  <2>3. /\ u.req.state = req.state /\ u.req.pend = req.pend
        /\ u.req.sig = req.sig /\ u.req.etag = req.etag /\ u.req.trans = req.trans
    BY <1>2, <2>1, <2>2 DEF Request
  <2>4. AgreedAt(t)
    BY <1>1, <1>4, <2>1, <2>2, <2>3, AgreedCompletion DEF Status
  <2>5. QED
    BY <1>1, <2>4
<1>5. QED
  BY <1>3, <1>4

LEMMA AgreedSuspend ==
  ASSUME PublisherSound, AgreedAt(World), Suspend
  PROVE  \E t : IsNext(t) /\ AgreedAt(t)
<1> DEFINE s == [World EXCEPT !.sip = "Suspend"]
<1>1. s.req = req /\ s.pub = pub /\ s.srv = srv /\ s.app = app /\ s.sip = "Suspend"
  BY Reconnected DEF Suspend
<1> HIDE DEF s
<1>2. IsNext(s)
  BY <1>1 DEF IsNext, Suspend
<1>3. Agreed(World) => Agreed(s)
  BY <1>1, WorldFields DEF Agreed, Live, AtRest, UnderWay, AsTold
<1>4. QED
  BY <1>1, <1>2, <1>3, WorldFields DEF AgreedAt

LEMMA ResentAgreed ==
  ASSUME Plain, NEW s \in Worlds, Agreed(s), Live(s), s.req.sig = NoSig,
         s.req.state \in {"Active", "Pending"},
         NEW c, NEW t, Resent(s, "Running", c, t)
  PROVE  Agreed(t)
<1>1. s.app.doc # NoDoc /\ AtRest(s) /\ UnderWay(s) /\ AsTold(s)
  BY DEF Agreed
<1>2. t.req.trans.answer = "OK" => (s.app.st = "on" /\ ~s.app.sure) \/ t.srv = s.app.doc
  <2>1. CASE s.req.pend \in Modifies
    BY <1>1, <2>1 DEF Resent, AtRest, Modifies
  <2>2. CASE s.req.pend \notin Modifies
    BY <1>1, <2>2 DEF Resent, AsTold, Live
  <2>3. QED
    BY <2>1, <2>2
<1>3. AtRest(t) /\ UnderWay(t)
  BY <1>2 DEF Resent, AtRest, UnderWay, Plain
<1>4. AsTold(t)
  BY <1>1 DEF Resent, AsTold
<1>5. QED
  BY <1>1, <1>3, <1>4 DEF Agreed, Resent

LEMMA AgreedActivate ==
  ASSUME PublisherSound, Plain, AgreedAt(World), Activate
  PROVE  \E t : IsNext(t) /\ AgreedAt(t)
<1> DEFINE s == [World EXCEPT !.sip = "Active"]
           waits == sip = "Suspend" /\ Exists /\ req.state \in {"PendingInit", "Pending"}
<1>1. PICK t : IsNext(t) /\ (IF waits THEN t \in HandlePending(s) ELSE t = s)
  <2>1. PICK t \in (IF waits THEN HandlePending(s) ELSE {s})
                   \cup (IF "behind" \in Env THEN {s} ELSE {}) : IsNext(t)
    BY Became DEF Activate
  <2> HIDE DEF s, waits
  <2>2. QED
    BY <2>1 DEF Plain
<1>2. /\ s.req = req /\ s.pub = pub /\ s.srv = srv /\ s.app = app /\ s.sip = "Active"
      /\ Exists => InUse(s)
  BY Reconnected, ConstantsAssumption
<1> HIDE DEF s
<1>3. CASE ~Exists
  BY <1>1, <1>2, <1>3 DEF Exists, AgreedAt
<1>4. CASE Exists
  <2>1. World \in Worlds /\ Agreed(World) /\ req.sig = NoSig /\ s \in Worlds
    BY <1>2, <1>4, WorldAgreed DEF Quiet, Activate, InUse
  <2>2. Live(s) <=> Live(World)
    BY <1>2, WorldFields DEF Live
  <2>3. CASE ~Live(s)
    <3>1. t.app = s.app
      <4>1. waits => t.app = s.app
        BY <1>1, <1>2, <2>1, PendingRecovers DEF Recovers, Resent, Turned
      <4>2. QED
        BY <1>1, <4>1
    <3>2. QED
      BY <1>1, <2>3, <3>1, AgreedEnd DEF Live
  <2>4. CASE Live(s) /\ ~waits
    <3>1. req.state = "Pending" => sip = "Suspend"
      BY <2>1, <2>2, <2>4, WorldFields DEF Agreed, AtRest
    <3>2. req.state # "Pending"
      BY <1>4, <2>4, <3>1
    <3>3. Agreed(s)
      BY <1>2, <2>1, <2>2, <3>2, WorldFields DEF Agreed, AtRest, UnderWay, AsTold
    <3>4. QED
      BY <1>1, <2>4, <3>3 DEF AgreedAt
  <2>5. CASE Live(s) /\ waits
    <3>1. req.state = "Pending"
      BY <2>1, <2>2, <2>5, WorldFields DEF Agreed, UnderWay
    <3>2. Recovers(s, t)
      BY <1>1, <1>2, <2>1, <2>5, PendingRecovers
    <3>3. CASE Resent(s, "Running", s.req.refresh, t)
      <4>1. Resent(World, "Running", s.req.refresh, [t EXCEPT !.sip = sip])
        BY <1>2, <3>3, WorldFields DEF Resent, Worlds, PublisherSound, TypeOK
      <4>2. Agreed([t EXCEPT !.sip = sip])
        BY <1>2, <2>1, <2>2, <2>5, <3>1, <4>1, ResentAgreed, WorldFields
      <4>3. Agreed(t)
        BY <3>3, <4>2 DEF Resent, Worlds, Agreed, Live, AtRest, UnderWay, AsTold
      <4>4. QED
        BY <1>1, <4>3 DEF AgreedAt
    <3>4. CASE \E e \in {"OK", "NotReady"}, c \in BOOLEAN : Turned(s, t, "Failed", e, c)
      <4>1. /\ t.req.state = "Failed" /\ t.req.sig # NoSig /\ t.app = app
            /\ t.req.trans = req.trans
        BY <1>2, <3>4 DEF Turned, NoSig
      <4>2. app.doc # NoDoc /\ req.trans.answer # "Temporary"
        BY <2>1, <2>2, <2>5, WorldFields DEF Agreed, UnderWay
      <4>3. Agreed(t)
        BY <4>1, <4>2 DEF Agreed, AtRest, UnderWay, AsTold
      <4>4. QED
        BY <1>1, <4>3 DEF AgreedAt
    <3>5. QED
      BY <1>2, <3>1, <3>2, <3>3, <3>4 DEF Recovers
  <2>6. QED
    BY <2>3, <2>4, <2>5
<1>5. QED
  BY <1>3, <1>4

LEMMA RefreshStaysAgreed ==
  ASSUME Plain, NEW w \in Worlds, Agreed(w), Live(w), w.req.sig = NoSig,
         NEW s, Turned(w, s, w.req.state, w.req.sig, FALSE),
         s.req.pend = w.req.pend, s.req.data = w.req.data,
         NEW t, Refreshed(s, t)
  PROVE  Agreed(t)
<1>1. /\ s \in Worlds /\ s.app = w.app /\ s.pub = w.pub /\ s.sip = w.sip /\ s.srv = w.srv
      /\ s.req.state = w.req.state /\ s.req.etag = w.req.etag
      /\ s.req.trans = w.req.trans /\ s.req.sig = NoSig
  BY DEF Turned
<1>2. CASE t \in Complete(s, "TimedOut") \/ t \in Complete(s, "Completion")
  BY <1>1, <1>2, CompletionStaysAgreed DEF Status
<1>3. /\ w.app.doc # NoDoc /\ AtRest(w) /\ UnderWay(w) /\ AsTold(w)
      /\ AtRest(s) /\ UnderWay(s) /\ AsTold(s) /\ Live(s)
  BY <1>1 DEF Agreed, Live, AtRest, UnderWay, AsTold
<1>4. CASE t = s
  BY <1>1, <1>3, <1>4 DEF Agreed
<1>5. CASE /\ s.sip = "Suspend" /\ s.req.state \in {"Active", "Pending"}
           /\ Turned(s, t, "Pending", s.req.sig, TRUE)
           /\ t.req.pend = AddPendingRefresh(s.req.pend) /\ t.req.data = s.req.data
  <2>1. t.req.pend \in Modifies <=> s.req.pend \in Modifies
    BY <1>1, <1>5 DEF AddPendingRefresh, Modifies, Worlds, Request
  <2>2. /\ t.app = s.app /\ t.srv = s.srv /\ t.sip = "Suspend" /\ t.req.state = "Pending"
        /\ t.req.sig = NoSig /\ t.req.trans = s.req.trans /\ t.req.etag = s.req.etag
    BY <1>1, <1>5 DEF Turned
  <2>3. s.app.st # "starting"
    BY <1>1, <1>3, <1>5 DEF AsTold
  <2>4. AtRest(t)
    BY <1>1, <1>3, <1>5, <2>1, <2>2 DEF AtRest, Modifies
  <2>5. UnderWay(t)
    BY <1>3, <2>2 DEF UnderWay
  <2>6. AsTold(t)
    BY <1>1, <1>3, <1>5, <2>1, <2>2, <2>3 DEF AsTold, NoSig
  <2>7. QED
    BY <1>1, <1>3, <2>2, <2>4, <2>5, <2>6 DEF Agreed
<1>6. CASE s.req.state \in {"Active", "Pending"} /\ Resent(s, "Running", TRUE, t)
  BY <1>1, <1>3, <1>6, ResentAgreed DEF Agreed
<1>7. CASE /\ s.sip = "Active" /\ s.req.state \in {"Active", "Pending"}
           /\ t \in Complete(SetReqState(s, "Running"), "NotReady")
  <2> DEFINE u == SetReqState(s, "Running")
  <2>1. Turned(s, u, "Running", s.req.sig, s.req.refresh) /\ u.req.pend = s.req.pend
    BY <1>1, Turns, SetReqStateDoes DEF ReqState, Carried
  <2>2. u \in Worlds /\ u.req.state = "Running" /\ u.req.pend = "No"
    BY <1>3, <1>7, <2>1 DEF Turned, AtRest
  <2> HIDE DEF u
  <2>3. Answers(u, "NotReady", t)
    BY <1>7, <2>2, CompleteAnswers DEF u, Status
  <2>4. /\ t.req.state = "Failed" /\ t.req.sig # NoSig /\ t.app = s.app
        /\ t.req.trans = s.req.trans
    BY <2>1, <2>2, <2>3 DEF Answers, Turned, NoSig
  <2>5. QED
    BY <1>1, <1>3, <2>4 DEF Agreed, AtRest, UnderWay, AsTold
<1>8. QED
  BY <1>2, <1>4, <1>5, <1>6, <1>7 DEF Refreshed

LEMMA AgreedRefresh ==
  ASSUME PublisherSound, Plain, AgreedAt(World), RefreshFires
  PROVE  \E t : IsNext(t) /\ AgreedAt(t)
<1> DEFINE s == StopRefreshTimer(World)
<1>1. PICK t \in RefreshPublish(s) : IsNext(t)
  BY Became DEF RefreshFires
<1>2. /\ World \in Worlds /\ Agreed(World) /\ World.req.sig = NoSig /\ InUse(World)
      /\ World.req \in Request
  BY WorldAgreed DEF RefreshFires, Quiet, Worlds
<1>3. Turned(World, s, World.req.state, World.req.sig, FALSE)
  BY <1>2, Turns
<1>4. Edited(World, s, [World.req EXCEPT !.refresh = FALSE])
  BY <1>2, Fields
<1>5. /\ s \in Worlds /\ s.req.pend = World.req.pend /\ s.req.data = World.req.data
      /\ s.app = World.app
  BY <1>2, <1>4 DEF Edited, Request
<1> HIDE DEF s
<1>6. Refreshed(s, t)
  BY <1>1, <1>5, RefreshRefreshes
<1>7. CASE Live(World)
  BY <1>1, <1>2, <1>3, <1>5, <1>6, <1>7, RefreshStaysAgreed DEF AgreedAt
<1>8. CASE ~Live(World)
  <2>1. t.app = s.app
    <3>1. ASSUME NEW e \in Status, t \in Complete(s, e) PROVE t.app = s.app
      BY <1>5, <3>1, CompleteCompletes DEF Completed, Kept
    <3>2. ASSUME t \in Complete(SetReqState(s, "Running"), "NotReady") PROVE t.app = s.app
      <4>1. SetReqState(s, "Running") \in Worlds /\ SetReqState(s, "Running").app = s.app
        BY <1>5, SetReqStateDoes DEF Carried, Kept, ReqState
      <4>2. QED
        BY <3>2, <4>1, CompleteCompletes DEF Completed, Kept, Status
    <3>3. QED
      BY <1>6, <3>1, <3>2 DEF Refreshed, Turned, Resent, Status
  <2>2. QED
    BY <1>1, <1>5, <1>8, <2>1, AgreedEnd DEF Live
<1>9. QED
  BY <1>7, <1>8

LEMMA AgreedNext ==
  ASSUME PublisherSound, Plain, AgreedAt(World), Next
  PROVE  \E t : IsNext(t) /\ AgreedAt(t)
<1>1. CASE App
  <2>1. CASE \E doc \in Docs \ {app.doc} :
               \/ \E auto \in Refreshes, etag \in {"None", pub.iETag} : Start(doc, auto, etag)
               \/ Modify(doc)
               \/ Leave(doc)
    BY <2>1, AgreedStart, AgreedModify, AgreedLeave
  <2>2. QED
    BY <1>1, <2>1, AgreedStop, AgreedStopScratch, AgreedClose DEF App
<1>2. CASE Network
  BY <1>2, AgreedResponse, AgreedTransaction, AgreedDisconnect, AgreedSuspend,
     AgreedActivate DEF Network
<1>3. CASE Engine
  BY <1>3, AgreedRunL, AgreedExpiry, AgreedRefresh DEF Engine
<1>4. QED
  BY <1>1, <1>2, <1>3 DEF Next

(* When nothing is under way, the engine has the current ETag of a         *)
(* publication the application believes on, and the server has the         *)
(* document the application has been told is published; if the server      *)
(* never refuses a PUBLISH for the moment, a publication is not started    *)
(* while the connection is suspended nor modified while a PUBLISH is under *)
(* way, and HandlePendings reaches the request.                            *)
THEOREM ServerAgrees ==
  ASSUME Env \cap {"busy", "lateStart", "overlap", "behind"} = {}
  PROVE  Spec => []AgreesWithServer
<1> DEFINE Ind == PublisherSound /\ AgreedAt(World)
<1>1. Init => Ind
  <2>1. Init => AgreedAt(World)
    BY WorldFields DEF Init, AgreedAt
  <2>2. QED
    BY <2>1, InitSound
<1>2. Ind /\ [Next]_vars => Ind'
  <2>1. ASSUME Ind, Next PROVE Ind'
    <3>1. PublisherSound'
      BY <2>1, NextSteps, SoundNext DEF Steps
    <3>2. PICK t : IsNext(t) /\ AgreedAt(t)
      BY <2>1, AgreedNext DEF Plain
    <3>3. /\ World'.sip = t.sip /\ World'.req = t.req /\ World'.srv = t.srv
          /\ World'.app = t.app
      BY <3>2 DEF IsNext, World
    <3>4. AgreedAt(World')
      BY <3>2, <3>3 DEF AgreedAt, Agreed, Live, AtRest, UnderWay, AsTold
    <3>5. QED
      BY <3>1, <3>4
  <2>2. ASSUME Ind, UNCHANGED vars PROVE Ind'
    BY <2>2 DEF vars, PublisherSound, TypeOK, InUseHasRequest, Exists, World
  <2>3. QED
    BY <2>1, <2>2
<1>3. Ind => AgreesWithServer
  BY WorldFields DEF AgreesWithServer, Settled, AgreedAt, Agreed, Live, AtRest, AsTold, Exists
<1>4. QED
  BY <1>1, <1>2, <1>3, PTL DEF Spec

-----------------------------------------------------------------------------
(* The promise of the publisher API.                                       *)

(* The operation that brings the answer the application waits for, or      *)
(* keeps the publication that it has.                                      *)
Role(st) ==
  CASE st = "modifying" -> "PublishModify"
    [] st = "stopping" -> "StopPublish"
    [] OTHER -> "StartPublish"

(* The publisher remembers what it was asked for; a request at rest has no *)
(* transaction, so nothing that comes in can pass for the answer to a      *)
(* publication that is on.                                                 *)
Vowed(s) ==
  /\ s.app.st \in {"starting", "on", "modifying", "stopping"}
  /\ s.pub.iRequest = Role(s.app.st)
  /\ s.app.st \in {"starting", "on"} => s.req.type = "StartPublish"
  /\ s.app.st # "stopping" /\ s.req.state \in {"Active", "Pending"} =>
       s.req.trans = NoTrans
  /\ s.app.st = "on" => s.req.sig # "OK"

VowedAt(s) ==
  ~s.app.dropped => IF s.req = NoReq THEN s.app.st = "off" ELSE Vowed(s)

(* What a step may tell an application that was told a. *)
Turn(a, b) ==
  \/ b \in {a, "off"}
  \/ a = "off" /\ b \in {"starting", "stopping"}
  \/ a \in {"starting", "modifying"} /\ b = "on"
  \/ a = "on" /\ b = "modifying"
  \/ a \in {"starting", "on", "modifying"} /\ b = "stopping"

Promised(s, t) ==
  VowedAt(t) /\ (Turn(s.app.st, t.app.st) \/ s.app.dropped \/ t.app.dropped)

(* Every PUBLISH of the engine can be sent, the application makes no calls *)
(* that leave, nor from callbacks, nor while a PUBLISH is under way, and   *)
(* HandlePendings reaches the request.                                     *)
Simple == Env \cap {"sendFails", "modifyLeaves", "overlap", "reenter", "behind"} = {}

LEMMA WorldVowed ==
  ASSUME PublisherSound, Exists, VowedAt(World), AliveAt(World)
  PROVE  /\ World \in Worlds /\ (~World.app.dropped => Vowed(World))
         /\ Alive(World) /\ InUse(World)
         /\ World.sip = sip /\ World.req = req /\ World.pub = pub
         /\ World.srv = srv /\ World.app = app
BY WorldAlive DEF VowedAt, Exists

(* The engine's own steps tell the application nothing. *)
LEMMA Untold ==
  ASSUME NEW s, NEW t \in Worlds, t.app = s.app, ~t.app.dropped => Vowed(t)
  PROVE  Promised(s, t)
BY WorldsHaveRequests DEF Promised, VowedAt, Turn

LEMMA CompletionStaysVowed ==
  ASSUME NEW w \in Worlds, Alive(w), ~w.app.dropped => Vowed(w), w.req.sig = NoSig,
         NEW s \in Worlds, s.app = w.app, s.pub = w.pub,
         s.req.state = w.req.state, s.req.type = w.req.type,
         s.req.pend = w.req.pend, s.req.sig = NoSig,
         s.req.trans \in {w.req.trans, NoTrans},
         NEW status \in Status,
         status \in {"OK", "Temporary"} =>
           w.req.trans # NoTrans /\ s.req.trans = NoTrans,
         NEW t \in Complete(s, status)
  PROVE  t \in Worlds /\ t.app = w.app /\ (~t.app.dropped => Vowed(t))
<1>1. Kept(s, t)
  BY CompleteCompletes DEF Completed
<1>2. t \in Worlds /\ t.app = w.app /\ t.pub.iRequest = w.pub.iRequest
      /\ t.req.type = w.req.type
  BY <1>1 DEF Kept
<1> SUFFICES ASSUME ~t.app.dropped PROVE Vowed(t)
  BY <1>2
<1>3. Vowed(w)
  BY <1>2
<1>4. CASE w.app.st = "stopping"
  BY <1>2, <1>3, <1>4 DEF Vowed
<1>5. CASE w.app.st # "stopping"
  <2>1. Live(w)
    BY <1>2, <1>3, <1>5 DEF Live, Vowed
  <2>2. /\ w.req.state \in {"PendingInit", "RunningInit", "Active", "Running", "Pending"}
        /\ w.req.state = "Running" => s.req.pend = "No"
        /\ w.req.state = "PendingInit" => w.req.trans = NoTrans
        /\ w.app.st = "on" => w.req.state \in {"Active", "Running", "Pending"}
    BY <2>1 DEF Alive, Live, Starting, Started, Steady
  <2>3. Answers(s, status, t)
    BY <2>2, CompleteAnswers
  <2>4. /\ t.req.state \in {"Active", "Pending"} => t.req.trans = NoTrans
        /\ w.app.st = "on" => t.req.sig # "OK"
    BY <1>3, <1>5, <2>2, <2>3 DEF Answers, Turned, Vowed, Role, NoSig
  <2>5. QED
    BY <1>2, <1>3, <2>4 DEF Vowed
<1>6. QED
  BY <1>4, <1>5

LEMMA VowedStart ==
  ASSUME PublisherSound, NEW doc \in Docs, NEW auto \in Refreshes,
         NEW etag \in {"None", pub.iETag}, Start(doc, auto, etag)
  PROVE  \E t : IsNext(t) /\ Promised(World, t)
<1>1. PICK t \in StartPublish(World, doc, auto, etag) : IsNext(t)
  BY Became DEF Start
<1>2. World \in AllWorlds /\ World.app = app
  BY SoundWorld, WorldsAreAll, WorldFields DEF Sound, InUse, Idle
<1>3. auto \in BOOLEAN /\ etag \in Tag
  BY ConstantsAssumption DEF PublisherSound, TypeOK, Publisher, Tag
<1>4. Begun(World, doc, t)
  BY <1>1, <1>2, <1>3, StartPublishBegins
<1>5. Vowed(t) /\ t.req # NoReq
  BY <1>4, WorldsHaveRequests DEF Begun, Vowed, Role
<1>6. Turn(World.app.st, t.app.st)
  BY <1>2, <1>4 DEF Begun, Turn, Start
<1>7. QED
  BY <1>1, <1>5, <1>6 DEF Promised, VowedAt

LEMMA VowedModify ==
  ASSUME PublisherSound, Simple, VowedAt(World), AliveAt(World),
         NEW doc \in Docs, Modify(doc)
  PROVE  \E t : IsNext(t) /\ Promised(World, t)
<1>1. PICK t \in ModifyPublish(World, doc) : IsNext(t)
  BY Became DEF Modify
<1>2. /\ World \in Worlds /\ (~World.app.dropped => Vowed(World))
      /\ World.req = req /\ World.app = app
  BY WorldVowed DEF Modify
<1>3. Changed(World, doc, t) /\ req.state \in {"Active", "Pending"}
  BY <1>1, <1>2, ModifyPublishChanges DEF Modify, Simple
<1>4. ~t.app.dropped => Vowed(t)
  BY <1>2, <1>3 DEF Changed, Vowed, Role, Modify
<1>5. Turn(World.app.st, t.app.st) /\ t.req # NoReq
  BY <1>2, <1>3, WorldsHaveRequests DEF Changed, Turn, Modify
<1>6. QED
  BY <1>1, <1>4, <1>5 DEF Promised, VowedAt

(* A call of StartPublishL that leaves hides the request from its          *)
(* publisher, and changes nothing else.                                    *)
LEMMA VowedLeave ==
  ASSUME PublisherSound, Simple, VowedAt(World), AliveAt(World),
         NEW doc \in Docs, Leave(doc)
  PROVE  \E t : IsNext(t) /\ Promised(World, t)
<1>1. PICK t \in ModifyPublishLeaves(World, doc) \cup StartPublishLeaves(World) :
        IsNext(t)
  BY Became DEF Leave
<1>2. t = [World EXCEPT !.pub.found = FALSE]
  BY <1>1 DEF ModifyPublishLeaves, StartPublishLeaves, Simple
<1>3. World \in Worlds /\ (~World.app.dropped => Vowed(World))
  BY WorldVowed DEF Leave
<1>4. /\ t \in Worlds /\ t.app = World.app /\ t.req = World.req
      /\ t.pub.iRequest = World.pub.iRequest
  BY <1>2, <1>3 DEF Worlds, Publisher
<1>5. Promised(World, t)
  BY <1>3, <1>4, Untold DEF Vowed
<1>6. QED
  BY <1>1, <1>5

LEMMA VowedStop ==
  ASSUME PublisherSound, Stop
  PROVE  \E t : IsNext(t) /\ Promised(World, t)
<1>1. PICK t \in StopPublish(World, req.etag) : IsNext(t)
  BY Became DEF Stop
<1>2. World \in Worlds /\ req.etag \in Tag
  BY ExistsInUse DEF Stop, Worlds, Request
<1>3. InUse(t) /\ t.app.st = "stopping" /\ t.pub.iRequest = "StopPublish"
  BY <1>1, <1>2, StopPublishStops
<1>4. Vowed(t) /\ t.req # NoReq
  BY <1>3, WorldsHaveRequests DEF InUse, Vowed, Role
<1>5. Turn(World.app.st, t.app.st)
  BY <1>3, WorldFields DEF Turn, Stop
<1>6. QED
  BY <1>1, <1>4, <1>5 DEF Promised, VowedAt

LEMMA VowedStopScratch ==
  ASSUME PublisherSound, StopScratch
  PROVE  \E t : IsNext(t) /\ Promised(World, t)
<1>1. PICK t \in StopPublishScratch(World, pub.iETag) : IsNext(t)
  BY Became DEF StopScratch
<1>2. World \in AllWorlds
  BY SoundWorld, WorldsAreAll DEF Sound, InUse, Idle
<1>3. pub.iETag \in Tag
  BY DEF PublisherSound, TypeOK, Publisher
<1>4. InUse(t) /\ t.app.st = "stopping" /\ t.pub.iRequest = "StopPublish"
  BY <1>1, <1>2, <1>3, StopPublishScratchStops
<1>5. Vowed(t) /\ t.req # NoReq
  BY <1>4, WorldsHaveRequests DEF InUse, Vowed, Role
<1>6. Turn(World.app.st, t.app.st)
  BY <1>4, WorldFields DEF Turn, StopScratch
<1>7. QED
  BY <1>1, <1>5, <1>6 DEF Promised, VowedAt

LEMMA VowedClose ==
  ASSUME PublisherSound, Close
  PROVE  \E t : IsNext(t) /\ Promised(World, t)
<1> DEFINE t == [sip |-> sip', req |-> req', pub |-> pub', srv |-> srv', app |-> app']
<1>1. IsNext(t)
  BY DEF IsNext
<1>2. req' = NoReq /\ app'.st = "off"
  BY DEF Close, PublisherSound, TypeOK, AppState
<1>3. Promised(World, t)
  BY <1>2 DEF Promised, VowedAt, Turn
<1>4. QED
  BY <1>1, <1>3

(* The answer to each call is told, and the end of a publication that the  *)
(* application has.                                                        *)
LEMMA VowedRunL ==
  ASSUME PublisherSound, Simple, VowedAt(World), AliveAt(World), RunL
  PROVE  \E t : IsNext(t) /\ Promised(World, t)
<1> DEFINE s == World
<1>1. PICK t \in Deliver(World) : IsNext(t)
  BY Became DEF RunL
<1>2. /\ s \in Worlds /\ (~s.app.dropped => Vowed(s)) /\ Alive(s) /\ InUse(s)
      /\ s.req.sig \in Status /\ s.req.sig # NoSig
      /\ s.app \in AppState /\ s.pub \in Publisher
  BY WorldVowed DEF RunL, Worlds, Request
<1>3. s.app.st = "on" /\ ~s.app.dropped =>
        s.pub.iRequest = "StartPublish" /\ s.pub.iPublished /\ s.req.sig # "OK"
  BY <1>2 DEF Vowed, Role, Alive, Live, Started
<1>4. ASSUME NEW w, Told(s, w), NEW u \in Callback(w)
      PROVE  u = w /\ w.app = PublishReqComplete(s.app, s.req.sig)
  BY <1>4 DEF Callback, Simple, Told
<1>5. PublishReqComplete(s.app, s.req.sig).dropped = s.app.dropped
  BY <1>2 DEF PublishReqComplete, AppState
<1>6. ~s.app.dropped =>
        PublishReqComplete(s.app, s.req.sig).st =
          CASE s.app.st = "starting" -> IF s.req.sig = "OK" THEN "on" ELSE "off"
            [] s.app.st = "modifying" -> "on"
            [] s.app.st = "stopping" -> "off"
            [] OTHER -> "spurious"
  BY <1>2 DEF PublishReqComplete, AppState
<1> HIDE DEF s
<1>7. CASE Finished(s, t)
  <2>1. PICK a \in AppState :
          /\ t.app = PublishTerminated(a) /\ a.dropped = s.app.dropped
          /\ ~s.app.dropped => a.st # "spurious"
    <3>1. CASE t.app = PublishTerminated(s.app)
      BY <1>2, <3>1 DEF Vowed
    <3>2. CASE /\ ~(s.pub.iRequest = "StartPublish" /\ s.pub.iPublished
                                                   /\ s.req.sig # "OK")
               /\ \E w : Told(s, w) /\ \E u \in Callback(w) :
                                         t.app = PublishTerminated(u.app)
      <4>1. t.app = PublishTerminated(PublishReqComplete(s.app, s.req.sig))
        BY <1>4, <3>2
      <4>2. PublishReqComplete(s.app, s.req.sig) \in AppState
        BY <1>2, PublishReqCompleteType
      <4>3. ~s.app.dropped => PublishReqComplete(s.app, s.req.sig).st # "spurious"
        BY <1>2, <1>3, <1>6, <3>2 DEF Vowed
      <4>4. QED
        BY <1>5, <4>1, <4>2, <4>3
    <3>3. QED
      BY <1>7, <3>1, <3>2 DEF Finished
  <2>2. t.app.dropped = s.app.dropped /\ (~s.app.dropped => t.app.st = "off")
    BY <2>1 DEF PublishTerminated, AppState
  <2>3. Promised(s, t)
    BY <1>7, <2>2 DEF Finished, Promised, VowedAt, Turn
  <2>4. QED
    BY <1>1, <2>3 DEF s
<1>8. CASE t.req = NoReq /\ \E w : Told(s, w) /\ \E u \in Callback(w) : Removed(s, u, t)
  <2>1. /\ t.app = PublishReqComplete(s.app, s.req.sig)
        /\ \/ s.pub.iRequest = "StopPublish"
           \/ s.pub.iRequest = "StartPublish" /\ s.req.sig # "OK" /\ ~s.pub.iPublished
    BY <1>4, <1>8 DEF Removed
  <2>2. ~s.app.dropped => t.app.st = "off"
    BY <1>2, <1>3, <1>6, <2>1 DEF Vowed, Role
  <2>3. Promised(s, t)
    BY <1>5, <1>8, <2>1, <2>2 DEF Promised, VowedAt, Turn
  <2>4. QED
    BY <1>1, <2>3 DEF s
<1>9. CASE t.app.dropped
  BY <1>1, <1>9 DEF Promised, VowedAt, s
<1>10. CASE \E w : Told(s, w) /\ \E u \in Callback(w) : GoesOn(s, u, t)
  <2>1. PICK w : Told(s, w) /\ GoesOn(s, w, t)
    BY <1>4, <1>10
  <2>2. t.app = PublishReqComplete(s.app, s.req.sig)
    BY <2>1 DEF Told, GoesOn
  <2>3. ASSUME ~s.app.dropped
        PROVE  Vowed(t) /\ s.app.st \in {"starting", "modifying"} /\ t.app.st = "on"
    <3>1. s.app.st \in {"starting", "modifying"} /\ t.app.st = "on"
      BY <1>2, <1>3, <1>6, <2>1, <2>2, <2>3 DEF GoesOn, Vowed, Role
    <3>2. t.pub.iRequest = "StartPublish" /\ t.req.type = "StartPublish"
      BY <1>2, <2>1, <2>3, <3>1 DEF GoesOn, Told, Vowed, Role
    <3>3. t.req.sig = NoSig /\ t.req.state = s.req.state /\ t.req.trans = s.req.trans
      BY <2>1 DEF GoesOn, Told
    <3>4. QED
      BY <1>2, <2>3, <3>1, <3>2, <3>3 DEF Vowed, Role, NoSig
  <2>4. t.req # NoReq
    BY <2>1, WorldsHaveRequests DEF GoesOn
  <2>5. Promised(s, t)
    BY <1>5, <2>2, <2>3, <2>4 DEF Promised, VowedAt, Turn
  <2>6. QED
    BY <1>1, <2>5 DEF s
<1>11. QED
  BY <1>1, <1>2, <1>7, <1>8, <1>9, <1>10, CompletionIsTold DEF s

LEMMA VowedCompletion ==
  ASSUME PublisherSound, VowedAt(World), AliveAt(World), Exists, Quiet,
         NEW s \in Worlds, s.app = app, s.pub = pub,
         s.req.state = req.state, s.req.type = req.type, s.req.pend = req.pend,
         s.req.sig = req.sig, s.req.trans \in {req.trans, NoTrans},
         NEW status \in Status,
         status \in {"OK", "Temporary"} => req.trans # NoTrans /\ s.req.trans = NoTrans,
         NEW t \in Complete(s, status)
  PROVE  Promised(World, t)
<1>1. /\ World \in Worlds /\ Alive(World) /\ (~World.app.dropped => Vowed(World))
      /\ World.req.sig = NoSig
  BY WorldVowed DEF Quiet
<1>2. t \in Worlds /\ t.app = World.app /\ (~t.app.dropped => Vowed(t))
  BY <1>1, CompletionStaysVowed, WorldFields
<1>3. QED
  BY <1>2, Untold

LEMMA VowedExpiry ==
  ASSUME PublisherSound, VowedAt(World), AliveAt(World), ExpiryFires
  PROVE  \E t : IsNext(t) /\ Promised(World, t)
<1> DEFINE s == StopExpiryTimer(World)
<1>1. PICK t \in Complete(s, "TimedOut") : IsNext(t)
  BY Became DEF ExpiryFires
<1>2. World \in Worlds /\ World.req = req /\ req \in Request /\ Exists /\ Quiet
  BY ExistsInUse DEF ExpiryFires, Worlds
<1>3. Edited(World, s, [req EXCEPT !.expiry = FALSE])
  BY <1>2, Fields
<1> HIDE DEF s
<1>4. Promised(World, t)
  BY <1>1, <1>2, <1>3, VowedCompletion, WorldFields DEF Edited, Request, Status
<1>5. QED
  BY <1>1, <1>4

LEMMA VowedResponse ==
  ASSUME PublisherSound, VowedAt(World), AliveAt(World), Response
  PROVE  \E t : IsNext(t) /\ Promised(World, t)
<1> DEFINE s == [World EXCEPT !.req.trans = NoTrans, !.req.method = "Status",
                              !.req.etag = World.req.trans.etag]
           status == World.req.trans.answer
           r == [req EXCEPT !.trans = NoTrans, !.method = "Status",
                            !.etag = req.trans.etag]
<1>1. PICK t \in Complete(s, status) : IsNext(t)
  BY Became DEF Response, PublishResp
<1>2. World \in Worlds /\ World.req = req /\ req \in Request /\ Exists /\ Quiet
  BY ExistsInUse DEF Response, Answered, Worlds
<1>3. status \in Status /\ req.trans # NoTrans
  BY <1>2 DEF Response, Answered, Status, NoTrans
<1>4. r \in Request
  BY <1>2 DEF Request, Trans, NoTrans, Tag
<1>5. /\ r.state = req.state /\ r.sig = req.sig /\ r.type = req.type
      /\ r.pend = req.pend /\ r.trans = NoTrans
  BY <1>2 DEF Request
<1>6. s = [World EXCEPT !.req = r]
  BY <1>2 DEF World
<1> HIDE DEF r, s, status
<1>7. Edited(World, s, r)
  BY <1>2, <1>4, <1>6, Edit
<1>8. Promised(World, t)
  BY <1>1, <1>2, <1>3, <1>5, <1>7, VowedCompletion, WorldFields DEF Edited
<1>9. QED
  BY <1>1, <1>8

LEMMA VowedTransaction ==
  ASSUME PublisherSound, VowedAt(World), AliveAt(World), TransactionFails
  PROVE  \E t : IsNext(t) /\ Promised(World, t)
<1> DEFINE s == [World EXCEPT !.req.trans = NoTrans, !.req.method = "Unknown"]
           r == [req EXCEPT !.trans = NoTrans, !.method = "Unknown"]
<1>1. PICK t \in Complete(s, "CommsBreak") : IsNext(t)
  BY Became DEF TransactionFails
<1>2. World \in Worlds /\ World.req = req /\ req \in Request /\ Exists /\ Quiet
  BY ExistsInUse DEF TransactionFails, Worlds
<1>3. r \in Request
  BY <1>2 DEF Request, Trans, NoTrans, Tag
<1>4. /\ r.state = req.state /\ r.sig = req.sig /\ r.type = req.type
      /\ r.pend = req.pend /\ r.trans = NoTrans
  BY <1>2 DEF Request
<1>5. s = [World EXCEPT !.req = r]
  BY <1>2 DEF World
<1> HIDE DEF r, s
<1>6. Edited(World, s, r)
  BY <1>2, <1>3, <1>5, Edit
<1>7. Promised(World, t)
  BY <1>1, <1>2, <1>4, <1>6, VowedCompletion, WorldFields DEF Edited, Status
<1>8. QED
  BY <1>1, <1>7

LEMMA VowedDisconnect ==
  ASSUME PublisherSound, VowedAt(World), AliveAt(World),
         NEW state \in SipStates, Disconnect(state)
  PROVE  \E t : IsNext(t) /\ Promised(World, t)
<1> DEFINE s == [World EXCEPT !.sip = state]
           u == [s EXCEPT !.req.method = "Unknown"]
<1>1. PICK t \in IF ~Exists THEN {s} ELSE Complete(u, "Disconnected") : IsNext(t)
  BY Became DEF Disconnect
<1>2. s.req = req /\ s.pub = pub /\ s.app = app /\ (Exists => InUse(s))
  BY Reconnected
<1> HIDE DEF s
<1>3. CASE ~Exists
  BY <1>1, <1>2, <1>3, WorldFields DEF Exists, Promised, VowedAt, Turn
<1>4. CASE Exists
  <2>1. s \in Worlds /\ s.req \in Request /\ Quiet
    BY <1>2, <1>4 DEF InUse, Worlds, Disconnect
  <2>2. /\ u \in Worlds /\ u.app = app /\ u.pub = pub
        /\ u.req = [s.req EXCEPT !.method = "Unknown"]
    BY <1>2, <2>1 DEF Worlds, Request
  <2> HIDE DEF u
  <2>3. /\ u.req.state = req.state /\ u.req.type = req.type /\ u.req.pend = req.pend
        /\ u.req.sig = req.sig /\ u.req.trans = req.trans
    BY <1>2, <2>1, <2>2 DEF Request
  <2>4. Promised(World, t)
    BY <1>1, <1>4, <2>1, <2>2, <2>3, VowedCompletion DEF Status
  <2>5. QED
    BY <1>1, <2>4
<1>5. QED
  BY <1>3, <1>4

LEMMA VowedSuspend ==
  ASSUME PublisherSound, VowedAt(World), Suspend
  PROVE  \E t : IsNext(t) /\ Promised(World, t)
<1> DEFINE s == [World EXCEPT !.sip = "Suspend"]
<1>1. s.req = req /\ s.pub = pub /\ s.srv = srv /\ s.app = app /\ s.sip = "Suspend"
  BY Reconnected DEF Suspend
<1> HIDE DEF s
<1>2. IsNext(s)
  BY <1>1 DEF IsNext, Suspend
<1>3. Promised(World, s)
  BY <1>1, WorldFields DEF Promised, VowedAt, Vowed, Turn
<1>4. QED
  BY <1>2, <1>3

LEMMA VowedActivate ==
  ASSUME PublisherSound, Simple, VowedAt(World), AliveAt(World), Activate
  PROVE  \E t : IsNext(t) /\ Promised(World, t)
<1> DEFINE s == [World EXCEPT !.sip = "Active"]
           waits == sip = "Suspend" /\ Exists /\ req.state \in {"PendingInit", "Pending"}
<1>1. PICK t : IsNext(t) /\ (IF waits THEN t \in HandlePending(s) ELSE t = s)
  <2>1. PICK t \in (IF waits THEN HandlePending(s) ELSE {s})
                   \cup (IF "behind" \in Env THEN {s} ELSE {}) : IsNext(t)
    BY Became DEF Activate
  <2> HIDE DEF s, waits
  <2>2. QED
    BY <2>1 DEF Simple
<1>2. /\ s.req = req /\ s.pub = pub /\ s.srv = srv /\ s.app = app /\ s.sip = "Active"
      /\ Exists => InUse(s)
  BY Reconnected, ConstantsAssumption
<1> HIDE DEF s
<1>3. CASE ~waits
  BY <1>1, <1>2, <1>3, WorldFields DEF Promised, VowedAt, Vowed, Turn
<1>4. CASE waits
  <2>1. s \in Worlds /\ (~World.app.dropped => Vowed(World))
    BY <1>2, <1>4, WorldVowed DEF InUse
  <2>2. Resent(s, IF s.req.state = "PendingInit" THEN "RunningInit" ELSE "Running",
               s.req.refresh, t)
    BY <1>1, <1>2, <1>4, <2>1, PendingRecovers DEF Recovers, Simple
  <2>3. t \in Worlds /\ t.app = World.app
    BY <1>2, <2>2, WorldFields DEF Resent
  <2>4. ~t.app.dropped => Vowed(t)
    BY <1>2, <2>1, <2>2, <2>3, WorldFields DEF Resent, Vowed
  <2>5. QED
    BY <1>1, <2>3, <2>4, Untold
<1>5. QED
  BY <1>3, <1>4

LEMMA VowedRefresh ==
  ASSUME PublisherSound, Simple, VowedAt(World), AliveAt(World), RefreshFires
  PROVE  \E t : IsNext(t) /\ Promised(World, t)
<1> DEFINE s == StopRefreshTimer(World)
<1>1. PICK t \in RefreshPublish(s) : IsNext(t)
  BY Became DEF RefreshFires
<1>2. /\ World \in Worlds /\ Alive(World) /\ (~World.app.dropped => Vowed(World))
      /\ World.req.sig = NoSig
  BY WorldVowed DEF RefreshFires, Quiet
<1>3. Turned(World, s, World.req.state, World.req.sig, FALSE) /\ Carried(World, s)
  BY <1>2, Turns, RefreshTimerDoes
<1>4. /\ s \in Worlds /\ s.app = World.app /\ s.pub = World.pub
      /\ s.req.state = World.req.state /\ s.req.type = World.req.type
      /\ s.req.trans = World.req.trans /\ s.req.sig = NoSig
      /\ s.req.pend = World.req.pend
  BY <1>2, <1>3 DEF Turned, Carried
<1> HIDE DEF s
<1>5. Refreshed(s, t)
  BY <1>1, <1>4, RefreshRefreshes
<1>6. t \in Worlds /\ t.app = World.app /\ (~t.app.dropped => Vowed(t))
  <2>1. CASE t \in Complete(s, "TimedOut") \/ t \in Complete(s, "Completion")
    BY <1>2, <1>4, <2>1, CompletionStaysVowed DEF Status
  <2>2. CASE t = s
    BY <1>2, <1>4, <2>2 DEF Vowed
  <2>3. CASE /\ s.req.state \in {"Active", "Pending"}
             /\ Turned(s, t, "Pending", s.req.sig, TRUE)
    BY <1>2, <1>4, <2>3 DEF Turned, Vowed
  <2>4. CASE Resent(s, "Running", TRUE, t)
    BY <1>2, <1>4, <2>4 DEF Resent, Vowed
  <2>5. QED
    BY <1>5, <2>1, <2>2, <2>3, <2>4 DEF Refreshed, Simple
<1>7. QED
  BY <1>1, <1>6, Untold

LEMMA VowedNext ==
  ASSUME PublisherSound, Simple, VowedAt(World), AliveAt(World), Next
  PROVE  \E t : IsNext(t) /\ Promised(World, t)
<1>1. CASE App
  <2>1. CASE \E doc \in Docs \ {app.doc} :
               \/ \E auto \in Refreshes, etag \in {"None", pub.iETag} : Start(doc, auto, etag)
               \/ Modify(doc)
               \/ Leave(doc)
    BY <2>1, VowedStart, VowedModify, VowedLeave
  <2>2. QED
    BY <1>1, <2>1, VowedStop, VowedStopScratch, VowedClose DEF App
<1>2. CASE Network
  BY <1>2, VowedResponse, VowedTransaction, VowedDisconnect, VowedSuspend, VowedActivate
     DEF Network
<1>3. CASE Engine
  BY <1>3, VowedRunL, VowedExpiry, VowedRefresh DEF Engine
<1>4. QED
  BY <1>1, <1>2, <1>3 DEF Next

(* The turns are the steps of PublisherContract, as the publisher is in    *)
(* use exactly while the application has asked for something.              *)
LEMMA TurnsAreSteps ==
  ASSUME (pub'.iRequest # "None") = (app'.st # "off"), Turn(app.st, app'.st),
         app'.st = app.st =>
           (pub'.iRequest # "None") = (pub.iRequest # "None")
  PROVE  [Promise!Next]_Promise!vars
<1>1. CASE app'.st = app.st
  BY <1>1 DEF Promise!vars
<1>2. CASE app'.st # app.st
  <2> DEFINE b == app'.st
  <2>1. Promise!Becomes(b)
    BY DEF Promise!Becomes
  <2>2. b = "off" => Promise!Close
    BY <1>2, <2>1 DEF Promise!Close
  <2>3. app.st = "off" /\ b = "starting" => Promise!Start
    BY <2>1 DEF Promise!Start
  <2>4. app.st = "starting" /\ b = "on" => Promise!Started
    BY <2>1 DEF Promise!Started
  <2>5. app.st = "modifying" /\ b = "on" => Promise!Modified
    BY <2>1 DEF Promise!Modified
  <2>6. app.st = "on" /\ b = "modifying" => Promise!Modify
    BY <2>1 DEF Promise!Modify
  <2>7. app.st \in {"off", "starting", "on", "modifying"} /\ b = "stopping" => Promise!Stop
    BY <2>1 DEF Promise!Stop
  <2>8. QED
    BY <1>2, <2>2, <2>3, <2>4, <2>5, <2>6, <2>7 DEF Turn, Promise!Next
<1>3. QED
  BY <1>1, <1>2

(* The engine implements PublisherContract as far as the application has   *)
(* been told of every completion: a publisher has one publication at a     *)
(* time and is in use exactly that long, every call is answered once, and  *)
(* a publication that is on ends by an answer or by PublishTerminatedL.    *)
(* That the answer comes is liveness.                                      *)
THEOREM KeepsPromiseUntilDropped ==
  ASSUME Env \cap {"sendFails", "modifyLeaves", "overlap", "reenter", "behind"} = {}
  PROVE  Spec => /\ Promise!Init
                 /\ [][Promise!Next \/ app.dropped \/ app'.dropped]_Promise!vars
<1> DEFINE Ind == PublisherSound /\ AliveAt(World) /\ VowedAt(World)
<1>1. Init => Ind /\ Promise!Init
  <2>1. Init => AliveAt(World) /\ VowedAt(World)
    BY WorldFields DEF Init, AliveAt, Live, VowedAt
  <2>2. Init => Promise!Init
    BY DEF Init, Promise!Init
  <2>3. QED
    BY <2>1, <2>2, InitSound
<1>2. Ind /\ [Next]_vars =>
        Ind' /\ [Promise!Next \/ app.dropped \/ app'.dropped]_Promise!vars
  <2>1. ASSUME Ind, Next
        PROVE  Ind' /\ [Promise!Next \/ app.dropped \/ app'.dropped]_Promise!vars
    <3>1. PublisherSound'
      BY <2>1, NextSteps, SoundNext DEF Steps
    <3>2. PICK u : IsNext(u) /\ AliveAt(u)
      BY <2>1, AliveNext DEF Calm
    <3>3. AliveAt(World')
      BY <3>2 DEF IsNext, World, AliveAt, Alive, Live, Starting, Started, Steady, Modifying
    <3>4. PICK t : IsNext(t) /\ Promised(World, t)
      BY <2>1, VowedNext DEF Simple
    <3>5. /\ World'.req = t.req /\ World'.pub = t.pub /\ World'.app = t.app
          /\ World'.req = req' /\ World'.pub = pub' /\ World'.app = app'
      BY <3>4 DEF IsNext, World
    <3>6. VowedAt(World')
      BY <3>4, <3>5 DEF Promised, VowedAt, Vowed
    <3>7. ASSUME ~app.dropped, ~app'.dropped PROVE [Promise!Next]_Promise!vars
      <4>1. Turn(app.st, app'.st)
        BY <3>4, <3>5, <3>7, WorldFields DEF Promised
      <4>2. (pub'.iRequest # "None") = (app'.st # "off")
        BY <3>1, <3>5, <3>6, <3>7 DEF PublisherSound, InUseHasRequest, Exists, VowedAt, Vowed
      <4>3. (pub.iRequest # "None") = (app.st # "off")
        BY <2>1, <3>7, WorldFields
           DEF PublisherSound, InUseHasRequest, Exists, VowedAt, Vowed
      <4>4. QED
        BY <4>1, <4>2, <4>3, TurnsAreSteps
    <3>8. QED
      BY <3>1, <3>3, <3>6, <3>7
  <2>2. ASSUME Ind, UNCHANGED vars
        PROVE  Ind' /\ [Promise!Next \/ app.dropped \/ app'.dropped]_Promise!vars
    BY <2>2 DEF vars, PublisherSound, TypeOK, InUseHasRequest, Exists, World, Promise!vars
  <2>3. QED
    BY <2>1, <2>2
<1>3. QED
  BY <1>1, <1>2, PTL DEF Spec

-----------------------------------------------------------------------------
(* The promise in full, for publications that are not refreshed and a      *)
(* connection that is not suspended: no completion is dropped then.        *)

(* A change of the request that keeps what a later completion is told by.  *)
Fixed(s, t) ==
  /\ t \in Worlds
  /\ t.req.method = s.req.method /\ t.req.auto = s.req.auto
  /\ t.req.pend = s.req.pend

LEMMA FieldsFixed ==
  ASSUME NEW s \in Worlds
  PROVE  /\ \A x \in ReqState : Fixed(s, SetReqState(s, x))
         /\ \A x \in Status : Fixed(s, Post(s, x))
         /\ Fixed(s, StartRefreshTimer(s))
         /\ Fixed(s, StopRefreshTimer(s))
         /\ Fixed(s, StopExpiryTimer(s))
<1>0. s.req \in Request
  BY DEF Worlds
<1>1. ASSUME NEW x \in ReqState PROVE Fixed(s, SetReqState(s, x))
  <2>1. Edited(s, SetReqState(s, x), [s.req EXCEPT !.state = x])
    BY Fields
  <2>2. QED
    BY <1>0, <2>1 DEF Edited, Fixed, Request
<1>2. ASSUME NEW x \in Status PROVE Fixed(s, Post(s, x))
  <2>1. Edited(s, Post(s, x), [s.req EXCEPT !.sig = x])
    BY Fields
  <2>2. QED
    BY <1>0, <2>1 DEF Edited, Fixed, Request
<1>3. Fixed(s, StartRefreshTimer(s)) /\ Fixed(s, StopRefreshTimer(s))
  BY RefreshTimerDoes DEF Carried, Kept, SameWait, Fixed
<1>4. Fixed(s, StopExpiryTimer(s))
  <2>1. Edited(s, StopExpiryTimer(s), [s.req EXCEPT !.expiry = FALSE])
    BY Fields
  <2>2. QED
    BY <1>0, <2>1 DEF Edited, Fixed, Request
<1>5. QED
  BY <1>1, <1>2, <1>3, <1>4

LEMMA FixedTwice ==
  ASSUME NEW s, NEW t, NEW u, Fixed(s, t), Fixed(t, u)
  PROVE  Fixed(s, u)
BY DEF Fixed

LEMMA FailFixed ==
  ASSUME NEW s \in Worlds, NEW status \in Status
  PROVE  Fixed(s, Fail(s, status))
<1> DEFINE a == SetReqState(s, "Failed")
<1>1. Fixed(s, a)
  BY FieldsFixed DEF ReqState
<1> HIDE DEF a
<1>2. Fixed(a, Post(a, status))
  BY <1>1, FieldsFixed DEF Fixed
<1>3. QED
  BY <1>1, <1>2, FixedTwice DEF Fail, a

LEMMA BranchFixed ==
  ASSUME NEW s \in Worlds, NEW status \in Status,
         NEW t \in {CompleteStart(s, status), CompleteModify(s, status),
                    CompleteStop(s, status), Fail(StopExpiryTimer(s), status)}
  PROVE  Fixed(s, t)
<1> DEFINE u == StopExpiryTimer(s)
           a == SetReqState(u, "Active")
           b == StartRefreshTimer(a)
           c == SetReqState(u, "Complete")
<1>1. Fixed(s, u)
  BY FieldsFixed
<1>2. Fixed(u, a)
  BY <1>1, FieldsFixed DEF Fixed, ReqState
<1>3. Fixed(a, b)
  BY <1>2, FieldsFixed DEF Fixed
<1>4. Fixed(u, c)
  BY <1>1, FieldsFixed DEF Fixed, ReqState
<1>5. \E x \in Status : t \in {Fail(u, x), Post(b, x), Post(c, x)}
  BY DEF CompleteStart, CompleteModify, CompleteStop, Status
<1> HIDE DEF u, a, b, c
<1>6. PICK x \in Status : t \in {Fail(u, x), Post(b, x), Post(c, x)}
  BY <1>5
<1>7. CASE t = Fail(u, x)
  BY <1>1, <1>7, FailFixed, FixedTwice DEF Fixed
<1>8. CASE t = Post(b, x)
  <2>1. Fixed(b, t)
    BY <1>3, <1>8, FieldsFixed DEF Fixed
  <2>2. QED
    BY <1>1, <1>2, <1>3, <2>1, FixedTwice
<1>9. CASE t = Post(c, x)
  <2>1. Fixed(c, t)
    BY <1>4, <1>9, FieldsFixed DEF Fixed
  <2>2. QED
    BY <1>1, <1>4, <2>1, FixedTwice
<1>10. QED
  BY <1>6, <1>7, <1>8, <1>9

(* Only the answer to a refresh marks the request for the completion after *)
(* it to be dropped.                                                       *)
LEMMA CompletionFixed ==
  ASSUME NEW s \in Worlds, NEW status \in Status, NEW t \in Complete(s, status),
         s.req.pend = "No", s.req.state # "Pending",
         s.req.state = "Running" => s.req.type = "PublishModify"
  PROVE  Fixed(s, t)
<1>1. CASE status = "Disconnected"
  <2> DEFINE a == StopExpiryTimer(s)
             b == StopRefreshTimer(a)
  <2>1. Fixed(s, a)
    BY FieldsFixed
  <2>2. Fixed(a, b)
    BY <2>1, FieldsFixed DEF Fixed
  <2>3. Fixed(b, Fail(b, status))
    BY <2>2, FailFixed DEF Fixed
  <2>4. t = Fail(b, status)
    BY <1>1 DEF Complete
  <2> HIDE DEF a, b
  <2>5. QED
    BY <2>1, <2>2, <2>3, <2>4, FixedTwice
<1>2. CASE status # "Disconnected"
  <2> DEFINE a == StopRefreshTimer(s)
             Branches == {CompleteStart(a, status), CompleteModify(a, status),
                          CompleteStop(a, status), Fail(StopExpiryTimer(a), status)}
  <2>1. PICK u \in Branches : t = [u EXCEPT !.req.data = NoDoc, !.req.pend = "No"]
    BY <1>2 DEF Complete, DoCompletePublication
  <2>2. Fixed(s, a)
    BY FieldsFixed
  <2>3. Fixed(a, u)
    BY <2>1, <2>2, BranchFixed DEF Fixed
  <2>4. u \in Worlds /\ u.req \in Request
    BY <2>3 DEF Fixed, Worlds
  <2> HIDE DEF a, Branches
  <2>5. [u.req EXCEPT !.data = NoDoc, !.pend = "No"] \in Request
    BY <2>4 DEF Request
  <2>6. t = [u EXCEPT !.req = [u.req EXCEPT !.data = NoDoc, !.pend = "No"]]
    BY <2>1, <2>4 DEF Worlds, Request
  <2>7. Edited(u, t, [u.req EXCEPT !.data = NoDoc, !.pend = "No"])
    BY <2>4, <2>5, <2>6, Edit
  <2>8. QED
    BY <2>2, <2>3, <2>4, <2>7 DEF Edited, Fixed, Request
<1>3. QED
  BY <1>1, <1>2

(* A publication that is on has no transaction, and what it is told next   *)
(* is its end; a modification that is answered leaves none behind.         *)
Bound(s) ==
  LET r == s.req IN
  /\ s.app.st \in {"starting", "on", "modifying", "stopping"}
  /\ s.pub.iRequest = Role(s.app.st)
  /\ r.method # "StatusETag" /\ r.auto = FALSE /\ r.pend = "No"
  /\ r.state \notin {"Pending", "PendingInit"}
  /\ r.state = "Running" => r.type = "PublishModify" /\ r.sig = NoSig
  /\ s.app.st = "starting" =>
       /\ r.sig = NoSig => r.state = "RunningInit"
       /\ r.sig = "OK" => r.state = "Active" /\ r.trans = NoTrans
  /\ s.app.st = "on" =>
       /\ s.pub.iPublished = TRUE /\ r.trans = NoTrans /\ r.sig # "OK"
       /\ r.sig = NoSig => r.state \in {"Active", "Running"}
  /\ s.app.st = "modifying" =>
       /\ s.pub.iPublished = TRUE
       /\ IF r.sig = NoSig
            THEN r.state = "Running"
            ELSE \/ r.sig \in {"Completion", "Disconnected"}
                 \/ r.state = "Active" /\ r.trans = NoTrans

BoundAt(s) ==
  s.app.dropped = FALSE /\ (IF s.req = NoReq THEN s.app.st = "off" ELSE Bound(s))

Bounded(s, t) == BoundAt(t) /\ Turn(s.app.st, t.app.st)

(* No publication is refreshed, the connection is never suspended, and the *)
(* application modifies when no PUBLISH is under way, and not in callbacks.*)
Unrefreshed ==
  /\ TRUE \notin Refreshes /\ "Suspend" \notin SipStates
  /\ Env \cap {"overlap", "reenter"} = {}

LEMMA WorldBound ==
  ASSUME PublisherSound, Exists, BoundAt(World)
  PROVE  /\ World \in Worlds /\ Bound(World) /\ InUse(World)
         /\ World.app.dropped = FALSE
         /\ World.sip = sip /\ World.req = req /\ World.pub = pub
         /\ World.srv = srv /\ World.app = app
BY ExistsInUse, WorldFields DEF BoundAt, Exists

LEMMA CompletionStaysBound ==
  ASSUME NEW w \in Worlds, Bound(w), w.req.sig = NoSig,
         NEW s \in Worlds, s.app = w.app, s.pub = w.pub,
         s.req.state = w.req.state, s.req.type = w.req.type,
         s.req.pend = w.req.pend, s.req.auto = w.req.auto,
         s.req.method # "StatusETag", s.req.sig = NoSig,
         s.req.trans \in {w.req.trans, NoTrans},
         NEW status \in Status,
         status \in {"OK", "Temporary"} =>
           w.req.trans # NoTrans /\ s.req.trans = NoTrans,
         NEW t \in Complete(s, status)
  PROVE  t \in Worlds /\ t.app = w.app /\ Bound(t)
<1>1. s.req.state = "Running" => s.req.type = "PublishModify" /\ s.req.pend = "No"
  BY DEF Bound
<1>2. /\ Fixed(s, t) /\ Completed(s, status, t) /\ Answers(s, status, t)
  BY <1>1, CompletionFixed, CompleteCompletes, CompleteAnswers DEF Bound
<1>3. /\ t \in Worlds /\ t.app = w.app /\ t.pub.iRequest = w.pub.iRequest
      /\ t.req.type = w.req.type
      /\ t.req.method # "StatusETag" /\ t.req.auto = FALSE /\ t.req.pend = "No"
  BY <1>2 DEF Completed, Kept, Fixed, Bound
<1>4. CASE w.req.state \in Ended \cup {"Stopping"}
  <2>1. w.app.st = "stopping"
    BY <1>4 DEF Bound, Ended
  <2>2. t.req.state \in Ended
    BY <1>2, <1>4 DEF Completed
  <2>3. QED
    BY <1>3, <2>1, <2>2 DEF Bound, Ended
<1>5. CASE w.req.state \in {"RunningInit", "Active", "Running"}
  <2>1. t.pub = w.pub /\ t.req.trans = s.req.trans
    BY <1>2, <1>5 DEF Answers, Turned
  <2>2. /\ t.req.state \in {"Active", "Failed"}
        /\ t.req.sig \in Status
        /\ t.req.sig = status \/ t.req.sig = "Completion"
    BY <1>1, <1>2, <1>5 DEF Answers, Turned, Status
  <2>3. CASE w.app.st = "starting"
    <3>1. w.req.state = "RunningInit"
      BY <2>3 DEF Bound
    <3>2. t.req.sig = "OK" => t.req.state = "Active" /\ t.req.trans = NoTrans
      BY <1>2, <2>1, <2>2, <3>1 DEF Answers, Turned
    <3>3. QED
      BY <1>3, <2>1, <2>2, <2>3, <3>2, NoSigIsNoStatus DEF Bound
  <2>4. CASE w.app.st = "on"
    <3>1. t.req.sig # "OK" /\ t.req.trans = NoTrans
      BY <2>1, <2>2, <2>4 DEF Bound
    <3>2. QED
      BY <1>3, <2>1, <2>2, <2>4, <3>1, NoSigIsNoStatus DEF Bound
  <2>5. CASE w.app.st = "modifying"
    <3>1. w.req.state = "Running" /\ s.req.type = "PublishModify"
      BY <2>5 DEF Bound
    <3>2. \/ t.req.sig \in {"Completion", "Disconnected"}
          \/ t.req.state = "Active" /\ t.req.trans = NoTrans
      BY <1>2, <2>1, <3>1 DEF Answers, Turned
    <3>3. QED
      BY <1>3, <2>1, <2>2, <2>5, <3>2, NoSigIsNoStatus DEF Bound
  <2>6. CASE w.app.st = "stopping"
    BY <1>3, <2>1, <2>2, <2>6 DEF Bound
  <2>7. QED
    BY <2>3, <2>4, <2>5, <2>6 DEF Bound
<1>6. QED
  BY <1>3, <1>4, <1>5 DEF Bound, Worlds, Request, ReqState, Ended

LEMMA BoundUntold ==
  ASSUME NEW s, s.app.dropped = FALSE, NEW t \in Worlds, t.app = s.app, Bound(t)
  PROVE  Bounded(s, t)
BY WorldsHaveRequests DEF Bounded, BoundAt, Turn

LEMMA BoundCompletion ==
  ASSUME PublisherSound, BoundAt(World), Exists, Quiet,
         NEW s \in Worlds, s.app = app, s.pub = pub,
         s.req.state = req.state, s.req.type = req.type, s.req.pend = req.pend,
         s.req.auto = req.auto, s.req.method # "StatusETag",
         s.req.sig = req.sig, s.req.trans \in {req.trans, NoTrans},
         NEW status \in Status,
         status \in {"OK", "Temporary"} => req.trans # NoTrans /\ s.req.trans = NoTrans,
         NEW t \in Complete(s, status)
  PROVE  Bounded(World, t)
<1>1. /\ World \in Worlds /\ Bound(World) /\ World.req.sig = NoSig
      /\ World.app.dropped = FALSE
  BY WorldBound DEF Quiet
<1>2. t \in Worlds /\ t.app = World.app /\ Bound(t)
  BY <1>1, CompletionStaysBound, WorldFields
<1>3. QED
  BY <1>1, <1>2, BoundUntold

(* A stop leaves what its own completion is told by. *)
LEMMA StopFixed ==
  ASSUME NEW s \in Worlds, NEW etag \in Tag, NEW t \in StopPublish(s, etag),
         s.req.pend = "No"
  PROVE  Fixed(s, t) /\ t.app.dropped = s.app.dropped
<1> DEFINE x == SetReqState(s, "Stopping")
           w == StopRefreshTimer(x)
           v == [w EXCEPT !.req.type = "StopPublish", !.req.etag = etag,
                          !.req.given = @ \/ etag # "None"]
           asked(u) == [Asks(u, "stopping", NoDoc) EXCEPT
                          !.pub.iRequest = "StopPublish", !.pub.iPublished = FALSE]
           ended == SetReqState(v, "Complete")
           sent(u) == [u EXCEPT !.req.expiry = TRUE]
           stopped == IF etag = "None" THEN Complete(ended, "OK")
                      ELSE {sent(u) : u \in DoPublish(v, NoDoc, TRUE)}
                           \cup IfNotSent(v, Complete(v, "NotReady"))
<1>0. t \in {asked(u) : u \in stopped}
  BY DEF StopPublish
<1>1. \/ \E u \in Complete(ended, "OK") : t = asked(u)
      \/ \E u \in DoPublish(v, NoDoc, TRUE) : t = asked(sent(u))
      \/ \E u \in Complete(v, "NotReady") : t = asked(u)
  <2> HIDE DEF asked, v, ended, sent
  <2>1. PICK u \in stopped : t = asked(u)
    BY <1>0
  <2>2. QED
    BY <2>1 DEF IfNotSent
<1>2. Fixed(s, v) /\ v.app = s.app /\ v.req.state = "Stopping"
  <2>1. Fixed(s, x) /\ x.app = s.app /\ x.req.state = "Stopping"
    BY FieldsFixed, SetReqStateDoes DEF Carried, Kept, ReqState
  <2> HIDE DEF x
  <2>2. Fixed(x, w) /\ w.app = x.app /\ w.req.state = "Stopping"
    BY <2>1, FieldsFixed, RefreshTimerDoes DEF Fixed, Carried, Kept, SameWait
  <2> DEFINE g == w.req.given \/ etag # "None"
             r == [w.req EXCEPT !.type = "StopPublish", !.etag = etag, !.given = g]
  <2>3. w \in Worlds /\ w.req \in Request /\ g \in BOOLEAN
    BY <2>2 DEF Fixed, Worlds
  <2>4. v = [w EXCEPT !.req = r]
    BY <2>3 DEF Worlds, Request
  <2> HIDE DEF w, g, v
  <2>5. /\ r \in Request /\ r.state = w.req.state /\ r.pend = w.req.pend
        /\ r.method = w.req.method /\ r.auto = w.req.auto
    BY <2>3 DEF Request
  <2> HIDE DEF r
  <2>6. Edited(w, v, r)
    BY <2>3, <2>4, <2>5, Edit
  <2>7. Fixed(w, v) /\ v.app = w.app /\ v.req.state = "Stopping"
    BY <2>2, <2>5, <2>6 DEF Edited, Fixed
  <2>8. QED
    BY <2>1, <2>2, <2>7, FixedTwice
<1>3. v \in Worlds
  BY <1>2 DEF Fixed
<1> HIDE DEF x, w, v
<1>4. Fixed(v, ended) /\ ended.app = v.app /\ ended.req.state = "Complete"
  BY <1>3, FieldsFixed, SetReqStateDoes DEF Carried, Kept, ReqState
<1> HIDE DEF ended
<1>5. ASSUME NEW u, Fixed(s, u), u.app = s.app, t = asked(u)
      PROVE  Fixed(s, t) /\ t.app.dropped = s.app.dropped
  <2>1. InUse(t) /\ t.req = u.req /\ t.app.dropped = u.app.dropped
    BY <1>5, StopAsked DEF Fixed
  <2> HIDE DEF asked
  <2>2. QED
    BY <1>5, <2>1 DEF Fixed, InUse
<1>6. ASSUME NEW a, Fixed(s, a), a.app = s.app, a.req.state \in {"Stopping", "Complete"},
             NEW status \in Status, NEW u \in Complete(a, status)
      PROVE  Fixed(s, u) /\ u.app = s.app
  <2>1. a \in Worlds /\ a.req.pend = "No"
    BY <1>6 DEF Fixed
  <2>2. Fixed(a, u) /\ Kept(a, u)
    BY <1>6, <2>1, CompletionFixed, CompleteCompletes DEF Completed
  <2>3. QED
    BY <1>6, <2>2, FixedTwice DEF Kept
<1>7. ASSUME NEW u \in DoPublish(v, NoDoc, TRUE)
      PROVE  Fixed(s, sent(u)) /\ sent(u).app = s.app
  <2>1. Kept(v, u) /\ SameWait(v, u)
    BY <1>3, PublishKeeps DEF Bodies
  <2>2. u \in Worlds /\ u.req \in Request
    BY <2>1 DEF Kept, Worlds
  <2>3. [u.req EXCEPT !.expiry = TRUE] \in Request
    BY <2>2 DEF Request
  <2>4. Edited(u, sent(u), [u.req EXCEPT !.expiry = TRUE])
    BY <2>2, <2>3, Edit
  <2>5. Fixed(v, sent(u)) /\ sent(u).app = v.app
    BY <2>1, <2>2, <2>4 DEF Edited, Request, Fixed, Kept, SameWait
  <2>6. QED
    BY <1>2, <2>5, FixedTwice
<1> HIDE DEF asked, sent
<1>8. Fixed(s, ended) /\ ended.app = s.app
  BY <1>2, <1>4, FixedTwice
<1>9. CASE \E u \in Complete(ended, "OK") : t = asked(u)
  <2>1. PICK u, e : e = "OK" /\ u \in Complete(ended, e) /\ t = asked(u)
    BY <1>9
  <2>2. QED
    BY <1>4, <1>5, <1>6, <1>8, <2>1 DEF Status
<1>10. CASE \E u \in Complete(v, "NotReady") : t = asked(u)
  <2>1. PICK u, e : e = "NotReady" /\ u \in Complete(v, e) /\ t = asked(u)
    BY <1>10
  <2>2. QED
    BY <1>2, <1>5, <1>6, <2>1 DEF Status
<1>11. QED
  BY <1>1, <1>5, <1>7, <1>9, <1>10

LEMMA BoundStart ==
  ASSUME PublisherSound, Unrefreshed, NEW doc \in Docs, NEW auto \in Refreshes,
         NEW etag \in {"None", pub.iETag}, Start(doc, auto, etag)
  PROVE  \E t : IsNext(t) /\ Bounded(World, t)
<1>1. PICK t \in StartPublish(World, doc, auto, etag) : IsNext(t)
  BY Became DEF Start
<1>2. /\ World \in AllWorlds /\ World.app = app /\ World.sip = sip
      /\ sip # "Suspend" /\ auto = FALSE
  BY SoundWorld, WorldsAreAll, WorldFields, ConstantsAssumption
     DEF Sound, InUse, Idle, Unrefreshed, PublisherSound, TypeOK
<1>3. auto \in BOOLEAN /\ etag \in Tag
  BY ConstantsAssumption DEF PublisherSound, TypeOK, Publisher, Tag
<1>4. Begun(World, doc, t) /\ t.req.auto = auto
  BY <1>1, <1>2, <1>3, StartPublishBegins
<1>5. Bound(t) /\ t.req # NoReq
  BY <1>2, <1>4, WorldsHaveRequests DEF Begun, Bound, Role, NoSig
<1>6. Turn(World.app.st, t.app.st)
  BY <1>2, <1>4 DEF Begun, Turn, Start
<1>7. QED
  BY <1>1, <1>4, <1>5, <1>6 DEF Bounded, BoundAt, Begun

LEMMA BoundModify ==
  ASSUME PublisherSound, Unrefreshed, BoundAt(World), NEW doc \in Docs, Modify(doc)
  PROVE  \E t : IsNext(t) /\ Bounded(World, t)
<1>1. PICK t \in ModifyPublish(World, doc) : IsNext(t)
  BY Became DEF Modify
<1>2. /\ World \in Worlds /\ Bound(World) /\ World.app.dropped = FALSE
      /\ World.req = req /\ World.app = app /\ World.sip = sip /\ sip # "Suspend"
      /\ req.sig = NoSig
  BY WorldBound DEF Modify, Quiet, Unrefreshed, PublisherSound, TypeOK
<1>3. Changed(World, doc, t)
  BY <1>1, <1>2, ModifyPublishChanges DEF Modify, Unrefreshed
<1>4. Bound(t)
  BY <1>2, <1>3 DEF Changed, Bound, Role, Modify
<1>5. Turn(World.app.st, t.app.st) /\ t.req # NoReq /\ t.app.dropped = FALSE
  BY <1>2, <1>3, WorldsHaveRequests DEF Changed, Turn, Modify
<1>6. QED
  BY <1>1, <1>4, <1>5 DEF Bounded, BoundAt

LEMMA BoundLeave ==
  ASSUME PublisherSound, BoundAt(World), NEW doc \in Docs, Leave(doc)
  PROVE  \E t : IsNext(t) /\ Bounded(World, t)
<1>1. PICK t \in ModifyPublishLeaves(World, doc) \cup StartPublishLeaves(World) :
        IsNext(t)
  BY Became DEF Leave
<1>2. /\ World \in Worlds /\ Bound(World) /\ World.app.dropped = FALSE
      /\ World.req.sig = NoSig
  BY WorldBound DEF Leave, Quiet
<1>3. Leaves(World, t)
  BY <1>1, <1>2, CallLeaves
<1>4. Bound(t)
  <2>1. /\ t.app = World.app /\ t.pub.iRequest = World.pub.iRequest
        /\ t.pub.iPublished = World.pub.iPublished
        /\ t.req.sig = NoSig /\ t.req.method = World.req.method
        /\ t.req.auto = World.req.auto /\ t.req.pend = World.req.pend
        /\ t.req.trans = World.req.trans
    BY <1>2, <1>3 DEF Leaves
  <2>2. \/ t.req.state = World.req.state
        \/ World.req.state = "Active" /\ t.req.state = "Running"
    BY <1>2, <1>3 DEF Leaves, Bound
  <2>3. t.req.state = "Running" => t.req.type = "PublishModify"
    BY <1>2, <1>3 DEF Leaves, Bound
  <2>4. QED
    BY <1>2, <2>1, <2>2, <2>3 DEF Bound, NoSig
<1>5. Bounded(World, t)
  BY <1>2, <1>3, <1>4, BoundUntold DEF Leaves
<1>6. QED
  BY <1>1, <1>5

LEMMA BoundStop ==
  ASSUME PublisherSound, BoundAt(World), Stop
  PROVE  \E t : IsNext(t) /\ Bounded(World, t)
<1>1. PICK t \in StopPublish(World, req.etag) : IsNext(t)
  BY Became DEF Stop
<1>2. /\ World \in Worlds /\ Bound(World) /\ World.app.dropped = FALSE
      /\ World.req = req /\ req.etag \in Tag
  BY WorldBound DEF Stop, Worlds, Request
<1>3. /\ InUse(t) /\ t.app.st = "stopping" /\ t.pub.iRequest = "StopPublish"
      /\ t.req.state \in Ended \cup {"Stopping"}
  BY <1>1, <1>2, StopPublishStops
<1>4. Fixed(World, t) /\ t.app.dropped = FALSE
  BY <1>1, <1>2, StopFixed DEF Bound
<1>5. Bound(t) /\ t.req # NoReq
  BY <1>2, <1>3, <1>4, WorldsHaveRequests DEF InUse, Bound, Role, Fixed, Ended
<1>6. Turn(World.app.st, t.app.st)
  BY <1>3, WorldFields DEF Turn, Stop
<1>7. QED
  BY <1>1, <1>4, <1>5, <1>6 DEF Bounded, BoundAt

LEMMA BoundStopScratch ==
  ASSUME PublisherSound, BoundAt(World), StopScratch
  PROVE  \E t : IsNext(t) /\ Bounded(World, t)
<1>1. PICK t \in StopPublishScratch(World, pub.iETag) : IsNext(t)
  BY Became DEF StopScratch
<1>2. World \in AllWorlds /\ World.app.dropped = FALSE
  BY SoundWorld, WorldsAreAll DEF Sound, InUse, Idle, BoundAt
<1>3. pub.iETag \in Tag
  BY DEF PublisherSound, TypeOK, Publisher
<1>4. /\ InUse(t) /\ t.app.st = "stopping" /\ t.pub.iRequest = "StopPublish"
      /\ t.req.state = "Stopping" /\ t.req.pend = "No" /\ t.req.method = "Unknown"
      /\ t.req.auto = FALSE /\ t.app.dropped = World.app.dropped
  BY <1>1, <1>2, <1>3, StopPublishScratchStops
<1>5. Bound(t) /\ t.req # NoReq
  BY <1>4, WorldsHaveRequests DEF InUse, Bound, Role
<1>6. Turn(World.app.st, t.app.st)
  BY <1>4, WorldFields DEF Turn, StopScratch
<1>7. QED
  BY <1>1, <1>2, <1>4, <1>5, <1>6 DEF Bounded, BoundAt

LEMMA BoundClose ==
  ASSUME PublisherSound, Close
  PROVE  \E t : IsNext(t) /\ Bounded(World, t)
<1> DEFINE t == [sip |-> sip', req |-> req', pub |-> pub', srv |-> srv', app |-> app']
<1>1. IsNext(t)
  BY DEF IsNext
<1>2. req' = NoReq /\ app'.st = "off" /\ app'.dropped = FALSE
  BY DEF Close, PublisherSound, TypeOK, AppState
<1>3. Bounded(World, t)
  BY <1>2 DEF Bounded, BoundAt, Turn
<1>4. QED
  BY <1>1, <1>3

LEMMA BoundRunL ==
  ASSUME PublisherSound, Unrefreshed, BoundAt(World), RunL
  PROVE  \E t : IsNext(t) /\ Bounded(World, t)
<1> DEFINE s == World
<1>1. PICK t \in Deliver(World) : IsNext(t)
  BY Became DEF RunL
<1>2. /\ s \in Worlds /\ Bound(s) /\ InUse(s) /\ s.app.dropped = FALSE
      /\ s.req.sig \in Status /\ s.req.sig # NoSig
      /\ s.app \in AppState /\ s.pub \in Publisher
  BY WorldBound DEF RunL, Worlds, Request
<1>3. s.app.st = "on" =>
        s.pub.iRequest = "StartPublish" /\ s.pub.iPublished /\ s.req.sig # "OK"
  BY <1>2 DEF Bound, Role
<1>4. ASSUME NEW w, Told(s, w), NEW u \in Callback(w)
      PROVE  u = w /\ w.app = PublishReqComplete(s.app, s.req.sig)
  BY <1>4 DEF Callback, Unrefreshed, Told
<1>5. PublishReqComplete(s.app, s.req.sig).dropped = FALSE
  BY <1>2 DEF PublishReqComplete, AppState
<1>6. PublishReqComplete(s.app, s.req.sig).st =
        CASE s.app.st = "starting" -> IF s.req.sig = "OK" THEN "on" ELSE "off"
          [] s.app.st = "modifying" -> "on"
          [] s.app.st = "stopping" -> "off"
          [] OTHER -> "spurious"
  BY <1>2 DEF PublishReqComplete, AppState
<1> HIDE DEF s
<1>7. CASE Finished(s, t)
  <2>1. PICK a \in AppState :
          t.app = PublishTerminated(a) /\ a.dropped = FALSE /\ a.st # "spurious"
    <3>1. CASE t.app = PublishTerminated(s.app)
      BY <1>2, <3>1 DEF Bound
    <3>2. CASE /\ ~(s.pub.iRequest = "StartPublish" /\ s.pub.iPublished
                                                   /\ s.req.sig # "OK")
               /\ \E w : Told(s, w) /\ \E u \in Callback(w) :
                                         t.app = PublishTerminated(u.app)
      <4>1. t.app = PublishTerminated(PublishReqComplete(s.app, s.req.sig))
        BY <1>4, <3>2
      <4>2. PublishReqComplete(s.app, s.req.sig) \in AppState
        BY <1>2, PublishReqCompleteType
      <4>3. PublishReqComplete(s.app, s.req.sig).st # "spurious"
        BY <1>2, <1>3, <1>6, <3>2 DEF Bound
      <4>4. QED
        BY <1>5, <4>1, <4>2, <4>3
    <3>3. QED
      BY <1>7, <3>1, <3>2 DEF Finished
  <2>2. t.app.dropped = FALSE /\ t.app.st = "off"
    BY <2>1 DEF PublishTerminated, AppState
  <2>3. Bounded(s, t)
    BY <1>7, <2>2 DEF Finished, Bounded, BoundAt, Turn
  <2>4. QED
    BY <1>1, <2>3 DEF s
<1>8. CASE t.req = NoReq /\ \E w : Told(s, w) /\ \E u \in Callback(w) : Removed(s, u, t)
  <2>1. /\ t.app = PublishReqComplete(s.app, s.req.sig)
        /\ \/ s.pub.iRequest = "StopPublish"
           \/ s.pub.iRequest = "StartPublish" /\ s.req.sig # "OK" /\ ~s.pub.iPublished
    BY <1>4, <1>8 DEF Removed
  <2>2. t.app.st = "off"
    BY <1>2, <1>3, <1>6, <2>1 DEF Bound, Role
  <2>3. Bounded(s, t)
    BY <1>5, <1>8, <2>1, <2>2 DEF Bounded, BoundAt, Turn
  <2>4. QED
    BY <1>1, <2>3 DEF s
<1>9. s.req.method # "StatusETag"
  BY <1>2 DEF Bound
<1>10. CASE \E w : Told(s, w) /\ \E u \in Callback(w) : GoesOn(s, u, t)
  <2>1. PICK w : Told(s, w) /\ GoesOn(s, w, t)
    BY <1>4, <1>10
  <2>2. t.app = PublishReqComplete(s.app, s.req.sig)
    BY <2>1 DEF Told, GoesOn
  <2>3. s.app.st \in {"starting", "modifying"} /\ t.app.st = "on"
    BY <1>2, <1>3, <1>6, <2>1, <2>2 DEF GoesOn, Bound, Role
  <2>4. /\ t.pub.iRequest = "StartPublish" /\ t.pub.iPublished = TRUE
        /\ s.req.state = "Active" /\ s.req.trans = NoTrans
    BY <1>2, <2>1, <2>3 DEF GoesOn, Told, Bound, Role, Worlds, Publisher
  <2>5. /\ t.req.sig = NoSig /\ t.req.state = s.req.state /\ t.req.trans = s.req.trans
        /\ t.req.pend = s.req.pend /\ t.req.auto = s.req.auto /\ t.req.method = "Unknown"
    BY <2>1 DEF GoesOn, Told
  <2>6. Bound(t) /\ t.req # NoReq
    BY <1>2, <2>1, <2>3, <2>4, <2>5, WorldsHaveRequests DEF GoesOn, Bound, Role, NoSig
  <2>7. Bounded(s, t)
    BY <1>5, <2>2, <2>3, <2>6 DEF Bounded, BoundAt, Turn
  <2>8. QED
    BY <1>1, <2>7 DEF s
<1>11. QED
  BY <1>1, <1>2, <1>7, <1>8, <1>9, <1>10, CompletionIsTold DEF s

LEMMA BoundExpiry ==
  ASSUME PublisherSound, BoundAt(World), ExpiryFires
  PROVE  \E t : IsNext(t) /\ Bounded(World, t)
<1> DEFINE s == StopExpiryTimer(World)
<1>1. PICK t \in Complete(s, "TimedOut") : IsNext(t)
  BY Became DEF ExpiryFires
<1>2. /\ World \in Worlds /\ World.req = req /\ req \in Request /\ Exists /\ Quiet
      /\ req.method # "StatusETag"
  BY WorldBound DEF ExpiryFires, Worlds, Bound
<1>3. Edited(World, s, [req EXCEPT !.expiry = FALSE])
  BY <1>2, Fields
<1> HIDE DEF s
<1>4. Bounded(World, t)
  BY <1>1, <1>2, <1>3, BoundCompletion, WorldFields DEF Edited, Request, Status
<1>5. QED
  BY <1>1, <1>4

LEMMA BoundResponse ==
  ASSUME PublisherSound, BoundAt(World), Response
  PROVE  \E t : IsNext(t) /\ Bounded(World, t)
<1> DEFINE s == [World EXCEPT !.req.trans = NoTrans, !.req.method = "Status",
                              !.req.etag = World.req.trans.etag]
           status == World.req.trans.answer
           r == [req EXCEPT !.trans = NoTrans, !.method = "Status",
                            !.etag = req.trans.etag]
<1>1. PICK t \in Complete(s, status) : IsNext(t)
  BY Became DEF Response, PublishResp
<1>2. World \in Worlds /\ World.req = req /\ req \in Request /\ Exists /\ Quiet
  BY WorldBound DEF Response, Answered, Worlds
<1>3. status \in Status /\ req.trans # NoTrans
  BY <1>2 DEF Response, Answered, Status, NoTrans
<1>4. r \in Request
  BY <1>2 DEF Request, Trans, NoTrans, Tag
<1>5. /\ r.state = req.state /\ r.sig = req.sig /\ r.type = req.type
      /\ r.pend = req.pend /\ r.auto = req.auto /\ r.trans = NoTrans
      /\ r.method = "Status"
  BY <1>2 DEF Request
<1>6. s = [World EXCEPT !.req = r]
  BY <1>2 DEF World
<1> HIDE DEF r, s, status
<1>7. Edited(World, s, r)
  BY <1>2, <1>4, <1>6, Edit
<1>8. Bounded(World, t)
  BY <1>1, <1>2, <1>3, <1>5, <1>7, BoundCompletion, WorldFields DEF Edited
<1>9. QED
  BY <1>1, <1>8

LEMMA BoundTransaction ==
  ASSUME PublisherSound, BoundAt(World), TransactionFails
  PROVE  \E t : IsNext(t) /\ Bounded(World, t)
<1> DEFINE s == [World EXCEPT !.req.trans = NoTrans, !.req.method = "Unknown"]
           r == [req EXCEPT !.trans = NoTrans, !.method = "Unknown"]
<1>1. PICK t \in Complete(s, "CommsBreak") : IsNext(t)
  BY Became DEF TransactionFails
<1>2. World \in Worlds /\ World.req = req /\ req \in Request /\ Exists /\ Quiet
  BY WorldBound DEF TransactionFails, Worlds
<1>3. r \in Request
  BY <1>2 DEF Request, Trans, NoTrans, Tag
<1>4. /\ r.state = req.state /\ r.sig = req.sig /\ r.type = req.type
      /\ r.pend = req.pend /\ r.auto = req.auto /\ r.trans = NoTrans
      /\ r.method = "Unknown"
  BY <1>2 DEF Request
<1>5. s = [World EXCEPT !.req = r]
  BY <1>2 DEF World
<1> HIDE DEF r, s
<1>6. Edited(World, s, r)
  BY <1>2, <1>3, <1>5, Edit
<1>7. Bounded(World, t)
  BY <1>1, <1>2, <1>4, <1>6, BoundCompletion, WorldFields DEF Edited, Status
<1>8. QED
  BY <1>1, <1>7

LEMMA BoundDisconnect ==
  ASSUME PublisherSound, BoundAt(World), NEW state \in SipStates, Disconnect(state)
  PROVE  \E t : IsNext(t) /\ Bounded(World, t)
<1> DEFINE s == [World EXCEPT !.sip = state]
           u == [s EXCEPT !.req.method = "Unknown"]
<1>1. PICK t \in IF ~Exists THEN {s} ELSE Complete(u, "Disconnected") : IsNext(t)
  BY Became DEF Disconnect
<1>2. s.req = req /\ s.pub = pub /\ s.app = app /\ (Exists => InUse(s))
  BY Reconnected
<1> HIDE DEF s
<1>3. CASE ~Exists
  BY <1>1, <1>2, <1>3, WorldFields DEF Exists, Bounded, BoundAt, Turn
<1>4. CASE Exists
  <2>1. s \in Worlds /\ s.req \in Request /\ Quiet
    BY <1>2, <1>4 DEF InUse, Worlds, Disconnect
  <2>2. /\ u \in Worlds /\ u.app = app /\ u.pub = pub
        /\ u.req = [s.req EXCEPT !.method = "Unknown"]
    BY <1>2, <2>1 DEF Worlds, Request
  <2> HIDE DEF u
  <2>3. /\ u.req.state = req.state /\ u.req.type = req.type /\ u.req.pend = req.pend
        /\ u.req.sig = req.sig /\ u.req.trans = req.trans /\ u.req.auto = req.auto
        /\ u.req.method = "Unknown"
    BY <1>2, <2>1, <2>2 DEF Request
  <2>4. Bounded(World, t)
    BY <1>1, <1>4, <2>1, <2>2, <2>3, BoundCompletion DEF Status
  <2>5. QED
    BY <1>1, <2>4
<1>5. QED
  BY <1>3, <1>4

(* Nothing waits for a connection that is not suspended. *)
LEMMA BoundActivate ==
  ASSUME PublisherSound, Unrefreshed, BoundAt(World), Activate
  PROVE  \E t : IsNext(t) /\ Bounded(World, t)
<1> DEFINE s == [World EXCEPT !.sip = "Active"]
           waits == sip = "Suspend" /\ Exists /\ req.state \in {"PendingInit", "Pending"}
<1>1. ~waits
  BY DEF Unrefreshed, PublisherSound, TypeOK
<1>2. IsNext(s)
  <2>1. PICK t \in (IF waits THEN HandlePending(s) ELSE {s})
                   \cup (IF "behind" \in Env THEN {s} ELSE {}) : IsNext(t)
    BY Became DEF Activate
  <2> HIDE DEF s, waits
  <2>2. t = s
    BY <1>1, <2>1
  <2>3. QED
    BY <2>1, <2>2
<1>3. s.req = req /\ s.pub = pub /\ s.app = app
  BY Reconnected, ConstantsAssumption
<1> HIDE DEF s
<1>4. Bounded(World, s)
  BY <1>3, WorldFields DEF Bounded, BoundAt, Bound, Turn
<1>5. QED
  BY <1>2, <1>4

(* The refresh timer of a publication without refresh ends it. *)
LEMMA RefreshEnds ==
  ASSUME NEW s \in Worlds, NEW t \in RefreshPublish(s),
         ~s.req.auto, s.req.state # "Pending"
  PROVE  t \in Complete(s, "TimedOut") \/ t \in Complete(s, "Completion")
BY DEF RefreshPublish, Worlds, Request, ReqState

LEMMA BoundRefresh ==
  ASSUME PublisherSound, BoundAt(World), RefreshFires
  PROVE  \E t : IsNext(t) /\ Bounded(World, t)
<1> DEFINE s == StopRefreshTimer(World)
<1>1. PICK t \in RefreshPublish(s) : IsNext(t)
  BY Became DEF RefreshFires
<1>2. /\ World \in Worlds /\ World.req = req /\ req \in Request /\ Exists /\ Quiet
      /\ Bound(World)
  BY WorldBound DEF RefreshFires, Worlds
<1>3. Edited(World, s, [req EXCEPT !.refresh = FALSE])
  BY <1>2, Fields
<1> HIDE DEF s
<1>4. /\ s \in Worlds /\ s.app = app /\ s.pub = pub
      /\ s.req.state = req.state /\ s.req.type = req.type /\ s.req.pend = req.pend
      /\ s.req.auto = req.auto /\ s.req.method = req.method
      /\ s.req.sig = req.sig /\ s.req.trans = req.trans
  BY <1>2, <1>3, WorldFields DEF Edited, Request
<1>5. /\ req.auto = FALSE /\ req.method # "StatusETag"
      /\ req.state \in ReqState \ {"Pending", "PendingInit"}
  BY <1>2 DEF Bound, Request
<1>6. t \in Complete(s, "TimedOut") \/ t \in Complete(s, "Completion")
  <2>1. ~s.req.auto /\ s.req.state # "Pending"
    BY <1>4, <1>5
  <2>2. QED
    BY <1>1, <1>4, <2>1, RefreshEnds
<1>7. CASE t \in Complete(s, "TimedOut")
  <2>1. PICK e : e = "TimedOut" /\ t \in Complete(s, e)
    BY <1>7
  <2>2. Bounded(World, t)
    BY <1>2, <1>4, <1>5, <2>1, BoundCompletion DEF Status
  <2>3. QED
    BY <1>1, <2>2
<1>8. CASE t \in Complete(s, "Completion")
  <2>1. PICK e : e = "Completion" /\ t \in Complete(s, e)
    BY <1>8
  <2>2. Bounded(World, t)
    BY <1>2, <1>4, <1>5, <2>1, BoundCompletion DEF Status
  <2>3. QED
    BY <1>1, <2>2
<1>9. QED
  BY <1>6, <1>7, <1>8

LEMMA BoundNext ==
  ASSUME PublisherSound, Unrefreshed, BoundAt(World), Next
  PROVE  \E t : IsNext(t) /\ Bounded(World, t)
<1>1. CASE App
  <2>1. CASE \E doc \in Docs \ {app.doc} :
               \/ \E auto \in Refreshes, etag \in {"None", pub.iETag} : Start(doc, auto, etag)
               \/ Modify(doc)
               \/ Leave(doc)
    BY <2>1, BoundStart, BoundModify, BoundLeave
  <2>2. QED
    BY <1>1, <2>1, BoundStop, BoundStopScratch, BoundClose DEF App
<1>2. CASE Network
  <2>1. ~Suspend
    BY DEF Unrefreshed, Suspend
  <2>2. QED
    BY <1>2, <2>1, BoundResponse, BoundTransaction, BoundDisconnect, BoundActivate
       DEF Network
<1>3. CASE Engine
  BY <1>3, BoundRunL, BoundExpiry, BoundRefresh DEF Engine
<1>4. QED
  BY <1>1, <1>2, <1>3 DEF Next

(* The invariant, for both of the theorems that follow. *)
LEMMA BoundHolds ==
  ASSUME Unrefreshed
  PROVE  /\ Init => PublisherSound /\ BoundAt(World) /\ Promise!Init
         /\ PublisherSound /\ BoundAt(World) /\ [Next]_vars =>
              (PublisherSound /\ BoundAt(World))' /\ [Promise!Next]_Promise!vars
<1>1. Init => PublisherSound /\ BoundAt(World) /\ Promise!Init
  <2>1. Init => BoundAt(World)
    BY WorldFields DEF Init, BoundAt
  <2>2. Init => Promise!Init
    BY DEF Init, Promise!Init
  <2>3. QED
    BY <2>1, <2>2, InitSound
<1>2. ASSUME PublisherSound, BoundAt(World), Next
      PROVE  (PublisherSound /\ BoundAt(World))' /\ [Promise!Next]_Promise!vars
  <2>1. PublisherSound'
    BY <1>2, NextSteps, SoundNext DEF Steps
  <2>2. PICK t : IsNext(t) /\ Bounded(World, t)
    BY <1>2, BoundNext
  <2>3. /\ World'.req = t.req /\ World'.pub = t.pub /\ World'.app = t.app
        /\ World'.req = req' /\ World'.pub = pub' /\ World'.app = app'
    BY <2>2 DEF IsNext, World
  <2>4. BoundAt(World')
    BY <2>2, <2>3 DEF Bounded, BoundAt, Bound
  <2>5. Turn(app.st, app'.st)
    BY <2>2, <2>3, WorldFields DEF Bounded
  <2>6. (pub'.iRequest # "None") = (app'.st # "off")
    BY <2>1, <2>3, <2>4 DEF PublisherSound, InUseHasRequest, Exists, BoundAt, Bound
  <2>7. (pub.iRequest # "None") = (app.st # "off")
    BY <1>2, WorldFields DEF PublisherSound, InUseHasRequest, Exists, BoundAt, Bound
  <2>8. QED
    BY <2>1, <2>4, <2>5, <2>6, <2>7, TurnsAreSteps
<1>3. ASSUME PublisherSound, BoundAt(World), UNCHANGED vars
      PROVE  (PublisherSound /\ BoundAt(World))' /\ [Promise!Next]_Promise!vars
  BY <1>3 DEF vars, PublisherSound, TypeOK, InUseHasRequest, Exists, World, Promise!vars
<1>4. QED
  BY <1>1, <1>2, <1>3

(* Without refreshes and suspended connections, the engine implements all  *)
(* that PublisherContract promises about the steps, whatever else happens  *)
(* to the PUBLISH requests: refused, lost, late, not sent, their calls     *)
(* left.  A refresh, a suspension or a call from a callback can have a     *)
(* completion dropped, a modification during a modification has one answer *)
(* for two calls.  That the answer comes is liveness.                      *)
THEOREM ImplementsPublisherContract ==
  ASSUME TRUE \notin Refreshes, "Suspend" \notin SipStates,
         Env \cap {"overlap", "reenter"} = {}
  PROVE  Spec => Promise!Init /\ [][Promise!Next]_Promise!vars
<1>1. Unrefreshed
  BY DEF Unrefreshed
<1>2. QED
  BY <1>1, BoundHolds, PTL DEF Spec

(* No completion is dropped then: CSimplePublisher::Complete returns early *)
(* for nothing but the answer to a refresh.                                *)
THEOREM NeverDropped ==
  ASSUME TRUE \notin Refreshes, "Suspend" \notin SipStates,
         Env \cap {"overlap", "reenter"} = {}
  PROVE  Spec => []NothingDropped
<1>1. Unrefreshed
  BY DEF Unrefreshed
<1>2. BoundAt(World) => NothingDropped
  BY WorldFields DEF BoundAt, NothingDropped
<1>3. QED
  BY <1>1, <1>2, BoundHolds, PTL DEF Spec
=============================================================================
