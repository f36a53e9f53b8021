---------------------------- MODULE XdmDocument ----------------------------
(***************************************************************************)
(* The asynchronous half that CRLSXDM and CPresenceXDM share: an active    *)
(* object with one request at a time, on a document of the XDM engine      *)
(* (external).  A handler of the application is called for every request.  *)
(***************************************************************************)
EXTENDS Naturals, Sequences

VARIABLES
    req,        \* iAsyncReq
    status,     \* iStatus, or "idle" when the object is not active
    rooted,     \* the document has a root
    owed,       \* the application waits for its handler to be called
    broken      \* RunL has left, or what is gone was used

docVars == <<req, status, rooted, owed, broken>>

(* The elements of s that are not in T, in their order. *)
Without(s, T) ==
    LET rest[i \in 0..Len(s)] ==
            IF i = 0 THEN <<>>
            ELSE IF s[i] \in T THEN rest[i - 1] ELSE Append(rest[i - 1], s[i])
    IN rest[Len(s)]

Requests == {"none", "toServer", "fromServer", "deleting", "deleted", "cancelling"}
Answers  == {"ok", "notfound", "error", "cancelled"}

DocInit ==
    /\ req = "none" /\ status = "idle"
    /\ rooted = TRUE                  \* ConstructL creates it
    /\ owed = FALSE /\ broken = FALSE

IsActive == status # "idle"

(* SetActive for a request that the engine or the object itself completes; *)
(* one that is made while another runs is refused.                         *)
Ask(r, s) ==
    /\ ~IsActive
    /\ req' = r /\ status' = s /\ owed' = TRUE /\ broken' = FALSE

UpdateToServer == Ask("toServer", "pending") /\ UNCHANGED rooted
UpdateFromServer == Ask("fromServer", "pending") /\ rooted' = FALSE
(* The contents are reset before the fetch is prepared, which may leave.   *)
UpdateFromServerLeaves ==
    /\ ~IsActive
    /\ rooted' = FALSE
    /\ UNCHANGED <<req, status, owed, broken>>
CancelUpdate ==
    /\ IsActive
    /\ req' = "cancelling"
    /\ status' = IF status = "pending" THEN "cancelled" ELSE status
    /\ UNCHANGED <<rooted, owed, broken>>

(* The engine is done with a request. A document that was fetched brings   *)
(* its root with it.                                                       *)
EngineCompletes(s) ==
    /\ status = "pending" /\ s # "cancelled"
    /\ status' = s
    /\ rooted' = (rooted \/ s = "ok")
    /\ UNCHANGED <<req, owed, broken>>

(* RunL of the updates: a fetch leaves a root behind, whatever its result. *)
UpdateRunLMutant ==                   \* a cancelled request is not answered
    /\ status \in Answers
    /\ req \in {"toServer", "fromServer", "cancelling", "none"}
    /\ rooted' = (rooted \/ req = "fromServer")
    /\ owed' = (owed /\ req \in {"none", "cancelling"})
    /\ req' = "none" /\ status' = "idle" /\ UNCHANGED broken
UpdateRunL ==
    /\ status \in Answers
    /\ req \in {"toServer", "fromServer", "cancelling", "none"}
    /\ rooted' = (rooted \/ req = "fromServer")
    /\ owed' = (owed /\ req = "none")
    /\ req' = "none" /\ status' = "idle" /\ UNCHANGED broken

(* RunL leaves when there is no memory for the root, or while it deletes:  *)
(* the object is not active any more and the handler is not called.        *)
RunLeaves ==
    /\ status \in Answers
    /\ (req = "fromServer" /\ ~rooted) \/ req = "deleting"
    /\ req' = "none" /\ status' = "idle" /\ broken' = TRUE
    /\ UNCHANGED <<rooted, owed>>

DocTypeOK ==
    /\ req \in Requests /\ status \in Answers \cup {"idle", "pending"}
    /\ rooted \in BOOLEAN /\ owed \in BOOLEAN /\ broken \in BOOLEAN
=============================================================================
