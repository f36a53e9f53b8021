-------------------------- MODULE InstantMessages --------------------------
(***************************************************************************)
(* Instant messages, over the connection of Registration: the handler of   *)
(* the application side (CSimpleEngineImHandler), the requests that send   *)
(* (EReqSendIM) and the one that waits for messages (EReqReceiveIM).       *)
(* A lost connection completes every other kind of request, and neither of *)
(* these.                                                                  *)
(***************************************************************************)
EXTENDS Registration, Naturals

CONSTANTS
  Messages,   \* bound: the messages that may be unanswered at a time
  MaxLost,    \* bound: the count of messages that are on their way to the application
  NetEnv      \* burst: two messages may arrive before the first is handled

ASSUME MessagesAssumption == MaxLost \in Nat \ {0} /\ NetEnv \subseteq {"burst"}

VARIABLES
  send,       \* per message, its request
  receiving,  \* the receive request is in iRequestList
  posted,     \* the receive request is completed, the message is its data
  acked       \* messages answered with 200 that the application has not got

imVars == <<send, receiving, posted, acked>>
allVars == <<net, prof, sip, listen, login, iState, send, receiving, posted, acked>>

NoSend == [state |-> "none", trans |-> FALSE, expiry |-> FALSE, sig |-> NoSig]
Sending == [state : {"none", "RunningInit", "PendingInit", "Failed"}, trans : BOOLEAN,
            expiry : BOOLEAN, sig : {NoSig, "OK", "Error", "TimedOut", "Overrun"}]

(* The handler asks for messages when it is constructed. *)
ImInit ==
  /\ Init
  /\ send = [m \in Messages |-> NoSend]
  /\ receiving = TRUE /\ posted = FALSE /\ acked = 0

ImQuiet == Quiet /\ ~posted /\ \A m \in Messages : send[m].sig = NoSig

Change(m, new) ==
  /\ send' = [send EXCEPT ![m] = new]
  /\ UNCHANGED <<vars, receiving, posted, acked>>

-----------------------------------------------------------------------------
(* SendInstantMessage is refused by its return value, or the request is on *)
(* its way with a timer; the network may be away for the time being.       *)
SendInstantMessageLMutant(m) ==   \* a request that is put off has no timer yet
  /\ send[m] = NoSend
  /\ \/ /\ sip = "Active" /\ prof.conn /\ prof.held
        /\ Change(m, [state |-> "RunningInit", trans |-> TRUE, expiry |-> TRUE, sig |-> NoSig])
     \/ /\ sip = "Suspend"
        /\ Change(m, [state |-> "PendingInit", trans |-> FALSE, expiry |-> FALSE, sig |-> NoSig])
SendInstantMessageL(m) ==
  /\ send[m] = NoSend
  /\ \/ /\ sip = "Active" /\ prof.conn /\ prof.held
        /\ Change(m, [state |-> "RunningInit", trans |-> TRUE, expiry |-> TRUE, sig |-> NoSig])
     \/ /\ sip = "Suspend"
        /\ Change(m, [state |-> "PendingInit", trans |-> FALSE, expiry |-> TRUE, sig |-> NoSig])

(* CSimpleRequest::Complete for this kind of request, which leaves the     *)
(* timer running, and with an error of the timer or the network.           *)
Signal(r, s) == [r EXCEPT !.sig = IF @ = NoSig THEN s ELSE "Overrun"]
CompleteSend(r, s) ==
  IF s = "TimedOut" THEN [Signal(r, s) EXCEPT !.state = "Failed", !.expiry = FALSE]
  ELSE Signal(r, s)

(* A final response, or the transaction fails. *)
Answered(m, s) ==
  /\ ImQuiet /\ send[m].trans
  /\ s = "OK" => net.conn = "Active"
  /\ Change(m, CompleteSend([send[m] EXCEPT !.trans = FALSE], s))

SendExpires(m) ==
  /\ ImQuiet /\ send[m].expiry
  /\ Change(m, CompleteSend([send[m] EXCEPT !.expiry = FALSE], "TimedOut"))

(* CSimpleEngineImHandler::Complete tells the application and deletes the  *)
(* request from both lists, its transaction and its timers with it.        *)
SendCompletes(m) ==
  /\ send[m].sig \notin {NoSig, "Overrun"}
  /\ Change(m, NoSend)

-----------------------------------------------------------------------------
(* A request that waits for messages is completed and destroyed. *)
HandleReceivedMessage ==
  /\ posted' = (posted \/ receiving)
  /\ receiving' = FALSE
(* A text message is answered with 200, before anybody looks for it. *)
DoIncomingRequestL ==
  /\ IF "burst" \in NetEnv THEN Quiet ELSE ImQuiet
  /\ net.conn = "Active" /\ prof.conn /\ acked < MaxLost
  /\ acked' = acked + 1
  /\ HandleReceivedMessage
  /\ UNCHANGED <<vars, send>>

(* The application gets the message, and receiving is activated again.     *)
ReceiveCompletesMutant ==         \* only a new handler asks for messages
  /\ posted
  /\ posted' = FALSE /\ acked' = acked - 1
  /\ UNCHANGED <<vars, send, receiving>>
ReceiveCompletes ==
  /\ posted
  /\ posted' = FALSE /\ acked' = acked - 1
  /\ receiving' = TRUE
  /\ UNCHANGED <<vars, send>>

-----------------------------------------------------------------------------
(* The connection changes under the messages. *)
RegistrationStep(A) == A /\ UNCHANGED imVars

ImStep ==
  \/ \E m \in Messages :
       \/ SendInstantMessageL(m) \/ SendExpires(m) \/ SendCompletes(m)
       \/ \E s \in {"OK", "Error"} : Answered(m, s)
  \/ DoIncomingRequestL \/ ReceiveCompletes

ImNext ==
  \/ RegistrationStep(LoginL)
  \/ RegistrationStep(LoginCompletes)
  \/ RegistrationStep(StatusCompletes)
  \/ RegistrationStep(ImQuiet /\ Stack)
  \/ RegistrationStep(ImQuiet /\ ExpiryFires)
  \/ ImStep

ImSpec == ImInit /\ [][ImNext]_allVars

(* As in Registration: what is posted runs, and timers fire. *)
ImFairness ==
  /\ WF_allVars(RegistrationStep(LoginCompletes))
  /\ WF_allVars(RegistrationStep(StatusCompletes))
  /\ SF_allVars(RegistrationStep(ImQuiet /\ ExpiryFires))
  /\ WF_allVars(ReceiveCompletes)
  /\ \A m \in Messages : WF_allVars(SendCompletes(m)) /\ SF_allVars(SendExpires(m))
ImFairSpec == ImSpec /\ ImFairness

-----------------------------------------------------------------------------
(* Properties.                                                             *)

(* The variables of messages have their types; in particular a message is  *)
(* never completed twice before the handler has seen the first completion, *)
(* which would panic the thread.                                           *)
ImTypeOK ==
  /\ TypeOK
  /\ send \in [Messages -> Sending]
  /\ \A m \in Messages : send[m].sig # "Overrun"
  /\ receiving \in BOOLEAN /\ posted \in BOOLEAN /\ acked \in 0..MaxLost

(* A message that was accepted is answered in the end: a lost connection   *)
(* does not complete it and a resumed one does not send it, so everything  *)
(* rests on the timer that is started with it.                             *)
SendAnswered == \A m \in Messages : send[m] # NoSend ~> send[m] = NoSend

(* A sender who has got 200 for a message can rely on its being handed to  *)
(* the application: while nothing is posted, nothing is owed.              *)
AckedIsDelivered == ~posted => acked = 0
=============================================================================
