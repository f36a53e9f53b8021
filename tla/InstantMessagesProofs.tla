----------------------- MODULE InstantMessagesProofs -----------------------
(***************************************************************************)
(* Theorems about InstantMessages: the messages leave the connection as it *)
(* is, so that what is proved of Registration holds of both together; and  *)
(* no message waits without its timer, or is lost between its 200 and the  *)
(* application.                                                            *)
(***************************************************************************)
EXTENDS InstantMessages, RegistrationProofs

-----------------------------------------------------------------------------
(* Every step of the composition is one of Registration, or leaves its     *)
(* variables alone: with the messages, Registration is still implemented.  *)
THEOREM Implements == ImSpec => Spec
<1>1. [ImNext]_allVars => [Next]_vars
  <2>1. ASSUME ImStep PROVE UNCHANGED vars
    BY <2>1 DEF ImStep, SendInstantMessageL, SendExpires, SendCompletes, Answered,
                DoIncomingRequestL, ReceiveCompletes, Change
  <2>2. ASSUME UNCHANGED allVars PROVE UNCHANGED vars
    BY <2>2 DEF allVars, vars
  <2>3. QED
    BY <2>1, <2>2 DEF ImNext, RegistrationStep, Next
<1>2. ImInit => Init
  BY DEF ImInit
<1>3. QED
  BY <1>1, <1>2, PTL DEF ImSpec, Spec

(* A profile and a connection are there when they are used, whatever       *)
(* messages are under way.                                                 *)
THEOREM PointersValidWithMessages == ImSpec => []NoNullProfile
BY Implements, PointersValid, PTL

-----------------------------------------------------------------------------
(* A message that is not answered has a timer, or its completion is        *)
(* posted; one that has a completion posted has just one.                  *)
Timed == \A m \in Messages : send[m] # NoSend => send[m].expiry \/ send[m].sig # NoSig
Once  == \A m \in Messages : send[m].sig # "Overrun"

SendType == send \in [Messages -> Sending]

SendInv == SendType /\ Timed /\ Once

LEMMA SendInitHolds == ImInit => SendInv
BY DEF ImInit, SendInv, SendType, Timed, Once, NoSend, Sending, NoSig

(* A change of one message that keeps the parts for it keeps them for all. *)
LEMMA OneMessage ==
  ASSUME SendInv, NEW m \in Messages, NEW new \in Sending, Change(m, new),
         new # NoSend => new.expiry \/ new.sig # NoSig, new.sig # "Overrun"
  PROVE  SendInv'
<1>1. /\ send' = [send EXCEPT ![m] = new]
      /\ send \in [Messages -> Sending]
  BY DEF Change, SendInv, SendType
<1>2. SendType'
  BY <1>1 DEF SendType
<1>3. \A k \in Messages : send'[k] = IF k = m THEN new ELSE send[k]
  BY <1>1
<1>4. Timed' /\ Once'
  BY <1>3 DEF SendInv, Timed, Once
<1>5. QED
  BY <1>2, <1>4 DEF SendInv

LEMMA CompleteOnce ==
  ASSUME NEW r \in Sending, r.sig = NoSig, NEW s \in {"OK", "Error", "TimedOut"}
  PROVE  /\ CompleteSend(r, s) \in Sending
         /\ CompleteSend(r, s).sig = s
BY DEF CompleteSend, Signal, Sending, NoSig

LEMMA SendNextHolds == SendInv /\ [ImNext]_allVars => SendInv'
<1> SUFFICES ASSUME SendInv, [ImNext]_allVars PROVE SendInv'
  OBVIOUS
<1>1. ASSUME UNCHANGED send PROVE SendInv'
  BY <1>1 DEF SendInv, SendType, Timed, Once
<1>2. ASSUME NEW m \in Messages, SendInstantMessageL(m) PROVE SendInv'
  <2>1. CASE Change(m, [state |-> "RunningInit", trans |-> TRUE, expiry |-> TRUE, sig |-> NoSig])
    BY <2>1, OneMessage DEF Sending, NoSig
  <2>2. CASE Change(m, [state |-> "PendingInit", trans |-> FALSE, expiry |-> TRUE, sig |-> NoSig])
    BY <2>2, OneMessage DEF Sending, NoSig
  <2>3. QED
    BY <1>2, <2>1, <2>2 DEF SendInstantMessageL
<1>3. ASSUME NEW m \in Messages, SendExpires(m) PROVE SendInv'
  <2> DEFINE r == [send[m] EXCEPT !.expiry = FALSE]
             new == CompleteSend(r, "TimedOut")
  <2>1. send[m] \in Sending /\ send[m].sig = NoSig /\ Change(m, new)
    BY <1>3 DEF SendExpires, ImQuiet, SendInv, SendType
  <2>2. r \in Sending /\ r.sig = NoSig
    BY <2>1 DEF Sending
  <2>3. new \in Sending /\ new.sig = "TimedOut"
    BY <2>2, CompleteOnce
  <2> HIDE DEF new
  <2>4. QED
    BY <2>1, <2>3, OneMessage DEF NoSig
<1>4. ASSUME NEW m \in Messages, SendCompletes(m) PROVE SendInv'
  <2>1. NoSend \in Sending /\ NoSend.sig # "Overrun"
    BY DEF NoSend, Sending, NoSig
  <2>2. QED
    BY <1>4, <2>1, OneMessage DEF SendCompletes
<1>5. ASSUME NEW m \in Messages, NEW s \in {"OK", "Error"}, Answered(m, s) PROVE SendInv'
  <2> DEFINE r == [send[m] EXCEPT !.trans = FALSE]
             new == CompleteSend(r, s)
  <2>1. send[m] \in Sending /\ send[m].sig = NoSig /\ Change(m, new)
    BY <1>5 DEF Answered, ImQuiet, SendInv, SendType
  <2>2. r \in Sending /\ r.sig = NoSig
    BY <2>1 DEF Sending
  <2>3. new \in Sending /\ new.sig = s
    BY <2>2, CompleteOnce
  <2> HIDE DEF new
  <2>4. QED
    BY <2>1, <2>3, OneMessage DEF NoSig
<1>6. ASSUME DoIncomingRequestL \/ ReceiveCompletes PROVE UNCHANGED send
  BY <1>6 DEF DoIncomingRequestL, ReceiveCompletes
<1>7. QED
  BY <1>1, <1>2, <1>3, <1>4, <1>5, <1>6 DEF ImNext, ImStep, RegistrationStep, imVars, allVars

LEMMA SendInvariant == ImSpec => []SendInv
<1>1. ImInit => SendInv
  BY SendInitHolds
<1>2. SendInv /\ [ImNext]_allVars => SendInv'
  BY SendNextHolds
<1>3. QED
  BY <1>1, <1>2, PTL DEF ImSpec

(* An instant message that was accepted has a timer that will answer it,   *)
(* or its answer is posted: the network may be lost, and comes back        *)
(* without any use for the message.                                        *)
THEOREM MessagesTimed == ImSpec => []Timed
BY SendInvariant, PTL DEF SendInv

(* No message is completed over a completion that its handler has not seen.*)
THEOREM MessagesOnce == ImSpec => []Once
BY SendInvariant, PTL DEF SendInv

-----------------------------------------------------------------------------
(* A receive request waits, or is completed with the one message owed.     *)
OneOwed ==
  /\ posted \in BOOLEAN
  /\ receiving <=> ~posted
  /\ posted => acked = 1
  /\ ~posted => acked = 0

(* If messages come one at a time, every message that was answered with    *)
(* 200 is handed to the application by the completion posted for it.       *)
THEOREM AckedReachesApplication ==
  ASSUME "burst" \notin NetEnv
  PROVE  ImSpec => []AckedIsDelivered
<1>1. ImInit => OneOwed
  BY DEF ImInit, OneOwed
<1>2. OneOwed /\ [ImNext]_allVars => OneOwed'
  <2> SUFFICES ASSUME OneOwed, [ImNext]_allVars PROVE OneOwed'
    OBVIOUS
  <2>1. ASSUME UNCHANGED <<receiving, posted, acked>> PROVE OneOwed'
    BY <2>1 DEF OneOwed
  <2>2. ASSUME DoIncomingRequestL PROVE OneOwed'
    <3>1. ~posted /\ receiving /\ acked = 0
      BY <2>2 DEF DoIncomingRequestL, ImQuiet, OneOwed
    <3>2. posted' = TRUE /\ receiving' = FALSE
      BY <2>2, <3>1 DEF DoIncomingRequestL, HandleReceivedMessage
    <3>3. acked' = 1
      BY <2>2, <3>1 DEF DoIncomingRequestL
    <3>4. QED
      BY <3>2, <3>3 DEF OneOwed
  <2>3. ASSUME ReceiveCompletes PROVE OneOwed'
    <3>1. posted /\ posted' = FALSE /\ receiving' = TRUE
      BY <2>3 DEF ReceiveCompletes
    <3>2. acked = 1
      BY <3>1 DEF OneOwed
    <3>3. acked' = 0
      BY <2>3, <3>2 DEF ReceiveCompletes
    <3>4. QED
      BY <3>1, <3>3 DEF OneOwed
  <2>4. ASSUME NEW m \in Messages, NEW s \in {"OK", "Error"},
               SendInstantMessageL(m) \/ SendExpires(m) \/ SendCompletes(m) \/ Answered(m, s)
        PROVE  UNCHANGED <<receiving, posted, acked>>
    BY <2>4 DEF SendInstantMessageL, SendExpires, SendCompletes, Answered, Change
  <2>5. QED
    BY <2>1, <2>2, <2>3, <2>4 DEF ImNext, ImStep, RegistrationStep, imVars, allVars
<1>3. OneOwed => AckedIsDelivered
  BY DEF OneOwed, AckedIsDelivered
<1>4. QED
  BY <1>1, <1>2, <1>3, PTL DEF ImSpec
=============================================================================
