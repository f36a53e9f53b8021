------------------------- MODULE RegistrationProofs -------------------------
(***************************************************************************)
(* Theorems about Registration, for everything the environment may do.     *)
(***************************************************************************)
EXTENDS Registration, TLAPS

(* The parts of the inductive invariant beyond TypeOK and StatusFollows.   *)
(* A profile is held wherever one is used.                                 *)
Held ==
  /\ prof.conn => prof.held
  /\ login # NoLogin => prof.held
  /\ sip \in {"Idle", "Active", "Suspend"} => prof.held

(* An active connection exists and is one of a registered profile. *)
Connected == sip = "Active" => prof.conn /\ net.registered

(* A login that still waits is not among those a loss has completed.       *)
Waits ==
  login # NoLogin => /\ sip \in {"Inactive", "Unavailable"} => login.sig # NoSig
                     /\ iState = "Inactive" => sip = "Inactive"

IInv == TypeOK /\ Held /\ Connected /\ Waits /\ StatusFollows

LEMMA InitHolds == Init => IInv
<1> SUFFICES ASSUME Init PROVE IInv
  OBVIOUS
<1>1. /\ net \in Net
      /\ prof = [held |-> FALSE, conn |-> FALSE]
      /\ sip = "Inactive" /\ listen = FALSE /\ login = NoLogin /\ iState = "Inactive"
  BY DEF Init
<1>2. TypeOK
  BY <1>1 DEF TypeOK, SipState
<1>3. Held /\ Connected /\ Waits /\ StatusFollows
  BY <1>1 DEF Held, Connected, Waits, StatusFollows
<1>4. QED
  BY <1>2, <1>3 DEF IInv

-----------------------------------------------------------------------------
(* What every event of the stack does.  An event that is not of another    *)
(* profile comes only when a profile is held, and one that says "active"   *)
(* does not take the registration away.                                    *)

LEMMA NoLoginDiffers ==
  ASSUME NEW r \in Request
  PROVE  r # NoLogin
<1>1. r.sig # "NoLogin"
  BY DEF Request, NoSig
<1>2. QED
  BY <1>1 DEF NoLogin

LEMMA CompleteRegisterType ==
  ASSUME TypeOK, NEW status \in {"OK", "Error", "Disconnected"}
  PROVE  /\ CompleteRegisterRequests(status) \in Request \cup {NoLogin}
         /\ CompleteRegisterRequests(status) # NoLogin =>
              login # NoLogin /\ CompleteRegisterRequests(status).sig # NoSig
BY DEF CompleteRegisterRequests, Request, NoLogin, NoSig

(* The state is recognised as the one reported, or kept. *)
LEMMA RecognizeState ==
  ASSUME NEW a \in SipState, NEW n \in Net, TypeOK
  PROVE  /\ RecognizeSipState(a, n) \in SipState
         /\ RecognizeSipState(a, n) \in {a, sip}
         /\ a # "Active" => RecognizeSipState(a, n) = a
         /\ RecognizeSipState(a, n) # a =>
              ~(prof.held /\ n.registered /\ prof.conn /\ n.conn = "Active")
BY DEF RecognizeSipState, IsProfileActive, TypeOK

LEMMA StateChangeType ==
  ASSUME TypeOK, NEW a \in SipState, NEW error \in BOOLEAN, NEW n \in Net,
         ConnectionStateChange(a, error, n)
  PROVE  TypeOK'
<1> DEFINE state == RecognizeSipState(a, n)
<1>1. state \in SipState
  BY RecognizeState
<1>2. \A status \in {"OK", "Error", "Disconnected"} :
        CompleteRegisterRequests(status) \in Request \cup {NoLogin}
  BY CompleteRegisterType
<1>3. net' \in Net /\ listen' \in BOOLEAN /\ iState' \in SipState
  BY DEF ConnectionStateChange, CompleteStatusRequest, TypeOK
<1>4. prof' \in [held : BOOLEAN, conn : BOOLEAN]
  BY DEF ConnectionStateChange, GiveConnection, TypeOK
<1>5. sip' \in SipState
  BY <1>1 DEF ConnectionStateChange, GiveConnection, SipState
<1>6. login' \in Request \cup {NoLogin}
  BY <1>2 DEF ConnectionStateChange, GiveConnection, TypeOK
<1>7. QED
  BY <1>3, <1>4, <1>5, <1>6 DEF TypeOK

LEMMA StateChangeHolds ==
  ASSUME IInv, NEW a \in SipState, NEW error \in BOOLEAN, NEW n \in Net,
         ConnectionStateChange(a, error, n),
         prof.held \/ a \in {"Active", "Inactive", "Unavailable"},
         a = "Active" /\ net.registered => n.registered
  PROVE  IInv'
<1> DEFINE state == RecognizeSipState(a, n)
           giving == sip = "Idle" /\ a = "Active"
<1> USE DEF IInv
<1>1. TypeOK'
  BY StateChangeType
<1>2. /\ state \in {a, sip}
      /\ a # "Active" => state = a
      /\ state # a => ~(prof.held /\ n.registered /\ prof.conn /\ n.conn = "Active")
      /\ state = a /\ a = "Active" =>
           sip = "Active" \/ (prof.held /\ n.registered /\ prof.conn)
  BY RecognizeState DEF RecognizeSipState, IsProfileActive
<1>3. /\ login # NoLogin => login.sig = NoSig
      /\ ~listen
      /\ net' = n /\ iState' = iState
      /\ listen' = (listen \/ state # sip)
  BY DEF ConnectionStateChange, Quiet, CompleteStatusRequest
<1>4. \/ /\ giving /\ n.registered
         /\ prof' = [prof EXCEPT !.conn = TRUE]
         /\ sip' = "Active"
         /\ login' = CompleteRegisterRequests("OK")
      \/ /\ giving /\ ~n.registered
         /\ sip' = state /\ prof' = prof /\ login' = login
      \/ /\ giving
         /\ sip' = "Inactive" /\ prof' = prof
         /\ login' = CompleteRegisterRequests("Error")
      \/ /\ ~giving
         /\ sip' = state /\ prof' = prof
         /\ \/ /\ state \in {"Inactive", "Unavailable"}
               /\ \E status \in {"Error", "Disconnected"} :
                    login' = CompleteRegisterRequests(status)
            \/ state \notin {"Inactive", "Unavailable"} /\ login' = login
  BY DEF ConnectionStateChange, GiveConnection
<1>5. login' = login \/ (login' # NoLogin => login # NoLogin /\ login'.sig # NoSig)
  BY <1>4, CompleteRegisterType
<1> HIDE DEF state, giving
<1>6. giving => sip = "Idle" /\ a = "Active"
  BY DEF giving
<1>7. giving /\ ~n.registered => state = "Idle"
  BY <1>2, <1>6 DEF Connected
<1>8. Held'
  <2>1. prof.held => prof'.held
    BY <1>4 DEF TypeOK
  <2>2. prof'.conn => prof'.held
    BY <1>4, <1>6, <2>1 DEF Held, TypeOK
  <2>3. login' # NoLogin => prof'.held
    BY <1>5, <2>1 DEF Held
  <2>4. sip' \in {"Idle", "Active", "Suspend"} => prof'.held
    <3>1. prof.held \/ (a \in {"Active", "Inactive", "Unavailable"} /\ sip \notin {"Idle", "Active", "Suspend"})
      BY DEF Held
    <3>2. CASE prof.held
      BY <2>1, <3>2
    <3>3. CASE ~prof.held
      BY <1>2, <1>4, <1>6, <3>1, <3>3
    <3>4. QED
      BY <3>2, <3>3
  <2>5. QED
    BY <2>2, <2>3, <2>4 DEF Held
<1>9. Connected'
  <2>1. CASE giving
    BY <1>3, <1>4, <1>6, <1>7, <2>1 DEF Connected, TypeOK
  <2>2. CASE ~giving
    BY <1>2, <1>3, <1>4, <2>2 DEF Connected
  <2>3. QED
    BY <2>1, <2>2
<1>10. Waits'
  <2> SUFFICES ASSUME login' # NoLogin
               PROVE  /\ sip' \in {"Inactive", "Unavailable"} => login'.sig # NoSig
                      /\ iState' = "Inactive" => sip' = "Inactive"
    BY DEF Waits
  <2>1. login # NoLogin
    BY <1>5
  <2>2. iState # "Inactive"
    BY <1>3, <2>1 DEF Waits
  <2>3. sip' \in {"Inactive", "Unavailable"} => login' # login \/ login'.sig # NoSig
    BY <1>3, <1>4, <1>7, <2>1, CompleteRegisterType
  <2>4. QED
    BY <1>3, <1>5, <2>2, <2>3
<1>11. StatusFollows'
  <2> SUFFICES ASSUME Quiet', iState' \in {"Active", "Suspend", "Unavailable"}
               PROVE  iState' = sip'
    BY DEF StatusFollows
  <2>1. iState = sip
    BY <1>3 DEF StatusFollows, Quiet
  <2>2. ~giving
    BY <1>3, <1>6, <2>1
  <2>3. state = sip
    BY <1>3 DEF Quiet
  <2>4. QED
    BY <1>3, <1>4, <2>1, <2>2, <2>3
<1>12. QED
  BY <1>1, <1>8, <1>9, <1>10, <1>11

(* Every event of the stack is such a change. *)
LEMMA StackChanges ==
  ASSUME IInv, Stack
  PROVE  \E a \in SipState, error \in BOOLEAN, n \in Net :
           /\ ConnectionStateChange(a, error, n)
           /\ prof.held \/ a \in {"Active", "Inactive", "Unavailable"}
           /\ a = "Active" /\ net.registered => n.registered
           /\ n # net => prof.held
           /\ n # net /\ a = "Active" => n.conn = "Active"
           /\ n # net /\ a # "Active" => ~n.registered \/ n.conn # "Active"
<1> USE DEF IInv
<1>1. CASE ProfileRegistered
  <2> DEFINE n == [net EXCEPT !.registered = TRUE]
  <2>1. n \in Net /\ n.registered /\ n.conn = "Active" /\ ~net.registered
    BY <1>1 DEF ProfileRegistered, TypeOK, Net
  <2>2. prof.held /\ ConnectionStateChange("Active", FALSE, n)
    BY <1>1 DEF ProfileRegistered
  <2> HIDE DEF n
  <2>3. "Active" \in SipState
    BY DEF SipState
  <2>4. QED
    BY <2>1, <2>2, <2>3
<1>2. ASSUME NEW a \in {"Inactive", "Unavailable"}, NEW error \in BOOLEAN, prof.held,
             ConnectionStateChange(a, error, [net EXCEPT !.registered = FALSE])
      PROVE  \E n \in Net :
               /\ ConnectionStateChange(a, error, n)
               /\ n # net /\ a # "Active" => ~n.registered \/ n.conn # "Active"
  <2> DEFINE n == [net EXCEPT !.registered = FALSE]
  <2>1. n \in Net /\ ~n.registered
    BY DEF TypeOK, Net
  <2>2. ConnectionStateChange(a, error, n)
    BY <1>2
  <2> HIDE DEF n
  <2>3. QED
    BY <2>1, <2>2
<1>3. CASE ProfileDeregistered
  BY <1>3, <1>2 DEF ProfileDeregistered, SipState
<1>4. CASE \E error \in BOOLEAN : ProfileUnavailable(error)
  BY <1>4, <1>2 DEF ProfileUnavailable, SipState
<1>5. CASE \E a \in {"Active", "Inactive", "Unavailable"} : OtherProfile(a)
  <2>1. net \in Net
    BY DEF TypeOK
  <2>2. QED
    BY <1>5, <2>1 DEF OtherProfile, SipState
<1>6. CASE \E a \in SipState : ConnectionChanged(a)
  <2> PICK a \in SipState : ConnectionChanged(a)
    BY <1>6
  <2> DEFINE n == [net EXCEPT !.conn = a]
  <2>1. n \in Net /\ n.registered = net.registered /\ n.conn = a
    BY DEF TypeOK, Net
  <2>2. prof.held /\ ConnectionStateChange(a, FALSE, n)
    BY DEF ConnectionChanged
  <2> HIDE DEF n
  <2>3. QED
    BY <2>1, <2>2
<1>7. QED
  BY <1>1, <1>3, <1>4, <1>5, <1>6 DEF Stack

-----------------------------------------------------------------------------
(* The other actions. *)

LEMMA AcceptedMeans ==
  ASSUME NEW sig \in {NoSig, "OK"}, NEW expiry \in BOOLEAN, Accepted(sig, expiry)
  PROVE  /\ login' \in Request /\ login'.sig = sig
         /\ iState' = "Idle"
<1>1. login' = [sig |-> sig, expiry |-> expiry] /\ iState' = "Idle"
  BY DEF Accepted
<1>2. QED
  BY <1>1 DEF Request, NoSig

LEMMA LoginHolds ==
  ASSUME IInv, LoginL
  PROVE  IInv'
<1> USE DEF IInv
<1>1. /\ net' = net /\ listen' = listen
      /\ iState = "Inactive" /\ login = NoLogin
      /\ RegisterDefaultL \/ RegisteredAlready
  BY DEF LoginL
<1>2. \/ /\ login' \in Request /\ iState' = "Idle"
         /\ sip' \in {"Idle", "Active", "Suspend"}
         /\ sip' \in {"Active", "Suspend"} => login'.sig = "OK"
      \/ /\ login' = login /\ iState' = iState
         /\ sip' \in {"Idle", "Inactive"}
  <2>1. CASE RegisterDefaultL
    BY <2>1, AcceptedMeans DEF RegisterDefaultL, NoSig
  <2>2. CASE RegisteredAlready
    BY <2>2, AcceptedMeans DEF RegisteredAlready, NoSig
  <2>3. QED
    BY <1>1, <2>1, <2>2
<1>3. /\ prof' \in [held : BOOLEAN, conn : BOOLEAN]
      /\ prof.held => prof'.held
      /\ prof'.held
      /\ sip' = "Active" => prof'.conn /\ net.registered
  <2>1. CASE RegisterDefaultL
    <3>1. \/ prof' = [held |-> TRUE, conn |-> TRUE] /\ net.registered
          \/ prof' = [prof EXCEPT !.held = TRUE] /\ sip' \in {"Idle", "Inactive"}
      BY <2>1 DEF RegisterDefaultL
    <3>2. prof \in [held : BOOLEAN, conn : BOOLEAN]
      BY DEF TypeOK
    <3>3. /\ prof' \in [held : BOOLEAN, conn : BOOLEAN]
          /\ prof'.held = TRUE
      <4>1. CASE prof' = [held |-> TRUE, conn |-> TRUE]
        BY <4>1
      <4>2. CASE prof' = [prof EXCEPT !.held = TRUE]
        BY <3>2, <4>2
      <4>3. QED
        BY <3>1, <4>1, <4>2
    <3>4. sip' = "Active" => prof'.conn = TRUE /\ net.registered
      BY <3>1
    <3>5. QED
      BY <3>3, <3>4
  <2>2. CASE RegisteredAlready
    BY <2>2 DEF RegisteredAlready, Accepted, TypeOK, Held, Connected
  <2>3. QED
    BY <1>1, <2>1, <2>2
<1>4. TypeOK'
  BY <1>1, <1>2, <1>3 DEF TypeOK, SipState
<1>5. Held' /\ Connected'
  BY <1>1, <1>3 DEF Held, Connected
<1>6. Waits'
  BY <1>1, <1>2 DEF Waits
<1>7. StatusFollows'
  BY <1>1, <1>2 DEF StatusFollows
<1>8. QED
  BY <1>4, <1>5, <1>6, <1>7

LEMMA CompletionsHold ==
  ASSUME IInv, ExpiryFires \/ LoginCompletes \/ StatusCompletes
  PROVE  IInv'
<1> USE DEF IInv
<1>1. CASE ExpiryFires
  <2>1. login' \in Request /\ login'.sig = "TimedOut" /\ login # NoLogin
    BY <1>1 DEF ExpiryFires, Request, NoSig
  <2>2. UNCHANGED <<net, prof, sip, listen, iState>>
    BY <1>1 DEF ExpiryFires
  <2>3. login' # NoLogin /\ ~Quiet'
    BY <2>1, NoLoginDiffers DEF Quiet, NoSig
  <2>4. QED
    BY <2>1, <2>2, <2>3 DEF TypeOK, Held, Connected, Waits, StatusFollows, NoSig
<1>2. CASE LoginCompletes
  BY <1>2 DEF LoginCompletes, TypeOK, Held, Connected, Waits, StatusFollows
<1>3. CASE StatusCompletes
  BY <1>3 DEF StatusCompletes, TypeOK, Held, Connected, Waits, StatusFollows
<1>4. QED
  BY <1>1, <1>2, <1>3

LEMMA StepHolds == IInv /\ [Next]_vars => IInv'
<1> SUFFICES ASSUME IInv, [Next]_vars PROVE IInv'
  OBVIOUS
<1>1. CASE Stack
  BY <1>1, StackChanges, StateChangeHolds
<1>2. CASE UNCHANGED vars
  BY <1>2 DEF vars, IInv, TypeOK, Held, Connected, Waits, StatusFollows, Quiet
<1>3. QED
  BY <1>1, <1>2, LoginHolds, CompletionsHold DEF Next

LEMMA Invariant == Spec => []IInv
BY InitHolds, StepHolds, PTL DEF Spec

-----------------------------------------------------------------------------
(* The fields of CSimpleConnection, CSimpleSipConnection and the profile   *)
(* observer keep their types.                                              *)
THEOREM TypeCorrect == Spec => []TypeOK
<1>1. IInv => TypeOK
  BY DEF IInv
<1>2. QED
  BY <1>1, Invariant, PTL

(* Neither the profile nor the connection is used before there is one.     *)
THEOREM PointersValid == Spec => []NoNullProfile
<1>1. IInv => NoNullProfile
  BY DEF IInv, NoNullProfile, Held, Connected
<1>2. QED
  BY <1>1, Invariant, PTL

(* What ConnectionStatus says of a connection is true of it as soon as     *)
(* the completions posted have been delivered.                             *)
THEOREM StatusIsTrue == Spec => []StatusFollows
<1>1. IInv => StatusFollows
  BY DEF IInv
<1>2. QED
  BY <1>1, Invariant, PTL

(* LoginL accepts no login while another is unanswered. *)
THEOREM LoginsSingle == Spec => []OneLogin
<1>1. IInv => OneLogin
  BY DEF IInv, OneLogin, LoginOpen, Held, Waits
<1>2. QED
  BY <1>1, Invariant, PTL

(* After every report of the profile or the connection the engine's state  *)
(* is the one both together have, in whatever order they report.           *)
THEOREM OrderOfReports == Spec => ReportsUnderstood
<1>1. IInv /\ [Next]_vars => [ReportUnderstood]_vars
  <2> SUFFICES ASSUME IInv, Next, net' # net PROVE ReportUnderstood
    BY DEF ReportUnderstood
  <2>1. Stack
    BY DEF Next, LoginL, ExpiryFires, LoginCompletes, StatusCompletes
  <2> PICK a \in SipState, error \in BOOLEAN, n \in Net :
         /\ ConnectionStateChange(a, error, n)
         /\ a = "Active" /\ net.registered => n.registered
         /\ n # net => prof.held
         /\ n # net /\ a = "Active" => n.conn = "Active"
         /\ n # net /\ a # "Active" => ~n.registered \/ n.conn # "Active"
    BY <2>1, StackChanges
  <2>2. net' = n
    BY DEF ConnectionStateChange
  <2> DEFINE state == RecognizeSipState(a, n)
             giving == sip = "Idle" /\ a = "Active"
  <2>3. /\ a # "Active" => state = a
        /\ state # a => ~(prof.held /\ n.registered /\ prof.conn /\ n.conn = "Active")
        /\ state \in {a, sip}
    BY RecognizeState DEF IInv
  <2>4. \/ giving /\ n.registered /\ prof' = [prof EXCEPT !.conn = TRUE]
        \/ giving /\ ~n.registered /\ sip' = state
        \/ giving /\ sip' = "Inactive"
        \/ ~giving /\ sip' = state /\ prof' = prof
    BY DEF ConnectionStateChange, GiveConnection
  <2>5. state = "Active" =>
          (sip = "Active" /\ ~giving) \/ (n.registered /\ prof.conn /\ n.conn = "Active")
    BY DEF RecognizeSipState, IsProfileActive
  <2> HIDE DEF state
  <2>6. sip' = "Active" => prof'.conn /\ n.registered /\ n.conn = "Active"
    <3>1. CASE a # "Active"
      BY <2>2, <2>3, <2>4, <3>1
    <3>2. CASE a = "Active" /\ giving
      BY <2>2, <2>4, <2>5, <3>2 DEF IInv, TypeOK
    <3>3. CASE a = "Active" /\ ~giving
      BY <2>2, <2>4, <2>5, <3>3 DEF IInv, Connected
    <3>4. QED
      BY <3>1, <3>2, <3>3
  <2>7. ASSUME prof'.conn, n.registered, n.conn = "Active", sip # "Idle"
        PROVE  sip' = "Active"
    BY <2>2, <2>3, <2>4, <2>7
  <2>8. QED
    BY <2>2, <2>6, <2>7 DEF ReportUnderstood, Ready
<1>2. QED
  BY <1>1, Invariant, PTL DEF Spec, ReportsUnderstood
=============================================================================
