---------------------------- MODULE Registration ----------------------------
(***************************************************************************)
(* Login and the state of the connection: CSimpleConnection of the         *)
(* application side, CSimpleSipConnection with its profile observer, and   *)
(* the SIP stack, which reports the registration of the profile and the    *)
(* state of the connection separately, in any order.                       *)
(*                                                                         *)
(* As in Subscriptions a handler runs to its end, and what is posted runs  *)
(* before timers and events of the stack.                                  *)
(***************************************************************************)
CONSTANT Env   \* what the environment may do, see EnvChoices

(* enableLeaves  the stack may refuse to enable the profile                *)
(* connLeaves    GiveConnectionL may leave with another error than         *)
(*               KErrNotReady                                              *)
(* others        events of other profiles of the registry arrive           *)
(* reinit        a lost connection may be initiated again (EInit)          *)
(* early         the profile may be registered and its connection be in    *)
(*               any state before the login                                *)
EnvChoices == {"enableLeaves", "connLeaves", "others", "reinit", "early"}

ASSUME EnvAssumption == Env \subseteq EnvChoices

VARIABLES
  net,     \* the SIP stack: KSIPProfileRegistered, CSIPConnection::State()
  prof,    \* held, conn: iProfile and iSipConnection are not NULL
  sip,     \* CSimpleSipConnection::iSipState
  listen,  \* the EListenEvents request has a completion posted
  login,   \* the ERegister request, or NoLogin
  iState   \* CSimpleConnection::iState

vars == <<net, prof, sip, listen, login, iState>>

SipState == {"Idle", "Active", "Suspend", "Inactive", "Unavailable"}
(* The states of CSIPConnection have the same names, EInit is "Idle". *)
Net == [registered : BOOLEAN, conn : SipState]

NoSig == "NoSig"
NoLogin == [sig |-> "NoLogin", expiry |-> FALSE]

(* Whether the request is also in iRequestList makes no difference: a      *)
(* completion is delivered before the list is searched again.              *)
Request == [sig : {NoSig, "OK", "Error", "Disconnected", "TimedOut"},
            expiry : BOOLEAN]

(* Every variable has its type. *)
TypeOK ==
  /\ net \in Net
  /\ prof \in [held : BOOLEAN, conn : BOOLEAN]
  /\ sip \in SipState
  /\ listen \in BOOLEAN
  /\ login \in Request \cup {NoLogin}
  /\ iState \in SipState

Init ==
  /\ net \in Net
  /\ "early" \notin Env =>
       net.conn = IF net.registered THEN "Active" ELSE "Idle"
  /\ prof = [held |-> FALSE, conn |-> FALSE]
  /\ sip = "Inactive"
  /\ listen = FALSE
  /\ login = NoLogin
  /\ iState = "Inactive"

Quiet == ~listen /\ (login # NoLogin => login.sig = NoSig)

-----------------------------------------------------------------------------
(* CSimpleConnection::LoginL and CSimpleSipConnection::RegisterL.          *)

(* LoginL has not left: the request waits or is completed already. *)
AcceptedMutant(sig, expiry) ==   \* no SetConnectionStatus
  /\ login' = [sig |-> sig, expiry |-> expiry]
  /\ UNCHANGED iState
Accepted(sig, expiry) ==
  /\ login' = [sig |-> sig, expiry |-> expiry]
  /\ iState' = "Idle"

(* RegisterDefaultL and RegisterAnyL, with GiveConnectionL. *)
RegisterDefaultL ==
  /\ sip = "Inactive" /\ ~prof.held
  /\ \/ /\ net.registered
        /\ prof' = [held |-> TRUE, conn |-> TRUE]
        /\ sip' = "Active"
        /\ Accepted("OK", TRUE)
     \/ /\ ~net.registered
        /\ prof' = [prof EXCEPT !.held = TRUE]
        /\ sip' = "Idle"
        /\ Accepted(NoSig, TRUE)
     \/ /\ "connLeaves" \in Env
        /\ prof' = [prof EXCEPT !.held = TRUE]
        /\ sip' = "Idle"
        /\ UNCHANGED <<login, iState>>
     \/ /\ "enableLeaves" \in Env
        /\ prof' = [prof EXCEPT !.held = TRUE]
        /\ UNCHANGED <<sip, login, iState>>

(* Registered already, or a registration under way, which the request      *)
(* waits for without a timer.                                              *)
RegisteredAlready ==
  /\ \/ sip \in {"Active", "Suspend"} /\ Accepted("OK", FALSE)
     \/ sip = "Idle" /\ Accepted(NoSig, FALSE)
  /\ UNCHANGED <<prof, sip>>

LoginL ==
  /\ iState = "Inactive"
  /\ login = NoLogin
  /\ RegisterDefaultL \/ RegisteredAlready
  /\ UNCHANGED <<net, listen>>

-----------------------------------------------------------------------------
(* CSimpleSipConnection::ConnectionStateChange to state a, with an error   *)
(* of the SIP profile or without, while the stack becomes n.               *)

IsProfileActive(n) == prof.held /\ n.registered

RecognizeNullMutant(a, n) ==   \* iSipConnection is not checked
  IF a = "Active" /\ ~(IsProfileActive(n) /\ n.conn = "Active") THEN sip ELSE a
RecognizeProfileMutant(a, n) ==   \* the profile is not checked
  IF a = "Active" /\ ~(prof.conn /\ n.conn = "Active") THEN sip ELSE a
RecognizeSipState(a, n) ==
  IF a = "Active" /\ ~(IsProfileActive(n) /\ prof.conn /\ n.conn = "Active")
    THEN sip ELSE a

CompleteRegisterRequestsMutant(status) ==   \* stopped, not completed
  [login EXCEPT !.expiry = FALSE]
CompleteRegisterRequests(status) ==
  IF login = NoLogin THEN NoLogin ELSE [sig |-> status, expiry |-> FALSE]

(* The profile is registered while the login waits for it. *)
GiveConnection(n, state) ==
  \/ /\ n.registered
     /\ prof' = [prof EXCEPT !.conn = TRUE]
     /\ sip' = "Active"
     /\ login' = CompleteRegisterRequests("OK")
  \/ /\ ~n.registered
     /\ sip' = state
     /\ UNCHANGED <<prof, login>>
  \/ /\ "connLeaves" \in Env
     /\ sip' = "Inactive"
     /\ login' = CompleteRegisterRequests("Error")
     /\ UNCHANGED prof

CompleteStatusRequestMutant(state) ==   \* a suspension is kept silent
  listen \/ state \notin {sip, "Suspend"}
CompleteStatusRequest(state) == listen \/ state # sip

ConnectionStateChange(a, error, n) ==
  LET state == RecognizeSipState(a, n)
      giving == sip = "Idle" /\ a = "Active"
  IN /\ Quiet
     /\ net' = n
     /\ listen' = CompleteStatusRequest(state)
     /\ \/ giving /\ GiveConnection(n, state)
        \/ /\ ~giving
           /\ sip' = state
           /\ login' = IF state \in {"Inactive", "Unavailable"}
                         THEN CompleteRegisterRequests(
                                IF error THEN "Error" ELSE "Disconnected")
                         ELSE login
           /\ UNCHANGED prof
     /\ UNCHANGED iState

(* ProfileRegistryEventOccurred and ProfileRegistryErrorOccurred.  A       *)
(* profile is registered over a connection that is active.                 *)
ProfileRegistered ==
  /\ prof.held /\ ~net.registered /\ net.conn = "Active"
  /\ ConnectionStateChange("Active", FALSE, [net EXCEPT !.registered = TRUE])

ProfileDeregistered ==
  /\ prof.held /\ net.registered
  /\ ConnectionStateChange("Inactive", FALSE, [net EXCEPT !.registered = FALSE])

(* The profile is updated, or its registration fails. *)
ProfileUnavailable(error) ==
  /\ prof.held
  /\ ConnectionStateChange("Unavailable", error, [net EXCEPT !.registered = FALSE])

(* The observer does not look at the identity of the profile. *)
OtherProfile(a) ==
  /\ "others" \in Env
  /\ ConnectionStateChange(a, FALSE, net)

(* ConnectionStateChanged of the connection that EnableL has asked for. *)
ConnectionChanged(a) ==
  /\ prof.held /\ a # net.conn
  /\ a = "Idle" => "reinit" \in Env /\ net.conn \in {"Inactive", "Unavailable"}
  /\ ConnectionStateChange(a, FALSE, [net EXCEPT !.conn = a])

-----------------------------------------------------------------------------
(* CSimpleExpiryTimer::RunL, StartToCheckExpiryL. *)
ExpiryFires ==
  /\ Quiet
  /\ login # NoLogin /\ login.expiry
  /\ login' = [sig |-> "TimedOut", expiry |-> FALSE]
  /\ UNCHANGED <<net, prof, sip, listen, iState>>

(* CSimpleConnection::Complete: for the login, which ends, and for the     *)
(* listening request, which stays.  Which of the two runs first is left    *)
(* open.                                                                   *)
LoginCompletes ==
  /\ login # NoLogin /\ login.sig # NoSig
  /\ login' = NoLogin
  /\ iState' = sip
  /\ UNCHANGED <<net, prof, sip, listen>>

StatusCompletes ==
  /\ listen
  /\ listen' = FALSE
  /\ iState' = sip
  /\ UNCHANGED <<net, prof, sip, login>>

-----------------------------------------------------------------------------
Stack ==
  \/ ProfileRegistered
  \/ ProfileDeregistered
  \/ \E error \in BOOLEAN : ProfileUnavailable(error)
  \/ \E a \in {"Active", "Inactive", "Unavailable"} : OtherProfile(a)
  \/ \E a \in SipState : ConnectionChanged(a)

Next ==
  LoginL \/ Stack \/ ExpiryFires \/ LoginCompletes \/ StatusCompletes

Spec == Init /\ [][Next]_vars

(* The active scheduler runs a signalled active object, and a running      *)
(* timer fires unless it is cancelled.                                     *)
FairSpec ==
  Spec /\ WF_vars(LoginCompletes) /\ WF_vars(StatusCompletes) /\ SF_vars(ExpiryFires)

-----------------------------------------------------------------------------
(* Properties.                                                             *)

(* GiveConnectionL, called while the state is Idle, finds a profile, and   *)
(* a request sent while it is Active finds a connection: neither pointer   *)
(* is checked where it is used.                                            *)
NoNullProfile ==
  /\ sip = "Idle" => prof.held
  /\ sip = "Active" => prof.held /\ prof.conn

(* Whatever the profile and the connection report, and in whatever order:  *)
(* after each report the engine is active only when both are, and it is    *)
(* when both are, unless it was waiting for the connection, which may then *)
(* be refused.  So it neither trusts what is lost nor misses what returns. *)
Ready == prof.conn /\ net.registered /\ net.conn = "Active"
ReportUnderstood ==
  net' # net => /\ sip' = "Active" => Ready'
                /\ Ready' /\ sip # "Idle" => sip' = "Active"
ReportsUnderstood == [][ReportUnderstood]_vars

(* An application that ConnectionStatus tells of a connection, suspended   *)
(* or not, or of none for good, is told the truth once every posted        *)
(* completion has been delivered.                                          *)
StatusFollows ==
  Quiet /\ iState \in {"Active", "Suspend", "Unavailable"} => iState = sip

(* No second login is accepted while one is unanswered. *)
LoginOpen ==
  /\ iState = "Inactive"
  /\ sip \in {"Idle", "Active", "Suspend"} \/ (sip = "Inactive" /\ ~prof.held)
OneLogin == LoginOpen => login = NoLogin

(* Every login that has started the timer against an "infinite wait        *)
(* situation" is answered in the end, whatever the stack does.             *)
LoginAnswered == login # NoLogin /\ login.expiry ~> login = NoLogin
=============================================================================
