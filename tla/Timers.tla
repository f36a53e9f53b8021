------------------------------- MODULE Timers -------------------------------
(***************************************************************************)
(* How long a request waits: the refresh timer and the expiry timer        *)
(* (CSimpleRefreshTimer, CSimpleExpiryTimer), the times that are computed  *)
(* for them (CSimpleRequest) and where they come from (TSimpleSettings).   *)
(* One publication or subscription, while the network is there; what else  *)
(* happens to them is in Publications and Subscriptions, where a timer     *)
(* only runs or does not.  Seconds are words of the machine.  Time passes  *)
(* when something happens: an answer comes or a timer fires.               *)
(***************************************************************************)
EXTENDS Integers

CONSTANTS
  Half,     \* bound: half the numbers of a word, 2^31 in the code
  Times,    \* refresh times the application asks for and servers grant
  Stored,   \* values of KSimpleExpiryTime in the repository
  Afters    \* of the field Retry-After, 0 if there is none

ASSUME HalfAssumption  == Half \in Nat /\ Half > 2000
ASSUME TimesAssumption == Times \subseteq 0..(2 * Half - 1) /\ Afters \subseteq 0..(2 * Half - 1)
ASSUME StoredAssumption == Stored \subseteq (0 - Half)..(Half - 1)

VARIABLES
  api,      \* iExpiryApi
  kind, refresh,
  granted,  \* iRefreshTime: of what the stack refreshes it stays 0
  left,     \* seconds until the server forgets a publication; negative when it has
  phase, rt, et,
  why,      \* it has ended
  aborted   \* the clock was set while a timer was waiting for a time of day

vars == <<api, kind, refresh, granted, left, phase, rt, et, why, aborted>>

KUseAfterLimit == 240
KRefreshLimit  == 1200
KRefreshBefore == 600
KRetryBefore   == 300
KMinorDelay    == 5
KMinorExpiry   == 65

(* TInt and TUint of the same word. *)
AsTUint(n) == IF n < 0 THEN n + 2 * Half ELSE IF n >= 2 * Half THEN n - 2 * Half ELSE n
AsTInt(u) == IF u < Half THEN u ELSE u - 2 * Half
Max2(m, n) == IF m > n THEN m ELSE n

(* CSimpleRefreshTimer::Start, CSimpleExpiryTimer::Start: a long wait is   *)
(* for a time of day.                                                      *)
Off == [secs |-> -1, abs |-> FALSE]
Started(u) == LET s == AsTInt(u)
              IN IF s <= 0 THEN Off ELSE [secs |-> s, abs |-> s > KUseAfterLimit]

-----------------------------------------------------------------------------
(* The times. *)
RefreshWaitMutant(time, isRefresh) ==     \* a fixed time before, also when it is short
  IF isRefresh THEN IF time > KRefreshBefore THEN time - KRefreshBefore ELSE time
  ELSE AsTUint(time + KMinorDelay)
RefreshWait(time, isRefresh) ==
  IF isRefresh THEN IF time > KRefreshLimit THEN time - KRefreshBefore ELSE time \div 2
  ELSE AsTUint(time + KMinorDelay)
RetryTimeMutant(time, after) ==           \* without a least time
  IF after > 0 THEN after ELSE IF time > KRefreshLimit THEN KRetryBefore ELSE time \div 4
RetryTime(time, after) ==
  Max2(KMinorDelay, IF after > 0 THEN after ELSE IF time > KRefreshLimit THEN KRetryBefore ELSE time \div 4)
RetryExpiryTimeMutant(time) ==            \* the time of a retry
  Max2(KMinorExpiry, IF time > KRefreshLimit THEN KRetryBefore ELSE time \div 4)
RetryExpiryTime(time) ==
  Max2(KMinorExpiry, IF time > KRefreshLimit THEN KRefreshBefore ELSE time \div 2)

(* ReadCentRepSettings: what the repository has, or the default. *)
KMyDefaultAPIExpiry == 60
ExpiryApi == {KMyDefaultAPIExpiry} \cup {AsTUint(n) : n \in Stored}

Init ==
  /\ api \in ExpiryApi
  /\ kind \in {"publish", "subscribe"} /\ refresh \in BOOLEAN
  /\ granted = 0 /\ left = 0 /\ phase = "none" /\ rt = Off /\ et = Off
  /\ why = "none" /\ aborted = FALSE

Constant == UNCHANGED <<api, kind, refresh>>

(* Time passes, no further than to the first timer. *)
Elapses(d) ==
  /\ rt # Off => d <= rt.secs
  /\ et # Off => d <= et.secs
RefreshFirst == rt # Off /\ (et # Off => rt.secs <= et.secs)
ExpiryFirst == et # Off /\ (rt # Off => et.secs <= rt.secs)
Rest(t, d) == IF t = Off THEN Off ELSE [t EXCEPT !.secs = @ - d]

-----------------------------------------------------------------------------
(* DoStartPublishL: the refresh timer runs before there is an answer. *)
StartPublishL(time) ==
  /\ kind = "publish" /\ phase = "none" /\ phase' = "sent"
  /\ granted' = time
  /\ rt' = Started(RefreshWait(time, refresh)) /\ et' = Started(api)
  /\ Constant /\ UNCHANGED <<left, why, aborted>>

(* SubscribeL, SubscribeListL, SubscribeWinfoL: the stack refreshes, or    *)
(* the subscription ends.  What is asked for is iExpires; iRefreshTime is  *)
(* set for what is not refreshed only.                                     *)
SubscribeL(time) ==
  /\ kind = "subscribe" /\ phase = "none" /\ phase' = "sent"
  /\ granted' = IF refresh THEN granted ELSE Max2(time, api)
  /\ rt' = IF refresh THEN Off ELSE Started(RefreshWait(granted', FALSE))
  /\ et' = Started(api)
  /\ Constant /\ UNCHANGED <<left, why, aborted>>

(* DoCompletePublication with a 200 that says how long. *)
PublishGranted(d, time) ==
  /\ kind = "publish" /\ phase \in {"sent", "running"} /\ phase' = "active"
  /\ Elapses(d)
  /\ granted' = time /\ left' = time
  /\ rt' = Started(RefreshWait(time, refresh)) /\ et' = Off
  /\ Constant /\ UNCHANGED <<why, aborted>>

PublishRefused(d) ==
  /\ kind = "publish" /\ phase \in {"sent", "running"} /\ phase' = "ended" /\ why' = "refused"
  /\ Elapses(d)
  /\ left' = left - d /\ rt' = Off /\ et' = Off
  /\ Constant /\ UNCHANGED <<granted, aborted>>

(* CompleteSubscription: the timer of a subscription that is not refreshed *)
(* goes on.                                                                *)
SubscribeGranted(d) ==
  /\ kind = "subscribe" /\ phase \in {"sent", "recreating"} /\ phase' = "active"
  /\ Elapses(d)
  /\ rt' = (IF phase = "sent" THEN Rest(rt, d) ELSE Off) /\ et' = Off
  /\ Constant /\ UNCHANGED <<granted, left, why, aborted>>

(* The stack's own refresh is refused for the time being. *)
RefreshRefused(after) ==
  LET wait == RetryTime(granted, after)
  IN /\ kind = "subscribe" /\ refresh /\ phase = "active"
     /\ IF wait > KRetryBefore
          THEN phase' = "ended" /\ why' = "refused" /\ rt' = Off
          ELSE phase' = "retry" /\ rt' = Started(wait) /\ UNCHANGED why
     /\ et' = Off
     /\ Constant /\ UNCHANGED <<granted, left, aborted>>

(* StartToRefreshL. *)
DoRefreshPublishL ==
  /\ kind = "publish"
  /\ IF phase = "active" /\ refresh
       THEN /\ phase' = "running" /\ rt' = Started(RetryExpiryTime(granted))
            /\ UNCHANGED why
       ELSE /\ phase' = "ended" /\ rt' = Off
            /\ why' = IF phase = "running" THEN "gaveUp" ELSE IF phase = "active" THEN "expired" ELSE "timedOut"
  /\ UNCHANGED et
DoRefreshSubscribe ==
  /\ kind = "subscribe"
  /\ IF refresh THEN phase' = "recreating" /\ UNCHANGED why
     ELSE phase' = "ended" /\ why' = IF phase = "active" THEN "expired" ELSE "timedOut"
  /\ et' = Started(RetryExpiryTime(granted)) /\ rt' = Off

Waiting == phase \notin {"none", "ended"}
RefreshFires ==
  /\ Waiting /\ RefreshFirst
  /\ left' = IF kind = "publish" THEN left - rt.secs ELSE left
  /\ DoRefreshPublishL \/ DoRefreshSubscribe
  /\ Constant /\ UNCHANGED <<granted, aborted>>

(* StartToCheckExpiryL. *)
ExpiryFires ==
  /\ Waiting /\ ExpiryFirst
  /\ left' = IF kind = "publish" THEN left - et.secs ELSE left
  /\ phase' = "ended" /\ why' = "timedOut" /\ rt' = Off /\ et' = Off
  /\ Constant /\ UNCHANGED <<granted, aborted>>

(* The user sets the clock: a timer that waits for a time of day completes *)
(* with an error, and RunL does not look.                                  *)
ClockSet ==
  /\ Waiting /\ aborted' = TRUE
  /\ \/ rt.abs /\ (DoRefreshPublishL \/ DoRefreshSubscribe)
     \/ et.abs /\ phase' = "ended" /\ why' = "timedOut" /\ rt' = Off /\ et' = Off
  /\ Constant /\ UNCHANGED <<granted, left>>

Next ==
  \/ \E time \in Times :
       StartPublishL(time) \/ SubscribeL(time) \/ \E d \in {0, 1, 30} : PublishGranted(d, time)
  \/ \E d \in {0, 1, 30} : PublishRefused(d) \/ SubscribeGranted(d)
  \/ \E after \in Afters : RefreshRefused(after)
  \/ RefreshFires \/ ExpiryFires \/ ClockSet

Spec == Init /\ [][Next]_vars

-----------------------------------------------------------------------------
(* Properties, for the times that can be counted: with 0 or 1, and with    *)
(* times that are negative as TInt, a timer is not started.                *)
Ordinary(time) == time >= 2 /\ time < Half - KMinorDelay
Timer == [secs : -1..(Half - 1), abs : BOOLEAN]

TypeOK ==
  /\ api \in 0..(2 * Half - 1) /\ kind \in {"publish", "subscribe"} /\ refresh \in BOOLEAN
  /\ granted \in 0..(2 * Half - 1) /\ left \in Int
  /\ phase \in {"none", "sent", "active", "running", "retry", "recreating", "ended"}
  /\ rt \in Timer /\ et \in Timer /\ why \in {"none", "refused", "gaveUp", "expired", "timedOut"}
  /\ aborted \in BOOLEAN

(* Whatever waits for an answer, a retry or the end of what was granted    *)
(* has a timer; a subscription that the stack refreshes needs none.        *)
AlwaysTimed ==
  /\ phase \in {"sent", "recreating"} /\ api \in 1..(Half - 1) => rt # Off \/ et # Off
  /\ phase \in {"running", "retry"} => rt # Off
  /\ phase = "active" /\ ~(kind = "subscribe" /\ refresh) /\ Ordinary(granted) => rt # Off

(* A publication is refreshed before the server forgets it. *)
RefreshedInTime ==
  [][phase = "active" /\ phase' = "running" /\ Ordinary(granted) => left' > 0]_vars

(* The application is told of the end of a publication when the server     *)
(* forgets it: a second before at most (the halves of an odd time), and    *)
(* 65 seconds after at most; the end of what is not refreshed comes 5      *)
(* seconds after.  The clock must not be set.                              *)
GivenUpInTime ==
  ~aborted /\ Ordinary(granted) =>
    /\ why = "gaveUp" => left \in (0 - KMinorExpiry)..1
    /\ why = "expired" /\ kind = "publish" => left = 0 - KMinorDelay
=============================================================================
