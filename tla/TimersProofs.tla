---------------------------- MODULE TimersProofs ----------------------------
(***************************************************************************)
(* Theorems about Timers, for words of every width and all times.          *)
(***************************************************************************)
EXTENDS Timers, TLAPS

Word == 0..(2 * Half - 1)

-----------------------------------------------------------------------------
(* The times. *)

LEMMA StartedType ==
  ASSUME NEW u \in Word
  PROVE  Started(u) \in Timer
BY HalfAssumption DEF Word, Started, Off, AsTInt, Timer

(* A wait that is positive as TInt starts a timer that waits so long. *)
LEMMA StartedPositive ==
  ASSUME NEW u \in 1..(Half - 1)
  PROVE  Started(u) \in Timer /\ Started(u) # Off /\ Started(u).secs = u
<1>1. Started(u) = [secs |-> u, abs |-> u > KUseAfterLimit]
  BY HalfAssumption DEF Started, AsTInt
<1>2. Started(u).secs # Off.secs
  BY <1>1 DEF Off
<1>3. QED
  BY <1>1, <1>2, HalfAssumption DEF Timer

LEMMA RefreshWaitType ==
  ASSUME NEW time \in Word, NEW isRefresh \in BOOLEAN
  PROVE  RefreshWait(time, isRefresh) \in Word
BY HalfAssumption
   DEF Word, RefreshWait, AsTUint, KRefreshLimit, KRefreshBefore, KMinorDelay

(* For a time that can be counted the refresh comes before its end, and    *)
(* the end of what is not refreshed a little after.                        *)
LEMMA RefreshWaitOrdinary ==
  ASSUME NEW time \in Word, NEW isRefresh \in BOOLEAN, Ordinary(time)
  PROVE  /\ RefreshWait(time, isRefresh) \in 1..(Half - 1)
         /\ isRefresh => RefreshWait(time, isRefresh) < time
         /\ ~isRefresh => RefreshWait(time, isRefresh) = time + KMinorDelay
BY HalfAssumption
   DEF Word, Ordinary, RefreshWait, AsTUint, KRefreshLimit, KRefreshBefore, KMinorDelay

LEMMA RetryExpiryRange ==
  ASSUME NEW time \in Word
  PROVE  RetryExpiryTime(time) \in 65..600
BY HalfAssumption
   DEF Word, RetryExpiryTime, Max2, KRefreshLimit, KRefreshBefore, KMinorExpiry

LEMMA RetryRange ==
  ASSUME NEW time \in Word, NEW after \in Word
  PROVE  RetryTime(time, after) \in Int /\ RetryTime(time, after) >= KMinorDelay
BY HalfAssumption
   DEF Word, RetryTime, Max2, KRefreshLimit, KRetryBefore, KMinorDelay

(* The refresh and the wait for its answer end when the time does. *)
LEMMA WaitsAddUp ==
  ASSUME NEW time \in Word, Ordinary(time)
  PROVE  time - RefreshWait(time, TRUE) - RetryExpiryTime(time) \in (0 - KMinorExpiry)..1
BY HalfAssumption
   DEF Word, Ordinary, RefreshWait, RetryExpiryTime, Max2, KRefreshLimit, KRefreshBefore,
       KMinorDelay, KMinorExpiry

-----------------------------------------------------------------------------
(* The inductive invariant: which timer runs in which phase, and how the   *)
(* time left relates to it.                                                *)

SentTimed ==
  phase = "sent" => /\ et = Started(api)
                    /\ kind = "subscribe" /\ ~refresh => rt = Started(RefreshWait(granted, FALSE))
OthersTimed ==
  /\ phase = "recreating" => et # Off /\ refresh
  /\ phase \in {"running", "retry"} => rt # Off
PublicationTimed ==
  phase = "active" /\ kind = "publish" =>
    rt = Started(RefreshWait(granted, refresh)) /\ left = granted
SubscriptionTimed ==
  phase = "active" /\ kind = "subscribe" /\ ~refresh /\ Ordinary(granted) => rt # Off
GivesUpInTime ==
  phase = "running" /\ ~aborted /\ Ordinary(granted) =>
    left - rt.secs \in (0 - KMinorExpiry)..1

NotEnded == phase # "ended" => why = "none"

Timed == NotEnded /\ SentTimed /\ OthersTimed /\ PublicationTimed /\ SubscriptionTimed
IInv == TypeOK /\ Timed /\ GivesUpInTime /\ GivenUpInTime

LEMMA InitHolds == Init => IInv
<1> SUFFICES ASSUME Init PROVE IInv
  OBVIOUS
<1>1. api \in Word
  BY HalfAssumption, StoredAssumption
     DEF Init, ExpiryApi, AsTUint, KMyDefaultAPIExpiry, Word
<1>2. Off \in Timer
  BY HalfAssumption DEF Off, Timer
<1>3. TypeOK
  <2>1. granted \in 0..(2 * Half - 1) /\ left \in Int
    BY HalfAssumption DEF Init
  <2>2. kind \in {"publish", "subscribe"} /\ refresh \in BOOLEAN /\ aborted \in BOOLEAN
    BY DEF Init
  <2>3. phase = "none" /\ rt = Off /\ et = Off /\ why = "none"
    BY DEF Init
  <2>4. QED
    BY <1>1, <1>2, <2>1, <2>2, <2>3 DEF TypeOK, Word
<1>4. Timed /\ GivesUpInTime /\ GivenUpInTime
  BY DEF Init, Timed, NotEnded, SentTimed, OthersTimed, PublicationTimed, SubscriptionTimed,
         GivesUpInTime, GivenUpInTime
<1>5. QED
  BY <1>3, <1>4 DEF IInv

(* A timer that has not fired goes on. *)
LEMMA RestRuns ==
  ASSUME NEW t \in Timer, NEW d \in {0, 1, 30}, t # Off => d <= t.secs
  PROVE  Rest(t, d) \in Timer /\ (t # Off => Rest(t, d) # Off)
<1>1. CASE t = Off
  BY <1>1 DEF Rest
<1>2. CASE t # Off
  <2>1. Rest(t, d) = [t EXCEPT !.secs = t.secs - d]
    BY <1>2 DEF Rest
  <2>2. t.secs - d \in 0..(Half - 1) /\ t.abs \in BOOLEAN
    BY <1>2, HalfAssumption DEF Timer
  <2>3. Rest(t, d) \in Timer /\ Rest(t, d).secs >= 0
    BY <2>1, <2>2, HalfAssumption DEF Timer
  <2>4. Off.secs = -1
    BY DEF Off
  <2>5. QED
    BY <2>3, <2>4
<1>3. QED
  BY <1>1, <1>2

-----------------------------------------------------------------------------
(* The actions. *)

LEMMA StartPublishSteps ==
  ASSUME IInv, NEW time \in Times, StartPublishL(time)
  PROVE  IInv'
<1>1. /\ phase = "none" /\ phase' = "sent" /\ kind = "publish" /\ kind' = kind
      /\ api' = api /\ refresh' = refresh /\ left' = left /\ why' = why /\ aborted' = aborted
      /\ granted' = time
      /\ rt' = Started(RefreshWait(time, refresh)) /\ et' = Started(api)
  BY DEF StartPublishL, Constant
<1>2. time \in Word /\ api \in Word /\ refresh \in BOOLEAN
  BY TimesAssumption DEF Word, IInv, TypeOK
<1>3. rt' \in Timer /\ et' \in Timer
  BY <1>1, <1>2, StartedType, RefreshWaitType
<1>4. TypeOK'
  BY <1>1, <1>2, <1>3 DEF IInv, TypeOK, Word
<1>5. why' = "none" /\ SentTimed'
  BY <1>1 DEF IInv, Timed, NotEnded, SentTimed
<1>6. QED
  BY <1>1, <1>4, <1>5
     DEF IInv, Timed, NotEnded, OthersTimed, PublicationTimed, SubscriptionTimed, GivesUpInTime, GivenUpInTime

LEMMA SubscribeSteps ==
  ASSUME IInv, NEW time \in Times, SubscribeL(time)
  PROVE  IInv'
<1>1. /\ phase = "none" /\ phase' = "sent" /\ kind = "subscribe" /\ kind' = kind
      /\ api' = api /\ refresh' = refresh /\ left' = left /\ why' = why /\ aborted' = aborted
      /\ granted' = IF refresh THEN granted ELSE Max2(time, api)
      /\ rt' = IF refresh THEN Off ELSE Started(RefreshWait(granted', FALSE))
      /\ et' = Started(api)
  BY DEF SubscribeL, Constant
<1>2. time \in Word /\ api \in Word /\ refresh \in BOOLEAN /\ Off \in Timer
  BY TimesAssumption, HalfAssumption DEF Word, IInv, TypeOK, Off, Timer
<1>3. granted' \in Word
  BY <1>1, <1>2 DEF Max2, Word, IInv, TypeOK
<1>4. rt' \in Timer /\ et' \in Timer
  BY <1>1, <1>2, <1>3, StartedType, RefreshWaitType
<1>5. TypeOK'
  BY <1>1, <1>2, <1>3, <1>4 DEF IInv, TypeOK, Word
<1>6. why' = "none" /\ SentTimed'
  BY <1>1, <1>2 DEF IInv, Timed, NotEnded, SentTimed
<1>7. QED
  BY <1>1, <1>5, <1>6
     DEF IInv, Timed, NotEnded, OthersTimed, PublicationTimed, SubscriptionTimed, GivesUpInTime, GivenUpInTime

LEMMA PublishGrantedSteps ==
  ASSUME IInv, NEW time \in Times, NEW d \in {0, 1, 30}, PublishGranted(d, time)
  PROVE  IInv'
<1>1. /\ phase \in {"sent", "running"} /\ phase' = "active" /\ kind = "publish" /\ kind' = kind
      /\ api' = api /\ refresh' = refresh /\ why' = why /\ aborted' = aborted
      /\ granted' = time /\ left' = time
      /\ rt' = Started(RefreshWait(time, refresh)) /\ et' = Off
  BY DEF PublishGranted, Constant
<1>2. time \in Word /\ time \in Int /\ refresh \in BOOLEAN /\ Off \in Timer
  BY TimesAssumption, HalfAssumption DEF Word, IInv, TypeOK, Off, Timer
<1>3. rt' \in Timer
  BY <1>1, <1>2, StartedType, RefreshWaitType
<1>4. TypeOK'
  BY <1>1, <1>2, <1>3 DEF IInv, TypeOK, Word
<1>5. why' = "none" /\ PublicationTimed'
  BY <1>1 DEF IInv, Timed, NotEnded, PublicationTimed
<1>6. QED
  BY <1>1, <1>4, <1>5
     DEF IInv, Timed, NotEnded, SentTimed, OthersTimed, SubscriptionTimed, GivesUpInTime, GivenUpInTime

LEMMA PublishRefusedSteps ==
  ASSUME IInv, NEW d \in {0, 1, 30}, PublishRefused(d)
  PROVE  IInv'
<1>1. /\ phase' = "ended" /\ kind' = kind /\ api' = api /\ refresh' = refresh
      /\ granted' = granted /\ left' = left - d /\ rt' = Off /\ et' = Off
      /\ why' = "refused" /\ aborted' = aborted
  BY DEF PublishRefused, Constant
<1>2. Off \in Timer /\ left' \in Int
  BY <1>1, HalfAssumption DEF IInv, TypeOK, Off, Timer
<1>3. TypeOK'
  BY <1>1, <1>2 DEF IInv, TypeOK
<1>4. QED
  BY <1>1, <1>3
     DEF IInv, Timed, NotEnded, SentTimed, OthersTimed, PublicationTimed, SubscriptionTimed,
         GivesUpInTime, GivenUpInTime

LEMMA SubscribeGrantedSteps ==
  ASSUME IInv, NEW d \in {0, 1, 30}, SubscribeGranted(d)
  PROVE  IInv'
<1>1. /\ phase \in {"sent", "recreating"} /\ phase' = "active" /\ kind = "subscribe" /\ kind' = kind
      /\ api' = api /\ refresh' = refresh /\ why' = why /\ aborted' = aborted
      /\ granted' = granted /\ left' = left
      /\ rt' = (IF phase = "sent" THEN Rest(rt, d) ELSE Off) /\ et' = Off
      /\ rt # Off => d <= rt.secs
  BY DEF SubscribeGranted, Constant, Elapses
<1>2. granted \in Word /\ granted \in Int /\ rt \in Timer /\ Off \in Timer /\ refresh \in BOOLEAN
  BY HalfAssumption DEF Word, IInv, TypeOK, Off, Timer
<1>3. Rest(rt, d) \in Timer /\ (rt # Off => Rest(rt, d) # Off)
  BY <1>1, <1>2, RestRuns
<1>4. TypeOK'
  BY <1>1, <1>2, <1>3 DEF IInv, TypeOK
<1>5. ASSUME ~refresh, Ordinary(granted), phase = "sent"
      PROVE  rt' # Off
  <2>1. rt = Started(RefreshWait(granted, FALSE))
    BY <1>1, <1>5 DEF IInv, Timed, SentTimed
  <2>2. RefreshWait(granted, FALSE) \in 1..(Half - 1)
    BY <1>2, <1>5, RefreshWaitOrdinary
  <2>3. rt # Off
    BY <2>1, <2>2, StartedPositive
  <2>4. QED
    BY <1>1, <1>3, <1>5, <2>3
<1>6. phase = "recreating" => refresh
  BY DEF IInv, Timed, OthersTimed
<1>7. SubscriptionTimed'
  BY <1>1, <1>5, <1>6 DEF SubscriptionTimed, Ordinary
<1>8. why' = "none"
  BY <1>1 DEF IInv, Timed, NotEnded
<1>9. QED
  BY <1>1, <1>4, <1>7, <1>8
     DEF IInv, Timed, NotEnded, SentTimed, OthersTimed, PublicationTimed, GivesUpInTime, GivenUpInTime

LEMMA RefreshRefusedSteps ==
  ASSUME IInv, NEW after \in Afters, RefreshRefused(after)
  PROVE  IInv'
<1> DEFINE wait == RetryTime(granted, after)
<1>1. /\ kind' = kind /\ api' = api /\ refresh' = refresh /\ refresh
      /\ granted' = granted /\ left' = left /\ et' = Off /\ aborted' = aborted
      /\ \/ phase' = "ended" /\ why' = "refused" /\ rt' = Off
         \/ wait <= KRetryBefore /\ phase' = "retry" /\ rt' = Started(wait) /\ why' = why
      /\ phase = "active"
  <2>1. granted \in Word /\ after \in Word
    BY TimesAssumption DEF IInv, TypeOK, Word
  <2>2. wait \in Int
    BY <2>1, RetryRange
  <2>3. QED
    BY <2>2 DEF RefreshRefused, Constant, KRetryBefore
<1>2. granted \in Word /\ after \in Word /\ Off \in Timer
  BY TimesAssumption, HalfAssumption DEF Word, IInv, TypeOK, Off, Timer
<1>3. phase' = "retry" => rt' \in Timer /\ rt' # Off
  <2>1. wait \in Int /\ wait >= KMinorDelay
    BY <1>2, RetryRange
  <2>2. wait <= KRetryBefore => wait \in 1..(Half - 1)
    BY <2>1, HalfAssumption DEF KRetryBefore, KMinorDelay
  <2>3. QED
    BY <1>1, <2>2, StartedPositive
<1>4. rt' \in Timer
  BY <1>1, <1>2, <1>3
<1>5. TypeOK'
  BY <1>1, <1>2, <1>4 DEF IInv, TypeOK
<1>6. phase # "ended" /\ why = "none"
  BY <1>1 DEF IInv, Timed, NotEnded
<1>7. QED
  BY <1>1, <1>3, <1>5, <1>6
     DEF IInv, Timed, NotEnded, SentTimed, OthersTimed, PublicationTimed, SubscriptionTimed,
         GivesUpInTime, GivenUpInTime

(* The refresh timer ends its wait, at its time or because the clock was   *)
(* set: then nothing is claimed of the time left.                          *)
LEMMA RefreshEndsPublish ==
  ASSUME IInv, Waiting, DoRefreshPublishL, Constant, granted' = granted,
         left' \in Int, aborted' \in BOOLEAN, ~aborted' => ~aborted /\ left' = left - rt.secs
  PROVE  IInv'
<1>1. /\ kind = "publish" /\ kind' = kind /\ api' = api /\ refresh' = refresh
      /\ granted' = granted /\ et' = et /\ phase \notin {"none", "ended"}
  BY DEF DoRefreshPublishL, Constant, Waiting
<1>2. /\ granted \in Word /\ refresh \in BOOLEAN /\ Off \in Timer /\ rt \in Timer /\ left \in Int
      /\ why = "none"
  BY HalfAssumption, <1>1 DEF Word, IInv, TypeOK, Off, Timer, Timed, NotEnded
<1>3. rt.secs \in Int
  BY <1>2 DEF Timer
<1>4. ASSUME phase = "active", Ordinary(granted)
      PROVE  left = granted /\ rt.secs = RefreshWait(granted, refresh)
  <2>1. left = granted /\ rt = Started(RefreshWait(granted, refresh))
    BY <1>1, <1>4 DEF IInv, Timed, PublicationTimed
  <2>2. RefreshWait(granted, refresh) \in 1..(Half - 1)
    BY <1>2, <1>4, RefreshWaitOrdinary
  <2>3. QED
    BY <2>1, <2>2, StartedPositive
<1>5. CASE phase = "active" /\ refresh
  <2>1. phase' = "running" /\ rt' = Started(RetryExpiryTime(granted)) /\ why' = "none"
    BY <1>2, <1>5 DEF DoRefreshPublishL
  <2>2. RetryExpiryTime(granted) \in 65..600
    BY <1>2, RetryExpiryRange
  <2>3. rt' \in Timer /\ rt' # Off /\ rt'.secs = RetryExpiryTime(granted)
    <3>1. RetryExpiryTime(granted) \in 1..(Half - 1)
      BY <2>2, HalfAssumption
    <3>2. QED
      BY <2>1, <3>1, StartedPositive
  <2>4. TypeOK'
    BY <1>1, <2>1, <2>3 DEF IInv, TypeOK
  <2>5. GivesUpInTime'
    <3>1. SUFFICES ASSUME ~aborted', Ordinary(granted)
                   PROVE  left' - rt'.secs \in (0 - KMinorExpiry)..1
      BY <1>1 DEF GivesUpInTime, Ordinary
    <3>2. left' = granted - RefreshWait(granted, TRUE)
      BY <1>4, <1>5, <3>1
    <3>3. QED
      BY <1>2, <2>3, <3>1, <3>2, WaitsAddUp
  <2>6. QED
    BY <1>1, <2>1, <2>3, <2>4, <2>5
       DEF IInv, Timed, NotEnded, SentTimed, OthersTimed, PublicationTimed, SubscriptionTimed,
           GivenUpInTime
<1>6. CASE ~(phase = "active" /\ refresh)
  <2>1. /\ phase' = "ended" /\ rt' = Off
        /\ why' = IF phase = "running" THEN "gaveUp" ELSE IF phase = "active" THEN "expired" ELSE "timedOut"
    BY <1>6 DEF DoRefreshPublishL
  <2>2. TypeOK'
    BY <1>1, <1>2, <2>1 DEF IInv, TypeOK
  <2>3. GivenUpInTime'
    <3>1. SUFFICES ASSUME ~aborted', Ordinary(granted)
                   PROVE  /\ phase = "running" => left' \in (0 - KMinorExpiry)..1
                          /\ phase = "active" => left' = 0 - KMinorDelay
      BY <1>1, <2>1 DEF GivenUpInTime, Ordinary
    <3>2. phase = "running" => left' \in (0 - KMinorExpiry)..1
      BY <3>1 DEF IInv, GivesUpInTime
    <3>3. ASSUME phase = "active"
          PROVE  left' = 0 - KMinorDelay
      <4>1. left = granted /\ rt.secs = RefreshWait(granted, FALSE)
        BY <1>2, <1>4, <1>6, <3>1, <3>3
      <4>2. RefreshWait(granted, FALSE) = granted + KMinorDelay
        BY <1>2, <3>1, RefreshWaitOrdinary
      <4>3. left' = left - rt.secs
        BY <3>1
      <4>4. granted \in Int
        BY <1>2 DEF Word
      <4>5. left' = granted - (granted + KMinorDelay)
        BY <4>1, <4>2, <4>3
      <4>6. QED
        BY <4>4, <4>5 DEF KMinorDelay
    <3>4. QED
      BY <3>2, <3>3
  <2>4. QED
    BY <1>1, <2>1, <2>2, <2>3
       DEF IInv, Timed, NotEnded, SentTimed, OthersTimed, PublicationTimed, SubscriptionTimed,
           GivesUpInTime
<1>7. QED
  BY <1>5, <1>6

LEMMA RefreshEndsSubscribe ==
  ASSUME IInv, Waiting, DoRefreshSubscribe, Constant, granted' = granted,
         left' \in Int, aborted' \in BOOLEAN
  PROVE  IInv'
<1>1. /\ kind = "subscribe" /\ kind' = kind /\ api' = api /\ refresh' = refresh
      /\ granted' = granted /\ phase \notin {"none", "ended"}
      /\ rt' = Off /\ et' = Started(RetryExpiryTime(granted))
      /\ IF refresh THEN phase' = "recreating" /\ why' = why
         ELSE phase' = "ended" /\ why' \in {"expired", "timedOut"}
  BY DEF DoRefreshSubscribe, Constant, Waiting
<1>2. granted \in Word /\ refresh \in BOOLEAN /\ Off \in Timer /\ why = "none"
  BY HalfAssumption, <1>1 DEF Word, IInv, TypeOK, Off, Timer, Timed, NotEnded
<1>3. RetryExpiryTime(granted) \in 1..(Half - 1)
  BY <1>2, RetryExpiryRange, HalfAssumption
<1>4. et' \in Timer /\ et' # Off
  BY <1>1, <1>3, StartedPositive
<1>5. TypeOK'
  BY <1>1, <1>2, <1>4 DEF IInv, TypeOK
<1>6. QED
  BY <1>1, <1>2, <1>4, <1>5
     DEF IInv, Timed, NotEnded, SentTimed, OthersTimed, PublicationTimed, SubscriptionTimed,
         GivesUpInTime, GivenUpInTime

LEMMA RefreshFiresSteps ==
  ASSUME IInv, RefreshFires
  PROVE  IInv'
<1>1. /\ Waiting /\ Constant /\ granted' = granted /\ aborted' = aborted
      /\ left' = (IF kind = "publish" THEN left - rt.secs ELSE left)
      /\ (DoRefreshPublishL \/ DoRefreshSubscribe)
  BY DEF RefreshFires
<1>2. left' \in Int /\ aborted' \in BOOLEAN
  BY <1>1 DEF IInv, TypeOK, Timer
<1>3. ASSUME DoRefreshPublishL PROVE IInv'
  <2>1. kind = "publish"
    BY <1>3 DEF DoRefreshPublishL
  <2>2. left' = left - rt.secs
    BY <1>1, <2>1
  <2>3. QED
    BY <1>1, <1>2, <1>3, <2>2, RefreshEndsPublish
<1>4. QED
  BY <1>1, <1>2, <1>3, RefreshEndsSubscribe

(* The expiry timer ends its wait. *)
LEMMA ExpiryEnds ==
  ASSUME IInv, Constant, granted' = granted, left' \in Int, aborted' \in BOOLEAN,
         phase' = "ended", why' = "timedOut", rt' = Off, et' = Off
  PROVE  IInv'
<1>1. api' = api /\ kind' = kind /\ refresh' = refresh
  BY DEF Constant
<1>2. Off \in Timer
  BY HalfAssumption DEF Off, Timer
<1>3. TypeOK'
  BY <1>1, <1>2 DEF IInv, TypeOK
<1>4. QED
  BY <1>3
     DEF IInv, Timed, NotEnded, SentTimed, OthersTimed, PublicationTimed, SubscriptionTimed,
         GivesUpInTime, GivenUpInTime

LEMMA ExpiryFiresSteps ==
  ASSUME IInv, ExpiryFires
  PROVE  IInv'
<1>1. left' \in Int /\ aborted' \in BOOLEAN
  BY DEF IInv, TypeOK, Timer, ExpiryFires
<1>2. QED
  BY <1>1, ExpiryEnds DEF ExpiryFires

LEMMA ClockSetSteps ==
  ASSUME IInv, ClockSet
  PROVE  IInv'
<1>1. /\ Waiting /\ Constant /\ granted' = granted /\ left' = left /\ aborted' = TRUE
      /\ \/ DoRefreshPublishL \/ DoRefreshSubscribe
         \/ phase' = "ended" /\ why' = "timedOut" /\ rt' = Off /\ et' = Off
  BY DEF ClockSet
<1>2. left' \in Int /\ aborted' \in BOOLEAN
  BY <1>1 DEF IInv, TypeOK
<1>3. QED
  BY <1>1, <1>2, RefreshEndsPublish, RefreshEndsSubscribe, ExpiryEnds

-----------------------------------------------------------------------------
(* Every step keeps the invariant. *)
LEMMA NextPreserves == IInv /\ [Next]_vars => IInv'
<1> SUFFICES ASSUME IInv, [Next]_vars PROVE IInv'
  OBVIOUS
<1>1. CASE UNCHANGED vars
  BY <1>1
     DEF vars, IInv, TypeOK, Timed, NotEnded, SentTimed, OthersTimed, PublicationTimed,
         SubscriptionTimed, GivesUpInTime, GivenUpInTime, Ordinary
<1>2. ASSUME NEW time \in Times, StartPublishL(time) PROVE IInv'
  BY <1>2, StartPublishSteps
<1>3. ASSUME NEW time \in Times, SubscribeL(time) PROVE IInv'
  BY <1>3, SubscribeSteps
<1>4. ASSUME NEW time \in Times, NEW d \in {0, 1, 30}, PublishGranted(d, time) PROVE IInv'
  BY <1>4, PublishGrantedSteps
<1>5. ASSUME NEW d \in {0, 1, 30}, PublishRefused(d) PROVE IInv'
  BY <1>5, PublishRefusedSteps
<1>6. ASSUME NEW d \in {0, 1, 30}, SubscribeGranted(d) PROVE IInv'
  BY <1>6, SubscribeGrantedSteps
<1>7. ASSUME NEW after \in Afters, RefreshRefused(after) PROVE IInv'
  BY <1>7, RefreshRefusedSteps
<1>8. QED
  BY <1>1, <1>2, <1>3, <1>4, <1>5, <1>6, <1>7, RefreshFiresSteps, ExpiryFiresSteps, ClockSetSteps
     DEF Next

(* The strengthened invariant holds always. *)
THEOREM Invariance == Spec => []IInv
BY InitHolds, NextPreserves, PTL DEF Spec

(* The timers, the times and the phases have their types. *)
THEOREM TypeCorrect == Spec => []TypeOK
<1>1. IInv => TypeOK
  BY DEF IInv
<1>2. QED
  BY <1>1, Invariance, PTL

(* Nothing that has no other end waits without a timer: an answer that is  *)
(* lost ends in a timeout, a refresh that is refused is tried again, and   *)
(* what was granted for an ordinary time ends.                             *)
THEOREM NothingWaitsForEver == Spec => []AlwaysTimed
<1>1. IInv => AlwaysTimed
  <2> SUFFICES ASSUME IInv PROVE AlwaysTimed
    OBVIOUS
  <2>1. ASSUME phase \in {"sent", "recreating"}, api \in 1..(Half - 1)
        PROVE  rt # Off \/ et # Off
    <3>1. phase = "sent" => et = Started(api)
      BY DEF IInv, Timed, SentTimed
    <3>2. Started(api) # Off
      BY <2>1, StartedPositive
    <3>3. phase = "recreating" => et # Off
      BY DEF IInv, Timed, OthersTimed
    <3>4. QED
      BY <2>1, <3>1, <3>2, <3>3
  <2>2. phase \in {"running", "retry"} => rt # Off
    BY DEF IInv, Timed, OthersTimed
  <2>3. ASSUME phase = "active", ~(kind = "subscribe" /\ refresh), Ordinary(granted)
        PROVE  rt # Off
    <3>1. granted \in Word /\ refresh \in BOOLEAN /\ kind \in {"publish", "subscribe"}
      BY DEF IInv, TypeOK, Word
    <3>2. CASE kind = "publish"
      <4>1. rt = Started(RefreshWait(granted, refresh))
        BY <2>3, <3>2 DEF IInv, Timed, PublicationTimed
      <4>2. RefreshWait(granted, refresh) \in 1..(Half - 1)
        BY <2>3, <3>1, RefreshWaitOrdinary
      <4>3. QED
        BY <4>1, <4>2, StartedPositive
    <3>3. CASE kind = "subscribe"
      BY <2>3, <3>3 DEF IInv, Timed, SubscriptionTimed
    <3>4. QED
      BY <3>1, <3>2, <3>3
  <2>4. QED
    BY <2>1, <2>2, <2>3 DEF AlwaysTimed
<1>2. QED
  BY <1>1, Invariance, PTL

(* The application learns of the end of a publication when the server      *)
(* forgets it, within 65 seconds, if the clock is not set.                 *)
THEOREM EndsInTime == Spec => []GivenUpInTime
<1>1. IInv => GivenUpInTime
  BY DEF IInv
<1>2. QED
  BY <1>1, Invariance, PTL

(* Something is left of a time at the end of a wait that is shorter. *)
LEMMA TimeIsLeft ==
  ASSUME NEW time \in Word, NEW wait \in 1..(Half - 1), wait < time,
         NEW rest \in {time, time - wait}
  PROVE  rest > 0
BY HalfAssumption DEF Word

(* A publication is refreshed while the server still has it: the step to   *)
(* "running" is one of RefreshFires or of ClockSet, and the time left is   *)
(* then what was granted less the wait.                                    *)
THEOREM RefreshedBeforeEnd == Spec => RefreshedInTime
<1>1. IInv /\ [Next]_vars =>
        [phase = "active" /\ phase' = "running" /\ Ordinary(granted) => left' > 0]_vars
  <2> SUFFICES ASSUME IInv, [Next]_vars, phase = "active", phase' = "running", Ordinary(granted)
               PROVE  left' > 0
    OBVIOUS
  <2>1. /\ left' \in {left, left - rt.secs}
        /\ DoRefreshPublishL
    BY DEF Next, vars, StartPublishL, SubscribeL, PublishGranted, PublishRefused, SubscribeGranted,
           RefreshRefused, RefreshFires, DoRefreshSubscribe, ExpiryFires, ClockSet
  <2>2. kind = "publish" /\ refresh
    BY <2>1 DEF DoRefreshPublishL
  <2>3. granted \in Word
    BY DEF IInv, TypeOK, Word
  <2>4. left = granted /\ rt = Started(RefreshWait(granted, TRUE))
    BY <2>2 DEF IInv, Timed, PublicationTimed, TypeOK
  <2>5. RefreshWait(granted, TRUE) \in 1..(Half - 1) /\ RefreshWait(granted, TRUE) < granted
    BY <2>3, RefreshWaitOrdinary
  <2>6. rt.secs = RefreshWait(granted, TRUE)
    BY <2>4, <2>5, StartedPositive
  <2>7. left' \in {granted, granted - RefreshWait(granted, TRUE)}
    BY <2>1, <2>4, <2>6
  <2>8. QED
    BY <2>3, <2>5, <2>7, TimeIsLeft
<1>2. QED
  BY <1>1, Invariance, PTL DEF Spec, RefreshedInTime
=============================================================================
