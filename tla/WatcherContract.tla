--------------------------- MODULE WatcherContract ---------------------------
(***************************************************************************)
(* What MSimpleWatcher and MSimpleWatcherObserver promise an application,  *)
(* with no SIP, no timers and no requests: each watcher runs one request   *)
(* at a time, every request is answered once by WatcherReqCompleteL, an    *)
(* accepted subscription ends once, by WatcherTerminatedL or by the answer *)
(* to UnsubscribeL, and the watcher is in use exactly that long.           *)
(***************************************************************************)
CONSTANT Watchers

VARIABLES
  app,   \* app[x]: what the callbacks have told the application
  use    \* use[x]: what the watcher is in use for (KErrInUse unless "free")

vars == <<app, use>>

TypeOK ==
  /\ app \in [Watchers -> {"idle", "asked", "on", "stopping"}]
  /\ use \in [Watchers -> {"free", "subscription", "fetch"}]

Init ==
  /\ app = [x \in Watchers |-> "idle"]
  /\ use = [x \in Watchers |-> "free"]

Becomes(x, a, u) ==
  /\ app' = [app EXCEPT ![x] = a]
  /\ use' = [use EXCEPT ![x] = u]

Ask(x) ==
  /\ app[x] = "idle" /\ use[x] = "free"
  /\ \E u \in {"subscription", "fetch"} : Becomes(x, "asked", u)

(* A subscription is accepted.  A fetch is answered and stays in use until *)
(* the one NOTIFY of it has come.                                          *)
Accept(x) ==
  /\ app[x] = "asked"
  /\ Becomes(x, IF use[x] = "fetch" THEN "idle" ELSE "on", use[x])

(* A request fails, or a fetch is answered after its NOTIFY. *)
Finish(x) == app[x] = "asked" /\ Becomes(x, "idle", "free")

(* The NOTIFY of a fetch that is answered already. *)
Fetched(x) ==
  app[x] = "idle" /\ use[x] = "fetch" /\ Becomes(x, "idle", "free")

(* WatcherTerminatedL. *)
Terminate(x) == app[x] = "on" /\ Becomes(x, "idle", "free")

(* UnsubscribeL, and its answer. *)
Stop(x) ==
  /\ app[x] \in {"asked", "on"} /\ use[x] = "subscription"
  /\ Becomes(x, "stopping", "subscription")
Stopped(x) == app[x] = "stopping" /\ Becomes(x, "idle", "free")

Next ==
  \E x \in Watchers :
    Ask(x) \/ Accept(x) \/ Finish(x) \/ Fetched(x) \/ Terminate(x)
      \/ Stop(x) \/ Stopped(x)

(* The application is answered, in the end. *)
Answer(x) == Accept(x) \/ Finish(x) \/ Stopped(x)
Spec == Init /\ [][Next]_vars /\ \A x \in Watchers : WF_vars(Answer(x))
=============================================================================
