-------------------------- MODULE PublisherContract --------------------------
(***************************************************************************)
(* What MSimplePublisher and MSimplePublishObserver promise an             *)
(* application: a publisher has one publication at a time, it is in use    *)
(* (KErrInUse) exactly while it has one, every call is answered by one     *)
(* PublishReqCompleteL, and a publication that has been told published     *)
(* ends by the answer to StopPublishL or by PublishTerminatedL.            *)
(***************************************************************************)
VARIABLES
  told,    \* what the application has asked for and been told
  inUse    \* StartPublishL would leave with KErrInUse

vars == <<told, inUse>>

TypeOK ==
  /\ told \in {"off", "starting", "on", "modifying", "stopping"}
  /\ inUse \in BOOLEAN

Init == told = "off" /\ inUse = FALSE

Becomes(t) == told' = t /\ inUse' = (t # "off")

Start == told = "off" /\ Becomes("starting")
Started == told = "starting" /\ \E t \in {"on", "off"} : Becomes(t)

(* A modification may be asked for again before the answer to the last one.*)
Modify == told = "on" /\ Becomes("modifying")
Modified == told = "modifying" /\ \E t \in {"on", "off"} : Becomes(t)

(* StopPublishL with an ETag needs no publication of this publisher. *)
Stop == told \in {"off", "starting", "on", "modifying"} /\ Becomes("stopping")
Stopped == told = "stopping" /\ Becomes("off")

(* PublishTerminatedL. *)
Terminate == told = "on" /\ Becomes("off")

(* MSimplePublisher::Close. *)
Close == told # "off" /\ Becomes("off")

Next == Start \/ Started \/ Modify \/ Modified \/ Stop \/ Stopped \/ Terminate \/ Close

(* Every call is answered, in the end. *)
Answer == Started \/ Modified \/ Stopped
Spec == Init /\ [][Next]_vars /\ WF_vars(Answer)
=============================================================================
