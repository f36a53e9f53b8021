-------------------------------- MODULE Docs --------------------------------
(***************************************************************************)
(* The documents.  An object has one or another; the scope that is chosen  *)
(* first says which, so that all are explored by one run.                  *)
(***************************************************************************)
EXTENDS ResourceLists, PresenceRules, Multipart, Elements

vars == <<docVars, listVars, ruleVars, mimeVars, treeVars>>

Init == DocInit /\ ListInit /\ RuleInit /\ MimeInit /\ TreeInit

ListSteps(A) == "lists" \in scope /\ ~broken /\ A /\ UNCHANGED <<ruleVars, mimeVars, treeVars>>
RuleSteps(A) == scope \cap {"lists", "mime", "tree"} = {} /\ A /\ UNCHANGED <<listVars, mimeVars, treeVars>>
MimeSteps(A) == "mime" \in scope /\ A /\ UNCHANGED <<docVars, listVars, ruleVars, treeVars>>
TreeSteps(A) == "tree" \in scope /\ A /\ UNCHANGED <<docVars, listVars, ruleVars, mimeVars>>

Runs    == ListSteps(RunL) \/ RuleSteps(RuleRunL)
Engines == ListSteps(Engine) \/ RuleSteps(RuleEngine)
Next ==
    \/ ListSteps(Navigates) \/ ListSteps(Edits) \/ ListSteps(Requesting)
    \/ RuleSteps(RuleEdits) \/ RuleSteps(RuleAsks)
    \/ MimeSteps(Writes) \/ MimeSteps(Reads)
    \/ TreeSteps(Handles)
    \/ Runs \/ Engines

(* The active scheduler runs what is ready, and the XDM engine gives up a  *)
(* request in the end if it gets no answer.                                *)
Fairness == WF_vars(Runs) /\ WF_vars(Engines)
Spec == Init /\ [][Next]_vars /\ Fairness

-----------------------------------------------------------------------------
(* The lists have the shape the server demands after every method and      *)
(* every run, whatever is called between the runs that delete empty lists, *)
(* the path has a pointer for every name, and the application is owed a    *)
(* call exactly while a request is under way.                              *)
ListsSound ==
    DocTypeOK /\ ListTypeOK
    /\ PackagesLast /\ UniqueElements /\ DisplayIsName
    /\ OwedWhileActive

(* The rules have the shape the server demands after every method, name    *)
(* nobody twice, and hold the moments that were meant.                     *)
RulesSound == RuleTypeOK /\ RuleInSchemaOrder /\ NamedOnce /\ AllStandsAlone /\ TimeKept

(* A presence document fits the room reserved for it as a message, and is  *)
(* read from that message as it was written.                               *)
MessagesSound == MimeTypeOK /\ RoomSuffices /\ RoundTrip /\ StartNamesRoot

(* Every node of a presence document that was not detached has an owner,   *)
(* and is deleted once, unless the wrapper of a parent is misused.         *)
ElementsOwned == TreeTypeOK /\ DeletedOnce /\ OnlyDetachedLeak

(* Whatever is asked, cancelled or lost, the handler is called in the end, *)
(* unless RunL leaves or a pointer that dangles is followed; deleting the  *)
(* empty lists one by one comes to an end too, if the application does not *)
(* go on adding lists meanwhile.                                           *)
HandlerCalled == <>[][~AddsWhileDeleting]_vars => (owed ~> ~owed \/ broken)
=============================================================================
