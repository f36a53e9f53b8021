------------------------------- MODULE Config -------------------------------
(***************************************************************************)
(* Everything that writes the settings: provisioning, device management,   *)
(* and the programs that use the exported interfaces (settings views).     *)
(* Each handler runs to its end before another starts. "full" and "stack"  *)
(* among the actors say what may go wrong: the repository takes nothing    *)
(* more, and memory is used again that a descriptor still refers to.       *)
(***************************************************************************)
EXTENDS Provisioning, DeviceManagement

CONSTANT Scopes     \* who is at work, in each of the cases to be explored
Actors == {"prov", "add", "delete", "update", "read", "list", "view", "full", "stack"}
ASSUME ScopesAssumption == Scopes \subseteq SUBSET Actors

VARIABLES
    edited,     \* sets of the message that others have written since
    aged        \* the set in the adapter's cache has been written since

vars == <<tables, provVars, dmVars, actors, edited, aged>>

Init == TablesInit /\ ProvInit /\ DmInit /\ actors \in Scopes /\ edited = {} /\ aged = FALSE

(* A settings view removes sets and edits collections (external; it uses   *)
(* the exported methods of the two interfaces).                            *)
ViewRemovesSet        == \E i \in Sets : RemoveSetL(i) /\ UNCHANGED xdm
ViewRemovesCollection == \E i \in Stored : RemoveCollectionL(i) /\ UNCHANGED <<pres, lastId>>
ViewEdits ==
    /\ \E i \in Stored :
          (\E s \in SipIds : CreatePropertyL(i, "sip", s)) \/ RemovePropertyL(i, "sip")
    /\ UNCHANGED <<pres, lastId>>
ViewNext == ViewRemovesSet \/ ViewRemovesCollection \/ ViewEdits

Owned(k)   == {items[k][n].id : n \in DOMAIN items[k]}
Edited     == edited \cup {<<"pres", i>> : i \in {j \in Owned("pres") \cap PIds : pres'[j] # pres[j]}}
                     \cup {<<"xdm", i>> : i \in {j \in Owned("xdm") \cap XRows : xdm'[j] # xdm[j]}}

Aged == /\ cache'.id = cache.id
        /\ aged \/ (cache.id \in PIds /\ pres'[cache.id] # pres[cache.id])

(* A reply is read at once: nothing after it depends on it.                *)
Provisions ==
    /\ "prov" \in actors /\ ProvNext
    /\ reply' = NoReply /\ UNCHANGED <<luid, cache, actors>>
    /\ edited' = IF items' = [k \in Kinds |-> <<>>] THEN {} ELSE edited
    /\ aged' = Aged

Manages ==
    /\ \/ "add" \in actors /\ DmAdds
       \/ "delete" \in actors /\ DmDeletes
       \/ "update" \in actors /\ DmUpdates
       \/ "read" \in actors /\ (DmReads \/ DmRefuses)
       \/ "list" \in actors /\ DmLists
    /\ edited' = Edited /\ aged' = Aged
    /\ UNCHANGED <<provVars, actors>>

Views ==
    /\ "view" \in actors /\ ViewNext
    /\ UNCHANGED <<provVars, luid, cache, actors>>
    /\ reply' = NoReply /\ edited' = Edited /\ aged' = Aged

Next == Provisions \/ Manages \/ Views

Spec == Init /\ [][Next]_vars

-----------------------------------------------------------------------------
(* The two tables, the message and the adapters keep their types: a set    *)
(* refers to SIP settings and XDM rows only, never one for the other, or   *)
(* to what an adapter took for an id.                                      *)
TypeOK == TablesTypeOK /\ ProvTypeOK /\ DmTypeOK
          /\ edited \subseteq (Trees \X Digits) /\ aged \in BOOLEAN

(* No two presence sets and no two XDM collections have the same name,     *)
(* whoever names them and whatever writes fail: both plug-ins and both     *)
(* adapters number a name that is in use, and renaming goes through the    *)
(* same check. Of the collections only while the name that provisioning    *)
(* checked is the one it writes.                                           *)
UniqueNames ==
    /\ \A i, j \in Sets : pres[i].name = pres[j].name => i = j
    /\ Reused \/ \A i, j \in Named : xdm[i].name = xdm[j].name => i = j

(* Once the ids an application refers to have been told, its saved set     *)
(* holds them, whether it was saved before or after: a presence set both   *)
(* ids, and an XDM collection the SIP id it knew when it was saved. A set  *)
(* that could not be updated is gone, rather than half told; a collection  *)
(* may keep what an earlier one left in its row, when writes fail.         *)
ToldId(app) == LET k == {i \in heard : i.app = app}
               IN IF k = {} THEN {Unset} ELSE {i.id : i \in k}
RefsResolved ==
    /\ \A n \in DOMAIN items["pres"] :
          LET it == items["pres"][n]
          IN it.saved /\ <<"pres", it.id>> \notin edited =>
                \/ Full /\ pres[it.id] = NewSet
                \/ /\ pres[it.id].sip \in ToldId("sip")
                   /\ pres[it.id].xdm \in ToldId("xdm")
    /\ \A n \in DOMAIN items["xdm"] :
          LET it == items["xdm"][n]
          IN it.saved /\ ~Full /\ <<"xdm", it.id>> \notin edited =>
                xdm[it.id].sip \in {Absent} \cup ToldId("sip")

(* What the adapters answer is so. An update answered with EOk has         *)
(* happened (a name may have got a number), except that the XDM settings   *)
(* drop the errors of a full repository; one answered otherwise changed    *)
(* nothing, or the presence set is gone. A presence leaf is answered with  *)
(* what the set of its node holds, unless the set was written after the    *)
(* adapter read it: its cache is by id, and no update refreshes it.        *)
Holds ==
    LET set == IF reply.tree = "pres" THEN pres[reply.id] ELSE xdm[reply.id]
    IN CASE reply.col = "name" -> set.name.base = reply.name.base
         [] reply.col = "other" -> TRUE
         [] OTHER -> set[reply.col] = reply.ref
UpdateSound ==
    IF reply'.status = "EOk"
    THEN Holds' \/ (Full /\ reply'.tree = "xdm" /\ UNCHANGED tables)
    ELSE /\ UNCHANGED xdm
         /\ \A i \in PIds : pres'[i] = pres[i] \/ (i = reply'.id /\ pres'[i] = NewSet)
IsCurrent ==
    /\ reply.id \in Sets
    /\ reply.name = pres[reply.id].name
    /\ reply.ref # Unset => reply.ref = pres[reply.id][reply.col]
FetchSound ==
    reply.tree = "pres" /\ reply.status = "EOk" /\ reply.id # Unset => IsCurrent \/ aged
AnswerSound ==
    /\ reply'.cmd = "update" => UpdateSound
    /\ reply'.cmd = "fetch" => FetchSound'
AnswersSound == [][AnswerSound]_vars

(* There are never more names than ids in the XDM table, which is what the *)
(* listing relies on when it takes the id with the same index, as long as  *)
(* the ids of collections can be written.                                  *)
NoPanic == Full \/ Named \subseteq Stored

(* The tables are as every reader of them takes for granted.               *)
TablesSound == TypeOK /\ UniqueNames /\ NoPanic
=============================================================================
