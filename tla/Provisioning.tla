---------------------------- MODULE Provisioning ----------------------------
(***************************************************************************)
(* The plug-ins of the provisioning engine for presence and XDM            *)
(* (CPresProvAdapter, CXdmProvAdapter and their items).  A message holds   *)
(* presence and XDM applications; they refer to each other, and to the     *)
(* SIP application of the message, by application references "x" and "s". *)
(* The engine (external) saves the items in any order, and tells every     *)
(* adapter the id each was stored under, at any later time.                *)
(***************************************************************************)
EXTENDS XdmSettings, Sequences

CONSTANT MaxItems                     \* bound: applications of a kind in a message
ASSUME ItemsAssumption == MaxItems \in Nat

VARIABLES
    items,      \* kind -> the items read, in order
    told,       \* what has been stored and not told yet
    heard       \* what has been told

provVars == <<items, told, heard>>

Kinds == {"pres", "xdm"}
Refs  == {"s", "x"}
Item  == [name : Name, refs : SUBSET Refs, sip : SipIds \cup {Unset},
          xdm : XRows \cup {Unset, Failed}, id : XRows \cup PIds \cup {Unset, Failed},
          saved : BOOLEAN]
Info  == [app : {"sip", "xdm"}, ref : Refs, id : SipIds \cup XRows \cup {Failed}]

ProvInit ==
    /\ items = [k \in Kinds |-> <<>>]
    /\ told = {} /\ heard = {}

(* What an application of the message gives. Its parameters may be missing.*)
Given == [name : Bases \cup {"none"}, refs : {{}, {"s"}, Refs}, rest : BOOLEAN]
NewItem(g) == [name |-> Plain(g.name), refs |-> g.refs, sip |-> Unset, xdm |-> Unset,
               id |-> Unset, saved |-> FALSE]

ValidatePres(g) == g.name # "none" /\ g.refs = Refs /\ g.rest
ValidateXdm(g)  == g.name # "none" /\ g.rest     \* rest: what has no default
Validate(k, g)  == IF k = "pres" THEN ValidatePres(g) ELSE ValidateXdm(g)

VisitL(k) ==
    /\ told \cup heard = {} /\ \A j \in Kinds : \A n \in DOMAIN items[j] : ~items[j][n].saved
    /\ Len(items[k]) < MaxItems \* bound
    /\ \E g \in Given :
         items' = IF Validate(k, g) THEN [items EXCEPT ![k] = Append(@, NewItem(g))] ELSE items
    /\ UNCHANGED <<tables, told, heard>>

(* SaveL and GetSavingInfoL of the adapters refuse every item but the last.*)
Saveable(k, n) == n >= Len(items[k])
RefuseL(k, n) ==
    /\ ~Saveable(k, n)
    /\ UNCHANGED <<tables, provVars>>

(* CPresProvItem::SaveL *)
SavePresL(n) ==
    LET it == items["pres"][n]
    IN /\ Saveable("pres", n)
       /\ \/ it.saved /\ UNCHANGED <<tables, items>>
          \/ /\ ~it.saved
             /\ CreateSetL([name |-> FreeName(it.name, SetNames), sip |-> it.sip,
                            xdm |-> it.xdm])
             /\ items' = [items EXCEPT !["pres"][n] =
                            [it EXCEPT !.saved = TRUE, !.id = lastId + 1]]
             /\ UNCHANGED xdm
          \/ ~it.saved /\ CreateSetFails /\ UNCHANGED <<xdm, items>>
       /\ UNCHANGED <<told, heard>>

(* CXdmProvItem::SaveL; the number of a name is put after the whole name,  *)
(* which here has none. The name it writes is read where a descriptor was  *)
(* that is gone: what is there still, unless the stack was used since. An  *)
(* id that is an error is kept, and told, as an id.                        *)
Reused == "stack" \in actors
WrittenNames(v) == IF Reused THEN Name ELSE {v}

Tell(id) == told' = told \cup ({[app |-> "xdm", ref |-> "x", id |-> id]} \ heard)

SaveXdmL(n) ==
    LET it  == items["xdm"][n]
        new == FreeName(it.name, CollectionNames)
    IN /\ Saveable("xdm", n)
       /\ \/ it.saved /\ Tell(it.id) /\ UNCHANGED <<tables, items>>
          \/ /\ ~it.saved /\ Listable
             /\ \E v \in WrittenNames(new), lost \in Losses :
                   /\ CreateCollectionL([name |-> v,
                         sip |-> IF it.sip = Unset THEN Absent ELSE it.sip], lost)
                   /\ items' = [items EXCEPT !["xdm"][n] =
                         [it EXCEPT !.saved = TRUE, !.id = Created(lost), !.name = new]]
                   /\ Tell(Created(lost))
             /\ UNCHANGED <<pres, lastId>>
       /\ UNCHANGED heard

SaveSip ==                            \* the SIP adapter, external
    /\ \A i \in told \cup heard : i.app # "sip"
    /\ \E s \in SipIds : told' = told \cup {[app |-> "sip", ref |-> "s", id |-> s]}
    /\ UNCHANGED <<tables, items, heard>>

(* A presence item keeps the first id it hears of a kind, and updates its  *)
(* set if that is saved already; an XDM item keeps the last one, and a     *)
(* set that is saved already does not get it.                              *)
SetIds(it, i)           == IF it[i.app] # Unset THEN it ELSE [it EXCEPT ![i.app] = i.id]
SetSipSettingsId(it, i) == IF i.app # "sip" THEN it ELSE [it EXCEPT !.sip = i.id]
Heard(k, it, i) ==
    IF i.ref \notin it.refs THEN it
    ELSE IF k = "pres" THEN SetIds(it, i) ELSE SetSipSettingsId(it, i)

Owner(p) == CHOOSE n \in DOMAIN items["pres"] : items["pres"][n].id = p
OwnedSets == {p \in Sets : \E n \in DOMAIN items["pres"] : items["pres"][n].id = p}

SettingsSavedLMutant(i) ==            \* a set that is saved already is left as it is
    /\ items' = [k \in Kinds |-> [n \in DOMAIN items[k] |-> Heard(k, items[k][n], i)]]
    /\ told' = told \ {i} /\ heard' = heard \cup {i}
    /\ UNCHANGED tables
Updated(i) == {p \in OwnedSets : i.ref \in items["pres"][Owner(p)].refs}
SettingsSavedL(i) ==
    /\ items' = [k \in Kinds |-> [n \in DOMAIN items[k] |-> Heard(k, items[k][n], i)]]
    /\ \E gone \in IF Full THEN SUBSET Updated(i) ELSE {{}} : \* nobody looks at the results
          pres' = [p \in PIds |->
             IF p \in gone THEN NewSet
             ELSE IF p \in Updated(i)
             THEN [pres[p] EXCEPT ![i.app] = items'["pres"][Owner(p)][i.app]] ELSE pres[p]]
    /\ told' = told \ {i} /\ heard' = heard \cup {i}
    /\ UNCHANGED <<xdm, lastId>>

(* The engine is done with the message, or dies.                           *)
SavingFinalizedL ==
    /\ told \cup heard # {} \/ \E k \in Kinds : items[k] # <<>>
    /\ items' = [k \in Kinds |-> <<>>] /\ told' = {} /\ heard' = {}
    /\ UNCHANGED tables

ProvNext ==
    \/ \E k \in Kinds : VisitL(k) \/ \E n \in DOMAIN items[k] : RefuseL(k, n)
    \/ \E n \in DOMAIN items["pres"] : SavePresL(n)
    \/ \E n \in DOMAIN items["xdm"] : SaveXdmL(n)
    \/ SaveSip
    \/ \E i \in told : SettingsSavedL(i)
    \/ SavingFinalizedL

ProvTypeOK ==
    /\ DOMAIN items = Kinds
    /\ \A k \in Kinds : items[k] \in Seq(Item) /\ Len(items[k]) <= MaxItems
    /\ told \subseteq Info /\ heard \subseteq Info
=============================================================================
