---------------------------- MODULE XdmSettings ----------------------------
(***************************************************************************)
(* The two tables of settings as their users see them, one method at a     *)
(* time: the XDM settings (TXdmSettingsApi), where a row number is also    *)
(* the id of its collection, and what PresSettings shows of the presence   *)
(* settings (PresSettingsApi), where an id is given out once.              *)
(* A name is its text without numbering, and the number in brackets. Of    *)
(* the other columns the references are kept; what the rest holds no       *)
(* handler looks at. In a full repository a Create or a Set fails, each of *)
(* them or not; a Delete does not.                                         *)
(***************************************************************************)
EXTENDS Integers, FiniteSets, FiniteSetsExt

CONSTANTS
    Bases,      \* the texts of names
    SipIds,     \* the SIP settings, which other adapters keep
    NRows,      \* bound: rows of the XDM table
    MaxIds      \* bound: ids of presence sets given out

ASSUME BasesAssumption == "none" \notin Bases
ASSUME SipAssumption   == SipIds \subseteq Nat
ASSUME BoundAssumption == NRows \in Nat /\ MaxIds \in Nat

VARIABLES
    xdm,        \* row -> its columns
    pres,       \* id -> the presence set
    lastId,     \* the last id of a presence set given out
    actors      \* who is at work, and what may go wrong

tables == <<xdm, pres, lastId>>

Unset  == -1                              \* KErrNotFound kept as a value
Absent == -2                              \* a key that does not exist
Failed == -3                              \* an error code kept as an id
NoName == [base |-> "none", n |-> 0]
Name   == [base : Bases, n : 0..(NRows + MaxIds + 1)]
Plain(b) == [base |-> b, n |-> 0]

XRows    == 0..(NRows - 1)
EmptyRow == [id |-> FALSE, name |-> NoName, sip |-> Absent]

PIds     == 1..MaxIds
(* The constructor's values of a set, which a row that is gone has too. *)
NewSet   == [name |-> NoName, sip |-> Unset, xdm |-> Unset]

TablesInit ==
    /\ xdm = [r \in XRows |-> EmptyRow]
    /\ pres = [i \in PIds |-> NewSet]
    /\ lastId = 0

(* The first of name, name(1), name(2)... that is not in use; a name that  *)
(* has a number already loses it first.                                    *)
FreeNameMutant(name, used) == name    \* the name is not numbered
FreeName(name, used) ==
    IF name \notin used THEN name
    ELSE [name EXCEPT !.n = Min({k \in 1..(Cardinality(used) + 1) :
                                   [name EXCEPT !.n = k] \notin used})]

-----------------------------------------------------------------------------
(* TXdmSettingsApi *)
Stored == {r \in XRows : xdm[r].id}
Named  == {r \in XRows : xdm[r].name # NoName}

LastRow ==
    LET n == Cardinality(Stored)
    IN IF n = 0 THEN 0 ELSE Min((n..NRows) \ Stored)

Full == "full" \in actors                 \* the repository may be

(* A column whose key exists keeps its old value, and one the repository   *)
(* has no room for stays absent: the errors are overwritten. Only that of  *)
(* the id, made last, reaches the caller, in the place of the id. The id   *)
(* of the client is ignored.                                               *)
Losses == IF Full THEN SUBSET {"id", "name", "sip"} ELSE {{}}
CreateCollectionL(p, lost) ==
    LET old == xdm[LastRow]
    IN /\ LastRow < NRows                 \* bound
       /\ xdm' = [xdm EXCEPT ![LastRow] =
             [id   |-> "id" \notin lost,
              name |-> IF old.name = NoName /\ "name" \notin lost THEN p.name ELSE old.name,
              sip  |-> IF old.sip = Absent /\ "sip" \notin lost THEN p.sip ELSE old.sip]]
Created(lost) == IF "id" \in lost THEN Failed ELSE LastRow

(* UpdatePropertyL drops the errors of Set and Create; the methods that    *)
(* add or remove one property leave on them.                               *)
WriteXdm(i, col, v)        == i \in Stored /\ xdm' = [xdm EXCEPT ![i][col] = v]
UpdateXdmL(i, col, v)      == WriteXdm(i, col, v) \/ (Full /\ i \in Stored /\ UNCHANGED xdm)
CreatePropertyL(i, col, v) == WriteXdm(i, col, v) /\ xdm[i][col] = EmptyRow[col]
RemovePropertyL(i, col)    == WriteXdm(i, col, EmptyRow[col]) /\ xdm[i][col] # EmptyRow[col]
RemoveCollectionL(i)       == i \in Stored /\ xdm' = [xdm EXCEPT ![i] = EmptyRow]

(* CollectionNamesLC pairs the keys of names and the keys of ids by their  *)
(* places in two lists: it panics when there are more names than ids, and  *)
(* lists no more ids than names.                                           *)
Listable == Cardinality(Named) <= Cardinality(Stored)
CollectionNames == {xdm[r].name : r \in Named}

CollectionIds == {i \in Stored :
    Cardinality({j \in Stored : j < i}) < Cardinality(Named)}

-----------------------------------------------------------------------------
(* PresSettingsApi *)
Sets     == {i \in PIds : pres[i].name # NoName}
SetNames == {pres[i].name : i \in Sets}

(* A set that cannot be written whole is deleted: CreateSetL leaves after  *)
(* its id is taken, and UpdatePropertyL answers an error.                  *)
CreateSetL(p) ==
    /\ lastId < MaxIds                    \* bound
    /\ lastId' = lastId + 1
    /\ pres' = [pres EXCEPT ![lastId + 1] = p]
CreateSetFails ==
    /\ Full /\ lastId < MaxIds            \* bound
    /\ lastId' = lastId + 1 /\ UNCHANGED pres
RemoveSetL(i)          == i \in Sets /\ pres' = [pres EXCEPT ![i] = NewSet] /\ UNCHANGED lastId
UpdatePresL(i, col, v) == i \in Sets /\ pres' = [pres EXCEPT ![i][col] = v] /\ UNCHANGED lastId
UpdatePresFails(i)     == Full /\ RemoveSetL(i)

(* FindL of no key at all leaves, before the id is compared. *)
NoKeys == lastId = 0

-----------------------------------------------------------------------------
TablesTypeOK ==
    /\ xdm \in [XRows -> [id : BOOLEAN, name : Name \cup {NoName},
                          sip : SipIds \cup {Unset, Absent}]]
    /\ pres \in [PIds -> [name : Name \cup {NoName}, sip : SipIds \cup {Unset},
                          xdm : XRows \cup {Unset, Failed}]]
    /\ lastId \in 0..MaxIds
=============================================================================
