-------------------------- MODULE DeviceManagement --------------------------
(***************************************************************************)
(* The device management adapters of presence (CPresenceDMAdapter) and XDM *)
(* (CXdmDMAdapter).  A command names a set by a node of ./OMA_PRESENCE or  *)
(* ./OMA_XDM; the engine (external) keeps for a node the LUID the adapter  *)
(* gave it.  A node is an id in digits, as ChildURIListL lists it, or a    *)
(* name the server chose.  Only a node with a name needs its LUID kept:    *)
(* the XDM adapter gives a node of digits the LUID it reads in it, and the *)
(* presence adapter none.                                                  *)
(***************************************************************************)
EXTENDS XdmSettings

VARIABLES
    luid,       \* tree, name of a node -> LUID, or Unset
    cache,      \* CPresenceDMAdapter::iGetSetID, iGetSet
    reply       \* the last answer

dmVars == <<luid, cache, reply>>

Trees   == {"pres", "xdm"}
Digits  == XRows \cup PIds
Nodes   == [base : Bases, digits : {Unset}] \cup [base : {"none"}, digits : Digits]
Columns == {"name", "sip", "xdm", "data", "other"}
Status  == {"EOk", "ENotFound", "EError", "EInvalidObject", "left"}

NoReply == [cmd |-> "none", status |-> "EOk", tree |-> "pres", id |-> Unset,
            col |-> "other", name |-> NoName, ref |-> Unset, ids |-> {}]

DmInit ==
    /\ luid = [t \in Trees |-> [b \in Bases |-> Unset]]
    /\ cache = [id |-> Unset, set |-> NewSet]
    /\ reply = NoReply

(* DDFStructureL: the access types of the two trees.                       *)
Access(level) == CASE level = "root" -> {"get"}
                   [] level = "set"  -> {"add", "get", "replace", "delete"}
                   [] level = "leaf" -> {"add", "get", "replace"}

(* What the callback answers for the LUID of a node.                       *)
GetLuid(t, n)       == IF n.digits = Unset THEN luid[t][n.base] ELSE Unset
SetMapping(t, n, i) == luid' = IF n.digits = Unset THEN [luid EXCEPT ![t][n.base] = i] ELSE luid

Answer(cmd, t, i, s) == [NoReply EXCEPT !.cmd = cmd, !.tree = t, !.id = i, !.status = s]
ReplyWith(cmd, t, i, s) == reply' = Answer(cmd, t, i, s)

(* Streams, execution and copying are refused; the atomic commands do      *)
(* nothing, so a rollback undoes nothing.                                  *)
Unsupported(t) ==
    /\ ReplyWith("other", t, Unset, "EError")
    /\ UNCHANGED <<tables, luid, cache>>
RollbackAtomicL(t) ==
    /\ ReplyWith("rollback", t, Unset, "EOk")
    /\ UNCHANGED <<tables, luid, cache>>

-----------------------------------------------------------------------------
(* Presence *)
Valid(i)    == i \in Sets                   \* IsPresIDValidL
PresSipLink(s)  == s \in SipIds             \* GetConRefFromSipIDL finds it
PresXdmLink(x)  == x # Unset                \* GetConRefFromXdmIDL

ChildUriPres ==
    /\ "get" \in Access("root")
    /\ reply' = [Answer("list", "pres", Unset, "EOk") EXCEPT !.ids = Sets]
    /\ UNCHANGED <<tables, luid, cache>>

(* The name of a new set is the node's, numbered if it is in use.          *)
AddNodePres(n) ==
    /\ "add" \in Access("set") /\ n.digits = Unset
    /\ GetLuid("pres", n) \notin Sets
    /\ \/ /\ CreateSetL([NewSet EXCEPT !.name = FreeName(Plain(n.base), SetNames)])
          /\ SetMapping("pres", n, lastId + 1)
          /\ ReplyWith("add", "pres", lastId + 1, "EOk")
       \/ CreateSetFails /\ UNCHANGED luid /\ ReplyWith("add", "pres", Unset, "left")
    /\ UNCHANGED <<xdm, cache>>

(* The engine forgets the LUID of a node that was deleted.                 *)
DeletePres(n) ==
    LET i == GetLuid("pres", n)
    IN /\ "delete" \in Access("set")
       /\ \/ RemoveSetL(i) /\ SetMapping("pres", n, Unset)
             /\ ReplyWith("delete", "pres", i, "EOk")
          \/ i \notin Sets /\ UNCHANGED <<pres, lastId, luid>>
             /\ ReplyWith("delete", "pres", i, IF NoKeys THEN "left" ELSE "EError")
       /\ UNCHANGED <<xdm, cache>>

(* An invalid LUID is replaced by the digits of the node, for a direct     *)
(* leaf, to test whether the command is accepted; the command goes on with *)
(* the LUID.                                                               *)
Accepted(n, col) ==
    /\ col # "other"
    /\ \/ Valid(GetLuid("pres", n))
       \/ col \in {"name", "data"} /\ Valid(n.digits)

(* The set is read only when another is in the cache.                      *)
CachedMutant(i) == cache.id # Unset       \* it is not looked which
Cached(i) == cache.id = i
GetPropertyL(i) == IF Cached(i) THEN cache.set ELSE pres[i]

(* A reference to a collection that the XDM tree does not list is answered *)
(* with an empty object.                                                   *)
FetchPres(n, col) ==
    LET i     == GetLuid("pres", n)
        set   == GetPropertyL(i)
        link  == CASE col = "sip" -> PresSipLink(set.sip)
                   [] col = "xdm" -> PresXdmLink(set.xdm)
                   [] OTHER       -> TRUE
        ref   == CASE col = "sip" -> set.sip
                   [] col = "xdm" /\ set.xdm \in CollectionIds -> set.xdm
                   [] OTHER       -> Unset
    IN /\ "get" \in Access("leaf")
       /\ IF NoKeys THEN ReplyWith("fetch", "pres", i, "left") /\ UNCHANGED cache
          ELSE IF ~Accepted(n, col) \/ ~(Cached(i) \/ Valid(i))
          THEN ReplyWith("fetch", "pres", i, "ENotFound") /\ UNCHANGED cache
          ELSE /\ col = "xdm" /\ link => Listable
               /\ cache' = [id |-> i, set |-> set]
               /\ IF link
                  THEN reply' = [Answer("fetch", "pres", i, "EOk") EXCEPT
                          !.col = col, !.name = set.name, !.ref = ref]
                  ELSE ReplyWith("fetch", "pres", i, "ENotFound")
       /\ UNCHANGED <<tables, luid>>

(* UpdatePropertyL writes v to a column of set i, and answers with r.      *)
Wrote(i) == IF NoKeys THEN "left" ELSE IF i \in Sets THEN "EOk" ELSE "EError"
Written(i, col, v, r) ==
    \/ UpdatePresL(i, col, v) /\ reply' = [r EXCEPT !.status = "EOk"]
    \/ UpdatePresFails(i) /\ reply' = [r EXCEPT !.status = "EError"]
    \/ /\ i \notin Sets /\ UNCHANGED <<pres, lastId>>
       /\ reply' = [r EXCEPT !.status = Wrote(i)]

UpdatePresName(n, b) ==
    LET i == GetLuid("pres", n)
        v == FreeName(Plain(b), SetNames)   \* the set's own name counts
    IN /\ Accepted(n, "name")
       /\ Written(i, "name", v,
             [Answer("update", "pres", i, "EOk") EXCEPT !.col = "name", !.name = Plain(b)])

(* Another column: a text too long is invalid, a number that is none is    *)
(* not found.                                                              *)
UpdatePresData(n) ==
    LET i == GetLuid("pres", n)
    IN /\ Accepted(n, "data")
       /\ \/ \E s \in {Wrote(i), "EInvalidObject", "ENotFound"} :
                ReplyWith("update", "pres", i, s) /\ UNCHANGED <<pres, lastId>>
          \/ UpdatePresFails(i) /\ ReplyWith("update", "pres", i, "EError")

(* GetSipIdFromConRefL, GetXdmIdFromConRefL: the id a link leads to. The   *)
(* XDM adapter lists the children of any node of digits, so a link to a    *)
(* collection that does not exist may pass.                                *)
SipIdsFromConRef == SipIds
XdmIdsFromConRef == XRows
UpdatePresRef(n, col) ==
    LET i == GetLuid("pres", n)
    IN /\ Accepted(n, col)
       /\ \/ \E v \in IF col = "sip" THEN SipIdsFromConRef ELSE XdmIdsFromConRef :
                Written(i, col, v,
                   [Answer("update", "pres", i, "EOk") EXCEPT !.col = col, !.ref = v])
          \/ ReplyWith("update", "pres", i, "ENotFound") /\ UNCHANGED <<pres, lastId>>

UpdatePres(n) ==
    /\ "replace" \in Access("leaf")
    /\ \/ \E b \in Bases : UpdatePresName(n, b)
       \/ UpdatePresData(n)
       \/ \E col \in {"sip", "xdm"} : UpdatePresRef(n, col)
       \/ /\ \E col \in Columns : ~Accepted(n, col)
          /\ ReplyWith("update", "pres", GetLuid("pres", n), IF NoKeys THEN "left" ELSE "ENotFound")
          /\ UNCHANGED <<pres, lastId>>
    /\ UNCHANGED <<xdm, luid, cache>>

-----------------------------------------------------------------------------
(* XDM *)
(* FindSettingsIdL: a node without LUID gets the number its segment is.    *)
Target(n) == IF n.digits = Unset THEN luid["xdm"][n.base] ELSE n.digits

ChildUriXdm ==
    /\ "get" \in Access("root") /\ Listable
    /\ reply' = [Answer("list", "xdm", Unset, "EOk") EXCEPT !.ids = CollectionIds]
    /\ UNCHANGED <<tables, luid, cache>>

(* The adapter's process dies where the names cannot be listed.            *)
DmPanics ==
    /\ ~Listable
    /\ cache' = [id |-> Unset, set |-> NewSet] /\ reply' = NoReply
    /\ UNCHANGED <<tables, luid>>

(* A new collection has nothing but its id, which may be an error.         *)
AddNodeXdm(n) ==
    /\ "add" \in Access("set") /\ n.digits = Unset
    /\ GetLuid("xdm", n) \notin Stored
    /\ \E lost \in Losses :
          /\ CreateCollectionL(EmptyRow, lost)
          /\ SetMapping("xdm", n, Created(lost))
          /\ ReplyWith("add", "xdm", Created(lost), "EOk")
    /\ UNCHANGED <<pres, lastId, cache>>

DeleteXdm(n) ==
    LET i == Target(n)
    IN /\ "delete" \in Access("set")
       /\ \/ RemoveCollectionL(i) /\ SetMapping("xdm", n, Unset)
             /\ ReplyWith("delete", "xdm", i, "EOk")
          \/ i \notin Stored /\ UNCHANGED luid /\ ReplyWith("delete", "xdm", i, "EError")
             /\ UNCHANGED xdm
       /\ UNCHANGED <<pres, lastId, cache>>

(* A column that is absent reads as empty; a SIP reference that leads      *)
(* nowhere too, and only one that was never resolved is not found.         *)
FetchSipConRefL(row) == row.sip \notin {Unset, Absent}
FetchXdm(n, col) ==
    LET i == Target(n)
        row == xdm[i]
        found == /\ i \in Stored /\ col \in {"name", "sip", "data"}
                 /\ col = "sip" => FetchSipConRefL(row)
    IN /\ "get" \in Access("leaf")
       /\ IF found
          THEN reply' = [Answer("fetch", "xdm", i, "EOk") EXCEPT
                  !.col = col, !.name = row.name, !.ref = row.sip]
          ELSE ReplyWith("fetch", "xdm", i, "ENotFound")
       /\ UNCHANGED <<tables, luid, cache>>

(* A name that is the current one stays; any other is numbered until no    *)
(* collection has it, this one included.                                   *)
UpdateXdmName(i, b) ==
    \/ /\ i \in Stored /\ xdm[i].name = Plain(b)
       /\ UNCHANGED xdm
    \/ /\ i \in Stored /\ xdm[i].name # Plain(b) /\ Listable
       /\ UpdateXdmL(i, "name", FreeName(Plain(b), CollectionNames))

(* A SIP link that leads nowhere is stored as unresolved, with EOk.        *)
SipIdsFromLink == SipIds \cup {Unset}
UpdateXdm(n) ==
    LET i == Target(n)
    IN /\ "replace" \in Access("leaf")
       /\ \/ \E b \in Bases :
                /\ UpdateXdmName(i, b)
                /\ reply' = [Answer("update", "xdm", i, "EOk") EXCEPT !.col = "name", !.name = Plain(b)]
          \/ \E v \in SipIdsFromLink :
                /\ UpdateXdmL(i, "sip", v)
                /\ reply' = [Answer("update", "xdm", i, "EOk") EXCEPT !.col = "sip", !.ref = v]
          \/ i \in Stored /\ ReplyWith("update", "xdm", i, "EOk") /\ UNCHANGED xdm
          \/ ReplyWith("update", "xdm", i, "ENotFound") /\ UNCHANGED xdm
       /\ UNCHANGED <<pres, lastId, luid, cache>>

DmAdds    == \E n \in Nodes : AddNodePres(n) \/ AddNodeXdm(n)
DmDeletes == \E n \in Nodes : DeletePres(n) \/ DeleteXdm(n)
DmUpdates == \E n \in Nodes : UpdatePres(n) \/ UpdateXdm(n)
DmRefuses == \E t \in Trees : Unsupported(t) \/ RollbackAtomicL(t)

DmLists   == ChildUriXdm \/ DmPanics
DmReads   == \E n \in Nodes, col \in Columns : FetchPres(n, col) \/ FetchXdm(n, col) \/ ChildUriPres

DmTypeOK ==
    /\ luid \in [Trees -> [Bases -> {Unset, Failed} \cup Digits]]
    /\ cache \in [id : PIds \cup {Unset},
                  set : [name : Name \cup {NoName}, sip : SipIds \cup {Unset},
                         xdm : XRows \cup {Unset, Failed}]]
    /\ reply \in [cmd : {"none", "other", "rollback", "list", "add", "delete", "fetch", "update"},
                  status : Status, tree : Trees, id : {Unset, Failed} \cup Digits, col : Columns,
                  name : Name \cup {NoName}, ref : SipIds \cup XRows \cup {Unset, Absent},
                  ids : SUBSET Digits]
=============================================================================
