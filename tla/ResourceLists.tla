--------------------------- MODULE ResourceLists ---------------------------
(***************************************************************************)
(* The document of resource lists (CRLSXDM): services, in them lists, in   *)
(* these lists and entries, with one current path in it, kept twice: as    *)
(* names and as pointers to the nodes.  Entries, externals and references  *)
(* to entries differ by their names only, and are all "entry" here.        *)
(***************************************************************************)
EXTENDS XdmDocument, FiniteSets, SequencesExt

CONSTANTS
    Uris,       \* the service URIs
    Names,      \* the names of lists
    Links,      \* the values of entries and of links to other lists
    MaxNodes    \* bound: nodes of the document besides the root

ASSUME MaxNodesAssumption == MaxNodes \in Nat /\ MaxNodes >= 3     \* ServerDocs

VARIABLES
    doc,        \* node -> its kind, its attribute or content, its children
    path,       \* iListPath
    pointers    \* iListPointerPath

listVars == <<doc, path, pointers>>

Root  == 0
Nodes == 1..MaxNodes
Dangling == MaxNodes + 1       \* a pointer to a node that was deleted
Kinds == {"service", "list", "entry", "link", "packages", "display"}
Keys  == Uris \cup Names \cup Links \cup {""}
Gone  == [kind |-> "gone", key |-> "", kids |-> <<>>]
Top   == [kind |-> "root", key |-> "", kids |-> <<>>]
Node  == [kind : Kinds \cup {"gone", "root"}, key : Keys, kids : Seq(Nodes)]
Empty == [n \in Nodes \cup {Root} |-> IF n = Root THEN Top ELSE Gone]

-----------------------------------------------------------------------------
(* The document of the XDM engine (external)                               *)
Kids(d, n)    == Range(d[n].kids)
Find(d, n, k) == {m \in Kids(d, n) : d[m].kind = k}
FindAll(d, k) == {m \in Nodes : d[m].kind = k}
Child(d, n, k, v) == {m \in Find(d, n, k) : d[m].key = v}

Under(d, n) ==
    LET below[i \in 0..MaxNodes] ==
            IF i = 0 THEN Kids(d, n)
            ELSE below[i - 1] \cup UNION {Kids(d, m) : m \in below[i - 1]}
    IN below[MaxNodes]

Room(d, i)  == Cardinality(FindAll(d, "gone")) >= i
Grow(d, n, k, v) ==
    LET m == CHOOSE i \in FindAll(d, "gone") : \A j \in FindAll(d, "gone") : i <= j
    IN [d EXCEPT ![m] = [kind |-> k, key |-> v, kids |-> <<>>], ![n].kids = Append(@, m)]
Prune(d, ns) ==
    LET lost == ns \cup UNION {Under(d, n) : n \in ns}
    IN [m \in DOMAIN d |-> IF m \in lost THEN Gone
                           ELSE [d[m] EXCEPT !.kids = Without(@, ns)]]
Clear(d, n) == [Prune(d, Kids(d, n)) EXCEPT ![n].kids = <<>>]

(* What a server may hold: nothing, a service alone, one with a list.      *)
Service(d, u) == Grow(Grow(d, Root, "service", u), 1, "packages", "")
ServiceWithList(u, a) ==
    Grow(Grow(Grow(Empty, Root, "service", u), 1, "list", a), 1, "packages", "")
ServerDocs ==
    {Empty} \cup {Service(Empty, u) : u \in Uris}
            \cup UNION {{ServiceWithList(u, a) : a \in Names} : u \in Uris}

-----------------------------------------------------------------------------
ListInit ==
    /\ doc = Empty
    /\ path = <<>> /\ pointers = <<>>

Here == Last(pointers)
AtService == Len(pointers) = 1

ResetPath == path' = <<>> /\ pointers' = <<>>
KeepPath  == UNCHANGED <<path, pointers>>

(* Every method that works on the current path follows its last pointer.   *)
(* When the node was deleted by a fetch or with the empty lists, what the  *)
(* method does is undefined, and nothing is said of what comes after.      *)
OnPath == pointers # <<>> /\ Here # Dangling
Stray ==
    /\ pointers # <<>> /\ Here = Dangling
    /\ broken' = TRUE
    /\ UNCHANGED <<req, status, rooted, owed, listVars>>

(* Service URIs are looked for in the root.                                *)
IsServiceUriExist(u) == rooted /\ Child(doc, Root, "service", u) # {}
ServiceNode(u) == CHOOSE n \in Child(doc, Root, "service", u) : TRUE

AddServiceURIL(u) ==
    /\ rooted /\ ~IsServiceUriExist(u) /\ Room(doc, 2)
    /\ LET with == Grow(doc, Root, "service", u)
           new  == CHOOSE n \in Child(with, Root, "service", u) : TRUE
       IN doc' = Grow(with, new, "packages", "")
    /\ KeepPath /\ UNCHANGED docVars

RemoveServiceURILMutant(u) ==         \* the path is not reset
    /\ IsServiceUriExist(u)
    /\ doc' = Prune(doc, {ServiceNode(u)})
    /\ UNCHANGED <<docVars, path, pointers>>
RemoveServiceURIL(u) ==
    /\ IsServiceUriExist(u)
    /\ doc' = Prune(doc, {ServiceNode(u)})
    /\ IF path # <<>> /\ path[1] = u THEN ResetPath ELSE UNCHANGED <<path, pointers>>
    /\ UNCHANGED docVars

DeleteAll ==
    /\ doc' = IF rooted THEN Empty ELSE doc
    /\ ResetPath
    /\ UNCHANGED docVars

(* Only the packages are in a service without lists.                       *)
DeleteAllEmptyServiceUrisL ==
    /\ doc' = Prune(doc, {n \in FindAll(doc, "service") : Len(doc[n].kids) <= 1})
    /\ ResetPath
    /\ UNCHANGED docVars

-----------------------------------------------------------------------------
(* The current path                                                        *)
GetNonLeafChild(k, v) == Child(doc, Here, k, v)

RenameListL(a, b) ==
    /\ OnPath
    /\ GetNonLeafChild("list", b) = {}
    /\ \E n \in GetNonLeafChild("list", a) : doc' = [doc EXCEPT ![n].key = b]
    /\ KeepPath /\ UNCHANGED docVars

(* The packages of a service come after its lists: they are taken away and *)
(* put back behind what is added.                                          *)
RemovePackageL(d) ==
    IF AtService /\ Find(d, pointers[1], "packages") # {}
    THEN Prune(d, {CHOOSE n \in Find(d, pointers[1], "packages") : TRUE}) ELSE d
AddPackageL(d) == IF AtService THEN Grow(d, pointers[1], "packages", "") ELSE d

AddElementL(k, v, shown) ==
    LET with == Grow(RemovePackageL(doc), Here, k, v)
        new  == CHOOSE n \in Child(with, Here, k, v) : TRUE
        full == IF shown THEN Grow(with, new, "display", "") ELSE with
    IN /\ OnPath /\ Room(doc, 2)
       /\ k = "entry" => ~AtService
       /\ GetNonLeafChild(k, v) = {}
       /\ doc' = AddPackageL(full)
       /\ KeepPath /\ UNCHANGED docVars

(* The element is emptied of everything, and gets its display name back.   *)
UpdateDisplayNameLMutant(k, v) ==     \* the element keeps what it has
    /\ OnPath /\ Room(doc, 1)
    /\ \E n \in GetNonLeafChild(k, v) : doc' = Grow(doc, n, "display", "")
    /\ KeepPath /\ UNCHANGED docVars
UpdateDisplayNameL(k, v) ==
    /\ OnPath /\ Room(doc, 1)
    /\ \E n \in GetNonLeafChild(k, v) :
          doc' = Grow(Clear(doc, n), n, "display", "")
    /\ KeepPath /\ UNCHANGED docVars

RemoveElementL(k, v) ==
    /\ OnPath
    /\ \E n \in GetNonLeafChild(k, v) : doc' = Prune(doc, {n})
    /\ KeepPath /\ UNCHANGED docVars

(* The display name is taken from the first child, if there is one.        *)
Displayed(n) == IF Cardinality(Find(doc, n, "display")) = 1 THEN {Head(doc[n].kids)} ELSE {}

SwitchToServiceURIL(u) ==
    /\ IsServiceUriExist(u)
    /\ path' = <<u>> /\ pointers' = <<ServiceNode(u)>>
    /\ UNCHANGED <<docVars, doc>>

SwitchToListL(a) ==
    /\ OnPath
    /\ \E n \in GetNonLeafChild("list", a) :
          path' = Append(path, a) /\ pointers' = Append(pointers, n)
    /\ UNCHANGED <<docVars, doc>>

SwitchOutFromList ==
    /\ path # <<>>
    /\ path' = Front(path) /\ pointers' = Front(pointers)
    /\ UNCHANGED <<docVars, doc>>

(* The whole path is looked up before anything is changed.                 *)
Reached(p) ==
    LET at[i \in 0..Len(p)] ==
            IF i = 0 THEN {Root}
            ELSE UNION {Child(doc, n, IF i = 1 THEN "service" ELSE "list", p[i]) : n \in at[i - 1]}
    IN [i \in 1..Len(p) |-> at[i]]
SetCurrentpathL(p) ==
    /\ rooted
    /\ \A i \in 1..Len(p) : Reached(p)[i] # {}
    /\ path' = p
    /\ pointers' = [i \in 1..Len(p) |-> CHOOSE n \in Reached(p)[i] : TRUE]
    /\ UNCHANGED <<docVars, doc>>

Paths == {<<>>} \cup UNION {{<<u>> \o p : p \in BoundedSeq(Names, 2)} : u \in Uris}

-----------------------------------------------------------------------------
(* Requests *)
UpdateToServerL == UpdateToServer /\ UNCHANGED listVars
(* ResetContents deletes all nodes; the path is kept.                      *)
UpdateAllFromServerL ==
    /\ UpdateFromServer \/ UpdateFromServerLeaves
    /\ doc' = Empty
    /\ pointers' = [i \in DOMAIN pointers |-> Dangling]
    /\ UNCHANGED path
CancelUpdateL == CancelUpdate /\ UNCHANGED listVars

DeleteAllEmptyLists ==
    /\ Ask("deleting", "ok")
    /\ ResetPath
    /\ UNCHANGED <<rooted, doc>>

(* A list with nothing but a display name is empty.                        *)
Bare(n) == \A m \in Kids(doc, n) : Len(doc[n].kids) < 2 /\ doc[m].kind = "display"
EmptyLists == {n \in FindAll(doc, "list") : Bare(n)}

(* One list is deleted in each run, until there is none.  The application  *)
(* may have set its path anew since the run before.                        *)
DeleteEmptyListsL ==
    /\ req = "deleting" /\ status = "ok"
    /\ \/ \E n \in EmptyLists :
             /\ doc' = Prune(doc, {n}) /\ UNCHANGED req
             /\ pointers' = [i \in DOMAIN pointers |->
                               IF pointers[i] = n THEN Dangling ELSE pointers[i]]
       \/ EmptyLists = {} /\ req' = "deleted" /\ UNCHANGED <<doc, pointers>>
    /\ UNCHANGED <<status, rooted, owed, broken, path>>

RunL ==
    \/ (UpdateRunL \/ RunLeaves) /\ UNCHANGED listVars
    \/ DeleteEmptyListsL
    \/ /\ req = "deleted" /\ status = "ok"
       /\ req' = "none" /\ status' = "idle" /\ owed' = FALSE
       /\ UNCHANGED <<rooted, broken, listVars>>

Engine ==
    \E s \in Answers :
       /\ EngineCompletes(s)
       /\ IF s = "ok" /\ req = "fromServer" THEN doc' \in ServerDocs ELSE UNCHANGED doc
       /\ UNCHANGED <<path, pointers>>

-----------------------------------------------------------------------------
Navigates ==
    \/ \E u \in Uris : SwitchToServiceURIL(u)
    \/ \E a \in Names : SwitchToListL(a)
    \/ SwitchOutFromList \/ Stray
    \/ \E p \in Paths : SetCurrentpathL(p)

Edits ==
    \/ \E u \in Uris : AddServiceURIL(u) \/ RemoveServiceURIL(u)
    \/ DeleteAll \/ DeleteAllEmptyServiceUrisL
    \/ \E a, b \in Names : RenameListL(a, b)
    \/ \E a \in Names, shown \in BOOLEAN : AddElementL("list", a, shown)
    \/ \E v \in Links, shown \in BOOLEAN : AddElementL("entry", v, shown)
    \/ \E v \in Links : AddElementL("link", v, FALSE)
    \/ \E k \in {"list", "entry", "link"}, v \in Keys : RemoveElementL(k, v)
    \/ \E k \in {"list", "entry"}, v \in Keys : UpdateDisplayNameL(k, v)

Requesting == UpdateToServerL \/ UpdateAllFromServerL \/ CancelUpdateL \/ DeleteAllEmptyLists

ListTypeOK ==
    /\ doc \in [Nodes \cup {Root} -> Node]
    /\ Len(path) = Len(pointers) /\ Range(pointers) \subseteq Nodes \cup {Dangling}

-----------------------------------------------------------------------------
(* The pointers of the current path are the nodes its names lead to, or    *)
(* dangle since a fetch or a run of the deletion: whatever is edited, also *)
(* between these runs and while a fetch is under way, nothing else leaves  *)
(* the path behind on a node that it removes, moves or renames.            *)
PathAgrees ==
    \A i \in 1..Len(path) : pointers[i] = Dangling \/ pointers[i] \in Reached(path)[i]

(* A service has one element with its packages, behind all its lists.      *)
PackagesLast ==
    \A n \in FindAll(doc, "service") :
        /\ doc[n].kids # <<>> /\ doc[Last(doc[n].kids)].kind = "packages"
        /\ Cardinality(Find(doc, n, "packages")) = 1

(* No two elements of a kind with the same name are in the same place.     *)
UniqueElements ==
    \A n \in DOMAIN doc : \A i, j \in Kids(doc, n) :
        doc[i].kind = doc[j].kind /\ doc[i].key = doc[j].key => i = j

(* What is given as the display name of an element is its display name.    *)
DisplayIsName ==
    \A n \in Nodes : \A m \in Displayed(n) : doc[m].kind = "display"

(* The application waits for its handler exactly while a request is under  *)
(* way, unless RunL has left.                                              *)
OwedWhileActive == broken \/ owed = IsActive

(* A list is added while the empty ones are deleted.                       *)
AddsWhileDeleting == req = "deleting" /\ ~(FindAll(doc', "list") \subseteq FindAll(doc, "list"))
=============================================================================
