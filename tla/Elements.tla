------------------------------ MODULE Elements ------------------------------
(***************************************************************************)
(* The elements of a document (CSimpleElement, CSimpleBaseDocument): thin  *)
(* wrappers around the nodes of the platform's tree (CSenElement).  A      *)
(* wrapper either owns its node, which is deleted with it together with    *)
(* everything below, or refers to a node that its parent owns.  Wrappers   *)
(* belong to the document, to the application, or to the wrapper that has  *)
(* listed its children in iElements.                                       *)
(***************************************************************************)
EXTENDS Naturals, FiniteSets, SequencesExt, Functions

CONSTANTS
    Tags,       \* local names of elements
    MaxElements,  \* bound: the nodes ever made
    MaxWraps    \* bound: the wrappers alive at a time

ASSUME ElementsAssumption == MaxElements \in Nat \ {0} /\ MaxWraps \in Nat \ {0}

VARIABLES
    node,       \* the nodes alive: their name and parent
    made,       \* the count of nodes made
    detached,   \* the nodes that were detached
    wrap,       \* the wrappers alive: their node, whether it is owned, whose they are
    deletedTwice,
    misused     \* the wrapper of a parent that has an owner was closed

treeVars == <<node, made, detached, wrap, deletedTwice, misused>>

NoParent == 0        \* no parent
Doc == 1        \* iRoot of the document

Given(n, owns, holder) == [of |-> n, owns |-> owns, holder |-> holder, lister |-> 0]
Listed(n, w)           == [of |-> n, owns |-> FALSE, holder |-> "lister", lister |-> w]

TreeInit ==
    /\ node = [n \in {1} |-> [name |-> "root", up |-> NoParent]] /\ made = 1
    /\ wrap = [w \in {Doc} |-> Given(1, TRUE, "document")]
    /\ detached = {} /\ deletedTwice = FALSE /\ misused = FALSE

(* What x hangs below, itself included. *)
Above(f, x) ==
    LET up[y \in DOMAIN f] == {y} \cup IF f[y] \in DOMAIN f THEN up[f[y]] ELSE {}
    IN up[x]
Below(f, x) == {y \in DOMAIN f : x \in Above(f, y)}
Parents == [n \in DOMAIN node |-> node[n].up]
Listers == [w \in DOMAIN wrap |-> wrap[w].lister]
ChildrenOf(n) == {c \in DOMAIN node : node[c].up = n}

(* The destructor deletes the wrappers in iElements, and the node if it is *)
(* the wrapper's own: for the second time if it is gone, or if its parent  *)
(* lives on and still has it.                                              *)
Owning(ws) == {w \in ws : wrap[w].owns}
FreedWith(ws) == UNION {Below(Parents, wrap[w].of) : w \in Owning(ws)}
Destroy(ws) ==
    /\ wrap' = Restrict(wrap, DOMAIN wrap \ ws)
    /\ node' = Restrict(node, DOMAIN node \ FreedWith(ws))
    /\ deletedTwice' = (\/ deletedTwice
                        \/ \E w \in Owning(ws) : \/ wrap[w].of \notin DOMAIN node
                                                 \/ node[wrap[w].of].up \in DOMAIN node
                                                 \/ \E v \in Owning(ws) \ {w} :
                                                      wrap[v].of \in Below(Parents, wrap[w].of))
    /\ UNCHANGED <<made, detached>>

(* New wrappers take free places. *)
Wrapped(old, new) ==
    LET at == CHOOSE f \in Injection(new, (1..MaxWraps) \ DOMAIN wrap) : TRUE
    IN [w \in DOMAIN old \cup Range(at) |->
          IF w \in Range(at) THEN CHOOSE x \in new : at[x] = w ELSE old[w]]
RoomFor(k) == Cardinality(DOMAIN wrap) + k <= MaxWraps       \* bound

(* The application uses what lives and has not been removed or detached,   *)
(* as the documentation of MSimpleElement asks.                            *)
Usable(w) == w \in DOMAIN wrap /\ wrap[w].of \in DOMAIN node

-----------------------------------------------------------------------------
AddSimpleElementLMutant(w, name) ==       \* the new element is owned
    /\ Usable(w) /\ made < MaxElements /\ RoomFor(1)
    /\ made' = made + 1
    /\ node' = [n \in DOMAIN node \cup {made'} |->
                  IF n = made' THEN [name |-> name, up |-> wrap[w].of] ELSE node[n]]
    /\ wrap' = Wrapped(wrap, {Given(made', TRUE, "application")})
    /\ UNCHANGED <<detached, deletedTwice, misused>>
AddSimpleElementL(w, name) ==
    /\ Usable(w) /\ made < MaxElements /\ RoomFor(1)
    /\ made' = made + 1
    /\ node' = [n \in DOMAIN node \cup {made'} |->
                  IF n = made' THEN [name |-> name, up |-> wrap[w].of] ELSE node[n]]
    /\ wrap' = Wrapped(wrap, {Given(made', FALSE, "application")})
    /\ UNCHANGED <<detached, deletedTwice, misused>>

(* The wrappers of the last listing go, with those of their own listings,  *)
(* and there is a new one for every child.                                 *)
SimpleElementsL(w) ==
    LET old  == Below(Listers, w) \ {w}
        kept == Restrict(wrap, DOMAIN wrap \ old)
        kids == ChildrenOf(wrap[w].of)
    IN /\ Usable(w) /\ RoomFor(Cardinality(kids))
       /\ wrap' = Wrapped(kept, {Listed(c, w) : c \in kids})
       /\ UNCHANGED <<node, made, detached, deletedTwice, misused>>

(* The parent comes as a wrapper that owns it, like any the application    *)
(* may close; the headers disagree on whose the parent is then.            *)
SimpleParentL(w) ==
    /\ Usable(w) /\ node[wrap[w].of].up # NoParent /\ RoomFor(1)
    /\ wrap' = Wrapped(wrap, {Given(node[wrap[w].of].up, TRUE, "asker")})
    /\ UNCHANGED <<node, made, detached, deletedTwice, misused>>

(* The node leaves its parent and is deleted by nobody. *)
DetachSimpleL(w) ==
    /\ Usable(w) /\ node[wrap[w].of].up # NoParent
    /\ node' = [node EXCEPT ![wrap[w].of].up = NoParent]
    /\ detached' = detached \cup {wrap[w].of}
    /\ UNCHANGED <<made, wrap, deletedTwice, misused>>

(* The first child of that name is deleted with all below it. *)
Named(n, name) == {c \in ChildrenOf(n) : node[c].name = name}
RemoveSimpleElement(w, name) ==
    LET n == wrap[w].of
        c == CHOOSE c \in Named(n, name) : \A d \in Named(n, name) : c <= d
    IN /\ Usable(w) /\ Named(n, name) # {}
       /\ node' = Restrict(node, DOMAIN node \ Below(Parents, c))
       /\ UNCHANGED <<made, detached, wrap, deletedTwice, misused>>

(* The application closes the document, the elements it was given, and the *)
(* parents that it asked for.  Only a parent that was detached is deleted  *)
(* by nobody else.                                                         *)
Orphan(n) == n \in DOMAIN node \cap detached
Close(w) ==
    /\ w \in DOMAIN wrap /\ wrap[w].holder \in {"document", "application", "asker"}
    /\ misused' = (misused \/ (wrap[w].holder = "asker" /\ ~Orphan(wrap[w].of)))
    /\ Destroy(Below(Listers, w))

Handles ==
    \E w \in 1..MaxWraps :
      \/ \E name \in Tags : AddSimpleElementL(w, name) \/ RemoveSimpleElement(w, name)
      \/ SimpleElementsL(w) \/ SimpleParentL(w) \/ DetachSimpleL(w) \/ Close(w)

-----------------------------------------------------------------------------
TreeTypeOK ==
    /\ misused \in BOOLEAN /\ made \in 1..MaxElements /\ DOMAIN node \subseteq 1..made
    /\ \A n \in DOMAIN node : node[n].up = NoParent \/ node[n].up \in DOMAIN node
    /\ DOMAIN wrap \subseteq 1..MaxWraps /\ detached \subseteq 1..made
    /\ \A w \in DOMAIN wrap :
         /\ wrap[w].of \in 1..made /\ wrap[w].owns \in BOOLEAN
         /\ wrap[w].holder \in {"document", "application", "asker", "lister"}
         /\ wrap[w].holder = "lister" <=> wrap[w].lister \in DOMAIN wrap

(* However wrappers are made, listed again and closed, in any order, no    *)
(* node is deleted by two of them, or by one and by its parent, as long as *)
(* of the parents that were asked for only detached ones are closed.       *)
DeletedOnce == deletedTwice => misused

(* Every node has an owner that will delete it, or was detached.           *)
OnlyDetachedLeak ==
    \A n \in DOMAIN node :
      \/ Above(Parents, n) \cap detached # {}
      \/ Doc \in DOMAIN wrap /\ wrap[Doc].of \in Above(Parents, n)
=============================================================================
