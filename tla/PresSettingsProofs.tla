------------------------- MODULE PresSettingsProofs -------------------------
(***************************************************************************)
(* Theorems about PresSettings, for tables of every size, any number of    *)
(* processes and everything that may go wrong: with one process that       *)
(* creates sets, an id names one set, once.                                *)
(***************************************************************************)
EXTENDS PresSettings, WellFoundedInduction, TLAPS

-----------------------------------------------------------------------------
(* A set of rows that is not empty has a least one. *)
LEMMA MinOfRows ==
  ASSUME NEW S \in SUBSET Nat, S # {}
  PROVE  Min(S) \in S /\ \A n \in S : Min(S) <= n
<1>1. \E m \in S : \A n \in S : <<n, m>> \notin OpToRel(<, Nat)
  BY WFMin, NatLessThanWellFounded
<1>2. PICK m \in S : \A n \in S : <<n, m>> \notin OpToRel(<, Nat)
  BY <1>1
<1>3. \A n \in S : ~(n < m)
  BY <1>2 DEF OpToRel
<1>4. \A n \in S : m <= n
  BY <1>3
<1>5. QED
  BY <1>4 DEF Min

-----------------------------------------------------------------------------
(* Type correctness. *)

LEMMA LeftType ==
  ASSUME NEW old \in Call, NEW a \in Answers
  PROVE  Left(old, a) \in Call
<1>1. 0 \in 0..NRows /\ {} \in SUBSET Rows /\ FALSE \in BOOLEAN /\ "done" \in Places
  BY RowsAssumption DEF Places
<1>2. QED
  BY <1>1 DEF Call, Left

LEMMA EnteredType ==
  ASSUME NEW m \in Methods, NEW p \in Places, NEW i \in 0..MaxIds, NEW v \in Cell,
         NEW a \in BOOLEAN
  PROVE  Entered(m, p, i, v, a) \in Call
<1>1. 0 \in 0..NRows /\ 0 < NRows /\ {} \in SUBSET Rows /\ FALSE \in BOOLEAN /\ "none" \in Answers
  BY RowsAssumption DEF Answers
<1>2. QED
  BY <1>1 DEF Call, Entered

LEMMA IdleType == Idle \in Call
<1>1. "none" \in Methods /\ "idle" \in Places /\ 0 \in 0..MaxIds /\ None \in Cell
  BY IdsAssumption DEF Methods, Places, Cell
<1>2. QED
  BY <1>1, EnteredType DEF Idle

LEMMA FinishType ==
  ASSUME TypeOK, NEW c \in Clients, NEW a \in Answers, Finish(c, a)
  PROVE  call' \in [Clients -> Call]
<1>1. call \in [Clients -> Call] /\ call[c] \in Call
  BY DEF TypeOK
<1>2. Left(call[c], a) \in Call
  BY <1>1, LeftType
<1>3. call' = [call EXCEPT ![c] = Left(call[c], a)]
  BY DEF Finish
<1>4. QED
  BY <1>1, <1>2, <1>3

LEMMA GotoType ==
  ASSUME TypeOK, NEW c \in Clients, NEW p \in Places \ {"fresh"}, Goto(c, p)
  PROVE  call' \in [Clients -> Call]
<1> DEFINE new == [call[c] EXCEPT !.at = p]
<1>1. call[c] \in Call
  BY DEF TypeOK
<1>2. new \in Call
  BY <1>1 DEF Call
<1>3. call' = [call EXCEPT ![c] = new]
  BY DEF Goto
<1> HIDE DEF new
<1>4. QED
  BY <1>2, <1>3 DEF TypeOK

LEMMA EnterType ==
  ASSUME TypeOK, NEW c \in Clients, NEW m \in Methods, NEW p \in Places,
         NEW i \in 0..MaxIds, NEW v \in Cell, Enter(c, m, p, i, v)
  PROVE  TypeOK'
<1>1. \A d \in Clients : call[d] \in Call
  BY DEF TypeOK
<1>2. \A a \in BOOLEAN : Entered(m, p, i, v, a) \in Call
  BY EnteredType
<1>3. \A d \in Clients : [call[d] EXCEPT !.alone = call[d].at = "idle"] \in Call
  <2> TAKE d \in Clients
  <2> DEFINE a == call[d].at = "idle"
  <2>1. a \in BOOLEAN
    OBVIOUS
  <2> HIDE DEF a
  <2>2. [call[d] EXCEPT !.alone = a] \in Call
    BY <1>1, <2>1 DEF Call
  <2>3. QED
    BY <2>2 DEF a
<1>4. (\A e \in Clients \ {c} : call[e].at = "idle") \in BOOLEAN
  OBVIOUS
<1>5. call' \in [Clients -> Call]
  BY <1>2, <1>3, <1>4 DEF Enter
<1>6. QED
  BY <1>5 DEF Enter, TypeOK

LEMMA WroteType ==
  ASSUME TypeOK, NEW c \in Clients, NEW col \in {"name", "rest"}
  PROVE  /\ Wrote(c, col) => repo' \in [Rows -> Row]
<1>1. /\ call[c].val \in Cell
      /\ repo \in [Rows -> Row]
  BY DEF TypeOK, Call
<1>2. \A r \in Rows : [repo[r] EXCEPT ![col] = call[c].val] \in Row
  BY <1>1 DEF Row
<1>3. QED
  BY <1>1, <1>2 DEF Wrote

LEMMA AfterType ==
  ASSUME NEW c \in Clients, NEW col \in {"name", "rest"}
  PROVE  After(c, col) \in {"rest", "settle"} /\ After(c, col) \in Places \ {"fresh"}
BY DEF After, Places

LEMMA FailedType ==
  ASSUME TypeOK, NEW c \in Clients, NEW col \in {"name", "rest"}, Failed(c, col)
  PROVE  call' \in [Clients -> Call] /\ repo' = repo
<1> DEFINE new == [call[c] EXCEPT !.at = After(c, col), !.bad = TRUE]
<1>1. call[c] \in Call
  BY DEF TypeOK
<1>2. new \in Call
  BY <1>1, AfterType DEF Call
<1>3. call' = [call EXCEPT ![c] = new] /\ repo' = repo
  BY DEF Failed
<1> HIDE DEF new
<1>4. QED
  BY <1>2, <1>3 DEF TypeOK

(* The steps that only move the call: where it goes, and what it keeps.    *)
Moved(c, from, to) ==
  \E new \in Call : /\ call' = [call EXCEPT ![c] = new]
                    /\ new.method = call[c].method /\ new.alone = call[c].alone
                    /\ new.id = call[c].id
                    /\ call[c].at \in from /\ new.at \in to

LEMMA FreshMoves ==
  ASSUME TypeOK, NEW c \in Clients, GetFreshRawInHex(c)
  PROVE  Moved(c, {"fresh"}, {"fresh", "count"})
<1> DEFINE next == call[c].row + 1
           p    == IF repo[next].id = 0 \/ next = NRows THEN "count" ELSE call[c].at
           row  == IF repo[next].id # 0 /\ next = NRows THEN 0 ELSE next
           new  == [call[c] EXCEPT !.at = p, !.row = row]
<1>1. call[c] \in Call /\ call[c].at = "fresh"
  BY DEF TypeOK, GetFreshRawInHex, Is
<1>2. next \in Nat /\ next <= NRows
  BY <1>1, RowsAssumption DEF Call
<1>3. row \in 0..NRows /\ p \in {"fresh", "count"} /\ (p = "fresh" => row < NRows)
  BY <1>1, <1>2, RowsAssumption
<1>4. call' = [call EXCEPT ![c] = new]
  BY DEF GetFreshRawInHex
<1> HIDE DEF row, p
<1>5. new \in Call /\ new.method = call[c].method /\ new.alone = call[c].alone /\ new.id = call[c].id /\ new.at = p
  BY <1>1, <1>3 DEF Call, Places
<1> HIDE DEF new
<1>6. QED
  BY <1>1, <1>3, <1>4, <1>5 DEF Moved

(* The listing: to the name, the id, and the deletion of a row. *)
LEMMA ListMoves ==
  ASSUME TypeOK, NEW c \in Clients, ListName(c) \/ ListId(c) \/ PurgeRow(c)
  PROVE  \/ Moved(c, {"list", "ident", "purge"}, {"list", "ident", "purge"})
         \/ Finish(c, "ok") /\ call[c].at = "list"
<1>t. call[c] \in Call
  BY DEF TypeOK
<1> DEFINE left == call[c].keys \ {Min(call[c].keys)}
<1>l. left \in SUBSET Rows
  BY <1>t DEF Call
<1> HIDE DEF left
<1>1. CASE ListName(c)
  <2> DEFINE none == repo[Min(call[c].keys)].name = None
             new == [call[c] EXCEPT !.at = "ident", !.bad = none]
  <2>1. ASSUME ~Finish(c, "ok") PROVE call' = [call EXCEPT ![c] = new]
    BY <1>1, <2>1 DEF ListName
  <2>2. none \in BOOLEAN
    OBVIOUS
  <2> HIDE DEF none
  <2>3. new \in Call /\ new.method = call[c].method /\ new.alone = call[c].alone /\ new.id = call[c].id /\ new.at = "ident"
    BY <1>t, <2>2 DEF Call, Places
  <2> HIDE DEF new
  <2>4. call[c].at = "list"
    BY <1>1 DEF ListName
  <2>5. QED
    BY <2>1, <2>3, <2>4 DEF Moved
<1>2. CASE ListId(c)
  <2> DEFINE purge == [call[c] EXCEPT !.at = "purge"]
             next  == [call[c] EXCEPT !.at = "list", !.keys = left]
  <2>1. call' \in {[call EXCEPT ![c] = purge], [call EXCEPT ![c] = next]} /\ call[c].at = "ident"
    BY <1>2 DEF ListId, left
  <2>2. /\ purge \in Call /\ purge.method = call[c].method /\ purge.alone = call[c].alone
        /\ purge.id = call[c].id /\ purge.at = "purge"
    BY <1>t DEF Call, Places
  <2>3. /\ next \in Call /\ next.method = call[c].method /\ next.alone = call[c].alone
        /\ next.id = call[c].id /\ next.at = "list"
    BY <1>t, <1>l DEF Call, Places
  <2> HIDE DEF purge, next
  <2>4. QED
    BY <2>1, <2>2, <2>3 DEF Moved
<1>3. CASE PurgeRow(c)
  <2> DEFINE next == [call[c] EXCEPT !.at = "list", !.keys = left]
  <2>1. call' = [call EXCEPT ![c] = next] /\ call[c].at = "purge"
    BY <1>3 DEF PurgeRow, left
  <2>2. /\ next \in Call /\ next.method = call[c].method /\ next.alone = call[c].alone
        /\ next.id = call[c].id /\ next.at = "list"
    BY <1>t, <1>l DEF Call, Places
  <2> HIDE DEF next
  <2>3. QED
    BY <2>1, <2>2 DEF Moved
<1>4. QED
  BY <1>1, <1>2, <1>3

(* A key that holds another id: on to the next. *)
OtherKey(c) == call' = [call EXCEPT ![c].keys = @ \ {Min(call[c].keys)}]
FoundRow(c, p) ==
  call' = [call EXCEPT ![c].row = Min(call[c].keys), ![c].at = p, ![c].keys = {}]

LEMMA MatchSteps ==
  ASSUME TypeOK, NEW c \in Clients, MatchKeys(c)
  PROVE  /\ UNCHANGED <<repo, counter, counted>> /\ call[c].at = "match"
         /\ \/ \E a \in {"notFound", "left", "argument"} : Finish(c, a)
            \/ Moved(c, {"match"}, {"match"}) /\ OtherKey(c)
            \/ /\ Min(call[c].keys) \in Rows /\ repo[Min(call[c].keys)].id = call[c].id
               /\ \E p \in Target(call[c].method) : FoundRow(c, p)
<1>t. call[c] \in Call /\ call[c].keys \subseteq Rows
  BY DEF TypeOK, Call
<1> DEFINE r == Min(call[c].keys)
<1>1. call[c].keys # {} => r \in Rows
  BY <1>t, MinOfRows DEF Rows
<1> HIDE DEF r
<1>2. ASSUME OtherKey(c) PROVE Moved(c, {"match"}, {"match"})
  <2> DEFINE rest == call[c].keys \ {r}
             new == [call[c] EXCEPT !.keys = rest]
  <2>1. call' = [call EXCEPT ![c] = new]
    BY <1>2 DEF r, OtherKey
  <2>2. rest \in SUBSET Rows
    BY <1>t
  <2> HIDE DEF rest
  <2>3. call[c].at = "match"
    BY DEF MatchKeys
  <2>4. new \in Call /\ new.method = call[c].method /\ new.alone = call[c].alone /\ new.id = call[c].id /\ new.at = "match"
    BY <1>t, <2>2, <2>3 DEF Call
  <2> HIDE DEF new
  <2>5. QED
    BY <2>1, <2>3, <2>4 DEF Moved
<1>3. /\ UNCHANGED <<repo, counter, counted>> /\ call[c].at = "match"
      /\ \/ \E a \in {"notFound", "left", "argument"} : Finish(c, a)
         \/ OtherKey(c)
         \/ /\ call[c].keys # {} /\ repo[r].id = call[c].id
            /\ \E p \in Target(call[c].method) : FoundRow(c, p)
  BY DEF MatchKeys, r, OtherKey, FoundRow
<1>4. QED
  BY <1>1, <1>2, <1>3 DEF r

LEMMA FoundType ==
  ASSUME TypeOK, NEW c \in Clients, NEW p \in Target(call[c].method), FoundRow(c, p),
         Min(call[c].keys) \in Rows
  PROVE  \E new \in Call : /\ call' = [call EXCEPT ![c] = new]
                           /\ new.method = call[c].method /\ new.alone = call[c].alone
                           /\ new.id = call[c].id /\ new.at = p /\ new.row = Min(call[c].keys)
                           /\ p \in {"name", "rest", "delete"}
<1> DEFINE m == Min(call[c].keys)
           new == [call[c] EXCEPT !.row = m, !.at = p, !.keys = {}]
<1>1. p \in {"name", "rest", "delete"} /\ m \in 0..NRows /\ {} \in SUBSET Rows
  BY RowsAssumption DEF Target, Rows
<1>2. call' = [call EXCEPT ![c] = new]
  BY DEF FoundRow
<1> HIDE DEF m
<1>3. /\ new \in Call /\ new.method = call[c].method /\ new.at = p /\ new.alone = call[c].alone
      /\ new.id = call[c].id /\ new.row = m
  BY <1>1 DEF Call, Places, TypeOK
<1> HIDE DEF new
<1>4. QED
  BY <1>1, <1>2, <1>3 DEF m

(* The counter is read, or found missing and created. *)
LEMMA CountMoves ==
  ASSUME TypeOK, NEW c \in Clients
  PROVE  /\ ReadCounter(c) /\ ~counted => Moved(c, {"count"}, {"make"})
         /\ ReadCounter(c) /\ counted => call' = [call EXCEPT ![c].at = "bump", ![c].id = counter + 1]
<1>1. call[c] \in Call
  BY DEF TypeOK
<1>2. ASSUME ReadCounter(c), ~counted PROVE Moved(c, {"count"}, {"make"})
  <2> DEFINE new == [call[c] EXCEPT !.at = "make"]
  <2>1. call' = [call EXCEPT ![c] = new] /\ call[c].at = "count"
    BY <1>2 DEF ReadCounter, Is
  <2>2. new \in Call /\ new.method = call[c].method /\ new.alone = call[c].alone /\ new.id = call[c].id /\ new.at = "make"
    BY <1>1 DEF Call, Places
  <2> HIDE DEF new
  <2>3. QED
    BY <2>1, <2>2 DEF Moved
<1>3. QED
  BY <1>2 DEF ReadCounter

LEMMA MovedType ==
  ASSUME TypeOK, NEW c \in Clients, NEW from, NEW to, Moved(c, from, to)
  PROVE  call' \in [Clients -> Call]
BY DEF TypeOK, Moved

LEMMA EmptyType ==
  ASSUME TypeOK, NEW r
  PROVE  [repo EXCEPT ![r] = Empty] \in [Rows -> Row]
<1>1. Empty \in Row
  BY IdsAssumption DEF Empty, Row, Cell
<1>2. QED
  BY <1>1 DEF TypeOK

LEMMA TypeInit == Init => TypeOK
<1> SUFFICES ASSUME Init PROVE TypeOK
  OBVIOUS
<1>1. Empty \in Row
  BY IdsAssumption DEF Empty, Row, Cell
<1>2. counted \in BOOLEAN
  BY DEF Init
<1>3. QED
  BY <1>1, <1>2, IdleType, IdsAssumption DEF Init, TypeOK

(* The methods that are called. *)
Enters(c) ==
  \/ CreateSetL(c) \/ UpdateSetL(c) \/ UpdatePropertyL(c) \/ RemoveSetL(c)
  \/ SettingsSetL(c) \/ GetAllSetsNamesLC(c)

LEMMA EntersType ==
  ASSUME TypeOK, NEW c \in Clients, Enters(c)
  PROVE  TypeOK'
<1>1. /\ None \in Cell /\ Vals \subseteq Cell
      /\ {"fresh", "find"} \subseteq Places
      /\ Ids \subseteq 0..MaxIds /\ 0 \in 0..MaxIds
  BY IdsAssumption DEF Cell, Places, Ids
<1>2. \A m \in Methods : m = m
  OBVIOUS
<1>3. CASE CreateSetL(c)
  BY <1>1, <1>3, EnterType DEF CreateSetL, Methods
<1>4. CASE UpdateSetL(c)
  BY <1>1, <1>4, EnterType DEF UpdateSetL, Methods
<1>5. CASE UpdatePropertyL(c)
  BY <1>1, <1>5, EnterType DEF UpdatePropertyL, Methods
<1>6. CASE RemoveSetL(c)
  BY <1>1, <1>6, EnterType DEF RemoveSetL, Methods
<1>7. CASE SettingsSetL(c)
  BY <1>1, <1>7, EnterType DEF SettingsSetL, Methods
<1>8. CASE GetAllSetsNamesLC(c)
  BY <1>1, <1>8, EnterType DEF GetAllSetsNamesLC, Methods
<1>9. QED
  BY <1>3, <1>4, <1>5, <1>6, <1>7, <1>8 DEF Enters

LEMMA TypeNext == TypeOK /\ [Next]_vars => TypeOK'
<1> SUFFICES ASSUME TypeOK, [Next]_vars PROVE TypeOK'
  OBVIOUS
<1>t. /\ repo \in [Rows -> Row] /\ counter \in 0..MaxIds /\ counted \in BOOLEAN
      /\ call \in [Clients -> Call]
  BY DEF TypeOK
<1>1. CASE UNCHANGED vars
  BY <1>1 DEF vars, TypeOK
<1>2. ASSUME NEW c \in Clients, Enters(c) PROVE TypeOK'
  BY <1>2, EntersType
<1>3. ASSUME NEW c \in Clients, GetFreshRawInHex(c) PROVE TypeOK'
  <2>1. UNCHANGED <<repo, counter, counted>>
    BY <1>3 DEF GetFreshRawInHex
  <2>2. call' \in [Clients -> Call]
    BY <1>3, FreshMoves, MovedType
  <2>3. QED
    BY <2>1, <2>2, <1>t DEF TypeOK
<1>4. ASSUME NEW c \in Clients, ReadCounter(c) \/ CreateCounter(c) PROVE TypeOK'
  <2>1. ASSUME NEW i \in 1..MaxIds, call' = [call EXCEPT ![c].at = "bump", ![c].id = i]
        PROVE  call' \in [Clients -> Call]
    <3> DEFINE new == [call[c] EXCEPT !.at = "bump", !.id = i]
    <3>1. call[c] \in Call /\ i \in 0..MaxIds
      BY <1>t, IdsAssumption
    <3>2. new \in Call
      BY <3>1 DEF Call, Places
    <3>3. call' = [call EXCEPT ![c] = new]
      BY <2>1
    <3> HIDE DEF new
    <3>4. QED
      BY <3>2, <3>3, <1>t
  <2>2. 1 \in 1..MaxIds /\ (ReadCounter(c) => counter + 1 \in 1..MaxIds)
    BY <1>t, IdsAssumption DEF ReadCounter
  <2>3. ASSUME ReadCounter(c) PROVE call' \in [Clients -> Call]
    <3>1. CASE counted
      <4>1. PICK i \in 1..MaxIds : i = counter + 1
        BY <2>2, <2>3
      <4>2. call' = [call EXCEPT ![c].at = "bump", ![c].id = i]
        BY <2>3, <3>1, <4>1, CountMoves
      <4>3. QED
        BY <2>1, <4>2
    <3>2. CASE ~counted
      BY <2>3, <3>2, CountMoves, MovedType
    <3>3. QED
      BY <3>1, <3>2
  <2>4. ASSUME CreateCounter(c) PROVE call' \in [Clients -> Call]
    <3>1. CASE Finish(c, "left")
      BY <3>1, FinishType DEF Answers
    <3>2. CASE ~Finish(c, "left")
      <4>1. PICK i \in 1..MaxIds : i = 1
        BY <2>2
      <4>2. call' = [call EXCEPT ![c].at = "bump", ![c].id = i]
        BY <2>4, <3>2, <4>1 DEF CreateCounter
      <4>3. QED
        BY <2>1, <4>2
    <3>3. QED
      BY <3>1, <3>2
  <2>5. call' \in [Clients -> Call]
    BY <1>4, <2>3, <2>4
  <2>6. repo' = repo /\ counter' = counter /\ counted' \in BOOLEAN
    BY <1>4, <1>t DEF ReadCounter, CreateCounter
  <2>7. QED
    BY <2>5, <2>6, <1>t DEF TypeOK
<1>5. ASSUME NEW c \in Clients, WriteCounter(c) PROVE TypeOK'
  <2>1. call[c].id \in 0..MaxIds
    BY <1>t DEF Call
  <2>2. counter' \in 0..MaxIds /\ repo' = repo /\ counted' = counted
    BY <1>5, <2>1, <1>t DEF WriteCounter
  <2>3. call' \in [Clients -> Call]
    BY <1>5, GotoType, FinishType DEF WriteCounter, Places, Answers
  <2>4. QED
    BY <2>2, <2>3, <1>t DEF TypeOK
<1>6. ASSUME NEW c \in Clients, CreateIdKey(c) PROVE TypeOK'
  <2>1. call[c].id \in 0..MaxIds
    BY <1>t DEF Call
  <2>2. \A r \in Rows : [repo[r] EXCEPT !.id = call[c].id] \in Row
    BY <2>1, <1>t DEF Row
  <2>3. [repo EXCEPT ![call[c].row].id = call[c].id] \in [Rows -> Row]
    BY <2>2, <1>t
  <2>4. repo' \in [Rows -> Row] /\ counter' = counter /\ counted' = counted
    BY <1>6, <2>3, <1>t DEF CreateIdKey
  <2>5. call' \in [Clients -> Call]
    BY <1>6, GotoType, FinishType DEF CreateIdKey, Places, Answers
  <2>6. QED
    BY <2>4, <2>5, <1>t DEF TypeOK
<1>7. ASSUME NEW c \in Clients, FindKeys(c) PROVE TypeOK'
  <2>1. Keys \in SUBSET Rows
    BY DEF Keys
  <2>2. ASSUME NEW p \in {"list", "match"}, call' = [call EXCEPT ![c].at = p, ![c].keys = Keys]
        PROVE  call' \in [Clients -> Call]
    <3> DEFINE new == [call[c] EXCEPT !.at = p, !.keys = Keys]
    <3>1. new \in Call
      BY <2>1, <1>t DEF Call, Places
    <3>2. call' = [call EXCEPT ![c] = new]
      BY <2>2
    <3> HIDE DEF new
    <3>3. QED
      BY <3>1, <3>2, <1>t
  <2>3. call' \in [Clients -> Call]
    BY <1>7, <2>2, FinishType DEF FindKeys, Answers
  <2>4. QED
    BY <1>7, <2>3, <1>t DEF FindKeys, TypeOK
<1>8. ASSUME NEW c \in Clients, MatchKeys(c) PROVE TypeOK'
  <2>1. UNCHANGED <<repo, counter, counted>>
    BY <1>8, MatchSteps
  <2>2. call' \in [Clients -> Call]
    <3>1. ASSUME NEW a \in {"notFound", "left", "argument"}, Finish(c, a)
          PROVE  call' \in [Clients -> Call]
      BY <3>1, FinishType DEF Answers
    <3>2. ASSUME NEW p \in Target(call[c].method), FoundRow(c, p), Min(call[c].keys) \in Rows
          PROVE  call' \in [Clients -> Call]
      BY <3>2, FoundType, <1>t
    <3>3. QED
      BY <1>8, <3>1, <3>2, MatchSteps, MovedType
  <2>3. QED
    BY <2>1, <2>2, <1>t DEF TypeOK
<1>9. ASSUME NEW c \in Clients, NEW col \in {"name", "rest"},
             CreateKey(c, col) \/ SetKey(c, col) \/ GetKey(c, col)
      PROVE  TypeOK'
  <2>1. \/ (Wrote(c, col) \/ UNCHANGED repo) /\ Goto(c, After(c, col))
        \/ Failed(c, col)
    BY <1>9 DEF CreateKey, SetKey, GetKey
  <2>2. repo' \in [Rows -> Row]
    BY <2>1, WroteType, FailedType, <1>t
  <2>3. call' \in [Clients -> Call]
    BY <2>1, AfterType, GotoType, FailedType
  <2>4. counter' = counter /\ counted' = counted
    BY <1>9 DEF CreateKey, SetKey, GetKey
  <2>5. QED
    BY <2>2, <2>3, <2>4, <1>t DEF TypeOK
<1>10. ASSUME NEW c \in Clients, Settle(c) \/ DeleteRow(c) \/ DeleteAgain(c) PROVE TypeOK'
  <2>1. call' \in [Clients -> Call]
    BY <1>10, FinishType, GotoType DEF Settle, DeleteRow, DeleteAgain, Answers, Places
  <2>2. repo' \in [Rows -> Row] /\ counter' = counter /\ counted' = counted
    BY <1>10, EmptyType, <1>t DEF Settle, DeleteRow, DeleteAgain
  <2>3. QED
    BY <2>1, <2>2, <1>t DEF TypeOK
<1>11. ASSUME NEW c \in Clients, ListName(c) \/ ListId(c) \/ PurgeRow(c) PROVE TypeOK'
  <2>1. repo' \in [Rows -> Row] /\ counter' = counter /\ counted' = counted
    BY <1>11, EmptyType, <1>t DEF ListName, ListId, PurgeRow
  <2>2. call' \in [Clients -> Call]
    BY <1>11, ListMoves, MovedType, FinishType DEF Answers
  <2>3. QED
    BY <2>1, <2>2, <1>t DEF TypeOK
<1>12. ASSUME NEW c \in Clients, Return(c) \/ Crash(c) PROVE TypeOK'
  BY <1>12, IdleType, <1>t DEF Return, Crash, TypeOK
<1>13. QED
  BY <1>1, <1>2, <1>3, <1>4, <1>5, <1>6, <1>7, <1>8, <1>9, <1>10, <1>11, <1>12
     DEF Next, Enters

(* The rows, the counter and the calls keep their types. *)
THEOREM TypeCorrect == Spec => []TypeOK
BY TypeInit, TypeNext, PTL DEF Spec

-----------------------------------------------------------------------------
(* One process creates sets.  The ids in the table are not above the       *)
(* counter; the one that is about to be the counter is the next; the one   *)
(* that is claimed is no longer above it, and in no row.                   *)
At(c, p) == call[c].method = "CreateSetL" /\ call[c].at = p

Makers == \A c \in Clients : call[c].method = "CreateSetL" => c \in Creators
Given  == \A r \in Rows : repo[r].id <= counter
Counted == ~counted => counter = 0
Bumped == \A c \in Clients : At(c, "bump") => counted /\ call[c].id = counter + 1
Claims == \A c \in Clients :
            At(c, "claim") => /\ call[c].id \in 1..counter
                              /\ \A r \in Rows : repo[r].id # call[c].id

IInv == TypeOK /\ Makers /\ Given /\ Counted /\ Bumped /\ Claims /\ UniqueIds

(* A step that gives no id: rows may lose theirs, and what a creation has  *)
(* got so far stays or is given up.                                        *)
Keeps(d, p) == At(d, p)' => At(d, p) /\ call'[d].id = call[d].id
GivesNone ==
  /\ counter' = counter /\ counted' = counted
  /\ \A r \in Rows : repo'[r].id \in {0, repo[r].id}
  /\ \A d \in Clients : /\ call'[d].method = "CreateSetL" => d \in Creators
                        /\ Keeps(d, "bump") /\ Keeps(d, "claim")

LEMMA GivesNoneHolds ==
  ASSUME IInv, TypeOK', GivesNone
  PROVE  IInv'
<1>1. /\ counter \in 0..MaxIds /\ counter' = counter /\ counted' = counted
      /\ \A r \in Rows : repo[r].id \in 0..MaxIds /\ repo'[r].id \in {0, repo[r].id}
  BY DEF IInv, TypeOK, Row, GivesNone
<1>2. Makers'
  BY DEF GivesNone, Makers
<1>3. Given' /\ Counted'
  BY <1>1, IdsAssumption DEF Given, Counted, IInv
<1>4. Bumped'
  BY <1>1 DEF GivesNone, Keeps, Bumped, IInv
<1>5. Claims'
  BY <1>1, IdsAssumption DEF GivesNone, Keeps, Claims, IInv
<1>6. UniqueIds'
  BY <1>1 DEF UniqueIds, IInv
<1>7. QED
  BY <1>2, <1>3, <1>4, <1>5, <1>6 DEF IInv

(* The progress of one call, seen from the parts above. *)
LEMMA OneCall ==
  ASSUME IInv, NEW c \in Clients, NEW new \in Call, call' = [call EXCEPT ![c] = new],
         new.method \in {call[c].method, "none"},
         new.method # "none" =>
           (new.at = call[c].at /\ new.id = call[c].id) \/ new.at \notin {"bump", "claim"}
  PROVE  \A d \in Clients : /\ call'[d].method = "CreateSetL" => d \in Creators
                            /\ Keeps(d, "bump") /\ Keeps(d, "claim")
<1>1. \A d \in Clients : call'[d] = IF d = c THEN new ELSE call[d]
  BY DEF IInv, TypeOK
<1>2. QED
  BY <1>1 DEF IInv, Makers, Keeps, At

LEMMA GotoKeeps ==
  ASSUME IInv, NEW c \in Clients, NEW p \in Places \ {"fresh", "bump", "claim"}, Goto(c, p)
  PROVE  \A d \in Clients : /\ call'[d].method = "CreateSetL" => d \in Creators
                            /\ Keeps(d, "bump") /\ Keeps(d, "claim")
<1> DEFINE new == [call[c] EXCEPT !.at = p]
<1>1. call[c] \in Call
  BY DEF IInv, TypeOK
<1>2. new \in Call /\ new.method = call[c].method /\ new.at = p
  BY <1>1 DEF Call
<1>3. call' = [call EXCEPT ![c] = new]
  BY DEF Goto
<1> HIDE DEF new
<1>4. QED
  BY <1>2, <1>3, OneCall

LEMMA FinishKeeps ==
  ASSUME IInv, NEW c \in Clients, NEW a \in Answers, Finish(c, a)
  PROVE  \A d \in Clients : /\ call'[d].method = "CreateSetL" => d \in Creators
                            /\ Keeps(d, "bump") /\ Keeps(d, "claim")
<1> DEFINE new == Left(call[c], a)
<1>1. new \in Call
  BY LeftType DEF IInv, TypeOK
<1>2. new.method = call[c].method /\ new.at = "done"
  BY DEF Left
<1>3. call' = [call EXCEPT ![c] = new]
  BY DEF Finish
<1> HIDE DEF new
<1>4. QED
  BY <1>1, <1>2, <1>3, OneCall

LEMMA MovedKeeps ==
  ASSUME IInv, NEW c \in Clients, NEW from, NEW to, Moved(c, from, to), {"bump", "claim"} \cap to = {}
  PROVE  \A d \in Clients : /\ call'[d].method = "CreateSetL" => d \in Creators
                            /\ Keeps(d, "bump") /\ Keeps(d, "claim")
<1>1. PICK new \in Call : /\ call' = [call EXCEPT ![c] = new]
                         /\ new.method = call[c].method /\ new.at \notin {"bump", "claim"}
  BY DEF Moved
<1>2. QED
  BY <1>1, OneCall

(* Every other step than those that make an id gives none. *)
Others(c) ==
  \/ GetFreshRawInHex(c) \/ FindKeys(c) \/ MatchKeys(c)
  \/ \E col \in {"name", "rest"} : CreateKey(c, col) \/ SetKey(c, col) \/ GetKey(c, col)
  \/ Settle(c) \/ DeleteRow(c) \/ DeleteAgain(c) \/ ListName(c) \/ ListId(c) \/ PurgeRow(c)
  \/ Return(c) \/ Crash(c)

LEMMA EntersNone ==
  ASSUME IInv, NEW c \in Clients, Enters(c)
  PROVE  GivesNone
<1>1. ASSUME NEW m \in Methods, NEW p \in Places, NEW i, NEW v,
             m = "CreateSetL" => c \in Creators, p \notin {"bump", "claim"}, Enter(c, m, p, i, v)
      PROVE  GivesNone
  <2>1. repo' = repo /\ counter' = counter /\ counted' = counted
    BY <1>1 DEF Enter
  <2>2. /\ call'[c].method = m /\ call'[c].at = p
        /\ \A d \in Clients \ {c} : /\ call'[d].method = call[d].method
                                    /\ call'[d].at = call[d].at
                                    /\ call'[d].id = call[d].id
    <3>1. \A d \in Clients \ {c} : call[d] \in Call
      BY DEF IInv, TypeOK
    <3>2. QED
      BY <1>1, <3>1 DEF Enter, Entered, Call
  <2>3. \A r \in Rows : repo'[r].id = repo[r].id
    BY <2>1
  <2>4. QED
    BY <1>1, <2>1, <2>2, <2>3 DEF GivesNone, Keeps, At, IInv, Makers
<1>2. {"fresh", "find"} \subseteq Places
  BY DEF Places
<1>3. QED
  BY <1>1, <1>2 DEF Enters, Methods, CreateSetL, UpdateSetL, UpdatePropertyL, RemoveSetL,
                    SettingsSetL, GetAllSetsNamesLC

LEMMA EmptiedRow ==
  ASSUME TypeOK, NEW q, repo' = [repo EXCEPT ![q] = Empty]
  PROVE  \A r \in Rows : repo'[r].id \in {0, repo[r].id}
BY DEF TypeOK, Empty

LEMMA WroteColumn ==
  ASSUME TypeOK, NEW c \in Clients, NEW col \in {"name", "rest"}, Wrote(c, col)
  PROVE  \A r \in Rows : repo'[r].id = repo[r].id
<1>1. \A r \in Rows : repo[r] \in Row
  BY DEF TypeOK
<1>2. \A r \in Rows : repo'[r] = IF r = call[c].row THEN [repo[r] EXCEPT ![col] = call[c].val] ELSE repo[r]
  BY DEF Wrote, TypeOK
<1>3. \A r \in Rows : [repo[r] EXCEPT ![col] = call[c].val].id = repo[r].id
  BY <1>1 DEF Row
<1>4. QED
  BY <1>2, <1>3

LEMMA OthersNone ==
  ASSUME IInv, NEW c \in Clients, Others(c)
  PROVE  GivesNone
<1> DEFINE Calls == \A d \in Clients : /\ call'[d].method = "CreateSetL" => d \in Creators
                                       /\ Keeps(d, "bump") /\ Keeps(d, "claim")
           Vanish == \A r \in Rows : repo'[r].id \in {0, repo[r].id}
<1>t. TypeOK /\ call \in [Clients -> Call] /\ call[c] \in Call
  BY DEF IInv, TypeOK
<1>1. CASE GetFreshRawInHex(c)
  <2>1. Calls
    BY <1>1, <1>t, FreshMoves, MovedKeeps
  <2>2. QED
    BY <1>1, <2>1 DEF GivesNone, GetFreshRawInHex
<1>2. CASE FindKeys(c)
  <2>1. ASSUME NEW p \in {"list", "match"}, call' = [call EXCEPT ![c].at = p, ![c].keys = Keys]
        PROVE  Calls
    <3> DEFINE new == [call[c] EXCEPT !.at = p, !.keys = Keys]
    <3>1. new \in Call /\ new.method = call[c].method /\ new.at = p
      BY <1>t DEF Call, Places, Keys
    <3>2. call' = [call EXCEPT ![c] = new]
      BY <2>1
    <3> HIDE DEF new
    <3>3. QED
      BY <3>1, <3>2, OneCall
  <2>2. Calls
    BY <1>2, <2>1, FinishKeeps DEF FindKeys, Answers
  <2>3. QED
    BY <1>2, <2>2 DEF FindKeys, GivesNone
<1>3. CASE MatchKeys(c)
  <2>1. ASSUME NEW p \in Target(call[c].method), FoundRow(c, p), Min(call[c].keys) \in Rows
        PROVE  Calls
    <3>1. PICK new \in Call : /\ call' = [call EXCEPT ![c] = new]
                             /\ new.method = call[c].method /\ new.at \in {"name", "rest", "delete"}
      BY <2>1, <1>t, FoundType
    <3>2. QED
      BY <3>1, OneCall
  <2>2. ASSUME NEW a \in {"notFound", "left", "argument"}, Finish(c, a) PROVE Calls
    BY <2>2, FinishKeeps DEF Answers
  <2>3. Calls /\ UNCHANGED <<repo, counter, counted>>
    BY <1>3, <1>t, <2>1, <2>2, MatchSteps, MovedKeeps
  <2>4. QED
    BY <2>3 DEF GivesNone
<1>4. ASSUME NEW col \in {"name", "rest"}, CreateKey(c, col) \/ SetKey(c, col) \/ GetKey(c, col)
      PROVE  GivesNone
  <2>1. \/ (Wrote(c, col) \/ UNCHANGED repo) /\ Goto(c, After(c, col))
        \/ Failed(c, col)
    BY <1>4 DEF CreateKey, SetKey, GetKey
  <2>2. Vanish
    BY <2>1, <1>t, WroteColumn, FailedType
  <2>3. ASSUME Failed(c, col) PROVE Calls
    <3> DEFINE new == [call[c] EXCEPT !.at = After(c, col), !.bad = TRUE]
    <3>1. new \in Call /\ new.method = call[c].method /\ new.at = After(c, col)
      BY <1>t, AfterType DEF Call
    <3>2. call' = [call EXCEPT ![c] = new]
      BY <2>3 DEF Failed
    <3> HIDE DEF new
    <3>3. QED
      BY <3>1, <3>2, AfterType, OneCall
  <2>4. Calls
    BY <2>1, <2>3, AfterType, GotoKeeps
  <2>5. counter' = counter /\ counted' = counted
    BY <1>4 DEF CreateKey, SetKey, GetKey
  <2>6. QED
    BY <2>2, <2>4, <2>5 DEF GivesNone
<1>5. CASE Settle(c) \/ DeleteRow(c) \/ DeleteAgain(c)
  <2>1. Calls
    BY <1>5, FinishKeeps, GotoKeeps DEF Settle, DeleteRow, DeleteAgain, Answers, Places
  <2>2. Vanish /\ counter' = counter /\ counted' = counted
    BY <1>5, EmptiedRow, <1>t DEF Settle, DeleteRow, DeleteAgain
  <2>3. QED
    BY <2>1, <2>2 DEF GivesNone
<1>6. CASE ListName(c) \/ ListId(c) \/ PurgeRow(c)
  <2>1. Calls
    BY <1>6, <1>t, ListMoves, MovedKeeps, FinishKeeps DEF Answers
  <2>2. Vanish /\ counter' = counter /\ counted' = counted
    BY <1>6, EmptiedRow, <1>t DEF ListName, ListId, PurgeRow
  <2>3. QED
    BY <2>1, <2>2 DEF GivesNone
<1>7. CASE Return(c) \/ Crash(c)
  <2>1. call' = [call EXCEPT ![c] = Idle] /\ UNCHANGED <<repo, counter, counted>>
    BY <1>7 DEF Return, Crash
  <2>2. Idle.method = "none"
    BY DEF Idle, Entered
  <2>3. Calls
    BY <2>1, <2>2, IdleType, OneCall
  <2>4. QED
    BY <2>1, <2>3 DEF GivesNone
<1>8. QED
  BY <1>1, <1>2, <1>3, <1>4, <1>5, <1>6, <1>7 DEF Others

-----------------------------------------------------------------------------
(* The assumption under which ids are unique: all sets are created by one  *)
(* process.  The code takes no lock, and the run PresRace shows what two   *)
(* processes can do.                                                       *)
OneCreator == \A c, d \in Creators : c = d

LEMMA InvInit == Init => IInv
<1> SUFFICES ASSUME Init PROVE IInv
  OBVIOUS
<1>1. TypeOK
  BY TypeInit
<1>2. \A r \in Rows : repo[r].id = 0
  BY DEF Init, Empty
<1>3. \A c \in Clients : call[c].method = "none"
  BY DEF Init, Idle, Entered
<1>4. QED
  BY <1>1, <1>2, <1>3 DEF Init, IInv, Makers, Given, Counted, Bumped, Claims, At, UniqueIds

(* The counter is read, or created: the id is the next one. *)
Bumps(c) ==
  /\ call' = [call EXCEPT ![c].at = "bump", ![c].id = counter + 1] /\ call[c].method = "CreateSetL"
  /\ UNCHANGED <<repo, counter>> /\ counted' = TRUE

LEMMA CountSteps ==
  ASSUME IInv, NEW c \in Clients, ReadCounter(c) \/ CreateCounter(c)
  PROVE  GivesNone \/ Bumps(c)
<1>t. TypeOK /\ Counted
  BY DEF IInv
<1>1. CASE ReadCounter(c) /\ ~counted
  <2>1. Moved(c, {"count"}, {"make"})
    BY <1>1, <1>t, CountMoves
  <2>2. GivesNone
    BY <1>1, <2>1, MovedKeeps DEF GivesNone, ReadCounter
  <2>3. QED
    BY <2>2
<1>2. CASE ReadCounter(c) /\ counted
  BY <1>2, <1>t DEF ReadCounter, Bumps, Is, TypeOK
<1>3. CASE CreateCounter(c) /\ Finish(c, "left") /\ UNCHANGED counted
  <2>1. GivesNone
    BY <1>3, FinishKeeps DEF GivesNone, CreateCounter, Answers
  <2>2. QED
    BY <2>1
<1>4. CASE CreateCounter(c) /\ ~(Finish(c, "left") /\ UNCHANGED counted)
  <2>1. /\ ~counted /\ counted' = TRUE /\ UNCHANGED <<repo, counter>> /\ call[c].method = "CreateSetL"
        /\ call' = [call EXCEPT ![c].at = "bump", ![c].id = 1]
    BY <1>4 DEF CreateCounter, Is
  <2>2. counter + 1 = 1
    BY <1>t, <2>1 DEF Counted
  <2>3. QED
    BY <2>1, <2>2 DEF Bumps
<1>5. QED
  BY <1>1, <1>2, <1>3, <1>4

LEMMA ReadHolds ==
  ASSUME IInv, TypeOK', NEW c \in Clients, Bumps(c)
  PROVE  IInv'
<1> DEFINE new == [call[c] EXCEPT !.at = "bump", !.id = counter + 1]
<1>1. call \in [Clients -> Call] /\ call[c] \in Call
  BY DEF IInv, TypeOK
<1>2. new.method = call[c].method /\ new.at = "bump" /\ new.id = counter + 1
  BY <1>1 DEF Call
<1>3. call' = [call EXCEPT ![c] = new] /\ UNCHANGED <<repo, counter>> /\ counted'
  BY DEF Bumps
<1> HIDE DEF new
<1>4. \A d \in Clients : call'[d] = IF d = c THEN new ELSE call[d]
  BY <1>1, <1>3
<1>5. QED
  BY <1>2, <1>3, <1>4 DEF IInv, Makers, Given, Counted, Bumped, Claims, At, UniqueIds

(* The counter is written: no other creation is under way whose id would   *)
(* now be another, and the id that is claimed is not in the table.         *)
LEMMA WriteHolds ==
  ASSUME OneCreator, IInv, TypeOK', NEW c \in Clients, WriteCounter(c)
  PROVE  IInv'
<1>1. call \in [Clients -> Call] /\ call[c] \in Call /\ counter \in Nat
  BY IdsAssumption DEF IInv, TypeOK
<1>2. ASSUME Finish(c, "left"), UNCHANGED counter PROVE IInv'
  <2>1. GivesNone
    BY <1>2, FinishKeeps DEF WriteCounter, GivesNone, Answers
  <2>2. QED
    BY <2>1, GivesNoneHolds
<1>3. ASSUME counter' = call[c].id, Goto(c, "claim") PROVE IInv'
  <2> DEFINE new == [call[c] EXCEPT !.at = "claim"]
  <2>1. new.method = call[c].method /\ new.at = "claim" /\ new.id = call[c].id
    BY <1>1 DEF Call
  <2>2. call' = [call EXCEPT ![c] = new] /\ repo' = repo /\ counted' = counted
    BY <1>3 DEF Goto, WriteCounter
  <2> HIDE DEF new
  <2>3. \A d \in Clients : call'[d] = IF d = c THEN new ELSE call[d]
    BY <1>1, <2>2
  <2>4. At(c, "bump") /\ counted /\ call[c].id = counter + 1 /\ counter' = counter + 1
    BY <1>3 DEF WriteCounter, Is, At, IInv, Bumped
  <2>5. \A d \in Clients \ {c} : call[d].method # "CreateSetL"
    BY <2>4 DEF OneCreator, IInv, Makers, At
  <2>6. \A r \in Rows : repo[r].id \in Nat /\ repo[r].id <= counter
    BY IdsAssumption DEF IInv, TypeOK, Row, Given
  <2>7. Makers' /\ Bumped'
    BY <2>1, <2>3, <2>5 DEF IInv, Makers, Bumped, At
  <2>8. Given' /\ Counted'
    BY <1>1, <2>2, <2>4, <2>6 DEF Given, Counted
  <2>9. Claims'
    BY <1>1, <2>1, <2>2, <2>3, <2>4, <2>5, <2>6 DEF Claims, At
  <2>10. UniqueIds'
    BY <2>2 DEF IInv, UniqueIds
  <2>11. QED
    BY <2>7, <2>8, <2>9, <2>10 DEF IInv
<1>4. QED
  BY <1>2, <1>3 DEF WriteCounter

(* The row takes the id, which no other row has. *)
LEMMA ClaimHolds ==
  ASSUME OneCreator, IInv, TypeOK', NEW c \in Clients, CreateIdKey(c)
  PROVE  IInv'
<1>1. call \in [Clients -> Call] /\ call[c] \in Call /\ repo \in [Rows -> Row]
  BY DEF IInv, TypeOK
<1>2. ASSUME Finish(c, "left"), UNCHANGED repo PROVE IInv'
  <2>1. GivesNone
    BY <1>2, FinishKeeps DEF CreateIdKey, GivesNone, Answers
  <2>2. QED
    BY <2>1, GivesNoneHolds
<1>3. ASSUME repo' = [repo EXCEPT ![call[c].row].id = call[c].id], Goto(c, "name")
      PROVE  IInv'
  <2>1. \A d \in Clients : /\ call'[d].method = "CreateSetL" => d \in Creators
                           /\ Keeps(d, "bump") /\ Keeps(d, "claim")
    BY <1>3, GotoKeeps DEF Places
  <2>2. counter' = counter /\ counted' = counted
    BY DEF CreateIdKey
  <2>3. \A r \in Rows : repo'[r].id = IF r = call[c].row THEN call[c].id ELSE repo[r].id
    BY <1>1, <1>3 DEF Row
  <2>4. At(c, "claim") /\ call[c].id \in 1..counter /\ \A r \in Rows : repo[r].id # call[c].id
    BY DEF CreateIdKey, Is, At, IInv, Claims
  <2>5. \A d \in Clients : ~At(d, "claim")'
    <3>1. ~At(c, "claim")'
      BY <1>1, <1>3 DEF Goto, At, Call
    <3>2. \A d \in Clients \ {c} : ~At(d, "claim")
      BY <2>4 DEF OneCreator, IInv, Makers, At
    <3>3. QED
      BY <3>1, <3>2, <2>1 DEF Keeps
  <2>6. Makers' /\ Bumped'
    BY <2>1, <2>2 DEF IInv, Makers, Bumped, Keeps
  <2>7. Given' /\ Counted' /\ UniqueIds'
    BY <2>2, <2>3, <2>4 DEF IInv, Given, Counted, UniqueIds
  <2>8. Claims'
    BY <2>5 DEF Claims
  <2>9. QED
    BY <2>6, <2>7, <2>8 DEF IInv
<1>4. QED
  BY <1>2, <1>3 DEF CreateIdKey

LEMMA InvNext ==
  ASSUME OneCreator
  PROVE  IInv /\ [Next]_vars => IInv'
<1> SUFFICES ASSUME IInv, [Next]_vars PROVE IInv'
  OBVIOUS
<1>1. TypeOK'
  BY TypeNext DEF IInv
<1>2. CASE UNCHANGED vars
  BY <1>2 DEF vars, IInv, TypeOK, Makers, Given, Counted, Bumped, Claims, At, UniqueIds
<1>3. ASSUME NEW c \in Clients, ReadCounter(c) \/ CreateCounter(c) PROVE IInv'
  BY <1>1, <1>3, CountSteps, ReadHolds, GivesNoneHolds
<1>4. ASSUME NEW c \in Clients, WriteCounter(c) PROVE IInv'
  BY <1>1, <1>4, WriteHolds
<1>5. ASSUME NEW c \in Clients, CreateIdKey(c) PROVE IInv'
  BY <1>1, <1>5, ClaimHolds
<1>6. ASSUME NEW c \in Clients, Enters(c) \/ Others(c) PROVE IInv'
  BY <1>1, <1>6, EntersNone, OthersNone, GivesNoneHolds
<1>7. QED
  BY <1>2, <1>3, <1>4, <1>5, <1>6 DEF Next, Enters, Others

LEMMA Invariant == ASSUME OneCreator PROVE Spec => []IInv
BY InvInit, InvNext, PTL DEF Spec

(* With one process that creates sets, an id is never in two rows, however *)
(* the others update, remove, read and list them meanwhile, and whichever  *)
(* process dies or write fails.                                            *)
THEOREM IdsUnique == ASSUME OneCreator PROVE Spec => []UniqueIds
<1>1. IInv => UniqueIds
  BY DEF IInv
<1>2. QED
  BY <1>1, Invariant, PTL

(* An id that is used up: it is not above the counter, and no creation     *)
(* holds it that has not put it into the table yet.                        *)
Used(i) == i <= counter /\ \A c \in Clients : At(c, "claim") => call[c].id # i

LEMMA PresentIsUsed ==
  ASSUME IInv, NEW i \in Ids, Present(i)
  PROVE  Used(i)
BY DEF IInv, Given, Claims, Used, Present

LEMMA UsedStays ==
  ASSUME OneCreator, IInv, NEW i \in Ids, Used(i), [Next]_vars
  PROVE  Used(i)' /\ (Present(i)' => Present(i))
<1>t. /\ call \in [Clients -> Call] /\ repo \in [Rows -> Row] /\ counter \in Nat
      /\ i \in Nat /\ i # 0
  BY IdsAssumption DEF IInv, TypeOK, Ids
<1>1. ASSUME GivesNone PROVE Used(i)' /\ (Present(i)' => Present(i))
  BY <1>1, <1>t DEF GivesNone, Keeps, Used, Present
<1>2. CASE UNCHANGED vars
  BY <1>2 DEF vars, Used, Present, At
<1>3. ASSUME NEW c \in Clients, Bumps(c) PROVE Used(i)' /\ (Present(i)' => Present(i))
  <2> DEFINE new == [call[c] EXCEPT !.at = "bump", !.id = counter + 1]
  <2>1. new.at = "bump"
    BY <1>t DEF Call
  <2>2. call' = [call EXCEPT ![c] = new] /\ UNCHANGED <<repo, counter>>
    BY <1>3 DEF Bumps
  <2> HIDE DEF new
  <2>3. \A d \in Clients : call'[d] = IF d = c THEN new ELSE call[d]
    BY <1>t, <2>2
  <2>4. QED
    BY <2>1, <2>2, <2>3 DEF Used, Present, At
<1>4. ASSUME NEW c \in Clients, WriteCounter(c) PROVE Used(i)' /\ (Present(i)' => Present(i))
  <2>1. ASSUME Finish(c, "left"), UNCHANGED counter PROVE GivesNone
    BY <1>4, <2>1, FinishKeeps DEF WriteCounter, GivesNone, Answers
  <2>2. ASSUME counter' = call[c].id, Goto(c, "claim")
        PROVE  Used(i)' /\ (Present(i)' => Present(i))
    <3> DEFINE new == [call[c] EXCEPT !.at = "claim"]
    <3>1. new.id = call[c].id
      BY <1>t DEF Call
    <3>2. call' = [call EXCEPT ![c] = new] /\ repo' = repo
      BY <1>4, <2>2 DEF Goto, WriteCounter
    <3> HIDE DEF new
    <3>3. \A d \in Clients : call'[d] = IF d = c THEN new ELSE call[d]
      BY <1>t, <3>2
    <3>4. call[c].id = counter + 1
      BY <1>4 DEF WriteCounter, Is, At, IInv, Bumped
    <3>5. i <= counter' /\ call[c].id # i
      BY <1>t, <2>2, <3>4 DEF Used
    <3>6. QED
      BY <3>1, <3>2, <3>3, <3>5 DEF Used, Present, At
  <2>3. QED
    BY <1>1, <1>4, <2>1, <2>2 DEF WriteCounter
<1>5. ASSUME NEW c \in Clients, CreateIdKey(c) PROVE Used(i)' /\ (Present(i)' => Present(i))
  <2>1. ASSUME Finish(c, "left"), UNCHANGED repo PROVE GivesNone
    BY <1>5, <2>1, FinishKeeps DEF CreateIdKey, GivesNone, Answers
  <2>2. ASSUME repo' = [repo EXCEPT ![call[c].row].id = call[c].id], Goto(c, "name")
        PROVE  Used(i)' /\ (Present(i)' => Present(i))
    <3>1. \A d \in Clients : Keeps(d, "claim")
      BY <2>2, GotoKeeps DEF Places
    <3>2. counter' = counter
      BY <1>5 DEF CreateIdKey
    <3>3. \A r \in Rows : repo'[r].id = IF r = call[c].row THEN call[c].id ELSE repo[r].id
      BY <1>t, <2>2 DEF Row
    <3>4. call[c].id # i
      BY <1>5 DEF CreateIdKey, Is, At, Used
    <3>5. QED
      BY <3>1, <3>2, <3>3, <3>4 DEF Used, Present, Keeps
  <2>3. QED
    BY <1>1, <1>5, <2>1, <2>2 DEF CreateIdKey
<1>6. ASSUME NEW c \in Clients, Enters(c) \/ Others(c) PROVE GivesNone
  BY <1>6, EntersNone, OthersNone
<1>7. ASSUME NEW c \in Clients, ReadCounter(c) \/ CreateCounter(c)
      PROVE  Used(i)' /\ (Present(i)' => Present(i))
  BY <1>1, <1>3, <1>7, CountSteps
<1>8. QED
  BY <1>1, <1>2, <1>4, <1>5, <1>6, <1>7 DEF Next, Enters, Others

(* With one process that creates sets, an id whose set is gone never names *)
(* a set again, so that what refers to it cannot come to mean another.     *)
THEOREM IdsNeverReused == ASSUME OneCreator PROVE Spec => NeverReused
<1>1. ASSUME NEW i \in Ids
      PROVE  Spec => [](Present(i) => [](~Present(i) => []~Present(i)))
  <2>1. IInv /\ Present(i) => Used(i)
    BY PresentIsUsed
  <2>2. IInv /\ Used(i) /\ [Next]_vars => Used(i)'
    BY UsedStays
  <2>3. IInv /\ Used(i) /\ ~Present(i) /\ [Next]_vars => ~Present(i)'
    BY UsedStays
  <2>4. Spec => []IInv
    BY Invariant
  <2>5. QED
    BY <2>1, <2>2, <2>3, <2>4, PTL DEF Spec
<1>2. QED
  BY <1>1 DEF NeverReused

-----------------------------------------------------------------------------
(* What a call that nobody overlaps has done so far.  While it runs all    *)
(* the others are idle, so the table is as it has left it.                 *)
Undisturbed(c) == call[c].alone /\ call[c].at # "idle"
Alone(c) == Undisturbed(c) => \A d \in Clients \ {c} : call[d].at = "idle"

(* Which methods are in which place, and which have been given an id.      *)
Seekers == {"UpdateSetL", "UpdatePropertyL", "RemoveSetL", "SettingsSetL"}
Fits(c) ==
  LET m == call[c].method IN
  /\ call[c].at \in {"name", "rest", "settle"} =>
       m \in {"CreateSetL", "UpdateSetL", "UpdatePropertyL", "SettingsSetL"}
  /\ call[c].at \in {"delete", "again"} => m = "RemoveSetL"
  /\ call[c].at \in {"list", "ident", "purge"} => m = "GetAllSetsNamesLC"
  /\ call[c].at = "find" => m \in Seekers \cup {"GetAllSetsNamesLC"}
  /\ call[c].at = "match" => m \in Seekers
  /\ m \in Seekers => call[c].id # 0

(* The row of the call is the set it is about, and the columns before the  *)
(* place where the call is have been written, or read, without an error.   *)
Mine(c) == call[c].row \in Rows /\ repo[call[c].row].id = call[c].id /\ call[c].id # 0
Good(c, col) ==
  /\ call[c].method \in {"CreateSetL", "UpdateSetL"} => repo[call[c].row][col] = call[c].val
  /\ call[c].method = "SettingsSetL" => repo[call[c].row][col] # None
Progress(c) ==
  /\ call[c].at \in {"name", "rest", "settle", "delete"} => Mine(c)
  /\ call[c].at \in {"rest", "settle"} /\ ~call[c].bad => Good(c, "name")
  /\ call[c].at = "settle" /\ ~call[c].bad => Good(c, "rest")
  /\ call[c].at = "done" /\ call[c].answer = "ok" => Promise(c)

AInv == \A c \in Clients : Alone(c) /\ Fits(c) /\ (Undisturbed(c) => Progress(c))

LEMMA AInit == Init => AInv
<1> SUFFICES ASSUME Init PROVE AInv
  OBVIOUS
<1>1. \A c \in Clients : call[c].at = "idle" /\ call[c].method = "none"
  BY DEF Init, Idle, Entered
<1>2. QED
  BY <1>1 DEF AInv, Alone, Fits, Undisturbed, Seekers

(* A call that goes on concerns no other: if it was undisturbed the others *)
(* are idle, and no other was undisturbed, because it is not idle.         *)
Rest(c) == \A d \in Clients \ {c} : call'[d] = call[d]
LEMMA Frame ==
  ASSUME AInv, NEW c \in Clients, call[c].at # "idle", Rest(c), Fits(c)',
         Undisturbed(c)' => Undisturbed(c) /\ Progress(c)'
  PROVE  AInv'
<1>1. \A d \in Clients \ {c} : call'[d] = call[d] /\ ~Undisturbed(d)
  BY DEF Rest, AInv, Alone
<1>2. \A d \in Clients \ {c} : ~Undisturbed(d)'
  BY <1>1 DEF Undisturbed
<1>3. \A d \in Clients \ {c} : Fits(d)'
  BY <1>1 DEF AInv, Fits
<1>4. Alone(c)'
  BY <1>1 DEF AInv, Alone
<1>5. \A d \in Clients : Alone(d)' /\ Fits(d)' /\ (Undisturbed(d)' => Progress(d)')
  BY <1>2, <1>3, <1>4 DEF Alone
<1>6. QED
  BY <1>5 DEF AInv

(* A call that comes in ends that of the others being undisturbed.         *)
LEMMA EntersAlone ==
  ASSUME AInv, TypeOK, NEW c \in Clients, Enters(c)
  PROVE  AInv'
<1>1. ASSUME NEW m \in Methods, NEW p \in {"fresh", "find"}, NEW i, NEW v,
             p = "find" => m \in Seekers \cup {"GetAllSetsNamesLC"},
             m \in Seekers => i # 0, Enter(c, m, p, i, v)
      PROVE  AInv'
  <2>1. /\ call'[c].method = m /\ call'[c].at = p /\ call'[c].id = i
        /\ call'[c].alone => \A e \in Clients \ {c} : call[e].at = "idle"
    BY <1>1 DEF Enter, Entered
  <2>2. \A d \in Clients \ {c} : /\ call'[d].method = call[d].method
                                 /\ call'[d].at = call[d].at
                                 /\ call'[d].id = call[d].id
                                 /\ call'[d].alone => call[d].at = "idle"
    <3>1. \A d \in Clients \ {c} : call[d] \in Call
      BY DEF TypeOK
    <3>2. \A d \in Clients \ {c} : call'[d] = [call[d] EXCEPT !.alone = call[d].at = "idle"]
      BY <1>1 DEF Enter
    <3>3. QED
      BY <3>1, <3>2 DEF Call
  <2>3. \A d \in Clients \ {c} : ~Undisturbed(d)' /\ Fits(d)'
    BY <2>2 DEF Undisturbed, AInv, Fits
  <2>4. Fits(c)'
    BY <1>1, <2>1 DEF Fits
  <2>5. Alone(c)'
    BY <2>1, <2>2 DEF Alone, Undisturbed
  <2>6. Progress(c)'
    BY <2>1 DEF Progress
  <2>7. \A d \in Clients : Alone(d)' /\ Fits(d)' /\ (Undisturbed(d)' => Progress(d)')
    BY <2>3, <2>4, <2>5, <2>6 DEF Alone
  <2>8. QED
    BY <2>7 DEF AInv
<1>2. 0 \notin Ids
  BY IdsAssumption DEF Ids
<1>3. QED
  BY <1>1, <1>2 DEF Enters, Methods, Seekers, CreateSetL, UpdateSetL, UpdatePropertyL, RemoveSetL,
                    SettingsSetL, GetAllSetsNamesLC

-----------------------------------------------------------------------------
(* What is left of a call by the three ways in which it goes on.           *)
Same(c) == /\ call'[c].method = call[c].method /\ call'[c].id = call[c].id
           /\ call'[c].val = call[c].val /\ call'[c].alone = call[c].alone

LEMMA GotoIs ==
  ASSUME TypeOK, NEW c \in Clients, NEW p, Goto(c, p)
  PROVE  /\ Rest(c) /\ Same(c) /\ call'[c].at = p
         /\ call'[c].row = call[c].row /\ call'[c].bad = call[c].bad
<1> DEFINE new == [call[c] EXCEPT !.at = p]
<1>1. call \in [Clients -> Call] /\ call[c] \in Call
  BY DEF TypeOK
<1>2. /\ new.method = call[c].method /\ new.id = call[c].id /\ new.val = call[c].val
      /\ new.alone = call[c].alone /\ new.at = p /\ new.row = call[c].row /\ new.bad = call[c].bad
  BY <1>1 DEF Call
<1>3. call' = [call EXCEPT ![c] = new]
  BY DEF Goto
<1> HIDE DEF new
<1>4. QED
  BY <1>1, <1>2, <1>3 DEF Rest, Same

LEMMA FailedIs ==
  ASSUME TypeOK, NEW c \in Clients, NEW col, Failed(c, col)
  PROVE  /\ Rest(c) /\ Same(c) /\ call'[c].at = After(c, col)
         /\ call'[c].row = call[c].row /\ call'[c].bad = TRUE /\ repo' = repo
<1> DEFINE new == [call[c] EXCEPT !.at = After(c, col), !.bad = TRUE]
<1>1. call \in [Clients -> Call] /\ call[c] \in Call
  BY DEF TypeOK
<1>2. /\ new.method = call[c].method /\ new.id = call[c].id /\ new.val = call[c].val
      /\ new.alone = call[c].alone /\ new.at = After(c, col)
      /\ new.row = call[c].row /\ new.bad = TRUE
  BY <1>1 DEF Call
<1>3. call' = [call EXCEPT ![c] = new] /\ repo' = repo
  BY DEF Failed
<1> HIDE DEF new
<1>4. QED
  BY <1>1, <1>2, <1>3 DEF Rest, Same

LEMMA FinishIs ==
  ASSUME TypeOK, NEW c \in Clients, NEW a, Finish(c, a)
  PROVE  /\ Rest(c) /\ Same(c) /\ call'[c].at = "done" /\ call'[c].answer = a
BY DEF TypeOK, Finish, Left, Rest, Same

(* A method that leaves, or finds nothing, promises nothing.               *)
LEMMA FinishHolds ==
  ASSUME AInv, TypeOK, NEW c \in Clients, call[c].at # "idle", NEW a, Finish(c, a),
         a = "ok" /\ Undisturbed(c) => Promise(c)'
  PROVE  AInv'
<1>1. /\ Rest(c) /\ Same(c) /\ call'[c].at = "done" /\ call'[c].answer = a
  BY FinishIs
<1>2. Fits(c)'
  BY <1>1 DEF AInv, Fits, Same
<1>3. Undisturbed(c)' => Undisturbed(c)
  BY <1>1 DEF Undisturbed, Same
<1>4. Undisturbed(c) => Progress(c)'
  BY <1>1 DEF Progress
<1>5. QED
  BY <1>1, <1>2, <1>3, <1>4, Frame

-----------------------------------------------------------------------------
(* The steps of a call.                                                    *)
Steps == AInv /\ IInv /\ OneCreator

(* Places where nothing is known of the table yet. *)
Early == {"fresh", "count", "make", "bump", "claim", "match", "again", "list", "ident", "purge"}
LEMMA EarlyHolds ==
  ASSUME AInv, TypeOK, NEW c \in Clients, call[c].at # "idle", Rest(c),
         call'[c].alone = call[c].alone, call'[c].at \in Early, Fits(c)'
  PROVE  AInv'
<1>1. Progress(c)' /\ (Undisturbed(c)' => Undisturbed(c))
  BY DEF Progress, Undisturbed, Early
<1>2. QED
  BY <1>1, Frame

LEMMA MovedAlone ==
  ASSUME AInv, TypeOK, NEW c \in Clients, NEW from, NEW to, Moved(c, from, to),
         "idle" \notin from, to \subseteq Early,
         \A new \in Call :
           new.method = call[c].method /\ new.id = call[c].id /\ new.at \in to =>
             /\ new.at \in {"delete", "again"} => new.method = "RemoveSetL"
             /\ new.at \in {"list", "ident", "purge"} => new.method = "GetAllSetsNamesLC"
             /\ new.at = "match" => new.method \in Seekers
  PROVE  AInv'
<1>1. PICK new \in Call : /\ call' = [call EXCEPT ![c] = new]
                         /\ new.method = call[c].method /\ new.alone = call[c].alone
                         /\ new.id = call[c].id /\ call[c].at \in from /\ new.at \in to
  BY DEF Moved
<1>2. Rest(c) /\ call'[c] = new
  BY <1>1 DEF Rest, TypeOK
<1>3. Fits(c)'
  BY <1>1, <1>2 DEF AInv, Fits, Early
<1>4. QED
  BY <1>1, <1>2, <1>3, EarlyHolds

LEMMA CreationAlone ==
  ASSUME Steps, NEW c \in Clients,
         GetFreshRawInHex(c) \/ ReadCounter(c) \/ CreateCounter(c) \/ WriteCounter(c) \/ CreateIdKey(c)
  PROVE  AInv'
<1>t. /\ AInv /\ TypeOK /\ call \in [Clients -> Call] /\ call[c] \in Call
  BY DEF Steps, IInv, TypeOK
<1>m. call[c].method = "CreateSetL" /\ call[c].method \notin Seekers /\ call[c].at # "idle"
  BY DEF GetFreshRawInHex, ReadCounter, CreateCounter, WriteCounter, CreateIdKey, Is, Seekers
<1>1. CASE GetFreshRawInHex(c)
  <2>1. Moved(c, {"fresh"}, {"fresh", "count"})
    BY <1>1, <1>t, FreshMoves
  <2>2. QED
    BY <1>t, <2>1, MovedAlone DEF Early
<1>b. ASSUME NEW i, call' = [call EXCEPT ![c].at = "bump", ![c].id = i] PROVE AInv'
  <2> DEFINE new == [call[c] EXCEPT !.at = "bump", !.id = i]
  <2>1. new.method = call[c].method /\ new.at = "bump" /\ new.alone = call[c].alone
    BY <1>t DEF Call
  <2>2. call' = [call EXCEPT ![c] = new]
    BY <1>b
  <2> HIDE DEF new
  <2>3. Rest(c) /\ Fits(c)' /\ call'[c].alone = call[c].alone /\ call'[c].at = "bump"
    BY <1>t, <1>m, <2>1, <2>2 DEF Rest, Fits
  <2>4. QED
    BY <1>t, <1>m, <2>3, EarlyHolds DEF Early
<1>2. CASE ReadCounter(c) \/ CreateCounter(c)
  <2>1. CASE ReadCounter(c) /\ ~counted
    <3>1. Moved(c, {"count"}, {"make"})
      BY <1>t, <2>1, CountMoves
    <3>2. QED
      BY <1>t, <3>1, MovedAlone DEF Early
  <2>2. CASE ReadCounter(c) /\ counted
    BY <1>t, <1>b, <2>2, CountMoves
  <2>3. CASE CreateCounter(c) /\ Finish(c, "left")
    BY <1>t, <1>m, <2>3, FinishHolds
  <2>4. CASE CreateCounter(c) /\ ~Finish(c, "left")
    <3>1. PICK i : i = 1 /\ call' = [call EXCEPT ![c].at = "bump", ![c].id = i]
      BY <2>4 DEF CreateCounter
    <3>2. QED
      BY <1>b, <3>1
  <2>5. QED
    BY <1>2, <2>1, <2>2, <2>3, <2>4
<1>3. CASE WriteCounter(c)
  <2>1. ASSUME Goto(c, "claim") PROVE AInv'
    <3>1. Rest(c) /\ Same(c) /\ call'[c].at = "claim"
      BY <1>t, <2>1, GotoIs
    <3>2. Fits(c)'
      BY <1>m, <3>1 DEF Fits, Same
    <3>3. QED
      BY <1>t, <1>m, <3>1, <3>2, EarlyHolds DEF Early, Same
  <2>2. ASSUME Finish(c, "left") PROVE AInv'
    BY <1>t, <1>m, <2>2, FinishHolds
  <2>3. QED
    BY <1>3, <2>1, <2>2 DEF WriteCounter
<1>4. CASE CreateIdKey(c)
  <2>1. ASSUME Goto(c, "name"), call[c].row # 0,
               repo' = [repo EXCEPT ![call[c].row].id = call[c].id]
        PROVE  AInv'
    <3>1. Rest(c) /\ Same(c) /\ call'[c].at = "name" /\ call'[c].row = call[c].row
      BY <1>t, <2>1, GotoIs
    <3>2. Fits(c)'
      BY <1>m, <3>1 DEF Fits, Same
    <3>3. call[c].row \in Rows
      BY <1>t, <2>1, RowsAssumption DEF Call, Rows
    <3>4. call[c].id # 0
      <4>1. At(c, "claim") /\ counter \in Nat
        BY <1>4, IdsAssumption DEF CreateIdKey, Is, At, Steps, IInv, TypeOK
      <4>2. QED
        BY <4>1 DEF Steps, IInv, Claims
    <3>5. repo'[call[c].row].id = call[c].id
      BY <2>1, <3>3 DEF Steps, IInv, TypeOK, Row
    <3>6. Progress(c)'
      BY <3>1, <3>3, <3>4, <3>5 DEF Progress, Mine, Same
    <3>7. Undisturbed(c)' => Undisturbed(c)
      BY <1>m, <3>1 DEF Undisturbed, Same
    <3>8. QED
      BY <1>t, <1>m, <3>1, <3>2, <3>6, <3>7, Frame
  <2>2. ASSUME Finish(c, "left") PROVE AInv'
    BY <1>t, <1>m, <2>2, FinishHolds
  <2>3. QED
    BY <1>4, <2>1, <2>2 DEF CreateIdKey
<1>5. QED
  BY <1>1, <1>2, <1>3, <1>4

LEMMA SearchAlone ==
  ASSUME Steps, NEW c \in Clients, FindKeys(c) \/ MatchKeys(c)
  PROVE  AInv'
<1>t. /\ AInv /\ TypeOK /\ call \in [Clients -> Call] /\ call[c] \in Call /\ Fits(c)
  BY DEF Steps, IInv, TypeOK, AInv
<1>i. call[c].at # "idle"
  BY DEF FindKeys, MatchKeys
<1>1. CASE FindKeys(c)
  <2>1. ASSUME NEW p \in {"list", "match"}, call' = [call EXCEPT ![c].at = p, ![c].keys = Keys],
               p = "list" <=> call[c].method = "GetAllSetsNamesLC"
        PROVE  AInv'
    <3> DEFINE new == [call[c] EXCEPT !.at = p, !.keys = Keys]
    <3>1. new.method = call[c].method /\ new.at = p /\ new.alone = call[c].alone /\ new.id = call[c].id
      BY <1>t DEF Call
    <3>2. call' = [call EXCEPT ![c] = new]
      BY <2>1
    <3> HIDE DEF new
    <3>3. Rest(c) /\ call'[c] = new
      BY <1>t, <3>2 DEF Rest
    <3>4. call[c].at = "find"
      BY <1>1 DEF FindKeys
    <3>5. Fits(c)'
      BY <1>t, <2>1, <3>1, <3>3, <3>4 DEF Fits, Seekers
    <3>6. QED
      BY <1>t, <1>i, <3>1, <3>3, <3>5, EarlyHolds DEF Early
  <2>2. ASSUME Finish(c, "left") PROVE AInv'
    BY <1>t, <1>i, <2>2, FinishHolds
  <2>3. QED
    BY <1>1, <2>1, <2>2 DEF FindKeys
<1>2. CASE MatchKeys(c)
  <2>1. UNCHANGED <<repo, counter, counted>> /\ call[c].at = "match"
    BY <1>2, <1>t, MatchSteps
  <2>2. call[c].method \in Seekers /\ call[c].id # 0
    BY <1>t, <2>1 DEF Fits
  <2>3. ASSUME NEW p \in Target(call[c].method), FoundRow(c, p), Min(call[c].keys) \in Rows,
               repo[Min(call[c].keys)].id = call[c].id
        PROVE  AInv'
    <3>1. PICK new \in Call : /\ call' = [call EXCEPT ![c] = new]
                             /\ new.method = call[c].method /\ new.alone = call[c].alone
                             /\ new.id = call[c].id /\ new.at = p /\ new.row = Min(call[c].keys)
                             /\ p \in {"name", "rest", "delete"}
      BY <1>t, <2>3, FoundType
    <3>2. Rest(c) /\ call'[c] = new
      BY <1>t, <3>1 DEF Rest
    <3>3. /\ p = "delete" <=> call[c].method = "RemoveSetL"
          /\ p = "rest" => call[c].method = "UpdatePropertyL"
      BY <2>3 DEF Target
    <3>4. Fits(c)'
      BY <2>2, <3>1, <3>2, <3>3 DEF Fits, Seekers
    <3>5. Mine(c)'
      BY <2>1, <2>2, <2>3, <3>1, <3>2 DEF Mine
    <3>6. call'[c].at = "rest" => Good(c, "name")'
      BY <3>1, <3>2, <3>3 DEF Good
    <3>7. Progress(c)'
      BY <3>1, <3>2, <3>3, <3>5, <3>6 DEF Progress
    <3>8. Undisturbed(c)' => Undisturbed(c)
      BY <1>i, <3>1, <3>2 DEF Undisturbed
    <3>9. QED
      BY <1>t, <1>i, <3>2, <3>4, <3>7, <3>8, Frame
  <2>4. ASSUME NEW a \in {"notFound", "left", "argument"}, Finish(c, a) PROVE AInv'
    BY <1>t, <1>i, <2>4, FinishHolds
  <2>5. ASSUME Moved(c, {"match"}, {"match"}) PROVE AInv'
    BY <1>t, <2>2, <2>5, MovedAlone DEF Early
  <2>6. QED
    BY <1>2, <1>t, <2>3, <2>4, <2>5, MatchSteps
<1>3. QED
  BY <1>1, <1>2

(* One column more, or an error that is remembered. *)
LEMMA ColumnAlone ==
  ASSUME Steps, NEW c \in Clients, NEW col \in {"name", "rest"},
         CreateKey(c, col) \/ SetKey(c, col) \/ GetKey(c, col)
  PROVE  AInv'
<1>t. /\ AInv /\ TypeOK /\ call[c] \in Call /\ Fits(c)
      /\ repo \in [Rows -> Row]
  BY DEF Steps, IInv, TypeOK, AInv
<1>m. /\ call[c].method \in {"CreateSetL", "UpdateSetL", "UpdatePropertyL", "SettingsSetL"}
      /\ call[c].at = col
  BY DEF CreateKey, SetKey, GetKey, Is
<1>a. /\ After(c, col) \in {"rest", "settle"}
      /\ After(c, col) = "rest" => col = "name" /\ call[c].method # "UpdatePropertyL"
      /\ After(c, col) = "settle" => col = "rest" \/ call[c].method = "UpdatePropertyL"
  BY DEF After
<1>u. Undisturbed(c) => Mine(c) /\ (col = "rest" /\ ~call[c].bad => Good(c, "name"))
  BY <1>m DEF Steps, AInv, Progress
<1>1. ASSUME Failed(c, col) PROVE AInv'
  <2>1. /\ Rest(c) /\ Same(c) /\ call'[c].at = After(c, col)
        /\ call'[c].row = call[c].row /\ call'[c].bad = TRUE /\ repo' = repo
    BY <1>t, <1>1, FailedIs
  <2>2. Fits(c)'
    BY <1>t, <1>m, <1>a, <2>1 DEF Fits, Same
  <2>3. Undisturbed(c) => Progress(c)'
    BY <1>u, <1>a, <2>1 DEF Progress, Mine, Same
  <2>4. Undisturbed(c)' => Undisturbed(c)
    BY <1>m, <2>1 DEF Undisturbed, Same
  <2>5. QED
    BY <1>t, <1>m, <2>1, <2>2, <2>3, <2>4, Frame
<1>2. ASSUME Goto(c, After(c, col)),
             \/ Wrote(c, col) /\ call[c].method # "SettingsSetL"
             \/ UNCHANGED repo /\ call[c].method = "SettingsSetL" /\ ~Absent(c, col)
      PROVE  AInv'
  <2>1. /\ Rest(c) /\ Same(c) /\ call'[c].at = After(c, col)
        /\ call'[c].row = call[c].row /\ call'[c].bad = call[c].bad
    BY <1>t, <1>2, GotoIs
  <2>2. Fits(c)'
    BY <1>t, <1>m, <1>a, <2>1 DEF Fits, Same
  <2>3. ASSUME Mine(c) PROVE Mine(c)' /\ Good(c, col)'
                          /\ \A k \in {"name", "rest"} \ {col} : Good(c, k) => Good(c, k)'
    <3>1. CASE Wrote(c, col) /\ call[c].method # "SettingsSetL"
      <4>1. /\ repo'[call[c].row].id = repo[call[c].row].id
            /\ repo'[call[c].row][col] = call[c].val
            /\ \A k \in {"name", "rest"} \ {col} : repo'[call[c].row][k] = repo[call[c].row][k]
        <5>1. call[c].row \in Rows /\ repo[call[c].row] \in Row
          BY <1>t, <2>3 DEF Mine
        <5>2. repo'[call[c].row] = [repo[call[c].row] EXCEPT ![col] = call[c].val]
          BY <1>t, <3>1, <5>1 DEF Wrote
        <5>3. QED
          BY <5>1, <5>2 DEF Row
      <4>2. QED
        BY <2>1, <2>3, <3>1, <4>1 DEF Mine, Good, Same
    <3>2. CASE UNCHANGED repo /\ call[c].method = "SettingsSetL" /\ ~Absent(c, col)
      BY <2>1, <2>3, <3>2 DEF Mine, Good, Same, Absent
    <3>3. QED
      BY <1>2, <3>1, <3>2
  <2>4. Undisturbed(c) => Progress(c)'
    <3> SUFFICES ASSUME Undisturbed(c) PROVE Progress(c)'
      OBVIOUS
    <3>1. Mine(c)' /\ Good(c, col)' /\ (col = "rest" /\ ~call[c].bad => Good(c, "name")')
      BY <1>u, <2>3
    <3>2. call[c].method = "UpdatePropertyL" => Good(c, "name")' /\ Good(c, "rest")'
      BY <2>1 DEF Good, Same
    <3>3. QED
      BY <1>a, <2>1, <3>1, <3>2 DEF Progress
  <2>5. Undisturbed(c)' => Undisturbed(c)
    BY <1>m, <2>1 DEF Undisturbed, Same
  <2>6. QED
    BY <1>t, <1>m, <2>1, <2>2, <2>4, <2>5, Frame
<1>3. QED
  BY <1>1, <1>2 DEF CreateKey, SetKey, GetKey, Is

(* What the answer of a call says is true when it is given. *)
LEMMA AnswerAlone ==
  ASSUME Steps, NEW c \in Clients, Settle(c) \/ DeleteRow(c) \/ DeleteAgain(c)
  PROVE  AInv'
<1>t. /\ AInv /\ TypeOK /\ call[c] \in Call /\ Fits(c)
      /\ repo \in [Rows -> Row] /\ UniqueIds
  BY DEF Steps, IInv, TypeOK, AInv
<1>1. CASE Settle(c)
  <2>1. ASSUME call[c].bad, NEW a \in {"left", "corrupt"}, Finish(c, a) PROVE AInv'
    BY <1>t, <1>1, <2>1, FinishHolds DEF Settle
  <2>2. ASSUME ~call[c].bad, Finish(c, "ok"), repo' = repo PROVE AInv'
    <3>1. Same(c)
      BY <1>t, <2>2, FinishIs
    <3>2. ASSUME Undisturbed(c) PROVE Promise(c)'
      <4>1. Mine(c) /\ Good(c, "name") /\ Good(c, "rest")
        BY <1>1, <2>2, <3>2 DEF Steps, AInv, Progress, Settle
      <4>2. call[c].method \in {"CreateSetL", "UpdateSetL", "UpdatePropertyL", "SettingsSetL"}
        BY <1>1, <1>t DEF Settle, Fits
      <4>3. ASSUME call[c].method \in {"CreateSetL", "UpdateSetL"} PROVE Promise(c)'
        <5>1. repo[call[c].row] \in Row
          BY <1>t, <4>1 DEF Mine
        <5>2. repo[call[c].row] = [id |-> call[c].id, name |-> call[c].val, rest |-> call[c].val]
          BY <4>1, <4>3, <5>1 DEF Mine, Good, Row
        <5>3. \E r \in Rows : repo'[r] = [id |-> call'[c].id, name |-> call'[c].val, rest |-> call'[c].val]
          BY <2>2, <3>1, <4>1, <5>2 DEF Mine, Same
        <5>4. QED
          BY <3>1, <4>3, <5>3 DEF Promise, Same
      <4>4. ASSUME call[c].method = "SettingsSetL" PROVE Promise(c)'
        <5>1. \A r \in Rows : repo[r].id = call[c].id => r = call[c].row
          BY <1>t, <4>1 DEF Mine, UniqueIds
        <5>2. \A r \in Rows : repo'[r].id = call'[c].id => Whole(r)'
          BY <2>2, <3>1, <4>1, <4>4, <5>1 DEF Good, Whole, Same
        <5>3. QED
          BY <3>1, <4>4, <5>2 DEF Promise, Same
      <4>5. ASSUME call[c].method = "UpdatePropertyL" PROVE Promise(c)'
        BY <3>1, <4>5 DEF Promise, Same
      <4>6. QED
        BY <4>2, <4>3, <4>4, <4>5
    <3>3. QED
      BY <1>t, <1>1, <2>2, <3>2, FinishHolds DEF Settle
  <2>3. QED
    BY <1>1, <2>1, <2>2 DEF Settle
<1>2. CASE DeleteRow(c)
  <2>1. call[c].at = "delete" /\ call[c].method = "RemoveSetL"
    BY <1>2, <1>t DEF DeleteRow, Fits
  <2>2. ASSUME Finish(c, "ok") PROVE AInv'
    <3>1. Same(c)
      BY <1>t, <2>2, FinishIs
    <3>2. ASSUME Undisturbed(c) PROVE Promise(c)'
      <4>1. Mine(c)
        BY <2>1, <3>2 DEF Steps, AInv, Progress
      <4>2. \A r \in Rows : repo[r].id = call[c].id => r = call[c].row
        BY <1>t, <4>1 DEF Mine, UniqueIds
      <4>3. \A r \in Rows : repo'[r] = IF r = call[c].row THEN Empty ELSE repo[r]
        BY <1>t, <1>2 DEF DeleteRow
      <4>4. \A r \in Rows : repo'[r].id # call'[c].id
        BY <3>1, <4>1, <4>2, <4>3 DEF Same, Mine, Empty
      <4>5. call'[c].method = "RemoveSetL"
        BY <2>1, <3>1 DEF Same
      <4>6. QED
        BY <4>4, <4>5 DEF Promise, Present
    <3>3. QED
      BY <1>t, <2>1, <2>2, <3>2, FinishHolds
  <2>3. ASSUME Goto(c, "again") PROVE AInv'
    <3>1. Rest(c) /\ Same(c) /\ call'[c].at = "again"
      BY <1>t, <2>3, GotoIs
    <3>2. Fits(c)'
      BY <1>t, <2>1, <3>1 DEF Fits, Same
    <3>3. QED
      BY <1>t, <2>1, <3>1, <3>2, EarlyHolds DEF Early, Same
  <2>4. QED
    BY <1>2, <2>2, <2>3 DEF DeleteRow
<1>3. CASE DeleteAgain(c)
  BY <1>t, <1>3, FinishHolds DEF DeleteAgain
<1>4. QED
  BY <1>1, <1>2, <1>3

LEMMA EndsAlone ==
  ASSUME Steps, NEW c \in Clients,
         ListName(c) \/ ListId(c) \/ PurgeRow(c) \/ Return(c) \/ Crash(c)
  PROVE  AInv'
<1>t. /\ AInv /\ TypeOK /\ call \in [Clients -> Call] /\ call[c] \in Call /\ Fits(c)
  BY DEF Steps, IInv, TypeOK, AInv
<1>i. call[c].at # "idle"
  BY DEF ListName, ListId, PurgeRow, Return, Crash
<1>1. CASE ListName(c) \/ ListId(c) \/ PurgeRow(c)
  <2>1. call[c].method = "GetAllSetsNamesLC"
    BY <1>1, <1>t DEF ListName, ListId, PurgeRow, Fits
  <2>2. ASSUME Finish(c, "ok") PROVE AInv'
    <3>1. call'[c].method = "GetAllSetsNamesLC"
      BY <1>t, <2>1, <2>2, FinishIs DEF Same
    <3>2. Promise(c)'
      BY <3>1 DEF Promise
    <3>3. QED
      BY <1>t, <1>i, <2>2, <3>2, FinishHolds
  <2>3. ASSUME Moved(c, {"list", "ident", "purge"}, {"list", "ident", "purge"}) PROVE AInv'
    BY <1>t, <2>1, <2>3, MovedAlone DEF Early
  <2>4. QED
    BY <1>1, <1>t, <2>2, <2>3, ListMoves
<1>2. CASE Return(c) \/ Crash(c)
  <2>1. call' = [call EXCEPT ![c] = Idle]
    BY <1>2 DEF Return, Crash
  <2>2. Rest(c) /\ call'[c] = Idle
    BY <1>t, <2>1 DEF Rest
  <2>3. Fits(c)' /\ ~Undisturbed(c)'
    BY <2>2 DEF Fits, Undisturbed, Idle, Entered, Seekers
  <2>4. QED
    BY <1>t, <1>i, <2>2, <2>3, Frame
<1>3. QED
  BY <1>1, <1>2

LEMMA ANext ==
  ASSUME OneCreator
  PROVE  IInv /\ AInv /\ [Next]_vars => AInv'
<1> SUFFICES ASSUME IInv, AInv, [Next]_vars PROVE AInv'
  OBVIOUS
<1>1. Steps
  BY DEF Steps
<1>2. CASE UNCHANGED vars
  BY <1>2 DEF vars, AInv, Alone, Undisturbed, Fits, Progress, Mine, Good, Promise, Present, Whole
<1>3. ASSUME NEW c \in Clients, Enters(c) PROVE AInv'
  BY <1>3, EntersAlone DEF IInv
<1>4. ASSUME NEW c \in Clients,
             GetFreshRawInHex(c) \/ ReadCounter(c) \/ CreateCounter(c) \/ WriteCounter(c) \/ CreateIdKey(c)
      PROVE  AInv'
  BY <1>1, <1>4, CreationAlone
<1>5. ASSUME NEW c \in Clients, FindKeys(c) \/ MatchKeys(c) PROVE AInv'
  BY <1>1, <1>5, SearchAlone
<1>6. ASSUME NEW c \in Clients, NEW col \in {"name", "rest"},
             CreateKey(c, col) \/ SetKey(c, col) \/ GetKey(c, col)
      PROVE  AInv'
  BY <1>1, <1>6, ColumnAlone
<1>7. ASSUME NEW c \in Clients, Settle(c) \/ DeleteRow(c) \/ DeleteAgain(c) PROVE AInv'
  BY <1>1, <1>7, AnswerAlone
<1>8. ASSUME NEW c \in Clients,
             ListName(c) \/ ListId(c) \/ PurgeRow(c) \/ Return(c) \/ Crash(c)
      PROVE  AInv'
  BY <1>1, <1>8, EndsAlone
<1>9. QED
  BY <1>2, <1>3, <1>4, <1>5, <1>6, <1>7, <1>8 DEF Next, Enters

(* With one process that creates sets, a method that nobody else's call    *)
(* overlapped has done what its answer says, whatever rows earlier calls,  *)
(* failed writes and dead processes have left.                             *)
THEOREM AnswersHold == ASSUME OneCreator PROVE Spec => []AnswerHolds
<1>1. AInv => AnswerHolds
  BY DEF AInv, AnswerHolds, Undisturbed, Progress
<1>2. IInv /\ AInv /\ [Next]_vars => AInv'
  BY ANext
<1>3. QED
  BY <1>1, <1>2, AInit, Invariant, PTL DEF Spec
=============================================================================
