---------------------------- MODULE ConfigProofs ----------------------------
(***************************************************************************)
(* Theorems about Config, for tables of every size, messages of every      *)
(* length, every set of actors and all writes that may fail: the tables    *)
(* are what their readers take for granted, the answers of device          *)
(* management are so, and the sets a message has saved hold the ids the    *)
(* message was told.                                                       *)
(***************************************************************************)
EXTENDS Config, FiniteSetTheorems, SequenceTheorems, WellFoundedInduction, TLAPS

(* The columns of a presence set and of a row of the XDM table. *)
PresSet == [name : Name \cup {NoName}, sip : SipIds \cup {Unset}, xdm : XRows \cup {Unset, Failed}]
XdmRow  == [id : BOOLEAN, name : Name \cup {NoName}, sip : SipIds \cup {Unset, Absent}]

(* What a row that is not stored holds, when no write fails. *)
Blank == Full \/ \A r \in XRows \ Stored : xdm[r] = EmptyRow

(* What every handler finds in the tables and leaves in them. *)
Sound == TablesTypeOK /\ UniqueNames /\ Blank

-----------------------------------------------------------------------------
(* Names that are not in use. *)

(* A set of numbers that is not empty has a least one. *)
LEMMA MinOfNumbers ==
  ASSUME NEW S \in SUBSET Nat, S # {}
  PROVE  Min(S) \in S
<1>1. \E m \in S : \A n \in S : <<n, m>> \notin OpToRel(<, Nat)
  BY WFMin, NatLessThanWellFounded
<1>2. PICK m \in S : \A n \in S : <<n, m>> \notin OpToRel(<, Nat)
  BY <1>1
<1>3. \A n \in S : ~(n < m)
  BY <1>2 DEF OpToRel
<1>4. \A n \in S : m <= n
  BY <1>3
<1>5. QED
  BY <1>4 DEF Min

LEMMA NameFacts ==
  /\ NoName \notin Name
  /\ \A b \in Bases : Plain(b) \in Name /\ Plain(b).base = b
  /\ \A v \in Name : v.base \in Bases /\ v.n \in Nat /\ v = [base |-> v.base, n |-> v.n]
  /\ \A v \in Name : \A k \in 0..(NRows + MaxIds + 1) :
        [v EXCEPT !.n = k] \in Name /\ [v EXCEPT !.n = k].base = v.base
<1>1. 0 \in 0..(NRows + MaxIds + 1)
  BY BoundAssumption
<1>2. QED
  BY <1>1, BasesAssumption, BoundAssumption DEF Name, NoName, Plain

(* One of the first numbers makes a name that is not in use: there are     *)
(* more numbers than names.                                                *)
LEMMA NumberLeft ==
  ASSUME NEW name \in Name, NEW used \in SUBSET Name, IsFiniteSet(used)
  PROVE  \E k \in 1..(Cardinality(used) + 1) : [name EXCEPT !.n = k] \notin used
<1> DEFINE c == Cardinality(used)
           f == [k \in 1..(c + 1) |-> [name EXCEPT !.n = k]]
<1>1. c \in Nat
  BY FS_CardinalityType
<1>2. IsFiniteSet(1..(c + 1)) /\ Cardinality(1..(c + 1)) = c + 1
  BY <1>1, FS_Interval
<1>3. SUFFICES ASSUME \A k \in 1..(c + 1) : [name EXCEPT !.n = k] \in used
               PROVE  FALSE
  OBVIOUS
<1>4. f \in [1..(c + 1) -> used]
  BY <1>3
<1>5. PICK x \in 1..(c + 1), y \in 1..(c + 1) : x # y /\ f[x] = f[y]
  <2> HIDE DEF f
  <2>1. c < c + 1
    BY <1>1
  <2>2. QED
    BY <1>2, <1>4, <2>1, FS_PigeonHole
<1>6. [name EXCEPT !.n = x].n = [name EXCEPT !.n = y].n
  BY <1>5
<1>7. QED
  BY <1>5, <1>6 DEF Name

(* FreeName keeps the text, and finds a name that is not in use. *)
LEMMA FreeNameIsFree ==
  ASSUME NEW name \in Name, NEW used \in SUBSET Name, IsFiniteSet(used),
         Cardinality(used) <= NRows + MaxIds
  PROVE  /\ FreeName(name, used) \in Name \ used
         /\ FreeName(name, used).base = name.base
<1> DEFINE S == {k \in 1..(Cardinality(used) + 1) : [name EXCEPT !.n = k] \notin used}
<1>1. Cardinality(used) \in Nat
  BY FS_CardinalityType
<1>2. S # {}
  BY NumberLeft
<1>3. S \in SUBSET Nat
  BY <1>1
<1>4. Min(S) \in S
  <2> HIDE DEF S
  <2>1. QED
    BY <1>2, <1>3, MinOfNumbers
<1>5. Min(S) \in 0..(NRows + MaxIds + 1) /\ [name EXCEPT !.n = Min(S)] \notin used
  BY <1>1, <1>4, BoundAssumption
<1>6. CASE name \in used
  <2>1. FreeName(name, used) = [name EXCEPT !.n = Min(S)]
    BY <1>6 DEF FreeName
  <2> HIDE DEF S
  <2>2. QED
    BY <1>5, <2>1, NameFacts
<1>7. CASE name \notin used
  BY <1>7 DEF FreeName
<1>8. QED
  BY <1>6, <1>7

LEMMA FewRows == IsFiniteSet(XRows) /\ Cardinality(XRows) <= NRows
<1>1. 0 \in Int /\ NRows - 1 \in Int
  BY BoundAssumption
<1>2. IsFiniteSet(0..(NRows - 1)) /\ Cardinality(0..(NRows - 1)) = IF 0 > NRows - 1 THEN 0 ELSE NRows - 1 - 0 + 1
  BY <1>1, FS_Interval
<1>3. QED
  BY <1>2, BoundAssumption DEF XRows

(* There are no more names than ids. *)
LEMMA FewSetNames ==
  ASSUME TablesTypeOK
  PROVE  /\ SetNames \in SUBSET Name /\ IsFiniteSet(SetNames)
         /\ Cardinality(SetNames) <= NRows + MaxIds
<1> DEFINE f == [i \in Sets |-> pres[i].name]
<1>1. IsFiniteSet(PIds) /\ Cardinality(PIds) <= MaxIds
  BY FS_Interval, BoundAssumption DEF PIds
<1>2. Sets \in SUBSET PIds
  BY DEF Sets
<1>3. IsFiniteSet(Sets) /\ Cardinality(Sets) <= MaxIds
  BY <1>1, <1>2, FS_Subset, FS_CardinalityType, BoundAssumption
<1>4. \A i \in Sets : pres[i].name \in Name
  BY DEF Sets, TablesTypeOK
<1>5. f \in Surjection(Sets, SetNames)
  BY DEF Surjection, SetNames
<1>6. IsFiniteSet(SetNames) /\ Cardinality(SetNames) <= Cardinality(Sets)
  <2> HIDE DEF f
  <2>1. QED
    BY <1>3, <1>5, FS_Surjection
<1>7. Cardinality(SetNames) \in Nat /\ Cardinality(Sets) \in Nat
  BY <1>3, <1>6, FS_CardinalityType
<1>8. QED
  BY <1>3, <1>4, <1>6, <1>7, BoundAssumption DEF SetNames

LEMMA FewCollectionNames ==
  ASSUME TablesTypeOK
  PROVE  /\ CollectionNames \in SUBSET Name /\ IsFiniteSet(CollectionNames)
         /\ Cardinality(CollectionNames) <= NRows + MaxIds
<1> DEFINE f == [r \in Named |-> xdm[r].name]
<1>1. IsFiniteSet(XRows) /\ Cardinality(XRows) <= NRows
  BY FewRows
<1>2. Named \in SUBSET XRows
  BY DEF Named
<1>3. IsFiniteSet(Named) /\ Cardinality(Named) <= NRows
  BY <1>1, <1>2, FS_Subset, FS_CardinalityType, BoundAssumption
<1>4. \A r \in Named : xdm[r].name \in Name
  BY DEF Named, TablesTypeOK
<1>5. f \in Surjection(Named, CollectionNames)
  BY DEF Surjection, CollectionNames
<1>6. IsFiniteSet(CollectionNames) /\ Cardinality(CollectionNames) <= Cardinality(Named)
  <2> HIDE DEF f
  <2>1. QED
    BY <1>3, <1>5, FS_Surjection
<1>7. Cardinality(CollectionNames) \in Nat /\ Cardinality(Named) \in Nat
  BY <1>3, <1>6, FS_CardinalityType
<1>8. QED
  BY <1>3, <1>4, <1>6, <1>7, BoundAssumption DEF CollectionNames

(* The names the handlers make up. *)
LEMMA NewSetName ==
  ASSUME TablesTypeOK, NEW v \in Name
  PROVE  /\ FreeName(v, SetNames) \in Name \ SetNames
         /\ FreeName(v, SetNames).base = v.base
BY FewSetNames, FreeNameIsFree

LEMMA NewCollectionName ==
  ASSUME TablesTypeOK, NEW v \in Name
  PROVE  /\ FreeName(v, CollectionNames) \in Name \ CollectionNames
         /\ FreeName(v, CollectionNames).base = v.base
BY FewCollectionNames, FreeNameIsFree

(* The row that a new collection gets, if there is one, is not stored. *)
LEMMA LastRowIsFree ==
  ASSUME TablesTypeOK, LastRow < NRows
  PROVE  LastRow \in XRows \ Stored
<1> DEFINE n == Cardinality(Stored)
           S == (n..NRows) \ Stored
<1>1. Stored \in SUBSET XRows /\ IsFiniteSet(XRows) /\ Cardinality(XRows) <= NRows
  BY FewRows DEF Stored
<1>2. IsFiniteSet(Stored) /\ n \in Nat /\ n <= NRows
  BY <1>1, FS_Subset, FS_CardinalityType, BoundAssumption
<1>3. NRows \in S
  BY <1>1, <1>2, BoundAssumption DEF XRows
<1>4. S \in SUBSET Nat
  BY <1>2
<1>5. Min(S) \in S
  <2> HIDE DEF S
  <2>1. QED
    BY <1>3, <1>4, MinOfNumbers
<1>6. CASE n = 0
  <2>1. Stored = {}
    BY <1>2, <1>6, FS_EmptySet
  <2>2. LastRow = 0
    BY <1>6 DEF LastRow
  <2>3. QED
    BY <2>1, <2>2, BoundAssumption DEF XRows
<1>7. CASE n # 0
  <2>1. LastRow = Min(S)
    BY <1>7 DEF LastRow
  <2> HIDE DEF S
  <2>2. LastRow \in S
    BY <1>5, <2>1
  <2>3. QED
    BY <1>2, <2>2, BoundAssumption DEF S, XRows
<1>8. QED
  BY <1>6, <1>7

-----------------------------------------------------------------------------
(* The methods of the two tables. *)

LEMMA TypeOfTables ==
  TablesTypeOK <=> /\ xdm \in [XRows -> XdmRow]
                   /\ pres \in [PIds -> PresSet]
                   /\ lastId \in 0..MaxIds
BY DEF TablesTypeOK, XdmRow, PresSet

(* One presence set changes. Its name is gone, its own, or a new one. *)
LEMMA SetChange ==
  ASSUME Sound, UNCHANGED actors, NEW i \in PIds, UNCHANGED xdm, lastId' \in 0..MaxIds,
         pres' \in [PIds -> PresSet],
         \A j \in PIds \ {i} : pres'[j].name = pres[j].name,
         pres'[i].name \in {NoName, pres[i].name} \cup (Name \ SetNames)
  PROVE  Sound'
<1>1. TablesTypeOK'
  BY TypeOfTables DEF Sound, TablesTypeOK, XdmRow, PresSet
<1>2. Blank'
  BY DEF Sound, Blank, Stored, Full
<1>3. ASSUME NEW j \in PIds, NEW k \in PIds, pres'[j].name # NoName,
             pres'[j].name = pres'[k].name, j # k
      PROVE  FALSE
  <2>1. \A a, b \in PIds : pres[a].name # NoName /\ pres[a].name = pres[b].name => a = b
    BY DEF Sound, UniqueNames, Sets
  <2>2. \A a \in PIds : pres[a].name # NoName => pres[a].name \in SetNames
    BY DEF SetNames, Sets
  <2>3. CASE j = i
    BY <1>3, <2>1, <2>2, <2>3
  <2>4. CASE k = i
    BY <1>3, <2>1, <2>2, <2>4
  <2>5. CASE j # i /\ k # i
    BY <1>3, <2>1, <2>5
  <2>6. QED
    BY <2>3, <2>4, <2>5
<1>4. UniqueNames'
  <2>1. \A j, k \in Sets' : pres'[j].name = pres'[k].name => j = k
    BY <1>3 DEF Sets
  <2>2. Reused' \/ \A j, k \in Named' : xdm'[j].name = xdm'[k].name => j = k
    BY DEF Sound, UniqueNames, Named, Reused
  <2>3. QED
    BY <2>1, <2>2 DEF UniqueNames
<1>5. QED
  BY <1>1, <1>2, <1>4 DEF Sound

(* One row changes. Its name is gone, its own, or a new one, and it is     *)
(* stored or empty, as long as nothing goes wrong.                         *)
LEMMA RowChange ==
  ASSUME Sound, UNCHANGED actors, NEW i \in XRows, UNCHANGED <<pres, lastId>>,
         xdm' \in [XRows -> XdmRow],
         \A j \in XRows \ {i} : xdm'[j] = xdm[j],
         Reused \/ xdm'[i].name \in {NoName, xdm[i].name} \cup (Name \ CollectionNames),
         Full \/ xdm'[i].id = TRUE \/ xdm'[i] = EmptyRow
  PROVE  Sound'
<1>1. TablesTypeOK'
  BY TypeOfTables DEF Sound, TablesTypeOK, XdmRow, PresSet
<1>2. Blank'
  BY DEF Sound, Blank, Stored, Full
<1>3. ASSUME ~Reused, NEW j \in XRows, NEW k \in XRows, xdm'[j].name # NoName,
             xdm'[j].name = xdm'[k].name, j # k
      PROVE  FALSE
  <2>1. \A a, b \in XRows : xdm[a].name # NoName /\ xdm[a].name = xdm[b].name => a = b
    BY <1>3 DEF Sound, UniqueNames, Named
  <2>2. \A a \in XRows : xdm[a].name # NoName => xdm[a].name \in CollectionNames
    BY DEF CollectionNames, Named
  <2>3. CASE j = i
    BY <1>3, <2>1, <2>2, <2>3
  <2>4. CASE k = i
    BY <1>3, <2>1, <2>2, <2>4
  <2>5. CASE j # i /\ k # i
    BY <1>3, <2>1, <2>5
  <2>6. QED
    BY <2>3, <2>4, <2>5
<1>4. UniqueNames'
  <2>1. \A j, k \in Sets' : pres'[j].name = pres'[k].name => j = k
    BY DEF Sound, UniqueNames, Sets
  <2>2. Reused' \/ \A j, k \in Named' : xdm'[j].name = xdm'[k].name => j = k
    BY <1>3 DEF Named, Reused
  <2>3. QED
    BY <2>1, <2>2 DEF UniqueNames
<1>5. QED
  BY <1>1, <1>2, <1>4 DEF Sound

LEMMA CreateSetSound ==
  ASSUME Sound, UNCHANGED actors, NEW p \in PresSet, p.name \in Name \ SetNames,
         CreateSetL(p), UNCHANGED xdm
  PROVE  /\ Sound' /\ lastId + 1 \in PIds /\ lastId' = lastId + 1
         /\ pres' = [pres EXCEPT ![lastId + 1] = p]
<1>1. lastId \in 0..MaxIds /\ lastId < MaxIds /\ pres \in [PIds -> PresSet]
  BY TypeOfTables DEF Sound, CreateSetL
<1>2. lastId + 1 \in PIds /\ lastId' \in 0..MaxIds
  BY <1>1, BoundAssumption DEF CreateSetL, PIds
<1>3. pres' = [pres EXCEPT ![lastId + 1] = p] /\ lastId' = lastId + 1
  BY DEF CreateSetL
<1>4. QED
  BY <1>1, <1>2, <1>3, SetChange

LEMMA RemoveSetSound ==
  ASSUME Sound, UNCHANGED actors, NEW i, RemoveSetL(i), UNCHANGED xdm
  PROVE  Sound' /\ i \in PIds /\ lastId' = lastId
<1>1. i \in PIds /\ lastId' = lastId /\ pres' = [pres EXCEPT ![i] = NewSet]
  BY DEF RemoveSetL, Sets
<1>2. NewSet \in PresSet /\ NewSet.name = NoName
  BY DEF NewSet, PresSet
<1>3. lastId \in 0..MaxIds /\ pres \in [PIds -> PresSet]
  BY TypeOfTables DEF Sound
<1>4. QED
  BY <1>1, <1>2, <1>3, SetChange

LEMMA RenameSetSound ==
  ASSUME Sound, UNCHANGED actors, NEW i, NEW v \in Name \ SetNames, UpdatePresL(i, "name", v), UNCHANGED xdm
  PROVE  Sound' /\ i \in PIds /\ lastId' = lastId /\ pres'[i].name = v
<1>1. i \in PIds /\ lastId' = lastId /\ pres' = [pres EXCEPT ![i].name = v]
  BY DEF UpdatePresL, Sets
<1>2. lastId \in 0..MaxIds /\ pres \in [PIds -> PresSet]
  BY TypeOfTables DEF Sound
<1>3. [pres[i] EXCEPT !.name = v] \in PresSet /\ [pres[i] EXCEPT !.name = v].name = v
  BY <1>1, <1>2 DEF PresSet
<1>4. pres' \in [PIds -> PresSet] /\ pres'[i].name = v
      /\ \A j \in PIds \ {i} : pres'[j].name = pres[j].name
  BY <1>1, <1>2, <1>3
<1>5. QED
  BY <1>1, <1>2, <1>4, SetChange

LEMMA ReferSetSound ==
  ASSUME Sound, UNCHANGED actors, NEW i, NEW col \in {"sip", "xdm"},
         NEW v \in (IF col = "sip" THEN SipIds ELSE XRows \cup {Failed}) \cup {Unset},
         UpdatePresL(i, col, v), UNCHANGED xdm
  PROVE  Sound' /\ i \in PIds /\ lastId' = lastId /\ pres'[i][col] = v
<1>1. i \in PIds /\ lastId' = lastId /\ pres' = [pres EXCEPT ![i] = [@ EXCEPT ![col] = v]]
  BY DEF UpdatePresL, Sets
<1>2. lastId \in 0..MaxIds /\ pres \in [PIds -> PresSet]
  BY TypeOfTables DEF Sound
<1>3. [pres[i] EXCEPT ![col] = v] \in PresSet /\ [pres[i] EXCEPT ![col] = v].name = pres[i].name
      /\ [pres[i] EXCEPT ![col] = v][col] = v
  <2>1. CASE col = "sip"
    BY <1>1, <1>2, <2>1 DEF PresSet
  <2>2. CASE col = "xdm"
    BY <1>1, <1>2, <2>2 DEF PresSet
  <2>3. QED
    BY <2>1, <2>2
<1>4. pres' \in [PIds -> PresSet] /\ pres'[i].name = pres[i].name /\ pres'[i][col] = v
      /\ \A j \in PIds \ {i} : pres'[j].name = pres[j].name
  BY <1>1, <1>2, <1>3
<1>5. QED
  BY <1>1, <1>2, <1>4, SetChange

(* A creation that fails changes nothing but the id given out. *)
LEMMA CreateFailsSound ==
  ASSUME Sound, UNCHANGED actors, CreateSetFails, UNCHANGED xdm
  PROVE  Sound' /\ lastId' = lastId + 1 /\ pres' = pres /\ Full
<1>1. lastId' \in 0..MaxIds /\ lastId' = lastId + 1 /\ pres' = pres /\ Full
  BY BoundAssumption DEF Sound, TablesTypeOK, CreateSetFails
<1>2. Sound'
  BY <1>1 DEF Sound, TablesTypeOK, UniqueNames, Blank, Sets, Named, Stored, Full, Reused
<1>3. QED
  BY <1>1, <1>2

(* A new collection is sound with whatever columns are lost.               *)
LEMMA CreateCollectionSound ==
  ASSUME Sound, UNCHANGED actors, NEW p, NEW lost \in Losses,
         p.name \in Name \cup {NoName}, p.sip \in SipIds \cup {Unset, Absent},
         Reused \/ p.name \in {NoName} \cup (Name \ CollectionNames),
         CreateCollectionL(p, lost), UNCHANGED <<pres, lastId>>
  PROVE  /\ Sound' /\ Created(lost) \in XRows \cup {Failed}
         /\ ~Full => /\ Created(lost) = LastRow /\ LastRow \in XRows
                     /\ xdm' = [xdm EXCEPT ![LastRow] = [id |-> TRUE, name |-> p.name, sip |-> p.sip]]
<1> DEFINE old == xdm[LastRow]
           row == [id   |-> "id" \notin lost,
                   name |-> IF old.name = NoName /\ "name" \notin lost THEN p.name ELSE old.name,
                   sip  |-> IF old.sip = Absent /\ "sip" \notin lost THEN p.sip ELSE old.sip]
<1>1. LastRow \in XRows \ Stored /\ xdm \in [XRows -> XdmRow]
  BY LastRowIsFree, TypeOfTables DEF Sound, CreateCollectionL
<1>2. ~Full => lost = {}
  BY DEF Losses
<1>3. xdm' = [xdm EXCEPT ![LastRow] = row]
  BY DEF CreateCollectionL
<1>4. old \in XdmRow
  BY <1>1
<1>5. row \in XdmRow /\ (row.id = TRUE \/ Full)
      /\ (Reused \/ row.name \in {NoName, old.name} \cup (Name \ CollectionNames))
  <2> HIDE DEF old
  <2>1. row \in XdmRow
    BY <1>4 DEF XdmRow
  <2>2. row.id = TRUE \/ Full
    BY <1>2
  <2>3. row.name \in {old.name, p.name}
    OBVIOUS
  <2> HIDE DEF row
  <2>4. QED
    BY <2>1, <2>2, <2>3
<1>6. ASSUME ~Full
      PROVE  row = [id |-> TRUE, name |-> p.name, sip |-> p.sip]
  <2>1. lost = {} /\ old = EmptyRow
    BY <1>1, <1>2, <1>6 DEF Sound, Blank
  <2>2. old.name = NoName /\ old.sip = Absent
    BY <2>1 DEF EmptyRow
  <2> HIDE DEF old
  <2>3. ("id" \notin lost) = TRUE /\ "name" \notin lost /\ "sip" \notin lost
    BY <2>1
  <2>4. QED
    BY <2>2, <2>3
<1> HIDE DEF row
<1>7. xdm' \in [XRows -> XdmRow] /\ \A j \in XRows \ {LastRow} : xdm'[j] = xdm[j]
  BY <1>1, <1>3, <1>5
<1>8. xdm'[LastRow] = row
  BY <1>1, <1>3
<1>9. Sound'
  BY <1>1, <1>5, <1>7, <1>8, RowChange
<1>10. QED
  BY <1>1, <1>2, <1>3, <1>6, <1>9 DEF Created

LEMMA RemoveCollectionSound ==
  ASSUME Sound, UNCHANGED actors, NEW i, RemoveCollectionL(i), UNCHANGED <<pres, lastId>>
  PROVE  Sound' /\ i \in XRows
<1>1. i \in XRows /\ xdm' = [xdm EXCEPT ![i] = EmptyRow] /\ xdm \in [XRows -> XdmRow]
  BY TypeOfTables DEF RemoveCollectionL, Stored, Sound
<1>2. EmptyRow \in XdmRow /\ EmptyRow.name = NoName
  BY DEF EmptyRow, XdmRow
<1>3. QED
  BY <1>1, <1>2, RowChange

LEMMA RenameCollectionSound ==
  ASSUME Sound, UNCHANGED actors, NEW i, NEW v \in Name \ CollectionNames, WriteXdm(i, "name", v),
         UNCHANGED <<pres, lastId>>
  PROVE  Sound' /\ i \in XRows /\ xdm'[i].name = v
<1>1. i \in XRows /\ xdm[i].id /\ xdm' = [xdm EXCEPT ![i].name = v] /\ xdm \in [XRows -> XdmRow]
  BY TypeOfTables DEF WriteXdm, Stored, Sound
<1>2. [xdm[i] EXCEPT !.name = v] \in XdmRow /\ [xdm[i] EXCEPT !.name = v].name = v
      /\ [xdm[i] EXCEPT !.name = v].id = TRUE
  BY <1>1 DEF XdmRow
<1>3. xdm' \in [XRows -> XdmRow] /\ xdm'[i].name = v /\ xdm'[i].id = TRUE
      /\ \A j \in XRows \ {i} : xdm'[j] = xdm[j]
  BY <1>1, <1>2
<1>4. QED
  BY <1>1, <1>3, RowChange

LEMMA ReferCollectionSound ==
  ASSUME Sound, UNCHANGED actors, NEW i, NEW v \in SipIds \cup {Unset, Absent}, WriteXdm(i, "sip", v),
         UNCHANGED <<pres, lastId>>
  PROVE  Sound' /\ i \in XRows /\ xdm'[i].sip = v
<1>1. i \in XRows /\ xdm[i].id /\ xdm' = [xdm EXCEPT ![i].sip = v] /\ xdm \in [XRows -> XdmRow]
  BY TypeOfTables DEF WriteXdm, Stored, Sound
<1>2. [xdm[i] EXCEPT !.sip = v] \in XdmRow /\ [xdm[i] EXCEPT !.sip = v].name = xdm[i].name
      /\ [xdm[i] EXCEPT !.sip = v].id = TRUE /\ [xdm[i] EXCEPT !.sip = v].sip = v
  BY <1>1 DEF XdmRow
<1>3. xdm' \in [XRows -> XdmRow] /\ xdm'[i].name = xdm[i].name /\ xdm'[i].id = TRUE
      /\ xdm'[i].sip = v /\ \A j \in XRows \ {i} : xdm'[j] = xdm[j]
  BY <1>1, <1>2
<1>4. QED
  BY <1>1, <1>3, RowChange

-----------------------------------------------------------------------------
(* Device management. *)

Replies == [cmd : {"none", "other", "rollback", "list", "add", "delete", "fetch", "update"},
            status : Status, tree : Trees, id : {Unset, Failed} \cup Digits, col : Columns,
            name : Name \cup {NoName}, ref : SipIds \cup XRows \cup {Unset, Absent},
            ids : SUBSET Digits]
Caches  == [id : PIds \cup {Unset}, set : PresSet]
Luids   == {Unset, Failed} \cup Digits

LEMMA TypeOfDm ==
  DmTypeOK <=> luid \in [Trees -> [Bases -> Luids]] /\ cache \in Caches /\ reply \in Replies
BY DEF DmTypeOK, Luids, Caches, Replies, PresSet

(* The adapter keeps its set, forgets it, or reads one; and answers with   *)
(* what it keeps.                                                          *)
CacheMoves == \/ cache' = cache
              \/ cache'.id = Unset
              \/ UNCHANGED pres /\ cache'.id \in Sets /\ cache'.set = pres[cache'.id]
FromCache  == reply.cmd = "fetch" /\ reply.tree = "pres" /\ reply.status = "EOk" =>
                 /\ reply.id = cache.id /\ reply.name = cache.set.name
                 /\ reply.ref # Unset => reply.ref = cache.set[reply.col]

(* What a command of device management does to the tables and the adapter. *)
Managed == /\ Sound' /\ DmTypeOK' /\ lastId' >= lastId
           /\ CacheMoves /\ FromCache'
           /\ reply'.cmd = "update" => UpdateSound

LEMMA AnswerType ==
  ASSUME NEW cmd \in {"none", "other", "rollback", "list", "add", "delete", "fetch", "update"},
         NEW t \in Trees, NEW i \in Luids, NEW s \in Status
  PROVE  /\ Answer(cmd, t, i, s) \in Replies
         /\ Answer(cmd, t, i, s) =
              [cmd |-> cmd, status |-> s, tree |-> t, id |-> i, col |-> "other",
               name |-> NoName, ref |-> Unset, ids |-> {}]
<1> DEFINE a == [cmd |-> cmd, status |-> s, tree |-> t, id |-> i, col |-> "other",
                 name |-> NoName, ref |-> Unset, ids |-> {}]
<1> DEFINE a1 == [NoReply EXCEPT !.cmd = cmd]
           a2 == [a1 EXCEPT !.tree = t]
           a3 == [a2 EXCEPT !.id = i]
<1>1. Answer(cmd, t, i, s) = a
  <2>1. Answer(cmd, t, i, s) = [a3 EXCEPT !.status = s]
    BY DEF Answer
  <2>2. a1 =
           [cmd |-> cmd, status |-> "EOk", tree |-> "pres", id |-> Unset, col |-> "other",
            name |-> NoName, ref |-> Unset, ids |-> {}]
    BY DEF NoReply
  <2>3. a2 = [cmd |-> cmd, status |-> "EOk", tree |-> t, id |-> Unset, col |-> "other",
              name |-> NoName, ref |-> Unset, ids |-> {}]
    <3> HIDE DEF a1
    <3>1. QED
      BY <2>2
  <2>4. a3 = [cmd |-> cmd, status |-> "EOk", tree |-> t, id |-> i, col |-> "other",
              name |-> NoName, ref |-> Unset, ids |-> {}]
    <3> HIDE DEF a2
    <3>1. QED
      BY <2>3
  <2> HIDE DEF a3
  <2>5. QED
    BY <2>1, <2>4
<1>2. "other" \in Columns /\ {} \in SUBSET Digits
  BY DEF Columns
<1>3. a \in Replies
  BY <1>2 DEF Replies, Luids
<1>4. QED
  BY <1>1, <1>3

LEMMA NoReplyType == NoReply \in Replies /\ NoReply.cmd = "none"
BY DEF NoReply, Replies, Columns, Status, Trees

LEMMA NodeFacts ==
  ASSUME NEW n \in Nodes
  PROVE  /\ n.digits \in Luids
         /\ n.digits = Unset => n.base \in Bases
<1>1. Digits \in SUBSET Nat
  BY BoundAssumption DEF Digits, XRows, PIds
<1>2. QED
  BY <1>1 DEF Nodes, Luids, Unset

LEMMA LuidFacts ==
  ASSUME DmTypeOK, NEW n \in Nodes, NEW t \in Trees
  PROVE  GetLuid(t, n) \in Luids /\ Target(n) \in Luids
<1>1. Unset \in Luids /\ "xdm" \in Trees
  BY DEF Luids, Trees
<1>2. QED
  BY <1>1, NodeFacts, TypeOfDm DEF GetLuid, Target

LEMMA MappingType ==
  ASSUME DmTypeOK, NEW n \in Nodes, NEW t \in Trees, NEW i \in Luids, SetMapping(t, n, i)
  PROVE  luid' \in [Trees -> [Bases -> Luids]]
<1>1. luid \in [Trees -> [Bases -> Luids]]
  BY TypeOfDm
<1>2. CASE n.digits = Unset
  <2>1. luid' = [luid EXCEPT ![t] = [@ EXCEPT ![n.base] = i]]
    BY <1>2 DEF SetMapping
  <2>2. [luid[t] EXCEPT ![n.base] = i] \in [Bases -> Luids]
    BY <1>1
  <2>3. QED
    BY <1>1, <2>1, <2>2
<1>3. CASE n.digits # Unset
  BY <1>1, <1>3 DEF SetMapping
<1>4. QED
  BY <1>2, <1>3

(* A command that answers, and changes the tables soundly. *)
LEMMA AnsweredManaged ==
  ASSUME DmTypeOK, Sound', lastId' >= lastId, luid' \in [Trees -> [Bases -> Luids]],
         UNCHANGED cache, reply' \in Replies, reply'.cmd # "update",
         reply'.cmd # "fetch" \/ reply'.tree = "xdm"
  PROVE  Managed
<1>1. DmTypeOK'
  BY DEF DmTypeOK, Luids, Caches, Replies, PresSet
<1>2. CacheMoves /\ FromCache'
  BY DEF CacheMoves, FromCache
<1>3. QED
  BY <1>1, <1>2 DEF Managed

(* A command that answers an update. *)
LEMMA UpdatedManaged ==
  ASSUME DmTypeOK, Sound', lastId' >= lastId, UNCHANGED <<luid, cache>>,
         reply' \in Replies, reply'.cmd # "fetch", UpdateSound
  PROVE  Managed
<1>1. DmTypeOK'
  BY DEF DmTypeOK, Luids, Caches, Replies, PresSet
<1>2. CacheMoves /\ FromCache'
  BY DEF CacheMoves, FromCache
<1>3. QED
  BY <1>1, <1>2 DEF Managed

LEMMA SoundSame ==
  ASSUME Sound, UNCHANGED actors, UNCHANGED tables
  PROVE  Sound' /\ lastId' >= lastId
<1>1. lastId' = lastId /\ lastId \in Nat
  BY BoundAssumption DEF tables, Sound, TablesTypeOK
<1>2. Sound'
  BY DEF tables, Sound, TablesTypeOK, UniqueNames, Blank, Sets, Named, Stored, Full, Reused
<1>3. QED
  BY <1>1, <1>2

LEMMA LastIdGrows ==
  ASSUME Sound, UNCHANGED actors, lastId' = lastId \/ lastId' = lastId + 1
  PROVE  lastId' >= lastId
<1>1. lastId \in Int
  BY DEF Sound, TablesTypeOK
<1>2. QED
  BY <1>1

LEMMA DmRefusesManaged ==
  ASSUME Sound, UNCHANGED actors, DmTypeOK, DmRefuses
  PROVE  Managed
<1>1. PICK t \in Trees : Unsupported(t) \/ RollbackAtomicL(t)
  BY DEF DmRefuses
<1>2. Sound' /\ lastId' >= lastId /\ UNCHANGED <<luid, cache>>
  BY <1>1, SoundSame DEF Unsupported, RollbackAtomicL
<1>3. PICK cmd \in {"other", "rollback"}, s \in {"EError", "EOk"} : reply' = Answer(cmd, t, Unset, s)
  BY <1>1 DEF Unsupported, RollbackAtomicL, ReplyWith
<1>4. reply' \in Replies /\ reply'.cmd \notin {"update", "fetch"}
  <2>1. Unset \in Luids /\ s \in Status
    BY DEF Luids, Status
  <2>2. QED
    BY <1>3, <2>1, AnswerType
<1>5. luid' \in [Trees -> [Bases -> Luids]]
  BY <1>2, TypeOfDm
<1>6. QED
  BY <1>2, <1>4, <1>5, AnsweredManaged

LEMMA ChildUriManaged ==
  ASSUME Sound, UNCHANGED actors, DmTypeOK, ChildUriPres \/ ChildUriXdm
  PROVE  Managed
<1>1. Sound' /\ lastId' >= lastId /\ UNCHANGED <<luid, cache>>
  BY SoundSame DEF ChildUriPres, ChildUriXdm
<1>2. Sets \in SUBSET Digits /\ CollectionIds \in SUBSET Digits
  BY DEF Sets, Digits, CollectionIds, Stored
<1>3. PICK t \in Trees, S \in SUBSET Digits : reply' = [Answer("list", t, Unset, "EOk") EXCEPT !.ids = S]
  BY <1>2 DEF ChildUriPres, ChildUriXdm, Trees
<1>4. Answer("list", t, Unset, "EOk") \in Replies /\ Answer("list", t, Unset, "EOk").cmd = "list"
  <2>1. Unset \in Luids /\ "EOk" \in Status
    BY DEF Luids, Status
  <2>2. QED
    BY <2>1, AnswerType
<1>5. reply' \in Replies /\ reply'.cmd = "list"
  BY <1>3, <1>4 DEF Replies
<1>6. luid' \in [Trees -> [Bases -> Luids]]
  BY <1>1, TypeOfDm
<1>7. QED
  BY <1>1, <1>5, <1>6, AnsweredManaged

LEMMA DmPanicsManaged ==
  ASSUME Sound, UNCHANGED actors, DmTypeOK, DmPanics
  PROVE  Managed
<1>1. Sound' /\ lastId' >= lastId /\ UNCHANGED luid
  BY SoundSame DEF DmPanics
<1>2. cache' = [id |-> Unset, set |-> NewSet] /\ reply' = NoReply
  BY DEF DmPanics
<1>3. cache' \in Caches /\ cache'.id = Unset
  BY <1>2 DEF Caches, NewSet, PresSet
<1>4. DmTypeOK'
  BY <1>1, <1>2, <1>3, NoReplyType DEF DmTypeOK, Luids, Caches, Replies, PresSet
<1>5. CacheMoves /\ FromCache' /\ reply'.cmd = "none"
  BY <1>2, <1>3, NoReplyType DEF CacheMoves, FromCache
<1>6. QED
  BY <1>1, <1>4, <1>5 DEF Managed

(* A presence set that is fetched is the one in the cache, or exists. *)
LEMMA FetchPresManaged ==
  ASSUME Sound, UNCHANGED actors, DmTypeOK, NEW n \in Nodes, NEW col \in Columns, FetchPres(n, col)
  PROVE  Managed
<1> DEFINE i    == GetLuid("pres", n)
           set  == GetPropertyL(i)
<1>1. Sound' /\ lastId' >= lastId /\ UNCHANGED luid
  BY SoundSame DEF FetchPres
<1>2. i \in Luids
  BY LuidFacts DEF Trees
<1>3. cache \in Caches /\ pres \in [PIds -> PresSet]
  BY TypeOfDm, TypeOfTables DEF Sound
<1>4. ASSUME Cached(i) \/ Valid(i)
      PROVE  i \in PIds \cup {Unset} /\ set \in PresSet
  <2>1. CASE Cached(i)
    BY <1>3, <2>1 DEF Cached, Caches, GetPropertyL
  <2>2. CASE Valid(i) /\ ~Cached(i)
    BY <1>3, <2>2 DEF Valid, Sets, GetPropertyL
  <2>3. QED
    BY <1>4, <2>1, <2>2
<1>5. \A s \in Status : /\ Answer("fetch", "pres", i, s) \in Replies
                        /\ Answer("fetch", "pres", i, s).cmd = "fetch"
  <2>1. "pres" \in Trees
    BY DEF Trees
  <2>2. QED
    BY <1>2, <2>1, AnswerType
<1>6. cache' \in Caches /\ CacheMoves
  <2>1. CASE cache' = cache
    BY <1>3, <2>1 DEF CacheMoves
  <2>2. CASE (Cached(i) \/ Valid(i)) /\ cache' = [id |-> i, set |-> set]
    <3>1. cache' \in Caches /\ cache'.id = i /\ cache'.set = set
      BY <1>4, <2>2 DEF Caches
    <3>2. CASE Cached(i)
      <4>1. cache = [id |-> i, set |-> set]
        BY <1>3, <3>2 DEF Caches, Cached, GetPropertyL
      <4>2. QED
        BY <2>2, <3>1, <4>1 DEF CacheMoves
    <3>3. CASE ~Cached(i) /\ Valid(i)
      <4>1. set = pres[i] /\ i \in Sets /\ UNCHANGED pres
        BY <3>3 DEF GetPropertyL, Valid, FetchPres, tables
      <4>2. QED
        BY <3>1, <4>1 DEF CacheMoves
    <3>4. QED
      BY <2>2, <3>2, <3>3
  <2>3. QED
    BY <2>1, <2>2 DEF FetchPres
<1>7. reply' \in Replies /\ reply'.cmd = "fetch" /\ FromCache'
  <2>1. {"left", "ENotFound", "EOk"} \in SUBSET Status
    BY DEF Status
  <2>2. ASSUME NEW s \in {"left", "ENotFound"}, reply' = Answer("fetch", "pres", i, s)
        PROVE  reply' \in Replies /\ reply'.cmd = "fetch" /\ reply'.status = s
    BY <1>2, <2>1, <2>2, AnswerType DEF Trees
  <2>3. ASSUME Cached(i) \/ Valid(i), cache' = [id |-> i, set |-> set], NEW ref,
               ref = Unset \/ (ref = set.sip /\ col = "sip")
                           \/ (ref = set.xdm /\ col = "xdm" /\ ref \in XRows),
               reply' = [Answer("fetch", "pres", i, "EOk") EXCEPT
                   !.col = col, !.name = set.name, !.ref = ref]
        PROVE  reply' \in Replies /\ reply'.cmd = "fetch" /\ FromCache'
    <3> DEFINE a == Answer("fetch", "pres", i, "EOk")
    <3>1. a \in Replies /\ a.cmd = "fetch" /\ a.id = i
      BY <1>2, <2>1, AnswerType DEF Trees
    <3>2. set.name \in Name \cup {NoName} /\ ref \in SipIds \cup XRows \cup {Unset, Absent}
      BY <1>4, <2>3 DEF PresSet
    <3>3. reply' = [a EXCEPT !.col = col, !.name = set.name, !.ref = ref]
      BY <2>3
    <3>4. cache'.id = i /\ cache'.set = set
      BY <2>3
    <3> HIDE DEF a, set, i
    <3>5. /\ reply' \in Replies /\ reply'.cmd = "fetch" /\ reply'.id = i
          /\ reply'.name = set.name /\ reply'.ref = ref /\ reply'.col = col
      BY <3>1, <3>2, <3>3 DEF Replies
    <3>6. QED
      BY <2>3, <3>4, <3>5 DEF FromCache
  <2>4. CollectionIds \subseteq XRows
    BY DEF CollectionIds, Stored
  <2> DEFINE found == CASE col = "sip" -> set.sip
                        [] col = "xdm" /\ set.xdm \in CollectionIds -> set.xdm
                        [] OTHER       -> Unset
  <2>5. found = Unset \/ (found = set.sip /\ col = "sip")
                      \/ (found = set.xdm /\ col = "xdm" /\ found \in XRows)
    <3> HIDE DEF set
    <3>1. CASE col = "sip"
      BY <3>1
    <3>2. CASE col = "xdm" /\ set.xdm \in CollectionIds
      BY <2>4, <3>2
    <3>3. CASE col # "sip" /\ ~(col = "xdm" /\ set.xdm \in CollectionIds)
      BY <3>3
    <3>4. QED
      BY <3>1, <3>2, <3>3
  <2>6. CASE \E s \in {"left", "ENotFound"} : reply' = Answer("fetch", "pres", i, s)
    BY <2>2, <2>6 DEF FromCache
  <2>7. CASE /\ Cached(i) \/ Valid(i)
             /\ cache' = [id |-> i, set |-> set]
             /\ reply' = [Answer("fetch", "pres", i, "EOk") EXCEPT
                   !.col = col, !.name = set.name, !.ref = found]
    <3> HIDE DEF found
    <3>1. QED
      BY <2>3, <2>5, <2>7
  <2>8. QED
    BY <2>6, <2>7 DEF FetchPres, ReplyWith
<1>8. luid' \in [Trees -> [Bases -> Luids]]
  BY <1>1, TypeOfDm
<1>9. DmTypeOK'
  BY <1>6, <1>7, <1>8 DEF DmTypeOK, Luids, Caches, Replies, PresSet
<1>10. QED
  BY <1>1, <1>6, <1>7, <1>9 DEF Managed

LEMMA FetchXdmManaged ==
  ASSUME Sound, UNCHANGED actors, DmTypeOK, NEW n \in Nodes, NEW col \in Columns, FetchXdm(n, col)
  PROVE  Managed
<1> DEFINE i   == Target(n)
           row == xdm[i]
           a   == Answer("fetch", "xdm", i, "EOk")
<1>1. Sound' /\ lastId' >= lastId /\ UNCHANGED <<luid, cache>>
  BY SoundSame DEF FetchXdm
<1>2. i \in Luids /\ "xdm" \in Trees
  BY LuidFacts DEF Trees
<1>3. "EOk" \in Status /\ "ENotFound" \in Status
  BY DEF Status
<1>4. xdm \in [XRows -> XdmRow]
  BY TypeOfTables DEF Sound
<1>5. reply' \in Replies /\ reply'.cmd = "fetch" /\ reply'.tree = "xdm"
  <2>1. CASE reply' = Answer("fetch", "xdm", i, "ENotFound")
    BY <1>2, <1>3, <2>1, AnswerType
  <2>2. CASE i \in Stored /\ reply' = [a EXCEPT !.col = col, !.name = row.name, !.ref = row.sip]
    <3>1. a \in Replies /\ a.cmd = "fetch" /\ a.tree = "xdm"
      BY <1>2, <1>3, AnswerType
    <3>2. row.name \in Name \cup {NoName} /\ row.sip \in SipIds \cup XRows \cup {Unset, Absent}
      BY <1>4, <2>2 DEF Stored, XdmRow
    <3> HIDE DEF a, row
    <3>3. QED
      BY <2>2, <3>1, <3>2 DEF Replies
  <2>3. QED
    BY <2>1, <2>2 DEF FetchXdm, ReplyWith
<1>6. luid' \in [Trees -> [Bases -> Luids]]
  BY <1>1, TypeOfDm
<1>7. QED
  BY <1>1, <1>5, <1>6, AnsweredManaged

LEMMA AddNodePresManaged ==
  ASSUME Sound, UNCHANGED actors, DmTypeOK, NEW n \in Nodes, AddNodePres(n)
  PROVE  Managed
<1> DEFINE v == FreeName(Plain(n.base), SetNames)
           p == [NewSet EXCEPT !.name = v]
<1>1. n.base \in Bases
  BY NodeFacts DEF AddNodePres
<1>2. v \in Name \ SetNames
  BY <1>1, NameFacts, NewSetName DEF Sound
<1>3. p \in PresSet /\ p.name = v
  <2> HIDE DEF v
  <2>1. QED
    BY <1>2 DEF NewSet, PresSet
<1>4. UNCHANGED <<xdm, cache>>
  BY DEF AddNodePres
<1>5. CASE CreateSetL(p) /\ SetMapping("pres", n, lastId + 1)
           /\ ReplyWith("add", "pres", lastId + 1, "EOk")
  <2>1. Sound' /\ lastId + 1 \in PIds /\ lastId' = lastId + 1
    <3> HIDE DEF p
    <3>1. QED
      BY <1>2, <1>3, <1>4, <1>5, CreateSetSound
  <2>2. lastId + 1 \in Luids /\ "pres" \in Trees /\ "EOk" \in Status
    BY <2>1 DEF Luids, Digits, Trees, Status
  <2>3. luid' \in [Trees -> [Bases -> Luids]]
    BY <1>5, <2>2, MappingType
  <2>4. reply' \in Replies /\ reply'.cmd = "add"
    BY <1>5, <2>2, AnswerType DEF ReplyWith
  <2>5. QED
    BY <1>4, <2>1, <2>3, <2>4, LastIdGrows, AnsweredManaged
<1>6. CASE CreateSetFails /\ UNCHANGED luid /\ ReplyWith("add", "pres", Unset, "left")
  <2>1. Sound' /\ lastId' = lastId + 1
    BY <1>4, <1>6, CreateFailsSound
  <2>2. Unset \in Luids /\ "pres" \in Trees /\ "left" \in Status
    BY DEF Luids, Trees, Status
  <2>3. luid' \in [Trees -> [Bases -> Luids]]
    BY <1>6, TypeOfDm
  <2>4. reply' \in Replies /\ reply'.cmd = "add"
    BY <1>6, <2>2, AnswerType DEF ReplyWith
  <2>5. QED
    BY <1>4, <2>1, <2>3, <2>4, LastIdGrows, AnsweredManaged
<1>7. QED
  BY <1>5, <1>6 DEF AddNodePres

LEMMA AddNodeXdmManaged ==
  ASSUME Sound, UNCHANGED actors, DmTypeOK, NEW n \in Nodes, AddNodeXdm(n)
  PROVE  Managed
<1>1. EmptyRow.name \in {NoName} \cup (Name \ CollectionNames)
      /\ EmptyRow.name \in Name \cup {NoName}
      /\ EmptyRow.sip \in SipIds \cup {Unset, Absent}
  BY DEF EmptyRow
<1>2. PICK lost \in Losses : /\ CreateCollectionL(EmptyRow, lost)
                             /\ SetMapping("xdm", n, Created(lost))
                             /\ ReplyWith("add", "xdm", Created(lost), "EOk")
  BY DEF AddNodeXdm
<1>3. UNCHANGED <<pres, lastId, cache>>
  BY DEF AddNodeXdm
<1>4. Sound' /\ Created(lost) \in XRows \cup {Failed}
  BY <1>1, <1>2, <1>3, CreateCollectionSound
<1>5. Created(lost) \in Luids /\ "xdm" \in Trees /\ "EOk" \in Status
  BY <1>4 DEF Luids, Digits, Trees, Status
<1>6. luid' \in [Trees -> [Bases -> Luids]]
  BY <1>2, <1>5, MappingType
<1>7. reply' \in Replies /\ reply'.cmd = "add"
  BY <1>2, <1>5, AnswerType DEF ReplyWith
<1>8. QED
  BY <1>3, <1>4, <1>6, <1>7, LastIdGrows, AnsweredManaged

LEMMA DeletePresManaged ==
  ASSUME Sound, UNCHANGED actors, DmTypeOK, NEW n \in Nodes, DeletePres(n)
  PROVE  Managed
<1> DEFINE i == GetLuid("pres", n)
<1>1. i \in Luids /\ "pres" \in Trees /\ Unset \in Luids
  BY LuidFacts DEF Trees, Luids
<1>2. UNCHANGED <<xdm, cache>>
  BY DEF DeletePres
<1>3. CASE RemoveSetL(i) /\ SetMapping("pres", n, Unset) /\ ReplyWith("delete", "pres", i, "EOk")
  <2>1. Sound' /\ lastId' = lastId
    BY <1>2, <1>3, RemoveSetSound
  <2>2. luid' \in [Trees -> [Bases -> Luids]]
    BY <1>1, <1>3, MappingType
  <2>3. reply' \in Replies /\ reply'.cmd = "delete"
    BY <1>1, <1>3, AnswerType DEF ReplyWith, Status
  <2>4. QED
    BY <1>2, <2>1, <2>2, <2>3, LastIdGrows, AnsweredManaged
<1>4. CASE UNCHANGED <<pres, lastId, luid>>
           /\ \E s \in {"left", "EError"} : ReplyWith("delete", "pres", i, s)
  <2>1. Sound' /\ lastId' >= lastId
    BY <1>2, <1>4, SoundSame DEF tables
  <2>2. luid' \in [Trees -> [Bases -> Luids]]
    BY <1>4, TypeOfDm
  <2>3. reply' \in Replies /\ reply'.cmd = "delete"
    BY <1>1, <1>4, AnswerType DEF ReplyWith, Status
  <2>4. QED
    BY <1>2, <2>1, <2>2, <2>3, AnsweredManaged
<1>5. QED
  BY <1>3, <1>4 DEF DeletePres

LEMMA DeleteXdmManaged ==
  ASSUME Sound, UNCHANGED actors, DmTypeOK, NEW n \in Nodes, DeleteXdm(n)
  PROVE  Managed
<1> DEFINE i == Target(n)
<1>1. i \in Luids /\ "xdm" \in Trees /\ Unset \in Luids
  BY LuidFacts DEF Trees, Luids
<1>2. UNCHANGED <<pres, lastId, cache>>
  BY DEF DeleteXdm
<1>3. CASE RemoveCollectionL(i) /\ SetMapping("xdm", n, Unset)
           /\ ReplyWith("delete", "xdm", i, "EOk")
  <2>1. Sound'
    BY <1>2, <1>3, RemoveCollectionSound
  <2>2. luid' \in [Trees -> [Bases -> Luids]]
    BY <1>1, <1>3, MappingType
  <2>3. reply' \in Replies /\ reply'.cmd = "delete"
    BY <1>1, <1>3, AnswerType DEF ReplyWith, Status
  <2>4. QED
    BY <1>2, <2>1, <2>2, <2>3, LastIdGrows, AnsweredManaged
<1>4. CASE UNCHANGED <<xdm, luid>> /\ ReplyWith("delete", "xdm", i, "EError")
  <2>1. Sound' /\ lastId' >= lastId
    BY <1>2, <1>4, SoundSame DEF tables
  <2>2. luid' \in [Trees -> [Bases -> Luids]]
    BY <1>4, TypeOfDm
  <2>3. reply' \in Replies /\ reply'.cmd = "delete"
    BY <1>1, <1>4, AnswerType DEF ReplyWith, Status
  <2>4. QED
    BY <1>2, <2>1, <2>2, <2>3, AnsweredManaged
<1>5. QED
  BY <1>3, <1>4 DEF DeleteXdm

(* What an update answers: the column it is about, and what it was given.  *)
NameAnswer(t, i, v)     == [Answer("update", t, i, "EOk") EXCEPT !.col = "name", !.name = v]
RefAnswer(t, i, col, v) == [Answer("update", t, i, "EOk") EXCEPT !.col = col, !.ref = v]

LEMMA NameReply ==
  ASSUME NEW t \in Trees, NEW i \in Luids, NEW v \in Name
  PROVE  LET r == NameAnswer(t, i, v) IN
         /\ r \in Replies /\ r.cmd = "update" /\ r.tree = t /\ r.id = i
         /\ r.status = "EOk" /\ r.col = "name" /\ r.name = v
<1> DEFINE a == Answer("update", t, i, "EOk")
           c == [a EXCEPT !.col = "name"]
<1>1. /\ a \in Replies /\ a.cmd = "update" /\ a.tree = t /\ a.id = i /\ a.status = "EOk"
      /\ "name" \in Columns
  BY AnswerType DEF Columns, Status
<1>2. /\ c \in Replies /\ c.cmd = "update" /\ c.tree = t /\ c.id = i /\ c.status = "EOk"
      /\ c.col = "name"
  <2> HIDE DEF a
  <2>1. QED
    BY <1>1 DEF Replies
<1>3. NameAnswer(t, i, v) = [c EXCEPT !.name = v]
  BY DEF NameAnswer
<1> HIDE DEF c
<1>4. QED
  BY <1>2, <1>3 DEF Replies

LEMMA RefReply ==
  ASSUME NEW t \in Trees, NEW i \in Luids, NEW col \in {"sip", "xdm"},
         NEW v \in SipIds \cup XRows \cup {Unset}
  PROVE  LET r == RefAnswer(t, i, col, v) IN
         /\ r \in Replies /\ r.cmd = "update" /\ r.tree = t /\ r.id = i
         /\ r.status = "EOk" /\ r.col = col /\ r.ref = v
<1> DEFINE a == Answer("update", t, i, "EOk")
           c == [a EXCEPT !.col = col]
<1>1. /\ a \in Replies /\ a.cmd = "update" /\ a.tree = t /\ a.id = i /\ a.status = "EOk"
      /\ col \in Columns
  BY AnswerType DEF Columns, Status
<1>2. /\ c \in Replies /\ c.cmd = "update" /\ c.tree = t /\ c.id = i /\ c.status = "EOk"
      /\ c.col = col
  <2> HIDE DEF a
  <2>1. QED
    BY <1>1 DEF Replies
<1>3. RefAnswer(t, i, col, v) = [c EXCEPT !.ref = v]
  BY DEF RefAnswer
<1> HIDE DEF c
<1>4. QED
  BY <1>2, <1>3 DEF Replies

(* The answer to a write that found no set is not EOk.                     *)
LEMMA WroteFacts ==
  ASSUME NEW i
  PROVE  Wrote(i) \in Status /\ (i \notin Sets => Wrote(i) # "EOk")
BY DEF Wrote, Status

(* A set whose update failed is gone.                                      *)
LEMMA UpdateFailsSound ==
  ASSUME Sound, UNCHANGED actors, NEW i, UpdatePresFails(i), UNCHANGED xdm
  PROVE  /\ Sound' /\ lastId' = lastId
         /\ \A j \in PIds : pres'[j] = pres[j] \/ (j = i /\ pres'[j] = NewSet)
<1>1. RemoveSetL(i)
  BY DEF UpdatePresFails
<1>2. pres \in [PIds -> PresSet] /\ pres' = [pres EXCEPT ![i] = NewSet]
  BY <1>1, TypeOfTables DEF Sound, RemoveSetL
<1>3. QED
  BY <1>1, <1>2, RemoveSetSound

(* A write to one column of a presence set, and its answer.                *)
LEMMA WrittenManaged ==
  ASSUME Sound, UNCHANGED actors, DmTypeOK, UNCHANGED <<xdm, luid, cache>>,
         NEW i, NEW col \in {"name", "sip", "xdm"}, NEW v, NEW r \in Replies,
         r.cmd = "update", r.tree = "pres", r.id = i, r.col = col,
         UpdatePresL(i, col, v) =>
            /\ Sound' /\ lastId' = lastId
            /\ IF col = "name" THEN pres'[i].name.base = r.name.base ELSE pres'[i][col] = r.ref,
         Written(i, col, v, r)
  PROVE  Managed
<1>1. ASSUME NEW s \in Status, reply' = [r EXCEPT !.status = s]
      PROVE  /\ reply' \in Replies /\ reply'.cmd = "update" /\ reply'.tree = "pres"
             /\ reply'.id = i /\ reply'.col = col /\ reply'.name = r.name
             /\ reply'.ref = r.ref /\ reply'.status = s
  BY <1>1 DEF Replies
<1>2. {"EOk", "EError"} \in SUBSET Status
  BY DEF Status
<1>3. CASE UpdatePresL(i, col, v) /\ reply' = [r EXCEPT !.status = "EOk"]
  <2>1. PICK s \in Status : s = "EOk" /\ reply' = [r EXCEPT !.status = s]
    BY <1>2, <1>3
  <2>2. /\ reply' \in Replies /\ reply'.cmd = "update" /\ reply'.tree = "pres"
        /\ reply'.id = i /\ reply'.col = col /\ reply'.name = r.name
        /\ reply'.ref = r.ref /\ reply'.status = "EOk"
    BY <1>1, <2>1
  <2>3. Holds'
    BY <1>3, <2>2 DEF Holds
  <2>4. UpdateSound
    BY <2>2, <2>3 DEF UpdateSound
  <2>5. QED
    BY <1>3, <2>2, <2>4, LastIdGrows, UpdatedManaged
<1>4. CASE UpdatePresFails(i) /\ reply' = [r EXCEPT !.status = "EError"]
  <2>1. PICK s \in Status : s = "EError" /\ reply' = [r EXCEPT !.status = s]
    BY <1>2, <1>4
  <2>2. reply' \in Replies /\ reply'.cmd = "update" /\ reply'.id = i /\ reply'.status = "EError"
    BY <1>1, <2>1
  <2>3. /\ Sound' /\ lastId' = lastId
        /\ \A j \in PIds : pres'[j] = pres[j] \/ (j = i /\ pres'[j] = NewSet)
    BY <1>4, UpdateFailsSound
  <2>4. UpdateSound
    BY <2>2, <2>3 DEF UpdateSound
  <2>5. QED
    BY <2>2, <2>3, <2>4, LastIdGrows, UpdatedManaged
<1>5. CASE i \notin Sets /\ UNCHANGED <<pres, lastId>> /\ reply' = [r EXCEPT !.status = Wrote(i)]
  <2>1. /\ reply' \in Replies /\ reply'.cmd = "update" /\ reply'.id = i
        /\ reply'.status # "EOk"
    BY <1>1, <1>5, WroteFacts
  <2>2. Sound' /\ lastId' >= lastId
    BY <1>5, SoundSame DEF tables
  <2>3. UpdateSound
    BY <1>5, <2>1 DEF UpdateSound
  <2>4. QED
    BY <2>1, <2>2, <2>3, UpdatedManaged
<1>6. QED
  BY <1>3, <1>4, <1>5 DEF Written

LEMMA UpdatePresNameManaged ==
  ASSUME Sound, UNCHANGED actors, DmTypeOK, NEW n \in Nodes, NEW b \in Bases, UpdatePresName(n, b),
         UNCHANGED <<xdm, luid, cache>>
  PROVE  Managed
<1> DEFINE i == GetLuid("pres", n)
           v == FreeName(Plain(b), SetNames)
<1>1. i \in Luids /\ "pres" \in Trees /\ "name" \in Columns
  BY LuidFacts DEF Trees, Columns
<1>2. Plain(b) \in Name /\ v \in Name \ SetNames /\ v.base = Plain(b).base
  BY NameFacts, NewSetName DEF Sound
<1>3. PICK t \in Trees : t = "pres"
  BY <1>1
<1> DEFINE r == NameAnswer(t, i, Plain(b))
<1>4. Written(i, "name", v, r)
  BY <1>3 DEF UpdatePresName, NameAnswer
<1> HIDE DEF i, v
<1>5. /\ r \in Replies /\ r.cmd = "update" /\ r.tree = "pres" /\ r.id = i
      /\ r.col = "name" /\ r.name = Plain(b)
  BY <1>1, <1>2, <1>3, NameReply
<1> HIDE DEF r
<1>6. PICK col \in {"name", "sip", "xdm"} : col = "name"
  OBVIOUS
<1>7. ASSUME UpdatePresL(i, col, v)
      PROVE  Sound' /\ lastId' = lastId /\ pres'[i].name = v
  BY <1>2, <1>6, <1>7, RenameSetSound
<1>8. Written(i, col, v, r) /\ r.col = col
  BY <1>4, <1>5, <1>6
<1>9. UpdatePresL(i, col, v) =>
         /\ Sound' /\ lastId' = lastId
         /\ IF col = "name" THEN pres'[i].name.base = r.name.base ELSE pres'[i][col] = r.ref
  BY <1>2, <1>5, <1>6, <1>7
<1>10. QED
  BY <1>5, <1>8, <1>9, WrittenManaged

(* An answer to an update that is not about a column, or not EOk.          *)
LEMMA OtherUpdateManaged ==
  ASSUME Sound, UNCHANGED actors, DmTypeOK, NEW t \in Trees, NEW i \in Luids, NEW s \in Status,
         UNCHANGED <<tables, luid, cache>>, ReplyWith("update", t, i, s)
  PROVE  Managed
<1>1. Sound' /\ lastId' >= lastId
  BY SoundSame
<1>2. reply' \in Replies /\ reply'.cmd = "update" /\ reply'.col = "other"
  BY AnswerType DEF ReplyWith
<1>3. UpdateSound
  BY <1>2 DEF UpdateSound, Holds, tables
<1>4. QED
  BY <1>1, <1>2, <1>3, UpdatedManaged

(* An answer to a write of another column that failed.                     *)
LEMMA DataFailsManaged ==
  ASSUME Sound, UNCHANGED actors, DmTypeOK, UNCHANGED <<xdm, luid, cache>>, NEW i \in Luids,
         UpdatePresFails(i), ReplyWith("update", "pres", i, "EError")
  PROVE  Managed
<1>1. PICK t \in Trees, s \in Status : t = "pres" /\ s = "EError"
  BY DEF Trees, Status
<1>2. reply' = Answer("update", t, i, s)
  BY <1>1 DEF ReplyWith
<1>3. reply' \in Replies /\ reply'.cmd = "update" /\ reply'.id = i /\ reply'.status = s
  BY <1>2, AnswerType
<1>4. /\ Sound' /\ lastId' = lastId
      /\ \A j \in PIds : pres'[j] = pres[j] \/ (j = i /\ pres'[j] = NewSet)
  BY UpdateFailsSound
<1>5. UpdateSound
  BY <1>1, <1>3, <1>4 DEF UpdateSound
<1>6. QED
  BY <1>3, <1>4, <1>5, LastIdGrows, UpdatedManaged

LEMMA UpdatePresRefManaged ==
  ASSUME Sound, UNCHANGED actors, DmTypeOK, NEW n \in Nodes, NEW col \in {"sip", "xdm"}, UpdatePresRef(n, col),
         UNCHANGED <<xdm, luid, cache>>
  PROVE  Managed
<1> DEFINE i == GetLuid("pres", n)
           V == IF col = "sip" THEN SipIdsFromConRef ELSE XdmIdsFromConRef
<1>0. PICK t \in Trees : t = "pres"
  BY DEF Trees
<1>1. i \in Luids /\ "pres" \in Trees /\ "ENotFound" \in Status
  BY LuidFacts DEF Trees, Status
<1>2. V \in SUBSET (SipIds \cup XRows \cup {Unset})
      /\ V \in SUBSET ((IF col = "sip" THEN SipIds ELSE XRows \cup {Failed}) \cup {Unset})
  BY DEF SipIdsFromConRef, XdmIdsFromConRef
<1>3. CASE ReplyWith("update", "pres", i, "ENotFound") /\ UNCHANGED <<pres, lastId>>
  BY <1>1, <1>3, OtherUpdateManaged DEF tables
<1>4. ASSUME NEW v \in V, Written(i, col, v, RefAnswer(t, i, col, v))
      PROVE  Managed
  <2> HIDE DEF i, V
  <2> DEFINE q == RefAnswer(t, i, col, v)
  <2>1. v \in SipIds \cup XRows \cup {Unset}
        /\ v \in (IF col = "sip" THEN SipIds ELSE XRows \cup {Failed}) \cup {Unset}
    BY <1>2, <1>4
  <2>4. /\ q \in Replies /\ q.cmd = "update" /\ q.tree = "pres" /\ q.id = i
        /\ q.col = col /\ q.ref = v /\ Written(i, col, v, q)
    BY <1>0, <1>1, <1>4, <2>1, RefReply
  <2> HIDE DEF q
  <2>5. UpdatePresL(i, col, v) => Sound' /\ lastId' = lastId /\ pres'[i][col] = v
    BY <2>1, ReferSetSound
  <2>6. col # "name" /\ col \in {"name", "sip", "xdm"}
    OBVIOUS
  <2>7. UpdatePresL(i, col, v) =>
           /\ Sound' /\ lastId' = lastId
           /\ IF col = "name" THEN pres'[i].name.base = q.name.base ELSE pres'[i][col] = q.ref
    BY <2>4, <2>5, <2>6
  <2>8. QED
    BY <2>4, <2>6, <2>7, WrittenManaged
<1>5. QED
  <2>1. \/ \E v \in V : Written(i, col, v, RefAnswer(t, i, col, v))
        \/ ReplyWith("update", "pres", i, "ENotFound") /\ UNCHANGED <<pres, lastId>>
    BY <1>0 DEF UpdatePresRef, RefAnswer
  <2> HIDE DEF i, V
  <2>2. QED
    BY <1>3, <1>4, <2>1

LEMMA UpdatePresManaged ==
  ASSUME Sound, UNCHANGED actors, DmTypeOK, NEW n \in Nodes, UpdatePres(n)
  PROVE  Managed
<1> DEFINE i == GetLuid("pres", n)
<1>1. UNCHANGED <<xdm, luid, cache>>
  BY DEF UpdatePres
<1>2. i \in Luids /\ "pres" \in Trees
  BY LuidFacts DEF Trees
<1>3. {"EOk", "left", "EError", "ENotFound", "EInvalidObject"} \in SUBSET Status
      /\ Wrote(i) \in Status
  BY WroteFacts DEF Status
<1>4. ASSUME NEW b \in Bases, UpdatePresName(n, b) PROVE Managed
  BY <1>1, <1>4, UpdatePresNameManaged
<1>5. ASSUME UpdatePresData(n) PROVE Managed
  <2>1. CASE UpdatePresFails(i) /\ ReplyWith("update", "pres", i, "EError")
    BY <1>1, <1>2, <2>1, DataFailsManaged
  <2>2. CASE \E s \in {Wrote(i), "EInvalidObject", "ENotFound"} :
                ReplyWith("update", "pres", i, s) /\ UNCHANGED <<pres, lastId>>
    BY <1>1, <1>2, <1>3, <2>2, OtherUpdateManaged DEF tables
  <2>3. QED
    BY <1>5, <2>1, <2>2 DEF UpdatePresData
<1>6. ASSUME NEW col \in {"sip", "xdm"}, UpdatePresRef(n, col) PROVE Managed
  BY <1>1, <1>6, UpdatePresRefManaged
<1>7. ASSUME UNCHANGED <<pres, lastId>>,
             ReplyWith("update", "pres", i, IF NoKeys THEN "left" ELSE "ENotFound")
      PROVE  Managed
  BY <1>1, <1>2, <1>3, <1>7, OtherUpdateManaged DEF tables
<1>8. QED
  BY <1>4, <1>5, <1>6, <1>7 DEF UpdatePres

(* An answer to a write to a collection: what was written is there, or the *)
(* repository is full and took nothing.                                    *)
LEMMA XdmWrittenManaged ==
  ASSUME Sound, UNCHANGED actors, DmTypeOK, UNCHANGED <<pres, lastId, luid, cache>>,
         NEW i, reply' \in Replies, reply'.cmd = "update", reply'.tree = "xdm",
         reply'.id = i, reply'.col \in {"name", "sip"}, reply'.status = "EOk",
         \/ /\ Sound'
            /\ IF reply'.col = "name" THEN xdm'[i].name.base = reply'.name.base
               ELSE xdm'[i].sip = reply'.ref
         \/ Full /\ UNCHANGED xdm
  PROVE  Managed
<1>1. CASE Full /\ UNCHANGED xdm
  <2>1. Sound' /\ lastId' >= lastId
    BY <1>1, SoundSame DEF tables
  <2>2. UpdateSound
    BY <1>1 DEF UpdateSound, tables
  <2>3. QED
    BY <2>1, <2>2, UpdatedManaged
<1>2. CASE /\ Sound'
           /\ IF reply'.col = "name" THEN xdm'[i].name.base = reply'.name.base
              ELSE xdm'[i].sip = reply'.ref
  <2>1. Holds'
    BY <1>2 DEF Holds
  <2>2. UpdateSound
    BY <2>1 DEF UpdateSound
  <2>3. QED
    BY <1>2, <2>2, LastIdGrows, UpdatedManaged
<1>3. QED
  BY <1>1, <1>2

LEMMA UpdateXdmManaged ==
  ASSUME Sound, UNCHANGED actors, DmTypeOK, NEW n \in Nodes, UpdateXdm(n)
  PROVE  Managed
<1> DEFINE i == Target(n)
<1>1. UNCHANGED <<pres, lastId, luid, cache>>
  BY DEF UpdateXdm
<1>2. i \in Luids /\ {"name", "sip"} \in SUBSET Columns
      /\ {"EOk", "ENotFound"} \in SUBSET Status
  BY LuidFacts DEF Trees, Columns, Status
<1>3. PICK t \in Trees : t = "xdm"
  BY DEF Trees
<1>4. ASSUME NEW b \in Bases, UpdateXdmName(i, b), reply' = NameAnswer(t, i, Plain(b))
      PROVE  Managed
  <2> DEFINE v == FreeName(Plain(b), CollectionNames)
  <2>1. Plain(b) \in Name /\ v \in Name \ CollectionNames /\ v.base = Plain(b).base
    BY NameFacts, NewCollectionName DEF Sound
  <2> HIDE DEF i, v
  <2>2. /\ reply' \in Replies /\ reply'.cmd = "update" /\ reply'.tree = "xdm" /\ reply'.id = i
        /\ reply'.status = "EOk" /\ reply'.col = "name" /\ reply'.name = Plain(b)
    BY <1>2, <1>3, <1>4, <2>1, NameReply
  <2>3. ASSUME Sound', xdm'[i].name.base = Plain(b).base PROVE Managed
    BY <1>1, <2>2, <2>3, XdmWrittenManaged
  <2>4. CASE xdm[i].name = Plain(b) /\ UNCHANGED xdm
    <3>1. Sound'
      BY <1>1, <2>4, SoundSame DEF tables
    <3>2. QED
      BY <2>3, <2>4, <3>1
  <2>5. CASE WriteXdm(i, "name", v)
    <3>1. Sound' /\ xdm'[i].name = v
      BY <1>1, <2>1, <2>5, RenameCollectionSound
    <3>2. QED
      BY <2>1, <2>3, <3>1
  <2>6. CASE Full /\ UNCHANGED xdm
    BY <1>1, <2>2, <2>6, XdmWrittenManaged
  <2>7. QED
    BY <1>4, <2>4, <2>5, <2>6 DEF UpdateXdmName, UpdateXdmL, v
<1>5. ASSUME NEW v \in SipIdsFromLink, UpdateXdmL(i, "sip", v),
             NEW col \in {"sip", "xdm"}, col = "sip", reply' = RefAnswer(t, i, col, v)
      PROVE  Managed
  <2> HIDE DEF i
  <2>1. v \in SipIds \cup XRows \cup {Unset} /\ v \in SipIds \cup {Unset, Absent}
    BY DEF SipIdsFromLink
  <2>3. /\ reply' \in Replies /\ reply'.cmd = "update" /\ reply'.tree = "xdm" /\ reply'.id = i
        /\ reply'.status = "EOk" /\ reply'.col = "sip" /\ reply'.ref = v
    BY <1>2, <1>3, <1>5, <2>1, RefReply
  <2>4. CASE WriteXdm(i, "sip", v)
    <3>1. Sound' /\ xdm'[i].sip = v
      BY <1>1, <2>1, <2>4, ReferCollectionSound
    <3>2. QED
      BY <1>1, <2>3, <3>1, XdmWrittenManaged
  <2>5. CASE Full /\ UNCHANGED xdm
    BY <1>1, <2>3, <2>5, XdmWrittenManaged
  <2>6. QED
    BY <1>5, <2>4, <2>5 DEF UpdateXdmL
<1>6. ASSUME UNCHANGED xdm, NEW s \in {"EOk", "ENotFound"}, ReplyWith("update", "xdm", i, s)
      PROVE  Managed
  <2>1. ReplyWith("update", t, i, s)
    BY <1>3, <1>6
  <2>2. QED
    BY <1>1, <1>2, <1>6, <2>1, OtherUpdateManaged DEF tables
<1>7. PICK col \in {"sip", "xdm"} : col = "sip"
  OBVIOUS
<1>8. \/ \E b \in Bases : UpdateXdmName(i, b) /\ reply' = NameAnswer(t, i, Plain(b))
      \/ \E v \in SipIdsFromLink : UpdateXdmL(i, "sip", v) /\ reply' = RefAnswer(t, i, col, v)
      \/ UNCHANGED xdm /\ \E s \in {"EOk", "ENotFound"} : ReplyWith("update", "xdm", i, s)
  BY <1>3, <1>7 DEF UpdateXdm, NameAnswer, RefAnswer
<1> HIDE DEF i
<1>9. QED
  BY <1>4, <1>5, <1>6, <1>7, <1>8

-----------------------------------------------------------------------------
(* The programs that use the exported interfaces. *)

LEMMA ViewManaged ==
  ASSUME Sound, UNCHANGED actors, DmTypeOK, ViewNext, reply' = NoReply, UNCHANGED <<luid, cache>>
  PROVE  Managed
<1>1. luid' \in [Trees -> [Bases -> Luids]] /\ reply' \in Replies /\ reply'.cmd = "none"
  BY TypeOfDm, NoReplyType
<1>2. CASE ViewRemovesSet
  <2>1. PICK i \in Sets : RemoveSetL(i) /\ UNCHANGED xdm
    BY <1>2 DEF ViewRemovesSet
  <2>2. QED
    BY <1>1, <2>1, RemoveSetSound, LastIdGrows, AnsweredManaged
<1>3. CASE ViewRemovesCollection
  <2>1. PICK i \in Stored : RemoveCollectionL(i) /\ UNCHANGED <<pres, lastId>>
    BY <1>3 DEF ViewRemovesCollection
  <2>2. QED
    BY <1>1, <2>1, RemoveCollectionSound, LastIdGrows, AnsweredManaged
<1>4. CASE ViewEdits
  <2>1. PICK i \in Stored : \/ \E s \in SipIds : CreatePropertyL(i, "sip", s)
                            \/ RemovePropertyL(i, "sip")
    BY <1>4 DEF ViewEdits
  <2>2. PICK v \in SipIds \cup {Unset, Absent} : WriteXdm(i, "sip", v)
    BY <2>1 DEF CreatePropertyL, RemovePropertyL, EmptyRow
  <2>3. UNCHANGED <<pres, lastId>>
    BY <1>4 DEF ViewEdits
  <2>4. QED
    BY <1>1, <2>2, <2>3, ReferCollectionSound, LastIdGrows, AnsweredManaged
<1>5. QED
  BY <1>2, <1>3, <1>4 DEF ViewNext

LEMMA ManagesManaged ==
  ASSUME Sound, UNCHANGED actors, DmTypeOK, Manages
  PROVE  Managed
<1>1. ASSUME NEW n \in Nodes, AddNodePres(n) \/ AddNodeXdm(n) PROVE Managed
  BY <1>1, AddNodePresManaged, AddNodeXdmManaged
<1>2. ASSUME NEW n \in Nodes, DeletePres(n) \/ DeleteXdm(n) PROVE Managed
  BY <1>2, DeletePresManaged, DeleteXdmManaged
<1>3. ASSUME NEW n \in Nodes, UpdatePres(n) \/ UpdateXdm(n) PROVE Managed
  BY <1>3, UpdatePresManaged, UpdateXdmManaged
<1>4. ASSUME NEW n \in Nodes, NEW col \in Columns, FetchPres(n, col) \/ FetchXdm(n, col)
      PROVE  Managed
  BY <1>4, FetchPresManaged, FetchXdmManaged
<1>5. ASSUME ChildUriPres \/ ChildUriXdm \/ DmPanics \/ DmRefuses PROVE Managed
  BY <1>5, ChildUriManaged, DmPanicsManaged, DmRefusesManaged
<1>6. QED
  BY <1>1, <1>2, <1>3, <1>4, <1>5 DEF Manages, DmAdds, DmDeletes, DmUpdates, DmReads, DmLists

-----------------------------------------------------------------------------
(* Provisioning: the message, and what its items know. *)

(* What is told is an id of the kind it is told as. *)
Infos == {i \in Info : i.id \in IF i.app = "sip" THEN SipIds ELSE XRows \cup {Failed}}

MessageOK ==
    /\ items \in [Kinds -> Seq(Item)]
    /\ \A k \in Kinds : Len(items[k]) <= MaxItems
    /\ told \subseteq Infos /\ heard \subseteq Infos

(* Only the last item of a kind has been saved, and has the id of its row; *)
(* a presence item refers to both others.                                  *)
Ordered ==
    \A k \in Kinds : \A n \in DOMAIN items[k] :
        /\ items[k][n].saved = FALSE => items[k][n].id = Unset
        /\ items[k][n].saved = TRUE =>
              /\ n = Len(items[k])
              /\ items[k][n].id \in IF k = "pres" THEN 1..lastId ELSE XRows \cup {Failed}
        /\ k = "pres" => items[k][n].refs = Refs

(* A presence item knows what was told, and its set, once saved, holds     *)
(* what the item knows, or could not be written, unless others have        *)
(* written to it.                                                          *)
PresKnown ==
    \A n \in DOMAIN items["pres"] :
        /\ items["pres"][n].sip \in ToldId("sip")
        /\ items["pres"][n].xdm \in ToldId("xdm")
        /\ items["pres"][n].saved = TRUE /\ <<"pres", items["pres"][n].id>> \notin edited =>
              \/ Full /\ pres[items["pres"][n].id] = NewSet
              \/ /\ pres[items["pres"][n].id].name # NoName
                 /\ pres[items["pres"][n].id].sip = items["pres"][n].sip
                 /\ pres[items["pres"][n].id].xdm = items["pres"][n].xdm

(* An XDM item knows a SIP id that was told, or none, and its collection   *)
(* holds one that was told, or none, unless others have written to it.     *)
ToldSip == {i.id : i \in {j \in heard : j.app = "sip"}}
XdmKnown ==
    \A n \in DOMAIN items["xdm"] :
        /\ items["xdm"][n].sip \in {Unset} \cup ToldSip
        /\ items["xdm"][n].saved = TRUE /\ ~Full => items["xdm"][n].id \in XRows
        /\ items["xdm"][n].saved = TRUE /\ ~Full /\ <<"xdm", items["xdm"][n].id>> \notin edited =>
              xdm[items["xdm"][n].id].sip \in {Absent} \cup ToldSip

Known == Ordered /\ PresKnown /\ XdmKnown

LEMMA ItemFacts ==
  ASSUME MessageOK, NEW k \in Kinds, NEW n \in DOMAIN items[k]
  PROVE  items[k][n] \in Item /\ n \in 1..Len(items[k]) /\ items[k][n].saved \in BOOLEAN
<1>1. items[k] \in Seq(Item)
  BY DEF MessageOK
<1>2. n \in 1..Len(items[k]) /\ items[k][n] \in Item
  BY <1>1
<1>3. QED
  BY <1>2 DEF Item

(* With no item nothing is to be known. *)
LEMMA NothingKnown ==
  ASSUME items' = [k \in Kinds |-> <<>>]
  PROVE  Known'
<1>1. \A k \in Kinds : DOMAIN items'[k] = {}
  OBVIOUS
<1>2. "pres" \in Kinds /\ "xdm" \in Kinds
  BY DEF Kinds
<1>3. QED
  BY <1>1, <1>2 DEF Known, Ordered, PresKnown, XdmKnown, Full

(* The ids that are told stay told, and what is told now is among them.    *)
LEMMA ToldIdFacts ==
  ASSUME heard \subseteq Infos, NEW i \in Infos, heard' = heard \cup {i}
  PROVE  /\ \A app : ToldId(app) \subseteq ToldId(app)' \cup {Unset}
         /\ \A app : app # i.app => ToldId(app)' = ToldId(app)
         /\ i.id \in ToldId(i.app)'
         /\ i.id # Unset
         /\ ToldSip \subseteq ToldSip'
         /\ i.app = "sip" => i.id \in ToldSip'
<1>1. \A app : {j \in heard : j.app = app} \subseteq {j \in heard' : j.app = app}
  OBVIOUS
<1>2. \A app : app # i.app => {j \in heard' : j.app = app} = {j \in heard : j.app = app}
  OBVIOUS
<1>3. i \in {j \in heard' : j.app = i.app}
  OBVIOUS
<1>4. i.id \in Nat \/ i.id = Failed
  <2>1. i.id \in SipIds \/ i.id \in XRows \cup {Failed}
    BY DEF Infos
  <2>2. XRows \in SUBSET Nat
    BY BoundAssumption DEF XRows
  <2>3. QED
    BY <2>1, <2>2, SipAssumption
<1>5. ASSUME NEW app PROVE ToldId(app) \subseteq ToldId(app)' \cup {Unset}
  <2> DEFINE k == {j \in heard : j.app = app}
             l == {j \in heard' : j.app = app}
  <2>1. k \subseteq l
    BY <1>1
  <2>2. ToldId(app) = (IF k = {} THEN {Unset} ELSE {j.id : j \in k})
        /\ ToldId(app)' = (IF l = {} THEN {Unset} ELSE {j.id : j \in l})
    BY DEF ToldId
  <2> HIDE DEF k, l
  <2>3. QED
    BY <2>1, <2>2
<1>6. \A app : app # i.app => ToldId(app)' = ToldId(app)
  BY <1>2 DEF ToldId
<1>7. i.id \in ToldId(i.app)'
  BY <1>3 DEF ToldId
<1>8. ToldSip \subseteq ToldSip' /\ (i.app = "sip" => i.id \in ToldSip')
  BY <1>1, <1>3 DEF ToldSip
<1>9. QED
  BY <1>4, <1>5, <1>6, <1>7, <1>8 DEF Unset, Failed

(* What an item makes of what it hears. *)
LEMMA HeardFacts ==
  ASSUME NEW k \in Kinds, NEW it \in Item, NEW i \in Infos
  PROVE  /\ Heard(k, it, i) \in Item
         /\ Heard(k, it, i).saved = it.saved /\ Heard(k, it, i).id = it.id
         /\ Heard(k, it, i).refs = it.refs
         /\ k = "pres" /\ it.refs = Refs =>
               /\ i.app # "sip" => Heard(k, it, i).sip = it.sip
               /\ i.app # "xdm" => Heard(k, it, i).xdm = it.xdm
               /\ i.app = "sip" => Heard(k, it, i).sip = IF it.sip # Unset THEN it.sip ELSE i.id
               /\ i.app = "xdm" => Heard(k, it, i).xdm = IF it.xdm # Unset THEN it.xdm ELSE i.id
         /\ k = "xdm" =>
               Heard(k, it, i).sip \in {it.sip} \cup (IF i.app = "sip" THEN {i.id} ELSE {})
<1>1. i.app \in {"sip", "xdm"} /\ i.ref \in Refs /\ i.id \in IF i.app = "sip" THEN SipIds ELSE XRows \cup {Failed}
  BY DEF Infos, Info
<1>2. /\ [it EXCEPT !.sip = i.id].saved = it.saved /\ [it EXCEPT !.sip = i.id].id = it.id
      /\ [it EXCEPT !.sip = i.id].refs = it.refs /\ [it EXCEPT !.sip = i.id].xdm = it.xdm
      /\ [it EXCEPT !.sip = i.id].sip = i.id
      /\ i.app = "sip" => [it EXCEPT !.sip = i.id] \in Item
  BY <1>1 DEF Item
<1>3. /\ [it EXCEPT !.xdm = i.id].saved = it.saved /\ [it EXCEPT !.xdm = i.id].id = it.id
      /\ [it EXCEPT !.xdm = i.id].refs = it.refs /\ [it EXCEPT !.xdm = i.id].sip = it.sip
      /\ [it EXCEPT !.xdm = i.id].xdm = i.id
      /\ i.app = "xdm" => [it EXCEPT !.xdm = i.id] \in Item
  BY <1>1 DEF Item
<1>4. CASE i.ref \notin it.refs
  BY <1>1, <1>4 DEF Heard
<1>5. CASE i.ref \in it.refs /\ k = "pres" /\ i.app = "sip"
  <2>1. Heard(k, it, i) = IF it.sip # Unset THEN it ELSE [it EXCEPT !.sip = i.id]
    BY <1>5 DEF Heard, SetIds
  <2>2. QED
    BY <1>2, <1>5, <2>1
<1>6. CASE i.ref \in it.refs /\ k = "pres" /\ i.app = "xdm"
  <2>1. Heard(k, it, i) = IF it.xdm # Unset THEN it ELSE [it EXCEPT !.xdm = i.id]
    BY <1>6 DEF Heard, SetIds
  <2>2. QED
    BY <1>3, <1>6, <2>1
<1>7. CASE i.ref \in it.refs /\ k # "pres"
  <2>1. Heard(k, it, i) = IF i.app # "sip" THEN it ELSE [it EXCEPT !.sip = i.id]
    BY <1>7 DEF Heard, SetSipSettingsId
  <2>2. QED
    BY <1>2, <1>7, <2>1
<1>8. QED
  BY <1>1, <1>4, <1>5, <1>6, <1>7 DEF Kinds

(* What provisioning does to the tables and the message. *)
Provided == Sound' /\ MessageOK'

LEMMA VisitProvided ==
  ASSUME Sound, UNCHANGED actors, MessageOK, Known, NEW k \in Kinds, VisitL(k)
  PROVE  Provided /\ (edited' = edited => Known')
<1>1. PICK g \in Given :
         items' = IF Validate(k, g) THEN [items EXCEPT ![k] = Append(@, NewItem(g))] ELSE items
  BY DEF VisitL
<1>2. UNCHANGED <<tables, told, heard>> /\ Len(items[k]) < MaxItems
  BY DEF VisitL
<1>3. Sound'
  BY <1>2, SoundSame
<1>4. CASE items' = items
  <2>1. MessageOK'
    BY <1>2, <1>4 DEF MessageOK
  <2>2. edited' = edited => Known'
    BY <1>2, <1>4 DEF Known, Ordered, PresKnown, XdmKnown, ToldId, ToldSip, tables, Full
  <2>3. QED
    BY <1>3, <2>1, <2>2 DEF Provided
<1>5. CASE Validate(k, g) /\ items' = [items EXCEPT ![k] = Append(@, NewItem(g))]
  <2> DEFINE new == NewItem(g)
             q   == items[k]
  <2>1. /\ new \in Item /\ new.saved = FALSE /\ new.id = Unset /\ new.sip = Unset /\ new.xdm = Unset
        /\ k = "pres" => new.refs = Refs
    <3>1. g.name \in Bases /\ g.refs \in SUBSET Refs /\ (k = "pres" => g.refs = Refs)
      BY <1>5 DEF Given, Validate, ValidatePres, ValidateXdm, Refs
    <3>2. Plain(g.name) \in Name
      BY <3>1, NameFacts
    <3>3. QED
      BY <3>1, <3>2 DEF NewItem, Item
  <2>2. items' = [items EXCEPT ![k] = Append(q, new)]
    BY <1>5
  <2> HIDE DEF new
  <2>3. items \in [Kinds -> Seq(Item)] /\ q \in Seq(Item)
    BY DEF MessageOK
  <2>4. /\ Append(q, new) \in Seq(Item) /\ Len(Append(q, new)) = Len(q) + 1
        /\ \A n \in DOMAIN Append(q, new) : \/ n \in DOMAIN q /\ Append(q, new)[n] = q[n]
                                            \/ Append(q, new)[n] = new
    BY <2>1, <2>3
  <2>5. MessageOK'
    <3>1. items' \in [Kinds -> Seq(Item)]
      BY <2>2, <2>3, <2>4
    <3>2. \A j \in Kinds : Len(items'[j]) <= MaxItems
      <4>1. Len(q) + 1 <= MaxItems
        BY <1>2, <2>3, ItemsAssumption
      <4>2. QED
        BY <2>2, <2>3, <2>4, <4>1 DEF MessageOK
    <3>3. QED
      BY <1>2, <3>1, <3>2 DEF MessageOK
  <2>6. \A j \in Kinds : \A n \in DOMAIN items'[j] :
           \/ n \in DOMAIN items[j] /\ items'[j][n] = items[j][n]
           \/ items'[j][n] = new /\ j = k
    BY <2>2, <2>3, <2>4
  <2>7. \A j \in Kinds : \A n \in DOMAIN items[j] : items[j][n].saved = FALSE
    BY ItemFacts DEF VisitL
  <2>8. heard' = {} /\ heard = {}
    BY <1>2 DEF VisitL
  <2>9. \A app : ToldId(app)' = {Unset} /\ ToldId(app) = {Unset}
    BY <2>8 DEF ToldId
  <2>10. Ordered'
    BY <2>1, <2>6, <2>7 DEF Known, Ordered
  <2>11. PresKnown'
    BY <2>1, <2>6, <2>7, <2>9 DEF Known, PresKnown, Kinds, Full
  <2>12. XdmKnown'
    BY <2>1, <2>6, <2>7, <2>8 DEF Known, XdmKnown, ToldSip, Kinds, Full
  <2>13. QED
    BY <1>3, <2>5, <2>10, <2>11, <2>12 DEF Provided, Known
<1>6. QED
  BY <1>1, <1>4, <1>5

(* A saved item stays as it is; the last one that is not gets new values. *)
LEMMA SavedItem ==
  ASSUME MessageOK, NEW k \in Kinds, NEW n \in DOMAIN items[k], NEW r \in Item,
         items' = [items EXCEPT ![k][n] = r]
  PROVE  /\ items' \in [Kinds -> Seq(Item)]
         /\ \A j \in Kinds : Len(items'[j]) = Len(items[j]) /\ DOMAIN items'[j] = DOMAIN items[j]
         /\ items'[k][n] = r
         /\ \A j \in Kinds : j # k => items'[j] = items[j]
         /\ \A m \in DOMAIN items[k] : m # n => items'[k][m] = items[k][m]
<1> DEFINE q == items[k]
           c == [q EXCEPT ![n] = r]
<1>1. items \in [Kinds -> Seq(Item)] /\ q \in Seq(Item) /\ n \in 1..Len(q)
  BY ItemFacts DEF MessageOK
<1>2. c \in Seq(Item) /\ Len(c) = Len(q) /\ DOMAIN c = DOMAIN q /\ c[n] = r
      /\ \A m \in DOMAIN q : m # n => c[m] = q[m]
  BY <1>1
<1>3. items' = [items EXCEPT ![k] = c]
  OBVIOUS
<1> HIDE DEF c
<1>4. QED
  BY <1>1, <1>2, <1>3

LEMMA SavePresProvided ==
  ASSUME Sound, UNCHANGED actors, MessageOK, Known, NEW n \in DOMAIN items["pres"], SavePresL(n)
  PROVE  Provided /\ (edited' = edited => Known')
<1> DEFINE it  == items["pres"][n]
           v   == FreeName(it.name, SetNames)
           p   == [name |-> v, sip |-> it.sip, xdm |-> it.xdm]
           new == [it EXCEPT !.saved = TRUE, !.id = lastId + 1]
<1>1. "pres" \in Kinds /\ "xdm" \in Kinds
  BY DEF Kinds
<1>2. it \in Item /\ n \in 1..Len(items["pres"]) /\ UNCHANGED <<told, heard>>
  BY <1>1, ItemFacts DEF SavePresL
<1>3. CASE it.saved = TRUE
  <2>1. UNCHANGED <<tables, items>>
    BY <1>3 DEF SavePresL
  <2>2. Sound' /\ MessageOK'
    BY <1>2, <2>1, SoundSame DEF MessageOK
  <2>3. edited' = edited => Known'
    BY <1>2, <2>1 DEF Known, Ordered, PresKnown, XdmKnown, ToldId, ToldSip, tables, Full
  <2>4. QED
    BY <2>2, <2>3 DEF Provided
<1>4. CASE it.saved = FALSE /\ CreateSetFails /\ UNCHANGED <<xdm, items>>
  <2>1. Sound' /\ lastId' = lastId + 1 /\ pres' = pres
    BY <1>4, CreateFailsSound
  <2>2. lastId \in Nat
    BY BoundAssumption DEF Sound, TablesTypeOK
  <2>3. 1..lastId \subseteq 1..lastId'
    BY <2>1, <2>2
  <2>4. MessageOK'
    BY <1>2, <1>4 DEF MessageOK
  <2>5. Ordered'
    BY <1>4, <2>3 DEF Known, Ordered
  <2>6. edited' = edited => PresKnown' /\ XdmKnown'
    BY <1>2, <1>4, <2>1 DEF Known, PresKnown, XdmKnown, ToldId, ToldSip, Full
  <2>7. QED
    BY <2>1, <2>4, <2>5, <2>6 DEF Provided, Known
<1>5. CASE /\ it.saved = FALSE /\ CreateSetL(p) /\ UNCHANGED xdm
           /\ items' = [items EXCEPT !["pres"][n] = new]
  <2>1. /\ CreateSetL(p) /\ UNCHANGED xdm
        /\ items' = [items EXCEPT !["pres"][n] = new]
    BY <1>5
  <2>2. v \in Name \ SetNames
    BY <1>2, NewSetName DEF Sound, Item
  <2>3. p \in PresSet /\ p.name = v /\ p.sip = it.sip /\ p.xdm = it.xdm
    <3> HIDE DEF v
    <3>1. QED
      BY <1>2, <2>2 DEF PresSet, Item
  <2>4. /\ Sound' /\ lastId + 1 \in PIds /\ lastId' = lastId + 1
        /\ pres' = [pres EXCEPT ![lastId + 1] = p]
    <3> HIDE DEF p
    <3>1. QED
      BY <2>1, <2>2, <2>3, CreateSetSound
  <2>5. new \in Item /\ new.saved = TRUE /\ new.id = lastId + 1 /\ new.sip = it.sip
        /\ new.xdm = it.xdm /\ new.refs = it.refs
    BY <1>2, <2>4 DEF Item
  <2> HIDE DEF new, p, v
  <2>6. /\ items' \in [Kinds -> Seq(Item)]
        /\ \A j \in Kinds : Len(items'[j]) = Len(items[j]) /\ DOMAIN items'[j] = DOMAIN items[j]
        /\ items'["pres"][n] = new
        /\ items'["xdm"] = items["xdm"]
        /\ \A m \in DOMAIN items["pres"] : m # n => items'["pres"][m] = items["pres"][m]
    BY <1>1, <2>1, <2>5, SavedItem
  <2>7. MessageOK'
    BY <1>2, <2>6 DEF MessageOK
  <2>8. n = Len(items["pres"])
    <3>1. Len(items["pres"]) \in Nat
      BY <1>1 DEF MessageOK
    <3>2. QED
      BY <1>2, <3>1 DEF SavePresL, Saveable
  <2>9. \A m \in DOMAIN items["pres"] : m # n => items["pres"][m].saved = FALSE
    BY <1>1, <2>8, ItemFacts DEF Known, Ordered
  <2>10. lastId \in Nat /\ pres \in [PIds -> PresSet]
    BY BoundAssumption, TypeOfTables DEF Sound
  <2>11. lastId + 1 \in 1..lastId'
    BY <2>4, <2>10
  <2>12. pres'[new.id] = p
    BY <2>4, <2>5, <2>10
  <2>13. Ordered'
    <3>1. ASSUME NEW m \in DOMAIN items'["pres"]
          PROVE  /\ items'["pres"][m].saved = FALSE => items'["pres"][m].id = Unset
                 /\ items'["pres"][m].saved = TRUE =>
                       /\ m = Len(items'["pres"])
                       /\ items'["pres"][m].id \in 1..lastId'
                 /\ items'["pres"][m].refs = Refs
      <4>1. CASE m = n
        BY <1>1, <2>5, <2>6, <2>8, <2>11, <4>1 DEF Known, Ordered
      <4>2. CASE m # n
        BY <1>1, <2>6, <2>9, <4>2 DEF Known, Ordered
      <4>3. QED
        BY <4>1, <4>2
    <3>2. \A m \in DOMAIN items'["xdm"] :
             /\ items'["xdm"][m].saved = FALSE => items'["xdm"][m].id = Unset
             /\ items'["xdm"][m].saved = TRUE =>
                   /\ m = Len(items'["xdm"])
                   /\ items'["xdm"][m].id \in XRows \cup {Failed}
      BY <1>1, <2>6 DEF Known, Ordered
    <3>3. QED
      BY <3>1, <3>2 DEF Ordered, Kinds
  <2>14. \A app : ToldId(app)' = ToldId(app)
    BY <1>2 DEF ToldId
  <2>15. PresKnown'
    <3>1. ASSUME NEW m \in DOMAIN items'["pres"]
          PROVE  /\ items'["pres"][m].sip \in ToldId("sip")'
                 /\ items'["pres"][m].xdm \in ToldId("xdm")'
                 /\ items'["pres"][m].saved = TRUE =>
                       /\ pres'[items'["pres"][m].id].name # NoName
                       /\ pres'[items'["pres"][m].id].sip = items'["pres"][m].sip
                       /\ pres'[items'["pres"][m].id].xdm = items'["pres"][m].xdm
      <4>1. it.sip \in ToldId("sip") /\ it.xdm \in ToldId("xdm")
        BY DEF Known, PresKnown, Full
      <4>2. p.name # NoName
        BY <2>2, <2>3, NameFacts
      <4>3. CASE m = n
        BY <2>3, <2>5, <2>6, <2>12, <2>14, <4>1, <4>2, <4>3
      <4>4. CASE m # n
        BY <1>1, <2>6, <2>9, <2>14, <4>4 DEF Known, PresKnown, Full
      <4>5. QED
        BY <4>3, <4>4
    <3>2. QED
      BY <3>1 DEF PresKnown, Full
  <2>16. edited' = edited => XdmKnown'
    BY <1>2, <2>1, <2>6 DEF Known, XdmKnown, ToldSip, Full
  <2>17. QED
    BY <2>4, <2>7, <2>13, <2>15, <2>16 DEF Provided, Known
<1>6. QED
  BY <1>2, <1>3, <1>4, <1>5 DEF Item, SavePresL

LEMMA SaveXdmProvided ==
  ASSUME Sound, UNCHANGED actors, MessageOK, Known, NEW n \in DOMAIN items["xdm"], SaveXdmL(n)
  PROVE  Provided /\ (edited' = edited => Known')
<1> DEFINE it  == items["xdm"][n]
           new == FreeName(it.name, CollectionNames)
           s   == IF it.sip = Unset THEN Absent ELSE it.sip
<1>1. "pres" \in Kinds /\ "xdm" \in Kinds
  BY DEF Kinds
<1>2. it \in Item /\ n \in 1..Len(items["xdm"]) /\ heard' = heard
  BY <1>1, ItemFacts DEF SaveXdmL
<1>3. ASSUME NEW id \in XRows \cup {Failed}, Tell(id)
      PROVE  told' \subseteq Infos
  <2>1. [app |-> "xdm", ref |-> "x", id |-> id] \in Infos
    BY <1>3 DEF Infos, Info, Refs
  <2>2. told \subseteq Infos /\ heard \subseteq Infos
    BY DEF MessageOK
  <2>3. QED
    BY <1>3, <2>1, <2>2 DEF Tell
<1>4. CASE it.saved = TRUE
  <2>1. UNCHANGED <<tables, items>> /\ Tell(it.id)
    BY <1>4 DEF SaveXdmL
  <2>2. it.id \in XRows \cup {Failed}
    BY <1>1, <1>4 DEF Known, Ordered
  <2>3. told' \subseteq Infos
    BY <1>3, <2>1, <2>2
  <2>4. Sound' /\ MessageOK'
    BY <1>2, <2>1, <2>3, SoundSame DEF MessageOK
  <2>5. edited' = edited => Known'
    BY <1>2, <2>1 DEF Known, Ordered, PresKnown, XdmKnown, ToldId, ToldSip, tables, Full
  <2>6. QED
    BY <2>4, <2>5 DEF Provided
<1>5. CASE it.saved = FALSE
  <2> DEFINE p(v)     == [name |-> v, sip |-> s]
             done(id) == [it EXCEPT !.saved = TRUE, !.id = id, !.name = new]
  <2>0. UNCHANGED <<pres, lastId>>
    BY <1>5 DEF SaveXdmL
  <2>1. \E v \in WrittenNames(new), lost \in Losses :
              /\ CreateCollectionL(p(v), lost) /\ Tell(Created(lost))
              /\ items' = [items EXCEPT !["xdm"][n] = done(Created(lost))]
    BY <1>5 DEF SaveXdmL
  <2>2. PICK v \in WrittenNames(new), lost \in Losses :
              /\ CreateCollectionL(p(v), lost) /\ Tell(Created(lost))
              /\ items' = [items EXCEPT !["xdm"][n] = done(Created(lost))]
    BY <2>1
  <2> DEFINE id == Created(lost)
             q  == p(v)
             it2 == done(id)
  <2>3. new \in Name \ CollectionNames
    BY <1>2, NewCollectionName DEF Sound, Item
  <2>4. s \in SipIds \cup {Unset, Absent} /\ s \in {Absent, it.sip} /\ (it.sip = Unset => s = Absent)
    BY <1>2 DEF Item
  <2>5. v \in Name /\ (Reused \/ v \in {NoName} \cup (Name \ CollectionNames))
    <3> HIDE DEF new
    <3>1. QED
      BY <2>3 DEF WrittenNames
  <2>6. q.name = v /\ q.sip = s
    OBVIOUS
  <2>7. CreateCollectionL(q, lost) /\ Tell(id) /\ items' = [items EXCEPT !["xdm"][n] = it2]
    BY <2>2
  <2> HIDE DEF q, s
  <2>8. /\ Sound' /\ id \in XRows \cup {Failed}
        /\ ~Full => /\ id = LastRow /\ LastRow \in XRows
                    /\ xdm' = [xdm EXCEPT ![LastRow] = [id |-> TRUE, name |-> v, sip |-> s]]
    BY <2>0, <2>4, <2>5, <2>6, <2>7, CreateCollectionSound
  <2> HIDE DEF id, new
  <2>9. it2 \in Item /\ it2.saved = TRUE /\ it2.id = id /\ it2.sip = it.sip
    <3>1. id \in XRows \cup PIds \cup {Unset, Failed}
      BY <2>8
    <3>2. QED
      BY <1>2, <2>3, <3>1 DEF Item
  <2> HIDE DEF it2
  <2>10. ~Full => xdm'[id].sip = s
    <3>1. xdm \in [XRows -> XdmRow]
      BY TypeOfTables DEF Sound
    <3>2. QED
      BY <2>8, <3>1
  <2>11. /\ items' \in [Kinds -> Seq(Item)]
         /\ \A j \in Kinds : Len(items'[j]) = Len(items[j]) /\ DOMAIN items'[j] = DOMAIN items[j]
         /\ items'["xdm"][n] = it2
         /\ items'["pres"] = items["pres"]
         /\ \A m \in DOMAIN items["xdm"] : m # n => items'["xdm"][m] = items["xdm"][m]
    BY <1>1, <2>7, <2>9, SavedItem
  <2>12. MessageOK'
    <3>1. told' \subseteq Infos
      BY <1>3, <2>7, <2>8
    <3>2. QED
      BY <1>2, <2>11, <3>1 DEF MessageOK
  <2>13. n = Len(items["xdm"])
    <3>1. Len(items["xdm"]) \in Nat
      BY <1>1 DEF MessageOK
    <3>2. Saveable("xdm", n)
      BY DEF SaveXdmL
    <3>3. QED
      BY <1>2, <3>1, <3>2 DEF Saveable
  <2>14. \A m \in DOMAIN items["xdm"] : m # n => items["xdm"][m].saved = FALSE
    BY <1>1, <2>13, ItemFacts DEF Known, Ordered
  <2>15. Ordered'
    <3>1. ASSUME NEW m \in DOMAIN items'["xdm"]
          PROVE  /\ items'["xdm"][m].saved = FALSE => items'["xdm"][m].id = Unset
                 /\ items'["xdm"][m].saved = TRUE =>
                       /\ m = Len(items'["xdm"])
                       /\ items'["xdm"][m].id \in XRows \cup {Failed}
      <4>1. CASE m = n
        BY <1>1, <2>8, <2>9, <2>11, <2>13, <4>1
      <4>2. CASE m # n
        BY <1>1, <2>11, <2>14, <4>2 DEF Known, Ordered
      <4>3. QED
        BY <4>1, <4>2
    <3>2. \A m \in DOMAIN items'["pres"] :
             /\ items'["pres"][m].saved = FALSE => items'["pres"][m].id = Unset
             /\ items'["pres"][m].saved = TRUE =>
                   /\ m = Len(items'["pres"])
                   /\ items'["pres"][m].id \in 1..lastId'
             /\ items'["pres"][m].refs = Refs
      BY <1>1, <2>0, <2>11 DEF Known, Ordered
    <3>3. QED
      BY <3>1, <3>2 DEF Ordered, Kinds
  <2>16. \A app : ToldId(app)' = ToldId(app)
    BY <1>2 DEF ToldId
  <2>17. ToldSip' = ToldSip /\ Full' = Full
    BY <1>2 DEF ToldSip, Full
  <2>18. edited' = edited => PresKnown'
    BY <2>0, <2>11, <2>16, <2>17 DEF Known, PresKnown
  <2>19. XdmKnown'
    <3>1. ASSUME NEW m \in DOMAIN items'["xdm"]
          PROVE  /\ items'["xdm"][m].sip \in {Unset} \cup ToldSip'
                 /\ items'["xdm"][m].saved = TRUE /\ ~Full => items'["xdm"][m].id \in XRows
                 /\ items'["xdm"][m].saved = TRUE /\ ~Full =>
                       xdm'[items'["xdm"][m].id].sip \in {Absent} \cup ToldSip'
      <4>1. it.sip \in {Unset} \cup ToldSip
        BY DEF Known, XdmKnown
      <4>2. CASE m = n
        BY <2>4, <2>8, <2>9, <2>10, <2>11, <2>17, <4>1, <4>2
      <4>3. CASE m # n
        BY <1>1, <2>11, <2>14, <2>17, <4>3 DEF Known, XdmKnown
      <4>4. QED
        BY <4>2, <4>3
    <3>2. QED
      BY <2>17, <3>1 DEF XdmKnown
  <2>20. QED
    BY <2>8, <2>12, <2>15, <2>18, <2>19 DEF Provided, Known
<1>6. QED
  BY <1>2, <1>4, <1>5 DEF Item

LEMMA SaveSipProvided ==
  ASSUME Sound, UNCHANGED actors, MessageOK, Known, SaveSip
  PROVE  Provided /\ (edited' = edited => Known')
<1>1. UNCHANGED <<tables, items, heard>>
  BY DEF SaveSip
<1>2. PICK s \in SipIds : told' = told \cup {[app |-> "sip", ref |-> "s", id |-> s]}
  BY DEF SaveSip
<1>3. [app |-> "sip", ref |-> "s", id |-> s] \in Infos
  BY DEF Infos, Info, Refs
<1>4. MessageOK'
  BY <1>1, <1>2, <1>3 DEF MessageOK
<1>5. Sound'
  BY <1>1, SoundSame
<1>6. edited' = edited => Known'
  BY <1>1 DEF Known, Ordered, PresKnown, XdmKnown, ToldId, ToldSip, tables, Full
<1>7. QED
  BY <1>4, <1>5, <1>6 DEF Provided

LEMMA FinalizedProvided ==
  ASSUME Sound, UNCHANGED actors, MessageOK, SavingFinalizedL
  PROVE  Provided /\ Known'
<1>1. items' = [k \in Kinds |-> <<>>] /\ told' = {} /\ heard' = {} /\ UNCHANGED tables
  BY DEF SavingFinalizedL
<1>2. Sound'
  BY <1>1, SoundSame
<1>3. <<>> \in Seq(Item) /\ Len(<<>>) <= MaxItems
  BY ItemsAssumption
<1>4. MessageOK'
  BY <1>1, <1>3 DEF MessageOK
<1>5. QED
  BY <1>1, <1>2, <1>4, NothingKnown DEF Provided

LEMMA RefuseProvided ==
  ASSUME Sound, UNCHANGED actors, MessageOK, Known, UNCHANGED <<tables, provVars>>
  PROVE  Provided /\ (edited' = edited => Known')
<1>1. UNCHANGED <<tables, items, told, heard>>
  BY DEF provVars
<1>2. Sound' /\ MessageOK'
  BY <1>1, SoundSame DEF MessageOK
<1>3. edited' = edited => Known'
  BY <1>1 DEF Known, Ordered, PresKnown, XdmKnown, ToldId, ToldSip, tables, Full
<1>4. QED
  BY <1>2, <1>3 DEF Provided

(* Telling an id changes the ids that items know, and nothing else of them. *)
LEMMA SettingsSavedItems ==
  ASSUME MessageOK, NEW i \in Infos,
         items' = [k \in Kinds |-> [n \in DOMAIN items[k] |-> Heard(k, items[k][n], i)]]
  PROVE  /\ items' \in [Kinds -> Seq(Item)]
         /\ \A k \in Kinds : Len(items'[k]) = Len(items[k]) /\ DOMAIN items'[k] = DOMAIN items[k]
         /\ \A k \in Kinds : \A n \in DOMAIN items[k] : items'[k][n] = Heard(k, items[k][n], i)
<1>1. ASSUME NEW k \in Kinds
      PROVE  /\ items'[k] \in Seq(Item) /\ Len(items'[k]) = Len(items[k])
             /\ DOMAIN items'[k] = DOMAIN items[k]
             /\ \A n \in DOMAIN items[k] : items'[k][n] = Heard(k, items[k][n], i)
  <2> DEFINE q == items[k]
             c == [n \in DOMAIN q |-> Heard(k, q[n], i)]
  <2>1. q \in Seq(Item) /\ DOMAIN q = 1..Len(q) /\ Len(q) \in Nat
    BY DEF MessageOK
  <2>2. \A n \in 1..Len(q) : Heard(k, q[n], i) \in Item
    BY <2>1, HeardFacts
  <2>3. items'[k] = c
    OBVIOUS
  <2>4. c \in [1..Len(q) -> Item]
    BY <2>1, <2>2
  <2>5. \A n \in DOMAIN q : c[n] = Heard(k, q[n], i)
    OBVIOUS
  <2> HIDE DEF c
  <2>6. c \in Seq(Item) /\ Len(c) = Len(q) /\ DOMAIN c = DOMAIN q
    BY <2>1, <2>4
  <2>7. QED
    BY <2>3, <2>5, <2>6
<1>2. items' \in [Kinds -> Seq(Item)]
  <2>1. \A k \in Kinds : [n \in DOMAIN items[k] |-> Heard(k, items[k][n], i)] \in Seq(Item)
    BY <1>1
  <2>2. QED
    BY <2>1
<1>3. QED
  BY <1>1, <1>2

(* The owner of a set is the saved item; there is one.                     *)
LEMMA OwnerFacts ==
  ASSUME Sound, UNCHANGED actors, MessageOK, Known, NEW n \in DOMAIN items["pres"], items["pres"][n].id \in PIds
  PROVE  /\ items["pres"][n].saved = TRUE
         /\ Owner(items["pres"][n].id) = n
<1>1. "pres" \in Kinds /\ Unset \notin PIds
  BY BoundAssumption DEF Kinds, PIds, Unset
<1>2. \A m \in DOMAIN items["pres"] : items["pres"][m].id \in PIds => items["pres"][m].saved = TRUE
  BY <1>1, ItemFacts DEF Known, Ordered
<1>3. \A m \in DOMAIN items["pres"] : items["pres"][m].id \in PIds => m = Len(items["pres"])
  BY <1>1, <1>2 DEF Known, Ordered
<1>4. QED
  BY <1>2, <1>3 DEF Owner

(* The sets of saved items get the id, or are gone; other sets stay.       *)
LEMMA SettingsSavedSets ==
  ASSUME Sound, UNCHANGED actors, MessageOK, Known, NEW i \in Infos, SettingsSavedL(i)
  PROVE  /\ pres' \in [PIds -> PresSet]
         /\ \A p \in PIds : pres'[p].name \in {NoName, pres[p].name}
         /\ \A p \in PIds \ Sets : pres'[p] = pres[p]
         /\ \A n \in DOMAIN items["pres"] :
              LET p == items["pres"][n].id
              IN p \in Sets =>
                    \/ Full /\ pres'[p] = NewSet
                    \/ /\ pres'[p].name = pres[p].name
                       /\ pres'[p][i.app] = items'["pres"][n][i.app]
                       /\ i.app # "sip" => pres'[p].sip = pres[p].sip
                       /\ i.app # "xdm" => pres'[p].xdm = pres[p].xdm
<1>1. /\ items' \in [Kinds -> Seq(Item)]
      /\ \A k \in Kinds : DOMAIN items'[k] = DOMAIN items[k]
  BY SettingsSavedItems DEF SettingsSavedL
<1>2. "pres" \in Kinds /\ i.app \in {"sip", "xdm"} /\ i.ref \in Refs
  BY DEF Kinds, Infos, Info
<1>3. pres \in [PIds -> PresSet]
  BY TypeOfTables DEF Sound
<1>4. \A n \in DOMAIN items["pres"] : items'["pres"][n] \in Item /\ items["pres"][n].refs = Refs
  BY <1>1, <1>2 DEF Known, Ordered
<1> DEFINE with(p) == [pres[p] EXCEPT ![i.app] = items'["pres"][Owner(p)][i.app]]
<1>5. PICK gone \in SUBSET Updated(i) :
         /\ gone = {} \/ Full
         /\ pres' = [p \in PIds |-> IF p \in gone THEN NewSet
                                    ELSE IF p \in Updated(i) THEN with(p) ELSE pres[p]]
  <2>1. (IF Full THEN SUBSET Updated(i) ELSE {{}}) \in SUBSET SUBSET Updated(i)
    OBVIOUS
  <2>2. \A g \in (IF Full THEN SUBSET Updated(i) ELSE {{}}) : g = {} \/ Full
    OBVIOUS
  <2>3. PICK g \in (IF Full THEN SUBSET Updated(i) ELSE {{}}) :
            pres' = [p \in PIds |-> IF p \in g THEN NewSet
                                    ELSE IF p \in Updated(i) THEN with(p) ELSE pres[p]]
    BY DEF SettingsSavedL
  <2> HIDE DEF with
  <2>4. QED
    BY <2>1, <2>2, <2>3
<1>6. Updated(i) \subseteq OwnedSets /\ OwnedSets \subseteq Sets /\ Sets \subseteq PIds
  BY DEF Updated, OwnedSets, Sets
<1>7. ASSUME NEW p \in OwnedSets
      PROVE  Owner(p) \in DOMAIN items["pres"] /\ p \in Updated(i)
  <2>1. PICK n \in DOMAIN items["pres"] : items["pres"][n].id = p /\ p \in PIds
    BY DEF OwnedSets, Sets
  <2>2. Owner(p) = n
    BY <2>1, OwnerFacts
  <2>3. QED
    BY <1>2, <1>4, <2>1, <2>2 DEF Updated
<1>8. ASSUME NEW p \in OwnedSets
      PROVE  /\ with(p) \in PresSet /\ with(p).name = pres[p].name
             /\ with(p)[i.app] = items'["pres"][Owner(p)][i.app]
             /\ i.app # "sip" => with(p).sip = pres[p].sip
             /\ i.app # "xdm" => with(p).xdm = pres[p].xdm
  <2> DEFINE it == items'["pres"][Owner(p)]
             w  == with(p)
  <2>1. it \in Item /\ p \in PIds /\ w = [pres[p] EXCEPT ![i.app] = it[i.app]]
    BY <1>4, <1>7 DEF OwnedSets, Sets
  <2>2. pres[p] \in PresSet
    BY <1>3, <2>1
  <2> HIDE DEF it, w
  <2>3. it.sip \in SipIds \cup {Unset} /\ it.xdm \in XRows \cup {Unset, Failed}
    BY <2>1 DEF Item
  <2>4. CASE i.app = "sip"
    <3>1. w = [pres[p] EXCEPT !.sip = it.sip]
      BY <2>1, <2>4
    <3>2. /\ w \in PresSet /\ w.name = pres[p].name /\ w.sip = it.sip /\ w.xdm = pres[p].xdm
      BY <2>2, <2>3, <3>1 DEF PresSet
    <3>3. QED
      BY <2>4, <3>2 DEF it, w
  <2>5. CASE i.app = "xdm"
    <3>1. w = [pres[p] EXCEPT !.xdm = it.xdm]
      BY <2>1, <2>5
    <3>2. /\ w \in PresSet /\ w.name = pres[p].name /\ w.xdm = it.xdm /\ w.sip = pres[p].sip
      BY <2>2, <2>3, <3>1 DEF PresSet
    <3>3. QED
      BY <2>5, <3>2 DEF it, w
  <2>6. QED
    BY <1>2, <2>4, <2>5
<1> HIDE DEF with
<1>9. NewSet \in PresSet /\ NewSet.name = NoName
  BY DEF NewSet, PresSet
<1>10. ASSUME NEW p \in PIds
       PROVE  \/ pres'[p] = pres[p]
              \/ p \in Sets /\ Full /\ pres'[p] = NewSet
              \/ p \in OwnedSets /\ pres'[p] = with(p)
  BY <1>5, <1>6
<1>11. pres' \in [PIds -> PresSet]
  <2>1. \A p \in PIds : pres'[p] \in PresSet
    BY <1>3, <1>8, <1>9, <1>10
  <2>2. pres' = [p \in PIds |-> pres'[p]]
    BY <1>5
  <2>3. QED
    BY <2>1, <2>2
<1>12. \A p \in PIds : pres'[p].name \in {NoName, pres[p].name}
  BY <1>8, <1>9, <1>10
<1>13. \A p \in PIds \ Sets : pres'[p] = pres[p]
  BY <1>6, <1>10
<1>14. ASSUME NEW n \in DOMAIN items["pres"], items["pres"][n].id \in Sets
       PROVE  LET p == items["pres"][n].id
              IN \/ Full /\ pres'[p] = NewSet
                 \/ /\ pres'[p].name = pres[p].name
                    /\ pres'[p][i.app] = items'["pres"][n][i.app]
                    /\ i.app # "sip" => pres'[p].sip = pres[p].sip
                    /\ i.app # "xdm" => pres'[p].xdm = pres[p].xdm
  <2> DEFINE p == items["pres"][n].id
  <2>1. p \in PIds /\ p \in OwnedSets
    BY <1>14 DEF OwnedSets, Sets
  <2>2. Owner(p) = n
    BY <2>1, OwnerFacts
  <2> HIDE DEF p
  <2>3. p \in Updated(i)
    BY <1>7, <2>1
  <2>4. pres'[p] = with(p) \/ (Full /\ pres'[p] = NewSet)
    BY <1>5, <2>1, <2>3
  <2>5. QED
    BY <1>8, <2>1, <2>2, <2>4 DEF p
<1>15. QED
  BY <1>11, <1>12, <1>13, <1>14

LEMMA SettingsSavedProvided ==
  ASSUME Sound, UNCHANGED actors, MessageOK, Known, NEW i \in told, SettingsSavedL(i)
  PROVE  Provided /\ (edited' = edited => Known')
<1>1. i \in Infos /\ heard \subseteq Infos /\ "pres" \in Kinds /\ "xdm" \in Kinds
  BY DEF MessageOK, Kinds
<1>2. /\ told' = told \ {i} /\ heard' = heard \cup {i} /\ UNCHANGED <<xdm, lastId>>
  BY DEF SettingsSavedL
<1>3. /\ items' \in [Kinds -> Seq(Item)]
      /\ \A k \in Kinds : Len(items'[k]) = Len(items[k]) /\ DOMAIN items'[k] = DOMAIN items[k]
      /\ \A k \in Kinds : \A n \in DOMAIN items[k] : items'[k][n] = Heard(k, items[k][n], i)
  BY <1>1, SettingsSavedItems DEF SettingsSavedL
<1>4. pres' \in [PIds -> PresSet] /\ \A p \in PIds : pres'[p].name \in {NoName, pres[p].name}
  BY <1>1, SettingsSavedSets
<1>5. Sound'
  <2>1. TablesTypeOK'
    BY <1>2, <1>4, TypeOfTables DEF Sound, TablesTypeOK, XdmRow, PresSet
  <2>2. Blank'
    BY <1>2 DEF Sound, Blank, Stored, Full
  <2>3. \A p, q \in Sets' : pres'[p].name = pres'[q].name => p = q
    BY <1>4 DEF Sound, UniqueNames, Sets
  <2>4. UniqueNames'
    BY <1>2, <2>3 DEF Sound, UniqueNames, Named, Reused
  <2>5. QED
    BY <2>1, <2>2, <2>4 DEF Sound
<1>6. MessageOK'
  BY <1>1, <1>2, <1>3 DEF MessageOK
<1>7. \A k \in Kinds : \A n \in DOMAIN items[k] :
         /\ items'[k][n].saved = items[k][n].saved /\ items'[k][n].id = items[k][n].id
         /\ items'[k][n].refs = items[k][n].refs
  <2> TAKE k \in Kinds
  <2> TAKE n \in DOMAIN items[k]
  <2> DEFINE it == items[k][n]
  <2>1. it \in Item /\ items'[k][n] = Heard(k, it, i)
    BY <1>3, ItemFacts
  <2> HIDE DEF it
  <2>2. Heard(k, it, i).saved = it.saved /\ Heard(k, it, i).id = it.id
        /\ Heard(k, it, i).refs = it.refs
    BY <1>1, <2>1, HeardFacts
  <2>3. QED
    BY <2>1, <2>2 DEF it
<1>8. Ordered'
  <2> SUFFICES ASSUME NEW k \in Kinds, NEW n \in DOMAIN items'[k]
               PROVE  /\ items'[k][n].saved = FALSE => items'[k][n].id = Unset
                      /\ items'[k][n].saved = TRUE =>
                            /\ n = Len(items'[k])
                            /\ items'[k][n].id \in IF k = "pres" THEN 1..lastId' ELSE XRows \cup {Failed}
                      /\ k = "pres" => items'[k][n].refs = Refs
    BY DEF Ordered
  <2>1. n \in DOMAIN items[k] /\ Len(items'[k]) = Len(items[k])
    BY <1>3
  <2>2. /\ items'[k][n].saved = items[k][n].saved /\ items'[k][n].id = items[k][n].id
        /\ items'[k][n].refs = items[k][n].refs
    BY <1>7, <2>1
  <2>3. /\ items[k][n].saved = FALSE => items[k][n].id = Unset
        /\ items[k][n].saved = TRUE =>
              /\ n = Len(items[k])
              /\ items[k][n].id \in IF k = "pres" THEN 1..lastId ELSE XRows \cup {Failed}
        /\ k = "pres" => items[k][n].refs = Refs
    BY <2>1 DEF Known, Ordered
  <2>4. QED
    BY <1>2, <2>1, <2>2, <2>3
<1>9. ASSUME edited' = edited PROVE PresKnown'
  <2> SUFFICES ASSUME NEW n \in DOMAIN items'["pres"]
               PROVE  /\ items'["pres"][n].sip \in ToldId("sip")'
                      /\ items'["pres"][n].xdm \in ToldId("xdm")'
                      /\ items'["pres"][n].saved = TRUE
                         /\ <<"pres", items'["pres"][n].id>> \notin edited =>
                            \/ Full' /\ pres'[items'["pres"][n].id] = NewSet
                            \/ /\ pres'[items'["pres"][n].id].name # NoName
                               /\ pres'[items'["pres"][n].id].sip = items'["pres"][n].sip
                               /\ pres'[items'["pres"][n].id].xdm = items'["pres"][n].xdm
    BY <1>9 DEF PresKnown
  <2> DEFINE it  == items["pres"][n]
             new == items'["pres"][n]
  <2>1. n \in DOMAIN items["pres"] /\ it \in Item /\ it.refs = Refs /\ new = Heard("pres", it, i)
    BY <1>1, <1>3, ItemFacts DEF Known, Ordered
  <2>2. i.app \in {"sip", "xdm"}
    BY <1>1 DEF Infos, Info
  <2>3. /\ i.app # "sip" => new.sip = it.sip
        /\ i.app # "xdm" => new.xdm = it.xdm
        /\ i.app = "sip" => new.sip = IF it.sip # Unset THEN it.sip ELSE i.id
        /\ i.app = "xdm" => new.xdm = IF it.xdm # Unset THEN it.xdm ELSE i.id
        /\ new.saved = it.saved /\ new.id = it.id
    BY <1>1, <2>1, HeardFacts
  <2>4. it.sip \in ToldId("sip") /\ it.xdm \in ToldId("xdm")
    BY <2>1 DEF Known, PresKnown, Full
  <2>5. /\ ToldId("sip") \subseteq ToldId("sip")' \cup {Unset}
        /\ ToldId("xdm") \subseteq ToldId("xdm")' \cup {Unset}
        /\ i.app # "sip" => ToldId("sip")' = ToldId("sip")
        /\ i.app # "xdm" => ToldId("xdm")' = ToldId("xdm")
        /\ i.app = "sip" => i.id \in ToldId("sip")'
        /\ i.app = "xdm" => i.id \in ToldId("xdm")'
    BY <1>1, <1>2, ToldIdFacts
  <2> HIDE DEF it, new
  <2>6. new.sip \in ToldId("sip")'
    BY <2>3, <2>4, <2>5
  <2>7. new.xdm \in ToldId("xdm")'
    BY <2>3, <2>4, <2>5
  <2>8. ASSUME new.saved = TRUE, <<"pres", new.id>> \notin edited
        PROVE  \/ Full' /\ pres'[new.id] = NewSet
               \/ /\ pres'[new.id].name # NoName
                  /\ pres'[new.id].sip = new.sip /\ pres'[new.id].xdm = new.xdm
    <3>1. it.saved = TRUE /\ <<"pres", it.id>> \notin edited
      BY <2>3, <2>8
    <3>2. \/ Full /\ pres[it.id] = NewSet
          \/ pres[it.id].name # NoName /\ pres[it.id].sip = it.sip /\ pres[it.id].xdm = it.xdm
      BY <2>1, <3>1 DEF Known, PresKnown, it
    <3>3. it.id \in PIds
      <4>1. it.id \in 1..lastId /\ lastId \in 0..MaxIds
        BY <1>1, <2>1, <3>1 DEF Known, Ordered, Sound, TablesTypeOK, it
      <4>2. QED
        BY <4>1, BoundAssumption DEF PIds
    <3>4. Full' = Full
      BY DEF Full
    <3>5. CASE Full /\ pres[it.id] = NewSet
      <4>1. it.id \in PIds \ Sets
        BY <3>3, <3>5 DEF Sets, NewSet
      <4>2. pres'[it.id] = NewSet
        BY <1>1, <3>5, <4>1, SettingsSavedSets
      <4>3. QED
        BY <2>3, <3>4, <3>5, <4>2
    <3>6. CASE pres[it.id].name # NoName /\ pres[it.id].sip = it.sip /\ pres[it.id].xdm = it.xdm
      <4>1. it.id \in Sets
        BY <3>3, <3>6 DEF Sets
      <4>2. \/ Full /\ pres'[it.id] = NewSet
            \/ /\ pres'[it.id].name = pres[it.id].name
               /\ pres'[it.id][i.app] = new[i.app]
               /\ i.app # "sip" => pres'[it.id].sip = pres[it.id].sip
               /\ i.app # "xdm" => pres'[it.id].xdm = pres[it.id].xdm
        BY <1>1, <2>1, <4>1, SettingsSavedSets DEF it, new
      <4>3. QED
        BY <2>2, <2>3, <3>4, <3>6, <4>2
    <3>7. QED
      BY <3>2, <3>5, <3>6
  <2>9. QED
    BY <2>6, <2>7, <2>8 DEF new
<1>10. ASSUME edited' = edited PROVE XdmKnown'
  <2> SUFFICES ASSUME NEW n \in DOMAIN items'["xdm"]
               PROVE  /\ items'["xdm"][n].sip \in {Unset} \cup ToldSip'
                      /\ items'["xdm"][n].saved = TRUE /\ ~Full => items'["xdm"][n].id \in XRows
                      /\ items'["xdm"][n].saved = TRUE
                         /\ ~Full /\ <<"xdm", items'["xdm"][n].id>> \notin edited =>
                            xdm'[items'["xdm"][n].id].sip \in {Absent} \cup ToldSip'
    BY <1>10 DEF XdmKnown, Full
  <2>1. n \in DOMAIN items["xdm"] /\ items["xdm"][n] \in Item
        /\ items'["xdm"][n] = Heard("xdm", items["xdm"][n], i)
    BY <1>1, <1>3, ItemFacts
  <2>2. items'["xdm"][n].sip \in {items["xdm"][n].sip} \cup (IF i.app = "sip" THEN {i.id} ELSE {})
    BY <1>1, <2>1, HeardFacts
  <2>3. ToldSip \subseteq ToldSip' /\ (i.app = "sip" => i.id \in ToldSip')
    BY <1>1, <1>2, ToldIdFacts
  <2>4. items["xdm"][n].sip \in {Unset} \cup ToldSip
    BY <2>1 DEF Known, XdmKnown, Full
  <2>5. items'["xdm"][n].sip \in {Unset} \cup ToldSip'
    BY <2>2, <2>3, <2>4
  <2>6. ASSUME items'["xdm"][n].saved = TRUE, ~Full, <<"xdm", items'["xdm"][n].id>> \notin edited
        PROVE  xdm'[items'["xdm"][n].id].sip \in {Absent} \cup ToldSip'
    <3>1. items["xdm"][n].saved = TRUE /\ items["xdm"][n].id = items'["xdm"][n].id
      BY <1>1, <1>7, <2>1, <2>6
    <3>2. xdm[items["xdm"][n].id].sip \in {Absent} \cup ToldSip
      BY <2>1, <2>6, <3>1 DEF Known, XdmKnown, Full
    <3>3. QED
      BY <1>2, <2>3, <3>1, <3>2
  <2>7. items'["xdm"][n].saved = TRUE /\ ~Full => items'["xdm"][n].id \in XRows
    BY <1>1, <1>7, <2>1 DEF Known, XdmKnown
  <2>8. QED
    BY <2>5, <2>6, <2>7
<1>11. QED
  BY <1>5, <1>6, <1>8, <1>9, <1>10 DEF Provided, Known

LEMMA ProvNextProvided ==
  ASSUME Sound, UNCHANGED actors, MessageOK, Known, ProvNext
  PROVE  Provided /\ (edited' = edited => Known')
<1>1. ASSUME NEW k \in Kinds, VisitL(k) PROVE Provided /\ (edited' = edited => Known')
  BY <1>1, VisitProvided
<1>2. ASSUME NEW k \in Kinds, NEW n \in DOMAIN items[k], RefuseL(k, n)
      PROVE  Provided /\ (edited' = edited => Known')
  BY <1>2, RefuseProvided DEF RefuseL
<1>3. ASSUME NEW n \in DOMAIN items["pres"], SavePresL(n)
      PROVE  Provided /\ (edited' = edited => Known')
  BY <1>3, SavePresProvided
<1>4. ASSUME NEW n \in DOMAIN items["xdm"], SaveXdmL(n)
      PROVE  Provided /\ (edited' = edited => Known')
  BY <1>4, SaveXdmProvided
<1>5. ASSUME NEW i \in told, SettingsSavedL(i)
      PROVE  Provided /\ (edited' = edited => Known')
  BY <1>5, SettingsSavedProvided
<1>6. ASSUME SavingFinalizedL PROVE Provided /\ (edited' = edited => Known')
  BY <1>6, FinalizedProvided
<1>7. QED
  BY <1>1, <1>2, <1>3, <1>4, <1>5, <1>6, SaveSipProvided DEF ProvNext

(* What the others write is noted, so that what is not noted is as before. *)
LEMMA EditedFacts ==
  ASSUME edited' = Edited, edited \subseteq Trees \X Digits
  PROVE  /\ edited' \subseteq Trees \X Digits
         /\ \A n \in DOMAIN items["pres"] :
              items["pres"][n].id \in PIds /\ <<"pres", items["pres"][n].id>> \notin edited' =>
                 /\ <<"pres", items["pres"][n].id>> \notin edited
                 /\ pres'[items["pres"][n].id] = pres[items["pres"][n].id]
         /\ \A n \in DOMAIN items["xdm"] :
              items["xdm"][n].id \in XRows /\ <<"xdm", items["xdm"][n].id>> \notin edited' =>
                 /\ <<"xdm", items["xdm"][n].id>> \notin edited
                 /\ xdm'[items["xdm"][n].id] = xdm[items["xdm"][n].id]
<1> DEFINE P == {j \in Owned("pres") \cap PIds : pres'[j] # pres[j]}
           X == {j \in Owned("xdm") \cap XRows : xdm'[j] # xdm[j]}
<1>1. edited' = edited \cup {<<"pres", i>> : i \in P} \cup {<<"xdm", i>> : i \in X}
  BY DEF Edited
<1>2. edited' \subseteq Trees \X Digits
  <2>1. P \subseteq Digits /\ X \subseteq Digits
    BY DEF Digits
  <2>2. "pres" \in Trees /\ "xdm" \in Trees
    BY DEF Trees
  <2> HIDE DEF P, X
  <2>3. QED
    BY <1>1, <2>1, <2>2
<1>3. ASSUME NEW n \in DOMAIN items["pres"], items["pres"][n].id \in PIds,
             <<"pres", items["pres"][n].id>> \notin edited'
      PROVE  /\ <<"pres", items["pres"][n].id>> \notin edited
             /\ pres'[items["pres"][n].id] = pres[items["pres"][n].id]
  <2>1. items["pres"][n].id \in Owned("pres")
    BY DEF Owned
  <2>2. items["pres"][n].id \notin P /\ <<"pres", items["pres"][n].id>> \notin edited
    <3> HIDE DEF P, X
    <3>1. QED
      BY <1>1, <1>3
  <2>3. QED
    BY <1>3, <2>1, <2>2
<1>4. ASSUME NEW n \in DOMAIN items["xdm"], items["xdm"][n].id \in XRows,
             <<"xdm", items["xdm"][n].id>> \notin edited'
      PROVE  /\ <<"xdm", items["xdm"][n].id>> \notin edited
             /\ xdm'[items["xdm"][n].id] = xdm[items["xdm"][n].id]
  <2>1. items["xdm"][n].id \in Owned("xdm")
    BY DEF Owned
  <2>2. items["xdm"][n].id \notin X /\ <<"xdm", items["xdm"][n].id>> \notin edited
    <3> HIDE DEF P, X
    <3>1. QED
      BY <1>1, <1>4
  <2>3. QED
    BY <1>4, <2>1, <2>2
<1>5. QED
  BY <1>2, <1>3, <1>4

-----------------------------------------------------------------------------
(* The inductive invariant. The set in the cache is one that exists, as it *)
(* is, unless it was written since it was read.                            *)
Fresh == cache.id \in PIds /\ ~aged => cache.id \in Sets /\ cache.set = pres[cache.id]

Inv == Sound /\ DmTypeOK /\ MessageOK /\ Known /\ Fresh
       /\ edited \subseteq Trees \X Digits /\ aged \in BOOLEAN

(* A cache that did not age in a step holds what it held.                  *)
LEMMA FreshKept ==
  ASSUME Fresh, CacheMoves, aged' = Aged, cache'.id = Unset => cache'.id \notin PIds
  PROVE  Fresh' /\ aged' \in BOOLEAN
<1>1. aged' \in BOOLEAN
  BY DEF Aged
<1>2. ASSUME cache'.id \in PIds, ~aged'
      PROVE  cache'.id \in Sets' /\ cache'.set = pres'[cache'.id]
  <2>1. cache'.id = cache.id => ~aged /\ pres'[cache.id] = pres[cache.id]
    BY <1>2 DEF Aged
  <2>2. CASE cache' = cache
    <3>1. cache.id \in Sets /\ cache.set = pres[cache.id] /\ pres'[cache.id] = pres[cache.id]
      BY <1>2, <2>1, <2>2 DEF Fresh
    <3>2. QED
      BY <2>2, <3>1 DEF Sets
  <2>3. CASE UNCHANGED pres /\ cache'.id \in Sets /\ cache'.set = pres[cache'.id]
    BY <2>3 DEF Sets
  <2>4. QED
    BY <1>2, <2>2, <2>3 DEF CacheMoves
<1>3. QED
  BY <1>1, <1>2 DEF Fresh

LEMMA UnsetIsNoId == Unset \notin PIds
BY BoundAssumption DEF Unset, PIds

(* What the adapter answers from a cache that has not aged is so.          *)
LEMMA FreshAnswers ==
  ASSUME DmTypeOK, Fresh, FromCache, reply.cmd = "fetch"
  PROVE  FetchSound
<1> SUFFICES ASSUME reply.tree = "pres", reply.status = "EOk", reply.id # Unset, ~aged
             PROVE  IsCurrent
  BY DEF FetchSound
<1>1. /\ reply.id = cache.id /\ reply.name = cache.set.name
      /\ reply.ref # Unset => reply.ref = cache.set[reply.col]
  BY DEF FromCache
<1>2. cache.id \in PIds
  BY <1>1, TypeOfDm DEF Caches
<1>3. cache.id \in Sets /\ cache.set = pres[cache.id]
  BY <1>2 DEF Fresh
<1>4. QED
  BY <1>1, <1>3 DEF IsCurrent

LEMMA OthersKeep ==
  ASSUME Inv, Managed, UNCHANGED <<provVars, actors>>, edited' = Edited, aged' = Aged
  PROVE  Inv' /\ AnswerSound
<1>1. UNCHANGED <<items, told, heard>>
  BY DEF provVars
<1>2. MessageOK' /\ "pres" \in Kinds /\ "xdm" \in Kinds
  BY <1>1 DEF Inv, MessageOK, Kinds
<1>3. lastId \in 0..MaxIds /\ lastId' \in 0..MaxIds /\ lastId' >= lastId
  BY DEF Inv, Managed, Sound, TablesTypeOK
<1>4. Ordered'
  <2>1. 1..lastId \subseteq 1..lastId'
    BY <1>3
  <2>2. QED
    BY <1>1, <2>1 DEF Inv, Known, Ordered
<1>5. 1..lastId \subseteq PIds
  BY <1>3, BoundAssumption DEF PIds
<1>6. /\ \A n \in DOMAIN items["pres"] :
            items["pres"][n].saved = TRUE => items["pres"][n].id \in PIds
      /\ \A n \in DOMAIN items["xdm"] :
            items["xdm"][n].saved = TRUE /\ ~Full => items["xdm"][n].id \in XRows
  BY <1>2, <1>5 DEF Inv, Known, Ordered, XdmKnown
<1>7. (\A app : ToldId(app)' = ToldId(app)) /\ ToldSip' = ToldSip
  BY <1>1 DEF ToldId, ToldSip
<1>8. PresKnown'
  BY <1>1, <1>6, <1>7, EditedFacts DEF Inv, Known, PresKnown, Full
<1>9. XdmKnown'
  BY <1>1, <1>6, <1>7, EditedFacts DEF Inv, Known, XdmKnown, Full
<1>10. edited' \subseteq Trees \X Digits
  BY EditedFacts DEF Inv
<1>11. Fresh' /\ aged' \in BOOLEAN
  BY FreshKept, UnsetIsNoId DEF Inv, Managed
<1>12. Inv'
  BY <1>2, <1>4, <1>8, <1>9, <1>10, <1>11 DEF Inv, Managed, Known
<1>13. DmTypeOK' /\ FromCache' /\ (reply'.cmd = "update" => UpdateSound)
  BY DEF Managed
<1>14. (DmTypeOK /\ Fresh /\ FromCache /\ reply.cmd = "fetch" => FetchSound)'
  BY FreshAnswers, PTL
<1>15. reply'.cmd = "fetch" => FetchSound'
  BY <1>11, <1>13, <1>14
<1>16. QED
  BY <1>12, <1>13, <1>15 DEF AnswerSound

LEMMA ProvisionsKeep ==
  ASSUME Inv, Provisions
  PROVE  Inv' /\ AnswerSound
<1>1. /\ ProvNext /\ reply' = NoReply /\ UNCHANGED <<luid, cache, actors>>
      /\ edited' = IF items' = [k \in Kinds |-> <<>>] THEN {} ELSE edited
      /\ aged' = Aged
  BY DEF Provisions
<1>2. Provided /\ (edited' = edited => Known')
  BY <1>1, ProvNextProvided DEF Inv
<1>3. Known'
  BY <1>1, <1>2, NothingKnown
<1>4. DmTypeOK' /\ reply'.cmd = "none"
  BY <1>1, NoReplyType DEF Inv, DmTypeOK, Replies, Luids
<1>5. edited' \subseteq Trees \X Digits
  BY <1>1 DEF Inv
<1>6. Fresh' /\ aged' \in BOOLEAN
  BY <1>1, FreshKept, UnsetIsNoId DEF Inv, CacheMoves
<1>7. QED
  BY <1>2, <1>3, <1>4, <1>5, <1>6 DEF Provided, Inv, AnswerSound

LEMMA NextKeeps ==
  ASSUME Inv, Next
  PROVE  Inv' /\ AnswerSound
<1>1. CASE Provisions
  BY <1>1, ProvisionsKeep
<1>2. CASE Manages
  <2>1. UNCHANGED <<provVars, actors>> /\ edited' = Edited /\ aged' = Aged
    BY <1>2 DEF Manages
  <2>2. Managed
    BY <1>2, <2>1, ManagesManaged DEF Inv
  <2>3. QED
    BY <2>1, <2>2, OthersKeep
<1>3. CASE Views
  <2>1. /\ ViewNext /\ reply' = NoReply /\ UNCHANGED <<provVars, luid, cache, actors>>
        /\ edited' = Edited /\ aged' = Aged
    BY <1>3 DEF Views
  <2>2. Managed
    BY <2>1, ViewManaged DEF Inv
  <2>3. QED
    BY <2>1, <2>2, OthersKeep
<1>4. QED
  BY <1>1, <1>2, <1>3 DEF Next

LEMMA StutterKeeps ==
  ASSUME Inv, UNCHANGED vars
  PROVE  Inv'
<1>1. UNCHANGED <<tables, items, told, heard, luid, cache, reply, edited, aged, actors, provVars>>
  BY DEF vars, provVars, dmVars
<1>2. Sound' /\ MessageOK' /\ DmTypeOK'
  BY <1>1, SoundSame DEF Inv, MessageOK, DmTypeOK
<1>3. Known'
  BY <1>1, RefuseProvided DEF Inv
<1>4. Fresh'
  BY <1>1 DEF Inv, Fresh, Sets, tables
<1>5. QED
  BY <1>1, <1>2, <1>3, <1>4 DEF Inv

LEMMA InitHolds == Init => Inv
<1> SUFFICES ASSUME Init PROVE Inv
  OBVIOUS
<1> USE DEF Init
<1>1. Sound
  <2>1. EmptyRow \in XdmRow /\ EmptyRow.name = NoName /\ NewSet \in PresSet /\ NewSet.name = NoName
    BY DEF EmptyRow, XdmRow, NewSet, PresSet
  <2>2. TablesTypeOK
    BY <2>1, TypeOfTables, BoundAssumption DEF TablesInit
  <2>3. \A r \in XRows : xdm[r] = EmptyRow
    BY DEF TablesInit
  <2>4. \A i \in PIds : pres[i] = NewSet
    BY DEF TablesInit
  <2>5. UniqueNames /\ Blank
    BY <2>1, <2>3, <2>4 DEF UniqueNames, Blank, Sets, Named, Full
  <2>6. QED
    BY <2>2, <2>5 DEF Sound
<1>2. DmTypeOK
  <2>1. NewSet \in PresSet
    BY DEF NewSet, PresSet
  <2>2. luid \in [Trees -> [Bases -> Luids]] /\ cache \in Caches /\ reply \in Replies
    BY <2>1, NoReplyType DEF DmInit, Luids, Caches
  <2>3. QED
    BY <2>2, TypeOfDm
<1>3. items = [k \in Kinds |-> <<>>] /\ told = {} /\ heard = {}
  BY DEF ProvInit
<1>4. MessageOK
  BY <1>3, ItemsAssumption DEF MessageOK
<1>5. Known
  <2>1. \A k \in Kinds : DOMAIN items[k] = {}
    BY <1>3
  <2>2. "pres" \in Kinds /\ "xdm" \in Kinds
    BY DEF Kinds
  <2>3. QED
    BY <2>1, <2>2 DEF Known, Ordered, PresKnown, XdmKnown, Full
<1>6. Fresh
  BY UnsetIsNoId DEF Fresh, DmInit
<1>7. QED
  BY <1>1, <1>2, <1>4, <1>5, <1>6 DEF Inv

THEOREM Invariance == Spec => []Inv
<1>1. Inv /\ [Next]_vars => Inv'
  BY NextKeeps, StutterKeeps
<1>2. QED
  BY InitHolds, <1>1, PTL DEF Spec

-----------------------------------------------------------------------------
LEMMA InvIsTyped == Inv => TypeOK
<1> SUFFICES ASSUME Inv PROVE TypeOK
  OBVIOUS
<1>1. ProvTypeOK
  BY DEF Inv, MessageOK, ProvTypeOK, Infos
<1>2. QED
  BY <1>1 DEF Inv, Sound, TypeOK

LEMMA InvIsSound == Inv => TablesSound
<1> SUFFICES ASSUME Inv PROVE TablesSound
  OBVIOUS
<1>1. NoPanic
  <2>1. EmptyRow.name = NoName
    BY DEF EmptyRow
  <2>2. QED
    BY <2>1 DEF Inv, Sound, Blank, NoPanic, Named, Stored, Full
<1>2. QED
  BY <1>1, InvIsTyped DEF Inv, Sound, TablesSound

LEMMA InvIsResolved == Inv => RefsResolved
<1> SUFFICES ASSUME Inv PROVE RefsResolved
  OBVIOUS
<1>1. ToldSip \subseteq ToldId("sip")
  BY DEF ToldSip, ToldId
<1>2. ASSUME NEW n \in DOMAIN items["pres"], items["pres"][n].saved,
             <<"pres", items["pres"][n].id>> \notin edited
      PROVE  \/ Full /\ pres[items["pres"][n].id] = NewSet
             \/ /\ pres[items["pres"][n].id].sip \in ToldId("sip")
                /\ pres[items["pres"][n].id].xdm \in ToldId("xdm")
  <2>1. items["pres"][n].saved = TRUE
    BY <1>2, ItemFacts DEF Inv, Kinds
  <2>2. QED
    BY <1>2, <2>1 DEF Inv, Known, PresKnown, Full
<1>3. ASSUME NEW n \in DOMAIN items["xdm"], items["xdm"][n].saved, ~Full,
             <<"xdm", items["xdm"][n].id>> \notin edited
      PROVE  xdm[items["xdm"][n].id].sip \in {Absent} \cup ToldId("sip")
  <2>1. items["xdm"][n].saved = TRUE
    BY <1>3, ItemFacts DEF Inv, Kinds
  <2>2. QED
    BY <1>1, <1>3, <2>1 DEF Inv, Known, XdmKnown, Full
<1>4. QED
  BY <1>2, <1>3 DEF RefsResolved

(* Tables, message and adapters keep their types, for tables and messages  *)
(* of every size: no SIP id is ever stored where an XDM id belongs.        *)
THEOREM TypeCorrect == Spec => []TypeOK
BY Invariance, InvIsTyped, PTL

(* No two presence sets ever have the same name, whatever writes fail; nor *)
(* two collections while the name that was checked is the one written; and *)
(* every name has an id while ids can be written (CheckDuplicateNameL and  *)
(* the numbering of names in both plug-ins and both adapters).             *)
THEOREM TablesAlwaysSound == Spec => []TablesSound
BY Invariance, InvIsSound, PTL

(* The sets that a message has saved hold the ids that were told, in       *)
(* whatever order items are saved and ids told (SettingsSavedL), or are    *)
(* gone where a write failed.                                              *)
THEOREM RefsAlwaysResolved == Spec => []RefsResolved
BY Invariance, InvIsResolved, PTL

(* An update that device management answers with EOk has happened, except  *)
(* that the XDM settings drop the errors of a full repository; and a leaf  *)
(* is answered from the set as it is, unless it was written after the      *)
(* adapter read it (UpdateLeafObjectL, FetchLeafObjectL).                  *)
THEOREM AnswersAlwaysSound == Spec => AnswersSound
<1>1. Inv /\ [Next]_vars => [AnswerSound]_vars
  BY NextKeeps
<1>2. QED
  BY Invariance, <1>1, PTL DEF Spec, AnswersSound
=============================================================================
