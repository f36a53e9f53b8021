---------------------------- MODULE PresSettings ----------------------------
(***************************************************************************)
(* The table of presence settings sets (PresSettingsApi): one row of a     *)
(* central repository per set, one key per column.  Every call of the      *)
(* repository is atomic and a method makes several of them, so a step here *)
(* is one repository call; the processes that use the table (settings UI,  *)
(* provisioning, device management server) interleave between the calls,   *)
(* may crash between them, and a write may fail.                           *)
(* The eleven data columns are two, "name" and "rest", in that order.      *)
(***************************************************************************)
EXTENDS Naturals, FiniteSets, FiniteSetsExt

CONSTANTS
    NRows,      \* the usable rows are 1..NRows
    Clients,    \* the processes that use the table
    Creators,   \* those that create sets
    Vals,       \* values of a column
    MaxIds,     \* bound: how many ids are given out
    Env         \* what may go wrong: "crash", "writeFails"

ASSUME RowsAssumption   == NRows \in Nat \ {0}
ASSUME IdsAssumption    == MaxIds \in Nat \ {0}
ASSUME ClientAssumption == Creators \subseteq Clients
ASSUME ValsAssumption   == "none" \notin Vals
ASSUME EnvAssumption    == Env \subseteq {"crash", "writeFails"}

VARIABLES
    repo,       \* the rows
    counter,    \* the last id given out, kept in a row of its own
    counted,    \* the key of the counter exists
    call        \* per client, the method it is in

vars == <<repo, counter, counted, call>>

Rows == 1..NRows
Ids  == 1..MaxIds
None == "none"                     \* a key that does not exist
Cell == Vals \cup {None}

Row   == [id : 0..MaxIds, name : Cell, rest : Cell]
Empty == [id |-> 0, name |-> None, rest |-> None]

Methods == {"none", "CreateSetL", "UpdateSetL", "UpdatePropertyL",
            "RemoveSetL", "SettingsSetL", "GetAllSetsNamesLC"}

Places == {"idle", "fresh", "count", "make", "bump", "claim", "find", "match",
           "name", "rest", "settle", "delete", "again", "list", "ident", "purge", "done"}

Answers == {"none", "ok", "notFound", "corrupt", "left", "argument"}

(* row 0 is no row of a set; a search for a free row has rows left *)
Call == {k \in [method : Methods, at : Places, id : 0..MaxIds, val : Cell,
                row : 0..NRows, keys : SUBSET Rows, bad : BOOLEAN,
                answer : Answers, alone : BOOLEAN] :
           k.at = "fresh" => k.row < NRows}

Entered(m, p, i, v, a) ==
    [method |-> m, at |-> p, id |-> i, val |-> v, row |-> 0,
     keys |-> {}, bad |-> FALSE, answer |-> "none", alone |-> a]
Left(old, a) ==
    [method |-> old.method, at |-> "done", id |-> old.id, val |-> old.val, row |-> 0,
     keys |-> {}, bad |-> FALSE, answer |-> a, alone |-> old.alone]
Idle == Entered("none", "idle", 0, None, TRUE)

Init ==
    /\ repo = [r \in Rows |-> Empty]
    /\ counter = 0 /\ counted = FALSE
    /\ call = [c \in Clients |-> Idle]

Present(i) == \E r \in Rows : repo[r].id = i
Keys == {r \in Rows : repo[r].id # 0}

Is(c, m, p)     == call[c].method \in m /\ call[c].at = p
Goto(c, p)      == call' = [call EXCEPT ![c].at = p]
Finish(c, a)    == call' = [call EXCEPT ![c] = Left(@, a)]
MayFail         == "writeFails" \in Env

-----------------------------------------------------------------------------
(* A client enters a method. From here on nobody else's call is alone.     *)
Enter(c, m, p, i, v) ==
    /\ call[c].at = "idle"
    /\ call' = [d \in Clients |->
          IF d = c
          THEN Entered(m, p, i, v, \A e \in Clients \ {c} : call[e].at = "idle")
          ELSE [call[d] EXCEPT !.alone = call[d].at = "idle"]]
    /\ UNCHANGED <<repo, counter, counted>>

CreateSetL(c)        == c \in Creators /\ \E v \in Vals : Enter(c, "CreateSetL", "fresh", 0, v)
UpdateSetL(c)        == \E i \in Ids, v \in Vals : Enter(c, "UpdateSetL", "find", i, v)
UpdatePropertyL(c)   == \E i \in Ids, v \in Vals : Enter(c, "UpdatePropertyL", "find", i, v)
RemoveSetL(c)        == \E i \in Ids : Enter(c, "RemoveSetL", "find", i, None)
SettingsSetL(c)      == \E i \in Ids : Enter(c, "SettingsSetL", "find", i, None)
GetAllSetsNamesLC(c) == Enter(c, "GetAllSetsNamesLC", "find", 0, None)

(* The rows are read one after the other, up to the first whose id key is  *)
(* missing; row 0 when the table is full.                                  *)
GetFreshRawInHex(c) ==
    LET r == call[c].row + 1
    IN /\ Is(c, {"CreateSetL"}, "fresh")
       /\ call' = [call EXCEPT ![c].at = IF repo[r].id = 0 \/ r = NRows THEN "count" ELSE @,
                               ![c].row = IF repo[r].id # 0 /\ r = NRows THEN 0 ELSE r]
       /\ UNCHANGED <<repo, counter, counted>>

(* CreateUniqueIdL reads the counter, creates it when there is none,       *)
(* writes it back incremented, and puts the id into the row; each of these *)
(* is a call of its own.                                                   *)
ReadCounterMutant(c) ==               \* the largest id in use, plus one
    /\ Is(c, {"CreateSetL"}, "count")
    /\ counter < MaxIds
    /\ call' = IF counted
          THEN [call EXCEPT ![c].at = "bump",
                            ![c].id = Max({0} \cup {repo[r].id : r \in Rows}) + 1]
          ELSE [call EXCEPT ![c].at = "make"]
    /\ UNCHANGED <<repo, counter, counted>>

ReadCounter(c) ==
    /\ Is(c, {"CreateSetL"}, "count")
    /\ counter < MaxIds                     \* bound
    /\ call' = IF counted THEN [call EXCEPT ![c].at = "bump", ![c].id = counter + 1]
               ELSE [call EXCEPT ![c].at = "make"]
    /\ UNCHANGED <<repo, counter, counted>>

CreateCounter(c) ==
    /\ Is(c, {"CreateSetL"}, "make")
    /\ \/ /\ ~counted /\ counted' = TRUE
          /\ call' = [call EXCEPT ![c].at = "bump", ![c].id = 1]
       \/ (MayFail \/ counted) /\ Finish(c, "left") /\ UNCHANGED counted
    /\ UNCHANGED <<repo, counter>>

WriteCounterMutant(c) ==              \* an error of the write goes unnoticed
    /\ Is(c, {"CreateSetL"}, "bump")
    /\ counter' \in {call[c].id, counter} /\ Goto(c, "claim")
    /\ UNCHANGED <<repo, counted>>

WriteCounter(c) ==
    /\ Is(c, {"CreateSetL"}, "bump")
    /\ \/ counter' = call[c].id /\ Goto(c, "claim")
       \/ MayFail /\ Finish(c, "left") /\ UNCHANGED counter
    /\ UNCHANGED <<repo, counted>>

CreateIdKey(c) ==
    LET r == call[c].row
    IN /\ Is(c, {"CreateSetL"}, "claim")
       /\ IF r # 0 /\ repo[r].id = 0
          THEN \/ /\ repo' = [repo EXCEPT ![r].id = call[c].id]
                  /\ Goto(c, "name")
               \/ MayFail /\ Finish(c, "left") /\ UNCHANGED repo
          ELSE Finish(c, "left") /\ UNCHANGED repo
       /\ UNCHANGED <<counter, counted>>

(* FindL collects the id keys; without any, not even the counter's, the    *)
(* methods that look for a row leave.                                      *)
FindKeys(c) ==
    /\ call[c].at = "find"
    /\ IF call[c].method = "GetAllSetsNamesLC"
       THEN call' = [call EXCEPT ![c].at = "list", ![c].keys = Keys]
       ELSE IF Keys = {} /\ ~counted THEN Finish(c, "left")
       ELSE call' = [call EXCEPT ![c].at = "match", ![c].keys = Keys]
    /\ UNCHANGED <<repo, counter, counted>>

(* The keys are read one after the other up to the one that holds the id;  *)
(* a key that another process has removed since FindL makes the method     *)
(* leave.                                                                  *)
(* UpdatePropertyL goes for the column of its property, and refuses a      *)
(* value of the wrong type.                                                *)
Target(m) == CASE m = "RemoveSetL"      -> {"delete"}
               [] m = "UpdatePropertyL" -> {"name", "rest"}
               [] OTHER                 -> {"name"}

MatchKeys(c) ==
    LET r == Min(call[c].keys)
    IN /\ call[c].at = "match"
       /\ IF call[c].keys = {} THEN Finish(c, "notFound")
          ELSE IF repo[r].id = 0 THEN Finish(c, "left")
          ELSE IF repo[r].id # call[c].id THEN call' = [call EXCEPT ![c].keys = @ \ {r}]
          ELSE \/ \E p \in Target(call[c].method) :
                        call' = [call EXCEPT ![c].row = r, ![c].at = p, ![c].keys = {}]
               \/ call[c].method = "UpdatePropertyL" /\ Finish(c, "argument")
       /\ UNCHANGED <<repo, counter, counted>>

(* One column of the row is created, set or read; an error is added to the *)
(* sum and the next column follows. Setting a key that does not exist      *)
(* creates it or fails.                                                    *)
Wrote(c, col)  == repo' = [repo EXCEPT ![call[c].row][col] = call[c].val]
Absent(c, col) == repo[call[c].row][col] = None
After(c, col)  == IF col = "name" /\ call[c].method # "UpdatePropertyL"
                  THEN "rest" ELSE "settle"
Failed(c, col) ==
    /\ call' = [call EXCEPT ![c].at = After(c, col), ![c].bad = TRUE]
    /\ UNCHANGED repo

CreateKey(c, col) ==
    /\ Is(c, {"CreateSetL"}, col)
    /\ \/ Absent(c, col) /\ Wrote(c, col) /\ Goto(c, After(c, col))
       \/ (MayFail \/ ~Absent(c, col)) /\ Failed(c, col)
    /\ UNCHANGED <<counter, counted>>

SetKey(c, col) ==
    /\ Is(c, {"UpdateSetL", "UpdatePropertyL"}, col)
    /\ \/ Wrote(c, col) /\ Goto(c, After(c, col))
       \/ (MayFail \/ Absent(c, col)) /\ Failed(c, col)
    /\ UNCHANGED <<counter, counted>>

GetKey(c, col) ==
    /\ Is(c, {"SettingsSetL"}, col)
    /\ IF Absent(c, col) THEN Failed(c, col)
       ELSE Goto(c, After(c, col)) /\ UNCHANGED repo
    /\ UNCHANGED <<counter, counted>>

(* Any error in the sum makes the method delete the whole row, a failed    *)
(* read included. CreateSetL then leaves, the others answer KErrCorrupt.   *)
SettleMutant(c) ==                    \* errors are not added up
    /\ call[c].at = "settle" /\ Finish(c, "ok") /\ UNCHANGED <<repo, counter, counted>>
Settle(c) ==
    LET r == call[c].row
    IN /\ call[c].at = "settle"
       /\ IF call[c].bad
          THEN /\ repo' = [repo EXCEPT ![r] = Empty]
               /\ Finish(c, IF call[c].method = "CreateSetL" THEN "left" ELSE "corrupt")
          ELSE Finish(c, "ok") /\ UNCHANGED repo
       /\ UNCHANGED <<counter, counted>>

(* RemoveSetL tries again when there was nothing to delete. *)
DeleteRow(c) ==
    LET r == call[c].row
    IN /\ call[c].at = "delete"
       /\ IF repo[r] = Empty THEN Goto(c, "again") ELSE Finish(c, "ok")
       /\ repo' = [repo EXCEPT ![r] = Empty]
       /\ UNCHANGED <<counter, counted>>

DeleteAgain(c) ==
    /\ call[c].at = "again"
    /\ Finish(c, "corrupt")
    /\ repo' = [repo EXCEPT ![call[c].row] = Empty]
    /\ UNCHANGED <<counter, counted>>

(* A listing reads the name and the id of each row, and deletes the rows   *)
(* of which it could not read both.                                        *)
ListName(c) ==
    /\ call[c].at = "list"
    /\ IF call[c].keys = {} THEN Finish(c, "ok")
       ELSE call' = [call EXCEPT ![c].at = "ident", ![c].bad = repo[Min(call[c].keys)].name = None]
    /\ UNCHANGED <<repo, counter, counted>>

ListId(c) ==
    LET r == Min(call[c].keys)
    IN /\ call[c].at = "ident"
       /\ call' = IF call[c].bad \/ repo[r].id = 0 THEN [call EXCEPT ![c].at = "purge"]
                  ELSE [call EXCEPT ![c].at = "list", ![c].keys = @ \ {r}]
       /\ UNCHANGED <<repo, counter, counted>>

PurgeRow(c) ==
    LET r == Min(call[c].keys)
    IN /\ call[c].at = "purge"
       /\ repo' = [repo EXCEPT ![r] = Empty]
       /\ call' = [call EXCEPT ![c].at = "list", ![c].keys = @ \ {r}]
       /\ UNCHANGED <<counter, counted>>

Return(c) ==
    /\ call[c].at = "done"
    /\ call' = [call EXCEPT ![c] = Idle]
    /\ UNCHANGED <<repo, counter, counted>>

(* The process dies in the middle of a method.                             *)
Crash(c) ==
    /\ "crash" \in Env /\ call[c].at \notin {"idle", "done"}
    /\ call' = [call EXCEPT ![c] = Idle]
    /\ UNCHANGED <<repo, counter, counted>>

Next == \E c \in Clients :
    \/ CreateSetL(c) \/ UpdateSetL(c) \/ UpdatePropertyL(c) \/ RemoveSetL(c)
    \/ SettingsSetL(c) \/ GetAllSetsNamesLC(c)
    \/ GetFreshRawInHex(c) \/ ReadCounter(c) \/ CreateCounter(c) \/ WriteCounter(c) \/ CreateIdKey(c)
    \/ FindKeys(c) \/ MatchKeys(c)
    \/ \E col \in {"name", "rest"} : CreateKey(c, col) \/ SetKey(c, col) \/ GetKey(c, col)
    \/ Settle(c) \/ DeleteRow(c) \/ DeleteAgain(c) \/ ListName(c) \/ ListId(c) \/ PurgeRow(c)
    \/ Return(c) \/ Crash(c)

Spec == Init /\ [][Next]_vars

-----------------------------------------------------------------------------
(* The table, the counter and the progress of each call keep their types:  *)
(* in particular an id is never larger than the counter was bounded to.    *)
TypeOK ==
    /\ repo \in [Rows -> Row]
    /\ counter \in 0..MaxIds /\ counted \in BOOLEAN
    /\ call \in [Clients -> Call]

(* An id names one set: no two rows hold the same, whatever the other      *)
(* processes do between the calls of CreateUniqueIdL, and after crashes.   *)
UniqueIds == \A r, s \in Rows : repo[r].id # 0 /\ repo[r].id = repo[s].id => r = s

(* An id that has been given out and is gone never names a set again, so   *)
(* a reference kept elsewhere cannot come to mean another set.             *)
NeverReused == \A i \in Ids : [](Present(i) => [](~Present(i) => []~Present(i)))

(* What an answer promises holds when the method was not overlapped by     *)
(* another client's: a created or updated set is there with its values, a  *)
(* removed set is gone, a set that was read is whole.                      *)
Whole(r) == repo[r].name # None /\ repo[r].rest # None
Promise(c) ==
    LET m == call[c].method
        i == call[c].id
        v == call[c].val
    IN CASE m = "CreateSetL" -> \E r \in Rows : repo[r] = [id |-> i, name |-> v, rest |-> v]
         [] m = "UpdateSetL" -> \E r \in Rows : repo[r] = [id |-> i, name |-> v, rest |-> v]
         [] m = "RemoveSetL" -> ~Present(i)
         [] m = "SettingsSetL" -> \A r \in Rows : repo[r].id = i => Whole(r)
         [] OTHER -> TRUE
AnswerHolds == \A c \in Clients :
    call[c].at = "done" /\ call[c].answer = "ok" /\ call[c].alone => Promise(c)
=============================================================================
