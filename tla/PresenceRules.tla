--------------------------- MODULE PresenceRules ---------------------------
(***************************************************************************)
(* The document of presence authorization rules (CPresenceXDM) and the     *)
(* classes that edit one part of a rule each.  A rule has conditions,      *)
(* actions and transformations; each of these has parts ("identity",       *)
(* "sphere"...), and a part holds a sequence of entries.                   *)
(***************************************************************************)
EXTENDS XdmDocument, Integers, FiniteSets, SequencesExt

CONSTANTS
    Rules,      \* rule ids
    Ids,        \* identities, domains, URIs of lists
    Clock,      \* times an application gives, in minutes
    Offsets,    \* distances of local time from universal time, in minutes
    MaxEntries, \* bound: entries of a part
    Scopes      \* the classes in use, in each of the cases to be explored

Classes == {"rule", "one", "many", "misc", "extern", "sphere", "validity", "action", "transform",
            "lists", "mime", "tree"}      \* another document is explored
ASSUME ScopesAssumption == Scopes \subseteq SUBSET Classes
ASSUME EntriesAssumption == MaxEntries \in Nat \ {0}     \* ServerRules
ASSUME TimeAssumption == Clock \subseteq Int /\ Offsets \subseteq Nat /\ 0 \in Offsets

VARIABLES
    scope,      \* the case that is explored
    rules,      \* rule id -> the rule
    offset      \* TLocale::UniversalTimeOffset

Zones    == Offsets \cup {-o : o \in Offsets}      \* east and west
ruleVars == <<scope, rules, offset>>

Children == <<"conditions", "actions", "transformations">>
Conditions == {"identity", "other-identity", "anonymous", "external-list", "sphere", "validity"}
Complex    == {"provide-services"}    \* and -persons, -devices
Booleans   == {"provide-mood"}        \* and the other names
Transforms == Complex \cup Booleans
Parts      == Conditions \cup {"sub-handling"} \cup Transforms
ChildOf(p) == IF p \in Conditions THEN "conditions"
              ELSE IF p \in Transforms THEN "transformations" ELSE "actions"

Values == {"value"} \cup Ids
One(i)     == <<"one", i>>
Many(d, x) == <<"many", d, x>>
All        == <<"all">>
NewRule    == [there |-> TRUE, kids |-> <<>>, parts |-> [p \in Parts |-> <<>>], has |-> {}]
NoRule     == [NewRule EXCEPT !.there = FALSE]

(* What a server may hold: no rule, or a rule for somebody.                *)
ServerRules ==
    {[r \in Rules |-> NoRule]} \cup
    {[r \in Rules |-> [NewRule EXCEPT !.kids = Children, !.has = {"identity", "sub-handling"},
                       !.parts = [@ EXCEPT !["identity"] = <<One(i)>>,
                                           !["sub-handling"] = <<"allow">>]]] : i \in Ids}

RuleInit ==
    /\ scope \in Scopes
    /\ rules = [r \in Rules |-> NoRule]
    /\ offset = 0

-----------------------------------------------------------------------------
(* Rules *)
IsRuleExist(r) == rooted /\ rules[r].there
Change(r, new) == rules' = [rules EXCEPT ![r] = new] /\ UNCHANGED <<docVars, scope, offset>>

DeleteRuleL(r) == IsRuleExist(r) /\ Change(r, NoRule)
CreateNewRuleL(r) ==                  \* CreateRootIfNeededL first
    /\ ~IsRuleExist(r)
    /\ rooted' = TRUE
    /\ rules' = [rules EXCEPT ![r] = NewRule]
    /\ UNCHANGED <<req, status, owed, broken, scope, offset>>
DeleteAllRules ==
    /\ rules' = IF rooted THEN [r \in Rules |-> NoRule] ELSE rules
    /\ UNCHANGED <<docVars, scope, offset>>
DeleteEmptyRulesL ==
    /\ rules' = [r \in Rules |-> IF rooted /\ rules[r].kids = <<>> THEN NoRule ELSE rules[r]]
    /\ UNCHANGED <<docVars, scope, offset>>

(* A child of a rule that is missing is put where the schema has it: the   *)
(* conditions first, the actions behind them, the transformations last.    *)
GetRuleChildNodeL(rule, c) ==
    IF c \in Range(rule.kids) THEN rule
    ELSE [rule EXCEPT !.kids =
            CASE c = "conditions" -> InsertAt(@, 1, c)
              [] c = "actions"    -> InsertAt(@, IF "conditions" \in Range(@) THEN 2 ELSE 1, c)
              [] OTHER            -> Append(@, c)]
GetConditionChildNodeL(rule, p) == [GetRuleChildNodeL(rule, ChildOf(p)) EXCEPT !.has = @ \cup {p}]

(* Editing the entries of a part: with creation of what is missing, or only*)
(* where the part is.                                                      *)
Create(r, p, entries) ==
    /\ IsRuleExist(r) /\ Len(entries) <= MaxEntries      \* bound
    /\ Change(r, [GetConditionChildNodeL(rules[r], p) EXCEPT !.parts[p] = entries])
Edit(r, p, entries) ==
    /\ IsRuleExist(r) /\ p \in rules[r].has
    /\ Change(r, [rules[r] EXCEPT !.parts[p] = entries])
RemovePart(r, p) ==
    /\ IsRuleExist(r) /\ p \in rules[r].has
    /\ Change(r, [rules[r] EXCEPT !.has = @ \ {p}, !.parts[p] = <<>>])
In(r, p)      == rules[r].parts[p]
Add(r, p, e)  == e \notin Range(In(r, p)) /\ Create(r, p, Append(In(r, p), e))
Drop(r, p, e) == e \in Range(In(r, p)) /\ Edit(r, p, RemoveFirst(In(r, p), e))

-----------------------------------------------------------------------------
(* Identities that are named. The ids given are looked for among those     *)
(* that were there before, so the caller must not give an id twice.        *)
AddIdentitiesL(r, ids) ==
    Create(r, "identity", In(r, "identity") \o
        Without([n \in DOMAIN ids |-> One(ids[n])], Range(In(r, "identity"))))
AddIdentityL(r, i)        == Add(r, "identity", One(i))
DeleteIdentityL(r, i)     == Drop(r, "identity", One(i))
DeleteIdentitiesL(r, ids) == Edit(r, "identity", Without(In(r, "identity"), {One(i) : i \in ids}))
DeleteAllIdentitiesL(r)   == DeleteIdentitiesL(r, Ids)
Arrays == {<<i>> : i \in Ids} \cup {s \in Ids \X Ids : s[1] # s[2]}

(* Everybody of a domain, or everybody, except those named.                *)
Domains == Ids \cup {"any"}
GetManyNodeL(r, d) == {n \in DOMAIN In(r, "identity") :
                          LET e == In(r, "identity")[n] IN e[1] = "many" /\ e[2] = d}
Excepts(r, n) == In(r, "identity")[n][3]
SetExcepts(r, n, x) ==
    Edit(r, "identity", [In(r, "identity") EXCEPT ![n] = Many(@[2], x)])

AddManyIdentityL(r, d) ==
    GetManyNodeL(r, d) = {} /\ Create(r, "identity", Append(In(r, "identity"), Many(d, <<>>)))
RemoveManyIdentityL(r, d) ==
    \E n \in GetManyNodeL(r, d) : Edit(r, "identity", RemoveAt(In(r, "identity"), n))
Including(x, i) == IF i \in Range(x) THEN x ELSE Append(x, i)
AddIdentityInManyExceptL(r, i, d) ==
    \E n \in GetManyNodeL(r, d) : SetExcepts(r, n, Including(Excepts(r, n), i))
(* One at a time, so that an id that is given twice is added once.         *)
AddIdentitiesInManyExceptL(r, ids, d) ==
    \E n \in GetManyNodeL(r, d) : SetExcepts(r, n, Including(Including(Excepts(r, n), ids[1]), ids[2]))
RemoveIdentityFromManyExceptL(r, i, d) ==
    \E n \in GetManyNodeL(r, d) : LET x == Excepts(r, n)
        IN SetExcepts(r, n, IF i \in Range(x) THEN RemoveFirst(x, i) ELSE x)
DeleteAllIdentitiesFromManyExceptL(r, d) ==
    \E n \in GetManyNodeL(r, d) : SetExcepts(r, n, <<>>)

(* The other conditions *)
AddOtherIdentityL(r)      == Create(r, "other-identity", <<>>)
RemoveOtherIdentityL(r)   == RemovePart(r, "other-identity")
AddAnonymousRequestL(r)    == Create(r, "anonymous", <<>>)
RemoveAnonymousRequestL(r) == RemovePart(r, "anonymous")
AddExternListL(r, u)       == Add(r, "external-list", u)
DeleteExternalListL(r, u)  == Drop(r, "external-list", u)
DeleteExternalListsL(r, us) == Edit(r, "external-list", Without(In(r, "external-list"), us))
DeleteAllExternalListsL(r) == Edit(r, "external-list", <<>>)
AddOrReplaceSphereL(r)     == Create(r, "sphere", <<"value">>)
DeleteSphereL(r)           == RemovePart(r, "sphere")

-----------------------------------------------------------------------------
(* Validity. An application gives local time; the document has the local   *)
(* time with the sign, hours and minutes of its distance to universal time.*)
(* utc is what was meant, and is in no document.                           *)
ConvertToUniversal(t) == t - offset
ConvertToLocal(u)     == u + offset
FormatToXMLTimeStringL(u) ==
    LET abs == IF offset < 0 THEN -offset ELSE offset
    IN [local |-> u + offset, sign |-> IF offset < 0 THEN "-" ELSE "+",
        hours |-> abs \div 60, minutes |-> abs % 60, utc |-> u]
ParseFromXMLTimeString(x) ==
    IF x.sign = "+" THEN x.local - x.hours * 60 - x.minutes
    ELSE x.local + x.hours * 60 + x.minutes

AddValidityL(r, from, until) ==
    Create(r, "validity", Append(In(r, "validity"),
        [from  |-> FormatToXMLTimeStringL(ConvertToUniversal(from)),
         until |-> FormatToXMLTimeStringL(ConvertToUniversal(until))]))
DeleteAllValidityL(r) == RemovePart(r, "validity")
Travel ==                             \* external: the user changes the time zone
    \E o \in Zones \ {offset} : offset' = o /\ UNCHANGED <<docVars, scope, rules>>

(* What GetValidityL gives, and whether a time is within it.               *)
GetValidityL(r) == {[from  |-> ConvertToLocal(ParseFromXMLTimeString(p.from)),
                     until |-> ConvertToLocal(ParseFromXMLTimeString(p.until))] :
                        p \in Range(In(r, "validity"))}
IsTimeValidL(r, from, until) ==
    "validity" \in rules[r].has => \E p \in GetValidityL(r) : p.from <= from /\ until <= p.until

-----------------------------------------------------------------------------
(* Actions. An action that is not valid is refused when the node for it    *)
(* has been created.                                                       *)
AddOrReplaceActionL(r, valid) ==
    Create(r, "sub-handling", IF valid THEN <<"allow">> ELSE In(r, "sub-handling"))
RemoveActionL(r) == RemovePart(r, "sub-handling")

(* Transformations. "All" is replaced by what is given, and replaces it.   *)
IsProvideAllExistL(r, c) == Len(In(r, c)) = 1 /\ In(r, c)[1] = All
AddTransComplexLMutant(r, c, given) == Create(r, c, In(r, c) \o given)    \* "all" stays
AddTransComplexL(r, c, given) ==
    Create(r, c, (IF IsProvideAllExistL(r, c) THEN <<>> ELSE In(r, c)) \o given)
AddOrRepProvideAllTransComplexL(r, c) == Create(r, c, <<All>>)
AddOrRepTransBoolL(r, b) == Create(r, b, <<"value">>)
RemoveTransformL(r, p) == RemovePart(r, p)
RemoveAllTransforms(r) ==
    /\ IsRuleExist(r) /\ "transformations" \in Range(rules[r].kids)
    /\ Change(r, [rules[r] EXCEPT !.kids = Without(@, {"transformations"}),
                    !.has = @ \ Transforms,
                    !.parts = [p \in Parts |-> IF p \in Transforms THEN <<>> ELSE @[p]]])

-----------------------------------------------------------------------------
(* Requests *)
RuleUpdateAllFromServerL ==
    /\ UpdateFromServer \/ UpdateFromServerLeaves
    /\ rules' = [r \in Rules |-> NoRule]      \* ResetContents
    /\ UNCHANGED <<scope, offset>>
RuleRequests == (UpdateToServer \/ CancelUpdate) /\ UNCHANGED ruleVars
RuleRunL     == (UpdateRunL \/ RunLeaves) /\ UNCHANGED ruleVars
RuleEngine ==
    \E s \in Answers :
       /\ EngineCompletes(s)
       /\ IF s = "ok" /\ req = "fromServer" THEN rules' \in ServerRules ELSE UNCHANGED rules
       /\ UNCHANGED <<scope, offset>>

OneEdits(r) ==
    \/ \E ids \in Arrays : AddIdentitiesL(r, ids)
    \/ \E ids \in SUBSET Ids : DeleteIdentitiesL(r, ids)
    \/ DeleteAllIdentitiesL(r)
    \/ \E i \in Ids : AddIdentityL(r, i) \/ DeleteIdentityL(r, i)
ManyEdits(r) ==
    \E d \in Domains :
        \/ AddManyIdentityL(r, d) \/ RemoveManyIdentityL(r, d)
        \/ DeleteAllIdentitiesFromManyExceptL(r, d)
        \/ \E i \in Ids : AddIdentityInManyExceptL(r, i, d) \/ RemoveIdentityFromManyExceptL(r, i, d)
        \/ \E ids \in Ids \X Ids : AddIdentitiesInManyExceptL(r, ids, d)
MiscEdits(r) ==
    \/ AddOtherIdentityL(r) \/ RemoveOtherIdentityL(r)
    \/ AddAnonymousRequestL(r) \/ RemoveAnonymousRequestL(r)
ExternEdits(r) ==
    \/ \E u \in Ids : AddExternListL(r, u) \/ DeleteExternalListL(r, u)
    \/ \E us \in SUBSET Ids : DeleteExternalListsL(r, us)
    \/ DeleteAllExternalListsL(r)
SphereEdits(r) == AddOrReplaceSphereL(r) \/ DeleteSphereL(r)
ValidityEdits(r) ==
    \/ \E from, until \in Clock : from <= until /\ AddValidityL(r, from, until)
    \/ DeleteAllValidityL(r)
ActionEdits(r) == RemoveActionL(r) \/ \E valid \in BOOLEAN : AddOrReplaceActionL(r, valid)
TransformEdits(r) ==
    \/ \E c \in Complex : AddOrRepProvideAllTransComplexL(r, c)
                          \/ \E v \in Ids : AddTransComplexL(r, c, <<<<"class", v>>>>)
    \/ \E b \in Booleans : AddOrRepTransBoolL(r, b)
    \/ \E p \in Transforms : RemoveTransformL(r, p)
    \/ RemoveAllTransforms(r)

RuleEdits ==
    \/ \E r \in Rules : DeleteRuleL(r) \/ CreateNewRuleL(r)
    \/ "rule" \in scope /\ (DeleteAllRules \/ DeleteEmptyRulesL)
    \/ "one" \in scope /\ \E r \in Rules : OneEdits(r)
    \/ "many" \in scope /\ \E r \in Rules : ManyEdits(r)
    \/ "misc" \in scope /\ \E r \in Rules : MiscEdits(r)
    \/ "extern" \in scope /\ \E r \in Rules : ExternEdits(r)
    \/ "sphere" \in scope /\ \E r \in Rules : SphereEdits(r)
    \/ "validity" \in scope /\ (Travel \/ \E r \in Rules : ValidityEdits(r))
    \/ "action" \in scope /\ \E r \in Rules : ActionEdits(r)
    \/ "transform" \in scope /\ \E r \in Rules : TransformEdits(r)
RuleAsks == RuleUpdateAllFromServerL \/ RuleRequests

RuleTypeOK ==
    /\ scope \in Scopes /\ offset \in Zones
    /\ \A r \in Rules :
          /\ DOMAIN rules[r] = {"there", "kids", "has", "parts"}
          /\ rules[r].kids \in Seq(Range(Children)) /\ rules[r].has \subseteq Parts
          /\ \A p \in Parts : Len(rules[r].parts[p]) <= MaxEntries

-----------------------------------------------------------------------------
(* The order of the schema. *)
Before == {<<"conditions", "actions">>, <<"conditions", "transformations">>,
           <<"actions", "transformations">>}

(* The parts of a rule are in the order its schema demands, in whatever    *)
(* order they were created, and each is where its parent is.               *)
RuleInSchemaOrder ==
    \A r \in Rules :
        /\ \A i, j \in DOMAIN rules[r].kids :
              i < j => <<rules[r].kids[i], rules[r].kids[j]>> \in Before
        /\ \A p \in Parts :
              /\ p \in rules[r].has => ChildOf(p) \in Range(rules[r].kids)
              /\ p \notin rules[r].has => In(r, p) = <<>>

(* Nobody is named twice, so that one deletion takes the permission away.  *)
NamedOnce ==
    \A r \in Rules : \A n, m \in DOMAIN In(r, "identity") :
        LET e == In(r, "identity")[n]  f == In(r, "identity")[m]
        IN /\ e[1] = f[1] /\ e[2] = f[2] => n = m
           /\ e[1] = "many" => IsInjective(e[3])

(* "All" stands alone: a rule that provides all of a kind has no other     *)
(* entry for it, which is how it is recognised when it is to be replaced.  *)
AllStandsAlone ==
    \A r \in Rules, c \in Complex : All \in Range(In(r, c)) => Len(In(r, c)) = 1

(* The time of a condition is the moment that was meant, wherever the      *)
(* phone was when it was given and is when it is read.                     *)
TimeKept ==
    \A r \in Rules : \A p \in Range(In(r, "validity")) :
        \A x \in {p.from, p.until} : ParseFromXMLTimeString(x) = x.utc
=============================================================================
