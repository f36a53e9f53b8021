----------------------------- MODULE Multipart -----------------------------
(***************************************************************************)
(* Presence documents on the wire (CSimpleDocument, CSimpleContent and     *)
(* CSimplePresenceList): a document with direct contents is written as a   *)
(* MIME multipart of the presence information and the contents, and read   *)
(* back from one; a presence list is read from a multipart of documents.   *)
(* Text is a length where the code reserves room for it, and a name where  *)
(* the code compares it.                                                   *)
(***************************************************************************)
EXTENDS Naturals, Sequences, SequencesExt, FiniteSets, FiniteSetsExt

CONSTANTS
    Cids,       \* content ids, the root's is "root"
    Lengths,    \* of the bodies of contents
    MaxParts    \* bound: the parts of a message

ASSUME CidsAssumption    == "none" \notin Cids
ASSUME LengthsAssumption == Lengths \subseteq Nat /\ MaxParts \in Nat

VARIABLES
    cont,       \* an MSimpleContent of the application
    contents,   \* iContents of its document
    wire,       \* a message that was written or comes from elsewhere
    sent,       \* iContents as they were when the message was written
    got         \* what was read from the message

mimeVars == <<cont, contents, wire, sent, got>>

(* How the Content-Type field of a part is laid out: its length, where the *)
(* boundary's value ends, whether a ";" follows there, what comes after    *)
(* the field.                                                              *)
Layouts == {[line |-> 9, ends |-> 8, more |-> TRUE,  rest |-> 12],
            [line |-> 9, ends |-> 9, more |-> FALSE, rest |-> 9],
            [line |-> 9, ends |-> 9, more |-> FALSE, rest |-> 12],
            [line |-> 9, ends |-> 8, more |-> TRUE,  rest |-> 5]}
NoLayout == [line |-> 0, ends |-> 0, more |-> FALSE, rest |-> 0]

Types == {"pidf", "rlmi", "multipart", "other"}
Xml   == {"presence", "list", "watcherinfo", "filter-set"}   \* local names of roots
Part  == [type : Types, cid : Cids \cup {"root", "none"}, body : Nat,
          xml : Xml \cup {"none"}, layout : Layouts \cup {NoLayout}]

NoWire == <<>>
Nothing == [kind |-> "nothing"]
NoBody  == 0                       \* iBody is NULL, or empty
Content(t, c, n) == [type |-> t, cid |-> c, body |-> n]

MimeInit ==
    /\ cont = Content("other", "none", NoBody)
    /\ contents = <<>> /\ wire = NoWire /\ sent = <<>> /\ got = Nothing

-----------------------------------------------------------------------------
(* The application makes a content, copies a body into it, and adds it to  *)
(* the document as a copy or gives the body away, which leaves none behind.*)
NewContentL(c, t, n) ==
    /\ wire = NoWire /\ Len(contents) < MaxParts - 1      \* bound
    /\ cont' = Content(t, c, n)
    /\ UNCHANGED <<contents, wire, sent, got>>

AddDirectContentL(copy) ==
    /\ wire = NoWire /\ Len(contents) < MaxParts - 1      \* bound
    /\ contents' = Append(contents, cont)
    /\ cont' = [cont EXCEPT !.body = IF copy THEN @ ELSE NoBody]
    /\ UNCHANGED <<wire, sent, got>>

-----------------------------------------------------------------------------
(* Writing. *)
RootPart == [type |-> "pidf", cid |-> "root", body |-> 300, xml |-> "presence", layout |-> NoLayout]
AsPart(c) == [type |-> c.type, cid |-> c.cid, body |-> c.body,
              xml |-> IF c.type = "pidf" THEN "presence" ELSE "none", layout |-> NoLayout]

DoExternalizeMultiPartL == <<RootPart>> \o [i \in DOMAIN contents |-> AsPart(contents[i])]

ExternalizeL ==
    /\ wire = NoWire
    /\ wire' = IF contents = <<>> THEN <<RootPart>> ELSE DoExternalizeMultiPartL
    /\ sent' = contents /\ got' = Nothing
    /\ UNCHANGED <<cont, contents>>

(* The room each piece is given, and what is put there. A heap cell is a   *)
(* multiple of four bytes, four of which are the length of the text.       *)
Cell(n) == 4 * ((n + 7) \div 4) - 4
Base64(n)  == Cell((3 * n) \div 2)          \* KB64Expand
Encoded(n) == 4 * ((n + 2) \div 3)

RootHeaders   == 70                         \* with the CRLF at the end
IdLength      == 5                          \* of a content's id and type
Headers(i)    == IF i = 1 THEN RootHeaders ELSE 67 + 2 * IdLength
BodyOf(m, i)  == IF i = 1 THEN m[i].body ELSE Encoded(m[i].body)
EndOf(m, i)   == IF BodyOf(m, i) = 0 THEN 0 ELSE 2
Boundary      == 8 + 4

(* DoComposeMultiPartL computes the size first, less the line break the    *)
(* headers end with, and appends later.  Both times it skips a part with   *)
(* neither headers nor a body, but every part has headers.                 *)
Total(sizes) ==
    LET sum[i \in 0..Len(sizes)] == IF i = 0 THEN 0 ELSE sum[i - 1] + sizes[i]
    IN sum[Len(sizes)]
ReservedMutant(m) ==                  \* without the blank line under the headers
    Boundary + 2 + Total(
        [i \in DOMAIN m |-> Boundary + Headers(i) - 2 + 2 + BodyOf(m, i) + EndOf(m, i)])
Reserved(m) ==
    Boundary + 2 + Total(
        [i \in DOMAIN m |-> Boundary + 2 + Headers(i) - 2 + 2 + BodyOf(m, i) + EndOf(m, i)])
Written(m) ==
    Boundary + Total(
        [i \in DOMAIN m |-> Boundary + Headers(i) - 2 + 4 + BodyOf(m, i) + EndOf(m, i)])

-----------------------------------------------------------------------------
(* Reading. A message may come from anywhere. *)
Receive(m) ==
    /\ wire = NoWire /\ contents = <<>>
    /\ wire' = m /\ sent' = <<>> /\ got' = Nothing
    /\ UNCHANGED <<cont, contents>>
RemoteParts ==
    {[type |-> "pidf", cid |-> c, body |-> 1, xml |-> x, layout |-> NoLayout] :
        c \in Cids, x \in {"presence", "list"}}
    \cup {[type |-> "rlmi", cid |-> c, body |-> 1, xml |-> "list", layout |-> NoLayout] : c \in Cids}
    \cup {[type |-> "multipart", cid |-> "none", body |-> 1, xml |-> "none", layout |-> l] : l \in Layouts}
    \cup {[type |-> "other", cid |-> "none", body |-> 1, xml |-> "none", layout |-> NoLayout]}

(* ValidateXmlL of the four classes of documents. *)
RootName(kind) == CASE kind = "document" -> "presence"
                    [] kind = "meta"     -> "list"
                    [] kind = "winfo"    -> "watcherinfo"
                    [] kind = "filter"   -> "filter-set"
ValidateXmlL(kind, name) == name = RootName(kind)

(* CSimpleDocument: the root is the part that start names, if it is in the *)
(* presence format, or the first in that format; whenever a part is taken  *)
(* for the root the one taken before is forgotten.  The others are direct  *)
(* contents.                                                               *)
Taken(m, start) ==
    LET pidf == {i \in DOMAIN m : m[i].type = "pidf"}
    IN {i \in pidf : (start # "none" /\ m[i].cid = start) \/ i = Min(pidf)}
Nth(S, k) == CHOOSE i \in S : Cardinality({j \in S : j <= i}) = k
Document(m, start) ==
    LET taken == Taken(m, start)
        rest  == {i \in DOMAIN m : i \notin taken}
    IN [kind |-> "document", start |-> start,
        root |-> IF taken = {} THEN 0 ELSE Max(taken),
        contents |-> [k \in 1..Cardinality(rest) |->
                        LET p == m[Nth(rest, k)] IN Content(p.type, p.cid, p.body)]]
NewInMultiPartL(start) ==
    /\ wire # NoWire
    /\ got' = IF \A i \in Taken(wire, start) : ValidateXmlL("document", wire[i].xml)
              THEN Document(wire, start) ELSE [kind |-> "left"]
    /\ UNCHANGED <<cont, contents, wire, sent>>

(* CSimplePresenceList: the boundary of a part that is itself a multipart  *)
(* is looked for in as many characters as follow the Content-Type field.   *)
BoundaryRead(l) == l.rest = l.ends \/ (l.rest > l.ends /\ l.more)
ListDocuments(m) == SelectSeq(m, LAMBDA p : p.type \in {"pidf", "multipart"})
MetaOf(m, start) == {i \in DOMAIN m : m[i].type = "rlmi" /\ m[i].cid = start}
NewPresenceListL(start) ==
    LET meta == MetaOf(wire, start)
        docs == ListDocuments(wire)
    IN /\ wire # NoWire
       /\ got' = IF /\ \A i \in DOMAIN wire :
                         wire[i].type = "pidf" => ValidateXmlL("document", wire[i].xml)
                    /\ \A i \in meta : ValidateXmlL("meta", wire[i].xml)
                 THEN [kind |-> "list", start |-> start,
                       meta |-> IF meta = {} THEN 0 ELSE Max(meta),
                       docs |-> [i \in DOMAIN docs |->
                           IF docs[i].type = "pidf" THEN "document"
                           ELSE IF BoundaryRead(docs[i].layout) THEN "parts" ELSE "cut"]]
                 ELSE [kind |-> "left"]
       /\ UNCHANGED <<cont, contents, wire, sent>>

-----------------------------------------------------------------------------
Starts == Cids \cup {"none", "root"}
Writes ==
    \/ \E c \in Cids, t \in {"pidf", "other"}, n \in Lengths : NewContentL(c, t, n)
    \/ \E copy \in BOOLEAN : AddDirectContentL(copy)
    \/ ExternalizeL
Reads ==
    \/ \E m \in SeqOf(RemoteParts, MaxParts) \ {NoWire} : Receive(m)
    \/ \E s \in Starts : NewInMultiPartL(s) \/ NewPresenceListL(s)

(* The content, the documents and the messages have their types.           *)
MimeTypeOK ==
    /\ cont \in [type : Types, cid : Cids \cup {"none"}, body : Nat]
    /\ contents \in Seq([type : Types, cid : Cids \cup {"none"}, body : Nat])
    /\ wire \in Seq(Part)
    /\ got.kind \in {"nothing", "left", "document", "list"}

Own == wire # NoWire /\ \E i \in DOMAIN wire : wire[i] = RootPart

(* No piece of a multipart is longer than the room reserved for it, or the *)
(* append panics: the base64 text of a body of any length, and the whole   *)
(* message with its boundaries and line breaks, which are counted one way  *)
(* and written another.                                                    *)
RoomSuffices ==
    Own => /\ Written(wire) <= Reserved(wire)
           /\ \A i \in 2..Len(wire) : Encoded(wire[i].body) <= Base64(wire[i].body)

(* A document read from a message that was written from one is the same:   *)
(* its root is the root and its contents are all there, in order, whatever *)
(* their types and ids are.                                                *)
RoundTrip ==
    Own /\ got # Nothing /\ got.kind # "list" /\ (got.kind = "document" => got.start \in {"none", "root"})
        => got.kind = "document" /\ wire[got.root] = RootPart /\ got.contents = sent

(* If the part that start names is a presence document, it is the root,    *)
(* wherever it stands in the message.                                      *)
StartNamesRoot ==
    got.kind = "document" /\ (\E i \in DOMAIN wire : wire[i].type = "pidf" /\ wire[i].cid = got.start)
        => wire[got.root].cid = got.start
=============================================================================
