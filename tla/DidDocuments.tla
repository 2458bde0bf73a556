---------------------------- MODULE DidDocuments ----------------------------
(***************************************************************************)
(* sifr/did: DID documents, how they are parsed, and which key a kid stands *)
(* for.  There is no state here.                                           *)
(*                                                                         *)
(* A raw document has an id, a sequence of verification methods and, per   *)
(* relationship, a sequence of items: kids, or whole methods ("embedded"). *)
(* parse_did_document goes through the relationships in the order of a     *)
(* frozenset of strings, which Python changes from process to process: the *)
(* order is a parameter of Parse.                                          *)
(***************************************************************************)
EXTENDS Naturals, FiniteSets, Sequences, SequencesExt

CONSTANTS
  Kids,          \* key ids
  DidOf,         \* the DID in front of "#" of each kid
  Relationships, \* SUPPORTED_VERIFICATION_RELATIONSHIPS
  KeyOf,         \* the key a did:key kid spells, for kids of that method
  Missing,       \* a field that is not there, or not a string
  BadKey,        \* key material that does not decode to an Ed25519 key
  NoKey          \* no key: the resolution raises

ASSUME DocumentsAssumption ==
  /\ IsFiniteSet(Relationships)
  /\ IsFiniteSet(DOMAIN KeyOf)

\* A raw document that parse_did_document reads to its end: it refuses one whose
\* methods or relationships are not lists.
IsRaw(raw) ==
  /\ raw.methods \in Seq(Range(raw.methods))
  /\ \A rel \in Relationships : raw.rels[rel] \in Seq(Range(raw.rels[rel]))

SupportedTypes ==
  {"Ed25519VerificationKey2020", "Ed25519VerificationKey2018", "JsonWebKey2020"}

\* The types that may carry a key in each format.
TypesWith ==
  [publicKeyBase64    |-> SupportedTypes \ {"JsonWebKey2020"},
   publicKeyMultibase |-> {"Ed25519VerificationKey2020"},
   publicKeyJwk       |-> {"JsonWebKey2020"}]

\* _parse_verification_method_entry accepts the entry.
WellFormed(m) ==
  /\ m.id # Missing /\ m.type # Missing /\ m.controller # Missing
  /\ m.type \in SupportedTypes
  /\ Cardinality(m.formats) = 1
  /\ \A format \in m.formats : m.type \in TypesWith[format]
  /\ m.key # BadKey

Ids(methods) == {methods[i].id : i \in DOMAIN methods}

Failed == [ok |-> FALSE]

\* Mutation: an embedded method replaces the one of the same id.
AddOrReplace(methods, m) == SelectSeq(methods, LAMBDA n : n.id # m.id) \o <<m>>

\* An embedded method joins the document unless its id is known.
AddEmbedded(methods, m) == IF m.id \in Ids(methods) THEN methods ELSE Append(methods, m)

\* One item of a relationship: a reference has to be known by now.
AddItem(doc, rel, item) ==
  IF ~doc.ok THEN Failed
  ELSE IF item \in Kids
       THEN IF item \in Ids(doc.methods)
            THEN [doc EXCEPT !.allowed[rel] = @ \cup {item}]
            ELSE Failed
       ELSE IF WellFormed(item)
            THEN [doc EXCEPT !.methods = AddEmbedded(@, item),
                             !.allowed[rel] = @ \cup {item.id}]
            ELSE Failed

\* The items of one relationship, in turn.
Related(raw, doc, rel) ==
  LET items == raw.rels[rel]
      after[i \in 0..Len(items)] == IF i = 0 THEN doc ELSE AddItem(after[i - 1], rel, items[i])
  IN  after[Len(items)]

Listed(raw) ==
  [ok |-> TRUE, id |-> raw.id, methods |-> raw.methods, allowed |-> [rel \in Relationships |-> {}]]

\* parse_did_document, with the relationships taken in the given order.
Parse(raw, order) ==
  LET after[k \in 0..Len(order)] ==
        IF k = 0 THEN Listed(raw) ELSE Related(raw, after[k - 1], order[k])
  IN  IF raw.id # Missing /\ raw.methods # <<>> /\ \A i \in DOMAIN raw.methods : WellFormed(raw.methods[i])
      THEN after[Len(order)]
      ELSE Failed

Orders == SetToSeqs(Relationships)

-----------------------------------------------------------------------------
\* DidDocument.find_method: the first method with that id.
HasMethod(doc, kid) == kid \in Ids(doc.methods)

FindMethod(doc, kid) ==
  doc.methods[CHOOSE i \in DOMAIN doc.methods :
                /\ doc.methods[i].id = kid
                /\ \A j \in 1..(i - 1) : doc.methods[j].id # kid]

\* DidResolver.resolve once the document is there: the method has to be
\* controlled by the DID of the kid.
KeyFor(doc, kid) ==
  IF doc.ok /\ HasMethod(doc, kid) /\ FindMethod(doc, kid).controller = DidOf[kid]
  THEN FindMethod(doc, kid).key ELSE NoKey

\* DidDocument.find_method_for finds the method: the relationship names it.
AllowedFor(doc, kid, rel) == HasMethod(doc, kid) /\ kid \in doc.allowed[rel]

\* DidResolver.resolve_for
KeyForUse(doc, kid, rel) ==
  IF doc.ok /\ AllowedFor(doc, kid, rel) THEN KeyFor(doc, kid) ELSE NoKey

\* What a document says, however it was parsed.
Meaning(doc) ==
  [kid \in Kids |-> <<KeyFor(doc, kid), [rel \in Relationships |-> KeyForUse(doc, kid, rel)]>>]

\* DidKeyResolver.resolve_document: derived from the identifier, which has to
\* be in its canonical form; every relationship allows the one method.
DidKeyDocument(did) ==
  LET own     == {kid \in DOMAIN KeyOf : DidOf[kid] = did}
      method(kid) == [id |-> kid, type |-> "Ed25519VerificationKey2020", controller |-> did,
                      formats |-> {"publicKeyMultibase"}, key |-> KeyOf[kid]]
  IN  IF own = {} THEN Failed
      ELSE [ok |-> TRUE, id |-> did, methods |-> SetToSeq({method(kid) : kid \in own}),
            allowed |-> [rel \in Relationships |-> own]]

-----------------------------------------------------------------------------
\* A document whose relationships do not depend on one another: a reference
\* names a listed method, or one embedded before it in its own relationship;
\* two methods with one id, embedded and not listed, are the same.
Embedded(raw, rel) == {raw.rels[rel][i] : i \in DOMAIN raw.rels[rel]} \ Kids

SelfContained(raw) ==
  /\ \A rel \in Relationships : \A i \in DOMAIN raw.rels[rel] :
       LET item == raw.rels[rel][i] IN
         item \in Kids =>
           \/ item \in Ids(raw.methods)
           \/ \E j \in 1..(i - 1) : raw.rels[rel][j] \notin Kids /\ raw.rels[rel][j].id = item
  /\ \A r1, r2 \in Relationships : \A m1 \in Embedded(raw, r1), m2 \in Embedded(raw, r2) :
       m1.id = m2.id => m1 = m2 \/ m1.id \in Ids(raw.methods)
=============================================================================
