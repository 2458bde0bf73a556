--------------------------- MODULE MCCredentials ----------------------------
(* A small instance of Credentials for TLC.                                *)
EXTENDS Credentials

CONSTANTS owner, carol, k1, k2, ck, key1, key2, carolKey

DidOfKids == [kid \in {k1, k2, ck} |-> IF kid = ck THEN carol ELSE owner]

CarolKeys == [kid \in {ck} |-> carolKey]

Methods == [did \in {owner, carol} |-> IF did = carol THEN "key" ELSE "sifr"]

Method(kid, key, controller) ==
  [id |-> kid, type |-> "Ed25519VerificationKey2020", controller |-> controller,
   formats |-> {"publicKeyBase64"}, key |-> key]

TwoFormats == [Method(k1, key1, owner) EXCEPT !.formats = {"publicKeyBase64", "publicKeyMultibase"}]

Document(did, methods, authentication, assertion) ==
  [id |-> did, methods |-> methods,
   rels |-> [authentication |-> authentication, assertionMethod |-> assertion]]

\* The documents at the owner's place: a key, its successor, a controller
\* that is not the DID, the document of another DID, an invalid method, two
\* methods with one id, references and embedded methods that depend on the
\* order, and ones that do not.
OwnerDocuments == {
  Document(owner, <<Method(k1, key1, owner)>>, <<>>, <<>>),
  Document(owner, <<Method(k1, key2, owner)>>, <<k1>>, <<k1>>),
  Document(owner, <<Method(k1, key1, carol)>>, <<>>, <<>>),
  Document(carol, <<Method(k1, key1, owner)>>, <<>>, <<>>),
  Document(owner, <<TwoFormats>>, <<>>, <<>>),
  Document(owner, <<Method(k1, key1, owner), Method(k1, key2, owner)>>, <<>>, <<k1>>),
  Document(owner, <<Method(k1, key1, owner)>>, <<Method(k2, key1, owner)>>, <<Method(k2, key2, owner)>>),
  Document(owner, <<Method(k1, key1, owner)>>, <<Method(k2, key1, owner)>>, <<k2>>),
  Document(owner, <<Method(k1, key1, owner)>>, <<Method(k1, key1, owner)>>, <<Method(k1, key2, owner)>>)}

DocumentsAt == [did \in {owner, carol} |-> IF did = owner THEN OwnerDocuments ELSE {}]

Credential(issuer, kid, key, from, until, index) ==
  [issuer |-> issuer, kid |-> kid, key |-> key, from |-> from, until |-> until, index |-> index]

\* The owner's keys, a kid that only some processes know, a kid of another
\* DID, and two credentials with a status, one beyond the end of the list.
Asked == {
  Credential(owner, k1, key1, 0, 2, NoStatus),
  Credential(owner, k1, key2, 1, 2, NoStatus),
  Credential(owner, k2, key2, 0, 1, NoStatus),
  Credential(owner, ck, carolKey, 0, 2, NoStatus),
  Credential(carol, ck, carolKey, 0, 3, 7),
  Credential(carol, ck, carolKey, 0, 3, 8)}
=============================================================================
