----------------------------- MODULE KeyRotation ----------------------------
(***************************************************************************)
(* A KeyStore whose owner signs messages, rotates to another key and       *)
(* revokes the old one, with the store itself as the resolver of whoever   *)
(* verifies: examples/demo_key_rotation.py, over sign_message and          *)
(* verify_message of sifr/crypto.py.                                       *)
(***************************************************************************)
EXTENDS KeyStore, FiniteSets

CONSTANTS
  Dids,     \* DIDs that occur as sender_id
  DidOf,    \* the DID part of each kid, or NoDid for a kid without "#"
  NoDid,    \* no DID: of such a kid, or of a message without a text sender_id
  MaxSent   \* bound of the exploration: messages that are signed

ASSUME RotationAssumption == DidOf \in [Kids -> Dids \cup {NoDid}] /\ MaxSent \in Nat

VARIABLE sent  \* the signed messages: sender_id, kid and the key that signed

vars == <<storeVars, sent>>

Init == StoreInit /\ sent = {}

\* load_private_key, and sign_message with what it returns.
Sign ==
  /\ Cardinality(sent) < MaxSent
  /\ \E kid \in Kids, sender \in Dids \cup {NoDid} :
       /\ Loads(kid)
       /\ sent' = sent \cup {[sender |-> sender, kid |-> kid, key |-> entries[kid].key]}
  /\ UNCHANGED storeVars

Next == Sign \/ (StoreNext /\ UNCHANGED sent)

Spec == Init /\ [][Next]_vars

-----------------------------------------------------------------------------
\* verify_message refuses a kid of another DID than the sender's, where both
\* are there to compare.
BoundToSender(m) ==
  m.sender = NoDid \/ DidOf[m.kid] = NoDid \/ DidOf[m.kid] = m.sender

\* verify_message with the store as the resolver: resolve_revoked is not asked.
StoreVerifies(m) == BoundToSender(m) /\ Resolves(m.kid) /\ entries[m.kid].key = m.key

-----------------------------------------------------------------------------
TypeOK ==
  /\ StoreTypeOK
  /\ sent \subseteq [sender : Dids \cup {NoDid}, kid : Kids, key : Nat]

\* Rotation policy of docs/key_management.md: as long as the prior kid is kept
\* un-revoked, a message signed with its key verifies against the store.  The
\* key is one whose add_keypair returned, the store is open, and keys were
\* added, other kids revoked, saves failed, and processes died in between,
\* with any passphrase.
OldSignaturesVerify ==
  \A m \in sent :
    /\ pc = "idle" /\ BoundToSender(m) /\ added[m.kid] = m.key
    /\ m.kid \notin revoked /\ ~ResolveRevoked(m.kid)
    => StoreVerifies(m)
=============================================================================
