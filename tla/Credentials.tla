---------------------------- MODULE Credentials -----------------------------
(***************************************************************************)
(* Capability credentials and status lists: sifr/credentials.py and        *)
(* sifr/credential_status.py, with a verifier that resolves the keys of    *)
(* issuers as in DidResolution.                                            *)
(*                                                                         *)
(* The status list is an object of the issuer's process; its signed forms  *)
(* are documents that reach the verifier in any order, or never.  The      *)
(* verifier checks their signature with a key that it holds.               *)
(***************************************************************************)
EXTENDS DidResolution

CONSTANTS
  Requests,   \* credentials that issuers may be asked for: issuer, the kid in
              \* the proof and the key that signs, issuanceDate,
              \* expirationDate, and statusListIndex or NoStatus
  Size,       \* number of bits in the status list
  NoStatus,   \* a credential without credentialStatus
  None,       \* no time, no list, no verdict
  MaxTime,    \* bound of the exploration: the clock stops here
  MaxSigned,  \* bound of the exploration: signed lists
  MaxIssued,  \* bound of the exploration: credentials
  MaxRuns     \* bound of the exploration: lists the issuer starts

ASSUME CredentialsAssumption ==
  /\ \A c \in Requests : /\ c.kid \in Kids /\ c.issuer \in Dids /\ c.key # NoKey
                         /\ {c.from, c.until} \subseteq Nat
  /\ NoStatus \notin Nat
  /\ Size \in Nat \ {0} /\ Size % 8 = 0
  /\ None \notin Nat
  /\ {MaxTime, MaxSigned, MaxIssued, MaxRuns} \subseteq Nat

VARIABLES
  clock,
  issued,      \* credentials
  run,         \* the issuer's StatusList object: how many came before it
  list,        \* its bits, and _issued_at
  signed,      \* signed status lists
  revocations, \* history: the first revoke of each index in each run, with its time
  held,        \* the list of the verifier's status checker, or None
  last         \* history: the last credential this run of the verifier accepted

statusVars == <<run, list, signed, revocations>>
vars == <<didVars, clock, issued, statusVars, held, last>>

NewList == [bits |-> {}, at |-> None]

Init ==
  /\ DidInit
  /\ clock = 0
  /\ issued = {}
  /\ run = 0
  /\ list = NewList
  /\ signed = {}
  /\ revocations = {}
  /\ held = None
  /\ last = None

Tick ==
  /\ clock < MaxTime
  /\ clock' = clock + 1
  /\ UNCHANGED <<didVars, issued, statusVars, held, last>>

-----------------------------------------------------------------------------
(* The issuer                                                              *)

PublishDocument ==
  /\ \E did \in Dids : \E raw \in Documents[did] : Publish(did, raw)
  /\ UNCHANGED <<clock, issued, statusVars, held, last>>

\* issue_credential: the status reference is part of what is signed.
Issue ==
  /\ Cardinality(issued) < MaxIssued
  /\ \E c \in Requests : issued' = issued \cup {c}
  /\ UNCHANGED <<didVars, clock, statusVars, held, last>>

\* The indices the issuer has given out; there is a list once there is one.
Indices == {c.index : c \in issued} \ {NoStatus}

InRange(index) == 0 <= index /\ index < Size

FirstRevocation(index) ==
  IF \E r \in revocations : r.index = index /\ r.run = run THEN revocations
  ELSE revocations \cup {[index |-> index, run |-> run, at |-> clock]}

\* Mutation: _issued_at stays pinned.
RevokeKeepsDate(index) ==
  /\ InRange(index)
  /\ list' = [list EXCEPT !.bits = @ \cup {index}]
  /\ revocations' = FirstRevocation(index)
  /\ UNCHANGED <<didVars, clock, issued, run, signed, held, last>>

\* StatusList.revoke: the bit is set and the pinned date dropped; an index out
\* of range raises.
RevokeIndex(index) ==
  /\ InRange(index)
  /\ list' = [bits |-> list.bits \cup {index}, at |-> None]
  /\ revocations' = FirstRevocation(index)
  /\ UNCHANGED <<didVars, clock, issued, run, signed, held, last>>

\* StatusList.sign: the date of the first signature after a change is kept for
\* the later ones.
Sign ==
  LET at == IF list.at = None THEN clock ELSE list.at IN
  /\ Indices # {} /\ Cardinality(signed) < MaxSigned
  /\ list' = [list EXCEPT !.at = at]
  /\ signed' = signed \cup {[bits |-> list.bits, at |-> at, run |-> run]}
  /\ UNCHANGED <<didVars, clock, issued, run, revocations, held, last>>

\* The issuer's process starts again.  A list made by from_signed has no key
\* to sign with, so the issuer goes on with a new one, which has no bits.
IssuerRestart ==
  /\ Indices # {} /\ run + 1 < MaxRuns
  /\ run' = run + 1
  /\ list' = NewList
  /\ UNCHANGED <<didVars, clock, issued, signed, revocations, held, last>>

-----------------------------------------------------------------------------
(* The verifier                                                            *)

\* from_signed takes any list with a good signature, older ones included.
Load ==
  /\ held' \in signed
  /\ UNCHANGED <<didVars, clock, issued, statusVars, last>>

VerifierRestart ==
  /\ RestartResolver
  /\ held' = None
  /\ last' = None
  /\ UNCHANGED <<clock, issued, statusVars>>

\* The key that the proof names belongs to the issuer, and made the signature.
SignedByIssuer(c) == DidOf[c.kid] = c.issuer /\ ResolvedKey(c.kid) = c.key

\* Mutation: a credential that was accepted is not asked about again.
PassesStatusOnce(c) ==
  held # None /\ c.index # NoStatus /\ (last # None => last.cred # c) =>
    InRange(c.index) /\ c.index \notin held.bits

\* The checker asks the list for the index; is_revoked raises out of range.
\* Without a list, or without credentialStatus, nothing is asked.
PassesStatus(c) ==
  held # None /\ c.index # NoStatus => InRange(c.index) /\ c.index \notin held.bits

Verifies(c) ==
  /\ SignedByIssuer(c)
  /\ c.from <= clock /\ clock < c.until
  /\ PassesStatus(c)

\* verify_credential: the key is resolved, and its document cached, before
\* anything about the credential is compared.
Verify(c) ==
  /\ ResolveDocument(DidOf[c.kid])
  /\ last' = IF Verifies(c) THEN [cred |-> c, list |-> held] ELSE last
  /\ UNCHANGED <<clock, issued, statusVars, held>>

Next ==
  \/ Tick
  \/ PublishDocument \/ Issue
  \/ \E index \in Indices : RevokeIndex(index)
  \/ Sign \/ IssuerRestart
  \/ Load \/ VerifierRestart
  \/ \E c \in issued : Verify(c)

Spec == Init /\ [][Next]_vars

-----------------------------------------------------------------------------
TypeOK ==
  /\ DidTypeOK
  /\ clock \in 0..MaxTime
  /\ issued \subseteq Requests
  /\ \A s \in signed \cup {list} : \A index \in s.bits : InRange(index)
  /\ held \in signed \cup {None}
  /\ last # None => last.cred \in issued /\ last.list \in signed \cup {None}

\* How stale a verifier can be about keys: a credential is accepted only with
\* a key that its issuer published, under that kid, since the verifier
\* started, or that the issuer's did:key spells.
AcceptedKeyWasPublished ==
  last # None =>
    LET c == last.cred IN
    /\ DidOf[c.kid] = c.issuer
    /\ IF MethodOf[c.issuer] = "key" THEN KeyOf[c.kid] = c.key ELSE <<c.kid, c.key>> \in since

\* The date of a signed list tells what is in it: every revocation of its run
\* before that date and none after it.  (Dates are whole seconds: revocations
\* of the same second may be in it or not.)
DateTellsContent ==
  \A s \in signed, index \in Indices :
    LET times == {r.at : r \in {q \in revocations : q.index = index /\ q.run = s.run}} IN
    /\ (\E t \in times : t < s.at) => index \in s.bits
    /\ index \in s.bits => \E t \in times : t <= s.at

\* A verifier with a status list accepts nothing that was revoked in the run
\* of the issuer that signed the list, before the date of the list, and
\* nothing that the list has no bit for.  Later revocations, and those of an
\* earlier run of the issuer, it does not know.
RevokedBeforeDateIsRefused ==
  last # None /\ last.list # None /\ last.cred.index # NoStatus =>
    /\ InRange(last.cred.index)
    /\ \A r \in revocations :
         r.index = last.cred.index /\ r.run = last.list.run => r.at >= last.list.at
=============================================================================
