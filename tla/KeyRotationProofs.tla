------------------------- MODULE KeyRotationProofs --------------------------
(***************************************************************************)
(* Proofs about KeyRotation for any kids, passphrases and DIDs, any number *)
(* of keys and messages, and under every subset of the faults.             *)
(***************************************************************************)
EXTENDS KeyRotation, TLAPS

\* Every variable of the store keeps its type.
LEMMA StoreTyped == StoreTypeOK /\ [StoreNext]_storeVars => StoreTypeOK'
<1> SUFFICES ASSUME StoreTypeOK, [StoreNext]_storeVars PROVE StoreTypeOK'
  OBVIOUS
<1> USE KeyStoreAssumption DEF StoreTypeOK, Contents, Entries
<1>1. ASSUME NEW secret \in Passphrases, OpenExisting(secret) \/ OpenNew(secret)
      PROVE  StoreTypeOK'
  BY <1>1 DEF OpenExisting, OpenNew
<1>2. ASSUME NEW kid \in Kids, AddKeypair(kid) PROVE StoreTypeOK'
  <2>1. Entry(keys + 1, pass) \in Entries
    BY DEF Entry
  <2> QED
    BY <1>2, <2>1 DEF AddKeypair
<1>3. ASSUME NEW kid \in Kids, Revoke(kid) PROVE StoreTypeOK'
  <2>1. [entries[kid] EXCEPT !.revoked = TRUE] \in Entries
    BY <1>3 DEF Revoke
  <2>2. entries' = [entries EXCEPT ![kid] = [entries[kid] EXCEPT !.revoked = TRUE]]
    BY <1>3 DEF Revoke, Mark
  <2> QED
    BY <1>3, <2>1, <2>2 DEF Revoke
<1>4. ASSUME NEW kid \in Kids, RevokeAgain(kid) PROVE StoreTypeOK'
  BY <1>4 DEF RevokeAgain
<1>5. CASE WriteTmp \/ SaveFails
  BY <1>5 DEF WriteTmp, SaveFails
<1>6. CASE Rename
  BY <1>6 DEF Rename, Marked
<1>7. CASE Die
  BY <1>7 DEF Die, Empty
<1>8. CASE UNCHANGED storeVars
  BY <1>8 DEF storeVars
<1> QED
  BY <1>1, <1>2, <1>3, <1>4, <1>5, <1>6, <1>7, <1>8 DEF StoreNext

\* Every variable, the signed messages included, keeps its type.
THEOREM TypeCorrect == Spec => []TypeOK
<1>1. Init => TypeOK
  <2>1. Empty \in Contents /\ Empty \in [Kids -> Nat \cup {Absent}]
    BY DEF Empty, Contents
  <2> SUFFICES ASSUME StoreInit, sent = {} PROVE TypeOK
    BY DEF Init
  <2>2. /\ file \in Contents \cup {NoFile}
        /\ entries \in Contents
        /\ added \in [Kids -> Nat \cup {Absent}]
    BY <2>1 DEF StoreInit
  <2>3. /\ pass \in Passphrases
        /\ saving \in Kids \cup {Absent}
        /\ unsaved \in BOOLEAN
        /\ keys \in Nat
        /\ revoked \subseteq Kids
    BY DEF StoreInit
  <2>4. pc \in {"down", "idle", "write", "rename"}
    BY DEF StoreInit
  <2> QED
    BY <2>2, <2>3, <2>4 DEF TypeOK, StoreTypeOK
<1>2. TypeOK /\ [Next]_vars => TypeOK'
  <2> SUFFICES ASSUME TypeOK, [Next]_vars PROVE TypeOK'
    OBVIOUS
  <2>1. CASE Sign
    <3>1. UNCHANGED storeVars /\ StoreTypeOK'
      BY <2>1, StoreTyped DEF Sign, TypeOK
    <3>2. PICK kid \in Kids, sender \in Dids \cup {NoDid} :
            /\ entries[kid] # Absent
            /\ sent' = sent \cup {[sender |-> sender, kid |-> kid, key |-> entries[kid].key]}
      BY <2>1 DEF Sign, Loads
    <3>3. entries[kid].key \in Nat
      BY <3>2 DEF TypeOK, StoreTypeOK, Contents, Entries
    <3> QED
      BY <3>1, <3>2, <3>3 DEF TypeOK
  <2>2. CASE StoreNext /\ UNCHANGED sent
    BY <2>2, StoreTyped DEF TypeOK
  <2>3. CASE UNCHANGED vars
    BY <2>3, StoreTyped DEF vars, TypeOK
  <2> QED
    BY <2>1, <2>2, <2>3 DEF Next
<1> QED
  BY <1>1, <1>2, PTL DEF Spec

-----------------------------------------------------------------------------
(* The file and the memory                                                 *)

\* What an open store has in memory is the file and more: an entry of the
\* file is there with its key, and with its mark.  Without a file the store is
\* closed or still being constructed, and no call of it waits for a save.
MemoryHasFile ==
  /\ pc = "down" => saving = Absent
  /\ file = NoFile => pc # "idle" /\ saving = Absent
  /\ pc # "down" /\ file # NoFile =>
       \A kid \in Kids : file[kid] # Absent =>
         /\ entries[kid] # Absent
         /\ entries[kid].key = file[kid].key
         /\ file[kid].revoked => entries[kid].revoked

\* Between two calls the memory differs from the file only after a save has
\* raised.
FileIsCurrent == pc = "idle" /\ ~unsaved => file = entries

\* AddedIsDurable is not inductive: a rename replaces the whole file by the
\* memory, so MemoryHasFile must say that the memory has what the file had.
\* FileIsCurrent is for the revocations that are reported without a save.
StoreInv == MemoryHasFile /\ FileIsCurrent /\ AddedIsDurable

\* A step of the store keeps what relates memory, file and reports.
LEMMA StoreStep ==
  ASSUME StoreTypeOK, StoreInv, [StoreNext]_storeVars
  PROVE  StoreInv'
<1> USE KeyStoreAssumption DEF StoreTypeOK, StoreInv, MemoryHasFile, FileIsCurrent, AddedIsDurable
<1>1. ASSUME NEW secret \in Passphrases, OpenExisting(secret) \/ OpenNew(secret)
      PROVE  StoreInv'
  <2>1. CASE OpenExisting(secret)
    BY <2>1 DEF OpenExisting
  <2>2. CASE OpenNew(secret)
    BY <2>2 DEF OpenNew
  <2> QED
    BY <1>1, <2>1, <2>2
<1>2. ASSUME NEW kid \in Kids, AddKeypair(kid) PROVE StoreInv'
  <2>1. file # NoFile /\ file[kid] = Absent
    BY <1>2 DEF AddKeypair
  <2>2. \A other \in Kids \ {kid} : entries'[other] = entries[other]
    BY <1>2 DEF AddKeypair, Contents
  <2> QED
    BY <1>2, <2>1, <2>2 DEF AddKeypair
<1>3. ASSUME NEW kid \in Kids, Revoke(kid) PROVE StoreInv'
  <2>1. entries' = [entries EXCEPT ![kid] = [entries[kid] EXCEPT !.revoked = TRUE]]
    BY <1>3 DEF Revoke, Mark
  <2>2. entries[kid] \in Entries
    BY <1>3 DEF Revoke, Contents
  <2>3. /\ entries'[kid] \in Entries
        /\ entries'[kid].key = entries[kid].key
        /\ entries'[kid].revoked
    BY <2>1, <2>2 DEF Contents, Entries
  <2>4. \A other \in Kids \ {kid} : entries'[other] = entries[other]
    BY <2>1 DEF Contents
  <2> QED
    BY <1>3, <2>3, <2>4 DEF Revoke
<1>4. ASSUME NEW kid \in Kids, RevokeAgain(kid) PROVE StoreInv'
  BY <1>4 DEF RevokeAgain
<1>5. CASE WriteTmp \/ SaveFails
  BY <1>5 DEF WriteTmp, SaveFails
<1>6. CASE Rename
  <2>1. file' = entries /\ entries' = entries /\ file' # NoFile
    BY <1>6 DEF Rename
  <2>2. ASSUME NEW kid \in Kids, added'[kid] # Absent
        PROVE  entries[kid] # Absent /\ entries[kid].key = added'[kid]
    <3>1. CASE added'[kid] = added[kid]
      BY <1>6, <2>2, <3>1 DEF Rename
    <3>2. CASE added'[kid] # added[kid]
      BY <1>6, <3>2 DEF Rename
    <3> QED
      BY <3>1, <3>2
  <2> QED
    BY <1>6, <2>1, <2>2 DEF Rename
<1>7. CASE Die
  BY <1>7 DEF Die
<1>8. CASE UNCHANGED storeVars
  BY <1>8 DEF storeVars
<1> QED
  BY <1>1, <1>2, <1>3, <1>4, <1>5, <1>6, <1>7, <1>8 DEF StoreNext

\* Signing does not touch the store.
LEMMA StepOfStore == [Next]_vars => [StoreNext]_storeVars
BY DEF Next, Sign, vars

\* The invariant holds in every reachable state.
LEMMA StoreInvHolds == Spec => []StoreInv
<1>1. Init => StoreInv
  BY DEF Init, StoreInit, StoreInv, MemoryHasFile, FileIsCurrent, AddedIsDurable, Empty
<1>2. TypeOK /\ StoreInv /\ [Next]_vars => StoreInv'
  BY StoreStep, StepOfStore DEF TypeOK
<1> QED
  BY <1>1, <1>2, TypeCorrect, PTL DEF Spec

\* A key whose add_keypair returned is in the file ever after, under its kid:
\* no crash, failed save, other key or other passphrase can lose it.
THEOREM AddedIsDurableHolds == Spec => []AddedIsDurable
<1>1. StoreInv => AddedIsDurable
  BY DEF StoreInv
<1> QED
  BY <1>1, StoreInvHolds, PTL

\* A message signed with a key whose add_keypair returned verifies whenever
\* the store is open and the kid is not revoked, whatever failed since.
THEOREM OldSignaturesVerifyHolds == Spec => []OldSignaturesVerify
<1>1. TypeOK /\ StoreInv => OldSignaturesVerify
  <2> SUFFICES ASSUME TypeOK, StoreInv, NEW m \in sent,
                      pc = "idle", BoundToSender(m), added[m.kid] = m.key
               PROVE  StoreVerifies(m)
    BY DEF OldSignaturesVerify
  <2>1. m.kid \in Kids /\ m.key \in Nat
    BY DEF TypeOK
  <2>2. file # NoFile /\ file[m.kid] # Absent /\ file[m.kid].key = m.key
    BY <2>1, KeyStoreAssumption DEF StoreInv, AddedIsDurable
  <2>3. entries[m.kid] # Absent /\ entries[m.kid].key = m.key
    BY <2>1, <2>2 DEF StoreInv, MemoryHasFile
  <2> QED
    BY <2>3 DEF StoreVerifies, Resolves
<1> QED
  BY <1>1, TypeCorrect, StoreInvHolds, PTL

\* A revocation that was reported is in the file, unless a save raised; and a
\* save never loses a key or a mark that the file had.
THEOREM RevocationKeptHolds == Spec => RevocationKept
<1>1. TypeOK /\ StoreInv /\ [Next]_vars =>
        [\A kid \in Kids :
           /\ kid \in revoked' \ revoked /\ ~unsaved' => file'[kid].revoked
           /\ file # NoFile /\ file[kid] # Absent =>
                /\ file'[kid].key = file[kid].key
                /\ file[kid].revoked => file'[kid].revoked]_storeVars
  <2> SUFFICES ASSUME TypeOK, StoreInv, StoreNext, NEW kid \in Kids
               PROVE  /\ kid \in revoked' \ revoked /\ ~unsaved' => file'[kid].revoked
                      /\ file # NoFile /\ file[kid] # Absent =>
                           /\ file'[kid].key = file[kid].key
                           /\ file[kid].revoked => file'[kid].revoked
    BY StepOfStore
  <2> USE DEF StoreInv, MemoryHasFile, FileIsCurrent
  <2>1. CASE Rename
    BY <2>1 DEF Rename, Marked
  <2>2. ASSUME NEW other \in Kids, RevokeAgain(other)
        PROVE  file' = file /\ (kid \in revoked' \ revoked /\ ~unsaved' => file[kid].revoked)
    BY <2>2 DEF RevokeAgain, Marked
  <2>3. CASE file' = file /\ revoked' = revoked
    BY <2>3
  <2>4. \/ Rename
        \/ \E other \in Kids : RevokeAgain(other)
        \/ file' = file /\ revoked' = revoked
    BY DEF StoreNext, OpenExisting, OpenNew, AddKeypair, Revoke, WriteTmp, SaveFails, Die
  <2> QED
    BY <2>1, <2>2, <2>3, <2>4
<1> QED
  BY <1>1, TypeCorrect, StoreInvHolds, PTL DEF Spec, RevocationKept
=============================================================================
