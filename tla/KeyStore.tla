------------------------------ MODULE KeyStore ------------------------------
(***************************************************************************)
(* sifr/key_management.py: EncryptedFileKeyStore, used by one process at a *)
(* time (the documents leave concurrent writers undefined).                *)
(*                                                                         *)
(* An entry is the key pair, the passphrase its ciphertext was made with   *)
(* and the revocation mark; AES-GCM under the Argon2 key of a passphrase   *)
(* opens exactly the ciphertexts made with that passphrase for that kid.   *)
(* _save writes a temporary file and renames it: two steps, each of which  *)
(* can fail or be cut off by a crash.                                      *)
(***************************************************************************)
EXTENDS Naturals

CONSTANTS
  Kids,        \* key ids
  Passphrases, \* passphrases the store is opened with
  StoreFaults, \* subset of {"crash", "save"}: what may happen to the process
  MaxKeys,     \* bound of the exploration: key pairs that are generated
  Absent,      \* no entry, no key
  NoFile       \* the store's path does not exist

VARIABLES
  file,     \* what the path holds
  entries,  \* _entries
  pass,     \* _passphrase of the open store
  pc,       \* "down", "idle", or the step of _save: "write", "rename"
  saving,   \* the kid whose add_keypair or revoke waits for _save, else Absent
  unsaved,  \* history: the last _save of this process raised
  keys,     \* number of key pairs generated
  added,    \* history: the key of each kid whose add_keypair returned
  revoked   \* history: kids whose revoke returned

storeVars == <<file, entries, pass, pc, saving, unsaved, keys, added, revoked>>

Entry(key, secret) == [key |-> key, pass |-> secret, revoked |-> FALSE]

Entries == [key : Nat, pass : Passphrases, revoked : BOOLEAN]

Contents == [Kids -> Entries \cup {Absent}]

ASSUME KeyStoreAssumption ==
  /\ StoreFaults \subseteq {"crash", "save"}
  /\ MaxKeys \in Nat
  /\ Absent \notin Nat \cup Entries \cup Kids
  /\ NoFile \notin Contents

Marked(kid) == entries[kid] # Absent /\ entries[kid].revoked

Empty == [kid \in Kids |-> Absent]

StoreInit ==
  /\ file = NoFile
  /\ entries = Empty
  /\ pass \in Passphrases
  /\ pc = "down"
  /\ saving = Absent
  /\ unsaved = FALSE
  /\ keys = 0
  /\ added = Empty
  /\ revoked = {}

-----------------------------------------------------------------------------
\* Mutation: __init__ does not ask whether there is a file.
OpenAnyway(secret) ==
  /\ pc = "down"
  /\ entries' = file
  /\ pass' = secret
  /\ pc' = "idle"
  /\ UNCHANGED <<file, saving, unsaved, keys, added, revoked>>

\* __init__ reads an existing file, whatever the passphrase: nothing is
\* decrypted before a private key is asked for.
OpenExisting(secret) ==
  /\ pc = "down"
  /\ file # NoFile
  /\ entries' = file
  /\ pass' = secret
  /\ pc' = "idle"
  /\ UNCHANGED <<file, saving, unsaved, keys, added, revoked>>

\* __init__ without a file creates one.
OpenNew(secret) ==
  /\ pc = "down"
  /\ file = NoFile
  /\ pass' = secret
  /\ pc' = "write"
  /\ UNCHANGED <<file, entries, saving, unsaved, keys, added, revoked>>

\* Mutation: add_keypair does not refuse a kid that is known.
AddReplaces(kid) ==
  /\ pc = "idle" /\ keys < MaxKeys
  /\ entries' = [entries EXCEPT ![kid] = Entry(keys + 1, pass)]
  /\ pc' = "write"
  /\ saving' = kid
  /\ keys' = keys + 1
  /\ UNCHANGED <<file, pass, unsaved, added, revoked>>

\* generate_keypair and add_keypair: a kid that is known is refused, which
\* changes nothing; the entry is in memory before _save runs.
AddKeypair(kid) ==
  /\ pc = "idle" /\ keys < MaxKeys
  /\ entries[kid] = Absent
  /\ entries' = [entries EXCEPT ![kid] = Entry(keys + 1, pass)]
  /\ pc' = "write"
  /\ saving' = kid
  /\ keys' = keys + 1
  /\ UNCHANGED <<file, pass, unsaved, added, revoked>>

Mark(kid) == entries' = [entries EXCEPT ![kid].revoked = TRUE]

\* Mutation: the revocation is not saved.
RevokeInMemory(kid) ==
  /\ pc = "idle"
  /\ entries[kid] # Absent /\ ~Marked(kid)
  /\ Mark(kid)
  /\ revoked' = revoked \cup {kid}
  /\ UNCHANGED <<file, pass, pc, saving, unsaved, keys, added>>

\* revoke: the entry is marked in memory, then saved.
Revoke(kid) ==
  /\ pc = "idle"
  /\ entries[kid] # Absent /\ ~Marked(kid)
  /\ Mark(kid)
  /\ pc' = "write"
  /\ saving' = kid
  /\ UNCHANGED <<file, pass, unsaved, keys, added, revoked>>

\* revoke of a marked entry returns without a _save, also when the call that
\* marked it raised.
RevokeAgain(kid) ==
  /\ pc = "idle"
  /\ Marked(kid)
  /\ revoked' = revoked \cup {kid}
  /\ UNCHANGED <<file, entries, pass, pc, saving, unsaved, keys, added>>

-----------------------------------------------------------------------------
(* _save                                                                   *)

\* Mutation: the file itself is truncated and written.
WriteInPlace ==
  /\ pc = "write"
  /\ pc' = "rename"
  /\ file' = Empty
  /\ UNCHANGED <<entries, pass, saving, unsaved, keys, added, revoked>>

\* The temporary file is written; nothing ever reads it.
WriteTmp ==
  /\ pc = "write"
  /\ pc' = "rename"
  /\ UNCHANGED <<file, entries, pass, saving, unsaved, keys, added, revoked>>

\* The rename; the call that saved returns.  Only a call of revoke has a
\* marked entry.
Rename ==
  LET marks == saving # Absent /\ Marked(saving)
      adds  == saving # Absent /\ entries[saving] # Absent /\ ~Marked(saving)
  IN  /\ pc = "rename"
      /\ file' = entries
      /\ pc' = "idle"
      /\ unsaved' = FALSE
      /\ added' = IF adds THEN [added EXCEPT ![saving] = entries[saving].key] ELSE added
      /\ revoked' = IF marks THEN revoked \cup {saving} ELSE revoked
      /\ saving' = Absent
      /\ UNCHANGED <<entries, pass, keys>>

\* _save raises: the memory keeps its change, and a failed constructor leaves
\* no store behind.
SaveFails ==
  /\ "save" \in StoreFaults
  /\ pc \in {"write", "rename"}
  /\ pc' = IF file = NoFile THEN "down" ELSE "idle"
  /\ unsaved' = (file # NoFile)
  /\ saving' = Absent
  /\ UNCHANGED <<file, entries, pass, keys, added, revoked>>

\* The process ends or crashes; only the file survives.
Die ==
  /\ "crash" \in StoreFaults
  /\ pc # "down"
  /\ pc' = "down"
  /\ entries' = Empty
  /\ saving' = Absent
  /\ unsaved' = FALSE
  /\ UNCHANGED <<file, pass, keys, added, revoked>>

StoreNext ==
  \/ \E secret \in Passphrases : OpenExisting(secret) \/ OpenNew(secret)
  \/ \E kid \in Kids : AddKeypair(kid) \/ Revoke(kid) \/ RevokeAgain(kid)
  \/ WriteTmp \/ Rename \/ SaveFails \/ Die

StoreSpec == StoreInit /\ [][StoreNext]_storeVars

-----------------------------------------------------------------------------
\* load_private_key: the ciphertext opens with the passphrase it was made
\* with, and not with another.
Loads(kid) == pc = "idle" /\ entries[kid] # Absent /\ entries[kid].pass = pass

\* resolve gives the public key of any entry, resolve_revoked tells apart the
\* marked ones.
Resolves(kid) == pc = "idle" /\ entries[kid] # Absent

ResolveRevoked(kid) == Resolves(kid) /\ Marked(kid)

-----------------------------------------------------------------------------
StoreTypeOK ==
  /\ file \in Contents \cup {NoFile}
  /\ entries \in Contents
  /\ pass \in Passphrases
  /\ pc \in {"down", "idle", "write", "rename"}
  /\ saving \in Kids \cup {Absent}
  /\ unsaved \in BOOLEAN
  /\ keys \in Nat
  /\ added \in [Kids -> Nat \cup {Absent}]
  /\ revoked \subseteq Kids

\* A key whose add_keypair returned is in the file ever after, under its kid,
\* through crashes, failed saves and openings with another passphrase.
AddedIsDurable ==
  \A kid \in Kids : added[kid] # Absent =>
    file # NoFile /\ file[kid] # Absent /\ file[kid].key = added[kid]

\* A revocation that was reported stays in force in the store that reported
\* it, and in the file unless a save of that store raised: the retry after a
\* failed save is the only way to report a revocation that is not stored.
RevocationKept ==
  [][\A kid \in Kids :
       /\ kid \in revoked' \ revoked /\ ~unsaved' => file'[kid].revoked
       /\ file # NoFile /\ file[kid] # Absent =>
            /\ file'[kid].key = file[kid].key
            /\ file[kid].revoked => file'[kid].revoked]_storeVars
=============================================================================
