------------------------- MODULE RevocationRegistry -------------------------
(***************************************************************************)
(* sifr/revocation.py: the registries of several processes over one        *)
(* append-only JSONL file of signed CapabilityRevocation messages.         *)
(*                                                                         *)
(* A registry has no lock: one process makes one call at a time, and what  *)
(* interleaves are the file operations of different processes, failed      *)
(* writes and crashes.  A line of the file is the capability it revokes,   *)
(* or Bad when it does not parse as one signed message.  Revoke and        *)
(* add_entry put the entry in memory first and append second.              *)
(***************************************************************************)
EXTENDS Naturals, Sequences

CONSTANTS
  Procs,      \* the processes, each with one registry
  Issuers,    \* those with an issuer_private_key
  Verifiers,  \* those with a verifier_key
  Caps,       \* the capability ids
  Bad,        \* a line that does not parse or verify
  NoCap,      \* no append in progress
  Faults,     \* the faults that occur: a subset of {"crash", "io"}
  MaxLines    \* bound of the exploration: no append starts beyond it

ASSUME RevocationAssumption ==
  /\ Issuers \subseteq Procs
  /\ Verifiers \subseteq Procs
  /\ Bad \notin Caps
  /\ Faults \subseteq {"crash", "io"}
  /\ MaxLines \in Nat

VARIABLES
  file,      \* the lines of store_path
  created,   \* store_path exists
  tailOpen,  \* the last line has no newline yet
  status,    \* what each process does
  entries,   \* _entries, as the set of its keys
  arg,       \* the capability of the _append in progress
  pos,       \* the next line _load reads
  reported,  \* history: capabilities some revoke or add_entry returned for
  known,     \* history: _entries as of the last return of each process
  failed     \* history: some write has failed

vars == <<file, created, tailOpen, status, entries, arg, pos, reported, known, failed>>

FileCaps == {file[i] : i \in DOMAIN file} \ {Bad}

Statuses == {"down", "starting", "idle", "appending", "reloading"}

Init ==
  /\ file = <<>>
  /\ created = FALSE
  /\ tailOpen = FALSE
  /\ status = [p \in Procs |-> "down"]
  /\ entries = [p \in Procs |-> {}]
  /\ arg = [p \in Procs |-> NoCap]
  /\ pos = [p \in Procs |-> 1]
  /\ reported = {}
  /\ known = [p \in Procs |-> {}]
  /\ failed = FALSE

Moves(p, from, to) == status[p] = from /\ status' = [status EXCEPT ![p] = to]

\* A call returns, or raises, and the process answers from its entries again.
Settles(p, from, answers) ==
  /\ Moves(p, from, "idle")
  /\ known' = [known EXCEPT ![p] = answers]

-----------------------------------------------------------------------------
(* Construction and crashes                                                *)

\* A constructor that finds no file is done at once.
StartWithoutFile(p) ==
  /\ ~created
  /\ Moves(p, "down", "idle")
  /\ UNCHANGED <<file, created, tailOpen, entries, arg, pos, reported, known, failed>>

\* One that finds a file loads it.  Without a verifier_key it raises, and the
\* process stays down.
StartLoading(p) ==
  /\ created
  /\ p \in Verifiers
  /\ Moves(p, "down", "starting")
  /\ pos' = [pos EXCEPT ![p] = 1]
  /\ UNCHANGED <<file, created, tailOpen, entries, arg, reported, known, failed>>

Crash(p) ==
  /\ "crash" \in Faults
  /\ status[p] # "down"
  /\ status' = [status EXCEPT ![p] = "down"]
  /\ entries' = [entries EXCEPT ![p] = {}]
  /\ arg' = [arg EXCEPT ![p] = NoCap]
  /\ pos' = [pos EXCEPT ![p] = 1]
  /\ known' = [known EXCEPT ![p] = {}]
  /\ UNCHANGED <<file, created, tailOpen, reported, failed>>

-----------------------------------------------------------------------------
(* revoke and add_entry                                                    *)

\* revoke() of a capability that is in memory returns the entry it has.
RevokeAgain(p, c) ==
  /\ p \in Issuers
  /\ status[p] = "idle"
  /\ c \in entries[p]
  /\ reported' = reported \cup {c}
  /\ UNCHANGED <<file, created, tailOpen, status, entries, arg, pos, known, failed>>

Record(p, c) ==
  /\ Len(file) < MaxLines
  /\ Moves(p, "idle", "appending")
  /\ entries' = [entries EXCEPT ![p] = @ \cup {c}]
  /\ arg' = [arg EXCEPT ![p] = c]
  /\ UNCHANGED <<file, created, tailOpen, pos, reported, known, failed>>

Revoke(p, c) == p \in Issuers /\ c \notin entries[p] /\ Record(p, c)

\* add_entry() of a revocation that some process issued; it is appended even
\* when the file has it already.  Anything unsigned or of another type raises
\* and changes nothing.
AddEntry(p, c) == p \in Verifiers /\ c \in reported /\ Record(p, c)

\* Mutation: the file is opened with "w".
WrittenOver(line) == <<line>>

\* A write that continues an unfinished line spoils that line.
Written(line) ==
  IF tailOpen THEN [file EXCEPT ![Len(file)] = Bad] ELSE Append(file, line)

\* Mutation: the call returns before the line is in the file.
AppendIsBuffered(p) ==
  /\ Settles(p, "appending", entries[p])
  /\ created' = TRUE
  /\ reported' = reported \cup {arg[p]}
  /\ arg' = [arg EXCEPT ![p] = NoCap]
  /\ UNCHANGED <<file, tailOpen, entries, pos, failed>>

AppendSucceeds(p) ==
  /\ Settles(p, "appending", entries[p])
  /\ file' = Written(arg[p])
  /\ created' = TRUE
  /\ tailOpen' = FALSE
  /\ reported' = reported \cup {arg[p]}
  /\ arg' = [arg EXCEPT ![p] = NoCap]
  /\ UNCHANGED <<entries, pos, failed>>

\* The write raises, for want of space: nothing was written, or a part of the
\* line, or the line without its newline.  The entry stays in memory.
AppendFails(p) ==
  /\ "io" \in Faults
  /\ Settles(p, "appending", entries[p])
  /\ created' = TRUE
  /\ \/ UNCHANGED <<file, tailOpen>>
     \/ /\ \E part \in {Bad, arg[p]} : file' = Written(part)
        /\ tailOpen' = TRUE
  /\ failed' = TRUE
  /\ arg' = [arg EXCEPT ![p] = NoCap]
  /\ UNCHANGED <<entries, pos, reported>>

-----------------------------------------------------------------------------
(* reload and _load                                                        *)

\* Mutation: reload reads on from where the last load ended.
ReloadOnlyNew(p) ==
  /\ entries' = [entries EXCEPT ![p] = {}]
  /\ IF created /\ p \in Verifiers
     THEN Moves(p, "idle", "reloading") /\ UNCHANGED known
     ELSE Settles(p, "idle", {})
  /\ UNCHANGED <<file, created, tailOpen, arg, pos, reported, failed>>

\* reload() drops the memory first; it is done when there is no file, and
\* raises with an empty memory when there is no verifier_key.
Reload(p) ==
  /\ entries' = [entries EXCEPT ![p] = {}]
  /\ pos' = [pos EXCEPT ![p] = 1]
  /\ IF created /\ p \in Verifiers
     THEN Moves(p, "idle", "reloading") /\ UNCHANGED known
     ELSE Settles(p, "idle", {})
  /\ UNCHANGED <<file, created, tailOpen, arg, reported, failed>>

Loading(p) == status[p] \in {"starting", "reloading"}

\* Mutation: a line is taken without verifying it.
LoadUnverifiedLine(p) ==
  /\ Loading(p)
  /\ pos[p] <= Len(file)
  /\ entries' = [entries EXCEPT ![p] = @ \cup {file[pos[p]]}]
  /\ pos' = [pos EXCEPT ![p] = @ + 1]
  /\ UNCHANGED <<file, created, tailOpen, status, arg, reported, known, failed>>

\* Mutation: each line replaces the entries read before it.
LoadOnlyLine(p) ==
  /\ Loading(p)
  /\ pos[p] <= Len(file)
  /\ file[pos[p]] # Bad
  /\ entries' = [entries EXCEPT ![p] = {file[pos[p]]}]
  /\ pos' = [pos EXCEPT ![p] = @ + 1]
  /\ UNCHANGED <<file, created, tailOpen, status, arg, reported, known, failed>>

LoadLine(p) ==
  /\ Loading(p)
  /\ pos[p] <= Len(file)
  /\ file[pos[p]] # Bad
  /\ entries' = [entries EXCEPT ![p] = @ \cup {file[pos[p]]}]
  /\ pos' = [pos EXCEPT ![p] = @ + 1]
  /\ UNCHANGED <<file, created, tailOpen, status, arg, reported, known, failed>>

LoadEnds(p) ==
  /\ Loading(p)
  /\ pos[p] > Len(file)
  /\ Settles(p, status[p], entries[p])
  /\ UNCHANGED <<file, created, tailOpen, entries, arg, pos, reported, failed>>

\* A bad line raises: the constructor gives no registry, and a reload leaves
\* the entries it has read so far.
LoadRaises(p) ==
  /\ pos[p] <= Len(file)
  /\ file[pos[p]] = Bad
  /\ \/ /\ Moves(p, "starting", "down")
        /\ entries' = [entries EXCEPT ![p] = {}]
        /\ UNCHANGED known
     \/ /\ Settles(p, "reloading", entries[p])
        /\ UNCHANGED entries
  /\ UNCHANGED <<file, created, tailOpen, arg, pos, reported, failed>>

Next ==
  \E p \in Procs :
    \/ StartWithoutFile(p)
    \/ StartLoading(p)
    \/ Crash(p)
    \/ \E c \in Caps : RevokeAgain(p, c) \/ Revoke(p, c) \/ AddEntry(p, c)
    \/ AppendSucceeds(p)
    \/ AppendFails(p)
    \/ Reload(p)
    \/ LoadLine(p)
    \/ LoadEnds(p)
    \/ LoadRaises(p)

Spec == Init /\ [][Next]_vars

-----------------------------------------------------------------------------
TypeOK ==
  /\ file \in Seq(Caps \cup {Bad})
  /\ created \in BOOLEAN
  /\ tailOpen \in BOOLEAN
  /\ status \in [Procs -> Statuses]
  /\ entries \in [Procs -> SUBSET Caps]
  /\ arg \in [Procs -> Caps \cup {NoCap}]
  /\ pos \in [Procs -> Nat \ {0}]
  /\ reported \subseteq Caps
  /\ known \in [Procs -> SUBSET Caps]
  /\ failed \in BOOLEAN
  /\ \A p \in Procs : status[p] = "appending" => arg[p] \in Caps

\* sifr/revocation.py:4, "The registry persists revocations as JSONL": what
\* revoke() or add_entry() has returned is in the file, in a line that every
\* process can read, whoever crashed since.
ReportedIsDurable == reported \subseteq FileCaps

\* It is so as long as no write has failed.
DurableUntilFailure == ~failed => ReportedIsDurable

\* As long as no write has failed, a capability that a running process has
\* answered to be revoked stays revoked for it, across its own reloads.
KnownOnlyGrows ==
  [][\A p \in Procs :
       status[p] # "down" /\ status'[p] # "down" /\ ~failed' =>
         known[p] \subseteq known'[p]]_vars

\* docs/security_claims_v0_4.md:46: a revocation that is known to the verifier,
\* and that stands in the file before and after, stays known to it.
KnownAndStoredStays ==
  [][\A p \in Procs :
       status[p] # "down" /\ status'[p] # "down" =>
         known[p] \cap FileCaps \cap FileCaps' \subseteq known'[p]]_vars

\* A reload that returns normally has every revocation of the file, those
\* appended by other processes while it was reading included.
ReloadSeesAll ==
  [][\A p \in Procs :
       status[p] = "reloading" /\ status'[p] = "idle" /\ pos[p] > Len(file) =>
         FileCaps \subseteq known'[p]]_vars

\* As long as no write has failed, the registries implement a growing set with
\* views that may lag.
View == INSTANCE RevocationView WITH revoked <- FileCaps, view <- known
ImplementsView ==
  /\ View!Init
  /\ [][failed' \/ [View!Next]_<<FileCaps, known>>]_vars
=============================================================================
