---------------------- MODULE RevocationRegistryProofs ----------------------
(***************************************************************************)
(* Proofs about RevocationRegistry for any processes, issuers, verifiers   *)
(* and capabilities, a log of any length, and under every subset of the    *)
(* faults.                                                                 *)
(***************************************************************************)
EXTENDS RevocationRegistry, SequenceTheorems, TLAPS

Lines == Caps \cup {Bad}

\* A write, also one that continues an unfinished line, keeps the number of
\* each line and changes no line but into Bad.
LEMMA WrittenKeeps ==
  ASSUME file \in Seq(Lines), tailOpen \in BOOLEAN, NEW line \in Lines
  PROVE  /\ Written(line) \in Seq(Lines)
         /\ Len(file) <= Len(Written(line))
         /\ \A i \in 1..Len(file) : Written(line)[i] \in {file[i], Bad}
<1>1. CASE tailOpen
  <2>1. Written(line) = [file EXCEPT ![Len(file)] = Bad]
    BY <1>1 DEF Written
  <2>2. CASE file = <<>>
    <3>1. Len(file) = 0 /\ DOMAIN file = {}
      BY <2>2
    <3>2. Written(line) = file
      BY <2>1, <3>1
    <3> QED
      BY <3>1, <3>2
  <2>3. CASE file # <<>>
    <3>1. Len(file) \in 1..Len(file) /\ Bad \in Lines
      BY <2>3 DEF Lines
    <3> QED
      BY <2>1, <3>1, ExceptSeq
  <2> QED
    BY <2>2, <2>3
<1>2. CASE ~tailOpen
  <2>1. Written(line) = Append(file, line)
    BY <1>2 DEF Written
  <2> QED
    BY <2>1
<1> QED
  BY <1>1, <1>2

\* A line appended to complete lines adds its capability to the file.
LEMMA WrittenAdds ==
  ASSUME file \in Seq(Lines), ~tailOpen, NEW c \in Caps, file' = Written(c)
  PROVE  /\ FileCaps' = FileCaps \cup {c}
         /\ (\A i \in DOMAIN file : file[i] # Bad) => \A i \in DOMAIN file' : file'[i] # Bad
<1> USE RevocationAssumption
<1>1. file' = Append(file, c)
  BY DEF Written
<1>2. /\ DOMAIN file = 1..Len(file)
      /\ DOMAIN file' = 1..(Len(file) + 1)
      /\ \A i \in 1..Len(file) : file'[i] = file[i]
      /\ file'[Len(file) + 1] = c
      /\ Len(file) \in Nat
  BY <1>1
<1>3. DOMAIN file' = DOMAIN file \cup {Len(file) + 1}
  BY <1>2
<1>4. FileCaps' = FileCaps \cup {c}
  BY <1>2, <1>3 DEF FileCaps
<1> QED
  BY <1>2, <1>3, <1>4

\* Every variable of the registries keeps its type.
THEOREM TypeCorrect == Spec => []TypeOK
<1>1. Init => TypeOK
  <2> SUFFICES ASSUME Init PROVE TypeOK
    OBVIOUS
  <2>1. /\ file \in Seq(Caps \cup {Bad})
        /\ created \in BOOLEAN
        /\ tailOpen \in BOOLEAN
        /\ failed \in BOOLEAN
    BY EmptySeq DEF Init
  <2>2. /\ entries \in [Procs -> SUBSET Caps]
        /\ known \in [Procs -> SUBSET Caps]
        /\ reported \subseteq Caps
    BY DEF Init
  <2>3. /\ status \in [Procs -> Statuses]
        /\ arg \in [Procs -> Caps \cup {NoCap}]
        /\ pos \in [Procs -> Nat \ {0}]
        /\ \A p \in Procs : status[p] = "down"
    BY DEF Init, Statuses
  <2> QED
    BY <2>1, <2>2, <2>3 DEF TypeOK
<1>2. TypeOK /\ [Next]_vars => TypeOK'
  <2> SUFFICES ASSUME TypeOK, [Next]_vars PROVE TypeOK'
    OBVIOUS
  <2> USE RevocationAssumption DEF TypeOK, Statuses, Moves, Settles
  <2>1. ASSUME NEW p \in Procs, StartWithoutFile(p) \/ StartLoading(p) PROVE TypeOK'
    <3>1. CASE StartWithoutFile(p)
      BY <3>1 DEF StartWithoutFile
    <3>2. CASE StartLoading(p)
      BY <3>2 DEF StartLoading
    <3> QED
      BY <2>1, <3>1, <3>2
  <2>2. ASSUME NEW p \in Procs, Crash(p) PROVE TypeOK'
    BY <2>2 DEF Crash
  <2>3. ASSUME NEW p \in Procs, NEW c \in Caps, RevokeAgain(p, c) PROVE TypeOK'
    BY <2>3 DEF RevokeAgain
  <2>4. ASSUME NEW p \in Procs, NEW c \in Caps, Record(p, c) PROVE TypeOK'
    BY <2>4 DEF Record
  <2>5. ASSUME NEW p \in Procs, AppendSucceeds(p) PROVE TypeOK'
    <3>1. arg[p] \in Lines /\ Written(arg[p]) \in Seq(Lines)
      BY <2>5, WrittenKeeps DEF AppendSucceeds, Lines
    <3> QED
      BY <2>5, <3>1 DEF AppendSucceeds, Lines
  <2>6. ASSUME NEW p \in Procs, AppendFails(p) PROVE TypeOK'
    <3>1. \A part \in {Bad, arg[p]} : Written(part) \in Seq(Lines)
      BY <2>6, WrittenKeeps DEF AppendFails, Lines
    <3>2. file' \in Seq(Lines) /\ tailOpen' \in BOOLEAN
      BY <2>6, <3>1 DEF AppendFails, Lines
    <3>3. \A q \in Procs : status'[q] = "appending" => status[q] = "appending" /\ arg'[q] = arg[q]
      BY <2>6 DEF AppendFails
    <3>4. /\ created' \in BOOLEAN /\ failed' \in BOOLEAN
          /\ status' \in [Procs -> Statuses]
          /\ known' \in [Procs -> SUBSET Caps]
          /\ arg' \in [Procs -> Caps \cup {NoCap}]
          /\ UNCHANGED <<entries, pos, reported>>
      BY <2>6 DEF AppendFails
    <3>5. \A q \in Procs : status'[q] = "appending" => arg'[q] \in Caps
      BY <3>3
    <3>6. /\ entries' \in [Procs -> SUBSET Caps]
          /\ pos' \in [Procs -> Nat \ {0}]
          /\ reported' \subseteq Caps
      BY <3>4
    <3> QED
      BY <3>2, <3>4, <3>5, <3>6 DEF Lines
  <2>7. ASSUME NEW p \in Procs, Reload(p) PROVE TypeOK'
    <3>1. CASE created /\ p \in Verifiers
      BY <2>7, <3>1 DEF Reload
    <3>2. CASE ~(created /\ p \in Verifiers)
      <4>1. Settles(p, "idle", {})
        BY <2>7, <3>2 DEF Reload
      <4>2. /\ status' \in [Procs -> Statuses]
            /\ known' \in [Procs -> SUBSET Caps]
            /\ \A q \in Procs : status'[q] = "appending" => status[q] = "appending"
        BY <4>1
      <4>3. /\ UNCHANGED <<file, created, tailOpen, arg, reported, failed>>
            /\ entries' \in [Procs -> SUBSET Caps]
            /\ pos' \in [Procs -> Nat \ {0}]
        BY <2>7 DEF Reload
      <4> QED
        BY <4>2, <4>3
    <3> QED
      BY <3>1, <3>2
  <2>8. ASSUME NEW p \in Procs, LoadLine(p) PROVE TypeOK'
    <3>1. file[pos[p]] \in Caps
      BY <2>8 DEF LoadLine
    <3> QED
      BY <2>8, <3>1 DEF LoadLine, Loading
  <2>9. ASSUME NEW p \in Procs, LoadEnds(p) \/ LoadRaises(p) PROVE TypeOK'
    BY <2>9, ZenonT(60) DEF LoadEnds, LoadRaises, Loading
  <2>10. CASE UNCHANGED vars
    BY <2>10 DEF vars
  <2> QED
    BY <2>1, <2>2, <2>3, <2>4, <2>5, <2>6, <2>7, <2>8, <2>9, <2>10
    DEF Next, Revoke, AddEntry
<1> QED
  BY <1>1, <1>2, PTL DEF Spec

-----------------------------------------------------------------------------
(* What a process has in memory, with any faults                           *)

\* Outside a load, the memory of a process is what it answered from last, and
\* the capability it is appending.
MemoryIsKnown ==
  \A p \in Procs :
    /\ status[p] = "idle" => entries[p] = known[p]
    /\ status[p] = "appending" => entries[p] = known[p] \cup {arg[p]}
    /\ status[p] = "down" => entries[p] = {}
    /\ status[p] \in {"down", "starting"} => known[p] = {}

\* A process that loads has in memory every line before its position.
LoadedSoFar ==
  \A p \in Procs : Loading(p) =>
    /\ pos[p] <= Len(file) + 1
    /\ \A i \in 1..Len(file) : i < pos[p] /\ file[i] # Bad => file[i] \in entries[p]

MemoryInv == MemoryIsKnown /\ LoadedSoFar

\* A step that leaves lines in their place does not disturb the loads of the
\* other processes.
LEMMA OthersLoadOn ==
  ASSUME TypeOK, LoadedSoFar, file' \in Seq(Lines), Len(file) <= Len(file'),
         \A i \in 1..Len(file) : file'[i] \in {file[i], Bad},
         NEW q \in Procs, Loading(q)', status'[q] = status[q],
         entries'[q] = entries[q], pos'[q] = pos[q]
  PROVE  /\ pos'[q] <= Len(file') + 1
         /\ \A i \in 1..Len(file') : i < pos'[q] /\ file'[i] # Bad => file'[i] \in entries'[q]
<1>1. Len(file) \in Nat /\ Len(file') \in Nat /\ pos[q] \in Nat
  BY DEF TypeOK
<1>2. pos[q] <= Len(file) + 1 /\ Loading(q)
  BY DEF LoadedSoFar, Loading
<1>3. ASSUME NEW i \in 1..Len(file'), i < pos'[q], file'[i] # Bad PROVE file'[i] \in entries'[q]
  <2>1. i \in 1..Len(file)
    BY <1>1, <1>2, <1>3
  <2> QED
    BY <1>2, <1>3, <2>1 DEF LoadedSoFar
<1> QED
  BY <1>1, <1>2, <1>3

\* MemoryInv is inductive.
LEMMA MemoryStep ==
  ASSUME TypeOK, MemoryInv, [Next]_vars
  PROVE  MemoryInv'
<1> USE DEF MemoryInv, MemoryIsKnown, LoadedSoFar, Loading, Moves, Settles, TypeOK
<1>1. ASSUME NEW p \in Procs, StartWithoutFile(p) PROVE MemoryInv'
  BY <1>1 DEF StartWithoutFile
<1>2. ASSUME NEW p \in Procs, StartLoading(p) PROVE MemoryInv'
  <2>1. MemoryIsKnown'
    BY <1>2 DEF StartLoading
  <2>2. LoadedSoFar'
    BY <1>2 DEF StartLoading
  <2> QED
    BY <2>1, <2>2
<1>3. ASSUME NEW p \in Procs, Crash(p) PROVE MemoryInv'
  BY <1>3 DEF Crash
<1>4. ASSUME NEW p \in Procs, NEW c \in Caps, RevokeAgain(p, c) PROVE MemoryInv'
  BY <1>4 DEF RevokeAgain
<1>5. ASSUME NEW p \in Procs, NEW c \in Caps, Record(p, c) PROVE MemoryInv'
  BY <1>5 DEF Record
<1>6. ASSUME NEW p \in Procs, AppendSucceeds(p) \/ AppendFails(p) PROVE MemoryInv'
  <2>1. /\ status[p] = "appending"
        /\ status' = [status EXCEPT ![p] = "idle"]
        /\ known' = [known EXCEPT ![p] = entries[p]]
        /\ \A q \in Procs \ {p} : arg'[q] = arg[q]
        /\ UNCHANGED <<entries, pos>>
    BY <1>6 DEF AppendSucceeds, AppendFails
  <2>2. MemoryIsKnown'
    BY <2>1
  <2>3. file' = file \/ \E line \in Lines : file' = Written(line)
    BY <1>6 DEF AppendSucceeds, AppendFails, Lines
  <2>4. /\ file' \in Seq(Lines)
        /\ Len(file) <= Len(file')
        /\ \A i \in 1..Len(file) : file'[i] \in {file[i], Bad}
    <3>1. CASE file' = file
      BY <3>1 DEF Lines
    <3>2. CASE \E line \in Lines : file' = Written(line)
      BY <3>2, WrittenKeeps DEF Lines
    <3> QED
      BY <2>3, <3>1, <3>2
  <2>5. LoadedSoFar'
    <3> SUFFICES ASSUME NEW q \in Procs, Loading(q)'
                 PROVE  /\ pos'[q] <= Len(file') + 1
                        /\ \A i \in 1..Len(file') :
                             i < pos'[q] /\ file'[i] # Bad => file'[i] \in entries'[q]
      BY DEF LoadedSoFar
    <3>1. status'[q] = status[q] /\ entries'[q] = entries[q] /\ pos'[q] = pos[q]
      BY <2>1
    <3> QED
      BY <2>4, <3>1, OthersLoadOn
  <2> QED
    BY <2>2, <2>5
<1>7. ASSUME NEW p \in Procs, Reload(p) PROVE MemoryInv'
  <2>1. /\ entries' = [entries EXCEPT ![p] = {}]
        /\ pos' = [pos EXCEPT ![p] = 1]
        /\ UNCHANGED <<file, arg>>
    BY <1>7 DEF Reload
  <2>2. CASE created /\ p \in Verifiers
    BY <1>7, <2>1, <2>2 DEF Reload
  <2>3. CASE Settles(p, "idle", {})
    BY <2>1, <2>3
  <2> QED
    BY <1>7, <2>2, <2>3 DEF Reload
<1>8. ASSUME NEW p \in Procs, LoadLine(p) PROVE MemoryInv'
  <2>1. MemoryIsKnown'
    BY <1>8 DEF LoadLine
  <2>2. LoadedSoFar'
    BY <1>8 DEF LoadLine
  <2> QED
    BY <2>1, <2>2
<1>9. ASSUME NEW p \in Procs, LoadEnds(p) PROVE MemoryInv'
  BY <1>9 DEF LoadEnds
<1>10. ASSUME NEW p \in Procs, LoadRaises(p) PROVE MemoryInv'
  BY <1>10, SMTT(30) DEF LoadRaises
<1>11. CASE UNCHANGED vars
  BY <1>11 DEF vars
<1> QED
  BY <1>1, <1>2, <1>3, <1>4, <1>5, <1>6, <1>7, <1>8, <1>9, <1>10, <1>11
  DEF Next, Revoke, AddEntry

-----------------------------------------------------------------------------
(* The log, until a write fails                                            *)

\* The file has complete lines only, and has whatever was reported, whatever a
\* process answers from, and whatever a load has put into memory.
LogIsSound ==
  /\ ~tailOpen
  /\ \A i \in DOMAIN file : file[i] # Bad
  /\ reported \subseteq FileCaps
  /\ \A p \in Procs :
       /\ known[p] \subseteq FileCaps
       /\ Loading(p) => entries[p] \subseteq FileCaps

\* DurableUntilFailure alone is not inductive: a revoke of a known capability
\* reports it without writing, so what is known must be in the file, and what
\* a load puts into memory as well.
LogInv ==
  /\ ~created => file = <<>>
  /\ ~failed => LogIsSound

\* A step that keeps the file keeps a sound log, when what it makes known,
\* reports and loads was known, or is in the file.
LEMMA FileUntouched ==
  ASSUME LogIsSound, file' = file, tailOpen' = tailOpen, reported' \subseteq FileCaps,
         \A p \in Procs :
           /\ known'[p] \subseteq FileCaps
           /\ Loading(p)' => entries'[p] \subseteq FileCaps
  PROVE  LogIsSound'
BY DEF LogIsSound, FileCaps

\* LogInv is inductive.
LEMMA LogStep ==
  ASSUME TypeOK, MemoryInv, LogInv, [Next]_vars
  PROVE  LogInv'
<1> USE DEF TypeOK, MemoryInv, Moves, Settles
<1>0. CASE failed
  <2>1. failed'
    BY <1>0 DEF Next, vars, StartWithoutFile, StartLoading, Crash, RevokeAgain, Revoke,
         AddEntry, Record, AppendSucceeds, AppendFails, Reload, LoadLine, LoadEnds, LoadRaises
  <2>2. ~created' => file' = <<>>
    BY DEF LogInv, Next, vars, StartWithoutFile, StartLoading, Crash, RevokeAgain, Revoke,
         AddEntry, Record, AppendSucceeds, AppendFails, Reload, LoadLine, LoadEnds, LoadRaises
  <2> QED
    BY <2>1, <2>2 DEF LogInv
<1>a. SUFFICES ASSUME ~failed, ~created => file = <<>>, LogIsSound PROVE LogInv'
  BY <1>0 DEF LogInv
<1>1. ASSUME NEW p \in Procs, StartWithoutFile(p) \/ StartLoading(p) PROVE LogInv'
  <2>1. LogIsSound'
    BY <1>1, <1>a, FileUntouched
    DEF StartWithoutFile, StartLoading, LogIsSound, Loading, MemoryIsKnown
  <2> QED
    BY <1>1, <1>a, <2>1 DEF LogInv, StartWithoutFile, StartLoading
<1>2. ASSUME NEW p \in Procs, Crash(p) PROVE LogInv'
  <2>1. LogIsSound'
    BY <1>2, <1>a, FileUntouched DEF Crash, LogIsSound, Loading
  <2> QED
    BY <1>2, <1>a, <2>1 DEF LogInv, Crash
<1>3. ASSUME NEW p \in Procs, NEW c \in Caps, RevokeAgain(p, c) PROVE LogInv'
  <2>1. c \in FileCaps
    BY <1>3, <1>a DEF RevokeAgain, MemoryIsKnown, LogIsSound
  <2>2. LogIsSound'
    BY <1>3, <1>a, <2>1, FileUntouched DEF RevokeAgain, LogIsSound, Loading
  <2> QED
    BY <1>3, <1>a, <2>2 DEF LogInv, RevokeAgain
<1>4. ASSUME NEW p \in Procs, NEW c \in Caps, Record(p, c) PROVE LogInv'
  <2>1. LogIsSound'
    BY <1>4, <1>a, FileUntouched DEF Record, LogIsSound, Loading
  <2> QED
    BY <1>4, <1>a, <2>1 DEF LogInv, Record
<1>5. ASSUME NEW p \in Procs, AppendSucceeds(p) PROVE LogInv'
  <2>1. arg[p] \in Caps /\ file' = Written(arg[p]) /\ ~tailOpen
    BY <1>5, <1>a DEF AppendSucceeds, LogIsSound
  <2>2. /\ FileCaps' = FileCaps \cup {arg[p]}
        /\ \A i \in DOMAIN file' : file'[i] # Bad
    BY <2>1, <1>a, WrittenAdds DEF Lines, LogIsSound
  <2>3. ASSUME NEW q \in Procs
        PROVE  /\ known'[q] \subseteq FileCaps'
               /\ Loading(q)' => entries'[q] \subseteq FileCaps'
    <3>1. CASE q = p
      BY <1>5, <1>a, <2>2, <3>1 DEF AppendSucceeds, MemoryIsKnown, LogIsSound, Loading
    <3>2. CASE q # p
      BY <1>5, <1>a, <2>2, <3>2 DEF AppendSucceeds, LogIsSound, Loading
    <3> QED
      BY <3>1, <3>2
  <2>4. reported' \subseteq FileCaps' /\ ~tailOpen' /\ created'
    BY <1>5, <1>a, <2>2 DEF AppendSucceeds, LogIsSound
  <2> QED
    BY <2>2, <2>3, <2>4 DEF LogInv, LogIsSound
<1>6. ASSUME NEW p \in Procs, AppendFails(p) PROVE LogInv'
  BY <1>6 DEF LogInv, AppendFails
<1>7. ASSUME NEW p \in Procs, Reload(p) PROVE LogInv'
  <2>1. \A q \in Procs :
          /\ known'[q] \subseteq FileCaps
          /\ Loading(q)' => entries'[q] \subseteq FileCaps
    <3>1. known' = known \/ known' = [known EXCEPT ![p] = {}]
      BY <1>7 DEF Reload
    <3>2. \A q \in Procs \ {p} : status'[q] = status[q] /\ entries'[q] = entries[q]
      BY <1>7 DEF Reload
    <3>3. entries'[p] = {}
      BY <1>7 DEF Reload
    <3> QED
      BY <1>a, <3>1, <3>2, <3>3 DEF LogIsSound, Loading
  <2>2. LogIsSound'
    BY <1>7, <1>a, <2>1, FileUntouched DEF Reload, LogIsSound
  <2> QED
    BY <1>7, <1>a, <2>2 DEF LogInv, Reload
<1>8. ASSUME NEW p \in Procs, LoadLine(p) PROVE LogInv'
  <2>1. file[pos[p]] \in FileCaps
    BY <1>8 DEF LoadLine, FileCaps
  <2>2. LogIsSound'
    BY <1>8, <1>a, <2>1, FileUntouched DEF LoadLine, LogIsSound, Loading
  <2> QED
    BY <1>8, <1>a, <2>2 DEF LogInv, LoadLine
<1>9. ASSUME NEW p \in Procs, LoadEnds(p) PROVE LogInv'
  <2>1. LogIsSound'
    BY <1>9, <1>a, FileUntouched DEF LoadEnds, LogIsSound, Loading
  <2> QED
    BY <1>9, <1>a, <2>1 DEF LogInv, LoadEnds
<1>10. ASSUME NEW p \in Procs, LoadRaises(p) PROVE LogInv'
  <2>1. pos[p] \in DOMAIN file /\ file[pos[p]] = Bad
    BY <1>10 DEF LoadRaises
  <2> QED
    BY <1>a, <2>1 DEF LogIsSound
<1>11. CASE UNCHANGED vars
  <2>1. LogIsSound'
    BY <1>11, <1>a, FileUntouched DEF vars, LogIsSound, Loading
  <2> QED
    BY <1>11, <1>a, <2>1 DEF LogInv, vars
<1> QED
  BY <1>1, <1>2, <1>3, <1>4, <1>5, <1>6, <1>7, <1>8, <1>9, <1>10, <1>11
  DEF Next, Revoke, AddEntry

\* Both invariants hold in every reachable state.
LEMMA RegistryInv == Spec => [](MemoryInv /\ LogInv)
<1>1. Init => MemoryInv /\ LogInv
  BY DEF Init, MemoryInv, MemoryIsKnown, LoadedSoFar, Loading, LogInv, LogIsSound
<1>2. TypeOK /\ MemoryInv /\ LogInv /\ [Next]_vars => (MemoryInv /\ LogInv)'
  BY MemoryStep, LogStep
<1> QED
  BY <1>1, <1>2, TypeCorrect, PTL DEF Spec

\* What revoke() or add_entry() has returned is in the file until a write
\* fails, whoever crashes, loads or appends meanwhile.
THEOREM DurableUntilFailureHolds == Spec => []DurableUntilFailure
<1>1. LogInv => DurableUntilFailure
  BY DEF LogInv, LogIsSound, DurableUntilFailure, ReportedIsDurable
<1> QED
  BY <1>1, RegistryInv, PTL

-----------------------------------------------------------------------------
(* Reloads                                                                 *)

\* A load that has come to the end of the file has all of it in memory.
LEMMA LoadIsComplete ==
  ASSUME TypeOK, MemoryInv, NEW p \in Procs, Loading(p), pos[p] > Len(file)
  PROVE  FileCaps \subseteq entries[p]
BY DEF TypeOK, MemoryInv, LoadedSoFar, FileCaps

\* A reload that returns normally has every revocation that is in the file at
\* that moment, with writes that fail or spoil a line as well.
THEOREM ReloadSeesAllHolds == Spec => ReloadSeesAll
<1>1. TypeOK /\ MemoryInv /\ [Next]_vars =>
        [\A p \in Procs :
           status[p] = "reloading" /\ status'[p] = "idle" /\ pos[p] > Len(file) =>
             FileCaps \subseteq known'[p]]_vars
  <2> SUFFICES ASSUME TypeOK, MemoryInv, Next, NEW p \in Procs,
                      status[p] = "reloading", status'[p] = "idle", pos[p] > Len(file)
               PROVE  FileCaps \subseteq known'[p]
    OBVIOUS
  <2>1. LoadEnds(p) \/ LoadRaises(p)
    BY DEF TypeOK, Moves, Settles, Next, StartWithoutFile, StartLoading, Crash, RevokeAgain,
      Revoke, AddEntry, Record, AppendSucceeds, AppendFails, Reload, LoadLine, LoadEnds, LoadRaises
  <2>2. CASE LoadEnds(p)
    BY <2>2, LoadIsComplete DEF LoadEnds, Settles, TypeOK
  <2>3. CASE LoadRaises(p)
    BY <2>3 DEF LoadRaises, TypeOK
  <2> QED
    BY <2>1, <2>2, <2>3
<1> QED
  BY <1>1, TypeCorrect, RegistryInv, PTL DEF Spec, ReloadSeesAll

\* When every process can verify the log, no reload takes back a revocation
\* that a running process has answered, until a write fails.  A process without
\* a verifier_key is left with an empty memory by its own reload().
THEOREM KnownOnlyGrowsHolds ==
  ASSUME Procs \subseteq Verifiers
  PROVE  Spec => KnownOnlyGrows
<1>1. TypeOK /\ MemoryInv /\ LogInv /\ [Next]_vars =>
        [\A p \in Procs :
           status[p] # "down" /\ status'[p] # "down" /\ ~failed' =>
             known[p] \subseteq known'[p]]_vars
  <2> SUFFICES ASSUME TypeOK, MemoryInv, LogInv, Next, NEW p \in Procs,
                      status[p] # "down", status'[p] # "down", ~failed'
               PROVE  known[p] \subseteq known'[p]
    OBVIOUS
  <2> USE DEF TypeOK, Moves, Settles
  <2>1. ~failed /\ LogIsSound
    BY DEF LogInv, Next, StartWithoutFile, StartLoading, Crash, RevokeAgain, Revoke, AddEntry,
      Record, AppendSucceeds, AppendFails, Reload, LoadLine, LoadEnds, LoadRaises
  <2>2. CASE AppendSucceeds(p)
    BY <2>2 DEF AppendSucceeds, MemoryInv, MemoryIsKnown
  <2>3. CASE Reload(p)
    <3>1. CASE created
      BY <2>3, <3>1 DEF Reload
    <3>2. CASE ~created
      BY <2>1, <3>2 DEF LogInv, LogIsSound, FileCaps
    <3> QED
      BY <3>1, <3>2
  <2>4. CASE LoadEnds(p)
    <3>1. FileCaps \subseteq entries[p]
      BY <2>4, LoadIsComplete DEF LoadEnds
    <3> QED
      BY <2>1, <2>4, <3>1 DEF LoadEnds, LogIsSound
  <2>5. ~LoadRaises(p)
    <3>1. LoadRaises(p) => pos[p] \in DOMAIN file /\ file[pos[p]] = Bad
      BY DEF LoadRaises
    <3> QED
      BY <2>1, <3>1 DEF LogIsSound
  <2>6. \/ AppendSucceeds(p) \/ Reload(p) \/ LoadEnds(p) \/ LoadRaises(p)
        \/ known'[p] = known[p]
    BY DEF Next, StartWithoutFile, StartLoading, Crash, RevokeAgain, Revoke, AddEntry,
      Record, AppendSucceeds, AppendFails, Reload, LoadLine, LoadEnds, LoadRaises
  <2> QED
    BY <2>2, <2>3, <2>4, <2>5, <2>6
<1> QED
  BY <1>1, TypeCorrect, RegistryInv, PTL DEF Spec, KnownOnlyGrows

-----------------------------------------------------------------------------
(* Refinement                                                              *)

\* Each step of a registry is one of the view, or none, until a write fails:
\* the end of an append revokes here, the end of a load learns, and a crash or
\* a reload that ends at once forgets.
LEMMA ViewStep ==
  ASSUME TypeOK, MemoryInv, LogInv, Next
  PROVE  failed' \/ [View!Next]_<<FileCaps, known>>
<1> SUFFICES ASSUME ~failed' PROVE View!Next \/ UNCHANGED <<FileCaps, known>>
  OBVIOUS
<1> USE DEF TypeOK, Moves, Settles
<1>0. ~failed /\ LogIsSound
  BY DEF LogInv, Next, StartWithoutFile, StartLoading, Crash, RevokeAgain, Revoke, AddEntry,
    Record, AppendSucceeds, AppendFails, Reload, LoadLine, LoadEnds, LoadRaises
<1>1. ASSUME file' = file PROVE FileCaps' = FileCaps
  BY <1>1 DEF FileCaps
<1>2. ASSUME NEW p \in Procs, AppendSucceeds(p) PROVE View!Next
  <2>1. arg[p] \in Caps /\ entries[p] = known[p] \cup {arg[p]}
    BY <1>2 DEF AppendSucceeds, MemoryInv, MemoryIsKnown
  <2>2. FileCaps' = FileCaps \cup {arg[p]}
    BY <1>0, <1>2, <2>1, WrittenAdds DEF AppendSucceeds, Lines, LogIsSound
  <2>3. View!RevokeHere(p, arg[p])
    BY <1>2, <2>1, <2>2 DEF AppendSucceeds, View!RevokeHere
  <2> QED
    BY <2>1, <2>3 DEF View!Next
<1>3. ASSUME NEW p \in Procs, LoadEnds(p) PROVE View!Next
  <2>1. FileCaps' = FileCaps /\ known' = [known EXCEPT ![p] = entries[p]]
    BY <1>1, <1>3 DEF LoadEnds
  <2>2. entries[p] \subseteq FileCaps /\ known[p] \subseteq entries[p]
    BY <1>0, <1>3, LoadIsComplete DEF LoadEnds, LogIsSound
  <2>3. known' = [known EXCEPT ![p] = @ \cup entries[p]]
    BY <2>1, <2>2
  <2>4. View!Learn(p)
    BY <2>1, <2>2, <2>3 DEF View!Learn
  <2> QED
    BY <2>4 DEF View!Next
<1>4. ASSUME NEW p \in Procs, Crash(p) PROVE View!Next
  BY <1>1, <1>4 DEF Crash, View!Next, View!Die
<1>5. ASSUME NEW p \in Procs, Reload(p) PROVE View!Next \/ UNCHANGED <<FileCaps, known>>
  BY <1>1, <1>5 DEF Reload, View!Next, View!Die
<1>6. ASSUME NEW p \in Procs, LoadRaises(p) PROVE UNCHANGED <<FileCaps, known>>
  <2>1. pos[p] \in DOMAIN file /\ file[pos[p]] = Bad
    BY <1>6 DEF LoadRaises
  <2> QED
    BY <1>0, <2>1 DEF LogIsSound
<1>7. ASSUME NEW p \in Procs, AppendFails(p) PROVE FALSE
  BY <1>7 DEF AppendFails
<1>8. \/ \E p \in Procs : \/ AppendSucceeds(p) \/ LoadEnds(p) \/ Crash(p)
                          \/ Reload(p) \/ LoadRaises(p) \/ AppendFails(p)
      \/ file' = file /\ known' = known
  BY DEF Next, StartWithoutFile, StartLoading, RevokeAgain, Revoke, AddEntry, Record, LoadLine
<1> QED
  BY <1>1, <1>2, <1>3, <1>4, <1>5, <1>6, <1>7, <1>8

\* As long as no write has failed, the registries over one log implement
\* RevocationView.
THEOREM ImplementsViewHolds == Spec => ImplementsView
<1>1. Init => View!Init
  BY DEF Init, View!Init, FileCaps
<1>2. TypeOK /\ MemoryInv /\ LogInv /\ [Next]_vars =>
        [failed' \/ [View!Next]_<<FileCaps, known>>]_vars
  BY ViewStep
<1> QED
  BY <1>1, <1>2, TypeCorrect, RegistryInv, PTL DEF Spec, ImplementsView
=============================================================================
