---------------------------- MODULE ProfileProofs ----------------------------
(***************************************************************************)
(* Proofs about Profile, for every set of processes and every number of    *)
(* kills, failed steps and commits. TLC checks the same formulas on a      *)
(* small instance.                                                         *)
(***************************************************************************)
EXTENDS Profile, SequenceTheorems, TLAPS

(* What a commit appends to a sequence of commits.                         *)
LEMMA AppendFacts ==
  \A a, b \in Seq(Nat), n \in Nat :
    /\ Append(b, n) \in Seq(Nat) /\ Append(b, n) # <<>>
    /\ a \o Append(b, n) = Append(a \o b, n) /\ a \o <<>> = a
<1>. TAKE a, b \in Seq(Nat), n \in Nat
<1>1. Append(b, n) \in Seq(Nat) /\ Append(b, n) # <<>>
  BY AppendProperties, Zenon
<1>2. a \o Append(b, n) = Append(a \o b, n)
  <2>1. DOMAIN (a \o Append(b, n)) = 1..(Len(a) + Len(b) + 1)
    OBVIOUS
  <2>2. DOMAIN Append(a \o b, n) = 1..(Len(a) + Len(b) + 1)
    OBVIOUS
  <2>3. \A i \in 1..(Len(a) + Len(b) + 1) : (a \o Append(b, n))[i] = Append(a \o b, n)[i]
    OBVIOUS
  <2>4. a \o Append(b, n) \in Seq(Nat) /\ Append(a \o b, n) \in Seq(Nat)
    OBVIOUS
  <2>. QED  BY <2>1, <2>2, <2>3, <2>4
<1>3. a \o <<>> = a
  BY ConcatEmptySeq, Zenon
<1>. QED  BY <1>1, <1>2, <1>3, Zenon

USE ProcessesAssumption
USE DEF MarkerInv, UncleanIsNoticed, Places

LEMMA InitInv == Init => MarkerInv
<1>. SUFFICES ASSUME Init PROVE MarkerInv
  OBVIOUS
<1>1. pc = [p \in Processes |-> "idle"] /\ lastEnd = "clean"
  BY DEF Init
<1>2. pc \in [Processes -> Places] /\ \A r \in Runs : pc[r] = "idle"
  BY <1>1 DEF Processes
<1>. QED  BY <1>1, <1>2

(* What a step of one process leaves of the others.                        *)
LEMMA GotoMovesOne ==
  ASSUME pc \in [Processes -> Places], NEW p \in Processes, NEW where \in Places, Goto(p, where)
  PROVE  /\ pc' \in [Processes -> Places]
         /\ pc'[p] = where
         /\ \A q \in Processes : q # p => pc'[q] = pc[q]
BY DEF Goto

LEMMA RunsAreProcesses == Runs \subseteq Processes /\ None \notin Processes
BY DEF Processes

(* A process that is no runtime goes on: mutex, marker and runtimes stay.  *)
LEMMA OthersKeepInv ==
  ASSUME MarkerInv, NEW p \in Restores \cup Backups, NEW where \in Places, Goto(p, where),
         UNCHANGED <<mutex, marker, recovered, lastEnd>>
  PROVE  MarkerInv'
<1>1. p \notin Runs /\ p \in Processes
  BY DEF Processes
<1>2. pc' \in [Processes -> Places] /\ \A r \in Runs : pc'[r] = pc[r]
  BY <1>1, GotoMovesOne, RunsAreProcesses
<1>. QED  BY <1>2

LEMMA RestoreKeepsInv ==
  ASSUME MarkerInv, NEW s \in Restores, RestoreStep(s)
  PROVE  MarkerInv'
<1>1. \/ Goto(s, "release") \/ Goto(s, "checkpoint") \/ Goto(s, "archive") \/ Goto(s, "undo")
      \/ Goto(s, "unlink") \/ Goto(s, "replace") \/ Goto(s, "verify") \/ Goto(s, "undoing")
  BY DEF RestoreStep, CopyBackup, Checkpoint, Archive, Unlink, Replace, Verify, Fail, Undo, CopyBack
<1>2. UNCHANGED <<mutex, marker, recovered, lastEnd>>
  BY DEF RestoreStep, CopyBackup, Checkpoint, Archive, Unlink, Replace, Verify, Fail, Undo, CopyBack, ghosts
<1>3. PICK where \in Places : Goto(s, where)
  BY <1>1
<1>. QED  BY <1>2, <1>3, OthersKeepInv

LEMMA BackupKeepsInv ==
  ASSUME MarkerInv, NEW b \in Backups, BackupStep(b)
  PROVE  MarkerInv'
<1>1. Goto(b, "copy") \/ Goto(b, "close") \/ Goto(b, "publish") \/ Goto(b, "leaving")
  BY DEF BackupStep, BackupOpens, BackupCopies, BackupPublishes, BackupCloses
<1>2. UNCHANGED <<mutex, marker, recovered, lastEnd>>
  BY DEF BackupStep, BackupOpens, BackupCopies, BackupPublishes, BackupCloses, ghosts
<1>3. PICK where \in Places : Goto(b, where)
  BY <1>1
<1>. QED  BY <1>2, <1>3, OthersKeepInv

LEMMA RunKeepsInv ==
  ASSUME MarkerInv, NEW r \in Runs, RunStep(r)
  PROVE  MarkerInv'
<1>0. r \in Processes /\ r # None /\ Runs \subseteq Processes
  BY RunsAreProcesses
<1>1. CASE RunOpens(r)
  <2>1. pc[r] = "open" /\ (Goto(r, "begin") \/ Goto(r, "finish"))
        /\ UNCHANGED <<mutex, marker, recovered, lastEnd>>
    BY <1>1 DEF RunOpens
  <2>2. /\ pc' \in [Processes -> Places] /\ pc'[r] \in {"begin", "finish"}
        /\ \A q \in Runs : q # r => pc'[q] = pc[q]
    BY <1>0, <2>1, GotoMovesOne
  <2>. QED  BY <2>1, <2>2
<1>2. CASE Begin(r)
  <2>1. pc[r] = "begin" /\ UNCHANGED <<mutex, lastEnd>>
    BY <1>2 DEF Begin, ghosts
  <2>2. \A q \in Runs : q # r => pc[q] # "run"
    BY <2>1
  <2>3. CASE Goto(r, "stop") /\ UNCHANGED <<marker, recovered>>
    <3>1. /\ pc' \in [Processes -> Places] /\ pc'[r] = "stop"
          /\ \A q \in Runs : q # r => pc'[q] = pc[q]
      BY <1>0, <2>3, GotoMovesOne
    <3>. QED  BY <2>1, <2>3, <3>1
  <2>4. CASE Goto(r, "run") /\ marker' = r
             /\ recovered' = IF marker # None THEN recovered \cup {r} ELSE recovered
    <3>1. /\ pc' \in [Processes -> Places] /\ pc'[r] = "run"
          /\ \A q \in Runs : q # r => pc'[q] = pc[q]
      BY <1>0, <2>4, GotoMovesOne
    <3>2. lastEnd = "unclean" => r \in recovered'
      BY <2>4
    <3>. QED  BY <1>0, <2>1, <2>2, <2>4, <3>1, <3>2
  <2>. QED  BY <1>2, <2>3, <2>4 DEF Begin
<1>3. CASE Write(r)
  BY <1>3 DEF Write
<1>4. CASE Stop(r)
  <2>1. /\ pc[r] \in {"run", "stop"} /\ Goto(r, "finish") /\ UNCHANGED <<mutex, marker, recovered>>
        /\ lastEnd' \in {lastEnd, IF marker = r THEN "unclean" ELSE lastEnd}
    BY <1>4 DEF Stop
  <2>2. /\ pc' \in [Processes -> Places] /\ pc'[r] = "finish"
        /\ \A q \in Runs : q # r => pc'[q] = pc[q]
    BY <1>0, <2>1, GotoMovesOne
  <2>3. \A q \in Runs : pc'[q] # "run"
    BY <2>1, <2>2
  <2>. QED  BY <1>0, <2>1, <2>2, <2>3
<1>5. CASE Finish(r)
  <2>1. /\ pc[r] = "finish" /\ Goto(r, "release") /\ UNCHANGED <<mutex, recovered>>
        /\ marker' = (IF marker = r /\ r \in clean THEN None ELSE marker)
        /\ lastEnd' = (IF marker = r /\ r \in clean THEN "clean" ELSE lastEnd)
    BY <1>5 DEF Finish
  <2>2. /\ pc' \in [Processes -> Places] /\ pc'[r] = "release"
        /\ \A q \in Runs : q # r => pc'[q] = pc[q]
    BY <1>0, <2>1, GotoMovesOne
  <2>3. \A q \in Runs : pc'[q] # "run"
    BY <2>1, <2>2
  <2>. QED  BY <2>1, <2>2, <2>3
<1>. QED  BY <1>1, <1>2, <1>3, <1>4, <1>5 DEF RunStep

LEMMA ProcessKeepsInv ==
  ASSUME MarkerInv, NEW p \in Processes, Acquire(p) \/ Release(p) \/ Exit(p) \/ Crash(p)
  PROVE  MarkerInv'
<1>0. p # None /\ Runs \subseteq Processes
  BY RunsAreProcesses
<1>1. CASE Acquire(p)
  <2>1. /\ pc[p] = "idle" /\ UNCHANGED <<marker, recovered, lastEnd>>
        /\ \/ mutex = None /\ mutex' = p /\ Goto(p, "open")
           \/ UNCHANGED mutex /\ Goto(p, "exited")
    BY <1>1 DEF Acquire, ghosts
  <2>2. /\ pc' \in [Processes -> Places] /\ pc'[p] \in {"open", "exited"}
        /\ \A q \in Processes : q # p => pc'[q] = pc[q]
    BY <2>1, GotoMovesOne
  <2>3. CASE mutex = None /\ mutex' = p
    BY <1>0, <2>1, <2>2, <2>3
  <2>4. CASE UNCHANGED mutex /\ Goto(p, "exited")
    <3>1. pc'[p] = "exited"
      BY <2>4, GotoMovesOne
    <3>. QED  BY <1>0, <2>1, <2>2, <2>4, <3>1
  <2>. QED  BY <2>1, <2>3, <2>4
<1>2. CASE Release(p)
  <2>1. /\ pc[p] = "release" /\ UNCHANGED <<marker, recovered, lastEnd>> /\ Goto(p, "leaving")
        /\ mutex' = (IF mutex = p THEN None ELSE mutex)
    BY <1>2 DEF Release, ghosts
  <2>2. /\ pc' \in [Processes -> Places] /\ pc'[p] = "leaving"
        /\ \A q \in Processes : q # p => pc'[q] = pc[q]
    BY <2>1, GotoMovesOne
  <2>. QED  BY <1>0, <2>1, <2>2
<1>3. CASE Exit(p)
  <2>1. UNCHANGED <<mutex, marker, recovered, lastEnd>> /\ Goto(p, "exited")
    BY <1>3 DEF Exit, ghosts
  <2>2. /\ pc' \in [Processes -> Places] /\ pc'[p] = "exited"
        /\ \A q \in Processes : q # p => pc'[q] = pc[q]
    BY <2>1, GotoMovesOne
  <2>. QED  BY <1>0, <2>1, <2>2
<1>4. CASE Crash(p)
  <2>1. /\ UNCHANGED <<marker, recovered>> /\ Goto(p, "dead")
        /\ mutex' = (IF mutex = p THEN None ELSE mutex)
        /\ lastEnd' = IF p \in Runs /\ marker = p /\ p \notin clean THEN "unclean" ELSE lastEnd
    BY <1>4 DEF Crash
  <2>2. /\ pc' \in [Processes -> Places] /\ pc'[p] = "dead"
        /\ \A q \in Processes : q # p => pc'[q] = pc[q]
    BY <2>1, GotoMovesOne
  <2>. QED  BY <1>0, <2>1, <2>2
<1>. QED  BY <1>1, <1>2, <1>3, <1>4

LEMMA NextInv == MarkerInv /\ [Next]_vars => MarkerInv'
<1>1. SUFFICES ASSUME MarkerInv, [Next]_vars PROVE MarkerInv'
  OBVIOUS
<1>2. CASE UNCHANGED vars
  BY <1>1, <1>2 DEF vars, ghosts
<1>. QED
  BY <1>1, <1>2, ProcessKeepsInv, RunKeepsInv, RestoreKeepsInv, BackupKeepsInv DEF Next

(* The first runtime that begins after an unclean end finds a marker,      *)
(* whatever processes ran, failed or were killed in between                *)
(* (security/crash_recovery.py, begin, finish_clean).                      *)
THEOREM UncleanEndsAreNoticed == Spec => []UncleanIsNoticed
<1>1. MarkerInv => UncleanIsNoticed
  OBVIOUS
<1>. QED  BY <1>1, InitInv, NextInv, PTL DEF Spec

-----------------------------------------------------------------------------
(* The commits                                                             *)
HIDE DEF MarkerInv, UncleanIsNoticed, Places
USE FilesAssumption

FilesInv ==
  /\ main \in {None, Torn} \cup Files /\ wal \in Files
  /\ backup \in {None} \cup Seq(Nat)
  /\ temp \in [Restores \cup Backups -> {None} \cup Seq(Nat)]
  /\ archive \in [Restores -> {None} \cup Archives]
  /\ writes \in Nat
  /\ wal.data # <<>> => main \in Files /\ wal.id = main.id

(* Restores that hold the profile, and which of them have its old files.   *)
Holds(s)   == pc[s] \in {"open", "checkpoint", "archive", "unlink", "replace", "verify", "undo",
                         "undoing", "release"}
Changes(s) == pc[s] \in {"unlink", "replace", "verify", "undo", "undoing"} /\ archive[s] # None

(* A restore moves the WAL into the main file before it copies the files.  *)
WalAt(s) ==
  /\ pc[s] \in {"archive", "unlink", "replace", "verify"} => wal.data = <<>>
  /\ pc[s] \in {"checkpoint", "undo"} /\ s \notin found => wal.data = <<>>
  /\ archive[s] # None => archive[s].wal.data = <<>>
  /\ Changes(s) => wal.data = <<>> /\ main # None
  /\ pc[s] \in {"idle", "open", "checkpoint", "archive"} => archive[s] = None

(* What the user may expect is in the rollback directory before it leaves  *)
(* the main file, and is what an undo puts back.                           *)
RollbackAt(s) ==
  /\ Holds(s) => mutex = s
  /\ pc[s] \in {"checkpoint", "archive", "unlink", "replace", "undoing"} => before = expected
  /\ pc[s] \in {"unlink", "replace"} => expected \in Archived \cup {None, <<>>}
  /\ pc[s] \in {"checkpoint", "archive", "unlink", "replace"} => temp[s] # None
  /\ pc[s] = "undoing" => archive[s] # None
  /\ Changes(s) => Kept(s) = before \/ (archive[s].main = Torn /\ before \in Archived)

KeptInv ==
  /\ FilesInv /\ ProfileIsKept
  /\ \A s \in Restores : WalAt(s) /\ RollbackAt(s)
  /\ \A r \in Runs : pc[r] \in {"begin", "run"} => main # None

(* What SQLite reads of typed files.                                       *)
LEMMA ContentOf ==
  ASSUME NEW m \in {None, Torn} \cup Files, NEW w \in Files
  PROVE  /\ m \in {None, Torn} => Content(m, w) = m
         /\ m \in Files /\ w.data = <<>> => Content(m, w) = m.data
         /\ m \in Files /\ w.data # <<>> /\ w.id = m.id => Content(m, w) = m.data \o w.data
BY DEF Content

LEMMA FileIsFile ==
  /\ \A i \in 0..2, d \in Seq(Nat) : /\ File(i, d) \in Files
                                    /\ File(i, d).id = i /\ File(i, d).data = d
  /\ NoWal \in Files /\ NoWal.data = <<>>
  /\ \A f \in Files : f.id \in 0..2 /\ f.data \in Seq(Nat) /\ f \notin {None, Torn}
<1>1. \A i \in 0..2, d \in Seq(Nat) : File(i, d) \in Files /\ File(i, d).id = i /\ File(i, d).data = d
  BY DEF File, Files
<1>2. <<>> \in Seq(Nat) /\ 0 \in 0..2
  OBVIOUS
<1>3. NoWal \in Files /\ NoWal.data = <<>>
  BY <1>1, <1>2 DEF NoWal
<1>4. \A f \in Files : f.id \in 0..2 /\ f.data \in Seq(Nat) /\ f \notin {None, Torn}
  BY DEF Files
<1>. QED  BY <1>1, <1>3, <1>4

LEMMA ReadableTypes ==
  ASSUME FilesInv
  PROVE  /\ Readable \in {None, Torn} \cup Seq(Nat)
         /\ Readable = Torn <=> main = Torn
         /\ Readable = None <=> main = None
         /\ main \in Files => Readable \in Seq(Nat)
         /\ main \in {None, Torn} => wal.data = <<>>
         /\ main \in Files /\ wal.data = <<>> => Readable = main.data
         /\ main \in Files /\ wal.data # <<>> => Readable = main.data \o wal.data
<1>1. /\ main \in {None, Torn} \cup Files /\ wal \in Files
      /\ wal.data # <<>> => main \in Files /\ wal.id = main.id
  BY DEF FilesInv
<1>2. \A f \in Files : f.id \in 0..2 /\ f.data \in Seq(Nat) /\ f \notin {None, Torn}
  BY FileIsFile
<1>3. CASE main \in {None, Torn}
  BY <1>1, <1>2, <1>3, ContentOf DEF Readable
<1>4. CASE main \in Files /\ wal.data = <<>>
  <2>1. Readable = main.data /\ main.data \in Seq(Nat) /\ main \notin {None, Torn}
    BY <1>1, <1>2, <1>4, ContentOf DEF Readable
  <2>. QED  BY <1>4, <2>1
<1>5. CASE main \in Files /\ wal.data # <<>>
  <2>1. Readable = main.data \o wal.data
    BY <1>1, <1>5, ContentOf DEF Readable
  <2>2. main.data \in Seq(Nat) /\ wal.data \in Seq(Nat)
    BY <1>1, <1>2, <1>5
  <2>3. main.data \o wal.data \in Seq(Nat)
    BY <2>2
  <2>. QED  BY <1>2, <1>5, <2>1, <2>3
<1>. QED  BY <1>1, <1>3, <1>4, <1>5

LEMMA ArchivedIs ==
  /\ \A x : x \in Archived <=> \E s \in Restores : archive[s] # None /\ x = Kept(s)
  /\ \A x : x \in Archived' <=> \E s \in Restores : archive'[s] # None /\ x = Kept(s)'
BY DEF Archived

LEMMA Moves ==
  ASSUME MarkerInv, NEW p \in Processes, NEW where, Goto(p, where)
  PROVE  pc'[p] = where /\ \A q \in Processes \ {p} : pc'[q] = pc[q]
BY DEF MarkerInv, Goto

LEMMA KeptInit == Init => KeptInv
<1> SUFFICES ASSUME Init PROVE KeptInv
  OBVIOUS
<1>1. <<>> \in Seq(Nat) /\ <<0>> \in Seq(Nat)
  OBVIOUS
<1>2. FilesInv
  <2>1. File(1, <<>>) \in Files
    BY <1>1, FileIsFile
  <2>2. main \in {None, Torn} \cup Files /\ wal = NoWal
    BY <2>1 DEF Init
  <2>3. wal \in Files /\ wal.data = <<>>
    BY <2>2, FileIsFile
  <2>4. /\ backup \in {None} \cup Seq(Nat) /\ writes \in Nat
        /\ temp \in [Restores \cup Backups -> {None} \cup Seq(Nat)]
        /\ archive \in [Restores -> {None} \cup Archives]
    BY <1>1 DEF Init
  <2>. QED  BY <2>2, <2>3, <2>4 DEF FilesInv
<1>3. \A p \in Processes : pc[p] = "idle"
  BY DEF Init
<1>4. \A s \in Restores : archive[s] = None /\ pc[s] = "idle"
  BY <1>3 DEF Init, Processes
<1>5. \A s \in Restores : WalAt(s) /\ RollbackAt(s)
  BY <1>4 DEF WalAt, RollbackAt, Holds, Changes
<1>6. ProfileIsKept
  BY DEF Init, ProfileIsKept
<1>7. \A r \in Runs : pc[r] = "idle"
  BY <1>3 DEF Processes
<1>. QED  BY <1>2, <1>5, <1>6, <1>7 DEF KeptInv

-----------------------------------------------------------------------------
(* Steps of other processes                                                *)

(* Restores are not disturbed by who does not hold the profile.            *)
LEMMA OutsideKeeps ==
  ASSUME KeptInv, \A s \in Restores : pc'[s] = pc[s] /\ temp'[s] = temp[s], UNCHANGED <<archive, found>>,
         \A s \in Restores : mutex = s =>
           /\ mutex' = s
           /\ wal.data = <<>> => wal'.data = <<>>
           /\ main # None => main' # None
           /\ \/ UNCHANGED <<expected, before>>
              \/ main = None /\ expected' = <<>> /\ before' = <<>>
  PROVE  \A s \in Restores : WalAt(s)' /\ RollbackAt(s)'
<1> SUFFICES ASSUME NEW s \in Restores PROVE WalAt(s)' /\ RollbackAt(s)'
  OBVIOUS
<1>1. WalAt(s) /\ RollbackAt(s)
  BY DEF KeptInv
<1>2. /\ pc'[s] = pc[s] /\ temp'[s] = temp[s] /\ archive' = archive /\ found' = found
      /\ Archived' = Archived /\ Kept(s)' = Kept(s)
  BY DEF Archived, Kept
<1>3. CASE Holds(s)
  <2>1. /\ mutex' = s
        /\ wal.data = <<>> => wal'.data = <<>>
        /\ main # None => main' # None
        /\ \/ UNCHANGED <<expected, before>>
           \/ main = None /\ expected' = <<>> /\ before' = <<>>
    BY <1>1, <1>3 DEF RollbackAt
  <2>2. WalAt(s)'
    BY <1>1, <1>2, <2>1 DEF WalAt, Changes
  <2>3. RollbackAt(s)'
    BY <1>1, <1>2, <2>1 DEF RollbackAt, WalAt, Changes, Holds
  <2>. QED  BY <2>2, <2>3
<1>4. CASE ~Holds(s)
  BY <1>1, <1>2, <1>4 DEF WalAt, RollbackAt, Changes, Holds
<1>. QED  BY <1>3, <1>4

(* A step that leaves the files alone.                                     *)
LEMMA FilesStay ==
  ASSUME KeptInv, UNCHANGED <<main, wal, backup, temp, archive, writes, expected, replaced>>
  PROVE  FilesInv' /\ ProfileIsKept'
<1>1. Archived' = Archived /\ Readable' = Readable
  BY DEF Archived, Kept, Readable
<1>. QED  BY <1>1 DEF KeptInv, FilesInv, ProfileIsKept

(* Opening the database creates an empty one where there is none.          *)
LEMMA OpenKeeps ==
  ASSUME KeptInv, NEW p, OpenDatabase(p), UNCHANGED <<wal, backup, temp, archive, found, writes, replaced>>
  PROVE  /\ FilesInv' /\ ProfileIsKept' /\ main' # None
         /\ \/ UNCHANGED <<expected, before>>
            \/ main = None /\ expected' = <<>> /\ before' = <<>>
<1>1. Archived' = Archived
  BY DEF Archived, Kept
<1>2. FilesInv /\ main \in {None, Torn} \cup Files /\ wal \in Files
  BY DEF KeptInv, FilesInv
<1>3. CASE main # None
  <2>1. main' = main /\ expected' = expected /\ before' = before /\ Readable' = Readable
    BY <1>3 DEF OpenDatabase, Readable
  <2>. QED  BY <1>1, <1>3, <2>1 DEF KeptInv, FilesInv, ProfileIsKept
<1>4. CASE main = None
  <2>1. main' = File(1, <<>>) /\ expected' = <<>> /\ before' = <<>>
    BY <1>4 DEF OpenDatabase
  <2>2. wal' = wal /\ wal.data = <<>>
    BY <1>2, <1>4, ReadableTypes
  <2>3. main' \in Files /\ main'.data = <<>> /\ main' # None
    <3>1. <<>> \in Seq(Nat) /\ 1 \in 0..2
      OBVIOUS
    <3>. QED  BY <2>1, <3>1, FileIsFile
  <2>4. Readable' = <<>>
    BY <1>2, <2>2, <2>3 DEF Readable, Content
  <2>5. FilesInv'
    BY <1>2, <2>2, <2>3 DEF FilesInv
  <2>. QED  BY <1>1, <1>4, <2>1, <2>3, <2>4, <2>5 DEF KeptInv, ProfileIsKept
<1>. QED  BY <1>3, <1>4

(* What the WAL holds is moved into the main file.                         *)
LEMMA MovedKeeps ==
  ASSUME KeptInv, Readable \notin {None, Torn}, main' = File(main.id, Readable), wal' = NoWal,
         UNCHANGED <<backup, temp, archive, writes, expected, replaced>>
  PROVE  FilesInv' /\ ProfileIsKept' /\ main' # None /\ wal'.data = <<>>
<1>1. Archived' = Archived
  BY DEF Archived, Kept
<1>2. FilesInv /\ main \in {None, Torn} \cup Files
  BY DEF KeptInv, FilesInv
<1>3. main \in Files /\ Readable \in Seq(Nat)
  BY <1>2, ReadableTypes
<1>4. /\ main' \in Files /\ main'.data = Readable /\ wal' \in Files /\ wal'.data = <<>>
      /\ main' \notin {None, Torn}
  BY <1>3, FileIsFile
<1>5. Readable' = Readable
  BY <1>4 DEF Readable, Content
<1>6. FilesInv'
  BY <1>2, <1>4 DEF FilesInv
<1>. QED  BY <1>1, <1>3, <1>4, <1>5, <1>6 DEF KeptInv, ProfileIsKept

LEMMA CloseKeeps ==
  ASSUME KeptInv, NEW p, CloseDatabase(p),
         UNCHANGED <<backup, temp, archive, writes, expected, replaced>>
  PROVE  /\ FilesInv' /\ ProfileIsKept'
         /\ main # None => main' # None
         /\ wal.data = <<>> => wal'.data = <<>>
<1>1. CASE UNCHANGED <<main, wal>>
  BY <1>1, FilesStay
<1>2. CASE ~UNCHANGED <<main, wal>>
  BY <1>2, MovedKeeps DEF CloseDatabase
<1>. QED  BY <1>1, <1>2

(* Steps that any process may take, and those of runtimes and backups.     *)
LEMMA ProcessKeeps ==
  ASSUME MarkerInv, KeptInv, NEW p \in Processes, Acquire(p) \/ Release(p) \/ Exit(p) \/ Crash(p)
  PROVE  KeptInv'
<1>1. /\ UNCHANGED <<main, wal, backup, temp, archive, found, writes, expected, before, replaced>>
      /\ \/ pc[p] = "idle" /\ mutex = None /\ mutex' = p /\ Goto(p, "open") /\ p \in Runs \cup Restores
         \/ /\ Goto(p, "exited") \/ Goto(p, "leaving") \/ Goto(p, "dead")
            /\ mutex' = mutex \/ (mutex = p /\ mutex' = None)
  BY DEF Acquire, Release, Exit, Crash, files, ghosts, bounds
<1>2. FilesInv' /\ ProfileIsKept'
  BY <1>1, FilesStay
<1>3. /\ \A q \in Processes \ {p} : pc'[q] = pc[q]
      /\ pc'[p] \in {"open", "exited", "leaving", "dead"}
      /\ pc'[p] = "open" => pc[p] = "idle" /\ mutex = None /\ mutex' = p
  BY <1>1, Moves
<1>4. \A r \in Runs : pc'[r] \in {"begin", "run"} => main' # None
  BY <1>1, <1>3, RunsAreProcesses DEF KeptInv
<1>5. ASSUME NEW s \in Restores PROVE WalAt(s)' /\ RollbackAt(s)'
  <2>1. WalAt(s) /\ RollbackAt(s) /\ s \in Processes /\ p # None /\ s # None
    BY RunsAreProcesses DEF KeptInv, Processes
  <2>2. Archived' = Archived /\ Kept(s)' = Kept(s)
    BY <1>1 DEF Archived, Kept
  <2>3. CASE s # p
    <3>1. pc'[s] = pc[s] /\ (mutex = s => mutex' = s)
      BY <1>1, <1>3, <2>1, <2>3
    <3>. QED  BY <1>1, <2>1, <2>2, <3>1 DEF WalAt, RollbackAt, Changes, Holds
  <2>4. CASE s = p
    BY <1>1, <1>3, <2>1, <2>2, <2>4 DEF WalAt, RollbackAt, Changes, Holds
  <2>. QED  BY <2>3, <2>4
<1>. QED  BY <1>2, <1>4, <1>5 DEF KeptInv

LEMMA RunKeeps ==
  ASSUME MarkerInv, KeptInv, NEW r \in Runs, RunStep(r)
  PROVE  KeptInv'
<1>0. /\ r \in Processes /\ \A s \in Restores : s \in Processes /\ s # r
      /\ \A q \in Runs : q \in Processes
  BY DEF Processes
<1>1. PICK where \in {"begin", "finish", "stop", "run", "release"} :
       Goto(r, where) \/ (Write(r) /\ where = "run")
  BY DEF RunStep, RunOpens, Begin, Stop, Finish
<1>2. pc'[r] = where /\ \A q \in Processes \ {r} : pc'[q] = pc[q]
  <2>1. CASE Goto(r, where)
    BY <1>0, <2>1, Moves
  <2>2. CASE Write(r) /\ where = "run"
    BY <1>0, <2>2 DEF Write
  <2>. QED  BY <1>1, <2>1, <2>2
<1>3. /\ UNCHANGED <<mutex, backup, temp, archive, found, replaced>>
      /\ \A s \in Restores : pc'[s] = pc[s]
  BY <1>0, <1>2 DEF RunStep, RunOpens, Begin, Write, Stop, Finish, files, ghosts
<1>4. CASE RunOpens(r)
  <2>1. \/ OpenDatabase(r) /\ UNCHANGED <<wal, writes>>
        \/ UNCHANGED <<main, wal, writes, expected, before>> /\ Goto(r, "finish")
    BY <1>4 DEF RunOpens, bounds
  <2>2. CASE OpenDatabase(r) /\ UNCHANGED <<wal, writes>>
    <3>1. /\ FilesInv' /\ ProfileIsKept' /\ main' # None
          /\ \/ UNCHANGED <<expected, before>>
             \/ main = None /\ expected' = <<>> /\ before' = <<>>
      BY <1>3, <2>2, OpenKeeps
    <3>2. \A s \in Restores : WalAt(s)' /\ RollbackAt(s)'
      BY <1>3, <2>2, <3>1, OutsideKeeps
    <3>. QED  BY <3>1, <3>2 DEF KeptInv
  <2>3. CASE UNCHANGED <<main, wal, writes, expected, before>> /\ Goto(r, "finish")
    <3>1. FilesInv' /\ ProfileIsKept'
      BY <1>3, <2>3, FilesStay
    <3>2. \A s \in Restores : WalAt(s)' /\ RollbackAt(s)'
      BY <1>3, <2>3, OutsideKeeps
    <3>3. pc'[r] = "finish"
      BY <1>0, <2>3, Moves
    <3>. QED  BY <1>0, <1>2, <2>3, <3>1, <3>2, <3>3 DEF KeptInv
  <2>. QED  BY <2>1, <2>2, <2>3
<1>5. CASE Begin(r) \/ Finish(r)
  <2>1. UNCHANGED <<main, wal, writes, expected, before>> /\ (pc'[r] \in {"begin", "run"} =>
                  pc[r] = "begin")
    <3>1. UNCHANGED <<main, wal, writes, expected, before>> /\ (pc[r] = "begin" \/ Goto(r, "release"))
      BY <1>5 DEF Begin, Finish, files, bounds, ghosts
    <3>2. Goto(r, "release") => pc'[r] = "release"
      BY <1>0, Moves
    <3>. QED  BY <3>1, <3>2
  <2>2. FilesInv' /\ ProfileIsKept'
    BY <1>3, <2>1, FilesStay
  <2>3. \A s \in Restores : WalAt(s)' /\ RollbackAt(s)'
    BY <1>3, <2>1, OutsideKeeps
  <2>. QED  BY <1>0, <1>2, <2>1, <2>2, <2>3 DEF KeptInv
<1>6. CASE Write(r)
  <2>1. /\ pc[r] = "run" /\ writes' = writes + 1 /\ Readable # Torn /\ UNCHANGED <<pc, main, before>>
        /\ wal' = File(main.id, Append(wal.data, writes'))
        /\ expected' = Append(expected, writes')
    BY <1>6 DEF Write
  <2>2. FilesInv /\ ProfileIsKept /\ main # None
    BY <2>1 DEF KeptInv
  <2>3. main \in Files /\ wal \in Files /\ writes' \in Nat /\ main # Torn /\ Readable = expected
    <3>1. main # Torn
      BY <2>1, <2>2, ReadableTypes
    <3>2. main \in Files /\ wal \in Files /\ writes' \in Nat
      BY <2>1, <2>2, <3>1 DEF FilesInv
    <3>. QED  BY <2>2, <3>1, <3>2 DEF ProfileIsKept
  <2>4. /\ main.data \in Seq(Nat) /\ wal.data \in Seq(Nat) /\ main.id \in 0..2
        /\ Append(wal.data, writes') \in Seq(Nat) /\ Append(wal.data, writes') # <<>>
    <3>1. main.data \in Seq(Nat) /\ wal.data \in Seq(Nat) /\ main.id \in 0..2
      BY <2>3, FileIsFile
    <3>. QED  BY <2>3, <3>1, AppendFacts
  <2>5. wal' \in Files /\ wal'.id = main.id /\ wal'.data = Append(wal.data, writes')
    BY <2>1, <2>4, FileIsFile
  <2>6. Readable' = main.data \o Append(wal.data, writes')
    BY <2>1, <2>3, <2>4, <2>5, ContentOf DEF Readable, Content
  <2>7. main.data \o Append(wal.data, writes') = Append(Readable, writes')
    <3>1. /\ main.data \o Append(wal.data, writes') = Append(main.data \o wal.data, writes')
          /\ main.data \o <<>> = main.data
      <4>1. main.data \in Seq(Nat) /\ wal.data \in Seq(Nat) /\ writes' \in Nat
        BY <2>3, <2>4
      <4>2. PICK a, b \in Seq(Nat), n \in Nat : a = main.data /\ b = wal.data /\ n = writes'
        BY <4>1
      <4>3. a \o Append(b, n) = Append(a \o b, n) /\ a \o <<>> = a
        BY AppendFacts
      <4>4. /\ main.data \o Append(wal.data, writes') = a \o Append(b, n)
            /\ Append(main.data \o wal.data, writes') = Append(a \o b, n)
            /\ main.data \o <<>> = a \o <<>>
        BY <4>2
      <4>. QED  BY <4>2, <4>3, <4>4, Zenon
    <3>2. Readable = main.data \o wal.data
      BY <2>2, <2>3, <3>1, ReadableTypes
    <3>. QED  BY <3>1, <3>2, Zenon
  <2>8. Readable' = expected'
    BY <2>1, <2>3, <2>6, <2>7
  <2>9. FilesInv'
    BY <1>3, <2>1, <2>2, <2>3, <2>5 DEF FilesInv
  <2>10. ProfileIsKept'
    <3>1. Archived' = Archived
      BY <1>3 DEF Archived, Kept
    <3>. QED  BY <1>3, <2>2, <2>8, <3>1 DEF ProfileIsKept
  <2>11. \A s \in Restores : mutex # s
    BY <1>0, <2>1 DEF MarkerInv
  <2>12. \A s \in Restores : WalAt(s)' /\ RollbackAt(s)'
    BY <1>3, <2>11, OutsideKeeps
  <2>. QED  BY <2>1, <2>2, <2>9, <2>10, <2>12 DEF KeptInv
<1>7. CASE Stop(r)
  <2>1. /\ Goto(r, "finish") /\ UNCHANGED <<writes, expected, before>>
        /\ CloseDatabase(r) \/ UNCHANGED <<main, wal>>
    BY <1>7 DEF Stop, bounds
  <2>2. /\ FilesInv' /\ ProfileIsKept'
        /\ main # None => main' # None
        /\ wal.data = <<>> => wal'.data = <<>>
    BY <1>3, <2>1, CloseKeeps, FilesStay
  <2>3. \A s \in Restores : WalAt(s)' /\ RollbackAt(s)'
    BY <1>3, <2>1, <2>2, OutsideKeeps
  <2>4. pc'[r] = "finish"
    BY <1>0, <2>1, Moves
  <2>. QED  BY <1>0, <1>2, <2>2, <2>3, <2>4 DEF KeptInv
<1>. QED  BY <1>4, <1>5, <1>6, <1>7 DEF RunStep

LEMMA BackupKeeps ==
  ASSUME MarkerInv, KeptInv, NEW b \in Backups, BackupStep(b)
  PROVE  KeptInv'
<1>0. /\ b \in Processes /\ \A s \in Restores : s \in Processes /\ s # b
      /\ \A q \in Runs : q \in Processes /\ q # b
  BY DEF Processes
<1>1. Goto(b, "copy") \/ Goto(b, "close") \/ Goto(b, "publish") \/ Goto(b, "leaving")
  BY DEF BackupStep, BackupOpens, BackupCopies, BackupPublishes, BackupCloses
<1>2. /\ UNCHANGED <<mutex, archive, found, replaced, writes>>
      /\ \A s \in Restores : pc'[s] = pc[s] /\ temp'[s] = temp[s]
      /\ \A q \in Runs : pc'[q] = pc[q]
  <2>1. \A q \in Processes \ {b} : pc'[q] = pc[q]
    BY <1>0, <1>1, Moves
  <2>2. /\ UNCHANGED <<mutex, archive, found, replaced, writes>>
        /\ temp' = temp \/ \E x : temp' = [temp EXCEPT ![b] = x]
    BY DEF BackupStep, BackupOpens, BackupCopies, BackupPublishes, BackupCloses, bounds, ghosts
  <2>3. temp \in [Restores \cup Backups -> {None} \cup Seq(Nat)]
    BY DEF KeptInv, FilesInv
  <2>. QED  BY <1>0, <2>1, <2>2, <2>3
<1>3. CASE BackupOpens(b)
  <2>1. OpenDatabase(b) /\ UNCHANGED <<wal, backup, temp>>
    BY <1>3 DEF BackupOpens
  <2>2. /\ FilesInv' /\ ProfileIsKept' /\ main' # None
        /\ \/ UNCHANGED <<expected, before>>
           \/ main = None /\ expected' = <<>> /\ before' = <<>>
    BY <1>2, <2>1, OpenKeeps
  <2>3. \A s \in Restores : WalAt(s)' /\ RollbackAt(s)'
    BY <1>2, <2>1, <2>2, OutsideKeeps
  <2>. QED  BY <2>2, <2>3 DEF KeptInv
<1>4. CASE BackupCopies(b) \/ BackupPublishes(b)
  <2>1. UNCHANGED <<main, wal, expected, before>>
    BY <1>4 DEF BackupCopies, BackupPublishes, ghosts
  <2>2. /\ backup' \in {None} \cup Seq(Nat)
        /\ temp' \in [Restores \cup Backups -> {None} \cup Seq(Nat)]
    <3>1. FilesInv /\ backup \in {None} \cup Seq(Nat)
          /\ temp \in [Restores \cup Backups -> {None} \cup Seq(Nat)]
      BY DEF KeptInv, FilesInv
    <3>2. Readable # Torn => Readable \in {None} \cup Seq(Nat)
      BY <3>1, ReadableTypes
    <3>. QED  BY <1>4, <3>1, <3>2 DEF BackupCopies, BackupPublishes
  <2>3. Archived' = Archived /\ Readable' = Readable
    BY <1>2, <2>1 DEF Archived, Kept, Readable
  <2>4. FilesInv' /\ ProfileIsKept'
    BY <1>2, <2>1, <2>2, <2>3 DEF KeptInv, FilesInv, ProfileIsKept
  <2>5. \A s \in Restores : WalAt(s)' /\ RollbackAt(s)'
    BY <1>2, <2>1, OutsideKeeps
  <2>. QED  BY <1>2, <2>1, <2>4, <2>5 DEF KeptInv
<1>5. CASE BackupCloses(b)
  <2>1. CloseDatabase(b) /\ UNCHANGED <<backup, temp, expected, before>>
    BY <1>5 DEF BackupCloses, ghosts
  <2>2. /\ FilesInv' /\ ProfileIsKept'
        /\ main # None => main' # None
        /\ wal.data = <<>> => wal'.data = <<>>
    BY <1>2, <2>1, CloseKeeps
  <2>3. \A s \in Restores : WalAt(s)' /\ RollbackAt(s)'
    BY <1>2, <2>1, <2>2, OutsideKeeps
  <2>. QED  BY <1>2, <2>2, <2>3 DEF KeptInv
<1>. QED  BY <1>3, <1>4, <1>5 DEF BackupStep
-----------------------------------------------------------------------------
(* Steps of a restore                                                      *)

(* The restore that holds the profile answers for the others.              *)
LEMMA HolderKeeps ==
  ASSUME MarkerInv, KeptInv, NEW s \in Restores, mutex = s, mutex' = s,
         \A q \in Processes \ {s} : pc'[q] = pc[q],
         \A t \in Restores \ {s} : archive'[t] = archive[t],
         FilesInv', ProfileIsKept', WalAt(s)', RollbackAt(s)'
  PROVE  KeptInv'
<1>1. ASSUME NEW t \in Restores, t # s PROVE WalAt(t)' /\ RollbackAt(t)'
  <2>1. WalAt(t) /\ RollbackAt(t) /\ pc'[t] = pc[t] /\ archive'[t] = archive[t]
    BY <1>1 DEF KeptInv, Processes
  <2>2. ~Holds(t)
    BY <1>1, <2>1 DEF RollbackAt
  <2>. QED  BY <2>1, <2>2 DEF WalAt, RollbackAt, Changes, Holds
<1>2. \A r \in Runs : pc'[r] \notin {"begin", "run"}
  <2>. SUFFICES ASSUME NEW r \in Runs PROVE pc'[r] \notin {"begin", "run"}
    OBVIOUS
  <2>1. r # s /\ pc'[r] = pc[r]
    BY DEF Processes
  <2>. QED  BY <2>1 DEF MarkerInv
<1>. QED  BY <1>1, <1>2 DEF KeptInv

LEMMA CopyBackupKeeps ==
  ASSUME KeptInv, NEW s \in Restores, CopyBackup(s), mutex = s,
         pc'[s] = IF backup = None THEN "release" ELSE "checkpoint"
  PROVE  FilesInv' /\ ProfileIsKept' /\ WalAt(s)' /\ RollbackAt(s)'
<1>1. /\ pc[s] = "open" /\ temp' = [temp EXCEPT ![s] = backup]
      /\ found' = (IF main = None THEN found ELSE found \cup {s})
      /\ before' = expected
      /\ UNCHANGED <<mutex, main, wal, backup, archive, writes, expected, replaced>>
  BY DEF CopyBackup, bounds
<1>2. FilesInv /\ ProfileIsKept /\ WalAt(s)
  BY DEF KeptInv
<1>3. /\ temp \in [Restores \cup Backups -> {None} \cup Seq(Nat)] /\ backup \in {None} \cup Seq(Nat)
      /\ archive[s] = None /\ (main = None => wal.data = <<>>)
  BY <1>1, <1>2, ReadableTypes DEF FilesInv, WalAt
<1>4. temp' \in [Restores \cup Backups -> {None} \cup Seq(Nat)] /\ temp'[s] = backup
  BY <1>1, <1>3
<1>5. FilesInv'
  BY <1>1, <1>2, <1>4 DEF FilesInv
<1>6. Archived' = Archived /\ Readable' = Readable
  BY <1>1 DEF Archived, Kept, Readable
<1>7. ProfileIsKept'
  BY <1>1, <1>2, <1>6 DEF ProfileIsKept
<1>8. s \notin found' => wal'.data = <<>>
  BY <1>1, <1>3
<1>9. WalAt(s)' /\ RollbackAt(s)'
  BY <1>1, <1>3, <1>4, <1>8 DEF WalAt, RollbackAt, Changes, Holds
<1>. QED  BY <1>5, <1>7, <1>9

LEMMA CheckpointKeeps ==
  ASSUME KeptInv, NEW s \in Restores, Checkpoint(s), mutex = s, pc'[s] \in {"archive", "undo"},
         pc'[s] = "undo" => UNCHANGED <<main, wal>>,
         pc'[s] = "archive" =>
           IF Readable \in {None, Torn} THEN UNCHANGED <<main, wal>>
           ELSE main' = File(main.id, Readable) /\ wal' = NoWal
  PROVE  FilesInv' /\ ProfileIsKept' /\ WalAt(s)' /\ RollbackAt(s)'
<1>1. /\ pc[s] = "checkpoint"
      /\ UNCHANGED <<mutex, backup, temp, found, archive, writes, expected, before, replaced>>
  BY DEF Checkpoint, bounds, ghosts
<1>2. FilesInv /\ WalAt(s) /\ RollbackAt(s)
  BY DEF KeptInv
<1>3. FilesInv' /\ ProfileIsKept' /\ (pc'[s] = "archive" => wal'.data = <<>>)
  <2>1. CASE UNCHANGED <<main, wal>> /\ (pc'[s] = "undo" \/ Readable \in {None, Torn})
    <3>1. pc'[s] = "archive" => wal.data = <<>>
      BY <1>2, <2>1, ReadableTypes
    <3>. QED  BY <1>1, <2>1, <3>1, FilesStay
  <2>2. CASE Readable \notin {None, Torn} /\ main' = File(main.id, Readable) /\ wal' = NoWal
    BY <1>1, <2>2, MovedKeeps
  <2>. QED  BY <2>1, <2>2
<1>4. archive'[s] = None /\ (pc'[s] = "undo" /\ s \notin found' => wal'.data = <<>>)
  BY <1>1, <1>2 DEF WalAt
<1>5. WalAt(s)'
  BY <1>3, <1>4 DEF WalAt, Changes
<1>6. RollbackAt(s)'
  BY <1>1, <1>2, <1>4 DEF RollbackAt, Changes, Holds
<1>. QED  BY <1>3, <1>5, <1>6

LEMMA ArchiveKeeps ==
  ASSUME KeptInv, NEW s \in Restores, Archive(s), mutex = s, pc'[s] = "unlink"
  PROVE  FilesInv' /\ ProfileIsKept' /\ WalAt(s)' /\ RollbackAt(s)'
<1>1. /\ pc[s] = "archive"
      /\ archive' = IF main = None THEN archive
                    ELSE [archive EXCEPT ![s] = [main |-> main, wal |-> wal]]
      /\ UNCHANGED <<mutex, main, wal, backup, temp, found, writes, expected, before, replaced>>
  BY DEF Archive, bounds, ghosts
<1>2. FilesInv /\ ProfileIsKept /\ WalAt(s) /\ RollbackAt(s)
  BY DEF KeptInv
<1>3. /\ wal.data = <<>> /\ archive[s] = None /\ before = expected /\ temp[s] # None
  BY <1>1, <1>2 DEF WalAt, RollbackAt
<1>4. Readable' = Readable
  BY <1>1 DEF Readable
<1>5. CASE main = None
  <2>1. archive' = archive
    BY <1>1, <1>5
  <2>2. Archived' = Archived
    BY <2>1 DEF Archived, Kept
  <2>3. expected = None
    BY <1>2, <1>5, ReadableTypes DEF ProfileIsKept
  <2>4. FilesInv' /\ ProfileIsKept'
    BY <1>1, <2>1, FilesStay
  <2>5. WalAt(s)' /\ RollbackAt(s)'
    BY <1>1, <1>3, <2>1, <2>2, <2>3 DEF WalAt, RollbackAt, Changes, Holds
  <2>. QED  BY <2>4, <2>5
<1>6. CASE main # None
  <2>1. archive \in [Restores -> {None} \cup Archives] /\ main \in {Torn} \cup Files /\ wal \in Files
    BY <1>2, <1>6 DEF FilesInv
  <2>2. [main |-> main, wal |-> wal] \in Archives
    BY <2>1 DEF Archives
  <2>3. archive' = [archive EXCEPT ![s] = [main |-> main, wal |-> wal]]
    BY <1>1, <1>6
  <2>4. /\ archive' \in [Restores -> {None} \cup Archives]
        /\ archive'[s] = [main |-> main, wal |-> wal]
        /\ \A t \in Restores \ {s} : archive'[t] = archive[t]
    BY <2>1, <2>2, <2>3
  <2>5. archive'[s] # None /\ archive'[s].main = main /\ archive'[s].wal = wal
    BY <2>2, <2>4
  <2>6. Kept(s)' = Readable
    BY <2>5 DEF Kept, Readable
  <2>7. Readable \in Archived'
    BY <2>5, <2>6, ArchivedIs
  <2>8. Archived \subseteq Archived'
    <3>. SUFFICES ASSUME NEW x \in Archived PROVE x \in Archived'
      OBVIOUS
    <3>1. PICK t \in Restores : archive[t] # None /\ x = Kept(t)
      BY ArchivedIs
    <3>2. archive'[t] = archive[t]
      BY <1>3, <2>4, <3>1
    <3>3. Kept(t)' = Kept(t)
      BY <3>2 DEF Kept
    <3>. QED  BY <3>1, <3>2, <3>3, ArchivedIs
  <2>9. FilesInv'
    BY <1>1, <1>2, <2>4 DEF FilesInv
  <2>10. expected \in Archived' /\ (Readable = expected \/ main = Torn)
    BY <1>2, <2>7, <2>8 DEF ProfileIsKept
  <2>11. ProfileIsKept'
    BY <1>1, <1>2, <1>4, <2>8, <2>10 DEF ProfileIsKept
  <2>12. WalAt(s)'
    BY <1>1, <1>3, <1>6, <2>5 DEF WalAt, Changes
  <2>13. RollbackAt(s)'
    BY <1>1, <1>3, <2>5, <2>6, <2>10 DEF RollbackAt, Changes, Holds
  <2>. QED  BY <2>9, <2>11, <2>12, <2>13
<1>. QED  BY <1>5, <1>6

LEMMA UnlinkKeeps ==
  ASSUME KeptInv, NEW s \in Restores, Unlink(s), mutex = s,
         \/ wal' = NoWal /\ pc'[s] = "replace"
         \/ wal' = wal /\ pc'[s] = "undo"
  PROVE  FilesInv' /\ ProfileIsKept' /\ WalAt(s)' /\ RollbackAt(s)'
<1>1. /\ pc[s] = "unlink"
      /\ UNCHANGED <<mutex, main, backup, temp, found, archive, writes, expected, before, replaced>>
  BY DEF Unlink, bounds, ghosts
<1>2. FilesInv /\ ProfileIsKept /\ WalAt(s) /\ RollbackAt(s)
  BY DEF KeptInv
<1>3. wal.data = <<>> /\ wal' \in Files /\ wal'.data = <<>>
  BY <1>1, <1>2, FileIsFile DEF WalAt, FilesInv
<1>4. Readable' = Readable
  BY <1>1, <1>3 DEF Readable, Content
<1>5. Archived' = Archived /\ Kept(s)' = Kept(s)
  BY <1>1 DEF Archived, Kept
<1>6. FilesInv'
  BY <1>1, <1>2, <1>3 DEF FilesInv
<1>7. ProfileIsKept'
  BY <1>1, <1>2, <1>4, <1>5 DEF ProfileIsKept
<1>8. WalAt(s)'
  BY <1>1, <1>2, <1>3 DEF WalAt, Changes
<1>9. RollbackAt(s)'
  BY <1>1, <1>2, <1>5 DEF RollbackAt, Changes, Holds
<1>. QED  BY <1>6, <1>7, <1>8, <1>9

LEMMA ReplaceKeeps ==
  ASSUME KeptInv, NEW s \in Restores, Replace(s), mutex = s,
         pc'[s] = IF conn = {} THEN "verify" ELSE "undo"
  PROVE  FilesInv' /\ ProfileIsKept' /\ WalAt(s)' /\ RollbackAt(s)'
<1>1. /\ pc[s] = "replace"
      /\ UNCHANGED <<mutex, wal, backup, temp, found, archive, writes>>
      /\ IF conn = {}
         THEN /\ main' = File(2, temp[s]) /\ expected' = temp[s] /\ before' = expected
              /\ replaced' = IF expected \in {None, <<>>} THEN replaced ELSE replaced \cup {expected}
         ELSE UNCHANGED <<main, expected, before, replaced>>
  BY DEF Replace, bounds
<1>2. FilesInv /\ ProfileIsKept /\ WalAt(s) /\ RollbackAt(s)
  BY DEF KeptInv
<1>3. Archived' = Archived /\ Kept(s)' = Kept(s)
  BY <1>1 DEF Archived, Kept
<1>4. /\ wal.data = <<>> /\ wal \in Files /\ before = expected /\ temp[s] \in Seq(Nat)
      /\ expected \in Archived \cup {None, <<>>}
  BY <1>1, <1>2 DEF WalAt, RollbackAt, FilesInv
<1>5. CASE conn = {}
  <2>1. main' \in Files /\ main'.data = temp[s] /\ main' \notin {None, Torn}
    <3>1. main' = File(2, temp[s])
      BY <1>1, <1>5
    <3>. QED  BY <1>4, <3>1, FileIsFile
  <2>2. Readable' = temp[s]
    BY <1>1, <1>4, <2>1 DEF Readable, Content
  <2>3. FilesInv'
    BY <1>1, <1>2, <1>4, <2>1 DEF FilesInv
  <2>4. ProfileIsKept'
    BY <1>1, <1>2, <1>3, <1>4, <1>5, <2>2 DEF ProfileIsKept
  <2>5. WalAt(s)'
    BY <1>1, <1>2, <1>4, <1>5, <2>1 DEF WalAt, Changes
  <2>6. RollbackAt(s)'
    BY <1>1, <1>2, <1>3, <1>4, <1>5 DEF RollbackAt, Changes, Holds
  <2>. QED  BY <2>3, <2>4, <2>5, <2>6
<1>6. CASE conn # {}
  <2>1. FilesInv' /\ ProfileIsKept'
    BY <1>1, <1>6, FilesStay
  <2>2. WalAt(s)'
    BY <1>1, <1>2, <1>6 DEF WalAt, Changes
  <2>3. RollbackAt(s)'
    BY <1>1, <1>2, <1>3, <1>6 DEF RollbackAt, Changes, Holds
  <2>. QED  BY <2>1, <2>2, <2>3
<1>. QED  BY <1>5, <1>6

LEMMA QuietKeeps ==
  ASSUME KeptInv, NEW s \in Restores, Verify(s) \/ Fail(s), mutex = s, pc'[s] \in {"release", "undo"}
  PROVE  FilesInv' /\ ProfileIsKept' /\ WalAt(s)' /\ RollbackAt(s)'
<1>1. /\ pc[s] \in {"archive", "unlink", "replace", "verify"}
      /\ UNCHANGED <<mutex, main, wal, backup, temp, found, archive, writes, expected, before, replaced>>
  BY DEF Verify, Fail, files, bounds, ghosts
<1>2. FilesInv' /\ ProfileIsKept'
  BY <1>1, FilesStay
<1>3. WalAt(s) /\ RollbackAt(s)
  BY DEF KeptInv
<1>4. Archived' = Archived /\ Kept(s)' = Kept(s)
  BY <1>1 DEF Archived, Kept
<1>5. WalAt(s)'
  BY <1>1, <1>3 DEF WalAt, Changes
<1>6. RollbackAt(s)'
  BY <1>1, <1>3, <1>4 DEF RollbackAt, WalAt, Changes, Holds
<1>. QED  BY <1>2, <1>5, <1>6

LEMMA UndoKeeps ==
  ASSUME KeptInv, NEW s \in Restores, Undo(s), mutex = s,
         pc'[s] = IF archive[s] # None THEN "undoing" ELSE "release"
  PROVE  FilesInv' /\ ProfileIsKept' /\ WalAt(s)' /\ RollbackAt(s)'
<1>1. /\ pc[s] = "undo"
      /\ UNCHANGED <<mutex, wal, backup, temp, found, archive, writes, before, replaced>>
  BY DEF Undo, bounds
<1>2. FilesInv /\ ProfileIsKept /\ WalAt(s) /\ RollbackAt(s)
  BY DEF KeptInv
<1>3. Archived' = Archived /\ Kept(s)' = Kept(s)
  BY <1>1 DEF Archived, Kept
<1>4. CASE archive[s] # None
  <2>1. main' = Torn /\ expected' = before
    BY <1>4 DEF Undo
  <2>2. Changes(s) /\ wal.data = <<>> /\ archive[s].wal.data = <<>>
    BY <1>1, <1>2, <1>4 DEF WalAt, Changes
  <2>3. Kept(s) = before \/ (archive[s].main = Torn /\ before \in Archived)
    BY <1>2, <2>2 DEF RollbackAt
  <2>4. before \in Archived
    BY <1>4, <2>3, ArchivedIs
  <2>5. FilesInv'
    BY <1>1, <1>2, <2>1, <2>2 DEF FilesInv
  <2>6. ProfileIsKept'
    BY <1>1, <1>2, <1>3, <2>1, <2>4 DEF ProfileIsKept
  <2>7. WalAt(s)'
    BY <1>1, <1>4, <2>1, <2>2 DEF WalAt, Changes
  <2>8. RollbackAt(s)'
    BY <1>1, <1>3, <1>4, <2>1, <2>3 DEF RollbackAt, Changes, Holds
  <2>. QED  BY <2>5, <2>6, <2>7, <2>8
<1>5. CASE archive[s] = None
  <2>1. \/ s \notin found /\ main' = None /\ expected' = None
        \/ UNCHANGED <<main, expected>>
    BY <1>5 DEF Undo
  <2>2. FilesInv' /\ ProfileIsKept'
    <3>1. CASE s \notin found /\ main' = None /\ expected' = None
      <4>1. wal.data = <<>>
        BY <1>1, <1>2, <3>1 DEF WalAt
      <4>2. Readable' = None
        BY <3>1 DEF Readable, Content
      <4>. QED  BY <1>1, <1>2, <1>3, <3>1, <4>1, <4>2 DEF FilesInv, ProfileIsKept
    <3>2. CASE UNCHANGED <<main, expected>>
      BY <1>1, <3>2, FilesStay
    <3>. QED  BY <2>1, <3>1, <3>2
  <2>3. WalAt(s)' /\ RollbackAt(s)'
    BY <1>1, <1>5 DEF WalAt, RollbackAt, Changes, Holds
  <2>. QED  BY <2>2, <2>3
<1>. QED  BY <1>4, <1>5

LEMMA CopyBackKeeps ==
  ASSUME KeptInv, NEW s \in Restores, CopyBack(s), mutex = s, pc'[s] = "release"
  PROVE  FilesInv' /\ ProfileIsKept' /\ WalAt(s)' /\ RollbackAt(s)'
<1>1. /\ pc[s] = "undoing" /\ main' = archive[s].main /\ wal' = archive[s].wal
      /\ UNCHANGED <<mutex, backup, temp, found, archive, writes, expected, before, replaced>>
  BY DEF CopyBack, bounds, ghosts
<1>2. FilesInv /\ ProfileIsKept /\ WalAt(s) /\ RollbackAt(s)
  BY DEF KeptInv
<1>3. Archived' = Archived
  BY <1>1 DEF Archived, Kept
<1>4. archive[s] # None /\ before = expected /\ Changes(s) /\ archive[s].wal.data = <<>>
  BY <1>1, <1>2 DEF WalAt, RollbackAt, Changes
<1>5. archive[s] \in Archives
  BY <1>2, <1>4 DEF FilesInv
<1>6. main' \in {Torn} \cup Files /\ wal' \in Files /\ wal'.data = <<>>
  BY <1>1, <1>4, <1>5 DEF Archives
<1>7. Readable' = Kept(s)
  BY <1>1 DEF Readable, Kept
<1>8. Kept(s) = expected \/ (main' = Torn /\ expected \in Archived)
  BY <1>1, <1>2, <1>4 DEF RollbackAt
<1>9. FilesInv'
  BY <1>1, <1>2, <1>6 DEF FilesInv
<1>10. ProfileIsKept'
  BY <1>1, <1>2, <1>3, <1>7, <1>8 DEF ProfileIsKept
<1>11. WalAt(s)' /\ RollbackAt(s)'
  BY <1>1, <1>4 DEF WalAt, RollbackAt, Changes, Holds
<1>. QED  BY <1>9, <1>10, <1>11

LEMMA RestoreKeeps ==
  ASSUME MarkerInv, KeptInv, NEW s \in Restores, RestoreStep(s)
  PROVE  KeptInv'
<1>0. s \in Processes
  BY DEF Processes
<1>1. Holds(s)
  BY DEF RestoreStep, CopyBackup, Checkpoint, Archive, Unlink, Replace, Verify, Fail, Undo, CopyBack, Holds
<1>2. mutex = s
  BY <1>1 DEF KeptInv, RollbackAt
<1>3. /\ mutex' = mutex
      /\ archive' = archive \/ \E x : archive' = [archive EXCEPT ![s] = x]
  BY DEF RestoreStep, CopyBackup, Checkpoint, Archive, Unlink, Replace, Verify, Fail, Undo, CopyBack,
         files
<1>4. archive \in [Restores -> {None} \cup Archives]
  BY DEF KeptInv, FilesInv
<1>5. \A t \in Restores \ {s} : archive'[t] = archive[t]
  BY <1>3, <1>4
<1>6. \A where : Goto(s, where) => pc'[s] = where /\ \A q \in Processes \ {s} : pc'[q] = pc[q]
  BY <1>0, Moves
<1>7. \/ Goto(s, "release") \/ Goto(s, "checkpoint") \/ Goto(s, "archive") \/ Goto(s, "undo")
      \/ Goto(s, "unlink") \/ Goto(s, "replace") \/ Goto(s, "verify") \/ Goto(s, "undoing")
  BY DEF RestoreStep, CopyBackup, Checkpoint, Archive, Unlink, Replace, Verify, Fail, Undo, CopyBack
<1>8. \A q \in Processes \ {s} : pc'[q] = pc[q]
  BY <1>6, <1>7
<1>9. FilesInv' /\ ProfileIsKept' /\ WalAt(s)' /\ RollbackAt(s)'
  <2>1. CASE CopyBackup(s)
    <3>1. Goto(s, IF backup = None THEN "release" ELSE "checkpoint")
      BY <2>1 DEF CopyBackup
    <3>. QED  BY <1>2, <1>6, <2>1, <3>1, CopyBackupKeeps
  <2>2. CASE Checkpoint(s)
    <3>1. \/ /\ Goto(s, "archive")
             /\ IF Readable \in {None, Torn} THEN UNCHANGED <<main, wal>>
                ELSE main' = File(main.id, Readable) /\ wal' = NoWal
          \/ Goto(s, "undo") /\ UNCHANGED <<main, wal>>
      BY <2>2 DEF Checkpoint
    <3>2. CASE Goto(s, "undo") /\ UNCHANGED <<main, wal>>
      <4>1. pc'[s] = "undo"
        BY <1>6, <3>2
      <4>. QED  BY <1>2, <2>2, <3>2, <4>1, CheckpointKeeps
    <3>3. CASE /\ Goto(s, "archive")
               /\ IF Readable \in {None, Torn} THEN UNCHANGED <<main, wal>>
                  ELSE main' = File(main.id, Readable) /\ wal' = NoWal
      <4>1. pc'[s] = "archive"
        BY <1>6, <3>3
      <4>. QED  BY <1>2, <2>2, <3>3, <4>1, CheckpointKeeps
    <3>. QED  BY <3>1, <3>2, <3>3
  <2>3. CASE Archive(s)
    <3>1. Goto(s, "unlink")
      BY <2>3 DEF Archive
    <3>. QED  BY <1>2, <1>6, <2>3, <3>1, ArchiveKeeps
  <2>4. CASE Unlink(s)
    <3>1. (wal' = NoWal /\ Goto(s, "replace")) \/ (wal' = wal /\ Goto(s, "undo"))
      BY <2>4 DEF Unlink
    <3>. QED  BY <1>2, <1>6, <2>4, <3>1, UnlinkKeeps
  <2>5. CASE Replace(s)
    <3>1. Goto(s, IF conn = {} THEN "verify" ELSE "undo")
      BY <2>5 DEF Replace
    <3>. QED  BY <1>2, <1>6, <2>5, <3>1, ReplaceKeeps
  <2>6. CASE Verify(s) \/ Fail(s)
    <3>1. Goto(s, "release") \/ Goto(s, "undo")
      BY <2>6 DEF Verify, Fail
    <3>. QED  BY <1>2, <1>6, <2>6, <3>1, QuietKeeps
  <2>7. CASE Undo(s)
    <3>1. Goto(s, IF archive[s] # None THEN "undoing" ELSE "release")
      BY <2>7 DEF Undo
    <3>. QED  BY <1>2, <1>6, <2>7, <3>1, UndoKeeps
  <2>8. CASE CopyBack(s)
    <3>1. Goto(s, "release")
      BY <2>8 DEF CopyBack
    <3>. QED  BY <1>2, <1>6, <2>8, <3>1, CopyBackKeeps
  <2>. QED  BY <2>1, <2>2, <2>3, <2>4, <2>5, <2>6, <2>7, <2>8 DEF RestoreStep
<1>. QED  BY <1>2, <1>3, <1>5, <1>8, <1>9, HolderKeeps

LEMMA KeptNext == MarkerInv /\ KeptInv /\ [Next]_vars => KeptInv'
<1>1. SUFFICES ASSUME MarkerInv, KeptInv, [Next]_vars PROVE KeptInv'
  OBVIOUS
<1>2. CASE UNCHANGED vars
  <2>1. UNCHANGED <<pc, mutex, main, wal, backup, temp, found, archive, writes, expected, before, replaced>>
    BY <1>2 DEF vars, files, bounds, ghosts
  <2>2. FilesInv' /\ ProfileIsKept'
    BY <1>1, <2>1, FilesStay
  <2>3. \A s \in Restores : WalAt(s)' /\ RollbackAt(s)'
    BY <1>1, <2>1, OutsideKeeps
  <2>. QED  BY <1>1, <2>1, <2>2, <2>3 DEF KeptInv
<1>. QED
  BY <1>1, <1>2, ProcessKeeps, RunKeeps, RestoreKeeps, BackupKeeps DEF Next

(* Whichever processes are killed and whichever steps of a restore fail,   *)
(* the database holds every commit since the last restore that came        *)
(* through, or its main file is torn and a rollback directory has them;    *)
(* what a restore replaced is in one too (memory/memory_service.py,        *)
(* restore_from_backup, backup_to).                                        *)
THEOREM CommitsAreKept == Spec => []ProfileIsKept
<1>1. KeptInv => ProfileIsKept
  BY DEF KeptInv
<1>. QED  BY <1>1, InitInv, NextInv, KeptInit, KeptNext, PTL DEF Spec
=============================================================================
