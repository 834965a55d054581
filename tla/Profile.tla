------------------------------- MODULE Profile -------------------------------
(***************************************************************************)
(* The files of a companion profile and the processes that use them: the   *)
(* runtime with its single-instance mutex and its crash marker             *)
(* (__main__.py, security/single_instance.py, security/crash_recovery.py), *)
(* the offline restore, and the online backup, which takes no mutex        *)
(* (memory/memory_service.py). A process may be killed between any two     *)
(* steps; the files stay.                                                  *)
(*                                                                         *)
(* What a database holds is the sequence of its commits. SQLite and        *)
(* Windows are external: a WAL belongs to the main file it was written     *)
(* for, closing the last connection moves the WAL into the main file, and  *)
(* a file that a process has open can be written but neither removed nor   *)
(* replaced.                                                               *)
(***************************************************************************)
EXTENDS Naturals, Sequences

CONSTANTS
  Runs, Restores, Backups,  \* processes, by what they are started for
  None,                     \* no process; no file
  Torn,                     \* a file copied half way
  MaxWrites,                \* bound on commits
  MaxFaults,                \* bound on steps of a restore that fail
  MaxCrashes                \* bound on processes that are killed

Processes == Runs \cup Restores \cup Backups

ASSUME ProcessesAssumption ==
  /\ Runs \cap Restores = {} /\ Runs \cap Backups = {} /\ Restores \cap Backups = {}
  /\ {None, Torn} \cap Processes = {} /\ None # Torn
ASSUME BoundsAssumption == {MaxWrites, MaxFaults, MaxCrashes} \subseteq Nat

(* A file with its identity and commits; the files of a rollback directory. *)
Files    == [id : 0..2, data : Seq(Nat)]
Archives == [main : {Torn} \cup Files, wal : Files]

ASSUME FilesAssumption ==
  /\ None \notin Files /\ None \notin Seq(Nat) /\ None \notin Archives
  /\ Torn \notin Files /\ Torn \notin Seq(Nat)

VARIABLES
  pc,         \* pc[p]: where process p is
  mutex,      \* who owns the profile's named mutex
  conn,       \* processes with a connection to the database
  main,       \* the database file: its identity and commits, None, or torn
  wal,        \* its WAL
  backup,     \* the backup file's commits, or None
  temp,       \* temp[p]: the temporary file of a restore or backup
  found,      \* restores that found a database to replace
  archive,    \* archive[s]: the rollback directory of restore s
  marker,     \* the runtime that the marker file names, or None
  recovered,  \* runtimes that found a marker
  clean,      \* runtimes that stopped every component in time
  writes, faults, crashes,
  expected,   \* what the user may expect in the profile
  before,     \* and could before the restore that is under way
  replaced,   \* contents that restores have replaced
  lastEnd     \* how the last runtime that had begun came to its end

files  == <<main, wal, backup, temp, found, archive>>
bounds == <<writes, faults, crashes>>
ghosts == <<expected, before, replaced, lastEnd>>
vars == <<pc, mutex, conn, files, marker, recovered, clean, bounds, ghosts>>

File(id, data) == [id |-> id, data |-> data]
NoWal == File(0, <<>>)

(* What SQLite reads: a WAL of another main file would be a torn database. *)
Content(m, w) == IF m \in {None, Torn} THEN m
                 ELSE IF w.data = <<>> THEN m.data
                 ELSE IF w.id = m.id THEN m.data \o w.data ELSE Torn

Readable == Content(main, wal)
Kept(s) == Content(archive[s].main, archive[s].wal)

Alive(p) == pc[p] \notin {"idle", "exited", "dead"}

Init ==
  /\ pc = [p \in Processes |-> "idle"] /\ mutex = None /\ conn = {}
  /\ main \in {None, File(1, <<>>)} /\ wal = NoWal
  /\ backup \in {None, <<0>>}
  /\ temp = [p \in Restores \cup Backups |-> None]
  /\ found = {} /\ archive = [s \in Restores |-> None]
  /\ marker = None /\ recovered = {} /\ clean = {}
  /\ writes = 0 /\ faults = 0 /\ crashes = 0
  /\ expected = Readable /\ before = Readable /\ replaced = {} /\ lastEnd = "clean"

Goto(p, where) == pc' = [pc EXCEPT ![p] = where]

-----------------------------------------------------------------------------
(* Steps that processes share. check_runtime_storage() only looks.         *)
Acquire(p) ==
  /\ p \in Runs \cup Restores /\ pc[p] = "idle"
  /\ IF mutex = None THEN mutex' = p /\ Goto(p, "open") ELSE UNCHANGED mutex /\ Goto(p, "exited")
  /\ UNCHANGED <<conn, files, marker, recovered, clean, bounds, ghosts>>

Release(p) ==
  /\ pc[p] = "release"
  /\ mutex' = (IF mutex = p THEN None ELSE mutex)
  /\ Goto(p, "leaving")
  /\ UNCHANGED <<conn, files, marker, recovered, clean, bounds, ghosts>>

(* The process ends; a connection that it did not close just vanishes.     *)
Exit(p) ==
  /\ pc[p] = "leaving" /\ Goto(p, "exited") /\ conn' = conn \ {p}
  /\ UNCHANGED <<mutex, files, marker, recovered, clean, bounds, ghosts>>

(* The process is killed. Windows abandons its mutex.                      *)
Crash(p) ==
  /\ Alive(p) /\ crashes < MaxCrashes /\ crashes' = crashes + 1
  /\ Goto(p, "dead") /\ conn' = conn \ {p}
  /\ mutex' = (IF mutex = p THEN None ELSE mutex)
  /\ lastEnd' = IF p \in Runs /\ marker = p /\ p \notin clean THEN "unclean" ELSE lastEnd
  /\ UNCHANGED <<files, marker, recovered, clean, writes, faults, expected, before, replaced>>

(* _ensure_db(): the database is created when there is none. A torn one is *)
(* noticed, or not.                                                        *)
OpenDatabase(p) ==
  /\ conn' = conn \cup {p}
  /\ main' = IF main = None THEN File(1, <<>>) ELSE main
  /\ expected' = IF main = None THEN <<>> ELSE expected
  /\ before' = IF main = None THEN <<>> ELSE before

(* Closing the last connection moves the WAL into the main file.           *)
CloseDatabase(p) ==
  /\ conn' = conn \ {p}
  /\ IF conn = {p} /\ Readable \notin {None, Torn}
     THEN main' = File(main.id, Readable) /\ wal' = NoWal
     ELSE UNCHANGED <<main, wal>>

-----------------------------------------------------------------------------
(* A runtime: the memory health check, the crash marker, the work.         *)
RunOpens(r) ==
  /\ r \in Runs /\ pc[r] = "open"
  /\ \/ OpenDatabase(r) /\ Goto(r, "begin") /\ UNCHANGED clean
     \/ /\ main = Torn /\ Goto(r, "finish") /\ clean' = clean \cup {r}
        /\ UNCHANGED <<conn, main, expected, before>>
  /\ UNCHANGED <<mutex, wal, backup, temp, found, archive, marker, recovered, bounds, replaced, lastEnd>>

(* begin(): after an unclean exit the database is validated first. The     *)
(* marker is replaced in one step.                                         *)
Begin(r) ==
  /\ pc[r] = "begin"
  /\ IF marker # None /\ Readable = Torn
     THEN Goto(r, "stop") /\ UNCHANGED <<marker, recovered>>
     ELSE /\ Goto(r, "run") /\ marker' = r
          /\ recovered' = IF marker # None THEN recovered \cup {r} ELSE recovered
  /\ UNCHANGED <<mutex, conn, files, clean, bounds, ghosts>>

Write(r) ==
  /\ pc[r] = "run" /\ writes < MaxWrites /\ writes' = writes + 1
  /\ Readable # Torn
  /\ wal' = File(main.id, Append(wal.data, writes'))
  /\ expected' = Append(expected, writes')
  /\ UNCHANGED <<pc, mutex, conn, main, backup, temp, found, archive, marker, recovered, clean, faults,
                 crashes, before, replaced, lastEnd>>

(* stop(): a component that does not stop in time may leave the connection *)
(* open, and makes the stop an unclean one.                                *)
Stop(r) ==
  /\ pc[r] \in {"run", "stop"} /\ Goto(r, "finish")
  /\ \/ CloseDatabase(r) /\ clean' = clean \cup {r} /\ UNCHANGED lastEnd
     \/ /\ lastEnd' = IF marker = r THEN "unclean" ELSE lastEnd
        /\ UNCHANGED <<conn, main, wal, clean>>
  /\ UNCHANGED <<mutex, backup, temp, found, archive, marker, recovered, bounds, expected, before, replaced>>

(* Mutant: the marker is removed after every stop.                         *)
FinishAlways(r) ==
  /\ r \in Runs /\ pc[r] = "finish" /\ Goto(r, "release")
  /\ marker' = IF marker = r THEN None ELSE marker
  /\ lastEnd' = IF marker = r /\ r \in clean THEN "clean" ELSE lastEnd
  /\ UNCHANGED <<mutex, conn, files, recovered, clean, bounds, expected, before, replaced>>

(* finish_clean(): only this run's own marker is removed.                  *)
Finish(r) ==
  /\ r \in Runs /\ pc[r] = "finish" /\ Goto(r, "release")
  /\ marker' = IF marker = r /\ r \in clean THEN None ELSE marker
  /\ lastEnd' = IF marker = r /\ r \in clean THEN "clean" ELSE lastEnd
  /\ UNCHANGED <<mutex, conn, files, recovered, clean, bounds, expected, before, replaced>>

-----------------------------------------------------------------------------
(* restore_from_backup(): the backup is verified and copied; ...           *)
CopyBackup(s) ==
  /\ s \in Restores /\ pc[s] = "open"
  /\ temp' = [temp EXCEPT ![s] = backup]
  /\ found' = (IF main = None THEN found ELSE found \cup {s})
  /\ before' = expected
  /\ Goto(s, IF backup = None THEN "release" ELSE "checkpoint")
  /\ UNCHANGED <<mutex, conn, main, wal, backup, archive, marker, recovered, clean, bounds,
                 expected, replaced, lastEnd>>

(* Mutant: the WAL is not moved into the main file first.                  *)
SkipCheckpoint(s) ==
  /\ pc[s] = "checkpoint" /\ main # Torn /\ Goto(s, "archive")
  /\ UNCHANGED <<mutex, conn, files, marker, recovered, clean, bounds, ghosts>>

(* ... what the WAL holds is moved into the main file, which fails while   *)
(* another connection reads, and may fail when the file is torn; ...       *)
Checkpoint(s) ==
  /\ pc[s] = "checkpoint"
  /\ \/ /\ Goto(s, "archive")
        /\ IF Readable \in {None, Torn} THEN UNCHANGED <<main, wal>>
           ELSE main' = File(main.id, Readable) /\ wal' = NoWal
     \/ (main = Torn \/ conn # {}) /\ Goto(s, "undo") /\ UNCHANGED <<main, wal>>
  /\ UNCHANGED <<mutex, conn, backup, temp, found, archive, marker, recovered, clean, bounds, ghosts>>

(* ... the files are copied to a rollback directory; ...                   *)
Archive(s) ==
  /\ pc[s] = "archive" /\ Goto(s, "unlink")
  /\ archive' = IF main = None THEN archive
                ELSE [archive EXCEPT ![s] = [main |-> main, wal |-> wal]]
  /\ UNCHANGED <<mutex, conn, main, wal, backup, temp, found, marker, recovered, clean, bounds, ghosts>>

(* ... the WAL is removed; ...                                             *)
Unlink(s) ==
  /\ pc[s] = "unlink"
  /\ IF conn = {} THEN wal' = NoWal /\ Goto(s, "replace") ELSE UNCHANGED wal /\ Goto(s, "undo")
  /\ UNCHANGED <<mutex, conn, main, backup, temp, found, archive, marker, recovered, clean, bounds, ghosts>>

(* ... and the copy replaces the main file in one step.                    *)
Replace(s) ==
  /\ pc[s] = "replace"
  /\ IF conn = {}
     THEN /\ main' = File(2, temp[s]) /\ expected' = temp[s] /\ before' = expected
          /\ replaced' = IF expected \in {None, <<>>} THEN replaced ELSE replaced \cup {expected}
          /\ Goto(s, "verify")
     ELSE UNCHANGED <<main, expected, before, replaced>> /\ Goto(s, "undo")
  /\ UNCHANGED <<mutex, conn, wal, backup, temp, found, archive, marker, recovered, clean, bounds, lastEnd>>

Verify(s) ==
  /\ pc[s] = "verify" /\ Goto(s, "release")
  /\ UNCHANGED <<mutex, conn, files, marker, recovered, clean, bounds, ghosts>>

(* A step raises.                                                          *)
Fail(s) ==
  /\ s \in Restores /\ pc[s] \in {"archive", "unlink", "replace", "verify"}
  /\ faults < MaxFaults /\ faults' = faults + 1 /\ Goto(s, "undo")
  /\ UNCHANGED <<mutex, conn, files, marker, recovered, clean, writes, crashes, ghosts>>

(* A restore that found no database removes what is there, unless it is    *)
(* open; what was archived is copied back over the files, in place.        *)
Undo(s) ==
  /\ pc[s] = "undo"
  /\ IF archive[s] # None
     THEN main' = Torn /\ expected' = before /\ Goto(s, "undoing")
     ELSE /\ Goto(s, "release")
          /\ IF s \notin found /\ conn = {} THEN main' = None /\ expected' = None
             ELSE UNCHANGED <<main, expected>>
  /\ UNCHANGED <<mutex, conn, wal, backup, temp, found, archive, marker, recovered, clean, bounds,
                 before, replaced, lastEnd>>

CopyBack(s) ==
  /\ pc[s] = "undoing" /\ Goto(s, "release")
  /\ main' = archive[s].main /\ wal' = archive[s].wal
  /\ UNCHANGED <<mutex, conn, backup, temp, found, archive, marker, recovered, clean, bounds, ghosts>>

-----------------------------------------------------------------------------
(* backup_to(), in a process of its own and with a database connection;    *)
(* whether an existing backup may be overwritten is the caller's choice.   *)
BackupOpens(b) ==
  /\ b \in Backups /\ pc[b] = "idle" /\ OpenDatabase(b) /\ Goto(b, "copy")
  /\ UNCHANGED <<mutex, wal, backup, temp, found, archive, marker, recovered, clean, bounds, replaced,
                 lastEnd>>

(* SQLite copies a consistent state to a temporary file, which is verified.*)
BackupCopies(b) ==
  /\ b \in Backups /\ pc[b] = "copy"
  /\ IF Readable = Torn THEN UNCHANGED temp /\ Goto(b, "close")
     ELSE temp' = [temp EXCEPT ![b] = Readable] /\ Goto(b, "publish")
  /\ UNCHANGED <<mutex, conn, main, wal, backup, found, archive, marker, recovered, clean, bounds, ghosts>>

(* It replaces the target, or is linked to it when there is none.          *)
BackupPublishes(b) ==
  /\ pc[b] = "publish" /\ Goto(b, "close")
  /\ \E overwrite \in BOOLEAN :
       backup' = IF overwrite \/ backup = None THEN temp[b] ELSE backup
  /\ UNCHANGED <<mutex, conn, main, wal, temp, found, archive, marker, recovered, clean, bounds, ghosts>>

BackupCloses(b) ==
  /\ pc[b] = "close" /\ CloseDatabase(b) /\ Goto(b, "leaving")
  /\ UNCHANGED <<mutex, backup, temp, found, archive, marker, recovered, clean, bounds, ghosts>>

-----------------------------------------------------------------------------
RunStep(r) == RunOpens(r) \/ Begin(r) \/ Write(r) \/ Stop(r) \/ Finish(r)

RestoreStep(s) == \/ CopyBackup(s) \/ Checkpoint(s) \/ Archive(s) \/ Unlink(s) \/ Replace(s)
                  \/ Verify(s) \/ Fail(s) \/ Undo(s) \/ CopyBack(s)

BackupStep(b) == BackupOpens(b) \/ BackupCopies(b) \/ BackupPublishes(b) \/ BackupCloses(b)

Next == \/ \E p \in Processes : Acquire(p) \/ Release(p) \/ Exit(p) \/ Crash(p)
        \/ \E r \in Runs : RunStep(r)
        \/ \E s \in Restores : RestoreStep(s)
        \/ \E b \in Backups : BackupStep(b)

Spec == Init /\ [][Next]_vars

-----------------------------------------------------------------------------
(* Whatever process is killed and whichever step of a restore fails, the   *)
(* database holds every commit since the last restore that came through,   *)
(* on top of what that one put there. While a failed restore copies the    *)
(* old files back, and when it is killed there, the rollback directory     *)
(* holds them. What a restore replaced stays in a rollback directory.      *)
Archived == {Kept(s) : s \in {t \in Restores : archive[t] # None}}

ProfileIsKept ==
  /\ Readable = expected \/ (main = Torn /\ expected \in Archived)
  /\ replaced \subseteq Archived

(* A runtime that was killed or stopped uncleanly after it had begun is    *)
(* noticed by the next one that begins, also when a restore, a backup or a *)
(* start that came to nothing lies between.                                *)
UncleanIsNoticed ==
  \A r \in Runs : pc[r] = "run" /\ lastEnd = "unclean" => r \in recovered

(* Refuted: "Atomically replace offline memory while preserving the        *)
(* previous file set" (memory/memory_service.py:1017).                     *)
MainNeverTorn == main # Torn

(* The inductive invariant: who works has the mutex and its own marker;    *)
(* after an unclean end there is a marker.                                 *)
Places ==
  {"idle", "open", "begin", "run", "stop", "finish", "release", "leaving", "exited", "dead",
   "checkpoint", "archive", "unlink", "replace", "verify", "undo", "undoing", "copy", "publish", "close"}

MarkerInv ==
  /\ pc \in [Processes -> Places]
  /\ \A r \in Runs :
       /\ pc[r] \in {"open", "begin", "run", "stop", "finish", "release"} => mutex = r
       /\ pc[r] = "run" => marker = r
  /\ lastEnd = "unclean" => marker # None
  /\ UncleanIsNoticed
=============================================================================
