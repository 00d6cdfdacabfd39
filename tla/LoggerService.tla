---------------------------- MODULE LoggerService ----------------------------
(***************************************************************************)
(* The logger: entries are buffered, taken out by whoever flushes, and     *)
(* written line by line to a file that is rotated when it is full.  A      *)
(* rotated file is renamed and old ones are removed by goroutines that     *)
(* nobody waits for.                                                       *)
(***************************************************************************)
EXTENDS Integers, Sequences, FiniteSets, SequencesExt

CONSTANTS
  MaxSize,     \* lines after which the file is rotated
  MaxBackups, MaxAge,
  MaxEntries,  \* bound on the entries that are logged
  MaxClock     \* bound on the clock

ClockAssumption == MaxClock \in Nat

VARIABLES
  logged,      \* entries logged so far: they are numbered
  buffer,      \* ls.buffer
  batch,       \* batch[f]: what flusher f has taken and not written yet
  caller,      \* where the call of Log or Close is that flushes beside the ticker
  current,     \* lines of the file at lr.filePath
  handle,      \* lr.currentFile: "open" or "closed"
  backup,      \* backup[b]: lines of the backup with that name, <<>> for no file
  compressing, \* seconds whose backup a goroutine is about to rename
  cleanups,    \* goroutines about to list the backups
  doomed,      \* backups that such a goroutine is about to remove
  clock,       \* seconds
  lost,        \* entries dropped, overwritten or removed with a backup
  mixed        \* two flushers have written at a time

Flusher == {"ticker", "caller"}

(* The name of a backup is the second of its rotation; compressFile adds   *)
(* ".gz" to it and does no more.                                           *)
Backup == (0..MaxClock) \X {"plain", "gz"}

entries == <<logged, buffer, batch, caller>>
file    == <<current, handle>>
backups == <<backup, compressing, cleanups, doomed>>
vars    == <<entries, file, backups, clock, lost, mixed>>

Running == caller # "gone"

-----------------------------------------------------------------------------
(* Log, flush and Close *)

Put ==
  /\ logged < MaxEntries
  /\ logged' = logged + 1
  /\ buffer' = Append(buffer, logged + 1)

Log ==
  /\ Running /\ Put
  /\ UNCHANGED <<batch, caller, file, backups, clock, lost, mixed>>

(* A fatal entry is flushed and ends the process. *)
LogFatal ==
  /\ caller = "none" /\ Put
  /\ caller' = "fatal"
  /\ UNCHANGED <<batch, file, backups, clock, lost, mixed>>

Close ==
  /\ caller = "none"
  /\ caller' = "close"
  /\ UNCHANGED <<logged, buffer, batch, file, backups, clock, lost, mixed>>

Begins(f) ==
  \/ f = "ticker" /\ Running /\ batch[f] = <<>> /\ buffer # <<>> /\ UNCHANGED caller
  \/ f = "caller" /\ caller = "fatal" /\ caller' = "exiting"
  \/ f = "caller" /\ caller = "close" /\ caller' = "closing"

(* Mutant of TakeBuffer: what is taken stays in the buffer. *)
TakeBuffer_KeepsEntries(f) ==
  /\ Begins(f)
  /\ batch' = [batch EXCEPT ![f] = buffer]
  /\ mixed' = (mixed \/ \E g \in Flusher \ {f} : batch[g] # <<>>)
  /\ UNCHANGED <<logged, buffer, file, backups, clock, lost>>

(* flush copies the buffer and empties it under bufferMux, and writes the  *)
(* copy after that, beside another flush if there is one.                  *)
TakeBuffer(f) ==
  /\ Begins(f)
  /\ batch' = [batch EXCEPT ![f] = buffer]
  /\ buffer' = <<>>
  /\ mixed' = (mixed \/ \E g \in Flusher \ {f} : batch[g] # <<>>)
  /\ UNCHANGED <<logged, file, backups, clock, lost>>

(* Close closes the file, a fatal entry ends the process. *)
EndCall ==
  /\ batch["caller"] = <<>>
  /\ \/ caller = "closing" /\ caller' = "none" /\ handle' = "closed"
     \/ caller = "exiting" /\ caller' = "gone" /\ UNCHANGED handle
  /\ UNCHANGED <<logged, buffer, batch, current, backups, clock, lost, mixed>>

-----------------------------------------------------------------------------
(* LogRotator.Write, under lr.mutex *)

Next1(f) == batch' = [batch EXCEPT ![f] = Tail(@)]

(* The error of a write is not looked at: the line is gone. *)
DropLine(f) ==
  /\ Running /\ batch[f] # <<>>
  /\ Next1(f)
  /\ lost' = lost \cup {Head(batch[f])}
  /\ UNCHANGED <<logged, buffer, caller, file, backups, clock, mixed>>

WriteLine(f) ==
  /\ Running /\ batch[f] # <<>>
  /\ handle = "open" /\ Len(current) < MaxSize
  /\ Next1(f)
  /\ current' = Append(current, Head(batch[f]))
  /\ UNCHANGED <<logged, buffer, caller, handle, backups, clock, lost, mixed>>

(* A full file is closed and renamed, over the backup of another rotation  *)
(* in the same second if need be, and a new one is opened.                 *)
Rotate(f) ==
  /\ Running /\ batch[f] # <<>>
  /\ handle = "open" /\ Len(current) >= MaxSize
  /\ Next1(f)
  /\ backup' = [backup EXCEPT ![<<clock, "plain">>] = current]
  /\ compressing' = compressing \cup {clock}
  /\ cleanups' = cleanups + 1
  /\ LET over == ToSet(backup[clock, "plain"]) IN
       \/ /\ current' = <<Head(batch[f])>>
          /\ lost' = lost \cup over
          /\ UNCHANGED handle
       \/ /\ current' = <<>>
          /\ lost' = lost \cup over \cup {Head(batch[f])}
          /\ handle' = "closed"
  /\ UNCHANGED <<logged, buffer, caller, doomed, clock, mixed>>

(* When the file cannot be renamed it stays as it is, closed for good. *)
RenameFails(f) ==
  /\ Running /\ batch[f] # <<>>
  /\ handle = "open" /\ Len(current) >= MaxSize
  /\ Next1(f)
  /\ handle' = "closed"
  /\ lost' = lost \cup {Head(batch[f])}
  /\ UNCHANGED <<logged, buffer, caller, current, backups, clock, mixed>>

-----------------------------------------------------------------------------
(* The goroutines of a rotation *)

Compress(s) ==
  /\ Running /\ s \in compressing
  /\ compressing' = compressing \ {s}
  /\ \/ /\ backup[s, "plain"] # <<>>
        /\ lost' = lost \cup ToSet(backup[s, "gz"])
        /\ backup' = [backup EXCEPT ![<<s, "gz">>] = backup[s, "plain"], ![<<s, "plain">>] = <<>>]
     \/ /\ backup[s, "plain"] = <<>>
        /\ UNCHANGED <<backup, lost>>
  /\ UNCHANGED <<entries, file, cleanups, doomed, clock, mixed>>

There == {b \in Backup : backup[b] # <<>>}

(* The order of Glob. *)
Precedes(a, b) == a[1] < b[1] \/ (a[1] = b[1] /\ a[2] = "plain" /\ b[2] = "gz")

(* Those after the first MaxBackups names are removed, which are the       *)
(* newest, and those older than MaxAge.                                    *)
cleanupOldFiles ==
  /\ Running /\ cleanups > 0
  /\ cleanups' = cleanups - 1
  /\ doomed' = doomed \cup
       {b \in There : \/ Cardinality({a \in There : Precedes(a, b)}) >= MaxBackups
                      \/ clock - b[1] > MaxAge}
  /\ UNCHANGED <<entries, file, backup, compressing, clock, lost, mixed>>

RemoveBackup(b) ==
  /\ Running /\ b \in doomed
  /\ doomed' = doomed \ {b}
  /\ lost' = lost \cup ToSet(backup[b])
  /\ backup' = [backup EXCEPT ![b] = <<>>]
  /\ UNCHANGED <<entries, file, compressing, cleanups, clock, mixed>>

Tick ==
  /\ clock < MaxClock
  /\ clock' = clock + 1
  /\ UNCHANGED <<entries, file, backups, lost, mixed>>

-----------------------------------------------------------------------------
Init ==
  /\ logged = 0
  /\ buffer = <<>>
  /\ batch = [f \in Flusher |-> <<>>]
  /\ caller = "none"
  /\ current = <<>> /\ handle = "open"
  /\ backup = [b \in Backup |-> <<>>]
  /\ compressing = {} /\ cleanups = 0 /\ doomed = {}
  /\ clock = 0
  /\ lost = {}
  /\ mixed = FALSE

Next ==
  \/ Log \/ LogFatal \/ Close \/ EndCall
  \/ \E f \in Flusher : \/ TakeBuffer(f) \/ DropLine(f) \/ WriteLine(f)
                        \/ Rotate(f) \/ RenameFails(f)
  \/ \E s \in compressing : Compress(s)
  \/ cleanupOldFiles
  \/ \E b \in doomed : RemoveBackup(b)
  \/ Tick

Spec == Init /\ [][Next]_vars

-----------------------------------------------------------------------------
(* Properties *)

(* The log: the backups in the order of their names, the file, and what is *)
(* still to be written.                                                    *)
Place == 1..(2 * MaxClock + 6)

Lines(p) ==
  IF p <= 2 * MaxClock + 2
  THEN backup[(p - 1) \div 2, IF p % 2 = 1 THEN "gz" ELSE "plain"]
  ELSE <<current, batch["ticker"], batch["caller"], buffer>>[p - (2 * MaxClock + 2)]

(* Every entry is in the files or on its way there exactly once, in the    *)
(* order in which entries were logged unless two flushes ran at a time:    *)
(* whatever rotations, renames and removals come in between, the only      *)
(* entries that are gone are those a failed write or rotation dropped and  *)
(* those of a backup that was overwritten or removed.                      *)
LogIsComplete ==
  /\ UNION {ToSet(Lines(p)) : p \in Place} = 1..logged \ lost
  /\ \A p, q \in Place : \A i \in DOMAIN Lines(p), j \in DOMAIN Lines(q) :
       /\ Lines(p)[i] = Lines(q)[j] => p = q /\ i = j
       /\ ~ mixed /\ (p < q \/ (p = q /\ i < j)) => Lines(p)[i] < Lines(q)[j]
=============================================================================
