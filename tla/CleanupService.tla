---------------------------- MODULE CleanupService ----------------------------
(***************************************************************************)
(* The cleanup of the upload, output and temporary directories: walks that *)
(* remove files older than MaxFileAge and then, when the directories hold  *)
(* too much, the oldest files.  Cleanups take no lock: the initial one,    *)
(* the scheduled ones and forced ones run beside each other and beside the *)
(* owners of the files.                                                    *)
(***************************************************************************)
EXTENDS Integers, Sequences, FiniteSets, FiniteSetsExt, SequencesExt

CONSTANTS
  Dirs,          \* the directories, each the sequence of its file names in the order of Walk
  SizeOf(_),     \* size of a file
  Fixed,         \* files that cannot be removed
  MaxDiskUsage,
  Cleaner,       \* goroutines in RunCleanup or CleanupByPattern: "initial", "scheduled" and callers
  MaxCalls       \* bound on what the owners of files do; a caller's cleanup uses it up

File == UNION {ToSet(Dirs[d]) : d \in DOMAIN Dirs}

VARIABLES
  byAge,     \* the files there are, by modification time, the oldest first
  expired,   \* those older than MaxFileAge
  running,   \* cs.running
  stopChan,  \* cs.stopChan: "open" or "closed"
  schedule,  \* the goroutine of scheduledCleanup runs
  at,        \* at[c]: where cleanup c is
  dir,       \* dir[c]: the directory it is in
  todo,      \* todo[c]: the files it has yet to look at
  freed,     \* freed[c]: bytes freed by emergencyCleanup
  calls      \* what they have done so far

files   == <<byAge, expired>>
service == <<running, stopChan, schedule>>
walk    == <<dir, todo, freed>>
vars    == <<files, service, at, walk, calls>>

Exists(f)  == f \in ToSet(byAge)
Present(d) == SelectSeq(Dirs[d], Exists)

Put(fn, c, v) == [fn EXCEPT ![c] = v]

Gone(f) ==
  /\ byAge' = SelectSeq(byAge, LAMBDA g : g # f)
  /\ expired' = expired \ {f}

-----------------------------------------------------------------------------
(* The owners of the files, and time *)

Write(f) ==
  /\ calls < MaxCalls
  /\ calls' = calls + 1
  /\ byAge' = Append(SelectSeq(byAge, LAMBDA g : g # f), f)
  /\ expired' = expired \ {f}
  /\ UNCHANGED <<service, at, walk>>

Withdraw(f) ==
  /\ calls < MaxCalls
  /\ calls' = calls + 1
  /\ Exists(f) /\ Gone(f)
  /\ UNCHANGED <<service, at, walk>>

Expire ==
  /\ Cardinality(expired) < Len(byAge)
  /\ expired' = expired \cup {byAge[Cardinality(expired) + 1]}
  /\ UNCHANGED <<byAge, service, at, walk, calls>>

-----------------------------------------------------------------------------
(* Start and Stop *)

(* The names of a directory are read before its files are looked at. *)
Enter(c, d) ==
  IF d \in DOMAIN Dirs
  THEN at' = Put(at, c, "walk") /\ dir' = Put(dir, c, d) /\ todo' = Put(todo, c, Present(d))
  ELSE at' = Put(at, c, "measure") /\ dir' = Put(dir, c, 0) /\ todo' = Put(todo, c, <<>>)

(* The initial cleanup and the schedule are goroutines of their own.  A    *)
(* channel that an earlier Stop has closed ends the schedule at once.      *)
Start ==
  /\ ~ running /\ at["initial"] = "none"
  /\ running' = TRUE
  /\ schedule' = (schedule \/ stopChan = "open")
  /\ Enter("initial", 1)
  /\ UNCHANGED <<files, stopChan, freed, calls>>

(* A second Stop after a second Start would close the channel again. *)
Stop ==
  /\ running /\ stopChan = "open"
  /\ running' = FALSE /\ stopChan' = "closed"
  /\ UNCHANGED <<files, schedule, at, walk, calls>>

EndSchedule ==
  /\ schedule /\ stopChan = "closed" /\ at["scheduled"] = "none"
  /\ schedule' = FALSE
  /\ UNCHANGED <<files, running, stopChan, at, walk, calls>>

Tick ==
  /\ schedule /\ at["scheduled"] = "none"
  /\ Enter("scheduled", 1)
  /\ UNCHANGED <<files, service, freed, calls>>

ForceCleanup(c) ==
  /\ c \notin {"initial", "scheduled"} /\ at[c] = "none"
  /\ calls = 0 /\ calls' = MaxCalls
  /\ Enter(c, 1)
  /\ UNCHANGED <<files, service, freed>>

(* Glob, then Stat and Remove for each match, whatever fails. *)
CleanupByPattern(c, d) ==
  /\ c \notin {"initial", "scheduled"} /\ at[c] = "none"
  /\ calls = 0 /\ calls' = MaxCalls
  /\ at' = Put(at, c, "pattern")
  /\ todo' = Put(todo, c, Present(d))
  /\ UNCHANGED <<files, service, dir, freed>>

-----------------------------------------------------------------------------
(* cleanupDirectory *)

(* A file that has gone since its name was read ends the walk through its  *)
(* directory.                                                              *)
Visit(c) ==
  /\ at[c] = "walk" /\ todo[c] # <<>>
  /\ LET f == Head(todo[c]) IN
       \/ /\ f \in expired
          /\ at' = Put(at, c, "remove")
          /\ UNCHANGED <<dir, todo>>
       \/ /\ Exists(f) /\ f \notin expired
          /\ todo' = Put(todo, c, Tail(todo[c]))
          /\ UNCHANGED <<at, dir>>
       \/ /\ ~ Exists(f)
          /\ Enter(c, dir[c] + 1)
  /\ UNCHANGED <<files, service, freed, calls>>

(* Mutant of RemoveOld: an error ends the cleanup. *)
RemoveOld_EndsCleanup(c) ==
  /\ at[c] = "remove"
  /\ LET f == Head(todo[c]) IN
       \/ /\ Exists(f) /\ f \notin Fixed
          /\ Gone(f)
          /\ at' = Put(at, c, "walk")
          /\ todo' = Put(todo, c, Tail(todo[c]))
          /\ UNCHANGED dir
       \/ /\ ~ Exists(f) \/ f \in Fixed
          /\ Enter(c, Len(Dirs) + 1)
          /\ UNCHANGED files
  /\ UNCHANGED <<service, freed, calls>>

(* Whatever the file holds by now is removed; an error ends the walk. *)
RemoveOld(c) ==
  /\ at[c] = "remove"
  /\ LET f == Head(todo[c]) IN
       \/ /\ Exists(f) /\ f \notin Fixed
          /\ Gone(f)
          /\ at' = Put(at, c, "walk")
          /\ todo' = Put(todo, c, Tail(todo[c]))
          /\ UNCHANGED dir
       \/ /\ ~ Exists(f) \/ f \in Fixed
          /\ Enter(c, dir[c] + 1)
          /\ UNCHANGED files
  /\ UNCHANGED <<service, freed, calls>>

EndDirectory(c) ==
  /\ at[c] = "walk" /\ todo[c] = <<>>
  /\ Enter(c, dir[c] + 1)
  /\ UNCHANGED <<files, service, freed, calls>>

-----------------------------------------------------------------------------
(* checkDiskUsage and emergencyCleanup.  Names, sizes and times are read   *)
(* at one moment, unless the walk that reads them fails: a directory does  *)
(* not exist, or a file has gone in the meantime.                          *)

TotalSize == MapThenSumSet(SizeOf, ToSet(byAge))

Measure(c) ==
  /\ at[c] = "measure"
  /\ at' = Put(at, c, IF TotalSize > MaxDiskUsage THEN "collect" ELSE "none")
  /\ UNCHANGED <<files, service, walk, calls>>

Collect(c) ==
  /\ at[c] = "collect"
  /\ \/ /\ at' = Put(at, c, "emergency")
        /\ todo' = Put(todo, c, byAge)
     \/ /\ at' = Put(at, c, "none")
        /\ UNCHANGED todo
  /\ UNCHANGED <<files, service, dir, freed, calls>>

(* A fifth of the limit is freed, whatever is left after that. *)
Enough(c) == freed[c] >= MaxDiskUsage - (MaxDiskUsage * 80) \div 100

RemoveNext(c) ==
  LET f == Head(todo[c]) IN
    /\ at[c] = "pattern" \/ (at[c] = "emergency" /\ ~ Enough(c))
    /\ todo[c] # <<>>
    /\ todo' = Put(todo, c, Tail(todo[c]))
    /\ \/ /\ Exists(f) /\ f \notin Fixed
          /\ Gone(f)
          /\ freed' = Put(freed, c, freed[c] + SizeOf(f))
       \/ /\ ~ Exists(f) \/ f \in Fixed
          /\ UNCHANGED <<files, freed>>
    /\ UNCHANGED <<service, at, dir, calls>>

End(c) ==
  /\ at[c] \in {"pattern", "emergency"}
  /\ todo[c] = <<>> \/ (at[c] = "emergency" /\ Enough(c))
  /\ at' = Put(at, c, "none")
  /\ todo' = Put(todo, c, <<>>)
  /\ freed' = Put(freed, c, 0)
  /\ UNCHANGED <<files, service, dir, calls>>

-----------------------------------------------------------------------------
Init ==
  /\ byAge = FlattenSeq(Dirs)
  /\ expired = {}
  /\ running = FALSE /\ stopChan = "open" /\ schedule = FALSE
  /\ at = [c \in Cleaner |-> "none"]
  /\ dir = [c \in Cleaner |-> 0]
  /\ todo = [c \in Cleaner |-> <<>>]
  /\ freed = [c \in Cleaner |-> 0]
  /\ calls = 0

RunCleanup(c) ==
  Visit(c) \/ RemoveOld(c) \/ EndDirectory(c) \/ Measure(c) \/ Collect(c) \/ RemoveNext(c) \/ End(c)

Next ==
  \/ \E f \in File : Write(f) \/ Withdraw(f)
  \/ Expire
  \/ Start \/ Stop \/ EndSchedule \/ Tick
  \/ \E c \in Cleaner : \/ ForceCleanup(c) \/ RunCleanup(c)
                        \/ \E d \in DOMAIN Dirs : CleanupByPattern(c, d)

Spec == Init /\ [][Next]_vars

(* Goroutines run and the ticker ticks. *)
Fairness == WF_vars(Tick) /\ \A c \in Cleaner : WF_vars(RunCleanup(c))

FairSpec == Spec /\ Fairness

-----------------------------------------------------------------------------
(* Properties *)

(* Files that a walk never gets to when others are old: a file that cannot *)
(* be removed hides those behind it.                                       *)
Hidden ==
  UNION {LET s == Dirs[d] IN
           {s[i] : i \in {n \in DOMAIN s : \E k \in 1..n : s[k] \in Fixed}} : d \in DOMAIN Dirs}

(* While the schedule runs, a file that is older than MaxFileAge goes, or  *)
(* is written again: cleanups that end in the middle of a directory, since *)
(* another cleanup or an owner has removed a file before them, are made up *)
(* for by later ones.  Owners do only so much; one that kept removing the  *)
(* files in front would keep those behind for good.                        *)
OldFilesGo ==
  \A f \in File \ Hidden :
    f \in expired /\ schedule ~> f \notin expired \/ stopChan = "closed"
=============================================================================
