---------------------------- MODULE CacheService ----------------------------
(***************************************************************************)
(* The cache of conversion results: copies of files in a directory, a map  *)
(* of entries with a limit on their number and on their total size, least  *)
(* recently used first out, and an index that Stop writes and the next     *)
(* process reads.  Every operation runs under one mutex; what a process    *)
(* that ends in the middle of one leaves behind is its files and the index.*)
(***************************************************************************)
EXTENDS Integers, Sequences, FiniteSets, FiniteSetsExt, Functions

CONSTANTS
  Key,         \* cache keys
  Version,     \* contents of the files that are cached
  SizeOf(_),   \* size of a content
  MaxSize, MaxEntries,
  Scenarios,   \* what may happen besides Put, Get, Delete, Clear:
               \* sets of "start", "stop", "exit" and "torn", a copy that breaks off
  Nil          \* no content

NilAssumption == Nil \notin Version \cup {"torn"}
LimitsAssumption == MaxSize \in Nat /\ MaxEntries \in Nat \ {0}
SizeAssumption == \A v \in Version : SizeOf(v) \in Nat

VARIABLES
  scenario,     \* the scenario of this behaviour
  alive,        \* the process runs
  entry,        \* entry[k]: the content the entry of k was made for, or Nil
  order,        \* keys of the entries by AccessedAt, the oldest first
  old,          \* keys of entries older than TTL
  currentSize,  \* cs.currentSize
  file,         \* file[k]: content of the file of k in CacheDir
  index,        \* cache_index.json
  running,      \* cs.running
  stopChan,     \* cs.stopChan: "open" or "closed"
  cleaner       \* a cleanupRoutine is running

map  == <<entry, order, old>>
life == <<scenario, alive, running, stopChan, cleaner>>
vars == <<map, currentSize, file, index, life>>

NoIndex == [entry |-> [k \in Key |-> Nil], order |-> <<>>]

\* a sequence without the members of S
Without(seq, S) ==
  LET kept[i \in 0..Len(seq)] ==
        IF i = 0 THEN <<>>
        ELSE IF seq[i] \in S THEN kept[i - 1] ELSE Append(kept[i - 1], seq[i])
  IN kept[Len(seq)]

Held(e) == {k \in Key : e[k] # Nil}

\* total size of the entries e of a set of keys that have one
SizeIn(e, S) == SumFunctionOnSet([k \in Held(e) |-> SizeOf(e[k])], S)
Sizes(S) == SizeIn(entry, S)

(* Mutant of Drop: the files are left to the directory. *)
Drop_KeepsFiles(S) ==
  /\ entry' = [k \in Key |-> IF k \in S THEN Nil ELSE entry[k]]
  /\ order' = Without(order, S)
  /\ old' = old \ S
  /\ currentSize' = currentSize - Sizes(S)
  /\ UNCHANGED file

(* Entries, their sizes and their files go together.                       *)
Drop(S) ==
  /\ entry' = [k \in Key |-> IF k \in S THEN Nil ELSE entry[k]]
  /\ order' = Without(order, S)
  /\ old' = old \ S
  /\ currentSize' = currentSize - Sizes(S)
  /\ file' = [k \in Key |-> IF k \in S THEN Nil ELSE file[k]]

-----------------------------------------------------------------------------
(* evictEntries: the oldest entries until the rest leaves enough room.     *)
(* The entry to come is not counted.                                       *)
EvictCount(needed) ==
  LET fits(n) ==
        /\ currentSize - Sizes({order[i] : i \in 1..n}) + needed <= MaxSize
        /\ Len(order) - n - 1 < MaxEntries
  IN Min({n \in 0..Len(order) : fits(n)} \cup {Len(order)})

(* Mutant of Evicted: the size of what is to come is left out. *)
Evicted_NoNeed(v) ==
  IF currentSize > MaxSize \/ Len(order) >= MaxEntries
  THEN {order[i] : i \in 1..EvictCount(0)} ELSE {}

Evicted(v) ==
  IF currentSize + SizeOf(v) > MaxSize \/ Len(order) >= MaxEntries
  THEN {order[i] : i \in 1..EvictCount(SizeOf(v))} ELSE {}

(* Mutant of Put: an entry that exists is left as it is. *)
Put_KeepsEntry(k, v) ==
  LET gone == Evicted(v) IN
    /\ alive
    /\ file' = [x \in Key |-> IF x \in gone \ {k} THEN Nil ELSE IF x = k THEN v ELSE file[x]]
    /\ entry' = [x \in Key |-> IF x \in gone THEN Nil ELSE IF x = k /\ entry[k] = Nil THEN v ELSE entry[x]]
    /\ order' = Append(Without(order, gone \cup {k}), k)
    /\ old' = old \ (gone \cup {k})
    /\ currentSize' = currentSize - Sizes(gone) + (IF entry[k] = Nil THEN SizeOf(v) ELSE 0)
    /\ UNCHANGED <<index, life>>

(* The file is copied first; what is evicted or replaced is removed after  *)
(* that, by the path that the key determines.                              *)
Put(k, v) ==
  LET gone == Evicted(v) \cup (IF entry[k] = Nil THEN {} ELSE {k}) IN
    /\ alive
    /\ file' = [x \in Key |-> IF x \in gone THEN Nil ELSE IF x = k THEN v ELSE file[x]]
    /\ entry' = [x \in Key |-> IF x = k THEN v ELSE IF x \in gone THEN Nil ELSE entry[x]]
    /\ order' = Append(Without(order, gone \cup {k}), k)
    /\ old' = old \ (gone \cup {k})
    /\ currentSize' = currentSize - Sizes(gone) + SizeOf(v)
    /\ UNCHANGED <<index, life>>

(* os.Create truncates, then the copy breaks off. *)
PutFails(k) ==
  /\ alive /\ "torn" \in scenario
  /\ file' = [file EXCEPT ![k] = "torn"]
  /\ UNCHANGED <<map, currentSize, index, life>>

-----------------------------------------------------------------------------
(* Get *)

GetHit(k) ==
  /\ alive
  /\ entry[k] # Nil /\ k \notin old /\ file[k] # Nil
  /\ order' = Append(Without(order, {k}), k)
  /\ UNCHANGED <<entry, old, currentSize, file, index, life>>

(* An entry that is too old, or whose file is not there, is dropped. *)
GetStale(k) ==
  /\ alive
  /\ entry[k] # Nil
  /\ k \in old \/ file[k] = Nil
  /\ Drop({k})
  /\ UNCHANGED <<index, life>>

Delete(k) ==
  /\ alive
  /\ entry[k] # Nil
  /\ Drop({k})
  /\ UNCHANGED <<index, life>>

Clear ==
  /\ alive
  /\ entry' = [k \in Key |-> Nil]
  /\ order' = <<>> /\ old' = {} /\ currentSize' = 0
  /\ file' = [k \in Key |-> IF entry[k] # Nil THEN Nil ELSE file[k]]
  /\ UNCHANGED <<index, life>>

Cleanup ==
  /\ alive /\ cleaner
  /\ old # {}
  /\ Drop(old)
  /\ UNCHANGED <<index, life>>

(* TTL passes for an entry. *)
Expire(k) ==
  /\ entry[k] # Nil /\ k \notin old
  /\ old' = old \cup {k}
  /\ UNCHANGED <<entry, order, currentSize, file, index, life>>

-----------------------------------------------------------------------------
(* Start, Stop and the process *)

Start ==
  /\ alive /\ "start" \in scenario
  /\ ~ running
  /\ running' = TRUE
  /\ cleaner' = (stopChan = "open")
  /\ UNCHANGED <<map, currentSize, file, index, scenario, alive, stopChan>>

(* Without Start there is nothing to stop, and no index is written.  A     *)
(* second Stop after a second Start closes a closed channel and panics.    *)
Stop ==
  /\ alive /\ "stop" \in scenario
  /\ running
  /\ \/ /\ stopChan = "open"
        /\ stopChan' = "closed"
        /\ running' = FALSE /\ cleaner' = FALSE
        /\ index' = [entry |-> entry, order |-> order]
        /\ UNCHANGED alive
     \/ /\ stopChan = "closed"
        /\ alive' = FALSE
        /\ UNCHANGED <<index, running, stopChan, cleaner>>
  /\ UNCHANGED <<map, currentSize, file, scenario>>

Exit ==
  /\ alive /\ "exit" \in scenario
  /\ alive' = FALSE
  /\ UNCHANGED <<map, currentSize, file, index, scenario, running, stopChan, cleaner>>

(* loadCache: the entries of the index whose file is there. *)
NewCacheService ==
  LET kept == {k \in Key : index.entry[k] # Nil /\ file[k] # Nil} IN
    /\ ~ alive
    /\ alive' = TRUE
    /\ entry' = [k \in Key |-> IF k \in kept THEN index.entry[k] ELSE Nil]
    /\ order' = Without(index.order, Key \ kept)
    /\ old' = {}
    /\ currentSize' = SizeIn(index.entry, kept)
    /\ running' = FALSE /\ stopChan' = "open" /\ cleaner' = FALSE
    /\ UNCHANGED <<file, index, scenario>>

-----------------------------------------------------------------------------
Init ==
  /\ scenario \in Scenarios
  /\ alive = TRUE
  /\ entry = [k \in Key |-> Nil] /\ order = <<>> /\ old = {}
  /\ currentSize = 0
  /\ file = [k \in Key |-> Nil]
  /\ index = NoIndex
  /\ running = FALSE /\ stopChan = "open" /\ cleaner = FALSE

Next ==
  \/ \E k \in Key : \/ \E v \in Version : Put(k, v)
                    \/ PutFails(k) \/ GetHit(k) \/ GetStale(k) \/ Delete(k) \/ Expire(k)
  \/ Clear \/ Cleanup \/ Start \/ Stop \/ Exit \/ NewCacheService

Spec == Init /\ [][Next]_vars

-----------------------------------------------------------------------------
(* Properties *)

Present == Held(entry)

GetStats == [totalEntries |-> Cardinality(Present), totalSize |-> currentSize]

(* The size that GetStats reports is the total size of the entries,        *)
(* through replacements, evictions, expiry and restarts.  It is within the *)
(* limit when files fit at all; the limit on the number of entries is      *)
(* exceeded by one at most.                                                *)
SizeHolds ==
  /\ GetStats.totalSize = Sizes(Present)
  /\ (\A v \in Version : SizeOf(v) <= MaxSize) => GetStats.totalSize <= MaxSize
  /\ GetStats.totalEntries <= MaxEntries + 1

(* While copies do not break off and the process goes on, what Get returns *)
(* is the content the entry was made for.                                  *)
HitIsRight ==
  scenario = {} => \A k \in Present \ old : file[k] # Nil => file[k] = entry[k]

(* Nor is a file left in the cache directory without an entry, although    *)
(* replacing, evicting and dropping an entry remove files by their key.    *)
NoOrphanFile ==
  scenario = {} => \A k \in Key : file[k] # Nil => entry[k] # Nil
=============================================================================
