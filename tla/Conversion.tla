----------------------------- MODULE Conversion -----------------------------
(***************************************************************************)
(* What the conversion of a task does to the files: the text is parsed,    *)
(* each format is built under the book's name in the output directory,     *)
(* and the results are copied to files of the task.  Tasks whose books     *)
(* have one name build the same files.                                     *)
(***************************************************************************)
EXTENDS Parser, FiniteSets

CONSTANTS
  Task,         \* tasks that are converted at a time
  Requests,     \* the requests the tasks may have: functions from Task to
                \* records with the fields text, terminated, volumes, tips
                \* (see Parser), format, and name, the base name of the output
  ChunkSize,    \* sections in one azw3 file: 2000
  Disks,        \* subset of {"good", "full"}: writes may fail on a full disk
  Nil           \* no content

ASSUME ChunkAssumption == ChunkSize \in Nat \ {0}
ASSUME NilAssumption ==
  /\ Nil \notin Task \cup {"partial", "mixed"}
  /\ Task \cap {"partial", "mixed"} = {}

Format == {"epub", "mobi", "azw3"}

(* The binding of a ConvertRequest admits no other format. *)
ASSUME RequestsAssumption ==
  \A q \in Requests, t \in Task :
    q[t].format \in Format \cup {"all"} /\ q[t].text \in Seq(Line)

VARIABLES
  request,      \* request[t]
  disk,         \* state of the disk
  pc,           \* pc[t]: where the conversion of t is
  sectionList,  \* sectionList[t]: Book.SectionList
  todo,         \* todo[t]: formats left to build or, after that, to copy
  results,      \* results[t]: formats in the result list of ConvertBook
  built,        \* built[n][f]: the file n.f: content and tasks writing it
  parts,        \* tasks with files n_1.azw3, n_2.azw3, ... of a large book
  saved,        \* saved[t][f]: content of the file of t for format f
  dropped,      \* tasks that were cleaned up before they ended
  listed        \* listed[t]: TaskInfo.Files, the formats offered to the client

outputs == <<built, parts, saved>>
vars == <<request, disk, pc, sectionList, todo, results, outputs, dropped, listed>>

Names == {q[t].name : q \in Requests, t \in Task}

Formats(format) == IF format = "all" THEN <<"epub", "mobi", "azw3">> ELSE <<format>>

name(t) == request[t].name
format(t) == todo[t][1]

NoFile == [content |-> Nil, writers |-> {}]

-----------------------------------------------------------------------------
ParseText(t) ==
  /\ pc[t] = "parse"
  /\ pc' = [pc EXCEPT ![t] = "build"]
  /\ sectionList' = [sectionList EXCEPT ![t] = Parse(request[t])]
  /\ UNCHANGED <<request, disk, todo, results, outputs, dropped, listed>>

(* SectionSliceChunk: more than ChunkSize sections make several files, and *)
(* none of them has the name that ConvertBook looks for.                   *)
InParts(t) == format(t) = "azw3" /\ Len(sectionList[t]) > ChunkSize

Fail(t) ==
  /\ pc' = [pc EXCEPT ![t] = "failed"]
  /\ UNCHANGED <<todo, results>>

(* Mutant of OpenOutput: the writer is a goroutine nobody waits for. *)
OpenOutput_NotWaited(t) ==
  /\ pc[t] = "build"
  /\ pc' = [pc EXCEPT ![t] = "stat"]
  /\ built' = [built EXCEPT ![name(t)][format(t)] =
                 [content |-> "partial", writers |-> @.writers \cup {t}]]
  /\ UNCHANGED <<request, disk, sectionList, todo, results, parts, saved, dropped, listed>>

(* The output is created, or truncated if it is there. *)
OpenOutput(t) ==
  /\ pc[t] = "build"
  /\ pc' = [pc EXCEPT ![t] = "write"]
  /\ IF InParts(t)
     THEN parts' = parts \cup {t} /\ UNCHANGED built
     ELSE /\ built' = [built EXCEPT ![name(t)][format(t)] =
                         [content |-> IF @.writers = {} THEN "partial" ELSE "mixed",
                          writers |-> @.writers \cup {t}]]
          /\ UNCHANGED parts
  /\ UNCHANGED <<request, disk, sectionList, todo, results, saved, dropped, listed>>

(* Build of the epub does not report a file that could not be created; the *)
(* others panic (mobi) or return an error (azw3).                          *)
OpenFails(t) ==
  /\ disk = "full"
  /\ pc[t] = "build"
  /\ IF format(t) = "epub"
     THEN pc' = [pc EXCEPT ![t] = "stat"] /\ UNCHANGED <<todo, results>>
     ELSE Fail(t)
  /\ UNCHANGED <<request, disk, sectionList, outputs, dropped, listed>>

(* Content is mixed when another task has the file open.  A file that was  *)
(* removed meanwhile stays removed.                                        *)
CloseFile(t, whole) ==
  built' = [built EXCEPT ![name(t)][format(t)] =
              IF t \notin @.writers THEN @
              ELSE [content |-> IF @.content = "partial" /\ whole THEN t ELSE @.content,
                    writers |-> @.writers \ {t}]]

CloseOutput(t) ==
  /\ pc[t] = "write"
  /\ pc' = [pc EXCEPT ![t] = "stat"]
  /\ IF InParts(t) THEN UNCHANGED built ELSE CloseFile(t, TRUE)
  /\ UNCHANGED <<request, disk, sectionList, todo, results, parts, saved, dropped, listed>>

(* A write that breaks off is reported for azw3 only. *)
WriteFails(t) ==
  /\ disk = "full"
  /\ pc[t] = "write"
  /\ IF InParts(t) THEN UNCHANGED built ELSE CloseFile(t, FALSE)
  /\ IF format(t) = "azw3" THEN Fail(t)
     ELSE pc' = [pc EXCEPT ![t] = "stat"] /\ UNCHANGED <<todo, results>>
  /\ UNCHANGED <<request, disk, sectionList, parts, saved, dropped, listed>>

-----------------------------------------------------------------------------
(* Mutant of Collect: a format without a file is left out of the result. *)
Collect_SkipsMissing(t) ==
  /\ pc[t] = "stat"
  /\ results' = IF built[name(t)][format(t)].content = Nil THEN results
                ELSE [results EXCEPT ![t] = Append(@, format(t))]
  /\ \/ Len(todo[t]) > 1
        /\ todo' = [todo EXCEPT ![t] = Tail(@)]
        /\ pc' = [pc EXCEPT ![t] = "build"]
     \/ Len(todo[t]) = 1
        /\ todo' = [todo EXCEPT ![t] = results'[t]]
        /\ pc' = [pc EXCEPT ![t] = IF results'[t] = <<>> THEN "complete" ELSE "save"]
  /\ UNCHANGED <<request, disk, sectionList, outputs, dropped, listed>>

(* ConvertBook asks for the size of the file under the name of the book,   *)
(* which may be the file of an earlier conversion.                         *)
Collect(t) ==
  /\ pc[t] = "stat"
  /\ \/ /\ built[name(t)][format(t)].content = Nil
        /\ Fail(t)
     \/ /\ built[name(t)][format(t)].content # Nil
        /\ results' = [results EXCEPT ![t] = Append(@, format(t))]
        /\ \/ /\ Len(todo[t]) > 1
              /\ todo' = [todo EXCEPT ![t] = Tail(@)]
              /\ pc' = [pc EXCEPT ![t] = "build"]
           \/ /\ Len(todo[t]) = 1
              /\ todo' = [todo EXCEPT ![t] = results'[t]]
              /\ pc' = [pc EXCEPT ![t] = "save"]
  /\ UNCHANGED <<request, disk, sectionList, outputs, dropped, listed>>

(* SaveConvertedFiles copies what the file holds at that time. *)
CopyFile(t) ==
  /\ pc[t] = "save"
  /\ built[name(t)][format(t)].content # Nil
  /\ saved' = [saved EXCEPT ![t][format(t)] = built[name(t)][format(t)].content]
  /\ todo' = [todo EXCEPT ![t] = Tail(@)]
  /\ pc' = [pc EXCEPT ![t] = IF Len(todo[t]) = 1 THEN "complete" ELSE "save"]
  /\ UNCHANGED <<request, disk, sectionList, results, built, parts, dropped, listed>>

(* The source was removed, or the copy breaks off. *)
CopyFails(t) ==
  /\ pc[t] = "save"
  /\ \/ built[name(t)][format(t)].content = Nil /\ UNCHANGED saved
     \/ disk = "full" /\ saved' = [saved EXCEPT ![t][format(t)] = "partial"]
  /\ Fail(t)
  /\ UNCHANGED <<request, disk, sectionList, built, parts, dropped, listed>>

Complete(t) ==
  /\ pc[t] = "complete"
  /\ pc' = [pc EXCEPT ![t] = "completed"]
  /\ listed' = IF t \in dropped THEN listed ELSE [listed EXCEPT ![t] = ToSet(results[t])]
  /\ UNCHANGED <<request, disk, sectionList, todo, results, outputs, dropped>>

(* The task leaves the map.  A conversion that is running goes on. *)
RemoveTask(t) ==
  /\ pc[t] # "removed" /\ t \notin dropped
  /\ \/ /\ pc[t] \in {"completed", "failed"}
        /\ pc' = [pc EXCEPT ![t] = "removed"]
        /\ UNCHANGED dropped
     \/ /\ pc[t] \notin {"completed", "failed"}
        /\ dropped' = dropped \cup {t}
        /\ UNCHANGED pc

(* CleanupTask removes the files whose names begin with the ID of the      *)
(* task: its copies, and what was built under a name made from the upload. *)
CleanupTask(t) ==
  /\ RemoveTask(t)
  /\ saved' = [saved EXCEPT ![t] = [f \in Format |-> Nil]]
  /\ IF name(t) = t
     THEN built' = [built EXCEPT ![t] = [f \in Format |-> NoFile]] /\ parts' = parts \ {t}
     ELSE UNCHANGED <<built, parts>>
  /\ UNCHANGED <<request, disk, sectionList, todo, results, listed>>

-----------------------------------------------------------------------------
Init ==
  /\ request \in Requests
  /\ disk \in Disks
  /\ pc = [t \in Task |-> "parse"]
  /\ sectionList = [t \in Task |-> <<>>]
  /\ todo = [t \in Task |-> Formats(request[t].format)]
  /\ results = [t \in Task |-> <<>>]
  /\ built = [n \in Names |-> [f \in Format |-> NoFile]]
  /\ parts = {}
  /\ saved = [t \in Task |-> [f \in Format |-> Nil]]
  /\ dropped = {}
  /\ listed = [t \in Task |-> {}]

Convert(t) ==
  \/ ParseText(t) \/ OpenOutput(t) \/ OpenFails(t) \/ CloseOutput(t) \/ WriteFails(t)
  \/ Collect(t) \/ CopyFile(t) \/ CopyFails(t) \/ Complete(t)

Next == \E t \in Task : Convert(t) \/ CleanupTask(t)

Spec == Init /\ [][Next]_vars

-----------------------------------------------------------------------------
(* Properties *)

Parsed(t) == pc[t] # "parse"

(* Parse puts every line of the text into the book once and in order,      *)
(* except for a title that reads like UnknowTitle and has no text; the     *)
(* text of a section is what stands under its title; and chapters are in   *)
(* the volume they follow, extra chapters in none.                         *)
BookIsTheText ==
  \A t \in Task : Parsed(t) =>
    /\ KeepsLines(request[t], sectionList[t])
    /\ TextIsUnderItsTitle(request[t], sectionList[t])
    /\ ChaptersAreInTheirVolume(request[t], sectionList[t])

\* the book that GET /download sends for the file ID of t and f, Nil for 404
DownloadFile(t, f) == saved[t][f]

(* On a disk with room, the files of a task are its own book in full, when *)
(* no other task builds a book of that name.                               *)
SavedIsOwnBook ==
  \A t \in Task :
    disk = "good" /\ (\A u \in Task \ {t} : name(u) # name(t))
      => \A f \in Format : DownloadFile(t, f) \in {t, Nil}

(* A task that completes in the map offers every format that was           *)
(* requested, whatever fails and whatever other tasks do to the files.     *)
CompletedIsComplete ==
  \A t \in Task : pc[t] = "completed" /\ t \notin dropped => listed[t] = ToSet(Formats(request[t].format))

(* The files of a completed task are its own book. *)
CompletedIsOwnBook ==
  \A t \in Task : \A f \in Format :
    pc[t] = "completed" /\ disk = "good" => DownloadFile(t, f) \in {t, Nil}
=============================================================================
