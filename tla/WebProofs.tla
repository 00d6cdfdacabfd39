------------------------------ MODULE WebProofs ------------------------------
(***************************************************************************)
(* Theorems about what the web server stores, for any number of tasks,     *)
(* users, presets and requests: the files of conversions, the accounts and *)
(* presets, and the statistics.                                            *)
(***************************************************************************)
EXTENDS Web, WellFoundedInduction, TLAPS

-----------------------------------------------------------------------------
(* The formats of a conversion: those in its result and those to build are *)
(* the formats that were requested, until all of them are in the result.   *)

Wanted(t) == ToSet(Formats(request[t].format))

QueuesOK ==
  /\ todo \in [Task -> Seq(Format)]
  /\ results \in [Task -> Seq(Format)]

FormatsOK(t) ==
  /\ pc[t] \in {"parse", "build", "write", "stat"} =>
       todo[t] # <<>> /\ ToSet(results[t]) \cup ToSet(todo[t]) = Wanted(t)
  /\ pc[t] = "save" => todo[t] # <<>>
  /\ pc[t] \in {"save", "complete"} => ToSet(results[t]) = Wanted(t)
  /\ pc[t] = "completed" /\ t \notin dropped => listed[t] = Wanted(t)

CompleteInv ==
  /\ request \in Requests
  /\ pc \in [Task -> {"parse", "build", "write", "stat", "save", "complete", "completed",
                      "failed", "removed"}]
  /\ listed \in [Task -> SUBSET Format]
  /\ DOMAIN sectionList = Task
  /\ QueuesOK
  /\ \A t \in Task : FormatsOK(t)

(* A result list gains what is appended to it. *)
LEMMA AppendSet ==
  ASSUME NEW r \in Seq(Format), NEW f \in Format
  PROVE  /\ Append(r, f) \in Seq(Format)
         /\ Append(r, f) # <<>>
         /\ ToSet(Append(r, f)) = ToSet(r) \cup {f}
<1> DEFINE q == Append(r, f)
<1>1. /\ q \in Seq(Format) /\ Len(q) = Len(r) + 1 /\ Len(r) \in Nat
      /\ DOMAIN q = 1..Len(q) /\ DOMAIN r = 1..Len(r)
      /\ q[Len(r) + 1] = f /\ \A i \in 1..Len(r) : q[i] = r[i]
  OBVIOUS
<1>2. Len(r) + 1 \in DOMAIN q /\ \A i \in DOMAIN r : i \in DOMAIN q
  BY <1>1
<1>3. \A i \in DOMAIN q : i \in DOMAIN r \/ i = Len(r) + 1
  BY <1>1
<1> HIDE DEF q
<1>4. ToSet(q) = ToSet(r) \cup {f}
  BY <1>1, <1>2, <1>3 DEF ToSet
<1>5. q # <<>>
  <2>1. DOMAIN <<>> = {}
    OBVIOUS
  <2> QED BY <1>2, <2>1
<1> QED BY <1>1, <1>4, <1>5 DEF q

(* A queue loses its head. *)
LEMMA TailSet ==
  ASSUME NEW s \in Seq(Format), s # <<>>
  PROVE  /\ s[1] \in Format
         /\ Tail(s) \in Seq(Format)
         /\ ToSet(s) = {s[1]} \cup ToSet(Tail(s))
<1> DEFINE q == Tail(s)
<1>1. /\ q \in Seq(Format) /\ Len(q) = Len(s) - 1 /\ Len(s) \in Nat \ {0}
      /\ DOMAIN q = 1..Len(q) /\ DOMAIN s = 1..Len(s)
      /\ \A i \in 1..Len(q) : q[i] = s[i + 1]
      /\ s[1] \in Format
  OBVIOUS
<1>2. /\ 1 \in DOMAIN s
      /\ \A i \in DOMAIN q : i + 1 \in DOMAIN s
      /\ \A i \in DOMAIN s : i = 1 \/ (i - 1 \in DOMAIN q /\ q[i - 1] = s[i])
  BY <1>1
<1> HIDE DEF q
<1>3. ToSet(s) = {s[1]} \cup ToSet(q)
  BY <1>1, <1>2 DEF ToSet
<1> QED BY <1>1, <1>3 DEF q

(* A queue ends with its last element. *)
LEMMA TailLength ==
  ASSUME NEW s \in Seq(Format), s # <<>>
  PROVE  /\ Len(s) = 1 => ToSet(Tail(s)) = {}
         /\ Len(s) # 1 => Len(s) > 1 /\ Tail(s) # <<>>
<1> DEFINE q == Tail(s)
<1>1. Len(q) = Len(s) - 1 /\ Len(s) \in Nat \ {0} /\ DOMAIN q = 1..Len(q)
  OBVIOUS
<1>2. (Len(s) = 1 => DOMAIN q = {}) /\ (Len(s) # 1 => Len(s) > 1 /\ 1 \in DOMAIN q)
  BY <1>1
<1> HIDE DEF q
<1>3. Len(s) = 1 => ToSet(q) = {}
  BY <1>2 DEF ToSet
<1>4. Len(s) # 1 => Len(s) > 1 /\ q # <<>>
  <2>1. DOMAIN <<>> = {}
    OBVIOUS
  <2> QED BY <1>2, <2>1
<1> QED BY <1>3, <1>4 DEF q

(* A request has formats. *)
LEMMA FormatsRequested ==
  ASSUME request \in Requests, NEW t \in Task
  PROVE  Formats(request[t].format) \in Seq(Format) \ {<<>>}
BY RequestsAssumption DEF Formats, Format

(* Nothing has been built in the beginning. *)
LEMMA CompleteInit == Init => CompleteInv
<1> SUFFICES ASSUME Init PROVE CompleteInv
  OBVIOUS
<1>1. QueuesOK
  BY FormatsRequested DEF Init, QueuesOK
<1>2. ASSUME NEW t \in Task PROVE FormatsOK(t)
  <2>1. pc[t] = "parse" /\ todo[t] = Formats(request[t].format) /\ results[t] = <<>>
    BY DEF Init
  <2>2. todo[t] # <<>> /\ ToSet(results[t]) = {}
    BY <2>1, FormatsRequested DEF Init, ToSet
  <2> QED BY <2>1, <2>2 DEF FormatsOK, Wanted
<1> QED BY <1>1, <1>2 DEF Init, CompleteInv

(* A step of one conversion leaves the formats of the others alone. *)
LEMMA OthersKeep ==
  ASSUME CompleteInv, UNCHANGED request, NEW u \in Task,
         pc'[u] = pc[u], todo'[u] = todo[u], results'[u] = results[u],
         listed'[u] = listed[u], dropped \subseteq dropped'
  PROVE  FormatsOK(u)'
BY DEF CompleteInv, FormatsOK, Wanted

(* A format is taken into the result once its file is there; the last one  *)
(* starts the copies.                                                      *)
LEMMA CollectComplete ==
  ASSUME CompleteInv, NEW t \in Task, Collect(t)
  PROVE  CompleteInv'
<1>1. CASE Fail(t)
  <2>1. ASSUME NEW u \in Task PROVE FormatsOK(u)'
    <3>1. CASE u = t
      BY <1>1, <3>1 DEF Collect, Fail, CompleteInv, FormatsOK, Wanted
    <3>2. CASE u # t
      BY <1>1, <3>2, OthersKeep DEF Collect, Fail, CompleteInv
    <3> QED BY <3>1, <3>2
  <2> QED BY <1>1, <2>1 DEF Collect, Fail, CompleteInv, QueuesOK
<1>2. CASE /\ results' = [results EXCEPT ![t] = Append(@, format(t))]
           /\ \/ /\ Len(todo[t]) > 1
                 /\ todo' = [todo EXCEPT ![t] = Tail(@)]
                 /\ pc' = [pc EXCEPT ![t] = "build"]
              \/ /\ Len(todo[t]) = 1
                 /\ todo' = [todo EXCEPT ![t] = results'[t]]
                 /\ pc' = [pc EXCEPT ![t] = "save"]
  <2>1. /\ todo[t] \in Seq(Format) /\ results[t] \in Seq(Format) /\ todo[t] # <<>>
        /\ pc[t] = "stat" /\ ToSet(results[t]) \cup ToSet(todo[t]) = Wanted(t)
    BY DEF Collect, CompleteInv, FormatsOK, QueuesOK
  <2>2. /\ results'[t] \in Seq(Format) \ {<<>>}
        /\ ToSet(results'[t]) = ToSet(results[t]) \cup {format(t)}
    BY <1>2, <2>1, AppendSet, TailSet DEF format, CompleteInv, QueuesOK
  <2>3. CASE Len(todo[t]) > 1 /\ todo' = [todo EXCEPT ![t] = Tail(@)]
             /\ pc' = [pc EXCEPT ![t] = "build"]
    <3>1. todo'[t] \in Seq(Format) /\ todo'[t] # <<>> /\ ToSet(todo[t]) = {format(t)} \cup ToSet(todo'[t])
      <4>1. Tail(todo[t]) \in Seq(Format) /\ ToSet(todo[t]) = {todo[t][1]} \cup ToSet(Tail(todo[t]))
        BY <2>1, TailSet
      <4>2. Tail(todo[t]) # <<>>
        <5>1. Len(todo[t]) \in Nat /\ \A n \in Nat : n > 1 => n # 1
          BY <2>1
        <5>2. Len(todo[t]) > 1
          BY <2>3
        <5>3. Len(todo[t]) # 1
          BY <5>1, <5>2
        <5> QED BY <5>3, <2>1, TailLength
      <4>3. todo'[t] = Tail(todo[t])
        BY <2>3 DEF CompleteInv, QueuesOK
      <4> QED BY <4>1, <4>2, <4>3 DEF format
    <3>2. FormatsOK(t)'
      BY <2>1, <2>2, <2>3, <3>1 DEF Collect, CompleteInv, FormatsOK, Wanted
    <3>3. \A u \in Task \ {t} : FormatsOK(u)'
      BY <1>2, <2>3, OthersKeep DEF Collect, CompleteInv, QueuesOK
    <3> QED BY <1>2, <2>2, <2>3, <3>1, <3>2, <3>3 DEF Collect, CompleteInv, QueuesOK
  <2>4. CASE Len(todo[t]) = 1 /\ todo' = [todo EXCEPT ![t] = results'[t]]
             /\ pc' = [pc EXCEPT ![t] = "save"]
    <3>1. ToSet(todo[t]) = {format(t)}
      <4>1. ToSet(Tail(todo[t])) = {}
        BY <2>1, <2>4, TailLength
      <4> QED BY <4>1, <2>1, TailSet DEF format
    <3>2. FormatsOK(t)'
      BY <2>1, <2>2, <2>4, <3>1 DEF Collect, CompleteInv, QueuesOK, FormatsOK, Wanted
    <3>3. \A u \in Task \ {t} : FormatsOK(u)'
      BY <1>2, <2>4, OthersKeep DEF Collect, CompleteInv, QueuesOK
    <3> QED BY <1>2, <2>2, <2>4, <3>2, <3>3 DEF Collect, CompleteInv, QueuesOK
  <2> QED BY <1>2, <2>3, <2>4 DEF Collect
<1> QED BY <1>1, <1>2 DEF Collect

(* Each copy takes one format off the queue. *)
LEMMA CopyComplete ==
  ASSUME CompleteInv, NEW t \in Task, CopyFile(t)
  PROVE  CompleteInv'
<1>1. todo[t] \in Seq(Format) /\ todo[t] # <<>> /\ ToSet(results[t]) = Wanted(t)
  BY DEF CopyFile, CompleteInv, FormatsOK, QueuesOK
<1>2. /\ todo'[t] = Tail(todo[t]) /\ todo'[t] \in Seq(Format)
      /\ pc'[t] = "save" => todo'[t] # <<>>
      /\ pc'[t] \in {"save", "complete"}
  <2>1. /\ Tail(todo[t]) \in Seq(Format)
        /\ Len(todo[t]) # 1 => Tail(todo[t]) # <<>>
    BY <1>1, TailSet, TailLength
  <2>2. todo'[t] = Tail(todo[t]) /\ pc'[t] = IF Len(todo[t]) = 1 THEN "complete" ELSE "save"
    BY DEF CopyFile, CompleteInv, QueuesOK
  <2> QED BY <2>1, <2>2
<1>3. FormatsOK(t)'
  BY <1>1, <1>2 DEF CopyFile, FormatsOK, Wanted
<1>4. \A u \in Task \ {t} : FormatsOK(u)'
  BY OthersKeep DEF CopyFile, CompleteInv, QueuesOK
<1> QED BY <1>2, <1>3, <1>4 DEF CopyFile, CompleteInv, QueuesOK

(* What is offered when a task completes is the result.                    *)
LEMMA CompleteComplete ==
  ASSUME CompleteInv, NEW t \in Task, Complete(t)
  PROVE  CompleteInv'
<1>1. ToSet(results[t]) = Wanted(t) /\ ToSet(results[t]) \subseteq Format
  BY DEF Complete, CompleteInv, QueuesOK, FormatsOK, ToSet
<1>2. listed' \in [Task -> SUBSET Format]
  BY <1>1 DEF Complete, CompleteInv
<1>3. FormatsOK(t)'
  BY <1>1 DEF Complete, CompleteInv, FormatsOK, Wanted
<1>4. \A u \in Task \ {t} : FormatsOK(u)'
  BY OthersKeep DEF Complete, CompleteInv
<1> QED BY <1>2, <1>3, <1>4 DEF Complete, CompleteInv, QueuesOK

(* The other steps of a conversion go on with the format at hand, or fail. *)
LEMMA OtherStepsComplete ==
  ASSUME CompleteInv, NEW t \in Task,
         UNCHANGED <<request, todo, results, listed>>, dropped \subseteq dropped',
         DOMAIN sectionList' = Task,
         \/ pc' = pc
         \/ \E to \in {"failed", "removed"} : pc' = [pc EXCEPT ![t] = to]
         \/ /\ pc[t] \in {"parse", "build", "write"}
            /\ \E to \in {"build", "write", "stat"} : pc' = [pc EXCEPT ![t] = to]
  PROVE  CompleteInv'
<1>1. FormatsOK(t)'
  BY DEF CompleteInv, FormatsOK, Wanted
<1>2. \A u \in Task \ {t} : FormatsOK(u)'
  BY OthersKeep DEF CompleteInv
<1> QED BY <1>1, <1>2 DEF CompleteInv, QueuesOK

(* Every step keeps the formats of every task. *)
LEMMA CompleteStep == CompleteInv /\ [Next]_vars => CompleteInv'
<1> SUFFICES ASSUME CompleteInv, [Next]_vars PROVE CompleteInv'
  OBVIOUS
<1>1. ASSUME NEW t \in Task, Convert(t) PROVE CompleteInv'
  <2>1. CASE ParseText(t) \/ OpenOutput(t) \/ CloseOutput(t)
    BY <2>1, OtherStepsComplete DEF CompleteInv, ParseText, OpenOutput, CloseOutput, outputs
  <2>2. CASE OpenFails(t) \/ WriteFails(t) \/ CopyFails(t)
    BY <2>2, OtherStepsComplete DEF CompleteInv, OpenFails, WriteFails, CopyFails, Fail, outputs
  <2>3. CASE Collect(t)
    BY <2>3, CollectComplete
  <2>4. CASE CopyFile(t)
    BY <2>4, CopyComplete
  <2>5. CASE Complete(t)
    BY <2>5, CompleteComplete
  <2> QED BY <1>1, <2>1, <2>2, <2>3, <2>4, <2>5 DEF Convert
<1>2. ASSUME NEW t \in Task, CleanupTask(t) PROVE CompleteInv'
  BY <1>2, OtherStepsComplete DEF CompleteInv, CleanupTask, RemoveTask
<1>3. CASE UNCHANGED vars
  BY <1>3, OthersKeep DEF vars, CompleteInv, QueuesOK
<1> QED BY <1>1, <1>2, <1>3 DEF Next

(* A task that completes in the map offers every format that was           *)
(* requested, for any tasks, requests, texts and failures.                 *)
THEOREM CompletedTasksAreComplete == Spec => []CompletedIsComplete
<1>1. CompleteInv => CompletedIsComplete
  BY DEF CompleteInv, FormatsOK, Wanted, CompletedIsComplete
<1> QED BY <1>1, CompleteInit, CompleteStep, PTL DEF Spec

-----------------------------------------------------------------------------
(* The files of a book: on a disk with room, the file of a format under a  *)
(* name that no other task uses is absent, whole, or open for its task.    *)

OwnName(t) == \A u \in Task \ {t} : name(u) # name(t)

FileOK(t, f) ==
  LET b == built[name(t)][f] IN
    /\ b.content \in {Nil, "partial", t}
    /\ b.writers \subseteq {t}
    /\ b.content = "partial" => t \in b.writers
    /\ t \in b.writers => pc[t] = "write" /\ format(t) = f /\ ~ InParts(t)
    /\ saved[t][f] \in {t, Nil}

OwnInv ==
  /\ CompleteInv
  /\ built \in [Names -> [Format -> [content : Task \cup {Nil, "partial", "mixed"}, writers : SUBSET Task]]]
  /\ saved \in [Task -> [Format -> Task \cup {Nil, "partial", "mixed"}]]
  /\ disk = "good" => \A t \in Task : OwnName(t) => \A f \in Format : FileOK(t, f)

(* Every task has a name, and a format while it is at a file. *)
LEMMA NameAndFormat ==
  ASSUME CompleteInv, NEW t \in Task
  PROVE  /\ name(t) \in Names
         /\ pc[t] \in {"build", "write", "stat", "save"} => format(t) \in Format
<1>1. name(t) \in Names
  BY DEF CompleteInv, name, Names
<1>2. ASSUME pc[t] \in {"build", "write", "stat", "save"} PROVE format(t) \in Format
  <2>1. todo[t] \in Seq(Format) /\ todo[t] # <<>>
    BY <1>2 DEF CompleteInv, QueuesOK, FormatsOK
  <2> QED BY <2>1, TailSet DEF format
<1> QED BY <1>1, <1>2

(* There is no file in the beginning. *)
LEMMA OwnInit == Init => OwnInv
<1> SUFFICES ASSUME Init PROVE OwnInv
  OBVIOUS
<1>1. CompleteInv
  BY CompleteInit
<1>2. /\ NoFile \in [content : Task \cup {Nil, "partial", "mixed"}, writers : SUBSET Task]
      /\ NoFile.content = Nil /\ NoFile.writers = {}
  BY DEF NoFile
<1>3. \A n \in Names, f \in Format : built[n][f] = NoFile
  BY DEF Init
<1>4. \A t \in Task, f \in Format : FileOK(t, f)
  BY <1>1, <1>2, <1>3, NameAndFormat, NilAssumption DEF Init, FileOK
<1> QED BY <1>1, <1>2, <1>4 DEF Init, OwnInv

(* A file whose task is not the one that acts stays as it is.              *)
LEMMA OthersFiles ==
  ASSUME NEW t \in Task, NEW u \in Task \ {t}, NEW f \in Format,
         OwnName(u), FileOK(u, f), UNCHANGED <<request, sectionList>>,
         built'[name(u)] = built[name(u)], saved'[u] = saved[u], pc'[u] = pc[u], todo'[u] = todo[u]
  PROVE  FileOK(u, f)'
BY DEF FileOK, InParts, name, format

(* A step that writes no file, on its way to no file's end, keeps them.    *)
LEMMA NoFileStep ==
  ASSUME OwnInv, CompleteInv', NEW t \in Task, UNCHANGED <<request, disk, built>>,
         \A u \in Task \ {t} : pc'[u] = pc[u] /\ todo'[u] = todo[u] /\ sectionList'[u] = sectionList[u],
         saved' \in [Task -> [Format -> Task \cup {Nil, "partial", "mixed"}]],
         disk = "good" /\ OwnName(t) => \A f \in Format : saved'[t][f] \in {t, Nil},
         \A u \in Task \ {t} : saved'[u] = saved[u],
         pc[t] # "write"
  PROVE  OwnInv'
<1>1. ASSUME disk = "good", NEW u \in Task, OwnName(u), NEW f \in Format
      PROVE  FileOK(u, f)'
  <2>1. FileOK(u, f)
    BY <1>1 DEF OwnInv
  <2>2. CASE u = t
    BY <1>1, <2>1, <2>2 DEF FileOK, name
  <2>3. CASE u # t
    BY <1>1, <2>1, <2>3 DEF FileOK, InParts, name, format
  <2> QED BY <2>2, <2>3
<1>2. \A u \in Task : OwnName(u)' <=> OwnName(u)
  BY DEF OwnName, name
<1> QED BY <1>1, <1>2 DEF OwnInv

(* So does a step that does not copy either. *)
LEMMA QuietStep ==
  ASSUME OwnInv, CompleteInv', NEW t \in Task, UNCHANGED <<request, disk, built, saved>>,
         \A u \in Task \ {t} : pc'[u] = pc[u] /\ todo'[u] = todo[u] /\ sectionList'[u] = sectionList[u],
         pc[t] # "write"
  PROVE  OwnInv'
<1>1. disk = "good" /\ OwnName(t) => \A f \in Format : saved'[t][f] \in {t, Nil}
  BY DEF OwnInv, FileOK
<1> QED BY <1>1, NoFileStep DEF OwnInv

(* An output of its own is opened while nobody has it open. *)
LEMMA OpenOwn ==
  ASSUME OwnInv, CompleteInv', NEW t \in Task, OpenOutput(t)
  PROVE  OwnInv'
<1>1. name(t) \in Names /\ format(t) \in Format /\ pc[t] = "build"
  BY NameAndFormat DEF OpenOutput, OwnInv
<1>2. CASE InParts(t)
  BY <1>1, <1>2, QuietStep DEF OpenOutput, OwnInv, CompleteInv
<1>3. CASE ~ InParts(t)
  <2> DEFINE b == built[name(t)][format(t)]
             new == [content |-> IF b.writers = {} THEN "partial" ELSE "mixed",
                     writers |-> b.writers \cup {t}]
  <2>1. built' = [built EXCEPT ![name(t)][format(t)] = new] /\ pc' = [pc EXCEPT ![t] = "write"]
    BY <1>3 DEF OpenOutput
  <2>2. new \in [content : Task \cup {Nil, "partial", "mixed"}, writers : SUBSET Task]
    BY <1>1 DEF OwnInv
  <2>3. built' \in [Names -> [Format -> [content : Task \cup {Nil, "partial", "mixed"}, writers : SUBSET Task]]]
    <3> HIDE DEF new
    <3> QED BY <1>1, <2>1, <2>2 DEF OwnInv
  <2>4. \A u \in Task : OwnName(u)' <=> OwnName(u)
    BY DEF OpenOutput, OwnName, name
  <2>5. ASSUME disk = "good", NEW u \in Task \ {t}, OwnName(u), NEW f \in Format PROVE FileOK(u, f)'
    <3>1. name(u) # name(t) /\ name(u) \in Names
      BY <2>5, NameAndFormat DEF OwnName, OwnInv
    <3>2. built'[name(u)] = built[name(u)]
      BY <1>1, <2>1, <3>1 DEF OwnInv
    <3> QED BY <2>1, <2>5, <3>2, OthersFiles DEF OpenOutput, OwnInv, CompleteInv
  <2>6. ASSUME disk = "good", OwnName(t), NEW f \in Format PROVE FileOK(t, f)'
    <3>1. FileOK(t, f) /\ FileOK(t, format(t))
      BY <1>1, <2>6 DEF OwnInv
    <3>2. b.writers = {}
      BY <1>1, <3>1 DEF FileOK
    <3>3. /\ name(t)' = name(t) /\ format(t)' = format(t) /\ InParts(t)' = InParts(t)
          /\ pc'[t] = "write" /\ saved' = saved
      BY <2>1 DEF OpenOutput, name, format, InParts, OwnInv, CompleteInv
    <3>4. CASE f = format(t)
      <4>1. built'[name(t)][f] = [content |-> "partial", writers |-> {t}]
        BY <1>1, <2>1, <3>2, <3>4 DEF OwnInv
      <4> QED BY <1>3, <3>1, <3>3, <3>4, <4>1 DEF FileOK
    <3>5. CASE f # format(t)
      <4>1. built'[name(t)][f] = built[name(t)][f]
        BY <1>1, <2>1, <3>5 DEF OwnInv
      <4>2. t \notin built[name(t)][f].writers
        BY <1>1, <3>1 DEF FileOK
      <4> QED BY <3>1, <3>3, <4>1, <4>2 DEF FileOK
    <3> QED BY <3>4, <3>5
  <2> QED BY <2>3, <2>4, <2>5, <2>6 DEF OpenOutput, OwnInv
<1> QED BY <1>2, <1>3

(* What a task makes of its file when it closes it. *)
LEMMA CloseTypes ==
  ASSUME OwnInv, NEW t \in Task, pc[t] = "write", NEW whole \in BOOLEAN, CloseFile(t, whole)
  PROVE  /\ built' \in [Names -> [Format -> [content : Task \cup {Nil, "partial", "mixed"}, writers : SUBSET Task]]]
         /\ \A n \in Names \ {name(t)} : built'[n] = built[n]
         /\ \A f \in Format \ {format(t)} : built'[name(t)][f] = built[name(t)][f]
         /\ LET b == built[name(t)][format(t)] IN
              built'[name(t)][format(t)] =
                IF t \notin b.writers THEN b
                ELSE [content |-> IF b.content = "partial" /\ whole THEN t ELSE b.content,
                      writers |-> b.writers \ {t}]
<1> DEFINE b == built[name(t)][format(t)]
           new == IF t \notin b.writers THEN b
                  ELSE [content |-> IF b.content = "partial" /\ whole THEN t ELSE b.content,
                        writers |-> b.writers \ {t}]
<1>1. name(t) \in Names /\ format(t) \in Format
  BY NameAndFormat DEF OwnInv
<1>2. new \in [content : Task \cup {Nil, "partial", "mixed"}, writers : SUBSET Task]
  BY <1>1 DEF OwnInv
<1>3. built' = [built EXCEPT ![name(t)][format(t)] = new]
  BY DEF CloseFile
<1> HIDE DEF new
<1>4. /\ built' \in [Names -> [Format -> [content : Task \cup {Nil, "partial", "mixed"}, writers : SUBSET Task]]]
      /\ \A n \in Names \ {name(t)} : built'[n] = built[n]
      /\ \A f \in Format \ {format(t)} : built'[name(t)][f] = built[name(t)][f]
      /\ built'[name(t)][format(t)] = new
  BY <1>1, <1>2, <1>3 DEF OwnInv
<1> QED BY <1>4 DEF new

(* A file of its own is whole when it is closed, unless it was removed.    *)
LEMMA CloseOwn ==
  ASSUME OwnInv, CompleteInv', NEW t \in Task, CloseOutput(t)
  PROVE  OwnInv'
<1>1. /\ name(t) \in Names /\ format(t) \in Format /\ pc[t] = "write"
      /\ pc' = [pc EXCEPT ![t] = "stat"]
  BY NameAndFormat DEF CloseOutput, OwnInv
<1>2. \A u \in Task : OwnName(u)' <=> OwnName(u)
  BY DEF CloseOutput, OwnName, name
<1>3. /\ built' \in [Names -> [Format -> [content : Task \cup {Nil, "partial", "mixed"}, writers : SUBSET Task]]]
      /\ \A n \in Names \ {name(t)} : built'[n] = built[n]
      /\ \A f \in Format \ {format(t)} : built'[name(t)][f] = built[name(t)][f]
  BY <1>1, CloseTypes DEF CloseOutput, OwnInv
<1>4. ASSUME disk = "good", NEW u \in Task \ {t}, OwnName(u), NEW f \in Format PROVE FileOK(u, f)'
  <2>1. built'[name(u)] = built[name(u)]
    BY <1>3, <1>4, NameAndFormat DEF OwnName, OwnInv
  <2> QED BY <1>4, <2>1, OthersFiles DEF CloseOutput, OwnInv, CompleteInv
<1>5. ASSUME disk = "good", OwnName(t), NEW f \in Format PROVE FileOK(t, f)'
  <2>1. FileOK(t, f)
    BY <1>5 DEF OwnInv
  <2>2. /\ name(t)' = name(t) /\ saved' = saved
    BY DEF CloseOutput, name
  <2>3. CASE t \notin built[name(t)][f].writers
    <3>1. built'[name(t)][f] = built[name(t)][f]
      BY <1>1, <1>3, <2>3, CloseTypes DEF CloseOutput
    <3> QED BY <2>1, <2>2, <2>3, <3>1 DEF FileOK
  <2>4. CASE t \in built[name(t)][f].writers
    <3>1. f = format(t) /\ ~ InParts(t)
      BY <2>1, <2>4 DEF FileOK
    <3>2. CloseFile(t, TRUE)
      BY <3>1 DEF CloseOutput
    <3>3. built'[name(t)][f] =
            [content |-> IF built[name(t)][f].content = "partial" THEN t ELSE built[name(t)][f].content,
             writers |-> built[name(t)][f].writers \ {t}]
      BY <1>1, <2>4, <3>1, <3>2, CloseTypes
    <3>4. built'[name(t)][f].writers = {} /\ built'[name(t)][f].content \in {Nil, t}
      BY <2>1, <3>3 DEF FileOK
    <3> QED BY <2>1, <2>2, <3>4, NilAssumption DEF FileOK
  <2> QED BY <2>3, <2>4
<1> QED BY <1>2, <1>3, <1>4, <1>5 DEF CloseOutput, OwnInv

(* On a full disk nothing is claimed. *)
LEMMA WriteFailsOwn ==
  ASSUME OwnInv, CompleteInv', NEW t \in Task, WriteFails(t)
  PROVE  OwnInv'
<1>1. built' \in [Names -> [Format -> [content : Task \cup {Nil, "partial", "mixed"}, writers : SUBSET Task]]]
  BY CloseTypes DEF WriteFails, OwnInv
<1> QED BY <1>1 DEF WriteFails, OwnInv

(* A copy is made of a whole file. *)
LEMMA CopyOwn ==
  ASSUME OwnInv, CompleteInv', NEW t \in Task, CopyFile(t)
  PROVE  OwnInv'
<1>1. name(t) \in Names /\ format(t) \in Format /\ pc[t] = "save"
  BY NameAndFormat DEF CopyFile, OwnInv
<1> DEFINE c == built[name(t)][format(t)].content
<1>2. c \in Task \cup {Nil, "partial", "mixed"}
  BY <1>1 DEF OwnInv
<1>3. saved' = [saved EXCEPT ![t][format(t)] = c]
  BY DEF CopyFile
<1>4. disk = "good" /\ OwnName(t) => c \in {t, Nil}
  BY <1>1 DEF OwnInv, FileOK
<1> HIDE DEF c
<1>5. /\ saved' \in [Task -> [Format -> Task \cup {Nil, "partial", "mixed"}]]
      /\ \A u \in Task \ {t} : saved'[u] = saved[u]
  BY <1>1, <1>2, <1>3 DEF OwnInv
<1>6. disk = "good" /\ OwnName(t) => \A f \in Format : saved'[t][f] \in {t, Nil}
  BY <1>1, <1>3, <1>4 DEF OwnInv, FileOK
<1> QED BY <1>1, <1>5, <1>6, NoFileStep DEF CopyFile, OwnInv, CompleteInv, QueuesOK

(* A cleanup removes the files of its task, and no file that another task  *)
(* has under a name of its own.                                            *)
LEMMA CleanupOwn ==
  ASSUME OwnInv, CompleteInv', NEW t \in Task, CleanupTask(t)
  PROVE  OwnInv'
<1>1. \A u \in Task : OwnName(u)' <=> OwnName(u)
  BY DEF CleanupTask, OwnName, name
<1>2. \A n \in Names : built'[n] = built[n] \/ (n = t /\ name(t) = t /\ built'[n] = [f \in Format |-> NoFile])
  BY DEF CleanupTask, OwnInv
<1>3. built' \in [Names -> [Format -> [content : Task \cup {Nil, "partial", "mixed"}, writers : SUBSET Task]]]
  BY DEF CleanupTask, OwnInv, NoFile
<1>4. saved' \in [Task -> [Format -> Task \cup {Nil, "partial", "mixed"}]]
  BY DEF CleanupTask, OwnInv
<1>5. ASSUME disk = "good", NEW u \in Task \ {t}, OwnName(u), NEW f \in Format PROVE FileOK(u, f)'
  <2>1. built'[name(u)] = built[name(u)]
    BY <1>2, <1>5, NameAndFormat DEF OwnName, OwnInv
  <2>2. pc'[u] = pc[u] /\ saved'[u] = saved[u]
    BY DEF CleanupTask, RemoveTask, OwnInv, CompleteInv
  <2> QED BY <1>5, <2>1, <2>2, OthersFiles DEF CleanupTask, OwnInv
<1>6. ASSUME disk = "good", OwnName(t), NEW f \in Format PROVE FileOK(t, f)'
  <2>1. FileOK(t, f)
    BY <1>6 DEF OwnInv
  <2>2. name(t)' = name(t) /\ format(t)' = format(t) /\ InParts(t)' = InParts(t) /\ saved'[t][f] = Nil
    BY DEF CleanupTask, name, format, InParts, OwnInv
  <2>3. pc[t] = "write" => pc'[t] = "write"
    BY DEF CleanupTask, RemoveTask
  <2>4. name(t) \in Names
    BY NameAndFormat DEF OwnInv
  <2>5. \/ built'[name(t)][f] = built[name(t)][f]
        \/ built'[name(t)][f].content = Nil /\ built'[name(t)][f].writers = {}
    BY <1>2, <2>4 DEF NoFile
  <2> QED BY <2>1, <2>2, <2>3, <2>5, NilAssumption DEF FileOK
<1> QED BY <1>1, <1>3, <1>4, <1>5, <1>6 DEF CleanupTask, OwnInv

(* Every step keeps the files. *)
LEMMA OwnStep == OwnInv /\ [Next]_vars => OwnInv'
<1> SUFFICES ASSUME OwnInv, [Next]_vars PROVE OwnInv'
  OBVIOUS
<1>1. CompleteInv'
  BY CompleteStep DEF OwnInv
<1>2. ASSUME NEW t \in Task, Convert(t) PROVE OwnInv'
  <2>1. CASE ParseText(t) \/ Collect(t) \/ Complete(t)
    <3>1. UNCHANGED <<request, disk, built, saved>> /\ pc[t] # "write"
      BY <2>1 DEF ParseText, Collect, Complete, outputs
    <3>2. /\ \E x : pc' = [pc EXCEPT ![t] = x]
          /\ todo' = todo \/ \E x : todo' = [todo EXCEPT ![t] = x]
      BY <2>1 DEF ParseText, Collect, Fail, Complete
    <3>3. sectionList' = sectionList \/ \E x : sectionList' = [sectionList EXCEPT ![t] = x]
      BY <2>1 DEF ParseText, Collect, Complete
    <3>4. \A u \in Task \ {t} : pc'[u] = pc[u] /\ todo'[u] = todo[u] /\ sectionList'[u] = sectionList[u]
      BY <3>2, <3>3 DEF OwnInv, CompleteInv, QueuesOK
    <3> QED BY <1>1, <3>1, <3>4, QuietStep
  <2>2. CASE OpenOutput(t)
    BY <1>1, <2>2, OpenOwn
  <2>3. CASE OpenFails(t)
    BY <1>1, <2>3 DEF OpenFails, outputs, OwnInv
  <2>4. CASE CloseOutput(t)
    BY <1>1, <2>4, CloseOwn
  <2>5. CASE WriteFails(t)
    BY <1>1, <2>5, WriteFailsOwn
  <2>6. CASE CopyFile(t)
    BY <1>1, <2>6, CopyOwn
  <2>7. CASE CopyFails(t)
    <3>1. CASE UNCHANGED saved
      BY <1>1, <2>7, <3>1, NoFileStep DEF CopyFails, Fail, OwnInv, CompleteInv, FileOK
    <3>2. CASE disk = "full" /\ saved' = [saved EXCEPT ![t][format(t)] = "partial"]
      <4>1. format(t) \in Format
        BY <2>7, NameAndFormat DEF CopyFails, OwnInv
      <4> QED BY <1>1, <2>7, <3>2, <4>1 DEF CopyFails, OwnInv
    <3> QED BY <2>7, <3>1, <3>2 DEF CopyFails
  <2> QED BY <1>2, <2>1, <2>2, <2>3, <2>4, <2>5, <2>6, <2>7 DEF Convert
<1>3. ASSUME NEW t \in Task, CleanupTask(t) PROVE OwnInv'
  BY <1>1, <1>3, CleanupOwn
<1>4. CASE UNCHANGED vars
  BY <1>1, <1>4 DEF vars, outputs, OwnInv, OwnName, FileOK, InParts, name, format
<1> QED BY <1>2, <1>3, <1>4 DEF Next

(* On a disk with room, what a client downloads of a task is its own book  *)
(* in full, for any tasks, texts and cleanups, if no other task builds a   *)
(* book of that name.                                                      *)
THEOREM SavedBooksAreOwn == Spec => []SavedIsOwnBook
<1>1. OwnInv => SavedIsOwnBook
  BY DEF OwnInv, OwnName, FileOK, SavedIsOwnBook, DownloadFile
<1> QED BY <1>1, OwnInit, OwnStep, PTL DEF Spec

-----------------------------------------------------------------------------
(* A set of naturals has a least member. *)
LEMMA Least ==
  ASSUME NEW T, T \subseteq Nat, T # {}
  PROVE  \E n \in T : \A m \in T : n <= m
<1>1. PICK n \in T : \A m \in T : ~ (<<m, n>> \in OpToRel(<, Nat))
  BY NatLessThanWellFounded, WFMin
<1>2. \A m \in T : ~ (m < n)
  BY <1>1 DEF OpToRel
<1> QED BY <1>2

(* A set that has 0 and with each number the next has all up to n.         *)
LEMMA Reaches ==
  ASSUME NEW n \in Nat, NEW G, 0 \in G, \A i \in 1..n : i - 1 \in G => i \in G
  PROVE  n \in G
<1> DEFINE Bad == (0..n) \ G
<1>1. ASSUME Bad # {} PROVE FALSE
  <2>1. Bad \subseteq Nat
    OBVIOUS
  <2> HIDE DEF Bad
  <2>2. PICK i \in Bad : \A j \in Bad : i <= j
    BY <1>1, <2>1, Least
  <2>3. i \in 1..n /\ i \notin G
    BY <2>2 DEF Bad
  <2>4. i - 1 \in 0..n /\ ~ (i <= i - 1)
    BY ONLY <2>3, n \in Nat
  <2>5. i - 1 \notin Bad
    BY ONLY <2>2, <2>4
  <2> QED BY <2>3, <2>4, <2>5 DEF Bad
<1> QED BY <1>1

-----------------------------------------------------------------------------
(* The list that a text is cut into *)

FlatSection == [title : Int, content : Seq(Int), sections : {<<>>}]

\* the text of a section s is in order, and stands between s.title and the
\* next title
Between(book, s) ==
  /\ InOrder(s)
  /\ \A n \in DOMAIN s.content :
       /\ s.content[n] \in DOMAIN book.text \ Titles(book)
       /\ book.text[s.content[n]] # "blank"
       /\ \A i \in Titles(book) : i <= s.content[n] => i <= s.title

\* all of s comes before line e
Precedes(s, e) == s.title < e /\ \A n \in DOMAIN s.content : s.content[n] < e

IsFlat(book, q) ==
  /\ q \in Seq(FlatSection)
  /\ \A k \in DOMAIN q :
       /\ q[k].title \in Titles(book) \cup {UnknowTitle, NoTitle}
       /\ k > 1 => q[k].title > 0
       /\ ~ IsLost(book, q[k].title)
       /\ Between(book, q[k])
       /\ \A l \in 1 .. k - 1 : Precedes(q[l], q[k].title)

\* q has every line before e
Covers(book, q, e) ==
  \A i \in DOMAIN book.text :
    i < e /\ book.text[i] # "blank" /\ ~ IsLost(book, i) => \E k \in DOMAIN q : i \in LinesOf(q[k])

CutOK(book, r, i) ==
  /\ r \in [title : Int, content : Seq(Int), list : Seq(FlatSection)]
  /\ r.title \in Titles(book) \cup {NoTitle} /\ r.title <= i
  /\ Between(book, Section(r.title, r.content))
  /\ \A n \in DOMAIN r.content : r.content[n] <= i
  /\ \A j \in DOMAIN book.text :
       r.title < j /\ j <= i /\ book.text[j] # "blank" => j \in ToSet(r.content)
  /\ \A j \in Titles(book) : j <= i => j <= r.title
  /\ r.title = NoTitle => r.list = <<>>
  /\ IsFlat(book, r.list)
  /\ \A k \in DOMAIN r.list : Precedes(r.list[k], r.title)
  /\ Covers(book, r.list, r.title)

CutStart == [title |-> NoTitle, content |-> <<>>, list |-> <<>>]

(* The recursion of Cut over the lines defines a function. *)
LEMMA CutExists ==
  ASSUME NEW text \in Seq(Line), NEW terminated
  PROVE  \E f : f = [i \in 0..Len(text) |->
                       IF i = 0 THEN CutStart ELSE ReadLine(text, terminated, f[i - 1], i)]
<1> DEFINE IsRead(f, m) == f = [i \in 0..m |-> IF i = 0 THEN CutStart
                                               ELSE ReadLine(text, terminated, f[i - 1], i)]
           G == {m \in 0..Len(text) : \E f : IsRead(f, m)}
<1>1. 0 \in G
  <2> DEFINE f == [i \in 0..0 |-> CutStart]
  <2>1. IsRead(f, 0)
    OBVIOUS
  <2> HIDE DEF f
  <2>2. 0 \in 0..Len(text)
    OBVIOUS
  <2> QED BY <2>1, <2>2
<1>2. ASSUME NEW m \in 1..Len(text), m - 1 \in G PROVE m \in G
  <2>1. PICK f : IsRead(f, m - 1)
    BY <1>2
  <2> DEFINE g == [i \in 0..m |-> IF i = m THEN ReadLine(text, terminated, f[m - 1], m) ELSE f[i]]
  <2>2. \A i \in 0 .. m - 1 : g[i] = f[i] /\ i # m
    OBVIOUS
  <2>3. \A i \in 0..m : g[i] = IF i = 0 THEN CutStart ELSE ReadLine(text, terminated, g[i - 1], i)
    <3> TAKE i \in 0..m
    <3>1. CASE i = m
      BY <2>2, <3>1
    <3>2. CASE i # m
      <4>1. i \in 0 .. m - 1 /\ (i # 0 => i - 1 \in 0 .. m - 1)
        BY <3>2
      <4>2. f[i] = IF i = 0 THEN CutStart ELSE ReadLine(text, terminated, f[i - 1], i)
        BY <2>1, <4>1
      <4> QED BY <2>2, <4>1, <4>2
    <3> QED BY <3>1, <3>2
  <2>4. IsRead(g, m)
    <3>1. g = [i \in 0..m |-> g[i]]
      OBVIOUS
    <3> HIDE DEF g
    <3> QED BY <2>3, <3>1
  <2> HIDE DEF g
  <2> QED BY <2>4
<1> HIDE DEF G
<1>3. Len(text) \in G
  BY <1>1, <1>2, Reaches
<1> QED BY <1>3 DEF G

(* What appending does to length, members and places. *)
LEMMA Appending ==
  ASSUME NEW X, NEW q \in Seq(X), NEW s \in X
  PROVE  /\ Append(q, s) \in Seq(X)
         /\ Len(q) \in Nat
         /\ DOMAIN q = 1..Len(q)
         /\ DOMAIN Append(q, s) = 1 .. Len(q) + 1
         /\ Append(q, s)[Len(q) + 1] = s
         /\ \A i \in 1..Len(q) : Append(q, s)[i] = q[i]
OBVIOUS

(* Titles are lines that are not blank, and no line is NoTitle or          *)
(* UnknowTitle.                                                            *)
LEMMA LinesAre ==
  ASSUME NEW book, book.text \in Seq(Line)
  PROVE  /\ Len(book.text) \in Nat
         /\ DOMAIN book.text = 1..Len(book.text)
         /\ Titles(book) \subseteq DOMAIN book.text
         /\ \A i \in Titles(book) : book.text[i] # "blank"
         /\ ~ IsLost(book, NoTitle) /\ ~ IsLost(book, UnknowTitle)
<1>1. Len(book.text) \in Nat /\ DOMAIN book.text = 1..Len(book.text)
  OBVIOUS
<1>2. Titles(book) \subseteq DOMAIN book.text
  BY DEF Titles
<1>3. \A i \in Titles(book) : book.text[i] # "blank"
  BY DEF Titles, IsTitle, IsVolume, IsChapter
<1>4. NoTitle \notin Titles(book) /\ UnknowTitle \notin Titles(book)
  BY <1>1, <1>2 DEF NoTitle, UnknowTitle
<1> QED BY <1>1, <1>2, <1>3, <1>4 DEF IsLost

(* The loop invariant holds before the first line. *)
LEMMA CutStartOK ==
  ASSUME NEW book, book.text \in Seq(Line)
  PROVE  CutOK(book, CutStart, 0)
<1> DEFINE r == CutStart
<1>1. r.title = NoTitle /\ r.content = <<>> /\ r.list = <<>> /\ NoTitle \in Int /\ NoTitle <= 0
  BY DEF CutStart, NoTitle
<1>2. /\ r.content \in Seq(Int) /\ r.list \in Seq(FlatSection)
      /\ DOMAIN r.content = {} /\ DOMAIN r.list = {}
  BY <1>1
<1>3. Section(r.title, r.content).content = r.content
  BY DEF Section
<1>4. Between(book, Section(r.title, r.content))
  BY <1>2, <1>3 DEF Between, InOrder
<1>5. IsFlat(book, r.list)
  BY <1>2 DEF IsFlat
<1>6. \A j \in DOMAIN book.text : ~ (j <= 0)
  BY LinesAre
<1>7. Covers(book, r.list, r.title)
  <2>1. \A j \in DOMAIN book.text : ~ (j < r.title)
    BY <1>1, LinesAre DEF NoTitle
  <2> QED BY <2>1 DEF Covers
<1>8. \A j \in Titles(book) : ~ (j <= 0)
  BY <1>6, LinesAre
<1> HIDE DEF r
<1>9. r \in [title : Int, content : Seq(Int), list : Seq(FlatSection)]
  BY <1>1, <1>2 DEF r, CutStart
<1>10. CutOK(book, r, 0)
  BY <1>9, <1>1, <1>2, <1>4, <1>5, <1>6, <1>7, <1>8 DEF CutOK
<1> QED BY <1>10 DEF r

(* A line of text goes to the content. *)
LEMMA TextComes ==
  ASSUME NEW book, book.text \in Seq(Line), NEW i \in 1..Len(book.text), NEW r,
         CutOK(book, r, i - 1), book.text[i] # "blank", i \notin Titles(book)
  PROVE  CutOK(book, [r EXCEPT !.content = Append(@, i)], i)
<1> DEFINE s == [r EXCEPT !.content = Append(@, i)]
           c == Append(r.content, i)
<1>1. /\ r \in [title : Int, content : Seq(Int), list : Seq(FlatSection)]
      /\ s \in [title : Int, content : Seq(Int), list : Seq(FlatSection)]
      /\ s.title = r.title /\ s.list = r.list /\ s.content = c
  <2>1. r \in [title : Int, content : Seq(Int), list : Seq(FlatSection)] /\ i \in Int
    BY DEF CutOK
  <2>2. r.content \in Seq(Int)
    BY <2>1
  <2>3. c \in Seq(Int)
    BY <2>1, <2>2, Appending
  <2> HIDE DEF c
  <2>4. s = [r EXCEPT !.content = c]
    BY DEF c
  <2> HIDE DEF s
  <2> QED BY <2>1, <2>3, <2>4
<1>2. /\ Len(r.content) \in Nat /\ DOMAIN r.content = 1..Len(r.content)
      /\ DOMAIN c = 1 .. Len(r.content) + 1
      /\ c[Len(r.content) + 1] = i
      /\ \A n \in 1..Len(r.content) : c[n] = r.content[n]
  <2>1. i \in Int /\ r.content \in Seq(Int)
    BY <1>1
  <2> QED BY <2>1, Appending
<1> HIDE DEF s, c
<1>3. r.title <= i - 1 /\ r.title \in Int
  BY <1>1 DEF CutOK
<1>4. \A n \in DOMAIN r.content : r.content[n] <= i - 1 /\ r.content[n] \in Int
  BY <1>1, <1>2 DEF CutOK
<1>5. Between(book, Section(s.title, s.content))
  <2>1. InOrder(Section(s.title, s.content))
    <3> SUFFICES ASSUME NEW n \in DOMAIN c
                 PROVE  s.title < c[n] /\ \A m \in 1 .. n - 1 : c[m] < c[n]
      BY <1>1 DEF InOrder, Section
    <3>1. InOrder(Section(r.title, r.content))
      BY DEF CutOK, Between
    <3>2. \A l \in DOMAIN r.content :
            r.title < r.content[l] /\ \A m \in 1 .. l - 1 : r.content[m] < r.content[l]
      BY <3>1 DEF InOrder, Section
    <3>3. CASE n \in DOMAIN r.content
      <4>1. c[n] = r.content[n] /\ \A m \in 1 .. n - 1 : m \in DOMAIN r.content /\ c[m] = r.content[m]
        BY <1>2, <3>3
      <4> QED BY <1>1, <3>2, <3>3, <4>1
    <3>4. CASE n = Len(r.content) + 1
      <4>1. c[n] = i /\ r.title < i
        BY <1>2, <1>3, <3>4
      <4>2. ASSUME NEW m \in 1 .. n - 1 PROVE c[m] < i
        <5>1. m \in DOMAIN r.content
          BY <1>2, <3>4
        <5> QED BY <1>2, <1>4, <5>1
      <4> QED BY <1>1, <4>1, <4>2
    <3> QED BY <1>2, <3>3, <3>4
  <2>2. ASSUME NEW n \in DOMAIN c
        PROVE  /\ c[n] \in DOMAIN book.text \ Titles(book)
               /\ book.text[c[n]] # "blank"
               /\ \A j \in Titles(book) : j <= c[n] => j <= s.title
    <3>1. CASE n \in DOMAIN r.content
      <4>1. Between(book, Section(r.title, r.content))
        BY DEF CutOK
      <4> QED BY <1>1, <1>2, <3>1, <4>1 DEF Between, Section
    <3>2. CASE n = Len(r.content) + 1
      <4>1. c[n] = i /\ i \in DOMAIN book.text
        BY <1>2, <3>2, LinesAre
      <4>2. ASSUME NEW j \in Titles(book), j <= i PROVE j <= r.title
        <5>1. j \in Int /\ j # i
          BY LinesAre
        <5>2. j <= i - 1
          BY <4>2, <5>1
        <5> QED BY <5>2 DEF CutOK
      <4> QED BY <1>1, <4>1, <4>2
    <3> QED BY <1>2, <3>1, <3>2
  <2> DEFINE z == Section(s.title, s.content)
  <2>3. z.title = s.title /\ z.content = c
    BY <1>1 DEF Section
  <2> HIDE DEF z
  <2>4. InOrder(z)
    BY <2>1 DEF z
  <2>5. Between(book, z)
    BY <2>2, <2>3, <2>4 DEF Between
  <2> QED BY <2>5 DEF z
<1>6. \A n \in DOMAIN c : c[n] <= i
  BY <1>2, <1>4
<1>7. ASSUME NEW j \in DOMAIN book.text, r.title < j, j <= i, book.text[j] # "blank"
      PROVE  j \in ToSet(c)
  <2>1. CASE j = i
    BY <1>2, <2>1 DEF ToSet
  <2>2. CASE j # i
    <3>1. j <= i - 1
      BY <1>7, <2>2, LinesAre
    <3>2. j \in ToSet(r.content)
      BY <1>7, <3>1 DEF CutOK
    <3>3. PICK n \in DOMAIN r.content : r.content[n] = j
      BY <3>2 DEF ToSet
    <3>4. n \in DOMAIN c /\ c[n] = j
      BY <1>2, <3>3
    <3> QED BY <3>4 DEF ToSet
  <2> QED BY <2>1, <2>2
<1>8. \A j \in Titles(book) : j <= i => j <= r.title
  <2> TAKE j \in Titles(book)
  <2>1. j \in Int /\ j # i
    BY LinesAre
  <2>2. j <= i - 1 => j <= r.title
    BY DEF CutOK
  <2> QED BY <2>1, <2>2
<1>9. r.title <= i
  BY <1>3
<1>10. CutOK(book, s, i)
  BY <1>1, <1>5, <1>6, <1>7, <1>8, <1>9 DEF CutOK
<1> QED BY <1>10 DEF s

(* A blank line changes nothing. *)
LEMMA BlankComes ==
  ASSUME NEW book, book.text \in Seq(Line), NEW i \in 1..Len(book.text), NEW r,
         CutOK(book, r, i - 1), book.text[i] = "blank"
  PROVE  CutOK(book, r, i)
<1>1. r \in [title : Int, content : Seq(Int), list : Seq(FlatSection)]
  BY DEF CutOK
<1>2. r.title <= i
  BY <1>1 DEF CutOK
<1>3. \A n \in DOMAIN r.content : r.content[n] <= i
  <2> TAKE n \in DOMAIN r.content
  <2>1. r.content[n] \in Int
    BY <1>1
  <2>2. r.content[n] <= i - 1
    BY DEF CutOK
  <2> QED BY <2>1, <2>2
<1>4. ASSUME NEW j \in DOMAIN book.text, r.title < j, j <= i, book.text[j] # "blank"
      PROVE  j \in ToSet(r.content)
  <2>1. j # i /\ j <= i - 1
    BY <1>4, LinesAre
  <2> QED BY <1>4, <2>1 DEF CutOK
<1>5. ASSUME NEW j \in Titles(book), j <= i PROVE j <= r.title
  <2>1. j # i /\ j <= i - 1
    BY <1>5, LinesAre
  <2> QED BY <2>1 DEF CutOK
<1> QED BY <1>1, <1>2, <1>3, <1>4, <1>5 DEF CutOK

(* A section after the others *)

Follows(book, q, z) ==
  /\ z \in FlatSection
  /\ z.title \in Titles(book) \cup {UnknowTitle, NoTitle}
  /\ q # <<>> => z.title > 0
  /\ ~ IsLost(book, z.title)
  /\ Between(book, z)
  /\ \A k \in DOMAIN q : Precedes(q[k], z.title)

(* A section that follows a list of sections can be put at its end. *)
LEMMA FlatAppend ==
  ASSUME NEW book, NEW q, IsFlat(book, q), NEW z, Follows(book, q, z)
  PROVE  IsFlat(book, Append(q, z))
<1> DEFINE p == Append(q, z)
<1>1. q \in Seq(FlatSection) /\ z \in FlatSection
  BY DEF IsFlat, Follows
<1>2. /\ p \in Seq(FlatSection)
      /\ Len(q) \in Nat /\ DOMAIN q = 1..Len(q) /\ DOMAIN p = 1 .. Len(q) + 1
      /\ p[Len(q) + 1] = z
      /\ \A k \in 1..Len(q) : p[k] = q[k]
  BY <1>1, Appending
<1> HIDE DEF p
<1>3. ASSUME NEW k \in DOMAIN p
      PROVE  /\ p[k].title \in Titles(book) \cup {UnknowTitle, NoTitle}
             /\ k > 1 => p[k].title > 0
             /\ ~ IsLost(book, p[k].title)
             /\ Between(book, p[k])
             /\ \A l \in 1 .. k - 1 : Precedes(p[l], p[k].title)
  <2>1. CASE k \in DOMAIN q
    <3>1. p[k] = q[k] /\ \A l \in 1 .. k - 1 : p[l] = q[l]
      BY <1>2, <2>1
    <3> QED BY <2>1, <3>1 DEF IsFlat
  <2>2. CASE k = Len(q) + 1
    <3>1. p[k] = z /\ \A l \in 1 .. k - 1 : l \in DOMAIN q /\ p[l] = q[l]
      BY <1>2, <2>2
    <3>2. k > 1 => q # <<>>
      BY <1>2, <2>2
    <3> QED BY <3>1, <3>2 DEF Follows
  <2> QED BY <1>2, <2>1, <2>2
<1>4. IsFlat(book, p)
  BY <1>2, <1>3 DEF IsFlat
<1> QED BY <1>4 DEF p

(* A list with the lines before t, and a section with those from t on, have*)
(* all.                                                                    *)
LEMMA CoversAppend ==
  ASSUME NEW book, book.text \in Seq(Line), NEW q \in Seq(FlatSection), NEW z \in FlatSection,
         NEW t \in Int, Covers(book, q, t), NEW e \in Int,
         \A i \in DOMAIN book.text :
           t <= i /\ i < e /\ book.text[i] # "blank" /\ ~ IsLost(book, i) => i \in LinesOf(z)
  PROVE  Covers(book, Append(q, z), e)
<1> DEFINE p == Append(q, z)
<1>1. /\ DOMAIN q = 1..Len(q) /\ DOMAIN p = 1 .. Len(q) + 1 /\ Len(q) \in Nat
      /\ p[Len(q) + 1] = z
      /\ \A k \in 1..Len(q) : p[k] = q[k]
  BY Appending
<1> HIDE DEF p
<1>2. ASSUME NEW i \in DOMAIN book.text, i < e, book.text[i] # "blank", ~ IsLost(book, i)
      PROVE  \E k \in DOMAIN p : i \in LinesOf(p[k])
  <2>1. i \in Int
    BY LinesAre
  <2>2. CASE i < t
    <3>1. PICK k \in DOMAIN q : i \in LinesOf(q[k])
      BY <1>2, <2>2 DEF Covers
    <3>2. k \in DOMAIN p /\ p[k] = q[k]
      BY <1>1
    <3> QED BY <3>1, <3>2
  <2>3. CASE t <= i
    <3>1. i \in LinesOf(z)
      BY <1>2, <2>3
    <3>2. Len(q) + 1 \in DOMAIN p /\ p[Len(q) + 1] = z
      BY <1>1
    <3> QED BY <3>1, <3>2
  <2> QED BY <2>1, <2>2, <2>3
<1>3. Covers(book, p, e)
  BY <1>2 DEF Covers
<1> QED BY <1>3 DEF p

(* Section builds a section without sections. *)
LEMMA SectionIs ==
  ASSUME NEW title \in Int, NEW content \in Seq(Int)
  PROVE  /\ Section(title, content) \in FlatSection
         /\ Section(title, content).title = title
         /\ Section(title, content).content = content
         /\ Section(title, content).sections = <<>>
BY DEF Section, FlatSection

(* What a cut leaves when the list is as it should be. *)
LEMMA CutLeaves ==
  ASSUME NEW book, book.text \in Seq(Line), NEW i \in Titles(book), NEW q, IsFlat(book, q),
         \A k \in DOMAIN q : Precedes(q[k], i), Covers(book, q, i)
  PROVE  CutOK(book, [title |-> i, content |-> <<>>, list |-> q], i)
<1> DEFINE r == [title |-> i, content |-> <<>>, list |-> q]
<1>1. r.title = i /\ r.content = <<>> /\ r.list = q
  OBVIOUS
<1>2. i \in Int /\ i > 0 /\ i <= i /\ i # NoTitle
  BY LinesAre DEF NoTitle
<1>3. q \in Seq(FlatSection)
  BY DEF IsFlat
<1>4. r \in [title : Int, content : Seq(Int), list : Seq(FlatSection)]
  BY <1>2, <1>3
<1> HIDE DEF r
<1>5. DOMAIN r.content = {}
  BY <1>1
<1>6. Between(book, Section(r.title, r.content))
  <2>1. Section(r.title, r.content).content = r.content
    BY <1>4, SectionIs
  <2> QED BY <1>5, <2>1 DEF Between, InOrder
<1>7. \A j \in DOMAIN book.text : ~ (r.title < j /\ j <= i)
  BY <1>1, <1>2, LinesAre
<1>8. CutOK(book, r, i)
  BY <1>1, <1>2, <1>4, <1>5, <1>6, <1>7 DEF CutOK
<1> QED BY <1>8 DEF r

(* A title keeps the loop invariant: it closes the section that is open. *)
LEMMA TitleComes ==
  ASSUME NEW book, book.text \in Seq(Line), NEW i \in Titles(book), NEW r,
         CutOK(book, r, i - 1)
  PROVE  CutOK(book, CutAt(book.text, r, i), i)
<1> DEFINE title == IF r.title = NoTitle THEN UnknowTitle ELSE r.title
           unknown == title = UnknowTitle \/ book.text[title] = "unknown"
           z == Section(title, r.content)
           full == r.content # <<>> \/ ~ unknown
<1>1. /\ r.title \in Int /\ r.content \in Seq(Int) /\ r.list \in Seq(FlatSection)
      /\ i \in Int /\ r.title <= i - 1 /\ i \in DOMAIN book.text /\ i > 0
      /\ title \in Int /\ title < i
  BY LinesAre DEF CutOK, UnknowTitle, NoTitle
<1>2. z \in FlatSection /\ z.title = title /\ z.content = r.content
  BY <1>1, SectionIs
<1>3. /\ r.title = NoTitle => title = 0 /\ r.list = <<>>
      /\ r.title # NoTitle => title = r.title /\ r.title \in Titles(book) /\ title > 0
  BY LinesAre DEF CutOK, UnknowTitle
<1>4. Between(book, z)
  <2> DEFINE y == Section(r.title, r.content)
  <2>1. y.title = r.title /\ y.content = r.content
    BY <1>1, SectionIs
  <2>2. Between(book, y)
    BY DEF CutOK
  <2> HIDE DEF y, z, title
  <2>3. \A n \in DOMAIN r.content :
          /\ r.title < r.content[n]
          /\ \A m \in 1 .. n - 1 : r.content[m] < r.content[n]
          /\ r.content[n] \in DOMAIN book.text \ Titles(book)
          /\ book.text[r.content[n]] # "blank"
          /\ \A j \in Titles(book) : j <= r.content[n] => j <= r.title
    BY <2>1, <2>2 DEF Between, InOrder
  <2>4. \A n \in DOMAIN r.content :
          title < r.content[n] /\ \A j \in Titles(book) : j <= r.content[n] => j <= title
    <3> TAKE n \in DOMAIN r.content
    <3>1. r.content[n] \in Int /\ r.content[n] > 0
      BY <2>3, LinesAre
    <3>2. CASE r.title # NoTitle
      BY <1>3, <2>3, <3>2
    <3>3. CASE r.title = NoTitle
      <4>1. title = 0 /\ r.title < 0
        BY <1>3, <3>3 DEF NoTitle
      <4>2. \A j \in Titles(book) : ~ (j <= r.content[n])
        <5>1. \A j \in Titles(book) : j \in Int /\ j > 0
          BY LinesAre
        <5> QED BY <1>1, <2>3, <4>1, <5>1
      <4> QED BY <3>1, <4>1, <4>2
    <3> QED BY <3>2, <3>3
  <2> QED BY <1>2, <2>3, <2>4 DEF Between, InOrder
<1>5. CASE full
  <2>1. ~ IsLost(book, title)
    <3>1. CASE r.title = NoTitle
      BY <1>3, <3>1, LinesAre DEF UnknowTitle
    <3>2. CASE r.title # NoTitle /\ ~ unknown
      BY <3>2 DEF IsLost
    <3>3. CASE r.content # <<>>
      <4>1. 1 \in DOMAIN r.content
        BY <1>1, <3>3
      <4> DEFINE n == r.content[1]
      <4>2. /\ title < n /\ n \in DOMAIN book.text /\ book.text[n] # "blank"
            /\ \A j \in Titles(book) : j <= n => j <= title
        BY <1>2, <1>4, <4>1 DEF Between, InOrder
      <4> HIDE DEF n, title
      <4>3. n \in Int
        BY <4>2, LinesAre
      <4>4. ASSUME NEW j \in Titles(book), j > title PROVE \E k \in title + 1 .. j - 1 : book.text[k] # "blank"
        <5>1. j \in Int
          BY LinesAre
        <5>2. n < j
          BY <1>1, <4>2, <4>3, <4>4, <5>1
        <5>3. n \in title + 1 .. j - 1
          BY <1>1, <4>2, <4>3, <5>1, <5>2
        <5> QED BY <4>2, <5>3
      <4> QED BY <4>4 DEF IsLost
    <3> QED BY <1>5, <3>1, <3>2, <3>3
  <2>2. Follows(book, r.list, z)
    <3>1. title \in Titles(book) \cup {UnknowTitle, NoTitle}
      BY <1>3
    <3>2. r.list # <<>> => title > 0
      BY <1>3
    <3>3. \A k \in DOMAIN r.list : Precedes(r.list[k], title)
      <4>1. CASE r.title = NoTitle
        <5>1. DOMAIN r.list = {}
          BY <1>3, <4>1
        <5> QED BY <5>1
      <4>2. CASE r.title # NoTitle
        BY <1>3, <4>2 DEF CutOK
      <4> QED BY <4>1, <4>2
    <3> HIDE DEF title, z
    <3> QED BY <1>2, <1>4, <2>1, <3>1, <3>2, <3>3 DEF Follows
  <2> DEFINE q == Append(r.list, z)
  <2>3. IsFlat(book, q)
    BY <2>2, FlatAppend DEF CutOK
  <2>4. \A k \in DOMAIN q : Precedes(q[k], i)
    <3>1. /\ DOMAIN r.list = 1..Len(r.list) /\ Len(r.list) \in Nat /\ DOMAIN q = 1 .. Len(r.list) + 1
          /\ q[Len(r.list) + 1] = z
          /\ \A k \in 1..Len(r.list) : q[k] = r.list[k]
      BY <1>1, <1>2, Appending
    <3> HIDE DEF q, z, title
    <3>2. ASSUME NEW k \in DOMAIN r.list PROVE Precedes(r.list[k], i)
      <4>1. Precedes(r.list[k], r.title)
        BY DEF CutOK
      <4>2. r.list[k] \in FlatSection
        BY <1>1
      <4>3. /\ r.list[k].title \in Int
            /\ \A n \in DOMAIN r.list[k].content : r.list[k].content[n] \in Int
        BY <4>2 DEF FlatSection
      <4> QED BY <1>1, <4>1, <4>3 DEF Precedes
    <3>3. Precedes(z, i)
      <4>1. \A n \in DOMAIN r.content : r.content[n] <= i - 1 /\ r.content[n] \in Int
        BY <1>1 DEF CutOK
      <4> QED BY <1>1, <1>2, <4>1 DEF Precedes
    <3>4. ASSUME NEW k \in DOMAIN q PROVE Precedes(q[k], i)
      <4>1. k \in DOMAIN r.list \/ k = Len(r.list) + 1
        BY <3>1
      <4> QED BY <3>1, <3>2, <3>3, <4>1
    <3> QED BY <3>4
  <2>5. Covers(book, q, i)
    <3> HIDE DEF z, title
    <3>1. ASSUME NEW j \in DOMAIN book.text, r.title <= j, j < i, book.text[j] # "blank"
          PROVE  j \in LinesOf(z)
      <4>1. j \in Int /\ j > 0
        BY LinesAre
      <4>2. CASE j = r.title
        <5>1. r.title # NoTitle
          BY <4>1, <4>2 DEF NoTitle
        <5> QED BY <1>2, <1>3, <4>1, <4>2, <5>1 DEF LinesOf
      <4>3. CASE j # r.title
        <5>1. r.title < j /\ j <= i - 1
          BY <1>1, <3>1, <4>1, <4>3
        <5>2. j \in ToSet(r.content)
          BY <3>1, <5>1 DEF CutOK
        <5> QED BY <1>2, <4>1, <5>2 DEF LinesOf
      <4> QED BY <4>2, <4>3
    <3>2. Covers(book, r.list, r.title)
      BY DEF CutOK
    <3> QED BY <1>1, <1>2, <3>1, <3>2, CoversAppend
  <2>6. CutAt(book.text, r, i) = [title |-> i, content |-> <<>>, list |-> q]
    BY <1>5 DEF CutAt
  <2> HIDE DEF q
  <2> QED BY <2>3, <2>4, <2>5, <2>6, CutLeaves
<1>6. CASE ~ full
  <2>1. CutAt(book.text, r, i) = [title |-> i, content |-> <<>>, list |-> r.list]
    BY <1>6 DEF CutAt
  <2>2. \A k \in DOMAIN r.list : Precedes(r.list[k], i)
    <3> TAKE k \in DOMAIN r.list
    <3>1. Precedes(r.list[k], r.title)
      BY DEF CutOK
    <3>2. r.list[k] \in FlatSection
      BY <1>1
    <3>3. /\ r.list[k].title \in Int
          /\ \A n \in DOMAIN r.list[k].content : r.list[k].content[n] \in Int
      BY <3>2 DEF FlatSection
    <3> QED BY <1>1, <3>1, <3>3 DEF Precedes
  <2>3. ToSet(r.content) = {}
    BY <1>6 DEF ToSet
  <2>4. ASSUME NEW j \in DOMAIN book.text, j < i, book.text[j] # "blank", ~ IsLost(book, j)
        PROVE  j < r.title
    <3>1. j \in Int /\ j > 0
      BY LinesAre
    <3>2. ASSUME NEW k \in DOMAIN book.text, r.title < k, k < i PROVE book.text[k] = "blank"
      <4>1. k <= i - 1
        BY <1>1, <3>2, LinesAre
      <4> QED BY <2>3, <3>2, <4>1 DEF CutOK
    <3>3. j <= r.title
      BY <1>1, <2>4, <3>1, <3>2
    <3>4. ASSUME j = r.title PROVE FALSE
      <4>1. r.title # NoTitle
        BY <3>1, <3>4 DEF NoTitle
      <4>2. j \in Titles(book) /\ book.text[j] = "unknown"
        BY <1>3, <1>6, <3>1, <3>4, <4>1 DEF UnknowTitle
      <4>3. \A k \in j + 1 .. i - 1 : book.text[k] = "blank"
        <5> TAKE k \in j + 1 .. i - 1
        <5>1. k \in DOMAIN book.text /\ r.title < k /\ k < i
          BY <1>1, <3>1, <3>4, LinesAre
        <5> QED BY <3>2, <5>1
      <4>4. IsLost(book, j)
        BY <2>4, <4>2, <4>3 DEF IsLost
      <4> QED BY <2>4, <4>4
    <3> QED BY <1>1, <3>1, <3>3, <3>4
  <2>5. Covers(book, r.list, i)
    BY <2>4 DEF Covers, CutOK
  <2>6. IsFlat(book, r.list)
    BY DEF CutOK
  <2> QED BY <2>1, <2>2, <2>5, <2>6, CutLeaves
<1> QED BY <1>5, <1>6

(* The text is cut as it should be: by induction on its lines. *)
LEMMA CutIsFlat ==
  ASSUME NEW book, book.text \in Seq(Line)
  PROVE  LET q == Cut(book.text, book.terminated) IN
           /\ IsFlat(book, q)
           /\ Covers(book, q, Len(book.text) + 1)
<1>1. PICK text : text = book.text
  OBVIOUS
<1>2. PICK terminated : terminated = book.terminated
  OBVIOUS
<1> DEFINE IsRead(f) == f = [i \in 0..Len(text) |->
                               IF i = 0 THEN CutStart ELSE ReadLine(text, terminated, f[i - 1], i)]
           f == CHOOSE f : IsRead(f)
           r == f[Len(text)]
           z == Section(r.title, r.content)
           q == Append(r.list, z)
           G == {i \in 0..Len(text) : CutOK(book, f[i], i)}
<1>3. Len(text) \in Nat
  BY <1>1
<1>4. IsRead(f)
  BY <1>1, CutExists
<1>5. Cut(text, terminated) = q
  BY DEF Cut, CutStart
<1> HIDE DEF f
<1>6. f[0] = CutStart /\ \A i \in 1..Len(text) : f[i] = ReadLine(text, terminated, f[i - 1], i)
  <2>1. ASSUME NEW i \in 0..Len(text)
        PROVE  f[i] = IF i = 0 THEN CutStart ELSE ReadLine(text, terminated, f[i - 1], i)
    BY <1>4
  <2>2. 0 \in 0..Len(text) /\ \A i \in 1..Len(text) : i \in 0..Len(text) /\ i # 0
    BY <1>3
  <2> QED BY <2>1, <2>2
<1>7. 0 \in G
  BY <1>1, <1>3, <1>6, CutStartOK
<1>8. ASSUME NEW i \in 1..Len(text), i - 1 \in G PROVE i \in G
  <2> DEFINE g == f[i - 1]
  <2>1. CutOK(book, g, i - 1) /\ f[i] = ReadLine(text, terminated, g, i)
    BY <1>6, <1>8
  <2> HIDE DEF g
  <2>2. i \in DOMAIN text /\ i \in 0..Len(text)
    BY <1>1, <1>3
  <2>3. CASE text[i] = "blank"
    <3>1. f[i] = g
      BY <2>1, <2>3 DEF ReadLine
    <3> QED BY <1>1, <2>1, <2>2, <2>3, <3>1, BlankComes
  <2>4. CASE text[i] # "blank" /\ i \in Titles(book)
    <3>1. f[i] = CutAt(text, g, i)
      BY <1>1, <1>2, <2>1, <2>4 DEF ReadLine, Titles
    <3> QED BY <1>1, <2>1, <2>2, <2>4, <3>1, TitleComes
  <2>5. CASE text[i] # "blank" /\ i \notin Titles(book)
    <3>1. f[i] = [g EXCEPT !.content = Append(@, i)]
      BY <1>1, <1>2, <2>1, <2>2, <2>5 DEF ReadLine, Titles
    <3>2. CutOK(book, [g EXCEPT !.content = Append(@, i)], i)
      BY <1>1, <2>1, <2>5, TextComes
    <3> QED BY <2>2, <3>1, <3>2
  <2> QED BY <2>3, <2>4, <2>5
<1>9. CutOK(book, r, Len(text))
  <2> HIDE DEF G
  <2>1. Len(text) \in G
    BY <1>3, <1>7, <1>8, Reaches
  <2> QED BY <2>1 DEF G
<1> HIDE DEF r
<1>10. /\ r.title \in Int /\ r.content \in Seq(Int) /\ r.list \in Seq(FlatSection)
       /\ r.title \in Titles(book) \cup {NoTitle} /\ IsFlat(book, r.list)
       /\ Between(book, z)
  BY <1>9 DEF CutOK
<1>11. z \in FlatSection /\ z.title = r.title /\ z.content = r.content
  BY <1>10, SectionIs
<1> HIDE DEF z
<1>12. Follows(book, r.list, z)
  <2>1. r.list # <<>> => r.title > 0
    BY <1>1, <1>9, LinesAre DEF CutOK
  <2>2. ~ IsLost(book, r.title)
    <3>1. ASSUME NEW j \in Titles(book), j > r.title PROVE FALSE
      <4>1. j \in Int /\ j <= Len(text)
        BY <1>1, LinesAre
      <4>2. j <= r.title
        BY <1>9, <4>1 DEF CutOK
      <4> QED BY <1>10, <3>1, <4>1, <4>2
    <3> QED BY <3>1 DEF IsLost
  <2>3. \A k \in DOMAIN r.list : Precedes(r.list[k], r.title)
    BY <1>9 DEF CutOK
  <2> QED BY <1>10, <1>11, <2>1, <2>2, <2>3 DEF Follows
<1>13. IsFlat(book, q)
  BY <1>10, <1>12, FlatAppend
<1>14. Covers(book, q, Len(text) + 1)
  <2>1. ASSUME NEW j \in DOMAIN book.text, r.title <= j, book.text[j] # "blank"
        PROVE  j \in LinesOf(z)
    <3>1. j \in Int /\ j > 0 /\ j <= Len(text)
      BY <1>1, LinesAre
    <3>2. CASE j = r.title
      BY <1>11, <3>1, <3>2 DEF LinesOf
    <3>3. CASE j # r.title
      <4>1. r.title < j
        BY <1>10, <2>1, <3>1, <3>3
      <4>2. j \in ToSet(r.content)
        BY <1>9, <2>1, <3>1, <4>1 DEF CutOK
      <4> QED BY <1>11, <3>1, <4>2 DEF LinesOf
    <3> QED BY <3>2, <3>3
  <2>2. Covers(book, r.list, r.title)
    BY <1>9 DEF CutOK
  <2>3. Len(text) + 1 \in Int
    BY <1>3
  <2> QED BY <1>10, <1>11, <2>1, <2>2, <2>3, CoversAppend
<1> QED BY <1>1, <1>2, <1>5, <1>13, <1>14
-----------------------------------------------------------------------------
(* Sections are put into volumes *)

TopSection == [title : Int, content : Seq(Int), sections : Seq(FlatSection)]

GroupType(acc) ==
  /\ acc \in [done : Seq(TopSection), open : Seq(TopSection)]
  /\ Len(acc.open) <= 1

OpensVolume(book, s) == s.title > 0 /\ IsVolume(book.text[s.title])
EndsVolume(book, s) == OpensVolume(book, s) \/ (s.title > 0 /\ book.text[s.title] = "extra")

\* d is c and s after it
IsAppended(c, s, d) ==
  /\ Len(d) = Len(c) + 1
  /\ d[Len(d)] = s
  /\ \A k \in 1..Len(c) : d[k] = c[k]

\* d is c with s in its last section
IsPutIn(c, s, d) ==
  /\ Len(c) > 0 /\ Len(d) = Len(c)
  /\ d[Len(c)] = WithSection(c[Len(c)], s)
  /\ \A k \in 1 .. Len(c) - 1 : d[k] = c[k]

\* r is p with q after it
IsJoined(p, q, r) ==
  /\ Len(p) \in Nat /\ Len(q) \in Nat /\ Len(r) = Len(p) + Len(q)
  /\ \A k \in 1..Len(p) : r[k] = p[k]
  /\ \A k \in 1..Len(q) : r[Len(p) + k] = q[k]

(* Where the members of two sequences are in the joined one. *)
LEMMA Joining ==
  ASSUME NEW X, NEW p \in Seq(X), NEW q \in Seq(X)
  PROVE  p \o q \in Seq(X) /\ IsJoined(p, q, p \o q)
BY DEF IsJoined

(* A section of the first pass is also one of the second. *)
LEMMA FlatIsTop == FlatSection \subseteq TopSection
<1>1. <<>> \in Seq(FlatSection)
  OBVIOUS
<1>2. ASSUME NEW s \in FlatSection PROVE s \in TopSection
  BY <1>1 DEF FlatSection, TopSection
<1> QED BY <1>2

\* c is what acc holds
Holds(acc, c) ==
  /\ c \in Seq(TopSection) /\ acc.done \in Seq(TopSection) /\ acc.open \in Seq(TopSection)
  /\ Len(acc.done) \in Nat
  /\ acc.open = <<>> => Len(c) = Len(acc.done)
  /\ acc.open # <<>> => /\ Len(acc.open) = 1 /\ Len(c) = Len(acc.done) + 1
                        /\ c[Len(acc.done) + 1] = acc.open[1]
  /\ \A k \in 1..Len(acc.done) : c[k] = acc.done[k]

(* The volume that is open comes last in what Closed gives. *)
LEMMA ClosedIs ==
  ASSUME NEW acc, GroupType(acc)
  PROVE  Holds(acc, Closed(acc))
<1>1. PICK p : p = acc.done
  OBVIOUS
<1>2. PICK q : q = acc.open
  OBVIOUS
<1>3. p \in Seq(TopSection) /\ q \in Seq(TopSection) /\ Len(q) <= 1
  BY <1>1, <1>2 DEF GroupType
<1>4. PICK c : c = p \o q
  OBVIOUS
<1>5. /\ c \in Seq(TopSection) /\ Len(p) \in Nat /\ Len(q) \in Nat /\ Len(c) = Len(p) + Len(q)
      /\ \A k \in 1..Len(p) : c[k] = p[k]
      /\ \A k \in 1..Len(q) : c[Len(p) + k] = q[k]
  <2>1. c \in Seq(TopSection) /\ IsJoined(p, q, c)
    BY <1>3, <1>4, Joining
  <2> QED BY <2>1 DEF IsJoined
<1>6. q = <<>> <=> Len(q) = 0
  BY <1>3
<1>7. ASSUME q # <<>> PROVE Len(q) = 1 /\ c[Len(p) + 1] = q[1]
  <2>1. Len(q) \in Nat /\ Len(q) <= 1 /\ Len(q) # 0
    BY <1>3, <1>5, <1>6, <1>7
  <2>2. Len(q) = 1
    BY ONLY <2>1
  <2>3. 1 \in 1..Len(q)
    BY ONLY <2>2
  <2> QED BY <1>5, <2>2, <2>3
<1>8. Len(p) + 0 = Len(p)
  BY <1>5
<1>9. Len(q) = 0 => Len(c) = Len(p)
  BY <1>5, <1>8
<1>10. Closed(acc) = c
  BY <1>1, <1>2, <1>4 DEF Closed
<1>11. Holds(acc, c)
  <2>1. q # <<>> => Len(c) = Len(p) + 1
    BY <1>5, <1>7
  <2> QED BY ONLY <1>1, <1>2, <1>3, <1>5, <1>6, <1>7, <1>9, <2>1 DEF Holds
<1> QED BY <1>10, <1>11

(* A chapter goes to the end of a volume and leaves the rest of it alone. *)
LEMMA WithSectionIs ==
  ASSUME NEW v \in TopSection, NEW s \in FlatSection
  PROVE  /\ WithSection(v, s) \in TopSection
         /\ WithSection(v, s).title = v.title /\ WithSection(v, s).content = v.content
         /\ WithSection(v, s).sections = Append(v.sections, s)
<1>1. v.sections \in Seq(FlatSection)
  BY DEF TopSection
<1>2. Append(v.sections, s) \in Seq(FlatSection)
  BY <1>1, Appending
<1> DEFINE c == Append(v.sections, s)
<1>3. WithSection(v, s) = [v EXCEPT !.sections = c]
  BY DEF WithSection
<1> HIDE DEF c
<1>4. c \in Seq(FlatSection)
  BY <1>2 DEF c
<1>5. /\ WithSection(v, s) \in TopSection /\ WithSection(v, s).title = v.title
      /\ WithSection(v, s).content = v.content /\ WithSection(v, s).sections = c
  BY <1>3, <1>4 DEF TopSection
<1> QED BY <1>5 DEF c

\* what AddSection does to the list of sections
Added(book, acc, s, next) ==
  LET c == Closed(acc) d == Closed(next) IN
    /\ GroupType(next)
    /\ \/ /\ book.volumes /\ OpensVolume(book, s)
          /\ IsAppended(c, s, d) /\ next.open # <<>>
       \/ /\ EndsVolume(book, s) /\ ~ OpensVolume(book, s)
          /\ IsAppended(c, s, d) /\ next.open = <<>>
       \/ /\ acc.open = <<>> /\ ~ (book.volumes /\ OpensVolume(book, s))
          /\ IsAppended(c, s, d) /\ next.open = <<>>
       \/ /\ acc.open # <<>> /\ ~ (book.volumes /\ OpensVolume(book, s))
          /\ OpensVolume(book, s) \/ ~ EndsVolume(book, s)
          /\ IsPutIn(c, s, d) /\ next.open # <<>>

(* The places AddSection has for a section: after the others, as a new     *)
(* volume, or in the open one.                                             *)
LEMMA AddSectionIs ==
  ASSUME NEW book, NEW acc, GroupType(acc), NEW s \in FlatSection
  PROVE  Added(book, acc, s, AddSection(book.text, book.volumes, acc, s))
<1> DEFINE line == IF s.title > 0 THEN book.text[s.title] ELSE "text"
           next == AddSection(book.text, book.volumes, acc, s)
           c == Closed(acc)
           d == Closed(next)
<1>1. /\ IsVolume(line) <=> OpensVolume(book, s)
      /\ line = "extra" <=> s.title > 0 /\ book.text[s.title] = "extra"
      /\ ~ (line = "extra" /\ IsVolume(line))
  BY DEF IsVolume, OpensVolume
<1>2. /\ c \in Seq(TopSection) /\ s \in TopSection
      /\ acc.done \in Seq(TopSection) /\ acc.open \in Seq(TopSection)
  BY ClosedIs, FlatIsTop DEF Holds
<1>3. <<s>> \in Seq(TopSection) /\ Len(<<s>>) = 1 /\ <<s>>[1] = s /\ <<s>> # <<>>
  BY <1>2
<1>4. <<>> \in Seq(TopSection) /\ Len(<<>>) = 0
  OBVIOUS
<1>5. CASE book.volumes /\ IsVolume(line)
  <2>1. next = [done |-> c, open |-> <<s>>]
    BY <1>5 DEF AddSection
  <2>2. next.done = c /\ next.open = <<s>>
    BY <2>1
  <2>3. GroupType(next)
    BY <1>2, <1>3, <2>1 DEF GroupType
  <2>4. IsAppended(c, s, d)
    <3> HIDE DEF next, c
    <3>1. Len(d) = Len(c) + 1 /\ d[Len(c) + 1] = s /\ \A k \in 1..Len(c) : d[k] = c[k]
      <4>1. Holds(next, d)
        BY <2>3, ClosedIs
      <4> HIDE DEF d
      <4> QED BY <1>3, <2>2, <4>1 DEF Holds
    <3> QED BY <3>1 DEF IsAppended
  <2> QED BY <1>1, <1>3, <1>5, <2>2, <2>3, <2>4 DEF Added
<1>6. CASE ~ (book.volumes /\ IsVolume(line)) /\ line = "extra"
  <2>1. next = [done |-> Append(c, s), open |-> <<>>]
    BY <1>6 DEF AddSection
  <2>2. next.done = Append(c, s) /\ next.open = <<>>
    BY <2>1
  <2>3. /\ Append(c, s) \in Seq(TopSection) /\ Len(c) \in Nat /\ Len(Append(c, s)) = Len(c) + 1
        /\ Append(c, s)[Len(c) + 1] = s
        /\ \A k \in 1..Len(c) : Append(c, s)[k] = c[k]
    BY <1>2, Appending
  <2>4. GroupType(next)
    BY <1>4, <2>1, <2>3 DEF GroupType
  <2>5. IsAppended(c, s, d)
    <3> HIDE DEF next, c
    <3>1. Len(d) = Len(c) + 1 /\ \A k \in 1 .. Len(c) + 1 : d[k] = next.done[k]
      <4>1. Holds(next, d)
        BY <2>4, ClosedIs
      <4> HIDE DEF d
      <4> QED BY <2>2, <2>3, <4>1 DEF Holds
    <3>2. d[Len(c) + 1] = s /\ \A k \in 1..Len(c) : d[k] = c[k]
      BY <2>2, <2>3, <3>1
    <3> QED BY <3>1, <3>2 DEF IsAppended
  <2> QED BY <1>1, <1>6, <2>2, <2>4, <2>5 DEF Added, EndsVolume
<1>7. CASE ~ (book.volumes /\ IsVolume(line)) /\ line # "extra" /\ acc.open = <<>>
  <2>1. next = [done |-> Append(acc.done, s), open |-> <<>>]
    BY <1>7 DEF AddSection
  <2>2. next.done = Append(acc.done, s) /\ next.open = <<>>
    BY <2>1
  <2> DEFINE e == acc.done
  <2>3. /\ Append(e, s) \in Seq(TopSection) /\ Len(e) \in Nat /\ Len(Append(e, s)) = Len(e) + 1
        /\ Append(e, s)[Len(e) + 1] = s
        /\ \A k \in 1..Len(e) : Append(e, s)[k] = e[k]
    BY <1>2, Appending
  <2>4. GroupType(next)
    BY <1>4, <2>1, <2>3 DEF GroupType
  <2>5. IsAppended(c, s, d)
    <3> HIDE DEF next, c
    <3>1. Len(c) = Len(e) /\ \A k \in 1..Len(e) : c[k] = e[k]
      <4>1. Holds(acc, c)
        BY ClosedIs DEF c
      <4> QED BY <1>7, <4>1 DEF Holds
    <3>2. Len(d) = Len(e) + 1 /\ \A k \in 1 .. Len(e) + 1 : d[k] = next.done[k]
      <4>1. Holds(next, d)
        BY <2>4, ClosedIs
      <4> HIDE DEF d
      <4> QED BY <2>2, <2>3, <4>1 DEF Holds
    <3>3. d[Len(e) + 1] = s /\ \A k \in 1..Len(e) : d[k] = e[k]
      BY <2>2, <2>3, <3>2
    <3> QED BY <3>1, <3>2, <3>3 DEF IsAppended
  <2> QED BY <1>1, <1>7, <2>2, <2>4, <2>5 DEF Added
<1>8. CASE ~ (book.volumes /\ IsVolume(line)) /\ line # "extra" /\ acc.open # <<>>
  <2> DEFINE v == acc.open[1]
             w == WithSection(v, s)
             e == acc.done
  <2>1. next = [done |-> e, open |-> <<w>>]
    BY <1>8 DEF AddSection
  <2>2. next.done = e /\ next.open = <<w>>
    BY <2>1
  <2>3. /\ Len(e) \in Nat /\ Len(c) = Len(e) + 1 /\ c[Len(c)] = v
        /\ Len(acc.open) = 1 /\ \A k \in 1..Len(e) : c[k] = e[k]
    <3>1. Holds(acc, c)
      BY ClosedIs
    <3> HIDE DEF c
    <3> QED BY <1>8, <3>1 DEF Holds
  <2>4. v \in TopSection
    BY <1>2, <2>3
  <2>5. w \in TopSection
    BY <2>4, WithSectionIs
  <2> HIDE DEF w
  <2>6. <<w>> \in Seq(TopSection) /\ Len(<<w>>) = 1 /\ <<w>>[1] = w /\ <<w>> # <<>>
    BY <2>5
  <2>7. GroupType(next)
    BY <1>2, <2>1, <2>6 DEF GroupType
  <2>8. IsPutIn(c, s, d)
    <3> HIDE DEF next, c
    <3>1. Len(d) = Len(e) + 1 /\ d[Len(e) + 1] = w /\ \A k \in 1..Len(e) : d[k] = e[k]
      <4>1. Holds(next, d)
        BY <2>7, ClosedIs
      <4> HIDE DEF d
      <4> QED BY <2>2, <2>6, <4>1 DEF Holds
    <3>2. d[Len(c)] = WithSection(c[Len(c)], s)
      BY <2>3, <3>1 DEF w
    <3> QED BY <2>3, <3>1, <3>2 DEF IsPutIn
  <2> QED BY <1>1, <1>8, <2>2, <2>6, <2>7, <2>8 DEF Added, EndsVolume
<1> QED BY <1>5, <1>6, <1>7, <1>8

\* section i of q is in the volume that section j opens, or is that section
InVolume(book, q, j, i) ==
  /\ book.volumes /\ j <= i
  /\ OpensVolume(book, q[j])
  /\ \A l \in j + 1 .. i : ~ EndsVolume(book, q[l])

\* the last section of q that is in c[k], when that begins with section f[k]
LastIn(c, f, k) == f[k] + Len(c[k].sections)

\* c[k] is section f[k] of q with those up to LastIn(c, f, k) in it
IsVolumeOf(book, q, c, f, k) ==
  /\ c[k].title = q[f[k]].title /\ c[k].content = q[f[k]].content
  /\ \A l \in k + 1 .. Len(c) : LastIn(c, f, k) < f[l]
  /\ \A j \in 1..Len(c[k].sections) :
       c[k].sections[j] = q[f[k] + j] /\ InVolume(book, q, f[k], f[k] + j)
  /\ \A j \in 1 .. f[k] - 1 : ~ InVolume(book, q, j, f[k])

\* c holds the first m sections of q
Placed(book, q, m, c, f) ==
  /\ c \in Seq(TopSection)
  /\ f \in [1..Len(c) -> 1..m]
  /\ Len(c) > 0 => LastIn(c, f, Len(c)) = m
  /\ \A i \in 1..m : \E k \in 1..Len(c) : f[k] <= i /\ i <= LastIn(c, f, k)
  /\ \A k \in 1..Len(c) : IsVolumeOf(book, q, c, f, k)

GroupOK(book, q, m, acc) ==
  /\ GroupType(acc)
  /\ \E f : /\ Placed(book, q, m, Closed(acc), f)
            /\ acc.open # <<>> =>
                 Len(Closed(acc)) > 0 /\ InVolume(book, q, f[Len(Closed(acc))], m)
  /\ acc.open = <<>> => \A j \in 1..m : ~ InVolume(book, q, j, m)

(* A section that is in no volume, or opens one, is placed after the       *)
(* others.                                                                 *)
LEMMA PlacedAppend ==
  ASSUME NEW book, NEW q \in Seq(FlatSection), NEW m \in Nat, m + 1 <= Len(q),
         NEW c, NEW f, Placed(book, q, m, c, f),
         NEW d \in Seq(TopSection), IsAppended(c, q[m + 1], d),
         \A j \in 1..m : ~ InVolume(book, q, j, m + 1)
  PROVE  Placed(book, q, m + 1, d, [k \in 1..Len(d) |-> IF k = Len(d) THEN m + 1 ELSE f[k]])
<1> DEFINE g == [k \in 1..Len(d) |-> IF k = Len(d) THEN m + 1 ELSE f[k]]
           s == q[m + 1]
           n == Len(c)
<1>1. /\ c \in Seq(TopSection) /\ f \in [1..n -> 1..m] /\ n \in Nat
      /\ Len(d) = n + 1 /\ d[n + 1] = s /\ \A k \in 1..n : d[k] = c[k]
  BY DEF Placed, IsAppended
<1>2. s \in FlatSection
  <2>1. m + 1 \in DOMAIN q
    OBVIOUS
  <2> QED BY <2>1
<1>3. s.sections = <<>> /\ Len(s.sections) = 0
  BY <1>2 DEF FlatSection
<1>4. /\ g[n + 1] = m + 1 /\ \A k \in 1..n : g[k] = f[k] /\ k # n + 1 /\ k \in 1 .. n + 1
      /\ n + 1 \in 1 .. n + 1
  BY <1>1
<1>5. g \in [1..Len(d) -> 1 .. m + 1]
  <2>1. ASSUME NEW k \in 1..Len(d) PROVE (IF k = Len(d) THEN m + 1 ELSE f[k]) \in 1 .. m + 1
    <3>1. CASE k = Len(d)
      BY <3>1
    <3>2. CASE k # Len(d)
      <4>1. k \in 1..n
        BY <1>1, <3>2
      <4>2. f[k] \in 1..m
        BY <1>1, <4>1
      <4> QED BY <3>2, <4>2
    <3> QED BY <3>1, <3>2
  <2> QED BY <2>1
<1> HIDE DEF g, s, n
<1>6. LastIn(d, g, n + 1) = m + 1 /\ \A k \in 1..n : LastIn(d, g, k) = LastIn(c, f, k)
  <2>1. (m + 1) + 0 = m + 1
    OBVIOUS
  <2> QED BY <1>1, <1>3, <1>4, <2>1 DEF LastIn
<1>7. \A k \in 1..n : LastIn(c, f, k) < m + 1
  <2> TAKE k \in 1..n
  <2>1. n \in 1..n /\ LastIn(c, f, n) = m
    BY <1>1 DEF Placed, n
  <2>2. CASE k = n
    BY <2>1, <2>2
  <2>3. CASE k # n
    <3>1. n \in k + 1 .. n
      BY <1>1, <2>3
    <3>2. LastIn(c, f, k) < f[n] /\ f[n] \in 1..m
      BY <1>1, <2>1, <3>1 DEF Placed, IsVolumeOf, n
    <3>3. LastIn(c, f, k) \in Int
      <4>1. f[k] \in 1..m /\ c[k] \in TopSection
        BY <1>1
      <4>2. c[k].sections \in Seq(FlatSection)
        BY <4>1 DEF TopSection
      <4> QED BY <4>1, <4>2 DEF LastIn
    <3> QED BY <3>2, <3>3
  <2> QED BY <2>2, <2>3
<1>8. ASSUME NEW i \in 1 .. m + 1
      PROVE  \E k \in 1 .. n + 1 : g[k] <= i /\ i <= LastIn(d, g, k)
  <2>1. CASE i = m + 1
    BY <1>4, <1>6, <2>1
  <2>2. CASE i # m + 1
    <3>1. i \in 1..m
      BY <2>2
    <3>2. PICK k \in 1..n : f[k] <= i /\ i <= LastIn(c, f, k)
      BY <3>1 DEF Placed, n
    <3> QED BY <1>4, <1>6, <3>2
  <2> QED BY <2>1, <2>2
<1>9. ASSUME NEW k \in 1 .. n + 1 PROVE IsVolumeOf(book, q, d, g, k)
  <2>1. CASE k = n + 1
    <3>1. d[k] = s /\ g[k] = m + 1
      BY <1>1, <1>4, <2>1
    <3>2. \A j \in 1 .. (m + 1) - 1 : ~ InVolume(book, q, j, m + 1)
      OBVIOUS
    <3>3. k + 1 .. Len(d) = {} /\ 1..0 = {}
      BY <1>1, <2>1
    <3> QED BY <1>3, <3>1, <3>2, <3>3 DEF s, IsVolumeOf
  <2>2. CASE k \in 1..n
    <3>1. d[k] = c[k] /\ g[k] = f[k]
      BY <1>1, <1>4, <2>2
    <3>2. IsVolumeOf(book, q, c, f, k)
      BY <2>2 DEF Placed, n
    <3>3. ASSUME NEW l \in k + 1 .. Len(d) PROVE LastIn(d, g, k) < g[l]
      <4>1. CASE l = n + 1
        BY <1>4, <1>6, <1>7, <2>2, <4>1
      <4>2. CASE l # n + 1
        <5>1. l \in k + 1 .. n /\ l \in 1..n
          BY <1>1, <2>2, <4>2
        <5> QED BY <1>4, <1>6, <2>2, <3>2, <5>1 DEF IsVolumeOf, n
      <4> QED BY <4>1, <4>2
    <3> QED BY <3>1, <3>2, <3>3 DEF IsVolumeOf
  <2> QED BY <1>1, <2>1, <2>2
<1>10. Placed(book, q, m + 1, d, g)
  BY <1>1, <1>5, <1>6, <1>8, <1>9 DEF Placed
<1> QED BY <1>10 DEF g

(* A section that is in the open volume is placed at its end. *)
LEMMA PlacedPutIn ==
  ASSUME NEW book, NEW q \in Seq(FlatSection), NEW m \in Nat, m + 1 <= Len(q),
         NEW c, NEW f, Placed(book, q, m, c, f),
         NEW d \in Seq(TopSection), IsPutIn(c, q[m + 1], d),
         InVolume(book, q, f[Len(c)], m + 1)
  PROVE  Placed(book, q, m + 1, d, f)
<1> DEFINE s == q[m + 1]
           n == Len(c)
           v == c[n]
           w == d[n]
<1>1. /\ c \in Seq(TopSection) /\ f \in [1..n -> 1..m] /\ n \in Nat /\ n > 0 /\ n \in 1..n
      /\ Len(d) = n /\ w = WithSection(v, s) /\ \A k \in 1 .. n - 1 : d[k] = c[k]
  BY DEF Placed, IsPutIn
<1>2. s \in FlatSection
  <2>1. m + 1 \in DOMAIN q
    OBVIOUS
  <2> QED BY <2>1
<1>3. v \in TopSection
  BY <1>1
<1> HIDE DEF s, v, w
<1>4. w.title = v.title /\ w.content = v.content /\ w.sections = Append(v.sections, s)
  BY <1>1, <1>2, <1>3, WithSectionIs
<1> DEFINE u == v.sections
<1>5. u \in Seq(FlatSection)
  BY <1>3 DEF TopSection
<1>6. /\ Len(u) \in Nat /\ Len(w.sections) = Len(u) + 1
      /\ w.sections[Len(u) + 1] = s /\ \A j \in 1..Len(u) : w.sections[j] = u[j]
  BY <1>2, <1>4, <1>5, Appending
<1>7. f \in [1..n -> 1 .. m + 1]
  <2>1. \A k \in 1..n : f[k] \in 1..m
    BY <1>1
  <2>2. \A k \in 1..n : f[k] \in 1 .. m + 1
    BY <2>1
  <2> QED BY <1>1, <2>2
<1>8. f[n] \in 1..m /\ f[n] \in Nat
  BY <1>1
<1> HIDE DEF n, u
<1>9. f[n] + Len(u) = m
  BY <1>1 DEF Placed, LastIn, u, v, n
<1>10. f[n] + Len(w.sections) = m + 1
  BY ONLY <1>6, <1>8, <1>9
<1>11. LastIn(c, f, n) = m /\ LastIn(d, f, n) = m + 1
  BY <1>9, <1>10 DEF LastIn, u, v, w
<1>12. \A k \in 1 .. n - 1 : LastIn(d, f, k) = LastIn(c, f, k)
  BY <1>1 DEF LastIn
<1>13. ASSUME NEW i \in 1 .. m + 1
       PROVE  \E k \in 1..n : f[k] <= i /\ i <= LastIn(d, f, k)
  <2>1. CASE i = m + 1
    <3>1. f[n] <= m + 1 /\ m + 1 <= m + 1
      BY ONLY <1>8, m \in Nat
    <3>2. n \in 1..n
      BY <1>1
    <3> QED BY ONLY <1>11, <2>1, <3>1, <3>2
  <2>2. CASE i # m + 1
    <3>1. i \in 1..m
      BY <2>2
    <3>2. PICK k \in 1..n : f[k] <= i /\ i <= LastIn(c, f, k)
      BY <3>1 DEF Placed, n
    <3>3. CASE k = n
      BY <1>1, <1>11, <3>2, <3>3
    <3>4. CASE k # n
      <4>1. k \in 1 .. n - 1
        BY <1>1, <3>4
      <4> QED BY <1>12, <3>2, <4>1
    <3> QED BY <3>3, <3>4
  <2> QED BY <2>1, <2>2
<1>14. ASSUME NEW k \in 1..n PROVE IsVolumeOf(book, q, d, f, k)
  <2>1. IsVolumeOf(book, q, c, f, k)
    BY DEF Placed, n
  <2>2. CASE k # n
    <3>1. k \in 1 .. n - 1
      BY <1>1, <2>2
    <3>2. d[k] = c[k] /\ LastIn(d, f, k) = LastIn(c, f, k)
      BY <1>1, <1>12, <3>1
    <3> QED BY <1>1, <2>1, <3>2 DEF IsVolumeOf, n
  <2>3. CASE k = n
    <3>1. ASSUME NEW j \in 1..Len(w.sections)
          PROVE  w.sections[j] = q[f[n] + j] /\ InVolume(book, q, f[n], f[n] + j)
      <4>1. CASE j = Len(u) + 1
        <5>1. f[n] + j = m + 1
          BY <1>6, <1>10, <4>1
        <5>2. InVolume(book, q, f[n], m + 1)
          BY DEF n
        <5> QED BY <1>6, <4>1, <5>1, <5>2 DEF s
      <4>2. CASE j # Len(u) + 1
        <5>1. j \in 1..Len(u)
          BY <1>6, <4>2
        <5>2. u[j] = q[f[n] + j] /\ InVolume(book, q, f[n], f[n] + j)
          BY <2>1, <2>3, <5>1 DEF IsVolumeOf, u, v
        <5> QED BY <1>6, <5>1, <5>2
      <4> QED BY <4>1, <4>2
    <3>2. w.title = q[f[n]].title /\ w.content = q[f[n]].content
      BY <1>4, <2>1, <2>3 DEF IsVolumeOf, v
    <3>3. n + 1 .. n = {}
      BY <1>1
    <3> QED BY <1>1, <2>1, <2>3, <3>1, <3>2, <3>3 DEF IsVolumeOf, w
  <2> QED BY <2>2, <2>3
<1>15. Placed(book, q, m + 1, d, f)
  BY <1>1, <1>7, <1>11, <1>13, <1>14 DEF Placed
<1> QED BY <1>15

(* AddSection keeps the loop invariant of Group. *)
LEMMA GroupStep ==
  ASSUME NEW book, NEW q \in Seq(FlatSection), NEW m \in Nat, m + 1 <= Len(q),
         NEW acc, GroupOK(book, q, m, acc)
  PROVE  GroupOK(book, q, m + 1, AddSection(book.text, book.volumes, acc, q[m + 1]))
<1> DEFINE s == q[m + 1]
           next == AddSection(book.text, book.volumes, acc, s)
           c == Closed(acc)
           d == Closed(next)
<1>1. GroupType(acc)
  BY DEF GroupOK
<1>2. s \in FlatSection
  <2>1. m + 1 \in DOMAIN q
    OBVIOUS
  <2> QED BY <2>1
<1>3. Added(book, acc, s, next)
  BY <1>1, <1>2, AddSectionIs
<1>4. GroupType(next)
  BY <1>3 DEF Added
<1>5. d \in Seq(TopSection) /\ c \in Seq(TopSection) /\ Len(c) \in Nat
  <2>1. Holds(next, d) /\ Holds(acc, c)
    BY <1>1, <1>4, ClosedIs
  <2> HIDE DEF c, d
  <2> QED BY <2>1 DEF Holds
<1>6. PICK f : /\ Placed(book, q, m, c, f)
               /\ acc.open # <<>> => Len(c) > 0 /\ InVolume(book, q, f[Len(c)], m)
  BY DEF GroupOK
<1>7. acc.open = <<>> => \A j \in 1..m : ~ InVolume(book, q, j, m)
  BY DEF GroupOK
<1> DEFINE g == [k \in 1..Len(d) |-> IF k = Len(d) THEN m + 1 ELSE f[k]]
<1>8. /\ (book.volumes /\ OpensVolume(book, s) /\ IsAppended(c, s, d) /\ next.open # <<>>)
         \/ (EndsVolume(book, s) /\ ~ OpensVolume(book, s) /\ IsAppended(c, s, d) /\ next.open = <<>>)
         \/ (acc.open = <<>> /\ ~ (book.volumes /\ OpensVolume(book, s))
             /\ IsAppended(c, s, d) /\ next.open = <<>>)
         \/ (acc.open # <<>> /\ ~ (book.volumes /\ OpensVolume(book, s))
             /\ (OpensVolume(book, s) \/ ~ EndsVolume(book, s))
             /\ IsPutIn(c, s, d) /\ next.open # <<>>)
  BY <1>3 DEF Added
<1>9. m \in 1 .. m + 1 => m <= m + 1
  OBVIOUS
<1> HIDE DEF next, c, d
\* a section that ends volumes is in none that was opened before it
<1>10. ASSUME EndsVolume(book, s), NEW j \in 1..m PROVE ~ InVolume(book, q, j, m + 1)
  <2>1. m + 1 \in j + 1 .. m + 1
    OBVIOUS
  <2> QED BY <1>10, <2>1 DEF InVolume
\* and one that is in a volume has the section before it there
<1>11. ASSUME NEW j \in 1..m, InVolume(book, q, j, m + 1) PROVE InVolume(book, q, j, m)
  <2>1. \A l \in j + 1 .. m : l \in j + 1 .. m + 1
    OBVIOUS
  <2> QED BY <1>11, <2>1 DEF InVolume
<1> HIDE DEF g, s
<1>12. ASSUME IsAppended(c, s, d), \A j \in 1..m : ~ InVolume(book, q, j, m + 1)
       PROVE  Placed(book, q, m + 1, d, g)
  <2>1. IsAppended(c, q[m + 1], d)
    BY <1>12 DEF s
  <2>2. Placed(book, q, m + 1, d, [k \in 1..Len(d) |-> IF k = Len(d) THEN m + 1 ELSE f[k]])
    BY <1>5, <1>6, <1>12, <2>1, PlacedAppend
  <2> QED BY <2>2 DEF g
<1>13. CASE book.volumes /\ OpensVolume(book, s) /\ IsAppended(c, s, d) /\ next.open # <<>>
  <2>1. EndsVolume(book, s)
    BY <1>13 DEF EndsVolume
  <2>2. Placed(book, q, m + 1, d, g)
    BY <1>10, <1>12, <1>13, <2>1
  <2>3. Len(d) > 0 /\ g[Len(d)] = m + 1
    <3>1. Len(d) = Len(c) + 1
      BY <1>13 DEF IsAppended
    <3>2. Len(d) \in 1..Len(d)
      BY <1>5, <3>1
    <3> QED BY <1>5, <3>1, <3>2 DEF g
  <2>4. InVolume(book, q, m + 1, m + 1)
    <3>1. (m + 1) + 1 .. m + 1 = {}
      OBVIOUS
    <3> QED BY <1>13, <3>1 DEF InVolume, s
  <2>5. GroupOK(book, q, m + 1, next)
    BY <1>4, <1>13, <2>2, <2>3, <2>4 DEF GroupOK, d
  <2> QED BY <2>5 DEF next, s
<1>14. CASE EndsVolume(book, s) /\ ~ OpensVolume(book, s) /\ IsAppended(c, s, d) /\ next.open = <<>>
  <2>1. Placed(book, q, m + 1, d, g)
    BY <1>10, <1>12, <1>14
  <2>2. ASSUME NEW j \in 1 .. m + 1 PROVE ~ InVolume(book, q, j, m + 1)
    <3>1. CASE j = m + 1
      BY <1>14, <3>1 DEF InVolume, s
    <3>2. CASE j # m + 1
      <4>1. j \in 1..m
        BY <3>2
      <4> QED BY <1>10, <1>14, <4>1
    <3> QED BY <3>1, <3>2
  <2>3. GroupOK(book, q, m + 1, next)
    BY <1>4, <1>14, <2>1, <2>2 DEF GroupOK, d
  <2> QED BY <2>3 DEF next, s
<1>15. CASE /\ acc.open = <<>> /\ ~ (book.volumes /\ OpensVolume(book, s))
            /\ IsAppended(c, s, d) /\ next.open = <<>>
  <2>1. ASSUME NEW j \in 1 .. m + 1 PROVE ~ InVolume(book, q, j, m + 1)
    <3>1. CASE j = m + 1
      BY <1>15, <3>1 DEF InVolume, s
    <3>2. CASE j # m + 1
      <4>1. j \in 1..m
        BY <3>2
      <4> QED BY <1>7, <1>11, <1>15, <4>1
    <3> QED BY <3>1, <3>2
  <2>2. \A j \in 1..m : j \in 1 .. m + 1
    OBVIOUS
  <2>3. Placed(book, q, m + 1, d, g)
    BY <1>12, <1>15, <2>1, <2>2
  <2>4. GroupOK(book, q, m + 1, next)
    BY <1>4, <1>15, <2>1, <2>3 DEF GroupOK, d
  <2> QED BY <2>4 DEF next, s
<1>16. CASE /\ acc.open # <<>> /\ ~ (book.volumes /\ OpensVolume(book, s))
            /\ (OpensVolume(book, s) \/ ~ EndsVolume(book, s))
            /\ IsPutIn(c, s, d) /\ next.open # <<>>
  <2> DEFINE h == f[Len(c)]
  <2>1. Len(c) > 0 /\ Len(d) = Len(c) /\ InVolume(book, q, h, m)
    BY <1>6, <1>16 DEF IsPutIn
  <2>2. h \in 1..m
    <3>1. f \in [1..Len(c) -> 1..m] /\ Len(c) \in 1..Len(c)
      BY <1>5, <1>6, <2>1 DEF Placed
    <3> QED BY <3>1
  <2> HIDE DEF h
  <2>3. ~ EndsVolume(book, s)
    BY <1>16, <2>1 DEF InVolume
  <2>4. InVolume(book, q, h, m + 1)
    <3>1. \A l \in h + 1 .. m + 1 : l \in h + 1 .. m \/ l = m + 1
      BY <2>2
    <3>2. h <= m + 1
      BY <2>2
    <3> QED BY <2>1, <2>3, <3>1, <3>2 DEF InVolume, s
  <2>5. Placed(book, q, m + 1, d, f)
    BY <1>5, <1>6, <1>16, <2>4, PlacedPutIn DEF h, s
  <2>6. GroupOK(book, q, m + 1, next)
    BY <1>4, <1>16, <2>1, <2>4, <2>5 DEF GroupOK, d, h
  <2> QED BY <2>6 DEF next, s
<1> QED BY <1>8, <1>13, <1>14, <1>15, <1>16

GroupStart == [done |-> <<>>, open |-> <<>>]

(* The loop invariant of Group holds before the first section. *)
LEMMA GroupStartOK ==
  ASSUME NEW book, NEW q \in Seq(FlatSection)
  PROVE  GroupOK(book, q, 0, GroupStart)
<1> DEFINE acc == GroupStart
           c == Closed(acc)
           f == [k \in 1..0 |-> 0]
<1>1. acc.done = <<>> /\ acc.open = <<>> /\ acc = [done |-> <<>>, open |-> <<>>]
  BY DEF GroupStart
<1>2. <<>> \in Seq(TopSection) /\ Len(<<>>) = 0
  OBVIOUS
<1> HIDE DEF acc
<1>3. GroupType(acc)
  BY <1>1, <1>2 DEF GroupType
<1>4. c \in Seq(TopSection) /\ Len(c) = 0
  <2>1. Holds(acc, c)
    BY <1>3, ClosedIs
  <2> HIDE DEF c
  <2> QED BY <1>1, <1>2, <2>1 DEF Holds
<1>5. f \in [1..0 -> 1..0] /\ 1..0 = {}
  OBVIOUS
<1> HIDE DEF c, f
<1>6. Placed(book, q, 0, c, f)
  BY <1>4, <1>5 DEF Placed
<1>7. GroupOK(book, q, 0, acc)
  BY <1>1, <1>3, <1>5, <1>6 DEF GroupOK, c
<1> QED BY <1>7 DEF acc

\* f has what Group has after each section
IsGrouped(text, volumes, q, n, f) ==
  f = [i \in 0..n |-> IF i = 0 THEN GroupStart ELSE AddSection(text, volumes, f[i - 1], q[i])]

(* The recursion of Group over the sections defines a function. *)
LEMMA GroupExists ==
  ASSUME NEW text, NEW volumes, NEW n \in Nat, NEW q
  PROVE  \E f : IsGrouped(text, volumes, q, n, f)
<1> DEFINE G == {m \in 0..n : \E f : IsGrouped(text, volumes, q, m, f)}
<1>1. 0 \in G
  <2> DEFINE f == [i \in 0..0 |-> GroupStart]
  <2>1. IsGrouped(text, volumes, q, 0, f)
    BY DEF IsGrouped
  <2> HIDE DEF f
  <2>2. 0 \in 0..n
    OBVIOUS
  <2> QED BY <2>1, <2>2
<1>2. ASSUME NEW m \in 1..n, m - 1 \in G PROVE m \in G
  <2>1. PICK f : IsGrouped(text, volumes, q, m - 1, f)
    BY <1>2
  <2> DEFINE g == [i \in 0..m |-> IF i = m THEN AddSection(text, volumes, f[m - 1], q[m]) ELSE f[i]]
  <2>2. \A i \in 0 .. m - 1 : g[i] = f[i] /\ i # m
    OBVIOUS
  <2>3. \A i \in 0..m : g[i] = IF i = 0 THEN GroupStart ELSE AddSection(text, volumes, g[i - 1], q[i])
    <3> TAKE i \in 0..m
    <3>1. CASE i = m
      BY <2>2, <3>1
    <3>2. CASE i # m
      <4>1. i \in 0 .. m - 1 /\ (i # 0 => i - 1 \in 0 .. m - 1)
        BY <3>2
      <4>2. f[i] = IF i = 0 THEN GroupStart ELSE AddSection(text, volumes, f[i - 1], q[i])
        BY <2>1, <4>1 DEF IsGrouped
      <4> QED BY <2>2, <4>1, <4>2
    <3> QED BY <3>1, <3>2
  <2>4. IsGrouped(text, volumes, q, m, g)
    <3>1. g = [i \in 0..m |-> g[i]]
      OBVIOUS
    <3> HIDE DEF g
    <3> QED BY <2>3, <3>1 DEF IsGrouped
  <2> HIDE DEF g
  <2> QED BY <2>4
<1> HIDE DEF G
<1>3. n \in G
  BY <1>1, <1>2, Reaches
<1> QED BY <1>3 DEF G

(* Group places every section of the list: by induction on the list. *)
LEMMA GroupPlaces ==
  ASSUME NEW book, NEW q \in Seq(FlatSection)
  PROVE  \E f : Placed(book, q, Len(q), Group(book.text, book.volumes, q), f)
<1>1. PICK text : text = book.text
  OBVIOUS
<1>2. PICK volumes : volumes = book.volumes
  OBVIOUS
<1>3. PICK n : n = Len(q)
  OBVIOUS
<1> DEFINE f == CHOOSE f : IsGrouped(text, volumes, q, n, f)
           G == {i \in 0..n : GroupOK(book, q, i, f[i])}
<1>4. n \in Nat
  BY <1>3
<1>5. IsGrouped(text, volumes, q, n, f)
  BY <1>4, GroupExists
<1>6. Group(text, volumes, q) = Closed(f[n])
  BY <1>3 DEF Group, GroupStart, IsGrouped
<1> HIDE DEF f
<1>7. f[0] = GroupStart /\ \A i \in 1..n : f[i] = AddSection(text, volumes, f[i - 1], q[i])
  <2>1. ASSUME NEW i \in 0..n
        PROVE  f[i] = IF i = 0 THEN GroupStart ELSE AddSection(text, volumes, f[i - 1], q[i])
    BY <1>5 DEF IsGrouped
  <2>2. 0 \in 0..n /\ \A i \in 1..n : i \in 0..n /\ i # 0
    BY <1>4
  <2> QED BY <2>1, <2>2
<1>8. 0 \in G
  BY <1>4, <1>7, GroupStartOK
<1>9. ASSUME NEW i \in 1..n, i - 1 \in G PROVE i \in G
  <2>1. PICK m : m = i - 1
    OBVIOUS
  <2>2. m \in Nat /\ m + 1 = i /\ m + 1 <= Len(q) /\ i \in 0..n
    BY <1>3, <1>4, <2>1
  <2>3. GroupOK(book, q, m, f[m])
    BY <1>9, <2>1
  <2>4. GroupOK(book, q, m + 1, AddSection(book.text, book.volumes, f[m], q[m + 1]))
    BY <2>2, <2>3, GroupStep
  <2>5. f[i] = AddSection(text, volumes, f[m], q[i])
    BY <1>7, <2>1
  <2> QED BY <1>1, <1>2, <2>2, <2>4, <2>5
<1>10. n \in G
  <2> HIDE DEF G
  <2> QED BY <1>4, <1>8, <1>9, Reaches
<1> QED BY <1>1, <1>2, <1>3, <1>6, <1>10 DEF GroupOK
-----------------------------------------------------------------------------
(* The book *)

(* The last line of a set up to a line is the only one with that           *)
(* description.                                                            *)
LEMMA LastUpToIs ==
  ASSUME NEW S, S \subseteq Nat, NEW i \in Nat, NEW j \in S \cup {0}, j <= i,
         \A k \in S : k <= i => k <= j
  PROVE  LastUpTo(S, i) = j
<1> DEFINE Ok(x) == x \in S \cup {0} /\ x <= i /\ \A k \in S : k <= i => k <= x
<1>1. Ok(j)
  OBVIOUS
<1>2. ASSUME NEW x, Ok(x) PROVE x = j
  <2>1. x \in Nat /\ j \in Nat
    BY <1>2
  <2>2. x <= j
    BY <1>2, <2>1
  <2>3. j <= x
    BY <1>2, <2>1
  <2> QED BY <2>1, <2>2, <2>3
<1>3. LastUpTo(S, i) = CHOOSE x : Ok(x)
  BY DEF LastUpTo
<1> HIDE DEF Ok
<1> QED BY <1>1, <1>2, <1>3

(* The lines of a section in a list *)

(* A line of a section is a line of the text that is kept, from the title  *)
(* on.                                                                     *)
LEMMA FlatLines ==
  ASSUME NEW book, book.text \in Seq(Line), NEW q, IsFlat(book, q), NEW k \in DOMAIN q,
         NEW i \in LinesOf(q[k])
  PROVE  /\ i \in DOMAIN book.text /\ i \in Int /\ i > 0
         /\ book.text[i] # "blank" /\ ~ IsLost(book, i)
         /\ q[k].title <= i
<1>1. q[k] \in FlatSection
  BY DEF IsFlat
<1>2. q[k].title \in Int /\ q[k].content \in Seq(Int)
  BY <1>1 DEF FlatSection
<1>3. i > 0 /\ (i = q[k].title \/ i \in ToSet(q[k].content))
  BY DEF LinesOf
<1>4. CASE i = q[k].title
  <2>1. i \in Titles(book) /\ ~ IsLost(book, i)
    BY <1>3, <1>4 DEF IsFlat, UnknowTitle, NoTitle
  <2> QED BY <1>2, <1>3, <1>4, <2>1, LinesAre
<1>5. CASE i \in ToSet(q[k].content)
  <2>1. PICK n \in DOMAIN q[k].content : q[k].content[n] = i
    BY <1>5 DEF ToSet
  <2>2. /\ i \in DOMAIN book.text \ Titles(book) /\ book.text[i] # "blank"
        /\ q[k].title < i
    BY <2>1 DEF IsFlat, Between, InOrder
  <2>3. ~ IsLost(book, i)
    BY <2>2 DEF IsLost
  <2>4. i \in Int
    BY <2>2, LinesAre
  <2> QED BY <1>2, <1>3, <2>2, <2>3, <2>4
<1> QED BY <1>3, <1>4, <1>5

(* Sections have their lines in the order of the list. *)
LEMMA FlatBefore ==
  ASSUME NEW book, book.text \in Seq(Line), NEW q, IsFlat(book, q),
         NEW k \in DOMAIN q, NEW l \in DOMAIN q, k < l
  PROVE  Before(LinesOf(q[k]), LinesOf(q[l]))
<1>1. q \in Seq(FlatSection) /\ DOMAIN q = 1..Len(q)
  BY DEF IsFlat
<1>2. q[l] \in FlatSection /\ k \in 1 .. l - 1
  BY <1>1
<1>3. Precedes(q[k], q[l].title) /\ q[l].title \in Int
  BY <1>2 DEF IsFlat, FlatSection
<1>4. ASSUME NEW x \in LinesOf(q[k]), NEW y \in LinesOf(q[l]) PROVE x < y
  <2>1. x \in Int /\ y \in Int /\ q[l].title <= y
    BY FlatLines
  <2>2. x < q[l].title
    BY <1>3 DEF Precedes, LinesOf, ToSet
  <2> QED BY <1>3, <2>1, <2>2
<1> QED BY <1>4 DEF Before

\* what Cut and Group give
IsBook(book, q, c, f) ==
  /\ book.text \in Seq(Line)
  /\ IsFlat(book, q) /\ Covers(book, q, Len(book.text) + 1)
  /\ Placed(book, q, Len(q), c, f)

\* section c[k] and those in it are sections of q
IsPart(q, c, f, k) ==
  /\ f[k] \in DOMAIN q /\ f[k] \in Nat
  /\ LastIn(c, f, k) \in DOMAIN q /\ LastIn(c, f, k) \in Nat
  /\ f[k] <= LastIn(c, f, k)
  /\ c[k].title = q[f[k]].title /\ c[k].content = q[f[k]].content
  /\ LinesOf(c[k]) = LinesOf(q[f[k]])
  /\ InOrder(c[k])
  /\ \A j \in DOMAIN c[k].sections :
       /\ j \in Nat /\ j > 0
       /\ f[k] + j \in DOMAIN q /\ f[k] + j <= LastIn(c, f, k)
       /\ c[k].sections[j] = q[f[k] + j]
  /\ \A i \in f[k] + 1 .. LastIn(c, f, k) :
       i - f[k] \in DOMAIN c[k].sections /\ c[k].sections[i - f[k]] = q[i]

(* A section of the book and those in it are consecutive sections of the   *)
(* list.                                                                   *)
LEMMA Parts ==
  ASSUME NEW book, NEW q, NEW c, NEW f, IsBook(book, q, c, f), NEW k \in DOMAIN c
  PROVE  IsPart(q, c, f, k)
<1> DEFINE v == c[k]
           u == v.sections
           n == Len(c)
<1>1. /\ q \in Seq(FlatSection) /\ DOMAIN q = 1..Len(q) /\ Len(q) \in Nat
      /\ c \in Seq(TopSection) /\ DOMAIN c = 1..n /\ n \in Nat
      /\ f \in [1..n -> 1..Len(q)]
  BY DEF IsBook, IsFlat, Placed
<1>2. v \in TopSection /\ f[k] \in 1..Len(q) /\ f[k] \in Nat /\ n \in 1..n /\ k \in 1..n
  BY <1>1
<1>3. u \in Seq(FlatSection) /\ DOMAIN u = 1..Len(u) /\ Len(u) \in Nat
  BY <1>2 DEF TopSection
<1>4. IsVolumeOf(book, q, c, f, k)
  BY <1>2 DEF IsBook, Placed
<1> HIDE DEF v, u, n
<1>5. LastIn(c, f, k) = f[k] + Len(u)
  BY DEF LastIn, u, v
<1>6. LastIn(c, f, k) \in Nat /\ f[k] <= LastIn(c, f, k)
  BY <1>2, <1>3, <1>5
<1>7. LastIn(c, f, k) <= Len(q)
  <2>1. CASE k = n
    <3>1. LastIn(c, f, n) = Len(q)
      BY <1>2 DEF IsBook, Placed, n
    <3> QED BY <1>1, <2>1, <3>1
  <2>2. CASE k # n
    <3>1. n \in k + 1 .. n
      BY <1>1, <1>2, <2>2
    <3>2. LastIn(c, f, k) < f[n]
      BY <1>4, <3>1 DEF IsVolumeOf, n
    <3>3. f[n] \in 1..Len(q)
      BY <1>1, <1>2
    <3> QED BY <1>1, <1>6, <3>2, <3>3
  <2> QED BY <2>1, <2>2
<1>8. LastIn(c, f, k) \in DOMAIN q
  BY <1>1, <1>2, <1>6, <1>7
<1>9. v.title = q[f[k]].title /\ v.content = q[f[k]].content
  BY <1>4 DEF IsVolumeOf, v
<1>10. LinesOf(v) = LinesOf(q[f[k]])
  BY <1>9 DEF LinesOf
<1>11. InOrder(v)
  <2>1. InOrder(q[f[k]])
    BY <1>1, <1>2 DEF IsBook, IsFlat, Between
  <2> QED BY <1>9, <2>1 DEF InOrder
<1>12. \A j \in DOMAIN u : j \in Nat /\ j > 0 /\ f[k] + j \in DOMAIN q /\ f[k] + j <= LastIn(c, f, k)
                           /\ u[j] = q[f[k] + j]
  <2> TAKE j \in DOMAIN u
  <2>1. j \in 1..Len(u)
    BY <1>3
  <2>2. f[k] + j <= LastIn(c, f, k) /\ f[k] + j \in 1..Len(q)
    BY <1>1, <1>2, <1>3, <1>5, <1>7, <2>1
  <2>3. u[j] = q[f[k] + j]
    BY <1>4, <2>1 DEF IsVolumeOf, u, v
  <2> QED BY <1>1, <2>1, <2>2, <2>3
<1>13. \A i \in f[k] + 1 .. LastIn(c, f, k) : i - f[k] \in DOMAIN u /\ u[i - f[k]] = q[i]
  <2> TAKE i \in f[k] + 1 .. LastIn(c, f, k)
  <2>1. i - f[k] \in DOMAIN u /\ f[k] + (i - f[k]) = i
    BY <1>2, <1>3, <1>5
  <2> QED BY <1>12, <2>1
<1> QED BY <1>1, <1>2, <1>6, <1>8, <1>9, <1>10, <1>11, <1>12, <1>13 DEF IsPart, u, v
(* The lines of a section of the book are those of its part of the list. *)
LEMMA AllLinesAre ==
  ASSUME NEW book, NEW q, NEW c, NEW f, IsBook(book, q, c, f), NEW k \in DOMAIN c
  PROVE  /\ IsPart(q, c, f, k)
         /\ AllLinesOf(c[k]) = UNION {LinesOf(q[i]) : i \in f[k]..LastIn(c, f, k)}
<1> DEFINE I == f[k]..LastIn(c, f, k)
           u == c[k].sections
<1>1. IsPart(q, c, f, k)
  BY Parts
<1>2. ASSUME NEW x \in AllLinesOf(c[k]) PROVE \E i \in I : x \in LinesOf(q[i])
  <2>1. CASE x \in LinesOf(c[k])
    <3>1. f[k] \in I
      BY <1>1 DEF IsPart
    <3> QED BY <1>1, <2>1, <3>1 DEF IsPart
  <2>2. CASE \E j \in DOMAIN u : x \in LinesOf(u[j])
    <3>1. PICK j \in DOMAIN u : x \in LinesOf(u[j])
      BY <2>2
    <3>2. f[k] + j \in I /\ u[j] = q[f[k] + j]
      BY <1>1 DEF IsPart
    <3> QED BY <3>1, <3>2
  <2> QED BY <2>1, <2>2 DEF AllLinesOf
<1>3. ASSUME NEW i \in I, NEW x \in LinesOf(q[i]) PROVE x \in AllLinesOf(c[k])
  <2>1. CASE i = f[k]
    BY <1>1, <1>3, <2>1 DEF IsPart, AllLinesOf
  <2>2. CASE i # f[k]
    <3>1. i \in f[k] + 1 .. LastIn(c, f, k)
      BY <1>1, <2>2 DEF IsPart
    <3>2. i - f[k] \in DOMAIN u /\ u[i - f[k]] = q[i]
      BY <1>1, <3>1 DEF IsPart
    <3> QED BY <1>3, <3>2 DEF AllLinesOf
  <2> QED BY <2>1, <2>2
<1> QED BY <1>1, <1>2, <1>3

(* Every line is in the book once, in order. *)
LEMMA LinesAreKept ==
  ASSUME NEW book, NEW q, NEW c, NEW f, IsBook(book, q, c, f)
  PROVE  KeepsLines(book, c)
<1> DEFINE Kept == {i \in DOMAIN book.text : book.text[i] # "blank" /\ ~ IsLost(book, i)}
<1>1. /\ book.text \in Seq(Line) /\ IsFlat(book, q)
      /\ q \in Seq(FlatSection) /\ DOMAIN q = 1..Len(q) /\ Len(q) \in Nat
      /\ c \in Seq(TopSection) /\ DOMAIN c = 1..Len(c) /\ Len(c) \in Nat
  <2>1. /\ book.text \in Seq(Line) /\ IsFlat(book, q)
        /\ q \in Seq(FlatSection) /\ c \in Seq(TopSection)
    BY DEF IsBook, IsFlat, Placed
  <2>2. DOMAIN q = 1..Len(q) /\ Len(q) \in Nat
    BY <2>1
  <2>3. DOMAIN c = 1..Len(c) /\ Len(c) \in Nat
    BY <2>1
  <2> QED BY <2>1, <2>2, <2>3
<1>2. ASSUME NEW k \in DOMAIN c, NEW x \in AllLinesOf(c[k]) PROVE x \in Kept
  <2>1. PICK i \in f[k]..LastIn(c, f, k) : x \in LinesOf(q[i])
    BY AllLinesAre
  <2>2. IsPart(q, c, f, k)
    BY Parts
  <2>3. i \in DOMAIN q
    BY <1>1, <2>2 DEF IsPart
  <2> QED BY <1>1, <2>1, <2>3, FlatLines
<1>3. ASSUME NEW x \in Kept PROVE \E k \in DOMAIN c : x \in AllLinesOf(c[k])
  <2>1. x < Len(book.text) + 1
    BY <1>1, LinesAre
  <2>2. PICK i \in DOMAIN q : x \in LinesOf(q[i])
    BY <2>1 DEF IsBook, Covers
  <2>3. PICK k \in DOMAIN c : f[k] <= i /\ i <= LastIn(c, f, k)
    BY <1>1, <2>2 DEF IsBook, Placed
  <2>4. IsPart(q, c, f, k) /\ AllLinesOf(c[k]) = UNION {LinesOf(q[l]) : l \in f[k]..LastIn(c, f, k)}
    BY AllLinesAre
  <2>5. i \in f[k]..LastIn(c, f, k)
    BY <1>1, <2>2, <2>3, <2>4 DEF IsPart
  <2> QED BY <2>2, <2>4, <2>5
<1>4. ASSUME NEW k \in DOMAIN c, NEW l \in 1 .. k - 1
      PROVE  Before(AllLinesOf(c[l]), AllLinesOf(c[k]))
  <2>1. l \in DOMAIN c /\ k \in l + 1 .. Len(c)
    BY <1>1
  <2>2. IsPart(q, c, f, k) /\ AllLinesOf(c[k]) = UNION {LinesOf(q[i]) : i \in f[k]..LastIn(c, f, k)}
    BY AllLinesAre
  <2>3. IsPart(q, c, f, l) /\ AllLinesOf(c[l]) = UNION {LinesOf(q[i]) : i \in f[l]..LastIn(c, f, l)}
    BY <2>1, AllLinesAre
  <2>4. LastIn(c, f, l) < f[k]
    BY <1>1, <2>1 DEF IsBook, Placed, IsVolumeOf
  <2>5. ASSUME NEW x \in AllLinesOf(c[l]), NEW y \in AllLinesOf(c[k]) PROVE x < y
    <3>1. PICK i \in f[l]..LastIn(c, f, l) : x \in LinesOf(q[i])
      BY <2>3
    <3>2. PICK j \in f[k]..LastIn(c, f, k) : y \in LinesOf(q[j])
      BY <2>2
    <3>3. /\ f[k] \in Nat /\ f[l] \in Nat /\ f[k] > 0 /\ f[l] > 0
          /\ LastIn(c, f, k) \in Nat /\ LastIn(c, f, l) \in Nat
          /\ LastIn(c, f, k) <= Len(q) /\ LastIn(c, f, l) <= Len(q)
      BY <1>1, <2>2, <2>3 DEF IsPart
    <3>4. i \in 1..Len(q) /\ j \in 1..Len(q) /\ i < j
      BY ONLY <1>1, <2>4, <3>3
    <3>5. i \in DOMAIN q /\ j \in DOMAIN q /\ i < j
      BY <1>1, <3>4
    <3>6. Before(LinesOf(q[i]), LinesOf(q[j]))
      BY <1>1, <3>5, FlatBefore
    <3> QED BY <3>1, <3>2, <3>6 DEF Before
  <2> QED BY <2>5 DEF Before
<1>5. ASSUME NEW k \in DOMAIN c, NEW j \in DOMAIN c[k].sections
      PROVE  /\ InOrder(c[k].sections[j])
             /\ Before(LinesOf(c[k]), LinesOf(c[k].sections[j]))
             /\ \A l \in 1 .. j - 1 : Before(LinesOf(c[k].sections[l]), LinesOf(c[k].sections[j]))
  <2> DEFINE u == c[k].sections
  <2>1. IsPart(q, c, f, k)
    BY Parts
  <2>2. /\ j \in Nat /\ j > 0 /\ f[k] \in Nat /\ f[k] \in DOMAIN q /\ f[k] + j \in DOMAIN q
        /\ u[j] = q[f[k] + j] /\ f[k] < f[k] + j
    BY <2>1 DEF IsPart
  <2>3. InOrder(u[j])
    BY <1>1, <2>2 DEF IsFlat, Between
  <2>4. Before(LinesOf(c[k]), LinesOf(u[j]))
    <3>1. Before(LinesOf(q[f[k]]), LinesOf(q[f[k] + j]))
      BY <1>1, <2>2, FlatBefore
    <3> QED BY <2>1, <2>2, <3>1 DEF IsPart
  <2>5. ASSUME NEW l \in 1 .. j - 1 PROVE Before(LinesOf(u[l]), LinesOf(u[j]))
    <3>1. l \in DOMAIN u
      <4>1. c[k] \in TopSection
        BY <1>1
      <4>2. u \in Seq(FlatSection)
        BY <4>1 DEF TopSection
      <4>3. DOMAIN u = 1..Len(u) /\ Len(u) \in Nat
        BY <4>2
      <4> HIDE DEF u
      <4>4. j \in 1..Len(u)
        BY <4>3 DEF u
      <4> QED BY <4>3, <4>4
    <3>2. f[k] + l \in DOMAIN q /\ u[l] = q[f[k] + l] /\ f[k] + l < f[k] + j
      BY <2>1, <2>2, <3>1 DEF IsPart
    <3>3. Before(LinesOf(q[f[k] + l]), LinesOf(q[f[k] + j]))
      BY <1>1, <2>2, <3>2, FlatBefore
    <3> QED BY <2>2, <3>2, <3>3
  <2> QED BY <2>3, <2>4, <2>5
<1>6. \A k \in DOMAIN c : InOrder(c[k])
  <2> TAKE k \in DOMAIN c
  <2>1. IsPart(q, c, f, k)
    BY Parts
  <2> QED BY <2>1 DEF IsPart
<1>7. UNION {AllLinesOf(c[k]) : k \in DOMAIN c} = Kept
  BY <1>2, <1>3
<1> QED BY <1>4, <1>5, <1>6, <1>7 DEF KeepsLines

(* The text of a section is that between its title and the next. *)
LEMMA TextIsUnder ==
  ASSUME NEW book, NEW q, NEW c, NEW f, IsBook(book, q, c, f)
  PROVE  TextIsUnderItsTitle(book, c)
<1> DEFINE under(s) == \A n \in DOMAIN s.content :
                         TitleOf(book, s.content[n]) = IF s.title > 0 THEN s.title ELSE 0
<1>1. book.text \in Seq(Line) /\ IsFlat(book, q)
  BY DEF IsBook
<1>2. ASSUME NEW i \in DOMAIN q PROVE under(q[i])
  <2>1. /\ q[i].title \in Titles(book) \cup {UnknowTitle, NoTitle}
        /\ Between(book, q[i])
    BY <1>1 DEF IsFlat
  <2>2. ASSUME NEW n \in DOMAIN q[i].content
        PROVE  TitleOf(book, q[i].content[n]) = IF q[i].title > 0 THEN q[i].title ELSE 0
    <3>1. PICK x : x = q[i].content[n]
      OBVIOUS
    <3>2. PICK t : t = q[i].title
      OBVIOUS
    <3>3. PICK j : j = IF t > 0 THEN t ELSE 0
      OBVIOUS
    <3>4. /\ x \in DOMAIN book.text /\ t < x
          /\ \A k \in Titles(book) : k <= x => k <= t
      BY <2>1, <2>2, <3>1, <3>2 DEF Between, InOrder
    <3>5. x \in Nat /\ Titles(book) \subseteq Nat /\ \A k \in Titles(book) : k > 0
      BY <1>1, <3>4, LinesAre
    <3>6. t \in Titles(book) \cup {0, -1}
      BY <2>1, <3>2 DEF UnknowTitle, NoTitle
    <3>7. j \in Titles(book) \cup {0} /\ j <= x /\ t <= j
      BY <3>3, <3>4, <3>5, <3>6
    <3>8. \A k \in Titles(book) : k <= x => k <= j
      BY <3>4, <3>5, <3>6, <3>7
    <3>9. LastUpTo(Titles(book), x) = j
      BY <3>5, <3>7, <3>8, LastUpToIs
    <3> QED BY <3>1, <3>2, <3>3, <3>9 DEF TitleOf
  <2> QED BY <2>2
<1> HIDE DEF under
<1>3. ASSUME NEW k \in DOMAIN c
      PROVE  under(c[k]) /\ \A j \in DOMAIN c[k].sections : under(c[k].sections[j])
  <2>1. IsPart(q, c, f, k)
    BY Parts
  <2>2. under(q[f[k]])
    BY <1>2, <2>1 DEF IsPart
  <2>3. under(c[k])
    BY <2>1, <2>2 DEF IsPart, under
  <2>4. ASSUME NEW j \in DOMAIN c[k].sections PROVE under(c[k].sections[j])
    <3>1. f[k] + j \in DOMAIN q /\ c[k].sections[j] = q[f[k] + j]
      BY <2>1 DEF IsPart
    <3> QED BY <1>2, <3>1
  <2> QED BY <2>3, <2>4
<1> QED BY <1>3 DEF TextIsUnderItsTitle, under

\* a set of naturals has a last member up to any number
LEMMA LastUpToOk ==
  ASSUME NEW S, S \subseteq Nat, NEW i \in Nat
  PROVE  /\ LastUpTo(S, i) \in S \cup {0} /\ LastUpTo(S, i) <= i
         /\ \A k \in S : k <= i => k <= LastUpTo(S, i)
<1> DEFINE T == {n \in 0..i : i - n \in S \cup {0}}
<1>1. T \subseteq Nat /\ i \in T
  <2>1. i \in 0..i /\ i - i = 0
    OBVIOUS
  <2> QED BY <2>1
<1> HIDE DEF T
<1>2. PICK n \in T : \A m \in T : n <= m
  BY <1>1, Least
<1>3. PICK j : j = i - n
  OBVIOUS
<1>4. n \in 0..i /\ j \in S \cup {0} /\ j \in Nat /\ j <= i
  BY <1>2, <1>3 DEF T
<1>5. ASSUME NEW k \in S, k <= i PROVE k <= j
  <2>1. k \in Nat /\ i - k \in 0..i /\ i - (i - k) = k
    BY <1>5
  <2>2. i - k \in T
    BY <2>1 DEF T
  <2>3. n <= i - k
    BY <1>2, <2>2
  <2> QED BY <1>3, <1>4, <2>1, <2>3
<1>6. LastUpTo(S, i) = j
  BY <1>4, <1>5, LastUpToIs
<1> QED BY <1>4, <1>5, <1>6

Ends(book) == {j \in Titles(book) : IsVolume(book.text[j]) \/ book.text[j] = "extra"}

(* The titles that end a volume are those of the sections that end one. *)
LEMMA EndsAre ==
  ASSUME NEW book, book.text \in Seq(Line), NEW q, IsFlat(book, q),
         Covers(book, q, Len(book.text) + 1)
  PROVE  /\ Ends(book) \subseteq Nat
         /\ \A e \in Ends(book) : \E b \in DOMAIN q : q[b].title = e /\ EndsVolume(book, q[b])
         /\ \A b \in DOMAIN q : EndsVolume(book, q[b]) => q[b].title \in Ends(book)
<1>1. Ends(book) \subseteq Nat
  BY LinesAre DEF Ends
<1>2. ASSUME NEW e \in Ends(book)
      PROVE  \E b \in DOMAIN q : q[b].title = e /\ EndsVolume(book, q[b])
  <2>1. e \in Titles(book) /\ e \in DOMAIN book.text /\ book.text[e] # "blank"
        /\ e > 0 /\ e < Len(book.text) + 1
    BY LinesAre DEF Ends
  <2>2. book.text[e] # "unknown"
    BY DEF Ends, IsVolume
  <2>3. ~ IsLost(book, e)
    BY <2>2 DEF IsLost
  <2>4. PICK b \in DOMAIN q : e \in LinesOf(q[b])
    BY <2>1, <2>3 DEF Covers
  <2>5. e \notin ToSet(q[b].content)
    <3>1. Between(book, q[b])
      BY DEF IsFlat
    <3> QED BY <2>1, <3>1 DEF Between, ToSet
  <2>6. q[b].title = e
    BY <2>4, <2>5 DEF LinesOf
  <2> QED BY <2>1, <2>6 DEF Ends, EndsVolume, OpensVolume
<1>3. ASSUME NEW b \in DOMAIN q, EndsVolume(book, q[b]) PROVE q[b].title \in Ends(book)
  <2>1. q[b].title > 0
    BY <1>3 DEF EndsVolume, OpensVolume
  <2>2. q[b].title \in Titles(book)
    BY <2>1 DEF IsFlat, UnknowTitle, NoTitle
  <2> QED BY <1>3, <2>2 DEF Ends, EndsVolume, OpensVolume
<1> QED BY <1>1, <1>2, <1>3

(* Titles rise along the list. *)
LEMMA TitlesRise ==
  ASSUME NEW book, NEW q, IsFlat(book, q), NEW k \in DOMAIN q, NEW l \in DOMAIN q
  PROVE  /\ q[k].title \in Int
         /\ k < l => q[k].title < q[l].title
<1>1. q \in Seq(FlatSection) /\ DOMAIN q = 1..Len(q) /\ Len(q) \in Nat
  BY DEF IsFlat
<1>2. q[k] \in FlatSection
  BY <1>1
<1>3. q[k].title \in Int
  BY <1>2 DEF FlatSection
<1>4. ASSUME k < l PROVE q[k].title < q[l].title
  <2>1. k \in 1 .. l - 1
    BY <1>1, <1>4
  <2> QED BY <2>1 DEF IsFlat, Precedes
<1> QED BY <1>3, <1>4

(* Chapters are in the volume they follow. *)
LEMMA ChaptersAreIn ==
  ASSUME NEW book, NEW q, NEW c, NEW f, IsBook(book, q, c, f)
  PROVE  ChaptersAreInTheirVolume(book, c)
<1>1. /\ book.text \in Seq(Line) /\ IsFlat(book, q) /\ Covers(book, q, Len(book.text) + 1)
      /\ DOMAIN q = 1..Len(q) /\ Len(q) \in Nat /\ DOMAIN c = 1..Len(c)
  BY DEF IsBook, IsFlat, Placed
<1>2. /\ Ends(book) \subseteq Nat
      /\ \A e \in Ends(book) : \E b \in DOMAIN q : q[b].title = e /\ EndsVolume(book, q[b])
      /\ \A b \in DOMAIN q : EndsVolume(book, q[b]) => q[b].title \in Ends(book)
  BY <1>1, EndsAre
<1>3. ASSUME NEW i
      PROVE  VolumeOf(book, i) = IF book.volumes /\ LastUpTo(Ends(book), i) # 0
                                    /\ IsVolume(book.text[LastUpTo(Ends(book), i)])
                                 THEN LastUpTo(Ends(book), i) ELSE 0
  BY DEF VolumeOf, Ends
<1>4. ASSUME NEW k \in DOMAIN c, c[k].title > 0
      PROVE  VolumeOf(book, c[k].title) \in {0, c[k].title}
  <2> DEFINE a == f[k]
             t == q[a].title
             v == LastUpTo(Ends(book), t)
  <2>1. IsPart(q, c, f, k) /\ IsVolumeOf(book, q, c, f, k)
    BY <1>1, Parts DEF IsBook, Placed
  <2>2. a \in DOMAIN q /\ c[k].title = t /\ t \in Nat
    <3>1. a \in DOMAIN q /\ c[k].title = t
      BY <2>1 DEF IsPart
    <3>2. t \in Int
      BY <1>1, <3>1, TitlesRise
    <3> QED BY <1>4, <3>1, <3>2
  <2> HIDE DEF a, t
  <2>3. v \in Ends(book) \cup {0} /\ v <= t /\ \A e \in Ends(book) : e <= t => e <= v
    BY <1>2, <2>2, LastUpToOk
  <2> HIDE DEF v
  <2>4. ASSUME book.volumes, v # 0, IsVolume(book.text[v]), v # t PROVE FALSE
    <3>1. PICK b \in DOMAIN q : q[b].title = v
      BY <1>2, <2>3, <2>4
    <3>2. b \in Nat /\ a \in Nat /\ v \in Int /\ b > 0
      BY <1>1, <2>2, <3>1, TitlesRise
    <3>3. b < a
      <4>1. ASSUME a < b PROVE FALSE
        <5>1. t < v
          BY <1>1, <2>2, <3>1, <4>1, TitlesRise DEF t
        <5> QED BY <2>2, <2>3, <3>2, <5>1
      <4>2. a # b
        BY <2>4, <3>1 DEF t
      <4> QED BY <3>2, <4>1, <4>2
    <3>4. OpensVolume(book, q[b])
      <4>1. v > 0
        BY <1>2, <2>3, <2>4
      <4> QED BY <2>4, <3>1, <4>1 DEF OpensVolume
    <3>5. ASSUME NEW l \in b + 1 .. a, EndsVolume(book, q[l]) PROVE FALSE
      <4>1. l \in DOMAIN q /\ b < l /\ l <= a
        BY <1>1, <2>2, <3>2
      <4>2. q[l].title \in Ends(book) /\ q[l].title \in Int
        BY <1>1, <1>2, <3>5, <4>1, TitlesRise
      <4>3. q[l].title <= t
        <5>1. CASE l = a
          BY <2>2, <5>1 DEF t
        <5>2. CASE l # a
          <6>1. l < a
            BY <3>2, <4>1, <5>2
          <6>2. q[l].title < t
            BY <1>1, <2>2, <4>1, <6>1, TitlesRise DEF t
          <6> QED BY <2>2, <4>2, <6>2
        <5> QED BY <5>1, <5>2
      <4>4. q[l].title <= v
        BY <2>3, <4>2, <4>3
      <4>5. v < q[l].title
        BY <1>1, <3>1, <4>1, TitlesRise
      <4> QED BY <3>2, <4>2, <4>4, <4>5
    <3>6. InVolume(book, q, b, a)
      BY <2>4, <3>2, <3>3, <3>4, <3>5 DEF InVolume
    <3>7. b \in 1 .. a - 1
      BY <3>2, <3>3
    <3> QED BY <2>1, <3>6, <3>7 DEF IsVolumeOf, a
  <2> QED BY <1>3, <2>2, <2>4 DEF v
<1>5. ASSUME NEW k \in DOMAIN c, NEW j \in DOMAIN c[k].sections
      PROVE  /\ c[k].sections[j].title > 0
             /\ c[k].title > 0 /\ VolumeOf(book, c[k].sections[j].title) = c[k].title
  <2> DEFINE h == f[k]
             a == h + j
             t == q[a].title
             v == q[h].title
  <2>1. IsPart(q, c, f, k) /\ IsVolumeOf(book, q, c, f, k)
    BY <1>1, Parts DEF IsBook, Placed
  <2>2. /\ h \in DOMAIN q /\ h \in Nat /\ j \in Nat /\ j > 0 /\ a \in DOMAIN q
        /\ c[k].title = v /\ c[k].sections[j] = q[a]
    BY <2>1 DEF IsPart
  <2>3. InVolume(book, q, h, a)
    <3>1. c[k] \in TopSection
      BY <1>1 DEF IsBook, Placed
    <3>2. c[k].sections \in Seq(FlatSection)
      BY <3>1 DEF TopSection
    <3>3. j \in 1..Len(c[k].sections)
      BY <3>2
    <3> QED BY <2>1, <3>3 DEF IsVolumeOf
  <2>4. a \in Nat /\ a > 1 /\ h < a
    BY <1>1, <2>2
  <2> HIDE DEF a, h
  <2>5. t \in Int /\ v \in Int /\ v < t /\ t > 0
    BY <1>1, <2>2, <2>4, TitlesRise DEF IsFlat
  <2>6. v > 0 /\ IsVolume(book.text[v]) /\ book.volumes
    BY <2>3 DEF InVolume, OpensVolume
  <2>7. EndsVolume(book, q[h])
    BY <2>6 DEF EndsVolume, OpensVolume
  <2>8. v \in Ends(book)
    BY <1>2, <2>2, <2>7
  <2>9. ASSUME NEW e \in Ends(book), e <= t PROVE e <= v
    <3>1. PICK b \in DOMAIN q : q[b].title = e /\ EndsVolume(book, q[b])
      BY <1>2
    <3>2. b \in Nat /\ e \in Int
      BY <1>1, <3>1, TitlesRise
    <3>3. b <= a
      <4>1. ASSUME a < b PROVE FALSE
        <5>1. t < e
          BY <1>1, <2>2, <3>1, <4>1, TitlesRise
        <5> QED BY <2>5, <2>9, <3>2, <5>1
      <4> QED BY <2>4, <3>2, <4>1
    <3>4. b <= h
      <4>1. ASSUME h < b PROVE FALSE
        <5>1. b \in h + 1 .. a
          BY <2>2, <2>4, <3>2, <3>3, <4>1
        <5> QED BY <2>3, <3>1, <5>1 DEF InVolume
      <4> QED BY <2>2, <3>2, <4>1
    <3>5. CASE b = h
      BY <2>5, <3>1, <3>5
    <3>6. CASE b # h
      <4>1. b < h
        BY <2>2, <3>2, <3>4, <3>6
      <4>2. e < v
        BY <1>1, <2>2, <3>1, <4>1, TitlesRise
      <4> QED BY <2>5, <3>2, <4>2
    <3> QED BY <3>5, <3>6
  <2>10. LastUpTo(Ends(book), t) = v
    <3>1. t \in Nat /\ v <= t
      BY <2>5
    <3> HIDE DEF t, v
    <3> QED BY <1>2, <2>8, <2>9, <3>1, LastUpToIs
  <2>11. VolumeOf(book, t) = v
    <3>1. v # 0
      BY <2>5, <2>6
    <3> HIDE DEF t, v
    <3> QED BY <1>3, <2>6, <2>10, <3>1
  <2> QED BY <2>2, <2>5, <2>6, <2>11
<1> QED BY <1>4, <1>5 DEF ChaptersAreInTheirVolume
IsRight(book, sections) ==
  /\ KeepsLines(book, sections)
  /\ TextIsUnderItsTitle(book, sections)
  /\ ChaptersAreInTheirVolume(book, sections)

Tutorial == Section(TutorialTitle, <<>>)

\* d is c between two tutorials
IsWrapped(c, d) ==
  /\ DOMAIN d = 1 .. Len(c) + 2
  /\ d[1] = Tutorial /\ d[Len(c) + 2] = Tutorial
  /\ \A k \in 1..Len(c) : d[k + 1] = c[k]

(* The tutorial comes first and last, and the book between them. *)
LEMMA WrappedIs ==
  ASSUME NEW c \in Seq(TopSection)
  PROVE  IsWrapped(c, <<Tutorial>> \o c \o <<Tutorial>>)
<1>1. PICK t : t = Tutorial
  OBVIOUS
<1>2. TutorialTitle \in Int /\ <<>> \in Seq(Int)
  BY DEF TutorialTitle
<1>3. t \in TopSection
  BY <1>1, <1>2, SectionIs, FlatIsTop DEF Tutorial
<1>4. PICK one : one = <<t>>
  OBVIOUS
<1>5. one \in Seq(TopSection) /\ Len(one) = 1 /\ one[1] = t
  BY <1>3, <1>4
<1>6. PICK p : p = one \o c
  OBVIOUS
<1>7. /\ p \in Seq(TopSection) /\ Len(c) \in Nat /\ Len(p) = 1 + Len(c) /\ p[1] = t
      /\ \A k \in 1..Len(c) : p[1 + k] = c[k]
  <2>1. /\ p \in Seq(TopSection) /\ Len(c) \in Nat /\ Len(p) = Len(one) + Len(c)
        /\ \A k \in 1..Len(one) : p[k] = one[k]
        /\ \A k \in 1..Len(c) : p[Len(one) + k] = c[k]
    <3>1. p \in Seq(TopSection) /\ IsJoined(one, c, p)
      BY <1>5, <1>6, Joining
    <3> QED BY <3>1 DEF IsJoined
  <2>2. 1 \in 1..Len(one)
    BY <1>5
  <2> QED BY <1>5, <2>1, <2>2
<1>8. PICK d : d = p \o one
  OBVIOUS
<1>9. /\ d \in Seq(TopSection) /\ Len(d) = Len(p) + 1 /\ d[Len(p) + 1] = t
      /\ \A k \in 1..Len(p) : d[k] = p[k]
  <2>1. /\ d \in Seq(TopSection) /\ Len(d) = Len(p) + Len(one)
        /\ \A k \in 1..Len(p) : d[k] = p[k]
        /\ \A k \in 1..Len(one) : d[Len(p) + k] = one[k]
    <3>1. d \in Seq(TopSection) /\ IsJoined(p, one, d)
      BY <1>5, <1>7, <1>8, Joining
    <3> QED BY <3>1 DEF IsJoined
  <2>2. 1 \in 1..Len(one)
    BY <1>5
  <2> QED BY <1>5, <2>1, <2>2
<1>10. DOMAIN d = 1 .. Len(c) + 2
  <2>1. Len(d) = Len(c) + 2
    BY <1>7, <1>9
  <2> QED BY <1>9, <2>1
<1>11. d[1] = t /\ d[Len(c) + 2] = t
  <2>1. 1 \in 1..Len(p) /\ Len(p) + 1 = Len(c) + 2
    BY <1>7
  <2> QED BY <1>7, <1>9, <2>1
<1>12. \A k \in 1..Len(c) : d[k + 1] = c[k]
  <2> TAKE k \in 1..Len(c)
  <2>1. 1 + k \in 1..Len(p) /\ k + 1 = 1 + k
    BY <1>7
  <2> QED BY <1>7, <1>9, <2>1
<1>13. IsWrapped(c, d)
  BY <1>1, <1>10, <1>11, <1>12 DEF IsWrapped
<1> QED BY <1>1, <1>4, <1>6, <1>8, <1>13

(* The tutorial adds no line. *)
LEMMA WrappedIsRight ==
  ASSUME NEW book, NEW c \in Seq(TopSection), IsRight(book, c), NEW d, IsWrapped(c, d)
  PROVE  IsRight(book, d)
<1> DEFINE n == Len(c)
           t == Tutorial
<1>1. n \in Nat /\ DOMAIN c = 1..n
  OBVIOUS
<1>2. t.title = -2 /\ t.content = <<>> /\ t.sections = <<>>
  BY DEF Tutorial, TutorialTitle, Section
<1>3. LinesOf(t) = {} /\ AllLinesOf(t) = {} /\ InOrder(t) /\ DOMAIN t.content = {} /\ DOMAIN t.sections = {}
  <2>1. DOMAIN t.content = {} /\ DOMAIN t.sections = {}
    BY <1>2
  <2> HIDE DEF t
  <2>2. ToSet(t.content) = {}
    BY <2>1 DEF ToSet
  <2>3. LinesOf(t) = {}
    BY <1>2, <2>2 DEF LinesOf
  <2> QED BY <2>1, <2>3 DEF AllLinesOf, InOrder
<1> HIDE DEF n, t
<1>4. ASSUME NEW k \in DOMAIN d PROVE d[k] = t \/ (k - 1 \in DOMAIN c /\ d[k] = c[k - 1])
  <2>1. k \in 1 .. n + 2
    BY DEF IsWrapped, n
  <2>2. CASE k = 1 \/ k = n + 2
    BY <2>2 DEF IsWrapped, n, t
  <2>3. CASE ~ (k = 1 \/ k = n + 2)
    <3>1. k - 1 \in 1..n /\ (k - 1) + 1 = k
      BY <1>1, <2>1, <2>3
    <3> QED BY <1>1, <3>1 DEF IsWrapped, n
  <2> QED BY <2>2, <2>3
<1>5. ASSUME NEW k \in DOMAIN c PROVE k + 1 \in DOMAIN d /\ d[k + 1] = c[k]
  BY <1>1 DEF IsWrapped, n
<1>6. KeepsLines(book, d)
  <2>1. UNION {AllLinesOf(d[k]) : k \in DOMAIN d} = UNION {AllLinesOf(c[k]) : k \in DOMAIN c}
    BY <1>3, <1>4, <1>5
  <2>2. ASSUME NEW k \in DOMAIN d, NEW l \in 1 .. k - 1 PROVE Before(AllLinesOf(d[l]), AllLinesOf(d[k]))
    <3>1. l \in DOMAIN d /\ k \in Int
      BY <1>1 DEF IsWrapped, n
    <3>2. CASE d[k] = t \/ d[l] = t
      BY <1>3, <3>2 DEF Before
    <3>3. CASE k - 1 \in DOMAIN c /\ d[k] = c[k - 1] /\ l - 1 \in DOMAIN c /\ d[l] = c[l - 1]
      <4>1. l - 1 \in 1 .. (k - 1) - 1
        BY <1>1, <3>1, <3>3
      <4>2. Before(AllLinesOf(c[l - 1]), AllLinesOf(c[k - 1]))
        BY <3>3, <4>1 DEF IsRight, KeepsLines
      <4> QED BY <3>3, <4>2
    <3> QED BY <1>4, <3>1, <3>2, <3>3
  <2>3. ASSUME NEW k \in DOMAIN d
        PROVE  /\ InOrder(d[k])
               /\ \A j \in DOMAIN d[k].sections :
                    /\ InOrder(d[k].sections[j])
                    /\ Before(LinesOf(d[k]), LinesOf(d[k].sections[j]))
                    /\ \A l \in 1 .. j - 1 : Before(LinesOf(d[k].sections[l]), LinesOf(d[k].sections[j]))
    <3>1. CASE d[k] = t
      BY <1>3, <3>1
    <3>2. CASE k - 1 \in DOMAIN c /\ d[k] = c[k - 1]
      BY <3>2 DEF IsRight, KeepsLines
    <3> QED BY <1>4, <3>1, <3>2
  <2> QED BY <2>1, <2>2, <2>3 DEF IsRight, KeepsLines
<1>7. TextIsUnderItsTitle(book, d)
  <2> DEFINE under(s) == \A m \in DOMAIN s.content :
                           TitleOf(book, s.content[m]) = IF s.title > 0 THEN s.title ELSE 0
  <2>1. ASSUME NEW k \in DOMAIN d
        PROVE  under(d[k]) /\ \A j \in DOMAIN d[k].sections : under(d[k].sections[j])
    <3>1. CASE d[k] = t
      BY <1>3, <3>1
    <3>2. CASE k - 1 \in DOMAIN c /\ d[k] = c[k - 1]
      BY <3>2 DEF IsRight, TextIsUnderItsTitle
    <3> QED BY <1>4, <3>1, <3>2
  <2> QED BY <2>1 DEF TextIsUnderItsTitle
<1>8. ChaptersAreInTheirVolume(book, d)
  <2>1. ASSUME NEW k \in DOMAIN d
        PROVE  /\ d[k].title > 0 => VolumeOf(book, d[k].title) \in {0, d[k].title}
               /\ \A j \in DOMAIN d[k].sections :
                    /\ d[k].sections[j].title > 0
                    /\ d[k].title > 0 /\ VolumeOf(book, d[k].sections[j].title) = d[k].title
    <3>1. CASE d[k] = t
      BY <1>2, <1>3, <3>1
    <3>2. CASE k - 1 \in DOMAIN c /\ d[k] = c[k - 1]
      BY <3>2 DEF IsRight, ChaptersAreInTheirVolume
    <3> QED BY <1>4, <3>1, <3>2
  <2> QED BY <2>1 DEF ChaptersAreInTheirVolume
<1> QED BY <1>6, <1>7, <1>8 DEF IsRight

(* What Parse makes of a text is a book of that text. *)
LEMMA ParseIsRight ==
  ASSUME NEW book, book.text \in Seq(Line)
  PROVE  IsRight(book, Parse(book))
<1> DEFINE q == Cut(book.text, book.terminated)
           c == Group(book.text, book.volumes, q)
           d == <<Tutorial>> \o c \o <<Tutorial>>
<1>1. IsFlat(book, q) /\ Covers(book, q, Len(book.text) + 1)
  BY CutIsFlat
<1> HIDE DEF q
<1>2. q \in Seq(FlatSection)
  BY <1>1 DEF IsFlat
<1>3. PICK f : Placed(book, q, Len(q), c, f)
  BY <1>2, GroupPlaces
<1> HIDE DEF c
<1>4. IsBook(book, q, c, f)
  BY <1>1, <1>3 DEF IsBook
<1>5. IsRight(book, c)
  BY <1>4, LinesAreKept, TextIsUnder, ChaptersAreIn DEF IsRight
<1>6. c \in Seq(TopSection)
  BY <1>3 DEF Placed
<1>7. IsRight(book, d)
  <2>1. IsWrapped(c, d)
    BY <1>6, WrappedIs
  <2> HIDE DEF d
  <2> QED BY <1>5, <1>6, <2>1, WrappedIsRight
<1>8. Parse(book) = IF book.tips THEN d ELSE c
  BY DEF Parse, Tutorial, c, q
<1> QED BY <1>5, <1>7, <1>8

(* A task that has been parsed has the book of its text. *)
BookInv ==
  /\ CompleteInv
  /\ \A t \in Task : Parsed(t) => sectionList[t] = Parse(request[t])

(* No task has been parsed at first. *)
LEMMA BookInit == Init => BookInv
BY CompleteInit DEF Init, BookInv, Parsed

(* Only ParseText writes a book, and nothing changes the request it was    *)
(* made from.                                                              *)
LEMMA BookStep == BookInv /\ [Next]_vars => BookInv'
<1> SUFFICES ASSUME BookInv, [Next]_vars PROVE BookInv'
  OBVIOUS
<1>1. CompleteInv'
  BY CompleteStep DEF BookInv
<1>2. pc \in [Task -> {"parse", "build", "write", "stat", "save", "complete", "completed",
                       "failed", "removed"}]
      /\ DOMAIN sectionList = Task
  BY DEF BookInv, CompleteInv
<1>3. ASSUME NEW t \in Task, UNCHANGED <<request, sectionList>>, Parsed(t),
             pc' = pc \/ \E to : pc' = [pc EXCEPT ![t] = to]
      PROVE  BookInv'
  <2>1. ASSUME NEW u \in Task, Parsed(u)' PROVE Parsed(u)
    BY <1>2, <1>3, <2>1 DEF Parsed
  <2>2. \A u \in Task : Parsed(u)' => sectionList'[u] = Parse(request'[u])
    BY <1>3, <2>1 DEF BookInv
  <2> QED BY <1>1, <2>2 DEF BookInv
<1>4. ASSUME NEW t \in Task, Convert(t) PROVE BookInv'
  <2>1. CASE ParseText(t)
    <3>1. /\ request' = request
          /\ sectionList' = [sectionList EXCEPT ![t] = Parse(request[t])]
          /\ pc' = [pc EXCEPT ![t] = "build"]
      BY <2>1 DEF ParseText
    <3>2. ASSUME NEW u \in Task, Parsed(u)' PROVE sectionList'[u] = Parse(request'[u])
      <4>1. CASE u = t
        BY <1>2, <3>1, <4>1
      <4>2. CASE u # t
        BY <1>2, <3>1, <3>2, <4>2 DEF BookInv, Parsed
      <4> QED BY <4>1, <4>2
    <3> QED BY <1>1, <3>2 DEF BookInv
  <2>2. CASE OpenOutput(t) \/ OpenFails(t) \/ CloseOutput(t) \/ WriteFails(t)
    BY <1>3, <2>2 DEF OpenOutput, OpenFails, CloseOutput, WriteFails, Fail, Parsed
  <2>3. CASE Collect(t) \/ CopyFile(t) \/ CopyFails(t) \/ Complete(t)
    BY <1>3, <2>3 DEF Collect, CopyFile, CopyFails, Complete, Fail, Parsed
  <2> QED BY <1>4, <2>1, <2>2, <2>3 DEF Convert
<1>5. ASSUME NEW t \in Task, CleanupTask(t) PROVE BookInv'
  <2>1. CASE pc[t] \in {"completed", "failed"}
    BY <1>3, <1>5, <2>1 DEF CleanupTask, RemoveTask, Parsed
  <2>2. CASE pc[t] \notin {"completed", "failed"}
    <3>1. UNCHANGED <<request, sectionList, pc>>
      BY <1>5, <2>2 DEF CleanupTask, RemoveTask
    <3> QED BY <1>1, <3>1 DEF BookInv, Parsed
  <2> QED BY <2>1, <2>2
<1>6. CASE UNCHANGED vars
  BY <1>1, <1>6 DEF vars, BookInv, Parsed
<1> QED BY <1>4, <1>5, <1>6 DEF Next

(* The book of a task has every line of its text once and in order, under  *)
(* its title and in its volume, for texts of any length.                   *)
THEOREM BooksAreTheTexts == Spec => []BookIsTheText
<1>1. ASSUME BookInv, NEW t \in Task, Parsed(t)
      PROVE  IsRight(request[t], sectionList[t])
  <2>1. request[t].text \in Seq(Line)
    BY <1>1, RequestsAssumption DEF BookInv, CompleteInv
  <2> QED BY <1>1, <2>1, ParseIsRight DEF BookInv
<1>2. BookInv => BookIsTheText
  BY <1>1 DEF BookIsTheText, IsRight
<1> QED BY <1>2, BookInit, BookStep, PTL DEF Spec

-----------------------------------------------------------------------------
(* Requests: each is somewhere in its handler with the arguments it has    *)
(* there, and is about a user that exists.                                 *)

AccountsAssumption ==
  Accounts!AdminAssumption /\ Accounts!BoundsAssumption /\ Accounts!NilAssumption

PresetState == [at : {"unset", "write"}, user : Accounts!UserID, preset : Nat,
                isDefault : BOOLEAN, alone : BOOLEAN]

UserState ==
  [at : {"save"}, user : Accounts!UserID, row : Accounts!User]
    \cup [at : {"check email", "update email"}, user : Accounts!UserID, row : Accounts!User, email : Email]
    \cup [at : {"update password"}, user : Accounts!UserID, password : Password]

FreeState == {Accounts!Idle} \cup [at : {"insert user"}, row : Accounts!User]

RequestsOK ==
  /\ req \in [Request -> FreeState \cup UserState \cup PresetState]
  /\ \A r \in Request : req[r] \in UserState \cup PresetState => req[r].user \in DOMAIN users
  /\ \A r \in Request : req[r] \in PresetState => req[r].preset \in 0..Len(presets)

TablesOK ==
  /\ users \in Seq(Accounts!User) /\ Len(users) <= MaxUsers
  /\ presets \in Seq(Accounts!Preset \cup {Nil})
  /\ owed \in [Accounts!UserID -> [email : Email \cup {Nil}, password : Password \cup {Nil}]]
  /\ tidy \in SUBSET Accounts!UserID
  /\ chosen \in [Accounts!UserID -> Nat \cup {Nil}]

AccountsType == TablesOK /\ RequestsOK

(* The stages tell the kinds of requests apart. *)
LEMMA Stages ==
  /\ \A s \in FreeState : s.at \in {"idle", "insert user"} /\ (s.at = "insert user" => s.row \in Accounts!User)
  /\ \A s \in UserState :
       /\ s.at \in {"save", "check email", "update email", "update password"}
       /\ s.user \in Accounts!UserID
       /\ s.at # "update password" => s.row \in Accounts!User
       /\ s.at \in {"check email", "update email"} => s.email \in Email
       /\ s.at = "update password" => s.password \in Password
  /\ \A s \in PresetState :
       /\ s.at \in {"unset", "write"}
       /\ s.user \in Accounts!UserID /\ s.preset \in Nat
       /\ s.isDefault \in BOOLEAN /\ s.alone \in BOOLEAN
<1>1. \A s \in FreeState : s.at \in {"idle", "insert user"} /\ (s.at = "insert user" => s.row \in Accounts!User)
  <2>1. Accounts!Idle.at = "idle"
    BY DEF Accounts!Idle
  <2>2. \A s \in [at : {"insert user"}, row : Accounts!User] : s.at = "insert user" /\ s.row \in Accounts!User
    OBVIOUS
  <2> QED BY <2>1, <2>2 DEF FreeState
<1>2. \A s \in UserState :
       /\ s.at \in {"save", "check email", "update email", "update password"}
       /\ s.user \in Accounts!UserID
       /\ s.at # "update password" => s.row \in Accounts!User
       /\ s.at \in {"check email", "update email"} => s.email \in Email
       /\ s.at = "update password" => s.password \in Password
  BY DEF UserState
<1>3. \A s \in PresetState :
       /\ s.at \in {"unset", "write"}
       /\ s.user \in Accounts!UserID /\ s.preset \in Nat
       /\ s.isDefault \in BOOLEAN /\ s.alone \in BOOLEAN
  BY DEF PresetState
<1> QED BY <1>1, <1>2, <1>3

(* In the beginning there is the administrator. *)
LEMMA AccountsTypeInit ==
  ASSUME AccountsAssumption PROVE Accounts!Init => AccountsType
<1> SUFFICES ASSUME Accounts!Init PROVE AccountsType
  OBVIOUS
<1>1. RequestsOK
  BY Stages DEF Accounts!Init, RequestsOK, FreeState, Accounts!Idle
<1>2. users \in Seq(Accounts!User) /\ Len(users) <= MaxUsers
  BY DEF Accounts!Init, AccountsAssumption, Accounts!AdminAssumption, Accounts!BoundsAssumption
<1>3. owed \in [Accounts!UserID -> [email : Email \cup {Nil}, password : Password \cup {Nil}]]
  BY DEF Accounts!Init, AccountsAssumption, Accounts!AdminAssumption, Accounts!User
<1> QED BY <1>1, <1>2, <1>3 DEF Accounts!Init, AccountsType, TablesOK

(* A request moves to a state with arguments that fit the tables.          *)
LEMMA RequestMoves ==
  ASSUME RequestsOK, NEW r \in Request, NEW s \in FreeState \cup UserState \cup PresetState,
         req' = [req EXCEPT ![r] = s],
         s \in UserState \cup PresetState => s.user \in DOMAIN users',
         s \in PresetState => s.preset \in 0..Len(presets'),
         DOMAIN users \subseteq DOMAIN users', 0..Len(presets) \subseteq 0..Len(presets')
  PROVE  RequestsOK'
BY DEF RequestsOK

(* A request that ends keeps the arguments of the others. *)
LEMMA RequestEnds ==
  ASSUME RequestsOK, NEW r \in Request, NEW from, Accounts!Return(r, from),
         DOMAIN users \subseteq DOMAIN users', 0..Len(presets) \subseteq 0..Len(presets')
  PROVE  RequestsOK'
<1>1. Accounts!Idle \in FreeState /\ Accounts!Idle \notin UserState \cup PresetState
  BY DEF FreeState, UserState, PresetState, Accounts!Idle
<1> QED BY <1>1, RequestMoves DEF Accounts!Return

(* A request that begins has arguments that fit the tables. *)
LEMMA BeginsOK ==
  ASSUME AccountsAssumption, AccountsType, NEW r \in Request,
         Accounts!Register(r) \/ Accounts!Login(r) \/ Accounts!UpdateProfile(r) \/ Accounts!ChangePassword(r)
  PROVE  /\ AccountsType'
         /\ UNCHANGED <<users, presets, owed, tidy, chosen>>
         /\ \E s \in FreeState \cup UserState :
              /\ req' = [req EXCEPT ![r] = s] /\ req[r] = Accounts!Idle
              /\ s.at = "save" => s.row = users[s.user]
<1>1. UNCHANGED <<users, presets, owed, tidy, chosen>>
  BY DEF Accounts!Register, Accounts!Login, Accounts!UpdateProfile, Accounts!ChangePassword, Accounts!promises
<1>2. \A i \in DOMAIN users : i \in Accounts!UserID /\ users[i] \in Accounts!User
  BY DEF AccountsType, TablesOK, AccountsAssumption, Accounts!UserID, Accounts!BoundsAssumption
<1>3. \E s \in FreeState \cup UserState :
         /\ req' = [req EXCEPT ![r] = s] /\ req[r] = Accounts!Idle
         /\ s \in UserState => s.user \in DOMAIN users
         /\ s.at = "save" => s.row = users[s.user]
  <2>1. CASE Accounts!Register(r)
    <3>1. PICK row \in Accounts!User : Accounts!Begin(r, [at |-> "insert user", row |-> row])
      BY <2>1 DEF Accounts!Register
    <3> DEFINE s == [at |-> "insert user", row |-> row]
    <3>2. s \in FreeState
      BY DEF FreeState
    <3>3. s \notin UserState /\ s.at # "save"
      BY Stages
    <3> QED BY <3>1, <3>2, <3>3 DEF Accounts!Begin
  <2>2. CASE Accounts!Login(r)
    <3>1. PICK i \in DOMAIN users : Accounts!Begin(r, [at |-> "save", user |-> i, row |-> users[i]])
      BY <2>2 DEF Accounts!Login
    <3> DEFINE s == [at |-> "save", user |-> i, row |-> users[i]]
    <3>2. /\ s \in UserState /\ s.user \in DOMAIN users
          /\ s.at = "save" => s.row = users[s.user]
      BY <1>2 DEF UserState
    <3>3. req' = [req EXCEPT ![r] = s] /\ req[r] = Accounts!Idle
      BY <3>1 DEF Accounts!Begin
    <3> QED BY <3>2, <3>3
  <2>3. CASE Accounts!UpdateProfile(r)
    <3>1. PICK i \in DOMAIN users, e \in Email, at \in {"update email", "check email"} :
            Accounts!Begin(r, [at |-> at, user |-> i, row |-> users[i], email |-> e])
      BY <2>3 DEF Accounts!UpdateProfile
    <3> DEFINE s == [at |-> at, user |-> i, row |-> users[i], email |-> e]
    <3>2. s \in UserState /\ s.at # "save"
      BY <1>2 DEF UserState
    <3> QED BY <3>1, <3>2 DEF Accounts!Begin
  <2>4. CASE Accounts!ChangePassword(r)
    <3>1. PICK i \in DOMAIN users, p \in Password :
            Accounts!Begin(r, [at |-> "update password", user |-> i, password |-> p])
      BY <2>4 DEF Accounts!ChangePassword
    <3> DEFINE s == [at |-> "update password", user |-> i, password |-> p]
    <3>2. /\ s \in UserState /\ s.user \in DOMAIN users
          /\ s.at = "save" => s.row = users[s.user]
      BY <1>2 DEF UserState
    <3>3. req' = [req EXCEPT ![r] = s] /\ req[r] = Accounts!Idle
      BY <3>1 DEF Accounts!Begin
    <3> QED BY <3>2, <3>3
  <2> QED BY <2>1, <2>2, <2>3, <2>4
<1>4. PICK s \in FreeState \cup UserState :
         /\ req' = [req EXCEPT ![r] = s] /\ req[r] = Accounts!Idle
         /\ s \in UserState => s.user \in DOMAIN users
         /\ s.at = "save" => s.row = users[s.user]
  BY <1>3
<1>5. s \notin PresetState
  BY Stages
<1>6. RequestsOK'
  BY <1>1, <1>4, <1>5, RequestMoves DEF AccountsType
<1> QED BY <1>1, <1>4, <1>6 DEF AccountsType, TablesOK

-----------------------------------------------------------------------------
(* Updates: what a user is owed is in his row, and in the row that a login *)
(* of his is about to save.                                                *)

HeldOK ==
  \A i \in DOMAIN users : \A column \in {"email", "password"} :
    owed[i][column] # Nil =>
      /\ users[i][column] = owed[i][column]
      /\ \A r \in Request : req[r].at = "save" /\ req[r].user = i => req[r].row[column] = owed[i][column]

UpdateInv == AccountsType /\ HeldOK

\* a step of a request that is none of the preset requests
NotPreset(r) ==
  /\ UNCHANGED <<presets, tidy, chosen>>
  /\ \E s \in FreeState \cup UserState :
       req[r] \in FreeState \cup UserState /\ req' = [req EXCEPT ![r] = s]

(* A request at a stage of its own has the state of that stage. *)
LEMMA StageState ==
  ASSUME RequestsOK, NEW r \in Request
  PROVE  /\ req[r].at \in {"idle", "insert user"} => req[r] \in FreeState
         /\ req[r].at \in {"save", "check email", "update email", "update password"} =>
              req[r] \in UserState /\ req[r].user \in DOMAIN users
         /\ req[r].at \in {"unset", "write"} =>
              req[r] \in PresetState /\ req[r].user \in DOMAIN users /\ req[r].preset \in 0..Len(presets)
BY Stages DEF RequestsOK

(* The row of a new user is owed to him; nobody else's changes.            *)
LEMMA InsertUserHolds ==
  ASSUME AccountsAssumption, UpdateInv, NEW r \in Request, Accounts!InsertUser(r)
  PROVE  UpdateInv' /\ NotPreset(r)
<1>1. /\ req[r].at = "insert user" /\ req[r] \in FreeState /\ req[r].row \in Accounts!User
      /\ req' = [req EXCEPT ![r] = Accounts!Idle]
      /\ UNCHANGED <<presets, tidy, chosen>>
  BY StageState, Stages DEF Accounts!InsertUser, Accounts!Return, UpdateInv, AccountsType
<1>2. Accounts!Idle \in FreeState /\ Accounts!Idle.at = "idle"
  BY DEF FreeState, Accounts!Idle
<1>3. NotPreset(r)
  BY <1>1, <1>2 DEF NotPreset
<1>4. \A q \in Request : req'[q].at = "save" => q # r /\ req'[q] = req[q]
  BY <1>1, <1>2 DEF UpdateInv, AccountsType, RequestsOK
<1>5. CASE UNCHANGED <<users, owed>>
  <2>1. RequestsOK'
    BY <1>1, <1>5, RequestEnds DEF Accounts!InsertUser, UpdateInv, AccountsType
  <2>2. HeldOK'
    BY <1>4, <1>5 DEF UpdateInv, HeldOK
  <2>3. TablesOK'
    BY <1>1, <1>5 DEF UpdateInv, AccountsType, TablesOK
  <2> QED BY <1>3, <2>1, <2>2, <2>3 DEF UpdateInv, AccountsType
<1>6. CASE /\ Len(users) < MaxUsers
           /\ users' = Append(users, req[r].row)
           /\ owed' = [owed EXCEPT ![Len(users) + 1] =
                         [email |-> req[r].row.email, password |-> req[r].row.password]]
  <2> DEFINE n == Len(users) + 1
             row == req[r].row
             due == [email |-> row.email, password |-> row.password]
  <2>1. /\ Len(users) \in Nat /\ DOMAIN users = 1..Len(users) /\ n \in Accounts!UserID
        /\ users' \in Seq(Accounts!User) /\ Len(users') = n /\ DOMAIN users' = 1..n
        /\ users'[n] = row /\ \A i \in DOMAIN users : users'[i] = users[i]
        /\ n \notin DOMAIN users /\ n <= MaxUsers
    <3>1. users \in Seq(Accounts!User) /\ row \in Accounts!User /\ MaxUsers \in Nat /\ users' = Append(users, row)
      BY <1>1, <1>6 DEF UpdateInv, AccountsType, TablesOK, AccountsAssumption, Accounts!BoundsAssumption
    <3>2. Len(users) \in Nat /\ DOMAIN users = 1..Len(users)
      BY <3>1
    <3>3. n \in Accounts!UserID /\ n \notin DOMAIN users /\ n <= MaxUsers
      BY <1>6, <3>1, <3>2 DEF Accounts!UserID
    <3> HIDE DEF row
    <3>4. /\ users' \in Seq(Accounts!User) /\ Len(users') = n /\ DOMAIN users' = 1..n
          /\ users'[n] = row /\ \A i \in DOMAIN users : users'[i] = users[i]
      BY <3>1
    <3> QED BY <3>2, <3>3, <3>4
  <2>2. DOMAIN users \subseteq DOMAIN users' /\ \A i \in DOMAIN users' : i \in DOMAIN users \/ i = n
    BY <2>1
  <2>3. due \in [email : Email \cup {Nil}, password : Password \cup {Nil}] /\ due.email = row.email /\ due.password = row.password
    BY <1>1 DEF Accounts!User
  <2> HIDE DEF n, due
  <2>4. owed' = [owed EXCEPT ![n] = due]
    BY <1>6 DEF n, due
  <2>5. /\ owed' \in [Accounts!UserID -> [email : Email \cup {Nil}, password : Password \cup {Nil}]]
        /\ owed'[n] = due /\ \A i \in DOMAIN users : owed'[i] = owed[i]
    BY <2>1, <2>3, <2>4 DEF UpdateInv, AccountsType, TablesOK
  <2>6. RequestsOK'
    BY <1>1, <2>2, RequestEnds DEF Accounts!InsertUser, UpdateInv, AccountsType
  <2>7. TablesOK'
    BY <1>1, <2>1, <2>5 DEF UpdateInv, AccountsType, TablesOK
  <2>8. HeldOK'
    <3>1. ASSUME NEW i \in DOMAIN users', NEW column \in {"email", "password"}, owed'[i][column] # Nil
          PROVE  /\ users'[i][column] = owed'[i][column]
                 /\ \A q \in Request : req'[q].at = "save" /\ req'[q].user = i => req'[q].row[column] = owed'[i][column]
      <4>1. CASE i = n
        <5>1. \A q \in Request : req[q].at = "save" => req[q].user \in DOMAIN users
          BY StageState DEF UpdateInv, AccountsType
        <5> QED BY <1>4, <2>1, <2>3, <2>5, <4>1, <5>1
      <4>2. CASE i \in DOMAIN users
        BY <1>4, <2>1, <2>5, <3>1, <4>2 DEF UpdateInv, HeldOK
      <4> QED BY <2>2, <4>1, <4>2
    <3> QED BY <3>1 DEF HeldOK
  <2> QED BY <1>3, <2>6, <2>7, <2>8 DEF UpdateInv, AccountsType
<1> QED BY <1>5, <1>6 DEF Accounts!InsertUser

(* A login reads the row as it is owed ... *)
LEMMA BeginHolds ==
  ASSUME AccountsAssumption, UpdateInv, NEW r \in Request,
         Accounts!Register(r) \/ Accounts!Login(r) \/ Accounts!UpdateProfile(r) \/ Accounts!ChangePassword(r)
  PROVE  UpdateInv' /\ NotPreset(r)
<1>1. /\ AccountsType'
      /\ UNCHANGED <<users, presets, owed, tidy, chosen>>
  BY BeginsOK DEF UpdateInv
<1>2. PICK s \in FreeState \cup UserState :
        /\ req' = [req EXCEPT ![r] = s] /\ req[r] = Accounts!Idle
        /\ s.at = "save" => s.row = users[s.user]
  BY BeginsOK DEF UpdateInv
<1>3. NotPreset(r)
  BY <1>1, <1>2 DEF NotPreset, FreeState
<1>4. HeldOK'
  BY <1>1, <1>2 DEF HeldOK, UpdateInv, AccountsType, RequestsOK
<1> QED BY <1>1, <1>3, <1>4 DEF UpdateInv

(* ... and writes it back. *)
LEMMA SaveUserHolds ==
  ASSUME AccountsAssumption, UpdateInv, NEW r \in Request, Accounts!SaveUser(r)
  PROVE  UpdateInv' /\ NotPreset(r)
<1>1. /\ req[r].at = "save" /\ req[r] \in UserState /\ req[r].user \in DOMAIN users
      /\ req[r].row \in Accounts!User
      /\ req' = [req EXCEPT ![r] = Accounts!Idle]
      /\ UNCHANGED <<presets, owed, tidy, chosen>>
  BY StageState, Stages DEF Accounts!SaveUser, Accounts!Return, Accounts!promises, UpdateInv, AccountsType
<1>2. Accounts!Idle \in FreeState /\ Accounts!Idle.at = "idle"
  BY DEF FreeState, Accounts!Idle
<1>3. NotPreset(r)
  BY <1>1, <1>2 DEF NotPreset
<1>4. \A q \in Request : req'[q].at = "save" => q # r /\ req'[q] = req[q]
  BY <1>1, <1>2 DEF UpdateInv, AccountsType, RequestsOK
<1>5. /\ users' \in Seq(Accounts!User) /\ Len(users') = Len(users) /\ DOMAIN users' = DOMAIN users
      /\ \A i \in DOMAIN users : users'[i] = users[i] \/ (i = req[r].user /\ users'[i] = req[r].row)
  <2>1. users \in Seq(Accounts!User)
    BY DEF UpdateInv, AccountsType, TablesOK
  <2>2. CASE users' = [users EXCEPT ![req[r].user] = req[r].row]
    BY ONLY <1>1, <2>1, <2>2
  <2>3. CASE users' = users
    BY ONLY <2>1, <2>3
  <2>4. users' = [users EXCEPT ![req[r].user] = req[r].row] \/ users' = users
    BY DEF Accounts!SaveUser
  <2> QED BY <2>2, <2>3, <2>4
<1>6. RequestsOK'
  BY <1>1, <1>5, RequestEnds DEF Accounts!SaveUser, UpdateInv, AccountsType
<1>7. HeldOK'
  BY <1>1, <1>4, <1>5 DEF UpdateInv, HeldOK
<1> QED BY <1>1, <1>3, <1>5, <1>6, <1>7 DEF UpdateInv, AccountsType, TablesOK

(* Looking the address up changes nothing. *)
LEMMA CheckEmailHolds ==
  ASSUME AccountsAssumption, UpdateInv, NEW r \in Request, Accounts!CheckEmail(r)
  PROVE  UpdateInv' /\ NotPreset(r)
<1>1. /\ req[r].at = "check email" /\ req[r] \in UserState /\ req[r].user \in DOMAIN users
      /\ UNCHANGED <<users, presets, owed, tidy, chosen>>
  BY StageState DEF Accounts!CheckEmail, Accounts!Goto, Accounts!Return, Accounts!promises, UpdateInv, AccountsType
<1> DEFINE s == [req[r] EXCEPT !.at = "update email"]
<1>2. s \in UserState /\ s.at = "update email" /\ s.user = req[r].user
  BY <1>1 DEF UserState
<1>3. Accounts!Idle \in FreeState /\ Accounts!Idle.at = "idle"
  BY DEF FreeState, Accounts!Idle
<1>4. req' = [req EXCEPT ![r] = s] \/ req' = [req EXCEPT ![r] = Accounts!Idle]
  BY DEF Accounts!CheckEmail, Accounts!Goto, Accounts!Return
<1> HIDE DEF s
<1>5. NotPreset(r)
  BY <1>1, <1>2, <1>3, <1>4 DEF NotPreset
<1>6. \A q \in Request : req'[q].at = "save" => q # r /\ req'[q] = req[q]
  BY <1>1, <1>2, <1>3, <1>4 DEF UpdateInv, AccountsType, RequestsOK
<1>7. s \notin PresetState /\ Accounts!Idle \notin UserState \cup PresetState
  BY <1>2, <1>3, Stages
<1>8. RequestsOK'
  BY <1>1, <1>2, <1>3, <1>4, <1>7, RequestMoves DEF UpdateInv, AccountsType
<1>9. HeldOK'
  <2>1. users' = users /\ owed' = owed
    BY <1>1
  <2> QED BY <1>6, <2>1 DEF UpdateInv, HeldOK
<1>10. TablesOK'
  BY <1>1 DEF UpdateInv, AccountsType, TablesOK
<1> QED BY <1>5, <1>8, <1>9, <1>10 DEF UpdateInv, AccountsType

(* An update of one column leaves the other as it is; the user is owed the *)
(* new value unless a login may still write the old one back.              *)
LEMMA ColumnHolds ==
  ASSUME AccountsAssumption, UpdateInv, NEW r \in Request,
         NEW i \in DOMAIN users, NEW c \in {"email", "password"}, NEW v,
         req[r] \in UserState, req[r].at # "save", Accounts!Return(r, req[r].at),
         c = "email" => v \in Email, c = "password" => v \in Password,
         \/ users' = [users EXCEPT ![i] = [@ EXCEPT ![c] = v]] /\ Accounts!Owe(i, c, v)
         \/ UNCHANGED <<users, owed>>,
         UNCHANGED <<presets, tidy, chosen>>
  PROVE  UpdateInv' /\ NotPreset(r)
<1>1. Accounts!Idle \in FreeState /\ Accounts!Idle.at = "idle"
  BY DEF FreeState, Accounts!Idle
<1>2. req' = [req EXCEPT ![r] = Accounts!Idle]
  BY DEF Accounts!Return
<1>3. NotPreset(r)
  BY <1>1, <1>2 DEF NotPreset
<1>4. \A q \in Request : req'[q].at = "save" => q # r /\ req'[q] = req[q]
  BY <1>1, <1>2 DEF UpdateInv, AccountsType, RequestsOK
<1>5. CASE UNCHANGED <<users, owed>>
  <2>1. RequestsOK'
    BY <1>5, RequestEnds DEF UpdateInv, AccountsType
  <2> QED BY <1>3, <1>4, <1>5, <2>1 DEF UpdateInv, AccountsType, TablesOK, HeldOK
<1>6. CASE users' = [users EXCEPT ![i] = [@ EXCEPT ![c] = v]] /\ Accounts!Owe(i, c, v)
  <2> DEFINE row == [users[i] EXCEPT ![c] = v]
             w == IF Accounts!LoginInFlight(i) THEN Nil ELSE v
             due == [owed[i] EXCEPT ![c] = w]
  <2>1. i \in Accounts!UserID /\ users[i] \in Accounts!User /\ DOMAIN users = 1..Len(users)
    BY DEF UpdateInv, AccountsType, TablesOK, AccountsAssumption, Accounts!BoundsAssumption, Accounts!UserID
  <2>2. /\ row \in Accounts!User /\ row[c] = v
        /\ \A column \in {"email", "password"} \ {c} : row[column] = users[i][column]
    <3>1. CASE c = "email"
      BY <2>1, <3>1 DEF Accounts!User
    <3>2. CASE c = "password"
      BY <2>1, <3>2 DEF Accounts!User
    <3> QED BY <3>1, <3>2
  <2>3. /\ due \in [email : Email \cup {Nil}, password : Password \cup {Nil}] /\ due[c] = w
        /\ \A column \in {"email", "password"} \ {c} : due[column] = owed[i][column]
    <3>1. owed[i] \in [email : Email \cup {Nil}, password : Password \cup {Nil}]
      BY <2>1 DEF UpdateInv, AccountsType, TablesOK
    <3>2. CASE c = "email"
      BY <3>1, <3>2
    <3>3. CASE c = "password"
      BY <3>1, <3>3
    <3> QED BY <3>2, <3>3
  <2>4. users' = [users EXCEPT ![i] = row] /\ owed' = [owed EXCEPT ![i] = due]
    BY <1>6 DEF Accounts!Owe
  <2>5. w # Nil => w = v /\ \A q \in Request : ~ (req[q].at = "save" /\ req[q].user = i)
    BY DEF Accounts!LoginInFlight
  <2> HIDE DEF row, due, w
  <2>6. /\ users' \in Seq(Accounts!User) /\ Len(users') = Len(users) /\ DOMAIN users' = DOMAIN users
        /\ users'[i] = row /\ \A j \in DOMAIN users \ {i} : users'[j] = users[j]
    BY <2>1, <2>2, <2>4 DEF UpdateInv, AccountsType, TablesOK
  <2>7. /\ owed' \in [Accounts!UserID -> [email : Email \cup {Nil}, password : Password \cup {Nil}]]
        /\ owed'[i] = due /\ \A j \in Accounts!UserID \ {i} : owed'[j] = owed[j]
    BY <2>1, <2>3, <2>4 DEF UpdateInv, AccountsType, TablesOK
  <2>8. \A j \in DOMAIN users : j \in Accounts!UserID
    BY DEF UpdateInv, AccountsType, TablesOK, AccountsAssumption, Accounts!BoundsAssumption, Accounts!UserID
  <2>9. RequestsOK'
    BY <2>6, RequestEnds DEF UpdateInv, AccountsType
  <2>10. HeldOK'
    <3>1. ASSUME NEW j \in DOMAIN users, NEW column \in {"email", "password"}, owed'[j][column] # Nil
          PROVE  /\ users'[j][column] = owed'[j][column]
                 /\ \A q \in Request : req'[q].at = "save" /\ req'[q].user = j => req'[q].row[column] = owed'[j][column]
      <4>1. CASE j # i
        BY <1>4, <2>6, <2>7, <2>8, <3>1, <4>1 DEF UpdateInv, HeldOK
      <4>2. CASE j = i /\ column # c
        BY <1>4, <2>2, <2>3, <2>6, <2>7, <3>1, <4>2 DEF UpdateInv, HeldOK
      <4>3. CASE j = i /\ column = c
        BY <1>4, <2>2, <2>3, <2>5, <2>6, <2>7, <3>1, <4>3
      <4> QED BY <4>1, <4>2, <4>3
    <3> QED BY <2>6, <3>1 DEF HeldOK
  <2> QED BY <1>3, <2>6, <2>7, <2>9, <2>10 DEF UpdateInv, AccountsType, TablesOK
<1> QED BY <1>5, <1>6

(* A user has a row. *)
LEMMA UserRow ==
  ASSUME AccountsAssumption, TablesOK, NEW i \in DOMAIN users
  PROVE  i \in Accounts!UserID /\ users[i] \in Accounts!User
<1>1. users \in Seq(Accounts!User) /\ Len(users) <= MaxUsers /\ MaxUsers \in Nat
  BY DEF TablesOK, AccountsAssumption, Accounts!BoundsAssumption
<1> QED BY <1>1 DEF Accounts!UserID

(* An e-mail address is updated, or a password. *)
LEMMA UpdateEmailHolds ==
  ASSUME AccountsAssumption, UpdateInv, NEW r \in Request, Accounts!UpdateEmail(r)
  PROVE  UpdateInv' /\ NotPreset(r)
<1>1. /\ req[r].at = "update email" /\ req[r] \in UserState /\ req[r].user \in DOMAIN users
      /\ req[r].email \in Email
  BY StageState, Stages DEF Accounts!UpdateEmail, Accounts!Return, UpdateInv, AccountsType
<1>2. \/ /\ users' = [users EXCEPT ![req[r].user] = [@ EXCEPT !["email"] = req[r].email]]
         /\ Accounts!Owe(req[r].user, "email", req[r].email)
      \/ UNCHANGED <<users, owed>>
  <2> DEFINE row == [users[req[r].user] EXCEPT !.email = req[r].email]
  <2>1. users[req[r].user] \in Accounts!User
    BY <1>1, UserRow DEF UpdateInv, AccountsType
  <2>2. row.email = req[r].email
    BY <2>1 DEF Accounts!User
  <2> QED BY <2>2 DEF Accounts!UpdateEmail
<1>3. UNCHANGED <<presets, tidy, chosen>> /\ Accounts!Return(r, req[r].at)
  BY <1>1 DEF Accounts!UpdateEmail
<1> QED BY <1>1, <1>2, <1>3, ColumnHolds

(* A password is replaced by the one the request brought. *)
LEMMA UpdatePasswordHolds ==
  ASSUME AccountsAssumption, UpdateInv, NEW r \in Request, Accounts!UpdatePassword(r)
  PROVE  UpdateInv' /\ NotPreset(r)
<1>1. /\ req[r].at = "update password" /\ req[r] \in UserState /\ req[r].user \in DOMAIN users
      /\ req[r].password \in Password
  BY StageState, Stages DEF Accounts!UpdatePassword, Accounts!Return, UpdateInv, AccountsType
<1>2. \/ /\ users' = [users EXCEPT ![req[r].user] = [@ EXCEPT !["password"] = req[r].password]]
         /\ Accounts!Owe(req[r].user, "password", req[r].password)
      \/ UNCHANGED <<users, owed>>
  BY DEF Accounts!UpdatePassword
<1>3. UNCHANGED <<presets, tidy, chosen>> /\ Accounts!Return(r, req[r].at)
  BY <1>1 DEF Accounts!UpdatePassword
<1> QED BY <1>1, <1>2, <1>3, ColumnHolds

(* A preset request changes neither the rows of users nor the requests     *)
(* that are about them.                                                    *)
LEMMA PresetRequestHolds ==
  ASSUME UpdateInv, UNCHANGED <<users, owed>>,
         \A r \in Request : req'[r] = req[r] \/ req'[r].at # "save"
  PROVE  HeldOK'
BY DEF UpdateInv, HeldOK

(* What a preset request of user i about preset p leaves. *)
Asked(r, i, p, isDefault) ==
  LET others == Accounts!PresetRequests(i) IN
    /\ req' = [q \in Request |->
                 IF q = r THEN [at |-> Accounts!FirstStatement(p, isDefault), user |-> i, preset |-> p,
                                isDefault |-> isDefault, alone |-> others = {}]
                 ELSE IF q \in others THEN [req[q] EXCEPT !.alone = FALSE] ELSE req[q]]
    /\ tidy' = (IF others = {} THEN tidy ELSE tidy \ {i})
    /\ chosen' = [chosen EXCEPT ![i] = Nil]

(* SetPreset is such a request of some user. *)
LEMMA AskedFor ==
  ASSUME NEW r, Accounts!SetPreset(r)
  PROVE  \E i \in DOMAIN users, p \in 0..Len(presets), isDefault \in BOOLEAN : Asked(r, i, p, isDefault)
<1>1. PICK i \in DOMAIN users, p \in 0..Len(presets), isDefault \in BOOLEAN :
        /\ Accounts!Authenticated(i)
        /\ (p = 0 => Len(presets) < MaxPresets)
        /\ Asked(r, i, p, isDefault)
  BY ZenonT(60) DEF Accounts!SetPreset, Asked
<1> QED BY <1>1

(* The state in which SetPreset leaves the requests. *)
LEMMA SetPresetHolds ==
  ASSUME AccountsAssumption, UpdateInv, NEW r \in Request, Accounts!SetPreset(r)
  PROVE  UpdateInv'
<1>1. PICK i \in DOMAIN users, p \in 0..Len(presets), isDefault \in BOOLEAN : Asked(r, i, p, isDefault)
  BY AskedFor
<1> USE DEF Asked
<1> DEFINE others == Accounts!PresetRequests(i)
           s == [at |-> Accounts!FirstStatement(p, isDefault), user |-> i, preset |-> p,
                 isDefault |-> isDefault, alone |-> others = {}]
<1>2. i \in Accounts!UserID /\ p \in Nat
  BY DEF UpdateInv, AccountsType, TablesOK, AccountsAssumption, Accounts!BoundsAssumption, Accounts!UserID
<1>3. s \in PresetState /\ s.user = i /\ s.preset = p
  BY <1>2 DEF PresetState, Accounts!FirstStatement
<1>4. UNCHANGED <<users, presets, owed>>
  BY DEF Accounts!SetPreset
<1>5. ASSUME NEW q \in Request
      PROVE  \/ req'[q] = req[q]
             \/ /\ req'[q] \in PresetState /\ req'[q].user \in DOMAIN users
                /\ req'[q].preset \in 0..Len(presets)
  <2>1. CASE q = r
    <3>1. req'[q] = s
      BY <1>1, <2>1
    <3> QED BY <1>3, <3>1
  <2>2. CASE q # r /\ q \in others
    <3>1. req'[q] = [req[q] EXCEPT !.alone = FALSE]
      BY <1>1, <2>2
    <3>2. req[q] \in PresetState /\ req[q].user \in DOMAIN users /\ req[q].preset \in 0..Len(presets)
      BY <2>2, StageState DEF Accounts!PresetRequests, UpdateInv, AccountsType
    <3>3. /\ [req[q] EXCEPT !.alone = FALSE] \in PresetState
          /\ [req[q] EXCEPT !.alone = FALSE].user = req[q].user
          /\ [req[q] EXCEPT !.alone = FALSE].preset = req[q].preset
      BY <3>2 DEF PresetState
    <3> QED BY <3>1, <3>2, <3>3
  <2>3. CASE q # r /\ q \notin others
    BY <1>1, <2>3
  <2> QED BY <2>1, <2>2, <2>3
<1>6. RequestsOK'
  <2>1. req' \in [Request -> FreeState \cup UserState \cup PresetState]
    <3>1. \A q \in Request : req'[q] \in FreeState \cup UserState \cup PresetState
      BY <1>5 DEF UpdateInv, AccountsType, RequestsOK
    <3>2. req' = [q \in Request |-> req'[q]]
      BY <1>1
    <3> QED BY <3>1, <3>2
  <2>2. UNCHANGED <<users, presets>>
    BY <1>4
  <2> QED BY <1>5, <2>1, <2>2 DEF UpdateInv, AccountsType, RequestsOK
<1>7. HeldOK'
  <2>1. \A q \in Request : req'[q] = req[q] \/ req'[q].at # "save"
    BY <1>5, Stages
  <2> QED BY <1>4, <2>1, PresetRequestHolds
<1>8. TablesOK'
  BY <1>1, <1>2, <1>4 DEF UpdateInv, AccountsType, TablesOK
<1> QED BY <1>6, <1>7, <1>8 DEF UpdateInv, AccountsType

(* A preset has an owner, unless it was deleted. *)
LEMMA PresetRow ==
  ASSUME TablesOK, NEW p \in DOMAIN presets
  PROVE  p \in 1..Len(presets) /\ (presets[p] # Nil => presets[p] \in Accounts!Preset)
BY DEF TablesOK

(* A request that has unset defaults goes on with its arguments.           *)
LEMMA UnsetHolds ==
  ASSUME AccountsAssumption, UpdateInv, NEW r \in Request, Accounts!Unset(r)
  PROVE  /\ UpdateInv'
         /\ req[r] \in PresetState /\ req[r].at = "unset"
         /\ \E s \in PresetState :
              /\ req' = [req EXCEPT ![r] = s]
              /\ s.at = "write" /\ s.user = req[r].user /\ s.preset = req[r].preset
              /\ s.isDefault = req[r].isDefault
              /\ \/ s.alone = req[r].alone /\ UNCHANGED tidy
                    /\ presets' = [p \in DOMAIN presets |->
                         IF presets[p] # Nil /\ presets[p].user = req[r].user /\ p # req[r].preset
                         THEN [presets[p] EXCEPT !.isDefault = FALSE] ELSE presets[p]]
                 \/ ~ s.alone /\ tidy' = tidy \ {req[r].user} /\ UNCHANGED presets
<1>1. /\ req[r].at = "unset" /\ req[r] \in PresetState /\ req[r].user \in DOMAIN users
      /\ req[r].preset \in 0..Len(presets)
      /\ UNCHANGED <<users, owed, chosen>>
  BY StageState DEF Accounts!Unset, UpdateInv, AccountsType
<1> DEFINE went == [req[r] EXCEPT !.at = "write"]
           failed == [req[r] EXCEPT !.at = "write", !.alone = FALSE]
<1>2. /\ went \in PresetState /\ went.at = "write" /\ went.user = req[r].user
      /\ went.preset = req[r].preset /\ went.isDefault = req[r].isDefault /\ went.alone = req[r].alone
  BY <1>1 DEF PresetState
<1>3. /\ failed \in PresetState /\ failed.at = "write" /\ failed.user = req[r].user
      /\ failed.preset = req[r].preset /\ failed.isDefault = req[r].isDefault /\ ~ failed.alone
  BY <1>1 DEF PresetState
<1>4. \/ /\ req' = [req EXCEPT ![r] = went] /\ UNCHANGED tidy
         /\ presets' = [p \in DOMAIN presets |->
              IF presets[p] # Nil /\ presets[p].user = req[r].user /\ p # req[r].preset
              THEN [presets[p] EXCEPT !.isDefault = FALSE] ELSE presets[p]]
      \/ req' = [req EXCEPT ![r] = failed] /\ tidy' = tidy \ {req[r].user} /\ UNCHANGED presets
  BY DEF Accounts!Unset
<1> HIDE DEF went, failed
<1>5. presets' \in Seq(Accounts!Preset \cup {Nil}) /\ Len(presets') = Len(presets)
  <2>1. CASE UNCHANGED presets
    BY <2>1 DEF UpdateInv, AccountsType, TablesOK
  <2>2. CASE presets' = [p \in DOMAIN presets |->
              IF presets[p] # Nil /\ presets[p].user = req[r].user /\ p # req[r].preset
              THEN [presets[p] EXCEPT !.isDefault = FALSE] ELSE presets[p]]
    <3>1. \A p \in 1..Len(presets) : presets'[p] \in Accounts!Preset \cup {Nil}
      <4>1. ASSUME NEW p \in 1..Len(presets) PROVE presets'[p] \in Accounts!Preset \cup {Nil}
        <5>1. p \in DOMAIN presets /\ presets[p] \in Accounts!Preset \cup {Nil}
          BY DEF UpdateInv, AccountsType, TablesOK
        <5>2. presets[p] \in Accounts!Preset => [presets[p] EXCEPT !.isDefault = FALSE] \in Accounts!Preset
          BY DEF Accounts!Preset
        <5> QED BY <2>2, <5>1, <5>2
      <4> QED BY <4>1
    <3>2. DOMAIN presets = 1..Len(presets) /\ Len(presets) \in Nat
      BY DEF UpdateInv, AccountsType, TablesOK
    <3>3. presets' = [p \in 1..Len(presets) |-> presets'[p]]
      BY <2>2, <3>2
    <3> QED BY <3>1, <3>2, <3>3
  <2> QED BY <1>4, <2>1, <2>2
<1>6. PICK s \in PresetState : req' = [req EXCEPT ![r] = s] /\ s.user = req[r].user /\ s.preset = req[r].preset
  BY <1>2, <1>3, <1>4
<1>7. RequestsOK'
  BY <1>1, <1>5, <1>6, RequestMoves DEF UpdateInv, AccountsType
<1>8. HeldOK'
  <2>1. \A q \in Request : req'[q] = req[q] \/ req'[q].at # "save"
    BY <1>6, Stages DEF UpdateInv, AccountsType, RequestsOK
  <2> QED BY <1>1, <2>1, PresetRequestHolds
<1>9. TablesOK'
  BY <1>1, <1>4, <1>5 DEF UpdateInv, AccountsType, TablesOK
<1> QED BY <1>1, <1>2, <1>3, <1>4, <1>7, <1>8, <1>9 DEF UpdateInv, AccountsType

(* What a request that is through writes. *)
LEMMA WriteHolds ==
  ASSUME AccountsAssumption, UpdateInv, NEW r \in Request, Accounts!CreatePreset(r) \/ Accounts!UpdatePreset(r)
  PROVE  /\ UpdateInv'
         /\ req[r] \in PresetState /\ req[r].at = "write"
         /\ req' = [req EXCEPT ![r] = Accounts!Idle]
         /\ \/ UNCHANGED <<presets, tidy, chosen>>
            \/ \E p \in 1..Len(presets') :
                 /\ presets'[p] = [user |-> req[r].user, isDefault |-> req[r].isDefault]
                 /\ \/ Len(presets') = Len(presets) /\ p = req[r].preset
                       /\ presets[p] # Nil /\ presets[p].user = req[r].user
                    \/ Len(presets') = p /\ p = Len(presets) + 1 /\ req[r].preset = 0
                 /\ \A x \in DOMAIN presets \ {p} : presets'[x] = presets[x]
                 /\ Accounts!Keep(r, p)
<1>1. /\ req[r].at = "write" /\ req[r] \in PresetState /\ req[r].user \in DOMAIN users
      /\ req[r].preset \in 0..Len(presets)
      /\ req' = [req EXCEPT ![r] = Accounts!Idle]
      /\ UNCHANGED <<users, owed>>
  BY StageState DEF Accounts!CreatePreset, Accounts!UpdatePreset, Accounts!Return, UpdateInv, AccountsType
<1> DEFINE row == [user |-> req[r].user, isDefault |-> req[r].isDefault]
<1>2. row \in Accounts!Preset /\ req[r].user \in Accounts!UserID
  BY <1>1, Stages DEF Accounts!Preset
<1>3. /\ presets \in Seq(Accounts!Preset \cup {Nil}) /\ Len(presets) \in Nat
      /\ DOMAIN presets = 1..Len(presets)
  BY DEF UpdateInv, AccountsType, TablesOK
<1>4. ASSUME ~ UNCHANGED <<presets, tidy, chosen>>
      PROVE  /\ presets' \in Seq(Accounts!Preset \cup {Nil}) /\ Len(presets) <= Len(presets')
             /\ \E p \in 1..Len(presets') :
                 /\ presets'[p] = row
                 /\ \/ Len(presets') = Len(presets) /\ p = req[r].preset
                       /\ presets[p] # Nil /\ presets[p].user = req[r].user
                    \/ Len(presets') = p /\ p = Len(presets) + 1 /\ req[r].preset = 0
                 /\ \A x \in DOMAIN presets \ {p} : presets'[x] = presets[x]
                 /\ Accounts!Keep(r, p)
  <2>1. CASE Accounts!CreatePreset(r)
    <3>1. presets' = Append(presets, row) /\ Accounts!Keep(r, Len(presets) + 1) /\ req[r].preset = 0
      BY <1>4, <2>1 DEF Accounts!CreatePreset
    <3> HIDE DEF row
    <3>2. /\ presets' \in Seq(Accounts!Preset \cup {Nil}) /\ Len(presets') = Len(presets) + 1
          /\ presets'[Len(presets) + 1] = row
          /\ \A x \in DOMAIN presets : presets'[x] = presets[x]
      BY <1>2, <1>3, <3>1
    <3>3. Len(presets) + 1 \in 1..Len(presets') /\ Len(presets) <= Len(presets')
      BY <1>3, <3>2
    <3> QED BY <3>1, <3>2, <3>3
  <2>2. CASE Accounts!UpdatePreset(r)
    <3> DEFINE p == req[r].preset
    <3>1. /\ p # 0 /\ presets[p] # Nil /\ presets[p].user = req[r].user
          /\ presets' = [presets EXCEPT ![p].isDefault = req[r].isDefault]
          /\ Accounts!Keep(r, p)
      BY <1>4, <2>2 DEF Accounts!UpdatePreset
    <3>2. p \in 1..Len(presets)
      BY <1>1, <1>3, <3>1
    <3>3. presets[p] \in Accounts!Preset
      BY <1>3, <3>1, <3>2, PresetRow DEF UpdateInv, AccountsType
    <3>4. [presets[p] EXCEPT !.isDefault = req[r].isDefault] = row
      BY <3>1, <3>3 DEF Accounts!Preset
    <3> HIDE DEF p, row
    <3>5. presets' = [presets EXCEPT ![p] = row]
      BY <3>1, <3>4
    <3>6. /\ presets' \in Seq(Accounts!Preset \cup {Nil}) /\ Len(presets') = Len(presets)
          /\ presets'[p] = row
          /\ \A x \in DOMAIN presets \ {p} : presets'[x] = presets[x]
      BY <1>2, <1>3, <3>2, <3>5
    <3>7. p \in 1..Len(presets') /\ Len(presets) <= Len(presets')
      BY <1>3, <3>2, <3>6
    <3> QED BY <3>1, <3>6, <3>7 DEF p
  <2> QED BY <2>1, <2>2
<1>5. presets' \in Seq(Accounts!Preset \cup {Nil}) /\ Len(presets) <= Len(presets')
  <2>1. CASE UNCHANGED presets
    BY <1>3, <2>1
  <2> QED BY <1>4, <2>1
<1>6. RequestsOK'
  <2>1. 0..Len(presets) \subseteq 0..Len(presets')
    BY <1>3, <1>5
  <2> QED BY <1>1, <2>1, RequestEnds DEF Accounts!CreatePreset, Accounts!UpdatePreset, UpdateInv, AccountsType
<1>7. HeldOK'
  <2>1. \A q \in Request : req'[q] = req[q] \/ req'[q].at # "save"
    BY <1>1 DEF UpdateInv, AccountsType, RequestsOK, Accounts!Idle
  <2> QED BY <1>1, <2>1, PresetRequestHolds
<1>8. tidy' \in SUBSET Accounts!UserID /\ chosen' \in [Accounts!UserID -> Nat \cup {Nil}]
  <2>1. CASE UNCHANGED <<presets, tidy, chosen>>
    BY <2>1 DEF UpdateInv, AccountsType, TablesOK
  <2>2. CASE ~ UNCHANGED <<presets, tidy, chosen>>
    <3>1. PICK p \in Nat : Accounts!Keep(r, p)
      BY <1>4, <2>2
    <3> QED BY <1>2, <3>1 DEF Accounts!Keep, UpdateInv, AccountsType, TablesOK
  <2> QED BY <2>1, <2>2
<1>9. TablesOK'
  BY <1>1, <1>5, <1>8 DEF UpdateInv, AccountsType, TablesOK
<1> QED BY <1>1, <1>4, <1>6, <1>7, <1>9 DEF UpdateInv, AccountsType

(* A preset is deleted by its owner. *)
LEMMA DeletePresetHolds ==
  ASSUME AccountsAssumption, UpdateInv, Accounts!DeletePreset
  PROVE  /\ UpdateInv'
         /\ UNCHANGED <<req, tidy>>
         /\ \E i \in DOMAIN users, p \in DOMAIN presets :
              /\ presets[p] # Nil /\ presets[p].user = i
              /\ presets' = [presets EXCEPT ![p] = Nil]
              /\ chosen' = [chosen EXCEPT ![i] = IF @ = p THEN Nil ELSE @]
<1>1. PICK i \in DOMAIN users, p \in DOMAIN presets :
        /\ presets[p] # Nil /\ presets[p].user = i
        /\ presets' = [presets EXCEPT ![p] = Nil]
        /\ chosen' = [chosen EXCEPT ![i] = IF @ = p THEN Nil ELSE @]
  BY DEF Accounts!DeletePreset
<1>2. UNCHANGED <<users, req, owed, tidy>>
  BY DEF Accounts!DeletePreset
<1>3. presets' \in Seq(Accounts!Preset \cup {Nil}) /\ Len(presets') = Len(presets)
  BY <1>1 DEF UpdateInv, AccountsType, TablesOK
<1>4. chosen' \in [Accounts!UserID -> Nat \cup {Nil}]
  BY <1>1, UserRow DEF UpdateInv, AccountsType, TablesOK
<1>5. RequestsOK'
  BY <1>2, <1>3 DEF UpdateInv, AccountsType, RequestsOK
<1>6. HeldOK'
  BY <1>2, PresetRequestHolds
<1>7. TablesOK'
  BY <1>2, <1>3, <1>4 DEF UpdateInv, AccountsType, TablesOK
<1> QED BY <1>1, <1>2, <1>5, <1>6, <1>7 DEF UpdateInv, AccountsType

(* Every step keeps what users are owed. *)
LEMMA UpdateStep ==
  ASSUME AccountsAssumption, UpdateInv, [Accounts!Next]_(Accounts!vars)
  PROVE  UpdateInv'
<1>1. ASSUME NEW r \in Request,
             \/ Accounts!Register(r) \/ Accounts!InsertUser(r) \/ Accounts!Login(r) \/ Accounts!SaveUser(r)
             \/ Accounts!UpdateProfile(r) \/ Accounts!CheckEmail(r) \/ Accounts!UpdateEmail(r)
             \/ Accounts!ChangePassword(r) \/ Accounts!UpdatePassword(r)
      PROVE  UpdateInv'
  BY <1>1, BeginHolds, InsertUserHolds, SaveUserHolds, CheckEmailHolds, UpdateEmailHolds, UpdatePasswordHolds
<1>2. ASSUME NEW r \in Request,
             Accounts!SetPreset(r) \/ Accounts!Unset(r) \/ Accounts!CreatePreset(r) \/ Accounts!UpdatePreset(r)
      PROVE  UpdateInv'
  BY <1>2, SetPresetHolds, UnsetHolds, WriteHolds
<1>3. CASE Accounts!DeletePreset
  BY <1>3, DeletePresetHolds
<1>4. CASE UNCHANGED Accounts!vars
  BY <1>4 DEF Accounts!vars, Accounts!promises, UpdateInv, AccountsType, TablesOK, RequestsOK, HeldOK
<1> QED BY <1>1, <1>2, <1>3, <1>4 DEF Accounts!Next

(* Nobody has asked for anything in the beginning. *)
LEMMA UpdateInit ==
  ASSUME AccountsAssumption, Accounts!Init PROVE UpdateInv
<1>1. AccountsType
  BY AccountsTypeInit
<1>2. HeldOK
  BY DEF HeldOK, Accounts!Init, Accounts!Idle, AccountsAssumption, Accounts!BoundsAssumption, Accounts!UserID
<1> QED BY <1>1, <1>2 DEF UpdateInv

(* An address or a password that was registered, or changed while no login *)
(* of the user was in flight, holds until it is changed again, through     *)
(* logins that come later, other users' requests and changes of the other  *)
(* column, for any requests and users.  A change that a login overlaps is  *)
(* left out: the login may save the row it read before.                    *)
THEOREM UpdatesHold ==
  ASSUME AccountsAssumption PROVE Accounts!Spec => []UpdateHolds
<1>1. UpdateInv /\ [Accounts!Next]_(Accounts!vars) => UpdateInv'
  BY UpdateStep
<1>2. Accounts!Init => UpdateInv
  BY UpdateInit
<1>3. UpdateInv => UpdateHolds
  BY DEF UpdateInv, HeldOK, UpdateHolds, Accounts!UpdateHolds
<1> QED BY <1>1, <1>2, <1>3, PTL DEF Accounts!Spec

-----------------------------------------------------------------------------
(* Presets: a request that is alone is the only one of its user; while all *)
(* requests of a user are, he has at most one default, and the one that a  *)
(* request is about to set is the only one there is.                       *)

PresetsOK ==
  /\ \A r \in Request : \A q \in Request :
       /\ req[r].at \in {"unset", "write"} /\ req[r].alone
       /\ req[q].at \in {"unset", "write"} /\ req[q].user = req[r].user
       => q = r
  /\ \A i \in tidy :
       /\ \A r \in Request : req[r].at \in {"unset", "write"} /\ req[r].user = i => req[r].alone
       /\ \A p, x \in Accounts!Defaults(i) : p = x
  /\ \A i \in Accounts!UserID : \A r \in Request :
       req[r].at = "write" /\ req[r].user = i /\ req[r].isDefault /\ req[r].alone =>
         \A p \in Accounts!Defaults(i) : p = req[r].preset
  /\ \A i \in Accounts!UserID : chosen[i] # Nil =>
       /\ \A r \in Request : ~ (req[r].at \in {"unset", "write"} /\ req[r].user = i)
       /\ Accounts!Defaults(i) = {chosen[i]}

AccountsInv == UpdateInv /\ PresetsOK

(* Steps of other requests leave the presets alone. *)
LEMMA NotPresetKeeps ==
  ASSUME AccountsInv, NEW r \in Request, NotPreset(r)
  PROVE  PresetsOK'
<1>1. PICK s \in FreeState \cup UserState :
        req[r] \in FreeState \cup UserState /\ req' = [req EXCEPT ![r] = s]
  BY DEF NotPreset
<1>2. req[r].at \notin {"unset", "write"} /\ s.at \notin {"unset", "write"}
  BY <1>1, Stages
<1>3. \A q \in Request : req'[q] = req[q] \/ (q = r /\ req'[q] = s)
  BY <1>1 DEF AccountsInv, UpdateInv, AccountsType, RequestsOK
<1>4. \A q \in Request : req'[q].at \in {"unset", "write"} => q # r /\ req'[q] = req[q]
  BY <1>1, <1>2, <1>3
<1>5. tidy' = tidy /\ chosen' = chosen /\ \A i : Accounts!Defaults(i)' = Accounts!Defaults(i)
  BY DEF NotPreset, Accounts!Defaults
<1>6. \A q, x \in Request :
         /\ req'[q].at \in {"unset", "write"} /\ req'[q].alone
         /\ req'[x].at \in {"unset", "write"} /\ req'[x].user = req'[q].user
         => x = q
  BY <1>4 DEF AccountsInv, PresetsOK
<1>7. \A i \in tidy' :
         /\ \A q \in Request : req'[q].at \in {"unset", "write"} /\ req'[q].user = i => req'[q].alone
         /\ \A p, x \in Accounts!Defaults(i)' : p = x
  BY <1>4, <1>5 DEF AccountsInv, PresetsOK
<1>8. \A u \in Accounts!UserID : \A q \in Request :
         req'[q].at = "write" /\ req'[q].user = u /\ req'[q].isDefault /\ req'[q].alone =>
           \A d \in Accounts!Defaults(u)' : d = req'[q].preset
  BY <1>4, <1>5 DEF AccountsInv, PresetsOK
<1>9. \A i \in Accounts!UserID : chosen'[i] # Nil =>
         /\ \A q \in Request : ~ (req'[q].at \in {"unset", "write"} /\ req'[q].user = i)
         /\ Accounts!Defaults(i)' = {chosen'[i]}
  BY <1>4, <1>5 DEF AccountsInv, PresetsOK
<1> QED BY <1>6, <1>7, <1>8, <1>9 DEF PresetsOK

(* A new request is alone, or nothing is promised to its user. *)
LEMMA SetPresetKeeps ==
  ASSUME AccountsAssumption, AccountsInv, NEW r \in Request, Accounts!SetPreset(r)
  PROVE  PresetsOK'
<1>1. PICK i \in DOMAIN users, p \in 0..Len(presets), isDefault \in BOOLEAN : Asked(r, i, p, isDefault)
  BY AskedFor
<1> USE DEF Asked
<1> DEFINE others == Accounts!PresetRequests(i)
           at == Accounts!FirstStatement(p, isDefault)
           s == [at |-> at, user |-> i, preset |-> p, isDefault |-> isDefault, alone |-> others = {}]
<1>2. /\ s.user = i /\ s.isDefault = isDefault /\ s.alone = (others = {}) /\ s.at = at
      /\ at = "write" => ~ isDefault
  BY DEF Accounts!FirstStatement
<1>3. req[r].at = "idle"
  BY DEF Accounts!SetPreset, Accounts!Idle
<1>4. \A q \in Request : q \in others <=> req[q].at \in {"unset", "write"} /\ req[q].user = i
  BY DEF Accounts!PresetRequests
<1>5. others \subseteq Request /\ r \notin others
  BY <1>3, <1>4 DEF Accounts!PresetRequests
<1>6. req'[r] = s /\ \A q \in Request \ (others \cup {r}) : req'[q] = req[q]
  BY <1>1
<1>7. ASSUME NEW q \in others
      PROVE  ~ req'[q].alone /\ req'[q].user = i
  <2>1. req'[q] = [req[q] EXCEPT !.alone = FALSE]
    BY <1>1, <1>5
  <2>2. req[q] \in PresetState
    BY <1>4, <1>5, StageState DEF AccountsInv, UpdateInv, AccountsType
  <2> QED BY <1>4, <1>5, <2>1, <2>2 DEF PresetState
<1>8. tidy' \subseteq tidy /\ (others # {} => i \notin tidy')
  BY <1>1
<1>9. chosen'[i] = Nil /\ \A j \in Accounts!UserID \ {i} : chosen'[j] = chosen[j]
  BY <1>1, UserRow DEF AccountsInv, UpdateInv, AccountsType, TablesOK
<1>10. \A j : Accounts!Defaults(j)' = Accounts!Defaults(j)
  BY DEF Accounts!SetPreset, Accounts!Defaults
<1> HIDE DEF others, s, at
<1>11. \A q, x \in Request :
         /\ req'[q].at \in {"unset", "write"} /\ req'[q].alone
         /\ req'[x].at \in {"unset", "write"} /\ req'[x].user = req'[q].user
         => x = q
  <2> SUFFICES ASSUME NEW q \in Request, NEW x \in Request,
                      req'[q].at \in {"unset", "write"}, req'[q].alone,
                      req'[x].at \in {"unset", "write"}, req'[x].user = req'[q].user
               PROVE  x = q
    OBVIOUS
  <2>1. q \notin others
    BY <1>7
  <2>2. CASE q = r
    <3>1. others = {} /\ req'[x].user = i
      BY <1>2, <1>6, <2>2
    <3> QED BY <1>4, <1>6, <2>2, <3>1
  <2>3. CASE q # r
    <3>1. req'[q] = req[q] /\ req[q].user # i
      BY <1>4, <1>6, <2>1, <2>3
    <3>2. x # r /\ x \notin others
      BY <1>2, <1>6, <1>7, <3>1
    <3> QED BY <1>6, <3>1, <3>2 DEF AccountsInv, PresetsOK
  <2> QED BY <2>2, <2>3
<1>12. \A j \in tidy' :
         /\ \A q \in Request : req'[q].at \in {"unset", "write"} /\ req'[q].user = j => req'[q].alone
         /\ \A x, y \in Accounts!Defaults(j)' : x = y
  <2> SUFFICES ASSUME NEW j \in tidy'
               PROVE  /\ \A q \in Request : req'[q].at \in {"unset", "write"} /\ req'[q].user = j => req'[q].alone
                      /\ \A x, y \in Accounts!Defaults(j)' : x = y
    OBVIOUS
  <2>1. \A x, y \in Accounts!Defaults(j)' : x = y
    BY <1>8, <1>10 DEF AccountsInv, PresetsOK
  <2>2. ASSUME NEW q \in Request, req'[q].at \in {"unset", "write"}, req'[q].user = j PROVE req'[q].alone
    <3>1. CASE q = r
      BY <1>2, <1>6, <1>8, <2>2, <3>1
    <3>2. CASE q \in others
      BY <1>7, <1>8, <2>2, <3>2
    <3>3. CASE q \notin others \cup {r}
      BY <1>6, <1>8, <2>2, <3>3 DEF AccountsInv, PresetsOK
    <3> QED BY <3>1, <3>2, <3>3
  <2> QED BY <2>1, <2>2
<1>13. \A u \in Accounts!UserID : \A q \in Request :
         req'[q].at = "write" /\ req'[q].user = u /\ req'[q].isDefault /\ req'[q].alone =>
           \A d \in Accounts!Defaults(u)' : d = req'[q].preset
  BY <1>2, <1>6, <1>7, <1>10 DEF AccountsInv, PresetsOK
<1>14. \A j \in Accounts!UserID : chosen'[j] # Nil =>
         /\ \A q \in Request : ~ (req'[q].at \in {"unset", "write"} /\ req'[q].user = j)
         /\ Accounts!Defaults(j)' = {chosen'[j]}
  BY <1>2, <1>6, <1>7, <1>9, <1>10 DEF AccountsInv, PresetsOK
<1> QED BY <1>11, <1>12, <1>13, <1>14 DEF PresetsOK

(* After the defaults are unset, the preset of the request is the only one *)
(* that can be left.                                                       *)
LEMMA UnsetKeeps ==
  ASSUME AccountsAssumption, AccountsInv, NEW r \in Request, Accounts!Unset(r)
  PROVE  PresetsOK'
<1>0. PICK i \in Accounts!UserID, n \in Nat : i = req[r].user /\ n = req[r].preset
  BY UnsetHolds, Stages DEF AccountsInv
<1>1. PICK s \in PresetState :
        /\ req' = [req EXCEPT ![r] = s]
        /\ s.at = "write" /\ s.user = i /\ s.preset = n /\ s.isDefault = req[r].isDefault
        /\ \/ s.alone = req[r].alone /\ UNCHANGED tidy
              /\ presets' = [p \in DOMAIN presets |->
                   IF presets[p] # Nil /\ presets[p].user = i /\ p # n
                   THEN [presets[p] EXCEPT !.isDefault = FALSE] ELSE presets[p]]
           \/ ~ s.alone /\ tidy' = tidy \ {i} /\ UNCHANGED presets
  BY <1>0, UnsetHolds DEF AccountsInv
<1>2. req[r].at = "unset" /\ req[r] \in PresetState
  BY UnsetHolds DEF AccountsInv
<1>3. req'[r] = s /\ \A q \in Request \ {r} : req'[q] = req[q]
  BY <1>1 DEF AccountsInv, UpdateInv, AccountsType, RequestsOK
<1>4. chosen' = chosen /\ chosen[i] = Nil
  BY <1>0, <1>2 DEF Accounts!Unset, AccountsInv, PresetsOK
<1>5. /\ \A j \in Accounts!UserID : Accounts!Defaults(j)' \subseteq Accounts!Defaults(j)
      /\ \A j \in Accounts!UserID \ {i} : Accounts!Defaults(j)' = Accounts!Defaults(j)
      /\ s.alone => Accounts!Defaults(i)' \subseteq {n}
  <2>1. CASE ~ s.alone /\ tidy' = tidy \ {i} /\ UNCHANGED presets
    BY <2>1 DEF Accounts!Defaults
  <2>2. CASE presets' = [p \in DOMAIN presets |->
                   IF presets[p] # Nil /\ presets[p].user = i /\ p # n
                   THEN [presets[p] EXCEPT !.isDefault = FALSE] ELSE presets[p]]
    <3>1. ASSUME NEW p \in DOMAIN presets
          PROVE  \/ presets'[p] = presets[p] /\ ~ (presets[p] # Nil /\ presets[p].user = i /\ p # n)
                 \/ /\ presets[p] # Nil /\ presets[p].user = i /\ p # n
                    /\ presets'[p].user = i /\ ~ presets'[p].isDefault
      <4>1. CASE presets[p] # Nil /\ presets[p].user = i /\ p # n
        <5>1. presets[p] \in Accounts!Preset
          BY <4>1, PresetRow DEF AccountsInv, UpdateInv, AccountsType
        <5>2. presets'[p] = [presets[p] EXCEPT !.isDefault = FALSE]
          BY <2>2, <4>1
        <5> QED BY <4>1, <5>1, <5>2 DEF Accounts!Preset
      <4>2. CASE ~ (presets[p] # Nil /\ presets[p].user = i /\ p # n)
        BY <2>2, <4>2
      <4> QED BY <4>1, <4>2
    <3>2. DOMAIN presets' = DOMAIN presets
      BY <2>2
    <3>3. \A j \in Accounts!UserID : Accounts!Defaults(j)' \subseteq Accounts!Defaults(j)
      BY <3>1, <3>2 DEF Accounts!Defaults
    <3>4. \A j \in Accounts!UserID \ {i} : Accounts!Defaults(j) \subseteq Accounts!Defaults(j)'
      BY <3>1, <3>2 DEF Accounts!Defaults
    <3>5. Accounts!Defaults(i)' \subseteq {n}
      BY <3>1, <3>2 DEF Accounts!Defaults
    <3> QED BY <3>3, <3>4, <3>5
  <2> QED BY <1>1, <2>1, <2>2
<1>6. tidy' \subseteq tidy /\ (s.alone => req[r].alone) /\ (~ s.alone /\ req[r].alone => i \notin tidy')
  BY <1>1
<1>7. ~ s.alone => i \notin tidy'
  BY <1>0, <1>1, <1>2 DEF AccountsInv, PresetsOK
<1>8. tidy' \subseteq Accounts!UserID /\ \A q \in Request : req'[q].at \in {"unset", "write"} => req'[q].user \in Accounts!UserID
  <2>1. RequestsOK' /\ TablesOK'
    BY UnsetHolds DEF AccountsInv, UpdateInv, AccountsType
  <2> QED BY <2>1, Stages DEF RequestsOK, TablesOK
<1>9. \A q, x \in Request :
         /\ req'[q].at \in {"unset", "write"} /\ req'[q].alone
         /\ req'[x].at \in {"unset", "write"} /\ req'[x].user = req'[q].user
         => x = q
  BY <1>0, <1>1, <1>2, <1>3, <1>6 DEF AccountsInv, PresetsOK
<1>10. \A j \in tidy' :
         /\ \A q \in Request : req'[q].at \in {"unset", "write"} /\ req'[q].user = j => req'[q].alone
         /\ \A x, y \in Accounts!Defaults(j)' : x = y
  <2> SUFFICES ASSUME NEW j \in tidy'
               PROVE  /\ \A q \in Request : req'[q].at \in {"unset", "write"} /\ req'[q].user = j => req'[q].alone
                      /\ \A x, y \in Accounts!Defaults(j)' : x = y
    OBVIOUS
  <2>1. \A x, y \in Accounts!Defaults(j)' : x = y
    BY <1>5, <1>6, <1>8 DEF AccountsInv, PresetsOK
  <2>2. ASSUME NEW q \in Request, req'[q].at \in {"unset", "write"}, req'[q].user = j PROVE req'[q].alone
    <3>1. CASE q = r
      BY <1>1, <1>3, <1>7, <2>2, <3>1
    <3>2. CASE q # r
      BY <1>3, <1>6, <2>2, <3>2 DEF AccountsInv, PresetsOK
    <3> QED BY <3>1, <3>2
  <2> QED BY <2>1, <2>2
<1>11. \A u \in Accounts!UserID : \A q \in Request :
         req'[q].at = "write" /\ req'[q].user = u /\ req'[q].isDefault /\ req'[q].alone =>
           \A d \in Accounts!Defaults(u)' : d = req'[q].preset
  <2> SUFFICES ASSUME NEW u \in Accounts!UserID, NEW q \in Request,
                      req'[q].at = "write", req'[q].user = u, req'[q].isDefault, req'[q].alone
               PROVE  \A d \in Accounts!Defaults(u)' : d = req'[q].preset
    OBVIOUS
  <2>1. CASE q = r
    <3>1. req'[q].user = i /\ req'[q].preset = n /\ s.alone
      BY <1>1, <1>3, <2>1
    <3> QED BY <1>5, <3>1
  <2>2. CASE q # r
    <3>1. \A d \in Accounts!Defaults(u) : d = req[q].preset
      BY <1>3, <2>2 DEF AccountsInv, PresetsOK
    <3>2. Accounts!Defaults(u)' \subseteq Accounts!Defaults(u) /\ req'[q] = req[q]
      BY <1>3, <1>5, <2>2
    <3> QED BY <3>1, <3>2
  <2> QED BY <2>1, <2>2
<1>12. \A j \in Accounts!UserID : chosen'[j] # Nil =>
         /\ \A q \in Request : ~ (req'[q].at \in {"unset", "write"} /\ req'[q].user = j)
         /\ Accounts!Defaults(j)' = {chosen'[j]}
  BY <1>0, <1>1, <1>2, <1>3, <1>4, <1>5 DEF AccountsInv, PresetsOK
<1> QED BY <1>9, <1>10, <1>11, <1>12 DEF PresetsOK

(* A request that is alone and writes a default makes it the only one; one *)
(* that is not alone belongs to a user to whom nothing is promised.        *)
LEMMA WriteKeeps ==
  ASSUME AccountsAssumption, AccountsInv, NEW r \in Request, Accounts!CreatePreset(r) \/ Accounts!UpdatePreset(r)
  PROVE  PresetsOK'
<1>0. PICK i \in Accounts!UserID : i = req[r].user
  BY WriteHolds, Stages DEF AccountsInv
<1>1. /\ req[r] \in PresetState /\ req[r].at = "write"
      /\ req' = [req EXCEPT ![r] = Accounts!Idle]
  BY WriteHolds DEF AccountsInv
<1>2. req'[r].at = "idle" /\ \A q \in Request \ {r} : req'[q] = req[q]
  BY <1>1 DEF AccountsInv, UpdateInv, AccountsType, RequestsOK, Accounts!Idle
<1>3. \A q \in Request : req'[q].at \in {"unset", "write"} => q # r /\ req'[q] = req[q]
  BY <1>2
<1>4. chosen[i] = Nil
  BY <1>0, <1>1 DEF AccountsInv, PresetsOK
<1>5. CASE UNCHANGED <<presets, tidy, chosen>>
  <2>1. tidy' = tidy /\ chosen' = chosen /\ \A j : Accounts!Defaults(j)' = Accounts!Defaults(j)
    BY <1>5 DEF Accounts!Defaults
  <2>2. \A q, x \in Request :
         /\ req'[q].at \in {"unset", "write"} /\ req'[q].alone
         /\ req'[x].at \in {"unset", "write"} /\ req'[x].user = req'[q].user
         => x = q
    BY <1>3 DEF AccountsInv, PresetsOK
  <2>3. \A j \in tidy' :
         /\ \A q \in Request : req'[q].at \in {"unset", "write"} /\ req'[q].user = j => req'[q].alone
         /\ \A x, y \in Accounts!Defaults(j)' : x = y
    BY <1>3, <2>1 DEF AccountsInv, PresetsOK
  <2>4. \A u \in Accounts!UserID : \A q \in Request :
         req'[q].at = "write" /\ req'[q].user = u /\ req'[q].isDefault /\ req'[q].alone =>
           \A d \in Accounts!Defaults(u)' : d = req'[q].preset
    BY <1>3, <2>1 DEF AccountsInv, PresetsOK
  <2>5. \A j \in Accounts!UserID : chosen'[j] # Nil =>
         /\ \A q \in Request : ~ (req'[q].at \in {"unset", "write"} /\ req'[q].user = j)
         /\ Accounts!Defaults(j)' = {chosen'[j]}
    BY <1>3, <2>1 DEF AccountsInv, PresetsOK
  <2> QED BY <2>2, <2>3, <2>4, <2>5 DEF PresetsOK
<1>6. CASE ~ UNCHANGED <<presets, tidy, chosen>>
  <2>1. PICK n \in 1..Len(presets') :
          /\ presets'[n] = [user |-> i, isDefault |-> req[r].isDefault]
          /\ \/ Len(presets') = Len(presets) /\ n = req[r].preset
                /\ presets[n] # Nil /\ presets[n].user = i
             \/ Len(presets') = n /\ n = Len(presets) + 1 /\ req[r].preset = 0
          /\ \A x \in DOMAIN presets \ {n} : presets'[x] = presets[x]
          /\ Accounts!Keep(r, n)
    BY <1>0, <1>6, WriteHolds DEF AccountsInv
  <2>2. /\ DOMAIN presets = 1..Len(presets) /\ Len(presets) \in Nat
        /\ DOMAIN presets' = 1..Len(presets') /\ Len(presets') \in Nat
    <3>1. TablesOK /\ TablesOK'
      BY WriteHolds DEF AccountsInv, UpdateInv, AccountsType
    <3> QED BY <3>1 DEF TablesOK
  <2>3. /\ DOMAIN presets \subseteq DOMAIN presets' /\ DOMAIN presets' = DOMAIN presets \cup {n}
        /\ n \in DOMAIN presets => n = req[r].preset /\ presets[n] # Nil /\ presets[n].user = i
        /\ req[r].preset \in DOMAIN presets => n = req[r].preset
    <3>1. CASE Len(presets') = Len(presets) /\ n = req[r].preset /\ presets[n] # Nil /\ presets[n].user = i
      BY <2>2, <3>1
    <3>2. CASE Len(presets') = n /\ n = Len(presets) + 1 /\ req[r].preset = 0
      BY <2>2, <3>2
    <3> QED BY <2>1, <3>1, <3>2
  <2>4. presets'[n] # Nil /\ presets'[n].user = i /\ presets'[n].isDefault = req[r].isDefault
    <3>1. presets'[n] \in Accounts!Preset
      <4>1. req[r].isDefault \in BOOLEAN
        BY <1>1, Stages
      <4> QED BY <2>1, <4>1 DEF Accounts!Preset
    <3> QED BY <2>1, <3>1 DEF AccountsAssumption, Accounts!NilAssumption
  <2>5. /\ \A j \in Accounts!UserID \ {i} : Accounts!Defaults(j)' = Accounts!Defaults(j)
        /\ Accounts!Defaults(i)' = (IF req[r].isDefault THEN Accounts!Defaults(i) \cup {n}
                                    ELSE Accounts!Defaults(i) \ {n})
    <3>1. \A j \in Accounts!UserID \ {i} : Accounts!Defaults(j)' = Accounts!Defaults(j)
      BY <2>1, <2>3, <2>4 DEF Accounts!Defaults
    <3>2. \A d : d # n => (d \in Accounts!Defaults(i)' <=> d \in Accounts!Defaults(i))
      BY <2>1, <2>3 DEF Accounts!Defaults
    <3>3. n \in Accounts!Defaults(i)' <=> req[r].isDefault
      BY <2>3, <2>4 DEF Accounts!Defaults
    <3> QED BY <3>1, <3>2, <3>3
  <2>7. ASSUME req[r].isDefault, req[r].alone
        PROVE  /\ chosen' = [chosen EXCEPT ![i] = n] /\ tidy' = tidy \cup {i}
               /\ Accounts!Defaults(i)' = {n}
    <3>1. chosen' = [chosen EXCEPT ![i] = n] /\ tidy' = tidy \cup {i}
      BY <1>0, <2>1, <2>7 DEF Accounts!Keep
    <3>2. Accounts!Defaults(i) \subseteq {req[r].preset} /\ Accounts!Defaults(i) \subseteq DOMAIN presets
      BY <1>0, <1>1, <2>7 DEF AccountsInv, PresetsOK, Accounts!Defaults
    <3>3. req[r].preset \in DOMAIN presets => n = req[r].preset
      BY <2>3
    <3>4. Accounts!Defaults(i) \subseteq {n}
      BY <3>2, <3>3
    <3> QED BY <2>5, <2>7, <3>1, <3>4
  <2>8. ASSUME ~ (req[r].isDefault /\ req[r].alone) PROVE UNCHANGED <<chosen, tidy>>
    BY <2>1, <2>8 DEF Accounts!Keep
  <2>9. req[r].isDefault /\ ~ req[r].alone => i \notin tidy
    BY <1>0, <1>1 DEF AccountsInv, PresetsOK
  <2>10. \A q \in Request : req'[q].at \in {"unset", "write"} /\ req'[q].user = i => ~ req[r].alone /\ ~ req'[q].alone
    BY <1>0, <1>1, <1>3 DEF AccountsInv, PresetsOK
  <2>11. /\ tidy' \subseteq Accounts!UserID
         /\ \A q \in Request : req'[q].at \in {"unset", "write"} => req'[q].user \in Accounts!UserID
    <3>1. RequestsOK' /\ TablesOK'
      BY WriteHolds DEF AccountsInv, UpdateInv, AccountsType
    <3> QED BY <3>1, Stages DEF RequestsOK, TablesOK
  <2>12. \A j \in tidy' : j \in tidy \/ j = i
    BY <2>7, <2>8
  <2>13. \A j \in Accounts!UserID : chosen'[j] # Nil =>
           \/ j # i /\ chosen'[j] = chosen[j]
           \/ j = i /\ chosen'[j] = n /\ req[r].isDefault /\ req[r].alone
    <3>1. CASE req[r].isDefault /\ req[r].alone
      BY <2>7, <3>1 DEF AccountsInv, UpdateInv, AccountsType, TablesOK
    <3>2. CASE ~ (req[r].isDefault /\ req[r].alone)
      BY <1>4, <2>8, <3>2
    <3> QED BY <3>1, <3>2
  <2>14. \A q, x \in Request :
         /\ req'[q].at \in {"unset", "write"} /\ req'[q].alone
         /\ req'[x].at \in {"unset", "write"} /\ req'[x].user = req'[q].user
         => x = q
    BY <1>3 DEF AccountsInv, PresetsOK
  <2>15. \A j \in tidy' :
         /\ \A q \in Request : req'[q].at \in {"unset", "write"} /\ req'[q].user = j => req'[q].alone
         /\ \A x, y \in Accounts!Defaults(j)' : x = y
    <3> SUFFICES ASSUME NEW j \in tidy'
               PROVE  /\ \A q \in Request : req'[q].at \in {"unset", "write"} /\ req'[q].user = j => req'[q].alone
                      /\ \A x, y \in Accounts!Defaults(j)' : x = y
      OBVIOUS
    <3>1. CASE j # i
      <4>1. j \in tidy /\ Accounts!Defaults(j)' = Accounts!Defaults(j)
        BY <2>5, <2>11, <2>12, <3>1
      <4> QED BY <1>3, <4>1 DEF AccountsInv, PresetsOK
    <3>2. CASE j = i /\ req[r].isDefault /\ req[r].alone
      BY <2>7, <2>10, <3>2
    <3>3. CASE j = i /\ ~ (req[r].isDefault /\ req[r].alone)
      <4>1. i \in tidy /\ ~ req[r].isDefault
        BY <2>8, <2>9, <3>3
      <4>2. Accounts!Defaults(i)' \subseteq Accounts!Defaults(i)
        BY <2>5, <4>1
      <4> QED BY <1>3, <3>3, <4>1, <4>2 DEF AccountsInv, PresetsOK
    <3> QED BY <3>1, <3>2, <3>3
  <2>16. \A u \in Accounts!UserID : \A q \in Request :
         req'[q].at = "write" /\ req'[q].user = u /\ req'[q].isDefault /\ req'[q].alone =>
           \A d \in Accounts!Defaults(u)' : d = req'[q].preset
    <3> SUFFICES ASSUME NEW u \in Accounts!UserID, NEW q \in Request,
                        req'[q].at = "write", req'[q].user = u, req'[q].isDefault, req'[q].alone
                 PROVE  \A d \in Accounts!Defaults(u)' : d = req'[q].preset
      OBVIOUS
    <3>1. req'[q] = req[q] /\ u # i
      BY <1>3, <2>10
    <3> QED BY <2>5, <3>1 DEF AccountsInv, PresetsOK
  <2>17. \A j \in Accounts!UserID : chosen'[j] # Nil =>
         /\ \A q \in Request : ~ (req'[q].at \in {"unset", "write"} /\ req'[q].user = j)
         /\ Accounts!Defaults(j)' = {chosen'[j]}
    <3> SUFFICES ASSUME NEW j \in Accounts!UserID, chosen'[j] # Nil
                 PROVE  /\ \A q \in Request : ~ (req'[q].at \in {"unset", "write"} /\ req'[q].user = j)
                        /\ Accounts!Defaults(j)' = {chosen'[j]}
      OBVIOUS
    <3>1. CASE j # i
      <4>1. chosen[j] = chosen'[j] /\ Accounts!Defaults(j)' = Accounts!Defaults(j)
        BY <2>5, <2>13, <3>1
      <4> QED BY <1>3, <4>1 DEF AccountsInv, PresetsOK
    <3>2. CASE j = i
      <4>1. chosen'[j] = n /\ req[r].isDefault /\ req[r].alone
        BY <2>13, <3>2
      <4> QED BY <2>7, <2>10, <3>2, <4>1
    <3> QED BY <3>1, <3>2
  <2> QED BY <2>14, <2>15, <2>16, <2>17 DEF PresetsOK
<1> QED BY <1>5, <1>6

(* A preset that is deleted is nobody's default, and not the chosen one.   *)
LEMMA DeletePresetKeeps ==
  ASSUME AccountsAssumption, AccountsInv, Accounts!DeletePreset
  PROVE  PresetsOK'
<1>1. PICK i \in DOMAIN users, n \in DOMAIN presets :
        /\ presets[n] # Nil /\ presets[n].user = i
        /\ presets' = [presets EXCEPT ![n] = Nil]
        /\ chosen' = [chosen EXCEPT ![i] = IF @ = n THEN Nil ELSE @]
  BY DeletePresetHolds DEF AccountsInv
<1>2. req' = req /\ tidy' = tidy /\ i \in Accounts!UserID
  BY DeletePresetHolds, UserRow DEF AccountsInv, UpdateInv, AccountsType
<1>3. /\ \A j : Accounts!Defaults(j)' \subseteq Accounts!Defaults(j)
      /\ \A j : Accounts!Defaults(j) \ {n} \subseteq Accounts!Defaults(j)'
      /\ \A j : j # i => Accounts!Defaults(j)' = Accounts!Defaults(j)
  BY <1>1 DEF Accounts!Defaults
<1>4. /\ chosen'[i] = (IF chosen[i] = n THEN Nil ELSE chosen[i])
      /\ \A j \in Accounts!UserID \ {i} : chosen'[j] = chosen[j]
  BY <1>1, <1>2 DEF AccountsInv, UpdateInv, AccountsType, TablesOK
<1>5. \A q, x \in Request :
         /\ req'[q].at \in {"unset", "write"} /\ req'[q].alone
         /\ req'[x].at \in {"unset", "write"} /\ req'[x].user = req'[q].user
         => x = q
  BY <1>2 DEF AccountsInv, PresetsOK
<1>6. \A j \in tidy' :
         /\ \A q \in Request : req'[q].at \in {"unset", "write"} /\ req'[q].user = j => req'[q].alone
         /\ \A p, x \in Accounts!Defaults(j)' : p = x
  BY <1>2, <1>3 DEF AccountsInv, PresetsOK
<1>7. \A u \in Accounts!UserID : \A q \in Request :
         req'[q].at = "write" /\ req'[q].user = u /\ req'[q].isDefault /\ req'[q].alone =>
           \A d \in Accounts!Defaults(u)' : d = req'[q].preset
  BY <1>2, <1>3 DEF AccountsInv, PresetsOK
<1>8. \A j \in Accounts!UserID : chosen'[j] # Nil =>
         /\ \A q \in Request : ~ (req'[q].at \in {"unset", "write"} /\ req'[q].user = j)
         /\ Accounts!Defaults(j)' = {chosen'[j]}
  <2> SUFFICES ASSUME NEW j \in Accounts!UserID, chosen'[j] # Nil
               PROVE  /\ \A q \in Request : ~ (req'[q].at \in {"unset", "write"} /\ req'[q].user = j)
                      /\ Accounts!Defaults(j)' = {chosen'[j]}
    OBVIOUS
  <2>1. chosen'[j] = chosen[j] /\ (j = i => chosen[j] # n)
    BY <1>4
  <2>2. Accounts!Defaults(j) = {chosen[j]} /\ \A q \in Request : ~ (req[q].at \in {"unset", "write"} /\ req[q].user = j)
    BY <2>1 DEF AccountsInv, PresetsOK
  <2>3. Accounts!Defaults(j)' = Accounts!Defaults(j)
    BY <1>3, <2>1, <2>2
  <2> QED BY <1>2, <2>1, <2>2, <2>3
<1> QED BY <1>5, <1>6, <1>7, <1>8 DEF PresetsOK

(* Every step keeps the presets. *)
LEMMA AccountsStep ==
  ASSUME AccountsAssumption, AccountsInv, [Accounts!Next]_(Accounts!vars)
  PROVE  AccountsInv'
<1>1. UpdateInv'
  BY UpdateStep DEF AccountsInv
<1>2. ASSUME NEW r \in Request,
             \/ Accounts!Register(r) \/ Accounts!InsertUser(r) \/ Accounts!Login(r) \/ Accounts!SaveUser(r)
             \/ Accounts!UpdateProfile(r) \/ Accounts!CheckEmail(r) \/ Accounts!UpdateEmail(r)
             \/ Accounts!ChangePassword(r) \/ Accounts!UpdatePassword(r)
      PROVE  PresetsOK'
  <2>1. NotPreset(r)
    BY <1>2, BeginHolds, InsertUserHolds, SaveUserHolds, CheckEmailHolds, UpdateEmailHolds,
       UpdatePasswordHolds DEF AccountsInv
  <2> QED BY <2>1, NotPresetKeeps
<1>3. ASSUME NEW r \in Request,
             Accounts!SetPreset(r) \/ Accounts!Unset(r) \/ Accounts!CreatePreset(r) \/ Accounts!UpdatePreset(r)
      PROVE  PresetsOK'
  BY <1>3, SetPresetKeeps, UnsetKeeps, WriteKeeps
<1>4. ASSUME Accounts!DeletePreset PROVE PresetsOK'
  BY <1>4, DeletePresetKeeps
<1>5. ASSUME UNCHANGED Accounts!vars PROVE PresetsOK'
  <2>1. req' = req /\ tidy' = tidy /\ chosen' = chosen /\ \A j : Accounts!Defaults(j)' = Accounts!Defaults(j)
    BY <1>5 DEF Accounts!vars, Accounts!promises, Accounts!Defaults
  <2> QED BY <2>1 DEF AccountsInv, PresetsOK
<1> QED BY <1>1, <1>2, <1>3, <1>4, <1>5 DEF Accounts!Next, AccountsInv

(* Nor is there a preset. *)
LEMMA AccountsInit ==
  ASSUME AccountsAssumption, Accounts!Init PROVE AccountsInv
<1>1. UpdateInv
  BY UpdateInit
<1>2. /\ \A j : Accounts!Defaults(j) = {}
      /\ \A r \in Request : req[r].at = "idle"
      /\ \A i \in Accounts!UserID : chosen[i] = Nil
  BY DEF Accounts!Init, Accounts!Defaults, Accounts!Idle
<1>3. PresetsOK
  BY <1>2 DEF PresetsOK
<1> QED BY <1>1, <1>3 DEF AccountsInv

(* A user whose requests come one at a time and do not fail has at most    *)
(* one default preset, and it is the one he chose, whatever others do.     *)
THEOREM DefaultsAreUnique ==
  ASSUME AccountsAssumption PROVE Accounts!Spec => []DefaultsHold
<1>1. AccountsInv /\ [Accounts!Next]_(Accounts!vars) => AccountsInv'
  BY AccountsStep
<1>2. Accounts!Init => AccountsInv
  BY AccountsInit
<1>3. AccountsInv => DefaultsHold
  BY DEF AccountsInv, PresetsOK, DefaultsHold, Accounts!DefaultsHold
<1> QED BY <1>1, <1>2, <1>3, PTL DEF Accounts!Spec

-----------------------------------------------------------------------------
(* Statistics: the k-th of the months is the one that belongs there or the *)
(* next, and the former when no day was past the 28th in between.          *)

HistoryAssumption == History!YearsAssumption /\ History!MonthsAssumption

Monthly == [year : Int, month : 1..12]
Daily   == [year : Int, month : 1..12, day : 1..31]

HistoryInv ==
  /\ asked \in Daily /\ today \in Daily
  /\ \/ today = asked
     \/ today.year = asked.year /\ today.month = asked.month /\ today.day = asked.day + 1
     \/ History!Number(today) = History!Number(asked) + 1 /\ today.month # asked.month /\ today.day = 1
  /\ months \in Seq(Monthly) /\ Len(months) <= Months
  /\ \A k \in 1..Len(months) :
       LET n == History!Number(asked) + k - Months IN
         /\ months[k] \in {History!Month(n), History!Month(n + 1)}
         /\ asked.day <= 28 /\ today.day <= 28 /\ today.month = asked.month => months[k] = History!Month(n)

(* A month has its number. *)
LEMMA MonthNumber ==
  ASSUME NEW n \in Int
  PROVE  /\ History!Month(n) \in Monthly
         /\ History!Number(History!Month(n)) = n
<1>1. n \div 12 \in Int /\ n % 12 \in 0..11 /\ n = 12 * (n \div 12) + (n % 12)
  OBVIOUS
<1> QED BY <1>1 DEF History!Month, History!Number, Monthly

(* A day has the month of its number, and the next number is another month. *)
LEMMA NumberMonth ==
  ASSUME NEW d \in Daily
  PROVE  /\ History!Number(d) \in Int
         /\ History!Month(History!Number(d)) = [year |-> d.year, month |-> d.month]
         /\ History!Month(History!Number(d) + 1).month # d.month
<1>1. d.year \in Int /\ d.month \in 1..12
  BY DEF Daily
<1>2. PICK y \in Int, m \in 1..12 : y = d.year /\ m = d.month
  BY <1>1
<1>3. PICK n \in Int : n = y * 12 + m - 1
  BY <1>2
<1>4. n = 12 * y + (m - 1) /\ m - 1 \in 0..11
  BY <1>2, <1>3
<1>5. n \div 12 = y /\ n % 12 = m - 1
  BY <1>2, <1>4
<1>6. (n + 1) % 12 # m - 1
  BY <1>2, <1>4
<1>7. History!Number(d) = n
  BY <1>2, <1>3 DEF History!Number
<1> QED BY <1>2, <1>5, <1>6, <1>7 DEF History!Month

(* A month has 28 days or more. *)
LEMMA AtLeast28 ==
  ASSUME NEW m PROVE History!DaysIn(m) \in 28..31
BY DEF History!DaysIn

(* AddDate reaches the month, or the next one on a day past the 28th.      *)
LEMMA AddDateReaches ==
  ASSUME NEW d \in Daily, NEW n \in Int
  PROVE  LET m == History!Number(d) + n IN
           /\ History!AddDate(d, n) \in {History!Month(m), History!Month(m + 1)}
           /\ d.day <= 28 => History!AddDate(d, n) = History!Month(m)
<1> DEFINE m == History!Number(d) + n
<1>1. m \in Int /\ History!Number(History!Month(m)) = m /\ d.day \in Int
  BY NumberMonth, MonthNumber DEF Daily
<1>2. History!DaysIn(History!Month(m)) \in 28..31
  BY AtLeast28
<1> QED BY <1>1, <1>2 DEF History!AddDate

(* The day after. *)
LEMMA TomorrowHolds ==
  ASSUME HistoryInv, History!Tomorrow
  PROVE  HistoryInv'
<1>1. today = asked /\ asked' = asked /\ months' = months
  BY DEF History!Tomorrow
<1>2. CASE today.day < History!DaysIn(today) /\ today' = [today EXCEPT !.day = @ + 1]
  <2>a. History!DaysIn(today) \in 28..31
    BY AtLeast28
  <2>b. today.year \in Int /\ today.month \in 1..12 /\ today.day \in 1..31
        /\ today = [year |-> today.year, month |-> today.month, day |-> today.day]
    BY DEF HistoryInv, Daily
  <2>1. today.day \in 1..30
    BY <1>2, <2>a, <2>b
  <2>c. today' = [year |-> today.year, month |-> today.month, day |-> today.day + 1]
    BY <1>2, <2>b
  <2>2. /\ today' \in Daily /\ today'.year = today.year /\ today'.month = today.month
        /\ today'.day = today.day + 1
    BY <2>1, <2>b, <2>c DEF Daily
  <2>3. today'.day <= 28 => today.day <= 28
    BY <2>1, <2>2
  <2> QED BY <1>1, <2>2, <2>3 DEF HistoryInv
<1>3. CASE LET m == History!Month(History!Number(today) + 1)
           IN today' = [year |-> m.year, month |-> m.month, day |-> 1]
  <2> DEFINE m == History!Month(History!Number(today) + 1)
  <2>1. m \in Monthly /\ History!Number(m) = History!Number(today) + 1 /\ m.month # today.month
    BY MonthNumber, NumberMonth DEF HistoryInv
  <2>2. /\ today' \in Daily /\ today'.month = m.month /\ today'.year = m.year /\ today'.day = 1
    BY <1>3, <2>1 DEF Monthly, Daily
  <2>3. History!Number(today') = History!Number(m)
    BY <2>2 DEF History!Number
  <2> HIDE DEF m
  <2> QED BY <1>1, <2>1, <2>2, <2>3 DEF HistoryInv
<1> QED BY <1>2, <1>3 DEF History!Tomorrow

(* The next month of the list. *)
LEMMA StatsHold ==
  ASSUME HistoryAssumption, HistoryInv, History!getMonthlyStats
  PROVE  HistoryInv'
<1> DEFINE k == Len(months) + 1
           n == History!Number(asked) + k - Months
           new == History!AddDate(today, k - Months)
<1>1. /\ Len(months) \in Nat /\ Months \in Nat /\ k <= Months
      /\ History!Number(asked) \in Int /\ History!Number(today) \in Int
  BY NumberMonth DEF HistoryInv, HistoryAssumption, History!MonthsAssumption, History!getMonthlyStats
<1>2. /\ months' = Append(months, new) /\ UNCHANGED <<today, asked>>
  BY <1>1 DEF History!getMonthlyStats
<1>3. /\ new \in {History!Month(n), History!Month(n + 1)}
      /\ asked.day <= 28 /\ today.day <= 28 /\ today.month = asked.month => new = History!Month(n)
  <2>1. /\ new \in {History!Month(History!Number(today) + (k - Months)), History!Month(History!Number(today) + (k - Months) + 1)}
        /\ today.day <= 28 => new = History!Month(History!Number(today) + (k - Months))
    BY <1>1, AddDateReaches DEF HistoryInv
  <2>2. CASE History!Number(today) = History!Number(asked)
    <3>1. History!Number(today) + (k - Months) = n
      BY <1>1, <2>2
    <3> QED BY <2>1, <3>1
  <2>3. CASE History!Number(today) = History!Number(asked) + 1 /\ today.month # asked.month /\ today.day = 1
    <3>1. History!Number(today) + (k - Months) = n + 1
      BY <1>1, <2>3
    <3> QED BY <2>1, <2>3, <3>1
  <2>4. today.year = asked.year /\ today.month = asked.month => History!Number(today) = History!Number(asked)
    BY DEF History!Number
  <2> QED BY <2>2, <2>3, <2>4 DEF HistoryInv
<1>4. new \in Monthly
  BY <1>1, <1>3, MonthNumber
<1> HIDE DEF new
<1>5. /\ months' \in Seq(Monthly) /\ Len(months') = k
      /\ months'[k] = new /\ \A i \in 1..Len(months) : months'[i] = months[i]
  BY <1>2, <1>4 DEF HistoryInv
<1>6. \A i \in 1..Len(months') : i \in 1..Len(months) \/ i = k
  BY <1>1, <1>5
<1> QED BY <1>1, <1>2, <1>3, <1>5, <1>6 DEF HistoryInv

(* On the first day the request has no months. *)
LEMMA HistoryInit ==
  ASSUME HistoryAssumption, History!Init PROVE HistoryInv
<1>1. asked \in Daily /\ today = asked
  <2>1. PICK m \in [year : Years, month : 1..12] :
           asked \in [year : {m.year}, month : {m.month}, day : 1..History!DaysIn(m)]
    BY DEF History!Init, History!Dates
  <2>2. History!DaysIn(m) \in 28..31
    BY AtLeast28
  <2>4. m.year \in Int /\ m.month \in 1..12
    <3>1. m.year \in Years /\ m.month \in 1..12
      OBVIOUS
    <3>2. Years \subseteq Int
      <4>1. Years \subseteq 1901..2099
        BY DEF HistoryAssumption, History!YearsAssumption
      <4> QED BY <4>1
    <3> QED BY <3>1, <3>2
  <2>3. asked \in Daily
    BY <2>1, <2>2, <2>4 DEF Daily
  <2> QED BY <2>3 DEF History!Init
<1>2. months = <<>> /\ Months \in Nat
  BY DEF History!Init, HistoryAssumption, History!MonthsAssumption
<1> QED BY <1>1, <1>2 DEF HistoryInv

(* Every step keeps the list in its months. *)
LEMMA HistoryStep ==
  ASSUME HistoryAssumption, HistoryInv, [History!Next]_(History!vars)
  PROVE  HistoryInv'
<1>1. ASSUME UNCHANGED History!vars PROVE HistoryInv'
  BY <1>1 DEF History!vars, HistoryInv
<1> QED BY <1>1, StatsHold, TomorrowHolds DEF History!Next

(* What the invariant says of the whole list. *)
LEMMA MonthsFollow ==
  ASSUME HistoryAssumption, HistoryInv PROVE History!MonthsHold
<1>1. Len(months) \in Nat /\ Months \in Nat /\ DOMAIN months = 1..Len(months) /\ Len(months) <= Months
      /\ History!Number(asked) \in Int
  BY NumberMonth DEF HistoryInv, HistoryAssumption, History!MonthsAssumption
<1>2. ASSUME History!Complete, asked.day <= 28, today.day <= 28, today.month = asked.month
      PROVE  months = History!Last(asked)
  <2>1. Len(months) = Months
    BY <1>2 DEF History!Complete
  <2>2. \A k \in 1..Months : months[k] = History!Month(History!Number(asked) + k - Months)
    BY <1>2, <2>1 DEF HistoryInv
  <2>3. months = [k \in 1..Months |-> months[k]]
    BY <1>1, <2>1 DEF HistoryInv
  <2> QED BY <2>2, <2>3 DEF History!Last
<1> QED BY <1>2 DEF History!MonthsHold

(* The statistics list the last months, each once, when they are asked for *)
(* and complete in the first 28 days of a month, for any number of months. *)
THEOREM StatisticsListTheMonths ==
  ASSUME HistoryAssumption PROVE History!Spec => []MonthsHold
<1>1. History!Init => HistoryInv
  BY HistoryInit
<1>2. HistoryInv /\ [History!Next]_(History!vars) => HistoryInv'
  BY HistoryStep
<1>3. HistoryInv => MonthsHold
  BY MonthsFollow DEF MonthsHold
<1> QED BY <1>1, <1>2, <1>3, PTL DEF History!Spec
=============================================================================
