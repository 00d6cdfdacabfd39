---------------------------- MODULE ConfigManager ----------------------------
(***************************************************************************)
(* A configuration in memory and in a file.  Set and SetConfig change the  *)
(* memory, call hooks and watchers, and save, all under one lock; an       *)
(* editor changes the file; a watcher of the file reloads it.  Saving      *)
(* truncates the file first.                                               *)
(*                                                                         *)
(* The file is JSON, and each setting is a field of a struct with a tag of *)
(* its own: Get and Set go by the field, json.Marshal and Unmarshal by the *)
(* tag.  In a map, which is what json.Unmarshal makes of a struct's JSON,  *)
(* the setting is therefore under its tag, where Get does not look.        *)
(***************************************************************************)
EXTENDS Integers, FiniteSets

CONSTANTS
  Path,       \* settings
  Value,      \* values a setting may have
  Zero,       \* the value of a setting in an empty struct
  Valid(_),   \* the validators' verdict on a configuration
  Callbacks,  \* what hooks and watchers do: "return", "fail" or, calling Get, "read"
  MaxCalls,   \* bound on the calls of Set and SetConfig
  MaxEdits,   \* bound on the edits of the file
  Nil         \* nothing

VARIABLES
  alive,     \* the process runs
  memory,    \* memory[p]: what Get finds in cm.config for p, Nil if no path or null
  kind,      \* what cm.config is: "struct", a pointer to one, or "map"
  tagged,    \* tagged[p]: what cm.config, when it is a map, has under the tag of p
  file,      \* the settings in the file at cm.configPath
  torn,      \* the file has been truncated and not been written since
  newer,     \* the file is newer than fw.lastModTime
  missed,    \* auxiliary: fw.lastModTime is that of an edit which has not been loaded
  watcher,   \* "starting" between Load and os.Stat, then where fw.watch is
  call,      \* the call that holds cm.mutex: its paths and where it is
  editing,   \* an editor has truncated the file and not written it yet
  told,      \* auxiliary: what the last call to set p in a struct confirmed
  bound      \* calls and edits so far

config == <<memory, kind, tagged>>
disk   == <<file, torn, newer>>
vars   == <<alive, config, disk, missed, watcher, call, editing, told, bound>>

NoSettings == [p \in Path |-> Nil]
NoCall     == [paths |-> {}, at |-> "none"]
Unlocked   == call.at = "none"
Ready      == alive /\ watcher # "starting"
Forget(S)  == [p \in Path |-> IF p \in S THEN Nil ELSE told[p]]

-----------------------------------------------------------------------------
(* Set and SetConfig, in the steps between which something else can happen *)

Begin(paths) ==
  /\ call' = [paths |-> paths, at |-> "callbacks"]
  /\ told' = Forget(paths)

\* what a validator makes of a map is its own affair
Accepts(c, k) == k = "map" \/ Valid(c)
Refuses(c, k) == k = "map" \/ ~ Valid(c)

(* Mutant of Set: what the validators refuse is not rolled back. *)
Set_NoRollback(p, v) ==
  LET new == [memory EXCEPT ![p] = v] IN
    /\ Ready /\ Unlocked /\ bound.calls < MaxCalls
    /\ bound' = [bound EXCEPT !.calls = @ + 1]
    /\ memory' = new
    /\ \/ Accepts(new, kind) /\ Begin({p})
       \/ Refuses(new, kind) /\ UNCHANGED <<call, told>>
    /\ UNCHANGED <<alive, kind, tagged, disk, missed, watcher, editing>>

(* A value that the validators refuse is rolled back under the same lock.  *)
(* In a map it goes under the name of the field.                           *)
Set(p, v) ==
  LET new == [memory EXCEPT ![p] = v] IN
    /\ Ready /\ Unlocked /\ bound.calls < MaxCalls
    /\ bound' = [bound EXCEPT !.calls = @ + 1]
    /\ \/ /\ Accepts(new, kind)
          /\ memory' = new
          /\ Begin({p})
       \/ /\ Refuses(new, kind)
          /\ UNCHANGED <<memory, call, told>>
    /\ UNCHANGED <<alive, kind, tagged, disk, missed, watcher, editing>>

\* a map with the given settings under their tags takes the configuration's place
BecomesMap(settings) ==
  kind' = "map" /\ memory' = NoSettings /\ tagged' = settings

(* SetConfig with a pointer to a struct, or Import, whose data is a map.   *)
(* The rollback installs a clone made by way of JSON: of a struct, a map;  *)
(* of a map, one that is equal.                                            *)
SetConfig(new, k) ==
  /\ Ready /\ Unlocked /\ bound.calls < MaxCalls
  /\ bound' = [bound EXCEPT !.calls = @ + 1]
  /\ \/ /\ Accepts(new, k)
        /\ \/ k = "struct" /\ kind' = k /\ memory' = new /\ tagged' = NoSettings
           \/ k = "map" /\ BecomesMap(new)
        /\ Begin(Path)
     \/ /\ Refuses(new, k)
        /\ \/ kind = "struct" /\ BecomesMap(memory)
           \/ kind = "map" /\ UNCHANGED config
        /\ UNCHANGED <<call, told>>
  /\ UNCHANGED <<alive, disk, missed, watcher, editing>>

(* The change hooks of Set, the watchers of SetConfig.  One that fails     *)
(* ends the call with memory changed and the file not; one that calls Get  *)
(* waits for the lock its caller holds.                                    *)
RunCallbacks ==
  /\ alive /\ call.at = "callbacks"
  /\ \/ "return" \in Callbacks /\ call' = [call EXCEPT !.at = "save"]
     \/ "fail" \in Callbacks /\ call' = NoCall
     \/ "read" \in Callbacks /\ call' = [call EXCEPT !.at = "stuck"]
  /\ UNCHANGED <<alive, config, disk, missed, watcher, editing, told, bound>>

(* saveToFile: WriteFile truncates ... *)
Truncate ==
  /\ alive /\ call.at = "save"
  /\ call' = [call EXCEPT !.at = "write"]
  /\ file' = NoSettings /\ torn' = TRUE /\ newer' = TRUE /\ missed' = FALSE
  /\ UNCHANGED <<alive, config, watcher, editing, told, bound>>

(* What a program reads from the saved configuration: the settings of the  *)
(* struct, or those under the tags of the map, unless a setting has only a *)
(* key with the name of its field, which the decoder may take for the tag. *)
Saved ==
  IF kind = "struct" THEN {memory}
  ELSE {[p \in Path |-> IF p \in S THEN memory[p] ELSE tagged[p]] :
          S \in SUBSET {p \in Path : tagged[p] = Nil}}

(* ... and writes, or fails, which leaves what is in the file.             *)
WriteFile ==
  /\ alive /\ call.at = "write"
  /\ call' = NoCall
  /\ newer' = TRUE
  /\ \/ /\ file' \in Saved /\ torn' = FALSE
        /\ told' = [p \in Path |->
                      IF kind = "struct" /\ p \in call.paths THEN memory[p] ELSE told[p]]
     \/ /\ told' = Forget(Path)
        /\ UNCHANGED <<file, torn>>
  /\ UNCHANGED <<alive, config, missed, watcher, editing, bound>>

-----------------------------------------------------------------------------
(* Loading *)

(* json.Unmarshal needs a pointer, and a complete file.                    *)
CanLoad(k) == k # "map" /\ ~ torn

(* The settings that the file has replace those in memory. *)
loadFromFile(old) == [p \in Path |-> IF file[p] = Nil THEN old[p] ELSE file[p]]

(* watch: the time is noted before the pause ... *)
Notice ==
  /\ alive /\ watcher = "tick"
  /\ newer
  /\ newer' = FALSE
  /\ watcher' = "pause"
  /\ UNCHANGED <<alive, config, file, torn, missed, call, editing, told, bound>>

(* Mutant of Reload: a reload that finds the lock taken is left out. *)
Reload_SkipsWhenLocked ==
  /\ alive /\ watcher = "pause"
  /\ watcher' = "tick"
  /\ memory' = IF CanLoad(kind) /\ Unlocked THEN loadFromFile(memory) ELSE memory
  /\ UNCHANGED <<alive, kind, tagged, disk, missed, call, editing, told, bound>>

(* ... and Reload takes the lock after it.  Nothing is undone when the     *)
(* validators refuse what has been loaded, and no error is reported.       *)
Reload ==
  /\ alive /\ watcher = "pause" /\ Unlocked
  /\ watcher' = "tick"
  /\ memory' = IF CanLoad(kind) THEN loadFromFile(memory) ELSE memory
  /\ UNCHANGED <<alive, kind, tagged, disk, missed, call, editing, told, bound>>

(* Stop closes the channel that watch looks at between two ticks.          *)
Stop ==
  /\ alive /\ watcher = "tick"
  /\ watcher' = "off"
  /\ UNCHANGED <<alive, config, disk, missed, call, editing, told, bound>>

-----------------------------------------------------------------------------
(* The editor and the process *)

BeginEdit ==
  /\ ~ editing /\ bound.edits < MaxEdits
  /\ bound' = [bound EXCEPT !.edits = @ + 1]
  /\ editing' = TRUE
  /\ file' = NoSettings /\ torn' = TRUE /\ newer' = TRUE /\ missed' = FALSE
  /\ told' = Forget(Path)
  /\ UNCHANGED <<alive, config, watcher, call>>

EndEdit(new) ==
  /\ editing
  /\ editing' = FALSE
  /\ file' = new /\ torn' = FALSE /\ newer' = TRUE /\ missed' = FALSE
  /\ told' = Forget(Path)
  /\ UNCHANGED <<alive, config, watcher, call, bound>>

(* The process ends; a save that it was in the middle of leaves a torn     *)
(* file.                                                                   *)
Exit ==
  /\ alive
  /\ alive' = FALSE
  /\ call' = NoCall
  /\ told' = Forget(IF call.at = "write" THEN Path ELSE call.paths)
  /\ watcher' = "off"
  /\ UNCHANGED <<config, disk, missed, editing, bound>>

(* NewConfigManager on an empty struct, without defaults and environment:  *)
(* a file that cannot be loaded or that the validators refuse ends the     *)
(* program again.                                                          *)
NewConfigManager ==
  /\ ~ alive
  /\ CanLoad("struct")
  /\ memory' = loadFromFile([p \in Path |-> Zero])
  /\ Valid(memory')
  /\ alive' = TRUE /\ kind' = "struct" /\ tagged' = NoSettings
  /\ watcher' = "starting" /\ newer' = FALSE /\ missed' = FALSE
  /\ UNCHANGED <<file, torn, call, editing, told, bound>>

(* Then startFileWatcher notes the time of the file as it is by now: a     *)
(* change since it was loaded is taken for what has been loaded.           *)
startFileWatcher ==
  /\ alive /\ watcher = "starting"
  /\ watcher' = "tick"
  /\ missed' = newer /\ newer' = FALSE
  /\ UNCHANGED <<alive, config, file, torn, call, editing, told, bound>>

-----------------------------------------------------------------------------
Init ==
  /\ alive = FALSE
  /\ memory = [p \in Path |-> Zero] /\ kind = "struct" /\ tagged = NoSettings
  /\ file = memory /\ torn = FALSE /\ newer = FALSE /\ missed = FALSE
  /\ watcher = "off"
  /\ call = NoCall
  /\ editing = FALSE
  /\ told = [p \in Path |-> Nil]
  /\ bound = [calls |-> 0, edits |-> 0]

Next ==
  \/ \E p \in Path, v \in Value : Set(p, v)
  \/ \E new \in [Path -> Value], k \in {"struct", "map"} : SetConfig(new, k)
  \/ RunCallbacks \/ Truncate \/ WriteFile
  \/ Notice \/ Reload \/ Stop
  \/ BeginEdit \/ (\E new \in [Path -> Value \cup {Nil}] : EndEdit(new))
  \/ Exit \/ NewConfigManager \/ startFileWatcher

Spec == Init /\ [][Next]_vars

(* Calls that hold the lock go on, NewConfigManager ends, and the          *)
(* watcher's goroutine runs.                                               *)
Fairness ==
  /\ WF_vars(startFileWatcher)
  /\ WF_vars(RunCallbacks) /\ WF_vars(Truncate) /\ WF_vars(WriteFile)
  /\ WF_vars(Notice) /\ SF_vars(Reload)

FairSpec == Spec /\ Fairness

-----------------------------------------------------------------------------
(* Properties *)

(* What a call of Set or SetConfig has confirmed of a struct is in the     *)
(* file, for the next process to find, and in memory as long as the        *)
(* configuration is a struct, through reloads, restarts and other calls,   *)
(* failed ones included, until the setting is set again, the file is       *)
(* edited, or a save breaks off in the middle.  The map that a refused     *)
(* SetConfig leaves keeps it under the tag, in further saves as well.      *)
ToldHolds ==
  \A p \in Path :
    told[p] # Nil =>
      /\ alive /\ kind = "struct" => memory[p] = told[p]
      /\ call.at # "write" => ~ torn /\ file[p] = told[p]

(* A confirmed setting is what Get finds, since whatever is refused later  *)
(* is rolled back.                                                         *)
ToldIsFound ==
  \A p \in Path : alive /\ told[p] # Nil => memory[p] = told[p]

Watching == alive /\ watcher # "off" /\ kind = "struct" /\ call.at # "stuck"

Loaded == ~ torn /\ memory = loadFromFile(memory)

(* A change of the file since it was loaded is in memory some time later,  *)
(* unless another write comes first, nobody can load it any more (the      *)
(* watcher has stopped, a hook is stuck with the lock, or a map has taken  *)
(* the struct's place), or it fell between the first Load and the Stat     *)
(* that begins the watch: that one is never loaded.                        *)
HotReload ==
  newer /\ ~ torn /\ Watching ~> Loaded \/ torn \/ ~ Watching \/ missed
=============================================================================
