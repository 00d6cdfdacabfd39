------------------------- MODULE ConfigManagerProofs -------------------------
(***************************************************************************)
(* Theorems about ConfigManager, for any sets of settings and values, any  *)
(* validator and any callbacks.                                            *)
(***************************************************************************)
EXTENDS ConfigManager, TLAPS

Setting == Value \cup {Zero, Nil}

(* What the variables of the property range over. *)
TypeInv ==
  /\ memory \in [Path -> Setting]
  /\ tagged \in [Path -> Setting]
  /\ file \in [Path -> Setting]
  /\ told \in [Path -> Setting]
  /\ kind \in {"struct", "map"}
  /\ call \in [paths : SUBSET Path, at : {"none", "callbacks", "save", "write", "stuck"}]

(* A call ends with its process. *)
EndedHasNoCall == ~ alive => Unlocked

(* A map that a rollback has made of a struct keeps what was confirmed of  *)
(* it under the tags, which is what a later save writes.                   *)
MapKeepsTold ==
  alive /\ kind = "map" => \A p \in Path : told[p] # Nil => tagged[p] = told[p]

IInv == TypeInv /\ EndedHasNoCall /\ MapKeepsTold /\ ToldHolds

(* Taking back what calls have been told leaves nothing to be held.        *)
LEMMA ForgetType ==
  ASSUME told \in [Path -> Setting], NEW S
  PROVE  /\ Forget(S) \in [Path -> Setting]
         /\ \A p \in Path : Forget(S)[p] # Nil => p \notin S /\ Forget(S)[p] = told[p]
BY DEF Forget, Setting

(* Reading the file gives every setting the file's value, if it has one.   *)
LEMMA LoadType ==
  ASSUME file \in [Path -> Setting], NEW old \in [Path -> Setting]
  PROVE  /\ loadFromFile(old) \in [Path -> Setting]
         /\ \A p \in Path : file[p] # Nil => loadFromFile(old)[p] = file[p]
BY DEF loadFromFile

(* Nothing has been confirmed in the beginning. *)
LEMMA InitInv == Init => IInv
BY DEF Init, IInv, TypeInv, EndedHasNoCall, MapKeepsTold, ToldHolds, Unlocked, NoCall, NoSettings,
       Setting

(* A call that begins changes only settings that it has taken back.        *)
LEMMA BeginInv ==
  ASSUME IInv, alive, Unlocked, NEW S \in SUBSET Path,
         memory' \in [Path -> Setting], tagged' \in [Path -> Setting], kind' \in {"struct", "map"},
         \A p \in Path \ S : memory'[p] = memory[p] /\ tagged'[p] = tagged[p] /\ kind' = kind,
         Begin(S), UNCHANGED <<alive, file, torn>>
  PROVE  IInv'
<1>1. /\ told' \in [Path -> Setting]
      /\ \A p \in Path : told'[p] # Nil => p \notin S /\ told'[p] = told[p]
  BY ForgetType DEF IInv, TypeInv, Begin
<1>2. call' = [paths |-> S, at |-> "callbacks"]
  BY DEF Begin
<1> QED BY <1>1, <1>2 DEF IInv, TypeInv, EndedHasNoCall, MapKeepsTold, ToldHolds, Unlocked

(* Set takes back what it changes, and a value that is refused is rolled   *)
(* back.                                                                   *)
LEMMA SetInv ==
  ASSUME IInv, NEW p \in Path, NEW v \in Value, Set(p, v)
  PROVE  IInv'
<1> DEFINE new == [memory EXCEPT ![p] = v]
<1>1. CASE memory' = new /\ Begin({p})
  <2>1. /\ memory' \in [Path -> Setting] /\ \A q \in Path \ {p} : memory'[q] = memory[q]
        /\ UNCHANGED <<kind, tagged, alive, file, torn>>
    BY <1>1 DEF Set, disk, IInv, TypeInv, Setting
  <2>2. alive /\ Unlocked
    BY DEF Set, Ready
  <2> QED BY <1>1, <2>1, <2>2, BeginInv DEF IInv, TypeInv
<1>2. CASE UNCHANGED <<memory, call, told>>
  BY <1>2 DEF Set, disk, IInv, TypeInv, EndedHasNoCall, MapKeepsTold, ToldHolds, Unlocked
<1> QED BY <1>1, <1>2 DEF Set

(* A configuration that is refused leaves a struct as a map that has every *)
(* setting under its tag.                                                  *)
LEMMA SetConfigInv ==
  ASSUME IInv, NEW new \in [Path -> Value], NEW k, SetConfig(new, k)
  PROVE  IInv'
<1> DEFINE Taken == \/ k = "struct" /\ kind' = k /\ memory' = new /\ tagged' = NoSettings
                    \/ k = "map" /\ BecomesMap(new)
           Refused == \/ kind = "struct" /\ BecomesMap(memory)
                      \/ kind = "map" /\ UNCHANGED config
<1>0. alive /\ Unlocked /\ UNCHANGED <<alive, file, torn>>
  BY DEF SetConfig, Ready, disk
<1>1. CASE Taken /\ Begin(Path)
  <2>1. /\ memory' \in [Path -> Setting] /\ tagged' \in [Path -> Setting]
        /\ kind' \in {"struct", "map"}
    BY <1>1 DEF BecomesMap, NoSettings, Setting
  <2> QED BY <1>0, <1>1, <2>1, BeginInv
<1>2. CASE Refused /\ UNCHANGED <<call, told>>
  <2>1. CASE kind = "struct" /\ BecomesMap(memory)
    <3>1. kind' = "map" /\ memory' = NoSettings /\ tagged' = memory
      BY <2>1 DEF BecomesMap
    <3>2. NoSettings \in [Path -> Setting]
      BY DEF NoSettings, Setting
    <3>3. \A p \in Path : told[p] # Nil => tagged'[p] = told[p]
      BY <1>0, <2>1, <3>1 DEF IInv, ToldHolds
    <3> QED BY <1>0, <1>2, <3>1, <3>2, <3>3
            DEF IInv, TypeInv, EndedHasNoCall, MapKeepsTold, ToldHolds, Unlocked
  <2>2. CASE kind = "map" /\ UNCHANGED config
    BY <1>0, <1>2, <2>2 DEF config, IInv, TypeInv, EndedHasNoCall, MapKeepsTold, ToldHolds, Unlocked
  <2> QED BY <1>2, <2>1, <2>2
<1> QED BY <1>1, <1>2 DEF SetConfig

(* A save writes what was confirmed along with the rest; one that has not  *)
(* written leaves nobody anything to rely on.                              *)
LEMMA WriteFileInv ==
  ASSUME IInv, WriteFile
  PROVE  IInv'
<1>0. alive /\ call' = NoCall /\ call.at = "write" /\ UNCHANGED <<alive, memory, kind, tagged>>
  BY DEF WriteFile, config
<1>1. CASE /\ file' \in Saved /\ torn' = FALSE
           /\ told' = [p \in Path |->
                         IF kind = "struct" /\ p \in call.paths THEN memory[p] ELSE told[p]]
  <2>1. CASE kind = "struct"
    <3>1. file' = memory
      BY <1>1, <2>1 DEF Saved
    <3>2. told' \in [Path -> Setting] /\ \A p \in Path : told'[p] # Nil => told'[p] = memory[p]
      BY <1>0, <1>1, <2>1 DEF IInv, TypeInv, ToldHolds
    <3> QED BY <1>0, <1>1, <2>1, <3>1, <3>2
            DEF IInv, TypeInv, EndedHasNoCall, MapKeepsTold, ToldHolds, Unlocked, NoCall
  <2>2. CASE kind = "map"
    <3>1. PICK S \in SUBSET {p \in Path : tagged[p] = Nil} :
            file' = [p \in Path |-> IF p \in S THEN memory[p] ELSE tagged[p]]
      BY <1>1, <2>2 DEF Saved
    <3>2. \A p \in Path : told[p] # Nil => tagged[p] = told[p]
      BY <1>0, <2>2 DEF IInv, MapKeepsTold
    <3>3. told' = told
      BY <1>1, <2>2 DEF IInv, TypeInv
    <3>4. file' \in [Path -> Setting] /\ \A p \in Path : told[p] # Nil => file'[p] = told[p]
      BY <3>1, <3>2 DEF IInv, TypeInv
    <3> QED BY <1>0, <1>1, <2>2, <3>2, <3>3, <3>4
            DEF IInv, TypeInv, EndedHasNoCall, MapKeepsTold, ToldHolds, Unlocked, NoCall
  <2> QED BY <2>1, <2>2 DEF IInv, TypeInv
<1>2. CASE told' = Forget(Path) /\ UNCHANGED <<file, torn>>
  <2>1. told' \in [Path -> Setting] /\ \A p \in Path : told'[p] = Nil
    BY <1>2, ForgetType DEF IInv, TypeInv
  <2> QED BY <1>0, <1>2, <2>1
          DEF IInv, TypeInv, EndedHasNoCall, MapKeepsTold, ToldHolds, Unlocked, NoCall
<1> QED BY <1>1, <1>2 DEF WriteFile

(* A reload brings what is in the file, where what was confirmed is too. *)
LEMMA ReloadInv ==
  ASSUME IInv, Reload
  PROVE  IInv'
<1>1. /\ memory' \in [Path -> Setting]
      /\ \A p \in Path : file[p] # Nil => memory'[p] \in {file[p], memory[p]}
  BY LoadType DEF Reload, IInv, TypeInv
<1>2. UNCHANGED <<alive, kind, tagged, file, torn, call, told>> /\ Unlocked
  BY DEF Reload, disk
<1> QED BY <1>1, <1>2 DEF IInv, TypeInv, EndedHasNoCall, MapKeepsTold, ToldHolds, Unlocked

(* An edit of the file takes back what was confirmed. *)
LEMMA EditInv ==
  ASSUME IInv, BeginEdit \/ \E new \in [Path -> Value \cup {Nil}] : EndEdit(new)
  PROVE  IInv'
<1>1. told' \in [Path -> Setting] /\ \A p \in Path : told'[p] = Nil
  BY ForgetType DEF IInv, TypeInv, BeginEdit, EndEdit
<1>2. file' \in [Path -> Setting]
  BY DEF BeginEdit, EndEdit, NoSettings, Setting
<1>3. UNCHANGED <<alive, memory, kind, tagged, call>>
  BY DEF BeginEdit, EndEdit, config
<1> QED BY <1>1, <1>2, <1>3 DEF IInv, TypeInv, EndedHasNoCall, MapKeepsTold, ToldHolds, Unlocked

(* The process may end in the middle of a save, which confirms nothing. *)
LEMMA ExitInv ==
  ASSUME IInv, Exit
  PROVE  IInv'
<1>1. /\ told' \in [Path -> Setting]
      /\ \A p \in Path : told'[p] # Nil => call.at # "write" /\ told'[p] = told[p]
  BY ForgetType DEF IInv, TypeInv, Exit
<1>2. ~ alive' /\ call' = NoCall /\ UNCHANGED <<memory, kind, tagged, file, torn>>
  BY DEF Exit, config, disk
<1> QED BY <1>1, <1>2 DEF IInv, TypeInv, EndedHasNoCall, MapKeepsTold, ToldHolds, Unlocked, NoCall

(* A new process reads what the last one was told from the file.           *)
LEMMA StartInv ==
  ASSUME IInv, NewConfigManager
  PROVE  IInv'
<1>1. /\ memory' \in [Path -> Setting]
      /\ \A p \in Path : file[p] # Nil => memory'[p] = file[p]
  BY LoadType DEF NewConfigManager, IInv, TypeInv, Setting
<1>2. /\ kind' = "struct" /\ tagged' = NoSettings /\ NoSettings \in [Path -> Setting]
      /\ UNCHANGED <<file, torn, call, told>> /\ call.at = "none"
  BY DEF NewConfigManager, NoSettings, Setting, IInv, EndedHasNoCall, Unlocked
<1> QED BY <1>1, <1>2 DEF IInv, TypeInv, EndedHasNoCall, MapKeepsTold, ToldHolds, Unlocked

(* Every step keeps the invariant. *)
LEMMA StepInv == IInv /\ [Next]_vars => IInv'
<1> SUFFICES ASSUME IInv, [Next]_vars PROVE IInv'
  OBVIOUS
<1>1. CASE \E p \in Path, v \in Value : Set(p, v)
  BY <1>1, SetInv
<1>2. CASE \E new \in [Path -> Value], k \in {"struct", "map"} : SetConfig(new, k)
  BY <1>2, SetConfigInv
<1>3. CASE RunCallbacks
  BY <1>3 DEF RunCallbacks, config, disk, IInv, TypeInv, EndedHasNoCall, MapKeepsTold, ToldHolds,
              Unlocked, NoCall
<1>4. CASE Truncate
  BY <1>4 DEF Truncate, config, IInv, TypeInv, EndedHasNoCall, MapKeepsTold, ToldHolds, Unlocked,
              NoSettings, Setting
<1>5. CASE WriteFile
  BY <1>5, WriteFileInv
<1>6. CASE Notice \/ Stop \/ startFileWatcher
  BY <1>6 DEF Notice, Stop, startFileWatcher, config, disk, IInv, TypeInv, EndedHasNoCall,
              MapKeepsTold, ToldHolds, Unlocked
<1>7. CASE Reload
  BY <1>7, ReloadInv
<1>8. CASE BeginEdit \/ \E new \in [Path -> Value \cup {Nil}] : EndEdit(new)
  BY <1>8, EditInv
<1>9. CASE Exit
  BY <1>9, ExitInv
<1>10. CASE NewConfigManager
  BY <1>10, StartInv
<1>11. CASE UNCHANGED vars
  BY <1>11 DEF vars, config, disk, IInv, TypeInv, EndedHasNoCall, MapKeepsTold, ToldHolds, Unlocked
<1> QED BY <1>1, <1>2, <1>3, <1>4, <1>5, <1>6, <1>7, <1>8, <1>9, <1>10, <1>11 DEF Next

(* What Set and SetConfig confirm of a struct stays in the file, and in    *)
(* memory as long as no refused SetConfig has made a map of the struct,    *)
(* until it is set again, edited, or cut off in the middle of a save,      *)
(* whatever the callbacks do and the process goes through.                 *)
THEOREM ConfirmedSettingsHold == Spec => []ToldHolds
<1>1. Init => IInv
  BY InitInv
<1>2. IInv /\ [Next]_vars => IInv'
  BY StepInv
<1>3. IInv => ToldHolds
  BY DEF IInv
<1> QED BY <1>1, <1>2, <1>3, PTL DEF Spec
=============================================================================
