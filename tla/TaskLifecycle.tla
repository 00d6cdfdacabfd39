--------------------------- MODULE TaskLifecycle ---------------------------
(***************************************************************************)
(* What GET /status promises about one task ID: a task appears as pending, *)
(* its progress grows while it is processed, it gets one outcome, and only *)
(* a cleanup or the end of the process makes it disappear.  TaskService    *)
(* implements this module when no two requests carry the same task ID.     *)
(***************************************************************************)
EXTENDS Naturals

CONSTANT TaskID

VARIABLES
  state,   \* state[t]: status reported for t, "absent" when it answers 404
  percent  \* percent[t]: progress reported for t

vars == <<state, percent>>

Present == {"pending", "processing", "completed", "failed", "cancelled"}
Active  == {"pending", "processing"}

Set(t, s, p) ==
  /\ state' = [state EXCEPT ![t] = s]
  /\ percent' = [percent EXCEPT ![t] = p]

Create(t)   == state[t] = "absent" /\ Set(t, "pending", 0)
Report(t)   == state[t] \in Active
                 /\ \E p \in {10, 20, 40, 60, 80} : p > percent[t] /\ Set(t, "processing", p)
Complete(t) == state[t] = "processing" /\ Set(t, "completed", 100)
Fail(t)     == state[t] = "processing" /\ Set(t, "failed", 0)
Cancel(t)   == state[t] \in Active /\ Set(t, "cancelled", percent[t])
Remove(t)   == state[t] # "absent" /\ Set(t, "absent", 0)

(* The process ends: every task is forgotten. *)
Crash == /\ state' = [t \in TaskID |-> "absent"]
         /\ percent' = [t \in TaskID |-> 0]

Init == /\ state = [t \in TaskID |-> "absent"]
        /\ percent = [t \in TaskID |-> 0]

Next == \/ \E t \in TaskID : \/ Create(t) \/ Report(t) \/ Complete(t)
                             \/ Fail(t) \/ Cancel(t) \/ Remove(t)
        \/ Crash

Spec == Init /\ [][Next]_vars
=============================================================================
