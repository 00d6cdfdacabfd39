------------------------------- MODULE MCWeb -------------------------------
(***************************************************************************)
(* What the web server stores, for TLC: the files of conversions, the      *)
(* accounts and presets, and the statistics of the history.  They share no *)
(* state, so each behaviour looks at one of them while the others stay as  *)
(* they begin.                                                             *)
(***************************************************************************)
EXTENDS Web, TLC

CONSTANTS t1, t2, shared, r1, r2, n0, n1, e0, e1, p0, p1, nil

MCNil == nil
TwoTasks == {t1, t2}

(* All texts of up to two lines of five kinds, and some longer ones with   *)
(* every kind.                                                             *)
Texts ==
  UNION {[1..n -> {"volume", "chapter", "extra", "unknown", "text"}] : n \in 0..2}
    \cup {<<"text", "volume", "chapter", "extra", "chapter", "text">>,
          <<"volume", "text", "blank", "excluded", "chapter", "volume">>,
          <<"unknown", "blank", "chapter", "overlong", "blank", "text">>,
          <<"volume", "chapter", "volume", "chapter", "chapter">>,
          <<"chapter", "text", "chapter">>,
          <<"extra", "volume", "text", "extra", "text">>}

Options == {[volumes |-> TRUE, tips |-> FALSE], [volumes |-> FALSE, tips |-> TRUE]}

Ask(text, terminated, option, format_, name_) ==
  [text |-> text, terminated |-> terminated, volumes |-> option.volumes,
   tips |-> option.tips, format |-> format_, name |-> name_]

Plain(text, format_, name_) ==
  Ask(text, TRUE, [volumes |-> TRUE, tips |-> FALSE], format_, name_)

Pair(q1, q2) == [t \in TwoTasks |-> IF t = t1 THEN q1 ELSE q2]

(* Any text is converted to azw3 beside a book of one section; and a book  *)
(* of two sections to all formats beside a book of the same or of another  *)
(* name.                                                                   *)
MCRequests ==
  {Pair(Ask(x, b, o, "azw3", t1), Plain(<<"chapter">>, "epub", t2)) :
     x \in Texts, b \in BOOLEAN, o \in Options}
  \cup {Pair(Plain(<<"chapter", "text", "chapter">>, "all", n), Plain(<<"chapter", "text">>, f, shared)) :
          n \in {t1, shared}, f \in {"epub", "all"}}

(* Two epubs of one name. *)
SharedRequests ==
  {Pair(Plain(<<"chapter", "text", "chapter">>, "epub", shared),
        Plain(<<"chapter", "text">>, "epub", shared))}

MCAdmin == [username |-> n0, email |-> e0, password |-> p0]

(* The tables of users and presets share no rows: one scenario for each.   *)
MCScenarios == {{"register", "profile", "password"}, {"register", "preset"}}

ASSUME Accounts!AdminAssumption /\ Accounts!BoundsAssumption /\ Accounts!NilAssumption
ASSUME History!YearsAssumption /\ History!MonthsAssumption

VARIABLE focus  \* the component this behaviour looks at

\* requests are interchangeable
Symmetric == Permutations({r1, r2})

-----------------------------------------------------------------------------
MCInit ==
  /\ focus \in {"conversion", "accounts", "history"}
  /\ Init /\ (focus # "conversion" => disk = "good" /\ request = CHOOSE q \in Requests : TRUE)
  /\ Accounts!Init /\ (focus # "accounts" => calls = {"register", "preset"})
  /\ History!Init /\ (focus # "history" => today = [year |-> 2024, month |-> 1, day |-> 1])

MCNext ==
  /\ \/ /\ focus = "conversion" /\ Next
        /\ UNCHANGED <<accounts, history>>
     \/ /\ focus = "accounts" /\ Accounts!Next
        /\ UNCHANGED <<vars, history>>
     \/ /\ focus = "history" /\ History!Next
        /\ UNCHANGED <<vars, accounts>>
  /\ UNCHANGED focus

MCSpec == MCInit /\ [][MCNext]_<<focus, vars, accounts, history>>
=============================================================================
