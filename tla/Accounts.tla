------------------------------ MODULE Accounts ------------------------------
(***************************************************************************)
(* The accounts and presets of the web server: AuthService and the preset  *)
(* part of HistoryService over one database.  A request is a sequence of   *)
(* SQL statements without a transaction, so the statements of requests in  *)
(* flight interleave; any statement may fail, if only because another      *)
(* connection has the database locked.  Rows are named by their primary    *)
(* key.  Roles, IsActive (which nothing sets to false), time stamps and    *)
(* the other columns of a preset are left out.                             *)
(***************************************************************************)
EXTENDS Naturals, Sequences

CONSTANTS
  Request,     \* HTTP requests in flight at a time
  Name, Email, Password,
  Admin,       \* the row of the default administrator
  MaxUsers, MaxPresets,   \* bounds on the rows of the tables
  Scenarios,   \* sets of the handlers that clients call:
               \* "register", "profile", "password", "preset"
  Nil          \* nothing

User == [username : Name, email : Email, password : Password]
UserID == 1..MaxUsers
Preset == [user : UserID, isDefault : BOOLEAN]

AdminAssumption == Admin \in User
BoundsAssumption == MaxUsers \in Nat \ {0} /\ MaxPresets \in Nat
NilAssumption == Nil \notin Email \cup Password \cup Nat \cup Preset

VARIABLES
  calls,    \* the handlers called in this behaviour
  users,    \* the table of users
  tokens,   \* users that hold a token
  presets,  \* the table of presets, Nil for a deleted row
  req,      \* req[r]: where request r is, and its arguments
  owed,     \* owed[i]: columns of user i as the last update answered OK left them
  tidy,     \* users whose last preset requests came one at a time and did not fail
  chosen    \* chosen[i]: the default preset the last request of user i was answered OK for

promises == <<owed, tidy, chosen>>
vars == <<calls, users, tokens, presets, req, promises>>

Idle == [at |-> "idle"]

\* the middleware lets a request of user i pass
Authenticated(i) == i \in tokens

Begin(r, state) == req[r] = Idle /\ req' = [req EXCEPT ![r] = state]
Goto(r, from, to) == req[r].at = from /\ req' = [req EXCEPT ![r].at = to]
Return(r, from) == req[r].at = from /\ req' = [req EXCEPT ![r] = Idle]

\* the unique indexes of the table of users
Unique(i, row) ==
  \A j \in DOMAIN users \ {i} : users[j].username # row.username /\ users[j].email # row.email

-----------------------------------------------------------------------------
(* Register and Login *)

(* The SELECT for the name and the address finds nobody, or fails, which   *)
(* is taken for the same.                                                  *)
Register(r) ==
  /\ "register" \in calls
  /\ \E row \in User : Begin(r, [at |-> "insert user", row |-> row])
  /\ UNCHANGED <<calls, users, tokens, presets, promises>>

InsertUser(r) ==
  /\ Return(r, "insert user")
  /\ LET row == req[r].row IN
       \/ /\ Unique(0, row) /\ Len(users) < MaxUsers
          /\ users' = Append(users, row)
          /\ owed' = [owed EXCEPT ![Len(users) + 1] = [email |-> row.email, password |-> row.password]]
       \/ UNCHANGED <<users, owed>>
  /\ UNCHANGED <<calls, tokens, presets, tidy, chosen>>

(* The row is read and the password compared with it ...                   *)
Login(r) ==
  /\ \E i \in DOMAIN users : Begin(r, [at |-> "save", user |-> i, row |-> users[i]])
  /\ UNCHANGED <<calls, users, tokens, presets, promises>>

(* ... and all of it is saved with the time of the login.  That it could   *)
(* not be saved is ignored.                                                *)
SaveUser(r) ==
  /\ Return(r, "save")
  /\ tokens' = tokens \cup {req[r].user}
  /\ \/ /\ Unique(req[r].user, req[r].row)
        /\ users' = [users EXCEPT ![req[r].user] = req[r].row]
     \/ UNCHANGED users
  /\ UNCHANGED <<calls, presets, promises>>

-----------------------------------------------------------------------------
(* UpdateProfile and ChangePassword, by a user who holds a token *)

UpdateProfile(r) ==
  /\ "profile" \in calls
  /\ \E i \in DOMAIN users, e \in Email :
       /\ Authenticated(i)
       /\ Begin(r, [at |-> IF e = users[i].email THEN "update email" ELSE "check email",
                    user |-> i, row |-> users[i], email |-> e])
  /\ UNCHANGED <<calls, users, tokens, presets, promises>>

(* Again a SELECT that fails finds nobody. *)
CheckEmail(r) ==
  /\ \/ Goto(r, "check email", "update email")
     \/ /\ Return(r, "check email")
        /\ \E j \in DOMAIN users \ {req[r].user} : users[j].email = req[r].email
  /\ UNCHANGED <<calls, users, tokens, presets, promises>>

\* a login of user i is between reading and saving its row
LoginInFlight(i) == \E r \in Request : req[r].at = "save" /\ req[r].user = i

Owe(i, column, value) ==
  owed' = [owed EXCEPT ![i][column] = IF LoginInFlight(i) THEN Nil ELSE value]

(* Mutant of UpdateEmail: the row that was read is saved, as Login does. *)
UpdateEmail_SavesRow(r) ==
  LET i == req[r].user
      row == [req[r].row EXCEPT !.email = req[r].email] IN
    /\ Return(r, "update email")
    /\ \/ /\ Unique(i, row)
          /\ users' = [users EXCEPT ![i] = row]
          /\ Owe(i, "email", row.email)
       \/ UNCHANGED <<users, owed>>
    /\ UNCHANGED <<calls, tokens, presets, tidy, chosen>>

UpdateEmail(r) ==
  LET i == req[r].user
      row == [users[i] EXCEPT !.email = req[r].email] IN
    /\ Return(r, "update email")
    /\ \/ /\ Unique(i, row)
          /\ users' = [users EXCEPT ![i] = row]
          /\ Owe(i, "email", row.email)
       \/ UNCHANGED <<users, owed>>
    /\ UNCHANGED <<calls, tokens, presets, tidy, chosen>>

(* The old password is compared with the row that is read here. *)
ChangePassword(r) ==
  /\ "password" \in calls
  /\ \E i \in DOMAIN users, p \in Password :
       /\ Authenticated(i)
       /\ Begin(r, [at |-> "update password", user |-> i, password |-> p])
  /\ UNCHANGED <<calls, users, tokens, presets, promises>>

UpdatePassword(r) ==
  LET i == req[r].user IN
    /\ Return(r, "update password")
    /\ \/ /\ users' = [users EXCEPT ![i].password = req[r].password]
          /\ Owe(i, "password", req[r].password)
       \/ UNCHANGED <<users, owed>>
    /\ UNCHANGED <<calls, tokens, presets, tidy, chosen>>

-----------------------------------------------------------------------------
(* CreatePreset (preset 0 below) and UpdatePreset: with IsDefault, the     *)
(* other defaults of the user are unset first.                             *)

PresetRequests(i) == {r \in Request : req[r].at \in {"unset", "write"} /\ req[r].user = i}

FirstStatement(p, isDefault) == IF isDefault THEN "unset" ELSE "write"

(* A preset request that is not alone spoils the promises of the others.   *)
SetPreset(r) ==
  /\ "preset" \in calls
  /\ req[r] = Idle
  /\ \E i \in DOMAIN users, p \in 0..Len(presets), isDefault \in BOOLEAN :
       /\ Authenticated(i)
       /\ p = 0 => Len(presets) < MaxPresets
       /\ LET others == PresetRequests(i) IN
            /\ req' = [q \in Request |->
                         IF q = r THEN [at |-> FirstStatement(p, isDefault), user |-> i, preset |-> p,
                                        isDefault |-> isDefault, alone |-> others = {}]
                         ELSE IF q \in others THEN [req[q] EXCEPT !.alone = FALSE] ELSE req[q]]
            /\ tidy' = IF others = {} THEN tidy ELSE tidy \ {i}
       /\ chosen' = [chosen EXCEPT ![i] = Nil]
  /\ UNCHANGED <<calls, users, tokens, presets, owed>>

(* Mutant of Unset: the defaults of every user. *)
Unset_AnyUser(r) ==
  /\ req[r].at = "unset"
  /\ req' = [req EXCEPT ![r].at = "write"]
  /\ presets' = [p \in DOMAIN presets |->
                   IF presets[p] # Nil /\ p # req[r].preset THEN [presets[p] EXCEPT !.isDefault = FALSE]
                   ELSE presets[p]]
  /\ UNCHANGED <<calls, users, tokens, promises>>

(* An error of this statement is not looked at. *)
Unset(r) ==
  /\ req[r].at = "unset"
  /\ \/ /\ req' = [req EXCEPT ![r].at = "write"]
        /\ presets' = [p \in DOMAIN presets |->
                         IF presets[p] # Nil /\ presets[p].user = req[r].user /\ p # req[r].preset
                         THEN [presets[p] EXCEPT !.isDefault = FALSE] ELSE presets[p]]
        /\ UNCHANGED tidy
     \/ /\ req' = [req EXCEPT ![r] = [@ EXCEPT !.at = "write", !.alone = FALSE]]
        /\ tidy' = tidy \ {req[r].user}
        /\ UNCHANGED presets
  /\ UNCHANGED <<calls, users, tokens, owed, chosen>>

Keep(r, p) ==
  IF req[r].isDefault /\ req[r].alone
  THEN /\ chosen' = [chosen EXCEPT ![req[r].user] = p]
       /\ tidy' = tidy \cup {req[r].user}
  ELSE UNCHANGED <<chosen, tidy>>

CreatePreset(r) ==
  /\ Return(r, "write")
  /\ req[r].preset = 0
  /\ \/ /\ Len(presets) < MaxPresets
        /\ presets' = Append(presets, [user |-> req[r].user, isDefault |-> req[r].isDefault])
        /\ Keep(r, Len(presets) + 1)
     \/ UNCHANGED <<presets, tidy, chosen>>
  /\ UNCHANGED <<calls, users, tokens, owed>>

(* The answer is OK as well when the preset is gone or somebody else's.    *)
UpdatePreset(r) ==
  LET p == req[r].preset IN
    /\ Return(r, "write")
    /\ p # 0
    /\ \/ /\ presets[p] # Nil /\ presets[p].user = req[r].user
          /\ presets' = [presets EXCEPT ![p].isDefault = req[r].isDefault]
          /\ Keep(r, p)
       \/ UNCHANGED <<presets, tidy, chosen>>
    /\ UNCHANGED <<calls, users, tokens, owed>>

DeletePreset ==
  /\ "preset" \in calls
  /\ \E i \in DOMAIN users, p \in DOMAIN presets :
       /\ Authenticated(i)
       /\ presets[p] # Nil /\ presets[p].user = i
       /\ presets' = [presets EXCEPT ![p] = Nil]
       /\ chosen' = [chosen EXCEPT ![i] = IF @ = p THEN Nil ELSE @]
  /\ UNCHANGED <<calls, users, tokens, req, owed, tidy>>

-----------------------------------------------------------------------------
(* createDefaultAdmin has made the first row. *)
Init ==
  /\ calls \in Scenarios
  /\ users = <<Admin>>
  /\ tokens = {}
  /\ presets = <<>>
  /\ req = [r \in Request |-> Idle]
  /\ owed = [i \in UserID |-> IF i = 1 THEN [email |-> Admin.email, password |-> Admin.password]
                              ELSE [email |-> Nil, password |-> Nil]]
  /\ tidy = UserID
  /\ chosen = [i \in UserID |-> Nil]

Next ==
  \/ \E r \in Request :
       \/ Register(r) \/ InsertUser(r) \/ Login(r) \/ SaveUser(r)
       \/ UpdateProfile(r) \/ CheckEmail(r) \/ UpdateEmail(r)
       \/ ChangePassword(r) \/ UpdatePassword(r)
       \/ SetPreset(r) \/ Unset(r) \/ CreatePreset(r) \/ UpdatePreset(r)
  \/ DeletePreset

Spec == Init /\ [][Next]_vars

-----------------------------------------------------------------------------
(* Properties *)

(* An e-mail address or a password that was registered, or changed while   *)
(* no login of the user was in flight, is the user's until it is changed   *)
(* again, through later logins and changes of the other column.            *)
UpdateHolds ==
  \A i \in DOMAIN users : \A column \in {"email", "password"} :
    owed[i][column] # Nil => users[i][column] = owed[i][column]

Defaults(i) == {p \in DOMAIN presets : presets[p] # Nil /\ presets[p].user = i /\ presets[p].isDefault}

(* A user has at most one default preset, as long as his own requests come *)
(* one at a time and their statements do not fail, and the preset that was *)
(* made the default is it until he asks for another or deletes it,         *)
(* whatever other users do.                                                *)
DefaultsHold ==
  /\ \A i \in tidy : \A p, q \in Defaults(i) : p = q
  /\ \A i \in UserID : chosen[i] # Nil => Defaults(i) = {chosen[i]}
=============================================================================
