--------------------------------- MODULE Web ---------------------------------
(***************************************************************************)
(* What the web server stores, side by side: the files of conversions, the *)
(* accounts and presets, and the statistics of the history.  They share no *)
(* state.                                                                  *)
(***************************************************************************)
EXTENDS Conversion

CONSTANTS Request, Name, Email, Password, Admin, MaxUsers, MaxPresets, Scenarios
VARIABLES calls, users, tokens, presets, req, owed, tidy, chosen

accounts == <<calls, users, tokens, presets, req, owed, tidy, chosen>>

Accounts == INSTANCE Accounts

CONSTANTS Years, Months
VARIABLES today, asked, months

history == <<today, asked, months>>

History == INSTANCE HistoryService WITH listed <- months

-----------------------------------------------------------------------------
(* Properties *)

(* An update of an account that was answered OK holds. *)
UpdateHolds == Accounts!UpdateHolds

(* A user has one default preset, the one he chose. *)
DefaultsHold == Accounts!DefaultsHold

(* The statistics list the last months in the first 28 days of a month. *)
MonthsHold == History!MonthsHold

(* The statistics list the last months on any day. *)
LastMonthsListed == History!LastMonthsListed
=============================================================================
