----------------------------- MODULE Sessions -----------------------------
(***************************************************************************)
(* The sessions of src/data/model.py and the Globex day of context.py.     *)
(* Time 0 is 18:00 ET, where a Globex day and its Asia session begin.      *)
(***************************************************************************)
EXTENDS Integers, FiniteSetsExt

CONSTANTS DayLen, AsiaEnd, LondonEnd, AmEnd, PmEnd    \* SESSION_BOUNDS_ET

SessionBounds == <<AsiaEnd, LondonEnd, AmEnd, PmEnd, DayLen>>
SessionNames  == <<"ASIA", "LONDON", "NY_AM", "NY_PM", "CLOSED">>
NewYork       == {"NY_AM", "NY_PM"}

TagSession(ts) ==
    SessionNames[Min({i \in 1..5 : ts % DayLen < SessionBounds[i]})]

GlobexDay(ts) == ts \div DayLen
=============================================================================
