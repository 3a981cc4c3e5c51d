----------------------------- MODULE MCDashboard -----------------------------
(***************************************************************************)
(* Small instances of Dashboard for TLC.                                   *)
(***************************************************************************)
EXTENDS Dashboard

\* Minutes in UTC of a local time of New York in the winter; day 0 is a Monday.
At(day, hour, minute) == day * 1440 + hour * 60 + minute + 300

\* A Friday afternoon: signals that are fresh, aging (of commits and heartbeats)
\* and stale, before and after the market closes. Clocks change two days later.
FridayAfternoon ==
  {At(4, 15, 43), At(4, 15, 54), At(4, 16, 0)}

SundayChange == At(6, 2, 0)

\* The newest commit entries are few enough to cut a pair in two.
SmallLimits ==
  [extractor |-> 2, loader_heartbeats |-> 1, loader_commits |-> 3, loader_failures |-> 1]

\* A run leaves nothing behind but its document: one is enough, and what comes
\* after it says nothing more about it.
OneRun == site = {}
=============================================================================
