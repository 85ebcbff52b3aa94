----------------------------- MODULE MCListDate -----------------------------
(* ListDate over every day of a common year, a leap year and the two years *)
(* around a century that is none.                                          *)
EXTENDS ListDate

EveryDiff == {-40, -1} \cup 0..90
=============================================================================
