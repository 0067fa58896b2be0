--------------------------- MODULE MCTableSessions ---------------------------
(***************************************************************************)
(* Small instances of TableSessions for TLC.                               *)
(***************************************************************************)
EXTENDS TableSessions, TLC

\* Requests are interchangeable, and so are the ids of every kind of row.
MCSymmetry ==
  Permutations(Staff) \cup Permutations(Guest) \cup Permutations(SessionId)
    \cup Permutations(RoundId) \cup Permutations(ItemId) \cup Permutations(OrderId)
=============================================================================
