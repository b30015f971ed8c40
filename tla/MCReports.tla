----------------------------- MODULE MCReports ------------------------------
(***************************************************************************)
(* Two deposits and one debit or received transfer, days of two instants,  *)
(* pages of two rows, and zones behind, at and ahead of UTC, with and      *)
(* without daylight saving time.                                           *)
(***************************************************************************)
EXTENDS Reports, TLC

CONSTANTS o1, o2, o3

Lists == {[list |-> "transactions", unread |-> FALSE, newest |-> TRUE],
          [list |-> "notifications", unread |-> TRUE, newest |-> TRUE]}

Kinds == [o \in Op |-> IF o = o1 THEN {"WITHDRAWAL", "TRANSFER", "received"} ELSE {"DEPOSIT"}]

Shifting(b, a, t) == [before |-> b, after |-> a, change |-> t]
Fixed(n) == Shifting(n, n, 0)

(* The clock is put forward at midnight (0, 1), back to midnight (1, 0),   *)
(* and from behind UTC to UTC (-1, 0), as in the Azores.                   *)
MCZones == {Fixed(-1), Fixed(1), Shifting(0, 1, 2), Shifting(1, 0, 2), Shifting(-1, 0, 1)}

Symmetry == Permutations({o2, o3})
=============================================================================
