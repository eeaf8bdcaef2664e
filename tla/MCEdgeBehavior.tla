-------------------------- MODULE MCEdgeBehavior ---------------------------
(***************************************************************************)
(* EdgeBehavior with the defaults of edge/config.py; a unit of time is one *)
(* second, and durations are rounded up to it.                             *)
(***************************************************************************)
EXTENDS EdgeBehavior

\* decay = 0.92 per fifth of a second is 0.659 per second.
Seconds(r, dt) ==
    LET after[n \in 0 .. dt] == IF n = 0 THEN r ELSE (after[n - 1] * 659) \div 1000
    IN  after[dt]

Values(pickup, wrist, conceal, shelf, exit) ==
    [k \in Key |-> CASE k = "item_pickup" -> pickup
                     [] k = "wrist_to_torso" -> wrist
                     [] k = "conceal" -> conceal
                     [] k = "repeated_shelf_visit" -> shelf
                     [] k = "exit_after_concealment" -> exit]

DefaultWeight   == Values(5, 3, 14, 3, 40)
DefaultMinDur   == Values(1, 2, 1, 1, 1)
DefaultInterval == Values(2, 3, 1, 0, 0)

O(h, p, s, e) == [hold |-> h, pocket |-> p, shelf |-> s, exit |-> e]

\* A hand on an item, at the hip or both; a shelf; an exit, with a hand at the hip or without.
HandsAndZones ==
    {O(h, p, FALSE, FALSE) : h \in BOOLEAN, p \in BOOLEAN} \cup
    {O(FALSE, FALSE, TRUE, FALSE)} \cup {O(FALSE, p, FALSE, TRUE) : p \in BOOLEAN}
=============================================================================
