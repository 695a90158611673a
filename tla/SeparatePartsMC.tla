--------------------------- MODULE SeparatePartsMC ---------------------------
(***************************************************************************)
(* Two accounts of Alarm.com, each of which the environment may name, two  *)
(* requests at a time and one code; one device that two Alexa endpoints    *)
(* may be linked to; one expected listener and one stray; gains at and     *)
(* beyond both ends of the allowed range; the eighteen scripts; one event, *)
(* as the cleanups look at each row by itself; caches of two ticks under   *)
(* handlers of one.                                                        *)
(***************************************************************************)
EXTENDS SeparateParts, MigrationsMC

CONSTANTS a1, a2, none, r1, r2, c1, d1, e1, e2, s1, t1

PortOrder == [s \in {s1, t1} |-> IF s = s1 THEN 1 ELSE 2]
Variables == {[account |-> none, cookie |-> none], [account |-> a1, cookie |-> none],
              [account |-> a2, cookie |-> a2]}
Gains     == {-1, 0, 20, 21}

==============================================================================
