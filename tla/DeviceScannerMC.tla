--------------------------- MODULE DeviceScannerMC ---------------------------
(* A phone and a Deco node. *)
EXTENDS DeviceScanner

CONSTANTS phone, node

(* Names are read by nothing but NameRow, through the field "named", and NameRow
   writes nothing but names: two states that agree on the rest have the same
   steps up to names, and every property of the runs with this view is about
   the rest.                                                                *)
NamelessView ==
    <<status, events, alerts, nodeCache,
      [s \in Scanners |-> [scan[s] EXCEPT !.named = FALSE]],
      issued, started, mishaps, owed, gone, synced>>

=============================================================================
