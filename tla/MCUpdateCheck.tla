---------------------------- MODULE MCUpdateCheck ----------------------------
(* Model checking of UpdateCheck on small instances. *)
EXTENDS UpdateCheck

CONSTANTS boots, connectivity, preferences, appStarts, refreshes, alarms,
          attaches, deaths

MaxBounds == [boot |-> boots, connectivity |-> connectivity,
              preference |-> preferences, appStart |-> appStarts,
              refresh |-> refreshes, alarm |-> alarms, attach |-> attaches,
              death |-> deaths]

(* The values of the list preference. *)
AllFrequencies == {-1, -2, -3, 43200, 86400, 604800, 1209600, 2419200}
SomeFrequencies == {-2, -3, 86400}
==============================================================================
