------------------------ MODULE MCDatabaseHandler ------------------------
(* Model checking of DatabaseHandler on small instances. *)
EXTENDS DatabaseHandler

CONSTANTS t1, t2, metered, update, calls, tearDowns, deaths

MaxBounds == [call |-> calls, tearDown |-> tearDowns, death |-> deaths]
==========================================================================
