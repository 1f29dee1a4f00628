----------------------------- MODULE MCDownload -----------------------------
(* Model checking of Download on small instances. *)
EXTENDS Download, TLC

CONSTANTS a, b, t1, t2, starts, cancels, attaches, destroys, deaths, progresses

MaxBounds == [start |-> starts, cancel |-> cancels, attach |-> attaches,
              destroy |-> destroys, death |-> deaths,
              progress |-> progresses]

(* One byte of an unknown total, and more than was announced. *)
Unclamped == {-99, 101}
=============================================================================
