----------------------------- MODULE DeltaApply -----------------------------
(***************************************************************************)
(* What applying a delta promises: the output grows by the targets of the  *)
(* delta's windows, whole and in order; success means that all windows are *)
(* there; after a failure at most a piece of the next window is.           *)
(***************************************************************************)
EXTENDS Naturals, Sequences, SequencesExt

VARIABLES
  windows,  \* the targets of the windows the delta holds completely
  intact,   \* is the delta as the encoder made it, or cut short?
  count,    \* how many are applied
  written,  \* the output
  result    \* "none", "ok" or "failed"

avars == <<windows, intact, count, written, result>>

Applied(n) == FlattenSeq(SubSeq(windows, 1, n))

AInit == count = 0 /\ written = <<>> /\ result = "none"

ApplyWindow ==
  /\ result = "none" /\ count < Len(windows)
  /\ count' = count + 1
  /\ written' = written \o windows[count + 1]
  /\ UNCHANGED <<windows, intact, result>>

Succeed ==
  /\ result = "none" /\ (intact => count = Len(windows))
  /\ result' = "ok"
  /\ UNCHANGED <<windows, intact, count, written>>

(* The failure may be that of a write, which leaves a piece of a window. *)
Fail ==
  /\ result = "none"
  /\ result' = "failed"
  /\ \/ written' = written
     \/ /\ count < Len(windows)
        /\ IsPrefix(written, written')
        /\ IsStrictPrefix(written', written \o windows[count + 1])
  /\ UNCHANGED <<windows, intact, count>>

ANext == ApplyWindow \/ Succeed \/ Fail

ASpec == AInit /\ [][ANext]_avars
=============================================================================
