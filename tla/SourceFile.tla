----------------------------- MODULE SourceFile -----------------------------
(***************************************************************************)
(* What a source promises the library, whatever it caches and however it   *)
(* seeks: an answered block is the file's block of that number; a refused  *)
(* request leaves the block that was current before as it was.             *)
(***************************************************************************)
EXTENDS Integers

VARIABLES
  length,  \* the file's length
  blksize, \* the block size
  asked,   \* the request that is not answered yet, or -1
  current, \* the number of the current block, or -1 before the first
  view     \* what can be read there, by position, while nothing is asked

svars == <<length, blksize, asked, current, view>>

(* Block b of the file, each byte represented by its offset. *)
BlockSpan(b, bs) == {i \in 0..bs - 1 : b * bs + i < length}
FileBlock(b, bs) == [i \in BlockSpan(b, bs) |-> b * bs + i]
Nothing == [i \in {} |-> 0]

SInit == asked = -1 /\ current = -1 /\ view = Nothing

(* The source is set: block 0 is there. *)
Set ==
  /\ current = -1
  /\ current' = 0 /\ view' = FileBlock(0, blksize')
  /\ UNCHANGED <<length, asked>>

Ask ==
  /\ asked = -1 /\ current # -1
  /\ asked' \in Nat /\ view' = Nothing
  /\ UNCHANGED <<length, blksize, current>>

Answer ==
  /\ asked # -1
  /\ asked' = -1 /\ current' = asked /\ view' = FileBlock(asked, blksize)
  /\ UNCHANGED <<length, blksize>>

Refuse ==
  /\ asked # -1
  /\ asked' = -1 /\ view' = FileBlock(current, blksize)
  /\ UNCHANGED <<length, blksize, current>>

SNext == Set \/ Ask \/ Answer \/ Refuse

SSpec == SInit /\ [][SNext]_svars
=============================================================================
