---------------------------- MODULE SourceBlocks ----------------------------
(***************************************************************************)
(* The source file of the command line program: xdelta3-blkcache.h.        *)
(* main_set_source reads the file's start into one buffer and, if there is *)
(* more of it, splits the buffer into blocks; main_getblk_func then serves *)
(* the library's requests from these blocks, by LRU or, while encoding and *)
(* for a source of unknown size, by direct lookup (FIFO).  A source that   *)
(* cannot seek is read on through the blocks that are skipped.             *)
(*                                                                         *)
(* A byte of the file is represented by its offset in the file.            *)
(***************************************************************************)
EXTENDS Integers, Sequences

CONSTANTS
  MAX_LRU_SIZE,  \* the buffers a large source is split into
  SplitSize,     \* the size of each
  MaxLength      \* bound: the length of a source file

ASSUME SizesAssumption ==
  /\ MAX_LRU_SIZE \in Nat \ {0} /\ SplitSize \in Nat \ {0} /\ MaxLength \in Nat

option_srcwinsz == MAX_LRU_SIZE * SplitSize
Slots == 0..MAX_LRU_SIZE - 1
NoBlock == -1

VARIABLES
  cmd,             \* "encode" or "decode"
  kind,            \* the source: "regular", "pipe", or "fake" for none
  length,          \* the file's length
  size_known, source_position, seek_failed,  \* main_file
  offset,          \* the file's own position
  blkno, size,     \* main_blklru, by slot
  lru_size, lru_list, do_src_fifo,
  mem,             \* the buffer; slot s begins at s * blksize
  blksize, curblkno, curblk, onblk,          \* xd3_source
  eof_known, frontier_blkno,
  ready,           \* main_set_source has returned
  pc,              \* where main_getblk_func is
  want,            \* the block it is called for
  blru             \* the slot it found

given == <<cmd, kind, length>>
sfile == <<size_known, source_position, seek_failed, offset>>
cache == <<blkno, size, lru_list, mem>>
shape == <<lru_size, do_src_fifo, blksize, ready>>
current == <<curblkno, curblk, onblk>>
library == <<eof_known, frontier_blkno>>
vars == <<given, sfile, cache, shape, current, library, pc, want, blru>>

Smaller(a, b) == IF a <= b THEN a ELSE b

-----------------------------------------------------------------------------
(* Mutant: the slot is pushed without being removed first. *)
ToBackTwice(list, s) == Append(list, s)

(* main_blklru_list_remove and push_back: slot s becomes the last. *)
ToBack(list, s) ==
  LET at == CHOOSE k \in 1..Len(list) : list[k] = s
  IN [k \in 1..Len(list) |->
        IF k < at THEN list[k] ELSE IF k = Len(list) THEN s ELSE list[k + 1]]

(* main_getblk_lru: the slot that holds b, a refusal, or the slot to use. *)
Index(b) == b % lru_size
Holders(b) ==
  IF do_src_fifo THEN {s \in {Index(b)} : blkno[s] = b}
                 ELSE {s \in 0..lru_size - 1 : blkno[s] = b}
Hit(b) == Holders(b) # {}
Found(b) == CHOOSE s \in Holders(b) : \A t \in Holders(b) : s <= t
(* Mutant: FIFO goes backwards. *)
TooFarBackNever(b) == FALSE
TooFarBack(b) ==
  /\ do_src_fifo /\ ~Hit(b)
  /\ blkno[Index(b)] # NoBlock /\ blkno[Index(b)] > b
Victim(b) == IF do_src_fifo THEN Index(b) ELSE Head(lru_list)
Taken(b) == IF Hit(b) THEN Found(b) ELSE Victim(b)
Listed(s) == IF do_src_fifo THEN lru_list ELSE ToBack(lru_list, s)

(* main_file_read: up to n bytes from the file's position to slot s. *)
Nread(n) == Smaller(n, IF offset < length THEN length - offset ELSE 0)
(* Mutant: all slots begin where the first does. *)
FilledFirst(s, n) == [a \in DOMAIN mem |-> IF a < n THEN offset + a ELSE mem[a]]
Filled(s, n) ==
  [a \in DOMAIN mem |->
     IF s * blksize <= a /\ a < s * blksize + n THEN offset + (a - s * blksize) ELSE mem[a]]

-----------------------------------------------------------------------------
Init ==
  /\ cmd \in {"encode", "decode"} /\ kind \in {"regular", "pipe", "fake"}
  /\ kind = "fake" => cmd = "decode"
  /\ length \in 0..MaxLength /\ (kind = "fake" => length = 0)
  /\ size_known = FALSE /\ source_position = 0 /\ seek_failed = FALSE /\ offset = 0
  /\ blkno = [s \in Slots |-> 0] /\ size = [s \in Slots |-> 0]
  /\ lru_size = 0 /\ lru_list = <<>> /\ do_src_fifo = (cmd = "encode")
  /\ mem = [a \in 0..option_srcwinsz - 1 |-> -1]
  /\ blksize = 0 /\ curblkno = NoBlock /\ curblk = 0 /\ onblk = 0
  /\ eof_known = FALSE /\ frontier_blkno = 0
  /\ ready = FALSE /\ pc = "unset" /\ want = 0 /\ blru = 0

(* The file cannot be opened, or there is no memory. *)
OpenFails ==
  /\ pc = "unset"
  /\ pc' = "failed"
  /\ UNCHANGED <<given, sfile, cache, shape, current, library, want, blru>>

(* main_set_source up to its own call of main_getblk_func: one block. *)
OpenSource ==
  /\ pc = "unset"
  /\ size_known' = (kind = "regular")
  /\ lru_size' = 1 /\ lru_list' = <<0>>
  /\ blkno' = [blkno EXCEPT ![0] = NoBlock]
  /\ blksize' = option_srcwinsz
  /\ pc' = "lookup" /\ want' = 0
  /\ UNCHANGED <<given, source_position, seek_failed, offset, size, mem, do_src_fifo, ready,
                 current, library, blru>>

(* The rest of main_set_source: split the buffer unless it holds all. *)
SetSource ==
  LET small == size[0] < blksize
      total == IF size_known THEN length ELSE size[0]
      known == size_known \/ small
      split == ~known \/ total > option_srcwinsz
  IN /\ pc = "split"
     /\ size_known' = known
     /\ do_src_fifo' = (do_src_fifo \/ ~known)
     /\ IF split
        THEN /\ blksize' = SplitSize /\ onblk' = SplitSize /\ lru_size' = MAX_LRU_SIZE
             /\ blkno' = [s \in Slots |-> IF s = 0 THEN blkno[0] ELSE s]
             /\ size' = [s \in Slots |-> SplitSize]
             /\ lru_list' = [k \in 1..MAX_LRU_SIZE |-> k - 1]
        ELSE /\ onblk' = size[0]
             /\ UNCHANGED <<blksize, lru_size, blkno, size, lru_list>>
     /\ eof_known' = known /\ ready' = TRUE /\ pc' = "idle"
     /\ UNCHANGED <<given, source_position, seek_failed, offset, mem, curblkno, curblk,
                    frontier_blkno, want, blru>>

-----------------------------------------------------------------------------
(* Which blocks the library asks for: the encoder reads on from what it    *)
(* has read, to the empty block behind a file of full ones, and goes back  *)
(* for matches; the decoder copies from anywhere, from beyond the end too  *)
(* if it is given the wrong source.                                        *)
Wanted(b) == cmd = "encode" => b <= frontier_blkno

(* xd3_getblk: a full block moves the frontier, a short one ends the file; *)
(* only the encoder looks at that.                                         *)
Frontier(b, n) ==
  IF cmd = "decode" \/ b < frontier_blkno THEN UNCHANGED library
  ELSE /\ frontier_blkno' = IF n = blksize THEN b + 1 ELSE b
       /\ eof_known' = (eof_known \/ n < blksize)

Reuse ==
  /\ pc = "idle" /\ cmd = "encode" /\ Wanted(curblkno)
  /\ Frontier(curblkno, onblk)
  /\ UNCHANGED <<given, sfile, cache, shape, current, pc, want, blru>>

Request(b) ==
  /\ pc = "idle" /\ b # curblkno /\ Wanted(b)
  /\ want' = b /\ pc' = "lookup"
  /\ UNCHANGED <<given, sfile, cache, shape, current, library, blru>>

(* main_getblk_func returns and its variables are gone. *)
Leave(to) ==
  /\ pc' = to
  /\ IF to = "idle" THEN want' = 0 /\ blru' = 0 ELSE UNCHANGED <<want, blru>>

(* It returns 0, to the library or to main_set_source. *)
Return(slot, n) ==
  /\ curblkno' = want /\ curblk' = slot /\ onblk' = n
  /\ Leave(IF ready THEN "idle" ELSE "split")
  /\ IF ready THEN Frontier(want, n) ELSE UNCHANGED library

(* XD3_TOOFARBACK: the encoder gives up the match, the decoder the delta. *)
ReturnTooFarBack ==
  /\ Leave(IF ready /\ cmd = "encode" THEN "idle" ELSE "failed")
  /\ UNCHANGED <<current, library>>

LookupFake ==
  /\ pc = "lookup" /\ kind = "fake"
  /\ Return(0, 0)
  /\ size' = [size EXCEPT ![0] = 0]
  /\ UNCHANGED <<given, sfile, blkno, lru_list, mem, shape>>

(* Mutant: a block from the cache is taken to be full. *)
LookupHitFull ==
  /\ pc = "lookup" /\ kind # "fake" /\ Hit(want)
  /\ lru_list' = Listed(Found(want))
  /\ Return(Found(want), blksize)
  /\ UNCHANGED <<given, sfile, blkno, size, mem, shape>>
LookupHit ==
  /\ pc = "lookup" /\ kind # "fake" /\ Hit(want)
  /\ lru_list' = Listed(Found(want))
  /\ Return(Found(want), size[Found(want)])
  /\ UNCHANGED <<given, sfile, blkno, size, mem, shape>>

LookupRefused ==
  /\ pc = "lookup" /\ kind # "fake" /\ TooFarBack(want)
  /\ ReturnTooFarBack
  /\ UNCHANGED <<given, sfile, cache, shape>>

Position == want * blksize

LookupMiss ==
  /\ pc = "lookup" /\ kind # "fake" /\ ~Hit(want) /\ ~TooFarBack(want)
  /\ blru' = Victim(want)
  /\ blkno' = [blkno EXCEPT ![Victim(want)] = NoBlock]
  /\ lru_list' = Listed(Victim(want))
  /\ pc' = IF Position = source_position THEN "read" ELSE "seek"
  /\ UNCHANGED <<given, sfile, size, mem, shape, current, library, want>>

(* main_read_seek_source: the seek succeeds. *)
Seek ==
  /\ pc = "seek" /\ ~seek_failed /\ kind = "regular"
  /\ offset' = Position /\ source_position' = Position
  /\ pc' = "relookup"
  /\ UNCHANGED <<given, size_known, seek_failed, cache, shape, current, library, want, blru>>

(* It failed now or before: a pipe cannot seek, a regular file's may fail. *)
SeekFails ==
  /\ pc = "seek"
  /\ seek_failed' = TRUE
  /\ IF source_position > Position
     THEN ReturnTooFarBack
     ELSE pc' = "skip" /\ UNCHANGED <<current, library, want, blru>>
  /\ UNCHANGED <<given, size_known, source_position, offset, cache, shape>>

(* A turn of the loop that reads past unused data. *)
SkipBlock == source_position \div blksize
(* A refusal would be XD3_TOOFARBACK; WindowKept shows that there is none. *)
Skip ==
  LET s == Taken(SkipBlock)
      n == Nread(blksize)
  IN /\ pc = "skip" /\ source_position < Position /\ ~TooFarBack(SkipBlock)
     /\ blkno' = [blkno EXCEPT ![s] = SkipBlock]
     /\ lru_list' = Listed(s)
     /\ mem' = Filled(s, n) /\ offset' = offset + n
     /\ IF n = blksize
        THEN source_position' = source_position + n /\ size' = [size EXCEPT ![s] = n]
             /\ pc' = pc
        ELSE pc' = "failed" /\ UNCHANGED <<source_position, size>>
     /\ UNCHANGED <<given, size_known, seek_failed, shape, current, library, want, blru>>

(* Mutant: the loop waits for more than it needs. *)
SkipDoneBeyond ==
  /\ pc = "skip" /\ source_position > Position
  /\ pc' = "relookup"
  /\ UNCHANGED <<given, sfile, cache, shape, current, library, want, blru>>
SkipDone ==
  /\ pc = "skip" /\ source_position >= Position
  /\ pc' = "relookup"
  /\ UNCHANGED <<given, sfile, cache, shape, current, library, want, blru>>

(* After the seek main_getblk_lru is called once more. *)
Relookup ==
  /\ pc = "relookup" /\ ~TooFarBack(want)
  /\ blru' = Taken(want)
  /\ blkno' = IF Hit(want) THEN blkno ELSE [blkno EXCEPT ![Victim(want)] = NoBlock]
  /\ lru_list' = Listed(Taken(want))
  /\ pc' = "read"
  /\ UNCHANGED <<given, sfile, size, mem, shape, current, library, want>>

(* Mutant: the slot keeps the size of the block it held before. *)
ReadKeepsSize ==
  LET n == Nread(blksize)
  IN /\ pc = "read"
     /\ mem' = Filled(blru, n) /\ offset' = offset + n
     /\ source_position' = Position + n
     /\ size' = size /\ blkno' = [blkno EXCEPT ![blru] = want]
     /\ Return(blru, n)
     /\ UNCHANGED <<given, size_known, seek_failed, lru_list, shape>>

Read ==
  LET n == Nread(blksize)
  IN /\ pc = "read"
     /\ mem' = Filled(blru, n) /\ offset' = offset + n
     /\ source_position' = Position + n
     /\ size' = [size EXCEPT ![blru] = n] /\ blkno' = [blkno EXCEPT ![blru] = want]
     /\ Return(blru, n)
     /\ UNCHANGED <<given, size_known, seek_failed, lru_list, shape>>

(* A read fails: so does main_getblk_func, which ends the program. *)
ReadFails ==
  /\ pc \in {"read", "skip"}
  /\ pc' = "failed"
  /\ UNCHANGED <<given, sfile, cache, shape, current, library, want, blru>>

Serve ==
  \/ OpenSource \/ SetSource
  \/ LookupFake \/ LookupHit \/ LookupRefused \/ LookupMiss
  \/ Seek \/ SeekFails \/ Skip \/ SkipDone \/ Relookup \/ Read

Fault == OpenFails \/ ReadFails

(* Bound: requests go to the end of the longest file, beyond that of others. *)
MaxBlock == MaxLength \div SplitSize
Next == Serve \/ Fault \/ Reuse \/ \E b \in 0..MaxBlock : Request(b)

Spec == Init /\ [][Next]_vars

(* main_getblk_func runs to its end; no fault has to happen for that. *)
Fairness == WF_vars(Serve)

-----------------------------------------------------------------------------
InUse == 0..lru_size - 1
BlockLength(b) == Smaller(blksize, IF b * blksize < length THEN length - b * blksize ELSE 0)
Holds(s, b, n) ==
  n = BlockLength(b) /\ \A i \in 0..n - 1 : mem[s * blksize + i] = b * blksize + i

TypeOK ==
  /\ cmd \in {"encode", "decode"} /\ kind \in {"regular", "pipe", "fake"}
  /\ length \in 0..MaxLength
  /\ size_known \in BOOLEAN /\ seek_failed \in BOOLEAN
  /\ source_position \in Nat /\ offset \in Nat
  /\ blkno \in [Slots -> Nat \cup {NoBlock}] /\ size \in [Slots -> Nat]
  /\ lru_size \in 0..MAX_LRU_SIZE /\ do_src_fifo \in BOOLEAN
  /\ lru_list \in Seq(Slots) /\ Len(lru_list) = lru_size
  /\ mem \in [0..option_srcwinsz - 1 -> Nat \cup {-1}]
  /\ blksize \in {0, SplitSize, option_srcwinsz}
  /\ curblkno \in Nat \cup {NoBlock} /\ curblk \in Slots /\ onblk \in Nat
  /\ eof_known \in BOOLEAN /\ frontier_blkno \in Nat
  /\ ready \in BOOLEAN /\ want \in Nat /\ blru \in Slots
  /\ pc \in {"unset", "lookup", "seek", "skip", "relookup", "read", "split", "idle", "failed"}

(* A slot that is marked with a block holds that block of the file, all of *)
(* it, whatever was evicted, skipped or refused before; no block is held   *)
(* twice; and the program's idea of the file's position is right.          *)
CacheSound ==
  pc \notin {"unset", "failed"} =>
    /\ \A s \in InUse : blkno[s] # NoBlock => Holds(s, blkno[s], size[s])
    /\ \A s, t \in InUse : blkno[s] = blkno[t] /\ blkno[s] # NoBlock => s = t
    /\ source_position = offset

(* The block the library goes on reading from between two requests is      *)
(* never overwritten by what main_getblk_func reads for another one, not   *)
(* even for one that is refused.                                           *)
CurrentIntact == pc = "idle" => Holds(curblk, curblkno, onblk)

(* The direct lookup of FIFO relies on a scan without gaps: its slots hold *)
(* consecutive blocks, so that a block within the source window of the     *)
(* last one read is never refused, and an encoder never has to seek.       *)
WindowKept ==
  do_src_fifo =>
    /\ pc = "idle" => \A s, t \in InUse : blkno[t] - blkno[s] < lru_size
    /\ pc \in {"skip", "relookup"} => ~TooFarBack(IF pc = "skip" THEN SkipBlock ELSE want)
    /\ pc = "seek" => cmd = "decode" /\ source_position < Position

(* Each request is answered, also one for which the source is read on. *)
Answered == pc \notin {"unset", "idle"} ~> pc \in {"idle", "failed"}

(* The cache serves the blocks of the file. *)
Promise == INSTANCE SourceFile WITH
  blksize <- IF ready THEN blksize ELSE 0,
  asked <- IF ready /\ pc # "idle" THEN want ELSE -1,
  current <- IF ready THEN curblkno ELSE -1,
  view <- IF ready /\ pc = "idle"
          THEN [i \in 0..onblk - 1 |-> mem[curblk * blksize + i]]
          ELSE [i \in {} |-> 0]
ServesFile == Promise!SSpec
=============================================================================
