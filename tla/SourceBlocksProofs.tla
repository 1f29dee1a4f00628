------------------------- MODULE SourceBlocksProofs -------------------------
(***************************************************************************)
(* Proofs about the source file's block cache, for every number and size   *)
(* of buffers and every length of the file.                                *)
(***************************************************************************)
EXTENDS SourceBlocks, SequenceTheorems, CommonLemmas

-----------------------------------------------------------------------------
(* Arithmetic of blocks: multiples of the block size.                      *)

(* Positions below a multiple belong to blocks below it. *)
LEMMA EarlierBlock ==
  ASSUME NEW q \in Nat, NEW w \in Nat, NEW b \in Nat, q * b < w * b
  PROVE  q < w
<1>1. CASE w = q
  BY <1>1, ProductNat, SMT
<1>2. CASE w < q
  BY <1>2, NextMultiple, ProductNat, SMT
<1> QED
  BY <1>1, <1>2, SMT

(* Two slots share no address. *)
LEMMA SlotsApart ==
  ASSUME NEW s \in Nat, NEW t \in Nat, NEW b \in Nat, NEW i \in Nat, NEW n \in Nat,
         s # t, i < b, n <= b
  PROVE  ~(s * b <= t * b + i /\ t * b + i < s * b + n)
<1>1. s * b \in Nat /\ t * b \in Nat
  BY ProductNat
<1>2. CASE s < t
  BY <1>1, <1>2, NextMultiple, SMT
<1>3. CASE t < s
  BY <1>1, <1>3, NextMultiple, SMT
<1> QED
  BY <1>2, <1>3, SMT

(* Two blocks of the same FIFO slot are at least all slots apart. *)
LEMMA SameSlot ==
  ASSUME NEW a \in Nat, NEW b \in Nat, NEW n \in Nat \ {0}, a % n = b % n, a < b
  PROVE  a + n <= b
<1>1. PICK p \in Nat, q \in Nat, r \in 0..n - 1 : a = p * n + r /\ b = q * n + r
  <2>1. a = (a \div n) * n + (a % n) /\ a \div n \in Nat /\ a % n \in 0..n - 1
    BY Division, Zenon
  <2>2. b = (b \div n) * n + (a % n) /\ b \div n \in Nat
    BY Division, Zenon
  <2> QED
    BY <2>1, <2>2, Zenon
<1>2. p * n \in Nat /\ q * n \in Nat
  BY ProductNat
<1>3. p < q
  BY <1>1, <1>2, EarlierBlock, SMT
<1>4. p * n + n <= q * n
  BY <1>3, NextMultiple
<1> QED
  BY <1>1, <1>2, <1>4, SMT

(* The block that was in a slot before. *)
LEMMA SlotBefore ==
  ASSUME NEW q \in Nat, NEW n \in Nat \ {0}, n <= q
  PROVE  (q - n) % n = q % n
<1> DEFINE a == q - n
           p == a \div n
           c == q \div n
<1>1. a \in Nat /\ a = p * n + (a % n) /\ p \in Nat /\ a % n \in 0..n - 1
  <2>1. a \in Nat
    BY SMT
  <2> HIDE DEF a
  <2> QED
    BY <2>1, Division, Zenon
<1>2. q = c * n + (q % n) /\ c \in Nat /\ q % n \in 0..n - 1
  BY Division, Zenon
<1>3. p + 1 \in Nat /\ (p + 1) * n = p * n + n
  BY <1>1, SMT
<1>4. p * n \in Nat /\ c * n \in Nat
  BY <1>1, <1>2, ProductNat
<1> HIDE DEF p, c
<1>5. (p + 1) * n + (a % n) = c * n + (q % n)
  BY <1>1, <1>2, <1>3, <1>4, SMT
<1>6. CASE p + 1 < c
  <2>1. (p + 1) * n + n <= c * n
    BY <1>2, <1>3, <1>6, NextMultiple
  <2> QED
    BY <1>1, <1>2, <1>3, <1>4, <1>5, <2>1, SMT
<1>7. CASE c < p + 1
  <2>1. c * n + n <= (p + 1) * n
    BY <1>2, <1>3, <1>7, NextMultiple
  <2> QED
    BY <1>1, <1>2, <1>3, <1>4, <1>5, <2>1, SMT
<1>8. CASE c = p + 1
  <2>1. PICK k \in Nat : k = c * n
    BY <1>4
  <2>2. k + (a % n) = k + (q % n)
    BY <1>5, <1>8, <2>1, Zenon
  <2>3. \A u, v \in 0..n - 1 : k + u = k + v => u = v
    BY <2>1, SMT
  <2> QED
    BY <1>1, <1>2, <2>2, <2>3, Zenon
<1> QED
  BY <1>2, <1>3, <1>6, <1>7, <1>8, SMT

(* Of the blocks in a window the next one pushes out the first. *)
LEMMA WindowMoves ==
  ASSUME NEW q \in Nat, NEW n \in Nat \ {0}, n <= q, NEW b \in Nat,
         q - n <= b, b % n # q % n
  PROVE  (q + 1) - n <= b
<1>1. b # q - n
  BY SlotBefore
<1> QED
  BY <1>1, SMT

-----------------------------------------------------------------------------
(* What a slot holds, with the state as parameters.                        *)

LengthOf(bs, len, b) == Smaller(bs, IF b * bs < len THEN len - b * bs ELSE 0)
Keeps(m, bs, len, s, b, n) ==
  n = LengthOf(bs, len, b) /\ \A i \in 0..n - 1 : m[s * bs + i] = b * bs + i
FilledAt(m, bs, off, s, n) ==
  [a \in DOMAIN m |-> IF s * bs <= a /\ a < s * bs + n THEN off + (a - s * bs) ELSE m[a]]

(* A block is no longer than the block size. *)
LEMMA LengthBound ==
  ASSUME NEW bs \in Nat, NEW len \in Nat, NEW b \in Nat
  PROVE  LengthOf(bs, len, b) \in 0..bs
<1>1. b * bs \in Nat
  BY ProductNat
<1> QED
  BY <1>1, SMT DEF LengthOf, Smaller

(* What is read to a slot at the position of a block is that block. *)
LEMMA KeepsRead ==
  ASSUME NEW bs \in Nat, NEW len \in Nat, NEW M \in Nat, NEW m \in [0..M - 1 -> Int],
         NEW s \in Nat, s * bs + bs <= M, NEW b \in Nat, NEW off \in Nat, off = b * bs
  PROVE  Keeps(FilledAt(m, bs, off, s, LengthOf(bs, len, b)), bs, len, s, b, LengthOf(bs, len, b))
<1> DEFINE n == LengthOf(bs, len, b)
<1>1. n \in 0..bs
  BY LengthBound
<1>2. PICK at \in Nat : at = s * bs
  BY ProductNat
<1> HIDE DEF n
<1>3. ASSUME NEW i \in 0..n - 1
      PROVE  FilledAt(m, bs, off, s, n)[s * bs + i] = b * bs + i
  <2>1. at + i \in 0..M - 1
    BY <1>1, <1>2, SMT
  <2>2. FilledAt(m, bs, off, s, n)[at + i] = off + (at + i - at)
    BY <1>1, <1>2, <2>1, SMT DEF FilledAt
  <2> QED
    BY <1>2, <2>2, SMT
<1> QED
  BY <1>3 DEF Keeps, n

(* Reading to a slot leaves the others alone. *)
LEMMA KeepsOther ==
  ASSUME NEW bs \in Nat, NEW len \in Nat, NEW M \in Nat, NEW m \in [0..M - 1 -> Int],
         NEW s \in Nat, NEW t \in Nat, s # t, t * bs + bs <= M,
         NEW b \in Nat, NEW k, Keeps(m, bs, len, t, b, k),
         NEW n \in 0..bs, NEW off \in Nat
  PROVE  Keeps(FilledAt(m, bs, off, s, n), bs, len, t, b, k)
<1>1. k \in 0..bs
  BY LengthBound DEF Keeps
<1>2. ASSUME NEW i \in 0..k - 1
      PROVE  FilledAt(m, bs, off, s, n)[t * bs + i] = b * bs + i
  <2>1. PICK at \in Nat : at = t * bs
    BY ProductNat
  <2>2. PICK from \in Nat : from = s * bs
    BY ProductNat
  <2>3. at + i \in 0..M - 1
    BY <1>1, <2>1, SMT
  <2>4. ~(from <= at + i /\ at + i < from + n)
    <3>1. i \in Nat /\ n \in Nat /\ i < bs /\ n <= bs
      BY <1>1, SMT
    <3>2. ~(s * bs <= t * bs + i /\ t * bs + i < s * bs + n)
      BY <3>1, SlotsApart, Zenon
    <3> QED
      BY <2>1, <2>2, <3>2, Zenon
  <2>5. FilledAt(m, bs, off, s, n)[at + i] = m[at + i]
    BY <2>2, <2>3, <2>4, SMT DEF FilledAt
  <2>6. m[at + i] = b * bs + i
    BY <2>1 DEF Keeps
  <2> QED
    BY <2>1, <2>5, <2>6
<1> QED
  BY <1>2 DEF Keeps

-----------------------------------------------------------------------------
(* The inductive invariant.                                                *)

Live == pc \notin {"unset", "failed"}

(* The buffers in use fill the memory. *)
ShapeInv ==
  Live => /\ lru_size \in Nat \ {0} /\ blksize \in Nat \ {0}
          /\ lru_size * blksize = option_srcwinsz
          /\ ~ready => lru_size = 1 /\ blksize = option_srcwinsz

(* The list names buffers in use. *)
ListInv == Live => \A k \in 1..lru_size : lru_list[k] \in InUse

(* FIFO keeps a block where it looks for it. *)
PlaceInv ==
  Live /\ do_src_fifo => \A s \in InUse : blkno[s] # NoBlock => blkno[s] % lru_size = s

(* The file is read in whole blocks, but for the last one. *)
AlignInv == Live => offset >= length \/ \E q \in Nat : offset = q * blksize

(* CacheSound, in terms of Keeps. *)
CacheInv ==
  Live => /\ \A s \in InUse : blkno[s] # NoBlock => Keeps(mem, blksize, length, s, blkno[s], size[s])
          /\ \A s, t \in InUse : blkno[s] = blkno[t] /\ blkno[s] # NoBlock => s = t
          /\ source_position = offset

(* The block that is current while it may still be returned to. *)
CurrentInv ==
  ready => /\ curblkno \in Nat /\ curblk \in InUse
           /\ pc \in {"idle", "lookup", "seek"} =>
                Keeps(mem, blksize, length, curblk, curblkno, onblk)

(* What each step of main_set_source and main_getblk_func relies on. *)
PhaseInv ==
  /\ kind = "fake" => length = 0
  /\ ~ready => pc \in {"unset", "lookup", "read", "split", "failed"}
  /\ ready => pc \notin {"unset", "split"}
  /\ pc = "unset" => offset = 0 /\ source_position = 0
  /\ ~ready /\ pc \in {"lookup", "read"} => want = 0 /\ offset = 0
  /\ ~ready /\ pc = "lookup" => blkno[0] = NoBlock
  /\ pc = "skip" => source_position <= Position
  /\ pc \in {"relookup", "read"} => source_position = Position
  /\ pc = "read" => /\ blru \in InUse /\ \A s \in InUse : blkno[s] = want => s = blru
                    /\ do_src_fifo => blru = want % lru_size
  /\ pc = "split" =>
       /\ curblkno = 0 /\ curblk = 0 /\ offset = size[0]
       /\ Keeps(mem, blksize, length, 0, 0, size[0])
       /\ kind = "fake" \/ blkno[0] = 0

Inv ==
  /\ TypeOK /\ ShapeInv /\ ListInv /\ PlaceInv /\ AlignInv /\ CacheInv /\ CurrentInv /\ PhaseInv

(* The memory has room for the slots. *)
LEMMA MemorySize == option_srcwinsz \in Nat \ {0}
<1>1. PICK n \in Nat : n = MAX_LRU_SIZE * SplitSize
  BY SizesAssumption, ProductNat
<1>2. MAX_LRU_SIZE - 1 \in Nat /\ (MAX_LRU_SIZE - 1) * SplitSize \in Nat
  BY SizesAssumption, ProductNat, SMT
<1>3. n = (MAX_LRU_SIZE - 1) * SplitSize + SplitSize
  BY <1>1, SizesAssumption, SMT
<1> QED
  BY <1>1, <1>2, <1>3, SizesAssumption, SMT DEF option_srcwinsz

(* Initially nothing is in use. *)
LEMMA InvInit == Init => Inv
<1> SUFFICES ASSUME Init PROVE Inv
  OBVIOUS
<1>1. TypeOK
  BY SizesAssumption, MemorySize, SMT DEF Init, TypeOK, Slots, NoBlock
<1>2. /\ ~Live /\ ~ready /\ pc = "unset" /\ (kind = "fake" => length = 0)
      /\ offset = 0 /\ source_position = 0
  BY DEF Init, Live
<1> QED
  BY <1>1, <1>2 DEF Inv, ShapeInv, ListInv, PlaceInv, AlignInv, CacheInv, CurrentInv, PhaseInv

(* What main_getblk_lru finds: the slot that holds the block, if one does, *)
(* and the slot to use if none does; no other slot holds it.               *)
LEMMA Lookup ==
  ASSUME Inv, Live, NEW b \in Nat
  PROVE  /\ Hit(b) => Found(b) \in InUse /\ blkno[Found(b)] = b
         /\ ~Hit(b) => Victim(b) \in InUse /\ \A s \in InUse : blkno[s] # b
         /\ \A s \in InUse : blkno[s] = b => s = Taken(b) /\ Hit(b)
         /\ Taken(b) \in InUse
         /\ do_src_fifo => Taken(b) = b % lru_size /\ Victim(b) = b % lru_size
<1>1. lru_size \in Nat \ {0} /\ b % lru_size \in InUse
  BY SMT DEF Inv, ShapeInv, InUse
<1>2. b # NoBlock
  BY SMT DEF NoBlock
<1>3. \A s, t \in InUse : blkno[s] = b /\ blkno[t] = b => s = t
  BY <1>2 DEF Inv, CacheInv
<1>4. Holders(b) = {s \in InUse : blkno[s] = b}
  <2>1. CASE do_src_fifo
    <3>1. \A s \in InUse : blkno[s] = b => s = b % lru_size
      BY <1>2, <2>1 DEF Inv, PlaceInv
    <3> QED
      BY <1>1, <2>1, <3>1 DEF Holders, Index
  <2>2. CASE ~do_src_fifo
    BY <2>2 DEF Holders, InUse
  <2> QED
    BY <2>1, <2>2
<1>5. ASSUME Hit(b) PROVE Found(b) \in InUse /\ blkno[Found(b)] = b
  <2>1. PICK s \in InUse : blkno[s] = b
    BY <1>4, <1>5 DEF Hit
  <2>2. s <= s
    BY <1>1, SMT DEF InUse
  <2>3. s \in Holders(b) /\ \A t \in Holders(b) : s <= t
    BY <1>3, <1>4, <2>1, <2>2, Zenon
  <2>4. Found(b) \in Holders(b)
    BY <2>3, Zenon DEF Found
  <2> QED
    BY <1>4, <2>4
<1>6. ASSUME ~Hit(b) PROVE Victim(b) \in InUse /\ \A s \in InUse : blkno[s] # b
  <2>1. \A s \in InUse : blkno[s] # b
    BY <1>4, <1>6 DEF Hit
  <2>2. Head(lru_list) \in InUse
    BY <1>1, SMT DEF Inv, TypeOK, ListInv
  <2> QED
    BY <1>1, <2>1, <2>2 DEF Victim, Index
<1>7. \A s \in InUse : blkno[s] = b => s = Taken(b) /\ Hit(b)
  BY <1>3, <1>5, <1>6, Zenon DEF Taken
<1>8. Taken(b) \in InUse
  BY <1>5, <1>6, Zenon DEF Taken
<1>9. ASSUME do_src_fifo PROVE Taken(b) = b % lru_size /\ Victim(b) = b % lru_size
  <2>1. Victim(b) = b % lru_size
    BY <1>9 DEF Victim, Index
  <2>2. ASSUME Hit(b) PROVE Found(b) = b % lru_size
    BY <1>2, <1>5, <1>9, <2>2 DEF Inv, PlaceInv
  <2> QED
    BY <2>1, <2>2 DEF Taken
<1> QED
  BY <1>5, <1>6, <1>7, <1>8, <1>9, Zenon
-----------------------------------------------------------------------------
(* The parts of a step.                                                    *)

(* A slot that is moved to the back leaves a list of slots in use. *)
LEMMA ListedType ==
  ASSUME Inv, Live, NEW s \in InUse
  PROVE  /\ Listed(s) \in Seq(Slots) /\ Len(Listed(s)) = lru_size
         /\ \A k \in 1..lru_size : Listed(s)[k] \in InUse
<1> DEFINE at == CHOOSE k \in 1..Len(lru_list) : lru_list[k] = s
           moved == [k \in 1..lru_size |->
                       IF k < at THEN lru_list[k] ELSE IF k = lru_size THEN s ELSE lru_list[k + 1]]
<1>1. lru_size \in Nat /\ lru_list \in Seq(Slots) /\ Len(lru_list) = lru_size
  BY SMT DEF Inv, TypeOK
<1>2. \A k \in 1..lru_size : lru_list[k] \in InUse
  BY DEF Inv, ListInv
<1>3. InUse \subseteq Slots
  BY SizesAssumption, SMT DEF Inv, TypeOK, InUse, Slots
<1>4. ASSUME NEW k \in 1..lru_size PROVE moved[k] \in InUse
  <2> HIDE DEF at
  <2>1. k # lru_size => k + 1 \in 1..lru_size
    BY <1>1, SMT
  <2> QED
    BY <1>2, <2>1
<1>5. moved \in Seq(Slots) /\ Len(moved) = lru_size
  <2> HIDE DEF at
  <2>1. moved \in [1..lru_size -> Slots]
    BY <1>3, <1>4
  <2> HIDE DEF moved
  <2> QED
    BY <1>1, <2>1, SMT
<1>6. ToBack(lru_list, s) = moved
  BY <1>1 DEF ToBack
<1> HIDE DEF moved
<1> QED
  BY <1>1, <1>2, <1>4, <1>5, <1>6 DEF Listed

(* A slot in use is within the memory. *)
LEMMA SlotFits ==
  ASSUME Inv, Live, NEW s \in InUse
  PROVE  s \in Nat /\ s \in Slots /\ s * blksize + blksize <= option_srcwinsz
<1>1. lru_size \in Nat \ {0} /\ blksize \in Nat \ {0} /\ lru_size * blksize = option_srcwinsz
  BY DEF Inv, ShapeInv
<1>2. s \in Nat /\ s < lru_size
  BY <1>1, SMT DEF InUse
<1>3. s \in Slots
  BY <1>2, SizesAssumption, SMT DEF Inv, TypeOK, Slots
<1> QED
  BY <1>1, <1>2, <1>3, NextMultiple, Zenon

(* Reading a block's length from the file's position to slot s. *)
LEMMA Filling ==
  ASSUME Inv, Live, NEW s \in InUse
  PROVE  LET n == Nread(blksize)
             m == Filled(s, n)
         IN /\ n \in 0..blksize
            /\ n < blksize => offset + n >= length
            /\ n = blksize => offset < length
            /\ m \in [0..option_srcwinsz - 1 -> Nat \cup {-1}]
            /\ \A t \in InUse, b \in Nat : \A k :
                 t # s /\ Keeps(mem, blksize, length, t, b, k) => Keeps(m, blksize, length, t, b, k)
            /\ \A b \in Nat : offset = b * blksize => Keeps(m, blksize, length, s, b, n)
<1> DEFINE n == Nread(blksize)
           M == option_srcwinsz
<1>1. /\ blksize \in Nat \ {0} /\ length \in Nat /\ offset \in Nat /\ M \in Nat
      /\ mem \in [0..M - 1 -> Nat \cup {-1}]
  BY SizesAssumption, MemorySize, SMT DEF Inv, TypeOK, ShapeInv
<1>2. n \in 0..blksize /\ (n < blksize => offset + n >= length) /\ (n = blksize => offset < length)
  BY <1>1, SMT DEF Nread, Smaller
<1>3. Filled(s, n) = FilledAt(mem, blksize, offset, s, n)
  BY DEF Filled, FilledAt
<1>4. mem \in [0..M - 1 -> Int]
  BY <1>1, SMT
<1>5. s \in Nat /\ s * blksize + blksize <= M
  BY SlotFits
<1>6. Filled(s, n) \in [0..M - 1 -> Nat \cup {-1}]
  <2>1. PICK from \in Nat : from = s * blksize
    BY <1>1, <1>5, ProductNat
  <2> HIDE DEF n, M
  <2>2. \A a \in 0..M - 1 : a >= from => offset + (a - from) \in Nat
    BY <1>1, <2>1, SMT
  <2>3. Filled(s, n) = [a \in 0..M - 1 |->
          IF from <= a /\ a < from + n THEN offset + (a - from) ELSE mem[a]]
    BY <1>1, <2>1 DEF Filled
  <2> QED
    BY <1>1, <2>2, <2>3, SMT
<1>7. ASSUME NEW t \in InUse, NEW b \in Nat, NEW k, t # s, Keeps(mem, blksize, length, t, b, k)
      PROVE  Keeps(Filled(s, n), blksize, length, t, b, k)
  <2>1. t \in Nat /\ t * blksize + blksize <= M
    BY SlotFits
  <2>2. blksize \in Nat /\ length \in Nat /\ offset \in Nat /\ M \in Nat /\ s # t
    BY <1>1, <1>7
  <2> HIDE DEF n, M
  <2>3. Keeps(FilledAt(mem, blksize, offset, s, n), blksize, length, t, b, k)
    BY <1>2, <1>4, <1>5, <1>7, <2>1, <2>2, KeepsOther, Zenon
  <2> QED
    BY <1>3, <2>3, Zenon
<1>8. ASSUME NEW b \in Nat, offset = b * blksize
      PROVE  Keeps(Filled(s, n), blksize, length, s, b, n)
  <2>1. n = LengthOf(blksize, length, b)
    BY <1>8, Zenon DEF Nread, LengthOf
  <2> HIDE DEF n, M
  <2> QED
    BY <1>1, <1>3, <1>4, <1>5, <1>8, <2>1, KeepsRead
<1> HIDE DEF n
<1> QED
  BY <1>2, <1>6, <1>7, <1>8, Zenon DEF n
(* What main_getblk_func leaves when it returns. *)
LEMMA ReturnType ==
  ASSUME TypeOK, NEW slot \in Slots, NEW n \in Nat, Return(slot, n)
  PROVE  /\ curblkno' \in Nat /\ curblk' \in Slots /\ onblk' \in Nat
         /\ eof_known' \in BOOLEAN /\ frontier_blkno' \in Nat
         /\ want' \in Nat /\ blru' \in Slots /\ pc' \in {"idle", "split"}
<1>1. want \in Nat /\ blru \in Slots /\ 0 \in Slots /\ ready \in BOOLEAN
  BY SizesAssumption, SMT DEF TypeOK, Slots
<1>2. want' \in Nat /\ blru' \in Slots /\ pc' \in {"idle", "split"}
  BY <1>1 DEF Return, Leave
<1>3. eof_known' \in BOOLEAN
  <2>1. CASE UNCHANGED library
    BY <2>1, Zenon DEF library, TypeOK
  <2>2. CASE eof_known' = (eof_known \/ n < blksize)
    BY <2>2, Zenon
  <2> QED
    BY <2>1, <2>2 DEF Return, Frontier
<1>4. frontier_blkno' \in Nat
  BY <1>1, SMT DEF Return, Frontier, library, TypeOK
<1> QED
  BY <1>1, <1>2, <1>3, <1>4 DEF Return

(* A refusal changes nothing but where the program is. *)
LEMMA RefuseType ==
  ASSUME TypeOK, ReturnTooFarBack
  PROVE  /\ UNCHANGED <<current, library>>
         /\ want' \in Nat /\ blru' \in Slots /\ pc' \in {"idle", "failed"}
  BY SizesAssumption, SMT DEF TypeOK, Slots, ReturnTooFarBack, Leave

(* Every step keeps the types. *)
LEMMA TypeStep ==
  ASSUME Inv, Next
  PROVE  TypeOK'
<1>1. TypeOK
  BY DEF Inv
<1>2. /\ MAX_LRU_SIZE \in Nat \ {0} /\ SplitSize \in Nat \ {0} /\ MaxLength \in Nat
      /\ option_srcwinsz \in Nat \ {0} /\ 0 \in Slots
  BY SizesAssumption, MemorySize, SMT DEF Slots
<1>3. CASE OpenFails
  BY <1>1, <1>3 DEF TypeOK, OpenFails, given, sfile, cache, shape, current, library
<1>4. CASE OpenSource
  <2>1. lru_list' \in Seq(Slots) /\ Len(lru_list') = 1
    BY <1>2, <1>4, SMT DEF OpenSource
  <2> QED
    BY <1>1, <1>2, <1>4, <2>1, SMT
    DEF TypeOK, OpenSource, given, sfile, cache, shape, current, library, NoBlock
<1>5. CASE SetSource
  <2>1. size_known' \in BOOLEAN /\ do_src_fifo' \in BOOLEAN /\ eof_known' \in BOOLEAN
    <3>1. /\ size_known' = (size_known \/ size[0] < blksize)
          /\ do_src_fifo' = (do_src_fifo \/ ~(size_known \/ size[0] < blksize))
          /\ eof_known' = (size_known \/ size[0] < blksize)
      BY <1>5, Zenon DEF SetSource
    <3> QED
      BY <3>1, Zenon
  <2>2. /\ UNCHANGED <<given, source_position, seek_failed, offset, mem, curblkno, curblk,
                       frontier_blkno, want, blru>>
        /\ ready' = TRUE /\ pc' = "idle"
    BY <1>5, Zenon DEF SetSource
  <2>3. CASE /\ blksize' = SplitSize /\ onblk' = SplitSize /\ lru_size' = MAX_LRU_SIZE
             /\ blkno' = [s \in Slots |-> IF s = 0 THEN blkno[0] ELSE s]
             /\ size' = [s \in Slots |-> SplitSize]
             /\ lru_list' = [k \in 1..MAX_LRU_SIZE |-> k - 1]
    <3>1. lru_list' \in [1..MAX_LRU_SIZE -> Slots]
      BY <1>2, <2>3, SMT DEF Slots
    <3>2. lru_list' \in Seq(Slots) /\ Len(lru_list') = MAX_LRU_SIZE
      BY <1>2, <3>1, SMT
    <3>3. blkno' \in [Slots -> Nat \cup {NoBlock}] /\ size' \in [Slots -> Nat]
      BY <1>1, <1>2, <2>3, SMT DEF TypeOK, Slots
    <3>4. lru_size' \in 0..MAX_LRU_SIZE /\ onblk' \in Nat
      BY <1>2, <2>3, SMT
    <3> QED
      BY <1>1, <2>1, <2>2, <2>3, <3>2, <3>3, <3>4 DEF TypeOK, given
  <2>4. CASE UNCHANGED <<blksize, lru_size, blkno, size, lru_list>> /\ onblk' = size[0]
    BY <1>1, <1>2, <2>1, <2>2, <2>4 DEF TypeOK, given
  <2> QED
    BY <1>5, <2>3, <2>4 DEF SetSource
<1>6. CASE Reuse
  <2>1. eof_known' \in BOOLEAN
    <3>1. CASE UNCHANGED library
      BY <1>1, <3>1, Zenon DEF library, TypeOK
    <3>2. CASE eof_known' = (eof_known \/ onblk < blksize)
      BY <3>2, Zenon
    <3> QED
      BY <1>6, <3>1, <3>2 DEF Reuse, Frontier
  <2>2. curblkno \in Nat
    BY <1>6 DEF Inv, PhaseInv, CurrentInv, Reuse
  <2>3. frontier_blkno' \in Nat
    BY <1>1, <1>6, <2>2, SMT DEF Reuse, Frontier, library, TypeOK
  <2> QED
    BY <1>1, <1>6, <2>1, <2>3 DEF TypeOK, Reuse, given, sfile, cache, shape, current
<1>7. ASSUME NEW b \in 0..MaxBlock, Request(b) PROVE TypeOK'
  BY <1>1, <1>2, <1>7, SMT DEF TypeOK, Request, given, sfile, cache, shape, current, library
<1>8. CASE LookupFake
  <2>1. Return(0, 0)
    BY <1>8 DEF LookupFake
  <2>2. size' \in [Slots -> Nat]
    BY <1>1, <1>2, <1>8, SMT DEF TypeOK, LookupFake
  <2> QED
    BY <1>1, <1>2, <1>8, <2>1, <2>2, ReturnType DEF TypeOK, LookupFake, given, sfile, shape
<1>9. CASE LookupHit
  <2>1. Live /\ want \in Nat /\ Hit(want)
    BY <1>1, <1>9 DEF LookupHit, Live, TypeOK
  <2>2. Found(want) \in InUse /\ Found(want) \in Slots
    BY <2>1, Lookup, SlotFits
  <2>3. size[Found(want)] \in Nat /\ Return(Found(want), size[Found(want)])
    BY <1>1, <1>9, <2>2 DEF TypeOK, LookupHit
  <2>4. lru_list' \in Seq(Slots) /\ Len(lru_list') = lru_size
    BY <1>9, <2>1, <2>2, ListedType DEF LookupHit
  <2> QED
    BY <1>1, <1>9, <2>2, <2>3, <2>4, ReturnType DEF TypeOK, LookupHit, given, sfile, shape
<1>10. CASE LookupRefused
  BY <1>1, <1>10, RefuseType, SMTT(20)
  DEF TypeOK, LookupRefused, given, sfile, cache, shape, current, library
<1>11. CASE LookupMiss
  <2>1. Live /\ want \in Nat /\ ~Hit(want)
    BY <1>1, <1>11 DEF LookupMiss, Live, TypeOK
  <2>2. Victim(want) \in InUse /\ Victim(want) \in Slots
    BY <2>1, Lookup, SlotFits
  <2>3. lru_list' \in Seq(Slots) /\ Len(lru_list') = lru_size
    BY <1>11, <2>1, <2>2, ListedType DEF LookupMiss
  <2>4. blkno' \in [Slots -> Nat \cup {NoBlock}]
    BY <1>1, <1>11, <2>2 DEF TypeOK, LookupMiss
  <2> QED
    BY <1>1, <1>11, <2>2, <2>3, <2>4
    DEF TypeOK, LookupMiss, given, sfile, shape, current, library
<1>12. CASE Seek
  <2>1. Position \in Nat
    BY <1>1, <1>12, ProductNat DEF Inv, ShapeInv, Live, TypeOK, Seek, Position
  <2> QED
    BY <1>1, <1>12, <2>1 DEF TypeOK, Seek, given, cache, shape, current, library
<1>13. CASE SeekFails
  <2>1. CASE ReturnTooFarBack
    BY <1>1, <1>13, <2>1, RefuseType, SMTT(20)
    DEF TypeOK, SeekFails, given, cache, shape, current, library
  <2>2. CASE pc' = "skip" /\ UNCHANGED <<current, library, want, blru>>
    BY <1>1, <1>13, <2>2 DEF TypeOK, SeekFails, given, cache, shape, current, library
  <2> QED
    BY <1>13, <2>1, <2>2 DEF SeekFails
<1>14. CASE Skip
  <2> DEFINE s == Taken(SkipBlock)
             n == Nread(blksize)
  <2>1. Live /\ blksize \in Nat \ {0}
    BY <1>14 DEF Skip, Live, Inv, ShapeInv
  <2>2. SkipBlock \in Nat
    <3>1. source_position \in Nat
      BY <1>1 DEF TypeOK
    <3> QED
      BY <2>1, <3>1, QuotientNat DEF SkipBlock
  <2>3. s \in InUse /\ s \in Slots
    BY <2>1, <2>2, Lookup, SlotFits
  <2>4. lru_list' \in Seq(Slots) /\ Len(lru_list') = lru_size
    BY <1>14, <2>1, <2>3, ListedType DEF Skip
  <2>5. n \in 0..blksize /\ mem' \in [0..option_srcwinsz - 1 -> Nat \cup {-1}]
    BY <1>14, <2>1, <2>3, Filling DEF Skip
  <2>6. n \in Nat /\ offset + n \in Nat /\ source_position + n \in Nat
    BY <1>1, <2>1, <2>5, SMT DEF TypeOK
  <2>7. blkno' = [blkno EXCEPT ![s] = SkipBlock] /\ size' \in {size, [size EXCEPT ![s] = n]}
    BY <1>14 DEF Skip
  <2>8. offset' = offset + n /\ source_position' \in {source_position, source_position + n}
    BY <1>14 DEF Skip
  <2>9. pc' \in {"skip", "failed"}
    BY <1>14 DEF Skip
  <2>10. UNCHANGED <<given, size_known, seek_failed, shape, current, library, want, blru>>
    BY <1>14 DEF Skip
  <2> HIDE DEF s, n
  <2>11. blkno' \in [Slots -> Nat \cup {NoBlock}] /\ size' \in [Slots -> Nat]
    BY <1>1, <2>2, <2>3, <2>6, <2>7 DEF TypeOK
  <2>12. offset' \in Nat /\ source_position' \in Nat
    BY <1>1, <2>6, <2>8 DEF TypeOK
  <2> QED
    BY <1>1, <2>4, <2>5, <2>9, <2>10, <2>11, <2>12 DEF TypeOK, given, shape, current, library
<1>15. CASE SkipDone
  BY <1>1, <1>15 DEF TypeOK, SkipDone, given, sfile, cache, shape, current, library
<1>16. CASE Relookup
  <2>1. Live /\ want \in Nat
    BY <1>1, <1>16 DEF Relookup, Live, TypeOK
  <2>2. Taken(want) \in Slots /\ (~Hit(want) => Victim(want) \in Slots)
    BY <2>1, Lookup, SlotFits
  <2>3. lru_list' \in Seq(Slots) /\ Len(lru_list') = lru_size
    BY <1>16, <2>1, Lookup, ListedType DEF Relookup
  <2>4. blkno' \in [Slots -> Nat \cup {NoBlock}]
    BY <1>1, <1>16, <2>2 DEF TypeOK, Relookup
  <2> QED
    BY <1>1, <1>16, <2>2, <2>3, <2>4
    DEF TypeOK, Relookup, given, sfile, shape, current, library
<1>17. CASE Read
  <2> DEFINE n == Nread(blksize)
  <2>1. Live /\ blru \in InUse /\ blru \in Slots /\ blksize \in Nat /\ want \in Nat
    BY <1>1, <1>17 DEF Read, Live, Inv, PhaseInv, ShapeInv, TypeOK
  <2>2. n \in 0..blksize /\ mem' \in [0..option_srcwinsz - 1 -> Nat \cup {-1}]
    BY <1>17, <2>1, Filling DEF Read
  <2>3. Position \in Nat
    BY <2>1, ProductNat DEF Position
  <2>4. n \in Nat /\ offset + n \in Nat /\ Position + n \in Nat
    BY <1>1, <2>1, <2>2, <2>3, SMT DEF TypeOK
  <2>5. /\ blkno' = [blkno EXCEPT ![blru] = want] /\ size' = [size EXCEPT ![blru] = n]
        /\ offset' = offset + n /\ source_position' = Position + n /\ Return(blru, n)
        /\ UNCHANGED <<given, size_known, seek_failed, lru_list, shape>>
    BY <1>17 DEF Read
  <2> HIDE DEF n
  <2>6. blkno' \in [Slots -> Nat \cup {NoBlock}] /\ size' \in [Slots -> Nat]
    BY <1>1, <2>1, <2>4, <2>5 DEF TypeOK
  <2> QED
    BY <1>1, <2>1, <2>2, <2>4, <2>5, <2>6, ReturnType DEF TypeOK, given, shape
<1>18. CASE ReadFails
  BY <1>1, <1>18 DEF TypeOK, ReadFails, given, sfile, cache, shape, current, library
<1> QED
  BY <1>3, <1>4, <1>5, <1>6, <1>7, <1>8, <1>9, <1>10, <1>11, <1>12, <1>13, <1>14, <1>15, <1>16,
     <1>17, <1>18 DEF Next, Serve, Fault
-----------------------------------------------------------------------------
(* The invariant after a step that ends the program. *)
LEMMA Failing ==
  ASSUME Inv, TypeOK', pc' = "failed", UNCHANGED <<given, ready, curblkno, curblk, lru_size>>
  PROVE  Inv'
<1>1. ~Live'
  BY DEF Live
<1>2. CurrentInv'
  BY DEF Inv, CurrentInv, InUse
<1>3. PhaseInv'
  BY DEF Inv, PhaseInv, given
<1> QED
  BY <1>1, <1>2, <1>3 DEF Inv, ShapeInv, ListInv, PlaceInv, AlignInv, CacheInv

(* What the cache's invariants say, without the step the program is at. *)
CacheParts == ShapeInv /\ ListInv /\ PlaceInv /\ AlignInv /\ CacheInv

(* Slots may lose their blocks and change their places in the list. *)
LEMMA Evicting ==
  ASSUME Inv, Live, TypeOK',
         UNCHANGED <<length, mem, size, shape, source_position, offset>>,
         \A s \in InUse : blkno'[s] \in {blkno[s], NoBlock},
         \A k \in 1..lru_size : lru_list'[k] \in InUse
  PROVE  CacheParts'
<1>1. InUse' = InUse
  BY DEF InUse, shape
<1>2. ShapeInv' /\ ListInv' /\ AlignInv'
  BY <1>1 DEF Inv, ShapeInv, ListInv, AlignInv, shape
<1>3. PlaceInv'
  BY <1>1 DEF Inv, PlaceInv, shape
<1>4. CacheInv'
  BY <1>1 DEF Inv, CacheInv, shape
<1> QED
  BY <1>2, <1>3, <1>4 DEF CacheParts

(* A block is read to a slot. *)
LEMMA Reading ==
  ASSUME Inv, Live, TypeOK', NEW s \in InUse, NEW b \in Nat, offset = b * blksize,
         \A t \in InUse : blkno[t] = b => t = s,
         do_src_fifo => s = b % lru_size,
         mem' = Filled(s, Nread(blksize)),
         blkno' = [blkno EXCEPT ![s] = b], size' = [size EXCEPT ![s] = Nread(blksize)],
         offset' = offset + Nread(blksize), source_position' = source_position + Nread(blksize),
         UNCHANGED <<length, shape>>,
         \A k \in 1..lru_size : lru_list'[k] \in InUse
  PROVE  CacheParts' /\ Keeps(mem', blksize', length', s, b, Nread(blksize))
<1> DEFINE n == Nread(blksize)
<1>1. InUse' = InUse /\ blksize' = blksize /\ lru_size' = lru_size /\ do_src_fifo' = do_src_fifo
  BY DEF InUse, shape
<1>2. /\ n \in 0..blksize
      /\ n < blksize => offset + n >= length
      /\ \A t \in InUse, c \in Nat : \A k :
           t # s /\ Keeps(mem, blksize, length, t, c, k) => Keeps(mem', blksize, length, t, c, k)
      /\ Keeps(mem', blksize, length, s, b, n)
  BY Filling
<1>3. /\ blkno \in [Slots -> Nat \cup {NoBlock}] /\ size \in [Slots -> Nat]
      /\ blksize \in Nat \ {0} /\ offset \in Nat
  BY DEF Inv, TypeOK, ShapeInv
<1>4. \A t \in InUse : t \in Slots
  BY SlotFits
<1> HIDE DEF n
<1>5. \A t \in InUse : /\ t # s => blkno'[t] = blkno[t] /\ size'[t] = size[t]
                       /\ t = s => blkno'[t] = b /\ size'[t] = n
  BY <1>3, <1>4 DEF n
<1>6. ShapeInv' /\ ListInv'
  BY <1>1 DEF Inv, ShapeInv, ListInv, shape, Live
<1>7. PlaceInv'
  BY <1>1, <1>5 DEF Inv, PlaceInv
<1>8. AlignInv'
  <2>1. CASE n < blksize
    BY <1>2, <2>1 DEF AlignInv, n
  <2>2. CASE n = blksize
    <3>1. b + 1 \in Nat /\ (b + 1) * blksize = b * blksize + blksize
      BY <1>3, SMT
    <3>2. offset' = (b + 1) * blksize'
      BY <1>1, <2>2, <3>1 DEF n
    <3> QED
      BY <3>1, <3>2, Zenon DEF AlignInv
  <2> QED
    BY <1>2, <1>3, <2>1, <2>2, SMT
<1>9. CacheInv'
  <2>1. ASSUME NEW t \in InUse, blkno'[t] # NoBlock
        PROVE  Keeps(mem', blksize, length, t, blkno'[t], size'[t])
    <3>1. CASE t = s
      BY <1>2, <1>5, <3>1
    <3>2. CASE t # s
      <4>1. blkno[t] \in Nat /\ Keeps(mem, blksize, length, t, blkno[t], size[t])
        BY <1>3, <1>4, <1>5, <2>1, <3>2 DEF Inv, CacheInv
      <4> QED
        BY <1>2, <1>5, <3>2, <4>1
    <3> QED
      BY <3>1, <3>2
  <2>2. ASSUME NEW t \in InUse, NEW u \in InUse, blkno'[t] = blkno'[u], blkno'[t] # NoBlock
        PROVE  t = u
    BY <1>5, <2>2 DEF Inv, CacheInv
  <2>3. source_position' = offset'
    BY DEF Inv, CacheInv
  <2> QED
    BY <1>1, <2>1, <2>2, <2>3 DEF CacheInv
<1> QED
  BY <1>1, <1>2, <1>6, <1>7, <1>8, <1>9 DEF CacheParts, n
-----------------------------------------------------------------------------
(* One lemma for each kind of step.                                        *)

(* main_set_source allocates one buffer. *)
LEMMA OpenSourceStep ==
  ASSUME Inv, TypeOK', OpenSource
  PROVE  Inv'
<1>1. /\ lru_size' = 1 /\ lru_list' = <<0>> /\ blksize' = option_srcwinsz /\ pc' = "lookup"
      /\ want' = 0 /\ ready' = ready /\ offset' = offset /\ source_position' = source_position
      /\ kind' = kind /\ length' = length /\ blkno' = [blkno EXCEPT ![0] = NoBlock]
  BY DEF OpenSource, given
<1>2. ~ready /\ offset = 0 /\ source_position = 0
  BY DEF Inv, PhaseInv, OpenSource
<1>3. InUse' = {0} /\ blkno'[0] = NoBlock
  <2>1. 0 \in Slots
    BY SizesAssumption, SMT DEF Slots
  <2>2. blkno \in [Slots -> Nat \cup {NoBlock}]
    BY DEF Inv, TypeOK
  <2>3. 0..1 - 1 = {0}
    BY SMT
  <2> QED
    BY <1>1, <2>1, <2>2, <2>3 DEF InUse
<1>4. option_srcwinsz \in Nat \ {0} /\ 1 * option_srcwinsz = option_srcwinsz
  BY MemorySize, SMT
<1>5. ShapeInv' /\ ListInv'
  BY <1>1, <1>3, <1>4 DEF ShapeInv, ListInv
<1>6. AlignInv'
  <2>1. 0 = 0 * option_srcwinsz
    BY <1>4, SMT
  <2> QED
    BY <1>1, <1>2, <2>1 DEF AlignInv
<1>7. PlaceInv' /\ CacheInv'
  BY <1>1, <1>2, <1>3 DEF PlaceInv, CacheInv
<1>8. CurrentInv' /\ PhaseInv'
  BY <1>1, <1>2, <1>3 DEF CurrentInv, PhaseInv, Inv
<1> QED
  BY <1>5, <1>6, <1>7, <1>8 DEF Inv

(* A step that touches neither the cache nor the current block. *)
LEMMA QuietStep ==
  ASSUME Inv, TypeOK', Live,
         UNCHANGED <<given, source_position, offset, cache, shape, current>>,
         PhaseInv', ready,
         pc' \in {"idle", "lookup", "seek"} => pc \in {"idle", "lookup", "seek"}
  PROVE  Inv'
<1>1. CacheParts'
  <2>1. \A s \in InUse : blkno'[s] \in {blkno[s], NoBlock}
    BY DEF cache
  <2>2. \A k \in 1..lru_size : lru_list'[k] \in InUse
    BY DEF cache, Inv, ListInv
  <2>3. UNCHANGED <<length, mem, size, shape, source_position, offset>>
    BY DEF given, cache
  <2> QED
    BY <2>1, <2>2, <2>3, Evicting
<1>2. CurrentInv'
  BY DEF Inv, CurrentInv, InUse, given, cache, shape, current
<1> QED
  BY <1>1, <1>2 DEF Inv, CacheParts

(* The library goes on with the block it has, or asks for another one. *)
LEMMA ReuseStep ==
  ASSUME Inv, TypeOK', Reuse
  PROVE  Inv'
<1>1. /\ Live /\ ready /\ pc = "idle" /\ pc' = "idle"
      /\ UNCHANGED <<given, sfile, cache, shape, current>>
  BY DEF Reuse, Inv, PhaseInv, Live
<1>2. PhaseInv'
  BY <1>1 DEF Inv, PhaseInv, given, shape
<1> QED
  BY <1>1, <1>2, QuietStep DEF sfile

LEMMA RequestStep ==
  ASSUME Inv, TypeOK', NEW b, Request(b)
  PROVE  Inv'
<1>1. /\ Live /\ ready /\ pc = "idle" /\ pc' = "lookup"
      /\ UNCHANGED <<given, sfile, cache, shape, current>>
  BY DEF Request, Inv, PhaseInv, Live
<1>2. PhaseInv'
  BY <1>1 DEF Inv, PhaseInv, given, shape
<1> QED
  BY <1>1, <1>2, QuietStep DEF sfile

(* A request is refused. *)
LEMMA RefusedStep ==
  ASSUME Inv, TypeOK', pc \in {"lookup", "seek"}, ReturnTooFarBack,
         UNCHANGED <<given, source_position, offset, cache, shape>>
  PROVE  Inv'
<1>1. UNCHANGED current
  BY DEF ReturnTooFarBack
<1>2. CASE pc' = "failed"
  BY <1>1, <1>2, Failing DEF shape, current
<1>3. CASE ready /\ pc' = "idle"
  <2>1. PhaseInv'
    BY <1>3 DEF Inv, PhaseInv, given, shape
  <2> QED
    BY <1>1, <1>3, <2>1, QuietStep DEF Live
<1> QED
  BY <1>2, <1>3 DEF ReturnTooFarBack, Leave
(* No source: an empty block. *)
LEMMA LookupFakeStep ==
  ASSUME Inv, TypeOK', LookupFake
  PROVE  Inv'
<1>1. /\ Live /\ pc = "lookup" /\ length = 0 /\ Return(0, 0) /\ want \in Nat
      /\ size' = [size EXCEPT ![0] = 0]
      /\ UNCHANGED <<given, sfile, blkno, lru_list, mem, shape>>
  BY DEF LookupFake, Inv, TypeOK, PhaseInv, Live
<1>2. blksize \in Nat /\ lru_size \in Nat \ {0} /\ 0 \in InUse
  BY <1>1, SMT DEF Inv, ShapeInv, InUse
<1>3. \A b \in Nat : LengthOf(blksize, length, b) = 0
  <2> TAKE b \in Nat
  <2>1. b * blksize \in Nat
    BY <1>2, ProductNat
  <2> QED
    BY <1>1, <1>2, <2>1, SMT DEF LengthOf, Smaller
<1>4. ASSUME NEW s, NEW b \in Nat PROVE Keeps(mem, blksize, length, s, b, 0)
  BY <1>3, SMT DEF Keeps
<1>5. InUse' = InUse /\ Live'
  BY <1>1 DEF InUse, shape, Return, Leave, Live
<1>6. \A s \in InUse : s \in Slots
  BY <1>1, SlotFits
<1>7. size \in [Slots -> Nat] /\ blkno \in [Slots -> Nat \cup {NoBlock}]
  BY DEF Inv, TypeOK
<1>8. ShapeInv' /\ ListInv' /\ PlaceInv' /\ AlignInv'
  BY <1>1, <1>5 DEF Inv, ShapeInv, ListInv, PlaceInv, AlignInv, Live, given, sfile, shape
<1>9. CacheInv'
  <2>1. ASSUME NEW s \in InUse, blkno[s] # NoBlock
        PROVE  Keeps(mem, blksize, length, s, blkno[s], size'[s])
    <3>1. blkno[s] \in Nat /\ Keeps(mem, blksize, length, s, blkno[s], size[s])
      BY <1>1, <1>6, <1>7, <2>1 DEF Inv, CacheInv
    <3>2. CASE s = 0
      BY <1>1, <1>4, <1>6, <1>7, <3>1, <3>2
    <3>3. CASE s # 0
      BY <1>1, <1>6, <1>7, <3>1, <3>3
    <3> QED
      BY <3>2, <3>3
  <2> QED
    BY <1>1, <1>5, <2>1 DEF Inv, CacheInv, Live, given, sfile, shape
<1>10. CurrentInv'
  BY <1>1, <1>2, <1>4, <1>5 DEF CurrentInv, Return, given, shape
<1>11. PhaseInv'
  <2>1. ready' = ready /\ kind' = kind /\ length' = length /\ size'[0] = 0
    BY <1>1, <1>2, <1>6, <1>7 DEF given, shape
  <2>2. CASE ready
    BY <1>1, <2>1, <2>2 DEF Inv, PhaseInv, Return, Leave
  <2>3. CASE ~ready
    <3>1. pc' = "split" /\ want = 0 /\ offset = 0 /\ curblkno' = 0 /\ curblk' = 0
      BY <1>1, <2>3 DEF Inv, PhaseInv, Return, Leave
    <3>2. Keeps(mem, blksize, length, 0, 0, 0)
      BY <1>4
    <3> QED
      BY <1>1, <2>1, <2>3, <3>1, <3>2 DEF Inv, PhaseInv, LookupFake, given, sfile, shape
  <2> QED
    BY <2>2, <2>3
<1> QED
  BY <1>8, <1>9, <1>10, <1>11 DEF Inv

(* The block is in the cache; the first request never finds it there. *)
LEMMA LookupHitStep ==
  ASSUME Inv, TypeOK', LookupHit
  PROVE  Inv'
<1> DEFINE s == Found(want)
<1>1. /\ Live /\ pc = "lookup" /\ want \in Nat /\ Hit(want) /\ Return(s, size[s])
      /\ lru_list' = Listed(s) /\ UNCHANGED <<given, sfile, blkno, size, mem, shape>>
  BY DEF LookupHit, Inv, TypeOK, Live
<1>2. s \in InUse /\ blkno[s] = want
  BY <1>1, Lookup
<1> HIDE DEF s
<1>3. want # NoBlock
  BY <1>1, SMT DEF NoBlock
<1>4. ready
  <2>1. CASE ~ready
    <3>1. lru_size = 1 /\ blkno[0] = NoBlock
      BY <1>1, <2>1 DEF Inv, ShapeInv, PhaseInv
    <3>2. s = 0
      BY <1>2, <3>1, SMT DEF InUse
    <3> QED
      BY <1>2, <1>3, <3>1, <3>2
  <2> QED
    BY <2>1
<1>5. Keeps(mem, blksize, length, s, want, size[s])
  BY <1>1, <1>2, <1>3 DEF Inv, CacheInv
<1>6. CacheParts'
  <2>1. \A k \in 1..lru_size : lru_list'[k] \in InUse
    BY <1>1, <1>2, ListedType
  <2> QED
    BY <1>1, <2>1, Evicting DEF given, sfile
<1>7. CurrentInv'
  BY <1>1, <1>2, <1>5 DEF CurrentInv, Return, InUse, given, shape
<1>8. PhaseInv'
  BY <1>1, <1>4 DEF Inv, PhaseInv, Return, Leave, given, shape
<1> QED
  BY <1>6, <1>7, <1>8 DEF Inv, CacheParts

(* A slot is given up for the block. *)
LEMMA LookupMissStep ==
  ASSUME Inv, TypeOK', LookupMiss
  PROVE  Inv'
<1> DEFINE v == Victim(want)
<1>1. /\ Live /\ pc = "lookup" /\ want \in Nat /\ ~Hit(want)
      /\ blru' = v /\ blkno' = [blkno EXCEPT ![v] = NoBlock] /\ lru_list' = Listed(v)
      /\ pc' = IF Position = source_position THEN "read" ELSE "seek"
      /\ UNCHANGED <<given, sfile, size, mem, shape, current, library, want>>
  BY DEF LookupMiss, Inv, TypeOK, Live
<1>2. /\ v \in InUse /\ v \in Slots /\ (\A s \in InUse : blkno[s] # want)
      /\ do_src_fifo => v = want % lru_size
  BY <1>1, Lookup, SlotFits
<1> HIDE DEF v
<1>3. \A s \in InUse : s \in Slots
  BY <1>1, SlotFits
<1>4. blkno \in [Slots -> Nat \cup {NoBlock}]
  BY DEF Inv, TypeOK
<1>5. \A s \in InUse : blkno'[s] \in {blkno[s], NoBlock}
  BY <1>1, <1>3, <1>4
<1>6. CacheParts'
  <2>1. \A k \in 1..lru_size : lru_list'[k] \in InUse
    BY <1>1, <1>2, ListedType
  <2> QED
    BY <1>1, <1>5, <2>1, Evicting DEF given, sfile
<1>7. InUse' = InUse /\ Position' = Position /\ want # NoBlock
  <2>1. want # NoBlock
    BY <1>1, SMT DEF NoBlock
  <2> QED
    BY <1>1, <2>1 DEF InUse, Position, shape
<1>8. CurrentInv'
  BY <1>1, <1>7 DEF Inv, CurrentInv, given, shape, current
<1>9. ~ready => Position = source_position
  <2>1. 0 * blksize = 0
    BY <1>1, SMT DEF Inv, ShapeInv
  <2> QED
    BY <1>1, <2>1 DEF Inv, PhaseInv, CacheInv, Position
<1>10. PhaseInv'
  BY <1>1, <1>2, <1>5, <1>7, <1>9 DEF Inv, PhaseInv, given, sfile, shape
<1> QED
  BY <1>6, <1>8, <1>10 DEF Inv, CacheParts
(* The file is positioned at the block. *)
LEMMA SeekStep ==
  ASSUME Inv, TypeOK', Seek
  PROVE  Inv'
<1>1. /\ Live /\ ready /\ pc' = "relookup" /\ offset' = Position /\ source_position' = Position
      /\ UNCHANGED <<given, cache, shape, current, want>>
  BY DEF Seek, Inv, PhaseInv, Live
<1>2. InUse' = InUse /\ Position' = Position
  BY <1>1 DEF InUse, Position, shape
<1>3. AlignInv'
  BY <1>1 DEF Inv, TypeOK, AlignInv, Position, shape
<1>4. ShapeInv' /\ ListInv' /\ PlaceInv' /\ CacheInv'
  BY <1>1, <1>2 DEF Inv, ShapeInv, ListInv, PlaceInv, CacheInv, given, cache, shape
<1>5. CurrentInv' /\ PhaseInv'
  BY <1>1, <1>2 DEF Inv, CurrentInv, PhaseInv, given, cache, shape, current
<1> QED
  BY <1>3, <1>4, <1>5 DEF Inv

(* It cannot be. *)
LEMMA SeekFailsStep ==
  ASSUME Inv, TypeOK', SeekFails
  PROVE  Inv'
<1>1. pc = "seek" /\ UNCHANGED <<given, source_position, offset, cache, shape>>
  BY DEF SeekFails
<1>2. CASE ReturnTooFarBack
  BY <1>1, <1>2, RefusedStep
<1>3. CASE ~(source_position > Position) /\ pc' = "skip" /\ UNCHANGED <<current, library, want, blru>>
  <2>1. Live /\ ready /\ Position' = Position
    BY <1>1, <1>3 DEF Inv, PhaseInv, Live, Position, shape
  <2>2. source_position <= Position
    <3>1. source_position \in Nat /\ want \in Nat /\ blksize \in Nat
      BY <2>1 DEF Inv, TypeOK, ShapeInv
    <3>2. Position \in Nat
      BY <3>1, ProductNat DEF Position
    <3> QED
      BY <1>3, <3>1, <3>2, SMT
  <2>3. PhaseInv'
    BY <1>1, <1>3, <2>1, <2>2 DEF Inv, PhaseInv, given, shape
  <2> QED
    BY <1>1, <1>3, <2>1, <2>3, QuietStep
<1> QED
  BY <1>2, <1>3 DEF SeekFails

(* A block is read past; a short one ends the program. *)
LEMMA SkipStep ==
  ASSUME Inv, TypeOK', Skip
  PROVE  Inv'
<1> DEFINE s == Taken(SkipBlock)
           n == Nread(blksize)
<1>1. /\ Live /\ pc = "skip" /\ source_position < Position
      /\ blkno' = [blkno EXCEPT ![s] = SkipBlock] /\ lru_list' = Listed(s)
      /\ mem' = Filled(s, n) /\ offset' = offset + n
      /\ UNCHANGED <<given, shape, current, library, want, blru>>
  BY DEF Skip, Live
<1>2. CASE pc' = "failed"
  BY <1>1, <1>2, Failing DEF shape, current
<1>3. CASE /\ n = blksize /\ source_position' = source_position + n
           /\ size' = [size EXCEPT ![s] = n] /\ pc' = pc
  <2>1. /\ blksize \in Nat \ {0} /\ source_position \in Nat /\ offset = source_position
        /\ want \in Nat /\ length \in Nat
    BY <1>1, SizesAssumption, SMT DEF Inv, ShapeInv, TypeOK, CacheInv
  <2>2. SkipBlock \in Nat
    BY <2>1, QuotientNat DEF SkipBlock
  <2>3. s \in InUse /\ (\A t \in InUse : blkno[t] = SkipBlock => t = s)
        /\ (do_src_fifo => s = SkipBlock % lru_size)
    BY <1>1, <2>2, Lookup, Zenon
  <2>4. offset < length
    BY <1>1, <1>3, <2>3, Filling
  <2>5. PICK q \in Nat : offset = q * blksize
    <3>1. ~(offset >= length)
      BY <2>1, <2>4, SMT
    <3> QED
      BY <1>1, <3>1 DEF Inv, AlignInv
  <2>6. SkipBlock = q
    BY <2>1, <2>5, FactorOf DEF SkipBlock
  <2>7. q * blksize + blksize <= want * blksize
    <3>1. q < want
      BY <1>1, <2>1, <2>5, EarlierBlock DEF Position
    <3> QED
      BY <2>1, <3>1, NextMultiple
  <2>8. Position' = Position /\ source_position' <= Position /\ ready /\ ready'
    BY <1>1, <1>3, <2>1, <2>5, <2>7 DEF Inv, PhaseInv, Position, shape
  <2>9. CacheParts'
    <3>1. \A k \in 1..lru_size : lru_list'[k] \in InUse
      BY <1>1, <2>3, ListedType
    <3>2. offset = SkipBlock * blksize /\ UNCHANGED <<length, shape>>
      BY <1>1, <2>5, <2>6 DEF given
    <3> QED
      BY <1>1, <1>3, <2>2, <2>3, <3>1, <3>2, Reading
  <2>10. CurrentInv'
    BY <1>1, <1>3 DEF Inv, CurrentInv, InUse, shape, current
  <2>11. PhaseInv'
    BY <1>1, <1>3, <2>8 DEF Inv, PhaseInv, given
  <2> QED
    BY <2>9, <2>10, <2>11 DEF Inv, CacheParts
<1> QED
  BY <1>2, <1>3 DEF Skip

(* The block is reached. *)
LEMMA SkipDoneStep ==
  ASSUME Inv, TypeOK', SkipDone
  PROVE  Inv'
<1>1. /\ Live /\ ready /\ pc = "skip" /\ pc' = "relookup" /\ source_position >= Position
      /\ UNCHANGED <<given, sfile, cache, shape, current, library, want, blru>>
  BY DEF SkipDone, Inv, PhaseInv, Live
<1>2. source_position <= Position
  BY <1>1 DEF Inv, PhaseInv
<1>3. source_position = Position /\ Position' = Position
  <2>1. source_position \in Nat /\ want \in Nat /\ blksize \in Nat
    BY <1>1 DEF Inv, TypeOK, ShapeInv
  <2>2. Position \in Nat
    BY <2>1, ProductNat DEF Position
  <2>3. source_position = Position
    BY <1>1, <1>2, <2>1, <2>2, SMT
  <2> QED
    BY <1>1, <2>3 DEF Position, shape
<1>4. PhaseInv'
  BY <1>1, <1>3 DEF Inv, PhaseInv, given, sfile, shape
<1> QED
  BY <1>1, <1>4, QuietStep DEF sfile

(* The second lookup. *)
LEMMA RelookupStep ==
  ASSUME Inv, TypeOK', Relookup
  PROVE  Inv'
<1> DEFINE s == Taken(want)
<1>1. /\ Live /\ ready /\ pc = "relookup" /\ pc' = "read" /\ want \in Nat
      /\ blru' = s /\ lru_list' = Listed(s)
      /\ blkno' = IF Hit(want) THEN blkno ELSE [blkno EXCEPT ![Victim(want)] = NoBlock]
      /\ UNCHANGED <<given, sfile, size, mem, shape, current, library, want>>
  BY DEF Relookup, Inv, PhaseInv, TypeOK, Live
<1>2. /\ s \in InUse /\ (do_src_fifo => s = want % lru_size)
      /\ \A t \in InUse : blkno[t] = want => t = s
  BY <1>1, Lookup, Zenon
<1> HIDE DEF s
<1>3. \A t \in InUse : blkno'[t] \in {blkno[t], NoBlock}
  <2>1. \A t \in InUse : t \in Slots
    BY <1>1, SlotFits
  <2>2. blkno \in [Slots -> Nat \cup {NoBlock}]
    BY DEF Inv, TypeOK
  <2> QED
    BY <1>1, <2>1, <2>2
<1>4. CacheParts'
  <2>1. \A k \in 1..lru_size : lru_list'[k] \in InUse
    BY <1>1, <1>2, ListedType
  <2> QED
    BY <1>1, <1>3, <2>1, Evicting DEF given, sfile
<1>5. InUse' = InUse /\ Position' = Position /\ want # NoBlock
  <2>1. want # NoBlock
    BY <1>1, SMT DEF NoBlock
  <2> QED
    BY <1>1, <2>1 DEF InUse, Position, shape
<1>6. CurrentInv'
  BY <1>1, <1>5 DEF Inv, CurrentInv, shape, current
<1>7. PhaseInv'
  BY <1>1, <1>2, <1>3, <1>5 DEF Inv, PhaseInv, given, sfile, shape
<1> QED
  BY <1>4, <1>6, <1>7 DEF Inv, CacheParts
(* The block is read and returned. *)
LEMMA ReadStep ==
  ASSUME Inv, TypeOK', Read
  PROVE  Inv'
<1> DEFINE n == Nread(blksize)
<1>1. /\ Live /\ pc = "read" /\ Return(blru, n) /\ mem' = Filled(blru, n)
      /\ size' = [size EXCEPT ![blru] = n] /\ blkno' = [blkno EXCEPT ![blru] = want]
      /\ offset' = offset + n /\ source_position' = Position + n
      /\ UNCHANGED <<given, lru_list, shape>>
  BY DEF Read, Live
<1>2. /\ blru \in InUse /\ blru \in Slots /\ want \in Nat /\ source_position = Position
      /\ offset = source_position /\ \A s \in InUse : blkno[s] = want => s = blru
      /\ do_src_fifo => blru = want % lru_size
  BY <1>1 DEF Inv, PhaseInv, CacheInv, TypeOK
<1>3. \A k \in 1..lru_size : lru_list'[k] \in InUse
  BY <1>1 DEF Inv, ListInv
<1>4. CacheParts' /\ Keeps(mem', blksize', length', blru, want, n)
  <2>1. /\ offset = want * blksize /\ source_position' = source_position + n
        /\ UNCHANGED <<length, shape>>
    BY <1>1, <1>2 DEF Position, given
  <2> QED
    BY <1>1, <1>2, <1>3, <2>1, Reading
<1>5. InUse' = InUse
  BY <1>1 DEF InUse, shape
<1>6. CurrentInv'
  BY <1>1, <1>2, <1>4, <1>5 DEF CurrentInv, Return
<1>7. PhaseInv'
  <2>1. CASE ready
    BY <1>1, <2>1 DEF Inv, PhaseInv, Return, Leave, given, shape
  <2>2. CASE ~ready
    <3>1. want = 0 /\ offset = 0 /\ lru_size = 1
      BY <1>1, <2>2 DEF Inv, PhaseInv, ShapeInv
    <3>2. blru = 0
      BY <1>2, <3>1, SMT DEF InUse
    <3>3. size'[0] = n /\ blkno'[0] = 0
      BY <1>1, <1>2, <3>1, <3>2 DEF Inv, TypeOK
    <3>4. n \in 0..blksize /\ blksize \in Nat
      BY <1>1, <1>2, Filling DEF Inv, ShapeInv
    <3>5. offset' = size'[0]
      BY <1>1, <3>1, <3>3, <3>4, SMT
    <3>6. pc' = "split" /\ curblkno' = 0 /\ curblk' = 0 /\ ready' = ready /\ UNCHANGED given
      BY <1>1, <2>2, <3>1, <3>2 DEF Return, Leave, shape
    <3>7. Keeps(mem', blksize', length', 0, 0, size'[0])
      BY <1>4, <3>1, <3>2, <3>3
    <3> QED
      BY <2>2, <3>3, <3>5, <3>6, <3>7 DEF Inv, PhaseInv, given
  <2> QED
    BY <2>1, <2>2
<1> QED
  BY <1>4, <1>6, <1>7 DEF Inv, CacheParts

(* A file that fills the first buffer is split into full blocks. *)
LEMMA Splitting ==
  ASSUME NEW m, NEW len \in Nat, option_srcwinsz <= len,
         Keeps(m, option_srcwinsz, len, 0, 0, option_srcwinsz), NEW s \in Slots
  PROVE  Keeps(m, SplitSize, len, s, s, SplitSize)
<1>1. /\ option_srcwinsz \in Nat /\ SplitSize \in Nat \ {0} /\ s \in Nat
      /\ s < MAX_LRU_SIZE /\ MAX_LRU_SIZE \in Nat
  BY MemorySize, SizesAssumption, SMT DEF Slots
<1>2. PICK at \in Nat : at = s * SplitSize
  BY <1>1, ProductNat
<1>3. at + SplitSize <= option_srcwinsz
  BY <1>1, <1>2, NextMultiple DEF option_srcwinsz
<1>4. LengthOf(SplitSize, len, s) = SplitSize
  BY <1>1, <1>2, <1>3, SMT DEF LengthOf, Smaller
<1>5. ASSUME NEW i \in 0..SplitSize - 1 PROVE m[s * SplitSize + i] = s * SplitSize + i
  <2>1. at + i \in 0..option_srcwinsz - 1
    BY <1>1, <1>2, <1>3, SMT
  <2>2. m[0 * option_srcwinsz + (at + i)] = 0 * option_srcwinsz + (at + i)
    BY <2>1 DEF Keeps
  <2>3. 0 * option_srcwinsz + (at + i) = at + i
    BY <1>1, <2>1, SMT
  <2> QED
    BY <1>2, <2>2, <2>3
<1> QED
  BY <1>4, <1>5 DEF Keeps

(* The rest of main_set_source. *)
LEMMA SetSourceStep ==
  ASSUME Inv, TypeOK', SetSource
  PROVE  Inv'
<1> DEFINE known == size_known \/ size[0] < blksize
           total == IF size_known THEN length ELSE size[0]
<1>1. /\ Live /\ ~ready /\ pc = "split" /\ pc' = "idle" /\ ready' = TRUE
      /\ do_src_fifo' = (do_src_fifo \/ ~known)
      /\ UNCHANGED <<given, source_position, offset, mem, curblkno, curblk>>
  BY DEF SetSource, Inv, PhaseInv, Live
<1>2. /\ lru_size = 1 /\ blksize = option_srcwinsz /\ offset = size[0] /\ curblkno = 0
      /\ curblk = 0 /\ Keeps(mem, option_srcwinsz, length, 0, 0, size[0])
      /\ kind = "fake" \/ blkno[0] = 0
      /\ kind = "fake" => length = 0
      /\ source_position = offset
  BY <1>1 DEF Inv, ShapeInv, PhaseInv, CacheInv
<1>3. option_srcwinsz \in Nat \ {0} /\ length \in Nat
  BY MemorySize, SizesAssumption, SMT DEF Inv, TypeOK
<1>4. size[0] = IF option_srcwinsz <= length THEN option_srcwinsz ELSE length
  <2>1. size[0] = LengthOf(option_srcwinsz, length, 0)
    BY <1>2 DEF Keeps
  <2>2. 0 * option_srcwinsz = 0
    BY <1>3, SMT
  <2> QED
    BY <1>3, <2>1, <2>2, SMT DEF LengthOf, Smaller
<1>5. PhaseInv'
  BY <1>1, <1>2 DEF Inv, PhaseInv, given
<1>6. CASE ~known \/ total > option_srcwinsz
  <2>1. /\ blksize' = SplitSize /\ onblk' = SplitSize /\ lru_size' = MAX_LRU_SIZE
        /\ blkno' = [s \in Slots |-> IF s = 0 THEN blkno[0] ELSE s]
        /\ size' = [s \in Slots |-> SplitSize]
        /\ lru_list' = [k \in 1..MAX_LRU_SIZE |-> k - 1]
    BY <1>6 DEF SetSource
  <2>2. option_srcwinsz <= length
    BY <1>2, <1>3, <1>4, <1>6, SMT
  <2>3. size[0] = option_srcwinsz /\ blkno[0] = 0
    BY <1>2, <1>3, <1>4, <2>2, SMT
  <2>4. InUse' = Slots /\ 0 \in Slots
    BY <2>1, SizesAssumption, SMT DEF InUse, Slots
  <2>5. \A s \in Slots : blkno'[s] = s /\ size'[s] = SplitSize
    BY <2>1, <2>3
  <2>6. \A s \in Slots : Keeps(mem, SplitSize, length, s, s, SplitSize)
    BY <1>2, <1>3, <2>2, <2>3, Splitting
  <2>7. ShapeInv' /\ ListInv'
    <3>1. \A k \in 1..MAX_LRU_SIZE : lru_list'[k] \in Slots
      BY <2>1, SizesAssumption, SMT DEF Slots
    <3> QED
      BY <1>1, <2>1, <2>4, <3>1, SizesAssumption DEF ShapeInv, ListInv, option_srcwinsz
  <2>8. PlaceInv'
    <3>1. \A s \in Slots : s % MAX_LRU_SIZE = s
      BY SizesAssumption, SMT DEF Slots
    <3> QED
      BY <2>1, <2>4, <2>5, <3>1 DEF PlaceInv
  <2>9. AlignInv'
    BY <1>1, <1>2, <2>1, <2>3, SizesAssumption DEF AlignInv, option_srcwinsz
  <2>10. CacheInv'
    BY <1>1, <1>2, <2>1, <2>4, <2>5, <2>6 DEF CacheInv, given
  <2>11. CurrentInv'
    BY <1>1, <1>2, <2>1, <2>4, <2>6 DEF CurrentInv, given
  <2> QED
    BY <1>5, <2>7, <2>8, <2>9, <2>10, <2>11 DEF Inv
<1>7. CASE ~(~known \/ total > option_srcwinsz)
  <2>1. onblk' = size[0] /\ UNCHANGED <<blksize, lru_size, blkno, size, lru_list>>
    BY <1>7 DEF SetSource
  <2>2. InUse' = InUse /\ 0 \in InUse /\ (do_src_fifo' => do_src_fifo)
    <3>1. 0 \in 0..1 - 1
      BY SMT
    <3> QED
      BY <1>1, <1>2, <1>7, <2>1, <3>1 DEF InUse
  <2>3. ShapeInv' /\ ListInv' /\ AlignInv' /\ PlaceInv'
    BY <1>1, <2>1, <2>2 DEF Inv, ShapeInv, ListInv, AlignInv, PlaceInv, given
  <2>4. CacheInv'
    BY <1>1, <2>1, <2>2 DEF Inv, CacheInv, given
  <2>5. CurrentInv'
    BY <1>1, <1>2, <2>1, <2>2 DEF CurrentInv, given
  <2> QED
    BY <1>5, <2>3, <2>4, <2>5 DEF Inv
<1> QED
  BY <1>6, <1>7

(* Every step keeps the invariant. *)
LEMMA InvStep == Inv /\ [Next]_vars => Inv'
<1> SUFFICES ASSUME Inv, [Next]_vars PROVE Inv'
  OBVIOUS
<1>1. CASE UNCHANGED vars
  <2>1. UNCHANGED <<given, sfile, cache, shape, current, library, pc, want, blru>>
    BY <1>1 DEF vars
  <2>2. TypeOK'
    BY <2>1 DEF Inv, TypeOK, given, sfile, cache, shape, current, library
  <2>3. InUse' = InUse /\ Live' = Live /\ Position' = Position
    BY <2>1 DEF InUse, Live, Position, shape
  <2>4. ShapeInv' /\ ListInv' /\ PlaceInv' /\ AlignInv'
    BY <2>1, <2>3 DEF Inv, ShapeInv, ListInv, PlaceInv, AlignInv, given, sfile, cache, shape
  <2>5. CacheInv' /\ CurrentInv'
    BY <2>1, <2>3 DEF Inv, CacheInv, CurrentInv, given, sfile, cache, shape, current
  <2>6. PhaseInv'
    BY <2>1, <2>3 DEF Inv, PhaseInv, given, sfile, cache, shape, current
  <2> QED
    BY <2>2, <2>4, <2>5, <2>6 DEF Inv
<1>2. CASE Next
  <2>1. TypeOK'
    BY <1>2, TypeStep
  <2>2. CASE OpenFails
    BY <2>1, <2>2, Failing DEF OpenFails, shape, current
  <2>3. CASE ReadFails
    BY <2>1, <2>3, Failing DEF ReadFails, shape, current
  <2>4. CASE LookupRefused
    BY <2>1, <2>4, RefusedStep DEF LookupRefused, sfile
  <2> QED
    BY <1>2, <2>1, <2>2, <2>3, <2>4, OpenSourceStep, SetSourceStep, ReuseStep, RequestStep,
       LookupFakeStep, LookupHitStep, LookupMissStep, SeekStep, SeekFailsStep, SkipStep,
       SkipDoneStep, RelookupStep, ReadStep DEF Next, Serve, Fault
<1> QED
  BY <1>1, <1>2
-----------------------------------------------------------------------------
(* The invariant holds in every state. *)
THEOREM InvCorrect == Spec => []Inv
  BY InvInit, InvStep, PTL DEF Spec

(* Every variable of the block cache keeps its type; above all the list of *)
(* main_blklru_list operations keeps its length.                           *)
THEOREM BlocksTypeCorrect == Spec => []TypeOK
<1>1. Inv => TypeOK
  BY DEF Inv
<1> QED
  BY <1>1, InvCorrect, PTL

(* A slot that is marked with a block holds that block, no block is held   *)
(* twice, and main_file's position is the file's, for every number and     *)
(* size of buffers, file and sequence of requests.                         *)
THEOREM CacheIsSound == Spec => []CacheSound
<1>1. Inv => CacheSound
  BY DEF Inv, CacheInv, CacheSound, Live, Keeps, Holds, LengthOf, BlockLength
<1> QED
  BY <1>1, InvCorrect, PTL

(* Between requests the library's current block is a block of the file,    *)
(* also after a request that main_getblk_func refused.                     *)
THEOREM CurrentIsIntact == Spec => []CurrentIntact
<1>1. Inv => CurrentIntact
  <2> SUFFICES ASSUME Inv, pc = "idle" PROVE Holds(curblk, curblkno, onblk)
    BY DEF CurrentIntact
  <2>1. Keeps(mem, blksize, length, curblk, curblkno, onblk)
    BY DEF Inv, PhaseInv, CurrentInv
  <2> QED
    BY <2>1 DEF Keeps, Holds, LengthOf, BlockLength
<1> QED
  BY <1>1, InvCorrect, PTL

-----------------------------------------------------------------------------
(* The scan without gaps.                                                  *)

Missed == {"seek", "skip", "relookup", "read"}

(* Who uses FIFO: the encoder, and a decoder whose source is a pipe. *)
FifoInv ==
  /\ kind = "fake" => cmd = "decode"
  /\ ~ready => do_src_fifo = (cmd = "encode") /\ frontier_blkno = 0
  /\ Live /\ ~ready /\ kind = "regular" => size_known
  /\ ready /\ do_src_fifo => kind # "fake" /\ (kind = "regular" => cmd = "encode")

(* The encoder asks for no block beyond the first it has not had. *)
FrontierInv ==
  Live /\ ready /\ cmd = "encode" =>
    /\ do_src_fifo
    /\ frontier_blkno * blksize <= length
    /\ pc \in Missed \cup {"lookup"} => want <= frontier_blkno

(* The first q blocks have been read and the slots hold the last of them,  *)
(* but for the slot that is given up for the block wanted, which is a      *)
(* later one.                                                              *)
Window(q) ==
  /\ lru_size <= q /\ (q - 1) * blksize <= length /\ offset = Smaller(q * blksize, length)
  /\ \A s \in InUse : blkno[s] # NoBlock => q - lru_size <= blkno[s] /\ blkno[s] < q
  /\ \A s \in InUse : blkno[s] = NoBlock => pc \in Missed /\ s = want % lru_size
  /\ curblkno < q
  /\ cmd = "encode" => frontier_blkno <= q
  /\ pc \in Missed => q <= want
  /\ pc \in {"seek", "skip", "relookup"} => cmd = "decode"
  /\ pc = "seek" => offset # Position
WindowInv == Live /\ ready /\ do_src_fifo => \E q \in Nat : Window(q)

ScanInv == FifoInv /\ FrontierInv /\ WindowInv

(* The types of what the window is made of. *)
LEMMA ScanTypes ==
  ASSUME Inv, Live
  PROVE  /\ lru_size \in Nat \ {0} /\ blksize \in Nat \ {0} /\ length \in Nat /\ offset \in Nat
         /\ want \in Nat /\ frontier_blkno \in Nat /\ source_position = offset
         /\ \A s \in InUse : s \in Slots /\ blkno[s] \in Nat \cup {NoBlock}
         /\ cmd \in {"encode", "decode"}
<1>1. \A s \in InUse : s \in Slots
  BY SlotFits
<1> QED
  BY <1>1, SizesAssumption, SMT DEF Inv, TypeOK, ShapeInv, CacheInv

(* Where the file is, relative to the blocks that have been read. *)
LEMMA ScanPosition ==
  ASSUME Inv, Live, NEW q \in Nat, Window(q)
  PROVE  /\ offset <= q * blksize /\ offset <= length
         /\ offset < length => offset = q * blksize
         /\ q * blksize <= length => offset = q * blksize
         /\ q * blksize \in Nat
<1>1. blksize \in Nat /\ length \in Nat /\ offset \in Nat
  BY ScanTypes
<1>2. PICK k \in Nat : k = q * blksize
  BY <1>1, ProductNat
<1> QED
  BY <1>1, <1>2, SMT DEF Window, Smaller

(* A block that FIFO neither holds nor refuses is a later one. *)
LEMMA MissIsLater ==
  ASSUME Inv, Live, do_src_fifo, NEW q \in Nat, Window(q), NEW b \in Nat,
         ~Hit(b), ~TooFarBack(b), blkno[b % lru_size] # NoBlock
  PROVE  q <= b
<1> DEFINE s == b % lru_size
<1>1. lru_size \in Nat \ {0} /\ s \in InUse /\ \A t \in InUse : blkno[t] # b
  <2>1. lru_size \in Nat \ {0} /\ Victim(b) \in InUse /\ Victim(b) = s
    BY Lookup, ScanTypes
  <2> QED
    BY <2>1, Lookup
<1>2. blkno[s] \in Nat /\ blkno[s] # b /\ ~(blkno[s] > b)
  BY <1>1, ScanTypes DEF TooFarBack, Index
<1>3. blkno[s] % lru_size = b % lru_size /\ q - lru_size <= blkno[s]
  BY <1>1 DEF Inv, PlaceInv, Window
<1> HIDE DEF s
<1>4. blkno[s] < b
  BY <1>2, SMT
<1>5. blkno[s] + lru_size <= b
  BY <1>1, <1>2, <1>3, <1>4, SameSlot
<1> QED
  BY <1>1, <1>2, <1>3, <1>5, SMT
(* The next block is read to its slot, by the request for it or past it. *)
LEMMA ScanMoves ==
  ASSUME Inv, Live, Inv', Live', do_src_fifo, NEW q \in Nat, Window(q), NEW s \in InUse,
         s = q % lru_size, q * blksize <= length,
         offset' = offset + Nread(blksize), blkno' = [blkno EXCEPT ![s] = q],
         \A t \in InUse : blkno[t] = NoBlock /\ t # s => pc' \in Missed /\ t = want' % lru_size,
         UNCHANGED <<given, shape>>,
         curblkno' <= q, cmd = "encode" => frontier_blkno' <= q + 1,
         pc' # "seek", pc' \in Missed => q + 1 <= want' /\ cmd = "decode"
  PROVE  Window(q + 1)'
<1>1. /\ lru_size \in Nat \ {0} /\ blksize \in Nat \ {0} /\ length \in Nat /\ offset \in Nat
      /\ \A t \in InUse : t \in Slots /\ blkno[t] \in Nat \cup {NoBlock}
  BY ScanTypes
<1>2. InUse' = InUse /\ lru_size' = lru_size /\ blksize' = blksize /\ length' = length /\ cmd' = cmd
  BY DEF InUse, shape, given
<1>3. PICK k \in Nat : k = q * blksize
  BY <1>1, ProductNat
<1>4. offset = k /\ k <= length
  BY <1>3, ScanPosition
<1>5. (q + 1) * blksize = k + blksize /\ ((q + 1) - 1) * blksize = k
  BY <1>1, <1>3, SMT
<1>6. offset' = Smaller((q + 1) * blksize, length)
  BY <1>1, <1>4, <1>5, SMT DEF Nread, Smaller
<1>7. blkno \in [Slots -> Nat \cup {NoBlock}] /\ q # NoBlock
  <2>1. q # NoBlock
    BY SMT DEF NoBlock
  <2> QED
    BY <2>1 DEF Inv, TypeOK
<1>8. \A t \in InUse : IF t = s THEN blkno'[t] = q ELSE blkno'[t] = blkno[t]
  BY <1>1, <1>7
<1>9. lru_size <= q
  BY DEF Window
<1>10. ASSUME NEW t \in InUse, blkno'[t] # NoBlock
       PROVE  (q + 1) - lru_size <= blkno'[t] /\ blkno'[t] < q + 1
  <2>1. CASE t = s
    BY <1>1, <1>8, <2>1, SMT
  <2>2. CASE t # s
    <3>1. blkno'[t] = blkno[t] /\ blkno[t] \in Nat
      BY <1>1, <1>8, <1>10, <2>2
    <3>2. q - lru_size <= blkno[t] /\ blkno[t] < q /\ blkno[t] % lru_size = t
      BY <1>10, <3>1 DEF Window, Inv, PlaceInv
    <3>3. (q + 1) - lru_size <= blkno[t]
      BY <1>1, <1>9, <2>2, <3>1, <3>2, WindowMoves
    <3> QED
      BY <3>1, <3>2, <3>3, SMT
  <2> QED
    BY <2>1, <2>2
<1>11. \A t \in InUse : blkno'[t] = NoBlock => pc' \in Missed /\ t = want' % lru_size
  BY <1>7, <1>8
<1>12. lru_size <= q + 1 /\ curblkno' < q + 1
  <2>1. curblkno' \in Nat \cup {NoBlock}
    BY DEF Inv, TypeOK
  <2> QED
    BY <1>1, <1>9, <2>1, SMT DEF NoBlock
<1> QED
  BY <1>2, <1>4, <1>5, <1>6, <1>10, <1>11, <1>12 DEF Window, Missed

(* xd3_getblk moves the frontier past a full block only. *)
LEMMA FrontierMoves ==
  ASSUME Inv, Live, cmd = "encode", frontier_blkno * blksize <= length,
         NEW b \in Nat, b <= frontier_blkno, NEW n, n = LengthOf(blksize, length, b),
         Frontier(b, n)
  PROVE  frontier_blkno' \in {frontier_blkno, b + 1} /\ frontier_blkno' * blksize <= length
<1>1. blksize \in Nat \ {0} /\ length \in Nat /\ frontier_blkno \in Nat
  BY ScanTypes
<1>2. CASE UNCHANGED library
  BY <1>2 DEF library
<1>3. CASE ~(b < frontier_blkno) /\ frontier_blkno' = IF n = blksize THEN b + 1 ELSE b
  <2>1. b = frontier_blkno
    BY <1>1, <1>3, SMT
  <2>2. CASE n = blksize
    <3>1. PICK k \in Nat : k = b * blksize
      BY <1>1, ProductNat
    <3>2. (b + 1) * blksize = k + blksize
      BY <1>1, <3>1, SMT
    <3>3. k + blksize <= length
      BY <1>1, <2>2, <3>1, SMT DEF LengthOf, Smaller
    <3> QED
      BY <1>3, <2>2, <3>2, <3>3
  <2>3. CASE n # blksize
    BY <1>3, <2>1, <2>3
  <2> QED
    BY <2>2, <2>3
<1> QED
  BY <1>2, <1>3 DEF Frontier

(* A step before main_set_source has returned. *)
LEMMA ScanUnset ==
  ASSUME Inv, FifoInv, ~ready, ~ready', UNCHANGED <<given, do_src_fifo, frontier_blkno>>,
         UNCHANGED size_known \/ size_known' = (kind = "regular"), Live' => Live \/ ~UNCHANGED size_known
  PROVE  ScanInv'
<1>1. FifoInv'
  BY DEF FifoInv, given
<1> QED
  BY <1>1 DEF ScanInv, FrontierInv, WindowInv

(* A step that leaves the cache and the frontier alone. *)
LEMMA ScanQuiet ==
  ASSUME Inv, ScanInv, Live, ready, Live', UNCHANGED <<given, blkno, offset, shape, curblkno, frontier_blkno>>,
         \/ pc' = "idle" /\ pc \in {"idle", "lookup"}
         \/ pc' = "lookup" /\ pc = "idle" /\ (cmd = "encode" => want' <= frontier_blkno)
         \/ pc' \in {"skip", "relookup"} /\ pc \in {"seek", "skip"} /\ want' = want
  PROVE  ScanInv'
<1>1. FifoInv'
  BY DEF ScanInv, FifoInv, given, shape
<1>2. FrontierInv'
  BY DEF ScanInv, FrontierInv, given, shape, Missed
<1>3. InUse' = InUse
  BY DEF InUse, shape
<1>4. ASSUME NEW q \in Nat, Window(q) PROVE Window(q)'
  BY <1>3, <1>4 DEF Window, given, shape, Missed
<1>5. WindowInv'
  BY <1>4 DEF ScanInv, WindowInv, shape
<1> QED
  BY <1>1, <1>2, <1>5 DEF ScanInv

(* A step that ends the program. *)
LEMMA ScanFails ==
  ASSUME ScanInv, pc' = "failed", UNCHANGED <<given, shape, frontier_blkno>>
  PROVE  ScanInv'
<1>1. ~Live'
  BY DEF Live
<1>2. FifoInv'
  BY <1>1 DEF ScanInv, FifoInv, given, shape
<1> QED
  BY <1>1, <1>2 DEF ScanInv, FrontierInv, WindowInv

(* The library goes on with the block it has. *)
LEMMA ScanReuse ==
  ASSUME Inv, Inv', ScanInv, Reuse
  PROVE  ScanInv'
<1>1. /\ Live /\ Live' /\ ready /\ pc = "idle" /\ pc' = "idle" /\ cmd = "encode" /\ Wanted(curblkno)
      /\ Frontier(curblkno, onblk)
      /\ UNCHANGED <<given, sfile, cache, shape, current, want>>
  BY DEF Reuse, Inv, PhaseInv, Live
<1>2. curblkno \in Nat /\ onblk = LengthOf(blksize, length, curblkno)
  BY <1>1 DEF Inv, CurrentInv, Keeps
<1>3. frontier_blkno \in Nat /\ frontier_blkno * blksize <= length
  BY <1>1, ScanTypes DEF ScanInv, FrontierInv
<1>4. curblkno <= frontier_blkno
  BY <1>1, <1>2, <1>3, SMT DEF Wanted
<1>5. frontier_blkno' \in {frontier_blkno, curblkno + 1} /\ frontier_blkno' * blksize <= length
  BY <1>1, <1>2, <1>3, <1>4, FrontierMoves
<1>6. FifoInv' /\ FrontierInv'
  BY <1>1, <1>5 DEF ScanInv, FifoInv, FrontierInv, given, shape, Missed
<1>7. ASSUME NEW q \in Nat, Window(q) PROVE Window(q)'
  <2>1. frontier_blkno' <= q
    BY <1>1, <1>2, <1>3, <1>5, <1>7, SMT DEF Window
  <2> QED
    BY <1>1, <1>7, <2>1 DEF Window, InUse, given, sfile, cache, shape, current
<1> QED
  BY <1>1, <1>6, <1>7 DEF ScanInv, WindowInv, shape

(* A block of the window is returned. *)
LEMMA ScanHit ==
  ASSUME Inv, Inv', ScanInv, ready, LookupHit
  PROVE  ScanInv'
<1> DEFINE s == Found(want)
<1>1. /\ Live /\ Live' /\ pc = "lookup" /\ pc' = "idle" /\ Hit(want)
      /\ curblkno' = want /\ Frontier(want, size[s])
      /\ UNCHANGED <<given, sfile, blkno, shape>>
  BY DEF LookupHit, Return, Leave, Live
<1>2. want \in Nat /\ want # NoBlock /\ frontier_blkno \in Nat
  <2>1. want \in Nat /\ frontier_blkno \in Nat
    BY <1>1, ScanTypes
  <2> QED
    BY <2>1, SMT DEF NoBlock
<1>3. s \in InUse /\ blkno[s] = want
  BY <1>1, <1>2, Lookup
<1>4. size[s] = LengthOf(blksize, length, want)
  BY <1>1, <1>2, <1>3 DEF Inv, CacheInv, Keeps
<1> HIDE DEF s
<1>5. ASSUME cmd = "encode"
      PROVE  frontier_blkno' \in {frontier_blkno, want + 1} /\ frontier_blkno' * blksize <= length
  <2>1. frontier_blkno * blksize <= length /\ want <= frontier_blkno
    BY <1>1, <1>5 DEF ScanInv, FrontierInv, Missed
  <2> QED
    BY <1>1, <1>2, <1>4, <1>5, <2>1, FrontierMoves
<1>6. FifoInv' /\ FrontierInv'
  BY <1>1, <1>5 DEF ScanInv, FifoInv, FrontierInv, given, shape, Missed
<1>7. ASSUME NEW q \in Nat, Window(q) PROVE Window(q)'
  <2>1. want < q
    BY <1>2, <1>3, <1>7 DEF Window
  <2>2. cmd = "encode" => frontier_blkno' <= q
    BY <1>2, <1>5, <1>7, <2>1, SMT DEF Window
  <2>3. \A t \in InUse : blkno[t] # NoBlock
    BY <1>1, <1>7 DEF Window, Missed
  <2> QED
    BY <1>1, <1>7, <2>1, <2>2, <2>3 DEF Window, InUse, Missed, given, sfile, shape
<1> QED
  BY <1>1, <1>6, <1>7 DEF ScanInv, WindowInv, shape

(* A slot is given up: the encoder's block is the next of the file. *)
LEMMA ScanMiss ==
  ASSUME Inv, Inv', ScanInv, ready, LookupMiss
  PROVE  ScanInv'
<1> DEFINE v == Victim(want)
<1>1. /\ Live /\ Live' /\ pc = "lookup" /\ ~Hit(want) /\ ~TooFarBack(want)
      /\ blkno' = [blkno EXCEPT ![v] = NoBlock]
      /\ pc' = IF Position = source_position THEN "read" ELSE "seek"
      /\ UNCHANGED <<given, sfile, shape, curblkno, frontier_blkno, want>>
  BY DEF LookupMiss, Live, current, library
<1>2. /\ want \in Nat /\ lru_size \in Nat \ {0} /\ blksize \in Nat \ {0} /\ length \in Nat
      /\ source_position = offset /\ frontier_blkno \in Nat
  BY <1>1, ScanTypes
<1>3. v \in InUse /\ (do_src_fifo => v = want % lru_size)
  BY <1>1, <1>2, Lookup
<1> HIDE DEF v
<1>4. FifoInv' /\ FrontierInv'
  BY <1>1 DEF ScanInv, FifoInv, FrontierInv, given, shape, Missed
<1>5. ASSUME do_src_fifo, NEW q \in Nat, Window(q) PROVE Window(q)'
  <2>1. blkno[want % lru_size] # NoBlock
    BY <1>1, <1>3, <1>5 DEF Window, Missed
  <2>2. q <= want
    BY <1>1, <1>2, <1>5, <2>1, MissIsLater
  <2>3. pc' = "seek" => cmd = "decode"
    <3> SUFFICES ASSUME cmd = "encode" PROVE Position = source_position
      BY <1>1, <1>2, ScanTypes
    <3>1. want <= frontier_blkno /\ frontier_blkno <= q /\ frontier_blkno * blksize <= length
      BY <1>1, <1>5 DEF ScanInv, FrontierInv, Window
    <3>2. want = q /\ frontier_blkno = q
      BY <1>2, <2>2, <3>1, SMT
    <3> QED
      BY <1>1, <1>2, <1>5, <3>1, <3>2, ScanPosition DEF Position
  <2>4. \A t \in InUse : blkno'[t] = IF t = v THEN NoBlock ELSE blkno[t]
    <3>1. \A t \in InUse : t \in Slots
      BY <1>1, SlotFits
    <3> QED
      BY <1>1, <1>3, <3>1 DEF Inv, TypeOK
  <2>5. \A t \in InUse : t # v => blkno[t] # NoBlock
    BY <1>1, <1>5 DEF Window, Missed
  <2> QED
    BY <1>1, <1>2, <1>3, <1>5, <2>2, <2>3, <2>4, <2>5
    DEF Window, InUse, Missed, Position, given, sfile, shape
<1> QED
  BY <1>1, <1>4, <1>5 DEF ScanInv, WindowInv, shape

(* A block is read past. *)
LEMMA ScanSkip ==
  ASSUME Inv, Inv', ScanInv, Skip, pc' = "skip"
  PROVE  ScanInv'
<1> DEFINE s == Taken(SkipBlock)
           n == Nread(blksize)
<1>1. /\ Live /\ Live' /\ ready /\ pc = "skip" /\ source_position < Position
      /\ blkno' = [blkno EXCEPT ![s] = SkipBlock] /\ n = blksize
      /\ offset' = offset + n
      /\ UNCHANGED <<given, shape, curblkno, frontier_blkno, want>>
  BY DEF Skip, Live, Inv, PhaseInv, current, library
<1>2. /\ want \in Nat /\ lru_size \in Nat \ {0} /\ blksize \in Nat \ {0} /\ length \in Nat
      /\ source_position = offset /\ offset \in Nat
  BY <1>1, ScanTypes
<1>3. SkipBlock \in Nat
  BY <1>2, QuotientNat DEF SkipBlock
<1>4. s \in InUse /\ (do_src_fifo => s = SkipBlock % lru_size)
  BY <1>1, <1>3, Lookup
<1>5. FifoInv' /\ FrontierInv'
  BY <1>1 DEF ScanInv, FifoInv, FrontierInv, given, shape, Missed
<1>6. ASSUME do_src_fifo, NEW q \in Nat, Window(q) PROVE Window(q + 1)'
  <2>1. offset < length
    BY <1>1, <1>2, SMT DEF Nread, Smaller
  <2>2. offset = q * blksize
    BY <1>1, <1>6, <2>1, ScanPosition
  <2>3. SkipBlock = q /\ q * blksize <= length
    <3>1. SkipBlock = q
      BY <1>2, <1>6, <2>2, FactorOf DEF SkipBlock
    <3> QED
      BY <1>2, <2>1, <2>2, <3>1, SMT
  <2>4. q < want
    BY <1>1, <1>2, <1>6, <2>2, EarlierBlock DEF Position
  <2>5. q + 1 <= want /\ cmd = "decode" /\ curblkno' <= q
    <3>1. curblkno \in Nat /\ curblkno < q /\ cmd = "decode"
      BY <1>1, <1>6 DEF Window, Inv, CurrentInv
    <3> QED
      BY <1>1, <1>2, <2>4, <3>1, SMT
  <2>6. \A t \in InUse : blkno[t] = NoBlock => pc' \in Missed /\ t = want' % lru_size
    BY <1>1, <1>6 DEF Window, Missed
  <2>7. s = q % lru_size /\ blkno' = [blkno EXCEPT ![s] = q] /\ offset' = offset + Nread(blksize)
    BY <1>1, <1>4, <1>6, <2>3
  <2>8. pc' # "seek"
    OBVIOUS
  <2> HIDE DEF s
  <2> QED
    BY <1>1, <1>4, <1>6, <2>3, <2>5, <2>6, <2>7, <2>8, ScanMoves
<1>7. \A q \in Nat : q + 1 \in Nat
  BY SMT
<1> QED
  BY <1>1, <1>5, <1>6, <1>7 DEF ScanInv, WindowInv, shape

(* The second lookup finds the slot that was given up, or one read past. *)
LEMMA ScanRelookup ==
  ASSUME Inv, Inv', ScanInv, Relookup
  PROVE  ScanInv'
<1> DEFINE v == Victim(want)
<1>1. /\ Live /\ Live' /\ ready /\ pc = "relookup" /\ pc' = "read"
      /\ blkno' = IF Hit(want) THEN blkno ELSE [blkno EXCEPT ![v] = NoBlock]
      /\ UNCHANGED <<given, sfile, shape, curblkno, frontier_blkno, want>>
  BY DEF Relookup, Live, Inv, PhaseInv, current, library
<1>2. want \in Nat /\ lru_size \in Nat \ {0}
  BY <1>1, ScanTypes
<1>3. FifoInv' /\ FrontierInv'
  BY <1>1 DEF ScanInv, FifoInv, FrontierInv, given, shape, Missed
<1>4. ASSUME do_src_fifo, NEW q \in Nat, Window(q) PROVE Window(q)'
  <2>1. q <= want
    BY <1>1, <1>4 DEF Window, Missed
  <2>2. v = want % lru_size /\ (~Hit(want) => v \in InUse)
    BY <1>1, <1>2, <1>4, Lookup
  <2> HIDE DEF v
  <2>3. \A t \in InUse : blkno'[t] = blkno[t] \/ (t = v /\ blkno'[t] = NoBlock)
    <3>1. \A t \in InUse : t \in Slots
      BY <1>1, SlotFits
    <3> QED
      BY <1>1, <2>2, <3>1 DEF Inv, TypeOK
  <2> QED
    BY <1>1, <1>4, <2>1, <2>2, <2>3 DEF Window, InUse, Missed, given, sfile, shape
<1> QED
  BY <1>1, <1>3, <1>4 DEF ScanInv, WindowInv, shape

(* The next block is read and returned. *)
LEMMA ScanRead ==
  ASSUME Inv, Inv', ScanInv, ready, Read
  PROVE  ScanInv'
<1> DEFINE n == Nread(blksize)
<1>1. /\ Live /\ Live' /\ pc = "read" /\ pc' = "idle" /\ blkno' = [blkno EXCEPT ![blru] = want]
      /\ offset' = offset + n /\ curblkno' = want /\ Frontier(want, n)
      /\ UNCHANGED <<given, shape>>
  BY DEF Read, Return, Leave, Live
<1>2. /\ want \in Nat /\ lru_size \in Nat \ {0} /\ blksize \in Nat \ {0} /\ length \in Nat
      /\ source_position = offset /\ offset \in Nat /\ frontier_blkno \in Nat
  BY <1>1, ScanTypes
<1>3. /\ blru \in InUse /\ source_position = Position
      /\ do_src_fifo => blru = want % lru_size
  BY <1>1 DEF Inv, PhaseInv
<1>4. n = LengthOf(blksize, length, want)
  BY <1>2, <1>3 DEF Nread, LengthOf, Position
<1> HIDE DEF n
<1>5. ASSUME cmd = "encode"
      PROVE  frontier_blkno' \in {frontier_blkno, want + 1} /\ frontier_blkno' * blksize <= length
  <2>1. frontier_blkno * blksize <= length /\ want <= frontier_blkno
    BY <1>1, <1>5 DEF ScanInv, FrontierInv, Missed
  <2> QED
    BY <1>1, <1>2, <1>4, <1>5, <2>1, FrontierMoves
<1>6. FifoInv' /\ FrontierInv'
  BY <1>1, <1>5 DEF ScanInv, FifoInv, FrontierInv, given, shape, Missed
<1>7. ASSUME do_src_fifo, NEW q \in Nat, Window(q) PROVE Window(q + 1)'
  <2>1. q <= want
    BY <1>1, <1>7 DEF Window, Missed
  <2>2. want * blksize <= q * blksize /\ want * blksize <= length
    BY <1>1, <1>2, <1>3, <1>7, ScanPosition DEF Position
  <2>3. want = q
    <3>1. CASE q < want
      <4>1. q * blksize + blksize <= want * blksize
        BY <1>2, <3>1, NextMultiple
      <4>2. q * blksize \in Nat /\ want * blksize \in Nat
        BY <1>2, ProductNat
      <4> QED
        BY <1>2, <2>2, <4>1, <4>2, SMT
    <3> QED
      BY <1>2, <2>1, <3>1, SMT
  <2>4. \A t \in InUse : blkno[t] = NoBlock => t = blru
    BY <1>3, <1>7 DEF Window
  <2>5. curblkno' <= q /\ (cmd = "encode" => frontier_blkno' <= q + 1)
    <3>1. cmd = "encode" => frontier_blkno <= q
      BY <1>7 DEF Window
    <3> QED
      BY <1>1, <1>2, <1>5, <2>3, <3>1, SMT
  <2>6. pc' \notin Missed
    BY <1>1 DEF Missed
  <2> QED
    BY <1>1, <1>3, <1>7, <2>2, <2>3, <2>4, <2>5, <2>6, ScanMoves DEF n
<1>8. \A q \in Nat : q + 1 \in Nat
  BY SMT
<1> QED
  BY <1>1, <1>6, <1>7, <1>8 DEF ScanInv, WindowInv, shape

(* The first window is what main_set_source has read. *)
LEMMA ScanSet ==
  ASSUME Inv, Inv', ScanInv, SetSource
  PROVE  ScanInv'
<1> DEFINE known == size_known \/ size[0] < blksize
           total == IF size_known THEN length ELSE size[0]
<1>1. /\ Live /\ Live' /\ ~ready /\ pc = "split" /\ pc' = "idle" /\ ready'
      /\ do_src_fifo' = (do_src_fifo \/ ~known)
      /\ UNCHANGED <<given, offset, curblkno, frontier_blkno>>
  BY DEF SetSource, Inv, PhaseInv, Live
<1>2. /\ do_src_fifo = (cmd = "encode") /\ frontier_blkno = 0 /\ (kind = "regular" => size_known)
      /\ (kind = "fake" => cmd = "decode") /\ (kind = "fake" => length = 0)
  BY <1>1 DEF ScanInv, FifoInv, Inv, PhaseInv
<1>3. /\ lru_size = 1 /\ blksize = option_srcwinsz /\ offset = size[0] /\ curblkno = 0
      /\ size[0] = LengthOf(option_srcwinsz, length, 0) /\ (kind = "fake" \/ blkno[0] = 0)
      /\ length \in Nat
  BY <1>1, ScanTypes DEF Inv, ShapeInv, PhaseInv, Keeps
<1>4. option_srcwinsz \in Nat \ {0} /\ MAX_LRU_SIZE \in Nat \ {0} /\ SplitSize \in Nat \ {0}
  BY MemorySize, SizesAssumption
<1>5. size[0] = Smaller(option_srcwinsz, length)
  <2>1. 0 * option_srcwinsz = 0
    BY <1>4, SMT
  <2> QED
    BY <1>3, <1>4, <2>1, SMT DEF LengthOf, Smaller
<1>6. kind = "fake" => known
  BY <1>2, <1>3, <1>4, <1>5, SMT DEF Smaller
<1>7. FifoInv'
  BY <1>1, <1>2, <1>6 DEF FifoInv, given
<1>8. FrontierInv'
  <2>1. \A b \in Nat : 0 * b = 0
    BY SMT
  <2>2. 0 * blksize' = 0
    BY <1>1, <2>1 DEF Inv, ShapeInv
  <2>3. 0 <= length
    BY <1>3, SMT
  <2>4. frontier_blkno' * blksize' <= length'
    BY <1>1, <1>2, <2>2, <2>3 DEF given
  <2> QED
    BY <1>1, <1>2, <2>3, <2>4 DEF FrontierInv, given, Missed
<1> HIDE DEF known, total
<1>9. ASSUME do_src_fifo', ~known \/ total > option_srcwinsz PROVE Window(MAX_LRU_SIZE)'
  <2>1. /\ blksize' = SplitSize /\ lru_size' = MAX_LRU_SIZE
        /\ blkno' = [s \in Slots |-> IF s = 0 THEN blkno[0] ELSE s]
    BY <1>9 DEF SetSource, known, total
  <2>2. option_srcwinsz <= length /\ offset = option_srcwinsz
    BY <1>3, <1>4, <1>5, <1>9, SMT DEF Smaller, known, total
  <2>3. \A s \in Slots : blkno'[s] = s /\ s \in Nat /\ s < MAX_LRU_SIZE /\ s # NoBlock
    <3>1. length # 0
      BY <1>3, <1>4, <2>2, SMT
    <3>2. blkno[0] = 0
      BY <1>2, <1>3, <3>1
    <3> QED
      BY <1>4, <2>1, <3>2, SMT DEF Slots, NoBlock
  <2>4. InUse' = Slots
    BY <2>1 DEF InUse, Slots
  <2>5. \A s \in Slots : MAX_LRU_SIZE - MAX_LRU_SIZE <= blkno'[s]
    BY <1>4, <2>3, SMT
  <2>6. (MAX_LRU_SIZE - 1) * SplitSize <= length
    <3>1. MAX_LRU_SIZE - 1 \in Nat /\ (MAX_LRU_SIZE - 1) * SplitSize + SplitSize <= option_srcwinsz
      BY <1>4, NextMultiple, SMT DEF option_srcwinsz
    <3>2. (MAX_LRU_SIZE - 1) * SplitSize \in Nat
      BY <1>4, <3>1, ProductNat
    <3> QED
      BY <1>3, <1>4, <2>2, <3>1, <3>2, SMT
  <2>7. offset' = Smaller(MAX_LRU_SIZE * SplitSize, length)
    BY <1>1, <1>4, <2>2 DEF Smaller, option_srcwinsz
  <2>8. curblkno' < MAX_LRU_SIZE /\ frontier_blkno' <= MAX_LRU_SIZE /\ MAX_LRU_SIZE <= MAX_LRU_SIZE
    BY <1>1, <1>2, <1>3, <1>4, SMT
  <2> QED
    BY <1>1, <2>1, <2>3, <2>4, <2>5, <2>6, <2>7, <2>8 DEF Window, Missed, given
<1>10. ASSUME do_src_fifo', ~(~known \/ total > option_srcwinsz) PROVE Window(1)'
  <2>1. UNCHANGED <<blksize, lru_size, blkno>>
    BY <1>10 DEF SetSource, known, total
  <2>2. blkno[0] = 0 /\ InUse' = {0}
    <3>1. 0..1 - 1 = {0}
      BY SMT
    <3> QED
      BY <1>1, <1>2, <1>3, <1>10, <2>1, <3>1 DEF InUse
  <2>3. (1 - 1) * option_srcwinsz <= length /\ 1 * option_srcwinsz = option_srcwinsz
    BY <1>3, <1>4, SMT
  <2>4. 0 # NoBlock /\ 1 - 1 <= 0 /\ 0 < 1 /\ 0 <= 1 /\ 1 <= 1
    BY SMT DEF NoBlock
  <2> QED
    BY <1>1, <1>2, <1>3, <1>5, <2>1, <2>2, <2>3, <2>4 DEF Window, Missed, given
<1>11. WindowInv'
  <2>1. 1 \in Nat
    BY SMT
  <2> QED
    BY <1>4, <1>9, <1>10, <2>1 DEF WindowInv
<1> QED
  BY <1>7, <1>8, <1>11 DEF ScanInv

(* Initially nothing has been read. *)
LEMMA ScanInit == Init => ScanInv
  BY DEF Init, ScanInv, FifoInv, FrontierInv, WindowInv, Live

(* Every step keeps the scan without gaps. *)
LEMMA ScanStep == Inv /\ Inv' /\ ScanInv /\ [Next]_vars => ScanInv'
<1> SUFFICES ASSUME Inv, Inv', ScanInv, [Next]_vars PROVE ScanInv'
  OBVIOUS
<1>1. CASE UNCHANGED vars
  <2>1. UNCHANGED <<given, sfile, cache, shape, current, library, pc, want, blru>>
    BY <1>1 DEF vars
  <2>2. FifoInv' /\ FrontierInv'
    BY <2>1 DEF ScanInv, FifoInv, FrontierInv, Live, given, sfile, shape, library
  <2>3. ASSUME NEW q \in Nat, Window(q) PROVE Window(q)'
    BY <2>1, <2>3 DEF Window, InUse, Position, given, sfile, cache, shape, current, library
  <2>4. WindowInv'
    BY <2>1, <2>3 DEF ScanInv, WindowInv, Live, shape
  <2> QED
    BY <2>2, <2>4 DEF ScanInv
<1>2. CASE OpenFails \/ ReadFails
  BY <1>2, ScanFails DEF OpenFails, ReadFails, library
<1>3. CASE OpenSource
  <2>1. ~ready /\ ~ready' /\ UNCHANGED <<given, do_src_fifo, frontier_blkno>>
        /\ size_known' = (kind = "regular")
    BY <1>3 DEF OpenSource, Inv, PhaseInv, library
  <2>2. FifoInv'
    BY <2>1 DEF ScanInv, FifoInv, given
  <2> QED
    BY <2>1, <2>2 DEF ScanInv, FrontierInv, WindowInv
<1>4. ASSUME NEW b \in 0..MaxBlock, Request(b) PROVE ScanInv'
  <2>1. /\ Live /\ Live' /\ ready /\ pc = "idle" /\ pc' = "lookup" /\ want' = b /\ Wanted(b)
        /\ UNCHANGED <<given, blkno, offset, shape, curblkno, frontier_blkno>>
    BY <1>4 DEF Request, Inv, PhaseInv, Live, sfile, cache, current, library
  <2>2. cmd = "encode" => b <= frontier_blkno
    BY <2>1, <1>4, ScanTypes, SizesAssumption, SMT DEF Wanted
  <2> QED
    BY <2>1, <2>2, ScanQuiet
<1>5. CASE /\ ~ready /\ (LookupFake \/ LookupHit \/ LookupRefused \/ LookupMiss \/ Read)
  <2>1. /\ ~ready' /\ Live /\ UNCHANGED <<given, do_src_fifo, size_known, frontier_blkno>>
    BY <1>5 DEF LookupFake, LookupHit, LookupRefused, LookupMiss, Read, Return, ReturnTooFarBack,
       shape, sfile, library, Live
  <2> QED
    BY <1>5, <2>1, ScanUnset DEF ScanInv
<1>6. CASE ready /\ LookupFake
  <2>1. ~do_src_fifo /\ cmd = "decode" /\ Live
    BY <1>6 DEF ScanInv, FifoInv, LookupFake, Live
  <2>2. UNCHANGED <<given, shape>>
    BY <1>6 DEF LookupFake
  <2> QED
    BY <1>6, <2>1, <2>2 DEF ScanInv, FifoInv, FrontierInv, WindowInv, given, shape
<1>7. CASE LookupRefused /\ ready
  <2>1. /\ Live /\ ready /\ pc = "lookup" /\ pc' \in {"idle", "failed"}
        /\ UNCHANGED <<given, blkno, offset, shape, curblkno, frontier_blkno>>
    BY <1>7 DEF LookupRefused, ReturnTooFarBack, Leave, Live, sfile, cache, current, library
  <2>2. CASE pc' = "failed"
    BY <2>1, <2>2, ScanFails
  <2>3. CASE pc' = "idle"
    BY <2>1, <2>3, ScanQuiet DEF Live
  <2> QED
    BY <2>1, <2>2, <2>3
<1>8. CASE Seek
  <2>1. /\ Live /\ Live' /\ ready /\ ready' /\ kind = "regular" /\ pc = "seek" /\ pc' = "relookup"
        /\ UNCHANGED <<given, shape, frontier_blkno, want>>
    BY <1>8 DEF Seek, Inv, PhaseInv, Live, library
  <2>2. ~do_src_fifo
    BY <2>1 DEF ScanInv, WindowInv, FifoInv, Window
  <2> QED
    BY <2>1, <2>2 DEF ScanInv, FifoInv, FrontierInv, WindowInv, given, shape, Missed
<1>9. CASE SeekFails
  <2>1. /\ Live /\ ready /\ pc = "seek"
        /\ UNCHANGED <<given, blkno, offset, shape>>
    BY <1>9 DEF SeekFails, Inv, PhaseInv, Live, cache
  <2>2. CASE pc' = "skip" /\ UNCHANGED <<current, library, want, blru>>
    BY <2>1, <2>2, ScanQuiet DEF Live, current, library
  <2>3. CASE ReturnTooFarBack /\ source_position > Position
    <3>1. UNCHANGED <<curblkno, frontier_blkno>> /\ pc' \in {"idle", "failed"}
      BY <2>3 DEF ReturnTooFarBack, Leave, current, library
    <3>2. ~do_src_fifo
      <4> SUFFICES ASSUME NEW q \in Nat, Window(q) PROVE FALSE
        BY <2>1 DEF ScanInv, WindowInv
      <4>1. blksize \in Nat /\ want \in Nat /\ offset \in Nat /\ source_position = offset
        BY <2>1, ScanTypes
      <4>2. q <= want /\ offset <= q * blksize
        BY <2>1, ScanPosition DEF Window, Missed
      <4>3. q * blksize <= want * blksize
        <5>1. q * blksize \in Nat /\ want * blksize \in Nat
          BY <4>1, ProductNat
        <5>2. CASE q < want
          BY <4>1, <5>1, <5>2, NextMultiple, SMT
        <5> QED
          BY <4>1, <4>2, <5>1, <5>2, SMT
      <4> QED
        BY <2>3, <4>1, <4>2, <4>3, ProductNat, SMT DEF Position
    <3> QED
      BY <2>1, <3>1, <3>2 DEF ScanInv, FifoInv, FrontierInv, WindowInv, given, shape
  <2> QED
    BY <1>9, <2>2, <2>3 DEF SeekFails
<1>10. CASE Skip
  <2>1. CASE pc' = "failed"
    BY <1>10, <2>1, ScanFails DEF Skip, library
  <2> QED
    BY <1>10, <2>1, ScanSkip DEF Skip
<1>11. CASE SkipDone
  <2>1. /\ Live /\ Live' /\ ready /\ pc = "skip" /\ pc' = "relookup" /\ want' = want
        /\ UNCHANGED <<given, blkno, offset, shape, curblkno, frontier_blkno>>
    BY <1>11 DEF SkipDone, Inv, PhaseInv, Live, sfile, cache, current, library
  <2> QED
    BY <2>1, ScanQuiet
<1> QED
  BY <1>1, <1>2, <1>3, <1>4, <1>5, <1>6, <1>7, <1>8, <1>9, <1>10, <1>11, ScanReuse, ScanSet, ScanHit,
     ScanMiss, ScanRelookup, ScanRead DEF Next, Serve, Fault

(* In every state the blocks were read without a gap. *)
THEOREM ScanCorrect == Spec => []ScanInv
  BY ScanInit, ScanStep, InvCorrect, PTL DEF Spec

(* For every number and size of buffers and every source, FIFO's direct    *)
(* lookup refuses no block within the source window of the last one read,  *)
(* is never refused one that main_read_seek_source reads past, and makes   *)
(* no encoder seek.                                                        *)
THEOREM WindowIsKept == Spec => []WindowKept
<1>1. Inv /\ ScanInv => WindowKept
  <2> SUFFICES ASSUME Inv, ScanInv, do_src_fifo
               PROVE  /\ pc = "idle" => \A s, t \in InUse : blkno[t] - blkno[s] < lru_size
                      /\ pc \in {"skip", "relookup"} =>
                           ~TooFarBack(IF pc = "skip" THEN SkipBlock ELSE want)
                      /\ pc = "seek" => cmd = "decode" /\ source_position < Position
    BY DEF WindowKept
  <2> SUFFICES ASSUME pc \in {"idle", "seek", "skip", "relookup"}
               PROVE  /\ pc = "idle" => \A s, t \in InUse : blkno[t] - blkno[s] < lru_size
                      /\ pc \in {"skip", "relookup"} =>
                           ~TooFarBack(IF pc = "skip" THEN SkipBlock ELSE want)
                      /\ pc = "seek" => cmd = "decode" /\ source_position < Position
    OBVIOUS
  <2>1. Live /\ ready
    BY DEF Live, Inv, PhaseInv
  <2>2. PICK q \in Nat : Window(q)
    BY <2>1 DEF ScanInv, WindowInv
  <2>3. /\ lru_size \in Nat \ {0} /\ blksize \in Nat \ {0} /\ want \in Nat /\ offset \in Nat
        /\ source_position = offset /\ \A s \in InUse : blkno[s] \in Nat \cup {NoBlock}
    BY <2>1, ScanTypes
  <2>4. ASSUME pc = "idle", NEW s \in InUse, NEW t \in InUse PROVE blkno[t] - blkno[s] < lru_size
    <3>1. blkno[s] \in Nat /\ q - lru_size <= blkno[s] /\ blkno[t] \in Nat /\ blkno[t] < q
      BY <2>2, <2>3, <2>4 DEF Window, Missed
    <3> QED
      BY <2>3, <3>1, SMT
  <2>5. ASSUME pc \in Missed PROVE Position \in Nat /\ offset <= Position /\ q <= want
    <3>1. q <= want /\ offset <= q * blksize
      BY <2>1, <2>2, <2>5, ScanPosition DEF Window
    <3>2. q * blksize \in Nat /\ want * blksize \in Nat
      BY <2>3, ProductNat
    <3>3. CASE q < want
      BY <2>3, <3>1, <3>2, <3>3, NextMultiple, SMT DEF Position
    <3> QED
      BY <2>3, <3>1, <3>2, <3>3, SMT DEF Position
  <2>6. ASSUME NEW b \in Nat, q <= b + 1 PROVE ~TooFarBack(b)
    <3>1. Index(b) \in InUse
      BY <2>3, SMT DEF Index, InUse
    <3>2. blkno[Index(b)] \in Nat => blkno[Index(b)] < q
      BY <2>2, <3>1, SMT DEF Window, NoBlock
    <3> QED
      BY <2>3, <2>6, <3>1, <3>2, SMT DEF TooFarBack
  <2>7. pc = "skip" => ~TooFarBack(SkipBlock)
    <3>1. SkipBlock \in Nat
      BY <2>3, QuotientNat DEF SkipBlock
    <3>2. q <= SkipBlock + 1
      <4>1. q \in Nat \ {0} /\ (q - 1) * blksize <= offset
        <5>1. q \in Nat \ {0} /\ (q - 1) * blksize <= length
          BY <2>2, <2>3, SMT DEF Window
        <5>2. (q - 1) * blksize \in Nat /\ q * blksize = (q - 1) * blksize + blksize /\ length \in Nat
          BY <2>1, <2>3, <5>1, ScanTypes, ProductNat, SMT
        <5>3. offset = length \/ offset = q * blksize
          BY <2>2 DEF Window, Smaller
        <5> QED
          BY <2>3, <5>1, <5>2, <5>3, SMT
      <4>2. offset = SkipBlock * blksize + (offset % blksize) /\ offset % blksize \in 0..blksize - 1
        BY <2>3, Division DEF SkipBlock
      <4>3. CASE SkipBlock < q - 1
        <5>1. SkipBlock * blksize + blksize <= (q - 1) * blksize
          BY <2>3, <3>1, <4>1, <4>3, NextMultiple, SMT
        <5>2. SkipBlock * blksize \in Nat /\ (q - 1) * blksize \in Nat
          BY <2>3, <3>1, <4>1, ProductNat, SMT
        <5> QED
          BY <2>3, <4>1, <4>2, <5>1, <5>2, SMT
      <4> QED
        BY <3>1, <4>1, <4>3, SMT
    <3> QED
      BY <2>6, <3>1, <3>2
  <2>8. pc = "relookup" => ~TooFarBack(want)
    BY <2>3, <2>5, <2>6, SMT DEF Missed
  <2>9. pc = "seek" => cmd = "decode" /\ source_position < Position
    <3>1. pc = "seek" => source_position # Position
      BY <2>2, <2>3 DEF Window
    <3> QED
      BY <2>2, <2>3, <2>5, <3>1, SMT DEF Window, Missed
  <2> QED
    BY <2>4, <2>7, <2>8, <2>9
<1> QED
  BY <1>1, InvCorrect, ScanCorrect, PTL

-----------------------------------------------------------------------------
(* The cache implements SourceFile.                                        *)

View(m, bs, s, n) == [i \in 0..n - 1 |-> m[s * bs + i]]

(* What can be read of a slot that keeps a block is that block. *)
LEMMA ViewIsBlock ==
  ASSUME NEW m, NEW bs \in Nat, length \in Nat, NEW s, NEW b \in Nat, NEW n,
         Keeps(m, bs, length, s, b, n)
  PROVE  View(m, bs, s, n) = Promise!FileBlock(b, bs)
<1>1. PICK at \in Nat : at = b * bs
  BY ProductNat
<1>2. n \in Nat /\ n = Smaller(bs, IF at < length THEN length - at ELSE 0)
  BY <1>1, SMT DEF Keeps, LengthOf, Smaller
<1>3. 0..n - 1 = Promise!BlockSpan(b, bs)
  <2>1. \A i \in 0..bs - 1 : at + i < length <=> i <= n - 1
    BY <1>1, <1>2, SMT DEF Smaller
  <2>2. n <= bs
    BY <1>2, SMT DEF Smaller
  <2>3. 0..n - 1 = {i \in 0..bs - 1 : at + i < length}
    BY <1>2, <2>1, <2>2, SMT
  <2> QED
    BY <1>1, <2>3 DEF Promise!BlockSpan
<1>4. \A i \in 0..n - 1 : m[s * bs + i] = b * bs + i
  BY DEF Keeps
<1> QED
  BY <1>3, <1>4, Zenon DEF View, Promise!FileBlock
(* A step of a request that is not the last is none of the promise. *)
LEMMA Unanswered ==
  ASSUME ready, ready', pc # "idle", pc' # "idle",
         UNCHANGED <<length, blksize, curblkno, want>>
  PROVE  UNCHANGED Promise!svars
  BY DEF Promise!svars

(* The request is answered, or refused. *)
LEMMA Answering ==
  ASSUME Inv, Inv', ready, ready', pc \notin {"idle", "unset", "failed"}, pc' = "idle",
         UNCHANGED <<length, blksize>>, curblkno' \in {want, curblkno}
  PROVE  Promise!SNext
<1>1. want \in Nat /\ want # -1
  <2>1. want \in Nat
    BY DEF Inv, TypeOK
  <2> QED
    BY <2>1, SMT
<1>2. View(mem', blksize', curblk', onblk') = Promise!FileBlock(curblkno', blksize)
  <2>1. blksize \in Nat /\ length \in Nat
    BY SizesAssumption, SMT DEF Inv, ShapeInv, Live, TypeOK
  <2>2. curblkno' \in Nat /\ Keeps(mem', blksize, length, curblk', curblkno', onblk')
    BY DEF Inv, CurrentInv
  <2> QED
    BY <2>1, <2>2, ViewIsBlock
<1>3. CASE curblkno' = want
  BY <1>1, <1>2, <1>3 DEF Promise!SNext, Promise!Answer, View
<1>4. CASE curblkno' = curblkno
  BY <1>1, <1>2, <1>4 DEF Promise!SNext, Promise!Refuse, View
<1> QED
  BY <1>3, <1>4

(* Every step of the cache is a step of the promise or changes nothing it  *)
(* speaks of.                                                              *)
LEMMA RefinementStep ==
  ASSUME Inv, Inv', [Next]_vars
  PROVE  [Promise!SNext]_(Promise!svars)
<1>1. CASE UNCHANGED vars
  BY <1>1 DEF vars, given, sfile, cache, shape, current, Promise!svars
<1>2. CASE OpenFails \/ OpenSource
  <2>1. ~ready /\ ~ready' /\ length' = length
    BY <1>2 DEF OpenFails, OpenSource, Inv, PhaseInv, given, shape
  <2> QED
    BY <2>1 DEF Promise!svars
<1>3. CASE SetSource
  <2>1. /\ ~ready /\ ready' /\ pc' = "idle" /\ curblkno = 0 /\ curblkno' = 0 /\ length' = length
    BY <1>3 DEF SetSource, Inv, PhaseInv, given
  <2>2. blksize' \in Nat /\ length \in Nat
    BY <2>1, SizesAssumption, SMT DEF Inv, ShapeInv, Live, TypeOK
  <2>3. Keeps(mem', blksize', length, curblk', 0, onblk')
    BY <2>1 DEF Inv, CurrentInv
  <2>4. View(mem', blksize', curblk', onblk') = Promise!FileBlock(0, blksize')
    BY <2>2, <2>3, ViewIsBlock
  <2> QED
    BY <2>1, <2>4 DEF Promise!SNext, Promise!Set, View
<1>4. CASE Reuse
  BY <1>4 DEF Reuse, given, cache, shape, current, Promise!svars
<1>5. ASSUME NEW b \in 0..MaxBlock, Request(b)
      PROVE  Promise!SNext
  <2>1. /\ ready /\ ready' /\ pc = "idle" /\ pc' = "lookup" /\ want' = b
        /\ UNCHANGED <<length, blksize, curblkno>>
    BY <1>5 DEF Request, Inv, PhaseInv, given, shape, current
  <2>2. b \in Nat /\ curblkno # -1
    BY <1>5, <2>1, SizesAssumption, SMT DEF Inv, CurrentInv
  <2> QED
    BY <2>1, <2>2 DEF Promise!SNext, Promise!Ask, Promise!Nothing
<1>6. CASE LookupFake \/ LookupHit \/ Read
  <2>1. PICK slot, n : /\ pc \in {"lookup", "read"} /\ Return(slot, n)
                       /\ UNCHANGED <<length, blksize, ready>>
    BY <1>6 DEF LookupFake, LookupHit, Read, given, shape
  <2>2. CASE ready
    BY <2>1, <2>2, Answering DEF Return, Leave
  <2>3. CASE ~ready
    BY <2>1, <2>3 DEF Promise!svars
  <2> QED
    BY <2>2, <2>3
<1>7. CASE LookupRefused \/ (SeekFails /\ ReturnTooFarBack)
  <2>1. /\ pc \in {"lookup", "seek"} /\ ReturnTooFarBack
        /\ UNCHANGED <<length, blksize, ready, curblkno>>
    BY <1>7 DEF LookupRefused, SeekFails, ReturnTooFarBack, given, shape, current
  <2>2. CASE ready /\ pc' = "idle"
    BY <2>1, <2>2, Answering
  <2>3. CASE ready /\ pc' = "failed" /\ want' = want
    BY <2>1, <2>3, Unanswered
  <2>4. CASE ~ready
    BY <2>1, <2>4 DEF Promise!svars
  <2> QED
    BY <2>1, <2>2, <2>3, <2>4 DEF ReturnTooFarBack, Leave
<1>8. CASE \/ LookupMiss \/ Seek \/ Skip \/ SkipDone \/ Relookup \/ ReadFails
           \/ SeekFails /\ ~ReturnTooFarBack
  <2>1. pc # "idle" /\ pc' # "idle" /\ UNCHANGED <<length, blksize, ready, curblkno, want>>
    BY <1>8 DEF LookupMiss, Seek, Skip, SkipDone, Relookup, ReadFails, SeekFails, given, shape, current
  <2>2. CASE ready
    BY <2>1, <2>2, Unanswered
  <2>3. CASE ~ready
    BY <2>1, <2>3 DEF Promise!svars
  <2> QED
    BY <2>2, <2>3
<1> QED
  BY <1>1, <1>2, <1>3, <1>4, <1>5, <1>6, <1>7, <1>8 DEF Next, Serve, Fault

(* Whatever main_getblk_func caches, evicts, skips or refuses, what the    *)
(* library reads are the blocks of the source file.                        *)
THEOREM CacheServesFile == Spec => ServesFile
<1>1. Init => Promise!SInit
  BY DEF Init, Promise!SInit, Promise!Nothing
<1>2. Inv /\ Inv' /\ [Next]_vars => [Promise!SNext]_(Promise!svars)
  BY RefinementStep
<1> QED
  BY <1>1, <1>2, InvCorrect, PTL DEF Spec, ServesFile, Promise!SSpec
=============================================================================
