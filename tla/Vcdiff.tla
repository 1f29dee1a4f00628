------------------------------- MODULE Vcdiff -------------------------------
(***************************************************************************)
(* The VCDIFF format as xdelta3 reads and writes it: integers, the         *)
(* instruction code table, the address cache, instruction encoding, the    *)
(* window header and the checksum.  These are the definitions the encoder  *)
(* and the decoder share.                                                  *)
(*                                                                         *)
(* A byte is a number of 0 .. 255 and a file a sequence of bytes.  The     *)
(* base of the variable-length integers (128), the words they must fit in  *)
(* (2^32, 2^64) and the page of the same cache (256) are constants, so     *)
(* that their boundaries lie within reach of a small instance.             *)
(***************************************************************************)
EXTENDS Integers, Sequences, SequencesExt

CONSTANTS
  Base,     \* an integer's digits: 128
  Word,     \* the values of a usize_t: 2^32
  XWord,    \* the values of an xoff_t: 2^64
  Page      \* addresses of one mode of the same cache: 256

ASSUME BaseAssumption == Base \in Nat \ {0, 1} /\ Base <= 128
ASSUME WordAssumption == /\ Word \in Nat /\ Word % Base = 0 /\ Word > Base
                         /\ XWord \in Nat /\ XWord % Base = 0 /\ XWord >= Word
ASSUME PageAssumption == Page \in Nat \ {0} /\ Page <= 256

-----------------------------------------------------------------------------
(* Instruction types; a copy's type is XD3_CPY plus its address mode. *)
XD3_NOOP == 0
XD3_ADD == 1
XD3_RUN == 2
XD3_CPY == 3

VCD_SELF == 0
VCD_HERE == 1

MIN_MATCH == 4
MIN_ADD == 1
MAX_MATCH_SPLIT == 18

(* Window and header indicator bits, as sets. *)
VCD_SOURCE == 1
VCD_TARGET == 2
VCD_ADLER32 == 4
VCD_SECONDARY == 1
VCD_CODETABLE == 2
VCD_APPHEADER == 4

Bit(n, b) == (n \div b) % 2 = 1

Magic == <<214, 195, 196, 0>>

-----------------------------------------------------------------------------
(* Integers: digits of Base, the most significant first, all but the last  *)
(* with Base added.                                                        *)
Digits[n \in Nat] ==
  IF n < Base THEN <<n>> ELSE Append(Digits[n \div Base], n % Base)

EmitInteger(num) ==
  LET d == Digits[num]
  IN [i \in DOMAIN d |-> IF i = Len(d) THEN d[i] ELSE d[i] + Base]

(* The sizes are those of 1 .. 4 digits, and 5 for all the others. *)
SizeofSize(num) ==
  LET fit == {k \in 1 .. 4 : num < Base ^ k}
  IN IF fit = {} THEN 5 ELSE Min(fit)

(* Reading continues `part', what earlier input has given.  A `part' whose *)
(* next digit would not fit in the word is refused.                        *)
DecodeInteger(part, in, word) ==
  LET go[i \in 1 .. Len(in) + 1] == [p \in Nat |->
        IF i > Len(in) THEN [ret |-> "XD3_INPUT", part |-> p, used |-> Len(in)]
        ELSE IF p >= word \div Base
        THEN [ret |-> "XD3_INVALID_INPUT", part |-> p, used |-> i]
        ELSE IF in[i] < Base
        THEN [ret |-> "ok", val |-> p * Base + in[i], part |-> 0, used |-> i]
        ELSE go[i + 1][p * Base + (in[i] % Base)]]
  IN go[1][part]

(* Within a section the integer must end before the section does. *)
ReadInteger(in) ==
  LET r == DecodeInteger(0, in, Word)
  IN IF r.ret = "ok" THEN r ELSE [ret |-> "XD3_INVALID_INPUT", used |-> r.used]

-----------------------------------------------------------------------------
(* A code table gives each opcode two half instructions. *)
Rfc3284Desc ==
  [add_sizes |-> 17, near_modes |-> 4, same_modes |-> 3, cpy_sizes |-> 15,
   addcopy_add_max |-> 4, addcopy_near_cpy_max |-> 6, addcopy_same_cpy_max |-> 4,
   copyadd_add_max |-> 1, copyadd_near_cpy_max |-> 4, copyadd_same_cpy_max |-> 4,
   addcopy_max_sizes |-> [m \in 0 .. 8 |->
      IF m < 6 THEN [cpy_max |-> 6, offset |-> 163 + 12 * m, mult |-> 3]
               ELSE [cpy_max |-> 4, offset |-> 235 + 4 * (m - 6), mult |-> 1]],
   copyadd_max_sizes |-> [m \in 0 .. 8 |->
      [cpy_max |-> 4, offset |-> 247 + m, mult |-> 1]]]

AlternateDesc ==
  [add_sizes |-> 23, near_modes |-> 5, same_modes |-> 0, cpy_sizes |-> 17,
   addcopy_add_max |-> 4, addcopy_near_cpy_max |-> 6, addcopy_same_cpy_max |-> 0,
   copyadd_add_max |-> 3, copyadd_near_cpy_max |-> 4, copyadd_same_cpy_max |-> 0,
   addcopy_max_sizes |-> [m \in 0 .. 8 |->
      IF m < 7 THEN [cpy_max |-> 6, offset |-> 151 + 12 * m, mult |-> 3]
               ELSE [cpy_max |-> 0, offset |-> 0, mult |-> 0]],
   copyadd_max_sizes |-> [m \in 0 .. 8 |->
      IF m < 7 THEN [cpy_max |-> 4, offset |-> 235 + 3 * m, mult |-> 1]
               ELSE [cpy_max |-> 0, offset |-> 0, mult |-> 0]]]

Dinst(t1, s1, t2, s2) == [type1 |-> t1, size1 |-> s1, type2 |-> t2, size2 |-> s2]
Single(t, s) == Dinst(t, s, XD3_NOOP, 0)

(* The opcodes in order: run, adds, copies of each mode, add-copy pairs,   *)
(* copy-add pairs.                                                         *)
BuildCodeTable(desc) ==
  LET modes == 2 + desc.near_modes + desc.same_modes
      ForModes(Of(_)) == FlattenSeq([m \in 1 .. modes |-> Of(m - 1)])
      Max2(m, near, same) == IF m < 2 + desc.near_modes THEN near ELSE same
      Upto(lo, hi, Of(_)) == [k \in 1 .. (hi - lo + 1) |-> Of(lo + k - 1)]
      Adds == Upto(0, desc.add_sizes, LAMBDA s : Single(XD3_ADD, s))
      Copies(m) ==
        <<Single(XD3_CPY + m, 0)>>
          \o Upto(MIN_MATCH, MIN_MATCH + desc.cpy_sizes - 1,
                  LAMBDA s : Single(XD3_CPY + m, s))
      AddCopies(m) ==
        FlattenSeq(Upto(1, desc.addcopy_add_max, LAMBDA a :
          Upto(MIN_MATCH, Max2(m, desc.addcopy_near_cpy_max, desc.addcopy_same_cpy_max),
               LAMBDA c : Dinst(XD3_ADD, a, XD3_CPY + m, c))))
      CopyAdds(m) ==
        FlattenSeq(Upto(MIN_MATCH, Max2(m, desc.copyadd_near_cpy_max, desc.copyadd_same_cpy_max),
          LAMBDA c : Upto(1, desc.copyadd_add_max,
               LAMBDA a : Dinst(XD3_CPY + m, c, XD3_ADD, a))))
      tbl == <<Single(XD3_RUN, 0)>> \o Adds
               \o ForModes(Copies) \o ForModes(AddCopies) \o ForModes(CopyAdds)
  IN [code \in 0 .. 255 |-> tbl[code + 1]]

Rfc3284Table == BuildCodeTable(Rfc3284Desc)

(* The choice of opcodes: `code1' encodes inst alone, a nonzero `code2'    *)
(* prev and inst together.  A prev of type XD3_NOOP stands for none.       *)
ChooseInstructionBy(desc, prev, inst) ==
  LET mode == inst.type - XD3_CPY
      pmode == prev.type - XD3_CPY
      Pair(sizes, n1, n2) == sizes.offset + sizes.mult * n1 + n2
      CopyAdd ==
        IF /\ inst.size <= desc.add_sizes
           /\ pmode >= 0 /\ inst.size <= desc.copyadd_add_max
           /\ prev.size <= desc.copyadd_max_sizes[pmode].cpy_max
        THEN Pair(desc.copyadd_max_sizes[pmode], prev.size - MIN_MATCH, inst.size - MIN_ADD)
        ELSE 0
      Immediate == inst.size \in MIN_MATCH .. (MIN_MATCH + desc.cpy_sizes - 1)
      AddCopy ==
        IF /\ Immediate /\ prev.type = XD3_ADD /\ prev.size <= desc.addcopy_add_max
           /\ inst.size <= desc.addcopy_max_sizes[mode].cpy_max
        THEN Pair(desc.addcopy_max_sizes[mode], prev.size - MIN_ADD, inst.size - MIN_MATCH)
        ELSE 0
  IN CASE inst.type = XD3_RUN -> [code1 |-> 0, code2 |-> 0]
       [] inst.type = XD3_ADD ->
            [code1 |-> IF inst.size > desc.add_sizes THEN 1 ELSE 1 + inst.size,
             code2 |-> CopyAdd]
       [] OTHER ->
            [code1 |-> 2 + desc.add_sizes + (1 + desc.cpy_sizes) * mode
                         + IF Immediate THEN inst.size + 1 - MIN_MATCH ELSE 0,
             code2 |-> AddCopy]

(* The same, hard-coded for the default table: the version in use. *)
ChooseInstruction(prev, inst) ==
  LET mode == inst.type - XD3_CPY
      short == inst.size <= 18 /\ inst.size >= 4
      afterAdd == short /\ prev.type = XD3_ADD /\ prev.size <= 4
  IN CASE inst.type = XD3_RUN -> [code1 |-> 0, code2 |-> 0]
       [] inst.type = XD3_ADD ->
            [code1 |-> IF inst.size <= 17 THEN 1 + inst.size ELSE 1,
             code2 |-> IF inst.size = 1 /\ prev.size = 4 /\ prev.type >= XD3_CPY
                       THEN 247 + (prev.type - XD3_CPY) ELSE 0]
       [] OTHER ->
            [code1 |-> 19 + 16 * mode + IF short THEN inst.size - 3 ELSE 0,
             code2 |->
               IF afterAdd /\ inst.size <= 6 /\ mode <= 5
               THEN 163 + mode * 12 + 3 * (prev.size - 1) + (inst.size - 4)
               ELSE IF afterAdd /\ inst.size = 4 /\ mode >= 6
               THEN 235 + (mode - 6) * 4 + (prev.size - 1)
               ELSE 0]

-----------------------------------------------------------------------------
(* A code table as the string of six rows of 256 that VCDIFF carries. *)
CodeTableString(table) ==
  LET T(t) == IF t >= XD3_CPY THEN XD3_CPY ELSE t
      M(t) == IF t >= XD3_CPY THEN t - XD3_CPY ELSE 0
      Row(d) == <<T(d.type1), T(d.type2), d.size1, d.size2, M(d.type1), M(d.type2)>>
  IN [k \in 1 .. 6 * 256 |-> Row(table[(k - 1) % 256])[((k - 1) \div 256) + 1]]

TableStringValid(str, modes) ==
  LET At(row, i) == str[row * 256 + i + 1]
  IN \A i \in 0 .. 255 :
       /\ At(0, i) <= XD3_CPY /\ At(1, i) <= XD3_CPY
       /\ \A half \in {0, 1} :
            /\ At(2 + half, i) # 0 => At(half, i) # XD3_NOOP
            /\ At(4 + half, i) < modes
            /\ At(4 + half, i) # 0 => At(half, i) = XD3_CPY

ApplyTableString(str) ==
  [i \in 0 .. 255 |->
     Dinst(str[i + 1] + str[4 * 256 + i + 1], str[2 * 256 + i + 1],
           str[256 + i + 1] + str[5 * 256 + i + 1], str[3 * 256 + i + 1])]

-----------------------------------------------------------------------------
(* The address cache: the last s_near addresses in turn, and of every      *)
(* address the last one of the same remainder.                             *)
InitCache(s_near, s_same) ==
  [near |-> [i \in 0 .. s_near - 1 |-> 0], next_slot |-> 0,
   same |-> [i \in 0 .. s_same * Page - 1 |-> 0]]

SNear(c) == Cardinality(DOMAIN c.near)
SSame(c) == Cardinality(DOMAIN c.same) \div Page

UpdateCache(c, addr) ==
  [near |-> IF SNear(c) = 0 THEN c.near ELSE [c.near EXCEPT ![c.next_slot] = addr],
   next_slot |-> IF SNear(c) = 0 THEN c.next_slot ELSE (c.next_slot + 1) % SNear(c),
   same |-> IF SSame(c) = 0 THEN c.same
            ELSE [c.same EXCEPT ![addr % (SSame(c) * Page)] = addr]]

(* The first mode whose value takes one digit, or that of the smallest     *)
(* value; the same cache is asked only when no value takes one digit.      *)
BestMode(c, addr, here) ==
  FoldLeft(LAMBDA best, x : IF best.d < Base \/ x.d < 0 \/ x.d >= best.d THEN best ELSE x,
           [d |-> addr, m |-> VCD_SELF],
           <<[d |-> here - addr, m |-> VCD_HERE]>>
             \o [i \in 1 .. SNear(c) |-> [d |-> addr - c.near[i - 1], m |-> i + 1]])

AddressBytes(c, addr, best, slot) ==
  IF best.d >= Base /\ SSame(c) > 0 /\ c.same[slot] = addr
  THEN [bytes |-> <<slot % Page>>, mode |-> SNear(c) + 2 + (slot \div Page),
        cache |-> UpdateCache(c, addr)]
  ELSE [bytes |-> EmitInteger(best.d), mode |-> best.m, cache |-> UpdateCache(c, addr)]

EncodeAddress(c, addr, here) ==
  AddressBytes(c, addr, BestMode(c, addr, here),
               IF SSame(c) = 0 THEN 0 ELSE addr % (SSame(c) * Page))

(* The address a mode and the bytes of the address section stand for; the  *)
(* caller then enters it into the cache.                                   *)
DecodeAddress(c, here, mode, in) ==
  LET FromInteger(r) ==
        IF r.ret # "ok" THEN r
        ELSE [ret |-> "ok", used |-> r.used,
              val |-> CASE mode = VCD_SELF -> r.val
                        [] mode = VCD_HERE -> (here - r.val) % Word
                        [] OTHER -> (r.val + c.near[mode - 2]) % Word]
  IN IF mode < 2 + SNear(c) THEN FromInteger(ReadInteger(in))
     ELSE IF in = <<>> THEN [ret |-> "XD3_INVALID_INPUT"]
     ELSE [ret |-> "ok", val |-> c.same[(mode - 2 - SNear(c)) * Page + (in[1] % Page)], used |-> 1]

-----------------------------------------------------------------------------
(* Adler-32, the pair of its two halves: the sum of the bytes, and the sum *)
(* of these sums.  Both start from 1 and 0.                                *)
A32_BASE == 65521

Total(numbers) == FoldLeft(LAMBDA sum, b : sum + b, 0, numbers)

Adler32(buf) ==
  LET n == Len(buf)
  IN <<(1 + Total(buf)) % A32_BASE,
       (n + Total([i \in 1 .. n |-> (n - i + 1) * buf[i]])) % A32_BASE>>

AdlerBytes(a) == <<(a[2] \div 256), a[2] % 256, a[1] \div 256, a[1] % 256>>

(* The length of the run that ends a segment. *)
Comprun(seg) ==
  LET starts == {i \in DOMAIN seg : \A j \in i .. Len(seg) : seg[j] = seg[Len(seg)]}
  IN IF seg = <<>> THEN 0 ELSE Len(seg) - Min(starts) + 1

(* Block sizes are powers of two.  A size just below a word rounds to 0.   *)
Pow2Roundup(x) == LET k == CHOOSE k \in 0 .. 30 :
                             2 ^ k >= x /\ \A j \in 0 .. k - 1 : 2 ^ j < x
                  IN 2 ^ k
IsPow2(x) == \E k \in 0 .. 30 : x = 2 ^ k
RoundBlksize(sz, blksz) == IF sz % blksz = 0 THEN sz ELSE (sz + (blksz - (sz % blksz))) % Word

(* What is known of the source's length: blocks below the frontier are     *)
(* full, and the first that is not ends the source.                        *)
SourceEof(src) == src.blksize * src.max_blkno + src.onlastblk

BlockKnown(src, blkno) ==
  LET full == src.onblk = src.blksize
      frontier == blkno >= src.frontier_blkno
      s == IF ~frontier THEN src
           ELSE [src EXCEPT
                   !.max_blkno = IF blkno > @ THEN blkno ELSE @,
                   !.onlastblk = IF blkno > src.max_blkno THEN src.onblk ELSE @,
                   !.frontier_blkno = IF full THEN blkno + 1 ELSE blkno,
                   !.eof_known = IF full THEN @ ELSE TRUE]
  IN IF blkno # s.max_blkno THEN s
     ELSE [s EXCEPT !.onlastblk = s.onblk,
                    !.frontier_blkno = IF full THEN blkno + 1 ELSE @]

-----------------------------------------------------------------------------
(* What encoding a window accumulates: the three sections, the cache and   *)
(* the instruction held back for a pair (iout).                            *)
NoInst == [type |-> XD3_NOOP, size |-> 0, code1 |-> 0]

EncodeReset ==
  [data |-> <<>>, inst |-> <<>>, addr |-> <<>>, unencoded |-> 0, iout |-> NoInst,
   acache |-> InitCache(Rfc3284Desc.near_modes, Rfc3284Desc.same_modes)]

EmitSingle(single) ==
  <<single.code1>>
    \o IF Rfc3284Table[single.code1].size1 = 0 THEN EmitInteger(single.size) ELSE <<>>

(* One instruction at position pos of the input: its data or address, then *)
(* it joins the instruction held back, or takes its place.                 *)
CopyAddress(e, i, srcbase, taroff) ==
  EncodeAddress(e.acache, IF i.xtra THEN i.addr - srcbase ELSE taroff + i.addr, i.pos + taroff)

WithData(e, i, next_in) ==
  [e EXCEPT !.data = @ \o IF i.type = XD3_RUN THEN <<i.xtra>>
                          ELSE SubSeq(next_in, i.pos + 1, i.pos + i.size)]

WithAddress(e, a) == [e EXCEPT !.addr = @ \o a.bytes, !.acache = a.cache]

Hold(e, type, size, code) ==
  [e EXCEPT !.unencoded = @ + size,
            !.inst = @ \o IF code.code2 # 0 THEN <<code.code2>>
                          ELSE IF e.iout # NoInst THEN EmitSingle(e.iout) ELSE <<>>,
            !.iout = IF code.code2 # 0 THEN NoInst
                     ELSE [type |-> type, size |-> size, code1 |-> code.code1]]

Issue(e, type, size) ==
  Hold(e, type, size, ChooseInstruction(e.iout, [type |-> type, size |-> size]))

(* A copy with its address a, or other than a copy with its data. *)
Issued(e, i, next_in, a) ==
  IF i.type = XD3_CPY THEN Issue(WithAddress(e, a), XD3_CPY + a.mode, i.size)
  ELSE Issue(WithData(e, i, next_in), i.type, i.size)

FinishEncoding(e, i, next_in, srcbase, taroff) ==
  Issued(e, i, next_in, CopyAddress(e, i, srcbase, taroff))

(* The unmatched input before pos becomes an add. *)
IoptAdd(e, pos, next_in) ==
  IF pos > e.unencoded
  THEN FinishEncoding(e, [type |-> XD3_ADD, pos |-> e.unencoded,
                          size |-> pos - e.unencoded, xtra |-> 0], next_in, 0, 0)
  ELSE e

AddEncoding(e, i, next_in, srcbase, taroff) ==
  FinishEncoding(IoptAdd(e, i.pos, next_in), i, next_in, srcbase, taroff)

Flushed(f) ==
  IF f.iout = NoInst THEN f
  ELSE [f EXCEPT !.inst = @ \o EmitSingle(f.iout), !.iout = NoInst]

AddFinalize(e, next_in) == Flushed(IoptAdd(e, Len(next_in), next_in))

(* A file's header and a window's.  app is <<>> or <<application header>>, *)
(* src is <<>> or the source window <<srclen, srcbase>>.                   *)
FileHeader(app) ==
  Magic \o <<IF app = <<>> THEN 0 ELSE VCD_APPHEADER>>
    \o IF app = <<>> THEN <<>> ELSE EmitInteger(Len(app[1])) \o app[1]

(* A sum of usize_t's. *)
EncLen(tgt, data, inst, addr, cksum) ==
  (1 + SizeofSize(tgt) + SizeofSize(data) + SizeofSize(inst) + SizeofSize(addr)
     + data + inst + addr + IF cksum THEN 4 ELSE 0) % Word

WindowHeader(src, tgt, e, cksum) ==
  LET d == Len(e.data)  i == Len(e.inst)  a == Len(e.addr)  t == Len(tgt)
  IN <<(IF src = <<>> THEN 0 ELSE VCD_SOURCE) + (IF cksum THEN VCD_ADLER32 ELSE 0)>>
       \o (IF src = <<>> THEN <<>> ELSE EmitInteger(src[1]) \o EmitInteger(src[2]))
       \o EmitInteger(EncLen(t, d, i, a, cksum)) \o EmitInteger(t) \o <<0>>
       \o EmitInteger(d) \o EmitInteger(i) \o EmitInteger(a)
       \o IF cksum THEN AdlerBytes(Adler32(tgt)) ELSE <<>>

EmitWindow(src, tgt, e, cksum) ==
  WindowHeader(src, tgt, e, cksum) \o e.data \o e.inst \o e.addr
=============================================================================
