--------------------------- MODULE DedeltaProofs ---------------------------
(***************************************************************************)
(* Theorems about dedelta: whatever the delta, the chunks it is read in    *)
(* and the system calls that fail, the sections of a window are what the   *)
(* delta holds for as long as the window is decoded.                       *)
(***************************************************************************)
EXTENDS Dedelta, CommonLemmas, TLAPS

-----------------------------------------------------------------------------
(* Reading an integer. *)

(* What reading from n bytes gives. *)
Readings(n) ==
  [ret : {"XD3_INPUT"}, part : Nat, used : {n}]
    \cup [ret : {"XD3_INVALID_INPUT"}, part : Nat, used : 1..n]
    \cup [ret : {"ok"}, val : Nat, part : Nat, used : 1..n]

(* One more digit. *)
LEMMA Shifted ==
  ASSUME NEW p \in Nat, NEW b \in Nat
  PROVE  p * Base + b \in Nat /\ p * Base + (b % Base) \in Nat
<1>1. Base \in Nat \ {0}
  BY BaseAssumption
<1>2. p * Base \in Nat
  BY <1>1, SMT
<1>3. b % Base \in Nat
  BY <1>1, SMT
<1> QED
  BY <1>2, <1>3, SMT

LEMMA DecodeIntegerType ==
  ASSUME NEW part \in Nat, NEW in \in Seq(Nat), NEW word
  PROVE  DecodeInteger(part, in, word) \in Readings(Len(in))
<1> DEFINE N == Len(in)
           R == Readings(N)
           S == [Nat -> R]
           Read(i, h, p) ==
             IF i > N THEN [ret |-> "XD3_INPUT", part |-> p, used |-> N]
             ELSE IF p >= word \div Base
             THEN [ret |-> "XD3_INVALID_INPUT", part |-> p, used |-> i]
             ELSE IF in[i] < Base
             THEN [ret |-> "ok", val |-> p * Base + in[i], part |-> 0, used |-> i]
             ELSE h[p * Base + (in[i] % Base)]
           Def(g) == [i \in 1..N + 1 |-> [p \in Nat |-> Read(i, g[i + 1], p)]]
           go == CHOOSE g : g = Def(g)
           base == [p \in Nat |-> [ret |-> "XD3_INPUT", part |-> p, used |-> N]]
           Step(k, h) == [p \in Nat |-> IF k > N THEN base[p] ELSE Read(N + 1 - k, h, p)]
           step == [k \in Nat |-> [h \in S |-> Step(k, h)]]
<1>1. DecodeInteger(part, in, word) = go[1][part]
  BY Zenon DEF DecodeInteger
<1>2. N \in Nat /\ \A i \in 1..N : in[i] \in Nat
  BY SMT
<1> HIDE DEF N
<1>3. ASSUME NEW i \in 1..N, NEW h \in S, NEW p \in Nat PROVE Read(i, h, p) \in R
  <2>1. i \in Nat /\ ~(i > N) /\ in[i] \in Nat
    BY <1>2
  <2>2. PICK v \in Nat : v = p * Base + in[i]
    BY <2>1, Shifted
  <2>3. PICK w \in Nat : w = p * Base + (in[i] % Base)
    BY <2>1, Shifted
  <2>4. h[w] \in R
    OBVIOUS
  <2>5. [ret |-> "XD3_INVALID_INPUT", part |-> p, used |-> i] \in R
    BY DEF Readings
  <2>6. [ret |-> "ok", val |-> v, part |-> 0, used |-> i] \in R
    BY DEF Readings
  <2> QED
    BY <2>1, <2>2, <2>3, <2>4, <2>5, <2>6
<1>4. \A p \in Nat : [ret |-> "XD3_INPUT", part |-> p, used |-> N] \in R
  BY DEF Readings
<1>5. base \in S
  BY <1>4
<1>6. step \in [Nat -> [S -> S]]
  <2>1. ASSUME NEW k \in Nat, NEW h \in S PROVE Step(k, h) \in S
    <3>1. ASSUME NEW p \in Nat PROVE (IF k > N THEN base[p] ELSE Read(N + 1 - k, h, p)) \in R
      <4>1. CASE k > N
        BY <1>4, <4>1
      <4>2. CASE k = 0
        <5>1. N + 1 - k > N
          BY <1>2, <4>2, SMT
        <5> QED
          BY <1>4, <5>1
      <4>3. CASE ~(k > N) /\ k # 0
        <5>1. PICK i \in 1..N : i = N + 1 - k
          BY <1>2, <4>3, SMT
        <5>2. Read(i, h, p) \in R
          BY <1>3
        <5> HIDE DEF Read
        <5> QED
          BY <4>3, <5>1, <5>2
      <4> QED
        BY <4>1, <4>2, <4>3
    <3> QED
      BY <3>1
  <2> HIDE DEF Step, S
  <2> QED
    BY <2>1
<1>7. PICK f : Recursion(f, S, base, step, N)
  <2> HIDE DEF S, base, step
  <2> QED
    BY <1>2, <1>5, <1>6, RecursionExists, Zenon
<1>8. f \in [0..N -> S] /\ f[0] = base /\ \A k \in 1..N : f[k] = step[k][f[k - 1]]
  BY <1>7 DEF Recursion
<1> DEFINE G == [i \in 1..N + 1 |-> f[N + 1 - i]]
<1>9. G = Def(G)
  <2>1. ASSUME NEW i \in 1..N + 1 PROVE G[i] = [p \in Nat |-> Read(i, G[i + 1], p)]
    <3>1. PICK k \in 0..N : k = N + 1 - i
      BY <1>2, SMT
    <3>2. G[i] = f[k]
      BY <3>1
    <3>3. CASE k = 0
      <4>1. i > N
        BY <1>2, <3>1, <3>3, SMT
      <4> QED
        BY <1>8, <3>2, <3>3, <4>1
    <3>4. CASE k # 0
      <4>1. k \in Nat /\ k \in 1..N /\ ~(k > N) /\ N + 1 - k = i /\ i + 1 \in 1..N + 1 /\ N + 1 - (i + 1) = k - 1
            /\ k - 1 \in 0..N
        BY <1>2, <3>1, <3>4, SMT
      <4>2. f[k - 1] \in S
        BY <1>8, <4>1
      <4>3. f[k] = Step(k, f[k - 1])
        <5> HIDE DEF Step, S
        <5> QED
          BY <1>8, <4>1, <4>2
      <4>4. G[i + 1] = f[k - 1]
        BY <4>1
      <4> HIDE DEF Read, S
      <4> QED
        BY <3>2, <4>1, <4>3, <4>4
    <3> QED
      BY <3>1, <3>3, <3>4
  <2> HIDE DEF Read
  <2> QED
    BY <2>1
<1>10. go = Def(go)
  <2> HIDE DEF Def, G
  <2> QED
    BY <1>9
<1> HIDE DEF go
<1> DEFINE T == {k \in Nat : k <= N => \A p \in Nat : go[N + 1 - k][p] \in R}
<1>11. ASSUME NEW i \in 1..N + 1 PROVE go[i] = [p \in Nat |-> Read(i, go[i + 1], p)]
  <2> HIDE DEF Read
  <2> QED
    BY <1>10
<1>12. 0 \in T
  <2>1. N + 1 - 0 = N + 1 /\ N + 1 \in 1..N + 1 /\ N + 1 > N
    BY <1>2, SMT
  <2>2. go[N + 1] = [p \in Nat |-> Read(N + 1, go[(N + 1) + 1], p)]
    <3> HIDE DEF Read
    <3> QED
      BY <1>11, <2>1
  <2>3. \A p \in Nat : go[N + 1][p] = [ret |-> "XD3_INPUT", part |-> p, used |-> N]
    BY <2>1, <2>2
  <2> QED
    BY <1>4, <2>1, <2>3
<1>13. ASSUME NEW k \in Nat, k \in T PROVE k + 1 \in T
  <2>1. SUFFICES ASSUME k + 1 <= N, NEW p \in Nat PROVE go[N + 1 - (k + 1)][p] \in R
    OBVIOUS
  <2>2. PICK i \in 1..N : i = N + 1 - (k + 1)
    BY <1>2, <2>1, SMT
  <2>3. i \in 1..N + 1 /\ i + 1 = N + 1 - k /\ k <= N
    BY <1>2, <2>1, <2>2, SMT
  <2>4. PICK h \in S : h = [q \in Nat |-> go[i + 1][q]]
    <3>1. \A q \in Nat : go[i + 1][q] \in R
      BY <1>13, <2>3
    <3> QED
      BY <3>1
  <2>5. go[i][p] = Read(i, go[i + 1], p)
    <3> HIDE DEF Read
    <3> QED
      BY <1>11, <2>3
  <2>6. Read(i, go[i + 1], p) = Read(i, h, p)
    <3>1. PICK w \in Nat : w = p * Base + (in[i] % Base)
      BY <1>2, Shifted
    <3>2. go[i + 1][w] = h[w]
      BY <2>4
    <3> QED
      BY <3>1, <3>2
  <2>7. Read(i, h, p) \in R
    BY <1>3
  <2> HIDE DEF Read
  <2> QED
    BY <2>2, <2>5, <2>6, <2>7
<1>14. N \in T
  <2> HIDE DEF T
  <2>1. Nat \subseteq T
    BY <1>12, <1>13, Inductive
  <2> QED
    BY <1>2, <2>1
<1>15. N + 1 - N = 1
  BY <1>2
<1> QED
  BY <1>1, <1>2, <1>14, <1>15 DEF N

LEMMA ReadingFacts ==
  ASSUME NEW n \in Nat, NEW r \in Readings(n)
  PROVE  /\ r.used \in 0..n /\ r.part \in Nat
         /\ r.ret = "XD3_INPUT" => r.used = n
         /\ r.ret = "ok" => r.val \in Nat
         /\ r.ret \in {"ok", "XD3_INPUT", "XD3_INVALID_INPUT"}
  BY SMT DEF Readings

(* Within a section an integer never asks for more input. *)
LEMMA ReadIntegerRefuses ==
  ASSUME NEW in
  PROVE  ReadInteger(in).ret \in {"ok", "XD3_INVALID_INPUT"}
  BY DEF ReadInteger

-----------------------------------------------------------------------------
(* The invariant. *)

(* A stream has the fields xd3_config_stream clears, a section those of an *)
(* empty one.                                                              *)
StreamFields == DOMAIN ConfigStream({})
SectionFields == DOMAIN Section
IsStream(s) == s = [f \in StreamFields |-> s[f]]
IsSection(x) ==
  /\ x = [f \in SectionFields |-> x[f]]
  /\ x.size \in Nat /\ x.pos \in Nat /\ x.ref \in Int /\ x.copied \in Seq(Nat) /\ x.alloc1 \in Nat
  /\ Len(x.copied) <= x.alloc1

(* The states of the decoder, in order. *)
TableStates == {"DEC_VCHEAD", "DEC_HDRIND", "DEC_SECONDID", "DEC_TABLEN", "DEC_NEAR", "DEC_SAME"}
BeforeAppDat == TableStates \cup {"DEC_TABDAT", "DEC_APPLEN"}
SizeStates ==
  {"DEC_CPYLEN", "DEC_CPYOFF", "DEC_ENCLEN", "DEC_TGTLEN", "DEC_DELIND", "DEC_DATALEN",
   "DEC_INSTLEN", "DEC_ADDRLEN"}
HeadStates == BeforeAppDat \cup {"DEC_APPDAT", "DEC_WININD", "DEC_CKSUM"} \cup SizeStates
ReadStates == {"DEC_DATA", "DEC_INST", "DEC_ADDR"}
States == HeadStates \cup ReadStates \cup {"DEC_EMIT", "DEC_FINISH"}

(* What the fields that an action gathers bytes in hold. *)
StreamTypes ==
  /\ IsStream(stream) /\ stream.dec_state \in States
  /\ stream.flags \subseteq {"XD3_FLUSH"}
  /\ stream.part32 \in Nat /\ stream.part64 \in Nat
  /\ stream.winbytes \in Nat
  /\ \A f \in Sections : IsSection(stream[f])

HeaderInv ==
  /\ stream.magic \in Seq(Nat) /\ stream.codetbl \in Seq(Nat)
  /\ stream.appheader \in Seq(Nat) /\ stream.cksum \in Seq(Nat)
  /\ stream.codetblsz \in Nat /\ stream.appheadsz \in Nat
  /\ stream.dec_state = "DEC_VCHEAD" => Len(stream.magic) <= 4
  /\ stream.dec_state \in TableStates => stream.codetbl = <<>>
  /\ stream.dec_state \in BeforeAppDat => stream.appheader = <<>>
  /\ stream.dec_state \in SizeStates => stream.cksum = <<>>
  /\ stream.dec_state = "DEC_CKSUM" => Len(stream.cksum) <= 4
  /\ Len(stream.codetbl) <= stream.codetblsz /\ Len(stream.appheader) <= stream.appheadsz

(* The chunk is where the descriptor was before it was read. *)
FileInv ==
  /\ fdelta \in Seq(Nat) /\ ibuf \in Seq(Nat) /\ CHUNK \in Nat \ {0}
  /\ pos \in 0..Len(fdelta) /\ Len(ibuf) <= pos /\ at \in 0..Len(ibuf) /\ Len(fdelta) < Word
  /\ ibuf = SubSeq(fdelta, pos - Len(ibuf) + 1, pos)

(* Is a section complete, how much of it is there, and which bytes? *)
Turn(f) == CASE f = "data_sect" -> "DEC_DATA" [] f = "inst_sect" -> "DEC_INST"
             [] OTHER -> "DEC_ADDR"
Complete(s, f) ==
  s.dec_state \in CASE f = "data_sect" -> {"DEC_INST", "DEC_ADDR", "DEC_EMIT"}
                    [] f = "inst_sect" -> {"DEC_ADDR", "DEC_EMIT"}
                    [] OTHER -> {"DEC_EMIT"}
Got(s, f) == IF Complete(s, f) THEN s[f].size ELSE s[f].pos
Held(s, f) == IF Complete(s, f) THEN SectionBytes(s[f]) ELSE SubSeq(s[f].copied, 1, s[f].pos)
Gathered(s) == Held(s, "data_sect") \o Held(s, "inst_sect") \o Held(s, "addr_sect")
InPlaceNow(s, f) == Complete(s, f) /\ s[f].ref >= 0 /\ s[f].size > 0

(* What is missing of the window's sections. *)
Rest == SectionSum(stream) - stream.winbytes

(* The sections are read in turn, and what is taken of them is counted.    *)
CountInv ==
  /\ \A f \in Sections :
       stream[f].pos # 0 => /\ stream.dec_state = Turn(f) /\ stream[f].pos < stream[f].size
                            /\ Len(stream[f].copied) = stream[f].pos
  /\ stream.winbytes = Got(stream, "data_sect") + Got(stream, "inst_sect") + Got(stream, "addr_sect")

(* Their lengths add up to a usize_t.                                      *)
SumInv == stream.dec_state \in ReadStates \cup {"DEC_EMIT"} => SectionSum(stream) < Word

(* One that is left in place ends before the cursor, and all that is       *)
(* missing of the window is in the same chunk.                             *)
PlaceInv ==
  \A f \in Sections :
    /\ InPlaceNow(stream, f) => stream[f].ref + stream[f].size <= at /\ Rest <= AvailIn
    /\ Complete(stream, f) /\ stream[f].ref < 0 => stream[f].size <= Len(stream[f].copied)

SectionInv == CountInv /\ SumInv /\ PlaceInv

End == pos - AvailIn
GatherInv ==
  stream.winbytes <= End /\ Gathered(stream) = SubSeq(fdelta, End - stream.winbytes + 1, End)

InputInv ==
  pc \in {"open", "setup", "read"} \/ ret = "XD3_INPUT" =>
    /\ at = Len(ibuf) /\ stream.dec_state # "DEC_EMIT"
    /\ \A f \in Sections : ~InPlaceNow(stream, f)

DedeltaInv == StreamTypes /\ HeaderInv /\ FileInv /\ SectionInv /\ GatherInv /\ InputInv

(* What holds of the lengths whether or not their sum wraps around.        *)
Counted == StreamTypes /\ HeaderInv /\ FileInv /\ CountInv /\ stream.winbytes <= End

(* Lengths whose sum wraps around are more than a delta can hold: the      *)
(* sections are never all complete, and no instruction is carried out.     *)
Astray == Counted /\ stream.dec_state \in ReadStates /\ SectionSum(stream) >= Word

-----------------------------------------------------------------------------
(* The fields. *)

LEMMA StreamFieldNames ==
  StreamFields =
    {"dec_state", "flags", "hasSource", "magic", "hdr_ind", "codetblsz", "codetbl", "s_near",
     "s_same", "acache", "appheadsz", "appheader", "part32", "part64", "win_ind", "del_ind",
     "cpylen", "cpyoff", "enclen", "tgtlen", "maxpos", "position", "cksum", "winbytes",
     "data_sect", "inst_sect", "addr_sect", "current1", "current2", "out",
     "total_out", "next_out", "space_out", "dec_buffer", "dec_alloc", "lastwin", "lastspace",
     "window_count", "current_window", "winstart", "laststart"}
  BY DEF StreamFields, ConfigStream

LEMMA SectionFieldNames ==
  SectionFields = {"size", "pos", "ref", "copied", "alloc1", "read"}
  BY DEF SectionFields, Section

LEMMA NewField ==
  ASSUME NEW s, IsStream(s), NEW f \in StreamFields, NEW v
  PROVE  /\ IsStream([s EXCEPT ![f] = v]) /\ [s EXCEPT ![f] = v][f] = v
         /\ \A g \in StreamFields : g # f => [s EXCEPT ![f] = v][g] = s[g]
  BY DEF IsStream

LEMMA SectionsAre == \A f : f \in Sections <=> f = "data_sect" \/ f = "inst_sect" \/ f = "addr_sect"
  BY DEF Sections

(* A buffer's size. *)
LEMMA AllocatedSize ==
  ASSUME NEW have \in Nat, NEW size \in Nat
  PROVE  Allocated(have, size) \in Nat
<1>1. AllocSize \in Nat \ {0} /\ Word \in Nat \ {0}
  BY DecoderAssumption, WordAssumption, BaseAssumption
<1>2. size % AllocSize \in 0..AllocSize - 1
  BY <1>1, SMT
<1>3. PICK k \in 0..AllocSize - 1 : k = size % AllocSize
  BY <1>2
<1>4. PICK n \in Nat : n = IF k = 0 THEN size ELSE size + (AllocSize - k)
  <2>1. size + (AllocSize - k) \in Nat
    BY <1>1, <1>3, SMT
  <2> QED
    BY <2>1
<1>5. RoundBlksize(size, AllocSize) = IF k = 0 THEN size ELSE n % Word
  BY <1>3, <1>4 DEF RoundBlksize
<1>6. n % Word \in Nat
  BY <1>1, SMT
<1> QED
  BY <1>5, <1>6 DEF Allocated

-----------------------------------------------------------------------------
(* Pieces of the delta. *)

LEMMA PieceOfPiece ==
  ASSUME NEW S, NEW s \in Seq(S), NEW a \in Nat, NEW b \in Nat, a <= b, b <= Len(s),
         NEW x, x = SubSeq(s, a + 1, b), NEW c \in Nat, NEW d \in Nat, c <= d, d <= b - a
  PROVE  SubSeq(x, c + 1, d) = SubSeq(s, (a + c) + 1, a + d)
<1>1. x \in Seq(S) /\ Len(x) = b - a /\ \A i \in 1..(b - a) : x[i] = s[a + i]
  BY PieceOf
<1>2. PICK ac \in Nat : ac = a + c
  BY SMT
<1>3. PICK ad \in Nat : ad = a + d
  BY SMT
<1>4. ac <= ad /\ ad <= Len(s) /\ d <= Len(x) /\ ad - ac = d - c
  BY <1>1, <1>2, <1>3, SMT
<1> DEFINE y == SubSeq(x, c + 1, d)
           z == SubSeq(s, ac + 1, ad)
<1>5. y \in Seq(S) /\ Len(y) = d - c /\ \A i \in 1..(d - c) : y[i] = x[c + i]
  <2>1. x \in Seq(S) /\ c \in Nat /\ d \in Nat /\ c <= d /\ d <= Len(x)
    BY <1>1, <1>4
  <2>2. /\ SubSeq(x, c + 1, d) \in Seq(S) /\ Len(SubSeq(x, c + 1, d)) = d - c
        /\ \A i \in 1..(d - c) : SubSeq(x, c + 1, d)[i] = x[c + i]
    BY ONLY <2>1, PieceOf
  <2> QED
    BY <2>2
<1>6. z \in Seq(S) /\ Len(z) = ad - ac /\ \A i \in 1..(ad - ac) : z[i] = s[ac + i]
  BY <1>4, PieceOf
<1> HIDE DEF y, z
<1>7. ASSUME NEW i \in 1..Len(y) PROVE y[i] = z[i]
  <2>1. i \in 1..(d - c) /\ i \in 1..(ad - ac) /\ c + i \in 1..(b - a) /\ a + (c + i) = ac + i
    BY <1>2, <1>4, <1>5, SMT
  <2> QED
    BY <1>1, <1>5, <1>6, <2>1
<1>8. y = z
  BY <1>4, <1>5, <1>6, <1>7, SameSeq
<1> QED
  BY <1>2, <1>3, <1>8 DEF y, z

LEMMA FileFacts ==
  ASSUME FileInv
  PROVE  /\ ibuf \in Seq(Nat) /\ Len(ibuf) \in Nat /\ at \in Nat /\ at <= Len(ibuf)
         /\ AvailIn \in Nat /\ AvailIn = Len(ibuf) - at /\ End \in Nat /\ pos \in Nat
         /\ pos <= Len(fdelta) /\ End = pos - AvailIn /\ fdelta \in Seq(Nat) /\ Len(fdelta) \in Nat
         /\ Len(ibuf) <= pos
<1>1. /\ fdelta \in Seq(Nat) /\ ibuf \in Seq(Nat)
      /\ pos \in 0..Len(fdelta) /\ Len(ibuf) <= pos /\ at \in 0..Len(ibuf)
  BY DEF FileInv
<1>2. Len(ibuf) \in Nat /\ Len(fdelta) \in Nat /\ pos \in Nat /\ at \in Nat
  BY <1>1
<1> QED
  BY <1>1, <1>2, SMT DEF AvailIn, End

(* What the decoder takes of the chunk is the delta's next bytes. *)
LEMMA Taking ==
  ASSUME FileInv, NEW n \in Nat, n <= AvailIn
  PROVE  /\ SubSeq(ibuf, at + 1, at + n) = SubSeq(fdelta, End + 1, End + n)
         /\ SubSeq(ibuf, at + 1, at + n) \in Seq(Nat) /\ Len(SubSeq(ibuf, at + 1, at + n)) = n
         /\ End + n <= Len(fdelta)
<1>1. /\ ibuf \in Seq(Nat) /\ Len(ibuf) \in Nat /\ at \in Nat /\ at <= Len(ibuf)
      /\ AvailIn = Len(ibuf) - at /\ End \in Nat /\ pos \in Nat
      /\ pos <= Len(fdelta) /\ End = pos - AvailIn /\ fdelta \in Seq(Nat) /\ Len(fdelta) \in Nat
      /\ Len(ibuf) <= pos
  BY FileFacts
<1>2. PICK a \in Nat : a = pos - Len(ibuf)
  <2>1. pos \in Nat /\ Len(ibuf) \in Nat /\ Len(ibuf) <= pos
    BY <1>1
  <2> QED
    BY ONLY <2>1, SMT
<1>3. PICK b \in Nat : b = at + n
  BY <1>1, SMT
<1>4. ibuf = SubSeq(fdelta, a + 1, pos)
  BY <1>2 DEF FileInv
<1>5. a <= pos /\ at <= b /\ b <= pos - a /\ b <= Len(ibuf) /\ a + at = End /\ a + b = End + n
      /\ End + n <= Len(fdelta) /\ b - at = n
  BY <1>1, <1>2, <1>3, SMT
<1>6. SubSeq(ibuf, at + 1, b) = SubSeq(fdelta, (a + at) + 1, a + b)
  BY <1>1, <1>4, <1>5, PieceOfPiece
<1>7. SubSeq(ibuf, at + 1, b) \in Seq(Nat) /\ Len(SubSeq(ibuf, at + 1, b)) = b - at
  BY <1>1, <1>5, PieceOf
<1> QED
  BY <1>3, <1>5, <1>6, <1>7

-----------------------------------------------------------------------------
(* The headers: no section is read, and nothing is done twice. *)

HeaderMoves ==
  /\ ibuf' = ibuf /\ at' \in at..Len(ibuf)
  /\ StreamTypes' /\ HeaderInv'
  /\ stream.dec_state \in HeadStates /\ stream'.dec_state \in HeadStates \cup {"DEC_DATA"}
  /\ \A f \in Sections : /\ stream'[f].pos = stream[f].pos /\ stream'[f].copied = stream[f].copied
                         /\ stream'[f].size \in Nat
  /\ stream'.winbytes = stream.winbytes
  /\ ret' = "XD3_INPUT" => at' = Len(ibuf)

LEMMA Parts ==
  ASSUME DedeltaInv
  PROVE  StreamTypes /\ HeaderInv /\ FileInv /\ SectionInv /\ GatherInv /\ InputInv
  BY DEF DedeltaInv

LEMMA AlsoCounted == ASSUME DedeltaInv PROVE Counted
  BY DEF DedeltaInv, SectionInv, GatherInv, Counted

(* In a header no section is complete and no byte of one is there. *)
LEMMA NothingYet ==
  ASSUME NEW s, s.dec_state \in HeadStates \cup {"DEC_DATA"}, NEW f
  PROVE  ~Complete(s, f) /\ ~InPlaceNow(s, f) /\ Got(s, f) = s[f].pos
         /\ Held(s, f) = SubSeq(s[f].copied, 1, s[f].pos)
<1>1. ~(s.dec_state \in {"DEC_INST", "DEC_ADDR", "DEC_EMIT"}) /\ ~(s.dec_state \in {"DEC_ADDR", "DEC_EMIT"})
      /\ ~(s.dec_state \in {"DEC_EMIT"})
  BY DEF HeadStates, BeforeAppDat, TableStates, SizeStates
<1>2. ~Complete(s, f)
  BY <1>1 DEF Complete
<1> QED
  BY <1>2 DEF InPlaceNow, Got, Held

LEMMA HeaderPosition ==
  ASSUME StreamTypes, CountInv, stream.dec_state \in HeadStates, NEW f \in Sections
  PROVE  stream[f].pos = 0
<1>1. Turn(f) \notin HeadStates
  BY DEF Turn, HeadStates, BeforeAppDat, TableStates, SizeStates
<1> QED
  BY <1>1 DEF CountInv

(* At the header's end the sections' lengths are known, and so is whether  *)
(* their sum wraps around.                                                 *)
LEMMA HeaderStep ==
  ASSUME DedeltaInv, HeaderMoves, UNCHANGED <<files, dedelta>>, pc = "process"
  PROVE  DedeltaInv' \/ Astray'
<1>1. StreamTypes /\ HeaderInv /\ FileInv /\ SectionInv /\ GatherInv /\ InputInv
  BY Parts
<1>2. fdelta' = fdelta /\ CHUNK' = CHUNK /\ pos' = pos /\ pc' = "process"
  BY DEF files, dedelta
<1>3. /\ ibuf' = ibuf /\ at' \in at..Len(ibuf)
      /\ StreamTypes' /\ HeaderInv'
      /\ stream.dec_state \in HeadStates /\ stream'.dec_state \in HeadStates \cup {"DEC_DATA"}
      /\ \A f \in Sections : /\ stream'[f].pos = stream[f].pos /\ stream'[f].copied = stream[f].copied
                             /\ stream'[f].size \in Nat
      /\ stream'.winbytes = stream.winbytes
      /\ ret' = "XD3_INPUT" => at' = Len(ibuf)
  BY DEF HeaderMoves
<1>4. /\ Len(ibuf) \in Nat /\ at \in Nat /\ at <= Len(ibuf)
      /\ AvailIn = Len(ibuf) - at /\ End \in Nat /\ pos \in Nat
      /\ pos <= Len(fdelta) /\ End = pos - AvailIn /\ Len(fdelta) \in Nat
  BY <1>1, FileFacts
<1>5. FileInv'
  <2>1. at' \in 0..Len(ibuf)
    BY <1>3, <1>4, SMT
  <2> QED
    BY <1>1, <1>2, <1>3, <2>1 DEF FileInv
<1>6. \A f \in Sections : stream[f].pos = 0 /\ stream'[f].pos = 0
  BY <1>1, <1>3, HeaderPosition DEF SectionInv
<1>7. \A f \in Sections : /\ ~InPlaceNow(stream', f) /\ Got(stream', f) = 0 /\ Got(stream, f) = 0
  BY <1>3, <1>6, NothingYet
<1>8. "data_sect" \in Sections /\ "inst_sect" \in Sections /\ "addr_sect" \in Sections
  BY SectionsAre
<1>9. stream.winbytes = 0
  BY <1>1, <1>7, <1>8 DEF SectionInv, CountInv
<1>10. CountInv' /\ PlaceInv'
  <2>1. \A f \in Sections : InPlaceNow(stream, f)' = FALSE /\ Complete(stream, f)' = FALSE
    BY <1>3, <1>7, NothingYet DEF InPlaceNow, Complete
  <2>2. Got(stream, "data_sect")' = 0 /\ Got(stream, "inst_sect")' = 0 /\ Got(stream, "addr_sect")' = 0
    BY <1>7, <1>8
  <2> QED
    BY <1>3, <1>6, <1>9, <2>1, <2>2 DEF CountInv, PlaceInv
<1>11. GatherInv'
  <2>1. \A f \in Sections : stream'[f].copied \in Seq(Nat)
    BY <1>3 DEF StreamTypes, IsSection
  <2>2. ASSUME NEW f \in Sections PROVE Held(stream, f)' = <<>>
    <3>1. Held(stream, f)' = SubSeq(stream'[f].copied, 1, 0)
      BY <1>3, <1>6, NothingYet DEF Held, Complete
    <3> QED
      BY <2>1, <3>1
  <2>3. Gathered(stream)' = <<>>
    <3>1. <<>> \o <<>> \o <<>> = <<>>
      OBVIOUS
    <3> QED
      BY <1>8, <2>2, <3>1 DEF Gathered
  <2>4. PICK e \in Nat : e = End'
    BY <1>2, <1>3, <1>4, SMT DEF End, AvailIn
  <2>5. e <= Len(fdelta)
    BY <1>2, <1>3, <1>4, <2>4, SMT DEF End, AvailIn
  <2>6. SubSeq(fdelta, e + 1, e) = <<>>
    BY <1>1, <2>5 DEF FileInv
  <2>7. e - 0 + 1 = e + 1 /\ 0 <= e
    BY SMT
  <2> QED
    BY <1>2, <1>3, <1>9, <2>3, <2>4, <2>6, <2>7 DEF GatherInv
<1>12. InputInv'
  <2>1. stream'.dec_state # "DEC_EMIT"
    BY <1>3 DEF HeadStates, BeforeAppDat, TableStates, SizeStates
  <2>2. \A f \in Sections : InPlaceNow(stream, f)' = FALSE
    BY <1>7 DEF InPlaceNow, Complete
  <2> QED
    BY <1>2, <1>3, <2>1, <2>2 DEF InputInv
<1>13. CASE SumInv'
  BY <1>3, <1>5, <1>10, <1>11, <1>12, <1>13 DEF DedeltaInv, SectionInv
<1>14. CASE ~SumInv'
  <2>1. stream'.dec_state \in ReadStates \cup {"DEC_EMIT"} /\ ~(SectionSum(stream') < Word)
    BY <1>14 DEF SumInv, SectionSum
  <2>2. stream'.dec_state \in ReadStates
    BY <1>3, <2>1 DEF HeadStates, BeforeAppDat, TableStates, SizeStates, ReadStates
  <2>3. PICK d \in Nat, j \in Nat, a \in Nat :
          d = stream'.data_sect.size /\ j = stream'.inst_sect.size /\ a = stream'.addr_sect.size
    BY <1>3, <1>8
  <2>4. SectionSum(stream') = d + j + a
    BY <2>3, Zenon DEF SectionSum
  <2>5. SectionSum(stream') >= Word
    BY <2>1, <2>4, WordAssumption
  <2>6. SectionSum(stream)' = SectionSum(stream')
    BY DEF SectionSum
  <2>7. stream'.winbytes <= End'
    BY <1>11 DEF GatherInv
  <2>8. Astray'
    BY <1>3, <1>5, <1>10, <2>2, <2>5, <2>6, <2>7 DEF Astray, Counted
  <2> QED
    BY <2>8
<1> QED
  BY <1>13, <1>14

(* A byte, or several of them, of the chunk. *)
LEMMA Minimum ==
  ASSUME NEW a \in Nat, NEW b \in Nat
  PROVE  Min({a, b}) \in Nat /\ Min({a, b}) <= a /\ Min({a, b}) <= b /\ (Min({a, b}) = a \/ Min({a, b}) = b)
<1>1. \E x \in {a, b} : \A y \in {a, b} : x <= y
  BY SMT
<1> DEFINE m == CHOOSE x \in {a, b} : \A y \in {a, b} : x <= y
<1>2. m \in {a, b} /\ \A y \in {a, b} : m <= y
  BY <1>1, Zenon
<1> HIDE DEF m
<1>3. m \in Nat /\ m <= a /\ m <= b /\ (m = a \/ m = b)
  BY <1>2
<1> QED
  BY <1>3 DEF Min, m

LEMMA SomeBytes ==
  ASSUME FileInv, NEW size \in Nat, NEW have \in Seq(Nat), Len(have) <= size,
         NEW take, take = Min({size - Len(have), AvailIn})
  PROVE  /\ at + take \in at..Len(ibuf) /\ take \in Nat /\ take <= AvailIn
         /\ take < size - Len(have) => at + take = Len(ibuf)
         /\ have \o SubSeq(ibuf, at + 1, at + take) \in Seq(Nat)
         /\ Len(have \o SubSeq(ibuf, at + 1, at + take)) <= size
<1>1. /\ ibuf \in Seq(Nat) /\ Len(ibuf) \in Nat /\ at \in Nat /\ at <= Len(ibuf)
      /\ AvailIn \in Nat /\ AvailIn = Len(ibuf) - at
  BY FileFacts
<1>2. Len(have) \in Nat
  OBVIOUS
<1>3. PICK want \in Nat : want = size - Len(have)
  BY <1>2, SMT
<1>4. take \in Nat /\ take <= want /\ take <= AvailIn /\ (take = want \/ take = AvailIn)
  BY <1>1, <1>3, Minimum
<1>5. PICK x \in Seq(Nat) : x = SubSeq(ibuf, at + 1, at + take) /\ Len(x) = take
  BY <1>4, Taking
<1>6. have \o x \in Seq(Nat) /\ Len(have \o x) = Len(have) + Len(x)
  OBVIOUS
<1>7. PICK h \in Nat : h = Len(have)
  BY <1>2
<1>8. Len(have \o x) <= size
  <2>1. Len(have \o x) = h + take
    BY <1>5, <1>6, <1>7, Zenon
  <2>2. want = size - h /\ size \in Nat
    BY <1>3, <1>7, Zenon
  <2>3. h + take <= size
    BY ONLY <1>3, <1>4, <1>7, <2>2
  <2> QED
    BY <2>1, <2>3
<1>9. /\ at + take \in at..Len(ibuf)
      /\ take < want => at + take = Len(ibuf)
  BY <1>1, <1>4, SMT
<1> QED
  BY <1>3, <1>4, <1>5, <1>6, <1>8, <1>9

LEMMA SomeDigits ==
  ASSUME FileInv, NEW part \in Nat, NEW word, NEW r, r = DecodeInteger(part, Remaining, word)
  PROVE  /\ at + r.used \in at..Len(ibuf) /\ r.part \in Nat
         /\ r.ret = "XD3_INPUT" => at + r.used = Len(ibuf)
         /\ r.ret = "ok" => r.val \in Nat
<1>1. /\ ibuf \in Seq(Nat) /\ Len(ibuf) \in Nat /\ at \in Nat /\ at <= Len(ibuf)
      /\ AvailIn \in Nat /\ AvailIn = Len(ibuf) - at
  BY FileFacts
<1>2. PICK x \in Seq(Nat) : x = Remaining /\ Len(x) = AvailIn
  <2>1. PICK b \in Nat : b = Len(ibuf)
    BY <1>1
  <2>2. at <= b /\ b <= Len(ibuf)
    BY <1>1, <2>1
  <2>3. SubSeq(ibuf, at + 1, b) \in Seq(Nat) /\ Len(SubSeq(ibuf, at + 1, b)) = b - at
    BY ONLY <1>1, <2>1, <2>2, PieceOf
  <2> QED
    BY <1>1, <2>1, <2>3 DEF Remaining
<1>3. PICK n \in Nat : n = AvailIn
  BY <1>1
<1>4. r \in Readings(n)
  BY <1>2, <1>3, DecodeIntegerType
<1>5. r.used \in 0..n /\ r.part \in Nat /\ (r.ret = "XD3_INPUT" => r.used = n) /\ (r.ret = "ok" => r.val \in Nat)
  BY <1>4, ReadingFacts
<1> QED
  BY <1>1, <1>3, <1>5, SMT

(* The byte at the cursor. *)
LEMMA OneByte ==
  ASSUME FileInv
  PROVE  /\ AvailIn = 0 => at = Len(ibuf)
         /\ AvailIn # 0 => at + 1 \in at..Len(ibuf) /\ ibuf[at + 1] \in Nat
         /\ at \in at..Len(ibuf)
<1>1. /\ ibuf \in Seq(Nat) /\ Len(ibuf) \in Nat /\ at \in Nat /\ at <= Len(ibuf)
      /\ AvailIn \in Nat /\ AvailIn = Len(ibuf) - at
  BY FileFacts
<1> QED
  BY <1>1, SMT

(* Most fields stay as they are. *)
Fields(t, changed) ==
  IsStream(t) /\ \A g \in StreamFields \ changed : t[g] = stream[g]

LEMMA HeaderTo ==
  ASSUME StreamTypes, stream.dec_state \in HeadStates, ibuf' = ibuf, at' \in at..Len(ibuf),
         ret' = "XD3_INPUT" => at' = Len(ibuf),
         IsStream(stream'), stream'.flags = stream.flags, stream'.winbytes = stream.winbytes,
         \A f \in Sections : \/ stream'[f] = stream[f]
                            \/ \E n \in Nat : stream'[f] = [stream[f] EXCEPT !.size = n],
         stream'.dec_state \in HeadStates \cup {"DEC_DATA"},
         stream'.part32 \in Nat, stream'.part64 \in Nat, HeaderInv'
  PROVE  HeaderMoves
<1>1. ASSUME NEW f \in Sections
      PROVE  IsSection(stream'[f]) /\ stream'[f].pos = stream[f].pos /\ stream'[f].copied = stream[f].copied
  <2>1. IsSection(stream[f])
    BY DEF StreamTypes
  <2>2. CASE stream'[f] = stream[f]
    BY <2>1, <2>2
  <2>3. ASSUME NEW n \in Nat, stream'[f] = [stream[f] EXCEPT !.size = n]
        PROVE  IsSection(stream'[f]) /\ stream'[f].pos = stream[f].pos /\ stream'[f].copied = stream[f].copied
    BY <2>1, <2>3, SectionFieldNames DEF IsSection
  <2> QED
    BY <2>2, <2>3
<1>2. StreamTypes'
  BY <1>1 DEF StreamTypes, States, ReadStates
<1> QED
  BY <1>1, <1>2 DEF HeaderMoves, IsSection

(* Most steps leave the sections alone. *)
SectionFieldsOf == {"flags", "winbytes", "data_sect", "inst_sect", "addr_sect"}
HeaderFields == {"magic", "codetbl", "codetblsz", "appheader", "appheadsz", "cksum"}

LEMMA HeaderQuiet ==
  ASSUME StreamTypes, stream.dec_state \in HeadStates, ibuf' = ibuf, at' \in at..Len(ibuf),
         ret' = "XD3_INPUT" => at' = Len(ibuf),
         NEW changed, Fields(stream', changed), changed \cap SectionFieldsOf = {},
         stream'.dec_state \in HeadStates \cup {"DEC_DATA"},
         stream'.part32 \in Nat, stream'.part64 \in Nat, HeaderInv'
  PROVE  HeaderMoves
<1>1. /\ IsStream(stream') /\ stream'.flags = stream.flags /\ stream'.winbytes = stream.winbytes
      /\ stream'.data_sect = stream.data_sect /\ stream'.inst_sect = stream.inst_sect
      /\ stream'.addr_sect = stream.addr_sect
  BY StreamFieldNames, Zenon DEF Fields, SectionFieldsOf
<1>2. \A f \in Sections : stream'[f] = stream[f]
  BY <1>1, SectionsAre
<1> QED
  BY <1>1, <1>2, HeaderTo

(* The states follow one another, and so do what their fields must hold. *)
Later(old, new) ==
  /\ old \in HeadStates /\ new \in HeadStates \cup {"DEC_DATA"}
  /\ new = "DEC_VCHEAD" => old = "DEC_VCHEAD"
  /\ new \in TableStates => old \in TableStates
  /\ new \in BeforeAppDat => old \in BeforeAppDat
  /\ new \in SizeStates => old \in SizeStates
  /\ new = "DEC_CKSUM" => old \in SizeStates \cup {"DEC_CKSUM"}

(* Others the header's data too. *)
LEMMA HeaderKept ==
  ASSUME HeaderInv, NEW changed, Fields(stream', changed), changed \cap HeaderFields = {},
         Later(stream.dec_state, stream'.dec_state)
  PROVE  HeaderInv'
<1>1. /\ stream'.magic = stream.magic /\ stream'.codetbl = stream.codetbl
      /\ stream'.codetblsz = stream.codetblsz /\ stream'.appheader = stream.appheader
      /\ stream'.appheadsz = stream.appheadsz /\ stream'.cksum = stream.cksum
  BY StreamFieldNames, Zenon DEF Fields, HeaderFields
<1>2. Len(<<>>) <= 4
  OBVIOUS
<1> QED
  BY <1>1, <1>2 DEF HeaderInv, Later

LEMMA DecHdrIndMoves == ASSUME DedeltaInv, DecHdrInd PROVE HeaderMoves
<1>1. StreamTypes /\ HeaderInv /\ FileInv
  BY Parts
<1>2. /\ stream.dec_state = "DEC_HDRIND" /\ ibuf' = ibuf /\ ret = "calling"
      /\ \/ AvailIn = 0 /\ stream' = stream /\ ret' = "XD3_INPUT" /\ at' = at
         \/ AvailIn # 0 /\ at' = at + 1 /\ stream' = stream /\ ret' = "XD3_INVALID_INPUT"
         \/ /\ AvailIn # 0 /\ at' = at + 1 /\ ret' = ret
            /\ stream' = [At(stream, "DEC_SECONDID") EXCEPT !.hdr_ind = ibuf[at + 1]]
  BY DEF DecHdrInd, DecodeByte, Case, Return, Goto, Refuse
<1>3. IsStream(stream)
  BY <1>1 DEF StreamTypes
<1>4. Fields(stream', {"dec_state", "hdr_ind"}) /\ stream'.dec_state \in {"DEC_HDRIND", "DEC_SECONDID"}
  BY <1>2, <1>3, StreamFieldNames, ZenonT(30) DEF Fields, IsStream, At
<1>5. Later(stream.dec_state, stream'.dec_state)
  BY <1>2, <1>4 DEF Later, HeadStates, BeforeAppDat, TableStates, SizeStates
<1>6. HeaderInv'
  BY <1>1, <1>4, <1>5, HeaderKept DEF HeaderFields
<1>7. stream'.part32 \in Nat /\ stream'.part64 \in Nat
  BY <1>1, <1>4, StreamFieldNames DEF Fields, StreamTypes
<1>8. at' \in at..Len(ibuf) /\ (ret' = "XD3_INPUT" => at' = Len(ibuf))
  BY <1>1, <1>2, OneByte
<1> QED
  BY <1>1, <1>2, <1>4, <1>5, <1>6, <1>7, <1>8, HeaderQuiet DEF Later, SectionFieldsOf

LEMMA DecSecondIdMoves == ASSUME DedeltaInv, DecSecondId PROVE HeaderMoves
<1>1. StreamTypes /\ HeaderInv /\ FileInv
  BY Parts
<1>2. /\ stream.dec_state = "DEC_SECONDID" /\ ibuf' = ibuf /\ ret = "calling"
      /\ \/ AvailIn = 0 /\ stream' = stream /\ ret' = "XD3_INPUT" /\ at' = at
         \/ /\ AvailIn # 0 /\ at' = at + 1 /\ stream' = At(stream, "DEC_TABLEN")
            /\ ret' \in {"XD3_INTERNAL", "XD3_INVALID_INPUT"}
         \/ stream' = At(stream, "DEC_TABLEN") /\ at' = at /\ ret' = ret
  BY DEF DecSecondId, DecodeByte, Case, Return, Goto, Refuse
<1>3. IsStream(stream)
  BY <1>1 DEF StreamTypes
<1>4. Fields(stream', {"dec_state"}) /\ stream'.dec_state \in {"DEC_SECONDID", "DEC_TABLEN"}
  BY <1>2, <1>3, StreamFieldNames, SMTT(30) DEF Fields, IsStream, At
<1>5. Later(stream.dec_state, stream'.dec_state)
  BY <1>2, <1>4 DEF Later, HeadStates, BeforeAppDat, TableStates, SizeStates
<1>6. HeaderInv'
  BY <1>1, <1>4, <1>5, HeaderKept DEF HeaderFields
<1>7. stream'.part32 \in Nat /\ stream'.part64 \in Nat
  BY <1>1, <1>4, StreamFieldNames DEF Fields, StreamTypes
<1>8. at' \in at..Len(ibuf) /\ (ret' = "XD3_INPUT" => at' = Len(ibuf))
  BY <1>1, <1>2, OneByte
<1> QED
  BY <1>1, <1>2, <1>4, <1>5, <1>6, <1>7, <1>8, HeaderQuiet DEF Later, SectionFieldsOf

LEMMA DecNearMoves == ASSUME DedeltaInv, DecNear PROVE HeaderMoves
<1>1. StreamTypes /\ HeaderInv /\ FileInv
  BY Parts
<1>2. /\ stream.dec_state = "DEC_NEAR" /\ ibuf' = ibuf /\ ret = "calling"
      /\ \/ AvailIn = 0 /\ stream' = stream /\ ret' = "XD3_INPUT" /\ at' = at
         \/ AvailIn # 0 /\ at' = at + 1 /\ stream' = stream /\ ret' = "XD3_INVALID_INPUT"
         \/ /\ AvailIn # 0 /\ at' = at + 1 /\ ret' = ret
            /\ stream' = [At(stream, "DEC_SAME") EXCEPT !.s_near = ibuf[at + 1]]
         \/ stream' = At(stream, "DEC_SAME") /\ at' = at /\ ret' = ret
  BY DEF DecNear, ModesCase, DecodeByte, Case, Return, Goto, Refuse
<1>3. IsStream(stream)
  BY <1>1 DEF StreamTypes
<1>4. Fields(stream', {"dec_state", "s_near"}) /\ stream'.dec_state \in {"DEC_NEAR", "DEC_SAME"}
  BY <1>2, <1>3, StreamFieldNames, ZenonT(30) DEF Fields, IsStream, At
<1>5. Later(stream.dec_state, stream'.dec_state)
  BY <1>2, <1>4 DEF Later, HeadStates, BeforeAppDat, TableStates, SizeStates
<1>6. HeaderInv'
  BY <1>1, <1>4, <1>5, HeaderKept DEF HeaderFields
<1>7. stream'.part32 \in Nat /\ stream'.part64 \in Nat
  BY <1>1, <1>4, StreamFieldNames DEF Fields, StreamTypes
<1>8. at' \in at..Len(ibuf) /\ (ret' = "XD3_INPUT" => at' = Len(ibuf))
  BY <1>1, <1>2, OneByte
<1> QED
  BY <1>1, <1>2, <1>4, <1>5, <1>6, <1>7, <1>8, HeaderQuiet DEF Later, SectionFieldsOf

LEMMA DecSameMoves == ASSUME DedeltaInv, DecSame PROVE HeaderMoves
<1>1. StreamTypes /\ HeaderInv /\ FileInv
  BY Parts
<1>2. /\ stream.dec_state = "DEC_SAME" /\ ibuf' = ibuf /\ ret = "calling"
      /\ \/ AvailIn = 0 /\ stream' = stream /\ ret' = "XD3_INPUT" /\ at' = at
         \/ AvailIn # 0 /\ at' = at + 1 /\ stream' = stream /\ ret' = "XD3_INVALID_INPUT"
         \/ /\ AvailIn # 0 /\ at' = at + 1 /\ ret' = ret
            /\ stream' = [At(stream, "DEC_TABDAT") EXCEPT !.s_same = ibuf[at + 1]]
         \/ stream' = At(stream, "DEC_TABDAT") /\ at' = at /\ ret' = ret
  BY DEF DecSame, ModesCase, DecodeByte, Case, Return, Goto, Refuse
<1>3. IsStream(stream)
  BY <1>1 DEF StreamTypes
<1>4. Fields(stream', {"dec_state", "s_same"}) /\ stream'.dec_state \in {"DEC_SAME", "DEC_TABDAT"}
  BY <1>2, <1>3, StreamFieldNames, ZenonT(30) DEF Fields, IsStream, At
<1>5. Later(stream.dec_state, stream'.dec_state)
  BY <1>2, <1>4 DEF Later, HeadStates, BeforeAppDat, TableStates, SizeStates
<1>6. HeaderInv'
  BY <1>1, <1>4, <1>5, HeaderKept DEF HeaderFields
<1>7. stream'.part32 \in Nat /\ stream'.part64 \in Nat
  BY <1>1, <1>4, StreamFieldNames DEF Fields, StreamTypes
<1>8. at' \in at..Len(ibuf) /\ (ret' = "XD3_INPUT" => at' = Len(ibuf))
  BY <1>1, <1>2, OneByte
<1> QED
  BY <1>1, <1>2, <1>4, <1>5, <1>6, <1>7, <1>8, HeaderQuiet DEF Later, SectionFieldsOf

LEMMA DecDelIndMoves == ASSUME DedeltaInv, DecDelInd PROVE HeaderMoves
<1>1. StreamTypes /\ HeaderInv /\ FileInv
  BY Parts
<1>2. /\ stream.dec_state = "DEC_DELIND" /\ ibuf' = ibuf /\ ret = "calling"
      /\ \/ AvailIn = 0 /\ stream' = stream /\ ret' = "XD3_INPUT" /\ at' = at
         \/ AvailIn # 0 /\ at' = at + 1 /\ stream' = stream /\ ret' = "XD3_INVALID_INPUT"
         \/ /\ AvailIn # 0 /\ at' = at + 1 /\ ret' = ret
            /\ stream' = [At(stream, "DEC_DATALEN") EXCEPT !.del_ind = ibuf[at + 1]]
  BY DEF DecDelInd, DecodeByte, Case, Return, Goto, Refuse
<1>3. IsStream(stream)
  BY <1>1 DEF StreamTypes
<1>4. Fields(stream', {"dec_state", "del_ind"}) /\ stream'.dec_state \in {"DEC_DELIND", "DEC_DATALEN"}
  BY <1>2, <1>3, StreamFieldNames, ZenonT(30) DEF Fields, IsStream, At
<1>5. Later(stream.dec_state, stream'.dec_state)
  BY <1>2, <1>4 DEF Later, HeadStates, BeforeAppDat, TableStates, SizeStates
<1>6. HeaderInv'
  BY <1>1, <1>4, <1>5, HeaderKept DEF HeaderFields
<1>7. stream'.part32 \in Nat /\ stream'.part64 \in Nat
  BY <1>1, <1>4, StreamFieldNames DEF Fields, StreamTypes
<1>8. at' \in at..Len(ibuf) /\ (ret' = "XD3_INPUT" => at' = Len(ibuf))
  BY <1>1, <1>2, OneByte
<1> QED
  BY <1>1, <1>2, <1>4, <1>5, <1>6, <1>7, <1>8, HeaderQuiet DEF Later, SectionFieldsOf

LEMMA DecCpyLenMoves == ASSUME DedeltaInv, DecCpyLen PROVE HeaderMoves
<1> DEFINE r == DecodeInteger(stream.part32, Remaining, Word)
           s == [stream EXCEPT !.part32 = r.part]
<1>1. StreamTypes /\ HeaderInv /\ FileInv
  BY Parts
<1>2. /\ stream.dec_state = "DEC_CPYLEN" /\ ibuf' = ibuf /\ ret = "calling"
      /\ \/ /\ at' = at + r.used
            /\ \/ stream' = s /\ ret' = r.ret
               \/ stream' = [At(s, "DEC_CPYOFF") EXCEPT !.cpylen = r.val, !.position = r.val] /\ ret' = ret
         \/ stream' = [At(stream, "DEC_CPYOFF") EXCEPT !.position = stream.cpylen] /\ ret' = ret /\ at' = at
  BY DEF DecCpyLen, NumberCase, DecodeNumber, Case, Return, Goto
<1>3. /\ at + r.used \in at..Len(ibuf) /\ r.part \in Nat /\ at \in at..Len(ibuf)
      /\ r.ret = "XD3_INPUT" => at + r.used = Len(ibuf)
      /\ r.ret = "ok" => r.val \in Nat
  BY <1>1, SomeDigits, OneByte DEF StreamTypes
<1> HIDE DEF r
<1>4. IsStream(stream)
  BY <1>1 DEF StreamTypes
<1>5. /\ Fields(stream', {"dec_state", "part32", "cpylen", "position"})
      /\ stream'.dec_state = "DEC_CPYLEN" \/ stream'.dec_state = "DEC_CPYOFF"
      /\ stream'.part32 = stream.part32 \/ stream'.part32 = r.part
  <2>1. CASE stream' = s
    BY <1>4, <2>1, <1>2, StreamFieldNames, SMTT(30) DEF Fields, IsStream, At
  <2>2. CASE stream' = [At(s, "DEC_CPYOFF") EXCEPT !.cpylen = r.val, !.position = r.val]
    BY <1>4, <2>2, <1>2, StreamFieldNames, ZenonT(30) DEF Fields, IsStream, At
  <2>3. CASE stream' = [At(stream, "DEC_CPYOFF") EXCEPT !.position = stream.cpylen]
    BY <1>4, <2>3, <1>2, StreamFieldNames, ZenonT(30) DEF Fields, IsStream, At
  <2> QED
    BY <1>2, <2>1, <2>2, <2>3, SMTT(20)
<1>7. Later(stream.dec_state, stream'.dec_state)
  BY <1>2, <1>5 DEF Later, HeadStates, BeforeAppDat, TableStates, SizeStates
<1>8. HeaderInv'
  BY <1>1, <1>5, <1>7, HeaderKept DEF HeaderFields
<1>9. stream'.part32 \in Nat /\ stream'.part64 \in Nat
  BY <1>1, <1>3, <1>5, StreamFieldNames DEF Fields, StreamTypes
<1>10. at' \in at..Len(ibuf) /\ (ret' = "XD3_INPUT" => at' = Len(ibuf))
  BY <1>2, <1>3
<1> QED
  BY <1>1, <1>2, <1>5, <1>7, <1>8, <1>9, <1>10, HeaderQuiet DEF Later, SectionFieldsOf

LEMMA DecCpyOffMoves == ASSUME DedeltaInv, DecCpyOff PROVE HeaderMoves
<1> DEFINE r == DecodeInteger(stream.part64, Remaining, XWord)
           s == [stream EXCEPT !.part64 = r.part]
<1>1. StreamTypes /\ HeaderInv /\ FileInv
  BY Parts
<1>2. /\ stream.dec_state = "DEC_CPYOFF" /\ ibuf' = ibuf /\ ret = "calling"
      /\ \/ /\ at' = at + r.used
            /\ \/ stream' = s /\ ret' = r.ret
               \/ stream' = At([s EXCEPT !.cpyoff = r.val], "DEC_ENCLEN") /\ ret' = ret
               \/ stream' = [s EXCEPT !.cpyoff = r.val] /\ ret' = "XD3_INVALID_INPUT"
         \/ stream' = At(stream, "DEC_ENCLEN") /\ ret' = ret /\ at' = at
         \/ stream' = stream /\ ret' = "XD3_INVALID_INPUT" /\ at' = at
  BY DEF DecCpyOff, NumberCase, DecodeNumber, Case, Return, Goto
<1>3. /\ at + r.used \in at..Len(ibuf) /\ r.part \in Nat /\ at \in at..Len(ibuf)
      /\ r.ret = "XD3_INPUT" => at + r.used = Len(ibuf)
      /\ r.ret = "ok" => r.val \in Nat
  BY <1>1, SomeDigits, OneByte DEF StreamTypes
<1> HIDE DEF r
<1>4. IsStream(stream)
  BY <1>1 DEF StreamTypes
<1>5. /\ Fields(stream', {"dec_state", "part64", "cpyoff"})
      /\ stream'.dec_state = "DEC_CPYOFF" \/ stream'.dec_state = "DEC_ENCLEN"
      /\ stream'.part64 = stream.part64 \/ stream'.part64 = r.part
  <2>1. CASE stream' = s
    BY <1>4, <2>1, <1>2, StreamFieldNames, SMTT(30) DEF Fields, IsStream, At
  <2>2. CASE stream' = At([s EXCEPT !.cpyoff = r.val], "DEC_ENCLEN")
    BY <1>4, <2>2, <1>2, StreamFieldNames, ZenonT(30) DEF Fields, IsStream, At
  <2>3. CASE stream' = [s EXCEPT !.cpyoff = r.val]
    BY <1>4, <2>3, <1>2, StreamFieldNames, ZenonT(30) DEF Fields, IsStream, At
  <2>4. CASE stream' = At(stream, "DEC_ENCLEN")
    BY <1>4, <2>4, <1>2, StreamFieldNames, SMTT(30) DEF Fields, IsStream, At
  <2>5. CASE stream' = stream
    BY <1>4, <2>5, <1>2, StreamFieldNames, SMTT(30) DEF Fields, IsStream, At
  <2> QED
    BY <1>2, <2>1, <2>2, <2>3, <2>4, <2>5
<1>7. Later(stream.dec_state, stream'.dec_state)
  BY <1>2, <1>5 DEF Later, HeadStates, BeforeAppDat, TableStates, SizeStates
<1>8. HeaderInv'
  BY <1>1, <1>5, <1>7, HeaderKept DEF HeaderFields
<1>9. stream'.part32 \in Nat /\ stream'.part64 \in Nat
  BY <1>1, <1>3, <1>5, StreamFieldNames DEF Fields, StreamTypes
<1>10. at' \in at..Len(ibuf) /\ (ret' = "XD3_INPUT" => at' = Len(ibuf))
  BY <1>2, <1>3
<1> QED
  BY <1>1, <1>2, <1>5, <1>7, <1>8, <1>9, <1>10, HeaderQuiet DEF Later, SectionFieldsOf

LEMMA DecEncLenMoves == ASSUME DedeltaInv, DecEncLen PROVE HeaderMoves
<1> DEFINE r == DecodeInteger(stream.part32, Remaining, Word)
           s == [stream EXCEPT !.part32 = r.part]
<1>1. StreamTypes /\ HeaderInv /\ FileInv
  BY Parts
<1>2. /\ stream.dec_state = "DEC_ENCLEN" /\ ibuf' = ibuf /\ ret = "calling"
      /\ \/ /\ at' = at + r.used
            /\ \/ stream' = s /\ ret' = r.ret
               \/ stream' = [At(s, "DEC_TGTLEN") EXCEPT !["enclen"] = r.val] /\ ret' = ret
  BY DEF DecEncLen, SizeCase, NumberCase, DecodeNumber, Case, Return, Goto
<1>3. /\ at + r.used \in at..Len(ibuf) /\ r.part \in Nat /\ at \in at..Len(ibuf)
      /\ r.ret = "XD3_INPUT" => at + r.used = Len(ibuf)
      /\ r.ret = "ok" => r.val \in Nat
  BY <1>1, SomeDigits, OneByte DEF StreamTypes
<1> HIDE DEF r
<1>4. IsStream(stream)
  BY <1>1 DEF StreamTypes
<1>5. /\ Fields(stream', {"dec_state", "part32", "enclen"})
      /\ stream'.dec_state = "DEC_ENCLEN" \/ stream'.dec_state = "DEC_TGTLEN"
      /\ stream'.part32 = stream.part32 \/ stream'.part32 = r.part
  <2>1. CASE stream' = s
    BY <1>4, <2>1, <1>2, StreamFieldNames, SMTT(30) DEF Fields, IsStream, At
  <2>2. CASE stream' = [At(s, "DEC_TGTLEN") EXCEPT !["enclen"] = r.val]
    BY <1>4, <2>2, <1>2, StreamFieldNames, ZenonT(30) DEF Fields, IsStream, At
  <2> QED
    BY <1>2, <2>1, <2>2
<1>7. Later(stream.dec_state, stream'.dec_state)
  BY <1>2, <1>5 DEF Later, HeadStates, BeforeAppDat, TableStates, SizeStates
<1>8. HeaderInv'
  BY <1>1, <1>5, <1>7, HeaderKept DEF HeaderFields
<1>9. stream'.part32 \in Nat /\ stream'.part64 \in Nat
  BY <1>1, <1>3, <1>5, StreamFieldNames DEF Fields, StreamTypes
<1>10. at' \in at..Len(ibuf) /\ (ret' = "XD3_INPUT" => at' = Len(ibuf))
  BY <1>2, <1>3
<1> QED
  BY <1>1, <1>2, <1>5, <1>7, <1>8, <1>9, <1>10, HeaderQuiet DEF Later, SectionFieldsOf

LEMMA DecTgtLenMoves == ASSUME DedeltaInv, DecTgtLen PROVE HeaderMoves
<1> DEFINE r == DecodeInteger(stream.part32, Remaining, Word)
           s == [stream EXCEPT !.part32 = r.part]
<1>1. StreamTypes /\ HeaderInv /\ FileInv
  BY Parts
<1>2. /\ stream.dec_state = "DEC_TGTLEN" /\ ibuf' = ibuf /\ ret = "calling"
      /\ \/ /\ at' = at + r.used
            /\ \/ stream' = s /\ ret' = r.ret
               \/ stream' = [s EXCEPT !.tgtlen = r.val] /\ ret' = "XD3_INVALID_INPUT"
               \/ stream' = [At(s, "DEC_DELIND") EXCEPT !.tgtlen = r.val, !.maxpos = s.cpylen + r.val] /\ ret' = ret
  BY DEF DecTgtLen, NumberCase, DecodeNumber, Case, Return, Goto
<1>3. /\ at + r.used \in at..Len(ibuf) /\ r.part \in Nat /\ at \in at..Len(ibuf)
      /\ r.ret = "XD3_INPUT" => at + r.used = Len(ibuf)
      /\ r.ret = "ok" => r.val \in Nat
  BY <1>1, SomeDigits, OneByte DEF StreamTypes
<1> HIDE DEF r
<1>4. IsStream(stream)
  BY <1>1 DEF StreamTypes
<1>5. /\ Fields(stream', {"dec_state", "part32", "tgtlen", "maxpos"})
      /\ stream'.dec_state = "DEC_TGTLEN" \/ stream'.dec_state = "DEC_DELIND"
      /\ stream'.part32 = stream.part32 \/ stream'.part32 = r.part
  <2>1. CASE stream' = s
    BY <1>4, <2>1, <1>2, StreamFieldNames, SMTT(30) DEF Fields, IsStream, At
  <2>2. CASE stream' = [s EXCEPT !.tgtlen = r.val]
    BY <1>4, <2>2, <1>2, StreamFieldNames, ZenonT(30) DEF Fields, IsStream, At
  <2>3. CASE stream' = [At(s, "DEC_DELIND") EXCEPT !.tgtlen = r.val, !.maxpos = s.cpylen + r.val]
    BY <1>4, <2>3, <1>2, StreamFieldNames, ZenonT(30) DEF Fields, IsStream, At
  <2> QED
    BY <1>2, <2>1, <2>2, <2>3, SMTT(20)
<1>7. Later(stream.dec_state, stream'.dec_state)
  BY <1>2, <1>5 DEF Later, HeadStates, BeforeAppDat, TableStates, SizeStates
<1>8. HeaderInv'
  BY <1>1, <1>5, <1>7, HeaderKept DEF HeaderFields
<1>9. stream'.part32 \in Nat /\ stream'.part64 \in Nat
  BY <1>1, <1>3, <1>5, StreamFieldNames DEF Fields, StreamTypes
<1>10. at' \in at..Len(ibuf) /\ (ret' = "XD3_INPUT" => at' = Len(ibuf))
  BY <1>2, <1>3
<1> QED
  BY <1>1, <1>2, <1>5, <1>7, <1>8, <1>9, <1>10, HeaderQuiet DEF Later, SectionFieldsOf

LEMMA DecDataLenMoves == ASSUME DedeltaInv, DecDataLen PROVE HeaderMoves
<1> DEFINE r == DecodeInteger(stream.part32, Remaining, Word)
           s == [stream EXCEPT !.part32 = r.part]
<1>1. StreamTypes /\ HeaderInv /\ FileInv
  BY Parts
<1>2. /\ stream.dec_state = "DEC_DATALEN" /\ ibuf' = ibuf /\ ret = "calling"
      /\ \/ /\ at' = at + r.used
            /\ \/ stream' = s /\ ret' = r.ret
               \/ stream' = [At(s, "DEC_INSTLEN") EXCEPT !["data_sect"] = [@ EXCEPT !.size = r.val]] /\ ret' = ret /\ r.ret = "ok"
  BY DEF DecDataLen, SectionSizeCase, NumberCase, DecodeNumber, Case, Return, Goto
<1>3. /\ at + r.used \in at..Len(ibuf) /\ r.part \in Nat /\ at \in at..Len(ibuf)
      /\ r.ret = "XD3_INPUT" => at + r.used = Len(ibuf)
      /\ r.ret = "ok" => r.val \in Nat
  BY <1>1, SomeDigits, OneByte DEF StreamTypes
<1> HIDE DEF r
<1>4. IsStream(stream) /\ IsStream(At(s, "DEC_INSTLEN")) /\ At(s, "DEC_INSTLEN").data_sect = stream.data_sect
  BY <1>1, StreamFieldNames, ZenonT(30) DEF StreamTypes, IsStream, At
<1>5. /\ Fields(stream', {"dec_state", "part32", "data_sect"}) /\ stream'.dec_state \in {"DEC_DATALEN", "DEC_INSTLEN"}
      /\ stream'.part32 = r.part
      /\ \/ stream'.data_sect = stream.data_sect
         \/ r.ret = "ok" /\ stream'.data_sect = [stream.data_sect EXCEPT !.size = r.val]
  <2>1. CASE stream' = s
    BY <1>2, <1>4, <2>1, StreamFieldNames, ZenonT(30) DEF Fields, IsStream
  <2>2. CASE stream' # s
    <3> DEFINE x == [stream.data_sect EXCEPT !.size = r.val]
    <3>1. r.ret = "ok" /\ stream' = [At(s, "DEC_INSTLEN") EXCEPT !.data_sect = x]
      BY <1>2, <1>4, <2>2
    <3> HIDE DEF x
    <3>2. /\ Fields(stream', {"dec_state", "part32", "data_sect"}) /\ stream'.dec_state = "DEC_INSTLEN"
          /\ stream'.part32 = r.part /\ stream'.data_sect = x
      BY <1>4, <3>1, StreamFieldNames, ZenonT(30) DEF Fields, IsStream, At
    <3> QED
      BY <3>1, <3>2 DEF x
  <2> QED
    BY <2>1, <2>2
<1>6. Later(stream.dec_state, stream'.dec_state)
  BY <1>2, <1>5 DEF Later, HeadStates, BeforeAppDat, TableStates, SizeStates
<1>7. HeaderInv'
  BY <1>1, <1>5, <1>6, HeaderKept DEF HeaderFields
<1>8. stream'.part32 \in Nat /\ stream'.part64 \in Nat
  BY <1>1, <1>3, <1>5, StreamFieldNames DEF Fields, StreamTypes
<1>9. at' \in at..Len(ibuf) /\ (ret' = "XD3_INPUT" => at' = Len(ibuf))
  BY <1>2, <1>3
<1>10. /\ IsStream(stream') /\ stream'.flags = stream.flags /\ stream'.winbytes = stream.winbytes
       /\ \A g \in Sections : g # "data_sect" => stream'[g] = stream[g]
  BY <1>5, StreamFieldNames, SectionsAre, Zenon DEF Fields
<1>11. \A g \in Sections : \/ stream'[g] = stream[g]
                          \/ \E n \in Nat : stream'[g] = [stream[g] EXCEPT !.size = n]
  BY <1>3, <1>5, <1>10
<1> QED
  BY <1>1, <1>2, <1>6, <1>7, <1>8, <1>9, <1>10, <1>11, HeaderTo DEF Later

LEMMA DecInstLenMoves == ASSUME DedeltaInv, DecInstLen PROVE HeaderMoves
<1> DEFINE r == DecodeInteger(stream.part32, Remaining, Word)
           s == [stream EXCEPT !.part32 = r.part]
<1>1. StreamTypes /\ HeaderInv /\ FileInv
  BY Parts
<1>2. /\ stream.dec_state = "DEC_INSTLEN" /\ ibuf' = ibuf /\ ret = "calling"
      /\ \/ /\ at' = at + r.used
            /\ \/ stream' = s /\ ret' = r.ret
               \/ stream' = [At(s, "DEC_ADDRLEN") EXCEPT !["inst_sect"] = [@ EXCEPT !.size = r.val]] /\ ret' = ret /\ r.ret = "ok"
  BY DEF DecInstLen, SectionSizeCase, NumberCase, DecodeNumber, Case, Return, Goto
<1>3. /\ at + r.used \in at..Len(ibuf) /\ r.part \in Nat /\ at \in at..Len(ibuf)
      /\ r.ret = "XD3_INPUT" => at + r.used = Len(ibuf)
      /\ r.ret = "ok" => r.val \in Nat
  BY <1>1, SomeDigits, OneByte DEF StreamTypes
<1> HIDE DEF r
<1>4. IsStream(stream) /\ IsStream(At(s, "DEC_ADDRLEN")) /\ At(s, "DEC_ADDRLEN").inst_sect = stream.inst_sect
  BY <1>1, StreamFieldNames, ZenonT(30) DEF StreamTypes, IsStream, At
<1>5. /\ Fields(stream', {"dec_state", "part32", "inst_sect"}) /\ stream'.dec_state \in {"DEC_INSTLEN", "DEC_ADDRLEN"}
      /\ stream'.part32 = r.part
      /\ \/ stream'.inst_sect = stream.inst_sect
         \/ r.ret = "ok" /\ stream'.inst_sect = [stream.inst_sect EXCEPT !.size = r.val]
  <2>1. CASE stream' = s
    BY <1>2, <1>4, <2>1, StreamFieldNames, ZenonT(30) DEF Fields, IsStream
  <2>2. CASE stream' # s
    <3> DEFINE x == [stream.inst_sect EXCEPT !.size = r.val]
    <3>1. r.ret = "ok" /\ stream' = [At(s, "DEC_ADDRLEN") EXCEPT !.inst_sect = x]
      BY <1>2, <1>4, <2>2
    <3> HIDE DEF x
    <3>2. /\ Fields(stream', {"dec_state", "part32", "inst_sect"}) /\ stream'.dec_state = "DEC_ADDRLEN"
          /\ stream'.part32 = r.part /\ stream'.inst_sect = x
      BY <1>4, <3>1, StreamFieldNames, ZenonT(30) DEF Fields, IsStream, At
    <3> QED
      BY <3>1, <3>2 DEF x
  <2> QED
    BY <2>1, <2>2
<1>6. Later(stream.dec_state, stream'.dec_state)
  BY <1>2, <1>5 DEF Later, HeadStates, BeforeAppDat, TableStates, SizeStates
<1>7. HeaderInv'
  BY <1>1, <1>5, <1>6, HeaderKept DEF HeaderFields
<1>8. stream'.part32 \in Nat /\ stream'.part64 \in Nat
  BY <1>1, <1>3, <1>5, StreamFieldNames DEF Fields, StreamTypes
<1>9. at' \in at..Len(ibuf) /\ (ret' = "XD3_INPUT" => at' = Len(ibuf))
  BY <1>2, <1>3
<1>10. /\ IsStream(stream') /\ stream'.flags = stream.flags /\ stream'.winbytes = stream.winbytes
       /\ \A g \in Sections : g # "inst_sect" => stream'[g] = stream[g]
  BY <1>5, StreamFieldNames, SectionsAre, Zenon DEF Fields
<1>11. \A g \in Sections : \/ stream'[g] = stream[g]
                          \/ \E n \in Nat : stream'[g] = [stream[g] EXCEPT !.size = n]
  BY <1>3, <1>5, <1>10
<1> QED
  BY <1>1, <1>2, <1>6, <1>7, <1>8, <1>9, <1>10, <1>11, HeaderTo DEF Later

LEMMA DecAddrLenMoves == ASSUME DedeltaInv, DecAddrLen PROVE HeaderMoves
<1> DEFINE r == DecodeInteger(stream.part32, Remaining, Word)
           s == [stream EXCEPT !.part32 = r.part]
<1>1. StreamTypes /\ HeaderInv /\ FileInv
  BY Parts
<1>2. /\ stream.dec_state = "DEC_ADDRLEN" /\ ibuf' = ibuf /\ ret = "calling"
      /\ \/ /\ at' = at + r.used
            /\ \/ stream' = s /\ ret' = r.ret
               \/ stream' = [At(s, "DEC_CKSUM") EXCEPT !["addr_sect"] = [@ EXCEPT !.size = r.val]] /\ ret' = ret /\ r.ret = "ok"
  BY DEF DecAddrLen, SectionSizeCase, NumberCase, DecodeNumber, Case, Return, Goto
<1>3. /\ at + r.used \in at..Len(ibuf) /\ r.part \in Nat /\ at \in at..Len(ibuf)
      /\ r.ret = "XD3_INPUT" => at + r.used = Len(ibuf)
      /\ r.ret = "ok" => r.val \in Nat
  BY <1>1, SomeDigits, OneByte DEF StreamTypes
<1> HIDE DEF r
<1>4. IsStream(stream) /\ IsStream(At(s, "DEC_CKSUM")) /\ At(s, "DEC_CKSUM").addr_sect = stream.addr_sect
  BY <1>1, StreamFieldNames, ZenonT(30) DEF StreamTypes, IsStream, At
<1>5. /\ Fields(stream', {"dec_state", "part32", "addr_sect"}) /\ stream'.dec_state \in {"DEC_ADDRLEN", "DEC_CKSUM"}
      /\ stream'.part32 = r.part
      /\ \/ stream'.addr_sect = stream.addr_sect
         \/ r.ret = "ok" /\ stream'.addr_sect = [stream.addr_sect EXCEPT !.size = r.val]
  <2>1. CASE stream' = s
    BY <1>2, <1>4, <2>1, StreamFieldNames, ZenonT(30) DEF Fields, IsStream
  <2>2. CASE stream' # s
    <3> DEFINE x == [stream.addr_sect EXCEPT !.size = r.val]
    <3>1. r.ret = "ok" /\ stream' = [At(s, "DEC_CKSUM") EXCEPT !.addr_sect = x]
      BY <1>2, <1>4, <2>2
    <3> HIDE DEF x
    <3>2. /\ Fields(stream', {"dec_state", "part32", "addr_sect"}) /\ stream'.dec_state = "DEC_CKSUM"
          /\ stream'.part32 = r.part /\ stream'.addr_sect = x
      BY <1>4, <3>1, StreamFieldNames, ZenonT(30) DEF Fields, IsStream, At
    <3> QED
      BY <3>1, <3>2 DEF x
  <2> QED
    BY <2>1, <2>2
<1>6. Later(stream.dec_state, stream'.dec_state)
  BY <1>2, <1>5 DEF Later, HeadStates, BeforeAppDat, TableStates, SizeStates
<1>7. HeaderInv'
  BY <1>1, <1>5, <1>6, HeaderKept DEF HeaderFields
<1>8. stream'.part32 \in Nat /\ stream'.part64 \in Nat
  BY <1>1, <1>3, <1>5, StreamFieldNames DEF Fields, StreamTypes
<1>9. at' \in at..Len(ibuf) /\ (ret' = "XD3_INPUT" => at' = Len(ibuf))
  BY <1>2, <1>3
<1>10. /\ IsStream(stream') /\ stream'.flags = stream.flags /\ stream'.winbytes = stream.winbytes
       /\ \A g \in Sections : g # "addr_sect" => stream'[g] = stream[g]
  BY <1>5, StreamFieldNames, SectionsAre, Zenon DEF Fields
<1>11. \A g \in Sections : \/ stream'[g] = stream[g]
                          \/ \E n \in Nat : stream'[g] = [stream[g] EXCEPT !.size = n]
  BY <1>3, <1>5, <1>10
<1> QED
  BY <1>1, <1>2, <1>6, <1>7, <1>8, <1>9, <1>10, <1>11, HeaderTo DEF Later
LEMMA DecVcHeadMoves == ASSUME DedeltaInv, DecVcHead PROVE HeaderMoves
<1> DEFINE take == Min({4 - Len(stream.magic), AvailIn})
           b == stream.magic \o SubSeq(ibuf, at + 1, at + take)
           s == [stream EXCEPT !.magic = b]
<1>1. StreamTypes /\ HeaderInv /\ FileInv
  BY Parts
<1>2. /\ stream.dec_state = "DEC_VCHEAD" /\ ibuf' = ibuf /\ ret = "calling"
      /\ \/ /\ at' = at + take
            /\ \/ take < 4 - Len(stream.magic) /\ stream' = s /\ ret' = "XD3_INPUT"
               \/ stream' = s /\ ret' = "XD3_INVALID_INPUT"
               \/ stream' = At(s, "DEC_HDRIND") /\ ret' = ret
  BY DEF DecVcHead, DecodeBytes, Case, Return, Goto
<1>3. /\ at + take \in at..Len(ibuf) /\ (take < 4 - Len(stream.magic) => at + take = Len(ibuf))
      /\ b \in Seq(Nat) /\ Len(b) <= 4 /\ at \in at..Len(ibuf)
  BY <1>1, <1>2, SomeBytes, OneByte DEF HeaderInv
<1> HIDE DEF b, take
<1>4. IsStream(stream)
  BY <1>1 DEF StreamTypes
<1>5. /\ Fields(stream', {"dec_state", "magic"})
      /\ stream'.dec_state = "DEC_VCHEAD" \/ stream'.dec_state = "DEC_HDRIND"
      /\ stream'.magic = b
  <2>1. CASE stream' = s
    BY <1>4, <2>1, <1>2, StreamFieldNames, ZenonT(30) DEF Fields, IsStream, At
  <2>2. CASE stream' = At(s, "DEC_HDRIND")
    BY <1>4, <2>2, <1>2, StreamFieldNames, ZenonT(30) DEF Fields, IsStream, At
  <2> QED
    BY <1>2, <2>1, <2>2
<1>6. Later(stream.dec_state, stream'.dec_state)
  BY <1>2, <1>5 DEF Later, HeadStates, BeforeAppDat, TableStates, SizeStates
<1>7. HeaderInv'
  <2>1. /\ stream'.codetbl = stream.codetbl /\ stream'.codetblsz = stream.codetblsz
        /\ stream'.appheader = stream.appheader /\ stream'.appheadsz = stream.appheadsz
        /\ stream'.cksum = stream.cksum
    BY <1>5, StreamFieldNames, Zenon DEF Fields
  <2> QED
    BY <1>1, <1>2, <1>3, <1>5, <1>6, <2>1 DEF HeaderInv, Later, BeforeAppDat, TableStates, SizeStates
<1>8. stream'.part32 \in Nat /\ stream'.part64 \in Nat
  BY <1>1, <1>3, <1>5, StreamFieldNames DEF Fields, StreamTypes
<1>9. at' \in at..Len(ibuf) /\ (ret' = "XD3_INPUT" => at' = Len(ibuf))
  BY <1>2, <1>3
<1> QED
  BY <1>1, <1>2, <1>5, <1>6, <1>7, <1>8, <1>9, HeaderQuiet DEF Later, SectionFieldsOf

LEMMA DecTabDatMoves == ASSUME DedeltaInv, DecTabDat PROVE HeaderMoves
<1> DEFINE take == Min({stream.codetblsz - Len(stream.codetbl), AvailIn})
           b == stream.codetbl \o SubSeq(ibuf, at + 1, at + take)
           s == [stream EXCEPT !.codetbl = b]
<1>1. StreamTypes /\ HeaderInv /\ FileInv
  BY Parts
<1>2. /\ stream.dec_state = "DEC_TABDAT" /\ ibuf' = ibuf /\ ret = "calling"
      /\ \/ /\ at' = at + take
            /\ \/ take < stream.codetblsz - Len(stream.codetbl) /\ stream' = s /\ ret' = "XD3_INPUT"
               \/ stream' = At(s, "DEC_APPLEN") /\ ret' = ret
               \/ stream' = s /\ ret' = "XD3_INTERNAL"
         \/ at' = at /\ stream' = [At(stream, "DEC_APPLEN") EXCEPT
                                     !.s_near = Rfc3284Desc.near_modes, !.s_same = Rfc3284Desc.same_modes] /\ ret' = ret
  BY DEF DecTabDat, DecodeBytes, Case, Return, Goto
<1>3. /\ at + take \in at..Len(ibuf) /\ (take < stream.codetblsz - Len(stream.codetbl) => at + take = Len(ibuf))
      /\ b \in Seq(Nat) /\ Len(b) <= stream.codetblsz /\ at \in at..Len(ibuf)
  BY <1>1, <1>2, SomeBytes, OneByte, ZenonT(30) DEF HeaderInv
<1> HIDE DEF b, take
<1>4. IsStream(stream)
  BY <1>1 DEF StreamTypes
<1>5. /\ Fields(stream', {"dec_state", "codetbl", "s_near", "s_same"})
      /\ stream'.dec_state = "DEC_TABDAT" \/ stream'.dec_state = "DEC_APPLEN"
      /\ stream'.codetbl = b \/ stream'.codetbl = stream.codetbl
  <2>1. CASE stream' = s
    BY <1>4, <2>1, <1>2, StreamFieldNames, ZenonT(30) DEF Fields, IsStream, At
  <2>2. CASE stream' = At(s, "DEC_APPLEN")
    BY <1>4, <2>2, <1>2, StreamFieldNames, ZenonT(30) DEF Fields, IsStream, At
  <2>3. CASE stream' = [At(stream, "DEC_APPLEN") EXCEPT
                                     !.s_near = Rfc3284Desc.near_modes, !.s_same = Rfc3284Desc.same_modes]
    BY <1>4, <2>3, <1>2, StreamFieldNames, ZenonT(30) DEF Fields, IsStream, At
  <2> QED
    BY <1>2, <2>1, <2>2, <2>3
<1>6. Later(stream.dec_state, stream'.dec_state)
  BY <1>2, <1>5 DEF Later, HeadStates, BeforeAppDat, TableStates, SizeStates
<1>7. HeaderInv'
  <2>1. /\ stream'.magic = stream.magic /\ stream'.codetblsz = stream.codetblsz
        /\ stream'.appheader = stream.appheader /\ stream'.appheadsz = stream.appheadsz
        /\ stream'.cksum = stream.cksum
    BY <1>5, StreamFieldNames, Zenon DEF Fields
  <2> QED
    BY <1>1, <1>2, <1>3, <1>5, <1>6, <2>1 DEF HeaderInv, Later, BeforeAppDat, TableStates, SizeStates
<1>8. stream'.part32 \in Nat /\ stream'.part64 \in Nat
  BY <1>1, <1>3, <1>5, StreamFieldNames DEF Fields, StreamTypes
<1>9. at' \in at..Len(ibuf) /\ (ret' = "XD3_INPUT" => at' = Len(ibuf))
  BY <1>2, <1>3
<1> QED
  BY <1>1, <1>2, <1>5, <1>6, <1>7, <1>8, <1>9, HeaderQuiet DEF Later, SectionFieldsOf

LEMMA DecAppDatMoves == ASSUME DedeltaInv, DecAppDat PROVE HeaderMoves
<1> DEFINE take == Min({stream.appheadsz - Len(stream.appheader), AvailIn})
           b == stream.appheader \o SubSeq(ibuf, at + 1, at + take)
           s == [stream EXCEPT !.appheader = b]
<1>1. StreamTypes /\ HeaderInv /\ FileInv
  BY Parts
<1>2. /\ stream.dec_state = "DEC_APPDAT" /\ ibuf' = ibuf /\ ret = "calling"
      /\ \/ /\ at' = at + take
            /\ \/ take < stream.appheadsz - Len(stream.appheader) /\ stream' = s /\ ret' = "XD3_INPUT"
               \/ stream' = At(s, "DEC_WININD") /\ ret' = ret
         \/ at' = at /\ stream' = At(stream, "DEC_WININD") /\ ret' = ret
  BY DEF DecAppDat, DecodeBytes, Case, Return, Goto
<1>3. /\ at + take \in at..Len(ibuf) /\ (take < stream.appheadsz - Len(stream.appheader) => at + take = Len(ibuf))
      /\ b \in Seq(Nat) /\ Len(b) <= stream.appheadsz /\ at \in at..Len(ibuf)
  BY <1>1, <1>2, SomeBytes, OneByte, ZenonT(30) DEF HeaderInv
<1> HIDE DEF b, take
<1>4. IsStream(stream)
  BY <1>1 DEF StreamTypes
<1>5. /\ Fields(stream', {"dec_state", "appheader"})
      /\ stream'.dec_state = "DEC_APPDAT" \/ stream'.dec_state = "DEC_WININD"
      /\ stream'.appheader = b \/ stream'.appheader = stream.appheader
  <2>1. CASE stream' = s
    BY <1>4, <2>1, <1>2, StreamFieldNames, ZenonT(30) DEF Fields, IsStream, At
  <2>2. CASE stream' = At(s, "DEC_WININD")
    BY <1>4, <2>2, <1>2, StreamFieldNames, ZenonT(30) DEF Fields, IsStream, At
  <2>3. CASE stream' = At(stream, "DEC_WININD")
    BY <1>4, <2>3, <1>2, StreamFieldNames, ZenonT(30) DEF Fields, IsStream, At
  <2> QED
    BY <1>2, <2>1, <2>2, <2>3
<1>6. Later(stream.dec_state, stream'.dec_state)
  BY <1>2, <1>5 DEF Later, HeadStates, BeforeAppDat, TableStates, SizeStates
<1>7. HeaderInv'
  <2>1. /\ stream'.magic = stream.magic /\ stream'.codetbl = stream.codetbl
        /\ stream'.codetblsz = stream.codetblsz /\ stream'.appheadsz = stream.appheadsz
        /\ stream'.cksum = stream.cksum
    BY <1>5, StreamFieldNames, Zenon DEF Fields
  <2> QED
    BY <1>1, <1>2, <1>3, <1>5, <1>6, <2>1 DEF HeaderInv, Later, BeforeAppDat, TableStates, SizeStates
<1>8. stream'.part32 \in Nat /\ stream'.part64 \in Nat
  BY <1>1, <1>3, <1>5, StreamFieldNames DEF Fields, StreamTypes
<1>9. at' \in at..Len(ibuf) /\ (ret' = "XD3_INPUT" => at' = Len(ibuf))
  BY <1>2, <1>3
<1> QED
  BY <1>1, <1>2, <1>5, <1>6, <1>7, <1>8, <1>9, HeaderQuiet DEF Later, SectionFieldsOf

LEMMA DecCksumMoves == ASSUME DedeltaInv, DecCksum PROVE HeaderMoves
<1> DEFINE take == Min({4 - Len(stream.cksum), AvailIn})
           b == stream.cksum \o SubSeq(ibuf, at + 1, at + take)
           s == [stream EXCEPT !.cksum = b]
<1>1. StreamTypes /\ HeaderInv /\ FileInv
  BY Parts
<1>2. /\ stream.dec_state = "DEC_CKSUM" /\ ibuf' = ibuf /\ ret = "calling"
      /\ \/ /\ at' = at + take
            /\ \/ take < 4 - Len(stream.cksum) /\ stream' = s /\ ret' = "XD3_INPUT"
               \/ stream' = At(s, "DEC_DATA") /\ ret' # "XD3_INPUT"
         \/ at' = at /\ stream' = At(stream, "DEC_DATA") /\ ret' # "XD3_INPUT"
  BY DEF DecCksum, DecodeBytes, Case, Return, Goto
<1>3. /\ at + take \in at..Len(ibuf) /\ (take < 4 - Len(stream.cksum) => at + take = Len(ibuf))
      /\ b \in Seq(Nat) /\ Len(b) <= 4 /\ at \in at..Len(ibuf)
  BY <1>1, <1>2, SomeBytes, OneByte, ZenonT(30) DEF HeaderInv
<1> HIDE DEF b, take
<1>4. IsStream(stream)
  BY <1>1 DEF StreamTypes
<1>5. /\ Fields(stream', {"dec_state", "cksum"})
      /\ stream'.dec_state = "DEC_CKSUM" \/ stream'.dec_state = "DEC_DATA"
      /\ stream'.cksum = b \/ stream'.cksum = stream.cksum
  <2>1. CASE stream' = s
    BY <1>4, <2>1, <1>2, StreamFieldNames, ZenonT(30) DEF Fields, IsStream, At
  <2>2. CASE stream' = At(s, "DEC_DATA")
    BY <1>4, <2>2, <1>2, StreamFieldNames, ZenonT(30) DEF Fields, IsStream, At
  <2>3. CASE stream' = At(stream, "DEC_DATA")
    BY <1>4, <2>3, <1>2, StreamFieldNames, ZenonT(30) DEF Fields, IsStream, At
  <2> QED
    BY <1>2, <2>1, <2>2, <2>3
<1>6. Later(stream.dec_state, stream'.dec_state)
  BY <1>2, <1>5 DEF Later, HeadStates, BeforeAppDat, TableStates, SizeStates
<1>7. HeaderInv'
  <2>1. /\ stream'.magic = stream.magic /\ stream'.codetbl = stream.codetbl
        /\ stream'.codetblsz = stream.codetblsz /\ stream'.appheader = stream.appheader
        /\ stream'.appheadsz = stream.appheadsz
    BY <1>5, StreamFieldNames, Zenon DEF Fields
  <2> QED
    BY <1>1, <1>2, <1>3, <1>5, <1>6, <2>1 DEF HeaderInv, Later, BeforeAppDat, TableStates, SizeStates
<1>8. stream'.part32 \in Nat /\ stream'.part64 \in Nat
  BY <1>1, <1>3, <1>5, StreamFieldNames DEF Fields, StreamTypes
<1>9. at' \in at..Len(ibuf) /\ (ret' = "XD3_INPUT" => at' = Len(ibuf))
  BY <1>2, <1>3
<1> QED
  BY <1>1, <1>2, <1>5, <1>6, <1>7, <1>8, <1>9, HeaderQuiet DEF Later, SectionFieldsOf

LEMMA DecTabLenMoves == ASSUME DedeltaInv, DecTabLen PROVE HeaderMoves
<1> DEFINE r == DecodeInteger(stream.part32, Remaining, Word)
           s == [stream EXCEPT !.part32 = r.part]
<1>1. StreamTypes /\ HeaderInv /\ FileInv
  BY Parts
<1>2. /\ stream.dec_state = "DEC_TABLEN" /\ ibuf' = ibuf /\ ret = "calling"
      /\ \/ /\ at' = at + r.used
            /\ \/ stream' = s /\ ret' = r.ret
               \/ stream' = s /\ ret' = "ENOMEM"
               \/ stream' = [At(s, "DEC_NEAR") EXCEPT !.codetblsz = r.val - 2] /\ ret' = ret /\ r.ret = "ok" /\ ~(r.val <= 2)
         \/ at' = at /\ stream' = At(stream, "DEC_NEAR") /\ ret' = ret
  BY DEF DecTabLen, NumberCase, DecodeNumber, Case, Return, Goto
<1>3. /\ at + r.used \in at..Len(ibuf) /\ r.part \in Nat /\ at \in at..Len(ibuf)
      /\ r.ret = "XD3_INPUT" => at + r.used = Len(ibuf)
      /\ r.ret = "ok" => r.val \in Nat
  BY <1>1, SomeDigits, OneByte DEF StreamTypes
<1> HIDE DEF r
<1>4. IsStream(stream)
  BY <1>1 DEF StreamTypes
<1>5. /\ Fields(stream', {"dec_state", "part32", "codetblsz"})
      /\ stream'.dec_state = "DEC_TABLEN" \/ stream'.dec_state = "DEC_NEAR"
      /\ stream'.part32 = stream.part32 \/ stream'.part32 = r.part
      /\ stream'.codetblsz = stream.codetblsz \/ (r.ret = "ok" /\ ~(r.val <= 2) /\ stream'.codetblsz = r.val - 2)
  <2>1. CASE stream' = s
    BY <1>4, <2>1, <1>2, StreamFieldNames, SMTT(30) DEF Fields, IsStream, At
  <2>2. CASE stream' = [At(s, "DEC_NEAR") EXCEPT !.codetblsz = r.val - 2]
    BY <1>4, <2>2, <1>2, StreamFieldNames, ZenonT(30) DEF Fields, IsStream, At
  <2>3. CASE stream' = At(stream, "DEC_NEAR")
    BY <1>4, <2>3, <1>2, StreamFieldNames, SMTT(30) DEF Fields, IsStream, At
  <2> QED
    BY <1>2, <2>1, <2>2, <2>3
<1>6. Later(stream.dec_state, stream'.dec_state)
  BY <1>2, <1>5 DEF Later, HeadStates, BeforeAppDat, TableStates, SizeStates
<1>7. HeaderInv'
  <2>1. /\ stream'.magic = stream.magic /\ stream'.codetbl = stream.codetbl
        /\ stream'.appheader = stream.appheader /\ stream'.appheadsz = stream.appheadsz
        /\ stream'.cksum = stream.cksum
    BY <1>5, StreamFieldNames, Zenon DEF Fields
  <2>2. stream'.codetblsz \in Nat
    BY <1>1, <1>3, <1>5 DEF HeaderInv
  <2> QED
    BY <1>1, <1>2, <1>5, <1>6, <2>1, <2>2 DEF HeaderInv, Later, BeforeAppDat, TableStates, SizeStates
<1>8. stream'.part32 \in Nat /\ stream'.part64 \in Nat
  BY <1>1, <1>3, <1>5, StreamFieldNames DEF Fields, StreamTypes
<1>9. at' \in at..Len(ibuf) /\ (ret' = "XD3_INPUT" => at' = Len(ibuf))
  BY <1>2, <1>3
<1> QED
  BY <1>1, <1>2, <1>5, <1>6, <1>7, <1>8, <1>9, HeaderQuiet DEF Later, SectionFieldsOf

LEMMA DecAppLenMoves == ASSUME DedeltaInv, DecAppLen PROVE HeaderMoves
<1> DEFINE r == DecodeInteger(stream.part32, Remaining, Word)
           s == [stream EXCEPT !.part32 = r.part]
<1>1. StreamTypes /\ HeaderInv /\ FileInv
  BY Parts
<1>2. /\ stream.dec_state = "DEC_APPLEN" /\ ibuf' = ibuf /\ ret = "calling"
      /\ \/ /\ at' = at + r.used
            /\ \/ stream' = s /\ ret' = r.ret
               \/ stream' = [At(s, "DEC_APPDAT") EXCEPT !.appheadsz = r.val] /\ ret' = ret /\ r.ret = "ok"
         \/ at' = at /\ stream' = At(stream, "DEC_APPDAT") /\ ret' = ret
  BY DEF DecAppLen, NumberCase, DecodeNumber, Case, Return, Goto
<1>3. /\ at + r.used \in at..Len(ibuf) /\ r.part \in Nat /\ at \in at..Len(ibuf)
      /\ r.ret = "XD3_INPUT" => at + r.used = Len(ibuf)
      /\ r.ret = "ok" => r.val \in Nat
  BY <1>1, SomeDigits, OneByte DEF StreamTypes
<1> HIDE DEF r
<1>4. IsStream(stream)
  BY <1>1 DEF StreamTypes
<1>5. /\ Fields(stream', {"dec_state", "part32", "appheadsz"})
      /\ stream'.dec_state = "DEC_APPLEN" \/ stream'.dec_state = "DEC_APPDAT"
      /\ stream'.part32 = stream.part32 \/ stream'.part32 = r.part
      /\ stream'.appheadsz = stream.appheadsz \/ (r.ret = "ok" /\ stream'.appheadsz = r.val)
  <2>1. CASE stream' = s
    BY <1>4, <2>1, <1>2, StreamFieldNames, SMTT(30) DEF Fields, IsStream, At
  <2>2. CASE stream' = [At(s, "DEC_APPDAT") EXCEPT !.appheadsz = r.val]
    BY <1>4, <2>2, <1>2, StreamFieldNames, ZenonT(30) DEF Fields, IsStream, At
  <2>3. CASE stream' = At(stream, "DEC_APPDAT")
    BY <1>4, <2>3, <1>2, StreamFieldNames, SMTT(30) DEF Fields, IsStream, At
  <2> QED
    BY <1>2, <2>1, <2>2, <2>3
<1>6. Later(stream.dec_state, stream'.dec_state)
  BY <1>2, <1>5 DEF Later, HeadStates, BeforeAppDat, TableStates, SizeStates
<1>7. HeaderInv'
  <2>1. /\ stream'.magic = stream.magic /\ stream'.codetbl = stream.codetbl
        /\ stream'.codetblsz = stream.codetblsz /\ stream'.appheader = stream.appheader
        /\ stream'.cksum = stream.cksum
    BY <1>5, StreamFieldNames, Zenon DEF Fields
  <2>2. stream'.appheadsz \in Nat
    BY <1>1, <1>3, <1>5 DEF HeaderInv
  <2> QED
    BY <1>1, <1>2, <1>5, <1>6, <2>1, <2>2 DEF HeaderInv, Later, BeforeAppDat, TableStates, SizeStates
<1>8. stream'.part32 \in Nat /\ stream'.part64 \in Nat
  BY <1>1, <1>3, <1>5, StreamFieldNames DEF Fields, StreamTypes
<1>9. at' \in at..Len(ibuf) /\ (ret' = "XD3_INPUT" => at' = Len(ibuf))
  BY <1>2, <1>3
<1> QED
  BY <1>1, <1>2, <1>5, <1>6, <1>7, <1>8, <1>9, HeaderQuiet DEF Later, SectionFieldsOf

LEMMA DecWinIndMoves == ASSUME DedeltaInv, DecWinInd PROVE HeaderMoves
<1> DEFINE b == ibuf[at + 1]
           s == [stream EXCEPT !.win_ind = b, !.current_window = stream.window_count,
                               !.winstart = @ + stream.tgtlen]
<1>1. StreamTypes /\ HeaderInv /\ FileInv
  BY Parts
<1>2. /\ stream.dec_state = "DEC_WININD" /\ ibuf' = ibuf /\ ret = "calling"
      /\ \/ AvailIn = 0 /\ stream' = stream /\ ret' = "XD3_INPUT" /\ at' = at
         \/ /\ AvailIn # 0 /\ at' = at + 1
            /\ \/ stream' = stream /\ ret' = "XD3_INVALID_INPUT"
               \/ stream' = s /\ ret' = "XD3_INVALID_INPUT"
               \/ stream' = InitWindow(At(s, "DEC_CPYLEN")) /\ ret' = ret
  BY DEF DecWinInd, DecodeByte, Case, Return, Goto, Refuse
<1>3. IsStream(stream)
  BY <1>1 DEF StreamTypes
<1> DEFINE Changed == {"dec_state", "win_ind", "current_window", "winstart", "cpylen", "cpyoff",
                       "cksum", "acache"}
<1>4. /\ Fields(stream', Changed)
      /\ \/ stream'.dec_state = "DEC_WININD" /\ stream'.cksum = stream.cksum
         \/ stream'.dec_state = "DEC_CPYLEN" /\ stream'.cksum = <<>>
  <2> HIDE DEF b
  <2>1. CASE stream' = stream
    BY <1>2, <1>3, <2>1 DEF Fields, IsStream
  <2>2. CASE stream' = s
    BY <1>2, <1>3, <2>2, StreamFieldNames, ZenonT(30) DEF Fields, IsStream
  <2>3. CASE stream' = InitWindow(At(s, "DEC_CPYLEN"))
    <3>1. IsStream(s) /\ Fields(s, Changed)
      BY <1>3, StreamFieldNames, ZenonT(30) DEF Fields, IsStream
    <3> DEFINE t == At(s, "DEC_CPYLEN")
    <3> HIDE DEF s
    <3>2. IsStream(t) /\ Fields(t, Changed) /\ t.dec_state = "DEC_CPYLEN"
      BY <3>1, StreamFieldNames, SMTT(30) DEF Fields, IsStream, At
    <3> HIDE DEF t
    <3>3. PICK c : c = InitCache(t.s_near, t.s_same)
      OBVIOUS
    <3>4. stream' = [t EXCEPT !.cpylen = 0, !.cpyoff = 0, !.cksum = <<>>, !.acache = c]
      BY <2>3, <3>3 DEF InitWindow, t
    <3>5. /\ Fields(stream', Changed) /\ stream'.cksum = <<>> /\ stream'.dec_state = "DEC_CPYLEN"
      BY <3>2, <3>4, StreamFieldNames, ZenonT(30) DEF Fields, IsStream
    <3> QED
      BY <3>5
  <2> QED
    BY <1>2, <2>1, <2>2, <2>3
<1>5. Later(stream.dec_state, "DEC_WININD") /\ stream'.dec_state \in HeadStates
  BY <1>2, <1>4 DEF Later, HeadStates, BeforeAppDat, TableStates, SizeStates
<1>6. HeaderInv'
  <2>1. /\ stream'.magic = stream.magic /\ stream'.codetbl = stream.codetbl
        /\ stream'.codetblsz = stream.codetblsz /\ stream'.appheader = stream.appheader
        /\ stream'.appheadsz = stream.appheadsz
    BY <1>4, StreamFieldNames, Zenon DEF Fields
  <2>2. CASE stream'.dec_state = "DEC_WININD" /\ stream'.cksum = stream.cksum
    BY <1>1, <1>2, <2>1, <2>2 DEF HeaderInv
  <2>3. CASE stream'.cksum = <<>> /\ stream'.dec_state = "DEC_CPYLEN"
    <3>1. <<>> \in Seq(Nat)
      OBVIOUS
    <3> QED
      BY <1>1, <1>2, <2>1, <2>3, <3>1 DEF HeaderInv, BeforeAppDat, TableStates, SizeStates
  <2> QED
    BY <1>4, <2>2, <2>3
<1>7. stream'.part32 \in Nat /\ stream'.part64 \in Nat
  BY <1>1, <1>4, StreamFieldNames DEF Fields, StreamTypes
<1>8. at' \in at..Len(ibuf) /\ (ret' = "XD3_INPUT" => at' = Len(ibuf))
  BY <1>1, <1>2, OneByte
<1> QED
  BY <1>1, <1>2, <1>4, <1>5, <1>6, <1>7, <1>8, HeaderQuiet DEF Later, SectionFieldsOf

-----------------------------------------------------------------------------
(* The sections: every one continues what was gathered of those before it. *)

Taken(n) == SubSeq(ibuf, at + 1, at + n)
SoFar(f) == IF stream[f].pos = 0 THEN <<>> ELSE stream[f].copied
NextOf(f) == CASE f = "data_sect" -> "DEC_INST" [] f = "inst_sect" -> "DEC_ADDR"
               [] OTHER -> "DEC_EMIT"

(* While f is read, the sections before it are complete, and the others    *)
(* have not begun.                                                         *)
LEMMA InTurn ==
  ASSUME Counted, NEW f \in Sections, stream.dec_state = Turn(f), NEW g \in Sections
  PROVE  /\ g # f => stream[g].pos = 0
         /\ g = f => ~Complete(stream, g)
         /\ ~Complete(stream, g) => Got(stream, g) = stream[g].pos /\ Held(stream, g) = SoFar(g)
                                      /\ ~InPlaceNow(stream, g)
         /\ Complete(stream, g) => Got(stream, g) = stream[g].size
         /\ SoFar(g) \in Seq(Nat) /\ Len(SoFar(g)) = stream[g].pos
         /\ stream[g].pos <= stream[g].size /\ (stream[g].pos = stream[g].size => stream[g].size = 0)
         /\ IsSection(stream[g])
<1>1. StreamTypes /\ CountInv
  BY DEF Counted
<1>2. g # f => Turn(g) # Turn(f)
  BY SectionsAre DEF Turn
<1>3. /\ stream[g].pos # 0 => /\ stream.dec_state = Turn(g) /\ stream[g].pos < stream[g].size
                              /\ Len(stream[g].copied) = stream[g].pos
      /\ IsSection(stream[g])
  BY <1>1 DEF CountInv, StreamTypes
<1>4. g = f => ~Complete(stream, g)
  BY SectionsAre DEF Turn, Complete
<1>5. stream[g].pos \in Nat /\ stream[g].size \in Nat /\ stream[g].copied \in Seq(Nat)
  BY <1>3 DEF IsSection
<1>6. SoFar(g) \in Seq(Nat) /\ Len(SoFar(g)) = stream[g].pos
  BY <1>3, <1>5 DEF SoFar
<1>7. ~Complete(stream, g) => Held(stream, g) = SoFar(g)
  <2>1. SUFFICES ASSUME ~Complete(stream, g) PROVE SubSeq(stream[g].copied, 1, stream[g].pos) = SoFar(g)
    BY DEF Held
  <2>2. CASE stream[g].pos = 0
    BY <1>5, <2>2 DEF SoFar
  <2>3. CASE stream[g].pos # 0
    <3>1. PICK c \in Seq(Nat) : c = stream[g].copied
      BY <1>5
    <3>2. Len(c) = stream[g].pos
      BY <1>3, <2>3, <3>1
    <3>3. SubSeq(c, 1, Len(c)) = c
      OBVIOUS
    <3> QED
      BY <2>3, <3>1, <3>2, <3>3 DEF SoFar
  <2> QED
    BY <2>2, <2>3
<1> QED
  BY <1>2, <1>3, <1>4, <1>5, <1>6, <1>7 DEF Got, InPlaceNow

(* What is missing of the window, what is missing of f among it. *)
LEMMA Missing ==
  ASSUME Counted, NEW f \in Sections, stream.dec_state = Turn(f)
  PROVE  Rest \in Nat /\ stream[f].size - stream[f].pos <= Rest
<1>1. PICK d \in Nat, i \in Nat, a \in Nat, p \in Nat :
        /\ d = stream.data_sect.size /\ i = stream.inst_sect.size /\ a = stream.addr_sect.size
        /\ p = stream[f].pos
  BY InTurn, SectionsAre DEF IsSection
<1>2. stream.winbytes = Got(stream, "data_sect") + Got(stream, "inst_sect") + Got(stream, "addr_sect")
  BY DEF Counted, CountInv
<1>3. p <= stream[f].size
  BY <1>1, InTurn
<1>4. Rest = (d + i + a) - stream.winbytes
  BY <1>1, Zenon DEF SectionSum, Rest
<1>5. CASE f = "data_sect"
  <2>1. ~Complete(stream, "inst_sect") /\ ~Complete(stream, "addr_sect") /\ ~Complete(stream, "data_sect")
    BY <1>5 DEF Complete, Turn
  <2>2. Got(stream, "data_sect") = p /\ Got(stream, "inst_sect") = 0 /\ Got(stream, "addr_sect") = 0
    BY <1>1, <1>5, <2>1, InTurn, SectionsAre
  <2> QED
    BY <1>1, <1>2, <1>3, <1>4, <1>5, <2>2
<1>6. CASE f = "inst_sect"
  <2>1. ~Complete(stream, "inst_sect") /\ ~Complete(stream, "addr_sect") /\ Complete(stream, "data_sect")
    BY <1>6 DEF Complete, Turn
  <2>2. Got(stream, "data_sect") = d /\ Got(stream, "inst_sect") = p /\ Got(stream, "addr_sect") = 0
    BY <1>1, <1>6, <2>1, InTurn, SectionsAre
  <2> QED
    BY <1>1, <1>2, <1>3, <1>4, <1>6, <2>2
<1>7. CASE f = "addr_sect"
  <2>1. Complete(stream, "inst_sect") /\ ~Complete(stream, "addr_sect") /\ Complete(stream, "data_sect")
    BY <1>7 DEF Complete, Turn
  <2>2. Got(stream, "data_sect") = d /\ Got(stream, "inst_sect") = i /\ Got(stream, "addr_sect") = p
    BY <1>1, <1>7, <2>1, InTurn, SectionsAre
  <2> QED
    BY <1>1, <1>2, <1>3, <1>4, <1>7, <2>2
<1> QED
  BY <1>5, <1>6, <1>7, SectionsAre

(* When the sum does not wrap around, a section is left in place only when *)
(* all that is missing of the window is there.                             *)
LEMMA PlacedInTime ==
  ASSUME Counted, SumInv, NEW f \in Sections, stream.dec_state = Turn(f), InPlace(stream[f])
  PROVE  Rest <= AvailIn
<1>1. PICK v \in Nat, c \in Nat : v = AvailIn /\ c = at
  BY FileFacts DEF Counted
<1>2. PICK w \in Nat : w = stream.winbytes
  BY DEF Counted, StreamTypes
<1>3. PICK z \in Nat : z = SectionSum(stream)
  <2>1. \A g \in Sections : stream[g].size \in Nat
    BY DEF Counted, StreamTypes, IsSection
  <2>2. PICK d \in Nat, i \in Nat, a \in Nat :
          d = stream.data_sect.size /\ i = stream.inst_sect.size /\ a = stream.addr_sect.size
    BY <2>1, SectionsAre
  <2>3. SectionSum(stream) = d + i + a
    BY <2>2, Zenon DEF SectionSum
  <2> QED
    BY <2>3
<1>4. z < Word /\ w <= z /\ Rest = z - w
  <2>1. stream.dec_state \in ReadStates
    BY SectionsAre DEF Turn, ReadStates
  <2>2. Rest \in Nat /\ Rest = z - w
    BY <1>2, <1>3, Missing DEF Rest
  <2> QED
    BY <1>2, <1>3, <2>1, <2>2 DEF SumInv
<1>5. PICK k \in Nat : k = TakenNow /\ k <= w
  BY <1>1, <1>2, Minimum DEF TakenNow
<1>6. Word \in Nat
  BY WordAssumption
<1>7. Needed = z
  BY <1>3, <1>4, <1>6, SMT DEF Needed
<1>8. More = (z - (w - k)) % Word
  BY <1>2, <1>5, <1>7, Zenon DEF More
<1>9. PICK m \in Nat : m = z - (w - k) /\ m < Word
  BY <1>4, <1>5, <1>6
<1>10. m % Word = m
  BY <1>6, <1>9, SMT
<1>11. v + k >= m
  BY <1>1, <1>5, <1>8, <1>9, <1>10 DEF InPlace, Available
<1> QED
  BY <1>1, <1>4, <1>5, <1>9, <1>11

(* What a step does to its section: all that is there is taken, or all     *)
(* that is missing.                                                        *)
Partial(f, n) ==
  /\ ret' = "XD3_INPUT" /\ stream'.dec_state = stream.dec_state
  /\ n = AvailIn /\ n < stream[f].size - stream[f].pos
  /\ stream'[f].pos = stream[f].pos + n
  /\ stream'[f].pos # 0 => stream'[f].copied = SoFar(f) \o Taken(n)

Full(f, n) ==
  /\ ret' # "XD3_INPUT" /\ stream'.dec_state = NextOf(f)
  /\ n = stream[f].size - stream[f].pos /\ stream'[f].pos = 0
  /\ \/ stream[f].size = 0
     \/ stream'[f].ref = at /\ InPlace(stream[f])
     \/ stream'[f].ref = -1 /\ stream'[f].copied = SoFar(f) \o Taken(n)

(* The window's buffer is a matter of the last section alone.             *)
BufferFields == {"next_out", "space_out", "dec_buffer", "dec_alloc"}
Buffered(s, t) ==
  IsStream(s) => IsStream(t) /\ \A g \in StreamFields : g \in BufferFields \/ t[g] = s[g]

SectionMoves(f, n) ==
  /\ n <= AvailIn /\ n <= stream[f].size - stream[f].pos /\ at' = at + n /\ ibuf' = ibuf
  /\ Fields(stream', {"dec_state", "winbytes", f} \cup BufferFields)
  /\ stream'.winbytes = stream.winbytes + n
  /\ IsSection(stream'[f]) /\ stream'[f].size = stream[f].size
  /\ Partial(f, n) \/ Full(f, n)

(* A stream whose window has got its buffer. *)
LEMMA SetUp ==
  ASSUME ret = "calling", NEW s, SetupBuffers(s)
  PROVE  ret' # "XD3_INPUT" /\ Buffered(s, stream')
<1>1. Buffered(s, s)
  BY DEF Buffered
<1>2. Buffered(s, OwnBuffer(s))
  <2>1. CASE OwnBuffer(s) = s
    BY <1>1, <2>1
  <2>2. CASE OwnBuffer(s) = [s EXCEPT !.next_out = NULL, !.space_out = 0]
    BY <2>2 DEF Buffered, BufferFields, IsStream
  <2> QED
    BY <2>1, <2>2 DEF OwnBuffer
<1>3. ASSUME NEW u, Buffered(s, u), NEW b, NEW z PROVE
        Buffered(s, [u EXCEPT !.dec_buffer = b, !.dec_alloc = z, !.next_out = b, !.space_out = z])
  BY <1>3 DEF Buffered, BufferFields, IsStream
<1>4. PICK u : u = OwnBuffer(s) /\ Buffered(s, u)
  BY <1>2
<1>5. CASE Return(s, "XD3_INVALID_INPUT")
  BY <1>1, <1>5 DEF Return
<1>6. CASE LargeEnough(u)
  <2>1. CASE Goto(u)
    BY <1>4, <2>1 DEF Goto
  <2>2. CASE \E b \in Addresses(u) : Goto(NewBuffer(u, b))
    <3>1. PICK b \in Addresses(u) : stream' = NewBuffer(u, b) /\ ret' = ret
      BY <2>2 DEF Goto
    <3>2. Buffered(s, NewBuffer(u, b))
      BY <1>3, <1>4, Zenon DEF NewBuffer
    <3> QED
      BY <3>1, <3>2
  <2> QED
    BY <1>6, <2>1, <2>2 DEF LargeEnough
<1> QED
  BY <1>4, <1>5, <1>6 DEF SetupBuffers

LEMMA SectionReads ==
  ASSUME Counted, NEW f \in Sections, DecSection(Turn(f), f, NextOf(f))
  PROVE  \/ stream' = stream /\ at' = at /\ ibuf' = ibuf /\ ret' = "undefined"
         \/ \E n \in Nat : SectionMoves(f, n)
<1> DEFINE sect == stream[f]
           inPlace == InPlace(sect)
           take == IF inPlace THEN sect.size ELSE Min({sect.size - sect.pos, AvailIn})
           new == IF sect.size = sect.pos THEN sect
                  ELSE IF inPlace THEN [sect EXCEPT !.ref = at, !.copied = <<>>]
                  ELSE [sect EXCEPT !.ref = -1,
                          !.alloc1 = IF sect.pos = 0 THEN Allocated(@, sect.size) ELSE @,
                          !.copied = (IF sect.pos = 0 THEN <<>> ELSE @)
                                       \o SubSeq(ibuf, at + 1, at + take)]
           got == [stream EXCEPT ![f] = [new EXCEPT !.pos = @ + take], !.winbytes = @ + take]
           done == [At(stream, NextOf(f)) EXCEPT
                      ![f] = [new EXCEPT !.pos = 0, !.read = 0], !.winbytes = @ + take]
           within == take <= AvailIn /\ (inPlace \/ sect.pos + take <= new.alloc1)
<1>1. stream.dec_state = Turn(f) /\ ret = "calling" /\ StreamTypes /\ FileInv
  BY DEF Counted, DecSection, Case
<1>2. \/ stream' = stream /\ at' = at /\ ibuf' = ibuf /\ ret' = "undefined"
      \/ /\ sect.pos < sect.size /\ AvailIn = 0 /\ stream' = stream /\ ret' = "XD3_INPUT"
         /\ at' = at /\ ibuf' = ibuf
      \/ /\ sect.pos < sect.size => AvailIn # 0 /\ within
         /\ at' = at + take /\ ibuf' = ibuf
         /\ \/ sect.pos + take < sect.size /\ ret' = "XD3_INPUT" /\ stream' = got
            \/ ~(sect.pos + take < sect.size) /\ ret' # "XD3_INPUT" /\ Buffered(done, stream')
  <2>1. "XD3_SKIP_EMIT" \notin stream.flags
    BY <1>1 DEF StreamTypes
  <2>2. SetupBuffers(done) => ret' # "XD3_INPUT" /\ Buffered(done, stream')
    <3> HIDE DEF done
    <3> QED
      BY <1>1, SetUp
  <2>3. Goto(done) => ret' # "XD3_INPUT" /\ Buffered(done, stream')
    <3> HIDE DEF done
    <3> QED
      BY <1>1 DEF Goto, Buffered
  <2> HIDE DEF done, got, take, within
  <2> QED
    BY <2>1, <2>2, <2>3, Zenon DEF DecSection, Return, Undefined, done, got, take, within
<1>3. /\ sect.size \in Nat /\ sect.pos \in Nat /\ sect.pos <= sect.size
      /\ sect.pos = sect.size => sect.size = 0
      /\ SoFar(f) \in Seq(Nat) /\ Len(SoFar(f)) = sect.pos
      /\ IsSection(sect)
  BY <1>1, InTurn DEF IsSection
<1>4. AvailIn \in Nat /\ at \in Nat
  BY <1>1, FileFacts
<1>13. CASE /\ sect.pos < sect.size /\ AvailIn = 0 /\ stream' = stream /\ ret' = "XD3_INPUT"
            /\ at' = at /\ ibuf' = ibuf
  <2>1. Taken(0) = <<>> /\ Taken(0) \in Seq(Nat)
    BY <1>1, <1>4, Taking DEF Taken
  <2>2. SoFar(f) \o <<>> = SoFar(f)
    BY <1>3
  <2>3. stream.winbytes \in Nat /\ IsStream(stream)
    BY <1>1 DEF StreamTypes
  <2>4. Partial(f, 0)
    <3>1. sect.pos # 0 => sect.copied = SoFar(f) \o Taken(0)
      BY <2>1, <2>2 DEF SoFar
    <3>2. 0 < sect.size - sect.pos /\ sect.pos = sect.pos + 0
      BY <1>3, <1>13
    <3> QED
      BY <1>13, <3>1, <3>2 DEF Partial
  <2>5. SectionMoves(f, 0)
    BY <1>3, <1>4, <1>13, <2>3, <2>4 DEF SectionMoves, Fields
  <2> QED
    BY <2>5
<1>14. SUFFICES ASSUME /\ sect.pos < sect.size => AvailIn # 0 /\ within
                       /\ at' = at + take /\ ibuf' = ibuf
                       /\ \/ sect.pos + take < sect.size /\ ret' = "XD3_INPUT" /\ stream' = got
                          \/ ~(sect.pos + take < sect.size) /\ ret' # "XD3_INPUT" /\ Buffered(done, stream')
                PROVE  \E n \in Nat : SectionMoves(f, n)
  BY <1>2, <1>13, Zenon
<1>5. /\ take \in Nat /\ take <= AvailIn /\ take <= sect.size - sect.pos
      /\ inPlace => take = sect.size /\ sect.pos = 0 /\ InPlace(sect)
      /\ ~inPlace /\ take < sect.size - sect.pos => take = AvailIn
  <2>1. CASE inPlace
    <3>1. sect.pos = 0
      BY <2>1 DEF InPlace
    <3>2. CASE sect.size = 0
      BY <1>3, <1>4, <2>1, <3>1, <3>2
    <3>3. CASE sect.size # 0
      <4>1. sect.pos < sect.size
        BY <1>3, <3>1, <3>3
      <4>2. within
        <5> HIDE DEF within, take, got, done, inPlace
        <5> QED
          BY <1>14, <4>1
      <4>3. take <= AvailIn
        BY <4>2
      <4> QED
        BY <1>3, <1>4, <2>1, <3>1, <4>3
    <3> QED
      BY <3>2, <3>3
  <2>2. CASE ~inPlace
    <3>1. PICK w \in Nat : w = sect.size - sect.pos
      BY <1>3
    <3>2. take = Min({w, AvailIn})
      BY <2>2, <3>1
    <3>3. Min({w, AvailIn}) \in Nat /\ Min({w, AvailIn}) <= w /\ Min({w, AvailIn}) <= AvailIn
          /\ (Min({w, AvailIn}) = w \/ Min({w, AvailIn}) = AvailIn)
      BY <1>4, Minimum
    <3> HIDE DEF take
    <3> QED
      BY <1>3, <1>4, <2>2, <3>1, <3>2, <3>3
  <2> QED
    BY <2>1, <2>2
<1>6. PICK n \in Nat : n = take
  BY <1>5
<1>7. PICK y \in Seq(Nat) : y = SoFar(f) \o Taken(n) /\ Len(y) = sect.pos + n
  <2>1. Taken(n) \in Seq(Nat) /\ Len(Taken(n)) = n
    BY <1>1, <1>5, <1>6, Taking DEF Taken
  <2>2. PICK u \in Seq(Nat), v \in Seq(Nat) : u = SoFar(f) /\ v = Taken(n)
    BY <1>3, <2>1
  <2>3. u \o v \in Seq(Nat) /\ Len(u \o v) = Len(u) + Len(v)
    OBVIOUS
  <2> QED
    BY <1>3, <2>1, <2>2, <2>3
<1>8. /\ IsSection(new) /\ new.size = sect.size /\ new.pos = sect.pos
      /\ \/ sect.size = sect.pos /\ new = sect
         \/ inPlace /\ new.ref = at
         \/ sect.size # sect.pos /\ ~inPlace /\ new.ref = -1 /\ new.copied = y
  <2> HIDE DEF take, inPlace
  <2>1. CASE sect.size = sect.pos
    BY <1>3, <2>1
  <2>2. CASE sect.size # sect.pos /\ inPlace
    <3>1. new = [sect EXCEPT !.ref = at, !.copied = <<>>]
      BY <2>2
    <3>2. IsSection(new) /\ new.size = sect.size /\ new.pos = sect.pos /\ new.ref = at
      <4> HIDE DEF new, sect
      <4> QED
        <5>1. <<>> \in Seq(Nat) /\ Len(<<>>) = 0
          OBVIOUS
        <5>2. /\ new = [g \in SectionFields |-> new[g]] /\ new.size = sect.size /\ new.pos = sect.pos
              /\ new.ref = at /\ new.copied = <<>> /\ new.alloc1 = sect.alloc1
          BY <1>3, <3>1, SectionFieldNames DEF IsSection
        <5>3. new.ref \in Int /\ new.alloc1 \in Nat /\ Len(new.copied) <= new.alloc1
          BY <1>3, <1>4, <5>1, <5>2 DEF IsSection
        <5> QED
          BY <1>3, <5>1, <5>2, <5>3, Zenon DEF IsSection
    <3> HIDE DEF new, sect
    <3> QED
      BY <2>2, <3>2
  <2>3. CASE sect.size # sect.pos /\ ~inPlace
    <3>1. PICK alloc \in Nat : alloc = IF sect.pos = 0 THEN Allocated(sect.alloc1, sect.size) ELSE sect.alloc1
      BY <1>3, AllocatedSize DEF IsSection
    <3>2. (IF sect.pos = 0 THEN <<>> ELSE sect.copied) \o SubSeq(ibuf, at + 1, at + take) = y
      BY <1>6, <1>7 DEF SoFar, Taken
    <3>3. new = [sect EXCEPT !.ref = -1, !.alloc1 = alloc, !.copied = y]
      BY <2>3, <3>1, <3>2
    <3>4. Len(y) <= alloc
      <4>1. new.alloc1 = alloc
        BY <1>3, <3>3, SectionFieldNames, Zenon DEF IsSection
      <4>2. sect.pos < sect.size
        BY <1>3, <2>3
      <4>3. sect.pos + take <= alloc
        BY <1>14, <2>3, <4>1, <4>2
      <4> QED
        BY <1>6, <1>7, <4>3
    <3> HIDE DEF new, sect
    <3>5. IsSection(new) /\ new.size = sect.size /\ new.pos = sect.pos /\ new.ref = -1 /\ new.copied = y
      <4>1. /\ new = [g \in SectionFields |-> new[g]] /\ new.size = sect.size /\ new.pos = sect.pos
            /\ new.ref = -1 /\ new.copied = y /\ new.alloc1 = alloc
        BY <1>3, <3>3, SectionFieldNames DEF IsSection
      <4>2. new.ref \in Int
        BY <4>1
      <4> QED
        BY <1>3, <3>4, <4>1, <4>2, Zenon DEF IsSection
    <3> QED
      BY <2>3, <3>5
  <2> QED
    BY <2>1, <2>2, <2>3
<1> HIDE DEF take, inPlace, new
<1>9. /\ f \in StreamFields /\ f # "dec_state" /\ f # "winbytes" /\ f # "space_out" /\ IsStream(stream)
      /\ "dec_state" \in StreamFields /\ "winbytes" \in StreamFields
  BY <1>1, SectionsAre, StreamFieldNames DEF StreamTypes
<1>11. CASE sect.pos + take < sect.size
  <2> DEFINE x == [new EXCEPT !.pos = sect.pos + n]
  <2>1. /\ ret' = "XD3_INPUT" /\ at' = at + n /\ ibuf' = ibuf
        /\ stream' = [stream EXCEPT ![f] = x, !.winbytes = @ + n]
    BY <1>14, <1>6, <1>8, <1>11, Zenon
  <2>2. n = AvailIn /\ n < sect.size - sect.pos /\ n # 0 /\ ~inPlace /\ sect.size # sect.pos
    <3>1. sect.pos < sect.size
      BY <1>3, <1>5, <1>11
    <3>2. AvailIn # 0
      BY <1>14, <3>1
    <3> QED
      BY <1>3, <1>4, <1>5, <1>6, <1>11, <3>1, <3>2
  <2>3. new.copied = y
    BY <1>8, <2>2
  <2>4. IsSection(x) /\ x.size = sect.size /\ x.pos = sect.pos + n /\ x.copied = y
    <3>1. sect.pos + n \in Nat
      BY <1>3
    <3> HIDE DEF sect
    <3>2. /\ x = [g \in SectionFields |-> x[g]] /\ x.alloc1 = new.alloc1
          /\ x.size = new.size /\ x.pos = sect.pos + n /\ x.ref = new.ref /\ x.copied = new.copied
      BY <1>8, SectionFieldNames DEF IsSection
    <3> QED
      BY <1>8, <2>3, <3>1, <3>2, Zenon DEF IsSection
  <2> HIDE DEF x
  <2>5. /\ Fields(stream', {"dec_state", "winbytes", f} \cup BufferFields)
        /\ stream'.dec_state = stream.dec_state /\ stream'.winbytes = stream.winbytes + n
        /\ stream'[f] = x
    <3> HIDE DEF sect
    <3>1. PICK b : b = [stream EXCEPT ![f] = x]
      OBVIOUS
    <3>2. IsStream(b) /\ b[f] = x /\ \A g \in StreamFields : g # f => b[g] = stream[g]
      BY <1>9, <3>1 DEF IsStream
    <3>3. stream' = [b EXCEPT !.winbytes = stream.winbytes + n]
      BY <2>1, <3>1
    <3>4. /\ IsStream(stream') /\ stream'.winbytes = stream.winbytes + n
          /\ \A g \in StreamFields : g # "winbytes" => stream'[g] = b[g]
      BY <3>2, <3>3, <1>9 DEF IsStream
    <3> QED
      BY <1>9, <3>2, <3>4 DEF Fields
  <2>6. Partial(f, n)
    BY <1>7, <2>1, <2>2, <2>4, <2>5 DEF Partial
  <2> QED
    BY <1>5, <1>6, <2>1, <2>4, <2>5, <2>6 DEF SectionMoves
<1>12. CASE ~(sect.pos + take < sect.size)
  <2> DEFINE x == [new EXCEPT !.pos = 0, !.read = 0]
             s == [At(stream, NextOf(f)) EXCEPT ![f] = x, !.winbytes = @ + n]
  <2>1. ret' # "XD3_INPUT" /\ at' = at + n /\ ibuf' = ibuf /\ Buffered(s, stream')
    BY <1>14, <1>6, <1>12, Zenon
  <2>2. n = sect.size - sect.pos
    <3>1. PICK z \in Nat, p \in Nat : z = sect.size /\ p = sect.pos
      BY <1>3
    <3>2. p <= z /\ n <= z - p /\ ~(p + n < z)
      BY <1>3, <1>5, <1>6, <1>12, <3>1, Zenon
    <3>3. n = z - p
      BY ONLY <3>2, z \in Nat, p \in Nat, n \in Nat
    <3> QED
      BY <3>1, <3>3
  <2>3. /\ IsSection(x) /\ x.size = sect.size /\ x.pos = 0 /\ x.ref = new.ref /\ x.copied = new.copied
    <3> HIDE DEF sect
    <3> QED
      <4>1. /\ x = [g \in SectionFields |-> x[g]] /\ x.alloc1 = new.alloc1
            /\ x.size = new.size /\ x.pos = 0 /\ x.ref = new.ref /\ x.copied = new.copied
        BY <1>8, SectionFieldNames DEF IsSection
      <4>2. 0 \in Nat
        OBVIOUS
      <4> QED
        BY <1>8, <4>1, <4>2, Zenon DEF IsSection
  <2> HIDE DEF x
  <2>4. /\ Fields(s, {"dec_state", "winbytes", "space_out", f}) /\ IsStream(s)
        /\ s.dec_state = NextOf(f) /\ s.winbytes = stream.winbytes + n /\ s[f] = x
    <3>1. At(stream, NextOf(f)).winbytes = stream.winbytes
      BY <1>9, StreamFieldNames DEF IsStream, At
    <3>2. PICK a : a = At(stream, NextOf(f))
      OBVIOUS
    <3>3. PICK b : b = [a EXCEPT ![f] = x]
      OBVIOUS
    <3>4. s = [b EXCEPT !.winbytes = stream.winbytes + n]
      BY <3>1, <3>2, <3>3
    <3>5. IsStream(a) /\ a.dec_state = NextOf(f) /\ \A g \in StreamFields : g # "dec_state" => a[g] = stream[g]
      BY <1>9, <3>2 DEF At, IsStream
    <3>6. IsStream(b) /\ b[f] = x /\ \A g \in StreamFields : g # f => b[g] = a[g]
      BY <1>9, <3>3, <3>5 DEF IsStream
    <3> HIDE DEF s
    <3>7. /\ IsStream(s) /\ s.winbytes = stream.winbytes + n
          /\ \A g \in StreamFields : g # "winbytes" => s[g] = b[g]
      BY <1>9, <3>4, <3>6 DEF IsStream
    <3> QED
      BY <1>9, <3>5, <3>6, <3>7 DEF Fields
  <2> HIDE DEF s
  <2>5. /\ Fields(stream', {"dec_state", "winbytes", f} \cup BufferFields)
        /\ stream'.dec_state = NextOf(f) /\ stream'.winbytes = stream.winbytes + n /\ stream'[f] = x
    <3>1. /\ IsStream(stream')
          /\ \A g \in StreamFields : g \in BufferFields \/ stream'[g] = s[g]
      BY <2>1, <2>4 DEF Buffered
    <3>2. f \notin BufferFields /\ "dec_state" \notin BufferFields /\ "winbytes" \notin BufferFields
      BY SectionsAre DEF BufferFields
    <3> QED
      <4>1. ASSUME NEW g \in StreamFields \ ({"dec_state", "winbytes", f} \cup BufferFields)
            PROVE  stream'[g] = stream[g]
        <5>1. stream'[g] = s[g]
          BY <3>1
        <5>2. s[g] = stream[g]
          BY <2>4 DEF Fields, BufferFields
        <5> QED
          BY <5>1, <5>2
      <4>2. stream'.dec_state = s.dec_state /\ stream'.winbytes = s.winbytes /\ stream'[f] = s[f]
        BY <1>9, <3>1, <3>2
      <4> QED
        BY <2>4, <3>1, <4>1, <4>2 DEF Fields
  <2>6. \/ sect.size = 0
        \/ x.ref = at /\ InPlace(sect)
        \/ x.ref = -1 /\ x.copied = SoFar(f) \o Taken(n)
    BY <1>3, <1>5, <1>7, <1>8, <2>3
  <2>7. Full(f, n)
    BY <2>1, <2>2, <2>3, <2>5, <2>6 DEF Full
  <2> QED
    BY <1>5, <1>6, <2>1, <2>3, <2>5, <2>7 DEF SectionMoves
<1> QED
  BY <1>11, <1>12

(* As long as the chunk stays, a section is judged by the stream alone. *)
LEMMA SameChunk ==
  ASSUME ibuf' = ibuf, NEW f
  PROVE  /\ Held(stream, f)' = Held(stream', f) /\ Got(stream, f)' = Got(stream', f)
         /\ InPlaceNow(stream, f)' = InPlaceNow(stream', f)
  BY DEF Held, Got, InPlaceNow, Complete, SectionBytes

(* Fields that no section's step touches. *)
LEMMA SectionFrame ==
  ASSUME NEW f \in Sections, Fields(stream', {"dec_state", "winbytes", f} \cup BufferFields)
  PROVE  /\ IsStream(stream') /\ stream'.flags = stream.flags /\ stream'.part32 = stream.part32
         /\ stream'.part64 = stream.part64 /\ stream'.magic = stream.magic
         /\ stream'.codetbl = stream.codetbl /\ stream'.codetblsz = stream.codetblsz
         /\ stream'.appheader = stream.appheader /\ stream'.appheadsz = stream.appheadsz
         /\ stream'.cksum = stream.cksum
         /\ \A g \in Sections : g # f => stream'[g] = stream[g]
<1>1. \A g \in StreamFields : \/ g = "dec_state" \/ g = "winbytes" \/ g \in BufferFields \/ g = f
                             \/ stream'[g] = stream[g]
  BY DEF Fields
<1>2. IsStream(stream')
  BY DEF Fields
<1> QED
  BY <1>1, <1>2, SectionsAre, StreamFieldNames DEF BufferFields

(* Two pieces of the delta that follow each other. *)
LEMMA NextPiece ==
  ASSUME NEW s \in Seq(Nat), NEW e \in Nat, NEW w \in Nat, NEW n \in Nat, w <= e, e + n <= Len(s)
  PROVE  SubSeq(s, e - w + 1, e) \o SubSeq(s, e + 1, e + n)
           = SubSeq(s, (e + n) - (w + n) + 1, e + n)
<1>1. PICK a \in Nat : a = e - w
  BY SMT
<1>2. PICK b \in Nat : b = e + n
  BY SMT
<1>3. a <= e /\ e <= b /\ b <= Len(s) /\ b - (w + n) = a
  BY <1>1, <1>2, SMT
<1>4. SubSeq(s, a + 1, e) \o SubSeq(s, e + 1, b) = SubSeq(s, a + 1, b)
  BY <1>3, Joined
<1> QED
  BY <1>1, <1>2, <1>3, <1>4

(* The section f afterwards, with the bytes y, and the others. *)
Afterwards(f, n, y) ==
  /\ Got(stream', f) = stream[f].pos + n /\ Held(stream', f) = y
  /\ stream'[f].pos # 0 => /\ stream'.dec_state = Turn(f) /\ stream'[f].pos < stream'[f].size
                           /\ Len(stream'[f].copied) = stream'[f].pos
  /\ Complete(stream', f) /\ stream'[f].ref < 0 => stream'[f].size <= Len(stream'[f].copied)
  /\ \A g \in Sections :
       InPlaceNow(stream', g) => stream'[g].ref + stream'[g].size <= at + n /\ Rest <= AvailIn
  /\ ret' = "XD3_INPUT" => /\ n = AvailIn /\ stream'.dec_state # "DEC_EMIT"
                           /\ \A g \in Sections : ~InPlaceNow(stream', g)

LEMMA MoreGathered ==
  ASSUME NEW f \in Sections, NEW t \in Seq(Nat),
         \A g \in Sections : Held(stream, g) \in Seq(Nat),
         \A g \in Sections : g # f => Held(stream', g) = Held(stream, g),
         Held(stream', f) = Held(stream, f) \o t,
         f = "data_sect" => Held(stream, "inst_sect") = <<>>,
         f # "addr_sect" => Held(stream, "addr_sect") = <<>>
  PROVE  Gathered(stream') = Gathered(stream) \o t
<1>1. "data_sect" \in Sections /\ "inst_sect" \in Sections /\ "addr_sect" \in Sections
  BY SectionsAre
<1>2. PICK d \in Seq(Nat), i \in Seq(Nat), a \in Seq(Nat) :
        /\ d = Held(stream, "data_sect") /\ i = Held(stream, "inst_sect") /\ a = Held(stream, "addr_sect")
  BY <1>1
<1>3. d \o i \in Seq(Nat) /\ d \o t \in Seq(Nat) /\ i \o t \in Seq(Nat) /\ d \o (i \o t) \in Seq(Nat)
  OBVIOUS
<1>4. ASSUME NEW x \in Seq(Nat) PROVE x \o <<>> = x
  OBVIOUS
<1>5. CASE f = "data_sect"
  <2>1. (d \o <<>>) \o <<>> = d /\ ((d \o t) \o <<>>) \o <<>> = d \o t
    BY <1>3, <1>4
  <2>2. i = <<>> /\ a = <<>>
    BY <1>2, <1>5
  <2>3. Held(stream', "data_sect") = d \o t /\ Held(stream', "inst_sect") = <<>> /\ Held(stream', "addr_sect") = <<>>
    BY <1>1, <1>2, <1>5, <2>2
  <2> QED
    BY <1>2, <2>1, <2>2, <2>3 DEF Gathered
<1>6. CASE f = "inst_sect"
  <2>1. d \o (i \o t) = (d \o i) \o t
    BY Associative
  <2>2. (d \o i) \o <<>> = d \o i /\ (d \o (i \o t)) \o <<>> = d \o (i \o t)
    BY <1>3, <1>4
  <2>3. a = <<>>
    BY <1>2, <1>6
  <2>4. Held(stream', "data_sect") = d /\ Held(stream', "inst_sect") = i \o t /\ Held(stream', "addr_sect") = <<>>
    BY <1>1, <1>2, <1>6, <2>3
  <2> QED
    BY <1>2, <2>1, <2>2, <2>3, <2>4 DEF Gathered
<1>7. CASE f = "addr_sect"
  <2>1. (d \o i) \o (a \o t) = ((d \o i) \o a) \o t
    <3>1. ASSUME NEW x \in Seq(Nat) PROVE x \o (a \o t) = (x \o a) \o t
      BY Associative
    <3> QED
      BY <1>3, <3>1
  <2>2. Held(stream', "data_sect") = d /\ Held(stream', "inst_sect") = i /\ Held(stream', "addr_sect") = a \o t
    BY <1>1, <1>2, <1>7
  <2> QED
    BY <1>2, <2>1, <2>2 DEF Gathered
<1> QED
  BY <1>5, <1>6, <1>7, SectionsAre

LEMMA NextGathered ==
  ASSUME FileInv, GatherInv, stream.winbytes \in Nat, NEW n \in Nat, n <= AvailIn,
         NEW g, g = Gathered(stream) \o Taken(n)
  PROVE  g = SubSeq(fdelta, (End + n) - (stream.winbytes + n) + 1, End + n)
<1>1. PICK e \in Nat, w \in Nat : e = End /\ w = stream.winbytes
  BY FileFacts
<1>2. w <= e /\ Gathered(stream) = SubSeq(fdelta, e - w + 1, e) /\ fdelta \in Seq(Nat)
  BY <1>1, FileFacts DEF GatherInv
<1>3. Taken(n) = SubSeq(fdelta, e + 1, e + n) /\ e + n <= Len(fdelta)
  BY <1>1, Taking DEF Taken
<1>4. SubSeq(fdelta, e - w + 1, e) \o SubSeq(fdelta, e + 1, e + n)
        = SubSeq(fdelta, (e + n) - (w + n) + 1, e + n)
  BY <1>2, <1>3, NextPiece, ZenonT(30)
<1> QED
  BY <1>1, <1>2, <1>3, <1>4, Zenon

(* The counts, whether or not the lengths wrap around.                    *)
LEMMA CountedStep ==
  ASSUME Counted, NEW f \in Sections, stream.dec_state = Turn(f), NEW n \in Nat, SectionMoves(f, n),
         UNCHANGED <<files, dedelta>>, pc = "process"
  PROVE  /\ StreamTypes' /\ HeaderInv' /\ FileInv' /\ CountInv' /\ stream'.winbytes <= End'
         /\ AvailIn' = AvailIn - n /\ End' = End + n
<1>1. StreamTypes /\ HeaderInv /\ FileInv /\ CountInv /\ stream.winbytes <= End
  BY DEF Counted
<1>2. fdelta' = fdelta /\ CHUNK' = CHUNK /\ pos' = pos /\ pc' = "process"
  BY DEF files, dedelta
<1>3. /\ n <= AvailIn /\ n <= stream[f].size - stream[f].pos /\ at' = at + n /\ ibuf' = ibuf
      /\ stream'.winbytes = stream.winbytes + n
      /\ IsSection(stream'[f]) /\ stream'[f].size = stream[f].size
      /\ Partial(f, n) \/ Full(f, n)
  BY DEF SectionMoves
<1>4. /\ IsStream(stream') /\ stream'.flags = stream.flags /\ stream'.part32 = stream.part32
      /\ stream'.part64 = stream.part64 /\ stream'.magic = stream.magic
      /\ stream'.codetbl = stream.codetbl /\ stream'.codetblsz = stream.codetblsz
      /\ stream'.appheader = stream.appheader /\ stream'.appheadsz = stream.appheadsz
      /\ stream'.cksum = stream.cksum
      /\ \A g \in Sections : g # f => stream'[g] = stream[g]
  BY SectionFrame DEF SectionMoves
<1>5. /\ Len(ibuf) \in Nat /\ at \in Nat /\ at <= Len(ibuf) /\ AvailIn \in Nat
      /\ AvailIn = Len(ibuf) - at /\ End \in Nat /\ pos \in Nat
      /\ pos <= Len(fdelta) /\ End = pos - AvailIn /\ Len(fdelta) \in Nat /\ fdelta \in Seq(Nat)
  BY <1>1, FileFacts
<1>6. \/ stream'.dec_state = Turn(f) /\ Partial(f, n)
      \/ stream'.dec_state = NextOf(f) /\ Full(f, n)
  BY <1>3 DEF Partial, Full
<1>7. stream.winbytes \in Nat /\ stream'.winbytes \in Nat /\ stream'.winbytes = stream.winbytes + n
  BY <1>1, <1>3 DEF StreamTypes
<1>8. StreamTypes'
  <2>1. stream'.dec_state \in States
    BY <1>6, SectionsAre DEF Turn, NextOf, States, ReadStates
  <2>2. \A g \in Sections : IsSection(stream'[g])
    BY <1>1, <1>3, <1>4 DEF StreamTypes
  <2> QED
    BY <1>1, <1>4, <1>7, <2>1, <2>2 DEF StreamTypes
<1>9. HeaderInv'
  <2>1. /\ stream'.dec_state # "DEC_VCHEAD" /\ stream'.dec_state \notin TableStates
        /\ stream'.dec_state \notin BeforeAppDat /\ stream'.dec_state \notin SizeStates
        /\ stream'.dec_state # "DEC_CKSUM"
    BY <1>6, SectionsAre DEF Turn, NextOf, BeforeAppDat, TableStates, SizeStates
  <2> QED
    BY <1>1, <1>4, <2>1 DEF HeaderInv
<1>10. FileInv'
  <2>1. at' \in 0..Len(ibuf)
    BY <1>3, <1>5, SMT
  <2> QED
    BY <1>1, <1>2, <1>3, <2>1 DEF FileInv
<1>11. AvailIn' = AvailIn - n /\ End' = End + n
  BY <1>2, <1>3, <1>5, SMT DEF AvailIn, End
<1>12. ASSUME NEW g \in Sections, g # f
       PROVE  /\ Complete(stream', g) = Complete(stream, g) /\ Got(stream', g) = Got(stream, g)
              /\ Held(stream', g) = Held(stream, g) /\ InPlaceNow(stream', g) = InPlaceNow(stream, g)
  <2>1. Complete(stream', g) = Complete(stream, g)
    BY <1>6, <1>12, SectionsAre DEF Complete, Turn, NextOf
  <2>2. stream'[g] = stream[g]
    BY <1>4, <1>12
  <2> QED
    BY <2>1, <2>2, Zenon DEF Got, Held, InPlaceNow
<1>13. /\ stream[f].pos \in Nat /\ stream[f].size \in Nat
       /\ SoFar(f) \in Seq(Nat) /\ Len(SoFar(f)) = stream[f].pos
       /\ Got(stream, f) = stream[f].pos
  BY InTurn DEF IsSection
<1>14. "data_sect" \in Sections /\ "inst_sect" \in Sections /\ "addr_sect" \in Sections
  BY SectionsAre
<1>15. /\ Complete(stream', f) <=> stream'.dec_state = NextOf(f)
       /\ Turn(f) # NextOf(f)
  BY <1>6, SectionsAre DEF Complete, Turn, NextOf
<1>16. Taken(n) \in Seq(Nat) /\ Len(Taken(n)) = n
  BY <1>1, <1>3, Taking DEF Taken
<1>17. PICK y \in Seq(Nat) : y = SoFar(f) \o Taken(n) /\ Len(y) = stream[f].pos + n
  <2>1. PICK u \in Seq(Nat), v \in Seq(Nat) : u = SoFar(f) /\ v = Taken(n)
    BY <1>13, <1>16
  <2>2. u \o v \in Seq(Nat) /\ Len(u \o v) = Len(u) + Len(v)
    OBVIOUS
  <2> QED
    BY <1>13, <1>16, <2>1, <2>2
<1>18. PICK z \in Nat, p \in Nat : z = stream[f].size /\ p = stream[f].pos
  BY <1>13
<1>19. ASSUME Partial(f, n)
       PROVE  /\ Got(stream', f) = stream[f].pos + n
              /\ stream'[f].pos # 0 => /\ stream'.dec_state = Turn(f) /\ stream'[f].pos < stream'[f].size
                                       /\ Len(stream'[f].copied) = stream'[f].pos
  <2>1. /\ stream'.dec_state = Turn(f) /\ n < z - p /\ stream'[f].pos = p + n
        /\ stream'[f].pos # 0 => stream'[f].copied = y
    BY <1>15, <1>17, <1>18, <1>19 DEF Partial
  <2>2. ~Complete(stream', f)
    BY <1>15, <2>1
  <2>3. Got(stream', f) = p + n
    BY <2>1, <2>2 DEF Got
  <2>4. p + n < z
    <3>1. n < z - p
      BY <2>1
    <3> QED
      BY ONLY <3>1, z \in Nat, p \in Nat, n \in Nat
  <2>5. /\ Got(stream', f) = stream[f].pos + n
        /\ stream'[f].pos # 0 => /\ stream'.dec_state = Turn(f) /\ stream'[f].pos < stream'[f].size
                                 /\ Len(stream'[f].copied) = stream'[f].pos
    BY <1>3, <1>17, <1>18, <2>1, <2>3, <2>4
  <2> QED
    BY <2>5
<1>20. ASSUME Full(f, n)
       PROVE  /\ Got(stream', f) = stream[f].pos + n
              /\ stream'[f].pos # 0 => /\ stream'.dec_state = Turn(f) /\ stream'[f].pos < stream'[f].size
                                       /\ Len(stream'[f].copied) = stream'[f].pos
  <2>1. stream'.dec_state = NextOf(f) /\ n = z - p /\ stream'[f].pos = 0
    BY <1>18, <1>20 DEF Full
  <2>2. Got(stream', f) = z
    BY <1>3, <1>15, <1>18, <2>1 DEF Got
  <2>3. z = p + n
    BY <1>18, <2>1
  <2> QED
    BY <1>18, <2>1, <2>2, <2>3
<1>21. /\ Got(stream', f) = stream[f].pos + n
       /\ stream'[f].pos # 0 => /\ stream'.dec_state = Turn(f) /\ stream'[f].pos < stream'[f].size
                                /\ Len(stream'[f].copied) = stream'[f].pos
  BY <1>3, <1>19, <1>20
<1>22. stream'.winbytes = Got(stream', "data_sect") + Got(stream', "inst_sect") + Got(stream', "addr_sect")
  <2>1. PICK d \in Nat, i \in Nat, a \in Nat :
          /\ d = Got(stream, "data_sect") /\ i = Got(stream, "inst_sect") /\ a = Got(stream, "addr_sect")
    <3>1. \A g \in Sections : stream[g].pos \in Nat /\ stream[g].size \in Nat
      BY <1>1 DEF StreamTypes, IsSection
    <3>2. \A g \in Sections : Got(stream, g) = stream[g].pos \/ Got(stream, g) = stream[g].size
      BY InTurn
    <3> QED
      BY <1>14, <3>1, <3>2
  <2>2. stream.winbytes = d + i + a
    BY <1>1, <2>1 DEF CountInv
  <2>3. Got(stream', f) = Got(stream, f) + n
    BY <1>13, <1>21
  <2>4. CASE f = "data_sect"
    <3>1. /\ Got(stream', "data_sect") = d + n /\ Got(stream', "inst_sect") = i
          /\ Got(stream', "addr_sect") = a
      BY <1>12, <1>14, <2>1, <2>3, <2>4
    <3> QED
      BY <1>7, <2>1, <2>2, <3>1
  <2>5. CASE f = "inst_sect"
    <3>1. /\ Got(stream', "data_sect") = d /\ Got(stream', "inst_sect") = i + n
          /\ Got(stream', "addr_sect") = a
      BY <1>12, <1>14, <2>1, <2>3, <2>5
    <3> QED
      BY <1>7, <2>1, <2>2, <3>1
  <2>6. CASE f = "addr_sect"
    <3>1. /\ Got(stream', "data_sect") = d /\ Got(stream', "inst_sect") = i
          /\ Got(stream', "addr_sect") = a + n
      BY <1>12, <1>14, <2>1, <2>3, <2>6
    <3> QED
      BY <1>7, <2>1, <2>2, <3>1
  <2> QED
    BY <2>4, <2>5, <2>6, SectionsAre
<1>23. CountInv'
  <2>1. ASSUME NEW g \in Sections, g # f PROVE stream'[g].pos = 0
    BY <1>4, <2>1, InTurn
  <2>2. /\ Got(stream, "data_sect")' = Got(stream', "data_sect")
        /\ Got(stream, "inst_sect")' = Got(stream', "inst_sect")
        /\ Got(stream, "addr_sect")' = Got(stream', "addr_sect")
    BY <1>3, SameChunk
  <2>3. ASSUME NEW g \in Sections, stream'[g].pos # 0
        PROVE  /\ stream'.dec_state = Turn(g) /\ stream'[g].pos < stream'[g].size
               /\ Len(stream'[g].copied) = stream'[g].pos
    BY <1>21, <2>1, <2>3
  <2> QED
    BY <1>22, <2>2, <2>3, Zenon DEF CountInv
<1>24. stream'.winbytes <= End'
  BY <1>1, <1>5, <1>7, <1>11
<1> QED
  BY <1>8, <1>9, <1>10, <1>11, <1>23, <1>24


LEMMA SectionStep ==
  ASSUME DedeltaInv, NEW f \in Sections, stream.dec_state = Turn(f), NEW n \in Nat, SectionMoves(f, n),
         UNCHANGED <<files, dedelta>>, pc = "process"
  PROVE  DedeltaInv'
<1>1. StreamTypes /\ HeaderInv /\ FileInv /\ SectionInv /\ GatherInv /\ InputInv
  BY Parts
<1>2. fdelta' = fdelta /\ CHUNK' = CHUNK /\ pos' = pos /\ pc' = "process"
  BY DEF files, dedelta
<1>3. /\ n <= AvailIn /\ n <= stream[f].size - stream[f].pos /\ at' = at + n /\ ibuf' = ibuf
      /\ stream'.winbytes = stream.winbytes + n
      /\ IsSection(stream'[f]) /\ stream'[f].size = stream[f].size
      /\ Partial(f, n) \/ Full(f, n)
  BY DEF SectionMoves
<1>4. /\ IsStream(stream') /\ stream'.flags = stream.flags /\ stream'.part32 = stream.part32
      /\ stream'.part64 = stream.part64 /\ stream'.magic = stream.magic
      /\ stream'.codetbl = stream.codetbl /\ stream'.codetblsz = stream.codetblsz
      /\ stream'.appheader = stream.appheader /\ stream'.appheadsz = stream.appheadsz
      /\ stream'.cksum = stream.cksum
      /\ \A g \in Sections : g # f => stream'[g] = stream[g]
  BY SectionFrame DEF SectionMoves
<1>5. /\ Len(ibuf) \in Nat /\ at \in Nat /\ at <= Len(ibuf) /\ AvailIn \in Nat
      /\ AvailIn = Len(ibuf) - at /\ End \in Nat /\ pos \in Nat
      /\ pos <= Len(fdelta) /\ End = pos - AvailIn /\ Len(fdelta) \in Nat /\ fdelta \in Seq(Nat)
  BY <1>1, FileFacts
<1>6. \/ stream'.dec_state = Turn(f) /\ Partial(f, n)
      \/ stream'.dec_state = NextOf(f) /\ Full(f, n)
  BY <1>3 DEF Partial, Full
<1>7. stream.winbytes \in Nat /\ stream'.winbytes \in Nat /\ stream'.winbytes = stream.winbytes + n
  BY <1>1, <1>3 DEF StreamTypes
<1>8. Counted
  BY AlsoCounted
<1>9. StreamTypes' /\ HeaderInv' /\ FileInv' /\ CountInv'
  BY <1>8, CountedStep
<1>11. AvailIn' = AvailIn - n /\ End' = End + n
  BY <1>8, CountedStep
<1>12. ASSUME NEW g \in Sections, g # f
       PROVE  /\ Complete(stream', g) = Complete(stream, g) /\ Got(stream', g) = Got(stream, g)
              /\ Held(stream', g) = Held(stream, g) /\ InPlaceNow(stream', g) = InPlaceNow(stream, g)
  <2>1. Complete(stream', g) = Complete(stream, g)
    BY <1>6, <1>12, SectionsAre DEF Complete, Turn, NextOf
  <2>2. stream'[g] = stream[g]
    BY <1>4, <1>12
  <2> QED
    BY <2>1, <2>2, Zenon DEF Got, Held, InPlaceNow
<1>13. /\ SoFar(f) \in Seq(Nat) /\ Len(SoFar(f)) = stream[f].pos /\ Held(stream, f) = SoFar(f)
       /\ Got(stream, f) = stream[f].pos /\ stream[f].pos \in Nat /\ stream[f].size \in Nat
       /\ stream[f].pos <= stream[f].size /\ (stream[f].pos = stream[f].size => stream[f].size = 0)
       /\ Rest \in Nat /\ stream[f].size - stream[f].pos <= Rest
  BY <1>8, InTurn, Missing DEF IsSection
<1>14. /\ Taken(n) = SubSeq(fdelta, End + 1, End + n) /\ Taken(n) \in Seq(Nat) /\ Len(Taken(n)) = n
       /\ End + n <= Len(fdelta)
  BY <1>1, <1>3, Taking DEF Taken
<1>15. PICK y \in Seq(Nat) : y = SoFar(f) \o Taken(n) /\ Len(y) = stream[f].pos + n
  <2>1. PICK u \in Seq(Nat), v \in Seq(Nat) : u = SoFar(f) /\ v = Taken(n)
    BY <1>13, <1>14
  <2>2. u \o v \in Seq(Nat) /\ Len(u \o v) = Len(u) + Len(v)
    OBVIOUS
  <2> QED
    BY <1>13, <1>14, <2>1, <2>2
<1>16. SubSeq(y, 1, Len(y)) = y
  OBVIOUS
<1>17. /\ Complete(stream', f) <=> stream'.dec_state = NextOf(f)
       /\ Turn(f) # NextOf(f)
  BY <1>6, SectionsAre DEF Complete, Turn, NextOf
<1>18. /\ stream'[f].copied \in Seq(Nat) /\ stream'[f].ref \in Int /\ stream'[f].pos \in Nat
       /\ stream'[f].size \in Nat
  BY <1>3 DEF IsSection
<1>19. PICK z \in Nat, p \in Nat, m \in Nat, v \in Nat :
         /\ z = stream[f].size /\ p = stream[f].pos /\ m = Rest /\ v = AvailIn
         /\ z - p <= m /\ n <= v /\ n <= z - p /\ p <= z /\ (p = z => z = 0)
  BY <1>3, <1>5, <1>13
<1>20. ASSUME NEW g \in Sections, g # f, InPlaceNow(stream', g)
       PROVE  stream'[g].ref + stream'[g].size <= at + n /\ Rest <= AvailIn
  <2>1. stream[g].ref + stream[g].size <= at /\ Rest <= AvailIn
    BY <1>1, <1>12, <1>20 DEF SectionInv, PlaceInv
  <2>2. stream'[g] = stream[g] /\ stream[g].ref \in Int /\ stream[g].size \in Nat
    BY <1>1, <1>4, <1>20 DEF StreamTypes, IsSection
  <2> QED
    BY <1>5, <2>1, <2>2
<1>21. ASSUME Partial(f, n) PROVE Afterwards(f, n, y)
  <2>1. /\ ret' = "XD3_INPUT" /\ stream'.dec_state = Turn(f)
        /\ n = v /\ n < z - p
        /\ stream'[f].pos = p + n
        /\ stream'[f].pos # 0 => stream'[f].copied = y
    BY <1>15, <1>17, <1>19, <1>21 DEF Partial
  <2>2. ~Complete(stream', f)
    BY <1>17, <2>1
  <2>3. Held(stream', f) = y
    <3>1. Held(stream', f) = SubSeq(stream'[f].copied, 1, stream'[f].pos)
      BY <2>2 DEF Held
    <3>2. CASE stream'[f].pos # 0
      BY <1>15, <1>16, <1>19, <2>1, <3>1, <3>2
    <3>3. CASE stream'[f].pos = 0
      <4>1. y = <<>>
        BY <1>15, <1>19, <2>1, <3>3
      <4>2. SubSeq(stream'[f].copied, 1, 0) = <<>>
        BY <1>18
      <4> QED
        BY <3>1, <3>3, <4>1, <4>2
    <3> QED
      BY <3>2, <3>3
  <2>4. Got(stream', f) = stream[f].pos + n
    BY <1>19, <2>1, <2>2 DEF Got
  <2>5. \A g \in Sections : ~InPlaceNow(stream', g)
    <3>1. ~(Rest <= AvailIn)
      BY <1>19, <2>1
    <3> QED
      BY <1>20, <2>2, <3>1 DEF InPlaceNow
  <2>6. stream'[f].pos < stream'[f].size
    <3>1. p + n < z
      BY <1>19, <2>1
    <3> QED
      BY <1>3, <1>19, <2>1, <3>1
  <2>7. stream'[f].pos # 0 => Len(stream'[f].copied) = stream'[f].pos
    BY <1>15, <1>19, <2>1
  <2>8. stream'.dec_state # "DEC_EMIT"
    BY <2>1, SectionsAre DEF Turn
  <2>9. n = AvailIn
    BY <1>19, <2>1
  <2> QED
    BY <2>1, <2>2, <2>3, <2>4, <2>5, <2>6, <2>7, <2>8, <2>9, Zenon DEF Afterwards
<1>22. ASSUME Full(f, n) PROVE Afterwards(f, n, y)
  <2>1. /\ ret' # "XD3_INPUT" /\ stream'.dec_state = NextOf(f)
        /\ n = z - p /\ stream'[f].pos = 0
        /\ \/ z = 0
           \/ stream'[f].ref = at /\ p = 0 /\ m <= v
           \/ stream'[f].ref = -1 /\ stream'[f].copied = y
    <3>1. InPlace(stream[f]) => p = 0 /\ m <= v
      <4>1. SumInv
        BY <1>1 DEF SectionInv
      <4> QED
        BY <1>8, <1>19, <4>1, PlacedInTime DEF InPlace
    <3> QED
      BY <1>15, <1>19, <1>22, <3>1 DEF Full
  <2>2. Complete(stream', f)
    BY <1>17, <2>1
  <2>3. Got(stream', f) = z
    BY <1>3, <1>19, <2>2 DEF Got
  <2>4. z = p + n /\ Len(y) = z
    BY <1>15, <1>19, <2>1, SMTT(20)
  <2>5. Held(stream', f) = IF stream'[f].ref >= 0
                           THEN SubSeq(ibuf, stream'[f].ref + 1, stream'[f].ref + z)
                           ELSE SubSeq(stream'[f].copied, 1, z)
    BY <1>3, <1>19, <2>2 DEF Held, SectionBytes
  <2>6. Held(stream', f) = y
    <3>1. CASE z = 0
      <4>1. y = <<>>
        BY <1>15, <2>4, <3>1
      <4>2. PICK r \in Int : r = stream'[f].ref
        BY <1>18
      <4>3. r + 0 = r
        BY SMT
      <4>4. SubSeq(ibuf, r + 1, r) = <<>>
        <5>1. ibuf \in Seq(Nat)
          BY <1>1 DEF FileInv
        <5> QED
          BY ONLY <5>1, <4>2
      <4>5. SubSeq(stream'[f].copied, 1, 0) = <<>>
        BY <1>18
      <4> QED
        BY <2>5, <3>1, <4>1, <4>2, <4>3, <4>4, <4>5
    <3>2. CASE z # 0 /\ stream'[f].ref = at /\ p = 0 /\ m <= v
      <4>1. SoFar(f) = <<>>
        BY <1>19, <3>2 DEF SoFar
      <4>2. y = Taken(n) /\ n = z
        <5>1. <<>> \o Taken(n) = Taken(n)
          BY <1>14
        <5> QED
          BY <1>15, <2>1, <3>2, <4>1, <5>1
      <4> QED
        BY <1>5, <2>5, <3>2, <4>2 DEF Taken
    <3>3. CASE stream'[f].ref = -1 /\ stream'[f].copied = y
      BY <1>16, <2>4, <2>5, <3>3
    <3> QED
      BY <2>1, <3>1, <3>2, <3>3
  <2>7. ASSUME InPlaceNow(stream', f)
        PROVE  stream'[f].ref + stream'[f].size <= at + n /\ Rest <= AvailIn
    <3>1. stream'[f].ref >= 0 /\ stream'[f].size > 0
      BY <2>7 DEF InPlaceNow
    <3>2. stream'[f].ref = at /\ p = 0 /\ m <= v /\ stream'[f].size = z
      BY <1>3, <1>19, <2>1, <3>1
    <3>3. at + z = at + n /\ at + n <= at + n
      BY <1>5, <1>19, <2>4, <3>2
    <3> QED
      BY <1>19, <3>2, <3>3
  <2>8. Got(stream', f) = stream[f].pos + n
    BY <1>19, <2>3, <2>4
  <2>9. stream'[f].ref < 0 => stream'[f].size <= Len(stream'[f].copied)
    <3>1. PICK c \in Seq(Nat) : c = stream'[f].copied
      BY <1>18
    <3>2. Len(c) \in Nat
      OBVIOUS
    <3>3. z <= Len(c) \/ stream'[f].ref = at
      <4>1. CASE z = 0
        BY <3>2, <4>1
      <4>2. CASE stream'[f].copied = y
        <5>1. Len(c) = z
          BY <2>4, <3>1, <4>2, Zenon
        <5> QED
          BY <1>19, <5>1
      <4> QED
        BY <2>1, <4>1, <4>2
    <3> QED
      BY <1>3, <1>5, <1>19, <3>1, <3>3
  <2> QED
    BY <1>20, <2>1, <2>6, <2>7, <2>8, <2>9, Zenon DEF Afterwards
<1>23. Afterwards(f, n, y)
  BY <1>3, <1>21, <1>22
<1>24. "data_sect" \in Sections /\ "inst_sect" \in Sections /\ "addr_sect" \in Sections
  BY SectionsAre
<1>25. \A g \in Sections : stream'[g].size = stream[g].size
  BY <1>3, <1>4
<1>26. Rest' = Rest - n
  <2>1. PICK d \in Nat, i \in Nat, a \in Nat, w \in Nat :
          /\ d = stream.data_sect.size /\ i = stream.inst_sect.size /\ a = stream.addr_sect.size
          /\ w = stream.winbytes
    BY <1>1, <1>7, <1>24 DEF StreamTypes, IsSection
  <2>2. SectionSum(stream) = d + i + a /\ SectionSum(stream)' = d + i + a
    BY <1>24, <1>25, <2>1, Zenon DEF SectionSum
  <2>3. Rest = (d + i + a) - w /\ Rest' = (d + i + a) - (w + n)
    BY <1>7, <2>1, <2>2, Zenon DEF Rest
  <2>4. PICK old, new : old = Rest /\ new = Rest'
    OBVIOUS
  <2>5. old = (d + i + a) - w /\ new = (d + i + a) - (w + n)
    BY <2>3, <2>4, Zenon
  <2>6. new = old - n
    BY ONLY <2>5, d \in Nat, i \in Nat, a \in Nat, w \in Nat, n \in Nat
  <2> QED
    BY <2>4, <2>6, Zenon
<1>27. SectionInv'
  <2>1. ASSUME NEW g \in Sections
        PROVE  /\ InPlaceNow(stream', g) => /\ stream'[g].ref + stream'[g].size <= at'
                                            /\ Rest' <= AvailIn'
               /\ Complete(stream', g) /\ stream'[g].ref < 0 =>
                    stream'[g].size <= Len(stream'[g].copied)
    <3>2. InPlaceNow(stream', g) => stream'[g].ref + stream'[g].size <= at'
      BY <1>3, <1>23 DEF Afterwards
    <3>3. InPlaceNow(stream', g) => Rest <= AvailIn
      BY <1>23 DEF Afterwards
    <3>4. Rest <= AvailIn => Rest' <= AvailIn'
      BY <1>11, <1>19, <1>26
    <3>5. g # f /\ Complete(stream', g) /\ stream'[g].ref < 0 => stream'[g].size <= Len(stream'[g].copied)
      BY <1>1, <1>4, <1>12 DEF SectionInv, PlaceInv
    <3> QED
      BY <1>23, <3>2, <3>3, <3>4, <3>5 DEF Afterwards
  <2>2. \A g \in Sections : /\ InPlaceNow(stream, g)' = InPlaceNow(stream', g)
                             /\ Complete(stream, g)' = Complete(stream', g)
    BY <1>3, SameChunk DEF Complete
  <2>3. PlaceInv'
    BY <2>1, <2>2, Zenon DEF PlaceInv
  <2>4. SumInv'
    <3>1. SectionSum(stream)' = SectionSum(stream)
      BY <1>24, <1>25, Zenon DEF SectionSum
    <3>2. stream.dec_state \in ReadStates
      BY SectionsAre DEF Turn, ReadStates
    <3> QED
      BY <1>1, <3>1, <3>2 DEF SectionInv, SumInv
  <2> QED
    BY <1>9, <2>3, <2>4 DEF SectionInv
<1>28. PICK t \in Seq(Nat) : t = Taken(n)
  BY <1>14
<1>29. ASSUME NEW g \in Sections PROVE Held(stream, g) \in Seq(Nat)
  <2>1. CASE ~Complete(stream, g)
    BY <1>8, <2>1, InTurn
  <2>2. CASE Complete(stream, g)
    <3>1. stream[g].copied \in Seq(Nat) /\ stream[g].size \in Nat /\ stream[g].ref \in Int
      BY <1>1 DEF StreamTypes, IsSection
    <3>2. PICK k \in Nat, r \in Int : k = stream[g].size /\ r = stream[g].ref
      BY <3>1
    <3>3. PICK c \in Seq(Nat) : c = stream[g].copied
      BY <3>1
    <3>4. Held(stream, g) = IF r >= 0 THEN SubSeq(ibuf, r + 1, r + k) ELSE SubSeq(c, 1, k)
      BY <2>2, <3>2, <3>3 DEF Held, SectionBytes
    <3>5. ibuf \in Seq(Nat)
      BY <1>1 DEF FileInv
    <3>6. CASE k = 0
      <4>1. SubSeq(ibuf, r + 1, r) = <<>> /\ SubSeq(c, 1, 0) = <<>> /\ <<>> \in Seq(Nat) /\ r + 0 = r
        BY ONLY <3>5, r \in Int, c \in Seq(Nat)
      <4> QED
        BY <3>4, <3>6, <4>1
    <3>7. CASE k # 0 /\ r >= 0
      <4>1. InPlaceNow(stream, g)
        BY <2>2, <3>2, <3>7 DEF InPlaceNow
      <4>2. r + k <= Len(ibuf)
        <5>1. stream[g].ref + stream[g].size <= at
          BY <1>1, <4>1 DEF SectionInv, PlaceInv
        <5>2. r + k <= at
          BY <3>2, <5>1, Zenon
        <5>3. PICK l \in Nat, c1 \in Nat : l = Len(ibuf) /\ c1 = at /\ c1 <= l
          BY <1>5
        <5>4. r + k <= l
          BY ONLY <5>2, <5>3, r \in Int, k \in Nat
        <5> QED
          BY <5>3, <5>4
      <4>3. PICK b \in Nat : b = r + k
        BY <3>7
      <4>4. r \in Nat /\ r <= b /\ b <= Len(ibuf)
        BY <3>7, <4>2, <4>3
      <4>5. SubSeq(ibuf, r + 1, b) \in Seq(Nat)
        BY ONLY <3>5, <4>3, <4>4, PieceOf
      <4> QED
        BY <3>4, <3>7, <4>3, <4>5
    <3>8. CASE ~(r >= 0)
      <4>1. k <= Len(c)
        BY <1>1, <2>2, <3>2, <3>3, <3>8 DEF SectionInv, PlaceInv
      <4>2. SubSeq(c, 1, k) \in Seq(Nat)
        BY ONLY <4>1, c \in Seq(Nat), k \in Nat
      <4> QED
        BY <3>4, <3>8, <4>2
    <3> QED
      BY <3>6, <3>7, <3>8
  <2> QED
    BY <2>1, <2>2
<1>30. ASSUME NEW g \in Sections, Turn(g) # Turn(f), ~Complete(stream, g) PROVE Held(stream, g) = <<>>
  <2>1. stream[g].pos = 0
    BY <1>8, <1>30, InTurn
  <2> QED
    BY <1>8, <1>30, <2>1, InTurn DEF SoFar
<1>31. Gathered(stream') = Gathered(stream) \o t
  <2>1. Held(stream', f) = Held(stream, f) \o t
    BY <1>13, <1>15, <1>23, <1>28 DEF Afterwards
  <2>2. /\ f = "data_sect" => Held(stream, "inst_sect") = <<>>
        /\ f # "addr_sect" => Held(stream, "addr_sect") = <<>>
    BY <1>24, <1>30, SectionsAre DEF Turn, Complete
  <2>3. \A g \in Sections : g # f => Held(stream', g) = Held(stream, g)
    BY <1>12
  <2> QED
    BY <1>28, <1>29, <2>1, <2>2, <2>3, MoreGathered
<1>33. GatherInv'
  <2>1. PICK e \in Nat, w \in Nat : e = End /\ w = stream.winbytes
    BY <1>5, <1>7
  <2>2. w <= e
    BY <1>1, <2>1 DEF GatherInv
  <2>4. Gathered(stream') = SubSeq(fdelta, (e + n) - (w + n) + 1, e + n)
    BY <1>1, <1>3, <1>7, <1>28, <1>31, <2>1, NextGathered
  <2>5. Gathered(stream)' = Gathered(stream')
    <3>1. /\ Held(stream, "data_sect")' = Held(stream', "data_sect")
          /\ Held(stream, "inst_sect")' = Held(stream', "inst_sect")
          /\ Held(stream, "addr_sect")' = Held(stream', "addr_sect")
      BY <1>3, SameChunk
    <3> QED
      BY <3>1, Zenon DEF Gathered
  <2>6. End' = e + n /\ stream'.winbytes = w + n /\ w + n <= e + n
    BY <1>7, <1>11, <2>1, <2>2
  <2> QED
    BY <1>2, <2>4, <2>5, <2>6 DEF GatherInv
<1>32. InputInv'
  <2>1. ret' = "XD3_INPUT" => at' = Len(ibuf)
    BY <1>3, <1>5, <1>23 DEF Afterwards
  <2> QED
    BY <1>2, <1>3, <1>23, <2>1, SameChunk DEF InputInv, Afterwards
<1> QED
  BY <1>9, <1>27, <1>33, <1>32 DEF DedeltaInv


-----------------------------------------------------------------------------
(* Instructions only move the cursors in the sections.                     *)

SameSection(x, y) ==
  IsSection(y) /\ y.size = x.size /\ y.pos = x.pos /\ y.ref = x.ref /\ y.copied = x.copied

EmitFields == {"current1", "current2", "position", "acache", "out", "hasSource"}

(* A stream, and one that comes of it by reading in the sections. *)
Sound(s) == IsStream(s) /\ \A f \in Sections : IsSection(s[f])
Reads(s, t) ==
  /\ IsStream(t)
  /\ \A g \in StreamFields : g \in EmitFields \/ g \in Sections \/ t[g] = s[g]
  /\ \A f \in Sections : SameSection(s[f], t[f])

LEMMA ReadsNothing == ASSUME NEW s, Sound(s) PROVE Reads(s, s)
  BY DEF Sound, Reads, SameSection

LEMMA ReadsSound == ASSUME NEW s, NEW t, Reads(s, t) PROVE Sound(t)
  BY DEF Sound, Reads, SameSection

LEMMA ReadsOn == ASSUME NEW s, NEW t, NEW u, Reads(s, t), Reads(t, u) PROVE Reads(s, u)
  BY DEF Reads, SameSection

(* Another cursor. *)
LEMMA NewCursor ==
  ASSUME NEW x, IsSection(x), NEW v, NEW y, y = [x EXCEPT !.read = v]
  PROVE  SameSection(x, y)
<1>1. /\ y = [g \in SectionFields |-> y[g]]
      /\ y.size = x.size /\ y.pos = x.pos /\ y.ref = x.ref /\ y.copied = x.copied /\ y.alloc1 = x.alloc1
  BY SectionFieldNames DEF IsSection
<1>2. IsSection(y)
  BY <1>1, Zenon DEF IsSection
<1> QED
  BY <1>1, <1>2 DEF SameSection

LEMMA CursorsMove ==
  ASSUME NEW s, Sound(s), NEW t, IsStream(t),
         \A g \in StreamFields : g \in EmitFields \/ g \in Sections \/ t[g] = s[g],
         \A f \in Sections : t[f] = s[f] \/ \E v : t[f] = [s[f] EXCEPT !.read = v]
  PROVE  Reads(s, t)
<1>1. ASSUME NEW f \in Sections PROVE SameSection(s[f], t[f])
  <2>1. IsSection(s[f])
    BY DEF Sound
  <2>2. CASE t[f] = s[f]
    BY <2>1, <2>2 DEF SameSection
  <2>3. ASSUME NEW v, t[f] = [s[f] EXCEPT !.read = v] PROVE SameSection(s[f], t[f])
    BY <2>1, <2>3, NewCursor
  <2> QED
    BY <2>2, <2>3
<1> QED
  BY <1>1 DEF Reads

-----------------------------------------------------------------------------
(* Within the sections nothing waits for input. *)

LEMMA HalfSizeRefuses ==
  ASSUME NEW s, NEW size PROVE HalfSize(s, size).ret # "XD3_INPUT"
<1> DEFINE in == Unread(s.inst_sect)
<1>1. ReadInteger(in).ret # "XD3_INPUT"
  BY ReadIntegerRefuses
<1> HIDE DEF in
<1>2. HalfSize(s, size) = IF size # 0 THEN [ret |-> "ok", val |-> size, used |-> 0] ELSE ReadInteger(in)
  BY DEF HalfSize, in
<1> QED
  BY <1>1, <1>2

LEMMA HalfAddrRefuses ==
  ASSUME NEW s, NEW type PROVE HalfAddr(s, type).ret # "XD3_INPUT"
<1> DEFINE in == Unread(s.addr_sect)
           r == ReadInteger(in)
<1>1. r.ret # "XD3_INPUT"
  BY ReadIntegerRefuses
<1> HIDE DEF in, r
<1>2. ASSUME NEW c, NEW here, NEW mode PROVE DecodeAddress(c, here, mode, in).ret # "XD3_INPUT"
  <2> DEFINE v == CASE mode = VCD_SELF -> r.val
                    [] mode = VCD_HERE -> (here - r.val) % Word
                    [] OTHER -> (r.val + c.near[mode - 2]) % Word
             w == c.same[(mode - 2 - SNear(c)) * Page + (in[1] % Page)]
  <2>1. DecodeAddress(c, here, mode, in)
          = IF mode < 2 + SNear(c)
            THEN IF r.ret # "ok" THEN r ELSE [ret |-> "ok", used |-> r.used, val |-> v]
            ELSE IF in = <<>> THEN [ret |-> "XD3_INVALID_INPUT"]
            ELSE [ret |-> "ok", val |-> w, used |-> 1]
    BY Zenon DEF DecodeAddress, r
  <2> HIDE DEF v, w
  <2>2. [ret |-> "ok", used |-> r.used, val |-> v].ret = "ok" /\ [ret |-> "XD3_INVALID_INPUT"].ret = "XD3_INVALID_INPUT"
        /\ [ret |-> "ok", val |-> w, used |-> 1].ret = "ok"
    OBVIOUS
  <2> QED
    BY <1>1, <2>1, <2>2
<1>3. HalfAddr(s, type) = IF type < XD3_CPY THEN [ret |-> "ok", val |-> 0, used |-> 0]
                          ELSE DecodeAddress(s.acache, s.position, type - XD3_CPY, in)
  BY DEF HalfAddr, in
<1>4. [ret |-> "ok", val |-> 0, used |-> 0].ret = "ok"
  OBVIOUS
<1> QED
  BY <1>2, <1>3, <1>4

LEMMA ParseHalfReads ==
  ASSUME NEW s, Sound(s), NEW half \in {"current1", "current2"}, NEW type, NEW size,
         NEW p, p = ParseHalf(s, half, type, size)
  PROVE  p.ret # "XD3_INPUT" /\ (p.ret = "ok" => Reads(s, p.s))
<1>1. IsStream(s)
  BY DEF Sound
<1>2. CASE type = XD3_NOOP
  <2>1. PICK h : h = [NoHalf EXCEPT !.size = size]
    OBVIOUS
  <2>2. PICK t : t = [s EXCEPT ![half] = h]
    OBVIOUS
  <2>3. p = [ret |-> "ok", s |-> t]
    BY <1>2, <2>1, <2>2 DEF ParseHalf
  <2>4. IsStream(t) /\ \A g \in StreamFields : g = half \/ t[g] = s[g]
    BY <1>1, <2>2 DEF IsStream
  <2>5. half \in EmitFields /\ half \notin Sections /\ Sections \subseteq StreamFields
    BY SectionsAre, StreamFieldNames DEF EmitFields
  <2>6. Reads(s, t)
    BY <2>4, <2>5, CursorsMove
  <2> QED
    BY <2>3, <2>6
<1>3. CASE type # XD3_NOOP
  <2> DEFINE n == HalfSize(s, size)
             a == HalfAddr(s, type)
  <2>1. p = Parsed(s, half, type, n, a)
    BY <1>3 DEF ParseHalf
  <2>2. n.ret # "XD3_INPUT" /\ a.ret # "XD3_INPUT"
    BY HalfSizeRefuses, HalfAddrRefuses
  <2> HIDE DEF n, a
  <2>3. PICK h : h = [type |-> type, size |-> n.val, addr |-> a.val]
    OBVIOUS
  <2>4. PICK c : c = IF type >= XD3_CPY THEN UpdateCache(s.acache, a.val) ELSE s.acache
    OBVIOUS
  <2>5. PICK q : q = (s.position + n.val) % Word
    OBVIOUS
  <2>6. PICK i : i = s.inst_sect.read + n.used
    OBVIOUS
  <2>7. PICK d : d = s.addr_sect.read + a.used
    OBVIOUS
  <2>8. PICK t : t = [s EXCEPT ![half] = h, !.position = q, !.inst_sect.read = i,
                               !.addr_sect.read = d, !.acache = c]
    OBVIOUS
  <2>9. p = IF n.ret # "ok" THEN n
            ELSE IF a.ret # "ok" THEN a
            ELSE IF ~InBounds(s, type, n.val, a.val) THEN [ret |-> "XD3_INVALID_INPUT"]
            ELSE [ret |-> "ok", s |-> t]
    <3>1. CASE half = "current1"
      BY <2>1, <2>3, <2>4, <2>5, <2>6, <2>7, <2>8, <3>1, <1>1, StreamFieldNames DEF Parsed, IsStream
    <3>2. CASE half = "current2"
      BY <2>1, <2>3, <2>4, <2>5, <2>6, <2>7, <2>8, <3>2, <1>1, StreamFieldNames DEF Parsed, IsStream
    <3> QED
      BY <3>1, <3>2
  <2>10. Reads(s, t)
    <3>1. /\ IsStream(t)
          /\ \A g \in StreamFields : \/ g \in {"inst_sect", "addr_sect", "position", "acache", half}
                                     \/ t[g] = s[g]
          /\ t.inst_sect = [s.inst_sect EXCEPT !.read = i]
          /\ t.addr_sect = [s.addr_sect EXCEPT !.read = d]
      <4>1. CASE half = "current1"
        BY <1>1, <2>8, <4>1, StreamFieldNames DEF IsStream
      <4>2. CASE half = "current2"
        BY <1>1, <2>8, <4>2, StreamFieldNames DEF IsStream
      <4> QED
        BY <4>1, <4>2
    <3>2. t.data_sect = s.data_sect
      BY <3>1, StreamFieldNames
    <3>3. \A g \in StreamFields : g \in EmitFields \/ g \in Sections \/ t[g] = s[g]
      BY <3>1, SectionsAre DEF EmitFields
    <3>4. \A f \in Sections : t[f] = s[f] \/ \E v : t[f] = [s[f] EXCEPT !.read = v]
      BY <3>1, <3>2, SectionsAre, Zenon
    <3> QED
      BY <3>1, <3>3, <3>4, CursorsMove
  <2> QED
    BY <2>2, <2>9, <2>10
<1> QED
  BY <1>2, <1>3

-----------------------------------------------------------------------------
(* The instructions: the position in the chunk stays, and what is gathered. *)
EmitMoves ==
  /\ stream.dec_state = "DEC_EMIT" /\ ibuf' = ibuf /\ at' = at /\ ret' # "XD3_INPUT"
  /\ Reads(stream, stream')

LEMMA SoundTypes == ASSUME StreamTypes PROVE Sound(stream) /\ Reads(stream, stream)
<1>1. Sound(stream)
  BY DEF StreamTypes, Sound
<1> QED
  BY <1>1, ReadsNothing

LEMMA SoundStream == ASSUME DedeltaInv PROVE Sound(stream) /\ Reads(stream, stream)
  BY Parts, SoundTypes

LEMMA EmitNothing ==
  ASSUME DedeltaInv, stream.dec_state = "DEC_EMIT", ibuf' = ibuf, at' = at, ret' # "XD3_INPUT", stream' = stream
  PROVE  EmitMoves
  BY SoundStream DEF EmitMoves

LEMMA ParseOpcodeReads ==
  ASSUME NEW s, Sound(s), NEW d, NEW p, p = ParseOpcode(s, d)
  PROVE  p.ret # "XD3_INPUT" /\ (p.ret = "ok" => Reads(s, p.s))
<1>1. PICK a : a = ParseHalf(s, "current1", d.type1, d.size1)
  OBVIOUS
<1>2. a.ret # "XD3_INPUT" /\ (a.ret = "ok" => Reads(s, a.s))
  BY <1>1, ParseHalfReads, Zenon
<1>3. p = IF a.ret = "ok" THEN ParseHalf(a.s, "current2", d.type2, d.size2) ELSE a
  BY <1>1, Zenon DEF ParseOpcode
<1>4. ASSUME a.ret = "ok" PROVE p.ret # "XD3_INPUT" /\ (p.ret = "ok" => Reads(s, p.s))
  <2>1. Sound(a.s)
    BY <1>2, <1>4, ReadsSound
  <2>2. p = ParseHalf(a.s, "current2", d.type2, d.size2)
    BY <1>3, <1>4
  <2>3. p.ret # "XD3_INPUT" /\ (p.ret = "ok" => Reads(a.s, p.s))
    BY <2>1, <2>2, ParseHalfReads, Zenon
  <2> QED
    BY <1>2, <1>4, <2>3, ReadsOn
<1> QED
  BY <1>2, <1>3, <1>4

LEMMA EmitInstructionMoves == ASSUME DedeltaInv, EmitInstruction PROVE EmitMoves
<1>1. Sound(stream) /\ IsStream(stream)
  BY SoundStream DEF Sound
<1>2. PICK i : i = stream.inst_sect.read + 1
  OBVIOUS
<1>3. PICK s : s = [stream EXCEPT !.inst_sect.read = i]
  OBVIOUS
<1>4. PICK d : d = CodeTable[Head(Unread(stream.inst_sect))]
  OBVIOUS
<1>5. PICK p : p = ParseOpcode(s, d)
  OBVIOUS
<1>6. /\ stream.dec_state = "DEC_EMIT" /\ ret = "calling" /\ at' = at /\ ibuf' = ibuf
      /\ IF p.ret = "ok" THEN stream' = p.s /\ ret' = ret ELSE stream' = stream /\ ret' = p.ret
  BY <1>2, <1>3, <1>4, <1>5 DEF EmitInstruction, EmitCase, Case, Goto, Return
<1>7. Reads(stream, s)
  <2>1. /\ IsStream(s)
        /\ \A g \in StreamFields : g = "inst_sect" \/ s[g] = stream[g]
        /\ s.inst_sect = [stream.inst_sect EXCEPT !.read = i]
    BY <1>1, <1>3, StreamFieldNames, SMTT(30) DEF IsStream
  <2>2. \A g \in StreamFields : g \in EmitFields \/ g \in Sections \/ s[g] = stream[g]
    BY <2>1, SectionsAre
  <2>3. \A f \in Sections : s[f] = stream[f] \/ \E v : s[f] = [stream[f] EXCEPT !.read = v]
    <3>1. s.data_sect = stream.data_sect /\ s.addr_sect = stream.addr_sect
      BY <2>1, StreamFieldNames
    <3>2. ASSUME NEW f \in Sections PROVE s[f] = stream[f] \/ \E v : s[f] = [stream[f] EXCEPT !.read = v]
      <4>1. CASE f = "inst_sect"
        BY <2>1, <4>1, Zenon
      <4>2. CASE f = "data_sect"
        BY <3>1, <4>2
      <4>3. CASE f = "addr_sect"
        BY <3>1, <4>3
      <4> QED
        BY <4>1, <4>2, <4>3, SectionsAre
    <3> QED
      BY <3>2
  <2> QED
    BY <1>1, <2>1, <2>2, <2>3, CursorsMove
<1>8. p.ret # "XD3_INPUT" /\ (p.ret = "ok" => Reads(s, p.s))
  BY <1>5, <1>7, ReadsSound, ParseOpcodeReads
<1>9. CASE p.ret = "ok"
  <2>1. Reads(stream, stream')
    BY <1>6, <1>7, <1>8, <1>9, ReadsOn
  <2> QED
    BY <1>6, <1>9, <2>1 DEF EmitMoves
<1>10. CASE p.ret # "ok"
  BY <1>6, <1>8, <1>10, EmitNothing
<1> QED
  BY <1>9, <1>10

(* An instruction that writes: the output, its half and the data's cursor. *)
LEMMA EmitWrites ==
  ASSUME DedeltaInv, stream.dec_state = "DEC_EMIT", ibuf' = ibuf, at' = at, ret' # "XD3_INPUT",
         IsStream(stream'),
         \A g \in StreamFields : \/ g = "out" \/ g = "current1" \/ g = "current2" \/ g = "data_sect"
                                 \/ stream'[g] = stream[g],
         stream'.data_sect = stream.data_sect
           \/ \E v : stream'.data_sect = [stream.data_sect EXCEPT !.read = v]
  PROVE  EmitMoves
<1>1. Sound(stream)
  BY SoundStream
<1>2. \A g \in StreamFields : g \in EmitFields \/ g \in Sections \/ stream'[g] = stream[g]
  BY SectionsAre DEF EmitFields
<1>3. stream'.inst_sect = stream.inst_sect /\ stream'.addr_sect = stream.addr_sect
  BY StreamFieldNames
<1>4. \A f \in Sections : stream'[f] = stream[f] \/ \E v : stream'[f] = [stream[f] EXCEPT !.read = v]
  BY <1>3, SectionsAre, Zenon
<1>5. Reads(stream, stream')
  BY <1>1, <1>2, <1>4, CursorsMove
<1> QED
  BY <1>5 DEF EmitMoves

LEMMA HalfIs == Half = "current1" \/ Half = "current2"
  BY DEF Half

LEMMA EmitRunMoves == ASSUME DedeltaInv, EmitRun PROVE EmitMoves
<1>1. Sound(stream) /\ IsStream(stream)
  BY SoundStream DEF Sound
<1>2. PICK o : o = stream.out \o [k \in 1 .. stream[Half].size |-> Unread(stream.data_sect)[1]]
  OBVIOUS
<1>3. PICK i : i = stream.data_sect.read + 1
  OBVIOUS
<1>4. PICK h : h = Spent
  OBVIOUS
<1>5. PICK f : f = Half /\ (f = "current1" \/ f = "current2")
  BY HalfIs
<1>6. /\ stream.dec_state = "DEC_EMIT" /\ ret = "calling" /\ at' = at /\ ibuf' = ibuf
      /\ \/ stream' = stream /\ ret' \in {"XD3_INVALID_INPUT", "undefined"}
         \/ stream' = [stream EXCEPT !.out = o, !.data_sect.read = i, ![f] = h] /\ ret' = ret
  BY <1>2, <1>3, <1>4, <1>5 DEF EmitRun, EmitHalfCase, EmitCase, Case, Output, Goto, Return, Refuse,
                                    Undefined
<1>7. CASE stream' = stream /\ ret' \in {"XD3_INVALID_INPUT", "undefined"}
  BY <1>6, <1>7, EmitNothing
<1>8. CASE stream' = [stream EXCEPT !.out = o, !.data_sect.read = i, ![f] = h] /\ ret' = ret
  <2>1. /\ IsStream(stream')
        /\ \A g \in StreamFields : \/ g = "out" \/ g = "current1" \/ g = "current2" \/ g = "data_sect"
                                   \/ stream'[g] = stream[g]
        /\ stream'.data_sect = [stream.data_sect EXCEPT !.read = i]
    <3>1. CASE f = "current1"
      BY <1>1, <1>8, <3>1, StreamFieldNames, ZenonT(30) DEF IsStream
    <3>2. CASE f = "current2"
      BY <1>1, <1>8, <3>2, StreamFieldNames, ZenonT(30) DEF IsStream
    <3> QED
      BY <1>5, <3>1, <3>2
  <2> QED
    BY <1>6, <1>8, <2>1, EmitWrites
<1> QED
  BY <1>6, <1>7, <1>8

LEMMA EmitAddMoves == ASSUME DedeltaInv, EmitAdd PROVE EmitMoves
<1>1. Sound(stream) /\ IsStream(stream)
  BY SoundStream DEF Sound
<1>2. PICK o : o = stream.out \o SubSeq(Unread(stream.data_sect), 1, stream[Half].size)
  OBVIOUS
<1>3. PICK i : i = stream.data_sect.read + stream[Half].size
  OBVIOUS
<1>4. PICK h : h = Spent
  OBVIOUS
<1>5. PICK f : f = Half /\ (f = "current1" \/ f = "current2")
  BY HalfIs
<1>6. /\ stream.dec_state = "DEC_EMIT" /\ ret = "calling" /\ at' = at /\ ibuf' = ibuf
      /\ \/ stream' = stream /\ ret' \in {"XD3_INVALID_INPUT", "undefined"}
         \/ stream' = [stream EXCEPT !.out = o, !.data_sect.read = i, ![f] = h] /\ ret' = ret
  BY <1>2, <1>3, <1>4, <1>5 DEF EmitAdd, EmitHalfCase, EmitCase, Case, Output, Goto, Return, Refuse,
                                    Undefined
<1>7. CASE stream' = stream /\ ret' \in {"XD3_INVALID_INPUT", "undefined"}
  BY <1>6, <1>7, EmitNothing
<1>8. CASE stream' = [stream EXCEPT !.out = o, !.data_sect.read = i, ![f] = h] /\ ret' = ret
  <2>1. /\ IsStream(stream')
        /\ \A g \in StreamFields : \/ g = "out" \/ g = "current1" \/ g = "current2" \/ g = "data_sect"
                                   \/ stream'[g] = stream[g]
        /\ stream'.data_sect = [stream.data_sect EXCEPT !.read = i]
    <3>1. CASE f = "current1"
      BY <1>1, <1>8, <3>1, StreamFieldNames, ZenonT(30) DEF IsStream
    <3>2. CASE f = "current2"
      BY <1>1, <1>8, <3>2, StreamFieldNames, ZenonT(30) DEF IsStream
    <3> QED
      BY <1>5, <3>1, <3>2
  <2> QED
    BY <1>6, <1>8, <2>1, EmitWrites
<1> QED
  BY <1>6, <1>7, <1>8

(* A copy's output, or its refusal. *)
LEMMA CopyMoves ==
  ASSUME DedeltaInv, stream.dec_state = "DEC_EMIT", ibuf' = ibuf, at' = at, ret' # "XD3_INPUT",
         NEW o, NEW h, NEW f, f = "current1" \/ f = "current2",
         stream' = [stream EXCEPT !.out = o, ![f] = h]
  PROVE  EmitMoves
<1>1. IsStream(stream)
  BY SoundStream DEF Sound
<1>2. /\ IsStream(stream')
      /\ \A g \in StreamFields : \/ g = "out" \/ g = "current1" \/ g = "current2"
                                 \/ stream'[g] = stream[g]
  <2>1. CASE f = "current1"
    BY <1>1, <2>1, StreamFieldNames, ZenonT(30) DEF IsStream
  <2>2. CASE f = "current2"
    BY <1>1, <2>2, StreamFieldNames, ZenonT(30) DEF IsStream
  <2> QED
    BY <2>1, <2>2
<1>3. stream'.data_sect = stream.data_sect
  BY <1>2, StreamFieldNames
<1> QED
  BY <1>2, <1>3, EmitWrites

(* An instruction's output, or none.                                       *)
LEMMA OutputGoes ==
  ASSUME NEW n, NEW s, Output(n, s)
  PROVE  \/ stream' = s /\ ret' = ret
         \/ stream' = stream /\ ret' = "undefined"
  BY DEF Output, Goto, Undefined, Return

LEMMA EmitCopyTargetMoves == ASSUME DedeltaInv, EmitCopyTarget PROVE EmitMoves
<1> DEFINE from == stream[Half].addr - stream.cpylen
           period == Len(stream.out) - from
           take == stream[Half].size
           out == stream.out \o [k \in 1 .. take |-> stream.out[from + 1 + ((k - 1) % period)]]
           half == [Spent EXCEPT !.size = 0]
<1>1. /\ stream.dec_state = "DEC_EMIT" /\ ret = "calling" /\ at' = at /\ ibuf' = ibuf
      /\ Undefined \/ Output(take, [stream EXCEPT !.out = out, ![Half] = half])
  BY Zenon DEF EmitCopyTarget, EmitHalfCase, EmitCase, Case
<1> HIDE DEF take, out, half
<1>2. \/ stream' = stream /\ ret' = "undefined"
      \/ stream' = [stream EXCEPT !.out = out, ![Half] = half] /\ ret' = ret
  BY <1>1, OutputGoes, Zenon DEF Undefined, Return
<1>3. CASE stream' = stream /\ ret' = "undefined"
  BY <1>1, <1>3, EmitNothing
<1>4. CASE stream' = [stream EXCEPT !.out = out, ![Half] = half] /\ ret' = ret
  <2>1. ret' # "XD3_INPUT"
    BY <1>1, <1>4
  <2> QED
    BY <1>1, <1>4, <2>1, HalfIs, CopyMoves, Zenon
<1> QED
  BY <1>2, <1>3, <1>4

LEMMA EmitCopySourceMoves == ASSUME DedeltaInv, EmitCopySource PROVE EmitMoves
<1> DEFINE h == stream[Half]
           b == BlksizeAdd(BlksizeDiv(stream.cpyoff), h.addr)
           take == Min({h.size, source.blksize - b[2]})
           out == stream.out \o SubSeq(source.curblk, b[2] + 1, b[2] + take)
           half == IF take = h.size THEN [Spent EXCEPT !.size = 0]
                   ELSE [h EXCEPT !.size = @ - take, !.addr = @ + take]
<1>1. /\ stream.dec_state = "DEC_EMIT" /\ ret = "calling" /\ at' = at /\ ibuf' = ibuf
      /\ \/ AskBlock(b[1]) /\ UNCHANGED stream
         \/ Refuse
         \/ Undefined
         \/ Output(take, [stream EXCEPT !.out = out, ![Half] = half])
  BY Zenon DEF EmitCopySource, EmitHalfCase, EmitCase, Case
<1> HIDE DEF b, take, out, half
<1>2. CASE AskBlock(b[1]) /\ UNCHANGED stream
  <2>1. ret' # "XD3_INPUT" /\ stream' = stream
    BY <1>2 DEF AskBlock
  <2> QED
    BY <1>1, <2>1, EmitNothing
<1>3. CASE Refuse \/ Undefined
  <2>1. ret' # "XD3_INPUT" /\ stream' = stream
    BY <1>3 DEF Refuse, Undefined, Return
  <2> QED
    BY <1>1, <2>1, EmitNothing
<1>4. CASE Output(take, [stream EXCEPT !.out = out, ![Half] = half])
  <2>1. \/ stream' = stream /\ ret' = "undefined"
        \/ stream' = [stream EXCEPT !.out = out, ![Half] = half] /\ ret' = ret
    BY <1>4, OutputGoes, Zenon
  <2>2. ret' # "XD3_INPUT"
    BY <1>1, <2>1
  <2> QED
    BY <1>1, <2>1, <2>2, HalfIs, CopyMoves, EmitNothing, Zenon
<1> QED
  BY <1>1, <1>2, <1>3, <1>4

LEMMA EmitCopyWindowMoves == ASSUME DedeltaInv, EmitCopyWindow PROVE EmitMoves
<1> DEFINE half == [Spent EXCEPT !.size = 0]
<1>1. /\ stream.dec_state = "DEC_EMIT" /\ at' = at /\ ibuf' = ibuf
      /\ stream' = [stream EXCEPT ![Half] = half] /\ ret' = "XD3_UNIMPLEMENTED"
  BY Zenon DEF EmitCopyWindow, EmitHalfCase, EmitCase, Case, Return
<1> HIDE DEF half
<1>2. PICK f : f = Half /\ (f = "current1" \/ f = "current2")
  BY HalfIs
<1>3. IsStream(stream)
  BY SoundStream DEF Sound
<1>4. /\ IsStream(stream')
      /\ \A g \in StreamFields : g = f \/ stream'[g] = stream[g]
  BY <1>1, <1>2, <1>3 DEF IsStream
<1>5. stream'.data_sect = stream.data_sect
  BY <1>2, <1>4, StreamFieldNames
<1> QED
  BY <1>1, <1>2, <1>4, <1>5, EmitWrites

LEMMA EmitNoSourceMoves == ASSUME DedeltaInv, EmitNoSource PROVE EmitMoves
<1>1. stream.dec_state = "DEC_EMIT" /\ at' = at /\ ibuf' = ibuf /\ stream' = stream /\ ret' # "XD3_INPUT"
  BY DEF EmitNoSource, EmitCase, Case, Refuse, Return
<1> QED
  BY <1>1, EmitNothing

-----------------------------------------------------------------------------
(* Steps that keep the chunk and what was gathered of it. *)

InputNeeded == pc \in {"open", "setup", "read"} \/ ret = "XD3_INPUT"

LEMMA CountedKept ==
  ASSUME Counted, ibuf' = ibuf, at' = at, files' = files, pos' = pos, Reads(stream, stream')
  PROVE  /\ Counted' /\ stream'.dec_state = stream.dec_state
         /\ SectionSum(stream)' = SectionSum(stream)
<1>1. StreamTypes /\ HeaderInv /\ FileInv /\ CountInv /\ stream.winbytes <= End
  BY DEF Counted
<1>2. fdelta' = fdelta /\ CHUNK' = CHUNK
  BY DEF files
<1>3. /\ IsStream(stream')
      /\ \A g \in StreamFields : g \in EmitFields \/ g \in Sections \/ stream'[g] = stream[g]
      /\ \A f \in Sections : SameSection(stream[f], stream'[f])
  BY DEF Reads
<1>4. /\ stream'.dec_state = stream.dec_state /\ stream'.flags = stream.flags
      /\ stream'.part32 = stream.part32 /\ stream'.part64 = stream.part64
      /\ stream'.winbytes = stream.winbytes /\ stream'.magic = stream.magic
      /\ stream'.codetbl = stream.codetbl /\ stream'.codetblsz = stream.codetblsz
      /\ stream'.appheader = stream.appheader /\ stream'.appheadsz = stream.appheadsz
      /\ stream'.cksum = stream.cksum
  BY <1>3, StreamFieldNames, SectionsAre DEF EmitFields
<1>5. ASSUME NEW f \in Sections
      PROVE  /\ IsSection(stream'[f]) /\ stream'[f].size = stream[f].size
             /\ stream'[f].pos = stream[f].pos /\ stream'[f].ref = stream[f].ref
             /\ stream'[f].copied = stream[f].copied
  BY <1>3 DEF SameSection
<1>6. StreamTypes'
  BY <1>1, <1>3, <1>4, <1>5 DEF StreamTypes
<1>7. HeaderInv'
  BY <1>1, <1>4 DEF HeaderInv
<1>8. FileInv'
  BY <1>1, <1>2 DEF FileInv
<1>9. ASSUME NEW f \in Sections PROVE Got(stream, f)' = Got(stream, f)
  BY <1>4, <1>5 DEF Got, Complete
<1>10. "data_sect" \in Sections /\ "inst_sect" \in Sections /\ "addr_sect" \in Sections
  BY SectionsAre
<1>11. End' = End /\ SectionSum(stream)' = SectionSum(stream)
  BY <1>5, <1>10 DEF AvailIn, End, SectionSum
<1>12. CountInv'
  BY <1>1, <1>4, <1>5, <1>9, <1>10 DEF CountInv
<1> QED
  BY <1>1, <1>4, <1>6, <1>7, <1>8, <1>11, <1>12 DEF Counted

LEMMA Kept ==
  ASSUME DedeltaInv, ibuf' = ibuf, at' = at, files' = files, pos' = pos, Reads(stream, stream'),
         InputNeeded' => InputNeeded
  PROVE  DedeltaInv'
<1>1. StreamTypes /\ HeaderInv /\ FileInv /\ SectionInv /\ GatherInv /\ InputInv
  BY Parts
<1>2. fdelta' = fdelta /\ CHUNK' = CHUNK
  BY DEF files
<1>3. /\ IsStream(stream')
      /\ \A g \in StreamFields : g \in EmitFields \/ g \in Sections \/ stream'[g] = stream[g]
      /\ \A f \in Sections : SameSection(stream[f], stream'[f])
  BY DEF Reads
<1>4. /\ stream'.dec_state = stream.dec_state /\ stream'.flags = stream.flags
      /\ stream'.part32 = stream.part32 /\ stream'.part64 = stream.part64
      /\ stream'.winbytes = stream.winbytes /\ stream'.magic = stream.magic
      /\ stream'.codetbl = stream.codetbl /\ stream'.codetblsz = stream.codetblsz
      /\ stream'.appheader = stream.appheader /\ stream'.appheadsz = stream.appheadsz
      /\ stream'.cksum = stream.cksum
  BY <1>3, StreamFieldNames, SectionsAre DEF EmitFields
<1>5. ASSUME NEW f \in Sections
      PROVE  /\ IsSection(stream'[f]) /\ stream'[f].size = stream[f].size
             /\ stream'[f].pos = stream[f].pos /\ stream'[f].ref = stream[f].ref
             /\ stream'[f].copied = stream[f].copied
  BY <1>3 DEF SameSection
<1>6. StreamTypes' /\ HeaderInv' /\ FileInv' /\ CountInv'
  BY AlsoCounted, CountedKept DEF Counted
<1>9. ASSUME NEW f \in Sections
      PROVE  /\ Held(stream, f)' = Held(stream, f) /\ Got(stream, f)' = Got(stream, f)
             /\ InPlaceNow(stream, f)' = InPlaceNow(stream, f)
             /\ Complete(stream, f)' = Complete(stream, f)
  BY <1>4, <1>5 DEF Held, Got, InPlaceNow, Complete, SectionBytes
<1>10. "data_sect" \in Sections /\ "inst_sect" \in Sections /\ "addr_sect" \in Sections
  BY SectionsAre
<1>11. /\ AvailIn' = AvailIn /\ End' = End /\ Rest' = Rest
       /\ SectionSum(stream)' = SectionSum(stream)
  BY <1>4, <1>5, <1>10 DEF AvailIn, End, Rest, SectionSum
<1>12. SectionInv'
  <2>1. PlaceInv'
    BY <1>1, <1>5, <1>9, <1>11 DEF SectionInv, PlaceInv
  <2>2. SumInv'
    BY <1>1, <1>4, <1>11 DEF SectionInv, SumInv
  <2> QED
    BY <1>6, <2>1, <2>2 DEF SectionInv
<1>13. GatherInv'
  <2>1. Gathered(stream)' = Gathered(stream)
    BY <1>9, <1>10, Zenon DEF Gathered
  <2> QED
    BY <1>1, <1>2, <1>4, <1>11, <2>1 DEF GatherInv
<1>14. InputInv'
  BY <1>1, <1>4, <1>9 DEF InputInv, InputNeeded
<1> QED
  BY <1>6, <1>12, <1>13, <1>14 DEF DedeltaInv

LEMMA EmitStep ==
  ASSUME DedeltaInv, EmitMoves, UNCHANGED <<files, dedelta>>, pc = "process"
  PROVE  DedeltaInv'
<1>1. files' = files /\ pos' = pos /\ pc' = "process"
  BY DEF files, dedelta
<1>2. ibuf' = ibuf /\ at' = at /\ ret' # "XD3_INPUT" /\ Reads(stream, stream')
  BY DEF EmitMoves
<1>3. ~InputNeeded'
  BY <1>1, <1>2 DEF InputNeeded
<1> QED
  BY <1>1, <1>2, <1>3, Kept

-----------------------------------------------------------------------------
(* Between two windows nothing is gathered. *)
OverFields ==
  {"dec_state", "winbytes", "total_out", "laststart", "window_count", "next_out", "space_out",
   "lastwin", "lastspace"}
WindowOver ==
  /\ ibuf' = ibuf /\ at' = at /\ ret' # "XD3_INPUT"
  /\ IsStream(stream') /\ stream'.dec_state \in {"DEC_FINISH", "DEC_WININD"}
  /\ \A g \in StreamFields :
       \/ g \in Sections \cup OverFields
       \/ stream'[g] = stream[g]
  /\ stream'.winbytes = 0
  /\ \A f \in Sections : IsSection(stream'[f]) /\ stream'[f].pos = 0

LEMMA WindowOverStep ==
  ASSUME DedeltaInv, WindowOver, stream.dec_state \in {"DEC_EMIT", "DEC_FINISH"},
         UNCHANGED <<files, dedelta>>, pc = "process"
  PROVE  DedeltaInv'
<1>1. StreamTypes /\ HeaderInv /\ FileInv /\ SectionInv /\ GatherInv /\ InputInv
  BY Parts
<1>2. fdelta' = fdelta /\ CHUNK' = CHUNK /\ pos' = pos /\ pc' = "process"
  BY DEF files, dedelta
<1>3. /\ ibuf' = ibuf /\ at' = at /\ ret' # "XD3_INPUT"
      /\ IsStream(stream') /\ stream'.dec_state \in {"DEC_FINISH", "DEC_WININD"}
      /\ \A g \in StreamFields :
           \/ g \in Sections \cup OverFields
           \/ stream'[g] = stream[g]
      /\ stream'.winbytes = 0
      /\ \A f \in Sections : IsSection(stream'[f]) /\ stream'[f].pos = 0
  BY DEF WindowOver
<1>4. /\ stream'.flags = stream.flags /\ stream'.part32 = stream.part32
      /\ stream'.part64 = stream.part64 /\ stream'.magic = stream.magic
      /\ stream'.codetbl = stream.codetbl /\ stream'.codetblsz = stream.codetblsz
      /\ stream'.appheader = stream.appheader /\ stream'.appheadsz = stream.appheadsz
      /\ stream'.cksum = stream.cksum
  BY <1>3, StreamFieldNames, SectionsAre DEF OverFields
<1>5. StreamTypes'
  <2>1. stream'.dec_state \in States
    BY <1>3 DEF States, HeadStates
  <2>2. stream'.winbytes \in Nat
    BY <1>3
  <2> QED
    BY <1>1, <1>3, <1>4, <2>1, <2>2 DEF StreamTypes
<1>6. HeaderInv'
  <2>1. /\ stream'.dec_state # "DEC_VCHEAD" /\ stream'.dec_state \notin TableStates
        /\ stream'.dec_state \notin BeforeAppDat /\ stream'.dec_state \notin SizeStates
        /\ stream'.dec_state # "DEC_CKSUM"
    BY <1>3 DEF BeforeAppDat, TableStates, SizeStates
  <2> QED
    BY <1>1, <1>4, <2>1 DEF HeaderInv
<1>7. FileInv'
  BY <1>1, <1>2, <1>3 DEF FileInv
<1>8. ASSUME NEW f \in Sections
      PROVE  /\ Complete(stream, f)' = FALSE /\ InPlaceNow(stream, f)' = FALSE
             /\ Got(stream, f)' = 0 /\ Held(stream, f)' = <<>>
  <2>1. Complete(stream, f)' = FALSE
    BY <1>3, SectionsAre DEF Complete
  <2>2. InPlaceNow(stream, f)' = FALSE /\ Got(stream, f)' = 0
    BY <1>3, <2>1 DEF InPlaceNow, Got
  <2>3. Held(stream, f)' = SubSeq(stream'[f].copied, 1, 0)
    BY <1>3, <2>1 DEF Held
  <2>4. stream'[f].copied \in Seq(Nat)
    BY <1>3 DEF IsSection
  <2> QED
    BY <2>1, <2>2, <2>3, <2>4
<1>9. "data_sect" \in Sections /\ "inst_sect" \in Sections /\ "addr_sect" \in Sections
  BY SectionsAre
<1>10. SectionInv'
  <2>1. /\ Got(stream, "data_sect")' = 0 /\ Got(stream, "inst_sect")' = 0
        /\ Got(stream, "addr_sect")' = 0
    BY <1>8, <1>9
  <2>2. stream'.winbytes
          = Got(stream, "data_sect")' + Got(stream, "inst_sect")' + Got(stream, "addr_sect")'
    BY <1>3, <2>1
  <2>3. \A f \in Sections : /\ stream'[f].pos = 0 /\ ~InPlaceNow(stream, f)'
                             /\ ~Complete(stream, f)'
    BY <1>3, <1>8
  <2> QED
    <3>1. CountInv' /\ PlaceInv'
      BY <2>2, <2>3, Zenon DEF CountInv, PlaceInv
    <3>2. SumInv'
      BY <1>3 DEF SumInv, ReadStates
    <3> QED
      BY <3>1, <3>2 DEF SectionInv
<1>11. GatherInv'
  <2>1. Gathered(stream)' = <<>>
    <3>1. <<>> \o <<>> \o <<>> = <<>>
      OBVIOUS
    <3> QED
      BY <1>8, <1>9, <3>1 DEF Gathered
  <2>2. End' = End /\ End \in Nat /\ fdelta \in Seq(Nat) /\ End <= Len(fdelta)
    <3>1. End' = End
      BY <1>2, <1>3 DEF End, AvailIn
    <3>2. /\ Len(fdelta) \in Nat /\ End \in Nat /\ pos \in Nat /\ AvailIn \in Nat
          /\ pos <= Len(fdelta) /\ End = pos - AvailIn /\ fdelta \in Seq(Nat)
      BY <1>1, FileFacts
    <3> QED
      BY <3>1, <3>2, SMT
  <2>3. PICK e \in Nat : e = End
    BY <2>2
  <2>4. SubSeq(fdelta, e + 1, e) = <<>>
    BY <2>2, <2>3
  <2>5. e - 0 + 1 = e + 1 /\ 0 <= e
    BY SMT
  <2> QED
    BY <1>2, <1>3, <2>1, <2>2, <2>3, <2>4, <2>5 DEF GatherInv
<1>12. InputInv'
  BY <1>2, <1>3 DEF InputInv
<1> QED
  BY <1>5, <1>6, <1>7, <1>10, <1>11, <1>12 DEF DedeltaInv

(* A section whose position is cleared. *)
LEMMA Cleared ==
  ASSUME NEW x, IsSection(x), NEW y, y = [x EXCEPT !.pos = 0]
  PROVE  IsSection(y) /\ y.pos = 0
<1>1. /\ y = [g \in SectionFields |-> y[g]]
      /\ y.size = x.size /\ y.pos = 0 /\ y.ref = x.ref /\ y.copied = x.copied /\ y.alloc1 = x.alloc1
  BY SectionFieldNames DEF IsSection
<1>2. 0 \in Nat
  OBVIOUS
<1>3. IsSection(y)
  BY <1>1, <1>2, Zenon DEF IsSection
<1> QED
  BY <1>1, <1>3

(* The stream at the end of a window. *)
FinishedFrom(s, t) ==
  /\ IsStream(t) /\ t.dec_state = "DEC_FINISH" /\ t.winbytes = 0
  /\ \A g \in StreamFields : g \in Sections \cup {"dec_state", "winbytes"} \/ t[g] = s[g]
  /\ t.data_sect = [s.data_sect EXCEPT !.pos = 0]
  /\ t.inst_sect = [s.inst_sect EXCEPT !.pos = 0]
  /\ t.addr_sect = [s.addr_sect EXCEPT !.pos = 0]
  /\ t.total_out = s.total_out

LEMMA WindowFinished ==
  ASSUME NEW s, IsStream(s), NEW t, t = FinishWindow(s)
  PROVE  FinishedFrom(s, t)
<1>1. PICK u : u = At(s, "DEC_FINISH")
  OBVIOUS
<1>2. /\ IsStream(u) /\ u.dec_state = "DEC_FINISH"
      /\ \A g \in StreamFields : g = "dec_state" \/ u[g] = s[g]
  BY <1>1, StreamFieldNames DEF At, IsStream
<1>3. /\ u.data_sect = s.data_sect /\ u.inst_sect = s.inst_sect
      /\ u.addr_sect = s.addr_sect /\ u.total_out = s.total_out
  BY <1>2, StreamFieldNames
<1>4. PICK d : d = [s.data_sect EXCEPT !.pos = 0]
  OBVIOUS
<1>5. PICK i : i = [s.inst_sect EXCEPT !.pos = 0]
  OBVIOUS
<1>6. PICK a : a = [s.addr_sect EXCEPT !.pos = 0]
  OBVIOUS
<1>7. t = [u EXCEPT !.winbytes = 0, !.data_sect.pos = 0, !.inst_sect.pos = 0, !.addr_sect.pos = 0]
  BY <1>1, Zenon DEF FinishWindow
<1>8. /\ IsStream(t)
      /\ \A g \in StreamFields :
           g \in {"winbytes", "data_sect", "inst_sect", "addr_sect"} \/ t[g] = u[g]
  BY <1>2, <1>7, StreamFieldNames, ZenonT(30) DEF IsStream
<1>9. t.winbytes = 0 /\ t.dec_state = "DEC_FINISH" /\ t.total_out = s.total_out
  BY <1>2, <1>3, <1>7, <1>8, StreamFieldNames, ZenonT(30) DEF IsStream
<1>10. t.data_sect = d
  <2>1. t.data_sect = [u.data_sect EXCEPT !.pos = 0]
    BY <1>2, <1>7, StreamFieldNames, ZenonT(30) DEF IsStream
  <2> QED
    BY <1>3, <1>4, <2>1, Zenon
<1>11. t.inst_sect = i
  <2>1. t.inst_sect = [u.inst_sect EXCEPT !.pos = 0]
    BY <1>2, <1>7, StreamFieldNames, ZenonT(30) DEF IsStream
  <2> QED
    BY <1>3, <1>5, <2>1, Zenon
<1>12. t.addr_sect = a
  <2>1. t.addr_sect = [u.addr_sect EXCEPT !.pos = 0]
    BY <1>2, <1>7, StreamFieldNames, ZenonT(30) DEF IsStream
  <2> QED
    BY <1>3, <1>6, <2>1, Zenon
<1>13. \A g \in StreamFields : g \in Sections \cup {"dec_state", "winbytes"} \/ t[g] = s[g]
  BY <1>2, <1>8, SectionsAre
<1> QED
  BY <1>4, <1>5, <1>6, <1>8, <1>9, <1>10, <1>11, <1>12, <1>13 DEF FinishedFrom

LEMMA EmitEndStep ==
  ASSUME DedeltaInv, EmitEnd, UNCHANGED <<files, dedelta>>, pc = "process"
  PROVE  DedeltaInv'
<1>1. Sound(stream) /\ IsStream(stream) /\ \A f \in Sections : IsSection(stream[f])
  BY SoundStream DEF Sound
<1>2. PICK o : o = stream.total_out + Len(stream.out)
  OBVIOUS
<1>3. PICK t : t = FinishWindow(stream)
  OBVIOUS
<1>4. /\ IsStream(t) /\ t.dec_state = "DEC_FINISH" /\ t.winbytes = 0
      /\ \A g \in StreamFields : g \in Sections \cup {"dec_state", "winbytes"} \/ t[g] = stream[g]
      /\ t.data_sect = [stream.data_sect EXCEPT !.pos = 0]
      /\ t.inst_sect = [stream.inst_sect EXCEPT !.pos = 0]
      /\ t.addr_sect = [stream.addr_sect EXCEPT !.pos = 0]
      /\ t.total_out = stream.total_out
  BY <1>1, <1>3, WindowFinished DEF FinishedFrom
<1>5. /\ stream.dec_state = "DEC_EMIT" /\ ret = "calling" /\ at' = at /\ ibuf' = ibuf
      /\ \/ Refuse
         \/ stream' = [t EXCEPT !.total_out = o] /\ ret' = "XD3_OUTPUT"
  <2>1. FinishWindow(stream).total_out + Len(stream.out) = o
    BY <1>2, <1>3, <1>4
  <2> QED
    BY <1>3, <2>1 DEF EmitEnd, EmitCase, Case, Return
<1>6. CASE Refuse
  <2>1. EmitMoves
    <3>1. ret' # "XD3_INPUT" /\ stream' = stream
      BY <1>6 DEF Refuse, Return
    <3> QED
      BY <1>5, <3>1, EmitNothing
  <2> QED
    BY <2>1, EmitStep
<1>7. CASE stream' = [t EXCEPT !.total_out = o] /\ ret' = "XD3_OUTPUT"
  <2>1. IsStream(stream') /\ \A g \in StreamFields : g = "total_out" \/ stream'[g] = t[g]
    BY <1>4, <1>7 DEF IsStream
  <2>2. /\ stream'.dec_state = "DEC_FINISH" /\ stream'.winbytes = 0
        /\ stream'.data_sect = t.data_sect /\ stream'.inst_sect = t.inst_sect
        /\ stream'.addr_sect = t.addr_sect
    BY <1>4, <2>1, StreamFieldNames
  <2>3. \A f \in Sections : IsSection(stream'[f]) /\ stream'[f].pos = 0
    <3>1. IsSection(stream.data_sect) /\ IsSection(stream.inst_sect) /\ IsSection(stream.addr_sect)
      BY <1>1, SectionsAre
    <3>2. IsSection(t.data_sect) /\ t.data_sect.pos = 0
      BY <1>4, <3>1, Cleared
    <3>3. IsSection(t.inst_sect) /\ t.inst_sect.pos = 0
      BY <1>4, <3>1, Cleared
    <3>4. IsSection(t.addr_sect) /\ t.addr_sect.pos = 0
      BY <1>4, <3>1, Cleared
    <3> QED
      BY <2>2, <3>2, <3>3, <3>4, SectionsAre
  <2>4. \A g \in StreamFields :
           \/ g \in Sections \cup OverFields
           \/ stream'[g] = stream[g]
    BY <1>4, <2>1 DEF OverFields
  <2>5. WindowOver
    BY <1>5, <1>7, <2>1, <2>2, <2>3, <2>4 DEF WindowOver
  <2> QED
    BY <1>5, <2>5, WindowOverStep
<1> QED
  BY <1>5, <1>6, <1>7

LEMMA DecFinishStep ==
  ASSUME DedeltaInv, DecFinish, UNCHANGED <<files, dedelta>>, pc = "process"
  PROVE  DedeltaInv'
<1>1. Sound(stream) /\ IsStream(stream) /\ (\A f \in Sections : IsSection(stream[f])) /\ SectionInv
  BY SoundStream, Parts DEF Sound
<1>3. PICK l : l = stream.winstart
  OBVIOUS
<1>4. PICK a : a = At(stream, "DEC_WININD")
  OBVIOUS
<1>12. /\ IsStream(a) /\ a.dec_state = "DEC_WININD"
       /\ \A g \in StreamFields : g = "dec_state" \/ a[g] = stream[g]
  BY <1>1, <1>4, StreamFieldNames DEF At, IsStream
<1>13. PICK b : b = Swapped(a)
  OBVIOUS
<1>14. /\ IsStream(b)
       /\ \A g \in StreamFields :
            g \in {"next_out", "space_out", "lastwin", "lastspace"} \/ b[g] = a[g]
  <2>1. CASE b = a
    BY <1>12, <2>1
  <2>2. CASE b # a
    <3>1. PICK w, x, y, z : b = [a EXCEPT !.lastwin = w, !.lastspace = x, !.next_out = y, !.space_out = z]
      BY <1>13, <2>2, Zenon DEF Swapped
    <3> QED
      BY <1>12, <3>1 DEF IsStream
  <2> QED
    BY <2>1, <2>2
<1>15. /\ stream.dec_state = "DEC_FINISH" /\ at' = at /\ ibuf' = ibuf /\ ret' = "XD3_WINFINISH"
       /\ \E d : stream' = [b EXCEPT !.laststart = l, !.window_count = d]
  BY <1>3, <1>4, <1>13, Zenon DEF DecFinish, Case, Return
<1>16. /\ IsStream(stream')
       /\ \A g \in StreamFields : g \in {"laststart", "window_count"} \/ stream'[g] = b[g]
  BY <1>14, <1>15 DEF IsStream
<1>5. /\ IsStream(stream') /\ stream'.dec_state = "DEC_WININD"
      /\ \A g \in StreamFields : g \in OverFields \/ stream'[g] = stream[g]
  <2>1. ASSUME NEW g \in StreamFields, g \notin OverFields PROVE stream'[g] = stream[g]
    BY <1>12, <1>14, <1>16, <2>1 DEF OverFields
  <2>2. stream'.dec_state = "DEC_WININD"
    BY <1>12, <1>14, <1>16, StreamFieldNames
  <2> QED
    BY <1>16, <2>1, <2>2
<1>6. /\ stream'.winbytes = stream.winbytes /\ stream'.data_sect = stream.data_sect
      /\ stream'.inst_sect = stream.inst_sect /\ stream'.addr_sect = stream.addr_sect
  <2>1. stream'.data_sect = stream.data_sect /\ stream'.inst_sect = stream.inst_sect
        /\ stream'.addr_sect = stream.addr_sect
    BY <1>5, StreamFieldNames DEF OverFields
  <2>2. stream'.winbytes = stream.winbytes
    BY <1>12, <1>14, <1>16, StreamFieldNames
  <2> QED
    BY <2>1, <2>2
<1>7. \A f \in Sections : stream[f].pos = 0 /\ ~Complete(stream, f)
  BY <1>1, <1>15, SectionsAre DEF SectionInv, CountInv, Turn, Complete
<1>8. stream.winbytes = 0
  <2>1. /\ Got(stream, "data_sect") = 0 /\ Got(stream, "inst_sect") = 0
        /\ Got(stream, "addr_sect") = 0
    BY <1>7, SectionsAre DEF Got
  <2> QED
    BY <1>1, <2>1 DEF SectionInv, CountInv
<1>9. \A f \in Sections : IsSection(stream'[f]) /\ stream'[f].pos = 0
  BY <1>1, <1>6, <1>7, SectionsAre
<1>10. \A g \in StreamFields :
         \/ g \in Sections \cup OverFields
         \/ stream'[g] = stream[g]
  BY <1>5
<1>11. WindowOver
  BY <1>15, <1>5, <1>6, <1>8, <1>9, <1>10 DEF WindowOver
<1> QED
  BY <1>15, <1>11, WindowOverStep

-----------------------------------------------------------------------------
(* One call of the decoder. *)
LEMMA DecodeStep == ASSUME DedeltaInv, Decode PROVE DedeltaInv' \/ Astray'
<1>1. pc = "process" /\ DecodeInput /\ UNCHANGED <<files, dedelta>>
  BY DEF Decode
<1>2. CASE DecodeHeader
  <2>1. HeaderMoves
    BY <1>2, DecVcHeadMoves, DecHdrIndMoves, DecSecondIdMoves, DecTabLenMoves, DecNearMoves,
       DecSameMoves, DecTabDatMoves, DecAppLenMoves, DecAppDatMoves, Zenon DEF DecodeHeader
  <2> QED
    BY <1>1, <2>1, HeaderStep
<1>3. CASE DecodeWindowHeader
  <2>1. HeaderMoves
    BY <1>3, DecWinIndMoves, DecCpyLenMoves, DecCpyOffMoves, DecEncLenMoves, DecTgtLenMoves,
       DecDelIndMoves, DecDataLenMoves, DecInstLenMoves, DecAddrLenMoves, DecCksumMoves, Zenon
       DEF DecodeWindowHeader
  <2> QED
    BY <1>1, <2>1, HeaderStep
<1>4. CASE DecodeSections
  <2>1. ASSUME NEW f \in Sections, DecSection(Turn(f), f, NextOf(f)) PROVE DedeltaInv'
    <3>1. stream.dec_state = Turn(f)
      BY <2>1 DEF DecSection, Case
    <3>2. CASE stream' = stream /\ at' = at /\ ibuf' = ibuf /\ ret' = "undefined"
      <4>1. files' = files /\ pos' = pos /\ ~InputNeeded'
        BY <1>1, <3>2 DEF files, dedelta, InputNeeded
      <4> QED
        BY <3>2, <4>1, SoundStream, Kept
    <3>3. CASE \E n \in Nat : SectionMoves(f, n)
      BY <1>1, <3>1, <3>3, SectionStep
    <3> QED
      BY <2>1, <3>2, <3>3, AlsoCounted, SectionReads
  <2>2. /\ Turn("data_sect") = "DEC_DATA" /\ NextOf("data_sect") = "DEC_INST"
        /\ Turn("inst_sect") = "DEC_INST" /\ NextOf("inst_sect") = "DEC_ADDR"
        /\ Turn("addr_sect") = "DEC_ADDR" /\ NextOf("addr_sect") = "DEC_EMIT"
    BY DEF Turn, NextOf
  <2>3. "data_sect" \in Sections /\ "inst_sect" \in Sections /\ "addr_sect" \in Sections
    BY SectionsAre
  <2>4. \/ DecSection(Turn("data_sect"), "data_sect", NextOf("data_sect"))
        \/ DecSection(Turn("inst_sect"), "inst_sect", NextOf("inst_sect"))
        \/ DecSection(Turn("addr_sect"), "addr_sect", NextOf("addr_sect"))
    BY <1>4, <2>2, Zenon DEF DecodeSections, DecData, DecInst, DecAddr
  <2> QED
    BY <2>1, <2>3, <2>4
<1>5. CASE DecSkip
  <2>1. "XD3_JUST_HDR" \notin stream.flags /\ "XD3_SKIP_WINDOW" \notin stream.flags
    BY Parts DEF StreamTypes
  <2> QED
    BY <1>5, <2>1, Zenon DEF DecSkip
<1>6. CASE EmitEnd
  BY <1>1, <1>6, EmitEndStep
<1>7. CASE DecodeEmit
  <2>1. EmitMoves \/ EmitEnd
    BY <1>7, EmitNoSourceMoves, EmitInstructionMoves, EmitRunMoves, EmitAddMoves,
       EmitCopyTargetMoves, EmitCopySourceMoves, EmitCopyWindowMoves, Zenon DEF DecodeEmit
  <2> QED
    BY <1>1, <1>6, <2>1, EmitStep
<1>8. CASE DecFinish
  BY <1>1, <1>8, DecFinishStep
<1> QED
  BY <1>1, <1>2, <1>3, <1>4, <1>5, <1>7, <1>8 DEF DecodeInput

-----------------------------------------------------------------------------
(* The caller's own steps. *)

(* Another chunk. *)
LEMMA NextChunk ==
  ASSUME Counted, ReadDelta
  PROVE  /\ Counted' /\ ibuf' \in Seq(Nat) /\ End' = pos
         /\ stream'.dec_state = stream.dec_state /\ stream'.winbytes = stream.winbytes
         /\ \A f \in Sections : stream'[f] = stream[f]
         /\ SectionSum(stream)' = SectionSum(stream)
<1>1. StreamTypes /\ HeaderInv /\ FileInv /\ CountInv /\ stream.winbytes <= End
  BY DEF Counted
<1>2. PICK r : r = Min({CHUNK, Len(fdelta) - pos})
  OBVIOUS
<1>3. /\ pc = "read" /\ pc' = "process" /\ ret' = "calling" /\ at' = 0 /\ pos' = pos + r
      /\ ibuf' = SubSeq(fdelta, pos + 1, pos + r) /\ files' = files
      /\ stream' = IF r = 0 THEN [stream EXCEPT !.flags = @ \cup {"XD3_FLUSH"}] ELSE stream
  BY <1>2, Zenon DEF ReadDelta
<1>4. /\ fdelta \in Seq(Nat) /\ Len(fdelta) \in Nat /\ pos \in Nat /\ pos <= Len(fdelta)
      /\ at \in Nat /\ Len(ibuf) \in Nat /\ AvailIn \in Nat /\ AvailIn = Len(ibuf) - at
      /\ End = pos - AvailIn
  BY <1>1, FileFacts
<1>5. PICK rest \in Nat : rest = Len(fdelta) - pos
  BY <1>4, SMT
<1>6. r \in Nat /\ r <= rest
  <2>1. CHUNK \in Nat
    BY <1>1 DEF FileInv
  <2> QED
    BY <1>2, <1>5, <2>1, Minimum
<1>8. /\ IsStream(stream') /\ \A g \in StreamFields : g = "flags" \/ stream'[g] = stream[g]
      /\ stream'.flags \subseteq {"XD3_FLUSH"}
  <2>1. IsStream(stream) /\ stream.flags \subseteq {"XD3_FLUSH"}
    BY <1>1 DEF StreamTypes
  <2>2. PICK v : v = stream.flags \cup {"XD3_FLUSH"} /\ v \subseteq {"XD3_FLUSH"}
    BY <2>1
  <2>3. CASE stream' = [stream EXCEPT !.flags = v]
    BY <2>1, <2>2, <2>3, StreamFieldNames DEF IsStream
  <2>4. CASE stream' = stream
    BY <2>1, <2>4
  <2> QED
    BY <1>3, <2>2, <2>3, <2>4
<1>9. /\ stream'.dec_state = stream.dec_state
      /\ stream'.part32 = stream.part32 /\ stream'.part64 = stream.part64
      /\ stream'.winbytes = stream.winbytes /\ stream'.magic = stream.magic
      /\ stream'.codetbl = stream.codetbl /\ stream'.codetblsz = stream.codetblsz
      /\ stream'.appheader = stream.appheader /\ stream'.appheadsz = stream.appheadsz
      /\ stream'.cksum = stream.cksum
      /\ stream'.data_sect = stream.data_sect /\ stream'.inst_sect = stream.inst_sect
      /\ stream'.addr_sect = stream.addr_sect
  BY <1>8, StreamFieldNames
<1>10. \A f \in Sections : stream'[f] = stream[f]
  BY <1>9, SectionsAre
<1>11. StreamTypes'
  BY <1>1, <1>8, <1>9, <1>10 DEF StreamTypes
<1>12. HeaderInv'
  BY <1>1, <1>9 DEF HeaderInv
<1>13. fdelta' = fdelta /\ CHUNK' = CHUNK
  BY <1>3 DEF files
<1>14. PICK b \in Nat : b = pos + r
  BY <1>4, <1>6
<1>15. pos <= b /\ b <= Len(fdelta) /\ b - pos = r
  BY <1>4, <1>5, <1>6, <1>14
<1>16. ibuf' \in Seq(Nat) /\ Len(ibuf') = r
  <2>1. SubSeq(fdelta, pos + 1, b) \in Seq(Nat) /\ Len(SubSeq(fdelta, pos + 1, b)) = b - pos
    BY <1>4, <1>15, PieceOf
  <2> QED
    BY <1>3, <1>14, <1>15, <2>1
<1>17. FileInv'
  <2>1. pos' \in 0..Len(fdelta) /\ r <= pos' /\ at' \in 0..r /\ pos' - r = pos
    BY <1>3, <1>4, <1>6, <1>14, <1>15
  <2> QED
    BY <1>1, <1>3, <1>13, <1>16, <2>1 DEF FileInv
<1>18. End' = pos
  <2>1. AvailIn' = r
    BY <1>3, <1>6, <1>16 DEF AvailIn
  <2> QED
    BY <1>3, <1>4, <1>6, <2>1 DEF End
<1>19. ASSUME NEW f \in Sections PROVE Got(stream, f)' = Got(stream, f)
  BY <1>9, <1>10 DEF Got, Complete
<1>20. "data_sect" \in Sections /\ "inst_sect" \in Sections /\ "addr_sect" \in Sections
  BY SectionsAre
<1>21. CountInv'
  <2>1. stream'.winbytes
          = Got(stream, "data_sect")' + Got(stream, "inst_sect")' + Got(stream, "addr_sect")'
    BY <1>1, <1>9, <1>19, <1>20 DEF CountInv
  <2>2. ASSUME NEW f \in Sections
        PROVE  stream'[f].pos # 0 =>
                 /\ stream'.dec_state = Turn(f) /\ stream'[f].pos < stream'[f].size
                 /\ Len(stream'[f].copied) = stream'[f].pos
    BY <1>1, <1>9, <1>10 DEF CountInv
  <2> QED
    BY <2>1, <2>2, Zenon DEF CountInv
<1>22. stream'.winbytes <= End'
  <2>1. stream.winbytes \in Nat
    BY <1>1 DEF StreamTypes
  <2> QED
    BY <1>1, <1>4, <1>9, <1>18, <2>1
<1>23. SectionSum(stream)' = SectionSum(stream)
  BY <1>9, Zenon DEF SectionSum
<1> QED
  BY <1>9, <1>10, <1>11, <1>12, <1>16, <1>17, <1>18, <1>21, <1>22, <1>23 DEF Counted

(* The chunk before it is used up, and nothing refers to it. *)
LEMMA ReadDeltaStep == ASSUME DedeltaInv, ReadDelta PROVE DedeltaInv'
<1>1. StreamTypes /\ HeaderInv /\ FileInv /\ SectionInv /\ GatherInv /\ InputInv
  BY Parts
<1>2. Counted
  BY AlsoCounted
<1>3. /\ pc = "read" /\ pc' = "process" /\ ret' = "calling" /\ files' = files
  BY DEF ReadDelta
<1>4. /\ Counted' /\ ibuf' \in Seq(Nat) /\ End' = pos
      /\ stream'.dec_state = stream.dec_state /\ stream'.winbytes = stream.winbytes
      /\ \A f \in Sections : stream'[f] = stream[f]
      /\ SectionSum(stream)' = SectionSum(stream)
  BY <1>2, NextChunk
<1>5. StreamTypes' /\ HeaderInv' /\ FileInv' /\ CountInv'
  BY <1>4 DEF Counted
<1>7. at = Len(ibuf) /\ stream.dec_state # "DEC_EMIT" /\ \A f \in Sections : ~InPlaceNow(stream, f)
  BY <1>1, <1>3 DEF InputInv
<1>13. fdelta' = fdelta /\ CHUNK' = CHUNK
  BY <1>3 DEF files
<1>18. End' = End
  <2>1. /\ pos \in Nat /\ at \in Nat /\ AvailIn = Len(ibuf) - at /\ End = pos - AvailIn
        /\ Len(ibuf) \in Nat
    BY <1>1, FileFacts
  <2> QED
    BY <1>4, <1>7, <2>1
<1>19. ASSUME NEW f \in Sections
       PROVE  /\ Held(stream, f)' = Held(stream, f) /\ Got(stream, f)' = Got(stream, f)
              /\ InPlaceNow(stream, f)' = FALSE
              /\ Complete(stream, f)' = Complete(stream, f)
  <2>1. Complete(stream, f)' = Complete(stream, f)
    BY <1>4 DEF Complete
  <2>2. Got(stream, f)' = Got(stream, f) /\ InPlaceNow(stream, f)' = FALSE
    BY <1>7, <1>4, <2>1 DEF Got, InPlaceNow
  <2>3. PICK z \in Nat, k \in Int : z = stream[f].size /\ k = stream[f].ref
    BY <1>1 DEF StreamTypes, IsSection
  <2>4. CASE Complete(stream, f) /\ k >= 0
    <3>1. z = 0
      BY <1>7, <2>3, <2>4 DEF InPlaceNow
    <3>2. k + 0 = k
      OBVIOUS
    <3>3. Held(stream, f) = SubSeq(ibuf, k + 1, k) /\ Held(stream, f)' = SubSeq(ibuf', k + 1, k)
      BY <1>4, <2>1, <2>3, <2>4, <3>1, <3>2 DEF Held, SectionBytes
    <3>4. ibuf \in Seq(Nat)
      BY <1>1 DEF FileInv
    <3>5. ASSUME NEW x \in Seq(Nat) PROVE SubSeq(x, k + 1, k) = <<>>
      BY ONLY x \in Seq(Nat), k \in Int
    <3>6. SubSeq(ibuf, k + 1, k) = <<>> /\ SubSeq(ibuf', k + 1, k) = <<>>
      BY <1>4, <3>4, <3>5
    <3> QED
      BY <2>1, <2>2, <3>3, <3>6
  <2>5. CASE ~(Complete(stream, f) /\ k >= 0)
    <3>1. Held(stream, f)' = Held(stream, f)
      BY <1>4, <2>1, <2>3, <2>5 DEF Held, SectionBytes
    <3> QED
      BY <2>1, <2>2, <3>1
  <2> QED
    BY <2>4, <2>5
<1>20. "data_sect" \in Sections /\ "inst_sect" \in Sections /\ "addr_sect" \in Sections
  BY SectionsAre
<1>21. SectionInv'
  <2>1. ASSUME NEW f \in Sections
        PROVE  /\ ~InPlaceNow(stream, f)'
               /\ Complete(stream, f)' /\ stream'[f].ref < 0 =>
                    stream'[f].size <= Len(stream'[f].copied)
    BY <1>1, <1>4, <1>19 DEF SectionInv, PlaceInv
  <2>2. PlaceInv'
    BY <2>1, Zenon DEF PlaceInv
  <2>3. SumInv'
    BY <1>1, <1>4 DEF SectionInv, SumInv
  <2> QED
    BY <1>5, <2>2, <2>3 DEF SectionInv
<1>22. GatherInv'
  <2>1. Gathered(stream)' = Gathered(stream)
    BY <1>19, <1>20, Zenon DEF Gathered
  <2> QED
    BY <1>1, <1>4, <1>13, <1>18, <2>1 DEF GatherInv
<1>23. InputInv'
  BY <1>3 DEF InputInv
<1> QED
  BY <1>5, <1>21, <1>22, <1>23 DEF DedeltaInv

(* The source is set, or the output taken. *)
LEMMA NewValue ==
  ASSUME StreamTypes, NEW f \in EmitFields, NEW v, stream' = [stream EXCEPT ![f] = v]
  PROVE  Reads(stream, stream')
<1>1. Sound(stream) /\ IsStream(stream)
  BY SoundTypes DEF Sound
<1>2. /\ IsStream(stream') /\ \A g \in StreamFields : g = f \/ stream'[g] = stream[g]
  BY <1>1 DEF IsStream
<1>3. f \notin Sections /\ Sections \subseteq StreamFields
  BY SectionsAre, StreamFieldNames DEF EmitFields
<1> QED
  BY <1>1, <1>2, <1>3, CursorsMove

Calls ==
  Open \/ NoMemory \/ SetSource \/ ReadDeltaFails \/ OnInput \/ OnOutput \/ OnGetsrcblk
    \/ OnWindow \/ OnError \/ Close

LEMMA CallerFrame ==
  ASSUME StreamTypes, Calls
  PROVE  ibuf' = ibuf /\ at' = at /\ files' = files /\ pos' = pos /\ Reads(stream, stream')
<1>1. /\ ibuf' = ibuf /\ at' = at /\ files' = files /\ pos' = pos
  BY DEF Calls, Open, NoMemory, SetSource, ReadDeltaFails, OnInput, OnOutput, OnGetsrcblk, OnWindow,
         OnError, Close, ReturnEarly, decoder, dedelta
<1>3. \/ stream' = stream
      \/ stream' = [stream EXCEPT !.hasSource = TRUE]
      \/ stream' = [stream EXCEPT !.out = <<>>]
  BY DEF Calls, Open, NoMemory, SetSource, ReadDeltaFails, OnInput, OnOutput, OnGetsrcblk, OnWindow,
         OnError, Close, Consumed, decoder
<1>4. Reads(stream, stream')
  <2>1. "hasSource" \in EmitFields /\ "out" \in EmitFields
    BY DEF EmitFields
  <2> QED
    BY <1>3, <2>1, SoundTypes, NewValue, Zenon
<1> QED
  BY <1>1, <1>4

LEMMA CallerStep == ASSUME DedeltaInv, Calls PROVE DedeltaInv'
<1>1. ibuf' = ibuf /\ at' = at /\ files' = files /\ pos' = pos /\ Reads(stream, stream')
  BY Parts, CallerFrame
<1>2. InputNeeded' => InputNeeded
  <2>1. ASSUME Open \/ NoMemory \/ SetSource \/ ReadDeltaFails \/ OnInput PROVE InputNeeded
    BY <2>1 DEF Open, NoMemory, SetSource, ReadDeltaFails, OnInput, Answer, InputNeeded
  <2>2. ASSUME OnOutput \/ OnGetsrcblk \/ OnWindow \/ OnError PROVE ~InputNeeded'
    BY <2>2 DEF OnOutput, OnGetsrcblk, OnWindow, OnError, Answer, CallAgain, ReturnEarly,
                InputNeeded, decoder, dedelta
  <2>3. ASSUME Close PROVE InputNeeded' => InputNeeded
    BY <2>3 DEF Close, InputNeeded, decoder
  <2> QED
    BY <2>1, <2>2, <2>3 DEF Calls
<1> QED
  BY <1>1, <1>2, Kept

LEMMA UnchangedStep == ASSUME DedeltaInv, UNCHANGED vars PROVE DedeltaInv'
<1>1. /\ ibuf' = ibuf /\ at' = at /\ files' = files /\ pos' = pos /\ stream' = stream
      /\ pc' = pc /\ ret' = ret
  BY DEF vars, decoder, dedelta
<1>2. InputNeeded' => InputNeeded
  BY <1>1 DEF InputNeeded
<1>3. Reads(stream, stream')
  BY <1>1, SoundStream
<1> QED
  BY <1>1, <1>2, <1>3, Kept

-----------------------------------------------------------------------------
LEMMA InitInv == ASSUME Init PROVE DedeltaInv
<1>1. PICK i \in Inputs, chunk \in Chunks : Called(i[1], i[2], i[3], i[4], chunk, <<<<99>>>>)
  BY DEF Init
<1>2. /\ fdelta = i[2] /\ CHUNK = chunk /\ pc = "open" /\ pos = 0
      /\ stream = ConfigStream({}) /\ ibuf = <<>> /\ at = 0 /\ ret = "none"
  BY <1>1 DEF Called
<1>3. fdelta \in Seq(Nat) /\ CHUNK \in Nat \ {0}
  <2>1. i[2] \in Seq(0..255)
    BY InputsAssumption
  <2>2. 0..255 \subseteq Nat
    OBVIOUS
  <2>3. i[2] \in Seq(Nat)
    <3>1. PICK B, d : B = 0..255 /\ d = i[2]
      OBVIOUS
    <3>2. d \in Seq(B) /\ B \subseteq Nat
      BY <2>1, <2>2, <3>1, Zenon
    <3>3. d \in Seq(Nat)
      BY ONLY <3>2, WiderSeq
    <3> QED
      BY <3>1, <3>3
  <2> QED
    BY <1>2, <2>3, ChunksAssumption
<1>4. IsStream(stream)
  BY <1>2, Zenon DEF IsStream, StreamFields, ConfigStream
<1>5. /\ stream.dec_state = "DEC_VCHEAD" /\ stream.flags = {} /\ stream.part32 = 0
      /\ stream.part64 = 0 /\ stream.winbytes = 0 /\ stream.magic = <<>> /\ stream.codetbl = <<>>
      /\ stream.appheader = <<>> /\ stream.cksum = <<>> /\ stream.codetblsz = 0
      /\ stream.appheadsz = 0 /\ stream.data_sect = Section /\ stream.inst_sect = Section
      /\ stream.addr_sect = Section
  BY <1>2 DEF ConfigStream
<1>6. \A f \in Sections : stream[f] = Section
  BY <1>5, SectionsAre
<1>7. IsSection(Section) /\ Section.pos = 0 /\ Section.copied = <<>> /\ Section.ref = -1 /\ Section.size = 0
  BY DEF IsSection, SectionFields, Section
<1>8. StreamTypes
  BY <1>4, <1>5, <1>6, <1>7 DEF StreamTypes, States, HeadStates, BeforeAppDat, TableStates
<1>9. HeaderInv
  BY <1>5 DEF HeaderInv
<1>10. FileInv
  <2>1. Len(<<>>) = 0 /\ <<>> \in Seq(Nat)
    OBVIOUS
  <2>2. SubSeq(fdelta, 0 - 0 + 1, 0) = <<>>
    <3>1. 0 - 0 + 1 = 1
      OBVIOUS
    <3>2. SubSeq(fdelta, 1, 0) = <<>>
      BY <1>3
    <3> QED
      BY <3>1, <3>2
  <2>3. Len(fdelta) \in Nat
    BY <1>3
  <2>4. 0 \in 0..Len(fdelta) /\ 0 <= 0 /\ 0 \in 0..0
    BY <2>3
  <2>5. Len(fdelta) < Word
    BY <1>2, InputsAssumption
  <2> QED
    BY <1>2, <1>3, <2>1, <2>2, <2>4, <2>5 DEF FileInv
<1>11. ASSUME NEW f \in Sections
       PROVE  ~Complete(stream, f) /\ ~InPlaceNow(stream, f) /\ Got(stream, f) = 0 /\ Held(stream, f) = <<>>
  <2>1. stream.dec_state \in HeadStates
    BY <1>5 DEF HeadStates, BeforeAppDat, TableStates
  <2>2. SubSeq(<<>>, 1, 0) = <<>>
    OBVIOUS
  <2> QED
    BY <1>6, <1>7, <2>1, <2>2, NothingYet
<1>12. "data_sect" \in Sections /\ "inst_sect" \in Sections /\ "addr_sect" \in Sections
  BY SectionsAre
<1>13. SectionInv
  <2>1. CountInv /\ PlaceInv
    BY <1>5, <1>6, <1>7, <1>11, <1>12 DEF CountInv, PlaceInv
  <2>2. SumInv
    BY <1>5 DEF SumInv, ReadStates
  <2> QED
    BY <2>1, <2>2 DEF SectionInv
<1>14. GatherInv
  <2>1. Gathered(stream) = <<>>
    <3>1. <<>> \o <<>> \o <<>> = <<>>
      OBVIOUS
    <3> QED
      BY <1>11, <1>12, <3>1 DEF Gathered
  <2>2. End = 0
    <3>1. Len(ibuf) = 0
      BY <1>2
    <3>2. PICK l \in Int : l = Len(ibuf) /\ l = 0
      BY <3>1
    <3>3. pos - (Len(ibuf) - at) = 0 - (l - 0)
      BY <1>2, <3>2, Zenon
    <3>4. pos - (Len(ibuf) - at) = 0
      BY ONLY <3>2, <3>3
    <3> QED
      BY <3>4, Zenon DEF End, AvailIn
  <2>3. SubSeq(fdelta, 0 - 0 + 1, 0) = <<>>
    <3>1. 0 - 0 + 1 = 1
      OBVIOUS
    <3>2. SubSeq(fdelta, 1, 0) = <<>>
      BY <1>3
    <3> QED
      BY <3>1, <3>2
  <2> QED
    BY <1>5, <2>1, <2>2, <2>3 DEF GatherInv
<1>15. InputInv
  <2>1. Len(<<>>) = 0
    OBVIOUS
  <2> QED
    BY <1>2, <1>5, <1>11, <2>1 DEF InputInv
<1> QED
  BY <1>8, <1>9, <1>10, <1>13, <1>14, <1>15 DEF DedeltaInv

-----------------------------------------------------------------------------
(* Lengths that wrap around. *)

LEMMA AstrayParts == ASSUME Astray PROVE Counted /\ StreamTypes /\ FileInv
  BY DEF Astray, Counted

LEMMA AstrayKept ==
  ASSUME Astray, ibuf' = ibuf, at' = at, files' = files, pos' = pos, Reads(stream, stream')
  PROVE  Astray'
  BY CountedKept DEF Astray

(* The window has more bytes than the delta: its last section never ends.  *)
LEMMA AstraySection ==
  ASSUME Astray, NEW f \in Sections, stream.dec_state = Turn(f), NEW n \in Nat, SectionMoves(f, n),
         UNCHANGED <<files, dedelta>>, pc = "process"
  PROVE  Astray'
<1>1. Counted /\ SectionSum(stream) >= Word
  BY DEF Astray
<1>2. StreamTypes' /\ HeaderInv' /\ FileInv' /\ CountInv' /\ stream'.winbytes <= End'
  BY <1>1, CountedStep
<1>3. \A g \in Sections : stream'[g].size = stream[g].size
  BY SectionFrame DEF SectionMoves
<1>4. "data_sect" \in Sections /\ "inst_sect" \in Sections /\ "addr_sect" \in Sections
  BY SectionsAre
<1>5. SectionSum(stream)' = SectionSum(stream)
  BY <1>3, <1>4, Zenon DEF SectionSum
<1>6. stream'.dec_state = Turn(f) \/ stream'.dec_state = NextOf(f)
  BY DEF SectionMoves, Partial, Full
<1>7. stream'.dec_state # "DEC_EMIT"
  <2>1. SUFFICES ASSUME stream'.dec_state = "DEC_EMIT" PROVE FALSE
    OBVIOUS
  <2>2. \A g \in Sections : Complete(stream, g)'
    BY <2>1 DEF Complete
  <2>3. stream'.winbytes = SectionSum(stream)'
    BY <1>2, <1>4, <2>2 DEF CountInv, Got, SectionSum
  <2>4. PICK p, l, a, b : p = pos' /\ l = Len(fdelta') /\ a = at' /\ b = Len(ibuf')
    OBVIOUS
  <2>5. p \in 0..l /\ l \in Nat /\ l < Word /\ b \in Nat /\ a \in 0..b
    BY <1>2, <2>4 DEF FileInv
  <2>6. End' = p - (b - a)
    BY <2>4 DEF End, AvailIn
  <2>7. PICK e, w : e = End' /\ w = SectionSum(stream)'
    OBVIOUS
  <2>8. w <= e /\ e = p - (b - a) /\ w >= Word
    BY <1>1, <1>2, <1>5, <2>3, <2>6, <2>7, Zenon
  <2>9. w \in Nat
    BY <1>2, <2>3, <2>7, Zenon DEF StreamTypes
  <2> QED
    BY ONLY <2>5, <2>8, <2>9, WordAssumption
<1>8. stream'.dec_state \in ReadStates
  BY <1>6, <1>7, SectionsAre DEF Turn, NextOf, ReadStates
<1> QED
  BY <1>1, <1>2, <1>5, <1>8 DEF Astray, Counted

(* Of the decoder's cases none but those of the sections is left.          *)
LEMMA Reading ==
  ASSUME stream.dec_state \in ReadStates, DecodeInput
  PROVE  DecodeSections \/ DecSkip
<1>1. ASSUME DecodeHeader PROVE FALSE
  <2>1. ASSUME DecVcHead \/ DecHdrInd \/ DecSecondId \/ DecTabDat \/ DecAppDat PROVE FALSE
    BY <2>1, Zenon DEF DecVcHead, DecHdrInd, DecSecondId, DecTabDat, DecAppDat, Case, ReadStates
  <2>2. ASSUME DecTabLen \/ DecAppLen PROVE FALSE
    BY <2>2, Zenon DEF DecTabLen, DecAppLen, NumberCase, Case, ReadStates
  <2>3. ASSUME DecNear \/ DecSame PROVE FALSE
    BY <2>3, Zenon DEF DecNear, DecSame, ModesCase, Case, ReadStates
  <2> QED
    BY <1>1, <2>1, <2>2, <2>3 DEF DecodeHeader
<1>2. ASSUME DecodeWindowHeader PROVE FALSE
  <2>1. ASSUME DecWinInd \/ DecDelInd \/ DecCksum PROVE FALSE
    BY <2>1, Zenon DEF DecWinInd, DecDelInd, DecCksum, Case, ReadStates
  <2>2. ASSUME DecCpyLen \/ DecCpyOff \/ DecTgtLen PROVE FALSE
    BY <2>2, Zenon DEF DecCpyLen, DecCpyOff, DecTgtLen, NumberCase, Case, ReadStates
  <2>3. ASSUME DecEncLen \/ DecDataLen \/ DecInstLen \/ DecAddrLen PROVE FALSE
    BY <2>3, Zenon DEF DecEncLen, DecDataLen, DecInstLen, DecAddrLen, SizeCase, SectionSizeCase,
                       NumberCase, Case, ReadStates
  <2> QED
    BY <1>2, <2>1, <2>2, <2>3 DEF DecodeWindowHeader
<1>3. ASSUME DecodeEmit PROVE FALSE
  <2>1. EmitCase
    BY <1>3, Zenon DEF DecodeEmit, EmitNoSource, EmitInstruction, EmitRun, EmitAdd, EmitCopyTarget,
                       EmitCopySource, EmitCopyWindow, EmitEnd, EmitHalfCase
  <2> QED
    BY <2>1, Zenon DEF EmitCase, Case, ReadStates
<1>4. ASSUME DecFinish PROVE FALSE
  BY <1>4, Zenon DEF DecFinish, Case, ReadStates
<1> QED
  BY <1>1, <1>2, <1>3, <1>4 DEF DecodeInput

LEMMA AstrayStep == ASSUME Astray, [Next]_vars PROVE Astray'
<1>1. Counted /\ StreamTypes /\ FileInv
  BY AstrayParts
<1>2. CASE Decode
  <2>1. pc = "process" /\ DecodeInput /\ UNCHANGED <<files, dedelta>>
    BY <1>2 DEF Decode
  <2>2. ASSUME NEW f \in Sections, DecSection(Turn(f), f, NextOf(f)) PROVE Astray'
    <3>1. stream.dec_state = Turn(f)
      BY <2>2 DEF DecSection, Case
    <3>2. CASE stream' = stream /\ at' = at /\ ibuf' = ibuf /\ ret' = "undefined"
      <4>1. files' = files /\ pos' = pos
        BY <2>1 DEF files, dedelta
      <4> QED
        BY <1>1, <3>2, <4>1, SoundTypes, AstrayKept
    <3>3. CASE \E n \in Nat : SectionMoves(f, n)
      BY <2>1, <3>1, <3>3, AstraySection
    <3> QED
      BY <1>1, <2>2, <3>2, <3>3, SectionReads
  <2>3. DecodeSections
    <3>1. "XD3_JUST_HDR" \notin stream.flags /\ "XD3_SKIP_WINDOW" \notin stream.flags
      BY <1>1 DEF StreamTypes
    <3>2. ~DecSkip
      BY <3>1, Zenon DEF DecSkip
    <3> QED
      BY <2>1, <3>2, Reading DEF Astray
  <2>4. /\ Turn("data_sect") = "DEC_DATA" /\ NextOf("data_sect") = "DEC_INST"
        /\ Turn("inst_sect") = "DEC_INST" /\ NextOf("inst_sect") = "DEC_ADDR"
        /\ Turn("addr_sect") = "DEC_ADDR" /\ NextOf("addr_sect") = "DEC_EMIT"
    BY DEF Turn, NextOf
  <2>5. "data_sect" \in Sections /\ "inst_sect" \in Sections /\ "addr_sect" \in Sections
    BY SectionsAre
  <2>6. \/ DecSection(Turn("data_sect"), "data_sect", NextOf("data_sect"))
        \/ DecSection(Turn("inst_sect"), "inst_sect", NextOf("inst_sect"))
        \/ DecSection(Turn("addr_sect"), "addr_sect", NextOf("addr_sect"))
    BY <2>3, <2>4, Zenon DEF DecodeSections, DecData, DecInst, DecAddr
  <2> QED
    BY <2>2, <2>5, <2>6
<1>3. CASE ReadDelta
  BY <1>1, <1>3, NextChunk DEF Astray
<1>4. CASE Calls
  BY <1>1, <1>4, CallerFrame, AstrayKept
<1>5. CASE UNCHANGED vars
  <2>1. ibuf' = ibuf /\ at' = at /\ files' = files /\ pos' = pos /\ stream' = stream
    BY <1>5 DEF vars, decoder, dedelta
  <2> QED
    BY <1>1, <2>1, SoundTypes, AstrayKept
<1> QED
  BY <1>2, <1>3, <1>4, <1>5, Zenon DEF Next, Calls

-----------------------------------------------------------------------------
LEMMA NextInv == ASSUME DedeltaInv, [Next]_vars PROVE DedeltaInv' \/ Astray'
<1>1. CASE Decode
  BY <1>1, DecodeStep
<1>2. CASE ReadDelta
  BY <1>2, ReadDeltaStep
<1>3. CASE Calls
  BY <1>3, CallerStep
<1>4. CASE UNCHANGED vars
  BY <1>4, UnchangedStep
<1> QED
  BY <1>1, <1>2, <1>3, <1>4, Zenon DEF Next, Calls

(* Every state that dedelta can be in is one in which what the decoder has *)
(* taken of the chunks so far is what the delta holds before its cursor,   *)
(* in which a section of the window is in place only as long as its chunk  *)
(* is in the buffer, and the next chunk is asked for only when the one     *)
(* before it is used up; or else the window's header gave lengths whose    *)
(* sum wraps around a usize_t, and the decoder never has all the sections  *)
(* that xd3_decode_sections waits for.                                     *)
THEOREM DedeltaCorrect == Spec => [](DedeltaInv \/ Astray)
<1>1. Init => DedeltaInv
  BY InitInv
<1>2. (DedeltaInv \/ Astray) /\ [Next]_vars => (DedeltaInv \/ Astray)'
  BY NextInv, AstrayStep
<1> QED
  BY <1>1, <1>2, PTL DEF Spec

LEMMA IntactSections == ASSUME DedeltaInv PROVE SectionsIntact
<1>1. SUFFICES ASSUME stream.dec_state = "DEC_EMIT"
               PROVE  /\ \A f \in Sections : stream[f].ref >= 0 /\ stream[f].size > 0
                                               => stream[f].ref + stream[f].size <= Len(ibuf)
                      /\ SubSeq(fdelta, (pos - AvailIn) - SectionSum(stream) + 1, pos - AvailIn)
                           = SectionBytes(stream.data_sect) \o SectionBytes(stream.inst_sect)
                               \o SectionBytes(stream.addr_sect)
  BY Zenon DEF SectionsIntact
<1>2. StreamTypes /\ FileInv /\ SectionInv /\ GatherInv
  BY Parts
<1>3. \A f \in Sections : Complete(stream, f)
  BY <1>1 DEF Complete
<1>4. "data_sect" \in Sections /\ "inst_sect" \in Sections /\ "addr_sect" \in Sections
  BY SectionsAre
<1>5. ASSUME NEW f \in Sections, stream[f].ref >= 0, stream[f].size > 0
      PROVE  stream[f].ref + stream[f].size <= Len(ibuf)
  <2>1. stream[f].ref + stream[f].size <= at
    BY <1>2, <1>3, <1>5 DEF SectionInv, PlaceInv, InPlaceNow
  <2>2. PICK z \in Nat, k \in Int : z = stream[f].size /\ k = stream[f].ref
    BY <1>2 DEF StreamTypes, IsSection
  <2>3. at \in Nat /\ Len(ibuf) \in Nat /\ at <= Len(ibuf)
    BY <1>2, FileFacts
  <2>4. PICK l \in Nat, c \in Nat : l = Len(ibuf) /\ c = at /\ c <= l
    BY <2>3
  <2>5. k + z <= l
    BY <2>1, <2>2, <2>4
  <2> QED
    BY <2>2, <2>4, <2>5
<1>6. stream.winbytes = SectionSum(stream)
  BY <1>2, <1>3, <1>4 DEF SectionInv, CountInv, Got, SectionSum
<1>7. Gathered(stream) = SectionBytes(stream.data_sect) \o SectionBytes(stream.inst_sect)
                           \o SectionBytes(stream.addr_sect)
  BY <1>3, <1>4, Zenon DEF Gathered, Held
<1>8. Gathered(stream) = SubSeq(fdelta, (pos - AvailIn) - SectionSum(stream) + 1, pos - AvailIn)
  BY <1>2, <1>6, Zenon DEF GatherInv, End
<1> QED
  BY <1>5, <1>7, <1>8

(* As long as a window's instructions are carried out, its three sections  *)
(* are the bytes the delta has there, whether they were copied from        *)
(* several chunks or left in the last one, and none reaches past the chunk *)
(* it lies in: xd3_decode_sections leaves a section in place only when the *)
(* caller will not replace the buffer before the window is done.  Lengths  *)
(* whose sum wraps around, which it would leave in place too early, are    *)
(* more than a delta below 4 GiB can hold, so that no instruction reads    *)
(* them.                                                                   *)
THEOREM SectionsCorrect == Spec => []SectionsIntact
<1>1. DedeltaInv => SectionsIntact
  BY IntactSections
<1>2. Astray => SectionsIntact
  BY DEF Astray, ReadStates, SectionsIntact
<1> QED
  BY <1>1, <1>2, DedeltaCorrect, PTL
=============================================================================
