---------------------------- MODULE WindowProofs ----------------------------
(***************************************************************************)
(* Theorems about the windows dedelta decodes.  What is written of a       *)
(* window and what its parsed instructions have still to write fit in the  *)
(* buffer, and every copy reads what is there already, as long as the      *)
(* sizes do not wrap around a usize_t and the buffer is the one that was   *)
(* allocated last; an access outside a buffer has one of these as its      *)
(* cause.                                                                  *)
(***************************************************************************)
EXTENDS DedeltaProofs, FiniteSetTheorems

-----------------------------------------------------------------------------
(* The invariant. *)

Halves == {"current1", "current2"}

(* The states after the code table is known, after a window has begun, and *)
(* after its copy window and its end are known.                            *)
TableKnown(s) == s.dec_state \notin TableStates \cup {"DEC_TABDAT"}
ReadOrEmit == ReadStates \cup {"DEC_EMIT"}
EndStates ==
  {"DEC_DELIND", "DEC_DATALEN", "DEC_INSTLEN", "DEC_ADDRLEN", "DEC_CKSUM"} \cup ReadOrEmit
StartStates == {"DEC_CPYOFF", "DEC_ENCLEN", "DEC_TGTLEN"} \cup EndStates
WindowStates == {"DEC_CPYLEN"} \cup StartStates

IsHalf(h) == h \in [type : Nat, size : Nat, addr : Nat]
IsOpcode(d, modes) ==
  /\ d \in [type1 : Nat, size1 : Nat, type2 : Nat, size2 : Nat]
  /\ d.type1 < XD3_CPY + modes /\ d.type2 < XD3_CPY + modes
IsCache(c, near, same) ==
  c.near \in [0..near - 1 -> Nat] /\ c.same \in [0..same * Page - 1 -> Nat]

Modes(s) == 2 + s.s_near + s.s_same
TableIn(s) ==
  IF Bit(s.hdr_ind, VCD_CODETABLE) THEN ApplyTableString(TableString(s.codetbl)) ELSE Rfc3284Table

(* The numbers, halves and output of a stream. *)
Valued(s) ==
  /\ s.cpylen \in Nat /\ s.cpyoff \in Nat /\ s.tgtlen \in Nat /\ s.maxpos \in Nat
  /\ s.position \in Nat /\ s.space_out \in Nat /\ s.s_near \in Nat /\ s.s_same \in Nat
  /\ s.out \in Seq(Nat) /\ \A h \in Halves : IsHalf(s[h])
  /\ \A f \in Sections : s[f].read \in Nat
Equipped(s) ==
  /\ TableKnown(s) => \A code \in 0..255 : IsOpcode(TableIn(s)[code], Modes(s))
  /\ s.dec_state \in WindowStates => IsCache(s.acache, s.s_near, s.s_same)

(* What a half instruction has still to write. *)
ToWrite(s, h) == IF s[h].type # XD3_NOOP THEN s[h].size ELSE 0

(* A copy ends within the copy window, or begins at a place that is        *)
(* written when its turn comes.                                            *)
CopyThere(s, h, before) ==
  s[h].type >= XD3_CPY =>
    IF s[h].addr < s.cpylen THEN s[h].addr + s[h].size <= s.cpylen
    ELSE s[h].addr < s.cpylen + Len(s.out) + before

Planned(s) ==
  /\ s.dec_state \in StartStates \ {"DEC_EMIT"} => s.position = s.cpylen
  /\ s.dec_state \in EndStates => s.maxpos = s.cpylen + s.tgtlen /\ s.tgtlen <= HardMaxWinsize
  /\ s.dec_state = "DEC_EMIT" => s.position <= s.maxpos
Idle(s) == \A h \in Halves : s[h].type = XD3_NOOP

(* The halves keep to the copy window and to the target, unless their      *)
(* sizes wrap around.                                                      *)
Sum(s) == s.cpylen + Len(s.out) + ToWrite(s, "current1") + ToWrite(s, "current2")
Fair(s) ==
  /\ Sum(s) = s.position
  /\ CopyThere(s, "current1", 0) /\ CopyThere(s, "current2", ToWrite(s, "current1"))
Accounted(s) == s.tgtlen <= s.space_out /\ (Fair(s) \/ Sum(s) >= Word)

Going == {"calling", "XD3_GETSRCBLK", "getblk"}
OutputInv ==
  /\ stream.dec_state = "DEC_EMIT" /\ ret \in Going => Accounted(stream)
  /\ stream.dec_state # "DEC_EMIT" => Idle(stream)
  /\ stream.dec_state # "DEC_EMIT" /\ ret # "XD3_OUTPUT" => stream.out = <<>>

ReturnInv ==
  /\ ret = "XD3_OUTPUT" => stream.dec_state = "DEC_FINISH"
  /\ ret \in {"XD3_GOTHEADER", "XD3_WINSTART", "XD3_WINFINISH"} => stream.dec_state # "DEC_EMIT"
  /\ pc \in {"open", "setup", "read"} => ret # "XD3_OUTPUT"

SourceFields == DOMAIN StackSource(0)
SourceInv ==
  /\ source = [f \in SourceFields |-> source[f]]
  /\ source.blksize = CHUNK /\ source.curblk \in Seq(Nat) /\ Len(source.curblk) = CHUNK
  /\ source.getblkno \in Nat

FilesInv == fsource \in Seq(Nat) /\ fdelta \in Seq(0..255) /\ CHUNK \in Chunks

(* There is no room where there is no buffer, and the buffer of a section  *)
(* that has begun holds all of it, unless its size wraps around.           *)
Ample(x) == x.size <= x.alloc1 \/ x.size + AllocSize > Word
SpareInv ==
  /\ stream.next_out = NULL => stream.space_out = 0
  /\ stream.lastspace \in Nat
  /\ \A f \in Sections : stream[f].pos # 0 => Ample(stream[f])

WindowInv ==
  DedeltaInv /\ Valued(stream) /\ Equipped(stream) /\ Planned(stream)
    /\ OutputInv /\ ReturnInv /\ SourceInv /\ FilesInv /\ SpareInv

-----------------------------------------------------------------------------
(* The code tables. *)

(* s is a sequence of n elements of S; s is n rows, of w[1], w[2], ..       *)
(* elements; g adds up the first numbers of w.                             *)
IsLong(S, s, n) == s \in Seq(S) /\ Len(s) = n
AreRows(S, s, n, w) == s = [k \in 1..n |-> s[k]] /\ \A k \in 1..n : IsLong(S, s[k], w[k])
AddsUp(g, n, w) == g \in [0..n -> Nat] /\ g[0] = 0 /\ \A i \in 1..n : g[i] = g[i - 1] + w[i]

LEMMA FlattenLength ==
  ASSUME NEW S, NEW s, NEW n \in Nat, IsLong(Seq(S), s, n),
         NEW g \in [0..n -> Nat], g[0] = 0, \A i \in 1..n : g[i] = g[i - 1] + Len(s[i])
  PROVE  IsLong(S, FlattenSeq(s), g[n])
<1> USE DEF IsLong
<1> DEFINE F(m) == FlattenSeq(SubSeq(s, 1, m))
           T == {m \in Nat : m <= n => Len(F(m)) = g[m]}
<1>1. n \in 0..Len(s) /\ 0 \in 0..Len(s)
  OBVIOUS
<1>2. \A m \in 0..Len(s) : F(m) \in Seq(S)
  BY FlattenType
<1>3. F(0) = <<>> /\ F(n) = FlattenSeq(s)
  BY <1>1, FlattenType
<1>4. ASSUME NEW m \in 1..Len(s) PROVE F(m) = F(m - 1) \o s[m] /\ s[m] \in Seq(S)
  <2>1. F(m) = F(m - 1) \o s[m]
    BY FlattenNext
  <2> HIDE DEF F
  <2>2. s[m] \in Seq(S)
    OBVIOUS
  <2> QED
    BY <2>1, <2>2
<1> HIDE DEF F
<1>5. 0 \in T
  BY <1>3
<1>6. ASSUME NEW m \in Nat, m \in T PROVE m + 1 \in T
  <2>1. CASE m + 1 <= n
    <3>1. m + 1 \in 1..n /\ m + 1 \in 1..Len(s) /\ (m + 1) - 1 = m /\ m \in 0..Len(s) /\ m <= n
          /\ m + 1 \in Nat
      BY <2>1, SMT
    <3>2. F(m + 1) = F(m) \o s[m + 1] /\ s[m + 1] \in Seq(S) /\ F(m) \in Seq(S)
      BY <1>2, <1>4, <3>1
    <3>3. Len(F(m + 1)) = Len(F(m)) + Len(s[m + 1])
      BY <3>2
    <3>4. g[m + 1] = g[m] + Len(s[m + 1]) /\ Len(F(m)) = g[m]
      BY <1>6, <3>1
    <3> QED
      BY <3>1, <3>3, <3>4
  <2> QED
    BY <2>1
<1> HIDE DEF T
<1>7. Nat \subseteq T
  BY <1>5, <1>6, Inductive
<1> QED
  BY <1>1, <1>2, <1>3, <1>7 DEF T

LEMMA Concat ==
  ASSUME NEW S, NEW s, NEW t, NEW k, NEW l, NEW n, IsLong(S, s, k), IsLong(S, t, l), k + l = n
  PROVE  IsLong(S, s \o t, n)
  BY DEF IsLong

LEMMA Element ==
  ASSUME NEW S, NEW s, NEW n, IsLong(S, s, n), NEW i \in 1..n
  PROVE  s[i] \in S
  BY DEF IsLong

(* A function on 1..n is a sequence of n elements. *)
LEMMA Built ==
  ASSUME NEW S, NEW n \in Nat, NEW s, s = [k \in 1..n |-> s[k]], \A k \in 1..n : s[k] \in S
  PROVE  IsLong(S, s, n)
<1> DEFINE d(k) == s[k]
<1>1. \A k \in 1..n : d(k) \in S
  OBVIOUS
<1>2. s = [k \in 1..n |-> d(k)]
  OBVIOUS
<1> HIDE DEF d
<1>3. [k \in 1..n |-> d(k)] \in Seq(S) /\ Len([k \in 1..n |-> d(k)]) = n
  BY <1>1, SMT
<1> QED
  BY <1>2, <1>3 DEF IsLong

LEMMA Rows ==
  ASSUME NEW S, NEW s, NEW n \in Nat, NEW w, NEW g, AreRows(S, s, n, w), AddsUp(g, n, w)
  PROVE  IsLong(S, FlattenSeq(s), g[n])
<1>1. /\ s = [k \in 1..n |-> s[k]]
      /\ \A k \in 1..n : s[k] \in Seq(S) /\ Len(s[k]) = w[k]
      /\ g \in [0..n -> Nat] /\ g[0] = 0 /\ \A i \in 1..n : g[i] = g[i - 1] + w[i]
  BY DEF AreRows, AddsUp, IsLong
<1>2. IsLong(Seq(S), s, n)
  BY <1>1, Built
<1>3. \A i \in 1..n : g[i] = g[i - 1] + Len(s[i])
  BY <1>1, Zenon
<1> QED
  BY <1>1, <1>2, <1>3, FlattenLength

Opcodes(modes) == {d \in [type1 : Nat, size1 : Nat, type2 : Nat, size2 : Nat] : IsOpcode(d, modes)}

LEMMA OpcodeOf ==
  ASSUME NEW modes \in Nat, NEW t \in Nat, NEW n \in Nat, NEW u \in Nat, NEW k \in Nat,
         t < XD3_CPY + modes, u < XD3_CPY + modes
  PROVE  Dinst(t, n, u, k) \in Opcodes(modes)
  BY DEF Dinst, Opcodes, IsOpcode

(* The table of RFC 3284 has 256 opcodes, whose copies are of 9 modes. *)
LEMMA DefaultTable == \A code \in 0..255 : IsOpcode(Rfc3284Table[code], 9)
<1> DEFINE desc == Rfc3284Desc
           O == Opcodes(9)
           modes == 2 + desc.near_modes + desc.same_modes
           Max2(m, near, same) == IF m < 2 + desc.near_modes THEN near ELSE same
           Adds == [k \in 1..(desc.add_sizes - 0 + 1) |-> Single(XD3_ADD, 0 + k - 1)]
           Copies(m) ==
             <<Single(XD3_CPY + m, 0)>>
               \o [k \in 1..((MIN_MATCH + desc.cpy_sizes - 1) - MIN_MATCH + 1) |->
                     Single(XD3_CPY + m, MIN_MATCH + k - 1)]
           AddTo(m, a) ==
             [k \in 1..(Max2(m, desc.addcopy_near_cpy_max, desc.addcopy_same_cpy_max) - MIN_MATCH + 1) |->
                Dinst(XD3_ADD, a, XD3_CPY + m, MIN_MATCH + k - 1)]
           AddsTo(m) == [k \in 1..(desc.addcopy_add_max - 1 + 1) |-> AddTo(m, 1 + k - 1)]
           AddCopies(m) == FlattenSeq(AddsTo(m))
           CopyTo(m, c) ==
             [k \in 1..(desc.copyadd_add_max - 1 + 1) |-> Dinst(XD3_CPY + m, c, XD3_ADD, 1 + k - 1)]
           CopiesTo(m) ==
             [k \in 1..(Max2(m, desc.copyadd_near_cpy_max, desc.copyadd_same_cpy_max) - MIN_MATCH + 1) |->
                CopyTo(m, MIN_MATCH + k - 1)]
           CopyAdds(m) == FlattenSeq(CopiesTo(m))
           AllCopies == [m \in 1..modes |-> Copies(m - 1)]
           AllAddCopies == [m \in 1..modes |-> AddCopies(m - 1)]
           AllCopyAdds == [m \in 1..modes |-> CopyAdds(m - 1)]
           tbl == <<Single(XD3_RUN, 0)>> \o Adds
                    \o FlattenSeq(AllCopies) \o FlattenSeq(AllAddCopies) \o FlattenSeq(AllCopyAdds)
<1>1. Rfc3284Table = [code \in 0..255 |-> tbl[code + 1]]
  BY DEF Rfc3284Table, BuildCodeTable
<1>2. /\ desc.near_modes = 4 /\ desc.same_modes = 3 /\ desc.add_sizes = 17 /\ desc.cpy_sizes = 15
      /\ desc.addcopy_near_cpy_max = 6 /\ desc.addcopy_same_cpy_max = 4 /\ desc.addcopy_add_max = 4
      /\ desc.copyadd_add_max = 1 /\ desc.copyadd_near_cpy_max = 4 /\ desc.copyadd_same_cpy_max = 4
  BY DEF Rfc3284Desc
<1> HIDE DEF desc
<1> USE DEF XD3_NOOP, XD3_ADD, XD3_RUN, XD3_CPY, MIN_MATCH
<1>3. \A t, n \in Nat : t < 12 => Single(t, n) \in O
  BY OpcodeOf DEF Single
<1>4. \A t, n, u, k \in Nat : t < 12 /\ u < 12 => Dinst(t, n, u, k) \in O
  BY OpcodeOf
<1> HIDE DEF O
<1>5. IsLong(O, <<Single(XD3_RUN, 0)>>, 1)
  <2>1. Single(XD3_RUN, 0) \in O
    BY <1>3
  <2> HIDE DEF O
  <2> QED
    BY <2>1 DEF IsLong
<1>6. IsLong(O, Adds, 18)
  <2>1. desc.add_sizes - 0 + 1 = 18
    BY <1>2
  <2>2. ASSUME NEW k \in 1..18 PROVE Single(XD3_ADD, 0 + k - 1) \in O
    <3>1. 0 + k - 1 \in Nat /\ XD3_ADD \in Nat /\ XD3_ADD < 12
      OBVIOUS
    <3> QED
      BY <1>3, <3>1
  <2>3. Adds = [k \in 1..18 |-> Single(XD3_ADD, 0 + k - 1)]
    BY <2>1
  <2>4. Adds = [k \in 1..18 |-> Adds[k]] /\ \A k \in 1..18 : Adds[k] \in O
    BY <2>2, <2>3, Zenon
  <2> HIDE DEF Adds
  <2> QED
    BY <2>4, Built
<1>7. modes = 9
  BY <1>2
<1>8. ASSUME NEW m \in 0..8 PROVE IsLong(O, Copies(m), 16)
  <2>1. XD3_CPY + m \in Nat /\ XD3_CPY + m < 12
    OBVIOUS
  <2> DEFINE b == <<Single(XD3_CPY + m, 0)>>
             c == [k \in 1..((MIN_MATCH + desc.cpy_sizes - 1) - MIN_MATCH + 1) |->
                     Single(XD3_CPY + m, MIN_MATCH + k - 1)]
  <2>2. IsLong(O, b, 1)
    <3>1. Single(XD3_CPY + m, 0) \in O
      BY <1>3, <2>1
    <3> QED
      BY <3>1 DEF IsLong
  <2>3. IsLong(O, c, 15)
    <3>1. (MIN_MATCH + desc.cpy_sizes - 1) - MIN_MATCH + 1 = 15
      BY <1>2
    <3>2. ASSUME NEW k \in 1..15 PROVE Single(XD3_CPY + m, MIN_MATCH + k - 1) \in O
      <4>1. MIN_MATCH + k - 1 \in Nat
        OBVIOUS
      <4> QED
        BY <1>3, <2>1, <4>1
    <3>3. c = [k \in 1..15 |-> Single(XD3_CPY + m, MIN_MATCH + k - 1)]
      BY <3>1
    <3>4. c = [k \in 1..15 |-> c[k]] /\ \A k \in 1..15 : c[k] \in O
      BY <3>2, <3>3, Zenon
    <3> HIDE DEF c
    <3> QED
      BY <3>4, Built
  <2>4. Copies(m) = b \o c
    BY Zenon
  <2> HIDE DEF b, c, Copies
  <2>5. 1 + 15 = 16
    OBVIOUS
  <2>6. IsLong(O, b \o c, 16)
    BY <2>2, <2>3, <2>5, Concat, Zenon
  <2> QED
    BY <2>4, <2>6
<1>9. ASSUME NEW m \in 0..8
      PROVE IsLong(O, AddCopies(m), IF m < 6 THEN 12 ELSE 4)
  <2>1. XD3_CPY + m \in Nat /\ XD3_CPY + m < 12 /\ XD3_ADD \in Nat /\ XD3_ADD < 12
    OBVIOUS
  <2>2. PICK w \in Nat : w = IF m < 6 THEN 3 ELSE 1
    OBVIOUS
  <2>3. ASSUME NEW a \in Nat PROVE IsLong(O, AddTo(m, a), w)
    <3> DEFINE c == AddTo(m, a)
    <3>1. Max2(m, desc.addcopy_near_cpy_max, desc.addcopy_same_cpy_max) - MIN_MATCH + 1 = w
      BY <1>2, <2>2
    <3>2. ASSUME NEW k \in 1..w PROVE Dinst(XD3_ADD, a, XD3_CPY + m, MIN_MATCH + k - 1) \in O
      <4>1. MIN_MATCH + k - 1 \in Nat
        OBVIOUS
      <4> QED
        BY <1>4, <2>1, <4>1
    <3>3. c = [k \in 1..w |-> Dinst(XD3_ADD, a, XD3_CPY + m, MIN_MATCH + k - 1)]
      BY <3>1
    <3>4. c = [k \in 1..w |-> c[k]] /\ \A k \in 1..w : c[k] \in O
      BY <3>2, <3>3, Zenon
    <3> HIDE DEF c
    <3>5. IsLong(O, c, w)
      BY <3>4, Built
    <3> QED
      BY <3>5 DEF c
  <2> HIDE DEF AddTo
  <2> DEFINE c == AddsTo(m)
             v == [i \in 1..4 |-> w]
             g == [i \in 0..4 |-> w * i]
  <2>4. AreRows(O, c, 4, v)
    <3>1. desc.addcopy_add_max - 1 + 1 = 4
      BY <1>2
    <3>2. c = [k \in 1..4 |-> AddTo(m, 1 + k - 1)]
      BY <3>1
    <3>3. \A k \in 1..4 : 1 + k - 1 \in Nat
      OBVIOUS
    <3> QED
      BY <2>3, <3>2, <3>3, Zenon DEF AreRows
  <2>5. AddsUp(g, 4, v) /\ g[4] = 4 * w
    BY <2>2, SMT DEF AddsUp
  <2> HIDE DEF c, g, v
  <2>6. 4 \in Nat
    OBVIOUS
  <2>7. IsLong(O, FlattenSeq(c), g[4])
    BY <2>4, <2>5, <2>6, Rows, Zenon
  <2>8. 4 * w = IF m < 6 THEN 12 ELSE 4
    BY <2>2
  <2> QED
    BY <2>5, <2>7, <2>8, Zenon DEF c
<1>10. ASSUME NEW m \in 0..8 PROVE IsLong(O, CopyAdds(m), 1)
  <2>1. XD3_CPY + m \in Nat /\ XD3_CPY + m < 12 /\ XD3_ADD \in Nat /\ XD3_ADD < 12
    OBVIOUS
  <2>2. ASSUME NEW n \in Nat PROVE IsLong(O, CopyTo(m, n), 1)
    <3> DEFINE c == CopyTo(m, n)
    <3>1. desc.copyadd_add_max - 1 + 1 = 1
      BY <1>2
    <3>2. ASSUME NEW k \in 1..1 PROVE Dinst(XD3_CPY + m, n, XD3_ADD, 1 + k - 1) \in O
      <4>1. 1 + k - 1 \in Nat
        OBVIOUS
      <4> QED
        BY <1>4, <2>1, <4>1
    <3>3. c = [k \in 1..1 |-> Dinst(XD3_CPY + m, n, XD3_ADD, 1 + k - 1)]
      BY <3>1
    <3>4. c = [k \in 1..1 |-> c[k]] /\ \A k \in 1..1 : c[k] \in O
      BY <3>2, <3>3, Zenon
    <3> HIDE DEF c
    <3>5. IsLong(O, c, 1)
      BY <3>4, Built
    <3> QED
      BY <3>5 DEF c
  <2> HIDE DEF CopyTo
  <2> DEFINE c == CopiesTo(m)
             v == [i \in 1..1 |-> 1]
             g == [i \in 0..1 |-> i]
  <2>3. AreRows(O, c, 1, v)
    <3>1. Max2(m, desc.copyadd_near_cpy_max, desc.copyadd_same_cpy_max) - MIN_MATCH + 1 = 1
      BY <1>2
    <3>2. c = [k \in 1..1 |-> CopyTo(m, MIN_MATCH + k - 1)]
      BY <3>1
    <3>3. \A k \in 1..1 : MIN_MATCH + k - 1 \in Nat
      OBVIOUS
    <3> QED
      BY <2>2, <3>2, <3>3, Zenon DEF AreRows
  <2>4. AddsUp(g, 1, v) /\ g[1] = 1
    BY SMT DEF AddsUp
  <2> HIDE DEF c, g, v
  <2>5. 1 \in Nat
    OBVIOUS
  <2>6. IsLong(O, FlattenSeq(c), g[1])
    BY <2>3, <2>4, <2>5, Rows, Zenon
  <2> QED
    BY <2>4, <2>6, Zenon DEF c
<1> HIDE DEF Adds, Copies, AddCopies, CopyAdds
<1>11. IsLong(O, FlattenSeq(AllCopies), 144)
  <2> DEFINE w == [i \in 1..9 |-> 16]
             g == [i \in 0..9 |-> 16 * i]
  <2>1. \A i \in 1..9 : i - 1 \in 0..8 /\ w[i] = 16
    OBVIOUS
  <2>2. AllCopies = [i \in 1..9 |-> Copies(i - 1)]
    BY <1>7
  <2>3. AddsUp(g, 9, w)
    BY SMT DEF AddsUp
  <2>8. g[9] = 144
    OBVIOUS
  <2> HIDE DEF w, g
  <2>4. ASSUME NEW i \in 1..9 PROVE IsLong(O, Copies(i - 1), w[i])
    <3> DEFINE k == i - 1
    <3>1. k \in 0..8 /\ w[i] = 16
      BY <2>1
    <3> HIDE DEF k
    <3>2. IsLong(O, Copies(k), w[i])
      BY <1>8, <3>1, Zenon
    <3> QED
      BY <3>2 DEF k
  <2>5. AreRows(O, AllCopies, 9, w)
    BY <2>2, <2>4, Zenon DEF AreRows
  <2>6. 9 \in Nat
    OBVIOUS
  <2> HIDE DEF AllCopies
  <2>7. IsLong(O, FlattenSeq(AllCopies), g[9])
    BY <2>3, <2>5, <2>6, Rows, Zenon
  <2> QED
    BY <2>7, <2>8
<1>12. IsLong(O, FlattenSeq(AllAddCopies), 84)
  <2> DEFINE w == [i \in 1..9 |-> IF i <= 6 THEN 12 ELSE 4]
             g == [i \in 0..9 |-> IF i <= 6 THEN 12 * i ELSE 72 + 4 * (i - 6)]
  <2>1. \A i \in 1..9 : i - 1 \in 0..8 /\ w[i] = IF i - 1 < 6 THEN 12 ELSE 4
    OBVIOUS
  <2>2. AllAddCopies = [i \in 1..9 |-> AddCopies(i - 1)]
    BY <1>7
  <2>3. AddsUp(g, 9, w)
    BY SMT DEF AddsUp
  <2>8. g[9] = 84
    OBVIOUS
  <2> HIDE DEF w, g
  <2>4. ASSUME NEW i \in 1..9 PROVE IsLong(O, AddCopies(i - 1), w[i])
    <3> DEFINE k == i - 1
    <3>1. k \in 0..8 /\ w[i] = IF k < 6 THEN 12 ELSE 4
      BY <2>1
    <3> HIDE DEF k
    <3>2. IsLong(O, AddCopies(k), w[i])
      BY <1>9, <3>1, Zenon
    <3> QED
      BY <3>2 DEF k
  <2>5. AreRows(O, AllAddCopies, 9, w)
    BY <2>2, <2>4, Zenon DEF AreRows
  <2>6. 9 \in Nat
    OBVIOUS
  <2> HIDE DEF AllAddCopies
  <2>7. IsLong(O, FlattenSeq(AllAddCopies), g[9])
    BY <2>3, <2>5, <2>6, Rows, Zenon
  <2> QED
    BY <2>7, <2>8
<1>13. IsLong(O, FlattenSeq(AllCopyAdds), 9)
  <2> DEFINE w == [i \in 1..9 |-> 1]
             g == [i \in 0..9 |-> i]
  <2>1. \A i \in 1..9 : i - 1 \in 0..8 /\ w[i] = 1
    OBVIOUS
  <2>2. AllCopyAdds = [i \in 1..9 |-> CopyAdds(i - 1)]
    BY <1>7
  <2>3. AddsUp(g, 9, w)
    BY SMT DEF AddsUp
  <2>8. g[9] = 9
    OBVIOUS
  <2> HIDE DEF w, g
  <2>4. ASSUME NEW i \in 1..9 PROVE IsLong(O, CopyAdds(i - 1), w[i])
    <3> DEFINE k == i - 1
    <3>1. k \in 0..8 /\ w[i] = 1
      BY <2>1
    <3> HIDE DEF k
    <3>2. IsLong(O, CopyAdds(k), w[i])
      BY <1>10, <3>1, Zenon
    <3> QED
      BY <3>2 DEF k
  <2>5. AreRows(O, AllCopyAdds, 9, w)
    BY <2>2, <2>4, Zenon DEF AreRows
  <2>6. 9 \in Nat
    OBVIOUS
  <2> HIDE DEF AllCopyAdds
  <2>7. IsLong(O, FlattenSeq(AllCopyAdds), g[9])
    BY <2>3, <2>5, <2>6, Rows, Zenon
  <2> QED
    BY <2>7, <2>8
<1> HIDE DEF AllCopies, AllAddCopies, AllCopyAdds
<1>14. IsLong(O, tbl, 256)
  <2> DEFINE run == <<Single(XD3_RUN, 0)>>
  <2>1. tbl = run \o Adds \o FlattenSeq(AllCopies) \o FlattenSeq(AllAddCopies) \o FlattenSeq(AllCopyAdds)
    OBVIOUS
  <2> HIDE DEF run, tbl
  <2>2. IsLong(O, run, 1)
    BY <1>5 DEF run
  <2>3. 1 + 18 = 19 /\ 19 + 144 = 163 /\ 163 + 84 = 247 /\ 247 + 9 = 256
    OBVIOUS
  <2> DEFINE a == run \o Adds
             b == a \o FlattenSeq(AllCopies)
             c == b \o FlattenSeq(AllAddCopies)
  <2>4. IsLong(O, a, 19)
    BY <1>6, <2>2, <2>3, Concat
  <2>5. tbl = c \o FlattenSeq(AllCopyAdds)
    BY <2>1, Zenon
  <2> HIDE DEF a
  <2>6. IsLong(O, b, 163)
    BY <1>11, <2>3, <2>4, Concat
  <2> HIDE DEF b
  <2>7. IsLong(O, c, 247)
    BY <1>12, <2>3, <2>6, Concat
  <2> HIDE DEF c
  <2>8. IsLong(O, c \o FlattenSeq(AllCopyAdds), 256)
    BY <1>13, <2>3, <2>7, Concat
  <2> QED
    BY <2>5, <2>8, Zenon
<1> HIDE DEF tbl
<1>15. ASSUME NEW code \in 0..255 PROVE Rfc3284Table[code] \in O
  <2>1. code + 1 \in 1..256 /\ Rfc3284Table[code] = tbl[code + 1]
    BY <1>1, SMTT(20)
  <2>2. tbl[code + 1] \in O
    BY <1>14, <2>1, Element, ZenonT(40)
  <2> QED
    BY <2>1, <2>2
<1> QED
  BY <1>15 DEF O, Opcodes

(* A table that a delta brings with it, a string of n numbers. *)
LEMMA OtherTable ==
  ASSUME NEW B, B \subseteq Nat, NEW str \in Seq(B), NEW n \in Nat, n = Len(str), n = 6 * 256,
         NEW modes \in Nat, 2 <= modes, TableStringValid(str, modes)
  PROVE  \A code \in 0..255 : IsOpcode(ApplyTableString(str)[code], modes)
<1> TAKE code \in 0..255
<1>1. PICK i \in Nat : i = code /\ i < 256 /\ i \in 0..255
  OBVIOUS
<1> DEFINE At0(row) == str[row * 256 + i + 1]
<1>2. /\ At0(0) <= XD3_CPY /\ At0(1) <= XD3_CPY
      /\ \A half \in {0, 1} : At0(4 + half) < modes /\ (At0(4 + half) # 0 => At0(half) = XD3_CPY)
  <2> DEFINE Entry(row, j) == str[row * 256 + j + 1]
  <2>1. \A j \in 0..255 :
          /\ Entry(0, j) <= XD3_CPY /\ Entry(1, j) <= XD3_CPY
          /\ \A half \in {0, 1} :
               /\ Entry(2 + half, j) # 0 => Entry(half, j) # XD3_NOOP
               /\ Entry(4 + half, j) < modes
               /\ Entry(4 + half, j) # 0 => Entry(half, j) = XD3_CPY
    BY ONLY TableStringValid(str, modes), Zenon DEF TableStringValid
  <2> HIDE DEF Entry
  <2>2. /\ Entry(0, i) <= XD3_CPY /\ Entry(1, i) <= XD3_CPY
        /\ \A half \in {0, 1} : Entry(4 + half, i) < modes /\ (Entry(4 + half, i) # 0 => Entry(half, i) = XD3_CPY)
    BY <1>1, <2>1, Zenon
  <2> QED
    BY <2>2, Zenon DEF Entry
<1>3. ASSUME NEW k \in Nat, 1 <= k, k <= n PROVE str[k] \in Nat
  <2>1. k \in 1..n /\ IsLong(B, str, n)
    BY <1>3 DEF IsLong
  <2>2. str[k] \in B
    BY <2>1, Element, Zenon
  <2> QED
    BY <2>2
<1>4. PICK a, b, c, d, e, f \in Nat :
        /\ a = str[i + 1] /\ b = str[4 * 256 + i + 1] /\ c = str[2 * 256 + i + 1]
        /\ d = str[256 + i + 1] /\ e = str[5 * 256 + i + 1] /\ f = str[3 * 256 + i + 1]
  <2> DEFINE Place(k) == k \in Nat /\ 1 <= k /\ k <= n
  <2>1. /\ Place(i + 1) /\ Place(4 * 256 + i + 1) /\ Place(2 * 256 + i + 1)
        /\ Place(256 + i + 1) /\ Place(5 * 256 + i + 1) /\ Place(3 * 256 + i + 1)
    BY <1>1
  <2>2. \A k : Place(k) => str[k] \in Nat
    BY <1>3
  <2> HIDE DEF Place
  <2>3. /\ str[i + 1] \in Nat /\ str[4 * 256 + i + 1] \in Nat /\ str[2 * 256 + i + 1] \in Nat
        /\ str[256 + i + 1] \in Nat /\ str[5 * 256 + i + 1] \in Nat /\ str[3 * 256 + i + 1] \in Nat
    BY <2>1, <2>2, Zenon
  <2> QED
    BY <2>3, Zenon
<1>5. At0(0) = a /\ At0(1) = d /\ At0(4 + 0) = b /\ At0(4 + 1) = e
  <2>1. 0 * 256 + i + 1 = i + 1 /\ 1 * 256 + i + 1 = 256 + i + 1 /\ 4 + 0 = 4 /\ 4 + 1 = 5
    OBVIOUS
  <2> QED
    BY <1>4, <2>1, ZenonT(40)
<1> HIDE DEF At0
<1>6. /\ a <= XD3_CPY /\ d <= XD3_CPY /\ b < modes /\ e < modes
      /\ b # 0 => a = XD3_CPY
      /\ e # 0 => d = XD3_CPY
  <2>1. \A half \in {0, 1} : At0(4 + half) < modes /\ (At0(4 + half) # 0 => At0(half) = XD3_CPY)
    BY <1>2
  <2>2. 0 \in {0, 1} /\ 1 \in {0, 1}
    OBVIOUS
  <2>3. /\ b < modes /\ (b # 0 => a = XD3_CPY)
        /\ e < modes /\ (e # 0 => d = XD3_CPY)
    BY <1>5, <2>1, <2>2, Zenon
  <2> QED
    BY <1>2, <1>5, <2>3, Zenon
<1>7. /\ a + b \in Nat /\ d + e \in Nat /\ a + b < XD3_CPY + modes /\ d + e < XD3_CPY + modes
  BY ONLY <1>6, a \in Nat, b \in Nat, d \in Nat, e \in Nat, modes \in Nat, 2 <= modes DEF XD3_CPY
<1>8. ApplyTableString(str)[code] = Dinst(a + b, c, d + e, f)
  <2>1. code \in 0..255 /\ ApplyTableString(str)[code]
          = Dinst(str[code + 1] + str[4 * 256 + code + 1], str[2 * 256 + code + 1],
                  str[256 + code + 1] + str[5 * 256 + code + 1], str[3 * 256 + code + 1])
    BY Zenon DEF ApplyTableString
  <2> QED
    BY <1>1, <1>4, <2>1, ZenonT(40)
<1>9. Dinst(a + b, c, d + e, f) \in Opcodes(modes)
  BY <1>7, OpcodeOf
<1> QED
  BY <1>8, <1>9, SMTT(20) DEF Opcodes

-----------------------------------------------------------------------------
(* The headers: the stream is made ready for a window. *)

LEMMA WindowParts ==
  ASSUME WindowInv
  PROVE  /\ DedeltaInv /\ Valued(stream) /\ Equipped(stream) /\ Planned(stream)
         /\ OutputInv /\ ReturnInv /\ SourceInv /\ FilesInv /\ SpareInv
  BY DEF WindowInv

(* What the decoder does not do in a step of a header. *)
InHeader ==
  /\ DedeltaInv' /\ HeaderMoves /\ source' = source /\ UNCHANGED files
  /\ ret = "calling" /\ ret' # "XD3_OUTPUT"

LEMMA HeaderFits ==
  ASSUME WindowInv, InHeader,
         NEW changed, Fields(stream', changed),
         changed \cap {"out", "current1", "current2", "next_out", "space_out", "lastspace"} = {},
         Valued(stream'), Equipped(stream'), Planned(stream')
  PROVE  WindowInv'
<1>1. /\ stream'.out = stream.out /\ stream'.current1 = stream.current1
      /\ stream'.current2 = stream.current2 /\ stream'.next_out = stream.next_out
      /\ stream'.space_out = stream.space_out /\ stream'.lastspace = stream.lastspace
  BY StreamFieldNames, Zenon DEF Fields
<1>2. stream.dec_state # "DEC_EMIT" /\ stream'.dec_state # "DEC_EMIT"
  BY DEF InHeader, HeaderMoves, HeadStates, BeforeAppDat, TableStates, SizeStates
<1>3. Idle(stream) /\ stream.out = <<>>
  BY <1>2, WindowParts DEF OutputInv, InHeader
<1>4. OutputInv'
  <2>1. Idle(stream')
    BY <1>1, <1>3 DEF Idle, Halves
  <2> QED
    BY <1>1, <1>2, <1>3, <2>1 DEF OutputInv
<1>5. ReturnInv'
  BY <1>2 DEF InHeader, ReturnInv
<1>6. SourceInv' /\ FilesInv'
  BY WindowParts DEF InHeader, SourceInv, FilesInv, files, SourceFields, StackSource
<1>7. SpareInv'
  <2>1. ASSUME NEW f \in Sections PROVE stream'[f].pos = 0
    <3>1. stream.dec_state # Turn(f)
      BY SectionsAre DEF InHeader, HeaderMoves, HeadStates, BeforeAppDat, TableStates, SizeStates, Turn
    <3>2. CountInv
      BY WindowParts, Parts DEF SectionInv
    <3> QED
      BY <3>1, <3>2 DEF CountInv, InHeader, HeaderMoves
  <2> QED
    BY <1>1, <2>1, WindowParts DEF SpareInv
<1> QED
  BY <1>4, <1>5, <1>6, <1>7 DEF InHeader, WindowInv

(* No group of states is entered that has something to keep. *)
Onward(old, new) ==
  /\ old \in TableStates \cup {"DEC_TABDAT"} => new \in TableStates \cup {"DEC_TABDAT"}
  /\ new \in WindowStates => old \in WindowStates
  /\ new \in StartStates => old \in StartStates
  /\ new \in EndStates => old \in EndStates

Core ==
  {"codetbl", "acache", "cpylen", "tgtlen", "maxpos", "position", "out", "current1", "current2",
   "next_out", "space_out", "lastspace"}

LEMMA QuietFits ==
  ASSUME WindowInv, InHeader, NEW changed, Fields(stream', changed), changed \cap Core = {},
         Onward(stream.dec_state, stream'.dec_state),
         \A f \in Sections : stream'[f].read = stream[f].read,
         stream'.s_near \in Nat, stream'.s_same \in Nat, stream'.cpyoff \in Nat,
         TableKnown(stream') => /\ stream'.hdr_ind = stream.hdr_ind
                                /\ stream'.s_near = stream.s_near /\ stream'.s_same = stream.s_same
  PROVE  WindowInv'
<1>1. /\ stream'.codetbl = stream.codetbl /\ stream'.acache = stream.acache
      /\ stream'.cpylen = stream.cpylen /\ stream'.tgtlen = stream.tgtlen
      /\ stream'.maxpos = stream.maxpos /\ stream'.position = stream.position
      /\ stream'.space_out = stream.space_out /\ stream'.out = stream.out
      /\ stream'.current1 = stream.current1 /\ stream'.current2 = stream.current2
  BY StreamFieldNames, Zenon DEF Fields, Core
<1>2. Valued(stream) /\ Equipped(stream) /\ Planned(stream)
  BY WindowParts
<1>3. Valued(stream')
  <2>1. \A h \in Halves : stream'[h] = stream[h]
    BY <1>1 DEF Halves
  <2> QED
    BY <1>1, <1>2, <2>1 DEF Valued
<1>4. Equipped(stream')
  <2>1. TableKnown(stream') => TableKnown(stream) /\ TableIn(stream') = TableIn(stream)
                                 /\ Modes(stream') = Modes(stream)
    BY <1>1 DEF Onward, TableKnown, TableIn, Modes
  <2>2. stream'.dec_state \in WindowStates
          => stream.dec_state \in WindowStates /\ TableKnown(stream')
    BY DEF Onward, TableKnown, WindowStates, StartStates, EndStates, ReadOrEmit, ReadStates, TableStates
  <2> QED
    BY <1>1, <1>2, <2>1, <2>2 DEF Equipped
<1>5. Planned(stream')
  <2>1. stream'.dec_state # "DEC_EMIT"
    BY DEF InHeader, HeaderMoves, HeadStates, BeforeAppDat, TableStates, SizeStates
  <2>2. stream.dec_state # "DEC_EMIT"
    BY DEF InHeader, HeaderMoves, HeadStates, BeforeAppDat, TableStates, SizeStates
  <2> QED
    BY <1>1, <1>2, <2>1, <2>2 DEF Planned, Onward
<1> QED
  BY <1>3, <1>4, <1>5, HeaderFits DEF Core

(* Most steps leave the sections, the modes and the offset alone too. *)
Shell == Core \cup Sections \cup {"hdr_ind", "s_near", "s_same", "cpyoff"}

LEMMA ShellFits ==
  ASSUME WindowInv, InHeader, NEW changed, Fields(stream', changed), changed \cap Shell = {},
         Onward(stream.dec_state, stream'.dec_state)
  PROVE  WindowInv'
<1>1. /\ stream'.hdr_ind = stream.hdr_ind /\ stream'.s_near = stream.s_near
      /\ stream'.s_same = stream.s_same /\ stream'.cpyoff = stream.cpyoff
      /\ stream'.data_sect = stream.data_sect /\ stream'.inst_sect = stream.inst_sect
      /\ stream'.addr_sect = stream.addr_sect
  BY StreamFieldNames, Zenon DEF Fields, Shell, Sections
<1>2. \A f \in Sections : stream'[f].read = stream[f].read
  BY <1>1, SectionsAre
<1>3. stream'.s_near \in Nat /\ stream'.s_same \in Nat /\ stream'.cpyoff \in Nat
  BY <1>1, WindowParts DEF Valued
<1> QED
  BY <1>1, <1>2, <1>3, QuietFits DEF Shell

(* What reading digits answers. *)
LEMMA DigitsAnswer ==
  ASSUME FileInv, NEW part \in Nat, NEW word, NEW r, r = DecodeInteger(part, Remaining, word)
  PROVE  /\ r.part \in Nat /\ (r.ret = "ok" => r.val \in Nat)
         /\ r.ret \in {"ok", "XD3_INPUT", "XD3_INVALID_INPUT"}
<1>1. /\ ibuf \in Seq(Nat) /\ Len(ibuf) \in Nat /\ at \in Nat /\ at <= Len(ibuf)
  BY FileFacts
<1>2. Remaining \in Seq(Nat)
  <2>1. PICK b \in Nat : b = Len(ibuf)
    BY <1>1
  <2>2. at <= b /\ b <= Len(ibuf)
    BY <1>1, <2>1
  <2>3. SubSeq(ibuf, at + 1, b) \in Seq(Nat)
    BY ONLY <1>1, <2>1, <2>2, PieceOf
  <2> QED
    BY <2>1, <2>3 DEF Remaining
<1>3. PICK n \in Nat : n = Len(Remaining)
  BY <1>2
<1>4. r \in Readings(n)
  BY <1>2, <1>3, DecodeIntegerType
<1> QED
  BY <1>4, ReadingFacts

LEMMA DecVcHeadFits == ASSUME WindowInv, DedeltaInv', DecVcHead, UNCHANGED files PROVE WindowInv'
<1> DEFINE b == stream.magic \o SubSeq(ibuf, at + 1, at + Min({4 - Len(stream.magic), AvailIn}))
           s == [stream EXCEPT !.magic = b]
<1>1. DedeltaInv /\ HeaderMoves /\ IsStream(stream) /\ FileInv /\ stream.part32 \in Nat /\ stream.part64 \in Nat
  BY WindowParts, Parts, DecVcHeadMoves DEF StreamTypes
<1> HIDE DEF b
<1>2. /\ stream.dec_state = "DEC_VCHEAD" /\ source' = source /\ ret = "calling"
      /\ ret' # "XD3_OUTPUT"
      /\ \/ stream' = s
         \/ stream' = At(s, "DEC_HDRIND")
  BY DEF DecVcHead, DecodeBytes, Case, Return, Goto, b, s
<1>3. Fields(stream', {"dec_state", "magic"}) /\ stream'.dec_state \in {"DEC_VCHEAD", "DEC_HDRIND"}
  <2>1. CASE stream' = s
    BY <1>1, <2>1, <1>2, StreamFieldNames, ZenonT(30) DEF Fields, IsStream, At
  <2>2. CASE stream' = At(s, "DEC_HDRIND")
    BY <1>1, <2>2, <1>2, StreamFieldNames, ZenonT(30) DEF Fields, IsStream, At
  <2> QED
    BY <1>2, <2>1, <2>2
<1>4. Onward(stream.dec_state, stream'.dec_state)
  BY <1>2, <1>3 DEF Onward, TableStates, WindowStates, StartStates, EndStates, ReadOrEmit, ReadStates
<1>5. InHeader
  BY <1>1, <1>2 DEF InHeader
<1> QED
  BY <1>3, <1>4, <1>5, ShellFits DEF Shell, Core, Sections

LEMMA DecSecondIdFits == ASSUME WindowInv, DedeltaInv', DecSecondId, UNCHANGED files PROVE WindowInv'
<1>1. DedeltaInv /\ HeaderMoves /\ IsStream(stream) /\ FileInv /\ stream.part32 \in Nat /\ stream.part64 \in Nat
  BY WindowParts, Parts, DecSecondIdMoves DEF StreamTypes
<1>2. /\ stream.dec_state = "DEC_SECONDID" /\ source' = source /\ ret = "calling"
      /\ ret' # "XD3_OUTPUT"
      /\ \/ stream' = stream
         \/ stream' = At(stream, "DEC_TABLEN")
  BY DEF DecSecondId, DecodeByte, Case, Return, Goto, Refuse
<1>3. Fields(stream', {"dec_state"}) /\ stream'.dec_state \in {"DEC_SECONDID", "DEC_TABLEN"}
  <2>1. CASE stream' = stream
    BY <1>1, <2>1, <1>2, StreamFieldNames, SMTT(30) DEF Fields, IsStream, At
  <2>2. CASE stream' = At(stream, "DEC_TABLEN")
    BY <1>1, <2>2, <1>2, StreamFieldNames, SMTT(30) DEF Fields, IsStream, At
  <2> QED
    BY <1>2, <2>1, <2>2
<1>4. Onward(stream.dec_state, stream'.dec_state)
  BY <1>2, <1>3 DEF Onward, TableStates, WindowStates, StartStates, EndStates, ReadOrEmit, ReadStates
<1>5. InHeader
  BY <1>1, <1>2 DEF InHeader
<1> QED
  BY <1>3, <1>4, <1>5, ShellFits DEF Shell, Core, Sections

LEMMA DecTabLenFits == ASSUME WindowInv, DedeltaInv', DecTabLen, UNCHANGED files PROVE WindowInv'
<1> DEFINE r == DecodeInteger(stream.part32, Remaining, Word)
           s == [stream EXCEPT !.part32 = r.part]
<1>1. DedeltaInv /\ HeaderMoves /\ IsStream(stream) /\ FileInv /\ stream.part32 \in Nat /\ stream.part64 \in Nat
  BY WindowParts, Parts, DecTabLenMoves DEF StreamTypes
<1>2. r.part \in Nat /\ (r.ret = "ok" => r.val \in Nat) /\ r.ret # "XD3_OUTPUT"
  BY <1>1, DigitsAnswer
<1> HIDE DEF r
<1>3. /\ stream.dec_state = "DEC_TABLEN" /\ source' = source /\ ret = "calling"
      /\ ret' # "XD3_OUTPUT"
      /\ \/ stream' = s
         \/ stream' = [At(s, "DEC_NEAR") EXCEPT !.codetblsz = r.val - 2]
         \/ stream' = At(stream, "DEC_NEAR")
  BY <1>2 DEF DecTabLen, NumberCase, DecodeNumber, Case, Return, Goto, r, s
<1>4. Fields(stream', {"dec_state", "part32", "codetblsz"}) /\ stream'.dec_state \in {"DEC_TABLEN", "DEC_NEAR"}
  <2>1. CASE stream' = s
    BY <1>1, <2>1, <1>3, StreamFieldNames, SMTT(30) DEF Fields, IsStream, At
  <2>2. CASE stream' = [At(s, "DEC_NEAR") EXCEPT !.codetblsz = r.val - 2]
    BY <1>1, <2>2, <1>3, StreamFieldNames, ZenonT(30) DEF Fields, IsStream, At
  <2>3. CASE stream' = At(stream, "DEC_NEAR")
    BY <1>1, <2>3, <1>3, StreamFieldNames, SMTT(30) DEF Fields, IsStream, At
  <2> QED
    BY <1>3, <2>1, <2>2, <2>3
<1>5. Onward(stream.dec_state, stream'.dec_state)
  BY <1>3, <1>4 DEF Onward, TableStates, WindowStates, StartStates, EndStates, ReadOrEmit, ReadStates
<1>6. InHeader
  BY <1>1, <1>3 DEF InHeader
<1> QED
  BY <1>4, <1>5, <1>6, ShellFits DEF Shell, Core, Sections

LEMMA DecAppLenFits == ASSUME WindowInv, DedeltaInv', DecAppLen, UNCHANGED files PROVE WindowInv'
<1> DEFINE r == DecodeInteger(stream.part32, Remaining, Word)
           s == [stream EXCEPT !.part32 = r.part]
<1>1. DedeltaInv /\ HeaderMoves /\ IsStream(stream) /\ FileInv /\ stream.part32 \in Nat /\ stream.part64 \in Nat
  BY WindowParts, Parts, DecAppLenMoves DEF StreamTypes
<1>2. r.part \in Nat /\ (r.ret = "ok" => r.val \in Nat) /\ r.ret # "XD3_OUTPUT"
  BY <1>1, DigitsAnswer
<1> HIDE DEF r
<1>3. /\ stream.dec_state = "DEC_APPLEN" /\ source' = source /\ ret = "calling"
      /\ ret' # "XD3_OUTPUT"
      /\ \/ stream' = s
         \/ stream' = [At(s, "DEC_APPDAT") EXCEPT !.appheadsz = r.val]
         \/ stream' = At(stream, "DEC_APPDAT")
  BY <1>2 DEF DecAppLen, NumberCase, DecodeNumber, Case, Return, Goto, r, s
<1>4. Fields(stream', {"dec_state", "part32", "appheadsz"}) /\ stream'.dec_state \in {"DEC_APPLEN", "DEC_APPDAT"}
  <2>1. CASE stream' = s
    BY <1>1, <2>1, <1>3, StreamFieldNames, SMTT(30) DEF Fields, IsStream, At
  <2>2. CASE stream' = [At(s, "DEC_APPDAT") EXCEPT !.appheadsz = r.val]
    BY <1>1, <2>2, <1>3, StreamFieldNames, ZenonT(30) DEF Fields, IsStream, At
  <2>3. CASE stream' = At(stream, "DEC_APPDAT")
    BY <1>1, <2>3, <1>3, StreamFieldNames, SMTT(30) DEF Fields, IsStream, At
  <2> QED
    BY <1>3, <2>1, <2>2, <2>3
<1>5. Onward(stream.dec_state, stream'.dec_state)
  BY <1>3, <1>4 DEF Onward, TableStates, WindowStates, StartStates, EndStates, ReadOrEmit, ReadStates
<1>6. InHeader
  BY <1>1, <1>3 DEF InHeader
<1> QED
  BY <1>4, <1>5, <1>6, ShellFits DEF Shell, Core, Sections

LEMMA DecAppDatFits == ASSUME WindowInv, DedeltaInv', DecAppDat, UNCHANGED files PROVE WindowInv'
<1> DEFINE b == stream.appheader \o SubSeq(ibuf, at + 1, at + Min({stream.appheadsz - Len(stream.appheader), AvailIn}))
           s == [stream EXCEPT !.appheader = b]
<1>1. DedeltaInv /\ HeaderMoves /\ IsStream(stream) /\ FileInv /\ stream.part32 \in Nat /\ stream.part64 \in Nat
  BY WindowParts, Parts, DecAppDatMoves DEF StreamTypes
<1> HIDE DEF b
<1>2. /\ stream.dec_state = "DEC_APPDAT" /\ source' = source /\ ret = "calling"
      /\ ret' # "XD3_OUTPUT"
      /\ \/ stream' = s
         \/ stream' = At(s, "DEC_WININD")
         \/ stream' = At(stream, "DEC_WININD")
  BY DEF DecAppDat, DecodeBytes, Case, Return, Goto, b, s
<1>3. Fields(stream', {"dec_state", "appheader"}) /\ stream'.dec_state \in {"DEC_APPDAT", "DEC_WININD"}
  <2>1. CASE stream' = s
    BY <1>1, <2>1, <1>2, StreamFieldNames, ZenonT(30) DEF Fields, IsStream, At
  <2>2. CASE stream' = At(s, "DEC_WININD")
    BY <1>1, <2>2, <1>2, StreamFieldNames, ZenonT(30) DEF Fields, IsStream, At
  <2>3. CASE stream' = At(stream, "DEC_WININD")
    BY <1>1, <2>3, <1>2, StreamFieldNames, SMTT(30) DEF Fields, IsStream, At
  <2> QED
    BY <1>2, <2>1, <2>2, <2>3
<1>4. Onward(stream.dec_state, stream'.dec_state)
  BY <1>2, <1>3 DEF Onward, TableStates, WindowStates, StartStates, EndStates, ReadOrEmit, ReadStates
<1>5. InHeader
  BY <1>1, <1>2 DEF InHeader
<1> QED
  BY <1>3, <1>4, <1>5, ShellFits DEF Shell, Core, Sections

LEMMA DecEncLenFits == ASSUME WindowInv, DedeltaInv', DecEncLen, UNCHANGED files PROVE WindowInv'
<1> DEFINE r == DecodeInteger(stream.part32, Remaining, Word)
           s == [stream EXCEPT !.part32 = r.part]
<1>1. DedeltaInv /\ HeaderMoves /\ IsStream(stream) /\ FileInv /\ stream.part32 \in Nat /\ stream.part64 \in Nat
  BY WindowParts, Parts, DecEncLenMoves DEF StreamTypes
<1>2. r.part \in Nat /\ (r.ret = "ok" => r.val \in Nat) /\ r.ret # "XD3_OUTPUT"
  BY <1>1, DigitsAnswer
<1> HIDE DEF r
<1>3. /\ stream.dec_state = "DEC_ENCLEN" /\ source' = source /\ ret = "calling"
      /\ ret' # "XD3_OUTPUT"
      /\ \/ stream' = s
         \/ stream' = [At(s, "DEC_TGTLEN") EXCEPT !["enclen"] = r.val]
  BY <1>2 DEF DecEncLen, SizeCase, NumberCase, DecodeNumber, Case, Return, Goto, r, s
<1>4. Fields(stream', {"dec_state", "part32", "enclen"}) /\ stream'.dec_state \in {"DEC_ENCLEN", "DEC_TGTLEN"}
  <2>1. CASE stream' = s
    BY <1>1, <2>1, <1>3, StreamFieldNames, SMTT(30) DEF Fields, IsStream, At
  <2>2. CASE stream' = [At(s, "DEC_TGTLEN") EXCEPT !["enclen"] = r.val]
    BY <1>1, <2>2, <1>3, StreamFieldNames, ZenonT(30) DEF Fields, IsStream, At
  <2> QED
    BY <1>3, <2>1, <2>2
<1>5. Onward(stream.dec_state, stream'.dec_state)
  BY <1>3, <1>4 DEF Onward, TableStates, WindowStates, StartStates, EndStates, ReadOrEmit, ReadStates
<1>6. InHeader
  BY <1>1, <1>3 DEF InHeader
<1> QED
  BY <1>4, <1>5, <1>6, ShellFits DEF Shell, Core, Sections

LEMMA DecDelIndFits == ASSUME WindowInv, DedeltaInv', DecDelInd, UNCHANGED files PROVE WindowInv'
<1>1. DedeltaInv /\ HeaderMoves /\ IsStream(stream) /\ FileInv /\ stream.part32 \in Nat /\ stream.part64 \in Nat
  BY WindowParts, Parts, DecDelIndMoves DEF StreamTypes
<1>2. /\ stream.dec_state = "DEC_DELIND" /\ source' = source /\ ret = "calling"
      /\ ret' # "XD3_OUTPUT"
      /\ \/ stream' = stream
         \/ stream' = [At(stream, "DEC_DATALEN") EXCEPT !.del_ind = ibuf[at + 1]]
  BY DEF DecDelInd, DecodeByte, Case, Return, Goto, Refuse
<1>3. Fields(stream', {"dec_state", "del_ind"}) /\ stream'.dec_state \in {"DEC_DELIND", "DEC_DATALEN"}
  <2>1. CASE stream' = stream
    BY <1>1, <2>1, <1>2, StreamFieldNames, SMTT(30) DEF Fields, IsStream, At
  <2>2. CASE stream' = [At(stream, "DEC_DATALEN") EXCEPT !.del_ind = ibuf[at + 1]]
    BY <1>1, <2>2, <1>2, StreamFieldNames, ZenonT(30) DEF Fields, IsStream, At
  <2> QED
    BY <1>2, <2>1, <2>2
<1>4. Onward(stream.dec_state, stream'.dec_state)
  BY <1>2, <1>3 DEF Onward, TableStates, WindowStates, StartStates, EndStates, ReadOrEmit, ReadStates
<1>5. InHeader
  BY <1>1, <1>2 DEF InHeader
<1> QED
  BY <1>3, <1>4, <1>5, ShellFits DEF Shell, Core, Sections

LEMMA DecCksumFits == ASSUME WindowInv, DedeltaInv', DecCksum, UNCHANGED files PROVE WindowInv'
<1> DEFINE b == stream.cksum \o SubSeq(ibuf, at + 1, at + Min({4 - Len(stream.cksum), AvailIn}))
           s == [stream EXCEPT !.cksum = b]
<1>1. DedeltaInv /\ HeaderMoves /\ IsStream(stream) /\ FileInv /\ stream.part32 \in Nat /\ stream.part64 \in Nat
  BY WindowParts, Parts, DecCksumMoves DEF StreamTypes
<1> HIDE DEF b
<1>2. /\ stream.dec_state = "DEC_CKSUM" /\ source' = source /\ ret = "calling"
      /\ ret' # "XD3_OUTPUT"
      /\ \/ stream' = s
         \/ stream' = At(s, "DEC_DATA")
         \/ stream' = At(stream, "DEC_DATA")
  BY DEF DecCksum, DecodeBytes, Case, Return, Goto, b, s
<1>3. Fields(stream', {"dec_state", "cksum"}) /\ stream'.dec_state \in {"DEC_CKSUM", "DEC_DATA"}
  <2>1. CASE stream' = s
    BY <1>1, <2>1, <1>2, StreamFieldNames, ZenonT(30) DEF Fields, IsStream, At
  <2>2. CASE stream' = At(s, "DEC_DATA")
    BY <1>1, <2>2, <1>2, StreamFieldNames, ZenonT(30) DEF Fields, IsStream, At
  <2>3. CASE stream' = At(stream, "DEC_DATA")
    BY <1>1, <2>3, <1>2, StreamFieldNames, SMTT(30) DEF Fields, IsStream, At
  <2> QED
    BY <1>2, <2>1, <2>2, <2>3
<1>4. Onward(stream.dec_state, stream'.dec_state)
  BY <1>2, <1>3 DEF Onward, TableStates, WindowStates, StartStates, EndStates, ReadOrEmit, ReadStates
<1>5. InHeader
  BY <1>1, <1>2 DEF InHeader
<1> QED
  BY <1>3, <1>4, <1>5, ShellFits DEF Shell, Core, Sections

LEMMA DecHdrIndFits == ASSUME WindowInv, DedeltaInv', DecHdrInd, UNCHANGED files PROVE WindowInv'
<1>1. DedeltaInv /\ HeaderMoves /\ IsStream(stream) /\ FileInv /\ stream.part32 \in Nat /\ stream.part64 \in Nat
  BY WindowParts, Parts, DecHdrIndMoves DEF StreamTypes
<1>2. /\ stream.dec_state = "DEC_HDRIND" /\ source' = source /\ ret = "calling"
      /\ ret' # "XD3_OUTPUT"
      /\ \/ stream' = stream
         \/ stream' = [At(stream, "DEC_SECONDID") EXCEPT !.hdr_ind = ibuf[at + 1]]
  BY DEF DecHdrInd, DecodeByte, Case, Return, Goto, Refuse
<1>3. Fields(stream', {"dec_state", "hdr_ind"}) /\ stream'.dec_state \in {"DEC_HDRIND", "DEC_SECONDID"}
  <2>1. CASE stream' = stream
    BY <1>1, <2>1, <1>2, StreamFieldNames, SMTT(30) DEF Fields, IsStream, At
  <2>2. CASE stream' = [At(stream, "DEC_SECONDID") EXCEPT !.hdr_ind = ibuf[at + 1]]
    BY <1>1, <2>2, <1>2, StreamFieldNames, ZenonT(30) DEF Fields, IsStream, At
  <2> QED
    BY <1>2, <2>1, <2>2
<1>4. Onward(stream.dec_state, stream'.dec_state)
  BY <1>2, <1>3 DEF Onward, TableStates, WindowStates, StartStates, EndStates, ReadOrEmit, ReadStates
<1>5. InHeader
  BY <1>1, <1>2 DEF InHeader
<1>6. \A f \in Sections : stream'[f].read = stream[f].read
  BY <1>3, StreamFieldNames, SectionsAre, Zenon DEF Fields
<1>7. stream'.s_near \in Nat /\ stream'.s_same \in Nat /\ stream'.cpyoff \in Nat
  BY <1>1, <1>2, <1>3, StreamFieldNames, OneByte, WindowParts DEF Fields, Valued
<1>8. ~TableKnown(stream')
  BY <1>2, <1>3, StreamFieldNames DEF Fields, TableKnown, TableStates
<1> QED
  BY <1>3, <1>4, <1>5, <1>6, <1>7, <1>8, QuietFits DEF Core

LEMMA DecNearFits == ASSUME WindowInv, DedeltaInv', DecNear, UNCHANGED files PROVE WindowInv'
<1>1. DedeltaInv /\ HeaderMoves /\ IsStream(stream) /\ FileInv /\ stream.part32 \in Nat /\ stream.part64 \in Nat
  BY WindowParts, Parts, DecNearMoves DEF StreamTypes
<1>2. /\ stream.dec_state = "DEC_NEAR" /\ source' = source /\ ret = "calling"
      /\ ret' # "XD3_OUTPUT"
      /\ \/ stream' = stream
         \/ stream' = [At(stream, "DEC_SAME") EXCEPT !.s_near = ibuf[at + 1]] /\ AvailIn # 0
         \/ stream' = At(stream, "DEC_SAME")
  BY DEF DecNear, ModesCase, DecodeByte, Case, Return, Goto, Refuse
<1>3. /\ Fields(stream', {"dec_state", "s_near"}) /\ stream'.dec_state \in {"DEC_NEAR", "DEC_SAME"}
      /\ stream'.s_near = stream.s_near \/ (AvailIn # 0 /\ stream'.s_near = ibuf[at + 1])
  <2>1. CASE stream' = stream
    BY <1>1, <2>1, <1>2, StreamFieldNames, SMTT(30) DEF Fields, IsStream, At
  <2>2. CASE stream' = [At(stream, "DEC_SAME") EXCEPT !.s_near = ibuf[at + 1]]
    BY <1>1, <2>2, <1>2, StreamFieldNames, ZenonT(30) DEF Fields, IsStream, At
  <2>3. CASE stream' = At(stream, "DEC_SAME")
    BY <1>1, <2>3, <1>2, StreamFieldNames, SMTT(30) DEF Fields, IsStream, At
  <2> QED
    BY <1>2, <2>1, <2>2, <2>3
<1>4. Onward(stream.dec_state, stream'.dec_state)
  BY <1>2, <1>3 DEF Onward, TableStates, WindowStates, StartStates, EndStates, ReadOrEmit, ReadStates
<1>5. InHeader
  BY <1>1, <1>2 DEF InHeader
<1>6. \A f \in Sections : stream'[f].read = stream[f].read
  BY <1>3, StreamFieldNames, SectionsAre, Zenon DEF Fields
<1>7. stream'.s_near \in Nat /\ stream'.s_same \in Nat /\ stream'.cpyoff \in Nat
  BY <1>1, <1>2, <1>3, StreamFieldNames, OneByte, WindowParts DEF Fields, Valued
<1>8. ~TableKnown(stream')
  BY <1>2, <1>3, StreamFieldNames DEF Fields, TableKnown, TableStates
<1> QED
  BY <1>3, <1>4, <1>5, <1>6, <1>7, <1>8, QuietFits DEF Core

LEMMA DecSameFits == ASSUME WindowInv, DedeltaInv', DecSame, UNCHANGED files PROVE WindowInv'
<1>1. DedeltaInv /\ HeaderMoves /\ IsStream(stream) /\ FileInv /\ stream.part32 \in Nat /\ stream.part64 \in Nat
  BY WindowParts, Parts, DecSameMoves DEF StreamTypes
<1>2. /\ stream.dec_state = "DEC_SAME" /\ source' = source /\ ret = "calling"
      /\ ret' # "XD3_OUTPUT"
      /\ \/ stream' = stream
         \/ stream' = [At(stream, "DEC_TABDAT") EXCEPT !.s_same = ibuf[at + 1]] /\ AvailIn # 0
         \/ stream' = At(stream, "DEC_TABDAT")
  BY DEF DecSame, ModesCase, DecodeByte, Case, Return, Goto, Refuse
<1>3. /\ Fields(stream', {"dec_state", "s_same"}) /\ stream'.dec_state \in {"DEC_SAME", "DEC_TABDAT"}
      /\ stream'.s_same = stream.s_same \/ (AvailIn # 0 /\ stream'.s_same = ibuf[at + 1])
  <2>1. CASE stream' = stream
    BY <1>1, <2>1, <1>2, StreamFieldNames, SMTT(30) DEF Fields, IsStream, At
  <2>2. CASE stream' = [At(stream, "DEC_TABDAT") EXCEPT !.s_same = ibuf[at + 1]]
    BY <1>1, <2>2, <1>2, StreamFieldNames, ZenonT(30) DEF Fields, IsStream, At
  <2>3. CASE stream' = At(stream, "DEC_TABDAT")
    BY <1>1, <2>3, <1>2, StreamFieldNames, SMTT(30) DEF Fields, IsStream, At
  <2> QED
    BY <1>2, <2>1, <2>2, <2>3
<1>4. Onward(stream.dec_state, stream'.dec_state)
  BY <1>2, <1>3 DEF Onward, TableStates, WindowStates, StartStates, EndStates, ReadOrEmit, ReadStates
<1>5. InHeader
  BY <1>1, <1>2 DEF InHeader
<1>6. \A f \in Sections : stream'[f].read = stream[f].read
  BY <1>3, StreamFieldNames, SectionsAre, Zenon DEF Fields
<1>7. stream'.s_near \in Nat /\ stream'.s_same \in Nat /\ stream'.cpyoff \in Nat
  BY <1>1, <1>2, <1>3, StreamFieldNames, OneByte, WindowParts DEF Fields, Valued
<1>8. ~TableKnown(stream')
  BY <1>2, <1>3, StreamFieldNames DEF Fields, TableKnown, TableStates
<1> QED
  BY <1>3, <1>4, <1>5, <1>6, <1>7, <1>8, QuietFits DEF Core

LEMMA DecCpyOffFits == ASSUME WindowInv, DedeltaInv', DecCpyOff, UNCHANGED files PROVE WindowInv'
<1> DEFINE r == DecodeInteger(stream.part64, Remaining, XWord)
           s == [stream EXCEPT !.part64 = r.part]
<1>1. DedeltaInv /\ HeaderMoves /\ IsStream(stream) /\ FileInv /\ stream.part32 \in Nat /\ stream.part64 \in Nat
  BY WindowParts, Parts, DecCpyOffMoves DEF StreamTypes
<1>2. r.part \in Nat /\ (r.ret = "ok" => r.val \in Nat) /\ r.ret # "XD3_OUTPUT"
  BY <1>1, DigitsAnswer
<1> HIDE DEF r
<1>3. /\ stream.dec_state = "DEC_CPYOFF" /\ source' = source /\ ret = "calling"
      /\ ret' # "XD3_OUTPUT"
      /\ \/ stream' = s
         \/ stream' = At([s EXCEPT !.cpyoff = r.val], "DEC_ENCLEN") /\ r.ret = "ok"
         \/ stream' = [s EXCEPT !.cpyoff = r.val] /\ r.ret = "ok"
         \/ stream' = At(stream, "DEC_ENCLEN")
         \/ stream' = stream
  BY <1>2 DEF DecCpyOff, NumberCase, DecodeNumber, Case, Return, Goto, r, s
<1>4. /\ Fields(stream', {"dec_state", "part64", "cpyoff"}) /\ stream'.dec_state \in {"DEC_CPYOFF", "DEC_ENCLEN"}
      /\ stream'.cpyoff = stream.cpyoff \/ (r.ret = "ok" /\ stream'.cpyoff = r.val)
  <2>1. CASE stream' = s
    BY <1>1, <2>1, <1>3, StreamFieldNames, SMTT(30) DEF Fields, IsStream, At
  <2>2. CASE stream' = At([s EXCEPT !.cpyoff = r.val], "DEC_ENCLEN")
    BY <1>1, <2>2, <1>3, StreamFieldNames, ZenonT(60) DEF Fields, IsStream, At
  <2>3. CASE stream' = [s EXCEPT !.cpyoff = r.val]
    BY <1>1, <2>3, <1>3, StreamFieldNames, ZenonT(30) DEF Fields, IsStream, At
  <2>4. CASE stream' = At(stream, "DEC_ENCLEN")
    BY <1>1, <2>4, <1>3, StreamFieldNames, SMTT(30) DEF Fields, IsStream, At
  <2>5. CASE stream' = stream
    BY <1>1, <2>5, <1>3, StreamFieldNames, SMTT(30) DEF Fields, IsStream, At
  <2> QED
    BY <1>3, <2>1, <2>2, <2>3, <2>4, <2>5, SMTT(20)
<1>5. Onward(stream.dec_state, stream'.dec_state)
  BY <1>3, <1>4 DEF Onward, TableStates, WindowStates, StartStates, EndStates, ReadOrEmit, ReadStates
<1>6. InHeader
  BY <1>1, <1>3 DEF InHeader
<1>7. \A f \in Sections : stream'[f].read = stream[f].read
  BY <1>4, StreamFieldNames, SectionsAre, Zenon DEF Fields
<1>8. stream'.s_near \in Nat /\ stream'.s_same \in Nat /\ stream'.cpyoff \in Nat
  BY <1>1, <1>2, <1>3, <1>4, StreamFieldNames, OneByte, WindowParts DEF Fields, Valued
<1>9. /\ stream'.hdr_ind = stream.hdr_ind /\ stream'.s_near = stream.s_near
      /\ stream'.s_same = stream.s_same
  BY <1>3, <1>4, StreamFieldNames DEF Fields, TableKnown, TableStates
<1> QED
  BY <1>4, <1>5, <1>6, <1>7, <1>8, <1>9, QuietFits DEF Core

LEMMA DecDataLenFits == ASSUME WindowInv, DedeltaInv', DecDataLen, UNCHANGED files PROVE WindowInv'
<1> DEFINE r == DecodeInteger(stream.part32, Remaining, Word)
           s == [stream EXCEPT !.part32 = r.part]
           x == [stream.data_sect EXCEPT !.size = r.val]
<1>1. /\ DedeltaInv /\ HeaderMoves /\ IsStream(stream) /\ FileInv /\ stream.part32 \in Nat
      /\ IsSection(stream.data_sect)
  BY WindowParts, Parts, DecDataLenMoves, SectionsAre DEF StreamTypes
<1>2. r.ret # "XD3_OUTPUT"
  BY <1>1, DigitsAnswer
<1> HIDE DEF r
<1>3. At(s, "DEC_INSTLEN").data_sect = stream.data_sect /\ IsStream(At(s, "DEC_INSTLEN"))
  BY <1>1, StreamFieldNames, ZenonT(30) DEF IsStream, At
<1>4. /\ stream.dec_state = "DEC_DATALEN" /\ source' = source /\ ret = "calling"
      /\ ret' # "XD3_OUTPUT"
      /\ \/ stream' = s
         \/ stream' = [At(s, "DEC_INSTLEN") EXCEPT !["data_sect"] = [@ EXCEPT !.size = r.val]]
  BY <1>2 DEF DecDataLen, SectionSizeCase, NumberCase, DecodeNumber, Case, Return, Goto, r, s
<1>5. /\ Fields(stream', {"dec_state", "part32", "data_sect"}) /\ stream'.dec_state \in {"DEC_DATALEN", "DEC_INSTLEN"}
      /\ stream'.data_sect = stream.data_sect \/ stream'.data_sect = x
  <2>1. CASE stream' = s
    BY <1>1, <1>4, <2>1, StreamFieldNames, ZenonT(30) DEF Fields, IsStream
  <2>2. CASE stream' # s
    <3>1. stream' = [At(s, "DEC_INSTLEN") EXCEPT !.data_sect = x]
      BY <1>3, <1>4, <2>2
    <3> HIDE DEF x
    <3> QED
      BY <1>1, <3>1, StreamFieldNames, ZenonT(30) DEF Fields, IsStream, At
  <2> QED
    BY <2>1, <2>2
<1>6. Onward(stream.dec_state, stream'.dec_state)
  BY <1>4, <1>5 DEF Onward, TableStates, WindowStates, StartStates, EndStates, ReadOrEmit, ReadStates
<1>7. InHeader
  BY <1>1, <1>4 DEF InHeader
<1>8. \A g \in Sections : stream'[g].read = stream[g].read
  <2>1. x.read = stream.data_sect.read
    BY <1>1, SectionFieldNames, Zenon DEF IsSection
  <2> HIDE DEF x
  <2>2. \A g \in Sections : g # "data_sect" => stream'[g] = stream[g]
    BY <1>5, StreamFieldNames, SectionsAre, Zenon DEF Fields
  <2> QED
    BY <1>5, <2>1, <2>2
<1> HIDE DEF x
<1>9. /\ stream'.s_near = stream.s_near /\ stream'.s_same = stream.s_same
      /\ stream'.cpyoff = stream.cpyoff /\ stream'.hdr_ind = stream.hdr_ind
  BY <1>5, StreamFieldNames, Zenon DEF Fields
<1>10. stream.s_near \in Nat /\ stream.s_same \in Nat /\ stream.cpyoff \in Nat
  BY WindowParts DEF Valued
<1> QED
  BY <1>5, <1>6, <1>7, <1>8, <1>9, <1>10, QuietFits DEF Core

LEMMA DecInstLenFits == ASSUME WindowInv, DedeltaInv', DecInstLen, UNCHANGED files PROVE WindowInv'
<1> DEFINE r == DecodeInteger(stream.part32, Remaining, Word)
           s == [stream EXCEPT !.part32 = r.part]
           x == [stream.inst_sect EXCEPT !.size = r.val]
<1>1. /\ DedeltaInv /\ HeaderMoves /\ IsStream(stream) /\ FileInv /\ stream.part32 \in Nat
      /\ IsSection(stream.inst_sect)
  BY WindowParts, Parts, DecInstLenMoves, SectionsAre DEF StreamTypes
<1>2. r.ret # "XD3_OUTPUT"
  BY <1>1, DigitsAnswer
<1> HIDE DEF r
<1>3. At(s, "DEC_ADDRLEN").inst_sect = stream.inst_sect /\ IsStream(At(s, "DEC_ADDRLEN"))
  BY <1>1, StreamFieldNames, ZenonT(30) DEF IsStream, At
<1>4. /\ stream.dec_state = "DEC_INSTLEN" /\ source' = source /\ ret = "calling"
      /\ ret' # "XD3_OUTPUT"
      /\ \/ stream' = s
         \/ stream' = [At(s, "DEC_ADDRLEN") EXCEPT !["inst_sect"] = [@ EXCEPT !.size = r.val]]
  BY <1>2 DEF DecInstLen, SectionSizeCase, NumberCase, DecodeNumber, Case, Return, Goto, r, s
<1>5. /\ Fields(stream', {"dec_state", "part32", "inst_sect"}) /\ stream'.dec_state \in {"DEC_INSTLEN", "DEC_ADDRLEN"}
      /\ stream'.inst_sect = stream.inst_sect \/ stream'.inst_sect = x
  <2>1. CASE stream' = s
    BY <1>1, <1>4, <2>1, StreamFieldNames, ZenonT(30) DEF Fields, IsStream
  <2>2. CASE stream' # s
    <3>1. stream' = [At(s, "DEC_ADDRLEN") EXCEPT !.inst_sect = x]
      BY <1>3, <1>4, <2>2
    <3> HIDE DEF x
    <3> QED
      BY <1>1, <3>1, StreamFieldNames, ZenonT(30) DEF Fields, IsStream, At
  <2> QED
    BY <2>1, <2>2
<1>6. Onward(stream.dec_state, stream'.dec_state)
  BY <1>4, <1>5 DEF Onward, TableStates, WindowStates, StartStates, EndStates, ReadOrEmit, ReadStates
<1>7. InHeader
  BY <1>1, <1>4 DEF InHeader
<1>8. \A g \in Sections : stream'[g].read = stream[g].read
  <2>1. x.read = stream.inst_sect.read
    BY <1>1, SectionFieldNames, Zenon DEF IsSection
  <2> HIDE DEF x
  <2>2. \A g \in Sections : g # "inst_sect" => stream'[g] = stream[g]
    BY <1>5, StreamFieldNames, SectionsAre, Zenon DEF Fields
  <2> QED
    BY <1>5, <2>1, <2>2
<1> HIDE DEF x
<1>9. /\ stream'.s_near = stream.s_near /\ stream'.s_same = stream.s_same
      /\ stream'.cpyoff = stream.cpyoff /\ stream'.hdr_ind = stream.hdr_ind
  BY <1>5, StreamFieldNames, Zenon DEF Fields
<1>10. stream.s_near \in Nat /\ stream.s_same \in Nat /\ stream.cpyoff \in Nat
  BY WindowParts DEF Valued
<1> QED
  BY <1>5, <1>6, <1>7, <1>8, <1>9, <1>10, QuietFits DEF Core

LEMMA DecAddrLenFits == ASSUME WindowInv, DedeltaInv', DecAddrLen, UNCHANGED files PROVE WindowInv'
<1> DEFINE r == DecodeInteger(stream.part32, Remaining, Word)
           s == [stream EXCEPT !.part32 = r.part]
           x == [stream.addr_sect EXCEPT !.size = r.val]
<1>1. /\ DedeltaInv /\ HeaderMoves /\ IsStream(stream) /\ FileInv /\ stream.part32 \in Nat
      /\ IsSection(stream.addr_sect)
  BY WindowParts, Parts, DecAddrLenMoves, SectionsAre DEF StreamTypes
<1>2. r.ret # "XD3_OUTPUT"
  BY <1>1, DigitsAnswer
<1> HIDE DEF r
<1>3. At(s, "DEC_CKSUM").addr_sect = stream.addr_sect /\ IsStream(At(s, "DEC_CKSUM"))
  BY <1>1, StreamFieldNames, ZenonT(30) DEF IsStream, At
<1>4. /\ stream.dec_state = "DEC_ADDRLEN" /\ source' = source /\ ret = "calling"
      /\ ret' # "XD3_OUTPUT"
      /\ \/ stream' = s
         \/ stream' = [At(s, "DEC_CKSUM") EXCEPT !["addr_sect"] = [@ EXCEPT !.size = r.val]]
  BY <1>2 DEF DecAddrLen, SectionSizeCase, NumberCase, DecodeNumber, Case, Return, Goto, r, s
<1>5. /\ Fields(stream', {"dec_state", "part32", "addr_sect"}) /\ stream'.dec_state \in {"DEC_ADDRLEN", "DEC_CKSUM"}
      /\ stream'.addr_sect = stream.addr_sect \/ stream'.addr_sect = x
  <2>1. CASE stream' = s
    BY <1>1, <1>4, <2>1, StreamFieldNames, ZenonT(30) DEF Fields, IsStream
  <2>2. CASE stream' # s
    <3>1. stream' = [At(s, "DEC_CKSUM") EXCEPT !.addr_sect = x]
      BY <1>3, <1>4, <2>2
    <3> HIDE DEF x
    <3> QED
      BY <1>1, <3>1, StreamFieldNames, ZenonT(30) DEF Fields, IsStream, At
  <2> QED
    BY <2>1, <2>2
<1>6. Onward(stream.dec_state, stream'.dec_state)
  BY <1>4, <1>5 DEF Onward, TableStates, WindowStates, StartStates, EndStates, ReadOrEmit, ReadStates
<1>7. InHeader
  BY <1>1, <1>4 DEF InHeader
<1>8. \A g \in Sections : stream'[g].read = stream[g].read
  <2>1. x.read = stream.addr_sect.read
    BY <1>1, SectionFieldNames, Zenon DEF IsSection
  <2> HIDE DEF x
  <2>2. \A g \in Sections : g # "addr_sect" => stream'[g] = stream[g]
    BY <1>5, StreamFieldNames, SectionsAre, Zenon DEF Fields
  <2> QED
    BY <1>5, <2>1, <2>2
<1> HIDE DEF x
<1>9. /\ stream'.s_near = stream.s_near /\ stream'.s_same = stream.s_same
      /\ stream'.cpyoff = stream.cpyoff /\ stream'.hdr_ind = stream.hdr_ind
  BY <1>5, StreamFieldNames, Zenon DEF Fields
<1>10. stream.s_near \in Nat /\ stream.s_same \in Nat /\ stream.cpyoff \in Nat
  BY WindowParts DEF Valued
<1> QED
  BY <1>5, <1>6, <1>7, <1>8, <1>9, <1>10, QuietFits DEF Core

(* The steps that make something ready. *)
LEMMA NewCache ==
  ASSUME NEW near \in Nat, NEW same \in Nat
  PROVE  IsCache(InitCache(near, same), near, same)
  BY DEF IsCache, InitCache

LEMMA EquippedKept ==
  ASSUME Equipped(stream), NEW changed, Fields(stream', changed),
         changed \cap {"hdr_ind", "codetbl", "s_near", "s_same", "acache"} = {},
         TableKnown(stream') => TableKnown(stream),
         stream'.dec_state \in WindowStates => stream.dec_state \in WindowStates
  PROVE  Equipped(stream')
<1>1. /\ stream'.codetbl = stream.codetbl /\ stream'.acache = stream.acache
      /\ stream'.hdr_ind = stream.hdr_ind /\ stream'.s_near = stream.s_near
      /\ stream'.s_same = stream.s_same
  BY StreamFieldNames, Zenon DEF Fields
<1>2. TableIn(stream') = TableIn(stream) /\ Modes(stream') = Modes(stream)
  BY <1>1 DEF TableIn, Modes
<1> QED
  BY <1>1, <1>2 DEF Equipped

LEMMA TableStringType == ASSUME NEW data PROVE TableString(data) \in Seq(0..255)
  BY TablesAssumption DEF TableString

LEMMA DecTabDatFits == ASSUME WindowInv, DedeltaInv', DecTabDat, UNCHANGED files PROVE WindowInv'
<1> DEFINE b == stream.codetbl \o SubSeq(ibuf, at + 1, at + Min({stream.codetblsz - Len(stream.codetbl), AvailIn}))
           s == [stream EXCEPT !.codetbl = b]
           modes == 2 + stream.s_near + stream.s_same
           near == Rfc3284Desc.near_modes
           same == Rfc3284Desc.same_modes
<1>1. DedeltaInv /\ HeaderMoves /\ IsStream(stream)
  BY WindowParts, Parts, DecTabDatMoves DEF StreamTypes
<1> HIDE DEF b, near, same
<1>2. /\ s.codetbl = b /\ s.s_near = stream.s_near /\ s.s_same = stream.s_same
  BY <1>1, StreamFieldNames, Zenon DEF IsStream
<1>3. /\ stream.dec_state = "DEC_TABDAT" /\ source' = source /\ ret = "calling"
      /\ ret' # "XD3_OUTPUT"
      /\ \/ stream' = s
         \/ /\ HasTable /\ stream' = At(s, "DEC_APPLEN")
            /\ Len(TableString(b)) = 6 * 256 /\ TableStringValid(TableString(b), modes)
         \/ ~HasTable /\ stream' = [At(stream, "DEC_APPLEN") EXCEPT !.s_near = near, !.s_same = same]
  <2> DEFINE Ready(t) == /\ Len(TableString(t.codetbl)) = 6 * 256
                         /\ TableStringValid(TableString(t.codetbl), 2 + t.s_near + t.s_same)
  <2>1. /\ stream.dec_state = "DEC_TABDAT" /\ source' = source /\ ret = "calling"
        /\ ret' # "XD3_OUTPUT"
        /\ \/ stream' = s
           \/ HasTable /\ stream' = At(s, "DEC_APPLEN") /\ Ready(s)
           \/ ~HasTable /\ stream' = [At(stream, "DEC_APPLEN") EXCEPT !.s_near = near, !.s_same = same]
    BY DEF DecTabDat, DecodeBytes, Case, Return, Goto, b, s, near, same
  <2>2. Ready(s) => Len(TableString(b)) = 6 * 256 /\ TableStringValid(TableString(b), modes)
    BY <1>2, Zenon
  <2> QED
    BY <2>1, <2>2
<1> DEFINE Changed == {"dec_state", "codetbl", "s_near", "s_same"}
<1>4. /\ Fields(stream', Changed)
      /\ \/ /\ stream'.dec_state = "DEC_TABDAT"
            /\ stream'.s_near = stream.s_near /\ stream'.s_same = stream.s_same
         \/ /\ HasTable /\ stream'.dec_state = "DEC_APPLEN" /\ stream'.codetbl = b
            /\ stream'.s_near = stream.s_near /\ stream'.s_same = stream.s_same
            /\ Len(TableString(b)) = 6 * 256 /\ TableStringValid(TableString(b), modes)
         \/ /\ ~HasTable /\ stream'.dec_state = "DEC_APPLEN"
            /\ stream'.s_near = near /\ stream'.s_same = same
  <2> HIDE DEF modes
  <2>1. CASE stream' = s
    BY <1>1, <1>3, <2>1, StreamFieldNames, ZenonT(30) DEF Fields, IsStream
  <2>2. CASE HasTable /\ stream' = At(s, "DEC_APPLEN")
                /\ Len(TableString(b)) = 6 * 256 /\ TableStringValid(TableString(b), modes)
    <3>1. /\ Fields(stream', Changed) /\ stream'.dec_state = "DEC_APPLEN" /\ stream'.codetbl = b
          /\ stream'.s_near = stream.s_near /\ stream'.s_same = stream.s_same
      BY <1>1, <2>2, StreamFieldNames, ZenonT(30) DEF Fields, IsStream, At
    <3> QED
      BY <2>2, <3>1
  <2>3. CASE ~HasTable /\ stream' = [At(stream, "DEC_APPLEN") EXCEPT !.s_near = near, !.s_same = same]
    <3>1. /\ Fields(stream', Changed) /\ stream'.dec_state = "DEC_APPLEN"
          /\ stream'.s_near = near /\ stream'.s_same = same
      BY <1>1, <2>3, StreamFieldNames, ZenonT(30) DEF Fields, IsStream, At
    <3> QED
      BY <2>3, <3>1
  <2> QED
    BY <1>3, <2>1, <2>2, <2>3
<1>5. InHeader
  BY <1>1, <1>3 DEF InHeader
<1>6. near = 4 /\ same = 3
  BY DEF near, same, Rfc3284Desc
<1>7. Valued(stream) /\ stream.s_near \in Nat /\ stream.s_same \in Nat
  BY WindowParts DEF Valued
<1>8. /\ stream'.cpylen = stream.cpylen /\ stream'.cpyoff = stream.cpyoff
      /\ stream'.tgtlen = stream.tgtlen /\ stream'.maxpos = stream.maxpos
      /\ stream'.position = stream.position /\ stream'.space_out = stream.space_out
      /\ stream'.out = stream.out /\ stream'.current1 = stream.current1
      /\ stream'.current2 = stream.current2 /\ stream'.data_sect = stream.data_sect
      /\ stream'.inst_sect = stream.inst_sect /\ stream'.addr_sect = stream.addr_sect
      /\ stream'.hdr_ind = stream.hdr_ind
  BY <1>4, StreamFieldNames, Zenon DEF Fields
<1>9. Valued(stream')
  <2>1. \A h \in Halves : stream'[h] = stream[h]
    BY <1>8 DEF Halves
  <2>2. \A f \in Sections : stream'[f] = stream[f]
    BY <1>8, SectionsAre
  <2>3. stream'.s_near \in Nat /\ stream'.s_same \in Nat
    BY <1>4, <1>6, <1>7
  <2> QED
    BY <1>7, <1>8, <2>1, <2>2, <2>3 DEF Valued
<1>10. stream'.dec_state \notin WindowStates
  BY <1>4 DEF WindowStates, StartStates, EndStates, ReadOrEmit, ReadStates
<1>11. Equipped(stream')
  <2>1. CASE stream'.dec_state = "DEC_TABDAT"
    BY <1>10, <2>1, SMTT(20) DEF Equipped, TableKnown
  <2>2. CASE /\ HasTable /\ stream'.codetbl = b
             /\ stream'.s_near = stream.s_near /\ stream'.s_same = stream.s_same
             /\ Len(TableString(b)) = 6 * 256 /\ TableStringValid(TableString(b), modes)
    <3>1. PICK str \in Seq(0..255) : str = TableString(b)
      BY TableStringType
    <3>2. PICK m \in Nat : m = modes
      BY <1>7
    <3>3. 2 <= m /\ TableStringValid(str, m) /\ 0..255 \subseteq Nat
      BY <1>7, <2>2, <3>1, <3>2
    <3>4. PICK n \in Nat : n = 6 * 256
      OBVIOUS
    <3>5. n = Len(str)
      BY <2>2, <3>1, <3>4
    <3>6. \A code \in 0..255 : IsOpcode(ApplyTableString(str)[code], m)
      BY <3>3, <3>4, <3>5, OtherTable
    <3>7. TableIn(stream') = ApplyTableString(str) /\ Modes(stream') = m
      BY <1>8, <2>2, <3>1, <3>2, SMTT(20) DEF TableIn, Modes, HasTable
    <3> QED
      BY <1>10, <3>6, <3>7 DEF Equipped
  <2>3. CASE ~HasTable /\ stream'.s_near = near /\ stream'.s_same = same
    <3>1. TableIn(stream') = Rfc3284Table /\ Modes(stream') = 9
      BY <1>6, <1>8, <2>3 DEF TableIn, Modes, HasTable
    <3> QED
      BY <1>10, <3>1, DefaultTable DEF Equipped
  <2> QED
    BY <1>4, <2>1, <2>2, <2>3, SMTT(20)
<1>12. Planned(stream')
  BY <1>10 DEF Planned, WindowStates, StartStates, EndStates, ReadOrEmit
<1> QED
  BY <1>4, <1>5, <1>9, <1>11, <1>12, HeaderFits

LEMMA DecWinIndFits == ASSUME WindowInv, DedeltaInv', DecWinInd, UNCHANGED files PROVE WindowInv'
<1> DEFINE b == ibuf[at + 1]
           s == [stream EXCEPT !.win_ind = b, !.current_window = stream.window_count,
                               !.winstart = @ + stream.tgtlen]
           Changed == {"dec_state", "win_ind", "current_window", "winstart", "cpylen", "cpyoff",
                       "cksum", "acache"}
<1>1. DedeltaInv /\ HeaderMoves /\ IsStream(stream)
  BY WindowParts, Parts, DecWinIndMoves DEF StreamTypes
<1>2. /\ stream.dec_state = "DEC_WININD" /\ source' = source /\ ret = "calling"
      /\ ret' # "XD3_OUTPUT"
      /\ \/ stream' = stream
         \/ stream' = s
         \/ stream' = InitWindow(At(s, "DEC_CPYLEN"))
  BY DEF DecWinInd, DecodeByte, Case, Return, Goto, Refuse
<1>3. /\ Fields(stream', Changed)
      /\ \/ /\ stream'.dec_state = "DEC_WININD"
            /\ stream'.cpylen = stream.cpylen /\ stream'.cpyoff = stream.cpyoff
         \/ /\ stream'.dec_state = "DEC_CPYLEN" /\ stream'.cpylen = 0 /\ stream'.cpyoff = 0
            /\ stream'.acache = InitCache(stream.s_near, stream.s_same)
  <2> HIDE DEF b
  <2>1. CASE stream' = stream
    BY <1>1, <1>2, <2>1 DEF Fields
  <2>2. CASE stream' = s
    BY <1>1, <1>2, <2>2, StreamFieldNames, ZenonT(30) DEF Fields, IsStream
  <2>3. CASE stream' = InitWindow(At(s, "DEC_CPYLEN"))
    <3>1. IsStream(s) /\ Fields(s, Changed)
      BY <1>1, StreamFieldNames, ZenonT(30) DEF Fields, IsStream
    <3> DEFINE t == At(s, "DEC_CPYLEN")
    <3> HIDE DEF s
    <3>2. IsStream(t) /\ Fields(t, Changed) /\ t.dec_state = "DEC_CPYLEN"
      BY <3>1, StreamFieldNames, SMTT(30) DEF Fields, IsStream, At
    <3> HIDE DEF t
    <3>3. PICK c : c = InitCache(t.s_near, t.s_same)
      OBVIOUS
    <3>4. stream' = [t EXCEPT !.cpylen = 0, !.cpyoff = 0, !.cksum = <<>>, !.acache = c]
      BY <2>3, <3>3 DEF InitWindow, t
    <3>5. /\ Fields(stream', Changed) /\ stream'.dec_state = "DEC_CPYLEN"
          /\ stream'.cpylen = 0 /\ stream'.cpyoff = 0 /\ stream'.acache = c
      BY <3>2, <3>4, StreamFieldNames, ZenonT(30) DEF Fields, IsStream
    <3>6. t.s_near = stream.s_near /\ t.s_same = stream.s_same
      BY <3>2, StreamFieldNames, Zenon DEF Fields
    <3> QED
      BY <3>3, <3>5, <3>6
  <2> QED
    BY <1>2, <2>1, <2>2, <2>3
<1>4. InHeader
  BY <1>1, <1>2 DEF InHeader
<1>5. /\ stream'.tgtlen = stream.tgtlen /\ stream'.maxpos = stream.maxpos
      /\ stream'.position = stream.position /\ stream'.space_out = stream.space_out
      /\ stream'.out = stream.out /\ stream'.current1 = stream.current1
      /\ stream'.current2 = stream.current2 /\ stream'.data_sect = stream.data_sect
      /\ stream'.inst_sect = stream.inst_sect /\ stream'.addr_sect = stream.addr_sect
      /\ stream'.s_near = stream.s_near /\ stream'.s_same = stream.s_same
      /\ stream'.hdr_ind = stream.hdr_ind /\ stream'.codetbl = stream.codetbl
  BY <1>3, StreamFieldNames, ZenonT(40) DEF Fields
<1>6. Valued(stream) /\ Equipped(stream)
  BY WindowParts
<1>7. Valued(stream')
  <2>1. \A h \in Halves : stream'[h] = stream[h]
    BY <1>5 DEF Halves
  <2>2. \A f \in Sections : stream'[f] = stream[f]
    BY <1>5, SectionsAre
  <2>3. stream'.cpylen \in Nat /\ stream'.cpyoff \in Nat
    BY <1>3, <1>6, SMTT(20) DEF Valued
  <2> QED
    BY <1>5, <1>6, <2>1, <2>2, <2>3 DEF Valued
<1>8. Equipped(stream')
  <2>1. TableIn(stream') = TableIn(stream) /\ Modes(stream') = Modes(stream)
    BY <1>5 DEF TableIn, Modes
  <2>2. TableKnown(stream)
    BY <1>2 DEF TableKnown, TableStates
  <2>3. stream'.dec_state \in WindowStates => stream'.acache = InitCache(stream.s_near, stream.s_same)
    BY <1>3 DEF WindowStates, StartStates, EndStates, ReadOrEmit, ReadStates
  <2>4. IsCache(InitCache(stream.s_near, stream.s_same), stream.s_near, stream.s_same)
    BY <1>6, NewCache DEF Valued
  <2> QED
    BY <1>5, <1>6, <2>1, <2>2, <2>3, <2>4 DEF Equipped
<1>9. Planned(stream')
  BY <1>3 DEF Planned, StartStates, EndStates, ReadOrEmit, ReadStates
<1> QED
  BY <1>3, <1>4, <1>7, <1>8, <1>9, HeaderFits

LEMMA DecCpyLenFits == ASSUME WindowInv, DedeltaInv', DecCpyLen, UNCHANGED files PROVE WindowInv'
<1> DEFINE r == DecodeInteger(stream.part32, Remaining, Word)
           s == [stream EXCEPT !.part32 = r.part]
           n == stream.cpylen
<1>1. DedeltaInv /\ HeaderMoves /\ IsStream(stream) /\ FileInv /\ stream.part32 \in Nat
  BY WindowParts, Parts, DecCpyLenMoves DEF StreamTypes
<1>2. r.part \in Nat /\ (r.ret = "ok" => r.val \in Nat) /\ r.ret # "XD3_OUTPUT"
  BY <1>1, DigitsAnswer
<1> HIDE DEF r, n
<1>3. /\ stream.dec_state = "DEC_CPYLEN" /\ source' = source /\ ret = "calling"
      /\ ret' # "XD3_OUTPUT"
      /\ \/ stream' = s
         \/ stream' = [At(s, "DEC_CPYOFF") EXCEPT !.cpylen = r.val, !.position = r.val] /\ r.ret = "ok"
         \/ stream' = [At(stream, "DEC_CPYOFF") EXCEPT !.position = n]
  BY <1>2 DEF DecCpyLen, NumberCase, DecodeNumber, Case, Return, Goto, r, s, n
<1>4. /\ Fields(stream', {"dec_state", "part32", "cpylen", "position"})
      /\ \/ /\ stream'.dec_state = "DEC_CPYLEN"
            /\ stream'.cpylen = stream.cpylen /\ stream'.position = stream.position
         \/ /\ stream'.dec_state = "DEC_CPYOFF" /\ r.ret = "ok"
            /\ stream'.cpylen = r.val /\ stream'.position = r.val
         \/ /\ stream'.dec_state = "DEC_CPYOFF"
            /\ stream'.cpylen = stream.cpylen /\ stream'.position = n
  <2>1. CASE stream' = s
    BY <1>1, <1>3, <2>1, StreamFieldNames, ZenonT(30) DEF Fields, IsStream
  <2>2. CASE stream' = [At(s, "DEC_CPYOFF") EXCEPT !.cpylen = r.val, !.position = r.val] /\ r.ret = "ok"
    <3>1. /\ Fields(stream', {"dec_state", "part32", "cpylen", "position"})
          /\ stream'.dec_state = "DEC_CPYOFF" /\ stream'.cpylen = r.val /\ stream'.position = r.val
      BY <1>1, <2>2, StreamFieldNames, ZenonT(30) DEF Fields, IsStream, At
    <3> QED
      BY <2>2, <3>1
  <2>3. CASE stream' = [At(stream, "DEC_CPYOFF") EXCEPT !.position = n]
    BY <1>1, <2>3, StreamFieldNames, ZenonT(30) DEF Fields, IsStream, At
  <2> QED
    BY <1>3, <2>1, <2>2, <2>3
<1>5. InHeader
  BY <1>1, <1>3 DEF InHeader
<1>6. /\ stream'.tgtlen = stream.tgtlen /\ stream'.maxpos = stream.maxpos
      /\ stream'.cpyoff = stream.cpyoff /\ stream'.space_out = stream.space_out
      /\ stream'.out = stream.out /\ stream'.current1 = stream.current1
      /\ stream'.current2 = stream.current2 /\ stream'.data_sect = stream.data_sect
      /\ stream'.inst_sect = stream.inst_sect /\ stream'.addr_sect = stream.addr_sect
      /\ stream'.s_near = stream.s_near /\ stream'.s_same = stream.s_same
  BY <1>4, StreamFieldNames, Zenon DEF Fields
<1>7. Valued(stream) /\ Equipped(stream)
  BY WindowParts
<1>8. Valued(stream')
  <2>1. \A h \in Halves : stream'[h] = stream[h]
    BY <1>6 DEF Halves
  <2>2. \A f \in Sections : stream'[f] = stream[f]
    BY <1>6, SectionsAre
  <2>3. stream'.cpylen \in Nat /\ stream'.position \in Nat
    BY <1>2, <1>4, <1>7 DEF Valued, n
  <2> QED
    BY <1>6, <1>7, <2>1, <2>2, <2>3 DEF Valued
<1>9. Equipped(stream')
  <2>1. TableKnown(stream) /\ stream.dec_state \in WindowStates
    BY <1>3 DEF TableKnown, TableStates, WindowStates
  <2> QED
    BY <1>4, <1>7, <2>1, EquippedKept
<1>10. Planned(stream')
  BY <1>4 DEF Planned, StartStates, EndStates, ReadOrEmit, ReadStates, n
<1> QED
  BY <1>4, <1>5, <1>8, <1>9, <1>10, HeaderFits

LEMMA DecTgtLenFits == ASSUME WindowInv, DedeltaInv', DecTgtLen, UNCHANGED files PROVE WindowInv'
<1> DEFINE r == DecodeInteger(stream.part32, Remaining, Word)
           s == [stream EXCEPT !.part32 = r.part]
           end == stream.cpylen + r.val
<1>1. DedeltaInv /\ HeaderMoves /\ IsStream(stream) /\ FileInv /\ stream.part32 \in Nat
  BY WindowParts, Parts, DecTgtLenMoves DEF StreamTypes
<1>2. r.part \in Nat /\ (r.ret = "ok" => r.val \in Nat) /\ r.ret # "XD3_OUTPUT"
  BY <1>1, DigitsAnswer
<1> HIDE DEF r
<1>3. s.cpylen = stream.cpylen
  BY <1>1, StreamFieldNames, Zenon DEF IsStream
<1>4. /\ stream.dec_state = "DEC_TGTLEN" /\ source' = source /\ ret = "calling"
      /\ ret' # "XD3_OUTPUT"
      /\ \/ stream' = s
         \/ stream' = [s EXCEPT !.tgtlen = r.val] /\ r.ret = "ok"
         \/ stream' = [At(s, "DEC_DELIND") EXCEPT !.tgtlen = r.val, !.maxpos = end] /\ r.ret = "ok"
            /\ ~(r.val > HardMaxWinsize)
  BY <1>2, <1>3 DEF DecTgtLen, NumberCase, DecodeNumber, Case, Return, Goto, r, s
<1> HIDE DEF end
<1>5. /\ Fields(stream', {"dec_state", "part32", "tgtlen", "maxpos"})
      /\ \/ /\ stream'.dec_state = "DEC_TGTLEN"
            /\ stream'.tgtlen = stream.tgtlen /\ stream'.maxpos = stream.maxpos
         \/ /\ stream'.dec_state = "DEC_TGTLEN" /\ r.ret = "ok"
            /\ stream'.tgtlen = r.val /\ stream'.maxpos = stream.maxpos
         \/ /\ stream'.dec_state = "DEC_DELIND" /\ r.ret = "ok"
            /\ stream'.tgtlen = r.val /\ stream'.maxpos = end /\ ~(r.val > HardMaxWinsize)
  <2>1. CASE stream' = s
    BY <1>1, <1>4, <2>1, StreamFieldNames, ZenonT(30) DEF Fields, IsStream
  <2>2. CASE stream' = [s EXCEPT !.tgtlen = r.val] /\ r.ret = "ok"
    <3>1. /\ Fields(stream', {"dec_state", "part32", "tgtlen", "maxpos"})
          /\ stream'.dec_state = "DEC_TGTLEN" /\ stream'.tgtlen = r.val
          /\ stream'.maxpos = stream.maxpos
      BY <1>1, <1>4, <2>2, StreamFieldNames, ZenonT(30) DEF Fields, IsStream
    <3> QED
      BY <2>2, <3>1
  <2>3. CASE stream' = [At(s, "DEC_DELIND") EXCEPT !.tgtlen = r.val, !.maxpos = end]
             /\ r.ret = "ok" /\ ~(r.val > HardMaxWinsize)
    <3>1. /\ Fields(stream', {"dec_state", "part32", "tgtlen", "maxpos"})
          /\ stream'.dec_state = "DEC_DELIND" /\ stream'.tgtlen = r.val /\ stream'.maxpos = end
      BY <1>1, <2>3, StreamFieldNames, ZenonT(30) DEF Fields, IsStream, At
    <3> QED
      BY <2>3, <3>1
  <2> QED
    BY <1>4, <2>1, <2>2, <2>3
<1>6. InHeader
  BY <1>1, <1>4 DEF InHeader
<1>7. /\ stream'.cpylen = stream.cpylen /\ stream'.position = stream.position
      /\ stream'.cpyoff = stream.cpyoff /\ stream'.space_out = stream.space_out
      /\ stream'.out = stream.out /\ stream'.current1 = stream.current1
      /\ stream'.current2 = stream.current2 /\ stream'.data_sect = stream.data_sect
      /\ stream'.inst_sect = stream.inst_sect /\ stream'.addr_sect = stream.addr_sect
      /\ stream'.s_near = stream.s_near /\ stream'.s_same = stream.s_same
  BY <1>5, StreamFieldNames, Zenon DEF Fields
<1>8. Valued(stream) /\ Equipped(stream) /\ Planned(stream)
  BY WindowParts
<1>9. Valued(stream')
  <2>1. \A h \in Halves : stream'[h] = stream[h]
    BY <1>7 DEF Halves
  <2>2. \A f \in Sections : stream'[f] = stream[f]
    BY <1>7, SectionsAre
  <2>3. stream'.tgtlen \in Nat /\ stream'.maxpos \in Nat
    BY <1>2, <1>5, <1>8, SMTT(20) DEF Valued, end
  <2> QED
    BY <1>7, <1>8, <2>1, <2>2, <2>3 DEF Valued
<1>10. Equipped(stream')
  <2>1. TableKnown(stream) /\ stream.dec_state \in WindowStates
    BY <1>4 DEF TableKnown, TableStates, WindowStates, StartStates
  <2> QED
    BY <1>5, <1>8, <2>1, EquippedKept
<1>11. Planned(stream')
  <2>1. stream'.position = stream'.cpylen
    BY <1>4, <1>7, <1>8 DEF Planned, StartStates
  <2>2. stream'.dec_state # "DEC_EMIT"
    BY <1>5
  <2>3. stream'.dec_state \in EndStates => stream'.maxpos = stream'.cpylen + stream'.tgtlen
    BY <1>5, <1>7 DEF EndStates, ReadOrEmit, ReadStates, end
  <2>4. stream'.dec_state \in EndStates => stream'.tgtlen <= HardMaxWinsize
    <3>1. HardMaxWinsize \in Nat
      BY DecoderAssumption
    <3> QED
      BY <1>2, <1>5, <3>1 DEF EndStates, ReadOrEmit, ReadStates
  <2> QED
    BY <2>1, <2>2, <2>3, <2>4 DEF Planned
<1> QED
  BY <1>5, <1>6, <1>9, <1>10, <1>11, HeaderFits


-----------------------------------------------------------------------------
(* The sections: the last of them brings the window's buffer. *)

(* What a size is rounded up to. *)
LEMMA Rounded ==
  ASSUME NEW size \in Nat
  PROVE  /\ RoundBlksize(size, AllocSize) \in Nat
         /\ size + AllocSize <= Word => size <= RoundBlksize(size, AllocSize)
<1>1. AllocSize \in Nat \ {0} /\ Word \in Nat \ {0}
  BY DecoderAssumption, WordAssumption, BaseAssumption
<1>2. size % AllocSize \in 0..AllocSize - 1
  BY <1>1, SMT
<1>3. PICK k \in 0..AllocSize - 1 : k = size % AllocSize
  BY <1>2
<1>4. PICK n \in Nat : n = size + (AllocSize - k)
  <2>1. size + (AllocSize - k) \in Nat
    BY <1>1, <1>3, SMT
  <2> QED
    BY <2>1
<1>5. RoundBlksize(size, AllocSize) = IF k = 0 THEN size ELSE n % Word
  BY <1>3, <1>4 DEF RoundBlksize
<1>6. n % Word \in Nat
  BY <1>1, SMT
<1>7. CASE k = 0
  BY <1>5, <1>7
<1>8. CASE k # 0 /\ size + AllocSize <= Word
  <2>1. n < Word /\ size <= n
    BY <1>1, <1>3, <1>4, <1>8, SMT
  <2>2. n % Word = n
    BY <1>1, <2>1, SMT
  <2> QED
    BY <1>5, <1>8, <2>1, <2>2
<1>9. CASE k # 0 /\ ~(size + AllocSize <= Word)
  BY <1>5, <1>6, <1>9
<1> QED
  BY <1>7, <1>8, <1>9

LEMMA AllocatedAmple ==
  ASSUME NEW have \in Nat, NEW size \in Nat
  PROVE  size <= Allocated(have, size) \/ size + AllocSize > Word
<1>1. AllocSize \in Nat /\ Word \in Nat
  BY DecoderAssumption, WordAssumption, BaseAssumption
<1>2. CASE have < size
  BY <1>1, <1>2, Rounded DEF Allocated
<1>3. CASE ~(have < size)
  BY <1>3 DEF Allocated
<1> QED
  BY <1>2, <1>3

(* The window's buffer, when there is one, is large enough. *)
LEMMA SetUpFits ==
  ASSUME ret = "calling", NEW s, IsStream(s), s.tgtlen \in Nat, s.tgtlen <= HardMaxWinsize,
         s.space_out \in Nat, s.next_out = NULL => s.space_out = 0, SetupBuffers(s)
  PROVE  /\ ret' = "calling" \/ ret' = "XD3_INVALID_INPUT"
         /\ stream'.space_out \in Nat /\ (stream'.next_out = NULL => stream'.space_out = 0)
         /\ ret' = "calling" => s.tgtlen <= stream'.space_out
<1>1. CASE Return(s, "XD3_INVALID_INPUT")
  BY <1>1 DEF Return
<1>2. PICK u : u = OwnBuffer(s)
  OBVIOUS
<1>3. /\ IsStream(u) /\ u.tgtlen = s.tgtlen /\ u.space_out \in Nat
      /\ u.next_out = NULL => u.space_out = 0
  <2>1. CASE u = s
    BY <2>1
  <2>2. CASE u = [s EXCEPT !.next_out = NULL, !.space_out = 0]
    <3>1. IsStream(u) /\ u.tgtlen = s.tgtlen
      BY <2>2, StreamFieldNames, ZenonT(30) DEF IsStream
    <3>2. u.space_out = 0
      BY <2>2, StreamFieldNames, ZenonT(30) DEF IsStream
    <3> QED
      BY <3>1, <3>2
  <2> QED
    BY <1>2, <2>1, <2>2 DEF OwnBuffer
<1>4. CASE u.space_out < u.tgtlen /\ \E b \in Addresses(u) : Goto(NewBuffer(u, b))
  <2>1. PICK b \in Addresses(u) : stream' = NewBuffer(u, b) /\ ret' = ret
    BY <1>4 DEF Goto
  <2>2. b # NULL
    BY DEF Addresses, NULL
  <2>3. PICK z : z = RoundBlksize(s.tgtlen, AllocSize)
    OBVIOUS
  <2>4. z \in Nat /\ s.tgtlen <= z
    <3>1. AllocSize \in Nat /\ HardMaxWinsize \in Nat /\ Word \in Nat /\ HardMaxWinsize + AllocSize <= Word
      BY DecoderAssumption, WordAssumption, BaseAssumption
    <3>2. s.tgtlen + AllocSize <= Word
      BY <3>1
    <3> QED
      BY <2>3, <3>2, Rounded
  <2>5. stream' = [u EXCEPT !.dec_buffer = b, !.dec_alloc = z, !.next_out = b, !.space_out = z]
    BY <1>3, <2>1, <2>3 DEF NewBuffer
  <2>6. stream'.next_out = b /\ stream'.space_out = z
    BY <1>3, <2>5, StreamFieldNames, ZenonT(30) DEF IsStream
  <2> QED
    BY <2>1, <2>2, <2>4, <2>6
<1>5. CASE ~(u.space_out < u.tgtlen) /\ Goto(u)
  BY <1>3, <1>5 DEF Goto
<1> QED
  BY <1>1, <1>2, <1>4, <1>5 DEF SetupBuffers, LargeEnough

LEMMA SectionBrings ==
  ASSUME WindowInv, NEW f \in Sections, DecSection(Turn(f), f, NextOf(f))
  PROVE  /\ source' = source /\ ret = "calling"
         /\ \/ stream' = stream /\ ret' = "undefined"
            \/ /\ ret' = "calling" \/ ret' = "XD3_INPUT" \/ ret' = "XD3_INVALID_INPUT"
               /\ stream'[f].read \in Nat /\ (stream'[f].pos # 0 => Ample(stream'[f]))
               /\ stream'.space_out \in Nat /\ (stream'.next_out = NULL => stream'.space_out = 0)
               /\ stream'.dec_state = "DEC_EMIT" /\ ret' \in Going => stream.tgtlen <= stream'.space_out
<1> DEFINE sect == stream[f]
           inPlace == InPlace(sect)
           take == IF inPlace THEN sect.size ELSE Min({sect.size - sect.pos, AvailIn})
           new == IF sect.size = sect.pos THEN sect
                  ELSE IF inPlace THEN [sect EXCEPT !.ref = at, !.copied = <<>>]
                  ELSE [sect EXCEPT !.ref = -1,
                          !.alloc1 = IF sect.pos = 0 THEN Allocated(@, sect.size) ELSE @,
                          !.copied = (IF sect.pos = 0 THEN <<>> ELSE @)
                                       \o SubSeq(ibuf, at + 1, at + take)]
           got == [stream EXCEPT ![f] = [new EXCEPT !.pos = @ + take], !.winbytes = @ + take]
           done == [At(stream, NextOf(f)) EXCEPT
                      ![f] = [new EXCEPT !.pos = 0, !.read = 0], !.winbytes = @ + take]
           within == take <= AvailIn /\ (inPlace \/ sect.pos + take <= new.alloc1)
           alloc == IF sect.pos = 0 THEN Allocated(sect.alloc1, sect.size) ELSE sect.alloc1
<1>1. /\ stream.dec_state = Turn(f) /\ ret = "calling" /\ source' = source /\ StreamTypes
      /\ Valued(stream) /\ SpareInv /\ Planned(stream)
  BY WindowParts, Parts DEF DecSection, Case
<1>2. \/ stream' = stream /\ ret' = "undefined"
      \/ stream' = stream /\ ret' = "XD3_INPUT"
      \/ stream' = got /\ ret' = "XD3_INPUT" /\ sect.pos + take < sect.size
      \/ stream' = done /\ NextOf(f) # "DEC_EMIT" /\ ret' = "calling"
      \/ SetupBuffers(done)
  <2>1. "XD3_SKIP_EMIT" \notin stream.flags
    BY <1>1 DEF StreamTypes
  <2>2. Goto(done) => stream' = done /\ ret' = "calling"
    <3> HIDE DEF done
    <3> QED
      BY <1>1 DEF Goto
  <2> HIDE DEF done, got, take, within
  <2> QED
    BY <2>1, <2>2, Zenon DEF DecSection, Return, Undefined, done, got, take, within
<1>3. /\ IsSection(sect) /\ sect.read \in Nat /\ sect.size \in Nat /\ sect.pos \in Nat
      /\ sect.alloc1 \in Nat
  BY <1>1 DEF StreamTypes, Valued, IsSection
<1>4. new.read = sect.read /\ new.size = sect.size
  <2> HIDE DEF take, inPlace
  <2> QED
    BY <1>3, SectionFieldNames DEF IsSection
<1>5. \/ new = sect
      \/ new = [sect EXCEPT !.ref = at, !.copied = <<>>]
      \/ \E a, c : new = [sect EXCEPT !.ref = -1, !.alloc1 = a, !.copied = c]
  <2> HIDE DEF take, inPlace, sect
  <2> QED
    BY Zenon
<1>6. new = [g \in SectionFields |-> new[g]]
  <2>1. ASSUME NEW a, NEW c, new = [sect EXCEPT !.ref = -1, !.alloc1 = a, !.copied = c]
        PROVE  new = [g \in SectionFields |-> new[g]]
    <3> HIDE DEF new, sect
    <3> QED
      BY <1>3, <2>1, SectionFieldNames DEF IsSection
  <2> HIDE DEF new, sect
  <2> QED
    BY <1>3, <1>5, <2>1, SectionFieldNames DEF IsSection
<1>16. sect.size # sect.pos /\ ~inPlace => new.alloc1 = alloc
  <2> HIDE DEF take, inPlace
  <2> QED
    BY <1>3, SectionFieldNames DEF IsSection
<1>17. inPlace => ~(sect.pos + take < sect.size)
  <2>1. inPlace => sect.pos = 0 /\ take = sect.size
    BY DEF InPlace
  <2> HIDE DEF take, inPlace, sect
  <2> QED
    BY <1>3, <2>1
<1>18. sect.size # sect.pos \/ ~(sect.pos + take < sect.size)
  <2>1. sect.size = sect.pos => take = 0 \/ take \in Nat
    <3>1. inPlace => take \in Nat
      BY <1>3
    <3>2. AvailIn \in Nat
      BY WindowParts, Parts, FileFacts DEF AvailIn
    <3>3. ~inPlace => take \in Nat
      <4>1. ASSUME NEW a \in Nat, NEW b \in Nat, a <= b PROVE Min({b - a, AvailIn}) \in Nat
        <5>1. PICK d \in Nat : d = b - a
          BY <4>1
        <5> QED
          BY <3>2, <5>1, Minimum
      <4>2. sect.pos <= sect.size
        BY <1>1, <1>3, WindowParts, AlsoCounted, InTurn
      <4> QED
        BY <1>3, <4>1, <4>2
    <3> QED
      BY <3>1, <3>3
  <2> HIDE DEF take, sect
  <2> QED
    BY <1>3, <2>1
<1> HIDE DEF new, take, inPlace
<1> DEFINE x == [new EXCEPT !.pos = @ + take]
           y == [new EXCEPT !.pos = 0, !.read = 0]
<1>7. x.read = new.read /\ x.size = new.size /\ x.alloc1 = new.alloc1 /\ y.read = 0 /\ y.pos = 0
  BY <1>6, SectionFieldNames, SMTT(30)
<1>8. /\ f \in StreamFields /\ f # "dec_state" /\ f # "winbytes" /\ f # "space_out" /\ f # "tgtlen"
      /\ f # "next_out" /\ "next_out" \in StreamFields
      /\ IsStream(stream) /\ "dec_state" \in StreamFields /\ "winbytes" \in StreamFields
      /\ "space_out" \in StreamFields /\ "tgtlen" \in StreamFields
  BY <1>1, SectionsAre, StreamFieldNames DEF StreamTypes
<1>9. CASE stream' = stream /\ ret' = "XD3_INPUT"
  BY <1>1, <1>3, <1>9 DEF Valued, Going, SpareInv
<1>10. CASE stream' = got /\ ret' = "XD3_INPUT" /\ sect.pos + take < sect.size
  <2>1. stream' = [stream EXCEPT ![f] = x, !.winbytes = @ + take]
    BY <1>10, Zenon
  <2>2. Ample(x)
    <3>1. x.size = sect.size /\ x.alloc1 = alloc
      <4> HIDE DEF x, alloc, sect
      <4> QED
        BY <1>4, <1>7, <1>10, <1>16, <1>17, <1>18
    <3>2. CASE sect.pos = 0
      BY <1>3, <3>1, <3>2, AllocatedAmple DEF Ample
    <3>3. CASE sect.pos # 0
      <4>1. Ample(sect)
        BY <1>1, <3>3 DEF SpareInv
      <4> HIDE DEF x
      <4> QED
        BY <3>1, <3>3, <4>1 DEF Ample
    <3> QED
      BY <3>2, <3>3
  <2> HIDE DEF x, sect
  <2>3. stream'[f] = x /\ stream'.space_out = stream.space_out /\ stream'.next_out = stream.next_out
    BY <1>8, <2>1, ZenonT(30) DEF IsStream
  <2> QED
    BY <1>1, <1>3, <1>4, <1>7, <1>10, <2>2, <2>3 DEF Valued, Going, SpareInv
<1>11. /\ IsStream(done) /\ done[f] = y /\ done.dec_state = NextOf(f) /\ done.tgtlen = stream.tgtlen
       /\ done.space_out = stream.space_out /\ done.next_out = stream.next_out
  <2>1. PICK n : n = At(stream, NextOf(f)).winbytes + take
    OBVIOUS
  <2>2. done = [At(stream, NextOf(f)) EXCEPT ![f] = y, !.winbytes = n]
    BY <2>1, Zenon
  <2> HIDE DEF done, y
  <2>3. PICK a : a = At(stream, NextOf(f))
    OBVIOUS
  <2>4. /\ IsStream(a) /\ a.dec_state = NextOf(f) /\ a.tgtlen = stream.tgtlen
        /\ a.space_out = stream.space_out /\ a.next_out = stream.next_out
    BY <1>8, <2>3, Zenon DEF At, IsStream
  <2>5. PICK d : d = [a EXCEPT ![f] = y]
    OBVIOUS
  <2>6. /\ IsStream(d) /\ d[f] = y /\ d.dec_state = a.dec_state /\ d.tgtlen = a.tgtlen
        /\ d.space_out = a.space_out /\ d.next_out = a.next_out
    <3>1. IsStream(d) /\ d[f] = y /\ \A g \in StreamFields : g # f => d[g] = a[g]
      <4>1. f \in StreamFields
        BY <1>8
      <4> QED
        BY <2>4, <2>5, <4>1 DEF IsStream
    <3> QED
      BY <1>8, <3>1
  <2>7. done = [d EXCEPT !.winbytes = n]
    BY <2>2, <2>3, <2>5
  <2> QED
    BY <1>8, <2>4, <2>6, <2>7, NewField
<1>12. 0 \in Nat
  OBVIOUS
<1> HIDE DEF done, y, got
<1>14. CASE stream' = done /\ NextOf(f) # "DEC_EMIT" /\ ret' = "calling"
  BY <1>1, <1>7, <1>11, <1>12, <1>14 DEF Valued, SpareInv
<1>15. CASE SetupBuffers(done)
  <2>1. stream'[f] = y
    <3>1. Buffered(done, stream')
      BY <1>1, <1>15, SetUp
    <3>2. f \notin BufferFields
      BY SectionsAre DEF BufferFields
    <3> QED
      BY <1>8, <1>11, <3>1, <3>2 DEF Buffered
  <2>2. stream.tgtlen \in Nat /\ stream.tgtlen <= HardMaxWinsize
    <3>1. stream.dec_state \in EndStates
      BY <1>1, SectionsAre DEF Turn, EndStates, ReadOrEmit, ReadStates
    <3> QED
      BY <1>1, <3>1 DEF Planned, Valued
  <2>3. stream.space_out \in Nat /\ (stream.next_out = NULL => stream.space_out = 0)
    BY <1>1 DEF Valued, SpareInv
  <2>4. /\ ret' = "calling" \/ ret' = "XD3_INVALID_INPUT"
        /\ stream'.space_out \in Nat /\ (stream'.next_out = NULL => stream'.space_out = 0)
        /\ ret' = "calling" => stream.tgtlen <= stream'.space_out
    BY <1>1, <1>11, <1>15, <2>2, <2>3, SetUpFits
  <2> QED
    BY <1>1, <1>7, <1>12, <2>1, <2>4 DEF Going
<1> QED
  BY <1>1, <1>2, <1>9, <1>10, <1>14, <1>15

LEMMA SectionFits ==
  ASSUME WindowInv, DedeltaInv', NEW f \in Sections, DecSection(Turn(f), f, NextOf(f)),
         UNCHANGED files, pc' = "process"
  PROVE  WindowInv'
<1> DEFINE changed == {"dec_state", "winbytes", f} \cup BufferFields
<1>1. stream.dec_state = Turn(f)
  BY DEF DecSection, Case
<1>2. CASE stream' = stream /\ ret' = "undefined"
  <2>1. source' = source /\ stream.dec_state # "DEC_EMIT" /\ OutputInv /\ ret = "calling"
    BY <1>1, SectionsAre, SectionBrings, WindowParts DEF Turn
  <2>2. OutputInv'
    BY <1>2, <2>1 DEF OutputInv, Idle
  <2>3. ReturnInv'
    BY <1>2 DEF ReturnInv
  <2>4. SourceInv' /\ FilesInv' /\ SpareInv'
    BY <1>2, <2>1, WindowParts DEF SourceInv, FilesInv, SpareInv, files, SourceFields, StackSource
  <2> QED
    BY <1>2, <2>2, <2>3, <2>4, WindowParts DEF WindowInv
<1>3. CASE ~(stream' = stream /\ ret' = "undefined")
  <2>1. PICK n \in Nat : SectionMoves(f, n)
    BY <1>3, WindowParts, AlsoCounted, SectionReads
  <2>2. /\ Fields(stream', changed)
        /\ stream'.dec_state = stream.dec_state \/ stream'.dec_state = NextOf(f)
    BY <2>1 DEF SectionMoves, Partial, Full
  <2>3. /\ source' = source /\ ret = "calling"
        /\ ret' = "calling" \/ ret' = "XD3_INPUT" \/ ret' = "XD3_INVALID_INPUT"
        /\ stream'[f].read \in Nat /\ (stream'[f].pos # 0 => Ample(stream'[f]))
        /\ stream'.space_out \in Nat /\ (stream'.next_out = NULL => stream'.space_out = 0)
        /\ stream'.dec_state = "DEC_EMIT" /\ ret' \in Going => stream.tgtlen <= stream'.space_out
    BY <1>3, SectionBrings
  <2>4. /\ stream.dec_state \in ReadStates /\ stream'.dec_state \in ReadOrEmit
    BY <2>2, <1>1 DEF Turn, NextOf, ReadStates, ReadOrEmit
  <2>5. f = "data_sect" \/ f = "inst_sect" \/ f = "addr_sect"
    BY SectionsAre
  <2>6. /\ stream'.cpylen = stream.cpylen /\ stream'.cpyoff = stream.cpyoff
        /\ stream'.tgtlen = stream.tgtlen /\ stream'.maxpos = stream.maxpos
        /\ stream'.position = stream.position /\ stream'.out = stream.out
        /\ stream'.current1 = stream.current1 /\ stream'.current2 = stream.current2
        /\ stream'.s_near = stream.s_near /\ stream'.s_same = stream.s_same
        /\ stream'.lastspace = stream.lastspace
    BY <2>2, <2>5, StreamFieldNames, SMT DEF Fields, BufferFields
  <2>7. Valued(stream) /\ Equipped(stream) /\ Planned(stream) /\ OutputInv
    BY WindowParts
  <2>8. Valued(stream')
    <3>1. \A h \in Halves : stream'[h] = stream[h]
      BY <2>6 DEF Halves
    <3>2. \A g \in Sections : stream'[g].read \in Nat
      <4>1. \A g \in Sections : g # f => stream'[g] = stream[g]
        BY <2>2, SectionFrame
      <4> QED
        BY <2>3, <2>7, <4>1 DEF Valued
    <3> QED
      BY <2>3, <2>6, <2>7, <3>1, <3>2 DEF Valued
  <2>9. Equipped(stream')
    <3>1. stream.dec_state \in WindowStates /\ TableKnown(stream)
      BY <2>4 DEF TableKnown, TableStates, WindowStates, StartStates, EndStates, ReadOrEmit, ReadStates
    <3>2. changed \cap {"hdr_ind", "codetbl", "s_near", "s_same", "acache"} = {}
      BY <2>5 DEF BufferFields
    <3> QED
      BY <2>2, <2>7, <3>1, <3>2, EquippedKept
  <2>10. stream.position = stream.cpylen /\ stream.maxpos = stream.cpylen + stream.tgtlen
         /\ stream.tgtlen <= HardMaxWinsize
    BY <2>4, <2>7 DEF Planned, StartStates, EndStates, ReadOrEmit, ReadStates
  <2>11. Planned(stream')
    <3>1. stream.cpylen <= stream.cpylen + stream.tgtlen
      BY <2>7 DEF Valued
    <3> QED
      BY <2>6, <2>10, <3>1 DEF Planned
  <2>12. Idle(stream) /\ stream.out = <<>> /\ stream.dec_state # "DEC_EMIT"
    BY <2>3, <2>4, <2>7 DEF OutputInv, ReadStates
  <2>13. OutputInv'
    <3>1. Idle(stream')
      BY <2>6, <2>12 DEF Idle, Halves
    <3>2. stream'.dec_state = "DEC_EMIT" /\ ret' \in Going => Accounted(stream')
      <4>1. /\ ToWrite(stream', "current1") = 0 /\ ToWrite(stream', "current2") = 0
            /\ CopyThere(stream', "current1", 0) /\ CopyThere(stream', "current2", 0)
        BY <3>1 DEF Idle, Halves, ToWrite, CopyThere, XD3_NOOP, XD3_CPY
      <4>2. PICK c \in Nat : c = stream.cpylen
        BY <2>7 DEF Valued
      <4>3. stream'.cpylen + Len(stream'.out) + 0 + 0 = stream'.position
        <5>1. Len(<<>>) = 0 /\ c + 0 + 0 + 0 = c
          OBVIOUS
        <5> QED
          BY <2>6, <2>10, <2>12, <4>2, <5>1
      <4> QED
        BY <2>3, <2>6, <4>1, <4>3 DEF Accounted, Fair, Sum
    <3> QED
      BY <2>6, <2>12, <3>1, <3>2 DEF OutputInv
  <2>14. ReturnInv'
    BY <2>3 DEF ReturnInv
  <2>15. SourceInv' /\ FilesInv'
    BY <2>3, WindowParts DEF SourceInv, FilesInv, files, SourceFields, StackSource
  <2>16. SpareInv'
    <3>1. \A g \in Sections : g # f => stream'[g] = stream[g]
      BY <2>2, SectionFrame
    <3> QED
      BY <2>3, <2>6, <3>1, WindowParts DEF SpareInv
  <2> QED
    BY <2>8, <2>9, <2>11, <2>13, <2>14, <2>15, <2>16 DEF WindowInv
<1> QED
  BY <1>2, <1>3

-----------------------------------------------------------------------------
(* The bytes of the sections. *)

Legible(s) == \A f \in Sections : IsLong(0..255, SectionBytes(s[f]), s[f].size)

(* What is left of a sequence. *)
LEMMA Remainder ==
  ASSUME NEW S, NEW s, NEW n \in Nat, IsLong(S, s, n), NEW a \in Nat
  PROVE  SubSeq(s, a + 1, n) \in Seq(S)
<1>1. s \in Seq(S) /\ Len(s) = n
  BY DEF IsLong
<1>2. CASE a <= n
  BY <1>1, <1>2, PieceOf
<1>3. CASE ~(a <= n)
  BY <1>1, <1>3
<1> QED
  BY <1>2, <1>3

LEMMA UnreadType ==
  ASSUME NEW s, Legible(s), Sound(s), Valued(s), NEW f \in Sections
  PROVE  Unread(s[f]) \in Seq(0..255)
<1>1. PICK x : x = SectionBytes(s[f])
  OBVIOUS
<1>2. PICK n \in Nat : n = s[f].size
  BY DEF Sound, IsSection
<1>3. PICK a \in Nat : a = s[f].read
  BY DEF Valued
<1>4. IsLong(0..255, x, n)
  BY <1>1, <1>2, Zenon DEF Legible
<1>5. SubSeq(x, a + 1, n) \in Seq(0..255)
  BY <1>4, Remainder, Zenon
<1> QED
  BY <1>1, <1>2, <1>3, <1>5, Zenon DEF Unread

LEMMA LegibleKept ==
  ASSUME NEW s, NEW t, Legible(s), Reads(s, t)
  PROVE  Legible(t)
  BY DEF Legible, Reads, SameSection, SectionBytes

(* The parts of a sequence of elements of S. *)
LEMMA PartsOf ==
  ASSUME NEW S, NEW x \in Seq(Nat), NEW y \in Seq(Nat), NEW z \in Seq(Nat), x \o y \o z \in Seq(S)
  PROVE  x \in Seq(S) /\ y \in Seq(S) /\ z \in Seq(S)
<1>1. PICK w \in Seq(S) : w = x \o y \o z
  OBVIOUS
<1>2. Len(w) = Len(x) + Len(y) + Len(z)
  BY <1>1
<1>3. ASSUME NEW i \in 1..Len(x) PROVE x[i] \in S
  <2>1. i \in 1..Len(w) /\ w[i] = x[i]
    BY <1>1, <1>2
  <2> QED
    BY <2>1
<1>4. ASSUME NEW i \in 1..Len(y) PROVE y[i] \in S
  <2>1. PICK j \in Nat : j = Len(x) + i
    OBVIOUS
  <2>2. j \in 1..Len(w) /\ w[j] = y[i]
    BY <1>1, <1>2, <2>1
  <2> QED
    BY <2>2
<1>5. ASSUME NEW i \in 1..Len(z) PROVE z[i] \in S
  <2>1. PICK j \in Nat : j = Len(x) + Len(y) + i
    OBVIOUS
  <2>2. j \in 1..Len(w) /\ w[j] = z[i]
    BY <1>1, <1>2, <2>1
  <2> QED
    BY <2>2
<1> QED
  BY <1>3, <1>4, <1>5

LEMMA LegibleStream ==
  ASSUME WindowInv, stream.dec_state = "DEC_EMIT"
  PROVE  Legible(stream) /\ Sound(stream)
<1>1. StreamTypes /\ FileInv /\ SectionInv /\ GatherInv /\ FilesInv
  BY WindowParts, Parts
<1>2. \A f \in Sections : Complete(stream, f)
  BY DEF Complete
<1>3. "data_sect" \in Sections /\ "inst_sect" \in Sections /\ "addr_sect" \in Sections
  BY SectionsAre
<1>4. ASSUME NEW f \in Sections PROVE IsLong(Nat, SectionBytes(stream[f]), stream[f].size)
  <2>1. stream[f].copied \in Seq(Nat) /\ stream[f].size \in Nat /\ stream[f].ref \in Int
    BY <1>1 DEF StreamTypes, IsSection
  <2>2. PICK k \in Nat, r \in Int : k = stream[f].size /\ r = stream[f].ref
    BY <2>1
  <2>3. PICK c \in Seq(Nat) : c = stream[f].copied
    BY <2>1
  <2>4. SectionBytes(stream[f]) = IF r >= 0 THEN SubSeq(ibuf, r + 1, r + k) ELSE SubSeq(c, 1, k)
    BY <2>2, <2>3 DEF SectionBytes
  <2>5. ibuf \in Seq(Nat)
    BY <1>1 DEF FileInv
  <2>6. CASE k = 0
    <3>1. SubSeq(ibuf, r + 1, r) = <<>> /\ SubSeq(c, 1, 0) = <<>> /\ r + 0 = r
      BY ONLY <2>5, r \in Int, c \in Seq(Nat)
    <3>2. IsLong(Nat, <<>>, 0)
      BY DEF IsLong
    <3> QED
      BY <2>2, <2>4, <2>6, <3>1, <3>2
  <2>7. CASE k # 0 /\ r >= 0
    <3>1. InPlaceNow(stream, f)
      BY <1>2, <2>2, <2>7 DEF InPlaceNow
    <3>2. r + k <= Len(ibuf)
      <4>1. r + k <= at
        <5>1. stream[f].ref + stream[f].size <= at
          BY <1>1, <3>1 DEF SectionInv, PlaceInv
        <5> QED
          BY <2>2, <5>1, Zenon
      <4>2. PICK l \in Nat, e \in Nat : l = Len(ibuf) /\ e = at /\ e <= l
        BY <1>1, FileFacts
      <4>3. r + k <= l
        BY ONLY <4>1, <4>2, r \in Int, k \in Nat
      <4> QED
        BY <4>2, <4>3
    <3>3. PICK b \in Nat : b = r + k
      BY <2>7
    <3>4. r \in Nat /\ r <= b /\ b <= Len(ibuf) /\ b - r = k
      BY <2>7, <3>2, <3>3
    <3>5. IsLong(Nat, SubSeq(ibuf, r + 1, b), k)
      BY ONLY <2>5, <3>3, <3>4, PieceOf DEF IsLong
    <3> QED
      BY <2>2, <2>4, <2>7, <3>3, <3>5
  <2>8. CASE ~(r >= 0)
    <3>1. k <= Len(c)
      BY <1>1, <1>2, <2>2, <2>3, <2>8 DEF SectionInv, PlaceInv
    <3>2. IsLong(Nat, SubSeq(c, 1, k), k)
      BY ONLY <3>1, c \in Seq(Nat), k \in Nat, Prefix DEF IsLong
    <3> QED
      BY <2>2, <2>4, <2>8, <3>2
  <2> QED
    BY <2>6, <2>7, <2>8
<1> DEFINE x == SectionBytes(stream.data_sect)
           y == SectionBytes(stream.inst_sect)
           z == SectionBytes(stream.addr_sect)
<1>5. x \in Seq(Nat) /\ y \in Seq(Nat) /\ z \in Seq(Nat)
  BY <1>3, <1>4 DEF IsLong
<1>6. Gathered(stream) = x \o y \o z
  BY <1>2, <1>3, Zenon DEF Gathered, Held
<1> HIDE DEF x, y, z
<1>7. Gathered(stream) \in Seq(0..255)
  <2>1. PICK e \in Nat, w \in Nat : e = End /\ w = stream.winbytes /\ w <= e /\ e <= Len(fdelta)
    <3>1. /\ End \in Nat /\ pos \in Nat /\ AvailIn \in Nat /\ pos <= Len(fdelta) /\ Len(fdelta) \in Nat
          /\ End = pos - AvailIn
      BY <1>1, FileFacts
    <3>2. PICK p \in Nat, v \in Nat, l \in Nat : p = pos /\ v = AvailIn /\ l = Len(fdelta)
      BY <3>1
    <3>3. End <= Len(fdelta)
      BY <3>1, <3>2
    <3>4. stream.winbytes \in Nat /\ stream.winbytes <= End
      BY <1>1 DEF StreamTypes, GatherInv
    <3> QED
      BY <3>1, <3>3, <3>4
  <2>2. PICK a \in Nat : a = e - w
    BY <2>1
  <2>3. a <= e
    BY <2>1, <2>2
  <2>4. fdelta \in Seq(0..255)
    BY <1>1 DEF FilesInv
  <2>5. SubSeq(fdelta, a + 1, e) \in Seq(0..255)
    BY ONLY <2>1, <2>3, <2>4, a \in Nat, e \in Nat, PieceOf
  <2>6. Gathered(stream) = SubSeq(fdelta, e - w + 1, e)
    BY <1>1, <2>1 DEF GatherInv
  <2> QED
    BY <2>2, <2>5, <2>6
<1>8. x \in Seq(0..255) /\ y \in Seq(0..255) /\ z \in Seq(0..255)
  BY <1>5, <1>6, <1>7, PartsOf
<1>9. ASSUME NEW f \in Sections PROVE IsLong(0..255, SectionBytes(stream[f]), stream[f].size)
  <2>1. SectionBytes(stream[f]) \in Seq(0..255)
    BY <1>8, SectionsAre DEF x, y, z
  <2>2. Len(SectionBytes(stream[f])) = stream[f].size
    BY <1>4 DEF IsLong
  <2> QED
    BY <2>1, <2>2, Zenon DEF IsLong
<1>10. Sound(stream)
  BY WindowParts, SoundStream
<1> QED
  BY <1>9, <1>10, Zenon DEF Legible

-----------------------------------------------------------------------------
(* The address cache. *)

LEMMA CacheSizes ==
  ASSUME NEW c, NEW near \in Nat, NEW same \in Nat, IsCache(c, near, same)
  PROVE  SNear(c) = near /\ SSame(c) = same
<1>1. \A n \in Nat : Cardinality(0..n - 1) = n
  <2>1. ASSUME NEW n \in Nat PROVE Cardinality(0..n - 1) = n
    <3>1. PICK m \in Int : m = n - 1
      OBVIOUS
    <3>2. Cardinality(0..m) = IF 0 > m THEN 0 ELSE m - 0 + 1
      BY FS_Interval
    <3> QED
      BY <3>1, <3>2
  <2> QED
    BY <2>1
<1>2. DOMAIN c.near = 0..near - 1 /\ DOMAIN c.same = 0..same * Page - 1
  BY DEF IsCache
<1>3. PICK n \in Nat : n = same * Page
  BY PageAssumption, ProductNat
<1>4. Cardinality(DOMAIN c.same) = n
  BY <1>1, <1>2, <1>3, Zenon
<1>5. n \div Page = same
  BY <1>3, PageAssumption, FactorOf
<1> QED
  BY <1>1, <1>2, <1>4, <1>5, Zenon DEF SNear, SSame

LEMMA CacheUpdated ==
  ASSUME NEW c, NEW near \in Nat, NEW same \in Nat, IsCache(c, near, same), NEW addr \in Nat
  PROVE  IsCache(UpdateCache(c, addr), near, same)
<1>1. c.near \in [0..near - 1 -> Nat] /\ c.same \in [0..same * Page - 1 -> Nat]
  BY DEF IsCache
<1>2. PICK slot, place : slot = c.next_slot /\ place = addr % (SSame(c) * Page)
  OBVIOUS
<1>3. PICK f : f = IF SNear(c) = 0 THEN c.near ELSE [c.near EXCEPT ![slot] = addr]
  OBVIOUS
<1>4. PICK g : g = IF SSame(c) = 0 THEN c.same ELSE [c.same EXCEPT ![place] = addr]
  OBVIOUS
<1>5. f \in [0..near - 1 -> Nat]
  BY <1>1, <1>3
<1>6. g \in [0..same * Page - 1 -> Nat]
  <2>1. PICK A : A = 0..same * Page - 1
    OBVIOUS
  <2>2. c.same \in [A -> Nat]
    BY <1>1, <2>1
  <2>3. g \in [A -> Nat]
    BY <1>4, <2>2
  <2> QED
    BY <2>1, <2>3
<1>7. UpdateCache(c, addr).near = f /\ UpdateCache(c, addr).same = g
  BY <1>2, <1>3, <1>4 DEF UpdateCache
<1> QED
  BY <1>5, <1>6, <1>7, Zenon DEF IsCache

-----------------------------------------------------------------------------
(* What is parsed: a number and how many bytes it took, or a refusal. *)

IsAnswer(r) ==
  /\ r.ret \in {"ok", "XD3_INVALID_INPUT"}
  /\ r.ret = "ok" => r.val \in Nat /\ r.used \in Nat

LEMMA ReadIntegerAnswer == ASSUME NEW in \in Seq(Nat) PROVE IsAnswer(ReadInteger(in))
<1>1. PICK r : r = DecodeInteger(0, in, Word)
  OBVIOUS
<1>2. Len(in) \in Nat /\ 0 \in Nat
  OBVIOUS
<1>3. r \in Readings(Len(in))
  BY <1>1, <1>2, DecodeIntegerType
<1>4. r.used \in 0..Len(in) /\ (r.ret = "ok" => r.val \in Nat)
  BY <1>2, <1>3, ReadingFacts
<1>5. r.used \in Nat
  BY <1>2, <1>4
<1>6. ReadInteger(in) = IF r.ret = "ok" THEN r ELSE [ret |-> "XD3_INVALID_INPUT", used |-> r.used]
  BY <1>1, Zenon DEF ReadInteger
<1> QED
  BY <1>4, <1>5, <1>6 DEF IsAnswer

LEMMA AddressAnswer ==
  ASSUME NEW c, NEW near \in Nat, NEW same \in Nat, IsCache(c, near, same), NEW here \in Nat,
         NEW mode \in Nat, mode < 2 + near + same, NEW in, in \in Seq(Nat)
  PROVE  IsAnswer(DecodeAddress(c, here, mode, in))
<1>1. SNear(c) = near /\ Page \in Nat \ {0} /\ Word \in Nat \ {0}
  BY CacheSizes, PageAssumption, WordAssumption, BaseAssumption
<1>2. PICK r : r = ReadInteger(in) /\ IsAnswer(r)
  BY ReadIntegerAnswer
<1>3. CASE mode < 2 + near
  <2> DEFINE v == CASE mode = VCD_SELF -> r.val
                    [] mode = VCD_HERE -> (here - r.val) % Word
                    [] OTHER -> (r.val + c.near[mode - 2]) % Word
  <2>1. DecodeAddress(c, here, mode, in)
          = IF r.ret # "ok" THEN r ELSE [ret |-> "ok", used |-> r.used, val |-> v]
    BY <1>1, <1>2, <1>3, Zenon DEF DecodeAddress
  <2>2. r.ret = "ok" => v \in Nat
    <3>1. SUFFICES ASSUME r.ret = "ok" PROVE v \in Nat
      OBVIOUS
    <3>2. PICK x \in Nat : x = r.val
      BY <1>2, <3>1 DEF IsAnswer
    <3>3. CASE mode = VCD_SELF
      <4>1. v = r.val
        BY <3>3 DEF VCD_SELF, VCD_HERE
      <4> QED
        BY <3>2, <4>1
    <3>4. CASE mode = VCD_HERE
      <4>1. (here - x) % Word \in Nat
        BY <1>1
      <4> QED
        BY <3>2, <3>4, <4>1 DEF VCD_HERE, VCD_SELF
    <3>5. CASE mode # VCD_SELF /\ mode # VCD_HERE
      <4>1. mode - 2 \in 0..near - 1
        BY <1>3, <3>5 DEF VCD_HERE, VCD_SELF
      <4>2. PICK y \in Nat : y = c.near[mode - 2]
        BY <4>1 DEF IsCache
      <4>3. (x + y) % Word \in Nat
        BY <1>1
      <4> QED
        BY <3>2, <3>5, <4>2, <4>3
    <3> QED
      BY <3>3, <3>4, <3>5
  <2> HIDE DEF v
  <2> QED
    BY <1>2, <2>1, <2>2 DEF IsAnswer
<1>4. CASE ~(mode < 2 + near)
  <2>1. PICK w : w = c.same[(mode - 2 - near) * Page + (in[1] % Page)]
    OBVIOUS
  <2>2. DecodeAddress(c, here, mode, in)
          = IF in = <<>> THEN [ret |-> "XD3_INVALID_INPUT"] ELSE [ret |-> "ok", val |-> w, used |-> 1]
    BY <1>1, <1>4, <2>1, Zenon DEF DecodeAddress
  <2>3. in # <<>> => w \in Nat
    <3>1. SUFFICES ASSUME in # <<>> PROVE w \in Nat
      OBVIOUS
    <3>2. PICK b \in Nat : b = in[1]
      BY <3>1
    <3>3. PICK m \in Nat : m = mode - 2 - near
      BY <1>4
    <3>4. m < same
      BY <1>4, <3>3
    <3>5. m * Page + Page <= same * Page /\ m * Page \in Nat /\ same * Page \in Nat
      BY <1>1, <3>4, NextMultiple, ProductNat
    <3>6. b % Page \in 0..Page - 1
      BY <1>1, Division
    <3>7. PICK p \in Nat, q \in Nat, k \in 0..Page - 1 : p = m * Page /\ q = same * Page /\ k = b % Page
      BY <3>5, <3>6
    <3>8. p + k \in 0..q - 1
      <4>1. PICK e \in Nat : e = Page
        BY <1>1
      <4>2. p + e <= q /\ k \in 0..e - 1
        BY <3>5, <3>7, <4>1, Zenon
      <4> QED
        BY ONLY <4>2, p \in Nat, q \in Nat, e \in Nat, SMT
    <3>9. w = c.same[p + k] /\ c.same \in [0..q - 1 -> Nat]
      BY <2>1, <3>2, <3>3, <3>7, Zenon DEF IsCache
    <3> QED
      BY <3>8, <3>9
  <2>4. 1 \in Nat
    OBVIOUS
  <2> QED
    BY <2>2, <2>3, <2>4 DEF IsAnswer
<1> QED
  BY <1>3, <1>4

LEMMA BytesAreNumbers == ASSUME NEW in \in Seq(0..255) PROVE in \in Seq(Nat)
<1>1. 0..255 \subseteq Nat
  OBVIOUS
<1> QED
  BY <1>1, WiderSeq

(* A stream whose instructions are parsed. *)
Emitting(s) ==
  /\ Sound(s) /\ Legible(s) /\ Valued(s) /\ IsCache(s.acache, s.s_near, s.s_same)
  /\ s.position <= s.maxpos /\ Accounted(s)

LEMMA HalfAnswers ==
  ASSUME NEW s, Emitting(s), NEW type \in Nat, NEW size \in Nat, type < XD3_CPY + Modes(s)
  PROVE  IsAnswer(HalfSize(s, size)) /\ IsAnswer(HalfAddr(s, type))
<1>1. Sound(s) /\ Legible(s) /\ Valued(s) /\ IsCache(s.acache, s.s_near, s.s_same)
  BY DEF Emitting
<1>2. PICK in \in Seq(Nat), ad \in Seq(Nat) : in = Unread(s.inst_sect) /\ ad = Unread(s.addr_sect)
  BY <1>1, UnreadType, BytesAreNumbers, SectionsAre
<1>3. IsAnswer(HalfSize(s, size))
  <2>1. HalfSize(s, size) = IF size # 0 THEN [ret |-> "ok", val |-> size, used |-> 0] ELSE ReadInteger(in)
    BY <1>2, Zenon DEF HalfSize
  <2>2. IsAnswer([ret |-> "ok", val |-> size, used |-> 0])
    BY DEF IsAnswer
  <2> QED
    BY <2>1, <2>2, ReadIntegerAnswer
<1>4. IsAnswer(HalfAddr(s, type))
  <2>1. HalfAddr(s, type) = IF type < XD3_CPY THEN [ret |-> "ok", val |-> 0, used |-> 0]
                            ELSE DecodeAddress(s.acache, s.position, type - XD3_CPY, ad)
    BY <1>2, Zenon DEF HalfAddr
  <2>2. IsAnswer([ret |-> "ok", val |-> 0, used |-> 0])
    BY DEF IsAnswer
  <2>3. ~(type < XD3_CPY) => IsAnswer(DecodeAddress(s.acache, s.position, type - XD3_CPY, ad))
    <3>1. SUFFICES ASSUME ~(type < XD3_CPY)
                   PROVE  IsAnswer(DecodeAddress(s.acache, s.position, type - XD3_CPY, ad))
      OBVIOUS
    <3>2. PICK near \in Nat, same \in Nat, here \in Nat :
            near = s.s_near /\ same = s.s_same /\ here = s.position
      BY <1>1 DEF Valued
    <3>3. PICK mode \in Nat : mode = type - XD3_CPY
      BY <3>1 DEF XD3_CPY
    <3>4. mode < 2 + near + same
      BY <3>2, <3>3, SMTT(20) DEF Modes, XD3_CPY
    <3>5. IsAnswer(DecodeAddress(s.acache, here, mode, ad))
      BY <1>1, <3>2, <3>4, AddressAnswer
    <3> QED
      BY <3>2, <3>3, <3>5
  <2> QED
    BY <2>1, <2>2, <2>3
<1> QED
  BY <1>3, <1>4

(* The stream after a half instruction was parsed. *)
ParsedTo(s, half, type, n, a, t) ==
  /\ InBounds(s, type, n.val, a.val)
  /\ IsStream(t) /\ t[half] = [type |-> type, size |-> n.val, addr |-> a.val]
  /\ t.position = (s.position + n.val) % Word
  /\ t.inst_sect = [s.inst_sect EXCEPT !.read = @ + n.used]
  /\ t.addr_sect = [s.addr_sect EXCEPT !.read = @ + a.used]
  /\ t.acache = IF type >= XD3_CPY THEN UpdateCache(s.acache, a.val) ELSE s.acache
  /\ \A g \in StreamFields : \/ g \in {"inst_sect", "addr_sect", "position", "acache", half}
                             \/ t[g] = s[g]

LEMMA ParsedStream ==
  ASSUME NEW s, Sound(s), NEW half, half = "current1" \/ half = "current2", NEW type, NEW n, NEW a,
         n.ret = "ok", a.ret = "ok", NEW p, p = Parsed(s, half, type, n, a), p.ret = "ok"
  PROVE  ParsedTo(s, half, type, n, a, p.s)
<1>1. IsStream(s)
  BY DEF Sound
<1>2. PICK h : h = [type |-> type, size |-> n.val, addr |-> a.val]
  OBVIOUS
<1>3. PICK c : c = IF type >= XD3_CPY THEN UpdateCache(s.acache, a.val) ELSE s.acache
  OBVIOUS
<1>4. PICK q : q = (s.position + n.val) % Word
  OBVIOUS
<1>5. PICK i : i = s.inst_sect.read + n.used
  OBVIOUS
<1>6. PICK d : d = s.addr_sect.read + a.used
  OBVIOUS
<1>7. PICK t : t = [s EXCEPT ![half] = h, !.position = q, !.inst_sect.read = i,
                             !.addr_sect.read = d, !.acache = c]
  OBVIOUS
<1>8. p = IF ~InBounds(s, type, n.val, a.val) THEN [ret |-> "XD3_INVALID_INPUT"]
          ELSE [ret |-> "ok", s |-> t]
  <2>1. CASE half = "current1"
    BY <1>1, <1>2, <1>3, <1>4, <1>5, <1>6, <1>7, <2>1, StreamFieldNames DEF Parsed, IsStream
  <2>2. CASE half = "current2"
    BY <1>1, <1>2, <1>3, <1>4, <1>5, <1>6, <1>7, <2>2, StreamFieldNames DEF Parsed, IsStream
  <2> QED
    BY <2>1, <2>2
<1>9. InBounds(s, type, n.val, a.val) /\ p.s = t
  BY <1>8
<1>10. /\ IsStream(t) /\ t[half] = h /\ t.position = q /\ t.acache = c
       /\ t.inst_sect = [s.inst_sect EXCEPT !.read = i] /\ t.addr_sect = [s.addr_sect EXCEPT !.read = d]
       /\ \A g \in StreamFields : \/ g \in {"inst_sect", "addr_sect", "position", "acache", half}
                                  \/ t[g] = s[g]
  <2>1. CASE half = "current1"
    <3>1. IsStream(t)
      BY <1>1, <1>7, <2>1, StreamFieldNames, ZenonT(30) DEF IsStream
    <3>2. t[half] = h
      BY <1>1, <1>7, <2>1, StreamFieldNames, ZenonT(30) DEF IsStream
    <3>4. t.position = q
      BY <1>1, <1>7, <2>1, StreamFieldNames, ZenonT(30) DEF IsStream
    <3>5. t.acache = c
      BY <1>1, <1>7, <2>1, StreamFieldNames, ZenonT(30) DEF IsStream
    <3>6. t.inst_sect = [s.inst_sect EXCEPT !.read = i]
      BY <1>1, <1>7, <2>1, StreamFieldNames, ZenonT(30) DEF IsStream
    <3>7. t.addr_sect = [s.addr_sect EXCEPT !.read = d]
      BY <1>1, <1>7, <2>1, StreamFieldNames, ZenonT(30) DEF IsStream
    <3>3. \A g \in StreamFields : \/ g \in {"inst_sect", "addr_sect", "position", "acache", half}
                                   \/ t[g] = s[g]
      BY <1>1, <1>7, <2>1, StreamFieldNames DEF IsStream
    <3> QED
      BY <3>1, <3>2, <3>3, <3>4, <3>5, <3>6, <3>7
  <2>2. CASE half = "current2"
    <3>1. IsStream(t)
      BY <1>1, <1>7, <2>2, StreamFieldNames, ZenonT(30) DEF IsStream
    <3>2. t[half] = h
      BY <1>1, <1>7, <2>2, StreamFieldNames, ZenonT(30) DEF IsStream
    <3>4. t.position = q
      BY <1>1, <1>7, <2>2, StreamFieldNames, ZenonT(30) DEF IsStream
    <3>5. t.acache = c
      BY <1>1, <1>7, <2>2, StreamFieldNames, ZenonT(30) DEF IsStream
    <3>6. t.inst_sect = [s.inst_sect EXCEPT !.read = i]
      BY <1>1, <1>7, <2>2, StreamFieldNames, ZenonT(30) DEF IsStream
    <3>7. t.addr_sect = [s.addr_sect EXCEPT !.read = d]
      BY <1>1, <1>7, <2>2, StreamFieldNames, ZenonT(30) DEF IsStream
    <3>3. \A g \in StreamFields : \/ g \in {"inst_sect", "addr_sect", "position", "acache", half}
                                   \/ t[g] = s[g]
      BY <1>1, <1>7, <2>2, StreamFieldNames DEF IsStream
    <3> QED
      BY <3>1, <3>2, <3>3, <3>4, <3>5, <3>6, <3>7
  <2> QED
    BY <1>1, <2>1, <2>2
<1> QED
  BY <1>2, <1>3, <1>4, <1>5, <1>6, <1>9, <1>10, Zenon DEF ParsedTo

(* What the emit loop leaves alone. *)
LEMMA ReadsKeeps ==
  ASSUME NEW s, NEW t, Reads(s, t)
  PROVE  /\ t.dec_state = s.dec_state /\ t.cpylen = s.cpylen /\ t.cpyoff = s.cpyoff
         /\ t.tgtlen = s.tgtlen /\ t.maxpos = s.maxpos /\ t.space_out = s.space_out
         /\ t.s_near = s.s_near /\ t.s_same = s.s_same /\ t.hdr_ind = s.hdr_ind
         /\ t.codetbl = s.codetbl /\ t.next_out = s.next_out /\ t.lastspace = s.lastspace
  BY StreamFieldNames, SectionsAre DEF Reads, EmitFields

(* A half instruction is put in its place. *)
LEMMA HalfPlaced ==
  ASSUME NEW s, Emitting(s), NEW half, half = "current1" \/ half = "current2",
         s.current2.type = XD3_NOOP, half = "current1" => s.current1.type = XD3_NOOP,
         NEW t, Reads(s, t), NEW h, IsHalf(h), t[half] = h, half = "current1" => t.current2 = s.current2,
         half = "current2" => t.current1 = s.current1, t.out = s.out,
         t.position = IF h.type # XD3_NOOP THEN (s.position + h.size) % Word ELSE s.position,
         t.position <= s.maxpos,
         h.type >= XD3_CPY =>
           h.addr < s.position /\ (h.addr < s.cpylen => (h.addr + h.size) % Word <= s.cpylen),
         \A f \in Sections : t[f].read \in Nat, IsCache(t.acache, s.s_near, s.s_same)
  PROVE  Emitting(t)
<1>1. /\ t.cpylen = s.cpylen /\ t.cpyoff = s.cpyoff /\ t.tgtlen = s.tgtlen /\ t.maxpos = s.maxpos
      /\ t.space_out = s.space_out /\ t.s_near = s.s_near /\ t.s_same = s.s_same
  BY ReadsKeeps
<1>2. Sound(s) /\ Legible(s) /\ Valued(s) /\ Accounted(s)
  BY DEF Emitting
<1>3. Sound(t) /\ Legible(t)
  BY <1>2, ReadsSound, LegibleKept
<1>4. PICK a \in Nat, n \in Nat, y \in Nat : h.type = y /\ h.size = n /\ h.addr = a
  BY DEF IsHalf
<1>5. PICK w \in Nat : w = IF h.type # XD3_NOOP THEN h.size ELSE 0
  BY <1>4
<1>6. PICK c \in Nat, l \in Nat, p \in Nat, m \in Nat, v \in Nat :
        c = s.cpylen /\ l = Len(s.out) /\ p = s.position /\ m = s.maxpos /\ v = ToWrite(s, "current1")
  <2>1. s.out \in Seq(Nat) /\ s.cpylen \in Nat /\ s.position \in Nat /\ s.maxpos \in Nat
        /\ IsHalf(s["current1"])
    BY <1>2 DEF Valued, Halves
  <2>2. ToWrite(s, "current1") \in Nat
    BY <2>1 DEF ToWrite, IsHalf
  <2>3. Len(s.out) \in Nat
    BY <2>1
  <2> QED
    BY <2>1, <2>2, <2>3
<1>7. Word \in Nat \ {0}
  BY WordAssumption, BaseAssumption
<1>8. Sum(s) = c + l + v
  <2>1. ToWrite(s, "current2") = 0
    BY DEF ToWrite
  <2> QED
    BY <1>6, <2>1 DEF Sum
<1>9. PICK q \in Nat : q = t.position /\ (q = p + w \/ p + w >= Word)
  <2>1. CASE h.type = XD3_NOOP
    BY <1>5, <1>6, <2>1
  <2>2. CASE h.type # XD3_NOOP
    <3>1. t.position = (p + w) % Word
      BY <1>5, <1>6, <2>2
    <3>2. (p + w) % Word \in Nat /\ (p + w < Word => (p + w) % Word = p + w)
      BY <1>7, SMT
    <3> QED
      BY <1>7, <3>1, <3>2
  <2> QED
    BY <2>1, <2>2
<1>10. Valued(t)
  <2>1. ASSUME NEW g \in Halves PROVE IsHalf(t[g])
    <3>1. IsHalf(s[g])
      BY <1>2 DEF Valued
    <3>2. t[g] = h \/ t[g] = s[g]
      BY DEF Halves
    <3> QED
      BY <3>1, <3>2
  <2> QED
    BY <1>1, <1>2, <1>9, <2>1 DEF Valued
<1>11. Sum(t) = c + l + v + w
  <2>1. CASE half = "current1"
    <3>1. v = 0 /\ ToWrite(t, "current1") = w /\ ToWrite(t, "current2") = 0
      BY <1>5, <1>6, <2>1 DEF ToWrite
    <3> QED
      BY <1>1, <1>6, <3>1 DEF Sum
  <2>2. CASE half = "current2"
    <3>1. ToWrite(t, "current1") = v /\ ToWrite(t, "current2") = w
      BY <1>5, <1>6, <2>2 DEF ToWrite
    <3> QED
      BY <1>1, <1>6, <3>1 DEF Sum
  <2> QED
    BY <2>1, <2>2
<1>12. ASSUME Fair(s), p + w < Word PROVE Fair(t)
  <2>1. c + l + v = p /\ q = p + w
    BY <1>6, <1>7, <1>8, <1>9, <1>12 DEF Fair
  <2>2. y >= XD3_CPY => a < p /\ (a < c => a + n <= c)
    <3>1. SUFFICES ASSUME y >= XD3_CPY, a < c PROVE a < p /\ a + n <= c
      BY <1>4, <1>6
    <3>2. n = w
      BY <1>4, <1>5, <3>1 DEF XD3_CPY, XD3_NOOP
    <3>3. a < p /\ (a + n) % Word <= c
      BY <1>4, <1>6, <3>1
    <3>4. PICK e \in Nat : e = a + n
      OBVIOUS
    <3>5. e < Word
      BY <1>7, <1>12, <3>2, <3>3, <3>4
    <3>6. e % Word = e
      BY <1>7, <3>5, SMT
    <3> QED
      BY <3>3, <3>4, <3>6
  <2>3. Sum(t) = t.position
    BY <1>9, <1>11, <2>1
  <2>4. CASE half = "current1"
    <3>1. v = 0
      BY <1>6, <2>4 DEF ToWrite
    <3>2. CopyThere(t, "current1", 0)
      <4>1. SUFFICES ASSUME y >= XD3_CPY
                     PROVE  IF a < c THEN a + n <= c ELSE a < c + l + 0
        BY <1>1, <1>4, <1>6, <2>4 DEF CopyThere
      <4> QED
        BY <2>1, <2>2, <3>1, <4>1
    <3>3. CopyThere(t, "current2", ToWrite(t, "current1"))
      BY <2>4 DEF CopyThere, XD3_NOOP, XD3_CPY
    <3> QED
      BY <2>3, <3>2, <3>3 DEF Fair
  <2>5. CASE half = "current2"
    <3>1. ToWrite(t, "current1") = v
      BY <1>6, <2>5 DEF ToWrite
    <3>2. CopyThere(t, "current2", v)
      <4>1. SUFFICES ASSUME y >= XD3_CPY
                     PROVE  IF a < c THEN a + n <= c ELSE a < c + l + v
        BY <1>1, <1>4, <1>6, <2>5 DEF CopyThere
      <4> QED
        BY <2>1, <2>2, <4>1
    <3>3. CopyThere(t, "current1", 0)
      <4>1. CopyThere(s, "current1", 0)
        BY <1>12 DEF Fair
      <4> QED
        BY <1>1, <2>5, <4>1 DEF CopyThere
    <3> QED
      BY <2>3, <3>1, <3>2, <3>3 DEF Fair
  <2> QED
    BY <2>4, <2>5
<1>13. ASSUME ~Fair(s) \/ ~(p + w < Word) PROVE Sum(t) >= Word
  <2>1. c + l + v >= Word \/ p + w >= Word
    BY <1>2, <1>7, <1>8, <1>13 DEF Accounted
  <2>2. c + l + v >= Word \/ c + l + v = p
    BY <1>2, <1>6, <1>8 DEF Accounted, Fair
  <2> QED
    BY <1>7, <1>11, <2>1, <2>2
<1>14. Accounted(t)
  BY <1>1, <1>2, <1>12, <1>13 DEF Accounted
<1>15. IsCache(t.acache, t.s_near, t.s_same) /\ t.position <= t.maxpos
  BY <1>1
<1> QED
  BY <1>3, <1>10, <1>14, <1>15 DEF Emitting

LEMMA ParseHalfFits ==
  ASSUME NEW s, Emitting(s), NEW half, half = "current1" \/ half = "current2",
         s.current2.type = XD3_NOOP, half = "current1" => s.current1.type = XD3_NOOP,
         NEW type \in Nat, NEW size \in Nat, type < XD3_CPY + Modes(s),
         NEW p, p = ParseHalf(s, half, type, size)
  PROVE  /\ p.ret \in {"ok", "XD3_INVALID_INPUT"}
         /\ p.ret = "ok" => /\ Emitting(p.s) /\ Reads(s, p.s)
                            /\ half = "current1" => p.s.current2 = s.current2
<1>1. Sound(s) /\ Valued(s) /\ IsStream(s) /\ IsCache(s.acache, s.s_near, s.s_same)
      /\ s.position <= s.maxpos /\ s.position \in Nat /\ s.maxpos \in Nat
  BY DEF Emitting, Sound, Valued
<1>2. p.ret = "ok" => Reads(s, p.s)
  BY <1>1, ParseHalfReads
<1>3. CASE type = XD3_NOOP
  <2>1. PICK h : h = [NoHalf EXCEPT !.size = size]
    OBVIOUS
  <2>2. PICK t : t = [s EXCEPT ![half] = h]
    OBVIOUS
  <2>3. p.ret = "ok" /\ p.s = t
    BY <1>3, <2>1, <2>2 DEF ParseHalf
  <2>4. h.type = XD3_NOOP /\ IsHalf(h)
    BY <2>1 DEF NoHalf, IsHalf, XD3_NOOP
  <2>5. t[half] = h /\ \A g \in StreamFields : g = half \/ t[g] = s[g]
    BY <1>1, <2>2, StreamFieldNames DEF IsStream
  <2>6. /\ half = "current1" => t.current2 = s.current2
        /\ half = "current2" => t.current1 = s.current1
        /\ t.out = s.out /\ t.position = s.position /\ t.acache = s.acache
        /\ t.data_sect = s.data_sect /\ t.inst_sect = s.inst_sect /\ t.addr_sect = s.addr_sect
    BY <2>5, StreamFieldNames
  <2>7. \A f \in Sections : t[f].read \in Nat
    BY <1>1, <2>6, SectionsAre DEF Valued
  <2>8. t.position = IF h.type # XD3_NOOP THEN (s.position + h.size) % Word ELSE s.position
    BY <2>4, <2>6
  <2>9. ~(h.type >= XD3_CPY)
    BY <2>4 DEF XD3_NOOP, XD3_CPY
  <2>10. Reads(s, t)
    BY <1>2, <2>3
  <2>11. Emitting(t)
    BY <1>1, <2>4, <2>5, <2>6, <2>7, <2>8, <2>9, <2>10, HalfPlaced
  <2> QED
    BY <2>3, <2>6, <2>10, <2>11
<1>4. CASE type # XD3_NOOP
  <2>1. PICK n, a : n = HalfSize(s, size) /\ a = HalfAddr(s, type)
    OBVIOUS
  <2>2. IsAnswer(n) /\ IsAnswer(a)
    BY <2>1, HalfAnswers
  <2>3. p = Parsed(s, half, type, n, a)
    BY <1>4, <2>1, Zenon DEF ParseHalf
  <2>4. p.ret \in {"ok", "XD3_INVALID_INPUT"} /\ (p.ret = "ok" => n.ret = "ok" /\ a.ret = "ok")
    <3>1. PICK r : r = [s EXCEPT ![half] = [type |-> type, size |-> n.val, addr |-> a.val],
                        !.position = (@ + n.val) % Word,
                        !.inst_sect.read = @ + n.used,
                        !.addr_sect.read = @ + a.used,
                        !.acache = IF type >= XD3_CPY THEN UpdateCache(@, a.val) ELSE @]
      OBVIOUS
    <3>2. p = IF n.ret # "ok" THEN n
              ELSE IF a.ret # "ok" THEN a
              ELSE IF ~InBounds(s, type, n.val, a.val) THEN [ret |-> "XD3_INVALID_INPUT"]
              ELSE [ret |-> "ok", s |-> r]
      BY <2>3, <3>1, Zenon DEF Parsed
    <3> QED
      BY <2>2, <3>2 DEF IsAnswer
  <2>5. SUFFICES ASSUME p.ret = "ok"
                 PROVE  Emitting(p.s) /\ (half = "current1" => p.s.current2 = s.current2)
    BY <1>2, <2>4
  <2>6. PICK h : h = [type |-> type, size |-> n.val, addr |-> a.val]
    OBVIOUS
  <2>7. n.ret = "ok" /\ a.ret = "ok"
    BY <2>4, <2>5
  <2>8. PICK k \in Nat, d \in Nat, i \in Nat, j \in Nat : n.val = k /\ a.val = d /\ n.used = i /\ a.used = j
    BY <2>2, <2>7 DEF IsAnswer
  <2>9. PICK t : t = p.s
    OBVIOUS
  <2>10. /\ InBounds(s, type, k, d) /\ t[half] = h /\ t.position = (s.position + k) % Word
         /\ t.inst_sect = [s.inst_sect EXCEPT !.read = @ + n.used]
         /\ t.addr_sect = [s.addr_sect EXCEPT !.read = @ + a.used]
         /\ t.acache = IF type >= XD3_CPY THEN UpdateCache(s.acache, a.val) ELSE s.acache
         /\ \A g \in StreamFields : \/ g \in {"inst_sect", "addr_sect", "position", "acache", half}
                                    \/ t[g] = s[g]
    <3>1. /\ InBounds(s, type, n.val, a.val)
          /\ p.s[half] = [type |-> type, size |-> n.val, addr |-> a.val]
          /\ p.s.position = (s.position + n.val) % Word
          /\ p.s.inst_sect = [s.inst_sect EXCEPT !.read = @ + n.used]
          /\ p.s.addr_sect = [s.addr_sect EXCEPT !.read = @ + a.used]
          /\ p.s.acache = IF type >= XD3_CPY THEN UpdateCache(s.acache, a.val) ELSE s.acache
          /\ \A g \in StreamFields : \/ g \in {"inst_sect", "addr_sect", "position", "acache", half}
                                     \/ p.s[g] = s[g]
      <4>1. ParsedTo(s, half, type, n, a, p.s)
        BY <1>1, <2>3, <2>5, <2>7, ParsedStream
      <4> QED
        BY <4>1, Zenon DEF ParsedTo
    <3> QED
      BY <2>6, <2>8, <2>9, <3>1, Zenon
  <2>11. /\ half = "current1" => t.current2 = s.current2
         /\ half = "current2" => t.current1 = s.current1
         /\ t.out = s.out /\ t.data_sect = s.data_sect
    BY <2>10, StreamFieldNames
  <2>12. \A f \in Sections : t[f].read \in Nat
    <3>1. /\ s.data_sect.read \in Nat /\ s.inst_sect.read \in Nat /\ s.addr_sect.read \in Nat
          /\ IsSection(s.inst_sect) /\ IsSection(s.addr_sect)
      BY <1>1, SectionsAre DEF Valued, Sound
    <3>2. t.inst_sect.read = s.inst_sect.read + i
      BY <2>8, <2>10, <3>1, SectionFieldNames DEF IsSection
    <3>3. t.addr_sect.read = s.addr_sect.read + j
      BY <2>8, <2>10, <3>1, SectionFieldNames DEF IsSection
    <3> QED
      BY <2>11, <3>1, <3>2, <3>3, SectionsAre
  <2>13. IsCache(t.acache, s.s_near, s.s_same)
    <3>1. PICK near \in Nat, same \in Nat : near = s.s_near /\ same = s.s_same
      BY <1>1 DEF Valued
    <3>2. IsCache(UpdateCache(s.acache, d), near, same)
      BY <1>1, <3>1, CacheUpdated
    <3> QED
      BY <1>1, <2>8, <2>10, <3>1, <3>2, Zenon
  <2>14. h.type = type /\ h.size = k /\ h.addr = d /\ IsHalf(h)
    BY <2>6, <2>8 DEF IsHalf
  <2>15. /\ type >= XD3_CPY => d < s.position /\ (d < s.cpylen => (d + k) % Word <= s.cpylen)
         /\ (s.position + k) % Word <= s.maxpos
    BY <2>10 DEF InBounds
  <2>16. Reads(s, t)
    BY <1>2, <2>5, <2>9
  <2>17. t.position = IF h.type # XD3_NOOP THEN (s.position + h.size) % Word ELSE s.position
    BY <1>4, <2>10, <2>14
  <2>18. Emitting(t)
    BY <2>10, <2>11, <2>12, <2>13, <2>14, <2>15, <2>16, <2>17, HalfPlaced
  <2> QED
    BY <2>9, <2>11, <2>18
<1> QED
  BY <1>2, <1>3, <1>4

-----------------------------------------------------------------------------
(* The emit loop: what its steps have in common. *)

LEMMA EmittingStream ==
  ASSUME WindowInv, Case("DEC_EMIT")
  PROVE  Emitting(stream)
<1>1. stream.dec_state = "DEC_EMIT" /\ ret = "calling"
  BY DEF Case
<1>2. Legible(stream) /\ Sound(stream)
  BY <1>1, LegibleStream
<1>3. Valued(stream) /\ Accounted(stream)
  BY <1>1, WindowParts DEF OutputInv, Going
<1>4. IsCache(stream.acache, stream.s_near, stream.s_same) /\ stream.position <= stream.maxpos
  BY <1>1, WindowParts DEF Equipped, Planned, WindowStates, StartStates, EndStates, ReadOrEmit
<1> QED
  BY <1>2, <1>3, <1>4 DEF Emitting

(* How a step of the loop may end. *)
EmitAnswers ==
  {"calling", "XD3_GETSRCBLK", "getblk", "XD3_INVALID_INPUT", "XD3_UNIMPLEMENTED", "undefined"}

LEMMA EmitFits ==
  ASSUME WindowInv, DedeltaInv', UNCHANGED files, pc' = "process", Case("DEC_EMIT"),
         Reads(stream, stream'), Valued(stream'),
         IsCache(stream'.acache, stream.s_near, stream.s_same), stream'.position <= stream.maxpos,
         ret' \in EmitAnswers, ret' \in Going => Accounted(stream'), SourceInv'
  PROVE  WindowInv'
<1>1. /\ stream'.dec_state = "DEC_EMIT" /\ stream'.cpylen = stream.cpylen
      /\ stream'.tgtlen = stream.tgtlen /\ stream'.maxpos = stream.maxpos
      /\ stream'.s_near = stream.s_near /\ stream'.s_same = stream.s_same
      /\ stream'.hdr_ind = stream.hdr_ind /\ stream'.codetbl = stream.codetbl
  BY ReadsKeeps DEF Case
<1>2. stream.dec_state = "DEC_EMIT"
  BY DEF Case
<1>3. Equipped(stream) /\ Planned(stream) /\ FilesInv
  BY WindowParts
<1>4. Equipped(stream')
  <2>1. TableIn(stream') = TableIn(stream) /\ Modes(stream') = Modes(stream)
    BY <1>1 DEF TableIn, Modes
  <2> QED
    BY <1>1, <1>2, <1>3, <2>1 DEF Equipped, TableKnown
<1>5. Planned(stream')
  BY <1>1, <1>2, <1>3 DEF Planned
<1>6. OutputInv'
  BY <1>1 DEF OutputInv
<1>7. ReturnInv'
  BY DEF ReturnInv, EmitAnswers
<1>8. FilesInv'
  BY <1>3 DEF FilesInv, files
<1>9. SpareInv'
  <2>1. ASSUME NEW f \in Sections PROVE stream'[f].pos = 0
    <3>1. CountInv'
      BY DEF DedeltaInv, SectionInv
    <3>2. stream'.dec_state # Turn(f)
      BY <1>1, SectionsAre DEF Turn
    <3> QED
      BY <3>1, <3>2 DEF CountInv
  <2>2. /\ stream'.next_out = stream.next_out /\ stream'.space_out = stream.space_out
        /\ stream'.lastspace = stream.lastspace
    BY ReadsKeeps
  <2> QED
    BY <2>1, <2>2, WindowParts DEF SpareInv
<1> QED
  BY <1>4, <1>5, <1>6, <1>7, <1>8, <1>9 DEF WindowInv

(* A refusal changes nothing. *)
LEMMA RefuseFits ==
  ASSUME WindowInv, DedeltaInv', UNCHANGED files, pc' = "process", Case("DEC_EMIT"),
         stream' = stream, ret' \in EmitAnswers, SourceInv'
  PROVE  WindowInv'
<1>1. Emitting(stream)
  BY EmittingStream
<1>2. Reads(stream, stream')
  BY <1>1, ReadsNothing DEF Emitting
<1> QED
  BY <1>1, <1>2, EmitFits DEF Emitting

LEMMA SameSource == ASSUME WindowInv, source' = source, UNCHANGED files PROVE SourceInv'
  BY WindowParts DEF SourceInv, files, SourceFields, StackSource

(* A cursor moves. *)
LEMMA EmittingKept ==
  ASSUME NEW s, Emitting(s), NEW t, Reads(s, t), \A f \in Sections : t[f].read \in Nat,
         t.current1 = s.current1, t.current2 = s.current2, t.out = s.out,
         t.position = s.position, t.acache = s.acache
  PROVE  Emitting(t)
<1>1. /\ t.cpylen = s.cpylen /\ t.cpyoff = s.cpyoff /\ t.tgtlen = s.tgtlen /\ t.maxpos = s.maxpos
      /\ t.space_out = s.space_out /\ t.s_near = s.s_near /\ t.s_same = s.s_same
  BY ReadsKeeps
<1>2. Sound(s) /\ Legible(s) /\ Valued(s) /\ Accounted(s)
  BY DEF Emitting
<1>3. Sound(t) /\ Legible(t)
  BY <1>2, ReadsSound, LegibleKept
<1>4. Valued(t)
  <2>1. \A h \in Halves : t[h] = s[h]
    BY DEF Halves
  <2> QED
    BY <1>1, <1>2, <2>1 DEF Valued
<1>5. Accounted(t)
  BY <1>1, <1>2 DEF Accounted, Fair, Sum, ToWrite, CopyThere
<1> QED
  BY <1>1, <1>3, <1>4, <1>5 DEF Emitting

-----------------------------------------------------------------------------
(* The next instruction. *)

LEMMA ParseOpcodeFits ==
  ASSUME NEW s, Emitting(s), s.current1.type = XD3_NOOP, s.current2.type = XD3_NOOP,
         NEW d, IsOpcode(d, Modes(s)), NEW p, p = ParseOpcode(s, d)
  PROVE  /\ p.ret \in {"ok", "XD3_INVALID_INPUT"}
         /\ p.ret = "ok" => Emitting(p.s) /\ Reads(s, p.s)
<1>1. PICK t1 \in Nat, n1 \in Nat, t2 \in Nat, n2 \in Nat :
        t1 = d.type1 /\ n1 = d.size1 /\ t2 = d.type2 /\ n2 = d.size2
  BY DEF IsOpcode
<1>2. t1 < XD3_CPY + Modes(s) /\ t2 < XD3_CPY + Modes(s)
  BY <1>1 DEF IsOpcode
<1>3. PICK a : a = ParseHalf(s, "current1", t1, n1)
  OBVIOUS
<1>4. /\ a.ret \in {"ok", "XD3_INVALID_INPUT"}
      /\ a.ret = "ok" => Emitting(a.s) /\ Reads(s, a.s) /\ a.s.current2 = s.current2
  BY <1>2, <1>3, ParseHalfFits
<1>5. p = IF a.ret = "ok" THEN ParseHalf(a.s, "current2", t2, n2) ELSE a
  BY <1>1, <1>3, Zenon DEF ParseOpcode
<1>6. ASSUME a.ret = "ok"
      PROVE  /\ p.ret \in {"ok", "XD3_INVALID_INPUT"}
             /\ p.ret = "ok" => Emitting(p.s) /\ Reads(s, p.s)
  <2>1. Modes(a.s) = Modes(s)
    BY <1>4, <1>6, ReadsKeeps DEF Modes
  <2>2. p = ParseHalf(a.s, "current2", t2, n2) /\ a.s.current2.type = XD3_NOOP
    BY <1>4, <1>5, <1>6
  <2>3. /\ p.ret \in {"ok", "XD3_INVALID_INPUT"}
        /\ p.ret = "ok" => Emitting(p.s) /\ Reads(a.s, p.s)
    BY <1>2, <1>4, <1>6, <2>1, <2>2, ParseHalfFits
  <2> QED
    BY <1>4, <1>6, <2>3, ReadsOn
<1> QED
  BY <1>4, <1>5, <1>6

LEMMA HeadOf == ASSUME NEW S, NEW v \in Seq(S), v # <<>> PROVE Head(v) \in S
  OBVIOUS

LEMMA EmitInstructionFits ==
  ASSUME WindowInv, DedeltaInv', EmitInstruction, UNCHANGED files, pc' = "process"
  PROVE  WindowInv' /\ ret' # "undefined"
<1>1. Case("DEC_EMIT") /\ source' = source /\ Pending = {} /\ Unread(stream.inst_sect) # <<>>
  BY DEF EmitInstruction, EmitCase
<1>2. Emitting(stream) /\ stream.dec_state = "DEC_EMIT" /\ ret = "calling" /\ Equipped(stream)
  BY <1>1, EmittingStream, WindowParts DEF Case
<1>3. Sound(stream) /\ IsStream(stream) /\ Legible(stream) /\ Valued(stream)
  BY <1>2 DEF Emitting, Sound
<1>4. PICK i \in Nat : i = stream.inst_sect.read + 1
  BY <1>3, SectionsAre, SMTT(20) DEF Valued
<1>5. PICK s : s = [stream EXCEPT !.inst_sect.read = i]
  OBVIOUS
<1>6. PICK d : d = CodeTable[Head(Unread(stream.inst_sect))]
  OBVIOUS
<1>7. PICK p : p = ParseOpcode(s, d)
  OBVIOUS
<1>8. IF p.ret = "ok" THEN stream' = p.s /\ ret' = ret ELSE stream' = stream /\ ret' = p.ret
  BY <1>4, <1>5, <1>6, <1>7 DEF EmitInstruction, EmitCase, Case, Goto, Return
<1>9. /\ IsStream(s)
      /\ \A g \in StreamFields : g = "inst_sect" \/ s[g] = stream[g]
      /\ s.inst_sect = [stream.inst_sect EXCEPT !.read = i]
  BY <1>3, <1>5, StreamFieldNames, SMTT(30) DEF IsStream
<1>10. s.data_sect = stream.data_sect /\ s.addr_sect = stream.addr_sect
  BY <1>9, StreamFieldNames
<1>11. Reads(stream, s)
  <2>1. \A g \in StreamFields : g \in EmitFields \/ g \in Sections \/ s[g] = stream[g]
    BY <1>9, SectionsAre
  <2>2. \A f \in Sections : s[f] = stream[f] \/ \E v : s[f] = [stream[f] EXCEPT !.read = v]
    <3>1. \E v : s["inst_sect"] = [stream["inst_sect"] EXCEPT !.read = v]
      BY <1>9, Zenon
    <3>2. s["data_sect"] = stream["data_sect"] /\ s["addr_sect"] = stream["addr_sect"]
      BY <1>10
    <3>3. ASSUME NEW f \in Sections
          PROVE  s[f] = stream[f] \/ \E v : s[f] = [stream[f] EXCEPT !.read = v]
        <4>1. CASE f = "inst_sect"
          BY <3>1, <4>1
        <4>2. CASE f = "data_sect"
          BY <3>2, <4>2
        <4>3. CASE f = "addr_sect"
          BY <3>2, <4>3
        <4> QED
          BY <4>1, <4>2, <4>3, SectionsAre
    <3> QED
      BY <3>3
  <2> QED
    BY <1>3, <1>9, <2>1, <2>2, CursorsMove
<1>12. Emitting(s)
  <2>1. /\ s.current1 = stream.current1 /\ s.current2 = stream.current2 /\ s.out = stream.out
        /\ s.position = stream.position /\ s.acache = stream.acache
    BY <1>9, StreamFieldNames
  <2>2. s.inst_sect.read = i
    <3>1. IsSection(stream.inst_sect)
      BY <1>3, SectionsAre DEF Sound
    <3> QED
      BY <1>9, <3>1, SectionFieldNames DEF IsSection
  <2>3. \A f \in Sections : s[f].read \in Nat
    BY <1>3, <1>4, <1>10, <2>2, SectionsAre, SMTT(20) DEF Valued
  <2> QED
    BY <1>2, <1>11, <2>1, <2>3, EmittingKept
<1>13. s.current1.type = XD3_NOOP /\ s.current2.type = XD3_NOOP
  <2>1. s.current1 = stream.current1 /\ s.current2 = stream.current2
    BY <1>9, StreamFieldNames
  <2>2. stream.current1.type = XD3_NOOP /\ stream.current2.type = XD3_NOOP
    BY <1>1 DEF Pending
  <2> QED
    BY <2>1, <2>2
<1>14. IsOpcode(d, Modes(s))
  <2>1. PICK u \in Seq(0..255) : u = Unread(stream.inst_sect)
    BY <1>3, UnreadType, SectionsAre
  <2>2. Head(u) \in 0..255
    <3>1. \A v \in Seq(0..255) : v # <<>> => Head(v) \in 0..255
      BY HeadOf, SMTT(20)
    <3> QED
      BY <1>1, <2>1, <3>1
  <2>3. CodeTable = TableIn(stream)
    BY SMTT(20) DEF CodeTable, TableIn, HasTable
  <2>4. \A code \in 0..255 : IsOpcode(TableIn(stream)[code], Modes(stream))
    BY <1>2 DEF Equipped, TableKnown, TableStates
  <2>5. Modes(s) = Modes(stream)
    BY <1>11, ReadsKeeps DEF Modes
  <2>6. IsOpcode(TableIn(stream)[Head(u)], Modes(stream))
    BY ONLY <2>2, <2>4, Zenon
  <2> QED
    BY <1>6, <2>1, <2>3, <2>5, <2>6
<1>15. /\ p.ret \in {"ok", "XD3_INVALID_INPUT"}
       /\ p.ret = "ok" => Emitting(p.s) /\ Reads(s, p.s)
  BY <1>7, <1>12, <1>13, <1>14, ParseOpcodeFits
<1>16. SourceInv'
  BY <1>1, SameSource
<1>17. CASE p.ret = "ok"
  <2>1. stream' = p.s /\ ret' = "calling" /\ Emitting(stream') /\ Reads(stream, stream')
    BY <1>2, <1>8, <1>11, <1>15, <1>17, ReadsOn
  <2>2. /\ stream'.maxpos = stream.maxpos /\ stream'.s_near = stream.s_near
        /\ stream'.s_same = stream.s_same
    BY <2>1, ReadsKeeps
  <2>3. /\ Valued(stream') /\ Accounted(stream') /\ stream'.position <= stream.maxpos
        /\ IsCache(stream'.acache, stream.s_near, stream.s_same)
    BY <2>1, <2>2 DEF Emitting
  <2>4. ret' \in EmitAnswers
    BY <2>1 DEF EmitAnswers
  <2> QED
    BY <1>1, <1>16, <2>1, <2>3, <2>4, EmitFits
<1>18. CASE p.ret # "ok"
  <2>1. stream' = stream /\ ret' \in EmitAnswers /\ ret' # "undefined"
    BY <1>8, <1>15, <1>18 DEF EmitAnswers
  <2> QED
    BY <1>1, <1>16, <2>1, RefuseFits
<1> QED
  BY <1>17, <1>18

-----------------------------------------------------------------------------
(* A half instruction writes. *)

(* h is what is left of the half g after n bytes were written: nothing, or *)
(* the rest of a copy from the copy window.                                *)
Left(g, h, n, cpylen) ==
  /\ IsHalf(h)
  /\ \/ h.type = XD3_NOOP /\ n = g.size
     \/ /\ h.type = g.type /\ g.type >= XD3_CPY /\ g.addr < cpylen
        /\ h.size + n = g.size /\ h.size > 0 /\ h.addr = g.addr + n

LEMMA WriteKeeps ==
  ASSUME NEW s, Emitting(s), NEW f, f = "current1" \/ f = "current2",
         f = "current2" => s.current1.type = XD3_NOOP, s[f].type # XD3_NOOP,
         NEW t, Reads(s, t), NEW b \in Seq(Nat), t.out = s.out \o b,
         NEW h, Left(s[f], h, Len(b), s.cpylen), t[f] = h,
         f = "current1" => t.current2 = s.current2, f = "current2" => t.current1 = s.current1,
         t.position = s.position, t.acache = s.acache, \A g \in Sections : t[g].read \in Nat
  PROVE  Emitting(t)
<1>1. /\ t.cpylen = s.cpylen /\ t.cpyoff = s.cpyoff /\ t.tgtlen = s.tgtlen /\ t.maxpos = s.maxpos
      /\ t.space_out = s.space_out /\ t.s_near = s.s_near /\ t.s_same = s.s_same
  BY ReadsKeeps
<1>2. Sound(s) /\ Legible(s) /\ Valued(s) /\ Accounted(s)
  BY DEF Emitting
<1>3. Sound(t) /\ Legible(t)
  BY <1>2, ReadsSound, LegibleKept
<1>4. IsHalf(h) /\ IsHalf(s.current1) /\ IsHalf(s.current2) /\ s.out \in Seq(Nat) /\ s.cpylen \in Nat
      /\ s.position \in Nat
  BY <1>2 DEF Left, Valued, Halves
<1>5. PICK k \in Nat, c \in Nat, l \in Nat, p \in Nat :
        k = Len(b) /\ c = s.cpylen /\ l = Len(s.out) /\ p = s.position
  BY <1>4
<1>6. PICK y \in Nat, n \in Nat, a \in Nat : h.type = y /\ h.size = n /\ h.addr = a
  BY <1>4 DEF IsHalf
<1>7. t.out \in Seq(Nat) /\ Len(t.out) = l + k
  BY <1>4, <1>5
<1>8. PICK v1 \in Nat, v2 \in Nat : v1 = ToWrite(s, "current1") /\ v2 = ToWrite(s, "current2")
  BY <1>4 DEF ToWrite, IsHalf
<1>9. Sum(s) = c + l + v1 + v2
  BY <1>5, <1>8 DEF Sum
<1>10. PICK u \in Nat : u = IF y # XD3_NOOP THEN n ELSE 0
  OBVIOUS
<1>11. PICK z \in Nat, m \in Nat, d \in Nat : s[f].type = z /\ s[f].size = m /\ s[f].addr = d
  BY <1>4 DEF IsHalf
<1>12. u + k = m
  BY <1>5, <1>6, <1>10, <1>11 DEF Left, XD3_NOOP, XD3_CPY
<1>13. Valued(t)
  <2>1. \A g \in Halves : IsHalf(t[g])
    <3>1. ASSUME NEW g \in Halves PROVE IsHalf(t[g])
      <4>1. t[g] = h \/ t[g] = s[g]
        BY DEF Halves
      <4> QED
        BY <1>2, <1>4, <4>1 DEF Valued
    <3> QED
      BY <3>1
  <2> QED
    BY <1>1, <1>2, <1>7, <2>1 DEF Valued
<1>14. ASSUME Fair(s), y >= XD3_CPY PROVE a < c /\ a + n <= c
  <2>1. z >= XD3_CPY /\ d < c /\ n + k = m /\ a = d + k /\ n > 0
    BY <1>5, <1>6, <1>11, <1>14 DEF Left, XD3_NOOP, XD3_CPY
  <2>2. d + m <= c
    <3>1. CopyThere(s, f, IF f = "current1" THEN 0 ELSE v1)
      BY <1>8, <1>14 DEF Fair
    <3> QED
      BY <1>5, <1>11, <2>1, <3>1 DEF CopyThere
  <2> QED
    BY <2>1, <2>2
<1>15. ASSUME Fair(s), NEW before PROVE CopyThere(t, f, before)
  BY <1>1, <1>5, <1>6, <1>14, <1>15 DEF CopyThere
<1>16. ASSUME f = "current1" PROVE Accounted(t)
  <2>1. v1 = m
    BY <1>8, <1>11, <1>16 DEF ToWrite
  <2>2. ToWrite(t, "current1") = u /\ ToWrite(t, "current2") = v2
    BY <1>6, <1>8, <1>10, <1>16 DEF ToWrite
  <2>3. Sum(t) = Sum(s)
    <3>1. c + (l + k) + u + v2 = c + l + v1 + v2
      BY <1>12, <2>1
    <3> QED
      BY <1>1, <1>5, <1>7, <1>9, <2>2, <3>1 DEF Sum
  <2>4. ASSUME Fair(s) PROVE CopyThere(t, "current2", u)
    <3>1. CopyThere(s, "current2", v1)
      BY <1>8, <2>4 DEF Fair
    <3>2. c + (l + k) + u = c + l + v1
      BY <1>12, <2>1
    <3>3. t.current2 = s.current2 /\ t.cpylen + Len(t.out) + u = s.cpylen + Len(s.out) + v1
      BY <1>1, <1>5, <1>7, <1>16, <3>2
    <3> QED
      BY <1>1, <3>1, <3>3 DEF CopyThere
  <2>5. Fair(s) => Fair(t)
    BY <1>15, <1>16, <2>2, <2>3, <2>4 DEF Fair
  <2> QED
    BY <1>1, <1>2, <2>3, <2>5 DEF Accounted
<1>17. ASSUME f = "current2" PROVE Accounted(t)
  <2>1. v1 = 0 /\ v2 = m
    BY <1>8, <1>11, <1>17 DEF ToWrite
  <2>2. ToWrite(t, "current1") = 0 /\ ToWrite(t, "current2") = u
    BY <1>6, <1>10, <1>17 DEF ToWrite
  <2>3. Sum(t) = Sum(s)
    <3>1. c + (l + k) + 0 + u = c + l + v1 + v2
      BY <1>12, <2>1
    <3> QED
      BY <1>1, <1>5, <1>7, <1>9, <2>2, <3>1 DEF Sum
  <2>4. CopyThere(t, "current1", 0)
    BY <1>17 DEF CopyThere, XD3_NOOP, XD3_CPY
  <2>5. Fair(s) => Fair(t)
    BY <1>15, <1>17, <2>2, <2>3, <2>4 DEF Fair
  <2> QED
    BY <1>1, <1>2, <2>3, <2>5 DEF Accounted
<1>19. Accounted(t)
  BY <1>16, <1>17
<1>18. t.position <= t.maxpos /\ IsCache(t.acache, t.s_near, t.s_same)
  BY <1>1 DEF Emitting
<1> QED
  BY <1>3, <1>13, <1>18, <1>19 DEF Emitting

(* The half whose turn it is. *)
LEMMA HalfTurn ==
  ASSUME Pending # {}
  PROVE  /\ stream[Half].type # XD3_NOOP
         /\ Half = "current2" => stream.current1.type = XD3_NOOP
  BY DEF Pending, Half

(* A half is spent. *)
LEMMA SpentLeft ==
  ASSUME NEW g, IsHalf(g), NEW h, h = [g EXCEPT !.type = XD3_NOOP], NEW n, n = g.size, NEW cpylen
  PROVE  Left(g, h, n, cpylen) /\ Left(g, [h EXCEPT !.size = 0], n, cpylen)
  BY DEF Left, IsHalf, XD3_NOOP

(* A step of the loop that writes. *)
Writes(b, f, h) ==
  /\ Case("DEC_EMIT") /\ Pending # {} /\ f = Half /\ (f = "current1" \/ f = "current2")
  /\ b \in Seq(Nat) /\ Left(stream[f], h, Len(b), stream.cpylen)
  /\ stream'.out = stream.out \o b /\ stream'[f] = h /\ ret' = ret
  /\ IsStream(stream')
  /\ \A g \in StreamFields : g = "out" \/ g = f \/ g = "data_sect" \/ stream'[g] = stream[g]
  /\ \/ stream'.data_sect = stream.data_sect
     \/ \E v \in Nat : stream'.data_sect = [stream.data_sect EXCEPT !.read = v]

LEMMA WritesFits ==
  ASSUME WindowInv, DedeltaInv', UNCHANGED files, pc' = "process", NEW b, NEW f, NEW h, Writes(b, f, h),
         SourceInv'
  PROVE  WindowInv'
<1>1. Emitting(stream) /\ stream.dec_state = "DEC_EMIT" /\ ret = "calling"
  BY EmittingStream DEF Writes, Case
<1>2. Sound(stream) /\ Valued(stream)
  BY <1>1 DEF Emitting
<1>3. /\ f = Half /\ (f = "current1" \/ f = "current2") /\ stream[f].type # XD3_NOOP
      /\ f = "current2" => stream.current1.type = XD3_NOOP
  BY HalfTurn DEF Writes
<1>4. /\ stream'.inst_sect = stream.inst_sect /\ stream'.addr_sect = stream.addr_sect
      /\ stream'.position = stream.position /\ stream'.acache = stream.acache
      /\ f = "current1" => stream'.current2 = stream.current2
      /\ f = "current2" => stream'.current1 = stream.current1
  BY <1>3, StreamFieldNames DEF Writes
<1>5. \A g \in Sections : stream'[g].read \in Nat
  <2>1. stream.data_sect.read \in Nat /\ stream.inst_sect.read \in Nat /\ stream.addr_sect.read \in Nat
        /\ IsSection(stream.data_sect)
    BY <1>2, SectionsAre DEF Valued, Sound
  <2>2. stream'.data_sect.read \in Nat
    <3>1. ASSUME NEW v \in Nat, stream'.data_sect = [stream.data_sect EXCEPT !.read = v]
          PROVE  stream'.data_sect.read \in Nat
      BY <2>1, <3>1, SectionFieldNames DEF IsSection
    <3> QED
      BY <2>1, <3>1 DEF Writes
  <2> QED
    BY <1>4, <2>1, <2>2, SectionsAre
<1>6. Reads(stream, stream')
  <2>1. \A g \in StreamFields : g \in EmitFields \/ g \in Sections \/ stream'[g] = stream[g]
    BY <1>3, SectionsAre DEF EmitFields, Writes
  <2>2. \A g \in Sections : stream'[g] = stream[g] \/ \E v : stream'[g] = [stream[g] EXCEPT !.read = v]
    <3>1. stream'.data_sect = stream.data_sect
            \/ \E v : stream'.data_sect = [stream.data_sect EXCEPT !.read = v]
      BY DEF Writes
    <3>2. ASSUME NEW g \in Sections
          PROVE  stream'[g] = stream[g] \/ \E v : stream'[g] = [stream[g] EXCEPT !.read = v]
      <4>1. CASE g = "data_sect"
        BY <3>1, <4>1
      <4>2. CASE g # "data_sect"
        BY <1>4, <4>2, SectionsAre
      <4> QED
        BY <4>1, <4>2
    <3> QED
      BY <3>2
  <2>3. IsStream(stream')
    BY DEF Writes
  <2> QED
    BY <1>2, <2>1, <2>2, <2>3, CursorsMove
<1>7. Emitting(stream')
  <2>1. /\ b \in Seq(Nat) /\ stream'.out = stream.out \o b /\ stream'[f] = h
        /\ Left(stream[f], h, Len(b), stream.cpylen)
    BY DEF Writes
  <2> QED
    BY <1>1, <1>3, <1>4, <1>5, <1>6, <2>1, WriteKeeps
<1>8. /\ stream'.maxpos = stream.maxpos /\ stream'.s_near = stream.s_near
      /\ stream'.s_same = stream.s_same
  BY <1>6, ReadsKeeps
<1>9. /\ Valued(stream') /\ Accounted(stream') /\ stream'.position <= stream.maxpos
      /\ IsCache(stream'.acache, stream.s_near, stream.s_same)
  BY <1>7, <1>8 DEF Emitting
<1>10. ret' \in EmitAnswers /\ Case("DEC_EMIT")
  BY <1>1 DEF Writes, EmitAnswers
<1> QED
  BY <1>6, <1>9, <1>10, EmitFits

(* The output and a half changed, and the data's cursor perhaps. *)
WroteTo(s, t, f, o, h) ==
  /\ IsStream(t) /\ t.out = o /\ t[f] = h
  /\ \A g \in StreamFields : g = "out" \/ g = f \/ g = "data_sect" \/ t[g] = s[g]
DataKept(s, t) == t.data_sect = s.data_sect
DataRead(s, t, i) == t.data_sect = [s.data_sect EXCEPT !.read = i]

LEMMA Wrote ==
  ASSUME NEW s, IsStream(s), NEW f, f = "current1" \/ f = "current2", NEW o, NEW h, NEW t,
         t = [s EXCEPT !.out = o, ![f] = h]
  PROVE  WroteTo(s, t, f, o, h) /\ DataKept(s, t)
<1>1. CASE f = "current1"
  <2>1. IsStream(t)
    BY <1>1, StreamFieldNames, ZenonT(30) DEF IsStream
  <2>2. t.out = o
    BY <1>1, StreamFieldNames, ZenonT(30) DEF IsStream
  <2>3. t[f] = h
    BY <1>1, StreamFieldNames, ZenonT(30) DEF IsStream
  <2>4. \A g \in StreamFields : g = "out" \/ g = f \/ t[g] = s[g]
    BY <1>1, StreamFieldNames, ZenonT(30) DEF IsStream
  <2> QED
    BY <1>1, <2>1, <2>2, <2>3, <2>4, StreamFieldNames DEF WroteTo, DataKept
<1>2. CASE f = "current2"
  <2>1. IsStream(t)
    BY <1>2, StreamFieldNames, ZenonT(30) DEF IsStream
  <2>2. t.out = o
    BY <1>2, StreamFieldNames, ZenonT(30) DEF IsStream
  <2>3. t[f] = h
    BY <1>2, StreamFieldNames, ZenonT(30) DEF IsStream
  <2>4. \A g \in StreamFields : g = "out" \/ g = f \/ t[g] = s[g]
    BY <1>2, StreamFieldNames, ZenonT(30) DEF IsStream
  <2> QED
    BY <1>2, <2>1, <2>2, <2>3, <2>4, StreamFieldNames DEF WroteTo, DataKept
<1> QED
  BY <1>1, <1>2

LEMMA WroteData ==
  ASSUME NEW s, IsStream(s), NEW f, f = "current1" \/ f = "current2", NEW o, NEW h, NEW i, NEW t,
         t = [s EXCEPT !.out = o, !.data_sect.read = i, ![f] = h]
  PROVE  WroteTo(s, t, f, o, h) /\ DataRead(s, t, i)
<1>1. CASE f = "current1"
  <2>1. IsStream(t)
    BY <1>1, StreamFieldNames, ZenonT(30) DEF IsStream
  <2>2. t.out = o
    BY <1>1, StreamFieldNames, ZenonT(30) DEF IsStream
  <2>3. t[f] = h
    BY <1>1, StreamFieldNames, ZenonT(30) DEF IsStream
  <2>4. t.data_sect = [s.data_sect EXCEPT !.read = i]
    BY <1>1, StreamFieldNames, ZenonT(30) DEF IsStream
  <2>5. \A g \in StreamFields : g = "out" \/ g = f \/ g = "data_sect" \/ t[g] = s[g]
    BY <1>1, StreamFieldNames, ZenonT(30) DEF IsStream
  <2> QED
    BY <2>1, <2>2, <2>3, <2>4, <2>5 DEF WroteTo, DataRead
<1>2. CASE f = "current2"
  <2>1. IsStream(t)
    BY <1>2, StreamFieldNames, ZenonT(30) DEF IsStream
  <2>2. t.out = o
    BY <1>2, StreamFieldNames, ZenonT(30) DEF IsStream
  <2>3. t[f] = h
    BY <1>2, StreamFieldNames, ZenonT(30) DEF IsStream
  <2>4. t.data_sect = [s.data_sect EXCEPT !.read = i]
    BY <1>2, StreamFieldNames, ZenonT(30) DEF IsStream
  <2>5. \A g \in StreamFields : g = "out" \/ g = f \/ g = "data_sect" \/ t[g] = s[g]
    BY <1>2, StreamFieldNames, ZenonT(30) DEF IsStream
  <2> QED
    BY <2>1, <2>2, <2>3, <2>4, <2>5 DEF WroteTo, DataRead
<1> QED
  BY <1>1, <1>2

LEMMA EmitRunFits ==
  ASSUME WindowInv, DedeltaInv', EmitRun, UNCHANGED files, pc' = "process"
  PROVE  WindowInv'
<1>1. Case("DEC_EMIT") /\ source' = source /\ Pending # {}
  BY DEF EmitRun, EmitHalfCase, EmitCase
<1>2. Emitting(stream) /\ ret = "calling" /\ SourceInv'
  BY <1>1, EmittingStream, SameSource DEF Case
<1>3. Sound(stream) /\ IsStream(stream) /\ Legible(stream) /\ Valued(stream)
  BY <1>2 DEF Emitting, Sound
<1>4. PICK f : f = Half /\ (f = "current1" \/ f = "current2")
  BY HalfIs
<1>5. PICK data \in Seq(0..255) : data = Unread(stream.data_sect)
  BY <1>3, UnreadType, SectionsAre
<1>6. IsHalf(stream[f])
  BY <1>3, <1>4 DEF Valued, Halves
<1>7. PICK n \in Nat : n = stream[f].size
  BY <1>6 DEF IsHalf
<1>8. PICK i \in Nat : i = stream.data_sect.read + 1
  BY <1>3, SectionsAre, SMTT(20) DEF Valued
<1>9. PICK b : b = [k \in 1..n |-> data[1]]
  OBVIOUS
<1>10. PICK h : h = Spent
  OBVIOUS
<1>11. PICK o : o = stream.out \o b
  OBVIOUS
<1>12. \/ stream' = stream /\ ret' \in EmitAnswers
       \/ /\ data # <<>> /\ ret' = ret
          /\ stream' = [stream EXCEPT !.out = o, !.data_sect.read = i, ![f] = h]
  BY <1>4, <1>5, <1>7, <1>8, <1>9, <1>10, <1>11
  DEF EmitRun, Output, Undefined, Goto, Return, Refuse, EmitAnswers
<1>13. CASE stream' = stream /\ ret' \in EmitAnswers
  BY <1>1, <1>2, <1>13, RefuseFits
<1>14. CASE /\ data # <<>> /\ ret' = ret
            /\ stream' = [stream EXCEPT !.out = o, !.data_sect.read = i, ![f] = h]
  <2>1. stream' = [stream EXCEPT !.out = o, !.data_sect.read = i, ![f] = h] /\ ret' = ret
    BY <1>14
  <2>2. PICK x \in Nat : x = data[1]
    <3>1. Head(data) \in 0..255 /\ Head(data) = data[1]
      BY <1>14, HeadOf
    <3>2. \A x \in 0..255 : x \in Nat
      OBVIOUS
    <3> QED
      BY <3>1, <3>2, Zenon
  <2>3. b = [k \in 1..n |-> x]
    BY <1>9, <2>2
  <2>4. b \in Seq(Nat) /\ Len(b) = n
    BY <2>3
  <2>5. Left(stream[f], h, Len(b), stream.cpylen)
    BY <1>4, <1>6, <1>7, <1>10, <2>4, SpentLeft DEF Spent
  <2>6. WroteTo(stream, stream', f, o, h) /\ DataRead(stream, stream', i)
    BY <1>3, <1>4, <2>1, WroteData
  <2>7. Writes(b, f, h)
    BY <1>1, <1>4, <1>8, <1>11, <2>1, <2>4, <2>5, <2>6 DEF Writes, WroteTo, DataRead
  <2> QED
    BY <1>2, <2>7, WritesFits
<1> QED
  BY <1>12, <1>13, <1>14

LEMMA EmitAddFits ==
  ASSUME WindowInv, DedeltaInv', EmitAdd, UNCHANGED files, pc' = "process"
  PROVE  WindowInv'
<1>1. Case("DEC_EMIT") /\ source' = source /\ Pending # {}
  BY DEF EmitAdd, EmitHalfCase, EmitCase
<1>2. Emitting(stream) /\ ret = "calling" /\ SourceInv'
  BY <1>1, EmittingStream, SameSource DEF Case
<1>3. Sound(stream) /\ IsStream(stream) /\ Legible(stream) /\ Valued(stream)
  BY <1>2 DEF Emitting, Sound
<1>4. PICK f : f = Half /\ (f = "current1" \/ f = "current2")
  BY HalfIs
<1>5. PICK data \in Seq(0..255) : data = Unread(stream.data_sect)
  BY <1>3, UnreadType, SectionsAre
<1>6. IsHalf(stream[f])
  BY <1>3, <1>4 DEF Valued, Halves
<1>7. PICK n \in Nat : n = stream[f].size
  BY <1>6 DEF IsHalf
<1>8. PICK i \in Nat : i = stream.data_sect.read + stream[f].size
  <2>1. stream.data_sect.read \in Nat
    BY <1>3, SectionsAre DEF Valued
  <2> QED
    BY <1>7, <2>1
<1>9. PICK b : b = SubSeq(data, 1, n)
  OBVIOUS
<1>10. PICK h : h = Spent
  OBVIOUS
<1>11. PICK o : o = stream.out \o b
  OBVIOUS
<1>12. \/ stream' = stream /\ ret' \in EmitAnswers
       \/ /\ ~(n > Len(data)) /\ ret' = ret
          /\ stream' = [stream EXCEPT !.out = o, !.data_sect.read = i, ![f] = h]
  BY <1>4, <1>5, <1>7, <1>8, <1>9, <1>10, <1>11
  DEF EmitAdd, Output, Undefined, Goto, Return, Refuse, EmitAnswers
<1>13. CASE stream' = stream /\ ret' \in EmitAnswers
  BY <1>1, <1>2, <1>13, RefuseFits
<1>14. CASE /\ ~(n > Len(data)) /\ ret' = ret
            /\ stream' = [stream EXCEPT !.out = o, !.data_sect.read = i, ![f] = h]
  <2>1. stream' = [stream EXCEPT !.out = o, !.data_sect.read = i, ![f] = h] /\ ret' = ret
    BY <1>14
  <2>2. PICK d \in Seq(Nat) : d = data
    BY BytesAreNumbers
  <2>3. n <= Len(d)
    BY <1>14, <2>2
  <2>4. b \in Seq(Nat) /\ Len(b) = n
    BY ONLY <1>9, <2>2, <2>3, n \in Nat, d \in Seq(Nat), Prefix
  <2>5. Left(stream[f], h, Len(b), stream.cpylen)
    BY <1>4, <1>6, <1>7, <1>10, <2>4, SpentLeft DEF Spent
  <2>6. WroteTo(stream, stream', f, o, h) /\ DataRead(stream, stream', i)
    BY <1>3, <1>4, <2>1, WroteData
  <2>7. Writes(b, f, h)
    BY <1>1, <1>4, <1>8, <1>11, <2>1, <2>4, <2>5, <2>6 DEF Writes, WroteTo, DataRead
  <2> QED
    BY <1>2, <2>7, WritesFits
<1> QED
  BY <1>12, <1>13, <1>14

-----------------------------------------------------------------------------
(* The source's record. *)

IsSource(s) == s = [f \in SourceFields |-> s[f]]

LEMMA SourceFieldNames ==
  SourceFields = {"blksize", "curblkno", "curblk", "onblk", "getblkno", "max_blkno", "onlastblk",
                  "frontier_blkno", "eof_known", "max_winsize"}
  BY DEF SourceFields, StackSource

SameBlock(x, y) ==
  IsSource(y) /\ y.blksize = x.blksize /\ y.curblk = x.curblk /\ y.getblkno = x.getblkno

LEMMA FrontierMoves ==
  ASSUME NEW x, IsSource(x), NEW m, NEW l, NEW f, NEW e,
         NEW y, y = [x EXCEPT !.max_blkno = m, !.onlastblk = l, !.frontier_blkno = f, !.eof_known = e]
  PROVE  SameBlock(x, y)
<1>1. IsSource(y)
  BY SourceFieldNames, ZenonT(30) DEF IsSource
<1>2. y.blksize = x.blksize /\ y.curblk = x.curblk /\ y.getblkno = x.getblkno
  BY SourceFieldNames, ZenonT(30) DEF IsSource
<1> QED
  BY <1>1, <1>2 DEF SameBlock

LEMMA LastBlockMoves ==
  ASSUME NEW x, IsSource(x), NEW l, NEW f, NEW y, y = [x EXCEPT !.onlastblk = l, !.frontier_blkno = f]
  PROVE  SameBlock(x, y)
<1>1. IsSource(y)
  BY SourceFieldNames, ZenonT(30) DEF IsSource
<1>2. y.blksize = x.blksize /\ y.curblk = x.curblk /\ y.getblkno = x.getblkno
  BY SourceFieldNames, ZenonT(30) DEF IsSource
<1> QED
  BY <1>1, <1>2 DEF SameBlock

LEMMA BlockKnownKeeps ==
  ASSUME NEW s, IsSource(s), NEW blkno, NEW t, t = BlockKnown(s, blkno)
  PROVE  SameBlock(s, t)
<1>1. PICK n : n = [s EXCEPT !.max_blkno = IF blkno > @ THEN blkno ELSE @,
                             !.onlastblk = IF blkno > s.max_blkno THEN s.onblk ELSE @,
                             !.frontier_blkno = IF s.onblk = s.blksize THEN blkno + 1 ELSE blkno,
                             !.eof_known = IF s.onblk = s.blksize THEN @ ELSE TRUE]
  OBVIOUS
<1>2. PICK u : u = IF ~(blkno >= s.frontier_blkno) THEN s ELSE n
  OBVIOUS
<1>3. PICK w : w = [u EXCEPT !.onlastblk = u.onblk,
                             !.frontier_blkno = IF s.onblk = s.blksize THEN blkno + 1 ELSE @]
  OBVIOUS
<1>4. t = IF blkno # u.max_blkno THEN u ELSE w
  BY <1>1, <1>2, <1>3 DEF BlockKnown
<1>5. SameBlock(s, n)
  <2>1. PICK m : m = IF blkno > s.max_blkno THEN blkno ELSE s.max_blkno
    OBVIOUS
  <2>2. PICK l : l = IF blkno > s.max_blkno THEN s.onblk ELSE s.onlastblk
    OBVIOUS
  <2>3. PICK f : f = IF s.onblk = s.blksize THEN blkno + 1 ELSE blkno
    OBVIOUS
  <2>4. PICK e : e = IF s.onblk = s.blksize THEN s.eof_known ELSE TRUE
    OBVIOUS
  <2>5. n = [s EXCEPT !.max_blkno = m, !.onlastblk = l, !.frontier_blkno = f, !.eof_known = e]
    BY <1>1, <2>1, <2>2, <2>3, <2>4, Zenon
  <2> QED
    BY <2>5, FrontierMoves
<1>6. SameBlock(s, u)
  BY <1>2, <1>5 DEF SameBlock
<1>7. SameBlock(u, w)
  <2>1. PICK l : l = u.onblk
    OBVIOUS
  <2>2. PICK f : f = IF s.onblk = s.blksize THEN blkno + 1 ELSE u.frontier_blkno
    OBVIOUS
  <2>3. w = [u EXCEPT !.onlastblk = l, !.frontier_blkno = f]
    BY <1>3, <2>1, <2>2, Zenon
  <2>4. IsSource(u)
    BY <1>6 DEF SameBlock
  <2> QED
    BY <2>3, <2>4, LastBlockMoves
<1> QED
  BY <1>4, <1>6, <1>7 DEF SameBlock

LEMMA SourceKept ==
  ASSUME WindowInv, UNCHANGED files, IsSource(source'), source'.blksize = source.blksize,
         source'.curblk = source.curblk, source'.getblkno \in Nat
  PROVE  SourceInv'
<1>1. SourceInv /\ CHUNK' = CHUNK
  BY WindowParts DEF files
<1>2. SourceFields' = SourceFields
  BY DEF SourceFields, StackSource
<1> QED
  BY <1>1, <1>2 DEF SourceInv, IsSource

-----------------------------------------------------------------------------
(* Copies. *)

(* What a copy has to do, in numbers. *)
LEMMA CopyHalf ==
  ASSUME WindowInv, Case("DEC_EMIT"), Pending # {}
  PROVE  \E f : /\ f = Half /\ (f = "current1" \/ f = "current2") /\ IsHalf(stream[f])
                /\ Fair(stream) => CopyThere(stream, f, 0)
<1>1. Emitting(stream)
  BY EmittingStream
<1>2. PICK f : f = Half /\ (f = "current1" \/ f = "current2")
  BY HalfIs
<1>3. IsHalf(stream[f])
  BY <1>1, <1>2 DEF Emitting, Valued, Halves
<1>4. ASSUME Fair(stream) PROVE CopyThere(stream, f, 0)
  <2>1. CASE f = "current1"
    BY <1>4, <2>1 DEF Fair
  <2>2. CASE f = "current2"
    <3>1. ToWrite(stream, "current1") = 0
      BY <1>2, <2>2, HalfTurn DEF ToWrite
    <3>2. CopyThere(stream, "current2", ToWrite(stream, "current1"))
      BY <1>4 DEF Fair
    <3> QED
      BY <2>2, <3>1, <3>2
  <2> QED
    BY <1>2, <2>1, <2>2
<1> QED
  BY <1>2, <1>3, <1>4

(* A copy's output. *)
LEMMA CopyFits ==
  ASSUME WindowInv, DedeltaInv', UNCHANGED files, pc' = "process", Case("DEC_EMIT"), Pending # {},
         NEW f, f = Half, f = "current1" \/ f = "current2", NEW b \in Seq(Nat), NEW h, NEW n,
         Left(stream[f], h, Len(b), stream.cpylen),
         Output(n, [stream EXCEPT !.out = @ \o b, ![f] = h]), SourceInv'
  PROVE  WindowInv'
<1>1. IsStream(stream)
  BY EmittingStream DEF Emitting, Sound
<1>2. PICK o : o = stream.out \o b
  OBVIOUS
<1>3. \/ stream' = [stream EXCEPT !.out = o, ![f] = h] /\ ret' = ret
      \/ stream' = stream /\ ret' = "undefined"
  BY <1>2, Zenon DEF Output, Goto, Undefined, Return
<1>4. CASE stream' = [stream EXCEPT !.out = o, ![f] = h] /\ ret' = ret
  <2>1. WroteTo(stream, stream', f, o, h) /\ DataKept(stream, stream')
    BY <1>1, <1>4, Wrote
  <2>2. Writes(b, f, h)
    BY <1>2, <1>4, <2>1 DEF Writes, WroteTo, DataKept
  <2> QED
    BY <2>2, WritesFits
<1>5. CASE stream' = stream /\ ret' = "undefined"
  BY <1>5, RefuseFits DEF EmitAnswers
<1> QED
  BY <1>3, <1>4, <1>5

LEMMA EmitCopyTargetFits ==
  ASSUME WindowInv, DedeltaInv', EmitCopyTarget, UNCHANGED files, pc' = "process"
  PROVE  WindowInv'
<1>1. Case("DEC_EMIT") /\ source' = source /\ Pending # {}
  BY DEF EmitCopyTarget, EmitHalfCase, EmitCase
<1>2. PICK f : f = Half /\ (f = "current1" \/ f = "current2") /\ IsHalf(stream[f])
  BY <1>1, CopyHalf
<1>3. stream.out \in Seq(Nat) /\ stream.cpylen \in Nat
  BY WindowParts DEF Valued
<1>4. PICK out \in Seq(Nat), c \in Nat : out = stream.out /\ c = stream.cpylen
  BY <1>3
<1>5. PICK n \in Nat, a \in Nat, y \in Nat : stream[f].size = n /\ stream[f].addr = a /\ stream[f].type = y
  BY <1>2 DEF IsHalf
<1>6. a >= c
  BY <1>2, <1>4, <1>5 DEF EmitCopyTarget
<1>7. PICK l \in Nat : l = Len(out)
  OBVIOUS
<1>8. PICK from \in Nat : from = a - c
  BY <1>6
<1>9. PICK period \in Int : period = l - from
  OBVIOUS
<1>10. PICK b : b = [k \in 1..n |-> out[from + 1 + ((k - 1) % period)]]
  OBVIOUS
<1>11. PICK h : h = [Spent EXCEPT !.size = 0]
  OBVIOUS
<1>12. \/ stream' = stream /\ ret' = "undefined"
       \/ ~(n > 0 /\ period <= 0) /\ Output(n, [stream EXCEPT !.out = @ \o b, ![f] = h])
  BY <1>2, <1>4, <1>5, <1>7, <1>8, <1>9, <1>10, <1>11 DEF EmitCopyTarget, Undefined, Return
<1>13. SourceInv'
  BY <1>1, SameSource
<1>14. CASE stream' = stream /\ ret' = "undefined"
  BY <1>1, <1>13, <1>14, RefuseFits DEF EmitAnswers
<1>15. CASE ~(n > 0 /\ period <= 0) /\ Output(n, [stream EXCEPT !.out = @ \o b, ![f] = h])
  <2>1. b \in Seq(Nat) /\ Len(b) = n
    <3>1. ASSUME NEW k \in 1..n PROVE b[k] \in Nat
      <4>1. PICK j \in Nat : j = k - 1
        OBVIOUS
      <4>2. PICK p \in Nat : p = period /\ p > 0
        BY <1>15
      <4>3. PICK r \in Nat : r = j % p /\ r < p
        BY <4>2
      <4>4. from + 1 + r \in 1..l
        BY <1>9, <4>2, <4>3
      <4>5. b[k] = out[from + 1 + r]
        BY <1>10, <4>1, <4>2, <4>3
      <4> QED
        BY <1>7, <4>4, <4>5
    <3>2. b = [k \in 1..n |-> b[k]]
      BY <1>10
    <3> QED
      BY <3>1, <3>2, Built DEF IsLong
  <2>2. Left(stream[f], h, Len(b), stream.cpylen)
    BY <1>2, <1>5, <1>11, <2>1, SpentLeft DEF Spent
  <2> QED
    BY <1>1, <1>2, <1>13, <1>15, <2>1, <2>2, CopyFits
<1> QED
  BY <1>12, <1>14, <1>15

(* Where a copy from the source is: in which block and at which offset. *)
LEMMA BlockPlace ==
  ASSUME NEW n \in Nat \ {0}, n = source.blksize, NEW off \in Nat, NEW add \in Nat,
         NEW b, b = BlksizeAdd(BlksizeDiv(off), add)
  PROVE  b[1] \in Nat /\ b[2] \in Nat /\ b[2] < n
<1> DEFINE Divided(x, q, r) == q = x \div n /\ r = x % n /\ r < n
<1>1. ASSUME NEW x \in Nat PROVE \E q \in Nat, r \in Nat : Divided(x, q, r)
  <2>1. x \div n \in Nat /\ x % n \in 0..n - 1
    BY Division
  <2>2. PICK q \in Nat : q = x \div n
    BY <2>1
  <2>3. PICK r \in Nat : r = x % n /\ r < n
    BY <2>1
  <2> QED
    BY <2>2, <2>3
<1> HIDE DEF Divided
<1>2. PICK q \in Nat, r \in Nat : Divided(off, q, r)
  BY <1>1
<1>3. PICK u \in Nat, v \in Nat : Divided(add, u, v)
  BY <1>1
<1>4. PICK w \in Nat : w = r + v
  OBVIOUS
<1>5. PICK x \in Nat, z \in Nat : Divided(w, x, z)
  BY <1>1
<1>6. b = <<q + u + x, z>>
  BY <1>2, <1>3, <1>4, <1>5 DEF BlksizeAdd, BlksizeDiv, Divided
<1> QED
  BY <1>5, <1>6 DEF Divided

LEMMA EmitCopySourceFits ==
  ASSUME WindowInv, DedeltaInv', EmitCopySource, UNCHANGED files, pc' = "process"
  PROVE  WindowInv'
<1>1. Case("DEC_EMIT") /\ Pending # {}
  BY DEF EmitCopySource, EmitHalfCase, EmitCase
<1>2. PICK f : /\ f = Half /\ (f = "current1" \/ f = "current2") /\ IsHalf(stream[f])
  BY <1>1, CopyHalf
<1>3. SourceInv /\ FileInv /\ stream.cpylen \in Nat /\ stream.cpyoff \in Nat
  BY WindowParts, Parts DEF Valued
<1>4. PICK c \in Nat, off \in Nat : c = stream.cpylen /\ off = stream.cpyoff
  BY <1>3
<1>5. PICK n \in Nat, a \in Nat, y \in Nat : stream[f].size = n /\ stream[f].addr = a /\ stream[f].type = y
  BY <1>2 DEF IsHalf
<1>6. PICK z \in Nat \ {0} : z = CHUNK /\ z = source.blksize
  BY <1>3 DEF SourceInv, FileInv
<1>7. PICK block \in Seq(Nat) : block = source.curblk /\ Len(block) = z
  BY <1>3, <1>6 DEF SourceInv
<1>8. PICK p : p = BlksizeAdd(BlksizeDiv(off), a)
  OBVIOUS
<1>9. p[1] \in Nat /\ p[2] \in Nat /\ p[2] < z
  BY <1>6, <1>8, BlockPlace
<1>10. PICK blkno \in Nat, blkoff \in Nat : blkno = p[1] /\ blkoff = p[2] /\ blkoff < z
  BY <1>9
<1>11. PICK room \in Nat : room = z - blkoff
  BY <1>10
<1>12. PICK take \in Nat : take = Min({n, room}) /\ take <= n /\ take <= room
  BY Minimum
<1>13. PICK b : b = SubSeq(block, blkoff + 1, blkoff + take)
  OBVIOUS
<1>14. PICK h : h = IF take = n THEN [Spent EXCEPT !.size = 0]
                    ELSE [stream[f] EXCEPT !.size = @ - take, !.addr = @ + take]
  OBVIOUS
<1>15. y >= XD3_CPY /\ a < c
  BY <1>2, <1>4, <1>5 DEF EmitCopySource
<1>16. \/ AskBlock(blkno) /\ stream' = stream
       \/ /\ source' = BlockKnown(source, blkno)
          /\ \/ stream' = stream /\ ret' \in EmitAnswers
             \/ Output(take, [stream EXCEPT !.out = @ \o b, ![f] = h])
  <2>1. take = Min({stream[Half].size, source.blksize - p[2]})
    BY <1>2, <1>5, <1>6, <1>10, <1>11, <1>12
  <2>2. p = BlksizeAdd(BlksizeDiv(stream.cpyoff), stream[Half].addr)
    BY <1>2, <1>4, <1>5, <1>8
  <2>3. b = SubSeq(source.curblk, p[2] + 1, p[2] + take)
    BY <1>7, <1>10, <1>13
  <2>4. h = IF take = stream[Half].size THEN [Spent EXCEPT !.size = 0]
            ELSE [stream[Half] EXCEPT !.size = @ - take, !.addr = @ + take]
    BY <1>2, <1>5, <1>14, Zenon
  <2> QED
    BY <1>2, <1>10, <2>1, <2>2, <2>3, <2>4
    DEF EmitCopySource, Refuse, Undefined, Return, EmitAnswers
<1>17. IsSource(source) /\ source.getblkno \in Nat
  BY <1>3 DEF SourceInv, IsSource
<1>18. CASE AskBlock(blkno) /\ stream' = stream
  <2>1. source' = [source EXCEPT !.getblkno = blkno] /\ ret' \in EmitAnswers
    BY <1>18 DEF AskBlock, EmitAnswers
  <2>2. /\ IsSource(source') /\ source'.blksize = source.blksize /\ source'.curblk = source.curblk
        /\ source'.getblkno = blkno
    BY <1>17, <2>1, SourceFieldNames DEF IsSource
  <2>3. SourceInv'
    BY <2>2, SourceKept
  <2> QED
    BY <1>1, <1>18, <2>1, <2>3, RefuseFits
<1>19. ASSUME source' = BlockKnown(source, blkno) PROVE SourceInv'
  <2>1. SameBlock(source, source')
    BY <1>17, <1>19, BlockKnownKeeps
  <2> QED
    BY <1>17, <2>1, SourceKept DEF SameBlock
<1>20. CASE source' = BlockKnown(source, blkno) /\ stream' = stream /\ ret' \in EmitAnswers
  BY <1>1, <1>19, <1>20, RefuseFits
<1>21. CASE /\ source' = BlockKnown(source, blkno)
            /\ Output(take, [stream EXCEPT !.out = @ \o b, ![f] = h])
  <2>1. b \in Seq(Nat) /\ Len(b) = take
    <3>1. PICK e \in Nat : e = blkoff + take
      OBVIOUS
    <3>2. blkoff <= e /\ e <= Len(block) /\ e - blkoff = take
      BY <1>7, <1>11, <1>12, <3>1
    <3>3. SubSeq(block, blkoff + 1, e) \in Seq(Nat) /\ Len(SubSeq(block, blkoff + 1, e)) = e - blkoff
      BY ONLY <3>2, block \in Seq(Nat), blkoff \in Nat, e \in Nat, PieceOf, SMTT(20)
    <3> QED
      BY <1>13, <3>1, <3>2, <3>3, Zenon
  <2>2. Left(stream[f], h, take, stream.cpylen)
    <3>1. CASE take = n
      BY <1>2, <1>5, <1>14, <3>1, SpentLeft DEF Spent
    <3>2. CASE take # n
      <4>1. h = [stream[f] EXCEPT !.size = @ - take, !.addr = @ + take]
        BY <1>14, <3>2
      <4>2. PICK m \in Nat, d \in Nat : m = n - take /\ m > 0 /\ m + take = n /\ d = a + take
        BY <1>12, <3>2, SMTT(20)
      <4>3. h = [stream[f] EXCEPT !.size = m, !.addr = d]
        BY <1>5, <4>1, <4>2, Zenon
      <4>4. h.type = y /\ h.size = m /\ h.addr = d /\ IsHalf(h)
        BY <1>2, <1>5, <4>3 DEF IsHalf
      <4> QED
        BY <1>4, <1>5, <1>15, <4>2, <4>4 DEF Left
    <3> QED
      BY <3>1, <3>2
  <2> QED
    BY <1>1, <1>2, <1>19, <1>21, <2>1, <2>2, CopyFits
<1> QED
  BY <1>16, <1>18, <1>20, <1>21

-----------------------------------------------------------------------------
(* The other ends of a step of the loop. *)

LEMMA EmitCopyWindowFits ==
  ASSUME WindowInv, DedeltaInv', EmitCopyWindow, UNCHANGED files, pc' = "process"
  PROVE  WindowInv'
<1>1. Case("DEC_EMIT") /\ source' = source /\ Pending # {} /\ ret' = "XD3_UNIMPLEMENTED"
  BY DEF EmitCopyWindow, EmitHalfCase, EmitCase, Return
<1>2. PICK f : f = Half /\ (f = "current1" \/ f = "current2") /\ IsHalf(stream[f])
  BY <1>1, CopyHalf
<1>3. PICK h : h = [Spent EXCEPT !.size = 0]
  OBVIOUS
<1>4. stream' = [stream EXCEPT ![f] = h]
  BY <1>2, <1>3, Zenon DEF EmitCopyWindow, Return
<1>5. Emitting(stream)
  BY <1>1, EmittingStream
<1>6. IsStream(stream) /\ Valued(stream)
  BY <1>5 DEF Emitting, Sound
<1>7. IsHalf(h)
  BY <1>2, <1>3 DEF Spent, IsHalf, XD3_NOOP
<1>8. stream'[f] = h /\ \A g \in StreamFields : g = f \/ stream'[g] = stream[g]
  BY <1>2, <1>4, <1>6, StreamFieldNames DEF IsStream
<1>9. Reads(stream, stream')
  <2>1. EmitMoves
    BY WindowParts, EmitCopyWindowMoves
  <2> QED
    BY <2>1 DEF EmitMoves
<1>10. /\ stream'.cpylen = stream.cpylen /\ stream'.cpyoff = stream.cpyoff
       /\ stream'.tgtlen = stream.tgtlen /\ stream'.maxpos = stream.maxpos
       /\ stream'.space_out = stream.space_out /\ stream'.s_near = stream.s_near
       /\ stream'.s_same = stream.s_same /\ stream'.position = stream.position
       /\ stream'.acache = stream.acache /\ stream'.out = stream.out
       /\ stream'.data_sect = stream.data_sect /\ stream'.inst_sect = stream.inst_sect
       /\ stream'.addr_sect = stream.addr_sect
  BY <1>2, <1>8, StreamFieldNames
<1>11. Valued(stream')
  <2>1. \A g \in Halves : IsHalf(stream'[g])
    <3>1. ASSUME NEW g \in Halves PROVE IsHalf(stream'[g])
      <4>1. stream'[g] = h \/ stream'[g] = stream[g]
        BY <1>2, <1>8, StreamFieldNames DEF Halves
      <4> QED
        BY <1>6, <1>7, <4>1 DEF Valued
    <3> QED
      BY <3>1
  <2>2. \A g \in Sections : stream'[g].read \in Nat
    <3>1. \A g \in Sections : stream[g].read \in Nat
      BY <1>6 DEF Valued
    <3>2. \A g \in Sections : stream'[g] = stream[g]
      BY <1>10, SectionsAre
    <3> QED
      BY <3>1, <3>2
  <2> QED
    BY <1>6, <1>10, <2>1, <2>2 DEF Valued
<1>12. IsCache(stream'.acache, stream.s_near, stream.s_same) /\ stream'.position <= stream.maxpos
  BY <1>5, <1>10 DEF Emitting
<1>13. ret' \in EmitAnswers /\ ret' \notin Going
  BY <1>1 DEF EmitAnswers, Going
<1>14. SourceInv'
  BY <1>1, SameSource
<1> QED
  BY <1>1, <1>9, <1>11, <1>12, <1>13, <1>14, EmitFits

LEMMA EmitNoSourceFits ==
  ASSUME WindowInv, DedeltaInv', EmitNoSource, UNCHANGED files, pc' = "process"
  PROVE  WindowInv'
<1>1. Case("DEC_EMIT") /\ source' = source /\ stream' = stream /\ ret' \in EmitAnswers
  BY DEF EmitNoSource, EmitCase, Refuse, Return, EmitAnswers
<1>2. SourceInv'
  BY <1>1, SameSource
<1> QED
  BY <1>1, <1>2, RefuseFits

(* Between two windows: what a window leaves behind. *)
LEMMA OverFits ==
  ASSUME WindowInv, DedeltaInv', UNCHANGED files, pc' = "process", source' = source, WindowOver,
         ~(stream.dec_state \in TableStates \cup {"DEC_TABDAT"}), Idle(stream),
         \A f \in Sections : stream'[f].read = stream[f].read,
         ret' \in {"XD3_OUTPUT", "XD3_WINFINISH"}, ret' = "XD3_OUTPUT" => stream'.dec_state = "DEC_FINISH",
         ret' # "XD3_OUTPUT" => stream.out = <<>>,
         stream'.space_out \in Nat, stream'.lastspace \in Nat,
         stream'.next_out = NULL => stream'.space_out = 0
  PROVE  WindowInv'
<1>1. stream'.dec_state \in {"DEC_FINISH", "DEC_WININD"} /\ IsStream(stream')
  BY DEF WindowOver
<1>2. /\ stream'.cpylen = stream.cpylen /\ stream'.cpyoff = stream.cpyoff
      /\ stream'.tgtlen = stream.tgtlen /\ stream'.maxpos = stream.maxpos
      /\ stream'.s_near = stream.s_near
      /\ stream'.s_same = stream.s_same /\ stream'.position = stream.position
      /\ stream'.hdr_ind = stream.hdr_ind /\ stream'.codetbl = stream.codetbl
      /\ stream'.out = stream.out /\ stream'.current1 = stream.current1
      /\ stream'.current2 = stream.current2
  BY StreamFieldNames, SectionsAre, SMTT(20) DEF WindowOver, OverFields
<1>3. Valued(stream) /\ Equipped(stream)
  BY WindowParts
<1>4. \A h \in Halves : stream'[h] = stream[h]
  BY <1>2 DEF Halves
<1>5. Valued(stream')
  BY <1>2, <1>3, <1>4 DEF Valued
<1>6. Equipped(stream')
  <2>1. TableIn(stream') = TableIn(stream) /\ Modes(stream') = Modes(stream)
    BY <1>2 DEF TableIn, Modes
  <2>2. stream'.dec_state \notin WindowStates
    BY <1>1 DEF WindowStates, StartStates, EndStates, ReadOrEmit, ReadStates
  <2> QED
    BY <1>3, <2>1, <2>2 DEF Equipped, TableKnown
<1>7. Planned(stream')
  BY <1>1 DEF Planned, StartStates, EndStates, ReadOrEmit, ReadStates
<1>8. OutputInv'
  <2>1. Idle(stream') /\ stream'.dec_state # "DEC_EMIT"
    BY <1>1, <1>4 DEF Idle
  <2> QED
    BY <1>2, <2>1 DEF OutputInv
<1>9. ReturnInv'
  BY <1>1 DEF ReturnInv
<1>10. SourceInv' /\ FilesInv'
  BY SameSource, WindowParts DEF FilesInv, files
<1>11. SpareInv'
  BY DEF WindowOver, SpareInv
<1> QED
  BY <1>5, <1>6, <1>7, <1>8, <1>9, <1>10, <1>11 DEF WindowInv

(* A section whose position is cleared keeps its cursor. *)
LEMMA ClearedRead == ASSUME NEW x, IsSection(x) PROVE [x EXCEPT !.pos = 0].read = x.read
  BY SectionFieldNames DEF IsSection

LEMMA EmitEndFits ==
  ASSUME WindowInv, DedeltaInv', EmitEnd, UNCHANGED files, pc' = "process"
  PROVE  WindowInv'
<1>1. Case("DEC_EMIT") /\ source' = source /\ at' = at /\ ibuf' = ibuf /\ Pending = {}
  BY DEF EmitEnd, EmitCase
<1>2. Emitting(stream) /\ stream.dec_state = "DEC_EMIT" /\ SourceInv'
  BY <1>1, EmittingStream, SameSource DEF Case
<1>3. IsStream(stream) /\ \A f \in Sections : IsSection(stream[f])
  BY <1>2 DEF Emitting, Sound
<1>4. PICK o : o = stream.total_out + Len(stream.out)
  OBVIOUS
<1>5. PICK t : t = FinishWindow(stream)
  OBVIOUS
<1>6. FinishedFrom(stream, t)
  BY <1>3, <1>5, WindowFinished
<1>7. \/ Refuse
      \/ stream' = [t EXCEPT !.total_out = o] /\ ret' = "XD3_OUTPUT"
  <2>1. FinishWindow(stream).total_out + Len(stream.out) = o
    BY <1>4, <1>5, <1>6 DEF FinishedFrom
  <2> QED
    BY <1>5, <2>1 DEF EmitEnd, Return
<1>8. CASE Refuse
  <2>1. stream' = stream /\ ret' \in EmitAnswers
    BY <1>8 DEF Refuse, Return, EmitAnswers
  <2> QED
    BY <1>1, <1>2, <2>1, RefuseFits
<1>9. CASE stream' = [t EXCEPT !.total_out = o] /\ ret' = "XD3_OUTPUT"
  <2>1. IsStream(t) /\ t.dec_state = "DEC_FINISH" /\ t.winbytes = 0
    BY <1>6 DEF FinishedFrom
  <2>2. IsStream(stream') /\ \A g \in StreamFields : g = "total_out" \/ stream'[g] = t[g]
    BY <1>9, <2>1 DEF IsStream
  <2>3. /\ stream'.dec_state = "DEC_FINISH" /\ stream'.winbytes = 0
        /\ stream'.data_sect = t.data_sect /\ stream'.inst_sect = t.inst_sect
        /\ stream'.addr_sect = t.addr_sect
    BY <2>1, <2>2, StreamFieldNames
  <2>4. IsSection(stream.data_sect) /\ IsSection(stream.inst_sect) /\ IsSection(stream.addr_sect)
    BY <1>3, SectionsAre
  <2>5. \A f \in Sections : /\ IsSection(stream'[f]) /\ stream'[f].pos = 0
                             /\ stream'[f].read = stream[f].read
    <3>1. IsSection(t.data_sect) /\ t.data_sect.pos = 0 /\ t.data_sect.read = stream.data_sect.read
      BY <1>6, <2>4, Cleared, ClearedRead DEF FinishedFrom
    <3>2. IsSection(t.inst_sect) /\ t.inst_sect.pos = 0 /\ t.inst_sect.read = stream.inst_sect.read
      BY <1>6, <2>4, Cleared, ClearedRead DEF FinishedFrom
    <3>3. IsSection(t.addr_sect) /\ t.addr_sect.pos = 0 /\ t.addr_sect.read = stream.addr_sect.read
      BY <1>6, <2>4, Cleared, ClearedRead DEF FinishedFrom
    <3> QED
      BY <2>3, <3>1, <3>2, <3>3, SectionsAre
  <2>6. \A g \in StreamFields :
           g \in Sections \cup {"dec_state", "winbytes", "total_out"} \/ stream'[g] = stream[g]
    BY <1>6, <2>2 DEF FinishedFrom
  <2>10. \A g \in StreamFields : g \in Sections \cup OverFields \/ stream'[g] = stream[g]
    BY <2>6 DEF OverFields
  <2>11. /\ stream'.space_out \in Nat /\ stream'.lastspace \in Nat
         /\ stream'.next_out = NULL => stream'.space_out = 0
    <3>1. /\ stream'.space_out = stream.space_out /\ stream'.lastspace = stream.lastspace
          /\ stream'.next_out = stream.next_out
      BY <2>6, StreamFieldNames, SectionsAre
    <3> QED
      BY <3>1, WindowParts DEF Valued, SpareInv
  <2>7. WindowOver
    BY <1>1, <1>9, <2>2, <2>3, <2>5, <2>10 DEF WindowOver
  <2>8. Idle(stream)
    BY <1>1 DEF Idle, Halves, Pending
  <2>9. ~(stream.dec_state \in TableStates \cup {"DEC_TABDAT"})
    BY <1>2 DEF TableStates
  <2> QED
    BY <1>1, <1>9, <2>3, <2>5, <2>7, <2>8, <2>9, <2>11, OverFits
<1> QED
  BY <1>7, <1>8, <1>9

LEMMA DecFinishFits ==
  ASSUME WindowInv, DedeltaInv', DecFinish, UNCHANGED files, pc' = "process"
  PROVE  WindowInv'
<1>1. /\ source' = source /\ at' = at /\ ibuf' = ibuf /\ stream.dec_state = "DEC_FINISH"
      /\ ret = "calling" /\ ret' = "XD3_WINFINISH"
  BY DEF DecFinish, Case, Return
<1>2. StreamTypes /\ SectionInv /\ OutputInv
  BY WindowParts, Parts
<1>3. IsStream(stream) /\ \A f \in Sections : IsSection(stream[f])
  BY <1>2 DEF StreamTypes
<1>4. PICK a : a = At(stream, "DEC_WININD")
  OBVIOUS
<1>5. /\ IsStream(a) /\ a.dec_state = "DEC_WININD"
      /\ \A g \in StreamFields : g = "dec_state" \/ a[g] = stream[g]
  BY <1>3, <1>4, StreamFieldNames DEF At, IsStream
<1>16. PICK b : b = Swapped(a)
  OBVIOUS
<1>17. /\ IsStream(b) /\ b.space_out \in Nat /\ b.lastspace \in Nat
       /\ b.next_out = NULL => b.space_out = 0
       /\ \A g \in StreamFields :
            g \in {"next_out", "space_out", "lastwin", "lastspace"} \/ b[g] = a[g]
  <2>1. /\ a.space_out \in Nat /\ a.lastspace \in Nat /\ (a.next_out = NULL => a.space_out = 0)
    <3>1. a.space_out = stream.space_out /\ a.lastspace = stream.lastspace
          /\ a.next_out = stream.next_out
      BY <1>5, StreamFieldNames
    <3> QED
      BY <3>1, WindowParts DEF Valued, SpareInv
  <2>2. CASE b = a
    BY <1>5, <2>1, <2>2
  <2>3. CASE b # a
    <3>1. PICK w, x, y, z :
             /\ b = [a EXCEPT !.lastwin = w, !.lastspace = x, !.next_out = y, !.space_out = z]
             /\ x = a.space_out /\ y = (IF a.lastwin = NULL THEN a.next_out ELSE a.lastwin)
             /\ z = (IF a.lastwin = NULL THEN a.space_out ELSE a.lastspace)
      BY <1>16, <2>3, Zenon DEF Swapped
    <3>2. IsStream(b) /\ \A g \in StreamFields :
            g \in {"next_out", "space_out", "lastwin", "lastspace"} \/ b[g] = a[g]
      BY <1>5, <3>1 DEF IsStream
    <3>3. b.lastspace = x
      BY <1>5, <3>1, StreamFieldNames, ZenonT(30) DEF IsStream
    <3>4. b.next_out = y
      BY <1>5, <3>1, StreamFieldNames, ZenonT(30) DEF IsStream
    <3>5. b.space_out = z
      BY <1>5, <3>1, StreamFieldNames, ZenonT(30) DEF IsStream
    <3> QED
      BY <2>1, <3>1, <3>2, <3>3, <3>4, <3>5
  <2> QED
    BY <2>2, <2>3
<1>6. \E l, c : stream' = [b EXCEPT !.laststart = l, !.window_count = c]
  BY <1>4, <1>16, Zenon DEF DecFinish, Return
<1>18. /\ IsStream(stream')
       /\ \A g \in StreamFields : g \in {"laststart", "window_count"} \/ stream'[g] = b[g]
  BY <1>6, <1>17 DEF IsStream
<1>7. /\ stream'.dec_state = "DEC_WININD"
      /\ \A g \in StreamFields : g \in OverFields \/ stream'[g] = stream[g]
  <2>1. ASSUME NEW g \in StreamFields, g \notin OverFields PROVE stream'[g] = stream[g]
    BY <1>5, <1>17, <1>18, <2>1 DEF OverFields
  <2>2. stream'.dec_state = "DEC_WININD"
    BY <1>5, <1>17, <1>18, StreamFieldNames
  <2> QED
    BY <2>1, <2>2
<1>19. /\ stream'.space_out \in Nat /\ stream'.lastspace \in Nat
       /\ stream'.next_out = NULL => stream'.space_out = 0
  <2>1. /\ stream'.space_out = b.space_out /\ stream'.lastspace = b.lastspace
        /\ stream'.next_out = b.next_out
    BY <1>18, StreamFieldNames
  <2> QED
    BY <1>17, <2>1
<1>8. /\ stream'.winbytes = stream.winbytes /\ stream'.data_sect = stream.data_sect
      /\ stream'.inst_sect = stream.inst_sect /\ stream'.addr_sect = stream.addr_sect
  <2>1. stream'.data_sect = stream.data_sect /\ stream'.inst_sect = stream.inst_sect
        /\ stream'.addr_sect = stream.addr_sect
    BY <1>7, StreamFieldNames DEF OverFields
  <2>2. stream'.winbytes = stream.winbytes
    BY <1>5, <1>17, <1>18, StreamFieldNames
  <2> QED
    BY <2>1, <2>2
<1>9. \A f \in Sections : stream[f].pos = 0 /\ ~Complete(stream, f)
  BY <1>1, <1>2, SectionsAre DEF SectionInv, CountInv, Turn, Complete
<1>10. stream.winbytes = 0
  <2>1. /\ Got(stream, "data_sect") = 0 /\ Got(stream, "inst_sect") = 0
        /\ Got(stream, "addr_sect") = 0
    BY <1>9, SectionsAre DEF Got
  <2> QED
    BY <1>2, <2>1 DEF SectionInv, CountInv
<1>11. \A f \in Sections : IsSection(stream'[f]) /\ stream'[f].pos = 0 /\ stream'[f].read = stream[f].read
  BY <1>3, <1>8, <1>9, SectionsAre
<1>12. \A g \in StreamFields :
         g \in Sections \cup OverFields \/ stream'[g] = stream[g]
  BY <1>7
<1>13. WindowOver
  BY <1>1, <1>7, <1>18, <1>8, <1>10, <1>11, <1>12 DEF WindowOver
<1>14. Idle(stream) /\ stream.out = <<>>
  BY <1>1, <1>2 DEF OutputInv
<1>15. ~(stream.dec_state \in TableStates \cup {"DEC_TABDAT"})
  BY <1>1 DEF TableStates
<1> QED
  BY <1>1, <1>11, <1>13, <1>14, <1>15, <1>19, OverFits

-----------------------------------------------------------------------------
(* One call of the decoder. *)
LEMMA SectionTurns ==
  ASSUME DecodeSections
  PROVE  \E f \in Sections : DecSection(Turn(f), f, NextOf(f))
<1>1. /\ Turn("data_sect") = "DEC_DATA" /\ NextOf("data_sect") = "DEC_INST"
      /\ Turn("inst_sect") = "DEC_INST" /\ NextOf("inst_sect") = "DEC_ADDR"
      /\ Turn("addr_sect") = "DEC_ADDR" /\ NextOf("addr_sect") = "DEC_EMIT"
  BY DEF Turn, NextOf
<1>2. "data_sect" \in Sections /\ "inst_sect" \in Sections /\ "addr_sect" \in Sections
  BY SectionsAre
<1>3. \/ DecSection(Turn("data_sect"), "data_sect", NextOf("data_sect"))
      \/ DecSection(Turn("inst_sect"), "inst_sect", NextOf("inst_sect"))
      \/ DecSection(Turn("addr_sect"), "addr_sect", NextOf("addr_sect"))
  BY <1>1, Zenon DEF DecodeSections, DecData, DecInst, DecAddr
<1> QED
  BY <1>2, <1>3, Zenon

LEMMA DecodeFits == ASSUME WindowInv, DedeltaInv', Decode PROVE WindowInv'
<1>1. pc = "process" /\ pc' = "process" /\ DecodeInput /\ UNCHANGED files
  BY DEF Decode, dedelta
<1>2. CASE DecodeHeader
  BY <1>1, <1>2, DecVcHeadFits, DecHdrIndFits, DecSecondIdFits, DecTabLenFits, DecNearFits,
     DecSameFits, DecTabDatFits, DecAppLenFits, DecAppDatFits, Zenon DEF DecodeHeader
<1>3. CASE DecodeWindowHeader
  BY <1>1, <1>3, DecWinIndFits, DecCpyLenFits, DecCpyOffFits, DecEncLenFits, DecTgtLenFits,
     DecDelIndFits, DecDataLenFits, DecInstLenFits, DecAddrLenFits, DecCksumFits, Zenon
     DEF DecodeWindowHeader
<1>4. CASE DecodeSections
  BY <1>1, <1>4, SectionTurns, SectionFits
<1>5. CASE DecSkip
  <2>1. StreamTypes
    BY WindowParts, Parts
  <2>2. "XD3_JUST_HDR" \notin stream.flags /\ "XD3_SKIP_WINDOW" \notin stream.flags
    BY <2>1 DEF StreamTypes
  <2> QED
    BY <1>5, <2>2, Zenon DEF DecSkip
<1>6. CASE DecodeEmit
  BY <1>1, <1>6, EmitNoSourceFits, EmitInstructionFits, EmitRunFits, EmitAddFits, EmitCopyTargetFits,
     EmitCopySourceFits, EmitCopyWindowFits, EmitEndFits, Zenon DEF DecodeEmit
<1>7. CASE DecFinish
  BY <1>1, <1>7, DecFinishFits
<1> QED
  BY <1>1, <1>2, <1>3, <1>4, <1>5, <1>6, <1>7 DEF DecodeInput

-----------------------------------------------------------------------------
(* The caller's own steps. *)

(* The stream and the source stay, and the caller goes elsewhere. *)
LEMMA IdleFits ==
  ASSUME WindowInv, DedeltaInv', UNCHANGED files, stream' = stream, source' = source, ret' = ret,
         pc' \in {"open", "setup", "read"} => ret # "XD3_OUTPUT"
  PROVE  WindowInv'
<1>1. /\ Valued(stream) /\ Equipped(stream) /\ Planned(stream) /\ OutputInv /\ ReturnInv /\ FilesInv
      /\ SpareInv
  BY WindowParts
<1>2. Valued(stream') /\ Equipped(stream') /\ Planned(stream') /\ SpareInv'
  BY <1>1 DEF SpareInv
<1>3. OutputInv' /\ ReturnInv'
  BY <1>1 DEF OutputInv, ReturnInv
<1>4. SourceInv' /\ FilesInv'
  BY <1>1, SameSource DEF FilesInv, files
<1> QED
  BY <1>2, <1>3, <1>4 DEF WindowInv

LEMMA WaitingFits ==
  ASSUME WindowInv, DedeltaInv',
         Open \/ NoMemory \/ ReadDeltaFails \/ OnInput \/ OnError \/ Close \/ UNCHANGED vars
  PROVE  WindowInv'
<1>1. stream' = stream /\ source' = source /\ ret' = ret /\ UNCHANGED files
  BY DEF Open, NoMemory, ReadDeltaFails, OnInput, OnError, Close, decoder, vars
<1>2. pc' \in {"open", "setup", "read"} => ret # "XD3_OUTPUT"
  <2>1. ReturnInv
    BY WindowParts
  <2>2. CASE Open \/ NoMemory
    BY <2>1, <2>2 DEF Open, NoMemory, ReturnInv
  <2>3. CASE ReadDeltaFails \/ OnError \/ Close
    BY <2>3 DEF ReadDeltaFails, OnError, Close, ReturnEarly
  <2>4. CASE OnInput
    BY <2>4 DEF OnInput, Answer
  <2>5. CASE UNCHANGED vars
    BY <2>1, <2>5 DEF vars, dedelta, ReturnInv
  <2> QED
    BY <2>2, <2>3, <2>4, <2>5
<1> QED
  BY <1>1, <1>2, IdleFits

(* A field that the window does not depend on. *)
LEMMA AsideFits ==
  ASSUME WindowInv, DedeltaInv', UNCHANGED files, SourceInv', NEW f, f = "hasSource" \/ f = "flags",
         NEW v, stream' = [stream EXCEPT ![f] = v] \/ stream' = stream, stream.dec_state # "DEC_EMIT",
         ret # "XD3_OUTPUT", ret' = ret \/ ret' = "calling"
  PROVE  WindowInv'
<1>1. /\ Valued(stream) /\ Equipped(stream) /\ Planned(stream) /\ OutputInv /\ ReturnInv /\ FilesInv
      /\ StreamTypes /\ SpareInv
  BY WindowParts, Parts
<1>2. \A g \in StreamFields : g = f \/ stream'[g] = stream[g]
  BY <1>1, StreamFieldNames DEF StreamTypes, IsStream
<1>3. /\ stream'.cpylen = stream.cpylen /\ stream'.cpyoff = stream.cpyoff
      /\ stream'.tgtlen = stream.tgtlen /\ stream'.maxpos = stream.maxpos
      /\ stream'.space_out = stream.space_out /\ stream'.s_near = stream.s_near
      /\ stream'.s_same = stream.s_same /\ stream'.position = stream.position
      /\ stream'.hdr_ind = stream.hdr_ind /\ stream'.codetbl = stream.codetbl
      /\ stream'.out = stream.out /\ stream'.current1 = stream.current1
      /\ stream'.current2 = stream.current2 /\ stream'.acache = stream.acache
      /\ stream'.dec_state = stream.dec_state /\ stream'.next_out = stream.next_out
      /\ stream'.lastspace = stream.lastspace
  BY <1>2, StreamFieldNames
<1>4. \A h \in Halves : stream'[h] = stream[h]
  BY <1>3 DEF Halves
<1>5. \A g \in Sections : stream'[g] = stream[g]
  <2>1. /\ stream'.data_sect = stream.data_sect /\ stream'.inst_sect = stream.inst_sect
        /\ stream'.addr_sect = stream.addr_sect
    BY <1>2, StreamFieldNames
  <2> QED
    BY <2>1, SectionsAre
<1>6. Valued(stream')
  BY <1>1, <1>3, <1>4, <1>5 DEF Valued
<1>7. Equipped(stream')
  <2>1. TableIn(stream') = TableIn(stream) /\ Modes(stream') = Modes(stream)
    BY <1>3 DEF TableIn, Modes
  <2> QED
    BY <1>1, <1>3, <2>1 DEF Equipped, TableKnown
<1>8. Planned(stream')
  BY <1>1, <1>3 DEF Planned
<1>9. OutputInv'
  BY <1>1, <1>3, <1>4 DEF OutputInv, Idle
<1>10. ReturnInv'
  BY <1>1, <1>3 DEF ReturnInv
<1>11. FilesInv'
  BY <1>1 DEF FilesInv, files
<1>12. SpareInv'
  BY <1>1, <1>3, <1>5 DEF SpareInv
<1> QED
  BY <1>6, <1>7, <1>8, <1>9, <1>10, <1>11, <1>12 DEF WindowInv

(* The source's record as the stack left it. *)
LEMMA FreshSource ==
  ASSUME NEW c \in Nat, c = CHUNK, NEW left \in Nat, NEW x, x = StackSource(left)
  PROVE  /\ IsSource(x) /\ x.blksize = c /\ x.getblkno = left
         /\ x.curblk \in Seq(Nat) /\ Len(x.curblk) = c
<1>1. PICK b : b = Garbage
  OBVIOUS
<1>2. b \in Seq(Nat) /\ Len(b) = c
  <2>1. b = [i \in 1..c |-> 255]
    BY <1>1 DEF Garbage
  <2>2. PICK z \in Nat : z = 255
    OBVIOUS
  <2>3. b = [i \in 1..c |-> z]
    BY <2>1, <2>2
  <2> QED
    BY ONLY <2>3, z \in Nat, c \in Nat
<1>3. x.blksize = c /\ x.curblk = b /\ x.getblkno = left /\ IsSource(x)
  BY <1>1, SourceFieldNames DEF StackSource, IsSource
<1> QED
  BY <1>2, <1>3

LEMMA SetSourceFits == ASSUME WindowInv, DedeltaInv', SetSource PROVE WindowInv'
<1>1. /\ pc = "setup" /\ ret' = ret /\ UNCHANGED files
      /\ \/ stream' = stream /\ source' = source
         \/ \E left \in {0, 1, XWord - 1} :
              stream' = [stream EXCEPT !["hasSource"] = TRUE] /\ source' = StackSource(left)
  BY DEF SetSource
<1>2. InputInv /\ ReturnInv /\ FileInv /\ SourceInv
  BY WindowParts, Parts
<1>3. stream.dec_state # "DEC_EMIT" /\ ret # "XD3_OUTPUT"
  BY <1>1, <1>2 DEF InputInv, ReturnInv
<1>4. ASSUME NEW left \in {0, 1, XWord - 1}, source' = StackSource(left) PROVE SourceInv'
  <2>1. left \in Nat
    <3>1. PICK w \in Nat, v \in Nat : w = Word /\ v = XWord /\ v >= w
      BY WordAssumption
    <3>2. PICK b \in Nat : b = Base /\ w > b
      BY <3>1, BaseAssumption, WordAssumption
    <3>3. left = 0 \/ left = 1 \/ left = v - 1
      BY <3>1
    <3> QED
      BY <3>1, <3>2, <3>3
  <2>2. PICK c \in Nat : c = CHUNK
    BY <1>2 DEF FileInv
  <2>3. /\ IsSource(source') /\ source'.blksize = c /\ source'.getblkno = left
        /\ source'.curblk \in Seq(Nat) /\ Len(source'.curblk) = c
    BY <1>4, <2>1, <2>2, FreshSource
  <2>4. CHUNK' = CHUNK
    BY <1>1 DEF files
  <2>5. SourceFields' = SourceFields
    BY DEF SourceFields, StackSource
  <2> QED
    BY <2>1, <2>2, <2>3, <2>4, <2>5 DEF SourceInv, IsSource
<1>5. SourceInv'
  BY <1>1, <1>4, SameSource
<1> QED
  BY <1>1, <1>3, <1>5, AsideFits

LEMMA ReadDeltaFits == ASSUME WindowInv, DedeltaInv', ReadDelta PROVE WindowInv'
<1>1. PICK v : v = stream.flags \cup {"XD3_FLUSH"}
  OBVIOUS
<1>2. /\ pc = "read" /\ ret' = "calling" /\ UNCHANGED files /\ source' = source
      /\ stream' = [stream EXCEPT !["flags"] = v] \/ stream' = stream
  BY <1>1 DEF ReadDelta
<1>3. InputInv /\ ReturnInv
  BY WindowParts, Parts
<1>4. stream.dec_state # "DEC_EMIT" /\ ret # "XD3_OUTPUT"
  BY <1>2, <1>3 DEF InputInv, ReturnInv
<1>5. SourceInv'
  BY <1>2, SameSource
<1> QED
  BY <1>2, <1>4, <1>5, AsideFits

LEMMA OnWindowFits == ASSUME WindowInv, DedeltaInv', OnWindow PROVE WindowInv'
<1>1. /\ ret \in {"XD3_GOTHEADER", "XD3_WINSTART", "XD3_WINFINISH"} /\ ret' = "calling"
      /\ stream' = stream /\ source' = source /\ UNCHANGED files
  BY DEF OnWindow, CallAgain
<1>2. stream.dec_state # "DEC_EMIT" /\ SourceInv'
  BY <1>1, WindowParts, SameSource DEF ReturnInv
<1>3. ret # "XD3_OUTPUT" /\ \E f, v : (f = "hasSource" \/ f = "flags") /\ stream' = stream
  BY <1>1
<1> QED
  BY <1>1, <1>2, <1>3, AsideFits

LEMMA OnOutputFits == ASSUME WindowInv, DedeltaInv', OnOutput PROVE WindowInv'
<1>1. /\ ret = "XD3_OUTPUT" /\ source' = source /\ UNCHANGED files
      /\ \/ stream' = Consumed(stream) /\ ret' = "calling" /\ pc' = pc
         \/ stream' = stream /\ ret' = ret /\ pc' = "done"
  BY DEF OnOutput, Answer, CallAgain, ReturnEarly
<1>2. CASE stream' = stream /\ ret' = ret /\ pc' = "done"
  BY <1>1, <1>2, IdleFits
<1>3. CASE stream' = Consumed(stream) /\ ret' = "calling" /\ pc' = pc
  <2>1. /\ Valued(stream) /\ Equipped(stream) /\ Planned(stream) /\ OutputInv /\ ReturnInv /\ FilesInv
        /\ StreamTypes /\ SpareInv
    BY WindowParts, Parts
  <2>2. stream.dec_state = "DEC_FINISH"
    BY <1>1, <2>1 DEF ReturnInv
  <2>3. stream'.out = <<>> /\ \A g \in StreamFields : g = "out" \/ stream'[g] = stream[g]
    BY <1>3, <2>1, StreamFieldNames DEF Consumed, StreamTypes, IsStream
  <2>4. /\ stream'.cpylen = stream.cpylen /\ stream'.cpyoff = stream.cpyoff
        /\ stream'.tgtlen = stream.tgtlen /\ stream'.maxpos = stream.maxpos
        /\ stream'.space_out = stream.space_out /\ stream'.s_near = stream.s_near
        /\ stream'.s_same = stream.s_same /\ stream'.position = stream.position
        /\ stream'.hdr_ind = stream.hdr_ind /\ stream'.codetbl = stream.codetbl
        /\ stream'.current1 = stream.current1
        /\ stream'.current2 = stream.current2 /\ stream'.acache = stream.acache
        /\ stream'.dec_state = stream.dec_state /\ stream'.next_out = stream.next_out
        /\ stream'.lastspace = stream.lastspace
    BY <2>3, StreamFieldNames
  <2>5. \A h \in Halves : stream'[h] = stream[h]
    BY <2>4 DEF Halves
  <2>6. \A g \in Sections : stream'[g] = stream[g]
    <3>1. /\ stream'.data_sect = stream.data_sect /\ stream'.inst_sect = stream.inst_sect
          /\ stream'.addr_sect = stream.addr_sect
      BY <2>3, StreamFieldNames
    <3> QED
      BY <3>1, SectionsAre
  <2>7. Valued(stream')
    <3>1. stream'.out \in Seq(Nat)
      BY <2>3
    <3> QED
      BY <2>1, <2>4, <2>5, <2>6, <3>1 DEF Valued
  <2>8. Equipped(stream')
    <3>1. TableIn(stream') = TableIn(stream) /\ Modes(stream') = Modes(stream)
      BY <2>4 DEF TableIn, Modes
    <3> QED
      BY <2>1, <2>4, <3>1 DEF Equipped, TableKnown
  <2>9. Planned(stream')
    BY <2>1, <2>4 DEF Planned
  <2>10. OutputInv'
    BY <2>1, <2>2, <2>3, <2>4, <2>5 DEF OutputInv, Idle
  <2>11. ReturnInv'
    BY <1>3 DEF ReturnInv
  <2>12. SourceInv' /\ FilesInv'
    BY <1>1, <2>1, SameSource DEF FilesInv, files
  <2>13. SpareInv'
    BY <2>1, <2>4, <2>6 DEF SpareInv
  <2> QED
    BY <2>7, <2>8, <2>9, <2>10, <2>11, <2>12, <2>13 DEF WindowInv
<1> QED
  BY <1>1, <1>2, <1>3

(* The block that the decoder asked for is there. *)
LEMMA AnsweredFits ==
  ASSUME WindowInv, DedeltaInv', UNCHANGED files, SourceInv', stream' = stream,
         ret = "XD3_GETSRCBLK", ret' = "calling", pc' = pc
  PROVE  WindowInv'
<1>1. /\ Valued(stream) /\ Equipped(stream) /\ Planned(stream) /\ OutputInv /\ ReturnInv /\ FilesInv
      /\ SpareInv
  BY WindowParts
<1>2. Valued(stream') /\ Equipped(stream') /\ Planned(stream') /\ SpareInv'
  BY <1>1 DEF SpareInv
<1>3. OutputInv' /\ ReturnInv'
  BY <1>1 DEF OutputInv, ReturnInv, Going
<1>4. FilesInv'
  BY <1>1 DEF FilesInv, files
<1> QED
  BY <1>2, <1>3, <1>4 DEF WindowInv

(* A block buffer that a read fills in part. *)
LEMMA BlockRead ==
  ASSUME NEW f \in Seq(Nat), NEW b \in Seq(Nat), NEW from \in Nat, NEW r \in Nat, r <= Len(b),
         r = 0 \/ from + r <= Len(f)
  PROVE  LET x == SubSeq(f, from + 1, from + r) \o SubSeq(b, r + 1, Len(b))
         IN x \in Seq(Nat) /\ Len(x) = Len(b)
<1>1. PICK n \in Nat : n = Len(b)
  OBVIOUS
<1>2. PICK u : u = SubSeq(f, from + 1, from + r)
  OBVIOUS
<1>3. PICK v : v = SubSeq(b, r + 1, n)
  OBVIOUS
<1>4. u \in Seq(Nat) /\ Len(u) = r
  <2>1. PICK e \in Nat : e = from + r /\ from <= e /\ e - from = r
    OBVIOUS
  <2>2. u = SubSeq(f, from + 1, e)
    BY <1>2, <2>1
  <2>3. CASE r = 0
    <3>1. e = from /\ ~(from + 1 <= e)
      BY <2>1, <2>3
    <3>2. u = <<>>
      BY <2>2, <3>1
    <3> QED
      BY <2>3, <3>2
  <2>4. CASE e <= Len(f)
    BY <2>1, <2>2, <2>4, PieceOf, Zenon
  <2> QED
    BY <2>1, <2>3, <2>4
<1>5. v \in Seq(Nat) /\ Len(v) = n - r
  <2>1. n <= Len(b) /\ r <= n
    BY <1>1
  <2> QED
    BY ONLY b \in Seq(Nat), n \in Nat, r \in Nat, <1>3, <2>1, PieceOf, Zenon
<1>6. u \o v \in Seq(Nat) /\ Len(u \o v) = n
  BY <1>1, <1>4, <1>5
<1> QED
  BY <1>1, <1>2, <1>3, <1>6

LEMMA OnGetsrcblkFits == ASSUME WindowInv, DedeltaInv', OnGetsrcblk PROVE WindowInv'
<1>1. SourceInv /\ FilesInv /\ FileInv
  BY WindowParts, Parts
<1>2. IsSource(source) /\ source.blksize = CHUNK /\ source.curblk \in Seq(Nat)
      /\ Len(source.curblk) = CHUNK /\ source.getblkno \in Nat
  BY <1>1 DEF SourceInv, IsSource
<1>3. PICK from : from = BlockOffset
  OBVIOUS
<1>4. PICK r : r = IF from >= Len(fsource) THEN 0 ELSE Min({source.blksize, Len(fsource) - from})
  OBVIOUS
<1>5. PICK g : g = source.getblkno
  OBVIOUS
<1>6. PICK b : b = SubSeq(fsource, from + 1, from + r)
                     \o SubSeq(source.curblk, r + 1, Len(source.curblk))
  OBVIOUS
<1>7. PICK o : o = Word - 1
  OBVIOUS
<1>8. /\ ret = "XD3_GETSRCBLK" /\ stream' = stream /\ UNCHANGED files
      /\ \/ source' = [source EXCEPT !.onblk = r, !.curblkno = g, !.curblk = b]
              /\ ret' = "calling" /\ pc' = pc
         \/ source' = [source EXCEPT !.onblk = o, !.curblkno = g] /\ ret' = "calling" /\ pc' = pc
         \/ source' = source /\ ret' = ret /\ pc' = "done"
  BY <1>3, <1>4, <1>5, <1>6, <1>7, Zenon DEF OnGetsrcblk, Answer, CallAgain, ReturnEarly
<1>9. from \in Nat
  <2>1. PICK x \in Nat, y \in Nat : x = source.blksize /\ y = source.getblkno
    BY <1>1, <1>2 DEF FileInv
  <2>2. x * y \in Nat
    BY ONLY x \in Nat, y \in Nat, ProductNat
  <2> QED
    BY <1>3, <2>1, <2>2 DEF BlockOffset
<1>10. r \in Nat /\ r <= Len(source.curblk) /\ (r = 0 \/ from + r <= Len(fsource))
  <2>1. PICK c \in Nat, n \in Nat : c = source.blksize /\ c = Len(source.curblk) /\ n = Len(fsource)
    <3>1. PICK c \in Nat : c = CHUNK
      BY <1>1 DEF FileInv
    <3>2. PICK n \in Nat : n = Len(fsource)
      BY <1>1 DEF FilesInv
    <3>3. c = source.blksize /\ c = Len(source.curblk)
      BY <1>2, <3>1
    <3> QED
      BY <3>2, <3>3
  <2>2. CASE from >= n
    BY <1>4, <2>1, <2>2
  <2>3. CASE ~(from >= n)
    <3>1. PICK d \in Nat : d = n - from
      BY <1>9, <2>3
    <3>2. r = Min({c, d})
      BY <1>4, <2>1, <2>3, <3>1
    <3>3. (r = c \/ r = d) /\ r <= c /\ r <= d
      BY <3>2, Minimum
    <3> QED
      BY <1>9, <2>1, <3>1, <3>3
  <2> QED
    BY <2>2, <2>3
<1>11. b \in Seq(Nat) /\ Len(b) = Len(source.curblk)
  BY <1>1, <1>2, <1>6, <1>9, <1>10, BlockRead, ZenonT(30) DEF FilesInv
<1>12. CHUNK' = CHUNK /\ SourceFields' = SourceFields
  BY <1>8 DEF files, SourceFields, StackSource
<1>13. CASE source' = source /\ ret' = ret /\ pc' = "done"
  BY <1>8, <1>13, IdleFits
<1>14. CASE /\ source' = [source EXCEPT !.onblk = r, !.curblkno = g, !.curblk = b]
            /\ ret' = "calling" /\ pc' = pc
  <2>1. IsSource(source')
    BY <1>2, <1>14, SourceFieldNames, ZenonT(30) DEF IsSource
  <2>2. source'.blksize = source.blksize /\ source'.curblk = b /\ source'.getblkno = source.getblkno
    BY <1>2, <1>14, SourceFieldNames, ZenonT(30) DEF IsSource
  <2>3. SourceInv'
    BY <1>2, <1>11, <1>12, <2>1, <2>2 DEF SourceInv, IsSource
  <2> QED
    BY <1>8, <1>14, <2>3, AnsweredFits
<1>15. CASE /\ source' = [source EXCEPT !.onblk = o, !.curblkno = g]
            /\ ret' = "calling" /\ pc' = pc
  <2>1. IsSource(source')
    BY <1>2, <1>15, SourceFieldNames, ZenonT(30) DEF IsSource
  <2>2. /\ source'.blksize = source.blksize /\ source'.curblk = source.curblk
        /\ source'.getblkno = source.getblkno
    BY <1>2, <1>15, SourceFieldNames, ZenonT(30) DEF IsSource
  <2>3. SourceInv'
    BY <1>2, <1>8, <2>1, <2>2, SourceKept
  <2> QED
    BY <1>8, <1>15, <2>3, AnsweredFits
<1> QED
  BY <1>8, <1>13, <1>14, <1>15

-----------------------------------------------------------------------------
(* The theorems. *)

LEMMA InitFits == ASSUME Init PROVE WindowInv
<1>1. DedeltaInv
  BY InitInv
<1>2. PICK i \in Inputs, chunk \in Chunks : Called(i[1], i[2], i[3], i[4], chunk, <<<<99>>>>)
  BY DEF Init
<1>3. /\ fsource = i[1] /\ fdelta = i[2] /\ CHUNK = chunk /\ pc = "open"
      /\ stream = ConfigStream({}) /\ source = StackSource(0) /\ ret = "none"
  BY <1>2 DEF Called
<1>4. FilesInv
  <2>1. i[1] \in Seq(0..255) /\ i[2] \in Seq(0..255)
    BY InputsAssumption
  <2>2. i[1] \in Seq(Nat)
    BY <2>1, BytesAreNumbers
  <2> QED
    BY <1>2, <1>3, <2>1, <2>2 DEF FilesInv
<1>5. SourceInv
  <2>1. PICK c \in Nat : c = CHUNK
    BY <1>3, ChunksAssumption
  <2>2. 0 \in Nat
    OBVIOUS
  <2> QED
    BY <1>3, <2>1, <2>2, FreshSource DEF SourceInv, IsSource
<1>6. /\ stream.dec_state = "DEC_VCHEAD" /\ stream.cpylen = 0 /\ stream.cpyoff = 0
      /\ stream.tgtlen = 0 /\ stream.maxpos = 0 /\ stream.position = 0 /\ stream.space_out = 0
      /\ stream.s_near = 0 /\ stream.s_same = 0 /\ stream.out = <<>>
      /\ stream.current1 = NoHalf /\ stream.current2 = NoHalf
      /\ stream.data_sect = Section /\ stream.inst_sect = Section /\ stream.addr_sect = Section
      /\ stream.lastspace = 0
  BY <1>3 DEF ConfigStream
<1>7. Idle(stream) /\ \A h \in Halves : IsHalf(stream[h])
  <2>1. IsHalf(NoHalf) /\ NoHalf.type = XD3_NOOP
    BY DEF IsHalf, NoHalf, XD3_NOOP
  <2> QED
    BY <1>6, <2>1 DEF Halves, Idle
<1>8. Valued(stream)
  <2>1. Section.read = 0
    BY DEF Section
  <2>2. \A f \in Sections : stream[f].read \in Nat
    BY <1>6, <2>1, SectionsAre
  <2>3. stream.out \in Seq(Nat)
    BY <1>6
  <2> QED
    BY <1>6, <1>7, <2>2, <2>3 DEF Valued
<1>9. /\ stream.dec_state \in TableStates /\ stream.dec_state \notin WindowStates
      /\ stream.dec_state \notin StartStates /\ stream.dec_state \notin EndStates
      /\ stream.dec_state # "DEC_EMIT"
  BY <1>6 DEF TableStates, WindowStates, StartStates, EndStates, ReadOrEmit, ReadStates
<1>10. Equipped(stream) /\ Planned(stream)
  BY <1>9 DEF Equipped, TableKnown, Planned
<1>11. OutputInv /\ ReturnInv
  BY <1>3, <1>6, <1>7, <1>9 DEF OutputInv, ReturnInv
<1>12. SpareInv
  <2>1. Section.pos = 0
    BY DEF Section
  <2>2. \A f \in Sections : stream[f].pos = 0
    BY <1>6, <2>1, SectionsAre
  <2> QED
    BY <1>6, <2>2 DEF SpareInv
<1> QED
  BY <1>1, <1>4, <1>5, <1>8, <1>10, <1>11, <1>12 DEF WindowInv

(* A delta whose sections' lengths wrap around is left at its sections. *)
LEMMA NextFits == ASSUME WindowInv, [Next]_vars PROVE WindowInv' \/ Astray'
<1> SUFFICES ASSUME DedeltaInv' PROVE WindowInv'
  BY WindowParts, NextInv
<1>2. CASE Decode
  BY <1>2, DecodeFits
<1>3. CASE Open \/ NoMemory \/ ReadDeltaFails \/ OnInput \/ OnError \/ Close \/ UNCHANGED vars
  BY <1>3, WaitingFits
<1>4. CASE SetSource
  BY <1>4, SetSourceFits
<1>5. CASE ReadDelta
  BY <1>5, ReadDeltaFits
<1>6. CASE OnOutput
  BY <1>6, OnOutputFits
<1>7. CASE OnGetsrcblk
  BY <1>7, OnGetsrcblkFits
<1>8. CASE OnWindow
  BY <1>8, OnWindowFits
<1> QED
  BY <1>2, <1>3, <1>4, <1>5, <1>6, <1>7, <1>8, Zenon DEF Next

-----------------------------------------------------------------------------
(* What is undefined in the decoder, and when it comes to that. *)

Charged ==
  ret = "undefined" => pc = "process" /\ (LengthsWrap \/ InstructionsWrap \/ ~OwnsBuffer)

(* No header reads or writes outside a buffer. *)
LEMMA HeaderDefined ==
  ASSUME WindowInv, DecodeHeader \/ DecodeWindowHeader
  PROVE  ret' # "undefined"
<1>1. FileInv /\ stream.part32 \in Nat /\ stream.part64 \in Nat /\ stream.flags \subseteq {"XD3_FLUSH"}
  BY WindowParts, Parts DEF StreamTypes
<1>2. ret = "calling"
  BY DEF DecodeHeader, DecodeWindowHeader, DecVcHead, DecHdrInd, DecSecondId, DecTabLen, DecNear,
         DecSame, DecTabDat, DecAppLen, DecAppDat, DecWinInd, DecCpyLen, DecCpyOff, DecEncLen,
         DecTgtLen, DecDelInd, DecDataLen, DecInstLen, DecAddrLen, DecCksum, SizeCase,
         SectionSizeCase, NumberCase, ModesCase, Case
<1>3. CASE DecVcHead \/ DecTabDat \/ DecAppDat \/ DecCksum
  BY <1>2, <1>3, Zenon DEF DecVcHead, DecTabDat, DecAppDat, DecCksum, DecodeBytes, Return, Goto
<1>4. CASE DecHdrInd \/ DecSecondId \/ DecNear \/ DecSame \/ DecWinInd \/ DecDelInd
  BY <1>2, <1>4 DEF DecHdrInd, DecSecondId, DecNear, DecSame, DecWinInd, DecDelInd, ModesCase,
                    DecodeByte, Return, Goto, Refuse
<1> DEFINE r == DecodeInteger(stream.part32, Remaining, Word)
           q == DecodeInteger(stream.part64, Remaining, XWord)
<1>5. r.ret # "undefined" /\ q.ret # "undefined"
  BY <1>1, DigitsAnswer
<1> HIDE DEF r, q
<1>6. CASE DecTabLen \/ DecAppLen
  BY <1>2, <1>5, <1>6 DEF DecTabLen, DecAppLen, NumberCase, DecodeNumber, Return, Goto, r
<1>7. CASE DecCpyLen \/ DecTgtLen
  BY <1>2, <1>5, <1>7 DEF DecCpyLen, DecTgtLen, NumberCase, DecodeNumber, Return, Goto, r
<1>8. CASE DecEncLen \/ DecDataLen \/ DecInstLen \/ DecAddrLen
  BY <1>2, <1>5, <1>8 DEF DecEncLen, DecDataLen, DecInstLen, DecAddrLen, SizeCase, SectionSizeCase,
                          NumberCase, DecodeNumber, Return, Goto, r
<1>9. CASE DecCpyOff
  BY <1>2, <1>5, <1>9 DEF DecCpyOff, NumberCase, DecodeNumber, Return, Goto, q
<1> QED
  BY <1>3, <1>4, <1>6, <1>7, <1>8, <1>9 DEF DecodeHeader, DecodeWindowHeader

LEMMA TooLong == ASSUME NEW f \in Sections, stream[f].size + AllocSize > Word PROVE LengthsWrap
  BY SMTT(20) DEF LengthsWrap

(* A section that is copied has a buffer for all of it, and one that stays *)
(* in its chunk is there completely, unless sizes wrap around.             *)
LEMMA SectionUndefined ==
  ASSUME WindowInv, NEW f \in Sections, DecSection(Turn(f), f, NextOf(f)), ret' = "undefined"
  PROVE  stream' = stream /\ LengthsWrap
<1> DEFINE sect == stream[f]
           inPlace == InPlace(sect)
           take == IF inPlace THEN sect.size ELSE Min({sect.size - sect.pos, AvailIn})
           new == IF sect.size = sect.pos THEN sect
                  ELSE IF inPlace THEN [sect EXCEPT !.ref = at, !.copied = <<>>]
                  ELSE [sect EXCEPT !.ref = -1,
                          !.alloc1 = IF sect.pos = 0 THEN Allocated(@, sect.size) ELSE @,
                          !.copied = (IF sect.pos = 0 THEN <<>> ELSE @)
                                       \o SubSeq(ibuf, at + 1, at + take)]
           got == [stream EXCEPT ![f] = [new EXCEPT !.pos = @ + take], !.winbytes = @ + take]
           done == [At(stream, NextOf(f)) EXCEPT
                      ![f] = [new EXCEPT !.pos = 0, !.read = 0], !.winbytes = @ + take]
           within == take <= AvailIn /\ (inPlace \/ sect.pos + take <= new.alloc1)
           alloc == IF sect.pos = 0 THEN Allocated(sect.alloc1, sect.size) ELSE sect.alloc1
<1>1. /\ stream.dec_state = Turn(f) /\ ret = "calling" /\ StreamTypes /\ SpareInv
      /\ Counted /\ SumInv /\ FileInv
  BY WindowParts, Parts, AlsoCounted DEF DecSection, Case, SectionInv
<1>2. stream' = stream
  BY SectionBrings
<1>3. sect.pos < sect.size /\ ~within
  <2>1. "XD3_SKIP_EMIT" \notin stream.flags
    BY <1>1 DEF StreamTypes
  <2>2. Goto(done) => ret' = "calling"
    <3> HIDE DEF done
    <3> QED
      BY <1>1 DEF Goto
  <2>3. SetupBuffers(done) => ret' # "undefined"
    <3> HIDE DEF done
    <3> QED
      BY <1>1 DEF SetupBuffers, LargeEnough, Goto, Return
  <2> HIDE DEF done, got, take, within
  <2> QED
    BY <2>1, <2>2, <2>3, Zenon DEF DecSection, Return, Undefined, done, got, take, within
<1>4. IsSection(sect)
  BY <1>1 DEF StreamTypes
<1>5. sect.size # sect.pos /\ ~inPlace => new.alloc1 = alloc
  <2> HIDE DEF take, inPlace
  <2> QED
    BY <1>4, SectionFieldNames DEF IsSection
<1>6. PICK z \in Nat, n \in Nat, v \in Nat, a \in Nat :
        z = sect.size /\ n = sect.pos /\ v = AvailIn /\ a = sect.alloc1
  BY <1>1, <1>4, FileFacts DEF IsSection
<1>7. CASE inPlace
  <2>1. n = 0
    BY <1>6, <1>7 DEF InPlace
  <2>2. Rest <= AvailIn /\ Rest \in Nat /\ z - n <= Rest
    BY <1>1, <1>6, <1>7, PlacedInTime, Missing
  <2>3. z <= v
    BY <1>6, <2>1, <2>2
  <2> QED
    BY <1>3, <1>6, <1>7, <2>3
<1>8. CASE ~inPlace
  <2>1. PICK d \in Nat : d = z - n /\ n + d = z
    BY <1>3, <1>6
  <2>2. take = Min({d, v})
    <3>1. take = Min({sect.size - sect.pos, AvailIn})
      BY <1>8
    <3> HIDE DEF take, sect
    <3> QED
      BY <1>6, <2>1, <3>1
  <2>3. take \in Nat /\ take <= v /\ take <= d
    <3> HIDE DEF take
    <3> QED
      BY <2>2, Minimum
  <2>4. ~(n + take <= alloc)
    <3>1. new.alloc1 = alloc
      <4> HIDE DEF new, alloc, inPlace, sect
      <4> QED
        BY <1>3, <1>5, <1>6, <1>8
    <3> HIDE DEF new, alloc, inPlace, take, sect
    <3> QED
      BY <1>3, <1>6, <1>8, <2>3, <3>1 DEF within
  <2>5. z <= alloc \/ z + AllocSize > Word
    <3>1. CASE n = 0
      <4>1. alloc = Allocated(a, z)
        BY <1>6, <3>1
      <4> HIDE DEF alloc
      <4> QED
        BY <1>6, <4>1, AllocatedAmple
    <3>2. CASE n # 0
      <4>1. alloc = a
        BY <1>6, <3>2
      <4>2. Ample(sect)
        BY <1>1, <1>6, <3>2 DEF SpareInv
      <4> HIDE DEF alloc
      <4> QED
        BY <1>6, <4>1, <4>2 DEF Ample
    <3> QED
      BY <3>1, <3>2
  <2>6. alloc \in Nat
    <3>1. Allocated(a, z) \in Nat
      BY <1>6, Rounded DEF Allocated
    <3> QED
      BY <1>6, <3>1
  <2>7. z + AllocSize > Word
    <3> HIDE DEF alloc, take, sect
    <3> QED
      BY <1>6, <2>1, <2>3, <2>4, <2>5, <2>6
  <2>8. stream[f].size + AllocSize > Word
    BY <1>6, <2>7
  <2> QED
    BY <1>2, <2>8, TooLong
<1> QED
  BY <1>2, <1>7, <1>8

(* What a half instruction writes is within the window, and there is room  *)
(* for it.                                                                 *)
LEMMA HalfWithin ==
  ASSUME WindowInv, Case("DEC_EMIT"), Pending # {}, ~InstructionsWrap
  PROVE  /\ Fair(stream) /\ IsHalf(stream[Half]) /\ CopyThere(stream, Half, 0)
         /\ Len(stream.out) + stream[Half].size <= stream.tgtlen
         /\ stream.tgtlen <= stream.space_out /\ stream.tgtlen <= HardMaxWinsize
<1>1. Emitting(stream) /\ stream.dec_state = "DEC_EMIT"
  BY EmittingStream DEF Case
<1>2. /\ Valued(stream) /\ Accounted(stream) /\ stream.position <= stream.maxpos
      /\ stream.maxpos = stream.cpylen + stream.tgtlen /\ stream.tgtlen <= HardMaxWinsize
  BY <1>1, WindowParts DEF Emitting, Planned, EndStates, ReadOrEmit
<1>3. PendingSize("current1") = ToWrite(stream, "current1")
        /\ PendingSize("current2") = ToWrite(stream, "current2")
  BY DEF PendingSize, ToWrite, Pending
<1>4. Promised = Sum(stream)
  BY <1>3, Zenon DEF Promised, Sum
<1>5. Fair(stream)
  BY <1>2, <1>4 DEF Accounted, InstructionsWrap
<1>6. PICK f : /\ f = Half /\ (f = "current1" \/ f = "current2") /\ IsHalf(stream[f])
               /\ Fair(stream) => CopyThere(stream, f, 0)
  BY CopyHalf
<1>7. PICK c \in Nat, l \in Nat, x \in Nat, y \in Nat, g \in Nat, n \in Nat :
        /\ c = stream.cpylen /\ l = Len(stream.out) /\ g = stream.tgtlen /\ n = stream[f].size
        /\ x = ToWrite(stream, "current1") /\ y = ToWrite(stream, "current2")
  <2>1. stream.cpylen \in Nat /\ Len(stream.out) \in Nat /\ stream.tgtlen \in Nat
    BY <1>2 DEF Valued
  <2>2. stream[f].size \in Nat
    BY <1>6 DEF IsHalf
  <2>3. ToWrite(stream, "current1") \in Nat /\ ToWrite(stream, "current2") \in Nat
    BY <1>2 DEF Valued, IsHalf, ToWrite, Halves
  <2> QED
    BY <2>1, <2>2, <2>3
<1>8. n = x \/ n = y
  BY <1>6, <1>7, HalfTurn DEF ToWrite
<1>9. c + l + x + y = stream.position
  BY <1>5, <1>7 DEF Fair, Sum
<1>10. c + l + x + y <= c + g
  BY <1>2, <1>7, <1>9
<1>11. l + n <= g
  <2>1. c \in Nat /\ l \in Nat /\ x \in Nat /\ y \in Nat /\ g \in Nat /\ n \in Nat
    OBVIOUS
  <2> QED
    BY ONLY <2>1, <1>8, <1>10
<1> QED
  BY <1>2, <1>5, <1>6, <1>7, <1>11 DEF Accounted

LEMMA RoomThere ==
  ASSUME WindowInv, Case("DEC_EMIT"), Pending # {}, ~InstructionsWrap, OwnsBuffer,
         NEW n \in Nat, n <= stream[Half].size
  PROVE  Room(n)
<1>1. /\ Len(stream.out) + stream[Half].size <= stream.tgtlen
      /\ stream.tgtlen <= stream.space_out /\ IsHalf(stream[Half])
  BY HalfWithin
<1>2. /\ stream.next_out = stream.dec_buffer /\ stream.space_out = stream.dec_alloc
      /\ stream.next_out = NULL => stream.space_out = 0
  BY WindowParts DEF OwnsBuffer, SpareInv
<1>3. PICK l \in Nat, g \in Nat, s \in Nat, z \in Nat :
        l = Len(stream.out) /\ g = stream.tgtlen /\ s = stream.space_out /\ z = stream[Half].size
  BY <1>1, WindowParts DEF Valued, IsHalf
<1>4. l + n <= s
  BY <1>1, <1>3
<1>5. n = 0 \/ s # 0
  BY <1>3, <1>4
<1> QED
  BY <1>2, <1>3, <1>4, <1>5 DEF Room, Live

(* The instructions are carried out within the buffers, unless their sizes *)
(* wrap around or the window's buffer is another than it seems.            *)
LEMMA EmitUndefined ==
  ASSUME WindowInv, DedeltaInv', DecodeEmit, ret' = "undefined", UNCHANGED files, pc' = "process"
  PROVE  stream' = stream /\ (InstructionsWrap \/ ~OwnsBuffer)
<1>1. Case("DEC_EMIT") /\ ret = "calling"
  BY DEF DecodeEmit, EmitNoSource, EmitInstruction, EmitRun, EmitAdd, EmitCopyTarget, EmitCopySource,
         EmitCopyWindow, EmitEnd, EmitHalfCase, EmitCase, Case
<1>2. EmitRun \/ EmitAdd \/ EmitCopyTarget \/ EmitCopySource
  <2>1. ~EmitNoSource /\ ~EmitCopyWindow /\ ~EmitEnd
    BY DEF EmitNoSource, EmitCopyWindow, EmitEnd, Refuse, Return
  <2> QED
    BY <2>1, EmitInstructionFits DEF DecodeEmit
<1>3. Pending # {}
  BY <1>2 DEF EmitRun, EmitAdd, EmitCopyTarget, EmitCopySource, EmitHalfCase
<1>4. ASSUME NEW n, NEW s, Output(n, s) PROVE stream' = stream /\ ~Room(n)
  BY <1>1, <1>4 DEF Output, Goto, Undefined, Return
<1>5. SUFFICES ASSUME ~InstructionsWrap, OwnsBuffer PROVE FALSE
  <2>1. stream' = stream
    BY <1>1, <1>2, <1>4 DEF EmitRun, EmitAdd, EmitCopyTarget, EmitCopySource, AskBlock, Refuse,
                             Undefined, Return
  <2> QED
    BY <2>1
<1>6. /\ CopyThere(stream, Half, 0)
      /\ Len(stream.out) + stream[Half].size <= stream.tgtlen /\ stream.tgtlen <= HardMaxWinsize
  BY <1>1, <1>3, <1>5, HalfWithin
<1>7. PICK n \in Nat, a \in Nat, y \in Nat :
        n = stream[Half].size /\ a = stream[Half].addr /\ y = stream[Half].type
  BY <1>1, <1>3, <1>5, HalfWithin DEF IsHalf
<1>8. PICK l \in Nat, g \in Nat, c \in Nat :
        l = Len(stream.out) /\ g = stream.tgtlen /\ c = stream.cpylen
  BY WindowParts DEF Valued
<1>9. \A m \in Nat : m <= n => Room(m)
  BY <1>1, <1>3, <1>5, <1>7, RoomThere
<1>10. Room(n)
  BY <1>7, <1>9
<1>11. n <= HardMaxWinsize
  <2>1. HardMaxWinsize \in Nat
    BY DecoderAssumption
  <2> QED
    BY <1>6, <1>7, <1>8, <2>1
<1>12. CASE EmitRun
  <2>1. Unread(stream.data_sect) # <<>>
    BY <1>12 DEF EmitRun, Refuse, Return
  <2>2. \E s : Output(n, s)
    BY <1>7, <1>12, <2>1, Zenon DEF EmitRun
  <2> QED
    BY <1>4, <1>10, <2>2
<1>13. CASE EmitAdd
  <2>1. ~(n > HardMaxWinsize)
    BY <1>11, DecoderAssumption
  <2>2. (Refuse \/ (n > HardMaxWinsize /\ Undefined)) \/ \E s : Output(n, s)
    BY <1>7, <1>13, Zenon DEF EmitAdd
  <2> QED
    BY <1>4, <1>10, <2>1, <2>2 DEF Refuse, Return
<1>14. CASE EmitCopyTarget
  <2>1. y >= XD3_CPY /\ a >= c
    BY <1>7, <1>8, <1>14 DEF EmitCopyTarget
  <2>2. a < c + l + 0
    BY <1>6, <1>7, <1>8, <2>1 DEF CopyThere
  <2>3. PICK from \in Nat : from = a - c
    BY <2>1
  <2>4. ~(l - from <= 0)
    BY <2>2, <2>3
  <2>5. (n > 0 /\ l - from <= 0 /\ Undefined) \/ \E s : Output(n, s)
    BY <1>7, <1>8, <1>14, <2>3, Zenon DEF EmitCopyTarget
  <2> QED
    BY <1>4, <1>10, <2>4, <2>5
<1>15. CASE EmitCopySource
  <2>1. PICK p : p = BlksizeAdd(BlksizeDiv(stream.cpyoff), a)
    OBVIOUS
  <2>2. PICK z \in Nat \ {0} : z = CHUNK /\ z = source.blksize /\ z + HardMaxWinsize <= Word
    BY ChunksAssumption, WindowParts DEF SourceInv, FilesInv
  <2>3. PICK o \in Nat : o = p[2] /\ o < z
    <3>1. stream.cpyoff \in Nat
      BY WindowParts DEF Valued
    <3> QED
      BY <1>7, <2>1, <2>2, <3>1, BlockPlace
  <2>4. PICK room \in Nat : room = z - o
    BY <2>3
  <2>5. PICK take \in Nat : take = Min({n, room}) /\ take <= n
    BY Minimum
  <2>6. Room(take)
    BY <1>9, <2>5
  <2>7. ~(o + n >= Word)
    <3>1. HardMaxWinsize \in Nat /\ Word \in Nat
      BY DecoderAssumption, WordAssumption
    <3> QED
      BY <1>11, <2>2, <2>3, <3>1
  <2>8. \/ AskBlock(p[1]) \/ Refuse
        \/ o + n >= Word /\ Undefined
        \/ \E s : Output(take, s)
    BY <1>7, <1>15, <2>1, <2>2, <2>3, <2>4, <2>5, Zenon DEF EmitCopySource
  <2> QED
    BY <1>4, <2>6, <2>7, <2>8 DEF AskBlock, Refuse, Return
<1> QED
  BY <1>2, <1>12, <1>13, <1>14, <1>15

LEMMA ChargedStep == ASSUME WindowInv \/ Astray, Charged, [Next]_vars PROVE Charged'
<1>1. SUFFICES ASSUME ret' = "undefined"
               PROVE  pc' = "process" /\ (LengthsWrap \/ InstructionsWrap \/ ~OwnsBuffer)'
  BY DEF Charged
<1>2. CASE ret = "undefined"
  <2>1. pc = "process" /\ (LengthsWrap \/ InstructionsWrap \/ ~OwnsBuffer)
    BY <1>2 DEF Charged
  <2>2. ~DecodeInput
    BY <1>2 DEF DecodeInput, DecodeHeader, DecodeWindowHeader, DecodeSections, DecodeEmit,
      DecVcHead, DecHdrInd, DecSecondId, DecTabLen, DecNear, DecSame, DecTabDat, DecAppLen,
      DecAppDat, DecWinInd, DecCpyLen, DecCpyOff, DecEncLen, DecTgtLen, DecDelInd, DecDataLen,
      DecInstLen, DecAddrLen, DecCksum, SizeCase, SectionSizeCase, NumberCase, ModesCase,
      DecData, DecInst, DecAddr, DecSection, DecSkip, DecFinish, EmitNoSource, EmitInstruction,
      EmitRun, EmitAdd, EmitCopyTarget, EmitCopySource, EmitCopyWindow, EmitEnd, EmitHalfCase,
      EmitCase, Case
  <2>3. UNCHANGED vars
    BY <1>2, <2>1, <2>2 DEF Next, Open, NoMemory, SetSource, ReadDelta, ReadDeltaFails, Decode,
      OnInput, OnOutput, OnGetsrcblk, OnWindow, OnError, Close, Answer
  <2>4. stream' = stream /\ pc' = pc
    BY <2>3 DEF vars, decoder, dedelta
  <2> QED
    BY <2>1, <2>4 DEF LengthsWrap, InstructionsWrap, OwnsBuffer, SectionSum, Promised, PendingSize,
      Pending
<1>3. CASE ret # "undefined"
  <2>1. Decode
    BY <1>1, <1>3 DEF Next, Open, NoMemory, SetSource, ReadDelta, ReadDeltaFails, OnInput, OnOutput,
      OnGetsrcblk, OnWindow, OnError, Close, CallAgain, vars, decoder
  <2>2. pc = "process" /\ pc' = "process" /\ DecodeInput /\ UNCHANGED files
    BY <2>1 DEF Decode, dedelta
  <2>3. CASE Astray'
    BY <2>2, <2>3, Zenon DEF Astray, LengthsWrap
  <2>4. CASE WindowInv /\ DedeltaInv'
    <3>1. stream' = stream /\ (LengthsWrap \/ InstructionsWrap \/ ~OwnsBuffer)
      <4>1. CASE DecodeHeader \/ DecodeWindowHeader
        BY <1>1, <2>4, <4>1, HeaderDefined
      <4>2. CASE DecodeSections
        <5>1. PICK f \in Sections : DecSection(Turn(f), f, NextOf(f))
          BY <4>2, SectionTurns
        <5> QED
          BY <1>1, <2>4, <5>1, SectionUndefined
      <4>3. CASE DecSkip \/ DecFinish
        BY <1>1, <4>3 DEF DecSkip, DecFinish, Return
      <4>4. CASE DecodeEmit
        BY <1>1, <2>2, <2>4, <4>4, EmitUndefined
      <4> QED
        BY <2>2, <4>1, <4>2, <4>3, <4>4 DEF DecodeInput
    <3> QED
      BY <2>2, <3>1 DEF LengthsWrap, InstructionsWrap, OwnsBuffer, SectionSum, Promised, PendingSize,
        Pending
  <2> QED
    BY <2>3, <2>4, AstrayStep, NextInv, WindowParts
<1> QED
  BY <1>2, <1>3

(* In every state that dedelta can be in, up to an access outside a        *)
(* buffer, what the decoder wrote of a window and what the two halves of   *)
(* the current instruction have still to write add up to its position, and *)
(* a half that copies reads what is in the copy window or written by its   *)
(* turn: xd3_decode_parse_halfinst checks sizes and addresses so that the  *)
(* emit loop need not, unless these sizes wrap around a usize_t.  Every    *)
(* opcode's modes are ones the address caches have, the blocks of the      *)
(* source keep the size of the buffer they are read into, and section      *)
(* lengths that wrap around leave the decoder at the sections.             *)
THEOREM WindowCorrect == Spec => [](WindowInv \/ Astray)
<1>1. Init => WindowInv
  BY InitFits
<1>2. (WindowInv \/ Astray) /\ [Next]_vars => (WindowInv \/ Astray)'
  BY NextFits, AstrayStep
<1> QED
  BY <1>1, <1>2, PTL DEF Spec

LEMMA FitsInBuffer == ASSUME WindowInv \/ Astray, Charged PROVE WindowFits
<1>1. ret = "undefined" => LengthsWrap \/ InstructionsWrap \/ ~OwnsBuffer
  BY DEF Charged
<1>2. SUFFICES ASSUME stream.dec_state = "DEC_EMIT"
               PROVE  /\ \A f \in Sections : Len(stream[f].copied) <= stream[f].alloc1
                      /\ ret \in {"calling", "XD3_GETSRCBLK"} =>
                           /\ stream.position <= stream.maxpos
                           /\ InstructionsWrap \/ Promised = stream.position
                           /\ OwnsBuffer => stream.maxpos - stream.cpylen <= stream.dec_alloc
  BY <1>1, Zenon DEF WindowFits
<1>3. WindowInv
  BY <1>2 DEF Astray, ReadStates
<1>4. StreamTypes /\ Valued(stream) /\ Planned(stream) /\ OutputInv
  BY <1>3, WindowParts, Parts
<1>5. \A f \in Sections : Len(stream[f].copied) <= stream[f].alloc1
  BY <1>4 DEF StreamTypes, IsSection
<1>6. ASSUME ret = "calling" \/ ret = "XD3_GETSRCBLK"
      PROVE  /\ stream.position <= stream.maxpos
             /\ InstructionsWrap \/ Promised = stream.position
             /\ OwnsBuffer => stream.maxpos - stream.cpylen <= stream.dec_alloc
  <2>1. /\ stream.position <= stream.maxpos /\ stream.maxpos = stream.cpylen + stream.tgtlen
        /\ stream.tgtlen <= stream.space_out /\ (Fair(stream) \/ Sum(stream) >= Word)
    BY <1>2, <1>4, <1>6 DEF Planned, EndStates, ReadOrEmit, OutputInv, Going, Accounted
  <2>2. PendingSize("current1") = ToWrite(stream, "current1")
        /\ PendingSize("current2") = ToWrite(stream, "current2")
    BY DEF PendingSize, ToWrite, Pending
  <2>3. Promised = Sum(stream)
    BY <2>2, Zenon DEF Promised, Sum
  <2>4. InstructionsWrap \/ Promised = stream.position
    BY <2>1, <2>3, Zenon DEF InstructionsWrap, Fair
  <2>5. PICK c \in Nat, g \in Nat, s \in Nat :
          c = stream.cpylen /\ g = stream.tgtlen /\ s = stream.space_out
    BY <1>4 DEF Valued
  <2>6. (c + g) - c <= s
    BY <2>1, <2>5
  <2>7. OwnsBuffer => stream.maxpos - stream.cpylen <= stream.dec_alloc
    BY <2>1, <2>5, <2>6 DEF OwnsBuffer
  <2> QED
    BY <2>1, <2>4, <2>7
<1> QED
  BY <1>5, <1>6

(* The buffers hold all that is written to them: what the decoder wrote of *)
(* a window and what its parsed instructions have still to write add up to *)
(* its position, which never passes the window's end.  It comes to an      *)
(* access outside a buffer, in xd3_decode_sections or in                   *)
(* xd3_decode_output_halfinst, only by lengths or sizes whose sums wrap    *)
(* around a usize_t, or in a buffer that windows with VCD_TARGET swapped.  *)
THEOREM WindowsFit == Spec => []WindowFits
<1>1. Init => Charged
  BY DEF Init, Called, Charged
<1>2. (WindowInv \/ Astray) /\ Charged /\ [Next]_vars => Charged'
  BY ChargedStep
<1>3. (WindowInv \/ Astray) /\ Charged => WindowFits
  BY FitsInBuffer
<1> QED
  BY <1>1, <1>2, <1>3, WindowCorrect, PTL DEF Spec
=============================================================================
