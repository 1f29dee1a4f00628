----------------------------- MODULE MCDedelta -----------------------------
(* Model checking of Dedelta on deltas made by the encoder's operators. *)
EXTENDS Dedelta

CONSTANT Damages

Src == <<1, 2, 3, 4, 5, 6, 7, 8, 9, 10>>

Copy(at0, size, addr, fromSource) ==
  [type |-> XD3_CPY, pos |-> at0, size |-> size, addr |-> addr, xtra |-> fromSource]
Run(at0, size, byte) == [type |-> XD3_RUN, pos |-> at0, size |-> size, xtra |-> byte]

(* A window of target tgt by instructions insts, the rest of it adds. *)
Encoded(tgt, insts, srcbase, taroff) ==
  AddFinalize(FoldLeft(LAMBDA e, i : AddEncoding(e, i, tgt, srcbase, taroff),
                       EncodeReset, insts), tgt)
Window(src, tgt, insts, cksum) ==
  EmitWindow(src, tgt, Encoded(tgt, insts, IF src = <<>> THEN 0 ELSE src[2],
                                           IF src = <<>> THEN 0 ELSE src[1]), cksum)

(* Adds, a copy over a block's edge, a run, a copy that reads what it      *)
(* writes; pairs of instructions in one opcode; a copy of all the source.  *)
TargetA == <<20, 21, 4, 5, 6, 7, 8, 30, 30, 30, 30, 40, 41, 40, 41, 40, 41, 40>>
TargetB == <<50, 51, 52, 53, 50, 51, 52, 53, 54>>
TargetC == <<60, 61, 62>> \o Src
TargetD == <<51, 52, 53, 50>>
WindowSpecs ==
  <<[src |-> <<8, 1>>, tgt |-> TargetA, cksum |-> TRUE,
     insts |-> <<Copy(2, 5, 3, TRUE), Run(7, 4, 30), Copy(13, 5, 11, FALSE)>>],
    [src |-> <<>>, tgt |-> TargetB, cksum |-> FALSE, insts |-> <<Copy(4, 4, 0, FALSE)>>],
    [src |-> <<10, 0>>, tgt |-> TargetC, cksum |-> TRUE, insts |-> <<Copy(3, 10, 0, TRUE)>>],
    [src |-> <<4, 0>>, tgt |-> TargetB, cksum |-> FALSE, insts |-> <<Copy(4, 4, 0, FALSE)>>],
    [src |-> <<8, 1>>, tgt |-> TargetD, cksum |-> FALSE, insts |-> <<Copy(0, 4, 1, TRUE)>>]>>

(* A delta, and what its first n bytes still hold of its windows. *)
Delta(app, windows0) == FileHeader(app) \o FlattenSeq(windows0)
Cut(delta, ends, targets) ==
  {<<Src, SubSeq(delta, 1, n),
     SubSeq(targets, 1, Cardinality({k \in DOMAIN ends : Len(delta) - ends[k] <= n})), TRUE>> :
     n \in 0 .. Len(delta)}
Damaged(delta, targets) ==
  {<<Src, [delta EXCEPT ![i] = (@ + d) % 256], targets, FALSE>> :
     i \in DOMAIN delta, d \in Damages}

(* Header fields no encoder of this build sets, copies from the target, of *)
(* the window before and from before that window.  Table data <<0>>        *)
(* decodes to a table, no other does.                                      *)
OddHeaders ==
  {<<214, 195, 196, 1>>, <<214, 195, 0>>, Magic \o <<8>>, Magic \o <<1, 2>>,
   Magic \o <<1, 9>>, Magic \o <<2, 2, 4, 3>>, Magic \o <<2, 3, 4, 3, 1>>, Magic \o <<0, 8>>}
Table == CodeTableString(Rfc3284Table)
TableOf == [data \in {<<0>>} |-> Table]

InputsOf(w) ==
  Cut(Delta(<<>>, <<w[1], w[2]>>), <<Len(w[2]), 0>>, <<TargetA, TargetB>>)
    \cup Cut(Delta(<<<<7, 8, 9>>>>, <<w[3]>>), <<0>>, <<TargetC>>)
    \cup Damaged(Delta(<<>>, <<w[1], w[3]>>), <<TargetA, TargetC>>)
    \cup {<<SubSeq(Src, 1, n), Delta(<<>>, <<w[3]>>), <<TargetC>>, FALSE>> : n \in {0, 5, 9}}
    \cup {<<Src, h, <<>>, FALSE>> : h \in OddHeaders}
    \cup {<<Src, Magic \o <<2, 3, 4, 3, 0>> \o w[2], <<TargetB>>, FALSE>>,
          <<Src, Delta(<<>>, <<[w[2] EXCEPT ![1] = 2]>>), <<>>, FALSE>>,
          <<Src, Delta(<<>>, <<w[2], w[4]>>), <<TargetB, TargetB>>, FALSE>>,
          <<Src, Delta(<<>>, <<w[2], [w[5] EXCEPT ![1] = VCD_TARGET]>>), <<TargetB>>, FALSE>>,
          <<Src, Delta(<<>>, <<w[2], w[2], [w[3] EXCEPT ![1] = VCD_TARGET + VCD_ADLER32]>>),
            <<TargetB, TargetB>>, FALSE>>}

(* Windows given by the lengths in their header and the bytes after it. *)
Sized(ind, cpy, tgtlen, lens, bytes) ==
  <<ind>> \o (IF cpy = <<>> THEN <<>> ELSE EmitInteger(cpy[1]) \o EmitInteger(cpy[2]))
    \o EmitInteger(EncLen(tgtlen, lens[1], lens[2], lens[3], FALSE)) \o EmitInteger(tgtlen)
    \o <<0>> \o FlattenSeq([k \in 1 .. 3 |-> EmitInteger(lens[k])]) \o bytes
Given(ind, cpy, tgtlen, data, inst, addr) ==
  Sized(ind, cpy, tgtlen, <<Len(data), Len(inst), Len(addr)>>, data \o inst \o addr)

(* Sizes whose sum wraps around: a run, a copy of the source in one piece  *)
(* and in several, a copy of the target and an add after one byte, and an  *)
(* add of one byte more than the window has.                               *)
RunOf(n) == <<0>> \o EmitInteger(n)
AddOf(n) == <<1>> \o EmitInteger(n)
CopyOf(n) == <<19>> \o EmitInteger(n)
WrappingSizes ==
  {Given(0, <<>>, 1, <<60, 61>>, AddOf(1) \o RunOf(Word - 1), <<>>),
   Given(1, <<4, 0>>, 8, <<>>, CopyOf(Word - 2), <<2>>),
   Given(1, <<4, 1>>, 8, <<>>, CopyOf(Word - 2), <<3>>),
   Given(0, <<>>, 1, <<60>>, AddOf(1) \o CopyOf(Word - 1), <<0>>),
   Given(0, <<>>, 1, <<60>>, AddOf(1) \o AddOf(Word - 1), <<>>),
   Given(1, <<Word - 8, 0>>, 7, [k \in 1 .. 8 |-> k], AddOf(8), <<>>)}

(* Section lengths whose sum wraps around to none, few and many bytes, and *)
(* one that wraps around when it is rounded up.                            *)
WrappingLengths ==
  {Sized(0, <<>>, 1, lens, <<60, 61, 62, 63, 64>>) :
     lens \in {<<Word \div 2, Word \div 2, 0>>, <<2, Word - 1, 0>>, <<Word - 2, 100, 0>>,
              <<Word - 1, 0, 0>>}}

(* Windows of adds with and without VCD_TARGET. *)
Adds(target, laststart, bytes) ==
  Given(IF target THEN VCD_TARGET ELSE 0, IF target THEN <<0, laststart>> ELSE <<>>,
        Len(bytes), bytes, AddOf(Len(bytes)), <<>>)
Small == <<1, 2, 3, 4>>
Large == <<5, 6, 7, 8, 9>>
TargetWindows ==
  {<<Src, Delta(<<>>, <<Adds(t[1], 0, Small), Adds(t[2], 0, b), Adds(t[3], 4, Small),
                        Adds(TRUE, 4 + Len(b), Small)>>),
     <<Small, b, Small, Small>>, FALSE>> :
     t \in {<<TRUE, TRUE, FALSE>>, <<FALSE, TRUE, TRUE>>}, b \in {Small, Large}}

Extremes ==
  {<<Src, Delta(<<>>, <<w>>), <<>>, FALSE>> : w \in WrappingSizes \cup WrappingLengths}
    \cup TargetWindows

MCInputs ==
  Extremes \cup InputsOf([k \in DOMAIN WindowSpecs |->
     Window(WindowSpecs[k].src, WindowSpecs[k].tgt, WindowSpecs[k].insts, WindowSpecs[k].cksum)])
==============================================================================
