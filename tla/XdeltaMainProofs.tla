-------------------------- MODULE XdeltaMainProofs --------------------------
(***************************************************************************)
(* Proofs about XdeltaMain, for every job, window size and name.           *)
(***************************************************************************)
EXTENDS XdeltaMain, CommonLemmas, TLAPS

-----------------------------------------------------------------------------
(* Windows of the same size. *)

LEMMA Multiple ==
  ASSUME NEW k \in Nat, NEW n \in Nat
  PROVE  k * n \in Nat /\ (k + 1) * n = k * n + n
  BY SMT

LEMMA MultipleOrder ==
  ASSUME NEW j \in Nat, NEW k \in Nat, NEW n \in Nat, j <= k
  PROVE  j * n <= k * n
<1>1. PICK d \in Nat : k = j + d
  <2>1. k - j \in Nat /\ k = j + (k - j)
    BY SMT
  <2> QED
    BY <2>1
<1>2. (j + d) * n = j * n + d * n /\ d * n \in Nat /\ j * n \in Nat
  BY SMT
<1> QED
  BY <1>1, <1>2, SMT

(* A number has one quotient. *)
LEMMA Quotient ==
  ASSUME NEW a \in Nat, NEW n \in Nat \ {0}, NEW k \in Nat, k * n <= a
  PROVE  /\ k <= a \div n
         /\ a < k * n + n => a \div n = k
         /\ a = k * n => a % n = 0
<1> DEFINE q == a \div n
           r == a % n
<1>1. a = q * n + r /\ q \in Nat /\ r \in 0..n - 1
  BY Division, Zenon
<1> HIDE DEF q, r
<1>2. k * n \in Nat /\ q * n \in Nat /\ q + 1 \in Nat /\ (q + 1) * n = q * n + n
      /\ k + 1 \in Nat /\ (k + 1) * n = k * n + n
  BY <1>1, Multiple, SMT
<1>3. k <= q
  <2> SUFFICES ASSUME q + 1 <= k PROVE FALSE
    BY <1>1, SMT
  <2>1. (q + 1) * n <= k * n
    BY <1>2, MultipleOrder
  <2> QED
    BY <1>1, <1>2, <2>1, SMT
<1>4. ASSUME a < k * n + n PROVE q = k
  <2> SUFFICES ASSUME k + 1 <= q PROVE FALSE
    BY <1>1, <1>3, SMT
  <2>1. (k + 1) * n <= q * n
    BY <1>1, <1>2, MultipleOrder
  <2> QED
    BY <1>1, <1>2, <1>4, <2>1, SMT
<1>5. ASSUME a = k * n PROVE r = 0
  <2>1. q = k
    BY <1>2, <1>4, <1>5, SMT
  <2>2. k * n = k * n + r
    BY <1>1, <1>5, <2>1
  <2> QED
    BY <1>1, <1>2, <2>2, SMT
<1> QED
  BY <1>3, <1>4, <1>5 DEF q, r

-----------------------------------------------------------------------------
(* The inductive invariant.  Of the input the buffer holds the last piece  *)
(* that was read, and what the library has taken is told by its phase: so  *)
(* many windows, and so much of the next.                                  *)

Running == pc \in {"setup", "read", "process", "returned", "done"}
Encoding == job.cmd = "encode"
Base == nread - Len(bdata)

Streams ==
  [phase : {"ENC_INPUT", "ENC_SEARCH", "ENC_POSTOUT", "ENC_POSTWIN",
            "DEC_VCHEAD", "DEC_HDRIND", "DEC_WININD", "DEC_DATA", "DEC_FINISH"},
   avail : Seq(Nat), flush : BOOLEAN, current_window : Nat, windows : Nat,
   held : Seq(Nat), out : Seq(Nat), appheader : BOOLEAN]

MainTypes ==
  /\ job \in Jobs /\ winsize = GetWinsize(job)
  /\ fs \in [Names -> [there : BOOLEAN, cells : Seq(Nat)]]
  /\ bdata \in Seq(Nat) /\ nread \in Nat /\ stream \in Streams
  /\ written \in Seq(Nat) /\ nwrite \in Nat
  /\ oopen \in {"none", "open", "closed"} /\ exit \in {0, 1}
  /\ pc \in {"setup", "read", "process", "returned", "done", "cleanup", "exited"}

(* The buffer. *)
BufferInv ==
  /\ Len(bdata) <= winsize /\ Len(bdata) <= nread /\ nread <= Len(job.input)
  /\ bdata = SubSeq(job.input, Base + 1, nread)
  /\ pc \in {"process", "returned"} => Len(bdata) = winsize \/ nread = Len(job.input)

(* The encoder works on the window of the input that is in the buffer. *)
EncoderInv ==
  LET k == stream.current_window
      begun == stream.phase \in {"ENC_SEARCH", "ENC_POSTOUT", "ENC_POSTWIN"}
  IN
  /\ stream.phase \in {"ENC_INPUT", "ENC_SEARCH", "ENC_POSTOUT", "ENC_POSTWIN"}
  /\ stream.appheader => job.appheader
  /\ pc \in {"setup", "read"} => stream.phase = "ENC_INPUT" /\ Base = k * winsize
  /\ pc \in {"process", "returned"} /\ (begun \/ pc = "process") =>
       /\ Base = k * winsize /\ stream.avail = bdata /\ (bdata # <<>> \/ k = 0)
       /\ Len(bdata) < winsize => stream.flush
       /\ stream.appheader = job.appheader
  /\ pc = "returned" =>
       \/ ret = "XD3_INPUT" /\ stream.phase = "ENC_INPUT" /\ stream.avail = <<>>
            /\ k > 0 /\ Base = (k - 1) * winsize /\ (bdata # <<>> \/ k = 1)
       \/ ret = "XD3_WINSTART" /\ stream.phase = "ENC_SEARCH"
       \/ ret = "XD3_OUTPUT" /\ stream.phase = "ENC_POSTOUT"
       \/ ret = "XD3_WINFINISH" /\ stream.phase = "ENC_POSTWIN"
  /\ pc = "done" => stream.phase = "ENC_INPUT" /\ stream.avail = <<>> /\ k = Len(Pieces)

(* The decoder has taken all of the input but what is available to it. *)
Taken == nread - (IF pc \in {"setup", "read"} THEN Len(bdata) ELSE Len(stream.avail))
DecoderInv ==
  LET start == 2 + stream.windows * WindowLength
  IN
  /\ stream.phase \in {"DEC_VCHEAD", "DEC_HDRIND", "DEC_WININD", "DEC_DATA", "DEC_FINISH"}
  /\ Len(stream.avail) <= nread /\ stream.avail = SubSeq(job.input, nread - Len(stream.avail) + 1, nread)
  /\ pc \in {"setup", "read"} => stream.avail = <<>>
  /\ stream.phase = "DEC_VCHEAD" => Taken = 0 /\ stream.windows = 0
  /\ stream.phase = "DEC_HDRIND" => Taken = 1 /\ stream.windows = 0
  /\ stream.phase = "DEC_WININD" => Taken = start
  /\ stream.phase = "DEC_DATA" =>
       /\ Taken = start + Len(stream.held) /\ Len(stream.held) \in 1..(WindowLength - 1)
       /\ stream.held[1] = job.input[start + 1]
  /\ stream.phase = "DEC_FINISH" => Taken = start + WindowLength
  /\ pc = "returned" =>
       \/ ret = "XD3_INPUT" /\ stream.avail = <<>>
       \/ ret = "XD3_GOTHEADER" /\ stream.phase = "DEC_DATA" /\ stream.windows = 0
       \/ ret = "XD3_WINSTART" /\ stream.phase = "DEC_DATA"
       \/ ret = "XD3_OUTPUT" /\ stream.phase = "DEC_FINISH"
       \/ ret = "XD3_WINFINISH" /\ stream.phase = "DEC_WININD"
  /\ pc = "done" => stream.avail = <<>> /\ nread = Len(job.input)
  /\ oopen # "none" => stream.windows > 0 \/ stream.phase = "DEC_FINISH"

(* The output: the windows applied and the piece of the next one that is   *)
(* written.                                                                *)
Now == FlattenSeq(SubSeq(Targets, 1, Count))
OutputInv ==
  /\ Count <= Len(Targets)
  /\ stream.out # <<>> => Count < Len(Targets) /\ stream.out = Targets[Count + 1]
  /\ Running => (stream.out # <<>> <=> pc = "returned" /\ ret = "XD3_OUTPUT")
  /\ nwrite <= Len(stream.out) /\ (~Running => nwrite = 0 \/ nwrite < Len(stream.out))
  /\ job.no_output => written = <<>> /\ nwrite = 0 /\ oopen = "none"
  /\ ~job.no_output => written = Now \o SubSeq(stream.out, 1, nwrite)
  /\ oopen = "none" => written = <<>> /\ nwrite = 0
  /\ oopen # "none" /\ oname \in Names => fs[oname].cells = written
  /\ Running => oopen # "closed"

ExitInv ==
  /\ Running => exit = 0
  /\ ~Running /\ exit = 0 /\ ~job.no_output =>
       /\ Whole /\ Count = Len(Targets) /\ nwrite = 0 /\ oopen # "none"

MainInv ==
  /\ MainTypes /\ BufferInv /\ OutputInv /\ ExitInv
  /\ Running => IF Encoding THEN EncoderInv ELSE DecoderInv

-----------------------------------------------------------------------------
(* What the output should be. *)

LEMMA JobFacts ==
  ASSUME MainTypes
  PROVE  /\ winsize \in Nat \ {0} /\ job.input \in Seq(Nat) /\ Len(job.input) \in Nat
         /\ job.appheader \in BOOLEAN /\ job.no_output \in BOOLEAN
         /\ WindowLength \in Nat \ {0} /\ WindowLength > 1
<1>1. /\ job.input \in Seq(Nat) /\ job.option_winsize \in Nat /\ job.regular \in BOOLEAN
      /\ job.appheader \in BOOLEAN /\ job.no_output \in BOOLEAN
  BY JobsAssumption DEF MainTypes
<1>2. Len(job.input) \in Nat /\ XD3_ALLOCSIZE \in Nat \ {0}
  BY <1>1, WindowAssumption
<1>3. \A a, b \in Nat : Smaller(a, b) \in Nat /\ (Larger(a, b) \in Nat) /\ (b # 0 => Larger(a, b) # 0)
  BY SMT DEF Smaller, Larger
<1>4. winsize \in Nat \ {0}
  <2>1. PICK a \in Nat : winsize = Larger(a, XD3_ALLOCSIZE)
    BY <1>1, <1>2, <1>3 DEF MainTypes, GetWinsize
  <2> QED
    BY <1>2, <1>3, <2>1
<1> QED
  BY <1>1, <1>2, <1>4, WindowAssumption

(* Pieces has one element for every window. *)
PieceCount == Larger(1, (Len(job.input) + winsize - 1) \div winsize)
Piece(k) ==
  (IF k = 1 THEN FileHeader(job.appheader) ELSE <<>>) \o <<100>>
    \o SubSeq(job.input, (k - 1) * winsize + 1, Smaller(k * winsize, Len(job.input)))

LEMMA PieceType ==
  ASSUME MainTypes, NEW k \in Nat \ {0}
  PROVE  Piece(k) \in Seq(Nat) /\ Piece(k) # <<>>
<1>1. winsize \in Nat \ {0} /\ job.input \in Seq(Nat) /\ Len(job.input) \in Nat
  BY JobFacts
<1>2. (k - 1) * winsize \in Nat /\ k * winsize \in Nat /\ k - 1 \in Nat
  BY <1>1, Multiple, SMT
<1> DEFINE a == (k - 1) * winsize
           b == Smaller(k * winsize, Len(job.input))
           h == IF k = 1 THEN FileHeader(job.appheader) ELSE <<>>
           x == SubSeq(job.input, a + 1, b)
<1>3. b \in Nat /\ b <= Len(job.input)
  BY <1>1, <1>2, SMT DEF Smaller
<1>4. h \in Seq(Nat)
  BY DEF FileHeader
<1> HIDE DEF a, b, h
<1>5. x \in Seq(Nat)
  <2>1. a \in Nat
    BY <1>2 DEF a
  <2> QED
    BY <1>1, <1>3, <2>1, SMT
<1> HIDE DEF x
<1>6. h \o <<100>> \o x \in Seq(Nat) /\ h \o <<100>> \o x # <<>>
  BY <1>4, <1>5, SMT
<1> QED
  BY <1>6 DEF Piece, h, x, a, b

LEMMA PiecesFacts ==
  ASSUME MainTypes, Encoding
  PROVE  /\ PieceCount \in Nat \ {0} /\ Targets \in Seq(Seq(Nat)) /\ Len(Targets) = PieceCount
         /\ Len(Pieces) = PieceCount
         /\ \A k \in 1..PieceCount : Targets[k] = Piece(k)
<1>1. winsize \in Nat \ {0} /\ job.input \in Seq(Nat) /\ Len(job.input) \in Nat
  BY JobFacts
<1>2. PieceCount \in Nat \ {0}
  <2>1. Len(job.input) + winsize - 1 \in Nat
    BY <1>1, SMT
  <2>2. (Len(job.input) + winsize - 1) \div winsize \in Nat
    BY <1>1, <2>1, Division
  <2> QED
    BY <2>2, SMT DEF PieceCount, Larger
<1>3. Targets = [k \in 1..PieceCount |-> Piece(k)] /\ Pieces = [k \in 1..PieceCount |-> Piece(k)]
  BY DEF Targets, Pieces, Encoding, PieceCount, Piece
<1> HIDE DEF PieceCount
<1>4. \A k \in 1..PieceCount : Piece(k) \in Seq(Nat)
  <2>1. \A k \in 1..PieceCount : k \in Nat \ {0}
    BY <1>2, SMT
  <2> QED
    BY <2>1, PieceType
<1> QED
  BY <1>2, <1>3, <1>4

(* A window that the input goes into is one of the pieces. *)
LEMMA PieceThere ==
  ASSUME MainTypes, Encoding, NEW k \in Nat, k = 0 \/ k * winsize < Len(job.input)
  PROVE  k + 1 \in 1..Len(Targets) /\ Targets[k + 1] = Piece(k + 1)
<1>1. winsize \in Nat \ {0} /\ Len(job.input) \in Nat
  BY JobFacts
<1>2. PieceCount \in Nat \ {0} /\ Len(Targets) = PieceCount /\ \A i \in 1..PieceCount : Targets[i] = Piece(i)
  BY PiecesFacts
<1>3. k + 1 <= PieceCount
  <2> DEFINE a == Len(job.input) + winsize - 1
  <2>1. CASE k = 0
    BY <1>2, <2>1, SMT
  <2>2. CASE k * winsize < Len(job.input)
    <3>1. k * winsize \in Nat /\ (k + 1) * winsize = k * winsize + winsize /\ k + 1 \in Nat
      BY <1>1, Multiple, SMT
    <3>2. a \in Nat /\ (k + 1) * winsize <= a
      BY <1>1, <2>2, <3>1, SMT
    <3> HIDE DEF a
    <3>3. k + 1 <= a \div winsize /\ a \div winsize \in Nat
      BY <1>1, <3>1, <3>2, Quotient, Division
    <3> QED
      BY <3>1, <3>3, SMT DEF PieceCount, Larger, a
  <2> QED
    BY <2>1, <2>2
<1> QED
  BY <1>2, <1>3, SMT

(* The window in which the input ends is the last piece. *)
LEMMA PieceLast ==
  ASSUME MainTypes, Encoding, NEW k \in Nat, NEW r \in 0..winsize,
         Len(job.input) = k * winsize + r, r > 0 \/ k = 0
  PROVE  Len(Targets) = k + 1 /\ Len(Pieces) = k + 1
<1>1. winsize \in Nat \ {0} /\ Len(job.input) \in Nat /\ r \in Nat /\ r <= winsize
  BY JobFacts, SMT
<1>2. k * winsize \in Nat /\ (k + 1) * winsize = k * winsize + winsize /\ k + 1 \in Nat
  BY <1>1, Multiple, SMT
<1> DEFINE a == Len(job.input) + winsize - 1
<1>3. CASE r > 0
  <2>1. a \in Nat /\ (k + 1) * winsize <= a /\ a < (k + 1) * winsize + winsize
    BY <1>1, <1>2, <1>3, SMT
  <2> HIDE DEF a
  <2>2. a \div winsize = k + 1
    BY <1>1, <1>2, <2>1, Quotient
  <2>3. PieceCount = k + 1
    BY <2>2, SMT DEF PieceCount, Larger, a
  <2> QED
    BY <2>3, PiecesFacts
<1>4. CASE r = 0
  <2>1. k = 0 /\ Len(job.input) = 0
    <3>1. k = 0
      BY <1>1, <1>4
    <3>2. k * winsize = 0
      BY <1>1, <3>1, SMT
    <3> QED
      BY <1>4, <3>1, <3>2, SMT
  <2>2. a \in Nat /\ a < winsize /\ 0 * winsize <= a /\ a < 0 * winsize + winsize
    BY <1>1, <2>1, SMT
  <2> HIDE DEF a
  <2>3. a \div winsize = 0
    BY <1>1, <2>2, Quotient
  <2>4. PieceCount = 1
    BY <2>3, SMT DEF PieceCount, Larger, a
  <2> QED
    BY <2>1, <2>4, PiecesFacts
<1> QED
  BY <1>1, <1>3, <1>4, SMT

(* The decoder's targets. *)
Cell(k) == job.input[2 + (k - 1) * WindowLength + 1]

LEMMA CompleteFacts ==
  ASSUME MainTypes
  PROVE  /\ Complete \in Nat
         /\ Complete > 0 => 2 + Complete * WindowLength <= Len(job.input)
<1>1. WindowLength \in Nat \ {0} /\ Len(job.input) \in Nat
  BY JobFacts
<1> DEFINE a == Larger(0, Len(job.input) - 2)
<1>2. a \in Nat /\ (a > 0 => 2 + a = Len(job.input))
  BY <1>1, SMT DEF Larger
<1>3. Complete = a \div WindowLength
  BY DEF Complete
<1> HIDE DEF a
<1>4. Complete \in Nat /\ a = Complete * WindowLength + (a % WindowLength) /\ a % WindowLength \in Nat
  <2>1. /\ a = (a \div WindowLength) * WindowLength + (a % WindowLength)
        /\ a \div WindowLength \in Nat /\ a % WindowLength \in 0..WindowLength - 1
    BY <1>1, <1>2, Division, Zenon
  <2>2. \A r \in 0..WindowLength - 1 : r \in Nat
    BY <1>1, SMT
  <2> QED
    BY <1>3, <2>1, <2>2, Zenon
<1>5. ASSUME Complete > 0 PROVE 2 + Complete * WindowLength <= Len(job.input)
  <2>1. 1 * WindowLength <= Complete * WindowLength /\ Complete * WindowLength \in Nat
    BY <1>1, <1>4, <1>5, MultipleOrder, Multiple, SMT
  <2>2. 1 * WindowLength = WindowLength
    BY <1>1, SMT
  <2> QED
    BY <1>1, <1>2, <1>4, <2>1, <2>2, SMT
<1> QED
  BY <1>4, <1>5

LEMMA DecodedFacts ==
  ASSUME MainTypes, ~Encoding
  PROVE  /\ Targets \in Seq(Seq(Nat)) /\ Len(Targets) = Complete
         /\ \A k \in 1..Complete : Targets[k] = Decoded(Cell(k))
<1>1. WindowLength \in Nat \ {0} /\ Len(job.input) \in Nat /\ job.input \in Seq(Nat)
  BY JobFacts
<1>2. Complete \in Nat /\ (Complete > 0 => 2 + Complete * WindowLength <= Len(job.input))
  BY CompleteFacts
<1>3. Targets = [k \in 1..Complete |-> Decoded(Cell(k))]
  BY DEF Targets, Encoding, Cell
<1>4. ASSUME NEW k \in 1..Complete PROVE Decoded(Cell(k)) \in Seq(Nat)
  <2>1. k \in Nat /\ k - 1 \in Nat /\ k <= Complete /\ Complete > 0
    BY <1>2, SMT
  <2>2. (k - 1) * WindowLength \in Nat /\ ((k - 1) + 1) * WindowLength = (k - 1) * WindowLength + WindowLength
    BY <1>1, <2>1, Multiple
  <2>3. k * WindowLength <= Complete * WindowLength /\ (k - 1) + 1 = k
    BY <1>1, <1>2, <2>1, MultipleOrder, SMT
  <2>4. Complete * WindowLength \in Nat /\ k * WindowLength \in Nat
    BY <1>1, <1>2, <2>1, Multiple
  <2>5. 2 + (k - 1) * WindowLength + 1 \in 1..Len(job.input)
    <3>1. k * WindowLength = (k - 1) * WindowLength + WindowLength
      BY <2>2, <2>3
    <3> QED
      BY <1>1, <1>2, <2>1, <2>2, <2>3, <2>4, <3>1, SMT
  <2>6. Cell(k) \in Nat
    BY <1>1, <2>5 DEF Cell
  <2> QED
    BY <2>6 DEF Decoded
<1> HIDE DEF Complete
<1> QED
  BY <1>2, <1>3, <1>4

LEMMA DecodedThere ==
  ASSUME MainTypes, ~Encoding, NEW k \in Nat, 2 + k * WindowLength + WindowLength <= Len(job.input)
  PROVE  /\ k + 1 \in 1..Len(Targets)
         /\ Targets[k + 1] = Decoded(job.input[2 + k * WindowLength + 1])
<1>1. WindowLength \in Nat \ {0} /\ Len(job.input) \in Nat
  BY JobFacts
<1>2. k * WindowLength \in Nat /\ (k + 1) * WindowLength = k * WindowLength + WindowLength /\ k + 1 \in Nat
  BY <1>1, Multiple, SMT
<1> DEFINE a == Larger(0, Len(job.input) - 2)
<1>3. a \in Nat /\ (k + 1) * WindowLength <= a
  BY <1>1, <1>2, SMT DEF Larger
<1>4. Complete = a \div WindowLength
  BY DEF Complete
<1> HIDE DEF a
<1>5. k + 1 <= Complete
  BY <1>1, <1>2, <1>3, <1>4, Quotient
<1>6. k + 1 \in 1..Complete /\ (k + 1) - 1 = k
  BY <1>2, <1>5, CompleteFacts, SMT
<1>7. Cell(k + 1) = job.input[2 + k * WindowLength + 1]
  BY <1>6 DEF Cell
<1> QED
  BY <1>6, <1>7, DecodedFacts

LEMMA DecodedLast ==
  ASSUME MainTypes, ~Encoding, NEW k \in Nat, k > 0, Len(job.input) = 2 + k * WindowLength
  PROVE  Len(Targets) = k /\ Whole
<1>1. WindowLength \in Nat \ {0} /\ Len(job.input) \in Nat
  BY JobFacts
<1>2. k * WindowLength \in Nat /\ 1 * WindowLength = WindowLength
  BY <1>1, Multiple, SMT
<1>3. WindowLength <= k * WindowLength
  BY <1>1, <1>2, MultipleOrder
<1>4. Larger(0, Len(job.input) - 2) = k * WindowLength /\ Len(job.input) - 2 = k * WindowLength /\ Len(job.input) > 2
  BY <1>1, <1>2, <1>3, SMT DEF Larger
<1>5. (k * WindowLength) \div WindowLength = k /\ (k * WindowLength) % WindowLength = 0
  <2>1. k * WindowLength <= k * WindowLength /\ k * WindowLength < k * WindowLength + WindowLength
    BY <1>1, <1>2, SMT
  <2> QED
    BY <1>1, <1>2, <2>1, Quotient
<1>6. Complete = k /\ Whole
  BY <1>4, <1>5 DEF Complete, Whole
<1> QED
  BY <1>6, DecodedFacts

LEMMA TargetsType ==
  ASSUME MainTypes
  PROVE  Targets \in Seq(Seq(Nat)) /\ Len(Targets) \in Nat
<1>1. Targets \in Seq(Seq(Nat))
  BY PiecesFacts, DecodedFacts
<1> QED
  BY <1>1

(* They depend on the job alone. *)
LEMMA TargetsSame ==
  ASSUME UNCHANGED <<job, winsize>>
  PROVE  Targets' = Targets /\ Len(Pieces)' = Len(Pieces) /\ (Whole' <=> Whole)
  BY DEF Targets, Pieces, Complete, Whole

-----------------------------------------------------------------------------
(* The program's steps and the output. *)

LEMMA Parts ==
  ASSUME MainInv
  PROVE  /\ MainTypes /\ BufferInv /\ OutputInv /\ ExitInv
         /\ Running /\ Encoding => EncoderInv
         /\ Running /\ ~Encoding => DecoderInv
  BY DEF MainInv

LEMMA StreamType ==
  ASSUME MainTypes
  PROVE  /\ stream.avail \in Seq(Nat) /\ stream.out \in Seq(Nat) /\ stream.held \in Seq(Nat)
         /\ stream.current_window \in Nat /\ stream.windows \in Nat /\ Count \in Nat
         /\ stream.flush \in BOOLEAN /\ stream.appheader \in BOOLEAN
<1>1. /\ stream.avail \in Seq(Nat) /\ stream.out \in Seq(Nat) /\ stream.held \in Seq(Nat)
      /\ stream.current_window \in Nat /\ stream.windows \in Nat
      /\ stream.flush \in BOOLEAN /\ stream.appheader \in BOOLEAN
  BY DEF MainTypes, Streams
<1> QED
  BY <1>1, SMT DEF Count

LEMMA NowSame ==
  ASSUME UNCHANGED <<job, winsize>>, Count' = Count
  PROVE  Now' = Now
  BY TargetsSame DEF Now

(* A step that has nothing to do with the output. *)
LEMMA OutputQuiet ==
  ASSUME OutputInv, UNCHANGED <<job, winsize, fs, nwrite, written, oopen>>,
         oname' = oname \/ oopen = "none", stream.out = <<>>, stream'.out = <<>>,
         Count' = Count, Running, Running', ~(pc' = "returned" /\ ret' = "XD3_OUTPUT")
  PROVE  OutputInv'
<1>1. Targets' = Targets /\ Now' = Now
  BY TargetsSame, NowSame
<1> QED
  BY <1>1 DEF OutputInv

(* While the program runs it has not failed. *)
LEMMA ExitQuiet ==
  ASSUME ExitInv, Running, Running', exit' = exit
  PROVE  ExitInv'
  BY DEF ExitInv

(* The end, after a failure or not. *)
LEMMA Stopped ==
  ASSUME MainInv, UNCHANGED <<job, winsize, bdata, nread, stream, fs, oname, nwrite, written>>,
         oopen' \in {"none", "open", "closed"}, oopen' = "none" <=> oopen = "none",
         pc' \in {"cleanup", "exited"}, nwrite = 0 \/ nwrite < Len(stream.out),
         exit' \in {0, 1},
         exit' = 0 /\ ~job.no_output =>
           Whole /\ Count = Len(Targets) /\ nwrite = 0 /\ oopen # "none"
  PROVE  MainInv'
<1>0. MainTypes /\ BufferInv /\ OutputInv /\ ExitInv
  BY Parts
<1>1. Targets' = Targets /\ (Whole' <=> Whole)
  BY TargetsSame
<1>2. Count' = Count
  BY DEF Count
<1>3. Now' = Now
  BY <1>2, NowSame
<1>4. ~Running'
  BY DEF Running
<1>5. MainTypes'
  BY <1>0 DEF MainTypes, GetWinsize
<1>6. BufferInv'
  BY <1>0 DEF BufferInv, Base
<1>7. OutputInv'
  BY <1>0, <1>1, <1>2, <1>3, <1>4 DEF OutputInv
<1>8. ExitInv'
  BY <1>1, <1>2, <1>4 DEF ExitInv
<1> QED
  BY <1>4, <1>5, <1>6, <1>7, <1>8 DEF MainInv

LEMMA FaultStep ==
  ASSUME MainInv, Fault
  PROVE  MainInv'
<1>0. MainTypes /\ OutputInv
  BY Parts
<1>1. nwrite = 0 \/ nwrite < Len(stream.out)
  <2>1. CASE Returned({"XD3_OUTPUT"}) /\ ~job.no_output /\ nwrite < Len(stream.out)
    BY <2>1
  <2>2. CASE pc \in {"setup", "read", "process", "done"} \/ Returned({"XD3_GOTHEADER"})
    <3>1. Running /\ ~(pc = "returned" /\ ret = "XD3_OUTPUT")
      BY <2>2 DEF Running, Returned
    <3>2. stream.out = <<>> /\ nwrite <= Len(stream.out) /\ nwrite \in Nat
      BY <1>0, <3>1 DEF OutputInv, MainTypes
    <3> QED
      BY <3>2
  <2> QED
    BY <2>1, <2>2 DEF Fault
<1> QED
  BY <1>0, <1>1, Stopped DEF Fault, Fail, files, ins, outs, MainTypes

LEMMA RefuseStep ==
  ASSUME MainInv, RefuseOutput
  PROVE  MainInv'
<1>0. MainTypes /\ OutputInv
  BY Parts
<1>1. nwrite = 0
  BY <1>0 DEF RefuseOutput, MustOpen, OutputInv
<1> QED
  BY <1>0, <1>1, Stopped DEF RefuseOutput, Fail, files, ins, outs, MainTypes

LEMMA CleanupStep ==
  ASSUME MainInv, Cleanup
  PROVE  MainInv'
<1>0. MainTypes /\ OutputInv /\ ExitInv
  BY Parts
<1>1. ~Running
  BY DEF Cleanup, Running
<1>2. nwrite = 0 \/ nwrite < Len(stream.out)
  BY <1>0, <1>1 DEF OutputInv
<1> QED
  BY <1>0, <1>1, <1>2, Stopped DEF Cleanup, Go, files, ins, MainTypes, ExitInv

LEMMA DoneStep ==
  ASSUME MainInv, Done
  PROVE  MainInv'
<1> USE DEF files, ins
<1>0. MainTypes /\ OutputInv /\ ExitInv /\ Running
  BY Parts DEF Done, Running
<1>1. nwrite = 0 /\ stream.out = <<>>
  <2>1. stream.out = <<>> /\ nwrite <= Len(stream.out) /\ nwrite \in Nat
    BY <1>0 DEF OutputInv, MainTypes, Done
  <2> QED
    BY <2>1
<1>2. ASSUME ~job.no_output, oopen # "none", CloseStream(stream)
      PROVE  Whole /\ Count = Len(Targets)
  <2>1. CASE Encoding
    <3>1. EncoderInv
      BY <1>0, <2>1, Parts
    <3>2. stream.phase = "ENC_INPUT" /\ stream.current_window = Len(Pieces)
      BY <3>1 DEF EncoderInv, Done
    <3>3. Count = stream.current_window
      BY <1>0, <2>1, <3>2, StreamType, SMT DEF Count, Encoding
    <3> QED
      BY <1>0, <2>1, <3>2, <3>3, PiecesFacts DEF Whole, Encoding
  <2>2. CASE ~Encoding
    <3>1. DecoderInv
      BY <1>0, <2>2, Parts
    <3>2. /\ stream.phase \in {"DEC_VCHEAD", "DEC_HDRIND", "DEC_WININD", "DEC_DATA", "DEC_FINISH"}
          /\ stream.phase = "DEC_VCHEAD" => stream.windows = 0
          /\ stream.windows > 0 \/ stream.phase = "DEC_FINISH"
          /\ stream.avail = <<>> /\ nread = Len(job.input)
          /\ stream.phase = "DEC_WININD" => Taken = 2 + stream.windows * WindowLength
      BY <1>2, <3>1 DEF DecoderInv, Done
    <3>3. stream.phase = "DEC_WININD" /\ stream.windows > 0
      BY <1>2, <3>2 DEF CloseStream
    <3>4. Len(job.input) = 2 + stream.windows * WindowLength
      <4>1. Taken = nread
        BY <1>0, <3>2, SMT DEF Taken, Done, MainTypes
      <4> QED
        BY <3>2, <3>3, <4>1
    <3>5. Count = stream.windows
      BY <1>0, <2>2, <3>3, StreamType, SMT DEF Count, Encoding
    <3> QED
      BY <1>0, <2>2, <3>3, <3>4, <3>5, StreamType, DecodedLast
  <2> QED
    BY <2>1, <2>2
<1>3. /\ pc' = "cleanup" /\ exit' \in {0, 1}
      /\ exit' = 0 /\ ~job.no_output => oopen # "none" /\ CloseStream(stream)
  BY DEF Done, Fail
<1>4. oopen' \in {"none", "open", "closed"} /\ (oopen' = "none" <=> oopen = "none")
  BY <1>0 DEF Done, MainTypes
<1> QED
  BY <1>1, <1>2, <1>3, <1>4, Stopped DEF Done

(* A step of a running program that leaves the output alone. *)
LEMMA Quiet ==
  ASSUME MainInv, Running, Running', MainTypes', BufferInv',
         UNCHANGED <<job, winsize, fs, nwrite, written, oopen, exit>>,
         oname' = oname \/ oopen = "none", stream.out = <<>>, stream'.out = <<>>,
         Count' = Count, ~(pc' = "returned" /\ ret' = "XD3_OUTPUT"),
         Encoding => EncoderInv', ~Encoding => DecoderInv'
  PROVE  MainInv'
<1>1. OutputInv' /\ ExitInv'
  BY Parts, OutputQuiet, ExitQuiet
<1>2. Encoding' <=> Encoding
  BY DEF Encoding
<1> QED
  BY <1>1, <1>2 DEF MainInv

LEMMA NoOutputYet ==
  ASSUME MainInv, Running, ~(pc = "returned" /\ ret = "XD3_OUTPUT")
  PROVE  stream.out = <<>> /\ nwrite = 0
<1>1. stream.out = <<>> /\ nwrite <= Len(stream.out) /\ nwrite \in Nat
  BY Parts DEF OutputInv, MainTypes
<1> QED
  BY <1>1

LEMMA SetupStep ==
  ASSUME MainInv, Setup
  PROVE  MainInv'
<1> USE DEF files, ins, outs
<1>1. /\ pc = "setup" /\ pc' = "read"
      /\ UNCHANGED <<job, winsize, bdata, nread, stream, fs, oname, oopen, nwrite, written, ret, exit>>
  BY DEF Setup, Go
<1>2. Running /\ Running'
  BY <1>1 DEF Running
<1>3. stream.out = <<>> /\ stream'.out = <<>> /\ Count' = Count
  BY <1>1, <1>2, NoOutputYet DEF Count
<1>4. MainTypes' /\ BufferInv'
  BY <1>1, Parts DEF MainTypes, GetWinsize, BufferInv, Base
<1>5. Encoding => EncoderInv'
  BY <1>1, <1>2, Parts, TargetsSame DEF EncoderInv, Base
<1>6. ~Encoding => DecoderInv'
  BY <1>1, <1>2, Parts DEF DecoderInv, Taken
<1> QED
  BY <1>1, <1>2, <1>3, <1>4, <1>5, <1>6, Quiet

LEMMA ReadStep ==
  ASSUME MainInv, NEW n \in 1..winsize, ReadSome(n)
  PROVE  MainInv'
<1> USE DEF files, outs
<1>1. /\ pc = "read" /\ n <= Smaller(winsize - Len(bdata), Rest)
      /\ bdata' = bdata \o SubSeq(job.input, nread + 1, nread + n) /\ nread' = nread + n
      /\ UNCHANGED <<job, winsize, stream, fs, oname, oopen, nwrite, written, ret, pc, exit>>
  BY DEF ReadSome
<1>2. Running /\ Running' /\ MainTypes /\ BufferInv
  BY <1>1, Parts DEF Running
<1>3. stream.out = <<>> /\ stream'.out = <<>> /\ Count' = Count
  BY <1>1, <1>2, NoOutputYet DEF Count
<1>4. /\ winsize \in Nat \ {0} /\ job.input \in Seq(Nat) /\ Len(job.input) \in Nat
      /\ bdata \in Seq(Nat) /\ nread \in Nat /\ Len(bdata) \in Nat
  BY <1>2, JobFacts DEF MainTypes
<1>5. n \in Nat /\ n + Len(bdata) <= winsize /\ nread + n <= Len(job.input)
  BY <1>1, <1>4, SMT DEF Smaller, Rest
<1>6. Len(bdata) <= nread /\ bdata = SubSeq(job.input, Base + 1, nread)
  BY <1>2 DEF BufferInv
<1>7. Base \in Nat /\ Base <= nread /\ nread + n \in Nat /\ nread <= nread + n
  BY <1>4, <1>5, <1>6, SMT DEF Base
<1>8. bdata' = SubSeq(job.input, Base + 1, nread + n)
  <2>1. PICK e \in Nat : e = nread + n
    BY <1>7
  <2>2. nread <= e /\ e <= Len(job.input)
    BY <1>5, <1>7, <2>1
  <2>3. SubSeq(job.input, Base + 1, nread) \o SubSeq(job.input, nread + 1, e)
          = SubSeq(job.input, Base + 1, e)
    BY <1>4, <1>7, <2>2, Joined
  <2> QED
    BY <1>1, <1>6, <2>1, <2>3
<1>9. bdata' \in Seq(Nat) /\ Len(bdata') = (nread + n) - Base
  <2>1. PICK e \in Nat : e = nread + n
    BY <1>7
  <2>2. Base <= e /\ e <= Len(job.input)
    BY <1>4, <1>5, <1>7, <2>1, SMT
  <2>3. SubSeq(job.input, Base + 1, e) \in Seq(Nat) /\ Len(SubSeq(job.input, Base + 1, e)) = e - Base
    BY <1>4, <1>7, <2>2, PieceOf
  <2> QED
    BY <1>8, <2>1, <2>3
<1>10. Base' = Base /\ Len(bdata') = Len(bdata) + n
  <2>1. Len(bdata') = Len(bdata) + n
    BY <1>4, <1>5, <1>6, <1>9, SMT DEF Base
  <2>2. nread' - Len(bdata') = nread - Len(bdata)
    BY <1>1, <1>4, <1>5, <2>1, SMT
  <2> QED
    BY <2>1, <2>2 DEF Base
<1>11. MainTypes'
  <2>1. nread' \in Nat
    BY <1>1, <1>7
  <2> QED
    BY <1>1, <1>2, <1>9, <2>1 DEF MainTypes, GetWinsize
<1>12. BufferInv'
  <2>1. Len(bdata') <= winsize /\ Len(bdata') <= nread' /\ nread' <= Len(job.input)
    BY <1>1, <1>4, <1>5, <1>6, <1>10, SMT
  <2> QED
    BY <1>1, <1>8, <1>10, <2>1 DEF BufferInv
<1>13. Encoding => EncoderInv'
  BY <1>1, <1>2, <1>10, Parts, TargetsSame DEF EncoderInv
<1>14. ASSUME ~Encoding PROVE DecoderInv'
  <2>1. DecoderInv
    BY <1>2, <1>14, Parts
  <2>2. Taken' = Taken
    BY <1>1, <1>10 DEF Taken, Base
  <2>3. stream.avail = <<>>
    BY <1>1, <2>1 DEF DecoderInv
  <2>4. Len(stream.avail) <= nread' /\ <<>> = SubSeq(job.input, nread' - Len(stream.avail) + 1, nread')
    BY <1>1, <1>4, <1>7, <2>3, SMT
  <2> QED
    BY <1>1, <2>1, <2>2, <2>3, <2>4 DEF DecoderInv
<1> QED
  BY <1>1, <1>2, <1>3, <1>11, <1>12, <1>13, <1>14, Quiet

LEMMA FeedStep ==
  ASSUME MainInv, Feed
  PROVE  MainInv'
<1> USE DEF files, ins, outs
<1> DEFINE end == bdata = <<>> /\ stream.current_window > 0
<1>1. /\ pc = "read" /\ (Len(bdata) = winsize \/ Rest = 0)
      /\ stream' = [stream EXCEPT !.flush = @ \/ Len(bdata) < winsize, !.avail = bdata,
                              !.appheader = @ \/ (job.cmd = "encode" /\ job.appheader)]
      /\ pc' = (IF end THEN "done" ELSE "process")
      /\ UNCHANGED <<job, winsize, bdata, nread, fs, oname, oopen, nwrite, written, ret, exit>>
  BY DEF Feed, Go
<1>2. Running /\ Running' /\ MainTypes /\ BufferInv
  BY <1>1, Parts DEF Running
<1>3. /\ winsize \in Nat \ {0} /\ job.input \in Seq(Nat) /\ Len(job.input) \in Nat
      /\ bdata \in Seq(Nat) /\ nread \in Nat /\ Len(bdata) \in Nat /\ stream \in Streams
      /\ job.appheader \in BOOLEAN
  BY <1>2, JobFacts DEF MainTypes
<1>4. /\ stream'.avail = bdata /\ stream'.phase = stream.phase /\ stream'.out = stream.out
      /\ stream'.current_window = stream.current_window /\ stream'.windows = stream.windows
      /\ stream'.held = stream.held
      /\ stream'.flush = (stream.flush \/ Len(bdata) < winsize)
      /\ stream'.appheader = (stream.appheader \/ (job.cmd = "encode" /\ job.appheader))
  BY <1>1, <1>3 DEF Streams
<1>5. stream.out = <<>> /\ stream'.out = <<>> /\ Count' = Count
  BY <1>1, <1>2, <1>4, NoOutputYet DEF Count
<1>6. MainTypes'
  <2>1. (stream.flush \/ Len(bdata) < winsize) \in BOOLEAN
        /\ (stream.appheader \/ (job.cmd = "encode" /\ job.appheader)) \in BOOLEAN
    BY Zenon
  <2>2. stream' \in Streams
    BY <1>1, <1>3, <2>1 DEF Streams
  <2>3. pc' \in {"setup", "read", "process", "returned", "done", "cleanup", "exited"}
    BY <1>1
  <2> QED
    BY <1>1, <1>2, <2>2, <2>3 DEF MainTypes, GetWinsize
<1>7. Rest = 0 => nread = Len(job.input)
  BY <1>3, SMT DEF Rest
<1>8. BufferInv'
  BY <1>1, <1>2, <1>7 DEF BufferInv, Base
<1>9. end => nread = Len(job.input)
  <2>1. bdata = <<>> => Len(bdata) # winsize
    BY <1>3
  <2> QED
    BY <1>1, <1>7, <2>1
<1>10. ASSUME Encoding PROVE EncoderInv'
  <2>1. EncoderInv
    BY <1>2, <1>10, Parts
  <2>2. stream.phase = "ENC_INPUT" /\ Base = stream.current_window * winsize
        /\ (stream.appheader => job.appheader)
    BY <1>1, <2>1 DEF EncoderInv
  <2>3. stream'.appheader = job.appheader
    BY <1>3, <1>4, <1>10, <2>2 DEF Encoding, Streams
  <2>4. Base' = Base
    BY <1>1 DEF Base
  <2>5. CASE end
    <3>1. stream.current_window \in Nat /\ stream.current_window > 0
      BY <1>2, <2>5, StreamType
    <3>2. Len(job.input) = (stream.current_window - 1) * winsize + winsize
      <4>1. Base = nread
        BY <1>3, <2>5, SMT DEF Base
      <4>2. stream.current_window - 1 \in Nat /\ (stream.current_window - 1) + 1 = stream.current_window
        BY <3>1, SMT
      <4>3. stream.current_window * winsize = (stream.current_window - 1) * winsize + winsize
        BY <1>3, <4>2, Multiple
      <4> QED
        BY <1>9, <2>2, <2>5, <4>1, <4>3
    <3>3. stream.current_window = Len(Pieces)
      <4>1. stream.current_window - 1 \in Nat /\ winsize \in 0..winsize /\ winsize > 0
        BY <1>3, <3>1, SMT
      <4>2. Len(Pieces) = (stream.current_window - 1) + 1
        BY <1>2, <1>10, <3>2, <4>1, PieceLast
      <4> QED
        BY <3>1, <4>2, SMT
    <3>4. pc' = "done" /\ stream'.avail = <<>>
      BY <1>1, <1>4, <2>5
    <3> QED
      BY <1>1, <1>4, <2>2, <2>3, <3>3, <3>4, TargetsSame DEF EncoderInv
  <2>6. CASE ~end
    <3>1. pc' = "process"
      BY <1>1, <2>6
    <3>2. bdata # <<>> \/ stream.current_window = 0
      BY <1>2, <2>6, StreamType, SMT
    <3> QED
      BY <1>1, <1>4, <2>2, <2>3, <2>4, <3>1, <3>2 DEF EncoderInv
  <2> QED
    BY <2>5, <2>6
<1>11. ASSUME ~Encoding PROVE DecoderInv'
  <2>1. DecoderInv
    BY <1>2, <1>11, Parts
  <2>2. Taken' = Taken
    BY <1>1, <1>4 DEF Taken
  <2>3. Len(bdata) <= nread /\ bdata = SubSeq(job.input, nread - Len(bdata) + 1, nread)
    BY <1>2 DEF BufferInv, Base
  <2>4. pc' \in {"process", "done"} /\ (pc' = "done" => bdata = <<>> /\ nread = Len(job.input))
    BY <1>1, <1>9
  <2> QED
    BY <1>1, <1>4, <2>1, <2>2, <2>3, <2>4 DEF DecoderInv
<1>12. ~(pc' = "returned" /\ ret' = "XD3_OUTPUT")
  BY <1>1
<1> QED
  BY <1>1, <1>2, <1>5, <1>6, <1>8, <1>10, <1>11, <1>12, Quiet

LEMMA OnInputStep ==
  ASSUME MainInv, OnInput
  PROVE  MainInv'
<1> USE DEF files, outs
<1> DEFINE full == Len(bdata) = winsize
<1>1. /\ pc = "returned" /\ ret = "XD3_INPUT"
      /\ pc' = (IF full THEN "read" ELSE "done")
      /\ bdata' = (IF full THEN <<>> ELSE bdata)
      /\ UNCHANGED <<job, winsize, nread, stream, fs, oname, oopen, nwrite, written, ret, exit>>
  BY DEF OnInput, Returned, Go
<1>2. Running /\ Running' /\ MainTypes /\ BufferInv
  BY <1>1, Parts DEF Running
<1>3. /\ winsize \in Nat \ {0} /\ job.input \in Seq(Nat) /\ Len(job.input) \in Nat
      /\ bdata \in Seq(Nat) /\ nread \in Nat /\ Len(bdata) \in Nat
  BY <1>2, JobFacts DEF MainTypes
<1>4. stream.out = <<>> /\ stream'.out = <<>> /\ Count' = Count
  BY <1>1, <1>2, NoOutputYet DEF Count
<1>5. ~(pc' = "returned" /\ ret' = "XD3_OUTPUT")
  BY <1>1
<1>6. MainTypes'
  BY <1>1, <1>2 DEF MainTypes, GetWinsize
<1>7. /\ Len(bdata) <= winsize /\ Len(bdata) <= nread /\ nread <= Len(job.input)
      /\ bdata = SubSeq(job.input, Base + 1, nread)
      /\ full \/ nread = Len(job.input)
  BY <1>1, <1>2 DEF BufferInv
<1>8. full => bdata' = <<>> /\ Len(bdata') = 0 /\ Base' = nread /\ nread = Base + winsize
  BY <1>1, <1>3, SMT DEF Base
<1>9. BufferInv'
  <2>1. CASE full
    <3>1. <<>> = SubSeq(job.input, nread + 1, nread) /\ 0 <= winsize /\ 0 <= nread
      BY <1>3, SMT
    <3>2. pc' = "read"
      BY <1>1, <2>1
    <3>3. bdata' = <<>> /\ Len(bdata') = 0 /\ Base' = nread
      BY <1>8, <2>1
    <3> QED
      BY <1>1, <1>7, <3>1, <3>2, <3>3 DEF BufferInv
  <2>2. CASE ~full
    BY <1>1, <1>7, <2>2 DEF BufferInv, Base
  <2> QED
    BY <2>1, <2>2
<1>10. ASSUME Encoding PROVE EncoderInv'
  <2> DEFINE k == stream.current_window
  <2>1. EncoderInv
    BY <1>2, <1>10, Parts
  <2>2. /\ stream.phase = "ENC_INPUT" /\ stream.avail = <<>> /\ k > 0
        /\ Base = (k - 1) * winsize /\ (bdata # <<>> \/ k = 1)
        /\ (stream.appheader => job.appheader)
    BY <1>1, <2>1 DEF EncoderInv
  <2>3. k \in Nat /\ k - 1 \in Nat /\ (k - 1) + 1 = k
    <3>1. k \in Nat
      BY <1>2, StreamType
    <3> QED
      BY <2>2, <3>1, SMT
  <2> HIDE DEF k
  <2>4. k * winsize = (k - 1) * winsize + winsize
    BY <1>3, <2>3, Multiple
  <2>5. CASE full
    <3>1. Base' = k * winsize /\ pc' = "read"
      BY <1>1, <1>8, <2>2, <2>4, <2>5
    <3> QED
      BY <1>1, <2>2, <3>1 DEF EncoderInv, k
  <2>6. CASE ~full
    <3>1. Len(bdata) \in 0..winsize /\ (Len(bdata) > 0 \/ k - 1 = 0)
      <4>1. bdata # <<>> => Len(bdata) > 0
        BY <1>3
      <4> QED
        BY <1>3, <1>7, <2>2, <2>3, <4>1, SMT
    <3>2. Len(job.input) = (k - 1) * winsize + Len(bdata)
      <4>1. nread = Base + Len(bdata)
        BY <1>3, SMT DEF Base
      <4> QED
        BY <1>7, <2>2, <2>6, <4>1
    <3>3. Len(Pieces) = k
      BY <1>2, <1>10, <2>3, <3>1, <3>2, PieceLast
    <3> QED
      BY <1>1, <2>2, <2>6, <3>3, TargetsSame DEF EncoderInv, k
  <2> QED
    BY <2>5, <2>6
<1>11. ASSUME ~Encoding PROVE DecoderInv'
  <2>1. DecoderInv
    BY <1>2, <1>11, Parts
  <2>2. stream.avail = <<>>
    BY <1>1, <2>1 DEF DecoderInv
  <2>3. Taken' = Taken
    BY <1>1, <1>3, <1>8, <2>2, SMT DEF Taken
  <2>4. pc' \in {"read", "done"} /\ (pc' = "done" => nread = Len(job.input))
    BY <1>1, <1>7
  <2> QED
    BY <1>1, <2>1, <2>2, <2>3, <2>4 DEF DecoderInv
<1> QED
  BY <1>1, <1>2, <1>4, <1>5, <1>6, <1>9, <1>10, <1>11, Quiet

LEMMA OnReturnStep ==
  ASSUME MainInv, OnHeader \/ OnWindow
  PROVE  MainInv'
<1> USE DEF files, ins, outs
<1>1. /\ pc = "returned" /\ pc' = "process"
      /\ ret \in {"XD3_GOTHEADER", "XD3_WINSTART", "XD3_WINFINISH"}
      /\ oname' # oname => ret = "XD3_GOTHEADER"
      /\ UNCHANGED <<job, winsize, bdata, nread, stream, fs, oopen, nwrite, written, ret, exit>>
  BY DEF OnHeader, OnWindow, Returned, Go
<1>2. Running /\ Running' /\ MainTypes /\ BufferInv /\ "process" # "returned"
  BY <1>1, Parts DEF Running
<1>3. stream.out = <<>> /\ stream'.out = <<>> /\ Count' = Count
  BY <1>1, <1>2, NoOutputYet DEF Count
<1>4. MainTypes' /\ BufferInv'
  BY <1>1, <1>2 DEF MainTypes, GetWinsize, BufferInv, Base
<1>5. ASSUME Encoding PROVE EncoderInv' /\ oname' = oname
  <2>1. EncoderInv
    BY <1>2, <1>5, Parts
  <2>2. stream.phase \in {"ENC_SEARCH", "ENC_POSTWIN"} /\ ret # "XD3_GOTHEADER"
    BY <1>1, <2>1 DEF EncoderInv
  <2>3. Base' = Base
    BY <1>1 DEF Base
  <2> QED
    BY <1>1, <2>1, <2>2, <2>3 DEF EncoderInv
<1>6. ASSUME ~Encoding PROVE DecoderInv' /\ (oname' = oname \/ oopen = "none")
  <2>1. DecoderInv
    BY <1>2, <1>6, Parts
  <2>2. Taken' = Taken
    BY <1>1 DEF Taken
  <2>3. DecoderInv'
    BY <1>1, <2>1, <2>2 DEF DecoderInv
  <2>4. ret = "XD3_GOTHEADER" => oopen = "none"
    <3>1. ASSUME ret = "XD3_GOTHEADER" PROVE stream.phase = "DEC_DATA" /\ stream.windows = 0
      BY <1>1, <2>1, <3>1 DEF DecoderInv
    <3>2. oopen # "none" => stream.windows > 0 \/ stream.phase = "DEC_FINISH"
      BY <2>1 DEF DecoderInv
    <3> QED
      BY <3>1, <3>2
  <2> QED
    BY <1>1, <2>3, <2>4
<1>7. oname' = oname \/ oopen = "none"
  BY <1>5, <1>6
<1> QED
  BY <1>1, <1>2, <1>3, <1>4, <1>5, <1>6, <1>7, Quiet

(* A step of the output while the library waits for it. *)
LEMMA Waiting ==
  ASSUME MainInv, pc = "returned", ret = "XD3_OUTPUT",
         UNCHANGED <<job, winsize, bdata, nread, stream, ret, pc, exit>>,
         oopen' = "open", OutputInv', MainTypes'
  PROVE  MainInv'
<1>1. Running /\ Running' /\ MainTypes /\ BufferInv /\ ExitInv
  BY Parts DEF Running
<1>2. BufferInv' /\ ExitInv' /\ (Encoding' <=> Encoding)
  BY <1>1, ExitQuiet DEF BufferInv, Base, Encoding
<1>3. Encoding => EncoderInv'
  BY <1>1, Parts, TargetsSame DEF EncoderInv, Base
<1>4. ASSUME ~Encoding PROVE DecoderInv'
  <2>1. DecoderInv
    BY <1>1, <1>4, Parts
  <2>2. stream.phase = "DEC_FINISH"
    BY <2>1 DEF DecoderInv
  <2> QED
    BY <2>1, <2>2 DEF DecoderInv, Taken
<1> QED
  BY <1>1, <1>2, <1>3, <1>4 DEF MainInv

LEMMA OpenStep ==
  ASSUME MainInv, OpenOutput
  PROVE  MainInv'
<1> USE DEF files, ins
<1>1. /\ pc = "returned" /\ ret = "XD3_OUTPUT" /\ oopen = "none" /\ ~job.no_output
      /\ oopen' = "open"
      /\ fs' = IF oname \in Names THEN [fs EXCEPT ![oname] = [there |-> TRUE, cells |-> <<>>]] ELSE fs
      /\ UNCHANGED <<job, winsize, bdata, nread, stream, oname, nwrite, written, ret, pc, exit>>
  BY DEF OpenOutput, MustOpen, Returned, Go
<1>2. MainTypes /\ OutputInv
  BY Parts
<1>3. MainTypes'
  <2>1. fs' \in [Names -> [there : BOOLEAN, cells : Seq(Nat)]]
    BY <1>1, <1>2 DEF MainTypes
  <2> QED
    BY <1>1, <1>2, <2>1 DEF MainTypes, GetWinsize
<1>4. Targets' = Targets /\ Count' = Count /\ Now' = Now
  <2>1. Count' = Count
    BY <1>1 DEF Count
  <2> QED
    BY <1>1, <2>1, TargetsSame, NowSame
<1>5. oname \in Names => fs'[oname].cells = <<>>
  BY <1>1, <1>2 DEF MainTypes
<1>6. written = <<>> /\ (Running' <=> Running)
  BY <1>1, <1>2 DEF OutputInv, Running
<1>7. OutputInv'
  BY <1>1, <1>2, <1>4, <1>5, <1>6 DEF OutputInv
<1> QED
  BY <1>1, <1>3, <1>7, Waiting

LEMMA WriteStep ==
  ASSUME MainInv, NEW n \in 1..Len(stream.out), WriteSome(n)
  PROVE  MainInv'
<1> USE DEF files, ins
<1> DEFINE cells == SubSeq(stream.out, nwrite + 1, nwrite + n)
<1>1. /\ pc = "returned" /\ ret = "XD3_OUTPUT" /\ oopen = "open" /\ nwrite + n <= Len(stream.out)
      /\ nwrite' = nwrite + n /\ written' = written \o cells
      /\ fs' = IF oname \in Names THEN [fs EXCEPT ![oname].cells = fs[oname].cells \o cells] ELSE fs
      /\ UNCHANGED <<job, winsize, bdata, nread, stream, oname, oopen, ret, pc, exit>>
  BY DEF WriteSome, Returned
<1>2. MainTypes /\ OutputInv
  BY Parts
<1>3. stream.out \in Seq(Nat) /\ nwrite \in Nat /\ n \in Nat /\ written \in Seq(Nat) /\ Len(stream.out) \in Nat
  BY <1>2, StreamType, SMT DEF MainTypes
<1>4. cells \in Seq(Nat) /\ SubSeq(stream.out, 1, nwrite) \o cells = SubSeq(stream.out, 1, nwrite + n)
      /\ nwrite + n \in Nat
  <2>1. PICK e \in Nat : e = nwrite + n
    BY <1>3
  <2>2. nwrite <= e /\ e <= Len(stream.out) /\ 0 <= nwrite /\ 0 + 1 = 1 /\ 0 \in Nat
    BY <1>1, <1>3, <2>1, SMT
  <2>3. SubSeq(stream.out, nwrite + 1, e) \in Seq(Nat)
    BY <1>3, <2>2, PieceOf
  <2>4. SubSeq(stream.out, 0 + 1, nwrite) \o SubSeq(stream.out, nwrite + 1, e) = SubSeq(stream.out, 0 + 1, e)
    BY <1>3, <2>2, Joined, ZenonT(30)
  <2> QED
    BY <2>1, <2>2, <2>3, <2>4
<1> HIDE DEF cells
<1>5. MainTypes'
  <2>1. fs' \in [Names -> [there : BOOLEAN, cells : Seq(Nat)]]
    <3>1. ASSUME oname \in Names PROVE fs[oname].cells \o cells \in Seq(Nat)
      <4>1. fs[oname].cells \in Seq(Nat)
        BY <1>2, <3>1 DEF MainTypes
      <4> QED
        BY <1>4, <4>1
    <3> QED
      BY <1>1, <1>2, <3>1 DEF MainTypes
  <2>2. written' \in Seq(Nat)
    BY <1>1, <1>3, <1>4
  <2> QED
    BY <1>1, <1>2, <1>4, <2>1, <2>2 DEF MainTypes, GetWinsize
<1>6. Targets' = Targets /\ Count' = Count /\ Now' = Now
  <2>1. Count' = Count
    BY <1>1 DEF Count
  <2> QED
    BY <1>1, <2>1, TargetsSame, NowSame
<1>7. ~job.no_output /\ written = Now \o SubSeq(stream.out, 1, nwrite) /\ (Running' <=> Running) /\ Running
  BY <1>1, <1>2 DEF OutputInv, Running
<1>8. Now \in Seq(Nat)
  <2>1. Count \in 0..Len(Targets)
    BY <1>2, StreamType, TargetsType, SMT DEF OutputInv
  <2> QED
    BY <1>2, <2>1, TargetsType, FlattenType DEF Now
<1>9. written' = Now \o SubSeq(stream.out, 1, nwrite + n)
  <2>1. nwrite <= Len(stream.out)
    BY <1>1, <1>3, SMT
  <2>2. SubSeq(stream.out, 1, nwrite) \in Seq(Nat)
    BY <1>3, <2>1, Prefix
  <2>3. (Now \o SubSeq(stream.out, 1, nwrite)) \o cells = Now \o (SubSeq(stream.out, 1, nwrite) \o cells)
    <3> DEFINE begun == SubSeq(stream.out, 1, nwrite)
    <3>1. begun \in Seq(Nat)
      BY <2>2
    <3> HIDE DEF begun
    <3>2. cells \in Seq(Nat)
      BY <1>4
    <3>3. (Now \o begun) \o cells = Now \o (begun \o cells)
      BY <1>8, <3>1, <3>2, Associative, Zenon
    <3> QED
      BY <3>3 DEF begun
  <2> QED
    BY <1>1, <1>4, <1>7, <2>3
<1>10. oname \in Names => fs'[oname].cells = written'
  BY <1>1, <1>2 DEF OutputInv, MainTypes
<1>11. OutputInv'
  BY <1>1, <1>2, <1>6, <1>7, <1>9, <1>10 DEF OutputInv
<1> QED
  BY <1>1, <1>5, <1>11, Waiting

(* The output is written: one more window is applied. *)
LEMMA ConsumeFacts ==
  ASSUME MainInv, Consume
  PROVE  /\ stream' = [stream EXCEPT !.out = <<>>] /\ stream.out # <<>> /\ Running
         /\ Count' = Count + 1 /\ Count < Len(Targets) /\ stream.out = Targets[Count + 1]
         /\ Now' = Now \o stream.out
         /\ Encoding => stream.phase = "ENC_POSTOUT"
         /\ ~Encoding => stream.phase = "DEC_FINISH"
<1> USE DEF files, ins
<1>1. /\ pc = "returned" /\ ret = "XD3_OUTPUT"
      /\ stream' = [stream EXCEPT !.out = <<>>]
      /\ UNCHANGED <<job, winsize>>
  BY DEF Consume, Returned
<1>2. Running /\ MainTypes /\ OutputInv
  BY <1>1, Parts DEF Running
<1>3. stream.out # <<>> /\ Count < Len(Targets) /\ stream.out = Targets[Count + 1]
  BY <1>1, <1>2 DEF OutputInv
<1>4. Encoding => stream.phase = "ENC_POSTOUT"
  BY <1>1, <1>2, Parts DEF EncoderInv
<1>5. ~Encoding => stream.phase = "DEC_FINISH"
  BY <1>1, <1>2, Parts DEF DecoderInv
<1>6. Count' = Count + 1
  <2>1. /\ stream'.out = <<>> /\ stream'.phase = stream.phase
        /\ stream'.current_window = stream.current_window /\ stream'.windows = stream.windows
    BY <1>1, <1>2 DEF MainTypes, Streams
  <2>2. Count = (IF job.cmd = "encode" THEN stream.current_window ELSE stream.windows) + 0
    BY <1>3 DEF Count
  <2>3. Count' = (IF job.cmd = "encode" THEN stream.current_window ELSE stream.windows) + 1
    BY <1>1, <1>4, <1>5, <2>1 DEF Count, Encoding
  <2> QED
    BY <1>2, <2>2, <2>3, StreamType
<1>7. Now' = Now \o stream.out
  <2>1. PICK m : m = Count + 1
    OBVIOUS
  <2>2. m \in 1..Len(Targets) /\ m - 1 = Count
    <3>1. Count \in Nat /\ Len(Targets) \in Nat
      BY <1>2, StreamType, TargetsType
    <3> QED
      BY <1>3, <2>1, <3>1, SMT
  <2>3. FlattenSeq(SubSeq(Targets, 1, m)) = FlattenSeq(SubSeq(Targets, 1, m - 1)) \o Targets[m]
    BY <1>2, <2>2, TargetsType, FlattenNext
  <2>4. Now' = FlattenSeq(SubSeq(Targets, 1, m))
    BY <1>1, <1>6, <2>1, TargetsSame DEF Now
  <2>5. Now = FlattenSeq(SubSeq(Targets, 1, m - 1))
    BY <2>2 DEF Now
  <2> QED
    BY <1>3, <2>1, <2>3, <2>4, <2>5
<1> QED
  BY <1>1, <1>2, <1>3, <1>4, <1>5, <1>6, <1>7

LEMMA WholePrefix ==
  ASSUME NEW S, NEW s \in Seq(S)
  PROVE  SubSeq(s, 1, Len(s)) = s
  OBVIOUS

LEMMA NowType ==
  ASSUME MainTypes, OutputInv
  PROVE  Now \in Seq(Nat)
<1>1. Count \in 0..Len(Targets)
  BY StreamType, TargetsType, SMT DEF OutputInv
<1> QED
  BY <1>1, TargetsType, FlattenType DEF Now

LEMMA ConsumeStep ==
  ASSUME MainInv, Consume
  PROVE  MainInv'
<1> USE DEF files, ins
<1>1. /\ pc = "returned" /\ ret = "XD3_OUTPUT" /\ (job.no_output \/ nwrite = Len(stream.out)) /\ ~MustOpen
      /\ stream' = [stream EXCEPT !.out = <<>>]
      /\ nwrite' = 0 /\ pc' = "process"
      /\ UNCHANGED <<job, winsize, bdata, nread, fs, oname, oopen, written, ret, exit>>
  BY DEF Consume, Returned, Go
<1>2. Running /\ Running' /\ MainTypes /\ BufferInv /\ OutputInv /\ ExitInv
  BY <1>1, Parts DEF Running
<1>3. /\ Count' = Count + 1 /\ Count < Len(Targets) /\ Now' = Now \o stream.out
      /\ Encoding => stream.phase = "ENC_POSTOUT"
      /\ ~Encoding => stream.phase = "DEC_FINISH"
  BY ConsumeFacts
<1>4. /\ stream'.out = <<>> /\ stream'.phase = stream.phase /\ stream'.avail = stream.avail
      /\ stream'.current_window = stream.current_window /\ stream'.windows = stream.windows
      /\ stream'.held = stream.held /\ stream'.flush = stream.flush /\ stream'.appheader = stream.appheader
      /\ stream' \in Streams
  <2>1. stream \in Streams
    BY <1>2 DEF MainTypes
  <2>2. <<>> \in Seq(Nat)
    OBVIOUS
  <2> QED
    BY <1>1, <2>1, <2>2 DEF Streams
<1>5. Targets' = Targets /\ Len(Pieces)' = Len(Pieces) /\ (Encoding' <=> Encoding)
  BY <1>1, TargetsSame DEF Encoding
<1>6. MainTypes' /\ BufferInv'
  BY <1>1, <1>2, <1>4 DEF MainTypes, GetWinsize, BufferInv, Base
<1>7. OutputInv'
  <2>1. Count' <= Len(Targets)
    BY <1>2, <1>3, StreamType, TargetsType, SMT
  <2>2. SubSeq(<<>>, 1, 0) = <<>> /\ Len(<<>>) = 0
    OBVIOUS
  <2>3. ~job.no_output => written = Now' \o <<>>
    <3>1. SubSeq(stream.out, 1, Len(stream.out)) = stream.out
      BY <1>2, StreamType, WholePrefix
    <3>2. Now \o stream.out \in Seq(Nat)
      BY <1>2, NowType, StreamType
    <3>3. (Now \o stream.out) \o <<>> = Now \o stream.out
      BY <3>2
    <3> QED
      BY <1>1, <1>2, <1>3, <3>1, <3>3 DEF OutputInv
  <2>4. oopen = "none" => job.no_output
    BY <1>1 DEF MustOpen, Returned
  <2>5. ~(pc' = "returned" /\ ret' = "XD3_OUTPUT")
    BY <1>1
  <2>6. job.no_output => written = <<>> /\ oopen = "none"
    BY <1>2 DEF OutputInv
  <2>7. /\ oopen # "none" /\ oname \in Names => fs[oname].cells = written
        /\ oopen # "closed"
    BY <1>2 DEF OutputInv
  <2> QED
    BY <1>1, <1>2, <1>4, <1>5, <2>1, <2>2, <2>3, <2>4, <2>5, <2>6, <2>7 DEF OutputInv
<1>8. ASSUME Encoding PROVE EncoderInv'
  <2>1. EncoderInv
    BY <1>2, <1>8, Parts
  <2>2. Base' = Base
    BY <1>1 DEF Base
  <2> QED
    BY <1>1, <1>3, <1>4, <1>8, <2>1, <2>2 DEF EncoderInv
<1>9. ASSUME ~Encoding PROVE DecoderInv'
  <2>1. DecoderInv
    BY <1>2, <1>9, Parts
  <2>2. Taken' = Taken
    BY <1>1, <1>4 DEF Taken
  <2> QED
    BY <1>1, <1>3, <1>4, <1>9, <2>1, <2>2 DEF DecoderInv
<1> QED
  BY <1>1, <1>2, <1>5, <1>6, <1>7, <1>8, <1>9, ExitQuiet DEF MainInv

(* The library has a window of the output. *)
LEMMA Produced ==
  ASSUME MainInv, Running, ~(pc = "returned" /\ ret = "XD3_OUTPUT"),
         UNCHANGED <<job, winsize, fs, oname, oopen, nwrite, written, exit>>,
         MainTypes', BufferInv', Encoding => EncoderInv', ~Encoding => DecoderInv',
         Count' = Count, Count < Len(Targets), stream'.out = Targets[Count + 1],
         stream'.out # <<>>, pc' = "returned", ret' = "XD3_OUTPUT"
  PROVE  MainInv'
<1>1. MainTypes /\ OutputInv /\ ExitInv
  BY Parts
<1>2. Targets' = Targets /\ Now' = Now /\ (Encoding' <=> Encoding)
  BY TargetsSame, NowSame DEF Encoding
<1>3. Running'
  BY DEF Running
<1>4. stream.out = <<>> /\ nwrite = 0
  BY NoOutputYet
<1>5. stream'.out \in Seq(Nat) /\ stream.out \in Seq(Nat)
  BY <1>1, <1>4 DEF MainTypes, Streams
<1>6. SubSeq(stream'.out, 1, 0) = SubSeq(stream.out, 1, 0) /\ 0 <= Len(stream'.out)
  BY <1>5
<1>7. Len(Targets) \in Nat /\ Count \in Nat
  BY <1>1, StreamType, TargetsType
<1>8. OutputInv'
  BY <1>1, <1>2, <1>3, <1>4, <1>6, <1>7 DEF OutputInv
<1> QED
  BY <1>1, <1>2, <1>3, <1>8, ExitQuiet DEF MainInv

LEMMA EncodedPiece ==
  ASSUME MainTypes, BufferInv, Encoding, EncoderInv, pc = "process"
  PROVE  LET k == stream.current_window
         IN  k + 1 \in 1..Len(Targets) /\ Encoded(stream) = Targets[k + 1] /\ Encoded(stream) # <<>>
<1> DEFINE k == stream.current_window
<1>1. /\ winsize \in Nat \ {0} /\ job.input \in Seq(Nat) /\ Len(job.input) \in Nat
      /\ bdata \in Seq(Nat) /\ nread \in Nat /\ Len(bdata) \in Nat /\ k \in Nat
  BY JobFacts, StreamType DEF MainTypes
<1>2. /\ Base = k * winsize /\ stream.avail = bdata /\ (bdata # <<>> \/ k = 0)
      /\ stream.appheader = job.appheader
  BY DEF EncoderInv
<1>3. /\ Len(bdata) <= winsize /\ nread <= Len(job.input)
      /\ bdata = SubSeq(job.input, Base + 1, nread)
      /\ Len(bdata) = winsize \/ nread = Len(job.input)
  BY DEF BufferInv
<1>4. k * winsize \in Nat /\ (k + 1) * winsize = k * winsize + winsize /\ (k + 1) - 1 = k
  BY <1>1, Multiple
<1>5. nread = k * winsize + Len(bdata)
  BY <1>1, <1>2, SMT DEF Base
<1>6. /\ Smaller((k + 1) * winsize, Len(job.input)) = nread
      /\ k = 0 \/ k * winsize < Len(job.input)
  <2> DEFINE start == k * winsize
             size == Len(bdata)
             length == Len(job.input)
  <2>1. bdata # <<>> => size > 0
    BY <1>1
  <2>2. /\ start \in Nat /\ size \in Nat /\ length \in Nat /\ nread = start + size
        /\ size <= winsize /\ nread <= length /\ (size = winsize \/ nread = length)
        /\ size > 0 \/ k = 0
    BY <1>1, <1>2, <1>3, <1>4, <1>5, <2>1
  <2>3. (k + 1) * winsize = start + winsize
    BY <1>4
  <2> HIDE DEF start, size, length
  <2>4. Smaller(start + winsize, length) = nread /\ (k = 0 \/ start < length)
    BY <1>1, <2>2, SMT DEF Smaller
  <2> QED
    BY <2>3, <2>4 DEF start, length
<1>8. k + 1 \in 1..Len(Targets) /\ Targets[k + 1] = Piece(k + 1)
  BY <1>1, <1>6, PieceThere
<1>9. Encoded(stream) = (IF k = 0 THEN FileHeader(job.appheader) ELSE <<>>) \o <<100>> \o bdata
  BY <1>2 DEF Encoded
<1>10. k = 0 <=> k + 1 = 1
  BY <1>1, SMT
<1>11. Piece(k + 1) = (IF k = 0 THEN FileHeader(job.appheader) ELSE <<>>) \o <<100>> \o bdata
  BY <1>2, <1>3, <1>4, <1>6, <1>10 DEF Piece
<1>12. Piece(k + 1) # <<>>
  <2>1. k + 1 \in Nat \ {0}
    BY <1>1, SMT
  <2> QED
    BY <2>1, PieceType
<1> QED
  BY <1>8, <1>9, <1>11, <1>12

LEMMA EncodeStep ==
  ASSUME MainInv, Process, Encoding
  PROVE  MainInv'
<1> USE DEF files, ins, outs
<1>1. /\ pc = "process" /\ EncodeInput
      /\ UNCHANGED <<job, winsize, bdata, nread, fs, oname, oopen, nwrite, written, exit>>
      /\ pc' = IF ret' = "none" THEN "process" ELSE "returned"
  BY DEF Process, Go, Encoding
<1>2. Running /\ MainTypes /\ BufferInv /\ EncoderInv /\ stream.out = <<>>
  <2>1. Running
    BY <1>1 DEF Running
  <2> QED
    BY <1>1, <2>1, Parts, NoOutputYet
<1>3. stream \in Streams /\ stream.current_window \in Nat
  BY <1>2, StreamType DEF MainTypes
<1>4. /\ Base = stream.current_window * winsize /\ stream.avail = bdata
      /\ (bdata # <<>> \/ stream.current_window = 0)
      /\ Len(bdata) < winsize => stream.flush
      /\ stream.appheader = job.appheader
  BY <1>1, <1>2 DEF EncoderInv
<1>5. Base' = Base
  BY <1>1 DEF Base
<1>6. ASSUME MainTypes', pc' = "returned" PROVE BufferInv'
  BY <1>1, <1>2, <1>6 DEF BufferInv, Base
<1>7. ASSUME stream' \in Streams, pc' = "returned" PROVE MainTypes'
  BY <1>1, <1>2, <1>7 DEF MainTypes, GetWinsize
<1>8. ASSUME stream' = [stream EXCEPT !.phase = "ENC_SEARCH"], stream.phase = "ENC_INPUT",
             ret' = "XD3_WINSTART"
      PROVE  MainInv'
  <2>1. pc' = "returned" /\ stream' \in Streams /\ Running'
    BY <1>1, <1>3, <1>8 DEF Streams, Running
  <2>2. /\ stream'.phase = "ENC_SEARCH" /\ stream'.out = <<>> /\ stream'.avail = bdata
        /\ stream'.current_window = stream.current_window /\ stream'.windows = stream.windows
        /\ stream'.flush = stream.flush /\ stream'.appheader = stream.appheader
    BY <1>2, <1>3, <1>4, <1>8 DEF Streams
  <2>3. Count' = Count
    BY <1>1, <1>8, <2>2 DEF Count
  <2>4. EncoderInv'
    BY <1>1, <1>4, <1>5, <1>8, <2>1, <2>2 DEF EncoderInv
  <2> QED
    BY <1>1, <1>2, <1>6, <1>7, <1>8, <2>1, <2>2, <2>3, <2>4, Quiet
<1>9. ASSUME stream' = [stream EXCEPT !.phase = "ENC_POSTOUT", !.out = Encoded(stream)],
             stream.phase = "ENC_SEARCH", ret' = "XD3_OUTPUT"
      PROVE  MainInv'
  <2> DEFINE k == stream.current_window
  <2>1. k + 1 \in 1..Len(Targets) /\ Encoded(stream) = Targets[k + 1] /\ Encoded(stream) # <<>>
    BY <1>1, <1>2, EncodedPiece
  <2>2. Targets[k + 1] \in Seq(Nat)
    BY <1>2, <2>1, TargetsType
  <2>3. pc' = "returned" /\ stream' \in Streams /\ Running'
    <3>1. pc' = "returned" /\ Running'
      BY <1>1, <1>9 DEF Running
    <3>2. Encoded(stream) \in Seq(Nat)
      BY <2>1, <2>2
    <3> QED
      BY <1>3, <1>9, <3>1, <3>2 DEF Streams
  <2>4. /\ stream'.phase = "ENC_POSTOUT" /\ stream'.out = Encoded(stream) /\ stream'.avail = bdata
        /\ stream'.current_window = stream.current_window /\ stream'.windows = stream.windows
        /\ stream'.flush = stream.flush /\ stream'.appheader = stream.appheader
    BY <1>3, <1>4, <1>9 DEF Streams
  <2>5. Count = k /\ Count' = k
    BY <1>1, <1>3, <1>9, <2>1, <2>4 DEF Count, Encoding
  <2>6. EncoderInv'
    BY <1>1, <1>4, <1>5, <1>9, <2>3, <2>4 DEF EncoderInv
  <2>7. Count < Len(Targets)
    BY <1>2, <1>3, <2>1, <2>5, TargetsType, SMT
  <2> QED
    BY <1>1, <1>2, <1>6, <1>7, <1>9, <2>1, <2>3, <2>4, <2>5, <2>6, <2>7, Produced
<1>10. ASSUME stream' = [stream EXCEPT !.phase = "ENC_POSTWIN"], stream.phase = "ENC_POSTOUT",
              ret' = "XD3_WINFINISH"
       PROVE  MainInv'
  <2>1. pc' = "returned" /\ stream' \in Streams /\ Running'
    BY <1>1, <1>3, <1>10 DEF Streams, Running
  <2>2. /\ stream'.phase = "ENC_POSTWIN" /\ stream'.out = <<>> /\ stream'.avail = bdata
        /\ stream'.current_window = stream.current_window /\ stream'.windows = stream.windows
        /\ stream'.flush = stream.flush /\ stream'.appheader = stream.appheader
    BY <1>2, <1>3, <1>4, <1>10 DEF Streams
  <2>3. Count' = Count
    BY <1>1, <1>2, <1>10, <2>2 DEF Count
  <2>4. EncoderInv'
    BY <1>1, <1>4, <1>5, <1>10, <2>1, <2>2 DEF EncoderInv
  <2> QED
    BY <1>1, <1>2, <1>6, <1>7, <1>10, <2>1, <2>2, <2>3, <2>4, Quiet
<1>11. ASSUME stream' = [stream EXCEPT !.phase = "ENC_INPUT", !.avail = <<>>,
                                       !.current_window = stream.current_window + 1],
              stream.phase = "ENC_POSTWIN", ret' = "XD3_INPUT"
       PROVE  MainInv'
  <2>1. pc' = "returned" /\ stream' \in Streams /\ Running'
    <3>1. pc' = "returned" /\ Running'
      BY <1>1, <1>11 DEF Running
    <3>2. <<>> \in Seq(Nat) /\ stream.current_window + 1 \in Nat
      BY <1>3
    <3> QED
      BY <1>3, <1>11, <3>1, <3>2 DEF Streams
  <2>2. /\ stream'.phase = "ENC_INPUT" /\ stream'.out = <<>> /\ stream'.avail = <<>>
        /\ stream'.current_window = stream.current_window + 1 /\ stream'.windows = stream.windows
        /\ stream'.flush = stream.flush /\ stream'.appheader = stream.appheader
    BY <1>2, <1>3, <1>11 DEF Streams
  <2>3. Count' = Count
    BY <1>1, <1>2, <1>3, <1>11, <2>2, SMT DEF Count, Encoding
  <2>4. EncoderInv'
    <3>1. /\ stream'.current_window - 1 = stream.current_window /\ stream'.current_window > 0
          /\ (stream.current_window = 0 => stream'.current_window = 1)
      BY <1>3, <2>2, SMT
    <3> QED
      BY <1>1, <1>4, <1>5, <1>11, <2>1, <2>2, <3>1 DEF EncoderInv
  <2> QED
    BY <1>1, <1>2, <1>6, <1>7, <1>11, <2>1, <2>2, <2>3, <2>4, Quiet
<1>12. ~(Len(stream.avail) < winsize /\ ~stream.flush)
  BY <1>4
<1> QED
  BY <1>1, <1>8, <1>9, <1>10, <1>11, <1>12 DEF EncodeInput

(* What the decoder takes is at the head of what is available to it. *)
LEMMA AvailFacts ==
  ASSUME MainTypes, BufferInv, DecoderInv, pc = "process"
  PROVE  /\ Taken \in Nat /\ Taken = nread - Len(stream.avail) /\ Taken <= nread
         /\ nread \in Nat /\ nread <= Len(job.input) /\ Len(job.input) \in Nat
         /\ Len(stream.avail) \in Nat /\ nread = Taken + Len(stream.avail)
         /\ stream.avail = SubSeq(job.input, Taken + 1, nread)
         /\ job.input \in Seq(Nat)
<1>1. /\ job.input \in Seq(Nat) /\ Len(job.input) \in Nat /\ nread \in Nat
      /\ stream.avail \in Seq(Nat) /\ Len(stream.avail) \in Nat
  BY JobFacts, StreamType DEF MainTypes
<1>2. Taken = nread - Len(stream.avail)
  BY DEF Taken
<1>3. /\ Len(stream.avail) <= nread /\ stream.avail = SubSeq(job.input, nread - Len(stream.avail) + 1, nread)
      /\ nread <= Len(job.input)
  BY DEF DecoderInv, BufferInv
<1>4. \A a, b \in Nat : a <= b => b - a \in Nat /\ b - a <= b /\ b = (b - a) + a
  BY SMT
<1>5. PICK t \in Nat : t = nread - Len(stream.avail)
  BY <1>1, <1>3, <1>4
<1>6. t <= nread /\ nread = t + Len(stream.avail) /\ stream.avail = SubSeq(job.input, t + 1, nread)
  BY <1>1, <1>3, <1>4, <1>5
<1> QED
  BY <1>1, <1>2, <1>3, <1>5, <1>6

LEMMA AvailTail ==
  ASSUME MainTypes, BufferInv, DecoderInv, pc = "process", stream.avail # <<>>
  PROVE  /\ Tail(stream.avail) \in Seq(Nat)
         /\ Tail(stream.avail) = SubSeq(job.input, (Taken + 1) + 1, nread)
         /\ 1 <= Len(stream.avail) /\ Head(stream.avail) = job.input[Taken + 1]
         /\ Head(stream.avail) \in Nat
<1>1. /\ Taken \in Nat /\ Taken <= nread /\ nread \in Nat /\ nread <= Len(job.input)
      /\ job.input \in Seq(Nat) /\ stream.avail = SubSeq(job.input, Taken + 1, nread)
  BY AvailFacts
<1>2. PICK a \in Nat : a = Taken
  BY <1>1
<1>3. PICK b \in Nat : b = nread
  BY <1>1
<1>4. PICK i \in Seq(Nat) : i = job.input
  BY <1>1
<1>5. PICK x : x = stream.avail
  OBVIOUS
<1>6. a <= b /\ b <= Len(i) /\ x = SubSeq(i, a + 1, b) /\ x # <<>>
  BY <1>1, <1>2, <1>3, <1>4, <1>5
<1>7. /\ Tail(x) = SubSeq(i, (a + 1) + 1, b) /\ Head(x) = i[a + 1]
      /\ Tail(x) \in Seq(Nat) /\ Head(x) \in Nat
  <2>1. Tail(x) = SubSeq(i, (a + 1) + 1, b)
    BY <1>6, TailOf
  <2>2. Tail(x) \in Seq(Nat)
    BY <1>6, TailOf
  <2>3. Head(x) = i[a + 1] /\ Head(x) \in Nat
    BY <1>6, TailOf
  <2> QED
    BY <2>1, <2>2, <2>3
<1>8. x \in Seq(Nat)
  BY <1>6, PieceOf
<1>9. 1 <= Len(x)
  BY <1>6, <1>8, SMT
<1> QED
  BY <1>2, <1>3, <1>4, <1>5, <1>7, <1>9

LEMMA AvailDropped ==
  ASSUME MainTypes, BufferInv, DecoderInv, pc = "process", NEW n \in Nat, n <= Len(stream.avail)
  PROVE  /\ SubSeq(stream.avail, n + 1, Len(stream.avail)) = SubSeq(job.input, (Taken + n) + 1, nread)
         /\ SubSeq(stream.avail, n + 1, Len(stream.avail)) \in Seq(Nat)
         /\ Taken + n <= Len(job.input)
<1>1. /\ Taken \in Nat /\ Taken <= nread /\ nread \in Nat /\ nread <= Len(job.input)
      /\ job.input \in Seq(Nat) /\ stream.avail = SubSeq(job.input, Taken + 1, nread)
      /\ nread = Taken + Len(stream.avail) /\ Len(stream.avail) \in Nat /\ Len(job.input) \in Nat
  BY AvailFacts
<1>2. PICK a \in Nat : a = Taken
  BY <1>1
<1>3. PICK b \in Nat : b = nread
  BY <1>1
<1>4. PICK i \in Seq(Nat) : i = job.input
  BY <1>1
<1>5. PICK x : x = stream.avail
  OBVIOUS
<1>6. a <= b /\ b <= Len(i) /\ x = SubSeq(i, a + 1, b) /\ b = a + Len(x) /\ n <= Len(x)
  BY <1>1, <1>2, <1>3, <1>4, <1>5
<1>7. Len(x) \in Nat /\ Len(i) \in Nat
  BY <1>1, <1>4, <1>5
<1>8. n \in 0..(b - a) /\ a + n \in Nat /\ a + n <= b /\ a + n <= Len(i)
  BY <1>6, <1>7, SMT
<1>9. SubSeq(x, n + 1, Len(x)) = SubSeq(i, (a + n) + 1, b)
  BY <1>6, <1>8, Dropped
<1>10. PICK e \in Nat : e = a + n
  BY <1>8
<1>11. SubSeq(i, e + 1, b) \in Seq(Nat)
  BY <1>6, <1>8, <1>10, PieceOf
<1> QED
  BY <1>2, <1>3, <1>4, <1>5, <1>8, <1>9, <1>10, <1>11

(* A step of the decoder that takes n cells, in a named state. *)
LEMMA TakenBy ==
  ASSUME MainTypes, BufferInv, DecoderInv, pc = "process", nread' = nread, job' = job,
         pc' \in {"process", "returned"}, NEW n \in Nat, n <= Len(stream.avail),
         stream'.avail = SubSeq(job.input, (Taken + n) + 1, nread)
  PROVE  /\ Taken' = Taken + n
         /\ stream'.avail \in Seq(Nat)
         /\ Len(stream'.avail) <= nread'
         /\ stream'.avail = SubSeq(job'.input, nread' - Len(stream'.avail) + 1, nread')
<1>1. /\ Taken \in Nat /\ nread \in Nat /\ nread <= Len(job.input) /\ nread = Taken + Len(stream.avail)
      /\ Len(stream.avail) \in Nat /\ job.input \in Seq(Nat)
  BY AvailFacts
<1>2. PICK t \in Nat : t = Taken + n
  BY <1>1
<1>3. t <= nread
  BY <1>1, <1>2, SMT
<1>4. stream'.avail \in Seq(Nat) /\ Len(stream'.avail) = nread - t
  <2>1. stream'.avail = SubSeq(job.input, t + 1, nread)
    BY <1>2
  <2>2. SubSeq(job.input, t + 1, nread) \in Seq(Nat) /\ Len(SubSeq(job.input, t + 1, nread)) = nread - t
    BY ONLY <1>1, <1>2, <1>3, PieceOf
  <2> QED
    BY <2>1, <2>2
<1>5. nread - Len(stream'.avail) = t /\ Len(stream'.avail) <= nread
  BY <1>1, <1>3, <1>4, SMT
<1>6. Taken' = nread' - Len(stream'.avail)
  BY DEF Taken
<1> QED
  BY <1>2, <1>4, <1>5, <1>6

LEMMA DecodeStep ==
  ASSUME MainInv, Process, ~Encoding
  PROVE  MainInv'
<1> USE DEF files, ins, outs
<1> DEFINE s == stream
           start == 2 + s.windows * WindowLength
           need == WindowLength - Len(s.held)
           w == IF s.windows > 0 THEN s.current_window + 1 ELSE 0
<1>1. /\ pc = "process" /\ DecodeInput
      /\ UNCHANGED <<job, winsize, bdata, nread, fs, oname, oopen, nwrite, written, exit>>
      /\ pc' = IF ret' = "none" THEN "process" ELSE "returned"
  BY DEF Process, Go, Encoding
<1>2. Running /\ Running' /\ MainTypes /\ BufferInv /\ DecoderInv /\ s.out = <<>>
  <2>1. Running /\ Running'
    BY <1>1 DEF Running
  <2> QED
    BY <1>1, <2>1, Parts, NoOutputYet
<1>3. /\ s \in Streams /\ s.current_window \in Nat /\ s.windows \in Nat /\ s.avail \in Seq(Nat)
      /\ s.held \in Seq(Nat) /\ WindowLength \in Nat \ {0} /\ WindowLength > 1
      /\ s.windows * WindowLength \in Nat
      /\ (s.windows + 1) * WindowLength = s.windows * WindowLength + WindowLength
      /\ <<>> \in Seq(Nat)
  <2>1. /\ s \in Streams /\ s.current_window \in Nat /\ s.windows \in Nat /\ s.avail \in Seq(Nat)
        /\ s.held \in Seq(Nat) /\ WindowLength \in Nat \ {0} /\ WindowLength > 1
    BY <1>2, StreamType, JobFacts DEF MainTypes
  <2> QED
    BY <2>1, Multiple
<1>4. /\ Taken \in Nat /\ Taken <= nread /\ nread \in Nat /\ nread <= Len(job.input)
      /\ Len(s.avail) \in Nat /\ nread = Taken + Len(s.avail) /\ job.input \in Seq(Nat)
      /\ s.avail = SubSeq(job.input, Taken + 1, nread) /\ Len(job.input) \in Nat
  BY <1>1, <1>2, AvailFacts
<1>5. pc' \in {"process", "returned"} /\ (pc' = "process" <=> ret' = "none")
  BY <1>1
<1>6. BufferInv'
  BY <1>1, <1>2, <1>5 DEF BufferInv, Base
<1>7. ASSUME stream' \in Streams PROVE MainTypes'
  BY <1>1, <1>2, <1>5, <1>7 DEF MainTypes, GetWinsize
<1>8. oopen # "none" => s.windows > 0 \/ s.phase = "DEC_FINISH"
  BY <1>2 DEF DecoderInv
<1>9. ASSUME s.avail = <<>>, s.phase # "DEC_FINISH", ret' = "XD3_INPUT", stream' = s
      PROVE  MainInv'
  <2>1. Count' = Count /\ Taken' = Taken
    BY <1>1, <1>5, <1>9 DEF Count, Taken
  <2>2. DecoderInv'
    BY <1>1, <1>2, <1>5, <1>9, <2>1 DEF DecoderInv
  <2> QED
    BY <1>1, <1>2, <1>3, <1>6, <1>7, <1>9, <2>1, <2>2, Quiet
<1>10. ASSUME s.avail # <<>>, s.phase \in {"DEC_VCHEAD", "DEC_HDRIND"}, ret' = "none",
              stream' = [s EXCEPT !.phase = IF s.phase = "DEC_VCHEAD" THEN "DEC_HDRIND" ELSE "DEC_WININD",
                                  !.avail = Tail(s.avail)]
       PROVE  MainInv'
  <2>1. /\ Tail(s.avail) \in Seq(Nat) /\ Tail(s.avail) = SubSeq(job.input, (Taken + 1) + 1, nread)
        /\ 1 <= Len(s.avail)
    BY <1>1, <1>2, <1>10, AvailTail
  <2>2. /\ stream' \in Streams /\ stream'.avail = Tail(s.avail) /\ stream'.out = <<>>
        /\ stream'.phase = (IF s.phase = "DEC_VCHEAD" THEN "DEC_HDRIND" ELSE "DEC_WININD")
        /\ stream'.windows = s.windows /\ stream'.held = s.held
        /\ stream'.current_window = s.current_window
    BY <1>2, <1>3, <1>10, <2>1 DEF Streams
  <2>3. /\ Taken' = Taken + 1 /\ Len(stream'.avail) <= nread'
        /\ stream'.avail = SubSeq(job'.input, nread' - Len(stream'.avail) + 1, nread')
    BY <1>1, <1>2, <1>5, <2>1, <2>2, TakenBy
  <2>4. Count' = Count
    BY <1>1, <1>2, <1>10, <2>2 DEF Count
  <2>5. /\ s.windows = 0 /\ s.windows * WindowLength = 0
        /\ (s.phase = "DEC_VCHEAD" => Taken + 1 = 1) /\ (s.phase = "DEC_HDRIND" => Taken + 1 = 2)
    <3>1. s.windows = 0 /\ (s.phase = "DEC_VCHEAD" => Taken = 0) /\ (s.phase = "DEC_HDRIND" => Taken = 1)
      BY <1>2, <1>10 DEF DecoderInv
    <3> QED
      BY <1>3, <3>1, SMT
  <2>6. DecoderInv'
    <3>1. stream'.windows = 0 /\ 2 + stream'.windows * WindowLength = 2
      BY <2>2, <2>5
    <3>2. oopen' = "none" /\ pc' = "process"
      BY <1>1, <1>5, <1>8, <1>10, <2>5
    <3>3. \/ stream'.phase = "DEC_HDRIND" /\ Taken' = 1
          \/ stream'.phase = "DEC_WININD" /\ Taken' = 2
      BY <1>10, <2>2, <2>3, <2>5
    <3> QED
      BY <2>3, <3>1, <3>2, <3>3 DEF DecoderInv
  <2> QED
    BY <1>1, <1>2, <1>5, <1>6, <1>7, <1>10, <2>2, <2>4, <2>6, Quiet
<1>11. ASSUME s.avail # <<>>, s.phase = "DEC_WININD",
              ret' = (IF w = 0 THEN "XD3_GOTHEADER" ELSE "XD3_WINSTART"),
              stream' = [s EXCEPT !.phase = "DEC_DATA", !.held = <<Head(s.avail)>>,
                               !.avail = Tail(s.avail), !.current_window = w]
       PROVE  MainInv'
  <2>1. /\ Tail(s.avail) \in Seq(Nat) /\ Tail(s.avail) = SubSeq(job.input, (Taken + 1) + 1, nread)
        /\ 1 <= Len(s.avail) /\ Head(s.avail) = job.input[Taken + 1] /\ Head(s.avail) \in Nat
    BY <1>1, <1>2, <1>11, AvailTail
  <2>2. w \in Nat /\ (w = 0 => s.windows = 0)
    BY <1>3, SMT
  <2> HIDE DEF w
  <2>3. <<Head(s.avail)>> \in Seq(Nat) /\ Len(<<Head(s.avail)>>) = 1 /\ <<Head(s.avail)>>[1] = Head(s.avail)
    BY <2>1
  <2>4. /\ stream' \in Streams /\ stream'.avail = Tail(s.avail) /\ stream'.out = <<>>
        /\ stream'.phase = "DEC_DATA" /\ stream'.windows = s.windows
        /\ stream'.held = <<Head(s.avail)>>
    BY <1>2, <1>3, <1>11, <2>1, <2>2, <2>3 DEF Streams
  <2>5. /\ Taken' = Taken + 1 /\ Len(stream'.avail) <= nread'
        /\ stream'.avail = SubSeq(job'.input, nread' - Len(stream'.avail) + 1, nread')
    BY <1>1, <1>2, <1>5, <2>1, <2>4, TakenBy
  <2>6. Count' = Count
    BY <1>1, <1>2, <1>11, <2>4 DEF Count, Encoding
  <2>7. Taken = start
    BY <1>2, <1>11 DEF DecoderInv
  <2>8. pc' = "returned"
    BY <1>5, <1>11
  <2>9. DecoderInv'
    <3>1. Len(stream'.held) = 1 /\ 1 \in 1..(WindowLength - 1) /\ stream'.held[1] = job'.input[start + 1]
      BY <1>1, <1>3, <2>1, <2>3, <2>4, <2>7
    <3>2. 2 + stream'.windows * WindowLength = start
      BY <2>4
    <3>3. Taken' = start + Len(stream'.held)
      BY <2>5, <2>7, <3>1
    <3>4. \/ ret' = "XD3_GOTHEADER" /\ stream'.windows = 0
          \/ ret' = "XD3_WINSTART"
      BY <1>11, <2>2, <2>4
    <3>5. oopen' # "none" => stream'.windows > 0
      BY <1>1, <1>8, <1>11, <2>4
    <3> HIDE DEF start
    <3> QED
      BY <2>4, <2>5, <2>8, <3>1, <3>2, <3>3, <3>4, <3>5 DEF DecoderInv
  <2> QED
    BY <1>1, <1>2, <1>6, <1>7, <1>11, <2>4, <2>6, <2>9, Quiet
<1>12. ASSUME s.phase = "DEC_DATA"
       PROVE  /\ Taken = start + Len(s.held) /\ Len(s.held) \in 1..(WindowLength - 1)
              /\ s.held[1] = job.input[start + 1] /\ start \in Nat
              /\ Len(s.held) \in Nat /\ s.held[1] \in Nat
  <2>1. /\ Taken = start + Len(s.held) /\ Len(s.held) \in 1..(WindowLength - 1)
        /\ s.held[1] = job.input[start + 1]
    BY <1>2, <1>12 DEF DecoderInv
  <2>2. start \in Nat
    BY <1>3, SMT
  <2>3. Len(s.held) \in Nat /\ 1 \in 1..Len(s.held)
    BY <1>3, <2>1
  <2>4. s.held[1] \in Nat
    BY <1>3, <2>3
  <2> QED
    BY <2>1, <2>2, <2>3, <2>4
<1>13. ASSUME s.phase = "DEC_DATA", s.avail # <<>>, Len(s.avail) < need, ret' = "XD3_INPUT",
              stream' = [s EXCEPT !.held = s.held \o s.avail, !.avail = <<>>]
       PROVE  MainInv'
  <2>1. /\ s.held \o s.avail \in Seq(Nat) /\ Len(s.held \o s.avail) = Len(s.held) + Len(s.avail)
        /\ (s.held \o s.avail)[1] = s.held[1]
    <3>1. \A x, y \in Seq(Nat) : 1 <= Len(x) =>
            x \o y \in Seq(Nat) /\ Len(x \o y) = Len(x) + Len(y) /\ (x \o y)[1] = x[1]
      BY SMT
    <3>2. 1 <= Len(s.held)
      BY <1>12, <1>13
    <3> QED
      BY <1>3, <3>1, <3>2
  <2>2. /\ stream' \in Streams /\ stream'.avail = <<>> /\ stream'.out = <<>>
        /\ stream'.phase = "DEC_DATA" /\ stream'.windows = s.windows
        /\ stream'.held = s.held \o s.avail
    BY <1>2, <1>3, <1>13, <2>1 DEF Streams
  <2>3. Taken' = nread
    BY <1>1, <1>4, <1>5, <2>2, SMT DEF Taken
  <2>4. Count' = Count
    BY <1>1, <1>13, <2>2 DEF Count
  <2>5. DecoderInv'
    <3>1. Len(stream'.held) = Len(s.held) + Len(s.avail) /\ stream'.held[1] = job'.input[start + 1]
      BY <1>1, <1>12, <1>13, <2>1, <2>2
    <3>2. 2 + stream'.windows * WindowLength = start
      BY <2>2
    <3>3. Len(stream'.held) \in 1..(WindowLength - 1) /\ Taken' = start + Len(stream'.held)
      <4>1. /\ nread = Taken + Len(s.avail) /\ Len(s.avail) < WindowLength - Len(s.held)
            /\ Taken = start + Len(s.held) /\ Taken' = nread
            /\ Len(stream'.held) = Len(s.held) + Len(s.avail)
        BY <1>4, <1>12, <1>13, <2>3, <3>1
      <4>2. PICK b \in Nat : b = start
        BY <1>12, <1>13
      <4>3. PICK l \in Nat : l = Len(s.avail)
        BY <1>4
      <4>4. PICK h \in 1..(WindowLength - 1) : h = Len(s.held)
        BY <1>12, <1>13
      <4>5. l < WindowLength - h => h + l \in 1..(WindowLength - 1) /\ (b + h) + l = b + (h + l)
        BY <1>3, SMT
      <4> HIDE DEF start
      <4> QED
        BY <4>1, <4>2, <4>3, <4>4, <4>5
    <3>4. Len(<<>>) <= nread /\ <<>> = SubSeq(job.input, nread - Len(<<>>) + 1, nread)
      <4>1. Len(<<>>) = 0 /\ 0 <= nread /\ nread - 0 = nread
        BY <1>4, SMT
      <4>2. SubSeq(job.input, nread + 1, nread) = <<>>
        BY <1>4, SMT
      <4> QED
        BY <4>1, <4>2
    <3>5. oopen' # "none" => stream'.windows > 0
      BY <1>1, <1>8, <1>13, <2>2
    <3> HIDE DEF start
    <3> QED
      BY <1>1, <1>5, <1>13, <2>2, <3>1, <3>2, <3>3, <3>4, <3>5 DEF DecoderInv
  <2> QED
    BY <1>1, <1>2, <1>6, <1>7, <1>13, <2>2, <2>4, <2>5, Quiet
<1>14. ASSUME s.phase = "DEC_DATA", need <= Len(s.avail), ret' = "XD3_OUTPUT",
              stream' = [s EXCEPT !.phase = "DEC_FINISH", !.held = <<>>,
                                  !.avail = SubSeq(s.avail, need + 1, Len(s.avail)),
                                  !.out = Decoded(s.held[1])]
       PROVE  MainInv'
  <2>1. need \in Nat /\ need <= Len(s.avail) /\ Taken + need = start + WindowLength
    <3>1. PICK b \in Nat : b = start
      BY <1>12, <1>14
    <3>2. PICK h \in 1..(WindowLength - 1) : h = Len(s.held)
      BY <1>12, <1>14
    <3>3. WindowLength - h \in Nat /\ (b + h) + (WindowLength - h) = b + WindowLength
      BY <1>3, SMT
    <3>4. Taken = b + h
      BY <1>12, <1>14, <3>1, <3>2
    <3> HIDE DEF start
    <3> QED
      BY <1>14, <3>1, <3>2, <3>3, <3>4
  <2> HIDE DEF need
  <2>2. SubSeq(s.avail, need + 1, Len(s.avail)) = SubSeq(job.input, (Taken + need) + 1, nread)
    BY <1>1, <1>2, <2>1, AvailDropped
  <2>3. SubSeq(s.avail, need + 1, Len(s.avail)) \in Seq(Nat)
    BY <1>1, <1>2, <2>1, AvailDropped
  <2>4. start + WindowLength <= Len(job.input)
    <3>1. Taken + need <= Len(job.input)
      BY <1>1, <1>2, <2>1, AvailDropped
    <3> HIDE DEF start
    <3> QED
      BY <2>1, <3>1
  <2>5. s.windows + 1 \in 1..Len(Targets) /\ Targets[s.windows + 1] = Decoded(s.held[1])
    BY <1>2, <1>3, <1>12, <1>14, <2>4, DecodedThere
  <2>6. Decoded(s.held[1]) \in Seq(Nat) /\ Decoded(s.held[1]) # <<>>
    <3>1. s.held[1] \in Nat
      BY <1>12, <1>14
    <3> QED
      BY <3>1 DEF Decoded
  <2>7. /\ stream' \in Streams /\ stream'.avail = SubSeq(job.input, (Taken + need) + 1, nread)
        /\ stream'.out = Decoded(s.held[1])
        /\ stream'.phase = "DEC_FINISH" /\ stream'.windows = s.windows
    BY <1>3, <1>14, <2>2, <2>3, <2>6 DEF Streams
  <2>8. /\ Taken' = Taken + need /\ Len(stream'.avail) <= nread'
        /\ stream'.avail = SubSeq(job'.input, nread' - Len(stream'.avail) + 1, nread')
    BY <1>1, <1>2, <1>5, <1>14, <2>1, <2>7, TakenBy
  <2>9. Count = s.windows /\ Count' = s.windows
    BY <1>1, <1>3, <1>14, <2>6, <2>7 DEF Count, Encoding
  <2>10. pc' = "returned"
    BY <1>5, <1>14
  <2>11. DecoderInv'
    <3>1. 2 + stream'.windows * WindowLength = start
      BY <2>7
    <3>2. Taken' = start + WindowLength
      BY <2>1, <2>8
    <3> HIDE DEF start
    <3> QED
      BY <1>14, <2>7, <2>8, <2>10, <3>1, <3>2 DEF DecoderInv
  <2>12. Count < Len(Targets)
    BY <1>2, <1>3, <2>5, <2>9, TargetsType, SMT
  <2> QED
    BY <1>1, <1>2, <1>6, <1>7, <1>14, <2>5, <2>6, <2>7, <2>9, <2>10, <2>11, <2>12, Produced
<1>15. ASSUME s.phase = "DEC_FINISH", ret' = "XD3_WINFINISH",
              stream' = [s EXCEPT !.phase = "DEC_WININD", !.windows = s.windows + 1]
       PROVE  MainInv'
  <2>1. s.windows + 1 \in Nat
    BY <1>3
  <2>2. /\ stream' \in Streams /\ stream'.avail = s.avail /\ stream'.out = <<>>
        /\ stream'.phase = "DEC_WININD" /\ stream'.windows = s.windows + 1
    BY <1>2, <1>3, <1>15, <2>1 DEF Streams
  <2>3. Taken' = Taken
    BY <1>1, <1>5, <2>2 DEF Taken
  <2>4. Count' = Count
    BY <1>1, <1>2, <1>3, <1>15, <2>2, SMT DEF Count, Encoding
  <2>5. Taken = start + WindowLength
    BY <1>2, <1>15 DEF DecoderInv
  <2>6. Len(s.avail) <= nread /\ s.avail = SubSeq(job.input, nread - Len(s.avail) + 1, nread)
    BY <1>2 DEF DecoderInv
  <2>7. DecoderInv'
    <3>1. Taken' = 2 + stream'.windows * WindowLength /\ stream'.windows > 0
      BY <1>3, <2>2, <2>3, <2>5, SMT
    <3> QED
      BY <1>1, <1>5, <1>15, <2>2, <2>6, <3>1 DEF DecoderInv
  <2> QED
    BY <1>1, <1>2, <1>6, <1>7, <1>15, <2>2, <2>4, <2>7, Quiet
<1>16. Len(s.avail) \in Nat /\ (s.phase = "DEC_DATA" => need \in Nat)
       /\ (Smaller(need, Len(s.avail)) < need => Len(s.avail) < need)
       /\ (~(Smaller(need, Len(s.avail)) < need) /\ need \in Nat
             => need <= Len(s.avail) /\ Smaller(need, Len(s.avail)) = need)
  <2>1. s.phase = "DEC_DATA" => need \in Nat
    BY <1>3, <1>12, SMT
  <2>2. need \in Int
    BY <1>3
  <2> HIDE DEF need
  <2> QED
    BY <1>4, <2>1, <2>2, SMT DEF Smaller
<1> HIDE DEF start, need, w
<1> QED
  BY <1>1, <1>9, <1>10, <1>11, <1>13, <1>14, <1>15, <1>16 DEF DecodeInput, need, w

-----------------------------------------------------------------------------
(* The invariant holds. *)
LEMMA MainInit ==
  ASSUME Init
  PROVE  MainInv
<1>1. /\ job \in Jobs /\ fs = Before /\ winsize = GetWinsize(job) /\ bdata = <<>> /\ nread = 0
      /\ stream = NewStream(job) /\ oopen = "none" /\ nwrite = 0 /\ written = <<>>
      /\ pc = "setup" /\ exit = 0
  BY DEF Init
<1>2. <<>> \in Seq(Nat) /\ <<7>> \in Seq(Nat) /\ Len(<<>>) = 0 /\ 0 \in Nat
  OBVIOUS
<1>3. /\ stream \in Streams /\ stream.avail = <<>> /\ stream.out = <<>> /\ stream.windows = 0
      /\ stream.current_window = 0 /\ stream.appheader = FALSE
      /\ stream.phase = IF Encoding THEN "ENC_INPUT" ELSE "DEC_VCHEAD"
  BY <1>1, <1>2 DEF Streams, NewStream, Encoding
<1>4. MainTypes
  <2>1. Before \in [Names -> [there : BOOLEAN, cells : Seq(Nat)]]
    BY <1>2 DEF Before
  <2> QED
    BY <1>1, <1>2, <1>3, <2>1 DEF MainTypes
<1>5. /\ winsize \in Nat \ {0} /\ job.input \in Seq(Nat) /\ Len(job.input) \in Nat
  BY <1>4, JobFacts
<1>6. SubSeq(job.input, 0 - 0 + 1, 0) = <<>> /\ 0 - 0 = 0 /\ 0 * winsize = 0
  BY <1>5, SMT
<1>7. BufferInv
  BY <1>1, <1>2, <1>5, <1>6 DEF BufferInv, Base
<1>8. Count = 0
  BY <1>3 DEF Count
<1>9. Now = <<>>
  <2>1. Targets \in Seq(Seq(Nat)) /\ 0 \in 0..Len(Targets)
    BY <1>4, TargetsType
  <2> QED
    BY <1>8, <2>1, FlattenType DEF Now
<1>10. OutputInv
  <2>1. 0 <= Len(Targets)
    BY <1>4, TargetsType
  <2>2. <<>> \o SubSeq(<<>>, 1, 0) = <<>>
    OBVIOUS
  <2>3. Running
    BY <1>1 DEF Running
  <2> QED
    BY <1>1, <1>2, <1>3, <1>8, <1>9, <2>1, <2>2, <2>3 DEF OutputInv
<1>11. ExitInv
  BY <1>1 DEF ExitInv, Running
<1>12. ASSUME Encoding PROVE EncoderInv
  BY <1>1, <1>2, <1>3, <1>6, <1>12 DEF EncoderInv, Base
<1>13. ASSUME ~Encoding PROVE DecoderInv
  <2>1. Taken = 0
    BY <1>1, <1>2, <1>6 DEF Taken
  <2>2. Len(stream.avail) <= nread /\ stream.avail = SubSeq(job.input, nread - Len(stream.avail) + 1, nread)
    BY <1>1, <1>2, <1>3, <1>6
  <2> QED
    BY <1>1, <1>3, <1>13, <2>1, <2>2 DEF DecoderInv
<1> QED
  BY <1>4, <1>7, <1>10, <1>11, <1>12, <1>13 DEF MainInv

LEMMA MainUnchanged ==
  ASSUME MainInv, UNCHANGED vars
  PROVE  MainInv'
<1>1. UNCHANGED <<job, winsize, bdata, nread, stream, fs, oname, oopen, nwrite, written, ret, pc, exit>>
  BY DEF vars, files, ins, outs
<1>2. /\ Targets' = Targets /\ Len(Pieces)' = Len(Pieces) /\ (Whole' <=> Whole)
      /\ Count' = Count /\ Now' = Now /\ (Running' <=> Running) /\ (Encoding' <=> Encoding)
  BY <1>1, TargetsSame, NowSame DEF Count, Running, Encoding
<1>3. MainTypes' /\ BufferInv'
  BY <1>1 DEF MainInv, MainTypes, GetWinsize, BufferInv, Base
<1>4. OutputInv' /\ ExitInv'
  <2>1. OutputInv /\ ExitInv
    BY Parts
  <2> QED
    BY <1>1, <1>2, <2>1 DEF OutputInv, ExitInv
<1>5. EncoderInv => EncoderInv'
  BY <1>1, <1>2 DEF EncoderInv, Base
<1>6. DecoderInv => DecoderInv'
  BY <1>1, <1>2 DEF DecoderInv, Taken
<1> QED
  BY <1>2, <1>3, <1>4, <1>5, <1>6, Parts DEF MainInv

LEMMA MainStep ==
  ASSUME MainInv, [Next]_vars
  PROVE  MainInv'
<1>1. CASE UNCHANGED vars
  BY <1>1, MainUnchanged
<1>2. CASE Fault
  BY <1>2, FaultStep
<1>3. CASE Setup
  BY <1>3, SetupStep
<1>4. CASE Feed
  BY <1>4, FeedStep
<1>5. CASE Process
  BY <1>5, EncodeStep, DecodeStep
<1>6. CASE OnInput
  BY <1>6, OnInputStep
<1>7. CASE OnHeader \/ OnWindow
  BY <1>7, OnReturnStep
<1>8. CASE OpenOutput
  BY <1>8, OpenStep
<1>9. CASE RefuseOutput
  BY <1>9, RefuseStep
<1>10. CASE Consume
  BY <1>10, ConsumeStep
<1>11. CASE Done
  BY <1>11, DoneStep
<1>12. CASE Cleanup
  BY <1>12, CleanupStep
<1>13. CASE \E n \in 1..winsize : ReadSome(n)
  BY <1>13, ReadStep
<1>14. CASE \E n \in 1..Len(stream.out) : WriteSome(n)
  BY <1>14, WriteStep
<1> QED
  BY <1>1, <1>2, <1>3, <1>4, <1>5, <1>6, <1>7, <1>8, <1>9, <1>10, <1>11, <1>12, <1>13, <1>14
     DEF Next, Step, Exited

(* main_input's variables are consistent in every state: what the buffer,  *)
(* the library and the output hold fits what was read of the input.        *)
THEOREM MainCorrect == Spec => []MainInv
<1>1. Init => MainInv
  BY MainInit
<1>2. MainInv /\ [Next]_vars => MainInv'
  BY MainStep
<1> QED
  BY <1>1, <1>2, PTL DEF Spec

(* A sequence and a piece of another. *)
LEMMA CutShort ==
  ASSUME NEW s \in Seq(Nat), NEW u \in Seq(Nat), NEW n \in Nat, n < Len(u)
  PROVE  IsPrefix(s, s \o SubSeq(u, 1, n)) /\ IsStrictPrefix(s \o SubSeq(u, 1, n), s \o u)
<1> DEFINE v == SubSeq(u, 1, n)
           x == s \o v
           y == s \o u
<1>1. v \in Seq(Nat) /\ Len(v) = n /\ \A i \in 1..n : v[i] = u[i]
  BY Prefix
<1>0. \A f, g \in Seq(Nat) :
        /\ f \o g \in Seq(Nat) /\ Len(f \o g) = Len(f) + Len(g) /\ \A i \in 1..Len(f) : (f \o g)[i] = f[i]
        /\ \A i \in 1..Len(g) : (f \o g)[Len(f) + i] = g[i]
  BY SMT
<1> HIDE DEF v
<1>2. /\ x \in Seq(Nat) /\ Len(x) = Len(s) + n /\ \A i \in 1..Len(s) : x[i] = s[i]
      /\ \A i \in 1..n : x[Len(s) + i] = u[i]
  BY <1>0, <1>1
<1>3. /\ y \in Seq(Nat) /\ Len(y) = Len(s) + Len(u) /\ \A i \in 1..Len(s) : y[i] = s[i]
      /\ \A i \in 1..n : y[Len(s) + i] = u[i]
  BY SMT
<1>4. Len(s) \in Nat /\ Len(u) \in Nat
  OBVIOUS
<1> HIDE DEF x, y
<1>5. PICK l \in Nat : l = Len(x) /\ l = Len(s) + n /\ l < Len(y)
  BY <1>2, <1>3, <1>4, SMT
<1>6. \A i \in 1..l : x[i] = y[i]
  <2> TAKE i \in 1..l
  <2>1. CASE i <= Len(s)
    BY <1>2, <1>3, <1>4, <2>1, SMT
  <2>2. CASE ~(i <= Len(s))
    <3>1. PICK j \in 1..n : i = Len(s) + j
      <4>1. i - Len(s) \in 1..n /\ i = Len(s) + (i - Len(s))
        BY <1>4, <1>5, <2>2, SMT
      <4> QED
        BY <4>1
    <3> QED
      BY <1>2, <1>3, <3>1
  <2> QED
    BY <2>1, <2>2
<1>7. IsPrefix(s, x)
  <2>1. /\ SubSeq(x, 1, Len(s)) \in Seq(Nat) /\ Len(SubSeq(x, 1, Len(s))) = Len(s)
        /\ \A i \in 1..Len(s) : SubSeq(x, 1, Len(s))[i] = x[i]
    BY <1>2, <1>4, Prefix
  <2>2. SubSeq(x, 1, Len(s)) = s /\ SubSeq(s, 1, Len(s)) = s
    BY <1>2, <2>1, SameSeq, WholePrefix
  <2>3. Len(s) <= Len(x)
    BY <1>2, <1>4, SMT
  <2> QED
    BY <2>2, <2>3 DEF IsPrefix
<1>8. IsStrictPrefix(x, y)
  <2>1. /\ SubSeq(y, 1, l) \in Seq(Nat) /\ Len(SubSeq(y, 1, l)) = l
        /\ \A i \in 1..l : SubSeq(y, 1, l)[i] = y[i]
    <3>1. l <= Len(y)
      BY <1>3, <1>4, <1>5, SMT
    <3> QED
      BY <1>3, <1>5, <3>1, Prefix
  <2>2. SubSeq(y, 1, l) = x /\ SubSeq(x, 1, l) = x
    BY <1>2, <1>5, <1>6, <2>1, SameSeq, WholePrefix
  <2>3. x # y /\ Len(x) <= Len(y)
    <3>1. l # Len(y) /\ l <= Len(y)
      BY <1>3, <1>4, <1>5, SMT
    <3> QED
      BY <1>5, <3>1
  <2> QED
    BY <1>5, <2>2, <2>3 DEF IsStrictPrefix, IsPrefix
<1> QED
  BY <1>7, <1>8 DEF x, y, v

(* What is written when the last window is applied is all of the output. *)
LEMMA AllApplied ==
  ASSUME MainTypes, OutputInv, Count = Len(Targets), nwrite = 0, ~job.no_output
  PROVE  written = FlattenSeq(Targets) /\ written = Now
<1>1. Targets \in Seq(Seq(Nat)) /\ Len(Targets) \in 0..Len(Targets)
  BY TargetsType
<1>2. Now = FlattenSeq(Targets)
  BY <1>1, FlattenType DEF Now
<1>3. Now \in Seq(Nat) /\ stream.out \in Seq(Nat)
  BY NowType, StreamType
<1>4. \A s, u \in Seq(Nat) : s \o SubSeq(u, 1, 0) = s
  BY SMT
<1>5. written = Now \o SubSeq(stream.out, 1, 0)
  BY DEF OutputInv
<1> QED
  BY <1>2, <1>3, <1>4, <1>5

(* EXIT_SUCCESS means that the input was whole and that the output file    *)
(* holds what it makes, for every input, window size and cut of the reads  *)
(* and writes.                                                             *)
THEOREM SuccessCorrect == Spec => []SuccessIsComplete
<1>1. MainInv => SuccessIsComplete
  <2> SUFFICES ASSUME MainInv, pc = "exited", exit = 0, ~job.no_output
               PROVE  /\ Whole /\ written = FlattenSeq(Targets)
                      /\ oname \in Names => fs[oname].cells = written
    BY DEF SuccessIsComplete
  <2>1. MainTypes /\ OutputInv /\ ExitInv /\ ~Running
    BY Parts DEF Running
  <2>2. Whole /\ Count = Len(Targets) /\ nwrite = 0 /\ oopen # "none"
    BY <2>1 DEF ExitInv
  <2>3. oname \in Names => fs[oname].cells = written
    BY <2>1, <2>2 DEF OutputInv
  <2> QED
    BY <2>1, <2>2, <2>3, AllApplied
<1> QED
  BY <1>1, MainCorrect, PTL

-----------------------------------------------------------------------------
(* Refinement: the program applies windows as DeltaApply does. *)
PWindows == IF job.no_output THEN <<>> ELSE Targets
PCount == IF job.no_output THEN 0 ELSE Count
PWritten == IF pc = "exited" \/ job.no_output THEN written ELSE Now
PResult == IF pc # "exited" THEN "none" ELSE IF exit = 0 THEN "ok" ELSE "failed"

LEMMA Stutters ==
  ASSUME MainInv, MainInv', UNCHANGED <<job, winsize>>, Count' = Count,
         pc # "exited", pc' # "exited"
  PROVE  UNCHANGED Promise!avars
<1>1. Targets' = Targets /\ Now' = Now
  BY TargetsSame, NowSame
<1>2. job.no_output => written' = written
  <2>1. job.no_output => written = <<>>
    BY DEF MainInv, OutputInv
  <2>2. job'.no_output => written' = <<>>
    BY DEF MainInv, OutputInv
  <2> QED
    BY <2>1, <2>2
<1>3. PWindows' = PWindows /\ PCount' = PCount /\ PWritten' = PWritten /\ PResult' = PResult
  BY <1>1, <1>2 DEF PWindows, PCount, PWritten, PResult
<1> QED
  BY <1>3 DEF Promise!avars, PWindows, PCount, PWritten, PResult, Now

(* The count of windows changes with Consume only. *)
LEMMA CountSame ==
  ASSUME UNCHANGED job, stream'.phase = stream.phase, stream'.out = stream.out,
         stream'.current_window = stream.current_window, stream'.windows = stream.windows
  PROVE  Count' = Count
  BY DEF Count

LEMMA EncodeCount ==
  ASSUME MainInv, Process, Encoding
  PROVE  Count' = Count
<1>1. pc = "process" /\ EncodeInput /\ UNCHANGED job /\ Running
  BY DEF Process, Encoding, files, Running
<1>2. MainTypes /\ BufferInv /\ EncoderInv /\ stream.out = <<>>
  BY <1>1, Parts, NoOutputYet
<1>3. stream \in Streams /\ stream.current_window \in Nat
  BY <1>2, StreamType DEF MainTypes
<1>4. Encoded(stream) # <<>>
  BY <1>1, <1>2, EncodedPiece
<1> HIDE DEF Encoded
<1>5. CASE /\ stream.phase = "ENC_INPUT"
           /\ \/ stream' = [stream EXCEPT !.held = @ \o stream.avail, !.avail = <<>>]
              \/ stream' = [stream EXCEPT !.phase = "ENC_SEARCH"]
  BY <1>1, <1>2, <1>3, <1>5 DEF Count, Streams
<1>6. CASE /\ stream.phase = "ENC_SEARCH"
           /\ stream' = [stream EXCEPT !.phase = "ENC_POSTOUT", !.out = Encoded(stream)]
  BY <1>1, <1>2, <1>3, <1>4, <1>6 DEF Count, Streams
<1>7. CASE stream.phase = "ENC_POSTOUT" /\ stream' = [stream EXCEPT !.phase = "ENC_POSTWIN"]
  BY <1>1, <1>2, <1>3, <1>7 DEF Count, Streams
<1>8. CASE /\ stream.phase = "ENC_POSTWIN"
           /\ stream' = [stream EXCEPT !.phase = "ENC_INPUT", !.avail = <<>>, !.current_window = @ + 1]
  <2>1. Encoding'
    BY <1>1 DEF Encoding
  <2> QED
    BY <1>1, <1>2, <1>3, <1>8, <2>1 DEF Count, Streams, Encoding
<1> QED
  BY <1>1, <1>5, <1>6, <1>7, <1>8 DEF EncodeInput

LEMMA DecodeCount ==
  ASSUME MainInv, Process, ~Encoding
  PROVE  Count' = Count
<1>1. pc = "process" /\ DecodeInput /\ UNCHANGED job /\ Running
  BY DEF Process, Encoding, files, Running
<1>2. MainTypes /\ stream.out = <<>>
  BY <1>1, Parts, NoOutputYet
<1>3. stream \in Streams /\ stream.current_window \in Nat /\ stream.windows \in Nat
  BY <1>2, StreamType DEF MainTypes
<1>4. CASE stream' = stream
  BY <1>1, <1>4 DEF Count
<1>5. CASE /\ stream.phase \in {"DEC_VCHEAD", "DEC_HDRIND"}
           /\ stream' = [stream EXCEPT !.phase = IF @ = "DEC_VCHEAD" THEN "DEC_HDRIND" ELSE "DEC_WININD",
                                       !.avail = Tail(@)]
  BY <1>1, <1>2, <1>3, <1>5 DEF Count, Streams
<1>6. ASSUME NEW w, stream.phase = "DEC_WININD",
             stream' = [stream EXCEPT !.phase = "DEC_DATA", !.held = <<Head(stream.avail)>>,
                                      !.avail = Tail(@), !.current_window = w]
      PROVE  Count' = Count
  BY <1>1, <1>2, <1>3, <1>6 DEF Count, Streams, Encoding
<1>7. CASE /\ stream.phase = "DEC_DATA"
           /\ stream' = [stream EXCEPT !.held = @ \o stream.avail, !.avail = <<>>]
  BY <1>1, <1>2, <1>3, <1>7 DEF Count, Streams
<1>8. ASSUME NEW a, stream.phase = "DEC_DATA",
             stream' = [stream EXCEPT !.phase = "DEC_FINISH", !.held = <<>>, !.avail = a,
                                      !.out = Decoded(stream.held[1])]
      PROVE  Count' = Count
  BY <1>1, <1>2, <1>3, <1>8 DEF Count, Streams, Decoded
<1>9. CASE /\ stream.phase = "DEC_FINISH"
           /\ stream' = [stream EXCEPT !.phase = "DEC_WININD", !.windows = @ + 1]
  BY <1>1, <1>2, <1>3, <1>9 DEF Count, Streams, Encoding
<1> QED
  BY <1>1, <1>4, <1>5, <1>6, <1>7, <1>8, <1>9 DEF DecodeInput

LEMMA FeedCount ==
  ASSUME MainTypes, Feed
  PROVE  Count' = Count
<1>1. stream \in Streams /\ UNCHANGED job
  BY DEF MainTypes, Feed, files
<1>2. /\ stream'.phase = stream.phase /\ stream'.out = stream.out
      /\ stream'.current_window = stream.current_window /\ stream'.windows = stream.windows
  BY <1>1 DEF Feed, Streams
<1> QED
  BY <1>1, <1>2, CountSame

(* The end: of the output there is all, or a piece of a window too much. *)
LEMMA CleanupRefines ==
  ASSUME MainInv, Cleanup
  PROVE  Promise!Succeed \/ Promise!Fail
<1>1. MainTypes /\ OutputInv /\ ExitInv /\ ~Running
  BY Parts DEF Cleanup, Running
<1>2. /\ pc = "cleanup" /\ pc' = "exited" /\ exit' = exit
      /\ UNCHANGED <<job, winsize, stream, written, nwrite>>
  BY DEF Cleanup, Go, files
<1>3. Targets' = Targets /\ Count' = Count
  BY <1>2, TargetsSame DEF Count
<1>4. /\ PWindows' = PWindows /\ PCount' = PCount /\ PResult = "none"
      /\ PResult' = (IF exit = 0 THEN "ok" ELSE "failed")
      /\ PWritten' = written /\ PWritten = IF job.no_output THEN written ELSE Now
  BY <1>2, <1>3 DEF PWindows, PCount, PResult, PWritten
<1>5. CASE exit = 0
  <2>1. ~job.no_output => Count = Len(Targets) /\ nwrite = 0
    BY <1>1, <1>5 DEF ExitInv
  <2>2. ~job.no_output => written = Now
    BY <1>1, <2>1, AllApplied
  <2>3. PCount = Len(PWindows) /\ PWritten' = PWritten /\ PResult' = "ok"
    BY <1>4, <1>5, <2>1, <2>2 DEF PCount, PWindows
  <2> QED
    BY <1>4, <2>3 DEF Promise!Succeed, PWindows, PCount, PWritten, PResult, Now
<1>6. CASE exit # 0
  <2>1. PResult' = "failed"
    BY <1>4, <1>6
  <2>2. \/ PWritten' = PWritten
        \/ /\ PCount < Len(PWindows) /\ IsPrefix(PWritten, PWritten')
           /\ IsStrictPrefix(PWritten', PWritten \o PWindows[PCount + 1])
    <3>1. CASE job.no_output
      BY <1>4, <3>1
    <3>2. CASE ~job.no_output /\ nwrite = 0
      <4>1. Now \in Seq(Nat) /\ stream.out \in Seq(Nat) /\ written = Now \o SubSeq(stream.out, 1, 0)
        BY <1>1, <3>2, NowType, StreamType DEF OutputInv
      <4>2. \A s, u \in Seq(Nat) : s \o SubSeq(u, 1, 0) = s
        BY SMT
      <4> QED
        BY <1>4, <3>2, <4>1, <4>2
    <3>3. CASE ~job.no_output /\ nwrite # 0
      <4>1. /\ Now \in Seq(Nat) /\ stream.out \in Seq(Nat) /\ nwrite \in Nat
            /\ nwrite < Len(stream.out) /\ written = Now \o SubSeq(stream.out, 1, nwrite)
        BY <1>1, <3>3, NowType, StreamType DEF OutputInv, MainTypes
      <4>2. stream.out # <<>>
        BY <4>1, SMT
      <4>3. Count < Len(Targets) /\ stream.out = Targets[Count + 1]
        BY <1>1, <4>2 DEF OutputInv
      <4>4. \A s, u \in Seq(Nat) : \A n \in Nat : n < Len(u) =>
              IsPrefix(s, s \o SubSeq(u, 1, n)) /\ IsStrictPrefix(s \o SubSeq(u, 1, n), s \o u)
        BY CutShort
      <4>5. /\ PCount = Count /\ PWindows = Targets /\ PWritten = Now /\ PWritten' = written
        BY <1>4, <3>3 DEF PCount, PWindows
      <4> QED
        BY <4>1, <4>3, <4>4, <4>5
    <3> QED
      BY <3>1, <3>2, <3>3
  <2>3. \A s, u : /\ IsPrefix(s, u) => Promise!IsPrefix(s, u)
                  /\ IsStrictPrefix(s, u) => Promise!IsStrictPrefix(s, u)
    BY DEF IsPrefix, IsStrictPrefix, Promise!IsPrefix, Promise!IsStrictPrefix
  <2>4. \/ PWritten' = PWritten
        \/ /\ PCount < Len(PWindows) /\ Promise!IsPrefix(PWritten, PWritten')
           /\ Promise!IsStrictPrefix(PWritten', PWritten \o PWindows[PCount + 1])
    BY <2>2, <2>3
  <2> QED
    BY <1>4, <2>1, <2>4 DEF Promise!Fail, PWindows, PCount, PWritten, PResult, Now
<1> QED
  BY <1>5, <1>6

LEMMA ConsumeRefines ==
  ASSUME MainInv, MainInv', Consume
  PROVE  Promise!ApplyWindow \/ UNCHANGED Promise!avars
<1>1. /\ pc # "exited" /\ pc' # "exited" /\ UNCHANGED <<job, winsize, written>>
  BY DEF Consume, Returned, Go, files
<1>2. Count' = Count + 1 /\ Count < Len(Targets) /\ Now' = Now \o Targets[Count + 1]
  BY ConsumeFacts
<1>3. Targets' = Targets
  BY <1>1, TargetsSame
<1>4. CASE job.no_output
  <2>1. PWindows' = PWindows /\ PCount' = PCount /\ PWritten' = PWritten /\ PResult' = PResult
    BY <1>1, <1>4 DEF PWindows, PCount, PWritten, PResult
  <2> QED
    BY <2>1 DEF Promise!avars, PWindows, PCount, PWritten, PResult, Now
<1>5. CASE ~job.no_output
  <2>1. /\ PWindows = Targets /\ PWindows' = PWindows /\ PCount = Count /\ PCount' = PCount + 1
        /\ PWritten = Now /\ PWritten' = PWritten \o PWindows[PCount + 1]
        /\ PResult = "none" /\ PResult' = PResult /\ PCount < Len(PWindows)
    BY <1>1, <1>2, <1>3, <1>5 DEF PWindows, PCount, PWritten, PResult
  <2> QED
    BY <2>1 DEF Promise!ApplyWindow, PWindows, PCount, PWritten, PResult, Now
<1> QED
  BY <1>4, <1>5

LEMMA PromiseStep ==
  ASSUME MainInv, MainInv', [Next]_vars
  PROVE  [Promise!ANext]_(Promise!avars)
<1> USE DEF files
<1>1. CASE UNCHANGED vars
  <2>1. UNCHANGED <<job, winsize, stream, written, pc, exit>>
    BY <1>1 DEF vars, ins, outs
  <2>2. Targets' = Targets /\ Count' = Count /\ Now' = Now
    BY <2>1, TargetsSame, CountSame, NowSame
  <2>3. PWindows' = PWindows /\ PCount' = PCount /\ PWritten' = PWritten /\ PResult' = PResult
    BY <2>1, <2>2 DEF PWindows, PCount, PWritten, PResult
  <2> QED
    BY <2>3 DEF Promise!avars, PWindows, PCount, PWritten, PResult, Now
<1>2. CASE Process
  <2>1. UNCHANGED <<job, winsize>> /\ pc # "exited" /\ pc' # "exited"
    BY <1>2 DEF Process, Go
  <2> QED
    BY <1>2, <2>1, EncodeCount, DecodeCount, Stutters
<1>3. CASE Feed
  <2>1. UNCHANGED <<job, winsize>> /\ pc # "exited" /\ pc' # "exited"
    BY <1>3 DEF Feed, Go
  <2> QED
    BY <1>3, <2>1, FeedCount, Stutters, Parts
<1>4. CASE Consume
  BY <1>4, ConsumeRefines DEF Promise!ANext
<1>5. CASE Cleanup
  BY <1>5, CleanupRefines DEF Promise!ANext
<1>6. ASSUME UNCHANGED <<job, winsize, stream>>, pc # "exited", pc' # "exited"
      PROVE  UNCHANGED Promise!avars
  BY <1>6, CountSame, Stutters
<1>7. CASE Setup \/ OnInput \/ OnHeader \/ OnWindow
  BY <1>6, <1>7 DEF Setup, OnInput, OnHeader, OnWindow, Returned, Go
<1>8. CASE OpenOutput \/ RefuseOutput \/ Done \/ Fault
  BY <1>6, <1>8 DEF OpenOutput, RefuseOutput, Done, Fault, MustOpen, Returned, Go, Fail
<1>9. CASE \E n \in 1..winsize : ReadSome(n)
  BY <1>6, <1>9 DEF ReadSome
<1>10. CASE \E n \in 1..Len(stream.out) : WriteSome(n)
  BY <1>6, <1>10 DEF WriteSome, Returned
<1> QED
  BY <1>1, <1>2, <1>3, <1>4, <1>5, <1>7, <1>8, <1>9, <1>10 DEF Next, Step, Exited

(* main_input implements DeltaApply: its output grows by whole windows in  *)
(* order, and a failure leaves at most a piece of the next one.            *)
THEOREM WindowsGrow == Spec => GrowsByWindows
<1>1. Init => Promise!AInit
  <2> SUFFICES ASSUME Init PROVE Promise!AInit
    OBVIOUS
  <2>1. MainInv /\ pc = "setup" /\ written = <<>> /\ stream = NewStream(job)
    BY MainInit DEF Init
  <2>2. Count = 0
    BY <2>1 DEF Count, NewStream
  <2>3. Now = <<>>
    <3>1. Targets \in Seq(Seq(Nat)) /\ 0 \in 0..Len(Targets)
      BY <2>1, Parts, TargetsType
    <3> QED
      BY <2>2, <3>1, FlattenType DEF Now
  <2> QED
    BY <2>1, <2>2, <2>3 DEF Promise!AInit, Now
<1>2. MainInv /\ MainInv' /\ [Next]_vars => [Promise!ANext]_(Promise!avars)
  BY PromiseStep
<1> QED
  BY <1>1, <1>2, MainCorrect, PTL DEF Spec, GrowsByWindows, Promise!ASpec

=============================================================================
