----------------------------- MODULE EncodeFile -----------------------------
(***************************************************************************)
(* A caller of the encoder: xd3_process_stream, which encodes from memory  *)
(* with the whole source as one block, or a program that reads input and   *)
(* source in pieces, as the command line does, and answers requests for    *)
(* source blocks.  A callback may refuse to go back to a block that its    *)
(* buffer no longer holds.                                                 *)
(***************************************************************************)
EXTENDS DeltaEncoder

VARIABLES
  pc,      \* where the caller is
  fsource, \* the source file's bytes, or <<>> for no source
  finput,  \* the input's bytes
  chunk,   \* the caller reads this much at a time
  reader,  \* "memory": xd3_process_stream; "file": a program that reads a file;
           \* "pieces": one that is given pieces and knows the last
  taken,   \* how much of the input the encoder was given
  delta,   \* the delta: the output so far
  result   \* "none", "ok" or the code of the failure

files == <<fsource, finput, chunk, reader>>
caller == <<pc, taken, delta, result>>
vars == <<encoder, files, caller>>

(* xd3_set_source and, if the size is known, xd3_set_source_and_size. *)
Source(bytes, blksize, max_winsize, known) ==
  [blksize |-> blksize, max_winsize |-> max_winsize, curblkno |-> 0, curblk |-> <<>>,
   onblk |-> 0, getblkno |-> 0, frontier_blkno |-> 0, eof_known |-> known,
   max_blkno |-> IF known THEN Len(bytes) \div blksize ELSE 0,
   onlastblk |-> IF known THEN Len(bytes) % blksize ELSE 0]

NoSource == Source(<<>>, 0, 0, FALSE)

(* xd3_process_memory: the source is there as one block. *)
Preset(src, bytes) ==
  [src EXCEPT !.curblk = bytes, !.onblk = Len(bytes)]

(* The state in which the caller begins. *)
Begin(config, bytes, src, input, piece, kind) ==
  /\ stream = ConfigStream(config, bytes)
  /\ source = src
  /\ fsource = bytes /\ finput = input /\ chunk = piece /\ reader = kind
  /\ pc = "input" /\ taken = 0 /\ delta = <<>> /\ result = "none"
  /\ loop = Loop("enter") /\ ret = "none"

-----------------------------------------------------------------------------
Rest == Len(finput) - taken

(* The next piece.  XD3_FLUSH is set from the start for memory, for a file *)
(* when a read comes short, for pieces with the last.                      *)
Supply ==
  LET n == Min2(chunk, Rest)
      s == [stream EXCEPT !.flush = reader = "memory" \/ n < chunk \/ (reader = "pieces" /\ n = Rest)]
  IN /\ pc = "input"
     /\ IF n = 0 /\ IF reader = "file" THEN stream.current_window > 0 ELSE stream.given
        THEN pc' = "close" /\ UNCHANGED <<stream, ret, taken>>
        ELSE /\ stream' = AvailInput(s, SubSeq(finput, taken + 1, taken + n))
             /\ taken' = taken + n /\ ret' = "calling" /\ pc' = "process"
     /\ UNCHANGED <<source, loop, files, delta, result>>

Encode == pc = "process" /\ EncodeInput /\ UNCHANGED <<files, caller>>

Answer(code) == pc = "process" /\ ret = code

OnInput ==
  /\ Answer("XD3_INPUT")
  /\ pc' = "input"
  /\ UNCHANGED <<encoder, files, taken, delta, result>>

OnOutput ==
  /\ Answer("XD3_OUTPUT")
  /\ delta' = delta \o stream.out
  /\ stream' = Consumed(stream) /\ ret' = "calling"
  /\ UNCHANGED <<source, loop, files, pc, taken, result>>

OnWindow ==
  /\ pc = "process" /\ ret \in {"XD3_WINSTART", "XD3_WINFINISH"}
  /\ ret' = "calling"
  /\ UNCHANGED <<stream, source, loop, files, caller>>

BlockOf(blkno) ==
  LET from == blkno * source.blksize
  IN SubSeq(fsource, from + 1, Min2(from + source.blksize, Len(fsource)))

(* A block that is there is read into the one buffer. *)
OnGetsrcblk ==
  LET b == source.getblkno
      bytes == BlockOf(b)
  IN /\ pc = "process" /\ ret \in {"getblk", "XD3_GETSRCBLK"}
     /\ IF ret = "getblk" /\ b + stream.config.getblk < source.frontier_blkno
        THEN ret' = "XD3_TOOFARBACK" /\ UNCHANGED source
        ELSE /\ ret' = "calling"
             /\ source' = [source EXCEPT
                  !.curblkno = b, !.onblk = Len(bytes),
                  !.curblk = bytes \o [i \in 1 .. source.blksize - Len(bytes) |-> 0]]
     /\ UNCHANGED <<stream, loop, files, caller>>

(* The input is at its end, or the call failed. *)
Close ==
  /\ pc = "close" \/ Answer("XD3_INTERNAL")
  /\ pc' = "done"
  /\ stream' = Closed(stream)
  /\ result' = IF pc = "close" /\ CloseAccepts(stream) THEN "ok" ELSE "XD3_INTERNAL"
  /\ UNCHANGED <<source, loop, ret, files, taken, delta>>

Done == pc = "done" /\ UNCHANGED vars

Next ==
  \/ Supply \/ Encode \/ OnInput \/ OnOutput \/ OnWindow \/ OnGetsrcblk \/ Close
  \/ Done

(* WF_vars(Next), with its ENABLED written out: only Done leaves the       *)
(* state as it is.                                                         *)
Fairness == <>[](pc = "done") \/ []<><<TRUE>>_vars

-----------------------------------------------------------------------------
(* What a window's sections stand for, by RFC 3284: instruction after      *)
(* instruction, a copy reads the source window and then the target.        *)
SourceWindow(s) ==
  SubSeq(fsource, s.srcbase + 1, Min2(s.srcbase + s.srclen, Len(fsource)))

CopyFrom(s, out, addr, size) ==
  IF addr < s.srclen THEN SubSeq(SourceWindow(s), addr + 1, addr + size)
  ELSE LET from == addr - s.srclen
       IN [k \in 1 .. size |-> out[from + 1 + ((k - 1) % (Len(out) - from))]]

(* One half instruction of the decoding d of window s. *)
Half1(s, d, type, size0) ==
  LET r == IF size0 # 0 THEN [val |-> size0, used |-> 0] ELSE ReadInteger(d.inst)
      size == r.val
      e == [d EXCEPT !.inst = SubSeq(@, r.used + 1, Len(@))]
      a == DecodeAddress(d.cache, s.srclen + Len(d.out), type - XD3_CPY, d.addr)
  IN CASE type = XD3_NOOP -> d
       [] type = XD3_ADD -> [e EXCEPT !.out = @ \o SubSeq(d.data, 1, size),
                                      !.data = SubSeq(@, size + 1, Len(@))]
       [] type = XD3_RUN -> [e EXCEPT !.out = @ \o [k \in 1 .. size |-> d.data[1]],
                                      !.data = Tail(@)]
       [] OTHER -> [e EXCEPT !.out = @ \o CopyFrom(s, d.out, a.val, size),
                             !.addr = SubSeq(@, a.used + 1, Len(@)),
                             !.cache = UpdateCache(@, a.val)]

RECURSIVE Interpret(_, _)
Interpret(s, d) ==
  IF d.inst = <<>> THEN d
  ELSE LET i == Rfc3284Table[Head(d.inst)]
           first == Half1(s, [d EXCEPT !.inst = Tail(@)], i.type1, i.size1)
       IN Interpret(s, Half1(s, first, i.type2, i.size2))

Decoded(s) ==
  Interpret(s, [inst |-> s.enc.inst, data |-> s.enc.data, addr |-> s.enc.addr,
                cache |-> EncodeReset.acache, out |-> <<>>])

(* A window's three sections decode to its input and are used up by it:    *)
(* whatever matches were found, overlapped, were shortened, erased or      *)
(* interrupted, and wherever the source window was guessed to be.          *)
RoundTrip ==
  stream.enc_state \in {"ENC_POSTOUT", "ENC_POSTWIN"} =>
    LET d == Decoded(stream)
    IN d.out = stream.next_in /\ d.data = <<>> /\ d.addr = <<>>

(* Every instruction that waits in the buffer produces the bytes at its    *)
(* position, and both ends of the instructions grow: no match is covered   *)
(* by an earlier or a later one.  The buffer never runs out of slots.      *)
Produces(i) ==
  LET bytes == SubSeq(stream.next_in, i.pos + 1, End(i))
  IN IF i.type = XD3_RUN THEN \A k \in DOMAIN bytes : bytes[k] = i.xtra
     ELSE IF i.xtra THEN bytes = SubSeq(fsource, i.addr + 1, i.addr + i.size)
     ELSE i.addr < i.pos /\ bytes = SubSeq(stream.next_in, i.addr + 1, i.addr + i.size)

BufferSound ==
  LET used == stream.used
  IN /\ \A k \in DOMAIN used : used[k].pos >= stream.enc.unencoded /\ Produces(used[k])
     /\ \A k \in 1 .. Len(used) - 1 :
          used[k].pos < used[k + 1].pos /\ End(used[k]) < End(used[k + 1])
     /\ FreeSlots(stream) >= 0

(* The checks of a debug build: what moved on byte by byte is what a       *)
(* computation at the input position gives.                                *)
Searching(pcs) == pc = "process" /\ stream.enc_state = "ENC_SEARCH" /\ loop.pc \in pcs
LoopStateFresh ==
  /\ Searching({"run", "large", "small"}) => loop.scksum = Scksum(Inp(stream, SLOOK))
  /\ Searching({"run"}) =>
       LET four == Inp(stream, SLOOK)
       IN loop.run_c = four[SLOOK] /\ (loop.run_l <= SLOOK => loop.run_l = Comprun(four))
  /\ Searching({"run", "large"}) /\ stream.hasSource /\ Enough(stream, LLOOK) =>
       loop.lcksum = Lcksum(Inp(stream, LLOOK))

(* What the encoder has learned of the source is true, and its index       *)
(* points to source positions of the bucket's checksum, none of them       *)
(* beyond the position up to which it is indexed.                          *)
SourceKnown ==
  stream.hasSource =>
    /\ source.eof_known => SourceEof(source) = Len(fsource)
    /\ source.frontier_blkno * source.blksize <= Len(fsource) + source.blksize
    /\ stream.match_srcpos <= Len(fsource) /\ stream.maxsrcaddr <= Len(fsource)
    /\ \A b \in DOMAIN stream.large_table :
         LET at == stream.large_table[b] - HASH_CKOFFSET
         IN at >= 0 => /\ at + LLOOK <= Len(fsource)
                       /\ at < stream.srcwin_cksum_pos
                       /\ ChecksumHash(stream.large_table,
                                       Lcksum(SubSeq(fsource, at + 1, at + LLOOK))) = b

(* No input is lost, repeated or reordered on its way through the buffers: *)
(* what the encoder was given is what it encoded and what it still holds.  *)
Held ==
  LET s == stream
  IN IF s.enc_state = "ENC_INPUT" /\ ret = "XD3_INPUT" THEN s.buf_in
     ELSE IF s.enc_state \in {"ENC_INIT", "ENC_INPUT"} THEN s.leftover \o s.buf_in \o s.next_in
     ELSE s.next_in \o s.leftover

InputInOrder ==
  LET encoded == stream.total_in - IF stream.enc_state = "ENC_POSTWIN" THEN AvailIn(stream) ELSE 0
  IN /\ Held = SubSeq(finput, encoded + 1, taken)
     /\ result = "ok" => encoded = Len(finput)

(* Whatever blocks the search asks for, and whichever the callback still   *)
(* has, it makes progress: the encoding of every input comes to its end,   *)
(* and succeeds.                                                           *)
Finishes == <>(result = "ok")
=============================================================================
