---------------------------- MODULE DeltaEncoder ----------------------------
(***************************************************************************)
(* xdelta3's streaming encoder, xd3_encode_input: it gathers a window of   *)
(* input, looks for runs, for copies from the source and for copies within *)
(* the window, keeps the instructions it finds in a buffer in which later  *)
(* matches may overlap or replace earlier ones, and writes the window when *)
(* the buffer is flushed for the last time.  It returns to its caller for  *)
(* input, with output, at the start and end of every window and, if the    *)
(* stream has no getblk callback, for a block of the source; then it       *)
(* starts its search anew from what the stream remembers.                  *)
(*                                                                         *)
(* One action is one case of its switch or one step of the matching loop,  *)
(* `loop' holds what is local to a call.  Positions count from 0.          *)
(***************************************************************************)
EXTENDS Vcdiff, Bitwise

CONSTANTS
  LLOOK, LSTEP,  \* the large checksum's length, and the distance of two
  SCHAIN, SLCHAIN, MAXLAZY, LONGENOUGH,
  HalfBits,      \* bits of one half of a large checksum: 16
  Multiplier,    \* hash_multiplier
  Elements,      \* instructions in a page of XD3_ALLOCSIZE
  FarFour, FarFive  \* distances too far for copies of 4 and 5: 2^14, 2^21

VARIABLES
  stream,  \* the encoder's half of xd3_stream
  source,  \* xd3_source; its curblk is a sequence of bytes
  loop,    \* the locals of string_match and of the functions it calls
  ret      \* what xd3_encode_input returned, "calling" while it runs

encoder == <<stream, source, loop, ret>>

SLOOK == 4
MIN_RUN == 8
HASH_CKOFFSET == 1
USIZE_MAX == Word - 1

Max2(a, b) == IF a > b THEN a ELSE b
Min2(a, b) == IF a < b THEN a ELSE b

-----------------------------------------------------------------------------
(* Checksums and the buckets of their tables. *)
SizeLog2(slots) ==
  LET above == {i \in 3 .. 28 : slots < 2 ^ i}
  IN IF above = {} THEN 28 ELSE Min(above) - 1
TableOfSize(slots) == [bucket \in 0 .. 2 ^ SizeLog2(slots) - 1 |-> 0]

ChecksumHash(table, cksum) ==
  LET bits == SizeLog2(Cardinality(DOMAIN table))
  IN (cksum \div 2 ^ (2 * HalfBits - bits)) ^^ (cksum % 2 ^ bits)

Half == 2 ^ HalfBits
Lcksum(seg) ==
  LET n == Len(seg)
  IN (Total([i \in 1 .. n |-> (n - i + 1) * seg[i]]) % Half) * Half + (Total(seg) % Half)

(* The checksum of the segment that begins one byte later. *)
LargeCksumUpdate(cksum, old, new) ==
  LET low == ((cksum % Half) - old + new) % Half
      high == ((cksum \div Half) - old * LLOOK + low) % Half
  IN high * Half + low

Scksum(four) ==
  ((four[1] + 2 ^ 8 * four[2] + 2 ^ 16 * four[3] + 2 ^ 24 * four[4]) * Multiplier) % Half ^ 2

(* The table keeps the low word of an offset; the rest follows from the    *)
(* position up to which the source is indexed.                             *)
CksumOffset(scp, low) ==
  LET high == scp \div Word
  IN low + Word * IF high > 0 /\ low > scp % Word THEN high - 1 ELSE high

-----------------------------------------------------------------------------
(* The stream as xd3_config_stream and xd3_set_source leave it.  slots is  *)
(* iopt_size; config says whether the buffer may grow, and more: getblk is *)
(* 0 if there is no such callback, else how many blocks it keeps.          *)
ConfigStream(config, src) ==
  [enc_state |-> "ENC_INIT", config |-> config, hasSource |-> src # <<>>, flush |-> FALSE,
   given |-> FALSE, next_in |-> <<>>, buf_in |-> <<>>, leftover |-> <<>>,
   total_in |-> 0, current_window |-> 0, out |-> <<>>, pages |-> <<>>,
   input_position |-> 0, min_match |-> 0, enc |-> EncodeReset,
   used |-> <<>>, slots |-> config.iopt_size,
   decided |-> FALSE, srcbase |-> 0, srclen |-> 0, taroff |-> 0,
   srcwin_cksum_pos |-> 0, maxsrcaddr |-> 0,
   match_state |-> "MATCH_TARGET", match_srcpos |-> 0, match_last_srcpos |-> 0,
   match_minaddr |-> 0, match_maxaddr |-> 0, match_back |-> 0, match_maxback |-> 0,
   match_fwd |-> 0, match_maxfwd |-> 0,
   large_table |-> <<>>, small_table |-> <<>>, small_prev |-> <<>>]

Loop(pc) == [pc |-> pc, from |-> "none", run_l |-> 0, run_c |-> 0, scksum |-> 0,
             lcksum |-> 0, next_move_point |-> 0, goal |-> 0]

AvailIn(s) == Len(s.next_in)
Inp(s, n) == SubSeq(s.next_in, s.input_position + 1, s.input_position + n)

-----------------------------------------------------------------------------
(* How a step ends: the call goes on, or returns. *)
Calling(state) == ret \in {"calling", "XD3_TOOFARBACK"} /\ stream.enc_state = state
Step(pc) == Calling("ENC_SEARCH") /\ loop.pc = pc
Go(s, l) == stream' = s /\ loop' = l /\ ret' = "calling"
GoTo(s, pc) == Go(s, [loop EXCEPT !.pc = pc])
Return(s, code) == stream' = s /\ loop' = Loop("enter") /\ ret' = code

(* loopnomore: the search is over. *)
NoMore(s) == GoTo([s EXCEPT !.enc_state = "ENC_INSTR"], "enter")

(* xd3_getblk: Then continues with the block, TooFar when the callback     *)
(* refuses to go back so far.                                              *)
HasBlock(blkno) == source.curblk # <<>> /\ blkno = source.curblkno

NeedBlock(blkno, Then(_), TooFar) ==
  IF ret = "XD3_TOOFARBACK" THEN TooFar /\ UNCHANGED source
  ELSE IF HasBlock(blkno)
  THEN source' = BlockKnown(source, blkno) /\ Then(BlockKnown(source, blkno))
  ELSE /\ source' = [source EXCEPT !.getblkno = blkno]
       /\ IF stream.config.getblk > 0 THEN ret' = "getblk" /\ UNCHANGED <<stream, loop>>
          ELSE Return(stream, "XD3_GETSRCBLK")

-----------------------------------------------------------------------------
(* The instruction buffer. *)
End(i) == i.pos + i.size
Shorten(i, n) == [i EXCEPT !.size = @ - n]
(* Mutant: a copy starts later, but not its address. *)
DelayPosition(i, n) == [i EXCEPT !.size = @ - n, !.pos = @ + n]

Delay(i, n) == [i EXCEPT !.size = @ - n, !.pos = @ + n, !.addr = @ + n]

(* Two instructions that overlap by some bytes are shortened to about the  *)
(* same size, but neither beyond what a short opcode takes.                *)
Split(r1, r2) ==
  LET gap == End(r2) - r1.pos
      newsize == Min2(MAX_MATCH_SPLIT, gap - (gap \div 2))
      overlap == End(r1) - r2.pos
      excess == r1.size - newsize
      cut == excess - Max2(0, r2.pos - (End(r1) - excess))
  IN IF newsize > r1.size THEN <<r1, Delay(r2, overlap)>>
     ELSE IF newsize > r2.size THEN <<Shorten(r1, overlap), r2>>
     ELSE <<Shorten(r1, cut), Delay(r2, overlap - cut)>>

(* The overlaps are removed from the front; without force the last two     *)
(* instructions wait for a third.                                          *)
RECURSIVE Resolve(_, _)
Resolve(used, force) ==
  IF Len(used) < 2 THEN used
  ELSE LET r1 == used[1]  r2 == used[2]  rest == SubSeq(used, 3, Len(used))
           almost == \/ End(r2) - r1.pos < 2 * MIN_MATCH
                     \/ End(r2) - End(r1) <= 2 \/ r2.pos - r1.pos <= 2
           both == Split(r1, r2)
       IN IF End(r1) <= r2.pos THEN <<r1>> \o Resolve(Tail(used), force)
          ELSE IF rest # <<>> /\ rest[1].pos <= End(r1) + 1
          THEN Resolve(<<r1>> \o rest, force)
          ELSE IF rest = <<>> /\ ~force THEN used
          ELSE IF almost /\ r1.size < r2.size THEN Resolve(Tail(used), force)
          ELSE IF almost THEN <<r1>> \o Resolve(rest, force)
          ELSE <<both[1]>> \o Resolve(<<both[2]>> \o rest, force)

(* xd3_srcwin_setup: the source window is decided when the first copy is   *)
(* encoded, exactly if no more copies can come, else by a guess.           *)
SrcwinSetup(s) ==
  LET last == s.enc_state = "ENC_INSTR"
      length == s.match_maxaddr - s.match_minaddr
      guess == Max2(length, AvailIn(s) + (AvailIn(s) \div 4))
      none == last /\ s.match_maxaddr = 0
      srclen == IF none THEN 0 ELSE IF last THEN length ELSE guess
  IN [s EXCEPT !.decided = TRUE, !.srcbase = IF none THEN 0 ELSE s.match_minaddr,
               !.srclen = srclen, !.taroff = srclen]

EncodeInstruction(s, i) ==
  LET d == IF i.type = XD3_CPY /\ s.hasSource /\ ~s.decided THEN SrcwinSetup(s) ELSE s
  IN [d EXCEPT !.enc = AddEncoding(@, i, d.next_in, d.srcbase, d.taroff)]

(* Everything is encoded if forced; else more than half of the buffer, but *)
(* the last two instructions wait.                                         *)
RECURSIVE Drain(_, _, _)
Drain(s, flushed, force) ==
  IF \/ s.used = <<>>
     \/ ~force /\ flushed > 0 /\ (flushed > s.slots \div 2 \/ Len(s.used) < 3)
  THEN s
  ELSE Drain(EncodeInstruction([s EXCEPT !.used = Tail(@)], Head(s.used)), flushed + 1, force)

FlushInstructions(s, force) ==
  Drain([s EXCEPT !.used = Resolve(@, force)], 0, force)

(* The instruction held back for a pair keeps its slot. *)
FreeSlots(s) == s.slots - Len(s.used) - IF s.enc.iout = NoInst THEN 0 ELSE 1

GetSlot(s, i) ==
  [(IF FreeSlots(s) > 0 THEN s
    ELSE IF s.config.unlimited THEN [s EXCEPT !.slots = @ + Elements]
    ELSE FlushInstructions(s, FALSE)) EXCEPT !.used = Append(@, i)]

LastMatched(s) == IF s.used = <<>> THEN 0 ELSE End(s.used[Len(s.used)])

(* Mutant: what the new match covers stays. *)
EraseNothing(used, pos) == used

(* A match that extends backwards to pos covers what begins there. *)
Erase(used, pos) ==
  SubSeq(used, 1, Max({0} \cup {k \in DOMAIN used : used[k].pos < pos}))

FoundMatch(s, pos, size, addr, is_source) ==
  GetSlot(s, [type |-> XD3_CPY, xtra |-> is_source, pos |-> pos, size |-> size, addr |-> addr])

EmitRun(s, size, run_c) ==
  GetSlot(s, [type |-> XD3_RUN, xtra |-> run_c, pos |-> s.input_position,
              size |-> size, addr |-> 0])

-----------------------------------------------------------------------------
(* ENC_INIT, ENC_INPUT: input that is short of a window, or left over from *)
(* the last one, goes through a buffer.                                    *)
EmptyTables(s) ==
  [s EXCEPT !.large_table = TableOfSize(IF s.hasSource THEN source.max_winsize \div LSTEP ELSE 0),
            !.small_table = TableOfSize(s.config.winsize),
            !.small_prev = [i \in 0 .. s.config.sprevsz - 1 |-> 0]]

EncInit ==
  /\ Calling("ENC_INIT")
  /\ GoTo([EmptyTables(stream) EXCEPT !.enc_state = "ENC_INPUT"], "enter")
  /\ UNCHANGED source

(* Mutant: input is buffered before what was left over. *)
BufferedFirst(s) ==
  LET have == s.buf_in
      take == Min2(s.config.winsize - Len(have), AvailIn(s))
  IN [s EXCEPT !.buf_in = have \o SubSeq(s.next_in, 1, take),
               !.leftover = SubSeq(s.next_in, take + 1, AvailIn(s))]

Buffered(s) ==
  LET have == IF s.leftover # <<>> THEN s.leftover ELSE s.buf_in
      take == Min2(s.config.winsize - Len(have), AvailIn(s))
  IN [s EXCEPT !.buf_in = have \o SubSeq(s.next_in, 1, take),
               !.leftover = SubSeq(s.next_in, take + 1, AvailIn(s))]

Unbuffered(s) == [s EXCEPT !.next_in = s.buf_in, !.buf_in = <<>>]

WinStart(s) ==
  Return([s EXCEPT !.enc_state = "ENC_SEARCH", !.input_position = 0,
                   !.min_match = MIN_MATCH, !.enc = EncodeReset], "XD3_WINSTART")

EncInput ==
  LET s == stream
      b == Buffered(s)
      short == AvailIn(s) < s.config.winsize /\ ~s.flush
  IN /\ Calling("ENC_INPUT")
     /\ IF ~s.given THEN Return(s, "XD3_INPUT")
        ELSE IF s.leftover = <<>> /\ s.buf_in = <<>> /\ ~short THEN WinStart(s)
        ELSE IF b.leftover = <<>> /\ Len(b.buf_in) < s.config.winsize /\ ~s.flush
        THEN Return(b, "XD3_INPUT")
        ELSE WinStart(Unbuffered(b))
     /\ UNCHANGED source

-----------------------------------------------------------------------------
(* Source matches: match_back and match_fwd grow block by block around a   *)
(* pair of positions, and survive a return to the caller.                  *)

(* Mutant: the same source position is tried again. *)
LoopingNever(s, srcpos) == FALSE

Looping(s, srcpos) == srcpos # 0 /\ srcpos = s.match_last_srcpos

TooFarForWindow(srcpos) ==
  source.frontier_blkno * source.blksize - srcpos > source.max_winsize

OutsideWindow(s, srcpos) ==
  s.decided /\ srcpos \notin s.srcbase .. s.srcbase + s.srclen

(* How far the source lets a match go, back and forward. *)
SourceRoom(s, srcpos) ==
  IF s.decided THEN <<srcpos - s.srcbase, s.srcbase + s.srclen - srcpos>>
  ELSE <<srcpos, IF source.eof_known THEN SourceEof(source) - srcpos ELSE USIZE_MAX>>

MatchSetup(s, srcpos) ==
  LET clear == [s EXCEPT !.match_back = 0, !.match_maxback = 0,
                         !.match_fwd = 0, !.match_maxfwd = 0]
      room == SourceRoom(s, srcpos)
  IN IF Looping(s, srcpos) \/ TooFarForWindow(srcpos) \/ OutsideWindow(s, srcpos)
     THEN [clear EXCEPT !.match_state = "MATCH_SEARCHING"]
     ELSE [clear EXCEPT
             !.match_maxback = Min2(s.input_position - s.enc.unencoded, room[1]),
             !.match_maxfwd = Min2(AvailIn(s) - s.input_position, room[2]),
             !.match_state = "MATCH_BACKWARD",
             !.match_srcpos = srcpos, !.match_last_srcpos = srcpos]

(* Entering ENC_SEARCH: a match that was interrupted goes on; at the start *)
(* of a window one is tried where the last window's match ended.           *)
EncSearch ==
  LET target == stream.match_state = "MATCH_TARGET"
      s == IF ~target \/ ~stream.hasSource THEN stream
           ELSE IF AvailIn(stream) = 0
           THEN [stream EXCEPT !.match_state = "MATCH_SEARCHING", !.match_fwd = 0]
           ELSE [MatchSetup(stream, stream.match_srcpos) EXCEPT !.match_state = "MATCH_FORWARD"]
      l == [loop EXCEPT !.from = "encode_input"]
  IN /\ Step("enter")
     /\ Go(s, [l EXCEPT !.pc =
                 IF ~s.hasSource \/ AvailIn(s) = 0 \/ s.match_state = "MATCH_SEARCHING"
                 THEN "start"
                 ELSE IF s.match_state = "MATCH_BACKWARD" THEN "back" ELSE "forward"])
     /\ UNCHANGED source

(* How many of the first n pairs of bytes are equal. *)
Matching(n, Same(_)) == Max({k \in 0 .. n : \A j \in 1 .. k : Same(j)})

ExtendBackward ==
  LET s == stream
      off == s.match_srcpos - s.match_back
      pos == s.input_position - s.match_back
      blkno == (off - 1) \div source.blksize
      tryoff == off - blkno * source.blksize
      n == Min2(tryoff, s.match_maxback - s.match_back)
      Forward(t) == GoTo([t EXCEPT !.match_state = "MATCH_FORWARD"], "forward")
      Compare(src) ==
        LET k == Matching(n, LAMBDA j : src.curblk[tryoff - j + 1] = s.next_in[pos - j + 1])
            t == [s EXCEPT !.match_back = @ + k]
        IN IF k < n THEN Forward(t) ELSE GoTo(t, "back")
  IN /\ Step("back")
     /\ IF s.match_back >= s.match_maxback THEN Forward(s) /\ UNCHANGED source
        ELSE NeedBlock(blkno, Compare, Forward(s))

ExtendForward ==
  LET s == stream
      off == s.match_srcpos + s.match_fwd
      pos == s.input_position + s.match_fwd
      tryoff == off % source.blksize
      Compare(src) ==
        LET n == Min2(s.match_maxfwd - s.match_fwd, src.onblk - tryoff)
            k == Matching(n, LAMBDA j : src.curblk[tryoff + j] = s.next_in[pos + j])
        IN GoTo([s EXCEPT !.match_fwd = @ + k], IF n = 0 \/ k < n THEN "extended" ELSE "forward")
  IN /\ Step("forward")
     /\ IF s.match_fwd >= s.match_maxfwd THEN GoTo(s, "extended") /\ UNCHANGED source
        ELSE NeedBlock(off \div source.blksize, Compare, GoTo(s, "extended"))

(* The match is taken; one that reaches the end of the window goes on in   *)
(* the next.                                                               *)
TakeMatch(s) ==
  LET pos == s.input_position - s.match_back
      addr == s.match_srcpos - s.match_back
      end == s.match_srcpos + s.match_fwd
      last == s.input_position + s.match_fwd = AvailIn(s)
  IN FoundMatch([s EXCEPT
       !.used = IF s.match_back > 0 THEN Erase(@, pos) ELSE @,
       !.match_back = 0,
       !.match_minaddr = IF s.match_maxaddr = 0 THEN addr ELSE Min2(@, addr),
       !.match_maxaddr = Max2(@, end),
       !.maxsrcaddr = Max2(@, end),
       !.match_state = IF last THEN "MATCH_TARGET" ELSE @,
       !.match_srcpos = IF last THEN end ELSE @],
       pos, s.match_back + s.match_fwd, addr, TRUE)

(* HANDLELAZY: a short match is followed by a search at the next position. *)
HandleLazy(s, l, mlen) ==
  IF MAXLAZY > 0 /\ mlen < MAXLAZY /\ s.input_position + mlen <= AvailIn(s) - 2
  THEN Go([s EXCEPT !.min_match = mlen], [l EXCEPT !.pc = "update"])
  ELSE Go([s EXCEPT !.input_position = @ + mlen], [l EXCEPT !.pc = "restart"])

AfterMatch(s) ==
  IF loop.from = "encode_input"
  THEN GoTo([s EXCEPT !.input_position = @ + s.match_fwd], "start")
  ELSE IF s.match_fwd > 0 THEN HandleLazy(s, loop, s.match_fwd)
  ELSE GoTo(s, "small")

ExtendMatch ==
  LET s == [stream EXCEPT !.match_state = "MATCH_SEARCHING"]
  IN /\ Step("extended")
     /\ AfterMatch(IF s.match_fwd < s.min_match THEN [s EXCEPT !.match_fwd = 0] ELSE TakeMatch(s))
     /\ UNCHANGED source

-----------------------------------------------------------------------------
(* xd3_srcwin_move_point: the source is indexed ahead of the input, whole  *)
(* blocks at a time, from the end of each block to its start.              *)
Await(s, next, pc) == Go(s, [loop EXCEPT !.next_move_point = next, !.pc = pc])
Moved == IF loop.from = "restart" THEN "moved" ELSE "large"

MovePoint ==
  LET s == stream
      pos == s.total_in + s.input_position
      logical == Min2(pos * 2, pos + (source.max_winsize \div 2))
      start == Max2(s.srcwin_cksum_pos, s.maxsrcaddr)
  IN /\ Step("move")
     /\ IF source.eof_known /\ s.srcwin_cksum_pos = SourceEof(source)
        THEN Await(s, USIZE_MAX, Moved)
        ELSE IF s.srcwin_cksum_pos > logical
        THEN Await(s, s.input_position + (s.srcwin_cksum_pos - logical), Moved)
        ELSE Go([s EXCEPT !.srcwin_cksum_pos = start],
                [loop EXCEPT !.goal = Max2(logical, start) + source.blksize, !.pc = "insert"])
     /\ UNCHANGED source

(* Mutant: the buffer is taken for the block that is in it. *)
BytesOnSrcblkFull(src, blkno) == Len(src.curblk)

BytesOnSrcblk(src, blkno) == IF blkno = src.max_blkno THEN src.onlastblk ELSE src.blksize

(* The checksums of a block that has n bytes, those before oldpos apart;   *)
(* in a bucket the earliest position stays.                                *)
Indexed(table, src, blkno, n, oldpos) ==
  LET top == n - LLOOK
      points == {p \in oldpos .. top : (top - p) % LSTEP = 0} \cup {top}
      Bucket(p) == ChecksumHash(table, Lcksum(SubSeq(src.curblk, p + 1, p + LLOOK)))
      at == [p \in points |-> Bucket(p)]
  IN [b \in DOMAIN table |->
        LET here == {p \in points : at[p] = b}
        IN IF here = {} THEN table[b]
           ELSE (src.blksize * blkno + Min(here) + HASH_CKOFFSET) % Word]

MoreToIndex(s) ==
  /\ s.srcwin_cksum_pos < loop.goal
  /\ ~source.eof_known \/ s.srcwin_cksum_pos < SourceEof(source)

InsertBlock ==
  LET s == stream
      blkno == s.srcwin_cksum_pos \div source.blksize
      Insert(src) ==
        LET n == BytesOnSrcblk(src, blkno)
            t == [s EXCEPT !.srcwin_cksum_pos = (blkno + 1) * src.blksize]
        IN IF n < LLOOK THEN GoTo(t, "insert")
           ELSE GoTo([t EXCEPT !.large_table =
                        Indexed(@, src, blkno, n, s.srcwin_cksum_pos % src.blksize)], "insert")
  IN /\ Step("insert") /\ MoreToIndex(s)
     /\ NeedBlock(blkno, Insert, Return(s, "XD3_INTERNAL"))

InsertEnds ==
  LET s == stream
      eof == SourceEof(source)
  IN /\ Step("insert") /\ ~MoreToIndex(s)
     /\ IF source.eof_known /\ s.srcwin_cksum_pos >= eof
        THEN Await([s EXCEPT !.srcwin_cksum_pos = eof], USIZE_MAX, Moved)
        ELSE Await(s, s.input_position + 1 + (s.srcwin_cksum_pos - loop.goal), Moved)
     /\ UNCHANGED source

-----------------------------------------------------------------------------
(* xd3_string_match: at every position a run, a source match and a target  *)
(* match are tried in turn.                                                *)
Enough(s, n) == s.input_position + n <= AvailIn(s)

(* Each window begins with an empty table of its own positions. *)
StringMatch ==
  /\ Step("start")
  /\ IF Enough(stream, SLOOK) THEN GoTo(stream, "restart") ELSE NoMore(stream)
  /\ UNCHANGED source

(* Mutant: the run before the restart is remembered. *)
RunStateKept(four) == [length |-> loop.run_l, byte |-> loop.run_c]

RunState(four) == [length |-> Comprun(four), byte |-> four[SLOOK]]

RestartLoop ==
  LET s == [stream EXCEPT !.min_match =
              Max2(MIN_MATCH, 1 + LastMatched(stream) - stream.input_position)]
      four == Inp(s, SLOOK)
      l == [loop EXCEPT !.run_l = RunState(four).length, !.run_c = RunState(four).byte,
                        !.scksum = Scksum(four), !.from = "restart"]
  IN /\ Step("restart")
     /\ IF ~Enough(stream, SLOOK) THEN NoMore(stream)
        ELSE Go(s, [l EXCEPT !.pc = IF s.hasSource /\ Enough(s, LLOOK) THEN "move" ELSE "run"])
     /\ UNCHANGED source

LargeState ==
  /\ Step("moved")
  /\ Go(stream, [loop EXCEPT !.lcksum = Lcksum(Inp(stream, LLOOK)), !.pc = "run"])
  /\ UNCHANGED source

TryRun ==
  LET s == stream
      length == Matching(AvailIn(s) - s.input_position,
                         LAMBDA j : s.next_in[s.input_position + j] = loop.run_c)
      l == [loop EXCEPT !.run_l = length]
  IN /\ Step("run")
     /\ IF loop.run_l # SLOOK THEN GoTo(s, "large")
        ELSE IF length >= s.min_match /\ length >= MIN_RUN
        THEN HandleLazy(EmitRun(s, length, loop.run_c), l, length)
        ELSE Go(s, [l EXCEPT !.pc = "large"])
     /\ UNCHANGED source

TryLarge ==
  LET s == stream
      low == s.large_table[ChecksumHash(s.large_table, loop.lcksum)]
      m == MatchSetup(s, CksumOffset(s.srcwin_cksum_pos, low - HASH_CKOFFSET))
      l == [loop EXCEPT !.from = "large"]
  IN /\ Step("large")
     /\ IF ~s.hasSource \/ ~Enough(s, LLOOK) THEN GoTo(s, "small")
        ELSE IF s.input_position >= loop.next_move_point THEN Go(s, [l EXCEPT !.pc = "move"])
        ELSE IF low = 0 THEN GoTo(s, "small")
        ELSE Go(m, [l EXCEPT !.pc = IF m.match_state = "MATCH_BACKWARD" THEN "back" ELSE "small"])
     /\ UNCHANGED source

(* xd3_smatch: the chain of earlier positions of the same bucket, until    *)
(* one is long enough or the chain is.                                     *)
Maintains == SCHAIN > 1 \/ SLCHAIN > 1

RECURSIVE Smatch(_, _, _, _)
Smatch(s, base, chain, best) ==
  LET room == AvailIn(s) - s.input_position
      len == Matching(room, LAMBDA j : s.next_in[s.input_position + j] = s.next_in[base + j])
      now == IF len > best.len THEN [len |-> len, offset |-> base] ELSE best
      prev == s.small_prev[base % s.config.sprevsz] - HASH_CKOFFSET
  IN IF \/ len > best.len /\ (len = room \/ len >= LONGENOUGH)
        \/ chain = 1 \/ prev < 0 \/ prev > base
        \/ s.input_position - prev >= s.config.sprevsz
     THEN now
     ELSE Smatch(s, prev, chain - 1, now)

Efficient(m, pos) ==
  /\ m.len = 4 => pos - m.offset < FarFour
  /\ m.len = 5 => pos - m.offset < FarFive

Inserted(s, bucket) ==
  [s EXCEPT !.small_prev = IF Maintains
                           THEN [@ EXCEPT ![s.input_position % s.config.sprevsz]
                                   = s.small_table[bucket]] ELSE @,
            !.small_table[bucket] = s.input_position + HASH_CKOFFSET]

(* A position without a match: the next may take a shorter one again. *)
Unmatched(s) == GoTo([s EXCEPT !.min_match = Max2(MIN_MATCH, @ - 1)], "update")

TrySmall ==
  LET s == stream
      bucket == ChecksumHash(s.small_table, loop.scksum)
      none == [len |-> 0, offset |-> 0]
      chain == IF s.min_match = MIN_MATCH THEN SCHAIN ELSE SLCHAIN
      found == IF s.small_table[bucket] = 0 THEN none
               ELSE Smatch(s, s.small_table[bucket] - HASH_CKOFFSET, chain, none)
      m == IF Efficient(found, s.input_position) THEN found ELSE none
      t == Inserted(s, bucket)
  IN /\ Step("small")
     /\ IF s.config.nocompress THEN Unmatched(s)
        ELSE IF m.len < s.min_match THEN Unmatched(t)
        ELSE HandleLazy(FoundMatch(t, s.input_position, m.len, m.offset, FALSE), loop, m.len)
     /\ UNCHANGED source

(* updateone: every checksum moves on by one byte. *)
UpdateOne ==
  LET s == stream
      new == s.next_in[s.input_position + SLOOK + 1]
      same == new = loop.run_c
      l == [loop EXCEPT !.pc = "run",
              !.run_l = IF same THEN @ + 1 ELSE 1, !.run_c = new,
              !.scksum = Scksum(Tail(Inp(s, SLOOK + 1))),
              !.lcksum = IF s.hasSource /\ s.input_position + LLOOK < AvailIn(s)
                         THEN LargeCksumUpdate(@, Inp(s, 1)[1],
                                               s.next_in[s.input_position + LLOOK + 1])
                         ELSE @]
  IN /\ Step("update")
     /\ IF s.input_position + SLOOK = AvailIn(s) THEN NoMore(s)
        ELSE Go([s EXCEPT !.input_position = @ + 1], l)
     /\ UNCHANGED source

-----------------------------------------------------------------------------
(* ENC_INSTR to ENC_POSTWIN: the buffer is emptied and the window goes out *)
(* page by page.                                                           *)
EncInstr ==
  /\ Calling("ENC_INSTR")
  /\ GoTo([FlushInstructions(stream, TRUE) EXCEPT
             !.enc = AddFinalize(@, stream.next_in), !.enc_state = "ENC_FLUSH"], "enter")
  /\ UNCHANGED source

UsedSource(s) == s.hasSource /\ s.srclen > 0

Header(s) ==
  (IF s.current_window = 0 THEN FileHeader(s.config.appheader) ELSE <<>>)
    \o WindowHeader(IF UsedSource(s) THEN <<s.srclen, s.srcbase>> ELSE <<>>,
                    s.next_in, s.enc, s.config.adler32)

EncFlush ==
  /\ Calling("ENC_FLUSH")
  /\ Return([stream EXCEPT
       !.enc_state = "ENC_POSTOUT", !.out = Header(stream),
       !.pages = SelectSeq(<<stream.enc.data, stream.enc.inst, stream.enc.addr>>,
                           LAMBDA page : page # <<>>)], "XD3_OUTPUT")
  /\ UNCHANGED source

EncPostout ==
  LET s == stream
  IN /\ Calling("ENC_POSTOUT")
     /\ IF s.out # <<>> THEN Return(s, "XD3_INTERNAL")
        ELSE IF s.pages # <<>>
        THEN Return([s EXCEPT !.out = Head(s.pages), !.pages = Tail(@)], "XD3_OUTPUT")
        ELSE Return([s EXCEPT !.enc_state = "ENC_POSTWIN", !.total_in = @ + AvailIn(s)],
                    "XD3_WINFINISH")
     /\ UNCHANGED source

ResetWindow(s) ==
  [s EXCEPT !.next_in = <<>>, !.small_table = [b \in DOMAIN @ |-> 0],
            !.decided = FALSE, !.srcbase = 0, !.srclen = 0, !.taroff = 0,
            !.match_minaddr = 0, !.match_maxaddr = 0]

NextWindow(s) ==
  [ResetWindow(s) EXCEPT !.current_window = @ + 1, !.enc_state = "ENC_INPUT"]

EncPostwin ==
  /\ Calling("ENC_POSTWIN")
  /\ IF stream.leftover # <<>> THEN GoTo(NextWindow(stream), "enter")
     ELSE Return(NextWindow(stream), "XD3_INPUT")
  /\ UNCHANGED source

-----------------------------------------------------------------------------
EncodeWindow == EncInit \/ EncInput \/ EncInstr \/ EncFlush \/ EncPostout \/ EncPostwin
EncodeSearch ==
  \/ EncSearch \/ ExtendBackward \/ ExtendForward \/ ExtendMatch
  \/ MovePoint \/ InsertBlock \/ InsertEnds
  \/ StringMatch \/ RestartLoop \/ LargeState \/ TryRun \/ TryLarge \/ TrySmall \/ UpdateOne

EncodeInput == EncodeWindow \/ EncodeSearch

(* xd3_avail_input, xd3_consume_output. *)
AvailInput(s, bytes) == [s EXCEPT !.given = TRUE, !.next_in = bytes]
Consumed(s) == [s EXCEPT !.out = <<>>]

(* xd3_close_stream accepts an encoder that has no input left; one whose   *)
(* last window was not reset is reset.                                     *)
Closed(s) == IF s.enc_state = "ENC_POSTWIN" THEN NextWindow(s) ELSE s
CloseAccepts(s) ==
  \/ s.enc_state = "ENC_INIT"
  \/ s.leftover = <<>> /\ Closed(s).enc_state = "ENC_INPUT" /\ Closed(s).next_in = <<>>
=============================================================================
