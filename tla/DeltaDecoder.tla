---------------------------- MODULE DeltaDecoder ----------------------------
(***************************************************************************)
(* xdelta3's streaming decoder, xd3_decode_input: a state machine fed with *)
(* the delta in chunks, which returns to its caller for more input, for a  *)
(* block of the source, with the output of a window, and at the start and  *)
(* end of every window.  One action is one case of its switch, or one      *)
(* instruction of the emit loop; the cases fall through while `ret' is     *)
(* "calling".  The caller is another module, which sets `ret' to           *)
(* "calling", fills ibuf and takes the output.                             *)
(*                                                                         *)
(* Sections that a chunk holds completely are not copied: they stay        *)
(* references into the caller's buffer, ibuf, until the window is done.    *)
(* Secondary compression is not compiled in.                               *)
(*                                                                         *)
(* Sums of sizes are those of usize_t's, modulo Word.  What lies beyond    *)
(* the end of a buffer, or in one that was freed, is not modelled: `ret'   *)
(* becomes "undefined" where the code would read or write there, and       *)
(* nothing is said of what follows.                                        *)
(***************************************************************************)
EXTENDS Vcdiff

CONSTANTS
  HardMaxWinsize,  \* XD3_HARDMAXWINSIZE
  AllocSize,       \* XD3_ALLOCSIZE, what buffers are rounded up to
  HasGetblk,       \* has the stream a getblk callback?
  Tables           \* the code-table string that code-table data decodes to, if any

ASSUME DecoderAssumption ==
  HardMaxWinsize \in Nat /\ AllocSize \in Nat \ {0} /\ HardMaxWinsize + AllocSize <= Word
ASSUME TablesAssumption == \A data \in DOMAIN Tables : Tables[data] \in Seq(0 .. 255)

VARIABLES
  stream,  \* the decoder's half of xd3_stream
  source,  \* xd3_source; its curblk is a sequence of bytes
  ibuf,    \* the chunk next_in points into
  at,      \* how much of it is consumed
  ret      \* what xd3_decode_input returned, "calling" while it runs

decoder == <<stream, source, ibuf, at, ret>>

(* The buffers a stream knows, by address; a freed one may be given out    *)
(* again.                                                                  *)
NULL == 0

Section == [size |-> 0, pos |-> 0, ref |-> -1, copied |-> <<>>, alloc1 |-> 0, read |-> 0]
NoHalf == [type |-> XD3_NOOP, size |-> 0, addr |-> 0]
Sections == {"data_sect", "inst_sect", "addr_sect"}

(* xd3_config_stream clears the stream. *)
ConfigStream(flags) ==
  [dec_state |-> "DEC_VCHEAD", flags |-> flags, hasSource |-> FALSE,
   magic |-> <<>>, hdr_ind |-> 0, codetblsz |-> 0, codetbl |-> <<>>,
   s_near |-> 0, s_same |-> 0, acache |-> InitCache(0, 0),
   appheadsz |-> 0, appheader |-> <<>>, part32 |-> 0, part64 |-> 0,
   win_ind |-> 0, del_ind |-> 0, cpylen |-> 0, cpyoff |-> 0, enclen |-> 0,
   tgtlen |-> 0, maxpos |-> 0, position |-> 0, cksum |-> <<>>, winbytes |-> 0,
   data_sect |-> Section, inst_sect |-> Section, addr_sect |-> Section,
   current1 |-> NoHalf, current2 |-> NoHalf, out |-> <<>>, total_out |-> 0,
   next_out |-> NULL, space_out |-> 0, dec_buffer |-> NULL, dec_alloc |-> 0,
   lastwin |-> NULL, lastspace |-> 0,
   window_count |-> 0, current_window |-> 0, winstart |-> 0, laststart |-> 0]

-----------------------------------------------------------------------------
(* How a case ends: it goes on with another stream, or returns. *)
Case(s) == ret = "calling" /\ stream.dec_state = s
Goto(s) == stream' = s /\ UNCHANGED ret
Return(s, code) == stream' = s /\ ret' = code
Refuse == Return(stream, "XD3_INVALID_INPUT")
Undefined == Return(stream, "undefined")
At(s, state) == [s EXCEPT !.dec_state = state]

Remaining == SubSeq(ibuf, at + 1, Len(ibuf))
AvailIn == Len(ibuf) - at

(* xd3_decode_byte, _bytes, _size and _offset: Then continues the case. *)
DecodeByte(Then(_)) ==
  IF AvailIn = 0 THEN Return(stream, "XD3_INPUT") /\ UNCHANGED at
  ELSE at' = at + 1 /\ Then(ibuf[at + 1])

DecodeBytes(f, size, Then(_)) ==
  LET want == size - Len(stream[f])
      take == Min({want, AvailIn})
      s == [stream EXCEPT ![f] = @ \o SubSeq(ibuf, at + 1, at + take)]
  IN /\ at' = at + take
     /\ IF take < want THEN Return(s, "XD3_INPUT") ELSE Then(s)

DecodeNumber(f, word, Then(_, _)) ==
  LET r == DecodeInteger(stream[f], Remaining, word)
      s == [stream EXCEPT ![f] = r.part]
  IN /\ at' = at + r.used
     /\ IF r.ret = "ok" THEN Then(s, r.val) ELSE Return(s, r.ret)

(* SIZE_CASE, OFFSET_CASE: the field is read only when it is there. *)
NumberCase(state, present, part, word, Then(_, _), Absent) ==
  /\ Case(state)
  /\ IF present THEN DecodeNumber(part, word, Then) ELSE Absent /\ UNCHANGED at
  /\ UNCHANGED <<source, ibuf>>

SizeCase(state, f, nstate) ==
  NumberCase(state, TRUE, "part32", Word,
             LAMBDA s, v : Goto([At(s, nstate) EXCEPT ![f] = v]), FALSE)

SectionSizeCase(state, f, nstate) ==
  NumberCase(state, TRUE, "part32", Word,
             LAMBDA s, v : Goto([At(s, nstate) EXCEPT ![f].size = v]), FALSE)

-----------------------------------------------------------------------------
(* The file's header. *)
HasTable == Bit(stream.hdr_ind, VCD_CODETABLE)
HasAppheader == Bit(stream.hdr_ind, VCD_APPHEADER)

DecVcHead ==
  /\ Case("DEC_VCHEAD")
  /\ DecodeBytes("magic", 4,
       LAMBDA s : IF s.magic # Magic THEN Return(s, "XD3_INVALID_INPUT")
                  ELSE Goto(At(s, "DEC_HDRIND")))
  /\ UNCHANGED <<source, ibuf>>

DecHdrInd ==
  /\ Case("DEC_HDRIND")
  /\ DecodeByte(LAMBDA b :
       IF b > VCD_SECONDARY + VCD_CODETABLE + VCD_APPHEADER THEN Refuse
       ELSE Goto([At(stream, "DEC_SECONDID") EXCEPT !.hdr_ind = b]))
  /\ UNCHANGED <<source, ibuf>>

(* No secondary compressor is available, whatever its ID. *)
DecSecondId ==
  /\ Case("DEC_SECONDID")
  /\ IF Bit(stream.hdr_ind, VCD_SECONDARY)
     THEN DecodeByte(LAMBDA id :
            Return(At(stream, "DEC_TABLEN"),
                   IF id \in {1, 2, 16} THEN "XD3_INTERNAL" ELSE "XD3_INVALID_INPUT"))
     ELSE Goto(At(stream, "DEC_TABLEN")) /\ UNCHANGED at
  /\ UNCHANGED <<source, ibuf>>

DecTabLen ==
  NumberCase("DEC_TABLEN", HasTable, "part32", Word,
    LAMBDA s, v : IF v <= 2 THEN Return(s, "ENOMEM")
                  ELSE Goto([At(s, "DEC_NEAR") EXCEPT !.codetblsz = v - 2]),
    Goto(At(stream, "DEC_NEAR")))

ModesCase(state, f, nstate) ==
  /\ Case(state)
  /\ IF HasTable
     THEN DecodeByte(LAMBDA b : Goto([At(stream, nstate) EXCEPT ![f] = b]))
     ELSE Goto(At(stream, nstate)) /\ UNCHANGED at
  /\ UNCHANGED <<source, ibuf>>

DecNear == ModesCase("DEC_NEAR", "s_near", "DEC_SAME")
DecSame == ModesCase("DEC_SAME", "s_same", "DEC_TABDAT")

(* xd3_apply_table_encoding decodes the table's own delta. *)
TableString(data) == IF data \in DOMAIN Tables THEN Tables[data] ELSE <<>>

DecTabDat ==
  /\ Case("DEC_TABDAT")
  /\ IF HasTable
     THEN DecodeBytes("codetbl", stream.codetblsz, LAMBDA s :
            IF /\ Len(TableString(s.codetbl)) = 6 * 256
               /\ TableStringValid(TableString(s.codetbl), 2 + s.s_near + s.s_same)
            THEN Goto(At(s, "DEC_APPLEN"))
            ELSE Return(s, "XD3_INTERNAL"))
     ELSE /\ Goto([At(stream, "DEC_APPLEN") EXCEPT
                     !.s_near = Rfc3284Desc.near_modes, !.s_same = Rfc3284Desc.same_modes])
          /\ UNCHANGED at
  /\ UNCHANGED <<source, ibuf>>

CodeTable == IF HasTable THEN ApplyTableString(TableString(stream.codetbl)) ELSE Rfc3284Table

DecAppLen ==
  NumberCase("DEC_APPLEN", HasAppheader, "part32", Word,
             LAMBDA s, v : Goto([At(s, "DEC_APPDAT") EXCEPT !.appheadsz = v]),
             Goto(At(stream, "DEC_APPDAT")))

DecAppDat ==
  /\ Case("DEC_APPDAT")
  /\ IF HasAppheader
     THEN DecodeBytes("appheader", stream.appheadsz, LAMBDA s : Goto(At(s, "DEC_WININD")))
     ELSE Goto(At(stream, "DEC_WININD")) /\ UNCHANGED at
  /\ UNCHANGED <<source, ibuf>>

-----------------------------------------------------------------------------
(* A window's header.  A copy window has a length and an offset when the   *)
(* indicator says source or target, not both.                              *)
SrcOrTgt == Bit(stream.win_ind, VCD_SOURCE) # Bit(stream.win_ind, VCD_TARGET)

InitWindow(s) ==
  [s EXCEPT !.cpylen = 0, !.cpyoff = 0, !.cksum = <<>>,
            !.acache = InitCache(s.s_near, s.s_same)]

DecWinInd ==
  /\ Case("DEC_WININD")
  /\ DecodeByte(LAMBDA b :
       LET s == [stream EXCEPT !.win_ind = b, !.current_window = stream.window_count,
                               !.winstart = @ + stream.tgtlen]
       IN IF stream.winstart + stream.tgtlen >= XWord THEN Refuse
          ELSE IF b > VCD_SOURCE + VCD_TARGET + VCD_ADLER32
          THEN Return(s, "XD3_INVALID_INPUT")
          ELSE Goto(InitWindow(At(s, "DEC_CPYLEN"))))
  /\ UNCHANGED <<source, ibuf>>

DecCpyLen ==
  NumberCase("DEC_CPYLEN", SrcOrTgt, "part32", Word,
    LAMBDA s, v : Goto([At(s, "DEC_CPYOFF") EXCEPT !.cpylen = v, !.position = v]),
    Goto([At(stream, "DEC_CPYOFF") EXCEPT !.position = stream.cpylen]))

CopyWindowOk(s) ==
  /\ s.cpyoff + s.cpylen < XWord
  /\ Bit(s.win_ind, VCD_TARGET) => s.cpyoff + s.cpylen <= s.winstart

DecCpyOff ==
  LET Check(s) == IF CopyWindowOk(s) THEN Goto(At(s, "DEC_ENCLEN"))
                  ELSE Return(s, "XD3_INVALID_INPUT")
  IN NumberCase("DEC_CPYOFF", SrcOrTgt, "part64", XWord,
                LAMBDA s, v : Check([s EXCEPT !.cpyoff = v]), Check(stream))

DecEncLen == SizeCase("DEC_ENCLEN", "enclen", "DEC_TGTLEN")

DecTgtLen ==
  NumberCase("DEC_TGTLEN", TRUE, "part32", Word,
    LAMBDA s, v : IF s.cpylen + v >= Word \/ v > HardMaxWinsize
                  THEN Return([s EXCEPT !.tgtlen = v], "XD3_INVALID_INPUT")
                  ELSE Goto([At(s, "DEC_DELIND") EXCEPT
                               !.tgtlen = v, !.maxpos = s.cpylen + v]),
    FALSE)

(* A delta indicator belongs to secondary compression. *)
DecDelInd ==
  /\ Case("DEC_DELIND")
  /\ DecodeByte(LAMBDA b : IF b # 0 THEN Refuse
                           ELSE Goto([At(stream, "DEC_DATALEN") EXCEPT !.del_ind = b]))
  /\ UNCHANGED <<source, ibuf>>

DecDataLen == SectionSizeCase("DEC_DATALEN", "data_sect", "DEC_INSTLEN")
DecInstLen == SectionSizeCase("DEC_INSTLEN", "inst_sect", "DEC_ADDRLEN")
DecAddrLen == SectionSizeCase("DEC_ADDRLEN", "addr_sect", "DEC_CKSUM")

HasCksum == Bit(stream.win_ind, VCD_ADLER32)

(* The header is complete and its length is checked: the caller may look   *)
(* at it before the sections are read.                                     *)
DecCksum ==
  LET Check(s) ==
        Return(At(s, "DEC_DATA"),
          IF s.enclen # EncLen(s.tgtlen, s.data_sect.size, s.inst_sect.size,
                               s.addr_sect.size, HasCksum)
          THEN "XD3_INVALID_INPUT"
          ELSE IF s.current_window = 0 THEN "XD3_GOTHEADER" ELSE "XD3_WINSTART")
  IN /\ Case("DEC_CKSUM")
     /\ IF HasCksum THEN DecodeBytes("cksum", 4, Check) ELSE Check(stream) /\ UNCHANGED at
     /\ UNCHANGED <<source, ibuf>>

-----------------------------------------------------------------------------
(* The sections.  When all the window still needs has arrived, a section   *)
(* of which nothing was copied is left where it is.                        *)
SectionBytes(sect) ==
  IF sect.ref >= 0 THEN SubSeq(ibuf, sect.ref + 1, sect.ref + sect.size)
  ELSE SubSeq(sect.copied, 1, sect.size)
Unread(sect) == SubSeq(SectionBytes(sect), sect.read + 1, sect.size)

SectionSum(s) == s.data_sect.size + s.inst_sect.size + s.addr_sect.size
Needed == SectionSum(stream) % Word

(* What this call of xd3_decode_input has taken of the sections, and what  *)
(* was left of them and of the chunk when it began: the choice to copy is  *)
(* made once.                                                              *)
TakenNow == Min({at, stream.winbytes})
More == (Needed - (stream.winbytes - TakenNow)) % Word
Available == AvailIn + TakenNow

FinishWindow(s) ==
  [At(s, "DEC_FINISH") EXCEPT !.winbytes = 0, !.data_sect.pos = 0,
                              !.inst_sect.pos = 0, !.addr_sect.pos = 0]

(* A buffer that is too small is replaced; one that is large enough stays. *)
Allocated(have, size) == IF have < size THEN RoundBlksize(size, AllocSize) ELSE have

(* The window's buffer, when all sections are there.  A copy from the last *)
(* target window must not begin before it, and the first such window gets  *)
(* a buffer of its own.  What is freed is dec_buffer, also when next_out   *)
(* is another or the last window is in it; dec_alloc is the size it has.   *)
Addresses(s) == IF s.lastwin = NULL THEN {1} ELSE {1, 2}
NewBuffer(s, b) ==
  LET size == RoundBlksize(s.tgtlen, AllocSize)
  IN [s EXCEPT !.dec_buffer = b, !.dec_alloc = size, !.next_out = b, !.space_out = size]

OwnBuffer(s) ==
  IF Bit(s.win_ind, VCD_TARGET) /\ s.lastwin = s.next_out
  THEN [s EXCEPT !.next_out = NULL, !.space_out = 0] ELSE s

LargeEnough(s) ==
  IF s.space_out < s.tgtlen THEN \E b \in Addresses(s) : Goto(NewBuffer(s, b)) ELSE Goto(s)

SetupBuffers(s) ==
  IF Bit(s.win_ind, VCD_TARGET) /\ s.cpyoff < s.laststart
  THEN Return(s, "XD3_INVALID_INPUT")
  ELSE LargeEnough(OwnBuffer(s))

(* Mutant: a section stays in place when all of it has arrived. *)
InPlaceEarly(sect) == AvailIn >= sect.size /\ sect.pos = 0

InPlace(sect) == Available >= More /\ sect.pos = 0

DecSection(state, f, nstate) ==
  LET sect == stream[f]
      inPlace == InPlace(sect)
      take == IF inPlace THEN sect.size ELSE Min({sect.size - sect.pos, AvailIn})
      new == IF sect.size = sect.pos THEN sect
             ELSE IF inPlace THEN [sect EXCEPT !.ref = at, !.copied = <<>>]
             ELSE [sect EXCEPT !.ref = -1,
                     !.alloc1 = IF sect.pos = 0 THEN Allocated(@, sect.size) ELSE @,
                     !.copied = (IF sect.pos = 0 THEN <<>> ELSE @)
                                  \o SubSeq(ibuf, at + 1, at + take)]
      got == [stream EXCEPT ![f] = [new EXCEPT !.pos = @ + take], !.winbytes = @ + take]
      done == [At(stream, nstate) EXCEPT
                 ![f] = [new EXCEPT !.pos = 0, !.read = 0], !.winbytes = @ + take]
      within == take <= AvailIn /\ (inPlace \/ sect.pos + take <= new.alloc1)
  IN /\ Case(state) /\ stream.flags \cap {"XD3_JUST_HDR", "XD3_SKIP_WINDOW"} = {}
     /\ IF sect.pos < sect.size /\ AvailIn = 0 THEN Return(stream, "XD3_INPUT") /\ UNCHANGED at
        ELSE IF sect.pos < sect.size /\ ~within THEN Undefined /\ UNCHANGED at
        ELSE /\ at' = at + take
             /\ IF sect.pos + take < sect.size THEN Return(got, "XD3_INPUT")
                ELSE IF nstate = "DEC_EMIT" /\ "XD3_SKIP_EMIT" \in stream.flags
                THEN Return(FinishWindow(done), "XD3_OUTPUT")
                ELSE IF nstate = "DEC_EMIT" THEN SetupBuffers(done)
                ELSE Goto(done)
     /\ UNCHANGED <<source, ibuf>>

DecData == DecSection("DEC_DATA", "data_sect", "DEC_INST")
DecInst == DecSection("DEC_INST", "inst_sect", "DEC_ADDR")
DecAddr == DecSection("DEC_ADDR", "addr_sect", "DEC_EMIT")

(* The caller wants the headers alone, or not this window. *)
DecSkip ==
  LET take == Min({More, AvailIn})
      s == [stream EXCEPT !.winbytes = @ + take]
  IN /\ ret = "calling" /\ stream.dec_state \in {"DEC_DATA", "DEC_INST", "DEC_ADDR"}
     /\ IF "XD3_JUST_HDR" \in stream.flags
        THEN Return(FinishWindow(stream), "XD3_OUTPUT") /\ UNCHANGED at
        ELSE /\ "XD3_SKIP_WINDOW" \in stream.flags
             /\ at' = at + take
             /\ IF take # More THEN Return(s, "XD3_INPUT")
                ELSE Return(FinishWindow(s), "XD3_OUTPUT")
     /\ UNCHANGED <<source, ibuf>>

-----------------------------------------------------------------------------
(* The source's blocks: xd3_getblk asks for a block that is not the        *)
(* current one.                                                            *)
BlksizeDiv(off) == <<off \div source.blksize, off % source.blksize>>
BlksizeAdd(b, add) ==
  LET off == b[2] + (add % source.blksize)
  IN <<b[1] + (add \div source.blksize) + (off \div source.blksize), off % source.blksize>>

(* Mutant: the block is asked for every time. *)
HasBlockNever(blkno) == FALSE

HasBlock(blkno) == source.curblk # <<>> /\ blkno = source.curblkno

AskBlock(blkno) ==
  /\ source' = [source EXCEPT !.getblkno = blkno]
  /\ ret' = IF HasGetblk THEN "getblk" ELSE "XD3_GETSRCBLK"

-----------------------------------------------------------------------------
(* xd3_decode_parse_halfinst: the size, then for a copy the address, and   *)
(* the bounds of both: no copy may read what is not written yet, or beyond *)
(* the end of the copy window, and no instruction may write past the       *)
(* window.  A sum that wraps passes.                                       *)
HalfSize(s, size) ==
  IF size # 0 THEN [ret |-> "ok", val |-> size, used |-> 0]
  ELSE ReadInteger(Unread(s.inst_sect))

HalfAddr(s, type) ==
  IF type < XD3_CPY THEN [ret |-> "ok", val |-> 0, used |-> 0]
  ELSE DecodeAddress(s.acache, s.position, type - XD3_CPY, Unread(s.addr_sect))

(* Mutant: the end of the window is not checked. *)
InBoundsOfCopy(s, type, size, addr) ==
  type >= XD3_CPY => addr < s.position /\ (addr < s.cpylen => (addr + size) % Word <= s.cpylen)

InBounds(s, type, size, addr) ==
  /\ type >= XD3_CPY =>
       addr < s.position /\ (addr < s.cpylen => (addr + size) % Word <= s.cpylen)
  /\ (s.position + size) % Word <= s.maxpos

Parsed(s, half, type, n, a) ==
  IF n.ret # "ok" THEN n
  ELSE IF a.ret # "ok" THEN a
  ELSE IF ~InBounds(s, type, n.val, a.val) THEN [ret |-> "XD3_INVALID_INPUT"]
  ELSE [ret |-> "ok",
        s |-> [s EXCEPT ![half] = [type |-> type, size |-> n.val, addr |-> a.val],
                        !.position = (@ + n.val) % Word,
                        !.inst_sect.read = @ + n.used,
                        !.addr_sect.read = @ + a.used,
                        !.acache = IF type >= XD3_CPY THEN UpdateCache(@, a.val) ELSE @]]

ParseHalf(s, half, type, size) ==
  IF type = XD3_NOOP
  THEN [ret |-> "ok", s |-> [s EXCEPT ![half] = [NoHalf EXCEPT !.size = size]]]
  ELSE Parsed(s, half, type, HalfSize(s, size), HalfAddr(s, type))

(* DEC_EMIT can be left for a source block and entered again. *)
EmitCase ==
  /\ Case("DEC_EMIT")
  /\ UNCHANGED <<at, ibuf>>

NeedsSource == Bit(stream.win_ind, VCD_SOURCE)
NoSource == NeedsSource /\ ~stream.hasSource
Pending == {c \in {"current1", "current2"} : stream[c].type # XD3_NOOP}

EmitNoSource ==
  /\ EmitCase /\ NoSource
  /\ Refuse /\ UNCHANGED source

(* xd3_decode_instruction: the next opcode and its halves. *)
ParseOpcode(s, d) ==
  LET Second(p) == IF p.ret = "ok" THEN ParseHalf(p.s, "current2", d.type2, d.size2) ELSE p
  IN Second(ParseHalf(s, "current1", d.type1, d.size1))

EmitInstruction ==
  LET Begin(p) == IF p.ret = "ok" THEN Goto(p.s) ELSE Return(stream, p.ret)
  IN /\ EmitCase /\ ~NoSource
     /\ Pending = {} /\ Unread(stream.inst_sect) # <<>>
     /\ Begin(ParseOpcode([stream EXCEPT !.inst_sect.read = @ + 1],
                          CodeTable[Head(Unread(stream.inst_sect))]))
     /\ UNCHANGED source

(* The half instruction the loop is at: current1 before current2. *)
Half == IF "current1" \in Pending THEN "current1" ELSE "current2"
EmitHalfCase == EmitCase /\ ~NoSource /\ Pending # {}
Spent == [stream[Half] EXCEPT !.type = XD3_NOOP]

(* Is there room for n more bytes in the window's buffer? *)
Live(s) == s.next_out # NULL /\ s.next_out = s.dec_buffer
Room(n) == n = 0 \/ (Live(stream) /\ Len(stream.out) + n <= stream.dec_alloc)
Output(n, s) == IF Room(n) THEN Goto(s) ELSE Undefined

EmitRun ==
  /\ EmitHalfCase /\ stream[Half].type = XD3_RUN
  /\ LET data == Unread(stream.data_sect)  take == stream[Half].size
     IN IF data = <<>> THEN Refuse
        ELSE Output(take, [stream EXCEPT !.out = @ \o [k \in 1 .. take |-> data[1]],
                                         !.data_sect.read = @ + 1, ![Half] = Spent])
  /\ UNCHANGED source

(* Only a size that no window has can take the pointer past the last       *)
(* address, and the test with it.                                          *)
EmitAdd ==
  /\ EmitHalfCase /\ stream[Half].type = XD3_ADD
  /\ LET data == Unread(stream.data_sect)  take == stream[Half].size
     IN IF take > Len(data) THEN Refuse \/ (take > HardMaxWinsize /\ Undefined)
        ELSE Output(take, [stream EXCEPT !.out = @ \o SubSeq(data, 1, take),
                                         !.data_sect.read = @ + take, ![Half] = Spent])
  /\ UNCHANGED source

(* A copy within the target goes byte by byte: it may read what it writes. *)
EmitCopyTarget ==
  /\ EmitHalfCase /\ stream[Half].type >= XD3_CPY
  /\ stream[Half].addr >= stream.cpylen
  /\ LET from == stream[Half].addr - stream.cpylen
         period == Len(stream.out) - from
         take == stream[Half].size
     IN IF take > 0 /\ period <= 0 THEN Undefined
        ELSE Output(take, [stream EXCEPT
               !.out = @ \o [k \in 1 .. take |-> stream.out[from + 1 + ((k - 1) % period)]],
               ![Half] = [Spent EXCEPT !.size = 0]])
  /\ UNCHANGED source

(* A copy from the source takes what the block has and goes on with the    *)
(* next block.                                                             *)
EmitCopySource ==
  /\ EmitHalfCase /\ stream[Half].type >= XD3_CPY
  /\ stream[Half].addr < stream.cpylen
  /\ ~Bit(stream.win_ind, VCD_TARGET)
  /\ LET h == stream[Half]
         b == BlksizeAdd(BlksizeDiv(stream.cpyoff), h.addr)
         end == b[2] + h.size
         take == Min({h.size, source.blksize - b[2]})
     IN IF ~HasBlock(b[1]) THEN AskBlock(b[1]) /\ UNCHANGED stream
        ELSE /\ source' = BlockKnown(source, b[1])
             /\ IF source.onblk # source.blksize /\ end % Word > source.onblk THEN Refuse
                ELSE IF end >= Word THEN Undefined
                ELSE Output(take, [stream EXCEPT
                       !.out = @ \o SubSeq(source.curblk, b[2] + 1, b[2] + take),
                       ![Half] = IF take = h.size THEN [Spent EXCEPT !.size = 0]
                                 ELSE [h EXCEPT !.size = @ - take, !.addr = @ + take]])

EmitCopyWindow ==
  /\ EmitHalfCase /\ stream[Half].type >= XD3_CPY
  /\ stream[Half].addr < stream.cpylen
  /\ Bit(stream.win_ind, VCD_TARGET)
  /\ Return([stream EXCEPT ![Half] = [Spent EXCEPT !.size = 0]], "XD3_UNIMPLEMENTED")
  /\ UNCHANGED source

(* Mutant: the checksum is not verified. *)
CksumOkAlways == TRUE

CksumOk ==
  \/ ~HasCksum \/ "XD3_ADLER32_NOVER" \in stream.flags
  \/ stream.cksum = AdlerBytes(Adler32(stream.out))

(* All instructions are done: every section must be used up. *)
EmitEnd ==
  /\ EmitCase /\ ~NoSource
  /\ Pending = {} /\ Unread(stream.inst_sect) = <<>>
  /\ IF /\ Len(stream.out) = stream.tgtlen
        /\ Unread(stream.data_sect) = <<>> /\ Unread(stream.addr_sect) = <<>>
        /\ CksumOk
     THEN Return([FinishWindow(stream) EXCEPT !.total_out = @ + Len(stream.out)], "XD3_OUTPUT")
     ELSE Refuse
  /\ UNCHANGED source

(* With VCD_TARGET the window just done becomes the last one, and the      *)
(* buffer of the last one the next's.                                      *)
Swapped(s) ==
  IF ~Bit(s.win_ind, VCD_TARGET) THEN s
  ELSE [s EXCEPT !.lastwin = s.next_out, !.lastspace = s.space_out,
                 !.next_out = IF s.lastwin = NULL THEN @ ELSE s.lastwin,
                 !.space_out = IF s.lastwin = NULL THEN @ ELSE s.lastspace]

DecFinish ==
  /\ Case("DEC_FINISH")
  /\ Return([Swapped(At(stream, "DEC_WININD")) EXCEPT
               !.laststart = stream.winstart, !.window_count = @ + 1], "XD3_WINFINISH")
  /\ UNCHANGED <<source, ibuf, at>>

-----------------------------------------------------------------------------
(* xd3_decode_input. *)
DecodeHeader ==
  \/ DecVcHead \/ DecHdrInd \/ DecSecondId \/ DecTabLen \/ DecNear \/ DecSame
  \/ DecTabDat \/ DecAppLen \/ DecAppDat
DecodeWindowHeader ==
  \/ DecWinInd \/ DecCpyLen \/ DecCpyOff \/ DecEncLen \/ DecTgtLen \/ DecDelInd
  \/ DecDataLen \/ DecInstLen \/ DecAddrLen \/ DecCksum
DecodeSections == DecData \/ DecInst \/ DecAddr
DecodeEmit ==
  \/ EmitNoSource \/ EmitInstruction \/ EmitRun \/ EmitAdd \/ EmitCopyTarget
  \/ EmitCopySource \/ EmitCopyWindow \/ EmitEnd

DecodeInput ==
  DecodeHeader \/ DecodeWindowHeader \/ DecodeSections \/ DecSkip \/ DecodeEmit \/ DecFinish

(* xd3_consume_output and xd3_avail_input. *)
Consumed(s) == [s EXCEPT !.out = <<>>]

(* What xd3_close_stream accepts of a decoder. *)
AtWindowBoundary == stream.dec_state \in {"DEC_VCHEAD", "DEC_WININD", "DEC_ABORTED"}
=============================================================================
