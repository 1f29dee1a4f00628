------------------------------ MODULE Dedelta ------------------------------
(***************************************************************************)
(* dedelta(source, delta, output), the function the app calls to rebuild a *)
(* file: it unlinks the output, reads the delta in chunks of CHUNK bytes,  *)
(* drives the decoder, reads the source blocks it asks for and writes the  *)
(* output of every window.  Any system call may fail.                      *)
(***************************************************************************)
EXTENDS DeltaDecoder

CONSTANTS
  Inputs,    \* what dedelta may be called on: <<source, delta, windows, whole>>
  Chunks,    \* the values of CHUNK
  MaxFaults  \* how many read, write and seek errors a run may meet

(* A delta is shorter than 4 GiB; CHUNK is 256 KiB and a window at most 16 *)
(* MiB.                                                                    *)
ASSUME InputsAssumption ==
  \A i \in Inputs : i[1] \in Seq(0 .. 255) /\ i[2] \in Seq(0 .. 255) /\ Len(i[2]) < Word
ASSUME ChunksAssumption ==
  Chunks \subseteq Nat \ {0} /\ \A chunk \in Chunks : chunk + HardMaxWinsize <= Word

VARIABLES
  pc,      \* where the function is
  fsource, \* the source file's bytes
  fdelta,  \* the delta's bytes
  pos,     \* the offset of the delta's descriptor
  CHUNK,   \* the size of the two buffers and of a source block
  windows, \* what the windows that the delta holds completely stand for
  intact,  \* is the delta as the encoder made it, or cut short?
  eof,     \* has a read of the delta returned nothing?
  fout,    \* the output file: <<>> or <<its bytes>>
  ok,      \* the result
  faults   \* the errors so far

files == <<fsource, fdelta, CHUNK, windows, intact>>
dedelta == <<pc, pos, eof, fout, ok, faults>>
vars == <<decoder, files, dedelta>>

(* The block buffer before anything was read into it. *)
Garbage == [i \in 1 .. CHUNK |-> 255]

(* xd3_source is a variable of dedelta's frame; the fields it does not set *)
(* hold what the stack held.                                               *)
StackSource(left) ==
  [blksize |-> CHUNK, curblkno |-> -1, curblk |-> Garbage, onblk |-> left,
   getblkno |-> left, max_blkno |-> left, onlastblk |-> left,
   frontier_blkno |-> left, eof_known |-> left # 0, max_winsize |-> left]

(* The state in which dedelta is called on the given files. *)
Called(src, delta, targets, whole, chunk, out) ==
  /\ fsource = src /\ fdelta = delta /\ windows = targets /\ intact = whole
  /\ CHUNK = chunk /\ fout = out
  /\ pc = "open" /\ pos = 0 /\ eof = FALSE /\ ok = 0 /\ faults = 0
  /\ stream = ConfigStream({}) /\ source = StackSource(0)
  /\ ibuf = <<>> /\ at = 0 /\ ret = "none"

(* The output may exist already. *)
Init == \E i \in Inputs, chunk \in Chunks : Called(i[1], i[2], i[3], i[4], chunk, <<<<99>>>>)

-----------------------------------------------------------------------------
Fault == faults < MaxFaults /\ faults' = faults + 1
ReturnEarly == pc' = "done" /\ ok' = 0

(* A descriptor that cannot be opened ends the function, and the output is *)
(* removed.                                                                *)
Open ==
  /\ pc = "open"
  /\ \/ pc' = "setup" /\ fout' = <<<<>>>> /\ UNCHANGED <<ok, faults>>
     \/ Fault /\ ReturnEarly /\ fout' = <<>>
  /\ UNCHANGED <<decoder, files, pos, eof>>

(* A buffer that cannot be allocated. *)
NoMemory ==
  /\ pc = "setup" /\ Fault /\ ReturnEarly
  /\ UNCHANGED <<decoder, files, pos, eof, fout>>

(* xd3_set_source rounds max_winsize up to a power of two; above half of   *)
(* an xoff_t there is none and the loop does not end.                      *)
SetSource ==
  /\ pc = "setup"
  /\ \E left \in {0, 1, XWord - 1} :
       IF left > XWord \div 2
       THEN pc' = "rounding" /\ UNCHANGED <<stream, source>>
       ELSE /\ pc' = "read"
            /\ stream' = [stream EXCEPT !.hasSource = TRUE]
            /\ source' = StackSource(left)
  /\ UNCHANGED <<ibuf, at, ret, files, pos, eof, fout, ok, faults>>

(* The next chunk of the delta, and the call of the decoder. *)
ReadDelta ==
  /\ pc = "read"
  /\ ~eof
  /\ LET r == Min({CHUNK, Len(fdelta) - pos})
     IN /\ ibuf' = SubSeq(fdelta, pos + 1, pos + r)
        /\ pos' = pos + r
        /\ eof' = (r = 0)
        /\ stream' = IF r = 0 THEN [stream EXCEPT !.flags = @ \cup {"XD3_FLUSH"}] ELSE stream
  /\ at' = 0 /\ ret' = "calling" /\ pc' = "process"
  /\ UNCHANGED <<source, files, fout, ok, faults>>

(* The -1 of a read that fails is not below zero as a size_t and becomes   *)
(* the chunk's length: the decoder runs past the end of the buffer, and    *)
(* what happens then is not defined.                                       *)
ReadDeltaFails ==
  /\ pc = "read" /\ ~eof /\ Fault
  /\ pc' = "overrun"
  /\ UNCHANGED <<decoder, files, pos, eof, fout, ok>>

Decode ==
  /\ pc = "process" /\ DecodeInput
  /\ UNCHANGED <<files, dedelta>>

Answer(code) == pc = "process" /\ ret = code
CallAgain == ret' = "calling"

(* XD3_INPUT: the loop goes on unless the delta has ended. *)
OnInput ==
  /\ Answer("XD3_INPUT")
  /\ pc' = IF eof THEN "close" ELSE "read"
  /\ UNCHANGED <<decoder, files, pos, eof, fout, ok, faults>>

(* Mutant: a write that comes short is not noticed. *)
OnOutputShort ==
  /\ Answer("XD3_OUTPUT")
  /\ \E n \in 0 .. Len(stream.out) : fout' = <<fout[1] \o SubSeq(stream.out, 1, n)>>
  /\ stream' = Consumed(stream)
  /\ CallAgain
  /\ UNCHANGED <<source, ibuf, at, files, pc, pos, eof, ok, faults>>

(* XD3_OUTPUT: a write may come short. *)
OnOutput ==
  /\ Answer("XD3_OUTPUT")
  /\ \/ /\ fout' = <<fout[1] \o stream.out>>
        /\ stream' = Consumed(stream)
        /\ CallAgain
        /\ UNCHANGED <<pc, ok, faults>>
     \/ /\ stream.out # <<>> /\ Fault /\ ReturnEarly
        /\ \E n \in 0 .. Len(stream.out) - 1 : fout' = <<fout[1] \o SubSeq(stream.out, 1, n)>>
        /\ UNCHANGED <<stream, ret>>
  /\ UNCHANGED <<source, ibuf, at, files, pos, eof>>

BlockOffset == source.blksize * source.getblkno

(* XD3_GETSRCBLK: what the read does not fill keeps its old bytes; when it *)
(* fails, its -1 becomes onblk.                                            *)
OnGetsrcblk ==
  /\ Answer("XD3_GETSRCBLK")
  /\ LET from == BlockOffset
         r == IF from >= Len(fsource) THEN 0 ELSE Min({source.blksize, Len(fsource) - from})
         read == SubSeq(fsource, from + 1, from + r)
     IN \/ /\ source' = [source EXCEPT
                 !.onblk = r, !.curblkno = source.getblkno,
                 !.curblk = read \o SubSeq(@, r + 1, Len(@))]
           /\ CallAgain /\ UNCHANGED <<pc, ok, faults>>
        \/ /\ Fault /\ CallAgain
           /\ source' = [source EXCEPT !.onblk = Word - 1, !.curblkno = source.getblkno]
           /\ UNCHANGED <<pc, ok>>
        \/ Fault /\ ReturnEarly /\ UNCHANGED <<source, ret>>
  /\ UNCHANGED <<stream, ibuf, at, files, pos, eof, fout>>

OnWindow ==
  /\ pc = "process" /\ ret \in {"XD3_GOTHEADER", "XD3_WINSTART", "XD3_WINFINISH"}
  /\ CallAgain
  /\ UNCHANGED <<stream, source, ibuf, at, files, dedelta>>

OnError ==
  /\ pc = "process"
  /\ ret \in {"XD3_INVALID_INPUT", "XD3_INTERNAL", "XD3_UNIMPLEMENTED", "ENOMEM"}
  /\ ReturnEarly
  /\ UNCHANGED <<decoder, files, pos, eof, fout, faults>>

(* The stream is closed, and what that returns is not looked at. *)
Close ==
  /\ pc = "close"
  /\ pc' = "done" /\ ok' = 1
  /\ UNCHANGED <<decoder, files, pos, eof, fout, faults>>

Next ==
  \/ Open \/ NoMemory \/ SetSource \/ ReadDelta \/ ReadDeltaFails \/ Decode
  \/ OnInput \/ OnOutput \/ OnGetsrcblk \/ OnWindow \/ OnError \/ Close

Fairness == WF_vars(Next)

Spec == Init /\ [][Next]_vars /\ Fairness

-----------------------------------------------------------------------------
Written == IF fout = <<>> THEN <<>> ELSE fout[1]

PendingSize(half) == IF half \in Pending THEN stream[half].size ELSE 0
Promised ==
  stream.cpylen + Len(stream.out) + PendingSize("current1") + PendingSize("current2")

(* Sizes whose sum, or which rounded up, wrap around. *)
LengthsWrap ==
  SectionSum(stream) >= Word \/ \E f \in Sections : stream[f].size + AllocSize > Word
InstructionsWrap == Promised >= Word

(* Is next_out the buffer that was allocated last, with its size?  Always, *)
(* until windows with VCD_TARGET swap their buffers.                       *)
OwnsBuffer == stream.next_out = stream.dec_buffer /\ stream.space_out = stream.dec_alloc

(* The window's buffer and those of the sections hold all that is written  *)
(* to them: what is written and what the parsed instructions have still to *)
(* write add up to the decoder's position, which never passes the window's *)
(* end.  The code reads or writes outside a buffer only when lengths of    *)
(* sections wrap around a usize_t in xd3_decode_sections, sizes of         *)
(* instructions in xd3_decode_parse_halfinst, or after windows with        *)
(* VCD_TARGET, whose swapped buffers may be freed ones.                    *)
WindowFits ==
  /\ ret = "undefined" => LengthsWrap \/ InstructionsWrap \/ ~OwnsBuffer
  /\ stream.dec_state = "DEC_EMIT" /\ pc = "process" =>
       /\ \A f \in Sections : Len(stream[f].copied) <= stream[f].alloc1
       /\ ret \in {"calling", "XD3_GETSRCBLK"} =>
            /\ stream.position <= stream.maxpos
            /\ InstructionsWrap \/ Promised = stream.position
            /\ OwnsBuffer => stream.maxpos - stream.cpylen <= stream.dec_alloc

(* The decoder reads a window's sections from the chunk it was given them  *)
(* in while the caller reads source blocks: until the window is done, what *)
(* it refers to are the bytes the delta has there.  Lengths that wrap      *)
(* around never get so far with a delta below 4 GiB.                       *)
SectionsIntact ==
  stream.dec_state = "DEC_EMIT" /\ pc = "process" =>
    LET end == pos - AvailIn
    IN /\ \A f \in Sections : stream[f].ref >= 0 /\ stream[f].size > 0
                                => stream[f].ref + stream[f].size <= Len(ibuf)
       /\ SubSeq(fdelta, end - SectionSum(stream) + 1, end)
           = SectionBytes(stream.data_sect) \o SectionBytes(stream.inst_sect)
               \o SectionBytes(stream.addr_sect)

(* What is written is the delta's target as far as it goes, however the    *)
(* delta is cut into chunks, blocks and copies, and even when blocks could *)
(* not be read or the delta is damaged, thanks to the checksums.           *)
OutputIsTarget == pc # "open" => IsPrefix(Written, FlattenSeq(windows))

(* Whatever the delta, its chunks and the faults, the function returns:    *)
(* decoder and caller never wait for each other.  The exceptions are the   *)
(* loop that rounds an uninitialized max_winsize, what follows a failed    *)
(* read of the delta, and what follows an access outside a buffer.         *)
Returns == <>(pc \in {"done", "rounding", "overrun"} \/ ret = "undefined")

(* What xd3_close_stream is for: a delta that ends within its header or a  *)
(* window is not applied, so dedelta does not succeed.                     *)
SuccessIsComplete == ok = 1 => AtWindowBoundary

(* dedelta implements the promise. *)
Promise == INSTANCE DeltaApply WITH
  count <- stream.window_count
             + IF stream.dec_state = "DEC_FINISH" /\ ret = "calling" THEN 1 ELSE 0,
  written <- IF pc = "open" THEN <<>> ELSE Written,
  result <- IF pc # "done" THEN "none" ELSE IF ok = 1 THEN "ok" ELSE "failed"
AppliesDelta == Promise!ASpec
=============================================================================
