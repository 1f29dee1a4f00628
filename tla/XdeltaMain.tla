----------------------------- MODULE XdeltaMain -----------------------------
(***************************************************************************)
(* The command line program's main_input for encode and decode, from the   *)
(* opened input to the exit status: read the input a window at a time, let *)
(* the library work on it, open the output when there is some, write it,   *)
(* close everything.  Reads and writes may be cut short or interrupted.    *)
(*                                                                         *)
(* Of the library there is what main_input sees: what it takes of the      *)
(* input, the codes it returns and in which order.  DeltaDecoder and       *)
(* DeltaEncoder have the rest, SourceBlocks the source.                    *)
(***************************************************************************)
EXTENDS Integers, Sequences, FiniteSets, SequencesExt

CONSTANTS
  Jobs,            \* what the program is called for, see Init
  XD3_ALLOCSIZE,   \* the smallest window
  WindowLength,    \* a window's cells in a delta
  Names            \* output files there may be

ASSUME WindowAssumption ==
  WindowLength \in Nat /\ WindowLength > 1 /\ XD3_ALLOCSIZE \in Nat \ {0}
ASSUME JobsAssumption ==
  \A j \in Jobs : /\ j.input \in Seq(Nat) /\ j.option_winsize \in Nat
                  /\ j.regular \in BOOLEAN /\ j.appheader \in BOOLEAN
                  /\ j.no_output \in BOOLEAN

VARIABLES
  job,      \* [cmd, input, regular, option_winsize, force, no_output, ofile, exists,
            \*  appheader, sfile]
  fs,       \* the output files: [there, cells] by name
  winsize,
  bdata,    \* what main_bdata holds of the input
  nread,    \* main_file: how much of the input is read
  stream,   \* the library
  sopen,    \* "none", "open" or "closed": the source
  oname,    \* ofile->filename, "" for NULL
  oopen,    \* "none", "open" or "closed": the output
  nwrite,   \* how much of the library's output is written
  written,  \* all that was written
  ret,      \* what the library returned
  pc, exit

files == <<job, winsize>>
ins == <<bdata, nread>>
outs == <<fs, oname, oopen, nwrite, written>>
vars == <<files, ins, stream, sopen, outs, ret, pc, exit>>

Smaller(a, b) == IF a <= b THEN a ELSE b
Larger(a, b) == IF a >= b THEN a ELSE b

(* main_get_winsize *)
GetWinsize(j) ==
  Larger(IF j.regular THEN Smaller(Len(j.input), j.option_winsize) ELSE j.option_winsize,
         XD3_ALLOCSIZE)

NewStream(j) ==
  [phase |-> IF j.cmd = "encode" THEN "ENC_INPUT" ELSE "DEC_VCHEAD",
   avail |-> <<>>, flush |-> FALSE, current_window |-> 0, windows |-> 0,
   held |-> <<>>, out |-> <<>>, appheader |-> FALSE]

Before == [n \in Names |-> [there |-> n \in job.exists,
                            cells |-> IF n \in job.exists THEN <<7>> ELSE <<>>]]

Init ==
  /\ job \in Jobs
  /\ fs = Before
  /\ winsize = GetWinsize(job) /\ bdata = <<>> /\ nread = 0
  /\ stream = NewStream(job) /\ ret = "none"
  /\ sopen = "none" /\ oname = job.ofile /\ oopen = "none" /\ nwrite = 0 /\ written = <<>>
  /\ pc = "setup" /\ exit = 0

Fail == pc' = "cleanup" /\ exit' = 1
Go(to) == pc' = to /\ UNCHANGED exit

-----------------------------------------------------------------------------
(* The library, as main_input sees it.  A window of input makes a window   *)
(* of the delta, after the file's header if it is the first; a delta holds *)
(* a header of two cells and windows of WindowLength cells each.           *)
FileHeader(appheader) == IF appheader THEN <<1>> ELSE <<0>>
Encoded(s) ==
  (IF s.current_window = 0 THEN FileHeader(s.appheader) ELSE <<>>) \o <<100>> \o s.avail
Decoded(k) == <<k, k>>

EncodeInput ==
  LET s == stream
  IN \/ /\ s.phase = "ENC_INPUT"
        /\ IF Len(s.avail) < winsize /\ ~s.flush
           THEN ret' = "XD3_INPUT" /\ stream' = [s EXCEPT !.held = @ \o s.avail, !.avail = <<>>]
           ELSE ret' = "XD3_WINSTART" /\ stream' = [s EXCEPT !.phase = "ENC_SEARCH"]
     \/ /\ s.phase = "ENC_SEARCH"
        /\ ret' = "XD3_OUTPUT" /\ stream' = [s EXCEPT !.phase = "ENC_POSTOUT", !.out = Encoded(s)]
     \/ /\ s.phase = "ENC_POSTOUT"
        /\ ret' = "XD3_WINFINISH" /\ stream' = [s EXCEPT !.phase = "ENC_POSTWIN"]
     \/ /\ s.phase = "ENC_POSTWIN"
        /\ ret' = "XD3_INPUT"
        /\ stream' = [s EXCEPT !.phase = "ENC_INPUT", !.avail = <<>>, !.current_window = @ + 1]

(* The count of windows goes on only when the next window has begun. *)
DecodeInput ==
  LET s == stream
      need == WindowLength - Len(s.held)
      n == Smaller(need, Len(s.avail))
      w == IF s.windows > 0 THEN s.current_window + 1 ELSE 0
  IN \/ /\ s.avail = <<>> /\ s.phase # "DEC_FINISH"
        /\ ret' = "XD3_INPUT" /\ UNCHANGED stream
     \/ /\ s.avail # <<>> /\ s.phase \in {"DEC_VCHEAD", "DEC_HDRIND"}
        /\ ret' = "none"
        /\ stream' = [s EXCEPT !.phase = IF @ = "DEC_VCHEAD" THEN "DEC_HDRIND" ELSE "DEC_WININD",
                               !.avail = Tail(@)]
     \/ /\ s.avail # <<>> /\ s.phase = "DEC_WININD"
        /\ ret' = IF w = 0 THEN "XD3_GOTHEADER" ELSE "XD3_WINSTART"
        /\ stream' = [s EXCEPT !.phase = "DEC_DATA", !.held = <<Head(s.avail)>>,
                               !.avail = Tail(@), !.current_window = w]
     \/ /\ s.phase = "DEC_DATA" /\ s.avail # <<>>
        /\ IF n < need
           THEN /\ ret' = "XD3_INPUT"
                /\ stream' = [s EXCEPT !.held = @ \o s.avail, !.avail = <<>>]
           ELSE /\ ret' = "XD3_OUTPUT"
                /\ stream' = [s EXCEPT !.phase = "DEC_FINISH", !.held = <<>>,
                                       !.avail = SubSeq(@, n + 1, Len(@)),
                                       !.out = Decoded(s.held[1])]
     \/ /\ s.phase = "DEC_FINISH"
        /\ ret' = "XD3_WINFINISH"
        /\ stream' = [s EXCEPT !.phase = "DEC_WININD", !.windows = @ + 1]

(* xd3_close_stream: between windows, and for the encoder without input. *)
CloseStream(s) ==
  \/ s.phase \in {"DEC_VCHEAD", "DEC_WININD"}
  \/ s.phase \in {"ENC_INPUT", "ENC_POSTWIN"} /\ s.avail = <<>>

-----------------------------------------------------------------------------
(* Buffers, configuration; the encoder sets its source here. *)
Setup ==
  /\ pc = "setup"
  /\ sopen' = IF job.cmd = "encode" /\ job.sfile # "" THEN "open" ELSE sopen
  /\ Go("read")
  /\ UNCHANGED <<files, ins, stream, outs, ret>>

(* xd3_posix_io: until the buffer is full or the input ends. *)
Rest == Len(job.input) - nread
ReadSome(n) ==
  /\ pc = "read" /\ n <= Smaller(winsize - Len(bdata), Rest)
  /\ bdata' = bdata \o SubSeq(job.input, nread + 1, nread + n)
  /\ nread' = nread + n
  /\ UNCHANGED <<files, stream, sopen, outs, ret, pc, exit>>

(* Mutant: a read that comes short is taken for the end. *)
FeedShort ==
  /\ pc = "read" /\ (bdata # <<>> \/ Rest = 0)
  /\ stream' = [stream EXCEPT !.flush = @ \/ Len(bdata) < winsize, !.avail = bdata,
                              !.appheader = @ \/ (job.cmd = "encode" /\ job.appheader)]
  /\ Go(IF bdata = <<>> /\ stream.current_window > 0 THEN "done" ELSE "process")
  /\ UNCHANGED <<files, ins, sopen, outs, ret>>

(* The window is read: if it came short the stream is told to flush.  The  *)
(* encoder's application header is set; zero bytes after at least one      *)
(* window end the loop.                                                    *)
Feed ==
  /\ pc = "read" /\ (Len(bdata) = winsize \/ Rest = 0)
  /\ stream' = [stream EXCEPT !.flush = @ \/ Len(bdata) < winsize, !.avail = bdata,
                              !.appheader = @ \/ (job.cmd = "encode" /\ job.appheader)]
  /\ Go(IF bdata = <<>> /\ stream.current_window > 0 THEN "done" ELSE "process")
  /\ UNCHANGED <<files, ins, sopen, outs, ret>>

Process ==
  /\ pc = "process"
  /\ IF job.cmd = "encode" THEN EncodeInput ELSE DecodeInput
  /\ Go(IF ret' = "none" THEN "process" ELSE "returned")
  /\ UNCHANGED <<files, ins, sopen, outs>>

Returned(codes) == pc = "returned" /\ ret \in codes

(* Mutant: the loop goes on until the library has had a window. *)
OnInputAgain ==
  /\ Returned({"XD3_INPUT"})
  /\ Go("read") /\ bdata' = <<>>
  /\ UNCHANGED <<files, nread, stream, sopen, outs, ret>>

(* continue: the loop goes on after a full window only. *)
OnInput ==
  /\ Returned({"XD3_INPUT"})
  /\ Go(IF Len(bdata) = winsize THEN "read" ELSE "done")
  /\ bdata' = IF Len(bdata) = winsize THEN <<>> ELSE bdata
  /\ UNCHANGED <<files, nread, stream, sopen, outs, ret>>

(* The application header gives the names that are missing, then the       *)
(* decoder opens its source.                                               *)
OnHeader ==
  /\ Returned({"XD3_GOTHEADER"})
  /\ oname' = IF oname = "" /\ job.appheader THEN "default" ELSE oname
  /\ sopen' = IF job.sfile # "" \/ job.appheader THEN "open" ELSE sopen
  /\ Go("process")
  /\ UNCHANGED <<files, ins, stream, fs, oopen, nwrite, written, ret>>

OnWindow ==
  /\ Returned({"XD3_WINSTART", "XD3_WINFINISH"})
  /\ Go("process")
  /\ UNCHANGED <<files, ins, stream, sopen, outs, ret>>

(* main_open_output, the first time: a file that exists needs -f. *)
MustOpen == Returned({"XD3_OUTPUT"}) /\ oopen = "none" /\ ~job.no_output
Exists(name) == name \in Names /\ fs[name].there
OpenOutput ==
  /\ MustOpen /\ (job.force \/ ~Exists(oname))
  /\ oopen' = "open"
  /\ fs' = IF oname \in Names THEN [fs EXCEPT ![oname] = [there |-> TRUE, cells |-> <<>>]] ELSE fs
  /\ Go(pc)
  /\ UNCHANGED <<files, ins, stream, sopen, oname, nwrite, written, ret>>
RefuseOutput ==
  /\ MustOpen /\ ~job.force /\ Exists(oname)
  /\ Fail
  /\ UNCHANGED <<files, ins, stream, sopen, outs, ret>>

(* Mutant: after a short write the buffer is written from its start. *)
WriteSomeFirst(n) ==
  LET cells == SubSeq(stream.out, 1, n)
  IN /\ Returned({"XD3_OUTPUT"}) /\ oopen = "open" /\ nwrite + n <= Len(stream.out)
     /\ nwrite' = nwrite + n /\ written' = written \o cells
     /\ fs' = IF oname \in Names THEN [fs EXCEPT ![oname].cells = @ \o cells] ELSE fs
     /\ UNCHANGED <<files, ins, stream, sopen, oname, oopen, ret, pc, exit>>

(* main_write_output by xd3_posix_io: until all is written. *)
WriteSome(n) ==
  LET cells == SubSeq(stream.out, nwrite + 1, nwrite + n)
  IN /\ Returned({"XD3_OUTPUT"}) /\ oopen = "open" /\ nwrite + n <= Len(stream.out)
     /\ nwrite' = nwrite + n /\ written' = written \o cells
     /\ fs' = IF oname \in Names THEN [fs EXCEPT ![oname].cells = @ \o cells] ELSE fs
     /\ UNCHANGED <<files, ins, stream, sopen, oname, oopen, ret, pc, exit>>

(* All of it, or nothing with option_no_output: xd3_consume_output. *)
Consume ==
  /\ Returned({"XD3_OUTPUT"}) /\ (job.no_output \/ nwrite = Len(stream.out)) /\ ~MustOpen
  /\ stream' = [stream EXCEPT !.out = <<>>]
  /\ nwrite' = 0
  /\ Go("process")
  /\ UNCHANGED <<files, ins, sopen, fs, oname, oopen, written, ret>>

(* The loop is over: close the files, and the stream if there is output. *)
Done ==
  /\ pc = "done"
  /\ sopen' = IF sopen = "open" THEN "closed" ELSE sopen
  /\ oopen' = IF oopen = "open" THEN "closed" ELSE oopen
  /\ IF ~job.no_output /\ oopen = "none" THEN Fail
     ELSE IF ~CloseStream(stream) THEN Fail
     ELSE pc' = "cleanup" /\ exit' = 0
  /\ UNCHANGED <<files, ins, stream, fs, oname, nwrite, written, ret>>

(* main's cleanup closes what main_input left open. *)
Cleanup ==
  /\ pc = "cleanup"
  /\ sopen' = IF sopen = "open" THEN "closed" ELSE sopen
  /\ oopen' = IF oopen = "open" THEN "closed" ELSE oopen
  /\ Go("exited")
  /\ UNCHANGED <<files, ins, stream, fs, oname, nwrite, written, ret>>

(* No memory, a file that cannot be opened, read, written or closed, and   *)
(* every error of the library: EXIT_FAILURE, wherever it happens.          *)
Fault ==
  /\ \/ pc \in {"setup", "read", "process", "done"} \/ Returned({"XD3_GOTHEADER"})
     \/ Returned({"XD3_OUTPUT"}) /\ ~job.no_output /\ nwrite < Len(stream.out)
  /\ Fail
  /\ UNCHANGED <<files, ins, stream, sopen, outs, ret>>

Step ==
  \/ Setup \/ Feed \/ Process \/ OnInput \/ OnHeader \/ OnWindow
  \/ OpenOutput \/ RefuseOutput \/ Consume \/ Done \/ Cleanup
  \/ \E n \in 1..winsize : ReadSome(n)
  \/ \E n \in 1..Len(stream.out) : WriteSome(n)

Exited == pc = "exited" /\ UNCHANGED vars

Next == Step \/ Fault \/ Exited

(* A read or write that is interrupted or would block is tried again; that *)
(* it gets on in the end is the system's part.                             *)
Spec == Init /\ [][Next]_vars /\ WF_vars(Step)
-----------------------------------------------------------------------------
(* The windows the output should have: of the input in pieces of a window, *)
(* one at least, or of the delta's complete windows.                       *)
Pieces ==
  LET n == Larger(1, (Len(job.input) + winsize - 1) \div winsize)
  IN [k \in 1..n |->
        (IF k = 1 THEN FileHeader(job.appheader) ELSE <<>>) \o <<100>>
          \o SubSeq(job.input, (k - 1) * winsize + 1, Smaller(k * winsize, Len(job.input)))]
Complete == (Larger(0, Len(job.input) - 2)) \div WindowLength
Targets ==
  IF job.cmd = "encode" THEN Pieces
  ELSE [k \in 1..Complete |-> Decoded(job.input[2 + (k - 1) * WindowLength + 1])]
Whole ==
  job.cmd = "encode" \/ (Len(job.input) > 2 /\ (Len(job.input) - 2) % WindowLength = 0)

(* The program succeeds only if all of the input was there and all of the  *)
(* output is in the file, whatever the reads and writes were cut into and  *)
(* whether or not the input ends with a full window.                       *)
SuccessIsComplete ==
  pc = "exited" /\ exit = 0 /\ ~job.no_output =>
    /\ Whole /\ written = FlattenSeq(Targets)
    /\ oname \in Names => fs[oname].cells = written

(* Nothing stays open, and the program ends. *)
Exits == <>(pc = "exited" /\ sopen # "open" /\ oopen # "open")

(* The output grows by whole windows in order until a failure. *)
Count ==
  (IF job.cmd = "encode" THEN stream.current_window ELSE stream.windows)
    + (IF stream.phase \in {"ENC_POSTOUT", "ENC_POSTWIN", "DEC_FINISH"} /\ stream.out = <<>>
       THEN 1 ELSE 0)
Promise == INSTANCE DeltaApply WITH
  windows <- IF job.no_output THEN <<>> ELSE Targets,
  intact <- TRUE,
  count <- IF job.no_output THEN 0 ELSE Count,
  written <- IF pc = "exited" \/ job.no_output THEN written
             ELSE FlattenSeq(SubSeq(Targets, 1, Count)),
  result <- IF pc # "exited" THEN "none" ELSE IF exit = 0 THEN "ok" ELSE "failed"
GrowsByWindows == Promise!ASpec
=============================================================================
