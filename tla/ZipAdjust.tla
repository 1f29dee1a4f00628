----------------------------- MODULE ZipAdjust -----------------------------
(***************************************************************************)
(* zipadjust.c: rewrite a ZIP archive into a form of its own, without      *)
(* extra fields, comments and data descriptors, and if asked for with the  *)
(* deflated entries stored, so that deltas between two such archives are   *)
(* small.                                                                  *)
(*                                                                         *)
(* A file is a sequence of cells.  A header of the format is one cell, and *)
(* so is each unit of a name, an extra field, a comment or an entry's data *)
(* (sizeof of a header is 1).  Versions, times and attributes are left     *)
(* out; names are shorter than the 1024 bytes the code has for one.        *)
(***************************************************************************)
EXTENDS Integers, Sequences, SequencesExt

CONSTANTS
  Archives,  \* the archives given to it, [entries, comment]
  Content,   \* what an entry can hold, by its checksum
  CHUNK,     \* how much is read at a time
  MaxFaults, \* how many file operations may fail
  MaxStale   \* how much may come of bytes that are not the entry's

Cell == [tag |-> "hole", flags |-> 0, method |-> 0, crc |-> 0, csize |-> 0, usize |-> 0,
         nlen |-> 0, elen |-> 0, clen |-> 0, offset |-> 0, unit |-> 0]
Units(tag, n) == [k \in 1..n |-> [Cell EXCEPT !.tag = tag, !.unit = k]]
Concat(seqs) == FlattenSeq(seqs)

(* Deflate: two units to a cell, and one more cell. *)
DeflatedSize(n) == (n \div 2) + 1
Stored(crc) ==
  [k \in 1..Len(Content[crc]) |-> [Cell EXCEPT !.tag = "data", !.unit = Content[crc][k]]]
Deflated(crc) ==
  [k \in 1..DeflatedSize(Len(Content[crc])) |->
     [Cell EXCEPT !.tag = "deflate", !.crc = crc, !.unit = k]]
Data(e) == IF e.method = 8 THEN Deflated(e.crc) ELSE Stored(e.crc)

-----------------------------------------------------------------------------
(* An archive as other programs write it.  An entry is                     *)
(* [nlen, lname, method, crc, flags, lextra, cextra, clen]: the name and   *)
(* the extra field may be of other lengths in the local header (lname,     *)
(* lextra).  With flag 8 the local header has no sizes and a data          *)
(* descriptor follows the data.                                            *)
Header(e, tag, at) ==
  [Cell EXCEPT !.tag = tag, !.flags = e.flags, !.method = e.method, !.crc = e.crc,
               !.csize = Len(Data(e)), !.usize = Len(Content[e.crc]), !.nlen = e.nlen,
               !.offset = at]
LocalPart(e) ==
  LET h == [Header(e, "local", 0) EXCEPT !.nlen = e.lname, !.elen = e.lextra]
  IN <<IF e.flags = 8 THEN [h EXCEPT !.crc = 0, !.csize = 0, !.usize = 0] ELSE h>>
       \o Units("name", e.lname) \o Units("extra", e.lextra) \o Data(e)
       \o Units("descriptor", IF e.flags = 8 THEN 1 ELSE 0)
CentralPart(e, at) ==
  <<[Header(e, "central", at) EXCEPT !.elen = e.cextra, !.clen = e.clen]>>
    \o Units("name", e.nlen) \o Units("extra", e.cextra) \o Units("comment", e.clen)
LocalParts(es) == Concat([k \in 1..Len(es) |-> LocalPart(es[k])])
CentralParts(es) ==
  Concat([k \in 1..Len(es) |-> CentralPart(es[k], Len(LocalParts(SubSeq(es, 1, k - 1))))])

(* An archive's comment may hold what looks like the footer's signature:   *)
(* "footer" and "far" with enough bytes after it to be taken for one that  *)
(* points into the file or beyond it, "magic" at the very end.             *)
FooterOf(at, n, clen) ==
  [Cell EXCEPT !.tag = "footer", !.offset = at, !.csize = n, !.clen = clen]
Beyond == 1000
CommentCells(c) ==
  CASE c = "none"   -> <<>>
    [] c = "plain"  -> Units("comment", 1)
    [] c = "footer" -> <<FooterOf(0, 0, 0)>> \o Units("comment", 1)
    [] c = "far"    -> <<FooterOf(Beyond, 0, 0)>> \o Units("comment", 1)
    [] c = "magic"  -> Units("comment", 1) \o <<[Cell EXCEPT !.tag = "magic"]>>
ArchiveFile(a) ==
  LET l == LocalParts(a.entries)
      c == CentralParts(a.entries)
      z == CommentCells(a.comment)
  IN l \o c \o <<FooterOf(Len(l), Len(c), Len(z))>> \o z

-----------------------------------------------------------------------------
VARIABLES
  archive, decompress,  \* what zipadjust is given
  fin, fout,            \* the files
  pc, ok,
  faults,               \* the file operations that failed so far
  stale,                \* was anything inflated after a read that failed?
  i,                    \* where it looks for the footer
  central_footer,
  central_directory_in, central_directory_in_index,
  central_directory_out,
  out_index,
  entry                 \* the entry being copied: [header, from, left, to, got]

given == <<archive, decompress, fin>>
directory == <<central_footer, central_directory_in, central_directory_in_index,
               central_directory_out>>
failures == <<faults, stale>>
vars == <<given, fout, pc, ok, failures, i, directory, out_index, entry>>

NoEntry == [header |-> Cell, from |-> 0, left |-> 0, to |-> 0, got |-> 0]

Init ==
  /\ archive \in Archives /\ decompress \in BOOLEAN /\ fin = ArchiveFile(archive)
  /\ faults = 0 /\ stale = FALSE
  /\ fout = <<>> /\ pc = "open" /\ ok = 0 /\ i = Len(fin) - 1
  /\ central_footer = Cell /\ central_directory_in = <<>> /\ central_directory_in_index = 0
  /\ central_directory_out = <<>> /\ out_index = 0 /\ entry = NoEntry

(* lseek and write: what lies between the end and the offset is a hole. *)
WriteAt(file, at, cells) ==
  [k \in 1..(IF at + Len(cells) > Len(file) THEN at + Len(cells) ELSE Len(file)) |->
     IF k > at /\ k <= at + Len(cells) THEN cells[k - at]
     ELSE IF k <= Len(file) THEN file[k] ELSE Cell]

Fails == pc' = "done" /\ ok' = 0

OpenInput ==
  /\ pc = "open"
  /\ pc' = "scan"
  /\ UNCHANGED <<given, fout, ok, i, directory, out_index, entry>>

(* Mutant: only the last signature counts. *)
ScanFirst ==
  LET cell == fin[i + 1]
      whole == cell.tag = "footer"
      reads == whole /\ cell.offset < Len(fin)
  IN /\ pc = "scan" /\ i >= 0
     /\ central_footer' = IF whole THEN cell ELSE central_footer
     /\ i' = i - 1
     /\ IF cell.tag = "magic" \/ (whole /\ ~(reads /\ fin[cell.offset + 1].tag = "central")) THEN Fails
        ELSE pc' = (IF reads /\ fin[cell.offset + 1].tag = "central" THEN "directory" ELSE pc)
             /\ UNCHANGED ok
     /\ UNCHANGED <<given, fout, central_directory_in, central_directory_in_index,
                    central_directory_out, out_index, entry>>

(* A turn of the loop that looks for the footer from the end. *)
Scan ==
  LET cell == fin[i + 1]
      whole == cell.tag = "footer"
      reads == whole /\ cell.offset < Len(fin)
  IN /\ pc = "scan" /\ i >= 0
     /\ central_footer' = IF whole THEN cell ELSE central_footer
     /\ i' = i - 1
     /\ IF cell.tag = "magic" \/ (whole /\ ~reads) THEN Fails
        ELSE pc' = (IF reads /\ fin[cell.offset + 1].tag = "central" THEN "directory" ELSE pc)
             /\ UNCHANGED ok
     /\ UNCHANGED <<given, fout, central_directory_in, central_directory_in_index,
                    central_directory_out, out_index, entry>>

NoFooter ==
  /\ pc = "scan" /\ i < 0
  /\ Fails
  /\ UNCHANGED <<given, fout, i, directory, out_index, entry>>

(* All from the first central header to the end of the file. *)
ReadDirectory ==
  /\ pc = "directory" /\ central_footer.offset # 0
  /\ central_directory_in' = SubSeq(fin, central_footer.offset + 1, Len(fin))
  /\ pc' = "entry"
  /\ UNCHANGED <<given, fout, ok, i, central_footer, central_directory_in_index,
                 central_directory_out, out_index, entry>>

-----------------------------------------------------------------------------
CentralHeader == central_directory_in[central_directory_in_index + 1]
NameAt == SubSeq(central_directory_in, central_directory_in_index + 2,
                 central_directory_in_index + 1 + CentralHeader.nlen)
Inflates(h) == decompress /\ h.method = 8

(* Mutant: the entry's compressed size stays. *)
RewrittenSize(h) ==
  [h EXCEPT !.offset = out_index, !.flags = 0, !.elen = 0, !.clen = 0,
            !.method = IF Inflates(h) THEN 0 ELSE @]
(* The header that is written: flags & !8 is 0 whatever the flags. *)
Rewritten(h) ==
  [h EXCEPT !.offset = out_index, !.flags = 0, !.elen = 0, !.clen = 0,
            !.method = IF Inflates(h) THEN 0 ELSE @,
            !.csize = IF Inflates(h) THEN h.usize ELSE @]
(* The local header that is written is the one read, with what the central *)
(* header says; the length of its name stays.                              *)
LocalOf(l, h) == [l EXCEPT !.flags = h.flags, !.method = h.method, !.crc = h.crc,
                           !.csize = h.csize, !.usize = h.usize, !.elen = 0]

(* Mutant: the extra field is forgotten. *)
DataOffsetNoExtra(h) == h.offset + 1 + h.nlen
(* Where the entry's data begins in the input, going by the length of the  *)
(* extra field in the central directory.                                   *)
DataOffset(h) == h.offset + 1 + h.nlen + h.elen

(* The central header is taken and rewritten, local header and name are    *)
(* written.                                                                *)
TakeEntry ==
  LET h == CentralHeader
      r == Rewritten(h)
  IN /\ pc = "entry" /\ h.tag = "central"
     /\ central_directory_in_index' = central_directory_in_index + 1 + h.nlen + h.elen + h.clen
     /\ central_directory_out' = central_directory_out \o <<r>> \o NameAt
     /\ fout' = WriteAt(WriteAt(fout, out_index, <<LocalOf(fin[h.offset + 1], r)>>), out_index + 1, NameAt)
     /\ out_index' = out_index + 1 + h.nlen
     /\ entry' = [header |-> r, from |-> DataOffset(h), left |-> h.csize,
                  to |-> out_index', got |-> 0]
     /\ pc' = IF Inflates(h) THEN "inflate" ELSE "copy"
     /\ UNCHANGED <<given, ok, i, central_footer, central_directory_in>>

Smaller(a, b) == IF a <= b THEN a ELSE b
ReadAt(from, n) == SubSeq(fin, from + 1, Smaller(from + n, Len(fin)))

(* A turn of xfilecopy's loop: read may return less than asked for. *)
Copy ==
  LET cells == ReadAt(entry.from, Smaller(CHUNK, entry.left))
  IN /\ pc = "copy" /\ entry.left > 0
     /\ IF cells = <<>> THEN Fails /\ UNCHANGED <<fout, entry>>
        ELSE \E n \in 1..Len(cells) :
               /\ fout' = WriteAt(fout, entry.to, SubSeq(cells, 1, n))
               /\ entry' = [entry EXCEPT !.from = @ + n, !.left = @ - n, !.to = @ + n]
               /\ UNCHANGED <<pc, ok>>
     /\ UNCHANGED <<given, i, directory, out_index>>

(* zlib: cells that go on with the stream the first one began. *)
StreamCell(c, k, first) == c.tag = "deflate" /\ c.unit = k /\ (k = 1 \/ c.crc = first)
StreamEnd(crc) == DeflatedSize(Len(Content[crc]))
Inflated(crc, a, b) == SubSeq(Stored(crc), 2 * a + 1, Smaller(2 * b, Len(Content[crc])))

(* A turn of xdecompress's loop; what follows the stream's end is ignored. *)
Inflate ==
  LET cells == ReadAt(entry.from, CHUNK)
      crc == IF entry.got = 0 THEN cells[1].crc ELSE fin[entry.from - entry.got + 1].crc
      n == Smaller(Len(cells), StreamEnd(crc) - entry.got)
      out == Inflated(crc, entry.got, entry.got + n)
  IN /\ pc = "inflate"
     /\ IF cells = <<>> THEN Fails /\ UNCHANGED <<fout, entry>>
        ELSE IF \E k \in 1..(IF cells[1].tag = "deflate" THEN n ELSE 1) :
                  ~StreamCell(cells[k], entry.got + k, crc)
        THEN Fails /\ UNCHANGED <<fout, entry>>
        ELSE /\ fout' = WriteAt(fout, entry.to, out)
             /\ entry' = [entry EXCEPT !.from = @ + n, !.got = @ + n, !.to = @ + Len(out)]
             /\ pc' = (IF entry.got + n = StreamEnd(crc) THEN "copied" ELSE pc)
             /\ UNCHANGED ok
     /\ UNCHANGED <<given, i, directory, out_index>>

(* Mutant: an entry takes the room of its uncompressed data. *)
CopiedPlain ==
  /\ pc = "copied" \/ (pc = "copy" /\ entry.left = 0)
  /\ out_index' = out_index + entry.header.usize
  /\ pc' = "entry" /\ entry' = NoEntry
  /\ UNCHANGED <<given, fout, ok, i, directory>>

(* The data is there; the next entry's place follows from its header. *)
Copied ==
  /\ pc = "copied" \/ (pc = "copy" /\ entry.left = 0)
  /\ out_index' = out_index + entry.header.csize
  /\ pc' = "entry" /\ entry' = NoEntry
  /\ UNCHANGED <<given, fout, ok, i, directory>>

(* No other header: the new directory and footer are written. *)
Finish ==
  LET n == Len(central_directory_out)
      f == [central_footer EXCEPT !.csize = n, !.offset = out_index, !.clen = 0]
  IN /\ pc = "entry" /\ CentralHeader.tag # "central"
     /\ fout' = WriteAt(WriteAt(fout, out_index, central_directory_out), out_index + n, <<f>>)
     /\ central_footer' = f /\ out_index' = out_index + n
     /\ pc' = "done" /\ ok' = 1
     /\ UNCHANGED <<given, i, central_directory_in, central_directory_in_index,
                    central_directory_out, entry>>

(* A file operation that fails. *)
Fault == faults < MaxFaults /\ faults' = faults + 1

(* A file cannot be opened, a seek, a write, or the read of a header       *)
(* fails: 0 is returned, and the output stays as far as it is written.     *)
FileFails ==
  /\ pc \notin {"done", "crashed", "copied"} /\ Fault
  /\ Fails
  /\ UNCHANGED <<given, fout, stale, i, directory, out_index, entry>>

(* A read of xfilecopy that fails is not noticed: its -1 is a size_t and   *)
(* not below 0, the write of as many bytes fails, and the -1 it returns is *)
(* what was asked for.  One more byte is left.                             *)
CopyReadFails ==
  /\ pc = "copy" /\ entry.left > 0 /\ Fault
  /\ entry' = [entry EXCEPT !.left = @ + 1]
  /\ UNCHANGED <<given, fout, pc, ok, stale, i, directory, out_index>>

(* Nor is one of xdecompress: in the unsigned avail_in it is the largest   *)
(* number, so that inflate runs through what the buffer held before and    *)
(* beyond it.  It may find an error or the end of some stream, having      *)
(* written as much of anything, or never come back.                        *)
InflateReadFails ==
  /\ pc = "inflate" /\ Fault
  /\ stale' = TRUE
  /\ \E n \in 0..MaxStale : fout' = WriteAt(fout, entry.to, Units("stale", n))
  /\ \/ Fails
     \/ pc' \in {"copied", "crashed"} /\ UNCHANGED ok
  /\ UNCHANGED <<given, i, directory, out_index, entry>>

Step ==
  /\ \/ OpenInput \/ Scan \/ NoFooter \/ ReadDirectory \/ TakeEntry
     \/ Copy \/ Inflate \/ Copied \/ Finish
  /\ UNCHANGED failures

Next == Step \/ FileFails \/ CopyReadFails \/ InflateReadFails

(* The function runs; it is not its fault when a file cannot be read. *)
Spec == Init /\ [][Next]_vars /\ WF_vars(Step)

-----------------------------------------------------------------------------
(* What a reader of archives finds: it starts from the footer at the end,  *)
(* goes through the directory, and takes an entry's data from behind its   *)
(* local header and that header's own name and extra field.                *)
RECURSIVE Headers(_, _)
Headers(file, at) ==
  IF file[at + 1].tag # "central" THEN <<>>
  ELSE LET h == file[at + 1]
       IN <<[header |-> h, name |-> SubSeq(file, at + 2, at + 1 + h.nlen)]>>
            \o Headers(file, at + 1 + h.nlen + h.elen + h.clen)
DataOf(file, h) ==
  LET l == file[h.offset + 1]
      from == h.offset + 1 + l.nlen + l.elen
  IN SubSeq(file, from + 1, from + h.csize)

(* Do the two headers of each entry agree about its name, and about where  *)
(* its data begins?  A well-formed archive may differ in the extra fields. *)
SameNames == \A k \in 1..Len(archive.entries) :
               archive.entries[k].lname = archive.entries[k].nlen
SameExtra == \A k \in 1..Len(archive.entries) :
               archive.entries[k].lextra = archive.entries[k].cextra

(* The output of a call that succeeds is an archive without gaps in which  *)
(* the two headers of an entry agree, if they agree about its name in the  *)
(* input, however that is laid out and whatever file operation failed -    *)
(* except a read of xdecompress (zipadjust.c:159), after which the call    *)
(* may succeed with anything in the place of the entry.                    *)
OutputReadable ==
  ok = 1 /\ SameNames /\ ~stale =>
    LET f == Last(fout)
        hs == Headers(fout, f.offset)
        begin(k) == hs[k].header.offset
        end(k) == begin(k) + 1 + hs[k].header.nlen + hs[k].header.csize
    IN /\ f.tag = "footer" /\ f.clen = 0 /\ f.offset + f.csize + 1 = Len(fout)
       /\ Len(hs) = Len(archive.entries)
       /\ \A k \in 1..Len(hs) :
            /\ fout[begin(k) + 1] = [hs[k].header EXCEPT !.tag = "local", !.offset = 0]
            /\ SubSeq(fout, begin(k) + 2, begin(k) + 1 + hs[k].header.nlen) = hs[k].name
            /\ end(k) = IF k < Len(hs) THEN begin(k + 1) ELSE f.offset
       /\ begin(1) = 0 /\ \A k \in 1..Len(fout) : fout[k].tag # "hole"

(* The entries of a call that succeeds are those of the input, in order,   *)
(* with the same names and contents.  Not so when the local header has an  *)
(* extra field or a name of another length than the central one, by which  *)
(* the code looks for the data, nor after a read of xdecompress failed.    *)
Kept ==
  LET hs == Headers(fout, Last(fout).offset)
      es == archive.entries
  IN \A k \in 1..Len(es) :
       /\ hs[k].name = Units("name", es[k].nlen)
       /\ DataOf(fout, hs[k].header)
            = IF hs[k].header.method = 8 THEN Deflated(es[k].crc) ELSE Stored(es[k].crc)
       /\ decompress => hs[k].header.method = 0
EntriesKept == ok = 1 /\ SameNames /\ SameExtra /\ ~stale => Kept

(* An archive that has this form already is copied as it is, so adjusting  *)
(* twice is adjusting once.                                                *)
IsAdjusted ==
  /\ archive.comment = "none"
  /\ \A k \in 1..Len(archive.entries) :
       LET e == archive.entries[k]
       IN e.flags = 0 /\ e.lname = e.nlen /\ e.lextra = 0 /\ e.cextra = 0 /\ e.clen = 0
            /\ (decompress => e.method = 0)
FixedPoint == ok = 1 /\ IsAdjusted => fout = fin

(* The call returns, also when a file operation fails, unless inflate runs *)
(* beyond its buffer after a failed read; and a good archive is adjusted   *)
(* unless a file operation fails: the search finds the footer behind a     *)
(* comment too, if the comment does not hold its signature in a way that   *)
(* ends the search.                                                        *)
Adjusts ==
  <>(/\ pc = "done" \/ (pc = "crashed" /\ stale)
     /\ faults = 0 /\ SameNames /\ SameExtra =>
          (ok = 1 <=> archive.entries # <<>> /\ archive.comment \notin {"far", "magic"}))
=============================================================================
