------------------------------ MODULE MemFile ------------------------------
(***************************************************************************)
(* The files that MemFile.c keeps in memory: OpenMemFile has read all the  *)
(* bytes, and ReadMemFile and SeekMemFile move over them.  A file is its   *)
(* bytes and the place of the next one.                                    *)
(***************************************************************************)
EXTENDS Integers, Sequences

OpenMemFile(bytes) == [data |-> bytes, cur |-> 0]

Left(fp) == Len(fp.data) - fp.cur
nread(size, fp) == IF size >= Left(fp) THEN Left(fp) ELSE size

\* The buffer and the file after ReadMemFile(pbuf, 1, size, fp): what is not
\* read is left in the buffer as it was.
ReadInto(pbuf, size, fp) ==
    [k \in DOMAIN pbuf |->
        IF k < nread(size, fp) THEN fp.data[fp.cur + k + 1] ELSE pbuf[k]]

\* What was asked for is taken to have been read.
AdvanceAll(size, fp) == [fp EXCEPT !.cur = @ + size]

Advance(size, fp) == [fp EXCEPT !.cur = @ + nread(size, fp)]

\* SeekMemFile(fp, size, SEEK_CUR), which does not move past the end.
SeekMemFile(size, fp) ==
    IF size <= Left(fp) THEN [fp EXCEPT !.cur = @ + size] ELSE fp
=============================================================================
