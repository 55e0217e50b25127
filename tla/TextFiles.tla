----------------------------- MODULE TextFiles ------------------------------
(***************************************************************************)
(* The file tools: cat (io/stdio/mycat*.c, io/sysio/mycat.c) and cp        *)
(* (mycp.c of both) by bytes, blocks or lines, the two reverse_file.c, and *)
(* process/mygetline.c, which prints the lines of its input.  They differ  *)
(* in what a buffer holds, where a text in it ends, and what main() makes  *)
(* of an error.                                                            *)
(*                                                                         *)
(* A byte is one of the three below or any other.                          *)
(***************************************************************************)
EXTENDS Integers, Sequences, SequencesExt

CONSTANTS
  Texts,      \* what files hold
  BUFSIZE,    \* of the buffers: 32, or 4 and a final NUL
  STEP        \* by which mygetline() extends its line: 10

Nul     == "nul"
Newline == "newline"
Minus1  == "0xff"      \* as a char it equals EOF

Cats     == {"mycat", "mycat_line", "mycat_fread", "mycat_fd"}
Cps      == {"mycp", "mycp_fd"}
Reverses == {"reverse", "reverse_fd"}

VARIABLES
  tool,       \* the program
  text,       \* what its source file holds
  same,       \* the target is the source
  place,      \* "open", "run" or "done"
  pos,        \* bytes consumed; from the end by a reversal
  line,       \* bytes of the line that mygetline() has read
  room,       \* bytes it has for it
  out,        \* what has been written
  faults,     \* the kinds of call that have failed
  exit        \* the status: "0", "1" or "crash"

vars == <<tool, text, same, place, pos, line, room, out, faults, exit>>

Init ==
  /\ tool \in Cats \cup Cps \cup Reverses \cup {"mygetline"}
  /\ text \in Texts
  /\ same \in (IF tool \in Cps \cup Reverses THEN BOOLEAN ELSE {FALSE})
  /\ place = "open"
  /\ pos = 0 /\ line = 0 /\ room = 0
  /\ out = <<>>
  /\ faults = {}
  /\ exit = "0"

\* Opening the target for writing empties it.
Source == IF same /\ place # "open" THEN <<>> ELSE text

Rest == Len(Source) - pos

Fewer(m, n) == IF m < n THEN m ELSE n

\* The next n bytes, and the n bytes before those that have been reversed.
Ahead(n)  == SubSeq(Source, pos + 1, pos + n)
Behind(n) == SubSeq(Source, Rest - n + 1, Rest)

\* strlen(), where a NUL follows the buffer.
Strlen(buf) ==
  IF Contains(buf, Nul) THEN SelectInSeq(buf, LAMBDA b : b = Nul) - 1 ELSE Len(buf)

\* mygetline() has room for the next byte.
Fits == place = "run" /\ room > 0 /\ line # room - 1

Quit(status) == place' = "done" /\ exit' = status

-----------------------------------------------------------------------------
(* Steps of all the tools.                                                 *)

Open ==
  /\ place = "open"
  /\ place' = "run"
  /\ UNCHANGED <<tool, text, same, pos, line, room, out, faults, exit>>

OpenFails ==
  /\ place = "open" /\ tool # "mygetline"
  /\ faults' = {"open"}
  /\ Quit("1")
  /\ UNCHANGED <<tool, text, same, pos, line, room, out>>

\* A turn of the loop uses up n bytes and writes some; nobody looks whether
\* they have been written.
Puts(n, bytes) ==
  /\ place = "run" /\ Rest > 0
  /\ pos' = pos + n
  /\ \/ out' = out \o bytes /\ UNCHANGED faults
     \/ UNCHANGED out /\ faults' = faults \cup {"write"}
  /\ UNCHANGED <<tool, text, same, place, line, room, exit>>

\* The end of the file.
End ==
  /\ place = "run" /\ Rest = 0
  /\ Quit("0")
  /\ UNCHANGED <<tool, text, same, pos, line, room, out, faults>>

\* cat tells of a read that fails; the others ignore what mycp() and
\* reverse_file() return, and mygetline() takes it for the end of the file.
ReadFails ==
  /\ place = "run"
  /\ tool \in Reverses => Rest > 0
  /\ tool = "mygetline" => Fits
  /\ faults' = faults \cup {"read"}
  /\ Quit(IF tool \in Cats THEN "1" ELSE "0")
  /\ UNCHANGED <<tool, text, same, pos, line, room, out>>

\* A source that cannot be positioned: its size seems to be -1, and nothing is
\* reversed; by blocks, a later lseek() can fail, too.  Nobody looks.
SeekFails ==
  /\ place = "run" /\ tool \in Reverses
  /\ pos > 0 => tool = "reverse_fd" /\ Rest > 0
  /\ faults' = faults \cup {"seek"}
  /\ Quit("0")
  /\ UNCHANGED <<tool, text, same, pos, line, room, out>>

-----------------------------------------------------------------------------
(* What a turn of the loop moves.                                          *)

\* fgetc() and fputc().
Char == Puts(1, Ahead(1))

\* fread() or read(), and as much is written.
Block == LET n == Fewer(BUFSIZE, Rest) IN Puts(n, Ahead(n))

\* fgets() reads up to the end of a line or of the buffer.
LineLen ==
  LET most == Fewer(BUFSIZE - 1, Rest)
      ends == {n \in 1 .. most : Ahead(n)[n] = Newline}
  IN IF ends = {} THEN most ELSE CHOOSE n \in ends : \A m \in ends : n <= m

\* fputs() writes up to the first NUL.
Line == Puts(LineLen, SubSeq(Ahead(LineLen), 1, Strlen(Ahead(LineLen))))

\* fseek(-i, SEEK_END), fgetc() and fputc().
CharBehind == Puts(1, Behind(1))

\* Mutant of reverse_str: j starts at strlen(buf), at the NUL.
Mutreverse_str(buf) ==
  LET len == Strlen(buf)
  IN SubSeq(<<Nul>> \o Reverse(SubSeq(buf, 1, len)) \o SubSeq(buf, len + 2, Len(buf)),
            1, Len(buf))

\* reverse_str() reverses what comes before the first NUL.
reverse_str(buf) ==
  LET len == Strlen(buf)
  IN Reverse(SubSeq(buf, 1, len)) \o SubSeq(buf, len + 1, Len(buf))

BlockBehind ==
  LET n == Fewer(BUFSIZE, Rest) IN Puts(n, reverse_str(Behind(n)))

-----------------------------------------------------------------------------
(* mygetline()                                                             *)

\* The first call of malloc(), which gives the first STEP bytes or fails.
Malloc ==
  /\ place = "run" /\ room = 0
  /\ \/ room' = STEP /\ UNCHANGED <<place, exit, faults>>
     \/ Quit("0") /\ faults' = {"malloc"} /\ UNCHANGED room
  /\ UNCHANGED <<tool, text, same, pos, line, out>>

\* realloc() makes room for the next byte and a NUL, or its NULL is followed.
Realloc ==
  /\ place = "run" /\ room > 0 /\ line = room - 1
  /\ \/ room' = room + STEP /\ UNCHANGED <<place, exit, faults>>
     \/ Quit("crash") /\ faults' = {"malloc"} /\ UNCHANGED room
  /\ UNCHANGED <<tool, text, same, pos, line, out>>

\* A byte of the line.
GetByte ==
  /\ Fits /\ Rest > 0
  /\ Ahead(1)[1] \notin {Newline, Minus1}
  /\ line' = line + 1
  /\ pos' = pos + 1
  /\ UNCHANGED <<tool, text, same, place, room, out, faults, exit>>

\* The last byte of the line, which main() prints up to a NUL.
GetNewline ==
  /\ Fits /\ Rest > 0
  /\ Ahead(1)[1] = Newline
  /\ LET this == SubSeq(Source, pos - line + 1, pos + 1)
     IN out' = out \o SubSeq(this, 1, Strlen(this))
  /\ line' = 0
  /\ pos' = pos + 1
  /\ UNCHANGED <<tool, text, same, place, room, faults, exit>>

\* The end of the input, or a byte that looks like it.
GetEOF ==
  /\ Fits
  /\ Rest > 0 => Ahead(1)[1] = Minus1
  /\ Quit("0")
  /\ UNCHANGED <<tool, text, same, pos, line, room, out, faults>>

-----------------------------------------------------------------------------
(* The tools.                                                              *)

mycat        == tool = "mycat" /\ (Open \/ Char \/ End)
mycat_line   == tool = "mycat_line" /\ (Open \/ Line \/ End)
mycat_fread  == tool = "mycat_fread" /\ (Open \/ Block \/ End)
mycat_fd     == tool = "mycat_fd" /\ (Open \/ Block \/ End)
mycp         == tool = "mycp" /\ (Open \/ Line \/ End)
mycp_fd      == tool = "mycp_fd" /\ (Open \/ Block \/ End)
reverse      == tool = "reverse" /\ (Open \/ CharBehind \/ End)
reverse_fd   == tool = "reverse_fd" /\ (Open \/ BlockBehind \/ End)
mygetline    == tool = "mygetline" /\ (Open \/ Malloc \/ Realloc \/ GetByte \/ GetNewline \/ GetEOF)

Tool ==
  \/ mycat \/ mycat_line \/ mycat_fread \/ mycat_fd
  \/ mycp \/ mycp_fd
  \/ reverse \/ reverse_fd
  \/ mygetline

Next == Tool \/ OpenFails \/ ReadFails \/ SeekFails

-----------------------------------------------------------------------------
(* Properties.                                                             *)

Has(byte) == Contains(text, byte)

ByLine == {"mycat_line", "mycp"}

\* The lines of the input that have ended.
EndedLines ==
  LET n == CHOOSE k \in 0 .. Len(text) :
             /\ k > 0 => text[k] = Newline
             /\ \A l \in (k + 1) .. Len(text) : text[l] # Newline
  IN SubSeq(text, 1, n)

\* A tool for which no call failed has written what its name says, if its
\* target is another file.  By bytes and blocks a cat or a cp writes any text,
\* and a reversal by bytes reverses any text.  By lines, a text without NULs is
\* copied, by blocks one is reversed; of a text with NULs the latter keeps the
\* length at least.  mygetline() prints the lines that have ended of a text
\* without NUL and 0xff.
Faithful ==
  place = "done" /\ faults = {} /\ ~same =>
    /\ tool \in ByLine => (~Has(Nul) => out = text)
    /\ tool \in (Cats \cup Cps) \ ByLine => out = text
    /\ tool = "reverse" => out = Reverse(text)
    /\ tool = "reverse_fd" => (~Has(Nul) => out = Reverse(text)) /\ Len(out) = Len(text)
    /\ tool = "mygetline" => (~Has(Nul) /\ ~Has(Minus1) => out = EndedLines)

\* A byte and the NUL after it stay in the room that mygetline() has.
InRoom == room > 0 => line < room /\ (Fits => line + 1 < room)

\* A cat that exits with 0 has read everything; cp and reverse promise it not.
ReadAll == place = "done" /\ exit = "0" /\ tool \in Cats => pos = Len(text)
=============================================================================
