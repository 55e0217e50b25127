-------------------------------- MODULE Pipe --------------------------------
(***************************************************************************)
(* The programs of ipc that share a pipe between a parent and its child:   *)
(* in ipc_pipe.c the child writes a text and the parent prints it, in      *)
(* test1.c the parent writes a file and the child becomes the player that  *)
(* reads it.  fork() leaves both ends open in both processes; a reader     *)
(* sees the end of the data when no process has the writing end open, and  *)
(* a writer is killed when none has the reading end open.                  *)
(***************************************************************************)
EXTENDS Integers

CONSTANTS
  Text,       \* bytes of the text
  MaxFile,    \* bound: bytes of a file
  PIECE,      \* bytes of a read(), and of a write() of the file
  PIPE_SIZE   \* bytes that the pipe holds

VARIABLES
  user,       \* the program: "print" (ipc_pipe.c) or "play" (test1.c)
  reader,     \* the places of the two processes
  writer,
  ends,       \* the open ends: <<process, end>>
  held,       \* bytes in the pipe
  todo,       \* bytes not yet written
  got,        \* bytes read
  total,      \* bytes there were to write
  broken      \* a call has failed, or the player has quit

vars == <<user, reader, writer, ends, held, todo, got, total, broken>>

Init ==
  /\ user \in {"print", "play"}
  /\ reader = "start" /\ writer = "start"
  /\ ends = {"reader", "writer"} \X {"r", "w"}
  /\ held = 0 /\ got = 0
  /\ total \in (IF user = "print" THEN {Text} ELSE 0 .. MaxFile)
  /\ todo = total
  /\ broken = FALSE

Reader(from, to) == reader = from /\ reader' = to
Writer(from, to) == writer = from /\ writer' = to

Fewer(m, n) == IF m < n THEN m ELSE n

Without(process) == {e \in ends : e[1] # process}

Open(end) == \E e \in ends : e[2] = end

-----------------------------------------------------------------------------
(* The reader: the parent of ipc_pipe.c, the player of test1.c.            *)

\* Mutant of ClosesWriteEnd: the end stays open.
MutClosesWriteEnd ==
  /\ Reader("start", "read")
  /\ UNCHANGED <<user, writer, ends, held, todo, got, total, broken>>

\* close(pfd[1])
ClosesWriteEnd ==
  /\ Reader("start", "read")
  /\ ends' = ends \ {<<"reader", "w">>}
  /\ UNCHANGED <<user, writer, held, todo, got, total, broken>>

Read ==
  /\ Reader("read", "read")
  /\ \E n \in 1 .. Fewer(held, PIECE) : held' = held - n /\ got' = got + n
  /\ UNCHANGED <<user, writer, ends, todo, total, broken>>

\* read() gives 0; the parent goes to wait for its child.
ReadEnd ==
  /\ held = 0 /\ ~Open("w")
  /\ Reader("read", IF user = "print" THEN "wait" ELSE "done")
  /\ ends' = Without("reader")
  /\ UNCHANGED <<user, writer, held, todo, got, total, broken>>

Wait ==
  /\ Reader("wait", "done")
  /\ writer \in {"done", "killed"}
  /\ UNCHANGED <<user, writer, ends, held, todo, got, total, broken>>

\* read() fails; or there is no player, or it ends before the file does.
ReaderFails ==
  /\ Reader("read", "failed")
  /\ ends' = Without("reader")
  /\ broken' = TRUE
  /\ UNCHANGED <<user, writer, held, todo, got, total>>

-----------------------------------------------------------------------------
(* The writer: the child of ipc_pipe.c, the parent of test1.c.             *)

\* close(pfd[0])
ClosesReadEnd ==
  /\ Writer("start", "write")
  /\ ends' = ends \ {<<"writer", "r">>}
  /\ UNCHANGED <<user, reader, held, todo, got, total, broken>>

\* test1.c cannot open the file.
OpenFails ==
  /\ user = "play"
  /\ Writer("start", "done")
  /\ ends' = Without("writer")
  /\ broken' = TRUE
  /\ UNCHANGED <<user, reader, held, todo, got, total>>

\* A write() of the text, or of the next piece of the file, at once.
Write ==
  /\ Writer("write", "write")
  /\ todo > 0
  /\ Open("r")
  /\ LET n == IF user = "print" THEN todo ELSE Fewer(todo, PIECE)
     IN /\ held + n <= PIPE_SIZE
        /\ held' = held + n
        /\ todo' = todo - n
  /\ UNCHANGED <<user, reader, ends, got, total, broken>>

\* SIGPIPE
WriteKills ==
  /\ Writer("write", "killed")
  /\ todo > 0
  /\ ~Open("r")
  /\ ends' = Without("writer")
  /\ UNCHANGED <<user, reader, held, todo, got, total, broken>>

WriteEnds ==
  /\ Writer("write", "done")
  /\ todo = 0
  /\ ends' = Without("writer")
  /\ UNCHANGED <<user, reader, held, todo, got, total, broken>>

\* mycopy() of test1.c cannot read the file.
CopyFails ==
  /\ user = "play"
  /\ Writer("write", "done")
  /\ ends' = Without("writer")
  /\ broken' = TRUE
  /\ UNCHANGED <<user, reader, held, todo, got, total>>

-----------------------------------------------------------------------------
ReaderStep == ClosesWriteEnd \/ Read \/ ReadEnd \/ Wait

WriterStep == ClosesReadEnd \/ Write \/ WriteKills \/ WriteEnds

Next == ReaderStep \/ WriterStep \/ ReaderFails \/ OpenFails \/ CopyFails

-----------------------------------------------------------------------------
(* Properties.                                                             *)

\* Both processes have ended, whoever closes its ends first.
BothEnd == reader \in {"done", "failed"} /\ writer \in {"done", "killed"}

\* Unless a call failed, a reader that is done has read everything, and no
\* writer is killed.
AllRead ==
  /\ reader = "done" /\ ~broken => got = total
  /\ writer = "killed" => broken
=============================================================================
