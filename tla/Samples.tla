------------------------------ MODULE Samples ------------------------------
(***************************************************************************)
(* The small programs, side by side: the initial state chooses one, and    *)
(* only that one runs.                                                     *)
(***************************************************************************)
EXTENDS Integers, Sequences, FiniteSets

CONSTANTS
  CPS, MaxSize,                             \* RatedCopy
  Text, MaxFile, PIECE, PIPE_SIZE,          \* Pipe
  THRNR, Nobody,                            \* Rotation
  Pids, Empty,                              \* Daemon
  Pollers, Boss, NoOwner, START, Ends,      \* PoolPoll
  Texts, BUFSIZE, STEP                      \* TextFiles

ASSUME CopyAssumption     == CPS \in Nat \ {0} /\ MaxSize \in Nat
ASSUME PipeAssumption     == {Text, MaxFile, PIPE_SIZE} \subseteq Nat /\ PIECE \in Nat \ {0}
ASSUME RotationAssumption == THRNR \in Nat \ {0}
ASSUME PollAssumption     ==
  /\ IsFiniteSet(Pollers) /\ Boss \notin Pollers /\ NoOwner \notin Pollers \cup {Boss}
  /\ START \in Nat \ {0} /\ Ends \subseteq Nat
  /\ \A e \in Ends : e >= START
ASSUME FileAssumption     ==
  /\ Texts \subseteq Seq(STRING)
  /\ BUFSIZE \in Nat /\ BUFSIZE > 1
  /\ STEP \in Nat \ {0}

VARIABLES
  program,
  copier, spot, ticking, token, taken, rest, size, written, lost, slack,
  user, reader, writer, ends, held, todo, got, total, broken,
  sample, curid, i, lastid, mon, thread, handler,
  inst, lockers, pidfile, spoilt,
  end, job, mut, num, stage, given,
  tool, text, same, place, pos, line, room, out, faults, exit

copy     == <<copier, spot, ticking, token, taken, rest, size, written, lost, slack>>
pipe     == <<user, reader, writer, ends, held, todo, got, total, broken>>
rotation == <<sample, curid, i, lastid, mon, thread, handler>>
daemon   == <<inst, lockers, pidfile, spoilt>>
pool     == <<end, job, mut, num, stage, given>>
file     == <<tool, text, same, place, pos, line, room, out, faults, exit>>
samples  == <<program, copy, pipe, rotation, daemon, pool, file>>

C == INSTANCE RatedCopy
I == INSTANCE Pipe
R == INSTANCE Rotation
D == INSTANCE Daemon
P == INSTANCE PoolPoll
F == INSTANCE TextFiles

\* Where another program runs, one initial state suffices.
SamplesInit ==
  /\ program \in {"copy", "pipe", "rotation", "daemon", "pool", "file"}
  /\ C!Init /\ I!Init /\ R!Init /\ D!Init /\ P!Init /\ F!Init
  /\ program # "copy" => copier = "tbf" /\ size = 0
  /\ program # "pipe" => user = "play" /\ total = 0
  /\ program # "pool" => end = START
  /\ program # "rotation" => sample = "test2"
  /\ program # "file" => tool = "mycat" /\ text = <<>>

Copies  == program = "copy" /\ C!Next /\ UNCHANGED <<program, pipe, rotation, daemon, pool, file>>
Pipes   == program = "pipe" /\ I!Next /\ UNCHANGED <<program, copy, rotation, daemon, pool, file>>
Rotates == program = "rotation" /\ R!Next /\ UNCHANGED <<program, copy, pipe, daemon, pool, file>>
Serves  == program = "daemon" /\ D!Next /\ UNCHANGED <<program, copy, pipe, rotation, pool, file>>
Pools   == program = "pool" /\ P!Next /\ UNCHANGED <<program, copy, pipe, rotation, daemon, file>>
Files   == program = "file" /\ F!Next /\ UNCHANGED <<program, copy, pipe, rotation, daemon, pool>>

SamplesNext == Copies \/ Pipes \/ Rotates \/ Serves \/ Pools \/ Files

\* The program that runs goes on; the alarm comes every second where it is set;
\* each thread gets a mutex that is free again and again.
SamplesFairness ==
  /\ WF_samples(Copies /\ C!Copy)
  /\ WF_samples(Copies /\ C!Alarm)
  /\ WF_samples(Pipes /\ I!ReaderStep)
  /\ WF_samples(Pipes /\ I!WriterStep)
  /\ WF_samples(Rotates /\ R!MainStep)
  /\ \A t \in R!Threads : SF_samples(Rotates /\ R!ThreadStep(t))
  /\ WF_samples(Files /\ F!Tool)
  /\ WF_samples(Pools /\ P!BossStep)
  /\ \A w \in Pollers : WF_samples(Pools /\ P!WorkerStep(w))
  /\ \A t \in Pollers \cup {Boss} : SF_samples(Pools /\ P!Lock(t))

SamplesSpec == SamplesInit /\ [][SamplesNext]_samples

SamplesFairSpec == SamplesSpec /\ SamplesFairness

-----------------------------------------------------------------------------
(* The properties of the programs.                                         *)

\* RatedCopy, Pipe and TextFiles: copies at a rate keep it and become complete;
\* what is written to a pipe is read, and both of its processes end; file tools
\* write what their names say, in their buffers, and end.
CopiesComplete ==
  /\ [](/\ program = "copy" => C!KeepsRate /\ C!EndsComplete
        /\ program = "pipe" => I!AllRead
        /\ program = "file" => F!Faithful /\ F!InRoom /\ F!ReadAll)
  /\ <>(/\ program = "copy" => C!Copied
        /\ program = "pipe" => I!BothEnd
        /\ program = "file" => place = "done")

\* Rotation: the threads take turns until the alarm, and the handler exits.
TakesTurns == R!InTurn /\ (program = "rotation" => R!GoesOn /\ R!Exits)

\* Daemon: one instance runs, and the file names it.
RunsAlone == D!RunsAlone

\* PoolPoll: numbers are handed out in their order, each once, to the last of
\* them or as long as a worker asks for one.
HandsOut ==
  /\ [](program = "pool" => P!GivenOnce /\ P!JoinsLast)
  /\ <>(program = "pool" => P!HandedOut)
=============================================================================
