-------------------------------- MODULE Pipes --------------------------------
(***************************************************************************)
(* The programs of prob05 that talk through pipes: p1a.c, p1b.c and p1c.c  *)
(* (a father sends his son two numbers), p2a.c (and gets results back),    *)
(* p4.c (ls | grep | sort), and a named pipe with the reader p06a1.c and   *)
(* the writers p06a2.c and p06b1.c.                                        *)
(***************************************************************************)
EXTENDS Exercise, Integers, Sequences, SequencesExt, FiniteSets

CONSTANTS
    Listings,           \* what ls may print, in lines: "match" or "other"
    CAPACITY,           \* how many lines fill a pipe of p4
    MESSAGES            \* how many each writer of the named pipe sends (3 in the code)

ASSUME PipesAssumption ==
    /\ CAPACITY \in Nat \ {0} /\ MESSAGES \in Nat
    /\ Listings \subseteq Seq({"match", "other"})

VARIABLES
    place,              \* the statement each process is at
    piped,              \* what is in each pipe
    open,               \* the ends that are open: <<process, pipe, end>>
    received,           \* what each process has read
    todo                \* what each process has still to write, a write at a time

pipes_vars == <<place, piped, open, received, todo>>

\* Processes bear the name of the program they run or of their part in it.
Pair == {"father", "son"}
Pipeline == {"sort", "ls", "grep"}
Writers == {"writer_a2", "writer_b1"}
Users == {"reader"} \cup Writers
Everybody == Pair \cup Pipeline \cup Users
PipeNames == {"fd", "fd1", "fd2", "fifo"}

SumPrograms == {"prob05/p1a", "prob05/p1b", "prob05/p1c"}
PipesPrograms == SumPrograms \cup {"prob05/p2a", "prob05/p4", "prob05/p06"}

\* What p1c puts behind the digits it reads is not initialised.
Typed == IF program = "prob05/p1c" THEN "anything" ELSE "numbers"

\* p2a writes eight bytes, then sixteen, half of which lie behind the son's array.
SonWrites == <<<<"sums">>, <<"products", "beyond">>>>

Messages(w) == [i \in 1 .. MESSAGES |-> <<<<w, i>>>>]

\* The named pipe may be left over from an earlier run.
PipesInit ==
    /\ place \in [Everybody -> {"start", "unborn", "open"}]
    /\ \A p \in Everybody : place[p] \in CASE p = "reader" -> {"start", "open"}
                                           [] p \in Writers -> {"open"}
                                           [] p \in {"father", "sort"} -> {"start"}
                                           [] OTHER -> {"unborn"}
    /\ piped = [f \in PipeNames |-> << >>] /\ open = {}
    /\ received = [p \in Everybody |-> << >>]
    /\ todo = [p \in Everybody |-> CASE p = "father" -> <<<<Typed>>>>
                                     [] p = "son" -> SonWrites
                                     [] p \in Writers -> Messages(p)
                                     [] OTHER -> << >>]

-----------------------------------------------------------------------------
(* Pipes *)
Goes(p, from, to) == place[p] = from /\ place' = [place EXCEPT ![p] = to]
OpenEnds(f, end) == {e \in open : e[2] = f /\ e[3] = end}

\* What is in a pipe is gone with its last end.
Close(ends) ==
    /\ open' = open \ ends
    /\ piped' = [f \in PipeNames |-> IF \E e \in open \ ends : e[2] = f THEN piped[f] ELSE << >>]

\* Slip: the ends to write are left open.
ClosePipe_reads(p, from, f, end, to) ==
    /\ Goes(p, from, to) /\ UNCHANGED <<received, todo>>
    /\ Close(IF end = "READ" THEN {<<p, f, end>>} ELSE {})

ClosePipe(p, from, f, end, to) ==
    Goes(p, from, to) /\ Close({<<p, f, end>>}) /\ UNCHANGED <<received, todo>>

\* The end of a process, by exit or by a signal, closes what it has open.
Finish(p, from, to) ==
    Goes(p, from, to) /\ Close({e \in open : e[1] = p}) /\ UNCHANGED <<received, todo>>

\* Without a reader a write ends the process (SIGPIPE).
WritePipe(p, from, f, to) ==
    /\ todo[p] # << >>
    /\ \/ /\ OpenEnds(f, "READ") # {} /\ Goes(p, from, to)
          /\ piped' = [piped EXCEPT ![f] = @ \o Head(todo[p])]
          /\ todo' = [todo EXCEPT ![p] = Tail(@)] /\ UNCHANGED <<open, received>>
       \/ OpenEnds(f, "READ") = {} /\ Finish(p, from, "killed")

\* A read blocks while the pipe is empty and somebody has it open to write.
ReadPipe(p, from, f, to, at_end) ==
    \/ /\ piped[f] # << >> /\ Goes(p, from, to)
       /\ received' = [received EXCEPT ![p] = Append(@, Head(piped[f]))]
       /\ piped' = [piped EXCEPT ![f] = Tail(@)] /\ UNCHANGED <<open, todo>>
    \/ /\ piped[f] = << >> /\ OpenEnds(f, "WRITE") = {}
       /\ Goes(p, from, at_end) /\ UNCHANGED <<piped, open, received, todo>>

MakePipes(p, from, fs, to) ==
    /\ Goes(p, from, to) /\ open' = open \cup {p} \X fs \X {"READ", "WRITE"}
    /\ UNCHANGED <<piped, received, todo>>

\* The child has open what its parent has.  On failure the parent goes on with -1.
ForkPipes(p, q, from, p_to, q_to, failed) ==
    \/ /\ place[p] = from /\ place' = [place EXCEPT ![p] = p_to, ![q] = q_to]
       /\ open' = open \cup {<<q, e[2], e[3]>> : e \in {e \in open : e[1] = p}}
       /\ UNCHANGED <<piped, received, todo>>
    \/ Goes(p, from, failed) /\ UNCHANGED <<piped, open, received, todo>>

-----------------------------------------------------------------------------
(* p1a, p1b and p1c.  A father that is told -1 takes itself for the son. *)
SumAndDifference ==
    \/ MakePipes("father", "start", {"fd"}, "fork")
    \/ ForkPipes("father", "son", "fork", "close", "son", "son")
    \/ ClosePipe("father", "close", "fd", "READ", "write")
    \/ WritePipe("father", "write", "fd", "end")
    \/ \E p \in Pair : \/ ClosePipe(p, "son", "fd", "WRITE", "read")
                       \/ ReadPipe(p, "read", "fd", "end", "end")
                       \/ Finish(p, "end", "ended")

p1a_pipe == program = "prob05/p1a" /\ SumAndDifference
p1b_pipe == program = "prob05/p1b" /\ SumAndDifference
p1c      == program = "prob05/p1c" /\ SumAndDifference

\* p2a: the son answers.
FatherOfTwo ==
    \/ MakePipes("father", "start", {"fd", "fd1"}, "fork")
    \/ ForkPipes("father", "son", "fork", "close", "son", "end")
    \/ ClosePipe("father", "close", "fd", "READ", "close1")
    \/ ClosePipe("father", "close1", "fd1", "WRITE", "write")
    \/ WritePipe("father", "write", "fd", "close2")
    \/ ClosePipe("father", "close2", "fd", "WRITE", "read")
    \/ ReadPipe("father", "read", "fd1", "read1", "read1")
    \/ ReadPipe("father", "read1", "fd1", "end", "end")
    \/ Finish("father", "end", "ended")

SonOfTwo ==
    \/ ClosePipe("son", "son", "fd", "WRITE", "son1")
    \/ ClosePipe("son", "son1", "fd1", "READ", "read")
    \/ ReadPipe("son", "read", "fd", "close", "close")
    \/ ClosePipe("son", "close", "fd", "READ", "sums")
    \/ WritePipe("son", "sums", "fd1", "products")
    \/ WritePipe("son", "products", "fd1", "end")
    \/ Finish("son", "end", "ended")

p2a == program = "prob05/p2a" /\ (FatherOfTwo \/ SonOfTwo)

-----------------------------------------------------------------------------
(* p4: the first process becomes sort, or one of the others if it is told -1. *)
SortPart ==
    \/ MakePipes("sort", "start", {"fd2"}, "fork_ls")
    \/ ForkPipes("sort", "ls", "fork_ls", "close2", "ls", "ls")
    \/ ClosePipe("sort", "close2", "fd2", "WRITE", "pipe1")
    \/ MakePipes("sort", "pipe1", {"fd1"}, "fork_grep")
    \/ ForkPipes("sort", "grep", "fork_grep", "close1", "grep", "grep")
    \/ ClosePipe("sort", "close1", "fd1", "WRITE", "close3")
    \/ ClosePipe("sort", "close3", "fd2", "READ", "sorting")
    \/ ReadPipe("sort", "sorting", "fd1", "sorting", "sorted")
    \/ Finish("sort", "sorted", "ended")

\* A write to a full pipe blocks; one without a reader does not.
Room(f) == Len(piped[f]) < CAPACITY \/ OpenEnds(f, "READ") = {}

\* What ls reads of the directory it writes, line by line.
LsPart(p) ==
    \/ ClosePipe(p, "ls", "fd2", "READ", "exec_ls")
    \/ /\ Goes(p, "exec_ls", "listing")
       /\ \E l \in Listings : /\ received' = [received EXCEPT ![p] = l]
                              /\ todo' = [todo EXCEPT ![p] = [i \in 1 .. Len(l) |-> <<l[i]>>]]
       /\ UNCHANGED <<piped, open>>
    \/ Room("fd2") /\ WritePipe(p, "listing", "fd2", "listing")
    \/ todo[p] = << >> /\ Finish(p, "listing", "ended")

GrepPart(p) ==
    \/ ClosePipe(p, "grep", "fd1", "READ", "grepping")
    \/ ReadPipe(p, "grepping", "fd2", "matching", "grepped")
    \/ /\ Goes(p, "matching", "grepping") /\ Last(received[p]) = "other"
       /\ UNCHANGED <<piped, open, received, todo>>
    \/ /\ Goes(p, "matching", "writing") /\ Last(received[p]) = "match"
       /\ todo' = [todo EXCEPT ![p] = <<<<"match">>>>] /\ UNCHANGED <<piped, open, received>>
    \/ Room("fd1") /\ WritePipe(p, "writing", "fd1", "grepping")
    \/ Finish(p, "grepped", "ended")

p4 == program = "prob05/p4" /\ (SortPart \/ \E p \in Pipeline : LsPart(p) \/ GrepPart(p))

-----------------------------------------------------------------------------
(* The named pipe.  Opening it to read or to write waits for the other side, *)
(* opening it for both (p06b1) does not; without it a writer tries again.    *)
mkfifo == Goes("reader", "start", "open") /\ UNCHANGED <<piped, open, received, todo>>

OpenFifo(p, ends) ==
    LET now == open \cup {p} \X {"fifo"} \X ends
        wants == [q \in Users |-> IF q = "reader" THEN "WRITE" ELSE "READ"]
    IN  /\ place[p] = "open" /\ place["reader"] # "start"
        /\ open' = now
        /\ place' = [q \in Everybody |->
                        IF q # p /\ place[q] # "opening" THEN place[q]
                        ELSE IF \E e \in now : e[2] = "fifo" /\ e[3] = wants[q]
                        THEN "opened" ELSE "opening"]
        /\ UNCHANGED <<piped, received, todo>>

\* Slip: the first message is read before the loop and not printed.
readline_unprinted ==
    \/ /\ Goes("reader", "opened", "eof") /\ piped["fifo"] # << >>
       /\ piped' = [piped EXCEPT !["fifo"] = Tail(@)] /\ UNCHANGED <<open, received, todo>>
    \/ ReadPipe("reader", "eof", "fifo", "eof", "closing")

\* while (readline(fd, str)) printf: a message is written at once and read byte by byte
\* by the one reader.
readline == ReadPipe("reader", "opened", "fifo", "opened", "closing")

p06a1 ==
    \/ mkfifo \/ OpenFifo("reader", {"READ"}) \/ readline
    \/ Finish("reader", "closing", "ended")

SendMessages(w) ==
    \/ WritePipe(w, "opened", "fifo", "opened")
    \/ todo[w] = << >> /\ Finish(w, "opened", "ended")

p06a2 == OpenFifo("writer_a2", {"WRITE"}) \/ SendMessages("writer_a2")
p06b1 == OpenFifo("writer_b1", {"READ", "WRITE"}) \/ SendMessages("writer_b1")

p06 == program = "prob05/p06" /\ (p06a1 \/ p06a2 \/ p06b1)

PipesNext ==
    (p1a_pipe \/ p1b_pipe \/ p1c \/ p2a \/ p4 \/ p06) /\ UNCHANGED program

PipesSpec == program \in PipesPrograms /\ PipesInit /\ [][PipesNext]_<<program, pipes_vars>>

-----------------------------------------------------------------------------
Working == {p \in Everybody : place[p] \notin {"unborn", "ended", "killed"}}
Taking == CASE program = "prob05/p4" -> Pipeline
            [] program = "prob05/p06" -> Users
            [] program \in PipesPrograms \ {"prob05/p4", "prob05/p06"} -> Pair
            [] OTHER -> {}

\* A read blocks while the pipe is empty and somebody has it open to write, a write while
\* it is full, the opening of a named pipe while nobody has the other side open.
BlocksOn(f) == piped[f] = << >> /\ OpenEnds(f, "WRITE") # {}

Waits(p) ==
    \/ program \in SumPrograms /\ place[p] = "read" /\ BlocksOn("fd")
    \/ /\ program = "prob05/p2a"
       /\ \/ p = "father" /\ place[p] \in {"read", "read1"} /\ BlocksOn("fd1")
          \/ p = "son" /\ place[p] = "read" /\ BlocksOn("fd")
    \/ /\ program = "prob05/p4"
       /\ \/ place[p] = "sorting" /\ BlocksOn("fd1")
          \/ place[p] = "grepping" /\ BlocksOn("fd2")
          \/ place[p] = "listing" /\ todo[p] # << >> /\ ~Room("fd2")
          \/ place[p] = "writing" /\ ~Room("fd1")
    \/ /\ program = "prob05/p06"
       /\ \/ place[p] = "opening"
          \/ p = "reader" /\ place[p] = "opened" /\ BlocksOn("fifo")

\* No program stops half-way, each waiting for another to close its end of a pipe, to write
\* to it or to make room (prob05/p4.c:18-33): the ends left open by fork are closed in
\* time, also when a fork fails.  Only one that opens the named pipe when all the others have gone waits on
\* (p06a1.c:15, p06a2.c:15), reader or writer.
SomebodyGoesOn ==
    LET at_work == Working \cap Taking
    IN  (\A p \in at_work : Waits(p)) =>
            at_work = {} \/ \E p \in {"reader", "writer_a2"} : at_work = {p} /\ place[p] = "opening"

\* There is nothing else to wait for: whoever does not wait can go on.
NobodyIsStuck ==
    /\ (\A p \in Working \cap Taking : Waits(p)) <=> ~ENABLED PipesNext
    /\ SomebodyGoesOn

Matches(lines) == {i \in 1 .. Len(lines) : lines[i] = "match"}

\* The son prints what was typed in, the father of p2a the sums and the products although
\* more is written than he reads (p2a.c:39-40, 71-72), sort gets the lines that match.
PipesDeliver ==
    /\ (program \in SumPrograms /\ place["son"] = "ended") => received["son"] = <<Typed>>
    /\ (program = "prob05/p2a" /\ place["father"] = "ended" /\ place["son"] # "unborn") =>
           received["father"] = <<"sums", "products">>
    /\ (program = "prob05/p4" /\ place["sort"] = "sorted") =>
           received["sort"] = [i \in 1 .. Cardinality(Matches(received["ls"])) |-> "match"]

\* Where the messages of a writer are, and that they are its first n, each once.
Of(s, w) == {i \in 1 .. Len(s) : s[i][1] = w}
InOrder(s, w, n) ==
    /\ {s[i][2] : i \in Of(s, w)} = 1 .. n
    /\ \A i, j \in Of(s, w) : i < j => s[i][2] < s[j][2]

\* As long as the reader has the named pipe open, what each writer has written is printed
\* or about to be, in its order, and nothing of it twice.  All messages of a writer are lost
\* if it has gone before the reader came, with p06b1 in the reader's place: that one has
\* the pipe open both ways and reads nothing (p06b1.c:15).  (What a writer sends
\* between the reader's end of file and its close is lost, p06a1.c:16-18.)
FifoDelivers ==
    <<"reader", "fifo", "READ">> \in open =>
        \A w \in Writers :
            LET s == received["reader"] \o piped["fifo"]
            IN  \/ InOrder(s, w, MESSAGES - Len(todo[w]))
                \/ place[w] \in {"ended", "killed"} /\ Of(s, w) = {}

\* What is written to a pipe or a named pipe arrives whole, in order and once, as long as
\* its reader stays.
WhatIsWrittenArrives == PipesDeliver /\ FifoDelivers
=============================================================================
