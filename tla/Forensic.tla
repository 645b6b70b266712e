------------------------------ MODULE Forensic ------------------------------
(***************************************************************************)
(* The file analyser (Project1/forensic.c): a tree of processes, one for   *)
(* each directory, that report the files they find and, with -o, signal    *)
(* each directory and file to the first process.  The report of a file is  *)
(* counted, its text left out; so are the hashes and the log of -v.        *)
(***************************************************************************)
EXTENDS Naturals, FiniteSets

CONSTANTS
    Dirs, Files,
    Root,               \* the directory of the command line, or its file's
    Contents            \* what readdir finds there, hidden directories left out

ASSUME TreeAssumption ==
    /\ Root \in Dirs /\ Dirs \cap Files = {}
    /\ Contents \in [Dirs -> SUBSET (Dirs \cup Files)]
    /\ \A d, e \in Dirs : /\ Root \notin Contents[d]
                          /\ d # e => Contents[d] \cap Contents[e] = {}

\* The tree is all that is found from Root on.
ASSUME ReachAssumption ==
    \A D \in SUBSET Dirs :
        (Root \in D /\ \A d \in D : Contents[d] \cap Dirs \subseteq D)
            => D = Dirs /\ Files \subseteq UNION {Contents[d] : d \in D}

VARIABLES
    target,             \* the path of the command line
    saves,              \* options.o_command # NULL
    buffered,           \* standard output is no terminal: printf fills a buffer
    pc, where,          \* a process is named after the directory it is forked for
    left,               \* what readdir has still to give
    current,            \* the file being analysed, or Root
    forked,             \* in the else branch of fork() > 0: exit(0) comes next
    father, reaped,
    pending,            \* signals sent to the first process and not yet handled
    nDirectory, nFiles,
    buffer, output,     \* how often the line of each file is in them
    cut                 \* the processes that have stopped with entries unread

proc_vars == <<where, left, current, forked, father>>
out_vars == <<buffer, output>>
count_vars == <<pending, nDirectory, nFiles>>
option_vars == <<target, saves, buffered>>
vars == <<option_vars, pc, proc_vars, reaped, count_vars, out_vars, cut>>

Gone == {"exited", "crashed"}
None == [f \in Files |-> 0]

Init ==
    /\ target \in {Root} \cup (Contents[Root] \cap Files)
    /\ saves \in BOOLEAN /\ buffered \in BOOLEAN
    /\ pc = [p \in Dirs |-> IF p = Root THEN "enter" ELSE "unborn"]
    /\ where = [p \in Dirs |-> p] /\ left = [p \in Dirs |-> {}]
    /\ current = [p \in Dirs |-> Root]
    /\ forked = [p \in Dirs |-> FALSE] /\ father = [p \in Dirs |-> p]
    /\ reaped = {} /\ pending = {} /\ nDirectory = 0 /\ nFiles = 0
    /\ buffer = [p \in Dirs |-> None] /\ output = None
    /\ cut = {}

ForensicTypeOK ==
    /\ target \in Dirs \cup Files /\ saves \in BOOLEAN /\ buffered \in BOOLEAN
    /\ pc \in [Dirs -> {"unborn", "enter", "read", "analyze", "wait", "end"} \cup Gone]
    /\ where \in [Dirs -> Dirs] /\ left \in [Dirs -> SUBSET (Dirs \cup Files)]
    /\ current \in [Dirs -> Files \cup {Root}]
    /\ forked \in [Dirs -> BOOLEAN] /\ father \in [Dirs -> Dirs] /\ reaped \subseteq Dirs
    /\ pending \subseteq {"SIGUSR1", "SIGUSR2"} /\ nDirectory \in Nat /\ nFiles \in Nat
    /\ buffer \in [Dirs -> [Files -> Nat]] /\ output \in [Files -> Nat]
    /\ cut \subseteq Dirs

-----------------------------------------------------------------------------
(* Signals. *)

Count(sig) ==
    /\ nDirectory' = IF sig = "SIGUSR1" THEN nDirectory + 1 ELSE nDirectory
    /\ nFiles' = IF sig = "SIGUSR2" THEN nFiles + 1 ELSE nFiles

\* Slip: sent without -o too.
Signal_always(p, sig) ==
    IF pc[Root] \in Gone THEN UNCHANGED count_vars
    ELSE IF p = Root THEN Count(sig) /\ pending' = pending \ {sig}
    ELSE pending' = pending \cup {sig} /\ UNCHANGED <<nDirectory, nFiles>>

\* kill(options.parent_id, sig).  A signal already pending is not sent twice; the
\* first process handles its own before kill returns.
Signal(p, sig) ==
    IF ~saves \/ pc[Root] \in Gone THEN UNCHANGED count_vars
    ELSE IF p = Root THEN Count(sig) /\ pending' = pending \ {sig}
    ELSE pending' = pending \cup {sig} /\ UNCHANGED <<nDirectory, nFiles>>

Children(p) == {c \in Dirs : father[c] = p /\ c # Root /\ pc[c] # "unborn"}
Living(p) == {c \in Children(p) : pc[c] \notin Gone}

\* sig_handler runs.  No SA_RESTART: a wait that blocks returns -1, and the read of
\* what `file` prints fails, after which the empty result is taken apart.
HandleSignal ==
    /\ pc[Root] \notin Gone
    /\ \E sig \in pending : Count(sig) /\ pending' = pending \ {sig}
    /\ \/ UNCHANGED pc
       \/ pc[Root] = "wait" /\ Living(Root) # {} /\ pc' = [pc EXCEPT ![Root] = "end"]
       \/ pc[Root] = "analyze" /\ pc' = [pc EXCEPT ![Root] = "crashed"]
    /\ UNCHANGED <<option_vars, proc_vars, reaped, out_vars, cut>>

-----------------------------------------------------------------------------
(* analyze_path and analyze_file, in process p. *)

Path(p) == IF p = Root /\ ~forked[p] THEN target ELSE where[p]
Entries(p) == IF Path(p) \in Dirs THEN Contents[Path(p)] ELSE {Path(p)}

\* Slip: a directory is signalled as a file.
AnalyzePath_swapped(p) ==
    /\ pc[p] = "enter" /\ pc' = [pc EXCEPT ![p] = "read"]
    /\ Signal(p, "SIGUSR2")
    /\ left' = [left EXCEPT ![p] = Entries(p)]
    /\ UNCHANGED <<option_vars, where, current, forked, father, reaped, out_vars, cut>>

AnalyzePath(p) ==
    /\ pc[p] = "enter" /\ pc' = [pc EXCEPT ![p] = "read"]
    /\ IF Path(p) \in Dirs THEN Signal(p, "SIGUSR1") ELSE UNCHANGED count_vars
    /\ left' = [left EXCEPT ![p] = Entries(p)]
    /\ UNCHANGED <<option_vars, where, current, forked, father, reaped, out_vars, cut>>

\* Slip: S_ISREG is not asked for.
AnalyzeFile_any(p) ==
    /\ pc[p] = "read" /\ pc' = [pc EXCEPT ![p] = "analyze"]
    /\ \E f \in left[p] :
          /\ current' = [current EXCEPT ![p] = f]
          /\ left' = [left EXCEPT ![p] = @ \ {f}]
    /\ Signal(p, "SIGUSR2")
    /\ UNCHANGED <<option_vars, where, forked, father, reaped, out_vars, cut>>

AnalyzeFile(p) ==
    /\ pc[p] = "read" /\ pc' = [pc EXCEPT ![p] = "analyze"]
    /\ \E f \in left[p] \cap Files :
          /\ current' = [current EXCEPT ![p] = f]
          /\ left' = [left EXCEPT ![p] = @ \ {f}]
    /\ Signal(p, "SIGUSR2")
    /\ UNCHANGED <<option_vars, where, forked, father, reaped, out_vars, cut>>

\* append_to_file, or printf.
Report(p) ==
    /\ pc[p] = "analyze" /\ pc' = [pc EXCEPT ![p] = "read"]
    /\ IF buffered /\ ~saves
       THEN buffer' = [buffer EXCEPT ![p][current[p]] = @ + 1] /\ UNCHANGED output
       ELSE output' = [output EXCEPT ![current[p]] = @ + 1] /\ UNCHANGED buffer
    /\ current' = [current EXCEPT ![p] = Root]
    /\ UNCHANGED <<option_vars, where, left, forked, father, reaped, count_vars, cut>>

\* Slip: the child goes on with the loop of its parent when it is through.
Fork_goes_on(p) ==
    /\ pc[p] = "read"
    /\ \E d \in left[p] \cap Dirs :
          /\ pc' = [pc EXCEPT ![d] = "read"]
          /\ left' = [left EXCEPT ![p] = @ \ {d},
                                  ![d] = Contents[d] \cup (left[p] \cap Files)]
          /\ father' = [father EXCEPT ![d] = p]
          /\ forked' = [forked EXCEPT ![d] = TRUE]
          /\ buffer' = [buffer EXCEPT ![d] = buffer[p]]
    /\ UNCHANGED <<option_vars, where, current, reaped, count_vars, output, cut>>

\* The child has what its parent had not yet flushed.
Fork(p) ==
    /\ pc[p] = "read"
    /\ \E d \in left[p] \cap Dirs :
          /\ pc' = [pc EXCEPT ![d] = "enter"]
          /\ left' = [left EXCEPT ![p] = @ \ {d}]
          /\ father' = [father EXCEPT ![d] = p]
          /\ forked' = [forked EXCEPT ![d] = TRUE]
          /\ buffer' = [buffer EXCEPT ![d] = buffer[p]]
    /\ UNCHANGED <<option_vars, where, current, reaped, count_vars, output, cut>>

\* -1 is taken for a child's 0: the process goes into the directory itself and then
\* exits, the rest of its own directory unread.
ForkFails(p) ==
    /\ pc[p] = "read" /\ pc' = [pc EXCEPT ![p] = "enter"]
    /\ \E d \in left[p] \cap Dirs : where' = [where EXCEPT ![p] = d]
    /\ forked' = [forked EXCEPT ![p] = TRUE]
    /\ left' = [left EXCEPT ![p] = {}]
    /\ cut' = cut \cup {p}
    /\ UNCHANGED <<option_vars, current, father, reaped, count_vars, out_vars>>

\* exit flushes standard output.
ExitOf(p) ==
    /\ pc' = [pc EXCEPT ![p] = "exited"]
    /\ output' = [f \in Files |-> output[f] + buffer[p][f]]
    /\ buffer' = [buffer EXCEPT ![p] = None]

\* Slip: _exit, which flushes nothing.
Leave_unflushed(p) ==
    /\ pc[p] = "read" /\ left[p] = {}
    /\ pc' = [pc EXCEPT ![p] = IF forked[p] THEN "exited" ELSE "wait"]
    /\ UNCHANGED <<option_vars, proc_vars, reaped, count_vars, out_vars, cut>>

\* The end of the directory: a child exits, the first process goes on to wait.
Leave(p) ==
    /\ pc[p] = "read" /\ left[p] = {}
    /\ IF forked[p] THEN ExitOf(p)
       ELSE pc' = [pc EXCEPT ![p] = "wait"] /\ UNCHANGED out_vars
    /\ UNCHANGED <<option_vars, proc_vars, reaped, count_vars, cut>>

\* stat, opendir or popen fails: exit(1).
Fail(p) ==
    /\ pc[p] \in {"enter", "read", "analyze"} /\ ExitOf(p)
    /\ cut' = cut \cup {p}
    /\ UNCHANGED <<option_vars, proc_vars, reaped, count_vars>>

\* SIGINT, which the terminal sends to each process: exit(0).
Interrupt(p) ==
    /\ pc[p] \notin {"unborn"} \cup Gone /\ ExitOf(p)
    /\ cut' = cut \cup {p}
    /\ UNCHANGED <<option_vars, proc_vars, reaped, count_vars>>

-----------------------------------------------------------------------------
(* The end of main. *)

\* wait(NULL) > 0.
Wait ==
    /\ pc[Root] = "wait"
    /\ \E c \in Children(Root) \ reaped : pc[c] \in Gone /\ reaped' = reaped \cup {c}
    /\ UNCHANGED <<option_vars, pc, proc_vars, count_vars, out_vars, cut>>

\* Slip: while (wait(NULL)), for which -1 is true.
NoMoreChildren_goes_on ==
    /\ pc[Root] = "wait" /\ Children(Root) \subseteq reaped
    /\ UNCHANGED vars

NoMoreChildren ==
    /\ pc[Root] = "wait" /\ Children(Root) \subseteq reaped
    /\ pc' = [pc EXCEPT ![Root] = "end"]
    /\ UNCHANGED <<option_vars, proc_vars, reaped, count_vars, out_vars, cut>>

End ==
    /\ pc[Root] = "end" /\ ExitOf(Root)
    /\ UNCHANGED <<option_vars, proc_vars, reaped, count_vars, cut>>

Works(p) == AnalyzePath(p) \/ AnalyzeFile(p) \/ Report(p) \/ Fork(p) \/ Leave(p)
Ends == Wait \/ NoMoreChildren \/ End
Next ==
    \/ \E p \in Dirs : Works(p) \/ ForkFails(p) \/ Fail(p) \/ Interrupt(p)
    \/ Ends \/ HandleSignal

\* The kernel runs every process.
Spec == Init /\ [][Next]_vars /\ (\A p \in Dirs : WF_vars(Works(p))) /\ WF_vars(Ends)

-----------------------------------------------------------------------------
(* Properties. *)

\* A file is reported by one process only: the entries of a directory are read where
\* it was opened, since a child exits instead of going back to its parent's loop
\* (forensic.c:167-188).  Not so when standard output is buffered: fork copies what
\* the parent has not flushed, and both write it.
ReportedOnce == (saves \/ ~buffered) => \A f \in Files : output[f] <= 1

\* A failure is local (forensic.c:149-188): whatever becomes of the others, a process that
\* is not cut short has reported every file of its directory when it ends, from whichever
\* buffer, and has forked for every directory in it.  So when all have ended, none before
\* its time, every file has been reported.
NothingMissed ==
    /\ \A d \in Dirs \ cut : pc[d] = "exited" =>
           /\ \A f \in Entries(d) \cap Files : output[f] >= 1
           /\ \A e \in Entries(d) \cap Dirs : pc[e] # "unborn"
    /\ (/\ \A p \in Dirs : pc[p] \in {"unborn"} \cup Gone
        /\ pc[Root] = "exited" /\ target = Root /\ cut = {})
           => \A f \in Files : output[f] >= 1

\* The counts printed for each new directory (forensic.c:24-37) may miss signals, which
\* do not queue, but never run ahead of the work: the files counted or about to be are
\* no more than those begun, by whichever process.
CountsStayBehind ==
    saves => nFiles + Cardinality(pending \cap {"SIGUSR2"})
                <= Cardinality({f \in Files : output[f] > 0 \/ \E p \in Dirs : current[p] = f})

\* The comment at forensic.c:247, where it holds: without -o nobody signals, wait is not
\* interrupted, and main ends after its children, however they end.
QuietRunWaits == (~saves /\ pc[Root] = "exited" /\ Root \notin cut) => Living(Root) = {}

\* The first process ends: it waits for children, and they for nobody.
RootEnds == <>(pc[Root] \in Gone)

\* The comment at forensic.c:247: main waits for all its children to terminate.
WaitsForChildren == (pc[Root] = "exited" /\ Root \notin cut) => Living(Root) = {}
=============================================================================
