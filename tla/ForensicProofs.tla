--------------------------- MODULE ForensicProofs ---------------------------
(***************************************************************************)
(* Any tree of directories: the types of Forensic's variables; that a file *)
(* is reported once; that without -o the first process ends after its      *)
(* children; that the counts stay behind the work; and that no process     *)
(* misses a file because another has failed.                               *)
(***************************************************************************)
EXTENDS Forensic, FiniteSetTheorems, TLAPS

\* The variables start with values of their types.
LEMMA InitTyped == Init => ForensicTypeOK
  <1> SUFFICES ASSUME Init PROVE ForensicTypeOK
    OBVIOUS
  <1> USE TreeAssumption DEF Init
  <1>1. None \in [Files -> Nat]
    BY DEF None
  <1>2. buffer \in [Dirs -> [Files -> Nat]] /\ output \in [Files -> Nat]
    BY <1>1
  <1>3. pc \in [Dirs -> {"unborn", "enter", "read", "analyze", "wait", "end"} \cup Gone]
    BY DEF Gone
  <1>4. target \in Dirs \cup Files
    OBVIOUS
  <1>5. /\ where \in [Dirs -> Dirs] /\ left \in [Dirs -> SUBSET (Dirs \cup Files)]
        /\ current \in [Dirs -> Files \cup {Root}] /\ father \in [Dirs -> Dirs]
        /\ forked \in [Dirs -> BOOLEAN]
    OBVIOUS
  <1> QED
    BY <1>2, <1>3, <1>4, <1>5 DEF ForensicTypeOK

\* One more of a file, or of none of them, leaves counts.
LEMMA OneMore ==
    ASSUME NEW f \in [Files -> Nat], NEW x
    PROVE  [f EXCEPT ![x] = @ + 1] \in [Files -> Nat]
  <1>1. CASE x \in Files
    BY <1>1
  <1>2. CASE x \notin Files
    <2>1. [f EXCEPT ![x] = @ + 1] = f
      BY <1>2
    <2> QED
      BY <2>1
  <1> QED
    BY <1>1, <1>2

\* A signal keeps the counts natural numbers and the pending signals the two there are.
LEMMA SignalTyped ==
    ASSUME ForensicTypeOK, NEW p, NEW sig \in {"SIGUSR1", "SIGUSR2"},
           Signal(p, sig) \/ UNCHANGED count_vars
    PROVE  pending' \subseteq {"SIGUSR1", "SIGUSR2"} /\ nDirectory' \in Nat /\ nFiles' \in Nat
  <1>1. /\ pending' \in {pending, pending \ {sig}, pending \cup {sig}}
        /\ nDirectory' \in {nDirectory, nDirectory + 1} /\ nFiles' \in {nFiles, nFiles + 1}
    BY DEF Signal, Count, count_vars
  <1>2. pending' \subseteq {"SIGUSR1", "SIGUSR2"}
    BY <1>1, Zenon DEF ForensicTypeOK
  <1>3. nDirectory' \in Nat /\ nFiles' \in Nat
    BY <1>1 DEF ForensicTypeOK
  <1> QED
    BY <1>2, <1>3

\* What exit flushes are counts again.
LEMMA ExitTyped ==
    ASSUME ForensicTypeOK, NEW p \in Dirs, ExitOf(p)
    PROVE  /\ pc' \in [Dirs -> {"unborn", "enter", "read", "analyze", "wait", "end"} \cup Gone]
           /\ buffer' \in [Dirs -> [Files -> Nat]] /\ output' \in [Files -> Nat]
  <1>1. None \in [Files -> Nat]
    BY DEF None
  <1>2. \A f \in Files : output[f] + buffer[p][f] \in Nat
    BY DEF ForensicTypeOK
  <1> QED
    BY <1>1, <1>2 DEF ExitOf, ForensicTypeOK, Gone

\* The path of a process is a directory or a file.
LEMMA PathTyped ==
    ASSUME ForensicTypeOK, NEW p \in Dirs
    PROVE  Path(p) \in Dirs \cup Files /\ (Path(p) \in Dirs => Contents[Path(p)] \subseteq Dirs \cup Files)
  BY TreeAssumption DEF ForensicTypeOK, Path

\* What a process does with its directory keeps the types.
LEMMA WorkTyped ==
    ASSUME ForensicTypeOK, NEW p \in Dirs, Works(p)
    PROVE  ForensicTypeOK'
  <1> USE DEF ForensicTypeOK, option_vars, Gone
  <1>1. CASE AnalyzePath(p)
    <2>1. pending' \subseteq {"SIGUSR1", "SIGUSR2"} /\ nDirectory' \in Nat /\ nFiles' \in Nat
      BY <1>1, SignalTyped DEF AnalyzePath
    <2>2. PICK entries \in SUBSET (Dirs \cup Files) : left' = [left EXCEPT ![p] = entries]
      <3>1. CASE Path(p) \in Dirs
        BY <1>1, <3>1, TreeAssumption DEF AnalyzePath, Entries
      <3>2. CASE Path(p) \notin Dirs
        BY <1>1, <3>2, PathTyped DEF AnalyzePath, Entries
      <3> QED
        BY <3>1, <3>2
    <2>3. left' \in [Dirs -> SUBSET (Dirs \cup Files)]
      BY <2>2
    <2> QED
      BY <1>1, <2>1, <2>3 DEF AnalyzePath, out_vars
  <1>2. CASE AnalyzeFile(p)
    <2>1. pending' \subseteq {"SIGUSR1", "SIGUSR2"} /\ nDirectory' \in Nat /\ nFiles' \in Nat
      BY <1>2, SignalTyped DEF AnalyzeFile
    <2> QED
      BY <1>2, <2>1 DEF AnalyzeFile, out_vars
  <1>3. CASE Report(p)
    <2>1. output' \in [Files -> Nat]
      <3>1. [output EXCEPT ![current[p]] = @ + 1] \in [Files -> Nat]
        BY OneMore
      <3> QED BY <1>3, <3>1 DEF Report
    <2>2. buffer' \in [Dirs -> [Files -> Nat]]
      <3>1. buffer[p] \in [Files -> Nat]
        OBVIOUS
      <3>2. [buffer[p] EXCEPT ![current[p]] = @ + 1] \in [Files -> Nat]
        BY <3>1, OneMore
      <3>3. \/ buffer' = buffer
            \/ buffer' = [buffer EXCEPT ![p] = [buffer[p] EXCEPT ![current[p]] = @ + 1]]
        BY <1>3 DEF Report
      <3> QED
        BY <3>2, <3>3
    <2> QED
      BY <1>3, <2>1, <2>2 DEF Report, count_vars
  <1>4. CASE Fork(p)
    BY <1>4 DEF Fork, count_vars
  <1>5. CASE Leave(p)
    BY <1>5, ExitTyped DEF Leave, proc_vars, count_vars, out_vars
  <1> QED
    BY <1>1, <1>2, <1>3, <1>4, <1>5 DEF Works

\* So do a failed fork, a failed opening and an interruption.
LEMMA FailureTyped ==
    ASSUME ForensicTypeOK, NEW p \in Dirs, ForkFails(p) \/ Fail(p) \/ Interrupt(p)
    PROVE  ForensicTypeOK'
  <1> USE DEF ForensicTypeOK, option_vars, count_vars
  <1>1. CASE ForkFails(p)
    BY <1>1 DEF ForkFails, out_vars
  <1>2. CASE Fail(p) \/ Interrupt(p)
    <2>1. ExitOf(p)
      BY <1>2 DEF Fail, Interrupt
    <2> QED
      BY <1>2, <2>1, ExitTyped DEF Fail, Interrupt, proc_vars
  <1> QED
    BY <1>1, <1>2

\* So do a wait and an end.
LEMMA EndTyped ==
    ASSUME ForensicTypeOK, Ends \/ HandleSignal
    PROVE  ForensicTypeOK'
  <1> USE TreeAssumption DEF ForensicTypeOK, option_vars, proc_vars
  <1>1. CASE Wait
    BY <1>1 DEF Wait, Children, count_vars, out_vars
  <1>2. CASE NoMoreChildren
    BY <1>2 DEF NoMoreChildren, count_vars, out_vars
  <1>3. CASE End
    BY <1>3, ExitTyped DEF End, count_vars
  <1>4. CASE HandleSignal
    <2>1. pending' \subseteq {"SIGUSR1", "SIGUSR2"} /\ nDirectory' \in Nat /\ nFiles' \in Nat
      BY <1>4 DEF HandleSignal, Count
    <2>2. pc' \in [Dirs -> {"unborn", "enter", "read", "analyze", "wait", "end"} \cup Gone]
      BY <1>4 DEF HandleSignal, Gone
    <2> QED
      BY <1>4, <2>1, <2>2 DEF HandleSignal, out_vars
  <1> QED
    BY <1>1, <1>2, <1>3, <1>4 DEF Ends

\* So does every step.
LEMMA StepTyped == ForensicTypeOK /\ [Next]_vars => ForensicTypeOK'
  <1> SUFFICES ASSUME ForensicTypeOK, [Next]_vars PROVE ForensicTypeOK'
    OBVIOUS
  <1>1. CASE UNCHANGED vars
    BY <1>1 DEF ForensicTypeOK, vars, option_vars, proc_vars, count_vars, out_vars
  <1> QED
    BY <1>1, WorkTyped, FailureTyped, EndTyped DEF Next

\* The variables have their types, whatever the tree (forensic.c).
THEOREM ForensicIsTyped == Spec => []ForensicTypeOK
  BY InitTyped, StepTyped, PTL DEF Spec

-----------------------------------------------------------------------------
(* Every file and directory is with one process, and once. *)

\* What process q has still to do, or is at work on, or was when it stopped.
Has(q) == left[q] \cup ({current[q]} \cap Files)
              \cup (IF pc[q] = "enter" THEN {Path(q)} ELSE {})

\* What goes with each label of a process.
Places ==
    \A q \in Dirs :
        /\ pc[q] \in {"unborn", "enter"} => left[q] = {}
        /\ pc[q] \notin {"analyze"} \cup Gone => current[q] = Root
        /\ pc[q] = "analyze" => current[q] \in Files
        /\ pc[q] = "unborn" => where[q] = q
        /\ current[q] \notin left[q]
        /\ \A d \in left[q] \cap Dirs : d # Root /\ pc[d] = "unborn"

\* No two processes have the same thing to do.
Apart == \A q, r \in Dirs : q # r => Has(q) \cap Has(r) = {}

\* The directories that have been opened are nobody's any more, and what the others
\* contain nobody has seen.
Opened(S) ==
    /\ \A d \in S, q \in Dirs : d \notin Has(q)
    /\ \A d \in Dirs \ S : \A x \in Contents[d] :
          /\ x \notin S /\ \A q \in Dirs : x \notin Has(q)
          /\ x \in Dirs => pc[x] = "unborn"

\* Nothing is in a buffer when reports are appended to a file or go to a terminal, and
\* what is printed is done with.
Printed(S) ==
    (saves \/ ~buffered) =>
        /\ \A q \in Dirs : buffer[q] = None
        /\ \A f \in Files : output[f] # 0 => \A q \in Dirs : f \notin Has(q)
        /\ \A d \in Dirs \ S : \A f \in Contents[d] \cap Files : output[f] = 0

Shared == Places /\ Apart /\ \E S \in SUBSET Dirs : Opened(S) /\ Printed(S)

\* The first process starts with the path of the command line and nothing else is had.
LEMMA InitShared == Init => Shared
  <1> SUFFICES ASSUME Init PROVE Shared
    OBVIOUS
  <1>0. Root \in Dirs /\ Root \notin Files
    BY TreeAssumption
  <1>1. Places
    BY <1>0 DEF Init, Places, Gone
  <1>2. \A q \in Dirs : Has(q) = IF q = Root THEN {target} ELSE {}
    BY <1>0 DEF Init, Has, Path
  <1>3. Apart
    BY <1>2 DEF Apart
  <1>4. PICK S \in SUBSET Dirs : S = (IF target = Root THEN {} ELSE {Root})
    BY <1>0
  <1>5. Opened(S)
    <2>1. target \in {Root} \cup (Contents[Root] \cap Files) /\ \A x \in Dirs : x # Root => pc[x] = "unborn"
      BY DEF Init
    <2>2. \A d \in S, q \in Dirs : d \notin Has(q)
      BY <1>2, <1>4
    <2>3. ASSUME NEW d \in Dirs \ S, NEW x \in Contents[d]
          PROVE  x \notin S /\ (\A q \in Dirs : x \notin Has(q)) /\ (x \in Dirs => pc[x] = "unborn")
      <3>1. x # Root
        BY TreeAssumption
      <3>2. x # target
        <4>1. CASE target = Root
          BY <3>1, <4>1
        <4>2. CASE target # Root
          BY <1>4, <2>1, <4>2, TreeAssumption
        <4> QED BY <4>1, <4>2
      <3> QED BY <1>2, <1>4, <2>1, <3>1, <3>2
    <2> QED BY <2>2, <2>3 DEF Opened
  <1>6. Printed(S)
    BY TreeAssumption DEF Printed, Init, None
  <1> QED BY <1>1, <1>3, <1>5, <1>6 DEF Shared

\* What is had by fewer is had by no two.
LEMMA FewerApart ==
    ASSUME Apart, \A q \in Dirs : Has(q)' \subseteq Has(q)
    PROVE  Apart'
BY DEF Apart

\* Nor is what has been opened had by anybody again, as long as nobody is born.
LEMMA FewerOpened ==
    ASSUME NEW S \in SUBSET Dirs, Opened(S), \A q \in Dirs : Has(q)' \subseteq Has(q),
           \A x \in Dirs : pc[x] = "unborn" => pc'[x] = "unborn"
    PROVE  Opened(S)'
BY DEF Opened

\* What has been printed is still had by nobody, if nothing more is printed.
LEMMA FewerPrinted ==
    ASSUME NEW S \in SUBSET Dirs, Printed(S), \A q \in Dirs : Has(q)' \subseteq Has(q),
           UNCHANGED <<saves, buffered>>,
           (saves \/ ~buffered) => /\ \A q \in Dirs : buffer'[q] = None
                                   /\ \A f \in Files : output'[f] = output[f]
    PROVE  Printed(S)'
BY DEF Printed

\* Opening a directory: what it contains nobody had, and so with it it is now opened.
LEMMA AnalyzePathShares ==
    ASSUME ForensicTypeOK, Shared, NEW p \in Dirs, AnalyzePath(p)
    PROVE  Shared'
  <1>1. /\ pc[p] = "enter" /\ pc' = [pc EXCEPT ![p] = "read"]
        /\ left' = [left EXCEPT ![p] = IF Path(p) \in Dirs THEN Contents[Path(p)] ELSE {Path(p)}]
        /\ UNCHANGED <<target, saves, buffered, where, current, forked, buffer, output>>
    BY DEF AnalyzePath, Entries, option_vars, out_vars
  <1>2. PICK S \in SUBSET Dirs : Opened(S) /\ Printed(S)
    BY DEF Shared
  <1>3. Places /\ Apart
    BY DEF Shared
  <1>4. /\ pc'[p] = "read" /\ left[p] = {} /\ current[p] = Root
        /\ left'[p] = IF Path(p) \in Dirs THEN Contents[Path(p)] ELSE {Path(p)}
        /\ \A q \in Dirs : q # p => pc'[q] = pc[q] /\ left'[q] = left[q]
    <2>1. left[p] = {} /\ current[p] = Root
      BY <1>1, <1>3 DEF Places, Gone
    <2>2. /\ pc'[p] = "read" /\ \A q \in Dirs : q # p => pc'[q] = pc[q] /\ left'[q] = left[q]
      BY <1>1 DEF ForensicTypeOK
    <2>3. left'[p] = IF Path(p) \in Dirs THEN Contents[Path(p)] ELSE {Path(p)}
      BY <1>1 DEF ForensicTypeOK
    <2> QED BY <2>1, <2>2, <2>3
  <1>5. \A q \in Dirs : Path(q)' = Path(q)
    BY <1>1 DEF Path
  <1>6. \A q \in Dirs : q # p => Has(q)' = Has(q)
    BY <1>1, <1>4, <1>5 DEF Has
  <1>7. Has(p) = {Path(p)} /\ Has(p)' = left'[p]
    <2>1. Root \notin Files
      BY TreeAssumption
    <2> QED BY <1>1, <1>4, <2>1 DEF Has
  <1>8. Path(p) \in Dirs \cup Files
    BY DEF Path, ForensicTypeOK
  <1>9. \A x \in Dirs : pc[x] = "unborn" => pc'[x] = "unborn"
    BY <1>1, <1>4
  <1>10. CASE Path(p) \notin Dirs
    <2>1. \A q \in Dirs : Has(q)' = Has(q)
      BY <1>4, <1>6, <1>7, <1>10
    <2>2. Places'
      <3>1. current'[p] = Root /\ Root \notin left'[p] /\ left'[p] \cap Dirs = {}
        BY <1>1, <1>4, <1>10, TreeAssumption
      <3> QED BY <1>1, <1>3, <1>4, <3>1 DEF Places
    <2>3. Apart' /\ Opened(S)' /\ Printed(S)'
      BY <1>1, <1>2, <1>3, <1>9, <2>1, FewerApart, FewerOpened, FewerPrinted DEF Printed
    <2> QED BY <2>2, <2>3 DEF Shared
  <1>11. CASE Path(p) \in Dirs
    <2>0. PICK d \in Dirs : d = Path(p)
      BY <1>11
    <2>1. d \notin S /\ left'[p] = Contents[d] /\ Has(p) = {d} /\ Has(p)' = Contents[d]
      BY <1>2, <1>4, <1>7, <2>0 DEF Opened
    <2>2. \A x \in Contents[d] : /\ x \notin S /\ \A q \in Dirs : x \notin Has(q)
                                 /\ x \in Dirs => pc[x] = "unborn"
      BY <1>2, <2>1 DEF Opened
    <2>3. d \notin Contents[d]
      BY <2>1, <2>2
    <2>4. Places'
      <3>1. current'[p] = Root /\ \A x \in left'[p] \cap Dirs : x # Root /\ pc'[x] = "unborn"
        BY <1>1, <1>4, <1>9, <2>1, <2>2, TreeAssumption
      <3>2. Root \notin left'[p]
        BY <2>1, TreeAssumption
      <3> QED BY <1>1, <1>3, <1>4, <1>9, <3>1, <3>2 DEF Places
    <2>5. Apart'
      BY <1>3, <1>6, <2>1, <2>2 DEF Apart
    <2>6. PICK T \in SUBSET Dirs : T = S \cup {d}
      OBVIOUS
    <2>7. \A e \in T, q \in Dirs : e \notin Has(q)'
      <3>1. \A q \in Dirs : q # p => d \notin Has(q)
        BY <1>3, <2>1 DEF Apart
      <3>2. \A e \in S, q \in Dirs : e \notin Has(q)
        BY <1>2 DEF Opened
      <3> QED BY <1>6, <2>1, <2>2, <2>3, <2>6, <3>1, <3>2
    <2>8. ASSUME NEW e \in Dirs \ T, NEW x \in Contents[e]
          PROVE  x \notin T /\ (\A q \in Dirs : x \notin Has(q)') /\ (x \in Dirs => pc'[x] = "unborn")
      <3>1. x \notin S /\ (\A q \in Dirs : x \notin Has(q)) /\ (x \in Dirs => pc[x] = "unborn")
        BY <1>2, <2>6, <2>8 DEF Opened
      <3>2. x # d
        BY <2>1, <3>1
      <3>3. x \notin Contents[d]
        BY <2>6, TreeAssumption
      <3> QED BY <1>6, <1>9, <2>1, <2>6, <3>1, <3>2, <3>3
    <2>9. Opened(T)'
      BY <2>7, <2>8 DEF Opened
    <2>10. Printed(T)'
      <3> SUFFICES ASSUME saves \/ ~buffered
                   PROVE  /\ \A q \in Dirs : buffer[q] = None
                          /\ \A f \in Files : output[f] # 0 => \A q \in Dirs : f \notin Has(q)'
                          /\ \A e \in Dirs \ T : \A f \in Contents[e] \cap Files : output[f] = 0
        BY <1>1 DEF Printed
      <3>1. /\ \A q \in Dirs : buffer[q] = None
            /\ \A f \in Files : output[f] # 0 => \A q \in Dirs : f \notin Has(q)
            /\ \A e \in Dirs \ S : \A f \in Contents[e] \cap Files : output[f] = 0
        BY <1>2 DEF Printed
      <3> QED BY <1>6, <2>1, <2>6, <3>1
    <2> QED BY <2>4, <2>5, <2>9, <2>10 DEF Shared
  <1> QED BY <1>10, <1>11

\* Taking a file from what is left, and reporting it.
LEMMA FileShares ==
    ASSUME ForensicTypeOK, Shared, NEW p \in Dirs, AnalyzeFile(p) \/ Report(p)
    PROVE  Shared'
  <1>1. PICK S \in SUBSET Dirs : Opened(S) /\ Printed(S)
    BY DEF Shared
  <1>2. Places /\ Apart /\ Root \notin Files /\ Dirs \cap Files = {}
    BY TreeAssumption DEF Shared
  <1>3. UNCHANGED <<target, saves, buffered, where, forked>> /\ \A q \in Dirs : Path(q)' = Path(q)
    BY DEF AnalyzeFile, Report, option_vars, Path
  <1>4. CASE AnalyzeFile(p)
    <2>1. PICK f \in left[p] \cap Files : /\ current' = [current EXCEPT ![p] = f]
                                          /\ left' = [left EXCEPT ![p] = @ \ {f}]
      BY <1>4 DEF AnalyzeFile
    <2>2. /\ pc[p] = "read" /\ pc' = [pc EXCEPT ![p] = "analyze"] /\ UNCHANGED <<buffer, output>>
      BY <1>4 DEF AnalyzeFile, out_vars
    <2>3. /\ pc'[p] = "analyze" /\ current'[p] = f /\ left'[p] = left[p] \ {f}
          /\ \A q \in Dirs : q # p => pc'[q] = pc[q] /\ left'[q] = left[q] /\ current'[q] = current[q]
      BY <2>1, <2>2 DEF ForensicTypeOK
    <2>4. current[p] = Root
      BY <1>2, <2>2 DEF Places, Gone
    <2>5. \A q \in Dirs : Has(q)' = Has(q)
      <3>1. Has(p)' = Has(p)
        BY <1>2, <2>1, <2>2, <2>3, <2>4 DEF Has
      <3>2. \A q \in Dirs : q # p => Has(q)' = Has(q)
        BY <1>3, <2>3 DEF Has
      <3> QED BY <3>1, <3>2
    <2>6. \A x \in Dirs : pc[x] = "unborn" => pc'[x] = "unborn"
      BY <2>2, <2>3
    <2>7. Places'
      BY <1>2, <1>3, <2>3, <2>6 DEF Places
    <2> QED BY <1>1, <1>2, <1>3, <2>2, <2>5, <2>6, <2>7, FewerApart, FewerOpened, FewerPrinted DEF Shared, Printed
  <1>5. CASE Report(p)
    <2>1. /\ pc[p] = "analyze" /\ pc' = [pc EXCEPT ![p] = "read"]
          /\ current' = [current EXCEPT ![p] = Root] /\ left' = left
      BY <1>5 DEF Report
    <2>2. /\ pc'[p] = "read" /\ current'[p] = Root
          /\ \A q \in Dirs : q # p => pc'[q] = pc[q] /\ current'[q] = current[q]
      BY <2>1 DEF ForensicTypeOK
    <2>3. PICK f \in Files : f = current[p]
      BY <1>2, <2>1 DEF Places
    <2>4. \A q \in Dirs : q # p => Has(q)' = Has(q)
      BY <1>3, <2>1, <2>2 DEF Has
    <2>5. Has(p) = left[p] \cup {f} /\ Has(p)' = left[p] /\ f \notin left[p]
      BY <1>2, <2>1, <2>2, <2>3 DEF Has, Places
    <2>6. \A x \in Dirs : pc[x] = "unborn" => pc'[x] = "unborn"
      BY <2>1, <2>2
    <2>7. Places'
      BY <1>2, <1>3, <2>1, <2>2, <2>6, TreeAssumption DEF Places, ForensicTypeOK
    <2>8. \A q \in Dirs : Has(q)' \subseteq Has(q)
      BY <2>4, <2>5
    <2>9. Apart' /\ Opened(S)'
      BY <1>1, <1>2, <2>6, <2>8, FewerApart, FewerOpened
    <2>10. Printed(S)'
      <3> SUFFICES ASSUME saves \/ ~buffered
                   PROVE  /\ \A q \in Dirs : buffer'[q] = None
                          /\ \A g \in Files : output'[g] # 0 => \A q \in Dirs : g \notin Has(q)'
                          /\ \A e \in Dirs \ S : \A g \in Contents[e] \cap Files : output'[g] = 0
        BY <1>3 DEF Printed
      <3>1. /\ \A q \in Dirs : buffer[q] = None
            /\ \A g \in Files : output[g] # 0 => \A q \in Dirs : g \notin Has(q)
            /\ \A e \in Dirs \ S : \A g \in Contents[e] \cap Files : output[g] = 0
        BY <1>1 DEF Printed
      <3>2. output' = [output EXCEPT ![f] = @ + 1] /\ buffer' = buffer
        BY <1>5, <2>3 DEF Report
      <3>3. \A g \in Files : g # f => output'[g] = output[g]
        BY <3>2 DEF ForensicTypeOK
      <3>4. \A q \in Dirs : f \notin Has(q)'
        BY <1>2, <2>4, <2>5 DEF Apart
      <3>5. \A e \in Dirs \ S : f \notin Contents[e]
        BY <1>1, <2>5 DEF Opened
      <3> QED BY <2>8, <3>1, <3>2, <3>3, <3>4, <3>5
    <2> QED BY <2>7, <2>9, <2>10 DEF Shared
  <1> QED BY <1>4, <1>5

\* Forking: the directory goes from what its parent has left to its own process, which
\* was not born before.
LEMMA ForkShares ==
    ASSUME ForensicTypeOK, Shared, NEW p \in Dirs, Fork(p)
    PROVE  Shared'
  <1>1. PICK S \in SUBSET Dirs : Opened(S) /\ Printed(S)
    BY DEF Shared
  <1>2. Places /\ Apart /\ Root \notin Files /\ Dirs \cap Files = {}
    BY TreeAssumption DEF Shared
  <1>3. PICK d \in left[p] \cap Dirs :
           /\ pc' = [pc EXCEPT ![d] = "enter"]
           /\ left' = [left EXCEPT ![p] = @ \ {d}]
           /\ forked' = [forked EXCEPT ![d] = TRUE]
           /\ buffer' = [buffer EXCEPT ![d] = buffer[p]]
    BY DEF Fork
  <1>4. pc[p] = "read" /\ UNCHANGED <<target, saves, buffered, where, current, output>>
    BY DEF Fork, option_vars
  <1>5. d # Root /\ pc[d] = "unborn" /\ d # p
    BY <1>2, <1>4 DEF Places
  <1>6. left[d] = {} /\ current[d] = Root /\ where[d] = d
    BY <1>2, <1>5 DEF Places, Gone
  <1>7. /\ pc'[d] = "enter" /\ \A q \in Dirs : q # d => pc'[q] = pc[q] /\ forked'[q] = forked[q]
        /\ left'[p] = left[p] \ {d} /\ \A q \in Dirs : q # p => left'[q] = left[q]
        /\ forked'[d]
    BY <1>3 DEF ForensicTypeOK
  <1>8. Path(d)' = d /\ \A q \in Dirs : q # d => Path(q)' = Path(q)
    BY <1>4, <1>5, <1>6, <1>7 DEF Path
  <1>9. Has(d)' = {d} /\ Has(d) = {} /\ Has(p)' = Has(p) \ {d} /\ d \in Has(p)
    BY <1>2, <1>4, <1>5, <1>6, <1>7, <1>8 DEF Has
  <1>10. \A q \in Dirs : q \notin {d, p} => Has(q)' = Has(q)
    BY <1>4, <1>7, <1>8 DEF Has
  <1>11. \A q \in Dirs : q # p => d \notin Has(q)
    BY <1>2, <1>9 DEF Apart
  <1>12. Places'
    <2>1. \A q \in Dirs : d \notin left'[q] /\ left'[q] \subseteq left[q]
      BY <1>7, <1>11 DEF Has
    <2>2. \A q \in Dirs : \A e \in left'[q] \cap Dirs : e # Root /\ pc'[e] = "unborn"
      BY <1>2, <1>7, <2>1 DEF Places
    <2> QED BY <1>2, <1>4, <1>6, <1>7, <2>1, <2>2 DEF Places
  <1>13. Apart'
    BY <1>2, <1>9, <1>10, <1>11 DEF Apart
  <1>14. Opened(S)'
    <2>1. d \notin S /\ \A e \in S, q \in Dirs : e \notin Has(q)
      BY <1>1, <1>9 DEF Opened
    <2>2. \A e \in S, q \in Dirs : e \notin Has(q)'
      BY <1>9, <1>10, <2>1
    <2>3. ASSUME NEW e \in Dirs \ S, NEW x \in Contents[e]
          PROVE  x \notin S /\ (\A q \in Dirs : x \notin Has(q)') /\ (x \in Dirs => pc'[x] = "unborn")
      <3>1. x \notin S /\ (\A q \in Dirs : x \notin Has(q)) /\ (x \in Dirs => pc[x] = "unborn")
        BY <1>1, <2>3 DEF Opened
      <3>2. x # d
        BY <1>9, <3>1
      <3> QED BY <1>7, <1>9, <1>10, <3>1, <3>2
    <2> QED BY <2>2, <2>3 DEF Opened
  <1>15. Printed(S)'
    <2> SUFFICES ASSUME saves \/ ~buffered
                 PROVE  /\ \A q \in Dirs : buffer'[q] = None
                        /\ \A g \in Files : output[g] # 0 => \A q \in Dirs : g \notin Has(q)'
                        /\ \A e \in Dirs \ S : \A g \in Contents[e] \cap Files : output[g] = 0
      BY <1>4 DEF Printed
    <2>1. /\ \A q \in Dirs : buffer[q] = None
          /\ \A g \in Files : output[g] # 0 => \A q \in Dirs : g \notin Has(q)
          /\ \A e \in Dirs \ S : \A g \in Contents[e] \cap Files : output[g] = 0
      BY <1>1 DEF Printed
    <2>2. \A q \in Dirs : buffer'[q] = None
      BY <1>3, <2>1 DEF ForensicTypeOK
    <2>3. \A g \in Files, q \in Dirs : g \in Has(q)' => g \in Has(q)
      BY <1>2, <1>9, <1>10
    <2> QED BY <2>1, <2>2, <2>3
  <1> QED BY <1>12, <1>13, <1>14, <1>15 DEF Shared

\* A failed fork: the process goes into the directory itself, and leaves the rest.
LEMMA ForkFailsShares ==
    ASSUME ForensicTypeOK, Shared, NEW p \in Dirs, ForkFails(p)
    PROVE  Shared'
  <1>1. PICK S \in SUBSET Dirs : Opened(S) /\ Printed(S)
    BY DEF Shared
  <1>2. Places /\ Apart /\ Root \notin Files /\ Dirs \cap Files = {}
    BY TreeAssumption DEF Shared
  <1>3. PICK d \in left[p] \cap Dirs : where' = [where EXCEPT ![p] = d]
    BY DEF ForkFails
  <1>4. /\ pc[p] = "read" /\ pc' = [pc EXCEPT ![p] = "enter"]
        /\ forked' = [forked EXCEPT ![p] = TRUE] /\ left' = [left EXCEPT ![p] = {}]
        /\ UNCHANGED <<target, saves, buffered, current, buffer, output>>
    BY DEF ForkFails, option_vars, out_vars
  <1>5. /\ pc'[p] = "enter" /\ left'[p] = {} /\ where'[p] = d /\ forked'[p]
        /\ \A q \in Dirs : q # p => /\ pc'[q] = pc[q] /\ left'[q] = left[q]
                                    /\ where'[q] = where[q] /\ forked'[q] = forked[q]
    BY <1>3, <1>4 DEF ForensicTypeOK
  <1>6. current[p] = Root
    BY <1>2, <1>4 DEF Places, Gone
  <1>7. Path(p)' = d /\ \A q \in Dirs : q # p => Path(q)' = Path(q)
    BY <1>4, <1>5 DEF Path
  <1>8. \A q \in Dirs : Has(q)' \subseteq Has(q)
    <2>1. Has(p)' = {d} /\ d \in Has(p)
      BY <1>2, <1>4, <1>5, <1>6, <1>7 DEF Has
    <2>2. \A q \in Dirs : q # p => Has(q)' = Has(q)
      BY <1>4, <1>5, <1>7 DEF Has
    <2> QED BY <2>1, <2>2
  <1>9. \A x \in Dirs : pc[x] = "unborn" => pc'[x] = "unborn"
    BY <1>4, <1>5
  <1>10. Places'
    BY <1>2, <1>4, <1>5, <1>6, <1>9 DEF Places
  <1>11. Apart' /\ Opened(S)' /\ Printed(S)'
    BY <1>1, <1>2, <1>4, <1>8, <1>9, FewerApart, FewerOpened, FewerPrinted DEF Printed
  <1> QED BY <1>10, <1>11 DEF Shared

\* A step that only takes processes forward to their ends.
ForwardTo(q) ==
    \/ pc'[q] = pc[q]
    \/ pc[q] \in {"read", "wait"} /\ pc'[q] \in {"wait", "end"}
    \/ pc[q] # "unborn" /\ pc'[q] \in Gone

\* What exit flushes is nothing when nothing is buffered.
LEMMA NothingFlushed ==
    ASSUME ForensicTypeOK, NEW p \in Dirs, ExitOf(p), \A q \in Dirs : buffer[q] = None
    PROVE  /\ \A q \in Dirs : buffer'[q] = None
           /\ \A f \in Files : output'[f] = output[f]
BY DEF ExitOf, None, ForensicTypeOK

LEMMA EndingShares ==
    ASSUME ForensicTypeOK, Shared, \A q \in Dirs : ForwardTo(q),
           UNCHANGED <<option_vars, where, left, current, forked>>,
           UNCHANGED out_vars \/ \E p \in Dirs : ExitOf(p)
    PROVE  Shared'
  <1>1. PICK S \in SUBSET Dirs : Opened(S) /\ Printed(S)
    BY DEF Shared
  <1>2. Places /\ Apart
    BY DEF Shared
  <1>3. /\ UNCHANGED <<target, saves, buffered, where, left, current, forked>>
        /\ \A q \in Dirs : Path(q)' = Path(q)
    BY DEF option_vars, Path
  <1>4. /\ \A q \in Dirs : pc'[q] = "enter" => pc[q] = "enter"
        /\ \A q \in Dirs : pc'[q] = "unborn" <=> pc[q] = "unborn"
        /\ \A q \in Dirs : pc'[q] = "analyze" => pc[q] = "analyze"
        /\ \A q \in Dirs : pc'[q] \notin {"analyze"} \cup Gone => pc[q] \notin {"analyze"} \cup Gone
    BY DEF ForwardTo, Gone
  <1>5. \A q \in Dirs : Has(q)' \subseteq Has(q)
    BY <1>3, <1>4 DEF Has
  <1>6. Places'
    BY <1>2, <1>3, <1>4 DEF Places
  <1>7. (saves \/ ~buffered) => /\ \A q \in Dirs : buffer'[q] = None
                                /\ \A f \in Files : output'[f] = output[f]
    <2> SUFFICES ASSUME saves \/ ~buffered
                 PROVE  /\ \A q \in Dirs : buffer'[q] = None
                        /\ \A f \in Files : output'[f] = output[f]
      OBVIOUS
    <2>1. \A q \in Dirs : buffer[q] = None
      BY <1>1 DEF Printed
    <2>2. CASE UNCHANGED out_vars
      BY <2>1, <2>2 DEF out_vars
    <2>3. CASE \E p \in Dirs : ExitOf(p)
      BY <2>1, <2>3, NothingFlushed
    <2> QED BY <2>2, <2>3
  <1>8. Apart' /\ Opened(S)' /\ Printed(S)'
    BY <1>1, <1>2, <1>3, <1>4, <1>5, <1>7, FewerApart, FewerOpened, FewerPrinted
  <1> QED BY <1>6, <1>8 DEF Shared

\* The ends of a process, foreseen or not, and the steps that touch nothing of this.
LEMMA OtherStepsEnd ==
    ASSUME ForensicTypeOK, Shared,
           \/ \E p \in Dirs : Leave(p) \/ Fail(p) \/ Interrupt(p)
           \/ Ends \/ HandleSignal \/ UNCHANGED vars
    PROVE  /\ \A q \in Dirs : ForwardTo(q)
           /\ UNCHANGED <<option_vars, where, left, current, forked, father>>
           /\ UNCHANGED out_vars \/ \E p \in Dirs : ExitOf(p)
  <1> USE DEF proc_vars
  <1>0. \A p \in Dirs : \A l : pc' = [pc EXCEPT ![p] = l] =>
            /\ pc'[p] = l
            /\ \A q \in Dirs : q # p => pc'[q] = pc[q]
    BY DEF ForensicTypeOK
  <1>1. ASSUME NEW p \in Dirs, Leave(p)
        PROVE  /\ \A q \in Dirs : ForwardTo(q)
               /\ UNCHANGED <<option_vars, where, left, current, forked, father>>
               /\ UNCHANGED out_vars \/ ExitOf(p)
    <2>1. pc[p] = "read" /\ (pc'[p] \in Gone \/ pc'[p] = "wait") /\ \A q \in Dirs : q # p => pc'[q] = pc[q]
      BY <1>0, <1>1 DEF Leave, ExitOf, Gone
    <2>2. \A q \in Dirs : ForwardTo(q)
      BY <2>1 DEF ForwardTo
    <2> QED BY <1>1, <2>2 DEF Leave
  <1>2. ASSUME NEW p \in Dirs, Fail(p) \/ Interrupt(p)
        PROVE  /\ \A q \in Dirs : ForwardTo(q)
               /\ UNCHANGED <<option_vars, where, left, current, forked, father>>
               /\ ExitOf(p)
    <2>1. pc[p] # "unborn" /\ pc'[p] \in Gone /\ \A q \in Dirs : q # p => pc'[q] = pc[q]
      BY <1>0, <1>2 DEF Fail, Interrupt, ExitOf, Gone
    <2>2. \A q \in Dirs : ForwardTo(q)
      BY <2>1 DEF ForwardTo
    <2> QED BY <1>2, <2>2 DEF Fail, Interrupt
  <1>3. CASE Wait
    BY <1>3 DEF Wait, ForwardTo
  <1>4. CASE NoMoreChildren
    <2>1. pc[Root] = "wait" /\ pc'[Root] = "end" /\ \A q \in Dirs : q # Root => pc'[q] = pc[q]
      BY <1>0, <1>4, TreeAssumption DEF NoMoreChildren
    <2>2. \A q \in Dirs : ForwardTo(q)
      BY <2>1 DEF ForwardTo
    <2> QED BY <1>4, <2>2 DEF NoMoreChildren
  <1>5. CASE End
    <2>1. pc[Root] = "end" /\ pc'[Root] \in Gone /\ \A q \in Dirs : q # Root => pc'[q] = pc[q]
      BY <1>0, <1>5, TreeAssumption DEF End, ExitOf, Gone
    <2>2. \A q \in Dirs : ForwardTo(q)
      BY <2>1 DEF ForwardTo
    <2> QED BY <1>5, <2>2, TreeAssumption DEF End
  <1>6. CASE HandleSignal
    <2>1. \A q \in Dirs : q # Root => pc'[q] = pc[q]
      BY <1>0, <1>6, TreeAssumption DEF HandleSignal
    <2>2. \/ pc' = pc
          \/ pc[Root] = "wait" /\ pc'[Root] = "end"
          \/ pc[Root] = "analyze" /\ pc'[Root] \in Gone
      BY <1>0, <1>6, TreeAssumption DEF HandleSignal, Gone
    <2>3. \A q \in Dirs : ForwardTo(q)
      BY <2>1, <2>2 DEF ForwardTo
    <2> QED BY <1>6, <2>3 DEF HandleSignal
  <1>7. CASE UNCHANGED vars
    BY <1>7 DEF vars, ForwardTo
  <1> QED BY <1>1, <1>2, <1>3, <1>4, <1>5, <1>6, <1>7 DEF Ends

LEMMA SharedKept == ForensicTypeOK /\ Shared /\ [Next]_vars => Shared'
  <1> SUFFICES ASSUME ForensicTypeOK, Shared, [Next]_vars PROVE Shared'
    OBVIOUS
  <1>1. ASSUME NEW p \in Dirs, AnalyzePath(p) PROVE Shared'
    BY <1>1, AnalyzePathShares
  <1>2. ASSUME NEW p \in Dirs, AnalyzeFile(p) \/ Report(p) PROVE Shared'
    BY <1>2, FileShares
  <1>3. ASSUME NEW p \in Dirs, Fork(p) PROVE Shared'
    BY <1>3, ForkShares
  <1>4. ASSUME NEW p \in Dirs, ForkFails(p) PROVE Shared'
    BY <1>4, ForkFailsShares
  <1>5. CASE \/ \E p \in Dirs : Leave(p) \/ Fail(p) \/ Interrupt(p)
             \/ Ends \/ HandleSignal \/ UNCHANGED vars
    <2>1. /\ \A q \in Dirs : ForwardTo(q)
          /\ UNCHANGED <<option_vars, where, left, current, forked>>
          /\ UNCHANGED out_vars \/ \E p \in Dirs : ExitOf(p)
      BY <1>5, OtherStepsEnd
    <2> QED BY <2>1, EndingShares
  <1> QED BY <1>1, <1>2, <1>3, <1>4, <1>5 DEF Next, Works

-----------------------------------------------------------------------------
(* Without -o, and as long as the first process is not cut short. *)

\* No process signals.
NoSignal == ~saves => pending = {}

\* Those waited for have gone, and when main has done waiting all its children have.
WaitedFor ==
    /\ \A c \in reaped : pc[c] \in Gone
    /\ Root \notin cut => /\ ~forked[Root]
                          /\ (~saves /\ pc[Root] \in {"end", "exited"}) => Living(Root) = {}

\* No signal is caught in a run without -o.
LEMMA NoSignalKept == ForensicTypeOK /\ NoSignal /\ [Next]_vars => NoSignal'
  <1> SUFFICES ASSUME ForensicTypeOK, NoSignal, [Next]_vars PROVE NoSignal'
    OBVIOUS
  <1> USE DEF NoSignal, option_vars
  <1>1. ASSUME NEW p \in Dirs, Works(p)
        PROVE  NoSignal'
    BY <1>1 DEF Works, AnalyzePath, AnalyzeFile, Report, Fork, Leave, Signal, count_vars
  <1>2. ASSUME NEW p \in Dirs, ForkFails(p) \/ Fail(p) \/ Interrupt(p)
        PROVE  NoSignal'
    BY <1>2 DEF ForkFails, Fail, Interrupt, count_vars
  <1>3. CASE Ends
    BY <1>3 DEF Ends, Wait, NoMoreChildren, End, count_vars
  <1>4. CASE HandleSignal
    BY <1>4 DEF HandleSignal
  <1>5. CASE UNCHANGED vars
    BY <1>5 DEF vars, count_vars
  <1> QED
    BY <1>1, <1>2, <1>3, <1>4, <1>5 DEF Next

\* At work a process is neither waited for nor done with waiting.
LEMMA WorkingWaitsFor ==
    ASSUME ForensicTypeOK, WaitedFor, NEW p \in Dirs,
           AnalyzePath(p) \/ AnalyzeFile(p) \/ Report(p) \/ ForkFails(p)
    PROVE  WaitedFor'
  <1>1. /\ pc[p] \in {"enter", "read", "analyze"} /\ pc' = [pc EXCEPT ![p] = pc'[p]]
        /\ pc'[p] \in {"enter", "read", "analyze"}
        /\ UNCHANGED <<saves, father, reaped>> /\ cut \subseteq cut'
        /\ p # Root \/ Root \in cut' \/ UNCHANGED forked
    BY DEF AnalyzePath, AnalyzeFile, Report, ForkFails, option_vars, ForensicTypeOK
  <1>2. \A c \in Dirs : c # p => pc'[c] = pc[c]
    BY <1>1 DEF ForensicTypeOK
  <1>3. forked'[Root] = forked[Root] \/ Root \in cut'
    BY <1>1, TreeAssumption DEF AnalyzePath, AnalyzeFile, Report, ForkFails, ForensicTypeOK
  <1>4. \A c \in reaped' : pc'[c] \in Gone
    BY <1>1, <1>2 DEF WaitedFor, Gone, ForensicTypeOK
  <1>5. pc'[Root] \in {"end", "exited"} => pc[Root] \in {"end", "exited"}
    BY <1>1, <1>2, TreeAssumption
  <1>6. Living(Root)' \subseteq Living(Root)
    BY <1>1, <1>2 DEF Living, Children, Gone
  <1> QED BY <1>1, <1>3, <1>4, <1>5, <1>6 DEF WaitedFor

\* Who is forked had no process before, and is no child of main's once main waits.
LEMMA ForkWaitsFor ==
    ASSUME ForensicTypeOK, Shared, WaitedFor, NEW p \in Dirs, Fork(p)
    PROVE  WaitedFor'
  <1>1. PICK d \in left[p] \cap Dirs : /\ pc' = [pc EXCEPT ![d] = "enter"]
                                       /\ father' = [father EXCEPT ![d] = p]
                                       /\ forked' = [forked EXCEPT ![d] = TRUE]
    BY DEF Fork
  <1>2. pc[p] = "read" /\ UNCHANGED <<saves, reaped, cut>>
    BY DEF Fork, option_vars
  <1>3. d # Root /\ pc[d] = "unborn"
    BY DEF Shared, Places
  <1>4. /\ pc'[d] = "enter" /\ father'[d] = p
        /\ \A c \in Dirs : c # d => pc'[c] = pc[c] /\ father'[c] = father[c] /\ forked'[c] = forked[c]
    BY <1>1 DEF ForensicTypeOK
  <1>5. \A c \in reaped' : pc'[c] \in Gone
    BY <1>2, <1>3, <1>4 DEF WaitedFor, Gone, ForensicTypeOK
  <1>6. pc'[Root] = pc[Root] /\ forked'[Root] = forked[Root]
    BY <1>3, <1>4, TreeAssumption
  <1>7. pc[Root] \in {"end", "exited"} => Living(Root)' \subseteq Living(Root)
    BY <1>2, <1>4 DEF Living, Children
  <1> QED BY <1>2, <1>5, <1>6, <1>7 DEF WaitedFor

\* wait(NULL) > 0 until there is no child left (forensic.c:247).
LEMMA EndWaitsFor ==
    ASSUME ForensicTypeOK, Shared, NoSignal, WaitedFor,
           \/ \E p \in Dirs : Leave(p) \/ Fail(p) \/ Interrupt(p)
           \/ Ends \/ HandleSignal \/ UNCHANGED vars
    PROVE  WaitedFor'
  <1>1. UNCHANGED <<saves, forked, father>> /\ \A q \in Dirs : ForwardTo(q)
    BY OtherStepsEnd DEF option_vars
  <1>2. cut \subseteq cut' /\ \A c \in reaped' : c \in reaped \/ (c \in Dirs /\ pc[c] \in Gone)
    <2>1. CASE Wait
      <3>1. PICK c \in Dirs : pc[c] \in Gone /\ reaped' = reaped \cup {c} /\ cut' = cut
        BY <2>1 DEF Wait, Children
      <3> QED BY <3>1
    <2>2. CASE ~Wait
      BY <2>2 DEF Leave, Fail, Interrupt, Ends, NoMoreChildren, End, HandleSignal, vars
    <2> QED BY <2>1, <2>2
  <1>3. \A c \in Dirs : pc[c] \in Gone => pc'[c] \in Gone
    BY <1>1 DEF ForwardTo, Gone
  <1>4. \A c \in reaped' : pc'[c] \in Gone
    BY <1>2, <1>3 DEF WaitedFor, ForensicTypeOK
  <1>5. Living(Root)' \subseteq Living(Root)
    BY <1>1, <1>3 DEF Living, Children, ForwardTo, Gone
  <1>6. ASSUME Root \notin cut', ~saves, pc'[Root] \in {"end", "exited"}
        PROVE  pc[Root] \in {"end", "exited"} \/ Living(Root) = {}
    <2>1. ~forked[Root] /\ pending = {}
      BY <1>2, <1>6 DEF WaitedFor, NoSignal
    <2>2. CASE NoMoreChildren
      BY <2>2 DEF NoMoreChildren, WaitedFor, Living
    <2>3. CASE Wait \/ End \/ UNCHANGED vars
      BY <1>6, <2>3 DEF Wait, End, vars
    <2>4. ASSUME NEW p \in Dirs, Leave(p) PROVE pc[Root] \in {"end", "exited"}
      <3>1. \A q \in Dirs : q # p => pc'[q] = pc[q]
        BY <2>4 DEF Leave, ExitOf, ForensicTypeOK
      <3>2. p # Root
        <4>1. p = Root => pc'[p] = "wait"
          BY <2>1, <2>4 DEF Leave, ForensicTypeOK
        <4> QED BY <1>6, <4>1
      <3> QED BY <1>6, <3>1, <3>2, TreeAssumption
    <2>5. ASSUME NEW p \in Dirs, Fail(p) \/ Interrupt(p) PROVE pc[Root] \in {"end", "exited"}
      <3>1. cut' = cut \cup {p} /\ pc' = [pc EXCEPT ![p] = "exited"]
        BY <2>5 DEF Fail, Interrupt, ExitOf
      <3>2. \A q \in Dirs : q # p => pc'[q] = pc[q]
        BY <3>1 DEF ForensicTypeOK
      <3> QED BY <1>6, <3>1, <3>2, TreeAssumption
    <2>6. ~HandleSignal
      BY <2>1 DEF HandleSignal
    <2> QED BY <2>2, <2>3, <2>4, <2>5, <2>6 DEF Ends
  <1>7. ASSUME Root \notin cut'
        PROVE  ~forked'[Root] /\ (~saves' /\ pc'[Root] \in {"end", "exited"} => Living(Root)' = {})
    <2>1. /\ Root \notin cut /\ ~forked[Root]
          /\ ~saves /\ pc[Root] \in {"end", "exited"} => Living(Root) = {}
      BY <1>2, <1>7 DEF WaitedFor
    <2> QED BY <1>1, <1>5, <1>6, <1>7, <2>1
  <1> QED BY <1>4, <1>7 DEF WaitedFor

LEMMA WaitedForKept ==
    ForensicTypeOK /\ Shared /\ NoSignal /\ WaitedFor /\ [Next]_vars => WaitedFor'
BY WorkingWaitsFor, ForkWaitsFor, EndWaitsFor DEF Next, Works

\* Without -o nobody signals, so nothing interrupts wait, and main ends after its children
\* (forensic.c:247), whatever the tree, the order of the processes and the failures of
\* others.
THEOREM QuietRunsWait == Spec => []QuietRunWaits
  <1>1. Init => NoSignal /\ WaitedFor
    BY TreeAssumption DEF Init, NoSignal, WaitedFor
  <1>2. ForensicTypeOK /\ Shared /\ NoSignal /\ WaitedFor /\ [Next]_vars => (NoSignal /\ WaitedFor)'
    BY NoSignalKept, WaitedForKept
  <1>3. WaitedFor => QuietRunWaits
    BY DEF WaitedFor, QuietRunWaits
  <1> QED
    BY <1>1, <1>2, <1>3, InitShared, SharedKept, ForensicIsTyped, PTL DEF Spec

-----------------------------------------------------------------------------
(* Once only. *)

\* What is printed is printed once: a report is the first of its file.
Single == (saves \/ ~buffered) => \A f \in Files : output[f] \in {0, 1}

LEMMA SingleKept == ForensicTypeOK /\ Shared /\ Single /\ [Next]_vars => Single'
  <1> SUFFICES ASSUME ForensicTypeOK, Shared, Single, [Next]_vars, saves' \/ ~buffered'
               PROVE  \A f \in Files : output'[f] \in {0, 1}
    BY DEF Single
  <1>1. UNCHANGED <<saves, buffered>>
    BY DEF Next, Works, AnalyzePath, AnalyzeFile, Report, Fork, Leave, ForkFails, Fail,
           Interrupt, Ends, Wait, NoMoreChildren, End, HandleSignal, vars, option_vars
  <1>2. \A f \in Files : output[f] \in {0, 1}
    BY <1>1 DEF Single
  <1>3. ASSUME NEW p \in Dirs, Report(p) PROVE \A f \in Files : output'[f] \in {0, 1}
    <2>1. pc[p] = "analyze" /\ current[p] \in Files /\ output' = [output EXCEPT ![current[p]] = @ + 1]
      BY <1>1, <1>3 DEF Report, Shared, Places
    <2>2. output[current[p]] = 0
      BY <1>1, <2>1 DEF Shared, Printed, Has
    <2> QED BY <1>2, <2>1, <2>2 DEF ForensicTypeOK
  <1>4. ASSUME NEW p \in Dirs, AnalyzePath(p) \/ AnalyzeFile(p) \/ Fork(p) \/ ForkFails(p)
        PROVE  output' = output
    BY <1>4 DEF AnalyzePath, AnalyzeFile, Fork, ForkFails, out_vars
  <1>5. CASE \/ \E p \in Dirs : Leave(p) \/ Fail(p) \/ Interrupt(p)
             \/ Ends \/ HandleSignal \/ UNCHANGED vars
    <2>1. UNCHANGED out_vars \/ \E p \in Dirs : ExitOf(p)
      BY <1>5, OtherStepsEnd
    <2>2. \A q \in Dirs : buffer[q] = None
      BY <1>1 DEF Shared, Printed
    <2>3. \A f \in Files : output'[f] = output[f]
      BY <2>1, <2>2, NothingFlushed DEF out_vars
    <2> QED BY <1>2, <2>3
  <1> QED BY <1>2, <1>3, <1>4, <1>5 DEF Next, Works

\* A file is reported by one process and once (forensic.c:167-188), also after a fork has
\* failed and a process has gone on into the directory itself; unless what is printed is
\* still in a buffer when the process forks.
THEOREM ReportsAreSingle == Spec => []ReportedOnce
  <1>1. Init => Single
    BY DEF Init, Single, None
  <1>2. ForensicTypeOK /\ Single => ReportedOnce
    BY DEF Single, ReportedOnce
  <1> QED BY <1>1, <1>2, InitShared, SharedKept, SingleKept, ForensicIsTyped, PTL DEF Spec

-----------------------------------------------------------------------------
(* The counts of the first process. *)

\* The files that some process has begun with.
Begun == {f \in Files : output[f] > 0 \/ \E p \in Dirs : current[p] = f}

\* What it has counted of the files, or has still to count.
Due == nFiles + (IF "SIGUSR2" \in pending THEN 1 ELSE 0)

LEMMA DueIsNat == nFiles \in Nat => Due \in Nat
  <1>1. CASE "SIGUSR2" \in pending
    BY <1>1 DEF Due
  <1>2. CASE "SIGUSR2" \notin pending
    BY <1>2 DEF Due
  <1> QED BY <1>1, <1>2

LEMMA DueIsNatNext == (nFiles \in Nat => Due \in Nat)'
  BY DueIsNat, PTL

LEMMA DueIsCounted ==
    ASSUME ForensicTypeOK
    PROVE  Due = nFiles + Cardinality(pending \cap {"SIGUSR2"})
  <1>1. CASE "SIGUSR2" \in pending
    <2>1. pending \cap {"SIGUSR2"} = {"SIGUSR2"}
      BY <1>1
    <2> QED BY <1>1, <2>1, FS_Singleton DEF Due
  <1>2. CASE "SIGUSR2" \notin pending
    <2>1. pending \cap {"SIGUSR2"} = {}
      BY <1>2
    <2> QED BY <1>2, <2>1, FS_EmptySet DEF Due
  <1> QED BY <1>1, <1>2

\* A signal for a file adds at most one, one for a directory none, and counting none.
LEMMA DueGrows ==
    ASSUME ForensicTypeOK, NEW p
    PROVE  /\ Signal(p, "SIGUSR2") => Due' <= Due + 1
           /\ Signal(p, "SIGUSR1") => Due' <= Due
           /\ HandleSignal => Due' <= Due
           /\ UNCHANGED count_vars => Due' <= Due
  <1>0. nFiles \in Nat /\ "SIGUSR1" # "SIGUSR2" /\ pending \subseteq {"SIGUSR1", "SIGUSR2"}
    BY DEF ForensicTypeOK
  <1>1. ASSUME Signal(p, "SIGUSR2") PROVE Due' <= Due + 1
    BY <1>0, <1>1 DEF Signal, Count, Due, count_vars
  <1>2. ASSUME Signal(p, "SIGUSR1") PROVE Due' <= Due
    BY <1>0, <1>2 DEF Signal, Count, Due, count_vars
  <1>3. ASSUME HandleSignal PROVE Due' <= Due
    <2>1. PICK sig \in pending : Count(sig) /\ pending' = pending \ {sig}
      BY <1>3 DEF HandleSignal
    <2> QED BY <1>0, <2>1 DEF Count, Due
  <1>4. ASSUME UNCHANGED count_vars PROVE Due' <= Due
    BY <1>0, <1>4 DEF Due, count_vars
  <1> QED BY <1>1, <1>2, <1>3, <1>4

\* The invariant with numbers only.
Behind == saves => IsFiniteSet(Begun) /\ Due <= Cardinality(Begun)

\* Only taking a file begins one, and it is one that nobody has begun.
LEMMA BeginsOne ==
    ASSUME ForensicTypeOK, Shared, saves, NEW p \in Dirs, AnalyzeFile(p)
    PROVE  \E f \in Files \ Begun : Begun' = Begun \cup {f}
  <1>1. PICK f \in left[p] \cap Files : current' = [current EXCEPT ![p] = f]
    BY DEF AnalyzeFile
  <1>2. pc[p] = "read" /\ output' = output
    BY DEF AnalyzeFile, out_vars
  <1>3. current[p] = Root /\ Root \notin Files
    BY <1>2, TreeAssumption DEF Shared, Places, Gone
  <1>4. current'[p] = f /\ \A q \in Dirs : q # p => current'[q] = current[q]
    BY <1>1 DEF ForensicTypeOK
  <1>5. f \in Has(p) /\ \A q \in Dirs : q # p => f \notin Has(q)
    BY DEF Shared, Apart, Has
  <1>6. \A q \in Dirs : current[q] # f
    BY <1>3, <1>5 DEF Has
  <1>7. output[f] = 0
    BY <1>5 DEF Shared, Printed
  <1>8. f \notin Begun
    BY <1>6, <1>7 DEF Begun
  <1>9. \A g \in Files : g \in Begun' <=> g \in Begun \/ g = f
    BY <1>2, <1>3, <1>4 DEF Begun
  <1>10. Begun' = Begun \cup {f}
    <2>1. Begun' \subseteq Files /\ Begun \subseteq Files
      BY DEF Begun
    <2> QED BY <1>9, <2>1
  <1> QED BY <1>8, <1>10

\* The other steps begin none, and what has been begun stays so.
LEMMA BeginsNone ==
    ASSUME ForensicTypeOK, Shared, saves, [Next]_vars, ~ \E p \in Dirs : AnalyzeFile(p)
    PROVE  Begun' = Begun
  <1>1. \A q \in Dirs : buffer[q] = None
    BY DEF Shared, Printed
  <1>2. ASSUME UNCHANGED current, \A f \in Files : output'[f] = output[f]
        PROVE  Begun' = Begun
    BY <1>2 DEF Begun
  <1>3. ASSUME NEW p \in Dirs, Report(p) PROVE Begun' = Begun
    <2>1. pc[p] = "analyze" /\ current' = [current EXCEPT ![p] = Root]
      BY <1>3 DEF Report
    <2>2. current[p] \in Files /\ Root \notin Files
      BY <2>1, TreeAssumption DEF Shared, Places
    <2>3. output' = [output EXCEPT ![current[p]] = @ + 1]
      BY <1>3 DEF Report
    <2>4. current'[p] = Root /\ \A q \in Dirs : q # p => current'[q] = current[q]
      BY <2>1 DEF ForensicTypeOK
    <2>5. output'[current[p]] > 0 /\ \A g \in Files : g # current[p] => output'[g] = output[g]
      BY <2>2, <2>3 DEF ForensicTypeOK
    <2>6. \A g \in Files : g \in Begun' <=> g \in Begun
      BY <2>2, <2>4, <2>5 DEF Begun
    <2>7. Begun' \subseteq Files /\ Begun \subseteq Files
      BY DEF Begun
    <2> QED BY <2>6, <2>7
  <1>4. ASSUME NEW p \in Dirs, AnalyzePath(p) \/ Fork(p) \/ ForkFails(p) PROVE Begun' = Begun
    BY <1>2, <1>4 DEF AnalyzePath, Fork, ForkFails, out_vars
  <1>5. CASE \/ \E p \in Dirs : Leave(p) \/ Fail(p) \/ Interrupt(p)
             \/ Ends \/ HandleSignal \/ UNCHANGED vars
    <2>1. UNCHANGED current /\ (UNCHANGED out_vars \/ \E p \in Dirs : ExitOf(p))
      BY <1>5, OtherStepsEnd
    <2>2. \A f \in Files : output'[f] = output[f]
      BY <1>1, <2>1, NothingFlushed DEF out_vars
    <2> QED BY <1>2, <2>1, <2>2
  <1> QED BY <1>3, <1>4, <1>5 DEF Next, Works

LEMMA BehindKept == ForensicTypeOK /\ Shared /\ Behind /\ [Next]_vars => Behind'
  <1> SUFFICES ASSUME ForensicTypeOK, Shared, Behind, [Next]_vars, saves'
               PROVE  IsFiniteSet(Begun') /\ Due' <= Cardinality(Begun')
    BY DEF Behind
  <1>1. saves
    BY DEF Next, Works, AnalyzePath, AnalyzeFile, Report, Fork, Leave, ForkFails, Fail,
           Interrupt, Ends, Wait, NoMoreChildren, End, HandleSignal, vars, option_vars
  <1>2. IsFiniteSet(Begun) /\ Due <= Cardinality(Begun) /\ Cardinality(Begun) \in Nat
    BY <1>1, FS_CardinalityType DEF Behind
  <1>3. Due \in Nat /\ Due' \in Nat
    <2>1. ForensicTypeOK'
      BY StepTyped, Zenon
    <2>2. nFiles \in Nat /\ nFiles' \in Nat
      BY <2>1 DEF ForensicTypeOK
    <2>3. nFiles' \in Nat => Due' \in Nat
      BY DueIsNatNext
    <2>4. Due \in Nat /\ Due' \in Nat
      BY <2>2, <2>3, DueIsNat
    <2> QED BY <2>4
  <1>4. CASE \E p \in Dirs : AnalyzeFile(p)
    <2>1. PICK p \in Dirs : AnalyzeFile(p)
      BY <1>4
    <2>2. PICK f \in Files \ Begun : Begun' = Begun \cup {f}
      BY <1>1, <2>1, BeginsOne
    <2>3. IsFiniteSet(Begun') /\ Cardinality(Begun') = Cardinality(Begun) + 1
      BY <1>2, <2>2, FS_AddElement
    <2>4. Due' <= Due + 1
      BY <2>1, DueGrows DEF AnalyzeFile
    <2> QED BY <1>2, <1>3, <2>3, <2>4
  <1>5. CASE ~ \E p \in Dirs : AnalyzeFile(p)
    <2>1. Begun' = Begun
      BY <1>1, <1>5, BeginsNone
    <2>2. Due' <= Due
      <3>1. ASSUME NEW p \in Dirs, AnalyzePath(p) PROVE Due' <= Due
        BY <3>1, DueGrows DEF AnalyzePath
      <3>2. ASSUME NEW p \in Dirs, Report(p) \/ Fork(p) \/ Leave(p) \/ ForkFails(p) \/ Fail(p) \/ Interrupt(p)
            PROVE  UNCHANGED count_vars
        BY <3>2 DEF Report, Fork, Leave, ForkFails, Fail, Interrupt
      <3>3. CASE Ends \/ UNCHANGED vars
        BY <3>3, DueGrows DEF Ends, Wait, NoMoreChildren, End, vars
      <3>4. CASE HandleSignal
        BY <3>4, DueGrows
      <3> QED BY <1>5, <3>1, <3>2, <3>3, <3>4, DueGrows DEF Next, Works
    <2> QED BY <1>2, <2>1, <2>2, <1>3
  <1> QED BY <1>4, <1>5

\* With -o the counts never run ahead of the work, although signals come late, coalesce
\* and interrupt (forensic.c:24-37): whatever has been counted, or waits to be, stands for
\* a file that some process has begun with, and no two for the same.
THEOREM CountsAreBehind == Spec => []CountsStayBehind
  <1>1. ASSUME Init PROVE Behind
    <2>1. Due = 0
      BY <1>1 DEF Init, Due
    <2>2. Begun = {}
      BY <1>1, TreeAssumption DEF Init, Begun, None
    <2> QED BY <2>1, <2>2, FS_EmptySet DEF Behind
  <1>2. ForensicTypeOK /\ Behind => CountsStayBehind
    <2> SUFFICES ASSUME ForensicTypeOK, Behind PROVE CountsStayBehind
      OBVIOUS
    <2>1. Due = nFiles + Cardinality(pending \cap {"SIGUSR2"})
      BY DueIsCounted
    <2> QED BY <2>1 DEF Behind, CountsStayBehind, Begun
  <1> QED BY <1>1, <1>2, InitShared, SharedKept, BehindKept, ForensicIsTyped, PTL DEF Spec

-----------------------------------------------------------------------------
(* A failure is local. *)

\* A process that is not cut short opens its own directory, and when it ends it has
\* nothing left to do, nor anything buffered.
Orderly ==
    /\ pc[Root] # "unborn" /\ \A d \in Dirs : pc[d] = "crashed" => d = Root
    /\ Root \notin cut => ~forked[Root]
    /\ \A d \in Dirs \ cut :
          /\ where[d] = d
          /\ pc[d] \in {"wait", "end", "exited"} => left[d] = {} /\ current[d] = Root
          /\ pc[d] = "exited" => buffer[d] = None

\* Where a file that process d has found is then.
Kept(d, f) == f \in left[d] \/ current[d] = f \/ output[f] # 0 \/ buffer[d][f] # 0

\* What such a process has found: a process for each directory or one to come, and every
\* file.
Found ==
    \A d \in Dirs \ cut : pc[d] \notin {"unborn", "enter"} =>
        /\ \A x \in Entries(d) \cap Dirs : x \in left[d] \/ pc[x] # "unborn"
        /\ \A f \in Entries(d) \cap Files : Kept(d, f)

\* The entries of a process stand, unless it turns to another directory.
LEMMA EntriesStand ==
    ASSUME UNCHANGED target, NEW d \in Dirs, where'[d] = where[d], d = Root => forked'[d] = forked[d]
    PROVE  Entries(d)' = Entries(d)
BY DEF Entries, Path

\* What a process has found it keeps, if it lets go of a directory only for its process,
\* and of a file only for the output.
LEMMA FoundStands ==
    ASSUME Found, cut \subseteq cut', UNCHANGED target, Root \notin cut' => forked'[Root] = forked[Root],
           \A x \in Dirs : pc[x] # "unborn" => pc'[x] # "unborn",
           \A d \in Dirs \ cut' :
              /\ where'[d] = where[d]
              /\ pc'[d] \notin {"unborn", "enter"} => pc[d] \notin {"unborn", "enter"}
              /\ \A x \in left[d] \cap Dirs : x \in left'[d] \/ pc'[x] # "unborn"
              /\ pc'[d] \notin {"unborn", "enter"} => \A f \in Files : Kept(d, f) => Kept(d, f)'
    PROVE  Found'
  <1> SUFFICES ASSUME NEW d \in Dirs \ cut', pc'[d] \notin {"unborn", "enter"}
               PROVE  /\ \A x \in Entries(d)' \cap Dirs : x \in left'[d] \/ pc'[x] # "unborn"
                      /\ \A f \in Entries(d)' \cap Files : Kept(d, f)'
    BY DEF Found
  <1>1. Entries(d)' = Entries(d)
    BY EntriesStand
  <1>2. /\ \A x \in Entries(d) \cap Dirs : x \in left[d] \/ pc[x] # "unborn"
        /\ \A f \in Entries(d) \cap Files : Kept(d, f)
    BY DEF Found
  <1> QED BY <1>1, <1>2

\* Opening its directory, a process finds all of it.
LEMMA AnalyzePathCompletes ==
    ASSUME ForensicTypeOK, Orderly, Found, NEW p \in Dirs, AnalyzePath(p)
    PROVE  Orderly' /\ Found'
  <1>1. /\ pc[p] = "enter" /\ pc' = [pc EXCEPT ![p] = "read"]
        /\ left' = [left EXCEPT ![p] = Entries(p)]
        /\ UNCHANGED <<target, where, current, forked, buffer, output, cut>>
    BY DEF AnalyzePath, option_vars, out_vars
  <1>2. /\ pc'[p] = "read" /\ left'[p] = Entries(p)
        /\ \A d \in Dirs : d # p => pc'[d] = pc[d] /\ left'[d] = left[d]
    BY <1>1 DEF ForensicTypeOK
  <1>3. Orderly'
    BY <1>1, <1>2 DEF Orderly
  <1>4. ASSUME NEW d \in Dirs \ cut, pc'[d] \notin {"unborn", "enter"}
        PROVE  /\ \A x \in Entries(d) \cap Dirs : x \in left'[d] \/ pc'[x] # "unborn"
               /\ \A f \in Entries(d) \cap Files : Kept(d, f)'
    <2>1. CASE d = p
      BY <1>2, <2>1 DEF Kept
    <2>2. CASE d # p
      <3>1. /\ \A x \in Entries(d) \cap Dirs : x \in left[d] \/ pc[x] # "unborn"
            /\ \A f \in Entries(d) \cap Files : Kept(d, f)
        BY <1>2, <1>4, <2>2 DEF Found
      <3>2. \A f \in Files : Kept(d, f) => Kept(d, f)'
        BY <1>1, <1>2, <2>2 DEF Kept
      <3> QED BY <1>1, <1>2, <2>2, <3>1, <3>2
    <2> QED BY <2>1, <2>2
  <1>5. \A d \in Dirs : Entries(d)' = Entries(d)
    BY <1>1, EntriesStand
  <1>6. Found'
    BY <1>1, <1>4, <1>5 DEF Found
  <1> QED BY <1>3, <1>6

\* A file taken is the one being analysed; reported, it is in the output or the buffer.
LEMMA FileCompletes ==
    ASSUME ForensicTypeOK, Shared, Orderly, Found, NEW p \in Dirs, AnalyzeFile(p) \/ Report(p)
    PROVE  Orderly' /\ Found'
  <1>1. /\ UNCHANGED <<target, where, forked, cut>> /\ pc[p] \in {"read", "analyze"}
        /\ pc'[p] \in {"read", "analyze"} /\ \A d \in Dirs : d # p => pc'[d] = pc[d]
    BY DEF AnalyzeFile, Report, option_vars, ForensicTypeOK
  <1>2. /\ \A d \in Dirs : d # p => left'[d] = left[d] /\ current'[d] = current[d]
        /\ \A d \in Dirs : left'[d] \cap Dirs = left[d] \cap Dirs
        /\ \A d \in Dirs, f \in Files : f \in left[d] => f \in left'[d] \/ current'[d] = f
    <2>1. CASE AnalyzeFile(p)
      <3>1. PICK f \in left[p] \cap Files : /\ current' = [current EXCEPT ![p] = f]
                                            /\ left' = [left EXCEPT ![p] = @ \ {f}]
        BY <2>1 DEF AnalyzeFile
      <3>2. /\ current'[p] = f /\ left'[p] = left[p] \ {f} /\ f \notin Dirs
            /\ \A d \in Dirs : d # p => left'[d] = left[d] /\ current'[d] = current[d]
        BY <3>1, TreeAssumption DEF ForensicTypeOK
      <3> QED BY <3>2
    <2>2. CASE Report(p)
      BY <2>2 DEF Report, ForensicTypeOK
    <2> QED BY <2>1, <2>2
  <1>3. /\ \A f \in Files : output[f] # 0 => output'[f] # 0
        /\ \A f \in Files : buffer[p][f] # 0 => buffer'[p][f] # 0
        /\ \A f \in Files : current[p] = f => current'[p] = f \/ output'[f] # 0 \/ buffer'[p][f] # 0
        /\ \A d \in Dirs : d # p => buffer'[d] = buffer[d]
    <2>1. CASE AnalyzeFile(p)
      <3>1. current[p] = Root /\ Root \notin Files
        BY <2>1, TreeAssumption DEF AnalyzeFile, Shared, Places, Gone
      <3> QED BY <2>1, <3>1 DEF AnalyzeFile, out_vars
    <2>2. CASE Report(p)
      <3>1. CASE buffered /\ ~saves
        <4>1. buffer' = [buffer EXCEPT ![p][current[p]] = @ + 1] /\ output' = output
          BY <2>2, <3>1 DEF Report
        <4>2. \A d \in Dirs : d # p => buffer'[d] = buffer[d]
          BY <4>1 DEF ForensicTypeOK
        <4>3. \A f \in Files : /\ buffer[p][f] \in Nat /\ buffer'[p][f] \in {buffer[p][f], buffer[p][f] + 1}
                               /\ current[p] = f => buffer'[p][f] = buffer[p][f] + 1
          BY <4>1 DEF ForensicTypeOK
        <4> QED BY <4>1, <4>2, <4>3
      <3>2. CASE ~(buffered /\ ~saves)
        <4>1. output' = [output EXCEPT ![current[p]] = @ + 1] /\ buffer' = buffer
          BY <2>2, <3>2 DEF Report
        <4>2. \A f \in Files : /\ output[f] \in Nat /\ output'[f] \in {output[f], output[f] + 1}
                               /\ current[p] = f => output'[f] = output[f] + 1
          BY <4>1 DEF ForensicTypeOK
        <4> QED BY <4>1, <4>2
      <3> QED BY <3>1, <3>2
    <2> QED BY <2>1, <2>2
  <1>4. Orderly'
    BY <1>1, <1>2, <1>3, TreeAssumption DEF Orderly
  <1>5. \A d \in Dirs, f \in Files : Kept(d, f) => Kept(d, f)'
    <2>1. \A f \in Files : Kept(p, f) => Kept(p, f)'
      BY <1>2, <1>3 DEF Kept
    <2>2. \A d \in Dirs, f \in Files : d # p => (Kept(d, f) => Kept(d, f)')
      BY <1>2, <1>3 DEF Kept
    <2> QED BY <2>1, <2>2
  <1>6. \A d \in Dirs : /\ pc'[d] \in {"unborn", "enter"} <=> pc[d] \in {"unborn", "enter"}
                        /\ pc'[d] = "unborn" <=> pc[d] = "unborn"
    BY <1>1
  <1>7. \A d \in Dirs : \A x \in left[d] \cap Dirs : x \in left'[d]
    BY <1>2
  <1> QED BY <1>1, <1>4, <1>5, <1>6, <1>7, FoundStands, TreeAssumption

\* A directory that is forked for is no longer to come.
LEMMA ForkCompletes ==
    ASSUME ForensicTypeOK, Shared, Orderly, Found, NEW p \in Dirs, Fork(p)
    PROVE  Orderly' /\ Found'
  <1>1. PICK c \in left[p] \cap Dirs :
           /\ pc' = [pc EXCEPT ![c] = "enter"]
           /\ left' = [left EXCEPT ![p] = @ \ {c}]
           /\ forked' = [forked EXCEPT ![c] = TRUE]
           /\ buffer' = [buffer EXCEPT ![c] = buffer[p]]
    BY DEF Fork
  <1>2. pc[p] = "read" /\ UNCHANGED <<target, where, current, output, cut>>
    BY DEF Fork, option_vars
  <1>3. c # Root /\ pc[c] = "unborn" /\ c # p /\ c \notin Files
    BY <1>2, TreeAssumption DEF Shared, Places
  <1>4. /\ pc'[c] = "enter" /\ left'[p] = left[p] \ {c}
        /\ \A d \in Dirs : d # c => pc'[d] = pc[d] /\ forked'[d] = forked[d] /\ buffer'[d] = buffer[d]
        /\ \A d \in Dirs : d # p => left'[d] = left[d]
    BY <1>1 DEF ForensicTypeOK
  <1>5. Orderly'
    BY <1>2, <1>3, <1>4, TreeAssumption DEF Orderly
  <1>6. \A d \in Dirs, f \in Files : d # c => (Kept(d, f) => Kept(d, f)')
    BY <1>2, <1>3, <1>4 DEF Kept
  <1>7. \A d \in Dirs : \A x \in left[d] \cap Dirs : x \in left'[d] \/ pc'[x] # "unborn"
    BY <1>4
  <1>8. forked'[Root] = forked[Root]
    BY <1>3, <1>4, TreeAssumption
  <1>9. \A d \in Dirs : pc'[d] \notin {"unborn", "enter"} => d # c /\ pc[d] \notin {"unborn", "enter"}
    BY <1>4
  <1>10. \A d \in Dirs : pc[d] # "unborn" => pc'[d] # "unborn"
    BY <1>4
  <1>11. cut \subseteq cut' /\ UNCHANGED target /\ \A d \in Dirs : where'[d] = where[d]
    BY <1>2
  <1>12. \A d \in Dirs : pc'[d] \notin {"unborn", "enter"} => \A f \in Files : Kept(d, f) => Kept(d, f)'
    BY <1>6, <1>9
  <1> QED BY <1>5, <1>7, <1>8, <1>9, <1>10, <1>11, <1>12, FoundStands

\* Of a process that goes into a directory itself nothing is asked any more, and no other
\* is disturbed.
LEMMA ForkFailsCompletes ==
    ASSUME ForensicTypeOK, Orderly, Found, NEW p \in Dirs, ForkFails(p)
    PROVE  Orderly' /\ Found'
  <1>1. PICK c \in Dirs : where' = [where EXCEPT ![p] = c]
    BY DEF ForkFails
  <1>2. /\ pc[p] = "read" /\ pc' = [pc EXCEPT ![p] = "enter"] /\ cut' = cut \cup {p}
        /\ forked' = [forked EXCEPT ![p] = TRUE] /\ left' = [left EXCEPT ![p] = {}]
        /\ UNCHANGED <<target, current, buffer, output>>
    BY DEF ForkFails, option_vars, out_vars
  <1>3. /\ pc'[p] = "enter"
        /\ \A d \in Dirs : d # p => /\ pc'[d] = pc[d] /\ where'[d] = where[d]
                                    /\ left'[d] = left[d] /\ forked'[d] = forked[d]
    BY <1>1, <1>2 DEF ForensicTypeOK
  <1>4. cut \subseteq cut' /\ \A d \in Dirs \ cut' : d # p
    BY <1>2
  <1>5. Orderly'
    BY <1>2, <1>3, <1>4, TreeAssumption DEF Orderly
  <1>6. \A d \in Dirs \ cut', f \in Files : Kept(d, f) => Kept(d, f)'
    BY <1>2, <1>3, <1>4 DEF Kept
  <1>7. Root \notin cut' => forked'[Root] = forked[Root]
    BY <1>3, <1>4, TreeAssumption
  <1>8. \A d \in Dirs : pc[d] # "unborn" => pc'[d] # "unborn"
    BY <1>3
  <1>9. \A d \in Dirs \ cut' : /\ where'[d] = where[d] /\ pc'[d] = pc[d]
                               /\ \A x \in left[d] \cap Dirs : x \in left'[d]
    BY <1>3, <1>4
  <1> QED BY <1>2, <1>4, <1>5, <1>6, <1>7, <1>8, <1>9, FoundStands

\* A process that is not cut short ends when it has nothing left, and flushes what it has
\* buffered; the output only grows when others end.
LEMMA EndCompletes ==
    ASSUME ForensicTypeOK, Shared, Orderly, Found,
           \/ \E p \in Dirs : Leave(p) \/ Fail(p) \/ Interrupt(p)
           \/ Ends \/ HandleSignal \/ UNCHANGED vars
    PROVE  Orderly' /\ Found'
  <1>1. /\ UNCHANGED <<target, where, left, current, forked>> /\ \A d \in Dirs : ForwardTo(d)
        /\ UNCHANGED out_vars \/ \E p \in Dirs : ExitOf(p)
    BY OtherStepsEnd DEF option_vars
  <1>2. /\ cut \subseteq cut'
        /\ UNCHANGED out_vars => \A d \in Dirs : pc'[d] = "exited" => pc[d] = "exited" \/ buffer[d] = None
        /\ \A d \in Dirs \ cut' :
              \/ pc'[d] = pc[d]
              \/ pc[d] = "read" /\ left[d] = {} /\ pc'[d] \in {"wait", "exited"}
              \/ pc[d] \in {"wait", "end"} /\ pc'[d] \in {"end", "exited"}
              \/ d = Root /\ pc[d] = "analyze" /\ pc'[d] = "crashed"
        /\ \A d \in Dirs : pc'[d] = "crashed" => pc[d] = "crashed" \/ d = Root
    <2>1. ASSUME NEW p \in Dirs, ExitOf(p)
          PROVE  /\ pc'[p] = "exited" /\ \A d \in Dirs : d # p => pc'[d] = pc[d]
                 /\ buffer'[p] = None
      BY <2>1 DEF ExitOf, ForensicTypeOK
    <2>2. ASSUME NEW p \in Dirs, Fail(p) \/ Interrupt(p)
          PROVE  ExitOf(p) /\ cut' = cut \cup {p}
      BY <2>2 DEF Fail, Interrupt
    <2>3. CASE \E p \in Dirs : Fail(p) \/ Interrupt(p)
      BY <2>1, <2>2, <2>3 DEF out_vars
    <2>4. CASE \E p \in Dirs : Leave(p)
      <3>1. PICK p \in Dirs : pc[p] = "read" /\ left[p] = {} /\ cut' = cut
                /\ (ExitOf(p) \/ (pc' = [pc EXCEPT ![p] = "wait"]))
        BY <2>4 DEF Leave
      <3>2. CASE ExitOf(p)
        BY <2>1, <3>1, <3>2 DEF out_vars
      <3>3. CASE pc' = [pc EXCEPT ![p] = "wait"]
        <4>1. pc'[p] = "wait" /\ \A d \in Dirs : d # p => pc'[d] = pc[d]
          BY <3>3 DEF ForensicTypeOK
        <4> QED BY <3>1, <4>1
      <3> QED BY <3>1, <3>2, <3>3
    <2>5. CASE Wait \/ UNCHANGED vars
      BY <2>5 DEF Wait, vars
    <2>6. CASE NoMoreChildren \/ HandleSignal
      <3>1. cut' = cut /\ \A d \in Dirs : d # Root => pc'[d] = pc[d]
        BY <2>6 DEF NoMoreChildren, HandleSignal, ForensicTypeOK
      <3>2. \/ pc'[Root] = pc[Root]
            \/ pc[Root] = "wait" /\ pc'[Root] = "end"
            \/ pc[Root] = "analyze" /\ pc'[Root] = "crashed"
        BY <2>6, TreeAssumption DEF NoMoreChildren, HandleSignal, ForensicTypeOK
      <3> QED BY <3>1, <3>2
    <2>7. CASE End
      <3>1. pc[Root] = "end" /\ ExitOf(Root) /\ cut' = cut
        BY <2>7 DEF End
      <3> QED BY <2>1, <3>1, TreeAssumption DEF out_vars
    <2> QED BY <2>3, <2>4, <2>5, <2>6, <2>7 DEF Ends
  <1>3. \A d \in Dirs : pc[d] = "read" => current[d] = Root
    BY DEF Shared, Places, Gone
  <1>4. \A d \in Dirs : pc'[d] = "unborn" <=> pc[d] = "unborn"
    BY <1>1 DEF ForwardTo, Gone
  <1>5. \A d \in Dirs \ cut' : pc'[d] = "exited" => buffer'[d] = None
    <2>1. CASE UNCHANGED out_vars
      BY <1>2, <2>1 DEF Orderly, out_vars
    <2>2. ASSUME NEW p \in Dirs, ExitOf(p)
          PROVE  \A d \in Dirs \ cut' : pc'[d] = "exited" => buffer'[d] = None
      <3>1. /\ buffer'[p] = None
            /\ \A d \in Dirs : d # p => buffer'[d] = buffer[d] /\ pc'[d] = pc[d]
        BY <2>2 DEF ExitOf, ForensicTypeOK
      <3> QED BY <1>2, <3>1 DEF Orderly
    <2> QED BY <1>1, <2>1, <2>2
  <1>6. Orderly'
    <2>1. \A d \in Dirs \ cut' : pc'[d] \in {"wait", "end", "exited"} => left'[d] = {} /\ current'[d] = Root
      BY <1>1, <1>2, <1>3 DEF Orderly
    <2>2. \A d \in Dirs : pc'[d] = "crashed" => d = Root
      BY <1>2 DEF Orderly
    <2>3. pc'[Root] # "unborn"
      BY <1>4, TreeAssumption DEF Orderly
    <2>4. (Root \notin cut' => ~forked'[Root]) /\ \A d \in Dirs \ cut' : where'[d] = d
      BY <1>1, <1>2 DEF Orderly
    <2> QED BY <1>5, <2>1, <2>2, <2>3, <2>4 DEF Orderly
  <1>7. \A d \in Dirs, f \in Files : Kept(d, f) => Kept(d, f)'
    <2>1. CASE UNCHANGED out_vars
      BY <1>1, <2>1 DEF Kept, out_vars
    <2>2. ASSUME NEW p \in Dirs, ExitOf(p)
          PROVE  \A d \in Dirs, f \in Files : Kept(d, f) => Kept(d, f)'
      <3>1. \A f \in Files : output'[f] = output[f] + buffer[p][f]
        BY <2>2 DEF ExitOf
      <3>2. \A f \in Files : output[f] \in Nat /\ buffer[p][f] \in Nat
        BY DEF ForensicTypeOK
      <3>3. \A f \in Files : output[f] # 0 \/ buffer[p][f] # 0 => output'[f] # 0
        BY <3>1, <3>2
      <3>4. \A d \in Dirs : d # p => buffer'[d] = buffer[d]
        BY <2>2 DEF ExitOf, ForensicTypeOK
      <3> QED BY <1>1, <3>3, <3>4 DEF Kept
    <2> QED BY <1>1, <2>1, <2>2
  <1>8. \A d \in Dirs \ cut' : pc'[d] \notin {"unborn", "enter"} => pc[d] \notin {"unborn", "enter"}
    BY <1>2
  <1>9. \A d \in Dirs : where'[d] = where[d] /\ \A x \in left[d] \cap Dirs : x \in left'[d]
    BY <1>1
  <1>10. \A d \in Dirs : pc[d] # "unborn" => pc'[d] # "unborn"
    BY <1>4
  <1>11. cut \subseteq cut' /\ UNCHANGED <<target, forked>>
    BY <1>1, <1>2
  <1>12. Found'
    BY <1>7, <1>8, <1>9, <1>10, <1>11, FoundStands
  <1> QED BY <1>6, <1>12

LEMMA CompleteKept ==
    ForensicTypeOK /\ Shared /\ Orderly /\ Found /\ [Next]_vars => (Orderly /\ Found)'
BY AnalyzePathCompletes, FileCompletes, ForkCompletes, ForkFailsCompletes, EndCompletes
   DEF Next, Works

\* When a process ends that is not cut short it has nothing left, so what it has found is
\* in the output.  When all end so, every directory of the tree had a process, since each
\* is in one that was opened.
LEMMA CompleteAtTheEnd ==
    ASSUME ForensicTypeOK, Orderly, Found
    PROVE  NothingMissed
  <1>1. ASSUME NEW d \in Dirs \ cut, pc[d] = "exited"
        PROVE  /\ \A f \in Entries(d) \cap Files : output[f] >= 1
               /\ \A x \in Entries(d) \cap Dirs : pc[x] # "unborn"
    <2>1. left[d] = {} /\ current[d] = Root /\ buffer[d] = None /\ Root \notin Files
      BY <1>1, TreeAssumption DEF Orderly
    <2>2. /\ \A x \in Entries(d) \cap Dirs : x \in left[d] \/ pc[x] # "unborn"
          /\ \A f \in Entries(d) \cap Files : Kept(d, f)
      BY <1>1 DEF Found
    <2>3. \A f \in Files : Kept(d, f) => output[f] # 0
      BY <2>1 DEF Kept, None
    <2>4. \A f \in Files : output[f] # 0 => output[f] >= 1
      BY DEF ForensicTypeOK
    <2> QED BY <2>1, <2>2, <2>3, <2>4
  <1>2. ASSUME \A p \in Dirs : pc[p] \in {"unborn"} \cup Gone,
               pc[Root] = "exited", target = Root, cut = {}, NEW f \in Files
        PROVE  output[f] >= 1
    <2>1. \A p \in Dirs : pc[p] \in {"unborn", "exited"}
      BY <1>2 DEF Orderly, Gone
    <2>2. \A d \in Dirs : Entries(d) = Contents[d]
      BY <1>2 DEF Orderly, Entries, Path
    <2>3. PICK D \in SUBSET Dirs : D = {p \in Dirs : pc[p] = "exited"}
      OBVIOUS
    <2>4. \A d \in D : Contents[d] \cap Dirs \subseteq D
      BY <1>1, <1>2, <2>1, <2>2, <2>3
    <2>5. Root \in D
      BY <1>2, <2>3, TreeAssumption
    <2>6. PICK d \in D : f \in Contents[d]
      BY <2>4, <2>5, ReachAssumption
    <2> QED BY <1>1, <1>2, <2>2, <2>3, <2>6
  <1> QED BY <1>1, <1>2 DEF NothingMissed

\* A failure is local (forensic.c:145-193): a process that ends without being cut short has
\* reported its whole directory, whatever becomes of the others, in whatever order they
\* work and end, and whether or not reports are buffered.
THEOREM NothingIsMissed == Spec => []NothingMissed
  <1>1. Init => Orderly /\ Found
    BY TreeAssumption DEF Init, Orderly, Found
  <1> QED BY <1>1, InitShared, SharedKept, CompleteKept, CompleteAtTheEnd, ForensicIsTyped, PTL DEF Spec
=============================================================================
