--------------------------- MODULE ServingProofs ---------------------------
(***************************************************************************)
(* What follows for the server from the invariant of BankSystemProofs: who *)
(* may still come once it closes, the order of slog.txt, the accounts'     *)
(* semaphores, and that users are told what slog.txt says.  Each theorem   *)
(* has an inductive invariant of its own, beside IInv, on which all of     *)
(* them lean for the mutex.                                                *)
(***************************************************************************)
EXTENDS BankSystemProofs

\* Before main makes the FIFO nothing has been asked of the offices that run.
Early ==
    main_pc \in {"spawn", "admin", "mkfifo"} =>
        /\ requests = << >> /\ main_sem = 0 /\ ~server_exit
        /\ \A t \in Offices : pc[t] \in {"unborn", "loop", "wait"}
        /\ main_pc # "mkfifo" => slog = << >>

\* Once the mutex is held by an office no other is in the critical section.
LEMMA OthersAreOutside ==
    ASSUME MutualExclusion, NEW t \in Offices, pc[t] \in Critical
    PROVE  \A s \in Offices : s # t => pc[s] \notin Critical
BY DEF MutualExclusion

\* An office that runs early goes no further than the wait for main_sem.
LEMMA OfficeEarly ==
    ASSUME ServerTypeOK, Closing, Early, NEW t \in Offices, OfficeStep(t), Alive,
           UNCHANGED main_vars \/ DieOfSigpipe(t)
    PROVE  Early'
<1>. SUFFICES ASSUME main_pc' \in {"spawn", "admin", "mkfifo"}
              PROVE  Early'
  BY DEF Early
<1>1. main_pc' = main_pc /\ ~DieOfSigpipe(t)
  BY DEF main_vars, DieOfSigpipe
<1>2. /\ pc[t] \in {"unborn", "loop", "wait"} /\ main_sem = 0 /\ ~close_thread
  BY <1>1 DEF Early, Closing
<1>3. Loop(t)
  BY <1>1, <1>2 DEF OfficeStep, WaitMainSem, Woken,
                LockMutex, TakeRequest, LoadToMark, Mark, WaitSource, WaitTarget, BuildReply,
                Credit, Debit, InstallAccount, InitAccountSem, ReleaseSource, ReleaseTarget,
                OpenUserFifo, WriteReply, LogReply, UnlockMutex, CloseToUsers, AnnounceExit,
                LoadToUnmark, Unmark, Office
<1>4. pc' = [pc EXCEPT ![t] = "wait"] /\ UNCHANGED <<requests, main_sem, server_exit, slog>>
  BY <1>2, <1>3 DEF Loop, Office, shared_vars, flags
<1>. QED
  BY <1>1, <1>4 DEF Early, ServerTypeOK

\* Nor does main ask anything of them until it has made the FIFO (server.c:138-153).
LEMMA MainEarly ==
    ASSUME ServerTypeOK, Early, MainStep
    PROVE  Early'
<1>. USE DEF ServerTypeOK, Early
<1>1. CASE SpawnOffice
  BY <1>1, OfficesAssumption DEF SpawnOffice, ForEachThread, Offices, shared_vars, flags
<1>2. CASE CreateAdmin
  BY <1>2 DEF CreateAdmin, Main, office_vars, flags
<1>3. CASE ~SpawnOffice /\ ~CreateAdmin
  BY <1>3 DEF MainStep, CreateServerFifo, StartOpening, FinishOpening, CheckExit, ReadRequest,
              ReadNothing, LockToPush, PushRequest, UnlockPushed, PostMainSem, WakeOffice,
              JoinOffice, Exit, Main, ForEachThread, NextTurn
<1>. QED
  BY <1>1, <1>2, <1>3

\* A step is one of main's, an office's, or nothing to the server's own variables.
LEMMA WhoseStep ==
    ASSUME [Next]_vars
    PROVE  \/ MainRuns
           \/ \E t \in Offices : /\ OfficeRuns(t) /\ OfficeStep(t) /\ Alive
                                 /\ UNCHANGED main_vars \/ DieOfSigpipe(t)
           \/ UNCHANGED server_vars
<1>1. ASSUME NEW t \in Offices, OfficeRuns(t)
      PROVE  OfficeStep(t) /\ Alive /\ (UNCHANGED main_vars \/ DieOfSigpipe(t))
  BY <1>1 DEF OfficeRuns, OfficeStep, Office, DieOfSigpipe, Loop, WaitMainSem, Woken,
              LockMutex, TakeRequest, LoadToMark, Mark, WaitSource, WaitTarget, BuildReply,
              Credit, Debit, InstallAccount, InitAccountSem, ReleaseSource, ReleaseTarget,
              OpenUserFifo, WriteReply, LogReply, UnlockMutex, CloseToUsers, AnnounceExit,
              LoadToUnmark, Unmark
<1>2. ASSUME NEW u \in Pids, UserMoves(u)
      PROVE  UNCHANGED server_vars
  BY <1>2 DEF UserMoves
<1>. QED
  BY <1>1, <1>2 DEF Next, vars

\* main's start is kept apart from what follows it.
LEMMA EarlyHolds == Spec => []Early
<1>1. Init => Early
  BY DEF Init, ServerInit, Early
<1>2. IInv /\ Early /\ [Next]_vars => Early'
  <2>. SUFFICES ASSUME IInv, Early, [Next]_vars PROVE Early'
    OBVIOUS
  <2>1. CASE MainRuns
    BY <2>1, MainEarly DEF MainRuns, IInv, TypeOK
  <2>2. ASSUME NEW t \in Offices, OfficeStep(t), Alive, UNCHANGED main_vars \/ DieOfSigpipe(t)
        PROVE  Early'
    BY <2>2, OfficeEarly DEF IInv, TypeOK
  <2>3. CASE UNCHANGED server_vars
    BY <2>3 DEF Early, server_vars, main_vars, shared_vars, office_vars
  <2>. QED
    BY <2>1, <2>2, <2>3, WhoseStep
<1>. QED
  BY <1>1, <1>2, Invariant, PTL DEF Spec

-----------------------------------------------------------------------------
(* Nobody new opens the FIFO once server_exit is set. *)

\* The FIFO is closed to users before server_exit is set.
ClosedFirst ==
    (server_exit \/ \E t \in Offices : pc[t] = "announce") => server_fifo # "writable"

\* chmod comes before server_exit (server.c:95-97).
LEMMA OfficeClosesFirst ==
    ASSUME ServerTypeOK, ClosedFirst, NEW t \in Offices, OfficeStep(t)
    PROVE  ClosedFirst'
<1>. USE DEF ServerTypeOK, ClosedFirst, Office, fifo_vars, shared_vars, flags
<1>1. CASE CloseToUsers(t)
  BY <1>1 DEF CloseToUsers
<1>2. CASE AnnounceExit(t)
  BY <1>2 DEF AnnounceExit
<1>3. CASE DieOfSigpipe(t)
  BY <1>3 DEF DieOfSigpipe, office_vars
<1>4. CASE ~CloseToUsers(t) /\ ~AnnounceExit(t) /\ ~DieOfSigpipe(t)
  <2>1. UNCHANGED <<server_fifo, server_exit>>
    BY <1>4 DEF OfficeStep, Loop, WaitMainSem, Woken,
              LockMutex, TakeRequest, LoadToMark, Mark, WaitSource, WaitTarget, BuildReply,
              Credit, Debit, InstallAccount, InitAccountSem, ReleaseSource, ReleaseTarget,
              OpenUserFifo, WriteReply, LogReply, UnlockMutex, LoadToUnmark, Unmark
  <2>2. pc'[t] # "announce" /\ \A s \in Offices : s # t => pc'[s] = pc[s]
    BY <1>4 DEF OfficeStep, Loop, WaitMainSem, Woken,
              LockMutex, TakeRequest, LoadToMark, Mark, WaitSource, WaitTarget, BuildReply,
              Credit, Debit, InstallAccount, InitAccountSem, ReleaseSource, ReleaseTarget,
              OpenUserFifo, WriteReply, LogReply, UnlockMutex, LoadToUnmark, Unmark, AfterBuild
  <2>. QED
    BY <2>1, <2>2
<1>. QED
  BY <1>1, <1>2, <1>3, <1>4

\* main makes the FIFO before anybody asks for the end, and takes it away at its own.
LEMMA MainClosesFirst ==
    ASSUME ServerTypeOK, Early, ClosedFirst, MainStep
    PROVE  ClosedFirst'
<1>. USE DEF ServerTypeOK, ClosedFirst, fifo_vars, shared_vars, office_vars, flags
<1>1. CASE SpawnOffice
  BY <1>1, OfficesAssumption DEF SpawnOffice, ForEachThread, Offices
<1>2. CASE CreateServerFifo
  BY <1>2 DEF CreateServerFifo, Main, Early
<1>3. CASE Exit
  BY <1>3 DEF Exit, Main, RemoveServerFifo
<1>4. CASE ~SpawnOffice /\ ~CreateServerFifo /\ ~Exit
  BY <1>4 DEF MainStep, CreateAdmin, StartOpening, FinishOpening, CheckExit, ReadRequest,
              ReadNothing, LockToPush, PushRequest, UnlockPushed, PostMainSem, WakeOffice,
              JoinOffice, Main
<1>. QED
  BY <1>1, <1>2, <1>3, <1>4

\* Users do not change the FIFO's mode.
LEMMA UsersLeaveTheMode ==
    ASSUME NEW u \in Pids, UserMoves(u)
    PROVE  /\ UNCHANGED <<server_fifo, server_exit, pc>>
           /\ server_fifo # "writable" => writers' \subseteq writers
BY DEF UserMoves, UserStep, UserRuns, UserOpen, UserFindsServerDown, UserSend, UserIsKilled,
       UserCreateFifo, UserReceive, UserTimeout, CanOpenServerFifo, fifo_vars, server_vars,
       shared_vars, office_vars

\* The server opens its FIFO for reading only.
LEMMA ServerIsNoWriter ==
    ASSUME MainStep \/ \E t \in Offices : OfficeStep(t)
    PROVE  UNCHANGED writers
<1>. USE DEF fifo_vars
<1>1. CASE MainStep
  BY <1>1 DEF MainStep, SpawnOffice, CreateAdmin, CreateServerFifo, StartOpening,
              FinishOpening, CheckExit, ReadRequest, ReadNothing, LockToPush, PushRequest,
              UnlockPushed, PostMainSem, WakeOffice, JoinOffice, Exit
<1>2. ASSUME NEW t \in Offices, OfficeStep(t)
      PROVE  UNCHANGED writers
  BY <1>2 DEF OfficeStep, Loop, WaitMainSem, Woken, LockMutex, TakeRequest, LoadToMark, Mark,
              WaitSource, WaitTarget, BuildReply, Credit, Debit, InstallAccount,
              InitAccountSem, ReleaseSource, ReleaseTarget, OpenUserFifo, WriteReply,
              DieOfSigpipe, LogReply, UnlockMutex, CloseToUsers, AnnounceExit, LoadToUnmark,
              Unmark
<1>. QED
  BY <1>1, <1>2

\* Once server_exit is set no user opens the FIFO: main waits for finitely many writers
\* (server.c:95-97, 161-172).
THEOREM ClosingIsFinal == Spec => NoNewWriterAfterExit
<1>1. Init => ClosedFirst
  BY DEF Init, ServerInit, FifosInit, ClosedFirst
<1>2. IInv /\ Early /\ ClosedFirst /\ [Next]_vars => ClosedFirst'
  <2>. SUFFICES ASSUME IInv, Early, ClosedFirst, [Next]_vars PROVE ClosedFirst'
    OBVIOUS
  <2>1. CASE MainRuns
    BY <2>1, MainClosesFirst DEF MainRuns, IInv, TypeOK
  <2>2. ASSUME NEW t \in Offices, OfficeRuns(t)
        PROVE  ClosedFirst'
    BY <2>2, OfficeClosesFirst DEF OfficeRuns, IInv, TypeOK
  <2>3. ASSUME NEW u \in Pids, UserMoves(u)
        PROVE  ClosedFirst'
    BY <2>3, UsersLeaveTheMode DEF ClosedFirst
  <2>4. CASE UNCHANGED vars
    BY <2>4 DEF ClosedFirst, vars, server_vars, shared_vars, office_vars, fifo_vars
  <2>. QED
    BY <2>1, <2>2, <2>3, <2>4 DEF Next
<1>3. ClosedFirst /\ [Next]_vars => [server_exit => writers' \subseteq writers]_vars
  <2>. SUFFICES ASSUME ClosedFirst, Next, server_exit PROVE writers' \subseteq writers
    OBVIOUS
  <2>1. ASSUME NEW u \in Pids, UserMoves(u)
        PROVE  writers' \subseteq writers
    BY <2>1, UsersLeaveTheMode DEF ClosedFirst
  <2>2. CASE MainRuns \/ \E t \in Offices : OfficeRuns(t)
    BY <2>2, ServerIsNoWriter DEF MainRuns, OfficeRuns
  <2>. QED
    BY <2>1, <2>2 DEF Next
<1>. QED
  BY <1>1, <1>2, <1>3, Invariant, EarlyHolds, PTL DEF Spec, NoNewWriterAfterExit

-----------------------------------------------------------------------------
(* slog.txt. *)

\* An office has made the entry of its request and not yet that of its reply.
Serving(t) == pc[t] \in Critical \ {"take", "unlock"}

\* The last entry is that of the office which serves, or ends an earlier request.
LogTail ==
    /\ \A t \in Offices : Serving(t) =>
          /\ slog # << >>
          /\ slog[Len(slog)][1] # "reply" /\ slog[Len(slog)][2] = t
    /\ (slog # << >> /\ \A t \in Offices : ~Serving(t)) => slog[Len(slog)][1] # "request"

\* An entry that fits the last one keeps the log serial.
LEMMA AppendSerial ==
    ASSUME slog \in Seq(Entry), LogIsSerial, NEW entry \in Entry, slog' = Append(slog, entry),
           slog # << >> =>
             /\ slog[Len(slog)][1] = "request" => entry[1] # "request"
                                                  /\ entry[2] = slog[Len(slog)][2]
             /\ slog[Len(slog)][1] = "reply" => entry[1] = "request"
    PROVE  LogIsSerial' /\ slog' # << >> /\ slog'[Len(slog')] = entry
<1>1. /\ Len(slog) \in Nat /\ Len(slog') = Len(slog) + 1
      /\ slog'[Len(slog) + 1] = entry
      /\ \A i \in 1 .. Len(slog) : slog'[i] = slog[i]
  OBVIOUS
<1>2. slog' # << >> /\ slog'[Len(slog')] = entry
  BY <1>1
<1>3. SUFFICES ASSUME NEW i \in 1 .. Len(slog') - 1
      PROVE  /\ slog'[i][1] = "request" => slog'[i + 1][1] # "request"
                                           /\ slog'[i + 1][2] = slog'[i][2]
             /\ slog'[i][1] = "reply"   => slog'[i + 1][1] = "request"
  BY <1>2 DEF LogIsSerial
<1>4. CASE i = Len(slog)
  <2>1. slog # << >> /\ slog'[i] = slog[Len(slog)] /\ slog'[i + 1] = entry
    BY <1>1, <1>4
  <2>. QED
    BY <2>1
<1>5. CASE i # Len(slog)
  <2>1. i \in 1 .. Len(slog) - 1 /\ slog'[i] = slog[i] /\ slog'[i + 1] = slog[i + 1]
    BY <1>1, <1>5
  <2>. QED
    BY <2>1 DEF LogIsSerial
<1>. QED
  BY <1>4, <1>5

\* Three steps of an office write to the log; the others leave who serves as it is.
LEMMA OfficeWrites ==
    ASSUME ServerTypeOK, NEW t \in Offices, OfficeStep(t)
    PROVE  \/ TakeRequest(t) \/ (InstallAccount(t) /\ slog' # slog) \/ LogReply(t)
           \/ /\ UNCHANGED slog
              /\ Serving(t)' <=> Serving(t)
              /\ \A s \in Offices : s # t => pc'[s] = pc[s]
<1>. USE DEF ServerTypeOK, Office, shared_vars, office_vars, Serving, Critical
<1>1. CASE \/ Loop(t) \/ WaitMainSem(t) \/ Woken(t) \/ LockMutex(t)
           \/ LoadToMark(t) \/ Mark(t) \/ WaitSource(t) \/ WaitTarget(t)
  BY <1>1 DEF Loop, WaitMainSem, Woken, LockMutex, LoadToMark, Mark, WaitSource, WaitTarget
<1>2. CASE BuildReply(t)
  BY <1>2 DEF BuildReply, AfterBuild
<1>3. CASE \/ Credit(t) \/ Debit(t) \/ InitAccountSem(t) \/ ReleaseSource(t)
           \/ ReleaseTarget(t) \/ OpenUserFifo(t) \/ WriteReply(t)
  BY <1>3 DEF Credit, Debit, InitAccountSem, ReleaseSource, ReleaseTarget, OpenUserFifo,
              WriteReply
<1>4. CASE \/ DieOfSigpipe(t) \/ UnlockMutex(t) \/ CloseToUsers(t)
           \/ AnnounceExit(t) \/ LoadToUnmark(t) \/ Unmark(t)
  BY <1>4 DEF DieOfSigpipe, UnlockMutex, CloseToUsers, AnnounceExit, LoadToUnmark, Unmark
<1>5. CASE InstallAccount(t) /\ slog' = slog
  BY <1>5, InstallGoes
<1>. QED
  BY <1>1, <1>2, <1>3, <1>4, <1>5 DEF OfficeStep

\* An office writes what fits the last entry (server.c:47, 89, banking_aux.c:28): while
\* it serves, the mutex keeps the other offices from writing.
LEMMA OfficeLogs ==
    ASSUME ServerTypeOK, MutualExclusion, LogTail, LogIsSerial, ServerTypeOK',
           NEW t \in Offices, OfficeStep(t)
    PROVE  LogTail' /\ LogIsSerial'
<1>1. CASE TakeRequest(t)
  <2>1. /\ pc[t] = "take" /\ pc' = [pc EXCEPT ![t] = "mark"]
        /\ slog' = Append(slog, <<"request", t, Head(requests)>>)
    BY <1>1 DEF TakeRequest, Office, Log
  <2>2. \A s \in Offices : ~Serving(s)
    BY <2>1, OthersAreOutside DEF Critical, Serving
  <2>3. <<"request", t, Head(requests)>> \in Entry
    <3>1. slog' \in Seq(Entry) /\ Len(slog) \in Nat
      BY DEF ServerTypeOK
    <3>2. Len(slog') = Len(slog) + 1
          /\ slog'[Len(slog) + 1] = <<"request", t, Head(requests)>>
      BY <2>1 DEF ServerTypeOK
    <3>. QED
      BY <3>1, <3>2
  <2>4. LogIsSerial' /\ slog' # << >> /\ slog'[Len(slog')] = <<"request", t, Head(requests)>>
    BY <2>1, <2>2, <2>3, AppendSerial DEF LogTail, ServerTypeOK
  <2>5. Serving(t)' /\ \A s \in Offices : s # t => ~Serving(s)'
    BY <2>1, <2>2 DEF Serving, Critical, ServerTypeOK
  <2>. QED
    BY <2>4, <2>5 DEF LogTail
<1>2. CASE InstallAccount(t) /\ slog' # slog
  <2>1. /\ pc[t] = "install" /\ pc' = [pc EXCEPT ![t] = pc'[t]]
        /\ pc'[t] \in {"sem_init", "release"}
        /\ slog' = Append(slog, <<"account", t, ADMIN_ACCOUNT_ID>>)
    BY <1>2, InstallGoes
  <2>2. Serving(t) /\ \A s \in Offices : s # t => ~Serving(s)
    BY <2>1, OthersAreOutside DEF Critical, Serving
  <2>3. <<"account", t, ADMIN_ACCOUNT_ID>> \in Entry
    BY AdminAssumption DEF Entry
  <2>4. /\ LogIsSerial' /\ slog' # << >>
        /\ slog'[Len(slog')] = <<"account", t, ADMIN_ACCOUNT_ID>>
    BY <2>1, <2>2, <2>3, AppendSerial DEF LogTail, ServerTypeOK
  <2>5. Serving(t)' /\ \A s \in Offices : s # t => ~Serving(s)'
    BY <2>1, <2>2 DEF Serving, Critical, ServerTypeOK
  <2>. QED
    BY <2>4, <2>5 DEF LogTail
<1>3. CASE LogReply(t)
  <2>1. /\ pc[t] = "log" /\ pc' = [pc EXCEPT ![t] = "unlock"]
        /\ slog' = Append(slog, <<"reply", t, reply[t]>>)
    BY <1>3 DEF LogReply, Office, Log
  <2>2. Serving(t) /\ \A s \in Offices : s # t => ~Serving(s)
    BY <2>1, OthersAreOutside DEF Critical, Serving
  <2>3. <<"reply", t, reply[t]>> \in Entry
    BY DEF Entry, ServerTypeOK
  <2>4. LogIsSerial' /\ slog' # << >> /\ slog'[Len(slog')] = <<"reply", t, reply[t]>>
    BY <2>1, <2>2, <2>3, AppendSerial DEF LogTail, ServerTypeOK
  <2>5. \A s \in Offices : ~Serving(s)'
    BY <2>1, <2>2 DEF Serving, Critical, ServerTypeOK
  <2>. QED
    BY <2>4, <2>5 DEF LogTail
<1>4. CASE /\ UNCHANGED slog
           /\ Serving(t)' <=> Serving(t)
           /\ \A s \in Offices : s # t => pc'[s] = pc[s]
  <2>1. \A s \in Offices : Serving(s)' <=> Serving(s)
    BY <1>4 DEF Serving
  <2>. QED
    BY <1>4, <2>1 DEF LogTail, LogIsSerial
<1>. QED
  BY <1>1, <1>2, <1>3, <1>4, OfficeWrites

\* main makes one entry, the first of all (banking_aux.c:28).
LEMMA MainLogs ==
    ASSUME ServerTypeOK, Early, LogTail, LogIsSerial, ServerTypeOK', MainStep
    PROVE  LogTail' /\ LogIsSerial'
<1>1. CASE CreateAdmin
  <2>1. /\ slog = << >> /\ pc' = pc /\ \A t \in Offices : ~Serving(t)
        /\ slog' = Append(slog, <<"account", MAIN_THREAD_ID, ADMIN_ACCOUNT_ID>>)
    BY <1>1 DEF CreateAdmin, Main, Log, Early, Serving, Critical, office_vars
  <2>2. <<"account", MAIN_THREAD_ID, ADMIN_ACCOUNT_ID>> \in Entry
    BY AdminAssumption DEF Entry
  <2>3. /\ LogIsSerial'
        /\ slog'[Len(slog')] = <<"account", MAIN_THREAD_ID, ADMIN_ACCOUNT_ID>>
    BY <2>1, <2>2, AppendSerial DEF ServerTypeOK
  <2>. QED
    BY <2>1, <2>3 DEF LogTail, Serving
<1>2. CASE SpawnOffice
  <2>1. UNCHANGED slog /\ \A t \in Offices : ~Serving(t) /\ ~Serving(t)'
    BY <1>2 DEF SpawnOffice, ForEachThread, Early, Serving, Critical, ServerTypeOK, shared_vars
  <2>. QED
    BY <2>1 DEF LogTail, LogIsSerial
<1>3. CASE ~CreateAdmin /\ ~SpawnOffice
  <2>1. UNCHANGED <<slog, pc>>
    BY <1>3 DEF MainStep, CreateServerFifo, StartOpening, FinishOpening, CheckExit,
                ReadRequest, ReadNothing, LockToPush, PushRequest, UnlockPushed, PostMainSem,
                WakeOffice, JoinOffice, Exit, Main, shared_vars, office_vars
  <2>. QED
    BY <2>1 DEF LogTail, LogIsSerial, Serving
<1>. QED
  BY <1>1, <1>2, <1>3

\* In slog.txt a request is followed by entries of its own office until its reply
\* (server.c:44-90).
THEOREM SerialLog == Spec => []LogIsSerial
<1>1. Init => LogTail /\ LogIsSerial
  <2>. SUFFICES ASSUME Init PROVE LogTail /\ LogIsSerial
    OBVIOUS
  <2>1. slog = << >> /\ \A t \in Offices : ~Serving(t)
    BY DEF Init, ServerInit, Serving, Critical
  <2>. QED
    BY <2>1 DEF LogTail, LogIsSerial
<1>2. IInv /\ IInv' /\ Early /\ (LogTail /\ LogIsSerial) /\ [Next]_vars
        => (LogTail /\ LogIsSerial)'
  <2>. SUFFICES ASSUME IInv, IInv', Early, LogTail, LogIsSerial, [Next]_vars
                PROVE  LogTail' /\ LogIsSerial'
    OBVIOUS
  <2>1. CASE MainRuns
    BY <2>1, MainLogs DEF MainRuns, IInv, TypeOK
  <2>2. ASSUME NEW t \in Offices, OfficeStep(t)
        PROVE  LogTail' /\ LogIsSerial'
    BY <2>2, OfficeLogs DEF IInv, TypeOK
  <2>3. CASE UNCHANGED server_vars
    BY <2>3 DEF LogTail, LogIsSerial, Serving, server_vars, shared_vars, office_vars
  <2>. QED
    BY <2>1, <2>2, <2>3, WhoseStep
<1>. QED
  BY <1>1, <1>2, Invariant, EarlyHolds, PTL DEF Spec

-----------------------------------------------------------------------------
(* The accounts' semaphores. *)

Holders(a) == Payers(a) \cup Payees(a)

\* An active account's semaphore is up unless an office holds the account, and no
\* office holds it twice.
SemaphoresFollow ==
    \A a \in AccountIds :
        (accounts[a].active /\ ~BeingMade(a)) =>
            /\ acc_sem[a] = IF Holders(a) = {} THEN 1 ELSE 0
            /\ Payers(a) \cap Payees(a) = {}

\* The account an office makes is not the one that asked for it.
MakesAnother ==
    \A t \in Offices : pc[t] \in {"install", "sem_init"} =>
        request[t].type = "OP_CREATE_ACCOUNT" /\ request[t].id # request[t].account_id

SemInv == SemaphoresFollow /\ MakesAnother

\* The labels at which an office holds an account.
Holding == {"target", "build", "credit", "debit", "install", "sem_init", "release",
            "release_target"}

\* Who is not at one of them holds nothing.
LEMMA HoldersHold ==
    ASSUME NEW a \in AccountIds, NEW t \in Holders(a)
    PROVE  t \in Offices /\ pc[t] \in Holding /\ pc[t] \in Critical
BY DEF Holders, Payers, Payees, Holding, Critical

\* If all there is about semaphores stays, so does what is said of them.
LEMMA SemaphoresStay ==
    ASSUME SemInv, UNCHANGED <<accounts, acc_sem>>,
           \A t \in Offices : \/ pc'[t] = pc[t] /\ request'[t] = request[t]
                              \/ pc[t] \notin Holding /\ pc'[t] \notin Holding
    PROVE  SemInv'
<1>1. /\ \A a \in AccountIds : /\ Payers(a)' = Payers(a) /\ Payees(a)' = Payees(a)
                               /\ BeingMade(a)' <=> BeingMade(a)
  BY DEF Payers, Payees, BeingMade, HasTarget, Holding
<1>2. SemaphoresFollow'
  BY <1>1 DEF SemInv, SemaphoresFollow, Holders
<1>3. MakesAnother'
  BY DEF SemInv, MakesAnother, Holding
<1>. QED
  BY <1>2, <1>3 DEF SemInv

\* The only office that can hold an account is the one that has the mutex.
LEMMA OneHolder ==
    ASSUME MutualExclusion, NEW t \in Offices, pc[t] \in Critical, NEW a \in AccountIds
    PROVE  Payers(a) \subseteq {t} /\ Payees(a) \subseteq {t} /\ (BeingMade(a) => pc[t] = "sem_init")
BY OthersAreOutside, HoldersHold DEF Holders, BeingMade, Critical

\* What an office's step among these labels does, for one account: t alone may hold it,
\* before and after.
LEMMA HolderMoves ==
    ASSUME ServerTypeOK, MutualExclusion, NEW t \in Offices, pc[t] \in Critical,
           pc' = [pc EXCEPT ![t] = pc'[t]], UNCHANGED request,
           NEW a \in AccountIds
    PROVE  /\ Payers(a) = IF request[t].account_id = a /\
                 pc[t] \in {"target", "build", "credit", "debit", "install", "sem_init",
                            "release"} THEN {t} ELSE {}
           /\ Payees(a) = IF request[t].id = a /\ HasTarget(t) /\
                 pc[t] \in {"build", "credit", "debit", "release", "release_target"}
                 THEN {t} ELSE {}
           /\ Payers(a)' = IF request[t].account_id = a /\
                 pc'[t] \in {"target", "build", "credit", "debit", "install", "sem_init",
                            "release"} THEN {t} ELSE {}
           /\ Payees(a)' = IF request[t].id = a /\ HasTarget(t) /\
                 pc'[t] \in {"build", "credit", "debit", "release", "release_target"}
                 THEN {t} ELSE {}
           /\ BeingMade(a) <=> pc[t] = "sem_init" /\ request[t].id = a
           /\ BeingMade(a)' <=> pc'[t] = "sem_init" /\ request[t].id = a
<1>1. \A s \in Offices : s # t => pc[s] \notin Critical /\ pc'[s] = pc[s]
  BY OthersAreOutside DEF ServerTypeOK
<1>. QED
  BY <1>1 DEF Payers, Payees, BeingMade, HasTarget, Critical

\* A wait and a post of an account change one semaphore, if the account is active.
LEMMA WaitAndPost ==
    ASSUME acc_sem \in [AccountIds -> Nat], NEW a \in AccountIds, NEW b \in AccountIds
    PROVE  /\ WaitAccount(b) => acc_sem'[a] = (IF a = b /\ accounts[b].active
                                              THEN acc_sem[a] - 1 ELSE acc_sem[a])
           /\ (WaitAccount(b) /\ accounts[b].active) => acc_sem[b] > 0
           /\ PostAccount(b) => acc_sem'[a] = (IF a = b /\ accounts[b].active
                                              THEN acc_sem[a] + 1 ELSE acc_sem[a])
BY DEF WaitAccount, PostAccount

\* Payments leave accounts as active as they are.
LEMMA PaymentsKeepActive ==
    ASSUME NEW acc \in [AccountIds -> Account], NEW r, NEW a \in AccountIds
    PROVE  /\ credited(acc, r)[a].active = acc[a].active
           /\ debited(acc, r)[a].active = acc[a].active
BY DEF credited, debited, Account

\* create_bank_account touches one account.
LEMMA CreationTouchesOne ==
    ASSUME NEW acc \in [AccountIds -> Account], NEW a \in AccountIds, NEW b \in AccountIds,
           b # a, NEW q, NEW n, NEW salt
    PROVE  create_bank_account(acc, a, q, n, salt)[b].active = acc[b].active
BY DEF create_bank_account

\* Only an account other than the one that asks is made (banking_aux.c:35, 106).
LEMMA AnotherIsMade ==
    ASSUME NEW acc, NEW r, reply_code(acc, r) = "RC_OK", r.type = "OP_CREATE_ACCOUNT"
    PROVE  r.id # r.account_id
<1>1. validate_bank_account(acc, r) = "RC_OK" /\ operation_code(acc, r) = "RC_OK"
  BY DEF reply_code
<1>2. is_active_account(acc, r.account_id)
  BY <1>1 DEF validate_bank_account
<1>3. create_code(acc, r) = "RC_OK"
  BY <1>1 DEF operation_code
<1>4. ~is_active_account(acc, r.id)
  BY <1>3 DEF create_code
<1>. QED
  BY <1>2, <1>4

\* The waits (server.c:54-68): nobody waits for what it holds.
LEMMA WaitsKeepSem ==
    ASSUME ServerTypeOK, MutualExclusion, SemInv, NEW t \in Offices,
           WaitSource(t) \/ WaitTarget(t)
    PROVE  SemInv'
<1>1. request[t].account_id \in AccountIds /\ request[t].id \in AccountIds
  BY RequestParts
<1>2. UNCHANGED <<accounts, request>> /\ pc[t] \in {"source", "target"}
      /\ pc' = [pc EXCEPT ![t] = pc'[t]] /\ pc[t] \in Critical /\ pc'[t] \in {"target", "build"}
  BY DEF WaitSource, WaitTarget, locals, Office, Critical, ServerTypeOK
<1>3. MakesAnother'
  BY <1>2 DEF SemInv, MakesAnother, ServerTypeOK
<1>4. ASSUME NEW a \in AccountIds, accounts[a].active, ~BeingMade(a)'
      PROVE  /\ acc_sem'[a] = IF Holders(a)' = {} THEN 1 ELSE 0
             /\ Payers(a)' \cap Payees(a)' = {}
  <2>1. ~BeingMade(a)
    BY <1>2, <1>4, HolderMoves
  <2>2. acc_sem[a] = (IF Holders(a) = {} THEN 1 ELSE 0) /\ acc_sem \in [AccountIds -> Nat]
    BY <1>4, <2>1 DEF SemInv, SemaphoresFollow, ServerTypeOK
  <2>3. CASE WaitSource(t)
    <3>1. pc[t] = "source" /\ pc'[t] = "target" /\ WaitAccount(request[t].account_id)
      BY <2>3 DEF WaitSource, Office, ServerTypeOK
    <3>2. /\ Payers(a) = {} /\ Payees(a) = {} /\ Payees(a)' = {}
          /\ Payers(a)' = IF request[t].account_id = a THEN {t} ELSE {}
      BY <1>2, <3>1, HolderMoves
    <3>. QED
      BY <1>1, <1>4, <2>2, <3>1, <3>2, WaitAndPost DEF Holders
  <2>4. CASE WaitTarget(t)
    <3>1. /\ pc[t] = "target" /\ pc'[t] = "build"
          /\ IF HasTarget(t) THEN WaitAccount(request[t].id) ELSE UNCHANGED acc_sem
      BY <2>4 DEF WaitTarget, Office, ServerTypeOK
    <3>2. /\ Payees(a) = {}
          /\ Payers(a) = IF request[t].account_id = a THEN {t} ELSE {}
          /\ Payers(a)' = Payers(a)
          /\ Payees(a)' = IF request[t].id = a /\ HasTarget(t) THEN {t} ELSE {}
      BY <1>2, <3>1, HolderMoves
    <3>3. CASE request[t].id = a /\ HasTarget(t)
      BY <1>1, <1>4, <2>2, <3>1, <3>2, <3>3, WaitAndPost DEF Holders
    <3>4. CASE ~(request[t].id = a /\ HasTarget(t))
      BY <1>1, <1>4, <2>2, <3>1, <3>2, <3>4, WaitAndPost DEF Holders
    <3>. QED
      BY <3>3, <3>4
  <2>. QED
    BY <2>3, <2>4
<1>5. SemaphoresFollow'
  BY <1>2, <1>4 DEF SemaphoresFollow, Holders
<1>. QED
  BY <1>3, <1>5 DEF SemInv

\* The posts (server.c:73-79).
LEMMA PostsKeepSem ==
    ASSUME ServerTypeOK, MutualExclusion, SemInv, NEW t \in Offices,
           ReleaseSource(t) \/ ReleaseTarget(t)
    PROVE  SemInv'
<1>1. request[t].account_id \in AccountIds /\ request[t].id \in AccountIds
  BY RequestParts
<1>2. UNCHANGED <<accounts, request>> /\ pc[t] \in {"release", "release_target"}
      /\ pc' = [pc EXCEPT ![t] = pc'[t]] /\ pc[t] \in Critical
      /\ pc'[t] \in {"release_target", "open_fifo"}
  BY DEF ReleaseSource, ReleaseTarget, locals, Office, Critical, ServerTypeOK
<1>3. MakesAnother'
  BY <1>2 DEF SemInv, MakesAnother, ServerTypeOK
<1>4. ASSUME NEW a \in AccountIds, accounts[a].active, ~BeingMade(a)'
      PROVE  /\ acc_sem'[a] = IF Holders(a)' = {} THEN 1 ELSE 0
             /\ Payers(a)' \cap Payees(a)' = {}
  <2>1. ~BeingMade(a)
    BY <1>2, <1>4, HolderMoves
  <2>2. /\ acc_sem[a] = (IF Holders(a) = {} THEN 1 ELSE 0) /\ acc_sem \in [AccountIds -> Nat]
        /\ Payers(a) \cap Payees(a) = {}
    BY <1>4, <2>1 DEF SemInv, SemaphoresFollow, ServerTypeOK
  <2>3. CASE ReleaseSource(t)
    <3>1. pc[t] = "release" /\ pc'[t] = "release_target" /\ PostAccount(request[t].account_id)
      BY <2>3 DEF ReleaseSource, Office, ServerTypeOK
    <3>2. /\ Payers(a)' = {} /\ Payees(a)' = Payees(a)
          /\ Payers(a) = IF request[t].account_id = a THEN {t} ELSE {}
          /\ Payees(a) = IF request[t].id = a /\ HasTarget(t) THEN {t} ELSE {}
      BY <1>2, <3>1, HolderMoves
    <3>3. CASE request[t].account_id = a
      <4>1. Payees(a) = {} /\ Holders(a) # {} /\ Holders(a)' = {}
        BY <2>2, <3>2, <3>3 DEF Holders
      <4>. QED
        BY <1>1, <1>4, <2>2, <3>1, <3>2, <3>3, <4>1, WaitAndPost
    <3>4. CASE request[t].account_id # a
      <4>1. Holders(a)' = Holders(a)
        BY <3>2, <3>4 DEF Holders
      <4>. QED
        BY <1>1, <1>4, <2>2, <3>1, <3>2, <3>4, <4>1, WaitAndPost
    <3>. QED
      BY <3>3, <3>4
  <2>4. CASE ReleaseTarget(t)
    <3>1. /\ pc[t] = "release_target" /\ pc'[t] = "open_fifo"
          /\ IF HasTarget(t) THEN PostAccount(request[t].id) ELSE UNCHANGED acc_sem
      BY <2>4 DEF ReleaseTarget, Office, ServerTypeOK
    <3>2. /\ Payers(a) = {} /\ Payers(a)' = {} /\ Payees(a)' = {}
          /\ Payees(a) = IF request[t].id = a /\ HasTarget(t) THEN {t} ELSE {}
      BY <1>2, <3>1, HolderMoves
    <3>. QED
      BY <1>1, <1>4, <2>2, <3>1, <3>2, WaitAndPost DEF Holders
  <2>. QED
    BY <2>3, <2>4
<1>5. SemaphoresFollow'
  BY <1>2, <1>4 DEF SemaphoresFollow, Holders
<1>. QED
  BY <1>3, <1>5 DEF SemInv

\* Between the waits and the posts the same accounts are held, and a payment makes
\* no account active (banking_aux.c:173-174).
LEMMA ServingKeepsSem ==
    ASSUME ServerTypeOK, MutualExclusion, SemInv, NEW t \in Offices,
           BuildReply(t) \/ Credit(t) \/ Debit(t)
    PROVE  SemInv'
<1>1. /\ UNCHANGED <<acc_sem, request>> /\ pc[t] \in {"build", "credit", "debit"}
      /\ pc' = [pc EXCEPT ![t] = pc'[t]] /\ pc[t] \in Critical
      /\ \/ pc'[t] \in {"debit", "release"}
         \/ BuildReply(t) /\ pc'[t] = AfterBuild(t)
  BY DEF BuildReply, Credit, Debit, locals, shared_vars, Office, Critical, ServerTypeOK
<1>2. /\ AfterBuild(t) \in {"credit", "install", "release"}
      /\ AfterBuild(t) = "install" => /\ reply_code(accounts, request[t]) = "RC_OK"
                                      /\ request[t].type = "OP_CREATE_ACCOUNT"
  BY DEF AfterBuild
<1>3. pc'[t] = "install" => /\ request[t].type = "OP_CREATE_ACCOUNT"
                            /\ request[t].id # request[t].account_id
  BY <1>1, <1>2, AnotherIsMade
<1>4. pc'[t] \in {"credit", "debit", "install", "release"}
  BY <1>1, <1>2
<1>5. MakesAnother'
  BY <1>1, <1>3, <1>4 DEF SemInv, MakesAnother, ServerTypeOK
<1>6. ASSUME NEW a \in AccountIds
      PROVE  accounts'[a].active = accounts[a].active
  BY PaymentsKeepActive DEF BuildReply, Credit, Debit, shared_vars, ServerTypeOK
<1>7. ASSUME NEW a \in AccountIds
      PROVE  /\ Payers(a)' = Payers(a) /\ Payees(a)' = Payees(a)
             /\ ~BeingMade(a) /\ ~BeingMade(a)'
  <2>1. HasTarget(t) => request[t].type # "OP_CREATE_ACCOUNT"
    BY DEF HasTarget
  <2>. QED
    BY <1>1, <1>3, <1>4, <2>1, HolderMoves
<1>8. SemaphoresFollow'
  BY <1>1, <1>6, <1>7 DEF SemInv, SemaphoresFollow, Holders
<1>. QED
  BY <1>5, <1>8 DEF SemInv

\* A new account becomes active before its semaphore is there; it is not held by the
\* office that makes it, so the semaphore's first value is the right one
\* (banking_aux.c:18-31).
LEMMA MakingKeepsSem ==
    ASSUME ServerTypeOK, MutualExclusion, SemInv, NEW t \in Offices,
           InstallAccount(t) \/ InitAccountSem(t)
    PROVE  SemInv'
<1>1. request[t].account_id \in AccountIds /\ request[t].id \in AccountIds
  BY RequestParts
<1>2. /\ UNCHANGED request /\ pc[t] \in {"install", "sem_init"}
      /\ pc' = [pc EXCEPT ![t] = pc'[t]] /\ pc[t] \in Critical
      /\ pc'[t] \in {"sem_init", "release"}
  BY DEF InstallAccount, InitAccountSem, locals, Office, Critical, ServerTypeOK
<1>3. request[t].id # request[t].account_id /\ ~HasTarget(t)
      /\ request[t].type = "OP_CREATE_ACCOUNT"
  BY <1>2 DEF SemInv, MakesAnother, HasTarget
<1>4. MakesAnother'
  BY <1>2, <1>3 DEF SemInv, MakesAnother, ServerTypeOK
<1>5. ASSUME NEW a \in AccountIds
      PROVE  /\ Payers(a)' = Payers(a) /\ Payees(a) = {} /\ Payees(a)' = {}
             /\ Payers(a) = IF request[t].account_id = a THEN {t} ELSE {}
             /\ BeingMade(a) <=> pc[t] = "sem_init" /\ request[t].id = a
             /\ BeingMade(a)' <=> pc'[t] = "sem_init" /\ request[t].id = a
  BY <1>2, <1>3, HolderMoves
<1>6. ASSUME NEW a \in AccountIds, accounts'[a].active, ~BeingMade(a)'
      PROVE  /\ acc_sem'[a] = IF Holders(a)' = {} THEN 1 ELSE 0
             /\ Payers(a)' \cap Payees(a)' = {}
  <2>1. CASE a = request[t].id
    <3>1. CASE InitAccountSem(t)
      <4>1. acc_sem'[a] = 1
        BY <1>1, <2>1, <3>1 DEF InitAccountSem, ServerTypeOK
      <4>. QED
        BY <1>3, <1>5, <2>1, <4>1 DEF Holders
    <3>2. CASE InstallAccount(t)
      <4>1. pc[t] = "install" /\ pc'[t] # "sem_init"
        BY <1>5, <1>6, <2>1, <3>2 DEF InstallAccount, Office
      <4>2. is_active_account(accounts, a) /\ acc_sem' = acc_sem
        BY <2>1, <3>2, <4>1 DEF InstallAccount, Office, ServerTypeOK
      <4>3. accounts' = accounts
        BY <2>1, <3>2, <4>2 DEF InstallAccount, create_bank_account
      <4>4. acc_sem[a] = IF Holders(a) = {} THEN 1 ELSE 0
        BY <1>5, <1>6, <4>1, <4>3 DEF SemInv, SemaphoresFollow
      <4>. QED
        BY <1>5, <4>2, <4>4 DEF Holders
    <3>. QED
      BY <3>1, <3>2
  <2>2. CASE a # request[t].id
    <3>1. accounts'[a].active = accounts[a].active
      <4>1. CASE InstallAccount(t)
        <5>1. PICK salt \in Salts :
                 accounts' = create_bank_account(accounts, request[t].id,
                                                 request[t].new_password, request[t].amount, salt)
          BY <4>1 DEF InstallAccount
        <5>. QED
          BY <1>1, <2>2, <5>1, CreationTouchesOne DEF ServerTypeOK
      <4>2. CASE InitAccountSem(t)
        BY <4>2 DEF InitAccountSem
      <4>. QED
        BY <4>1, <4>2
    <3>2. acc_sem'[a] = acc_sem[a]
      BY <1>1, <2>2 DEF InstallAccount, InitAccountSem, ServerTypeOK
    <3>3. acc_sem[a] = IF Holders(a) = {} THEN 1 ELSE 0
      BY <1>5, <1>6, <2>2, <3>1 DEF SemInv, SemaphoresFollow
    <3>. QED
      BY <1>5, <3>2, <3>3 DEF Holders
  <2>. QED
    BY <2>1, <2>2
<1>7. SemaphoresFollow'
  BY <1>6 DEF SemaphoresFollow, Holders
<1>. QED
  BY <1>4, <1>7 DEF SemInv

\* The other steps of an office have nothing to do with accounts or their semaphores.
LEMMA OfficeSem ==
    ASSUME ServerTypeOK, MutualExclusion, SemInv, NEW t \in Offices, OfficeStep(t)
    PROVE  SemInv'
<1>. USE DEF Office, ServerTypeOK, Holding, shared_vars, office_vars, locals
<1>1. CASE Loop(t) \/ WaitMainSem(t) \/ Woken(t) \/ LockMutex(t) \/ TakeRequest(t)
  BY <1>1, SemaphoresStay DEF Loop, WaitMainSem, Woken, LockMutex, TakeRequest
<1>2. CASE LoadToMark(t) \/ Mark(t) \/ LoadToUnmark(t) \/ Unmark(t)
  BY <1>2, SemaphoresStay DEF LoadToMark, Mark, LoadToUnmark, Unmark
<1>3. CASE OpenUserFifo(t) \/ WriteReply(t) \/ LogReply(t) \/ DieOfSigpipe(t)
  BY <1>3, SemaphoresStay DEF OpenUserFifo, WriteReply, LogReply, DieOfSigpipe
<1>4. CASE UnlockMutex(t) \/ CloseToUsers(t) \/ AnnounceExit(t)
  BY <1>4, SemaphoresStay DEF UnlockMutex, CloseToUsers, AnnounceExit
<1>. QED
  BY <1>1, <1>2, <1>3, <1>4, WaitsKeepSem, PostsKeepSem, ServingKeepsSem, MakingKeepsSem
  DEF OfficeStep

\* main makes the administrator's account before anybody can hold it.
LEMMA MainSem ==
    ASSUME ServerTypeOK, Early, SemInv, MainStep
    PROVE  SemInv'
<1>. USE DEF ServerTypeOK, shared_vars, office_vars, locals
<1>1. CASE CreateAdmin
  <2>1. /\ pc' = pc /\ request' = request
        /\ \A t \in Offices : pc[t] \in {"unborn", "loop", "wait"}
    BY <1>1 DEF CreateAdmin, Main, Early
  <2>2. ASSUME NEW a \in AccountIds
        PROVE  Holders(a)' = {} /\ Holders(a) = {} /\ ~BeingMade(a)
    BY <2>1 DEF Holders, Payers, Payees, BeingMade
  <2>3. PICK salt \in Salts :
           accounts' = create_bank_account(accounts, ADMIN_ACCOUNT_ID, AdminPassword, 0, salt)
    BY <1>1 DEF CreateAdmin
  <2>4. acc_sem' = [acc_sem EXCEPT ![ADMIN_ACCOUNT_ID] = 1]
    BY <1>1 DEF CreateAdmin
  <2>5. ASSUME NEW a \in AccountIds, accounts'[a].active
        PROVE  acc_sem'[a] = 1
    <3>1. CASE a = ADMIN_ACCOUNT_ID
      BY <2>4, <3>1
    <3>2. CASE a # ADMIN_ACCOUNT_ID
      <4>1. accounts[a].active
        <5>1. accounts \in [AccountIds -> Account]
          OBVIOUS
        <5>2. create_bank_account(accounts, ADMIN_ACCOUNT_ID, AdminPassword, 0, salt)[a].active
                = accounts[a].active
          BY <3>2, <5>1 DEF create_bank_account
        <5>. QED
          BY <2>3, <2>5, <5>2
      <4>2. acc_sem'[a] = acc_sem[a]
        BY <2>4, <3>2
      <4>. QED
        BY <2>2, <4>1, <4>2 DEF SemInv, SemaphoresFollow
    <3>. QED
      BY <3>1, <3>2
  <2>6. SemaphoresFollow'
    BY <2>2, <2>5 DEF SemaphoresFollow, Holders
  <2>. QED
    BY <2>1, <2>6 DEF SemInv, MakesAnother
<1>2. CASE SpawnOffice
  <2>1. /\ pc' = [pc EXCEPT ![cursor + 1] = "loop"] /\ UNCHANGED <<accounts, acc_sem, request>>
        /\ \A t \in Offices : pc[t] \in {"unborn", "loop", "wait"}
    BY <1>2 DEF SpawnOffice, ForEachThread, Early
  <2>2. \A t \in Offices : pc[t] \notin Holding /\ pc'[t] \notin Holding
    BY <2>1 DEF Holding
  <2>. QED
    BY <2>1, <2>2, SemaphoresStay
<1>3. CASE ~CreateAdmin /\ ~SpawnOffice
  <2>1. UNCHANGED <<accounts, acc_sem, pc, request>>
    BY <1>3 DEF MainStep, CreateServerFifo, StartOpening, FinishOpening, CheckExit,
                ReadRequest, ReadNothing, LockToPush, PushRequest, UnlockPushed, PostMainSem,
                WakeOffice, JoinOffice, Exit, Main
  <2>. QED
    BY <2>1, SemaphoresStay
<1>. QED
  BY <1>1, <1>2, <1>3

\* In a state with the invariant the holders can be counted: at most one of each kind.
LEMMA HoldersCounted ==
    ASSUME ServerTypeOK, MutualExclusion, SemInv
    PROVE  AccountSemaphoresAddUp
<1>. SUFFICES ASSUME NEW a \in AccountIds, accounts[a].active, ~BeingMade(a)
              PROVE  acc_sem[a] + Cardinality(Payers(a)) + Cardinality(Payees(a)) = 1
  BY DEF AccountSemaphoresAddUp
<1>1. /\ acc_sem[a] = IF Holders(a) = {} THEN 1 ELSE 0
      /\ Payers(a) \cap Payees(a) = {}
  BY DEF SemInv, SemaphoresFollow
<1>2. CASE Holders(a) = {}
  <2>1. Payers(a) = {} /\ Payees(a) = {}
    BY <1>2 DEF Holders
  <2>. QED
    BY <1>1, <1>2, <2>1, FS_EmptySet
<1>3. CASE Holders(a) # {}
  <2>1. PICK t \in Offices : t \in Holders(a) /\ pc[t] \in Critical
    BY <1>3, HoldersHold
  <2>2. Payers(a) \subseteq {t} /\ Payees(a) \subseteq {t}
    BY <2>1, OneHolder
  <2>3. \/ Payers(a) = {t} /\ Payees(a) = {}
        \/ Payers(a) = {} /\ Payees(a) = {t}
    BY <1>1, <2>1, <2>2 DEF Holders
  <2>4. Cardinality({t}) = 1 /\ Cardinality({}) = 0
    BY FS_Singleton, FS_EmptySet
  <2>5. acc_sem[a] = 0
    BY <1>1, <1>3
  <2>. QED
    BY <2>3, <2>4, <2>5
<1>. QED
  BY <1>2, <1>3

\* An active account's semaphore is down by the offices that hold the account, and by
\* nothing else (server.c:54-79, banking_aux.c:18-31).
THEOREM SemaphoresAddUp == Spec => []AccountSemaphoresAddUp
<1>1. Init => SemInv
  BY DEF Init, ServerInit, SemInv, SemaphoresFollow, MakesAnother, EmptyAccount
<1>2. IInv /\ Early /\ SemInv /\ [Next]_vars => SemInv'
  <2>. SUFFICES ASSUME IInv, Early, SemInv, [Next]_vars PROVE SemInv'
    OBVIOUS
  <2>1. CASE MainRuns
    BY <2>1, MainSem DEF MainRuns, IInv, TypeOK
  <2>2. ASSUME NEW t \in Offices, OfficeStep(t)
        PROVE  SemInv'
    BY <2>2, OfficeSem DEF IInv, TypeOK
  <2>3. CASE UNCHANGED server_vars
    BY <2>3, SemaphoresStay DEF server_vars, shared_vars, office_vars
  <2>. QED
    BY <2>1, <2>2, <2>3, WhoseStep
<1>3. IInv /\ SemInv => AccountSemaphoresAddUp
  BY HoldersCounted DEF IInv, TypeOK
<1>. QED
  BY <1>1, <1>2, <1>3, Invariant, EarlyHolds, PTL DEF Spec


-----------------------------------------------------------------------------
(* What a user is told and what slog.txt says.  The invariant follows the one  *)
(* request of a user from the pipe to the log, and its reply from the office   *)
(* to the user's own FIFO and its outcome.                                     *)

\* The requests on their way to an office, oldest first: queued, in main's hands, in
\* the pipe.
Incoming == IF main_pc \in {"lock", "push"} THEN <<incoming>> ELSE << >>
Coming == (requests \o Incoming) \o pipe

OnItsWay(u) == \E i \in 1 .. Len(Coming) : Coming[i].pid = u
IsRequestOf(i, u) == slog[i][1] = "request" /\ slog[i][3].pid = u
Unsent(u) == user[u] \in {"start", "open"} \/ outcome[u] = "RC_SRV_DOWN"

\* A user asks once (user.c:59-83): its request is in one place, on its way or logged.
AsksOnce(u) ==
    /\ \A i, j \in 1 .. Len(Coming) : Coming[i].pid = u /\ Coming[j].pid = u => i = j
    /\ \A i, j \in 1 .. Len(slog) : IsRequestOf(i, u) /\ IsRequestOf(j, u) => i = j
    /\ \A i \in 1 .. Len(slog) : IsRequestOf(i, u) => ~OnItsWay(u) /\ ~Unsent(u)
    /\ Unsent(u) => ~OnItsWay(u)

\* The request of an office that serves is the last one logged.
IsLast(t) ==
    \E i \in 1 .. Len(slog) :
        /\ IsRequestOf(i, request[t].pid)
        /\ \A k \in i + 1 .. Len(slog) : slog[k][1] = "account"
ServesTheLast == \A t \in Offices : Serving(t) => IsLast(t)

\* The codes build_tlv_reply fills in: the others are for when no reply gets through.
CodesOfReplies == RetCodes \ {"RC_SRV_DOWN", "RC_SRV_TIMEOUT", "RC_USR_DOWN"}

RepliesAreCoded ==
    \A t \in Offices :
        pc[t] \in {"credit", "debit", "install", "sem_init", "release", "release_target",
                   "open_fifo", "write"} => reply[t].ret_code \in CodesOfReplies

\* A user that has ended is told nothing more, and one that has not has no outcome.
UsersWait ==
    \A u \in Pids :
        /\ u \in listeners => user[u] = "listening"
        /\ user[u] # "ended" => outcome[u] = "none"
        /\ u \notin listeners => inbox[u] = << >>

\* The codes written to the user's FIFO, or read from it.
IsTold(u, code) ==
    \/ \E i \in 1 .. Len(inbox[u]) : inbox[u][i].ret_code = code
    \/ outcome[u] = code /\ code \notin {"none", "RC_SRV_DOWN", "RC_SRV_TIMEOUT"}

AboutToLog(u, code) ==
    \E t \in Offices : pc[t] = "log" /\ request[t].pid = u /\ reply[t].ret_code = code

\* What a user is told is what the log says of its request, now or at the next entry.
ToldIsLogged(u) ==
    \A code \in RetCodes : IsTold(u, code) =>
        /\ code \in CodesOfReplies
        /\ AnswersTo(u) \subseteq {code}
        /\ code \in AnswersTo(u) \/ AboutToLog(u, code)

OutcomeInv ==
    /\ \A u \in Pids : AsksOnce(u) /\ ToldIsLogged(u)
    /\ ServesTheLast /\ RepliesAreCoded /\ UsersWait

-----------------------------------------------------------------------------
\* Nothing new on its way and no new request logged: a user has still asked once.
LEMMA StillAsksOnce ==
    ASSUME slog \in Seq(Entry), NEW u \in Pids, AsksOnce(u), Unsent(u)' => Unsent(u),
           Len(Coming) \in Nat, Len(Coming') \in Nat,
           Len(Coming') <= Len(Coming), \A i \in 1 .. Len(Coming') : Coming'[i] = Coming[i],
           Len(slog') \in Nat,
           \A i \in 1 .. Len(slog') : IsRequestOf(i, u)' => i <= Len(slog) /\ IsRequestOf(i, u)
    PROVE  AsksOnce(u)'
<1>1. OnItsWay(u)' => OnItsWay(u)
  <2>1. ASSUME NEW i \in 1 .. Len(Coming'), Coming'[i].pid = u
        PROVE  OnItsWay(u)
    <3>1. i \in 1 .. Len(Coming) /\ Coming[i].pid = u
      BY <2>1
    <3>. QED
      BY <3>1 DEF OnItsWay
  <2>. QED
    BY <2>1 DEF OnItsWay
<1>2. \A i, j \in 1 .. Len(Coming') : Coming'[i].pid = u /\ Coming'[j].pid = u => i = j
  <2>1. \A i \in 1 .. Len(Coming') : i \in 1 .. Len(Coming)
    OBVIOUS
  <2>. QED
    BY <2>1 DEF AsksOnce
<1>3. \A i \in 1 .. Len(slog') : IsRequestOf(i, u)' =>
         i \in 1 .. Len(slog) /\ IsRequestOf(i, u)
  OBVIOUS
<1>4. \A i, j \in 1 .. Len(slog') : IsRequestOf(i, u)' /\ IsRequestOf(j, u)' => i = j
  BY <1>3 DEF AsksOnce
<1>5. \A i \in 1 .. Len(slog') : IsRequestOf(i, u)' => ~OnItsWay(u)' /\ ~Unsent(u)'
  BY <1>1, <1>3 DEF AsksOnce
<1>6. Unsent(u)' => ~OnItsWay(u)'
  BY <1>1 DEF AsksOnce
<1>. QED
  BY <1>2, <1>4, <1>5, <1>6 DEF AsksOnce

\* The requests on their way are a sequence; the oldest is the one `front` reads.
LEMMA ComingIsSeq ==
    ASSUME TypeOK
    PROVE  /\ Coming \in Seq(Requests)
           /\ requests # << >> => Len(Coming) >= 1 /\ Coming[1] = Head(requests)
<1>1. Incoming \in Seq(Requests) /\ requests \in Seq(Requests) /\ pipe \in Seq(Requests)
  BY DEF Incoming, TypeOK, ServerTypeOK, FifosTypeOK
<1>. QED
  BY <1>1 DEF Coming

LEMMA ComingIsSeqNext == (TypeOK => Coming \in Seq(Requests))'
<1>1. TypeOK => Coming \in Seq(Requests)
  BY ComingIsSeq
<1>. QED
  BY <1>1, PTL

\* Only TakeRequest logs a request (server.c:47).
LEMMA OfficeLogsOther ==
    ASSUME ServerTypeOK, NEW t \in Offices, OfficeStep(t), ~TakeRequest(t)
    PROVE  \/ UNCHANGED slog
           \/ \E kind, who, what : kind # "request" /\ slog' = Append(slog, <<kind, who, what>>)
<1>1. CASE InstallAccount(t)
  <2>1. slog' = slog \/ slog' = Append(slog, <<"account", t, ADMIN_ACCOUNT_ID>>)
    BY <1>1, InstallGoes
  <2>2. "account" # "request"
    OBVIOUS
  <2>. QED
    BY <2>1, <2>2
<1>2. CASE LogReply(t)
  <2>1. slog' = Append(slog, <<"reply", t, reply[t]>>)
    BY <1>2 DEF LogReply, Log
  <2>2. "reply" # "request"
    OBVIOUS
  <2>. QED
    BY <2>1, <2>2
<1>. QED
  BY <1>1, <1>2, OfficeWrites

\* An entry of another kind leaves the requests logged as they are.
LEMMA SameRequestsLogged ==
    ASSUME slog \in Seq(Entry), NEW u,
           \/ UNCHANGED slog
           \/ \E kind, who, what : kind # "request" /\ slog' = Append(slog, <<kind, who, what>>)
    PROVE  /\ Len(slog') \in Nat
           /\ \A i \in 1 .. Len(slog') : IsRequestOf(i, u)' => i <= Len(slog) /\ IsRequestOf(i, u)
<1>1. CASE UNCHANGED slog
  BY <1>1 DEF IsRequestOf
<1>2. CASE \E kind, who, what : kind # "request" /\ slog' = Append(slog, <<kind, who, what>>)
  <2>1. PICK kind, who, what : kind # "request" /\ slog' = Append(slog, <<kind, who, what>>)
    BY <1>2
  <2>2. /\ Len(slog) \in Nat /\ Len(slog') = Len(slog) + 1
        /\ slog'[Len(slog) + 1] = <<kind, who, what>>
        /\ \A i \in 1 .. Len(slog) : slog'[i] = slog[i]
    BY <2>1
  <2>. QED
    BY <2>1, <2>2 DEF IsRequestOf
<1>. QED
  BY <1>1, <1>2

\* Nothing of what is on its way moves but by TakeRequest and the end of the server.
LEMMA OfficeMovesNothing ==
    ASSUME TypeOK, TypeOK', NEW t \in Offices, OfficeStep(t), ~TakeRequest(t),
           UNCHANGED main_vars \/ DieOfSigpipe(t)
    PROVE  Len(Coming') <= Len(Coming) /\ \A i \in 1 .. Len(Coming') : Coming'[i] = Coming[i]
<1>1. CASE DieOfSigpipe(t)
  <2>1. requests' = requests /\ Incoming' = << >> /\ pipe' = << >>
    BY <1>1 DEF DieOfSigpipe, CloseServerFifo, shared_vars, Incoming
  <2>2. Coming' = requests
    BY <2>1 DEF Coming, TypeOK, ServerTypeOK
  <2>3. requests \in Seq(Requests) /\ Incoming \in Seq(Requests) /\ pipe \in Seq(Requests)
    BY DEF Incoming, TypeOK, ServerTypeOK, FifosTypeOK
  <2>. QED
    BY <2>2, <2>3 DEF Coming
<1>2. CASE ~DieOfSigpipe(t)
  <2>1. UNCHANGED <<requests, main_pc, incoming, pipe>>
    BY <1>2 DEF main_vars, OfficeStep, Loop, WaitMainSem, Woken, LockMutex, LoadToMark, Mark,
                WaitSource, WaitTarget, BuildReply, Credit, Debit, InstallAccount,
                InitAccountSem, ReleaseSource, ReleaseTarget, OpenUserFifo, WriteReply,
                LogReply, UnlockMutex, CloseToUsers, AnnounceExit, LoadToUnmark, Unmark,
                fifo_vars, shared_vars
  <2>2. Coming' = Coming
    BY <2>1 DEF Coming, Incoming
  <2>3. Coming \in Seq(Requests)
    BY ComingIsSeq
  <2>. QED
    BY <2>2, <2>3
<1>. QED
  BY <1>1, <1>2

\* front and pop: the oldest request on its way is logged, and is on its way no more.
LEMMA TakingAsksOnce ==
    ASSUME TypeOK, TypeOK', FrontHasARequest, NEW t \in Offices, TakeRequest(t),
           UNCHANGED main_vars, NEW u \in Pids, AsksOnce(u), UNCHANGED <<user, outcome>>
    PROVE  AsksOnce(u)'
<1>1. /\ requests # << >> /\ requests' = Tail(requests) /\ UNCHANGED <<main_pc, incoming, pipe>>
      /\ slog' = Append(slog, <<"request", t, Head(requests)>>)
  BY DEF TakeRequest, Log, Office, FrontHasARequest, main_vars, fifo_vars
<1>2. requests \in Seq(Requests) /\ Incoming \in Seq(Requests) /\ pipe \in Seq(Requests)
  BY DEF Incoming, TypeOK, ServerTypeOK, FifosTypeOK
<1>3. Incoming' = Incoming
  BY <1>1 DEF Incoming
<1>4. /\ Len(Coming) \in Nat /\ Len(Coming) >= 1 /\ Coming[1] = Head(requests)
      /\ Len(Coming') = Len(Coming) - 1
  BY <1>1, <1>2, <1>3 DEF Coming
<1>5. \A i \in 1 .. Len(Coming') : Coming'[i] = Coming[i + 1]
  BY <1>1, <1>2, <1>3 DEF Coming
<1>n. PICK n : n = Len(slog) + 1
  OBVIOUS
<1>6. /\ Len(slog) \in Nat /\ n = Len(slog) + 1 /\ Len(slog') = n
      /\ slog'[n] = <<"request", t, Head(requests)>>
      /\ \A i \in 1 .. Len(slog) : slog'[i] = slog[i]
  BY <1>n, <1>1 DEF TypeOK, ServerTypeOK
<1>7. /\ \A i \in 1 .. Len(slog) : IsRequestOf(i, u)' <=> IsRequestOf(i, u)
      /\ IsRequestOf(n, u)' <=> Coming[1].pid = u
  <2>1. \A i \in 1 .. Len(slog) : IsRequestOf(i, u)' <=> IsRequestOf(i, u)
    BY <1>6 DEF IsRequestOf
  <2>2. slog'[n][1] = "request" /\ slog'[n][3] = Head(requests)
    BY <1>6
  <2>3. IsRequestOf(n, u)' <=> Coming[1].pid = u
    BY <1>4, <1>6, <2>2 DEF IsRequestOf
  <2>. QED
    BY <2>1, <2>3
<1>8. Unsent(u)' = Unsent(u)
  BY DEF Unsent
<1>9. Coming[1].pid = u => OnItsWay(u)
  BY <1>4 DEF OnItsWay
<1>10. OnItsWay(u)' => OnItsWay(u) /\ Coming[1].pid # u
  <2>1. ASSUME NEW i \in 1 .. Len(Coming'), Coming'[i].pid = u
        PROVE  OnItsWay(u) /\ Coming[1].pid # u
    <3>1. i + 1 \in 1 .. Len(Coming) /\ Coming[i + 1].pid = u /\ i + 1 # 1 /\ 1 \in 1 .. Len(Coming)
      BY <1>4, <1>5, <2>1
    <3>. QED
      BY <3>1 DEF AsksOnce, OnItsWay
  <2>. QED
    BY <2>1 DEF OnItsWay
<1>11. \A i, j \in 1 .. Len(Coming') : Coming'[i].pid = u /\ Coming'[j].pid = u => i = j
  <2>1. SUFFICES ASSUME NEW i \in 1 .. Len(Coming'), NEW j \in 1 .. Len(Coming'),
                        Coming'[i].pid = u, Coming'[j].pid = u
                 PROVE  i = j
    OBVIOUS
  <2>2. i + 1 \in 1 .. Len(Coming) /\ j + 1 \in 1 .. Len(Coming)
    BY <1>4
  <2>3. i + 1 = j + 1
    BY <1>5, <2>1, <2>2 DEF AsksOnce
  <2>. QED
    BY <2>3
<1>12. \A i \in 1 .. Len(slog) : IsRequestOf(i, u) => Coming[1].pid # u
  BY <1>9 DEF AsksOnce
<1>13. \A i, j \in 1 .. Len(slog') : IsRequestOf(i, u)' /\ IsRequestOf(j, u)' => i = j
  <2>1. \A i \in 1 .. Len(slog') : i \in 1 .. Len(slog) \/ i = n
    BY <1>6
  <2>2. SUFFICES ASSUME NEW i \in 1 .. Len(slog'), NEW j \in 1 .. Len(slog'),
                        IsRequestOf(i, u)', IsRequestOf(j, u)'
                 PROVE  i = j
    OBVIOUS
  <2>3. CASE i \in 1 .. Len(slog)
    <3>1. j \in 1 .. Len(slog)
      BY <1>7, <1>12, <2>1, <2>2, <2>3
    <3>. QED
      BY <1>7, <2>2, <2>3, <3>1 DEF AsksOnce
  <2>4. CASE i = n
    BY <1>7, <1>12, <2>1, <2>2, <2>4
  <2>. QED
    BY <2>1, <2>3, <2>4
<1>14. \A i \in 1 .. Len(slog') : IsRequestOf(i, u)' => ~OnItsWay(u)' /\ ~Unsent(u)'
  <2>1. \A i \in 1 .. Len(slog') : i \in 1 .. Len(slog) \/ i = n
    BY <1>6
  <2>2. Coming[1].pid = u => ~Unsent(u)
    BY <1>9 DEF AsksOnce
  <2>3. ASSUME NEW i \in 1 .. Len(slog), IsRequestOf(i, u)'
        PROVE  ~OnItsWay(u)' /\ ~Unsent(u)'
    BY <1>7, <1>8, <1>10, <2>3 DEF AsksOnce
  <2>4. IsRequestOf(n, u)' => ~OnItsWay(u)' /\ ~Unsent(u)'
    BY <1>7, <1>8, <1>10, <2>2
  <2>. QED
    BY <2>1, <2>3, <2>4
<1>. QED
  BY <1>8, <1>10, <1>11, <1>13, <1>14 DEF AsksOnce

\* main carries a request from the pipe to the queue (server.c:163-167).
LEMMA MainMovesNothing ==
    ASSUME TypeOK, TypeOK', MainStep
    PROVE  Len(Coming') <= Len(Coming) /\ \A i \in 1 .. Len(Coming') : Coming'[i] = Coming[i]
<1>. DEFINE Stays == Len(Coming') <= Len(Coming)
                     /\ \A i \in 1 .. Len(Coming') : Coming'[i] = Coming[i]
<1>1. /\ requests \in Seq(Requests) /\ Incoming \in Seq(Requests) /\ pipe \in Seq(Requests)
      /\ incoming \in Requests
  BY DEF Incoming, TypeOK, ServerTypeOK, FifosTypeOK
<1>2. ASSUME Coming' = Coming
      PROVE  Stays
  <2>1. Coming \in Seq(Requests)
    BY ComingIsSeq
  <2>. QED
    BY <1>2, <2>1
<1>3. CASE ReadRequest
  <2>1. /\ requests' = requests /\ Incoming = << >> /\ Incoming' = <<Head(pipe)>>
        /\ pipe # << >> /\ pipe' = Tail(pipe)
    BY <1>3 DEF ReadRequest, Main, Incoming, shared_vars
  <2>2. /\ Len(Coming) \in Nat /\ Len(Coming') = Len(Coming)
        /\ \A i \in 1 .. Len(Coming) : Coming'[i] = Coming[i]
    BY <1>1, <2>1 DEF Coming
  <2>. QED
    BY <2>2
<1>4. CASE PushRequest
  <2>1. /\ requests' = Append(requests, incoming) /\ Incoming = <<incoming>>
        /\ Incoming' = << >> /\ pipe' = pipe
    BY <1>4 DEF PushRequest, Main, Incoming, fifo_vars
  <2>2. /\ Len(Coming) \in Nat /\ Len(Coming') = Len(Coming)
        /\ \A i \in 1 .. Len(Coming) : Coming'[i] = Coming[i]
    BY <1>1, <2>1 DEF Coming
  <2>. QED
    BY <2>2
<1>5. CASE Exit
  <2>1. requests' = requests /\ Incoming' = << >> /\ pipe' = << >>
    BY <1>5 DEF Exit, Main, Incoming, CloseServerFifo, shared_vars
  <2>2. /\ Len(Coming) \in Nat /\ Len(Coming') <= Len(Coming)
        /\ \A i \in 1 .. Len(Coming') : Coming'[i] = Coming[i]
    BY <1>1, <2>1 DEF Coming
  <2>. QED
    BY <2>2
<1>6. CASE ~ReadRequest /\ ~PushRequest /\ ~Exit
  <2>1. UNCHANGED <<requests, incoming, pipe>>
    BY <1>6 DEF MainStep, SpawnOffice, CreateAdmin, CreateServerFifo, StartOpening,
                FinishOpening, CheckExit, ReadNothing, LockToPush, UnlockPushed, PostMainSem,
                WakeOffice, JoinOffice, ForEachThread, fifo_vars, shared_vars
  <2>2. main_pc \in {"lock", "push"} <=> main_pc' \in {"lock", "push"}
    BY <1>6 DEF MainStep, SpawnOffice, CreateAdmin, CreateServerFifo, StartOpening,
                FinishOpening, CheckExit, ReadNothing, LockToPush, UnlockPushed, PostMainSem,
                WakeOffice, JoinOffice, ForEachThread, Main, NextTurn
  <2>. QED
    BY <1>2, <2>1, <2>2 DEF Coming, Incoming
<1>. QED
  BY <1>3, <1>4, <1>5, <1>6

\* The reply at the head of a user's FIFO is one the user is told.
LEMMA HeadIsTold ==
    ASSUME TypeOK, NEW v \in Pids, inbox[v] # << >>
    PROVE  /\ Head(inbox[v]).ret_code \in RetCodes
           /\ IsTold(v, Head(inbox[v]).ret_code)
<1>1. inbox[v] \in Seq(Reply)
  BY DEF TypeOK, FifosTypeOK
<1>2. 1 \in 1 .. Len(inbox[v]) /\ Head(inbox[v]) = inbox[v][1] /\ inbox[v][1] \in Reply
  BY <1>1
<1>. QED
  BY <1>2 DEF IsTold, Reply

\* A user that has sent its request cannot do so again, nor find the server down.
LEMMA SentStaysSent ==
    ASSUME TypeOK, NEW v \in Pids, ToldIsLogged(v), UserMoves(v), NEW u \in Pids, Unsent(u)'
    PROVE  Unsent(u)
<1>. USE DEF Unsent, TypeOK, UserTypeOK
<1>1. CASE UserOpen(v)
  BY <1>1 DEF UserOpen
<1>2. CASE UserFindsServerDown(v)
  BY <1>2 DEF UserFindsServerDown, End
<1>3. CASE UserSend(v)
  BY <1>3 DEF UserSend
<1>4. CASE UserIsKilled(v)
  BY <1>4 DEF UserIsKilled
<1>5. CASE UserCreateFifo(v)
  BY <1>5 DEF UserCreateFifo
<1>6. CASE UserReceive(v)
  <2>1. Head(inbox[v]).ret_code # "RC_SRV_DOWN"
    BY <1>6, HeadIsTold DEF UserReceive, ToldIsLogged, CodesOfReplies
  <2>. QED
    BY <1>6, <2>1 DEF UserReceive, End
<1>7. CASE UserTimeout(v)
  BY <1>7 DEF UserTimeout, End
<1>. QED
  BY <1>1, <1>2, <1>3, <1>4, <1>5, <1>6, <1>7 DEF UserMoves, UserStep, UserRuns

\* The request a user writes is the only one it ever does (user.c:59-64).
LEMMA SendingAsksOnce ==
    ASSUME TypeOK, UsersWait, NEW v \in Pids, UserMoves(v), UserSend(v), ToldIsLogged(v),
           NEW sent \in RequestsOf(v), pipe' = Append(pipe, sent), NEW u \in Pids, AsksOnce(u)
    PROVE  AsksOnce(u)'
<1>1. /\ UNCHANGED <<requests, main_pc, incoming, slog, outcome>> /\ sent \in Requests
      /\ sent.pid = v /\ user[v] = "open" /\ user' = [user EXCEPT ![v] = "sent"]
  BY DEF UserMoves, UserSend, server_vars, shared_vars, main_vars, RequestsOf
<1>2. requests \in Seq(Requests) /\ Incoming \in Seq(Requests) /\ pipe \in Seq(Requests)
  BY DEF Incoming, TypeOK, ServerTypeOK, FifosTypeOK
<1>3. Incoming' = Incoming
  BY <1>1 DEF Incoming
<1>n. PICK n : n = Len(Coming) + 1
  OBVIOUS
<1>4. /\ Len(Coming) \in Nat /\ n = Len(Coming) + 1 /\ Len(Coming') = n
      /\ Coming'[n] = sent
      /\ \A i \in 1 .. Len(Coming) : Coming'[i] = Coming[i]
  BY <1>n, <1>1, <1>2, <1>3 DEF Coming
<1>5. \A i \in 1 .. Len(Coming') : i \in 1 .. Len(Coming) \/ i = n
  BY <1>4
<1>6. \A i : IsRequestOf(i, u)' <=> IsRequestOf(i, u)
  BY <1>1 DEF IsRequestOf
<1>7. CASE u = v
  <2>1. Unsent(u) /\ ~OnItsWay(u) /\ \A i \in 1 .. Len(slog) : ~IsRequestOf(i, u)
    BY <1>1, <1>7 DEF Unsent, AsksOnce
  <2>2. ~Unsent(u)'
    BY <1>1, <1>7 DEF Unsent, UsersWait, TypeOK, UserTypeOK
  <2>3. \A i \in 1 .. Len(Coming') : Coming'[i].pid = u => i = n
    BY <1>4, <1>5, <2>1 DEF OnItsWay
  <2>4. \A i \in 1 .. Len(slog') : ~IsRequestOf(i, u)'
    BY <1>1, <1>6, <2>1
  <2>. QED
    BY <2>2, <2>3, <2>4 DEF AsksOnce
<1>8. CASE u # v
  <2>1. \A i \in 1 .. Len(Coming') : Coming'[i].pid = u =>
           i \in 1 .. Len(Coming) /\ Coming[i].pid = u
    BY <1>1, <1>4, <1>5, <1>8
  <2>2. OnItsWay(u)' => OnItsWay(u)
    BY <2>1 DEF OnItsWay
  <2>3. Unsent(u)' => Unsent(u)
    BY SentStaysSent
  <2>4. \A i, j \in 1 .. Len(Coming') : Coming'[i].pid = u /\ Coming'[j].pid = u => i = j
    BY <2>1 DEF AsksOnce
  <2>5. \A i, j \in 1 .. Len(slog') : IsRequestOf(i, u)' /\ IsRequestOf(j, u)' => i = j
    BY <1>1, <1>6 DEF AsksOnce
  <2>6. \A i \in 1 .. Len(slog') : IsRequestOf(i, u)' => ~OnItsWay(u)' /\ ~Unsent(u)'
    BY <1>1, <1>6, <2>2, <2>3 DEF AsksOnce
  <2>7. Unsent(u)' => ~OnItsWay(u)'
    BY <2>2, <2>3 DEF AsksOnce
  <2>. QED
    BY <2>4, <2>5, <2>6, <2>7 DEF AsksOnce
<1>. QED
  BY <1>7, <1>8

\* No step of a user gives it a second request.
LEMMA UserAsksOnce ==
    ASSUME TypeOK, TypeOK', UsersWait, NEW v \in Pids, UserMoves(v), ToldIsLogged(v),
           NEW u \in Pids, AsksOnce(u)
    PROVE  AsksOnce(u)'
<1>1. CASE UNCHANGED pipe
  <2>1. UNCHANGED <<requests, main_pc, incoming, slog>>
    BY DEF UserMoves, server_vars, shared_vars, main_vars
  <2>2. Coming' = Coming /\ Coming \in Seq(Requests)
    BY <1>1, <2>1, ComingIsSeq DEF Coming, Incoming
  <2>3. \A i \in 1 .. Len(slog') : IsRequestOf(i, u)' => i <= Len(slog) /\ IsRequestOf(i, u)
    BY <2>1 DEF IsRequestOf, TypeOK, ServerTypeOK
  <2>4. /\ slog \in Seq(Entry) /\ Len(slog') \in Nat
        /\ Len(Coming) \in Nat /\ Len(Coming') \in Nat /\ Len(Coming') <= Len(Coming)
        /\ \A i \in 1 .. Len(Coming') : Coming'[i] = Coming[i]
    BY <2>1, <2>2 DEF TypeOK, ServerTypeOK
  <2>. QED
    BY <2>3, <2>4, SentStaysSent, StillAsksOnce
<1>2. CASE ~UNCHANGED pipe
  <2>1. UserSend(v) /\ \E sent \in RequestsOf(v) : pipe' = Append(pipe, sent)
    BY <1>2 DEF UserMoves, UserStep, UserRuns, UserOpen, UserFindsServerDown, UserSend,
                UserIsKilled, UserCreateFifo, UserReceive, UserTimeout, fifo_vars
  <2>. QED
    BY <2>1, SendingAsksOnce
<1>. QED
  BY <1>1, <1>2

\* Nor does one of the server.
LEMMA ServerAsksOnce ==
    ASSUME TypeOK, TypeOK', FrontHasARequest, NEW u \in Pids, AsksOnce(u),
           UNCHANGED <<user, outcome>>,
           \/ MainStep
           \/ \E t \in Offices : OfficeStep(t) /\ (UNCHANGED main_vars \/ DieOfSigpipe(t))
    PROVE  AsksOnce(u)'
<1>1. Unsent(u)' => Unsent(u)
  BY DEF Unsent
<1>2. /\ slog \in Seq(Entry) /\ Coming \in Seq(Requests) /\ Coming' \in Seq(Requests)
      /\ Len(Coming) \in Nat /\ Len(Coming') \in Nat
  <2>1. Coming \in Seq(Requests) /\ Coming' \in Seq(Requests)
    BY ComingIsSeq, ComingIsSeqNext
  <2>. QED
    BY <2>1 DEF TypeOK, ServerTypeOK
<1>3. CASE MainStep
  <2>1. \/ UNCHANGED slog
        \/ \E kind, who, what : kind # "request" /\ slog' = Append(slog, <<kind, who, what>>)
    <3>1. CASE CreateAdmin
      <4>1. slog' = Append(slog, <<"account", MAIN_THREAD_ID, ADMIN_ACCOUNT_ID>>)
        BY <3>1 DEF CreateAdmin, Log
      <4>2. "account" # "request"
        OBVIOUS
      <4>. QED
        BY <4>1, <4>2
    <3>2. CASE ~CreateAdmin
      BY <1>3, <3>2 DEF MainStep, SpawnOffice, CreateServerFifo, StartOpening, FinishOpening,
              CheckExit, ReadRequest, ReadNothing, LockToPush, PushRequest, UnlockPushed,
              PostMainSem, WakeOffice, JoinOffice, Exit, shared_vars
    <3>. QED
      BY <3>1, <3>2
  <2>. QED
    BY <1>1, <1>2, <1>3, <2>1, SameRequestsLogged, MainMovesNothing, StillAsksOnce
<1>4. ASSUME NEW t \in Offices, OfficeStep(t), UNCHANGED main_vars \/ DieOfSigpipe(t),
             ~TakeRequest(t)
      PROVE  AsksOnce(u)'
  <2>1. ServerTypeOK
    BY DEF TypeOK
  <2>2. \/ UNCHANGED slog
        \/ \E kind, who, what : kind # "request" /\ slog' = Append(slog, <<kind, who, what>>)
    BY <1>4, <2>1, OfficeLogsOther
  <2>. QED
    BY <1>1, <1>2, <1>4, <2>2, SameRequestsLogged, OfficeMovesNothing, StillAsksOnce
<1>5. ASSUME NEW t \in Offices, TakeRequest(t)
      PROVE  AsksOnce(u)'
  <2>1. UNCHANGED main_vars
    BY <1>5 DEF TakeRequest, Office
  <2>. QED
    BY <1>5, <2>1, TakingAsksOnce
<1>. QED
  BY <1>3, <1>4, <1>5

-----------------------------------------------------------------------------
\* Entry j is the reply to the request that is entry i.
IsAnswer(i, j, u) ==
    /\ slog[j][1] = "reply" /\ IsRequestOf(i, u)
    /\ \A k \in i + 1 .. j - 1 : slog[k][1] = "account"

\* The codes logged, entry by entry.
LEMMA AnswersAre ==
    \A u, code : code \in AnswersTo(u) <=>
        \E j \in 1 .. Len(slog) :
            /\ slog[j][3].ret_code = code
            /\ \E i \in 1 .. j - 1 : IsAnswer(i, j, u)
BY DEF AnswersTo, IsAnswer, IsRequestOf

LEMMA AnswersAreNext ==
    (\A u, code : code \in AnswersTo(u) <=>
        \E j \in 1 .. Len(slog) :
            /\ slog[j][3].ret_code = code
            /\ \E i \in 1 .. j - 1 : IsAnswer(i, j, u))'
BY AnswersAre, PTL

\* A new entry leaves the earlier answers as they are.
LEMMA EarlierAnswers ==
    ASSUME slog \in Seq(Entry), NEW kind, NEW who, NEW what,
           slog' = Append(slog, <<kind, who, what>>), NEW u
    PROVE  \A i, j \in 1 .. Len(slog) : i < j => (IsAnswer(i, j, u)' <=> IsAnswer(i, j, u))
<1>1. Len(slog) \in Nat /\ \A i \in 1 .. Len(slog) : slog'[i] = slog[i]
  OBVIOUS
<1>2. SUFFICES ASSUME NEW i \in 1 .. Len(slog), NEW j \in 1 .. Len(slog), i < j
               PROVE  IsAnswer(i, j, u)' <=> IsAnswer(i, j, u)
  OBVIOUS
<1>3. \A k \in i + 1 .. j - 1 : k \in 1 .. Len(slog)
  BY <1>1
<1>. QED
  BY <1>1, <1>3 DEF IsAnswer, IsRequestOf

\* An entry that is no reply answers nothing.
LEMMA NoReplyNoAnswer ==
    ASSUME slog \in Seq(Entry), NEW u,
           \/ UNCHANGED slog
           \/ \E kind, who, what : kind # "reply" /\ slog' = Append(slog, <<kind, who, what>>)
    PROVE  AnswersTo(u)' = AnswersTo(u)
<1>1. CASE UNCHANGED slog
  BY <1>1 DEF AnswersTo
<1>2. CASE \E kind, who, what : kind # "reply" /\ slog' = Append(slog, <<kind, who, what>>)
  <2>1. PICK kind, who, what : kind # "reply" /\ slog' = Append(slog, <<kind, who, what>>)
    BY <1>2
  <2>2. /\ Len(slog) \in Nat /\ Len(slog') = Len(slog) + 1
        /\ slog'[Len(slog) + 1][1] = kind
        /\ \A i \in 1 .. Len(slog) : slog'[i] = slog[i]
    BY <2>1
  <2>3. \A i, j \in 1 .. Len(slog) : i < j => (IsAnswer(i, j, u)' <=> IsAnswer(i, j, u))
    BY <2>1, EarlierAnswers
  <2>4. \A j \in 1 .. Len(slog') : \A i : IsAnswer(i, j, u)' => j \in 1 .. Len(slog)
    BY <2>1, <2>2 DEF IsAnswer
  <2>5. ASSUME NEW code
        PROVE  code \in AnswersTo(u)' <=> code \in AnswersTo(u)
    <3>1. ASSUME code \in AnswersTo(u)
          PROVE  code \in AnswersTo(u)'
      <4>1. PICK j \in 1 .. Len(slog) : /\ slog[j][3].ret_code = code
                                        /\ \E i \in 1 .. j - 1 : IsAnswer(i, j, u)
        BY <3>1, AnswersAre
      <4>2. PICK i \in 1 .. j - 1 : IsAnswer(i, j, u)
        BY <4>1
      <4>3. IsAnswer(i, j, u)' /\ j \in 1 .. Len(slog') /\ slog'[j][3].ret_code = code
        BY <2>2, <2>3, <4>1, <4>2
      <4>. QED
        BY <4>3, AnswersAreNext
    <3>2. ASSUME code \in AnswersTo(u)'
          PROVE  code \in AnswersTo(u)
      <4>1. PICK j \in 1 .. Len(slog') : /\ slog'[j][3].ret_code = code
                                         /\ \E i \in 1 .. j - 1 : IsAnswer(i, j, u)'
        BY <3>2, AnswersAreNext
      <4>2. PICK i \in 1 .. j - 1 : IsAnswer(i, j, u)'
        BY <4>1
      <4>3. j \in 1 .. Len(slog)
        BY <2>4, <4>2
      <4>4. IsAnswer(i, j, u) /\ slog[j][3].ret_code = code
        BY <2>2, <2>3, <4>1, <4>2, <4>3
      <4>. QED
        BY <4>3, <4>4, AnswersAre
    <3>. QED
      BY <3>1, <3>2
  <2>. QED
    BY <2>5
<1>. QED
  BY <1>1, <1>2

\* The reply an office logs answers the request it serves (server.c:47, 89).
LEMMA ReplyAnswers ==
    ASSUME slog \in Seq(Entry), NEW t \in Offices, IsLast(t), NEW u,
           slog' = Append(slog, <<"reply", t, reply[t]>>)
    PROVE  \A code : code \in AnswersTo(u)' =>
               \/ code \in AnswersTo(u)
               \/ request[t].pid = u /\ code = reply[t].ret_code
<1>n. PICK n : n = Len(slog) + 1
  OBVIOUS
<1>1. /\ Len(slog) \in Nat /\ n = Len(slog) + 1 /\ Len(slog') = n
      /\ slog'[n] = <<"reply", t, reply[t]>>
      /\ \A i \in 1 .. Len(slog) : slog'[i] = slog[i]
  BY <1>n
<1>2. PICK l \in 1 .. Len(slog) : /\ IsRequestOf(l, request[t].pid)
                                  /\ \A k \in l + 1 .. Len(slog) : slog[k][1] = "account"
  BY DEF IsLast
<1>3. \A i, j \in 1 .. Len(slog) : i < j => (IsAnswer(i, j, u)' <=> IsAnswer(i, j, u))
  BY EarlierAnswers
<1>4. ASSUME NEW i \in 1 .. n - 1, IsAnswer(i, n, u)'
      PROVE  request[t].pid = u
  <2>1. i \in 1 .. Len(slog) /\ IsRequestOf(i, u)
        /\ \A k \in i + 1 .. Len(slog) : slog[k][1] = "account"
    BY <1>1, <1>4 DEF IsAnswer, IsRequestOf
  <2>2. ~(i < l)
    BY <1>2, <2>1 DEF IsRequestOf
  <2>3. ~(l < i)
    BY <1>2, <2>1 DEF IsRequestOf
  <2>4. i = l
    BY <2>1, <2>2, <2>3
  <2>. QED
    BY <1>2, <2>1, <2>4 DEF IsRequestOf
<1>5. SUFFICES ASSUME NEW code, code \in AnswersTo(u)'
               PROVE  \/ code \in AnswersTo(u)
                      \/ request[t].pid = u /\ code = reply[t].ret_code
  OBVIOUS
<1>6. PICK j \in 1 .. Len(slog') : /\ slog'[j][3].ret_code = code
                                   /\ \E i \in 1 .. j - 1 : IsAnswer(i, j, u)'
  BY <1>5, AnswersAreNext
<1>7. PICK i \in 1 .. j - 1 : IsAnswer(i, j, u)'
  BY <1>6
<1>8. CASE j = n
  <2>1. request[t].pid = u
    BY <1>4, <1>7, <1>8
  <2>. QED
    BY <1>1, <1>6, <1>8, <2>1
<1>9. CASE j # n
  <2>1. i \in 1 .. Len(slog) /\ j \in 1 .. Len(slog) /\ i < j
    BY <1>1, <1>9
  <2>2. IsAnswer(i, j, u) /\ slog[j][3].ret_code = code
    BY <1>1, <1>3, <1>6, <1>7, <2>1
  <2>. QED
    BY <2>1, <2>2, AnswersAre
<1>. QED
  BY <1>8, <1>9

LEMMA ReplyIsAnswer ==
    ASSUME slog \in Seq(Entry), NEW t \in Offices, IsLast(t),
           slog' = Append(slog, <<"reply", t, reply[t]>>), NEW u, request[t].pid = u
    PROVE  reply[t].ret_code \in AnswersTo(u)'
<1>n. PICK n : n = Len(slog) + 1
  OBVIOUS
<1>1. /\ Len(slog) \in Nat /\ n = Len(slog) + 1 /\ Len(slog') = n
      /\ slog'[n][1] = "reply" /\ slog'[n][3] = reply[t]
      /\ \A i \in 1 .. Len(slog) : slog'[i] = slog[i]
  BY <1>n
<1>2. PICK l \in 1 .. Len(slog) : /\ IsRequestOf(l, u)
                                  /\ \A k \in l + 1 .. Len(slog) : slog[k][1] = "account"
  BY DEF IsLast
<1>3. IsAnswer(l, n, u)' /\ l \in 1 .. n - 1 /\ n \in 1 .. Len(slog')
  BY <1>1, <1>2 DEF IsAnswer, IsRequestOf
<1>. QED
  BY <1>1, <1>3, AnswersAreNext

\* While an office serves its request a user has no answer in the log.
LEMMA NotYetAnswered ==
    ASSUME slog \in Seq(Entry), NEW t \in Offices, IsLast(t), NEW u, request[t].pid = u, AsksOnce(u)
    PROVE  AnswersTo(u) = {}
<1>1. SUFFICES ASSUME NEW code, code \in AnswersTo(u) PROVE FALSE
  OBVIOUS
<1>2. PICK j \in 1 .. Len(slog) : \E i \in 1 .. j - 1 : IsAnswer(i, j, u)
  BY <1>1, AnswersAre
<1>3. PICK i \in 1 .. j - 1 : IsAnswer(i, j, u)
  BY <1>2
<1>4. PICK l \in 1 .. Len(slog) : /\ IsRequestOf(l, u)
                                  /\ \A k \in l + 1 .. Len(slog) : slog[k][1] = "account"
  BY DEF IsLast
<1>5. i = l /\ j \in l + 1 .. Len(slog)
  BY <1>3, <1>4 DEF IsAnswer, AsksOnce
<1>. QED
  BY <1>3, <1>4, <1>5 DEF IsAnswer

\* Nobody is told anything new, and no answer is taken back.
LEMMA StillLogged ==
    ASSUME NEW u, ToldIsLogged(u), AnswersTo(u)' = AnswersTo(u),
           \A code \in RetCodes : /\ IsTold(u, code)' => IsTold(u, code)
                                  /\ AboutToLog(u, code) => AboutToLog(u, code)'
    PROVE  ToldIsLogged(u)'
BY DEF ToldIsLogged

\* Most steps of an office tell nobody anything, and leave an office at log_reply there.
LEMMA OfficeTellsNobody ==
    ASSUME ServerTypeOK, NEW t \in Offices, OfficeStep(t), ~LogReply(t), ~WriteReply(t)
    PROVE  /\ UNCHANGED inbox
           /\ \/ UNCHANGED slog
              \/ \E kind, who, what : kind # "reply" /\ slog' = Append(slog, <<kind, who, what>>)
           /\ \A s \in Offices : pc[s] = "log" =>
                 pc'[s] = "log" /\ request'[s] = request[s] /\ reply'[s] = reply[s]
<1>. USE DEF ServerTypeOK, Office, locals, office_vars
<1>1. UNCHANGED inbox
  BY DEF OfficeStep, Loop, WaitMainSem, Woken, LockMutex, TakeRequest, LoadToMark, Mark,
         WaitSource, WaitTarget, BuildReply, Credit, Debit, InstallAccount, InitAccountSem,
         ReleaseSource, ReleaseTarget, OpenUserFifo, DieOfSigpipe, UnlockMutex, CloseToUsers,
         AnnounceExit, LoadToUnmark, Unmark, fifo_vars
<1>2. \/ UNCHANGED slog
      \/ \E kind, who, what : kind # "reply" /\ slog' = Append(slog, <<kind, who, what>>)
  <2>1. CASE TakeRequest(t)
    <3>1. slog' = Append(slog, <<"request", t, Head(requests)>>) /\ "request" # "reply"
      BY <2>1 DEF TakeRequest, Log
    <3>. QED
      BY <3>1
  <2>2. CASE InstallAccount(t)
    <3>1. /\ slog' = slog \/ slog' = Append(slog, <<"account", t, ADMIN_ACCOUNT_ID>>)
          /\ "account" # "reply"
      BY <2>2, InstallGoes
    <3>. QED
      BY <3>1
  <2>. QED
    BY <2>1, <2>2, OfficeWrites
<1>3. ASSUME NEW s \in Offices, pc[s] = "log"
      PROVE  pc'[s] = "log" /\ request'[s] = request[s] /\ reply'[s] = reply[s]
  <2>1. CASE \/ Loop(t) \/ WaitMainSem(t) \/ Woken(t) \/ LockMutex(t) \/ TakeRequest(t)
             \/ LoadToMark(t) \/ Mark(t) \/ WaitSource(t) \/ WaitTarget(t)
    BY <1>3, <2>1 DEF Loop, WaitMainSem, Woken, LockMutex, TakeRequest, LoadToMark, Mark,
                      WaitSource, WaitTarget
  <2>2. CASE \/ BuildReply(t) \/ Credit(t) \/ Debit(t) \/ InstallAccount(t)
             \/ InitAccountSem(t) \/ ReleaseSource(t) \/ ReleaseTarget(t)
    BY <1>3, <2>2 DEF BuildReply, Credit, Debit, InstallAccount, InitAccountSem,
                      ReleaseSource, ReleaseTarget
  <2>3. CASE OpenUserFifo(t)
    BY <1>3, <2>3 DEF OpenUserFifo
  <2>4. CASE \/ DieOfSigpipe(t) \/ UnlockMutex(t) \/ CloseToUsers(t) \/ AnnounceExit(t)
             \/ LoadToUnmark(t) \/ Unmark(t)
    BY <1>3, <2>4 DEF DieOfSigpipe, UnlockMutex, CloseToUsers, AnnounceExit, LoadToUnmark,
                      Unmark
  <2>. QED
    BY <2>1, <2>2, <2>3, <2>4 DEF OfficeStep
<1>. QED
  BY <1>1, <1>2, <1>3

\* The reply an office logs is the one it wrote, if it wrote any.
LEMMA LoggingKeepsTold ==
    ASSUME ServerTypeOK, MutualExclusion, ServesTheLast, NEW t \in Offices, LogReply(t),
           NEW u \in Pids, AsksOnce(u), ToldIsLogged(u), UNCHANGED outcome
    PROVE  ToldIsLogged(u)'
<1>1. /\ pc[t] = "log" /\ slog' = Append(slog, <<"reply", t, reply[t]>>) /\ UNCHANGED inbox
      /\ pc' = [pc EXCEPT ![t] = "unlock"] /\ UNCHANGED <<request, reply>>
      /\ slog \in Seq(Entry)
  BY DEF LogReply, Office, Log, locals, fifo_vars, ServerTypeOK
<1>2. Serving(t) /\ IsLast(t)
  BY <1>1 DEF Serving, Critical, ServesTheLast
<1>3. \A s \in Offices : pc[s] = "log" => s = t
  BY <1>1, OthersAreOutside DEF Critical
<1>4. SUFFICES ASSUME NEW code \in RetCodes, IsTold(u, code)'
               PROVE  /\ code \in CodesOfReplies
                      /\ AnswersTo(u)' \subseteq {code}
                      /\ code \in AnswersTo(u)' \/ AboutToLog(u, code)'
  BY DEF ToldIsLogged
<1>5. IsTold(u, code)
  BY <1>1, <1>4 DEF IsTold
<1>6. /\ code \in CodesOfReplies /\ AnswersTo(u) \subseteq {code}
      /\ code \in AnswersTo(u) \/ AboutToLog(u, code)
  BY <1>5 DEF ToldIsLogged
<1>7. CASE request[t].pid = u
  <2>1. AnswersTo(u) = {}
    BY <1>1, <1>2, <1>7, NotYetAnswered
  <2>2. code = reply[t].ret_code
    BY <1>3, <1>6, <2>1 DEF AboutToLog
  <2>3. code \in AnswersTo(u)'
    BY <1>1, <1>2, <1>7, <2>2, ReplyIsAnswer
  <2>4. AnswersTo(u)' \subseteq {code}
    BY <1>1, <1>2, <2>1, <2>2, ReplyAnswers
  <2>. QED
    BY <1>6, <2>3, <2>4
<1>8. CASE request[t].pid # u
  <2>1. ~AboutToLog(u, code)
    BY <1>3, <1>8 DEF AboutToLog
  <2>2. code \in AnswersTo(u)
    BY <1>6, <2>1
  <2>3. AnswersTo(u)' \subseteq AnswersTo(u)
    BY <1>1, <1>2, <1>8, ReplyAnswers
  <2>4. code \in AnswersTo(u)'
    <3>1. PICK j \in 1 .. Len(slog) : /\ slog[j][3].ret_code = code
                                      /\ \E i \in 1 .. j - 1 : IsAnswer(i, j, u)
      BY <2>2, AnswersAre
    <3>2. PICK i \in 1 .. j - 1 : IsAnswer(i, j, u)
      BY <3>1
    <3>3. j \in 1 .. Len(slog') /\ slog'[j] = slog[j] /\ i \in 1 .. Len(slog) /\ i < j
      BY <1>1
    <3>4. IsAnswer(i, j, u)'
      BY <1>1, <3>2, <3>3, EarlierAnswers
    <3>. QED
      BY <3>1, <3>3, <3>4, AnswersAreNext
  <2>. QED
    BY <1>6, <2>3, <2>4
<1>. QED
  BY <1>7, <1>8

\* What an office writes is the first the user is told.
LEMMA WritingKeepsTold ==
    ASSUME TypeOK, MutualExclusion, ServesTheLast, RepliesAreCoded, NEW t \in Offices,
           WriteReply(t), NEW u \in Pids, AsksOnce(u), ToldIsLogged(u), UNCHANGED outcome
    PROVE  ToldIsLogged(u)'
<1>1. /\ pc[t] = "write" /\ UNCHANGED <<slog, request, reply>>
      /\ pc' = [pc EXCEPT ![t] = "log"] /\ request[t].pid \in Pids
      /\ inbox' = [inbox EXCEPT ![request[t].pid] = Append(@, reply[t])]
      /\ slog \in Seq(Entry)
  BY RequestParts DEF WriteReply, Office, locals, shared_vars, TypeOK, ServerTypeOK
<1>2. Serving(t) /\ IsLast(t)
  BY <1>1 DEF Serving, Critical, ServesTheLast
<1>3. \A s \in Offices : pc[s] # "log"
  BY <1>1, OthersAreOutside DEF Critical
<1>4. SUFFICES ASSUME NEW code \in RetCodes, IsTold(u, code)'
               PROVE  /\ code \in CodesOfReplies
                      /\ AnswersTo(u)' \subseteq {code}
                      /\ code \in AnswersTo(u)' \/ AboutToLog(u, code)'
  BY DEF ToldIsLogged
<1>5. AnswersTo(u)' = AnswersTo(u)
  BY <1>1 DEF AnswersTo
<1>6. CASE request[t].pid = u
  <2>1. AnswersTo(u) = {}
    BY <1>1, <1>2, <1>6, NotYetAnswered
  <2>2. ~IsTold(u, code)
    BY <1>3, <2>1 DEF ToldIsLogged, AboutToLog
  <2>3. code = reply[t].ret_code
    <3>1. inbox[u] \in Seq(Reply) /\ inbox'[u] = Append(inbox[u], reply[t])
      BY <1>1, <1>6 DEF TypeOK, FifosTypeOK
    <3>2. /\ Len(inbox[u]) \in Nat /\ Len(inbox'[u]) = Len(inbox[u]) + 1
          /\ inbox'[u][Len(inbox[u]) + 1] = reply[t]
          /\ \A i \in 1 .. Len(inbox[u]) : inbox'[u][i] = inbox[u][i]
      BY <3>1
    <3>3. \A i \in 1 .. Len(inbox'[u]) : i \in 1 .. Len(inbox[u]) \/ i = Len(inbox[u]) + 1
      BY <3>2
    <3>. QED
      BY <1>4, <2>2, <3>2, <3>3 DEF IsTold
  <2>4. code \in CodesOfReplies
    BY <1>1, <2>3 DEF RepliesAreCoded
  <2>5. pc'[t] = "log"
    BY <1>1 DEF TypeOK, ServerTypeOK
  <2>6. AboutToLog(u, code)'
    BY <1>1, <1>6, <2>3, <2>5 DEF AboutToLog
  <2>. QED
    BY <1>5, <2>1, <2>4, <2>6
<1>7. CASE request[t].pid # u
  <2>1. IsTold(u, code)
    BY <1>1, <1>4, <1>7 DEF IsTold, TypeOK, FifosTypeOK
  <2>2. ~AboutToLog(u, code)
    BY <1>3 DEF AboutToLog
  <2>. QED
    BY <1>5, <2>1, <2>2 DEF ToldIsLogged
<1>. QED
  BY <1>6, <1>7

\* A user reads what was written to it, and no more.
LEMMA UserKeepsTold ==
    ASSUME TypeOK, NEW v \in Pids, UserMoves(v), NEW u \in Pids, ToldIsLogged(u)
    PROVE  ToldIsLogged(u)'
<1>1. UNCHANGED <<slog, pc, request, reply>>
  BY DEF UserMoves, server_vars, shared_vars, office_vars
<1>2. AnswersTo(u)' = AnswersTo(u)
  BY <1>1 DEF AnswersTo
<1>3. ASSUME NEW code \in RetCodes, IsTold(u, code)'
      PROVE  IsTold(u, code)
  <2>. USE DEF TypeOK, UserTypeOK, FifosTypeOK
  <2>1. CASE UserOpen(v) \/ UserSend(v) \/ UserIsKilled(v) \/ UserCreateFifo(v)
    BY <1>3, <2>1 DEF UserOpen, UserSend, UserIsKilled, UserCreateFifo, IsTold
  <2>2. CASE UserFindsServerDown(v)
    BY <1>3, <2>2 DEF UserFindsServerDown, End, fifo_vars, IsTold
  <2>3. CASE UserReceive(v)
    <3>1. CASE u = v
      <4>1. inbox'[u] = << >> /\ outcome'[u] = Head(inbox[u]).ret_code /\ inbox[u] # << >>
        BY <2>3, <3>1 DEF UserReceive, End, RemoveUserFifo
      <4>2. code = Head(inbox[u]).ret_code
        BY <1>3, <4>1 DEF IsTold
      <4>. QED
        BY <4>1, <4>2, HeadIsTold
    <3>2. CASE u # v
      BY <1>3, <2>3, <3>2 DEF UserReceive, End, RemoveUserFifo, IsTold
    <3>. QED
      BY <3>1, <3>2
  <2>4. CASE UserTimeout(v)
    <3>1. CASE u = v
      <4>1. inbox'[u] = << >> /\ outcome'[u] = "RC_SRV_TIMEOUT"
        BY <2>4, <3>1 DEF UserTimeout, End, RemoveUserFifo
      <4>. QED
        BY <1>3, <4>1 DEF IsTold
    <3>2. CASE u # v
      BY <1>3, <2>4, <3>2 DEF UserTimeout, End, RemoveUserFifo, IsTold
    <3>. QED
      BY <3>1, <3>2
  <2>. QED
    BY <2>1, <2>2, <2>3, <2>4 DEF UserMoves, UserStep, UserRuns
<1>4. \A code : AboutToLog(u, code)' <=> AboutToLog(u, code)
  BY <1>1 DEF AboutToLog
<1>. QED
  BY <1>2, <1>3, <1>4, StillLogged

\* The server tells a user what it logs.
LEMMA ServerKeepsTold ==
    ASSUME IInv, ServesTheLast, RepliesAreCoded, NEW u \in Pids, AsksOnce(u),
           ToldIsLogged(u), UNCHANGED outcome, MainStep \/ \E t \in Offices : OfficeStep(t)
    PROVE  ToldIsLogged(u)'
<1>. USE DEF IInv
<1>1. ServerTypeOK /\ slog \in Seq(Entry)
  BY DEF TypeOK, ServerTypeOK
<1>2. CASE MainStep
  <2>1. UNCHANGED inbox /\ UNCHANGED <<request, reply>>
    BY <1>2 DEF MainStep, SpawnOffice, CreateAdmin, CreateServerFifo, StartOpening,
                FinishOpening, CheckExit, ReadRequest, ReadNothing, LockToPush, PushRequest,
                UnlockPushed, PostMainSem, WakeOffice, JoinOffice, Exit, Main, fifo_vars,
                office_vars, locals
  <2>2. \A t \in Offices : pc[t] = "log" => pc'[t] = "log"
    <3>1. CASE SpawnOffice
      <4>1. cursor + 1 \in Offices /\ pc[cursor + 1] # "log" /\ pc' = [pc EXCEPT ![cursor + 1] = "loop"]
        <5>1. cursor + 1 \in Offices /\ cursor + 1 > cursor /\ main_pc = "spawn"
          BY <1>1, <3>1, OfficesAssumption DEF ServerTypeOK, Offices, SpawnOffice, ForEachThread
        <5>2. pc[cursor + 1] = "unborn"
          BY <5>1 DEF Unborn
        <5>. QED
          BY <3>1, <5>1, <5>2 DEF SpawnOffice
      <4>. QED
        BY <1>1, <4>1 DEF ServerTypeOK
    <3>2. CASE ~SpawnOffice
      BY <1>2, <3>2 DEF MainStep, CreateAdmin, CreateServerFifo, StartOpening,
              FinishOpening, CheckExit, ReadRequest, ReadNothing, LockToPush, PushRequest,
              UnlockPushed, PostMainSem, WakeOffice, JoinOffice, Exit, Main, office_vars
    <3>. QED
      BY <3>1, <3>2
  <2>3. \/ UNCHANGED slog
        \/ \E kind, who, what : kind # "reply" /\ slog' = Append(slog, <<kind, who, what>>)
    <3>1. CASE CreateAdmin
      <4>1. slog' = Append(slog, <<"account", MAIN_THREAD_ID, ADMIN_ACCOUNT_ID>>)
            /\ "account" # "reply"
        BY <3>1 DEF CreateAdmin, Log
      <4>. QED
        BY <4>1
    <3>2. CASE ~CreateAdmin
      BY <1>2, <3>2 DEF MainStep, SpawnOffice, CreateServerFifo, StartOpening, FinishOpening,
              CheckExit, ReadRequest, ReadNothing, LockToPush, PushRequest, UnlockPushed,
              PostMainSem, WakeOffice, JoinOffice, Exit, shared_vars
    <3>. QED
      BY <3>1, <3>2
  <2>4. AnswersTo(u)' = AnswersTo(u)
    BY <1>1, <2>3, NoReplyNoAnswer
  <2>5. ASSUME NEW code
        PROVE  /\ IsTold(u, code)' => IsTold(u, code)
               /\ AboutToLog(u, code) => AboutToLog(u, code)'
    BY <2>1, <2>2 DEF IsTold, AboutToLog
  <2>. QED
    BY <2>4, <2>5, StillLogged
<1>3. ASSUME NEW t \in Offices, OfficeStep(t), ~LogReply(t), ~WriteReply(t)
      PROVE  ToldIsLogged(u)'
  <2>1. /\ UNCHANGED inbox
        /\ \/ UNCHANGED slog
           \/ \E kind, who, what : kind # "reply" /\ slog' = Append(slog, <<kind, who, what>>)
        /\ \A s \in Offices : pc[s] = "log" =>
              pc'[s] = "log" /\ request'[s] = request[s] /\ reply'[s] = reply[s]
    BY <1>1, <1>3, OfficeTellsNobody
  <2>2. AnswersTo(u)' = AnswersTo(u)
    BY <1>1, <2>1, NoReplyNoAnswer
  <2>3. ASSUME NEW code
        PROVE  /\ IsTold(u, code)' => IsTold(u, code)
               /\ AboutToLog(u, code) => AboutToLog(u, code)'
    BY <2>1 DEF IsTold, AboutToLog
  <2>. QED
    BY <2>2, <2>3, StillLogged
<1>. QED
  BY <1>1, <1>2, <1>3, LoggingKeepsTold, WritingKeepsTold

-----------------------------------------------------------------------------
\* Between log_request and log_reply an office's request is the last one logged.
LEMMA OfficeServesTheLast ==
    ASSUME ServerTypeOK, MutualExclusion, ServesTheLast, NEW t \in Offices, OfficeStep(t)
    PROVE  ServesTheLast'
<1>1. slog \in Seq(Entry) /\ Len(slog) \in Nat
  BY DEF ServerTypeOK
<1>n. PICK n : n = Len(slog) + 1
  OBVIOUS
<1>2. CASE TakeRequest(t)
  <2>1. /\ pc[t] = "take" /\ pc' = [pc EXCEPT ![t] = "mark"]
        /\ slog' = Append(slog, <<"request", t, Head(requests)>>)
        /\ request' = [request EXCEPT ![t] = Head(requests)]
    BY <1>2 DEF TakeRequest, Office, Log
  <2>2. \A s \in Offices : s # t => ~Serving(s)'
    BY <2>1, OthersAreOutside DEF Critical, Serving, ServerTypeOK
  <2>3. /\ n \in 1 .. Len(slog') /\ Len(slog') = n
        /\ slog'[n][1] = "request" /\ slog'[n][3] = Head(requests)
        /\ request'[t] = Head(requests)
    BY <1>1, <1>n, <2>1 DEF ServerTypeOK
  <2>4. IsRequestOf(n, request[t].pid)'
    BY <2>3 DEF IsRequestOf
  <2>5. IsLast(t)'
    BY <1>1, <1>n, <2>3, <2>4 DEF IsLast
  <2>. QED
    BY <2>2, <2>5 DEF ServesTheLast
<1>3. CASE InstallAccount(t) /\ slog' # slog
  <2>1. /\ pc[t] = "install" /\ pc' = [pc EXCEPT ![t] = pc'[t]] /\ UNCHANGED request
        /\ pc'[t] \in {"sem_init", "release"}
        /\ slog' = Append(slog, <<"account", t, ADMIN_ACCOUNT_ID>>)
    BY <1>3, InstallGoes
  <2>2. \A s \in Offices : s # t => ~Serving(s)'
    BY <2>1, OthersAreOutside DEF Critical, Serving, ServerTypeOK
  <2>3. PICK l \in 1 .. Len(slog) : /\ IsRequestOf(l, request[t].pid)
                                    /\ \A k \in l + 1 .. Len(slog) : slog[k][1] = "account"
    BY <2>1 DEF Critical, Serving, ServesTheLast, IsLast
  <2>4. /\ Len(slog') = n /\ slog'[n][1] = "account" /\ l \in 1 .. Len(slog')
        /\ \A i \in 1 .. Len(slog) : slog'[i] = slog[i]
        /\ \A k \in l + 1 .. Len(slog') : k \in l + 1 .. Len(slog) \/ k = n
    BY <1>1, <1>n, <2>1
  <2>5. IsRequestOf(l, request[t].pid)'
    BY <2>1, <2>3, <2>4 DEF IsRequestOf
  <2>6. \A k \in l + 1 .. Len(slog') : slog'[k][1] = "account"
    BY <1>1, <1>n, <2>3, <2>4
  <2>7. IsLast(t)'
    BY <2>4, <2>5, <2>6 DEF IsLast
  <2>. QED
    BY <2>2, <2>7 DEF ServesTheLast
<1>4. CASE LogReply(t)
  <2>1. pc[t] = "log" /\ pc' = [pc EXCEPT ![t] = "unlock"]
    BY <1>4 DEF LogReply, Office
  <2>2. \A s \in Offices : ~Serving(s)'
    BY <2>1, OthersAreOutside DEF Critical, Serving, ServerTypeOK
  <2>. QED
    BY <2>2 DEF ServesTheLast
<1>5. CASE /\ UNCHANGED slog
           /\ Serving(t)' <=> Serving(t)
           /\ \A s \in Offices : s # t => pc'[s] = pc[s]
           /\ ~TakeRequest(t)
  <2>1. ASSUME NEW s \in Offices, Serving(s)'
        PROVE  request'[s] = request[s] /\ Serving(s)
    <3>1. Serving(s)
      BY <1>5, <2>1 DEF Serving
    <3>2. CASE Unmark(t)
      <4>1. s # t
        BY <3>1, <3>2 DEF Unmark, Office, Serving, Critical
      <4>. QED
        BY <3>1, <3>2, <4>1 DEF Unmark, ServerTypeOK
    <3>3. CASE ~Unmark(t)
      <4>1. UNCHANGED request
        BY <1>5, <3>3 DEF OfficeStep, Loop, WaitMainSem, Woken, LockMutex, LoadToMark, Mark,
              WaitSource, WaitTarget, BuildReply, Credit, Debit, InstallAccount,
              InitAccountSem, ReleaseSource, ReleaseTarget, OpenUserFifo, WriteReply,
              DieOfSigpipe, LogReply, UnlockMutex, CloseToUsers, AnnounceExit, LoadToUnmark,
              locals, office_vars
      <4>. QED
        BY <3>1, <4>1
    <3>. QED
      BY <3>2, <3>3
  <2>2. ASSUME NEW s \in Offices, Serving(s)'
        PROVE  IsLast(s)'
    <3>1. IsLast(s) /\ request'[s] = request[s] /\ slog' = slog
      BY <1>5, <2>1, <2>2 DEF ServesTheLast
    <3>. QED
      BY <3>1 DEF IsLast, IsRequestOf
  <2>. QED
    BY <2>2 DEF ServesTheLast
<1>. QED
  BY <1>2, <1>3, <1>4, <1>5, OfficeWrites

\* main logs before anybody serves, and moves no office that does.
LEMMA MainServesTheLast ==
    ASSUME ServerTypeOK, Early, ServesTheLast, MainStep
    PROVE  ServesTheLast'
<1>1. CASE CreateAdmin \/ SpawnOffice
  <2>1. \A t \in Offices : ~Serving(t)'
    BY <1>1 DEF CreateAdmin, SpawnOffice, Main, ForEachThread, Early, Serving, Critical,
                ServerTypeOK, office_vars
  <2>. QED
    BY <2>1 DEF ServesTheLast
<1>2. CASE ~CreateAdmin /\ ~SpawnOffice
  <2>1. UNCHANGED <<slog, pc, request>>
    BY <1>2 DEF MainStep, CreateServerFifo, StartOpening, FinishOpening, CheckExit,
                ReadRequest, ReadNothing, LockToPush, PushRequest, UnlockPushed, PostMainSem,
                WakeOffice, JoinOffice, Exit, Main, shared_vars, office_vars
  <2>. QED
    BY <2>1 DEF ServesTheLast, IsLast, IsRequestOf, Serving
<1>. QED
  BY <1>1, <1>2

\* No operation answers with a code that stands for a missing reply (banking_aux.c).
LEMMA CodeOfReply ==
    ASSUME NEW acc, NEW r
    PROVE  reply_code(acc, r) \in CodesOfReplies
<1>1. operation_code(acc, r) \in CodesOfReplies
  BY DEF operation_code, create_code, balance_code, transfer_code, shutdown_code, RetCodes,
         CodesOfReplies
<1>. QED
  BY <1>1 DEF reply_code, validate_bank_account, RetCodes, CodesOfReplies

\* RC_USR_DOWN replaces a code only once the reply is not to be written (server.c:80-86).
LEMMA OfficeCodesReplies ==
    ASSUME ServerTypeOK, RepliesAreCoded, NEW t \in Offices, OfficeStep(t)
    PROVE  RepliesAreCoded'
<1>. USE DEF ServerTypeOK, RepliesAreCoded, Office, locals, office_vars
<1>1. CASE Loop(t) \/ WaitMainSem(t) \/ Woken(t) \/ LockMutex(t) \/ TakeRequest(t)
  BY <1>1 DEF Loop, WaitMainSem, Woken, LockMutex, TakeRequest
<1>2. CASE LoadToMark(t) \/ Mark(t) \/ WaitSource(t) \/ WaitTarget(t)
  BY <1>2 DEF LoadToMark, Mark, WaitSource, WaitTarget
<1>3. CASE BuildReply(t)
  <2>1. /\ reply' = [reply EXCEPT ![t] = build_tlv_reply(accounts, request[t], active_threads)]
        /\ pc' = [pc EXCEPT ![t] = AfterBuild(t)]
    BY <1>3 DEF BuildReply
  <2>2. reply'[t].ret_code = reply_code(accounts, request[t])
    BY <2>1 DEF build_tlv_reply
  <2>3. reply'[t].ret_code \in CodesOfReplies
    BY <2>2, CodeOfReply
  <2>. QED
    BY <2>1, <2>3
<1>4. CASE Credit(t) \/ Debit(t) \/ InstallAccount(t) \/ InitAccountSem(t)
  BY <1>4 DEF Credit, Debit, InstallAccount, InitAccountSem
<1>5. CASE ReleaseSource(t) \/ ReleaseTarget(t)
  BY <1>5 DEF ReleaseSource, ReleaseTarget
<1>6. CASE OpenUserFifo(t)
  BY <1>6 DEF OpenUserFifo
<1>7. CASE WriteReply(t) \/ LogReply(t) \/ DieOfSigpipe(t)
  BY <1>7 DEF WriteReply, LogReply, DieOfSigpipe
<1>8. CASE UnlockMutex(t) \/ CloseToUsers(t) \/ AnnounceExit(t) \/ LoadToUnmark(t) \/ Unmark(t)
  BY <1>8 DEF UnlockMutex, CloseToUsers, AnnounceExit, LoadToUnmark, Unmark
<1>. QED
  BY <1>1, <1>2, <1>3, <1>4, <1>5, <1>6, <1>7, <1>8 DEF OfficeStep

\* main has no part in the replies.
LEMMA MainCodesReplies ==
    ASSUME ServerTypeOK, RepliesAreCoded, MainStep
    PROVE  RepliesAreCoded'
<1>1. CASE SpawnOffice
  BY <1>1 DEF SpawnOffice, ForEachThread, locals, ServerTypeOK, RepliesAreCoded
<1>2. CASE ~SpawnOffice
  <2>1. UNCHANGED <<pc, reply>>
    BY <1>2 DEF MainStep, CreateAdmin, CreateServerFifo, StartOpening, FinishOpening, CheckExit,
                ReadRequest, ReadNothing, LockToPush, PushRequest, UnlockPushed, PostMainSem,
                WakeOffice, JoinOffice, Exit, Main, office_vars
  <2>. QED
    BY <2>1 DEF RepliesAreCoded
<1>. QED
  BY <1>1, <1>2

\* The server writes to the FIFOs of users that listen, and makes or removes none.
LEMMA ServerLeavesListeners ==
    ASSUME TypeOK, UsersWait, UNCHANGED user_vars,
           MainStep \/ \E t \in Offices : OfficeStep(t)
    PROVE  UsersWait'
<1>1. UNCHANGED <<user, outcome>>
  BY DEF user_vars
<1>2. UNCHANGED listeners
  <2>1. CASE MainStep
    BY <2>1 DEF MainStep, SpawnOffice, CreateAdmin, CreateServerFifo, StartOpening,
                FinishOpening, CheckExit, ReadRequest, ReadNothing, LockToPush, PushRequest,
                UnlockPushed, PostMainSem, WakeOffice, JoinOffice, Exit, fifo_vars
  <2>2. ASSUME NEW t \in Offices, OfficeStep(t)
        PROVE  UNCHANGED listeners
    BY <2>2 DEF OfficeStep, Loop, WaitMainSem, Woken, LockMutex, TakeRequest, LoadToMark, Mark,
              WaitSource, WaitTarget, BuildReply, Credit, Debit, InstallAccount,
              InitAccountSem, ReleaseSource, ReleaseTarget, OpenUserFifo, WriteReply,
              DieOfSigpipe, LogReply, UnlockMutex, CloseToUsers, AnnounceExit, LoadToUnmark,
              Unmark, fifo_vars
  <2>. QED
    BY <2>1, <2>2
<1>3. UNCHANGED inbox \/ \E t \in Offices : WriteReply(t)
  <2>1. CASE MainStep
    BY <2>1 DEF MainStep, SpawnOffice, CreateAdmin, CreateServerFifo, StartOpening,
                FinishOpening, CheckExit, ReadRequest, ReadNothing, LockToPush, PushRequest,
                UnlockPushed, PostMainSem, WakeOffice, JoinOffice, Exit, fifo_vars
  <2>2. ASSUME NEW t \in Offices, OfficeStep(t)
        PROVE  UNCHANGED inbox \/ WriteReply(t)
    BY <2>2 DEF OfficeStep, Loop, WaitMainSem, Woken, LockMutex, TakeRequest, LoadToMark, Mark,
              WaitSource, WaitTarget, BuildReply, Credit, Debit, InstallAccount,
              InitAccountSem, ReleaseSource, ReleaseTarget, OpenUserFifo,
              DieOfSigpipe, LogReply, UnlockMutex, CloseToUsers, AnnounceExit, LoadToUnmark,
              Unmark, fifo_vars
  <2>. QED
    BY <2>1, <2>2
<1>4. ASSUME NEW u \in Pids, u \notin listeners
      PROVE  inbox'[u] = inbox[u]
  BY <1>3, <1>4 DEF WriteReply, TypeOK, FifosTypeOK
<1>. QED
  BY <1>1, <1>2, <1>4 DEF UsersWait

\* A user makes its FIFO while it waits and takes it away when it ends (user.c:66-83).
LEMMA UserWaits ==
    ASSUME TypeOK, UsersWait, NEW v \in Pids, UserMoves(v)
    PROVE  UsersWait'
<1>. USE DEF TypeOK, UserTypeOK, FifosTypeOK, UsersWait
<1>1. CASE UserOpen(v) \/ UserSend(v) \/ UserIsKilled(v)
  BY <1>1 DEF UserOpen, UserSend, UserIsKilled
<1>2. CASE UserFindsServerDown(v)
  BY <1>2 DEF UserFindsServerDown, End, fifo_vars
<1>3. CASE UserCreateFifo(v)
  BY <1>3 DEF UserCreateFifo
<1>4. CASE UserReceive(v)
  BY <1>4 DEF UserReceive, End, RemoveUserFifo
<1>5. CASE UserTimeout(v)
  BY <1>5 DEF UserTimeout, End, RemoveUserFifo
<1>. QED
  BY <1>1, <1>2, <1>3, <1>4, <1>5 DEF UserMoves, UserStep, UserRuns

-----------------------------------------------------------------------------
\* At the start nobody has asked or been told anything.
LEMMA InitOutcome == Init => OutcomeInv
<1>. SUFFICES ASSUME Init PROVE OutcomeInv
  OBVIOUS
<1>1. /\ slog = << >> /\ requests = << >> /\ pipe = << >> /\ Incoming = << >>
      /\ \A u \in Pids : outcome[u] = "none" /\ inbox[u] = << >> /\ user[u] = "start"
      /\ listeners = {} /\ \A t \in Offices : pc[t] = "unborn"
  BY DEF Init, FifosInit, ServerInit, UserInit, Incoming
<1>2. Len(slog) = 0 /\ Len(Coming) = 0
  BY <1>1 DEF Coming
<1>3. \A u \in Pids : AsksOnce(u)
  BY <1>2 DEF AsksOnce, OnItsWay
<1>4. \A u \in Pids : \A code \in RetCodes : ~IsTold(u, code)
  BY <1>1 DEF IsTold
<1>. QED
  BY <1>1, <1>3, <1>4 DEF OutcomeInv, ToldIsLogged, ServesTheLast, Serving, Critical,
                          RepliesAreCoded, UsersWait

LEMMA StepOutcome == IInv /\ IInv' /\ Early /\ OutcomeInv /\ [Next]_vars => OutcomeInv'
<1>. SUFFICES ASSUME IInv, IInv', Early, OutcomeInv, [Next]_vars PROVE OutcomeInv'
  OBVIOUS
<1>. USE DEF IInv, OutcomeInv
<1>1. ServerTypeOK
  BY DEF TypeOK
<1>2. CASE MainRuns
  <2>1. MainStep /\ UNCHANGED user_vars /\ UNCHANGED <<user, outcome>>
    BY <1>2 DEF MainRuns, user_vars
  <2>2. ASSUME NEW u \in Pids
        PROVE  AsksOnce(u)' /\ ToldIsLogged(u)'
    BY <2>1, ServerAsksOnce, ServerKeepsTold
  <2>. QED
    BY <1>1, <2>1, <2>2, MainServesTheLast, MainCodesReplies, ServerLeavesListeners
<1>3. ASSUME NEW t \in Offices, OfficeRuns(t)
      PROVE  OutcomeInv'
  <2>1. /\ OfficeStep(t) /\ UNCHANGED user_vars /\ UNCHANGED <<user, outcome>>
    BY <1>3 DEF OfficeRuns, user_vars
  <2>2. UNCHANGED main_vars \/ DieOfSigpipe(t)
    BY <2>1 DEF OfficeStep, Office, DieOfSigpipe, Loop, WaitMainSem, Woken,
              LockMutex, TakeRequest, LoadToMark, Mark, WaitSource, WaitTarget, BuildReply,
              Credit, Debit, InstallAccount, InitAccountSem, ReleaseSource, ReleaseTarget,
              OpenUserFifo, WriteReply, LogReply, UnlockMutex, CloseToUsers, AnnounceExit,
              LoadToUnmark, Unmark
  <2>3. ASSUME NEW u \in Pids
        PROVE  AsksOnce(u)' /\ ToldIsLogged(u)'
    BY <2>1, <2>2, ServerAsksOnce, ServerKeepsTold
  <2>. QED
    BY <1>1, <2>1, <2>3, OfficeServesTheLast, OfficeCodesReplies, ServerLeavesListeners
<1>4. ASSUME NEW v \in Pids, UserMoves(v)
      PROVE  OutcomeInv'
  <2>1. ASSUME NEW u \in Pids
        PROVE  AsksOnce(u)' /\ ToldIsLogged(u)'
    BY <1>4, UserAsksOnce, UserKeepsTold
  <2>2. UNCHANGED <<slog, pc, request, reply>>
    BY <1>4 DEF UserMoves, server_vars, shared_vars, office_vars
  <2>3. ServesTheLast' /\ RepliesAreCoded'
    BY <2>2 DEF ServesTheLast, RepliesAreCoded, IsLast, IsRequestOf, Serving
  <2>. QED
    BY <1>4, <2>1, <2>3, UserWaits
<1>5. CASE UNCHANGED vars
  <2>1. /\ UNCHANGED <<slog, requests, pipe, incoming, main_pc, pc, request, reply>>
        /\ UNCHANGED <<inbox, listeners, user, outcome>>
    BY <1>5 DEF vars, server_vars, shared_vars, main_vars, office_vars, fifo_vars, user_vars
  <2>2. Coming' = Coming
    BY <2>1 DEF Coming, Incoming
  <2>3. ASSUME NEW u \in Pids
        PROVE  AsksOnce(u)'
    BY <2>1, <2>2 DEF AsksOnce, OnItsWay, Unsent, IsRequestOf
  <2>4. ASSUME NEW u \in Pids
        PROVE  ToldIsLogged(u)'
    <3>1. AnswersTo(u)' = AnswersTo(u)
      BY <2>1 DEF AnswersTo
    <3>2. \A code \in RetCodes : /\ IsTold(u, code)' => IsTold(u, code)
                                 /\ AboutToLog(u, code) => AboutToLog(u, code)'
      BY <2>1 DEF IsTold, AboutToLog
    <3>. QED
      BY <3>1, <3>2, StillLogged
  <2>5. ServesTheLast' /\ RepliesAreCoded' /\ UsersWait'
    BY <2>1 DEF ServesTheLast, IsLast, IsRequestOf, Serving, RepliesAreCoded, UsersWait
  <2>. QED
    BY <2>3, <2>4, <2>5
<1>. QED
  BY <1>2, <1>3, <1>4, <1>5 DEF Next

\* What ulog.txt says of a request agrees with slog.txt (user.c:59-83, server.c:80-89).
THEOREM OutcomesAreLogged == Spec => []OutcomeIsLogged
<1>1. IInv /\ OutcomeInv => OutcomeIsLogged
  <2>. SUFFICES ASSUME IInv, OutcomeInv, NEW u \in Pids
                PROVE  /\ outcome[u] \notin {"none", "RC_SRV_DOWN", "RC_SRV_TIMEOUT"} =>
                             outcome[u] \in AnswersTo(u) \/ AboutToLog(u, outcome[u])
                       /\ AnswersTo(u) \subseteq {outcome[u]}
                          \/ outcome[u] \in {"none", "RC_SRV_TIMEOUT"}
                       /\ "RC_USR_DOWN" \in AnswersTo(u) => outcome[u] \in {"none", "RC_SRV_TIMEOUT"}
    BY DEF OutcomeIsLogged, AboutToLog
  <2>1. CASE outcome[u] \in {"none", "RC_SRV_TIMEOUT"}
    BY <2>1
  <2>2. CASE outcome[u] = "RC_SRV_DOWN"
    <3>1. \A i \in 1 .. Len(slog) : ~IsRequestOf(i, u)
      BY <2>2 DEF OutcomeInv, AsksOnce, Unsent
    <3>2. ASSUME NEW code, code \in AnswersTo(u)
          PROVE  FALSE
      <4>1. PICK j \in 1 .. Len(slog) : \E i \in 1 .. j - 1 : IsAnswer(i, j, u)
        BY <3>2, AnswersAre
      <4>2. Len(slog) \in Nat
        BY DEF IInv, TypeOK, ServerTypeOK
      <4>. QED
        BY <3>1, <4>1, <4>2 DEF IsAnswer
    <3>. QED
      BY <2>2, <3>2
  <2>3. CASE outcome[u] \notin {"none", "RC_SRV_DOWN", "RC_SRV_TIMEOUT"}
    <3>1. outcome[u] \in RetCodes /\ IsTold(u, outcome[u])
      BY <2>3 DEF IInv, TypeOK, UserTypeOK, IsTold
    <3>2. /\ outcome[u] \in CodesOfReplies /\ AnswersTo(u) \subseteq {outcome[u]}
          /\ outcome[u] \in AnswersTo(u) \/ AboutToLog(u, outcome[u])
      BY <3>1 DEF OutcomeInv, ToldIsLogged
    <3>3. outcome[u] # "RC_USR_DOWN"
      BY <3>2 DEF CodesOfReplies
    <3>. QED
      BY <3>2, <3>3
  <2>. QED
    BY <2>1, <2>2, <2>3
<1>. QED
  BY <1>1, InitOutcome, StepOutcome, Invariant, EarlyHolds, PTL DEF Spec
=============================================================================
