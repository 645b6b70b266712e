-------------------------- MODULE BankSystemProofs --------------------------
(***************************************************************************)
(* Safety of the server for any number of offices, accounts, users and     *)
(* requests.  The inductive invariant joins four facts, none of which is   *)
(* inductive alone: types (a request taken from the queue is one because   *)
(* the queue is not empty), mutual exclusion, the count of main_sem's      *)
(* tokens, and what close_thread freezes.                                  *)
(***************************************************************************)
EXTENDS BankSystem, BankingProofs, FiniteSetTheorems, SequenceTheorems

-----------------------------------------------------------------------------
(* Types. *)

\* The variables start with values of their types.
LEMMA InitTyped == Init => TypeOK
<1>. SUFFICES ASSUME Init PROVE TypeOK
  OBVIOUS
<1>1. UnsetRequest \in Requests
  BY RequestsAssumption DEF UnsetRequest
<1>2. UnsetReply \in Reply
  BY AdminAssumption DEF UnsetReply, Reply, Operations, RetCodes
<1>e. /\ << >> \in Seq(Requests) /\ << >> \in Seq(Reply) /\ << >> \in Seq(Entry)
  BY EmptySeq
<1>3. FifosTypeOK
  BY <1>e DEF Init, FifosInit, FifosTypeOK
<1>4. UserTypeOK
  BY DEF Init, UserInit, UserTypeOK
<1>5. EmptyAccount \in Account
  BY BalanceAssumption DEF EmptyAccount, Account, Word
<1>6. ServerTypeOK
  <2>. USE DEF Init, ServerInit
  <2>1. accounts \in [AccountIds -> Account] /\ acc_sem \in [AccountIds -> Nat]
    BY <1>5
  <2>2. /\ requests \in Seq(Requests) /\ slog \in Seq(Entry)
        /\ mutex \in Offices \cup {MAIN_THREAD_ID, NO_THREAD}
    BY <1>e
  <2>5. main_sem \in Nat /\ active_threads \in Int
    OBVIOUS
  <2>6. server_exit \in BOOLEAN /\ close_thread \in BOOLEAN
    OBVIOUS
  <2>3. /\ main_pc \in MainLabels /\ cursor \in 0 .. OFFICES - 1 /\ incoming \in Requests
    BY <1>1, OfficesAssumption DEF MainLabels
  <2>4. /\ pc \in [Offices -> OfficeLabels] /\ register \in [Offices -> Int]
        /\ request \in [Offices -> Requests] /\ reply \in [Offices -> Reply]
    BY <1>1, <1>2 DEF OfficeLabels
  <2>. QED
    BY <2>1, <2>2, <2>3, <2>4, <2>5, <2>6 DEF ServerTypeOK
<1>. QED
  BY <1>3, <1>4, <1>6 DEF TypeOK

\* The semaphores stay natural numbers: a wait goes through only above zero.
LEMMA AccountSemType ==
    ASSUME acc_sem \in [AccountIds -> Nat], NEW a \in AccountIds,
           WaitAccount(a) \/ PostAccount(a) \/ UNCHANGED acc_sem
    PROVE  acc_sem' \in [AccountIds -> Nat]
BY DEF WaitAccount, PostAccount

\* A request an office works on is one that a user may send, its ids in the table.
LEMMA RequestParts ==
    ASSUME ServerTypeOK, NEW t \in Offices
    PROVE  /\ request[t] \in Requests /\ request[t] \in Request
           /\ request[t].account_id \in AccountIds /\ request[t].id \in AccountIds
           /\ request[t].new_password \in Passwords /\ request[t].amount \in Word
           /\ request[t].pid \in Pids
<1>1. request[t] \in Requests
  BY DEF ServerTypeOK
<1>. QED
  BY <1>1, RequestsAssumption DEF Request

\* An account is made and logged, or is there already and nothing changes
\* (banking_aux.c:21, 28).
LEMMA InstallGoes ==
    ASSUME ServerTypeOK, NEW t \in Offices, InstallAccount(t)
    PROVE  /\ pc[t] = "install" /\ pc' = [pc EXCEPT ![t] = pc'[t]]
           /\ pc'[t] \in {"sem_init", "release"}
           /\ UNCHANGED <<request, reply, requests>>
           /\ slog' = slog \/ slog' = Append(slog, <<"account", t, ADMIN_ACCOUNT_ID>>)
<1>1. pc[t] = "install" /\ UNCHANGED <<request, reply, requests>>
  BY DEF InstallAccount, Office, locals
<1>2. \E to \in {"sem_init", "release"} : pc' = [pc EXCEPT ![t] = to]
  BY DEF InstallAccount, Office
<1>3. slog' = slog \/ slog' = Append(slog, <<"account", t, ADMIN_ACCOUNT_ID>>)
  BY DEF InstallAccount, Log
<1>. QED
  BY <1>1, <1>2, <1>3 DEF ServerTypeOK

\* A step of an office keeps the types, if no office at `front` finds the queue empty.
LEMMA OfficeTyped ==
    ASSUME TypeOK, FrontHasARequest, NEW t \in Offices, OfficeRuns(t)
    PROVE  TypeOK'
<1>. USE DEF TypeOK, FifosTypeOK, UserTypeOK, ServerTypeOK, OfficeRuns, Office, OfficeLabels,
             main_vars, office_vars, shared_vars, fifo_vars, user_vars, locals, flags
<1>1. CASE Loop(t)
  BY <1>1 DEF Loop
<1>2. CASE WaitMainSem(t)
  BY <1>2 DEF WaitMainSem
<1>3. CASE Woken(t)
  BY <1>3 DEF Woken
<1>4. CASE LockMutex(t)
  BY <1>4 DEF LockMutex
<1>5. CASE TakeRequest(t)
  <2>1. Head(requests) \in Requests /\ Tail(requests) \in Seq(Requests)
    BY <1>5 DEF FrontHasARequest, TakeRequest
  <2>2. slog' \in Seq(Entry)
    BY <1>5, <2>1 DEF TakeRequest, Log, Entry
  <2>. QED
    BY <1>5, <2>1, <2>2 DEF TakeRequest
<1>6. CASE LoadToMark(t)
  BY <1>6 DEF LoadToMark
<1>7. CASE Mark(t)
  BY <1>7 DEF Mark
<1>8. CASE WaitSource(t)
  <2>1. acc_sem' \in [AccountIds -> Nat]
    BY <1>8, RequestParts, AccountSemType DEF WaitSource
  <2>. QED
    BY <1>8, <2>1 DEF WaitSource
<1>9. CASE WaitTarget(t)
  <2>1. acc_sem' \in [AccountIds -> Nat]
    BY <1>9, RequestParts, AccountSemType DEF WaitTarget
  <2>. QED
    BY <1>9, <2>1 DEF WaitTarget
<1>10. CASE BuildReply(t)
  <2>1. build_tlv_reply(accounts, request[t], active_threads) \in Reply
    BY RequestParts, ReplyType
  <2>2. AfterBuild(t) \in OfficeLabels
    BY DEF AfterBuild
  <2>. QED
    BY <1>10, <2>1, <2>2 DEF BuildReply
<1>11. CASE Credit(t)
  <2>1. accounts' \in [AccountIds -> Account]
    BY <1>11, RequestParts, CreditedType DEF Credit
  <2>. QED
    BY <1>11, <2>1 DEF Credit
<1>12. CASE Debit(t)
  <2>1. accounts' \in [AccountIds -> Account]
    BY <1>12, RequestParts, DebitedType DEF Debit
  <2>. QED
    BY <1>12, <2>1 DEF Debit
<1>13. CASE InstallAccount(t)
  <2>1. accounts' \in [AccountIds -> Account]
    <3>1. PICK salt \in Salts :
             accounts' = create_bank_account(accounts, request[t].id, request[t].new_password,
                                             request[t].amount, salt)
      BY <1>13 DEF InstallAccount
    <3>. QED
      BY <3>1, RequestParts, CreatedType
  <2>2. slog' \in Seq(Entry) /\ pc' \in [Offices -> OfficeLabels]
    <3>1. <<"account", t, ADMIN_ACCOUNT_ID>> \in Entry
      BY AdminAssumption DEF Entry
    <3>2. slog' \in Seq(Entry)
      <4>1. slog' = slog \/ slog' = Append(slog, <<"account", t, ADMIN_ACCOUNT_ID>>)
        BY <1>13, InstallGoes
      <4>2. CASE slog' = slog
        BY <4>2
      <4>3. CASE slog' = Append(slog, <<"account", t, ADMIN_ACCOUNT_ID>>)
        BY <3>1, <4>3
      <4>. QED
        BY <4>1, <4>2, <4>3
    <3>3. pc' \in [Offices -> OfficeLabels]
      <4>1. pc' = [pc EXCEPT ![t] = pc'[t]] /\ pc'[t] \in OfficeLabels
        BY <1>13, InstallGoes
      <4>. QED
        BY <4>1
    <3>. QED
      BY <3>2, <3>3
  <2>. QED
    BY <1>13, <2>1, <2>2 DEF InstallAccount
<1>14. CASE InitAccountSem(t)
  BY <1>14 DEF InitAccountSem
<1>15. CASE ReleaseSource(t)
  <2>1. acc_sem' \in [AccountIds -> Nat]
    BY <1>15, RequestParts, AccountSemType DEF ReleaseSource
  <2>. QED
    BY <1>15, <2>1 DEF ReleaseSource
<1>16. CASE ReleaseTarget(t)
  <2>1. acc_sem' \in [AccountIds -> Nat]
    BY <1>16, RequestParts, AccountSemType DEF ReleaseTarget
  <2>. QED
    BY <1>16, <2>1 DEF ReleaseTarget
<1>17. CASE OpenUserFifo(t)
  <2>1. reply' \in [Offices -> Reply]
    BY <1>17 DEF OpenUserFifo, Reply, RetCodes
  <2>. QED
    BY <1>17, <2>1 DEF OpenUserFifo
<1>18. CASE WriteReply(t)
  <2>1. inbox' \in [Pids -> Seq(Reply)]
    BY <1>18, RequestParts DEF WriteReply
  <2>. QED
    BY <1>18, <2>1 DEF WriteReply
<1>19. CASE DieOfSigpipe(t)
  <2>1. << >> \in Seq(Requests)
    BY EmptySeq
  <2>2. "killed" \in MainLabels
    BY DEF MainLabels
  <2>. QED
    BY <1>19, <2>1, <2>2 DEF DieOfSigpipe, CloseServerFifo
<1>20. CASE LogReply(t)
  <2>1. slog' \in Seq(Entry)
    BY <1>20 DEF LogReply, Log, Entry
  <2>. QED
    BY <1>20, <2>1 DEF LogReply
<1>21. CASE UnlockMutex(t)
  BY <1>21 DEF UnlockMutex
<1>22. CASE CloseToUsers(t)
  BY <1>22 DEF CloseToUsers
<1>23. CASE AnnounceExit(t)
  BY <1>23 DEF AnnounceExit
<1>24. CASE LoadToUnmark(t)
  BY <1>24 DEF LoadToUnmark
<1>25. CASE Unmark(t)
  <2>1. UnsetRequest \in Requests
    BY RequestsAssumption DEF UnsetRequest
  <2>2. UnsetReply \in Reply
    BY AdminAssumption DEF UnsetReply, Reply, Operations, RetCodes
  <2>. QED
    BY <1>25, <2>1, <2>2 DEF Unmark
<1>. QED
  BY <1>1, <1>2, <1>3, <1>4, <1>5, <1>6, <1>7, <1>8, <1>9, <1>10, <1>11, <1>12, <1>13, <1>14, <1>15, <1>16, <1>17, <1>18, <1>19, <1>20, <1>21, <1>22, <1>23, <1>24, <1>25 DEF OfficeStep

\* A step of the main thread keeps the types.
LEMMA MainTyped ==
    ASSUME TypeOK, MainRuns
    PROVE  TypeOK'
<1>. USE DEF TypeOK, FifosTypeOK, UserTypeOK, ServerTypeOK, MainRuns,
             main_vars, office_vars, shared_vars, fifo_vars, user_vars, locals, flags
<1>1. CASE SpawnOffice
  BY <1>1, OfficesAssumption DEF SpawnOffice, ForEachThread, MainLabels, OfficeLabels, Offices
<1>2. CASE CreateAdmin
  <2>1. 0 \in Word
    BY BalanceAssumption DEF Word
  <2>2. PICK salt \in Salts :
           accounts' = create_bank_account(accounts, ADMIN_ACCOUNT_ID, AdminPassword, 0, salt)
    BY <1>2 DEF CreateAdmin
  <2>3. accounts' \in [AccountIds -> Account]
    BY <2>1, <2>2, CreatedType, AdminAssumption, AdminPasswordAssumption
  <2>4. slog' \in Seq(Entry)
    BY <1>2, AdminAssumption DEF CreateAdmin, Log, Entry
  <2>. QED
    BY <1>2, <2>3, <2>4, AdminAssumption DEF CreateAdmin, Main, MainLabels
<1>3. CASE CreateServerFifo
  BY <1>3 DEF CreateServerFifo, Main, MainLabels
<1>4. CASE StartOpening
  BY <1>4 DEF StartOpening, Main, MainLabels
<1>5. CASE FinishOpening
  BY <1>5 DEF FinishOpening, Main, MainLabels
<1>6. CASE CheckExit
  BY <1>6 DEF CheckExit, Main, MainLabels
<1>7. CASE ReadRequest
  BY <1>7 DEF ReadRequest, Main, MainLabels
<1>8. CASE ReadNothing
  BY <1>8 DEF ReadNothing, Main, MainLabels, NextTurn
<1>9. CASE LockToPush
  BY <1>9 DEF LockToPush, Main, MainLabels
<1>10. CASE PushRequest
  BY <1>10 DEF PushRequest, Main, MainLabels
<1>11. CASE UnlockPushed
  BY <1>11 DEF UnlockPushed, Main, MainLabels
<1>12. CASE PostMainSem
  BY <1>12 DEF PostMainSem, Main, MainLabels, NextTurn
<1>13. CASE WakeOffice
  BY <1>13, OfficesAssumption DEF WakeOffice, ForEachThread, MainLabels
<1>14. CASE JoinOffice
  BY <1>14, OfficesAssumption DEF JoinOffice, ForEachThread, MainLabels
<1>15. CASE Exit
  <2>1. << >> \in Seq(Requests)
    BY EmptySeq
  <2>. QED
    BY <1>15, <2>1 DEF Exit, Main, MainLabels, CloseServerFifo, RemoveServerFifo
<1>. QED
  BY <1>1, <1>2, <1>3, <1>4, <1>5, <1>6, <1>7, <1>8, <1>9, <1>10, <1>11, <1>12, <1>13, <1>14, <1>15 DEF MainStep

\* A step of a user keeps the types.
LEMMA UserTyped ==
    ASSUME TypeOK, NEW u \in Pids, UserMoves(u)
    PROVE  TypeOK'
<1>. USE DEF TypeOK, FifosTypeOK, UserTypeOK, ServerTypeOK, UserMoves, server_vars,
             main_vars, office_vars, shared_vars, fifo_vars, user_vars
<1>1. CASE UserOpen(u)
  BY <1>1 DEF UserOpen
<1>2. CASE UserFindsServerDown(u)
  BY <1>2 DEF UserFindsServerDown, End, RetCodes
<1>3. CASE UserSend(u)
  <2>1. pipe' \in Seq(Requests)
    <3>1. CASE Len(pipe) < PIPE_CAPACITY
      <4>1. PICK sent \in Requests : pipe' = Append(pipe, sent)
        BY <1>3, <3>1 DEF UserSend, RequestsOf
      <4>. QED
        BY <4>1
    <3>2. CASE ~(Len(pipe) < PIPE_CAPACITY)
      BY <1>3, <3>2 DEF UserSend
    <3>. QED
      BY <3>1, <3>2
  <2>. QED
    BY <1>3, <2>1 DEF UserSend
<1>4. CASE UserIsKilled(u)
  BY <1>4 DEF UserIsKilled
<1>5. CASE UserCreateFifo(u)
  BY <1>5 DEF UserCreateFifo
<1>6. CASE UserReceive(u)
  <2>1. Head(inbox[u]) \in Reply
    BY <1>6 DEF UserReceive
  <2>2. Head(inbox[u]).ret_code \in RetCodes
    BY <2>1 DEF Reply
  <2>. QED
    BY <1>6, <2>2 DEF UserReceive, End, RemoveUserFifo
<1>7. CASE UserTimeout(u)
  BY <1>7 DEF UserTimeout, End, RemoveUserFifo, RetCodes
<1>. QED
  BY <1>1, <1>2, <1>3, <1>4, <1>5, <1>6, <1>7 DEF UserStep, UserRuns

\* Doing nothing keeps the types.
LEMMA StutterTyped == TypeOK /\ UNCHANGED vars => TypeOK'
BY DEF TypeOK, FifosTypeOK, UserTypeOK, ServerTypeOK, vars, server_vars, main_vars,
       office_vars, shared_vars, fifo_vars, user_vars

\* So every step keeps the types, given that `front` finds a request.
LEMMA StepTyped == TypeOK /\ FrontHasARequest /\ [Next]_vars => TypeOK'
BY OfficeTyped, MainTyped, UserTyped, StutterTyped DEF Next

-----------------------------------------------------------------------------
(* The skeleton of a step: what it does to locks, tokens and queue.  Most     *)
(* steps of an office do nothing to them.                                     *)

\* Office t moves on with its lock, if it has it, and with no token in its hands.
Quiet(t) ==
    /\ pc' = [pc EXCEPT ![t] = pc'[t]]
    /\ UNCHANGED <<main_pc, mutex, main_sem, requests, close_thread>>
    /\ pc[t] \in Critical <=> pc'[t] \in Critical
    /\ pc[t] \notin {"unborn", "woken", "lock", "take"}
    /\ pc'[t] \notin {"woken", "lock", "take"}

\* Most steps of an office are quiet; the others are named one by one.
LEMMA QuietSteps ==
    ASSUME ServerTypeOK, NEW t \in Offices, OfficeStep(t)
    PROVE  \/ Quiet(t)
           \/ WaitMainSem(t) \/ Woken(t) \/ LockMutex(t) \/ TakeRequest(t)
           \/ UnlockMutex(t) \/ DieOfSigpipe(t)
<1>. USE DEF ServerTypeOK, Quiet, Office, Critical, main_vars, office_vars, shared_vars,
             fifo_vars, locals, flags
<1>1. CASE Loop(t)
  BY <1>1 DEF Loop
<1>2. CASE LoadToMark(t) \/ Mark(t) \/ LoadToUnmark(t) \/ Unmark(t)
  BY <1>2 DEF LoadToMark, Mark, LoadToUnmark, Unmark
<1>3. CASE WaitSource(t) \/ WaitTarget(t) \/ ReleaseSource(t) \/ ReleaseTarget(t)
  BY <1>3 DEF WaitSource, WaitTarget, ReleaseSource, ReleaseTarget
<1>4. CASE BuildReply(t)
  BY <1>4 DEF BuildReply, AfterBuild
<1>5. CASE Credit(t) \/ Debit(t) \/ InstallAccount(t) \/ InitAccountSem(t)
  BY <1>5 DEF Credit, Debit, InstallAccount, InitAccountSem
<1>6. CASE OpenUserFifo(t) \/ WriteReply(t) \/ LogReply(t)
  BY <1>6 DEF OpenUserFifo, WriteReply, LogReply
<1>7. CASE CloseToUsers(t) \/ AnnounceExit(t)
  BY <1>7 DEF CloseToUsers, AnnounceExit
<1>. QED
  BY <1>1, <1>2, <1>3, <1>4, <1>5, <1>6, <1>7 DEF OfficeStep

\* The mutex tells main, the offices and nobody apart.
LEMMA OfficeIds ==
    ASSUME NEW t \in Offices
    PROVE  t # MAIN_THREAD_ID /\ t # NO_THREAD /\ MAIN_THREAD_ID # NO_THREAD
BY DEF Offices, MAIN_THREAD_ID, NO_THREAD

\* An office keeps the mutex to its owner: it enters with lock_mutex and leaves with
\* unlock_mutex (server.c:44, 90).
LEMMA OfficeExcludes ==
    ASSUME ServerTypeOK, MutualExclusion, NEW t \in Offices, OfficeStep(t), Alive,
           UNCHANGED main_vars \/ DieOfSigpipe(t)
    PROVE  MutualExclusion'
<1>. USE OfficeIds DEF ServerTypeOK, MutualExclusion, Alive, main_vars
<1>1. CASE Quiet(t)
  BY <1>1 DEF Quiet
<1>2. CASE WaitMainSem(t) \/ Woken(t) \/ TakeRequest(t)
  BY <1>2 DEF WaitMainSem, Woken, TakeRequest, Office, Critical, shared_vars
<1>3. CASE LockMutex(t)
  BY <1>3 DEF LockMutex, Office, Critical
<1>4. CASE UnlockMutex(t)
  BY <1>4 DEF UnlockMutex, Office, Critical
<1>5. CASE DieOfSigpipe(t)
  BY <1>5 DEF DieOfSigpipe, office_vars, shared_vars, Critical
<1>. QED
  BY <1>1, <1>2, <1>3, <1>4, <1>5, QuietSteps

\* The offices on their way to the queue can be counted.
LEMMA CollectingFinite ==
    /\ IsFiniteSet(Collecting) /\ Cardinality(Collecting) \in Nat
    /\ IsFiniteSet(Collecting') /\ Cardinality(Collecting') \in Nat
<1>1. IsFiniteSet(Offices)
  BY FS_Interval, OfficesAssumption DEF Offices
<1>2. Collecting \in SUBSET Offices /\ Collecting' \in SUBSET Offices
  BY DEF Collecting
<1>. QED
  BY <1>1, <1>2, FS_Subset, FS_CardinalityType

\* An office with a token in its hands has a request to find.
LEMMA TokenMeansRequest ==
    ASSUME ServerTypeOK, TokensMatchRequests, Alive, ~close_thread,
           NEW t \in Collecting
    PROVE  requests # << >> /\ Len(requests) >= 1
<1>1. Cardinality(Collecting) # 0
  BY CollectingFinite, FS_EmptySet
<1>2. main_sem \in Nat /\ Unposted \in Nat /\ requests \in Seq(Requests)
  BY DEF ServerTypeOK, Unposted
<1>3. Len(requests) >= 1
  BY <1>1, <1>2, CollectingFinite DEF TokensMatchRequests
<1>. QED
  BY <1>2, <1>3

\* A token an office takes is in its hands until the request it stands for is off the
\* queue (server.c:40-46).
LEMMA OfficeTokens ==
    ASSUME ServerTypeOK, TokensMatchRequests, FrontHasARequest,
           NEW t \in Offices, OfficeStep(t), UNCHANGED main_vars \/ DieOfSigpipe(t)
    PROVE  TokensMatchRequests'
<1>. SUFFICES ASSUME Alive', ~close_thread'
              PROVE  (main_sem + Cardinality(Collecting) + Unposted = Len(requests))'
  BY DEF TokensMatchRequests
<1>1. ~DieOfSigpipe(t) /\ UNCHANGED main_vars
  BY DEF DieOfSigpipe, Alive
<1>2. Alive /\ Unposted' = Unposted /\ Unposted \in Nat
  BY <1>1 DEF Alive, Unposted, main_vars
<1>3. main_sem \in Nat /\ requests \in Seq(Requests)
  BY DEF ServerTypeOK
<1>4. CASE Quiet(t)
  <2>1. Collecting' = Collecting
    BY <1>4 DEF Quiet, Collecting, ServerTypeOK
  <2>. QED
    BY <1>2, <1>4, <2>1 DEF Quiet, TokensMatchRequests
<1>5. CASE WaitMainSem(t)
  <2>1. Collecting' = Collecting \cup {t} /\ t \notin Collecting
    BY <1>5 DEF WaitMainSem, Office, Collecting, ServerTypeOK
  <2>2. main_sem' = main_sem - 1 /\ UNCHANGED <<requests, close_thread>>
    BY <1>5 DEF WaitMainSem, flags
  <2>3. Cardinality(Collecting') = Cardinality(Collecting) + 1
    BY <2>1, CollectingFinite, FS_AddElement
  <2>. QED
    BY <1>2, <1>3, <2>2, <2>3, CollectingFinite DEF TokensMatchRequests
<1>6. CASE Woken(t) \/ LockMutex(t) \/ UnlockMutex(t)
  <2>1. UNCHANGED <<main_sem, requests, close_thread>>
    BY <1>6 DEF Woken, LockMutex, UnlockMutex, shared_vars, flags
  <2>2. Collecting' = Collecting
    BY <1>6, <2>1 DEF Woken, LockMutex, UnlockMutex, Office, Collecting, ServerTypeOK
  <2>. QED
    BY <1>2, <2>1, <2>2 DEF TokensMatchRequests
<1>7. CASE TakeRequest(t)
  <2>1. Collecting' = Collecting \ {t} /\ t \in Collecting
    BY <1>7 DEF TakeRequest, Office, Collecting, ServerTypeOK
  <2>2. UNCHANGED <<main_sem, close_thread>> /\ requests' = Tail(requests)
    BY <1>7 DEF TakeRequest, flags
  <2>3. Len(requests') = Len(requests) - 1
    BY <1>2, <1>3, <2>1, <2>2, TokenMeansRequest
  <2>4. Cardinality(Collecting') = Cardinality(Collecting) - 1
    BY <2>1, CollectingFinite, FS_RemoveElement
  <2>5. main_sem + Cardinality(Collecting) + Unposted = Len(requests)
    BY <1>2, <2>2 DEF TokensMatchRequests
  <2>6. main_sem' = main_sem /\ Len(requests) \in Nat
    BY <1>3, <2>2
  <2>. QED
    BY <1>2, <1>3, <2>3, <2>4, <2>5, <2>6, CollectingFinite
<1>. QED
  BY <1>1, <1>4, <1>5, <1>6, <1>7, QuietSteps

\* An office is let to the queue by a token, behind which there is a request; until it
\* gets there nobody else may pop, since it has the mutex (server.c:44-46).
LEMMA OfficeFront ==
    ASSUME ServerTypeOK, MutualExclusion, TokensMatchRequests, Closing, FrontHasARequest,
           NEW t \in Offices, OfficeStep(t), Alive
    PROVE  FrontHasARequest'
<1>. SUFFICES ASSUME NEW s \in Offices, pc'[s] = "take"
              PROVE  requests' # << >>
  BY DEF FrontHasARequest
<1>1. CASE Quiet(t)
  BY <1>1 DEF Quiet, ServerTypeOK, FrontHasARequest
<1>2. CASE WaitMainSem(t) \/ Woken(t) \/ UnlockMutex(t)
  BY <1>2 DEF WaitMainSem, Woken, UnlockMutex, Office, ServerTypeOK, FrontHasARequest,
              shared_vars
<1>3. CASE LockMutex(t)
  <2>1. pc[t] = "lock" /\ ~close_thread /\ t \in Collecting
    BY <1>3 DEF LockMutex, Office, Closing, Collecting
  <2>2. requests # << >> /\ UNCHANGED requests
    BY <1>3, <2>1, TokenMeansRequest DEF LockMutex
  <2>. QED
    BY <2>2
<1>4. CASE TakeRequest(t)
  BY <1>4 DEF TakeRequest, Office, ServerTypeOK, MutualExclusion, Critical
<1>5. CASE DieOfSigpipe(t)
  BY <1>5 DEF DieOfSigpipe, shared_vars, office_vars, FrontHasARequest
<1>. QED
  BY <1>1, <1>2, <1>3, <1>4, <1>5, QuietSteps

\* Once close_thread is set no office goes on to the mutex (server.c:42).
LEMMA OfficeCloses ==
    ASSUME ServerTypeOK, Closing, NEW t \in Offices, OfficeStep(t),
           UNCHANGED main_vars \/ DieOfSigpipe(t)
    PROVE  Closing'
<1>. USE DEF ServerTypeOK, Closing, main_vars
<1>1. CASE Quiet(t)
  BY <1>1 DEF Quiet, DieOfSigpipe
<1>2. CASE WaitMainSem(t) \/ Woken(t) \/ LockMutex(t) \/ UnlockMutex(t)
  BY <1>2 DEF WaitMainSem, Woken, LockMutex, UnlockMutex, Office, shared_vars, flags
<1>3. CASE TakeRequest(t)
  BY <1>3 DEF TakeRequest, Office, flags
<1>4. CASE DieOfSigpipe(t)
  BY <1>4 DEF DieOfSigpipe, shared_vars, office_vars
<1>. QED
  BY <1>1, <1>2, <1>3, <1>4, QuietSteps

\* An office does not make another.
LEMMA OfficeUnborn ==
    ASSUME ServerTypeOK, Unborn, NEW t \in Offices, OfficeStep(t),
           UNCHANGED main_vars \/ DieOfSigpipe(t)
    PROVE  Unborn'
<1>. USE DEF ServerTypeOK, Unborn, main_vars
<1>1. CASE Quiet(t)
  BY <1>1 DEF Quiet, DieOfSigpipe
<1>2. CASE WaitMainSem(t) \/ Woken(t) \/ LockMutex(t) \/ UnlockMutex(t) \/ TakeRequest(t)
  BY <1>2 DEF WaitMainSem, Woken, LockMutex, UnlockMutex, TakeRequest, Office
<1>3. CASE DieOfSigpipe(t)
  BY <1>3 DEF DieOfSigpipe
<1>. QED
  BY <1>1, <1>2, <1>3, QuietSteps

-----------------------------------------------------------------------------
(* The main thread. *)

\* The main thread, too, has the mutex where it pushes (server.c:165-168).
LEMMA MainExcludes ==
    ASSUME ServerTypeOK, Unborn, MutualExclusion, MainStep
    PROVE  MutualExclusion'
<1>. USE OfficeIds DEF ServerTypeOK, MutualExclusion, Alive
<1>1. CASE SpawnOffice
  <2>1. cursor + 1 \in Offices /\ pc[cursor + 1] = "unborn"
    BY <1>1, OfficesAssumption DEF SpawnOffice, ForEachThread, Unborn, Offices
  <2>. QED
    BY <1>1, <2>1 DEF SpawnOffice, ForEachThread, Critical, shared_vars
<1>2. CASE CreateAdmin \/ CreateServerFifo \/ StartOpening \/ FinishOpening \/ CheckExit
  BY <1>2 DEF CreateAdmin, CreateServerFifo, StartOpening, FinishOpening, CheckExit, Main,
              office_vars, shared_vars
<1>3. CASE ReadRequest \/ ReadNothing
  BY <1>3 DEF ReadRequest, ReadNothing, NextTurn, Main, office_vars, shared_vars
<1>4. CASE LockToPush \/ PushRequest \/ UnlockPushed
  <2>1. CASE LockToPush
    BY <2>1 DEF LockToPush, Main, office_vars, Critical
  <2>2. CASE PushRequest
    BY <2>2 DEF PushRequest, Main, office_vars, Critical
  <2>3. CASE UnlockPushed
    <3>1. /\ main_pc = "unlock" /\ main_pc' = "post" /\ mutex' = NO_THREAD
          /\ pc' = pc /\ mutex = MAIN_THREAD_ID
      BY <2>3 DEF UnlockPushed, Main, office_vars
    <3>2. \A t \in Offices : pc[t] \notin Critical /\ t # NO_THREAD
      BY <3>1
    <3>3. NO_THREAD # MAIN_THREAD_ID
      BY DEF NO_THREAD, MAIN_THREAD_ID
    <3>. QED
      BY <3>1, <3>2, <3>3
  <2>. QED
    BY <1>4, <2>1, <2>2, <2>3
<1>5. CASE PostMainSem \/ Exit
  BY <1>5 DEF PostMainSem, Exit, NextTurn, Main, office_vars, shared_vars
<1>6. CASE WakeOffice \/ JoinOffice
  BY <1>6 DEF WakeOffice, JoinOffice, ForEachThread, office_vars, shared_vars
<1>. QED
  BY <1>1, <1>2, <1>3, <1>4, <1>5, <1>6 DEF MainStep

\* main owes one post from the push to post_sem, and no more (server.c:166-170).
LEMMA MainTokens ==
    ASSUME ServerTypeOK, Unborn, Closing, TokensMatchRequests, MainStep
    PROVE  TokensMatchRequests'
<1>. SUFFICES ASSUME Alive', ~close_thread'
              PROVE  (main_sem + Cardinality(Collecting) + Unposted = Len(requests))'
  BY DEF TokensMatchRequests
<1>. DEFINE Count == main_sem + Cardinality(Collecting) + Unposted = Len(requests)
<1>1. main_sem \in Nat /\ requests \in Seq(Requests)
  BY DEF ServerTypeOK
<1>2. (Alive /\ ~close_thread) => Count
  BY DEF TokensMatchRequests
<1>3. ASSUME UNCHANGED office_vars
      PROVE  Collecting' = Collecting
  BY <1>3 DEF office_vars, Collecting
<1>4. CASE SpawnOffice
  <2>1. cursor + 1 \in Offices /\ pc[cursor + 1] = "unborn"
    BY <1>4, OfficesAssumption DEF SpawnOffice, ForEachThread, Unborn, Offices, ServerTypeOK
  <2>2. Collecting' = Collecting
    BY <1>4, <2>1 DEF SpawnOffice, Collecting, ServerTypeOK
  <2>. QED
    BY <1>2, <1>4, <2>2 DEF SpawnOffice, ForEachThread, Alive, Unposted, shared_vars, flags
<1>5. CASE CreateAdmin \/ CreateServerFifo \/ StartOpening \/ FinishOpening
  BY <1>2, <1>3, <1>5 DEF CreateAdmin, CreateServerFifo, StartOpening, FinishOpening, Main,
                          Alive, Unposted, shared_vars, flags
<1>6. CASE CheckExit
  BY <1>2, <1>3, <1>6 DEF CheckExit, Main, Alive, Unposted, Closing
<1>7. CASE ReadRequest \/ ReadNothing
  BY <1>2, <1>3, <1>7 DEF ReadRequest, ReadNothing, NextTurn, Main, Alive, Unposted,
                          shared_vars, flags
<1>8. CASE LockToPush \/ UnlockPushed
  BY <1>2, <1>3, <1>8 DEF LockToPush, UnlockPushed, Main, Alive, Unposted, flags
<1>9. CASE PushRequest
  <2>1. /\ Collecting' = Collecting /\ main_sem' = main_sem /\ ~close_thread /\ Alive
        /\ Unposted = 0 /\ Unposted' = 1
    BY <1>3, <1>9 DEF PushRequest, Main, Alive, Unposted, flags
  <2>2. Len(requests') = Len(requests) + 1 /\ Len(requests) \in Nat
    BY <1>1, <1>9 DEF PushRequest, ServerTypeOK
  <2>. QED
    BY <1>1, <1>2, <2>1, <2>2, CollectingFinite
<1>10. CASE PostMainSem
  <2>1. /\ Collecting' = Collecting /\ main_sem' = main_sem + 1 /\ ~close_thread /\ Alive
        /\ Unposted = 1 /\ Unposted' = 0 /\ requests' = requests
    BY <1>3, <1>10 DEF PostMainSem, NextTurn, Main, Alive, Unposted, flags
  <2>. QED
    BY <1>1, <1>2, <2>1, CollectingFinite
<1>11. CASE WakeOffice \/ JoinOffice \/ Exit
  BY <1>11 DEF WakeOffice, JoinOffice, Exit, ForEachThread, Main, Closing, shared_vars, flags
<1>. QED
  BY <1>4, <1>5, <1>6, <1>7, <1>8, <1>9, <1>10, <1>11 DEF MainStep

\* main only adds to the queue.
LEMMA MainFront ==
    ASSUME ServerTypeOK, Unborn, FrontHasARequest, MainStep
    PROVE  FrontHasARequest'
<1>. USE DEF ServerTypeOK, FrontHasARequest
<1>1. CASE SpawnOffice
  BY <1>1, OfficesAssumption DEF SpawnOffice, ForEachThread, Offices, shared_vars
<1>2. CASE PushRequest
  BY <1>2 DEF PushRequest, Main, office_vars
<1>3. CASE CreateAdmin \/ CreateServerFifo \/ StartOpening \/ FinishOpening \/ CheckExit
  BY <1>3 DEF CreateAdmin, CreateServerFifo, StartOpening, FinishOpening, CheckExit, Main,
              office_vars, shared_vars
<1>4. CASE ReadRequest \/ ReadNothing \/ LockToPush \/ UnlockPushed \/ PostMainSem
  BY <1>4 DEF ReadRequest, ReadNothing, LockToPush, UnlockPushed, PostMainSem, Main,
              office_vars, shared_vars
<1>5. CASE WakeOffice \/ JoinOffice \/ Exit
  BY <1>5 DEF WakeOffice, JoinOffice, Exit, Main, office_vars, shared_vars
<1>. QED
  BY <1>1, <1>2, <1>3, <1>4, <1>5 DEF MainStep

\* close_thread is set when nothing is queued and, the tokens being as many as the
\* requests, nobody is on the way to the queue either.
LEMMA MainCloses ==
    ASSUME ServerTypeOK, Closing, TokensMatchRequests, MainStep
    PROVE  Closing'
<1>. USE DEF ServerTypeOK, Closing
<1>1. CASE SpawnOffice
  BY <1>1 DEF SpawnOffice, ForEachThread, shared_vars, flags
<1>2. CASE CreateAdmin \/ CreateServerFifo \/ StartOpening \/ FinishOpening
  BY <1>2 DEF CreateAdmin, CreateServerFifo, StartOpening, FinishOpening, Main, office_vars,
              shared_vars, flags
<1>3. CASE CheckExit
  <2>1. CASE ~close_thread'
    BY <1>3, <2>1 DEF CheckExit, Main
  <2>2. CASE close_thread'
    <3>1. requests = << >> /\ Alive /\ ~close_thread
      BY <1>3, <2>2 DEF CheckExit, Main, Alive
    <3>2. \A t \in Offices : t \notin Collecting
      BY <3>1, TokenMeansRequest
    <3>3. Len(requests') = 0 /\ requests' = << >>
      BY <1>3, <3>1 DEF CheckExit
    <3>4. main_pc' = "read" /\ pc' = pc
      BY <1>3 DEF CheckExit, Main, office_vars
    <3>. QED
      BY <3>2, <3>3, <3>4 DEF Collecting
  <2>. QED
    BY <2>1, <2>2
<1>4. CASE ReadRequest \/ ReadNothing
  BY <1>4 DEF ReadRequest, ReadNothing, NextTurn, Main, office_vars, shared_vars, flags
<1>5. CASE LockToPush \/ UnlockPushed \/ PostMainSem
  BY <1>5 DEF LockToPush, UnlockPushed, PostMainSem, NextTurn, Main, office_vars, flags
<1>6. CASE PushRequest
  <2>1. close_thread => Len(requests') <= 1
    BY <1>6 DEF PushRequest, Main
  <2>2. close_thread' = close_thread /\ pc' = pc /\ main_pc' = "unlock"
    BY <1>6 DEF PushRequest, Main, office_vars, flags
  <2>3. close_thread' => Len(requests') <= 1
    BY <2>1, <2>2, Zenon
  <2>4. close_thread' => \A t \in Offices : pc'[t] \notin {"lock", "take"}
    BY <2>2
  <2>. QED
    BY <2>2, <2>3, <2>4
<1>7. CASE WakeOffice \/ JoinOffice \/ Exit
  BY <1>7 DEF WakeOffice, JoinOffice, Exit, ForEachThread, Main, office_vars, shared_vars,
              flags
<1>. QED
  BY <1>1, <1>2, <1>3, <1>4, <1>5, <1>6, <1>7 DEF MainStep

\* pthread_create starts the offices in order (server.c:138-142).
LEMMA MainUnborn ==
    ASSUME ServerTypeOK, Unborn, MainStep
    PROVE  Unborn'
<1>1. CASE SpawnOffice
  BY <1>1, OfficesAssumption DEF SpawnOffice, ForEachThread, Offices, Unborn, ServerTypeOK
<1>2. CASE ~SpawnOffice
  <2>1. main_pc' # "spawn"
    BY <1>2 DEF MainStep, CreateAdmin, CreateServerFifo, StartOpening, FinishOpening,
                CheckExit, ReadRequest, ReadNothing, LockToPush, PushRequest, UnlockPushed,
                PostMainSem, WakeOffice, JoinOffice, Exit, Main, ForEachThread, NextTurn
  <2>. QED
    BY <2>1 DEF Unborn
<1>. QED
  BY <1>1, <1>2

-----------------------------------------------------------------------------
(* The invariant. *)

\* The invariant holds before the server starts.
LEMMA InitInvariant == Init => IInv
<1>. SUFFICES ASSUME Init PROVE IInv
  OBVIOUS
<1>. USE DEF Init, ServerInit
<1>1. Unborn /\ FrontHasARequest /\ Closing
  BY DEF Unborn, FrontHasARequest, Closing
<1>2. MutualExclusion
  BY OfficeIds DEF MutualExclusion, Critical, NO_THREAD, MAIN_THREAD_ID
<1>3. TokensMatchRequests
  <2>1. Collecting = {}
    BY DEF Collecting
  <2>2. Cardinality(Collecting) = 0 /\ Unposted = 0 /\ Len(requests) = 0 /\ main_sem = 0
    BY <2>1, FS_EmptySet DEF Unposted
  <2>. QED
    BY <2>2 DEF TokensMatchRequests
<1>. QED
  BY <1>1, <1>2, <1>3, InitTyped DEF IInv

\* What users do, and doing nothing, is nothing to the server's own variables.
LEMMA OutsideInvariant ==
    ASSUME IInv, UNCHANGED server_vars
    PROVE  Unborn' /\ MutualExclusion' /\ TokensMatchRequests' /\ FrontHasARequest' /\ Closing'
BY DEF IInv, server_vars, shared_vars, main_vars, office_vars, Unborn, MutualExclusion,
       TokensMatchRequests, Collecting, Unposted, Alive, FrontHasARequest, Closing

\* Every step keeps the invariant.
LEMMA StepInvariant == IInv /\ [Next]_vars => IInv'
<1>. SUFFICES ASSUME IInv, [Next]_vars PROVE IInv'
  OBVIOUS
<1>1. TypeOK'
  BY StepTyped DEF IInv
<1>2. ASSUME MainRuns
      PROVE  Unborn' /\ MutualExclusion' /\ TokensMatchRequests' /\ FrontHasARequest' /\ Closing'
  BY <1>2, MainUnborn, MainExcludes, MainTokens, MainFront, MainCloses
  DEF IInv, TypeOK, MainRuns
<1>3. ASSUME NEW t \in Offices, OfficeRuns(t)
      PROVE  Unborn' /\ MutualExclusion' /\ TokensMatchRequests' /\ FrontHasARequest' /\ Closing'
  <2>1. OfficeStep(t) /\ Alive /\ (UNCHANGED main_vars \/ DieOfSigpipe(t))
    BY <1>3 DEF OfficeRuns, OfficeStep, Office, DieOfSigpipe, Loop, WaitMainSem, Woken,
                LockMutex, TakeRequest, LoadToMark, Mark, WaitSource, WaitTarget, BuildReply,
                Credit, Debit, InstallAccount, InitAccountSem, ReleaseSource, ReleaseTarget,
                OpenUserFifo, WriteReply, LogReply, UnlockMutex, CloseToUsers, AnnounceExit,
                LoadToUnmark, Unmark
  <2>. QED
    BY <2>1, OfficeUnborn, OfficeExcludes, OfficeTokens, OfficeFront, OfficeCloses
    DEF IInv, TypeOK
<1>4. ASSUME NEW u \in Pids, UserMoves(u)
      PROVE  UNCHANGED server_vars
  BY <1>4 DEF UserMoves
<1>5. CASE UNCHANGED vars
  BY <1>1, <1>5, OutsideInvariant DEF vars, IInv
<1>. QED
  BY <1>1, <1>2, <1>3, <1>4, <1>5, OutsideInvariant DEF Next, IInv

\* The inductive invariant, from which the theorems below follow: mutex, tokens, queue
\* and the way main closes hold each other up (server.c:38-46, 160-172).
THEOREM Invariant == Spec => []IInv
BY InitInvariant, StepInvariant, PTL DEF Spec

\* The variables have their types in every state (the run `startup`).
THEOREM TypeCorrect == Spec => []TypeOK
BY Invariant, PTL DEF IInv

\* At most one thread is between lock_mutex and unlock_mutex (server.c:44-90, 165-168).
THEOREM MutexExcludes == Spec => []MutualExclusion
BY Invariant, PTL DEF IInv

\* main_sem counts what is queued (server.c:40-46, 166-170).
THEOREM TokensCount == Spec => []TokensMatchRequests
BY Invariant, PTL DEF IInv

\* `front` never reads through the head of an empty queue (server.c:45).
THEOREM FrontIsSafe == Spec => []FrontHasARequest
BY Invariant, PTL DEF IInv

\* Closing leaves at most one request behind, which no office takes
\* (server.c:161-172).
THEOREM OneAbandoned == Spec => []AtMostOneAbandoned
<1>1. IInv => AtMostOneAbandoned
  BY DEF IInv, Closing, AtMostOneAbandoned
<1>. QED
  BY <1>1, Invariant, PTL
=============================================================================
