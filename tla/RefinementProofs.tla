-------------------------- MODULE RefinementProofs --------------------------
(***************************************************************************)
(* The server implements AtomicBank for any number of offices, accounts,   *)
(* users and requests.  The mutex leaves one office at most between two    *)
(* states of the atomic bank; what the mapping of BankSystem shows is then *)
(* a matter of that office's label.                                        *)
(***************************************************************************)
EXTENDS ServingProofs

-----------------------------------------------------------------------------
(* The operators of Banking are the same seen from the abstract bank. *)

\* Instantiation renames them and no more.
LEMMA SameOperators ==
    ASSUME NEW acc, NEW r, NEW a, NEW q, NEW b, NEW s, NEW n
    PROVE  /\ Atomic!is_active_account(acc, a) = is_active_account(acc, a)
           /\ Atomic!create_bank_account(acc, a, q, b, s) = create_bank_account(acc, a, q, b, s)
           /\ Atomic!credited(acc, r) = credited(acc, r)
           /\ Atomic!debited(acc, r) = debited(acc, r)
           /\ Atomic!reply_code(acc, r) = reply_code(acc, r)
           /\ Atomic!build_tlv_reply(acc, r, n) = build_tlv_reply(acc, r, n)
           /\ Atomic!EmptyAccount = EmptyAccount
<1>1. \A w : Atomic!wrap(w) = wrap(w) /\ Atomic!to_int(w) = to_int(w)
  BY DEF Atomic!wrap, wrap, Atomic!to_int, to_int
<1>2. \A x : Atomic!is_active_account(acc, x) = is_active_account(acc, x)
  BY DEF Atomic!is_active_account, is_active_account, Atomic!NoHash, NoHash
<1>3. Atomic!create_bank_account(acc, a, q, b, s) = create_bank_account(acc, a, q, b, s)
  BY <1>2 DEF Atomic!create_bank_account, create_bank_account, Atomic!generate_sha256_hash,
         generate_sha256_hash
<1>4. Atomic!credited(acc, r) = credited(acc, r) /\ Atomic!debited(acc, r) = debited(acc, r)
  BY <1>1 DEF Atomic!credited, credited, Atomic!debited, debited
<1>a. /\ Atomic!transfer_code(acc, r) = transfer_code(acc, r)
      /\ Atomic!balance_code(acc, r) = balance_code(acc, r)
      /\ Atomic!shutdown_code(r) = shutdown_code(r)
      /\ Atomic!create_code(acc, r) = create_code(acc, r)
  BY <1>1, <1>2 DEF Atomic!create_code, create_code, Atomic!balance_code, balance_code,
         Atomic!transfer_code, transfer_code, Atomic!shutdown_code, shutdown_code
<1>5. Atomic!operation_code(acc, r) = operation_code(acc, r)
  BY <1>a DEF Atomic!operation_code, operation_code
<1>6. Atomic!validate_bank_account(acc, r) = validate_bank_account(acc, r)
  BY <1>2 DEF Atomic!validate_bank_account, validate_bank_account,
         Atomic!generate_sha256_hash, generate_sha256_hash
<1>7. Atomic!reply_code(acc, r) = reply_code(acc, r)
  BY <1>5, <1>6 DEF Atomic!reply_code, reply_code
<1>8. Atomic!reply_value(acc, r, n) = reply_value(acc, r, n)
  BY <1>a, <1>4, <1>6 DEF Atomic!reply_value, reply_value
<1>9. Atomic!build_tlv_reply(acc, r, n) = build_tlv_reply(acc, r, n)
  BY <1>7, <1>8 DEF Atomic!build_tlv_reply, build_tlv_reply
<1>10. Atomic!EmptyAccount = EmptyAccount
  BY DEF Atomic!EmptyAccount, EmptyAccount, Atomic!NoHash, NoHash, Atomic!NoSalt, NoSalt
<1>. QED
  BY <1>2, <1>3, <1>4, <1>7, <1>9, <1>10

\* The count of active offices shows in the reply, if anywhere, as its value.
LEMMA ActiveIsTheValue ==
    ASSUME NEW acc, NEW r, NEW n
    PROVE  \E m \in build_tlv_reply(acc, r, n).value \cup {0} :
               build_tlv_reply(acc, r, n) = build_tlv_reply(acc, r, m)
<1>1. CASE reply_value(acc, r, n) = {n}
  BY <1>1 DEF build_tlv_reply
<1>2. CASE reply_value(acc, r, n) = reply_value(acc, r, 0)
  BY <1>2 DEF build_tlv_reply
<1>3. reply_value(acc, r, n) \in {{n}, reply_value(acc, r, 0)}
  BY DEF reply_value
<1>. QED
  BY <1>1, <1>2, <1>3

-----------------------------------------------------------------------------
(* What the mapping shows when at most one office is in the critical section. *)
UnservedAt == {"mark", "marked", "source", "target", "build", "install"}
AnsweringAt == {"credit", "debit", "sem_init", "release", "release_target", "open_fifo",
                "write", "log"}

Alone(t) == \A s \in Offices : s # t => pc[s] \notin Critical

Shows(t) ==
    /\ atomic_accounts = IF pc[t] = "credit"
                         THEN debited(credited(accounts, request[t]), request[t])
                         ELSE IF pc[t] = "debit" THEN debited(accounts, request[t])
                         ELSE accounts
    /\ atomic_pending = IF pc[t] \in UnservedAt THEN <<request[t]>> \o requests
                                                ELSE requests
    /\ {reply[s] : s \in Answering} = IF pc[t] \in AnsweringAt THEN {reply[t]} ELSE {}

\* The mapping chooses an office out of a set of one.
LEMMA OneOfOne == \A t : (CHOOSE s \in {t} : TRUE) = t
OBVIOUS

\* Whatever its label, an office alone in the critical section is what the mapping shows.
LEMMA AloneShows == \A t \in Offices : Alone(t) => Shows(t)
<1>. SUFFICES ASSUME NEW t \in Offices, Alone(t) PROVE Shows(t)
  OBVIOUS
<1>1. \A s \in Offices : s # t => pc[s] \notin Critical
  BY DEF Alone
<1>2. /\ Crediting = IF pc[t] = "credit" THEN {t} ELSE {}
      /\ Debiting = IF pc[t] = "debit" THEN {t} ELSE {}
      /\ Unserved = IF pc[t] \in UnservedAt THEN {t} ELSE {}
      /\ Answering = IF pc[t] \in AnsweringAt THEN {t} ELSE {}
  BY <1>1 DEF Crediting, Debiting, Unserved, Answering, Critical, UnservedAt, AnsweringAt
<1>3. CASE pc[t] = "credit"
  <2>1. Crediting = {t} /\ Crediting # {} /\ Unserved = {} /\ Answering = {t}
    BY <1>2, <1>3 DEF UnservedAt, AnsweringAt
  <2>2. (CHOOSE s \in Crediting : TRUE) = t
    BY <2>1, OneOfOne
  <2>3. atomic_accounts = debited(credited(accounts, request[t]), request[t])
    BY <2>1, <2>2 DEF atomic_accounts
  <2>4. atomic_pending = requests
    BY <2>1 DEF atomic_pending
  <2>. QED
    BY <1>3, <2>1, <2>3, <2>4 DEF Shows, UnservedAt, AnsweringAt
<1>4. CASE pc[t] = "debit"
  <2>1. Crediting = {} /\ Debiting = {t} /\ Debiting # {} /\ Unserved = {} /\ Answering = {t}
    BY <1>2, <1>4 DEF UnservedAt, AnsweringAt
  <2>2. (CHOOSE s \in Debiting : TRUE) = t
    BY <2>1, OneOfOne
  <2>3. atomic_accounts = debited(accounts, request[t])
    BY <2>1, <2>2 DEF atomic_accounts
  <2>4. atomic_pending = requests
    BY <2>1 DEF atomic_pending
  <2>. QED
    BY <1>4, <2>1, <2>3, <2>4 DEF Shows, UnservedAt, AnsweringAt
<1>5. CASE pc[t] \notin {"credit", "debit"}
  <2>1. Crediting = {} /\ Debiting = {}
    BY <1>2, <1>5
  <2>2. atomic_accounts = accounts
    BY <2>1 DEF atomic_accounts
  <2>3. CASE pc[t] \in UnservedAt
    <3>1. Unserved = {t} /\ Unserved # {} /\ Answering = {}
      BY <1>2, <2>3 DEF UnservedAt, AnsweringAt
    <3>2. (CHOOSE s \in Unserved : TRUE) = t
      BY <3>1, OneOfOne
    <3>3. atomic_pending = <<request[t]>> \o requests
      BY <3>1, <3>2 DEF atomic_pending
    <3>4. pc[t] \notin AnsweringAt
      BY <2>3 DEF UnservedAt, AnsweringAt
    <3>. QED
      BY <1>5, <2>2, <2>3, <3>1, <3>3, <3>4 DEF Shows
  <2>4. CASE pc[t] \notin UnservedAt
    <3>1. atomic_pending = requests
      BY <1>2, <2>4 DEF atomic_pending
    <3>2. {reply[s] : s \in Answering} = IF pc[t] \in AnsweringAt THEN {reply[t]} ELSE {}
      BY <1>2
    <3>. QED
      BY <1>5, <2>2, <2>4, <3>1, <3>2 DEF Shows
  <2>. QED
    BY <2>3, <2>4
<1>. QED
  BY <1>3, <1>4, <1>5

\* The same after a step.
LEMMA ShowsNext == (\A t \in Offices : Alone(t) => Shows(t))'
BY AloneShows, PTL

\* What is chosen out of a set is in it.
LEMMA ChosenIsMember == \A S : S # {} => (CHOOSE s \in S : TRUE) \in S
OBVIOUS

\* A step that no office in the critical section takes part in changes nothing the
\* mapping shows.
LEMMA Unnoticed ==
    ASSUME UNCHANGED <<accounts, requests, slog>>,
           \A s \in Offices : (pc[s] \in Critical \/ pc'[s] \in Critical) =>
               pc'[s] = pc[s] /\ request'[s] = request[s] /\ reply'[s] = reply[s]
    PROVE  UNCHANGED Atomic!atomic_vars
<1>1. /\ Crediting' = Crediting /\ Debiting' = Debiting
      /\ Unserved' = Unserved /\ Answering' = Answering
  BY DEF Crediting, Debiting, Unserved, Answering, Critical
<1>2. \A s \in Crediting \cup Debiting \cup Unserved : request'[s] = request[s]
  BY DEF Crediting, Debiting, Unserved, Critical
<1>3. \A s \in Answering : reply'[s] = reply[s]
  BY DEF Answering, Critical
<1>4. atomic_accounts' = atomic_accounts
  <2>1. CASE Crediting # {}
    <3>1. PICK c \in Crediting : c = CHOOSE s \in Crediting : TRUE
      BY <2>1, ChosenIsMember
    <3>2. c = CHOOSE s \in Crediting' : TRUE
      BY <1>1, <3>1
    <3>3. atomic_accounts = debited(credited(accounts, request[c]), request[c])
      BY <2>1, <3>1 DEF atomic_accounts
    <3>4. atomic_accounts' = debited(credited(accounts', request'[c]), request'[c])
      BY <1>1, <2>1, <3>2 DEF atomic_accounts, debited, credited
    <3>. QED
      BY <1>2, <3>3, <3>4
  <2>2. CASE Crediting = {} /\ Debiting # {}
    <3>1. PICK c \in Debiting : c = CHOOSE s \in Debiting : TRUE
      BY <2>2, ChosenIsMember
    <3>2. c = CHOOSE s \in Debiting' : TRUE
      BY <1>1, <3>1
    <3>3. atomic_accounts = debited(accounts, request[c])
      BY <2>2, <3>1 DEF atomic_accounts
    <3>4. atomic_accounts' = debited(accounts', request'[c])
      BY <1>1, <2>2, <3>2 DEF atomic_accounts, debited
    <3>. QED
      BY <1>2, <3>3, <3>4
  <2>3. CASE Crediting = {} /\ Debiting = {}
    BY <1>1, <2>3 DEF atomic_accounts
  <2>. QED
    BY <2>1, <2>2, <2>3
<1>5. atomic_pending' = atomic_pending
  <2>1. CASE Unserved # {}
    <3>1. PICK c \in Unserved : c = CHOOSE s \in Unserved : TRUE
      BY <2>1, ChosenIsMember
    <3>2. c = CHOOSE s \in Unserved' : TRUE
      BY <1>1, <3>1
    <3>3. atomic_pending = <<request[c]>> \o requests
      BY <2>1, <3>1 DEF atomic_pending
    <3>4. atomic_pending' = <<request'[c]>> \o requests'
      BY <1>1, <2>1, <3>2 DEF atomic_pending
    <3>. QED
      BY <1>2, <3>3, <3>4
  <2>2. CASE Unserved = {}
    BY <1>1, <2>2 DEF atomic_pending
  <2>. QED
    BY <2>1, <2>2
<1>6. {reply[s] : s \in Answering}' = {reply[s] : s \in Answering}
  BY <1>1, <1>3
<1>7. logged_replies' = logged_replies
  BY DEF logged_replies
<1>. QED
  BY <1>4, <1>5, <1>6, <1>7 DEF Atomic!atomic_vars

\* An entry added to the log adds a reply to the journal, or nothing.
LEMMA Journal ==
    ASSUME slog \in Seq(Entry), NEW kind, NEW who, NEW what,
           slog' = Append(slog, <<kind, who, what>>)
    PROVE  /\ \A earlier \in logged_replies : earlier[1] < Len(slog) + 1
           /\ kind = "reply" =>
                 logged_replies' = logged_replies \cup {<<Len(slog) + 1, what>>}
           /\ kind # "reply" => logged_replies' = logged_replies
<1>1. /\ Len(slog) \in Nat /\ Len(slog') = Len(slog) + 1
      /\ slog'[Len(slog) + 1] = <<kind, who, what>>
      /\ \A i \in 1 .. Len(slog) : slog'[i] = slog[i]
  OBVIOUS
<1>2. \A earlier \in logged_replies : earlier[1] < Len(slog) + 1
  BY <1>1 DEF logged_replies
<1>3. ASSUME kind = "reply"
      PROVE  logged_replies' = logged_replies \cup {<<Len(slog) + 1, what>>}
  <2>1. {j \in 1 .. Len(slog) : slog[j][1] = "reply"}' =
            {j \in 1 .. Len(slog) : slog[j][1] = "reply"} \cup {Len(slog) + 1}
    BY <1>1, <1>3
  <2>. QED
    BY <1>1, <2>1 DEF logged_replies
<1>4. ASSUME kind # "reply"
      PROVE  logged_replies' = logged_replies
  <2>1. {j \in 1 .. Len(slog) : slog[j][1] = "reply"}' =
            {j \in 1 .. Len(slog) : slog[j][1] = "reply"}
    BY <1>1, <1>4
  <2>. QED
    BY <1>1, <2>1 DEF logged_replies
<1>. QED
  BY <1>2, <1>3, <1>4

-----------------------------------------------------------------------------
(* An office's steps. *)

\* Beside IInv: what an office about to make an account has found, and that nothing is
\* in the table before main's first account.
Found(t) ==
    pc[t] = "install" =>
        /\ request[t].type = "OP_CREATE_ACCOUNT"
        /\ reply_code(accounts, request[t]) = "RC_OK"
        /\ reply[t] = build_tlv_reply(accounts, request[t], 0)

Fresh == main_pc \in {"spawn", "admin"} => accounts = [a \in AccountIds |-> EmptyAccount]

RInv == Fresh /\ \A t \in Offices : Found(t)

\* An office outside the critical section stays there, except by taking the mutex, and
\* leaves the table, the queue, the log and the other offices alone.
LEMMA OutsideSteps ==
    ASSUME ServerTypeOK, NEW t \in Offices, OfficeStep(t), pc[t] \notin Critical
    PROVE  /\ UNCHANGED <<accounts, requests, slog>>
           /\ \A s \in Offices : s # t =>
                 pc'[s] = pc[s] /\ request'[s] = request[s] /\ reply'[s] = reply[s]
           /\ pc'[t] \notin Critical \/ LockMutex(t)
<1>1. \/ Loop(t) \/ WaitMainSem(t) \/ Woken(t) \/ LockMutex(t) \/ CloseToUsers(t)
      \/ AnnounceExit(t) \/ LoadToUnmark(t) \/ Unmark(t)
  BY DEF OfficeStep, TakeRequest, LoadToMark, Mark, WaitSource, WaitTarget, BuildReply,
         Credit, Debit, InstallAccount, InitAccountSem, ReleaseSource, ReleaseTarget,
         OpenUserFifo, WriteReply, DieOfSigpipe, LogReply, UnlockMutex, Office, Critical
<1>. QED
  BY <1>1 DEF Loop, WaitMainSem, Woken, LockMutex, CloseToUsers, AnnounceExit, LoadToUnmark,
              Unmark, Office, ServerTypeOK, shared_vars, locals, flags, Critical

\* The steps of the office that holds the mutex leave the other offices alone.
LEMMA OthersStand ==
    ASSUME ServerTypeOK, NEW t \in Offices, OfficeStep(t)
    PROVE  \A s \in Offices : s # t =>
               pc'[s] = pc[s] /\ request'[s] = request[s] /\ reply'[s] = reply[s]
<1>1. CASE pc[t] \notin Critical
  BY <1>1, OutsideSteps
<1>2. CASE pc[t] \in Critical
  BY <1>2 DEF OfficeStep, Loop, WaitMainSem, Woken, LockMutex, CloseToUsers, AnnounceExit,
         LoadToUnmark, Unmark, TakeRequest, LoadToMark, Mark, WaitSource, WaitTarget,
         BuildReply, Credit, Debit, InstallAccount, InitAccountSem, ReleaseSource,
         ReleaseTarget, OpenUserFifo, WriteReply, DieOfSigpipe, LogReply, UnlockMutex, Office,
         Critical, ServerTypeOK, shared_vars, locals, flags, office_vars
<1>. QED
  BY <1>1, <1>2

\* Only the office that holds the mutex changes the table, and it reaches "install" with
\* what build_tlv_reply found there (banking_aux.c:103-118).
LEMMA OfficeFinds ==
    ASSUME ServerTypeOK, MutualExclusion, Early, RInv, NEW t \in Offices, OfficeStep(t),
           Alive, UNCHANGED main_vars \/ DieOfSigpipe(t)
    PROVE  RInv'
<1>1. Fresh'
  <2>. SUFFICES ASSUME main_pc' \in {"spawn", "admin"}
              PROVE accounts' = accounts /\ main_pc' = main_pc
    BY DEF RInv, Fresh
  <2>1. main_pc' = main_pc
    BY DEF main_vars, DieOfSigpipe
  <2>2. pc[t] \notin Critical
    BY <2>1 DEF Early, Critical
  <2>. QED
    BY <2>1, <2>2, OutsideSteps
<1>2. ASSUME NEW s \in Offices, s # t PROVE Found(s)'
  <2>. SUFFICES ASSUME pc'[s] = "install" PROVE Found(s)'
    BY DEF Found
  <2>1. pc[s] = "install" /\ request'[s] = request[s] /\ reply'[s] = reply[s]
    BY <1>2, OthersStand
  <2>2. pc[t] \notin Critical
    BY <1>2, <2>1, OthersAreOutside DEF Critical
  <2>3. accounts' = accounts
    BY <2>2, OutsideSteps
  <2>. QED
    BY <2>1, <2>3 DEF RInv, Found
<1>3. Found(t)'
  <2>. SUFFICES ASSUME pc'[t] = "install" PROVE Found(t)'
    BY DEF Found
  <2>1. BuildReply(t)
    <3>1. pc[t] \in Critical
      BY OutsideSteps DEF Critical, LockMutex, Office, ServerTypeOK
    <3>. QED
      BY <3>1 DEF OfficeStep, Loop, WaitMainSem, Woken, LockMutex, CloseToUsers, AnnounceExit,
         LoadToUnmark, Unmark, TakeRequest, LoadToMark, Mark, WaitSource, WaitTarget,
         Credit, Debit, InstallAccount, InitAccountSem, ReleaseSource,
         ReleaseTarget, OpenUserFifo, WriteReply, DieOfSigpipe, LogReply, UnlockMutex, Office,
         Critical, ServerTypeOK, office_vars
  <2>2. /\ AfterBuild(t) = "install" /\ accounts' = accounts /\ request' = request
        /\ reply'[t] = build_tlv_reply(accounts, request[t], active_threads)
    BY <2>1 DEF BuildReply, Office, ServerTypeOK, shared_vars
  <2>3. request[t].type = "OP_CREATE_ACCOUNT" /\ reply_code(accounts, request[t]) = "RC_OK"
    BY <2>2 DEF AfterBuild
  <2>4. build_tlv_reply(accounts, request[t], active_threads)
            = build_tlv_reply(accounts, request[t], 0)
    BY <2>3 DEF build_tlv_reply, reply_value
  <2>. QED
    BY <2>2, <2>3, <2>4 DEF Found
<1>. QED
  BY <1>1, <1>2, <1>3 DEF RInv

\* main changes the table once, before any office has left its wait (server.c:146).
LEMMA MainFinds ==
    ASSUME ServerTypeOK, Early, RInv, MainStep
    PROVE  RInv'
<1>1. CASE CreateAdmin
  BY <1>1 DEF CreateAdmin, Main, RInv, Fresh, Found, Early, office_vars
<1>2. CASE SpawnOffice
  <2>1. /\ accounts' = accounts /\ main_pc = "spawn" /\ request' = request /\ reply' = reply
        /\ pc' = [pc EXCEPT ![cursor + 1] = "loop"]
    BY <1>2 DEF SpawnOffice, ForEachThread, shared_vars, locals
  <2>. QED
    BY <2>1 DEF RInv, Fresh, Found, Early, ServerTypeOK
<1>3. CASE ~CreateAdmin /\ ~SpawnOffice
  <2>1. UNCHANGED <<accounts, pc, request, reply>> /\ main_pc' \notin {"spawn", "admin"}
    BY <1>3 DEF MainStep, CreateServerFifo, StartOpening, FinishOpening, CheckExit,
                ReadRequest, ReadNothing, LockToPush, PushRequest, UnlockPushed, PostMainSem,
                WakeOffice, JoinOffice, Exit, Main, ForEachThread, NextTurn, shared_vars,
                office_vars
  <2>. QED
    BY <2>1 DEF RInv, Fresh, Found
<1>. QED
  BY <1>1, <1>2, <1>3

\* These two facts hold throughout.
LEMMA FindingsHold == Spec => []RInv
<1>1. Init => RInv
  BY DEF Init, ServerInit, RInv, Fresh, Found
<1>2. IInv /\ Early /\ RInv /\ [Next]_vars => RInv'
  <2>. SUFFICES ASSUME IInv, Early, RInv, [Next]_vars PROVE RInv'
    OBVIOUS
  <2>1. CASE MainRuns
    BY <2>1, MainFinds DEF MainRuns, IInv, TypeOK
  <2>2. ASSUME NEW t \in Offices, OfficeStep(t), Alive, UNCHANGED main_vars \/ DieOfSigpipe(t)
        PROVE  RInv'
    BY <2>2, OfficeFinds DEF IInv, TypeOK
  <2>3. CASE UNCHANGED server_vars
    BY <2>3 DEF RInv, Fresh, Found, server_vars, main_vars, shared_vars, office_vars
  <2>. QED
    BY <2>1, <2>2, <2>3, WhoseStep
<1>. QED
  BY <1>1, <1>2, EarlyHolds, Invariant, PTL DEF Spec

\* Serving a request in one step, in the operators of Banking.
LEMMA AtomicServe ==
    ASSUME NEW r, NEW active, NEW salt \in Salts,
           {reply[s] : s \in Answering} = {}, atomic_pending # << >>, r = Head(atomic_pending),
           atomic_pending' = Tail(atomic_pending),
           {reply[s] : s \in Answering}' = {build_tlv_reply(atomic_accounts, r, active)},
           logged_replies' = logged_replies,
           \/ /\ reply_code(atomic_accounts, r) # "RC_OK"
                 \/ r.type \notin {"OP_CREATE_ACCOUNT", "OP_TRANSFER"}
              /\ atomic_accounts' = atomic_accounts
           \/ /\ reply_code(atomic_accounts, r) = "RC_OK" /\ r.type = "OP_TRANSFER"
              /\ atomic_accounts' = debited(credited(atomic_accounts, r), r)
           \/ /\ reply_code(atomic_accounts, r) = "RC_OK" /\ r.type = "OP_CREATE_ACCOUNT"
              /\ atomic_accounts' = create_bank_account(atomic_accounts, r.id, r.new_password,
                                                        r.amount, salt)
    PROVE  Atomic!Serve
<1>1. Atomic!served(atomic_accounts, r, salt) = atomic_accounts'
  BY SameOperators DEF Atomic!served
<1>2. Atomic!Perform(r)
  BY <1>1 DEF Atomic!Perform
<1>3. PICK m \in build_tlv_reply(atomic_accounts, r, active).value \cup {0} :
          build_tlv_reply(atomic_accounts, r, active) = build_tlv_reply(atomic_accounts, r, m)
  BY ActiveIsTheValue
<1>4. build_tlv_reply(atomic_accounts, r, active)
          = Atomic!build_tlv_reply(atomic_accounts, r, m)
  BY <1>3, SameOperators
<1>. QED
  BY <1>2, <1>3, <1>4 DEF Atomic!Serve

\* Between lock_mutex and unlock_mutex an office is alone, before and after its step.
LEMMA HolderIsAlone ==
    ASSUME ServerTypeOK, MutualExclusion, NEW t \in Offices, OfficeStep(t),
           pc[t] \in Critical \/ LockMutex(t)
    PROVE  Shows(t) /\ Shows(t)'
<1>1. Alone(t)
  <2>1. CASE pc[t] \in Critical
    BY <2>1, OthersAreOutside DEF Alone
  <2>2. CASE LockMutex(t)
    BY <2>2 DEF LockMutex, MutualExclusion, Alone, NO_THREAD, Offices
  <2>. QED
    BY <2>1, <2>2
<1>2. Alone(t)'
  BY <1>1, OthersStand DEF Alone
<1>. QED
  BY <1>1, <1>2, AloneShows, ShowsNext

\* The steps on the way to build_tlv_reply, and after it the two stores and the posts,
\* do not show (server.c:44-79).
LEMMA HolderIsQuiet ==
    ASSUME ServerTypeOK, FrontHasARequest, NEW t \in Offices, Shows(t), Shows(t)',
           \/ LockMutex(t) \/ TakeRequest(t) \/ LoadToMark(t) \/ Mark(t) \/ WaitSource(t)
           \/ WaitTarget(t) \/ Credit(t) \/ Debit(t) \/ InitAccountSem(t) \/ ReleaseSource(t)
           \/ ReleaseTarget(t) \/ WriteReply(t) \/ UnlockMutex(t)
    PROVE  UNCHANGED Atomic!atomic_vars
<1>1. CASE TakeRequest(t)
  <2>1. /\ pc[t] = "take" /\ pc'[t] = "mark" /\ request'[t] = Head(requests)
        /\ requests' = Tail(requests) /\ accounts' = accounts
        /\ slog' = Append(slog, <<"request", t, Head(requests)>>)
    BY <1>1 DEF TakeRequest, Office, Log, ServerTypeOK
  <2>2. requests = <<Head(requests)>> \o Tail(requests)
    <3>1. requests # << >> /\ requests \in Seq(Requests)
      BY <2>1 DEF FrontHasARequest, ServerTypeOK
    <3>. QED
      BY <3>1
  <2>3. atomic_accounts' = atomic_accounts
    BY <2>1 DEF Shows
  <2>4. atomic_pending' = atomic_pending
    BY <2>1, <2>2 DEF Shows, UnservedAt
  <2>5. {reply[s] : s \in Answering}' = {reply[s] : s \in Answering}
    BY <2>1 DEF Shows, AnsweringAt
  <2>6. logged_replies' = logged_replies
    BY <2>1, Journal DEF ServerTypeOK
  <2>. QED
    BY <2>3, <2>4, <2>5, <2>6 DEF Atomic!atomic_vars
<1>2. CASE Credit(t) \/ Debit(t)
  <2>1. /\ requests' = requests /\ slog' = slog /\ request'[t] = request[t]
        /\ reply'[t] = reply[t]
        /\ \/ pc[t] = "credit" /\ pc'[t] = "debit" /\ accounts' = credited(accounts, request[t])
           \/ pc[t] = "debit" /\ pc'[t] = "release" /\ accounts' = debited(accounts, request[t])
    BY <1>2 DEF Credit, Debit, Office, ServerTypeOK, locals
  <2>2. atomic_accounts' = atomic_accounts
    BY <2>1 DEF Shows
  <2>3. atomic_pending' = atomic_pending
    BY <2>1 DEF Shows, UnservedAt
  <2>4. {reply[s] : s \in Answering}' = {reply[s] : s \in Answering}
    BY <2>1 DEF Shows, AnsweringAt
  <2>5. logged_replies' = logged_replies
    BY <2>1 DEF logged_replies
  <2>. QED
    BY <2>2, <2>3, <2>4, <2>5 DEF Atomic!atomic_vars
<1>3. CASE ~TakeRequest(t) /\ ~Credit(t) /\ ~Debit(t)
  <2>1. UNCHANGED <<accounts, requests, slog>> /\ request'[t] = request[t] /\ reply'[t] = reply[t]
    BY <1>3 DEF LockMutex, LoadToMark, Mark, WaitSource, WaitTarget, InitAccountSem,
                ReleaseSource, ReleaseTarget, WriteReply, UnlockMutex, shared_vars, locals
  <2>2. /\ pc'[t] \in UnservedAt <=> pc[t] \in UnservedAt
        /\ pc'[t] \in AnsweringAt <=> pc[t] \in AnsweringAt
        /\ pc[t] \notin {"credit", "debit"} /\ pc'[t] \notin {"credit", "debit"}
    BY <1>3 DEF LockMutex, LoadToMark, Mark, WaitSource, WaitTarget, InitAccountSem,
                ReleaseSource, ReleaseTarget, WriteReply, UnlockMutex, Office, ServerTypeOK,
                UnservedAt, AnsweringAt
  <2>3. atomic_accounts' = atomic_accounts
    BY <2>1, <2>2 DEF Shows
  <2>4. atomic_pending' = atomic_pending
    BY <2>1, <2>2 DEF Shows
  <2>5. {reply[s] : s \in Answering}' = {reply[s] : s \in Answering}
    BY <2>1, <2>2 DEF Shows
  <2>6. logged_replies' = logged_replies
    BY <2>1 DEF logged_replies
  <2>. QED
    BY <2>3, <2>4, <2>5, <2>6 DEF Atomic!atomic_vars
<1>. QED
  BY <1>1, <1>2, <1>3

\* The step that computes the reply serves the request (banking_aux.c:84-189), unless an
\* account is still to be made.
LEMMA BuildingServes ==
    ASSUME ServerTypeOK, NEW t \in Offices, Shows(t), Shows(t)', BuildReply(t)
    PROVE  Atomic!Serve \/ UNCHANGED Atomic!atomic_vars
<1>1. /\ pc[t] = "build" /\ pc'[t] = AfterBuild(t)
      /\ UNCHANGED <<accounts, requests, slog>> /\ request'[t] = request[t]
      /\ reply'[t] = build_tlv_reply(accounts, request[t], active_threads)
  BY DEF BuildReply, Office, ServerTypeOK, shared_vars
<1>2. /\ atomic_accounts = accounts /\ atomic_pending = <<request[t]>> \o requests
      /\ {reply[s] : s \in Answering} = {}
  BY <1>1 DEF Shows, UnservedAt, AnsweringAt
<1>3. logged_replies' = logged_replies
  BY <1>1 DEF logged_replies
<1>4. CASE AfterBuild(t) = "install"
  <2>1. /\ atomic_accounts' = accounts /\ atomic_pending' = <<request[t]>> \o requests
        /\ {reply[s] : s \in Answering}' = {}
    BY <1>1, <1>4 DEF Shows, UnservedAt, AnsweringAt
  <2>. QED
    BY <1>2, <1>3, <2>1 DEF Atomic!atomic_vars
<1>5. CASE AfterBuild(t) # "install"
  <2>1. AfterBuild(t) \in {"release", "credit"}
    BY <1>5 DEF AfterBuild
  <2>2. /\ atomic_pending' = requests
        /\ {reply[s] : s \in Answering}'
              = {build_tlv_reply(accounts, request[t], active_threads)}
    BY <1>1, <2>1 DEF Shows, UnservedAt, AnsweringAt
  <2>3. /\ atomic_pending # << >> /\ request[t] = Head(atomic_pending)
        /\ requests = Tail(atomic_pending)
    <3>1. request[t] \in Requests /\ requests \in Seq(Requests)
      BY DEF ServerTypeOK
    <3>2. /\ <<request[t]>> \o requests # << >> /\ request[t] = Head(<<request[t]>> \o requests)
          /\ requests = Tail(<<request[t]>> \o requests)
      BY <3>1
    <3>. QED
      BY <1>2, <3>2
  <2>4. \/ /\ \/ reply_code(accounts, request[t]) # "RC_OK"
              \/ request[t].type \notin {"OP_CREATE_ACCOUNT", "OP_TRANSFER"}
           /\ atomic_accounts' = accounts
        \/ /\ reply_code(accounts, request[t]) = "RC_OK" /\ request[t].type = "OP_TRANSFER"
           /\ atomic_accounts' = debited(credited(accounts, request[t]), request[t])
    BY <1>1, <1>5 DEF AfterBuild, Shows
  <2>5. PICK salt \in Salts : TRUE
    BY SaltsAssumption
  <2>. QED
    BY <1>2, <1>3, <2>2, <2>3, <2>4, <2>5, AtomicServe
<1>. QED
  BY <1>4, <1>5

\* An account is made and its request served at once (banking_aux.c:116).
LEMMA InstallingServes ==
    ASSUME ServerTypeOK, NEW t \in Offices, Shows(t), Shows(t)', Found(t), InstallAccount(t)
    PROVE  Atomic!Serve
<1>1. /\ pc[t] = "install" /\ pc'[t] \in {"sem_init", "release"} /\ requests' = requests
      /\ request'[t] = request[t] /\ reply'[t] = reply[t]
      /\ slog' = slog \/ slog' = Append(slog, <<"account", t, ADMIN_ACCOUNT_ID>>)
  BY InstallGoes
<1>2. PICK salt \in Salts :
         accounts' = create_bank_account(accounts, request[t].id, request[t].new_password,
                                         request[t].amount, salt)
  BY DEF InstallAccount
<1>3. /\ atomic_accounts = accounts /\ atomic_pending = <<request[t]>> \o requests
      /\ {reply[s] : s \in Answering} = {}
  BY <1>1 DEF Shows, UnservedAt, AnsweringAt
<1>4. /\ atomic_accounts' = accounts' /\ atomic_pending' = requests
      /\ {reply[s] : s \in Answering}' = {build_tlv_reply(accounts, request[t], 0)}
  BY <1>1 DEF Shows, UnservedAt, AnsweringAt, Found
<1>5. logged_replies' = logged_replies
  <2>1. CASE slog' = slog
    BY <2>1 DEF logged_replies
  <2>2. CASE slog' = Append(slog, <<"account", t, ADMIN_ACCOUNT_ID>>)
    BY <2>2, Journal DEF ServerTypeOK
  <2>. QED
    BY <1>1, <2>1, <2>2
<1>6. /\ <<request[t]>> \o requests # << >> /\ request[t] = Head(<<request[t]>> \o requests)
      /\ requests = Tail(<<request[t]>> \o requests)
  <2>1. request[t] \in Requests /\ requests \in Seq(Requests)
    BY DEF ServerTypeOK
  <2>. QED
    BY <2>1
<1>7. request[t].type = "OP_CREATE_ACCOUNT" /\ reply_code(accounts, request[t]) = "RC_OK"
  BY <1>1 DEF Found
<1>. QED
  BY <1>2, <1>3, <1>4, <1>5, <1>6, <1>7, AtomicServe

\* The reply is logged as it is, or as RC_USR_DOWN (server.c:80-89).
LEMMA AnsweringReports ==
    ASSUME ServerTypeOK, NEW t \in Offices, Shows(t), Shows(t)',
           OpenUserFifo(t) \/ LogReply(t)
    PROVE  Atomic!UserIsDown \/ Atomic!Report \/ UNCHANGED Atomic!atomic_vars
<1>1. CASE OpenUserFifo(t)
  <2>1. /\ pc[t] = "open_fifo" /\ pc'[t] \in {"write", "log"} /\ UNCHANGED <<accounts, requests, slog>>
        /\ request'[t] = request[t]
        /\ \/ reply'[t] = reply[t]
           \/ reply'[t] = [reply[t] EXCEPT !.ret_code = "RC_USR_DOWN"]
    BY <1>1 DEF OpenUserFifo, Office, ServerTypeOK, shared_vars
  <2>2. /\ atomic_accounts' = atomic_accounts /\ atomic_pending' = atomic_pending
        /\ {reply[s] : s \in Answering} = {reply[t]}
        /\ {reply[s] : s \in Answering}' = {reply'[t]}
    BY <2>1 DEF Shows, UnservedAt, AnsweringAt
  <2>3. logged_replies' = logged_replies
    BY <2>1 DEF logged_replies
  <2>4. CASE reply'[t] = reply[t]
    BY <2>2, <2>3, <2>4 DEF Atomic!atomic_vars
  <2>5. CASE reply'[t] = [reply[t] EXCEPT !.ret_code = "RC_USR_DOWN"]
    BY <2>2, <2>3, <2>5 DEF Atomic!UserIsDown
  <2>. QED
    BY <2>1, <2>4, <2>5
<1>2. CASE LogReply(t)
  <2>1. /\ pc[t] = "log" /\ pc'[t] = "unlock" /\ UNCHANGED <<accounts, requests>>
        /\ request'[t] = request[t] /\ slog' = Append(slog, <<"reply", t, reply[t]>>)
    BY <1>2 DEF LogReply, Office, Log, ServerTypeOK, locals
  <2>2. /\ atomic_accounts' = atomic_accounts /\ atomic_pending' = atomic_pending
        /\ {reply[s] : s \in Answering} = {reply[t]}
        /\ {reply[s] : s \in Answering}' = {}
    BY <2>1 DEF Shows, UnservedAt, AnsweringAt
  <2>3. /\ logged_replies' = logged_replies \cup {<<Len(slog) + 1, reply[t]>>}
        /\ \A earlier \in logged_replies : earlier[1] < Len(slog) + 1
    BY <2>1, Journal DEF ServerTypeOK
  <2>4. <<Len(slog) + 1, reply[t]>> \in logged_replies' \ logged_replies
    <3>1. Len(slog) \in Nat
      BY DEF ServerTypeOK
    <3>. QED
      BY <2>3, <3>1
  <2>. QED
    BY <2>2, <2>3, <2>4 DEF Atomic!Report
<1>. QED
  BY <1>1, <1>2

\* Every step of an office is one of the atomic bank's, or does not show.
LEMMA OfficeIsAtomic ==
    ASSUME IInv, RInv, NEW t \in Offices, OfficeStep(t)
    PROVE  Atomic!AtomicNext \/ UNCHANGED Atomic!atomic_vars
<1>. USE DEF IInv, TypeOK
<1>1. CASE pc[t] \notin Critical /\ ~LockMutex(t)
  <2>1. /\ UNCHANGED <<accounts, requests, slog>> /\ pc'[t] \notin Critical
        /\ \A s \in Offices : s # t =>
              pc'[s] = pc[s] /\ request'[s] = request[s] /\ reply'[s] = reply[s]
    BY <1>1, OutsideSteps
  <2>. QED
    BY <1>1, <2>1, Unnoticed
<1>2. CASE DieOfSigpipe(t)
  <2>1. UNCHANGED <<accounts, requests, slog, pc, request, reply>>
    BY <1>2 DEF DieOfSigpipe, shared_vars, office_vars
  <2>. QED
    BY <2>1, Unnoticed
<1>3. CASE (pc[t] \in Critical \/ LockMutex(t)) /\ ~DieOfSigpipe(t)
  <2>1. Shows(t) /\ Shows(t)'
    BY <1>3, HolderIsAlone
  <2>2. CASE BuildReply(t)
    BY <2>1, <2>2, BuildingServes DEF Atomic!AtomicNext
  <2>3. CASE InstallAccount(t)
    BY <2>1, <2>3, InstallingServes DEF Atomic!AtomicNext, RInv
  <2>4. CASE OpenUserFifo(t) \/ LogReply(t)
    BY <2>1, <2>4, AnsweringReports DEF Atomic!AtomicNext
  <2>5. CASE ~BuildReply(t) /\ ~InstallAccount(t) /\ ~OpenUserFifo(t) /\ ~LogReply(t)
    <3>1. \/ LockMutex(t) \/ TakeRequest(t) \/ LoadToMark(t) \/ Mark(t) \/ WaitSource(t)
          \/ WaitTarget(t) \/ Credit(t) \/ Debit(t) \/ InitAccountSem(t) \/ ReleaseSource(t)
          \/ ReleaseTarget(t) \/ WriteReply(t) \/ UnlockMutex(t)
      BY <1>3, <2>5 DEF OfficeStep, Loop, WaitMainSem, Woken, CloseToUsers, AnnounceExit,
                        LoadToUnmark, Unmark, LockMutex, Office, Critical
    <3>. QED
      BY <2>1, <3>1, HolderIsQuiet
  <2>. QED
    BY <2>2, <2>3, <2>4, <2>5
<1>. QED
  BY <1>1, <1>2, <1>3

-----------------------------------------------------------------------------
(* main's steps, and the theorem. *)

\* While main holds the mutex, and while no office has left its wait, the mapping shows
\* the table and the queue as they are.
LEMMA NobodyShows ==
    (\A t \in Offices : pc[t] \notin Critical) =>
        /\ atomic_accounts = accounts /\ atomic_pending = requests
        /\ {reply[s] : s \in Answering} = {}
BY DEF atomic_accounts, atomic_pending, Crediting, Debiting, Unserved, Answering, Critical

\* The same after a step.
LEMMA NobodyShowsNext ==
    ((\A t \in Offices : pc[t] \notin Critical) =>
        /\ atomic_accounts = accounts /\ atomic_pending = requests
        /\ {reply[s] : s \in Answering} = {})'
BY NobodyShows, PTL

\* main opens the bank and accepts requests; the rest of what it does does not show.
LEMMA MainIsAtomic ==
    ASSUME IInv, Early, RInv, MainStep
    PROVE  Atomic!AtomicNext \/ UNCHANGED Atomic!atomic_vars
<1>. USE DEF IInv, TypeOK
<1>1. CASE CreateAdmin
  <2>1. /\ main_pc = "admin" /\ pc' = pc /\ requests' = requests
        /\ slog' = Append(slog, <<"account", MAIN_THREAD_ID, ADMIN_ACCOUNT_ID>>)
    BY <1>1 DEF CreateAdmin, Main, Log, office_vars
  <2>2. PICK salt \in Salts :
           accounts' = create_bank_account(accounts, ADMIN_ACCOUNT_ID, AdminPassword, 0, salt)
    BY <1>1 DEF CreateAdmin
  <2>3. \A t \in Offices : pc[t] \notin Critical /\ pc'[t] \notin Critical
    BY <2>1 DEF Early, Critical
  <2>4. /\ atomic_accounts = accounts /\ atomic_pending = requests
        /\ {reply[s] : s \in Answering} = {}
    BY <2>3, NobodyShows
  <2>5. /\ atomic_accounts' = accounts' /\ atomic_pending' = requests'
        /\ {reply[s] : s \in Answering}' = {}
    BY <2>3, NobodyShowsNext
  <2>6. logged_replies' = logged_replies
    BY <2>1, Journal DEF ServerTypeOK
  <2>7. ~is_active_account(accounts, ADMIN_ACCOUNT_ID)
    BY <2>1, AdminAssumption DEF RInv, Fresh, is_active_account, EmptyAccount
  <2>8. Atomic!OpenBank
    BY <2>2, <2>4, <2>5, <2>7, SameOperators DEF Atomic!OpenBank
  <2>9. Atomic!Open
    BY <2>1, <2>4, <2>5, <2>6, <2>8 DEF Atomic!Open
  <2>. QED
    BY <2>9 DEF Atomic!AtomicNext
<1>2. CASE PushRequest
  <2>1. /\ main_pc = "push" /\ pc' = pc /\ requests' = Append(requests, incoming)
        /\ accounts' = accounts /\ slog' = slog /\ incoming \in Requests
    BY <1>2 DEF PushRequest, Main, office_vars, ServerTypeOK
  <2>2. \A t \in Offices : pc[t] \notin Critical /\ pc'[t] \notin Critical
    BY <2>1 DEF MutualExclusion, MAIN_THREAD_ID, Offices
  <2>3. /\ atomic_accounts = accounts /\ atomic_pending = requests
        /\ {reply[s] : s \in Answering} = {}
    BY <2>2, NobodyShows
  <2>4. /\ atomic_accounts' = accounts' /\ atomic_pending' = requests'
        /\ {reply[s] : s \in Answering}' = {}
    BY <2>2, NobodyShowsNext
  <2>5. logged_replies' = logged_replies
    BY <2>1 DEF logged_replies
  <2>6. Atomic!Accept(incoming)
    BY <2>1, <2>3, <2>4, <2>5 DEF Atomic!Accept
  <2>. QED
    BY <2>1, <2>6 DEF Atomic!AtomicNext
<1>3. CASE SpawnOffice
  <2>1. /\ UNCHANGED <<accounts, requests, slog, request, reply>> /\ main_pc = "spawn"
        /\ pc' = [pc EXCEPT ![cursor + 1] = "loop"]
    BY <1>3 DEF SpawnOffice, ForEachThread, shared_vars, locals
  <2>2. \A t \in Offices : pc[t] \notin Critical /\ pc'[t] \notin Critical
    BY <2>1 DEF Early, Critical, ServerTypeOK
  <2>. QED
    BY <2>1, <2>2, Unnoticed
<1>4. CASE ~CreateAdmin /\ ~PushRequest /\ ~SpawnOffice
  <2>1. UNCHANGED <<accounts, requests, slog, pc, request, reply>>
    BY <1>4 DEF MainStep, CreateServerFifo, StartOpening, FinishOpening, CheckExit,
                ReadRequest, ReadNothing, LockToPush, UnlockPushed, PostMainSem,
                WakeOffice, JoinOffice, Exit, Main, shared_vars, office_vars, flags
  <2>. QED
    BY <2>1, Unnoticed
<1>. QED
  BY <1>1, <1>2, <1>3, <1>4

\* The bank starts empty.
LEMMA StartIsAtomic == Init => Atomic!AtomicInit
<1>. SUFFICES ASSUME Init PROVE Atomic!AtomicInit
  OBVIOUS
<1>1. \A t \in Offices : pc[t] \notin Critical
  BY DEF Init, ServerInit, Critical
<1>2. atomic_accounts = [a \in AccountIds |-> EmptyAccount] /\ atomic_pending = << >>
      /\ {reply[s] : s \in Answering} = {}
  BY <1>1, NobodyShows DEF Init, ServerInit
<1>3. logged_replies = {}
  <2>1. slog = << >>
    BY DEF Init, ServerInit
  <2>2. 1 .. Len(slog) = {}
    BY <2>1
  <2>. QED
    BY <2>2 DEF logged_replies
<1>. QED
  BY <1>2, <1>3, SameOperators DEF Atomic!AtomicInit, Atomic!LedgerInit

\* The server with its offices, locks, semaphores and queue implements the atomic bank:
\* requests are served one at a time in the order main queued them (server.c:44-90, 165).
THEOREM ServerIsAtomic == Spec => ImplementsAtomicBank
<1>1. IInv /\ Early /\ RInv /\ [Next]_vars => [Atomic!AtomicNext]_(Atomic!atomic_vars)
  <2>. SUFFICES ASSUME IInv, Early, RInv, [Next]_vars
                PROVE  Atomic!AtomicNext \/ UNCHANGED Atomic!atomic_vars
    OBVIOUS
  <2>1. CASE MainRuns
    BY <2>1, MainIsAtomic DEF MainRuns
  <2>2. ASSUME NEW t \in Offices, OfficeStep(t)
        PROVE  Atomic!AtomicNext \/ UNCHANGED Atomic!atomic_vars
    BY <2>2, OfficeIsAtomic
  <2>3. CASE UNCHANGED server_vars
    <3>1. UNCHANGED <<accounts, requests, slog, pc, request, reply>>
      BY <2>3 DEF server_vars, shared_vars, office_vars
    <3>. QED
      BY <3>1, Unnoticed
  <2>. QED
    BY <2>1, <2>2, <2>3, WhoseStep
<1>. QED
  BY <1>1, StartIsAtomic, Invariant, EarlyHolds, FindingsHold, PTL
     DEF Spec, ImplementsAtomicBank, Atomic!AtomicSpec

\* So is each of its steps, which is what the run of a bank already open checks.
THEOREM StepsAreAtomic == Spec => EveryStepIsAtomic
BY ServerIsAtomic, PTL DEF ImplementsAtomicBank, EveryStepIsAtomic, Atomic!AtomicSpec
=============================================================================
