-------------------------------- MODULE User --------------------------------
(***************************************************************************)
(* The user process (Project2/source/user.c).  A process sends one request *)
(* and ends with one outcome.  It writes its request and closes the        *)
(* server's FIFO BEFORE it makes its own.                                  *)
(***************************************************************************)
EXTENDS Fifos

CONSTANT Impatient      \* the users for which 30 s of polling may go by

ASSUME ImpatientAssumption == Impatient \subseteq Pids

VARIABLES
    user,               \* where each process is
    outcome             \* the return code it logged, or "none"

user_vars == <<user, outcome>>

UserInit ==
    /\ user = [u \in Pids |-> "start"]
    /\ outcome = [u \in Pids |-> "none"]

UserTypeOK ==
    /\ user \in [Pids -> {"start", "open", "sent", "listening", "ended"}]
    /\ outcome \in [Pids -> RetCodes \cup {"none"}]

End(u, code) == user' = [user EXCEPT ![u] = "ended"] /\ outcome' = [outcome EXCEPT ![u] = code]

\* exit_handler: the user's FIFO goes, and with it what was written there unread.
RemoveUserFifo(u) ==
    /\ listeners' = listeners \ {u}
    /\ inbox' = [inbox EXCEPT ![u] = << >>]

\* What build_tlv_request may make of a command line; the pid is that of the process.
RequestsOf(u) == {request \in Requests : request.pid = u}

UserOpen(u) ==
    /\ user[u] = "start" /\ CanOpenServerFifo
    /\ user' = [user EXCEPT ![u] = "open"]
    /\ was_opened' = TRUE /\ writers' = writers \cup {u}
    /\ UNCHANGED <<outcome, server_fifo, reading, pipe, listeners, inbox>>

UserFindsServerDown(u) ==
    /\ user[u] = "start" /\ ~CanOpenServerFifo
    /\ End(u, "RC_SRV_DOWN")
    /\ UNCHANGED fifo_vars

\* write() then close().  The result of write() is not looked at: a request that
\* does not fit is lost.
UserSend(u) ==
    /\ user[u] = "open" /\ reading
    /\ user' = [user EXCEPT ![u] = "sent"]
    /\ IF Len(pipe) < PIPE_CAPACITY
       THEN \E request \in RequestsOf(u) : pipe' = Append(pipe, request)
       ELSE pipe' = pipe
    /\ writers' = writers \ {u}
    /\ UNCHANGED <<outcome, server_fifo, reading, was_opened, listeners, inbox>>

\* write() to a FIFO with no reader: SIGPIPE.
UserIsKilled(u) ==
    /\ user[u] = "open" /\ ~reading
    /\ user' = [user EXCEPT ![u] = "ended"]
    /\ writers' = writers \ {u}
    /\ UNCHANGED <<outcome, server_fifo, reading, pipe, was_opened, listeners, inbox>>

UserCreateFifo(u) ==
    /\ user[u] = "sent"
    /\ user' = [user EXCEPT ![u] = "listening"]
    /\ listeners' = listeners \cup {u}
    /\ UNCHANGED <<outcome, server_fifo, reading, pipe, was_opened, writers, inbox>>

UserReceive(u) ==
    /\ user[u] = "listening" /\ inbox[u] # << >>
    /\ End(u, Head(inbox[u]).ret_code)
    /\ RemoveUserFifo(u)
    /\ UNCHANGED <<server_fifo, reading, pipe, was_opened, writers>>

UserTimeout(u) ==
    /\ u \in Impatient /\ user[u] = "listening"
    /\ End(u, "RC_SRV_TIMEOUT")
    /\ RemoveUserFifo(u)
    /\ UNCHANGED <<server_fifo, reading, pipe, was_opened, writers>>

\* What a user process that has started does by itself.
UserRuns(u) ==
    \/ UserSend(u) \/ UserIsKilled(u)
    \/ UserCreateFifo(u)
    \/ UserReceive(u) \/ UserTimeout(u)

UserStep(u) == UserOpen(u) \/ UserFindsServerDown(u) \/ UserRuns(u)
=============================================================================
