------------------------------- MODULE Fifos -------------------------------
(***************************************************************************)
(* The named pipes that users and server talk through: the server's, which *)
(* every user writes one request to, and one per user, which the server    *)
(* writes the reply to.  External: this is the operating system, seen from *)
(* the calls Project2/source makes.                                        *)
(***************************************************************************)
EXTENDS Banking

CONSTANTS
    Requests,           \* the requests users may send
    PIPE_CAPACITY       \* requests a pipe holds: 64 KiB / sizeof(tlv_request_t)

ASSUME RequestsAssumption ==
    /\ Requests \subseteq Request /\ Requests # {}
    /\ \A u \in Pids : \E request \in Requests : request.pid = u
ASSUME CapacityAssumption == PIPE_CAPACITY \in Nat \ {0}

VARIABLES
    server_fifo,        \* its directory entry: "absent", "writable" or "readonly"
    reading,            \* the server has its end open (or is blocked opening it)
    pipe,               \* the requests in it, oldest first
    was_opened,         \* some user has opened it for writing since it was made
    writers,            \* those that have it open
    listeners,          \* the users whose own FIFO exists, open for reading
    inbox               \* what has been written to each user's FIFO

fifo_vars == <<server_fifo, reading, pipe, was_opened, writers, listeners, inbox>>

FifosInit ==
    /\ server_fifo = "absent" /\ reading = FALSE /\ pipe = << >>
    /\ was_opened = FALSE /\ writers = {} /\ listeners = {}
    /\ inbox = [u \in Pids |-> << >>]

FifosTypeOK ==
    /\ server_fifo \in {"absent", "writable", "readonly"} /\ reading \in BOOLEAN
    /\ pipe \in Seq(Requests)
    /\ was_opened \in BOOLEAN
    /\ writers \subseteq Pids /\ listeners \subseteq Pids
    /\ inbox \in [Pids -> Seq(Reply)]

\* open(SERVER_FIFO_PATH, O_WRONLY | O_NONBLOCK) succeeds: ENOENT, EACCES and ENXIO
\* are the ways it may fail.
CanOpenServerFifo == server_fifo = "writable" /\ reading

\* read(server_fifo_fd) returns 0.
EndOfFile == pipe = << >> /\ writers = {}

\* The last reader is gone, and what nobody read with it.
CloseServerFifo == reading' = FALSE /\ pipe' = << >>
=============================================================================
