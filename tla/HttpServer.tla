----------------------------- MODULE HttpServer -----------------------------
(***************************************************************************)
(* Connections and sessions: Listener, SessionBase and Session of          *)
(* src/src/http_server.h and http_server.cpp.                              *)
(*                                                                         *)
(* One thread runs the io_context (main.cpp), so a completion handler runs *)
(* to its end: the request handler is called and its answer handed to      *)
(* async_write within OnRead, for requests to the API too, which dispatch  *)
(* runs on the spot because nothing else can hold the strand.  Clients     *)
(* send as many requests as they like without waiting (pipelining), stop   *)
(* sending, stop reading or vanish.                                        *)
(***************************************************************************)
EXTENDS Naturals

CONSTANTS
    Conns,          \* connections that clients open
    MaxRequests,    \* bound on the requests of a connection
    AcceptMayFail   \* accept may report an error

ASSUME RequestsAssumption == MaxRequests \in Nat
ASSUME AcceptAssumption   == AcceptMayFail \in BOOLEAN

VARIABLES
    running,     \* the io_context runs
    accepting,   \* an async_accept is under way
    backlog,     \* connections the system holds for the listener
    state,       \* of a session: none, opened, reading, writing, over
    timed,       \* stream_.expires_after has been called
    sent,        \* requests the client has sent
    ended,       \* the client sends no more
    read,        \* requests read
    answered,    \* responses written
    wantEof,     \* need_eof of the response that is being written
    cut,         \* ghost: ended by an error, a time-out or the response itself
    failed       \* ghost: accept reported an error

client  == <<sent, ended>>
session == <<state, timed, read, answered, wantEof, cut>>
vars    == <<running, accepting, backlog, client, session, failed>>

States == {"none", "opened", "reading", "writing", "over"}

-----------------------------------------------------------------------------
(* The clients.                                                            *)

Connect(c) ==
    /\ state[c] = "none" /\ c \notin backlog
    /\ backlog' = backlog \cup {c}
    /\ UNCHANGED <<running, accepting, client, session, failed>>

Send(c) ==
    /\ c \in backlog \/ state[c] # "none"
    /\ ~ended[c] /\ sent[c] < MaxRequests
    /\ sent' = [sent EXCEPT ![c] = sent[c] + 1]
    /\ UNCHANGED <<running, accepting, backlog, ended, session, failed>>

EndSending(c) ==
    /\ c \in backlog \/ state[c] # "none"
    /\ ~ended[c]
    /\ ended' = [ended EXCEPT ![c] = TRUE]
    /\ UNCHANGED <<running, accepting, backlog, sent, session, failed>>

-----------------------------------------------------------------------------
(* The listener.                                                           *)

DoAccept_FaultyOnce == accepting' = FALSE
DoAccept == accepting' = TRUE

\* OnAccept without an error: the session is made and its Run dispatched to the
\* strand of its socket; DoAccept again.
OnAccept(c) ==
    /\ running /\ accepting /\ c \in backlog
    /\ backlog' = backlog \ {c}
    /\ state' = [state EXCEPT ![c] = "opened"]
    /\ DoAccept
    /\ UNCHANGED <<running, client, timed, read, answered, wantEof, cut, failed>>

\* OnAccept with an error reports it, and does not accept again.
OnAcceptError ==
    /\ running /\ accepting /\ AcceptMayFail
    /\ accepting' = FALSE /\ failed' = TRUE
    /\ UNCHANGED <<running, backlog, client, session>>

-----------------------------------------------------------------------------
(* A session.                                                              *)

\* SessionBase::Read: what was read beyond one request stays in buffer_.
Read_FaultyNoTimeout(c) ==
    state' = [state EXCEPT ![c] = "reading"] /\ timed' = timed
Read(c) ==
    state' = [state EXCEPT ![c] = "reading"] /\ timed' = [timed EXCEPT ![c] = TRUE]

Close(c) == state' = [state EXCEPT ![c] = "over"] /\ timed' = timed

\* A session that nothing refers to any more: its socket is closed.
Drop(c) == Close(c) /\ cut' = [cut EXCEPT ![c] = TRUE]

Run(c) ==
    /\ running /\ state[c] = "opened"
    /\ Read(c)
    /\ UNCHANGED <<running, accepting, backlog, client, read, answered, wantEof, cut, failed>>

\* HandleRequest ends in async_write; async_read is not called.
AfterRead_FaultyReadsOn == "reading"
AfterRead == "writing"

\* A whole request has come in.  Its answer closes the connection or not: most do
\* as the request asks, the error pages of the file handler leave it open.
OnRead(c, close) ==
    /\ running /\ state[c] = "reading" /\ read[c] < sent[c]
    /\ read' = [read EXCEPT ![c] = read[c] + 1]
    /\ state' = [state EXCEPT ![c] = AfterRead]
    /\ wantEof' = [wantEof EXCEPT ![c] = close]
    /\ UNCHANGED <<running, accepting, backlog, client, timed, answered, cut, failed>>

\* The handler throws out of OnRead, io_context::run and main.
HandlerThrows(c) ==
    /\ running /\ state[c] = "reading" /\ read[c] < sent[c]
    /\ running' = FALSE
    /\ UNCHANGED <<accepting, backlog, client, session, failed>>

\* end_of_stream: the client sends no more and the buffer is empty.
AtEnd_FaultyUnread(c) == ended[c]
AtEnd(c) == ended[c] /\ read[c] = sent[c]

OnReadEnd(c) ==
    /\ running /\ state[c] = "reading" /\ AtEnd(c)
    /\ Close(c)
    /\ UNCHANGED <<running, accepting, backlog, client, read, answered, wantEof, cut, failed>>

\* OnWrite: close when the response says so, else read on.
OnWrite(c) ==
    /\ running /\ state[c] = "writing"
    /\ answered' = [answered EXCEPT ![c] = answered[c] + 1]
    /\ IF wantEof[c] THEN Drop(c) ELSE Read(c) /\ cut' = cut
    /\ UNCHANGED <<running, accepting, backlog, client, read, wantEof, failed>>

\* The 30 seconds that Read allowed are over, while a request is awaited or its
\* answer written: OnRead and OnWrite report the error and let the session go.
TimeOut(c) ==
    /\ running /\ state[c] \in {"reading", "writing"} /\ timed[c]
    /\ Drop(c)
    /\ UNCHANGED <<running, accepting, backlog, client, read, answered, wantEof, failed>>

\* Any other error of the socket.
Reset(c) ==
    /\ running /\ state[c] \in {"reading", "writing"}
    /\ Drop(c)
    /\ UNCHANGED <<running, accepting, backlog, client, read, answered, wantEof, failed>>

\* SIGINT or SIGTERM.
Stop ==
    /\ running
    /\ running' = FALSE
    /\ UNCHANGED <<accepting, backlog, client, session, failed>>

-----------------------------------------------------------------------------
Init ==
    /\ running = TRUE /\ accepting = TRUE /\ backlog = {}
    /\ state = [c \in Conns |-> "none"] /\ timed = [c \in Conns |-> FALSE]
    /\ sent = [c \in Conns |-> 0] /\ ended = [c \in Conns |-> FALSE]
    /\ read = [c \in Conns |-> 0] /\ answered = [c \in Conns |-> 0]
    /\ wantEof = [c \in Conns |-> FALSE] /\ cut = [c \in Conns |-> FALSE]
    /\ failed = FALSE

Next ==
    \/ \E c \in Conns : Connect(c) \/ Send(c) \/ EndSending(c)
    \/ \E c \in Conns : OnAccept(c)
    \/ OnAcceptError
    \/ \E c \in Conns : Run(c)
    \/ \E c \in Conns, close \in BOOLEAN : OnRead(c, close)
    \/ \E c \in Conns : HandlerThrows(c)
    \/ \E c \in Conns : OnReadEnd(c)
    \/ \E c \in Conns : OnWrite(c)
    \/ \E c \in Conns : TimeOut(c)
    \/ \E c \in Conns : Reset(c)
    \/ Stop

\* The io_context runs what is ready, and timers expire.  Nothing is assumed of
\* the clients: not that they send a whole request, nor that they read the answer.
Fairness ==
    \A c \in Conns : WF_vars(OnAccept(c)) /\ WF_vars(Run(c)) /\ WF_vars(TimeOut(c))

Spec == Init /\ [][Next]_vars /\ Fairness

-----------------------------------------------------------------------------
(* Properties.                                                             *)

TypeOK ==
    /\ running \in BOOLEAN /\ accepting \in BOOLEAN /\ backlog \subseteq Conns
    /\ state \in [Conns -> States] /\ timed \in [Conns -> BOOLEAN]
    /\ sent \in [Conns -> Nat] /\ ended \in [Conns -> BOOLEAN]
    /\ read \in [Conns -> Nat] /\ answered \in [Conns -> Nat]
    /\ wantEof \in [Conns -> BOOLEAN] /\ cut \in [Conns -> BOOLEAN]
    /\ failed \in BOOLEAN

\* A session answers one request after the other, in their order: it reads the next
\* one when the answer to the last is written, however many have come in.
OneAtATime ==
    \A c \in Conns :
        /\ read[c] <= sent[c]
        /\ state[c] = "writing" => read[c] = answered[c] + 1
        /\ state[c] \in {"none", "opened", "reading"} => read[c] = answered[c]

\* A session that comes to its natural end has answered every request of the client,
\* also those the client sent ahead before it stopped sending.
AllAnswered ==
    \A c \in Conns : (state[c] = "over" /\ ~cut[c]) => answered[c] = sent[c]

\* Every connection that waits gets a session, however many others do, unless
\* accept has reported an error: then the listener is gone for good.
GetsSession ==
    \A c \in Conns : c \in backlog ~> (c \notin backlog \/ failed \/ ~running)

\* No session stays forever: a client that goes silent, or does not read, is let go.
SessionsEnd ==
    \A c \in Conns : state[c] # "none" ~> (state[c] = "over" \/ ~running)

=============================================================================
