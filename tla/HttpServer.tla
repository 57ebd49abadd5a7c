------------------------------ MODULE HttpServer ------------------------------
(***************************************************************************)
(* The server of the plots (tools/viz/http_server.cpp): one thread around  *)
(* select, a table of connections, and the two loops that drive it, Serve  *)
(* and ServeOnce.  Browsers are the environment: they connect, send their  *)
(* request in pieces and may hang up at any point.                         *)
(***************************************************************************)
EXTENDS Integers, Sequences, FiniteSets, FiniteSetsExt

CONSTANTS Browsers, Kinds,   \* who connects; what each may ask for
          Modes,             \* the loops tried, of "Serve" and "ServeOnce"
          HeaderPieces,      \* pieces up to the blank line that ends a request
          TooLarge,          \* pieces that make max_request_size
          Nobody0            \* no browser

ASSUME HttpServerAssumption ==
    /\ IsFiniteSet(Browsers) /\ Nobody0 \notin Browsers
    /\ HeaderPieces \in Nat \ {0} /\ TooLarge \in Nat /\ TooLarge > HeaderPieces
    /\ Modes \subseteq {"Serve", "ServeOnce"}
    /\ Kinds \subseteq {"GET", "POST", "endless"}

server_fd == 3
Fds == server_fd + 1..server_fd + Cardinality(Browsers)

VARIABLES mode, loop,    \* the loop that runs and where it stands
          read_fds,    \* what select left set, not handled yet
          alone,       \* activity == 1
          max_fd,
          backlog,     \* connections not accepted yet
          fdOf,        \* clients_: the browser behind each descriptor
          kind, sent, hungUp,    \* of each browser
          read,        \* pieces in each browser's request_buffer_
          complete,    \* request_complete of each browser
          link,        \* each connection: away, open, closed
          answers      \* responses sent to each browser

serverVars == <<mode, loop, read_fds, alone, max_fd, backlog, fdOf, kind, sent,
                hungUp, read, complete, link, answers>>
browserVars == <<kind, sent, hungUp>>
tableVars == <<fdOf, read, complete, link, answers>>

ServerInit ==
    /\ mode \in Modes /\ loop = "select" /\ read_fds = {} /\ alone = FALSE
    /\ max_fd = server_fd /\ backlog = <<>>
    /\ fdOf = [fd \in Fds |-> Nobody0]
    /\ kind \in [Browsers -> Kinds]
    /\ sent = [b \in Browsers |-> 0] /\ hungUp = [b \in Browsers |-> FALSE]
    /\ read = [b \in Browsers |-> 0] /\ complete = [b \in Browsers |-> FALSE]
    /\ link = [b \in Browsers |-> "away"] /\ answers = [b \in Browsers |-> 0]

clients_ == {fd \in Fds : fdOf[fd] # Nobody0}

(***************************************************************************)
(* The browsers.                                                           *)
(***************************************************************************)
Connect(b) ==
    /\ link[b] = "away"
    /\ link' = [link EXCEPT ![b] = "open"] /\ backlog' = Append(backlog, b)
    /\ UNCHANGED <<mode, loop, read_fds, alone, max_fd, fdOf, browserVars, read, complete, answers>>

Pieces(b) == IF kind[b] = "endless" THEN TooLarge ELSE HeaderPieces

Send(b) ==
    /\ link[b] = "open" /\ ~hungUp[b] /\ sent[b] < Pieces(b)
    /\ sent' = [sent EXCEPT ![b] = @ + 1]
    /\ UNCHANGED <<mode, loop, read_fds, alone, max_fd, backlog, kind, hungUp, tableVars>>

HangUp(b) ==
    /\ link[b] = "open" /\ ~hungUp[b]
    /\ hungUp' = [hungUp EXCEPT ![b] = TRUE]
    /\ UNCHANGED <<mode, loop, read_fds, alone, max_fd, backlog, kind, sent, tableVars>>

(***************************************************************************)
(* One turn of the loop: select, at most one accept, then every descriptor *)
(* select reported, in the order of the table.                             *)
(***************************************************************************)
Readable(fd) ==
    IF fd = server_fd THEN backlog # <<>>
    ELSE fd \in clients_ /\ (sent[fdOf[fd]] > read[fdOf[fd]] \/ hungUp[fdOf[fd]])

MaxFd_ServerOnly == server_fd      \* mutant of MaxFd
(* Serve starts over from the listening socket, ServeOnce never lowers it. *)
MaxFd == Max(clients_ \cup {IF mode = "Serve" THEN server_fd ELSE max_fd})

(* ServeOnce's loop test: no client of the table has a complete request.   *)
KeepsServing == mode = "Serve" \/ \A fd \in clients_ : ~complete[fdOf[fd]]

Select ==
    /\ loop = "select"
    /\ max_fd' = MaxFd
    /\ read_fds' = {fd \in clients_ \cup {server_fd} : fd <= MaxFd /\ Readable(fd)}
    /\ read_fds' # {}       \* otherwise the second passes and select is called again
    /\ alone' = (Cardinality(read_fds') = 1)
    /\ loop' = IF server_fd \in read_fds' THEN "accept" ELSE "handle"
    /\ UNCHANGED <<mode, backlog, browserVars, tableVars>>

(* accept gives the lowest descriptor that is free.  ServeOnce leaves when *)
(* this connection is the only event and the only client.                  *)
AcceptClient ==
    LET fd == Min(Fds \ clients_)
        b == Head(backlog)
    IN  /\ loop = "accept"
        /\ fdOf' = [fdOf EXCEPT ![fd] = b] /\ backlog' = Tail(backlog)
        /\ read_fds' = read_fds \ {server_fd}
        /\ loop' = IF mode = "ServeOnce" /\ alone /\ clients_ = {} THEN "stopped" ELSE "handle"
        /\ UNCHANGED <<mode, alone, max_fd, browserVars, read, complete, link, answers>>

CloseClient(fd) ==
    /\ fdOf' = [fdOf EXCEPT ![fd] = Nobody0]
    /\ link' = [link EXCEPT ![fdOf[fd]] = "closed"]

Respond(b) == answers' = IF kind[b] = "GET" THEN [answers EXCEPT ![b] = @ + 1] ELSE answers

(* recv takes any part of what has arrived; nothing more and a hung-up     *)
(* browser is the end of the connection.                                   *)
HandleClientData_EveryPiece(fd) ==    \* mutant of HandleClientData
    LET b == fdOf[fd]
    IN  \/ /\ sent[b] > read[b]
           /\ \E n \in read[b] + 1..sent[b] :
                  /\ read' = [read EXCEPT ![b] = n]
                  /\ UNCHANGED complete
                  /\ Respond(b)
                  /\ IF n >= HeaderPieces THEN CloseClient(fd) ELSE UNCHANGED <<fdOf, link>>
        \/ /\ sent[b] = read[b] /\ hungUp[b] /\ CloseClient(fd)
           /\ UNCHANGED <<read, complete, answers>>

HandleClientData(fd) ==
    LET b == fdOf[fd]
        terminated(n) == kind[b] # "endless" /\ n >= HeaderPieces
    IN  \/ /\ sent[b] > read[b] /\ ~complete[b]
           /\ \E n \in read[b] + 1..sent[b] :
                  /\ read' = [read EXCEPT ![b] = n]
                  /\ complete' = [complete EXCEPT ![b] = terminated(n)]
                  /\ IF terminated(n) THEN Respond(b) ELSE UNCHANGED answers
                  /\ IF terminated(n) \/ n >= TooLarge
                     THEN CloseClient(fd) ELSE UNCHANGED <<fdOf, link>>
        \/ /\ sent[b] = read[b] /\ hungUp[b] /\ CloseClient(fd)
           /\ UNCHANGED <<read, complete, answers>>

Handle ==
    /\ loop = "handle" /\ read_fds # {}
    /\ HandleClientData(Min(read_fds))
    /\ read_fds' = read_fds \ {Min(read_fds)}
    /\ UNCHANGED <<mode, loop, alone, max_fd, backlog, browserVars>>

NextTurn ==
    /\ loop = "handle" /\ read_fds = {}
    /\ loop' = IF KeepsServing THEN "select" ELSE "stopped"
    /\ UNCHANGED <<mode, read_fds, alone, max_fd, backlog, browserVars, tableVars>>

TheServer == Select \/ AcceptClient \/ Handle \/ NextTurn
ServerNext == TheServer \/ \E b \in Browsers : Connect(b) \/ Send(b) \/ HangUp(b)
ServerSpec == ServerInit /\ [][ServerNext]_serverVars /\ WF_serverVars(TheServer)

-----------------------------------------------------------------------------
(* However requests arrive in pieces and connections reuse descriptors, a  *)
(* browser is answered at most once, only for a GET that arrived whole, and*)
(* its connection is closed with the answer; the table holds the open      *)
(* connections that were accepted, each behind one descriptor.             *)
AnswersAreDue ==
    /\ \A b \in Browsers :
           /\ answers[b] \in {0, 1}
           /\ answers[b] = 1 => /\ kind[b] = "GET" /\ read[b] = HeaderPieces
                                /\ link[b] = "closed"
           /\ link[b] = "open" => Cardinality({fd \in Fds : fdOf[fd] = b}) =
                                  IF \E i \in DOMAIN backlog : backlog[i] = b THEN 0 ELSE 1
    /\ read_fds \ {server_fd} \subseteq clients_

(* Serve gives every browser that sent its whole request, and every one    *)
(* that hung up, an end: the connection is closed, after an answer if the  *)
(* request was a GET.                                                      *)
EveryRequestEnds ==
    \A b \in Browsers :
        mode = "Serve" /\ link[b] = "open" /\ (sent[b] = Pieces(b) \/ hungUp[b])
            ~> link[b] = "closed" /\ (kind[b] = "GET" /\ sent[b] = HeaderPieces => answers[b] = 1)

(* "Serve a single HTML response and then stop." *)
StopsAfterServing == loop = "stopped" => \E b \in Browsers : answers[b] = 1
=============================================================================
