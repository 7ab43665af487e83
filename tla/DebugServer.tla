---------------------------- MODULE DebugServer ----------------------------
(***************************************************************************)
(* OAG::DebugServer (DebugServer.mm): a listening socket, a list of client *)
(* connections, and a dispatch source on the main queue for each of them.  *)
(* All of its code runs on the main thread: the API calls, the dispatch    *)
(* handlers, and run, which serves the same sockets from a select loop     *)
(* while the main queue waits.  The clients are other processes.  They act *)
(* between any two steps, and in particular while the handler of one of    *)
(* them is blocked in a read: every blocking call is a state of "main".    *)
(*                                                                         *)
(* A listening socket is named by the object that opened it, a connection  *)
(* by its client.  A read or write is one step here (BlockingIO has its    *)
(* byte counts), but one that came in two pieces may move too much: line   *)
(* 290 asks for count + offset bytes.  What such a read takes from the     *)
(* stream is modelled; what it writes behind its buffer is not.            *)
(***************************************************************************)
EXTENDS Naturals, Sequences, FiniteSets, SequencesExt

CONSTANTS
  Server,         \* the objects that may hold a server
  Client,
  Command,        \* the commands that clients send ...
  Answered,       \* ... and those that receive() answers: the profiler's
  None,
  MaxRequests,    \* bound: requests of a client ...
  MaxTotal,       \* ... and of all of them
  MaxStarts,      \* bound: servers constructed
  MaxMoves,       \* bound: servers moved to another object
  Backlog         \* the length given to listen(): 5 in the code

ASSUME DebugServerAssumption ==
  /\ Answered \subseteq Command
  /\ None \notin Server \cup Client \cup Command
  /\ Command \cap {"header", "stranger", "rest"} = {}
  /\ {MaxRequests, MaxTotal, MaxStarts, MaxMoves, Backlog} \subseteq Nat

VARIABLES
  alive,      \* the objects that are constructed
  shared,     \* _shared_server
  sockfd,     \* the listening socket an object holds, or None (-1)
  source,     \* the context of the accept source it holds, or None
  conns,      \* its connections, in the order of the vector
  serverOf,   \* the server pointer of a connection, None if there is none
  backlog,    \* the clients that wait on a listening socket
  peer,       \* the client's end: not connected yet, up, or hung up
  inbox,      \* what the server has not read: headers, commands, and what
              \* a read has left of one
  asked,      \* the commands sent by the client so far
  owing,      \* the clients that sent a header and not yet its command
  lost,       \* those whose stream a read or write has put out of step
  outbox,     \* the replies written to it
  main,       \* what the main thread does
  run,        \* the loop of run(), if it is active
  starts,     \* servers constructed
  moves,      \* servers moved
  fault       \* the server has done what C leaves undefined

objects == <<alive, shared, sockfd, source, starts, moves>>
clients == <<peer, asked, owing>>
streams == <<inbox, outbox, lost>>
vars == <<alive, shared, sockfd, source, conns, serverOf, backlog, peer, inbox,
          asked, owing, lost, outbox, main, run, starts, moves, fault>>

-----------------------------------------------------------------------------
Idle == [at |-> "idle", client |-> None, command |-> None]
Handling(at, c, k) == [at |-> at, client |-> c, command |-> k]

NotRunning == [server |-> None, todo |-> {}, i |-> 1, accepted |-> FALSE, forever |-> FALSE,
               again |-> FALSE]

Init ==
  /\ alive = {} /\ shared = None
  /\ sockfd = [s \in Server |-> None]
  /\ source = [s \in Server |-> None]
  /\ conns = [s \in Server |-> <<>>]
  /\ serverOf = [c \in Client |-> None]
  /\ backlog = [s \in Server |-> <<>>]
  /\ peer = [c \in Client |-> "off"]
  /\ inbox = [c \in Client |-> <<>>]
  /\ asked = [c \in Client |-> <<>>]
  /\ outbox = [c \in Client |-> <<>>]
  /\ owing = {} /\ lost = {}
  /\ main = Idle /\ run = NotRunning
  /\ starts = 0 /\ moves = 0
  /\ fault = FALSE

\* After a step that C leaves undefined, or once two objects hold the same
\* connections, the model stops.
Defined ==
  /\ ~fault
  /\ \A s, t \in alive : s # t => ToSet(conns[s]) \cap ToSet(conns[t]) = {}

\* The main thread has returned to its queue.
AtQueue == main = Idle /\ run = NotRunning /\ Defined

Listening == {sockfd[s] : s \in alive} \ {None}

-----------------------------------------------------------------------------
(* Clients: other processes, any time.                                     *)

\* The server's end of the connection exists: accepted, or still queued.
Joined(c) == serverOf[c] # None \/ \E s \in Server : c \in ToSet(backlog[s])

Connect(c) ==
  /\ peer[c] = "off"
  /\ \E s \in Listening :
       /\ Len(backlog[s]) < Backlog
       /\ backlog' = [backlog EXCEPT ![s] = Append(@, c)]
  /\ peer' = [peer EXCEPT ![c] = "up"]
  /\ UNCHANGED <<objects, conns, serverOf, streams, asked, owing, main, run, fault>>

\* The requests of all clients, those of which only the header was sent included.
Requests == Cardinality(UNION {{c} \X DOMAIN asked[c] : c \in Client}) + Cardinality(owing)

\* A message is a header and a command.  A "stranger" is a header that ends the
\* connection by itself: its token is not the URL's, or its length is zero, so
\* that receive() gets no JSON.
SendHeader(c) ==
  /\ peer[c] = "up" /\ Joined(c) /\ c \notin owing
  /\ Len(asked[c]) < MaxRequests /\ Requests < MaxTotal
  /\ "stranger" \notin ToSet(inbox[c])
  /\ \/ /\ inbox' = [inbox EXCEPT ![c] = Append(@, "header")]
        /\ owing' = owing \cup {c}
     \/ /\ inbox' = [inbox EXCEPT ![c] = Append(@, "stranger")]
        /\ UNCHANGED owing
  /\ UNCHANGED <<objects, conns, serverOf, backlog, peer, asked, lost, outbox, main, run, fault>>

SendCommand(c) ==
  /\ peer[c] = "up" /\ Joined(c) /\ c \in owing
  /\ \E k \in Command :
       /\ inbox' = [inbox EXCEPT ![c] = Append(@, k)]
       /\ asked' = [asked EXCEPT ![c] = Append(@, k)]
  /\ owing' = owing \ {c}
  /\ UNCHANGED <<objects, conns, serverOf, backlog, peer, lost, outbox, main, run, fault>>

HangUp(c) ==
  /\ peer[c] = "up"
  /\ peer' = [peer EXCEPT ![c] = "down"]
  /\ UNCHANGED <<objects, conns, serverOf, backlog, streams, asked, owing, main, run, fault>>

-----------------------------------------------------------------------------
(* Construction, destruction and moves, called from the main thread.       *)

\* The constructor.  With "up" false the socket could not be created, bound or
\* listened to: the object exists all the same.
Constructed(s, up) ==
  /\ s \notin alive /\ starts < MaxStarts
  /\ \A t \in alive : sockfd[t] # s /\ source[t] # s
  /\ alive' = alive \cup {s}
  /\ sockfd' = [sockfd EXCEPT ![s] = IF up THEN s ELSE None]
  /\ source' = [source EXCEPT ![s] = IF up THEN s ELSE None]
  /\ conns' = [conns EXCEPT ![s] = <<>>]
  /\ starts' = starts + 1
  /\ UNCHANGED <<serverOf, backlog, clients, streams, main, run, moves, fault>>

Construct(s) ==
  /\ AtQueue
  /\ \E up \in BOOLEAN : Constructed(s, up)
  /\ UNCHANGED shared

\* start() stores the object whatever became of its socket.
Start(s) ==
  /\ AtQueue
  /\ shared = None
  /\ \E up \in BOOLEAN : Constructed(s, up)
  /\ shared' = s

\* shutdown() closes the listening socket, which resets the clients queued on
\* it, and forgets the accept source.  It leaves the connections alone.
ShutdownLeaves(s) ==
  /\ sockfd' = [sockfd EXCEPT ![s] = None]
  /\ source' = [source EXCEPT ![s] = None]
  /\ backlog' = IF sockfd[s] = None THEN backlog ELSE [backlog EXCEPT ![sockfd[s]] = <<>>]

\* ... and the loop in the destructor resets every connection.
Disconnected(s) == [c \in Client |-> IF c \in ToSet(conns[s]) THEN None ELSE serverOf[c]]

Shutdown(s) ==
  /\ AtQueue /\ s \in alive
  /\ ShutdownLeaves(s)
  /\ UNCHANGED <<alive, shared, conns, serverOf, clients, streams, main, run, starts, moves,
                 fault>>

Destructor(s) ==
  /\ ShutdownLeaves(s)
  /\ alive' = alive \ {s}
  /\ serverOf' = Disconnected(s)
  /\ conns' = [conns EXCEPT ![s] = <<>>]
  /\ UNCHANGED <<clients, streams, main, run, starts, moves, fault>>

Destroy(s) ==
  /\ AtQueue /\ s \in alive /\ s # shared
  /\ Destructor(s)
  /\ UNCHANGED shared

SharedReset == None

Stop ==
  /\ AtQueue /\ shared # None
  /\ Destructor(shared)
  /\ shared' = SharedReset

\* mutant: the object moved from keeps its socket.
SocketKept(s, t) == [sockfd EXCEPT ![t] = sockfd[s]]

\* What both moves take from the other object.  OAG::vector has no move
\* constructor, so that moving the connections copies the vector, and the
\* source keeps its context.
SocketTaken(s, t) == [sockfd EXCEPT ![t] = sockfd[s], ![s] = None]

Taken(s, t) ==
  /\ sockfd' = SocketTaken(s, t)
  /\ source' = [source EXCEPT ![t] = source[s], ![s] = None]
  /\ conns' = [conns EXCEPT ![t] = conns[s]]
  /\ moves' = moves + 1
  /\ UNCHANGED <<shared, clients, streams, main, run, starts, fault>>

MoveConstruct(s, t) ==
  /\ AtQueue /\ moves < MaxMoves
  /\ s \in alive /\ t \notin alive /\ s # shared
  /\ \A u \in alive : sockfd[u] # t
  /\ Taken(s, t)
  /\ alive' = alive \cup {t}
  /\ UNCHANGED <<serverOf, backlog>>

MoveAssign(s, t) ==
  /\ AtQueue /\ moves < MaxMoves
  /\ {s, t} \subseteq alive /\ s # t /\ shared \notin {s, t}
  /\ Taken(s, t)
  /\ backlog' = IF sockfd[t] = None THEN backlog ELSE [backlog EXCEPT ![sockfd[t]] = <<>>]
  /\ serverOf' = Disconnected(t)
  /\ UNCHANGED alive

-----------------------------------------------------------------------------
(* Accepting.                                                              *)

\* accept() gives the first client in the queue, or fails and leaves it there.
Accepted(s, succeeds) ==
  LET c == Head(backlog[sockfd[s]])
  IN IF succeeds
     THEN /\ backlog' = [backlog EXCEPT ![sockfd[s]] = Tail(@)]
          /\ conns' = [conns EXCEPT ![s] = Append(@, c)]
          /\ serverOf' = [serverOf EXCEPT ![c] = s]
     ELSE UNCHANGED <<backlog, conns, serverOf>>

\* The dispatch event of the accept source that s holds, which watches the
\* socket that its context opened.  accept_handler runs on that context: after
\* a move it is the object moved from, which may be gone, have no socket, so
\* that accept(-1) fails, or have got another one.  accept() waits for a client;
\* the model lets the thread do other things until there is one.
AcceptEvent(s) ==
  LET context == source[s]
  IN /\ AtQueue
     /\ context # None /\ backlog[context] # <<>>
     /\ \/ /\ context \notin alive
           /\ fault' = TRUE
           /\ UNCHANGED <<backlog, conns, serverOf>>
        \/ /\ context \in alive /\ sockfd[context] # None
           /\ backlog[sockfd[context]] # <<>>
           /\ \E succeeds \in BOOLEAN : Accepted(context, succeeds)
           /\ UNCHANGED fault
        \/ /\ context \in alive /\ sockfd[context] = None
           /\ UNCHANGED <<backlog, conns, serverOf, fault>>
     /\ UNCHANGED <<objects, clients, streams, main, run>>

-----------------------------------------------------------------------------
(* Connection::handler, one state for each of its blocking calls.          *)

Readable(c) == inbox[c] # <<>> \/ peer[c] = "down"

\* mutant: the last connection is dropped, whichever was closed.
ClosedLast(list, c) == Front(list)

\* close_connection: the last connection takes the place of this one.
Closed(list, c) ==
  LET i == CHOOSE j \in DOMAIN list : list[j] = c
  IN Front([list EXCEPT ![i] = Last(list)])

CloseConnection(c) ==
  /\ conns' = [conns EXCEPT ![serverOf[c]] = Closed(@, c)]
  /\ serverOf' = [serverOf EXCEPT ![c] = None]
  /\ main' = Idle

\* The dispatch event of a connection's source.
HandlerEvent(c) ==
  /\ AtQueue
  /\ serverOf[c] # None /\ Readable(c)
  /\ main' = Handling("header", c, None)
  /\ UNCHANGED <<objects, conns, serverOf, backlog, clients, streams, run, fault>>

\* read() returns what there is to read, or 0 after the client hung up.
EndOfFile(c) == inbox[c] = <<>> /\ peer[c] = "down"

\* blocking_read takes the part in front.  One that came in two pieces may take
\* more of what is there: the parts up to the j-th, of which a rest may stay.
Read(c) ==
  \/ /\ inbox' = [inbox EXCEPT ![c] = Tail(@)]
     /\ UNCHANGED lost
  \/ /\ \E j \in 2..Len(inbox[c]), cut \in {<<>>, <<"rest">>} :
          inbox' = [inbox EXCEPT ![c] = cut \o SubSeq(@, j + 1, Len(@))]
     /\ lost' = lost \cup {c}

\* mutant: the handler returns and the connection stays.
ReadFailedKeeps(c) ==
  /\ EndOfFile(c)
  /\ main' = Idle
  /\ UNCHANGED <<conns, serverOf, inbox, lost>>

\* blocking_read failed: the handler closes the connection.
ReadFailed(c) ==
  /\ EndOfFile(c)
  /\ CloseConnection(c)
  /\ UNCHANGED <<inbox, lost>>

\* The rest of a part, or a command, has no header's token.
ReadHeader ==
  LET c == main.client
  IN /\ main.at = "header"
     /\ \/ /\ inbox[c] # <<>> /\ Head(inbox[c]) = "header"
           /\ Read(c)
           /\ main' = Handling("payload", c, None)
           /\ UNCHANGED <<conns, serverOf>>
        \/ /\ inbox[c] # <<>> /\ Head(inbox[c]) # "header"
           /\ Read(c)
           /\ CloseConnection(c)
        \/ ReadFailed(c)
     /\ UNCHANGED <<objects, backlog, clients, outbox, run, fault>>

\* receive() answers the profiler's commands; a description is null, and what is
\* no JSON.
ReadPayload ==
  LET c == main.client
  IN /\ main.at = "payload"
     /\ \/ /\ inbox[c] # <<>> /\ Head(inbox[c]) \in Answered
           /\ Read(c)
           /\ main' = Handling("reply", c, Head(inbox[c]))
           /\ UNCHANGED <<conns, serverOf>>
        \/ /\ inbox[c] # <<>> /\ Head(inbox[c]) \notin Answered
           /\ Read(c)
           /\ CloseConnection(c)
        \/ ReadFailed(c)
     /\ UNCHANGED <<objects, backlog, clients, outbox, run, fault>>

\* mutant: the reply is written twice.
WrittenTwice(c, k) == outbox' = [outbox EXCEPT ![c] = @ \o <<k, k>>]

Written(c, k) == outbox' = [outbox EXCEPT ![c] = Append(@, k)]

\* Both writes.  One that goes out in two pieces may send bytes too many, and
\* the client's stream is out of step.  They may fail once the client hung up.
Reply ==
  LET c == main.client
  IN /\ main.at = "reply"
     /\ \/ /\ Written(c, main.command)
           /\ lost' \in {lost, lost \cup {c}}
           /\ main' = Idle
           /\ UNCHANGED <<conns, serverOf>>
        \/ /\ peer[c] = "down"
           /\ CloseConnection(c)
           /\ UNCHANGED <<outbox, lost>>
     /\ UNCHANGED <<objects, backlog, clients, inbox, run, fault>>

-----------------------------------------------------------------------------
(* run: a loop around select, which asks who may be written to.            *)

\* The timeout is a number of seconds, or -1.  "again" says that errno was found to
\* be EAGAIN, and nothing was called since that may change it: otherwise it may
\* be anything.  Without a socket FD_SET(-1) is undefined.
Run(s) ==
  /\ AtQueue
  /\ s \in alive
  /\ \/ /\ sockfd[s] # None
        /\ \E forever \in BOOLEAN :
             run' = [server |-> s, todo |-> {}, i |-> 1, accepted |-> FALSE, forever |-> forever,
                     again |-> FALSE]
        /\ UNCHANGED fault
     \/ /\ sockfd[s] = None
        /\ fault' = TRUE
        /\ UNCHANGED run
  /\ UNCHANGED <<objects, conns, serverOf, backlog, clients, streams, main>>

Running == run.server # None /\ main = Idle
Selected == conns[run.server]
ReadyFrom(i) == {k \in i..Len(Selected) : Selected[k] \in run.todo}
Scanned == ReadyFrom(run.i) = {}

RunReturns ==
  /\ Running /\ Scanned
  /\ run.accepted /\ Selected = <<>>
  /\ run' = NotRunning
  /\ UNCHANGED <<objects, conns, serverOf, backlog, clients, streams, main, fault>>

\* select returns with whoever is ready.  The listening socket is accepted from
\* first; the connection this gives is not in the set that is served next.
RunSelects ==
  LET s == run.server
  IN /\ Running /\ Scanned
     /\ ~(run.accepted /\ Selected = <<>>) /\ ~run.forever
     /\ \E ready \in SUBSET ToSet(Selected), listener \in BOOLEAN :
          /\ ready # {} \/ listener
          /\ run' = [run EXCEPT !.todo = ready, !.i = 1, !.accepted = @ \/ listener,
                               !.again = FALSE]
          /\ IF listener
             THEN /\ backlog[sockfd[s]] # <<>>
                  /\ \E succeeds \in BOOLEAN : Accepted(s, succeeds)
             ELSE UNCHANGED <<backlog, conns, serverOf>>
     /\ UNCHANGED <<objects, clients, streams, main, fault>>

\* select failed, or timed out: a timeout of -1 is no timeval and fails at once.
\* The loop ends, unless errno is EAGAIN.
RunGivesUp ==
  /\ Running /\ Scanned
  /\ ~(run.accepted /\ Selected = <<>>)
  /\ run' = NotRunning
  /\ UNCHANGED <<objects, conns, serverOf, backlog, clients, streams, main, fault>>

\* select failed with EAGAIN, and the loop goes on.  So it does when select timed
\* out and errno, which a timeout leaves alone, was EAGAIN before: from then on
\* every timeout finds it so.
RunAgain ==
  /\ Running /\ Scanned
  /\ ~(run.accepted /\ Selected = <<>>) /\ ~run.forever
  /\ run' = [run EXCEPT !.again = TRUE]
  /\ UNCHANGED <<objects, conns, serverOf, backlog, clients, streams, main, fault>>

\* mutant: the scan goes on behind the connection handled.
NextIndex(k) == k + 1

\* The scan stops at the first connection in the set, and starts again after it.
RestartIndex(k) == 1
RunHandles ==
  /\ Running /\ ~Scanned
  /\ LET k == CHOOSE j \in ReadyFrom(run.i) : \A l \in ReadyFrom(run.i) : j <= l
     IN /\ main' = Handling("header", Selected[k], None)
        /\ run' = [run EXCEPT !.todo = @ \ {Selected[k]}, !.i = RestartIndex(k)]
  /\ UNCHANGED <<objects, conns, serverOf, backlog, clients, streams, fault>>

-----------------------------------------------------------------------------
Api ==
  \/ \E s \in Server : Construct(s) \/ Start(s) \/ Shutdown(s) \/ Destroy(s) \/ Run(s)
  \/ \E s, t \in Server : MoveConstruct(s, t) \/ MoveAssign(s, t)
  \/ Stop

Handler == ReadHeader \/ ReadPayload \/ Reply
RunLoop == RunReturns \/ RunSelects \/ RunGivesUp \/ RunAgain \/ RunHandles

ClientStep == \E c \in Client : Connect(c) \/ SendHeader(c) \/ SendCommand(c) \/ HangUp(c)

Next ==
  /\ Defined
  /\ \/ ClientStep
     \/ Api
     \/ \E s \in Server : AcceptEvent(s)
     \/ \E c \in Client : HandlerEvent(c)
     \/ Handler
     \/ RunLoop

Spec == Init /\ [][Next]_vars

\* The blocking calls that are sure to return: a read of a stream that is in step
\* or at its end, and a write.  Out of step, a read may ask for more than comes.
HandlerReturns ==
  Handler /\ (main.client \notin lost \/ peer[main.client] = "down" \/ main.at = "reply")

\* The steps of run that are sure to come: a connection can be written to, a
\* client that connects is reported, and a timeout ends the loop where errno is
\* not EAGAIN.
RunGoesOn ==
  \/ RunReturns \/ RunHandles
  \/ RunSelects /\ (run'.todo # {} \/ Selected = <<>>)
  \/ RunGivesUp /\ (~run.again \/ run.forever)

(* The main queue serves every source that stays ready, accept() does not   *)
(* fail for ever, a call that can return returns, and a client sends the    *)
(* command that belongs to its header.                                      *)
PatientSpec ==
  /\ Spec
  /\ WF_vars(HandlerReturns) /\ WF_vars(RunGoesOn)
  /\ \A s \in Server : SF_vars(AcceptEvent(s))
  /\ \A c \in Client : SF_vars(HandlerEvent(c)) /\ WF_vars(SendCommand(c))

(* ... and, which nothing in the server can enforce, clients hang up.       *)
FairSpec == PatientSpec /\ \A c \in Client : WF_vars(HangUp(c))

-----------------------------------------------------------------------------
Part == Command \cup {"header", "stranger", "rest"}

TypeOK ==
  /\ alive \subseteq Server
  /\ shared \in alive \cup {None}
  /\ sockfd \in [Server -> Server \cup {None}]
  /\ source \in [Server -> Server \cup {None}]
  /\ conns \in [Server -> Seq(Client)]
  /\ serverOf \in [Client -> Server \cup {None}]
  /\ backlog \in [Server -> Seq(Client)]
  /\ peer \in [Client -> {"off", "up", "down"}]
  /\ inbox \in [Client -> Seq(Part)]
  /\ asked \in [Client -> Seq(Command)]
  /\ outbox \in [Client -> Seq(Command)]
  /\ owing \subseteq Client /\ lost \subseteq Client
  /\ main \in [at : {"idle", "header", "payload", "reply"}, client : Client \cup {None},
               command : Answered \cup {None}]
  /\ run \in [server : Server \cup {None}, todo : SUBSET Client, i : Nat,
              accepted : BOOLEAN, forever : BOOLEAN, again : BOOLEAN]
  /\ starts \in 0..MaxStarts /\ moves \in 0..MaxMoves
  /\ fault \in BOOLEAN

\* A connection is in the list of one living server, once, and points to that
\* server; nothing else is in a list.  The handler of a connection that was
\* dropped from the list, or whose server is gone, would use freed memory, and
\* so would close_connection if it moved the wrong element (lines 431-446).  A
\* move of a server with connections breaks it, and leaves the model's domain.
OwnedOnce ==
  Defined =>
    /\ \A c \in Client : serverOf[c] # None =>
         /\ serverOf[c] \in alive
         /\ c \in ToSet(conns[serverOf[c]])
    /\ \A s \in Server : \A i, j \in DOMAIN conns[s] :
         /\ serverOf[conns[s][i]] = s
         /\ conns[s][i] = conns[s][j] => i = j

\* No socket outlives the object that holds it, and no two objects hold one:
\* whoever is queued is queued on a socket that a living server accepts from.
SocketsHeld ==
  /\ \A s \in Server : sockfd[s] # None => s \in alive
  /\ \A s, t \in Server : s # t /\ sockfd[s] # None => sockfd[s] # sockfd[t]
  /\ \A s \in Server : backlog[s] # <<>> => s \in Listening

\* The command that receive() is answering.
InHand(c) == IF main.at = "reply" /\ main.client = c THEN <<main.command>> ELSE <<>>

\* The commands that wait to be read: every second part, and the first of all if
\* the handler has read its header.
Headless(c) == IF main.at = "payload" /\ main.client = c THEN 1 ELSE 0
Unread(c) == [i \in 1 .. (Len(inbox[c]) + Headless(c)) \div 2 |->
                inbox[c][2 * i - Headless(c)]]

\* While a connection is open and in step, every command the client sent was
\* answered, is in the hands of the handler, or waits to be read, in that order:
\* the server neither skips one nor answers twice, whatever path served it.  A
\* read that takes too much (line 290) is the only way to lose one.
RequestsAccounted ==
  \A c \in Client \ lost : Joined(c) => asked[c] = outbox[c] \o InHand(c) \o Unread(c)

\* In step or not, the server answers commands that the client sent, in the order
\* it sent them and none twice: a read that took too much skips commands, and
\* what it left of one is not taken for another.
AnswersInOrder ==
  \A c \in Client :
    LET answered == outbox[c] \o InHand(c)
    IN \E at \in [DOMAIN answered -> DOMAIN asked[c]] : \A i, j \in DOMAIN answered :
         /\ answered[i] = asked[c][at[i]]
         /\ i < j => at[i] < at[j]

\* When the scan ends, every connection that select reported was handled, also
\* those that close_connection moved towards the front meanwhile.
RoundComplete == run.server # None /\ main = Idle /\ Scanned => run.todo = {}

\* The loop that finds EAGAIN in errno after each timeout, has accepted nobody and
\* has no connection, and nobody connects to its socket.
Spins ==
  /\ run.server # None /\ run.again /\ ~run.accepted
  /\ Selected = <<>> /\ backlog[sockfd[run.server]] = <<>>

\* A client that connects is accepted and its commands answered, or its
\* connection closed, if every other client hangs up some day: the main thread
\* may be waiting in a read for any of them.  Nothing is promised once the loop
\* of run spins, or the code has done what is undefined.
Waits(c) == \E s \in Server : c \in ToSet(backlog[s])

Served ==
  \A c \in Client : \A n \in 0..MaxRequests :
    ((serverOf[c] # None \/ Waits(c)) /\ Len(asked[c]) >= n) ~>
      \/ ~Waits(c) /\ (Len(outbox[c]) >= n \/ serverOf[c] = None)
      \/ fault \/ []Spins

\* run returns to its caller, or spins for ever: on connections it never does.
RunEnds == run.server # None ~> (run.server = None \/ []Spins)
=============================================================================
