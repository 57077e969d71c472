---------------------------- MODULE HttpSession ----------------------------
(***************************************************************************)
(* The HTTP server: the acceptor, and a session per connection that reads  *)
(* a request, has it routed, writes the response, and reads the next one   *)
(* or closes.                                                              *)
(*                                                                         *)
(* A connection carries requests 1, 2, ... of its client, each cut in two  *)
(* halves, since TCP may deliver part of a request.  The halves sent are a *)
(* stream; read and start are positions in it, so that buffer_ holds the   *)
(* halves start+1 .. read and the wire the halves read+1 .. sent.          *)
(*                                                                         *)
(* Emptying the buffer may leave the second half of a request to be read.  *)
(* What begins there is whatever the client wrote there: it may be         *)
(* refused, read as a request, or taken for the beginning of one.          *)
(***************************************************************************)
EXTENDS Naturals, Sequences

CONSTANTS
  Conns,        \* connections
  MaxRequests,  \* bound on the requests of a connection
  Silent        \* connections whose client sends nothing: a bound, too

ASSUME MaxRequestsAssumption == MaxRequests \in Nat

\* What a request says of itself; "bad" is one the parser of Beast refuses.
Versions == {"HTTP/1.1", "HTTP/1.0", "bad"}

\* What the router may be given: a request, by its number, or a part of the
\* stream that begins inside a request and reads as one.
Part == 0
Pieces == 0..MaxRequests

VARIABLES
  acceptor,  \* "none", "listening", "failed" or "accepting" (async_accept pending)
  peer,      \* "away", "up", "closed" (sends no more) or "broken"
  phase,     \* "none", "reading", "writing", "written" (completion due), "gone"
  sent,      \* the halves the client sent
  read,      \* the halves read from the socket
  start,     \* the halves gone from buffer_
  version,   \* what each request says of itself
  request,   \* request_: the requests parsed into it
  response,  \* response_: the requests it answers
  answers,   \* the responses put on the wire
  received,  \* the number of responses the client has
  handled,   \* history: the requests the router was given
  early      \* history: has the client sent ahead of a response?

client == <<peer, sent, version, received, early>>
buffer == <<read, start>>
vars == <<acceptor, peer, phase, sent, read, start, version, request, response,
          answers, received, handled, early>>

Init ==
  /\ acceptor = "none"
  /\ peer = [c \in Conns |-> "away"]
  /\ phase = [c \in Conns |-> "none"]
  /\ sent = [c \in Conns |-> 0]
  /\ read = [c \in Conns |-> 0]
  /\ start = [c \in Conns |-> 0]
  /\ version = [c \in Conns |-> [n \in 1..MaxRequests |-> "HTTP/1.1"]]
  /\ request = [c \in Conns |-> <<>>]
  /\ response = [c \in Conns |-> <<>>]
  /\ answers = [c \in Conns |-> <<>>]
  /\ received = [c \in Conns |-> 0]
  /\ handled = [c \in Conns |-> <<>>]
  /\ early = [c \in Conns |-> FALSE]

(***************************************************************************)
(* The acceptor.                                                           *)
(***************************************************************************)
\* The constructor of HttpServer; a failure is logged and goes no further.
Construct ==
  /\ acceptor = "none"
  /\ acceptor' \in {"listening", "failed"}
  /\ UNCHANGED <<client, phase, buffer, request, response, answers, handled>>

\* run().  On an acceptor that failed, async_accept fails and is called again,
\* for ever: the server stays "failed".
RunServer ==
  /\ acceptor = "listening"
  /\ acceptor' = "accepting"
  /\ UNCHANGED <<client, phase, buffer, request, response, answers, handled>>

\* doAccept with a connection: a session starts and reads; doAccept follows.
Accept(c) ==
  /\ acceptor = "accepting"
  /\ peer[c] # "away" /\ phase[c] = "none"
  /\ phase' = [phase EXCEPT ![c] = "reading"]
  /\ UNCHANGED <<acceptor, client, buffer, request, response, answers, handled>>

\* Mutated form: doAccept only follows an accept that succeeded.
AcceptFailsForGood(c) ==
  /\ acceptor = "accepting"
  /\ peer[c] # "away" /\ phase[c] = "none"
  /\ acceptor' = "failed"
  /\ \/ peer[c] = "broken" /\ phase' = [phase EXCEPT ![c] = "gone"]
     \/ UNCHANGED phase
  /\ UNCHANGED <<client, buffer, request, response, answers, handled>>

\* doAccept with an error, of a client that left again or of the system (no
\* descriptor is left), where the client goes on waiting; doAccept follows.
AcceptFails(c) ==
  /\ acceptor = "accepting"
  /\ peer[c] # "away" /\ phase[c] = "none"
  /\ \/ peer[c] = "broken" /\ phase' = [phase EXCEPT ![c] = "gone"]
     \/ UNCHANGED phase
  /\ UNCHANGED <<acceptor, client, buffer, request, response, answers, handled>>

(***************************************************************************)
(* Reading.  The parser looks at the front of the buffer.                  *)
(***************************************************************************)
Front(c) == start[c] \div 2 + 1

\* The buffer starts inside a request: what was before went with a response.
Garbled(c) == start[c] % 2 = 1 /\ read[c] > start[c]

Malformed(c) ==
  start[c] % 2 = 0 /\ read[c] > start[c] /\ version[c][Front(c)] = "bad"

Complete(c) == start[c] % 2 = 0 /\ read[c] >= start[c] + 2 /\ ~Malformed(c)

\* Mutated form: the session reads ahead while a response is under way.
FillAhead(c) ==
  /\ phase[c] \in {"reading", "written"} /\ ~Complete(c) /\ ~Malformed(c)
  /\ \E k \in read[c] + 1 .. sent[c] : read' = [read EXCEPT ![c] = k]
  /\ UNCHANGED <<acceptor, client, phase, start, request, response, answers, handled>>

\* async_read takes some of what has arrived, until a request is complete (what
\* starts inside a request may never be).
Fill(c) ==
  /\ phase[c] = "reading" /\ ~Complete(c) /\ ~Malformed(c)
  /\ \E k \in read[c] + 1 .. sent[c] : read' = [read EXCEPT ![c] = k]
  /\ UNCHANGED <<acceptor, client, phase, start, request, response, answers, handled>>

\* handleRequest: what was read is in request_, the router is given it, and
\* doWrite begins.
HandleRequest(c, n) ==
  /\ request' = [request EXCEPT ![c] = Append(@, n)]
  /\ handled' = [handled EXCEPT ![c] = Append(@, n)]
  /\ response' = [response EXCEPT ![c] = Append(request[c], n)]
  /\ phase' = [phase EXCEPT ![c] = "writing"]

\* doRead's handler: the request is parsed into request_ and leaves the buffer.
OnRead(c) ==
  /\ phase[c] = "reading" /\ Complete(c)
  /\ start' = [start EXCEPT ![c] = @ + 2]
  /\ HandleRequest(c, Front(c))
  /\ UNCHANGED <<acceptor, client, read, answers>>

\* doRead's handler, for a buffer that starts inside a request: the parser refuses
\* it, and the session ends, or reads some of it as a request, whose method
\* nobody looks at.  It may also go on waiting for more, so nothing says that
\* either happens.
Misread(c) ==
  /\ phase[c] = "reading" /\ Garbled(c)
  /\ \/ /\ phase' = [phase EXCEPT ![c] = "gone"]
        /\ UNCHANGED <<start, request, response, handled>>
     \/ /\ \E k \in start[c] + 1 .. read[c] : start' = [start EXCEPT ![c] = k]
        /\ HandleRequest(c, Part)
  /\ UNCHANGED <<acceptor, client, read, answers>>

ReadCanFail(c) ==
  \/ Malformed(c)
  \/ peer[c] = "broken"
  \/ peer[c] = "closed" /\ read[c] = sent[c] /\ ~Complete(c)

\* Mutated form: the error is logged, but there is no return.
ReadFailsHandling(c) ==
  /\ phase[c] = "reading" /\ ReadCanFail(c) /\ Front(c) <= MaxRequests
  /\ HandleRequest(c, Front(c))
  /\ UNCHANGED <<acceptor, client, buffer, answers>>

\* doRead's handler with an error: nothing holds the session any more, and its
\* socket is closed.
ReadFails(c) ==
  /\ phase[c] = "reading" /\ ReadCanFail(c)
  /\ phase' = [phase EXCEPT ![c] = "gone"]
  /\ UNCHANGED <<acceptor, client, buffer, request, response, answers, handled>>

(***************************************************************************)
(* Writing.  The client may have the response, and send its next request,  *)
(* before the completion handler runs.                                     *)
(***************************************************************************)
Transmit(c) ==
  /\ phase[c] = "writing"
  /\ answers' = [answers EXCEPT ![c] = Append(@, response[c])]
  /\ phase' = [phase EXCEPT ![c] = "written"]
  /\ UNCHANGED <<acceptor, client, buffer, request, response, handled>>

\* response_.keep_alive(): the response has the version of the request, and no
\* Connection field, whatever the request's says.  A part that reads as a request
\* has either version.
Answering(c) == response[c][Len(response[c])]
AnswerVersions(c) ==
  IF Answering(c) = Part THEN Versions \ {"bad"} ELSE {version[c][Answering(c)]}
MayKeep(c) == "HTTP/1.1" \in AnswerVersions(c)
MayClose(c) == \E v \in AnswerVersions(c) : v # "HTTP/1.1"

\* Mutated form: request_ is not reset.
OnWriteKeeping(c) ==
  /\ phase[c] = "written" /\ MayKeep(c)
  /\ start' = [start EXCEPT ![c] = read[c]]
  /\ response' = [response EXCEPT ![c] = <<>>]
  /\ phase' = [phase EXCEPT ![c] = "reading"]
  /\ UNCHANGED <<acceptor, client, read, request, answers, handled>>

\* Mutated form: doRead does not follow.
OnWriteStopping(c) ==
  /\ phase[c] = "written"
  /\ phase' = [phase EXCEPT ![c] = "gone"]
  /\ UNCHANGED <<acceptor, client, buffer, request, response, answers, handled>>

\* Mutated form: every connection is kept.
OnWriteAlwaysReading(c) ==
  /\ phase[c] = "written"
  /\ request' = [request EXCEPT ![c] = <<>>]
  /\ response' = [response EXCEPT ![c] = <<>>]
  /\ start' = [start EXCEPT ![c] = read[c]]
  /\ phase' = [phase EXCEPT ![c] = "reading"]
  /\ UNCHANGED <<acceptor, client, read, answers, handled>>

\* Mutated form: one half too many is consumed.
OnWriteOverrunning(c) ==
  /\ phase[c] = "written" /\ MayKeep(c)
  /\ request' = [request EXCEPT ![c] = <<>>]
  /\ response' = [response EXCEPT ![c] = <<>>]
  /\ start' = [start EXCEPT ![c] = read[c] + 1]
  /\ phase' = [phase EXCEPT ![c] = "reading"]
  /\ UNCHANGED <<acceptor, client, read, answers, handled>>

\* doWrite's handler: request_ and response_ are reset, the buffer is emptied,
\* with what was read beyond the request, and doRead follows.
OnWriteAndRead(c) ==
  /\ phase[c] = "written" /\ MayKeep(c)
  /\ request' = [request EXCEPT ![c] = <<>>]
  /\ response' = [response EXCEPT ![c] = <<>>]
  /\ start' = [start EXCEPT ![c] = read[c]]
  /\ phase' = [phase EXCEPT ![c] = "reading"]
  /\ UNCHANGED <<acceptor, client, read, answers, handled>>

\* doWrite's handler for HTTP/1.0: shutdown, and the session ends.
OnWriteAndClose(c) ==
  /\ phase[c] = "written" /\ MayClose(c)
  /\ phase' = [phase EXCEPT ![c] = "gone"]
  /\ UNCHANGED <<acceptor, client, buffer, request, response, answers, handled>>

OnWrite(c) == OnWriteAndRead(c) \/ OnWriteAndClose(c)

\* doWrite's handler with an error.
WriteFails(c) ==
  /\ phase[c] \in {"writing", "written"} /\ peer[c] = "broken"
  /\ phase' = [phase EXCEPT ![c] = "gone"]
  /\ UNCHANGED <<acceptor, client, buffer, request, response, answers, handled>>

(***************************************************************************)
(* The clients.                                                            *)
(***************************************************************************)
Connect(c) ==
  /\ acceptor \in {"listening", "accepting"}
  /\ peer[c] = "away"
  /\ peer' = [peer EXCEPT ![c] = "up"]
  /\ UNCHANGED <<acceptor, sent, version, received, early>>
  /\ UNCHANGED <<phase, buffer, request, response, answers, handled>>

\* The first half of the next request, whether or not the responses to those
\* before it have come.
SendFirst(c, v) ==
  /\ peer[c] = "up" /\ c \notin Silent
  /\ sent[c] % 2 = 0 /\ sent[c] < 2 * MaxRequests
  /\ sent' = [sent EXCEPT ![c] = @ + 1]
  /\ version' = [version EXCEPT ![c][sent[c] \div 2 + 1] = v]
  /\ early' = [early EXCEPT ![c] = @ \/ received[c] < sent[c] \div 2]
  /\ UNCHANGED <<acceptor, peer, received>>
  /\ UNCHANGED <<phase, buffer, request, response, answers, handled>>

SendSecond(c) ==
  /\ peer[c] = "up" /\ sent[c] % 2 = 1
  /\ sent' = [sent EXCEPT ![c] = @ + 1]
  /\ UNCHANGED <<acceptor, peer, version, received, early>>
  /\ UNCHANGED <<phase, buffer, request, response, answers, handled>>

Receive(c) ==
  /\ peer[c] \in {"up", "closed"} /\ received[c] < Len(answers[c])
  /\ received' = [received EXCEPT ![c] = @ + 1]
  /\ UNCHANGED <<acceptor, peer, sent, version, early>>
  /\ UNCHANGED <<phase, buffer, request, response, answers, handled>>

\* A client sends no more, or is gone.
Leave(c) ==
  /\ \/ peer[c] = "up" /\ peer' = [peer EXCEPT ![c] = "closed"]
     \/ peer[c] \in {"up", "closed"} /\ peer' = [peer EXCEPT ![c] = "broken"]
  /\ UNCHANGED <<acceptor, sent, version, received, early>>
  /\ UNCHANGED <<phase, buffer, request, response, answers, handled>>

\* The process ends (a kill; an exception out of a handler) and starts again.
Crash ==
  /\ acceptor # "none"
  /\ acceptor' = "none"
  /\ peer' = [c \in Conns |-> IF peer[c] = "away" THEN "away" ELSE "broken"]
  /\ phase' = [c \in Conns |-> IF peer[c] = "away" THEN "none" ELSE "gone"]
  /\ UNCHANGED <<sent, version, received, early>>
  /\ UNCHANGED <<buffer, request, response, answers, handled>>

Serve(c) == Fill(c) \/ OnRead(c) \/ ReadFails(c) \/ Transmit(c) \/ OnWrite(c) \/ WriteFails(c)

Next ==
  \/ Construct \/ RunServer \/ Crash
  \/ \E c \in Conns :
       \/ Accept(c) \/ AcceptFails(c)
       \/ Serve(c) \/ Misread(c)
       \/ Connect(c) \/ SendSecond(c) \/ Receive(c) \/ Leave(c)
       \/ \E v \in Versions : SendFirst(c, v)

Spec == Init /\ [][Next]_vars

\* main() runs the server; io_context::run() delivers completions; the kernel
\* takes what is written; the system gets over a failed accept.  Clients owe
\* nothing, and neither does a parser that started inside a request.
FairSpec ==
  /\ Spec
  /\ WF_vars(RunServer)
  /\ \A c \in Conns : WF_vars(Serve(c)) /\ WF_vars(Accept(c) \/ AcceptFails(c))
-----------------------------------------------------------------------------
TypeOK ==
  /\ acceptor \in {"none", "listening", "failed", "accepting"}
  /\ peer \in [Conns -> {"away", "up", "closed", "broken"}]
  /\ phase \in [Conns -> {"none", "reading", "writing", "written", "gone"}]
  /\ sent \in [Conns -> 0 .. 2 * MaxRequests]
  /\ read \in [Conns -> Nat]
  /\ start \in [Conns -> Nat]
  /\ \A c \in Conns : start[c] <= read[c] /\ read[c] <= sent[c]
  /\ version \in [Conns -> [1..MaxRequests -> Versions]]
  /\ request \in [Conns -> Seq(Pieces)]
  /\ response \in [Conns -> Seq(Pieces)]
  /\ answers \in [Conns -> Seq(Seq(Pieces))]
  /\ received \in [Conns -> Nat]
  /\ \A c \in Conns : received[c] <= Len(answers[c])
  /\ handled \in [Conns -> Seq(Pieces)]
  /\ early \in [Conns -> BOOLEAN]

\* Whatever the client does, responses come in the order of the requests they
\* answer, none twice, each of what the router was given and of nothing else that
\* request_ or the buffer kept; a client that waits for each response before its next request
\* gets, as the k-th response, the answer to its k-th request and to nothing else.
AnswersMatch ==
  \A c \in Conns :
    /\ \A j, k \in 1..Len(answers[c]) :
         j < k /\ Part \notin {answers[c][j][1], answers[c][k][1]}
           => answers[c][j][1] < answers[c][k][1]
    /\ \A k \in 1..Len(answers[c]) : answers[c][k] = <<handled[c][k]>>
    /\ ~early[c] => \A k \in 1..Len(answers[c]) : answers[c][k] = <<k>>

\* The router is given a request at most once, sent completely, and nothing after
\* an error.  A part of the stream that is no request of the client reaches it only
\* if the client sent ahead of a response: emptying the buffer cuts no request of a
\* client that waits.
HandledAreWhole ==
  \A c \in Conns :
    /\ \A j, k \in 1..Len(handled[c]) :
         j < k /\ Part \notin {handled[c][j], handled[c][k]} => handled[c][j] < handled[c][k]
    /\ \A k \in 1..Len(handled[c]) :
         \/ handled[c][k] = Part /\ early[c]
         \/ /\ handled[c][k] # Part
            /\ 2 * handled[c][k] <= sent[c] /\ version[c][handled[c][k]] # "bad"

\* The bytes dropped with the buffer are never those of a client that waits for
\* its responses, even one that sends its next request before the completion
\* handler of the response runs: what it sent was handled, or is still to read.
NothingDropped ==
  \A c \in Conns : ~early[c] =>
    \A n \in 1 .. sent[c] \div 2 :
      2 * n <= start[c] => \E k \in 1..Len(handled[c]) : handled[c][k] = n

\* The server hangs up on a client that is there only after a response to
\* HTTP/1.0, a request it cannot parse, or requests sent ahead.
HangsUpForAReason ==
  \A c \in Conns : phase[c] = "gone" /\ peer[c] = "up" =>
    \/ early[c]
    \/ \E n \in 1..MaxRequests : 2 * n - 1 <= sent[c] /\ version[c][n] # "HTTP/1.1"

\* A session with its client there is idle only when nothing is left to answer:
\* a client that waits for its responses and whose requests keep the connection
\* gets an answer to each request, as long as it does not leave.
RequestsAreAnswered ==
  \A c \in Conns : \A n \in 1..MaxRequests :
    ( /\ peer[c] \in {"up", "closed"} /\ phase[c] # "none"
      /\ sent[c] >= 2 * n /\ ~early[c] /\ version[c][n] # "bad"
      /\ \A m \in 1 .. n - 1 : version[c][m] = "HTTP/1.1" )
    ~> (Len(answers[c]) >= n \/ peer[c] = "broken" \/ early[c])

\* After a response to HTTP/1.0, and once the client has left, the session ends.
SessionsEnd ==
  \A c \in Conns :
    ( \/ phase[c] = "written" /\ ~MayKeep(c)
      \/ phase[c] # "none" /\ peer[c] \in {"closed", "broken"} )
    ~> phase[c] = "gone"

\* A connection that came to a listening server is taken up, whatever accepts
\* fail before it, unless the client leaves or the process ends.
ConnectionsAreAccepted ==
  \A c \in Conns : peer[c] = "up" ~> (phase[c] # "none" \/ peer[c] = "broken")

(***************************************************************************)
(* The inductive invariant behind the properties above.                    *)
(***************************************************************************)
\* Where a session stands, and how many requests are handled and answered.
LifeInv(c) ==
  /\ peer[c] = "away" => phase[c] = "none"
  /\ phase[c] = "none" => start[c] = 0 /\ read[c] = 0 /\ handled[c] = <<>> /\ answers[c] = <<>>
  /\ phase[c] \in {"none", "reading"} => request[c] = <<>>
  /\ phase[c] \in {"none", "reading", "written"} => Len(handled[c]) = Len(answers[c])
  /\ phase[c] = "writing" => Len(handled[c]) = Len(answers[c]) + 1
  /\ Len(answers[c]) <= Len(handled[c])
  /\ phase[c] \in {"writing", "written"} =>
       /\ handled[c] # <<>>
       /\ response[c] = <<handled[c][Len(handled[c])]>>

\* What was handled has left the buffer, and was answered in its turn.
HandledInv(c) ==
  /\ \A j, k \in 1..Len(handled[c]) :
       j < k /\ Part \notin {handled[c][j], handled[c][k]} => handled[c][j] < handled[c][k]
  /\ \A k \in 1..Len(handled[c]) : handled[c][k] # Part =>
       2 * handled[c][k] <= start[c] /\ version[c][handled[c][k]] # "bad"
  /\ \A k \in 1..Len(answers[c]) : answers[c][k] = <<handled[c][k]>>

\* A client that waits is one request ahead of its responses at most, so the
\* buffer holds nothing beyond the request that is handled.
WaitingInv(c) ==
  ~early[c] =>
    /\ sent[c] <= 2 * received[c] + 2
    /\ start[c] = 2 * Len(handled[c])
    /\ phase[c] \in {"writing", "written"} => read[c] = start[c]
    /\ \A k \in 1..Len(handled[c]) : handled[c][k] = k

EndInv(c) ==
  phase[c] = "gone" /\ peer[c] = "up" =>
    \/ early[c]
    \/ \E n \in 1..MaxRequests : 2 * n - 1 <= sent[c] /\ version[c][n] # "HTTP/1.1"

ConnInv(c) == LifeInv(c) /\ HandledInv(c) /\ WaitingInv(c) /\ EndInv(c)

IInv == TypeOK /\ \A c \in Conns : ConnInv(c)
=============================================================================
