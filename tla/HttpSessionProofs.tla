------------------------- MODULE HttpSessionProofs -------------------------
(***************************************************************************)
(* HttpSession for every set of connections and number of requests.        *)
(***************************************************************************)
EXTENDS HttpSession, TLAPS, SequenceTheorems

LEMMA InitInv == Init => IInv
  BY MaxRequestsAssumption DEF Init, IInv, TypeOK, Versions, Part, Pieces, ConnInv, LifeInv, HandledInv,
     WaitingInv, EndInv

LEMMA Positions ==
  ASSUME TypeOK, NEW c \in Conns
  PROVE  /\ sent[c] \in Nat /\ read[c] \in Nat /\ start[c] \in Nat /\ received[c] \in Nat
         /\ start[c] <= read[c] /\ read[c] <= sent[c] /\ sent[c] <= 2 * MaxRequests
         /\ received[c] <= Len(answers[c])
         /\ handled[c] \in Seq(Pieces)
         /\ answers[c] \in Seq(Seq(Pieces))
         /\ Len(handled[c]) \in Nat /\ Len(answers[c]) \in Nat
         /\ early[c] \in BOOLEAN
  BY MaxRequestsAssumption DEF TypeOK

LEMMA HandledNumbers ==
  ASSUME TypeOK, NEW c \in Conns
  PROVE  \A k \in 1..Len(handled[c]) :
           /\ handled[c][k] \in Pieces
           /\ handled[c][k] # Part => handled[c][k] \in 1..MaxRequests
<1>1. \A k \in 1..Len(handled[c]) : handled[c][k] \in Pieces
  BY Positions, ElementOfSeq
<1> QED
  BY <1>1, MaxRequestsAssumption DEF Pieces, Part

\* The stream is cut inside a request only of a client that sent ahead.
LEMMA CutIsEarly ==
  ASSUME TypeOK, NEW c \in Conns, WaitingInv(c)
  PROVE  /\ Garbled(c) => early[c]
         /\ \A k \in 1..Len(handled[c]) : handled[c][k] = Part => early[c]
<1>1. Len(handled[c]) \in Nat
  BY Positions
<1>2. \A n \in Nat : (2 * n) % 2 = 0
  OBVIOUS
<1> QED
  BY <1>1, <1>2 DEF WaitingInv, Garbled, Part

(***************************************************************************)
(* A connection whose part of the state does not change keeps its          *)
(* invariant.                                                              *)
(***************************************************************************)
Same(d) ==
  /\ peer'[d] = peer[d] /\ phase'[d] = phase[d]
  /\ sent'[d] = sent[d] /\ read'[d] = read[d] /\ start'[d] = start[d]
  /\ version'[d] = version[d]
  /\ request'[d] = request[d] /\ response'[d] = response[d]
  /\ answers'[d] = answers[d] /\ received'[d] = received[d]
  /\ handled'[d] = handled[d] /\ early'[d] = early[d]

LEMMA SameKeeps ==
  ASSUME NEW d \in Conns, ConnInv(d), Same(d)
  PROVE  ConnInv(d)'
  BY DEF ConnInv, LifeInv, HandledInv, WaitingInv, EndInv, Same

\* A step of connection c leaves every other connection alone.
Others(c) == \A d \in Conns \ {c} : Same(d)

LEMMA OneConnection ==
  ASSUME IInv, NEW c \in Conns, Others(c), ConnInv(c)'
  PROVE  \A d \in Conns : ConnInv(d)'
  BY SameKeeps DEF IInv, Others

LEMMA AcceptorSteps ==
  ASSUME IInv, Construct \/ RunServer \/ UNCHANGED vars
  PROVE  IInv'
<1>1. UNCHANGED <<peer, phase, sent, read, start, version, request, response,
                  answers, received, handled, early>>
  BY DEF Construct, RunServer, vars, client, buffer
<1>2. \A d \in Conns : ConnInv(d)'
  BY <1>1, SameKeeps DEF IInv, Same
<1>3. TypeOK'
  BY <1>1 DEF IInv, TypeOK, Construct, RunServer, vars
<1> QED
  BY <1>2, <1>3 DEF IInv

LEMMA CrashStep ==
  ASSUME IInv, Crash
  PROVE  IInv'
<1>1. TypeOK'
  BY DEF IInv, TypeOK, Crash, buffer
<1>2. ASSUME NEW d \in Conns
      PROVE  ConnInv(d)'
  <2>1. /\ peer'[d] # "up"
        /\ phase'[d] = IF peer[d] = "away" THEN "none" ELSE "gone"
        /\ peer'[d] = "away" <=> peer[d] = "away"
    BY DEF IInv, TypeOK, Crash
  <2>2. UNCHANGED <<sent, read, start, version, request, response, answers,
                    received, handled, early>>
    BY DEF Crash, buffer
  <2>3. LifeInv(d)'
    BY <2>1, <2>2 DEF IInv, ConnInv, LifeInv
  <2>4. HandledInv(d)'
    BY <2>2 DEF IInv, ConnInv, HandledInv
  <2>5. WaitingInv(d)' /\ EndInv(d)'
    BY <2>1, <2>2 DEF IInv, ConnInv, WaitingInv, EndInv
  <2> QED
    BY <2>3, <2>4, <2>5 DEF ConnInv
<1> QED
  BY <1>1, <1>2 DEF IInv

(***************************************************************************)
(* Steps that start or end a session.                                      *)
(***************************************************************************)
LEMMA AcceptStep ==
  ASSUME IInv, NEW c \in Conns, Accept(c) \/ AcceptFails(c)
  PROVE  IInv'
<1>1. TypeOK'
  BY DEF IInv, TypeOK, Accept, AcceptFails, client, buffer
<1>2. Others(c)
  BY DEF IInv, TypeOK, Accept, AcceptFails, client, buffer, Others, Same
<1>3. phase[c] = "none" /\ phase'[c] \in {"none", "reading", "gone"} /\ peer[c] # "away"
  BY DEF IInv, TypeOK, Accept, AcceptFails
<1>4. UNCHANGED <<peer, sent, read, start, version, request, response, answers,
                  received, handled, early>>
  BY DEF Accept, AcceptFails, client, buffer
<1>5. phase'[c] = "gone" => peer[c] # "up"
  BY <1>3 DEF IInv, TypeOK, Accept, AcceptFails
<1>6. LifeInv(c)' /\ HandledInv(c)'
  BY <1>3, <1>4 DEF IInv, ConnInv, LifeInv, HandledInv
<1>7. WaitingInv(c)' /\ EndInv(c)'
  BY <1>3, <1>4, <1>5 DEF IInv, ConnInv, WaitingInv, EndInv
<1>8. ConnInv(c)'
  BY <1>6, <1>7 DEF ConnInv
<1> QED
  BY <1>1, <1>2, <1>8, OneConnection DEF IInv

LEMMA Halves ==
  ASSUME NEW x \in Nat
  PROVE  /\ x \div 2 \in Nat
         /\ x % 2 = 0 => x = 2 * (x \div 2)
         /\ x % 2 = 1 => x = 2 * (x \div 2) + 1
  OBVIOUS

\* A request is complete, or its first half is there: it is one of the client's.
LEMMA FrontIsSent ==
  ASSUME TypeOK, NEW c \in Conns, start[c] % 2 = 0, read[c] > start[c]
  PROVE  /\ Front(c) \in 1..MaxRequests
         /\ 2 * Front(c) - 1 <= sent[c]
         /\ start[c] = 2 * Front(c) - 2
<1>1. /\ start[c] \in Nat /\ read[c] \in Nat /\ sent[c] \in Nat
      /\ read[c] <= sent[c] /\ sent[c] <= 2 * MaxRequests
  BY Positions
<1>2. start[c] = 2 * (start[c] \div 2) /\ start[c] \div 2 \in Nat
  BY <1>1, Halves
<1> QED
  BY <1>1, <1>2, MaxRequestsAssumption DEF Front

LEMMA ReadFailsStep ==
  ASSUME IInv, NEW c \in Conns, ReadFails(c)
  PROVE  IInv'
<1> USE DEF IInv
<1>1. TypeOK'
  BY DEF TypeOK, ReadFails, client, buffer
<1>2. Others(c)
  BY DEF TypeOK, ReadFails, client, buffer, Others, Same
<1>3. EndInv(c)'
  <2>1. CASE peer[c] # "up"
    BY <2>1 DEF EndInv, ReadFails, client
  <2>2. CASE Malformed(c)
    <3>1. /\ Front(c) \in 1..MaxRequests
          /\ 2 * Front(c) - 1 <= sent[c]
          /\ version[c][Front(c)] # "HTTP/1.1"
      BY <2>2, FrontIsSent DEF Malformed
    <3> QED
      BY <3>1 DEF EndInv, ReadFails, client
  <2> QED
    BY <2>1, <2>2 DEF ReadFails, ReadCanFail
<1>4. LifeInv(c)' /\ HandledInv(c)' /\ WaitingInv(c)'
  BY DEF TypeOK, ReadFails, client, buffer, ConnInv, LifeInv, HandledInv, WaitingInv
<1> QED
  BY <1>1, <1>2, <1>3, <1>4, OneConnection DEF ConnInv

LEMMA WriteFailsStep ==
  ASSUME IInv, NEW c \in Conns, WriteFails(c)
  PROVE  IInv'
<1>1. TypeOK'
  BY DEF IInv, TypeOK, WriteFails, client, buffer
<1>2. Others(c)
  BY DEF IInv, TypeOK, WriteFails, client, buffer, Others, Same
<1>3. /\ peer[c] = "broken" /\ phase'[c] = "gone"
      /\ UNCHANGED <<peer, sent, read, start, version, request, response, answers,
                     received, handled, early>>
  BY DEF IInv, TypeOK, WriteFails, client, buffer
<1>4. LifeInv(c)' /\ HandledInv(c)'
  BY <1>3 DEF IInv, ConnInv, LifeInv, HandledInv
<1>5. WaitingInv(c)' /\ EndInv(c)'
  BY <1>3 DEF IInv, ConnInv, WaitingInv, EndInv
<1>6. ConnInv(c)'
  BY <1>4, <1>5 DEF ConnInv
<1> QED
  BY <1>1, <1>2, <1>6, OneConnection DEF IInv

(***************************************************************************)
(* Reading and writing.                                                    *)
(***************************************************************************)
LEMMA FillStep ==
  ASSUME IInv, NEW c \in Conns, Fill(c)
  PROVE  IInv'
<1>1. PICK k \in read[c] + 1 .. sent[c] : read' = [read EXCEPT ![c] = k]
  BY DEF Fill
<1>2. TypeOK'
  <2>1. \A d \in Conns : read'[d] \in Nat /\ start[d] <= read'[d] /\ read'[d] <= sent[d]
    BY <1>1, Positions DEF IInv, TypeOK
  <2>2. read' \in [Conns -> Nat]
    BY <1>1, <2>1 DEF IInv, TypeOK
  <2> QED
    BY <2>1, <2>2 DEF IInv, TypeOK, Fill, client
<1>3. Others(c)
  BY <1>1 DEF IInv, TypeOK, Fill, client, Others, Same
<1>4. phase[c] = "reading"
      /\ UNCHANGED <<peer, phase, sent, start, version, request, response, answers,
                     received, handled, early>>
  BY DEF Fill, client
<1>5. ConnInv(c)'
  BY <1>4 DEF IInv, ConnInv, LifeInv, HandledInv, WaitingInv, EndInv
<1> QED
  BY <1>2, <1>3, <1>5, OneConnection DEF IInv

LEMMA OnReadStep ==
  ASSUME IInv, NEW c \in Conns, OnRead(c)
  PROVE  IInv'
<1> USE DEF IInv
<1> DEFINE n == Front(c)
<1>1. /\ phase[c] = "reading" /\ read[c] >= start[c] + 2
      /\ start[c] % 2 = 0 /\ ~Malformed(c)
  BY DEF OnRead, Complete
<1>2. start[c] % 2 = 0 /\ read[c] > start[c]
  BY <1>1 DEF TypeOK
<1>3. /\ n \in 1..MaxRequests
      /\ 2 * n - 1 <= sent[c]
      /\ start[c] = 2 * n - 2
      /\ version[c][n] # "bad"
  BY <1>1, <1>2, FrontIsSent DEF Malformed
<1>4. request[c] = <<>> /\ Len(handled[c]) = Len(answers[c])
  BY <1>1 DEF ConnInv, LifeInv
<1> HIDE DEF n
<1>5. /\ handled' = [handled EXCEPT ![c] = Append(handled[c], n)]
      /\ request' = [request EXCEPT ![c] = <<n>>]
      /\ response' = [response EXCEPT ![c] = <<n>>]
      /\ phase' = [phase EXCEPT ![c] = "writing"]
      /\ start' = [start EXCEPT ![c] = start[c] + 2]
      /\ UNCHANGED <<acceptor, peer, sent, read, version, answers, received, early>>
  BY <1>4 DEF OnRead, HandleRequest, client, n
<1>6. n \in Pieces /\ n # Part
  BY <1>3 DEF Pieces, Part
<1>7. TypeOK'
  BY <1>1, <1>5, <1>6 DEF TypeOK
<1>8. Others(c)
  BY <1>5 DEF TypeOK, Others, Same
<1>9. /\ handled'[c] = Append(handled[c], n)
      /\ response'[c] = <<n>> /\ phase'[c] = "writing"
      /\ start'[c] = 2 * n
      /\ handled[c] \in Seq(Pieces)
  BY <1>3, <1>5 DEF TypeOK
<1>10. /\ Len(handled'[c]) = Len(handled[c]) + 1
       /\ handled'[c][Len(handled'[c])] = n
       /\ \A k \in 1..Len(handled[c]) : handled'[c][k] = handled[c][k]
  BY <1>9
<1>11. LifeInv(c)'
  <2>1. peer'[c] # "away" /\ Len(answers'[c]) = Len(answers[c])
    BY <1>1, <1>5 DEF ConnInv, LifeInv
  <2>2. Len(handled'[c]) = Len(answers'[c]) + 1 /\ Len(answers'[c]) \in Nat
    BY <1>4, <1>10, <2>1, Positions
  <2>3. handled'[c] # <<>>
    BY <2>2
  <2> QED
    BY <1>9, <1>10, <2>1, <2>2, <2>3 DEF LifeInv
<1>12. HandledInv(c)'
  <2>1. \A k \in 1..Len(handled[c]) : handled[c][k] # Part =>
          handled[c][k] \in 1..MaxRequests /\ handled[c][k] < n
    BY <1>3, <1>9, HandledNumbers DEF ConnInv, HandledInv
  <2>2. \A j, k \in 1..Len(handled'[c]) :
          j < k /\ Part \notin {handled'[c][j], handled'[c][k]} => handled'[c][j] < handled'[c][k]
    BY <1>9, <1>10, <2>1 DEF ConnInv, HandledInv
  <2>3. \A k \in 1..Len(handled'[c]) : handled'[c][k] # Part =>
          2 * handled'[c][k] <= start'[c] /\ version'[c][handled'[c][k]] # "bad"
    BY <1>3, <1>5, <1>9, <1>10, <2>1 DEF ConnInv, HandledInv
  <2>4. \A k \in 1..Len(answers'[c]) : answers'[c][k] = <<handled'[c][k]>>
    BY <1>4, <1>5, <1>9, <1>10 DEF ConnInv, HandledInv
  <2> QED
    BY <2>2, <2>3, <2>4 DEF HandledInv
<1>13. WaitingInv(c)'
  <2> SUFFICES ASSUME ~early[c]
               PROVE  /\ sent[c] <= 2 * received[c] + 2
                      /\ start'[c] = 2 * Len(handled'[c])
                      /\ read[c] = start'[c]
                      /\ \A k \in 1..Len(handled'[c]) : handled'[c][k] = k
    BY <1>5 DEF WaitingInv
  <2>1. /\ sent[c] <= 2 * received[c] + 2
        /\ start[c] = 2 * Len(handled[c])
        /\ \A k \in 1..Len(handled[c]) : handled[c][k] = k
    BY DEF ConnInv, WaitingInv
  <2>2. n = Len(handled[c]) + 1
    BY <1>3, <1>9, <2>1
  <2>3. read[c] <= start[c] + 2
    BY <1>4, <2>1 DEF TypeOK
  <2>4. read[c] = start[c] + 2
    BY <1>1, <2>3, Positions
  <2>5. Len(handled'[c]) = n
    BY <1>10, <2>2
  <2>6. \A k \in 1..Len(handled'[c]) : handled'[c][k] = k
    <3>1. Len(handled[c]) \in Nat
      BY Positions
    <3> QED
      BY <1>10, <2>1, <2>2, <2>5, <3>1
  <2>7. read[c] = start'[c]
    BY <1>3, <1>9, <2>4
  <2> QED
    BY <1>9, <2>1, <2>5, <2>6, <2>7
<1>14. EndInv(c)'
  BY <1>9 DEF EndInv
<1> QED
  BY <1>7, <1>8, <1>11, <1>12, <1>13, <1>14, OneConnection DEF ConnInv

\* What starts inside a request ends the session or is handled as a request.
LEMMA MisreadStep ==
  ASSUME IInv, NEW c \in Conns, Misread(c)
  PROVE  IInv'
<1> USE DEF IInv
<1>1. /\ phase[c] = "reading" /\ early[c]
      /\ request[c] = <<>> /\ Len(handled[c]) = Len(answers[c])
      /\ UNCHANGED <<acceptor, peer, sent, read, version, answers, received, early>>
  BY CutIsEarly DEF Misread, ConnInv, LifeInv, client
<1>2. WaitingInv(c)' /\ EndInv(c)'
  BY <1>1 DEF WaitingInv, EndInv
<1>3. CASE phase' = [phase EXCEPT ![c] = "gone"] /\ UNCHANGED <<start, request, response, handled>>
  <2>1. TypeOK' /\ Others(c)
    BY <1>1, <1>3 DEF TypeOK, Others, Same
  <2>2. phase'[c] = "gone"
    BY <1>3 DEF TypeOK
  <2>3. LifeInv(c)' /\ HandledInv(c)'
    BY <1>1, <1>3, <2>2 DEF ConnInv, LifeInv, HandledInv
  <2> QED
    BY <1>2, <2>1, <2>3, OneConnection DEF ConnInv
<1>4. ASSUME NEW k \in start[c] + 1 .. read[c], start' = [start EXCEPT ![c] = k],
             HandleRequest(c, Part)
      PROVE  IInv'
  <2>1. /\ handled' = [handled EXCEPT ![c] = Append(handled[c], Part)]
        /\ request' = [request EXCEPT ![c] = <<Part>>]
        /\ response' = [response EXCEPT ![c] = <<Part>>]
        /\ phase' = [phase EXCEPT ![c] = "writing"]
    BY <1>1, <1>4 DEF HandleRequest
  <2>2. Part \in Pieces
    BY MaxRequestsAssumption DEF Pieces, Part
  <2>3. TypeOK'
    <3>1. /\ \A d \in Conns : start'[d] \in Nat /\ start'[d] <= read[d]
          /\ start' \in [Conns -> Nat]
      BY <1>4, Positions DEF TypeOK
    <3>2. <<Part>> \in Seq(Pieces) /\ Append(handled[c], Part) \in Seq(Pieces)
      BY <2>2, Positions
    <3>3. /\ phase' \in [Conns -> {"none", "reading", "writing", "written", "gone"}]
          /\ request' \in [Conns -> Seq(Pieces)] /\ response' \in [Conns -> Seq(Pieces)]
          /\ handled' \in [Conns -> Seq(Pieces)]
      BY <2>1, <3>2 DEF TypeOK
    <3> QED
      BY <1>1, <3>1, <3>3 DEF TypeOK
  <2>4. Others(c)
    BY <1>1, <1>4, <2>1 DEF TypeOK, Others, Same
  <2>5. /\ handled'[c] = Append(handled[c], Part)
        /\ response'[c] = <<Part>> /\ phase'[c] = "writing"
        /\ start'[c] = k
        /\ handled[c] \in Seq(Pieces)
    BY <1>4, <2>1 DEF TypeOK
  <2>6. /\ Len(handled'[c]) = Len(handled[c]) + 1
        /\ handled'[c][Len(handled'[c])] = Part
        /\ \A m \in 1..Len(handled[c]) : handled'[c][m] = handled[c][m]
    BY <2>5
  <2>7. LifeInv(c)'
    <3>1. peer'[c] # "away" /\ Len(answers'[c]) = Len(answers[c])
      BY <1>1 DEF ConnInv, LifeInv
    <3>2. Len(handled'[c]) = Len(answers'[c]) + 1 /\ Len(answers'[c]) \in Nat
      BY <1>1, <2>6, <3>1, Positions
    <3>3. handled'[c] # <<>>
      BY <3>2
    <3> QED
      BY <2>5, <2>6, <3>1, <3>2, <3>3 DEF LifeInv
  <2>8. HandledInv(c)'
    <3>1. \A m \in 1..Len(handled'[c]) : handled'[c][m] # Part => m \in 1..Len(handled[c])
      BY <2>5, <2>6
    <3>2. \A j, m \in 1..Len(handled'[c]) :
            j < m /\ Part \notin {handled'[c][j], handled'[c][m]}
              => handled'[c][j] < handled'[c][m]
      BY <2>6, <3>1 DEF ConnInv, HandledInv
    <3>3. \A m \in 1..Len(handled'[c]) : handled'[c][m] # Part =>
            2 * handled'[c][m] <= start'[c] /\ version'[c][handled'[c][m]] # "bad"
      <4> SUFFICES ASSUME NEW m \in 1..Len(handled[c]), handled[c][m] # Part
                   PROVE  2 * handled[c][m] <= k /\ version[c][handled[c][m]] # "bad"
        BY <1>1, <2>5, <2>6, <3>1
      <4>1. 2 * handled[c][m] <= start[c] /\ version[c][handled[c][m]] # "bad"
        BY DEF ConnInv, HandledInv
      <4>2. handled[c][m] \in Nat /\ start[c] \in Nat
        BY HandledNumbers, Positions
      <4> QED
        BY <4>1, <4>2
    <3>4. \A m \in 1..Len(answers'[c]) : answers'[c][m] = <<handled'[c][m]>>
      BY <1>1, <2>6 DEF ConnInv, HandledInv
    <3> QED
      BY <3>2, <3>3, <3>4 DEF HandledInv
  <2> QED
    BY <1>2, <2>3, <2>4, <2>7, <2>8, OneConnection DEF ConnInv
<1> QED
  BY <1>3, <1>4 DEF Misread

LEMMA TransmitStep ==
  ASSUME IInv, NEW c \in Conns, Transmit(c)
  PROVE  IInv'
<1> USE DEF IInv
<1>1. /\ phase[c] = "writing"
      /\ answers' = [answers EXCEPT ![c] = Append(answers[c], response[c])]
      /\ phase' = [phase EXCEPT ![c] = "written"]
      /\ UNCHANGED <<acceptor, peer, sent, read, start, version, request, response,
                     received, handled, early>>
  BY DEF Transmit, client, buffer
<1>2. /\ answers[c] \in Seq(Seq(Pieces))
      /\ answers'[c] = Append(answers[c], response[c])
      /\ phase'[c] = "written"
  BY <1>1 DEF TypeOK
<1>3. /\ Len(answers'[c]) = Len(answers[c]) + 1
      /\ answers'[c][Len(answers[c]) + 1] = response[c]
      /\ \A k \in 1..Len(answers[c]) : answers'[c][k] = answers[c][k]
  BY <1>2
<1>4. TypeOK'
  BY <1>1, <1>2, <1>3 DEF TypeOK
<1>5. Others(c)
  BY <1>1 DEF TypeOK, Others, Same
<1>6. /\ Len(handled[c]) = Len(answers[c]) + 1
      /\ response[c] = <<handled[c][Len(handled[c])]>>
  BY <1>1 DEF ConnInv, LifeInv
<1>7. LifeInv(c)'
  BY <1>1, <1>2, <1>3, <1>6 DEF ConnInv, LifeInv
<1>8. HandledInv(c)'
  <2>1. \A k \in 1..Len(answers'[c]) : answers'[c][k] = <<handled[c][k]>>
    <3>1. \A k \in 1..Len(answers[c]) : answers[c][k] = <<handled[c][k]>>
      BY DEF ConnInv, HandledInv
    <3>2. Len(answers[c]) \in Nat
      BY Positions
    <3> QED
      BY <1>3, <1>6, <3>1, <3>2
  <2> QED
    BY <1>1, <2>1 DEF ConnInv, HandledInv
<1>9. WaitingInv(c)' /\ EndInv(c)'
  BY <1>1, <1>2 DEF ConnInv, WaitingInv, EndInv
<1> QED
  BY <1>4, <1>5, <1>7, <1>8, <1>9, OneConnection DEF ConnInv

LEMMA OnWriteAndReadStep ==
  ASSUME IInv, NEW c \in Conns, OnWriteAndRead(c)
  PROVE  IInv'
<1>1. TypeOK'
  BY DEF IInv, TypeOK, OnWriteAndRead, client
<1>2. Others(c)
  BY DEF IInv, TypeOK, OnWriteAndRead, client, Others, Same
<1>3. /\ phase[c] = "written" /\ phase'[c] = "reading"
      /\ start'[c] = read[c] /\ request'[c] = <<>>
      /\ UNCHANGED <<peer, sent, read, version, answers, received, handled, early>>
  BY DEF IInv, TypeOK, OnWriteAndRead, client
<1>4. LifeInv(c)'
  BY <1>3 DEF IInv, ConnInv, LifeInv
<1>5. HandledInv(c)'
  <2>1. \A k \in 1..Len(handled[c]) : handled[c][k] # Part => 2 * handled[c][k] <= read[c]
    BY Positions, HandledNumbers DEF IInv, ConnInv, HandledInv
  <2> QED
    BY <1>3, <2>1 DEF IInv, ConnInv, HandledInv
<1>6. WaitingInv(c)' /\ EndInv(c)'
  BY <1>3 DEF IInv, ConnInv, WaitingInv, EndInv
<1>7. ConnInv(c)'
  BY <1>4, <1>5, <1>6 DEF ConnInv
<1> QED
  BY <1>1, <1>2, <1>7, OneConnection DEF IInv

LEMMA OnWriteAndCloseStep ==
  ASSUME IInv, NEW c \in Conns, OnWriteAndClose(c)
  PROVE  IInv'
<1> USE DEF IInv
<1>1. TypeOK'
  BY DEF TypeOK, OnWriteAndClose, client, buffer
<1>2. Others(c)
  BY DEF TypeOK, OnWriteAndClose, client, buffer, Others, Same
<1>3. EndInv(c)'
  <2> DEFINE l == Len(handled[c])
             n == handled[c][l]
  <2>1. /\ response[c] = <<n>> /\ phase[c] = "written"
        /\ handled[c] # <<>>
        /\ UNCHANGED <<early, sent, version>>
    BY DEF OnWriteAndClose, ConnInv, LifeInv, client
  <2>2. l \in 1..Len(handled[c])
    BY <2>1, Positions, EmptySeq
  <2> HIDE DEF l
  <2>3. CASE n = Part
    BY <2>1, <2>2, <2>3, CutIsEarly DEF ConnInv, EndInv
  <2>4. CASE n # Part
    <3>1. n \in 1..MaxRequests /\ 2 * n <= start[c]
      BY <2>2, <2>4, HandledNumbers DEF ConnInv, HandledInv
    <3> HIDE DEF n
    <3>2. 2 * n - 1 <= sent[c]
      BY <3>1, Positions
    <3>3. Answering(c) = n
      BY <2>1 DEF Answering
    <3>4. version[c][n] # "HTTP/1.1"
      BY <2>4, <3>3 DEF OnWriteAndClose, MayClose, AnswerVersions
    <3> QED
      BY <2>1, <3>1, <3>2, <3>4 DEF EndInv
  <2> QED
    BY <2>3, <2>4
<1>4. LifeInv(c)' /\ HandledInv(c)' /\ WaitingInv(c)'
  BY DEF TypeOK, OnWriteAndClose, client, buffer, ConnInv, LifeInv, HandledInv, WaitingInv
<1> QED
  BY <1>1, <1>2, <1>3, <1>4, OneConnection DEF ConnInv

(***************************************************************************)
(* The clients.                                                            *)
(***************************************************************************)
\* What a client sends leaves the requests it sent before as they are.
LEMMA SendFirstStep ==
  ASSUME IInv, NEW c \in Conns, NEW v \in Versions, SendFirst(c, v)
  PROVE  IInv'
<1> USE DEF IInv
<1> DEFINE n == sent[c] \div 2 + 1
<1>1. /\ n \in 1..MaxRequests /\ sent[c] = 2 * n - 2 /\ sent[c] \in Nat
      /\ received[c] \in Nat
  <2>1. sent[c] % 2 = 0 /\ sent[c] < 2 * MaxRequests
    BY DEF SendFirst
  <2>2. sent[c] \in Nat /\ received[c] \in Nat
    BY Positions
  <2> QED
    BY <2>1, <2>2, Halves, MaxRequestsAssumption
<1>2. /\ peer[c] = "up"
      /\ version' = [version EXCEPT ![c][n] = v]
      /\ sent' = [sent EXCEPT ![c] = sent[c] + 1]
      /\ UNCHANGED <<acceptor, peer, received, phase, read, start, request, response,
                     answers, handled>>
  BY DEF SendFirst, buffer
<1>3. early' = [early EXCEPT ![c] = early[c] \/ received[c] < sent[c] \div 2]
  BY DEF SendFirst
<1>4. ~early'[c] => ~early[c] /\ received[c] >= n - 1
  <2>1. early'[c] = (early[c] \/ received[c] < sent[c] \div 2)
    BY <1>3 DEF TypeOK
  <2>2. sent[c] \div 2 = n - 1
    BY <1>1
  <2>3. ~early'[c] => ~early[c] /\ ~(received[c] < n - 1)
    BY <2>1, <2>2
  <2> HIDE DEF n
  <2> QED
    BY <1>1, <2>3
<1> HIDE DEF n
<1>5. /\ sent'[c] = 2 * n - 1
      /\ \A m \in 1..MaxRequests : m # n => version'[c][m] = version[c][m]
  BY <1>1, <1>2 DEF TypeOK
<1>6. TypeOK'
  <2>1. early' \in [Conns -> BOOLEAN]
    BY <1>3 DEF TypeOK
  <2>2. version' \in [Conns -> [1..MaxRequests -> Versions]]
    BY <1>2 DEF TypeOK
  <2>3. sent' \in [Conns -> 0 .. 2 * MaxRequests]
    BY <1>1, <1>2, MaxRequestsAssumption DEF TypeOK
  <2>4. \A d \in Conns : read[d] <= sent'[d]
    BY <1>1, <1>2 DEF TypeOK
  <2> QED
    BY <1>2, <2>1, <2>2, <2>3, <2>4 DEF TypeOK
<1>7. Others(c)
  <2>1. \A d \in Conns \ {c} : version'[d] = version[d] /\ sent'[d] = sent[d]
    BY <1>2 DEF TypeOK
  <2>2. \A d \in Conns \ {c} : early'[d] = early[d]
    BY <1>3 DEF TypeOK
  <2> QED
    BY <1>2, <2>1, <2>2 DEF Others, Same
<1>8. LifeInv(c)'
  BY <1>2 DEF ConnInv, LifeInv
<1>9. HandledInv(c)'
  <2>1. \A k \in 1..Len(handled[c]) : handled[c][k] # Part =>
          handled[c][k] \in 1..MaxRequests /\ handled[c][k] # n
    <3>1. \A k \in 1..Len(handled[c]) : handled[c][k] # Part => 2 * handled[c][k] <= start[c]
      BY DEF ConnInv, HandledInv
    <3>2. start[c] <= sent[c] /\ start[c] \in Nat
      BY Positions
    <3> QED
      BY <1>1, <3>1, <3>2, HandledNumbers
  <2> QED
    BY <1>2, <1>5, <2>1 DEF ConnInv, HandledInv
<1>10. WaitingInv(c)'
  BY <1>1, <1>2, <1>4, <1>5 DEF ConnInv, WaitingInv
<1>11. EndInv(c)'
  <2>1. early[c] => early'[c]
    BY <1>4
  <2>2. ASSUME NEW m \in 1..MaxRequests, 2 * m - 1 <= sent[c], version[c][m] # "HTTP/1.1"
        PROVE  2 * m - 1 <= sent'[c] /\ version'[c][m] # "HTTP/1.1"
    BY <1>1, <1>5, <2>2
  <2> QED
    BY <1>2, <2>1, <2>2 DEF ConnInv, EndInv
<1> QED
  BY <1>6, <1>7, <1>8, <1>9, <1>10, <1>11, OneConnection DEF ConnInv

LEMMA SendSecondStep ==
  ASSUME IInv, NEW c \in Conns, SendSecond(c)
  PROVE  IInv'
<1>1. /\ sent' = [sent EXCEPT ![c] = sent[c] + 1] /\ sent[c] % 2 = 1
      /\ UNCHANGED <<acceptor, peer, phase, read, start, version, request, response,
                     answers, received, handled, early>>
  BY DEF SendSecond, buffer
<1>2. sent'[c] = sent[c] + 1 /\ sent'[c] \in 0 .. 2 * MaxRequests
  <2>1. sent'[c] = sent[c] + 1
    BY <1>1 DEF IInv, TypeOK
  <2>2. sent[c] \in Nat /\ sent[c] <= 2 * MaxRequests
    BY Positions DEF IInv
  <2>3. sent[c] # 2 * MaxRequests
    BY <1>1, <2>2, MaxRequestsAssumption
  <2> QED
    BY <2>1, <2>2, <2>3, MaxRequestsAssumption
<1>3. TypeOK'
  <2>1. \A d \in Conns : read[d] <= sent'[d]
    BY <1>1, <1>2, Positions DEF IInv, TypeOK
  <2> QED
    BY <1>1, <1>2, <2>1 DEF IInv, TypeOK
<1>4. Others(c)
  BY <1>1 DEF IInv, TypeOK, Others, Same
<1>5. LifeInv(c)' /\ HandledInv(c)'
  BY <1>1 DEF IInv, ConnInv, LifeInv, HandledInv
<1>6. WaitingInv(c)'
  <2>1. sent[c] \in Nat /\ received[c] \in Nat
    BY Positions DEF IInv
  <2>2. sent[c] <= 2 * received[c] + 2 => sent'[c] <= 2 * received[c] + 2
    BY <1>1, <1>2, <2>1
  <2> QED
    BY <1>1, <2>2 DEF IInv, ConnInv, WaitingInv
<1>7. EndInv(c)'
  <2>1. \A n \in 1..MaxRequests : 2 * n - 1 <= sent[c] => 2 * n - 1 <= sent'[c]
    BY <1>2, Positions DEF IInv
  <2> QED
    BY <1>1, <2>1 DEF IInv, ConnInv, EndInv
<1>8. ConnInv(c)'
  BY <1>5, <1>6, <1>7 DEF ConnInv
<1> QED
  BY <1>3, <1>4, <1>8, OneConnection DEF IInv

LEMMA ReceiveStep ==
  ASSUME IInv, NEW c \in Conns, Receive(c)
  PROVE  IInv'
<1>1. /\ received[c] < Len(answers[c])
      /\ received' = [received EXCEPT ![c] = received[c] + 1]
      /\ UNCHANGED <<acceptor, peer, phase, sent, read, start, version, request, response,
                     answers, handled, early>>
  BY DEF Receive, buffer
<1>2. received'[c] = received[c] + 1
  BY <1>1 DEF IInv, TypeOK
<1>3. TypeOK'
  <2>1. \A d \in Conns : received'[d] \in Nat /\ received'[d] <= Len(answers[d])
    BY <1>1, Positions DEF IInv, TypeOK
  <2> QED
    BY <1>1, <2>1 DEF IInv, TypeOK
<1>4. Others(c)
  BY <1>1 DEF IInv, TypeOK, Others, Same
<1>5. LifeInv(c)' /\ HandledInv(c)' /\ EndInv(c)'
  BY <1>1 DEF IInv, ConnInv, LifeInv, HandledInv, EndInv
<1>6. WaitingInv(c)'
  BY <1>1, <1>2, Positions DEF IInv, ConnInv, WaitingInv
<1>7. ConnInv(c)'
  BY <1>5, <1>6 DEF ConnInv
<1> QED
  BY <1>3, <1>4, <1>7, OneConnection DEF IInv

LEMMA PeerStep ==
  ASSUME IInv, NEW c \in Conns, Connect(c) \/ Leave(c)
  PROVE  IInv'
<1>1. UNCHANGED <<acceptor, phase, sent, read, start, version, request, response,
                  answers, received, handled, early>>
  BY DEF Connect, Leave, buffer
<1>2. /\ \/ peer[c] = "away" /\ peer' = [peer EXCEPT ![c] = "up"]
         \/ peer[c] # "away" /\ \E p \in {"closed", "broken"} : peer' = [peer EXCEPT ![c] = p]
  BY DEF Connect, Leave
<1>3. TypeOK'
  BY <1>1, <1>2 DEF IInv, TypeOK
<1>4. Others(c)
  BY <1>1, <1>2 DEF IInv, TypeOK, Others, Same
<1>5. /\ peer'[c] # "away"
      /\ peer'[c] = "up" => phase[c] = "none"
  BY <1>2 DEF IInv, TypeOK, ConnInv, LifeInv
<1>6. LifeInv(c)' /\ HandledInv(c)' /\ WaitingInv(c)'
  BY <1>1, <1>5 DEF IInv, ConnInv, LifeInv, HandledInv, WaitingInv
<1>7. EndInv(c)'
  BY <1>1, <1>5 DEF EndInv
<1>8. ConnInv(c)'
  BY <1>6, <1>7 DEF ConnInv
<1> QED
  BY <1>3, <1>4, <1>8, OneConnection DEF IInv

LEMMA StepKeepsInv == IInv /\ [Next]_vars => IInv'
<1> SUFFICES ASSUME IInv, [Next]_vars
             PROVE  IInv'
  OBVIOUS
<1>1. CASE Construct \/ RunServer \/ UNCHANGED vars
  BY <1>1, AcceptorSteps
<1>2. CASE Crash
  BY <1>2, CrashStep
<1>3. ASSUME NEW c \in Conns, Accept(c) \/ AcceptFails(c)
      PROVE  IInv'
  BY <1>3, AcceptStep
<1>4. ASSUME NEW c \in Conns, Serve(c)
      PROVE  IInv'
  BY <1>4, FillStep, OnReadStep, ReadFailsStep, TransmitStep, OnWriteAndReadStep,
     OnWriteAndCloseStep, WriteFailsStep DEF Serve, OnWrite
<1>5. ASSUME NEW c \in Conns, Connect(c) \/ SendSecond(c) \/ Receive(c) \/ Leave(c)
      PROVE  IInv'
  BY <1>5, SendSecondStep, ReceiveStep, PeerStep
<1>6. ASSUME NEW c \in Conns, NEW v \in Versions, SendFirst(c, v)
      PROVE  IInv'
  BY <1>6, SendFirstStep
<1>7. ASSUME NEW c \in Conns, Misread(c)
      PROVE  IInv'
  BY <1>7, MisreadStep
<1> QED
  BY <1>1, <1>2, <1>3, <1>4, <1>5, <1>6, <1>7 DEF Next

LEMMA Invariance == Spec => []IInv
  BY InitInv, StepKeepsInv, PTL DEF Spec

(***************************************************************************)
(* The theorems.                                                           *)
(***************************************************************************)
\* Positions, histories and messages keep their types: in particular no byte
\* leaves the buffer that was not read, and none is read that was not sent
\* (Session.cpp, buffer_.consume and async_read).
THEOREM TypeCorrect == Spec => []TypeOK
<1>1. IInv => TypeOK
  BY DEF IInv
<1> QED
  BY <1>1, Invariance, PTL

\* Answers are in order, each of one handled request, and a client that waits
\* gets them one for one (Session::handleRequest, doWrite).
THEOREM AnswersMatchHolds == Spec => []AnswersMatch
<1>1. IInv => AnswersMatch
  <2> SUFFICES ASSUME IInv, NEW c \in Conns
               PROVE  /\ \A j, k \in 1..Len(answers[c]) :
                           j < k /\ Part \notin {answers[c][j][1], answers[c][k][1]}
                             => answers[c][j][1] < answers[c][k][1]
                      /\ \A k \in 1..Len(answers[c]) : answers[c][k] = <<handled[c][k]>>
                      /\ ~early[c] => \A k \in 1..Len(answers[c]) : answers[c][k] = <<k>>
    BY DEF AnswersMatch
  <2>1. \A k \in 1..Len(answers[c]) : k \in 1..Len(handled[c])
    BY DEF IInv, TypeOK, ConnInv, LifeInv
  <2>2. \A k \in 1..Len(answers[c]) : answers[c][k] = <<handled[c][k]>>
    BY DEF IInv, ConnInv, HandledInv
  <2>3. \A k \in 1..Len(answers[c]) : answers[c][k][1] = handled[c][k]
    BY <2>2
  <2>4. \A j, k \in 1..Len(answers[c]) :
          j < k /\ Part \notin {answers[c][j][1], answers[c][k][1]}
            => answers[c][j][1] < answers[c][k][1]
    BY <2>1, <2>3 DEF IInv, ConnInv, HandledInv
  <2>5. ~early[c] => \A k \in 1..Len(answers[c]) : answers[c][k] = <<k>>
    BY <2>1, <2>2 DEF IInv, ConnInv, WaitingInv
  <2> QED
    BY <2>2, <2>4, <2>5
<1> QED
  BY <1>1, Invariance, PTL

\* A request is handled at most once, and whole; a part of one only from a client
\* that sent ahead (Session::doRead, buffer_.consume).
THEOREM HandledAreWholeHolds == Spec => []HandledAreWhole
<1>1. IInv => HandledAreWhole
  <2> SUFFICES ASSUME IInv, NEW c \in Conns, NEW k \in 1..Len(handled[c])
               PROVE  \/ handled[c][k] = Part /\ early[c]
                      \/ /\ handled[c][k] # Part
                         /\ 2 * handled[c][k] <= sent[c] /\ version[c][handled[c][k]] # "bad"
    BY DEF HandledAreWhole, IInv, ConnInv, HandledInv
  <2>1. CASE handled[c][k] = Part
    BY <2>1, CutIsEarly DEF IInv, ConnInv
  <2>2. CASE handled[c][k] # Part
    <3>1. /\ 2 * handled[c][k] <= start[c] /\ version[c][handled[c][k]] # "bad"
          /\ handled[c][k] \in 1..MaxRequests
      BY <2>2, HandledNumbers DEF IInv, ConnInv, HandledInv
    <3> QED
      BY <2>2, <3>1, Positions DEF IInv
  <2> QED
    BY <2>1, <2>2
<1> QED
  BY <1>1, Invariance, PTL

\* Emptying the buffer costs a client that waits nothing (Session.cpp:85).
THEOREM NothingDroppedHolds == Spec => []NothingDropped
<1>1. IInv => NothingDropped
  <2> SUFFICES ASSUME IInv, NEW c \in Conns, ~early[c], NEW n \in 1 .. sent[c] \div 2,
                      2 * n <= start[c]
               PROVE  n \in 1..Len(handled[c]) /\ handled[c][n] = n
    BY DEF NothingDropped
  <2>1. start[c] = 2 * Len(handled[c]) /\ \A k \in 1..Len(handled[c]) : handled[c][k] = k
    BY DEF IInv, ConnInv, WaitingInv
  <2>2. n \in 1..Len(handled[c])
    BY <2>1 DEF IInv, TypeOK
  <2> QED
    BY <2>1, <2>2
<1> QED
  BY <1>1, Invariance, PTL

\* The server never hangs up on a client without a reason (Session::doWrite).
THEOREM HangsUpForAReasonHolds == Spec => []HangsUpForAReason
<1>1. IInv => HangsUpForAReason
  BY DEF IInv, ConnInv, EndInv, HangsUpForAReason
<1> QED
  BY <1>1, Invariance, PTL
-----------------------------------------------------------------------------
(***************************************************************************)
(* No busy loop: what a session still has to do with what was sent.        *)
(***************************************************************************)
PhaseLeft(c) ==
  IF phase[c] = "writing" THEN 3
  ELSE IF phase[c] = "written" THEN 2
  ELSE IF phase[c] = "reading" THEN 1
  ELSE 0

\* The halves in the buffer or on their way count three times, those not yet read once more.
WorkLeft(c) == 3 * (sent[c] - start[c]) + (sent[c] - read[c]) + PhaseLeft(c)

\* Every handler of a session (doRead, handleRequest, doWrite and their completions)
\* leaves it less to do, and only its acceptance or bytes of its client give it more:
\* however the handlers of all sessions interleave, a session comes to rest after
\* finitely many of them, waiting for its client or gone.
ServingEnds ==
  [][\A c \in Conns :
       /\ Serve(c) \/ Misread(c) => WorkLeft(c)' < WorkLeft(c)
       /\ WorkLeft(c)' > WorkLeft(c) => sent'[c] > sent[c] \/ phase[c] = "none"]_vars

LEMMA WorkType ==
  ASSUME TypeOK, NEW c \in Conns
  PROVE  WorkLeft(c) \in Nat /\ PhaseLeft(c) \in 0..3
  BY Positions DEF WorkLeft, PhaseLeft

LEMMA WorkTypeNext ==
  ASSUME TypeOK', NEW c \in Conns
  PROVE  WorkLeft(c)' \in Nat /\ PhaseLeft(c)' \in 0..3
<1>1. /\ sent'[c] \in Nat /\ read'[c] \in Nat /\ start'[c] \in Nat
      /\ start'[c] <= read'[c] /\ read'[c] <= sent'[c]
  BY MaxRequestsAssumption DEF TypeOK
<1> QED
  BY <1>1 DEF WorkLeft, PhaseLeft

LEMMA ServeLowersWork ==
  ASSUME TypeOK, NEW c \in Conns, Serve(c) \/ Misread(c)
  PROVE  WorkLeft(c)' < WorkLeft(c)
<1>1. /\ sent[c] \in Nat /\ read[c] \in Nat /\ start[c] \in Nat
      /\ start[c] <= read[c] /\ read[c] <= sent[c]
  BY Positions
<1>2. CASE Fill(c)
  <2>1. PICK k \in read[c] + 1 .. sent[c] : read' = [read EXCEPT ![c] = k]
    BY <1>2 DEF Fill
  <2>2. read'[c] = k /\ UNCHANGED <<phase, sent, start>>
    BY <1>2, <2>1 DEF Fill, client, TypeOK
  <2> QED
    BY <1>1, <2>2 DEF WorkLeft, PhaseLeft
<1>3. CASE OnRead(c)
  <2>1. /\ phase[c] = "reading" /\ phase'[c] = "writing"
        /\ start'[c] = start[c] + 2
        /\ UNCHANGED <<sent, read>>
    BY <1>3 DEF OnRead, HandleRequest, client, TypeOK
  <2> QED
    BY <1>1, <2>1 DEF WorkLeft, PhaseLeft
<1>4. CASE ReadFails(c)
  <2>1. /\ phase[c] = "reading" /\ phase'[c] = "gone"
        /\ UNCHANGED <<sent, read, start>>
    BY <1>4 DEF ReadFails, client, buffer, TypeOK
  <2> QED
    BY <1>1, <2>1 DEF WorkLeft, PhaseLeft
<1>5. CASE Transmit(c)
  <2>1. /\ phase[c] = "writing" /\ phase'[c] = "written"
        /\ UNCHANGED <<sent, read, start>>
    BY <1>5 DEF Transmit, client, buffer, TypeOK
  <2> QED
    BY <1>1, <2>1 DEF WorkLeft, PhaseLeft
<1>6. CASE OnWriteAndRead(c)
  <2>1. /\ phase[c] = "written" /\ phase'[c] = "reading"
        /\ start'[c] = read[c]
        /\ UNCHANGED <<sent, read>>
    BY <1>6 DEF OnWriteAndRead, client, TypeOK
  <2> QED
    BY <1>1, <2>1 DEF WorkLeft, PhaseLeft
<1>7. CASE OnWriteAndClose(c) \/ WriteFails(c)
  <2>1. /\ phase[c] \in {"writing", "written"} /\ phase'[c] = "gone"
        /\ UNCHANGED <<sent, read, start>>
    BY <1>7 DEF OnWriteAndClose, WriteFails, client, buffer, TypeOK
  <2> QED
    BY <1>1, <2>1 DEF WorkLeft, PhaseLeft
<1>8. CASE Misread(c)
  <2>1. /\ phase[c] = "reading"
        /\ \/ phase'[c] = "gone" /\ UNCHANGED start
           \/ phase'[c] = "writing" /\ start'[c] \in start[c] + 1 .. read[c]
        /\ UNCHANGED <<sent, read>>
    BY <1>8 DEF Misread, HandleRequest, client, TypeOK
  <2> QED
    BY <1>1, <2>1 DEF WorkLeft, PhaseLeft
<1> QED
  BY <1>2, <1>3, <1>4, <1>5, <1>6, <1>7, <1>8 DEF Serve, OnWrite

LEMMA OtherServesKeepWork ==
  ASSUME TypeOK, NEW c \in Conns, NEW d \in Conns \ {c}, Serve(d) \/ Misread(d)
  PROVE  WorkLeft(c)' = WorkLeft(c)
<1>1. phase'[c] = phase[c] /\ sent'[c] = sent[c] /\ read'[c] = read[c] /\ start'[c] = start[c]
  <2>1. CASE Fill(d) \/ OnRead(d)
    BY <2>1 DEF Fill, OnRead, HandleRequest, client, TypeOK
  <2>2. CASE ReadFails(d) \/ Transmit(d) \/ OnWriteAndClose(d) \/ WriteFails(d)
    BY <2>2 DEF ReadFails, Transmit, OnWriteAndClose, WriteFails, client, buffer, TypeOK
  <2>3. CASE OnWriteAndRead(d)
    BY <2>3 DEF OnWriteAndRead, client, TypeOK
  <2>4. CASE Misread(d)
    BY <2>4 DEF Misread, HandleRequest, client, TypeOK
  <2> QED
    BY <2>1, <2>2, <2>3, <2>4 DEF Serve, OnWrite
<1> QED
  BY <1>1 DEF WorkLeft, PhaseLeft

\* Steps that are not a handler's of a session raise WorkLeft only as said.
LEMMA WorkRises ==
  ASSUME TypeOK, TypeOK', [Next]_vars, NEW c \in Conns, WorkLeft(c)' > WorkLeft(c)
  PROVE  sent'[c] > sent[c] \/ phase[c] = "none"
<1>1. WorkLeft(c) \in Nat
  BY WorkType
<1>2. CASE \E d \in Conns : Serve(d) \/ Misread(d)
  <2>1. PICK d \in Conns : Serve(d) \/ Misread(d)
    BY <1>2
  <2>2. WorkLeft(c)' < WorkLeft(c) \/ WorkLeft(c)' = WorkLeft(c)
    BY <2>1, ServeLowersWork, OtherServesKeepWork
  <2>3. WorkLeft(c)' \in Nat
    BY WorkTypeNext
  <2> QED
    BY <1>1, <2>2, <2>3
<1>3. CASE Construct \/ RunServer \/ UNCHANGED vars \/ (\E d \in Conns : Connect(d) \/ Receive(d) \/ Leave(d))
  <2>1. UNCHANGED <<phase, sent, read, start>>
    BY <1>3 DEF Construct, RunServer, vars, client, buffer, Connect, Receive, Leave
  <2>2. WorkLeft(c)' = WorkLeft(c)
    BY <2>1 DEF WorkLeft, PhaseLeft
  <2> QED
    BY <1>1, <2>2
<1>4. CASE Crash \/ (\E d \in Conns : Accept(d) \/ AcceptFails(d))
  <2>1. UNCHANGED <<sent, read, start>>
    BY <1>4 DEF Crash, Accept, AcceptFails, client, buffer
  <2>2. phase[c] = "none" \/ phase'[c] = phase[c] \/ phase'[c] \in {"none", "gone"}
    BY <1>4 DEF Crash, Accept, AcceptFails, TypeOK
  <2>3. phase[c] = "none" \/ PhaseLeft(c)' <= PhaseLeft(c)
    BY <2>2 DEF PhaseLeft
  <2>4. phase[c] = "none" \/ WorkLeft(c)' <= WorkLeft(c)
    <3>1. /\ 3 * (sent[c] - start[c]) + (sent[c] - read[c]) \in Int
          /\ PhaseLeft(c) \in Int /\ PhaseLeft(c)' \in Int
      BY Positions, WorkType, WorkTypeNext
    <3> QED
      BY <2>1, <2>3, <3>1 DEF WorkLeft
  <2>5. WorkLeft(c)' \in Nat
    BY WorkTypeNext
  <2> QED
    BY <1>1, <2>4, <2>5
<1>5. CASE \E d \in Conns : SendSecond(d) \/ \E v \in Versions : SendFirst(d, v)
  <2>1. UNCHANGED <<phase, read, start>>
    BY <1>5 DEF SendFirst, SendSecond, buffer
  <2>2. sent'[c] = sent[c] \/ sent'[c] = sent[c] + 1
    <3>1. PICK d \in Conns : SendSecond(d) \/ \E v \in Versions : SendFirst(d, v)
      BY <1>5
    <3>2. sent' = [sent EXCEPT ![d] = sent[d] + 1]
      BY <3>1 DEF SendFirst, SendSecond
    <3> QED
      BY <3>2 DEF TypeOK
  <2>3. CASE sent'[c] = sent[c]
    <3>1. WorkLeft(c)' = WorkLeft(c)
      BY <2>1, <2>3 DEF WorkLeft, PhaseLeft
    <3> QED
      BY <1>1, <3>1
  <2> QED
    BY <2>2, <2>3, Positions
<1> QED
  BY <1>2, <1>3, <1>4, <1>5 DEF Next

\* The handlers of a session come to an end (Session::doRead, doWrite).
THEOREM ServingEndsHolds == Spec => ServingEnds
<1>1. TypeOK /\ TypeOK' /\ [Next]_vars
      => [\A c \in Conns :
            /\ Serve(c) \/ Misread(c) => WorkLeft(c)' < WorkLeft(c)
            /\ WorkLeft(c)' > WorkLeft(c) => sent'[c] > sent[c] \/ phase[c] = "none"]_vars
  BY ServeLowersWork, WorkRises
<1>2. Spec => []TypeOK
  BY TypeCorrect
<1> QED
  BY <1>1, <1>2, PTL DEF Spec, ServingEnds
=============================================================================
