-------------------------- MODULE HttpServerProofs --------------------------
(***************************************************************************)
(* What sessions answer, for any number of connections and requests.  The  *)
(* invariant adds to the two properties what a session that came to its    *)
(* natural end knows of its client: Finished.                              *)
(***************************************************************************)
EXTENDS HttpServer, TLAPS

\* A client whose session ended naturally sends no more, and everything it sent
\* was read and answered.
Finished ==
    \A c \in Conns : (state[c] = "over" /\ ~cut[c]) =>
        ended[c] /\ read[c] = sent[c] /\ answered[c] = sent[c]

\* A connection that still waits for the listener has no session.
Waiting == \A c \in backlog : state[c] = "none"

Inv == TypeOK /\ OneAtATime /\ Finished /\ Waiting

LEMMA InitInv == Init => Inv
<1> SUFFICES ASSUME Init
             PROVE  Inv
    OBVIOUS
<1> USE DEF Init
<1>1. TypeOK
    BY DEF TypeOK, States
<1>2. OneAtATime
  <2>1. \A c \in Conns : read[c] = 0 /\ sent[c] = 0 /\ answered[c] = 0 /\ state[c] = "none"
    OBVIOUS
  <2>2. 0 \in Nat /\ 0 <= 0
    OBVIOUS
  <2> HIDE DEF Init
  <2> QED
    BY <2>1, <2>2 DEF OneAtATime
<1>3. Finished /\ Waiting
    BY DEF Finished, Waiting
<1> QED
    BY <1>1, <1>2, <1>3 DEF Inv

LEMMA NextInv == Inv /\ [Next]_vars => Inv'
<1> SUFFICES ASSUME Inv, [Next]_vars
             PROVE  Inv'
    OBVIOUS
<1> USE DEF Inv, TypeOK, OneAtATime, Finished, Waiting, States, client, session
<1>1. ASSUME NEW c \in Conns, Connect(c)
      PROVE  Inv'
    BY <1>1 DEF Connect
<1>2. ASSUME NEW c \in Conns, Send(c)
      PROVE  Inv'
    BY <1>2 DEF Send
<1>3. ASSUME NEW c \in Conns, EndSending(c)
      PROVE  Inv'
    BY <1>3 DEF EndSending
<1>4. ASSUME NEW c \in Conns, OnAccept(c)
      PROVE  Inv'
  <2>1. TypeOK'
    BY <1>4 DEF OnAccept, DoAccept
  <2>2. OneAtATime'
    BY <1>4 DEF OnAccept, DoAccept
  <2>3. Finished' /\ Waiting'
    BY <1>4 DEF OnAccept, DoAccept
  <2> QED
    BY <2>1, <2>2, <2>3
<1>5. CASE OnAcceptError
    BY <1>5 DEF OnAcceptError
<1>6. ASSUME NEW c \in Conns, Run(c)
      PROVE  Inv'
  <2>1. TypeOK'
    BY <1>6 DEF Run, Read
  <2>2. OneAtATime'
    BY <1>6 DEF Run, Read
  <2>3. Finished' /\ Waiting'
    BY <1>6 DEF Run, Read
  <2> QED
    BY <2>1, <2>2, <2>3
<1>7. ASSUME NEW c \in Conns, NEW close \in BOOLEAN, OnRead(c, close)
      PROVE  Inv'
  <2>1. TypeOK'
    BY <1>7 DEF OnRead, AfterRead
  <2>2. OneAtATime'
    BY <1>7 DEF OnRead, AfterRead
  <2>3. Finished' /\ Waiting'
    BY <1>7 DEF OnRead, AfterRead
  <2> QED
    BY <2>1, <2>2, <2>3
<1>8. ASSUME NEW c \in Conns, HandlerThrows(c)
      PROVE  Inv'
    BY <1>8 DEF HandlerThrows
<1>9. ASSUME NEW c \in Conns, OnReadEnd(c)
      PROVE  Inv'
  <2>1. TypeOK'
    BY <1>9 DEF OnReadEnd, AtEnd, Close
  <2>2. OneAtATime'
    BY <1>9 DEF OnReadEnd, AtEnd, Close
  <2>3. Finished' /\ Waiting'
    BY <1>9 DEF OnReadEnd, AtEnd, Close
  <2> QED
    BY <2>1, <2>2, <2>3
<1>10. ASSUME NEW c \in Conns, OnWrite(c)
       PROVE  Inv'
  <2>1. CASE wantEof[c]
    <3>1. /\ answered' = [answered EXCEPT ![c] = answered[c] + 1]
          /\ state' = [state EXCEPT ![c] = "over"]
          /\ cut' = [cut EXCEPT ![c] = TRUE]
          /\ UNCHANGED <<running, accepting, backlog, client, read, wantEof, failed, timed>>
      BY <1>10, <2>1 DEF OnWrite, Drop, Close
    <3>2. c \notin backlog
      BY <1>10 DEF OnWrite
    <3>3. TypeOK'
      BY <3>1
    <3>4. OneAtATime' /\ Finished' /\ Waiting'
      BY <3>1, <3>2
    <3> QED
      BY <3>3, <3>4
  <2>2. CASE ~wantEof[c]
    <3>1. /\ answered' = [answered EXCEPT ![c] = answered[c] + 1]
          /\ state' = [state EXCEPT ![c] = "reading"]
          /\ timed' = [timed EXCEPT ![c] = TRUE]
          /\ UNCHANGED <<running, accepting, backlog, client, read, wantEof, failed, cut>>
      BY <1>10, <2>2 DEF OnWrite, Read
    <3>2. state[c] = "writing" /\ c \notin backlog
      BY <1>10 DEF OnWrite
    <3>3. TypeOK'
      BY <3>1
    <3>4. OneAtATime'
      BY <3>1, <3>2
    <3>5. Finished' /\ Waiting'
      BY <3>1, <3>2
    <3> QED
      BY <3>3, <3>4, <3>5
  <2> QED
    BY <2>1, <2>2
<1>11. ASSUME NEW c \in Conns, TimeOut(c)
       PROVE  Inv'
  <2>1. TypeOK'
    BY <1>11 DEF TimeOut, Drop, Close
  <2>2. OneAtATime'
    BY <1>11 DEF TimeOut, Drop, Close
  <2>3. Finished' /\ Waiting'
    BY <1>11 DEF TimeOut, Drop, Close
  <2> QED
    BY <2>1, <2>2, <2>3
<1>12. ASSUME NEW c \in Conns, Reset(c)
       PROVE  Inv'
  <2>1. TypeOK'
    BY <1>12 DEF Reset, Drop, Close
  <2>2. OneAtATime'
    BY <1>12 DEF Reset, Drop, Close
  <2>3. Finished' /\ Waiting'
    BY <1>12 DEF Reset, Drop, Close
  <2> QED
    BY <2>1, <2>2, <2>3
<1>13. CASE Stop
    BY <1>13 DEF Stop
<1>14. CASE UNCHANGED vars
    BY <1>14 DEF vars
<1> QED
    BY <1>1, <1>2, <1>3, <1>4, <1>5, <1>6, <1>7, <1>8, <1>9, <1>10, <1>11, <1>12,
       <1>13, <1>14 DEF Next

LEMMA Invariance == Spec => []Inv
BY InitInv, NextInv, PTL DEF Spec

\* Requests are answered one at a time and in their order, for any number of
\* connections and of requests sent ahead.
THEOREM AnswersInOrder == Spec => []OneAtATime
<1>1. Inv => OneAtATime
    BY DEF Inv
<1> QED
    BY <1>1, Invariance, PTL

\* Nothing a client sent is left without an answer when its session ends naturally.
THEOREM NothingUnanswered == Spec => []AllAnswered
<1>1. Inv => AllAnswered
    BY DEF Inv, Finished, AllAnswered
<1> QED
    BY <1>1, Invariance, PTL

=============================================================================
