--------------------------- MODULE RequestsProofs ---------------------------
(***************************************************************************)
(* Proofs about Requests, for every set of requests and every length and   *)
(* number of load tests.                                                   *)
(***************************************************************************)
EXTENDS Requests, SeqLemmas, TLAPS

-----------------------------------------------------------------------------
(* The inductive invariant. *)

\* What the two requesters have in hand, and in which order EXIT takes the
\* threads down.
ControlInv ==
    /\ kpc \in Exchange \cup {"store", "filter", "rewrite", "broadcast"} => kreq \in Reqs
    /\ tpc \in Exchange \cup {"store", "append"} => tno \in Tests
    /\ kpc \in {"filter", "rewrite"} => kreq \in Deletes
    /\ kpc = "send" \/ tpc = "send" => send_buf \in Messages
    /\ exitServer <=> tpc \in {"wake", "done"}
    /\ kpc = "exited" => exitServer
    /\ mpc # "join" => tpc = "done"
    /\ mpc \in {"free", "end"} => kpc = "exited"

\* A broadcast on sender_list means work or the end, and between its test and
\* its wait kernel_communication can only miss what is inserted there.
WaitInv ==
    /\ kpc # "crashed"
    /\ kpc = "pop" => sender_list # <<>>
    /\ kpc = "woken" => sender_list # <<>> \/ exitServer
    /\ kpc \in {"block", "sleep"} => SetOf(sender_list) \subseteq missed

Mid == {"send", "recv", "read"}
Waiting(pc) == IF pc = "recv" THEN 1 ELSE 0

\* There are as many messages and answers under way as requesters wait for one,
\* so an exchange that overlaps no other starts with empty sockets.
FlightInv ==
    /\ kpc # "exited" => Len(queue) + Len(answers) = Waiting(kpc) + Waiting(tpc)
    /\ kpc \in Mid /\ tpc \in Mid => mixed = Requesters

\* What an exchange that overlaps no other finds in the buffers, the sockets
\* and in pdu_recieve is its own.
OwnInv(x, pc, hand) ==
    x \notin mixed =>
        /\ pc = "send" => send_buf = hand
        /\ pc = "recv" => /\ \A m \in SetOf(queue) : m = hand
                         /\ \A a \in SetOf(answers) : a.req = hand
        /\ pc = "read" => receive_buf.req = hand
        /\ pc \in Using => ans[x].req = hand

\* What is answered, what is being filtered and copied back, and what is about
\* to be answered is as store_data left it.
StoreInv ==
    ~torn => /\ acked \ Deletes \subseteq file
             /\ acked \cap Deletes # {} => Old \notin file
             /\ kpc = "filter" => acked \ Deletes \subseteq tmp \cup left /\ Old \notin tmp
             /\ kpc = "rewrite" => acked \ Deletes \subseteq tmp /\ Old \notin tmp
             /\ kpc = "broadcast" /\ ans["kc"].ok =>
                    IF kreq \in Deletes THEN Old \notin file ELSE kreq \in file

RequestsInv ==
    /\ ControlInv /\ WaitInv /\ FlightInv
    /\ OwnInv("kc", kpc, kreq) /\ OwnInv("test", tpc, tno)
    /\ StoreInv

-----------------------------------------------------------------------------
(* Types. *)

\* The answer a requester has not got yet is an answer.
LEMMA NoAnswerType == NoAnswer \in Answer
  BY DEF NoAnswer, Answer

\* The end of the loop's body leaves a test message in hand.
LEMMA NextKeyType ==
    ASSUME TypeOK, tno \in Tests, NextKey
    PROVE  /\ ans' \in [Requesters -> Answer] /\ ans'["kc"] = ans["kc"]
           /\ tno' \in Tests /\ tests' = tests
           /\ tpc' \in {"copy", "stdin"}
<1>1. ans' \in [Requesters -> Answer] /\ ans'["kc"] = ans["kc"]
  BY NoAnswerType DEF TypeOK, NextKey, Requesters
<1>2. tno' \in Tests
  BY RequestsAssumption DEF NextKey, Tests
<1> QED BY <1>1, <1>2 DEF NextKey

\* The kernel answers one of the messages under way.
LEMMA KernelAnswers ==
    ASSUME TypeOK, KernelAnswer
    PROVE  \E i \in DOMAIN queue, a \in Answer :
              /\ a.req = queue[i] /\ answers' = Append(answers, a)
              /\ table' \subseteq Lines
<1>1. PICK i \in DOMAIN queue :
          LET m == queue[i]
              del == m \in Deletes
          IN  /\ answers' = Append(answers, [req |-> m,
                                             ok |-> IF del THEN Old \in table ELSE m \notin table])
              /\ table' = IF del THEN table \ {Old} ELSE table \cup {m}
  BY Zenon DEF KernelAnswer
<1> DEFINE b == IF queue[i] \in Deletes THEN Old \in table ELSE queue[i] \notin table
           a == [req |-> queue[i], ok |-> b]
<1>2. queue[i] \in Messages
  BY DEF TypeOK
<1>3. b \in BOOLEAN
  <2>1. (Old \in table) \in BOOLEAN /\ (queue[i] \notin table) \in BOOLEAN
    OBVIOUS
  <2>2. CASE queue[i] \in Deletes
    BY <2>1, <2>2, Zenon
  <2>3. CASE queue[i] \notin Deletes
    BY <2>1, <2>3, Zenon
  <2> QED BY <2>2, <2>3
<1>4. answers' = Append(answers, a)
  BY <1>1, Zenon
<1>5. table' \subseteq Lines
  BY <1>1, <1>2 DEF TypeOK, Lines
<1> HIDE DEF b
<1>6. a \in Answer /\ a.req = queue[i]
  BY <1>2, <1>3 DEF Answer
<1> QED BY <1>4, <1>5, <1>6

LEMMA TypeStep == TypeOK /\ ControlInv /\ [Next]_vars => TypeOK'
<1> SUFFICES ASSUME TypeOK, ControlInv, [Next]_vars
             PROVE  TypeOK'
  OBVIOUS
<1>0. Reqs \subseteq Messages /\ Tests \subseteq Messages /\ Messages \subseteq Lines /\ Old \in Lines
  BY DEF Messages, Lines
<1> USE <1>0, RequestsAssumption
    DEF TypeOK, ControlInv, net, disk, test, ends, hist, Move, Pc, InHand, Other, Requesters, Exchange
<1>1. ASSUME NEW r \in Reqs, Submit(r)
      PROVE  TypeOK'
  <2>1. sender_list' \in Seq(Reqs)
    BY <1>1 DEF Submit
  <2> QED BY <1>1, <2>1 DEF Submit
<1>2. CASE Loop
  BY <1>2 DEF Loop
<1>3. CASE Check
  BY <1>3 DEF Check
<1>4. CASE Block
  BY <1>4 DEF Block
<1>5. CASE Woken
  BY <1>5 DEF Woken
<1>6. CASE Pop
  <2>1. sender_list # <<>> => Head(sender_list) \in Reqs /\ Tail(sender_list) \in Seq(Reqs)
    OBVIOUS
  <2> QED BY <1>6, <2>1 DEF Pop
<1>7. CASE Store
  BY <1>7 DEF Store
<1>8. CASE Rewrite
  BY <1>8 DEF Rewrite
<1>9. CASE Broadcast
  BY <1>9, NoAnswerType DEF Broadcast
<1>10. CASE TypeTest
  <2>1. tno' \in Tests
    BY <1>10 DEF TypeTest, Tests
  <2> QED BY <1>10, <2>1 DEF TypeTest
<1>11. CASE TestOpen
  <2>1. CASE NextKey
    BY <1>11, <2>1, NextKeyType DEF TestOpen
  <2>2. CASE UNCHANGED <<ans, test>> /\ tpc' = "append"
    BY <1>11, <2>2 DEF TestOpen
  <2> QED BY <1>11, <2>1, <2>2 DEF TestOpen
<1>29. CASE TestAppend
  <2>1. tno \in Tests /\ NextKey
    BY <1>29 DEF TestAppend
  <2> QED BY <1>29, <2>1, NextKeyType DEF TestAppend
<1>30. ASSUME NEW l \in left, FilterLine(l)
       PROVE  TypeOK'
  BY <1>30 DEF FilterLine
<1>31. CASE FilterEnd
  BY <1>31 DEF FilterEnd
<1>32. CASE JoinerReturns
  BY <1>32 DEF JoinerReturns
<1>12. CASE TypeExit
  BY <1>12 DEF TypeExit
<1>13. CASE SetExit
  BY <1>13 DEF SetExit
<1>14. CASE WakeSender
  BY <1>14 DEF WakeSender
<1>15. CASE MainJoin
  BY <1>15 DEF MainJoin
<1>16. CASE Cancel
  BY <1>16 DEF Cancel
<1>17. CASE MainJoinSender
  BY <1>17 DEF MainJoinSender
<1>18. CASE FreeList
  BY <1>18 DEF FreeList
<1>19. CASE KernelAnswer
  <2>1. PICK a \in Answer : answers' = Append(answers, a) /\ table' \subseteq Lines
    BY <1>19, KernelAnswers
  <2>2. answers' \in Seq(Answer)
    BY <2>1
  <2>3. queue' \in Seq(Messages)
    BY <1>19 DEF KernelAnswer
  <2> QED BY <1>19, <2>1, <2>2, <2>3 DEF KernelAnswer
<1>20. CASE Copy("kc")
  BY <1>20 DEF Copy
<1>21. CASE Send("kc")
  <2>1. queue' \in Seq(Messages)
    BY <1>21 DEF Send
  <2> QED BY <1>21, <2>1 DEF Send
<1>22. CASE Receive("kc")
  <2>1. Head(answers) \in Answer /\ Tail(answers) \in Seq(Answer)
    BY <1>22 DEF Receive
  <2> QED BY <1>22, <2>1 DEF Receive
<1>23. CASE Read("kc")
  BY <1>23 DEF Read
<1>24. CASE Copy("test")
  BY <1>24 DEF Copy
<1>25. CASE Send("test")
  <2>1. queue' \in Seq(Messages)
    BY <1>25 DEF Send
  <2> QED BY <1>25, <2>1 DEF Send
<1>26. CASE Receive("test")
  <2>1. Head(answers) \in Answer /\ Tail(answers) \in Seq(Answer)
    BY <1>26 DEF Receive
  <2> QED BY <1>26, <2>1 DEF Receive
<1>27. CASE Read("test")
  BY <1>27 DEF Read
<1>28. CASE UNCHANGED vars
  BY <1>28 DEF vars
<1> HIDE DEF TypeOK
<1> QED
  BY <1>1, <1>2, <1>3, <1>4, <1>5, <1>6, <1>7, <1>8, <1>9, <1>10, <1>11, <1>12,
     <1>13, <1>14, <1>15, <1>16, <1>17, <1>18, <1>19, <1>20, <1>21, <1>22, <1>23, <1>24,
     <1>25, <1>26, <1>27, <1>28, <1>29, <1>30, <1>31, <1>32
     DEF Next, SenderThread, WriterThread, ExchangeStep, Main

-----------------------------------------------------------------------------
(* The step. *)

LEMMA InvStep == TypeOK /\ RequestsInv /\ [Next]_vars => RequestsInv'
<1> SUFFICES ASSUME TypeOK, RequestsInv, [Next]_vars
             PROVE  RequestsInv'
  OBVIOUS
<1>0. Reqs \subseteq Messages /\ Tests \subseteq Messages /\ Messages \subseteq Lines /\ Old \in Lines
  BY DEF Messages, Lines
<1> USE <1>0, RequestsAssumption
    DEF TypeOK, RequestsInv, ControlInv, WaitInv, FlightInv, OwnInv, StoreInv,
        net, disk, test, ends, hist, Using, Move, Pc, InHand, Other, Requesters, Exchange, Mid, Waiting
<1>1. ASSUME NEW r \in Reqs, Submit(r)
      PROVE  RequestsInv'
  <2>1. SetOf(sender_list') = SetOf(sender_list) \cup {r} /\ sender_list' # <<>>
    BY <1>1, SetOfAppend DEF Submit
  <2> QED BY <1>1, <2>1 DEF Submit
<1>2. CASE Loop
  BY <1>2 DEF Loop
<1>3. CASE Check
  <2>1. SetOf(<<>>) = {}
    BY SetOfEmpty
  <2> QED BY <1>3, <2>1 DEF Check
<1>4. CASE Block
  BY <1>4 DEF Block
<1>5. CASE Woken
  BY <1>5 DEF Woken
<1>6. CASE Pop
  BY <1>6 DEF Pop
<1>7. CASE Store
  BY <1>7 DEF Store
<1>8. CASE Rewrite
  BY <1>8 DEF Rewrite
<1>9. CASE Broadcast
  BY <1>9 DEF Broadcast
<1>10. CASE TypeTest
  <2>1. tno' \in Tests
    BY <1>10 DEF TypeTest, Tests
  <2> QED BY <1>10, <2>1 DEF TypeTest
<1>11. CASE TestOpen
  <2>1. tpc' \in {"copy", "stdin", "append"} /\ tno' \in Tests /\ ans'["kc"] = ans["kc"]
    <3>1. CASE NextKey
      BY <1>11, <3>1, NextKeyType DEF TestOpen
    <3>2. CASE UNCHANGED <<ans, test>> /\ tpc' = "append"
      BY <1>11, <3>2 DEF TestOpen
    <3> QED BY <1>11, <3>1, <3>2 DEF TestOpen
  <2>2. tpc' = "append" => UNCHANGED <<ans, test>>
    BY <1>11 DEF TestOpen, NextKey
  <2>3. /\ ~torn' => ~torn /\ (kpc \in {"filter", "rewrite"} => tmp' = tmp)
        /\ UNCHANGED <<sender_list, pending, kpc, kreq, net, file, left, ends, mpc, locked,
                       missed, acked, mixed>>
    BY <1>11 DEF TestOpen
  <2>4. ControlInv' /\ WaitInv' /\ FlightInv'
    BY <1>11, <2>1, <2>3 DEF TestOpen
  <2>5. OwnInv("kc", kpc, kreq)' /\ OwnInv("test", tpc, tno)'
    BY <1>11, <2>1, <2>2, <2>3 DEF TestOpen
  <2>6. StoreInv'
    BY <2>1, <2>3
  <2> QED BY <2>4, <2>5, <2>6
<1>29. CASE TestAppend
  <2>1. tno \in Tests /\ NextKey /\ tno # Old
    BY <1>29 DEF TestAppend, Tests
  <2>2. tpc' \in {"copy", "stdin"} /\ tno' \in Tests /\ ans'["kc"] = ans["kc"]
    BY <2>1, NextKeyType
  <2>3. /\ file' = file \cup {tno} /\ left \subseteq left'
        /\ UNCHANGED <<sender_list, pending, kpc, kreq, net, tmp, ends, mpc, locked, hist>>
    BY <1>29 DEF TestAppend
  <2>4. ControlInv' /\ WaitInv' /\ FlightInv'
    BY <1>29, <2>2, <2>3 DEF TestAppend
  <2>5. OwnInv("kc", kpc, kreq)' /\ OwnInv("test", tpc, tno)'
    BY <2>2, <2>3
  <2>6. StoreInv'
    BY <2>1, <2>2, <2>3
  <2> QED BY <2>4, <2>5, <2>6
<1>30. ASSUME NEW l \in left, FilterLine(l)
       PROVE  RequestsInv'
  BY <1>30 DEF FilterLine
<1>31. CASE FilterEnd
  BY <1>31 DEF FilterEnd
<1>32. CASE JoinerReturns
  BY <1>32 DEF JoinerReturns
<1>12. CASE TypeExit
  BY <1>12 DEF TypeExit
<1>13. CASE SetExit
  BY <1>13 DEF SetExit
<1>14. CASE WakeSender
  BY <1>14 DEF WakeSender
<1>15. CASE MainJoin
  BY <1>15 DEF MainJoin
<1>16. CASE Cancel
  BY <1>16 DEF Cancel
<1>17. CASE MainJoinSender
  BY <1>17 DEF MainJoinSender
<1>18. CASE FreeList
  <2> QED BY <1>18 DEF FreeList
<1>19. CASE KernelAnswer
  <2>1. PICK i \in DOMAIN queue, a \in Answer :
            a.req = queue[i] /\ answers' = Append(answers, a)
    BY <1>19, KernelAnswers
  <2>2. queue[i] \in SetOf(queue) /\ SetOf(answers') = SetOf(answers) \cup {a}
    <3>1. queue[i] \in SetOf(queue)
      BY DEF SetOf
    <3> QED BY <2>1, <3>1, SetOfAppend
  <2>3. SetOf(queue') \subseteq SetOf(queue)
    BY <1>19, SetOfTail DEF KernelAnswer
  <2>4. Len(queue') + Len(answers') = Len(queue) + Len(answers)
    BY <1>19, <2>1 DEF KernelAnswer
  <2> QED BY <1>19, <2>1, <2>2, <2>3, <2>4 DEF KernelAnswer
<1>20. CASE Copy("kc")
  BY <1>20 DEF Copy
<1>21. CASE Send("kc")
  <2>1. /\ SetOf(queue') = SetOf(queue) \cup {send_buf}
        /\ Len(queue') = Len(queue) + 1
    BY <1>21, SetOfAppend DEF Send
  <2>2. Len(queue) \in Nat /\ Len(answers) \in Nat
    OBVIOUS
  <2>3. Len(queue) + Len(answers) = 0 => SetOf(queue) = {} /\ SetOf(answers) = {}
    BY <2>2, SetOfEmpty
  <2> QED BY <1>21, <2>1, <2>2, <2>3 DEF Send
<1>22. CASE Receive("kc")
  <2>1. /\ Head(answers) \in SetOf(answers) /\ SetOf(answers') \subseteq SetOf(answers)
        /\ Len(answers') = Len(answers) - 1
    BY <1>22, SetOfTail DEF Receive
  <2>2. Len(queue) \in Nat /\ Len(answers) \in Nat
    OBVIOUS
  <2> QED BY <1>22, <2>1, <2>2 DEF Receive
<1>23. CASE Read("kc")
  BY <1>23 DEF Read
<1>24. CASE Copy("test")
  BY <1>24 DEF Copy
<1>25. CASE Send("test")
  <2>1. /\ SetOf(queue') = SetOf(queue) \cup {send_buf}
        /\ Len(queue') = Len(queue) + 1
    BY <1>25, SetOfAppend DEF Send
  <2>2. Len(queue) \in Nat /\ Len(answers) \in Nat
    OBVIOUS
  <2>3. Len(queue) + Len(answers) = 0 => SetOf(queue) = {} /\ SetOf(answers) = {}
    BY <2>2, SetOfEmpty
  <2> QED BY <1>25, <2>1, <2>2, <2>3 DEF Send
<1>26. CASE Receive("test")
  <2>1. /\ Head(answers) \in SetOf(answers) /\ SetOf(answers') \subseteq SetOf(answers)
        /\ Len(answers') = Len(answers) - 1
    BY <1>26, SetOfTail DEF Receive
  <2>2. Len(queue) \in Nat /\ Len(answers) \in Nat
    OBVIOUS
  <2> QED BY <1>26, <2>1, <2>2 DEF Receive
<1>27. CASE Read("test")
  BY <1>27 DEF Read
<1>28. CASE UNCHANGED vars
  BY <1>28 DEF vars
<1> HIDE DEF TypeOK, RequestsInv
<1> QED
  BY <1>1, <1>2, <1>3, <1>4, <1>5, <1>6, <1>7, <1>8, <1>9, <1>10, <1>11, <1>12,
     <1>13, <1>14, <1>15, <1>16, <1>17, <1>18, <1>19, <1>20, <1>21, <1>22, <1>23, <1>24,
     <1>25, <1>26, <1>27, <1>28, <1>29, <1>30, <1>31, <1>32
     DEF Next, SenderThread, WriterThread, ExchangeStep, Main

-----------------------------------------------------------------------------
(* The theorems. *)

LEMMA InvInit == Init => TypeOK /\ RequestsInv
<1> SUFFICES ASSUME Init
             PROVE  TypeOK /\ RequestsInv
  OBVIOUS
<1>1. <<>> \in Seq(Reqs) /\ <<>> \in Seq(Messages) /\ <<>> \in Seq(Answer) /\ Len(<<>>) = 0 /\ SetOf(<<>>) = {}
  BY SetOfEmpty
<1>2. TypeOK
  <2>1. ans \in [Requesters -> Answer] /\ receive_buf \in Answer
    BY NoAnswerType DEF Init
  <2>2. /\ sender_list \in Seq(Reqs) /\ queue \in Seq(Messages) /\ answers \in Seq(Answer)
        /\ table \subseteq Lines /\ file \subseteq Lines /\ tmp \subseteq Lines /\ left \subseteq Lines
    BY <1>1 DEF Init, Lines
  <2>3. tests \in 0..MaxTests
    BY RequestsAssumption DEF Init
  <2> QED BY <2>1, <2>2, <2>3 DEF Init, TypeOK, Exchange
<1>3. RequestsInv
  BY <1>1 DEF Init, RequestsInv, ControlInv, WaitInv, FlightInv, OwnInv, StoreInv, Exchange,
              Using, Mid, Waiting
<1> QED BY <1>2, <1>3

LEMMA Invariance == Spec => [](TypeOK /\ RequestsInv)
<1>1. TypeOK /\ RequestsInv /\ [Next]_vars => (TypeOK /\ RequestsInv)'
  BY TypeStep, InvStep DEF RequestsInv
<1> QED BY InvInit, <1>1, PTL DEF Spec

\* kernel_communication's llist_removefirst_PDU never meets an empty list.
THEOREM SenderHasWork == Spec => []PopFindsWork
<1>1. RequestsInv => PopFindsWork
  BY DEF RequestsInv, WaitInv, PopFindsWork
<1> QED BY Invariance, <1>1, PTL

\* Only requests inserted between llist_isEmpty and pthread_cond_wait can be
\* waiting on sender_list while kernel_communication sleeps.
THEOREM SleepsOnMissedOnly == Spec => []SleepsOnlyOnMissed
<1>1. RequestsInv => SleepsOnlyOnMissed
  BY DEF RequestsInv, WaitInv, SleepsOnlyOnMissed, Queued, SetOf
<1> QED BY Invariance, <1>1, PTL

\* An exchange that does not overlap one of test_function gets its own answer,
\* whatever earlier overlaps did to nlh_user_send, nlh_user_receive and the
\* sockets.
THEOREM AnswersMatch == Spec => []AnswerMatches
<1>1. RequestsInv => AnswerMatches
  BY DEF RequestsInv, OwnInv, AnswerMatches, Requesters, Pc, InHand
<1> QED BY Invariance, <1>1, PTL

\* store_data keeps what was answered, unless the load test opens TMP_FILE while
\* a deletion uses it or the thread is cancelled while it copies back.
THEOREM AckedAreKept == Spec => []AckedKept
<1>1. RequestsInv => AckedKept
  BY DEF RequestsInv, StoreInv, AckedKept
<1> QED BY Invariance, <1>1, PTL
=============================================================================
