-------------------------- MODULE ThreadPoolProofs --------------------------
(***************************************************************************)
(* Proofs about ThreadPool, for every number of threads and connections,   *)
(* with and without spurious wake-ups and abrupt clients.                  *)
(***************************************************************************)
EXTENDS ThreadPool, SeqLemmas, TLAPS

-----------------------------------------------------------------------------
(* The inductive invariant. *)

Available == SetOf(availableThreads)
Terminated == SetOf(terminatedThreads)
Registered == SetOf(clients_sockets)

Serving(c) == lpc[c] \in {"join", "loop"}
Ending(c) == lpc[c] \in {"bcast", "scan", "walk", "done"}

\* On the list, told to QUIT, or perhaps removed in the place of another.
Tracked == Registered \cup quit \cup UNION {reused[d] : d \in Conns}

\* The clientThreadInfo of connection c stands for its thread number.
Holds(c) == Serving(c) \/ c \in Terminated

\* The acceptor has a connection in hand that no other thread knows of yet,
\* and from find_free_thread on a thread number.
AcceptorInv ==
    /\ apc \in {"find", "flag", "insert", "create", "refuse"}
            => acur \in Conns /\ lpc[acur] = "none" /\ sock[acur] # "none"
    /\ apc \in {"flag", "insert", "create", "refuse"} <=> aslot # None
    /\ apc = "create" => thread_num[acur] = aslot
    /\ apc = "refuse" => closeAllClients
    /\ \A c \in Conns : sock[c] = "none" => lpc[c] = "none"
    /\ apc = "fill" => /\ jslot = None /\ terminatedThreads = <<>>
                       /\ \A c \in Conns : lpc[c] = "none"

\* A departing listener is on terminatedThreads until join_threads takes it
\* off, frees its clientThreadInfo and waits for it.
ListenerInv ==
    \A c \in Conns :
        /\ c \in Terminated => Ending(c) /\ c \notin freed
        /\ c \in freed => Ending(c) \/ lpc[c] = "joined"
        /\ Ending(c) => c \in Terminated \/ (jpc = "join" /\ clientThreads[jslot] = c)

JoinerInv ==
    /\ jpc \in {"join", "put"} <=> jslot # None
    /\ jpc = "join" => clientThreads[jslot] \in freed /\ Ending(clientThreads[jslot])

\* No thread number is in two hands, and the one a listener holds leads back
\* to it through clientThreads.
SlotInv ==
    /\ NoRepeats(availableThreads) /\ NoRepeats(terminatedThreads)
    /\ \A c \in Conns : Holds(c) => /\ thread_num[c] \in Slots \ Available
                                    /\ clientThreads[thread_num[c]] = c
                                    /\ thread_num[c] # aslot /\ thread_num[c] # jslot
    /\ aslot # None => aslot \notin Available /\ aslot # jslot
    /\ jslot # None => jslot \notin Available

\* No thread number is lost before connections are refused.
KeptInv ==
    apc # "fill" /\ ~closeAllClients =>
        \A s \in Slots : \/ s \in Available \/ s = aslot \/ s = jslot
                         \/ \E c \in Conns : Holds(c) /\ thread_num[c] = s

WriterInv ==
    /\ wpc \in {"length", "block", "sleep", "exit", "wake", "done"} => closeAllClients
    /\ wpc \in {"wake", "done"} => exitServer

RegisteredInv ==
    /\ \A c \in Conns : Serving(c) => c \in Tracked
    /\ apc = "create" => acur \in Tracked

\* A wake-up that is not spurious means work or the end.
WakeInv ==
    ~SpuriousWakeups => /\ crashed # "joiner"
                        /\ jpc = "pop" => terminatedThreads # <<>>
                        /\ jpc = "woken" => terminatedThreads # <<>> \/ exitServer

PoolInv ==
    /\ AcceptorInv /\ ListenerInv /\ JoinerInv /\ SlotInv /\ KeptInv
    /\ WriterInv /\ RegisteredInv /\ WakeInv /\ ExitAfterAllJoined

-----------------------------------------------------------------------------
(* Types. *)

\* The operators of ThreadPool on lists are those of the lemmas.
LEMMA ListOperators ==
    /\ \A s : Elements(s) = SetOf(s)
    /\ \A s, i : RemoveIndex(s, i) = Without(s, i)
  BY DEF Elements, SetOf, RemoveIndex, Without

\* What is added to a list and taken from one has the type of its entries.
LEMMA ListTypes ==
    ASSUME TypeOK
    PROVE  /\ \A s \in Slots : Append(availableThreads, s) \in Seq(Slots)
           /\ \A c \in Conns : /\ Append(clients_sockets, c) \in Seq(Conns)
                              /\ <<c>> \o terminatedThreads \in Seq(Conns)
           /\ availableThreads # <<>> =>
                  Head(availableThreads) \in Slots /\ Tail(availableThreads) \in Seq(Slots)
           /\ terminatedThreads # <<>> =>
                  Head(terminatedThreads) \in Conns /\ Tail(terminatedThreads) \in Seq(Conns)
           /\ clients_sockets # <<>> =>
                  Head(clients_sockets) \in Conns /\ Tail(clients_sockets) \in Seq(Conns)
           /\ \A i \in DOMAIN clients_sockets : RemoveIndex(clients_sockets, i) \in Seq(Conns)
<1>1. /\ availableThreads \in Seq(Slots) /\ terminatedThreads \in Seq(Conns)
      /\ clients_sockets \in Seq(Conns)
  BY DEF TypeOK
<1>2. \A i \in DOMAIN clients_sockets : RemoveIndex(clients_sockets, i) \in Seq(Conns)
  BY <1>1, ListOperators, SetOfWithout
<1>3. \A c \in Conns : <<c>> \o terminatedThreads \in Seq(Conns)
  BY <1>1, SetOfCons
<1>4. \A s \in Slots : Append(availableThreads, s) \in Seq(Slots)
  BY <1>1
<1>5. \A c \in Conns : Append(clients_sockets, c) \in Seq(Conns)
  BY <1>1
<1> QED BY <1>1, <1>2, <1>3, <1>4, <1>5

\* What a search has seen is a removal, an insertion or both.
LEMMA SeenType ==
    ASSUME TypeOK
    PROVE  \A c : SeenRemoval(c) \in [Conns -> SUBSET {"removed", "added"}]
  BY DEF TypeOK, SeenRemoval

\* TypeOK alone is not inductive: the connection and the number the acceptor
\* stores have to be there.
LEMMA TypeStep == TypeOK /\ AcceptorInv /\ JoinerInv /\ [Next]_vars => TypeOK'
<1> SUFFICES ASSUME TypeOK, AcceptorInv, JoinerInv, [Next]_vars
             PROVE  TypeOK'
  OBVIOUS
<1> USE PoolAssumption, ListTypes DEF TypeOK, lists, registry, flags, peers, avars, jvars,
        BroadcastTerminated, BroadcastAvailable, AcceptorInv, JoinerInv
<1>1. CASE FillAvailable
  <2>1. availableThreads' \in Seq(Slots)
    <3>1. \/ UNCHANGED availableThreads
          \/ \E s \in Slots : availableThreads' = Append(availableThreads, s)
      BY <1>1, Zenon DEF FillAvailable
    <3> QED BY <3>1
  <2> QED BY <1>1, <2>1 DEF FillAvailable
<1>2. CASE find_free_thread
  BY <1>2 DEF find_free_thread
<1>3. CASE ServerFull
  BY <1>3 DEF ServerFull
<1>4. CASE TestCloseFlag
  BY <1>4 DEF TestCloseFlag
<1>5. CASE InsertClient
  BY <1>5 DEF InsertClient
<1>6. CASE CreateListener
  BY <1>6 DEF CreateListener
<1>7. CASE RefuseClient
  BY <1>7 DEF RefuseClient
<1>8. CASE AcceptCancelled
  BY <1>8 DEF AcceptCancelled
<1>9. CASE JoinerCheck
  BY <1>9 DEF JoinerCheck
<1>10. CASE JoinerBlock
  BY <1>10 DEF JoinerBlock
<1>11. CASE JoinerWoken
  BY <1>11 DEF JoinerWoken
<1>12. CASE JoinerPop
  <2>1. terminatedThreads' \in Seq(Conns) /\ freed' \subseteq Conns
    BY <1>12 DEF JoinerPop
  <2>2. jslot' \in Slots \cup {None} /\ jpc' \in {"pop", "join"} /\ crashed' \in {"no", crashed, "joiner"}
    BY <1>12 DEF JoinerPop
  <2> QED BY <1>12, <2>1, <2>2 DEF JoinerPop
<1>13. CASE JoinerJoin
  BY <1>13 DEF JoinerJoin
<1>14. CASE JoinerPut
  BY <1>14 DEF JoinerPut
<1>15. CASE DrainCheck
  BY <1>15 DEF DrainCheck
<1>16. CASE DrainPop
  <2>1. clients_sockets' \in Seq(Conns) /\ quit' \subseteq Conns
    BY <1>16 DEF DrainPop
  <2>2. seen' \in [Conns -> SUBSET {"removed", "added"}]
    BY <1>16, SeenType DEF DrainPop
  <2> QED BY <1>16, <2>1, <2>2 DEF DrainPop
<1>17. CASE SetCloseFlag
  BY <1>17 DEF SetCloseFlag
<1>18. CASE CheckLength
  BY <1>18 DEF CheckLength
<1>19. CASE WriterBlock
  BY <1>19 DEF WriterBlock
<1>20. CASE SetExitFlag
  BY <1>20 DEF SetExitFlag
<1>21. CASE WakeJoiner
  BY <1>21 DEF WakeJoiner
<1>22. CASE MainJoin
  BY <1>22 DEF MainJoin
<1>23. CASE MainEnd
  BY <1>23 DEF MainEnd
<1>24. CASE TypeExit
  BY <1>24 DEF TypeExit
<1>25. CASE JoinerSpurious
  BY <1>25 DEF JoinerSpurious
<1>26. CASE WriterSpurious
  BY <1>26 DEF WriterSpurious
<1>27. ASSUME NEW c \in Conns, Accept(c)
      PROVE  TypeOK'
  BY <1>27 DEF Accept
<1>28. ASSUME NEW c \in Conns, ListenerJoin(c)
      PROVE  TypeOK'
  BY <1>28 DEF ListenerJoin
<1>29. ASSUME NEW c \in Conns, ListenerTerminate(c)
      PROVE  TypeOK'
  BY <1>29 DEF ListenerTerminate
<1>30. ASSUME NEW c \in Conns, ListenerReset(c)
      PROVE  TypeOK'
  BY <1>30 DEF ListenerReset
<1>31. ASSUME NEW c \in Conns, ListenerBroadcast(c)
      PROVE  TypeOK'
  BY <1>31 DEF ListenerBroadcast
<1>32. ASSUME NEW c \in Conns, ListenerScan(c)
      PROVE  TypeOK'
  <2>1. clients_sockets' \in Seq(Conns)
    BY <1>32 DEF ListenerScan
  <2>2. seen' \in [Conns -> SUBSET {"removed", "added"}]
    BY <1>32, SeenType DEF ListenerScan
  <2> QED BY <1>32, <2>1, <2>2 DEF ListenerScan
<1>37. ASSUME NEW c \in Conns, ListenerFirst(c)
      PROVE  TypeOK'
  BY <1>37 DEF ListenerFirst
<1>33. ASSUME NEW c \in Conns, Connect(c)
      PROVE  TypeOK'
  BY <1>33 DEF Connect
<1>34. ASSUME NEW c \in Conns, SendJoin(c)
      PROVE  TypeOK'
  BY <1>34 DEF SendJoin
<1>35. ASSUME NEW c \in Conns, Leave(c)
      PROVE  TypeOK'
  BY <1>35 DEF Leave
<1>36. CASE UNCHANGED vars
  BY <1>36 DEF vars
<1> QED
  BY <1>1, <1>2, <1>3, <1>4, <1>5, <1>6, <1>7, <1>8, <1>9, <1>10, <1>11, <1>12, <1>13, <1>14,
      <1>15, <1>16, <1>17, <1>18, <1>19, <1>20, <1>21, <1>22, <1>23, <1>24, <1>25, <1>26, <1>27,
      <1>28, <1>29, <1>30, <1>31, <1>32, <1>33, <1>34, <1>35, <1>36, <1>37
     DEF Next, Acceptor, Listener, Joiner, Writer, Main, Client

-----------------------------------------------------------------------------
(* The step. *)

LEMMA InvStep == TypeOK /\ PoolInv /\ [Next]_vars => PoolInv'
<1> SUFFICES ASSUME TypeOK, PoolInv, [Next]_vars
             PROVE  PoolInv'
  OBVIOUS
<1>0. TypeOK'
  BY TypeStep DEF PoolInv
<1> USE PoolAssumption DEF PoolInv, lists, registry, flags, peers, avars, jvars,
        BroadcastTerminated, BroadcastAvailable
<1>1. CASE FillAvailable
  <2>a. \A d \in Conns : ~Holds(d)
    BY <1>1, SetOfEmpty DEF FillAvailable, AcceptorInv, Holds, Serving, Terminated
  <2>b. jslot = None /\ aslot = None
    BY <1>1 DEF FillAvailable, AcceptorInv
  <2>c. CASE UNCHANGED availableThreads /\ Slots \subseteq Available /\ apc' = "accept" /\ UNCHANGED wpc
    BY <1>1, <2>a, <2>b, <2>c
       DEF FillAvailable, TypeOK, AcceptorInv, ListenerInv, JoinerInv, SlotInv,
           KeptInv, WriterInv, RegisteredInv, WakeInv, ExitAfterAllJoined, Serving,
           Ending, Holds, Available, Terminated, Registered, Tracked
  <2>d. ASSUME NEW s \in Slots \ Available, availableThreads' = Append(availableThreads, s),
               wpc' = (IF wpc = "sleep" THEN "length" ELSE wpc), UNCHANGED apc
        PROVE  PoolInv'
    <3>1. Available' = Available \cup {s} /\ NoRepeats(availableThreads')
      BY <2>d, SetOfAppend DEF SlotInv, TypeOK, Available
    <3> QED BY <1>1, <2>a, <2>b, <2>d, <3>1
               DEF FillAvailable, TypeOK, AcceptorInv, ListenerInv, JoinerInv,
                   SlotInv, KeptInv, WriterInv, RegisteredInv, WakeInv,
                   ExitAfterAllJoined, Serving, Ending, Holds, Available,
                   Terminated, Registered, Tracked
  <2> QED BY <1>1, <2>c, <2>d, ListOperators DEF FillAvailable, Available
<1>2. CASE find_free_thread
  <2>a. /\ Available = Available' \cup {aslot'} /\ aslot' \notin Available' /\ aslot' \in Slots
        /\ NoRepeats(availableThreads')
    BY <1>2, SetOfTail DEF find_free_thread, SlotInv, TypeOK, Available
  <2>1. AcceptorInv'
    BY <1>2, <2>a DEF find_free_thread, TypeOK, AcceptorInv
  <2>2. ListenerInv'
    BY <1>2, <2>a
       DEF find_free_thread, TypeOK, ListenerInv, JoinerInv, SlotInv, Ending, Holds,
           Terminated
  <2>3. JoinerInv'
    BY <1>2, <2>a
       DEF find_free_thread, TypeOK, JoinerInv, AcceptorInv, ListenerInv, SlotInv,
           Ending, Holds, Terminated
  <2>4. SlotInv'
    BY <1>2, <2>a
       DEF find_free_thread, TypeOK, SlotInv, AcceptorInv, JoinerInv, ListenerInv,
           Serving, Ending, Holds, Available, Terminated
  <2>5. KeptInv'
    BY <1>2, <2>a
       DEF find_free_thread, TypeOK, KeptInv, AcceptorInv, JoinerInv, SlotInv,
           ListenerInv, Serving, Holds, Available, Terminated
  <2>6. WriterInv'
    BY <1>2, <2>a DEF find_free_thread, TypeOK, WriterInv
  <2>7. RegisteredInv'
    BY <1>2, <2>a DEF find_free_thread, TypeOK, RegisteredInv, Serving, Registered, Tracked
  <2>8. WakeInv'
    BY <1>2, <2>a DEF find_free_thread, TypeOK, WakeInv
  <2>9. ExitAfterAllJoined'
    BY <1>2, <2>a DEF find_free_thread, TypeOK, ExitAfterAllJoined
  <2> QED BY <2>1, <2>2, <2>3, <2>4, <2>5, <2>6, <2>7, <2>8, <2>9
<1>3. CASE InsertClient
  <2>c. Registered' = Registered \cup {acur}
    BY <1>3, SetOfAppend DEF InsertClient, AcceptorInv, TypeOK, Registered
  <2>d. \A d \in Conns : reused[d] \subseteq reused'[d]
    BY <1>3 DEF InsertClient, TypeOK
  <2>a. Tracked \subseteq Tracked' /\ acur \in Tracked'
    BY <1>3, <2>c, <2>d DEF InsertClient, Tracked
  <2>b. \A d \in Conns : Holds(d) => d # acur
    BY <1>3 DEF InsertClient, AcceptorInv, ListenerInv, Holds, Serving, Ending
  <2>1. AcceptorInv'
    BY <1>3, <2>b DEF InsertClient, TypeOK, AcceptorInv, SlotInv
  <2>2. ListenerInv'
    BY <1>3, <2>b DEF InsertClient, TypeOK, ListenerInv, Ending, Terminated
  <2>3. JoinerInv'
    BY <1>3, <2>b DEF InsertClient, TypeOK, JoinerInv, Ending
  <2>4. SlotInv'
    BY <1>3, <2>b DEF InsertClient, TypeOK, AcceptorInv, SlotInv, Serving, Holds, Available, Terminated
  <2>5. KeptInv'
    BY <1>3, <2>b DEF InsertClient, TypeOK, KeptInv, Serving, Holds, Available, Terminated
  <2>6. RegisteredInv'
    BY <1>3, <2>a DEF InsertClient, TypeOK, RegisteredInv, Serving
  <2>7. WriterInv' /\ WakeInv' /\ ExitAfterAllJoined'
    BY <1>3, <2>b DEF InsertClient, TypeOK, WriterInv, WakeInv, ExitAfterAllJoined
  <2> QED BY <2>1, <2>2, <2>3, <2>4, <2>5, <2>6, <2>7
<1>4. CASE JoinerPop
  <2>a. CASE terminatedThreads = <<>>
    BY <1>4, <2>a
       DEF JoinerPop, TypeOK, AcceptorInv, ListenerInv, JoinerInv, SlotInv, KeptInv,
           WriterInv, RegisteredInv, WakeInv, ExitAfterAllJoined, Serving, Ending,
           Holds, Available, Terminated, Registered, Tracked
  <2>b. CASE terminatedThreads # <<>>
    <3> DEFINE h == Head(terminatedThreads)
    <3>1. /\ h \in Conns /\ Terminated = Terminated' \cup {h} /\ h \notin Terminated'
          /\ NoRepeats(terminatedThreads')
      <4>1. terminatedThreads \in Seq(Conns) /\ NoRepeats(terminatedThreads)
        BY DEF SlotInv, TypeOK
      <4>2. terminatedThreads' = Tail(terminatedThreads)
        BY <1>4, <2>b DEF JoinerPop
      <4> QED BY <2>b, <4>1, <4>2, SetOfTail DEF Terminated
    <3>2. /\ jslot' = thread_num[h] /\ freed' = freed \cup {h} /\ jpc' = "join" /\ UNCHANGED crashed
      BY <1>4, <2>b DEF JoinerPop
    <3> HIDE DEF h
    <3>3. AcceptorInv'
      BY <1>4, <2>b, <3>1, <3>2 DEF JoinerPop, TypeOK, AcceptorInv
    <3>4. ListenerInv'
      BY <1>4, <2>b, <3>1, <3>2
         DEF JoinerPop, TypeOK, ListenerInv, JoinerInv, SlotInv, Ending, Holds,
             Terminated
    <3>5. JoinerInv'
      BY <1>4, <2>b, <3>1, <3>2
         DEF JoinerPop, TypeOK, JoinerInv, AcceptorInv, ListenerInv, SlotInv,
             Ending, Holds, Terminated
    <3>6. SlotInv'
      <4>1. UNCHANGED <<availableThreads, thread_num, clientThreads, lpc, aslot>> /\ jslot = None
        BY <1>4 DEF JoinerPop, JoinerInv
      <4>2. \A d \in Conns : Holds(d)' => Holds(d) /\ d # h
        BY <3>1, <4>1 DEF Holds, Serving, ListenerInv, Ending
      <4>3. Holds(h) /\ thread_num[h] \in Slots \ Available /\ clientThreads[thread_num[h]] = h
        BY <3>1 DEF SlotInv, Holds
      <4>4. aslot # None => aslot # thread_num[h]
        BY <3>1, <4>3 DEF SlotInv
      <4> QED BY <3>1, <3>2, <4>1, <4>2, <4>3, <4>4 DEF SlotInv, Available
    <3>7. KeptInv'
      BY <1>4, <2>b, <3>1, <3>2
         DEF JoinerPop, TypeOK, KeptInv, AcceptorInv, JoinerInv, SlotInv,
             ListenerInv, Serving, Holds, Available, Terminated
    <3>8. WriterInv'
      BY <1>4, <2>b, <3>1, <3>2 DEF JoinerPop, TypeOK, WriterInv
    <3>9. RegisteredInv'
      BY <1>4, <2>b, <3>1, <3>2
         DEF JoinerPop, TypeOK, RegisteredInv, Serving, Registered, Tracked
    <3>10. WakeInv'
      BY <1>4, <2>b, <3>1, <3>2 DEF JoinerPop, TypeOK, WakeInv
    <3>11. ExitAfterAllJoined'
      BY <1>4, <2>b, <3>1, <3>2 DEF JoinerPop, TypeOK, ExitAfterAllJoined
    <3> QED BY <3>3, <3>4, <3>5, <3>6, <3>7, <3>8, <3>9, <3>10, <3>11
  <2> QED BY <2>a, <2>b
<1>5. CASE JoinerPut
  <2>a. Available' = Available \cup {jslot} /\ NoRepeats(availableThreads') /\ jslot \in Slots
    BY <1>5, SetOfAppend DEF JoinerPut, JoinerInv, SlotInv, TypeOK, Available
  <2> QED
    BY <1>0, <1>5, <2>a
       DEF JoinerPut, TypeOK, AcceptorInv, ListenerInv, JoinerInv, SlotInv, KeptInv,
           WriterInv, RegisteredInv, WakeInv, ExitAfterAllJoined, Serving, Ending,
           Holds, Available, Terminated, Registered, Tracked
<1>6. CASE CheckLength
  <2>a. ASSUME wpc' = "exit"
        PROVE  Slots \subseteq Available
    <3>1. Len(availableThreads) >= Cardinality(Slots)
      BY <1>6, <2>a, FS_CardinalityType DEF CheckLength, TypeOK
    <3> QED BY <3>1, FullList DEF SlotInv, TypeOK, Available
  <2> QED
    BY <1>0, <1>6, <2>a
       DEF CheckLength, TypeOK, AcceptorInv, ListenerInv, JoinerInv, SlotInv,
           KeptInv, WriterInv, RegisteredInv, WakeInv, ExitAfterAllJoined, Serving,
           Ending, Holds, Available, Terminated, Registered, Tracked
<1>7. ASSUME NEW c \in Conns, ListenerTerminate(c)
      PROVE  PoolInv'
  <2>a. c \notin Terminated
    BY <1>7 DEF ListenerTerminate, ListenerInv, Ending
  <2>b. /\ Terminated' = Terminated \cup {c} /\ NoRepeats(terminatedThreads')
        /\ terminatedThreads' # <<>>
    BY <1>7, <2>a, SetOfCons DEF ListenerTerminate, SlotInv, TypeOK, Terminated
  <2> QED
    BY <1>0, <1>7, <2>a, <2>b
       DEF ListenerTerminate, TypeOK, AcceptorInv, ListenerInv, JoinerInv, SlotInv,
           KeptInv, WriterInv, RegisteredInv, WakeInv, ExitAfterAllJoined, Serving,
           Ending, Holds, Available, Terminated, Registered, Tracked
<1>8. ASSUME NEW c \in Conns, ListenerBroadcast(c)
      PROVE  PoolInv'
  <2>a. jpc = "sleep" => terminatedThreads # <<>>
    BY <1>8, SetOfEmpty DEF ListenerBroadcast, ListenerInv, Ending, Terminated
  <2> QED
    BY <1>0, <1>8, <2>a
       DEF ListenerBroadcast, TypeOK, AcceptorInv, ListenerInv, JoinerInv, SlotInv,
           KeptInv, WriterInv, RegisteredInv, WakeInv, ExitAfterAllJoined, Serving,
           Ending, Holds, Available, Terminated, Registered, Tracked
<1>9. ASSUME NEW c \in Conns, ListenerScan(c)
      PROVE  PoolInv'
  <2>a. \A d \in Registered : d \notin freed \cup {c} \cup reused[c] => d \in Registered'
    BY <1>9, SetOfWithout, ListOperators DEF ListenerScan, TypeOK, Registered
  <2>b. \A d \in Conns : Serving(d) \/ lpc[d] = "none" => d \notin freed \cup {c}
    BY <1>9 DEF ListenerScan, ListenerInv, Serving, Ending
  <2>c. \A d \in Tracked : d \notin freed \cup {c} => d \in Tracked'
    BY <1>9, <2>a DEF ListenerScan, Tracked
  <2>d. RegisteredInv'
    BY <1>9, <2>b, <2>c DEF ListenerScan, TypeOK, AcceptorInv, RegisteredInv, Serving
  <2>e. /\ lpc' = lpc \/ lpc' = [lpc EXCEPT ![c] = "done"]
        /\ lpc[c] = "walk" /\ crashed' \in {crashed, "search"}
    BY <1>9 DEF ListenerScan
  <2>f. \A d \in Conns : /\ Serving(d)' <=> Serving(d)
                         /\ Ending(d)' <=> Ending(d)
                         /\ \A v \in {"none", "joined"} : lpc'[d] = v <=> lpc[d] = v
    BY <2>e DEF TypeOK, Serving, Ending
  <2>g. UNCHANGED <<availableThreads, terminatedThreads, freed, thread_num, clientThreads, flags,
                    sock, avars, jvars, wpc>>
    BY <1>9 DEF ListenerScan
  <2>1. AcceptorInv'
    BY <2>f, <2>g DEF TypeOK, AcceptorInv
  <2>2. ListenerInv' /\ JoinerInv'
    BY <2>f, <2>g DEF TypeOK, ListenerInv, JoinerInv, Terminated
  <2>4. SlotInv' /\ KeptInv'
    BY <2>f, <2>g DEF SlotInv, KeptInv, Holds, Available, Terminated
  <2>7. WriterInv' /\ WakeInv' /\ ExitAfterAllJoined'
    BY <2>e, <2>f, <2>g DEF TypeOK, WriterInv, WakeInv, ExitAfterAllJoined
  <2> QED BY <2>d, <2>1, <2>2, <2>4, <2>7
<1>37. CASE DrainPop
  <2>a. \A d \in Registered : d \notin freed => d \in Registered' \cup quit'
    <3>1. CASE clients_sockets = <<>>
      BY <1>37, <3>1, SetOfEmpty DEF Registered
    <3>2. CASE clients_sockets # <<>>
      <4>1. Registered = {Head(clients_sockets)} \cup SetOf(Tail(clients_sockets))
        BY <3>2, SetOfTail DEF TypeOK, Registered
      <4>2. /\ clients_sockets' = Tail(clients_sockets)
            /\ quit' = quit \cup ({Head(clients_sockets)} \ freed)
        BY <1>37, <3>2 DEF DrainPop
      <4> QED BY <4>1, <4>2 DEF Registered
    <3> QED BY <3>1, <3>2
  <2>b. \A d \in Conns : Serving(d) \/ lpc[d] = "none" => d \notin freed
    BY DEF ListenerInv, Serving, Ending
  <2>c. \A d \in Tracked : d \notin freed => d \in Tracked'
    BY <1>37, <2>a DEF DrainPop, Tracked
  <2>d. RegisteredInv'
    BY <1>37, <2>b, <2>c DEF DrainPop, TypeOK, AcceptorInv, RegisteredInv, Serving
  <2> QED
    BY <1>0, <1>37, <2>d
       DEF DrainPop, TypeOK, AcceptorInv, ListenerInv, JoinerInv, SlotInv,
           KeptInv, WriterInv, WakeInv, ExitAfterAllJoined, Serving,
           Ending, Holds, Available, Terminated

\* The other actions leave the lists alone.
<1> USE <1>0 DEF TypeOK, AcceptorInv, ListenerInv, JoinerInv, SlotInv, KeptInv, WriterInv,
        RegisteredInv, WakeInv, ExitAfterAllJoined, Serving, Ending, Holds,
        Available, Terminated, Registered, Tracked
<1>10. CASE ServerFull
  BY <1>10 DEF ServerFull
<1>11. CASE TestCloseFlag
  BY <1>11 DEF TestCloseFlag
<1>12. CASE CreateListener
  BY <1>12 DEF CreateListener
<1>13. CASE RefuseClient
  BY <1>13 DEF RefuseClient
<1>14. CASE AcceptCancelled
  BY <1>14 DEF AcceptCancelled
<1>15. CASE JoinerCheck
  BY <1>15 DEF JoinerCheck
<1>16. CASE JoinerBlock
  BY <1>16 DEF JoinerBlock
<1>17. CASE JoinerWoken
  BY <1>17 DEF JoinerWoken
<1>18. CASE JoinerJoin
  BY <1>18 DEF JoinerJoin
<1>19. CASE DrainCheck
  BY <1>19 DEF DrainCheck
<1>20. ASSUME NEW c \in Conns, ListenerFirst(c)
      PROVE  PoolInv'
  BY <1>20 DEF ListenerFirst
<1>21. CASE SetCloseFlag
  BY <1>21 DEF SetCloseFlag
<1>22. CASE WriterBlock
  BY <1>22 DEF WriterBlock
<1>23. CASE SetExitFlag
  BY <1>23 DEF SetExitFlag
<1>24. CASE WakeJoiner
  BY <1>24 DEF WakeJoiner
<1>25. CASE MainJoin
  BY <1>25 DEF MainJoin
<1>26. CASE MainEnd
  BY <1>26 DEF MainEnd
<1>27. CASE TypeExit
  BY <1>27 DEF TypeExit
<1>28. CASE JoinerSpurious
  BY <1>28 DEF JoinerSpurious
<1>29. CASE WriterSpurious
  BY <1>29 DEF WriterSpurious
<1>30. ASSUME NEW c \in Conns, Accept(c)
      PROVE  PoolInv'
  BY <1>30 DEF Accept
<1>31. ASSUME NEW c \in Conns, ListenerJoin(c)
      PROVE  PoolInv'
  BY <1>31 DEF ListenerJoin
<1>32. ASSUME NEW c \in Conns, ListenerReset(c)
      PROVE  PoolInv'
  BY <1>32 DEF ListenerReset
<1>33. ASSUME NEW c \in Conns, Connect(c)
      PROVE  PoolInv'
  BY <1>33 DEF Connect
<1>34. ASSUME NEW c \in Conns, SendJoin(c)
      PROVE  PoolInv'
  BY <1>34 DEF SendJoin
<1>35. ASSUME NEW c \in Conns, Leave(c)
      PROVE  PoolInv'
  BY <1>35 DEF Leave
<1>36. CASE UNCHANGED vars
  BY <1>36 DEF vars
<1> HIDE DEF TypeOK, PoolInv
<1> QED
  BY <1>1, <1>2, <1>3, <1>4, <1>5, <1>6, <1>7, <1>8, <1>9, <1>10, <1>11, <1>12,
     <1>13, <1>14, <1>15, <1>16, <1>17, <1>18, <1>19, <1>20, <1>21, <1>22, <1>23, <1>24,
     <1>25, <1>26, <1>27, <1>28, <1>29, <1>30, <1>31, <1>32, <1>33, <1>34, <1>35, <1>36, <1>37
     DEF Next, Acceptor, Listener, Joiner, Writer, Main, Client

-----------------------------------------------------------------------------
(* The theorems. *)

LEMMA InvInit == Init => TypeOK /\ PoolInv
<1> SUFFICES ASSUME Init
             PROVE  TypeOK /\ PoolInv
  OBVIOUS
<1>1. TypeOK
  <2>1. <<>> \in Seq(Slots) /\ <<>> \in Seq(Conns)
    OBVIOUS
  <2> QED BY <2>1 DEF Init, TypeOK
<1>2. PoolInv
  BY PoolAssumption, SetOfEmpty
     DEF Init, PoolInv, AcceptorInv, ListenerInv, JoinerInv, SlotInv, KeptInv, WriterInv,
         RegisteredInv, WakeInv, ExitAfterAllJoined, Serving, Ending, Holds, Available,
         Terminated, Registered, Tracked
<1> QED BY <1>1, <1>2

LEMMA Invariance == Spec => [](TypeOK /\ PoolInv)
<1>1. TypeOK /\ PoolInv /\ [Next]_vars => (TypeOK /\ PoolInv)'
  BY TypeStep, InvStep DEF PoolInv
<1> QED BY InvInit, <1>1, PTL DEF Spec

\* Every list holds what its readers cast its entries to: thread numbers on
\* availableThreads, clientThreadInfo of connections on the two others.
THEOREM PoolTypeCorrect == Spec => []TypeOK
  BY Invariance, PTL

\* A thread number is in at most one hand, whatever the interleaving of
\* find_free_thread, client_listener's departure and join_threads, and until
\* connections are refused it is in one.
LEMMA SlotsFromInv == TypeOK /\ PoolInv => SlotsAccounted
<1> SUFFICES ASSUME TypeOK, PoolInv, NEW s \in Slots
             PROVE  /\ \A h1, h2 \in Holders(s) : h1 = h2
                    /\ apc # "fill" /\ ~closeAllClients => Holders(s) # {}
  BY DEF SlotsAccounted
<1> USE DEF PoolInv
<1> DEFINE A == {j \in DOMAIN availableThreads : availableThreads[j] = s}
           L == {d \in Conns : Serving(d) /\ thread_num[d] = s}
           T == {j \in DOMAIN terminatedThreads : thread_num[terminatedThreads[j]] = s}
<1>1. Holders(s) = {<<"available", i>> : i \in A} \cup {<<"acceptor", a>> : a \in {aslot} \cap {s}}
                     \cup {<<"listener", c>> : c \in L} \cup {<<"terminated", i>> : i \in T}
                     \cup {<<"joiner", j>> : j \in {jslot} \cap {s}}
  BY DEF Holders, Serving
<1>2. /\ A # {} <=> s \in Available
      /\ \A i, j \in A : i = j
  BY DEF SlotInv, NoRepeats, Available, SetOf
<1>3. \A i \in T : terminatedThreads[i] \in Conns /\ Holds(terminatedThreads[i])
  BY DEF TypeOK, Holds, Terminated, SetOf
<1>4. \A i \in T : terminatedThreads[i] = clientThreads[s]
  BY <1>3 DEF SlotInv
<1>5. \A c \in L : c = clientThreads[s]
  BY DEF SlotInv, Holds
<1>6. \A i, j \in T : i = j
  BY <1>4 DEF SlotInv, NoRepeats
<1>7. T = {} \/ L = {}
  BY <1>4, <1>5, <1>3 DEF ListenerInv, Serving, Ending, Terminated, SetOf
<1>8. T # {} \/ L # {} => s \notin Available /\ s # aslot /\ s # jslot
  BY <1>3 DEF SlotInv, Holds
<1>9. ~(s \in Available /\ s = aslot) /\ ~(s \in Available /\ s = jslot) /\ ~(s = aslot /\ s = jslot)
  BY PoolAssumption DEF SlotInv
<1>10. apc # "fill" /\ ~closeAllClients =>
           s \in Available \/ s = aslot \/ s = jslot \/ T # {} \/ L # {}
  <2> SUFFICES ASSUME NEW c \in Conns, c \in Terminated, thread_num[c] = s
               PROVE  T # {}
    BY DEF KeptInv, Holds
  <2> QED BY DEF Terminated, SetOf
<1> HIDE DEF A, L, T
<1>11. \A h1, h2 \in Holders(s) : h1 = h2
  BY <1>1, <1>2, <1>5, <1>6, <1>7, <1>8, <1>9
<1>12. apc # "fill" /\ ~closeAllClients => Holders(s) # {}
  <2> SUFFICES ASSUME apc # "fill", ~closeAllClients
               PROVE  \E h : h \in Holders(s)
    OBVIOUS
  <2>1. CASE s \in Available
    <3> PICK i \in A : TRUE
      BY <2>1, <1>2
    <3> QED BY <1>1
  <2>2. CASE s = aslot
    <3> <<"acceptor", s>> \in Holders(s)
      BY <1>1, <2>2
    <3> QED OBVIOUS
  <2>3. CASE s = jslot
    <3> <<"joiner", s>> \in Holders(s)
      BY <1>1, <2>3
    <3> QED OBVIOUS
  <2>4. CASE T # {}
    <3> PICK i \in T : TRUE
      BY <2>4
    <3> QED BY <1>1
  <2>5. CASE L # {}
    <3> PICK c \in L : TRUE
      BY <2>5
    <3> QED BY <1>1
  <2> QED BY <1>10, <2>1, <2>2, <2>3, <2>4, <2>5
<1> QED BY <1>11, <1>12

\* find_free_thread, client_listener and join_threads never hold one thread
\* number twice, so clientThreads[s] is not overwritten before its thread has
\* been joined, and no number leaks until close_server refuses connections.
THEOREM SlotsAreAccounted == Spec => []SlotsAccounted
  BY Invariance, SlotsFromInv, PTL

\* join_threads calls pthread_join on the listener whose clientThreadInfo it
\* took off terminatedThreads, which has left its receive loop.
THEOREM JoinsOnlyTerminated == Spec => []JoinsTerminatedThread
<1>1. PoolInv => JoinsTerminatedThread
  BY DEF PoolInv, JoinerInv, Ending, JoinsTerminatedThread
<1> QED BY Invariance, <1>1, PTL

\* close_connected_client and close_server only ever take departed clients, and
\* those told to QUIT, off clients_sockets: whoever is served receives the
\* broadcasts, unless its node is one that a search under way still points to.
THEOREM ServedAreRegistered == Spec => []ServedTracked
<1>1. PoolInv => ServedTracked
  BY ListOperators
     DEF PoolInv, RegisteredInv, ListenerInv, Registered, Tracked, Serving, Ending,
         ServedTracked
<1> QED BY Invariance, <1>1, PTL

\* close_server gets past its wait for a full availableThreads only when
\* every client thread has been joined and no connection is on its way to one.
THEOREM ExitAfterJoins == Spec => []ExitAfterAllJoined
<1>1. PoolInv => ExitAfterAllJoined
  BY DEF PoolInv
<1> QED BY Invariance, <1>1, PTL

\* join_threads' llist_removefirst_INT never meets an empty list unless
\* pthread_cond_wait returns spuriously.
THEOREM JoinerHasWork == Spec => []JoinerFindsWork
<1>1. PoolInv => JoinerFindsWork
  BY DEF PoolInv, WakeInv, JoinerFindsWork
<1> QED BY Invariance, <1>1, PTL
=============================================================================
