----------------------------- MODULE ThreadPool -----------------------------
(***************************************************************************)
(* The life of client connections in the server (OU4/User/server.c): the   *)
(* acceptor hands each connection a thread number from availableThreads    *)
(* and a client_listener thread; a listener whose client has left puts its *)
(* clientThreadInfo on terminatedThreads; join_threads joins it and gives  *)
(* the number back; server_writer closes the server and main waits for     *)
(* everyone.                                                               *)
(*                                                                         *)
(* One step is one operation on a shared list (they lock the list) or one  *)
(* unlocked read or write of shared state.  A condition variable is the    *)
(* set of its sleepers: a broadcast moves a sleeping thread on and is lost *)
(* when nobody sleeps.  A clientThreadInfo is named by its connection;     *)
(* freed tells which of them have been given back to the allocator.        *)
(*                                                                         *)
(* close_connected_client walks along clients_sockets with one lock per    *)
(* list call.  Here its search has a beginning and an end, and what other  *)
(* threads do to the list in between decides how it may end.               *)
(* ClientRegistry has the walk node by node.                               *)
(***************************************************************************)
EXTENDS Integers, Sequences, FiniteSets

CONSTANTS
    Slots,            \* thread numbers, 0 .. THREADS-1
    Conns,            \* connections clients may open
    None,
    SpuriousWakeups,  \* may pthread_cond_wait return without a broadcast?
    AbruptClients     \* may a client leave before its JOIN has arrived, or reset
                      \* the connection instead of closing it?

ASSUME PoolAssumption ==
    /\ IsFiniteSet(Slots) /\ Slots # {}
    /\ None \notin Slots \cup Conns
    /\ SpuriousWakeups \in BOOLEAN /\ AbruptClients \in BOOLEAN

VARIABLES
    availableThreads,   \* sequence of thread numbers
    terminatedThreads,  \* sequence of clientThreadInfo
    clients_sockets,    \* sequence of clientThreadInfo (their client_sock)
    seen,               \* per listener: what befell clients_sockets during its search
    reused,             \* per listener: entries inserted during its search after a
                        \* removal, which may have got the node it stands on
    freed,              \* clientThreadInfo given back by llist_removefirst_INT
    thread_num,         \* field of the clientThreadInfo
    clientThreads,      \* thread number -> listener thread, named by its connection
    closeAllClients,
    exitServer,
    client,             \* client side; "gone" if it left before it sent JOIN
    quit,               \* connections a QUIT was sent to
    sock,               \* server side socket: "none", "open", "closed"
    lpc,                \* listener threads
    apc, acur, aslot,   \* acceptor thread: connection and number in hand
    jpc, jslot,         \* join_threads: number in hand
    wpc,                \* server_writer
    mpc,                \* main
    crashed             \* "no", or what ended the process: a thread's invalid access,
                        \* or the exit of the acceptor

registry == <<clients_sockets, seen, reused>>
lists == <<availableThreads, terminatedThreads, registry>>
flags == <<closeAllClients, exitServer>>
peers == <<client, quit, sock>>
avars == <<apc, acur, aslot>>
jvars == <<jpc, jslot>>
vars == <<lists, freed, thread_num, clientThreads, flags, peers, lpc, avars, jvars,
          wpc, mpc, crashed>>

Elements(s) == {s[i] : i \in DOMAIN s}
RemoveIndex(s, i) == SubSeq(s, 1, i - 1) \o SubSeq(s, i + 1, Len(s))

TypeOK ==
    /\ availableThreads \in Seq(Slots)
    /\ terminatedThreads \in Seq(Conns)
    /\ clients_sockets \in Seq(Conns)
    /\ seen \in [Conns -> SUBSET {"removed", "added"}]
    /\ reused \in [Conns -> SUBSET Conns]
    /\ freed \subseteq Conns
    /\ thread_num \in [Conns -> Slots \cup {None}]
    /\ clientThreads \in [Slots -> Conns \cup {None}]
    /\ closeAllClients \in BOOLEAN /\ exitServer \in BOOLEAN
    /\ client \in [Conns -> {"out", "connected", "joined", "left", "gone"}]
    /\ quit \subseteq Conns
    /\ sock \in [Conns -> {"none", "open", "closed"}]
    /\ lpc \in [Conns -> {"none", "join", "loop", "bcast", "scan", "walk", "done",
                     "joined"}]
    /\ apc \in {"fill", "accept", "find", "flag", "insert", "create", "refuse", "stopped"}
    /\ acur \in Conns \cup {None} /\ aslot \in Slots \cup {None}
    /\ jpc \in {"check", "block", "sleep", "woken", "pop", "join", "put", "exited"}
    /\ jslot \in Slots \cup {None}
    /\ wpc \in {"stdin", "drain", "pop", "flag", "length", "block", "sleep",
                "exit", "wake", "done"}
    /\ mpc \in {"join0", "join1", "cancel", "end"}
    /\ crashed \in {"no", "listener", "search", "joiner", "writer", "main", "acceptor"}

Init ==
    /\ availableThreads = <<>> /\ terminatedThreads = <<>> /\ clients_sockets = <<>>
    /\ seen = [c \in Conns |-> {}] /\ reused = [c \in Conns |-> {}]
    /\ freed = {}
    /\ thread_num = [c \in Conns |-> None]
    /\ clientThreads = [s \in Slots |-> None]
    /\ closeAllClients = FALSE /\ exitServer = FALSE
    /\ client = [c \in Conns |-> "out"]
    /\ quit = {}
    /\ sock = [c \in Conns |-> "none"]
    /\ lpc = [c \in Conns |-> "none"]
    /\ apc = "fill" /\ acur = None /\ aslot = None
    /\ jpc = "check" /\ jslot = None
    /\ wpc = "stdin"
    /\ mpc = "join0"
    /\ crashed = "no"

Running == crashed = "no" /\ mpc # "end"

\* pthread_cond_broadcast on the condition variables of the two lists.
BroadcastTerminated == jpc' = IF jpc = "sleep" THEN "woken" ELSE jpc
BroadcastAvailable == wpc' = IF wpc = "sleep" THEN "length" ELSE wpc

-----------------------------------------------------------------------------
(* accept_connections *)

\* The loop that fills availableThreads with 0 .. THREADS-1, one insert a step.
FillAvailable ==
    /\ apc = "fill"
    /\ \/ \E s \in Slots \ Elements(availableThreads) :
            /\ availableThreads' = Append(availableThreads, s)
            /\ BroadcastAvailable
            /\ UNCHANGED apc
       \/ /\ Slots \subseteq Elements(availableThreads)
          /\ apc' = "accept"
          /\ UNCHANGED <<availableThreads, wpc>>
    /\ UNCHANGED <<terminatedThreads, registry, freed, thread_num, clientThreads,
                   flags, peers, lpc, acur, aslot, jvars, mpc, crashed>>

\* accept fails when the client gave the connection up before it was taken.
Accept(c) ==
    /\ apc = "accept" /\ mpc # "cancel"
    /\ client[c] # "out" /\ sock[c] = "none"
    /\ \/ /\ sock' = [sock EXCEPT ![c] = "open"]
          /\ acur' = c
          /\ apc' = "find"
          /\ UNCHANGED crashed
       \/ /\ AbruptClients /\ client[c] \in {"left", "gone"}
          /\ crashed' = "acceptor"
          /\ UNCHANGED <<sock, acur, apc>>
    /\ UNCHANGED <<lists, freed, thread_num, clientThreads, flags, client, quit, lpc,
                   aslot, jvars, wpc, mpc>>

\* Mutant of find_free_thread: the number is read but not taken from the list.
find_free_thread_peek ==
    /\ apc = "find"
    /\ availableThreads # <<>>
    /\ aslot' = Head(availableThreads)
    /\ apc' = "flag"
    /\ UNCHANGED <<lists, freed, thread_num, clientThreads, flags, peers, lpc, acur, jvars,
                   wpc, mpc, crashed>>

\* find_free_thread; only this thread takes numbers out of the list.
find_free_thread ==
    /\ apc = "find"
    /\ availableThreads # <<>>
    /\ aslot' = Head(availableThreads)
    /\ availableThreads' = Tail(availableThreads)
    /\ apc' = "flag"
    /\ UNCHANGED <<terminatedThreads, registry, freed, thread_num, clientThreads,
                   flags, peers, lpc, acur, jvars, wpc, mpc, crashed>>

ServerFull ==
    /\ apc = "find"
    /\ availableThreads = <<>>
    /\ sock' = [sock EXCEPT ![acur] = "closed"]
    /\ acur' = None
    /\ apc' = "accept"
    /\ UNCHANGED <<lists, freed, thread_num, clientThreads, flags, client, quit, lpc,
                   aslot, jvars, wpc, mpc, crashed>>

TestCloseFlag ==
    /\ apc = "flag"
    /\ apc' = IF closeAllClients THEN "refuse" ELSE "insert"
    /\ UNCHANGED <<lists, freed, thread_num, clientThreads, flags, peers, lpc, acur, aslot,
                   jvars, wpc, mpc, crashed>>

\* calloc of the clientThreadInfo and llist_insertlast(clients_sockets, ..).
InsertClient ==
    /\ apc = "insert"
    /\ thread_num' = [thread_num EXCEPT ![acur] = aslot]
    /\ clients_sockets' = Append(clients_sockets, acur)
    /\ seen' = [c \in Conns |-> IF lpc[c] = "walk" THEN seen[c] \cup {"added"} ELSE seen[c]]
    /\ reused' = [c \in Conns |-> IF "removed" \in seen[c] THEN reused[c] \cup {acur}
                                                          ELSE reused[c]]
    /\ apc' = "create"
    /\ UNCHANGED <<availableThreads, terminatedThreads, freed, clientThreads, flags, peers,
                   lpc, acur, aslot, jvars, wpc, mpc, crashed>>

CreateListener ==
    /\ apc = "create"
    /\ clientThreads' = [clientThreads EXCEPT ![aslot] = acur]
    /\ lpc' = [lpc EXCEPT ![acur] = "join"]
    /\ acur' = None /\ aslot' = None
    /\ apc' = "accept"
    /\ UNCHANGED <<lists, freed, thread_num, flags, peers, jvars, wpc, mpc, crashed>>

\* Mutant of RefuseClient: the socket of the refused client stays open.
RefuseClient_open ==
    /\ apc = "refuse"
    /\ acur' = None /\ aslot' = None
    /\ apc' = "accept"
    /\ UNCHANGED <<lists, freed, thread_num, clientThreads, flags, peers, lpc,
                   jvars, wpc, mpc, crashed>>

\* "Server is closing refuse new connections": the number just taken from
\* availableThreads is freed, not put back.
RefuseClient ==
    /\ apc = "refuse"
    /\ sock' = [sock EXCEPT ![acur] = "closed"]
    /\ acur' = None /\ aslot' = None
    /\ apc' = "accept"
    /\ UNCHANGED <<lists, freed, thread_num, clientThreads, flags, client, quit, lpc,
                   jvars, wpc, mpc, crashed>>

\* accept is a cancellation point.
AcceptCancelled ==
    /\ apc = "accept" /\ mpc = "cancel"
    /\ apc' = "stopped"
    /\ UNCHANGED <<lists, freed, thread_num, clientThreads, flags, peers, lpc, acur, aslot,
                   jvars, wpc, mpc, crashed>>

-----------------------------------------------------------------------------
(* client_listener *)

\* client_JOIN returned.  If the client has left instead, receive_pdu answers
\* -100, which the listener dereferences.
ListenerJoin(c) ==
    /\ lpc[c] = "join"
    /\ \/ /\ client[c] \in {"joined", "left"}
          /\ lpc' = [lpc EXCEPT ![c] = "loop"]
          /\ UNCHANGED crashed
       \/ /\ client[c] = "gone"
          /\ crashed' = "listener"
          /\ UNCHANGED lpc
    /\ UNCHANGED <<lists, freed, thread_num, clientThreads, flags, peers, avars, jvars,
                   wpc, mpc>>

\* receive_pdu returned -100: llist_insertfirst(terminatedThreads, ..), which
\* broadcasts under the lock.
ListenerTerminate(c) ==
    /\ lpc[c] = "loop" /\ client[c] = "left"
    /\ terminatedThreads' = <<c>> \o terminatedThreads
    /\ BroadcastTerminated
    /\ lpc' = [lpc EXCEPT ![c] = "bcast"]
    /\ UNCHANGED <<availableThreads, registry, freed, thread_num, clientThreads, flags,
                   peers, avars, jslot, wpc, mpc, crashed>>

\* The connection was reset: receive_pdu returns NULL, which is dereferenced.
ListenerReset(c) ==
    /\ AbruptClients
    /\ lpc[c] = "loop" /\ client[c] = "left"
    /\ crashed' = "listener"
    /\ UNCHANGED <<lists, freed, thread_num, clientThreads, flags, peers, lpc, avars, jvars,
                   wpc, mpc>>

\* The second broadcast, without the lock.
ListenerBroadcast(c) ==
    /\ lpc[c] = "bcast"
    /\ BroadcastTerminated
    /\ lpc' = [lpc EXCEPT ![c] = "scan"]
    /\ UNCHANGED <<lists, freed, thread_num, clientThreads, flags, peers, avars, jslot,
                   wpc, mpc, crashed>>

\* close_connected_client(.., 1): p = llist_first(clients_sockets)
ListenerFirst(c) ==
    /\ lpc[c] = "scan"
    /\ lpc' = [lpc EXCEPT ![c] = "walk"]
    /\ UNCHANGED <<lists, freed, thread_num, clientThreads, flags, peers, avars, jvars,
                   wpc, mpc, crashed>>

\* A removal, as the searches under way meet it; that of c is over.
SeenRemoval(c) ==
    [d \in Conns |-> IF d = c THEN {}
                     ELSE IF lpc[d] = "walk" THEN seen[d] \cup {"removed"} ELSE seen[d]]

\* Mutant of ListenerScan: whatever entry comes first is removed.
ListenerScan_first(c) ==
    /\ lpc[c] = "walk"
    /\ clients_sockets' = IF clients_sockets = <<>> THEN <<>> ELSE Tail(clients_sockets)
    /\ seen' = SeenRemoval(c)
    /\ lpc' = [lpc EXCEPT ![c] = "done"]
    /\ UNCHANGED <<availableThreads, terminatedThreads, reused, freed, thread_num, clientThreads,
                   flags, peers, avars, jvars, wpc, mpc, crashed>>

\* Mutant of ListenerScan: the loop only ends at the client's own entry.
ListenerScan_strict(c) ==
    /\ lpc[c] = "walk"
    /\ \E i \in DOMAIN clients_sockets :
            /\ clients_sockets[i] = c
            /\ clients_sockets' = RemoveIndex(clients_sockets, i)
    /\ seen' = SeenRemoval(c)
    /\ lpc' = [lpc EXCEPT ![c] = "done"]
    /\ UNCHANGED <<availableThreads, terminatedThreads, reused, freed, thread_num, clientThreads,
                   flags, peers, avars, jvars, wpc, mpc, crashed>>

\* The search ends.  It removes the client's own entry or one whose
\* clientThreadInfo is freed and reads as its number, or, when the node it
\* stood on was removed and its memory used again, the entry that is now there.
\* It runs past its own entry when that is freed, or gone, or a removal made
\* the list shorter than i expects.  It follows a bad pointer when the node it
\* stood on was removed, or when it is past the last entry and an insertion
\* makes i < list_length true again.  The socket is not closed (cliC is 1).
ListenerScan(c) ==
    LET missing == c \in freed \/ c \notin Elements(clients_sockets) IN
    /\ lpc[c] = "walk"
    /\ \/ /\ \E i \in DOMAIN clients_sockets :
               /\ clients_sockets[i] \in {c} \cup freed \cup reused[c]
               /\ clients_sockets' = RemoveIndex(clients_sockets, i)
          /\ seen' = SeenRemoval(c)
          /\ lpc' = [lpc EXCEPT ![c] = "done"] /\ UNCHANGED crashed
       \/ /\ missing \/ "removed" \in seen[c]
          /\ seen' = [seen EXCEPT ![c] = {}]
          /\ lpc' = [lpc EXCEPT ![c] = "done"] /\ UNCHANGED <<clients_sockets, crashed>>
       \/ /\ "removed" \in seen[c] \/ (missing /\ "added" \in seen[c])
          /\ crashed' = "search" /\ UNCHANGED <<clients_sockets, seen, lpc>>
    /\ UNCHANGED <<availableThreads, terminatedThreads, reused, freed, thread_num, clientThreads,
                   flags, peers, avars, jvars, wpc, mpc>>

-----------------------------------------------------------------------------
(* join_threads *)

JoinerCheck ==
    /\ jpc = "check"
    /\ jpc' = IF terminatedThreads = <<>> THEN "block" ELSE "pop"
    /\ UNCHANGED <<lists, freed, thread_num, clientThreads, flags, peers, lpc, avars, jslot,
                   wpc, mpc, crashed>>

\* pthread_mutex_lock and pthread_cond_wait; the list is not looked at again.
JoinerBlock ==
    /\ jpc = "block"
    /\ jpc' = "sleep"
    /\ UNCHANGED <<lists, freed, thread_num, clientThreads, flags, peers, lpc, avars, jslot,
                   wpc, mpc, crashed>>

JoinerSpurious ==
    /\ SpuriousWakeups /\ jpc = "sleep"
    /\ jpc' = "woken"
    /\ UNCHANGED <<lists, freed, thread_num, clientThreads, flags, peers, lpc, avars, jslot,
                   wpc, mpc, crashed>>

\* Mutant of JoinerWoken: exitServer is not tested.
JoinerWoken_noexit ==
    /\ jpc = "woken"
    /\ jpc' = "pop"
    /\ UNCHANGED <<lists, freed, thread_num, clientThreads, flags, peers, lpc, avars, jslot,
                   wpc, mpc, crashed>>

JoinerWoken ==
    /\ jpc = "woken"
    /\ jpc' = IF exitServer THEN "exited" ELSE "pop"
    /\ UNCHANGED <<lists, freed, thread_num, clientThreads, flags, peers, lpc, avars, jslot,
                   wpc, mpc, crashed>>

\* Mutant of JoinerPop: the entry itself is taken for the thread number.
JoinerPop_entry ==
    /\ jpc = "pop"
    /\ terminatedThreads # <<>>
    /\ jslot' = Head(terminatedThreads)
    /\ freed' = freed \cup {Head(terminatedThreads)}
    /\ terminatedThreads' = Tail(terminatedThreads)
    /\ jpc' = "join"
    /\ UNCHANGED <<availableThreads, registry, thread_num, clientThreads, flags, peers,
                   lpc, avars, wpc, mpc, crashed>>

\* llist_removefirst_INT frees the clientThreadInfo; on an empty list it
\* follows a null pointer.
JoinerPop ==
    /\ jpc = "pop"
    /\ \/ /\ terminatedThreads # <<>>
          /\ jslot' = thread_num[Head(terminatedThreads)]
          /\ freed' = freed \cup {Head(terminatedThreads)}
          /\ terminatedThreads' = Tail(terminatedThreads)
          /\ jpc' = "join"
          /\ UNCHANGED crashed
       \/ /\ terminatedThreads = <<>>
          /\ crashed' = "joiner"
          /\ UNCHANGED <<jvars, freed, terminatedThreads>>
    /\ UNCHANGED <<availableThreads, registry, thread_num, clientThreads, flags, peers,
                   lpc, avars, wpc, mpc>>

\* pthread_join returns once the listener has.
JoinerJoin ==
    /\ jpc = "join"
    /\ lpc[clientThreads[jslot]] = "done"
    /\ lpc' = [lpc EXCEPT ![clientThreads[jslot]] = "joined"]
    /\ jpc' = "put"
    /\ UNCHANGED <<lists, freed, thread_num, clientThreads, flags, peers, avars, jslot,
                   wpc, mpc, crashed>>

\* Mutant of JoinerPut: the number is not given back.
JoinerPut_lost ==
    /\ jpc = "put"
    /\ BroadcastAvailable
    /\ jslot' = None
    /\ jpc' = "check"
    /\ UNCHANGED <<lists, freed, thread_num, clientThreads, flags, peers, lpc, avars, mpc,
                   crashed>>

JoinerPut ==
    /\ jpc = "put"
    /\ availableThreads' = Append(availableThreads, jslot)
    /\ BroadcastAvailable
    /\ jslot' = None
    /\ jpc' = "check"
    /\ UNCHANGED <<terminatedThreads, registry, freed, thread_num, clientThreads, flags,
                   peers, lpc, avars, mpc, crashed>>

-----------------------------------------------------------------------------
(* server_writer and close_server *)

TypeExit ==
    /\ wpc = "stdin"
    /\ wpc' = "drain"
    /\ UNCHANGED <<lists, freed, thread_num, clientThreads, flags, peers, lpc, avars, jvars,
                   mpc, crashed>>

DrainCheck ==
    /\ wpc = "drain"
    /\ wpc' = IF clients_sockets = <<>> THEN "flag" ELSE "pop"
    /\ UNCHANGED <<lists, freed, thread_num, clientThreads, flags, peers, lpc, avars, jvars,
                   mpc, crashed>>

\* llist_removefirst and send_pdu(QUIT).  A freed entry yields some number, to
\* which the QUIT is sent in vain.
DrainPop ==
    /\ wpc = "pop"
    /\ \/ /\ clients_sockets # <<>>
          /\ clients_sockets' = Tail(clients_sockets)
          /\ seen' = SeenRemoval(None)
          /\ quit' = quit \cup ({Head(clients_sockets)} \ freed)
          /\ wpc' = "drain"
          /\ UNCHANGED crashed
       \/ /\ clients_sockets = <<>>
          /\ crashed' = "writer"
          /\ UNCHANGED <<clients_sockets, seen, quit, wpc>>
    /\ UNCHANGED <<availableThreads, terminatedThreads, reused, freed, thread_num, clientThreads,
                   flags, client, sock, lpc, avars, jvars, mpc>>

SetCloseFlag ==
    /\ wpc = "flag"
    /\ closeAllClients' = TRUE
    /\ wpc' = "length"
    /\ UNCHANGED <<lists, freed, thread_num, clientThreads, exitServer, peers, lpc, avars,
                   jvars, mpc, crashed>>

\* Mutant of CheckLength: one thread too few is waited for.
CheckLength_offbyone ==
    /\ wpc = "length"
    /\ wpc' = IF Len(availableThreads) < Cardinality(Slots) - 1 THEN "block" ELSE "exit"
    /\ UNCHANGED <<lists, freed, thread_num, clientThreads, flags, peers, lpc, avars, jvars,
                   mpc, crashed>>

\* while(list_length(availableThreads) < THREADS)
CheckLength ==
    /\ wpc = "length"
    /\ wpc' = IF Len(availableThreads) < Cardinality(Slots) THEN "block" ELSE "exit"
    /\ UNCHANGED <<lists, freed, thread_num, clientThreads, flags, peers, lpc, avars, jvars,
                   mpc, crashed>>

WriterBlock ==
    /\ wpc = "block"
    /\ wpc' = "sleep"
    /\ UNCHANGED <<lists, freed, thread_num, clientThreads, flags, peers, lpc, avars, jvars,
                   mpc, crashed>>

WriterSpurious ==
    /\ SpuriousWakeups /\ wpc = "sleep"
    /\ wpc' = "length"
    /\ UNCHANGED <<lists, freed, thread_num, clientThreads, flags, peers, lpc, avars, jvars,
                   mpc, crashed>>

SetExitFlag ==
    /\ wpc = "exit"
    /\ exitServer' = TRUE
    /\ wpc' = "wake"
    /\ UNCHANGED <<lists, freed, thread_num, clientThreads, closeAllClients, peers, lpc,
                   avars, jvars, mpc, crashed>>

\* The broadcast.  The pthread_mutex_unlock after it is of a mutex this thread
\* does not hold; only join_threads still uses the list, and between its lock
\* and its wait a mutex that is unlocked too early (a normal one, which glibc
\* does not check) changes nothing.
WakeJoiner ==
    /\ wpc = "wake"
    /\ BroadcastTerminated
    /\ wpc' = "done"
    /\ UNCHANGED <<lists, freed, thread_num, clientThreads, flags, peers, lpc, avars, jslot,
                   mpc, crashed>>

-----------------------------------------------------------------------------
(* main, from the first pthread_join on *)

MainJoin ==
    /\ \/ mpc = "join0" /\ jpc = "exited" /\ mpc' = "join1"
       \/ mpc = "join1" /\ wpc = "done" /\ mpc' = "cancel"
    /\ UNCHANGED <<lists, freed, thread_num, clientThreads, flags, peers, lpc, avars, jvars,
                   wpc, crashed>>

\* llist_free(clients_sockets) passes the middle of a clientThreadInfo to free.
MainEnd ==
    /\ mpc = "cancel" /\ apc = "stopped"
    /\ \/ clients_sockets = <<>> /\ mpc' = "end" /\ UNCHANGED crashed
       \/ clients_sockets # <<>> /\ crashed' = "main" /\ UNCHANGED mpc
    /\ UNCHANGED <<lists, freed, thread_num, clientThreads, flags, peers, lpc, avars, jvars,
                   wpc>>

-----------------------------------------------------------------------------
(* The clients (OU4/Client). *)

Connect(c) ==
    /\ client[c] = "out"
    /\ client' = [client EXCEPT ![c] = "connected"]
    /\ UNCHANGED <<lists, freed, thread_num, clientThreads, flags, quit, sock, lpc, avars,
                   jvars, wpc, mpc, crashed>>

SendJoin(c) ==
    /\ client[c] = "connected"
    /\ client' = [client EXCEPT ![c] = "joined"]
    /\ UNCHANGED <<lists, freed, thread_num, clientThreads, flags, quit, sock, lpc, avars,
                   jvars, wpc, mpc, crashed>>

Leave(c) ==
    /\ \/ client[c] = "joined" /\ client' = [client EXCEPT ![c] = "left"]
       \/ AbruptClients /\ client[c] = "connected" /\ client' = [client EXCEPT ![c] = "gone"]
    /\ UNCHANGED <<lists, freed, thread_num, clientThreads, flags, quit, sock, lpc, avars,
                   jvars, wpc, mpc, crashed>>

Acceptor ==
    \/ FillAvailable \/ \E c \in Conns : Accept(c)
    \/ find_free_thread \/ ServerFull \/ TestCloseFlag \/ InsertClient
    \/ CreateListener \/ RefuseClient \/ AcceptCancelled
Listener(c) ==
    \/ ListenerJoin(c) \/ ListenerTerminate(c) \/ ListenerReset(c)
    \/ ListenerBroadcast(c) \/ ListenerFirst(c) \/ ListenerScan(c)
Joiner == JoinerCheck \/ JoinerBlock \/ JoinerWoken \/ JoinerPop \/ JoinerJoin \/ JoinerPut
Writer == \/ DrainCheck \/ DrainPop \/ SetCloseFlag \/ CheckLength \/ WriterBlock
          \/ SetExitFlag \/ WakeJoiner
Main == MainJoin \/ MainEnd
Client(c) == Connect(c) \/ SendJoin(c) \/ Leave(c)

Next ==
    /\ Running
    /\ \/ Acceptor \/ Joiner \/ Writer \/ Main \/ TypeExit
       \/ JoinerSpurious \/ WriterSpurious
       \/ \E c \in Conns : Listener(c) \/ Client(c)

Spec == Init /\ [][Next]_vars

\* Every thread that can run is scheduled; a client that was told to QUIT leaves.
FairSpec ==
    /\ Spec
    /\ WF_vars(Running /\ Acceptor)
    /\ WF_vars(Running /\ Joiner)
    /\ WF_vars(Running /\ Writer)
    /\ WF_vars(Running /\ Main)
    /\ \A c \in Conns : /\ WF_vars(Running /\ Listener(c))
                        /\ WF_vars(Running /\ SendJoin(c))
                        /\ WF_vars(Running /\ c \in quit /\ Leave(c))

-----------------------------------------------------------------------------
(* Correctness. *)

\* Everything that holds thread number s.
Holders(s) ==
    {<<"available", i>> : i \in {j \in DOMAIN availableThreads : availableThreads[j] = s}}
      \cup {<<"acceptor", a>> : a \in {aslot} \cap {s}}
      \cup {<<"listener", c>> : c \in {d \in Conns : lpc[d] \in {"join", "loop"}
                                                      /\ thread_num[d] = s}}
      \cup {<<"terminated", i>> : i \in {j \in DOMAIN terminatedThreads :
                                            thread_num[terminatedThreads[j]] = s}}
      \cup {<<"joiner", j>> : j \in {jslot} \cap {s}}

\* A thread number is never in two hands, so clientThreads[s] is not
\* overwritten while its thread has yet to be joined; and none is lost before
\* the server starts to refuse connections.
SlotsAccounted ==
    \A s \in Slots :
        /\ \A h1, h2 \in Holders(s) : h1 = h2
        /\ apc # "fill" /\ ~closeAllClients => Holders(s) # {}

\* join_threads waits for a listener that has announced its end, never for one
\* that still serves a client (which would block every later join).
JoinsTerminatedThread ==
    jpc = "join" => /\ clientThreads[jslot] \in freed
                    /\ lpc[clientThreads[jslot]] \in {"bcast", "scan", "walk", "done"}

\* A client that is being served is on the list kernel_communication broadcasts
\* to, or close_server has taken it off and sent it QUIT, whatever the searches
\* of departing clients remove.  The one exception: it was inserted during a
\* search that had seen another entry removed, and got that entry's node.
ServedTracked ==
    \A c \in Conns :
        lpc[c] \in {"join", "loop"} /\ (\A d \in Conns : c \notin reused[d])
        => c \in Elements(clients_sockets) \cup quit /\ c \notin freed

\* Without spurious wake-ups join_threads only wakes up to a non-empty list or
\* to exitServer, although every departure broadcasts twice and the list is not
\* tested again after the wait.
JoinerFindsWork == ~SpuriousWakeups => crashed # "joiner"

\* close_server declares the end only when every client thread has been joined
\* and none can be created any more.
ExitAfterAllJoined ==
    wpc \in {"exit", "wake", "done"} =>
        /\ apc \notin {"insert", "create"}
        /\ \A c \in Conns : lpc[c] \in {"none", "joined"}

\* Every connection is given a listener or closed, as long as the server lives.
ConnectionAnswered ==
    \A c \in Conns :
        client[c] # "out" ~> \/ lpc[c] # "none" \/ sock[c] = "closed"
                            \/ ~Running \/ mpc = "cancel"

\* "If client leaves then thread terminates": a client's departure ends its
\* listener, unless another thread, or the search for its entry in a list that
\* changed meanwhile, takes the process down first.
LeaverTerminates ==
    \A c \in Conns :
        client[c] \in {"left", "gone"} /\ lpc[c] # "none"
        ~> lpc[c] \in {"done", "joined"} \/ crashed \notin {"no", "listener"}

\* "Joins client threads that have left the server(terminated)."
TerminatedJoined == \A c \in Conns : lpc[c] = "done" ~> lpc[c] = "joined" \/ ~Running

\* "Shuts down connection and socket if received QUIT or client leaves server."
SocketClosedOnLeave == \A c \in Conns : lpc[c] = "joined" => sock[c] = "closed"

\* "Type EXIT to close server."
ExitCloses == wpc # "stdin" ~> ~Running
=============================================================================
