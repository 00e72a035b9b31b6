------------------------------ MODULE Requests ------------------------------
(***************************************************************************)
(* How requests travel in OU4/User/server.c.  The client_listener threads  *)
(* append them to sender_list; kernel_communication waits for the list,    *)
(* takes one request at a time, exchanges it with the kernel, repeats it   *)
(* on the file and broadcasts the answer.  The load test of the writer     *)
(* thread (test_function) makes exchanges of its own, with the same two    *)
(* buffers, sockets and files.  EXIT ends both, and main frees the list.   *)
(*                                                                         *)
(* A requester's exchange is the steps copy, send, recv and read.  A       *)
(* request stands for its message, its key and its line; an answer says    *)
(* which message it answers and whether the kernel could perform it.  The  *)
(* table and the files are sets of lines: an INSERT fails when its key is  *)
(* in the table, as for a message that is sent twice or the keys of a      *)
(* second load test, and store_data leaves the file alone then.            *)
(***************************************************************************)
EXTENDS Integers, Sequences, FiniteSets

CONSTANTS
    Reqs,         \* requests of clients
    Deletes,      \* those that delete the line Old; each other inserts its own
    Old,
    None,
    TestLength,   \* iterations of the loop of test_function (500000 in the code)
    MaxTests      \* how often "test" is typed (bound)

ASSUME RequestsAssumption ==
    /\ Deletes \subseteq Reqs
    /\ None \notin Reqs
    /\ Old \notin Reqs \cup 1..TestLength   \* nobody inserts it again
    /\ TestLength \in Nat \ {0} /\ MaxTests \in Nat

VARIABLES
    sender_list,
    pending,       \* requests no listener has received yet
    kpc, kreq,     \* kernel_communication, pdu_send
    tpc,           \* server_writer, test_function and close_server
    tno,           \* i of test_function: the test message in hand
    tests,         \* how often "test" was typed
    send_buf,      \* nlh_user_send
    receive_buf,   \* nlh_user_receive
    queue,         \* messages the kernel has yet to answer
    answers,       \* answers in sock_fd_receive
    ans,           \* per requester: pdu_recieve
    table,         \* keys in the kernel's table
    file,          \* STORE_FILE
    tmp,           \* TMP_FILE, as the stream of a deletion under way sees it
    left,          \* lines a deletion has still to read
    exitServer,
    jdone,         \* join_threads has returned
    mpc,           \* main
    locked,        \* sender_list->mtx was left locked
    missed,        \* history: requests inserted between test and wait
    acked,         \* history: requests reported to the clients as performed
    mixed,         \* history: requesters whose exchange overlapped the other's
    torn           \* history: a deletion lost lines it had to keep

net == <<send_buf, receive_buf, queue, answers, table>>
disk == <<file, tmp, left>>
test == <<tno, tests>>
ends == <<exitServer, jdone>>
hist == <<missed, acked, mixed, torn>>
vars == <<sender_list, pending, kpc, kreq, tpc, test, net, ans, disk, ends, mpc, locked, hist>>

Requesters == {"kc", "test"}
Tests == 1..TestLength
Messages == Reqs \cup Tests
Lines == Messages \cup {Old}
Answer == [req : Messages \cup {None}, ok : BOOLEAN]

\* The buffer nothing has been received into: its text is empty, no "Error".
NoAnswer == [req |-> None, ok |-> TRUE]

Exchange == {"copy", "send", "recv", "read"}

TypeOK ==
    /\ sender_list \in Seq(Reqs) /\ pending \subseteq Reqs
    /\ kpc \in Exchange \cup {"loop", "check", "block", "sleep", "woken", "pop", "store",
                              "filter", "rewrite", "broadcast", "exited", "crashed"}
    /\ kreq \in Reqs \cup {None}
    /\ tpc \in Exchange \cup {"stdin", "store", "append", "flag", "wake", "done"}
    /\ tno \in Tests \cup {0} /\ tests \in 0..MaxTests
    /\ send_buf \in Messages \cup {None} /\ receive_buf \in Answer
    /\ queue \in Seq(Messages) /\ answers \in Seq(Answer)
    /\ ans \in [Requesters -> Answer]
    /\ table \subseteq Lines /\ file \subseteq Lines /\ tmp \subseteq Lines /\ left \subseteq Lines
    /\ exitServer \in BOOLEAN /\ jdone \in BOOLEAN /\ locked \in BOOLEAN /\ torn \in BOOLEAN
    /\ mpc \in {"join", "cancel", "free", "end"}
    /\ missed \subseteq Reqs /\ acked \subseteq Reqs /\ mixed \subseteq Requesters

Init ==
    /\ sender_list = <<>> /\ pending = Reqs
    /\ kpc = "loop" /\ kreq = None
    /\ tpc = "stdin" /\ tno = 0 /\ tests = 0
    /\ send_buf = None /\ receive_buf = NoAnswer /\ queue = <<>> /\ answers = <<>>
    /\ ans = [x \in Requesters |-> NoAnswer]
    /\ table = {Old} /\ file = {Old} /\ tmp = {} /\ left = {}
    /\ exitServer = FALSE /\ jdone = FALSE /\ mpc = "join" /\ locked = FALSE
    /\ missed = {} /\ acked = {} /\ mixed = {} /\ torn = FALSE

Queued == {sender_list[i] : i \in DOMAIN sender_list}

-----------------------------------------------------------------------------
(* client_listener *)

\* Mutant of Submit: llist_insertlast without the broadcast.
Submit_silent(r) ==
    /\ r \in pending /\ ~exitServer
    /\ pending' = pending \ {r}
    /\ sender_list' = Append(sender_list, r)
    /\ missed' = IF kpc = "block" THEN missed \cup {r} ELSE missed
    /\ UNCHANGED <<kpc, kreq, tpc, test, net, ans, disk, ends, mpc, locked, acked, mixed, torn>>

\* PDU_struct_SEND = receive_pdu(..), then llist_insertlast, which broadcasts.  close_server sets
\* exitServer after the listeners have ended.
Submit(r) ==
    /\ r \in pending /\ ~exitServer
    /\ pending' = pending \ {r}
    /\ sender_list' = Append(sender_list, r)
    /\ kpc' = IF kpc = "sleep" THEN "woken" ELSE kpc
    /\ missed' = IF kpc = "block" THEN missed \cup {r} ELSE missed
    /\ UNCHANGED <<kreq, tpc, test, net, ans, disk, ends, mpc, locked, acked, mixed, torn>>

-----------------------------------------------------------------------------
(* kernel_communication, up to the request in hand *)

Loop ==
    /\ kpc = "loop"
    /\ kpc' = IF exitServer THEN "exited" ELSE "check"
    /\ UNCHANGED <<sender_list, pending, kreq, tpc, test, net, ans, disk, ends, mpc, locked,
                   hist>>

\* llist_isEmpty(sender_list), without the mutex
Check ==
    /\ kpc = "check"
    /\ kpc' = IF sender_list = <<>> THEN "block" ELSE "pop"
    /\ UNCHANGED <<sender_list, pending, kreq, tpc, test, net, ans, disk, ends, mpc, locked,
                   hist>>

\* pthread_mutex_lock and pthread_cond_wait
Block ==
    /\ kpc = "block"
    /\ kpc' = "sleep"
    /\ UNCHANGED <<sender_list, pending, kreq, tpc, test, net, ans, disk, ends, mpc, locked,
                   hist>>

\* Mutant of Woken: exitServer is not looked at.
Woken_noexit ==
    /\ kpc = "woken"
    /\ kpc' = "pop"
    /\ UNCHANGED <<sender_list, pending, kreq, tpc, test, net, ans, disk, ends, mpc, locked,
                   hist>>

\* After the wait only exitServer is tested, not the list.
Woken ==
    /\ kpc = "woken"
    /\ kpc' = IF exitServer THEN "exited" ELSE "pop"
    /\ UNCHANGED <<sender_list, pending, kreq, tpc, test, net, ans, disk, ends, mpc, locked,
                   hist>>

\* llist_removefirst_PDU follows a null pointer when the list is empty.
Pop ==
    /\ kpc = "pop"
    /\ \/ /\ sender_list # <<>>
          /\ kreq' = Head(sender_list)
          /\ sender_list' = Tail(sender_list)
          /\ missed' = missed \ {Head(sender_list)}
          /\ kpc' = "copy"
       \/ /\ sender_list = <<>>
          /\ kpc' = "crashed"
          /\ UNCHANGED <<sender_list, kreq, missed>>
    /\ UNCHANGED <<pending, tpc, test, net, ans, disk, ends, mpc, locked, acked, mixed, torn>>

-----------------------------------------------------------------------------
(* An exchange with the kernel, by kernel_communication or by test_function *)

Pc(x) == IF x = "kc" THEN kpc ELSE tpc
InHand(x) == IF x = "kc" THEN kreq ELSE tno
Other(x) == IF x = "kc" THEN "test" ELSE "kc"

Move(x, from, to) ==
    /\ Pc(x) = from
    /\ kpc' = IF x = "kc" THEN to ELSE kpc
    /\ tpc' = IF x = "test" THEN to ELSE tpc

\* memcpy(NLMSG_DATA(nlh_user_send), ..)
Copy(x) ==
    /\ Move(x, "copy", "send")
    /\ send_buf' = InHand(x)
    /\ mixed' = IF Pc(Other(x)) \in Exchange \ {"copy"} THEN Requesters ELSE mixed \ {x}
    /\ UNCHANGED <<sender_list, pending, kreq, test, receive_buf, queue, answers, table, ans, disk,
                   ends, mpc, locked, missed, acked, torn>>

\* sendmsg(sock_fd_send, ..) sends what the buffer holds by now.
Send(x) ==
    /\ Move(x, "send", "recv")
    /\ queue' = Append(queue, send_buf)
    /\ UNCHANGED <<sender_list, pending, kreq, test, send_buf, receive_buf, answers, table, ans, disk,
                   ends, mpc, locked, hist>>

\* Mutant of Receive: the answer is not waited for.
Receive_nowait(x) ==
    /\ Move(x, "recv", "read")
    /\ \/ /\ answers # <<>>
          /\ receive_buf' = Head(answers) /\ answers' = Tail(answers)
       \/ UNCHANGED <<receive_buf, answers>>
    /\ UNCHANGED <<sender_list, pending, kreq, test, send_buf, queue, table, ans, disk, ends, mpc,
                   locked, hist>>


\* recvmsg(sock_fd_receive, ..)
Receive(x) ==
    /\ Move(x, "recv", "read")
    /\ answers # <<>>
    /\ receive_buf' = Head(answers)
    /\ answers' = Tail(answers)
    /\ UNCHANGED <<sender_list, pending, kreq, test, send_buf, queue, table, ans, disk, ends, mpc,
                   locked, hist>>

\* read_exactly_from_kernel(nlh_user_receive)
Read(x) ==
    /\ Move(x, "read", "store")
    /\ ans' = [ans EXCEPT ![x] = receive_buf]
    /\ UNCHANGED <<sender_list, pending, kreq, test, net, disk, ends, mpc, locked, hist>>

\* The kernel module performs and answers each message; a work item takes its
\* message from a global, which holds that of another item when two are under
\* way.
KernelAnswer ==
    /\ queue # <<>>
    /\ \E i \in DOMAIN queue :
        LET m == queue[i]
            del == m \in Deletes
        IN  /\ answers' = Append(answers, [req |-> m,
                                           ok |-> IF del THEN Old \in table ELSE m \notin table])
            /\ table' = IF del THEN table \ {Old} ELSE table \cup {m}
    /\ queue' = Tail(queue)
    /\ UNCHANGED <<sender_list, pending, kpc, kreq, tpc, test, send_buf, receive_buf, ans, disk,
                   ends, mpc, locked, hist>>

-----------------------------------------------------------------------------
(* store_data and the broadcast *)

\* store_data for kernel_communication: opening TMP_FILE empties it, an "Error"
\* changes nothing else, an INSERT appends its line, a DELETE copies the other
\* lines to TMP_FILE, one by one, ...
Store ==
    /\ kpc = "store"
    /\ tmp' = {}
    /\ \/ ~ans["kc"].ok /\ kpc' = "broadcast" /\ UNCHANGED <<file, left>>
       \/ /\ ans["kc"].ok /\ kreq \notin Deletes
          /\ file' = file \cup {kreq} /\ kpc' = "broadcast" /\ UNCHANGED left
       \/ /\ ans["kc"].ok /\ kreq \in Deletes
          /\ left' = file /\ kpc' = "filter" /\ UNCHANGED file
    /\ UNCHANGED <<sender_list, pending, kreq, tpc, test, net, ans, ends, mpc, locked, hist>>

FilterLine(l) ==
    /\ kpc = "filter" /\ l \in left
    /\ left' = left \ {l}
    /\ tmp' = tmp \cup ({l} \ {Old})
    /\ UNCHANGED <<sender_list, pending, kpc, kreq, tpc, test, net, ans, file, ends, mpc, locked,
                   hist>>

FilterEnd ==
    /\ kpc = "filter" /\ left = {}
    /\ kpc' = "rewrite"
    /\ UNCHANGED <<sender_list, pending, kreq, tpc, test, net, ans, disk, ends, mpc, locked, hist>>

\* Mutant of Rewrite: the temporary file is not copied back.
Rewrite_never ==
    /\ kpc = "rewrite"
    /\ kpc' = "broadcast"
    /\ UNCHANGED <<sender_list, pending, kreq, tpc, test, net, ans, disk, ends, mpc, locked, hist>>

\* ... and then back, over whatever the file holds by now.
Rewrite ==
    /\ kpc = "rewrite"
    /\ file' = tmp /\ tmp' = {}
    /\ kpc' = "broadcast"
    /\ UNCHANGED <<sender_list, pending, kreq, tpc, test, net, ans, left, ends, mpc, locked, hist>>

Broadcast ==
    /\ kpc = "broadcast"
    /\ acked' = IF ans["kc"].ok THEN acked \cup {kreq} ELSE acked
    /\ kreq' = None /\ ans' = [ans EXCEPT !["kc"] = NoAnswer]
    /\ kpc' = "loop"
    /\ UNCHANGED <<sender_list, pending, tpc, test, net, disk, ends, mpc, locked, missed, mixed,
                   torn>>

-----------------------------------------------------------------------------
(* The writer: test_function and close_server *)

\* i starts at the first key again in every test.
TypeTest ==
    /\ tpc = "stdin" /\ tests < MaxTests
    /\ tests' = tests + 1 /\ tno' = 1 /\ tpc' = "copy"
    /\ UNCHANGED <<sender_list, pending, kpc, kreq, net, ans, disk, ends, mpc, locked, hist>>

\* The end of the loop's body.
NextKey ==
    /\ ans' = [ans EXCEPT !["test"] = NoAnswer]
    /\ \/ tno < TestLength /\ tpc' = "copy" /\ tno' = tno + 1
       \/ tno = TestLength /\ tpc' = "stdin" /\ UNCHANGED tno
    /\ UNCHANGED tests

\* store_data for the test's INSERT opens TMP_FILE too: a deletion that uses it
\* at this moment loses the lines that are not in its stream's buffer.
TestOpen ==
    /\ tpc = "store"
    /\ IF kpc \in {"filter", "rewrite"}
         THEN \E kept \in SUBSET tmp : tmp' = kept /\ torn' = (torn \/ kept # tmp)
         ELSE tmp' = {} /\ UNCHANGED torn
    /\ \/ ~ans["test"].ok /\ NextKey
       \/ ans["test"].ok /\ tpc' = "append" /\ UNCHANGED <<ans, test>>
    /\ UNCHANGED <<sender_list, pending, kpc, kreq, net, file, left, ends, mpc, locked, missed,
                   acked, mixed>>

\* Closing the stream appends the line, which a deletion's reading may come to.
TestAppend ==
    /\ tpc = "append"
    /\ file' = file \cup {tno}
    /\ left' \in IF kpc = "filter" THEN {left, left \cup {tno}} ELSE {left}
    /\ NextKey
    /\ UNCHANGED <<sender_list, pending, kpc, kreq, net, tmp, ends, mpc, locked, hist>>

TypeExit ==
    /\ tpc = "stdin" /\ tpc' = "flag"
    /\ UNCHANGED <<sender_list, pending, kpc, kreq, test, net, ans, disk, ends, mpc, locked,
                   hist>>

\* close_server, once all client threads are joined
SetExit ==
    /\ tpc = "flag" /\ tpc' = "wake"
    /\ exitServer' = TRUE
    /\ UNCHANGED <<sender_list, pending, kpc, kreq, test, net, ans, disk, jdone, mpc, locked, hist>>

WakeSender ==
    /\ tpc = "wake" /\ tpc' = "done"
    /\ kpc' = IF kpc = "sleep" THEN "woken" ELSE kpc
    /\ UNCHANGED <<sender_list, pending, kreq, test, net, ans, disk, ends, mpc, locked, hist>>

-----------------------------------------------------------------------------
(* main *)

\* join_threads may return once exitServer is set.  ThreadPool shows how it may
\* also wait for ever, so nothing here says that it does return.
JoinerReturns ==
    /\ exitServer /\ ~jdone /\ jdone' = TRUE
    /\ UNCHANGED <<sender_list, pending, kpc, kreq, tpc, test, net, ans, disk, exitServer, mpc,
                   locked, hist>>

\* pthread_join of join_threads, then of the writer
MainJoin ==
    /\ mpc = "join" /\ jdone /\ tpc = "done" /\ mpc' = "cancel"
    /\ UNCHANGED <<sender_list, pending, kpc, kreq, tpc, test, net, ans, disk, ends, locked, hist>>

\* Mutant of Cancel: main only joins kernel_communication.
Cancel_none == FALSE

\* pthread_cancel: kernel_communication ends at its next cancellation point.
\* In pthread_cond_wait it takes the mutex again and nobody unlocks it; while
\* the file is copied back the rest of it is lost.
Cancel ==
    /\ mpc = "cancel" /\ kpc \in {"sleep", "send", "recv", "store", "filter", "rewrite",
                                  "broadcast"}
    /\ kpc' = "exited"
    /\ locked' = (kpc = "sleep")
    /\ IF kpc = "rewrite" THEN torn' = TRUE /\ file' \in SUBSET tmp ELSE UNCHANGED <<file, torn>>
    /\ UNCHANGED <<sender_list, pending, kreq, tpc, test, net, ans, tmp, left, ends, mpc, missed,
                   acked, mixed>>

MainJoinSender ==
    /\ mpc = "cancel" /\ kpc = "exited" /\ mpc' = "free"
    /\ UNCHANGED <<sender_list, pending, kpc, kreq, tpc, test, net, ans, disk, ends, locked,
                   hist>>

\* llist_free(sender_list) locks the mutex for each entry it removes.
FreeList ==
    /\ mpc = "free"
    /\ sender_list = <<>> \/ ~locked
    /\ sender_list' = <<>> /\ mpc' = "end"
    /\ UNCHANGED <<pending, kpc, kreq, tpc, test, net, ans, disk, ends, locked, hist>>

ExchangeStep(x) == Copy(x) \/ Send(x) \/ Receive(x) \/ Read(x)
SenderThread ==
    \/ Loop \/ Check \/ Block \/ Woken \/ Pop \/ ExchangeStep("kc")
    \/ Store \/ (\E l \in left : FilterLine(l)) \/ FilterEnd \/ Rewrite \/ Broadcast
WriterThread == ExchangeStep("test") \/ TestOpen \/ TestAppend \/ SetExit \/ WakeSender
Main == MainJoin \/ Cancel \/ MainJoinSender \/ FreeList

Running == kpc # "crashed" /\ mpc # "end"

Next ==
    /\ Running
    /\ \/ \E r \in Reqs : Submit(r)
       \/ SenderThread \/ WriterThread \/ TypeTest \/ TypeExit \/ Main
       \/ KernelAnswer \/ JoinerReturns

\* Every thread that can run is scheduled, and the kernel answers; nobody has to
\* send a request or type anything, and join_threads may not return.
Spec ==
    /\ Init /\ [][Next]_vars
    /\ WF_vars(Running /\ SenderThread)
    /\ WF_vars(Running /\ WriterThread)
    /\ WF_vars(Running /\ Main)
    /\ WF_vars(Running /\ KernelAnswer)

-----------------------------------------------------------------------------
(* Correctness. *)

\* Although the list is not tested again after the wait, kernel_communication
\* never takes from an empty list (as long as pthread_cond_wait only returns
\* after a broadcast): one consumer, and a wake-up to exit is recognised.
PopFindsWork == kpc # "crashed"

\* While kernel_communication sleeps, the only requests left on the list are
\* those inserted between its test of the list and its wait; whatever is
\* inserted at any other moment wakes it or is found.
SleepsOnlyOnMissed == kpc = "sleep" => Queued \subseteq missed

Using == {"store", "filter", "rewrite", "broadcast", "append"}

\* The answer store_data and the clients get belongs to the request, unless the
\* exchange overlapped one of the load test: whatever such overlaps did to the
\* shared buffers and sockets, it does not reach the next exchange.
AnswerMatches ==
    \A x \in Requesters :
        Pc(x) \in Using /\ x \notin mixed => ans[x].req = InHand(x)

\* An INSERT the clients were told of keeps its line and a DELETE has removed
\* one, although the load test stores lines meanwhile, both use one temporary
\* file and each may act on the other's answer.  Lines are lost only when the
\* load test opens the temporary file while a deletion filters the lines into it
\* or copies them back, or when the thread is cancelled in the copying back.
AckedKept ==
    ~torn => /\ acked \ Deletes \subseteq file
             /\ acked \cap Deletes # {} => Old \notin file

\* No longer on its way to kernel_communication, nor in its hands.
Done(r) == r \notin pending \cup Queued /\ kreq # r


\* After EXIT, once join_threads has returned, main reaches its end, even though
\* kernel_communication may miss the wake-up and is cancelled in its wait.  It
\* hangs in llist_free only if a request was left on the list, whose mutex the
\* cancelled thread holds.
MainEnds == exitServer /\ jdone ~> mpc = "end" \/ (locked /\ sender_list # <<>>)
=============================================================================
