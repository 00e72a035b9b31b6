------------------------------ MODULE Session ------------------------------
(***************************************************************************)
(* One client (OU4/Client/client.c) connected to the server: the menu and  *)
(* load tests of its main thread, its receive thread client_listen, and    *)
(* the server's client_listener at the other end.  The two threads of the  *)
(* client share close_client, the counters num_send and num_receive, and   *)
(* the socket, without any lock.                                           *)
(*                                                                         *)
(* What the server does between taking a request and answering it is the   *)
(* subject of Requests and KVServer: here it owes an answer.  Answers go   *)
(* to every client, so this one also receives those of others.             *)
(***************************************************************************)
EXTENDS Framing

CONSTANTS
    INSERT_LEN,  \* length fields of INSERT, of the answers and of JOIN
    KERNEL_LEN,
    JOIN_LEN,
    MenuOps,     \* choices 1 to 4 the user makes: INIT, INSERT, GET, DELETE
    TestSends,   \* requests of end_2_end_test_1 and _2 (1 000 000 and 10 000)
    SixRounds,   \* rounds of TEST_INT_INSERT (2)
    MaxSends,    \* bound: requests the client's user has it send
    MaxForeign   \* bound: answers to other clients

ASSUME SessionAssumption ==
    /\ {INSERT_LEN, KERNEL_LEN, JOIN_LEN} \subseteq Nat \ {0}   \* each counts a '\0'
    /\ MenuOps \subseteq {"INIT", "INSERT", "GET", "DELETE"}

VARIABLES
    cpc,         \* client main thread
    todo,        \* sends or rounds the test in hand still has to do
    sent,        \* the test's last send_pdu has not been counted yet
    asked,       \* requests asked for so far
    lpc, reg,    \* client_listen, and the num_receive it has loaded to increment
    close_client, num_send, num_receive,
    sock,        \* the client's socket is open
    srv, owed, foreign,   \* the server, answers it owes this client, answers to others
    timed,       \* what the last comparison of the counters led to
    dirty,       \* history: the counters also count something other than a test
    met          \* history: TEST_INT_INSERT has read beside client_listen

client == <<cpc, todo, sent, asked>>
listener == <<lpc, reg>>
server == <<srv, owed, foreign>>
vars == <<fvars, client, listener, server, close_client, num_send, num_receive, sock,
          timed, dirty, met>>

\* The types of the variables.
TypeOK ==
    /\ FramingTypeOK
    /\ cpc \in {"menu", "cond", "reset_send", "reset_receive", "test", "six", "six_read",
                "six_get", "six_read_get", "close", "flag", "cancel", "ended"}
    /\ todo \in 0..(TestSends + SixRounds) /\ asked \in 0..MaxSends
    /\ lpc \in {"loop", "recv", "store", "compare", "gone"} /\ reg \in Nat
    /\ num_send \in Nat /\ num_receive \in Nat
    /\ srv \in {"up", "kicked", "gone"} /\ owed \in Nat /\ foreign \in 0..MaxForeign
    /\ timed \in {"no", "yes", "overtaken"}
    /\ {close_client, sock, dirty, met, sent} \subseteq BOOLEAN

\* connectCS has sent JOIN, client_listen has been started, and the server's
\* listener waits for the JOIN.
Init ==
    /\ FramingInit([op |-> "JOIN", len |-> JOIN_LEN])
    /\ cpc = "menu" /\ todo = 0 /\ sent = FALSE /\ asked = 0
    /\ lpc = "loop" /\ reg = 0
    /\ close_client = FALSE /\ num_send = 0 /\ num_receive = 0 /\ sock = TRUE
    /\ srv = "up" /\ owed = 0 /\ foreign = 0
    /\ timed = "no" /\ dirty = FALSE /\ met = FALSE

Alive == cpc # "ended"

\* The client lays out a PDU (PDU_to_buffer_user, create_QUIT_pdu) and hands it to
\* send_pdu, which on a socket that was closed only prints an error.
Send(op, len) == IF sock THEN send_pdu("up", op, len) ELSE UNCHANGED <<out, bytes>>

\* shutdown and close of the client's socket.
CloseSocket == sock' = FALSE /\ closed' = closed \cup {"up"}

\* The process is over, and with it its memory and its socket.
ProcessEnd ==
    /\ cpc' = "ended" /\ todo' = 0 /\ sent' = FALSE
    /\ lpc' = "gone" /\ reg' = 0 /\ timed' = "no"
    /\ close_client' = FALSE /\ num_send' = 0 /\ num_receive' = 0
    /\ rd' = [r \in Readers |-> IF r = "server" THEN rd[r] ELSE At("idle")]
    /\ CloseSocket
    /\ UNCHANGED <<out, bytes, taken, peeked, got, short, asked, server, dirty, met>>

-----------------------------------------------------------------------------
(* client_send: the menu. *)

MainOnly == UNCHANGED <<listener, server, timed>>
NoSocketUse == UNCHANGED <<fvars, sock>>
NoFlagUse == UNCHANGED <<close_client, num_send, num_receive>>

\* An empty line or a bad choice: continue goes to the condition of the loop.
PressEnter ==
    /\ cpc = "menu" /\ cpc' = "cond"
    /\ UNCHANGED <<todo, sent, asked, dirty, met>> /\ NoSocketUse /\ NoFlagUse /\ MainOnly

\* MenuOps 1 to 4; their answers are counted although they are not.
SendRequest(op) ==
    /\ cpc = "menu" /\ asked < MaxSends
    /\ cpc' = "cond" /\ asked' = asked + 1 /\ dirty' = TRUE
    /\ Send(op, IF op = "INSERT" THEN INSERT_LEN ELSE 0)
    /\ UNCHANGED <<taken, peeked, closed, rd, got, short, sock, todo, sent, met>> /\ NoFlagUse /\ MainOnly

\* Choice 5: QUIT is sent and client_send returns.
SendQuit ==
    /\ cpc = "menu" /\ cpc' = "cancel"
    /\ Send("QUIT", 0)
    /\ UNCHANGED <<taken, peeked, closed, rd, got, short, sock, todo, sent, asked, dirty, met>>
    /\ NoFlagUse /\ MainOnly

\* Nothing this client has asked for is still to be counted.
Quiet ==
    /\ \A s \in Streams : Unread(s) = 0
    /\ owed = 0 /\ rd["server"].pc = "peek"
    /\ lpc \in {"loop", "recv"} /\ rd["listen"].pc \in {"idle", "peek"}

\* MenuOps 6 to 8.
PickTest ==
    /\ cpc = "menu"
    /\ \/ /\ cpc' = "six" /\ todo' = SixRounds /\ asked' = asked + 2 * SixRounds
          /\ dirty' = TRUE /\ met' = TRUE
       \/ /\ cpc' = "reset_send" /\ todo' = TestSends /\ asked' = asked + TestSends
          /\ UNCHANGED <<dirty, met>>
       \/ /\ cpc' = "test" /\ todo' = TestSends /\ asked' = asked + TestSends
          /\ dirty' = (dirty \/ ~Quiet \/ num_send # num_receive) /\ UNCHANGED met
    /\ asked' <= MaxSends
    /\ UNCHANGED sent /\ NoSocketUse /\ NoFlagUse /\ MainOnly

\* choice is never assigned: the loop goes on or ends as the value it happens
\* to have says.  Going on begins with the test of close_client.
Cond ==
    /\ cpc = "cond" /\ cpc' \in {"close", IF close_client THEN "close" ELSE "menu"}
    /\ UNCHANGED <<todo, sent, asked, dirty, met>> /\ NoSocketUse /\ NoFlagUse /\ MainOnly

Close ==
    /\ cpc = "close" /\ cpc' = "flag" /\ CloseSocket
    /\ UNCHANGED <<out, bytes, taken, peeked, rd, got, short, todo, sent, asked, dirty, met>>
    /\ NoFlagUse /\ MainOnly

SetFlag ==
    /\ cpc = "flag" /\ cpc' = "cancel" /\ close_client' = TRUE
    /\ UNCHANGED <<num_send, num_receive, todo, sent, asked, dirty, met>> /\ NoSocketUse /\ MainOnly

\* pthread_cancel takes effect in recv; main joins the thread and returns.
CancelAndJoin ==
    /\ cpc = "cancel"
    /\ lpc = "gone" \/ (lpc = "recv" /\ rd["listen"].pc # "done")
    /\ ProcessEnd

-----------------------------------------------------------------------------
(* The load tests and TEST_INT_INSERT. *)

ResetSend ==
    /\ cpc = "reset_send" /\ cpc' = "reset_receive" /\ num_send' = 0
    /\ UNCHANGED <<close_client, num_receive, todo, sent, asked, dirty, met>> /\ NoSocketUse /\ MainOnly

ResetReceive ==
    /\ cpc = "reset_receive" /\ cpc' = "test" /\ num_receive' = 0 /\ dirty' = ~Quiet
    /\ UNCHANGED <<close_client, num_send, todo, sent, asked, met>> /\ NoSocketUse /\ MainOnly

TestSend ==
    /\ cpc = "test" /\ ~sent /\ sent' = TRUE
    /\ Send("INSERT", INSERT_LEN)
    /\ UNCHANGED <<taken, peeked, closed, rd, got, short, sock, cpc, todo, asked, dirty, met>>
    /\ NoFlagUse /\ MainOnly

TestCount ==
    /\ cpc = "test" /\ sent /\ sent' = FALSE
    /\ num_send' = num_send + 1 /\ todo' = todo - 1
    /\ cpc' = IF todo' = 0 THEN "cond" ELSE "test"
    /\ UNCHANGED <<close_client, num_receive, asked, dirty, met>> /\ NoSocketUse /\ MainOnly

\* One INSERT and one GET per round, each followed by receive_pdu.
SixSend ==
    /\ \/ cpc = "six" /\ cpc' = "six_read" /\ Send("INSERT", INSERT_LEN)
       \/ cpc = "six_get" /\ cpc' = "six_read_get" /\ Send("GET", 0)
    /\ rd' = [rd EXCEPT !["main"] = At("peek")]
    /\ UNCHANGED <<taken, peeked, closed, got, short, sock, todo, sent, asked, dirty, met>>
    /\ NoFlagUse /\ MainOnly

SixRead ==
    /\ receive_pdu("main", ~sock)
    /\ UNCHANGED <<client, sock, dirty, met>> /\ NoFlagUse /\ MainOnly

SixDone ==
    /\ rd["main"].pc = "done" /\ rd' = [rd EXCEPT !["main"] = At("idle")]
    /\ \/ cpc = "six_read" /\ cpc' = "six_get" /\ UNCHANGED todo
       \/ /\ cpc = "six_read_get" /\ todo' = todo - 1
          /\ cpc' = IF todo' = 0 THEN "cond" ELSE "six"
    /\ UNCHANGED <<out, bytes, taken, peeked, closed, got, short, sock, sent, asked, dirty, met>>
    /\ NoFlagUse /\ MainOnly

SixCrash == rd["main"].pc \in {"eof", "null", "lost"} /\ ProcessEnd

-----------------------------------------------------------------------------
(* client_listen. *)

ListenOnly == UNCHANGED <<client, server, dirty, met>>

\* The loop's condition; behind the loop the thread closes the socket.
ListenLoop ==
    /\ lpc = "loop"
    /\ \/ /\ close_client /\ lpc' = "gone" /\ CloseSocket /\ UNCHANGED rd
       \/ /\ ~close_client /\ lpc' = "recv" /\ rd' = [rd EXCEPT !["listen"] = At("peek")]
          /\ UNCHANGED <<closed, sock>>
    /\ UNCHANGED <<out, bytes, taken, peeked, got, short, reg, timed>> /\ NoFlagUse /\ ListenOnly

ListenRead ==
    /\ lpc = "recv" /\ receive_pdu("listen", ~sock)
    /\ UNCHANGED <<listener, sock, timed>> /\ NoFlagUse /\ ListenOnly

\* Neither -100 nor NULL is tested before PDU_struct_recieve->data.
ListenCrash == lpc = "recv" /\ rd["listen"].pc \in {"eof", "null", "lost"} /\ ProcessEnd

\* Mutant of ListenQuit: the thread leaves without telling the main thread.
ListenQuit_noflag ==
    /\ lpc = "recv" /\ rd["listen"].pc = "done" /\ rd["listen"].op \in {"QUIT", "garbled"}
    /\ rd' = [rd EXCEPT !["listen"] = At("idle")]
    /\ lpc' = "gone" /\ CloseSocket
    /\ UNCHANGED <<out, bytes, taken, peeked, got, short, close_client, num_send, num_receive, reg, timed>>
    /\ ListenOnly

\* QUIT, or a text that begins with its code because it came in pieces.
ListenQuit ==
    /\ lpc = "recv" /\ rd["listen"].pc = "done" /\ rd["listen"].op \in {"QUIT", "garbled"}
    /\ rd' = [rd EXCEPT !["listen"] = At("idle")]
    /\ close_client' = TRUE /\ lpc' = "loop"
    /\ UNCHANGED <<out, bytes, taken, peeked, closed, got, short, sock, num_send, num_receive, reg, timed>>
    /\ ListenOnly

\* num_receive++ beside the assignment in end_2_end_test_1: first its load.
ListenText ==
    /\ lpc = "recv" /\ rd["listen"].pc = "done" /\ rd["listen"].op # "QUIT"
    /\ rd' = [rd EXCEPT !["listen"] = At("idle")]
    /\ lpc' = "store" /\ reg' = num_receive
    /\ UNCHANGED <<out, bytes, taken, peeked, closed, got, short, sock, timed>> /\ NoFlagUse /\ ListenOnly

ListenStore ==
    /\ lpc = "store" /\ lpc' = "compare" /\ num_receive' = reg + 1 /\ reg' = 0
    /\ UNCHANGED <<close_client, num_send, timed>> /\ NoSocketUse /\ ListenOnly

\* Mutant of ListenCompare: the value before the increment is compared.
ListenCompare_old ==
    /\ lpc = "compare" /\ lpc' = "loop"
    /\ timed' = IF num_send = num_receive - 1 THEN "yes" ELSE IF sent THEN "overtaken" ELSE "no"
    /\ UNCHANGED reg /\ NoSocketUse /\ NoFlagUse /\ ListenOnly

\* Mutant of ListenCompare: the thread ends once the time has been printed.
ListenCompare_break ==
    /\ lpc = "compare"
    /\ lpc' = IF num_send = num_receive THEN "gone" ELSE "loop"
    /\ timed' = IF num_send = num_receive THEN "yes" ELSE IF sent THEN "overtaken" ELSE "no"
    /\ UNCHANGED reg /\ NoSocketUse /\ NoFlagUse /\ ListenOnly

\* The time is printed if the counters agree.
ListenCompare ==
    /\ lpc = "compare" /\ lpc' = "loop"
    /\ timed' = IF num_send = num_receive THEN "yes" ELSE IF sent THEN "overtaken" ELSE "no"
    /\ UNCHANGED reg /\ NoSocketUse /\ NoFlagUse /\ ListenOnly

-----------------------------------------------------------------------------
(* The server's end. *)

ServerOnly ==
    /\ UNCHANGED <<client, listener, close_client, num_send, num_receive, sock, timed, met>>

\* receive_pdu in client_JOIN and then in the loop of client_listener.
ServerRead ==
    /\ receive_pdu("server", FALSE)
    /\ UNCHANGED <<server, dirty>> /\ ServerOnly

\* Mutant of ServerTake: a client's QUIT ends the loop.
ServerTake_quit ==
    /\ rd["server"].pc = "done"
    /\ rd' = [rd EXCEPT !["server"] = At(IF rd["server"].op = "QUIT" THEN "idle" ELSE "peek")]
    /\ owed' = IF rd["server"].op \in {"JOIN", "QUIT"} THEN owed ELSE owed + 1
    /\ UNCHANGED <<out, bytes, taken, peeked, closed, got, short, srv, foreign, dirty>> /\ ServerOnly


\* JOIN and QUIT are freed, everything else goes to sender_list.
ServerTake ==
    /\ rd["server"].pc = "done"
    /\ rd' = [rd EXCEPT !["server"] = At("peek")]
    /\ owed' = IF rd["server"].op \in {"JOIN", "QUIT"} THEN owed ELSE owed + 1
    /\ UNCHANGED <<out, bytes, taken, peeked, closed, got, short, srv, foreign, dirty>> /\ ServerOnly

\* The broadcast reaches a client until its listener has seen the end of the
\* stream or close_server has taken it off the list.
Registered == srv = "up" /\ rd["server"].pc \notin {"eof", "null"}

Reply ==
    /\ Registered /\ owed > 0 /\ owed' = owed - 1
    /\ send_pdu("down", "KERNEL", KERNEL_LEN)
    /\ UNCHANGED <<taken, peeked, closed, rd, got, short, srv, foreign, dirty>> /\ ServerOnly

ForeignReply ==
    /\ Registered /\ foreign < MaxForeign /\ foreign' = foreign + 1
    /\ dirty' = TRUE
    /\ send_pdu("down", "KERNEL", KERNEL_LEN)
    /\ UNCHANGED <<taken, peeked, closed, rd, got, short, srv, owed>> /\ ServerOnly

\* close_server sends QUIT.
Kick ==
    /\ Registered /\ srv' = "kicked"
    /\ send_pdu("down", "QUIT", 0)
    /\ UNCHANGED <<taken, peeked, closed, rd, got, short, owed, foreign, dirty>> /\ ServerOnly

\* The server process ends, or never let this client in.  All that matters of the
\* stream to it from now on is whether it left bytes unread.
ServerEnd ==
    /\ srv # "gone" /\ srv' = "gone" /\ closed' = closed \cup {"down"}
    /\ owed' = 0 /\ rd' = [rd EXCEPT !["server"] = At("idle")]
    /\ out' = [out EXCEPT !["up"] = <<>>] /\ got' = [got EXCEPT !["up"] = <<>>]
    /\ bytes' = [bytes EXCEPT !["up"] = Unread("up")] /\ taken' = [taken EXCEPT !["up"] = 0]
    /\ peeked' = [peeked EXCEPT !["up"] = 0] /\ short' = short \ {"up"}
    /\ UNCHANGED <<foreign, dirty>> /\ ServerOnly

-----------------------------------------------------------------------------
Menu == PressEnter \/ SendQuit \/ PickTest \/ \E op \in MenuOps : SendRequest(op)
Main ==
    \/ Cond \/ Close \/ SetFlag \/ CancelAndJoin
    \/ ResetSend \/ ResetReceive \/ TestSend \/ TestCount
    \/ SixSend \/ SixRead \/ SixDone \/ SixCrash
Listen ==
    \/ ListenLoop \/ ListenRead \/ ListenCrash \/ ListenQuit \/ ListenText
    \/ ListenStore \/ ListenCompare
Server == ServerRead \/ ServerTake \/ Reply

Next ==
    \/ Alive /\ (Menu \/ Main \/ Listen)
    \/ srv # "gone" /\ (Server \/ ForeignReply \/ Kick)
    \/ ServerEnd

\* Every thread goes on when it can; the user does what the listener asks for
\* ("press enter to quit").
Fairness ==
    /\ WF_vars(Alive /\ Main) /\ WF_vars(Alive /\ Listen)
    /\ WF_vars(srv # "gone" /\ (ServerRead \/ ServerTake)) /\ WF_vars(srv # "gone" /\ Reply)
    /\ WF_vars(Alive /\ close_client /\ PressEnter)

Spec == Init /\ [][Next]_vars /\ Fairness

-----------------------------------------------------------------------------
(* Properties.  What the last four wait for is permanent once it has         *)
(* happened, and so is the end of what they wait after: []<> says that it   *)
(* eventually happens.                                                     *)

\* After this the PDUs of stream s need not be told apart any more: one was read
\* in pieces, the connection was reset, or two threads read beside each other.
Broken(s) == s \in short \/ Reset(s) \/ (s = "down" /\ (met \/ ~sock))

\* The read_ functions keep in step with the sender as long as every PDU body is
\* there when it is asked for: the operations read are a prefix of those sent, no
\* reader loses its place, and a header never comes in pieces, since receive_pdu
\* has seen all of it (receive_pdu, read_exactly).
InOrder ==
    \A s \in Streams : ~Broken(s) =>
        /\ Len(got[s]) <= Len(out[s])
        /\ \A k \in DOMAIN got[s] : got[s][k] = out[s][k].op
        /\ \A r \in Readers : StreamOf(r) = s => rd[r].pc # "lost" /\ rd[r].op # "garbled"

\* A time is printed at the end of a load test that is not disturbed, unless the
\* receive thread compared the counters for the last answer before the sending
\* thread had counted the request it belongs to (client_listen, end_2_end_test_1
\* and _2).
FinalTime ==
    (/\ ~dirty /\ ~Broken("down") /\ cpc \in {"cond", "menu"} /\ lpc \in {"loop", "recv"}
     /\ num_send > 0 /\ num_receive = num_send)
        => timed \in {"yes", "overtaken"}

\* What is sent is read: the server's listener takes every PDU of the client,
\* also those sent just before the client ended, and client_listen those of the
\* server until the client is told to close.
PdusDelivered ==
    /\ []<>(Len(got["up"]) = Len(out["up"]) \/ Broken("up") \/ srv = "gone")
    /\ []<>(Len(got["down"]) = Len(out["down"]) \/ Broken("down") \/ close_client \/ ~Alive)

\* However the client ends, the server's listener comes to know: receive_pdu
\* returns -100 or NULL (client_listener).
CloseSeen ==
    []<>(Alive \/ rd["server"].pc \in {"eof", "null"} \/ "up" \in short \/ srv = "gone")

Kicked == \E k \in DOMAIN out["down"] : out["down"][k].op = "QUIT"

\* A client that is sent QUIT ends once its user presses enter, whatever its main
\* thread is doing, also when the server is gone before the client has read it;
\* unless an answer before the QUIT came in pieces or TEST_INT_INSERT took the QUIT
\* for itself (client_listen, client_send).
KickEnds == []<>(~Kicked \/ ~Alive \/ "down" \in short \/ met)

=============================================================================
