--------------------------- MODULE ClientRegistry ---------------------------
(***************************************************************************)
(* The list clients_sockets of OU4/User/server.c while several threads     *)
(* walk along it.  Each list function locks the list, but a walk is        *)
(*                                                                         *)
(*   p = llist_first(l);                                                   *)
(*   for (i = 0; i < list_length(l); ++i) { .. inspect(p) ..; p = next(p) }*)
(*                                                                         *)
(* and keeps p and i across the calls.  kernel_communication walks to send *)
(* an answer to everybody; a client_listener whose client has left walks   *)
(* to find and remove its own entry; the acceptor appends and the writer   *)
(* takes entries off the front meanwhile.                                  *)
(*                                                                         *)
(* LList shows that list.c implements a sequence; here a node is named by  *)
(* the client whose clientThreadInfo it points into.  A pointer to a node  *)
(* that was freed is Dangling: it may yield anything, until the allocator  *)
(* gives the address to a new node.  A freed clientThreadInfo may yield    *)
(* any number.  The field ev of a walk is a history of what other threads  *)
(* did to the list around it.                                              *)
(***************************************************************************)
EXTENDS Integers, Sequences, FiniteSets

CONSTANTS
    Clients,
    Sender,     \* the walk of kernel_communication; a listener's walk has the
                \* name of its client
    NULL,
    Dangling,
    MaxLeaves   \* how many of the clients leave (bound)

ASSUME RegistryAssumption ==
    /\ IsFiniteSet(Clients) /\ {Sender, NULL, Dangling} \cap Clients = {}
    /\ NULL # Sender /\ NULL # Dangling
    /\ MaxLeaves \in Nat

VARIABLES
    clients_sockets,  \* the entries
    walk,             \* the walks
    freed,            \* entries whose clientThreadInfo join_threads has freed
    sent,             \* how often the answer under way was sent through each entry
    present,          \* clients on the list since the broadcast began
    wpc,              \* server_writer: "stdin", "drain", "done"
    crashed           \* a thread made an invalid access

vars == <<clients_sockets, walk, freed, sent, present, wpc, crashed>>

Walkers == Clients \cup {Sender}
Pointers == Clients \cup {NULL, Dangling}
Entries == {clients_sockets[k] : k \in DOMAIN clients_sockets}

TypeOK ==
    /\ clients_sockets \in Seq(Clients)
    /\ walk \in [Walkers -> [pc : {"idle", "out", "served", "leaving", "test", "inspect",
                                   "next", "remove", "end", "crashed"},
                             p : Pointers, i : Nat,
                             ev : SUBSET {"here", "behind", "end", "stale"}]]
    /\ freed \subseteq Clients /\ present \subseteq Clients
    /\ sent \in [Clients -> 0..2]
    /\ wpc \in {"stdin", "drain", "done"}
    /\ crashed \in BOOLEAN

Walk(pc, p, ev) == [pc |-> pc, p |-> p, i |-> 0, ev |-> ev]

Init ==
    /\ clients_sockets = <<>>
    /\ walk = [w \in Walkers |-> Walk(IF w = Sender THEN "idle" ELSE "out", NULL, {})]
    /\ freed = {} /\ present = {}
    /\ sent = [c \in Clients |-> 0]
    /\ wpc = "stdin"
    /\ crashed = FALSE

Active(w) == walk[w].pc \in {"test", "inspect", "next", "remove"}

\* Where the node p is (list.c follows the links).
Position(p) == CHOOSE j \in DOMAIN clients_sockets : clients_sockets[j] = p

\* llist_first, llist_next and list_length.
llist_first == IF clients_sockets = <<>> THEN NULL ELSE Head(clients_sockets)
llist_next(p) == IF Position(p) = Len(clients_sockets) THEN NULL
                                                       ELSE clients_sockets[Position(p) + 1]
list_length == Len(clients_sockets)

\* The history of a walk, until it stands on a freed node: nothing is promised
\* of it afterwards.
Note(ev, e) == IF "here" \in ev THEN ev ELSE IF e = "here" THEN {e} ELSE ev \cup {e}

\* Is entry c before the entry p?  (Entries are only added at the end, so a walk
\* at p has passed exactly those, and one at the end all.)
Before(c, p) == p = NULL \/ (p \in Entries /\ Position(c) < Position(p))

\* Entry c is unlinked and its node freed, and what becomes of the walks.
Unlink(c) ==
    /\ clients_sockets' = SubSeq(clients_sockets, 1, Position(c) - 1)
                            \o SubSeq(clients_sockets, Position(c) + 1, Len(clients_sockets))
    /\ freed' = freed \ {c}
    /\ present' = IF walk[Sender].p = c THEN {} ELSE present \ {c}
    /\ sent' = IF walk[Sender].p = c THEN [d \in Clients |-> 0] ELSE sent
Unlinked(wk, c) ==
    [w \in Walkers |->
        IF ~Active(w) THEN wk[w]
        ELSE IF wk[w].p = c THEN [wk[w] EXCEPT !.p = Dangling, !.ev = Note(@, "here")]
        ELSE IF Before(c, wk[w].p) THEN [wk[w] EXCEPT !.ev = Note(@, "behind")]
        ELSE wk[w]]

\* A node for c is appended: it may have the address of a freed one, and a walk
\* that was at the end of the list is no longer.
Linked(wk, c, reused) ==
    [w \in Walkers |->
        IF w \in reused THEN [wk[w] EXCEPT !.p = c]
        ELSE IF Active(w) /\ wk[w].p = NULL THEN [wk[w] EXCEPT !.ev = Note(@, "end")]
        ELSE wk[w]]

\* The walk is over; of its history only the events that may have made it miss
\* its aim are kept.
Ended(w) == Walk("end", NULL, walk[w].ev \ {"end"})

Crash(w) ==
    /\ crashed' = TRUE
    /\ walk' = [walk EXCEPT ![w] = Walk("crashed", NULL, walk[w].ev)]

-----------------------------------------------------------------------------
(* The loop, for any walker. *)

\* p = llist_first(clients_sockets), i = 0
WalkStart(w) ==
    /\ walk[w].pc \in {"idle", "leaving"}
    /\ walk' = [walk EXCEPT ![w] = Walk("test", llist_first, {})]
    /\ present' = IF w = Sender THEN Entries ELSE present
    /\ UNCHANGED <<clients_sockets, freed, sent, wpc, crashed>>

\* Mutant of WalkTest: i <= list_length.
WalkTest_le(w) ==
    /\ walk[w].pc = "test"
    /\ \/ walk[w].i <= list_length /\ walk' = [walk EXCEPT ![w].pc = "inspect"]
       \/ walk[w].i > list_length /\ walk' = [walk EXCEPT ![w] = Ended(w)]
    /\ UNCHANGED <<clients_sockets, freed, sent, present, wpc, crashed>>

\* Mutant of WalkTest: i < list_length - 1.
WalkTest_short(w) ==
    /\ walk[w].pc = "test"
    /\ \/ walk[w].i < list_length - 1 /\ walk' = [walk EXCEPT ![w].pc = "inspect"]
       \/ walk[w].i >= list_length - 1 /\ walk' = [walk EXCEPT ![w] = Ended(w)]
    /\ UNCHANGED <<clients_sockets, freed, sent, present, wpc, crashed>>

\* i < list_length(clients_sockets)
WalkTest(w) ==
    /\ walk[w].pc = "test"
    /\ \/ walk[w].i < list_length /\ walk' = [walk EXCEPT ![w].pc = "inspect"]
       \/ walk[w].i >= list_length /\ walk' = [walk EXCEPT ![w] = Ended(w)]
    /\ UNCHANGED <<clients_sockets, freed, sent, present, wpc, crashed>>

\* The numbers *(int *)p->data may yield.
Reads(p) == IF p \in Clients \ freed THEN {p} ELSE Clients \cup {NULL}

\* llist_inspect, which tests the list under the mutex (on an empty list it
\* returns NULL, which the caller follows) and reads p->data after unlocking: a
\* removal in between shows as a removal before.  Then what the walker does with
\* the number: send it the answer (send_pdu to anything else fails and is
\* ignored), or compare it with its own.
WalkInspect(w) ==
    LET p == walk[w].p IN
    /\ walk[w].pc = "inspect"
    /\ \/ /\ p # NULL
          /\ \E own \in {number = w : number \in Reads(p)} :
               /\ walk' = [walk EXCEPT
                             ![w].pc = IF own THEN "remove" ELSE "next",
                             ![w].ev = IF w # Sender /\ p \in freed THEN Note(@, "stale") ELSE @]
               /\ sent' = IF w = Sender /\ "here" \notin walk[w].ev /\ p \notin freed /\ sent[p] < 2
                          THEN [sent EXCEPT ![p] = @ + 1] ELSE sent
          /\ UNCHANGED crashed
       \/ /\ p \in {NULL, Dangling} \/ list_length = 0
          /\ Crash(w)
          /\ UNCHANGED sent
    /\ UNCHANGED <<clients_sockets, freed, present, wpc>>

\* Mutant of WalkNext: p is not moved on.
WalkNext_stay(w) ==
    /\ walk[w].pc = "next"
    /\ walk' = [walk EXCEPT ![w].pc = "test", ![w].i = @ + 1]
    /\ UNCHANGED <<clients_sockets, freed, sent, present, wpc, crashed>>

\* p = llist_next(p), which takes no lock, and ++i
WalkNext(w) ==
    LET p == walk[w].p IN
    /\ walk[w].pc = "next"
    /\ \/ /\ \E q \in IF p \in Clients THEN {llist_next(p)} ELSE Entries \cup {NULL, Dangling} :
               walk' = [walk EXCEPT ![w].pc = "test", ![w].p = q, ![w].i = @ + 1]
          /\ UNCHANGED crashed
       \/ p = Dangling /\ Crash(w)
    /\ UNCHANGED <<clients_sockets, freed, sent, present, wpc>>

-----------------------------------------------------------------------------
(* The end of a broadcast, and the leaving listeners. *)

BroadcastEnd ==
    /\ walk[Sender].pc = "end"
    /\ walk' = [walk EXCEPT ![Sender] = Walk("idle", NULL, {})]
    /\ present' = {} /\ sent' = [c \in Clients |-> 0]
    /\ UNCHANGED <<clients_sockets, freed, wpc, crashed>>

\* receive_pdu returned -100: the listener announces its end on
\* terminatedThreads ...
Leave(c) ==
    /\ walk[c].pc = "served"
    /\ Cardinality({d \in Clients : walk[d].pc \notin {"out", "served"}}) < MaxLeaves
    /\ walk' = [walk EXCEPT ![c] = Walk("leaving", NULL, {})]
    /\ UNCHANGED <<clients_sockets, freed, sent, present, wpc, crashed>>

\* ... from where join_threads may take and free the clientThreadInfo at once
\* (which matters while the list points to it).
FreeThreadInfo(c) ==
    /\ walk[c].pc \notin {"out", "served"} /\ c \in Entries \ freed
    /\ freed' = freed \cup {c}
    /\ UNCHANGED <<clients_sockets, walk, sent, present, wpc, crashed>>

\* Mutant of RemoveOwn: the first entry is removed.
RemoveOwn_first(c) ==
    /\ walk[c].pc = "remove" /\ list_length > 0
    /\ Unlink(llist_first)
    /\ walk' = Unlinked([walk EXCEPT ![c] = Ended(c)], llist_first)
    /\ UNCHANGED <<wpc, crashed>>

\* llist_remove(clients_sockets, p) and break
RemoveOwn(c) ==
    LET p == walk[c].p IN
    /\ walk[c].pc = "remove"
    /\ \/ /\ list_length = 0
          /\ walk' = [walk EXCEPT ![c] = Ended(c)]
          /\ UNCHANGED <<clients_sockets, freed, sent, present, crashed>>
       \/ /\ p \in Entries
          /\ Unlink(p)
          /\ walk' = [Unlinked(walk, p) EXCEPT ![c] = Ended(c)]
          /\ UNCHANGED crashed
       \/ /\ list_length > 0 /\ p = Dangling
          /\ Crash(c)
          /\ UNCHANGED <<clients_sockets, freed, sent, present>>
    /\ UNCHANGED wpc

-----------------------------------------------------------------------------
(* The acceptor and the writer. *)

\* accept_connections: llist_insertlast(clients_sockets, &cti->client_sock) and
\* pthread_create.  It may still happen while the writer drains the list.
Enter(c) ==
    /\ walk[c].pc = "out"
    /\ clients_sockets' = Append(clients_sockets, c)
    /\ \E reused \in SUBSET {w \in Walkers : walk[w].p = Dangling} :
            walk' = Linked([walk EXCEPT ![c].pc = "served"], c, reused)
    /\ UNCHANGED <<freed, sent, present, wpc, crashed>>

\* close_server: while(!llist_isEmpty(clients_sockets)) llist_removefirst(..)
CloseServer ==
    /\ wpc = "stdin" /\ wpc' = "drain"
    /\ UNCHANGED <<clients_sockets, walk, freed, sent, present, crashed>>

\* (That the list can become empty between the two calls is a matter of
\* ThreadPool.)
Drain ==
    /\ wpc = "drain"
    /\ \/ /\ list_length > 0
          /\ Unlink(llist_first)
          /\ walk' = Unlinked(walk, llist_first)
          /\ UNCHANGED wpc
       \/ /\ list_length = 0
          /\ wpc' = "done"
          /\ UNCHANGED <<clients_sockets, walk, freed, sent, present>>
    /\ UNCHANGED crashed

WalkStep(w) == WalkStart(w) \/ WalkTest(w) \/ WalkInspect(w) \/ WalkNext(w)

Next ==
    /\ ~crashed
    /\ \/ \E w \in Walkers : WalkStep(w)
       \/ BroadcastEnd
       \/ \E c \in Clients : Leave(c) \/ FreeThreadInfo(c) \/ RemoveOwn(c) \/ Enter(c)
       \/ CloseServer \/ Drain

Spec == Init /\ [][Next]_vars

-----------------------------------------------------------------------------
(* Correctness. *)

\* A broadcast reaches every client that is served and on the list from its
\* first step to its last, however clients join, leave ahead of the walk or are
\* thrown out in the meantime.  Only the removal of an entry the walk has passed
\* (the list is then one shorter and i is not) or stands on can make it miss one.
BroadcastReaches ==
    walk[Sender].pc = "end" /\ walk[Sender].ev \cap {"here", "behind"} = {}
    => \A c \in present : walk[c].pc = "served" => sent[c] > 0

\* No entry is served twice by one broadcast, unless the walk stood on a node
\* that was freed.
BroadcastOnce == "here" \notin walk[Sender].ev => \A c \in Clients : sent[c] < 2

\* A walk follows a bad pointer only if the entry it stood on was removed, or
\* an insertion found it past the last entry.
WalkSafe ==
    \A w \in Walkers : walk[w].pc = "crashed" => walk[w].ev \cap {"here", "end"} # {}

\* Once a client's listener has ended, its entry is off the list: it stays
\* behind only when a clientThreadInfo was freed before the search read it, or
\* another departure cut the search short.
LeaverDeregistered ==
    \A c \in Clients :
        walk[c].pc = "end" /\ walk[c].ev \cap {"here", "behind", "stale"} = {}
        => c \notin Entries

\* Until the writer empties the list, the entry of a client that is being
\* served is never removed by another's departure, unless that one's walk stood
\* on an entry that was freed under it.
ServedStaysRegistered ==
    wpc = "stdin" /\ (\A d \in Clients : "here" \notin walk[d].ev)
    => \A c \in Clients : walk[c].pc = "served" => c \in Entries
=============================================================================
