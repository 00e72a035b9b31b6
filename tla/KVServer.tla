------------------------------ MODULE KVServer ------------------------------
(***************************************************************************)
(* The server's storage path (OU4/User/server.c) composed with the kernel  *)
(* module: main binds the netlink sockets and runs init_hashtable and      *)
(* load_stored_values; kernel_communication then takes one request at a    *)
(* time, has the kernel perform it, repeats it on stored_values.txt        *)
(* (store_data) and sends the reply to the clients.  The process can end   *)
(* between any two steps, and the module can be reloaded and the machine   *)
(* restarted while it is down.                                             *)
(*                                                                         *)
(* Two history variables record what the environment was told: acked, the  *)
(* outcome of the last acknowledged INSERT or DELETE of each key, and      *)
(* mishaps, the rare events after which weaker guarantees hold:            *)
(*   "torn"     the process ended while stored_values.txt was rewritten    *)
(*   "stray"    a work item outlived the server that sent it and met its   *)
(*              successor or the unloading of the module                   *)
(*   "loadfail" a line could not be inserted into the table at load time   *)
(*   "cut"      the DELETE of one key has taken the line of another, a key *)
(*              with a ':' in it that the filter cuts to the first         *)
(***************************************************************************)
EXTENDS StoreFile

CONSTANTS
    Unknown,    \* acked: the server ended before it answered
    MaxEpochs,  \* bound: runs of the server process
    MaxLines,   \* bound: INSERT is not sent when the file has this many lines
    Strays      \* may a server start while an earlier run's work item is queued?

ASSUME ServerAssumption ==
    /\ Unknown \notin Text \cup {NoObject}
    /\ MaxEpochs \in Nat
    /\ MaxLines \in Nat
    /\ Strays \in BOOLEAN

VARIABLES
    file,     \* stored_values.txt
    tmp,      \* delete-line.tmp
    pos,      \* lines of the file being read that getline has returned
    pc,       \* where the thread that talks to the kernel is
    cur,      \* pdu_send: the request in progress
    rep,      \* pdu_recieve: its reply
    epoch,    \* runs of the server so far; stands for the process id
    acked,    \* history: last acknowledged outcome per key
    mishaps   \* history: see above

svars == <<file, tmp, pos, pc, cur, rep, epoch, acked, mishaps>>
vars == <<kvars, svars>>

Loading == {"init", "load", "loadwait"}
Busy == {"wait", "store", "filter", "copy", "bcast"}
Serving == Busy \cup {"idle"}

\* What the menu of the client program can send.
ClientRequest == [op : {"INIT"}]
                   \cup [op : {"GET", "DELETE"}, key : Keys]
                   \cup [op : {"INSERT"}, key : Keys, val : Values]

\* No PDU is allocated: every round frees the ones it used.
NoRequest == [op |-> "INIT"]
NoReply == [tag |-> "initialized"]

TypeOK ==
    /\ KernelTypeOK
    /\ file \in Seq(Line) /\ tmp \in Seq(Line)
    /\ pos \in Nat
    /\ pc \in {"down"} \cup Loading \cup Serving
    /\ cur \in Request
    /\ rep \in Reply
    /\ epoch \in Nat
    /\ acked \in [Keys -> Values \cup {NoObject, Unknown}]
    /\ mishaps \subseteq {"torn", "stray", "loadfail", "cut"}

Init ==
    /\ KernelInit
    /\ file = <<>> /\ tmp = <<>>
    /\ pos = 0
    /\ pc = "down"
    /\ cur = NoRequest
    /\ rep = NoReply
    /\ epoch = 0
    /\ acked = [k \in Keys |-> NoObject]
    /\ mishaps = {}

-----------------------------------------------------------------------------
(* Start up: main, init_hashtable, load_stored_values. *)

\* Mutant of Start: main does not call init_hashtable.
Start_noinit ==
    /\ pc = "down" /\ ~oops /\ epoch < MaxEpochs /\ (Strays \/ wq = {})
    /\ epoch' = epoch + 1
    /\ port' = epoch + 1
    /\ inbox' = <<>>
    /\ pc' = "load"
    /\ UNCHANGED <<ht, hashtable_initialized, oops, wq, file, tmp, pos, cur, rep, acked, mishaps>>

\* main binds both sockets; init_hashtable sends INIT.
Start ==
    /\ pc = "down" /\ ~oops /\ epoch < MaxEpochs /\ (Strays \/ wq = {})
    /\ epoch' = epoch + 1
    /\ port' = epoch + 1
    /\ inbox' = <<>>
    /\ recieve_data(epoch + 1, [op |-> "INIT"])
    /\ pc' = "init"
    /\ mishaps' = IF wq = {} THEN mishaps ELSE mishaps \cup {"stray"}
    /\ UNCHANGED <<ht, hashtable_initialized, file, tmp, pos, cur, rep, acked>>

\* Mutant of InitDone: the answer to INIT is not waited for.
InitDone_nowait ==
    /\ pc = "init"
    /\ pos' = 0
    /\ pc' = "load"
    /\ UNCHANGED <<kvars, file, tmp, cur, rep, epoch, acked, mishaps>>

\* recvmsg in init_hashtable: whatever the answer is, it is ignored.
InitDone ==
    /\ pc = "init" /\ inbox # <<>>
    /\ inbox' = Tail(inbox)
    /\ pos' = 0
    /\ pc' = "load"
    /\ UNCHANGED <<ht, hashtable_initialized, oops, wq, port,
                   file, tmp, cur, rep, epoch, acked, mishaps>>

\* One round of the getline loop: a line without ':' is skipped, any other is
\* sent to the kernel as an INSERT.
LoadLine ==
    /\ pc = "load" /\ pos < Len(file)
    /\ pos' = pos + 1
    /\ LET line == file[pos + 1] IN
        \/ /\ ~HasColon(line)
           /\ UNCHANGED <<wq, oops, pc, cur>>
        \/ /\ HasColon(line)
           /\ cur' = [op |-> "INSERT", key |-> LineKey(line), val |-> LineValue(line)]
           /\ recieve_data(port, cur')
           /\ pc' = "loadwait"
    /\ UNCHANGED <<ht, hashtable_initialized, inbox, port,
                   file, tmp, rep, epoch, acked, mishaps>>

\* recvmsg in load_stored_values: the answer is ignored here as well.
LoadReply ==
    /\ pc = "loadwait" /\ inbox # <<>>
    /\ inbox' = Tail(inbox)
    /\ pc' = "load"
    /\ cur' = NoRequest
    /\ mishaps' = IF Head(inbox).tag \in {"inserted", "duplicate"} THEN mishaps
                                              ELSE mishaps \cup {"loadfail"}
    /\ UNCHANGED <<ht, hashtable_initialized, oops, wq, port,
                   file, tmp, pos, rep, epoch, acked>>

\* Mutant of LoadEnd: the loop ends one line early.
LoadEnd_early ==
    /\ pc = "load" /\ pos + 1 >= Len(file)
    /\ pc' = "idle"
    /\ pos' = 0
    /\ UNCHANGED <<kvars, file, tmp, cur, rep, epoch, acked, mishaps>>

LoadEnd ==
    /\ pc = "load" /\ pos = Len(file)
    /\ pc' = "idle"
    /\ pos' = 0
    /\ UNCHANGED <<kvars, file, tmp, cur, rep, epoch, acked, mishaps>>

-----------------------------------------------------------------------------
(* kernel_communication: one round of its loop. *)

\* llist_removefirst_PDU, memcpy and sendmsg.
Fetch(r) ==
    /\ pc = "idle"
    /\ r.op = "INSERT" => Len(file) < MaxLines
    /\ cur' = r
    /\ recieve_data(port, r)
    /\ pc' = "wait"
    /\ UNCHANGED <<ht, hashtable_initialized, inbox, port,
                   file, tmp, pos, rep, epoch, acked, mishaps>>

\* recvmsg and read_exactly_from_kernel.
Receive ==
    /\ pc = "wait" /\ inbox # <<>>
    /\ rep' = Head(inbox)
    /\ inbox' = Tail(inbox)
    /\ pc' = "store"
    /\ UNCHANGED <<ht, hashtable_initialized, oops, wq, port,
                   file, tmp, pos, cur, epoch, acked, mishaps>>

\* store_data changes nothing on an "Error" reply, and for INIT and GET;
\* opening the temporary file has emptied it.
StoreNothing ==
    /\ pc = "store"
    /\ rep.tag \in ErrorReplies \/ cur.op \in {"INIT", "GET"}
    /\ tmp' = <<>>
    /\ pc' = "bcast"
    /\ UNCHANGED <<kvars, file, pos, cur, rep, epoch, acked, mishaps>>

\* store_data, INSERT: the line reaches the file when the stream is closed.
StoreInsert ==
    /\ pc = "store"
    /\ rep.tag \notin ErrorReplies /\ cur.op = "INSERT"
    /\ file' = file \o FileLines(cur.key, cur.val)
    /\ tmp' = <<>>
    /\ pc' = "bcast"
    /\ UNCHANGED <<kvars, pos, cur, rep, epoch, acked, mishaps>>

\* Mutant of StoreDelete: the file is left alone.
StoreDelete_skip ==
    /\ pc = "store"
    /\ rep.tag \notin ErrorReplies /\ cur.op = "DELETE"
    /\ pc' = "bcast"
    /\ UNCHANGED <<kvars, file, tmp, pos, cur, rep, epoch, acked, mishaps>>

\* store_data, DELETE: copy the surviving lines to the temporary file, ...
StoreDelete ==
    /\ pc = "store"
    /\ rep.tag \notin ErrorReplies /\ cur.op = "DELETE"
    /\ tmp' = <<>>
    /\ pos' = 0
    /\ pc' = "filter"
    /\ UNCHANGED <<kvars, file, cur, rep, epoch, acked, mishaps>>

FilterLine ==
    /\ pc = "filter" /\ pos < Len(file)
    /\ tmp' = IF Survives(file[pos + 1], cur.key) THEN Append(tmp, file[pos + 1]) ELSE tmp
    /\ pos' = pos + 1
    /\ UNCHANGED <<kvars, file, pc, cur, rep, epoch, acked, mishaps>>

\* The deletion of key takes the acknowledged line of another key with it.
TakesOther(key) ==
    \E k \in Keys \ {key} : acked[k] \in Values /\ ~Survives(FileLine(k, acked[k]), key)

\* ... truncate the store with fopen(STORE_FILE, "w"), ...
FilterEnd ==
    /\ pc = "filter" /\ pos = Len(file)
    /\ file' = <<>>
    /\ pos' = 0
    /\ pc' = "copy"
    /\ mishaps' = mishaps \cup (IF TakesOther(cur.key) THEN {"cut"} ELSE {})
    /\ UNCHANGED <<kvars, tmp, cur, rep, epoch, acked>>

\* ... and copy the temporary file back, line by line.
CopyLine ==
    /\ pc = "copy" /\ pos < Len(tmp)
    /\ file' = Append(file, tmp[pos + 1])
    /\ pos' = pos + 1
    /\ UNCHANGED <<kvars, tmp, pc, cur, rep, epoch, acked, mishaps>>

CopyEnd ==
    /\ pc = "copy" /\ pos = Len(tmp)
    /\ pos' = 0
    /\ pc' = "bcast"
    /\ UNCHANGED <<kvars, file, tmp, cur, rep, epoch, acked, mishaps>>

\* The reply goes to the connected clients: the outcome is now acknowledged.
Broadcast ==
    /\ pc = "bcast"
    /\ pc' = "idle"
    /\ acked' = CASE cur.op = "INSERT" /\ rep.tag = "inserted"
                        -> [acked EXCEPT ![cur.key] = cur.val]
                  [] cur.op = "DELETE" /\ rep.tag = "deleted"
                        -> [acked EXCEPT ![cur.key] = NoObject]
                  [] OTHER -> acked
    /\ cur' = NoRequest
    /\ rep' = NoReply
    /\ UNCHANGED <<kvars, file, tmp, pos, epoch, mishaps>>

-----------------------------------------------------------------------------
(* The environment of the server process. *)

\* The process ends: a signal, an exit(EXIT_FAILURE), or main cancelling
\* kernel_communication on the way out.  The sockets go with it.
Stop ==
    /\ pc # "down"
    /\ pc' = "down"
    /\ port' = 0
    /\ inbox' = <<>>
    /\ acked' = IF pc \in Busy /\ cur.op \in {"INSERT", "DELETE"}
                  THEN [acked EXCEPT ![cur.key] = Unknown] ELSE acked
    /\ mishaps' = IF pc = "copy" THEN mishaps \cup {"torn"} ELSE mishaps
    /\ pos' = 0
    /\ cur' = NoRequest
    /\ rep' = NoReply
    /\ UNCHANGED <<ht, hashtable_initialized, oops, wq, file, tmp, epoch>>

ReloadModule ==
    /\ pc = "down"
    /\ exit_and_init
    /\ mishaps' = IF wq = {} THEN mishaps ELSE mishaps \cup {"stray"}
    /\ UNCHANGED <<file, tmp, pos, pc, cur, rep, epoch, acked>>

Reboot ==
    /\ pc = "down"
    /\ reboot
    /\ UNCHANGED svars

Kernel ==
    /\ work_handler
    /\ UNCHANGED svars

Server ==
    \/ InitDone \/ LoadLine \/ LoadReply \/ LoadEnd
    \/ Receive \/ StoreNothing \/ StoreInsert \/ StoreDelete
    \/ FilterLine \/ FilterEnd \/ CopyLine \/ CopyEnd \/ Broadcast

Next ==
    \/ Start
    \/ Server
    \/ \E r \in ClientRequest : Fetch(r)
    \/ Kernel
    \/ Stop \/ ReloadModule \/ Reboot

Spec == Init /\ [][Next]_vars

\* A running server thread and the kernel's worker keep being scheduled.
FairSpec == Spec /\ WF_vars(Server) /\ WF_vars(Kernel)

-----------------------------------------------------------------------------
(* Correctness. *)

ColonFree == \A k \in Keys : Len(k) = 1

LinesOf(f) == {f[i] : i \in DOMAIN f}
FileKeys == {LineKey(l) : l \in {m \in LinesOf(file) : HasColon(m)}}

\* What is not lost as long as the process keeps running.
Held == LinesOf(file) \cup (IF pc = "copy" THEN LinesOf(tmp) ELSE {})

\* The value load_stored_values makes of the line of k and v.
Reloaded(k, v) == LineValue(FileLine(k, v))

InProgress(op, k) == pc \in Busy /\ cur.op = op /\ cur.key = k

\* An acknowledged INSERT is on disk (store_data runs before the broadcast)
\* and stays there, whatever is inserted, deleted, reloaded or restarted
\* afterwards, until a DELETE of that key has rewritten the file.  The only ways
\* to lose it are to end the process between the truncation and the end of the
\* copy, a work item of an earlier run whose answer goes to this one, and, for a
\* key with a ':' in it, the DELETE of the key it is cut to: DELETE "a" also
\* takes the line of "a:b".  The other way round nothing is lost: a key without
\* a ':' keeps its line whatever other key is deleted.
AckedDurable ==
    mishaps \cap {"torn", "stray"} = {} =>
        \A k \in Keys :
            /\ Len(k) = 1 \/ "cut" \notin mishaps
            /\ acked[k] \in Values
            /\ ~(InProgress("DELETE", k) /\ pc \in {"copy", "bcast"} /\ rep.tag = "deleted")
            => FileLine(k, acked[k]) \in Held

\* No two lines of the store have the same key, so that which value a reload
\* brings back does not depend on the order of the file: the duplicate test of
\* rhashtable_lookup_insert_fast is enough although store_data never looks for
\* an old line.
UniqueLines ==
    ColonFree /\ mishaps \cap {"stray", "loadfail"} = {} =>
        \A i, j \in DOMAIN file :
            /\ HasColon(file[i]) /\ HasColon(file[j])
            /\ LineKey(file[i]) = LineKey(file[j])
            => i = j

\* The kernel serves an acknowledged INSERT in every run of the server, through
\* restarts, module reloads and reboots, up to what the text format does to the
\* value (Reloaded).
AckedServed ==
    ColonFree /\ mishaps = {} /\ pc \in Serving =>
        \A k \in Keys :
            acked[k] \in Values /\ ~InProgress("DELETE", k)
            => ht[k] \in {acked[k], Reloaded(k, acked[k])}

\* An acknowledged DELETE does not come back: neither table nor file holds the
\* key until the next INSERT of it is sent.
AckedGone ==
    ColonFree /\ "stray" \notin mishaps =>
        \A k \in Keys :
            acked[k] = NoObject /\ ~InProgress("INSERT", k)
            => ht[k] = NoObject /\ k \notin FileKeys

\* The answers a request can get from read_exactly_from_user.
Answers(op) ==
    {"wrongOp"} \cup
    CASE op = "INIT"   -> {"initialized", "alreadyInit", "initErr"}
      [] op = "INSERT" -> {"inserted", "duplicate", "kmallocErr", "insertErr"}
      [] op = "GET"    -> {"value", "notFound"}
      [] op = "DELETE" -> {"deleted", "notFound"}

\* store_data pairs the reply with the request that caused it: an answer to
\* INIT, to a line that was loaded or to an earlier request is never taken for
\* it, although neither side numbers its messages.
ReplyMatchesRequest ==
    "stray" \notin mishaps /\ pc \in {"store", "filter", "copy", "bcast"}
    => rep.tag \in Answers(cur.op)

\* A GET answers with the acknowledged value, or with notFound after an
\* acknowledged DELETE.
GetAgreesWithAcked ==
    /\ ColonFree /\ mishaps = {}
    /\ pc \in {"store", "bcast"} /\ cur.op = "GET" /\ rep.tag # "wrongOp"
    => /\ acked[cur.key] = NoObject => rep.tag = "notFound"
       /\ acked[cur.key] \in Values =>
            /\ rep.tag = "value"
            /\ rep.val \in {acked[cur.key], Reloaded(cur.key, acked[cur.key])}

\* Without allocation failures the table is never touched before
\* rhashtable_init: INIT is answered before the first line is loaded.  Only
\* unloading the module under a queued work item can crash the kernel.
KernelSafe == ~Faults /\ "stray" \notin mishaps => ~oops

-----------------------------------------------------------------------------
(* What the proofs of AckedDurable and ReplyMatchesRequest rest on. *)

Waiting == {"init", "loadwait", "wait"}

\* The request the server is waiting for; INIT while it starts.
Awaited == IF pc = "init" THEN [op |-> "INIT"] ELSE cur

\* The socket is bound exactly while the process runs, to its own pid.
PortInv ==
    /\ port = IF pc = "down" THEN 0 ELSE epoch
    /\ pc # "down" => epoch # 0
    /\ \A w \in wq : w.pid <= epoch

\* At most one work item exists, and while the server runs only if the server
\* waits for it: its request is either still queued or answered.
PairInv ==
    "stray" \notin mishaps =>
        /\ \A v, w \in wq : v = w
        /\ pc # "down" => \A w \in wq : /\ pc \in Waiting /\ inbox = <<>>
                                        /\ w.pid = port /\ w.req = Awaited
        /\ pc \notin Waiting => inbox = <<>>
        /\ Len(inbox) <= 1
        /\ inbox # <<>> => Head(inbox).tag \in Answers(Awaited.op)

\* kernel_communication only handles what clients have sent.
ClientInv == pc \in Busy => cur \in ClientRequest

\* What a step of store_data knows of the request it works on.
StepInv ==
    /\ pc \in {"filter", "copy"} =>
        cur.op = "DELETE" /\ ("stray" \notin mishaps => rep.tag = "deleted")
    /\ pc = "bcast" /\ cur.op = "INSERT" /\ rep.tag = "inserted"
         => FileLine(cur.key, cur.val) \in LinesOf(file)

\* Every line that is not blank starts with (the first token of) a key.
LinesInv ==
    \A l \in LinesOf(file) \cup LinesOf(tmp) : l = Blank \/ LineKey(l) \in Keys

\* The two loops of DELETE: what has been read so far has been written.
FilterInv ==
    pc = "filter" =>
        /\ pos <= Len(file)
        /\ \A i \in 1..pos : Survives(file[i], cur.key) => file[i] \in LinesOf(tmp)
CopyInv ==
    pc = "copy" =>
        /\ pos <= Len(tmp)
        /\ \A i \in 1..pos : tmp[i] \in LinesOf(file)

TypeInv == TypeOK /\ PortInv /\ ClientInv /\ LinesInv
ReplyInv == PairInv /\ ReplyMatchesRequest
DurableInv == StepInv /\ FilterInv /\ CopyInv /\ AckedDurable

-----------------------------------------------------------------------------
\* Every request is answered and every start-up ends, unless the process ends,
\* the kernel has crashed, or the answer went to the pid of an earlier run:
\* recvmsg has no time limit.  It says nothing of Faults: when the response
\* structure or nlmsg_new cannot be allocated, work_handler returns without an
\* answer and the server waits for ever.
Answered ==
    ~Faults =>
        (pc \in Busy \cup Loading) ~> (pc \in {"idle", "down"} \/ oops \/ "stray" \in mishaps)
=============================================================================
