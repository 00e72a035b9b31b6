--------------------------- MODULE NetlinkKernel ---------------------------
(***************************************************************************)
(* The kernel module (OU4/Kernel/netlinkKernel.c): a resizable hash table  *)
(* served over a pair of netlink sockets.  recieve_data queues one work    *)
(* item per message; work_handler runs an item, changes the table and      *)
(* sends one reply to the port (pid) of the sender.                        *)
(*                                                                         *)
(* Text is abstracted to the pieces the program tells apart: a key or a    *)
(* value is a sequence of ':'-free tokens (what strtok(.., ":") sees), and *)
(* a value also says whether it ends in a newline.                         *)
(***************************************************************************)
EXTENDS Integers, Sequences

CONSTANTS
    Tokens,     \* ':'-free pieces of text
    Keys,       \* keys a client may use: non-empty sequences of tokens
    Values,     \* values a client may insert
    NoObject,   \* "the table holds no object under this key"
    Faults      \* may kmalloc, rhashtable_* and nlmsg_new fail?

(***************************************************************************)
(* A text as it is held in memory, and the requests of PDU_kernel.h.       *)
(***************************************************************************)
Text == [toks : Seq(Tokens) \ {<<>>}, nl : BOOLEAN]

Request == [op : {"INIT"}]
             \cup [op : {"GET", "DELETE"}, key : Keys]
             \cup [op : {"INSERT"}, key : Keys, val : Text]

ASSUME TextAssumption ==
    /\ Keys \subseteq Seq(Tokens) \ {<<>>}
    /\ Values \subseteq Text
    /\ \A k \in Keys : <<k[1]>> \in Keys     \* a key cut at its first ':' is a key
    /\ NoObject \notin Text
    /\ Faults \in BOOLEAN

(***************************************************************************)
(* The strings work_handler answers with.  The ones store_data (server.c)  *)
(* recognises start with "Error"; "Unable to initialize" does not.         *)
(***************************************************************************)
ErrorReplies == {"kmallocErr", "duplicate", "insertErr", "notFound", "wrongOp"}
OtherReplies == {"initialized", "alreadyInit", "initErr", "inserted", "deleted"}
Reply == [tag : ErrorReplies \cup OtherReplies] \cup [tag : {"value"}, val : Text]

VARIABLES
    ht,                     \* the rhashtable: key -> object data or NoObject
    hashtable_initialized,  \* rhashtable_init has succeeded
    oops,                   \* a kernel thread died on an invalid access
    wq,                     \* queued work items: [pid, req]
    inbox,                  \* receive queue of the server's netlink socket
    port                    \* pid bound to that socket, 0 if none is bound

kvars == <<ht, hashtable_initialized, oops, wq, inbox, port>>

EmptyTable == [k \in Keys |-> NoObject]

KernelTypeOK ==
    /\ ht \in [Keys -> Text \cup {NoObject}]
    /\ hashtable_initialized \in BOOLEAN
    /\ oops \in BOOLEAN
    /\ wq \subseteq [pid : Nat \ {0}, req : Request]
    /\ inbox \in Seq(Reply)
    /\ port \in Nat

\* insmod: no socket is bound and the table is not initialised.
KernelInit ==
    /\ ht = EmptyTable
    /\ hashtable_initialized = FALSE
    /\ oops = FALSE
    /\ wq = {}
    /\ inbox = <<>>
    /\ port = 0

-----------------------------------------------------------------------------
\* Mutant of recieve_data: the pid of the sender is not kept.
recieve_data_nopid(pid, r) ==
    \/ wq' = wq \cup {[pid |-> 0, req |-> r]} /\ UNCHANGED oops
    \/ Faults /\ oops' = TRUE /\ UNCHANGED wq

\* recieve_data: the message of the process pid becomes a work item; the
\* kmalloc of the item is not tested.
recieve_data(pid, r) ==
    \/ wq' = wq \cup {[pid |-> pid, req |-> r]} /\ UNCHANGED oops
    \/ Faults /\ oops' = TRUE /\ UNCHANGED wq

\* The tail of work_handler: one message to the sender's pid.  A message to a
\* port that is no longer bound is dropped; nlmsg_new may fail, and so may the
\* kmalloc of PDU_to_buffer_kernel, which is not tested.
nlmsg_unicast(w, rep) ==
    \/ /\ inbox' = IF w.pid = port THEN Append(inbox, rep) ELSE inbox
       /\ UNCHANGED oops
    \/ Faults /\ UNCHANGED inbox /\ oops' \in BOOLEAN

\* rhashtable_* on a table that rhashtable_init never set up.
NotInitialised(w) ==
    /\ w.req.op # "INIT"
    /\ ~hashtable_initialized
    /\ oops' = TRUE
    /\ UNCHANGED <<ht, hashtable_initialized, inbox>>

read_INIT_struct(w) ==
    /\ w.req.op = "INIT"
    /\ \/ /\ hashtable_initialized
          /\ nlmsg_unicast(w, [tag |-> "alreadyInit"])
          /\ UNCHANGED <<ht, hashtable_initialized>>
       \/ /\ ~hashtable_initialized
          /\ hashtable_initialized' = TRUE
          /\ ht' = EmptyTable
          /\ nlmsg_unicast(w, [tag |-> "initialized"])
       \/ /\ ~hashtable_initialized
          /\ Faults
          /\ nlmsg_unicast(w, [tag |-> "initErr"])
          /\ UNCHANGED <<ht, hashtable_initialized>>

\* Mutant of read_INSERT_struct: an insertion that does not look the key up.
read_INSERT_struct_blind(w) ==
    /\ w.req.op = "INSERT"
    /\ hashtable_initialized
    /\ ht' = [ht EXCEPT ![w.req.key] = w.req.val]
    /\ nlmsg_unicast(w, [tag |-> "inserted"])
    /\ UNCHANGED hashtable_initialized

read_INSERT_struct(w) ==
    /\ w.req.op = "INSERT"
    /\ hashtable_initialized
    /\ \/ /\ ht[w.req.key] = NoObject
          /\ ht' = [ht EXCEPT ![w.req.key] = w.req.val]
          /\ nlmsg_unicast(w, [tag |-> "inserted"])
       \/ /\ ht[w.req.key] # NoObject
          /\ nlmsg_unicast(w, [tag |-> "duplicate"])
          /\ UNCHANGED ht
       \/ /\ Faults
          /\ \E t \in {"kmallocErr", "insertErr"} : nlmsg_unicast(w, [tag |-> t])
          /\ UNCHANGED ht
       \/ /\ Faults                 \* obj->data is NULL and not tested
          /\ oops' = TRUE
          /\ UNCHANGED <<ht, inbox>>
    /\ UNCHANGED hashtable_initialized

\* Mutant of read_GET_struct: a miss is not answered.
read_GET_struct_silent(w) ==
    /\ w.req.op = "GET"
    /\ hashtable_initialized
    /\ \/ /\ ht[w.req.key] # NoObject
          /\ nlmsg_unicast(w, [tag |-> "value", val |-> ht[w.req.key]])
       \/ /\ ht[w.req.key] = NoObject
          /\ UNCHANGED <<inbox, oops>>
    /\ UNCHANGED <<ht, hashtable_initialized>>

read_GET_struct(w) ==
    /\ w.req.op = "GET"
    /\ hashtable_initialized
    /\ \/ /\ ht[w.req.key] # NoObject
          /\ nlmsg_unicast(w, [tag |-> "value", val |-> ht[w.req.key]])
       \/ /\ ht[w.req.key] = NoObject
          /\ nlmsg_unicast(w, [tag |-> "notFound"])
    /\ UNCHANGED <<ht, hashtable_initialized>>

\* Mutant of read_DELETE_struct: the object stays in the table.
read_DELETE_struct_keep(w) ==
    /\ w.req.op = "DELETE"
    /\ hashtable_initialized
    /\ nlmsg_unicast(w, [tag |-> IF ht[w.req.key] # NoObject THEN "deleted" ELSE "notFound"])
    /\ UNCHANGED <<ht, hashtable_initialized>>

read_DELETE_struct(w) ==
    /\ w.req.op = "DELETE"
    /\ hashtable_initialized
    /\ \/ /\ ht[w.req.key] # NoObject
          /\ ht' = [ht EXCEPT ![w.req.key] = NoObject]
          /\ nlmsg_unicast(w, [tag |-> "deleted"])
       \/ /\ ht[w.req.key] = NoObject
          /\ nlmsg_unicast(w, [tag |-> "notFound"])
          /\ UNCHANGED ht
    /\ UNCHANGED hashtable_initialized

\* The response structure cannot be allocated: the request is dropped unread.
\* Or the skb, which recieve_data keeps without a reference, was overwritten:
\* the operation code is garbage.
read_exactly_from_user_fails(w) ==
    /\ Faults
    /\ \/ UNCHANGED <<inbox, oops>>
       \/ nlmsg_unicast(w, [tag |-> "wrongOp"])
    /\ UNCHANGED <<ht, hashtable_initialized>>

\* work_handler keeps the request and the pid of its sender in the globals
\* nlh_kernel_receive and pid.  Items that run on two CPUs at once may find
\* those of the other; an item that is alone finds its own.
Globals == [pid : {w.pid : w \in wq}, req : {w.req : w \in wq}]

\* One work item runs to completion.
work_handler ==
    /\ ~oops
    /\ \E w \in wq, g \in Globals :
        /\ wq' = wq \ {w}
        /\ \/ read_INIT_struct(g)
           \/ read_INSERT_struct(g)
           \/ read_GET_struct(g)
           \/ read_DELETE_struct(g)
           \/ NotInitialised(g)
           \/ read_exactly_from_user_fails(g)
    /\ UNCHANGED port

\* rmmod and insmod.  exit destroys the table before it flushes the queue, so
\* an item that is still queued runs on freed memory: it may crash the kernel.
exit_and_init ==
    /\ ~oops
    /\ port = 0
    /\ ht' = EmptyTable
    /\ hashtable_initialized' = FALSE
    /\ wq' = {}
    /\ oops' \in {FALSE, wq # {}}
    /\ UNCHANGED <<inbox, port>>

\* The machine is restarted and the module loaded again.
reboot ==
    /\ port = 0
    /\ ht' = EmptyTable
    /\ hashtable_initialized' = FALSE
    /\ oops' = FALSE
    /\ wq' = {}
    /\ UNCHANGED <<inbox, port>>
=============================================================================
