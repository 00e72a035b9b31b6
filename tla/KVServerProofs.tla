--------------------------- MODULE KVServerProofs ---------------------------
(***************************************************************************)
(* Proofs about KVServer, for every set of keys and values and every bound.*)
(***************************************************************************)
EXTENDS KVServer, TLAPS

\* The fields of a request (PDU_to_buffer_user lays them out per operation).
LEMMA RequestFields ==
    ASSUME NEW r \in Request
    PROVE  /\ r.op \in {"INIT", "GET", "DELETE", "INSERT"}
           /\ r.op # "INIT" => r.key \in Keys
           /\ r.op = "INSERT" => r.val \in Text
  BY DEF Request

LEMMA ClientRequestFields ==
    ASSUME NEW r \in ClientRequest
    PROVE  /\ r \in Request
           /\ r.op = "INSERT" => r.val \in Values
  BY TextAssumption DEF ClientRequest, Request

\* What store_data prints for a key and a value: one line that starts with the
\* key's first token, perhaps followed by a blank one.
LEMMA FileLineType ==
    ASSUME NEW k \in Keys, NEW v \in Text
    PROVE  /\ FileLine(k, v) \in Line
           /\ Len(FileLine(k, v)) >= 2
           /\ LineKey(FileLine(k, v)) = <<k[1]>>
           /\ LineKey(FileLine(k, v)) \in Keys
           /\ FileLines(k, v) \in Seq(Line)
           /\ LinesOf(FileLines(k, v)) \subseteq {FileLine(k, v), Blank}
           /\ FileLine(k, v) \in LinesOf(FileLines(k, v))
<1>1. k \in Seq(Tokens) /\ k # <<>> /\ v.toks \in Seq(Tokens) /\ v.toks # <<>>
  BY TextAssumption DEF Text
<1>2. Len(k) >= 1 /\ Len(v.toks) >= 1
  BY <1>1
<1>3. /\ FileLine(k, v) \in Line
      /\ Len(FileLine(k, v)) >= 2
      /\ FileLine(k, v)[1] = k[1]
  BY <1>1, <1>2 DEF FileLine, Line
<1>4. LineKey(FileLine(k, v)) = <<k[1]>> /\ <<k[1]>> \in Keys
  BY <1>3, TextAssumption DEF LineKey
<1>5. Blank \in Line
  BY DEF Blank, Line
<1> QED
  BY <1>3, <1>4, <1>5 DEF FileLines, LinesOf

\* Concatenation and Append, as sets of lines.
LEMMA LinesOfConcat ==
    ASSUME NEW f \in Seq(Line), NEW g \in Seq(Line)
    PROVE  /\ f \o g \in Seq(Line)
           /\ LinesOf(f \o g) = LinesOf(f) \cup LinesOf(g)
<1>1. f \o g \in Seq(Line) /\ Len(f \o g) = Len(f) + Len(g)
  OBVIOUS
<1>2. LinesOf(f \o g) \subseteq LinesOf(f) \cup LinesOf(g)
  BY <1>1 DEF LinesOf
<1>3. ASSUME NEW i \in DOMAIN f PROVE f[i] \in LinesOf(f \o g)
  <2>1. i \in DOMAIN (f \o g) /\ (f \o g)[i] = f[i]
    OBVIOUS
  <2> QED BY <2>1 DEF LinesOf
<1>4. ASSUME NEW i \in DOMAIN g PROVE g[i] \in LinesOf(f \o g)
  <2>1. (Len(f) + i) \in DOMAIN (f \o g) /\ (f \o g)[Len(f) + i] = g[i]
    OBVIOUS
  <2> QED BY <2>1 DEF LinesOf
<1> QED BY <1>1, <1>2, <1>3, <1>4 DEF LinesOf

LEMMA LinesOfAppend ==
    ASSUME NEW f \in Seq(Line), NEW l \in Line
    PROVE  /\ Append(f, l) \in Seq(Line)
           /\ LinesOf(Append(f, l)) = LinesOf(f) \cup {l}
<1>1. ASSUME NEW i \in DOMAIN f PROVE f[i] \in LinesOf(Append(f, l))
  <2>1. i \in DOMAIN Append(f, l) /\ Append(f, l)[i] = f[i]
    OBVIOUS
  <2> QED BY <2>1 DEF LinesOf
<1>2. l \in LinesOf(Append(f, l))
  <2>1. (Len(f) + 1) \in DOMAIN Append(f, l) /\ Append(f, l)[Len(f) + 1] = l
    OBVIOUS
  <2> QED BY <2>1 DEF LinesOf
<1>3. LinesOf(Append(f, l)) \subseteq LinesOf(f) \cup {l}
  BY DEF LinesOf
<1> QED BY <1>1, <1>2, <1>3 DEF LinesOf

-----------------------------------------------------------------------------
(* Type correctness. *)

LEMMA InitTypeInv == Init => TypeInv
<1> SUFFICES ASSUME Init PROVE TypeInv
  OBVIOUS
<1>1. TypeOK
  <2>1. KernelTypeOK
    <3>1. hashtable_initialized \in BOOLEAN /\ oops \in BOOLEAN
      BY Zenon DEF Init, KernelInit
    <3>2. ht \in [Keys -> Text \cup {NoObject}]
      BY DEF Init, KernelInit, EmptyTable
    <3>3. wq = {} /\ inbox = <<>> /\ port = 0
      BY DEF Init, KernelInit
    <3> QED
      BY <3>1, <3>2, <3>3 DEF KernelTypeOK
  <2>2. NoRequest \in Request /\ NoReply \in Reply
    BY DEF NoRequest, NoReply, Request, Reply, OtherReplies
  <2> QED
    BY <2>1, <2>2 DEF Init, TypeOK
<1>2. PortInv
  BY DEF Init, KernelInit, PortInv
<1>3. ClientInv
  BY DEF Init, ClientInv, Busy
<1>4. LinesInv
  BY DEF Init, LinesInv, LinesOf
<1> QED
  BY <1>1, <1>2, <1>3, <1>4 DEF TypeInv

\* A message becomes a work item or crashes the kernel, an answer reaches the
\* inbox or not.
LEMMA QueuedOrNot ==
    ASSUME KernelTypeOK, NEW pid, NEW r, recieve_data(pid, r)
    PROVE  /\ wq' \subseteq wq \cup {[pid |-> pid, req |-> r]}
           /\ wq' = wq \/ wq' = wq \cup {[pid |-> pid, req |-> r]}
           /\ oops' \in BOOLEAN
<1>1. oops \in BOOLEAN
  BY DEF KernelTypeOK
<1> QED BY <1>1, Zenon DEF recieve_data

LEMMA AnsweredOrNot ==
    ASSUME KernelTypeOK, NEW w, NEW r, nlmsg_unicast(w, r)
    PROVE  (inbox' = inbox \/ inbox' = Append(inbox, r)) /\ oops' \in BOOLEAN
<1>1. oops \in BOOLEAN
  BY DEF KernelTypeOK
<1>2. oops' \in BOOLEAN
  BY <1>1, Zenon DEF nlmsg_unicast
<1> QED BY <1>2 DEF nlmsg_unicast

\* A work item leaves the queue, its reply is one of the known strings, and the
\* table keeps its type.
LEMMA WorkHandlerType ==
    ASSUME KernelTypeOK, work_handler
    PROVE  /\ KernelTypeOK'
           /\ wq' \subseteq wq
           /\ port' = port
<1>1. PICK w \in wq, g \in Globals :
        /\ wq' = wq \ {w}
        /\ \/ read_INIT_struct(g) \/ read_INSERT_struct(g) \/ read_GET_struct(g)
           \/ read_DELETE_struct(g) \/ NotInitialised(g) \/ read_exactly_from_user_fails(g)
  BY DEF work_handler
<1>2. g.req \in Request /\ g.pid \in Nat
  BY DEF KernelTypeOK, Globals
<1>3. ASSUME NEW rep1 \in Reply, nlmsg_unicast(g, rep1)
      PROVE  inbox' \in Seq(Reply) /\ oops' \in BOOLEAN
  <2>1. inbox \in Seq(Reply)
    BY DEF KernelTypeOK
  <2> QED BY <1>3, <2>1, AnsweredOrNot
<1>4. wq' \subseteq [pid : Nat \ {0}, req : Request] /\ port' \in Nat
  BY <1>1 DEF KernelTypeOK, work_handler
<1>5. CASE read_INIT_struct(g)
  <2>1. [tag |-> "alreadyInit"] \in Reply /\ [tag |-> "initialized"] \in Reply
          /\ [tag |-> "initErr"] \in Reply
    BY DEF Reply, OtherReplies
  <2>2. inbox' \in Seq(Reply) /\ oops' \in BOOLEAN
    BY <1>5, <1>3, <2>1 DEF read_INIT_struct
  <2> QED
    BY <1>1, <1>4, <1>5, <2>2 DEF read_INIT_struct, KernelTypeOK, EmptyTable, work_handler
<1>6. CASE read_INSERT_struct(g)
  <2>1. [tag |-> "inserted"] \in Reply /\ [tag |-> "duplicate"] \in Reply
          /\ \A t \in {"kmallocErr", "insertErr"} : [tag |-> t] \in Reply
    BY DEF Reply, OtherReplies, ErrorReplies
  <2>2. inbox' \in Seq(Reply) /\ oops' \in BOOLEAN
    BY <1>6, <1>3, <2>1 DEF read_INSERT_struct, KernelTypeOK
  <2>3. g.req.key \in Keys /\ g.req.val \in Text
    BY <1>2, <1>6, RequestFields DEF read_INSERT_struct
  <2>4. ht' \in [Keys -> Text \cup {NoObject}] /\ hashtable_initialized' \in BOOLEAN
    BY <1>6, <2>3 DEF read_INSERT_struct, KernelTypeOK
  <2> QED
    BY <1>1, <1>4, <2>2, <2>4 DEF KernelTypeOK, work_handler
<1>7. CASE read_GET_struct(g)
  <2>1. g.req.key \in Keys
    BY <1>2, <1>7, RequestFields DEF read_GET_struct
  <2>2. [tag |-> "notFound"] \in Reply
    BY DEF Reply, ErrorReplies
  <2>3. ht[g.req.key] # NoObject => [tag |-> "value", val |-> ht[g.req.key]] \in Reply
    BY <2>1 DEF Reply, KernelTypeOK
  <2>4. inbox' \in Seq(Reply) /\ oops' \in BOOLEAN
    BY <1>7, <1>3, <2>2, <2>3 DEF read_GET_struct
  <2> QED
    BY <1>1, <1>4, <1>7, <2>4 DEF read_GET_struct, KernelTypeOK, work_handler
<1>8. CASE read_DELETE_struct(g)
  <2>1. g.req.key \in Keys
    BY <1>2, <1>8, RequestFields DEF read_DELETE_struct
  <2>2. [tag |-> "notFound"] \in Reply /\ [tag |-> "deleted"] \in Reply
    BY DEF Reply, ErrorReplies, OtherReplies
  <2>3. inbox' \in Seq(Reply) /\ oops' \in BOOLEAN
    BY <1>8, <1>3, <2>2 DEF read_DELETE_struct
  <2>4. ht' \in [Keys -> Text \cup {NoObject}]
    BY <1>8, <2>1 DEF read_DELETE_struct, KernelTypeOK
  <2> QED
    BY <1>1, <1>4, <1>8, <2>3, <2>4 DEF read_DELETE_struct, KernelTypeOK, work_handler
<1>9. CASE NotInitialised(g)
  BY <1>1, <1>4, <1>9 DEF NotInitialised, KernelTypeOK, work_handler
<1>10. CASE read_exactly_from_user_fails(g)
  <2>1. [tag |-> "wrongOp"] \in Reply
    BY DEF Reply, ErrorReplies
  <2>2. inbox' \in Seq(Reply) /\ oops' \in BOOLEAN
    BY <1>10, <1>3, <2>1 DEF read_exactly_from_user_fails, KernelTypeOK
  <2> QED
    BY <1>1, <1>4, <1>10, <2>2 DEF read_exactly_from_user_fails, KernelTypeOK, work_handler
<1>11. wq' \subseteq wq /\ port' = port
  BY <1>1 DEF work_handler
<1> QED
  BY <1>1, <1>5, <1>6, <1>7, <1>8, <1>9, <1>10, <1>11

LEMMA NextTypeInv == TypeInv /\ [Next]_vars => TypeInv'
<1> SUFFICES ASSUME TypeInv, [Next]_vars PROVE TypeInv'
  OBVIOUS
<1> USE DEF TypeInv
<1>1. CASE Start
  <2>1. [pid |-> epoch + 1, req |-> [op |-> "INIT"]] \in [pid : Nat \ {0}, req : Request]
    BY DEF TypeOK, Request
  <2>2. KernelTypeOK'
    BY <1>1, <2>1, QueuedOrNot DEF Start, TypeOK, KernelTypeOK
  <2>3. TypeOK'
    BY <1>1, <2>2 DEF Start, TypeOK, Loading
  <2>4. PortInv'
    BY <1>1, <2>1, QueuedOrNot DEF Start, PortInv, TypeOK, KernelTypeOK
  <2> QED
    BY <1>1, <2>3, <2>4 DEF Start, ClientInv, LinesInv, Busy, LinesOf
<1>2. CASE InitDone
  <2>1. TypeOK'
    BY <1>2 DEF InitDone, TypeOK, KernelTypeOK, Loading
  <2> QED
    BY <1>2, <2>1 DEF InitDone, PortInv, ClientInv, LinesInv, Busy, LinesOf
<1>3. CASE LoadLine
  <2> DEFINE line == file[pos + 1]
  <2>1. line \in Line /\ line \in LinesOf(file)
    BY <1>3 DEF LoadLine, TypeOK, LinesOf
  <2>2. CASE ~HasColon(line)
    BY <1>3, <2>2 DEF LoadLine, TypeOK, KernelTypeOK, PortInv, ClientInv, LinesInv, LinesOf, HasColon
  <2>3. CASE HasColon(line)
    <3>1. cur' = [op |-> "INSERT", key |-> LineKey(line), val |-> LineValue(line)]
            /\ pc' = "loadwait" /\ recieve_data(port, cur')
      BY <1>3, <2>3 DEF LoadLine
    <3>2. LineKey(line) \in Keys
      BY <2>1, <2>3 DEF LinesInv, HasColon, Blank, Line
    <3>3. LineValue(line) \in Text
      BY <2>1, <2>3 DEF LineValue, Text, HasColon, Line
    <3>4. cur' \in Request
      BY <3>1, <3>2, <3>3 DEF Request
    <3>5. port \in Nat \ {0}
      BY <1>3 DEF LoadLine, PortInv, TypeOK
    <3>6. KernelTypeOK'
      BY <1>3, <3>1, <3>4, <3>5, QueuedOrNot DEF LoadLine, TypeOK, KernelTypeOK
    <3>7. TypeOK'
      BY <1>3, <3>1, <3>4, <3>6 DEF LoadLine, TypeOK, Loading
    <3>8. PortInv'
      BY <1>3, <3>1, <3>5, QueuedOrNot DEF LoadLine, PortInv, TypeOK
    <3> QED
      BY <1>3, <3>1, <3>7, <3>8 DEF LoadLine, ClientInv, LinesInv, Busy, LinesOf
  <2> QED
    BY <2>2, <2>3
<1>4. CASE LoadReply
  <2>1. NoRequest \in Request
    BY DEF NoRequest, Request
  <2>2. TypeOK'
    BY <1>4, <2>1 DEF LoadReply, TypeOK, KernelTypeOK, Loading
  <2> QED
    BY <1>4, <2>2 DEF LoadReply, PortInv, ClientInv, LinesInv, Busy, LinesOf
<1>5. CASE LoadEnd
  BY <1>5 DEF LoadEnd, kvars, TypeOK, KernelTypeOK, PortInv, ClientInv, LinesInv, Busy, Serving,
      LinesOf
<1>6. ASSUME NEW r \in ClientRequest, Fetch(r) PROVE TypeInv'
  <2>1. r \in Request
    BY ClientRequestFields
  <2>2. port \in Nat \ {0}
    BY <1>6 DEF Fetch, PortInv, TypeOK
  <2>3. KernelTypeOK'
    BY <1>6, <2>1, <2>2, QueuedOrNot DEF Fetch, TypeOK, KernelTypeOK
  <2>4. TypeOK'
    BY <1>6, <2>1, <2>3 DEF Fetch, TypeOK, Serving, Busy
  <2>5. PortInv'
    BY <1>6, <2>2, QueuedOrNot DEF Fetch, PortInv, TypeOK
  <2> QED
    BY <1>6, <2>4, <2>5 DEF Fetch, ClientInv, LinesInv, LinesOf
<1>7. CASE Receive
  <2>1. Head(inbox) \in Reply
    BY <1>7 DEF Receive, TypeOK, KernelTypeOK
  <2>2. TypeOK'
    BY <1>7, <2>1 DEF Receive, TypeOK, KernelTypeOK, Serving, Busy
  <2> QED
    BY <1>7, <2>2 DEF Receive, PortInv, ClientInv, LinesInv, LinesOf, Busy
<1>8. CASE StoreNothing
  BY <1>8 DEF StoreNothing, kvars, TypeOK, KernelTypeOK, PortInv, ClientInv, LinesInv, Busy,
      Serving, LinesOf
<1>9. CASE StoreInsert
  <2>1. cur.key \in Keys /\ cur.val \in Text
    BY <1>9, RequestFields DEF StoreInsert, TypeOK
  <2>2. file' \in Seq(Line) /\ LinesOf(file') = LinesOf(file) \cup LinesOf(FileLines(cur.key, cur.val))
    BY <1>9, <2>1, FileLineType, LinesOfConcat DEF StoreInsert, TypeOK
  <2>3. TypeOK'
    BY <1>9, <2>2 DEF StoreInsert, kvars, TypeOK, KernelTypeOK, Busy, Serving
  <2>4. LinesInv'
    <3>1. LinesOf(tmp') = {}
      BY <1>9 DEF StoreInsert, LinesOf
    <3> QED
      BY <2>1, <2>2, <3>1, FileLineType DEF LinesInv
  <2> QED
    BY <1>9, <2>3, <2>4 DEF StoreInsert, kvars, PortInv, ClientInv, Busy
<1>10. CASE StoreDelete
  BY <1>10 DEF StoreDelete, kvars, TypeOK, KernelTypeOK, PortInv, ClientInv, LinesInv, Busy,
      Serving, LinesOf
<1>11. CASE FilterLine
  <2>1. file[pos + 1] \in Line /\ file[pos + 1] \in LinesOf(file)
    BY <1>11 DEF FilterLine, TypeOK, LinesOf
  <2>2. tmp' \in Seq(Line) /\ LinesOf(tmp') \subseteq LinesOf(tmp) \cup {file[pos + 1]}
    BY <1>11, <2>1, LinesOfAppend DEF FilterLine, TypeOK
  <2>3. TypeOK'
    BY <1>11, <2>2 DEF FilterLine, kvars, TypeOK, KernelTypeOK
  <2>4. LinesInv'
    BY <1>11, <2>1, <2>2 DEF FilterLine, LinesInv
  <2> QED
    BY <1>11, <2>3, <2>4 DEF FilterLine, kvars, PortInv, ClientInv
<1>12. CASE FilterEnd
  BY <1>12 DEF FilterEnd, kvars, TypeOK, KernelTypeOK, PortInv, ClientInv, LinesInv, Busy,
      Serving, LinesOf
<1>13. CASE CopyLine
  <2>1. tmp[pos + 1] \in Line /\ tmp[pos + 1] \in LinesOf(tmp)
    BY <1>13 DEF CopyLine, TypeOK, LinesOf
  <2>2. file' \in Seq(Line) /\ LinesOf(file') = LinesOf(file) \cup {tmp[pos + 1]}
    BY <1>13, <2>1, LinesOfAppend DEF CopyLine, TypeOK
  <2>3. TypeOK'
    BY <1>13, <2>2 DEF CopyLine, kvars, TypeOK, KernelTypeOK
  <2>4. LinesInv'
    BY <1>13, <2>1, <2>2 DEF CopyLine, LinesInv
  <2> QED
    BY <1>13, <2>3, <2>4 DEF CopyLine, kvars, PortInv, ClientInv
<1>14. CASE CopyEnd
  BY <1>14 DEF CopyEnd, kvars, TypeOK, KernelTypeOK, PortInv, ClientInv, LinesInv, Busy, Serving,
      LinesOf
<1>15. CASE Broadcast
  <2>1. NoRequest \in Request /\ NoReply \in Reply
    BY DEF NoRequest, NoReply, Request, Reply, OtherReplies
  <2>2. cur \in ClientRequest
    BY <1>15 DEF Broadcast, ClientInv, Busy
  <2>3. cur.op = "INSERT" => cur.key \in Keys /\ cur.val \in Values
    BY <2>2, ClientRequestFields, RequestFields
  <2>4. cur.op = "DELETE" => cur.key \in Keys
    BY <2>2, ClientRequestFields, RequestFields
  <2>5. acked' \in [Keys -> Values \cup {NoObject, Unknown}]
    BY <1>15, <2>3, <2>4 DEF Broadcast, TypeOK
  <2>6. TypeOK'
    BY <1>15, <2>1, <2>5 DEF Broadcast, kvars, TypeOK, KernelTypeOK, Serving
  <2> QED
    BY <1>15, <2>6 DEF Broadcast, kvars, PortInv, ClientInv, LinesInv, Busy, LinesOf
<1>16. CASE Stop
  <2>1. NoRequest \in Request /\ NoReply \in Reply
    BY DEF NoRequest, NoReply, Request, Reply, OtherReplies
  <2>2. cur.op \in {"INSERT", "DELETE"} => cur.key \in Keys
    BY RequestFields DEF TypeOK
  <2>3. acked' \in [Keys -> Values \cup {NoObject, Unknown}]
    BY <1>16, <2>2 DEF Stop, TypeOK
  <2>4. KernelTypeOK'
    BY <1>16 DEF Stop, TypeOK, KernelTypeOK
  <2>5. TypeOK'
    BY <1>16, <2>1, <2>3, <2>4 DEF Stop, TypeOK
  <2> QED
    BY <1>16, <2>5 DEF Stop, PortInv, ClientInv, LinesInv, Busy, LinesOf
<1>17. CASE ReloadModule
  <2>1. oops' \in BOOLEAN /\ hashtable_initialized' \in BOOLEAN
    BY <1>17, Zenon DEF ReloadModule, exit_and_init
  <2>2. KernelTypeOK'
    BY <1>17, <2>1 DEF ReloadModule, exit_and_init, TypeOK, KernelTypeOK, EmptyTable
  <2>3. TypeOK'
    BY <1>17, <2>2 DEF ReloadModule, TypeOK
  <2> QED
    BY <1>17, <2>3 DEF ReloadModule, exit_and_init, PortInv, ClientInv, LinesInv, LinesOf
<1>18. CASE Reboot
  <2>1. oops' \in BOOLEAN /\ hashtable_initialized' \in BOOLEAN
    BY <1>18, Zenon DEF Reboot, reboot
  <2>2. KernelTypeOK'
    BY <1>18, <2>1 DEF Reboot, reboot, TypeOK, KernelTypeOK, EmptyTable
  <2>3. TypeOK'
    BY <1>18, <2>2 DEF Reboot, svars, TypeOK
  <2> QED
    BY <1>18, <2>3 DEF Reboot, reboot, svars, PortInv, ClientInv, LinesInv, LinesOf
<1>19. CASE Kernel
  <2>1. KernelTypeOK' /\ wq' \subseteq wq /\ port' = port
    BY <1>19, WorkHandlerType DEF Kernel, TypeOK
  <2>2. TypeOK'
    BY <1>19, <2>1 DEF Kernel, svars, TypeOK
  <2> QED
    BY <1>19, <2>1, <2>2 DEF Kernel, svars, PortInv, ClientInv, LinesInv, LinesOf
<1>20. CASE UNCHANGED vars
  BY <1>20 DEF vars, kvars, svars, TypeOK, KernelTypeOK, PortInv, ClientInv, LinesInv, LinesOf
<1> QED
  BY <1>1, <1>2, <1>3, <1>4, <1>5, <1>6, <1>7, <1>8, <1>9, <1>10, <1>11, <1>12, <1>13,
     <1>14, <1>15, <1>16, <1>17, <1>18, <1>19, <1>20 DEF Next, Server

\* Every state of the store, the kernel module and the history has its type; in
\* particular load_stored_values only ever sends keys a client could have sent.
THEOREM TypeCorrect == Spec => []TypeOK
<1>1. TypeInv => TypeOK
  BY DEF TypeInv
<1> QED
  BY <1>1, InitTypeInv, NextTypeInv, PTL DEF Spec

-----------------------------------------------------------------------------
(* Requests and replies are paired. *)

\* A work item answers at most once, to its sender, with a string that belongs
\* to its own operation.
LEMMA WorkHandlerReply ==
    ASSUME KernelTypeOK, work_handler
    PROVE  \E w \in wq, g \in Globals :
              /\ wq' = wq \ {w}
              /\ \/ inbox' = inbox
                 \/ /\ g.pid = port
                    /\ \E r \in Reply : /\ r.tag \in Answers(g.req.op)
                                        /\ inbox' = Append(inbox, r)
<1>1. PICK w \in wq, g \in Globals :
        /\ wq' = wq \ {w}
        /\ \/ read_INIT_struct(g) \/ read_INSERT_struct(g) \/ read_GET_struct(g)
           \/ read_DELETE_struct(g) \/ NotInitialised(g) \/ read_exactly_from_user_fails(g)
  BY DEF work_handler
<1>2. g.req \in Request
  BY DEF KernelTypeOK, Globals
<1> DEFINE P == \/ inbox' = inbox
                \/ /\ g.pid = port
                   /\ \E r \in Reply : /\ r.tag \in Answers(g.req.op)
                                       /\ inbox' = Append(inbox, r)
<1> SUFFICES P
  BY <1>1
<1> HIDE DEF P
<1>3. ASSUME NEW r \in Reply, r.tag \in Answers(g.req.op), nlmsg_unicast(g, r)
      PROVE  P
  BY <1>3 DEF nlmsg_unicast, P
<1>4. CASE read_INIT_struct(g)
  <2>1. \A t \in {"alreadyInit", "initialized", "initErr"} :
            [tag |-> t] \in Reply /\ [tag |-> t].tag \in Answers(g.req.op)
    BY <1>4 DEF read_INIT_struct, Reply, OtherReplies, Answers
  <2> QED BY <1>4, <1>3, <2>1 DEF read_INIT_struct
<1>5. CASE read_INSERT_struct(g)
  <2>1. \A t \in {"inserted", "duplicate", "kmallocErr", "insertErr"} :
            [tag |-> t] \in Reply /\ [tag |-> t].tag \in Answers(g.req.op)
    BY <1>5 DEF read_INSERT_struct, Reply, OtherReplies, ErrorReplies, Answers
  <2> QED BY <1>5, <1>3, <2>1 DEF P, read_INSERT_struct
<1>6. CASE read_GET_struct(g)
  <2>1. [tag |-> "notFound"] \in Reply /\ "notFound" \in Answers(g.req.op)
          /\ "value" \in Answers(g.req.op)
    BY <1>6 DEF read_GET_struct, Reply, ErrorReplies, Answers
  <2>2. g.req.key \in Keys
    BY <1>2, <1>6, RequestFields DEF read_GET_struct
  <2>3. ht[g.req.key] # NoObject => [tag |-> "value", val |-> ht[g.req.key]] \in Reply
    BY <2>2 DEF Reply, KernelTypeOK
  <2> QED BY <1>6, <1>3, <2>1, <2>3 DEF read_GET_struct
<1>7. CASE read_DELETE_struct(g)
  <2>1. \A t \in {"deleted", "notFound"} :
            [tag |-> t] \in Reply /\ [tag |-> t].tag \in Answers(g.req.op)
    BY <1>7 DEF read_DELETE_struct, Reply, OtherReplies, ErrorReplies, Answers
  <2> QED BY <1>7, <1>3, <2>1 DEF read_DELETE_struct
<1>8. CASE NotInitialised(g)
  BY <1>8 DEF NotInitialised, P
<1>9. CASE read_exactly_from_user_fails(g)
  <2>1. [tag |-> "wrongOp"] \in Reply /\ "wrongOp" \in Answers(g.req.op)
    BY DEF Reply, ErrorReplies, Answers
  <2> QED BY <1>9, <1>3, <2>1 DEF P, read_exactly_from_user_fails
<1> QED
  BY <1>1, <1>4, <1>5, <1>6, <1>7, <1>8, <1>9

LEMMA InitReplyInv == Init => ReplyInv
  BY DEF Init, KernelInit, ReplyInv, PairInv, ReplyMatchesRequest

\* The record of mishaps only grows.
LEMMA MishapsGrow == [Next]_vars => mishaps \subseteq mishaps'
  BY DEF Next, Server, Start, InitDone, LoadLine, LoadReply, LoadEnd, Fetch, Receive,
         StoreNothing, StoreInsert, StoreDelete, FilterLine, FilterEnd, CopyLine, CopyEnd,
         Broadcast, Stop, ReloadModule, Reboot, Kernel, vars, svars

LEMMA NextReplyInv == TypeInv /\ ReplyInv /\ [Next]_vars => ReplyInv'
<1> SUFFICES ASSUME TypeInv, ReplyInv, [Next]_vars, "stray" \notin mishaps' PROVE ReplyInv'
  BY DEF ReplyInv, PairInv, ReplyMatchesRequest
<1> USE DEF ReplyInv
<1>z. "stray" \notin mishaps
  BY MishapsGrow
<1>0. /\ epoch \in Nat /\ port \in Nat /\ inbox \in Seq(Reply)
      /\ \A w \in wq : w.pid \in Nat \ {0} /\ w.pid <= epoch
      /\ port = IF pc = "down" THEN 0 ELSE epoch
  BY DEF TypeInv, TypeOK, KernelTypeOK, PortInv
\* While the server does not wait, no work item is queued.
<1>a. pc \notin Waiting /\ pc # "down" => wq = {}
  BY <1>z DEF PairInv
<1>b. ASSUME inbox # <<>> PROVE Tail(inbox) = <<>> /\ wq = {}
  BY <1>b, <1>0, <1>z DEF PairInv, Waiting
<1>1. CASE Start
  <2>1. inbox' = <<>> /\ pc' = "init" /\ port' = epoch + 1
          /\ wq' \subseteq wq \cup {[pid |-> epoch + 1, req |-> [op |-> "INIT"]]}
    BY <1>z, <1>1, QueuedOrNot DEF Start, TypeInv, TypeOK
  <2>2. wq = {}
    BY <1>z, <1>1 DEF Start
  <2> QED BY <1>z, <2>1, <2>2 DEF PairInv, Waiting, Awaited, ReplyMatchesRequest
<1>2. CASE InitDone
  BY <1>z, <1>2, <1>b DEF InitDone, PairInv, Waiting, ReplyMatchesRequest
<1>3. CASE LoadLine
  <2>1. CASE UNCHANGED <<wq, pc, cur>>
    BY <1>z, <1>3, <2>1 DEF LoadLine, PairInv, Waiting, Awaited, ReplyMatchesRequest
  <2>2. CASE recieve_data(port, cur') /\ pc' = "loadwait"
    BY <1>z, <1>3, <2>2, <1>a DEF LoadLine, recieve_data, PairInv, Waiting, Awaited,
        ReplyMatchesRequest
  <2> QED BY <1>z, <1>3, <2>1, <2>2 DEF LoadLine
<1>4. CASE LoadReply
  BY <1>z, <1>4, <1>b DEF LoadReply, PairInv, Waiting, ReplyMatchesRequest
<1>5. CASE LoadEnd
  BY <1>z, <1>5, <1>a DEF LoadEnd, kvars, PairInv, Waiting, ReplyMatchesRequest
<1>6. ASSUME NEW r \in ClientRequest, Fetch(r) PROVE ReplyInv'
  BY <1>z, <1>6, <1>a DEF Fetch, recieve_data, PairInv, Waiting, Awaited, ReplyMatchesRequest
<1>7. CASE Receive
  <2>1. rep'.tag \in Answers(cur'.op)
    BY <1>z, <1>7 DEF Receive, PairInv, Awaited
  <2> QED BY <1>z, <1>7, <1>b, <2>1 DEF Receive, PairInv, Waiting, ReplyMatchesRequest
<1>8. CASE StoreNothing
  BY <1>z, <1>8, <1>a DEF StoreNothing, kvars, PairInv, Waiting, ReplyMatchesRequest
<1>9. CASE StoreInsert
  BY <1>z, <1>9, <1>a DEF StoreInsert, kvars, PairInv, Waiting, ReplyMatchesRequest
<1>10. CASE StoreDelete
  BY <1>z, <1>10, <1>a DEF StoreDelete, kvars, PairInv, Waiting, ReplyMatchesRequest
<1>11. CASE FilterLine
  BY <1>z, <1>11, <1>a DEF FilterLine, kvars, PairInv, Waiting, ReplyMatchesRequest
<1>12. CASE FilterEnd
  BY <1>z, <1>12, <1>a DEF FilterEnd, kvars, PairInv, Waiting, ReplyMatchesRequest
<1>13. CASE CopyLine
  BY <1>z, <1>13, <1>a DEF CopyLine, kvars, PairInv, Waiting, ReplyMatchesRequest
<1>14. CASE CopyEnd
  BY <1>z, <1>14, <1>a DEF CopyEnd, kvars, PairInv, Waiting, ReplyMatchesRequest
<1>15. CASE Broadcast
  BY <1>z, <1>15, <1>a DEF Broadcast, kvars, PairInv, Waiting, ReplyMatchesRequest
<1>16. CASE Stop
  BY <1>z, <1>16, <1>0 DEF Stop, PairInv, Waiting, ReplyMatchesRequest
<1>17. CASE ReloadModule
  BY <1>z, <1>17 DEF ReloadModule, exit_and_init, PairInv, Waiting, ReplyMatchesRequest, Awaited
<1>18. CASE Reboot
  BY <1>z, <1>18 DEF Reboot, reboot, svars, PairInv, Waiting, ReplyMatchesRequest, Awaited
<1>19. CASE Kernel
  <2>1. PICK w \in wq, g \in Globals :
          /\ wq' = wq \ {w}
          /\ \/ inbox' = inbox
             \/ /\ g.pid = port
                /\ \E r \in Reply : /\ r.tag \in Answers(g.req.op)
                                    /\ inbox' = Append(inbox, r)
    BY <1>19, WorkHandlerReply DEF Kernel, TypeInv, TypeOK
  <2>2. UNCHANGED <<pc, cur, rep, port>>
    BY <1>19 DEF Kernel, svars, work_handler
  <2>3. wq' = {}
    BY <1>z, <2>1 DEF PairInv
  <2>4. \E v \in wq : g.req = v.req
    BY DEF Globals
  <2>5. CASE inbox' = inbox
    BY <1>z, <2>2, <2>3, <2>5 DEF PairInv, Awaited, ReplyMatchesRequest
  <2>6. CASE g.pid = port /\ inbox' # inbox
    <3>1. PICK r \in Reply : r.tag \in Answers(g.req.op) /\ inbox' = Append(inbox, r)
      BY <2>1, <2>6
    <3>2. pc # "down"
      BY <1>0, <2>6 DEF Globals
    <3>3. pc \in Waiting /\ inbox = <<>> /\ g.req = Awaited
      BY <1>z, <2>4, <3>2 DEF PairInv
    <3>4. Len(inbox') = 1 /\ Head(inbox') = r
      BY <3>1, <3>3
    <3>5. Awaited' = Awaited
      BY <2>2 DEF Awaited
    <3> QED
      BY <1>z, <2>2, <2>3, <3>1, <3>3, <3>4, <3>5 DEF PairInv, ReplyMatchesRequest
  <2> QED BY <2>1, <2>5, <2>6
<1>20. CASE UNCHANGED vars
  BY <1>z, <1>20 DEF vars, kvars, svars, PairInv, ReplyMatchesRequest, Awaited
<1> QED
  BY <1>z, <1>1, <1>2, <1>3, <1>4, <1>5, <1>6, <1>7, <1>8, <1>9, <1>10, <1>11, <1>12, <1>13,
     <1>14, <1>15, <1>16, <1>17, <1>18, <1>19, <1>20 DEF Next, Server

\* Unless a work item outlives its server, a reply is never paired with another
\* request than the one that caused it, through any number of restarts, reloads
\* and reboots.
THEOREM RepliesPaired == Spec => []ReplyMatchesRequest
<1>1. TypeInv /\ ReplyInv => ReplyMatchesRequest
  BY DEF ReplyInv
<1>2. Init => TypeInv /\ ReplyInv
  BY InitTypeInv, InitReplyInv
<1>3. TypeInv /\ ReplyInv /\ [Next]_vars => TypeInv' /\ ReplyInv'
  BY NextTypeInv, NextReplyInv
<1> QED
  BY <1>1, <1>2, <1>3, PTL DEF Spec

-----------------------------------------------------------------------------
(* Acknowledged inserts are durable. *)

LEMMA InitDurableInv == Init => DurableInv
<1>1. NoObject \notin Values
  BY TextAssumption
<1> QED
  BY <1>1 DEF Init, DurableInv, StepInv, FilterInv, CopyInv, AckedDurable

\* Most steps of the system leave the file, the history and the request alone
\* and are neither in the copy loop nor at the broadcast.
LEMMA DurableKept ==
    ASSUME TypeInv, DurableInv,
           pc \notin {"copy", "bcast"}, pc' \notin {"filter", "copy", "bcast"},
           file' = file, acked' = acked, mishaps \subseteq mishaps'
    PROVE  DurableInv'
  BY DEF DurableInv, StepInv, FilterInv, CopyInv, AckedDurable, Held, InProgress, LinesOf

LEMMA NextDurableInv ==
    TypeInv /\ ReplyInv /\ DurableInv /\ [Next]_vars => DurableInv'
<1> SUFFICES ASSUME TypeInv, ReplyInv, DurableInv, [Next]_vars PROVE DurableInv'
  OBVIOUS
<1>0. file \in Seq(Line) /\ tmp \in Seq(Line) /\ pos \in Nat
  BY DEF TypeInv, TypeOK
<1>1. CASE Start
  BY <1>1, DurableKept DEF Start
<1>2. CASE InitDone
  BY <1>2, DurableKept DEF InitDone
<1>3. CASE LoadLine
  BY <1>3, DurableKept DEF LoadLine
<1>4. CASE LoadReply
  BY <1>4, DurableKept DEF LoadReply
<1>5. CASE LoadEnd
  BY <1>5, DurableKept DEF LoadEnd
<1>6. ASSUME NEW r \in ClientRequest, Fetch(r) PROVE DurableInv'
  BY <1>6, DurableKept DEF Fetch
<1>7. CASE Receive
  BY <1>7, DurableKept DEF Receive
<1>8. CASE StoreNothing
  <2>1. rep.tag \in ErrorReplies => rep.tag \notin {"inserted", "deleted"}
    BY DEF ErrorReplies
  <2>2. /\ file' = file /\ acked' = acked /\ mishaps' = mishaps /\ cur' = cur /\ rep' = rep
        /\ pc = "store" /\ pc' = "bcast"
        /\ rep.tag \in ErrorReplies \/ cur.op \in {"INIT", "GET"}
    BY <1>8 DEF StoreNothing
  <2> QED
    BY <2>1, <2>2 DEF DurableInv, StepInv, FilterInv, CopyInv, AckedDurable, Held,
                      InProgress, LinesOf
<1>9. CASE StoreInsert
  <2>1. cur.key \in Keys /\ cur.val \in Text
    BY <1>9, RequestFields DEF StoreInsert, TypeInv, TypeOK
  <2>2. LinesOf(file') = LinesOf(file) \cup LinesOf(FileLines(cur.key, cur.val))
    BY <1>0, <1>9, <2>1, FileLineType, LinesOfConcat DEF StoreInsert
  <2>3. FileLine(cur.key, cur.val) \in LinesOf(file')
    BY <2>1, <2>2, FileLineType
  <2>4. /\ acked' = acked /\ mishaps' = mishaps /\ cur' = cur /\ rep' = rep
        /\ pc = "store" /\ pc' = "bcast" /\ cur.op = "INSERT"
    BY <1>9 DEF StoreInsert
  <2> QED
    BY <2>2, <2>3, <2>4 DEF DurableInv, StepInv, FilterInv, CopyInv, AckedDurable, Held,
                            InProgress
<1>10. CASE StoreDelete
  <2>1. "stray" \notin mishaps => rep.tag = "deleted"
    BY <1>10 DEF StoreDelete, ReplyInv, ReplyMatchesRequest, Answers, ErrorReplies
  <2>2. /\ file' = file /\ acked' = acked /\ mishaps' = mishaps /\ cur' = cur /\ rep' = rep
        /\ pc = "store" /\ pc' = "filter" /\ cur.op = "DELETE" /\ pos' = 0
    BY <1>10 DEF StoreDelete
  <2> QED
    BY <1>0, <2>1, <2>2 DEF DurableInv, StepInv, FilterInv, CopyInv, AckedDurable, Held,
                      InProgress, LinesOf
<1>11. CASE FilterLine
  <2>1. /\ pc = "filter" /\ pos < Len(file) /\ pos' = pos + 1
        /\ tmp' = IF Survives(file[pos + 1], cur.key) THEN Append(tmp, file[pos + 1]) ELSE tmp
        /\ file' = file /\ acked' = acked /\ mishaps' = mishaps /\ cur' = cur
        /\ rep' = rep /\ pc' = pc
    BY <1>11 DEF FilterLine
  <2>2. file[pos + 1] \in Line
    BY <1>0, <2>1
  <2>3. /\ LinesOf(tmp) \subseteq LinesOf(tmp')
        /\ Survives(file[pos + 1], cur.key) => file[pos + 1] \in LinesOf(tmp')
    BY <1>0, <2>1, <2>2, LinesOfAppend
  <2>4. FilterInv'
    <3> SUFFICES ASSUME NEW i \in 1..(pos + 1), Survives(file[i], cur.key)
                 PROVE  file[i] \in LinesOf(tmp')
      BY <1>0, <2>1 DEF FilterInv
    <3>1. CASE i = pos + 1
      BY <2>3, <3>1
    <3>2. CASE i \in 1..pos
      BY <2>1, <2>3, <3>2 DEF DurableInv, FilterInv
    <3> QED BY <1>0, <3>1, <3>2
  <2> QED
    BY <2>1, <2>4 DEF DurableInv, StepInv, CopyInv, AckedDurable, Held, InProgress, LinesOf
<1>12. CASE FilterEnd
  <2>1. /\ pc = "filter" /\ pos = Len(file) /\ pos' = 0 /\ file' = <<>> /\ tmp' = tmp
        /\ acked' = acked /\ cur' = cur /\ rep' = rep /\ pc' = "copy"
        /\ mishaps' = mishaps \cup (IF TakesOther(cur.key) THEN {"cut"} ELSE {})
    BY <1>12 DEF FilterEnd
  <2>2. cur.op = "DELETE" /\ ("stray" \notin mishaps => rep.tag = "deleted")
    BY <2>1 DEF DurableInv, StepInv
  <2>3. AckedDurable'
    <3> SUFFICES ASSUME mishaps' \cap {"torn", "stray"} = {}, NEW k \in Keys,
                        Len(k) = 1 \/ "cut" \notin mishaps', acked[k] \in Values, cur.key # k
                 PROVE  FileLine(k, acked[k]) \in LinesOf(tmp)
      BY <2>1, <2>2 DEF AckedDurable, Held, InProgress, Busy
    <3>0. mishaps \cap {"torn", "stray"} = {} /\ (Len(k) = 1 \/ "cut" \notin mishaps)
      BY <2>1
    <3>1. FileLine(k, acked[k]) \in LinesOf(file)
      BY <2>1, <3>0 DEF DurableInv, AckedDurable, Held, InProgress
    <3>2. PICK i \in 1..pos : file[i] = FileLine(k, acked[k])
      BY <1>0, <2>1, <3>1 DEF LinesOf
    <3>3. acked[k] \in Text
      BY TextAssumption
    <3>4. ASSUME Len(k) = 1 PROVE Survives(file[i], cur.key)
      <4>1. k = <<k[1]>>
        BY <3>4, TextAssumption
      <4> QED BY <3>2, <3>3, <4>1, FileLineType DEF Survives
    <3>5. ASSUME "cut" \notin mishaps' PROVE Survives(file[i], cur.key)
      BY <2>1, <3>2, <3>5 DEF TakesOther
    <3>6. Survives(file[i], cur.key)
      BY <3>4, <3>5
    <3> QED
      BY <2>1, <3>2, <3>6 DEF DurableInv, FilterInv
  <2> QED
    BY <1>0, <2>1, <2>2, <2>3 DEF DurableInv, StepInv, FilterInv, CopyInv
<1>13. CASE CopyLine
  <2>1. /\ pc = "copy" /\ pos < Len(tmp) /\ pos' = pos + 1 /\ tmp' = tmp
        /\ file' = Append(file, tmp[pos + 1])
        /\ acked' = acked /\ mishaps' = mishaps /\ cur' = cur /\ rep' = rep /\ pc' = pc
    BY <1>13 DEF CopyLine
  <2>2. tmp[pos + 1] \in Line
    BY <1>0, <2>1
  <2>3. LinesOf(file') = LinesOf(file) \cup {tmp[pos + 1]}
    BY <1>0, <2>1, <2>2, LinesOfAppend
  <2>4. CopyInv'
    <3> SUFFICES ASSUME NEW i \in 1..(pos + 1) PROVE tmp[i] \in LinesOf(file')
      BY <1>0, <2>1 DEF CopyInv
    <3>1. CASE i = pos + 1
      BY <2>3, <3>1
    <3>2. CASE i \in 1..pos
      BY <2>1, <2>3, <3>2 DEF DurableInv, CopyInv
    <3> QED BY <1>0, <3>1, <3>2
  <2>5. AckedDurable'
    BY <2>1, <2>3 DEF DurableInv, AckedDurable, Held, InProgress
  <2> QED
    BY <2>1, <2>4, <2>5 DEF DurableInv, StepInv, FilterInv
<1>14. CASE CopyEnd
  <2>1. /\ pc = "copy" /\ pos = Len(tmp) /\ file' = file
        /\ acked' = acked /\ mishaps' = mishaps /\ cur' = cur /\ rep' = rep /\ pc' = "bcast"
    BY <1>14 DEF CopyEnd
  <2>2. LinesOf(tmp) \subseteq LinesOf(file)
    BY <1>0, <2>1 DEF DurableInv, CopyInv, LinesOf
  <2>3. Held' = Held
    BY <2>1, <2>2 DEF Held, LinesOf
  <2>4. cur.op = "DELETE"
    BY <2>1 DEF DurableInv, StepInv
  <2>5. AckedDurable'
    BY <2>1, <2>3, Zenon DEF DurableInv, AckedDurable, InProgress, Busy
  <2> QED
    BY <2>1, <2>4, <2>5 DEF DurableInv, StepInv, FilterInv, CopyInv
<1>15. CASE Broadcast
  <2>1. pc = "bcast" /\ pc' = "idle" /\ file' = file /\ mishaps' = mishaps
    BY <1>15 DEF Broadcast
  <2>2. cur \in ClientRequest
    BY <2>1 DEF TypeInv, ClientInv, Busy
  <2>3. cur.op \in {"INSERT", "DELETE"} => cur.key \in Keys
    BY <2>2, ClientRequestFields, RequestFields
  <2>4. AckedDurable'
    <3> SUFFICES ASSUME mishaps \cap {"torn", "stray"} = {}, NEW k \in Keys,
                        Len(k) = 1 \/ "cut" \notin mishaps, acked'[k] \in Values
                 PROVE  FileLine(k, acked'[k]) \in LinesOf(file)
      BY <2>1 DEF AckedDurable, Held, LinesOf
    <3>1. CASE cur.op = "INSERT" /\ rep.tag = "inserted" /\ cur.key = k
      BY <1>15, <2>1, <3>1 DEF Broadcast, DurableInv, StepInv, TypeInv, TypeOK
    <3>2. CASE cur.op = "DELETE" /\ rep.tag = "deleted" /\ cur.key = k
      BY <1>15, <3>2, TextAssumption DEF Broadcast, TypeInv, TypeOK
    <3>3. CASE /\ ~(cur.op = "INSERT" /\ rep.tag = "inserted" /\ cur.key = k)
               /\ ~(cur.op = "DELETE" /\ rep.tag = "deleted" /\ cur.key = k)
      <4>1. acked'[k] = acked[k]
        BY <1>15, <2>3, <3>3 DEF Broadcast, TypeInv, TypeOK
      <4> QED
        BY <2>1, <3>3, <4>1 DEF DurableInv, AckedDurable, Held, InProgress
    <3> QED BY <3>1, <3>2, <3>3
  <2> QED
    BY <2>1, <2>4 DEF DurableInv, StepInv, FilterInv, CopyInv
<1>16. CASE Stop
  <2>1. pc # "down" /\ pc' = "down" /\ file' = file
    BY <1>16 DEF Stop
  <2>2. AckedDurable'
    <3> SUFFICES ASSUME mishaps' \cap {"torn", "stray"} = {}, NEW k \in Keys,
                        Len(k) = 1 \/ "cut" \notin mishaps', acked'[k] \in Values
                 PROVE  FileLine(k, acked'[k]) \in LinesOf(file)
      BY <2>1 DEF AckedDurable, Held, LinesOf
    <3>1. /\ pc # "copy" /\ mishaps \cap {"torn", "stray"} = {}
          /\ Len(k) = 1 \/ "cut" \notin mishaps
      BY <1>16 DEF Stop
    <3>2. ~InProgress("DELETE", k) /\ acked'[k] = acked[k]
      BY <1>16, TextAssumption, ServerAssumption, RequestFields
         DEF Stop, InProgress, TypeInv, TypeOK
    <3> QED
      BY <3>1, <3>2 DEF DurableInv, AckedDurable, Held
  <2> QED
    BY <2>1, <2>2 DEF DurableInv, StepInv, FilterInv, CopyInv
<1>17. CASE ReloadModule
  BY <1>17, DurableKept DEF ReloadModule
<1>18. CASE Reboot
  BY <1>18, DurableKept DEF Reboot, svars
<1>19. CASE Kernel
  BY <1>19 DEF Kernel, svars, DurableInv, StepInv, FilterInv, CopyInv, AckedDurable, Held,
               InProgress, LinesOf
<1>20. CASE UNCHANGED vars
  BY <1>20 DEF vars, svars, DurableInv, StepInv, FilterInv, CopyInv, AckedDurable, Held,
               InProgress, LinesOf
<1> QED
  BY <1>1, <1>2, <1>3, <1>4, <1>5, <1>6, <1>7, <1>8, <1>9, <1>10, <1>11, <1>12, <1>13,
     <1>14, <1>15, <1>16, <1>17, <1>18, <1>19, <1>20 DEF Next, Server

\* An acknowledged INSERT survives everything but the end of the process inside
\* the rewrite window of store_data's DELETE and a work item that outlives its
\* server.
THEOREM AckedIsDurable == Spec => []AckedDurable
<1>1. TypeInv /\ ReplyInv /\ DurableInv => AckedDurable
  BY DEF DurableInv
<1>2. Init => TypeInv /\ ReplyInv /\ DurableInv
  BY InitTypeInv, InitReplyInv, InitDurableInv
<1>3. TypeInv /\ ReplyInv /\ DurableInv /\ [Next]_vars => TypeInv' /\ ReplyInv' /\ DurableInv'
  BY NextTypeInv, NextReplyInv, NextDurableInv
<1> QED
  BY <1>1, <1>2, <1>3, PTL DEF Spec
=============================================================================
