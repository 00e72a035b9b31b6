--------------------------- MODULE KVTableProofs ---------------------------
(***************************************************************************)
(* What the kernel's table, stored_values.txt and the acknowledgements of  *)
(* KVServer have to do with each other, for every set of keys and values   *)
(* and every bound.                                                        *)
(***************************************************************************)
EXTENDS KVServerProofs

\* The keys load_stored_values finds in a file.
KeysIn(f) == {LineKey(l) : l \in {m \in LinesOf(f) : HasColon(m)}}

\* No two lines have the same key.
UniqueKeys(f) ==
    \A i, j \in DOMAIN f :
        HasColon(f[i]) /\ HasColon(f[j]) /\ LineKey(f[i]) = LineKey(f[j]) => i = j

\* The kernel has answered the request in hand, and what it said.
HasAnswer == pc \in {"store", "filter", "copy", "bcast"} \/ (pc = "wait" /\ inbox # <<>>)
Answer == IF pc = "wait" THEN Head(inbox) ELSE rep

Inserted(k) == cur.op = "INSERT" /\ cur.key = k /\ HasAnswer /\ Answer.tag = "inserted"

\* A deletion that may have reached the table but not yet the file.
Deleting(k) ==
    /\ InProgress("DELETE", k)
    /\ wq = {}
    /\ HasAnswer => Answer.tag = "deleted"

\* rhashtable_init comes before the first object.
EmptyInv == ~hashtable_initialized => ht = EmptyTable

\* Once INIT has been answered the table can be used.
ReadyInv ==
    ~Faults /\ "stray" \notin mishaps =>
        /\ ~oops
        /\ pc \notin {"down", "init"} \/ (pc = "init" /\ inbox # <<>>) => hashtable_initialized
        /\ \A w \in wq : w.req.op = "INIT" \/ hashtable_initialized

\* The answer in hand still describes the table.
AnswerInv ==
    "stray" \notin mishaps =>
        /\ HasAnswer =>
            /\ cur.op = "INSERT" /\ Answer.tag = "inserted" => ht[cur.key] = cur.val
            /\ cur.op = "DELETE" /\ Answer.tag = "deleted" => ht[cur.key] = NoObject
            /\ cur.op = "GET" /\ Answer.tag # "wrongOp" =>
                IF ht[cur.key] = NoObject THEN Answer.tag = "notFound"
                ELSE Answer.tag = "value" /\ Answer.val = ht[cur.key]
        /\ pc = "loadwait" /\ inbox # <<>> /\ Head(inbox).tag \in {"inserted", "duplicate"}
            => ht[cur.key] # NoObject

\* load_stored_values waits for the line it has just read.
LoadInv ==
    /\ pc \in {"load", "loadwait"} => pos <= Len(file)
    /\ pc = "loadwait" =>
        /\ pos >= 1 /\ HasColon(file[pos])
        /\ cur = [op |-> "INSERT", key |-> LineKey(file[pos]), val |-> LineValue(file[pos])]

\* What a deletion has taken out of the file so far.
RewriteInv ==
    /\ pc \in {"filter", "copy"} => cur.key \notin KeysIn(tmp)
    /\ pc = "copy" => cur.key \notin KeysIn(file)
    /\ pc = "bcast" /\ cur.op = "DELETE" /\ rep.tag = "deleted" => cur.key \notin KeysIn(file)

\* Unless the table already has the object of an INSERT under way it holds
\* none under k, and neither does the file.
Absent(k) ==
    /\ (InProgress("INSERT", k) => wq # {} \/ (HasAnswer /\ ~Inserted(k))) => ht[k] = NoObject
    /\ ~(Inserted(k) /\ pc = "bcast") => k \notin KeysIn(file)
    /\ pc \in {"filter", "copy"} => k \notin KeysIn(tmp)

\* A key that does not exist by its last acknowledgement, and what is queued
\* does not bring it back.
GoneInv ==
    ColonFree /\ "stray" \notin mishaps =>
        /\ \A k \in Keys : acked[k] = NoObject => Absent(k)
        /\ \A w \in wq : w.req.op = "INSERT" =>
            acked[w.req.key] # NoObject \/ InProgress("INSERT", w.req.key)

\* The table holds every key of the file, as far as it is loaded.
CoverInv ==
    ColonFree /\ "stray" \notin mishaps /\ "loadfail" \notin mishaps =>
        /\ pc \in Serving => \A k \in KeysIn(file) : ht[k] # NoObject \/ Deleting(k)
        /\ pc \in {"filter", "copy"} => \A k \in KeysIn(tmp) : ht[k] # NoObject
        /\ pc \in {"load", "loadwait"} =>
            \A i \in 1..pos : HasColon(file[i]) /\ (pc = "loadwait" => i # pos)
                              => ht[LineKey(file[i])] # NoObject
        /\ pc \in {"wait", "store"} => \A k \in Keys : Inserted(k) => k \notin KeysIn(file)

\* The file and what a deletion makes of it have one line per key.
UniqueInv ==
    ColonFree /\ "stray" \notin mishaps /\ "loadfail" \notin mishaps =>
        /\ UniqueKeys(file)
        /\ pc \in {"filter", "copy"} => UniqueKeys(tmp)
        /\ pc = "filter" => \A i \in DOMAIN tmp : \E j \in 1..pos : file[j] = tmp[i]
        /\ pc = "copy" => Len(file) = pos /\ \A i \in 1..pos : file[i] = tmp[i]

\* The table holds an acknowledged value as it was inserted or as it was loaded.
ValueInv ==
    ColonFree /\ mishaps = {} =>
        /\ \A k \in Keys : acked[k] \in Values =>
            ht[k] \in {NoObject, acked[k], Reloaded(k, acked[k])}
        /\ \A w \in wq : w.req.op = "INSERT" /\ pc \notin Busy /\ acked[w.req.key] \in Values =>
            w.req.val = Reloaded(w.req.key, acked[w.req.key])

-----------------------------------------------------------------------------
(* Files and their keys. *)

LEMMA KeysInMember ==
    ASSUME NEW f, NEW k
    PROVE  k \in KeysIn(f) <=> \E i \in DOMAIN f : HasColon(f[i]) /\ LineKey(f[i]) = k
  BY DEF KeysIn, LinesOf

LEMMA KeysInEmpty == KeysIn(<<>>) = {}
  BY DEF KeysIn, LinesOf

LEMMA KeysInAppend ==
    ASSUME NEW f \in Seq(Line), NEW l \in Line
    PROVE  KeysIn(Append(f, l)) = KeysIn(f) \cup (IF HasColon(l) THEN {LineKey(l)} ELSE {})
<1>1. LinesOf(Append(f, l)) = LinesOf(f) \cup {l}
  BY LinesOfAppend
<1> QED BY <1>1 DEF KeysIn

\* A stored line adds the key it was stored under, or what is left of it when
\* the key is cut at its first ':'.
LEMMA KeysInStored ==
    ASSUME NEW f \in Seq(Line), NEW k \in Keys, NEW v \in Text
    PROVE  KeysIn(f \o FileLines(k, v)) = KeysIn(f) \cup {<<k[1]>>}
<1>1. LinesOf(f \o FileLines(k, v)) = LinesOf(f) \cup LinesOf(FileLines(k, v))
  BY FileLineType, LinesOfConcat
<1>2. /\ LinesOf(FileLines(k, v)) \subseteq {FileLine(k, v), Blank}
      /\ FileLine(k, v) \in LinesOf(FileLines(k, v))
      /\ HasColon(FileLine(k, v)) /\ LineKey(FileLine(k, v)) = <<k[1]>>
  BY FileLineType DEF HasColon
<1>3. ~HasColon(Blank)
  BY DEF HasColon, Blank
<1> QED BY <1>1, <1>2, <1>3, Zenon DEF KeysIn

LEMMA OneToken ==
    ASSUME ColonFree, NEW k \in Keys
    PROVE  <<k[1]>> = k
  BY TextAssumption DEF ColonFree

LEMMA KeysInKeys ==
    ASSUME TypeInv
    PROVE  KeysIn(file) \subseteq Keys /\ KeysIn(tmp) \subseteq Keys
<1>1. ~HasColon(Blank)
  BY DEF HasColon, Blank
<1> QED BY <1>1 DEF TypeInv, LinesInv, KeysIn

\* An acknowledged value that AckedDurable keeps in the file keeps its key there.
LEMMA DurableKey ==
    ASSUME ColonFree, NEW f, NEW k \in Keys, NEW v \in Text, FileLine(k, v) \in LinesOf(f)
    PROVE  k \in KeysIn(f)
<1>1. LineKey(FileLine(k, v)) = k /\ HasColon(FileLine(k, v))
  BY OneToken, FileLineType DEF HasColon
<1> QED BY <1>1, Zenon DEF KeysIn

-----------------------------------------------------------------------------
(* One work item. *)

\* What a work item does to the table ...
Effect(r) ==
    \/ ht' = ht
    \/ r.op = "INSERT" /\ ht[r.key] = NoObject /\ ht' = [ht EXCEPT ![r.key] = r.val]
    \/ r.op = "DELETE" /\ ht' = [ht EXCEPT ![r.key] = NoObject]

\* ... and what its answer says about the table.
Says(r, a) ==
    /\ r.op = "INSERT" =>
        /\ a.tag = "inserted" => ht[r.key] = NoObject /\ ht'[r.key] = r.val
        /\ a.tag # "inserted" => ht' = ht
        /\ a.tag = "duplicate" => ht[r.key] # NoObject
    /\ r.op = "DELETE" =>
        /\ a.tag = "deleted" => ht'[r.key] = NoObject
        /\ a.tag # "deleted" => ht' = ht
    /\ r.op = "GET" /\ a.tag # "wrongOp" =>
        IF ht[r.key] = NoObject THEN a.tag = "notFound"
        ELSE a.tag = "value" /\ a.val = ht[r.key]

\* An item that is alone finds its own request in the globals.
LEMMA OneItem ==
    ASSUME TypeInv, EmptyInv, \A v, w \in wq : v = w, work_handler
    PROVE  \E w \in wq :
              /\ wq = {w} /\ wq' = {} /\ w.req \in Request
              /\ Effect(w.req)
              /\ \/ inbox' = inbox
                 \/ \E a \in Reply : inbox' = Append(inbox, a) /\ Says(w.req, a)
<1>1. PICK w \in wq, g \in Globals :
        /\ wq' = wq \ {w}
        /\ \/ read_INIT_struct(g) \/ read_INSERT_struct(g) \/ read_GET_struct(g)
           \/ read_DELETE_struct(g) \/ NotInitialised(g) \/ read_exactly_from_user_fails(g)
  BY DEF work_handler
<1>2. wq = {w} /\ wq' = {} /\ g.req = w.req /\ w.req \in Request
  BY <1>1 DEF Globals, TypeInv, TypeOK, KernelTypeOK
<1>3. ht \in [Keys -> Text \cup {NoObject}] /\ inbox \in Seq(Reply)
  BY DEF TypeInv, TypeOK, KernelTypeOK
<1> DEFINE P == \/ inbox' = inbox
                \/ \E a \in Reply : inbox' = Append(inbox, a) /\ Says(w.req, a)
<1> SUFFICES Effect(w.req) /\ P
  BY <1>1, <1>2
<1> HIDE DEF P
<1>4. ASSUME NEW a \in Reply, Says(w.req, a), nlmsg_unicast(g, a) PROVE P
  BY <1>4 DEF nlmsg_unicast, P
<1>5. CASE read_INIT_struct(g)
  <2>1. \A t \in {"alreadyInit", "initialized", "initErr"} :
            [tag |-> t] \in Reply /\ Says(w.req, [tag |-> t])
    BY <1>2, <1>5 DEF read_INIT_struct, Reply, OtherReplies, Says
  <2>2. ht' = ht
    BY <1>5 DEF read_INIT_struct, EmptyInv
  <2> QED BY <1>4, <1>5, <2>1, <2>2 DEF read_INIT_struct, Effect
<1>6. CASE read_INSERT_struct(g)
  <2>1. w.req.op = "INSERT" /\ w.req.key \in Keys
    BY <1>2, <1>6, RequestFields DEF read_INSERT_struct
  <2>2. \A t \in {"inserted", "duplicate", "kmallocErr", "insertErr"} : [tag |-> t] \in Reply
    BY DEF Reply, OtherReplies, ErrorReplies
  <2>3. CASE /\ ht[w.req.key] = NoObject
             /\ ht' = [ht EXCEPT ![w.req.key] = w.req.val]
             /\ nlmsg_unicast(g, [tag |-> "inserted"])
    <3>1. Says(w.req, [tag |-> "inserted"])
      BY <1>3, <2>1, <2>3 DEF Says
    <3> QED BY <1>4, <2>1, <2>2, <2>3, <3>1 DEF Effect
  <2>4. CASE ht[w.req.key] # NoObject /\ nlmsg_unicast(g, [tag |-> "duplicate"]) /\ ht' = ht
    <3>1. Says(w.req, [tag |-> "duplicate"])
      BY <2>1, <2>4 DEF Says
    <3> QED BY <1>4, <2>2, <2>4, <3>1 DEF Effect
  <2>5. CASE (\E t \in {"kmallocErr", "insertErr"} : nlmsg_unicast(g, [tag |-> t])) /\ ht' = ht
    <3>1. \A t \in {"kmallocErr", "insertErr"} : Says(w.req, [tag |-> t])
      BY <2>1, <2>5 DEF Says
    <3> QED BY <1>4, <2>2, <2>5, <3>1 DEF Effect
  <2>6. CASE inbox' = inbox /\ ht' = ht
    BY <2>6 DEF Effect, P
  <2> QED BY <1>2, <1>6, <2>3, <2>4, <2>5, <2>6 DEF read_INSERT_struct
<1>7. CASE read_GET_struct(g)
  <2>1. w.req.op = "GET" /\ w.req.key \in Keys /\ ht' = ht
    BY <1>2, <1>7, RequestFields DEF read_GET_struct
  <2>2. CASE ht[w.req.key] # NoObject
    <3>1. [tag |-> "value", val |-> ht[w.req.key]] \in Reply
      BY <1>3, <2>1, <2>2 DEF Reply
    <3>2. Says(w.req, [tag |-> "value", val |-> ht[w.req.key]])
      BY <2>1, <2>2 DEF Says
    <3>3. nlmsg_unicast(g, [tag |-> "value", val |-> ht[w.req.key]])
      BY <1>2, <1>7, <2>2 DEF read_GET_struct
    <3> QED BY <1>4, <2>1, <3>1, <3>2, <3>3 DEF Effect
  <2>3. CASE ht[w.req.key] = NoObject
    <3>1. [tag |-> "notFound"] \in Reply /\ Says(w.req, [tag |-> "notFound"])
      BY <2>1, <2>3 DEF Reply, ErrorReplies, Says
    <3>2. nlmsg_unicast(g, [tag |-> "notFound"])
      BY <1>2, <1>7, <2>3 DEF read_GET_struct
    <3> QED BY <1>4, <2>1, <3>1, <3>2 DEF Effect
  <2> QED BY <2>2, <2>3
<1>8. CASE read_DELETE_struct(g)
  <2>1. w.req.op = "DELETE" /\ w.req.key \in Keys
    BY <1>2, <1>8, RequestFields DEF read_DELETE_struct
  <2>2. CASE ht' = [ht EXCEPT ![w.req.key] = NoObject] /\ nlmsg_unicast(g, [tag |-> "deleted"])
    <3>1. [tag |-> "deleted"] \in Reply /\ Says(w.req, [tag |-> "deleted"])
      BY <1>3, <2>1, <2>2 DEF Reply, OtherReplies, Says
    <3> QED BY <1>4, <2>1, <2>2, <3>1 DEF Effect
  <2>3. CASE ht' = ht /\ nlmsg_unicast(g, [tag |-> "notFound"])
    <3>1. [tag |-> "notFound"] \in Reply /\ Says(w.req, [tag |-> "notFound"])
      BY <2>1, <2>3 DEF Reply, ErrorReplies, Says
    <3> QED BY <1>4, <2>1, <2>3, <3>1 DEF Effect
  <2> QED BY <1>2, <1>8, <2>2, <2>3 DEF read_DELETE_struct
<1>9. CASE NotInitialised(g)
  BY <1>9 DEF NotInitialised, Effect, P
<1>10. CASE read_exactly_from_user_fails(g)
  <2>1. [tag |-> "wrongOp"] \in Reply
    BY DEF Reply, ErrorReplies
  <2>2. ht' = ht
    BY <1>10 DEF read_exactly_from_user_fails
  <2>3. Says(w.req, [tag |-> "wrongOp"])
    BY <2>2 DEF Says
  <2> QED BY <1>4, <1>10, <2>1, <2>2, <2>3 DEF read_exactly_from_user_fails, Effect, P
<1> QED
  BY <1>1, <1>5, <1>6, <1>7, <1>8, <1>9, <1>10
-----------------------------------------------------------------------------
(* The table is initialised before it is used. *)

LEMMA NextEmptyInv ==
    TypeInv /\ EmptyInv /\ [Next]_vars => EmptyInv'
<1> SUFFICES ASSUME TypeInv, EmptyInv, [Next]_vars PROVE EmptyInv'
  OBVIOUS
<1>1. CASE Start
  BY <1>1 DEF Start, EmptyInv
<1>2. CASE InitDone
  BY <1>2 DEF InitDone, EmptyInv
<1>3. CASE LoadLine
  BY <1>3 DEF LoadLine, recieve_data, EmptyInv
<1>4. CASE LoadReply
  BY <1>4 DEF LoadReply, EmptyInv
<1>5. CASE LoadEnd
  BY <1>5 DEF LoadEnd, kvars, EmptyInv
<1>6. ASSUME NEW r \in ClientRequest, Fetch(r) PROVE EmptyInv'
  BY <1>6 DEF Fetch, recieve_data, EmptyInv
<1>7. CASE Receive
  BY <1>7 DEF Receive, EmptyInv
<1>8. CASE StoreNothing
  BY <1>8 DEF StoreNothing, kvars, EmptyInv
<1>9. CASE StoreInsert
  BY <1>9 DEF StoreInsert, kvars, EmptyInv
<1>10. CASE StoreDelete
  BY <1>10 DEF StoreDelete, kvars, EmptyInv
<1>11. CASE FilterLine
  BY <1>11 DEF FilterLine, kvars, EmptyInv
<1>12. CASE FilterEnd
  BY <1>12 DEF FilterEnd, kvars, EmptyInv
<1>13. CASE CopyLine
  BY <1>13 DEF CopyLine, kvars, EmptyInv
<1>14. CASE CopyEnd
  BY <1>14 DEF CopyEnd, kvars, EmptyInv
<1>15. CASE Broadcast
  BY <1>15 DEF Broadcast, kvars, EmptyInv
<1>16. CASE Stop
  BY <1>16 DEF Stop, EmptyInv
<1>17. CASE ReloadModule
  BY <1>17 DEF ReloadModule, exit_and_init, EmptyInv, EmptyTable
<1>18. CASE Reboot
  BY <1>18 DEF Reboot, reboot, EmptyInv, EmptyTable
<1>19. CASE Kernel
  <2>1. PICK g \in Globals :
          \/ read_INIT_struct(g) \/ read_INSERT_struct(g) \/ read_GET_struct(g)
          \/ read_DELETE_struct(g) \/ NotInitialised(g) \/ read_exactly_from_user_fails(g)
    BY <1>19 DEF Kernel, work_handler
  <2> QED
    BY <2>1 DEF EmptyInv, read_INIT_struct, read_INSERT_struct, read_GET_struct,
                read_DELETE_struct, NotInitialised, read_exactly_from_user_fails
<1>20. CASE UNCHANGED vars
  BY <1>20 DEF vars, kvars, svars, EmptyInv
<1> QED
  BY <1>1, <1>2, <1>3, <1>4, <1>5, <1>6, <1>7, <1>8, <1>9, <1>10, <1>11, <1>12, <1>13,
     <1>14, <1>15, <1>16, <1>17, <1>18, <1>19, <1>20 DEF Next, Server

LEMMA NextReadyInv ==
    TypeInv /\ ReplyInv /\ ReadyInv /\ [Next]_vars => ReadyInv'
<1> SUFFICES ASSUME TypeInv, ReplyInv, ReadyInv, [Next]_vars, ~Faults, "stray" \notin mishaps'
             PROVE  ReadyInv'
  BY DEF ReadyInv
<1>z. "stray" \notin mishaps
  BY MishapsGrow
<1>1. CASE Start
  BY <1>1, <1>z DEF Start, recieve_data, ReadyInv
<1>2. CASE InitDone
  BY <1>2, <1>z DEF InitDone, ReadyInv
<1>3. CASE LoadLine
  BY <1>3, <1>z DEF LoadLine, recieve_data, ReadyInv
<1>4. CASE LoadReply
  BY <1>4, <1>z DEF LoadReply, ReadyInv
<1>5. CASE LoadEnd
  BY <1>5, <1>z DEF LoadEnd, kvars, ReadyInv
<1>6. ASSUME NEW r \in ClientRequest, Fetch(r) PROVE ReadyInv'
  BY <1>6, <1>z DEF Fetch, recieve_data, ReadyInv
<1>7. CASE Receive
  BY <1>7, <1>z DEF Receive, ReadyInv
<1>8. CASE StoreNothing
  BY <1>8, <1>z DEF StoreNothing, kvars, ReadyInv
<1>9. CASE StoreInsert
  BY <1>9, <1>z DEF StoreInsert, kvars, ReadyInv
<1>10. CASE StoreDelete
  BY <1>10, <1>z DEF StoreDelete, kvars, ReadyInv
<1>11. CASE FilterLine
  BY <1>11, <1>z DEF FilterLine, kvars, ReadyInv
<1>12. CASE FilterEnd
  BY <1>12, <1>z DEF FilterEnd, kvars, ReadyInv
<1>13. CASE CopyLine
  BY <1>13, <1>z DEF CopyLine, kvars, ReadyInv
<1>14. CASE CopyEnd
  BY <1>14, <1>z DEF CopyEnd, kvars, ReadyInv
<1>15. CASE Broadcast
  BY <1>15, <1>z DEF Broadcast, kvars, ReadyInv
<1>16. CASE Stop
  BY <1>16, <1>z DEF Stop, ReadyInv
<1>17. CASE ReloadModule
  BY <1>17, <1>z DEF ReloadModule, exit_and_init, ReadyInv
<1>18. CASE Reboot
  BY <1>18, <1>z DEF Reboot, reboot, svars, ReadyInv
<1>19. CASE Kernel
  <2>1. PICK w \in wq, g \in Globals :
          /\ wq' = wq \ {w}
          /\ \/ read_INIT_struct(g) \/ read_INSERT_struct(g) \/ read_GET_struct(g)
             \/ read_DELETE_struct(g) \/ NotInitialised(g) \/ read_exactly_from_user_fails(g)
    BY <1>19 DEF Kernel, work_handler
  <2>2. wq' = {} /\ g.req = w.req
    BY <1>z, <2>1 DEF ReplyInv, PairInv, Globals
  <2>3. pc' = pc /\ mishaps' = mishaps
    BY <1>19 DEF Kernel, svars
  <2>4. ~oops'
    BY <1>z, <2>1, <2>2 DEF ReadyInv, read_INIT_struct, read_INSERT_struct, read_GET_struct,
                read_DELETE_struct, NotInitialised, read_exactly_from_user_fails, nlmsg_unicast
  <2>5. hashtable_initialized => hashtable_initialized'
    BY <2>1 DEF read_INIT_struct, read_INSERT_struct, read_GET_struct,
                read_DELETE_struct, NotInitialised, read_exactly_from_user_fails
  <2>6. pc = "init" => w.req.op = "INIT"
    BY <1>z DEF ReplyInv, PairInv, Awaited
  <2>7. w.req.op = "INIT" => hashtable_initialized'
    BY <1>z, <2>1, <2>2 DEF ReadyInv, read_INIT_struct, read_INSERT_struct, read_GET_struct,
                read_DELETE_struct, NotInitialised, read_exactly_from_user_fails
  <2> QED
    BY <1>z, <2>2, <2>3, <2>4, <2>5, <2>6, <2>7 DEF ReadyInv
<1>20. CASE UNCHANGED vars
  BY <1>20, <1>z DEF vars, kvars, svars, ReadyInv
<1> QED
  BY <1>1, <1>2, <1>3, <1>4, <1>5, <1>6, <1>7, <1>8, <1>9, <1>10, <1>11, <1>12, <1>13,
     <1>14, <1>15, <1>16, <1>17, <1>18, <1>19, <1>20 DEF Next, Server

-----------------------------------------------------------------------------
(* The loops of load_stored_values and of a deletion. *)

LEMMA NextLoadInv ==
    TypeInv /\ LoadInv /\ [Next]_vars => LoadInv'
<1> SUFFICES ASSUME TypeInv, LoadInv, [Next]_vars PROVE LoadInv'
  OBVIOUS
<1>0. file \in Seq(Line) /\ pos \in Nat
  BY DEF TypeInv, TypeOK
<1>1. CASE Start
  BY <1>1, <1>0 DEF Start, LoadInv
<1>2. CASE InitDone
  BY <1>2, <1>0 DEF InitDone, LoadInv
<1>3. CASE LoadLine
  BY <1>3, <1>0 DEF LoadLine, recieve_data, LoadInv
<1>4. CASE LoadReply
  BY <1>4, <1>0 DEF LoadReply, LoadInv
<1>5. CASE LoadEnd
  BY <1>5, <1>0 DEF LoadEnd, kvars, LoadInv
<1>6. ASSUME NEW r \in ClientRequest, Fetch(r) PROVE LoadInv'
  BY <1>6, <1>0 DEF Fetch, recieve_data, LoadInv
<1>7. CASE Receive
  BY <1>7, <1>0 DEF Receive, LoadInv
<1>8. CASE StoreNothing
  BY <1>8, <1>0 DEF StoreNothing, kvars, LoadInv
<1>9. CASE StoreInsert
  BY <1>9, <1>0 DEF StoreInsert, kvars, LoadInv
<1>10. CASE StoreDelete
  BY <1>10, <1>0 DEF StoreDelete, kvars, LoadInv
<1>11. CASE FilterLine
  BY <1>11, <1>0 DEF FilterLine, kvars, LoadInv
<1>12. CASE FilterEnd
  BY <1>12, <1>0 DEF FilterEnd, kvars, LoadInv
<1>13. CASE CopyLine
  BY <1>13, <1>0 DEF CopyLine, kvars, LoadInv
<1>14. CASE CopyEnd
  BY <1>14, <1>0 DEF CopyEnd, kvars, LoadInv
<1>15. CASE Broadcast
  BY <1>15, <1>0 DEF Broadcast, kvars, LoadInv
<1>16. CASE Stop
  BY <1>16, <1>0 DEF Stop, LoadInv
<1>17. CASE ReloadModule
  BY <1>17, <1>0 DEF ReloadModule, exit_and_init, LoadInv
<1>18. CASE Reboot
  BY <1>18, <1>0 DEF Reboot, reboot, svars, LoadInv
<1>19. CASE Kernel
  BY <1>19, <1>0 DEF Kernel, svars, LoadInv
<1>20. CASE UNCHANGED vars
  BY <1>20, <1>0 DEF vars, kvars, svars, LoadInv
<1> QED
  BY <1>1, <1>2, <1>3, <1>4, <1>5, <1>6, <1>7, <1>8, <1>9, <1>10, <1>11, <1>12, <1>13,
     <1>14, <1>15, <1>16, <1>17, <1>18, <1>19, <1>20 DEF Next, Server

LEMMA NextRewriteInv ==
    TypeInv /\ DurableInv /\ RewriteInv /\ [Next]_vars => RewriteInv'
<1> SUFFICES ASSUME TypeInv, DurableInv, RewriteInv, [Next]_vars PROVE RewriteInv'
  OBVIOUS
<1>0. file \in Seq(Line) /\ tmp \in Seq(Line) /\ pos \in Nat
  BY DEF TypeInv, TypeOK
<1>1. CASE Start
  BY <1>1, <1>0 DEF Start, RewriteInv
<1>2. CASE InitDone
  BY <1>2, <1>0 DEF InitDone, RewriteInv
<1>3. CASE LoadLine
  BY <1>3, <1>0 DEF LoadLine, recieve_data, RewriteInv
<1>4. CASE LoadReply
  BY <1>4, <1>0 DEF LoadReply, RewriteInv
<1>5. CASE LoadEnd
  BY <1>5, <1>0 DEF LoadEnd, kvars, RewriteInv
<1>6. ASSUME NEW r \in ClientRequest, Fetch(r) PROVE RewriteInv'
  BY <1>6, <1>0 DEF Fetch, recieve_data, RewriteInv
<1>7. CASE Receive
  BY <1>7, <1>0 DEF Receive, RewriteInv
<1>8. CASE StoreNothing
  BY <1>8 DEF StoreNothing, RewriteInv, ErrorReplies
<1>9. CASE StoreInsert
  BY <1>9, <1>0 DEF StoreInsert, kvars, RewriteInv
<1>10. CASE StoreDelete
  BY <1>10, KeysInEmpty DEF StoreDelete, RewriteInv
<1>11. CASE FilterLine
  <2>1. file[pos + 1] \in Line
    BY <1>0, <1>11 DEF FilterLine
  <2>2. HasColon(file[pos + 1]) /\ Survives(file[pos + 1], cur.key)
          => LineKey(file[pos + 1]) # cur.key
    BY DEF HasColon, Survives, Blank
  <2> QED BY <1>0, <1>11, <2>1, <2>2, KeysInAppend DEF FilterLine, RewriteInv
<1>12. CASE FilterEnd
  BY <1>12, KeysInEmpty DEF FilterEnd, RewriteInv
<1>13. CASE CopyLine
  <2>1. tmp[pos + 1] \in Line /\ (HasColon(tmp[pos + 1]) => LineKey(tmp[pos + 1]) \in KeysIn(tmp))
    BY <1>0, <1>13, KeysInMember DEF CopyLine
  <2> QED BY <1>0, <1>13, <2>1, KeysInAppend DEF CopyLine, RewriteInv
<1>14. CASE CopyEnd
  BY <1>14, <1>0 DEF CopyEnd, kvars, RewriteInv
<1>15. CASE Broadcast
  BY <1>15, <1>0 DEF Broadcast, kvars, RewriteInv
<1>16. CASE Stop
  BY <1>16, <1>0 DEF Stop, RewriteInv
<1>17. CASE ReloadModule
  BY <1>17, <1>0 DEF ReloadModule, exit_and_init, RewriteInv
<1>18. CASE Reboot
  BY <1>18, <1>0 DEF Reboot, reboot, svars, RewriteInv
<1>19. CASE Kernel
  BY <1>19, <1>0 DEF Kernel, svars, RewriteInv
<1>20. CASE UNCHANGED vars
  BY <1>20, <1>0 DEF vars, kvars, svars, RewriteInv
<1> QED
  BY <1>1, <1>2, <1>3, <1>4, <1>5, <1>6, <1>7, <1>8, <1>9, <1>10, <1>11, <1>12, <1>13,
     <1>14, <1>15, <1>16, <1>17, <1>18, <1>19, <1>20 DEF Next, Server

LEMMA NextAnswerInv ==
    TypeInv /\ ReplyInv /\ DurableInv /\ EmptyInv /\ LoadInv /\ AnswerInv /\ [Next]_vars => AnswerInv'
<1> SUFFICES ASSUME TypeInv, ReplyInv, DurableInv, EmptyInv, LoadInv, AnswerInv, [Next]_vars,
                    "stray" \notin mishaps'
             PROVE  AnswerInv'
  BY DEF AnswerInv
<1>z. "stray" \notin mishaps
  BY MishapsGrow
<1>0. inbox \in Seq(Reply)
  BY DEF TypeInv, TypeOK, KernelTypeOK
<1>a. pc \notin Waiting => inbox = <<>>
  BY <1>z DEF ReplyInv, PairInv
<1>1. CASE Start
  BY <1>1, <1>z, <1>a DEF Start, AnswerInv, HasAnswer, Answer, Waiting
<1>2. CASE InitDone
  BY <1>2, <1>z, <1>a DEF InitDone, AnswerInv, HasAnswer, Answer, Waiting
<1>3. CASE LoadLine
  BY <1>3, <1>z, <1>a DEF LoadLine, recieve_data, AnswerInv, HasAnswer, Answer, Waiting
<1>4. CASE LoadReply
  BY <1>4, <1>z, <1>a DEF LoadReply, AnswerInv, HasAnswer, Answer, Waiting
<1>5. CASE LoadEnd
  BY <1>5, <1>z, <1>a DEF LoadEnd, kvars, AnswerInv, HasAnswer, Answer, Waiting
<1>6. ASSUME NEW r \in ClientRequest, Fetch(r) PROVE AnswerInv'
  BY <1>6, <1>z, <1>a DEF Fetch, recieve_data, AnswerInv, HasAnswer, Answer, Waiting
<1>7. CASE Receive
  BY <1>7, <1>z, <1>a DEF Receive, AnswerInv, HasAnswer, Answer, Waiting
<1>8. CASE StoreNothing
  BY <1>8, <1>z, <1>a DEF StoreNothing, kvars, AnswerInv, HasAnswer, Answer, Waiting
<1>9. CASE StoreInsert
  BY <1>9, <1>z, <1>a DEF StoreInsert, kvars, AnswerInv, HasAnswer, Answer, Waiting
<1>10. CASE StoreDelete
  BY <1>10, <1>z, <1>a DEF StoreDelete, kvars, AnswerInv, HasAnswer, Answer, Waiting
<1>11. CASE FilterLine
  BY <1>11, <1>z, <1>a DEF FilterLine, kvars, AnswerInv, HasAnswer, Answer, Waiting
<1>12. CASE FilterEnd
  BY <1>12, <1>z, <1>a DEF FilterEnd, kvars, AnswerInv, HasAnswer, Answer, Waiting
<1>13. CASE CopyLine
  BY <1>13, <1>z, <1>a DEF CopyLine, kvars, AnswerInv, HasAnswer, Answer, Waiting
<1>14. CASE CopyEnd
  BY <1>14, <1>z, <1>a DEF CopyEnd, kvars, AnswerInv, HasAnswer, Answer, Waiting
<1>15. CASE Broadcast
  BY <1>15, <1>z, <1>a DEF Broadcast, kvars, AnswerInv, HasAnswer, Answer, Waiting
<1>16. CASE Stop
  BY <1>16, <1>z, <1>a DEF Stop, AnswerInv, HasAnswer, Answer, Waiting
<1>17. CASE ReloadModule
  BY <1>17, <1>z, <1>a DEF ReloadModule, exit_and_init, AnswerInv, HasAnswer, Answer, Waiting
<1>18. CASE Reboot
  BY <1>18, <1>z, <1>a DEF Reboot, reboot, svars, AnswerInv, HasAnswer, Answer, Waiting
<1>19. CASE Kernel
  <2>1. PICK w \in wq : /\ wq = {w} /\ wq' = {} /\ w.req \in Request
                        /\ Effect(w.req)
                        /\ \/ inbox' = inbox
                           \/ \E a \in Reply : inbox' = Append(inbox, a) /\ Says(w.req, a)
    BY <1>z, <1>19, OneItem DEF Kernel, ReplyInv, PairInv
  <2>2. UNCHANGED <<pc, cur, rep, mishaps>>
    BY <1>19 DEF Kernel, svars
  <2>3. pc # "down" => pc \in Waiting /\ inbox = <<>> /\ w.req = Awaited
    BY <1>z, <2>1 DEF ReplyInv, PairInv
  <2>4. CASE pc \in {"wait", "loadwait"}
    <3>1. inbox = <<>> /\ w.req = cur
      BY <2>3, <2>4 DEF Awaited
    <3>2. CASE inbox' = inbox
      BY <2>2, <2>4, <3>1, <3>2 DEF AnswerInv, HasAnswer
    <3>3. CASE inbox' # inbox
      <4>1. PICK a \in Reply : inbox' = Append(inbox, a) /\ Says(w.req, a)
        BY <2>1, <3>3
      <4>2. Head(inbox') = a
        BY <3>1, <4>1
      <4>3. cur.op = "INSERT" => cur.key \in Keys /\ cur.val \in Text
        BY RequestFields DEF TypeInv, TypeOK
      <4>4. pc = "loadwait" => cur.op = "INSERT"
        BY DEF LoadInv
      <4>5. cur.op = "INSERT" /\ a.tag \in {"inserted", "duplicate"} => ht'[cur.key] # NoObject
        BY <3>1, <4>1, <4>3, TextAssumption DEF Says
      <4>6. cur.op = "GET" => ht' = ht
        BY <2>1, <3>1 DEF Effect
      <4>7. /\ cur.op = "INSERT" /\ a.tag = "inserted" => ht'[cur.key] = cur.val
            /\ cur.op = "DELETE" /\ a.tag = "deleted" => ht'[cur.key] = NoObject
            /\ cur.op = "GET" /\ a.tag # "wrongOp" =>
                IF ht'[cur.key] = NoObject THEN a.tag = "notFound"
                ELSE a.tag = "value" /\ a.val = ht'[cur.key]
        BY <3>1, <4>1, <4>6 DEF Says
      <4> QED
        BY <2>2, <2>4, <4>2, <4>4, <4>5, <4>7 DEF AnswerInv, HasAnswer, Answer
    <3> QED BY <3>2, <3>3
  <2>5. CASE pc \in {"down", "init"}
    BY <2>2, <2>5 DEF AnswerInv, HasAnswer
  <2> QED BY <2>3, <2>4, <2>5 DEF Waiting
<1>20. CASE UNCHANGED vars
  BY <1>20, <1>z, <1>a DEF vars, kvars, svars, AnswerInv, HasAnswer, Answer, Waiting
<1> QED
  BY <1>1, <1>2, <1>3, <1>4, <1>5, <1>6, <1>7, <1>8, <1>9, <1>10, <1>11, <1>12, <1>13,
     <1>14, <1>15, <1>16, <1>17, <1>18, <1>19, <1>20 DEF Next, Server

-----------------------------------------------------------------------------
(* The table covers the file. *)

LEMMA NextCoverInv ==
    TypeInv /\ ReplyInv /\ DurableInv /\ EmptyInv /\ AnswerInv /\ LoadInv /\ RewriteInv /\ CoverInv /\ [Next]_vars => CoverInv'
<1> SUFFICES ASSUME TypeInv, ReplyInv, DurableInv, EmptyInv, AnswerInv, LoadInv, RewriteInv, CoverInv,
                    [Next]_vars, ColonFree, "stray" \notin mishaps', "loadfail" \notin mishaps'
             PROVE  CoverInv'
  BY DEF CoverInv
<1>z. "stray" \notin mishaps /\ "loadfail" \notin mishaps
  BY MishapsGrow
<1>0. /\ file \in Seq(Line) /\ tmp \in Seq(Line) /\ pos \in Nat /\ inbox \in Seq(Reply)
      /\ ht \in [Keys -> Text \cup {NoObject}] /\ NoObject \notin Text
  BY TextAssumption DEF TypeInv, TypeOK, KernelTypeOK
<1>a. pc \notin Waiting => inbox = <<>>
  BY <1>z DEF ReplyInv, PairInv
<1>b. pc \notin Waiting /\ pc # "down" => wq = {}
  BY <1>z DEF ReplyInv, PairInv
<1>1. CASE Start
  BY <1>1, <1>z, <1>0 DEF Start, CoverInv, Serving, Busy, Loading
<1>2. CASE InitDone
  BY <1>2, <1>z, <1>0 DEF InitDone, CoverInv, Serving, Busy, Loading
<1>3. CASE LoadLine
  <2>1. pc' \in {"load", "loadwait"} /\ pos' = pos + 1 /\ file' = file /\ ht' = ht
          /\ (~HasColon(file[pos + 1]) \/ pc' = "loadwait") /\ pc = "load"
    BY <1>3 DEF LoadLine
  <2> QED BY <1>z, <1>0, <2>1 DEF CoverInv, Serving, Busy
<1>4. CASE LoadReply
  <2>1. /\ pc = "loadwait" /\ pc' = "load" /\ pos' = pos /\ file' = file /\ ht' = ht
        /\ inbox # <<>> /\ Head(inbox).tag \in {"inserted", "duplicate"}
    BY <1>4 DEF LoadReply
  <2>2. ht[LineKey(file[pos])] # NoObject
    BY <1>z, <2>1 DEF AnswerInv, LoadInv
  <2> QED BY <1>z, <1>0, <2>1, <2>2 DEF CoverInv, Serving, Busy
<1>5. CASE LoadEnd
  <2>1. pc = "load" /\ pc' = "idle" /\ pos = Len(file) /\ file' = file /\ ht' = ht
    BY <1>5 DEF LoadEnd, kvars
  <2>2. ASSUME NEW k \in KeysIn(file) PROVE ht[k] # NoObject
    <3>1. PICK i \in DOMAIN file : HasColon(file[i]) /\ LineKey(file[i]) = k
      BY KeysInMember
    <3> QED BY <1>z, <1>0, <2>1, <3>1 DEF CoverInv
  <2> QED BY <2>1, <2>2 DEF CoverInv
<1>6. ASSUME NEW r \in ClientRequest, Fetch(r) PROVE CoverInv'
  <2>1. pc = "idle" /\ pc' = "wait" /\ file' = file /\ ht' = ht /\ inbox' = inbox
    BY <1>6 DEF Fetch
  <2>2. ~HasAnswer'
    BY <1>a, <2>1 DEF HasAnswer, Waiting
  <2>3. \A k \in KeysIn(file) : ht[k] # NoObject
    BY <1>z, <2>1 DEF CoverInv, Deleting, InProgress, Serving, Busy
  <2> QED BY <2>1, <2>2, <2>3 DEF CoverInv, Inserted
<1>7. CASE Receive
  <2>1. /\ pc = "wait" /\ pc' = "store" /\ file' = file /\ ht' = ht /\ inbox # <<>>
        /\ cur' = cur /\ wq' = wq /\ rep' = Head(inbox)
    BY <1>7 DEF Receive
  <2>2. HasAnswer /\ HasAnswer' /\ Answer' = Answer
    BY <2>1 DEF HasAnswer, Answer
  <2>3. \A k : Deleting(k) => Deleting(k)'
    BY <2>1, <2>2 DEF Deleting, InProgress, Busy
  <2> QED BY <1>z, <2>1, <2>2, <2>3 DEF CoverInv, Inserted, Serving, Busy
<1>8. CASE StoreNothing
  <2>1. /\ pc = "store" /\ pc' = "bcast" /\ file' = file /\ ht' = ht
        /\ cur' = cur /\ wq' = wq /\ rep' = rep
    BY <1>8 DEF StoreNothing, kvars
  <2>2. \A k : Deleting(k) => Deleting(k)'
    BY <2>1 DEF Deleting, InProgress, Busy, HasAnswer, Answer
  <2> QED BY <1>z, <2>1, <2>2 DEF CoverInv, Serving, Busy
<1>9. CASE StoreInsert
  <2>1. /\ pc = "store" /\ pc' = "bcast" /\ ht' = ht /\ file' = file \o FileLines(cur.key, cur.val)
        /\ cur.op = "INSERT" /\ rep.tag \notin ErrorReplies
    BY <1>9 DEF StoreInsert, kvars
  <2>2. cur.key \in Keys /\ cur.val \in Text
    BY <2>1, RequestFields DEF TypeInv, TypeOK
  <2>3. KeysIn(file') = KeysIn(file) \cup {cur.key}
    BY <1>0, <2>1, <2>2, KeysInStored, OneToken
  <2>4. rep.tag = "inserted"
    BY <1>z, <2>1 DEF ReplyInv, ReplyMatchesRequest, Answers, ErrorReplies
  <2>5. ht[cur.key] # NoObject
    BY <1>z, <1>0, <2>1, <2>2, <2>4 DEF AnswerInv, HasAnswer, Answer
  <2>6. \A k : ~Deleting(k)
    BY <2>1 DEF Deleting, InProgress
  <2> QED BY <1>z, <2>1, <2>3, <2>5, <2>6 DEF CoverInv, Serving, Busy
<1>10. CASE StoreDelete
  <2>1. /\ pc = "store" /\ pc' = "filter" /\ ht' = ht /\ file' = file /\ tmp' = <<>>
        /\ cur' = cur /\ wq' = wq /\ rep' = rep
    BY <1>10 DEF StoreDelete, kvars
  <2>2. \A k : Deleting(k) => Deleting(k)'
    BY <2>1 DEF Deleting, InProgress, Busy, HasAnswer, Answer
  <2> QED BY <1>z, <2>1, <2>2, KeysInEmpty DEF CoverInv, Serving, Busy
<1>11. CASE FilterLine
  <2> DEFINE l == file[pos + 1]
  <2>1. /\ pc = "filter" /\ pc' = pc /\ ht' = ht /\ file' = file /\ pos < Len(file)
        /\ tmp' = IF Survives(l, cur.key) THEN Append(tmp, l) ELSE tmp
        /\ cur' = cur /\ wq' = wq /\ rep' = rep
    BY <1>11 DEF FilterLine, kvars
  <2>2. \A k : Deleting(k) => Deleting(k)'
    BY <2>1 DEF Deleting, InProgress, Busy, HasAnswer, Answer
  <2>3. l \in Line /\ (HasColon(l) => LineKey(l) \in KeysIn(file))
    BY <1>0, <2>1, KeysInMember
  <2>4. HasColon(l) /\ Survives(l, cur.key) => ~Deleting(LineKey(l))
    BY DEF HasColon, Survives, Blank, Deleting, InProgress
  <2>5. \A k \in KeysIn(tmp') : ht[k] # NoObject
    BY <1>z, <1>0, <2>1, <2>3, <2>4, KeysInAppend DEF CoverInv, Serving, Busy
  <2> QED BY <1>z, <2>1, <2>2, <2>5 DEF CoverInv, Serving, Busy
<1>12. CASE FilterEnd
  BY <1>z, <1>12, KeysInEmpty DEF FilterEnd, kvars, CoverInv, Serving, Busy
<1>13. CASE CopyLine
  <2>1. /\ pc = "copy" /\ pc' = pc /\ ht' = ht /\ tmp' = tmp /\ pos < Len(tmp)
        /\ file' = Append(file, tmp[pos + 1])
        /\ cur' = cur /\ wq' = wq /\ rep' = rep
    BY <1>13 DEF CopyLine, kvars
  <2>2. \A k : Deleting(k) => Deleting(k)'
    BY <2>1 DEF Deleting, InProgress, Busy, HasAnswer, Answer
  <2>3. tmp[pos + 1] \in Line /\ (HasColon(tmp[pos + 1]) => LineKey(tmp[pos + 1]) \in KeysIn(tmp))
    BY <1>0, <2>1, KeysInMember
  <2> QED BY <1>z, <1>0, <2>1, <2>2, <2>3, KeysInAppend DEF CoverInv, Serving, Busy
<1>14. CASE CopyEnd
  <2>1. /\ pc = "copy" /\ pc' = "bcast" /\ ht' = ht /\ file' = file
        /\ cur' = cur /\ wq' = wq /\ rep' = rep
    BY <1>14 DEF CopyEnd, kvars
  <2>2. \A k : Deleting(k) => Deleting(k)'
    BY <2>1 DEF Deleting, InProgress, Busy, HasAnswer, Answer
  <2> QED BY <1>z, <2>1, <2>2 DEF CoverInv, Serving, Busy
<1>15. CASE Broadcast
  <2>1. pc = "bcast" /\ pc' = "idle" /\ ht' = ht /\ file' = file
    BY <1>15 DEF Broadcast, kvars
  <2>2. ASSUME NEW k \in KeysIn(file) PROVE ~Deleting(k)
    BY <2>1, <2>2 DEF Deleting, InProgress, HasAnswer, Answer, RewriteInv
  <2> QED BY <1>z, <2>1, <2>2 DEF CoverInv, Serving, Busy
<1>16. CASE Stop
  BY <1>16, <1>z, <1>0 DEF Stop, CoverInv, Serving, Busy, Loading
<1>17. CASE ReloadModule
  BY <1>17, <1>z, <1>0 DEF ReloadModule, exit_and_init, CoverInv, Serving, Busy, Loading
<1>18. CASE Reboot
  BY <1>18, <1>z, <1>0 DEF Reboot, reboot, svars, CoverInv, Serving, Busy, Loading
<1>19. CASE Kernel
  <2>1. PICK w \in wq : /\ wq = {w} /\ wq' = {} /\ w.req \in Request
                        /\ Effect(w.req)
                        /\ \/ inbox' = inbox
                           \/ \E a \in Reply : inbox' = Append(inbox, a) /\ Says(w.req, a)
    BY <1>z, <1>19, OneItem DEF Kernel, ReplyInv, PairInv
  <2>2. UNCHANGED svars
    BY <1>19 DEF Kernel
  <2>3. pc # "down" => pc \in Waiting /\ inbox = <<>> /\ w.req = Awaited
    BY <1>z, <2>1 DEF ReplyInv, PairInv
  <2>4. CASE pc = "wait"
    <3>1. inbox = <<>> /\ w.req = cur
      BY <2>3, <2>4 DEF Awaited
    <3>2. cur \in Request
      BY DEF TypeInv, TypeOK
    <3>3. \A k \in KeysIn(file) : ht[k] # NoObject
      BY <1>z, <2>1, <2>4 DEF CoverInv, Deleting, Serving, Busy
    <3>4. ASSUME NEW k \in KeysIn(file), ht'[k] = NoObject PROVE Deleting(k)'
      <4>1. k \in Keys
        BY KeysInKeys
      <4>2. cur.op = "DELETE" /\ cur.key = k
        BY <1>0, <2>1, <3>1, <3>2, <3>3, <3>4, <4>1, RequestFields DEF Effect
      <4>3. \A a \in Reply : inbox' = Append(inbox, a) => Answer' = a
        BY <2>2, <2>4, <3>1 DEF Answer, svars
      <4>4. HasAnswer' => Answer'.tag = "deleted"
        BY <2>1, <2>2, <2>4, <3>1, <3>3, <3>4, <4>2, <4>3 DEF HasAnswer, Says, svars
      <4> QED BY <2>1, <2>2, <2>4, <4>2, <4>4 DEF Deleting, InProgress, Busy, svars
    <3>5. ASSUME NEW k \in Keys, Inserted(k)' PROVE k \notin KeysIn(file)
      <4>1. HasAnswer' /\ Answer'.tag = "inserted" /\ cur.op = "INSERT" /\ cur.key = k
        BY <2>2, <3>5 DEF Inserted, svars
      <4>2. PICK a \in Reply : inbox' = Append(inbox, a) /\ Says(w.req, a)
        BY <2>1, <2>2, <2>4, <3>1, <4>1 DEF HasAnswer, svars
      <4>3. Answer' = a
        BY <2>2, <2>4, <3>1, <4>2 DEF Answer, svars
      <4> QED BY <3>1, <3>3, <4>1, <4>2, <4>3 DEF Says
    <3> QED BY <2>2, <2>4, <3>4, <3>5 DEF CoverInv, svars
  <2>5. CASE pc = "loadwait"
    <3>1. w.req = cur /\ cur.op = "INSERT" /\ cur.key \in Keys /\ cur.val \in Text
      BY <2>1, <2>3, <2>5, RequestFields DEF LoadInv, Awaited
    <3>2. \A k \in Keys : ht[k] # NoObject => ht'[k] # NoObject
      BY <1>0, <2>1, <3>1 DEF Effect
    <3>3. \A i \in 1..pos : HasColon(file[i]) => LineKey(file[i]) \in Keys
      <4>1. \A i \in 1..pos : i \in DOMAIN file
        BY <1>0, <2>5 DEF LoadInv
      <4> QED BY <4>1, KeysInKeys, KeysInMember
    <3> QED BY <1>z, <2>2, <2>5, <3>2, <3>3 DEF CoverInv, Serving, Busy, svars
  <2>6. CASE pc \in {"down", "init"}
    BY <2>2, <2>6 DEF CoverInv, Serving, Busy, svars
  <2> QED BY <2>3, <2>4, <2>5, <2>6 DEF Waiting
<1>20. CASE UNCHANGED vars
  BY <1>z, <1>20 DEF vars, kvars, svars, CoverInv, Deleting, Inserted, InProgress, HasAnswer, Answer
<1> QED
  BY <1>1, <1>2, <1>3, <1>4, <1>5, <1>6, <1>7, <1>8, <1>9, <1>10, <1>11, <1>12, <1>13,
     <1>14, <1>15, <1>16, <1>17, <1>18, <1>19, <1>20 DEF Next, Server

-----------------------------------------------------------------------------
(* One line per key. *)

LEMMA UniqueAppend ==
    ASSUME NEW f \in Seq(Line), NEW l \in Line, UniqueKeys(f),
           HasColon(l) => LineKey(l) \notin KeysIn(f)
    PROVE  UniqueKeys(Append(f, l))
<1> SUFFICES ASSUME NEW i \in DOMAIN Append(f, l), NEW j \in DOMAIN Append(f, l),
                    HasColon(Append(f, l)[i]), HasColon(Append(f, l)[j]),
                    LineKey(Append(f, l)[i]) = LineKey(Append(f, l)[j]), i < j
             PROVE  FALSE
  BY DEF UniqueKeys
<1>1. i \in DOMAIN f /\ Append(f, l)[i] = f[i]
  OBVIOUS
<1>2. CASE j = Len(f) + 1
  BY <1>1, <1>2, KeysInMember
<1>3. CASE j # Len(f) + 1
  <2>1. j \in DOMAIN f /\ Append(f, l)[j] = f[j]
    BY <1>3
  <2> QED BY <1>1, <2>1 DEF UniqueKeys
<1> QED BY <1>2, <1>3

LEMMA UniqueStored ==
    ASSUME NEW f \in Seq(Line), NEW k \in Keys, NEW v \in Text, UniqueKeys(f),
           <<k[1]>> \notin KeysIn(f)
    PROVE  UniqueKeys(f \o FileLines(k, v))
<1> DEFINE l == FileLine(k, v)
           g == Append(f, l)
<1>1. l \in Line /\ LineKey(l) = <<k[1]>> /\ Blank \in Line /\ ~HasColon(Blank)
  BY FileLineType DEF Line, Blank, HasColon
<1>2. g \in Seq(Line) /\ UniqueKeys(g)
  BY <1>1, UniqueAppend, LinesOfAppend
<1>3. UniqueKeys(Append(g, Blank))
  BY <1>1, <1>2, UniqueAppend
<1>4. f \o <<l>> = g
  BY <1>1
<1>5. f \o <<l, Blank>> = Append(g, Blank)
  BY <1>1
<1> QED BY <1>2, <1>3, <1>4, <1>5 DEF FileLines

LEMMA NextUniqueInv ==
    TypeInv /\ ReplyInv /\ DurableInv /\ CoverInv /\ UniqueInv /\ [Next]_vars => UniqueInv'
<1> SUFFICES ASSUME TypeInv, ReplyInv, DurableInv, CoverInv, UniqueInv,
                    [Next]_vars, ColonFree, "stray" \notin mishaps', "loadfail" \notin mishaps'
             PROVE  UniqueInv'
  BY DEF UniqueInv
<1>z. "stray" \notin mishaps /\ "loadfail" \notin mishaps
  BY MishapsGrow
<1>0. /\ file \in Seq(Line) /\ tmp \in Seq(Line) /\ pos \in Nat /\ inbox \in Seq(Reply)
      /\ ht \in [Keys -> Text \cup {NoObject}] /\ NoObject \notin Text
  BY TextAssumption DEF TypeInv, TypeOK, KernelTypeOK
<1>1. CASE Start
  BY <1>1, <1>z, <1>0 DEF Start, UniqueInv
<1>2. CASE InitDone
  BY <1>2, <1>z, <1>0 DEF InitDone, UniqueInv
<1>3. CASE LoadLine
  BY <1>3, <1>z, <1>0 DEF LoadLine, recieve_data, UniqueInv
<1>4. CASE LoadReply
  BY <1>4, <1>z, <1>0 DEF LoadReply, UniqueInv
<1>5. CASE LoadEnd
  BY <1>5, <1>z, <1>0 DEF LoadEnd, kvars, UniqueInv
<1>6. ASSUME NEW r \in ClientRequest, Fetch(r) PROVE UniqueInv'
  BY <1>6, <1>z, <1>0 DEF Fetch, recieve_data, UniqueInv
<1>7. CASE Receive
  BY <1>7, <1>z, <1>0 DEF Receive, UniqueInv
<1>8. CASE StoreNothing
  BY <1>8, <1>z, <1>0 DEF StoreNothing, kvars, UniqueInv
<1>9. CASE StoreInsert
  <2>1. /\ pc = "store" /\ pc' = "bcast" /\ file' = file \o FileLines(cur.key, cur.val)
        /\ cur.op = "INSERT" /\ rep.tag \notin ErrorReplies
    BY <1>9 DEF StoreInsert, kvars
  <2>2. cur.key \in Keys /\ cur.val \in Text
    BY <2>1, RequestFields DEF TypeInv, TypeOK
  <2>3. rep.tag = "inserted"
    BY <1>z, <2>1 DEF ReplyInv, ReplyMatchesRequest, Answers, ErrorReplies
  <2>4. cur.key \notin KeysIn(file)
    BY <1>z, <2>1, <2>2, <2>3 DEF CoverInv, Inserted, HasAnswer, Answer
  <2>5. UniqueKeys(file')
    BY <1>z, <1>0, <2>1, <2>2, <2>4, UniqueStored, OneToken DEF UniqueInv
  <2> QED BY <2>1, <2>5 DEF UniqueInv
<1>10. CASE StoreDelete
  <2>1. /\ pc = "store" /\ pc' = "filter" /\ file' = file /\ tmp' = <<>>
    BY <1>10 DEF StoreDelete, kvars
  <2>2. UniqueKeys(<<>>)
    BY DEF UniqueKeys
  <2> QED BY <1>z, <2>1, <2>2 DEF UniqueInv
<1>11. CASE FilterLine
  <2> DEFINE l == file[pos + 1]
  <2>1. /\ pc = "filter" /\ pc' = pc /\ file' = file /\ pos < Len(file) /\ pos' = pos + 1
        /\ tmp' = IF Survives(l, cur.key) THEN Append(tmp, l) ELSE tmp
    BY <1>11 DEF FilterLine, kvars
  <2>2. l \in Line
    BY <1>0, <2>1
  <2>3. ASSUME HasColon(l) PROVE LineKey(l) \notin KeysIn(tmp)
    <3> SUFFICES ASSUME LineKey(l) \in KeysIn(tmp) PROVE FALSE
      OBVIOUS
    <3>1. PICK i \in DOMAIN tmp : HasColon(tmp[i]) /\ LineKey(tmp[i]) = LineKey(l)
      BY KeysInMember
    <3>2. PICK j \in 1..pos : file[j] = tmp[i]
      BY <1>z, <2>1 DEF UniqueInv
    <3>3. j \in DOMAIN file /\ pos + 1 \in DOMAIN file
      BY <1>0, <2>1
    <3> QED BY <1>z, <1>0, <2>3, <3>1, <3>2, <3>3 DEF UniqueInv, UniqueKeys
  <2>4. UniqueKeys(tmp')
    BY <1>z, <1>0, <2>1, <2>2, <2>3, UniqueAppend DEF UniqueInv
  <2>5. ASSUME NEW i \in DOMAIN tmp' PROVE \E j \in 1..(pos + 1) : file[j] = tmp'[i]
    <3>1. CASE i \in DOMAIN tmp /\ tmp'[i] = tmp[i]
      BY <1>z, <1>0, <2>1, <3>1 DEF UniqueInv
    <3>2. CASE tmp'[i] = file[pos + 1]
      BY <1>0, <3>2
    <3> QED BY <1>0, <2>1, <2>2, <3>1, <3>2
  <2> QED BY <1>z, <2>1, <2>4, <2>5 DEF UniqueInv
<1>12. CASE FilterEnd
  <2>1. pc = "filter" /\ pc' = "copy" /\ file' = <<>> /\ pos' = 0 /\ tmp' = tmp
    BY <1>12 DEF FilterEnd
  <2>2. UniqueKeys(<<>>)
    BY DEF UniqueKeys
  <2> QED BY <1>z, <2>1, <2>2 DEF UniqueInv
<1>13. CASE CopyLine
  <2>1. /\ pc = "copy" /\ pc' = pc /\ tmp' = tmp /\ pos < Len(tmp) /\ pos' = pos + 1
        /\ file' = Append(file, tmp[pos + 1])
    BY <1>13 DEF CopyLine, kvars
  <2>2. tmp[pos + 1] \in Line /\ Len(file) = pos /\ \A i \in 1..pos : file[i] = tmp[i]
    BY <1>z, <1>0, <2>1 DEF UniqueInv
  <2>3. Len(file') = pos + 1 /\ DOMAIN file' = 1..(pos + 1) /\ \A i \in 1..(pos + 1) : file'[i] = tmp[i]
    BY <1>0, <2>1, <2>2
  <2>4. UniqueKeys(tmp) /\ \A i \in 1..(pos + 1) : i \in DOMAIN tmp
    BY <1>z, <1>0, <2>1 DEF UniqueInv
  <2>5. UniqueKeys(file')
    BY <2>3, <2>4 DEF UniqueKeys
  <2> QED BY <2>1, <2>3, <2>4, <2>5 DEF UniqueInv
<1>14. CASE CopyEnd
  BY <1>14, <1>z, <1>0 DEF CopyEnd, kvars, UniqueInv
<1>15. CASE Broadcast
  BY <1>15, <1>z, <1>0 DEF Broadcast, kvars, UniqueInv
<1>16. CASE Stop
  BY <1>16, <1>z, <1>0 DEF Stop, UniqueInv
<1>17. CASE ReloadModule
  BY <1>17, <1>z, <1>0 DEF ReloadModule, exit_and_init, UniqueInv
<1>18. CASE Reboot
  BY <1>18, <1>z, <1>0 DEF Reboot, reboot, svars, UniqueInv
<1>19. CASE Kernel
  BY <1>19, <1>z, <1>0 DEF Kernel, svars, UniqueInv
<1>20. CASE UNCHANGED vars
  BY <1>20, <1>z, <1>0 DEF vars, kvars, svars, UniqueInv
<1> QED
  BY <1>1, <1>2, <1>3, <1>4, <1>5, <1>6, <1>7, <1>8, <1>9, <1>10, <1>11, <1>12, <1>13,
     <1>14, <1>15, <1>16, <1>17, <1>18, <1>19, <1>20 DEF Next, Server

-----------------------------------------------------------------------------
(* Deleted keys stay deleted. *)

LEMMA NextGoneInv ==
    TypeInv /\ ReplyInv /\ DurableInv /\ EmptyInv /\ AnswerInv /\ LoadInv /\ RewriteInv /\ GoneInv /\ [Next]_vars => GoneInv'
<1> SUFFICES ASSUME TypeInv, ReplyInv, DurableInv, EmptyInv, AnswerInv, LoadInv, RewriteInv, GoneInv,
                    [Next]_vars, ColonFree, "stray" \notin mishaps'
             PROVE  GoneInv'
  BY DEF GoneInv
<1>z. "stray" \notin mishaps
  BY MishapsGrow
<1>0. /\ file \in Seq(Line) /\ tmp \in Seq(Line) /\ pos \in Nat /\ inbox \in Seq(Reply)
      /\ ht \in [Keys -> Text \cup {NoObject}] /\ NoObject \notin Text
  BY TextAssumption DEF TypeInv, TypeOK, KernelTypeOK
<1>a. acked \in [Keys -> Values \cup {NoObject, Unknown}] /\ NoObject \notin Values /\ Unknown # NoObject
  BY TextAssumption, ServerAssumption DEF TypeInv, TypeOK
<1>b. pc \notin Waiting => inbox = <<>>
  BY <1>z DEF ReplyInv, PairInv
<1>c. pc \notin Waiting /\ pc # "down" => wq = {}
  BY <1>z DEF ReplyInv, PairInv
<1>1. CASE Start
  <2>1. wq = {}
    BY <1>1 DEF Start
  <2> QED BY <1>z, <1>1, <2>1 DEF Start, recieve_data, GoneInv, Absent, Inserted, InProgress, HasAnswer, Busy
<1>2. CASE InitDone
  BY <1>2, <1>z, <1>b, <1>c DEF InitDone, GoneInv, Absent, Inserted, InProgress, HasAnswer,
      Answer, Busy, Waiting
<1>3. CASE LoadLine
  <2> DEFINE l == file[pos + 1]
  <2>1. /\ pc = "load" /\ pc' \in {"load", "loadwait"} /\ pos < Len(file)
        /\ UNCHANGED <<ht, file, tmp, acked>>
        /\ \/ wq' = wq
           \/ HasColon(l) /\ \E p : wq' = wq \cup {[pid |-> p, req |-> [op |-> "INSERT", key |-> LineKey(l), val |-> LineValue(l)]]}
    BY <1>3 DEF LoadLine, recieve_data
  <2>2. HasColon(l) => LineKey(l) \in KeysIn(file) /\ LineKey(l) \in Keys
    BY <1>0, <2>1, KeysInMember, KeysInKeys
  <2>3. \A k : ~InProgress("INSERT", k) /\ ~InProgress("INSERT", k)' /\ ~Inserted(k) /\ ~Inserted(k)'
    BY <2>1 DEF InProgress, Inserted, HasAnswer, Busy
  <2>4. HasColon(l) => acked[LineKey(l)] # NoObject
    BY <1>z, <2>2, <2>3 DEF GoneInv, Absent
  <2> QED BY <1>z, <2>1, <2>3, <2>4 DEF GoneInv, Absent
<1>4. CASE LoadReply
  BY <1>4, <1>z, <1>b, <1>c DEF LoadReply, GoneInv, Absent, Inserted, InProgress, HasAnswer,
      Answer, Busy, Waiting
<1>5. CASE LoadEnd
  BY <1>5, <1>z, <1>b, <1>c DEF LoadEnd, kvars, GoneInv, Absent, Inserted, InProgress, HasAnswer,
      Answer, Busy, Waiting
<1>6. ASSUME NEW r \in ClientRequest, Fetch(r) PROVE GoneInv'
  BY <1>6, <1>z, <1>b, <1>c DEF Fetch, recieve_data, GoneInv, Absent, Inserted, InProgress,
      HasAnswer, Answer, Busy, Waiting
<1>7. CASE Receive
  BY <1>7, <1>z, <1>b, <1>c DEF Receive, GoneInv, Absent, Inserted, InProgress, HasAnswer,
      Answer, Busy, Waiting
<1>8. CASE StoreNothing
  BY <1>8, <1>z, <1>b, <1>c DEF StoreNothing, kvars, GoneInv, Absent, Inserted, InProgress,
      HasAnswer, Answer, Busy, Waiting
<1>9. CASE StoreInsert
  <2>1. /\ pc = "store" /\ pc' = "bcast" /\ file' = file \o FileLines(cur.key, cur.val)
        /\ cur.op = "INSERT" /\ rep.tag \notin ErrorReplies
        /\ UNCHANGED <<ht, wq, cur, rep, acked>>
    BY <1>9 DEF StoreInsert, kvars
  <2>2. cur.key \in Keys /\ cur.val \in Text
    BY <2>1, RequestFields DEF TypeInv, TypeOK
  <2>3. rep.tag = "inserted"
    BY <1>z, <2>1 DEF ReplyInv, ReplyMatchesRequest, Answers, ErrorReplies
  <2>4. KeysIn(file') = KeysIn(file) \cup {cur.key}
    BY <1>0, <2>1, <2>2, KeysInStored, OneToken
  <2>5. wq = {}
    BY <1>c, <2>1 DEF Waiting
  <2> QED BY <1>z, <2>1, <2>3, <2>4, <2>5 DEF GoneInv, Absent, Inserted, InProgress, HasAnswer,
      Answer, Busy
<1>10. CASE StoreDelete
  BY <1>z, <1>c, <1>10, KeysInEmpty DEF StoreDelete, kvars, GoneInv, Absent, Inserted,
      InProgress, HasAnswer, Answer, Busy, Waiting
<1>11. CASE FilterLine
  <2> DEFINE l == file[pos + 1]
  <2>1. /\ pc = "filter" /\ pc' = pc /\ pos < Len(file)
        /\ tmp' = IF Survives(l, cur.key) THEN Append(tmp, l) ELSE tmp
        /\ UNCHANGED <<ht, wq, file, cur, rep, acked>>
    BY <1>11 DEF FilterLine, kvars
  <2>2. l \in Line /\ (HasColon(l) => LineKey(l) \in KeysIn(file))
    BY <1>0, <2>1, KeysInMember
  <2>3. KeysIn(tmp') \subseteq KeysIn(tmp) \cup KeysIn(file)
    BY <1>0, <2>1, <2>2, KeysInAppend
  <2> QED BY <1>z, <2>1, <2>3 DEF GoneInv, Absent, Inserted, InProgress, HasAnswer, Answer, Busy
<1>12. CASE FilterEnd
  BY <1>z, <1>12, KeysInEmpty DEF FilterEnd, kvars, GoneInv, Absent, Inserted, InProgress,
      HasAnswer, Answer, Busy
<1>13. CASE CopyLine
  <2>1. /\ pc = "copy" /\ pc' = pc /\ pos < Len(tmp) /\ file' = Append(file, tmp[pos + 1])
        /\ UNCHANGED <<ht, wq, tmp, cur, rep, acked>>
    BY <1>13 DEF CopyLine, kvars
  <2>2. tmp[pos + 1] \in Line /\ (HasColon(tmp[pos + 1]) => LineKey(tmp[pos + 1]) \in KeysIn(tmp))
    BY <1>0, <2>1, KeysInMember
  <2>3. KeysIn(file') \subseteq KeysIn(tmp) \cup KeysIn(file)
    BY <1>0, <2>1, <2>2, KeysInAppend
  <2> QED BY <1>z, <2>1, <2>3 DEF GoneInv, Absent, Inserted, InProgress, HasAnswer, Answer, Busy
<1>14. CASE CopyEnd
  BY <1>14, <1>z, <1>b, <1>c DEF CopyEnd, kvars, GoneInv, Absent, Inserted, InProgress,
      HasAnswer, Answer, Busy, Waiting
<1>15. CASE Broadcast
  <2>1. /\ pc = "bcast" /\ pc' = "idle" /\ UNCHANGED <<ht, wq, file>>
        /\ acked' = CASE cur.op = "INSERT" /\ rep.tag = "inserted"
                            -> [acked EXCEPT ![cur.key] = cur.val]
                      [] cur.op = "DELETE" /\ rep.tag = "deleted"
                            -> [acked EXCEPT ![cur.key] = NoObject]
                      [] OTHER -> acked
    BY <1>15 DEF Broadcast, kvars
  <2>2. wq = {}
    BY <1>c, <2>1 DEF Waiting
  <2>3. cur \in ClientRequest
    BY <2>1 DEF TypeInv, ClientInv, Busy
  <2>4. cur.op = "INSERT" => cur.key \in Keys /\ cur.val \in Values
    BY <2>3, ClientRequestFields, RequestFields
  <2>5. ASSUME NEW k \in Keys, acked'[k] = NoObject PROVE ht[k] = NoObject /\ k \notin KeysIn(file)
    <3>1. CASE cur.op = "DELETE" /\ rep.tag = "deleted" /\ cur.key = k
      BY <1>z, <2>1, <3>1 DEF AnswerInv, RewriteInv, HasAnswer, Answer
    <3>2. CASE ~(cur.op = "DELETE" /\ rep.tag = "deleted" /\ cur.key = k)
      <4>1. acked[k] = NoObject /\ ~(cur.op = "INSERT" /\ rep.tag = "inserted" /\ cur.key = k)
        BY <1>a, <2>1, <2>4, <2>5, <3>2
      <4>2. HasAnswer /\ ~Inserted(k)
        BY <2>1, <4>1 DEF HasAnswer, Inserted, Answer
      <4> QED BY <1>z, <2>1, <4>1, <4>2 DEF GoneInv, Absent
    <3> QED BY <3>1, <3>2
  <2> QED BY <2>1, <2>2, <2>5 DEF GoneInv, Absent
<1>16. CASE Stop
  <2>1. /\ pc' = "down" /\ UNCHANGED <<ht, wq, file>>
        /\ acked' = IF pc \in Busy /\ cur.op \in {"INSERT", "DELETE"}
                      THEN [acked EXCEPT ![cur.key] = Unknown] ELSE acked
    BY <1>16 DEF Stop
  <2>2. ASSUME NEW k \in Keys, acked'[k] = NoObject
        PROVE  acked[k] = NoObject /\ ~InProgress("INSERT", k)
    BY <1>a, <2>1, <2>2 DEF InProgress
  <2>3. \A k : Inserted(k) => InProgress("INSERT", k)
    BY DEF Inserted, InProgress, HasAnswer, Busy
  <2>4. ASSUME NEW w \in wq, w.req.op = "INSERT" PROVE acked'[w.req.key] # NoObject
    <3>1. w.req.key \in Keys
      BY <2>4, RequestFields DEF TypeInv, TypeOK, KernelTypeOK
    <3>2. acked[w.req.key] # NoObject \/ InProgress("INSERT", w.req.key)
      BY <1>z, <2>4 DEF GoneInv
    <3> QED BY <2>2, <3>1, <3>2
  <2>5. ASSUME NEW k \in Keys, acked'[k] = NoObject PROVE Absent(k)'
    BY <1>z, <2>1, <2>2, <2>3, <2>5 DEF GoneInv, Absent
  <2> QED BY <2>1, <2>4, <2>5 DEF GoneInv
<1>17. CASE ReloadModule
  BY <1>z, <1>17 DEF ReloadModule, exit_and_init, EmptyTable, GoneInv, Absent, Inserted,
      InProgress, HasAnswer, Answer, Busy
<1>18. CASE Reboot
  BY <1>z, <1>18 DEF Reboot, reboot, svars, EmptyTable, GoneInv, Absent, Inserted, InProgress,
      HasAnswer, Answer, Busy
<1>19. CASE Kernel
  <2>1. PICK w \in wq : /\ wq = {w} /\ wq' = {} /\ w.req \in Request
                        /\ Effect(w.req)
                        /\ \/ inbox' = inbox
                           \/ \E a \in Reply : inbox' = Append(inbox, a) /\ Says(w.req, a)
    BY <1>z, <1>19, OneItem DEF Kernel, ReplyInv, PairInv
  <2>2. UNCHANGED svars
    BY <1>19 DEF Kernel
  <2>3. pc # "down" => pc \in Waiting /\ inbox = <<>> /\ w.req = Awaited
    BY <1>z, <2>1 DEF ReplyInv, PairInv
  <2>4. CASE pc = "wait"
    <3>1. inbox = <<>> /\ w.req = cur
      BY <2>3, <2>4 DEF Awaited
    <3>2. ASSUME NEW k \in Keys, acked[k] = NoObject PROVE Absent(k)'
      <4>1. ht[k] = NoObject /\ k \notin KeysIn(file)
        BY <1>z, <2>1, <2>4, <3>2 DEF GoneInv, Absent
      <4>2. ASSUME InProgress("INSERT", k) => HasAnswer' /\ ~Inserted(k)' PROVE ht'[k] = NoObject
        <5>1. CASE ~InProgress("INSERT", k)
          <6>1. ~(cur.op = "INSERT" /\ cur.key = k)
            BY <2>4, <5>1 DEF InProgress, Busy
          <6>2. cur.op \in {"INSERT", "DELETE"} => cur.key \in Keys
            BY <2>1, <3>1, RequestFields
          <6> QED BY <1>0, <2>1, <3>1, <4>1, <6>1, <6>2 DEF Effect
        <5>2. CASE InProgress("INSERT", k)
          <6>1. PICK a \in Reply : inbox' = Append(inbox, a) /\ Says(w.req, a)
            BY <2>1, <2>2, <2>4, <3>1, <4>2, <5>2 DEF HasAnswer, svars
          <6>2. Answer' = a
            BY <2>2, <2>4, <3>1, <6>1 DEF Answer, svars
          <6>3. cur.op = "INSERT" /\ a.tag # "inserted"
            BY <2>2, <4>2, <5>2, <6>2 DEF Inserted, InProgress, svars
          <6> QED BY <3>1, <4>1, <6>1, <6>3 DEF Says
        <5> QED BY <5>1, <5>2
      <4>3. InProgress("INSERT", k)' = InProgress("INSERT", k)
        BY <2>2 DEF InProgress, svars
      <4> QED BY <2>1, <2>2, <2>4, <4>1, <4>2, <4>3 DEF Absent, svars
    <3> QED BY <2>1, <2>2, <3>2 DEF GoneInv, svars
  <2>5. CASE pc # "wait"
    <3>1. \A k : ~InProgress("INSERT", k) /\ ~InProgress("INSERT", k)' /\ ~Inserted(k) /\ ~Inserted(k)'
      BY <2>2, <2>3, <2>5 DEF InProgress, Inserted, HasAnswer, Busy, Waiting, svars
    <3>2. w.req.op = "INSERT" => acked[w.req.key] # NoObject
      BY <1>z, <3>1 DEF GoneInv
    <3>3. w.req.op \in {"INSERT", "DELETE"} => w.req.key \in Keys
      BY <2>1, RequestFields
    <3>4. ASSUME NEW k \in Keys, acked[k] = NoObject PROVE ht[k] = NoObject /\ k \notin KeysIn(file)
      BY <1>z, <3>1, <3>4 DEF GoneInv, Absent
    <3>5. ASSUME NEW k \in Keys, acked[k] = NoObject PROVE ht'[k] = NoObject
      BY <1>0, <2>1, <3>2, <3>3, <3>4, <3>5 DEF Effect
    <3>6. pc' \notin {"filter", "copy"}
      BY <2>2, <2>3 DEF Waiting, svars
    <3> QED BY <2>1, <2>2, <3>1, <3>4, <3>5, <3>6 DEF GoneInv, Absent, svars
  <2> QED BY <2>4, <2>5
<1>20. CASE UNCHANGED vars
  BY <1>20, <1>z, <1>b, <1>c DEF vars, kvars, svars, GoneInv, Absent, Inserted, InProgress,
      HasAnswer, Answer, Busy, Waiting
<1> QED
  BY <1>1, <1>2, <1>3, <1>4, <1>5, <1>6, <1>7, <1>8, <1>9, <1>10, <1>11, <1>12, <1>13,
     <1>14, <1>15, <1>16, <1>17, <1>18, <1>19, <1>20 DEF Next, Server

-----------------------------------------------------------------------------
(* Acknowledged values are the ones served. *)

\* AckedDurable as the proofs below use it: outside a deletion, the key of an
\* acknowledged value is in the file or on its way back to it.
LEMMA AckedHasLine ==
    ASSUME TypeInv, DurableInv, ColonFree, mishaps = {}, NEW k \in Keys, acked[k] \in Values,
           ~InProgress("DELETE", k)
    PROVE  /\ FileLine(k, acked[k]) \in Held
           /\ acked[k] \in Text
  BY TextAssumption DEF DurableInv, AckedDurable, ColonFree

LEMMA NextValueInv ==
    TypeInv /\ ReplyInv /\ DurableInv /\ EmptyInv /\ AnswerInv /\ LoadInv /\ CoverInv /\ UniqueInv /\ ValueInv /\ [Next]_vars => ValueInv'
<1> SUFFICES ASSUME TypeInv, ReplyInv, DurableInv, EmptyInv, AnswerInv, LoadInv, CoverInv, UniqueInv, ValueInv,
                    [Next]_vars, ColonFree, mishaps' = {}
             PROVE  ValueInv'
  BY DEF ValueInv
<1>z. mishaps = {}
  BY MishapsGrow
<1>0. /\ file \in Seq(Line) /\ pos \in Nat /\ Unknown \notin Values /\ NoObject \notin Values
      /\ ht \in [Keys -> Text \cup {NoObject}]
      /\ acked \in [Keys -> Values \cup {NoObject, Unknown}]
  BY TextAssumption, ServerAssumption DEF TypeInv, TypeOK, KernelTypeOK
<1>c. pc \notin Waiting /\ pc # "down" => wq = {}
  BY <1>z DEF ReplyInv, PairInv
<1>1. CASE Start
  <2>1. wq = {}
    BY <1>1 DEF Start
  <2> QED BY <1>z, <1>1, <2>1 DEF Start, recieve_data, ValueInv
<1>2. CASE InitDone
  BY <1>2, <1>z, <1>c DEF InitDone, ValueInv, Busy, Waiting
<1>3. CASE LoadLine
  <2> DEFINE l == file[pos + 1]
  <2>1. /\ pc = "load" /\ pos < Len(file) /\ UNCHANGED <<ht, acked>>
        /\ \/ wq' = wq
           \/ HasColon(l) /\ \E p : wq' = wq \cup {[pid |-> p, req |-> [op |-> "INSERT", key |-> LineKey(l), val |-> LineValue(l)]]}
    BY <1>3 DEF LoadLine, recieve_data
  <2>2. wq = {}
    BY <1>c, <2>1 DEF Waiting
  <2>3. ASSUME HasColon(l), acked[LineKey(l)] \in Values
        PROVE  LineValue(l) = Reloaded(LineKey(l), acked[LineKey(l)])
    <3> DEFINE k == LineKey(l)
    <3>1. k \in Keys /\ pos + 1 \in DOMAIN file
      BY <1>0, <2>1, <2>3, KeysInMember, KeysInKeys
    <3>2. FileLine(k, acked[k]) \in LinesOf(file) /\ acked[k] \in Text
      BY <1>z, <2>1, <2>3, <3>1, AckedHasLine DEF InProgress, Busy, Held
    <3>3. PICK i \in DOMAIN file : file[i] = FileLine(k, acked[k])
      BY <3>2 DEF LinesOf
    <3>4. HasColon(file[i]) /\ LineKey(file[i]) = k
      BY <3>1, <3>2, <3>3, FileLineType, OneToken DEF HasColon
    <3>5. i = pos + 1
      BY <1>z, <2>3, <3>1, <3>4 DEF UniqueInv, UniqueKeys
    <3> QED BY <3>3, <3>5 DEF Reloaded
  <2> QED BY <1>z, <2>1, <2>2, <2>3 DEF ValueInv
<1>4. CASE LoadReply
  BY <1>4, <1>z, <1>c DEF LoadReply, ValueInv, Busy, Waiting
<1>5. CASE LoadEnd
  BY <1>5, <1>z, <1>c DEF LoadEnd, kvars, ValueInv, Busy, Waiting
<1>6. ASSUME NEW r \in ClientRequest, Fetch(r) PROVE ValueInv'
  BY <1>6, <1>z, <1>c DEF Fetch, recieve_data, ValueInv, Busy, Waiting
<1>7. CASE Receive
  BY <1>7, <1>z, <1>c DEF Receive, ValueInv, Busy, Waiting
<1>8. CASE StoreNothing
  BY <1>8, <1>z, <1>c DEF StoreNothing, kvars, ValueInv, Busy, Waiting
<1>9. CASE StoreInsert
  BY <1>9, <1>z, <1>c DEF StoreInsert, kvars, ValueInv, Busy, Waiting
<1>10. CASE StoreDelete
  BY <1>10, <1>z, <1>c DEF StoreDelete, kvars, ValueInv, Busy, Waiting
<1>11. CASE FilterLine
  BY <1>11, <1>z, <1>c DEF FilterLine, kvars, ValueInv, Busy, Waiting
<1>12. CASE FilterEnd
  BY <1>12, <1>z, <1>c DEF FilterEnd, kvars, ValueInv, Busy, Waiting
<1>13. CASE CopyLine
  BY <1>13, <1>z, <1>c DEF CopyLine, kvars, ValueInv, Busy, Waiting
<1>14. CASE CopyEnd
  BY <1>14, <1>z, <1>c DEF CopyEnd, kvars, ValueInv, Busy, Waiting
<1>15. CASE Broadcast
  <2>1. /\ pc = "bcast" /\ UNCHANGED <<ht, wq>>
        /\ acked' = CASE cur.op = "INSERT" /\ rep.tag = "inserted"
                            -> [acked EXCEPT ![cur.key] = cur.val]
                      [] cur.op = "DELETE" /\ rep.tag = "deleted"
                            -> [acked EXCEPT ![cur.key] = NoObject]
                      [] OTHER -> acked
    BY <1>15 DEF Broadcast, kvars
  <2>2. wq = {}
    BY <1>c, <2>1 DEF Waiting
  <2>3. cur.op = "INSERT" /\ rep.tag = "inserted" => ht[cur.key] = cur.val
    BY <1>z, <2>1 DEF AnswerInv, HasAnswer, Answer
  <2>4. ASSUME NEW k \in Keys, acked'[k] \in Values
        PROVE  \/ acked'[k] = acked[k]
               \/ acked'[k] = ht[k]
    BY <1>0, <2>1, <2>3, <2>4
  <2> QED BY <1>z, <2>1, <2>2, <2>4 DEF ValueInv
<1>16. CASE Stop
  <2>1. /\ UNCHANGED <<ht, wq>> /\ pc' = "down"
        /\ acked' = IF pc \in Busy /\ cur.op \in {"INSERT", "DELETE"}
                      THEN [acked EXCEPT ![cur.key] = Unknown] ELSE acked
    BY <1>16 DEF Stop
  <2>2. ASSUME NEW k \in Keys, acked'[k] \in Values
        PROVE  /\ acked'[k] = acked[k]
               /\ ~(pc \in Busy /\ cur.op = "INSERT" /\ cur.key = k)
    BY <1>0, <2>1, <2>2
  <2>3. ASSUME NEW w \in wq, w.req.op = "INSERT", acked'[w.req.key] \in Values PROVE pc \notin Busy
    <3>1. w.req.key \in Keys
      BY <2>3, RequestFields DEF TypeInv, TypeOK, KernelTypeOK
    <3>2. pc \in Busy => w.req = cur
      BY <1>z DEF ReplyInv, PairInv, Awaited, Busy
    <3> QED BY <2>2, <2>3, <3>1, <3>2
  <2>4. \A w \in wq : w.req.op = "INSERT" => w.req.key \in Keys
    BY RequestFields DEF TypeInv, TypeOK, KernelTypeOK
  <2> QED BY <1>z, <2>1, <2>2, <2>3, <2>4 DEF ValueInv
<1>17. CASE ReloadModule
  BY <1>z, <1>17 DEF ReloadModule, exit_and_init, EmptyTable, ValueInv
<1>18. CASE Reboot
  BY <1>z, <1>18 DEF Reboot, reboot, svars, EmptyTable, ValueInv
<1>19. CASE Kernel
  <2>1. PICK w \in wq : /\ wq = {w} /\ wq' = {} /\ w.req \in Request
                        /\ Effect(w.req)
                        /\ \/ inbox' = inbox
                           \/ \E a \in Reply : inbox' = Append(inbox, a) /\ Says(w.req, a)
    BY <1>z, <1>19, OneItem DEF Kernel, ReplyInv, PairInv
  <2>2. UNCHANGED svars
    BY <1>19 DEF Kernel
  <2>3. pc # "down" => pc \in Waiting /\ inbox = <<>> /\ w.req = Awaited
    BY <1>z, <2>1 DEF ReplyInv, PairInv
  <2>4. w.req.op \in {"INSERT", "DELETE"} => w.req.key \in Keys
    BY <2>1, RequestFields
  <2>5. ASSUME NEW k \in Keys, acked[k] \in Values
        PROVE  ht'[k] \in {NoObject, acked[k], Reloaded(k, acked[k])}
    <3>1. ht[k] \in {NoObject, acked[k], Reloaded(k, acked[k])}
      BY <1>z, <2>5 DEF ValueInv
    <3>2. CASE w.req.op = "INSERT" /\ w.req.key = k /\ ht[k] = NoObject
      <4>1. pc \notin Busy
        <5> SUFFICES ASSUME pc \in Busy PROVE FALSE
          OBVIOUS
        <5>1. pc = "wait" /\ w.req = cur
          BY <2>3 DEF Busy, Waiting, Awaited
        <5>2. k \in KeysIn(file)
          BY <1>z, <2>5, <3>2, <5>1, AckedHasLine, DurableKey DEF InProgress, Held
        <5>3. ~Deleting(k)
          BY <2>1 DEF Deleting
        <5> QED BY <1>z, <3>2, <5>1, <5>2, <5>3 DEF CoverInv, Serving
      <4>2. w.req.val = Reloaded(k, acked[k])
        BY <1>z, <2>5, <3>2, <4>1 DEF ValueInv
      <4>3. ht'[k] \in {ht[k], w.req.val}
        BY <1>0, <2>1, <2>4, <3>2 DEF Effect
      <4> QED BY <3>1, <4>2, <4>3
    <3>3. CASE ~(w.req.op = "INSERT" /\ w.req.key = k /\ ht[k] = NoObject)
      <4>1. ht'[k] \in {ht[k], NoObject}
        BY <1>0, <2>1, <2>4, <3>3 DEF Effect
      <4> QED BY <3>1, <4>1
    <3> QED BY <3>2, <3>3
  <2> QED BY <2>1, <2>2, <2>5 DEF ValueInv, svars
<1>20. CASE UNCHANGED vars
  BY <1>20, <1>z, <1>c DEF vars, kvars, svars, ValueInv, Busy, Waiting
<1> QED
  BY <1>1, <1>2, <1>3, <1>4, <1>5, <1>6, <1>7, <1>8, <1>9, <1>10, <1>11, <1>12, <1>13,
     <1>14, <1>15, <1>16, <1>17, <1>18, <1>19, <1>20 DEF Next, Server

-----------------------------------------------------------------------------
(* The invariant and what follows from it. *)

\* What relates table, file, answers and acknowledgements.
TableInv ==
    /\ EmptyInv /\ ReadyInv /\ AnswerInv
    /\ LoadInv /\ RewriteInv /\ CoverInv /\ UniqueInv
    /\ GoneInv /\ ValueInv

AllInv == TypeInv /\ ReplyInv /\ DurableInv /\ TableInv

LEMMA InitTableInv == Init => TableInv
<1> SUFFICES ASSUME Init PROVE TableInv
  OBVIOUS
<1>1. NoObject \notin Values
  BY TextAssumption
<1>2. /\ pc = "down" /\ file = <<>> /\ wq = {} /\ inbox = <<>> /\ ht = EmptyTable /\ ~oops
      /\ acked = [k \in Keys |-> NoObject]
  BY DEF Init, KernelInit
<1>3. EmptyInv /\ ReadyInv /\ AnswerInv /\ LoadInv /\ RewriteInv
  BY <1>2 DEF EmptyInv, ReadyInv, AnswerInv, LoadInv, RewriteInv, HasAnswer
<1>4. CoverInv /\ UniqueInv
  BY <1>2 DEF CoverInv, UniqueInv, UniqueKeys, Serving, Busy
<1>5. GoneInv
  BY <1>2, KeysInEmpty DEF GoneInv, Absent, EmptyTable
<1>6. ValueInv
  BY <1>1, <1>2 DEF ValueInv
<1> QED BY <1>3, <1>4, <1>5, <1>6 DEF TableInv

LEMMA Invariance == Spec => []AllInv
<1>1. Init => AllInv
  BY InitTypeInv, InitReplyInv, InitDurableInv, InitTableInv DEF AllInv
<1>2. AllInv /\ [Next]_vars => AllInv'
  BY NextTypeInv, NextReplyInv, NextDurableInv, NextEmptyInv, NextReadyInv, NextAnswerInv,
     NextLoadInv, NextRewriteInv, NextCoverInv, NextUniqueInv, NextGoneInv, NextValueInv
     DEF AllInv, TableInv
<1> QED BY <1>1, <1>2, PTL DEF Spec

\* Without allocation failures work_handler never uses the table before
\* rhashtable_init: init_hashtable waits for the answer to INIT, and an item
\* that outlives its server finds the table that server had initialised.
THEOREM KernelIsSafe == Spec => []KernelSafe
<1>1. AllInv => KernelSafe
  BY DEF AllInv, TableInv, ReadyInv, KernelSafe
<1> QED BY Invariance, <1>1, PTL

\* store_data never writes a second line for a key: the duplicate test of
\* rhashtable_lookup_insert_fast speaks for the file, because at any time a
\* client's INSERT reaches it the table holds every key of the file.
THEOREM LinesAreUnique == Spec => []UniqueLines
<1>1. AllInv => UniqueLines
  <2> SUFFICES ASSUME AllInv, ColonFree, mishaps \cap {"stray", "loadfail"} = {}
               PROVE  UniqueKeys(file)
    BY DEF UniqueLines, UniqueKeys
  <2> QED BY DEF AllInv, TableInv, UniqueInv
<1> QED BY Invariance, <1>1, PTL

\* A key whose deletion was acknowledged is neither in the table nor in the
\* file until somebody sends an INSERT of it: no reload, restart or item that is
\* still queued brings it back.
THEOREM DeletedStaysGone == Spec => []AckedGone
<1>1. AllInv => AckedGone
  <2> SUFFICES ASSUME AllInv, ColonFree, "stray" \notin mishaps, NEW k \in Keys,
                      acked[k] = NoObject, ~InProgress("INSERT", k)
               PROVE  ht[k] = NoObject /\ k \notin FileKeys
    BY DEF AckedGone
  <2>1. Absent(k)
    BY DEF AllInv, TableInv, GoneInv
  <2>2. ~(Inserted(k) /\ pc = "bcast")
    BY DEF Inserted, InProgress, Busy
  <2>3. FileKeys = KeysIn(file)
    BY DEF FileKeys, KeysIn
  <2> QED BY <2>1, <2>2, <2>3 DEF Absent
<1> QED BY Invariance, <1>1, PTL

LEMMA ServedFromInv == AllInv => AckedServed
<1> SUFFICES ASSUME AllInv, ColonFree, mishaps = {}, pc \in Serving, NEW k \in Keys,
                    acked[k] \in Values, ~InProgress("DELETE", k)
             PROVE  ht[k] \in {acked[k], Reloaded(k, acked[k])}
  BY DEF AckedServed
<1>1. FileLine(k, acked[k]) \in Held /\ acked[k] \in Text
  BY AckedHasLine DEF AllInv
<1>2. k \in KeysIn(file) \/ (pc = "copy" /\ k \in KeysIn(tmp))
  BY <1>1, DurableKey DEF Held
<1>3. ~Deleting(k)
  BY DEF Deleting
<1>4. ht[k] # NoObject
  BY <1>2, <1>3 DEF AllInv, TableInv, CoverInv
<1> QED BY <1>4 DEF AllInv, TableInv, ValueInv

\* kernel_communication serves from the table what it acknowledged, in this run
\* of the server or in an earlier one, as inserted or as load_stored_values
\* brings it back.
THEOREM AckedIsServed == Spec => []AckedServed
  BY Invariance, ServedFromInv, PTL

\* The answer a GET carries to the clients is the acknowledged value, or
\* notFound for a key whose deletion was acknowledged.
THEOREM GetsAgree == Spec => []GetAgreesWithAcked
<1>1. AllInv => GetAgreesWithAcked
  <2> SUFFICES ASSUME AllInv, ColonFree, mishaps = {}, pc \in {"store", "bcast"},
                      cur.op = "GET", rep.tag # "wrongOp"
               PROVE  /\ acked[cur.key] = NoObject => rep.tag = "notFound"
                      /\ acked[cur.key] \in Values =>
                            /\ rep.tag = "value"
                            /\ rep.val \in {acked[cur.key], Reloaded(cur.key, acked[cur.key])}
    BY DEF GetAgreesWithAcked
  <2>1. cur.key \in Keys
    BY RequestFields DEF AllInv, TypeInv, TypeOK
  <2>2. IF ht[cur.key] = NoObject THEN rep.tag = "notFound"
        ELSE rep.tag = "value" /\ rep.val = ht[cur.key]
    BY DEF AllInv, TableInv, AnswerInv, HasAnswer, Answer
  <2>3. ~InProgress("INSERT", cur.key) /\ ~InProgress("DELETE", cur.key) /\ pc \in Serving
    BY DEF InProgress, Serving, Busy
  <2>4. acked[cur.key] = NoObject => ht[cur.key] = NoObject
    BY <2>1, <2>3 DEF AllInv, TableInv, GoneInv, Absent
  <2>5. acked[cur.key] \in Values => ht[cur.key] \in {acked[cur.key], Reloaded(cur.key, acked[cur.key])}
    BY <2>1, <2>3, ServedFromInv DEF AckedServed
  <2>6. acked[cur.key] \in Values => ht[cur.key] # NoObject
    <3>1. \A k \in Keys, v \in Values : v # NoObject /\ Reloaded(k, v) # NoObject
      <4> TAKE k \in Keys, v \in Values
      <4>1. v \in Text
        BY TextAssumption
      <4>2. FileLine(k, v) \in Line /\ Len(FileLine(k, v)) >= 2
        BY <4>1, FileLineType
      <4>3. LineValue(FileLine(k, v)) \in Text
        BY <4>2 DEF LineValue, Text, Line
      <4> QED BY <4>1, <4>3, TextAssumption DEF Reloaded
    <3> QED BY <2>1, <2>5, <3>1
  <2> QED BY <2>2, <2>4, <2>5, <2>6
<1> QED BY Invariance, <1>1, PTL
=============================================================================
