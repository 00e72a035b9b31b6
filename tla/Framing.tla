------------------------------ MODULE Framing ------------------------------
(***************************************************************************)
(* PDUs on a TCP connection: how OU4/Resources/PDU_user.c and the client   *)
(* lay them out, how receive_pdu and the read_ functions take them off the *)
(* byte stream again, and send_pdu.                                        *)
(*                                                                         *)
(* A stream is the sequence of PDUs sent on it and the number of bytes     *)
(* read.  How many of the bytes that are on their way have arrived is      *)
(* decided when somebody looks: a recv returns any number of them, from    *)
(* those a MSG_PEEK has already seen up to the number asked for.  The      *)
(* read_ functions repeat                                                  *)
(*     nread = recv(sock, buffer, n, 0)                                    *)
(* until one call returns n: a call that returns less neither moves the    *)
(* buffer on nor asks for less, one that returns 0 is repeated, and one    *)
(* that fails ends the loop, -1 being the largest size_t.                  *)
(***************************************************************************)
EXTENDS Integers, Sequences, FiniteSetsExt

CONSTANTS
    HEADERSIZE,   \* scaled down, as is KEY_SIZE
    KEY_SIZE

ASSUME FramingAssumption == HEADERSIZE \in Nat \ {0} /\ KEY_SIZE \in Nat \ {0}

Streams == {"up", "down"}                \* client to server, server to client
Readers == {"server", "listen", "main"}
StreamOf(r) == IF r = "server" THEN "up" ELSE "down"
Back(s) == IF s = "up" THEN "down" ELSE "up"

Ops == {"INIT", "INSERT", "GET", "DELETE", "KERNEL", "JOIN", "QUIT"}

VARIABLES
    out,      \* PDUs sent: [op, len], len being what the header's length field says
    bytes,    \* their bytes
    taken,    \* bytes that have been read
    peeked,   \* bytes not yet read that a MSG_PEEK has seen
    closed,   \* streams whose sending side has closed the connection
    rd,       \* the readers: where in receive_pdu each is
    got,      \* history: the operations read, in order
    short     \* history: streams on which the part of a PDU after its header, or a PDU
              \* that is read as a whole, came in pieces

fvars == <<out, bytes, taken, peeked, closed, rd, got, short>>

FramingTypeOK ==
    /\ out \in [Streams -> Seq([op : Ops, len : Nat])]
    /\ bytes \in [Streams -> Nat] /\ taken \in [Streams -> Nat]
    /\ peeked \in [Streams -> 0..HEADERSIZE]
    /\ closed \subseteq Streams /\ short \subseteq Streams
    /\ rd \in [Readers -> [pc : {"idle", "peek", "head", "body", "done", "eof", "null", "lost"},
                           op : Ops \cup {"none", "garbled"}, want : Nat]]
    /\ got \in [Streams -> Seq(Ops \cup {"garbled"})]

At(pc) == [pc |-> pc, op |-> "none", want |-> 0]

-----------------------------------------------------------------------------
(* Layout. *)

\* data_bytes of the PDUs that the create_ functions, setupJOINPDU and
\* read_exactly_from_kernel build.
Size(pdu) ==
    CASE pdu.op \in {"INIT", "QUIT"} -> HEADERSIZE
      [] pdu.op \in {"GET", "DELETE"} -> HEADERSIZE + KEY_SIZE
      [] pdu.op = "INSERT" -> HEADERSIZE + KEY_SIZE + pdu.len
      [] pdu.op \in {"JOIN", "KERNEL"} -> HEADERSIZE + pdu.len

\* How many bytes the first j of the PDUs in q take.
Offset(q) ==
    LET sum[j \in 0..Len(q)] == IF j = 0 THEN 0 ELSE sum[j - 1] + Size(q[j])
    IN  sum

\* Where the k-th PDU of stream s begins.
Start(s, k) == Offset(out[s])[k - 1]
Unread(s) == bytes[s] - taken[s]

\* The PDU whose first byte is the next one to be read, or 0.
Current(s) ==
    IF \E k \in DOMAIN out[s] : Start(s, k) = taken[s]
    THEN CHOOSE k \in DOMAIN out[s] : Start(s, k) = taken[s] ELSE 0

\* TCP resets a connection that is closed by a process with bytes left to read:
\* what that process has sent may be lost with it.
Reset(s) == s \in closed /\ Unread(Back(s)) > 0

\* The connection is there and the client's first PDU has been sent on it.
FramingInit(first) ==
    /\ out = [s \in Streams |-> IF s = "up" THEN <<first>> ELSE <<>>]
    /\ bytes = [s \in Streams |-> IF s = "up" THEN Size(first) ELSE 0]
    /\ taken = [s \in Streams |-> 0] /\ peeked = [s \in Streams |-> 0]
    /\ closed = {} /\ short = {}
    /\ rd = [r \in Readers |-> At(IF r = "server" THEN "peek" ELSE "idle")]
    /\ got = [s \in Streams |-> <<>>]

send_pdu(s, op, len) ==
    LET pdu == [op |-> op, len |-> len] IN
    /\ out' = [out EXCEPT ![s] = Append(@, pdu)]
    /\ bytes' = [bytes EXCEPT ![s] = @ + Size(pdu)]

-----------------------------------------------------------------------------
(* receive_pdu and read_exactly. *)

\* Mutant of FirstRecv: GET and DELETE are read without their key.
FirstRecv_nokey(pdu) ==
    CASE pdu.op \in {"INIT", "QUIT", "JOIN", "KERNEL"} -> [pc |-> "head", op |-> pdu.op, want |-> HEADERSIZE]
      [] pdu.op \in {"GET", "DELETE"} -> [pc |-> "body", op |-> pdu.op, want |-> HEADERSIZE]
      [] pdu.op = "INSERT" -> [pc |-> "body", op |-> "INSERT", want |-> pdu.len + HEADERSIZE + KEY_SIZE]

\* The read_ function of each operation begins with the header or, after
\* read_INSERT has looked at the header once more, asks for the whole PDU.
FirstRecv(pdu) ==
    CASE pdu.op \in {"INIT", "QUIT", "JOIN", "KERNEL"} -> [pc |-> "head", op |-> pdu.op, want |-> HEADERSIZE]
      [] pdu.op \in {"GET", "DELETE"} -> [pc |-> "body", op |-> pdu.op, want |-> HEADERSIZE + KEY_SIZE]
      [] pdu.op = "INSERT" -> [pc |-> "body", op |-> "INSERT", want |-> pdu.len + HEADERSIZE + KEY_SIZE]

\* recv with MSG_PEEK until a whole header is there, then the switch on its
\* first byte.  A reader that is not at the start of a PDU takes data for an
\* operation: it is lost.
Peek(r) ==
    LET s == StreamOf(r) IN
    /\ rd[r].pc = "peek" /\ Unread(s) >= HEADERSIZE
    /\ rd' = [rd EXCEPT ![r] = IF Current(s) = 0 THEN At("lost") ELSE FirstRecv(out[s][Current(s)])]
    /\ peeked' = [peeked EXCEPT ![s] = HEADERSIZE]
    /\ UNCHANGED <<out, bytes, taken, closed, got, short>>

\* The end of the stream is -100, an error NULL.
PeekEnd(r, bad) ==
    LET s == StreamOf(r) IN
    /\ rd[r].pc = "peek"
    /\ \/ Unread(s) = 0 /\ s \in closed /\ rd' = [rd EXCEPT ![r] = At("eof")]
       \/ (Reset(s) \/ bad) /\ rd' = [rd EXCEPT ![r] = At("null")]
    /\ UNCHANGED <<out, bytes, taken, peeked, closed, got, short>>

\* What a read_ function returns whose bytes are not those of its PDU: one with
\* its operation and garbled data.  Of JOIN and QUIT only the operation counts.
Misread(op) == IF op \in {"JOIN", "QUIT"} THEN op ELSE "garbled"

\* What follows a recv that returned all the bytes asked for.  read_JOIN and
\* read_KERNEL find the length of the rest in the header, if it is one.
AfterRecv(r) ==
    LET s == StreamOf(r) IN
    IF /\ rd[r].pc = "head"
       /\ rd[r].op = "garbled" \/ (rd[r].op \in {"JOIN", "KERNEL"} /\ Current(s) = 0)
    THEN At("lost")
    ELSE IF rd[r].pc = "head" /\ rd[r].op \in {"JOIN", "KERNEL"}
    THEN [rd[r] EXCEPT !.pc = "body", !.want = out[s][Current(s)].len]
    ELSE [rd[r] EXCEPT !.pc = "done", !.want = 0]

Recv(r) ==
    LET s == StreamOf(r)
        want == rd[r].want
    IN
    /\ rd[r].pc \in {"head", "body"}
    /\ \E n \in Max({1, Min({want, peeked[s]})})..Min({want, Unread(s)}) :
          /\ taken' = [taken EXCEPT ![s] = @ + n]
          /\ peeked' = [peeked EXCEPT ![s] = Max({0, @ - n})]
          /\ rd' = [rd EXCEPT ![r] = IF n = want THEN AfterRecv(r)
                                               ELSE [rd[r] EXCEPT !.op = Misread(rd[r].op)]]
          /\ short' = IF n = want \/ rd[r].pc = "head" THEN short ELSE short \cup {s}
          /\ got' = IF rd'[r].pc = "done" THEN [got EXCEPT ![s] = Append(@, rd[r].op)] ELSE got
    /\ UNCHANGED <<out, bytes, closed>>

\* A recv that fails inside a read_ function: its buffer stays as it is.  A reset
\* has dropped what was not read.
RecvError(r, bad) ==
    LET s == StreamOf(r) IN
    /\ rd[r].pc \in {"head", "body"} /\ (Reset(s) \/ bad)
    /\ rd' = [rd EXCEPT ![r] = [pc |-> "done", op |-> Misread(@.op), want |-> 0]]
    /\ taken' = IF bad THEN taken ELSE [taken EXCEPT ![s] = @ + Unread(s)]
    /\ peeked' = [peeked EXCEPT ![s] = 0]
    /\ UNCHANGED <<out, bytes, closed, got, short>>

\* receive_pdu by reader r; bad says that another thread has closed its socket.
receive_pdu(r, bad) ==
    \/ ~bad /\ (Peek(r) \/ Recv(r))
    \/ PeekEnd(r, bad) \/ RecvError(r, bad)
=============================================================================
