--------------------------- MODULE SessionProofs ---------------------------
(***************************************************************************)
(* Proofs about Session, for every header and key size, every set of menu  *)
(* choices, every length of the load tests and any number of requests and  *)
(* answers.                                                                *)
(***************************************************************************)
EXTENDS Session, SeqLemmas, TLAPS

PDUs == [op : Ops, len : Nat]

-----------------------------------------------------------------------------
(* Where the PDUs of a stream begin. *)

LEMMA SizePositive ==
    ASSUME NEW p \in PDUs
    PROVE  Size(p) \in Nat /\ Size(p) >= HEADERSIZE /\ Size(p) > 0
  BY FramingAssumption DEF PDUs, Ops, Size

\* The recursion has a solution ...
LEMMA OffsetExists ==
    ASSUME NEW q \in Seq(PDUs), NEW m \in Nat, m <= Len(q)
    PROVE  \E f \in [0..m -> Nat] : /\ f[0] = 0
                                    /\ \A j \in 1..m : f[j] = f[j - 1] + Size(q[j])
<1> DEFINE Fits(f, n) == f[0] = 0 /\ \A j \in 1..n : f[j] = f[j - 1] + Size(q[j])
           S == {n \in Nat : n <= Len(q) => \E f \in [0..n -> Nat] : Fits(f, n)}
<1>1. 0 \in S
  <2>1. [j \in 0..0 |-> 0] \in [0..0 -> Nat] /\ Fits([j \in 0..0 |-> 0], 0)
    OBVIOUS
  <2> QED BY <2>1
<1>2. ASSUME NEW n \in S PROVE n + 1 \in S
  <2>0. n + 1 \in Nat
    OBVIOUS
  <2> SUFFICES ASSUME n + 1 <= Len(q) PROVE \E f \in [0..(n + 1) -> Nat] : Fits(f, n + 1)
    BY <2>0, Zenon
  <2>1. n \in Nat /\ Len(q) \in Nat /\ n <= Len(q) /\ n + 1 \in 1..Len(q)
    BY <1>2
  <2>2. PICK f \in [0..n -> Nat] : Fits(f, n)
    BY <2>1
  <2>3. q[n + 1] \in PDUs
    BY <2>1
  <2>4. Size(q[n + 1]) \in Nat
    BY <2>3, SizePositive
  <2> DEFINE g == [j \in 0..(n + 1) |-> IF j = n + 1 THEN f[n] + Size(q[n + 1]) ELSE f[j]]
  <2>5. g \in [0..(n + 1) -> Nat]
    BY <2>1, <2>4
  <2>6. g[0] = 0
    BY <2>1, <2>2
  <2>7. ASSUME NEW j \in 1..(n + 1) PROVE g[j] = g[j - 1] + Size(q[j])
    <3>1. CASE j = n + 1
      <4>1. g[j] = f[n] + Size(q[n + 1]) /\ g[j - 1] = f[n]
        BY <2>1, <3>1
      <4> QED BY <3>1, <4>1
    <3>2. CASE j # n + 1
      <4>1. j \in 1..n /\ g[j] = f[j] /\ g[j - 1] = f[j - 1]
        BY <2>1, <3>2
      <4> QED BY <2>2, <4>1
    <3> QED BY <3>1, <3>2
  <2> HIDE DEF g
  <2> QED BY <2>5, <2>6, <2>7
<1>3. S = Nat
  <2>1. S \in SUBSET Nat
    OBVIOUS
  <2> HIDE DEF S
  <2> QED BY <1>1, <1>2, <2>1, SetInduction
<1> QED BY <1>3

\* ... and so Offset obeys it.
LEMMA OffsetEquation ==
    ASSUME NEW q \in Seq(PDUs)
    PROVE  /\ Offset(q)[0] = 0
           /\ \A j \in 1..Len(q) : Offset(q)[j] = Offset(q)[j - 1] + Size(q[j])
<1> DEFINE F(f) == [j \in 0..Len(q) |-> IF j = 0 THEN 0 ELSE f[j - 1] + Size(q[j])]
<1>1. Len(q) \in Nat /\ Len(q) <= Len(q)
  OBVIOUS
<1>2. PICK f \in [0..Len(q) -> Nat] : f[0] = 0 /\ \A j \in 1..Len(q) : f[j] = f[j - 1] + Size(q[j])
  BY <1>1, OffsetExists
<1>3. f = F(f)
  <2>1. \A j \in 0..Len(q) : f[j] = F(f)[j]
    BY <1>1, <1>2
  <2> QED BY <1>2, <2>1
<1>4. Offset(q) = CHOOSE g : g = F(g)
  BY DEF Offset
<1> HIDE DEF F
<1>5. Offset(q) = F(Offset(q))
  BY <1>3, <1>4
<1>6. \A j \in 0..Len(q) : Offset(q)[j] = IF j = 0 THEN 0 ELSE Offset(q)[j - 1] + Size(q[j])
  BY <1>5 DEF F
<1> QED BY <1>1, <1>6

LEMMA OffsetType ==
    ASSUME NEW q \in Seq(PDUs), NEW m \in 0..Len(q)
    PROVE  Offset(q)[m] \in Nat
<1> DEFINE S == {n \in Nat : n <= Len(q) => Offset(q)[n] \in Nat}
<1>1. 0 \in S
  BY OffsetEquation
<1>2. ASSUME NEW n \in S PROVE n + 1 \in S
  <2> SUFFICES ASSUME n + 1 <= Len(q) PROVE Offset(q)[n + 1] \in Nat
    OBVIOUS
  <2>1. n \in Nat /\ Len(q) \in Nat /\ n <= Len(q) /\ n + 1 \in 1..Len(q) /\ (n + 1) - 1 = n
    BY <1>2
  <2>2. q[n + 1] \in PDUs
    BY <2>1
  <2>3. Offset(q)[n + 1] = Offset(q)[n] + Size(q[n + 1])
    BY <2>1, OffsetEquation
  <2> QED BY <2>1, <2>2, <2>3, SizePositive
<1>3. S = Nat
  <2>1. S \in SUBSET Nat
    OBVIOUS
  <2> HIDE DEF S
  <2> QED BY <1>1, <1>2, <2>1, SetInduction
<1> QED BY <1>3

\* Every PDU takes some bytes: no two begin at the same place.
LEMMA OffsetIncreases ==
    ASSUME NEW q \in Seq(PDUs), NEW i \in 0..Len(q), NEW j \in 0..Len(q), i < j
    PROVE  Offset(q)[i] < Offset(q)[j]
<1> DEFINE S == {n \in Nat : i < n /\ n <= Len(q) => Offset(q)[i] < Offset(q)[n]}
<1>1. 0 \in S
  OBVIOUS
<1>2. ASSUME NEW n \in S PROVE n + 1 \in S
  <2> SUFFICES ASSUME i < n + 1, n + 1 <= Len(q) PROVE Offset(q)[i] < Offset(q)[n + 1]
    OBVIOUS
  <2>1. n \in Nat /\ Len(q) \in Nat /\ n \in 0..Len(q) /\ n + 1 \in 1..Len(q) /\ (n + 1) - 1 = n
    BY <1>2
  <2>2. q[n + 1] \in PDUs
    BY <2>1
  <2>3. Offset(q)[n + 1] = Offset(q)[n] + Size(q[n + 1])
    BY <2>1, OffsetEquation
  <2>4. Size(q[n + 1]) \in Nat /\ Size(q[n + 1]) > 0
    BY <2>2, SizePositive
  <2>5. Offset(q)[n] \in Nat /\ Offset(q)[i] \in Nat
    BY <2>1, OffsetType
  <2>6. i = n \/ Offset(q)[i] < Offset(q)[n]
    BY <1>2, <2>1
  <2> QED BY <2>3, <2>4, <2>5, <2>6
<1>3. S = Nat
  <2>1. S \in SUBSET Nat
    OBVIOUS
  <2> HIDE DEF S
  <2> QED BY <1>1, <1>2, <2>1, SetInduction
<1> QED BY <1>3

\* send_pdu: what is added at the end moves nothing.
LEMMA OffsetAppend ==
    ASSUME NEW q \in Seq(PDUs), NEW p \in PDUs
    PROVE  /\ \A j \in 0..Len(q) : Offset(Append(q, p))[j] = Offset(q)[j]
           /\ Offset(Append(q, p))[Len(q) + 1] = Offset(q)[Len(q)] + Size(p)
<1> DEFINE t == Append(q, p)
           S == {n \in Nat : n <= Len(q) => Offset(t)[n] = Offset(q)[n]}
<1>1. /\ t \in Seq(PDUs) /\ Len(t) = Len(q) + 1 /\ Len(q) \in Nat
      /\ t[Len(q) + 1] = p /\ \A j \in 1..Len(q) : t[j] = q[j]
  OBVIOUS
<1> HIDE DEF t
<1>2. 0 \in S
  BY <1>1, OffsetEquation
<1>3. ASSUME NEW n \in S PROVE n + 1 \in S
  <2> SUFFICES ASSUME n + 1 <= Len(q) PROVE Offset(t)[n + 1] = Offset(q)[n + 1]
    OBVIOUS
  <2>1. n \in Nat /\ n + 1 \in 1..Len(q) /\ n + 1 \in 1..Len(t) /\ (n + 1) - 1 = n /\ n <= Len(q)
    BY <1>1, <1>3
  <2>2. Offset(t)[n + 1] = Offset(t)[n] + Size(t[n + 1])
    BY <1>1, <2>1, OffsetEquation
  <2>3. Offset(q)[n + 1] = Offset(q)[n] + Size(q[n + 1])
    BY <2>1, OffsetEquation
  <2> QED BY <1>1, <1>3, <2>1, <2>2, <2>3
<1>4. S = Nat
  <2>1. S \in SUBSET Nat
    OBVIOUS
  <2> HIDE DEF S
  <2> QED BY <1>2, <1>3, <2>1, SetInduction
<1>5. \A j \in 0..Len(q) : Offset(t)[j] = Offset(q)[j]
  BY <1>4
<1>6. Offset(t)[Len(q) + 1] = Offset(q)[Len(q)] + Size(p)
  <2>1. Len(q) + 1 \in 1..Len(t) /\ (Len(q) + 1) - 1 = Len(q) /\ Len(q) \in 0..Len(q)
    BY <1>1
  <2>2. Offset(t)[Len(q) + 1] = Offset(t)[Len(q)] + Size(t[Len(q) + 1])
    BY <1>1, <2>1, OffsetEquation
  <2> QED BY <1>1, <1>5, <2>1, <2>2
<1> QED BY <1>5, <1>6 DEF t

-----------------------------------------------------------------------------
(* The inductive invariant. *)

\* The bytes of a stream are accounted for, and a reader in the middle of a PDU
\* knows which operation it reads.
FrameInv ==
    /\ FramingTypeOK
    /\ \A s \in Streams : taken[s] <= bytes[s]
    /\ \A r \in Readers : rd[r].pc \in {"head", "body"} => rd[r].op # "none"

SixPcs == {"six", "six_read", "six_get", "six_read_get"}

\* Who closes which direction, and who reads when.
EndsInv ==
    /\ sock \in BOOLEAN /\ met \in BOOLEAN
    /\ "up" \in closed <=> ~sock
    /\ "down" \in closed <=> srv = "gone"
    /\ srv = "gone" => rd["server"] = At("idle") /\ got["up"] = <<>>
    /\ ~met => rd["main"] = At("idle") /\ cpc \notin SixPcs
    /\ lpc # "recv" => rd["listen"].pc = "idle"

\* The thread that reads stream s when nobody reads beside it.
ReaderOf(s) == IF s = "up" THEN "server" ELSE "listen"

\* The reader of s stands where a PDU begins, or as far into the next PDU as its
\* place in the read_ functions says.
InStep(s) ==
    LET q == out[s]
        g == Len(got[s])
        r == rd[ReaderOf(s)]
    IN
    /\ bytes[s] = Offset(q)[Len(q)]
    /\ g <= Len(q) /\ \A k \in 1..g : got[s][k] = q[k].op
    /\ r.pc # "lost" /\ r.op # "garbled"
    /\ r.pc \in {"idle", "peek", "done", "eof", "null"} => taken[s] = Offset(q)[g]
    /\ r.pc = "head" => /\ g < Len(q) /\ taken[s] = Offset(q)[g]
                        /\ r.op = q[g + 1].op /\ r.op \in {"INIT", "QUIT", "JOIN", "KERNEL"}
                        /\ r.want = HEADERSIZE /\ peeked[s] = HEADERSIZE
    /\ r.pc = "body" => /\ g < Len(q) /\ taken[s] + r.want = Offset(q)[g + 1]
                        /\ r.op = q[g + 1].op

\* The server forgets the stream to it when it ends.
Followed(s) == ~Broken(s) /\ ~(s = "up" /\ srv = "gone")

StepInv == \A s \in Streams : Followed(s) => InStep(s)

SessionInv == FrameInv /\ EndsInv /\ StepInv

-----------------------------------------------------------------------------
(* The largest and the smallest of two numbers. *)

LEMMA MaxOfTwo ==
    ASSUME NEW a \in Int, NEW b \in Int
    PROVE  Max({a, b}) = IF a >= b THEN a ELSE b
<1> DEFINE m == IF a >= b THEN a ELSE b
<1>1. m \in {a, b} /\ \A y \in {a, b} : m >= y
  OBVIOUS
<1>2. \A x \in {a, b} : (\A y \in {a, b} : x >= y) => x = m
  OBVIOUS
<1> HIDE DEF m
<1>3. Max({a, b}) = m
  BY <1>1, <1>2 DEF Max
<1> QED BY <1>3 DEF m

LEMMA MinOfTwo ==
    ASSUME NEW a \in Int, NEW b \in Int
    PROVE  Min({a, b}) = IF a <= b THEN a ELSE b
<1> DEFINE m == IF a <= b THEN a ELSE b
<1>1. m \in {a, b} /\ \A y \in {a, b} : m =< y
  OBVIOUS
<1>2. \A x \in {a, b} : (\A y \in {a, b} : x =< y) => x = m
  OBVIOUS
<1> HIDE DEF m
<1>3. Min({a, b}) = m
  BY <1>1, <1>2 DEF Min
<1> QED BY <1>3 DEF m

-----------------------------------------------------------------------------
(* One stream and its reader. *)

RdType == [pc : {"idle", "peek", "head", "body", "done", "eof", "null", "lost"},
           op : Ops \cup {"none", "garbled"}, want : Nat]

LEMMA FrameFacts ==
    ASSUME FrameInv, NEW s \in Streams
    PROVE  /\ out[s] \in Seq(PDUs) /\ Len(out[s]) \in Nat
           /\ bytes[s] \in Nat /\ taken[s] \in Nat /\ taken[s] <= bytes[s]
           /\ Unread(s) \in Nat /\ Unread(s) = bytes[s] - taken[s]
           /\ peeked[s] \in 0..HEADERSIZE
           /\ got[s] \in Seq(Ops \cup {"garbled"}) /\ Len(got[s]) \in Nat
           /\ DOMAIN out = Streams /\ DOMAIN bytes = Streams /\ DOMAIN taken = Streams
           /\ DOMAIN peeked = Streams /\ DOMAIN got = Streams
<1>1. out[s] \in Seq(PDUs) /\ DOMAIN out = Streams
  BY DEF FrameInv, FramingTypeOK, PDUs
<1>2. got[s] \in Seq(Ops \cup {"garbled"}) /\ DOMAIN got = Streams
  BY DEF FrameInv, FramingTypeOK
<1>3. /\ bytes[s] \in Nat /\ taken[s] \in Nat /\ taken[s] <= bytes[s] /\ peeked[s] \in 0..HEADERSIZE
      /\ DOMAIN bytes = Streams /\ DOMAIN taken = Streams /\ DOMAIN peeked = Streams
  BY DEF FrameInv, FramingTypeOK
<1>4. Unread(s) \in Nat /\ Unread(s) = bytes[s] - taken[s]
  BY <1>3 DEF Unread
<1> QED BY <1>1, <1>2, <1>3, <1>4

LEMMA ReaderFacts ==
    ASSUME FrameInv, NEW r \in Readers
    PROVE  /\ rd[r] \in RdType /\ rd \in [Readers -> RdType]
           /\ rd[r] = [pc |-> rd[r].pc, op |-> rd[r].op, want |-> rd[r].want]
           /\ rd[r].pc \in {"head", "body"} => rd[r].op # "none"
           /\ rd[r].want \in Nat /\ StreamOf(r) \in Streams
  BY DEF FrameInv, FramingTypeOK, RdType, StreamOf, Streams

\* A reader that stands where PDU k begins finds that PDU.
LEMMA CurrentAt ==
    ASSUME FrameInv, NEW s \in Streams, NEW k \in 1..Len(out[s]), taken[s] = Offset(out[s])[k - 1]
    PROVE  Current(s) = k
<1>1. out[s] \in Seq(PDUs) /\ Len(out[s]) \in Nat /\ DOMAIN out[s] = 1..Len(out[s])
  BY FrameFacts
<1>2. k \in DOMAIN out[s] /\ Start(s, k) = taken[s]
  BY <1>1 DEF Start
<1>3. ASSUME NEW j \in DOMAIN out[s], Start(s, j) = taken[s] PROVE j = k
  <2>1. j - 1 \in 0..Len(out[s]) /\ k - 1 \in 0..Len(out[s]) /\ j \in Int /\ k \in Int
    BY <1>1
  <2>2. Offset(out[s])[j - 1] = Offset(out[s])[k - 1]
    BY <1>3 DEF Start
  <2>3. ~(j - 1 < k - 1) /\ ~(k - 1 < j - 1)
    <3>1. Offset(out[s])[j - 1] \in Nat
      BY <1>1, <2>1, OffsetType
    <3>2. ~(Offset(out[s])[j - 1] < Offset(out[s])[k - 1])
            /\ ~(Offset(out[s])[k - 1] < Offset(out[s])[j - 1])
      BY <2>2, <3>1
    <3> QED BY <1>1, <2>1, <3>2, OffsetIncreases
  <2> QED BY <2>1, <2>3
<1> QED BY <1>2, <1>3 DEF Current

\* A PDU of a stream is one of the PDUs that can be sent.
LEMMA CurrentIsSent ==
    ASSUME FrameInv, NEW s \in Streams, Current(s) # 0
    PROVE  /\ Current(s) \in 1..Len(out[s]) /\ out[s][Current(s)] \in PDUs
           /\ Start(s, Current(s)) = taken[s]
<1>1. out[s] \in Seq(PDUs) /\ Len(out[s]) \in Nat /\ DOMAIN out[s] = 1..Len(out[s])
  BY FrameFacts
<1>2. \E k \in DOMAIN out[s] : Start(s, k) = taken[s]
  BY DEF Current
<1>3. Current(s) \in DOMAIN out[s] /\ Start(s, Current(s)) = taken[s]
  BY <1>2 DEF Current
<1> QED BY <1>1, <1>3

LEMMA FirstRecvType ==
    ASSUME NEW p \in PDUs
    PROVE  /\ FirstRecv(p) \in RdType
           /\ FirstRecv(p).op = p.op /\ FirstRecv(p).op # "none" /\ FirstRecv(p).op # "garbled"
           /\ FirstRecv(p).pc \in {"head", "body"}
           /\ FirstRecv(p).pc = "head" => /\ p.op \in {"INIT", "QUIT", "JOIN", "KERNEL"}
                                          /\ FirstRecv(p).want = HEADERSIZE
           /\ FirstRecv(p).pc = "body" => FirstRecv(p).want = Size(p)
<1>1. CASE p.op \in {"INIT", "QUIT", "JOIN", "KERNEL"}
  <2>1. FirstRecv(p) = [pc |-> "head", op |-> p.op, want |-> HEADERSIZE]
    BY <1>1 DEF FirstRecv
  <2> QED BY <1>1, <2>1, FramingAssumption DEF RdType, PDUs, Ops
<1>2. CASE p.op \in {"GET", "DELETE"}
  <2>1. FirstRecv(p) = [pc |-> "body", op |-> p.op, want |-> HEADERSIZE + KEY_SIZE]
    BY <1>2 DEF FirstRecv
  <2>2. Size(p) = HEADERSIZE + KEY_SIZE
    BY <1>2 DEF Size
  <2> QED BY <1>2, <2>1, <2>2, FramingAssumption DEF RdType, PDUs, Ops
<1>3. CASE p.op = "INSERT"
  <2>1. FirstRecv(p) = [pc |-> "body", op |-> "INSERT", want |-> p.len + HEADERSIZE + KEY_SIZE]
    BY <1>3 DEF FirstRecv
  <2>2. Size(p) = HEADERSIZE + KEY_SIZE + p.len
    BY <1>3 DEF Size
  <2>3. p.len + HEADERSIZE + KEY_SIZE \in Nat
          /\ p.len + HEADERSIZE + KEY_SIZE = HEADERSIZE + KEY_SIZE + p.len
    BY FramingAssumption DEF PDUs
  <2> QED BY <1>3, <2>1, <2>2, <2>3 DEF RdType, PDUs, Ops
<1> QED BY <1>1, <1>2, <1>3 DEF PDUs, Ops

-----------------------------------------------------------------------------
(* receive_pdu, step by step. *)

LEMMA RdChange ==
    ASSUME FrameInv, NEW r \in Readers, NEW x \in RdType,
           x.pc \in {"head", "body"} => x.op # "none", rd' = [rd EXCEPT ![r] = x]
    PROVE  /\ rd' \in [Readers -> RdType] /\ rd'[r] = x
           /\ \A p \in Readers : p # r => rd'[p] = rd[p]
           /\ \A p \in Readers : rd'[p].pc \in {"head", "body"} => rd'[p].op # "none"
<1>1. rd \in [Readers -> RdType]
  BY ReaderFacts
<1>2. rd'[r] = x /\ (\A p \in Readers : p # r => rd'[p] = rd[p]) /\ rd' \in [Readers -> RdType]
  BY <1>1
<1> QED BY <1>2, ReaderFacts

LEMMA PeekKeeps ==
    ASSUME FrameInv, NEW r \in Readers, Peek(r)
    PROVE  /\ FrameInv'
           /\ \A p \in Readers : p # r => rd'[p] = rd[p]
           /\ \A s \in Streams : s # StreamOf(r) => peeked'[s] = peeked[s]
           /\ rd[r].pc = "peek"
<1> DEFINE s == StreamOf(r)
           x == IF Current(s) = 0 THEN At("lost") ELSE FirstRecv(out[s][Current(s)])
<1>1. s \in Streams
  BY ReaderFacts
<1>2. /\ rd' = [rd EXCEPT ![r] = x] /\ peeked' = [peeked EXCEPT ![s] = HEADERSIZE]
      /\ UNCHANGED <<out, bytes, taken, closed, got, short>>
  BY DEF Peek
<1>3. x \in RdType /\ (x.pc \in {"head", "body"} => x.op # "none")
  <2>1. CASE Current(s) = 0
    BY <2>1 DEF RdType, At
  <2>2. CASE Current(s) # 0
    <3>1. out[s][Current(s)] \in PDUs
      BY <1>1, <2>2, CurrentIsSent
    <3> QED BY <2>2, <3>1, FirstRecvType
  <2> QED BY <2>1, <2>2
<1> HIDE DEF x
<1>4. /\ rd' \in [Readers -> RdType]
      /\ \A p \in Readers : p # r => rd'[p] = rd[p]
      /\ \A p \in Readers : rd'[p].pc \in {"head", "body"} => rd'[p].op # "none"
  BY <1>2, <1>3, RdChange
<1>5. peeked' \in [Streams -> 0..HEADERSIZE] /\ \A p \in Streams : p # s => peeked'[p] = peeked[p]
  BY <1>1, <1>2, FramingAssumption DEF FrameInv, FramingTypeOK
<1> QED BY <1>2, <1>4, <1>5 DEF FrameInv, FramingTypeOK, RdType, Peek

LEMMA PeekInStep ==
    ASSUME FrameInv, NEW s \in Streams, InStep(s), Peek(ReaderOf(s))
    PROVE  InStep(s)'
<1> DEFINE r == ReaderOf(s)
           q == out[s]
           g == Len(got[s])
<1>1. r \in Readers /\ StreamOf(r) = s /\ rd[r].pc = "peek"
  BY DEF ReaderOf, Readers, StreamOf, Streams, Peek
<1>2. /\ q \in Seq(PDUs) /\ Len(q) \in Nat /\ g \in Nat
      /\ bytes[s] \in Nat /\ taken[s] \in Nat /\ Unread(s) = bytes[s] - taken[s]
      /\ peeked \in [Streams -> 0..HEADERSIZE] /\ rd \in [Readers -> RdType]
  BY <1>1, FrameFacts, ReaderFacts DEF FrameInv, FramingTypeOK
<1>3. /\ Unread(s) >= HEADERSIZE
      /\ rd' = [rd EXCEPT ![r] = IF Current(s) = 0 THEN At("lost") ELSE FirstRecv(q[Current(s)])]
      /\ peeked' = [peeked EXCEPT ![s] = HEADERSIZE]
      /\ UNCHANGED <<out, bytes, taken, got>>
  BY <1>1 DEF Peek
<1>4. /\ bytes[s] = Offset(q)[Len(q)] /\ g <= Len(q) /\ \A k \in 1..g : got[s][k] = q[k].op
      /\ taken[s] = Offset(q)[g]
  BY <1>1 DEF InStep
<1>5. g + 1 \in 1..Len(q) /\ (g + 1) - 1 = g
  <2>1. g # Len(q)
    BY <1>2, <1>3, <1>4, FramingAssumption
  <2> QED BY <1>2, <1>4, <2>1
<1>6. Current(s) = g + 1 /\ g + 1 # 0
  BY <1>2, <1>4, <1>5, CurrentAt
<1>7. q[g + 1] \in PDUs
  BY <1>2, <1>5
<1>8. rd'[r] = FirstRecv(q[g + 1]) /\ peeked'[s] = HEADERSIZE
  BY <1>1, <1>2, <1>3, <1>6
<1>9. Offset(q)[g + 1] = Offset(q)[g] + Size(q[g + 1])
  BY <1>2, <1>5, OffsetEquation
<1>10. /\ rd'[r].op = q[g + 1].op /\ rd'[r].op # "garbled" /\ rd'[r].pc \in {"head", "body"}
       /\ rd'[r].pc = "head" => /\ q[g + 1].op \in {"INIT", "QUIT", "JOIN", "KERNEL"}
                                /\ rd'[r].want = HEADERSIZE
       /\ rd'[r].pc = "body" => rd'[r].want = Size(q[g + 1])
  BY <1>7, <1>8, FirstRecvType
<1>11. out'[s] = q /\ got'[s] = got[s] /\ bytes'[s] = bytes[s] /\ taken'[s] = taken[s]
  BY <1>3
<1> HIDE DEF r, q, g
<1>12. g < Len(q) /\ (rd'[r].pc = "body" => taken[s] + rd'[r].want = Offset(q)[g + 1])
  BY <1>2, <1>4, <1>5, <1>9, <1>10
<1> QED BY <1>4, <1>8, <1>10, <1>11, <1>12 DEF InStep, r, q, g

\* A recv that takes n bytes.
LEMMA RecvFacts ==
    ASSUME FrameInv, NEW r \in Readers, Recv(r)
    PROVE  LET s == StreamOf(r) IN
           \E n \in Nat :
              /\ n > 0 /\ n <= rd[r].want /\ n <= Unread(s)
              /\ rd[r].want <= peeked[s] => n = rd[r].want
              /\ taken' = [taken EXCEPT ![s] = @ + n]
              /\ peeked'[s] \in 0..HEADERSIZE /\ peeked' = [peeked EXCEPT ![s] = peeked'[s]]
              /\ rd' = [rd EXCEPT ![r] = IF n = rd[r].want THEN AfterRecv(r)
                                                           ELSE [rd[r] EXCEPT !.op = Misread(rd[r].op)]]
              /\ short' = IF n = rd[r].want \/ rd[r].pc = "head" THEN short ELSE short \cup {s}
              /\ got' = IF rd'[r].pc = "done" THEN [got EXCEPT ![s] = Append(@, rd[r].op)] ELSE got
              /\ rd[r].pc \in {"head", "body"} /\ UNCHANGED <<out, bytes, closed>>
<1> DEFINE s == StreamOf(r)
           want == rd[r].want
<1>1. /\ s \in Streams /\ want \in Nat /\ Unread(s) \in Nat /\ peeked[s] \in 0..HEADERSIZE
      /\ rd \in [Readers -> RdType] /\ peeked \in [Streams -> 0..HEADERSIZE]
  BY ReaderFacts, FrameFacts DEF FrameInv, FramingTypeOK
<1>2. PICK n \in Max({1, Min({want, peeked[s]})})..Min({want, Unread(s)}) :
         /\ taken' = [taken EXCEPT ![s] = @ + n]
         /\ peeked' = [peeked EXCEPT ![s] = Max({0, @ - n})]
         /\ rd' = [rd EXCEPT ![r] = IF n = want THEN AfterRecv(r) ELSE [rd[r] EXCEPT !.op = Misread(rd[r].op)]]
         /\ short' = IF n = want \/ rd[r].pc = "head" THEN short ELSE short \cup {s}
         /\ got' = IF rd'[r].pc = "done" THEN [got EXCEPT ![s] = Append(@, rd[r].op)] ELSE got
  BY DEF Recv
<1>3. /\ Min({want, peeked[s]}) = IF want <= peeked[s] THEN want ELSE peeked[s]
      /\ Min({want, Unread(s)}) = IF want <= Unread(s) THEN want ELSE Unread(s)
  BY <1>1, FramingAssumption, MinOfTwo
<1>4. Max({1, Min({want, peeked[s]})})
        = IF 1 >= Min({want, peeked[s]}) THEN 1 ELSE Min({want, peeked[s]})
  <2> DEFINE m == Min({want, peeked[s]})
  <2>1. m \in Int /\ 1 \in Int
    BY <1>1, <1>3, FramingAssumption
  <2> HIDE DEF m
  <2>2. Max({1, m}) = IF 1 >= m THEN 1 ELSE m
    BY <2>1, MaxOfTwo
  <2> QED BY <2>2 DEF m
<1>5. /\ n \in Nat /\ n > 0 /\ n <= want /\ n <= Unread(s)
      /\ want <= peeked[s] => n = want
  BY <1>1, <1>2, <1>3, <1>4, FramingAssumption
<1>6. peeked'[s] = Max({0, peeked[s] - n})
  BY <1>1, <1>2
<1>7. peeked'[s] \in 0..HEADERSIZE
  <2>1. peeked[s] - n \in Int
    BY <1>1, <1>5, FramingAssumption
  <2>2. Max({0, peeked[s] - n}) = IF 0 >= peeked[s] - n THEN 0 ELSE peeked[s] - n
    BY <2>1, MaxOfTwo
  <2> QED BY <1>1, <1>5, <1>6, <2>2, FramingAssumption
<1>8. peeked' = [peeked EXCEPT ![s] = peeked'[s]]
  BY <1>1, <1>2, <1>6
<1>9. rd[r].pc \in {"head", "body"} /\ UNCHANGED <<out, bytes, closed>>
  BY DEF Recv
<1> QED BY <1>2, <1>5, <1>7, <1>8, <1>9

\* A misread PDU has an operation, its own or that of garbled data.
LEMMA MisreadType ==
    ASSUME NEW op \in Ops \cup {"none", "garbled"}
    PROVE  Misread(op) \in Ops \cup {"garbled"} /\ Misread(op) # "none"
  BY DEF Misread, Ops

LEMMA AfterRecvType ==
    ASSUME FrameInv, NEW r \in Readers, rd[r].pc \in {"head", "body"}
    PROVE  /\ AfterRecv(r) \in RdType
           /\ AfterRecv(r).pc \in {"head", "body"} => AfterRecv(r).op # "none"
<1> DEFINE s == StreamOf(r)
           Unusable == rd[r].op = "garbled" \/ (rd[r].op \in {"JOIN", "KERNEL"} /\ Current(s) = 0)
<1>1. /\ s \in Streams /\ rd[r] \in RdType /\ rd[r].op # "none"
      /\ rd[r] = [pc |-> rd[r].pc, op |-> rd[r].op, want |-> rd[r].want]
  BY ReaderFacts
<1>2. CASE rd[r].pc = "head" /\ Unusable
  BY <1>2 DEF AfterRecv, At, RdType
<1>3. CASE ~(rd[r].pc = "head" /\ Unusable)
           /\ rd[r].pc = "head" /\ rd[r].op \in {"JOIN", "KERNEL"}
  <2>1. AfterRecv(r) = [rd[r] EXCEPT !.pc = "body", !.want = out[s][Current(s)].len]
    BY <1>3 DEF AfterRecv
  <2>2. out[s][Current(s)].len \in Nat
    BY <1>1, <1>3, CurrentIsSent DEF PDUs
  <2>3. AfterRecv(r) = [pc |-> "body", op |-> rd[r].op, want |-> out[s][Current(s)].len]
    BY <1>1, <2>1
  <2> QED BY <1>1, <2>2, <2>3 DEF RdType
<1>4. CASE ~(rd[r].pc = "head" /\ Unusable)
           /\ ~(rd[r].pc = "head" /\ rd[r].op \in {"JOIN", "KERNEL"})
  <2>1. AfterRecv(r) = [rd[r] EXCEPT !.pc = "done", !.want = 0]
    BY <1>4 DEF AfterRecv
  <2>2. AfterRecv(r) = [pc |-> "done", op |-> rd[r].op, want |-> 0]
    BY <1>1, <2>1
  <2> QED BY <1>1, <2>2 DEF RdType
<1> QED BY <1>2, <1>3, <1>4

LEMMA RecvKeeps ==
    ASSUME FrameInv, NEW r \in Readers, Recv(r)
    PROVE  /\ FrameInv'
           /\ \A p \in Readers : p # r => rd'[p] = rd[p]
           /\ \A s \in Streams : s # StreamOf(r) =>
                 taken'[s] = taken[s] /\ peeked'[s] = peeked[s] /\ got'[s] = got[s]
           /\ short \subseteq short' /\ short' \subseteq short \cup {StreamOf(r)}
           /\ rd[r].pc \in {"head", "body"}
<1> DEFINE s == StreamOf(r)
<1>1. PICK n \in Nat :
         /\ n > 0 /\ n <= rd[r].want /\ n <= Unread(s)
         /\ taken' = [taken EXCEPT ![s] = @ + n]
         /\ peeked'[s] \in 0..HEADERSIZE /\ peeked' = [peeked EXCEPT ![s] = peeked'[s]]
         /\ rd' = [rd EXCEPT ![r] = IF n = rd[r].want THEN AfterRecv(r)
                                                      ELSE [rd[r] EXCEPT !.op = Misread(rd[r].op)]]
         /\ short' = IF n = rd[r].want \/ rd[r].pc = "head" THEN short ELSE short \cup {s}
         /\ got' = IF rd'[r].pc = "done" THEN [got EXCEPT ![s] = Append(@, rd[r].op)] ELSE got
         /\ rd[r].pc \in {"head", "body"} /\ UNCHANGED <<out, bytes, closed>>
  BY RecvFacts
<1>2. /\ s \in Streams /\ rd[r] \in RdType /\ rd[r].op # "none" /\ rd[r].pc \in {"head", "body"}
      /\ rd[r] = [pc |-> rd[r].pc, op |-> rd[r].op, want |-> rd[r].want]
  BY <1>1, ReaderFacts
<1> DEFINE x == IF n = rd[r].want THEN AfterRecv(r) ELSE [rd[r] EXCEPT !.op = Misread(rd[r].op)]
<1>3. x \in RdType /\ (x.pc \in {"head", "body"} => x.op # "none")
  <2>1. CASE n = rd[r].want
    BY <1>2, <2>1, AfterRecvType
  <2>2. CASE n # rd[r].want
    <3>1. x = [pc |-> rd[r].pc, op |-> Misread(rd[r].op), want |-> rd[r].want]
      BY <1>2, <2>2
    <3>2. rd[r].op \in Ops \cup {"none", "garbled"}
      BY <1>2 DEF RdType
    <3> QED BY <1>2, <3>1, <3>2, MisreadType DEF RdType
  <2> QED BY <2>1, <2>2
<1>4. rd' = [rd EXCEPT ![r] = x]
  BY <1>1
<1> HIDE DEF x
<1>5. /\ rd' \in [Readers -> RdType]
      /\ \A p \in Readers : p # r => rd'[p] = rd[p]
      /\ \A p \in Readers : rd'[p].pc \in {"head", "body"} => rd'[p].op # "none"
  BY <1>3, <1>4, RdChange
<1>6. /\ taken' \in [Streams -> Nat] /\ \A p \in Streams : taken'[p] <= bytes[p]
      /\ \A p \in Streams : p # s => taken'[p] = taken[p]
  <2>1. taken \in [Streams -> Nat] /\ bytes \in [Streams -> Nat]
          /\ \A p \in Streams : taken[p] <= bytes[p]
    BY DEF FrameInv, FramingTypeOK
  <2>2. taken'[s] = taken[s] + n /\ \A p \in Streams : p # s => taken'[p] = taken[p]
    BY <1>1, <1>2, <2>1
  <2>3. n <= bytes[s] - taken[s]
    BY <1>1 DEF Unread
  <2>4. taken' \in [Streams -> Nat]
    BY <1>1, <1>2, <2>1
  <2>5. taken'[s] <= bytes[s]
    BY <1>2, <2>1, <2>2, <2>3
  <2> QED BY <2>1, <2>2, <2>4, <2>5
<1>7. peeked' \in [Streams -> 0..HEADERSIZE] /\ \A p \in Streams : p # s => peeked'[p] = peeked[p]
  <2>1. peeked \in [Streams -> 0..HEADERSIZE]
    BY DEF FrameInv, FramingTypeOK
  <2>2. PICK y \in 0..HEADERSIZE : peeked' = [peeked EXCEPT ![s] = y]
    BY <1>1
  <2> QED BY <1>2, <2>1, <2>2
<1>8. got' \in [Streams -> Seq(Ops \cup {"garbled"})] /\ \A p \in Streams : p # s => got'[p] = got[p]
  <2>1. got \in [Streams -> Seq(Ops \cup {"garbled"})]
    BY DEF FrameInv, FramingTypeOK
  <2>2. rd[r].op \in Ops \cup {"garbled"}
    BY <1>2 DEF RdType
  <2>3. got[s] \in Seq(Ops \cup {"garbled"})
    BY <1>2, <2>1
  <2>4. Append(got[s], rd[r].op) \in Seq(Ops \cup {"garbled"})
    BY <2>2, <2>3
  <2>5. CASE rd'[r].pc = "done"
    <3>1. got' = [got EXCEPT ![s] = Append(got[s], rd[r].op)]
      BY <1>1, <2>5
    <3> QED BY <1>2, <2>1, <2>4, <3>1
  <2>6. CASE rd'[r].pc # "done"
    BY <1>1, <2>1, <2>6
  <2> QED BY <2>5, <2>6
<1>9. short \subseteq short' /\ short' \subseteq short \cup {s} /\ short' \subseteq Streams
  BY <1>1, <1>2 DEF FrameInv, FramingTypeOK
<1>10. out' = out /\ bytes' = bytes /\ closed' = closed
  BY <1>1
<1>11. FramingTypeOK'
  BY <1>5, <1>6, <1>7, <1>8, <1>9, <1>10 DEF FrameInv, FramingTypeOK, RdType
<1> QED BY <1>2, <1>5, <1>6, <1>7, <1>8, <1>9, <1>10, <1>11 DEF FrameInv

\* A recv on a stream that is still in step keeps it in step, unless it is a recv
\* inside a PDU that returns less than the rest of it.
LEMMA RecvInStep ==
    ASSUME FrameInv, NEW s \in Streams, InStep(s), Recv(ReaderOf(s)), s \notin short'
    PROVE  InStep(s)'
<1> DEFINE r == ReaderOf(s)
           q == out[s]
           g == Len(got[s])
<1>1. r \in Readers /\ StreamOf(r) = s
  BY DEF ReaderOf, Readers, StreamOf, Streams
<1>2. PICK n \in Nat :
         /\ n > 0 /\ n <= rd[r].want /\ n <= Unread(s)
         /\ rd[r].want <= peeked[s] => n = rd[r].want
         /\ taken' = [taken EXCEPT ![s] = @ + n]
         /\ rd' = [rd EXCEPT ![r] = IF n = rd[r].want THEN AfterRecv(r)
                                                      ELSE [rd[r] EXCEPT !.op = Misread(rd[r].op)]]
         /\ short' = IF n = rd[r].want \/ rd[r].pc = "head" THEN short ELSE short \cup {s}
         /\ got' = IF rd'[r].pc = "done" THEN [got EXCEPT ![s] = Append(@, rd[r].op)] ELSE got
         /\ rd[r].pc \in {"head", "body"} /\ UNCHANGED <<out, bytes, closed>>
  BY <1>1, RecvFacts
<1>3. /\ q \in Seq(PDUs) /\ Len(q) \in Nat /\ g \in Nat /\ got[s] \in Seq(Ops \cup {"garbled"})
      /\ bytes[s] \in Nat /\ taken[s] \in Nat
      /\ taken \in [Streams -> Nat] /\ rd \in [Readers -> RdType]
      /\ got \in [Streams -> Seq(Ops \cup {"garbled"})] /\ rd[r].want \in Nat
      /\ rd[r] = [pc |-> rd[r].pc, op |-> rd[r].op, want |-> rd[r].want] /\ rd[r] \in RdType
  BY <1>1, FrameFacts, ReaderFacts DEF FrameInv, FramingTypeOK
<1>4. /\ bytes[s] = Offset(q)[Len(q)] /\ g <= Len(q) /\ \A k \in 1..g : got[s][k] = q[k].op
      /\ g < Len(q) /\ rd[r].op = q[g + 1].op /\ rd[r].op # "garbled"
  BY <1>2 DEF InStep
<1>5. g + 1 \in 1..Len(q) /\ (g + 1) - 1 = g /\ q[g + 1] \in PDUs
  BY <1>3, <1>4
<1>6. n = rd[r].want
  <2>1. CASE rd[r].pc = "head"
    <3>1. rd[r].want = HEADERSIZE /\ peeked[s] = HEADERSIZE
      BY <2>1 DEF InStep
    <3> QED BY <1>2, <3>1, FramingAssumption
  <2>2. CASE rd[r].pc # "head"
    BY <1>2, <2>2
  <2> QED BY <2>1, <2>2
<1>7. rd'[r] = AfterRecv(r) /\ taken'[s] = taken[s] + n
  <2>1. rd' = [rd EXCEPT ![r] = AfterRecv(r)]
    BY <1>2, <1>6
  <2> QED BY <1>1, <1>2, <1>3, <2>1
<1>8. Offset(q)[g + 1] = Offset(q)[g] + Size(q[g + 1])
  BY <1>3, <1>5, OffsetEquation
<1>9. out'[s] = q /\ bytes'[s] = bytes[s]
  BY <1>2
\* What is left to show when the PDU has been read.
<1>10. ASSUME AfterRecv(r) = [rd[r] EXCEPT !.pc = "done", !.want = 0],
              taken[s] + n = Offset(q)[g + 1]
       PROVE  InStep(s)'
  <2>1. rd'[r] = [pc |-> "done", op |-> rd[r].op, want |-> 0]
    BY <1>3, <1>7, <1>10
  <2>2. got'[s] = Append(got[s], rd[r].op)
    <3>1. got' = [got EXCEPT ![s] = Append(got[s], rd[r].op)]
      BY <1>2, <2>1
    <3> QED BY <1>3, <3>1
  <2>3. /\ Len(got'[s]) = g + 1 /\ got'[s][g + 1] = q[g + 1].op
        /\ \A k \in 1..g : got'[s][k] = got[s][k]
    <3>1. rd[r].op \in Ops \cup {"none", "garbled"}
      BY <1>3 DEF RdType
    <3> QED BY <1>3, <1>4, <2>2, <3>1
  <2>4. \A k \in 1..(g + 1) : got'[s][k] = q[k].op
    <3> TAKE k \in 1..(g + 1)
    <3>1. k = g + 1 \/ k \in 1..g
      BY <1>3
    <3> QED BY <1>4, <2>3, <3>1
  <2>5. taken'[s] = Offset(q)[g + 1] /\ g + 1 <= Len(q)
    BY <1>3, <1>5, <1>7, <1>10
  <2>6. rd'[r].pc = "done" /\ rd'[r].op # "garbled"
    BY <1>4, <2>1
  <2> HIDE DEF r, q, g
  <2> QED BY <1>4, <1>9, <2>3, <2>4, <2>5, <2>6 DEF InStep, r, q
<1>11. CASE rd[r].pc = "head"
  <2>1. /\ taken[s] = Offset(q)[g] /\ rd[r].want = HEADERSIZE
        /\ rd[r].op \in {"INIT", "QUIT", "JOIN", "KERNEL"}
    BY <1>11 DEF InStep
  <2>2. Current(s) = g + 1 /\ g + 1 # 0
    BY <1>3, <1>5, <2>1, CurrentAt
  <2>3. CASE rd[r].op \in {"JOIN", "KERNEL"}
    <3>1. AfterRecv(r) = [rd[r] EXCEPT !.pc = "body", !.want = out[s][Current(s)].len]
      BY <1>1, <1>4, <1>11, <2>2, <2>3 DEF AfterRecv
    <3>2. rd'[r] = [pc |-> "body", op |-> rd[r].op, want |-> q[g + 1].len]
      BY <1>3, <1>7, <2>2, <3>1
    <3>3. Size(q[g + 1]) = HEADERSIZE + q[g + 1].len
      BY <1>4, <2>3 DEF Size
    <3>4. taken'[s] + q[g + 1].len = Offset(q)[g + 1]
      BY <1>3, <1>5, <1>6, <1>7, <1>8, <2>1, <3>3, FramingAssumption DEF PDUs
    <3>5. got'[s] = got[s]
      BY <1>2, <3>2
    <3>6. rd'[r].pc = "body" /\ rd'[r].op = rd[r].op /\ rd'[r].want = q[g + 1].len
      BY <3>2
    <3> HIDE DEF r, q, g
    <3> QED BY <1>4, <1>9, <3>4, <3>5, <3>6 DEF InStep, r, q, g
  <2>4. CASE rd[r].op \in {"INIT", "QUIT"}
    <3>1. AfterRecv(r) = [rd[r] EXCEPT !.pc = "done", !.want = 0]
      BY <1>1, <1>4, <1>11, <2>2, <2>4 DEF AfterRecv
    <3>2. Size(q[g + 1]) = HEADERSIZE
      BY <1>4, <2>4 DEF Size
    <3>3. taken[s] + n = Offset(q)[g + 1]
      BY <1>6, <1>8, <2>1, <3>2
    <3> QED BY <1>10, <3>1, <3>3
  <2> QED BY <2>1, <2>3, <2>4
<1>12. CASE rd[r].pc = "body"
  <2>1. AfterRecv(r) = [rd[r] EXCEPT !.pc = "done", !.want = 0]
    BY <1>12 DEF AfterRecv
  <2>2. taken[s] + n = Offset(q)[g + 1]
    BY <1>6, <1>12 DEF InStep
  <2> QED BY <1>10, <2>1, <2>2
<1> QED BY <1>2, <1>11, <1>12

LEMMA ReceiveKeeps ==
    ASSUME FrameInv, NEW r \in Readers, NEW bad \in BOOLEAN, receive_pdu(r, bad)
    PROVE  /\ FrameInv'
           /\ \A p \in Readers : p # r => rd'[p] = rd[p]
           /\ \A s \in Streams : s # StreamOf(r) =>
                 taken'[s] = taken[s] /\ peeked'[s] = peeked[s] /\ got'[s] = got[s]
           /\ short \subseteq short' /\ short' \subseteq short \cup {StreamOf(r)}
           /\ bad => taken' = taken
           /\ UNCHANGED <<out, bytes, closed>>
           /\ rd[r].pc \in {"peek", "head", "body"}
<1> DEFINE s == StreamOf(r)
<1>0. s \in Streams /\ rd \in [Readers -> RdType]
  BY ReaderFacts
<1>1. CASE ~bad /\ Peek(r)
  <2>1. UNCHANGED <<out, bytes, taken, closed, got, short>>
    BY <1>1 DEF Peek
  <2> QED BY <1>1, <2>1, PeekKeeps
<1>2. CASE ~bad /\ Recv(r)
  <2>1. UNCHANGED <<out, bytes, closed>>
    BY <1>2 DEF Recv
  <2> QED BY <1>2, <2>1, RecvKeeps
<1>3. CASE PeekEnd(r, bad)
  <2>1. PICK x \in {At("eof"), At("null")} : rd' = [rd EXCEPT ![r] = x]
    BY <1>3 DEF PeekEnd
  <2>2. rd[r].pc = "peek" /\ UNCHANGED <<out, bytes, taken, peeked, closed, got, short>>
    BY <1>3 DEF PeekEnd
  <2>3. x \in RdType /\ x.pc \notin {"head", "body"}
    BY DEF RdType, At
  <2>4. /\ rd' \in [Readers -> RdType] /\ \A p \in Readers : p # r => rd'[p] = rd[p]
        /\ \A p \in Readers : rd'[p].pc \in {"head", "body"} => rd'[p].op # "none"
    BY <2>1, <2>3, RdChange
  <2> QED BY <2>2, <2>4 DEF FrameInv, FramingTypeOK, RdType
<1>4. CASE RecvError(r, bad)
  <2> DEFINE x == [pc |-> "done", op |-> Misread(rd[r].op), want |-> 0]
  <2>1. /\ rd' = [rd EXCEPT ![r] = x] /\ rd[r].pc \in {"head", "body"}
        /\ taken' = IF bad THEN taken ELSE [taken EXCEPT ![s] = @ + Unread(s)]
        /\ peeked' = [peeked EXCEPT ![s] = 0]
        /\ UNCHANGED <<out, bytes, closed, got, short>>
    BY <1>4 DEF RecvError
  <2>2. x \in RdType /\ x.pc \notin {"head", "body"}
    <3>1. rd[r].op \in Ops \cup {"none", "garbled"}
      BY <1>0 DEF RdType
    <3> QED BY <3>1, MisreadType DEF RdType
  <2> HIDE DEF x
  <2>3. /\ rd' \in [Readers -> RdType] /\ \A p \in Readers : p # r => rd'[p] = rd[p]
        /\ \A p \in Readers : rd'[p].pc \in {"head", "body"} => rd'[p].op # "none"
    BY <2>1, <2>2, RdChange
  <2>4. peeked' \in [Streams -> 0..HEADERSIZE] /\ \A p \in Streams : p # s => peeked'[p] = peeked[p]
    BY <1>0, <2>1, FramingAssumption DEF FrameInv, FramingTypeOK
  <2>5. /\ taken' \in [Streams -> Nat] /\ \A p \in Streams : taken'[p] <= bytes[p]
        /\ \A p \in Streams : p # s => taken'[p] = taken[p]
    <3>1. taken \in [Streams -> Nat] /\ bytes \in [Streams -> Nat]
            /\ \A p \in Streams : taken[p] <= bytes[p]
      BY DEF FrameInv, FramingTypeOK
    <3>2. CASE bad
      BY <2>1, <3>1, <3>2
    <3>3. CASE ~bad
      <4>1. taken' = [taken EXCEPT ![s] = taken[s] + (bytes[s] - taken[s])]
        BY <2>1, <3>3 DEF Unread
      <4>2. taken[s] + (bytes[s] - taken[s]) = bytes[s] /\ bytes[s] \in Nat /\ bytes[s] <= bytes[s]
        BY <1>0, <3>1
      <4> QED BY <1>0, <3>1, <4>1, <4>2
    <3> QED BY <3>2, <3>3
  <2>6. bad => taken' = taken
    BY <2>1
  <2> QED BY <2>1, <2>3, <2>4, <2>5, <2>6 DEF FrameInv, FramingTypeOK, RdType
<1> QED BY <1>1, <1>2, <1>3, <1>4 DEF receive_pdu

-----------------------------------------------------------------------------
(* What keeps a stream in step. *)

LEMMA SameInStep ==
    ASSUME NEW s \in Streams, InStep(s),
           out'[s] = out[s], bytes'[s] = bytes[s], taken'[s] = taken[s],
           peeked'[s] = peeked[s], got'[s] = got[s], rd'[ReaderOf(s)] = rd[ReaderOf(s)]
    PROVE  InStep(s)'
  BY DEF InStep

\* Between two PDUs.
LEMMA RestInStep ==
    ASSUME NEW s \in Streams, InStep(s),
           out'[s] = out[s], bytes'[s] = bytes[s], taken'[s] = taken[s], got'[s] = got[s],
           rd[ReaderOf(s)].pc \in {"idle", "peek", "done", "eof", "null"},
           rd'[ReaderOf(s)].pc \in {"idle", "peek", "done", "eof", "null"},
           rd'[ReaderOf(s)].op # "garbled"
    PROVE  InStep(s)'
  BY DEF InStep

LEMMA ReceiveInStep ==
    ASSUME FrameInv, NEW s \in Streams, InStep(s), ~Reset(s),
           receive_pdu(ReaderOf(s), FALSE), s \notin short'
    PROVE  InStep(s)'
<1> DEFINE r == ReaderOf(s)
<1>1. r \in Readers /\ StreamOf(r) = s /\ rd \in [Readers -> RdType]
  BY ReaderFacts DEF ReaderOf, Readers, StreamOf, Streams
<1>2. CASE Peek(r)
  BY <1>2, PeekInStep
<1>3. CASE Recv(r)
  BY <1>3, RecvInStep
<1>4. CASE PeekEnd(r, FALSE)
  <2>1. /\ rd' = [rd EXCEPT ![r] = At("eof")] /\ rd[r].pc = "peek"
        /\ UNCHANGED <<out, bytes, taken, peeked, got>>
    BY <1>1, <1>4 DEF PeekEnd
  <2>2. rd'[r].pc = "eof" /\ rd'[r].op = "none"
    BY <1>1, <2>1 DEF At
  <2> QED BY <2>1, <2>2, RestInStep
<1>5. ~RecvError(r, FALSE)
  BY <1>1 DEF RecvError
<1> QED BY <1>2, <1>3, <1>4, <1>5 DEF receive_pdu

LEMMA SendKeeps ==
    ASSUME FrameInv, NEW s \in Streams, NEW op \in Ops, NEW len \in Nat, send_pdu(s, op, len),
           UNCHANGED <<taken, peeked, closed, got, short>>, rd' \in [Readers -> RdType],
           \A p \in Readers : rd'[p].pc \in {"head", "body"} => rd'[p].op # "none"
    PROVE  /\ FrameInv'
           /\ out'[s] = Append(out[s], [op |-> op, len |-> len])
           /\ bytes'[s] = bytes[s] + Size([op |-> op, len |-> len])
           /\ bytes'[s] >= bytes[s]
           /\ \A p \in Streams : p # s => out'[p] = out[p] /\ bytes'[p] = bytes[p]
<1> DEFINE pdu == [op |-> op, len |-> len]
<1>1. pdu \in PDUs
  BY DEF PDUs
<1>2. out' = [out EXCEPT ![s] = Append(@, pdu)] /\ bytes' = [bytes EXCEPT ![s] = @ + Size(pdu)]
  BY DEF send_pdu
<1> HIDE DEF pdu
<1>3. Size(pdu) \in Nat
  BY <1>1, SizePositive
<1>4. out \in [Streams -> Seq(PDUs)] /\ bytes \in [Streams -> Nat] /\ taken \in [Streams -> Nat]
        /\ \A p \in Streams : taken[p] <= bytes[p]
  BY DEF FrameInv, FramingTypeOK, PDUs
<1>5. Append(out[s], pdu) \in Seq(PDUs)
  <2>1. out[s] \in Seq(PDUs)
    BY <1>4
  <2> QED BY <1>1, <2>1
<1>6. /\ out' \in [Streams -> Seq(PDUs)] /\ out'[s] = Append(out[s], pdu)
      /\ \A p \in Streams : p # s => out'[p] = out[p]
  BY <1>2, <1>4, <1>5
<1>7. /\ bytes' \in [Streams -> Nat] /\ bytes'[s] = bytes[s] + Size(pdu) /\ bytes'[s] >= bytes[s]
      /\ \A p \in Streams : p # s => bytes'[p] = bytes[p]
  BY <1>2, <1>3, <1>4
<1>8. ASSUME NEW p \in Streams PROVE taken[p] <= bytes'[p]
  <2>1. taken[p] \in Nat /\ bytes[p] \in Nat /\ bytes'[p] \in Nat /\ taken[p] <= bytes[p]
    BY <1>4, <1>7
  <2>2. p = s \/ bytes'[p] = bytes[p]
    BY <1>7
  <2>3. bytes'[s] >= bytes[s]
    BY <1>7
  <2> QED BY <2>1, <2>2, <2>3
<1>9. FramingTypeOK'
  BY <1>6, <1>7 DEF FrameInv, FramingTypeOK, PDUs, RdType
<1> QED BY <1>6, <1>7, <1>8, <1>9 DEF FrameInv, pdu

LEMMA SendInStep ==
    ASSUME FrameInv, NEW s \in Streams, InStep(s), NEW op \in Ops, NEW len \in Nat,
           send_pdu(s, op, len), UNCHANGED <<taken, peeked, got>>,
           rd'[ReaderOf(s)] = rd[ReaderOf(s)]
    PROVE  InStep(s)'
<1> DEFINE pdu == [op |-> op, len |-> len]
           q == out[s]
           g == Len(got[s])
           r == rd[ReaderOf(s)]
<1>1. pdu \in PDUs
  BY DEF PDUs
<1>2. q \in Seq(PDUs) /\ Len(q) \in Nat /\ g \in Nat
  BY FrameFacts
<1>3. out'[s] = Append(q, pdu) /\ bytes'[s] = bytes[s] + Size(pdu)
  BY DEF send_pdu, FrameInv, FramingTypeOK
<1> HIDE DEF pdu
<1>4. Len(out'[s]) = Len(q) + 1 /\ \A k \in 1..Len(q) : out'[s][k] = q[k]
  BY <1>1, <1>2, <1>3
<1>5. /\ \A j \in 0..Len(q) : Offset(out'[s])[j] = Offset(q)[j]
      /\ Offset(out'[s])[Len(q) + 1] = Offset(q)[Len(q)] + Size(pdu)
  BY <1>1, <1>2, <1>3, OffsetAppend
<1>6. taken'[s] = taken[s] /\ got'[s] = got[s] /\ peeked'[s] = peeked[s]
        /\ rd'[ReaderOf(s)] = r
  OBVIOUS
<1>7. /\ bytes[s] = Offset(q)[Len(q)]
      /\ g <= Len(q) /\ \A k \in 1..g : got[s][k] = q[k].op
      /\ r.pc # "lost" /\ r.op # "garbled"
      /\ r.pc \in {"idle", "peek", "done", "eof", "null"} => taken[s] = Offset(q)[g]
      /\ r.pc = "head" => /\ g < Len(q) /\ taken[s] = Offset(q)[g]
                          /\ r.op = q[g + 1].op /\ r.op \in {"INIT", "QUIT", "JOIN", "KERNEL"}
                          /\ r.want = HEADERSIZE /\ peeked[s] = HEADERSIZE
      /\ r.pc = "body" => /\ g < Len(q) /\ taken[s] + r.want = Offset(q)[g + 1]
                          /\ r.op = q[g + 1].op
  BY DEF InStep
<1>8. g \in 0..Len(q) /\ (g < Len(q) => g + 1 \in 1..Len(q) /\ g + 1 \in 0..Len(q))
        /\ Len(q) \in 0..Len(q) /\ g <= Len(q) + 1 /\ (g < Len(q) => g < Len(q) + 1)
  BY <1>2, <1>7
<1>9. bytes'[s] = Offset(out'[s])[Len(out'[s])]
  BY <1>3, <1>4, <1>5, <1>7
<1>10. \A k \in 1..g : got'[s][k] = out'[s][k].op
  <2> TAKE k \in 1..g
  <2>1. k \in 1..Len(q)
    BY <1>2, <1>7
  <2> QED BY <1>4, <1>6, <1>7, <2>1
<1>11. /\ Offset(out'[s])[g] = Offset(q)[g]
       /\ g < Len(q) => /\ Offset(out'[s])[g + 1] = Offset(q)[g + 1]
                        /\ out'[s][g + 1] = q[g + 1]
  BY <1>4, <1>5, <1>8
<1> HIDE DEF q, g, r
<1> QED BY <1>4, <1>6, <1>7, <1>8, <1>9, <1>10, <1>11 DEF InStep, q, g, r

\* What is broken stays broken, except when the server ends.
LEMMA FollowedBefore ==
    ASSUME NEW s \in Streams, Followed(s)', closed \subseteq closed', short \subseteq short',
           met => met', sock' => sock, srv = "gone" => srv' = "gone",
           s \in closed /\ Unread(Back(s)) > 0 => Unread(Back(s))' > 0
    PROVE  Followed(s) /\ ~Reset(s) /\ s \notin short'
<1>1. ~Broken(s)' /\ ~(s = "up" /\ srv' = "gone")
  BY DEF Followed
<1>2. s \notin short' /\ ~Reset(s)' /\ ~(s = "down" /\ (met' \/ ~sock'))
  BY <1>1 DEF Broken
<1>3. ~Reset(s)
  BY <1>2 DEF Reset
<1>4. ~Broken(s)
  BY <1>2, <1>3 DEF Broken
<1> QED BY <1>1, <1>2, <1>3, <1>4 DEF Followed

-----------------------------------------------------------------------------
(* The steps of the specification, by what they do to the connection. *)

\* What is broken for the client stays broken.
StaysBroken == Broken("down") => Broken("down")'

LEMMA InvParts ==
    ASSUME SessionInv
    PROVE  /\ FrameInv /\ EndsInv /\ StepInv /\ FramingTypeOK
           /\ sock \in BOOLEAN /\ met \in BOOLEAN
           /\ rd \in [Readers -> RdType]
           /\ \A p \in Readers : rd[p].pc \in {"head", "body"} => rd[p].op # "none"
           /\ \A s \in Streams : Unread(s) \in Nat
<1>1. FrameInv /\ EndsInv /\ StepInv /\ FramingTypeOK /\ sock \in BOOLEAN /\ met \in BOOLEAN
  BY DEF SessionInv, FrameInv, EndsInv
<1> QED BY <1>1, ReaderFacts, FrameFacts DEF Readers

\* Steps that leave the connection alone.
LEMMA LocalStep ==
    ASSUME SessionInv, UNCHANGED <<fvars, sock, srv>>, met => met', met' \in BOOLEAN,
           ~met' => cpc' \notin SixPcs, lpc' # "recv" => lpc # "recv"
    PROVE  SessionInv' /\ StaysBroken
<1>1. FrameInv'
  BY InvParts DEF FrameInv, FramingTypeOK, fvars
<1>2. EndsInv'
  BY InvParts DEF EndsInv, fvars
<1>3. ASSUME NEW s \in Streams, Followed(s)' PROVE Followed(s) /\ InStep(s)'
  <2>1. Unread(Back(s))' = Unread(Back(s))
    BY DEF Unread, fvars
  <2>2. Followed(s)
    BY <1>3, <2>1, FollowedBefore DEF fvars
  <2> SUFFICES InStep(s)'
    BY <2>2
  <2>3. InStep(s)
    BY <2>2, InvParts DEF StepInv
  <2> QED BY <2>3, SameInStep DEF fvars
<1> QED BY <1>1, <1>2, <1>3 DEF SessionInv, StepInv, StaysBroken, Followed, Streams

\* The client's process lays down a PDU on the stream to the server; only
\* TEST_INT_INSERT also starts to read.
LEMMA ClientSends ==
    ASSUME SessionInv, NEW op \in Ops, NEW len \in Nat, Send(op, len),
           UNCHANGED <<taken, peeked, closed, got, short, sock, srv, met, lpc>>,
           rd' = rd \/ (met /\ rd' = [rd EXCEPT !["main"] = At("peek")]),
           ~met => cpc' \notin SixPcs
    PROVE  SessionInv' /\ StaysBroken
<1>1. /\ rd' \in [Readers -> RdType]
      /\ \A p \in Readers : rd'[p].pc \in {"head", "body"} => rd'[p].op # "none"
      /\ rd'["server"] = rd["server"] /\ rd'["listen"] = rd["listen"]
      /\ ~met => rd'["main"] = rd["main"]
  <2>1. CASE rd' = rd
    BY <2>1, InvParts
  <2>2. CASE met /\ rd' = [rd EXCEPT !["main"] = At("peek")]
    <3>1. At("peek") \in RdType /\ At("peek").pc \notin {"head", "body"} /\ "main" \in Readers
      BY DEF At, RdType, Readers
    <3>2. /\ rd' \in [Readers -> RdType] /\ \A p \in Readers : p # "main" => rd'[p] = rd[p]
          /\ \A p \in Readers : rd'[p].pc \in {"head", "body"} => rd'[p].op # "none"
      BY <2>2, <3>1, RdChange, InvParts
    <3> QED BY <2>2, <3>2 DEF Readers
  <2> QED BY <2>1, <2>2
<1>2. /\ FrameInv'
      /\ Unread("down")' = Unread("down") /\ Unread("up")' >= Unread("up")
      /\ out'["down"] = out["down"] /\ bytes'["down"] = bytes["down"]
  <2>0. "up" \in Streams /\ "down" \in Streams /\ "up" # "down"
    BY DEF Streams
  <2>1. CASE sock
    <3>1. send_pdu("up", op, len)
      BY <2>1 DEF Send
    <3>2. /\ FrameInv' /\ bytes'["up"] >= bytes["up"]
          /\ out'["down"] = out["down"] /\ bytes'["down"] = bytes["down"]
      BY <1>1, <2>0, <3>1, SendKeeps, InvParts
    <3>3. bytes["up"] \in Nat /\ bytes'["up"] \in Nat /\ taken["up"] \in Nat
      BY <2>0, <3>2, InvParts DEF FrameInv, FramingTypeOK
    <3> QED BY <3>2, <3>3 DEF Unread
  <2>2. CASE ~sock
    <3>1. out' = out /\ bytes' = bytes
      BY <2>2 DEF Send
    <3>2. FrameInv'
      BY <1>1, <3>1, InvParts DEF FrameInv, FramingTypeOK, RdType
    <3>3. Unread("up") \in Nat
      BY <2>0, InvParts
    <3> QED BY <3>1, <3>2, <3>3 DEF Unread
  <2> QED BY <2>1, <2>2, InvParts
<1>3. EndsInv'
  BY <1>1, InvParts DEF EndsInv
<1>4. ASSUME NEW s \in Streams, Followed(s)' PROVE Followed(s) /\ InStep(s)'
  <2>1. Unread(Back(s)) > 0 => Unread(Back(s))' > 0
    <3>1. Back(s) \in {"up", "down"} /\ Unread(Back(s)) \in Nat
      BY InvParts DEF Back, Streams
    <3>2. Unread("up")' \in Nat /\ Unread("up") \in Nat
      <4>1. "up" \in Streams /\ FrameInv'
        BY <1>2 DEF Streams
      <4>2. bytes'["up"] \in Nat /\ taken'["up"] \in Nat /\ taken'["up"] <= bytes'["up"]
        BY <4>1 DEF FrameInv, FramingTypeOK
      <4> QED BY <4>1, <4>2, InvParts, FrameFacts DEF Unread
    <3>3. CASE Back(s) = "up"
      BY <1>2, <3>2, <3>3
    <3>4. CASE Back(s) = "down"
      BY <1>2, <3>4
    <3> QED BY <3>1, <3>3, <3>4
  <2>2. Followed(s)
    BY <1>4, <2>1, FollowedBefore
  <2> SUFFICES InStep(s)'
    BY <2>2
  <2>3. InStep(s)
    BY <2>2, InvParts DEF StepInv
  <2>4. rd'[ReaderOf(s)] = rd[ReaderOf(s)]
    BY <1>1 DEF ReaderOf
  <2>5. CASE s = "down"
    BY <1>2, <2>3, <2>4, <2>5, SameInStep
  <2>6. CASE s = "up" /\ sock
    <3>1. send_pdu(s, op, len)
      BY <2>6 DEF Send
    <3> QED BY <2>3, <2>4, <3>1, SendInStep, InvParts
  <2>7. CASE s = "up" /\ ~sock
    <3>1. out' = out /\ bytes' = bytes
      BY <2>7 DEF Send
    <3> QED BY <2>3, <2>4, <3>1, SameInStep
  <2> QED BY <2>5, <2>6, <2>7, InvParts DEF Streams
<1> QED BY <1>2, <1>3, <1>4 DEF SessionInv, StepInv, StaysBroken, Followed, Streams

\* The client closes its socket.  Nobody follows the stream to it any more.
LEMMA ClientCloses ==
    ASSUME SessionInv, sock' = FALSE, closed' = closed \cup {"up"},
           UNCHANGED <<out, bytes, taken, peeked, got, short, srv, met>>,
           rd' \in [Readers -> RdType],
           \A p \in Readers : rd'[p].pc \in {"head", "body"} => rd'[p].op # "none",
           rd'["server"] = rd["server"], ~met => rd'["main"] = At("idle"),
           lpc' # "recv" => rd'["listen"].pc = "idle",
           ~met => cpc' \notin SixPcs
    PROVE  SessionInv' /\ StaysBroken
<1>1. FrameInv'
  BY InvParts DEF FrameInv, FramingTypeOK, RdType, Streams
<1>2. EndsInv'
  <2>1. sock' \in BOOLEAN /\ met' \in BOOLEAN
    BY InvParts, Zenon
  <2>2. ("up" \in closed' <=> ~sock') /\ ("down" \in closed' <=> srv' = "gone")
    BY InvParts DEF EndsInv
  <2> QED BY <2>1, <2>2, InvParts DEF EndsInv
<1>3. ASSUME NEW s \in Streams, Followed(s)' PROVE Followed(s) /\ InStep(s)'
  <2>1. Unread(Back(s))' = Unread(Back(s))
    BY DEF Unread
  <2>2. Followed(s)
    BY <1>3, <2>1, FollowedBefore, InvParts
  <2> SUFFICES InStep(s)'
    BY <2>2
  <2>3. InStep(s)
    BY <2>2, InvParts DEF StepInv
  <2>4. s = "up"
    BY <1>3 DEF Followed, Broken, Streams
  <2>5. rd'[ReaderOf(s)] = rd[ReaderOf(s)]
    BY <2>4 DEF ReaderOf
  <2> QED BY <2>3, <2>5, SameInStep
<1> QED BY <1>1, <1>2, <1>3 DEF SessionInv, StepInv, StaysBroken, Followed, Streams

LEMMA ProcessEnds == SessionInv /\ ProcessEnd => SessionInv' /\ StaysBroken
<1> SUFFICES ASSUME SessionInv, ProcessEnd PROVE SessionInv' /\ StaysBroken
  OBVIOUS
<1>1. /\ rd' = [r \in Readers |-> IF r = "server" THEN rd[r] ELSE At("idle")]
      /\ sock' = FALSE /\ closed' = closed \cup {"up"}
      /\ UNCHANGED <<out, bytes, taken, peeked, got, short, srv, met>>
      /\ cpc' = "ended"
  BY DEF ProcessEnd, CloseSocket, server
<1>2. At("idle") \in RdType /\ At("idle").pc = "idle"
  BY DEF At, RdType
<1>3. /\ rd' \in [Readers -> RdType]
      /\ rd'["server"] = rd["server"] /\ rd'["main"] = At("idle") /\ rd'["listen"] = At("idle")
  BY <1>1, <1>2, InvParts DEF Readers
<1>4. \A p \in Readers : rd'[p].pc \in {"head", "body"} => rd'[p].op # "none"
  BY <1>2, <1>3, InvParts DEF Readers
<1>5. cpc' \notin SixPcs
  BY <1>1 DEF SixPcs
<1> QED BY <1>1, <1>2, <1>3, <1>4, <1>5, ClientCloses

\* A reader of the client takes what comes, or goes on to the next PDU.
LEMMA ClientReads ==
    ASSUME SessionInv, NEW r \in {"listen", "main"}, receive_pdu(r, ~sock),
           r = "listen" => lpc = "recv",
           UNCHANGED <<sock, srv, met, cpc, lpc>>
    PROVE  SessionInv' /\ StaysBroken
<1>0. r \in Readers /\ StreamOf(r) = "down" /\ (~sock) \in BOOLEAN /\ "down" \in Streams /\ "up" \in Streams
  BY DEF Readers, StreamOf, Streams
<1>1. /\ FrameInv' /\ UNCHANGED <<out, bytes, closed>>
      /\ \A p \in Readers : p # r => rd'[p] = rd[p]
      /\ taken'["up"] = taken["up"] /\ peeked'["up"] = peeked["up"] /\ got'["up"] = got["up"]
      /\ short \subseteq short'
      /\ ~sock => taken' = taken
      /\ rd[r].pc \in {"peek", "head", "body"}
  BY <1>0, ReceiveKeeps, InvParts, Zenon
<1>2. rd'["server"] = rd["server"] /\ (r = "listen" => rd'["main"] = rd["main"])
        /\ (r = "main" => rd'["listen"] = rd["listen"])
  BY <1>0, <1>1 DEF Readers
<1>3. r = "main" => met
  BY <1>1, InvParts DEF EndsInv, At
<1>4. EndsInv'
  BY <1>1, <1>2, <1>3, InvParts DEF EndsInv
<1>5. ASSUME NEW s \in Streams, Followed(s)' PROVE Followed(s) /\ InStep(s)'
  <2>1. s \in closed => Unread(Back(s))' = Unread(Back(s))
    <3>1. CASE s = "up"
      <4>1. s \in closed => ~sock
        BY <3>1, InvParts DEF EndsInv
      <4> QED BY <1>1, <4>1 DEF Unread
    <3>2. CASE s = "down"
      BY <1>1, <3>2 DEF Unread, Back
    <3> QED BY <3>1, <3>2 DEF Streams
  <2>2. Followed(s) /\ ~Reset(s) /\ s \notin short'
    BY <1>1, <1>5, <2>1, FollowedBefore
  <2> SUFFICES InStep(s)'
    BY <2>2
  <2>3. InStep(s)
    BY <2>2, InvParts DEF StepInv
  <2>4. CASE s = "up"
    BY <1>1, <1>2, <2>3, <2>4, SameInStep DEF ReaderOf
  <2>5. CASE s = "down"
    <3>1. ~met /\ sock
      BY <2>2, <2>5 DEF Followed, Broken
    <3>2. r = "listen" /\ ReaderOf(s) = r
      BY <1>3, <2>5, <3>1 DEF ReaderOf
    <3>3. (~sock) = FALSE
      BY <3>1
    <3>4. receive_pdu(ReaderOf(s), FALSE)
      BY <3>2, <3>3
    <3> QED BY <2>2, <2>3, <3>4, ReceiveInStep, InvParts
  <2> QED BY <2>4, <2>5 DEF Streams
<1> QED BY <1>1, <1>4, <1>5 DEF SessionInv, StepInv, StaysBroken, Followed, Streams

\* A thread asks for the next PDU, or takes the one it has read.
LEMMA ReaderMoves ==
    ASSUME SessionInv, NEW r \in Readers, NEW pc \in {"idle", "peek"},
           rd' = [rd EXCEPT ![r] = At(pc)], rd[r].pc \in {"idle", "done"},
           UNCHANGED <<out, bytes, taken, peeked, closed, got, short, sock, srv, met>>,
           r = "server" => srv # "gone", r = "main" => met, ~met => cpc' \notin SixPcs,
           lpc' # "recv" => rd'["listen"].pc = "idle"
    PROVE  SessionInv' /\ StaysBroken
<1>1. At(pc) \in RdType /\ At(pc).pc = pc /\ At(pc).op = "none" /\ At(pc).pc \notin {"head", "body"}
  BY DEF At, RdType
<1>2. /\ rd' \in [Readers -> RdType] /\ rd'[r] = At(pc) /\ \A p \in Readers : p # r => rd'[p] = rd[p]
      /\ \A p \in Readers : rd'[p].pc \in {"head", "body"} => rd'[p].op # "none"
  BY <1>1, RdChange, InvParts
<1>3. FrameInv'
  BY <1>2, InvParts DEF FrameInv, FramingTypeOK, RdType
<1>4. EndsInv'
  BY <1>2, InvParts DEF EndsInv, Readers
<1>5. ASSUME NEW s \in Streams, Followed(s)' PROVE Followed(s) /\ InStep(s)'
  <2>1. Unread(Back(s))' = Unread(Back(s))
    BY DEF Unread
  <2>2. Followed(s)
    BY <1>5, <2>1, FollowedBefore
  <2> SUFFICES InStep(s)'
    BY <2>2
  <2>3. InStep(s)
    BY <2>2, InvParts DEF StepInv
  <2>4. CASE ReaderOf(s) = r
    BY <1>1, <1>2, <2>3, <2>4, RestInStep
  <2>5. CASE ReaderOf(s) # r
    <3>1. rd'[ReaderOf(s)] = rd[ReaderOf(s)]
      BY <1>2, <2>5 DEF ReaderOf, Readers
    <3> QED BY <2>3, <3>1, SameInStep
  <2> QED BY <2>4, <2>5
<1> QED BY <1>3, <1>4, <1>5 DEF SessionInv, StepInv, StaysBroken, Followed, Streams

\* The server's listener takes what comes.
LEMMA ServerReads ==
    ASSUME SessionInv, srv # "gone", receive_pdu("server", FALSE),
           UNCHANGED <<sock, srv, met, cpc, lpc>>
    PROVE  SessionInv' /\ StaysBroken
<1>0. "server" \in Readers /\ StreamOf("server") = "up" /\ FALSE \in BOOLEAN
        /\ "down" \in Streams /\ "up" \in Streams
  BY DEF Readers, StreamOf, Streams
<1>1. /\ FrameInv' /\ UNCHANGED <<out, bytes, closed>>
      /\ \A p \in Readers : p # "server" => rd'[p] = rd[p]
      /\ taken'["down"] = taken["down"] /\ peeked'["down"] = peeked["down"] /\ got'["down"] = got["down"]
      /\ short \subseteq short'
  BY <1>0, ReceiveKeeps, InvParts, Zenon
<1>2. rd'["main"] = rd["main"] /\ rd'["listen"] = rd["listen"]
  BY <1>1 DEF Readers
<1>3. EndsInv'
  BY <1>1, <1>2, InvParts DEF EndsInv
<1>4. ASSUME NEW s \in Streams, Followed(s)' PROVE Followed(s) /\ InStep(s)'
  <2>1. s \in closed => Unread(Back(s))' = Unread(Back(s))
    <3>1. CASE s = "up"
      BY <1>1, <3>1 DEF Unread, Back
    <3>2. CASE s = "down"
      BY <3>2, InvParts DEF EndsInv
    <3> QED BY <3>1, <3>2 DEF Streams
  <2>2. Followed(s) /\ ~Reset(s) /\ s \notin short'
    BY <1>1, <1>4, <2>1, FollowedBefore
  <2> SUFFICES InStep(s)'
    BY <2>2
  <2>3. InStep(s)
    BY <2>2, InvParts DEF StepInv
  <2>4. CASE s = "up"
    <3>1. receive_pdu(ReaderOf(s), FALSE)
      BY <2>4 DEF ReaderOf
    <3> QED BY <2>2, <2>3, <3>1, ReceiveInStep, InvParts
  <2>5. CASE s = "down"
    BY <1>1, <1>2, <2>3, <2>5, SameInStep DEF ReaderOf
  <2> QED BY <2>4, <2>5 DEF Streams
<1> QED BY <1>1, <1>3, <1>4 DEF SessionInv, StepInv, StaysBroken, Followed, Streams

\* An answer, an answer to another client, or QUIT.
LEMMA ServerSends ==
    ASSUME SessionInv, srv # "gone", srv' # "gone", NEW op \in Ops, NEW len \in Nat,
           send_pdu("down", op, len),
           UNCHANGED <<taken, peeked, closed, rd, got, short, sock, met, cpc, lpc>>
    PROVE  SessionInv' /\ StaysBroken
<1>0. "down" \in Streams /\ "up" \in Streams
  BY DEF Streams
<1>1. /\ FrameInv' /\ bytes'["down"] >= bytes["down"]
      /\ out'["up"] = out["up"] /\ bytes'["up"] = bytes["up"]
  BY <1>0, SendKeeps, InvParts
<1>2. EndsInv'
  BY InvParts DEF EndsInv
<1>3. Unread("down")' >= Unread("down") /\ Unread("down") \in Nat /\ Unread("down")' \in Int
  <2>1. bytes["down"] \in Nat /\ bytes'["down"] \in Nat /\ taken["down"] \in Nat
    BY <1>0, <1>1, InvParts DEF FrameInv, FramingTypeOK
  <2> QED BY <1>0, <1>1, <2>1, InvParts DEF Unread
<1>4. ASSUME NEW s \in Streams, Followed(s)' PROVE Followed(s) /\ InStep(s)'
  <2>1. s \in closed /\ Unread(Back(s)) > 0 => Unread(Back(s))' > 0
    <3>1. CASE s = "up"
      BY <1>3, <3>1 DEF Back
    <3>2. CASE s = "down"
      BY <3>2, InvParts DEF EndsInv
    <3> QED BY <3>1, <3>2 DEF Streams
  <2>2. Followed(s)
    BY <1>4, <2>1, FollowedBefore
  <2> SUFFICES InStep(s)'
    BY <2>2
  <2>3. InStep(s)
    BY <2>2, InvParts DEF StepInv
  <2>4. CASE s = "up"
    BY <1>1, <2>3, <2>4, SameInStep
  <2>5. CASE s = "down"
    BY <2>3, <2>5, SendInStep, InvParts
  <2> QED BY <2>4, <2>5 DEF Streams
<1> QED BY <1>1, <1>2, <1>4 DEF SessionInv, StepInv, StaysBroken, Followed, Streams

LEMMA ServerEnds == SessionInv /\ ServerEnd => SessionInv' /\ StaysBroken
<1> SUFFICES ASSUME SessionInv, ServerEnd PROVE SessionInv' /\ StaysBroken
  OBVIOUS
<1>0. "down" \in Streams /\ "up" \in Streams /\ "server" \in Readers
  BY DEF Streams, Readers
<1>1. /\ srv # "gone" /\ srv' = "gone" /\ closed' = closed \cup {"down"}
      /\ rd' = [rd EXCEPT !["server"] = At("idle")]
      /\ out' = [out EXCEPT !["up"] = <<>>] /\ got' = [got EXCEPT !["up"] = <<>>]
      /\ bytes' = [bytes EXCEPT !["up"] = Unread("up")] /\ taken' = [taken EXCEPT !["up"] = 0]
      /\ peeked' = [peeked EXCEPT !["up"] = 0] /\ short' = short \ {"up"}
      /\ UNCHANGED <<sock, met, cpc, lpc>>
  BY DEF ServerEnd, ServerOnly, client, listener
<1>2. At("idle") \in RdType /\ At("idle").pc = "idle"
  BY DEF At, RdType
<1>3. /\ rd' \in [Readers -> RdType] /\ rd'["server"] = At("idle")
      /\ rd'["main"] = rd["main"] /\ rd'["listen"] = rd["listen"]
      /\ \A p \in Readers : rd'[p].pc \in {"head", "body"} => rd'[p].op # "none"
  <2>1. /\ rd' \in [Readers -> RdType] /\ rd'["server"] = At("idle")
        /\ \A p \in Readers : p # "server" => rd'[p] = rd[p]
        /\ \A p \in Readers : rd'[p].pc \in {"head", "body"} => rd'[p].op # "none"
    BY <1>0, <1>1, <1>2, RdChange, InvParts
  <2> QED BY <2>1 DEF Readers
<1>4. /\ out \in [Streams -> Seq(PDUs)] /\ got \in [Streams -> Seq(Ops \cup {"garbled"})]
      /\ bytes \in [Streams -> Nat] /\ taken \in [Streams -> Nat]
      /\ peeked \in [Streams -> 0..HEADERSIZE] /\ Unread("up") \in Nat
      /\ \A s \in Streams : taken[s] <= bytes[s]
  BY <1>0, InvParts DEF FrameInv, FramingTypeOK, PDUs
<1>5. /\ out' \in [Streams -> Seq(PDUs)] /\ got' \in [Streams -> Seq(Ops \cup {"garbled"})]
      /\ got'["up"] = <<>> /\ out'["down"] = out["down"] /\ got'["down"] = got["down"]
  <2>1. <<>> \in Seq(PDUs) /\ <<>> \in Seq(Ops \cup {"garbled"})
    OBVIOUS
  <2> QED BY <1>0, <1>1, <1>4, <2>1
<1>6. /\ bytes' \in [Streams -> Nat] /\ taken' \in [Streams -> Nat]
      /\ peeked' \in [Streams -> 0..HEADERSIZE]
      /\ bytes'["up"] = Unread("up") /\ taken'["up"] = 0
      /\ bytes'["down"] = bytes["down"] /\ taken'["down"] = taken["down"]
      /\ peeked'["down"] = peeked["down"]
  BY <1>0, <1>1, <1>4, FramingAssumption
<1>7. \A s \in Streams : taken'[s] <= bytes'[s]
  BY <1>4, <1>6 DEF Streams
<1>8. FrameInv'
  <2>1. FramingTypeOK'
    BY <1>0, <1>1, <1>3, <1>5, <1>6, InvParts DEF FramingTypeOK, RdType, PDUs
  <2> QED BY <1>3, <1>7, <2>1 DEF FrameInv
<1>9. EndsInv'
  BY <1>1, <1>3, <1>5, InvParts DEF EndsInv
<1>10. ASSUME NEW s \in Streams, Followed(s)' PROVE Followed(s) /\ InStep(s)'
  <2>1. s = "down"
    BY <1>1, <1>10 DEF Followed, Streams
  <2>2. Unread("up")' = Unread("up")
    BY <1>4, <1>6 DEF Unread
  <2>3. "down" \notin short' /\ ~met /\ sock
    BY <1>1, <1>10, <2>1 DEF Followed, Broken
  <2>4. "down" \notin closed
    BY <1>1, InvParts DEF EndsInv
  <2>5. Followed(s)
    BY <1>1, <2>1, <2>3, <2>4 DEF Followed, Broken, Reset
  <2>6. InStep(s)
    BY <2>5, InvParts DEF StepInv
  <2> QED BY <1>3, <1>5, <1>6, <2>1, <2>5, <2>6, SameInStep DEF ReaderOf
<1> QED BY <1>8, <1>9, <1>10 DEF SessionInv, StepInv, StaysBroken, Followed, Streams

-----------------------------------------------------------------------------
(* All steps. *)

LEMMA InitSessionInv == Init => SessionInv
<1> SUFFICES ASSUME Init PROVE SessionInv
  OBVIOUS
<1> DEFINE first == [op |-> "JOIN", len |-> JOIN_LEN]
<1>1. /\ FramingInit(first) /\ sock = TRUE /\ srv = "up" /\ met = FALSE /\ cpc = "menu" /\ lpc = "loop"
  BY DEF Init
<1>2. first \in PDUs
  BY SessionAssumption DEF PDUs, Ops
<1> HIDE DEF first
<1>3. /\ out = [s \in Streams |-> IF s = "up" THEN <<first>> ELSE <<>>]
      /\ bytes = [s \in Streams |-> IF s = "up" THEN Size(first) ELSE 0]
      /\ taken = [s \in Streams |-> 0] /\ peeked = [s \in Streams |-> 0]
      /\ closed = {} /\ short = {}
      /\ rd = [r \in Readers |-> At(IF r = "server" THEN "peek" ELSE "idle")]
      /\ got = [s \in Streams |-> <<>>]
  BY <1>1 DEF FramingInit
<1>4. Size(first) \in Nat
  BY <1>2, SizePositive
<1>5. /\ out["up"] = <<first>> /\ out["down"] = <<>> /\ bytes["up"] = Size(first) /\ bytes["down"] = 0
      /\ \A s \in Streams : taken[s] = 0 /\ got[s] = <<>>
      /\ rd["server"] = At("peek") /\ rd["listen"] = At("idle") /\ rd["main"] = At("idle")
  BY <1>3 DEF Streams, Readers
<1>6. FrameInv
  <2>1. <<first>> \in Seq(PDUs) /\ <<>> \in Seq(PDUs) /\ <<>> \in Seq(Ops \cup {"garbled"})
    BY <1>2
  <2>2. out \in [Streams -> Seq(PDUs)] /\ got \in [Streams -> Seq(Ops \cup {"garbled"})]
    BY <1>3, <2>1
  <2>3. rd \in [Readers -> RdType]
    BY <1>3 DEF At, RdType
  <2>4. /\ bytes \in [Streams -> Nat] /\ taken \in [Streams -> Nat]
        /\ peeked \in [Streams -> 0..HEADERSIZE]
    BY <1>3, <1>4, FramingAssumption
  <2>5. \A s \in Streams : taken[s] <= bytes[s]
    BY <1>4, <1>5 DEF Streams
  <2>6. \A r \in Readers : rd[r].pc \notin {"head", "body"}
    BY <1>5 DEF Readers, At
  <2> QED BY <1>3, <2>2, <2>3, <2>4, <2>5, <2>6 DEF FrameInv, FramingTypeOK, RdType, PDUs
<1>7. EndsInv
  <2>1. sock \in BOOLEAN /\ met \in BOOLEAN /\ sock /\ ~met
    BY <1>1, Zenon
  <2> QED BY <1>1, <1>3, <1>5, <2>1 DEF EndsInv, SixPcs, At
<1>8. ASSUME NEW s \in Streams PROVE InStep(s)
  <2>1. out[s] \in Seq(PDUs)
    BY <1>6, FrameFacts
  <2>2. Offset(out[s])[0] = 0
    BY <2>1, OffsetEquation
  <2>3. bytes[s] = Offset(out[s])[Len(out[s])]
    <3>1. CASE s = "up"
      <4>1. out[s] = <<first>>
        BY <1>5, <3>1
      <4>2. Len(out[s]) = 1 /\ out[s][1] = first
        BY ONLY <4>1
      <4>3. 1 - 1 = 0 /\ 1 \in 1..1
        OBVIOUS
      <4>4. Offset(out[s])[1] = Offset(out[s])[1 - 1] + Size(out[s][1])
        BY <2>1, <4>2, <4>3, OffsetEquation
      <4>5. Offset(out[s])[1] = 0 + Size(first)
        BY <2>2, <4>2, <4>3, <4>4
      <4>6. 0 + Size(first) = Size(first)
        BY <1>4
      <4>7. bytes[s] = Size(first)
        BY <1>5, <3>1
      <4> QED BY <4>2, <4>5, <4>6, <4>7
    <3>2. CASE s = "down"
      BY <1>5, <2>2, <3>2
    <3> QED BY <3>1, <3>2 DEF Streams
  <2>4. rd[ReaderOf(s)] \in {At("peek"), At("idle")}
    BY <1>5 DEF ReaderOf
  <2>5. Len(got[s]) = 0 /\ taken[s] = 0
    BY <1>5
  <2>6. Len(out[s]) \in Nat
    BY <2>1
  <2> QED BY <2>2, <2>3, <2>4, <2>5, <2>6 DEF InStep, At
<1> QED BY <1>6, <1>7, <1>8 DEF SessionInv, StepInv, StaysBroken, Followed, Streams

LEMMA MenuInv == SessionInv /\ Menu => SessionInv' /\ StaysBroken
<1> SUFFICES ASSUME SessionInv, Menu PROVE SessionInv' /\ StaysBroken
  OBVIOUS
<1>1. CASE PressEnter
  <2>1. /\ UNCHANGED <<fvars, sock, srv>> /\ met' = met /\ lpc' = lpc /\ cpc' = "cond"
    BY <1>1 DEF PressEnter, NoSocketUse, MainOnly, listener, server
  <2> QED BY <2>1, LocalStep, InvParts DEF SixPcs
<1>2. CASE SendQuit
  <2>1. /\ Send("QUIT", 0) /\ rd' = rd /\ cpc' = "cancel"
        /\ UNCHANGED <<taken, peeked, closed, got, short, sock, srv, met, lpc>>
    BY <1>2 DEF SendQuit, MainOnly, listener, server
  <2>2. "QUIT" \in Ops /\ 0 \in Nat /\ cpc' \notin SixPcs
    BY <2>1 DEF Ops, SixPcs
  <2> QED BY <2>1, <2>2, ClientSends
<1>3. CASE PickTest
  <2>1. /\ UNCHANGED <<fvars, sock, srv>> /\ lpc' = lpc
        /\ \/ met' = TRUE
           \/ met' = met /\ cpc' \in {"reset_send", "test"}
    BY <1>3 DEF PickTest, NoSocketUse, MainOnly, listener, server
  <2>2. met' \in BOOLEAN /\ (met => met') /\ (~met' => cpc' \notin SixPcs)
    <3>1. met \in BOOLEAN
      BY InvParts
    <3>2. CASE met' = TRUE
      BY <3>2
    <3>3. CASE met' = met /\ cpc' \in {"reset_send", "test"}
      <4>1. cpc' \notin SixPcs
        BY <3>3 DEF SixPcs
      <4> QED BY <3>1, <3>3, <4>1, Zenon
    <3> QED BY <2>1, <3>2, <3>3
  <2> QED BY <2>1, <2>2, LocalStep
<1>4. ASSUME NEW op \in MenuOps, SendRequest(op) PROVE SessionInv' /\ StaysBroken
  <2> DEFINE len == IF op = "INSERT" THEN INSERT_LEN ELSE 0
  <2>1. /\ Send(op, len) /\ rd' = rd /\ cpc' = "cond"
        /\ UNCHANGED <<taken, peeked, closed, got, short, sock, srv, met, lpc>>
    BY <1>4 DEF SendRequest, MainOnly, listener, server
  <2>2. op \in Ops /\ len \in Nat /\ cpc' \notin SixPcs
    BY <2>1, SessionAssumption DEF Ops, SixPcs
  <2> HIDE DEF len
  <2> QED BY <2>1, <2>2, ClientSends
<1> QED BY <1>1, <1>2, <1>3, <1>4 DEF Menu

LEMMA MainInv == SessionInv /\ Main => SessionInv' /\ StaysBroken
<1> SUFFICES ASSUME SessionInv, Main PROVE SessionInv' /\ StaysBroken
  OBVIOUS
\* Steps that only move the thread and its counters.
<1>1. ASSUME UNCHANGED <<fvars, sock, srv, met, lpc>>, cpc' \notin SixPcs PROVE SessionInv' /\ StaysBroken
  BY <1>1, LocalStep, InvParts
<1>2. CASE Cond
  <2>1. UNCHANGED <<fvars, sock, srv, met, lpc>> /\ cpc' \in {"close", "menu"}
    BY <1>2 DEF Cond, NoSocketUse, MainOnly, listener, server
  <2> QED BY <1>1, <2>1 DEF SixPcs
<1>3. CASE Close
  <2>1. /\ sock' = FALSE /\ closed' = closed \cup {"up"} /\ rd' = rd /\ cpc' = "flag"
        /\ UNCHANGED <<out, bytes, taken, peeked, got, short, srv, met, lpc>>
    BY <1>3 DEF Close, CloseSocket, MainOnly, listener, server
  <2>2. cpc' \notin SixPcs
    BY <2>1 DEF SixPcs
  <2>3. /\ ~met => rd'["main"] = At("idle")
        /\ lpc' # "recv" => rd'["listen"].pc = "idle"
    BY <2>1, InvParts DEF EndsInv
  <2> QED BY <2>1, <2>2, <2>3, ClientCloses, InvParts
<1>4. CASE SetFlag
  <2>1. UNCHANGED <<fvars, sock, srv, met, lpc>> /\ cpc' = "cancel"
    BY <1>4 DEF SetFlag, NoSocketUse, MainOnly, listener, server
  <2> QED BY <1>1, <2>1 DEF SixPcs
<1>5. CASE CancelAndJoin
  BY <1>5, ProcessEnds DEF CancelAndJoin
<1>6. CASE ResetSend
  <2>1. UNCHANGED <<fvars, sock, srv, met, lpc>> /\ cpc' = "reset_receive"
    BY <1>6 DEF ResetSend, NoSocketUse, MainOnly, listener, server
  <2> QED BY <1>1, <2>1 DEF SixPcs
<1>7. CASE ResetReceive
  <2>1. UNCHANGED <<fvars, sock, srv, met, lpc>> /\ cpc' = "test"
    BY <1>7 DEF ResetReceive, NoSocketUse, MainOnly, listener, server
  <2> QED BY <1>1, <2>1 DEF SixPcs
<1>8. CASE TestSend
  <2>1. /\ Send("INSERT", INSERT_LEN) /\ rd' = rd /\ cpc' = cpc /\ cpc = "test"
        /\ UNCHANGED <<taken, peeked, closed, got, short, sock, srv, met, lpc>>
    BY <1>8 DEF TestSend, MainOnly, listener, server
  <2>2. "INSERT" \in Ops /\ INSERT_LEN \in Nat /\ cpc' \notin SixPcs
    BY <2>1, SessionAssumption DEF Ops, SixPcs
  <2> QED BY <2>1, <2>2, ClientSends
<1>9. CASE TestCount
  <2>1. UNCHANGED <<fvars, sock, srv, met, lpc>> /\ cpc' \in {"cond", "test"}
    BY <1>9 DEF TestCount, NoSocketUse, MainOnly, listener, server
  <2> QED BY <1>1, <2>1 DEF SixPcs
<1>10. CASE SixSend
  <2>1. /\ rd' = [rd EXCEPT !["main"] = At("peek")] /\ cpc \in SixPcs
        /\ UNCHANGED <<taken, peeked, closed, got, short, sock, srv, met, lpc>>
        /\ Send("INSERT", INSERT_LEN) \/ Send("GET", 0)
    BY <1>10 DEF SixSend, MainOnly, listener, server, SixPcs
  <2>2. met
    BY <2>1, InvParts DEF EndsInv
  <2>3. "INSERT" \in Ops /\ INSERT_LEN \in Nat /\ "GET" \in Ops /\ 0 \in Nat
    BY SessionAssumption DEF Ops
  <2> QED BY <2>1, <2>2, <2>3, ClientSends
<1>11. CASE SixRead
  <2>1. receive_pdu("main", ~sock) /\ UNCHANGED <<sock, srv, met, cpc, lpc>>
    BY <1>11 DEF SixRead, MainOnly, listener, server, client
  <2> QED BY <2>1, ClientReads
<1>12. CASE SixDone
  <2>1. /\ rd["main"].pc = "done" /\ rd' = [rd EXCEPT !["main"] = At("idle")]
        /\ UNCHANGED <<out, bytes, taken, peeked, closed, got, short, sock, srv, met, lpc>>
    BY <1>12 DEF SixDone, MainOnly, listener, server
  <2>2. met /\ "main" \in Readers /\ rd'["listen"] = rd["listen"]
    BY <2>1, InvParts DEF EndsInv, At, Readers
  <2>3. lpc' # "recv" => rd'["listen"].pc = "idle"
    BY <2>1, <2>2, InvParts DEF EndsInv
  <2> QED BY <2>1, <2>2, <2>3, ReaderMoves
<1>13. CASE SixCrash
  BY <1>13, ProcessEnds DEF SixCrash
<1> QED BY <1>2, <1>3, <1>4, <1>5, <1>6, <1>7, <1>8, <1>9, <1>10, <1>11, <1>12, <1>13 DEF Main

LEMMA ListenInv == SessionInv /\ Listen => SessionInv' /\ StaysBroken
<1> SUFFICES ASSUME SessionInv, Listen PROVE SessionInv' /\ StaysBroken
  OBVIOUS
<1>0. "listen" \in Readers
  BY DEF Readers
\* client_listen takes the PDU it has read.
<1>1. ASSUME lpc = "recv", rd["listen"].pc = "done", rd' = [rd EXCEPT !["listen"] = At("idle")],
             UNCHANGED <<out, bytes, taken, peeked, closed, got, short, sock, srv, met, cpc>>
      PROVE  SessionInv' /\ StaysBroken
  <2>1. rd'["listen"].pc = "idle"
    BY <1>0, <1>1, InvParts DEF At
  <2>2. ~met => cpc' \notin SixPcs
    BY <1>1, InvParts DEF EndsInv
  <2> QED BY <1>0, <1>1, <2>1, <2>2, ReaderMoves
<1>2. CASE ListenLoop
  <2>1. CASE close_client
    <3>1. /\ sock' = FALSE /\ closed' = closed \cup {"up"} /\ rd' = rd /\ lpc = "loop"
          /\ UNCHANGED <<out, bytes, taken, peeked, got, short, srv, met, cpc>>
      BY <1>2, <2>1 DEF ListenLoop, CloseSocket, ListenOnly, client, server
    <3>2. /\ ~met => rd'["main"] = At("idle") /\ cpc' \notin SixPcs
          /\ lpc' # "recv" => rd'["listen"].pc = "idle"
      BY <3>1, InvParts DEF EndsInv
    <3> QED BY <3>1, <3>2, ClientCloses, InvParts
  <2>2. CASE ~close_client
    <3>1. /\ rd' = [rd EXCEPT !["listen"] = At("peek")] /\ lpc = "loop" /\ lpc' = "recv"
          /\ UNCHANGED <<out, bytes, taken, peeked, closed, got, short, sock, srv, met, cpc>>
      BY <1>2, <2>2 DEF ListenLoop, ListenOnly, client, server
    <3>2. rd["listen"].pc = "idle" /\ (~met => cpc' \notin SixPcs)
      BY <3>1, InvParts DEF EndsInv
    <3> QED BY <1>0, <3>1, <3>2, ReaderMoves
  <2> QED BY <2>1, <2>2
<1>3. CASE ListenRead
  <2>1. lpc = "recv" /\ receive_pdu("listen", ~sock) /\ UNCHANGED <<sock, srv, met, cpc, lpc>>
    BY <1>3 DEF ListenRead, ListenOnly, client, server, listener
  <2> QED BY <2>1, ClientReads
<1>4. CASE ListenCrash
  BY <1>4, ProcessEnds DEF ListenCrash
<1>5. CASE ListenQuit
  BY <1>1, <1>5 DEF ListenQuit, ListenOnly, client, server
<1>6. CASE ListenText
  BY <1>1, <1>6 DEF ListenText, ListenOnly, client, server
<1>7. ASSUME UNCHANGED <<fvars, sock, srv, met, cpc>>, lpc # "recv" PROVE SessionInv' /\ StaysBroken
  BY <1>7, LocalStep, InvParts DEF EndsInv
<1>8. CASE ListenStore
  BY <1>7, <1>8 DEF ListenStore, NoSocketUse, ListenOnly, client, server
<1>9. CASE ListenCompare
  BY <1>7, <1>9 DEF ListenCompare, NoSocketUse, ListenOnly, client, server
<1> QED BY <1>2, <1>3, <1>4, <1>5, <1>6, <1>8, <1>9 DEF Listen

LEMMA ServerInv == SessionInv /\ srv # "gone" /\ (Server \/ ForeignReply \/ Kick) => SessionInv' /\ StaysBroken
<1> SUFFICES ASSUME SessionInv, srv # "gone", Server \/ ForeignReply \/ Kick PROVE SessionInv' /\ StaysBroken
  OBVIOUS
<1>0. "server" \in Readers /\ "KERNEL" \in Ops /\ "QUIT" \in Ops /\ KERNEL_LEN \in Nat
  BY SessionAssumption DEF Readers, Ops
<1>1. CASE ServerRead
  <2>1. receive_pdu("server", FALSE) /\ UNCHANGED <<sock, srv, met, cpc, lpc>>
    BY <1>1 DEF ServerRead, ServerOnly, client, server, listener
  <2> QED BY <2>1, ServerReads
<1>2. CASE ServerTake
  <2>1. /\ rd["server"].pc = "done" /\ rd' = [rd EXCEPT !["server"] = At("peek")]
        /\ UNCHANGED <<out, bytes, taken, peeked, closed, got, short, sock, srv, met, cpc, lpc>>
    BY <1>2 DEF ServerTake, ServerOnly, client, listener
  <2>2. rd'["listen"] = rd["listen"]
    BY <2>1, InvParts DEF Readers
  <2>3. /\ ~met => cpc' \notin SixPcs
        /\ lpc' # "recv" => rd'["listen"].pc = "idle"
    BY <2>1, <2>2, InvParts DEF EndsInv
  <2> QED BY <1>0, <2>1, <2>3, ReaderMoves
<1>3. CASE Reply \/ ForeignReply
  <2>1. /\ send_pdu("down", "KERNEL", KERNEL_LEN) /\ srv' = srv
        /\ UNCHANGED <<taken, peeked, closed, rd, got, short, sock, met, cpc, lpc>>
    BY <1>3 DEF Reply, ForeignReply, ServerOnly, client, listener
  <2> QED BY <1>0, <2>1, ServerSends
<1>4. CASE Kick
  <2>1. /\ send_pdu("down", "QUIT", 0) /\ srv' # "gone"
        /\ UNCHANGED <<taken, peeked, closed, rd, got, short, sock, met, cpc, lpc>>
    BY <1>4 DEF Kick, ServerOnly, client, listener
  <2> QED BY <1>0, <2>1, ServerSends
<1> QED BY <1>1, <1>2, <1>3, <1>4 DEF Server

LEMMA NextKeeps == SessionInv /\ [Next]_vars => SessionInv' /\ StaysBroken
<1> SUFFICES ASSUME SessionInv, [Next]_vars PROVE SessionInv' /\ StaysBroken
  OBVIOUS
<1>1. CASE Menu
  BY <1>1, MenuInv
<1>2. CASE Main
  BY <1>2, MainInv
<1>3. CASE Listen
  BY <1>3, ListenInv
<1>4. CASE srv # "gone" /\ (Server \/ ForeignReply \/ Kick)
  BY <1>4, ServerInv
<1>5. CASE ServerEnd
  BY <1>5, ServerEnds
<1>6. CASE UNCHANGED vars
  <2>1. UNCHANGED <<fvars, sock, srv, met, lpc, cpc>>
    BY <1>6 DEF vars, client, listener, server
  <2> QED BY <2>1, LocalStep, InvParts DEF EndsInv
<1> QED BY <1>1, <1>2, <1>3, <1>4, <1>5, <1>6 DEF Next

LEMMA NextSessionInv == SessionInv /\ [Next]_vars => SessionInv'
  BY NextKeeps

\* As long as every PDU body is there when it is asked for, nobody else reads and
\* the connection is not reset, the server and the client read exactly the
\* operations that the other end has sent, in order, however the bytes arrive
\* otherwise and however many PDUs are on their way.
THEOREM PdusInOrder == Spec => []InOrder
<1>1. SessionInv => InOrder
  <2> SUFFICES ASSUME SessionInv, NEW s \in Streams, ~Broken(s)
               PROVE  /\ Len(got[s]) <= Len(out[s])
                      /\ \A k \in DOMAIN got[s] : got[s][k] = out[s][k].op
                      /\ \A r \in Readers : StreamOf(r) = s => rd[r].pc # "lost" /\ rd[r].op # "garbled"
    BY DEF InOrder
  <2>0. Len(got[s]) \in Nat /\ Len(out[s]) \in Nat /\ DOMAIN got[s] = 1..Len(got[s])
    BY InvParts, FrameFacts
  <2>1. CASE s = "up" /\ srv = "gone"
    <3>1. got[s] = <<>> /\ rd["server"] = At("idle")
      BY <2>1, InvParts DEF EndsInv
    <3>2. Len(got[s]) = 0 /\ DOMAIN got[s] = {}
      BY <3>1
    <3>3. \A r \in Readers : StreamOf(r) = s => r = "server"
      BY <2>1 DEF Readers, StreamOf
    <3> QED BY <2>0, <3>1, <3>2, <3>3 DEF At
  <2>2. CASE ~(s = "up" /\ srv = "gone")
    <3>1. InStep(s)
      BY <2>2, InvParts DEF StepInv, Followed
    <3>2. /\ Len(got[s]) <= Len(out[s]) /\ \A k \in 1..Len(got[s]) : got[s][k] = out[s][k].op
          /\ rd[ReaderOf(s)].pc # "lost" /\ rd[ReaderOf(s)].op # "garbled"
      BY <3>1 DEF InStep
    <3>3. ASSUME NEW r \in Readers, StreamOf(r) = s PROVE rd[r].pc # "lost" /\ rd[r].op # "garbled"
      <4>1. CASE r = ReaderOf(s)
        BY <3>2, <4>1
      <4>2. CASE r # ReaderOf(s)
        <5>1. s = "down" /\ r = "main"
          BY <3>3, <4>2 DEF Readers, StreamOf, ReaderOf, Streams
        <5>2. rd["main"] = At("idle")
          BY <5>1, InvParts DEF Broken, EndsInv
        <5> QED BY <5>1, <5>2 DEF At
      <4> QED BY <4>1, <4>2
    <3> QED BY <2>0, <3>2, <3>3
  <2> QED BY <2>1, <2>2
<1> QED BY <1>1, InitSessionInv, NextSessionInv, PTL DEF Spec

-----------------------------------------------------------------------------
(* The load tests' counters. *)

One(p) == IF p THEN 1 ELSE 0

\* The answers among the PDUs sent to the client: a QUIT is the last.
Answers ==
    LET q == out["down"] IN
    IF Len(q) > 0 /\ q[Len(q)].op = "QUIT" THEN Len(q) - 1 ELSE Len(q)
OnTheirWay == IF Len(got["down"]) < Answers THEN Answers - Len(got["down"]) ELSE 0

\* Answers the client has counted, is about to count or has still to read.
Here ==
    num_receive + One(lpc = "store") + One(rd["listen"].pc = "done" /\ rd["listen"].op # "QUIT")
        + OnTheirWay

\* The server's listener has at least c of the PDUs of the client behind it, the
\* JOIN being the first; also when it reads them in pieces.
Behind(c) ==
    LET q == out["up"]
        r == rd["server"]
    IN
    /\ Len(got["up"]) = 0 => c = 1
    /\ Len(got["up"]) > 0 =>
          /\ Offset(q)[c] <= taken["up"]
          /\ r.pc = "head" =>
                /\ r.want = HEADERSIZE /\ peeked["up"] = HEADERSIZE
                /\ r.op \in {"INIT", "QUIT", "JOIN", "KERNEL"}
                /\ \E k \in (c + 1)..Len(q) : Offset(q)[k - 1] = taken["up"] /\ q[k].op = r.op
          /\ r.pc = "body" => c < Len(q) /\ Offset(q)[c + 1] <= taken["up"] + r.want

\* A request the server's listener has read and not handed on yet.
Pending == One(rd["server"].pc = "done" /\ rd["server"].op \notin {"JOIN", "QUIT"})

\* The requests sent.
Asked == num_send + One(sent)

\* No more answers are counted, or can still be, than requests were sent.
Balance ==
    IF srv = "gone"
    THEN Here <= Asked
    ELSE \E c \in 1..Len(out["up"]) :
            Behind(c) /\ Here + owed + Pending + (Len(out["up"]) - c) <= Asked

\* The counters count the load test in hand and nothing else.
Undisturbed == ~dirty /\ ~Broken("down") /\ cpc \in {"menu", "cond", "test"}

CountType ==
    /\ num_send \in Nat /\ num_receive \in Nat /\ reg \in Nat /\ owed \in Nat
    /\ sent \in BOOLEAN /\ dirty \in BOOLEAN /\ timed \in {"no", "yes", "overtaken"}

\* Where client_JOIN is in the client's first PDU, whose part behind the header may
\* come in pieces.
Joining ==
    LET r == rd["server"] IN
    /\ r.pc \in {"peek", "head", "body"}
    /\ r.pc # "body" => taken["up"] = 0
    /\ r.pc = "head" => r.op = "JOIN" /\ r.want = HEADERSIZE /\ peeked["up"] = HEADERSIZE
    /\ r.pc = "body" => r.op = "JOIN" /\ HEADERSIZE + JOIN_LEN <= taken["up"] + r.want

\* What the two ends send.
SentInv ==
    /\ srv # "gone" =>
          /\ Len(out["up"]) >= 1 /\ out["up"][1] = [op |-> "JOIN", len |-> JOIN_LEN]
          /\ bytes["up"] = Offset(out["up"])[Len(out["up"])]
          /\ sock /\ Len(got["up"]) = 0 => Joining
    /\ \A k \in 1..Len(out["down"]) :
          /\ out["down"][k].op \in {"KERNEL", "QUIT"}
          /\ out["down"][k].op = "QUIT" => k = Len(out["down"]) /\ srv # "up"

CountInv ==
    Undisturbed =>
        /\ lpc = "store" => reg = num_receive
        /\ timed = "no" /\ lpc \in {"loop", "recv"} => num_receive < num_send \/ num_receive = 0
        /\ Balance

TestInv == SessionInv /\ CountType /\ SentInv /\ CountInv

-----------------------------------------------------------------------------
(* Facts about the counters. *)

LEMMA OneType == \A p \in BOOLEAN : One(p) \in 0..1
  BY DEF One

LEMMA TestParts ==
    ASSUME TestInv
    PROVE  /\ SessionInv /\ FrameInv /\ EndsInv /\ StepInv /\ CountType /\ SentInv /\ CountInv
           /\ num_send \in Nat /\ num_receive \in Nat /\ reg \in Nat /\ owed \in Nat
           /\ sent \in BOOLEAN /\ dirty \in BOOLEAN /\ sock \in BOOLEAN
           /\ out["up"] \in Seq(PDUs) /\ out["down"] \in Seq(PDUs)
           /\ Len(out["up"]) \in Nat /\ Len(out["down"]) \in Nat
           /\ Len(got["up"]) \in Nat /\ Len(got["down"]) \in Nat
           /\ rd \in [Readers -> RdType]
<1>1. SessionInv /\ CountType /\ SentInv /\ CountInv
  BY DEF TestInv
<1>2. "up" \in Streams /\ "down" \in Streams
  BY DEF Streams
<1> QED BY <1>1, <1>2, InvParts, FrameFacts DEF CountType

LEMMA AnswersType ==
    ASSUME FrameInv
    PROVE  Answers \in Nat /\ OnTheirWay \in Nat
<1>1. Len(out["down"]) \in Nat /\ Len(got["down"]) \in Nat
  BY FrameFacts DEF Streams
<1>2. Answers \in Nat
  BY <1>1 DEF Answers
<1> QED BY <1>1, <1>2 DEF OnTheirWay

LEMMA HereType ==
    ASSUME FrameInv, num_receive \in Nat
    PROVE  Here \in Nat
  BY AnswersType DEF Here, One

LEMMA AskedType ==
    ASSUME num_send \in Nat, sent \in BOOLEAN
    PROVE  Asked \in Nat /\ Pending \in Nat
  BY DEF Asked, Pending, One

\* The client is alone on an unbroken connection.
LEMMA CalmFacts ==
    ASSUME TestInv, Undisturbed
    PROVE  /\ sock /\ ~met /\ ~dirty /\ "down" \notin short /\ ~Reset("down") /\ InStep("down")
           /\ lpc = "store" => reg = num_receive
           /\ timed = "no" /\ lpc \in {"loop", "recv"} => num_receive < num_send \/ num_receive = 0
           /\ Balance /\ Here \in Nat /\ Asked \in Nat /\ Pending \in Nat
<1>1. sock /\ ~met /\ ~dirty /\ "down" \notin short /\ ~Reset("down") /\ ~Broken("down")
  BY DEF Undisturbed, Broken
<1>2. InStep("down")
  BY <1>1, TestParts DEF StepInv, Followed, Streams
<1>3. Here \in Nat /\ Asked \in Nat /\ Pending \in Nat
  BY TestParts, HereType, AskedType
<1> QED BY <1>1, <1>2, <1>3, TestParts DEF CountInv

LEMMA CalmBefore ==
    ASSUME StaysBroken, Undisturbed', dirty => dirty', cpc \in {"menu", "cond", "test"}
    PROVE  Undisturbed
  BY DEF StaysBroken, Undisturbed

\* Sums of the counters.
LEMMA SumType == \A h, o, p, n, c \in Int : h + o + p + (n - c) \in Int
  OBVIOUS

LEMMA SumBound ==
    \A h, o, p, n, a \in Nat : \A c \in 1..n : h + o + p + (n - c) <= a => h <= a
  OBVIOUS

LEMMA SumLess == \A x, y, a, b \in Int : x <= a /\ y + a <= x + b => y <= b
  OBVIOUS

LEMMA SumMoves ==
    \A h, i, o, p, e, a, b \in Int : i + a <= h + b => i + o + p + e + a <= h + o + p + e + b
  OBVIOUS

\* A step that keeps the balance between what is under way and what was asked for.
LEMMA BalanceMoves ==
    ASSUME Balance, srv # "gone", srv' # "gone",
           Here \in Nat, Asked \in Nat, Pending \in Nat, owed \in Nat, Len(out["up"]) \in Nat,
           Here' \in Nat, Asked' \in Nat, Pending' \in Nat, owed' \in Nat, Len(out'["up"]) \in Nat,
           \A c \in 1..Len(out["up"]) : Behind(c) =>
              \E d \in 1..Len(out'["up"]) :
                 /\ Behind(d)'
                 /\ Here' + owed' + Pending' + (Len(out'["up"]) - d) + Asked
                       <= Here + owed + Pending + (Len(out["up"]) - c) + Asked'
    PROVE  Balance'
<1>1. PICK c \in 1..Len(out["up"]) :
        Behind(c) /\ Here + owed + Pending + (Len(out["up"]) - c) <= Asked
  BY DEF Balance
<1>2. PICK d \in 1..Len(out'["up"]) :
        /\ Behind(d)'
        /\ Here' + owed' + Pending' + (Len(out'["up"]) - d) + Asked
              <= Here + owed + Pending + (Len(out["up"]) - c) + Asked'
  BY <1>1
<1> DEFINE x == Here + owed + Pending + (Len(out["up"]) - c)
           y == Here' + owed' + Pending' + (Len(out'["up"]) - d)
<1>3. /\ Here \in Int /\ owed \in Int /\ Pending \in Int /\ Len(out["up"]) \in Int /\ c \in Int
      /\ Here' \in Int /\ owed' \in Int /\ Pending' \in Int /\ Len(out'["up"]) \in Int /\ d \in Int
      /\ Asked \in Int /\ Asked' \in Int
  OBVIOUS
<1>4. x \in Int /\ y \in Int
  BY ONLY <1>3, SumType
<1>5. x <= Asked /\ y + Asked <= x + Asked'
  BY <1>1, <1>2
<1>6. y <= Asked'
  <2> HIDE DEF x, y
  <2> QED BY ONLY <1>3, <1>4, <1>5, SumLess
<1> QED BY <1>2, <1>6 DEF Balance

LEMMA BalanceBound ==
    ASSUME Balance, Here \in Nat, Asked \in Nat, Pending \in Nat, owed \in Nat, Len(out["up"]) \in Nat
    PROVE  Here <= Asked
<1>1. CASE srv = "gone"
  BY <1>1 DEF Balance
<1>2. CASE srv # "gone"
  <2>1. PICK c \in 1..Len(out["up"]) : Here + owed + Pending + (Len(out["up"]) - c) <= Asked
    BY <1>2 DEF Balance
  <2> QED BY <2>1, SumBound
<1> QED BY <1>1, <1>2

\* A step that leaves the way to the server alone.
LEMMA BalanceKept ==
    ASSUME Balance, srv' = srv, owed' = owed, out'["up"] = out["up"], got'["up"] = got["up"],
           taken'["up"] = taken["up"], peeked'["up"] = peeked["up"], rd'["server"] = rd["server"],
           Here \in Nat, Here' \in Nat, Asked \in Nat, Asked' \in Nat, owed \in Nat,
           Len(out["up"]) \in Nat, Here' + Asked <= Here + Asked'
    PROVE  Balance'
<1>0. Here \in Int /\ Here' \in Int /\ Asked \in Int /\ Asked' \in Int /\ owed \in Int
  OBVIOUS
<1>a. Here' + Asked <= Here + Asked'
  BY Zenon
<1>1. CASE srv = "gone"
  <2>1. Here <= Asked
    BY <1>1 DEF Balance
  <2>2. Here' <= Asked'
    BY ONLY <1>0, <1>a, <2>1, SumLess
  <2> QED BY <1>1, <2>2 DEF Balance
<1>2. CASE srv # "gone"
  <2>1. Pending \in Nat /\ Pending' = Pending
    BY DEF Pending, One
  <2>2. ASSUME NEW c \in 1..Len(out["up"]), Behind(c)
        PROVE  /\ c \in 1..Len(out'["up"]) /\ Behind(c)'
               /\ Here' + owed' + Pending' + (Len(out'["up"]) - c) + Asked
                    <= Here + owed + Pending + (Len(out["up"]) - c) + Asked'
    <3>1. Behind(c)' /\ c \in 1..Len(out'["up"])
      BY <2>2 DEF Behind
    <3> DEFINE e == Len(out["up"]) - c
    <3>2. e \in Int /\ e = Len(out'["up"]) - c
      OBVIOUS
    <3> HIDE DEF e
    <3>3. Here' + owed + Pending + e + Asked <= Here + owed + Pending + e + Asked'
      <4>1. Pending \in Int
        BY <2>1
      <4> QED BY ONLY <1>0, <1>a, <3>2, <4>1, SumMoves
    <3> QED BY <2>1, <3>1, <3>2, <3>3
  <2> QED BY <1>2, <2>1, <2>2, BalanceMoves
<1> QED BY <1>1, <1>2

LEMMA SentKept ==
    ASSUME SentInv, out' = out, bytes' = bytes, srv' = srv, got'["up"] = got["up"],
           taken'["up"] = taken["up"], peeked'["up"] = peeked["up"],
           rd'["server"] = rd["server"], sock' => sock
    PROVE  SentInv'
  BY DEF SentInv, Joining

\* The client's end sends something.
LEMMA SentByClient ==
    ASSUME TestInv, NEW op \in Ops, NEW len \in Nat, Send(op, len),
           UNCHANGED <<srv, got, taken, peeked, sock>>, rd'["server"] = rd["server"]
    PROVE  /\ SentInv' /\ out'["down"] = out["down"] /\ bytes'["down"] = bytes["down"]
           /\ sock => out'["up"] = Append(out["up"], [op |-> op, len |-> len])
<1>1. CASE ~sock
  <2>1. out' = out /\ bytes' = bytes
    BY <1>1 DEF Send
  <2> QED BY <1>1, <2>1, SentKept, TestParts
<1>2. CASE sock
  <2> DEFINE pdu == [op |-> op, len |-> len]
             q == out["up"]
  <2>1. send_pdu("up", op, len)
    BY <1>2 DEF Send
  <2>2. /\ out'["up"] = Append(q, pdu) /\ out'["down"] = out["down"]
        /\ bytes'["up"] = bytes["up"] + Size(pdu) /\ bytes'["down"] = bytes["down"]
    BY <2>1, TestParts DEF send_pdu, FrameInv, FramingTypeOK, Streams
  <2>3. pdu \in PDUs /\ q \in Seq(PDUs) /\ Len(q) \in Nat
    BY TestParts DEF PDUs
  <2> HIDE DEF pdu, q
  <2>4. Len(Append(q, pdu)) = Len(q) + 1 /\ \A k \in 1..Len(q) : Append(q, pdu)[k] = q[k]
    BY <2>3
  <2>5. Offset(Append(q, pdu))[Len(q) + 1] = Offset(q)[Len(q)] + Size(pdu)
    BY <2>3, OffsetAppend
  <2>6. ASSUME srv' # "gone"
        PROVE  /\ Len(out'["up"]) >= 1 /\ out'["up"][1] = [op |-> "JOIN", len |-> JOIN_LEN]
               /\ bytes'["up"] = Offset(out'["up"])[Len(out'["up"])]
    <3>1. Len(q) >= 1 /\ q[1] = [op |-> "JOIN", len |-> JOIN_LEN] /\ bytes["up"] = Offset(q)[Len(q)]
      BY <2>6, TestParts DEF SentInv, q
    <3>2. 1 \in 1..Len(q) /\ Len(q) + 1 >= 1
      BY <2>3, <3>1
    <3> QED BY <2>2, <2>4, <2>5, <3>1, <3>2
  <2>7. srv' # "gone" => (sock' /\ Len(got'["up"]) = 0 => Joining')
    BY <1>2, TestParts DEF SentInv, Joining
  <2>8. SentInv'
    BY <2>2, <2>6, <2>7, TestParts DEF SentInv
  <2> QED BY <2>2, <2>8 DEF pdu, q
<1> QED BY <1>1, <1>2, TestParts

LEMMA CountKept ==
    ASSUME TestInv, StaysBroken, SessionInv', dirty => dirty',
           cpc' \in {"menu", "cond", "test"} => cpc \in {"menu", "cond", "test"},
           UNCHANGED <<srv, owed, sent, num_send, num_receive, reg, timed, lpc, out, got, taken, peeked, rd>>
    PROVE  CountInv'
<1> SUFFICES ASSUME Undisturbed'
             PROVE  /\ lpc = "store" => reg = num_receive
                    /\ timed = "no" /\ lpc \in {"loop", "recv"} => num_receive < num_send \/ num_receive = 0
                    /\ Balance'
  BY DEF CountInv
<1>1. Undisturbed
  BY CalmBefore DEF Undisturbed
<1>2. Balance'
  <2>1. Here' = Here /\ Asked' = Asked
    BY DEF Here, OnTheirWay, Answers, Asked
  <2>2. Here' + Asked <= Here + Asked'
    BY <1>1, <2>1, CalmFacts
  <2>3. Balance /\ owed \in Nat /\ Len(out["up"]) \in Nat /\ Here \in Nat /\ Asked \in Nat
    BY <1>1, CalmFacts, TestParts
  <2> QED BY <2>1, <2>2, <2>3, BalanceKept
<1> QED BY <1>1, <1>2, CalmFacts

LEMMA ProcessEndTest ==
    ASSUME TestInv, ProcessEnd
    PROVE  CountType' /\ SentInv' /\ CountInv'
<1>1. /\ cpc' = "ended" /\ sent' = FALSE /\ reg' = 0 /\ timed' = "no" /\ num_send' = 0
      /\ num_receive' = 0 /\ dirty' = dirty /\ owed' = owed /\ sock' = FALSE /\ srv' = srv
      /\ UNCHANGED <<out, bytes, got, taken, peeked>>
      /\ rd' = [r \in Readers |-> IF r = "server" THEN rd[r] ELSE At("idle")]
  BY DEF ProcessEnd, CloseSocket, server
<1>2. CountType'
  <2>1. sent' \in BOOLEAN /\ dirty' \in BOOLEAN
    BY <1>1, TestParts, Zenon
  <2> QED BY <1>1, <2>1, TestParts DEF CountType
<1>3. rd'["server"] = rd["server"]
  BY <1>1 DEF Readers
<1>4. SentInv'
  BY <1>1, <1>3, SentKept, TestParts
<1>5. ~Undisturbed'
  BY <1>1 DEF Undisturbed
<1> QED BY <1>2, <1>4, <1>5 DEF CountInv

LEMMA MenuTest ==
    ASSUME TestInv, Menu, SessionInv', StaysBroken
    PROVE  CountType' /\ SentInv' /\ CountInv'
<1>1. CASE PressEnter
  <2>1. /\ UNCHANGED <<srv, owed, sent, num_send, num_receive, reg, timed, lpc, dirty>>
        /\ UNCHANGED <<out, got, taken, peeked, rd, bytes, sock>> /\ cpc = "menu"
    BY <1>1 DEF PressEnter, NoSocketUse, NoFlagUse, MainOnly, listener, server, fvars
  <2> QED BY <2>1, CountKept, SentKept, TestParts DEF CountType
<1>2. CASE SendQuit
  <2>1. /\ Send("QUIT", 0) /\ rd' = rd /\ cpc' = "cancel"
        /\ UNCHANGED <<srv, owed, sent, num_send, num_receive, reg, timed, lpc, dirty, got,
                       taken, peeked, sock>>
    BY <1>2 DEF SendQuit, NoFlagUse, MainOnly, listener, server
  <2>2. "QUIT" \in Ops /\ 0 \in Nat
    BY DEF Ops
  <2>3. SentInv'
    BY <2>1, <2>2, SentByClient
  <2>4. ~Undisturbed'
    BY <2>1 DEF Undisturbed
  <2> QED BY <2>1, <2>3, <2>4, TestParts DEF CountType, CountInv
<1>3. CASE PickTest
  <2>1. /\ UNCHANGED <<srv, owed, sent, num_send, num_receive, reg, timed, lpc>> /\ cpc = "menu"
        /\ UNCHANGED <<out, got, taken, peeked, rd, bytes, sock>>
    BY <1>3 DEF PickTest, NoSocketUse, NoFlagUse, MainOnly, listener, server, fvars
  <2>2. dirty' \in BOOLEAN /\ (dirty => dirty')
    <3>1. dirty' = TRUE \/ dirty' = dirty \/ dirty' = (dirty \/ ~Quiet \/ num_send # num_receive)
      BY <1>3 DEF PickTest
    <3>2. dirty \in BOOLEAN
      BY TestParts
    <3>3. CASE dirty' = dirty
      BY <3>2, <3>3, Zenon
    <3>4. CASE dirty' = TRUE
      BY <3>4, Zenon
    <3>5. CASE dirty' = (dirty \/ ~Quiet \/ num_send # num_receive)
      <4>1. (dirty \/ ~Quiet \/ num_send # num_receive) \in BOOLEAN
        BY Zenon
      <4> QED BY <3>5, <4>1, Zenon
    <3> QED BY <3>1, <3>3, <3>4, <3>5, Zenon
  <2> QED BY <2>1, <2>2, CountKept, SentKept, TestParts DEF CountType
<1>4. ASSUME NEW op \in MenuOps, SendRequest(op) PROVE CountType' /\ SentInv' /\ CountInv'
  <2> DEFINE len == IF op = "INSERT" THEN INSERT_LEN ELSE 0
  <2>1. /\ Send(op, len) /\ rd' = rd /\ dirty' = TRUE
        /\ UNCHANGED <<srv, owed, sent, num_send, num_receive, reg, timed, lpc, got, taken, peeked,
                       sock>>
    BY <1>4 DEF SendRequest, NoFlagUse, MainOnly, listener, server
  <2>2. op \in Ops /\ len \in Nat
    BY SessionAssumption DEF Ops
  <2> HIDE DEF len
  <2>3. SentInv'
    BY <2>1, <2>2, SentByClient
  <2>4. ~Undisturbed' /\ dirty' \in BOOLEAN
    BY <2>1 DEF Undisturbed
  <2> QED BY <2>1, <2>3, <2>4, TestParts DEF CountType, CountInv
<1> QED BY <1>1, <1>2, <1>3, <1>4 DEF Menu

LEMMA ResetTest ==
    ASSUME TestInv, ResetReceive
    PROVE  CountType' /\ SentInv' /\ CountInv'
<1>1. /\ cpc' = "test" /\ num_receive' = 0 /\ dirty' = ~Quiet
      /\ UNCHANGED <<srv, owed, sent, num_send, reg, timed, lpc, sock, met>>
      /\ UNCHANGED <<out, got, taken, peeked, rd, bytes, short, closed>>
  BY DEF ResetReceive, NoSocketUse, MainOnly, listener, server, fvars
<1>2. CountType'
  <2>1. dirty' \in BOOLEAN
    BY <1>1
  <2> QED BY <1>1, <2>1, TestParts DEF CountType
<1>3. SentInv'
  BY <1>1, SentKept, TestParts
<1>4. ASSUME Undisturbed' PROVE Balance' /\ lpc' # "store"
  <2>1. /\ \A s \in Streams : Unread(s) = 0
        /\ owed = 0 /\ rd["server"].pc = "peek"
        /\ lpc \in {"loop", "recv"} /\ rd["listen"].pc \in {"idle", "peek"}
    BY <1>1, <1>4 DEF Undisturbed, Quiet
  <2>2. ~Broken("down") /\ sock
    BY <1>1, <1>4 DEF Undisturbed, Broken, Reset, Unread
  <2>3. InStep("down")
    BY <2>2, TestParts DEF StepInv, Followed, Streams
  <2> DEFINE q == out["down"]
             g == Len(got["down"])
             p == out["up"]
  <2>4. /\ q \in Seq(PDUs) /\ Len(q) \in Nat /\ g \in Nat
        /\ p \in Seq(PDUs) /\ Len(p) \in Nat /\ Len(got["up"]) \in Nat
    BY TestParts
  <2>5. bytes["down"] = taken["down"] /\ bytes["up"] = taken["up"]
    <3>1. Unread("down") = 0 /\ Unread("up") = 0 /\ "up" \in Streams /\ "down" \in Streams
      BY <2>1 DEF Streams
    <3>2. /\ bytes["down"] \in Nat /\ taken["down"] \in Nat /\ bytes["up"] \in Nat /\ taken["up"] \in Nat
      BY <3>1, TestParts, FrameFacts
    <3> QED BY <3>1, <3>2 DEF Unread
  <2>6. g = Len(q)
    <3>1. bytes["down"] = Offset(q)[Len(q)] /\ taken["down"] = Offset(q)[g] /\ g <= Len(q)
      BY <2>1, <2>3 DEF InStep, ReaderOf
    <3>2. Offset(q)[g] \in Nat /\ g \in 0..Len(q) /\ Len(q) \in 0..Len(q)
      BY <2>4, <3>1, OffsetType
    <3>3. Offset(q)[g] = Offset(q)[Len(q)]
      BY <2>5, <3>1
    <3> HIDE DEF q, g
    <3>4. ~(Offset(q)[g] < Offset(q)[Len(q)])
      BY <3>2, <3>3
    <3>5. ~(g < Len(q))
      BY <2>4, <3>2, <3>4, OffsetIncreases
    <3> QED BY <2>4, <3>1, <3>5
  <2>7. OnTheirWay = 0
    BY <2>4, <2>6 DEF OnTheirWay, Answers
  <2>8. Here' = 0
    <3>1. OnTheirWay' = OnTheirWay
      BY <1>1 DEF OnTheirWay, Answers
    <3>2. lpc' # "store" /\ rd'["listen"].pc # "done"
      BY <1>1, <2>1
    <3> QED BY <1>1, <2>7, <3>1, <3>2 DEF Here, One
  <2>9. srv # "gone"
    BY <2>1, TestParts DEF EndsInv, At
  <2>10. Len(p) >= 1 /\ bytes["up"] = Offset(p)[Len(p)]
    BY <2>9, TestParts DEF SentInv
  <2>11. Len(got["up"]) # 0
    <3> SUFFICES ASSUME Len(got["up"]) = 0 PROVE FALSE
      OBVIOUS
    <3>1. taken["up"] = 0
      BY <2>1, <2>2, <2>9, TestParts DEF SentInv, Joining
    <3>2. Offset(p)[0] < Offset(p)[Len(p)]
      <4>1. 0 \in 0..Len(p) /\ Len(p) \in 0..Len(p) /\ 0 < Len(p)
        BY <2>4, <2>10
      <4> QED BY <2>4, <4>1, OffsetIncreases
    <3>3. Offset(p)[0] = Offset(p)[Len(p)] /\ Offset(p)[0] = 0
      BY <2>4, <2>5, <2>10, <3>1, OffsetEquation
    <3> HIDE DEF p
    <3> QED BY <3>2, <3>3
  <2>12. PICK n \in Nat : n = Len(p)
    BY <2>4
  <2>a. Behind(n)'
    <3>1. Offset(p)[Len(p)] \in Nat
      BY <2>4, OffsetType
    <3>2. Offset(p)[n] <= taken["up"]
      BY <2>5, <2>10, <2>12, <3>1
    <3> HIDE DEF p
    <3> QED BY <1>1, <2>1, <2>11, <3>2 DEF Behind, p
  <2>13. Pending' = 0 /\ owed' = 0
    BY <1>1, <2>1 DEF Pending, One
  <2>14. Asked' \in Nat
    <3>1. Asked' = Asked
      BY <1>1 DEF Asked
    <3> QED BY <3>1, TestParts, AskedType
  <2>15. n \in 1..Len(out'["up"]) /\ srv' # "gone" /\ Len(out'["up"]) - n = 0
    BY <1>1, <2>4, <2>9, <2>10, <2>12
  <2>16. Here' + owed' + Pending' + (Len(out'["up"]) - n) <= Asked'
    BY <2>8, <2>13, <2>14, <2>15
  <2>17. Balance'
    BY <2>a, <2>15, <2>16 DEF Balance
  <2> QED BY <1>1, <2>1, <2>17
<1> QED BY <1>1, <1>2, <1>3, <1>4 DEF CountInv

\* Sending a PDU leaves the server's listener where it is.
LEMMA BehindSend ==
    ASSUME out["up"] \in Seq(PDUs), NEW c \in 1..Len(out["up"]), Behind(c), NEW p \in PDUs,
           out'["up"] = Append(out["up"], p), got'["up"] = got["up"], taken'["up"] = taken["up"],
           peeked'["up"] = peeked["up"], rd'["server"] = rd["server"]
    PROVE  Behind(c)' /\ c \in 1..Len(out'["up"]) /\ Len(out'["up"]) = Len(out["up"]) + 1
<1> DEFINE q == out["up"]
           t == out'["up"]
<1>1. /\ q \in Seq(PDUs) /\ Len(q) \in Nat /\ t = Append(q, p) /\ c \in 1..Len(q)
      /\ Len(t) = Len(q) + 1 /\ \A k \in 1..Len(q) : t[k] = q[k]
  OBVIOUS
<1> HIDE DEF q, t
<1>2. \A j \in 0..Len(q) : Offset(t)[j] = Offset(q)[j]
  BY <1>1, OffsetAppend
<1>3. c \in 1..Len(t) /\ Offset(t)[c] = Offset(q)[c]
  BY <1>1, <1>2
<1>4. c < Len(q) => c < Len(t) /\ Offset(t)[c + 1] = Offset(q)[c + 1]
  BY <1>1, <1>2
<1>5. \A k \in (c + 1)..Len(q) :
         k \in (c + 1)..Len(t) /\ Offset(t)[k - 1] = Offset(q)[k - 1] /\ t[k] = q[k]
  <2> TAKE k \in (c + 1)..Len(q)
  <2>1. k - 1 \in 0..Len(q) /\ k \in 1..Len(q) /\ k \in (c + 1)..Len(t)
    BY <1>1
  <2> QED BY <1>1, <1>2, <2>1
<1>6. Behind(c)'
  <2>1. Len(got["up"]) = 0 => c = 1
    BY DEF Behind
  <2>2. Len(got["up"]) > 0 => Offset(q)[c] <= taken["up"]
    BY DEF Behind, q
  <2>3. Len(got["up"]) > 0 => (rd["server"].pc = "body" =>
           c < Len(q) /\ Offset(q)[c + 1] <= taken["up"] + rd["server"].want)
    BY DEF Behind, q
  <2>4. Len(got["up"]) > 0 => (rd["server"].pc = "head" =>
           /\ rd["server"].want = HEADERSIZE /\ peeked["up"] = HEADERSIZE
           /\ rd["server"].op \in {"INIT", "QUIT", "JOIN", "KERNEL"}
           /\ \E k \in (c + 1)..Len(q) : Offset(q)[k - 1] = taken["up"] /\ q[k].op = rd["server"].op)
    BY DEF Behind, q
  <2>5. Len(got["up"]) > 0 => (rd["server"].pc = "body" =>
           c < Len(t) /\ Offset(t)[c + 1] <= taken["up"] + rd["server"].want)
    BY <1>4, <2>3
  <2>6. Len(got["up"]) > 0 => (rd["server"].pc = "head" =>
           /\ rd["server"].want = HEADERSIZE /\ peeked["up"] = HEADERSIZE
           /\ rd["server"].op \in {"INIT", "QUIT", "JOIN", "KERNEL"}
           /\ \E k \in (c + 1)..Len(t) : Offset(t)[k - 1] = taken["up"] /\ t[k].op = rd["server"].op)
    BY <1>5, <2>4
  <2>7. Len(got["up"]) > 0 => Offset(t)[c] <= taken["up"]
    BY <1>3, <2>2
  <2> QED BY <2>1, <2>5, <2>6, <2>7 DEF Behind, t
<1> QED BY <1>1, <1>3, <1>6 DEF q, t

LEMMA SumSends == \A h, o, p, n, c, a \in Int : h + o + p + ((n + 1) - c) + a <= h + o + p + (n - c) + (a + 1)
  OBVIOUS

LEMMA TestSendTest ==
    ASSUME TestInv, TestSend, SessionInv', StaysBroken
    PROVE  CountType' /\ SentInv' /\ CountInv'
<1>1. /\ Send("INSERT", INSERT_LEN) /\ rd' = rd /\ cpc = "test" /\ cpc' = cpc /\ ~sent /\ sent' = TRUE
      /\ UNCHANGED <<srv, owed, num_send, num_receive, reg, timed, lpc, dirty, taken, peeked,
                     got, sock>>
  BY DEF TestSend, NoFlagUse, MainOnly, listener, server
<1>2. "INSERT" \in Ops /\ INSERT_LEN \in Nat
  BY SessionAssumption DEF Ops
<1>3. /\ SentInv' /\ out'["down"] = out["down"]
      /\ sock => out'["up"] = Append(out["up"], [op |-> "INSERT", len |-> INSERT_LEN])
  BY <1>1, <1>2, SentByClient
<1>4. CountType'
  <2>1. sent' \in BOOLEAN /\ dirty' \in BOOLEAN
    BY <1>1, TestParts, Zenon
  <2> QED BY <1>1, <2>1, TestParts DEF CountType
<1>5. ASSUME Undisturbed' PROVE Undisturbed /\ Balance'
  <2>1. Undisturbed
    BY <1>1, <1>5, CalmBefore
  <2>2. sock /\ Balance /\ Here \in Nat /\ Asked \in Nat /\ Pending \in Nat
    BY <2>1, CalmFacts
  <2>3. Here' = Here /\ Pending' = Pending /\ owed' = owed
    BY <1>1, <1>3 DEF Here, OnTheirWay, Answers, Pending
  <2>4. Asked = num_send /\ Asked' = Asked + 1
    BY <1>1, TestParts DEF Asked, One
  <2>5. CASE srv = "gone"
    <3>1. Here <= Asked
      BY <2>2, <2>5 DEF Balance
    <3>2. Here <= Asked + 1
      BY <2>2, <3>1
    <3>3. Here' <= Asked'
      BY <2>3, <2>4, <3>2
    <3>4. srv' = "gone"
      BY <1>1, <2>5
    <3> QED BY <2>1, <3>3, <3>4 DEF Balance
  <2>6. CASE srv # "gone"
    <3> DEFINE p == [op |-> "INSERT", len |-> INSERT_LEN]
    <3>1. p \in PDUs /\ out'["up"] = Append(out["up"], p)
      BY <1>2, <1>3, <2>2 DEF PDUs
    <3> HIDE DEF p
    <3>2. ASSUME NEW c \in 1..Len(out["up"]), Behind(c)
          PROVE  Behind(c)' /\ c \in 1..Len(out'["up"]) /\ Len(out'["up"]) = Len(out["up"]) + 1
      BY <1>1, <3>1, <3>2, BehindSend, TestParts
    <3>3. ASSUME NEW c \in 1..Len(out["up"]), Behind(c)
          PROVE  Here' + owed' + Pending' + (Len(out'["up"]) - c) + Asked
                    <= Here + owed + Pending + (Len(out["up"]) - c) + Asked'
      <4>1. Len(out'["up"]) = Len(out["up"]) + 1
        BY <3>2, <3>3
      <4>2. /\ Here \in Int /\ owed \in Int /\ Pending \in Int /\ Len(out["up"]) \in Int /\ Asked \in Int
            /\ c \in Int
        BY <2>2, TestParts
      <4>3. Here + owed + Pending + ((Len(out["up"]) + 1) - c) + Asked
               <= Here + owed + Pending + (Len(out["up"]) - c) + (Asked + 1)
        BY ONLY <4>2, SumSends
      <4> QED BY <2>3, <2>4, <4>1, <4>3
    <3>4. /\ Here' \in Nat /\ Pending' \in Nat /\ owed' \in Nat /\ owed \in Nat /\ Asked' \in Nat
          /\ Len(out["up"]) \in Nat /\ Len(out'["up"]) \in Nat
      <4>1. Len(out'["up"]) \in Nat
        BY <3>1, TestParts
      <4>2. Asked + 1 \in Nat
        BY <2>2
      <4> QED BY <2>2, <2>3, <2>4, <4>1, <4>2, TestParts
    <3>5. \A c \in 1..Len(out["up"]) : Behind(c) =>
             \E d \in 1..Len(out'["up"]) :
                /\ Behind(d)'
                /\ Here' + owed' + Pending' + (Len(out'["up"]) - d) + Asked
                      <= Here + owed + Pending + (Len(out["up"]) - c) + Asked'
      BY <3>2, <3>3
    <3>6. srv' # "gone"
      BY <1>1, <2>6
    <3> QED BY <2>1, <2>2, <2>6, <3>4, <3>5, <3>6, BalanceMoves
  <2> QED BY <2>1, <2>5, <2>6
<1> QED BY <1>1, <1>3, <1>4, <1>5, CalmFacts DEF CountInv

LEMMA TestCountTest ==
    ASSUME TestInv, TestCount, SessionInv', StaysBroken
    PROVE  CountType' /\ SentInv' /\ CountInv'
<1>1. /\ cpc = "test" /\ sent /\ sent' = FALSE /\ num_send' = num_send + 1
      /\ UNCHANGED <<srv, owed, num_receive, reg, timed, lpc, dirty, taken, peeked, got, sock,
                     out, bytes, rd>>
  BY DEF TestCount, NoSocketUse, MainOnly, listener, server, fvars
<1>2. SentInv'
  BY <1>1, SentKept, TestParts
<1>3. CountType'
  <2>1. sent' \in BOOLEAN /\ dirty' \in BOOLEAN
    BY <1>1, TestParts, Zenon
  <2> QED BY <1>1, <2>1, TestParts DEF CountType
<1>4. ASSUME Undisturbed' PROVE Undisturbed /\ Balance'
  <2>1. Undisturbed
    BY <1>1, <1>4, CalmBefore
  <2>2. Balance /\ Here \in Nat /\ Asked \in Nat
    BY <2>1, CalmFacts
  <2>3. Here' = Here
    BY <1>1 DEF Here, OnTheirWay, Answers
  <2>4. Asked' = Asked
    <3>1. sent = TRUE
      BY <1>1, TestParts
    <3> QED BY <1>1, <3>1, TestParts DEF Asked, One
  <2>5. Here + Asked <= Here + Asked
    BY <2>2
  <2> QED BY <1>1, <2>1, <2>2, <2>3, <2>4, <2>5, BalanceKept, TestParts
<1>5. ASSUME Undisturbed', timed' = "no", lpc' \in {"loop", "recv"}
      PROVE  num_receive' < num_send' \/ num_receive' = 0
  <2>1. num_receive < num_send \/ num_receive = 0
    BY <1>1, <1>4, <1>5, CalmFacts
  <2> QED BY <1>1, <2>1, TestParts
<1> QED BY <1>1, <1>2, <1>3, <1>4, <1>5, CalmFacts DEF CountInv

LEMMA MainTest ==
    ASSUME TestInv, Main, SessionInv', StaysBroken
    PROVE  CountType' /\ SentInv' /\ CountInv'
<1>0. /\ "main" \in Readers /\ "server" \in Readers /\ "up" \in Streams
      /\ "INSERT" \in Ops /\ "GET" \in Ops /\ INSERT_LEN \in Nat /\ 0 \in Nat
  BY SessionAssumption DEF Readers, Streams, Ops
\* Nobody's counters are of interest behind the end of the menu.
<1>1. ASSUME cpc' \notin {"menu", "cond", "test"} \/ met', SentInv', num_send' \in Nat,
             UNCHANGED <<owed, sent, num_receive, reg, timed, dirty>>
      PROVE  CountType' /\ SentInv' /\ CountInv'
  <2>1. ~Undisturbed'
    BY <1>1 DEF Undisturbed, Broken
  <2> QED BY <1>1, <2>1, TestParts DEF CountType, CountInv
<1>2. CASE Cond
  <2>1. /\ UNCHANGED <<srv, owed, sent, num_send, num_receive, reg, timed, lpc, dirty>>
        /\ UNCHANGED <<out, got, taken, peeked, rd, bytes, sock>> /\ cpc = "cond"
    BY <1>2 DEF Cond, NoSocketUse, NoFlagUse, MainOnly, listener, server, fvars
  <2> QED BY <2>1, CountKept, SentKept, TestParts DEF CountType
<1>3. CASE Close \/ SetFlag \/ ResetSend
  <2>1. /\ UNCHANGED <<srv, owed, sent, num_receive, reg, timed, lpc, dirty>>
        /\ UNCHANGED <<out, got, taken, peeked, rd, bytes>> /\ cpc' \in {"flag", "cancel", "reset_receive"}
        /\ (sock' = FALSE \/ sock' = sock) /\ (num_send' = 0 \/ num_send' = num_send)
    BY <1>3 DEF Close, SetFlag, ResetSend, CloseSocket, NoSocketUse, NoFlagUse, MainOnly,
        listener, server, fvars
  <2>2. SentInv'
    BY <2>1, SentKept, TestParts
  <2> QED BY <1>1, <2>1, <2>2, TestParts
<1>4. CASE CancelAndJoin \/ SixCrash
  BY <1>4, ProcessEndTest DEF CancelAndJoin, SixCrash
<1>5. CASE SixSend
  <2>1. /\ Send("INSERT", INSERT_LEN) \/ Send("GET", 0)
        /\ UNCHANGED <<srv, owed, sent, num_send, num_receive, reg, timed, lpc, dirty, got,
                       taken, peeked, sock>>
        /\ cpc' \notin {"menu", "cond", "test"} /\ rd' = [rd EXCEPT !["main"] = At("peek")]
    BY <1>5 DEF SixSend, NoFlagUse, MainOnly, listener, server
  <2>2. rd'["server"] = rd["server"]
    BY <1>0, <2>1, TestParts
  <2>3. SentInv'
    BY <1>0, <2>1, <2>2, SentByClient
  <2> QED BY <1>1, <2>1, <2>3, TestParts
<1>6. CASE SixRead
  <2>1. /\ receive_pdu("main", ~sock)
        /\ UNCHANGED <<srv, owed, sent, num_send, num_receive, reg, timed, dirty, sock, met>>
    BY <1>6 DEF SixRead, NoFlagUse, MainOnly, listener, server, client
  <2>2. (~sock) \in BOOLEAN
    BY Zenon
  <2>3. /\ \A p \in Readers : p # "main" => rd'[p] = rd[p]
        /\ \A s \in Streams : s # StreamOf("main") =>
              got'[s] = got[s] /\ taken'[s] = taken[s] /\ peeked'[s] = peeked[s]
        /\ UNCHANGED <<out, bytes>>
        /\ rd["main"].pc \in {"peek", "head", "body"}
    BY <1>0, <2>1, <2>2, ReceiveKeeps, TestParts
  <2>4. met
    BY <2>3, TestParts DEF EndsInv, At
  <2>5. /\ rd'["server"] = rd["server"] /\ got'["up"] = got["up"]
        /\ taken'["up"] = taken["up"] /\ peeked'["up"] = peeked["up"]
    BY <1>0, <2>3 DEF StreamOf
  <2>6. SentInv'
    BY <2>1, <2>3, <2>5, SentKept, TestParts
  <2> QED BY <1>1, <2>1, <2>4, <2>6, TestParts
<1>7. CASE SixDone
  <2>1. /\ rd["main"].pc = "done" /\ rd' = [rd EXCEPT !["main"] = At("idle")]
        /\ UNCHANGED <<srv, owed, sent, num_send, num_receive, reg, timed, lpc, dirty, out,
                       bytes, got, taken, peeked, sock, met>>
    BY <1>7 DEF SixDone, NoFlagUse, MainOnly, listener, server
  <2>2. rd'["server"] = rd["server"] /\ met
    BY <1>0, <2>1, TestParts DEF EndsInv, At
  <2>3. SentInv'
    BY <2>1, <2>2, SentKept, TestParts
  <2> QED BY <1>1, <2>1, <2>2, <2>3, TestParts
<1> QED BY <1>2, <1>3, <1>4, <1>5, <1>6, <1>7, ResetTest, TestSendTest, TestCountTest DEF Main

\* A step of client_listen that leaves the answers where they are or takes them
\* one station further.
LEMMA ListenKept ==
    ASSUME TestInv, StaysBroken, UNCHANGED <<srv, owed, sent, num_send, cpc, dirty, out, bytes,
                                             sock>>,
           got'["up"] = got["up"], taken'["up"] = taken["up"], peeked'["up"] = peeked["up"],
           rd'["server"] = rd["server"],
           num_receive' \in Nat, reg' \in Nat, timed' \in {"no", "yes", "overtaken"},
           Undisturbed /\ Undisturbed' =>
              /\ lpc' = "store" => reg' = num_receive'
              /\ timed' = "no" /\ lpc' \in {"loop", "recv"} => num_receive' < num_send \/ num_receive' = 0
              /\ Here' = Here
    PROVE  CountType' /\ SentInv' /\ CountInv'
<1>1. SentInv'
  BY SentKept, TestParts
<1>2. CountType'
  BY TestParts DEF CountType
<1>3. ASSUME Undisturbed' PROVE Undisturbed /\ Balance'
  <2>1. Undisturbed
    <3>1. cpc \in {"menu", "cond", "test"}
      BY <1>3 DEF Undisturbed
    <3> QED BY <1>3, <3>1, CalmBefore
  <2>2. Balance /\ Here \in Nat /\ Asked \in Nat /\ Here' = Here
    BY <1>3, <2>1, CalmFacts
  <2>3. Asked' = Asked
    BY DEF Asked
  <2>4. Here + Asked <= Here + Asked
    BY <2>2
  <2> QED BY <2>1, <2>2, <2>3, <2>4, BalanceKept, TestParts
<1> QED BY <1>1, <1>2, <1>3 DEF CountInv

\* receive_pdu by a reader in step either goes on with the PDU or is done with it.
LEMMA ReadsOne ==
    ASSUME FrameInv, NEW s \in Streams, NEW r \in Readers, r = ReaderOf(s), InStep(s), ~Reset(s),
           receive_pdu(r, FALSE)
    PROVE  /\ rd[r].pc # "done"
           /\ \/ rd'[r].pc # "done" /\ got'[s] = got[s]
              \/ /\ rd'[r].pc = "done" /\ rd'[r].op = rd[r].op
                 /\ got'[s] = Append(got[s], rd[r].op)
                 /\ Len(got[s]) < Len(out[s])
                 /\ rd[r].op = out[s][Len(got[s]) + 1].op
<1>0. StreamOf(r) = s
  BY DEF Streams, StreamOf, ReaderOf
<1>a. rd[r] \in RdType /\ DOMAIN rd = Readers /\ DOMAIN got = Streams
  BY ReaderFacts, FrameFacts
<1>1. CASE Peek(r)
  <2>1. /\ rd[r].pc = "peek" /\ got' = got
        /\ rd' = [rd EXCEPT ![r] = IF Current(s) = 0 THEN At("lost") ELSE FirstRecv(out[s][Current(s)])]
    BY <1>0, <1>1 DEF Peek
  <2>2. Current(s) # 0 => FirstRecv(out[s][Current(s)]).pc # "done"
    BY CurrentIsSent, FirstRecvType
  <2>3. rd'[r].pc # "done"
    BY <1>a, <2>1, <2>2 DEF At
  <2> QED BY <2>1, <2>3
<1>2. CASE PeekEnd(r, FALSE)
  <2>1. rd[r].pc = "peek" /\ got' = got /\ rd'[r] \in {At("eof"), At("null")}
    BY <1>2, <1>a DEF PeekEnd
  <2> QED BY <2>1 DEF At
<1>3. CASE RecvError(r, FALSE)
  BY <1>0, <1>3 DEF RecvError
<1>4. CASE Recv(r)
  <2>1. PICK n \in Nat :
          /\ rd' = [rd EXCEPT ![r] = IF n = rd[r].want THEN AfterRecv(r) ELSE [rd[r] EXCEPT !.op = Misread(rd[r].op)]]
          /\ got' = IF rd'[r].pc = "done" THEN [got EXCEPT ![s] = Append(@, rd[r].op)] ELSE got
          /\ rd[r].pc \in {"head", "body"}
    BY <1>0, <1>4, RecvFacts
  <2>2. CASE rd'[r].pc # "done"
    BY <2>1, <2>2
  <2>3. CASE rd'[r].pc = "done"
    <3>1. got'[s] = Append(got[s], rd[r].op)
      BY <1>a, <2>1, <2>3
    <3>2. rd'[r] = AfterRecv(r)
      <4>1. CASE n = rd[r].want
        BY <1>a, <2>1, <4>1
      <4>2. CASE n # rd[r].want
        <5>1. rd'[r] = [rd[r] EXCEPT !.op = Misread(rd[r].op)]
          BY <1>a, <2>1, <4>2
        <5>2. rd'[r].pc = rd[r].pc
          BY <1>a, <5>1 DEF RdType
        <5> QED BY <2>1, <2>3, <5>2
      <4> QED BY <4>1, <4>2
    <3>3. rd'[r].op = rd[r].op
      <4>1. AfterRecv(r).pc = "done"
        BY <2>3, <3>2
      <4>2. AfterRecv(r) = [rd[r] EXCEPT !.pc = "done", !.want = 0]
        <5>1. At("lost").pc # "done"
          BY DEF At
        <5>2. ASSUME NEW w PROVE [rd[r] EXCEPT !.pc = "body", !.want = w].pc # "done"
          BY <1>a DEF RdType
        <5> QED BY <4>1, <5>1, <5>2 DEF AfterRecv
      <4> QED BY <1>a, <3>2, <4>2 DEF RdType
    <3>4. Len(got[s]) < Len(out[s]) /\ rd[r].op = out[s][Len(got[s]) + 1].op
      BY <2>1 DEF InStep
    <3> QED BY <2>1, <2>3, <3>1, <3>3, <3>4
  <2> QED BY <2>1, <2>2, <2>3
<1> QED BY <1>1, <1>2, <1>3, <1>4 DEF receive_pdu

\* The answer that client_listen reads was on its way.
LEMMA AnswerArrives ==
    ASSUME TestInv, out' = out, got'["down"] = Append(got["down"], rd["listen"].op),
           Len(got["down"]) < Len(out["down"]),
           rd["listen"].op = out["down"][Len(got["down"]) + 1].op
    PROVE  OnTheirWay = OnTheirWay' + One(rd["listen"].op # "QUIT") /\ OnTheirWay' \in Nat
<1> DEFINE g == Len(got["down"])
           q == out["down"]
           op == rd["listen"].op
<1>1. g \in Nat /\ Len(q) \in Nat /\ Len(got'["down"]) = g + 1 /\ g < Len(q) /\ op = q[g + 1].op
  <2>1. got["down"] \in Seq(Ops \cup {"garbled"})
    BY TestParts, FrameFacts DEF Streams
  <2>2. Len(Append(got["down"], rd["listen"].op)) = Len(got["down"]) + 1
    BY <2>1
  <2> QED BY <2>2, TestParts
<1>2. Answers' = Answers
  BY DEF Answers
<1>3. CASE op = "QUIT"
  <2>1. g + 1 \in 1..Len(q)
    BY <1>1
  <2>2. g + 1 = Len(q)
    BY <1>1, <1>3, <2>1, TestParts DEF SentInv
  <2>3. Answers = g
    <3>1. Len(q) > 0 /\ q[Len(q)].op = "QUIT"
      <4>1. Len(q) > 0 /\ op = q[g + 1].op
        BY <1>1
      <4> HIDE DEF q, g, op
      <4>2. q[g + 1].op = q[Len(q)].op
        BY ONLY <2>2, Zenon
      <4> QED BY <1>3, <4>1, <4>2, Zenon
    <3>2. Answers = Len(q) - 1
      BY <3>1 DEF Answers
    <3> HIDE DEF q, g
    <3> QED BY <1>1, <2>2, <3>2
  <2>4. OnTheirWay = 0 /\ OnTheirWay' = 0
    <3> HIDE DEF g
    <3>1. ~(g < g) /\ ~(g + 1 < g)
      BY <1>1
    <3> QED BY <1>1, <1>2, <2>3, <3>1 DEF OnTheirWay, g
  <2> QED BY <1>3, <2>4 DEF One
<1>4. CASE op # "QUIT"
  <2>1. Answers \in Nat /\ g + 1 <= Answers
    <3>1. CASE Len(q) > 0 /\ q[Len(q)].op = "QUIT"
      <4>1. Answers = Len(q) - 1 /\ g + 1 # Len(q)
        BY <1>1, <1>4, <3>1 DEF Answers
      <4> QED BY <1>1, <4>1
    <3>2. CASE ~(Len(q) > 0 /\ q[Len(q)].op = "QUIT")
      <4>1. Answers = Len(q)
        BY <3>2 DEF Answers
      <4> QED BY <1>1, <4>1
    <3> QED BY <3>1, <3>2
  <2>2. OnTheirWay = Answers - g
    <3>1. g < Answers
      BY <1>1, <2>1
    <3> QED BY <3>1 DEF OnTheirWay
  <2>3. OnTheirWay' = Answers - (g + 1)
    <3>1. CASE g + 1 < Answers
      BY <1>1, <1>2, <3>1 DEF OnTheirWay
    <3>2. CASE ~(g + 1 < Answers)
      <4>1. OnTheirWay' = 0
        BY <1>1, <1>2, <3>2 DEF OnTheirWay
      <4>2. Answers - (g + 1) = 0
        BY <1>1, <2>1, <3>2
      <4> QED BY <4>1, <4>2
    <3> QED BY <3>1, <3>2
  <2>4. One(op # "QUIT") = 1
    BY <1>4 DEF One
  <2>5. Answers - g = (Answers - (g + 1)) + 1 /\ Answers - (g + 1) \in Nat
    <3> HIDE DEF g
    <3> QED BY <1>1, <2>1
  <2> HIDE DEF g
  <2> QED BY <2>2, <2>3, <2>4, <2>5
<1> QED BY <1>3, <1>4

LEMMA SumArrives == \A m, s, x, y, o \in Int : x = y + o => m + s + o + y = m + s + 0 + x
  OBVIOUS

LEMMA SumLoads == \A m, x \in Int : m + 1 + 0 + x = m + 0 + 1 + x /\ (m + 1) + 0 + 0 + x = m + 1 + 0 + x
  OBVIOUS

LEMMA ListenReadTest ==
    ASSUME TestInv, ListenRead, SessionInv', StaysBroken
    PROVE  CountType' /\ SentInv' /\ CountInv'
<1>0. "listen" \in Readers /\ "server" \in Readers /\ "up" \in Streams /\ StreamOf("listen") = "down"
  BY DEF Readers, Streams, StreamOf
<1>1. /\ lpc = "recv" /\ receive_pdu("listen", ~sock)
      /\ UNCHANGED <<srv, owed, sent, num_send, num_receive, cpc, dirty, sock, lpc, reg, timed, met>>
  BY DEF ListenRead, NoFlagUse, ListenOnly, client, server, listener
<1>2. (~sock) \in BOOLEAN
  BY Zenon
<1>3. /\ \A p \in Readers : p # "listen" => rd'[p] = rd[p]
      /\ \A s \in Streams : s # StreamOf("listen") =>
            taken'[s] = taken[s] /\ peeked'[s] = peeked[s] /\ got'[s] = got[s]
      /\ out' = out /\ bytes' = bytes
  BY <1>0, <1>1, <1>2, ReceiveKeeps, TestParts
<1>4. /\ rd'["server"] = rd["server"] /\ got'["up"] = got["up"] /\ taken'["up"] = taken["up"]
      /\ peeked'["up"] = peeked["up"]
  BY <1>0, <1>3
<1>5. ASSUME Undisturbed PROVE Here' = Here
  <2>1. sock /\ InStep("down") /\ ~Reset("down")
    BY <1>5, CalmFacts
  <2>2. (~sock) = FALSE
    BY <2>1, TestParts
  <2>3. receive_pdu("listen", FALSE)
    BY <1>1, <2>2
  <2>4. /\ rd["listen"].pc # "done"
        /\ \/ rd'["listen"].pc # "done" /\ got'["down"] = got["down"]
           \/ /\ rd'["listen"].pc = "done" /\ rd'["listen"].op = rd["listen"].op
              /\ got'["down"] = Append(got["down"], rd["listen"].op)
              /\ Len(got["down"]) < Len(out["down"])
              /\ rd["listen"].op = out["down"][Len(got["down"]) + 1].op
    <3>1. "down" \in Streams /\ ReaderOf("down") = "listen"
      BY DEF Streams, ReaderOf
    <3> QED BY <1>0, <2>1, <2>3, <3>1, TestParts, ReadsOne
  <2>5. CASE rd'["listen"].pc # "done" /\ got'["down"] = got["down"]
    <3>1. OnTheirWay' = OnTheirWay
      BY <1>3, <2>5 DEF OnTheirWay, Answers
    <3> QED BY <1>1, <2>4, <2>5, <3>1 DEF Here, One
  <2>6. CASE rd'["listen"].pc = "done" /\ rd'["listen"].op = rd["listen"].op
    <3> DEFINE x == OnTheirWay
               y == OnTheirWay'
               o == One(rd["listen"].op # "QUIT")
    <3>1. x = y + o /\ y \in Nat
      BY <1>3, <2>4, <2>6, AnswerArrives
    <3>2. Here = num_receive + 0 + 0 + x
      BY <1>1, <2>4 DEF Here, One
    <3>3. Here' = num_receive + 0 + o + y
      BY <1>1, <2>6 DEF Here, One
    <3>4. x \in Int /\ y \in Int /\ o \in Int /\ num_receive \in Int /\ 0 \in Int
      BY <3>1, TestParts, AnswersType DEF One
    <3> HIDE DEF x, y, o
    <3>5. num_receive + 0 + o + y = num_receive + 0 + 0 + x
      BY ONLY <3>1, <3>4, SumArrives
    <3> QED BY <3>2, <3>3, <3>5
  <2> QED BY <2>4, <2>5, <2>6
<1>6. /\ Undisturbed /\ lpc' = "store" => reg' = num_receive'
      /\ Undisturbed /\ timed' = "no" /\ lpc' \in {"loop", "recv"} => num_receive' < num_send \/ num_receive' = 0
  BY <1>1, CalmFacts
<1>7. num_receive' \in Nat /\ reg' \in Nat /\ timed' \in {"no", "yes", "overtaken"}
  BY <1>1, TestParts DEF CountType
<1> QED BY <1>1, <1>3, <1>4, <1>5, <1>6, <1>7, ListenKept

LEMMA ListenTest ==
    ASSUME TestInv, Listen, SessionInv', StaysBroken
    PROVE  CountType' /\ SentInv' /\ CountInv'
<1>0. "listen" \in Readers /\ "server" \in Readers
  BY DEF Readers
<1>a. OnTheirWay \in Int /\ num_receive \in Int
  BY TestParts, AnswersType
<1>b. timed \in {"no", "yes", "overtaken"}
  BY TestParts DEF CountType
<1>1. CASE ListenLoop
  <2>1. CASE close_client
    <3>1. /\ sock' = FALSE /\ rd' = rd
          /\ UNCHANGED <<out, bytes, got, taken, peeked, srv, owed, sent, num_send, num_receive, reg,
                         timed, dirty>>
      BY <1>1, <2>1 DEF ListenLoop, CloseSocket, ListenOnly, NoFlagUse, client, server
    <3>2. SentInv'
      BY <3>1, SentKept, TestParts
    <3>3. ~Undisturbed'
      BY <3>1 DEF Undisturbed, Broken
    <3> QED BY <3>1, <3>2, <3>3, TestParts DEF CountType, CountInv
  <2>2. CASE ~close_client
    <3>1. /\ rd' = [rd EXCEPT !["listen"] = At("peek")] /\ lpc = "loop" /\ lpc' = "recv"
          /\ UNCHANGED <<out, bytes, taken, peeked, got, srv, owed, sent, num_send, num_receive,
                         reg, timed, dirty, sock, cpc>>
      BY <1>1, <2>2 DEF ListenLoop, ListenOnly, NoFlagUse, client, server
    <3>2. rd'["server"] = rd["server"] /\ rd'["listen"].pc = "peek"
      BY <1>0, <3>1, TestParts DEF At
    <3>3. rd["listen"].pc = "idle"
      BY <3>1, TestParts DEF EndsInv
    <3>4. Here' = Here
      <4>1. OnTheirWay' = OnTheirWay
        BY <3>1 DEF OnTheirWay, Answers
      <4> QED BY <3>1, <3>2, <3>3, <4>1 DEF Here, One
    <3>5. /\ Undisturbed /\ lpc' = "store" => reg' = num_receive'
          /\ Undisturbed /\ timed' = "no" /\ lpc' \in {"loop", "recv"} => num_receive' < num_send \/ num_receive' = 0
      BY <3>1, CalmFacts
    <3> QED BY <1>b, <3>1, <3>2, <3>4, <3>5, ListenKept, TestParts
  <2> QED BY <2>1, <2>2
<1>2. CASE ListenCrash
  BY <1>2, ProcessEndTest DEF ListenCrash
<1>3. CASE ListenQuit
  <2>1. /\ rd' = [rd EXCEPT !["listen"] = At("idle")] /\ lpc = "recv" /\ lpc' = "loop"
        /\ rd["listen"].op \in {"QUIT", "garbled"}
        /\ UNCHANGED <<out, bytes, taken, peeked, got, srv, owed, sent, num_send, num_receive,
                       reg, timed, dirty, sock, cpc>>
    BY <1>3 DEF ListenQuit, ListenOnly, client, server
  <2>2. rd'["server"] = rd["server"] /\ rd'["listen"].pc = "idle"
    BY <1>0, <2>1, TestParts DEF At
  <2>3. ASSUME Undisturbed PROVE Here' = Here
    <3>1. rd["listen"].op = "QUIT"
      BY <2>1, <2>3, CalmFacts DEF InStep, ReaderOf
    <3>2. OnTheirWay' = OnTheirWay
      BY <2>1 DEF OnTheirWay, Answers
    <3> QED BY <2>1, <2>2, <3>1, <3>2 DEF Here, One
  <2>4. /\ Undisturbed /\ lpc' = "store" => reg' = num_receive'
        /\ Undisturbed /\ timed' = "no" /\ lpc' \in {"loop", "recv"} => num_receive' < num_send \/ num_receive' = 0
    BY <2>1, CalmFacts
  <2> QED BY <1>b, <2>1, <2>2, <2>3, <2>4, ListenKept, TestParts
<1>4. CASE ListenText
  <2>1. /\ rd' = [rd EXCEPT !["listen"] = At("idle")] /\ lpc = "recv" /\ lpc' = "store"
        /\ rd["listen"].pc = "done" /\ rd["listen"].op # "QUIT" /\ reg' = num_receive
        /\ UNCHANGED <<out, bytes, taken, peeked, got, srv, owed, sent, num_send, num_receive,
                       timed, dirty, sock, cpc>>
    BY <1>4 DEF ListenText, ListenOnly, NoFlagUse, client, server
  <2>2. rd'["server"] = rd["server"] /\ rd'["listen"].pc = "idle"
    BY <1>0, <2>1, TestParts DEF At
  <2>3. Here' = Here
    <3>1. OnTheirWay' = OnTheirWay
      BY <2>1 DEF OnTheirWay, Answers
    <3>2. Here = num_receive + 0 + 1 + OnTheirWay
      BY <2>1 DEF Here, One
    <3>3. Here' = num_receive + 1 + 0 + OnTheirWay
      BY <2>1, <2>2, <3>1 DEF Here, One
    <3> QED BY <1>a, <3>2, <3>3, SumLoads
  <2> QED BY <1>b, <2>1, <2>2, <2>3, ListenKept, TestParts
<1>5. CASE ListenStore
  <2>1. /\ lpc = "store" /\ lpc' = "compare" /\ num_receive' = reg + 1 /\ reg' = 0
        /\ UNCHANGED <<out, bytes, taken, peeked, got, rd, srv, owed, sent, num_send, timed,
                       dirty, sock, cpc>>
    BY <1>5 DEF ListenStore, NoSocketUse, ListenOnly, client, server, fvars
  <2>2. ASSUME Undisturbed PROVE Here' = Here
    <3>1. OnTheirWay' = OnTheirWay
      BY <2>1 DEF OnTheirWay, Answers
    <3>2. num_receive' = num_receive + 1
      BY <2>1, <2>2, CalmFacts
    <3>3. rd["listen"].pc # "done"
      BY <2>1, TestParts DEF EndsInv
    <3>4. Here = num_receive + 1 + 0 + OnTheirWay
      BY <2>1, <3>3 DEF Here, One
    <3>5. Here' = (num_receive + 1) + 0 + 0 + OnTheirWay
      BY <2>1, <3>1, <3>2, <3>3 DEF Here, One
    <3> QED BY <1>a, <3>4, <3>5, SumLoads
  <2>3. num_receive' \in Nat /\ reg' \in Nat
    BY <2>1, TestParts
  <2> QED BY <1>b, <2>1, <2>2, <2>3, ListenKept, TestParts
<1>6. CASE ListenCompare
  <2>1. /\ lpc = "compare" /\ lpc' = "loop"
        /\ timed' = IF num_send = num_receive THEN "yes" ELSE IF sent THEN "overtaken" ELSE "no"
        /\ UNCHANGED <<out, bytes, taken, peeked, got, rd, srv, owed, sent, num_send, num_receive,
                       reg, dirty, sock, cpc>>
    BY <1>6 DEF ListenCompare, NoSocketUse, NoFlagUse, ListenOnly, client, server, fvars
  <2>2. Here' = Here
    <3>1. OnTheirWay' = OnTheirWay
      BY <2>1 DEF OnTheirWay, Answers
    <3> QED BY <2>1, <3>1 DEF Here, One
  <2>3. ASSUME Undisturbed, timed' = "no" PROVE num_receive < num_send
    <3>1. ~sent /\ num_send # num_receive
      BY <2>1, <2>3
    <3>2. Asked = num_send
      BY <3>1, TestParts DEF Asked, One
    <3>3. Here <= Asked
      BY <2>3, CalmFacts, BalanceBound, TestParts
    <3>4. num_receive <= Here
      <4>1. One(lpc = "store") \in Nat /\ One(rd["listen"].pc = "done" /\ rd["listen"].op # "QUIT") \in Nat
        BY DEF One
      <4>2. OnTheirWay \in Nat /\ num_receive \in Nat
        BY TestParts, AnswersType
      <4>3. \A m, a, c, x \in Nat : m <= m + a + c + x
        OBVIOUS
      <4> QED BY <4>1, <4>2, <4>3 DEF Here
    <3>5. Here \in Nat /\ num_send \in Nat /\ num_receive \in Nat
      BY <2>3, CalmFacts, TestParts
    <3> QED BY <3>1, <3>2, <3>3, <3>4, <3>5
  <2>4. timed' \in {"no", "yes", "overtaken"}
    BY <2>1
  <2> QED BY <2>1, <2>2, <2>3, <2>4, ListenKept, TestParts
<1> QED BY <1>1, <1>2, <1>3, <1>4, <1>5, <1>6, ListenReadTest DEF Listen

-----------------------------------------------------------------------------
(* The server's end of a load test. *)

\* Where a reader stands that is past c PDUs and finds PDU k.
LEMMA FoundBehind ==
    ASSUME NEW q \in Seq(PDUs), NEW c \in 1..Len(q), NEW k \in 1..Len(q),
           Offset(q)[c] <= Offset(q)[k - 1]
    PROVE  k \in (c + 1)..Len(q) /\ c < Len(q) /\ Offset(q)[c + 1] <= Offset(q)[k - 1] + Size(q[k])
<1>1. c \in 0..Len(q) /\ k - 1 \in 0..Len(q) /\ Len(q) \in Nat
  OBVIOUS
<1>2. Offset(q)[c] \in Nat /\ Offset(q)[k - 1] \in Nat
  BY <1>1, OffsetType
<1>3. ~(k - 1 < c)
  <2>1. ~(Offset(q)[k - 1] < Offset(q)[c])
    BY <1>2
  <2> QED BY <1>1, <2>1, OffsetIncreases
<1>4. c + 1 \in 0..Len(q) /\ k \in 0..Len(q) /\ c + 1 <= k /\ c < Len(q)
  BY <1>1, <1>3
<1>5. Offset(q)[k] = Offset(q)[k - 1] + Size(q[k])
  BY OffsetEquation
<1>6. Offset(q)[c + 1] <= Offset(q)[k]
  <2>1. CASE c + 1 = k
    <3>1. Offset(q)[c + 1] \in Nat
      BY <1>4, OffsetType
    <3> QED BY <2>1, <3>1
  <2>2. CASE c + 1 # k
    <3>1. c + 1 < k
      BY <1>4, <2>2
    <3>2. Offset(q)[c + 1] < Offset(q)[k]
      BY <1>4, <3>1, OffsetIncreases
    <3>3. Offset(q)[c + 1] \in Nat /\ Offset(q)[k] \in Nat
      BY <1>4, OffsetType
    <3> QED BY <3>2, <3>3
  <2> QED BY <2>1, <2>2
<1> QED BY <1>4, <1>5, <1>6

\* What Behind asks for once the JOIN has been read.
LEMMA BehindParts ==
    ASSUME NEW c \in Nat, Len(got["up"]) > 0, Behind(c)
    PROVE  /\ Offset(out["up"])[c] <= taken["up"]
           /\ rd["server"].pc = "head" =>
                /\ rd["server"].want = HEADERSIZE /\ peeked["up"] = HEADERSIZE
                /\ rd["server"].op \in {"INIT", "QUIT", "JOIN", "KERNEL"}
                /\ \E k \in (c + 1)..Len(out["up"]) :
                      Offset(out["up"])[k - 1] = taken["up"] /\ out["up"][k].op = rd["server"].op
           /\ rd["server"].pc = "body" =>
                c < Len(out["up"]) /\ Offset(out["up"])[c + 1] <= taken["up"] + rd["server"].want
  BY DEF Behind

LEMMA BehindPeek ==
    ASSUME FrameInv, NEW c \in 1..Len(out["up"]), Behind(c), Len(got["up"]) > 0, Peek("server")
    PROVE  Behind(c)' /\ rd'["server"].pc # "done" /\ rd["server"].pc # "done" /\ got' = got
<1> DEFINE q == out["up"]
           k == Current("up")
<1>0. "server" \in Readers /\ "up" \in Streams /\ StreamOf("server") = "up" /\ c \in Nat
  BY FrameFacts DEF Readers, Streams, StreamOf
<1>1. /\ rd["server"].pc = "peek" /\ UNCHANGED <<out, taken, got>>
      /\ peeked' = [peeked EXCEPT !["up"] = HEADERSIZE]
      /\ rd' = [rd EXCEPT !["server"] = IF k = 0 THEN At("lost") ELSE FirstRecv(q[k])]
  BY <1>0 DEF Peek
<1>2. rd'["server"] = IF k = 0 THEN At("lost") ELSE FirstRecv(q[k])
  BY <1>0, <1>1, ReaderFacts
<1>3. Offset(q)[c] <= taken["up"] /\ peeked'["up"] = HEADERSIZE
  BY <1>0, <1>1, BehindParts DEF FrameInv, FramingTypeOK
<1>4. CASE k = 0
  <2>1. rd'["server"].pc = "lost"
    BY <1>2, <1>4 DEF At
  <2> QED BY <1>1, <1>3, <2>1 DEF Behind
<1>5. CASE k # 0
  <2>1. k \in 1..Len(q) /\ q[k] \in PDUs /\ Offset(q)[k - 1] = taken["up"]
    BY <1>0, <1>5, CurrentIsSent DEF Start
  <2>2. q \in Seq(PDUs)
    BY <1>0, FrameFacts
  <2>3. PICK j \in 1..Len(q) : j = k
    BY <2>1
  <2> HIDE DEF k
  <2>4. j \in (c + 1)..Len(q) /\ c < Len(q) /\ Offset(q)[c + 1] <= Offset(q)[j - 1] + Size(q[j])
    <3>1. Offset(q)[c] <= Offset(q)[j - 1] /\ c \in 1..Len(q)
      BY <1>3, <2>1, <2>3
    <3> HIDE DEF q
    <3> QED BY <2>2, <2>3, <3>1, FoundBehind
  <2>5. rd'["server"] = FirstRecv(q[j]) /\ q[j] \in PDUs /\ Offset(q)[j - 1] = taken["up"]
    BY <1>2, <1>5, <2>1, <2>3
  <2>6. /\ rd'["server"].op = q[j].op /\ rd'["server"].pc \in {"head", "body"}
        /\ rd'["server"].pc = "head" => /\ rd'["server"].op \in {"INIT", "QUIT", "JOIN", "KERNEL"}
                                        /\ rd'["server"].want = HEADERSIZE
        /\ rd'["server"].pc = "body" => rd'["server"].want = Size(q[j])
    BY <2>5, FirstRecvType
  <2>7. rd'["server"].pc = "body" => Offset(q)[c + 1] <= taken["up"] + rd'["server"].want
    BY <2>4, <2>5, <2>6
  <2>8. Behind(c)'
    BY <1>1, <1>3, <2>4, <2>5, <2>6, <2>7 DEF Behind
  <2> QED BY <1>1, <2>6, <2>8
<1> QED BY <1>4, <1>5

LEMMA BehindRecv ==
    ASSUME FrameInv, NEW c \in 1..Len(out["up"]), Behind(c), Len(got["up"]) > 0, Recv("server")
    PROVE  /\ rd["server"].pc # "done" /\ out' = out /\ Len(got'["up"]) > 0
           /\ \/ Behind(c)' /\ rd'["server"].pc # "done"
              \/ c < Len(out["up"]) /\ Behind(c + 1)'
<1> DEFINE q == out["up"]
           r == rd["server"]
           u == taken["up"]
<1>0. "server" \in Readers /\ "up" \in Streams /\ StreamOf("server") = "up" /\ c \in Nat
  BY FrameFacts DEF Readers, Streams, StreamOf
<1>1. PICK n \in Nat :
        /\ n > 0 /\ taken' = [taken EXCEPT !["up"] = @ + n]
        /\ r.want <= peeked["up"] => n = r.want
        /\ rd' = [rd EXCEPT !["server"] = IF n = r.want THEN AfterRecv("server")
                                          ELSE [r EXCEPT !.op = Misread(r.op)]]
        /\ got' = IF rd'["server"].pc = "done" THEN [got EXCEPT !["up"] = Append(@, r.op)] ELSE got
        /\ r.pc \in {"head", "body"} /\ out' = out
  BY <1>0, RecvFacts
<1>2. /\ taken'["up"] = u + n /\ u \in Nat /\ Len(q) \in Nat /\ q \in Seq(PDUs)
      /\ rd'["server"] = IF n = r.want THEN AfterRecv("server") ELSE [r EXCEPT !.op = Misread(r.op)]
  BY <1>0, <1>1, FrameFacts, ReaderFacts
<1>3. r \in RdType /\ r = [pc |-> r.pc, op |-> r.op, want |-> r.want] /\ r.want \in Nat
  BY <1>0, ReaderFacts
<1>4. Len(got'["up"]) > 0
  <2>1. got["up"] \in Seq(Ops \cup {"garbled"}) /\ DOMAIN got = Streams /\ Len(got["up"]) \in Nat
    BY <1>0, FrameFacts
  <2>2. Len(Append(got["up"], r.op)) = Len(got["up"]) + 1
    BY <2>1
  <2>3. got'["up"] = got["up"] \/ got'["up"] = Append(got["up"], r.op)
    BY <1>0, <1>1, <2>1
  <2> HIDE DEF r
  <2> QED BY <2>1, <2>2, <2>3
<1>5. /\ Offset(q)[c] <= u
      /\ r.pc = "head" =>
           /\ r.want = HEADERSIZE /\ peeked["up"] = HEADERSIZE
           /\ r.op \in {"INIT", "QUIT", "JOIN", "KERNEL"}
           /\ \E k \in (c + 1)..Len(q) : Offset(q)[k - 1] = u /\ q[k].op = r.op
      /\ r.pc = "body" => c < Len(q) /\ Offset(q)[c + 1] <= u + r.want
  BY <1>0, BehindParts
<1>6. Offset(q)[c] \in Nat /\ (c < Len(q) => c + 1 \in 1..Len(q) /\ Offset(q)[c + 1] \in Nat)
  <2>1. c \in 0..Len(q) /\ (c < Len(q) => c + 1 \in 0..Len(q) /\ c + 1 \in 1..Len(q))
    BY <1>2
  <2> QED BY <1>2, <2>1, OffsetType
<1>7. Offset(q)[c] <= u + n
  <2> HIDE DEF q, u
  <2> QED BY <1>1, <1>2, <1>5, <1>6
\* The reader gets less than it asked for, or goes on behind the header.
<1>8. ASSUME rd'["server"].pc # "done", rd'["server"].pc # "head",
             rd'["server"].pc = "body" => c < Len(q) /\ Offset(q)[c + 1] <= u + n + rd'["server"].want
      PROVE  Behind(c)' /\ rd'["server"].pc # "done"
  BY <1>1, <1>2, <1>4, <1>7, <1>8 DEF Behind
\* It has the whole PDU.
<1>9. ASSUME rd'["server"].pc = "done", c < Len(q), Offset(q)[c + 1] <= u + n
      PROVE  Behind(c + 1)' /\ c < Len(q)
  BY <1>1, <1>2, <1>4, <1>9 DEF Behind
<1>10. CASE n # r.want
  <2>1. rd'["server"] = [r EXCEPT !.op = Misread(r.op)]
    BY <1>2, <1>10
  <2>2. rd'["server"].pc = r.pc /\ rd'["server"].want = r.want /\ r.pc = "body"
    <3>1. rd'["server"] = [pc |-> r.pc, op |-> Misread(r.op), want |-> r.want]
      BY <1>3, <2>1
    <3>2. r.pc # "head"
      BY <1>1, <1>5, <1>10, FramingAssumption
    <3> QED BY <1>1, <3>1, <3>2
  <2>3. r.pc = "body" => c < Len(q) /\ Offset(q)[c + 1] <= u + n + r.want
    <3> DEFINE w == r.want
               o == Offset(q)[c + 1]
    <3>1. r.pc = "body" => c < Len(q) /\ o <= u + w /\ o \in Nat
      BY <1>5, <1>6
    <3>2. w \in Nat /\ u \in Nat /\ n \in Nat
      BY <1>2, <1>3
    <3>3. o \in Nat /\ o <= u + w => o <= u + n + w
      <4> HIDE DEF o, u, w
      <4> QED BY ONLY <3>2
    <3> QED BY <3>1, <3>3
  <2> QED BY <1>1, <1>4, <1>8, <2>2, <2>3
<1>11. CASE n = r.want /\ r.pc = "body"
  <2>1. rd'["server"] = [r EXCEPT !.pc = "done", !.want = 0]
    BY <1>2, <1>11 DEF AfterRecv
  <2>2. rd'["server"].pc = "done"
    BY <1>3, <2>1 DEF RdType
  <2> QED BY <1>1, <1>4, <1>5, <1>9, <1>11, <2>2
<1>12. CASE n = r.want /\ r.pc = "head"
  <2>1. PICK k \in (c + 1)..Len(q) : Offset(q)[k - 1] = u /\ q[k].op = r.op
    BY <1>5, <1>12
  <2>2. n = HEADERSIZE /\ r.op \in {"INIT", "QUIT", "JOIN", "KERNEL"} /\ k \in 1..Len(q)
    BY <1>2, <1>5, <1>12
  <2>3. Current("up") = k /\ k # 0
    BY <1>0, <2>1, <2>2, CurrentAt
  <2>4. c < Len(q) /\ Offset(q)[c + 1] <= u + Size(q[k])
    <3>1. Offset(q)[c] <= Offset(q)[k - 1]
      BY <1>5, <2>1
    <3>2. c \in 1..Len(q) /\ Offset(q)[k - 1] = u
      BY <2>1
    <3> HIDE DEF q, u
    <3>3. c < Len(q) /\ Offset(q)[c + 1] <= Offset(q)[k - 1] + Size(q[k])
      BY <1>2, <2>2, <3>1, <3>2, FoundBehind
    <3> QED BY <3>2, <3>3
  <2>5. q[k] \in PDUs /\ q[k].len \in Nat
    <3>1. q[k] \in PDUs
      BY <1>2, <2>2
    <3> HIDE DEF q
    <3> QED BY <3>1 DEF PDUs
  <2>6. CASE r.op \in {"JOIN", "KERNEL"}
    <3>1. rd'["server"] = [r EXCEPT !.pc = "body", !.want = q[k].len]
      BY <1>0, <1>2, <1>12, <2>3, <2>6 DEF AfterRecv
    <3>2. rd'["server"].pc = "body" /\ rd'["server"].want = q[k].len
      BY <1>3, <3>1 DEF RdType
    <3>3. Size(q[k]) = HEADERSIZE + q[k].len
      BY <2>1, <2>6 DEF Size
    <3>4. u + Size(q[k]) = u + n + q[k].len
      BY <1>2, <2>2, <2>5, <3>3, FramingAssumption
    <3> QED BY <1>1, <1>4, <1>8, <2>4, <3>2, <3>4
  <2>7. CASE r.op \notin {"JOIN", "KERNEL"}
    <3>1. rd'["server"] = [r EXCEPT !.pc = "done", !.want = 0]
      BY <1>0, <1>2, <1>12, <2>2, <2>7 DEF AfterRecv
    <3>2. rd'["server"].pc = "done"
      BY <1>3, <3>1 DEF RdType
    <3>3. Size(q[k]) = n
      BY <2>1, <2>2, <2>7 DEF Size
    <3> QED BY <1>1, <1>4, <1>9, <2>4, <3>2, <3>3
  <2> QED BY <2>6, <2>7
<1> QED BY <1>1, <1>10, <1>11, <1>12

\* receive_pdu takes the server's listener at most one PDU further.
LEMMA BehindReads ==
    ASSUME FrameInv, NEW c \in 1..Len(out["up"]), Behind(c), Len(got["up"]) > 0, ~Reset("up"),
           receive_pdu("server", FALSE)
    PROVE  /\ rd["server"].pc # "done" /\ out' = out /\ Len(got'["up"]) > 0
           /\ \/ Behind(c)' /\ rd'["server"].pc # "done"
              \/ c < Len(out["up"]) /\ Behind(c + 1)'
<1>0. "server" \in Readers /\ StreamOf("server") = "up" /\ c \in Nat
  BY FrameFacts DEF Readers, Streams, StreamOf
<1>1. CASE Peek("server")
  BY <1>1, BehindPeek DEF Peek
<1>2. CASE PeekEnd("server", FALSE)
  <2>1. /\ rd["server"].pc = "peek" /\ UNCHANGED <<out, got, taken>>
        /\ rd'["server"] \in {At("eof"), At("null")}
    BY <1>0, <1>2, ReaderFacts DEF PeekEnd
  <2>2. Offset(out["up"])[c] <= taken["up"]
    BY <1>0, BehindParts
  <2>3. rd'["server"].pc \in {"eof", "null"}
    BY <2>1 DEF At
  <2> QED BY <2>1, <2>2, <2>3 DEF Behind
<1>3. CASE RecvError("server", FALSE)
  BY <1>0, <1>3 DEF RecvError
<1>4. CASE Recv("server")
  BY <1>4, BehindRecv
<1> QED BY <1>1, <1>2, <1>3, <1>4 DEF receive_pdu

LEMMA GotGrows ==
    ASSUME FrameInv, receive_pdu("server", FALSE), Len(got["up"]) > 0
    PROVE  Len(got'["up"]) > 0
<1>0. "server" \in Readers /\ "up" \in Streams /\ StreamOf("server") = "up"
  BY DEF Readers, Streams, StreamOf
<1>1. got' = got \/ \E x \in Ops \cup {"none", "garbled"} : got' = [got EXCEPT !["up"] = Append(@, x)]
  <2>1. CASE Recv("server")
    <3>1. rd["server"].op \in Ops \cup {"none", "garbled"}
      BY <1>0, ReaderFacts DEF RdType
    <3>2. got' = IF rd'["server"].pc = "done" THEN [got EXCEPT !["up"] = Append(@, rd["server"].op)] ELSE got
      BY <1>0, <2>1, RecvFacts
    <3> QED BY <3>1, <3>2
  <2>2. CASE ~Recv("server")
    BY <2>2 DEF receive_pdu, Peek, PeekEnd, RecvError
  <2> QED BY <2>1, <2>2
<1>2. got["up"] \in Seq(Ops \cup {"none", "garbled"}) /\ DOMAIN got = Streams /\ Len(got["up"]) \in Nat
  BY <1>0, FrameFacts
<1>3. CASE got' = got
  BY <1>3
<1>4. ASSUME NEW x \in Ops \cup {"none", "garbled"}, got' = [got EXCEPT !["up"] = Append(@, x)]
      PROVE  Len(got'["up"]) > 0
  <2>1. got'["up"] = Append(got["up"], x)
    BY <1>0, <1>2, <1>4
  <2>2. Len(Append(got["up"], x)) = Len(got["up"]) + 1
    BY <1>2
  <2> QED BY <1>2, <2>1, <2>2
<1> QED BY <1>1, <1>3, <1>4

\* client_JOIN reads the JOIN, and has it behind it when it is done, whether or not it
\* came in pieces.
LEMMA JoinReads ==
    ASSUME TestInv, sock, srv # "gone", Len(got["up"]) = 0, receive_pdu("server", FALSE)
    PROVE  /\ rd["server"].pc # "done"
           /\ \/ Joining' /\ rd'["server"].pc # "done" /\ Len(got'["up"]) = 0
              \/ /\ rd'["server"].pc = "done" /\ rd'["server"].op = "JOIN"
                 /\ Len(got'["up"]) = 1 /\ Offset(out["up"])[1] <= taken'["up"]
<1> DEFINE q == out["up"]
           r == rd["server"]
           u == taken["up"]
<1>0. "server" \in Readers /\ "up" \in Streams /\ StreamOf("server") = "up"
  BY DEF Readers, Streams, StreamOf
<1>1. /\ Joining /\ Len(q) >= 1 /\ Len(q) \in Nat /\ q \in Seq(PDUs)
      /\ q[1] = [op |-> "JOIN", len |-> JOIN_LEN] /\ JOIN_LEN \in Nat
  BY TestParts, SessionAssumption DEF SentInv
<1>2. /\ r \in RdType /\ DOMAIN rd = Readers /\ r = [pc |-> r.pc, op |-> r.op, want |-> r.want]
      /\ r.want \in Nat /\ u \in Nat
      /\ got["up"] \in Seq(Ops \cup {"garbled"}) /\ DOMAIN got = Streams
      /\ taken \in [Streams -> Nat] /\ peeked \in [Streams -> 0..HEADERSIZE]
  BY <1>0, TestParts, ReaderFacts, FrameFacts DEF FrameInv, FramingTypeOK
<1>3. ~Reset("up") /\ "up" \notin closed
  BY TestParts DEF EndsInv, Reset
<1>4. /\ Offset(q)[0] = 0 /\ Offset(q)[1] = HEADERSIZE + JOIN_LEN /\ 1 \in 1..Len(q)
  <2>1. 1 \in 1..Len(q) /\ 1 - 1 = 0
    BY <1>1
  <2>2. Size(q[1]) = HEADERSIZE + JOIN_LEN
    BY <1>1 DEF Size
  <2> HIDE DEF q
  <2>3. Offset(q)[1] = Offset(q)[0] + Size(q[1]) /\ Offset(q)[0] = 0
    BY <1>1, <2>1, OffsetEquation
  <2> QED BY <1>1, <2>1, <2>2, <2>3, FramingAssumption
<1>5. u = 0 => Current("up") = 1
  <2>1. 1 - 1 = 0
    OBVIOUS
  <2> QED BY <1>0, <1>4, <2>1, TestParts, CurrentAt
<1>6. r.pc # "done"
  BY <1>1 DEF Joining
<1>7. CASE Peek("server")
  <2>1. /\ r.pc = "peek" /\ UNCHANGED <<taken, got>>
        /\ peeked' = [peeked EXCEPT !["up"] = HEADERSIZE]
        /\ rd'["server"] = IF Current("up") = 0 THEN At("lost") ELSE FirstRecv(q[Current("up")])
    BY <1>0, <1>2, <1>7 DEF Peek
  <2>2. u = 0 /\ Current("up") = 1
    BY <1>1, <1>5, <2>1 DEF Joining
  <2>3. rd'["server"] = FirstRecv(q[1])
    BY <2>1, <2>2
  <2>4. FirstRecv(q[1]) = [pc |-> "head", op |-> "JOIN", want |-> HEADERSIZE]
    BY <1>1 DEF FirstRecv
  <2>5. peeked'["up"] = HEADERSIZE
    BY <1>0, <1>2, <2>1
  <2>6. rd'["server"].pc = "head" /\ rd'["server"].op = "JOIN" /\ rd'["server"].want = HEADERSIZE
    BY <2>3, <2>4
  <2> QED BY <1>6, <2>1, <2>2, <2>5, <2>6 DEF Joining
<1>8. CASE PeekEnd("server", FALSE) \/ RecvError("server", FALSE)
  BY <1>0, <1>3, <1>8 DEF PeekEnd, RecvError
<1>9. CASE Recv("server")
  <2>1. PICK n \in Nat :
          /\ n > 0 /\ taken' = [taken EXCEPT !["up"] = @ + n]
          /\ r.want <= peeked["up"] => n = r.want
          /\ rd' = [rd EXCEPT !["server"] = IF n = r.want THEN AfterRecv("server")
                                            ELSE [r EXCEPT !.op = Misread(r.op)]]
          /\ got' = IF rd'["server"].pc = "done" THEN [got EXCEPT !["up"] = Append(@, r.op)] ELSE got
          /\ r.pc \in {"head", "body"}
    BY <1>0, <1>9, TestParts, RecvFacts
  <2>2. /\ rd'["server"] = IF n = r.want THEN AfterRecv("server") ELSE [r EXCEPT !.op = Misread(r.op)]
        /\ taken'["up"] = u + n
    BY <1>0, <1>2, <2>1
  <2>3. r.op = "JOIN"
    BY <1>1, <2>1 DEF Joining
  <2>4. CASE r.pc = "head"
    <3>1. u = 0 /\ r.want = HEADERSIZE /\ peeked["up"] = HEADERSIZE
      BY <1>1, <2>4 DEF Joining
    <3>2. n = HEADERSIZE /\ n = r.want /\ Current("up") = 1
      BY <1>5, <2>1, <3>1, FramingAssumption
    <3>3. rd'["server"] = [r EXCEPT !.pc = "body", !.want = q[1].len]
      <4>1. r.op \in {"JOIN", "KERNEL"} /\ r.op # "garbled" /\ Current("up") # 0
        BY <2>3, <3>2
      <4>2. AfterRecv("server") = [r EXCEPT !.pc = "body", !.want = q[Current("up")].len]
        BY <1>0, <2>4, <4>1 DEF AfterRecv
      <4> QED BY <2>2, <3>2, <4>2
    <3>4. rd'["server"] = [pc |-> "body", op |-> "JOIN", want |-> JOIN_LEN]
      <4>1. q[1].len = JOIN_LEN
        BY <1>1
      <4> HIDE DEF r, q
      <4> QED BY <1>2, <2>3, <3>3, <4>1
    <3>5. HEADERSIZE + JOIN_LEN <= taken'["up"] + JOIN_LEN
      BY <1>1, <2>2, <3>1, <3>2, FramingAssumption
    <3>6. rd'["server"].pc = "body" /\ rd'["server"].op = "JOIN" /\ rd'["server"].want = JOIN_LEN
      BY <3>4
    <3> QED BY <1>6, <2>1, <3>5, <3>6 DEF Joining
  <2>5. CASE r.pc = "body" /\ n # r.want
    <3>1. rd'["server"] = [pc |-> "body", op |-> "JOIN", want |-> r.want]
      BY <1>2, <2>2, <2>3, <2>5 DEF Misread
    <3>2. HEADERSIZE + JOIN_LEN <= u + r.want
      BY <1>1, <2>5 DEF Joining
    <3>3. HEADERSIZE + JOIN_LEN <= taken'["up"] + r.want
      <4> DEFINE w == r.want
      <4>1. w \in Nat /\ HEADERSIZE + JOIN_LEN <= u + w /\ taken'["up"] = u + n /\ u \in Nat
        BY <1>2, <2>2, <3>2
      <4> HIDE DEF u, w
      <4>2. HEADERSIZE + JOIN_LEN <= taken'["up"] + w
        BY <1>1, <4>1, FramingAssumption
      <4> QED BY <4>2 DEF w
    <3>4. rd'["server"].pc = "body" /\ rd'["server"].op = "JOIN" /\ rd'["server"].want = r.want
      BY <3>1
    <3> QED BY <1>6, <2>1, <3>3, <3>4 DEF Joining
  <2>6. CASE r.pc = "body" /\ n = r.want
    <3>1. rd'["server"] = [r EXCEPT !.pc = "done", !.want = 0]
      BY <2>2, <2>6 DEF AfterRecv
    <3>2. rd'["server"] = [pc |-> "done", op |-> "JOIN", want |-> 0]
      BY <1>2, <2>3, <3>1
    <3>3. rd'["server"].pc = "done" /\ rd'["server"].op = "JOIN"
      BY <3>2
    <3>4. got'["up"] = Append(got["up"], "JOIN")
      BY <1>0, <1>2, <2>1, <2>3, <3>3
    <3>5. Len(got'["up"]) = 1
      <4>1. Len(Append(got["up"], "JOIN")) = Len(got["up"]) + 1
        BY <1>2
      <4> QED BY <3>4, <4>1
    <3>6. Offset(q)[1] <= taken'["up"]
      BY <1>1, <1>4, <2>2, <2>6 DEF Joining
    <3> QED BY <1>6, <3>3, <3>5, <3>6
  <2> QED BY <2>1, <2>4, <2>5, <2>6
<1> QED BY <1>7, <1>8, <1>9 DEF receive_pdu

\* A step of the server.
LEMMA ServerKept ==
    ASSUME TestInv, StaysBroken, ServerOnly, SentInv', owed' \in Nat, dirty' \in BOOLEAN, dirty => dirty',
           Undisturbed /\ Undisturbed' => Balance'
    PROVE  CountType' /\ SentInv' /\ CountInv'
<1>1. UNCHANGED <<cpc, sent, lpc, reg, num_send, num_receive, sock, timed, met>>
  BY DEF ServerOnly, client, listener
<1>2. CountType'
  BY <1>1, TestParts DEF CountType
<1>3. Undisturbed' => Undisturbed
  <2>1. Undisturbed' => cpc \in {"menu", "cond", "test"}
    BY <1>1 DEF Undisturbed
  <2> QED BY <2>1, CalmBefore
<1> QED BY <1>1, <1>2, <1>3, CalmFacts DEF CountInv

\* What the balance needs when the server's listener or its answers move on.
LEMMA ServerMoves ==
    ASSUME TestInv, Undisturbed, SessionInv', ServerOnly, srv # "gone", srv' # "gone",
           out'["up"] = out["up"], owed' \in Nat,
           \A c \in 1..Len(out["up"]) : Behind(c) =>
              \E d \in 1..Len(out["up"]) :
                 Behind(d)' /\ Here' + owed' + Pending' + c <= Here + owed + Pending + d
    PROVE  Balance'
<1>1. UNCHANGED <<sent, num_send, num_receive>>
  BY DEF ServerOnly, client
<1>2. Asked' = Asked
  BY <1>1 DEF Asked
<1>3. Here' \in Nat /\ Pending' \in Nat
  <2>1. FrameInv' /\ num_receive' \in Nat
    BY <1>1, TestParts DEF SessionInv
  <2>2. Answers' \in Nat /\ OnTheirWay' \in Nat
    <3>1. Len(out'["down"]) \in Nat /\ Len(got'["down"]) \in Nat
      <4>1. /\ out' \in [Streams -> Seq([op : Ops, len : Nat])] /\ got' \in [Streams -> Seq(Ops \cup {"garbled"})]
            /\ "down" \in Streams
        BY <2>1 DEF FrameInv, FramingTypeOK, Streams
      <4>2. out'["down"] \in Seq([op : Ops, len : Nat]) /\ got'["down"] \in Seq(Ops \cup {"garbled"})
        BY <4>1
      <4> QED BY <4>2
    <3>2. Answers' \in Nat
      BY <3>1 DEF Answers
    <3>3. Len(got'["down"]) < Answers' => Answers' - Len(got'["down"]) \in Nat
      <4>1. \A x, y \in Nat : x < y => y - x \in Nat
        OBVIOUS
      <4> QED BY <3>1, <3>2, <4>1
    <3> QED BY <3>2, <3>3 DEF OnTheirWay
  <2>3. /\ One(lpc = "store")' \in Nat /\ One(rd["listen"].pc = "done" /\ rd["listen"].op # "QUIT")' \in Nat
        /\ Pending' \in Nat
    BY DEF One, Pending
  <2>4. \A m, a, b, x \in Nat : m + a + b + x \in Nat
    OBVIOUS
  <2> QED BY <2>1, <2>2, <2>3, <2>4 DEF Here
<1>4. Balance /\ Here \in Nat /\ Asked \in Nat /\ Pending \in Nat
  BY CalmFacts
<1>5. \A c \in 1..Len(out["up"]) : Behind(c) =>
         \E d \in 1..Len(out'["up"]) :
            /\ Behind(d)'
            /\ Here' + owed' + Pending' + (Len(out'["up"]) - d) + Asked
                  <= Here + owed + Pending + (Len(out["up"]) - c) + Asked'
  <2> SUFFICES ASSUME NEW c \in 1..Len(out["up"]), Behind(c)
               PROVE  \E d \in 1..Len(out["up"]) :
                         /\ Behind(d)'
                         /\ Here' + owed' + Pending' + (Len(out["up"]) - d) + Asked
                               <= Here + owed + Pending + (Len(out["up"]) - c) + Asked
    BY <1>2
  <2>1. PICK d \in 1..Len(out["up"]) :
           Behind(d)' /\ Here' + owed' + Pending' + c <= Here + owed + Pending + d
    OBVIOUS
  <2>2. \A h, i, o, p, x, y, n, a \in Nat : \A e, f \in 1..n :
           i + p + y + e <= h + o + x + f => i + p + y + (n - f) + a <= h + o + x + (n - e) + a
    OBVIOUS
  <2>3. owed \in Nat /\ Len(out["up"]) \in Nat
    BY TestParts
  <2>4. /\ Here \in Nat /\ Here' \in Nat /\ owed \in Nat /\ owed' \in Nat /\ Pending \in Nat
        /\ Pending' \in Nat /\ Len(out["up"]) \in Nat /\ Asked \in Nat
    BY <1>3, <1>4, <2>3
  <2>5. Here' + owed' + Pending' + c <= Here + owed + Pending + d
    BY <2>1
  <2>6. c \in 1..Len(out["up"]) /\ d \in 1..Len(out["up"])
    BY <2>1
  <2>7. Here' + owed' + Pending' + (Len(out["up"]) - d) + Asked
           <= Here + owed + Pending + (Len(out["up"]) - c) + Asked
    BY ONLY <2>2, <2>4, <2>5, <2>6
  <2> QED BY <2>1, <2>7
<1>6. owed \in Nat /\ Len(out["up"]) \in Nat /\ Len(out'["up"]) \in Nat /\ Asked' \in Nat
  BY <1>2, <1>4, TestParts
<1> QED BY <1>3, <1>4, <1>5, <1>6, BalanceMoves

LEMMA ServerReadTest ==
    ASSUME TestInv, ServerRead, srv # "gone", SessionInv', StaysBroken
    PROVE  CountType' /\ SentInv' /\ CountInv'
<1>0. "server" \in Readers /\ "listen" \in Readers /\ "down" \in Streams /\ StreamOf("server") = "up"
  BY DEF Readers, Streams, StreamOf
<1>1. /\ receive_pdu("server", FALSE) /\ ServerOnly /\ UNCHANGED <<srv, owed, dirty>>
      /\ UNCHANGED <<num_receive, sock, lpc>>
  BY DEF ServerRead, ServerOnly, server, listener
<1>2. rd'["listen"] = rd["listen"] /\ got'["down"] = got["down"] /\ UNCHANGED <<out, bytes>>
  BY <1>0, <1>1, TestParts, ReceiveKeeps
<1>3. SentInv'
  <2>1. ASSUME sock, Len(got'["up"]) = 0
        PROVE  Joining'
    <3>1. Len(got["up"]) = 0
      BY <1>1, <2>1, TestParts, GotGrows
    <3> QED BY <1>1, <2>1, <3>1, JoinReads
  <2> QED BY <1>1, <1>2, <2>1, TestParts DEF SentInv
<1>4. ASSUME Undisturbed PROVE Balance'
  <2>1. sock /\ Here \in Nat /\ owed \in Nat /\ srv # "gone" /\ Len(out["up"]) \in Nat
    BY <1>4, CalmFacts, TestParts
  <2>2. ~Reset("up")
    BY <2>1, TestParts DEF EndsInv, Reset
  <2>3. Here' = Here /\ owed' = owed
    <3>1. OnTheirWay' = OnTheirWay
      BY <1>2 DEF OnTheirWay, Answers
    <3> QED BY <1>1, <1>2, <3>1 DEF Here
  <2>4. ASSUME NEW c \in 1..Len(out["up"]), Behind(c)
        PROVE  \E d \in 1..Len(out["up"]) :
                  Behind(d)' /\ Here' + owed' + Pending' + c <= Here + owed + Pending + d
    <3>1. CASE Len(got["up"]) = 0
      <4>1. c = 1
        BY <2>4, <3>1 DEF Behind
      <4>2. /\ rd["server"].pc # "done"
            /\ \/ rd'["server"].pc # "done" /\ Len(got'["up"]) = 0
               \/ /\ rd'["server"].pc = "done" /\ rd'["server"].op = "JOIN"
                  /\ Len(got'["up"]) = 1 /\ Offset(out["up"])[1] <= taken'["up"]
        BY <1>1, <2>1, <3>1, JoinReads
      <4>3. Pending = 0 /\ Pending' = 0
        BY <4>2 DEF Pending, One
      <4>4. Behind(c)'
        <5>1. CASE Len(got'["up"]) = 0
          BY <4>1, <5>1 DEF Behind
        <5>2. CASE rd'["server"].pc = "done" /\ Len(got'["up"]) = 1 /\ Offset(out["up"])[1] <= taken'["up"]
          <6>1. Offset(out'["up"])[c] <= taken'["up"]
            BY <1>2, <4>1, <5>2
          <6> QED BY <5>2, <6>1 DEF Behind
        <5> QED BY <4>2, <5>1, <5>2
      <4>5. Here' + owed' + Pending' + c <= Here + owed + Pending + c
        BY <2>1, <2>3, <4>3
      <4> QED BY <4>4, <4>5
    <3>2. CASE Len(got["up"]) # 0
      <4>1. Len(got["up"]) > 0
        BY <3>2, TestParts
      <4>2. /\ rd["server"].pc # "done"
            /\ \/ Behind(c)' /\ rd'["server"].pc # "done"
               \/ c < Len(out["up"]) /\ Behind(c + 1)'
        BY <1>1, <2>2, <2>4, <4>1, TestParts, BehindReads
      <4>3. Pending = 0 /\ Pending' \in {0, 1} /\ (rd'["server"].pc # "done" => Pending' = 0)
        BY <4>2 DEF Pending, One
      <4>4. CASE Behind(c)' /\ rd'["server"].pc # "done"
        <5>1. Here + owed + 0 + c <= Here + owed + 0 + c
          BY <2>1
        <5>2. Here' + owed' + Pending' + c <= Here + owed + Pending + c
          BY <2>3, <4>3, <4>4, <5>1
        <5> QED BY <4>4, <5>2
      <4>5. CASE c < Len(out["up"]) /\ Behind(c + 1)'
        <5>1. Here + owed + 0 + c <= Here + owed + 0 + (c + 1) /\ Here + owed + 1 + c <= Here + owed + 0 + (c + 1)
          BY <2>1
        <5>2. Here' + owed' + Pending' + c <= Here + owed + Pending + (c + 1)
          BY <2>3, <4>3, <5>1
        <5>3. c + 1 \in 1..Len(out["up"])
          BY <2>1, <4>5
        <5> QED BY <4>5, <5>2, <5>3
      <4> QED BY <4>2, <4>4, <4>5
    <3> QED BY <3>1, <3>2
  <2>5. srv' # "gone" /\ out'["up"] = out["up"] /\ owed' \in Nat
    BY <1>1, <1>2, <2>1
  <2> QED BY <1>1, <1>4, <2>1, <2>4, <2>5, ServerMoves
<1>5. dirty' \in BOOLEAN /\ (dirty => dirty') /\ owed' \in Nat
  BY <1>1, TestParts
<1> QED BY <1>1, <1>3, <1>4, <1>5, ServerKept

LEMMA ServerTakeTest ==
    ASSUME TestInv, ServerTake, srv # "gone", SessionInv', StaysBroken
    PROVE  CountType' /\ SentInv' /\ CountInv'
<1>0. "server" \in Readers /\ "listen" \in Readers
  BY DEF Readers
<1>1. /\ rd["server"].pc = "done" /\ rd' = [rd EXCEPT !["server"] = At("peek")] /\ ServerOnly
      /\ owed' = IF rd["server"].op \in {"JOIN", "QUIT"} THEN owed ELSE owed + 1
      /\ UNCHANGED <<out, bytes, taken, got, srv, dirty>> /\ UNCHANGED <<num_receive,
                                                                                sock, lpc>>
  BY DEF ServerTake, ServerOnly, listener
<1>2. rd'["listen"] = rd["listen"] /\ rd'["server"].pc = "peek"
  BY <1>0, <1>1, TestParts DEF At
<1>3. SentInv'
  BY <1>1, <1>2, TestParts DEF SentInv, Joining
<1>4. owed' \in Nat /\ owed \in Nat
  BY <1>1, TestParts
<1>5. ASSUME Undisturbed PROVE Balance'
  <2>1. Here' = Here
    <3>1. OnTheirWay' = OnTheirWay
      BY <1>1 DEF OnTheirWay, Answers
    <3> QED BY <1>1, <1>2, <3>1 DEF Here
  <2>2. Here \in Nat /\ Len(out["up"]) \in Nat
    BY <1>5, CalmFacts, TestParts
  <2>3. Pending' = 0
    BY <1>2 DEF Pending, One
  <2>4. owed' + 0 = owed + Pending
    BY <1>1, <1>4 DEF Pending, One
  <2>5. ASSUME NEW c \in 1..Len(out["up"]), Behind(c)
        PROVE  Behind(c)' /\ Here' + owed' + Pending' + c <= Here + owed + Pending + c
    <3>1. Behind(c)'
      BY <1>1, <1>2, <2>5 DEF Behind
    <3>2. \A h, o, p, x, e \in Int : p + 0 = o + x => h + p + 0 + e <= h + o + x + e
      OBVIOUS
    <3>3. Here \in Int /\ owed \in Int /\ owed' \in Int /\ Pending \in Int /\ c \in Int
      BY <1>4, <1>5, <2>2, CalmFacts
    <3>4. Here + owed' + 0 + c <= Here + owed + Pending + c
      BY ONLY <2>4, <3>2, <3>3
    <3> QED BY <2>1, <2>3, <3>1, <3>4
  <2>6. srv' # "gone" /\ out'["up"] = out["up"]
    BY <1>1
  <2> QED BY <1>1, <1>4, <1>5, <2>5, <2>6, ServerMoves
<1>6. dirty' \in BOOLEAN /\ (dirty => dirty')
  BY <1>1, TestParts
<1> QED BY <1>1, <1>3, <1>4, <1>5, <1>6, ServerKept

\* The server sends something while it has not sent QUIT.
LEMMA SentByServer ==
    ASSUME TestInv, srv = "up", srv' # "gone", NEW op \in {"KERNEL", "QUIT"}, NEW len \in Nat,
           send_pdu("down", op, len), op = "QUIT" => srv' # "up",
           UNCHANGED <<taken, peeked, rd, got, sock>>
    PROVE  /\ SentInv' /\ out'["up"] = out["up"]
           /\ Answers = Len(out["down"])
           /\ Answers' = IF op = "QUIT" THEN Answers ELSE Answers + 1
<1> DEFINE q == out["down"]
           pdu == [op |-> op, len |-> len]
<1>1. /\ q \in Seq(PDUs) /\ Len(q) \in Nat /\ pdu \in PDUs /\ pdu.op = op
      /\ out'["down"] = Append(q, pdu) /\ out'["up"] = out["up"] /\ bytes'["up"] = bytes["up"]
  BY TestParts DEF send_pdu, FrameInv, FramingTypeOK, Streams, PDUs, Ops
<1>2. \A k \in 1..Len(q) : q[k].op = "KERNEL"
  BY TestParts DEF SentInv
<1> HIDE DEF q, pdu
<1>3. /\ Len(Append(q, pdu)) = Len(q) + 1 /\ Append(q, pdu)[Len(q) + 1] = pdu
      /\ \A k \in 1..Len(q) : Append(q, pdu)[k] = q[k]
  BY <1>1
<1>4. ASSUME NEW k \in 1..Len(out'["down"])
      PROVE  /\ out'["down"][k].op \in {"KERNEL", "QUIT"}
             /\ out'["down"][k].op = "QUIT" => k = Len(out'["down"]) /\ srv' # "up"
  <2>1. CASE k = Len(q) + 1
    BY <1>1, <1>3, <2>1
  <2>2. CASE k # Len(q) + 1
    <3>1. k \in 1..Len(q)
      BY <1>1, <1>3, <1>4, <2>2
    <3>2. out'["down"][k].op = "KERNEL"
      BY <1>1, <1>2, <1>3, <3>1
    <3> QED BY <3>2
  <2> QED BY <2>1, <2>2
<1>5. SentInv'
  BY <1>1, <1>4, TestParts DEF SentInv, Joining
<1>6. Answers = Len(q)
  <2>1. ~(Len(q) > 0 /\ q[Len(q)].op = "QUIT")
    <3>1. Len(q) > 0 => Len(q) \in 1..Len(q)
      BY <1>1
    <3> QED BY <1>2, <3>1
  <2> QED BY <2>1 DEF Answers, q
<1>7. Len(out'["down"]) = Len(q) + 1 /\ out'["down"][Len(out'["down"])].op = op
  BY <1>1, <1>3
<1>8. Answers' = IF op = "QUIT" THEN Len(q) ELSE Len(q) + 1
  <2>1. CASE op = "QUIT"
    <3>1. Len(out'["down"]) > 0 /\ Len(out'["down"]) - 1 = Len(q)
      BY <1>1, <1>7
    <3> QED BY <1>7, <2>1, <3>1 DEF Answers
  <2>2. CASE op # "QUIT"
    BY <1>7, <2>2 DEF Answers
  <2> QED BY <2>1, <2>2
<1> QED BY <1>1, <1>5, <1>6, <1>8 DEF q

\* One more answer is on its way.
LEMMA AnswerLeaves ==
    ASSUME TestInv, Answers' = Answers + 1, got' = got, rd' = rd, UNCHANGED <<lpc, num_receive>>
    PROVE  Here' <= Here + 1 /\ Here' \in Nat
<1> DEFINE g == Len(got["down"])
           a == Answers
           m == num_receive
           x == One(lpc = "store")
           y == One(rd["listen"].pc = "done" /\ rd["listen"].op # "QUIT")
           w == OnTheirWay
           v == OnTheirWay'
<1>1. g \in Nat /\ a \in Nat /\ m \in Nat /\ x \in Nat /\ y \in Nat
  BY TestParts, AnswersType DEF One
<1>2. w = IF g < a THEN a - g ELSE 0
  BY DEF OnTheirWay
<1>3. v = IF g < a + 1 THEN (a + 1) - g ELSE 0
  BY DEF OnTheirWay
<1>4. Here = m + x + y + w
  BY DEF Here
<1>5. Here' = m + x + y + v
  BY DEF Here
<1> HIDE DEF g, a, m, x, y, w, v
<1>6. w \in Nat /\ v \in Nat /\ v <= w + 1
  BY ONLY <1>1, <1>2, <1>3
<1>7. m + x + y + v <= (m + x + y + w) + 1 /\ m + x + y + v \in Nat
  BY ONLY <1>1, <1>6
<1> QED BY <1>4, <1>5, <1>7

LEMMA ReplyTest ==
    ASSUME TestInv, Reply \/ ForeignReply, SessionInv', StaysBroken
    PROVE  CountType' /\ SentInv' /\ CountInv'
<1>1. /\ srv = "up" /\ srv' = srv /\ send_pdu("down", "KERNEL", KERNEL_LEN) /\ ServerOnly
      /\ UNCHANGED <<taken, peeked, rd, got>> /\ UNCHANGED <<num_receive, sock, lpc>>
  BY DEF Reply, ForeignReply, Registered, ServerOnly, listener
<1>2. "KERNEL" \in {"KERNEL", "QUIT"} /\ "KERNEL" # "QUIT" /\ KERNEL_LEN \in Nat
  BY SessionAssumption
<1>3. SentInv' /\ out'["up"] = out["up"] /\ Answers' = Answers + 1
  BY <1>1, <1>2, SentByServer
<1>4. CASE Reply
  <2>1. owed > 0 /\ owed' = owed - 1 /\ dirty' = dirty /\ owed \in Nat
    BY <1>4, TestParts DEF Reply
  <2>2. owed' \in Nat /\ dirty' \in BOOLEAN /\ (dirty => dirty')
    BY <2>1, TestParts
  <2>3. ASSUME Undisturbed PROVE Balance'
    <3>1. Here' <= Here + 1 /\ Here' \in Nat
      BY <1>1, <1>3, AnswerLeaves
    <3>2. Here \in Nat /\ Pending \in Nat /\ Pending' = Pending
      BY <1>1, <2>3, CalmFacts DEF Pending
    <3>3. ASSUME NEW c \in 1..Len(out["up"]), Behind(c)
          PROVE  Behind(c)' /\ Here' + owed' + Pending' + c <= Here + owed + Pending + c
      <4>1. Behind(c)'
        BY <1>1, <1>3, <3>3 DEF Behind
      <4>2. \A h, i, o, p, e \in Int : i <= h + 1 => i + (o - 1) + p + e <= h + o + p + e
        OBVIOUS
      <4>3. Here \in Int /\ Here' \in Int /\ owed \in Int /\ Pending \in Int /\ c \in Int
        BY <2>1, <3>1, <3>2
      <4>4. Here' <= Here + 1
        BY <3>1
      <4>5. Here' + (owed - 1) + Pending + c <= Here + owed + Pending + c
        BY ONLY <4>2, <4>3, <4>4
      <4> QED BY <2>1, <3>2, <4>1, <4>5
    <3>4. srv # "gone" /\ srv' # "gone"
      BY <1>1
    <3> QED BY <1>1, <1>3, <2>2, <2>3, <3>3, <3>4, ServerMoves
  <2> QED BY <1>1, <1>3, <2>2, <2>3, ServerKept
<1>5. CASE ForeignReply
  <2>1. dirty' = TRUE /\ owed' = owed
    BY <1>5 DEF ForeignReply
  <2>2. ~Undisturbed'
    BY <2>1 DEF Undisturbed
  <2> QED BY <1>1, <1>3, <2>1, <2>2, TestParts, ServerKept
<1> QED BY <1>4, <1>5

LEMMA KickTest ==
    ASSUME TestInv, Kick, SessionInv', StaysBroken
    PROVE  CountType' /\ SentInv' /\ CountInv'
<1>1. /\ srv = "up" /\ srv' = "kicked" /\ send_pdu("down", "QUIT", 0) /\ ServerOnly
      /\ UNCHANGED <<taken, peeked, rd, got, owed, dirty>> /\ UNCHANGED <<num_receive, sock, lpc>>
  BY DEF Kick, Registered, ServerOnly, listener
<1>2. SentInv' /\ out'["up"] = out["up"] /\ Answers' = Answers
  BY <1>1, SentByServer
<1>3. owed' \in Nat /\ owed \in Nat /\ dirty' \in BOOLEAN /\ (dirty => dirty')
  BY <1>1, TestParts
<1>4. ASSUME Undisturbed PROVE Balance'
  <2>1. Here' = Here /\ Pending' = Pending /\ owed' = owed
    BY <1>1, <1>2 DEF Here, OnTheirWay, Pending
  <2>2. Here \in Nat /\ Pending \in Nat
    BY <1>4, CalmFacts
  <2>3. ASSUME NEW c \in 1..Len(out["up"]), Behind(c)
        PROVE  Behind(c)' /\ Here' + owed' + Pending' + c <= Here + owed + Pending + c
    <3>1. Behind(c)'
      BY <1>1, <1>2, <2>3 DEF Behind
    <3>2. Here + owed + Pending + c <= Here + owed + Pending + c
      BY <1>3, <2>2
    <3> QED BY <2>1, <3>1, <3>2
  <2>4. srv # "gone" /\ srv' # "gone"
    BY <1>1
  <2> QED BY <1>1, <1>2, <1>3, <1>4, <2>3, <2>4, ServerMoves
<1> QED BY <1>1, <1>2, <1>3, <1>4, ServerKept

LEMMA ServerEndTest ==
    ASSUME TestInv, ServerEnd, SessionInv', StaysBroken
    PROVE  CountType' /\ SentInv' /\ CountInv'
<1>0. "server" \in Readers /\ "listen" \in Readers /\ "up" \in Streams /\ "down" \in Streams
  BY DEF Readers, Streams
<1>1. /\ srv' = "gone" /\ owed' = 0 /\ dirty' = dirty /\ ServerOnly
      /\ rd' = [rd EXCEPT !["server"] = At("idle")]
      /\ out' = [out EXCEPT !["up"] = <<>>] /\ got' = [got EXCEPT !["up"] = <<>>]
      /\ UNCHANGED <<num_receive, lpc, num_send, sent>>
  BY DEF ServerEnd, ServerOnly, listener, client
<1>2. out'["down"] = out["down"] /\ got'["down"] = got["down"] /\ rd'["listen"] = rd["listen"]
  BY <1>0, <1>1, TestParts, FrameFacts
<1>3. SentInv'
  BY <1>1, <1>2, TestParts DEF SentInv
<1>4. ASSUME Undisturbed PROVE Balance'
  <2>1. Here <= Asked
    BY <1>4, CalmFacts, BalanceBound, TestParts
  <2>2. Here' = Here /\ Asked' = Asked
    <3>1. OnTheirWay' = OnTheirWay
      BY <1>2 DEF OnTheirWay, Answers
    <3> QED BY <1>1, <1>2, <3>1 DEF Here, Asked
  <2> QED BY <1>1, <2>1, <2>2 DEF Balance
<1>5. owed' \in Nat /\ dirty' \in BOOLEAN /\ (dirty => dirty')
  BY <1>1, TestParts
<1> QED BY <1>1, <1>3, <1>4, <1>5, ServerKept

-----------------------------------------------------------------------------
(* The theorem about the load tests. *)

LEMMA InitTestInv == Init => TestInv
<1> SUFFICES ASSUME Init PROVE TestInv
  OBVIOUS
<1> DEFINE p == [op |-> "JOIN", len |-> JOIN_LEN]
<1>1. SessionInv
  BY InitSessionInv
<1>2. CountType
  BY DEF Init, CountType
<1>3. /\ out["up"] = <<p>> /\ out["down"] = <<>> /\ bytes["up"] = Size(p) /\ taken["up"] = 0
      /\ got["up"] = <<>> /\ got["down"] = <<>> /\ rd["server"] = At("peek") /\ rd["listen"] = At("idle")
  BY DEF Init, FramingInit, Streams, Readers
<1>4. p \in PDUs
  BY SessionAssumption DEF PDUs, Ops
<1> DEFINE q == <<p>>
<1>5. q \in Seq(PDUs) /\ Len(q) = 1 /\ q[1] = p /\ Len(<<>>) = 0
  BY <1>4
<1>6. Offset(q)[1] = Size(p)
  <2>1. 1 \in 1..Len(q) /\ 1 - 1 = 0
    BY <1>5
  <2> HIDE DEF q, p
  <2>2. Offset(q)[1] = Offset(q)[0] + Size(q[1]) /\ Offset(q)[0] = 0
    BY <1>5, <2>1, OffsetEquation
  <2>3. Size(p) \in Nat
    BY <1>4, SizePositive
  <2> QED BY <1>5, <2>2, <2>3
<1>7. SentInv
  <2>1. Len(out["up"]) >= 1 /\ out["up"][1] = p /\ bytes["up"] = Offset(out["up"])[Len(out["up"])]
    BY <1>3, <1>5, <1>6
  <2>2. Len(out["down"]) = 0 /\ rd["server"].pc = "peek" /\ taken["up"] = 0
    BY <1>3 DEF At
  <2> QED BY <2>1, <2>2 DEF SentInv, Joining
<1>8. Balance
  <2>1. Len(out["up"]) = 1 /\ Len(got["up"]) = 0 /\ Len(got["down"]) = 0 /\ Len(out["down"]) = 0
    BY <1>3, <1>5
  <2>2. OnTheirWay = 0
    BY <2>1 DEF OnTheirWay, Answers
  <2>3. Here = 0 /\ Asked = 0 /\ Pending = 0 /\ owed = 0
    BY <1>3, <2>2 DEF Init, Here, Asked, Pending, One, At
  <2>4. Behind(1) /\ 1 \in 1..Len(out["up"])
    BY <2>1 DEF Behind
  <2>5. Here + owed + Pending + (Len(out["up"]) - 1) <= Asked
    BY <2>1, <2>3
  <2>6. srv # "gone"
    BY DEF Init
  <2> QED BY <2>4, <2>5, <2>6 DEF Balance
<1>9. CountInv
  BY <1>8 DEF CountInv, Init
<1> QED BY <1>1, <1>2, <1>7, <1>9 DEF TestInv

LEMMA NextTestInv == TestInv /\ [Next]_vars => TestInv'
<1> SUFFICES ASSUME TestInv, [Next]_vars PROVE TestInv'
  OBVIOUS
<1>1. SessionInv' /\ StaysBroken
  BY NextKeeps, TestParts
<1>2. CountType' /\ SentInv' /\ CountInv'
  <2>1. CASE Menu
    BY <1>1, <2>1, MenuTest
  <2>2. CASE Main
    BY <1>1, <2>2, MainTest
  <2>3. CASE Listen
    BY <1>1, <2>3, ListenTest
  <2>4. CASE srv # "gone" /\ Server
    BY <1>1, <2>4, ServerReadTest, ServerTakeTest, ReplyTest DEF Server
  <2>5. CASE ForeignReply \/ Kick
    BY <1>1, <2>5, ReplyTest, KickTest
  <2>6. CASE ServerEnd
    BY <1>1, <2>6, ServerEndTest
  <2>7. CASE UNCHANGED vars
    <3>1. /\ UNCHANGED <<srv, owed, sent, num_send, num_receive, reg, timed, lpc, dirty, cpc>>
          /\ UNCHANGED <<out, got, taken, peeked, rd, bytes, sock>>
      BY <2>7 DEF vars, client, listener, server, fvars
    <3> QED BY <1>1, <3>1, CountKept, SentKept, TestParts DEF CountType
  <2> QED BY <2>1, <2>2, <2>3, <2>4, <2>5, <2>6, <2>7 DEF Next
<1> QED BY <1>1, <1>2 DEF TestInv

\* The receive thread prints the time of every load test that nothing else
\* disturbs, however the sending thread, the receive thread and the server
\* interleave and however long the test is, unless it compared the counters for
\* the last answer before the request had been counted.
THEOREM TimeIsPrinted == Spec => []FinalTime
<1>1. TestInv => FinalTime
  <2> SUFFICES ASSUME TestInv, ~dirty, ~Broken("down"), cpc \in {"cond", "menu"},
                      lpc \in {"loop", "recv"}, num_send > 0, num_receive = num_send
               PROVE  timed \in {"yes", "overtaken"}
    BY DEF FinalTime
  <2>1. Undisturbed
    BY DEF Undisturbed
  <2>2. timed = "no" => num_receive < num_send \/ num_receive = 0
    BY <2>1, CalmFacts
  <2> QED BY <2>2, TestParts DEF CountType
<1> QED BY <1>1, InitTestInv, NextTestInv, PTL DEF Spec
=============================================================================
