------------------------ MODULE ClientRegistryProofs ------------------------
(***************************************************************************)
(* Proofs about ClientRegistry, for every set of clients.                  *)
(***************************************************************************)
EXTENDS ClientRegistry, SeqLemmas, TLAPS

-----------------------------------------------------------------------------
(* The inductive invariant. *)

At(c) == PosOf(clients_sockets, c)
Clean(w) == walk[w].ev \cap {"here", "behind", "stale"} = {}
Gone(c) == walk[c].pc \notin {"out", "served"}

\* The sender is never a departing listener, nor one of those the sender.
RoleOK(w) ==
    /\ w = Sender => walk[w].pc \notin {"out", "served", "leaving", "remove"}
    /\ w \in Clients => walk[w].pc # "idle"
    /\ walk[w].pc \in {"idle", "out", "served", "leaving"} => walk[w].ev = {}

\* A pointer leads to an entry of the list, unless its node was freed under it.
PointerOK(w) ==
    /\ walk[w].p \in Clients => walk[w].p \in Entries
    /\ walk[w].p # NULL => Active(w)
    /\ walk[w].p = Dangling => "here" \in walk[w].ev
    /\ walk[w].pc \in {"next", "remove"} => walk[w].p # NULL

\* How i and p belong together: i may be ahead of the position of p, because
\* entries before it were removed, and never behind.
IndexOK(w) ==
    Active(w) /\ "here" \notin walk[w].ev =>
        /\ walk[w].p \in Clients => walk[w].i >= At(walk[w].p) - 1
        /\ walk[w].p \in Clients /\ "behind" \notin walk[w].ev => walk[w].i = At(walk[w].p) - 1
        /\ walk[w].p = NULL /\ "end" \notin walk[w].ev
                => walk[w].i >= Len(clients_sockets) /\ walk[w].pc # "inspect"

\* A departing listener has not yet walked past its own entry, and removes its
\* own or that of another departed client.
SearchOK(c) ==
    /\ Active(c) /\ Clean(c) /\ c \in Entries =>
            /\ walk[c].p # NULL /\ At(walk[c].p) <= At(c)
            /\ walk[c].pc = "next" => walk[c].p # c
    /\ walk[c].pc = "remove" /\ Clean(c) => walk[c].p = c
    /\ walk[c].pc = "remove" /\ "here" \notin walk[c].ev => Gone(walk[c].p)

\* The parts of WalkSafe and LeaverDeregistered.
EndOK(w) ==
    /\ walk[w].pc = "crashed" => walk[w].ev \cap {"here", "end"} # {}
    /\ w \in Clients /\ walk[w].pc = "end" /\ Clean(w) => w \notin Entries

WalkOK(w) == /\ RoleOK(w) /\ PointerOK(w) /\ IndexOK(w) /\ EndOK(w)
             /\ w \in Clients => SearchOK(w)

\* A client is entered once, and only a departed client's clientThreadInfo is
\* freed.
ListInv ==
    /\ NoRepeats(clients_sockets)
    /\ \A c \in Entries : walk[c].pc # "out"
    /\ \A c \in freed : Gone(c)

\* The broadcast has been sent to exactly the entries it has passed, but for
\* those whose clientThreadInfo is freed and those added to the list behind it.
Passed(c) ==
    \/ walk[Sender].p = NULL \/ At(c) < At(walk[Sender].p)
    \/ walk[Sender].p = c /\ walk[Sender].pc = "next"

SentInv ==
    /\ walk[Sender].pc = "idle" => present = {} /\ \A c \in Clients : sent[c] = 0
    /\ "here" \notin walk[Sender].ev =>
            /\ present \subseteq Entries
            /\ \A c \in Clients : sent[c] > 0 => sent[c] < 2 /\ walk[c].pc # "out"
            /\ Active(Sender) => \A c \in Entries :
                    /\ sent[c] > 0 => Passed(c)
                    /\ c \in present /\ walk[c].pc = "served" /\ Passed(c) => sent[c] > 0

RegistryInv ==
    /\ \A w \in Walkers : WalkOK(w)
    /\ ListInv /\ SentInv /\ BroadcastReaches /\ ServedStaysRegistered

-----------------------------------------------------------------------------
(* The list. *)

LEMMA Names ==
    /\ Entries = SetOf(clients_sockets) /\ Entries' = SetOf(clients_sockets')
    /\ \A c : Position(c) = PosOf(clients_sockets, c)
  BY DEF Entries, SetOf, Position, PosOf

\* llist_first and llist_next.
LEMMA ListFacts ==
    ASSUME TypeOK, NoRepeats(clients_sockets)
    PROVE  /\ Len(clients_sockets) \in Nat
           /\ Len(clients_sockets) = 0 <=> Entries = {}
           /\ Entries \subseteq Clients
           /\ \A c \in Entries : At(c) \in 1..Len(clients_sockets)
           /\ \A c, d \in Entries : At(c) = At(d) => c = d
           /\ IF Entries = {} THEN llist_first = NULL
                              ELSE llist_first \in Entries /\ At(llist_first) = 1
           /\ \A c \in Entries :
                 IF At(c) = Len(clients_sockets)
                 THEN llist_next(c) = NULL
                 ELSE llist_next(c) \in Entries /\ At(llist_next(c)) = At(c) + 1
<1> DEFINE s == clients_sockets
<1>1. s \in Seq(Clients) /\ Entries = SetOf(s) /\ \A c : Position(c) = PosOf(s, c)
  BY Names DEF TypeOK
<1>2. Len(s) \in Nat /\ DOMAIN s = 1..Len(s) /\ (Len(s) = 0 <=> s = <<>>)
  BY <1>1
<1>3. Entries \subseteq Clients /\ (Entries = {} <=> s = <<>>)
  BY <1>1, SetOfEmpty
<1>4. \A c \in Entries : PosOf(s, c) \in DOMAIN s /\ s[PosOf(s, c)] = c
  BY <1>1, PosOfEntry
<1>5. \A j \in DOMAIN s : s[j] \in Entries /\ PosOf(s, s[j]) = j
  BY <1>1, PosOfEntry DEF SetOf
<1>6. IF Entries = {} THEN llist_first = NULL
                      ELSE llist_first \in Entries /\ At(llist_first) = 1
  <2>1. CASE s = <<>>
    BY <1>3, <2>1 DEF llist_first
  <2>2. CASE s # <<>>
    <3>1. llist_first = s[1] /\ 1 \in DOMAIN s
      BY <1>1, <1>2, <2>2 DEF llist_first
    <3> QED BY <1>3, <1>5, <2>2, <3>1 DEF At
  <2> QED BY <2>1, <2>2
<1>7. ASSUME NEW c \in Entries
      PROVE  IF At(c) = Len(s) THEN llist_next(c) = NULL
             ELSE llist_next(c) \in Entries /\ At(llist_next(c)) = At(c) + 1
  <2>1. Position(c) = At(c) /\ At(c) \in 1..Len(s)
    BY <1>1, <1>2, <1>4 DEF At
  <2>2. CASE At(c) = Len(s)
    BY <2>1, <2>2 DEF llist_next
  <2>3. CASE At(c) # Len(s)
    <3>1. llist_next(c) = s[At(c) + 1] /\ At(c) + 1 \in DOMAIN s
      BY <1>2, <2>1, <2>3 DEF llist_next
    <3> QED BY <1>5, <2>3, <3>1 DEF At
  <2> QED BY <2>2, <2>3
<1>8. \A c \in Entries : At(c) \in 1..Len(s) /\ s[At(c)] = c
  BY <1>2, <1>4 DEF At
<1> QED BY <1>2, <1>3, <1>6, <1>7, <1>8

\* llist_remove and llist_removefirst.
LEMMA UnlinkFacts ==
    ASSUME TypeOK, NoRepeats(clients_sockets), NEW c \in Entries, Unlink(c)
    PROVE  /\ clients_sockets' \in Seq(Clients) /\ NoRepeats(clients_sockets')
           /\ Len(clients_sockets') = Len(clients_sockets) - 1
           /\ Entries' = Entries \ {c}
           /\ \A d \in Entries \ {c} :
                 PosOf(clients_sockets', d) = IF At(d) < At(c) THEN At(d) ELSE At(d) - 1
<1> DEFINE s == clients_sockets
           k == PosOf(s, c)
<1>1. s \in Seq(Clients) /\ Entries = SetOf(s)
  BY Names DEF TypeOK
<1>2. k \in DOMAIN s /\ s[k] = c
  BY <1>1, PosOfEntry
<1>3. clients_sockets' = Without(s, k)
  BY Names DEF Unlink, Without
<1>4. Entries' = SetOf(Without(s, k))
  BY Names, <1>3
<1> HIDE DEF k
<1>5. Len(Without(s, k)) = Len(s) - 1
  BY <1>1, <1>2, WithoutEntries
<1>6. /\ Without(s, k) \in Seq(Clients) /\ NoRepeats(Without(s, k))
      /\ SetOf(Without(s, k)) = SetOf(s) \ {c}
  BY <1>1, <1>2, SetOfWithout
<1>7. \A d \in SetOf(s) : d # c =>
         PosOf(Without(s, k), d) = IF PosOf(s, d) < k THEN PosOf(s, d) ELSE PosOf(s, d) - 1
  BY <1>1, <1>2, PosOfWithout
<1> QED BY <1>1, <1>3, <1>4, <1>5, <1>6, <1>7 DEF At, k

\* llist_insertlast.
LEMMA EnterFacts ==
    ASSUME TypeOK, NoRepeats(clients_sockets), NEW c \in Clients \ Entries,
           clients_sockets' = Append(clients_sockets, c)
    PROVE  /\ clients_sockets' \in Seq(Clients) /\ NoRepeats(clients_sockets')
           /\ Len(clients_sockets') = Len(clients_sockets) + 1
           /\ Entries' = Entries \cup {c}
           /\ \A d \in Entries : PosOf(clients_sockets', d) = At(d)
<1>1. clients_sockets \in Seq(Clients) /\ c \notin SetOf(clients_sockets)
  BY Names DEF TypeOK
<1>2. Len(Append(clients_sockets, c)) = Len(clients_sockets) + 1
  BY <1>1
<1>3. \A d \in SetOf(clients_sockets) :
         PosOf(Append(clients_sockets, c), d) = PosOf(clients_sockets, d)
  BY <1>1, PosOfAppend
<1>4. /\ Append(clients_sockets, c) \in Seq(Clients) /\ NoRepeats(Append(clients_sockets, c))
      /\ SetOf(Append(clients_sockets, c)) = SetOf(clients_sockets) \cup {c}
  BY <1>1, SetOfAppend
<1> QED BY <1>2, <1>3, <1>4, Names DEF At

-----------------------------------------------------------------------------
(* Types. *)

Walks == [pc : {"idle", "out", "served", "leaving", "test", "inspect", "next", "remove", "end",
                "crashed"},
          p : Pointers, i : Nat, ev : SUBSET {"here", "behind", "end", "stale"}]

LEMMA WalkTypes ==
    ASSUME NEW W \in [Walkers -> Walks]
    PROVE  /\ \A c \in Entries : Unlinked(W, c) \in [Walkers -> Walks]
           /\ \A c \in Clients : \A r \in SUBSET Walkers : Linked(W, c, r) \in [Walkers -> Walks]
<1>1. ASSUME NEW c \in Entries
      PROVE  Unlinked(W, c) \in [Walkers -> Walks]
  <2> SUFFICES ASSUME NEW w \in Walkers
               PROVE  Unlinked(W, c)[w] \in Walks
    BY DEF Unlinked
  <2>1. W[w] \in Walks
    OBVIOUS
  <2>2. [W[w] EXCEPT !.p = Dangling, !.ev = Note(@, "here")] \in Walks
    BY <2>1 DEF Walks, Pointers, Note
  <2>3. [W[w] EXCEPT !.ev = Note(@, "behind")] \in Walks
    BY <2>1 DEF Walks, Note
  <2> QED BY <2>1, <2>2, <2>3 DEF Unlinked
<1>2. ASSUME NEW c \in Clients, NEW r \in SUBSET Walkers
      PROVE  Linked(W, c, r) \in [Walkers -> Walks]
  <2> SUFFICES ASSUME NEW w \in Walkers
               PROVE  Linked(W, c, r)[w] \in Walks
    BY DEF Linked
  <2>1. W[w] \in Walks
    OBVIOUS
  <2>2. [W[w] EXCEPT !.p = c] \in Walks
    BY <2>1 DEF Walks, Pointers
  <2>3. [W[w] EXCEPT !.ev = Note(@, "end")] \in Walks
    BY <2>1 DEF Walks, Note
  <2> QED BY <2>1, <2>2, <2>3 DEF Linked
<1> QED BY <1>1, <1>2

LEMMA UnlinkTypes ==
    ASSUME TypeOK, ListInv, NEW c \in Entries, Unlink(c)
    PROVE  /\ clients_sockets' \in Seq(Clients) /\ freed' \subseteq Clients
           /\ present' \subseteq Clients /\ sent' \in [Clients -> 0..2]
<1>1. clients_sockets' \in Seq(Clients)
  BY UnlinkFacts DEF ListInv
<1> QED BY <1>1 DEF Unlink, TypeOK

LEMMA TypeStep == TypeOK /\ ListInv /\ (\A w \in Walkers : PointerOK(w)) /\ [Next]_vars => TypeOK'
<1> SUFFICES ASSUME TypeOK, ListInv, \A w \in Walkers : PointerOK(w), [Next]_vars
             PROVE  TypeOK'
  OBVIOUS
<1>a. Entries \subseteq Clients /\ (Len(clients_sockets) # 0 => llist_first \in Entries)
      /\ llist_first \in Pointers
      /\ \A p \in Entries : llist_next(p) \in Pointers
  BY ListFacts DEF ListInv, Pointers
<1>b. \A w \in Walkers : walk[w].p \in Clients => walk[w].p \in Entries
  BY DEF PointerOK
<1>c. walk \in [Walkers -> Walks]
  BY DEF TypeOK, Walks
<1>d. Sender \in Walkers /\ Clients \subseteq Walkers
  BY DEF Walkers
<1>e. \A pc \in {"idle", "leaving", "test", "end", "crashed"}, p \in Pointers,
         ev \in SUBSET {"here", "behind", "end", "stale"} : Walk(pc, p, ev) \in Walks
  BY DEF Walk, Walks
<1>f. NULL \in Pointers /\ Dangling \in Pointers
  BY DEF Pointers
<1>g. \A w \in Walkers : Ended(w) \in Walks /\ Walk("crashed", NULL, walk[w].ev) \in Walks
  BY <1>c, <1>e, <1>f DEF Ended, Walks
<1>h. \A w \in Walkers : Crash(w) => walk' \in [Walkers -> Walks] /\ crashed' \in BOOLEAN
  BY <1>c, <1>g DEF Crash
<1>i. SUFFICES /\ clients_sockets' \in Seq(Clients) /\ walk' \in [Walkers -> Walks]
               /\ freed' \subseteq Clients /\ present' \subseteq Clients
               /\ sent' \in [Clients -> 0..2] /\ wpc' \in {"stdin", "drain", "done"}
               /\ crashed' \in BOOLEAN
  BY DEF TypeOK, Walks
<1> DEFINE G == /\ clients_sockets' \in Seq(Clients) /\ walk' \in [Walkers -> Walks]
                /\ freed' \subseteq Clients /\ present' \subseteq Clients
                /\ sent' \in [Clients -> 0..2] /\ wpc' \in {"stdin", "drain", "done"}
                /\ crashed' \in BOOLEAN
<1> USE RegistryAssumption, <1>a, <1>c, <1>d, <1>f DEF TypeOK
<1>1. ASSUME NEW w \in Walkers, WalkStart(w)
      PROVE  G
  BY <1>1, <1>e DEF WalkStart
<1>2. ASSUME NEW w \in Walkers, WalkTest(w)
      PROVE  G
  <2>1. walk' \in [Walkers -> Walks]
    <3>1. [walk EXCEPT ![w].pc = "inspect"] \in [Walkers -> Walks]
      BY DEF Walks
    <3>2. [walk EXCEPT ![w] = Ended(w)] \in [Walkers -> Walks]
      BY <1>g
    <3> QED BY ONLY <1>2, <3>1, <3>2 DEF WalkTest
  <2> QED BY <1>2, <2>1 DEF WalkTest
<1>3. ASSUME NEW w \in Walkers, WalkInspect(w)
      PROVE  G
  <2>1. sent' \in [Clients -> 0..2]
    <3>1. CASE UNCHANGED sent
      BY <3>1
    <3>2. ASSUME walk[w].p # NULL, "here" \notin walk[w].ev, sent[walk[w].p] < 2,
                 sent' = [sent EXCEPT ![walk[w].p] = @ + 1]
          PROVE  sent' \in [Clients -> 0..2]
      <4>1. walk[w].p \in Clients
        BY <3>2 DEF PointerOK, Pointers, Walks
      <4>2. sent[walk[w].p] + 1 \in 0..2
        BY <3>2, <4>1
      <4> QED BY <3>2, <4>1, <4>2
    <3> QED BY <1>3, <3>1, <3>2 DEF WalkInspect, Crash
  <2>2. walk' \in [Walkers -> Walks]
    <3>1. ASSUME NEW own,
                 walk' = [walk EXCEPT
                            ![w].pc = IF own THEN "remove" ELSE "next",
                            ![w].ev = IF w # Sender /\ walk[w].p \in freed THEN Note(@, "stale")
                                                                          ELSE @]
          PROVE  walk' \in [Walkers -> Walks]
      <4> DEFINE r == [walk[w] EXCEPT
                         !.pc = IF own THEN "remove" ELSE "next",
                         !.ev = IF w # Sender /\ walk[w].p \in freed THEN Note(@, "stale") ELSE @]
      <4>1. walk[w] \in Walks
        OBVIOUS
      <4>2. r \in Walks
        BY ONLY <4>1 DEF Walks, Note
      <4>3. walk' = [walk EXCEPT ![w] = r]
        BY <3>1
      <4> HIDE DEF r
      <4> QED BY <4>2, <4>3
    <3> QED BY <1>3, <1>h, <3>1 DEF WalkInspect
  <2> QED BY <1>3, <2>1, <2>2 DEF WalkInspect, Crash
<1>4. ASSUME NEW w \in Walkers, WalkNext(w)
      PROVE  G
  <2>1. ASSUME NEW q \in Pointers,
               walk' = [walk EXCEPT ![w].pc = "test", ![w].p = q, ![w].i = @ + 1]
        PROVE  walk' \in [Walkers -> Walks]
    <3> DEFINE r == [walk[w] EXCEPT !.pc = "test", !.p = q, !.i = @ + 1]
    <3>1. walk[w] \in Walks
      OBVIOUS
    <3>2. r \in Walks
      <4>1. walk[w].i + 1 \in Nat
        BY <3>1 DEF Walks
      <4> QED BY <3>1, <4>1 DEF Walks
    <3>3. walk' = [walk EXCEPT ![w] = r]
      BY <2>1
    <3> HIDE DEF r
    <3> QED BY <3>2, <3>3
  <2>2. walk' \in [Walkers -> Walks]
    <3>1. Entries \cup {NULL, Dangling} \subseteq Pointers
      BY DEF Pointers
    <3> QED BY <1>4, <1>b, <1>h, <2>1, <3>1 DEF WalkNext
  <2> QED BY <1>4, <2>2 DEF WalkNext, Crash
<1>5. ASSUME NEW c \in Clients, Leave(c)
      PROVE  G
  BY <1>5, <1>e DEF Leave
<1>6. ASSUME NEW c \in Clients, FreeThreadInfo(c)
      PROVE  G
  BY <1>6, <1>e DEF FreeThreadInfo
<1>7. ASSUME NEW c \in Clients, RemoveOwn(c)
      PROVE  G
  <2>1. ASSUME walk' = [walk EXCEPT ![c] = Ended(c)],
               UNCHANGED <<clients_sockets, freed, sent, present, crashed>>
        PROVE  G
    BY <1>7, <1>g, <2>1 DEF RemoveOwn
  <2>2. ASSUME Crash(c), UNCHANGED <<clients_sockets, freed, sent, present>>
        PROVE  G
    BY <1>7, <1>h, <2>2 DEF RemoveOwn
  <2>3. ASSUME walk[c].p \in Entries, Unlink(walk[c].p), UNCHANGED crashed,
               walk' = [Unlinked(walk, walk[c].p) EXCEPT ![c] = Ended(c)]
        PROVE  G
    <3>1. walk' \in [Walkers -> Walks]
      BY <1>g, <2>3, WalkTypes
    <3> QED BY <1>7, <2>3, <3>1, UnlinkTypes DEF RemoveOwn
  <2> QED BY <1>7, <2>1, <2>2, <2>3 DEF RemoveOwn
<1>8. ASSUME NEW c \in Clients, Enter(c)
      PROVE  G
  <2>1. clients_sockets' \in Seq(Clients)
    BY <1>8 DEF Enter
  <2>2. [walk EXCEPT ![c].pc = "served"] \in [Walkers -> Walks]
    BY DEF Walks
  <2>3. walk' \in [Walkers -> Walks]
    <3> PICK r \in SUBSET Walkers : walk' = Linked([walk EXCEPT ![c].pc = "served"], c, r)
      BY <1>8 DEF Enter
    <3> QED BY <2>2, WalkTypes
  <2> QED BY <1>8, <2>1, <2>3 DEF Enter
<1>9. CASE BroadcastEnd
  BY <1>9, <1>e DEF BroadcastEnd
<1>10. CASE CloseServer
  BY <1>10, <1>e DEF CloseServer
<1>11. CASE Drain
  <2>1. ASSUME llist_first \in Entries, Unlink(llist_first), UNCHANGED <<wpc, crashed>>,
               walk' = Unlinked(walk, llist_first)
        PROVE  G
    BY <2>1, WalkTypes, UnlinkTypes
  <2> QED BY <1>11, <2>1 DEF Drain, list_length
<1>12. CASE UNCHANGED vars
  BY <1>12 DEF vars
<1> HIDE DEF G, TypeOK
<1> QED
  BY <1>1, <1>2, <1>3, <1>4, <1>5, <1>6, <1>7, <1>8, <1>9, <1>10, <1>11, <1>12
     DEF Next, WalkStep, G

-----------------------------------------------------------------------------
(* The step. *)

\* What the provers are told of the types.
Plain ==
    /\ \A w \in Walkers : /\ walk[w].i \in Nat
                          /\ walk[w].p \in Clients \/ walk[w].p = NULL \/ walk[w].p = Dangling
    /\ \A w : w \in Walkers <=> w \in Clients \/ w = Sender
    /\ Sender \notin Clients /\ NULL \notin Clients /\ Dangling \notin Clients
    /\ NULL # Dangling
    /\ freed \subseteq Clients /\ present \subseteq Clients
    /\ \A c \in Clients : sent[c] \in 0..2

LEMMA PlainTypes == TypeOK => Plain
  BY RegistryAssumption DEF TypeOK, Plain, Walkers, Pointers

\* A step of one walk, while the list stays as it is: what has to be shown is
\* about that walk only.
LEMMA OneWalk ==
    ASSUME TypeOK, RegistryInv, NEW w \in Walkers,
           UNCHANGED <<clients_sockets, freed, wpc>>,
           \A v \in Walkers \ {w} : walk'[v] = walk[v],
           walk[w].pc # "out", walk'[w].pc \notin {"out", "served"},
           w \in Clients /\ "here" \notin walk'[w].ev => "here" \notin walk[w].ev,
           w # Sender => UNCHANGED <<sent, present>>,
           WalkOK(w)',
           w = Sender => SentInv' /\ BroadcastReaches'
    PROVE  RegistryInv'
<1>a. Plain
  BY PlainTypes
<1>b. Entries' = Entries
  BY DEF Entries
<1> USE <1>a, <1>b DEF Plain, RegistryInv
<1>1. ASSUME NEW v \in Walkers \ {w}
      PROVE  WalkOK(v)'
  <2>a. WalkOK(v) /\ walk'[v] = walk[v] /\ (v \in Clients => v # Sender)
    OBVIOUS
  <2>b. \A d \in Clients : Gone(d) => Gone(d)'
    BY DEF Gone
  <2>c. v \in Clients /\ walk[v].pc = "remove" /\ "here" \notin walk[v].ev => walk[v].p \in Clients
    BY <2>a DEF WalkOK, PointerOK
  <2> HIDE <1>a
  <2> QED BY <2>a, <2>b, <2>c
          DEF WalkOK, RoleOK, PointerOK, IndexOK, EndOK, SearchOK, Active, Clean, At
<1>2. ListInv'
  <2>1. Entries \subseteq Clients
    BY ListFacts DEF ListInv
  <2> QED BY <2>1 DEF ListInv, Gone
<1>3. SentInv'
  <2>1. CASE w # Sender
    <3>1. walk'[Sender] = walk[Sender] /\ UNCHANGED <<sent, present>>
      BY <2>1
    <3> QED BY <3>1 DEF SentInv, Active, Passed, At
  <2> QED BY <2>1
<1>4. BroadcastReaches'
  <2>1. CASE w # Sender
    <3>1. walk'[Sender] = walk[Sender] /\ UNCHANGED <<sent, present>>
      BY <2>1
    <3> QED BY <3>1 DEF BroadcastReaches
  <2> QED BY <2>1
<1>5. ServedStaysRegistered'
  <2> SUFFICES ASSUME wpc = "stdin", \A d \in Clients : "here" \notin walk'[d].ev,
                      NEW c \in Clients, walk'[c].pc = "served"
               PROVE  c \in Entries
    BY DEF ServedStaysRegistered
  <2>1. \A d \in Clients : "here" \notin walk[d].ev
    OBVIOUS
  <2>2. walk[c].pc = "served"
    OBVIOUS
  <2> QED BY <2>1, <2>2 DEF ServedStaysRegistered
<1> QED BY <1>1, <1>2, <1>3, <1>4, <1>5

\* A crash, on a freed node or past the end of the list.
LEMMA CrashStep ==
    ASSUME TypeOK, RegistryInv, NEW w \in Walkers, Active(w), Crash(w),
           UNCHANGED <<clients_sockets, freed, sent, present, wpc>>,
           walk[w].ev \cap {"here", "end"} # {}
    PROVE  RegistryInv'
<1>a. Plain /\ WalkOK(w)
  BY PlainTypes DEF RegistryInv
<1>b. /\ walk'[w].pc = "crashed" /\ walk'[w].p = NULL /\ walk'[w].ev = walk[w].ev
      /\ \A v \in Walkers \ {w} : walk'[v] = walk[v]
  <2>1. walk \in [Walkers -> Walks]
    BY DEF TypeOK, Walks
  <2> QED BY <2>1 DEF Crash, Walk
<1>c. Entries' = Entries
  BY DEF Entries
<1>1. WalkOK(w)'
  BY <1>a, <1>b DEF Plain, WalkOK, RoleOK, PointerOK, IndexOK, EndOK, SearchOK, Active
<1>2. w = Sender => SentInv' /\ BroadcastReaches'
  BY <1>a, <1>b, <1>c DEF Plain, RegistryInv, SentInv, BroadcastReaches, Active
<1>3. walk[w].pc # "out"
  BY DEF Active
<1> QED BY <1>b, <1>1, <1>2, <1>3, OneWalk

\* Entry c is unlinked, by the writer or by the listeners of Ends, of which the
\* walk is then over.
LEMMA UnlinkStep ==
    ASSUME TypeOK, RegistryInv, NEW c \in Entries, Unlink(c),
           NEW Ends \in SUBSET Clients,
           \A w \in Walkers \ Ends : walk'[w] = Unlinked(walk, c)[w],
           \A w \in Ends : walk'[w] = Ended(w) /\ walk[w].pc = "remove" /\ walk[w].p = c,
           wpc' = "stdin" => wpc = "stdin" /\ Ends # {}
    PROVE  RegistryInv'
<1>a. Plain
  BY PlainTypes
<1>b. /\ Len(clients_sockets) \in Nat
      /\ Entries \subseteq Clients
      /\ \A d \in Entries : At(d) \in 1..Len(clients_sockets)
      /\ \A d, e \in Entries : At(d) = At(e) => d = e
  BY ListFacts DEF RegistryInv, ListInv
<1>c. /\ NoRepeats(clients_sockets') /\ Entries' = Entries \ {c}
      /\ Len(clients_sockets') = Len(clients_sockets) - 1
      /\ \A d \in Entries \ {c} :
            PosOf(clients_sockets', d) = IF At(d) < At(c) THEN At(d) ELSE At(d) - 1
  BY UnlinkFacts DEF RegistryInv, ListInv
<1>d. /\ freed' = freed \ {c}
      /\ present' = IF walk[Sender].p = c THEN {} ELSE present \ {c}
      /\ walk[Sender].p # c => sent' = sent
  BY DEF Unlink
<1>e. ASSUME NEW w \in Walkers \ Ends
      PROVE  /\ walk'[w].pc = walk[w].pc /\ walk'[w].i = walk[w].i
             /\ ~Active(w) => walk'[w] = walk[w]
             /\ Active(w) /\ walk[w].p = c => walk'[w].p = Dangling /\ "here" \in walk'[w].ev
             /\ walk[w].p # c => walk'[w].p = walk[w].p
             /\ walk[w].ev \subseteq walk'[w].ev \/ "here" \in walk'[w].ev
             /\ "here" \in walk[w].ev => "here" \in walk'[w].ev
             /\ Active(w) /\ walk[w].p = NULL => "behind" \in walk'[w].ev \/ "here" \in walk'[w].ev
             /\ Active(w) /\ walk[w].p \in Entries /\ At(c) < At(walk[w].p)
                     => "behind" \in walk'[w].ev \/ "here" \in walk'[w].ev
  <2>1. walk'[w] = IF ~Active(w) THEN walk[w]
                   ELSE IF walk[w].p = c
                        THEN [walk[w] EXCEPT !.p = Dangling, !.ev = Note(@, "here")]
                   ELSE IF Before(c, walk[w].p) THEN [walk[w] EXCEPT !.ev = Note(@, "behind")]
                   ELSE walk[w]
    BY DEF Unlinked
  <2>2. walk[w] \in Walks
    BY DEF TypeOK, Walks
  <2>3. Before(c, walk[w].p) <=> walk[w].p = NULL \/ (walk[w].p \in Entries /\ At(c) < At(walk[w].p))
    BY Names DEF Before, At
  <2> QED BY <2>1, <2>2, <2>3 DEF Walks, Note
<1>f. ASSUME NEW w \in Ends
      PROVE  walk'[w].pc = "end" /\ walk'[w].p = NULL /\ walk'[w].ev = walk[w].ev \ {"end"}
  <2>1. walk'[w] = Walk("end", NULL, walk[w].ev \ {"end"})
    BY DEF Ended
  <2> QED BY <2>1 DEF Walk
<1>g. \A d \in Clients : /\ Gone(d) => Gone(d)'
                         /\ walk[d].pc # "out" => walk'[d].pc # "out"
                         /\ walk'[d].pc = "served" => walk[d].pc = "served"
  BY <1>a, <1>e, <1>f DEF Plain, Gone
<1>h. Sender \in Walkers \ Ends
  BY <1>a DEF Plain
<1>1. ASSUME NEW w \in Walkers \ Ends
      PROVE  WalkOK(w)'
  <2>a. RoleOK(w) /\ PointerOK(w) /\ IndexOK(w) /\ EndOK(w) /\ (w \in Clients => SearchOK(w))
    BY DEF RegistryInv, WalkOK
  <2>b. /\ c # NULL /\ c # Dangling /\ c \in Clients /\ NULL # Dangling
        /\ walk[w].i \in Nat /\ Dangling \notin Clients /\ NULL \notin Clients
        /\ walk[w].p \in Clients \/ walk[w].p = NULL \/ walk[w].p = Dangling
    BY <1>a, <1>b DEF Plain
  <2>1. RoleOK(w)'
    BY <1>b, <1>c, <1>e, <1>g, <2>a, <2>b DEF RoleOK, Active
  <2>2. PointerOK(w)'
    BY <1>b, <1>c, <1>e, <1>g, <2>a, <2>b DEF PointerOK, RoleOK, Active
  <2>3. IndexOK(w)'
    BY <1>b, <1>c, <1>e, <1>g, <2>a, <2>b DEF IndexOK, PointerOK, Active, At
  <2>4. EndOK(w)'
    BY <1>b, <1>c, <1>e, <1>g, <2>a, <2>b
       DEF EndOK, IndexOK, PointerOK, SearchOK, Active, Clean, At
  <2>5. w \in Clients => SearchOK(w)'
    BY <1>b, <1>c, <1>e, <1>g, <2>a, <2>b
       DEF SearchOK, IndexOK, PointerOK, Active, Clean, Gone, At
  <2> QED BY <2>1, <2>2, <2>3, <2>4, <2>5 DEF WalkOK
<1>2. ASSUME NEW w \in Ends
      PROVE  WalkOK(w)'
  <2>a. SearchOK(w) /\ w \in Clients /\ w # Sender
    BY <1>a DEF RegistryInv, WalkOK, Plain
  <2> QED BY <1>a, <1>c, <1>f, <2>a
          DEF Plain, WalkOK, RoleOK, PointerOK, IndexOK, EndOK, SearchOK, Active, Clean
<1>3. ListInv'
  BY <1>b, <1>c, <1>d, <1>g, <1>a DEF Plain, RegistryInv, ListInv
<1>4. SentInv' /\ BroadcastReaches'
  <2>1. CASE walk[Sender].p = c
    <3>a. PointerOK(Sender)
      BY <1>h DEF RegistryInv, WalkOK
    <3>b. Active(Sender) /\ Active(Sender)' /\ "here" \in walk'[Sender].ev
      BY <1>a, <1>b, <1>e, <1>h, <2>1, <3>a DEF Plain, PointerOK, Active
    <3>1. SentInv' /\ BroadcastReaches'
      BY <3>b DEF SentInv, BroadcastReaches, Active
    <3> QED BY <3>1
  <2>2. CASE walk[Sender].p # c
    <3>a. /\ walk'[Sender].pc = walk[Sender].pc /\ walk'[Sender].p = walk[Sender].p
          /\ "here" \notin walk'[Sender].ev => "here" \notin walk[Sender].ev
          /\ "behind" \notin walk'[Sender].ev /\ "here" \notin walk'[Sender].ev
                => "behind" \notin walk[Sender].ev
          /\ present' = present \ {c} /\ sent' = sent
          /\ PointerOK(Sender) /\ Sender \in Walkers
      BY <1>d, <1>e, <1>h, <2>2 DEF RegistryInv, WalkOK
    <3>1. SentInv'
      <4> SUFFICES ASSUME "here" \notin walk'[Sender].ev, "here" \notin walk[Sender].ev
                   PROVE  SentInv'
        BY <3>a, <1>a DEF RegistryInv, SentInv, RoleOK, WalkOK, Plain
      <4>1. ASSUME NEW d \in Entries', Active(Sender)
            PROVE  Passed(d)' <=> Passed(d)
        <5>1. walk[Sender].p = NULL \/ walk[Sender].p \in Entries'
          BY <1>a, <1>c, <2>2, <3>a DEF Plain, PointerOK
        <5> QED BY <1>b, <1>c, <3>a, <4>1, <5>1 DEF Passed, At
      <4> QED BY <1>a, <1>b, <1>c, <1>g, <3>a, <4>1 DEF Plain, RegistryInv, SentInv, Active
    <3>2. BroadcastReaches'
      BY <1>a, <1>g, <3>a DEF Plain, RegistryInv, BroadcastReaches
    <3> QED BY <3>1, <3>2
  <2> QED BY <2>1, <2>2
<1>5. ServedStaysRegistered'
  <2> SUFFICES ASSUME wpc' = "stdin", \A d \in Clients : "here" \notin walk'[d].ev,
                      NEW e \in Clients, walk'[e].pc = "served"
               PROVE  e \in Entries'
    BY DEF ServedStaysRegistered
  <2>1. \A d \in Clients : "here" \notin walk[d].ev
    BY <1>a, <1>e, <1>f DEF Plain
  <2>2. e \in Entries
    BY <1>g, <2>1 DEF RegistryInv, ServedStaysRegistered
  <2>3. PICK w \in Ends : TRUE
    OBVIOUS
  <2>4. Gone(c)
    BY <1>a, <2>1, <2>3 DEF Plain, RegistryInv, WalkOK, SearchOK
  <2> QED BY <1>c, <1>g, <2>2, <2>4 DEF Gone
<1> QED BY <1>1, <1>2, <1>3, <1>4, <1>5 DEF RegistryInv

LEMMA InvStep == TypeOK /\ RegistryInv /\ [Next]_vars => RegistryInv'
<1> SUFFICES ASSUME TypeOK, RegistryInv, [Next]_vars
             PROVE  RegistryInv'
  OBVIOUS
<1>a. Plain
  BY PlainTypes
<1>b. /\ Len(clients_sockets) \in Nat
      /\ Len(clients_sockets) = 0 <=> Entries = {}
      /\ Entries \subseteq Clients
      /\ \A c \in Entries : At(c) \in 1..Len(clients_sockets)
      /\ \A c, d \in Entries : At(c) = At(d) => c = d
      /\ IF Entries = {} THEN llist_first = NULL
                         ELSE llist_first \in Entries /\ At(llist_first) = 1
      /\ \A c \in Entries :
            IF At(c) = Len(clients_sockets)
            THEN llist_next(c) = NULL
            ELSE llist_next(c) \in Entries /\ At(llist_next(c)) = At(c) + 1
  BY ListFacts DEF RegistryInv, ListInv
<1>c. walk \in [Walkers -> Walks]
  BY DEF TypeOK, Walks
<1>d. UNCHANGED clients_sockets => Entries' = Entries
  BY DEF Entries
<1>e. \A w \in Walkers : /\ RoleOK(w) /\ PointerOK(w) /\ IndexOK(w) /\ EndOK(w)
                         /\ w \in Clients => SearchOK(w)
  BY DEF RegistryInv, WalkOK
<1>1. ASSUME NEW w \in Walkers, WalkStart(w)
      PROVE  RegistryInv'
  <2>a. /\ \A v \in Walkers \ {w} : walk'[v] = walk[v]
        /\ walk'[w].pc = "test" /\ walk'[w].p = llist_first /\ walk'[w].i = 0
        /\ walk'[w].ev = {} /\ walk[w].pc \in {"idle", "leaving"}
        /\ present' = IF w = Sender THEN Entries ELSE present
        /\ UNCHANGED <<clients_sockets, freed, sent, wpc>> /\ Entries' = Entries
    BY <1>c, <1>d, <1>1 DEF WalkStart, Walk
  <2>b. walk[w].ev = {}
    BY <1>e, <2>a DEF RoleOK
  <2>1. WalkOK(w)'
    BY <1>a, <1>b, <1>e, <2>a
       DEF Plain, WalkOK, RoleOK, PointerOK, IndexOK, EndOK, SearchOK, Active, Clean, At
  <2>2. w = Sender => SentInv' /\ BroadcastReaches'
    <3> SUFFICES ASSUME w = Sender
                 PROVE  SentInv' /\ BroadcastReaches'
      OBVIOUS
    <3>1. walk[Sender].pc = "idle"
      BY <1>e, <2>a DEF RoleOK
    <3>2. \A c \in Clients : sent[c] = 0
      BY <3>1 DEF RegistryInv, SentInv
    <3>3. \A c \in Entries : ~Passed(c)'
      BY <1>a, <1>b, <2>a DEF Plain, Passed, At
    <3> QED BY <1>a, <1>b, <2>a, <3>2, <3>3 DEF Plain, SentInv, BroadcastReaches
  <2> QED BY <2>a, <2>b, <2>1, <2>2, OneWalk
<1>2. ASSUME NEW w \in Walkers, WalkTest(w)
      PROVE  RegistryInv'
  <2>a. /\ UNCHANGED <<clients_sockets, freed, sent, present, wpc>> /\ Entries' = Entries
        /\ \A v \in Walkers \ {w} : walk'[v] = walk[v]
        /\ walk[w].pc = "test"
    BY <1>c, <1>d, <1>2 DEF WalkTest
  <2>b. ASSUME walk[w].i < list_length, walk' = [walk EXCEPT ![w].pc = "inspect"]
        PROVE  RegistryInv'
    <3>a. /\ walk'[w].pc = "inspect" /\ walk'[w].p = walk[w].p /\ walk'[w].i = walk[w].i
          /\ walk'[w].ev = walk[w].ev
      BY <1>c, <2>b DEF Walks
    <3>b. walk[w].p = NULL /\ "here" \notin walk[w].ev => "end" \in walk[w].ev
      BY <1>a, <1>b, <1>e, <2>a, <2>b DEF Plain, IndexOK, Active, list_length
    <3>1. WalkOK(w)'
      BY <1>e, <2>a, <3>a, <3>b
         DEF WalkOK, RoleOK, PointerOK, IndexOK, EndOK, SearchOK, Active, Clean, At
    <3>2. w = Sender => SentInv' /\ BroadcastReaches'
      <4>1. w = Sender => \A c \in Entries : Passed(c)' <=> Passed(c)
        BY <2>a, <3>a DEF Passed, At
      <4> QED BY <1>a, <1>b, <2>a, <3>a, <4>1
              DEF Plain, RegistryInv, SentInv, BroadcastReaches, Active
    <3> QED BY <2>a, <3>a, <3>1, <3>2, OneWalk
  <2>c. ASSUME walk[w].i >= list_length, walk' = [walk EXCEPT ![w] = Ended(w)]
        PROVE  RegistryInv'
    <3>a. /\ walk'[w].pc = "end" /\ walk'[w].p = NULL /\ walk'[w].ev = walk[w].ev \ {"end"}
      BY <1>c, <2>c DEF Ended, Walk
    <3>b. walk[w].ev \cap {"here", "behind"} = {} => walk[w].p = NULL
      <4> SUFFICES ASSUME walk[w].ev \cap {"here", "behind"} = {}, walk[w].p # NULL
                   PROVE  FALSE
        OBVIOUS
      <4>1. walk[w].p \in Clients /\ walk[w].p \in Entries
        BY <1>a, <1>e DEF Plain, PointerOK
      <4>2. walk[w].i = At(walk[w].p) - 1
        BY <1>e, <2>a, <4>1 DEF IndexOK, Active
      <4> QED BY <1>b, <2>c, <4>1, <4>2 DEF list_length
    <3>c. w \in Clients /\ Clean(w) => w \notin Entries
      BY <1>e, <2>a, <3>b DEF SearchOK, Active, Clean
    <3>1. WalkOK(w)'
      BY <1>a, <1>e, <2>a, <3>a, <3>c
         DEF Plain, WalkOK, RoleOK, PointerOK, IndexOK, EndOK, SearchOK, Active, Clean
    <3>2. w = Sender => SentInv' /\ BroadcastReaches'
      <4> SUFFICES ASSUME w = Sender
                   PROVE  SentInv' /\ BroadcastReaches'
        OBVIOUS
      <4>1. SentInv'
        BY <1>a, <2>a, <3>a DEF Plain, RegistryInv, SentInv, Active
      <4>2. BroadcastReaches'
        <5> SUFFICES ASSUME walk[w].ev \cap {"here", "behind"} = {},
                            NEW c \in present, walk[c].pc = "served", walk'[c].pc = "served"
                     PROVE  sent[c] > 0
          BY <1>a, <2>a, <3>a DEF Plain, BroadcastReaches
        <5>1. c \in Entries /\ Passed(c)
          BY <2>a, <3>b DEF RegistryInv, SentInv, Passed
        <5> QED BY <2>a, <5>1 DEF RegistryInv, SentInv, Active
      <4> QED BY <4>1, <4>2
    <3> QED BY <2>a, <3>a, <3>1, <3>2, OneWalk
  <2> QED BY <1>2, <2>b, <2>c DEF WalkTest
<1>3. ASSUME NEW w \in Walkers, WalkInspect(w)
      PROVE  RegistryInv'
  <2>a. /\ UNCHANGED <<clients_sockets, freed, present, wpc>> /\ Entries' = Entries
        /\ \A v \in Walkers \ {w} : walk'[v] = walk[v]
        /\ walk[w].pc = "inspect" /\ Active(w)
    BY <1>c, <1>d, <1>3 DEF WalkInspect, Crash, Active
  <2>b. ASSUME Crash(w), UNCHANGED sent,
               walk[w].p \in {NULL, Dangling} \/ list_length = 0
        PROVE  RegistryInv'
    <3>1. walk[w].p = NULL \/ walk[w].p = Dangling
      BY <1>a, <1>b, <1>e, <2>b DEF Plain, PointerOK, list_length
    <3>2. walk[w].ev \cap {"here", "end"} # {}
      BY <1>a, <1>e, <2>a, <3>1 DEF Plain, PointerOK, IndexOK
    <3> QED BY <2>a, <2>b, <3>2, CrashStep
  <2>c. ASSUME walk[w].p # NULL, NEW number \in Reads(walk[w].p),
               walk' = [walk EXCEPT
                          ![w].pc = IF number = w THEN "remove" ELSE "next",
                          ![w].ev = IF w # Sender /\ walk[w].p \in freed THEN Note(@, "stale")
                                                                        ELSE @],
               sent' = IF w = Sender /\ "here" \notin walk[w].ev /\ walk[w].p \notin freed
                               /\ sent[walk[w].p] < 2
                       THEN [sent EXCEPT ![walk[w].p] = @ + 1] ELSE sent
        PROVE  RegistryInv'
    <3>a. /\ walk'[w].p = walk[w].p /\ walk'[w].i = walk[w].i
          /\ walk'[w].pc = IF number = w THEN "remove" ELSE "next"
          /\ walk'[w].ev = IF w # Sender /\ walk[w].p \in freed /\ "here" \notin walk[w].ev
                           THEN walk[w].ev \cup {"stale"} ELSE walk[w].ev
      BY <1>c, <2>c DEF Walks, Note
    <3>b. /\ number # Sender
          /\ walk[w].p \in Clients /\ walk[w].p \notin freed => number = walk[w].p
      BY RegistryAssumption, <2>c DEF Reads
    <3>c. "here" \notin walk[w].ev => walk[w].p \in Clients /\ walk[w].p \in Entries
      BY <1>a, <1>e, <2>c DEF Plain, PointerOK
    <3>1. WalkOK(w)'
      <4>1. RoleOK(w)' /\ PointerOK(w)' /\ EndOK(w)'
        <5>1. walk'[w].pc \in {"remove", "next"} /\ (w = Sender => walk'[w].pc = "next")
          BY <3>a, <3>b
        <5>2. "here" \in walk[w].ev => "here" \in walk'[w].ev
          BY <3>a
        <5>3. PointerOK(w)'
          BY <1>e, <2>a, <2>c, <3>a, <5>1, <5>2 DEF PointerOK, Active
        <5> QED BY <5>1, <5>3 DEF RoleOK, EndOK
      <4>2. IndexOK(w)'
        BY <1>e, <2>a, <2>c, <3>a DEF IndexOK, Active, At
      <4>3. ASSUME w \in Clients
            PROVE  SearchOK(w)'
        <5>1. w # Sender
          BY <1>a, <4>3 DEF Plain
        <5>2. Clean(w)' => Clean(w) /\ walk[w].p \notin freed
          BY <3>a, <5>1 DEF Clean
        <5>3. Clean(w)' => number = walk[w].p
          BY <3>b, <3>c, <5>2 DEF Clean
        <5>4. "here" \notin walk'[w].ev /\ walk'[w].pc = "remove" => Gone(walk[w].p)'
          <6> SUFFICES ASSUME "here" \notin walk'[w].ev, walk'[w].pc = "remove"
                       PROVE  Gone(walk[w].p)'
            OBVIOUS
          <6>1. walk[w].p \in Clients /\ (walk[w].p \in freed \/ walk[w].p = w)
            BY <3>a, <3>b, <3>c
          <6>2. walk[w].p \in freed => Gone(walk[w].p)
            BY DEF RegistryInv, ListInv
          <6>3. CASE walk[w].p = w
            BY <3>a, <6>3 DEF Gone
          <6>4. CASE walk[w].p # w
            <7>1. walk'[walk[w].p] = walk[walk[w].p] /\ walk'[w].p = walk[w].p
              BY <1>a, <2>a, <3>a, <6>1, <6>4 DEF Plain
            <7> QED BY <6>1, <6>2, <6>4, <7>1 DEF Gone
          <6> QED BY <6>3, <6>4
        <5>5. walk'[w].pc = "next" /\ Clean(w)' => walk[w].p # w
          BY <3>a, <5>3
        <5>6. walk'[w].pc = "remove" /\ Clean(w)' => walk[w].p = w
          BY <3>a, <5>3
        <5>7. Clean(w)' /\ w \in Entries' => walk'[w].p # NULL /\ At(walk[w].p) <= At(w)
          BY <1>e, <2>a, <2>c, <3>a, <4>3, <5>2 DEF SearchOK
        <5> QED BY <2>a, <3>a, <5>4, <5>5, <5>6, <5>7 DEF SearchOK, At, Gone
      <4> QED BY <4>1, <4>2, <4>3 DEF WalkOK
    <3>2. w = Sender => SentInv' /\ BroadcastReaches'
      <4> SUFFICES ASSUME w = Sender
                   PROVE  SentInv' /\ BroadcastReaches'
        OBVIOUS
      <4>0. walk'[w].pc = "next" /\ walk'[w].ev = walk[w].ev
        BY <3>a, <3>b
      <4>1. BroadcastReaches'
        BY <4>0 DEF BroadcastReaches
      <4>2. CASE "here" \in walk[w].ev
        BY <4>0, <4>1, <4>2 DEF SentInv
      <4>3. CASE "here" \notin walk[w].ev
        <5> DEFINE p == walk[Sender].p
        <5>1. p \in Entries /\ p \in Clients /\ ~Passed(p)
          BY <1>a, <1>b, <2>a, <2>c, <3>c, <4>3 DEF Plain, Passed
        <5>2. sent[p] = 0
          BY <1>a, <2>a, <4>3, <5>1 DEF Plain, RegistryInv, SentInv
        <5>3. \A c \in Entries : Passed(c)' <=> Passed(c) \/ c = p
          BY <1>b, <2>a, <2>c, <3>a, <4>0, <5>1 DEF Passed, At
        <5>4. p \in freed => UNCHANGED sent /\ walk[p].pc # "served"
          BY <2>c, <5>1 DEF RegistryInv, ListInv, Gone
        <5>5. p \notin freed => /\ sent'[p] = 1 /\ walk[p].pc # "out"
                                /\ \A c \in Clients : c # p => sent'[c] = sent[c]
          <6>1. walk[p].pc # "out"
            BY <5>1 DEF RegistryInv, ListInv
          <6>2. sent \in [Clients -> 0..2]
            BY DEF TypeOK
          <6> QED BY <2>c, <4>3, <5>1, <5>2, <6>1, <6>2
        <5>6. \A c \in Clients : walk'[c].pc = walk[c].pc
          BY <1>a, <2>a DEF Plain
        <5>7. \A c \in Clients : sent[c] > 0 => sent[c] < 2 /\ walk[c].pc # "out"
          BY <4>3 DEF RegistryInv, SentInv
        <5>8. \A c \in Entries : /\ sent[c] > 0 => Passed(c)
                                 /\ c \in present /\ walk[c].pc = "served" /\ Passed(c)
                                        => sent[c] > 0
          BY <2>a, <4>3 DEF RegistryInv, SentInv
        <5>9. present' \subseteq Entries'
          BY <2>a, <4>3 DEF RegistryInv, SentInv
        <5> HIDE DEF p
        <5>10. \A c \in Clients : sent'[c] > 0 => sent'[c] < 2 /\ walk'[c].pc # "out"
          BY <5>1, <5>4, <5>5, <5>6, <5>7
        <5>11. \A c \in Entries' :
                   /\ sent'[c] > 0 => Passed(c)'
                   /\ c \in present' /\ walk'[c].pc = "served" /\ Passed(c)' => sent'[c] > 0
          BY <1>b, <2>a, <5>1, <5>3, <5>4, <5>5, <5>6, <5>8
        <5> QED BY <4>0, <4>1, <5>9, <5>10, <5>11 DEF SentInv
      <4> QED BY <4>2, <4>3
    <3>3. walk'[w].pc \notin {"out", "served"} /\ ("here" \in walk[w].ev => "here" \in walk'[w].ev)
      BY <3>a
    <3> QED BY <2>a, <2>c, <3>1, <3>2, <3>3, OneWalk
  <2> QED BY <1>3, <2>b, <2>c DEF WalkInspect
<1>4. ASSUME NEW w \in Walkers, WalkNext(w)
      PROVE  RegistryInv'
  <2>a. /\ UNCHANGED <<clients_sockets, freed, sent, present, wpc>> /\ Entries' = Entries
        /\ \A v \in Walkers \ {w} : walk'[v] = walk[v]
        /\ walk[w].pc = "next" /\ Active(w)
    BY <1>c, <1>d, <1>4 DEF WalkNext, Crash, Active
  <2>b. ASSUME Crash(w), walk[w].p = Dangling
        PROVE  RegistryInv'
    <3>1. walk[w].ev \cap {"here", "end"} # {}
      BY <1>e, <2>b DEF PointerOK
    <3> QED BY <2>a, <2>b, <3>1, CrashStep
  <2>c. ASSUME NEW q \in IF walk[w].p \in Clients THEN {llist_next(walk[w].p)}
                            ELSE Entries \cup {NULL, Dangling},
               walk' = [walk EXCEPT ![w].pc = "test", ![w].p = q, ![w].i = @ + 1]
        PROVE  RegistryInv'
    <3>a. /\ walk'[w].pc = "test" /\ walk'[w].p = q /\ walk'[w].i = walk[w].i + 1
          /\ walk'[w].ev = walk[w].ev
      BY <1>c, <2>c DEF Walks
    <3>b. walk[w].p \in Clients => walk[w].p \in Entries /\ q = llist_next(walk[w].p)
      BY <1>e, <2>c DEF PointerOK
    <3>c. "here" \notin walk[w].ev => walk[w].p \in Clients /\ walk[w].p \in Entries
      BY <1>a, <1>e, <2>a DEF Plain, PointerOK
    <3>d. walk[w].p \in Clients =>
              IF At(walk[w].p) = Len(clients_sockets)
              THEN q = NULL ELSE q \in Entries /\ At(q) = At(walk[w].p) + 1
      BY <1>b, <3>b
    <3>e. q \in Entries \/ q = NULL \/ (q = Dangling /\ "here" \in walk[w].ev)
      BY <2>c, <3>c, <3>d
    <3>1. WalkOK(w)'
      <4>1. RoleOK(w)' /\ PointerOK(w)' /\ EndOK(w)'
        <5>1. PointerOK(w)'
          <6>1. /\ q \in Clients => q \in Entries'
                /\ q = Dangling => "here" \in walk[w].ev
            BY <1>a, <1>b, <2>a, <3>e DEF Plain
          <6>2. Active(w)'
            BY <3>a DEF Active
          <6> HIDE <2>c
          <6> QED BY <3>a, <6>1, <6>2 DEF PointerOK
        <5> QED BY <3>a, <5>1 DEF RoleOK, EndOK
      <4>2. IndexOK(w)'
        <5> SUFFICES ASSUME "here" \notin walk[w].ev
                     PROVE  IndexOK(w)'
          BY <3>a DEF IndexOK
        <5>1. /\ walk[w].i >= At(walk[w].p) - 1 /\ walk[w].i \in Nat
              /\ "behind" \notin walk[w].ev => walk[w].i = At(walk[w].p) - 1
              /\ At(walk[w].p) \in 1..Len(clients_sockets) /\ NULL \notin Clients
          BY <1>a, <1>b, <1>e, <2>a, <3>c DEF Plain, IndexOK
        <5> QED BY <1>b, <2>a, <3>a, <3>c, <3>d, <5>1 DEF IndexOK, At
      <4>3. ASSUME w \in Clients
            PROVE  SearchOK(w)'
        <5> SUFFICES ASSUME Clean(w), w \in Entries
                     PROVE  q # NULL /\ At(q) <= At(w)
          BY <2>a, <3>a DEF SearchOK, Clean, At
        <5>1. walk[w].p \in Entries /\ At(walk[w].p) <= At(w) /\ walk[w].p # w /\ walk[w].p \in Clients
          BY <1>e, <2>a, <3>c, <4>3 DEF SearchOK, Clean
        <5>2. At(walk[w].p) \in 1..Len(clients_sockets) /\ At(w) \in 1..Len(clients_sockets)
              /\ At(walk[w].p) # At(w)
          BY <1>b, <5>1
        <5>3. At(walk[w].p) # Len(clients_sockets)
          BY <1>b, <5>1, <5>2
        <5>4. q \in Entries /\ At(q) = At(walk[w].p) + 1
          BY <3>d, <5>1, <5>3
        <5> QED BY <1>a, <1>b, <5>1, <5>2, <5>4 DEF Plain
      <4> QED BY <4>1, <4>2, <4>3 DEF WalkOK
    <3>2. w = Sender => SentInv' /\ BroadcastReaches'
      <4> SUFFICES ASSUME w = Sender
                   PROVE  SentInv' /\ BroadcastReaches'
        OBVIOUS
      <4>1. BroadcastReaches'
        BY <3>a DEF BroadcastReaches
      <4>2. "here" \notin walk[w].ev => \A c \in Entries : Passed(c)' <=> Passed(c)
        <5> SUFFICES ASSUME "here" \notin walk[w].ev, NEW c \in Entries
                     PROVE  Passed(c)' <=> Passed(c)
          OBVIOUS
        <5>1. /\ walk[w].p \in Entries /\ walk[w].p # NULL
              /\ At(walk[w].p) \in 1..Len(clients_sockets) /\ At(c) \in 1..Len(clients_sockets)
              /\ At(c) = At(walk[w].p) <=> c = walk[w].p
          BY <1>a, <1>b, <3>c DEF Plain
        <5>2. Passed(c) <=> At(c) <= At(walk[w].p)
          BY <1>b, <2>a, <5>1 DEF Passed
        <5>3. CASE At(walk[w].p) = Len(clients_sockets)
          BY <1>b, <2>a, <3>a, <3>c, <3>d, <5>1, <5>2, <5>3 DEF Passed
        <5>4. CASE At(walk[w].p) # Len(clients_sockets)
          <6>1. q \in Entries /\ At(q) = At(walk[w].p) + 1 /\ q # NULL
            BY <1>a, <1>b, <3>c, <3>d, <5>4 DEF Plain
          <6>2. Passed(c)' <=> At(c) < At(q)
            BY <2>a, <3>a, <6>1 DEF Passed, At
          <6> QED BY <1>b, <5>1, <5>2, <6>1, <6>2
        <5> QED BY <5>3, <5>4
      <4>3. \A c \in Clients : walk'[c].pc = walk[c].pc
        BY <1>a, <2>a DEF Plain
      <4>4. SentInv'
        BY <1>b, <2>a, <3>a, <4>2, <4>3 DEF RegistryInv, SentInv, Active
      <4> QED BY <4>1, <4>4
    <3> QED BY <2>a, <3>a, <3>1, <3>2, OneWalk
  <2> QED BY <1>4, <2>b, <2>c DEF WalkNext
<1>5. ASSUME NEW c \in Clients, Leave(c)
      PROVE  RegistryInv'
  <2>a. /\ \A v \in Walkers \ {c} : walk'[v] = walk[v]
        /\ c \in Walkers /\ c # Sender
        /\ walk[c].pc = "served" /\ walk'[c].pc = "leaving" /\ walk'[c].p = NULL /\ walk'[c].ev = {}
        /\ UNCHANGED <<clients_sockets, freed, sent, present, wpc>> /\ Entries' = Entries
    BY <1>a, <1>c, <1>d, <1>5 DEF Plain, Leave, Walk
  <2>b. walk[c].ev = {}
    BY <1>e, <2>a DEF RoleOK
  <2>1. WalkOK(c)'
    BY <1>a, <2>a DEF Plain, WalkOK, RoleOK, PointerOK, IndexOK, EndOK, SearchOK, Active
  <2> QED BY <2>a, <2>b, <2>1, OneWalk
<1>6. ASSUME NEW c \in Clients, FreeThreadInfo(c)
      PROVE  RegistryInv'
  <2>a. /\ UNCHANGED <<clients_sockets, walk, sent, present, wpc>> /\ Entries' = Entries
        /\ freed' = freed \cup {c} /\ walk[c].pc \notin {"out", "served"}
    BY <1>d, <1>6 DEF FreeThreadInfo
  <2>1. \A w \in Walkers : WalkOK(w)'
    BY <1>a, <1>e, <2>a
       DEF Plain, WalkOK, RoleOK, PointerOK, IndexOK, EndOK, SearchOK, Active, Clean, Gone, At
  <2>2. ListInv'
    BY <1>b, <2>a DEF RegistryInv, ListInv, Gone
  <2>3. SentInv'
    BY <2>a DEF RegistryInv, SentInv, Active, Passed, At
  <2>4. BroadcastReaches' /\ ServedStaysRegistered'
    BY <2>a DEF RegistryInv, BroadcastReaches, ServedStaysRegistered
  <2> QED BY <2>1, <2>2, <2>3, <2>4 DEF RegistryInv
<1>7. ASSUME NEW c \in Clients, RemoveOwn(c)
      PROVE  RegistryInv'
  <2>a. /\ c \in Walkers /\ c # Sender /\ walk[c].pc = "remove" /\ Active(c) /\ UNCHANGED wpc
    BY <1>a, <1>7 DEF Plain, RemoveOwn, Active
  <2>b. ASSUME list_length = 0, walk' = [walk EXCEPT ![c] = Ended(c)],
               UNCHANGED <<clients_sockets, freed, sent, present>>
        PROVE  RegistryInv'
    <3>a. /\ \A v \in Walkers \ {c} : walk'[v] = walk[v]
          /\ walk'[c].pc = "end" /\ walk'[c].p = NULL /\ walk'[c].ev = walk[c].ev \ {"end"}
          /\ Entries' = {}
      BY <1>b, <1>c, <1>d, <2>a, <2>b DEF Ended, Walk, list_length
    <3>1. WalkOK(c)'
      BY <1>a, <2>a, <3>a DEF Plain, WalkOK, RoleOK, PointerOK, IndexOK, EndOK, SearchOK, Active
    <3> QED BY <2>a, <2>b, <3>a, <3>1, OneWalk
  <2>c. ASSUME Crash(c), walk[c].p = Dangling,
               UNCHANGED <<clients_sockets, freed, sent, present>>
        PROVE  RegistryInv'
    <3>1. walk[c].ev \cap {"here", "end"} # {}
      BY <1>e, <2>a, <2>c DEF PointerOK
    <3> QED BY <2>a, <2>c, <3>1, CrashStep
  <2>d. ASSUME walk[c].p \in Entries, Unlink(walk[c].p),
               walk' = [Unlinked(walk, walk[c].p) EXCEPT ![c] = Ended(c)]
        PROVE  RegistryInv'
    <3>1. Unlinked(walk, walk[c].p) \in [Walkers -> Walks]
      BY <1>c, <2>d, WalkTypes
    <3>2. /\ \A w \in Walkers \ {c} : walk'[w] = Unlinked(walk, walk[c].p)[w]
          /\ \A w \in {c} : /\ walk'[w] = Ended(w)
                            /\ walk[w].pc = "remove" /\ walk[w].p = walk[c].p
      BY <2>a, <2>d, <3>1
    <3>3. {c} \in SUBSET Clients /\ {c} # {} /\ (wpc' = "stdin" => wpc = "stdin")
      BY <2>a
    <3> QED BY <2>d, <3>2, <3>3, UnlinkStep
  <2> QED BY <1>7, <2>b, <2>c, <2>d DEF RemoveOwn
<1>8. ASSUME NEW c \in Clients, Enter(c)
      PROVE  RegistryInv'
  <2>a. /\ c \in Clients \ Entries /\ walk[c].pc = "out" /\ walk[c].p = NULL /\ walk[c].ev = {}
        /\ c \in Walkers /\ c # Sender
    BY <1>a, <1>e, <1>8 DEF Plain, Enter, RegistryInv, ListInv, PointerOK, RoleOK, Active
  <2>b. PICK reused \in SUBSET {w \in Walkers : walk[w].p = Dangling} :
            walk' = Linked([walk EXCEPT ![c].pc = "served"], c, reused)
    BY <1>8 DEF Enter
  <2>c. ASSUME NEW w \in Walkers
        PROVE  /\ walk'[w].pc = (IF w = c THEN "served" ELSE walk[w].pc) /\ walk'[w].i = walk[w].i
               /\ walk'[w].p = IF w \in reused THEN c ELSE walk[w].p
               /\ IF walk[w].p = NULL /\ Active(w) /\ "here" \notin walk[w].ev
                  THEN walk'[w].ev = walk[w].ev \cup {"end"} ELSE walk'[w].ev = walk[w].ev
               /\ w \in reused => walk[w].p = Dangling /\ "here" \in walk[w].ev /\ Active(w)
    <3> DEFINE W == [walk EXCEPT ![c].pc = "served"]
    <3>1. /\ W[w].pc = (IF w = c THEN "served" ELSE walk[w].pc) /\ W[w].i = walk[w].i
          /\ W[w].p = walk[w].p /\ W[w].ev = walk[w].ev /\ W[w] \in Walks
      BY <1>c DEF Walks
    <3>2. walk'[w] = IF w \in reused THEN [W[w] EXCEPT !.p = c]
                     ELSE IF Active(w) /\ W[w].p = NULL THEN [W[w] EXCEPT !.ev = Note(@, "end")]
                     ELSE W[w]
      BY <2>b DEF Linked
    <3> HIDE DEF W
    <3>3. w \in reused => walk[w].p = Dangling /\ "here" \in walk[w].ev /\ Active(w)
      BY <1>a, <1>e, <2>b DEF Plain, PointerOK
    <3>4. NULL # Dangling
      BY RegistryAssumption
    <3> QED BY <3>1, <3>2, <3>3, <3>4 DEF Walks, Note
  <2>d. /\ NoRepeats(clients_sockets') /\ Entries' = Entries \cup {c}
        /\ Len(clients_sockets') = Len(clients_sockets) + 1
        /\ \A d \in Entries : PosOf(clients_sockets', d) = At(d)
    BY <1>8, <2>a, EnterFacts DEF Enter, RegistryInv, ListInv
  <2>e. UNCHANGED <<freed, sent, present, wpc>>
    BY <1>8 DEF Enter
  <2>f. \A d \in Clients : /\ Gone(d) => Gone(d)'
                           /\ d # c => walk'[d].pc = walk[d].pc
    BY <1>a, <2>a, <2>c DEF Plain, Gone
  <2>1. ASSUME NEW w \in Walkers
        PROVE  WalkOK(w)'
    <3>a. /\ RoleOK(w) /\ PointerOK(w) /\ IndexOK(w) /\ EndOK(w)
          /\ w \in Clients => SearchOK(w)
      BY <1>e
    <3>b. /\ walk[w].i \in Nat /\ NULL \notin Clients /\ Dangling \notin Clients /\ NULL # Dangling
          /\ walk[w].p \in Clients \/ walk[w].p = NULL \/ walk[w].p = Dangling
      BY <1>a DEF Plain
    <3>1. RoleOK(w)'
      BY <1>b, <2>a, <2>c, <2>d, <2>f, <3>a, <3>b DEF RoleOK, Active
    <3>2. PointerOK(w)'
      BY <1>b, <2>a, <2>c, <2>d, <2>f, <3>a, <3>b DEF PointerOK, RoleOK, Active
    <3>3. IndexOK(w)'
      BY <1>b, <2>a, <2>c, <2>d, <2>f, <3>a, <3>b DEF IndexOK, PointerOK, Active, At
    <3>4. EndOK(w)'
      BY <1>b, <2>a, <2>c, <2>d, <2>f, <3>a, <3>b
         DEF EndOK, IndexOK, PointerOK, SearchOK, Active, Clean, At
    <3>5. w \in Clients => SearchOK(w)'
      BY <1>b, <2>a, <2>c, <2>d, <2>f, <3>a, <3>b
         DEF SearchOK, IndexOK, PointerOK, Active, Clean, Gone, At
    <3> QED BY <3>1, <3>2, <3>3, <3>4, <3>5 DEF WalkOK
  <2>2. ListInv'
    BY <1>a, <1>b, <2>a, <2>c, <2>d, <2>e, <2>f DEF Plain, RegistryInv, ListInv, Gone
  <2>3. /\ walk'[Sender].pc = walk[Sender].pc /\ Sender \in Walkers
        /\ "here" \notin walk'[Sender].ev =>
              "here" \notin walk[Sender].ev /\ walk'[Sender].p = walk[Sender].p
        /\ walk'[Sender].ev \cap {"here", "behind"} = walk[Sender].ev \cap {"here", "behind"}
    BY <1>a, <2>a, <2>c DEF Plain
  <2>4. SentInv'
    <3>1. walk[Sender].pc = "idle" => "here" \notin walk[Sender].ev
      BY <1>e, <2>3 DEF RoleOK
    <3> SUFFICES ASSUME "here" \notin walk'[Sender].ev, "here" \notin walk[Sender].ev,
                        walk'[Sender].p = walk[Sender].p
                 PROVE  SentInv'
      BY <2>3, <2>e DEF RegistryInv, SentInv
    <3>2. sent[c] = 0 /\ c \notin present
      BY <1>a, <2>a DEF Plain, RegistryInv, SentInv
    <3>3. ASSUME NEW d \in Entries, Active(Sender)
          PROVE  Passed(d)' <=> Passed(d)
      <4>1. walk[Sender].p = NULL \/ walk[Sender].p \in Entries
        BY <1>a, <1>e, <2>3 DEF Plain, PointerOK
      <4> QED BY <2>3, <2>d, <3>3, <4>1 DEF Passed, At
    <3> QED BY <1>a, <1>b, <2>3, <2>d, <2>e, <2>f, <3>2, <3>3 DEF Plain, RegistryInv, SentInv, Active
  <2>5. BroadcastReaches'
    <3> SUFFICES ASSUME walk[Sender].pc = "end", walk[Sender].ev \cap {"here", "behind"} = {},
                        NEW d \in present, walk'[d].pc = "served"
                 PROVE  sent[d] > 0
      BY <2>3, <2>e DEF BroadcastReaches
    <3>1. d \in Entries
      BY DEF RegistryInv, SentInv
    <3> QED BY <1>b, <2>a, <2>f, <3>1 DEF RegistryInv, BroadcastReaches
  <2>6. ServedStaysRegistered'
    <3>1. \A d \in Clients : "here" \in walk[d].ev => "here" \in walk'[d].ev
      BY <1>a, <2>c DEF Plain
    <3> QED BY <2>d, <2>e, <2>f, <3>1 DEF RegistryInv, ServedStaysRegistered
  <2> QED BY <2>1, <2>2, <2>4, <2>5, <2>6 DEF RegistryInv
<1>9. CASE BroadcastEnd
  <2>a. /\ \A v \in Walkers \ {Sender} : walk'[v] = walk[v]
        /\ walk[Sender].pc = "end"
        /\ walk'[Sender].pc = "idle" /\ walk'[Sender].p = NULL /\ walk'[Sender].ev = {}
        /\ present' = {} /\ \A c \in Clients : sent'[c] = 0
        /\ UNCHANGED <<clients_sockets, freed, wpc>> /\ Entries' = Entries
        /\ Sender \in Walkers /\ Sender \notin Clients
    BY <1>a, <1>c, <1>d, <1>9 DEF Plain, BroadcastEnd, Walk
  <2>1. WalkOK(Sender)'
    BY <1>a, <2>a DEF Plain, WalkOK, RoleOK, PointerOK, IndexOK, EndOK, SearchOK, Active
  <2>2. SentInv' /\ BroadcastReaches'
    BY <2>a DEF SentInv, BroadcastReaches, Active
  <2> QED BY <2>a, <2>1, <2>2, OneWalk
<1>10. CASE CloseServer
  <2>a. /\ UNCHANGED <<clients_sockets, walk, freed, sent, present>> /\ Entries' = Entries
        /\ wpc' = "drain"
    BY <1>d, <1>10 DEF CloseServer
  <2>1. \A w \in Walkers : WalkOK(w)'
    BY <1>a, <1>e, <2>a
       DEF Plain, WalkOK, RoleOK, PointerOK, IndexOK, EndOK, SearchOK, Active, Clean, Gone, At
  <2>2. ListInv'
    BY <1>b, <2>a DEF RegistryInv, ListInv, Gone
  <2>3. SentInv'
    BY <2>a DEF RegistryInv, SentInv, Active, Passed, At
  <2>4. BroadcastReaches' /\ ServedStaysRegistered'
    BY <2>a DEF RegistryInv, BroadcastReaches, ServedStaysRegistered
  <2> QED BY <2>1, <2>2, <2>3, <2>4 DEF RegistryInv
<1>11. CASE Drain
  <2>a. CASE list_length > 0
    <3>1. /\ llist_first \in Entries /\ Unlink(llist_first)
          /\ walk' = Unlinked(walk, llist_first) /\ wpc' = "drain"
      BY <1>b, <1>11, <2>a DEF Drain, list_length
    <3>2. /\ \A w \in Walkers \ {} : walk'[w] = Unlinked(walk, llist_first)[w]
          /\ {} \in SUBSET Clients
      BY <3>1
    <3> QED BY <3>1, <3>2, UnlinkStep
  <2>b. CASE list_length = 0
    <3>a. UNCHANGED <<clients_sockets, walk, freed, sent,
                      present>> /\ Entries' = Entries /\ wpc' = "done"
      BY <1>b, <1>d, <1>11, <2>b DEF Drain
    <3>1. \A w \in Walkers : WalkOK(w)'
      BY <1>a, <1>e, <3>a
         DEF Plain, WalkOK, RoleOK, PointerOK, IndexOK, EndOK, SearchOK, Active, Clean, Gone, At
    <3>2. ListInv'
      BY <1>b, <3>a DEF RegistryInv, ListInv, Gone
    <3>3. SentInv'
      BY <3>a DEF RegistryInv, SentInv, Active, Passed, At
    <3>4. BroadcastReaches' /\ ServedStaysRegistered'
      BY <3>a DEF RegistryInv, BroadcastReaches, ServedStaysRegistered
    <3> QED BY <3>1, <3>2, <3>3, <3>4 DEF RegistryInv
  <2> QED BY <1>b, <2>a, <2>b DEF list_length
<1>12. CASE UNCHANGED vars
  <2>a. UNCHANGED <<clients_sockets, walk, freed, sent, present, wpc>> /\ Entries' = Entries
    BY <1>d, <1>12 DEF vars
  <2>1. \A w \in Walkers : WalkOK(w)'
    BY <1>a, <1>e, <2>a
       DEF Plain, WalkOK, RoleOK, PointerOK, IndexOK, EndOK, SearchOK, Active, Clean, Gone, At
  <2>2. ListInv'
    BY <1>b, <2>a DEF RegistryInv, ListInv, Gone
  <2>3. SentInv'
    BY <2>a DEF RegistryInv, SentInv, Active, Passed, At
  <2>4. BroadcastReaches' /\ ServedStaysRegistered'
    BY <2>a DEF RegistryInv, BroadcastReaches, ServedStaysRegistered
  <2> QED BY <2>1, <2>2, <2>3, <2>4 DEF RegistryInv
<1> QED
  BY <1>1, <1>2, <1>3, <1>4, <1>5, <1>6, <1>7, <1>8, <1>9, <1>10, <1>11, <1>12
     DEF Next, WalkStep

-----------------------------------------------------------------------------
(* The theorems. *)

LEMMA InvInit == Init => TypeOK /\ RegistryInv
<1> SUFFICES ASSUME Init
             PROVE  TypeOK /\ RegistryInv
  OBVIOUS
<1>a. Entries = {} /\ NoRepeats(clients_sockets) /\ clients_sockets \in Seq(Clients)
  BY SetOfEmpty, Names DEF Init
<1>b. \A w \in Walkers : walk[w] = Walk(IF w = Sender THEN "idle" ELSE "out", NULL, {})
  BY DEF Init
<1>c. ASSUME NEW w \in Walkers
      PROVE  /\ walk[w].pc = IF w = Sender THEN "idle" ELSE "out"
             /\ walk[w].p = NULL /\ walk[w].i = 0 /\ walk[w].ev = {}
             /\ walk[w] \in Walks
  <2>1. walk[w] = [pc |-> IF w = Sender THEN "idle" ELSE "out", p |-> NULL, i |-> 0, ev |-> {}]
    BY <1>b DEF Walk
  <2> QED BY <2>1 DEF Walks, Pointers
<1>1. TypeOK
  <2>1. walk \in [Walkers -> Walks]
    BY <1>c DEF Init
  <2>2. /\ freed \subseteq Clients /\ present \subseteq Clients /\ sent \in [Clients -> 0..2]
        /\ wpc = "stdin" /\ crashed = FALSE
    BY DEF Init
  <2> QED BY <1>a, <2>1, <2>2 DEF TypeOK, Walks
<1>2. Plain
  BY <1>1, PlainTypes
<1>3. \A w \in Walkers : WalkOK(w)
  BY <1>2, <1>c DEF Plain, WalkOK, RoleOK, PointerOK, IndexOK, EndOK, SearchOK, Active
<1>4. ListInv /\ SentInv /\ BroadcastReaches /\ ServedStaysRegistered
  BY <1>2, <1>a, <1>c
     DEF Init, Plain, ListInv, SentInv, Active, BroadcastReaches, ServedStaysRegistered
<1> QED BY <1>1, <1>3, <1>4 DEF RegistryInv

LEMMA Invariance == Spec => [](TypeOK /\ RegistryInv)
<1>1. RegistryInv => ListInv /\ \A w \in Walkers : PointerOK(w)
  BY DEF RegistryInv, WalkOK
<1>2. TypeOK /\ RegistryInv /\ [Next]_vars => (TypeOK /\ RegistryInv)'
  BY <1>1, TypeStep, InvStep
<1> QED BY InvInit, <1>2, PTL DEF Spec

\* kernel_communication's walk sends the answer to every client that is on
\* clients_sockets and served throughout, unless an entry it has passed or
\* stands on is removed under it.
THEOREM BroadcastsReach == Spec => []BroadcastReaches
<1>1. RegistryInv => BroadcastReaches
  BY DEF RegistryInv
<1> QED BY Invariance, <1>1, PTL

\* It sends it to none of them twice, unless the node it stood on was freed.
THEOREM BroadcastsOnce == Spec => []BroadcastOnce
<1>1. TypeOK /\ RegistryInv => BroadcastOnce
  BY DEF TypeOK, RegistryInv, SentInv, BroadcastOnce
<1> QED BY Invariance, <1>1, PTL

\* Neither this walk nor close_connected_client's follows a bad pointer, unless
\* the entry it stands on is removed or one is added once it is past the last.
THEOREM WalksAreSafe == Spec => []WalkSafe
<1>1. RegistryInv => WalkSafe
  BY DEF RegistryInv, WalkOK, EndOK, WalkSafe
<1> QED BY Invariance, <1>1, PTL

\* close_connected_client finds and removes the entry of its own client, unless
\* a clientThreadInfo is freed or another departure moves the list meanwhile.
THEOREM LeaversDeregister == Spec => []LeaverDeregistered
<1>1. RegistryInv => LeaverDeregistered
  BY DEF RegistryInv, WalkOK, EndOK, Clean, LeaverDeregistered, Walkers
<1> QED BY Invariance, <1>1, PTL

\* close_connected_client never removes a client that is still served, unless
\* the entry it stands on is freed under it.
THEOREM ServedStayRegistered == Spec => []ServedStaysRegistered
<1>1. RegistryInv => ServedStaysRegistered
  BY DEF RegistryInv
<1> QED BY Invariance, <1>1, PTL
=============================================================================
