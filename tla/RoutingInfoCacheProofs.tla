----------------------- MODULE RoutingInfoCacheProofs -----------------------
(***************************************************************************)
(* RefreshesAreSpaced, PurgedStayGone and OwnInfoServed for any number of  *)
(* clients and exchanges, any interval and any cut of the client list.     *)
(***************************************************************************)
EXTENDS RoutingInfoCache, SequenceTheorems, TLAPS

Pcs == {"idle", "clock", "load", "cas", "copy", "collect", "answer"}

Exchanges ==
    [pc : Pcs, now : Nat, seen : Nat, todo : Seq(Clients), got : [Clients -> Nat],
     listed : SUBSET Clients, gone : SUBSET Clients]

CacheTypeOK ==
    /\ clock \in Nat /\ updated \in Nat
    /\ clients \in Seq(Clients)
    /\ info \in [Clients -> Nat]
    /\ cache \in [Clients -> Nat]
    /\ exchange \in [Clients -> Exchanges]
    /\ removal \in [Clients -> {"outside", "member", "retain", "removed"}]
    /\ purged \subseteq Clients

Distinct(list) == \A i, j \in DOMAIN list : list[i] = list[j] => i = j

\* The client list holds each member once, and nobody who has left.
ListIsCurrent ==
    /\ Distinct(clients)
    /\ \A c \in ToSet(clients) : removal[c] = "member"
    /\ \A c \in Clients : removal[c] = "member" => c \in ToSet(clients)
    /\ \A c \in Clients : removal[c] = "outside" => At(c, "idle")

\* c refreshes the cache, or answers from what it has written.
Holds(c) == At(c, "copy") \/ At(c, "collect") \/ (At(c, "answer") /\ exchange[c].listed # {})

\* The clock a handler has read is not an interval old.
ClockIsRecent ==
    \A c \in Clients :
        ~At(c, "idle") /\ ~At(c, "clock") =>
            exchange[c].now <= clock /\ clock < exchange[c].now + Interval

\* A refresh is claimed by its clock, an interval after the one before.
ClaimsAreSpaced ==
    \A c \in Clients :
        /\ At(c, "cas") => exchange[c].now >= exchange[c].seen + Interval
        /\ Holds(c) => updated = exchange[c].now
        /\ At(c, "idle") \/ At(c, "clock") \/ At(c, "load") \/ At(c, "cas") \/ At(c, "copy") =>
              exchange[c].listed = {}

OneHolds == \A c, d \in Clients : Holds(c) /\ Holds(d) => c = d

\* What the refresh has copied, has read and has yet to read.
CollectedFits ==
    /\ purged \subseteq Gone
    /\ \A c \in Clients : At(c, "collect") =>
          /\ ToSet(exchange[c].todo) \subseteq exchange[c].listed
          /\ exchange[c].gone \subseteq Gone
          /\ exchange[c].listed \cap (purged \cup exchange[c].gone) = {}
          /\ \A d \in Clients : exchange[c].got[d] # 0 => d \in exchange[c].listed
          /\ c \in exchange[c].listed =>
                c \in ToSet(exchange[c].todo) \/ exchange[c].got[c] = info[c]
    /\ \A c \in Clients : ~At(c, "collect") => exchange[c].got = NoInfo

CacheIInv ==
    /\ CacheTypeOK /\ ListIsCurrent /\ ClockIsRecent /\ ClaimsAreSpaced /\ OneHolds
    /\ CollectedFits /\ PurgedStayGone /\ OwnInfoServed

-----------------------------------------------------------------------------
(* Sequences                                                               *)

\* A list without c is the list but for c.
LEMMA WithoutProperties ==
    ASSUME NEW S, NEW s \in Seq(S), NEW c \in ToSet(s), Distinct(s)
    PROVE  /\ Without(s, c) \in Seq(S)
           /\ Distinct(Without(s, c))
           /\ ToSet(Without(s, c)) = ToSet(s) \ {c}
<1> DEFINE i == CHOOSE j \in DOMAIN s : s[j] = c
<1>1. /\ i \in 1 .. Len(s) /\ s[i] = c /\ Len(s) \in Nat /\ DOMAIN s = 1 .. Len(s)
      /\ \A j \in 1 .. Len(s) : s[j] \in S
    BY DEF ToSet
<1> DEFINE w == RemoveAt(s, i)
<1> HIDE DEF i
<1>2. /\ w \in Seq(S) /\ Len(w) = Len(s) - 1 /\ DOMAIN w = 1 .. (Len(s) - 1)
      /\ \A j \in 1 .. (Len(s) - 1) : w[j] = IF j < i THEN s[j] ELSE s[j + 1]
    <2> DEFINE a == SubSeq(s, 1, i - 1)
    <2> DEFINE b == SubSeq(s, i + 1, Len(s))
    <2>1. a \in Seq(S) /\ Len(a) = i - 1 /\ \A j \in 1 .. (i - 1) : a[j] = s[j]
        BY <1>1
    <2>2. b \in Seq(S) /\ Len(b) = Len(s) - i /\ \A j \in 1 .. (Len(s) - i) : b[j] = s[i + j]
        <3> DEFINE m == i + 1
        <3> DEFINE n == Len(s)
        <3>1. m \in Int /\ n \in Int /\ \A j \in m .. n : s[j] \in S
            BY <1>1
        <3> HIDE DEF m, n
        <3>2. /\ SubSeq(s, m, n) \in Seq(S)
              /\ Len(SubSeq(s, m, n)) = IF m <= n THEN n - m + 1 ELSE 0
              /\ \A j \in 1 .. n - m + 1 : SubSeq(s, m, n)[j] = s[m + j - 1]
            BY <3>1, SubSeqProperties
        <3> QED
            BY <1>1, <3>2 DEF m, n
    <2> HIDE DEF a, b
    <2>3. /\ a \o b \in Seq(S) /\ Len(a \o b) = Len(s) - 1
          /\ \A j \in 1 .. (Len(s) - 1) : (a \o b)[j] = IF j <= i - 1 THEN a[j] ELSE b[j - (i - 1)]
        <3>1. Len(a) + Len(b) = Len(s) - 1
            BY <1>1, <2>1, <2>2
        <3> QED
            BY <2>1, <2>2, <3>1, ConcatProperties
    <2>4. \A j \in 1 .. (Len(s) - 1) : j >= i =>
             j - (i - 1) \in 1 .. (Len(s) - i) /\ i + (j - (i - 1)) = j + 1
        BY <1>1
    <2>5. \A j \in 1 .. (Len(s) - 1) : (a \o b)[j] = IF j < i THEN s[j] ELSE s[j + 1]
        BY <1>1, <2>1, <2>2, <2>3, <2>4
    <2>6. w = a \o b
        BY DEF RemoveAt, a, b
    <2> QED
        BY <2>3, <2>5, <2>6
<1> HIDE DEF w
<1>3. Distinct(w)
    <2> SUFFICES ASSUME NEW j \in 1 .. (Len(s) - 1), NEW l \in 1 .. (Len(s) - 1), w[j] = w[l]
                 PROVE  j = l
        BY <1>2 DEF Distinct
    <2> DEFINE m == IF j < i THEN j ELSE j + 1
    <2> DEFINE n == IF l < i THEN l ELSE l + 1
    <2>1. m \in 1 .. Len(s) /\ n \in 1 .. Len(s) /\ s[m] = s[n]
        BY <1>1, <1>2
    <2>2. m = n
        BY <1>1, <2>1 DEF Distinct
    <2> QED
        BY <1>1, <2>2
<1>4. ASSUME NEW j \in 1 .. (Len(s) - 1) PROVE w[j] \in ToSet(s) \ {c}
    <2> DEFINE m == IF j < i THEN j ELSE j + 1
    <2>1. m \in 1 .. Len(s) /\ m # i /\ w[j] = s[m]
        BY <1>1, <1>2
    <2> HIDE DEF m
    <2>2. s[m] # c
        BY <1>1, <2>1 DEF Distinct
    <2> QED
        BY <1>1, <2>1, <2>2 DEF ToSet
<1>5. ASSUME NEW x \in ToSet(s) \ {c} PROVE x \in ToSet(w)
    <2>1. PICK j \in 1 .. Len(s) : s[j] = x /\ j # i
        BY <1>1 DEF ToSet
    <2>2. CASE j < i
        BY <1>1, <1>2, <2>1, <2>2 DEF ToSet
    <2>3. CASE j > i
        <3>1. j - 1 \in 1 .. (Len(s) - 1) /\ w[j - 1] = x
            BY <1>1, <1>2, <2>1, <2>3
        <3> QED
            BY <1>2, <3>1 DEF ToSet
    <2> QED
        BY <1>1, <2>1, <2>2, <2>3
<1>6. ToSet(w) = ToSet(s) \ {c}
    BY <1>2, <1>4, <1>5 DEF ToSet
<1> QED
    BY <1>2, <1>3, <1>6 DEF Without, i, w

\* A list with one more
LEMMA AppendKeepsDistinct ==
    ASSUME NEW S, NEW s \in Seq(S), NEW c \in S, c \notin ToSet(s), Distinct(s)
    PROVE  /\ Append(s, c) \in Seq(S)
           /\ Distinct(Append(s, c))
           /\ ToSet(Append(s, c)) = ToSet(s) \cup {c}
<1>1. /\ Append(s, c) \in Seq(S) /\ Len(s) \in Nat
      /\ DOMAIN s = 1 .. Len(s) /\ DOMAIN Append(s, c) = 1 .. (Len(s) + 1)
      /\ \A i \in 1 .. Len(s) : Append(s, c)[i] = s[i]
      /\ Append(s, c)[Len(s) + 1] = c
    BY AppendProperties
<1>2. \A i \in 1 .. (Len(s) + 1) : i \in 1 .. Len(s) \/ i = Len(s) + 1
    BY <1>1
<1>3. \A i \in 1 .. Len(s) : s[i] # c
    BY <1>1 DEF ToSet
<1>4. Distinct(Append(s, c))
    BY <1>1, <1>2, <1>3 DEF Distinct
<1>5. Len(s) + 1 \in 1 .. (Len(s) + 1) /\ 1 .. Len(s) \subseteq 1 .. (Len(s) + 1)
    BY <1>1
<1>6. ToSet(Append(s, c)) = ToSet(s) \cup {c}
    BY <1>1, <1>2, <1>5 DEF ToSet
<1> QED
    BY <1>1, <1>4, <1>6

\* A list is its head and its tail.
LEMMA HeadAndTail ==
    ASSUME NEW S, NEW s \in Seq(S), s # <<>>
    PROVE  /\ Head(s) \in S /\ Tail(s) \in Seq(S)
           /\ ToSet(s) = {Head(s)} \cup ToSet(Tail(s))
<1>1. /\ Head(s) \in S /\ Tail(s) \in Seq(S) /\ Len(s) \in Nat \ {0}
      /\ Len(Tail(s)) = Len(s) - 1 /\ Head(s) = s[1]
      /\ \A i \in 1 .. (Len(s) - 1) : Tail(s)[i] = s[i + 1]
      /\ DOMAIN s = 1 .. Len(s) /\ DOMAIN Tail(s) = 1 .. (Len(s) - 1)
    BY HeadTailProperties
<1>2. \A i \in 1 .. Len(s) : i = 1 \/ (i - 1 \in 1 .. (Len(s) - 1) /\ (i - 1) + 1 = i)
    BY <1>1
<1>3. \A i \in 1 .. (Len(s) - 1) : i + 1 \in 1 .. Len(s)
    BY <1>1
<1>4. 1 \in 1 .. Len(s)
    BY <1>1
<1>5. \A x \in ToSet(s) : x = Head(s) \/ x \in ToSet(Tail(s))
    <2> TAKE x \in ToSet(s)
    <2>1. PICK i \in 1 .. Len(s) : s[i] = x
        BY <1>1 DEF ToSet
    <2>2. CASE i = 1
        BY <1>1, <2>1, <2>2
    <2>3. CASE i # 1
        <3>1. Tail(s)[i - 1] = x /\ i - 1 \in DOMAIN Tail(s)
            BY <1>1, <1>2, <2>1, <2>3
        <3> QED
            BY <3>1 DEF ToSet
    <2> QED
        BY <2>2, <2>3
<1>6. \A x \in ToSet(Tail(s)) : x \in ToSet(s)
    BY <1>1, <1>3 DEF ToSet
<1>7. Head(s) \in ToSet(s)
    BY <1>1, <1>4 DEF ToSet
<1> QED
    BY <1>1, <1>5, <1>6, <1>7

-----------------------------------------------------------------------------
(* The invariant                                                           *)

\* One client is listed and nothing is cached.
LEMMA CacheInitial == Init => CacheIInv
<1> SUFFICES ASSUME Init PROVE CacheIInv
    OBVIOUS
<1> USE CacheAssumption
<1>1. PICK c \in Clients : clients = <<c>>
    BY DEF Init
<1>2. clients \in Seq(Clients) /\ ToSet(clients) = {c} /\ Distinct(clients) /\ clients[1] = c
    BY <1>1 DEF ToSet, Distinct
<1>3. \A d \in Clients : /\ exchange[d] = Idle /\ At(d, "idle") /\ ~Holds(d)
                         /\ Idle.listed = {} /\ Idle.got = NoInfo
    BY DEF Init, Idle, At, Holds
<1>4. Idle \in Exchanges
    BY DEF Idle, Exchanges, Pcs, NoInfo
<1>5. CacheTypeOK
    BY <1>2, <1>4 DEF Init, CacheTypeOK, NoInfo
<1>6. ListIsCurrent
    BY <1>2, <1>3 DEF Init, ListIsCurrent
<1>7. ClockIsRecent /\ ClaimsAreSpaced /\ OneHolds
    BY <1>3 DEF ClockIsRecent, ClaimsAreSpaced, OneHolds, At
<1>8. CollectedFits /\ PurgedStayGone /\ OwnInfoServed
    BY <1>3 DEF Init, CollectedFits, PurgedStayGone, OwnInfoServed, At
<1> QED
    BY <1>5, <1>6, <1>7, <1>8 DEF CacheIInv

\* A step of c's exchange, from one record to another.
Moves(c, x) == /\ x \in Exchanges /\ exchange' = [exchange EXCEPT ![c] = x]
               /\ UNCHANGED <<clock, clients, removal>>

\* What follows for the others.
LEMMA OthersStay ==
    ASSUME CacheTypeOK, NEW c \in Clients, NEW x \in Exchanges, Moves(c, x)
    PROVE  /\ exchange' \in [Clients -> Exchanges] /\ exchange'[c] = x
           /\ \A d \in Clients \ {c} : /\ exchange'[d] = exchange[d]
                                       /\ \A pc \in Pcs : At(d, pc)' <=> At(d, pc)
                                       /\ Holds(d)' <=> Holds(d)
           /\ \A pc \in Pcs : At(c, pc)' <=> x.pc = pc
           /\ Gone' = Gone
BY DEF CacheTypeOK, Moves, At, Holds, Gone, Pcs

\* A handler that starts, reads the clock, finds the cache fresh or answers
\* changes no more than its own state and info.
LEMMA PlainStepsKeep ==
    ASSUME CacheIInv, NEW c \in Clients, NEW x \in Exchanges, Moves(c, x),
           UNCHANGED <<updated, cache, purged>>,
           info' \in [Clients -> Nat], \A d \in Clients \ {c} : info'[d] = info[d],
           removal[c] # "outside",
           ~At(c, "collect") /\ x.got = NoInfo /\ x.listed = {},
           x.pc \in {"idle", "clock", "load", "cas", "answer"},
           x.pc \notin {"idle", "clock"} => x.now <= clock /\ clock < x.now + Interval,
           x.pc = "cas" => x.now >= x.seen + Interval
    PROVE  CacheIInv'
<1> USE DEF CacheIInv
<1>1. /\ exchange' \in [Clients -> Exchanges] /\ exchange'[c] = x
      /\ \A d \in Clients \ {c} : /\ exchange'[d] = exchange[d]
                                  /\ \A pc \in Pcs : At(d, pc)' <=> At(d, pc)
                                  /\ Holds(d)' <=> Holds(d)
      /\ \A pc \in Pcs : At(c, pc)' <=> x.pc = pc
      /\ Gone' = Gone
    BY OthersStay
<1>2. UNCHANGED <<clock, clients, removal>>
    BY DEF Moves
<1>3. ~Holds(c)'
    BY <1>1 DEF Holds, Pcs
<1>4. CacheTypeOK'
    BY <1>1, <1>2 DEF CacheTypeOK
<1>5. ListIsCurrent'
    BY <1>1, <1>2 DEF ListIsCurrent, Pcs
<1>6. ClockIsRecent'
    BY <1>1, <1>2 DEF ClockIsRecent, Pcs
<1>7. ClaimsAreSpaced' /\ OneHolds'
    BY <1>1, <1>3 DEF ClaimsAreSpaced, OneHolds, Pcs
<1>8. CollectedFits'
    <2>1. ~At(c, "collect")'
        BY <1>1 DEF Pcs
    <2> QED
        BY <1>1, <2>1 DEF CollectedFits, Pcs
<1>9. PurgedStayGone'
    BY DEF PurgedStayGone
<1>10. OwnInfoServed'
    BY <1>1, <1>2 DEF OwnInfoServed, Pcs
<1> QED
    BY <1>4, <1>5, <1>6, <1>7, <1>8, <1>9, <1>10

\* The handler's steps outside a refresh.
LEMMA HandlersKeep ==
    ASSUME CacheIInv, NEW c \in Clients,
           SetRoutingInfo(c) \/ ReadClock(c) \/ LoadUpdated(c) \/ AnswerExchange(c)
    PROVE  CacheIInv'
<1> DEFINE e == exchange[c]
<1> USE CacheAssumption
<1>1. /\ e \in Exchanges /\ clock \in Nat /\ updated \in Nat
      /\ removal[c] = "outside" => e.pc = "idle"
      /\ e.pc # "collect" => e.got = NoInfo
      /\ e.pc \in {"idle", "clock", "load", "cas", "copy"} => e.listed = {}
      /\ e.pc \notin {"idle", "clock"} => e.now <= clock /\ clock < e.now + Interval
    BY DEF CacheIInv, CacheTypeOK, ListIsCurrent, CollectedFits, ClaimsAreSpaced,
           ClockIsRecent, At, Exchanges
<1>2. info \in [Clients -> Nat]
    BY DEF CacheIInv, CacheTypeOK
<1>3. CASE SetRoutingInfo(c)
    <2> DEFINE x == [e EXCEPT !.pc = "clock"]
    <2>1. /\ x \in Exchanges /\ x.pc = "clock" /\ x.got = NoInfo /\ x.listed = {}
          /\ ~At(c, "collect") /\ removal[c] # "outside"
        BY <1>1, <1>3 DEF SetRoutingInfo, At, Exchanges, Pcs
    <2>2. /\ exchange' = [exchange EXCEPT ![c] = x]
          /\ UNCHANGED <<clock, clients, removal, updated, cache, purged>>
          /\ info' \in [Clients -> Nat] /\ \A d \in Clients \ {c} : info'[d] = info[d]
        BY <1>2, <1>3 DEF SetRoutingInfo
    <2> HIDE DEF x
    <2> QED
        BY <2>1, <2>2, PlainStepsKeep DEF Moves
<1>4. CASE ReadClock(c)
    <2> DEFINE x == [e EXCEPT !.pc = "load", !.now = clock]
    <2>1. /\ x \in Exchanges /\ x.pc = "load" /\ x.got = NoInfo /\ x.listed = {}
          /\ x.now = clock /\ clock <= clock /\ clock < clock + Interval
          /\ ~At(c, "collect") /\ removal[c] # "outside"
        <3>1. e.pc = "clock" /\ e.got = NoInfo /\ e.listed = {} /\ removal[c] # "outside"
            BY <1>1, <1>4 DEF ReadClock, At
        <3>2. x \in Exchanges
            BY <1>1 DEF Exchanges, Pcs
        <3>3. /\ x.pc = "load" /\ x.now = clock /\ x.got = e.got /\ x.listed = e.listed
            BY <1>1 DEF Exchanges
        <3>4. clock <= clock /\ clock < clock + Interval
            BY <1>1
        <3> QED
            BY <3>1, <3>2, <3>3, <3>4 DEF At
    <2>2. /\ exchange' = [exchange EXCEPT ![c] = x]
          /\ UNCHANGED <<clock, clients, removal, updated, cache, purged, info>>
        BY <1>4 DEF ReadClock
    <2> HIDE DEF x
    <2>3. Moves(c, x)
        BY <2>1, <2>2 DEF Moves
    <2> QED
        BY <1>1, <1>2, <2>1, <2>2, <2>3, PlainStepsKeep
<1>5. CASE LoadUpdated(c)
    <2> DEFINE x == [e EXCEPT !.pc = "answer"]
    <2> DEFINE y == [e EXCEPT !.pc = "cas", !.seen = updated]
    <2>1. e.pc = "load" /\ removal[c] # "outside" /\ ~At(c, "collect")
        BY <1>1, <1>5 DEF LoadUpdated, At
    <2>2. /\ x \in Exchanges /\ x.pc = "answer" /\ x.got = NoInfo /\ x.listed = {}
          /\ x.now = e.now
          /\ y \in Exchanges /\ y.pc = "cas" /\ y.got = NoInfo /\ y.listed = {}
          /\ y.now = e.now /\ y.seen = updated
        BY <1>1, <2>1 DEF Exchanges, Pcs
    <2>3. UNCHANGED <<clock, clients, removal, updated, cache, purged, info>>
        BY <1>5 DEF LoadUpdated
    <2>4. \/ exchange' = [exchange EXCEPT ![c] = x]
          \/ exchange' = [exchange EXCEPT ![c] = y] /\ e.now >= updated + Interval
        BY <1>5 DEF LoadUpdated
    <2> HIDE DEF x, y
    <2>5. CASE exchange' = [exchange EXCEPT ![c] = x]
        <3>1. Moves(c, x)
            BY <2>2, <2>3, <2>5 DEF Moves
        <3> QED
            BY <1>1, <1>2, <2>1, <2>2, <2>3, <3>1, PlainStepsKeep
    <2>6. CASE exchange' = [exchange EXCEPT ![c] = y] /\ e.now >= updated + Interval
        <3>1. Moves(c, y)
            BY <2>2, <2>3, <2>6 DEF Moves
        <3> QED
            BY <1>1, <1>2, <2>1, <2>2, <2>3, <2>6, <3>1, PlainStepsKeep
    <2> QED
        BY <2>4, <2>5, <2>6
<1>6. CASE AnswerExchange(c)
    <2>1. /\ Idle \in Exchanges /\ Idle.pc = "idle" /\ Idle.got = NoInfo /\ Idle.listed = {}
        BY DEF Idle, Exchanges, Pcs, NoInfo
    <2>2. /\ ~At(c, "collect") /\ removal[c] # "outside"
          /\ UNCHANGED <<clock, clients, removal, updated, cache, purged, info>>
        BY <1>1, <1>6 DEF AnswerExchange, At
    <2>3. Moves(c, Idle)
        BY <1>6, <2>1 DEF AnswerExchange, Moves
    <2> QED
        BY <1>2, <2>1, <2>2, <2>3, PlainStepsKeep
<1> QED
    BY <1>3, <1>4, <1>5, <1>6

\* While one holds the cache nobody can claim it: an interval has not passed.
LEMMA NobodyHoldsAtClaim ==
    ASSUME CacheIInv, NEW c \in Clients, At(c, "cas"), Unclaimed(c), NEW d \in Clients
    PROVE  ~Holds(d)
<1>1. /\ exchange[c].now \in Nat /\ exchange[d].now \in Nat /\ clock \in Nat /\ Interval \in Nat
      /\ exchange[c].now >= updated + Interval /\ exchange[c].now <= clock
    BY CacheAssumption DEF CacheIInv, CacheTypeOK, Exchanges, ClaimsAreSpaced, ClockIsRecent,
                           Unclaimed, At
<1>2. Holds(d) => updated = exchange[d].now /\ clock < exchange[d].now + Interval
    BY DEF CacheIInv, ClaimsAreSpaced, ClockIsRecent, Holds, At
<1> QED
    BY <1>1, <1>2

\* The winner of the compare_exchange claims a cache that nobody holds.
LEMMA ClaimKeeps ==
    ASSUME CacheIInv, NEW c \in Clients, ClaimRefresh(c)
    PROVE  CacheIInv'
<1> DEFINE e == exchange[c]
<1> DEFINE x == [e EXCEPT !.pc = "copy", !.seen = 0]
<1> DEFINE y == [e EXCEPT !.pc = "answer", !.seen = 0]
<1> USE CacheAssumption
<1>1. /\ e \in Exchanges /\ e.pc = "cas" /\ At(c, "cas") /\ ~At(c, "collect")
      /\ removal[c] # "outside" /\ e.got = NoInfo /\ e.listed = {}
      /\ e.now <= clock /\ clock < e.now + Interval /\ info \in [Clients -> Nat]
    BY DEF ClaimRefresh, CacheIInv, CacheTypeOK, ListIsCurrent, CollectedFits,
           ClaimsAreSpaced, ClockIsRecent, At
<1>2. UNCHANGED <<clock, clients, info, cache, removal, purged>>
    BY DEF ClaimRefresh
<1>3. /\ x \in Exchanges /\ x.pc = "copy" /\ x.got = NoInfo /\ x.listed = {} /\ x.now = e.now
      /\ y \in Exchanges /\ y.pc = "answer" /\ y.got = NoInfo /\ y.listed = {} /\ y.now = e.now
    BY <1>1 DEF Exchanges, Pcs
<1>4. \/ Unclaimed(c) /\ updated' = e.now /\ exchange' = [exchange EXCEPT ![c] = x]
      \/ exchange' = [exchange EXCEPT ![c] = y] /\ UNCHANGED updated
    BY DEF ClaimRefresh, ClaimedAt
<1> HIDE DEF x, y
<1>5. CASE exchange' = [exchange EXCEPT ![c] = y] /\ UNCHANGED updated
    <2>1. Moves(c, y)
        BY <1>2, <1>3, <1>5 DEF Moves
    <2> QED
        BY <1>1, <1>2, <1>3, <1>5, <2>1, PlainStepsKeep
<1>6. CASE Unclaimed(c) /\ updated' = e.now /\ exchange' = [exchange EXCEPT ![c] = x]
    <2> USE DEF CacheIInv
    <2>1. Moves(c, x)
        BY <1>2, <1>3, <1>6 DEF Moves
    <2>2. /\ exchange' \in [Clients -> Exchanges] /\ exchange'[c] = x
          /\ \A d \in Clients \ {c} : /\ exchange'[d] = exchange[d]
                                      /\ \A pc \in Pcs : At(d, pc)' <=> At(d, pc)
                                      /\ Holds(d)' <=> Holds(d)
          /\ \A pc \in Pcs : At(c, pc)' <=> x.pc = pc
          /\ Gone' = Gone
        BY <1>3, <2>1, OthersStay
    <2>3. \A d \in Clients \ {c} : ~Holds(d)'
        BY <1>1, <1>6, <2>2, NobodyHoldsAtClaim
    <2>4. CacheTypeOK'
        BY <1>1, <1>2, <1>6, <2>2 DEF CacheTypeOK, Exchanges
    <2>5. ListIsCurrent' /\ ClockIsRecent'
        BY <1>1, <1>2, <1>3, <2>2 DEF ListIsCurrent, ClockIsRecent, Pcs
    <2>6. ClaimsAreSpaced'
        BY <1>3, <1>6, <2>2, <2>3 DEF ClaimsAreSpaced, Pcs
    <2>7. OneHolds'
        BY <2>3 DEF OneHolds
    <2>8. ~At(c, "collect")' /\ ~At(c, "answer")'
        BY <1>3, <2>2 DEF Pcs
    <2>9. CollectedFits' /\ PurgedStayGone' /\ OwnInfoServed'
        BY <1>2, <1>3, <2>2, <2>8 DEF CollectedFits, PurgedStayGone, OwnInfoServed, Pcs
    <2> QED
        BY <2>4, <2>5, <2>6, <2>7, <2>9
<1> QED
    BY <1>4, <1>5, <1>6

\* The part of the list that a refresh copies
LEMMA FirstOfList ==
    ASSUME CacheTypeOK
    PROVE  LET first == SubSeq(clients, 1, Min({Len(clients), RoutingInfoMax}))
           IN  first \in Seq(Clients) /\ ToSet(first) \subseteq ToSet(clients)
<1> DEFINE n == Min({Len(clients), RoutingInfoMax})
<1>1. Len(clients) \in Nat /\ RoutingInfoMax \in Nat /\ clients \in Seq(Clients)
    BY CacheAssumption DEF CacheTypeOK
<1>2. n \in Nat /\ n <= Len(clients)
    BY <1>1 DEF Min
<1> HIDE DEF n
<1>3. /\ SubSeq(clients, 1, n) \in Seq(Clients) /\ Len(SubSeq(clients, 1, n)) = n
      /\ \A i \in 1 .. n : SubSeq(clients, 1, n)[i] = clients[i]
    BY <1>1, <1>2
<1>4. /\ DOMAIN SubSeq(clients, 1, n) = 1 .. n /\ DOMAIN clients = 1 .. Len(clients)
      /\ 1 .. n \subseteq 1 .. Len(clients)
    BY <1>1, <1>2, <1>3
<1>5. ToSet(SubSeq(clients, 1, n)) \subseteq ToSet(clients)
    BY <1>3, <1>4 DEF ToSet
<1> QED
    BY <1>3, <1>5 DEF n

\* Steps of a refresh that write no cache
LEMMA CollectKeeps ==
    ASSUME CacheIInv, NEW c \in Clients, CopyClients(c) \/ CollectInfo(c)
    PROVE  CacheIInv'
<1> DEFINE e == exchange[c]
<1> USE CacheAssumption
<1>1. /\ e \in Exchanges /\ Holds(c) /\ removal[c] # "outside" /\ ~At(c, "idle")
      /\ e.pc \in {"copy", "collect"}
      /\ e.now <= clock /\ clock < e.now + Interval /\ updated = e.now
      /\ info \in [Clients -> Nat]
    BY DEF CopyClients, CollectInfo, CacheIInv, CacheTypeOK, ListIsCurrent,
           ClaimsAreSpaced, ClockIsRecent, At, Holds
<1>2. UNCHANGED <<clock, updated, clients, info, cache, removal, purged>>
    BY DEF CopyClients, CollectInfo
<1>3. \E x \in Exchanges :
         /\ exchange' = [exchange EXCEPT ![c] = x] /\ x.pc = "collect" /\ x.now = e.now
         /\ ToSet(x.todo) \subseteq x.listed /\ x.gone \subseteq Gone
         /\ x.listed \cap (purged \cup x.gone) = {}
         /\ \A d \in Clients : x.got[d] # 0 => d \in x.listed
         /\ c \in x.listed => c \in ToSet(x.todo) \/ x.got[c] = info[c]
    <2>1. CASE CopyClients(c)
        <3> DEFINE first == SubSeq(clients, 1, Min({Len(clients), RoutingInfoMax}))
        <3>1. first \in Seq(Clients) /\ ToSet(first) \subseteq ToSet(clients)
            BY FirstOfList DEF CacheIInv
        <3>2. /\ Gone \subseteq Clients /\ \A d \in Gone : removal[d] = "removed"
              /\ \A d \in ToSet(clients) : removal[d] = "member"
              /\ purged \subseteq Gone /\ e.got = NoInfo
            BY <2>1 DEF CacheIInv, ListIsCurrent, CollectedFits, Gone, CopyClients, At
        <3> HIDE DEF first
        <3> DEFINE x == [e EXCEPT !.pc = "collect", !.todo = first,
                                  !.listed = ToSet(first), !.gone = Gone]
        <3>3. exchange' = [exchange EXCEPT ![c] = x]
            BY <2>1 DEF CopyClients, first
        <3>4. ToSet(first) \subseteq Clients
            BY <3>1 DEF ToSet
        <3>5. /\ x \in Exchanges /\ x.pc = "collect" /\ x.now = e.now /\ x.todo = first
              /\ x.listed = ToSet(first) /\ x.gone = Gone /\ x.got = NoInfo
            BY <1>1, <3>1, <3>2, <3>4 DEF Exchanges, Pcs
        <3> HIDE DEF x
        <3>6. ToSet(first) \cap (purged \cup Gone) = {}
            BY <3>1, <3>2
        <3> QED
            BY <3>3, <3>5, <3>6 DEF NoInfo
    <2>2. CASE CollectInfo(c)
        <3> DEFINE d == Head(e.todo)
        <3> DEFINE x == [e EXCEPT !.todo = Tail(@), !.got[d] = info[d]]
        <3>1. /\ e.pc = "collect" /\ e.todo # <<>> /\ e.todo \in Seq(Clients)
              /\ e.got \in [Clients -> Nat]
              /\ exchange' = [exchange EXCEPT ![c] = x]
            BY <1>1, <2>2 DEF CollectInfo, At, Exchanges
        <3>2. /\ d \in Clients /\ Tail(e.todo) \in Seq(Clients)
              /\ ToSet(e.todo) = {d} \cup ToSet(Tail(e.todo))
            BY <3>1, HeadAndTail
        <3>3. /\ ToSet(e.todo) \subseteq e.listed /\ e.gone \subseteq Gone
              /\ e.listed \cap (purged \cup e.gone) = {}
              /\ \A b \in Clients : e.got[b] # 0 => b \in e.listed
              /\ c \in e.listed => c \in ToSet(e.todo) \/ e.got[c] = info[c]
            BY <2>2 DEF CacheIInv, CollectedFits, CollectInfo
        <3> HIDE DEF d
        <3> DEFINE g == [e.got EXCEPT ![d] = info[d]]
        <3>4. /\ g \in [Clients -> Nat] /\ g[d] = info[d]
              /\ \A b \in Clients \ {d} : g[b] = e.got[b]
            BY <1>1, <3>1, <3>2
        <3>5. /\ x.got = g /\ x.todo = Tail(e.todo) /\ x.pc = e.pc /\ x.now = e.now
              /\ x.listed = e.listed /\ x.gone = e.gone
            BY <1>1 DEF Exchanges
        <3>6. x \in Exchanges
            BY <1>1, <3>2, <3>4 DEF Exchanges
        <3> HIDE DEF x, g
        <3>7. \A b \in Clients : g[b] # 0 => b \in e.listed
            BY <3>2, <3>3, <3>4
        <3>8. c \in e.listed => c \in ToSet(Tail(e.todo)) \/ g[c] = info[c]
            BY <3>2, <3>3, <3>4
        <3> QED
            BY <3>1, <3>2, <3>3, <3>5, <3>6, <3>7, <3>8
    <2> QED
        BY <2>1, <2>2
<1>4. PICK x \in Exchanges :
         /\ exchange' = [exchange EXCEPT ![c] = x] /\ x.pc = "collect" /\ x.now = e.now
         /\ ToSet(x.todo) \subseteq x.listed /\ x.gone \subseteq Gone
         /\ x.listed \cap (purged \cup x.gone) = {}
         /\ \A d \in Clients : x.got[d] # 0 => d \in x.listed
         /\ c \in x.listed => c \in ToSet(x.todo) \/ x.got[c] = info[c]
    BY <1>3
<1> USE DEF CacheIInv
<1>5. Moves(c, x)
    BY <1>2, <1>4 DEF Moves
<1>6. /\ exchange' \in [Clients -> Exchanges] /\ exchange'[c] = x
      /\ \A d \in Clients \ {c} : /\ exchange'[d] = exchange[d]
                                  /\ \A pc \in Pcs : At(d, pc)' <=> At(d, pc)
                                  /\ Holds(d)' <=> Holds(d)
      /\ \A pc \in Pcs : At(c, pc)' <=> x.pc = pc
      /\ Gone' = Gone
    BY <1>5, OthersStay
<1>7. CacheTypeOK'
    BY <1>2, <1>6 DEF CacheTypeOK
<1>8. ListIsCurrent' /\ ClockIsRecent'
    BY <1>1, <1>2, <1>4, <1>6 DEF ListIsCurrent, ClockIsRecent, Pcs
<1>9. ClaimsAreSpaced' /\ OneHolds'
    BY <1>1, <1>2, <1>4, <1>6 DEF ClaimsAreSpaced, OneHolds, Pcs
<1>10. CollectedFits'
    BY <1>2, <1>4, <1>6 DEF CollectedFits, Pcs
<1>11. PurgedStayGone' /\ OwnInfoServed'
    BY <1>2, <1>4, <1>6 DEF PurgedStayGone, OwnInfoServed, Pcs
<1> QED
    BY <1>7, <1>8, <1>9, <1>10, <1>11

\* The one that holds the cache writes what it has collected: nothing of those
\* that had left when it copied the list, and its own newest info.
LEMMA WriteKeeps ==
    ASSUME CacheIInv, NEW c \in Clients, WriteCache(c)
    PROVE  CacheIInv'
<1> USE CacheAssumption DEF CacheIInv
<1> DEFINE e == exchange[c]
<1> DEFINE x == [e EXCEPT !.pc = "answer", !.got = NoInfo, !.gone = {}]
<1>1. /\ e \in Exchanges /\ e.pc = "collect" /\ e.todo = <<>> /\ At(c, "collect") /\ Holds(c)
      /\ removal[c] # "outside"
      /\ e.now <= clock /\ clock < e.now + Interval /\ updated = e.now
      /\ UNCHANGED <<clock, updated, clients, info, removal>>
      /\ cache' = e.got /\ purged' = purged \cup e.gone
      /\ exchange' = [exchange EXCEPT ![c] = x]
    BY DEF WriteCache, Collected, CacheTypeOK, ListIsCurrent, ClaimsAreSpaced, ClockIsRecent,
           At, Holds
<1>2. /\ x \in Exchanges /\ x.pc = "answer" /\ x.now = e.now /\ x.got = NoInfo
      /\ x.listed = e.listed /\ x.gone = {} /\ x.todo = <<>>
    BY <1>1 DEF Exchanges, Pcs, NoInfo
<1>3. /\ e.gone \subseteq Gone /\ Gone \subseteq Clients /\ e.got \in [Clients -> Nat]
      /\ e.listed \cap (purged \cup e.gone) = {}
      /\ \A d \in Clients : e.got[d] # 0 => d \in e.listed
      /\ c \in e.listed => e.got[c] = info[c]
    BY <1>1 DEF CollectedFits, ToSet, Gone, Exchanges
<1> HIDE DEF x
<1>4. Moves(c, x)
    BY <1>1, <1>2 DEF Moves
<1>5. /\ exchange' \in [Clients -> Exchanges] /\ exchange'[c] = x
      /\ \A d \in Clients \ {c} : /\ exchange'[d] = exchange[d]
                                  /\ \A pc \in Pcs : At(d, pc)' <=> At(d, pc)
                                  /\ Holds(d)' <=> Holds(d)
      /\ \A pc \in Pcs : At(c, pc)' <=> x.pc = pc
      /\ Gone' = Gone
    BY <1>2, <1>4, OthersStay
<1>6. \A d \in Clients \ {c} : ~Holds(d)
    BY <1>1 DEF OneHolds
<1>7. CacheTypeOK'
    BY <1>1, <1>3, <1>5 DEF CacheTypeOK
<1>8. ListIsCurrent' /\ ClockIsRecent'
    BY <1>1, <1>2, <1>5 DEF ListIsCurrent, ClockIsRecent, Pcs
<1>9. ClaimsAreSpaced'
    BY <1>1, <1>2, <1>5 DEF ClaimsAreSpaced, Pcs
<1>10. OneHolds'
    BY <1>5, <1>6 DEF OneHolds
<1>11. CollectedFits'
    <2>1. \A d \in Clients : ~At(d, "collect")'
        BY <1>2, <1>5, <1>6 DEF Holds, Pcs
    <2>2. \A d \in Clients : exchange'[d].got = NoInfo
        <3>1. \A d \in Clients \ {c} : ~At(d, "collect")
            BY <1>6 DEF Holds
        <3> QED
            BY <1>2, <1>5, <3>1 DEF CollectedFits
    <2>3. (purged \subseteq Gone)'
        BY <1>1, <1>3, <1>5 DEF CollectedFits
    <2> QED
        BY <2>1, <2>2, <2>3 DEF CollectedFits
<1>12. PurgedStayGone'
    <2>1. \A d \in purged \cup e.gone : d \in Clients /\ e.got[d] = 0
        BY <1>3 DEF CollectedFits
    <2> QED
        BY <1>1, <2>1 DEF PurgedStayGone
<1>13. OwnInfoServed'
    <2>1. \A d \in Clients \ {c} : ~(At(d, "answer")' /\ d \in exchange'[d].listed)
        BY <1>5, <1>6 DEF Holds, Pcs
    <2> QED
        BY <1>1, <1>2, <1>3, <1>5, <2>1 DEF OwnInfoServed
<1> QED
    BY <1>7, <1>8, <1>9, <1>10, <1>11, <1>12, <1>13

\* Clients come and go, and time passes.
LEMMA MembersKeep ==
    ASSUME CacheIInv, NEW c \in Clients,
           AddConnection(c) \/ RetainClients(c) \/ RetainInfos(c)
    PROVE  CacheIInv'
<1> USE CacheAssumption DEF CacheIInv
<1>1. UNCHANGED <<clock, updated, info, exchange, purged>>
    BY DEF AddConnection, RetainClients, RetainInfos
<1>2. /\ removal' \in [Clients -> {"outside", "member", "retain", "removed"}]
      /\ \A d \in Clients \ {c} : removal'[d] = removal[d]
      /\ removal'[c] # "outside" /\ removal[c] # "removed"
      /\ removal'[c] = "member" => removal[c] = "outside"
      /\ removal[c] \in {"outside", "member", "retain"}
    BY DEF AddConnection, RetainClients, RetainInfos, CacheTypeOK
<1>3. /\ clients' \in Seq(Clients) /\ Distinct(clients')
      /\ ToSet(clients') = IF removal'[c] = "member" THEN ToSet(clients) \cup {c}
                           ELSE ToSet(clients) \ {c}
    <2>1. clients \in Seq(Clients) /\ Distinct(clients)
        BY DEF CacheTypeOK, ListIsCurrent
    <2>2. CASE AddConnection(c)
        <3>1. c \notin ToSet(clients) /\ removal'[c] = "member" /\ clients' = Append(clients, c)
            BY <2>2 DEF AddConnection, ListIsCurrent, CacheTypeOK
        <3> QED
            BY <2>1, <3>1, AppendKeepsDistinct
    <2>3. CASE RetainClients(c)
        <3>1. c \in ToSet(clients) /\ removal'[c] = "retain" /\ clients' = Without(clients, c)
            BY <2>3 DEF RetainClients, ListIsCurrent, CacheTypeOK
        <3> QED
            BY <2>1, <3>1, WithoutProperties
    <2>4. CASE RetainInfos(c)
        BY <2>1, <2>4 DEF RetainInfos, ListIsCurrent, CacheTypeOK
    <2> QED
        BY <2>2, <2>3, <2>4
<1>4. /\ cache' \in [Clients -> Nat] /\ \A d \in Clients \ {c} : cache'[d] = cache[d]
      /\ cache'[c] = cache[c] \/ (cache'[c] = 0 /\ removal'[c] # "member")
    <2>1. cache \in [Clients -> Nat]
        BY DEF CacheTypeOK
    <2>2. CASE cache' = cache
        BY <2>1, <2>2
    <2>3. CASE cache' = [cache EXCEPT ![c] = 0] /\ removal' = [removal EXCEPT ![c] = "removed"]
        BY <2>1, <2>3 DEF CacheTypeOK
    <2> QED
        BY <2>2, <2>3 DEF AddConnection, RetainClients, RetainInfos
<1>5. \A d \in Clients, pc \in Pcs : At(d, pc)' <=> At(d, pc)
    BY <1>1 DEF At
<1>6. \A d \in Clients : Holds(d)' <=> Holds(d)
    BY <1>1 DEF Holds, At
<1>7. CacheTypeOK'
    BY <1>1, <1>2, <1>3, <1>4 DEF CacheTypeOK
<1>8. ListIsCurrent'
    <2>1. ASSUME NEW d \in ToSet(clients') PROVE removal'[d] = "member"
        <3>1. d \in Clients
            BY <1>3, <2>1 DEF ToSet
        <3>2. CASE d = c
            BY <1>3, <2>1, <3>2
        <3>3. CASE d # c
            BY <1>2, <1>3, <2>1, <3>1, <3>3 DEF ListIsCurrent
        <3> QED
            BY <3>2, <3>3
    <2>2. ASSUME NEW d \in Clients, removal'[d] = "member" PROVE d \in ToSet(clients')
        BY <1>2, <1>3, <2>2 DEF ListIsCurrent
    <2>3. ASSUME NEW d \in Clients, removal'[d] = "outside" PROVE At(d, "idle")'
        BY <1>1, <1>2, <2>3 DEF ListIsCurrent, At
    <2> QED
        BY <1>3, <2>1, <2>2, <2>3 DEF ListIsCurrent
<1>9. ClockIsRecent' /\ ClaimsAreSpaced' /\ OneHolds'
    BY <1>1 DEF ClockIsRecent, ClaimsAreSpaced, OneHolds, Holds, At
<1>10. Gone \subseteq Gone'
    BY <1>2 DEF Gone
<1>11. CollectedFits'
    BY <1>1, <1>5, <1>10 DEF CollectedFits, Pcs
<1>12. PurgedStayGone'
    BY <1>1, <1>4 DEF PurgedStayGone, CacheTypeOK
<1>13. OwnInfoServed'
    <2> SUFFICES ASSUME NEW d \in Clients, At(d, "answer"), d \in exchange[d].listed,
                        removal'[d] = "member"
                 PROVE  cache'[d] = info[d]
        BY <1>1, <1>5 DEF OwnInfoServed, Pcs
    <2>1. removal[d] # "outside"
        BY DEF ListIsCurrent, At
    <2>2. removal[d] = "member" /\ d # c
        BY <1>2, <2>1
    <2> QED
        BY <1>4, <2>2 DEF OwnInfoServed
<1> QED
    BY <1>7, <1>8, <1>9, <1>11, <1>12, <1>13

\* Every step keeps the invariant.
LEMMA CacheStep == CacheIInv /\ [Next]_vars => CacheIInv'
<1> SUFFICES ASSUME CacheIInv, [Next]_vars PROVE CacheIInv'
    OBVIOUS
<1>1. CASE UNCHANGED vars
    BY <1>1 DEF vars, CacheIInv, CacheTypeOK, ListIsCurrent, ClockIsRecent, ClaimsAreSpaced,
                OneHolds, CollectedFits, PurgedStayGone, OwnInfoServed, Holds, At, Gone
<1>2. CASE Tick
    <2> USE CacheAssumption DEF CacheIInv
    <2>1. /\ clock' = clock + 1
          /\ UNCHANGED <<updated, clients, info, cache, exchange, removal, purged>>
        BY <1>2 DEF Tick
    <2>2. CacheTypeOK'
        BY <2>1 DEF CacheTypeOK
    <2>3. ClockIsRecent'
        <3> SUFFICES ASSUME NEW c \in Clients, ~At(c, "idle"), ~At(c, "clock")
                     PROVE  exchange[c].now <= clock + 1 /\ clock + 1 < exchange[c].now + Interval
            BY <2>1 DEF ClockIsRecent, At
        <3>1. /\ exchange[c].pc \in {"load", "cas", "copy", "collect", "answer"}
              /\ exchange[c].now \in Nat /\ clock \in Nat
            BY DEF CacheTypeOK, Exchanges, Pcs, At
        <3>2. exchange[c].now <= clock
            BY DEF ClockIsRecent
        <3> QED
            BY <1>2, <3>1, <3>2 DEF Tick
    <2>4. /\ ListIsCurrent' /\ ClaimsAreSpaced' /\ OneHolds' /\ CollectedFits'
          /\ PurgedStayGone' /\ OwnInfoServed'
        BY <2>1 DEF ListIsCurrent, ClaimsAreSpaced, OneHolds, CollectedFits, PurgedStayGone,
                    OwnInfoServed, Holds, At, Gone
    <2> QED
        BY <2>2, <2>3, <2>4
<1>3. ASSUME NEW c \in Clients, ExchangeStep(c) PROVE CacheIInv'
    BY <1>3, HandlersKeep, ClaimKeeps, CollectKeeps, WriteKeeps DEF ExchangeStep
<1> QED
    BY <1>1, <1>2, <1>3, MembersKeep DEF Next

-----------------------------------------------------------------------------
(* The theorems                                                            *)

\* A client that has left and was gone when a refresh copied the list is never
\* in the cache again.
THEOREM LeaversStayGone == Spec => []PurgedStayGone
<1>1. CacheIInv => PurgedStayGone
    BY DEF CacheIInv
<1> QED
    BY <1>1, CacheInitial, CacheStep, PTL DEF Spec

\* A client whose exchange refreshed the cache is answered with its own newest
\* info.
THEOREM RefresherSeesItself == Spec => []OwnInfoServed
<1>1. CacheIInv => OwnInfoServed
    BY DEF CacheIInv
<1> QED
    BY <1>1, CacheInitial, CacheStep, PTL DEF Spec

\* However many handlers race for it, refreshes start an interval apart.
THEOREM ClaimsKeepTheInterval == Spec => RefreshesAreSpaced
<1> DEFINE Spaced == updated' # updated => updated' >= updated + Interval
<1>1. ASSUME CacheIInv, [Next]_vars PROVE [Spaced]_updated
    <2>1. CASE \E c \in Clients : ClaimRefresh(c)
        <3>1. PICK c \in Clients : ClaimRefresh(c)
            BY <2>1
        <3>2. At(c, "cas") => exchange[c].now >= exchange[c].seen + Interval
            BY <1>1 DEF CacheIInv, ClaimsAreSpaced
        <3> QED
            BY <3>1, <3>2 DEF ClaimRefresh, Unclaimed, ClaimedAt
    <2>2. CASE UNCHANGED updated
        BY <2>2
    <2> QED
        BY <1>1, <2>1, <2>2 DEF Next, vars, Tick, ExchangeStep, AddConnection, RetainClients,
           RetainInfos, SetRoutingInfo, ReadClock, LoadUpdated, CopyClients, CollectInfo,
           WriteCache, AnswerExchange
<1> QED
    BY <1>1, CacheInitial, CacheStep, PTL DEF Spec, RefreshesAreSpaced
=============================================================================
