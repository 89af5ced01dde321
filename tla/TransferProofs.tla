---------------------------- MODULE TransferProofs ----------------------------
(***************************************************************************)
(* HandedWithinTtl and AnswersAreRight for all sessions, connections and   *)
(* messages.                                                               *)
(***************************************************************************)
EXTENDS Transfer, FiniteSetTheorems, TLAPS

Copies == [msg : Transfers, ttl : Nat]

Calls ==
    {Idle} \cup [pc : {"find"}, copy : Copies]
    \cup [pc : {"send"}, copy : Copies, dest : Conns]
    \cup [pc : {"reply"}, copy : Copies, result : BOOLEAN]

TransferTypeOK ==
    /\ connectionMap \in [Sessions -> Conns \cup {Null}]
    /\ dc \in [Conns -> {"none", "open", "closed"}]
    /\ unsent \subseteq Transfers
    /\ outbox \in [Conns -> SUBSET Copies]
    /\ inbox \in [Conns -> SUBSET Copies]
    /\ call \in [Conns -> Calls]
    /\ handed \in [Transfers -> Nat]
    /\ granted \in [Transfers -> Nat]
    /\ refused \subseteq Transfers

\* A session has a connection of its own, and a copy is sent to one of its
\* addressee's.
RightSession ==
    /\ \A s \in Sessions : connectionMap[s] # Null => SessionOf[connectionMap[s]] = s
    /\ \A c \in Conns : call[c].pc = "send" => SessionOf[call[c].dest] = To[call[c].copy.msg]
    /\ \A c \in Conns : \A k \in inbox[c] : SessionOf[c] = To[k.msg]

Mail(c) == outbox[c] \cup inbox[c]
Flying(c) == call[c].pc \in {"find", "send"}

\* There is one copy of a message at most, in one place.
OneCopy ==
    /\ \A c \in Conns : outbox[c] \cap inbox[c] = {}
    /\ \A c \in Conns : \A k \in Mail(c) : k.msg \notin unsent
    /\ \A c \in Conns : Flying(c) => call[c].copy.msg \notin unsent
    /\ \A c, d \in Conns : \A k \in Mail(c), l \in Mail(d) :
          k.msg = l.msg => c = d /\ k = l
    /\ \A c, d \in Conns : \A k \in Mail(d) : Flying(c) => call[c].copy.msg # k.msg
    /\ \A c, d \in Conns :
          Flying(c) /\ Flying(d) /\ call[c].copy.msg = call[d].copy.msg => c = d

\* Its ttl and the hops it has made add up to its first ttl at most.
TtlIsLeft ==
    /\ \A m \in Transfers : handed[m] <= Ttl[m] /\ (m \in unsent => handed[m] = 0)
    /\ \A c \in Conns : \A k \in Mail(c) : k.ttl + handed[k.msg] <= Ttl[k.msg]
    /\ \A c \in Conns : Flying(c) =>
          /\ call[c].copy.ttl > 0
          /\ call[c].copy.ttl + handed[call[c].copy.msg] <= Ttl[call[c].copy.msg]

\* No copy of m is left.
Spent(m) ==
    /\ m \notin unsent
    /\ \A c \in Conns : \A k \in Mail(c) : k.msg # m
    /\ \A c \in Conns : Flying(c) => call[c].copy.msg # m

\* The answer false is given when the last copy is gone.
FalseIsFinal ==
    /\ \A m \in refused : Spent(m)
    /\ \A c \in Conns : call[c].pc = "reply" /\ ~call[c].result => Spent(call[c].copy.msg)

Granting(m) == {c \in Conns : call[c].pc = "reply" /\ call[c].result /\ call[c].copy.msg = m}

\* Each answer true stands for a copy that was handed over.
TrueIsEarned ==
    \A m \in Transfers : granted[m] + Cardinality(Granting(m)) <= handed[m]

TransferIInv ==
    /\ TransferTypeOK /\ RightSession /\ OneCopy /\ TtlIsLeft
    /\ FalseIsFinal /\ TrueIsEarned

\* The tallies are those of a set of calls.
LEMMA GrantingFinite ==
    ASSUME NEW m \in Transfers
    PROVE  IsFiniteSet(Granting(m)) /\ Cardinality(Granting(m)) \in Nat
<1>1. Granting(m) \subseteq Conns /\ IsFiniteSet(Conns)
    BY TransferAssumption DEF Granting
<1> QED
    BY <1>1, FS_Subset, FS_CardinalityType

\* No message has been sent.
LEMMA TransferInitial == Init => TransferIInv
<1> SUFFICES ASSUME Init PROVE TransferIInv
    OBVIOUS
<1>1. \A m \in Transfers : Granting(m) = {}
    BY DEF Init, Granting, Idle
<1>2. TrueIsEarned
    <2>1. \A m \in Transfers :
             granted[m] = 0 /\ handed[m] = 0 /\ Cardinality(Granting(m)) = 0
        BY <1>1, FS_EmptySet DEF Init
    <2> QED
        BY <2>1 DEF TrueIsEarned
<1>3. TransferTypeOK
    BY TransferAssumption DEF Init, TransferTypeOK, Calls
<1>4. \A c \in Conns : ~Flying(c) /\ call[c].pc # "reply" /\ Mail(c) = {}
                       /\ inbox[c] = {} /\ outbox[c] = {}
    BY DEF Init, Flying, Idle, Mail
<1>5. OneCopy /\ TtlIsLeft /\ FalseIsFinal
    BY <1>4, TransferAssumption DEF Init, OneCopy, TtlIsLeft, FalseIsFinal
<1>6. RightSession
    BY <1>4 DEF Init, RightSession, Idle
<1> QED
    BY <1>2, <1>3, <1>5, <1>6 DEF TransferIInv

\* What becomes of the answers depends on the calls and the tallies alone.
LEMMA TrueIsStillEarned ==
    ASSUME TrueIsEarned, UNCHANGED <<call, granted, handed>>
    PROVE  TrueIsEarned'
BY DEF TrueIsEarned, Granting

\* A message no copy of which is left stays so, and an answer false is given
\* for no other: then no answer false is ever wrong.
LEMMA FalseStaysFinal ==
    ASSUME TransferTypeOK, FalseIsFinal,
           \A m \in Transfers : Spent(m) => Spent(m)',
           \A m \in refused' : m \in refused \/ (m \in Transfers /\ Spent(m)'),
           \A d \in Conns : call'[d].pc = "reply" /\ ~call'[d].result =>
              \/ call'[d] = call[d]
              \/ \E m \in Transfers : call'[d].copy.msg = m /\ Spent(m)'
    PROVE  FalseIsFinal'
<1>1. \A m \in refused' : Spent(m)'
    BY DEF FalseIsFinal, TransferTypeOK
<1>2. \A d \in Conns : call[d].pc = "reply" => call[d].copy.msg \in Transfers
    BY DEF TransferTypeOK, Calls, Copies, Idle
<1>3. ASSUME NEW d \in Conns, call'[d].pc = "reply", ~call'[d].result
      PROVE  \E m \in Transfers : call'[d].copy.msg = m /\ Spent(m)'
    BY <1>2, <1>3 DEF FalseIsFinal
<1>4. \A d \in Conns : (call[d].pc = "reply" /\ ~call[d].result => Spent(call[d].copy.msg))'
    BY <1>3 DEF Spent
<1> QED
    BY <1>1, <1>4 DEF FalseIsFinal

\* Connections come and go, and with them mail is lost.
LEMMA ConnKeeps ==
    ASSUME TransferIInv, NEW c \in Conns, ConnStep(c)
    PROVE  TransferIInv'
<1> USE TransferAssumption DEF TransferIInv
<1>1. CASE Connect(c) \/ SetDc(c) \/ Remove(c)
    <2>1. UNCHANGED <<unsent, outbox, inbox, call, handed, granted, refused>>
        BY <1>1 DEF Connect, SetDc, Remove, mailVars, tallies
    <2>2. TransferTypeOK'
        BY <1>1, <2>1 DEF Connect, SetDc, Remove, TransferTypeOK
    <2>3. \A s \in Sessions : connectionMap'[s] # Null => SessionOf[connectionMap'[s]] = s
        BY <1>1 DEF Connect, SetDc, Remove, TransferTypeOK, RightSession
    <2>4. RightSession'
        BY <2>1, <2>3 DEF RightSession
    <2>5. OneCopy' /\ TtlIsLeft' /\ FalseIsFinal'
        BY <2>1 DEF OneCopy, TtlIsLeft, FalseIsFinal, Spent, Mail, Flying
    <2> QED
        BY <2>1, <2>2, <2>4, <2>5, TrueIsStillEarned
<1>2. CASE CloseDc(c)
    <2>1. UNCHANGED <<connectionMap, unsent, call, handed, granted, refused>>
        BY <1>2 DEF CloseDc, tallies
    <2>2. TransferTypeOK'
        BY <1>2 DEF CloseDc, TransferTypeOK, tallies
    <2>3. \A d \in Conns : outbox'[d] \subseteq outbox[d] /\ inbox'[d] \subseteq inbox[d]
        BY <1>2 DEF CloseDc, TransferTypeOK
    <2>4. RightSession'
        BY <2>1, <2>3 DEF RightSession
    <2>5. OneCopy' /\ TtlIsLeft' /\ FalseIsFinal'
        BY <2>1, <2>3 DEF OneCopy, TtlIsLeft, FalseIsFinal, Spent, Mail, Flying
    <2> QED
        BY <2>1, <2>2, <2>4, <2>5, TrueIsStillEarned
<1> QED
    BY <1>1, <1>2 DEF ConnStep

\* A client sends a message it has not sent, or passes on the copy it has got.
LEMMA ClientKeeps ==
    ASSUME TransferIInv, NEW c \in Conns, ClientStep(c)
    PROVE  TransferIInv'
<1> USE TransferAssumption DEF TransferIInv
<1>1. UNCHANGED <<connectionMap, dc, call, handed, granted, refused>>
    BY DEF ClientStep, Post, PassOn, connVars, tallies
<1>2. TrueIsEarned'
    BY <1>1, TrueIsStillEarned
<1>3. ASSUME NEW m \in unsent, Post(c, m) PROVE TransferIInv'
    <2>1. m \in Transfers
        BY DEF TransferTypeOK
    <2> DEFINE k == [msg |-> m, ttl |-> Ttl[m]]
    <2>2. /\ unsent' = unsent \ {m} /\ UNCHANGED inbox
          /\ outbox' = [outbox EXCEPT ![c] = @ \cup {k}]
        BY <1>3 DEF Post
    <2>3. k \in Copies /\ k.msg = m /\ k.ttl = Ttl[m]
        BY <2>1 DEF Copies
    <2> HIDE DEF k
    <2>4. TransferTypeOK' /\ RightSession'
        BY <1>1, <2>2, <2>3 DEF TransferTypeOK, RightSession
    <2>5. OneCopy'
        BY <1>1, <2>2, <2>3 DEF OneCopy, Mail, Flying, TransferTypeOK
    <2>6. TtlIsLeft'
        BY <1>1, <2>1, <2>2, <2>3 DEF TtlIsLeft, Mail, Flying, TransferTypeOK
    <2>7. FalseIsFinal'
        BY <1>1, <2>2, <2>3 DEF FalseIsFinal, Spent, Mail, Flying, TransferTypeOK
    <2> QED
        BY <1>2, <2>4, <2>5, <2>6, <2>7
<1>4. ASSUME NEW k \in inbox[c], PassOn(c, k) PROVE TransferIInv'
    <2>1. /\ inbox' = [inbox EXCEPT ![c] = @ \ {k}] /\ UNCHANGED unsent
          /\ outbox' = [outbox EXCEPT ![c] = @ \cup {k}]
        BY <1>4 DEF PassOn
    <2>2. k \in Copies /\ \A d \in Conns : Mail(d)' = Mail(d)
        BY <2>1 DEF Mail, TransferTypeOK
    <2>3. TransferTypeOK' /\ RightSession'
        BY <1>1, <2>1, <2>2 DEF TransferTypeOK, RightSession
    <2>4. \A d \in Conns : (outbox[d] \cap inbox[d])' = {}
        BY <2>1 DEF OneCopy, TransferTypeOK
    <2>5. OneCopy' /\ TtlIsLeft' /\ FalseIsFinal'
        BY <1>1, <2>1, <2>2, <2>4 DEF OneCopy, TtlIsLeft, FalseIsFinal, Spent, Flying
    <2> QED
        BY <1>2, <2>3, <2>5
<1> QED
    BY <1>3, <1>4 DEF ClientStep

\* A call takes one copy from its client, and drops it or keeps it.
LEMMA VerifyKeeps ==
    ASSUME TransferIInv, NEW c \in Conns, NEW k \in outbox[c], Verify(c, k)
    PROVE  TransferIInv'
<1> USE TransferAssumption DEF TransferIInv
<1>1. /\ outbox' = [outbox EXCEPT ![c] = @ \ {k}]
      /\ UNCHANGED <<connectionMap, dc, unsent, inbox, handed, granted, refused>>
    BY DEF Verify, connVars, tallies
<1>2. /\ k \in Copies /\ k \in Mail(c) /\ call[c] = Idle /\ ~Flying(c)
      /\ k.msg \notin unsent
      /\ \A d \in Conns : \A l \in Mail(d)' : l \in Mail(d) /\ l.msg # k.msg
      /\ \A d \in Conns : Flying(d) => call[d].copy.msg # k.msg
    BY <1>1 DEF Verify, TransferTypeOK, Mail, OneCopy, Flying, Idle
<1>3. \A d \in Conns : (outbox[d] \cap inbox[d])' = {}
    BY <1>1 DEF OneCopy, TransferTypeOK
<1>4. CASE UNCHANGED call
    <2>1. TransferTypeOK' /\ RightSession'
        BY <1>1, <1>4 DEF TransferTypeOK, RightSession
    <2>2. OneCopy' /\ TtlIsLeft' /\ FalseIsFinal'
        BY <1>1, <1>2, <1>3, <1>4 DEF OneCopy, TtlIsLeft, FalseIsFinal, Spent, Flying
    <2> QED
        BY <1>1, <1>4, <2>1, <2>2, TrueIsStillEarned
<1>5. CASE call' = [call EXCEPT ![c] = [pc |-> "reply", copy |-> k, result |-> FALSE]]
    <2>1. TransferTypeOK' /\ RightSession'
        BY <1>1, <1>2, <1>5 DEF TransferTypeOK, RightSession, Calls
    <2>2. \A d \in Conns : Flying(d)' => Flying(d) /\ call'[d] = call[d]
        BY <1>5 DEF Flying, TransferTypeOK
    <2>3. OneCopy' /\ TtlIsLeft'
        BY <1>1, <1>2, <1>3, <2>2 DEF OneCopy, TtlIsLeft
    <2>4. /\ \A m \in Transfers : Spent(m) => Spent(m)'
          /\ Spent(k.msg)'
        BY <1>1, <1>2, <2>2 DEF Spent
    <2>5. FalseIsFinal'
        <3>1. call'[c].copy.msg = k.msg /\ \A d \in Conns \ {c} : call'[d] = call[d]
            BY <1>5 DEF TransferTypeOK
        <3>2. \A d \in Conns : call'[d].pc = "reply" /\ ~call'[d].result =>
                 \/ call'[d] = call[d]
                 \/ \E m \in Transfers : call'[d].copy.msg = m /\ Spent(m)'
            BY <1>2, <2>4, <3>1 DEF Copies
        <3>3. \A m \in refused' : m \in refused \/ (m \in Transfers /\ Spent(m)')
            BY <1>1
        <3> QED
            BY <2>4, <3>2, <3>3, FalseStaysFinal
    <2>6. \A m \in Transfers : Granting(m)' = Granting(m)
        BY <1>2, <1>5 DEF Granting, TransferTypeOK, Idle
    <2> QED
        BY <1>1, <2>1, <2>3, <2>5, <2>6 DEF TrueIsEarned
<1>6. CASE ~Exhausted(k) /\ call' = [call EXCEPT ![c] = [pc |-> "find", copy |-> k]]
    <2>1. TransferTypeOK' /\ RightSession'
        BY <1>1, <1>2, <1>6 DEF TransferTypeOK, RightSession, Calls
    <2>2. /\ Flying(c)' /\ call'[c].copy = k /\ k.ttl > 0
          /\ \A d \in Conns \ {c} : call'[d] = call[d]
        BY <1>2, <1>6 DEF Flying, TransferTypeOK, Exhausted, Copies
    <2>3. OneCopy'
        BY <1>1, <1>2, <1>3, <2>2 DEF OneCopy, Flying
    <2>4. TtlIsLeft'
        BY <1>1, <1>2, <2>2 DEF TtlIsLeft, Flying
    <2>5. \A m \in Transfers : Spent(m) => Spent(m)'
        BY <1>1, <1>2, <2>2 DEF Spent, Flying
    <2>6. call'[c].pc # "reply"
        BY <1>6 DEF TransferTypeOK
    <2>7. FalseIsFinal'
        <3>1. \A d \in Conns : call'[d].pc = "reply" /\ ~call'[d].result =>
                 \/ call'[d] = call[d]
                 \/ \E m \in Transfers : call'[d].copy.msg = m /\ Spent(m)'
            BY <2>2, <2>6
        <3>2. \A m \in refused' : m \in refused \/ (m \in Transfers /\ Spent(m)')
            BY <1>1
        <3> QED
            BY <2>5, <3>1, <3>2, FalseStaysFinal
    <2>8. \A m \in Transfers : Granting(m)' = Granting(m)
        BY <1>2, <2>2, <2>6 DEF Granting, Idle
    <2> QED
        BY <1>1, <2>1, <2>3, <2>4, <2>7, <2>8 DEF TrueIsEarned
<1> QED
    BY <1>4, <1>5, <1>6 DEF Verify, CallGoto

Rest == <<connectionMap, dc, unsent, outbox, inbox, handed, granted>>

\* A call that is over its copy ends it: with the answer false, or without any.
LEMMA CopyEnds ==
    ASSUME TransferIInv, NEW c \in Conns, Flying(c), UNCHANGED <<Rest, refused>>,
           \/ call' = [call EXCEPT ![c] = Idle]
           \/ call' = [call EXCEPT ![c] =
                         [pc |-> "reply", copy |-> call[c].copy, result |-> FALSE]]
    PROVE  TransferIInv'
<1> USE TransferAssumption DEF TransferIInv
<1> DEFINE k == call[c].copy
<1>1. k \in Copies /\ k.msg \in Transfers
    BY DEF Flying, TransferTypeOK, Calls, Copies, Idle
<1>2. /\ call'[c].pc \in {"idle", "reply"}
      /\ call'[c].pc = "reply" => ~call'[c].result /\ call'[c].copy = k
      /\ \A d \in Conns \ {c} : call'[d] = call[d]
    BY DEF TransferTypeOK, Idle
<1>3. \A d \in Conns : Flying(d)' => d # c /\ Flying(d) /\ call'[d] = call[d]
    BY <1>2 DEF Flying
<1>4. \A d \in Conns : Mail(d)' = Mail(d)
    BY DEF Mail, Rest
<1>5. TransferTypeOK'
    <2>1. Idle \in Calls /\ [pc |-> "reply", copy |-> k, result |-> FALSE] \in Calls
        BY <1>1 DEF Calls
    <2>2. call' \in [Conns -> Calls]
        BY <2>1 DEF TransferTypeOK
    <2> QED
        BY <2>2 DEF TransferTypeOK, Rest
<1>6. RightSession'
    BY <1>3 DEF RightSession, Rest, Flying
<1>7. OneCopy' /\ TtlIsLeft'
    BY <1>3, <1>4 DEF OneCopy, TtlIsLeft, Rest
<1>8. \A m \in Transfers : Spent(m) => Spent(m)'
    BY <1>3, <1>4 DEF Spent, Rest
<1>9. \E m \in Transfers : k.msg = m /\ Spent(m)'
    <2>1. PICK m \in Transfers : k.msg = m
        BY <1>1
    <2>2. Spent(m)'
        BY <1>3, <1>4, <2>1 DEF OneCopy, Spent, Rest
    <2> QED
        BY <2>1, <2>2
<1>10. \A d \in Conns : call'[d].pc = "reply" /\ ~call'[d].result =>
          \/ call'[d] = call[d]
          \/ \E m \in Transfers : call'[d].copy.msg = m /\ Spent(m)'
    BY <1>1, <1>2, <1>9
<1>11. \A m \in refused' : m \in refused \/ (m \in Transfers /\ Spent(m)')
    OBVIOUS
<1>12. FalseIsFinal'
    BY <1>8, <1>10, <1>11, FalseStaysFinal
<1>13. \A m \in Transfers : Granting(m)' = Granting(m)
    BY <1>2 DEF Granting, Flying
<1>14. TrueIsEarned'
    BY <1>13 DEF TrueIsEarned, Rest
<1> QED
    BY <1>5, <1>6, <1>7, <1>12, <1>14

\* The addressee is a connection of the right session, or there is none.
LEMMA FindKeeps ==
    ASSUME TransferIInv, NEW c \in Conns, FindAddressee(c)
    PROVE  TransferIInv'
<1> USE TransferAssumption
<1> DEFINE k == call[c].copy
<1> DEFINE a == Addressee(c, k)
<1>1. UNCHANGED <<Rest, refused>> /\ Flying(c) /\ call[c].pc = "find"
    BY DEF FindAddressee, connVars, mailVars, tallies, Rest, Flying
<1>2. CASE a = Null
    BY <1>1, <1>2, CopyEnds DEF FindAddressee, CallGoto
<1>3. CASE a # Null
    <2> USE DEF TransferIInv
    <2>1. call' = [call EXCEPT ![c] = [pc |-> "send", copy |-> k, dest |-> a]]
        BY <1>3 DEF FindAddressee, CallGoto
    <2>2. k \in Copies /\ k.msg \in Transfers
        BY <1>1 DEF TransferTypeOK, Calls, Copies, Idle
    <2>3. a \in Conns /\ SessionOf[a] = To[k.msg]
        BY <1>3, <2>2, ZenonT(40) DEF TransferTypeOK, RightSession, Addressee
    <2> HIDE DEF k, a
    <2>4. /\ call'[c] = [pc |-> "send", copy |-> k, dest |-> a]
          /\ \A d \in Conns \ {c} : call'[d] = call[d]
        BY <2>1 DEF TransferTypeOK
    <2>5. call'[c].copy = call[c].copy
        BY <2>4 DEF k
    <2>6. \A d \in Conns : (Flying(d)' <=> Flying(d)) /\ call'[d].copy = call[d].copy
        BY <1>1, <2>4, <2>5 DEF Flying
    <2>7. \A d \in Conns : Mail(d)' = Mail(d)
        BY <1>1 DEF Mail, Rest
    <2>8. TransferTypeOK'
        BY <1>1, <2>1, <2>2, <2>3 DEF TransferTypeOK, Calls, Rest
    <2>9. RightSession'
        BY <1>1, <2>3, <2>4 DEF RightSession, Rest
    <2>10. OneCopy' /\ TtlIsLeft'
        BY <1>1, <2>6, <2>7 DEF OneCopy, TtlIsLeft, Rest
    <2>11. \A m \in Transfers : Spent(m) => Spent(m)'
        BY <1>1, <2>6, <2>7 DEF Spent, Rest
    <2>12. \A d \in Conns : call'[d].pc = "reply" /\ ~call'[d].result =>
              \/ call'[d] = call[d]
              \/ \E m \in Transfers : call'[d].copy.msg = m /\ Spent(m)'
        BY <2>4
    <2>13. \A m \in refused' : m \in refused \/ (m \in Transfers /\ Spent(m)')
        BY <1>1
    <2>14. FalseIsFinal'
        BY <2>11, <2>12, <2>13, FalseStaysFinal
    <2>15. \A m \in Transfers : Granting(m)' = Granting(m)
        BY <1>1, <2>4 DEF Granting
    <2>16. TrueIsEarned'
        BY <1>1, <2>15 DEF TrueIsEarned, Rest
    <2> QED
        BY <2>8, <2>9, <2>10, <2>14, <2>16
<1> QED
    BY <1>2, <1>3

\* A copy that is handed over has one hop less, and the answer true is due.
LEMMA SendKeeps ==
    ASSUME TransferIInv, NEW c \in Conns, Send(c)
    PROVE  TransferIInv'
<1> USE TransferAssumption
<1>1. Flying(c) /\ call[c].pc = "send" /\ UNCHANGED <<connectionMap, dc, unsent, outbox, granted, refused>>
    BY DEF Send, connVars, Flying
<1> USE DEF TransferIInv
<1>2. PICK k \in Copies, a \in Conns, m \in Transfers :
         /\ k = call[c].copy /\ a = call[c].dest /\ m = k.msg
         /\ SessionOf[a] = To[m] /\ dc[a] \in {"none", "open", "closed"}
    BY <1>1 DEF TransferTypeOK, Calls, Copies, Idle, RightSession
<1>3. CASE dc[a] # "open"
    <2>1. UNCHANGED <<Rest, refused>>
        BY <1>1, <1>2, <1>3 DEF Send, Rest
    <2>2. \/ call' = [call EXCEPT ![c] = Idle]
          \/ call' = [call EXCEPT ![c] = [pc |-> "reply", copy |-> k, result |-> FALSE]]
        BY <1>2, <1>3 DEF Send, CallGoto, SendResult
    <2> QED
        BY <1>1, <1>2, <2>1, <2>2, CopyEnds
<1>4. CASE dc[a] = "open"
    <2> DEFINE f == Forwarded(k)
    <2>1. k.ttl \in Nat /\ k.ttl > 0 /\ k.ttl + handed[m] <= Ttl[m] /\ handed[m] \in Nat
          /\ Ttl[m] \in Nat
        BY <1>1, <1>2 DEF TtlIsLeft, TransferTypeOK, Copies
    <2>2. f \in Copies /\ f.msg = m /\ f.ttl = k.ttl - 1
        BY <1>2, <2>1 DEF Forwarded, Copies
    <2>3. /\ call' = [call EXCEPT ![c] = [pc |-> "reply", copy |-> k, result |-> TRUE]]
          /\ inbox' = [inbox EXCEPT ![a] = @ \cup {f}]
          /\ handed' = [handed EXCEPT ![m] = @ + 1]
        <3>1. call' = [call EXCEPT ![c] = [pc |-> "reply", copy |-> k, result |-> TRUE]]
            BY <1>2, <1>4 DEF Send, CallGoto, SendResult
        <3>2. inbox' = [inbox EXCEPT ![a] = @ \cup {f}]
            BY <1>2, <1>4 DEF Send
        <3>3. handed' = [handed EXCEPT ![m] = IF @ > Ttl[m] THEN @ ELSE @ + 1]
            BY <1>2, <1>4 DEF Send
        <3>4. ~(handed[m] > Ttl[m])
            BY <2>1
        <3> QED
            BY <3>1, <3>2, <3>3, <3>4
    <2> HIDE DEF f
    <2>4. /\ call'[c] = [pc |-> "reply", copy |-> k, result |-> TRUE]
          /\ \A d \in Conns \ {c} : call'[d] = call[d]
          /\ inbox'[a] = inbox[a] \cup {f}
          /\ \A d \in Conns \ {a} : inbox'[d] = inbox[d]
          /\ handed'[m] = handed[m] + 1
          /\ \A n \in Transfers \ {m} : handed'[n] = handed[n]
        BY <2>3 DEF TransferTypeOK
    <2>5. \A d \in Conns : Flying(d)' => d # c /\ Flying(d) /\ call'[d] = call[d]
                                         /\ call[d].copy.msg # m
        BY <1>1, <1>2, <2>4 DEF Flying, OneCopy
    <2>6. \A d \in Conns : \A l \in Mail(d) : l \in Copies /\ l.msg # m /\ l.msg \in Transfers
        BY <1>1, <1>2 DEF OneCopy, Mail, TransferTypeOK, Copies
    <2>7. \A d \in Conns : Mail(d)' = IF d = a THEN Mail(d) \cup {f} ELSE Mail(d)
        BY <1>1, <2>4 DEF Mail
    <2>8. m \notin unsent /\ unsent' = unsent
        BY <1>1, <1>2 DEF OneCopy
    <2>9. TransferTypeOK'
        <3>1. [pc |-> "reply", copy |-> k, result |-> TRUE] \in Calls
            BY DEF Calls
        <3> QED
            BY <1>1, <2>1, <2>2, <2>3, <3>1 DEF TransferTypeOK
    <2>10. RightSession'
        BY <1>1, <1>2, <2>2, <2>4 DEF RightSession
    <2>11. OneCopy'
        <3>1. \A d \in Conns : (outbox[d] \cap inbox[d])' = {}
            BY <1>1, <2>2, <2>4, <2>6 DEF OneCopy, Mail
        <3>2. \A d \in Conns : \A l \in Mail(d)' : l.msg \notin unsent
            BY <2>2, <2>7, <2>8 DEF OneCopy
        <3>3. \A d, e \in Conns : \A l \in Mail(d)', o \in Mail(e)' :
                 l.msg = o.msg => d = e /\ l = o
            BY <2>2, <2>6, <2>7 DEF OneCopy
        <3>4. \A d, e \in Conns : \A l \in Mail(e)' : Flying(d)' => call'[d].copy.msg # l.msg
            BY <2>2, <2>5, <2>7 DEF OneCopy
        <3>5. \A d \in Conns : Flying(d)' => call'[d].copy.msg \notin unsent
            BY <2>5 DEF OneCopy
        <3>6. \A d, e \in Conns :
                 Flying(d)' /\ Flying(e)' /\ call'[d].copy.msg = call'[e].copy.msg => d = e
            BY <2>5 DEF OneCopy
        <3> QED
            BY <2>8, <3>1, <3>2, <3>3, <3>4, <3>5, <3>6 DEF OneCopy
    <2>12. TtlIsLeft'
        <3>1. \A n \in Transfers : handed'[n] <= Ttl[n] /\ (n \in unsent => handed'[n] = 0)
            BY <2>1, <2>4, <2>8 DEF TtlIsLeft
        <3>2. \A d \in Conns : \A l \in Mail(d)' : l.ttl + handed'[l.msg] <= Ttl[l.msg]
            BY <2>1, <2>2, <2>4, <2>6, <2>7 DEF TtlIsLeft
        <3>3. ASSUME NEW d \in Conns, Flying(d)'
              PROVE  /\ call'[d].copy.ttl > 0
                     /\ call'[d].copy.ttl + handed'[call'[d].copy.msg]
                          <= Ttl[call'[d].copy.msg]
            <4>1. call[d].copy.msg \in Transfers
                BY <2>5, <3>3 DEF Flying, TransferTypeOK, Calls, Copies, Idle
            <4> QED
                BY <2>4, <2>5, <3>3, <4>1 DEF TtlIsLeft
        <3> QED
            BY <2>8, <3>1, <3>2, <3>3 DEF TtlIsLeft
    <2>13. ~Spent(m)
        BY <1>1, <1>2 DEF Spent
    <2>14. \A n \in Transfers : Spent(n) => Spent(n)'
        BY <2>2, <2>5, <2>7, <2>8, <2>13 DEF Spent
    <2>15. \A d \in Conns : call'[d].pc = "reply" /\ ~call'[d].result =>
              \/ call'[d] = call[d]
              \/ \E n \in Transfers : call'[d].copy.msg = n /\ Spent(n)'
        BY <2>4
    <2>16. \A n \in refused' : n \in refused \/ (n \in Transfers /\ Spent(n)')
        BY <1>1
    <2>17. FalseIsFinal'
        BY <2>14, <2>15, <2>16, FalseStaysFinal
    <2>18. TrueIsEarned'
        <3>1. /\ Granting(m)' = Granting(m) \cup {c} /\ c \notin Granting(m)
              /\ \A n \in Transfers \ {m} : Granting(n)' = Granting(n)
            BY <1>1, <1>2, <2>4 DEF Granting
        <3>2. Cardinality(Granting(m)') = Cardinality(Granting(m)) + 1
            BY <3>1, GrantingFinite, FS_AddElement
        <3>3. granted' = granted /\ granted[m] \in Nat /\ Cardinality(Granting(m)) \in Nat
            BY <1>1, GrantingFinite DEF TransferTypeOK
        <3>4. granted'[m] + Cardinality(Granting(m)') <= handed'[m]
            BY <2>1, <2>4, <3>2, <3>3 DEF TrueIsEarned
        <3>5. \A n \in Transfers \ {m} :
                 granted'[n] + Cardinality(Granting(n)') <= handed'[n]
            BY <2>4, <3>1, <3>3 DEF TrueIsEarned
        <3> QED
            BY <3>4, <3>5 DEF TrueIsEarned
    <2> QED
        BY <2>9, <2>10, <2>11, <2>12, <2>17, <2>18
<1> QED
    BY <1>3, <1>4

\* An answer reaches its client, or is lost with the channel.
LEMMA ReplyKeeps ==
    ASSUME TransferIInv, NEW c \in Conns, Reply(c)
    PROVE  TransferIInv'
<1> USE TransferAssumption DEF TransferIInv
<1>1. /\ call[c].pc = "reply" /\ call' = [call EXCEPT ![c] = Idle]
      /\ UNCHANGED <<connectionMap, dc, unsent, outbox, inbox, handed>>
    BY DEF Reply, CallGoto, connVars, mailVars
<1>2. PICK m \in Transfers : m = call[c].copy.msg /\ call[c].result \in BOOLEAN
    BY <1>1 DEF TransferTypeOK, Calls, Copies, Idle
<1>3. call'[c] = Idle /\ \A d \in Conns \ {c} : call'[d] = call[d]
    BY <1>1 DEF TransferTypeOK
<1>4. \A d \in Conns : Flying(d)' <=> Flying(d)
    BY <1>1, <1>3 DEF Flying, Idle
<1>5. \A d \in Conns : Flying(d) => call'[d] = call[d]
    BY <1>1, <1>3 DEF Flying
<1>6. \A d \in Conns : Mail(d)' = Mail(d)
    BY <1>1 DEF Mail
<1>7. /\ granted' \in [Transfers -> Nat] /\ refused' \subseteq Transfers
      /\ \A n \in Transfers \ {m} : granted'[n] = granted[n]
      /\ granted'[m] # granted[m] => granted'[m] = granted[m] + 1 /\ call[c].result
      /\ refused' # refused => refused' = refused \cup {m} /\ ~call[c].result
    BY <1>2 DEF Reply, TransferTypeOK
<1>8. TransferTypeOK'
    <2>1. call' \in [Conns -> Calls]
        BY <1>1 DEF TransferTypeOK, Calls
    <2> QED
        BY <1>1, <1>7, <2>1 DEF TransferTypeOK
<1>9. RightSession'
    BY <1>1, <1>3 DEF RightSession, Idle
<1>10. OneCopy' /\ TtlIsLeft'
    BY <1>1, <1>4, <1>5, <1>6 DEF OneCopy, TtlIsLeft
<1>11. \A n \in Transfers : Spent(n) => Spent(n)'
    BY <1>1, <1>4, <1>5, <1>6 DEF Spent
<1>12. FalseIsFinal'
    <2>1. \A d \in Conns : call'[d].pc = "reply" /\ ~call'[d].result =>
             \/ call'[d] = call[d]
             \/ \E n \in Transfers : call'[d].copy.msg = n /\ Spent(n)'
        BY <1>3 DEF Idle
    <2>2. ~call[c].result => Spent(m)'
        BY <1>1, <1>2, <1>11 DEF FalseIsFinal
    <2>3. \A n \in refused' : n \in refused \/ (n \in Transfers /\ Spent(n)')
        BY <1>7, <2>2
    <2> QED
        BY <1>11, <2>1, <2>3, FalseStaysFinal
<1>13. TrueIsEarned'
    <2>1. \A n \in Transfers \ {m} : Granting(n)' = Granting(n)
        BY <1>1, <1>2, <1>3 DEF Granting, Idle
    <2>2. \A n \in Transfers \ {m} : granted'[n] + Cardinality(Granting(n)') <= handed'[n]
        BY <1>1, <1>7, <2>1 DEF TrueIsEarned
    <2>3. /\ granted[m] \in Nat /\ handed[m] \in Nat /\ Cardinality(Granting(m)) \in Nat
          /\ IsFiniteSet(Granting(m))
          /\ granted[m] + Cardinality(Granting(m)) <= handed[m]
        BY GrantingFinite DEF TrueIsEarned, TransferTypeOK
    <2>4. CASE call[c].result
        <3>1. Granting(m)' = Granting(m) \ {c} /\ c \in Granting(m)
            BY <1>1, <1>2, <1>3, <2>4 DEF Granting, Idle
        <3>2. Cardinality(Granting(m)') = Cardinality(Granting(m)) - 1
            BY <2>3, <3>1, FS_RemoveElement
        <3>3. granted'[m] <= granted[m] + 1 /\ granted'[m] \in Nat
            BY <1>7, <2>3
        <3>4. granted'[m] + Cardinality(Granting(m)') <= handed'[m]
            BY <1>1, <2>3, <3>2, <3>3
        <3> QED
            BY <2>2, <3>4 DEF TrueIsEarned
    <2>5. CASE ~call[c].result
        <3>1. Granting(m)' = Granting(m)
            BY <1>1, <1>2, <1>3, <2>5 DEF Granting, Idle
        <3>2. granted'[m] = granted[m]
            BY <1>7, <2>5
        <3> QED
            BY <1>1, <2>2, <2>3, <3>1, <3>2 DEF TrueIsEarned
    <2> QED
        BY <2>4, <2>5
<1> QED
    BY <1>8, <1>9, <1>10, <1>12, <1>13

\* Every step keeps the invariant.
LEMMA TransferStep == TransferIInv /\ [Next]_vars => TransferIInv'
<1> SUFFICES ASSUME TransferIInv, [Next]_vars PROVE TransferIInv'
    OBVIOUS
<1>1. ASSUME NEW c \in Conns, ConnStep(c) PROVE TransferIInv'
    BY <1>1, ConnKeeps
<1>2. ASSUME NEW c \in Conns, ClientStep(c) PROVE TransferIInv'
    BY <1>2, ClientKeeps
<1>3. ASSUME NEW c \in Conns, ServerStep(c) PROVE TransferIInv'
    BY <1>3, VerifyKeeps, FindKeeps, SendKeeps, ReplyKeeps DEF ServerStep
<1>4. CASE UNCHANGED vars
    <2>1. UNCHANGED <<connectionMap, dc, unsent, outbox, inbox, call, handed, granted, refused>>
        BY <1>4 DEF vars
    <2> QED
        BY <2>1 DEF TransferIInv, TransferTypeOK, RightSession, OneCopy, TtlIsLeft,
                    FalseIsFinal, TrueIsEarned, Spent, Mail, Flying, Granting
<1> QED
    BY <1>1, <1>2, <1>3, <1>4 DEF Next

\* However often it is sent back, a message is handed over no more often than
\* its first ttl, and only to connections of its addressee.
THEOREM HopsAreBounded == Spec => []HandedWithinTtl
<1>1. TransferIInv => HandedWithinTtl
    BY DEF TransferIInv, TtlIsLeft, RightSession, HandedWithinTtl, Mail
<1> QED
    BY <1>1, TransferInitial, TransferStep, PTL DEF Spec

\* True is answered no more often than a message was handed over, and after
\* false no copy of it turns up late.
THEOREM AnswersAreTrue == Spec => []AnswersAreRight
<1>1. TransferIInv => AnswersAreRight
    BY DEF TransferIInv, TrueIsEarned, FalseIsFinal, AnswersAreRight, Granting,
           Spent, Mail, Flying
<1> QED
    BY <1>1, TransferInitial, TransferStep, PTL DEF Spec
===============================================================================
