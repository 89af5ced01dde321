------------------------------ MODULE Transfer ------------------------------
(***************************************************************************)
(* Signed messages that one client has the server hand to another:         *)
(* on_rtc_message, on_swarm_message and transfer (rtc_api.rs, swarm.rs),   *)
(* down to the data channel of the addressee.                              *)
(*                                                                         *)
(* A member of Conns is one ClientData.  The registry is reduced to the    *)
(* connection a session has: how it gets in and out of the map is module   *)
(* Registry, and how its channel comes and goes module Entrance.  Clients  *)
(* are outside the repository: the model lets one send each message once,  *)
(* and send back to the server any message the server has handed to it.    *)
(***************************************************************************)
EXTENDS Naturals, FiniteSets

CONSTANTS
    Sessions, Conns, SessionOf,  \* SessionOf[c] is the session of ClientData c
    Transfers,                   \* the messages, each sent by its From ...
    From, To, Ttl,               \* ... to the session To, with a first ttl
    Genuine,                     \* the messages whose signature verifies
    Null

ASSUME TransferAssumption ==
    /\ IsFiniteSet(Conns)
    /\ SessionOf \in [Conns -> Sessions]
    /\ From \in [Transfers -> Sessions]
    /\ To \in [Transfers -> Sessions]
    /\ Ttl \in [Transfers -> Nat]
    /\ Genuine \subseteq Transfers
    /\ Null \notin Conns

VARIABLES
    connectionMap,  \* the ClientData a session has
    used,           \* the ClientData there have been
    dc,             \* the data channel of c: none yet, open or closed
    unsent,         \* messages their client has not sent
    outbox,         \* copies [msg, ttl] on their way from c to the server
    inbox,          \* copies handed to c
    call,           \* the on_message call of c
    handed,         \* how often m was handed over, counted to Ttl[m] + 1
    granted,        \* how often the answer was true
    refused         \* messages a client was told were not handed over

vars == <<connectionMap, used, dc, unsent, outbox, inbox, call, handed,
          granted, refused>>
connVars == <<connectionMap, used, dc>>
mailVars == <<unsent, outbox, inbox>>
tallies == <<handed, granted, refused>>

Idle == [pc |-> "idle"]

Init ==
    /\ connectionMap = [s \in Sessions |-> Null]
    /\ used = {}
    /\ dc = [c \in Conns |-> "none"]
    /\ unsent = Transfers
    /\ outbox = [c \in Conns |-> {}]
    /\ inbox = [c \in Conns |-> {}]
    /\ call = [c \in Conns |-> Idle]
    /\ handed = [m \in Transfers |-> 0]
    /\ granted = [m \in Transfers |-> 0]
    /\ refused = {}

-----------------------------------------------------------------------------
(* Connections                                                             *)

Connect(c) ==
    /\ c \notin used
    /\ connectionMap[SessionOf[c]] = Null
    /\ used' = used \cup {c}
    /\ connectionMap' = [connectionMap EXCEPT ![SessionOf[c]] = c]
    /\ UNCHANGED <<dc, mailVars, call, tallies>>

SetDc(c) ==
    /\ connectionMap[SessionOf[c]] = c
    /\ dc[c] = "none"
    /\ dc' = [dc EXCEPT ![c] = "open"]
    /\ UNCHANGED <<connectionMap, used, mailVars, call, tallies>>

Remove(c) ==
    /\ connectionMap[SessionOf[c]] = c
    /\ connectionMap' = [connectionMap EXCEPT ![SessionOf[c]] = Null]
    /\ UNCHANGED <<used, dc, mailVars, call, tallies>>

\* The channel ends, by the client or by dispose(): what is on it is lost.
CloseDc(c) ==
    /\ dc[c] = "open"
    /\ dc' = [dc EXCEPT ![c] = "closed"]
    /\ outbox' = [outbox EXCEPT ![c] = {}]
    /\ inbox' = [inbox EXCEPT ![c] = {}]
    /\ UNCHANGED <<connectionMap, used, unsent, call, tallies>>

-----------------------------------------------------------------------------
(* The clients                                                             *)

Post(c, m) ==
    /\ dc[c] = "open"
    /\ m \in unsent /\ From[m] = SessionOf[c]
    /\ unsent' = unsent \ {m}
    /\ outbox' = [outbox EXCEPT ![c] = @ \cup {[msg |-> m, ttl |-> Ttl[m]]}]
    /\ UNCHANGED <<connVars, inbox, call, tallies>>

PassOn(c, k) ==
    /\ dc[c] = "open"
    /\ k \in inbox[c]
    /\ inbox' = [inbox EXCEPT ![c] = @ \ {k}]
    /\ outbox' = [outbox EXCEPT ![c] = @ \cup {k}]
    /\ UNCHANGED <<connVars, unsent, call, tallies>>

-----------------------------------------------------------------------------
(* The server: one on_message call                                         *)

CallGoto(c, to) == call' = [call EXCEPT ![c] = to]

ExhaustedNever(k) == FALSE  \* mutant
Exhausted(k) == k.ttl < 1

\* A removed connection may be muted by dispose() already, or not yet.
Removed(c) == connectionMap[SessionOf[c]] # c

\* _transfer down to the ttl.  A bad signature is an error: it is logged and
\* the client gets no answer.
Verify(c, k) ==
    /\ call[c] = Idle
    /\ dc[c] = "open"
    /\ k \in outbox[c]
    /\ outbox' = [outbox EXCEPT ![c] = @ \ {k}]
    /\ \/ (Removed(c) \/ k.msg \notin Genuine) /\ UNCHANGED call
       \/ /\ k.msg \in Genuine /\ Exhausted(k)
          /\ CallGoto(c, [pc |-> "reply", copy |-> k, result |-> FALSE])
       \/ /\ k.msg \in Genuine /\ ~Exhausted(k)
          /\ CallGoto(c, [pc |-> "find", copy |-> k])
    /\ UNCHANGED <<connVars, unsent, inbox, tallies>>

Addressee(c, k) == connectionMap[To[k.msg]]

\* State::send_rpc_response: get_connection, without a lock after it.
FindAddressee(c) ==
    /\ call[c].pc = "find"
    /\ LET k == call[c].copy
           d == Addressee(c, k) IN
       CallGoto(c, IF d = Null
                   THEN [pc |-> "reply", copy |-> k, result |-> FALSE]
                   ELSE [pc |-> "send", copy |-> k, dest |-> d])
    /\ UNCHANGED <<connVars, mailVars, tallies>>

ForwardedUnchanged(k) == k  \* mutant
Forwarded(k) == [k EXCEPT !.ttl = @ - 1]

ResultTrue(d) == TRUE       \* mutant: no channel counts as sent
SendResult(d) == dc[d] # "none"

\* ClientData::send_rpc_response of the addressee: false without a channel,
\* an error, and so no answer, if the channel is closed.
Send(c) ==
    /\ call[c].pc = "send"
    /\ LET k == call[c].copy
           d == call[c].dest
           m == k.msg IN
       /\ CallGoto(c, IF dc[d] = "closed" THEN Idle
                      ELSE [pc |-> "reply", copy |-> k,
                            result |-> SendResult(d)])
       /\ IF dc[d] = "open"
          THEN /\ inbox' = [inbox EXCEPT ![d] = @ \cup {Forwarded(k)}]
               /\ handed' = [handed EXCEPT ![m] = IF @ > Ttl[m] THEN @ ELSE @ + 1]
          ELSE UNCHANGED <<inbox, handed>>
    /\ UNCHANGED <<connVars, unsent, outbox, granted, refused>>

\* The answer goes to the ClientData the request came from.
Reply(c) ==
    /\ call[c].pc = "reply"
    /\ CallGoto(c, Idle)
    /\ LET m == call[c].copy.msg IN
       IF dc[c] # "open" THEN UNCHANGED <<granted, refused>>
       ELSE IF call[c].result
            THEN /\ granted' = [granted EXCEPT ![m] =
                                  IF @ > Ttl[m] THEN @ ELSE @ + 1]
                 /\ UNCHANGED refused
            ELSE refused' = refused \cup {m} /\ UNCHANGED granted
    /\ UNCHANGED <<connVars, mailVars, handed>>

-----------------------------------------------------------------------------
ConnStep(c) == Connect(c) \/ SetDc(c) \/ Remove(c) \/ CloseDc(c)
ClientStep(c) ==
    (\E m \in unsent : Post(c, m)) \/ (\E k \in inbox[c] : PassOn(c, k))
ServerStep(c) ==
    \/ \E k \in outbox[c] : Verify(c, k)
    \/ FindAddressee(c) \/ Send(c) \/ Reply(c)

Next == \E c \in Conns : ConnStep(c) \/ ClientStep(c) \/ ServerStep(c)

Spec == Init /\ [][Next]_vars

\* Callbacks and their tasks run; clients and connections do as they like.
FairSpec == Spec /\ \A c \in Conns : WF_vars(ServerStep(c))

-----------------------------------------------------------------------------
(* Properties                                                              *)

\* The ttl is the largest number of hops (swarm.proto:27): however often its
\* receivers send it back, over however many connections, a message is handed
\* over no more often, and only ever to connections of its addressee.
HandedWithinTtl ==
    \A m \in Transfers :
        /\ handed[m] <= Ttl[m]
        /\ \A c \in Conns : \A k \in inbox[c] :
              k.msg = m => SessionOf[c] = To[m] /\ k.ttl + handed[m] <= Ttl[m]

\* Across calls, reconnections and closed channels, the answer true is given
\* (or about to be) no more often than the message was handed over, and after
\* the answer false no copy is left that could turn up late.
AnswersAreRight ==
    \A m \in Transfers :
        /\ granted[m] + Cardinality({c \in Conns :
              /\ call[c].pc = "reply" /\ call[c].result
              /\ call[c].copy.msg = m}) <= handed[m]
        /\ m \in refused =>
              \A c \in Conns :
                 /\ \A k \in outbox[c] \cup inbox[c] : k.msg # m
                 /\ call[c].pc \in {"find", "send"} => call[c].copy.msg # m

\* No message circulates for ever between the server and clients that send
\* it back each time.
CirculationEnds ==
    \A m \in Genuine :
        <>[]~\E c \in Conns :
              call[c].pc \in {"find", "send"} /\ call[c].copy.msg = m

=============================================================================
