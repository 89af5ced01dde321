----------------------------- MODULE PartsProofs -----------------------------
(***************************************************************************)
(* Proofs about the small components MCParts checks beside one another:    *)
(* what a packet's param becomes, under which url a request is registered, *)
(* in which order jobs start, what the meter shows, and who is woken when  *)
(* a future is finished.                                                   *)
(***************************************************************************)
EXTENDS Packet, RequestUrl, ThrottleJobRunner, BandWidth, SignalFuture, TLAPS

-----------------------------------------------------------------------------
(* Packet: params survive, however often they can be compressed            *)

Sendable == [kind : Kinds, param : Params]

\* mark is what is_compressed was when the param was set.  A packet with the
\* mark is not compressed again; one without it holds the param as it was set,
\* or compressed once and marked since.
Holds(p) ==
    \/ p.data = sent /\ p.isCompressed = marked
    \/ /\ sent \in Sendable
       /\ p.data = [sent EXCEPT !.param = Compress(@)] /\ p.isCompressed /\ ~marked

\* What has been encoded, and not been replaced since, is as the packet was
\* then.
PacketIInv ==
    /\ sent \in Sendable \cup {NoData}
    /\ marked \in BOOLEAN
    /\ packet \in [data : {packet.data}, isCompressed : BOOLEAN]
    /\ Holds(packet)
    /\ wire # NoData => Holds(wire)
    /\ ParamSurvives

\* decompress undoes compress.
LEMMA DecompressCompress ==
    ASSUME NEW param \in Params
    PROVE  IsStream(Compress(param)) /\ Decompress(Compress(param)) = param
BY PacketAssumption DEF Params, Compress, Decompress, IsStream

\* So does decode_packet, for the param of what is sent.
LEMMA UnzipZip ==
    ASSUME NEW d \in Sendable
    PROVE  LET c == [d EXCEPT !.param = Compress(@)]
           IN  IsStream(c.param) /\ [c EXCEPT !.param = Decompress(@)] = d
<1>1. d.param \in Params
    BY DEF Sendable
<1>2. IsStream(Compress(d.param)) /\ Decompress(Compress(d.param)) = d.param
    BY <1>1, DecompressCompress
<1> QED
    BY <1>2 DEF Sendable

\* A new packet holds nothing.
LEMMA PacketInitial == PacketInit => PacketIInv
<1> SUFFICES ASSUME PacketInit PROVE PacketIInv
    OBVIOUS
<1>1. Holds(packet)
    BY DEF PacketInit, Holds
<1> QED
    BY <1>1 DEF PacketInit, PacketIInv, ParamSurvives

\* encode_packet compresses what is unmarked, and so once.
LEMMA EncodeHolds == PacketIInv /\ EncodePacket => PacketIInv'
<1> SUFFICES ASSUME PacketIInv, EncodePacket PROVE PacketIInv'
    OBVIOUS
<1>1. CASE IsEncodable(packet) /\ GetsShorter(packet.data.param)
    <2>1. packet.data = sent /\ sent # NoData /\ ~marked
        BY <1>1 DEF PacketIInv, Holds, IsEncodable
    <2>2. packet' = [data |-> [sent EXCEPT !.param = Compress(@)], isCompressed |-> TRUE]
        BY <1>1, <2>1 DEF EncodePacket
    <2>3. /\ packet'.data = [sent EXCEPT !.param = Compress(@)]
          /\ packet'.isCompressed = TRUE
        BY <2>2
    <2>4. sent \in Sendable /\ UNCHANGED <<sent, marked>> /\ wire' = packet' /\ arrived' = NoData
        BY <2>1 DEF EncodePacket, PacketIInv
    <2>5. Holds(packet)' /\ Holds(wire)' /\ ParamSurvives'
        BY <2>1, <2>3, <2>4 DEF Holds, ParamSurvives
    <2> QED
        BY <2>2, <2>4, <2>5 DEF PacketIInv
<1>2. CASE ~(IsEncodable(packet) /\ GetsShorter(packet.data.param))
    BY <1>2 DEF PacketIInv, Holds, EncodePacket, ParamSurvives
<1> QED
    BY <1>1, <1>2

\* decode_packet undoes it, or takes a param that was set as a stream apart.
LEMMA DecodeHolds == PacketIInv /\ DecodePacket => PacketIInv'
<1> SUFFICES ASSUME PacketIInv, DecodePacket PROVE ParamSurvives'
    BY DEF PacketIInv, Holds, DecodePacket
<1>1. Holds(wire) /\ UNCHANGED <<sent, marked>>
    BY DEF DecodePacket, PacketIInv
<1>2. CASE wire.data = sent /\ wire.isCompressed = marked
    BY <1>1, <1>2 DEF DecodePacket, ParamSurvives
<1>3. CASE /\ sent \in Sendable
           /\ wire.data = [sent EXCEPT !.param = Compress(@)] /\ wire.isCompressed
    <2>1. IsStream(wire.data.param) /\ [wire.data EXCEPT !.param = Decompress(@)] = sent
        BY <1>3, UnzipZip
    <2>2. wire.data # NoData
        BY <1>3, PacketAssumption DEF Sendable, Params, Compress
    <2>3. arrived' = [data |-> sent, isCompressed |-> FALSE]
        BY <1>3, <2>1, <2>2 DEF DecodePacket
    <2> QED
        BY <1>1, <2>3 DEF ParamSurvives
<1> QED
    BY <1>1, <1>2, <1>3 DEF Holds

\* Every call keeps the packet and its encoding in step with what was set.
LEMMA PacketStep == PacketIInv /\ [PacketNext]_packetVars => PacketIInv'
<1> SUFFICES ASSUME PacketIInv, [PacketNext]_packetVars PROVE PacketIInv'
    OBVIOUS
<1>1. ASSUME NEW kind \in Kinds, NEW param \in Params, SetData(kind, param)
      PROVE  PacketIInv'
    BY <1>1 DEF PacketIInv, Holds, SetData, Sendable, ParamSurvives
<1>2. CASE EncodePacket
    BY <1>2, EncodeHolds
<1>3. CASE DecodePacket
    BY <1>3, DecodeHolds
<1>4. CASE UNCHANGED packetVars
    BY <1>4 DEF PacketIInv, Holds, packetVars, ParamSurvives
<1> QED
    BY <1>1, <1>2, <1>3, <1>4 DEF PacketNext

\* Whatever is set, encoded and decoded how often, the param that arrives is
\* the one set last, but for a stream in a packet that was marked before.
THEOREM ParamsSurvive == PacketSpec => []ParamSurvives
<1>1. PacketSpec => []PacketIInv
    BY PacketInitial, PacketStep, PTL DEF PacketSpec
<1>2. PacketIInv => ParamSurvives
    BY DEF PacketIInv
<1> QED
    BY <1>1, <1>2, PTL

-----------------------------------------------------------------------------
(* RequestUrl: spellings of a page come to one url, other pages to others  *)

PagePath(u) ==
    [host |-> u.host, path |-> u.path, slashes |-> SlashesLeft(ParsedSlashes(u))]

\* Only a url that was parsed, with a host, is passed on, normalised.
PassedInv ==
    \A p \in passed : p.given \in Urls /\ p.url = PagePath(p.given)

\* What normalize_url drops of the slashes is whether there is a last one.
LEMMA SlashesMeet ==
    ASSUME NEW u \in Urls, NEW v \in Urls
    PROVE  PagePath(u) = PagePath(v) <=> SamePage(u, v)
<1>1. u.slashes \in Nat /\ v.slashes \in Nat
    BY UrlAssumption DEF Urls
<1>2. ASSUME u.path = v.path
      PROVE  SlashesLeft(ParsedSlashes(u)) = SlashesLeft(ParsedSlashes(v))
             <=> u.slashes = v.slashes \/ {u.slashes, v.slashes} \subseteq {0, 1}
    BY <1>1, <1>2 DEF SlashesLeft, ParsedSlashes
<1> QED
    BY <1>2 DEF PagePath, SamePage

\* A request passes with the url that its handler has normalised.
LEMMA TakeSignedKeeps ==
    ASSUME PassedInv, NEW handler, NEW u \in Given, NEW hasBody, NEW badRequest,
           NEW normalized \in {NormalizeEnter(u), NormalizeCandidate(u)},
           TakeSigned(handler, u, normalized, hasBody, badRequest)
    PROVE  PassedInv'
<1>1. CASE UNCHANGED passed
    BY <1>1 DEF PassedInv
<1>2. CASE /\ normalized # NoUrl
           /\ passed' = passed \cup {[handler |-> handler, given |-> u, url |-> normalized]}
    <2>1. u \in Urls /\ normalized = PagePath(u)
        BY <1>2 DEF NormalizeEnter, NormalizeCandidate, NormalizeUrl, PagePath, Given
    <2> QED
        BY <1>2, <2>1 DEF PassedInv
<1> QED
    BY <1>1, <1>2 DEF TakeSigned

\* PassedInv holds in every behaviour.
LEMMA PassedInvHolds == UrlSpec => []PassedInv
<1>1. UrlInit => PassedInv
    BY DEF UrlInit, PassedInv
<1>2. PassedInv /\ [UrlNext]_urlVars => PassedInv'
    <2> SUFFICES ASSUME PassedInv, [UrlNext]_urlVars PROVE PassedInv'
        OBVIOUS
    <2>1. CASE UNCHANGED passed
        BY <2>1 DEF PassedInv
    <2>2. ASSUME NEW u \in Given, NEW hasBody \in BOOLEAN,
                 Enter(u, hasBody) \/ Candidate(u, hasBody)
          PROVE  PassedInv'
        BY <2>2, TakeSignedKeeps DEF Enter, Candidate
    <2> QED
        BY <2>1, <2>2 DEF UrlNext, RefuseUnsigned, urlVars
<1> QED
    BY <1>1, <1>2, PTL DEF UrlSpec

\* Whichever handler a page's spelling came to, and whatever was dropped of it,
\* its sessions share one url, and sessions of other pages another.
THEOREM PagesMeet == UrlSpec => []SpellingsMeet
<1>1. PassedInv => SpellingsMeet
    BY SlashesMeet DEF PassedInv, SpellingsMeet
<1> QED
    BY <1>1, PassedInvHolds, PTL

-----------------------------------------------------------------------------
(* ThrottleJobRunner: jobs start behind jobs that have ended               *)

\* The types; needs is left out, for no job has to end.
JobsTypeOK ==
    /\ accepted \in Nat /\ pulled \in Nat /\ handed \in Nat
    /\ ended \subseteq Nat
    /\ closed \in BOOLEAN /\ disposed \in BOOLEAN

\* The buffer lies inside what was accepted and holds MaxParallel jobs at
\* most; what has left it has ended, what has not entered it has not begun;
\* and a closed channel has been emptied before the runner stops.
JobsIInv ==
    /\ JobsTypeOK
    /\ handed <= pulled /\ pulled <= accepted
    /\ pulled <= handed + MaxParallel
    /\ 1 .. handed \subseteq ended
    /\ ended \subseteq 1 .. pulled
    /\ disposed => closed /\ handed = accepted

\* A new runner has nothing in its buffer.
LEMMA JobsInitial == JobsInit => JobsIInv
<1> SUFFICES ASSUME JobsInit PROVE JobsIInv
    OBVIOUS
<1>1. /\ accepted = 0 /\ pulled = 0 /\ handed = 0
      /\ ended = {} /\ closed = FALSE /\ disposed = FALSE
    BY DEF JobsInit
<1>2. 1 .. handed = {}
    BY <1>1
<1>3. 1 .. handed \subseteq ended /\ ended \subseteq 1 .. pulled
    BY <1>1, <1>2
<1>4. JobsTypeOK
    BY <1>1 DEF JobsTypeOK
<1>5. handed <= pulled /\ pulled <= accepted /\ pulled <= handed + MaxParallel
    BY <1>1, JobsAssumption
<1>6. disposed => closed /\ handed = accepted
    BY <1>1
<1> QED
    BY <1>3, <1>4, <1>5, <1>6 DEF JobsIInv

\* Every step of a caller, of a job or of the runner keeps the window.
LEMMA JobsStep == JobsIInv /\ [JobsNext]_jobVars => JobsIInv'
<1> SUFFICES ASSUME JobsIInv, [JobsNext]_jobVars PROVE JobsIInv'
    OBVIOUS
<1> USE JobsAssumption DEF JobsIInv, JobsTypeOK
<1>1. CASE AddJob
    BY <1>1 DEF AddJob
<1>2. CASE DisposeRunner
    BY <1>2 DEF DisposeRunner
<1>3. CASE PullJob
    BY <1>3 DEF PullJob, HasRoom
<1>4. CASE HandOver
    BY <1>4 DEF HandOver
<1>5. CASE EndRunner
    BY <1>5 DEF EndRunner, IsDone
<1>6. ASSUME NEW j \in JobNumbers, EndJob(j) PROVE JobsIInv'
    BY <1>6 DEF EndJob
<1>7. CASE UNCHANGED jobVars
    BY <1>7 DEF jobVars
<1> QED
    BY <1>1, <1>2, <1>3, <1>4, <1>5, <1>6, <1>7 DEF JobsNext, RunnerStep

\* The window says behind whom a job has started.
LEMMA JobsIInvSuffices == JobsIInv => StartsBehindEnded
<1> SUFFICES ASSUME JobsIInv PROVE StartsBehindEnded
    OBVIOUS
<1>1. ASSUME NEW i \in 1 .. pulled, NEW k \in 1 .. i, k + MaxParallel <= i
      PROVE k \in ended
    <2>1. k <= handed
        BY <1>1, JobsAssumption DEF JobsIInv, JobsTypeOK
    <2> QED
        BY <2>1, <1>1 DEF JobsIInv, JobsTypeOK
<1>2. ASSUME disposed PROVE ended = 1 .. accepted
    <2>1. handed = accepted /\ pulled = accepted
        BY <1>2 DEF JobsIInv, JobsTypeOK
    <2> QED
        BY <2>1 DEF JobsIInv
<1> QED
    BY <1>1, <1>2 DEF StartsBehindEnded

\* At most MaxParallel jobs run at a time, each of them behind jobs that have
\* ended, and a runner that has stopped has lost no job.
THEOREM JobsStartBehindEnded == JobsSpec => []StartsBehindEnded
<1>1. JobsSpec => []JobsIInv
    BY JobsInitial, JobsStep, PTL DEF JobsSpec
<1> QED
    BY <1>1, JobsIInvSuffices, PTL

-----------------------------------------------------------------------------
(* BandWidth: the rate that is shown                                       *)

\* What \div cuts off is less than one divisor.
LEMMA DivIsWithin ==
    ASSUME NEW a \in Nat, NEW b \in Nat \ {0}
    PROVE  /\ a \div b \in Nat
           /\ b * (a \div b) <= a
           /\ a < b * (a \div b) + b
OBVIOUS

\* Factors keep an order.
LEMMA TimesMonotone ==
    ASSUME NEW a \in Nat, NEW b \in Nat, NEW c \in Nat, a <= b
    PROVE  /\ a * c <= b * c
           /\ a < b /\ c > 0 => a * c < b * c
OBVIOUS

\* A span of at least a second, cut off to whole seconds, is more than half of
\* what it was: so the rate shown is less than twice what it should be.
LEMMA RateBounds ==
    ASSUME NEW bytes \in Nat, NEW ms \in Nat, ms >= Second
    PROVE  /\ Rate(bytes, ms) \in Nat
           /\ (Rate(bytes, ms) + 1) * ms > Second * bytes
           /\ Rate(bytes, ms) * ms <= 2 * Second * bytes
<1> DEFINE q == ms \div Second
           r == bytes \div q
<1>1. Second \in Nat \ {0}
    BY MeterAssumption
<1>2. q \in Nat /\ Second * q <= ms /\ ms < Second * q + Second
    BY <1>1, DivIsWithin
<1>3. q # 0
    <2>1. q = 0 => ms < Second
        BY <1>1, <1>2
    <2> QED
        BY <1>1, <2>1
<1>4. r \in Nat /\ q * r <= bytes /\ bytes < q * r + q
    BY <1>2, <1>3, DivIsWithin
<1> HIDE DEF q, r
<1>5. (r + 1) * ms > Second * bytes
    <2>1. (Second * q) * (r + 1) <= ms * (r + 1)
        BY <1>1, <1>2, <1>4, TimesMonotone
    <2>2. bytes * Second < (q * (r + 1)) * Second
        <3>1. bytes < q * (r + 1)
            BY <1>2, <1>4
        <3> QED
            BY <1>1, <1>2, <1>4, <3>1, TimesMonotone
    <2>3. (q * (r + 1)) * Second = (Second * q) * (r + 1)
        BY <1>1, <1>2, <1>4
    <2> QED
        BY <1>1, <1>2, <1>4, <2>1, <2>2, <2>3
<1>6. r * ms <= 2 * Second * bytes
    <2>1. ms <= 2 * (Second * q)
        <3>1. Second * 1 <= Second * q
            BY <1>1, <1>2, <1>3
        <3> QED
            BY <1>1, <1>2, <3>1
    <2>2. ms * r <= (2 * (Second * q)) * r
        BY <1>1, <1>2, <1>4, <2>1, TimesMonotone
    <2>3. (q * r) * (2 * Second) <= bytes * (2 * Second)
        BY <1>1, <1>2, <1>4, TimesMonotone
    <2>4. (q * r) * (2 * Second) = (2 * (Second * q)) * r
        BY <1>1, <1>2, <1>4
    <2> QED
        BY <1>1, <1>2, <1>4, <2>2, <2>3, <2>4
<1>7. Rate(bytes, ms) = r
    BY DEF Rate, q, r
<1> QED
    BY <1>4, <1>5, <1>6, <1>7

\* The meter's counters are those of the span, and what it shows is the rate of
\* a span that lasted.
MeterInv ==
    /\ now \in Nat \ {0}
    /\ span \in [bytes : Nat, from : Nat]
    /\ begin = span.from /\ bytesTotal = span.bytes
    /\ begin <= now
    /\ \/ measured = [bytes |-> 0, ms |-> 0]
       \/ /\ measured \in [bytes : Nat, ms : Nat]
          /\ measured.ms >= MinSpan
          /\ bytesPerSecond = Rate(measured.bytes, measured.ms)

\* Adding bytes goes on with the span, or measures it and forgets it.
LEMMA AddBytesKeeps ==
    ASSUME MeterInv, NEW len \in Lens, AddBytes(len)
    PROVE  MeterInv'
<1> DEFINE first == IF begin = 0 THEN now ELSE begin
           total == bytesTotal + len
           ms == now - first
           seen == [bytes |-> span.bytes + len,
                    from |-> IF span.from = 0 THEN now ELSE span.from]
<1>1. /\ first \in Nat \ {0} /\ first <= now /\ seen.from = first
      /\ total \in Nat /\ seen.bytes = total
      /\ seen \in [bytes : Nat, from : Nat]
    BY MeterAssumption DEF MeterInv
<1>2. CASE /\ begin' = first /\ bytesTotal' = total /\ span' = seen
           /\ UNCHANGED <<now, bytesPerSecond, measured>>
    BY <1>1, <1>2 DEF MeterInv
<1>3. CASE /\ ms >= MinSpan
           /\ bytesPerSecond' = Rate(total, ms)
           /\ begin' = 0 /\ bytesTotal' = 0
           /\ span' = NoSpan
           /\ measured' = [bytes |-> seen.bytes, ms |-> now - seen.from]
           /\ UNCHANGED now
    <2>1. ms \in Nat /\ now - seen.from = ms
        BY <1>1 DEF MeterInv
    <2>2. /\ measured' = [bytes |-> total, ms |-> ms]
          /\ measured' \in [bytes : Nat, ms : Nat]
        BY <1>1, <1>3, <2>1
    <2>3. /\ measured'.ms >= MinSpan
          /\ bytesPerSecond' = Rate(measured'.bytes, measured'.ms)
        BY <1>3, <2>2
    <2> QED
        BY <1>3, <2>2, <2>3 DEF MeterInv, NoSpan
<1> QED
    BY <1>2, <1>3 DEF AddBytes, BytesLeft

\* MeterInv holds in every behaviour.
LEMMA MeterInvHolds == MeterSpec => []MeterInv
<1>1. MeterInit => MeterInv
    BY DEF MeterInit, MeterInv, NoSpan
<1>2. MeterInv /\ [MeterNext]_meterVars => MeterInv'
    <2> SUFFICES ASSUME MeterInv, [MeterNext]_meterVars PROVE MeterInv'
        OBVIOUS
    <2>1. CASE PassTime
        BY <2>1 DEF PassTime, MeterInv
    <2>2. CASE UNCHANGED meterVars
        BY <2>2 DEF meterVars, MeterInv
    <2> QED
        BY <2>1, <2>2, AddBytesKeeps DEF MeterNext
<1> QED
    BY <1>1, <1>2, PTL DEF MeterSpec

\* Whatever bytes are added whenever, the rate shown lies between what was
\* measured, less one byte per second, and twice that.
THEOREM RatesAreWithinTwice == MeterSpec => []RateIsWithinTwice
<1>1. MeterInv => RateIsWithinTwice
    <2> SUFFICES ASSUME MeterInv, measured.ms > 0
                 PROVE  /\ (bytesPerSecond + 1) * measured.ms > Second * measured.bytes
                        /\ bytesPerSecond * measured.ms <= 2 * Second * measured.bytes
        BY DEF RateIsWithinTwice
    <2>1. /\ measured \in [bytes : Nat, ms : Nat] /\ measured.ms >= MinSpan
          /\ bytesPerSecond = Rate(measured.bytes, measured.ms)
        BY DEF MeterInv
    <2>2. measured.bytes \in Nat /\ measured.ms \in Nat /\ measured.ms >= Second
        BY <2>1, MeterAssumption
    <2> QED
        BY <2>1, <2>2, RateBounds
<1> QED
    BY <1>1, MeterInvHolds, PTL

-----------------------------------------------------------------------------
(* SignalFuture: outcomes are heard, and taken once                        *)

SignalTypeOK ==
    /\ result \in Finishers \cup {Nobody}
    /\ task \in Awaiters \cup {Nobody}
    /\ finishPc \in [Finishers -> {"idle", "wake", "done"}]
    /\ waker \in [Finishers -> Awaiters \cup {Nobody}]
    /\ pollPc \in [Awaiters -> {"scheduled", "setTask", "parked", "ready"}]
    /\ notified \subseteq Awaiters
    /\ got \in [Awaiters -> Finishers \cup {Nobody}]
    /\ unheard \subseteq Awaiters
    /\ \A f \in Finishers : finishPc[f] = "wake" => waker[f] \in Awaiters

\* An outcome is somewhere only after its finisher has begun.
OutcomesBegan ==
    /\ result # Nobody => finishPc[result] # "idle"
    /\ \A a \in Awaiters : got[a] # Nobody => finishPc[got[a]] # "idle"

Waking(a) == \E f \in Finishers : finishPc[f] = "wake" /\ waker[f] = a

\* A parked task that is still heard has its waker stored or on its way.
ParkedIsHeard ==
    \A a \in Awaiters \ unheard : pollPc[a] = "parked" => task = a \/ Waking(a)

\* One that stores its waker beside an outcome is polled again.
PolledIsWoken ==
    \A a \in Awaiters \ unheard :
        pollPc[a] = "setTask" /\ result # Nobody => a \in notified \/ Waking(a)

SignalIInv ==
    /\ SignalTypeOK
    /\ OutcomesBegan
    /\ TakenOnce
    /\ ParkedIsHeard
    /\ PolledIsWoken
    /\ ReadyIsWoken

USE SignalAssumption DEF SignalTypeOK, TakenWaker, LeftAfterTake, Polling

\* Nothing has been finished and nobody has polled.
LEMMA SignalInitial == SignalInit => SignalIInv
BY DEF SignalInit, SignalIInv, OutcomesBegan, TakenOnce, ParkedIsHeard,
       PolledIsWoken, ReadyIsWoken

\* set_result hands the waker it takes to its finisher.
LEMMA SetResultKeeps ==
    ASSUME SignalIInv, NEW f \in Finishers, SetResult(f)
    PROVE  SignalIInv'
<1> USE DEF SignalIInv
<1>1. SignalTypeOK'
    BY DEF SetResult
<1>2. OutcomesBegan' /\ TakenOnce'
    BY DEF SetResult, OutcomesBegan, TakenOnce
<1>3. ASSUME NEW a \in Awaiters, Waking(a) \/ task = a PROVE Waking(a)'
    <2>1. CASE task = a
        BY <2>1 DEF SetResult, Waking
    <2>2. CASE Waking(a)
        BY <2>2 DEF SetResult, Waking
    <2> QED
        BY <1>3, <2>1, <2>2
<1>4. \A a \in Awaiters \ unheard' : pollPc[a] = "setTask" => task = a
    BY DEF SetResult
<1>5. ParkedIsHeard' /\ PolledIsWoken' /\ ReadyIsWoken'
    <2>1. UNCHANGED pollPc /\ unheard \subseteq unheard'
        BY DEF SetResult
    <2>2. \A a \in Awaiters \ unheard' :
             pollPc[a] \in {"parked", "setTask"} => Waking(a)'
        BY <1>3, <1>4, <2>1 DEF ParkedIsHeard
    <2> QED
        BY <2>1, <2>2 DEF ParkedIsHeard, PolledIsWoken, ReadyIsWoken, Waking
<1> QED
    BY <1>1, <1>2, <1>5

\* wake() leaves the task scheduled or notified.
LEMMA WakeKeeps ==
    ASSUME SignalIInv, NEW f \in Finishers, Wake(f)
    PROVE  SignalIInv'
<1> USE DEF SignalIInv
<1>1. waker[f] \in Awaiters
    BY DEF Wake
<1>2. SignalTypeOK'
    BY <1>1 DEF Wake
<1>3. OutcomesBegan' /\ TakenOnce'
    BY DEF Wake, OutcomesBegan, TakenOnce
<1>4. ASSUME NEW a \in Awaiters \ {waker[f]}
      PROVE  (Waking(a) => Waking(a)') /\ pollPc'[a] = pollPc[a]
    BY <1>1 DEF Wake, Waking
<1>5. /\ pollPc'[waker[f]] # "parked"
      /\ pollPc'[waker[f]] = "setTask" => waker[f] \in notified'
    BY <1>1 DEF Wake
<1>6. UNCHANGED <<task, result, unheard>> /\ notified \subseteq notified'
    BY DEF Wake
<1>7. ParkedIsHeard' /\ PolledIsWoken' /\ ReadyIsWoken'
    BY <1>4, <1>5, <1>6 DEF ParkedIsHeard, PolledIsWoken, ReadyIsWoken, Waking
<1> QED
    BY <1>2, <1>3, <1>7

\* A poll takes the outcome, or finds that there is none.
LEMMA TakeResultKeeps ==
    ASSUME SignalIInv, NEW a \in Awaiters, TakeResult(a)
    PROVE  SignalIInv'
<1> USE DEF SignalIInv
<1>1. SignalTypeOK'
    BY DEF TakeResult
<1>2. OutcomesBegan' /\ TakenOnce'
    BY DEF TakeResult, OutcomesBegan, TakenOnce
<1>3. result' = Nobody /\ UNCHANGED <<task, finishPc, waker>>
    BY DEF TakeResult
<1>4. \A b \in Awaiters \ unheard' :
         pollPc'[b] = "parked" => b \notin unheard /\ pollPc[b] = "parked"
    BY DEF TakeResult
<1>5. ParkedIsHeard' /\ PolledIsWoken' /\ ReadyIsWoken'
    BY <1>3, <1>4 DEF ParkedIsHeard, PolledIsWoken, ReadyIsWoken, Waking
<1> QED
    BY <1>1, <1>2, <1>5

\* The task whose waker set_task replaces is unheard, or about to be woken.
LEMMA SetTaskKeeps ==
    ASSUME SignalIInv, NEW a \in Awaiters, SetTask(a)
    PROVE  SignalIInv'
<1> USE DEF SignalIInv
<1>1. SignalTypeOK'
    BY DEF SetTask
<1>2. OutcomesBegan' /\ TakenOnce'
    BY DEF SetTask, OutcomesBegan, TakenOnce
<1>3. task' = a /\ UNCHANGED <<result, finishPc, waker>> /\ unheard \subseteq unheard'
    BY DEF SetTask
<1>4. pollPc'[a] # "setTask" /\ (pollPc'[a] = "parked" => a \notin notified)
    BY DEF SetTask
<1>5. \A b \in Awaiters \ {a} :
         /\ pollPc'[b] = pollPc[b] /\ (b \in notified => b \in notified')
         /\ b \notin unheard' /\ pollPc[b] = "parked" => task # b
    BY DEF SetTask
<1>6. pollPc[a] = "setTask"
    BY DEF SetTask
<1>7. ParkedIsHeard' /\ PolledIsWoken'
    BY <1>3, <1>4, <1>5 DEF ParkedIsHeard, PolledIsWoken, Waking
<1>8. ReadyIsWoken'
    BY <1>3, <1>4, <1>5, <1>6 DEF PolledIsWoken, ReadyIsWoken, Waking
<1> QED
    BY <1>1, <1>2, <1>7, <1>8

\* Each critical section keeps the invariant.
LEMMA SignalStep == SignalIInv /\ [SignalNext]_signalVars => SignalIInv'
<1> SUFFICES ASSUME SignalIInv, [SignalNext]_signalVars PROVE SignalIInv'
    OBVIOUS
<1>1. ASSUME NEW a \in Awaiters, PollAgain(a) PROVE SignalIInv'
    BY <1>1 DEF PollAgain, SignalIInv, OutcomesBegan, TakenOnce, ParkedIsHeard,
                PolledIsWoken, ReadyIsWoken, Waking
<1>2. CASE UNCHANGED signalVars
    BY <1>2 DEF signalVars, SignalIInv, OutcomesBegan, TakenOnce, ParkedIsHeard,
                PolledIsWoken, ReadyIsWoken, Waking
<1> QED
    BY <1>1, <1>2, SetResultKeeps, WakeKeeps, TakeResultKeeps, SetTaskKeeps DEF SignalNext

\* SignalIInv holds in every behaviour.
LEMMA SignalIInvHolds == SignalSpec => []SignalIInv
BY SignalInitial, SignalStep, PTL DEF SignalSpec

\* No task sleeps beside an outcome, but for the two ways of missing it.
THEOREM ReadyTasksAreWoken == SignalSpec => []ReadyIsWoken
<1>1. SignalIInv => ReadyIsWoken
    BY DEF SignalIInv
<1> QED
    BY <1>1, SignalIInvHolds, PTL

\* No outcome is handed out twice, however finish and poll interleave.
THEOREM OutcomesAreTakenOnce == SignalSpec => []TakenOnce
<1>1. SignalIInv => TakenOnce
    BY DEF SignalIInv
<1> QED
    BY <1>1, SignalIInvHolds, PTL
=============================================================================
