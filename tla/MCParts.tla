------------------------------- MODULE MCParts -------------------------------
(* What messages hold and the helpers of common share no state: part says   *)
(* which of them a behaviour is about, and the others rest in their initial *)
(* states.                                                                  *)
EXTENDS RoutingInfo, Packet, RequestUrl, SignalFuture, ThrottleJobRunner, BandWidth

CONSTANTS s1, s2, t1, t2, f1, f2, f3, a1, a2

VARIABLE part

\* The forests have counts, gateways, trackers and rumours in them.
SomeKnown ==
    {<<>>,
     <<[sid |-> s1, ttl |-> 1], [sid |-> s2, ttl |-> 5]>>,
     <<[sid |-> s2, ttl |-> 2], [sid |-> s2, ttl |-> 4]>>}

\* A text that shrinks twice, and one that never does
SomeShrinks == [t \in Texts |-> IF t = t1 THEN 2 ELSE 0]

\* At most two of the jobs wait for another one.
FewNeed == Cardinality({j \in JobNumbers : needs[j] # {}}) <= 2
NoNeeds == [j \in JobNumbers |-> {}]

helperVars == <<signalVars, jobVars, meterVars>>
messageVars == <<forest, packetVars, urlVars>>
allVars == <<messageVars, helperVars, part>>

PartsInit ==
    /\ part \in {"routing", "packet", "request", "signal", "jobs", "meter"}
    /\ Init /\ PacketInit /\ UrlInit
    /\ SignalInit /\ JobsInit /\ MeterInit
    /\ IF part = "jobs" THEN FewNeed ELSE needs = NoNeeds

PartsNext ==
    /\ UNCHANGED part
    /\ \/ part = "routing" /\ Next /\ UNCHANGED <<packetVars, urlVars, helperVars>>
       \/ part = "packet" /\ PacketNext /\ UNCHANGED <<forest, urlVars, helperVars>>
       \/ part = "request" /\ UrlNext /\ UNCHANGED <<forest, packetVars, helperVars>>
       \/ part = "signal" /\ SignalNext /\ UNCHANGED <<messageVars, jobVars, meterVars>>
       \/ part = "jobs" /\ JobsNext /\ UNCHANGED <<messageVars, signalVars, meterVars>>
       \/ part = "meter" /\ MeterNext /\ UNCHANGED <<messageVars, signalVars, jobVars>>

PartsFairness ==
    /\ part = "signal" => SignalFairness
    /\ part = "jobs" => JobsFairness

PartsSpec == PartsInit /\ [][PartsNext]_allVars /\ PartsFairness
=============================================================================
