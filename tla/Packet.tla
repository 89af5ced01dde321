------------------------------- MODULE Packet -------------------------------
(***************************************************************************)
(* The RPC packet (proto/src/lib.rs) and its compression                   *)
(* (common/src/compress.rs).  A packet carries a request or a response     *)
(* whose param encode_packet compresses where that makes it shorter, in    *)
(* place, and says so in is_compressed; decode_packet undoes it.           *)
(*                                                                         *)
(* A param is a text inside a number of zlib streams: a caller's own param *)
(* may be a zlib stream already.  The rpc_id is carried along unread.      *)
(***************************************************************************)
EXTENDS Naturals

CONSTANTS
    Texts,    \* what params say
    Shrinks,  \* for each text, in how many streams it still gets shorter:
              \* 0 below MIN_LENGTH bytes or when it is too dense
    MaxZips,  \* bound: streams around a caller's own param
    NoData    \* no data; no packet

Params == [text : Texts, zips : 0 .. MaxZips]
Kinds == {"request", "response"}

ASSUME PacketAssumption ==
    /\ Shrinks \in [Texts -> Nat]
    /\ MaxZips \in Nat
    /\ NoData \notin [kind : Kinds, param : [text : Texts, zips : Nat]]

VARIABLES
    packet,   \* the sender's packet
    wire,     \* encode_to_vec of it, the last time
    arrived,  \* what decode_packet made of that
    sent,     \* history: the data last set
    marked    \* history: is_compressed was true when it was set

packetVars == <<packet, wire, arrived, sent, marked>>

PacketInit ==
    /\ packet = [data |-> NoData, isCompressed |-> FALSE]
    /\ wire = NoData /\ arrived = NoData
    /\ sent = NoData /\ marked = FALSE

\* set_request and set_response: is_compressed stays as it is.
SetData(kind, param) ==
    /\ packet' = [packet EXCEPT !.data = [kind |-> kind, param |-> param]]
    /\ sent' = [kind |-> kind, param |-> param]
    /\ marked' = packet.isCompressed
    /\ wire' = NoData /\ arrived' = NoData

\* compress_if_needed: Ok(NoData) when the stream would not be shorter
GetsShorter(param) == param.zips < Shrinks[param.text]
Compress(param) == [text |-> param.text, zips |-> param.zips + 1]

\* decompress fails on what is no zlib stream.
IsStream(param) == param.zips > 0
Decompress(param) == [text |-> param.text, zips |-> param.zips - 1]

IsEncodableAgain(p) == p.data # NoData  \* mutant: is_compressed is not looked at
IsEncodable(p) == p.data # NoData /\ ~p.isCompressed

\* encode_packet: a second call finds is_compressed set.
EncodePacket ==
    LET p == IF IsEncodable(packet) /\ GetsShorter(packet.data.param)
             THEN [data |-> [packet.data EXCEPT !.param = Compress(@)],
                   isCompressed |-> TRUE]
             ELSE packet
    IN /\ packet' = p
       /\ wire' = p
       /\ arrived' = NoData
       /\ UNCHANGED <<sent, marked>>

\* decode_packet: a param that is no stream stays, and so does the mark.
DecodePacket ==
    /\ wire # NoData
    /\ arrived' = IF wire.data # NoData /\ wire.isCompressed /\ IsStream(wire.data.param)
                  THEN [data |-> [wire.data EXCEPT !.param = Decompress(@)],
                        isCompressed |-> FALSE]
                  ELSE wire
    /\ UNCHANGED <<packet, wire, sent, marked>>

PacketNext ==
    \/ \E kind \in Kinds, param \in Params : SetData(kind, param)
    \/ EncodePacket
    \/ DecodePacket

PacketSpec == PacketInit /\ [][PacketNext]_packetVars

-----------------------------------------------------------------------------
(* Properties                                                              *)

\* What arrives is what was set last, however often the packet is set and
\* encoded.  Only a zlib stream in a packet that had been compressed before
\* arrives unpacked.
ParamSurvives ==
    arrived # NoData =>
        \/ arrived.data = sent
        \/ /\ marked /\ IsStream(sent.param)
           /\ arrived.data = [sent EXCEPT !.param = Decompress(@)]
=============================================================================
