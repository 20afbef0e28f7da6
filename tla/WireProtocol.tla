---------------------------- MODULE WireProtocol ----------------------------
(***************************************************************************)
(* The v1 wire protocol (cherenkov-protocol frame.rs): wrapper frames, the *)
(* conversions to and from the prost messages, and the encode and decode   *)
(* helpers.  A protobuf body is the partial function from field numbers to *)
(* values that proto3 puts on the wire: a field that has its default value *)
(* is not sent, a missing field reads as its default, an unknown field     *)
(* number is skipped.                                                      *)
(***************************************************************************)
EXTENDS Integers, Sequences

EmptyName == <<"">>     \* the empty channel name: one empty segment
EmptyString == ""

NumericFields == {"request_id", "since_offset", "epoch", "offset", "expires_at", "code"}

Default(field) ==
    IF field \in NumericFields THEN 0
    ELSE IF field = "channel" THEN EmptyName ELSE EmptyString

\* Position i holds the field with number i.
ClientLayout ==
    [Subscribe   |-> <<"request_id", "channel", "since_offset">>,
     Unsubscribe |-> <<"request_id", "channel">>,
     Publish     |-> <<"request_id", "channel", "data">>,
     Connect     |-> <<"request_id", "token">>]

ServerLayout ==
    [SubscribeOk   |-> <<"request_id", "channel", "epoch", "offset">>,
     UnsubscribeOk |-> <<"request_id", "channel">>,
     Publication   |-> <<"channel", "offset", "data">>,
     Error         |-> <<"request_id", "code", "message">>,
     ConnectOk     |-> <<"request_id", "subject", "expires_at">>]

\* The oneof tags of the two envelopes.
ClientTags == <<"Subscribe", "Unsubscribe", "Publish", "Connect">>
ServerTags == <<"SubscribeOk", "UnsubscribeOk", "Publication", "Error", "ConnectOk">>

ErrorCode ==
    [InvalidFrame |-> 1, InvalidChannel |-> 2, Unauthorized |-> 3, Internal |-> 4,
     ValidationFailed |-> 5, InvalidToken |-> 6, AclDenied |-> 7, NotConnected |-> 8]

FieldsOf(layout) == {layout[i] : i \in DOMAIN layout}

NumberOf(names, n) == CHOOSE i \in DOMAIN names : names[i] = n

\* Mutant: the wrapper's last field is forgotten in the conversion.
ToProtoTruncated(layout, body) ==
    [i \in {j \in 1..(Len(layout) - 1) : body[layout[j]] # Default(layout[j])} |-> body[layout[i]]]

\* From<wrapper> for proto, then prost's encode.
ToProto(layout, body) ==
    [i \in {j \in DOMAIN layout : body[layout[j]] # Default(layout[j])} |-> body[layout[i]]]

\* prost's decode, then From<proto> for the wrapper.
FromProto(layout, msg) ==
    [n \in FieldsOf(layout) |->
        LET i == NumberOf(layout, n) IN IF i \in DOMAIN msg THEN msg[i] ELSE Default(n)]

Envelope(tag, msg) == [wellformed |-> TRUE, tag |-> tag, msg |-> msg]

\* Bytes prost refuses, and a frame of a variant this version does not know.
Malformed == [wellformed |-> FALSE, tag |-> 0, msg |-> <<>>]
UnknownVariant == Envelope(99, <<>>)

DecodeError(reason) == [kind |-> "DecodeError", body |-> [reason |-> reason]]

encode_client(f) ==
    Envelope(NumberOf(ClientTags, f.kind), ToProto(ClientLayout[f.kind], f.body))

encode_server(f) ==
    Envelope(NumberOf(ServerTags, f.kind), ToProto(ServerLayout[f.kind], f.body))

decode_client(b) ==
    CASE ~b.wellformed -> DecodeError("Prost")
      [] b.wellformed /\ b.tag \notin DOMAIN ClientTags -> DecodeError("MissingClientKind")
      [] OTHER -> [kind |-> ClientTags[b.tag], body |-> FromProto(ClientLayout[ClientTags[b.tag]], b.msg)]

decode_server(b) ==
    CASE ~b.wellformed -> DecodeError("Prost")
      [] b.wellformed /\ b.tag \notin DOMAIN ServerTags -> DecodeError("MissingServerKind")
      [] OTHER -> [kind |-> ServerTags[b.tag], body |-> FromProto(ServerLayout[ServerTags[b.tag]], b.msg)]

\* The brokers pass a Publication between nodes without an envelope.
encode_publication(p) == ToProto(ServerLayout["Publication"], p)
decode_publication(msg) == FromProto(ServerLayout["Publication"], msg)
=============================================================================
