------------------------------ MODULE Framing -------------------------------
(***************************************************************************)
(* One device connection of the ingest listener: processChunk (server.ts)  *)
(* decodes what has come, keeps what the decoder leaves and handles the    *)
(* messages.  TCP cuts the bytes anywhere.  What a device sends is built   *)
(* by the encoders the repository keeps beside the decoders (encode.ts),   *)
(* mixed with damaged frames and noise.  Besides the decoder, one thing    *)
(* writes the context: the session store's answer, which may come late and *)
(* restores the IMEI a peer had before.  The other transport is MQTT       *)
(* (mqtt.ts): a topic per device, whose payloads come whole and share the  *)
(* decoder's context.                                                      *)
(***************************************************************************)
EXTENDS Decoders

CONSTANTS
  MaxFragments,   \* bound: fragments one connection sends
  MaxRestored,    \* bound: fragments of a connection that has its IMEI restored
  MAX_BUFFER

ASSUME FramingAssumption == MaxFragments \in Nat /\ MaxRestored \in Nat /\ MAX_BUFFER \in Nat

Registered == {1, 2}   \* the devices admission lets in; 3 is another
Topic == 1             \* the device an MQTT topic names

Iteration(protocol, b, imei) ==
  CASE protocol = "gt06"      -> Gt06Iteration(b, imei)
    [] protocol = "h02"       -> H02Iteration(b, imei)
    [] protocol = "teltonika" -> TeltonikaIteration(b, imei)
    [] protocol = "nmea"      -> NmeaIteration(b, imei)
    [] protocol = "queclink"  -> QueclinkIteration(b, imei)
    [] protocol = "meitrack"  -> MeitrackIteration(b, imei)

Continued(protocol, buffer, d) ==
  IF d.go = "next" THEN After(d, Iteration(protocol, From(buffer, d.n + 1), d.imei)) ELSE d

\* What the loop has after each iteration.  One that goes on consumes a byte at least.
Iterations(protocol, buffer, imei) ==
  LET after[k \in 0 .. Len(buffer) + 1] ==
        IF k = 0 THEN Skip(0, imei) ELSE LET d == after[k - 1] IN Continued(protocol, buffer, d)
  IN  after

\* The whole loop: how it ended, the bytes consumed, the messages and the IMEI.
decode(protocol, buffer, imei) == Iterations(protocol, buffer, imei)[Len(buffer) + 1]

----------------------------------------------------------------------------
(* What devices send: bytes, the messages they stand for, the IMEI they name *)

Whole(bytes, kinds, imei) == [bytes |-> bytes, is |-> "frame", kinds |-> kinds, imei |-> imei]
Noise(bytes) == [bytes |-> bytes, is |-> "noise", kinds |-> <<>>, imei |-> 0]
Cut(bytes) == [bytes |-> bytes, is |-> "cut", kinds |-> <<>>, imei |-> 0]

Gt06Frame(protocol, info) ==
  LET body == <<Len(info) + 5, protocol>> \o info \o <<0, 1>>
  IN  <<120, 120>> \o body \o <<crc16(body) \div 256, crc16(body) % 256, 13, 10>>
encodeTeltonikaImei(imei) == <<0, 1, imei>>
encodeTeltonikaAvl(n) ==
  LET body == <<8, n>> \o [i \in 1 .. n |-> RECORD] \o <<n>>
  IN  <<0, 0, 0, 0, 0, 0, 0, Len(body)>> \o body \o <<0, 0, crc16(body) \div 256, crc16(body) % 256>>
encodeH02Location(imei) == <<42, HQ, imei, LOC, 35>>
encodeNmeaIdentity(imei) == <<35, imei, 10>>
encodeNmeaRmc == <<36, LOC, 42, xorChecksum(<<LOC>>), 10>>
encodeQueclink(prefix, type, imei) == <<43, prefix, type, 0, imei, 36>>
encodeMeitrackLocation(imei) ==
  LET body == <<36, 36, 65, imei, LOC>> IN body \o <<42, xorChecksum(body), 13, 10>>

\* Frames of devices 1 and 3, and for each protocol what its decoder finds hard:
\* a wrong checksum, half a frame, a frame too short for its type, noise that
\* looks like the beginning of a frame.
Fragment == [
  gt06 |-> { Whole(Gt06Frame(1, <<i>>), <<"login">>, i) : i \in {1, 3} }
           \cup { Whole(Gt06Frame(18, <<5, 5>>), <<"location">>, 0), Whole(Gt06Frame(19, <<5>>), <<"heartbeat">>, 0),
                  Noise(<<5>>), Noise([Gt06Frame(18, <<5, 5>>) EXCEPT ![5] = 6]),
                  Cut(<<120>>), Cut(Gt06Frame(18, <<5>>)) },
  h02 |-> { Whole(encodeH02Location(i), <<"location">>, i) : i \in {1, 3} }
          \cup { Noise(<<88, 35>>), Noise(<<42, 88, 35>>), Cut(<<42, HQ, 2>>) },
  teltonika |-> { Whole(encodeTeltonikaImei(1), <<"login">>, 1), Whole(encodeTeltonikaAvl(2), <<"location", "location">>, 0),
                  Whole(encodeTeltonikaAvl(0), <<"heartbeat">>, 0), Noise(<<9>>),
                  Noise([encodeTeltonikaAvl(1) EXCEPT ![11] = 7]), Cut([encodeTeltonikaAvl(0) EXCEPT ![9] = 9]) },
  nmea |-> { Whole(encodeNmeaIdentity(i), <<"login">>, i) : i \in {1, 3} }
           \cup { Whole(encodeNmeaRmc, <<"location">>, 0), Noise(<<88, 10>>), Noise(<<36, LOC, 42, 1, 10>>), Cut(<<36, LOC>>) },
  queclink |-> { Whole(encodeQueclink(RESP, LOC, 1), <<"location">>, 1), Whole(encodeQueclink(ACK, BEAT, 1), <<"heartbeat">>, 1),
                 Noise(<<88, 36>>), Noise(<<43, 88, 36>>), Cut(<<43, RESP, LOC>>) },
  meitrack |-> { Whole(encodeMeitrackLocation(i), <<"location">>, i) : i \in {1, 3} }
               \cup { Noise(<<88>>), Noise([encodeMeitrackLocation(1) EXCEPT ![3] = 66]), Cut(<<88, 36>>), Cut(<<36, 36, 65>>) }
]

----------------------------------------------------------------------------
VARIABLES
  conn   \* the connection, or topic: what the device sends and how many bytes, or
         \* payloads, have come, buffer, the context's IMEI, the admitted one, the
         \* messages decoded and those handled; with history: whether bytes were
         \* thrown away, the payloads that found the topic's session expired, and what
         \* there was when an IMEI was restored

NeverRestored == [imei |-> 0, received |-> 0, buffer |-> <<>>, decoded |-> <<>>]
NoConnection == [at |-> "none", protocol |-> "none", sent |-> <<>>, received |-> 0, buffer |-> <<>>, imei |-> 0,
                 admitted |-> 0, decoded |-> <<>>, handled |-> <<>>, lost |-> FALSE, lapsed |-> {},
                 restored |-> NeverRestored]

\* The bytes of the first fragments.
BytesOf(sent) == LET first[k \in 0 .. Len(sent)] == IF k = 0 THEN <<>> ELSE first[k - 1] \o sent[k].bytes IN first
Sent == BytesOf(conn.sent)[Len(conn.sent)]

FramingTypeOK ==
  /\ conn.at \in {"none", "open", "destroyed", "topic"} /\ conn.protocol \in Protocol \cup {"none"}
  /\ Len(conn.buffer) <= MAX_BUFFER
  /\ conn.received <= IF conn.at = "topic" THEN Len(conn.sent) ELSE Len(Sent)
  /\ conn.admitted \in Registered \cup {0}
  /\ Len(conn.handled) <= Len(conn.decoded) /\ conn.lost \in BOOLEAN
  /\ conn.lapsed \subseteq DOMAIN conn.sent
  /\ conn.restored.imei \in Registered \cup {0} /\ conn.restored.received <= conn.received

FramingInit == conn = NoConnection

Accept(protocol, sent) ==
  /\ conn.at = "none"
  /\ conn' = [NoConnection EXCEPT !.at = "open", !.protocol = protocol, !.sent = sent]

\* The loop over the messages, with ensureAdmitted: an IMEI that was never given
\* is the context's, and another IMEI than the admitted one ends the connection.
Handle(c, message) ==
  LET imei == IF message.imei = 0 THEN c.imei ELSE message.imei
  IN  CASE imei = 0 \/ c.at = "destroyed" -> c
        [] imei # 0 /\ c.at = "open" /\ (IF c.admitted = 0 THEN imei \in Registered ELSE imei = c.admitted) ->
             [c EXCEPT !.admitted = imei, !.handled = Append(@, Message(message.kind, imei))]
        [] OTHER -> [c EXCEPT !.at = "destroyed"]

HandleAll(c, messages) ==
  LET after[k \in 0 .. Len(messages)] == IF k = 0 THEN c ELSE LET d == after[k - 1] IN Handle(d, messages[k]) IN after[Len(messages)]

\* Meitrack's search for "$$" drops a "$" at the end of noise.
DropsMarker(rest, protocol, buffer) ==
  protocol = "meitrack" /\ rest = <<>> /\ Len(buffer) > 1 /\ Last(buffer) = 36

\* A decoder that throws takes the buffer with it; so does a rest over the limit.
Kept(c, d, buffer, rest) ==
  IF d.go = "throw" THEN [c EXCEPT !.imei = d.imei, !.buffer = <<>>, !.lost = TRUE]
  ELSE HandleAll([c EXCEPT !.imei = d.imei, !.decoded = @ \o d.messages,
                           !.buffer = IF Len(rest) > MAX_BUFFER THEN <<>> ELSE rest,
                           !.lost = @ \/ Len(rest) > MAX_BUFFER \/ DropsMarker(rest, c.protocol, buffer)],
                 d.messages)

Decoded(c, buffer, d) == Kept(c, d, buffer, From(buffer, d.n + 1))

Chunk(c, buffer) == Decoded(c, buffer, decode(c.protocol, buffer, c.imei))

processChunk(n) ==
  /\ conn.at = "open" /\ conn.received + n <= Len(Sent)
  /\ conn' = Chunk([conn EXCEPT !.received = @ + n],
                   conn.buffer \o SubSeq(Sent, conn.received + 1, conn.received + n))

\* The session store's answer: the IMEI last admitted from this peer.  It comes before
\* the first byte or after any chunk, and counts only while no frame has named one.
Restore(imei) ==
  /\ conn.at = "open" /\ conn.imei = 0 /\ conn.restored = NeverRestored /\ Len(conn.sent) <= MaxRestored
  /\ conn' = [conn EXCEPT !.imei = imei,
                          !.restored = [imei |-> imei, received |-> conn.received,
                                        buffer |-> conn.buffer, decoded |-> conn.decoded]]

\* A subscribed topic.  The topic's IMEI stands in for a login, which Teltonika
\* devices then skip.
Subscribe(protocol, sent) ==
  /\ conn.at = "none"
  /\ protocol = "teltonika" => \A i \in DOMAIN sent : sent[i].imei = 0
  /\ conn' = [NoConnection EXCEPT !.at = "topic", !.protocol = protocol, !.sent = sent, !.imei = Topic]

\* The first message of another device ends the payload.
OfTopic(messages) ==
  LET strange == {i \in DOMAIN messages : messages[i].imei # Topic}
  IN  IF strange = {} THEN messages ELSE SubSeq(messages, 1, Min(strange) - 1)

\* One payload: what its decoder leaves is gone, a decoder that throws ends it, and
\* a session idle for too long begins anew.
onMessage(expired) ==
  /\ conn.at = "topic" /\ conn.received < Len(conn.sent)
  /\ LET k == conn.received + 1
         d == decode(conn.protocol, conn.sent[k].bytes, IF expired THEN Topic ELSE conn.imei)
         messages == IF d.go = "throw" THEN <<>> ELSE d.messages
     IN  conn' = [conn EXCEPT !.received = k, !.imei = d.imei,
                              !.lapsed = IF expired THEN @ \cup {k} ELSE @,
                              !.decoded = @ \o messages, !.handled = @ \o OfTopic(messages)]

FramingNext ==
  \/ \E protocol \in Protocol : \E sent \in SeqOf(Fragment[protocol], MaxFragments) : Accept(protocol, sent) \/ Subscribe(protocol, sent)
  \/ \E n \in 1 .. Len(Sent) - conn.received : processChunk(n)
  \/ \E imei \in Registered : Restore(imei)
  \/ \E expired \in BOOLEAN : onMessage(expired)

FramingSpec == FramingInit /\ [][FramingNext]_conn

----------------------------------------------------------------------------
\* The fragments read one by one: a frame that names no device is about the one
\* named last, or by the topic; of the messages, those about the devices heard.
Read(r, fragment, lapsed, heard) ==
  LET imei == CASE fragment.imei # 0 -> fragment.imei
                [] OTHER             -> IF lapsed THEN Topic ELSE r.imei
      messages == [j \in DOMAIN fragment.kinds |-> Message(fragment.kinds[j], imei)]
  IN  [imei |-> imei, messages |-> IF imei \in heard THEN r.messages \o messages ELSE r.messages]

Readings(sent, imei, lapsed, heard) ==
  LET first[k \in 0 .. Len(sent)] ==
        IF k = 0 THEN [imei |-> imei, messages |-> <<>>]
        ELSE LET r == first[k - 1] IN Read(r, sent[k], k \in lapsed, heard)
  IN  first

\* Fragments none of which can be mistaken for the beginning of another frame: a
\* damaged Teltonika frame can, by its zeros, and a Teltonika device names itself first.
Legible ==
  /\ \A i \in DOMAIN conn.sent : conn.sent[i].is # "cut"
  /\ conn.protocol = "teltonika" => \A i \in DOMAIN conn.sent : conn.sent[i].is = "frame" /\ (i = 1 <=> conn.sent[i].imei # 0)

Arrived(n) == Max({k \in 0 .. Len(conn.sent) : Len(BytesOf(conn.sent)[k]) <= n})

LikeOneRead(bytes, imei, messages, rest) ==
  LET d == decode(conn.protocol, bytes, imei)
  IN  d.go = "stop" /\ messages = d.messages /\ (conn.protocol = "meitrack" \/ rest = From(bytes, d.n + 1))

\* However TCP cuts the stream, the messages decoded so far are those of one read
\* of all bytes so far, and what is kept is the rest of that read (Meitrack may keep
\* a byte of noise).  When an IMEI was restored, they are those of one read of the
\* bytes before, and of one with that IMEI of what it left and the bytes since.
\* Only a decoder that throws, a buffer over the limit and Meitrack's search lose bytes.
CutsAreHarmless ==
  LET then  == conn.restored
      since == then.buffer \o SubSeq(Sent, then.received + 1, conn.received)
  IN  conn.at = "open" /\ ~conn.lost =>
        /\ LikeOneRead(SubSeq(Sent, 1, then.received), 0, then.decoded, then.buffer)
        /\ SubSeq(conn.decoded, 1, Len(then.decoded)) = then.decoded
        /\ conn.received > then.received =>
             LikeOneRead(since, then.imei, From(conn.decoded, Len(then.decoded) + 1), conn.buffer)

\* To a decoder with an IMEI a Teltonika login is noise.
Seen ==
  IF conn.protocol = "teltonika" /\ conn.restored.imei # 0
  THEN [k \in DOMAIN conn.sent |-> IF conn.sent[k].imei # 0 THEN Noise(conn.sent[k].bytes) ELSE conn.sent[k]]
  ELSE conn.sent

\* In a legible stream each frame is a message as soon as its last byte is in,
\* once and in order; if an IMEI was restored, a frame that ends later and names no
\* device, and follows none that does, is about that IMEI.
FramesArrive ==
  LET then  == conn.restored
      early == Readings(Seen, 0, {}, Nat)[Arrived(then.received)].messages
      late  == Readings(Seen, then.imei, {}, Nat)[Arrived(conn.received)].messages
  IN  conn.at = "open" /\ ~conn.lost /\ Legible => conn.decoded = early \o From(late, Len(early) + 1)

\* A damaged MQTT payload harms no other: a frame is handled exactly when the device
\* its session named last is the topic's.
PayloadsAreApart ==
  conn.at = "topic" => conn.handled = Readings(conn.sent, Topic, conn.lapsed, {Topic})[conn.received].messages

FramesSurvive == CutsAreHarmless /\ FramesArrive /\ PayloadsAreApart

\* "The session opens with an IMEI handshake: the device sends [len(2)][IMEI ascii] and
\* the server replies 0x01 to accept" (teltonika/index.ts): the reply is the login
\* message's, so a login that is in is a message.
HandshakeAnswered ==
  conn.at = "open" /\ conn.protocol = "teltonika" /\ Legible /\ Arrived(conn.received) > 0 =>
    \E j \in DOMAIN conn.decoded : conn.decoded[j].kind = "login"

\* "keeps a partial trailing frame (consumed reflects parsed bytes only)"
\* (meitrack.test.ts): wherever TCP cuts a frame, it is a message once it is in.
PartialFrameKept ==
  conn.at = "open" /\ conn.protocol = "meitrack" /\ Legible =>
    conn.decoded = Readings(conn.sent, 0, {}, Nat)[Arrived(conn.received)].messages

\* "For MQTT the IMEI is authoritative from the topic" (mqtt.ts): a frame that names no
\* device is the topic's, whatever came before.
TopicIsAuthoritative ==
  conn.at = "topic" =>
    conn.handled = Readings(conn.sent, Topic, DOMAIN conn.sent, {Topic})[conn.received].messages
=============================================================================
