------------------------------ MODULE Decoders ------------------------------
(***************************************************************************)
(* The decoders of packages/protocols, each as one iteration of its loop.  *)
(*                                                                         *)
(* A byte is a number.  Text fields (a command, an IMEI, hex digits) and   *)
(* the blocks read as a whole (a BCD IMEI, an AVL record) are one byte     *)
(* here, and a checksum is a sum; markers, lengths, offsets and the order  *)
(* of the checks are the code's.  IMEI 0 is none.                          *)
(***************************************************************************)
EXTENDS Naturals, Sequences, SequencesExt

Protocol == {"gt06", "h02", "teltonika", "nmea", "queclink", "meitrack"}
IsImei(x) == x \in 1 .. 9

LOC == 70     \* a location report: V1, RMC, GTFRI, AAA
BEAT == 71     \* a heartbeat: HTBT, GTHBD
HQ == 72
RESP == 73
ACK == 74
RECORD == 75   \* one AVL record

From(b, i) == SubSeq(b, i, Len(b))
Total(b) == LET sum[n \in 0 .. Len(b)] == IF n = 0 THEN 0 ELSE sum[n - 1] + b[n] IN sum[Len(b)]
crc16(b) == Total(b) % 65536
xorChecksum(b) == 128 + (Total(b) % 64)   \* hex digits, never a marker
Least(S) == IF S = {} THEN 0 ELSE Min(S)
indexOf(b, byte, i) == Least({k \in i .. Len(b) : b[k] = byte})

\* One iteration of a decoder's loop: leave it, go on or throw; the bytes it
\* consumes; the messages; the IMEI in the context.
Stop(n, imei) == [go |-> "stop", n |-> n, messages |-> <<>>, imei |-> imei]
Skip(n, imei) == [Stop(n, imei) EXCEPT !.go = "next"]
Take(n, messages, imei) == [Skip(n, imei) EXCEPT !.messages = messages]
\* Two iterations as one.
After(d, i) == [i EXCEPT !.n = d.n + @, !.messages = d.messages \o @]
Throw(imei) == [Stop(0, imei) EXCEPT !.go = "throw"]
Message(kind, imei) == [kind |-> kind, imei |-> imei]

KindOf(cmd) == CASE cmd = LOC -> "location" [] cmd = BEAT -> "heartbeat" [] OTHER -> "unknown"

----------------------------------------------------------------------------
(* GT06: 78 78 | len | protocol | info | serial(2) | crc(2) | 0D 0A *)

Gt06ParseFrame(protocol, info, n, imei) ==
  CASE protocol = 1  -> LET own == IF info = <<>> THEN 0 ELSE info[1]
                        IN  Take(n, <<Message("login", own)>>, own)
    [] protocol \in {18, 34, 22, 38} ->   \* a position is read at fixed offsets
         IF Len(info) < 2 THEN Throw(imei)
         ELSE Take(n, <<Message(IF protocol \in {18, 34} THEN "location" ELSE "alarm", imei)>>, imei)
    [] protocol = 19 -> Take(n, <<Message("heartbeat", imei)>>, imei)
    [] OTHER         -> Take(n, <<Message("unknown", imei)>>, imei)

Gt06Iteration(b, imei) ==
  LET len      == b[3]
      frameLen == len + 5
      crcPos   == len + 2
  IN  CASE Len(b) < 5                             -> Stop(0, imei)
        [] Len(b) >= 5 /\ ~(b[1] = 120 /\ b[2] = 120) -> Skip(1, imei)
        [] OTHER ->
             CASE Len(b) < frameLen               -> Stop(0, imei)
               [] Len(b) >= frameLen /\ b[crcPos] * 256 + b[crcPos + 1] # crc16(SubSeq(b, 3, crcPos - 1))
                                                  -> Skip(1, imei)
               [] OTHER -> Gt06ParseFrame(b[4], SubSeq(b, 5, crcPos - 3), frameLen, imei)

----------------------------------------------------------------------------
(* H02: *HQ,imei,cmd,...#   Queclink: +RESP:type,version,imei,...$ *)

\* Mutant: a frame whose end has not come yet is dropped like noise.
DelimitedDropsPartial(b, first, last) ==
  LET start == indexOf(b, first, 1)
      end   == indexOf(b, last, start + 1)
  IN  IF start = 0 \/ end = 0 THEN [whole |-> FALSE, n |-> Len(b), parts |-> <<>>]
      ELSE [whole |-> TRUE, n |-> end, parts |-> SubSeq(b, start + 1, end - 1)]

\* Noise goes, half a frame stays.
Delimited(b, first, last) ==
  LET start == indexOf(b, first, 1)
      end   == indexOf(b, last, start + 1)
  IN  CASE start = 0             -> [whole |-> FALSE, n |-> Len(b), parts |-> <<>>]
        [] start # 0 /\ end = 0  -> [whole |-> FALSE, n |-> start - 1, parts |-> <<>>]
        [] OTHER                 -> [whole |-> TRUE, n |-> end, parts |-> SubSeq(b, start + 1, end - 1)]

H02Iteration(b, imei) ==
  LET f == Delimited(b, 42, 35)
  IN  CASE ~f.whole -> Stop(f.n, imei)
        [] f.whole /\ Len(f.parts) >= 3 /\ f.parts[1] = HQ ->
             Take(f.n, <<Message(KindOf(f.parts[3]), f.parts[2])>>, f.parts[2])
        [] OTHER -> Skip(f.n, imei)

\* An acknowledged heartbeat, or a report.
QueclinkKind(prefix, type) ==
  CASE prefix = ACK /\ type = BEAT -> "heartbeat" [] type = LOC -> "location" [] OTHER -> "unknown"

QueclinkIteration(b, imei) ==
  LET f == Delimited(b, 43, 36)
  IN  CASE ~f.whole -> Stop(f.n, imei)
        [] f.whole /\ Len(f.parts) >= 4 /\ f.parts[1] \in {RESP, ACK} /\ IsImei(f.parts[4]) ->
             Take(f.n, <<Message(QueclinkKind(f.parts[1], f.parts[2]), f.parts[4])>>, f.parts[4])
        [] OTHER -> Skip(f.n, imei)

----------------------------------------------------------------------------
(* NMEA: lines; #IMEI,imei or $body*checksum *)

NmeaLine(line, n, imei) ==
  LET star == indexOf(line, 42, 1)
      body == SubSeq(line, 2, IF star = 0 THEN Len(line) ELSE star - 1)
  IN  CASE Len(line) = 2 /\ line[1] = 35 /\ IsImei(line[2]) -> Take(n, <<Message("login", line[2])>>, line[2])
        [] Len(line) >= 2 /\ line[1] = 36 /\ body # <<>> /\ body[1] = LOC
             /\ (star # 0 => From(line, star + 1) = <<xorChecksum(body)>>) -> Take(n, <<Message("location", imei)>>, imei)
        [] OTHER -> Skip(n, imei)

NmeaIteration(b, imei) ==
  LET nl == indexOf(b, 10, 1)
  IN  IF nl = 0 THEN Stop(0, imei) ELSE NmeaLine(SubSeq(b, 1, nl - 1), nl, imei)

----------------------------------------------------------------------------
(* Meitrack: $$flag,imei,cmd,...*checksum CR LF *)

MeitrackParsed(frame, star, body, imei) ==
  IF star # 0 /\ Len(frame) - star >= 3 /\ frame[star + 1] = xorChecksum(SubSeq(frame, 1, star - 1))
     /\ Len(body) >= 3 /\ IsImei(body[2])
  THEN Take(Len(frame), <<Message(IF body[3] = LOC THEN "location" ELSE "heartbeat", body[2])>>, body[2])
  ELSE Skip(Len(frame), imei)

MeitrackFrame(frame, imei) ==
  LET star == Max({0} \cup {k \in 1 .. Len(frame) - 2 : frame[k] = 42})
  IN  MeitrackParsed(frame, star, SubSeq(frame, 3, star - 1), imei)

\* Without a "$$" everything goes, a last "$" included.
MeitrackIteration(b, imei) ==
  LET FirstPair(x, y, i) == Least({k \in i .. Len(b) - 1 : b[k] = x /\ b[k + 1] = y})
      start == FirstPair(36, 36, 1)
      end   == FirstPair(13, 10, start + 2) + 1
  IN  CASE Len(b) < 2                -> Stop(0, imei)
        [] Len(b) >= 2 /\ start = 0  -> Stop(Len(b), imei)
        [] OTHER -> IF end = 1 THEN Stop(start - 1, imei)
                    ELSE After(Skip(start - 1, imei), MeitrackFrame(SubSeq(b, start, end), imei))

----------------------------------------------------------------------------
(* Teltonika: length(2) imei; then 0(4) | length(4) | codec count records count | crc(4) *)

AvlMessages(data, imei) ==
  LET count   == data[2]
      records == SubSeq(data, 3, Len(data) - 1)
  IN  CASE Len(data) # count + 3 \/ data[Len(data)] # count \/ \E i \in DOMAIN records : records[i] # RECORD -> <<>>
        [] OTHER -> IF count = 0 THEN <<Message("heartbeat", imei)>>
                    ELSE [i \in 1 .. count |-> Message("location", imei)]

TeltonikaHandshake(b) ==
  LET len == b[1] * 256 + b[2]
  IN  IF Len(b) < 2 \/ len < 1 \/ len > 20 \/ Len(b) < 2 + len \/ \E i \in 3 .. 2 + len : ~IsImei(b[i])
      THEN Stop(0, 0)
      ELSE Take(2 + len, <<Message("login", b[3])>>, b[3])

TeltonikaIteration(b, imei) ==
  LET preamble   == \A i \in 1 .. 4 : b[i] = 0
      dataLength == ((b[5] * 256 + b[6]) * 256 + b[7]) * 256 + b[8]
      frameLen   == dataLength + 12
      data       == SubSeq(b, 9, 8 + dataLength)
  IN  CASE imei = 0 -> IF b = <<>> THEN Stop(0, imei) ELSE TeltonikaHandshake(b)
        [] imei # 0 /\ Len(b) < 12 -> Stop(0, imei)
        [] imei # 0 /\ Len(b) >= 12 ->
             CASE ~preamble \/ b[5] > 0 \/ b[6] > 0 \/ dataLength < 3 \/ dataLength > 61440 -> Skip(1, imei)
               [] OTHER ->
                    CASE Len(b) < frameLen -> Stop(0, imei)
                      [] Len(b) >= frameLen /\ b[frameLen - 1] * 256 + b[frameLen] # crc16(data) -> Skip(1, imei)
                      [] OTHER -> Take(frameLen, IF data[1] \in {8, 142} /\ data[2] <= 128
                                                 THEN AvlMessages(data, imei) ELSE <<>>, imei)
=============================================================================
