------------------------------ MODULE P3Frames ------------------------------
(***************************************************************************)
(* The byte stream of a P3 decoder: frames START ... END whose inner bytes *)
(* are escaped arrive over TCP in any pieces; P3StreamDecoder cuts frames  *)
(* out of its buffer, P3Parser reads their fields, P3DecoderConnection     *)
(* tells the passings, states and identifications that are complete, and   *)
(* opens the connection again when it breaks.                              *)
(*                                                                         *)
(* A header is its checksum (any byte: a wrong checksum rejects no frame)  *)
(* and its type.  Left out: the record types _dispatch drops, ProChip      *)
(* transponders, numbers for hand passings, signal data, texts, and frames *)
(* that are not well formed, which no stream of whole frames contains.     *)
(***************************************************************************)
EXTENDS Integers, SequencesExt

CONSTANTS
  Frames,   \* frames the decoder sends: [checksum, tor, fields], fields a sequence of [type, value]
  MaxSends, \* bound: frames sent
  MaxCuts   \* bound: connections broken

VARIABLES
  p3Open,  \* the socket is open
  onLine,  \* bytes on their way
  buffer,  \* P3StreamDecoder.buffer
  heard,   \* events told by the callbacks
  meant,   \* history: the events of the frames sent, without those that a break cut off
  sends, cuts

frameVars == <<p3Open, onLine, buffer, heard, meant, sends, cuts>>

(* P3_CONTROL *)
START == 142
ESC == 141
END == 143

PASSING == 1
STATUS == 2
VERSION == 3

(* STATUS_FIELD *)
NOISE == 1
GPS == 6
TEMPERATURE == 7
INPUT_VOLTAGE == 12

(* PASSING_FIELD; the other records have their decoder id in the field of the same number. *)
NUMBER == 1
TRANX == 3
RTC_TIME == 4
UTC_TIME == 16
DECODER_ID == 129

-----------------------------------------------------------------------------
(* Bytes of a frame *)

Inner(bytes) == SubSeq(bytes, 2, Len(bytes) - 1)

EscapeMessage(bytes) ==
  <<bytes[1]>>
    \o FlattenSeq([i \in DOMAIN Inner(bytes) |->
                     LET b == Inner(bytes)[i] IN IF b \in {START, ESC, END} THEN <<ESC, (b + 32) % 256>> ELSE <<b>>])
    \o <<bytes[Len(bytes)]>>

(* What comes after an escape byte is data, 32 lower; an escape byte itself is dropped. *)
DeEscapeMessage(bytes) ==
  LET inner == Inner(bytes)
      escaped[i \in 0 .. Len(inner)] == i > 1 /\ inner[i - 1] = ESC /\ ~escaped[i - 1]
      data == SelectSeq([i \in DOMAIN inner |-> i], LAMBDA i : escaped[i] \/ inner[i] # ESC)
  IN <<bytes[1]>>
       \o [k \in DOMAIN data |-> LET i == data[k] IN IF escaped[i] THEN (inner[i] - 32) % 256 ELSE inner[i]]
       \o <<bytes[Len(bytes)]>>

(* parseTlvs: the fields of a body, each type, length and value. *)
ParseTlvs(body) ==
  LET next(offset) == offset + 2 + body[offset + 1]
      field[offset \in 1 .. Len(body) + 1] ==
        IF offset > Len(body) THEN <<>>
        ELSE <<[type |-> body[offset], value |-> SubSeq(body, offset + 2, next(offset) - 1)]>> \o field[next(offset)]
  IN field[1]

NumericLe(bytes) == FoldRight(LAMBDA b, n : b + 256 * n, bytes, 0)

-----------------------------------------------------------------------------
(* What a frame tells: parseRecord and _dispatch. *)

(* The passing record: of a field given twice the last value, of the times the one in UTC. *)
PassingOf(fields) ==
  LET last(types) == LET given == SelectSeq(fields, LAMBDA f : f.type \in types) IN given[Len(given)].value
      has(type) == \E i \in DOMAIN fields : fields[i].type = type
  IN IF has(NUMBER) /\ has(TRANX) /\ has(DECODER_ID) /\ (has(RTC_TIME) \/ has(UTC_TIME))
       THEN <<[number |-> NumericLe(last({NUMBER})), transponder |-> NumericLe(last({TRANX})),
               decoder |-> Reverse(last({DECODER_ID})),
               time |-> IF has(UTC_TIME) THEN NumericLe(last({UTC_TIME}))
                        ELSE NumericLe((SelectSeq(fields, LAMBDA f : f.type = RTC_TIME))[1].value),
               utc |-> has(UTC_TIME)]>>
       ELSE <<>>

(* The state of the decoder: what is not given counts as 0, the voltage is in tenths. *)
StatusOf(fields) ==
  LET given(type) == SelectSeq(fields, LAMBDA f : f.type = type)
      number(type) == FoldLeft(LAMBDA n, f : NumericLe(f.value), 0, given(type))
      ids == given(DECODER_ID)
  IN IF ids = <<>> THEN <<>>
     ELSE <<[noise |-> number(NOISE), gpsLocked |-> number(GPS) = 1, temperature |-> number(TEMPERATURE),
             tenthsOfVolt |-> number(INPUT_VOLTAGE), decoder |-> Reverse(ids[Len(ids)].value)]>>

(* The identification; its decoder id keeps the order of the bytes. *)
VersionOf(fields) ==
  LET ids == SelectSeq(fields, LAMBDA f : f.type = DECODER_ID)
  IN IF ids = <<>> THEN <<>> ELSE <<[identified |-> ids[Len(ids)].value]>>

(* Header and fields. *)
ParseRecord(frame) ==
  LET bytes == DeEscapeMessage(frame)
  IN [checksum |-> bytes[2], tor |-> bytes[3], fields |-> ParseTlvs(SubSeq(bytes, 4, Len(bytes) - 1))]

Dispatch(frame) ==
  LET parsed == ParseRecord(frame)
  IN CASE parsed.tor = PASSING -> PassingOf(parsed.fields)
       [] parsed.tor = STATUS -> StatusOf(parsed.fields)
       [] parsed.tor = VERSION -> VersionOf(parsed.fields)
       [] OTHER -> <<>>

(* P3StreamDecoder.push: frames from a START to the next END; bytes before a START are skipped. *)
StartsFrom(bytes, from) == {i \in from .. Len(bytes) : bytes[i] = START}
EndsAfter(bytes, start) == {i \in start + 1 .. Len(bytes) : bytes[i] = END}
First(S) == CHOOSE i \in S : \A j \in S : i <= j

CutFrom(bytes) ==
  LET cut[from \in 1 .. Len(bytes) + 1] ==
        LET s == First(StartsFrom(bytes, from))
            e == First(EndsAfter(bytes, s))
        IN IF StartsFrom(bytes, from) = {} THEN [rest |-> <<>>, events |-> <<>>]
           ELSE IF EndsAfter(bytes, s) = {} THEN [rest |-> SubSeq(bytes, s, Len(bytes)), events |-> <<>>]
           ELSE [rest |-> cut[e + 1].rest, events |-> Dispatch(SubSeq(bytes, s, e)) \o cut[e + 1].events]
  IN cut

Cut(bytes) == CutFrom(bytes)[1]

-----------------------------------------------------------------------------
(* The decoder *)

Encode(f) ==
  EscapeMessage(<<START, f.checksum, f.tor>>
                  \o FlattenSeq([i \in DOMAIN f.fields |->
                                   <<f.fields[i].type, Len(f.fields[i].value)>> \o f.fields[i].value])
                  \o <<END>>)

Little(value) == FoldRight(LAMBDA b, n : b + 256 * n, value, 0)

(* What a frame says, from its fields. *)
Meaning(f) ==
  LET of(type) == {f.fields[i].value : i \in {j \in DOMAIN f.fields : f.fields[j].type = type}}
      the(type) == Little(CHOOSE v \in of(type) : TRUE)
      id == CHOOSE v \in of(DECODER_ID) : TRUE
      reversed == [i \in DOMAIN id |-> id[Len(id) + 1 - i]]
      orZero(type) == IF of(type) = {} THEN 0 ELSE the(type)
  IN CASE f.tor = VERSION /\ of(DECODER_ID) # {} -> <<[identified |-> id]>>
       [] f.tor = STATUS /\ of(DECODER_ID) # {} ->
            <<[noise |-> orZero(NOISE), gpsLocked |-> orZero(GPS) = 1, temperature |-> orZero(TEMPERATURE),
               tenthsOfVolt |-> orZero(INPUT_VOLTAGE), decoder |-> reversed]>>
       [] /\ f.tor = PASSING /\ \A t \in {NUMBER, TRANX, DECODER_ID} : of(t) # {}
          /\ of(RTC_TIME) \cup of(UTC_TIME) # {} ->
            <<[number |-> the(NUMBER), transponder |-> the(TRANX),
               decoder |-> reversed,
               time |-> IF of(UTC_TIME) # {} THEN the(UTC_TIME) ELSE the(RTC_TIME),
               utc |-> of(UTC_TIME) # {}]>>
       [] OTHER -> <<>>

SendFrame(f) ==
  /\ p3Open /\ sends < MaxSends
  /\ onLine' = onLine \o Encode(f)
  /\ meant' = meant \o Meaning(f)
  /\ sends' = sends + 1
  /\ UNCHANGED <<p3Open, buffer, heard, cuts>>

-----------------------------------------------------------------------------
(* The connection *)

(* A "data" event with the next n bytes. *)
Chunk(n) ==
  /\ n \in 1 .. Len(onLine)
  /\ LET cut == Cut(buffer \o SubSeq(onLine, 1, n))
     IN buffer' = cut.rest /\ heard' = heard \o cut.events
  /\ onLine' = SubSeq(onLine, n + 1, Len(onLine))
  /\ UNCHANGED <<p3Open, meant, sends, cuts>>

(* The connection breaks; what was on its way is lost. *)
Break ==
  /\ p3Open /\ cuts < MaxCuts
  /\ p3Open' = FALSE /\ onLine' = <<>> /\ meant' = heard
  /\ cuts' = cuts + 1
  /\ UNCHANGED <<buffer, heard, sends>>

(* Mutant of Open: without stream.reset(). *)
OpenKeepsBuffer ==
  /\ ~p3Open /\ p3Open' = TRUE
  /\ \E f \in Frames : \E k \in 2 .. Len(Encode(f)) + 1 : onLine' = SubSeq(Encode(f), k, Len(Encode(f)))
  /\ UNCHANGED <<buffer, heard, meant, sends, cuts>>

(* The connection is made: what the decoder sends first may be the rest of a frame. *)
Open ==
  /\ ~p3Open /\ p3Open' = TRUE /\ buffer' = <<>>
  /\ \E f \in Frames : \E k \in 2 .. Len(Encode(f)) + 1 : onLine' = SubSeq(Encode(f), k, Len(Encode(f)))
  /\ UNCHANGED <<heard, meant, sends, cuts>>

Init ==
  /\ p3Open = FALSE /\ onLine = <<>> /\ buffer = <<>>
  /\ heard = <<>> /\ meant = <<>>
  /\ sends = 0 /\ cuts = 0

Next ==
  \/ \E f \in Frames : SendFrame(f)
  \/ \E n \in 1 .. Len(onLine) : Chunk(n)
  \/ Break \/ Open

Spec == Init /\ [][Next]_frameVars

-----------------------------------------------------------------------------
(* The variables have their types. *)
TypeOK ==
  /\ p3Open \in BOOLEAN
  /\ onLine \in Seq(0 .. 255) /\ buffer \in Seq(0 .. 255)
  /\ buffer # <<>> => buffer[1] = START
  /\ sends \in 0 .. MaxSends /\ cuts \in 0 .. MaxCuts

(* However TCP cuts the stream, wherever in a frame a connection begins and whatever bytes a frame
   has: the callbacks have told the frames that were sent, each once, in order and with their
   values, up to those still under way; nothing a broken connection left behind gets into them. *)
FramesIntact ==
  /\ IsPrefix(heard, meant)
  /\ p3Open /\ onLine = <<>> => heard = meant
=============================================================================
