--------------------------------- MODULE Codec --------------------------------
(***************************************************************************)
(* The two binary formats that commands travel in: the frames of a gateway *)
(* session (exchange_core/src/protocol.rs) and the records of the command  *)
(* journal (command_journal.rs).  Each has an encoder and a decoder, and   *)
(* they are written twice: the tables here follow the order of the put     *)
(* calls of the one and of the cursor calls of the other.                  *)
(*                                                                         *)
(* A byte is a pair: <<"price", 2>> is the second byte, little end first,  *)
(* of whatever price the message has, <<"Byte", n>> the number n and       *)
(* <<"Noise", 0>> a byte that means nothing where it stands.  So what      *)
(* holds of a message here holds of every value of its fields.  The CRC of *)
(* a region is taken to differ whenever the region does.                   *)
(***************************************************************************)
EXTENDS Integers, Sequences, SequencesExt

CONSTANTS MaxPayload, MaxRecord, \* MAX_PAYLOAD and MAX_RECORD
          FileLength             \* how many commands a journal may hold: a bound

\* Every message fits in a frame: the longest, a Logon, is 48 bytes long; and
\* every command in a record: the longest, a replacement, is 40 bytes long.
ASSUME CodecAssumption ==
  /\ MaxPayload \in Nat /\ MaxPayload >= 48
  /\ MaxRecord \in 40..MaxPayload
  /\ FileLength \in Nat

VARIABLES carrier, \* "Frame" or "Journal"
          written, \* what was encoded: one message, or the commands of a file
          bytes,   \* the bytes on their way
          damaged, \* history: whether they changed on it
          decoded, \* whether they have been decoded
          result   \* the set of what was decoded, empty for an error

codecVars == <<carrier, written, bytes, damaged, decoded, result>>

Noise == <<"Noise", 0>>

-----------------------------------------------------------------------------
(***************************************************************************)
(* Encoding.  A layout is a sequence of fields <<name, width>>.            *)
(***************************************************************************)
Field(f) == [k \in 1..f[2] |-> <<f[1], k>>]

Fields(layout) == FlattenSeq([i \in DOMAIN layout |-> Field(layout[i])])

\* to_le_bytes of a number below 256, in as many bytes.
Number(n, width) == [k \in 1..width |-> <<"Byte", IF k = 1 THEN n ELSE 0>>]

u8(name)  == <<name, 1>>
u16(name) == <<name, 2>>
u32(name) == <<name, 4>>
u64(name) == <<name, 8>>

\* Admin commands begin with a code of their own.
AdminCode == [HaltInstrument |-> 1, ResumeInstrument |-> 2, CancelAllAccount |-> 3, FreezeAccount |-> 4]

\* encode_message; encode of command_journal.rs writes the first three alike.
EncodeLayout ==
  [NewOrder |-> <<u64("client_order_id"), u32("account_id"), u16("instrument_id"), u8("side"),
                  u32("price"), u32("quantity"), u64("client_timestamp")>>,
   CancelOrder |-> <<u32("account_id"), u16("instrument_id"), u64("client_order_id")>>,
   ReplaceOrder |-> <<u32("account_id"), u16("instrument_id"), u64("target_client_order_id"),
                      u64("new_client_order_id"), u8("side"), u32("price"), u32("quantity"),
                      u64("client_timestamp")>>,
   Logon |-> <<u64("api_key"), <<"token", 32>>, u64("heartbeat_ticks")>>,
   ExecutionReport |-> <<u64("exchange_order_id"), u64("client_order_id"), u8("status"),
                         u32("filled_quantity"), u32("remaining_quantity")>>,
   Reject |-> <<u16("code")>>,
   Heartbeat |-> <<>>,
   ResendRequest |-> <<u64("begin"), u64("end")>>,
   Logout |-> <<u16("reason")>>,
   MarketData |-> <<u16("instrument_id"), u64("sequence"), u8("book_side"), u32("price"), u32("quantity")>>,
   HaltInstrument |-> <<u16("id")>>,
   ResumeInstrument |-> <<u16("id")>>,
   CancelAllAccount |-> <<u32("id")>>,
   FreezeAccount |-> <<u32("id")>>]

Kind == DOMAIN EncodeLayout

\* message_type
TypeOf(kind) == IF kind \in DOMAIN AdminCode THEN "Admin" ELSE kind

MessageType == {TypeOf(kind) : kind \in Kind}

EncodeMessage(kind) ==
  (IF kind \in DOMAIN AdminCode THEN Number(AdminCode[kind], 1) ELSE <<>>)
    \o Fields(EncodeLayout[kind])

HeaderLen == 24
Version   == <<<<"Byte", 1>>>>

\* The header as far as the checksum.
HeaderOf(kind, length) ==
  Field(<<"MAGIC", 4>>) \o Version \o <<<<TypeOf(kind), 0>>>> \o Number(0, 2)
    \o Field(u64("frame_sequence")) \o Number(length, 4)

\* WireFrame::encode
EncodeFrame(kind) ==
  LET payload == EncodeMessage(kind)
  IN  HeaderOf(kind, Len(payload)) \o Field(<<"CRC", 4>>) \o payload

\* A slip the properties must catch: the checksum covers the payload alone.
ChecksummedPayload(frame) == SubSeq(frame, HeaderLen + 1, Len(frame))

\* What frame_crc is computed over: all but the magic and the checksum.
Checksummed(frame) == SubSeq(frame, 5, 20) \o SubSeq(frame, HeaderLen + 1, Len(frame))

-----------------------------------------------------------------------------
(***************************************************************************)
(* Decoding.  A result is the set of what was decoded, empty for an error. *)
(***************************************************************************)
\* decode_message
DecodeLayout ==
  [NewOrder |-> <<u64("client_order_id"), u32("account_id"), u16("instrument_id"), u8("side"),
                  u32("price"), u32("quantity"), u64("client_timestamp")>>,
   CancelOrder |-> <<u32("account_id"), u16("instrument_id"), u64("client_order_id")>>,
   ReplaceOrder |-> <<u32("account_id"), u16("instrument_id"), u64("target_client_order_id"),
                      u64("new_client_order_id"), u8("side"), u32("price"), u32("quantity"),
                      u64("client_timestamp")>>,
   Logon |-> <<u64("api_key"), <<"token", 32>>, u64("heartbeat_ticks")>>,
   ExecutionReport |-> <<u64("exchange_order_id"), u64("client_order_id"), u8("status"),
                         u32("filled_quantity"), u32("remaining_quantity")>>,
   Reject |-> <<u16("code")>>,
   Heartbeat |-> <<>>,
   ResendRequest |-> <<u64("begin"), u64("end")>>,
   Logout |-> <<u16("reason")>>,
   MarketData |-> <<u16("instrument_id"), u64("sequence"), u8("book_side"), u32("price"), u32("quantity")>>,
   HaltInstrument |-> <<u16("id")>>,
   ResumeInstrument |-> <<u16("id")>>,
   CancelAllAccount |-> <<u32("id")>>,
   FreezeAccount |-> <<u32("id")>>]

\* Where the cursor stands before each field of a layout, and behind the last.
Offsets(layout) ==
  LET at[i \in 1..Len(layout) + 1] == IF i = 1 THEN 0 ELSE at[i - 1] + layout[i - 1][2] IN at

\* decode_side
ValidSide(cell) == cell \in {<<"side", 1>>, <<"side", 2>>}

\* The cursor calls: every field gets the bytes under the cursor.  Bytes left
\* over behind the last field are not looked at.
Read(layout, payload) ==
  LET at == Offsets(layout)
      value(i) == SubSeq(payload, at[i] + 1, at[i + 1])
  IN  IF /\ at[Len(layout) + 1] <= Len(payload)
         /\ \A i \in DOMAIN layout : layout[i][1] = "side" => ValidSide(value(i)[1])
      THEN {{<<layout[i][1], value(i)>> : i \in DOMAIN layout}}
      ELSE {}

\* What a message says, as Read finds it: its fields with their bytes.
Said(kind) == {<<EncodeLayout[kind][i][1], Field(EncodeLayout[kind][i])>> :
                 i \in DOMAIN EncodeLayout[kind]}

Named(kind, contents) == {<<kind, said>> : said \in contents}

DecodeMessage(type, payload) ==
  IF type # "Admin" THEN Named(type, Read(DecodeLayout[type], payload))
  ELSE UNION {Named(kind, Read(DecodeLayout[kind], Tail(payload))) :
                kind \in {k \in DOMAIN AdminCode :
                            payload # <<>> /\ payload[1] = <<"Byte", AdminCode[k]>>}}

\* from_le_bytes: a number, or one beyond every length there is.
NumberIn(cells) ==
  IF /\ cells[1][1] = "Byte"
     /\ \A k \in 2..Len(cells) : cells[k] = <<"Byte", 0>>
  THEN cells[1][2] ELSE MaxPayload + 1

\* WireFrame::decode: frame is what arrived, crc what the checksum was computed over.
DecodeFrame(frame, crc) ==
  IF Len(frame) < HeaderLen THEN {}
  ELSE LET length == NumberIn(SubSeq(frame, 17, 20))
           type   == frame[6][1]
       IN  IF /\ SubSeq(frame, 1, 4) = Field(<<"MAGIC", 4>>)
              /\ SubSeq(frame, 5, 5) = Version
              /\ type \in MessageType
              /\ length <= MaxPayload
              /\ Len(frame) = HeaderLen + length
              /\ SubSeq(frame, 21, 24) = Field(<<"CRC", 4>>) /\ Checksummed(frame) = crc
           THEN {<<SubSeq(frame, 9, 16), message>> :
                   message \in DecodeMessage(type, SubSeq(frame, HeaderLen + 1, Len(frame)))}
           ELSE {}

-----------------------------------------------------------------------------
(***************************************************************************)
(* The command journal.                                                    *)
(***************************************************************************)
RecordKind == [NewOrder |-> 1, CancelOrder |-> 2, ReplaceOrder |-> 3]

\* encode
Payload(kind) == Number(RecordKind[kind], 1) \o Fields(EncodeLayout[kind])

RecordHeader == 16

\* append: the checksum covers the payload alone.
JournalRecord(kind) ==
  Field(<<"MAGIC", 4>>) \o Number(1, 2) \o Number(RecordKind[kind], 1) \o Number(0, 1)
    \o Number(Len(Payload(kind)), 4) \o Field(<<"CRC", 4>>) \o Payload(kind)

File(kinds) == FlattenSeq([i \in DOMAIN kinds |-> JournalRecord(kinds[i])])

\* decode
DecodeRecord(payload) ==
  UNION {Named(kind, Read(DecodeLayout[kind], Tail(payload))) :
           kind \in {k \in DOMAIN RecordKind : payload[1] = <<"Byte", RecordKind[k]>>}}

\* The record at the front of what is left of a file: its length with the
\* header, 0 if it is refused.  crc is what its checksum was computed over.
RecordLength(left, crc) ==
  IF Len(left) < RecordHeader THEN 0
  ELSE LET length == NumberIn(SubSeq(left, 9, 12))
           end    == RecordHeader + length
       IN  IF /\ SubSeq(left, 1, 4) = Field(<<"MAGIC", 4>>)
              /\ SubSeq(left, 5, 6) = Number(1, 2)
              /\ length \in 1..MaxRecord
              /\ end <= Len(left)
              /\ SubSeq(left, 13, 16) = Field(<<"CRC", 4>>)
              /\ SubSeq(left, RecordHeader + 1, end) = crc
           THEN end ELSE 0

\* A slip the properties must catch: a bad record is taken for the end.
RefusedAsEnd(so) == [so EXCEPT !.left = <<>>]

Refused(so) == [left |-> <<>>, read |-> {}]

\* A turn of the loop in decode_records, at the record that was written as kind.
ReadRecord(so, kind) ==
  LET n == RecordLength(so.left, Payload(kind))
  IN  IF so.left = <<>> THEN so
      ELSE IF n = 0 THEN Refused(so)
      ELSE [left |-> SubSeq(so.left, n + 1, Len(so.left)),
            read |-> {Append(commands, c) : commands \in so.read,
                        c \in DecodeRecord(SubSeq(so.left, RecordHeader + 1, n))}]

\* decode_records: one bad record refuses the whole file.
DecodeRecords(file, kinds) ==
  LET run == FoldLeft(ReadRecord, [left |-> file, read |-> {<<>>}], kinds)
  IN  IF run.left = <<>> THEN run.read ELSE Refused(run).read

-----------------------------------------------------------------------------
(***************************************************************************)
(* A frame or a file is written, at most one thing happens to its bytes,   *)
(* and it is decoded.                                                      *)
(***************************************************************************)
CodecInit ==
  /\ \/ /\ carrier = "Frame"
        /\ written \in {<<kind>> : kind \in Kind}
        /\ bytes = EncodeFrame(written[1])
     \/ /\ carrier = "Journal"
        /\ written \in UNION {[1..n -> DOMAIN RecordKind] : n \in 0..FileLength}
        /\ bytes = File(written)
  /\ damaged = FALSE /\ decoded = FALSE /\ result = {}

\* What a byte may change into: noise, or something that could stand there.
Forged(cell) ==
  {Noise, <<"side", 2>>} \cup {<<"Byte", n>> : n \in 0..4}
    \cup (IF cell[1] = "Byte" THEN {<<"Byte", cell[2] + 1>>} ELSE {})
    \cup (IF cell[1] \in MessageType THEN {<<type, 0>> : type \in MessageType} ELSE {})

Damage ==
  /\ ~damaged /\ ~decoded
  /\ damaged' = TRUE
  /\ \/ \E i \in DOMAIN bytes : \E cell \in Forged(bytes[i]) \ {bytes[i]} :
          bytes' = [bytes EXCEPT ![i] = cell]
     \/ \E n \in 0..Len(bytes) - 1 : bytes' = SubSeq(bytes, 1, n)
     \/ bytes' = Append(bytes, Noise)
  /\ UNCHANGED <<carrier, written, decoded, result>>

Decode ==
  /\ ~decoded
  /\ decoded' = TRUE
  /\ result' = IF carrier = "Frame" THEN DecodeFrame(bytes, Checksummed(EncodeFrame(written[1])))
               ELSE DecodeRecords(bytes, written)
  /\ UNCHANGED <<carrier, written, bytes, damaged>>

CodecNext == Damage \/ Decode

CodecSpec == CodecInit /\ [][CodecNext]_codecVars

-----------------------------------------------------------------------------
Meant(kinds) == [i \in DOMAIN kinds |-> <<kinds[i], Said(kinds[i])>>]

\* A frame is read as what was encoded, each field with its own bytes, or it is
\* refused: when it has lost, gained or changed a byte anywhere, in its type, its
\* number and its length as well as in its payload (encode_message, frame_crc).
FrameExactOrRefused ==
  carrier = "Frame" /\ decoded =>
    result = IF damaged THEN {} ELSE {<<Field(u64("frame_sequence")), Meant(written)[1]>>}

\* A journal yields nothing but the commands that were written, in order, and
\* all of those whose bytes are in the file: no record is skipped, altered or
\* made up, wherever the file was cut or changed (decode_records), and a file
\* that was left alone yields everything.
JournalYieldsWhatIsThere ==
  carrier = "Journal" /\ decoded =>
    /\ ~damaged => result = {Meant(written)}
    /\ \A commands \in result :
         /\ IsPrefix(commands, Meant(written))
         /\ Len(bytes) = Len(File(SubSeq(written, 1, Len(commands))))
===============================================================================
