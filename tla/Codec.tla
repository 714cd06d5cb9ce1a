-------------------------------- MODULE Codec -------------------------------
(***************************************************************************)
(* matchx-journal, codec.rs: one command as a framed record                *)
(*   [payload_len][sequence][payload][crc].                                *)
(* A file is a sequence of cells.  The length header is two cells, because *)
(* a write may stop inside it; the sequence, each field of the payload and *)
(* the checksum are one cell each.  The checksum is taken to be perfect:   *)
(* the crc of a text is the text itself.  A header read from cells of two  *)
(* different fields gives a length that the limit of 1 << 20, the length   *)
(* of the data or the checksum refuses; the two kinds of error are treated *)
(* alike by every caller and are one value here.  Scan and RecoverFile are *)
(* what reader.rs and recovery.rs do with a single file.                   *)
(***************************************************************************)
EXTENDS Integers, Sequences, SequencesExt

CONSTANT None      \* Option::None

HeaderLen == 2
InvalidData == [ok |-> FALSE]

\* The codes of the enums are their positions, from 0.
Sides == <<"Bid", "Ask">>
OrderTypes == <<"Limit", "Market", "PostOnly", "StopLimit", "Iceberg">>
TimesInForce == <<"GTC", "IOC", "FOK">>
Code(names, name) == (CHOOSE i \in DOMAIN names : names[i] = name) - 1

\* The commands there are: the tags and fields of the variants of enum Command.
IsCommand(cmd) ==
  \/ /\ cmd.op = "NewOrder"
     /\ cmd = [op |-> "NewOrder", id |-> cmd.id, instrument_id |-> cmd.instrument_id,
               side |-> cmd.side, price |-> cmd.price, qty |-> cmd.qty,
               order_type |-> cmd.order_type, time_in_force |-> cmd.time_in_force,
               visible_qty |-> cmd.visible_qty, stop_price |-> cmd.stop_price,
               stp_group |-> cmd.stp_group]
     /\ \E i \in DOMAIN Sides : Sides[i] = cmd.side
     /\ \E i \in DOMAIN OrderTypes : OrderTypes[i] = cmd.order_type
     /\ \E i \in DOMAIN TimesInForce : TimesInForce[i] = cmd.time_in_force
  \/ /\ cmd.op = "CancelOrder"
     /\ cmd = [op |-> "CancelOrder", id |-> cmd.id]
  \/ /\ cmd.op = "ModifyOrder"
     /\ cmd = [op |-> "ModifyOrder", id |-> cmd.id, new_price |-> cmd.new_price,
               new_qty |-> cmd.new_qty]

\* Mutant: a None writes no tag.
PushOptionUntagged(v) == IF v = None THEN <<>> ELSE <<1, v>>

PushOption(v) == IF v = None THEN <<0>> ELSE <<1, v>>

Encode(cmd) ==
  CASE cmd.op = "NewOrder" ->
         <<0, cmd.id, cmd.instrument_id, Code(Sides, cmd.side), cmd.price, cmd.qty,
           Code(OrderTypes, cmd.order_type), Code(TimesInForce, cmd.time_in_force)>>
           \o PushOption(cmd.visible_qty) \o PushOption(cmd.stop_price)
           \o PushOption(cmd.stp_group)
    [] cmd.op = "CancelOrder" -> <<1, cmd.id>>
    [] cmd.op = "ModifyOrder" -> <<2, cmd.id, cmd.new_price, cmd.new_qty>>

\* Reads the option whose tag is at pos; next is where the one after it starts.
ReadOption(b, pos) ==
  IF pos > Len(b) \/ b[pos] \notin {0, 1} THEN InvalidData
  ELSE IF b[pos] = 0 THEN [ok |-> TRUE, value |-> None, next |-> pos + 1]
  ELSE IF pos + 1 > Len(b) THEN InvalidData
  ELSE [ok |-> TRUE, value |-> b[pos + 1], next |-> pos + 2]

\* Bytes left behind the last field are ignored.
DecodeNewOrder(b) ==
  LET visible == ReadOption(b, 9)
      stop    == IF visible.ok THEN ReadOption(b, visible.next) ELSE InvalidData
      group   == IF stop.ok THEN ReadOption(b, stop.next) ELSE InvalidData
  IN  IF /\ group.ok
         /\ b[4] + 1 \in DOMAIN Sides
         /\ b[7] + 1 \in DOMAIN OrderTypes
         /\ b[8] + 1 \in DOMAIN TimesInForce
      THEN [ok |-> TRUE,
            cmd |-> [op |-> "NewOrder", id |-> b[2], instrument_id |-> b[3],
                     side |-> Sides[b[4] + 1], price |-> b[5], qty |-> b[6],
                     order_type |-> OrderTypes[b[7] + 1],
                     time_in_force |-> TimesInForce[b[8] + 1],
                     visible_qty |-> visible.value, stop_price |-> stop.value,
                     stp_group |-> group.value]]
      ELSE InvalidData

Decode(b) ==
  CASE Len(b) >= 9 /\ b[1] = 0 -> DecodeNewOrder(b)
    [] Len(b) >= 2 /\ b[1] = 1 -> [ok |-> TRUE, cmd |-> [op |-> "CancelOrder", id |-> b[2]]]
    [] Len(b) >= 4 /\ b[1] = 2 -> [ok |-> TRUE, cmd |-> [op |-> "ModifyOrder", id |-> b[2],
                                                         new_price |-> b[3], new_qty |-> b[4]]]
    [] OTHER -> InvalidData
-----------------------------------------------------------------------------
Crc(sequence, payload) == <<"crc", sequence, payload>>

EncodeRecord(sequence, cmd) ==
  LET payload == [i \in DOMAIN Encode(cmd) |-> <<"field", Encode(cmd)[i]>>]
  IN  << <<"lo", Len(payload)>>, <<"hi", Len(payload)>>, <<"sequence", sequence>> >>
        \o payload \o <<Crc(<<"sequence", sequence>>, payload)>>

Read(used, sequence, command) ==
  IF command.ok
  THEN [ok |-> TRUE, used |-> used, entry |-> [sequence |-> sequence, command |-> command.cmd]]
  ELSE InvalidData

Fields(payload) == [i \in DOMAIN payload |-> payload[i][2]]

\* The frame of the first required cells.
DecodeFrame(data, required, payload) ==
  IF Len(data) < required \/ data[required] # Crc(data[HeaderLen + 1], payload)
  THEN InvalidData
  ELSE Read(required, data[HeaderLen + 1][2], Decode(Fields(payload)))

\* The record that starts at the first cell of data, and the cells it takes.
DecodeRecord(data) ==
  IF Len(data) < HeaderLen \/ <<data[1][1], data[2][1]>> # <<"lo", "hi">>
  THEN InvalidData
  ELSE DecodeFrame(data, HeaderLen + 1 + data[1][2] + 1,
                   SubSeq(data, HeaderLen + 2, HeaderLen + 1 + data[1][2]))

\* One turn of the loop of Scan at pos, with what the later turns give.
Turn(r, pos, from) ==
  IF r.ok THEN [from[pos + r.used] EXCEPT !.entries = <<r.entry>> \o @]
  ELSE [entries |-> <<>>, end |-> pos]

\* The loop that readers and recovery share: decode from the start of the file until
\* the end or an error.  The entries, and the cells they take.
Scan(data) ==
  LET from[pos \in 0 .. Len(data)] ==
        IF pos = Len(data) THEN [entries |-> <<>>, end |-> pos]
        ELSE Turn(DecodeRecord(SubSeq(data, pos + 1, Len(data))), pos, from)
  IN  from[0]

\* Mutant: the file is cut in front of the last good record.
RecoverFileShort(data) ==
  LET scan == Scan(data)
      used == IF scan.entries = <<>> THEN 0
              ELSE Len(EncodeRecord(Last(scan.entries).sequence, Last(scan.entries).command))
  IN  [data |-> IF scan.end < Len(data) THEN SubSeq(data, 1, scan.end - used) ELSE data,
       last_valid_sequence |-> IF scan.entries = <<>> THEN 0 ELSE Last(scan.entries).sequence,
       truncated_bytes |-> Len(data) - scan.end]

\* Mutant: the torn tail is reported and left in place.
RecoverFileLeavesTail(data) ==
  LET scan == Scan(data)
  IN  [data |-> data,
       last_valid_sequence |-> IF scan.entries = <<>> THEN 0 ELSE Last(scan.entries).sequence,
       truncated_bytes |-> Len(data) - scan.end]

\* recover_file: keep the records up to the first error, cut the rest.
RecoverFile(data) ==
  LET scan == Scan(data)
  IN  [data |-> SubSeq(data, 1, scan.end),
       last_valid_sequence |-> IF scan.entries = <<>> THEN 0 ELSE Last(scan.entries).sequence,
       truncated_bytes |-> Len(data) - scan.end]
=============================================================================
