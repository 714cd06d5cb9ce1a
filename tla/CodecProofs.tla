---------------------------- MODULE CodecProofs -----------------------------
(***************************************************************************)
(* What the framing of the journal guarantees, for every command and every *)
(* file: a record decodes to what was encoded whatever follows it, a torn  *)
(* record does not decode, records behind a prefix that scans to its end   *)
(* are found and nothing appended hides a record that was readable.        *)
(***************************************************************************)
EXTENDS Codec, SequenceTheorems, WellFoundedInduction, TLAPS

\* The code of a name is its position, counted from 0.
LEMMA CodeNames ==
  ASSUME NEW names, NEW name, \E i \in DOMAIN names : names[i] = name, DOMAIN names \subseteq Int
  PROVE  /\ Code(names, name) \in Int
         /\ Code(names, name) + 1 \in DOMAIN names
         /\ names[Code(names, name) + 1] = name
<1> DEFINE i == CHOOSE k \in DOMAIN names : names[k] = name
<1>1. i \in DOMAIN names /\ names[i] = name
  OBVIOUS
<1> HIDE DEF i
<1>2. Code(names, name) = i - 1
  BY DEF Code, i
<1>3. (i - 1) + 1 = i /\ i \in Int
  BY <1>1
<1>4. QED
  BY <1>1, <1>2, <1>3

\* The parts of a concatenation, by position.
LEMMA ConcatParts ==
  ASSUME NEW S, NEW s \in Seq(S), NEW t \in Seq(S)
  PROVE  /\ s \o t \in Seq(S)
         /\ Len(s) \in Nat /\ Len(t) \in Nat
         /\ Len(s \o t) = Len(s) + Len(t)
         /\ \A i \in 1 .. Len(s) : (s \o t)[i] = s[i]
         /\ \A i \in 1 .. Len(t) : (s \o t)[Len(s) + i] = t[i]
<1>1. Len(s) \in Nat /\ Len(t) \in Nat
  BY LenProperties
<1>2. /\ s \o t \in Seq(S) /\ Len(s \o t) = Len(s) + Len(t)
      /\ \A i \in 1 .. Len(s) + Len(t) : (s \o t)[i] = IF i <= Len(s) THEN s[i] ELSE t[i - Len(s)]
  BY ConcatProperties
<1>3. \A i \in 1 .. Len(s) : i \in 1 .. Len(s) + Len(t) /\ i <= Len(s)
  BY <1>1
<1>4. \A i \in 1 .. Len(t) : /\ Len(s) + i \in 1 .. Len(s) + Len(t)
                            /\ ~(Len(s) + i <= Len(s))
                            /\ (Len(s) + i) - Len(s) = i
  BY <1>1
<1>5. QED
  BY <1>1, <1>2, <1>3, <1>4

LEMMA PushOptionType ==
  ASSUME NEW S, 0 \in S, 1 \in S, NEW v \in S
  PROVE  PushOption(v) \in Seq(S) /\ Len(PushOption(v)) \in 1 .. 2
<1>1. <<0>> \in Seq(S) /\ Len(<<0>>) = 1 /\ <<1, v>> \in Seq(S) /\ Len(<<1, v>>) = 2
  OBVIOUS
<1>2. QED
  BY <1>1 DEF PushOption

\* A pushed option is read back, and the next one starts behind it.
LEMMA OptionRoundTrip ==
  ASSUME NEW S, NEW a \in Seq(S), NEW c \in Seq(S), NEW v, PushOption(v) \in Seq(S)
  PROVE  ReadOption((a \o PushOption(v)) \o c, Len(a) + 1)
           = [ok |-> TRUE, value |-> v, next |-> Len(a) + Len(PushOption(v)) + 1]
<1> DEFINE o == PushOption(v)
           b == (a \o o) \o c
<1>1. /\ a \o o \in Seq(S) /\ Len(a \o o) = Len(a) + Len(o)
      /\ \A i \in 1 .. Len(a) + Len(o) : (a \o o)[i] = IF i <= Len(a) THEN a[i] ELSE o[i - Len(a)]
  BY ConcatProperties
<1>2. /\ Len(b) = Len(a) + Len(o) + Len(c)
      /\ \A i \in 1 .. Len(a) + Len(o) : b[i] = (a \o o)[i]
  <2>1. /\ Len(b) = Len(a \o o) + Len(c)
        /\ \A i \in 1 .. Len(a \o o) + Len(c) : b[i] = IF i <= Len(a \o o) THEN (a \o o)[i]
                                                      ELSE c[i - Len(a \o o)]
    BY <1>1, ConcatProperties
  <2>2. Len(a) \in Nat /\ Len(o) \in Nat /\ Len(c) \in Nat
    BY LenProperties
  <2> HIDE DEF b, o
  <2>3. QED
    BY <1>1, <2>1, <2>2
<1>3. Len(a) \in Nat /\ Len(c) \in Nat
  BY LenProperties
<1>4. CASE v = None
  <2>1. Len(o) = 1 /\ o[1] = 0
    BY <1>4 DEF PushOption
  <2> HIDE DEF o, b
  <2>2. Len(a) + 1 \in 1 .. Len(a) + Len(o) /\ (Len(a) + 1) - Len(a) = 1
    BY <1>3, <2>1
  <2>3. b[Len(a) + 1] = 0 /\ Len(b) >= Len(a) + 1
    BY <1>1, <1>2, <1>3, <2>1, <2>2
  <2>4. ReadOption(b, Len(a) + 1) = [ok |-> TRUE, value |-> None, next |-> (Len(a) + 1) + 1]
    BY <1>3, <1>2, <2>1, <2>3 DEF ReadOption
  <2>5. (Len(a) + 1) + 1 = Len(a) + Len(o) + 1
    BY <1>3, <2>1
  <2>6. QED
    BY <1>4, <2>4, <2>5 DEF o, b
<1>5. CASE v # None
  <2>1. Len(o) = 2 /\ o[1] = 1 /\ o[2] = v
    BY <1>5 DEF PushOption
  <2> HIDE DEF o, b
  <2>2. /\ Len(a) + 1 \in 1 .. Len(a) + Len(o) /\ (Len(a) + 1) - Len(a) = 1
        /\ Len(a) + 2 \in 1 .. Len(a) + Len(o) /\ (Len(a) + 2) - Len(a) = 2
    BY <1>3, <2>1
  <2>3. b[Len(a) + 1] = 1 /\ b[Len(a) + 2] = v /\ Len(b) >= Len(a) + 2
    BY <1>1, <1>2, <1>3, <2>1, <2>2
  <2>4. ReadOption(b, Len(a) + 1) = [ok |-> TRUE, value |-> v, next |-> (Len(a) + 1) + 2]
    <3> DEFINE pos == Len(a) + 1
    <3>1. /\ ~(pos > Len(b)) /\ ~(pos + 1 > Len(b))
          /\ b[pos] = 1 /\ b[pos + 1] = v
      BY <1>2, <1>3, <2>1, <2>3
    <3> HIDE DEF pos
    <3>2. ReadOption(b, pos) = [ok |-> TRUE, value |-> v, next |-> pos + 2]
      BY <3>1 DEF ReadOption
    <3>3. QED
      BY <3>2 DEF pos
  <2>5. (Len(a) + 1) + 2 = Len(a) + Len(o) + 1
    BY <1>3, <2>1
  <2>6. QED
    BY <2>4, <2>5 DEF o, b
<1>6. QED
  BY <1>4, <1>5

LEMMA NewOrderRoundTrip ==
  ASSUME NEW c, IsCommand(c), c.op = "NewOrder"
  PROVE  /\ Decode(Encode(c)) = [ok |-> TRUE, cmd |-> c]
         /\ \E S : Encode(c) \in Seq(S)
<1> DEFINE sd == Code(Sides, c.side)
           ty == Code(OrderTypes, c.order_type)
           tf == Code(TimesInForce, c.time_in_force)
           h == <<0, c.id, c.instrument_id, sd, c.price, c.qty, ty, tf>>
           pv == PushOption(c.visible_qty)
           ps == PushOption(c.stop_price)
           pg == PushOption(c.stp_group)
           S == {0, 1, c.id, c.instrument_id, sd, c.price, c.qty, ty, tf,
                 c.visible_qty, c.stop_price, c.stp_group}
           b == ((h \o pv) \o ps) \o pg
<1>1. /\ \E i \in DOMAIN Sides : Sides[i] = c.side
      /\ \E i \in DOMAIN OrderTypes : OrderTypes[i] = c.order_type
      /\ \E i \in DOMAIN TimesInForce : TimesInForce[i] = c.time_in_force
      /\ c = [op |-> "NewOrder", id |-> c.id, instrument_id |-> c.instrument_id,
              side |-> c.side, price |-> c.price, qty |-> c.qty,
              order_type |-> c.order_type, time_in_force |-> c.time_in_force,
              visible_qty |-> c.visible_qty, stop_price |-> c.stop_price,
              stp_group |-> c.stp_group]
  BY DEF IsCommand
<1>2. DOMAIN Sides \subseteq Int /\ DOMAIN OrderTypes \subseteq Int /\ DOMAIN TimesInForce \subseteq Int
  BY DEF Sides, OrderTypes, TimesInForce
<1>3. /\ sd + 1 \in DOMAIN Sides /\ Sides[sd + 1] = c.side
      /\ ty + 1 \in DOMAIN OrderTypes /\ OrderTypes[ty + 1] = c.order_type
      /\ tf + 1 \in DOMAIN TimesInForce /\ TimesInForce[tf + 1] = c.time_in_force
  BY <1>1, <1>2, CodeNames
<1>4. Encode(c) = b
  BY DEF Encode
<1>5. h \in Seq(S)
  OBVIOUS
<1>5a. /\ Len(h) = 8
       /\ h[1] = 0 /\ h[2] = c.id /\ h[3] = c.instrument_id /\ h[4] = sd
       /\ h[5] = c.price /\ h[6] = c.qty /\ h[7] = ty /\ h[8] = tf
  OBVIOUS
<1>6. pv \in Seq(S) /\ ps \in Seq(S) /\ pg \in Seq(S)
  <2>1. /\ 0 \in S /\ 1 \in S
        /\ c.visible_qty \in S /\ c.stop_price \in S /\ c.stp_group \in S
    OBVIOUS
  <2> HIDE DEF S
  <2>2. QED
    BY <2>1, PushOptionType
<1>6a. Len(pv) \in 1 .. 2 /\ Len(ps) \in 1 .. 2 /\ Len(pg) \in 1 .. 2
  <2>1. /\ 0 \in S /\ 1 \in S
        /\ c.visible_qty \in S /\ c.stop_price \in S /\ c.stp_group \in S
    OBVIOUS
  <2> HIDE DEF S
  <2>2. QED
    BY <2>1, PushOptionType
<1> HIDE DEF h, pv, ps, pg, S, sd, ty, tf
<1>7. /\ h \o pv \in Seq(S) /\ Len(h \o pv) = Len(h) + Len(pv)
      /\ \A i \in 1 .. Len(h) : (h \o pv)[i] = h[i]
  BY <1>5, <1>6, ConcatParts
<1>8. /\ (h \o pv) \o ps \in Seq(S) /\ Len((h \o pv) \o ps) = Len(h \o pv) + Len(ps)
      /\ \A i \in 1 .. Len(h \o pv) : ((h \o pv) \o ps)[i] = (h \o pv)[i]
  <2> DEFINE s == h \o pv
  <2>1. s \in Seq(S)
    BY <1>7
  <2> HIDE DEF s
  <2>2. /\ s \o ps \in Seq(S) /\ Len(s \o ps) = Len(s) + Len(ps)
        /\ \A i \in 1 .. Len(s) : (s \o ps)[i] = s[i]
    BY <1>6, <2>1, ConcatParts
  <2>3. QED
    BY <2>2 DEF s
<1>9. /\ b \in Seq(S) /\ Len(b) = Len((h \o pv) \o ps) + Len(pg)
      /\ \A i \in 1 .. Len((h \o pv) \o ps) : b[i] = ((h \o pv) \o ps)[i]
  <2> DEFINE s == (h \o pv) \o ps
  <2>1. s \in Seq(S)
    BY <1>8
  <2> HIDE DEF s
  <2>2. /\ s \o pg \in Seq(S) /\ Len(s \o pg) = Len(s) + Len(pg)
        /\ \A i \in 1 .. Len(s) : (s \o pg)[i] = s[i]
    BY <1>6, <2>1, ConcatParts
  <2>3. QED
    BY <2>2 DEF s
<1>9a. /\ Len(h \o pv) = 8 + Len(pv)
       /\ Len((h \o pv) \o ps) = 8 + Len(pv) + Len(ps)
       /\ Len(b) = 8 + Len(pv) + Len(ps) + Len(pg)
       /\ \A i \in 1 .. 8 : b[i] = h[i]
  <2>1. /\ Len(h \o pv) = 8 + Len(pv)
        /\ Len((h \o pv) \o ps) = 8 + Len(pv) + Len(ps)
        /\ Len(b) = 8 + Len(pv) + Len(ps) + Len(pg)
    BY <1>5a, <1>6a, <1>7, <1>8, <1>9
  <2>2. ASSUME NEW i \in 1 .. 8 PROVE b[i] = h[i]
    <3>1. i \in 1 .. Len(h) /\ i \in 1 .. Len(h \o pv) /\ i \in 1 .. Len((h \o pv) \o ps)
      BY <1>5a, <1>6a, <2>1
    <3>2. QED
      BY <1>7, <1>8, <1>9, <3>1
  <2>3. QED
    BY <2>1, <2>2
<1>10. ReadOption(b, 9) = [ok |-> TRUE, value |-> c.visible_qty, next |-> 8 + Len(pv) + 1]
  <2>1. ps \o pg \in Seq(S)
    BY <1>6, ConcatParts
  <2>2. b = (h \o pv) \o (ps \o pg)
    <3> DEFINE s == h \o pv
    <3>1. s \in Seq(S)
      BY <1>7
    <3> HIDE DEF s
    <3>2. (s \o ps) \o pg = s \o (ps \o pg)
      BY <1>6, <3>1, ConcatAssociative
    <3>3. QED
      BY <3>2 DEF s
  <2>3. ReadOption((h \o pv) \o (ps \o pg), Len(h) + 1)
          = [ok |-> TRUE, value |-> c.visible_qty, next |-> Len(h) + Len(pv) + 1]
    BY <1>5, <1>6, <2>1, OptionRoundTrip DEF pv
  <2>4. Len(h) + 1 = 9 /\ Len(h) + Len(pv) + 1 = 8 + Len(pv) + 1
    BY <1>5a
  <2> HIDE DEF b
  <2>5. QED
    BY <2>2, <2>3, <2>4
<1>11. ReadOption(b, 8 + Len(pv) + 1)
         = [ok |-> TRUE, value |-> c.stop_price, next |-> 8 + Len(pv) + Len(ps) + 1]
  <2> DEFINE s == h \o pv
  <2>1. s \in Seq(S)
    BY <1>7
  <2> HIDE DEF s
  <2>2. ReadOption((s \o ps) \o pg, Len(s) + 1)
          = [ok |-> TRUE, value |-> c.stop_price, next |-> Len(s) + Len(ps) + 1]
    BY <1>6, <2>1, OptionRoundTrip DEF ps
  <2>3. QED
    BY <1>9a, <2>2 DEF s
<1>12. /\ ReadOption(b, 8 + Len(pv) + Len(ps) + 1).ok
       /\ ReadOption(b, 8 + Len(pv) + Len(ps) + 1).value = c.stp_group
  <2> DEFINE s == (h \o pv) \o ps
  <2>1. s \in Seq(S) /\ <<>> \in Seq(S)
    BY <1>8
  <2>2. s \o pg \in Seq(S)
    BY <1>9
  <2> HIDE DEF s
  <2>3. ReadOption((s \o pg) \o <<>>, Len(s) + 1)
          = [ok |-> TRUE, value |-> c.stp_group, next |-> Len(s) + Len(pg) + 1]
    BY <1>6, <2>1, OptionRoundTrip DEF pg
  <2>4. (s \o pg) \o <<>> = s \o pg
    BY <2>2, ConcatEmptySeq
  <2>5. Len(s) + 1 = 8 + Len(pv) + Len(ps) + 1
    BY <1>9a DEF s
  <2>6. s \o pg = b
    BY DEF s
  <2> HIDE DEF b
  <2>7. QED
    BY <2>3, <2>4, <2>5, <2>6
<1> HIDE DEF b
<1>13. DecodeNewOrder(b) = [ok |-> TRUE, cmd |-> c]
  <2> DEFINE visible == ReadOption(b, 9)
             stop    == IF visible.ok THEN ReadOption(b, visible.next) ELSE InvalidData
             group   == IF stop.ok THEN ReadOption(b, stop.next) ELSE InvalidData
  <2>1. visible.ok /\ visible.value = c.visible_qty /\ visible.next = 8 + Len(pv) + 1
    BY <1>10
  <2>2. stop = ReadOption(b, 8 + Len(pv) + 1)
    BY <2>1
  <2>3. stop.ok /\ stop.value = c.stop_price /\ stop.next = 8 + Len(pv) + Len(ps) + 1
    BY <1>11, <2>2
  <2>4. group = ReadOption(b, 8 + Len(pv) + Len(ps) + 1)
    BY <2>3
  <2>5. group.ok /\ group.value = c.stp_group
    BY <1>12, <2>4
  <2>6. DecodeNewOrder(b) =
          IF /\ group.ok
             /\ b[4] + 1 \in DOMAIN Sides
             /\ b[7] + 1 \in DOMAIN OrderTypes
             /\ b[8] + 1 \in DOMAIN TimesInForce
          THEN [ok |-> TRUE,
                cmd |-> [op |-> "NewOrder", id |-> b[2], instrument_id |-> b[3],
                         side |-> Sides[b[4] + 1], price |-> b[5], qty |-> b[6],
                         order_type |-> OrderTypes[b[7] + 1],
                         time_in_force |-> TimesInForce[b[8] + 1],
                         visible_qty |-> visible.value, stop_price |-> stop.value,
                         stp_group |-> group.value]]
          ELSE InvalidData
    BY DEF DecodeNewOrder
  <2>7. /\ b[2] = c.id /\ b[3] = c.instrument_id /\ b[4] = sd /\ b[5] = c.price
        /\ b[6] = c.qty /\ b[7] = ty /\ b[8] = tf
    BY <1>5a, <1>9a
  <2> HIDE DEF visible, stop, group
  <2>8. QED
    BY <1>1, <1>3, <2>1, <2>3, <2>5, <2>6, <2>7
<1>14. b[1] = 0 /\ Len(b) >= 9
  <2>1. b[1] = 0
    BY <1>5a, <1>9a
  <2>2. \A x, y, z \in 1 .. 2 : 8 + x + y + z >= 9
    OBVIOUS
  <2>2a. Len(b) >= 9
    BY <1>6a, <1>9a, <2>2
  <2>3. QED
    BY <2>1, <2>2a
<1>15. Decode(b) = DecodeNewOrder(b)
  BY <1>14 DEF Decode
<1>16. QED
  BY <1>4, <1>9, <1>13, <1>15

\* decode undoes encode, for every command (codec.rs:60-205).
THEOREM CommandRoundTrip ==
  ASSUME NEW c, IsCommand(c)
  PROVE  /\ Decode(Encode(c)) = [ok |-> TRUE, cmd |-> c]
         /\ \E S : Encode(c) \in Seq(S)
<1>1. CASE c.op = "NewOrder"
  BY <1>1, NewOrderRoundTrip
<1>2. CASE c.op = "CancelOrder"
  <2>1. c = [op |-> "CancelOrder", id |-> c.id]
    BY <1>2 DEF IsCommand
  <2>2. Encode(c) = <<1, c.id>>
    BY <1>2 DEF Encode
  <2>3. Decode(<<1, c.id>>) = [ok |-> TRUE, cmd |-> [op |-> "CancelOrder", id |-> c.id]]
    BY DEF Decode
  <2>4. <<1, c.id>> \in Seq({1, c.id})
    OBVIOUS
  <2>5. QED
    BY <2>1, <2>2, <2>3, <2>4
<1>3. CASE c.op = "ModifyOrder"
  <2>1. c = [op |-> "ModifyOrder", id |-> c.id, new_price |-> c.new_price, new_qty |-> c.new_qty]
    BY <1>3 DEF IsCommand
  <2>2. Encode(c) = <<2, c.id, c.new_price, c.new_qty>>
    BY <1>3 DEF Encode
  <2>3. Decode(<<2, c.id, c.new_price, c.new_qty>>)
          = [ok |-> TRUE, cmd |-> [op |-> "ModifyOrder", id |-> c.id,
                                   new_price |-> c.new_price, new_qty |-> c.new_qty]]
    BY DEF Decode
  <2>4. <<2, c.id, c.new_price, c.new_qty>> \in Seq({2, c.id, c.new_price, c.new_qty})
    OBVIOUS
  <2>5. QED
    BY <2>1, <2>2, <2>3, <2>4
<1>4. QED
  BY <1>1, <1>2, <1>3 DEF IsCommand

-----------------------------------------------------------------------------
\* What DecodeRecord needs to know of the cells of a file: a length header holds a number.
CellType(S) == \A x \in S : x[1] = "lo" => x[2] \in Nat

\* The cells of one record.
RecordCells(n, c) == {EncodeRecord(n, c)[i] : i \in DOMAIN EncodeRecord(n, c)}

LEMMA SeqOfFunction ==
  ASSUME NEW S, NEW m \in Nat, NEW f \in [1 .. m -> S]
  PROVE  f \in Seq(S) /\ Len(f) = m
<1>1. f \in Seq(S)
  OBVIOUS
<1>2. DOMAIN f = 1 .. Len(f) /\ Len(f) \in Nat /\ DOMAIN f = 1 .. m
  BY <1>1, LenProperties
<1>3. \A x, y \in Nat : 1 .. x = 1 .. y => x <= y
  <2> TAKE x, y \in Nat
  <2> HAVE 1 .. x = 1 .. y
  <2>1. x # 0 => x \in 1 .. y
    OBVIOUS
  <2>2. QED
    BY <2>1
<1>4. Len(f) <= m /\ m <= Len(f)
  BY <1>2, <1>3
<1>5. QED
  BY <1>1, <1>2, <1>4

LEMMA RecordShape ==
  ASSUME NEW n, NEW c, IsCommand(c)
  PROVE  LET r == EncodeRecord(n, c)
             l == Len(Encode(c))
             p == [i \in 1 .. l |-> <<"field", Encode(c)[i]>>]
         IN  /\ l \in Nat
             /\ r \in Seq(RecordCells(n, c))
             /\ CellType(RecordCells(n, c))
             /\ Len(r) = l + 4
             /\ r[1] = <<"lo", l>> /\ r[2] = <<"hi", l>> /\ r[3] = <<"sequence", n>>
             /\ \A i \in 1 .. l : r[3 + i] = p[i]
             /\ r[l + 4] = Crc(<<"sequence", n>>, p)
<1> DEFINE b == Encode(c)
           l == Len(b)
           p == [i \in 1 .. l |-> <<"field", b[i]>>]
           k == Crc(<<"sequence", n>>, p)
           h == <<<<"lo", l>>, <<"hi", l>>, <<"sequence", n>>>>
           r == (h \o p) \o <<k>>
           S == {<<"lo", l>>, <<"hi", l>>, <<"sequence", n>>, k}
                  \cup {<<"field", b[i]>> : i \in 1 .. l}
<1>1. l \in Nat /\ DOMAIN b = 1 .. l
  <2>1. PICK V : b \in Seq(V)
    BY CommandRoundTrip
  <2>2. QED
    BY <2>1, LenProperties
<1> HIDE DEF b
<1>3. h \in Seq(S)
  OBVIOUS
<1>4. Len(h) = 3 /\ h[1] = <<"lo", l>> /\ h[2] = <<"hi", l>> /\ h[3] = <<"sequence", n>>
  OBVIOUS
<1>5. p \in Seq(S) /\ Len(p) = l
  <2>1. \A i \in 1 .. l : <<"field", b[i]>> \in S
    OBVIOUS
  <2> HIDE DEF S, l
  <2>2. p \in [1 .. l -> S]
    BY <2>1
  <2> HIDE DEF p
  <2>3. QED
    BY <1>1, <2>2, SeqOfFunction
<1>6. <<k>> \in Seq(S)
  <2>1. k \in S
    OBVIOUS
  <2> HIDE DEF S, k
  <2>2. QED
    BY <2>1
<1>7. Len(<<k>>) = 1 /\ <<k>>[1] = k
  OBVIOUS
<1>8. CellType(S)
  <2>1. k[1] = "crc"
    BY DEF Crc
  <2> HIDE DEF k
  <2>2. QED
    BY <1>1, <2>1 DEF CellType
<1>9. \A i \in 1 .. l : p[i] = <<"field", b[i]>>
  OBVIOUS
<1>2. EncodeRecord(n, c) = r
  <2> DEFINE q == [i \in DOMAIN b |-> <<"field", b[i]>>]
  <2>1. q = p
    BY <1>1
  <2>2. EncodeRecord(n, c) = (<<<<"lo", Len(q)>>, <<"hi", Len(q)>>, <<"sequence", n>>>> \o q)
                               \o <<Crc(<<"sequence", n>>, q)>>
    BY DEF EncodeRecord, b
  <2> HIDE DEF q, p
  <2>3. QED
    BY <1>5, <2>1, <2>2
<1> HIDE DEF h, p, k, S, l
<1>10. /\ h \o p \in Seq(S) /\ Len(h \o p) = Len(h) + Len(p)
       /\ \A i \in 1 .. Len(h) : (h \o p)[i] = h[i]
       /\ \A i \in 1 .. Len(p) : (h \o p)[Len(h) + i] = p[i]
  <2>1. p \in Seq(S)
    BY <1>5
  <2>2. QED
    BY <1>3, <2>1, ConcatParts
<1>11. /\ r \in Seq(S) /\ Len(r) = Len(h \o p) + Len(<<k>>)
       /\ \A i \in 1 .. Len(h \o p) : r[i] = (h \o p)[i]
       /\ \A i \in 1 .. Len(<<k>>) : r[Len(h \o p) + i] = <<k>>[i]
  <2> DEFINE s == h \o p
             t == <<k>>
  <2>1. s \in Seq(S) /\ t \in Seq(S)
    BY <1>6, <1>10
  <2> HIDE DEF s, t
  <2>2. /\ s \o t \in Seq(S) /\ Len(s \o t) = Len(s) + Len(t)
        /\ \A i \in 1 .. Len(s) : (s \o t)[i] = s[i]
        /\ \A i \in 1 .. Len(t) : (s \o t)[Len(s) + i] = t[i]
    BY <2>1, ConcatParts
  <2>3. QED
    BY <2>2 DEF s, t
<1>12. Len(h \o p) = l + 3 /\ Len(r) = l + 4
  BY <1>1, <1>4, <1>5, <1>7, <1>10, <1>11
<1>13. r[1] = h[1] /\ r[2] = h[2] /\ r[3] = h[3]
  <2>1. \A i \in 1 .. 3 : i \in 1 .. Len(h) /\ i \in 1 .. Len(h \o p)
    BY <1>1, <1>4, <1>12
  <2>2. QED
    BY <1>10, <1>11, <2>1
<1>14. ASSUME NEW i \in 1 .. l PROVE r[3 + i] = p[i]
  <2>1. i \in 1 .. Len(p) /\ Len(h) + i = 3 + i /\ 3 + i \in 1 .. Len(h \o p)
    BY <1>1, <1>4, <1>5, <1>12
  <2>2. QED
    BY <1>10, <1>11, <2>1
<1>15. r[l + 4] = k
  <2>1. 1 \in 1 .. Len(<<k>>) /\ Len(h \o p) + 1 = l + 4
    BY <1>1, <1>7, <1>12
  <2>2. QED
    BY <1>7, <1>11, <2>1
<1>16. r \in Seq(RecordCells(n, c)) /\ CellType(RecordCells(n, c))
  <2> DEFINE C == {r[i] : i \in DOMAIN r}
  <2> HIDE DEF r
  <2>1. C \subseteq S /\ r \in Seq(C)
    <3>1. Len(r) \in Nat /\ r \in [1 .. Len(r) -> S]
      BY <1>11, LenProperties
    <3>2. r \in [1 .. Len(r) -> C]
      BY <3>1
    <3>3. QED
      BY <3>1, <3>2
  <2>2. RecordCells(n, c) = C
    BY <1>2 DEF RecordCells
  <2>3. CellType(C)
    BY <1>8, <2>1 DEF CellType
  <2>4. QED
    BY <2>1, <2>2, <2>3
<1> HIDE DEF r
<1>17. QED
  BY <1>1, <1>2, <1>4, <1>12, <1>13, <1>14, <1>15, <1>16 DEF b, p, k, l

\* What DecodeRecord reads: the header, then as many cells as it says.
LEMMA DecodeRecordMeans ==
  ASSUME NEW d, d[1][2] \in Nat,
         Len(d) \in Nat, Len(d) >= 2, d[1][1] = "lo", d[2][1] = "hi"
  PROVE  DecodeRecord(d) =
           LET l == d[1][2]
               p == [i \in 1 .. l |-> d[i + 3]]
           IN  IF Len(d) < l + 4 \/ d[l + 4] # Crc(d[3], p) THEN InvalidData
               ELSE Read(l + 4, d[3][2], Decode(Fields(p)))
<1> DEFINE l == d[1][2]
           p == [i \in 1 .. l |-> d[i + 3]]
<1>1. DecodeRecord(d) = DecodeFrame(d, HeaderLen + 1 + l + 1, SubSeq(d, HeaderLen + 2, HeaderLen + 1 + l))
  BY DEF DecodeRecord, HeaderLen
<1>2. HeaderLen + 1 + l + 1 = l + 4 /\ HeaderLen + 2 = 4 /\ HeaderLen + 1 + l = l + 3 /\ HeaderLen + 1 = 3
  BY DEF HeaderLen
<1>3. SubSeq(d, 4, l + 3) = p
  <2> HIDE DEF l
  <2>0. l \in Nat
    BY DEF l
  <2>1. SubSeq(d, 4, l + 3) = [i \in 1 .. 1 + (l + 3) - 4 |-> d[i + 4 - 1]]
    BY <2>0 DEF SubSeq
  <2>2. 1 + (l + 3) - 4 = l /\ \A i \in 1 .. l : i + 4 - 1 = i + 3
    BY <2>0
  <2>3. QED
    BY <2>1, <2>2
<1> HIDE DEF l, p
<1>4. DecodeRecord(d) = DecodeFrame(d, l + 4, p)
  BY <1>1, <1>2, <1>3
<1>5. QED
  BY <1>2, <1>4 DEF DecodeFrame, l, p

\* A record decodes to what was encoded, whatever stands behind it.
LEMMA RecordDecodes ==
  ASSUME NEW S, NEW d \in Seq(S), NEW n, NEW c, IsCommand(c),
         Len(EncodeRecord(n, c)) <= Len(d),
         \A i \in 1 .. Len(EncodeRecord(n, c)) : d[i] = EncodeRecord(n, c)[i]
  PROVE  DecodeRecord(d) = [ok |-> TRUE, used |-> Len(EncodeRecord(n, c)),
                            entry |-> [sequence |-> n, command |-> c]]
<1> DEFINE r == EncodeRecord(n, c)
           b == Encode(c)
           l == Len(b)
           p == [i \in 1 .. l |-> <<"field", b[i]>>]
           q == [i \in 1 .. l |-> d[i + 3]]
<1>1. /\ l \in Nat /\ Len(r) = l + 4
      /\ r[1] = <<"lo", l>> /\ r[2] = <<"hi", l>> /\ r[3] = <<"sequence", n>>
      /\ \A i \in 1 .. l : r[3 + i] = p[i]
      /\ r[l + 4] = Crc(<<"sequence", n>>, p)
  BY RecordShape
<1>2. Len(d) \in Nat
  BY LenProperties
<1>3. DOMAIN b = 1 .. l
  <2>1. PICK V : b \in Seq(V)
    BY CommandRoundTrip
  <2>2. QED
    BY <2>1, LenProperties
<1> HIDE DEF r, b, l
<1>4. \A i \in 1 .. l + 4 : d[i] = r[i]
  BY <1>1 DEF r
<1>5. /\ d[1] = <<"lo", l>> /\ d[2] = <<"hi", l>> /\ d[3] = <<"sequence", n>>
      /\ d[l + 4] = Crc(<<"sequence", n>>, p)
      /\ Len(d) >= l + 4
  <2>1. 1 \in 1 .. l + 4 /\ 2 \in 1 .. l + 4 /\ 3 \in 1 .. l + 4 /\ l + 4 \in 1 .. l + 4
    BY <1>1
  <2>2. QED
    BY <1>1, <1>4, <2>1 DEF r
<1>6. q = p
  <2>1. \A i \in 1 .. l : i + 3 \in 1 .. l + 4 /\ i + 3 = 3 + i
    BY <1>1
  <2>2. QED
    BY <1>1, <1>4, <2>1
<1>7. Fields(p) = b
  <2>1. \A i \in 1 .. l : p[i][2] = b[i]
    OBVIOUS
  <2>2. DOMAIN p = 1 .. l
    OBVIOUS
  <2>3. Fields(p) = [i \in 1 .. l |-> b[i]]
    BY <2>1, <2>2 DEF Fields
  <2>4. PICK V : b \in Seq(V)
    BY CommandRoundTrip DEF b
  <2>5. b \in [1 .. Len(b) -> V]
    BY <2>4, LenProperties
  <2>6. b = [i \in 1 .. l |-> b[i]]
    BY <2>5 DEF l
  <2>7. QED
    BY <2>3, <2>6
<1>8. Decode(b) = [ok |-> TRUE, cmd |-> c]
  BY CommandRoundTrip DEF b
<1> HIDE DEF p, q
<1>9. d[1][2] = l /\ d[1][1] = "lo" /\ d[2][1] = "hi" /\ d[3][2] = n
  BY <1>5
<1>10. DecodeRecord(d) = IF Len(d) < l + 4 \/ d[l + 4] # Crc(d[3], q) THEN InvalidData
                         ELSE Read(l + 4, d[3][2], Decode(Fields(q)))
  <2>1. d[1][2] \in Nat /\ Len(d) >= 2
    BY <1>1, <1>2, <1>5, <1>9
  <2>2. QED
    BY <1>2, <1>9, <2>1, DecodeRecordMeans DEF q
<1>11. DecodeRecord(d) = Read(l + 4, n, [ok |-> TRUE, cmd |-> c])
  <2>1. Decode(Fields(q)) = [ok |-> TRUE, cmd |-> c]
    BY <1>6, <1>7, <1>8
  <2>2. d[l + 4] = Crc(d[3], q)
    BY <1>5, <1>6
  <2>3. ~(Len(d) < l + 4)
    BY <1>1, <1>2, <1>5
  <2>4. DecodeRecord(d) = Read(l + 4, d[3][2], Decode(Fields(q)))
    BY <1>10, <2>2, <2>3
  <2>5. QED
    BY <1>9, <2>1, <2>4
<1>12. QED
  BY <1>1, <1>11 DEF Read, r

\* A record cut short does not decode.
LEMMA TornDoesNotDecode ==
  ASSUME NEW S, NEW d \in Seq(S), NEW n, NEW c, IsCommand(c),
         Len(d) < Len(EncodeRecord(n, c)),
         \A i \in 1 .. Len(d) : d[i] = EncodeRecord(n, c)[i]
  PROVE  ~DecodeRecord(d).ok
<1> DEFINE r == EncodeRecord(n, c)
           l == Len(Encode(c))
<1>1. l \in Nat /\ Len(r) = l + 4 /\ r[1] = <<"lo", l>> /\ r[2] = <<"hi", l>>
  <2> DEFINE b == Encode(c)
             p == [i \in 1 .. Len(b) |-> <<"field", b[i]>>]
  <2>1. /\ Len(b) \in Nat /\ Len(r) = Len(b) + 4
        /\ r[1] = <<"lo", Len(b)>> /\ r[2] = <<"hi", Len(b)>>
        /\ r[3] = <<"sequence", n>>
        /\ \A i \in 1 .. Len(b) : r[3 + i] = p[i]
        /\ r[Len(b) + 4] = Crc(<<"sequence", n>>, p)
    BY RecordShape
  <2>2. QED
    BY <2>1
<1>2. Len(d) \in Nat
  BY LenProperties
<1> HIDE DEF r, l
<1>3. CASE Len(d) < 2
  <2>1. DecodeRecord(d) = InvalidData
    BY <1>3 DEF DecodeRecord, HeaderLen
  <2>2. QED
    BY <2>1 DEF InvalidData
<1>4. CASE Len(d) >= 2
  <2>1. d[1] = r[1] /\ d[2] = r[2]
    <3>1. 1 \in 1 .. Len(d) /\ 2 \in 1 .. Len(d)
      BY <1>2, <1>4
    <3>2. QED
      BY <3>1 DEF r
  <2>2. d[1][2] = l /\ d[1][1] = "lo" /\ d[2][1] = "hi"
    BY <1>1, <2>1
  <2>3. Len(d) < l + 4
    BY <1>1 DEF r
  <2>4. DecodeRecord(d) = InvalidData
    BY <1>1, <1>2, <1>4, <2>2, <2>3, DecodeRecordMeans
  <2>5. QED
    BY <2>4 DEF InvalidData
<1>5. QED
  BY <1>2, <1>3, <1>4

\* A frame that decodes lies within the data, and its cells alone decide.
LEMMA DecodeIsLocal ==
  ASSUME NEW S, CellType(S), NEW d \in Seq(S), DecodeRecord(d).ok
  PROVE  /\ DecodeRecord(d).used \in 4 .. Len(d)
         /\ \A e \in Seq(S) :
              /\ DecodeRecord(d).used <= Len(e)
              /\ \A i \in 1 .. DecodeRecord(d).used : e[i] = d[i]
              => DecodeRecord(e) = DecodeRecord(d)
<1> DEFINE l == d[1][2]
           p == [i \in 1 .. l |-> d[i + 3]]
<1>1. Len(d) \in Nat
  BY LenProperties
<1>2. Len(d) >= 2 /\ d[1][1] = "lo" /\ d[2][1] = "hi"
  <2>1. ~DecodeRecord(d).ok \/ (~(Len(d) < 2) /\ <<d[1][1], d[2][1]>> = <<"lo", "hi">>)
    BY DEF DecodeRecord, HeaderLen, InvalidData
  <2>2. QED
    BY <1>1, <2>1
<1>3. l \in Nat
  <2>1. d[1] \in S
    <3>1. 1 \in 1 .. Len(d)
      BY <1>1, <1>2
    <3>2. QED
      BY <3>1, ElementOfSeq
  <2>2. QED
    BY <1>2, <2>1 DEF CellType
<1>4. DecodeRecord(d) = IF Len(d) < l + 4 \/ d[l + 4] # Crc(d[3], p) THEN InvalidData
                        ELSE Read(l + 4, d[3][2], Decode(Fields(p)))
  BY <1>1, <1>2, <1>3, DecodeRecordMeans
<1> HIDE DEF l, p
<1>5. /\ Len(d) >= l + 4 /\ d[l + 4] = Crc(d[3], p)
      /\ DecodeRecord(d) = Read(l + 4, d[3][2], Decode(Fields(p)))
  BY <1>1, <1>3, <1>4 DEF InvalidData
<1>6. DecodeRecord(d).used = l + 4
  BY <1>5 DEF Read, InvalidData
<1>7. ASSUME NEW e \in Seq(S), l + 4 <= Len(e), \A i \in 1 .. l + 4 : e[i] = d[i]
      PROVE  DecodeRecord(e) = DecodeRecord(d)
  <2> DEFINE q == [i \in 1 .. l |-> e[i + 3]]
  <2>1. /\ 1 \in 1 .. l + 4 /\ 2 \in 1 .. l + 4 /\ 3 \in 1 .. l + 4 /\ l + 4 \in 1 .. l + 4
        /\ \A i \in 1 .. l : i + 3 \in 1 .. l + 4
    BY <1>3
  <2>2. e[1] = d[1] /\ e[2] = d[2] /\ e[3] = d[3] /\ e[l + 4] = d[l + 4]
    BY <1>7, <2>1
  <2>3. q = p
    BY <1>7, <2>1 DEF p
  <2>4. Len(e) \in Nat
    BY LenProperties
  <2> HIDE DEF q
  <2>5. e[1][2] = l
    BY <2>2 DEF l
  <2>6. DecodeRecord(e) = IF Len(e) < l + 4 \/ e[l + 4] # Crc(e[3], q) THEN InvalidData
                          ELSE Read(l + 4, e[3][2], Decode(Fields(q)))
    <3>1. Len(e) >= 2 /\ e[1][2] \in Nat /\ e[1][1] = "lo" /\ e[2][1] = "hi"
      BY <1>2, <1>3, <1>7, <2>2, <2>4, <2>5
    <3>2. QED
      BY <2>4, <2>5, <3>1, DecodeRecordMeans DEF q
  <2>7. ~(Len(e) < l + 4)
    BY <1>3, <1>7, <2>4
  <2>8. QED
    BY <1>5, <2>2, <2>3, <2>6, <2>7
<1>8. DecodeRecord(d).used \in 4 .. Len(d)
  BY <1>1, <1>3, <1>5, <1>6
<1>9. QED
  BY <1>6, <1>7, <1>8

\* What holds of a position whenever it holds of the later ones holds of every position.
LEMMA FromTheEnd ==
  ASSUME NEW n \in Nat, NEW T,
         \A k \in 0 .. n : (\A j \in k + 1 .. n : j \in T) => k \in T
  PROVE  \A k \in 0 .. n : k \in T
<1> DEFINE R == OpToRel(<, Nat)
           U == {m \in 0 .. n : n - m \notin T}
<1>1. IsWellFoundedOn(R, Nat)
  BY NatLessThanWellFounded
<1>2. SUFFICES ASSUME NEW k \in 0 .. n, k \notin T PROVE FALSE
  OBVIOUS
<1>3. U \subseteq Nat /\ n - k \in U
  <2>1. n - k \in 0 .. n /\ n - (n - k) = k
    OBVIOUS
  <2>2. QED
    BY <1>2, <2>1
<1>4. PICK m \in U : \A y \in U : ~(<<y, m>> \in R)
  <2> HIDE DEF R, U
  <2>1. U # {}
    BY <1>3
  <2>2. QED
    BY <1>1, <1>3, <2>1, WFMin
<1>5. m \in 0 .. n /\ n - m \notin T /\ n - m \in 0 .. n
  OBVIOUS
<1>6. ASSUME NEW j \in n - m + 1 .. n, j \notin T PROVE FALSE
  <2>1. n - j \in 0 .. n /\ n - (n - j) = j /\ n - j < m
    BY <1>5, <1>6
  <2>2. n - j \in U
    BY <1>6, <2>1
  <2>3. <<n - j, m>> \in R
    BY <1>5, <2>1 DEF OpToRel
  <2>4. QED
    BY <1>4, <2>2, <2>3
<1>7. QED
  BY <1>5, <1>6
-----------------------------------------------------------------------------
\* What stands at and behind a position of the file, and all that may be read from it.
Suffix(d, pos) == SubSeq(d, pos + 1, Len(d))
Frames(d) == {DecodeRecord(Suffix(d, pos)).entry : pos \in 0 .. Len(d)}

\* The table of Scan: what the loop gives from each position.
Body(d, f, pos) ==
  IF pos = Len(d) THEN [entries |-> <<>>, end |-> pos]
  ELSE Turn(DecodeRecord(Suffix(d, pos)), pos, f)
Loop(d) == CHOOSE f : f = [pos \in 0 .. Len(d) |-> Body(d, f, pos)]

LEMMA ScanLoop ==
  ASSUME NEW d
  PROVE  Scan(d) = Loop(d)[0]
BY DEF Scan, Loop, Body, Suffix

LEMMA SuffixIsSeq ==
  ASSUME NEW S, NEW d \in Seq(S), NEW pos \in 0 .. Len(d)
  PROVE  /\ Suffix(d, pos) \in Seq(S)
         /\ Len(Suffix(d, pos)) = Len(d) - pos
         /\ \A i \in 1 .. Len(d) - pos : Suffix(d, pos)[i] = d[pos + i]
<1>1. Len(d) \in Nat
  BY LenProperties
<1>2. pos + 1 \in Int /\ Len(d) \in Int /\ pos + 1 \in 1 .. Len(d) + 1
  BY <1>1
<1>3. \A i \in pos + 1 .. Len(d) : d[i] \in S
  BY <1>1, ElementOfSeq
<1> DEFINE m == pos + 1
           l == Len(d)
           s == SubSeq(d, m, l)
<1>4. /\ s \in Seq(S)
      /\ Len(s) = IF m <= l THEN l - m + 1 ELSE 0
      /\ \A i \in 1 .. l - m + 1 : s[i] = d[m + i - 1]
  <2>1. m \in Int /\ l \in Int /\ \A i \in m .. l : d[i] \in S
    BY <1>2, <1>3
  <2> HIDE DEF m, l
  <2>2. QED
    BY <2>1, SubSeqProperties
<1>5. s = Suffix(d, pos)
  BY DEF Suffix
<1>6. l - m + 1 = Len(d) - pos
  BY <1>1
<1>7. (IF m <= l THEN l - m + 1 ELSE 0) = Len(d) - pos
  BY <1>1
<1>8. \A i \in 1 .. Len(d) - pos : m + i - 1 = pos + i
  BY <1>1
<1> HIDE DEF m, l, s
<1>9. QED
  BY <1>4, <1>5, <1>6, <1>7, <1>8

\* The table exists: it can be built from the end of the file to its start.
LEMMA LoopExists ==
  ASSUME NEW S, CellType(S), NEW d \in Seq(S)
  PROVE  \E f : f = [pos \in 0 .. Len(d) |-> Body(d, f, pos)]
<1> DEFINE N == Len(d)
           T == {k \in 0 .. N : \E g : g = [pos \in k .. N |-> Body(d, g, pos)]}
<1>1. N \in Nat
  BY LenProperties
<1>2. ASSUME NEW k \in 0 .. N, \A j \in k + 1 .. N : j \in T PROVE k \in T
  <2>1. CASE k = N
    <3> DEFINE g == [pos \in {N} |-> [entries |-> <<>>, end |-> pos]]
    <3>1. \A pos \in {N} : Body(d, g, pos) = [entries |-> <<>>, end |-> pos]
      BY DEF Body
    <3>2. N .. N = {N}
      BY <1>1
    <3>3. g = [pos \in k .. N |-> Body(d, g, pos)]
      BY <2>1, <3>1, <3>2
    <3> HIDE DEF g
    <3>4. QED
      BY <3>3
  <2>2. CASE k # N
    <3>1. k + 1 \in T
      BY <1>1, <1>2, <2>2
    <3>2. PICK g : g = [pos \in k + 1 .. N |-> Body(d, g, pos)]
      BY <3>1
    <3> DEFINE h == [pos \in k .. N |-> IF pos = k THEN Body(d, g, k) ELSE g[pos]]
    <3>3. ASSUME NEW pos \in k .. N PROVE h[pos] = Body(d, h, pos)
      <4>1. Body(d, h, pos) = Body(d, g, pos)
        <5>1. CASE pos = N \/ ~DecodeRecord(Suffix(d, pos)).ok
          BY <5>1 DEF Body, Turn
        <5>2. CASE pos # N /\ DecodeRecord(Suffix(d, pos)).ok
          <6> DEFINE s == Suffix(d, pos)
                     u == DecodeRecord(s).used
          <6>1. pos \in 0 .. Len(d)
            BY <1>1
          <6>2. s \in Seq(S) /\ Len(s) = N - pos
            BY <6>1, SuffixIsSeq
          <6> HIDE DEF s
          <6>3. u \in 4 .. Len(s)
            BY <5>2, <6>2, DecodeIsLocal DEF s
          <6> HIDE DEF u
          <6>4. pos + u \in k + 1 .. N /\ pos + u # k
            BY <1>1, <6>2, <6>3
          <6>5. h[pos + u] = g[pos + u]
            BY <1>1, <6>4
          <6> HIDE DEF h
          <6>6. QED
            BY <5>2, <6>5 DEF Body, Turn, s, u
        <5>3. QED
          BY <5>1, <5>2
      <4>2. h[pos] = Body(d, g, pos)
        <5>1. CASE pos = k
          BY <5>1
        <5>2. CASE pos # k
          <6>1. pos \in k + 1 .. N
            BY <1>1, <5>2
          <6>2. QED
            BY <3>2, <5>2, <6>1
        <5>3. QED
          BY <5>1, <5>2
      <4>3. QED
        BY <4>1, <4>2
    <3>4. h = [pos \in k .. N |-> h[pos]]
      OBVIOUS
    <3>5. h = [pos \in k .. N |-> Body(d, h, pos)]
      <4> HIDE DEF h
      <4>1. QED
        BY <3>3, <3>4
    <3> HIDE DEF h
    <3>6. QED
      BY <3>5
  <2>3. QED
    BY <2>1, <2>2
<1>3. 0 \in T
  <2>1. 0 \in 0 .. N
    BY <1>1
  <2> HIDE DEF T, N
  <2>2. QED
    BY <1>1, <1>2, <2>1, FromTheEnd
<1>4. QED
  BY <1>3

\* The table, row by row.
LEMMA LoopUnfolds ==
  ASSUME NEW S, CellType(S), NEW d \in Seq(S), NEW pos \in 0 .. Len(d)
  PROVE  Loop(d)[pos] = Body(d, Loop(d), pos)
<1> DEFINE f == Loop(d)
<1>1. f = [k \in 0 .. Len(d) |-> Body(d, f, k)]
  <2>1. \E g : g = [k \in 0 .. Len(d) |-> Body(d, g, k)]
    BY LoopExists
  <2>2. QED
    BY <2>1 DEF Loop
<1> HIDE DEF f
<1>2. f[pos] = Body(d, f, pos)
  BY <1>1
<1>3. QED
  BY <1>2 DEF f

\* A frame that decodes at a position ends within the file.
LEMMA FrameFits ==
  ASSUME NEW S, CellType(S), NEW d \in Seq(S), NEW pos \in 0 .. Len(d),
         DecodeRecord(Suffix(d, pos)).ok
  PROVE  /\ DecodeRecord(Suffix(d, pos)).used \in 4 .. Len(d) - pos
         /\ pos + DecodeRecord(Suffix(d, pos)).used \in pos + 4 .. Len(d)
         /\ pos # Len(d)
<1> DEFINE s == Suffix(d, pos)
           u == DecodeRecord(s).used
<1>1. s \in Seq(S) /\ Len(s) = Len(d) - pos
  BY SuffixIsSeq
<1>2. DecodeRecord(s).ok
  OBVIOUS
<1>3. Len(d) \in Nat
  BY LenProperties
<1> HIDE DEF s
<1>4. u \in 4 .. Len(s)
  BY <1>1, <1>2, DecodeIsLocal
<1> HIDE DEF u
<1>5. u \in 4 .. Len(d) - pos /\ pos + u \in pos + 4 .. Len(d) /\ pos # Len(d)
  BY <1>1, <1>3, <1>4
<1>6. QED
  BY <1>5 DEF u, s

LEMMA LoopType ==
  ASSUME NEW S, CellType(S), NEW d \in Seq(S), NEW pos \in 0 .. Len(d)
  PROVE  /\ Loop(d)[pos] \in [entries : Seq(Frames(d)), end : 0 .. Len(d)]
         /\ Loop(d)[pos].end \in pos .. Len(d)
<1> DEFINE f == Loop(d)
           N == Len(d)
           R == [entries : Seq(Frames(d)), end : 0 .. N]
           T == {k \in 0 .. N : f[k] \in R /\ f[k].end \in k .. N}
<1>1. N \in Nat
  BY LenProperties
<1>2. ASSUME NEW k \in 0 .. N, \A j \in k + 1 .. N : j \in T PROVE k \in T
  <2>1. f[k] = Body(d, f, k)
    BY LoopUnfolds
  <2>2. CASE k = N \/ ~DecodeRecord(Suffix(d, k)).ok
    <3>1. f[k] = [entries |-> <<>>, end |-> k]
      BY <2>1, <2>2 DEF Body, Turn
    <3>2. <<>> \in Seq(Frames(d))
      OBVIOUS
    <3>3. k \in k .. N
      BY <1>1
    <3> HIDE DEF f
    <3>4. f[k] \in R /\ f[k].end = k
      BY <3>1, <3>2
    <3>5. QED
      BY <3>3, <3>4
  <2>3. CASE k # N /\ DecodeRecord(Suffix(d, k)).ok
    <3> DEFINE r == DecodeRecord(Suffix(d, k))
               j == k + r.used
    <3>1. j \in k + 4 .. N
      BY <2>3, FrameFits
    <3>2. r.entry \in Frames(d)
      BY DEF Frames
    <3>3. f[k] = [f[j] EXCEPT !.entries = <<r.entry>> \o @]
      BY <2>1, <2>3 DEF Body, Turn
    <3> HIDE DEF r, j, f
    <3>4. j \in T
      BY <1>1, <1>2, <3>1
    <3>5. f[j] \in R /\ f[j].end \in j .. N
      BY <3>4
    <3>6. <<r.entry>> \o f[j].entries \in Seq(Frames(d))
      <4>1. <<r.entry>> \in Seq(Frames(d)) /\ f[j].entries \in Seq(Frames(d))
        BY <3>2, <3>5
      <4>2. QED
        BY <4>1, ConcatProperties
    <3>7. f[k] \in R /\ f[k].end = f[j].end
      BY <3>3, <3>5, <3>6
    <3>8. f[k].end \in k .. N
      BY <1>1, <3>1, <3>5, <3>7
    <3>9. QED
      BY <3>7, <3>8
  <2>4. QED
    BY <2>2, <2>3
<1>3. pos \in T
  <2> HIDE DEF T
  <2>1. QED
    BY <1>1, <1>2, FromTheEnd
<1>4. QED
  BY <1>3

\* Where nothing decodes the scan ends; where a record does it goes on behind it.
LEMMA LoopMeans ==
  ASSUME NEW S, CellType(S), NEW d \in Seq(S), NEW pos \in 0 .. Len(d)
  PROVE  LET r == DecodeRecord(Suffix(d, pos))
         IN  /\ pos = Len(d) \/ ~r.ok => Loop(d)[pos] = [entries |-> <<>>, end |-> pos]
             /\ pos # Len(d) /\ r.ok =>
                  /\ pos + r.used \in pos + 4 .. Len(d)
                  /\ Loop(d)[pos].entries = <<r.entry>> \o Loop(d)[pos + r.used].entries
                  /\ Loop(d)[pos].end = Loop(d)[pos + r.used].end
<1> DEFINE r == DecodeRecord(Suffix(d, pos))
           f == Loop(d)
<1>1. f[pos] = Body(d, f, pos)
  BY LoopUnfolds
<1>2. pos = Len(d) \/ ~r.ok => f[pos] = [entries |-> <<>>, end |-> pos]
  BY <1>1 DEF Body, Turn
<1>3. ASSUME pos # Len(d), r.ok
      PROVE  /\ pos + r.used \in pos + 4 .. Len(d)
             /\ f[pos].entries = <<r.entry>> \o f[pos + r.used].entries
             /\ f[pos].end = f[pos + r.used].end
  <2> DEFINE j == pos + r.used
  <2>1. j \in pos + 4 .. Len(d)
    BY <1>3, FrameFits
  <2>2. f[pos] = [f[j] EXCEPT !.entries = <<r.entry>> \o @]
    BY <1>1, <1>3 DEF Body, Turn
  <2>3. j \in 0 .. Len(d)
    <3> HIDE DEF j
    <3>1. Len(d) \in Nat
      BY LenProperties
    <3>2. QED
      BY <2>1, <3>1
  <2>4. f[j] \in [entries : Seq(Frames(d)), end : 0 .. Len(d)]
    <3> HIDE DEF j
    <3>1. QED
      BY <2>3, LoopType
  <2>5. f[pos].entries = <<r.entry>> \o f[j].entries /\ f[pos].end = f[j].end
    <3> HIDE DEF j, f, r
    <3>1. QED
      BY <2>2, <2>4
  <2>6. QED
    BY <2>1, <2>5
<1>4. QED
  BY <1>2, <1>3

-----------------------------------------------------------------------------
LEMMA GoesOn ==
  ASSUME NEW S, CellType(S), NEW d \in Seq(S), NEW pos \in 0 .. Len(d), pos # Len(d),
         DecodeRecord(Suffix(d, pos)).ok
  PROVE  LET r == DecodeRecord(Suffix(d, pos))
         IN  /\ Loop(d)[pos].entries = <<r.entry>> \o Loop(d)[pos + r.used].entries
             /\ Loop(d)[pos].end = Loop(d)[pos + r.used].end
<1> DEFINE r == DecodeRecord(Suffix(d, pos))
           f == Loop(d)
           A == pos = Len(d) \/ ~r.ok => f[pos] = [entries |-> <<>>, end |-> pos]
           B == pos # Len(d) /\ r.ok => /\ pos + r.used \in pos + 4 .. Len(d)
                                       /\ f[pos].entries = <<r.entry>> \o f[pos + r.used].entries
                                       /\ f[pos].end = f[pos + r.used].end
<1>1. A /\ B
  BY LoopMeans
<1> HIDE DEF A
<1>2. QED
  BY <1>1

LEMMA Associative == \A V : \A x, y, z \in Seq(V) : z \o (x \o y) = (z \o x) \o y
BY ConcatAssociative

\* A frame that decodes in a file decodes in every file that starts with it.
LEMMA SameFrame ==
  ASSUME NEW S, CellType(S), NEW d \in Seq(S), NEW e \in Seq(S),
         NEW pos \in 0 .. Len(d), pos <= Len(e),
         DecodeRecord(Suffix(d, pos)).ok,
         pos + DecodeRecord(Suffix(d, pos)).used <= Len(e),
         \A i \in 1 .. pos + DecodeRecord(Suffix(d, pos)).used : e[i] = d[i]
  PROVE  DecodeRecord(Suffix(e, pos)) = DecodeRecord(Suffix(d, pos))
<1> DEFINE s == Suffix(d, pos)
           t == Suffix(e, pos)
           u == DecodeRecord(s).used
<1>1. Len(d) \in Nat /\ Len(e) \in Nat
  BY LenProperties
<1>2. pos \in 0 .. Len(e)
  BY <1>1
<1>3. s \in Seq(S) /\ Len(s) = Len(d) - pos /\ \A i \in 1 .. Len(d) - pos : s[i] = d[pos + i]
  BY SuffixIsSeq
<1>4. t \in Seq(S) /\ Len(t) = Len(e) - pos /\ \A i \in 1 .. Len(e) - pos : t[i] = e[pos + i]
  BY <1>2, SuffixIsSeq
<1>5. u \in 4 .. Len(d) - pos
  BY FrameFits
<1>6. DecodeRecord(s).ok /\ pos + u <= Len(e) /\ \A i \in 1 .. pos + u : e[i] = d[i]
  OBVIOUS
<1> HIDE DEF s, t
<1>7. \A x \in Seq(S) : /\ u <= Len(x)
                        /\ \A i \in 1 .. u : x[i] = s[i]
                        => DecodeRecord(x) = DecodeRecord(s)
  BY <1>3, <1>6, DecodeIsLocal
<1> HIDE DEF u
<1>8. u <= Len(t)
  BY <1>1, <1>2, <1>4, <1>5, <1>6
<1>9. ASSUME NEW i \in 1 .. u PROVE t[i] = s[i]
  <2>1. i \in 1 .. Len(d) - pos /\ i \in 1 .. Len(e) - pos /\ pos + i \in 1 .. pos + u
    BY <1>1, <1>2, <1>5, <1>6
  <2>2. QED
    BY <1>3, <1>4, <1>6, <2>1
<1>10. DecodeRecord(t) = DecodeRecord(s)
  BY <1>4, <1>7, <1>8, <1>9
<1>11. QED
  BY <1>10 DEF s, t

\* The scan of a file that goes on: first all the old entries, then what follows them.
LEMMA ScanContinues ==
  ASSUME NEW S, CellType(S), NEW d \in Seq(S), NEW e \in Seq(S),
         Len(d) <= Len(e), \A i \in 1 .. Len(d) : e[i] = d[i],
         NEW pos \in 0 .. Len(d)
  PROVE  LET q == Loop(d)[pos].end
         IN  /\ Loop(e)[pos].entries = Loop(d)[pos].entries \o Loop(e)[q].entries
             /\ Loop(e)[pos].end = Loop(e)[q].end
<1> DEFINE f == Loop(d)
           g == Loop(e)
           N == Len(d)
           V == Frames(d) \cup Frames(e)
           T == {k \in 0 .. N : /\ g[k].entries = f[k].entries \o g[f[k].end].entries
                                /\ g[k].end = g[f[k].end].end}
<1>1. N \in Nat /\ Len(e) \in Nat
  BY LenProperties
<1>2. \A k \in 0 .. N : /\ f[k].entries \in Seq(V) /\ f[k].end \in 0 .. N
                        /\ k \in 0 .. Len(e) /\ g[k].entries \in Seq(V)
  <2> TAKE k \in 0 .. N
  <2>1. k \in 0 .. Len(e)
    BY <1>1
  <2>2. f[k] \in [entries : Seq(Frames(d)), end : 0 .. N]
    BY LoopType
  <2>3. g[k] \in [entries : Seq(Frames(e)), end : 0 .. Len(e)]
    BY <2>1, LoopType
  <2> HIDE DEF f, g
  <2>4. f[k].entries \in Seq(Frames(d)) /\ g[k].entries \in Seq(Frames(e)) /\ f[k].end \in 0 .. N
    BY <2>2, <2>3
  <2>5. Seq(Frames(d)) \subseteq Seq(V) /\ Seq(Frames(e)) \subseteq Seq(V)
    BY SeqMonotonic
  <2>6. QED
    BY <2>1, <2>4, <2>5
<1>3. ASSUME NEW k \in 0 .. N, \A j \in k + 1 .. N : j \in T PROVE k \in T
  <2> DEFINE r == DecodeRecord(Suffix(d, k))
  <2>1. CASE k = N \/ ~r.ok
    <3>1. f[k] = [entries |-> <<>>, end |-> k]
      BY <2>1, LoopMeans
    <3>2. g[k].entries \in Seq(V)
      BY <1>2
    <3> HIDE DEF f, g
    <3>3. f[k].entries = <<>> /\ f[k].end = k
      BY <3>1
    <3>4. <<>> \o g[k].entries = g[k].entries
      BY <3>2, ConcatEmptySeq
    <3>5. QED
      BY <3>3, <3>4
  <2>2. CASE k # N /\ r.ok
    <3> DEFINE j == k + r.used
    <3>1. /\ j \in k + 4 .. N
          /\ f[k].entries = <<r.entry>> \o f[j].entries
          /\ f[k].end = f[j].end
      BY <2>2, LoopMeans
    <3>2. DecodeRecord(Suffix(e, k)) = r
      <4>1. j \in Int /\ k <= Len(e) /\ j <= Len(e) /\ \A i \in 1 .. j : i \in 1 .. N
        <5> HIDE DEF j
        <5>1. QED
          BY <1>1, <3>1
      <4>2. QED
        BY <2>2, <4>1, SameFrame
    <3>3. g[k].entries = <<r.entry>> \o g[j].entries /\ g[k].end = g[j].end
      <4> DEFINE w == DecodeRecord(Suffix(e, k))
      <4>1. k \in 0 .. Len(e) /\ k # Len(e)
        BY <1>1, <2>2
      <4>2. w.ok
        BY <2>2, <3>2
      <4>3. w = r
        BY <3>2
      <4>4. g[k].entries = <<w.entry>> \o g[k + w.used].entries /\ g[k].end = g[k + w.used].end
        BY <4>1, <4>2, GoesOn
      <4> HIDE DEF w, r, g
      <4>5. QED
        BY <4>3, <4>4
    <3>4. r.entry \in V
      BY DEF Frames
    <3> HIDE DEF f, g, r, j, V
    <3>5. j \in T /\ j \in 0 .. N
      <4> HIDE DEF T
      <4>1. j \in k + 1 .. N /\ j \in 0 .. N
        BY <1>1, <3>1
      <4>2. QED
        BY <1>3, <4>1
    <3>6. g[j].entries = f[j].entries \o g[f[j].end].entries /\ g[j].end = g[f[j].end].end
      BY <3>5
    <3>7. <<r.entry>> \o (f[j].entries \o g[f[j].end].entries)
            = (<<r.entry>> \o f[j].entries) \o g[f[j].end].entries
      <4>1. <<r.entry>> \in Seq(V)
        BY <3>4
      <4>2. f[j].entries \in Seq(V) /\ g[f[j].end].entries \in Seq(V)
        BY <1>2, <3>5
      <4> DEFINE x == f[j].entries
                 y == g[f[j].end].entries
                 z == <<r.entry>>
      <4>3. x \in Seq(V) /\ y \in Seq(V) /\ z \in Seq(V)
        BY <4>1, <4>2
      <4> HIDE DEF x, y, z
      <4>4. z \o (x \o y) = (z \o x) \o y
        BY <4>3, Associative
      <4>5. QED
        BY <4>4 DEF x, y, z
    <3>8. QED
      BY <3>1, <3>3, <3>6, <3>7
  <2>3. QED
    BY <2>1, <2>2
<1>4. pos \in T
  <2> HIDE DEF T
  <2>1. QED
    BY <1>1, <1>3, FromTheEnd
<1>5. QED
  BY <1>4

\* What a scan reads stays readable when the file is cut where the scan ended.
LEMMA ScanOfCut ==
  ASSUME NEW S, CellType(S), NEW d \in Seq(S), NEW e \in Seq(S),
         Len(e) = Loop(d)[0].end, \A i \in 1 .. Len(e) : e[i] = d[i]
  PROVE  Loop(e)[0] = Loop(d)[0]
<1> DEFINE f == Loop(d)
           g == Loop(e)
           N == Len(d)
           M == Len(e)
           T == {k \in 0 .. N : f[k].end = M => k <= M /\ g[k] = f[k]}
<1>1. N \in Nat /\ M \in Nat
  BY LenProperties
<1>2. ASSUME NEW k \in 0 .. N, \A j \in k + 1 .. N : j \in T PROVE k \in T
  <2> DEFINE r == DecodeRecord(Suffix(d, k))
  <2> SUFFICES ASSUME f[k].end = M PROVE k <= M /\ g[k] = f[k]
    OBVIOUS
  <2>1. CASE k = N \/ ~r.ok
    <3>1. f[k] = [entries |-> <<>>, end |-> k]
      BY <2>1, LoopMeans
    <3>2. k = M
      <4> HIDE DEF f
      <4>1. QED
        BY <3>1
    <3>3. M \in 0 .. M /\ (M = M)
      BY <1>1
    <3>4. g[M] = [entries |-> <<>>, end |-> M]
      BY <3>3, LoopMeans
    <3> HIDE DEF f, g, M
    <3>5. QED
      BY <1>1, <3>1, <3>2, <3>4
  <2>2. CASE k # N /\ r.ok
    <3> DEFINE j == k + r.used
    <3>1. /\ j \in k + 4 .. N
          /\ f[k].entries = <<r.entry>> \o f[j].entries
          /\ f[k].end = f[j].end
      BY <2>2, LoopMeans
    <3>2. j \in T /\ j \in 0 .. N
      <4> HIDE DEF j, T
      <4>1. QED
        BY <1>1, <1>2, <3>1
    <3>3. j <= M /\ g[j] = f[j]
      BY <3>1, <3>2
    <3>4. DecodeRecord(Suffix(e, k)) = r
      <4>1. j \in Int /\ k <= Len(e) /\ j <= Len(e) /\ \A i \in 1 .. j : i \in 1 .. M
        <5> HIDE DEF j
        <5>1. QED
          BY <1>1, <3>1, <3>3
      <4>2. QED
        BY <2>2, <4>1, SameFrame
    <3>5. k \in 0 .. M /\ k # M
      <4> HIDE DEF j
      <4>1. QED
        BY <1>1, <3>1, <3>3
    <3>6. g[k].entries = <<r.entry>> \o g[j].entries /\ g[k].end = g[j].end
      <4> DEFINE w == DecodeRecord(Suffix(e, k))
      <4>1. k # M /\ w.ok => /\ g[k].entries = <<w.entry>> \o g[k + w.used].entries
                            /\ g[k].end = g[k + w.used].end
        BY <3>5, LoopMeans
      <4>2. w = r
        BY <3>4
      <4> HIDE DEF w, r, g, M
      <4>3. QED
        BY <2>2, <3>5, <4>1, <4>2
    <3>7. g[k] \in [entries : Seq(Frames(e)), end : 0 .. M] /\ f[k] \in [entries : Seq(Frames(d)), end : 0 .. N]
      BY <3>5, LoopType
    <3> HIDE DEF f, g, j, r
    <3>8. g[k] = f[k]
      <4>1. g[k].entries = f[k].entries /\ g[k].end = f[k].end
        BY <3>1, <3>3, <3>6
      <4>2. /\ g[k] = [entries |-> g[k].entries, end |-> g[k].end]
            /\ f[k] = [entries |-> f[k].entries, end |-> f[k].end]
        BY <3>7
      <4>3. QED
        BY <4>1, <4>2
    <3>9. QED
      BY <1>1, <3>5, <3>8
  <2>3. QED
    BY <2>1, <2>2
<1>3. 0 \in T
  <2>1. 0 \in 0 .. N
    BY <1>1
  <2> HIDE DEF T
  <2>2. QED
    BY <1>1, <1>2, <2>1, FromTheEnd
<1>4. QED
  BY <1>3

-----------------------------------------------------------------------------
LEMMA ScanType ==
  ASSUME NEW S, CellType(S), NEW d \in Seq(S)
  PROVE  /\ Scan(d) = [entries |-> Scan(d).entries, end |-> Scan(d).end]
         /\ Scan(d).entries \in Seq(Frames(d))
         /\ Scan(d).end \in 0 .. Len(d)
<1>1. 0 \in 0 .. Len(d)
  BY LenProperties
<1>2. Loop(d)[0] \in [entries : Seq(Frames(d)), end : 0 .. Len(d)]
  BY <1>1, LoopType
<1>3. Scan(d) = Loop(d)[0]
  BY ScanLoop
<1>4. QED
  BY <1>2, <1>3

\* What a file reads after cells are added at its end: the old entries, then whatever
\* the scan finds from where it used to end.
LEMMA ScanOfMore ==
  ASSUME NEW S, CellType(S), NEW d \in Seq(S), NEW x \in Seq(S)
  PROVE  /\ d \o x \in Seq(S)
         /\ Scan(d \o x).entries = Scan(d).entries \o Loop(d \o x)[Scan(d).end].entries
         /\ Scan(d \o x).end = Loop(d \o x)[Scan(d).end].end
<1> DEFINE e == d \o x
<1>1. /\ e \in Seq(S) /\ Len(d) \in Nat /\ Len(x) \in Nat /\ Len(e) = Len(d) + Len(x)
      /\ \A i \in 1 .. Len(d) : e[i] = d[i]
  BY ConcatParts
<1> HIDE DEF e
<1>2. 0 \in 0 .. Len(d) /\ Len(d) <= Len(e)
  BY <1>1
<1>3. LET q == Loop(d)[0].end
      IN  /\ Loop(e)[0].entries = Loop(d)[0].entries \o Loop(e)[q].entries
          /\ Loop(e)[0].end = Loop(e)[q].end
  BY <1>1, <1>2, ScanContinues
<1>4. Scan(d) = Loop(d)[0] /\ Scan(e) = Loop(e)[0]
  BY ScanLoop
<1>5. QED
  BY <1>1, <1>3, <1>4 DEF e

\* Whatever is appended to a file, also a torn record, what could be read from it still
\* can (Journal::append and append_raw_batch, codec.rs and async_journal.rs).
THEOREM AppendHidesNothing ==
  ASSUME NEW S, CellType(S), NEW d \in Seq(S), NEW x \in Seq(S)
  PROVE  IsPrefix(Scan(d).entries, Scan(d \o x).entries)
<1> DEFINE e == d \o x
           a == Scan(d).entries
           b == Scan(e).entries
           y == Loop(e)[Scan(d).end].entries
           V == Frames(d) \cup Frames(e)
<1>1. e \in Seq(S) /\ b = a \o y
  BY ScanOfMore
<1>2. Scan(d).end \in 0 .. Len(e)
  <2>1. Scan(d).end \in 0 .. Len(d)
    BY ScanType
  <2>2. Len(d) \in Nat /\ Len(e) = Len(d) + Len(x) /\ Len(x) \in Nat
    BY ConcatParts
  <2> HIDE DEF e
  <2>3. QED
    BY <2>1, <2>2
<1>3. a \in Seq(Frames(d))
  BY ScanType
<1> HIDE DEF e
<1>4. y \in Seq(Frames(e))
  <2>1. Loop(e)[Scan(d).end] \in [entries : Seq(Frames(e)), end : 0 .. Len(e)]
    BY <1>1, <1>2, LoopType
  <2>2. QED
    BY <2>1
<1>5. a \in Seq(V) /\ y \in Seq(V)
  <2>1. Seq(Frames(d)) \subseteq Seq(V) /\ Seq(Frames(e)) \subseteq Seq(V)
    BY SeqMonotonic
  <2>2. QED
    BY <1>3, <1>4, <2>1
<1> HIDE DEF a, b, y, V
<1>6. /\ Len(a) \in Nat /\ Len(y) \in Nat /\ Len(b) = Len(a) + Len(y)
      /\ \A i \in 1 .. Len(a) : b[i] = a[i]
  BY <1>1, <1>5, ConcatParts
<1>7. IsPrefix(a, b)
  <2>1. SubSeq(b, 1, Len(a)) = [i \in 1 .. Len(a) |-> b[i]]
    BY <1>6
  <2>2. a = [i \in 1 .. Len(a) |-> a[i]]
    BY <1>5, LenProperties
  <2>3. Len(a) <= Len(b) /\ SubSeq(b, 1, Len(a)) = a
    BY <1>6, <2>1, <2>2
  <2>4. QED
    BY <2>3 DEF IsPrefix
<1>8. QED
  BY <1>7 DEF a, b, e

\* The file holds whole records and nothing else.
Whole(d) == Scan(d).end = Len(d)

\* A file that is read to its end, with a record appended: the same entries and this one.
THEOREM RecordIsRead ==
  ASSUME NEW S, CellType(S), NEW d \in Seq(S), Whole(d),
         NEW n, NEW c, IsCommand(c)
  PROVE  /\ d \o EncodeRecord(n, c) \in Seq(S \cup RecordCells(n, c))
         /\ Scan(d \o EncodeRecord(n, c)).entries
              = Append(Scan(d).entries, [sequence |-> n, command |-> c])
         /\ Whole(d \o EncodeRecord(n, c))
<1> DEFINE r == EncodeRecord(n, c)
           V == S \cup RecordCells(n, c)
           e == d \o r
           N == Len(d)
           entry == [sequence |-> n, command |-> c]
           g == Loop(e)
           b == Encode(c)
<1>1. CellType(V)
  <2>1. CellType(RecordCells(n, c))
    BY RecordShape
  <2>2. QED
    BY <2>1 DEF CellType
<1>2. d \in Seq(V) /\ r \in Seq(V)
  <2>1. r \in Seq(RecordCells(n, c))
    BY RecordShape
  <2>2. Seq(S) \subseteq Seq(V) /\ Seq(RecordCells(n, c)) \subseteq Seq(V)
    BY SeqMonotonic
  <2> HIDE DEF V, r
  <2>3. QED
    BY <2>1, <2>2
<1>3. Len(r) \in Nat /\ Len(r) >= 4
  <2> DEFINE l == Len(b)
             p == [i \in 1 .. Len(b) |-> <<"field", b[i]>>]
  <2>1. /\ Len(b) \in Nat /\ Len(r) = Len(b) + 4
        /\ r[1] = <<"lo", Len(b)>> /\ r[2] = <<"hi", Len(b)>>
        /\ r[3] = <<"sequence", n>>
        /\ \A i \in 1 .. Len(b) : r[3 + i] = p[i]
        /\ r[Len(b) + 4] = Crc(<<"sequence", n>>, p)
    BY RecordShape
  <2>2. l \in Nat /\ Len(r) = l + 4
    BY <2>1
  <2> HIDE DEF l, p, r
  <2>3. QED
    BY <2>2
<1> HIDE DEF r, V
<1>4. /\ e \in Seq(V) /\ N \in Nat /\ Len(e) = N + Len(r)
      /\ \A i \in 1 .. Len(r) : e[N + i] = r[i]
  BY <1>2, ConcatParts
<1>5. Scan(e).entries = Scan(d).entries \o g[N].entries /\ Scan(e).end = g[N].end
  <2>1. /\ Scan(e).entries = Scan(d).entries \o Loop(e)[Scan(d).end].entries
        /\ Scan(e).end = Loop(e)[Scan(d).end].end
    BY <1>1, <1>2, ScanOfMore
  <2>2. QED
    BY <2>1 DEF Whole
<1> HIDE DEF e, g, N
<1>6. N \in 0 .. Len(e) /\ N # Len(e)
  BY <1>3, <1>4
<1>7. DecodeRecord(Suffix(e, N)) = [ok |-> TRUE, used |-> Len(r), entry |-> entry]
  <2> DEFINE s == Suffix(e, N)
  <2>1. s \in Seq(V) /\ Len(s) = Len(e) - N /\ \A i \in 1 .. Len(e) - N : s[i] = e[N + i]
    BY <1>4, <1>6, SuffixIsSeq
  <2>2. Len(e) - N = Len(r)
    BY <1>3, <1>4
  <2>3. Len(r) <= Len(s) /\ \A i \in 1 .. Len(r) : s[i] = r[i]
    BY <1>3, <1>4, <2>1, <2>2
  <2> HIDE DEF s
  <2>4. DecodeRecord(s) = [ok |-> TRUE, used |-> Len(r), entry |-> entry]
    BY <2>1, <2>3, RecordDecodes DEF r
  <2>5. QED
    BY <2>4 DEF s
<1>8. g[N].entries = <<entry>> \o g[N + Len(r)].entries /\ g[N].end = g[N + Len(r)].end
  <2> DEFINE w == DecodeRecord(Suffix(e, N))
  <2>1. w.ok
    BY <1>7
  <2>2. g[N].entries = <<w.entry>> \o g[N + w.used].entries /\ g[N].end = g[N + w.used].end
    BY <1>1, <1>4, <1>6, <2>1, GoesOn DEF g
  <2>3. w.used = Len(r) /\ w.entry = entry
    BY <1>7
  <2> HIDE DEF w
  <2>4. QED
    BY <2>2, <2>3
<1>9. g[N + Len(r)] = [entries |-> <<>>, end |-> Len(e)]
  <2> DEFINE q == Len(e)
  <2>1. q \in 0 .. Len(e) /\ q = Len(e)
    BY <1>4, LenProperties
  <2> HIDE DEF q
  <2>2. Loop(e)[q] = [entries |-> <<>>, end |-> q]
    BY <1>1, <1>4, <2>1, LoopMeans
  <2>3. QED
    BY <1>4, <2>1, <2>2 DEF g
<1>10. g[N].entries = <<entry>> /\ g[N].end = Len(e)
  <2>1. <<entry>> \o <<>> = <<entry>>
    BY <<entry>> \in Seq({entry}), ConcatEmptySeq
  <2>2. QED
    BY <1>8, <1>9, <2>1
<1>11. Scan(d).entries \o <<entry>> = Append(Scan(d).entries, entry)
  <2> DEFINE a == Scan(d).entries
             U == Frames(d) \cup {entry}
  <2>1. a \in Seq(Frames(d))
    BY ScanType
  <2>2. a \in Seq(U)
    BY <2>1, SeqMonotonic
  <2>3. entry \in U
    OBVIOUS
  <2> HIDE DEF a, U, entry
  <2>4. Append(a, entry) = a \o <<entry>>
    BY <2>2, <2>3, AppendIsConcat
  <2>5. QED
    BY <2>4 DEF a
<1>12. QED
  BY <1>4, <1>5, <1>10, <1>11 DEF e, V, r, entry, Whole

\* What a write that stops inside a record leaves of it.
Torn(n, c) == {SubSeq(EncodeRecord(n, c), 1, m) : m \in 0 .. Len(EncodeRecord(n, c)) - 1}

\* Nothing of x, behind d, is read.
AddsNothing(d, x) == Scan(d \o x).entries = Scan(d).entries /\ Scan(d \o x).end = Len(d)

LEMMA TornAddsNothing ==
  ASSUME NEW S, CellType(S), NEW d \in Seq(S), Whole(d),
         NEW n, NEW c, IsCommand(c), NEW x, x \in Torn(n, c)
  PROVE  d \o x \in Seq(S \cup RecordCells(n, c)) /\ AddsNothing(d, x)
<1> DEFINE r == EncodeRecord(n, c)
           V == S \cup RecordCells(n, c)
           e == d \o x
           N == Len(d)
           g == Loop(e)
<1>1. CellType(V) /\ r \in Seq(RecordCells(n, c))
  <2>1. r \in Seq(RecordCells(n, c)) /\ CellType(RecordCells(n, c))
    BY RecordShape
  <2>2. QED
    BY <2>1 DEF CellType
<1>0. PICK m \in 0 .. Len(r) - 1 : x = SubSeq(r, 1, m)
  BY DEF Torn
<1>2. m \in Nat /\ m < Len(r) /\ Len(r) \in Nat
  <2>1. Len(r) \in Nat /\ m \in 0 .. Len(r) - 1
    BY <1>1, LenProperties
  <2> HIDE DEF r
  <2>2. QED
    BY <2>1
<1> HIDE DEF r
<1>3. x \in Seq(RecordCells(n, c)) /\ Len(x) = m /\ \A i \in 1 .. m : x[i] = r[i]
  BY <1>0, <1>1, <1>2
<1>4. d \in Seq(V) /\ x \in Seq(V)
  <2>1. Seq(S) \subseteq Seq(V) /\ Seq(RecordCells(n, c)) \subseteq Seq(V)
    BY SeqMonotonic
  <2> HIDE DEF V
  <2>2. QED
    BY <1>3, <2>1
<1> HIDE DEF V
<1>5. /\ e \in Seq(V) /\ N \in Nat /\ Len(e) = N + Len(x)
      /\ \A i \in 1 .. Len(x) : e[N + i] = x[i]
  BY <1>4, ConcatParts
<1>6. Scan(e).entries = Scan(d).entries \o g[N].entries /\ Scan(e).end = g[N].end
  <2>1. /\ Scan(e).entries = Scan(d).entries \o Loop(e)[Scan(d).end].entries
        /\ Scan(e).end = Loop(e)[Scan(d).end].end
    BY <1>1, <1>4, ScanOfMore
  <2>2. QED
    BY <2>1 DEF Whole
<1> HIDE DEF e, g, N
<1>7. N \in 0 .. Len(e) /\ Len(e) - N = m
  BY <1>2, <1>3, <1>5
<1>8. ~DecodeRecord(Suffix(e, N)).ok
  <2> DEFINE s == Suffix(e, N)
  <2>1. s \in Seq(V) /\ Len(s) = Len(e) - N /\ \A i \in 1 .. Len(e) - N : s[i] = e[N + i]
    BY <1>5, <1>7, SuffixIsSeq
  <2>2. Len(s) < Len(r) /\ \A i \in 1 .. Len(s) : s[i] = r[i]
    BY <1>2, <1>3, <1>5, <1>7, <2>1
  <2> HIDE DEF s
  <2>3. ~DecodeRecord(s).ok
    BY <2>1, <2>2, TornDoesNotDecode DEF r
  <2>4. QED
    BY <2>3 DEF s
<1>9. g[N] = [entries |-> <<>>, end |-> N]
  BY <1>1, <1>5, <1>7, <1>8, LoopMeans DEF g
<1>10. Scan(d).entries \o <<>> = Scan(d).entries
  <2>1. Scan(d).entries \in Seq(Frames(d))
    BY ScanType
  <2>2. QED
    BY <2>1, ConcatEmptySeq
<1>11. e \in Seq(V) /\ Scan(e).entries = Scan(d).entries /\ Scan(e).end = N
  <2>1. g[N].entries = <<>> /\ g[N].end = N
    BY <1>9
  <2>2. QED
    BY <1>5, <1>6, <1>10, <2>1
<1>12. QED
  BY <1>11 DEF e, V, N, AddsNothing

\* A file that is read to its end, with a torn record behind it: the same entries, and
\* the scan ends where the torn record starts.
THEOREM TornRecordIsIgnored ==
  ASSUME NEW S, CellType(S), NEW d \in Seq(S), Whole(d),
         NEW n, NEW c, IsCommand(c), NEW x \in Torn(n, c)
  PROVE  /\ d \o x \in Seq(S \cup RecordCells(n, c))
         /\ Scan(d \o x).entries = Scan(d).entries
         /\ Scan(d \o x).end = Len(d)
<1>1. d \o x \in Seq(S \cup RecordCells(n, c)) /\ AddsNothing(d, x)
  <2>1. x \in Torn(n, c)
    OBVIOUS
  <2>2. QED
    BY <2>1, TornAddsNothing
<1>2. QED
  BY <1>1 DEF AddsNothing

\* recover_file keeps what can be read and nothing else: the file it leaves reads to its
\* end, gives the same entries, and recovering it again changes nothing.
THEOREM RecoveryIsExact ==
  ASSUME NEW S, CellType(S), NEW d \in Seq(S)
  PROVE  LET c == RecoverFile(d).data
         IN  /\ c \in Seq(S)
             /\ Scan(c).entries = Scan(d).entries
             /\ Whole(c)
             /\ RecoverFile(c).data = c
             /\ RecoverFile(c).last_valid_sequence = RecoverFile(d).last_valid_sequence
             /\ RecoverFile(c).truncated_bytes = 0
<1> DEFINE m == Scan(d).end
           c == SubSeq(d, 1, m)
<1>1. RecoverFile(d).data = c
  BY DEF RecoverFile
<1>2. m \in 0 .. Len(d) /\ Len(d) \in Nat
  BY ScanType, LenProperties
<1> HIDE DEF m
<1>3. c \in Seq(S) /\ Len(c) = m /\ \A i \in 1 .. m : c[i] = d[i]
  BY <1>2
<1> HIDE DEF c
<1>4. Scan(d) = Loop(d)[0] /\ Scan(c) = Loop(c)[0]
  BY ScanLoop
<1>5. Len(c) = Loop(d)[0].end
  BY <1>3, <1>4 DEF m
<1>6. Scan(c) = Scan(d)
  <2>1. \A i \in 1 .. Len(c) : c[i] = d[i]
    BY <1>3
  <2>2. Loop(c)[0] = Loop(d)[0]
    BY <1>3, <1>5, <2>1, ScanOfCut
  <2>3. QED
    BY <1>4, <2>2
<1>7. Scan(c).end = Len(c) /\ Scan(c).entries = Scan(d).entries
  BY <1>3, <1>6 DEF m
<1>8. RecoverFile(c).data = c
  <2>1. SubSeq(c, 1, Len(c)) = c
    BY <1>3, SubSeqFull
  <2>2. QED
    BY <1>7, <2>1 DEF RecoverFile
<1>9. RecoverFile(c).last_valid_sequence = RecoverFile(d).last_valid_sequence
  BY <1>7 DEF RecoverFile
<1>10. RecoverFile(c).truncated_bytes = 0
  <2>1. Len(c) - Len(c) = 0
    BY <1>2, <1>3
  <2>2. QED
    BY <1>7, <2>1 DEF RecoverFile
<1>11. QED
  BY <1>1, <1>3, <1>7, <1>8, <1>9, <1>10 DEF Whole
=============================================================================
