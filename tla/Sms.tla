---------------------------------- MODULE Sms ----------------------------------
(* The short messages of uqmi (uqmi/commands-wms.c): the packing of seven    *)
(* bit characters into octets, the addresses, and the parsing of a raw      *)
(* message.  A text is a sequence of octets in, and of Unicode characters   *)
(* out.                                                                     *)
EXTENDS Integers, Sequences, TLC, SequencesExt

CEILDIV(x, y) == (x + y - 1) \div y
LesserOf(a, b) == IF a < b THEN a ELSE b
Low7(c) == c % 128

-----------------------------------------------------------------------------
(* Packing.  The octet being filled is always counted, though nothing is in *)
(* it after eight characters, or after none.                                *)
WrongEncodeChar(enc, c) ==  \* starts a new octet after seven characters, not eight
    IF enc.ofs = 0
    THEN [enc EXCEPT !.filling = c, !.ofs = 1]
    ELSE [full |-> Append(enc.full, enc.filling + ((c * 2^(8 - enc.ofs)) % 256)),
          filling |-> c \div 2^enc.ofs,
          ofs |-> (enc.ofs + 1) % 7]

EncodeChar(enc, c) ==
    IF enc.ofs = 0
    THEN [enc EXCEPT !.filling = c, !.ofs = 1]
    ELSE [full |-> Append(enc.full, enc.filling + ((c * 2^(8 - enc.ofs)) % 256)),
          filling |-> c \div 2^enc.ofs,
          ofs |-> (enc.ofs + 1) % 8]

(* A character whose low seven bits are zero ends the text.                 *)
Until0(str) ==
    LET zeros == {i \in DOMAIN str : Low7(str[i]) = 0}
    IN  IF zeros = {} THEN str
        ELSE SubSeq(str, 1, (CHOOSE i \in zeros : \A j \in zeros : i <= j) - 1)

pdu_encode_7bit_str(str) ==
    LET enc == FoldLeft(LAMBDA e, c : EncodeChar(e, Low7(c)),
                        [full |-> <<>>, filling |-> 0, ofs |-> 0], Until0(str))
    IN  Append(enc.full, enc.filling)

-----------------------------------------------------------------------------
(* Unpacking, from `len' octets of which the first holds the end of a       *)
(* header's last character if bit_offset says so.                           *)
SevenBits(data, i, bit_offset) ==
    LET pos == (i - 1 + bit_offset) % 7
        across == IF i = 1 THEN <<>>
                  ELSE <<(data[i - 1] \div 2^(8 - pos)) + ((data[i] * 2^pos) % 128)>>
    IN  IF pos = 0 THEN <<Low7(data[i])>>
        ELSE across \o (IF pos = 6 THEN <<data[i] \div 2>> ELSE <<>>)

conv_0x20 == <<64, 163, 36, 165, 232, 233, 249, 236, 242, 231, 10, 216, 248, 13, 197, 229,
               916, 95, 934, 915, 923, 937, 928, 936, 931, 920, 926, 160, 198, 230, 223, 201>>
conv_0x5b == <<196, 214, 209, 220, 167, 191>>
conv_0x7b == <<228, 246, 241, 252, 224>>
escaped == (10 :> 12 @@ 20 :> 94 @@ 40 :> 123 @@ 41 :> 125 @@ 47 :> 92 @@ 60 :> 91
            @@ 61 :> 126 @@ 62 :> 93 @@ 64 :> 124 @@ 101 :> 8364)

Normal(c) ==
    CASE c < 32 -> conv_0x20[c + 1]
      [] c = 64 -> 161
      [] c \in 91 .. 96 -> conv_0x5b[c - 90]
      [] c \in 123 .. 127 -> conv_0x7b[c - 122]
      [] OTHER -> c

(* An escape is held until the next character; one with no meaning after an *)
(* escape shows both.                                                       *)
pdu_decode_7bit_char(dec, c) ==
    IF dec.escape
    THEN [escape |-> FALSE,
          text |-> dec.text \o (IF c \in DOMAIN escaped THEN <<escaped[c]>>
                                ELSE IF c = 27 THEN <<Normal(27)>>
                                ELSE <<Normal(27), Normal(c)>>)]
    ELSE IF c = 27 THEN [dec EXCEPT !.escape = TRUE]
    ELSE [dec EXCEPT !.text = Append(@, Normal(c))]

pdu_decode_7bit_str(data, len, bit_offset) ==
    LET septets == FlattenSeq([i \in 1 .. len |-> SevenBits(data, i, bit_offset)])
    IN  FoldLeft(pdu_decode_7bit_char, [escape |-> FALSE, text |-> <<>>], septets).text

decode_7bit_field(data, data_len, bit_offset) ==
    pdu_decode_7bit_str(data, CEILDIV(data_len * 7, 8), bit_offset)

-----------------------------------------------------------------------------
(* Numbers: two digits an octet, 15 in place of the one that is missing.    *)
Zero == 48
Plus == 43
Digits == 48 .. 57

pdu_encode_semioctet(str) ==
    [k \in 1 .. CEILDIV(Len(str), 2) |->
        (str[2 * k - 1] - Zero)
          + 16 * (IF 2 * k <= Len(str) THEN str[2 * k] - Zero ELSE 15)]

pdu_add_semioctet(str, val) ==
    str \o SelectSeq(<<Zero + (val % 16), Zero + (val \div 16)>>, LAMBDA d : d \in Digits)

pdu_encode_number(number, smsc) ==
    LET plus == Head(number) = Plus
        str == IF plus THEN Tail(number) ELSE number
        ascii == \E i \in DOMAIN str : str[i] \notin Digits
        format == (IF plus THEN 145 ELSE 129) + (IF ascii THEN 64 ELSE 0)
        data == IF ascii THEN pdu_encode_7bit_str(str) ELSE pdu_encode_semioctet(str)
    IN  <<IF smsc THEN 1 + Len(data) ELSE Len(str), format>> \o data

(* The kind of the address is in three bits of its first octet.             *)
pdu_decode_address(data, len) ==
    LET kind == (data[1] \div 16) % 8
        octets == SubSeq(data, 2, 1 + len)
    IN  IF kind = 5 THEN pdu_decode_7bit_str(octets, len, 0)
        ELSE FoldLeft(pdu_add_semioctet, IF kind = 1 THEN <<Plus>> ELSE <<>>, octets)

-----------------------------------------------------------------------------
(* A message to send.                                                       *)

pdu_encode_data(str) == <<Len(str)>> \o pdu_encode_7bit_str(str)

RawMessage(smsc, target, flash, text) ==
    (IF smsc = <<>> THEN <<0>> ELSE pdu_encode_number(smsc, TRUE))
      \o <<17, 0>> \o pdu_encode_number(target, FALSE)
      \o <<0, IF flash THEN 16 ELSE 0, 255>> \o pdu_encode_data(text)

-----------------------------------------------------------------------------
(* Parsing a message.  What has been shown when an error is met stays shown: *)
(* each part shows its fields and says where the next one begins, 0 on an   *)
(* error.                                                                   *)
Shown(next, fields) == [next |-> next, fields |-> fields]
Error(fields) == Shown(0, fields)

SmscPart(data) ==
    LET len == data[1]
    IN  IF 2 + len > Len(data) THEN Error(<<>>)
        ELSE Shown(2 + len,
                   IF len = 0 THEN <<>>
                   ELSE [smsc |-> pdu_decode_address(SubSeq(data, 2, Len(data)), len - 1)])

(* `at' is the octet the part begins with.                                  *)
AddressPart(data, at) ==
    LET sent == data[at] % 4 = 1
        place == at + (IF sent THEN 2 ELSE 1)
        len == data[place]
        octets == (len + 1) \div 2
        address == pdu_decode_address(SubSeq(data, place + 1, Len(data)), octets)
    IN  IF at + 3 > Len(data) \/ place + 1 + len > Len(data) THEN Error(<<>>)
        ELSE IF len = 0 THEN Shown(place + 1, <<>>)
        ELSE Shown(place + 2 + octets,
                   IF sent THEN [receiver |-> address] ELSE [sender |-> address])

(* The time is shown of a received message; of a sent one the validity is   *)
(* skipped.                                                                 *)
CodingPart(data, at, sent) ==
    LET class == IF (data[at + 1] \div 16) % 2 = 1 THEN [class |-> data[at + 1] % 4] ELSE <<>>
        stamp == FoldLeft(pdu_add_semioctet, <<>>, SubSeq(data, at + 2, at + 7))
    IN  IF at + 3 > Len(data) \/ data[at] # 0 THEN Error(<<>>)
        ELSE IF sent THEN Shown(at + 3, class)
        ELSE IF at + 8 > Len(data) THEN Error(class)
        ELSE Shown(at + 9, class @@ [timestamp |-> stamp])

(* Of the elements of a header those that say which part of a message this  *)
(* is, with a reference of one octet or of two.                             *)
decode_udh(data) ==
    LET end == 2 + data[1]
        after(at) == at + 2 + data[at + 1]
        val(at, i) == data[at + 2 + i]
        shown(at) ==
            CASE data[at] = 0 -> [concat_ref |-> val(at, 0), concat_parts |-> val(at, 1),
                                  concat_part |-> val(at, 2)]
              [] data[at] = 8 -> [concat_ref |-> val(at, 0) * 256 + val(at, 1),
                                  concat_parts |-> val(at, 2), concat_part |-> val(at, 3)]
              [] OTHER -> <<>>
        from[at \in 2 .. end] ==
            IF at >= end \/ after(at) > end THEN <<>> ELSE shown(at) @@ from[after(at)]
    IN  from[2]

TextPart(data, at, dcs, header) ==
    LET udh_len == IF header THEN data[at + 1] + 1 ELSE 0
        udh == IF header THEN decode_udh(SubSeq(data, at + 1, Len(data))) ELSE <<>>
        rest == SubSeq(data, at + 1 + udh_len, Len(data))
        septets == LesserOf(data[at] - CEILDIV(udh_len * 8, 7), CEILDIV(Len(rest) * 8, 7))
        octets == SubSeq(rest, 1, LesserOf(data[at] - udh_len, Len(rest)))
    IN  IF rest = <<>> THEN Error(udh)
        ELSE CASE (dcs \div 4) % 4 = 0 ->
                    Shown(0, udh @@ [text |-> decode_7bit_field(rest, septets, udh_len % 7)])
               [] (dcs \div 4) % 4 = 1 -> Shown(0, udh @@ [data |-> octets])
               [] (dcs \div 4) % 4 = 2 -> Shown(0, udh @@ [ucs2 |-> octets])
               [] OTHER -> Error(udh)

wms_get_message_cb(data) ==
    LET smsc == SmscPart(data)
        address == AddressPart(data, smsc.next)
        sent == data[smsc.next] % 4 = 1
        coding == CodingPart(data, address.next, sent)
        text == TextPart(data, coding.next, data[address.next + 1],
                         (data[smsc.next] \div 64) % 2 = 1)
    IN  smsc.fields
          @@ (IF smsc.next = 0 THEN <<>> ELSE address.fields
               @@ (IF address.next = 0 THEN <<>> ELSE coding.fields
                   @@ (IF coding.next = 0 THEN <<>> ELSE text.fields)))
=============================================================================
