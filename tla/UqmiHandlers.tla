----------------------------- MODULE UqmiHandlers -----------------------------
(***************************************************************************)
(* What the handlers of uqmi's commands (uqmi/commands-*.c) have in common. *)
(* A handler prepares: from its argument and from the request structures    *)
(* the options before it have filled it makes a request, or fills such a    *)
(* structure itself, or refuses.  When the answer has come it prints: the   *)
(* fields of the answer, each guarded, or not, by the presence of the TLV   *)
(* it comes from.                                                           *)
(***************************************************************************)
EXTENDS Integers, Sequences, FiniteSets, TLC

(* An argument is what lies between its commas.  Of each piece a handler    *)
(* looks at the word it is, at the number strtoul finds at its beginning    *)
(* (0 if there is none), and whether anything follows the number; of the    *)
(* text of a message at its characters.  The numbers here fit in 31 bits, of *)
(* which a field keeps as many as it has.                                   *)
Piece(word, num, clean, chars) == [word |-> word, num |-> num, clean |-> clean,
                                   chars |-> chars]
NoArg == <<>>

Is(a, words) == Len(a) = 1 /\ a[1].word \in words
Word(a) == a[1].word
Number(a, width) == IF width < 32 THEN a[1].num % 2^width ELSE a[1].num
IsNumber(a) == Len(a) = 1 /\ a[1].clean
Chars(a) == a[1].chars

(* The static request structures: a field not set is not in the domain.     *)
(* Onto writes fields over those of a structure; Put stores one value in    *)
(* several structures.                                                      *)
Onto(fields, r) ==
    [f \in DOMAIN fields \cup DOMAIN r |-> IF f \in DOMAIN fields THEN fields[f] ELSE r[f]]

Put(s, places, v) ==
    [q \in DOMAIN s |-> Onto([f \in {p[2] : p \in {x \in places : x[1] = q}} |-> v], s[q])]

Set(s, struct, fields) == [s EXCEPT ![struct] = Onto(fields, @)]

(* enum qmi_cmd_result, with what it goes with: the structures as they are  *)
(* now, the request made, and whether a system selection is asked for.      *)
NoRequest == [name |-> "none", carries |-> <<>>]
Done(s) == [res |-> "done", static |-> s, request |-> NoRequest, selects |-> FALSE]
Exit(s) == [Done(s) EXCEPT !.res = "exit"]
Request(s, name, fields) ==
    [Done(s) EXCEPT !.res = "request", !.request = [name |-> name, carries |-> fields]]
Plain(s, name) == Request(s, name, <<>>)

(* Printing: a field and the TLV it is read from, or Constant where it is a *)
(* word of the program's.  A field shown whether the TLV is there or not    *)
(* reads as zero if it is not.                                              *)
Constant == "none"
Show(tlv, fields) == {<<f, tlv>> : f \in fields}
If(tlvs, tlv, fields) == IF tlv \in tlvs THEN Show(tlv, fields) ELSE {}
=============================================================================
