------------------------------ MODULE UrlUtil ------------------------------
(***************************************************************************)
(* UrlUtil and StringUtil: the handlers' own decoding of form bodies.  A   *)
(* string is a sequence of bytes.                                          *)
(***************************************************************************)
EXTENDS Integers, Sequences, FiniteSets, SequencesExt

Byte == 0..255

Space == 32   Percent == 37   Ampersand == 38   Plus == 43   Equals == 61

Digits == 48..57
Upper == 65..90
Lower == 97..122

(* An assert fails: the process is gone.  Stands last in what was decoded. *)
Aborted == -1
Aborts(s) == Aborted \in Range(s)

(* The stretches of s between bytes c, boost::split: one more than bytes c.*)
Split(s, c) ==
  LET from[i \in 1..Len(s) + 1] ==
        LET cuts == {j \in i..Len(s) : s[j] = c}
            cut == CHOOSE j \in cuts : \A k \in cuts : j <= k
        IN  IF cuts = {} THEN <<SubSeq(s, i, Len(s))>>
            ELSE <<SubSeq(s, i, cut - 1)>> \o from[cut + 1]
  IN  from[1]

ToHex(x) == IF x > 9 THEN x + 55 ELSE x + 48

(* Letters after F are taken too.                                          *)
FromHex(x) ==
  CASE x \in Upper  -> x - 65 + 10
    [] x \in Lower  -> x - 97 + 10
    [] x \in Digits -> x - 48
    [] OTHER        -> Aborted

(* Mutant: the + is written as it is.                                      *)
EncodedBytePlus(c) ==
  CASE c \in Digits \cup Upper \cup Lower \cup {45, 95, 46, 126, Plus} -> <<c>>
    [] c = Space -> <<Plus>>
    [] OTHER     -> <<Percent, ToHex(c \div 16), ToHex(c % 16)>>

(* What UrlEncode, or a browser, writes for one byte.                      *)
EncodedByte(c) ==
  CASE c \in Digits \cup Upper \cup Lower \cup {45, 95, 46, 126} -> <<c>>
    [] c = Space -> <<Plus>>
    [] OTHER     -> <<Percent, ToHex(c \div 16), ToHex(c % 16)>>

UrlEncode(str) == FlattenSeq([i \in DOMAIN str |-> EncodedByte(str[i])])

(* Mutant: the second digit is read again as a byte of its own.            *)
UrlDecodeShort(str) ==
  LET from[i \in 1..Len(str) + 1] ==
        IF i > Len(str) THEN <<>> ELSE
        CASE str[i] = Plus    -> <<Space>> \o from[i + 1]
          [] str[i] = Percent ->
               IF i + 2 > Len(str)
                 THEN <<Aborted>>
                 ELSE <<FromHex(str[i + 1]) * 16 + FromHex(str[i + 2])>> \o from[i + 2]
          [] OTHER            -> <<str[i]>> \o from[i + 1]
  IN  from[1]

(* high * 16 + low is cut to a char.                                       *)
UrlDecode(str) ==
  LET from[i \in 1..Len(str) + 1] ==
        IF i > Len(str) THEN <<>> ELSE
        CASE str[i] = Plus    -> <<Space>> \o from[i + 1]
          [] str[i] = Percent ->
               IF i + 2 > Len(str) \/ Aborted \in {FromHex(str[i + 1]), FromHex(str[i + 2])}
                 THEN <<Aborted>>
                 ELSE <<(FromHex(str[i + 1]) * 16 + FromHex(str[i + 2])) % 256>> \o from[i + 3]
          [] OTHER            -> <<str[i]>> \o from[i + 1]
  IN  from[1]

(* Parts of the body that do not hold one = are left out, of two with one  *)
(* key the later counts; the keys are not decoded.                         *)
ParseBody(body) ==
  LET kvs == Split(body, Ampersand)
      kv(i) == Split(kvs[i], Equals)
      taken == {i \in DOMAIN kvs : Len(kv(i)) = 2}
      last(key) == CHOOSE i \in taken :
                     kv(i)[1] = key /\ \A j \in taken : kv(j)[1] = key => j <= i
  IN  [key \in {kv(i)[1] : i \in taken} |-> UrlDecode(kv(last(key))[2])]
=============================================================================
