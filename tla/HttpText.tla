------------------------------ MODULE HttpText ------------------------------
(***************************************************************************)
(* What httplib reads from and writes to a stream: request line, headers,  *)
(* chunks, form bodies, multipart bodies, paths.  The state is one text,   *)
(* which grows piece by piece; the properties say that it arrives.         *)
(***************************************************************************)
EXTENDS UrlUtil

CONSTANTS
  Pieces,     \* the strings texts are put together of
  MaxPieces   \* bound: pieces in a text

ASSUME HttpTextAssumption ==
  /\ Pieces \subseteq Seq(Byte)
  /\ MaxPieces \in Nat

VARIABLES text, pieces

Init == text = <<>> /\ pieces = 0

Write == \E p \in Pieces :
  /\ pieces < MaxPieces
  /\ text' = text \o p
  /\ pieces' = pieces + 1

Spec == Init /\ [][Write]_<<text, pieces>>

NUL == 0   LF == 10   CR == 13   Dash == 45   Dot == 46   Slash == 47   Colon == 58
Question == 63   Letter_u == 117
CRLF == <<CR, LF>>

(* std::string::find: the first place from `from` on, or 0.                *)
Find(s, pattern, from) ==
  LET at == {i \in from..Len(s) - Len(pattern) + 1 :
               SubSeq(s, i, i + Len(pattern) - 1) = pattern}
  IN  IF at = {} THEN 0 ELSE CHOOSE i \in at : \A j \in at : i <= j

From(s, i) == SubSeq(s, i, Len(s))

(* What a C function sees of a text.                                       *)
CString(s) ==
  LET nul == Find(s, <<NUL>>, 1) IN IF nul = 0 THEN s ELSE SubSeq(s, 1, nul - 1)

-----------------------------------------------------------------------------
(* stream_line_reader.                                                     *)

(* append: once the fixed buffer is full, a string takes over.             *)
AppendByte(reader, c, size) ==
  IF Len(reader.fixed) < size - 1
    THEN [reader EXCEPT !.fixed = Append(@, c)]
    ELSE [reader EXCEPT !.glowable =
            Append(IF @ = <<>> THEN reader.fixed ELSE @, c)]

(* A const char*, which strcmp, regex_match and stoi read up to a NUL.     *)
ptr(reader) == CString(IF reader.glowable = <<>> THEN reader.fixed ELSE reader.glowable)

(* Where the line that starts at i ends: with its LF, or with the stream.  *)
LineEnd(s, i) == LET lf == Find(s, <<LF>>, i) IN IF lf = 0 THEN Len(s) ELSE lf

getline(s, i, size) ==
  LET line == SubSeq(s, i, LineEnd(s, i))
      reader[k \in 0..Len(line)] ==
        IF k = 0 THEN [fixed |-> <<>>, glowable |-> <<>>]
        ELSE AppendByte(reader[k - 1], line[k], size)
  IN  ptr(reader[Len(line)])

-----------------------------------------------------------------------------
(* URLs.                                                                   *)

hex_digit(c) ==
  CASE c \in Digits  -> c - 48
    [] c \in 65..70  -> c - 65 + 10
    [] c \in 97..102 -> c - 97 + 10
    [] OTHER         -> Aborted

is_hex(s, i) == i \in DOMAIN s /\ hex_digit(s[i]) # Aborted

(* from_hex_to_i: cnt digits from i on, or Aborted.                        *)
from_hex_to_i(s, i, cnt) ==
  LET val[k \in 0..cnt] == IF k = 0 THEN 0 ELSE val[k - 1] * 16 + hex_digit(s[i + k - 1])
  IN  IF \A k \in i..i + cnt - 1 : is_hex(s, k) THEN val[cnt] ELSE Aborted

(* Half of a surrogate pair becomes nothing.                               *)
to_utf8(code) ==
  CASE code < 128            -> <<code>>
    [] code \in 128..2047    -> <<192 + code \div 64, 128 + (code % 64)>>
    [] code \in 55296..57343 -> <<>>
    [] OTHER                 -> <<224 + code \div 4096, 128 + ((code \div 64) % 64), 128 + (code % 64)>>

decode_url(s) ==
  LET from[i \in 1..Len(s) + 1] ==
        IF i > Len(s) THEN <<>>
        ELSE IF s[i] = Percent /\ i < Len(s)
          THEN IF s[i + 1] = Letter_u
                 THEN LET val == from_hex_to_i(s, i + 2, 4) IN
                        IF val = Aborted THEN <<s[i]>> \o from[i + 1]
                                         ELSE to_utf8(val) \o from[i + 6]
                 ELSE LET val == from_hex_to_i(s, i + 1, 2) IN
                        IF val = Aborted THEN <<s[i]>> \o from[i + 1]
                                         ELSE <<val>> \o from[i + 3]
        ELSE <<IF s[i] = Plus THEN Space ELSE s[i]>> \o from[i + 1]
  IN  from[1]

Escape(c) == <<Percent, ToHex(c \div 16), ToHex(c % 16)>>

(* Mutant: + is left as it is.                                             *)
EscapedKeepsPlus == {Space, CR, LF, 39, 44, Colon, 59} \cup 128..255

(* Space + CR LF ' , : ; and everything that is not ASCII.                 *)
Escaped == {Space, Plus, CR, LF, 39, 44, Colon, 59} \cup 128..255

(* It stops at a NUL.                                                      *)
encode_url(s) ==
  LET str == CString(s)
  IN  FlattenSeq([i \in DOMAIN str |->
                    IF str[i] \in Escaped THEN Escape(str[i]) ELSE <<str[i]>>])

(* The last, or only, piece is passed on though it is empty, unless there  *)
(* is nothing at all.                                                      *)
split(s, c) == IF s = <<>> THEN <<>> ELSE Split(s, c)

(* The key is the first stretch that is not empty, the value the last one  *)
(* after it.                                                               *)
KeyValue(s) ==
  LET parts == split(s, Equals)
      key == SelectInSeq(parts, LAMBDA p : p # <<>>)
  IN  IF key = 0 THEN <<<<>>, <<>>>>
      ELSE <<parts[key], IF key < Len(parts) THEN decode_url(parts[Len(parts)]) ELSE <<>>>>

parse_query_text(s) ==
  LET parts == split(s, Ampersand) IN [i \in DOMAIN parts |-> KeyValue(parts[i])]

(* The target of a request line: ([^?]+)(?:\?(.+?))?.  A ? with nothing    *)
(* after it does not match, and the request is a bad one.                  *)
parse_target(target) ==
  LET q == Find(target, <<Question>>, 1)
      path == IF q = 0 THEN target ELSE SubSeq(target, 1, q - 1)
      query == IF q = 0 THEN <<>> ELSE From(target, q + 1)
  IN  [ok     |-> path # <<>> /\ (q # 0 => query # <<>> /\ {CR, LF} \cap Range(query) = {}),
       path   |-> decode_url(path),
       params |-> parse_query_text(query)]

-----------------------------------------------------------------------------
(* Headers.                                                                *)

White == {Space, 9, LF, 11, 12, CR}

(* write_format("%s: %s\r\n", ...).                                        *)
write_header(key, val) == CString(key) \o <<Colon, Space>> \o CString(val) \o CRLF

(* Where the value may stand after a colon: white space about it, and no   *)
(* line break, which . does not match, in it.                              *)
Values(line, colon) ==
  LET end == Len(line) - 2
      firsts == {a \in colon + 1..end : \A k \in colon + 1..a - 1 : line[k] \in White}
      lasts == {b \in colon + 1..end : \A k \in b + 1..end : line[k] \in White}
  IN  {v \in firsts \X lasts :
         v[1] <= v[2] /\ \A k \in v[1]..v[2] : line[k] \notin {CR, LF}}

(* The colons a key may end at.                                            *)
Colons(line) ==
  {i \in 2..Len(line) : /\ line[i] = Colon /\ Values(line, i) # {}
                        /\ \A k \in 1..i - 1 : line[k] \notin {CR, LF}}

(* Mutant: (.+) for (.+?), the key ends at the last colon.                 *)
key_end_last(line) ==
  IF Colons(line) = {} THEN 0
  ELSE CHOOSE i \in Colons(line) : \A j \in Colons(line) : i >= j

key_end(line) ==
  IF Colons(line) = {} THEN 0
  ELSE CHOOSE i \in Colons(line) : \A j \in Colons(line) : i <= j

(* (.+?):\s*(.+?)\s*\r\n: the key is as short as it can be, then the white  *)
(* space before the value as long, then the value as short as it can be.   *)
read_header(line) ==
  LET colon == key_end(line)
      val == CHOOSE v \in Values(line, colon) : \A w \in Values(line, colon) :
               v[1] > w[1] \/ (v[1] = w[1] /\ v[2] <= w[2])
  IN  IF colon = 0 \/ ~ IsSuffix(CRLF, line) THEN [ok |-> FALSE, key |-> <<>>, val |-> <<>>]
      ELSE [ok  |-> TRUE,
            key |-> SubSeq(line, 1, colon - 1),
            val |-> SubSeq(line, val[1], val[2])]

-----------------------------------------------------------------------------
(* Chunked bodies.                                                         *)

(* Mutant: the size in decimal.                                            *)
from_i_to_decimal(n) ==
  IF n < 10 THEN <<48 + n>> ELSE <<48 + ((n \div 10) % 10), 48 + (n % 10)>>

from_i_to_hex(n) ==
  LET digit(d) == <<IF d < 10 THEN 48 + d ELSE 87 + d>>
      ret[k \in 0..n] == IF k < 16 THEN digit(k) ELSE ret[k \div 16] \o digit(k % 16)
  IN  ret[n]

(* write_response: the chunks, then an empty one.                          *)
write_chunked(chunks) ==
  FlattenSeq([i \in 1..Len(chunks) + 1 |->
    LET chunk == IF i > Len(chunks) THEN <<>> ELSE chunks[i]
    IN  from_i_to_hex(Len(chunk)) \o CRLF \o chunk \o CRLF])

INT_MAX == 2147483647

(* std::stoi(line, 0, 16): the hex digits the line starts with; it throws  *)
(* when there is none, and when an int does not hold the number.           *)
chunk_len(line) ==
  LET counts == {n \in 1..Len(line) :
                   (\A k \in 1..n : is_hex(line, k)) /\ ~ is_hex(line, n + 1)}
      len == from_hex_to_i(line, 1, CHOOSE n \in counts : TRUE)
  IN  IF counts = {} \/ len > INT_MAX THEN Aborted ELSE len

(* read_content_chunked: the body and where it ended, or not ok, by false  *)
(* or by an exception.  A chunk that no CRLF follows is dropped, and what  *)
(* came before it is the body.  bufsiz is 16.                              *)
read_content_chunked(s) ==
  LET bad == [ok |-> FALSE, body |-> <<>>, end |-> 0]
      from[i \in 1..Len(s) + 1] ==
        IF i > Len(s) THEN bad
        ELSE LET len == chunk_len(getline(s, i, 16))
                 data == LineEnd(s, i) + 1
                 after == data + len
                 crlf == after <= Len(s) /\ getline(s, after, 16) = CRLF
             IN  IF len = Aborted \/ after > Len(s) \/ (len = 0 /\ ~ crlf) THEN bad
                 ELSE IF ~ crlf THEN [ok |-> TRUE, body |-> <<>>, end |-> LineEnd(s, after)]
                 ELSE IF len = 0 THEN [ok |-> TRUE, body |-> <<>>, end |-> LineEnd(s, after)]
                 ELSE LET rest == from[LineEnd(s, after) + 1]
                      IN  [rest EXCEPT !.body = SubSeq(s, data, after - 1) \o @]
  IN  from[1]

-----------------------------------------------------------------------------
(* multipart/form-data.  Disposition(n) stands for the header line that    *)
(* names the part n, ContentType for the other one.                        *)

Disposition(n) == <<1000 + n>>
ContentType == <<1000>>

(* Mutant: the part ends at the boundary, its CRLF is taken for content.   *)
part_end_late(body, dash_boundary, pos) == Find(body, dash_boundary, pos)

(* Where the content that starts at pos ends: before CRLF and a boundary.  *)
part_end(body, dash_boundary, pos) == Find(body, CRLF \o dash_boundary, pos)

(* One turn of the loop: a part from pos on.  next is 0 when it fails.     *)
read_part(body, dash_boundary, pos) ==
  LET blank == Find(body, CRLF \o CRLF, pos)
      header == Split(SubSeq(body, pos, blank - 1), CR)
      start == IF SubSeq(body, pos, pos + 1) = CRLF THEN pos + 2
               ELSE IF blank = 0 THEN 0 ELSE blank + 4
      stop == IF start = 0 THEN 0 ELSE part_end(body, dash_boundary, start)
      crlf == IF stop = 0 THEN 0 ELSE Find(body, CRLF, stop + 2 + Len(dash_boundary))
  IN  [name   |-> {n \in 1..9 : \E i \in DOMAIN header :
                     Disposition(n)[1] \in Range(header[i])},
       offset |-> start,
       length |-> stop - start,
       next   |-> IF crlf = 0 THEN 0 ELSE crlf + 2]

(* The parts, or none when the body is malformed.                          *)
parse_multipart_formdata(boundary, body) ==
  LET dash_boundary == <<Dash, Dash>> \o boundary
      first == Find(body, CRLF, 1 + Len(dash_boundary))
      from[pos \in 1..Len(body) + 1] ==
        IF pos > Len(body) THEN <<>>
        ELSE LET part == read_part(body, dash_boundary, pos)
             IN  <<part>> \o (IF part.next = 0 THEN <<>> ELSE from[part.next])
      files == from[first + 2]
  IN  IF \/ Find(body, dash_boundary, 1) # 1 \/ first = 0
         \/ \E i \in DOMAIN files : files[i].next = 0
        THEN <<>> ELSE files

(* The body a browser sends for these contents.                            *)
multipart(boundary, contents) ==
  FlattenSeq([n \in DOMAIN contents |->
      <<Dash, Dash>> \o boundary \o CRLF \o Disposition(n) \o CRLF \o ContentType \o CRLF
        \o CRLF \o contents[n] \o CRLF])
    \o <<Dash, Dash>> \o boundary \o <<Dash, Dash>> \o CRLF

-----------------------------------------------------------------------------
(* is_valid_path.                                                          *)

Up == <<Dot, Dot>>

(* Mutant: .. is counted as a name.                                        *)
LevelsUpIgnored(component) ==
  CASE component \in {<<>>, <<Dot>>} -> 0
    [] OTHER                         -> 1

Levels(component) ==
  CASE component \in {<<>>, <<Dot>>} -> 0
    [] component = Up                -> -1
    [] OTHER                         -> 1

is_valid_path(path) ==
  LET parts == Split(path, Slash)
      level[k \in 0..Len(parts)] ==
        IF k = 0 THEN 0
        ELSE IF level[k - 1] < 0 THEN -1 ELSE level[k - 1] + Levels(parts[k])
  IN  level[Len(parts)] >= 0

-----------------------------------------------------------------------------
(* Properties.                                                             *)

(* Every % begins an escape of two hex digits.                             *)
WellEscaped(s) ==
  \A i \in DOMAIN s : s[i] = Percent => is_hex(s, i + 1) /\ is_hex(s, i + 2)

(* What a user types into a form reaches the handler: the browser encodes  *)
(* it, ParseBody splits and decodes it, and no byte of one field, be it &, *)
(* = or %, is taken for another's.                                         *)
FieldArrives ==
  LET key == <<107>>
      other == <<108>>
      form == ParseBody(key \o <<Equals>> \o UrlEncode(text) \o <<Ampersand>>
                          \o other \o <<Equals>> \o UrlEncode(Reverse(text)))
  IN  DOMAIN form = {key, other} /\ form[key] = text /\ form[other] = Reverse(text)

(* A form whose fields all have a key and one =, each key once.            *)
ProperForm(s) ==
  LET kvs == Split(s, Ampersand)
      kv(i) == Split(kvs[i], Equals)
  IN  \A i \in DOMAIN kvs :
        /\ Len(kv(i)) = 2 /\ kv(i)[1] # <<>>
        /\ \A j \in DOMAIN kvs : kv(j)[1] = kv(i)[1] => j = i

(* Every form is read twice, by the handlers' UrlDecode and ParseBody and  *)
(* by httplib's decode_url and parse_query_text: on a well escaped text    *)
(* UrlDecode's asserts hold and the decoders agree, and on a proper form   *)
(* the two find the same fields, whatever is left empty in it.             *)
DecodersAgree ==
  WellEscaped(text) =>
    /\ UrlDecode(text) = decode_url(text)
    /\ ProperForm(text) =>
         LET form == ParseBody(text)
         IN  Range(parse_query_text(text)) = {<<key, form[key]>> : key \in DOMAIN form}

(* A path a Client asks for is the path the Server routes: encode_url and  *)
(* decode_url undo each other, unless the path has a %, a ? or a NUL,      *)
(* which encode_url leaves alone or stops at.                              *)
PathArrives ==
  text # <<>> /\ {NUL, Percent, Question} \cap Range(text) = {}
    => parse_target(encode_url(text)) = [ok |-> TRUE, path |-> text, params |-> <<>>]

(* A header that one side writes the other one reads, however the line     *)
(* divides over the reader's two buffers, if the value has no line break,  *)
(* no NUL and no white space at its ends; the value may hold a colon.      *)
HeaderArrives ==
  text # <<>> /\ {NUL, CR, LF} \cap Range(text) = {} /\ {text[1], text[Len(text)]} \cap White = {}
    => LET stream == write_header(<<107>>, text) \o CRLF
       IN  \A size \in {2, 4, Len(text) + 5, Len(text) + 6} :
             read_header(getline(stream, 1, size)) = [ok |-> TRUE, key |-> <<107>>, val |-> text]

(* A body sent in two chunks, of sizes that an int holds, arrives, and     *)
(* what follows it in the stream is left there.                            *)
ChunkedArrives ==
  text # <<>> /\ 4 * Len(text) <= INT_MAX =>
    LET long == [i \in 1..4 * Len(text) |-> text[((i - 1) % Len(text)) + 1]]
        stream == write_chunked(<<text, long>>)
    IN  read_content_chunked(stream \o text)
          = [ok |-> TRUE, body |-> text \o long, end |-> Len(stream)]

(* The parts of a multipart body are its contents, byte for byte, empty    *)
(* ones and ones with line breaks too, if none holds a boundary.           *)
PartsArrive ==
  LET boundary == <<98>>
      contents == <<text, Reverse(text)>>
      body == multipart(boundary, contents)
      parts == parse_multipart_formdata(boundary, body)
  IN  (\A n \in 1..2 : Find(contents[n], CRLF \o <<Dash, Dash>> \o boundary, 1) = 0)
        => /\ Len(parts) = 2
           /\ \A n \in 1..2 :
                /\ parts[n].name = {n}
                /\ SubSeq(body, parts[n].offset, parts[n].offset + parts[n].length - 1)
                     = contents[n]

(* A file is served only if no part of its path leads out of base_dir_:    *)
(* never more steps up than steps down before them.  (The path is one      *)
(* without a NUL, at which the system call that opens the file would cut.) *)
PathInside ==
  is_valid_path(text) <=>
    LET parts == Split(text, Slash)
        below(k, S) == Cardinality({i \in 1..k : parts[i] \in S})
    IN  \A k \in DOMAIN parts : below(k, {Up}) <= k - below(k, {Up, <<>>, <<Dot>>})
=============================================================================
