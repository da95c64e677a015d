---------------------------- MODULE HttpRequests ----------------------------
(***************************************************************************)
(* What http_parser.c is asked to recognise: requests as structured        *)
(* values, the bytes a client sends for them and the callbacks that report *)
(* them.  Nothing here looks at the parser's states.                       *)
(*                                                                         *)
(* A "byte" of the model is a run of characters the parser treats alike: a *)
(* word it compares with is cut where the code branches, and one piece     *)
(* stands for each class of the characters it only classifies.             *)
(***************************************************************************)
EXTENDS Integers, Sequences, SequencesExt

\* The words the parser compares with, http_parser.c:165-187.
Word ==
  [connection |-> <<"c", "on", "n", "ection">>,
   content_length |-> <<"c", "on", "t", "ent-length">>,
   proxy_connection |-> <<"p", "roxy-connection">>,
   transfer_encoding |-> <<"t", "ransfer-encoding">>,
   upgrade |-> <<"u", "pgrade">>,
   chunked |-> <<"c", "hunked">>,
   keep_alive |-> <<"k", "eep-alive">>,
   close |-> <<"c", "lose">>]

\* The methods that take part; the others differ in their letters only.
MethodString ==
  [GET |-> <<"G", "ET">>, POST |-> <<"P", "OST">>, PUT |-> <<"P", "U", "T">>,
   PURGE |-> <<"P", "U", "R", "GE">>, CONNECT |-> <<"C", "ONNECT">>]

DigitValue == [d \in {"0", "1", "2", "9"} |->
                 CASE d = "0" -> 0 [] d = "1" -> 1 [] d = "2" -> 2 [] d = "9" -> 9]
Digit == DOMAIN DigitValue
\* unhex: c stands for the letters from a to f.
HexValue == [d \in Digit \cup {"c"} |-> IF d = "c" THEN 12 ELSE DigitValue[d]]

Letters == {"x", "H", "T"} \cup UNION {Range(word) : word \in Range(Word) \cup Range(MethodString)}
Alpha == Letters
\* TOKEN in strict mode: a character of a header's name.
Token == Letters \cup Digit \cup {"*", "#", "."}
\* IS_URL_CHAR and IS_USERINFO_CHAR (with the brackets parse_url_char adds).
UrlChar == Letters \cup Digit \cup {"*", ":", "@", ".", ",", "/"}
ServerChar == Letters \cup Digit \cup {"*", ":", ".", ","}
\* Everything but the control characters: IS_HEADER_CHAR.
NoHeaderChar == {"NUL"}

(***************************************************************************)
(* A request: its fields as sequences of pieces.  A header carries what it *)
(* means to the framing of messages; version <<0, 9>> is a request line    *)
(* without one; chunks is used when a header says "chunked".               *)
(***************************************************************************)
Header(name, lines, means) == [name |-> name, lines |-> lines, means |-> means]
Means(m, what) == \E i \in DOMAIN m.headers : m.headers[i].means = what

NumberBytes[n \in Nat] == IF n < 10 THEN <<ToString(n)>> ELSE Append(NumberBytes[n \div 10], ToString(n % 10))
VersionBytes(v) ==
  IF v = <<0, 9>> THEN <<>>
  ELSE <<" ", "H", "T", "T", "P", "/">> \o NumberBytes[v[1]] \o <<".">> \o NumberBytes[v[2]]

HeaderBytes(h, eol) ==
  h.name \o <<":", " ">> \o h.lines[1]
    \o FlattenSeq([i \in 1 .. Len(h.lines) - 1 |-> eol \o <<" ">> \o h.lines[i + 1]]) \o eol
HeadersBytes(hs, eol) == FlattenSeq([i \in DOMAIN hs |-> HeaderBytes(hs[i], eol)]) \o eol

ChunkBytes(size, bytes) == size \o <<"CR", "LF">> \o bytes
BodyBytes(m) ==
  IF Means(m, "chunked")
  THEN FlattenSeq([i \in DOMAIN m.chunks |->
                     ChunkBytes(m.sizes[i], m.chunks[i] \o <<"CR", "LF">>)])
         \o ChunkBytes(<<"0">>, HeadersBytes(m.trailer, m.eol))
  ELSE m.body

Bytes(m) ==
  MethodString[m.method] \o <<" ">> \o m.url \o VersionBytes(m.version) \o m.eol
    \o HeadersBytes(m.headers, m.eol) \o BodyBytes(m)

(***************************************************************************)
(* The callbacks that report a request.                                    *)
(***************************************************************************)
Event(cb, bytes) == [cb |-> cb, bytes |-> bytes]
Note(cb) == Event(cb, <<>>)

\* A folded value is reported with the blank that starts each further line;
\* a value all of whose lines but the last are empty begins with the last.
Value(h) ==
  IF h.lines[1] = <<>> THEN h.lines[Len(h.lines)]
  ELSE h.lines[1] \o FlattenSeq([i \in 1 .. Len(h.lines) - 1 |-> <<" ">> \o h.lines[i + 1]])
HeaderEvents(hs) ==
  FlattenSeq([i \in DOMAIN hs |-> <<Event("header_field", hs[i].name), Event("header_value", Value(hs[i]))>>])
BodyEvents(m) ==
  IF Means(m, "chunked")
  THEN FlattenSeq([i \in DOMAIN m.chunks |->
                     <<Note("chunk_header"), Event("body", m.chunks[i]), Note("chunk_complete")>>])
         \o <<Note("chunk_header")>> \o HeaderEvents(m.trailer) \o <<Note("chunk_complete")>>
  ELSE IF m.body = <<>> THEN <<>> ELSE <<Event("body", m.body)>>

Events(m) ==
  <<Note("message_begin"), Event("url", m.url)>> \o HeaderEvents(m.headers)
    \o <<Note("headers_complete")>> \o BodyEvents(m) \o <<Note("message_complete")>>

\* HTTP/1.1 keeps the connection unless told otherwise, older versions close it.
KeepsAlive(m) ==
  IF m.version[1] > 0 /\ m.version[2] > 0 THEN ~Means(m, "close") ELSE Means(m, "keep-alive")

\* The table a request leaves with the callbacks of http_parser_lua.c.
Table(m) ==
  [URL |-> {m.url}, Head |-> {<<m.headers[i].name, Value(m.headers[i])>> : i \in DOMAIN m.headers},
   last_field |-> {}, Body |-> IF m.body = <<>> THEN {} ELSE {m.body}]
=============================================================================
