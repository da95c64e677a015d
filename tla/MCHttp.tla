------------------------------- MODULE MCHttp -------------------------------
\* Requests that take every way through the parser, alone and one behind the
\* other, and spoilt ones; every wire is cut into calls in all possible ways.
\* A length is below 30, a header section below 55 bytes.
EXTENDS HttpParser

L(s) == <<s>>     \* a header of one line, or with one piece
X(n) == [i \in 1 .. n |-> "x"]
Host(v) == Header(L("x"), L(v), "nothing")
Named(w, lines, means) == Header(Word[w], lines, means)
ContentLength(v) == Named("content_length", L(v), "length")
Chunked == Named("transfer_encoding", L(Word.chunked), "chunked")
Close == Named("connection", L(Word.close), "close")
KeepAlive == Named("connection", L(Word.keep_alive), "keep-alive")

Plain ==
  [method |-> "GET", url |-> L("/"), version |-> <<1, 1>>, headers |-> <<>>, body |-> <<>>,
   sizes |-> <<>>, chunks |-> <<>>, trailer |-> <<>>, eol |-> <<"CR", "LF">>]
With(hs) == [Plain EXCEPT !.headers = hs]
WithBody(hs, n) == [Plain EXCEPT !.method = "POST", !.headers = hs, !.body = X(n)]
InChunks(hs, sizes, ns) ==
  [Plain EXCEPT !.method = "PUT", !.headers = hs, !.sizes = sizes,
                !.chunks = [i \in DOMAIN ns |-> X(ns[i])]]
Lf(m) == [m EXCEPT !.eol = L("LF")]
To_(m, u) == [m EXCEPT !.url = u]
Version(m, v) == [m EXCEPT !.version = v]

Wire(ms, verdicts) ==
  [bytes |-> FlattenSeq([i \in DOMAIN ms |-> Bytes(ms[i])]),
   log |-> FlattenSeq([i \in DOMAIN ms |-> Events(ms[i])]), verdicts |-> verdicts,
   single |-> IF Len(ms) = 1 THEN {ms[1]} ELSE {},
   folded |-> \E i \in DOMAIN ms : \E j \in DOMAIN ms[i].headers : Len(ms[i].headers[j].lines) > 1]
Good(m) == Wire(<<m>>, {"OK"})
Bad(m, error) == Wire(<<m>>, {error})
\* The piece at i spoilt.
Spoilt(m, i, c, error) == [Bad(m, error) EXCEPT !.bytes[i] = c]
\* A request whose body is longer than what comes of it.
Short(m) == [Good(m) EXCEPT !.log = Front(@), !.single = {}]
\* Two requests: the second is read when the first keeps the connection.
Two(m, n) ==
  IF KeepsAlive(m) THEN Wire(<<m, n>>, {"OK"})
  ELSE [Wire(<<m>>, {"CLOSED_CONNECTION"}) EXCEPT !.bytes = @ \o Bytes(n), !.single = {}]

Urls ==
  {<<"*">>, <<"/", "x", ":", "@">>, <<"/", "?", "x", "?", "#", "#", "x", "?", "#">>,
   <<"x", "x", ":", "/", "/", "x", "@", "x", ":", "1", "/", "x">>, <<"x", ":", "/", "/", "x", "?", "#">>}
BadUrls ==
  {<<"1">>, <<"x", "/">>, <<"x", ":", "x">>, <<"x", ":", "/", "x">>, <<"x", ":", "/", "/", "x", "@", "@">>,
   <<"x", ":">>, <<"/", "NUL">>}
Ends == {Plain, Version(Plain, <<1, 0>>), Version(Plain, <<0, 9>>), Version(Plain, <<2, 0>>), Version(Plain, <<12, 12>>),
         With(<<Close>>), With(<<KeepAlive>>), Version(With(<<KeepAlive>>), <<1, 0>>),
         Version(WithBody(<<ContentLength(<<"2">>), KeepAlive>>, 2), <<1, 0>>)}
Tokens ==   \* values of Connection, and what they mean
  {<<<<"x", " ", ",", " ">> \o Word.close, "close">>, <<Word.close \o <<" ", ",">> \o Word.keep_alive, "close">>,
   <<Word.close \o <<"x">>, "nothing">>, <<<<"c", "x", ",">> \o Word.close \o <<",", "x">>, "close">>,
   <<<<"u">>, "nothing">>, <<Word.close \o <<" ">>, "close">>}
\* Two good requests the parser takes for something else: a name that begins
\* with content-length counts as one, and a comma that cuts the beginning of a
\* known option short does not end the option.
MisreadName == WithBody(<<Header(Word.content_length \o <<"x">>, L(<<"9">>), "nothing"), ContentLength(<<"2">>)>>, 2)
MisreadOption == With(<<Named("connection", L(<<"k", ",">> \o Word.close), "nothing")>>)
Others ==   \* headers that look like the ones with a meaning
  {Header(<<"c">>, L(<<"x">>), "nothing"), Header(<<"c", "x">>, L(<<"1">>), "nothing"),
   Header(<<"c", "on", "x">>, L(<<"x">>), "nothing"), Header(<<"c", "on", "n", "x">>, L(Word.close), "nothing"),
   Header(Word.connection \o <<"x">>, L(Word.close), "nothing"), Header(<<"p", "x">>, L(Word.close), "nothing"),
   Header(Word.content_length \o <<"x">>, L(<<"9">>), "nothing"),
   Header(Word.upgrade, L(<<"x">>), "nothing"), Named("transfer_encoding", L(<<"c", "x">>), "nothing"),
   Named("transfer_encoding", L(Word.chunked \o <<"x">>), "nothing"),
   Named("transfer_encoding", L(<<"x">>), "nothing"), Named("transfer_encoding", L(<<>>), "nothing"),
   Named("proxy_connection", L(<<"x", "x">>), "nothing"), Host(<<"x", " ", ":", "1">>), Host(<<>>),
   Header(L("1"), <<<<"x">>, <<"x", "x">>>>, "nothing"), Header(L("x"), <<<<>>, <<"x">>>>, "nothing")}
Upgrade == <<Named("connection", L(Word.upgrade), "upgrade"), Named("upgrade", L(<<"x">>), "upgrade")>>
Trailer == [InChunks(<<Chunked>>, <<L("2")>>, <<2>>) EXCEPT !.trailer = <<Host(<<"x", "x">>)>>]
\* Empty lines before a request count as its header.
Long(lines, name, value, verdicts) ==
  [Wire(<<With(<<Header(X(name), L(X(value)), "nothing")>>)>>, verdicts)
     EXCEPT !.bytes = [i \in 1 .. lines |-> "LF"] \o @]

GoodOnes ==
  {[Plain EXCEPT !.method = m] : m \in {"GET", "POST", "PUT", "PURGE"}} \cup {To_(Plain, u) : u \in Urls}
  \cup {With(<<h>>) : h \in Others} \cup {Lf(With(<<h>>)) : h \in {Host(<<"x">>), Host(<<>>), Close}}
  \cup {WithBody(<<ContentLength(<<"2">>)>>, 2), WithBody(<<ContentLength(<<"0">>)>>, 0),
        WithBody(<<ContentLength(<<"1", "2", " ">>)>>, 12),
        Trailer,
        InChunks(<<Chunked>>, <<L("1"), <<"2", ";", "x">>>>, <<1, 2>>),
        InChunks(<<Chunked>>, <<L("c"), <<"1", "1", " ">>>>, <<12, 17>>),
        WithBody(Upgrade \o <<ContentLength(<<"2">>)>>, 2), With(Upgrade),
        [To_(Plain, <<"x", ":", "1">>) EXCEPT !.method = "CONNECT"], Lf(Version(Plain, <<0, 9>>))}
\* A request, and the error it comes to.
BadOnes ==
  {<<To_(Plain, u), "INVALID_URL">> : u \in BadUrls}
  \cup {<<WithBody(<<ContentLength(v)>>, 2), "INVALID_CONTENT_LENGTH">> :
          v \in {<<"x">>, <<"2", "x">>, <<"1", "1", "1">>, <<"9", "9">>}}
  \cup {<<WithBody(<<ContentLength(<<"2">>), ContentLength(<<"2">>)>>, 2), "UNEXPECTED_CONTENT_LENGTH">>,
        <<InChunks(<<ContentLength(<<"1">>), Chunked>>, <<L("1")>>, <<1>>), "UNEXPECTED_CONTENT_LENGTH">>,
        <<With(<<Named("content_length", <<<<"2">>, <<"2">>>>, "length")>>), "INVALID_CONTENT_LENGTH">>,
        <<With(<<Named("connection", L(<<"k", "NUL">>), "nothing")>>), "INVALID_HEADER_TOKEN">>,
        <<Version(Plain, <<1, 100>>), "INVALID_VERSION">>,
        <<InChunks(<<Chunked>>, <<L("x")>>, <<1>>), "INVALID_CHUNK_SIZE">>,
        <<InChunks(<<Chunked>>, <<<<"1", "x">>>>, <<1>>), "INVALID_CHUNK_SIZE">>,
        <<InChunks(<<Chunked>>, <<<<"2", "1", "1">>>>, <<1>>), "INVALID_CONTENT_LENGTH">>,
        <<InChunks(<<Chunked>>, <<<<"2">>>>, <<3>>), "STRICT">>, <<MisreadName, "UNEXPECTED_CONTENT_LENGTH">>}
Longs ==
  {<<24, 1, 9, {"HEADER_OVERFLOW"}>>, <<24, 1, 4, {"OK", "HEADER_OVERFLOW"}>>,
   <<24, 9, 1, {"HEADER_OVERFLOW"}>>, <<35, 1, 1, {"HEADER_OVERFLOW"}>>}
Spoils ==   \* the place of a piece in GET / HTTP/1.1 CR LF x: x CR LF CR LF
  {<<1, "NUL", "INVALID_METHOD">>, <<2, "NUL", "INVALID_METHOD">>, <<6, "T", "INVALID_CONSTANT">>, <<7, "P", "STRICT">>, <<9, "T", "STRICT">>, <<10, ".", "STRICT">>,
   <<11, "0", "INVALID_VERSION">>, <<12, "x", "INVALID_VERSION">>, <<13, "x", "INVALID_VERSION">>,
   <<14, "x", "INVALID_VERSION">>, <<15, "x", "LF_EXPECTED">>, <<16, ":", "INVALID_HEADER_TOKEN">>,
   <<17, " ", "INVALID_HEADER_TOKEN">>, <<21, "x", "LF_EXPECTED">>, <<22, "NUL", "INVALID_HEADER_TOKEN">>,
   <<23, "x", "STRICT">>}
Spoilable == With(<<Host(<<"x">>)>>)
Pairs ==
  {<<m, Plain>> : m \in Ends \cup {MisreadOption}} \cup {<<Trailer, With(<<Close>>)>>}
  \cup {<<With(<<Named("connection", L(t[1]), t[2])>>), Plain>> : t \in Tokens}
WireSet ==
  {Good(m) : m \in GoodOnes} \cup {Short(m) : m \in {WithBody(<<ContentLength(<<"2", "9">>)>>, 3)}}
  \cup {Bad(b[1], b[2]) : b \in BadOnes} \cup {Long(l[1], l[2], l[3], l[4]) : l \in Longs}
  \cup {Spoilt(m, s[1], s[2], s[3]) : m \in {Spoilable}, s \in Spoils}
  \cup {Two(t[1], t[2]) : t \in Pairs}
MCWires == FoldSet(LAMBDA w, ws : Append(ws, w), <<>>, WireSet)
=============================================================================
