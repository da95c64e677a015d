----------------------------- MODULE HttpParser -----------------------------
(***************************************************************************)
(* src/http/http_parser.c, the machine for requests in strict mode, and    *)
(* the callbacks src/http/http_parser_lua.c gives it.  The bytes of a      *)
(* connection arrive cut anywhere into calls of http_parser_execute; each  *)
(* turn of its loop is a step, a "goto reexecute" one more, and each       *)
(* `case' of its switch is an action of that name.                         *)
(*                                                                         *)
(* settings "chttp" are the callbacks of this repository, which refuse     *)
(* chunks and fill a Lua table; "accepting" are callbacks that return 0.   *)
(***************************************************************************)
EXTENDS HttpRequests, FiniteSets

CONSTANTS Wires,       \* a sequence: what connections carry, and what that should come to
          MaxHeader,   \* HTTP_MAX_HEADER_SIZE: 80 * 1024 in the code
          MaxVersion,  \* 999 in the code
          ULLongMax    \* ULLONG_MAX

\* One digit of a version or of a length always fits.
ASSUME BoundsPositive ==
  MaxHeader \in Nat \ {0} /\ MaxVersion \in Nat \ (0 .. 8) /\ ULLongMax \in Nat \ (0 .. 16)
\* Nothing is assumed of the bytes.
ASSUME WiresCarryBytes == \A i \in DOMAIN Wires : Wires[i].bytes \in Seq(STRING)

Traffic == Wires   \* a definition of its own: TLC evaluates it once

VARIABLES wire,      \* the index of the connection's wire, never changed
          settings,  \* whose callbacks, never changed
          parser,    \* struct http_parser, in between the calls and in them
          p,         \* the byte in turn: an index into the wire, as the marks are
          end,       \* the last byte of the call, data + len - 1
          start,     \* the inner loops' start, 0 outside them
          mark,      \* the *_mark of the call, 0 for NULL
          pc,        \* "idle", "head", "switch", "loop", "closed", "raised"
          log,       \* the callbacks made, data that came in pieces put together
          request,   \* the Lua table at the top of the glue's stack
          torn       \* a call ended inside something its callback reports

vars == <<wire, settings, parser, p, end, start, mark, pc, log, request, torn>>

data == Traffic[wire].bytes
Unread == Len(data) - p + 1   \* bytes to be handed over yet, between calls


DataCallbacks == {"header_field", "header_value", "url", "body"}
NoMarks == [cb \in DataCallbacks |-> 0]

UrlStates == {"s_req_path", "s_req_schema", "s_req_schema_slash", "s_req_schema_slash_slash",
              "s_req_server_start", "s_req_server", "s_req_server_with_at",
              "s_req_query_string_start", "s_req_query_string", "s_req_fragment_start", "s_req_fragment"}
BodyStates == {"s_chunk_data", "s_chunk_data_almost_done", "s_chunk_data_done",
               "s_body_identity", "s_message_done"}
ParsingHeader == parser.state \notin BodyStates

\* http_parser_init
InitialParser ==
  [state |-> "s_start_req", header_state |-> "h_general", index |-> 0, flags |-> {}, nread |-> 0,
   content_length |-> 0, http_major |-> 0, http_minor |-> 0, method |-> "GET",
   upgrade |-> FALSE, errno |-> "OK"]

Init ==
  /\ wire \in DOMAIN Traffic /\ settings \in {"chttp", "accepting"}
  /\ parser = InitialParser /\ p = 1 /\ end = 0 /\ start = 0 /\ mark = NoMarks /\ pc = "idle"
  /\ log = <<>> /\ torn = FALSE
  /\ request = [URL |-> {}, Head |-> {}, last_field |-> {}, Body |-> {}]

-----------------------------------------------------------------------------
\* The callbacks of http_parser_lua.c on the table; nil is the empty set.
UrlCb(r, bytes) == [r EXCEPT !.URL = {bytes}]
HeaderFieldCb(r, bytes) == [r EXCEPT !.last_field = {bytes}]
BodyCb(r, bytes) == [r EXCEPT !.Body = {bytes}]
\* Mutant: the name of the header stays behind.
HeaderValueKept(r, bytes) ==
  [r EXCEPT !.Head = {h \in @ : h[1] \notin r.last_field} \cup {<<f, bytes>> : f \in r.last_field}]
HeaderValueCb(r, bytes) ==
  [r EXCEPT !.Head = {h \in @ : h[1] \notin r.last_field} \cup {<<f, bytes>> : f \in r.last_field},
            !.last_field = {}]
\* lua_rawset raises an error when the key, last_field, is nil.
HeaderValueRaises(cb) == settings = "chttp" /\ cb = "header_value" /\ request.last_field = {}

Handle(cb, bytes) ==
  IF settings # "chttp" THEN request
  ELSE CASE cb = "url" -> UrlCb(request, bytes)
         [] cb = "header_field" -> HeaderFieldCb(request, bytes)
         [] cb = "header_value" -> HeaderValueCb(request, bytes)
         [] cb = "body" -> BodyCb(request, bytes)
         [] OTHER -> request

\* chunk_header_cb and chunk_complete_cb return 1.
CallbackError == [chunk_header |-> "CB_chunk_header", chunk_complete |-> "CB_chunk_complete"]
Refuses(cb) == settings = "chttp" /\ cb \in DOMAIN CallbackError

\* The log with a call of cb: bytes that continue the last ones are joined.
Logged(cb, bytes) ==
  IF cb \in DataCallbacks /\ log # <<>> /\ log[Len(log)].cb = cb
  THEN [log EXCEPT ![Len(log)].bytes = @ \o bytes]
  ELSE Append(log, Event(cb, bytes))

-----------------------------------------------------------------------------
\* RETURN: http_parser_execute is over, the rest of its bytes are dropped.
Return(q) ==
  /\ parser' = q /\ pc' = "idle"
  /\ p' = end + 1 /\ start' = 0 /\ mark' = NoMarks
  /\ UNCHANGED <<wire, settings, end>>

\* On in the call at byte p2, unless q holds an error or the call is to end.
Goto(q, pc2, p2, mk) ==
  IF q.errno # "OK" \/ pc2 = "idle" THEN Return(q)
  ELSE /\ parser' = q /\ pc' = pc2 /\ p' = p2 /\ mark' = mk
       /\ start' = IF pc2 = "loop" THEN start ELSE 0
       /\ UNCHANGED <<wire, settings, end>>

Quiet == UNCHANGED <<log, request, torn>>
Advance(q) == Goto(q, "head", p + 1, mark) /\ Quiet
Reexecute(q) == Goto(q, "switch", p, mark) /\ Quiet
Fail(e) == Return([parser EXCEPT !.errno = e]) /\ Quiet

\* MARK, which leaves a mark alone that is set.
Marked(cb) == [mark EXCEPT ![cb] = IF @ = 0 THEN p ELSE @]
AdvanceMarking(cb, q) == Goto(q, "head", p + 1, Marked(cb)) /\ Quiet

\* CALLBACK_NOTIFY_ and the call in CALLBACK_DATA_.
Callback(cb, bytes, q, pc2, p2, mk) ==
  /\ log' = Logged(cb, bytes)
  /\ torn' = torn
  /\ IF HeaderValueRaises(cb)
     THEN /\ pc' = "raised"
          /\ UNCHANGED <<wire, settings, parser, p, end, start, mark, request>>
     ELSE /\ request' = Handle(cb, bytes)
          /\ IF Refuses(cb) THEN Return([q EXCEPT !.errno = CallbackError[cb]])
             ELSE Goto(q, pc2, p2, mk)
Notify(cb, q, pc2, p2) == Callback(cb, <<>>, q, pc2, p2, mark)

\* CALLBACK_DATA_ with the bytes up to last: no call when the mark is not set.
DeliverMarked(mk, cb, last, q, pc2, p2) ==
  IF mk[cb] = 0 THEN Goto(q, pc2, p2, mk) /\ Quiet
  ELSE Callback(cb, SubSeq(data, mk[cb], last), q, pc2, p2, [mk EXCEPT ![cb] = 0])
Deliver(cb, last, q, pc2, p2) == DeliverMarked(mark, cb, last, q, pc2, p2)

-----------------------------------------------------------------------------
\* The call: the client hands over the next n bytes.
\* Mutant: a value that is cut is not resumed.
MarkAtStartNoValue(s) ==
  CASE s \in UrlStates -> [NoMarks EXCEPT !["url"] = p]
    [] s = "s_header_field" -> [NoMarks EXCEPT !["header_field"] = p]
    [] OTHER -> NoMarks
MarkAtStart(s) ==
  CASE s \in UrlStates -> [NoMarks EXCEPT !["url"] = p]
    [] s = "s_header_field" -> [NoMarks EXCEPT !["header_field"] = p]
    [] s = "s_header_value" -> [NoMarks EXCEPT !["header_value"] = p]
    [] OTHER -> NoMarks
Execute(n) ==
  /\ pc = "idle" /\ end' = p + n - 1
  /\ IF parser.errno # "OK" THEN p' = p + n /\ UNCHANGED <<pc, mark>>
     ELSE pc' = "head" /\ mark' = MarkAtStart(parser.state) /\ UNCHANGED p
  /\ UNCHANGED <<wire, settings, parser, start>> /\ Quiet

\* A call with no bytes: the connection has ended.
\* Mutant: the end of a connection that was not to be kept is an error.
ExecuteEofDead ==
  /\ pc = "idle" /\ pc' = "closed"
  /\ parser' = IF parser.errno # "OK" \/ parser.state = "s_start_req" THEN parser
               ELSE [parser EXCEPT !.errno = "INVALID_EOF_STATE"]
  /\ UNCHANGED <<wire, settings, p, end, start, mark>> /\ Quiet
ExecuteEof ==
  /\ pc = "idle" /\ pc' = "closed"
  /\ parser' = IF parser.errno # "OK" \/ parser.state \in {"s_dead", "s_start_req"} THEN parser
               ELSE [parser EXCEPT !.errno = "INVALID_EOF_STATE"]
  /\ UNCHANGED <<wire, settings, p, end, start, mark>> /\ Quiet

\* The head of the loop, COUNT_HEADER_SIZE(1) included.
Counted(v) == [parser EXCEPT !.nread = @ + v]
Over(v) == parser.nread + v > MaxHeader
\* Mutant: only the inner loops check the size.
LoopHeadUnchecked ==
  /\ pc = "head" /\ p <= end
  /\ Reexecute(IF ParsingHeader THEN Counted(1) ELSE parser)
LoopHead ==
  /\ pc = "head" /\ p <= end
  /\ IF ParsingHeader /\ Over(1) THEN Fail("HEADER_OVERFLOW")
     ELSE Reexecute(IF ParsingHeader THEN Counted(1) ELSE parser)

\* After the loop: what is marked is delivered, and the call returns.
Leftover(cb) ==
  /\ pc = "head" /\ p > end /\ mark[cb] # 0
  /\ log' = Logged(cb, SubSeq(data, mark[cb], end))
  /\ torn' = TRUE
  /\ IF HeaderValueRaises(cb)
     THEN /\ pc' = "raised"
          /\ UNCHANGED <<wire, settings, parser, p, end, start, mark, request>>
     ELSE /\ request' = Handle(cb, SubSeq(data, mark[cb], end))
          /\ Goto(parser, "head", p, [mark EXCEPT ![cb] = 0])
EndOfData ==
  /\ pc = "head" /\ p > end /\ mark = NoMarks
  /\ Return(parser) /\ Quiet

-----------------------------------------------------------------------------
\* The request line.
On(s) == pc = "switch" /\ parser.state = s
ch == data[p]
To(s) == [parser EXCEPT !.state = s]
LineEnd == {"CR", "LF"}

Dead ==
  /\ On("s_dead")
  /\ IF ch \in LineEnd THEN Advance(parser) ELSE Fail("CLOSED_CONNECTION")

FirstLetter == [G |-> "GET", P |-> "POST", C |-> "CONNECT"]
StartReq ==
  /\ On("s_start_req")
  /\ \/ ch \in LineEnd /\ Advance(parser)
     \/ ch \notin LineEnd \cup DOMAIN FirstLetter /\ Fail("INVALID_METHOD")
     \/ /\ ch \in DOMAIN FirstLetter
        /\ Notify("message_begin",
                  [parser EXCEPT !.state = "s_req_method", !.flags = {}, !.content_length = ULLongMax,
                                 !.method = FirstLetter[ch], !.index = 1],
                  "head", p + 1)

\* XX(meth, pos, ch, new_meth): another method with the same beginning.
Rewrites == {<<"POST", 1, "U", "PUT">>, <<"PUT", 2, "R", "PURGE">>}
ReqMethod ==
  LET matcher == MethodString[parser.method]
      i == parser.index
      next == [parser EXCEPT !.index = i + 1]
      other == {r \in Rewrites : r[1] = parser.method /\ r[2] = i /\ r[3] = ch}
  IN /\ On("s_req_method")
     /\ CASE i = Len(matcher) /\ ch = " " -> Advance([next EXCEPT !.state = "s_req_spaces_before_url"])
          [] i < Len(matcher) /\ ch = matcher[i + 1] -> Advance(next)
          [] other # {} /\ (i < Len(matcher) => ch # matcher[i + 1]) ->
               Advance([next EXCEPT !.method = (CHOOSE r \in other : TRUE)[4]])
          [] OTHER -> Fail("INVALID_METHOD")

\* parse_url_char: the first rule for the state that knows the character.
UrlRules ==
  {<<{"s_req_spaces_before_url"}, {"/", "*"}, "s_req_path">>,
   <<{"s_req_spaces_before_url", "s_req_schema"}, Alpha, "s_req_schema">>,
   <<{"s_req_schema"}, {":"}, "s_req_schema_slash">>,
   <<{"s_req_schema_slash"}, {"/"}, "s_req_schema_slash_slash">>,
   <<{"s_req_schema_slash_slash"}, {"/"}, "s_req_server_start">>,
   <<{"s_req_server_start", "s_req_server", "s_req_server_with_at"}, {"/"}, "s_req_path">>,
   <<{"s_req_server_start", "s_req_server", "s_req_server_with_at"}, {"?"}, "s_req_query_string_start">>,
   <<{"s_req_server_start", "s_req_server"}, {"@"}, "s_req_server_with_at">>,
   <<{"s_req_server_start", "s_req_server", "s_req_server_with_at"}, ServerChar, "s_req_server">>,
   <<{"s_req_path"}, UrlChar, "s_req_path">>,
   <<{"s_req_path"}, {"?"}, "s_req_query_string_start">>,
   <<{"s_req_query_string_start", "s_req_query_string"}, UrlChar \cup {"?"}, "s_req_query_string">>,
   <<{"s_req_path", "s_req_query_string_start", "s_req_query_string"}, {"#"}, "s_req_fragment_start">>,
   <<{"s_req_fragment_start"}, {"#"}, "s_req_fragment_start">>,
   <<{"s_req_fragment_start"}, UrlChar \cup {"?"}, "s_req_fragment">>,
   <<{"s_req_fragment"}, UrlChar \cup {"?", "#"}, "s_req_fragment">>}
UrlNext(s, c) ==
  LET rules == {r \in UrlRules : s \in r[1] /\ c \in r[2]}
  IN IF rules = {} THEN "s_dead" ELSE (CHOOSE r \in rules : TRUE)[3]

SpacesBeforeUrl ==
  LET s == UrlNext(IF parser.method = "CONNECT" THEN "s_req_server_start" ELSE parser.state, ch)
  IN /\ On("s_req_spaces_before_url")
     /\ CASE ch = " " -> Advance(parser)
          [] ch # " " /\ s = "s_dead" -> Fail("INVALID_URL")
          [] OTHER -> AdvanceMarking("url", To(s))

\* The states in which a blank or the end of the line ends the URL.
UrlMayEnd == {"s_req_server", "s_req_server_with_at", "s_req_path", "s_req_query_string_start",
              "s_req_query_string", "s_req_fragment_start", "s_req_fragment"}
Url ==
  /\ pc = "switch" /\ parser.state \in UrlStates
  /\ LET s == UrlNext(parser.state, ch)
     IN CASE parser.state \in UrlMayEnd /\ ch = " " ->
               Deliver("url", p - 1, To("s_req_http_start"), "head", p + 1)
          [] parser.state \in UrlMayEnd /\ ch \in LineEnd ->
               Deliver("url", p - 1,
                       [parser EXCEPT !.http_major = 0, !.http_minor = 9,
                                      !.state = IF ch = "CR" THEN "s_req_line_almost_done" ELSE "s_header_field_start"],
                       "head", p + 1)
          [] OTHER -> IF s = "s_dead" THEN Fail("INVALID_URL") ELSE Advance(To(s))

HttpStart ==
  /\ On("s_req_http_start")
  /\ CASE ch = "H" -> Advance(To("s_req_http_H"))
       [] ch = " " -> Advance(parser)
       [] OTHER -> Fail("INVALID_CONSTANT")

\* The states that want one certain character.
Wants ==
  [s_req_http_H |-> <<"T", "s_req_http_HT">>, s_req_http_HT |-> <<"T", "s_req_http_HTT">>,
   s_req_http_HTT |-> <<"P", "s_req_http_HTTP">>, s_req_http_HTTP |-> <<"/", "s_req_first_http_major">>]
HttpLiteral ==
  /\ pc = "switch" /\ parser.state \in DOMAIN Wants
  /\ IF ch = Wants[parser.state][1] THEN Advance(To(Wants[parser.state][2])) ELSE Fail("STRICT")

FirstMajor ==
  /\ On("s_req_first_http_major")
  /\ IF ch \in Digit \ {"0"}
     THEN Advance([parser EXCEPT !.http_major = DigitValue[ch], !.state = "s_req_http_major"])
     ELSE Fail("INVALID_VERSION")
Major ==
  /\ On("s_req_http_major")
  /\ CASE ch = "." -> Advance(To("s_req_first_http_minor"))
       [] ch \in Digit /\ parser.http_major * 10 + DigitValue[ch] <= MaxVersion ->
            Advance([parser EXCEPT !.http_major = @ * 10 + DigitValue[ch]])
       [] OTHER -> Fail("INVALID_VERSION")
FirstMinor ==
  /\ On("s_req_first_http_minor")
  /\ IF ch \in Digit
     THEN Advance([parser EXCEPT !.http_minor = DigitValue[ch], !.state = "s_req_http_minor"])
     ELSE Fail("INVALID_VERSION")
Minor ==
  /\ On("s_req_http_minor")
  /\ CASE ch = "CR" -> Advance(To("s_req_line_almost_done"))
       [] ch = "LF" -> Advance(To("s_header_field_start"))
       [] ch \in Digit /\ parser.http_minor * 10 + DigitValue[ch] <= MaxVersion ->
            Advance([parser EXCEPT !.http_minor = @ * 10 + DigitValue[ch]])
       [] OTHER -> Fail("INVALID_VERSION")
LineAlmostDone ==
  /\ On("s_req_line_almost_done")
  /\ IF ch = "LF" THEN Advance(To("s_header_field_start")) ELSE Fail("LF_EXPECTED")

-----------------------------------------------------------------------------
\* The headers' names.  The words under way, where each leads to when it is
\* complete, and where a character that is not its next one leads to.
Matching ==
  [h_matching_connection |-> <<"connection", "h_connection", "h_general">>,
   h_matching_proxy_connection |-> <<"proxy_connection", "h_connection", "h_general">>,
   h_matching_content_length |-> <<"content_length", "h_content_length", "h_general">>,
   h_matching_transfer_encoding |-> <<"transfer_encoding", "h_transfer_encoding", "h_general">>,
   h_matching_upgrade |-> <<"upgrade", "h_upgrade", "h_general">>,
   h_matching_transfer_encoding_chunked |-> <<"chunked", "h_transfer_encoding_chunked", "h_general">>,
   h_matching_connection_keep_alive |->
     <<"keep_alive", "h_connection_keep_alive", "h_matching_connection_token">>,
   h_matching_connection_close |-> <<"close", "h_connection_close", "h_matching_connection_token">>,
   h_matching_connection_upgrade |-> <<"upgrade", "h_connection_upgrade", "h_matching_connection_token">>]
\* One more character of a word: the index moves on in any case.
Match(h, i, c) ==
  LET word == Word[Matching[h][1]]
  IN IF i + 1 >= Len(word) THEN Matching[h][3]
     ELSE IF c # word[i + 2] THEN Matching[h][3]
     ELSE IF i + 2 = Len(word) THEN Matching[h][2] ELSE h

\* Mutant: the empty line is looked at again in the same state.
HeaderFieldStartStuck ==
  /\ On("s_header_field_start")
  /\ CASE ch = "CR" -> Advance(To("s_headers_almost_done"))
       [] ch = "LF" -> Reexecute(parser)
       [] ch \in Token -> AdvanceMarking("header_field",
            [parser EXCEPT !.state = "s_header_field", !.index = 0, !.header_state = "h_general"])
       [] OTHER -> Fail("INVALID_HEADER_TOKEN")
\* Mutant: the name is not marked.
HeaderFieldStartUnmarked ==
  /\ On("s_header_field_start")
  /\ CASE ch = "CR" -> Advance(To("s_headers_almost_done"))
       [] ch = "LF" -> Reexecute(To("s_headers_almost_done"))
       [] ch \in Token -> Advance([parser EXCEPT !.state = "s_header_field", !.index = 0, !.header_state = "h_general"])
       [] OTHER -> Fail("INVALID_HEADER_TOKEN")
HeaderFieldStart ==
  LET h == CASE ch = "c" -> "h_C"
             [] ch = "p" -> "h_matching_proxy_connection"
             [] ch = "t" -> "h_matching_transfer_encoding"
             [] ch = "u" -> "h_matching_upgrade"
             [] OTHER -> "h_general"
  IN /\ On("s_header_field_start")
     /\ CASE ch = "CR" -> Advance(To("s_headers_almost_done"))
          [] ch = "LF" -> Reexecute(To("s_headers_almost_done"))
          [] ch \in Token -> AdvanceMarking("header_field",
               [parser EXCEPT !.state = "s_header_field", !.index = 0, !.header_state = h])
          [] OTHER -> Fail("INVALID_HEADER_TOKEN")

\* s_header_field and s_header_value run through the call's bytes themselves.
EnterLoop ==
  /\ pc = "switch" /\ parser.state \in {"s_header_field", "s_header_value"}
  /\ pc' = "loop" /\ start' = p
  /\ UNCHANGED <<wire, settings, parser, p, end, mark>> /\ Quiet
InLoop(s) == pc = "loop" /\ parser.state = s
More(q) == Goto(q, "loop", p + 1, mark) /\ Quiet
\* The loop has used up the bytes: --p, and p++ at the loop's head.
LoopEnd ==
  /\ pc = "loop" /\ p > end
  /\ IF Over(p - start) THEN Fail("HEADER_OVERFLOW") ELSE Goto(Counted(p - start), "head", p, mark) /\ Quiet

NextFieldState(h, i, c) ==
  CASE h = "h_C" -> IF c = "on" THEN "h_CON" ELSE "h_general"
    [] h = "h_CON" -> (CASE c = "n" -> "h_matching_connection"
                         [] c = "t" -> "h_matching_content_length"
                         [] OTHER -> "h_general")
    [] h \in DOMAIN Matching -> Match(h, i, c)
    [] OTHER -> "h_general"
FieldChar ==
  LET h == NextFieldState(parser.header_state, parser.index, ch)
      length == h = "h_content_length"
      next == [parser EXCEPT !.header_state = h, !.index = IF parser.header_state \in {"h_C", "h_CON"} \cup DOMAIN Matching THEN @ + 1 ELSE @]
  IN /\ InLoop("s_header_field") /\ p <= end /\ ch \in Token
     /\ CASE length /\ "CONTENTLENGTH" \in parser.flags -> Fail("UNEXPECTED_CONTENT_LENGTH")
          [] length /\ "CONTENTLENGTH" \notin parser.flags -> More([next EXCEPT !.flags = @ \cup {"CONTENTLENGTH"}])
          [] OTHER -> More(next)
FieldStop ==
  /\ InLoop("s_header_field") /\ p <= end /\ ch \notin Token
  /\ CASE Over(p - start) -> Fail("HEADER_OVERFLOW")
       [] ~Over(p - start) /\ ch = ":" ->
            Deliver("header_field", p - 1,
                    [Counted(p - start) EXCEPT !.state = "s_header_value_discard_ws"], "head", p + 1)
       [] OTHER -> Fail("INVALID_HEADER_TOKEN")

-----------------------------------------------------------------------------
\* The headers' values.
ValueDiscardWs ==
  /\ On("s_header_value_discard_ws")
  /\ \/ ch = " " /\ Advance(parser)
     \/ ch = "CR" /\ Advance(To("s_header_value_discard_ws_almost_done"))
     \/ ch = "LF" /\ Advance(To("s_header_value_discard_lws"))

\* The state that waits for a value, and the one above when there is one.
ConnectionToken(c, other) ==
  CASE c = "k" -> "h_matching_connection_keep_alive"
    [] c = "c" -> "h_matching_connection_close"
    [] c = "u" -> "h_matching_connection_upgrade"
    [] OTHER -> other
FirstValueState(h, c) ==
  CASE h = "h_transfer_encoding" -> IF c = "c" THEN "h_matching_transfer_encoding_chunked" ELSE "h_general"
    [] h = "h_connection" -> ConnectionToken(c, "h_matching_connection_token")
    [] h \in {"h_content_length", "h_matching_connection_token_start"} -> h
    [] OTHER -> "h_general"
ValueStart ==
  LET h == parser.header_state
      next == [parser EXCEPT !.state = "s_header_value", !.index = 0,
                             !.header_state = FirstValueState(h, ch)]
  IN /\ \/ On("s_header_value_start")
        \/ On("s_header_value_discard_ws") /\ ch \notin LineEnd \cup {" "}
     /\ CASE h = "h_upgrade" -> AdvanceMarking("header_value", [next EXCEPT !.flags = @ \cup {"UPGRADE"}])
          [] h = "h_content_length" /\ ch \in Digit ->
               AdvanceMarking("header_value", [next EXCEPT !.content_length = DigitValue[ch]])
          [] h = "h_content_length" /\ ch \notin Digit -> Fail("INVALID_CONTENT_LENGTH")
          [] OTHER -> AdvanceMarking("header_value", next)

\* memchr for CR and LF: a value nobody looks into is passed over at once,
\* to the end of the data if no line end lies within the limit.
LineEnds(limit) == {k \in p .. p + limit - 1 : data[k] \in LineEnd}
SkipTo ==
  LET limit == IF end - p + 1 < MaxHeader THEN end - p + 1 ELSE MaxHeader
  IN IF LineEnds(limit) = {} THEN end + 1
     ELSE CHOOSE k \in LineEnds(limit) : \A j \in LineEnds(limit) : k <= j

\* t = content_length * base + digit, refused when it might not fit.
Overflows(base) == (ULLongMax - base) \div base < parser.content_length
Longer(base, digit) == [parser EXCEPT !.content_length = (@ * base + digit) % (ULLongMax + 1)]

EndFlag ==
  [h_connection_keep_alive |-> "CONNECTION_KEEP_ALIVE", h_connection_close |-> "CONNECTION_CLOSE",
   h_connection_upgrade |-> "CONNECTION_UPGRADE", h_transfer_encoding_chunked |-> "CHUNKED"]
WithEndFlag(q) ==
  IF q.header_state \in DOMAIN EndFlag THEN [q EXCEPT !.flags = @ \cup {EndFlag[q.header_state]}] ELSE q

\* A character of a value that is looked into.
ConnectionDone == DOMAIN EndFlag \ {"h_transfer_encoding_chunked"}
NextToken(q) == [q EXCEPT !.header_state = "h_matching_connection_token_start", !.index = 0]
AfterValueChar(h, c) ==
  LET is(s) == [parser EXCEPT !.header_state = s]
  IN CASE h \in DOMAIN Matching -> [is(Match(h, parser.index, c)) EXCEPT !.index = @ + 1]
       [] h = "h_matching_connection_token_start" ->
            is(ConnectionToken(c, CASE c \in Token -> "h_matching_connection_token"
                                    [] c = " " -> h
                                    [] OTHER -> "h_general"))
       [] h = "h_matching_connection_token" /\ c = "," -> NextToken(parser)
       [] h \in ConnectionDone /\ c = "," -> NextToken(WithEndFlag(parser))
       [] h \in ConnectionDone /\ c \notin {",", " "} -> is("h_matching_connection_token")
       [] h = "h_transfer_encoding_chunked" /\ c # " " -> is("h_general")
       [] OTHER -> parser
ValueChar ==
  LET h == parser.header_state
  IN /\ InLoop("s_header_value") /\ p <= end /\ ch \notin LineEnd
     /\ CASE ch \in NoHeaderChar -> Fail("INVALID_HEADER_TOKEN")
          [] ch \notin NoHeaderChar /\ h = "h_general" -> Goto(parser, "loop", SkipTo, mark) /\ Quiet
          [] ch \notin NoHeaderChar /\ h = "h_content_length" ->
               CASE ch = " " -> More(parser)
                 [] ch \in Digit /\ ~Overflows(10) -> More(Longer(10, DigitValue[ch]))
                 [] OTHER -> Fail("INVALID_CONTENT_LENGTH")
          [] OTHER -> More(AfterValueChar(h, ch))

\* CR counts the loop's bytes after the callback, LF before it.
ValueCR ==
  LET q == [Counted(p - start) EXCEPT !.state = "s_header_almost_done"]
  IN /\ InLoop("s_header_value") /\ p <= end /\ ch = "CR"
     /\ Deliver("header_value", p - 1,
                IF Over(p - start) THEN [q EXCEPT !.errno = "HEADER_OVERFLOW"] ELSE q, "head", p + 1)
ValueLF ==
  /\ InLoop("s_header_value") /\ p <= end /\ ch = "LF"
  /\ IF Over(p - start) THEN Fail("HEADER_OVERFLOW")
     ELSE Deliver("header_value", p - 1,
                  [Counted(p - start) EXCEPT !.state = "s_header_almost_done"], "switch", p)

HeaderAlmostDone ==
  /\ On("s_header_almost_done")
  /\ IF ch = "LF" THEN Advance(To("s_header_value_lws")) ELSE Fail("LF_EXPECTED")
\* The line after a value: a blank continues the value.
ValueLws ==
  /\ On("s_header_value_lws")
  /\ Reexecute(IF ch = " " THEN To("s_header_value_start")
               ELSE [WithEndFlag(parser) EXCEPT !.state = "s_header_field_start"])
ValueDiscardWsAlmostDone ==
  /\ On("s_header_value_discard_ws_almost_done")
  /\ IF ch = "LF" THEN Advance(To("s_header_value_discard_lws")) ELSE Fail("STRICT")
\* The line after a value that has been empty so far.
\* Mutant: an empty value is reported only when something marked it.
ValueDiscardLwsUnmarked ==
  /\ On("s_header_value_discard_lws")
  /\ IF ch = " " THEN Advance(To("s_header_value_discard_ws"))
     ELSE Deliver("header_value", p - 1,
                  [WithEndFlag(parser) EXCEPT !.state = "s_header_field_start"], "switch", p)
ValueDiscardLws ==
  /\ On("s_header_value_discard_lws")
  /\ IF ch = " " THEN Advance(To("s_header_value_discard_ws"))
     ELSE DeliverMarked(Marked("header_value"), "header_value", p - 1,
                        [WithEndFlag(parser) EXCEPT !.state = "s_header_field_start"], "switch", p)

-----------------------------------------------------------------------------
\* Mutant: the default of HTTP/1.1 for every version.
ShouldKeepAliveAlways(q) == "CONNECTION_CLOSE" \notin q.flags
\* The end of the headers.  No caller's message needs the end of the connection
\* to end: http_message_needs_eof is 0 for requests.
ShouldKeepAlive(q) ==
  IF q.http_major > 0 /\ q.http_minor > 0 THEN "CONNECTION_CLOSE" \notin q.flags
  ELSE "CONNECTION_KEEP_ALIVE" \in q.flags
NewMessage(q) == [q EXCEPT !.state = IF ShouldKeepAlive(q) THEN "s_start_req" ELSE "s_dead"]

HeadersAlmostDone ==
  LET upgrade == {"UPGRADE", "CONNECTION_UPGRADE"} \subseteq parser.flags \/ parser.method = "CONNECT"
  IN /\ On("s_headers_almost_done")
     /\ CASE ch # "LF" -> Fail("STRICT")
          [] ch = "LF" /\ "TRAILING" \in parser.flags ->
               Notify("chunk_complete", To("s_message_done"), "switch", p)
          [] ch = "LF" /\ "TRAILING" \notin parser.flags /\ {"CHUNKED", "CONTENTLENGTH"} \subseteq parser.flags ->
               Fail("UNEXPECTED_CONTENT_LENGTH")
          [] OTHER -> Notify("headers_complete",
                             [parser EXCEPT !.state = "s_headers_done", !.upgrade = upgrade], "switch", p)

HasBody(q) == "CHUNKED" \in q.flags \/ q.content_length \notin {0, ULLongMax}
HeadersDone ==
  LET q == [parser EXCEPT !.nread = 0]
  IN /\ On("s_headers_done")
     /\ CASE ch # "LF" -> Fail("STRICT")
          [] ch = "LF" /\ q.upgrade /\ (q.method = "CONNECT" \/ ~HasBody(q)) ->
               Notify("message_complete", NewMessage(q), "idle", p + 1)
          [] ch = "LF" /\ ~(q.upgrade /\ (q.method = "CONNECT" \/ ~HasBody(q))) ->
               CASE "CHUNKED" \in q.flags -> Advance([q EXCEPT !.state = "s_chunk_size_start"])
                 [] HasBody(q) /\ "CHUNKED" \notin q.flags -> Advance([q EXCEPT !.state = "s_body_identity"])
                 [] OTHER -> Notify("message_complete", NewMessage(q), "head", p + 1)

\* What this call holds of a body or of a chunk.
ToRead == IF parser.content_length < end - p + 1 THEN parser.content_length ELSE end - p + 1
BodyIdentity ==
  LET left == parser.content_length - ToRead
      q == [parser EXCEPT !.content_length = left]
  IN /\ On("s_body_identity")
     /\ IF left = 0
        THEN DeliverMarked(Marked("body"), "body", p + ToRead - 1,
                           [q EXCEPT !.state = "s_message_done"], "switch", p + ToRead - 1)
        ELSE Goto(q, "head", p + ToRead, Marked("body")) /\ Quiet
MessageDone ==
  /\ On("s_message_done")
  /\ Notify("message_complete", NewMessage(parser), IF parser.upgrade THEN "idle" ELSE "head", p + 1)

-----------------------------------------------------------------------------
\* Chunks.
ChunkSizeStart ==
  /\ On("s_chunk_size_start")
  /\ IF ch \in DOMAIN HexValue
     THEN Advance([parser EXCEPT !.content_length = HexValue[ch], !.state = "s_chunk_size"])
     ELSE Fail("INVALID_CHUNK_SIZE")
ChunkSize ==
  /\ On("s_chunk_size")
  /\ CASE ch = "CR" -> Advance(To("s_chunk_size_almost_done"))
       [] ch \in {";", " "} -> Advance(To("s_chunk_parameters"))
       [] ch \in DOMAIN HexValue ->
            IF Overflows(16) THEN Fail("INVALID_CONTENT_LENGTH") ELSE Advance(Longer(16, HexValue[ch]))
       [] OTHER -> Fail("INVALID_CHUNK_SIZE")
ChunkParameters ==
  /\ On("s_chunk_parameters")
  /\ Advance(IF ch = "CR" THEN To("s_chunk_size_almost_done") ELSE parser)
ChunkSizeAlmostDone ==
  LET last == parser.content_length = 0
  IN /\ On("s_chunk_size_almost_done")
     /\ IF ch # "LF" THEN Fail("STRICT")
        ELSE Notify("chunk_header",
                    [parser EXCEPT !.nread = 0, !.flags = IF last THEN @ \cup {"TRAILING"} ELSE @,
                                   !.state = IF last THEN "s_header_field_start" ELSE "s_chunk_data"],
                    "head", p + 1)
ChunkData ==
  LET left == parser.content_length - ToRead
  IN /\ On("s_chunk_data")
     /\ Goto([parser EXCEPT !.content_length = left,
                            !.state = IF left = 0 THEN "s_chunk_data_almost_done" ELSE @],
             "head", p + ToRead, Marked("body"))
     /\ Quiet
ChunkDataAlmostDone ==
  /\ On("s_chunk_data_almost_done")
  /\ IF ch = "CR" THEN Deliver("body", p - 1, To("s_chunk_data_done"), "head", p + 1) ELSE Fail("STRICT")
\* Mutant: the bytes of a chunk count as bytes of headers.
ChunkDataDoneCounting ==
  /\ On("s_chunk_data_done")
  /\ IF ch = "LF" THEN Notify("chunk_complete", [parser EXCEPT !.state = "s_chunk_size_start", !.nread = 1],
                              "head", p + 1)
     ELSE Fail("STRICT")
ChunkDataDone ==
  /\ On("s_chunk_data_done")
  /\ IF ch = "LF" THEN Notify("chunk_complete", [parser EXCEPT !.state = "s_chunk_size_start", !.nread = 0],
                              "head", p + 1)
     ELSE Fail("STRICT")

-----------------------------------------------------------------------------
Loop ==
  \/ LoopHead \/ EndOfData \/ \E cb \in DataCallbacks : Leftover(cb)
  \/ Dead \/ StartReq \/ ReqMethod \/ SpacesBeforeUrl \/ Url
  \/ HttpStart \/ HttpLiteral \/ FirstMajor \/ Major \/ FirstMinor \/ Minor \/ LineAlmostDone
  \/ HeaderFieldStart \/ EnterLoop \/ LoopEnd \/ FieldChar \/ FieldStop
  \/ ValueDiscardWs \/ ValueStart \/ ValueChar \/ ValueCR \/ ValueLF
  \/ HeaderAlmostDone \/ ValueLws \/ ValueDiscardWsAlmostDone \/ ValueDiscardLws
  \/ HeadersAlmostDone \/ HeadersDone \/ BodyIdentity \/ MessageDone
  \/ ChunkSizeStart \/ ChunkSize \/ ChunkParameters \/ ChunkSizeAlmostDone
  \/ ChunkData \/ ChunkDataAlmostDone \/ ChunkDataDone
\* The connection is over, or its task has died of the glue's error.
Ended == pc \in {"closed", "raised"} /\ UNCHANGED vars

Next ==
  \/ pc = "idle" /\ \E n \in 1 .. Unread : Execute(n)
  \/ ExecuteEof \/ Loop \/ Ended
\* A call that has begun runs on; nothing forces the next one.
Spec == Init /\ [][Next]_vars /\ WF_vars(Loop)

-----------------------------------------------------------------------------
LogOf(l) == {i \in DOMAIN l : l[i].cb \notin DataCallbacks => l[i].bytes = <<>>} = DOMAIN l

\* The types of the variables.
TypeOK ==
  /\ wire \in DOMAIN Traffic /\ settings \in {"chttp", "accepting"}
  /\ parser.nread \in Nat /\ (parser.errno = "OK" => parser.nread <= MaxHeader)
  /\ parser.content_length \in 0 .. ULLongMax
  /\ parser.http_major \in 0 .. MaxVersion /\ parser.http_minor \in 0 .. MaxVersion
  /\ parser.method \in DOMAIN MethodString /\ parser.index \in Nat /\ parser.upgrade \in BOOLEAN
  /\ end \in 0 .. Len(data) /\ p \in 1 .. end + 1 /\ start \in 0 .. p
  /\ mark \in [DataCallbacks -> 0 .. p]
  /\ pc \in {"idle", "head", "switch", "loop", "closed", "raised"}
  /\ LogOf(log) /\ torn \in BOOLEAN

\* What http_parser_execute asserts: no callback is made after an error, at
\* most one mark is left when the data are used up, a chunk's size begins with
\* its first byte counted, the length of a body and of a chunk is known and not
\* used up while it is read, and no loop meets a header state it has no case for.
AssertsHold ==
  LET chunk == {"s_chunk_size_start", "s_chunk_size", "s_chunk_parameters", "s_chunk_size_almost_done",
                "s_chunk_data", "s_chunk_data_almost_done", "s_chunk_data_done"}
  IN /\ pc \in {"head", "switch", "loop"} => parser.errno = "OK"
     /\ pc = "head" => \A a, b \in DataCallbacks : mark[a] # 0 /\ mark[b] # 0 => a = b
     /\ On("s_chunk_size_start") => parser.nread = 1
     /\ pc = "switch" /\ parser.state \in chunk => "CHUNKED" \in parser.flags
     /\ On("s_body_identity") \/ On("s_chunk_data") => parser.content_length \notin {0, ULLongMax}
     /\ On("s_chunk_data_almost_done") => parser.content_length = 0
     /\ InLoop("s_header_value") => parser.header_state \notin {"h_connection", "h_transfer_encoding"}
     /\ InLoop("s_header_field") =>
          parser.header_state \in {"h_general", "h_C", "h_CON", "h_connection", "h_content_length",
                                   "h_transfer_encoding", "h_upgrade"} \cup DOMAIN Matching

\* The callbacks made are those the wire's requests call for, in their order
\* and with their bytes, wherever the calls cut the bytes; the last may still
\* lack bytes.  With everything read and no error, none is missing.
Delivered ==
  LET n == Len(log)
  IN /\ n <= Len(Traffic[wire].log)
     /\ \A i \in 1 .. n - 1 : log[i] = Traffic[wire].log[i]
     /\ n > 0 => /\ log[n].cb = Traffic[wire].log[n].cb
                 /\ IsPrefix(log[n].bytes, Traffic[wire].log[n].bytes)
     /\ pc = "idle" /\ Unread = 0 /\ parser.errno = "OK" => log = Traffic[wire].log

\* What a wire comes to does not depend on the cuts either: a good one is
\* accepted, a bad one refused for the reason it is bad for, and the callbacks
\* of this repository refuse chunks as well.
Verdict ==
  pc = "idle" /\ Unread = 0 =>
       parser.errno \in IF settings = "chttp" /\ \E i \in DOMAIN Traffic[wire].log : Traffic[wire].log[i].cb = "chunk_header"
                        THEN {"CB_chunk_header"} \cup (Traffic[wire].verdicts \ {"OK"}) ELSE Traffic[wire].verdicts

\* A connection that ends in the middle of a request is in error, one that ends
\* between two is not: ExecuteEof sees the state, the caller the callbacks.
EofExact ==
  pc = "closed" /\ parser.errno \in {"OK", "INVALID_EOF_STATE"} =>
    (parser.errno = "OK" <=> log = <<>> \/ log[Len(log)].cb = "message_complete")

\* The table holds the request when it is complete, if every part of it that a
\* callback reports came in one call.  The glue raises its error (it sets a
\* field whose name is nil) only for a value in pieces: torn, or folded.
TableExact ==
  /\ settings = "chttp" /\ ~torn /\ pc = "idle" =>
       \A m \in Traffic[wire].single : Len(log) = Len(Events(m)) => request = Table(m)
  /\ pc = "raised" => torn \/ Traffic[wire].folded

\* The glue raises its error at a further piece of a value only, never at the
\* first: a name is always reported before its value, and leaves last_field set.
RaisesAtPieces == [][pc # "raised" /\ pc' = "raised" => Len(log') = Len(log)]_vars

\* Whatever the bytes and the cuts, the callbacks are those of messages: none
\* is skipped, doubled or out of its place, in a trailer as in the headers.
Framing(flags) == IF "TRAILING" \in flags THEN "trailer" ELSE IF "CHUNKED" \in flags THEN "chunked" ELSE "plain"
Messages == INSTANCE HttpMessages WITH calls <- [i \in DOMAIN log |-> log[i].cb], framing <- Framing(parser.flags)
InOrder == Messages!Spec

\* A call of http_parser_execute returns: no two states of the machine hand a
\* byte to each other for ever.
CallReturns == []<>(pc \in {"idle", "closed", "raised"})
=============================================================================
