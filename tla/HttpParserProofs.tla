-------------------------- MODULE HttpParserProofs --------------------------
(***************************************************************************)
(* Proofs about http_parser_execute: for any bytes whatever, cut anywhere  *)
(* into calls, with either set of callbacks and any limits, what the C     *)
(* code asserts holds, its counters keep within their bounds, and its      *)
(* callbacks come in the order of HttpMessages.                            *)
(***************************************************************************)
EXTENDS HttpParser, SequenceTheorems, WellFoundedInduction, TLAPS

-----------------------------------------------------------------------------
(* The inductive invariant.                                                *)

Fields == {"state", "header_state", "index", "flags", "nread", "content_length", "http_major",
           "http_minor", "method", "upgrade", "errno"}
IsParser(q) ==
  /\ DOMAIN q = Fields
  /\ q.index \in Nat /\ q.nread \in Nat /\ q.content_length \in 0 .. ULLongMax
  /\ q.http_major \in 0 .. MaxVersion /\ q.http_minor \in 0 .. MaxVersion
  /\ q.method \in DOMAIN MethodString /\ q.upgrade \in BOOLEAN

ChunkStates == {"s_chunk_size_start", "s_chunk_size", "s_chunk_parameters", "s_chunk_size_almost_done",
                "s_chunk_data", "s_chunk_data_almost_done", "s_chunk_data_done"}

\* The header states that belong to a name, and those that belong to a value:
\* the word of a name leads to a state the value's loop has no case for.
FieldStates ==
  {"h_general", "h_C", "h_CON", "h_connection", "h_content_length", "h_transfer_encoding", "h_upgrade",
   "h_matching_connection", "h_matching_proxy_connection", "h_matching_content_length",
   "h_matching_transfer_encoding", "h_matching_upgrade"}
ValueStates ==
  {"h_general", "h_content_length", "h_matching_transfer_encoding_chunked",
   "h_matching_connection_keep_alive", "h_matching_connection_close", "h_matching_connection_upgrade",
   "h_matching_connection_token", "h_matching_connection_token_start", "h_transfer_encoding_chunked",
   "h_connection_keep_alive", "h_connection_close", "h_connection_upgrade"}

\* What is known of the parser in each state.
Sane(q) ==
  /\ q.nread <= MaxHeader
  /\ q.state \in ChunkStates => "CHUNKED" \in q.flags
  /\ q.state \in {"s_body_identity", "s_chunk_data"} => q.content_length \notin {0, ULLongMax}
  /\ q.state \in {"s_chunk_size", "s_chunk_parameters", "s_chunk_size_almost_done"} =>
       q.content_length # ULLongMax
  /\ q.state = "s_chunk_data_almost_done" => q.content_length = 0
  /\ q.state = "s_header_field" => q.header_state \in FieldStates
  /\ q.state = "s_header_value" => q.header_state \in ValueStates

\* The states in which a callback's bytes are under way.
Section(cb) ==
  CASE cb = "url" -> UrlStates
    [] cb = "header_field" -> {"s_header_field"}
    [] cb = "header_value" -> {"s_header_value"}
    [] OTHER -> {"s_body_identity", "s_chunk_data", "s_chunk_data_almost_done"}
MarksFit(s, mk) == \A cb \in DataCallbacks : mk[cb] # 0 => s \in Section(cb)

\* The parser q, at c in the program with byte x in turn and marks mk.
Placed(q, c, x, mk) ==
  /\ Sane(q) /\ MarksFit(q.state, mk)
  /\ q.state = "s_chunk_size_start" => q.nread = IF c = "switch" THEN 1 ELSE 0
  /\ c = "switch" => x <= end
  /\ c = "loop" => q.state \in {"s_header_field", "s_header_value"}

Running == {"head", "switch", "loop"}
Callbacks == DataCallbacks \cup {"message_begin", "headers_complete", "message_complete",
                               "chunk_header", "chunk_complete"}
LogType == Seq([cb : Callbacks, bytes : Seq(STRING)])

IInv ==
  /\ wire \in DOMAIN Traffic /\ settings \in {"chttp", "accepting"}
  /\ IsParser(parser)
  /\ end \in 0 .. Len(data) /\ p \in 1 .. end + 1 /\ start \in 0 .. p
  /\ mark \in [DataCallbacks -> 0 .. p]
  /\ pc \in {"idle", "closed", "raised"} \cup Running
  /\ log \in LogType /\ LogOf(log) /\ torn \in BOOLEAN
  /\ pc \in Running => parser.errno = "OK" /\ Placed(parser, pc, p, mark)
  /\ pc = "idle" /\ parser.errno = "OK" => Placed(parser, pc, p, NoMarks)
  /\ parser.errno = "OK" => parser.nread <= MaxHeader

\* The parser q may be at c, with byte x in turn and marks mk.
Reaches(q, c, x, mk) ==
  /\ IsParser(q) /\ c \in {"idle"} \cup Running
  /\ x \in p .. end + 1 /\ mk \in [DataCallbacks -> 0 .. x]
  /\ q.errno = "OK" => IF c = "idle" THEN Placed(q, c, x, NoMarks) ELSE Placed(q, c, x, mk)

-----------------------------------------------------------------------------
(* The ways on from a step.                                                *)

LEMMA DataType == wire \in DOMAIN Traffic => data \in Seq(STRING) /\ Len(data) \in Nat
<1> SUFFICES ASSUME wire \in DOMAIN Traffic PROVE data \in Seq(STRING)
  OBVIOUS
<1> QED
  BY WiresCarryBytes DEF data, Traffic

LEMMA NoMarksType == NoMarks \in [DataCallbacks -> {0}] /\ \A s : MarksFit(s, NoMarks)
BY DEF NoMarks, MarksFit

\* Between calls no byte is in turn.
LEMMA PlacedBetween ==
  ASSUME NEW q, NEW x, NEW y, Placed(q, "idle", x, NoMarks)
  PROVE  Placed(q, "idle", y, NoMarks) /\ Placed(q, "head", y, NoMarks)
BY DEF Placed

\* Return ends the call, with an error or with a parser that can go on.
LEMMA ReturnIInv ==
  ASSUME IInv, NEW q, IsParser(q), Return(q), log' \in LogType, LogOf(log'), torn' \in BOOLEAN,
         q.errno = "OK" => Placed(q, "idle", p, NoMarks)
  PROVE  IInv'
<1>1. /\ parser' = q /\ pc' = "idle" /\ p' = end + 1 /\ start' = 0 /\ mark' = NoMarks
      /\ wire' = wire /\ settings' = settings /\ end' = end /\ data' = data
  BY DEF Return, data
<1>2. end \in Nat /\ Len(data) \in Nat
  BY DataType DEF IInv
<1>3. mark' \in [DataCallbacks -> 0 .. p']
  BY <1>1, <1>2, NoMarksType
<1>4. q.errno = "OK" => Placed(q, "idle", p, NoMarks)'
  BY <1>1 DEF Placed
<1>5. q.errno = "OK" => Placed(parser, pc, p, NoMarks)'
  BY <1>1, <1>4 DEF Placed
<1>6. q.errno = "OK" => q.nread <= MaxHeader
  BY DEF Placed, Sane
<1> QED
  BY <1>1, <1>2, <1>3, <1>5, <1>6 DEF IInv, Running

LEMMA GotoIInv ==
  ASSUME IInv, NEW q, NEW c, NEW x, NEW mk, Reaches(q, c, x, mk), Goto(q, c, x, mk),
         log' \in LogType, LogOf(log'), torn' \in BOOLEAN
  PROVE  IInv'
<1>1. IsParser(q)
  BY DEF Reaches
<1>2. CASE q.errno # "OK" \/ c = "idle"
  <2>1. Return(q)
    BY <1>2 DEF Goto
  <2>2. q.errno = "OK" => Placed(q, "idle", p, NoMarks)
    BY <1>2, PlacedBetween DEF Reaches
  <2> QED
    BY <1>1, <2>1, <2>2, ReturnIInv
<1>3. CASE q.errno = "OK" /\ c # "idle"
  <2>1. /\ parser' = q /\ pc' = c /\ p' = x /\ mark' = mk
        /\ start' = IF c = "loop" THEN start ELSE 0
        /\ wire' = wire /\ settings' = settings /\ end' = end /\ data' = data
    BY <1>3 DEF Goto, data
  <2>2. end \in Nat /\ p \in Nat /\ p <= x /\ x <= end + 1 /\ x \in 1 .. end + 1
    BY DataType DEF IInv, Reaches
  <2>3. start' \in 0 .. p' /\ mark' \in [DataCallbacks -> 0 .. p'] /\ pc' \in Running
    BY <1>3, <2>1, <2>2 DEF IInv, Reaches
  <2>4. Placed(parser, pc, p, mark)'
    BY <1>3, <2>1 DEF Reaches, Placed
  <2>5. q.nread <= MaxHeader
    BY <1>3 DEF Reaches, Placed, Sane
  <2> QED
    BY <1>1, <1>3, <2>1, <2>2, <2>3, <2>4, <2>5 DEF IInv, Running
<1> QED
  BY <1>2, <1>3

LEMMA QuietLog == IInv /\ Quiet => log' \in LogType /\ LogOf(log') /\ torn' \in BOOLEAN
BY DEF IInv, Quiet, LogOf

LEMMA LoggedType ==
  ASSUME IInv, NEW cb \in Callbacks, NEW bytes \in Seq(STRING), cb \in DataCallbacks \/ bytes = <<>>
  PROVE  Logged(cb, bytes) \in LogType /\ LogOf(Logged(cb, bytes))
<1> DEFINE e == [cb |-> cb, bytes |-> bytes]
           E == [cb : Callbacks, bytes : Seq(STRING)]
           l == Logged(cb, bytes)
<1>1. log \in Seq(E) /\ \A i \in 1 .. Len(log) : log[i].cb \notin DataCallbacks => log[i].bytes = <<>>
  BY DEF IInv, LogType, LogOf
<1>2. l \in Seq(E) /\ \A i \in 1 .. Len(l) : l[i].cb \notin DataCallbacks => l[i].bytes = <<>>
  <2>1. CASE cb \in DataCallbacks /\ log # <<>> /\ log[Len(log)].cb = cb
    <3> DEFINE n == Len(log)
    <3>1. l = [log EXCEPT ![n].bytes = @ \o bytes]
      BY <2>1 DEF Logged
    <3>2. n \in 1 .. Len(log) /\ log[n] \in E
      <4> HIDE DEF E
      <4>1. n \in Nat /\ n # 0
        BY <1>1, <2>1
      <4> QED
        BY <1>1, <4>1
    <3>3. log[n].bytes \o bytes \in Seq(STRING)
      BY <3>2, ConcatProperties
    <3> DEFINE f == [log[n] EXCEPT !.bytes = @ \o bytes]
    <3>4. f \in E /\ f.cb = cb
      BY <2>1, <3>2, <3>3
    <3>5. l = [log EXCEPT ![n] = f]
      BY <3>1
    <3> HIDE DEF f, l
    <3>6. l \in Seq(E) /\ Len(l) = Len(log) /\ \A i \in 1 .. Len(l) : l[i] = IF i = n THEN f ELSE log[i]
      BY <1>1, <3>2, <3>4, <3>5
    <3> QED
      BY <1>1, <2>1, <3>4, <3>6
  <2>2. CASE ~(cb \in DataCallbacks /\ log # <<>> /\ log[Len(log)].cb = cb)
    <3>1. l = Append(log, e)
      BY <2>2 DEF Logged, Event
    <3>2. e \in E
      OBVIOUS
    <3>3. e.cb = cb /\ e.bytes = bytes
      OBVIOUS
    <3> HIDE DEF l, e, E
    <3>4. /\ l \in Seq(E) /\ Len(l) = Len(log) + 1 /\ l[Len(log) + 1] = e
          /\ Len(log) \in Nat /\ \A i \in 1 .. Len(log) : l[i] = log[i]
      BY <1>1, <3>1, <3>2
    <3>5. \A i \in 1 .. Len(l) : i \in 1 .. Len(log) \/ i = Len(log) + 1
      BY <3>4
    <3>6. l[Len(log) + 1].cb = cb /\ l[Len(log) + 1].bytes = bytes
      BY <3>3, <3>4
    <3>7. ASSUME NEW i \in 1 .. Len(l), l[i].cb \notin DataCallbacks PROVE l[i].bytes = <<>>
      BY <1>1, <3>4, <3>5, <3>6, <3>7
    <3> QED
      BY <3>4, <3>7
  <2> QED
    BY <2>1, <2>2
<1> HIDE DEF l
<1>3. DOMAIN l = 1 .. Len(l)
  BY <1>2
<1> QED
  BY <1>2, <1>3 DEF LogType, LogOf, l

LEMMA ErrorType ==
  ASSUME NEW q, IsParser(q), NEW e
  PROVE  IsParser([q EXCEPT !.errno = e]) /\ [q EXCEPT !.errno = e].errno = e
BY DEF IsParser, Fields

LEMMA CallbackIInv ==
  ASSUME IInv, NEW cb \in Callbacks, NEW bytes \in Seq(STRING), cb \in DataCallbacks \/ bytes = <<>>,
         NEW q, NEW c, NEW x, NEW mk, Reaches(q, c, x, mk), Callback(cb, bytes, q, c, x, mk)
  PROVE  IInv'
<1>1. log' \in LogType /\ LogOf(log') /\ torn' \in BOOLEAN
  BY LoggedType DEF Callback, IInv
<1>2. CASE HeaderValueRaises(cb)
  <2>1. pc' = "raised" /\ UNCHANGED <<wire, settings, parser, p, end, start, mark>> /\ data' = data
    BY <1>2 DEF Callback, data
  <2> QED
    BY <1>1, <2>1 DEF IInv, Running
<1>3. CASE ~HeaderValueRaises(cb) /\ Refuses(cb)
  <2> DEFINE r == [q EXCEPT !.errno = CallbackError[cb]]
  <2>1. Return(r)
    BY <1>3 DEF Callback
  <2>2. CallbackError[cb] \in {"CB_chunk_header", "CB_chunk_complete"}
    BY <1>3 DEF Refuses, CallbackError
  <2>3. IsParser(r) /\ r.errno # "OK"
    BY <2>2, ErrorType DEF Reaches
  <2> QED
    BY <1>1, <2>1, <2>3, ReturnIInv
<1>4. CASE ~HeaderValueRaises(cb) /\ ~Refuses(cb)
  BY <1>1, <1>4, GotoIInv DEF Callback
<1> QED
  BY <1>2, <1>3, <1>4

\* What is known when a byte is in turn.
LEMMA Turn ==
  ASSUME IInv, pc \in {"switch", "loop"}
  PROVE  /\ IsParser(parser) /\ parser.errno = "OK" /\ Sane(parser) /\ MarksFit(parser.state, mark)
         /\ p \in Nat /\ end \in Nat /\ 1 <= p /\ p <= end + 1 /\ (pc = "switch" => p <= end)
         /\ end <= Len(data) /\ data \in Seq(STRING) /\ Len(data) \in Nat
         /\ mark \in [DataCallbacks -> 0 .. p] /\ start \in 0 .. p
         /\ parser.nread \in Nat /\ parser.nread <= MaxHeader /\ MaxHeader \in Nat
         /\ pc = "switch" /\ parser.state = "s_chunk_size_start" => parser.nread = 1
         /\ pc = "loop" => parser.state \in {"s_header_field", "s_header_value"}
<1>1. wire \in DOMAIN Traffic /\ data \in Seq(STRING) /\ Len(data) \in Nat
  BY DataType DEF IInv
<1>2. /\ IsParser(parser) /\ parser.errno = "OK" /\ Placed(parser, pc, p, mark)
      /\ end \in 0 .. Len(data) /\ p \in 1 .. end + 1 /\ start \in 0 .. p
      /\ mark \in [DataCallbacks -> 0 .. p]
  BY DEF IInv, Running
<1>3. p \in Nat /\ end \in Nat /\ 1 <= p /\ p <= end + 1 /\ end <= Len(data)
  BY <1>1, <1>2
<1>4. parser.nread \in Nat /\ MaxHeader \in Nat
  BY <1>2, BoundsPositive DEF IsParser
<1> QED
  BY <1>1, <1>2, <1>3, <1>4 DEF Placed, Sane

\* The sections have no state in common.
LEMMA OneMark ==
  ASSUME NEW s, MarksFit(s, mark), mark \in [DataCallbacks -> 0 .. p]
  PROVE  /\ \A cb \in DataCallbacks : s \in Section(cb) =>
              \A o \in DataCallbacks : o # cb => mark[o] = 0
         /\ (\A cb \in DataCallbacks : s \notin Section(cb)) => mark = NoMarks
<1>1. \A a, b \in DataCallbacks : s \in Section(a) /\ s \in Section(b) => a = b
  BY DEF DataCallbacks, Section, UrlStates
<1>2. (\A cb \in DataCallbacks : s \notin Section(cb)) => \A cb \in DataCallbacks : mark[cb] = 0
  BY DEF MarksFit
<1> QED
  BY <1>1, <1>2 DEF MarksFit, NoMarks

\* What a parser must be to go on at c: in an ordinary state only the count matters.
Special == ChunkStates \cup {"s_body_identity", "s_header_field", "s_header_value"}
Good(q, c) ==
  IsParser(q) /\ (q.errno = "OK" => /\ Sane(q)
                                    /\ q.state = "s_chunk_size_start" => q.nread = IF c = "switch" THEN 1 ELSE 0)
LEMMA Ordinary ==
  ASSUME NEW q, IsParser(q), q.nread <= MaxHeader, q.state \notin Special
  PROVE  \A c : Good(q, c)
BY DEF Special, Good, Sane, ChunkStates

LEMMA AdvanceIInv ==
  ASSUME IInv, pc = "switch", NEW q, Good(q, "head"), MarksFit(q.state, mark), Advance(q)
  PROVE  IInv'
<1>1. Reaches(q, "head", p + 1, mark)
  <2>1. p + 1 \in p .. end + 1 /\ mark \in [DataCallbacks -> 0 .. p + 1]
    BY Turn
  <2> QED
    BY <2>1 DEF Reaches, Good, Placed, Running
<1> QED
  BY <1>1, QuietLog, GotoIInv DEF Advance

LEMMA ReexecuteIInv ==
  ASSUME IInv, pc = "switch", NEW q, Good(q, "switch"), MarksFit(q.state, mark), Reexecute(q)
  PROVE  IInv'
<1>1. Reaches(q, "switch", p, mark)
  <2>1. p \in p .. end + 1 /\ mark \in [DataCallbacks -> 0 .. p] /\ p <= end
    BY Turn
  <2> QED
    BY <2>1 DEF Reaches, Good, Placed, Running
<1> QED
  BY <1>1, QuietLog, GotoIInv DEF Reexecute

LEMMA FailIInv ==
  ASSUME IInv, NEW e, e # "OK", Fail(e)
  PROVE  IInv'
<1>1. IsParser([parser EXCEPT !.errno = e]) /\ [parser EXCEPT !.errno = e].errno = e
  BY ErrorType DEF IInv
<1> QED
  BY <1>1, QuietLog, ReturnIInv DEF Fail

LEMMA MarkedIs ==
  ASSUME p \in Nat, mark \in [DataCallbacks -> 0 .. p], NEW cb \in DataCallbacks
  PROVE  Marked(cb) \in [DataCallbacks -> 0 .. p] /\ \A o \in DataCallbacks : o # cb => Marked(cb)[o] = mark[o]
BY DEF Marked

LEMMA MarkingIInv ==
  ASSUME IInv, pc = "switch", mark = NoMarks, NEW cb \in DataCallbacks,
         NEW q, Good(q, "head"), q.state \in Section(cb), AdvanceMarking(cb, q)
  PROVE  IInv'
<1>1. Reaches(q, "head", p + 1, Marked(cb))
  <2>1. p \in Nat /\ p + 1 \in p .. end + 1 /\ mark \in [DataCallbacks -> 0 .. p]
    BY Turn
  <2>2. Marked(cb) \in [DataCallbacks -> 0 .. p + 1]
    BY <2>1 DEF Marked
  <2>3. MarksFit(q.state, Marked(cb))
    BY DEF MarksFit, Marked, NoMarks
  <2> QED
    BY <2>1, <2>2, <2>3 DEF Reaches, Good, Placed, Running
<1> QED
  BY <1>1, QuietLog, GotoIInv DEF AdvanceMarking

LEMMA NotifyIInv ==
  ASSUME IInv, pc = "switch", mark = NoMarks, NEW cb \in Callbacks \ DataCallbacks,
         NEW q, NEW c \in {"idle", "head", "switch"}, NEW x \in {p, p + 1}, c = "switch" => x = p,
         Good(q, c), Notify(cb, q, c, x)
  PROVE  IInv'
<1>1. Reaches(q, c, x, mark)
  <2>1. p \in Nat /\ end \in Nat /\ p <= end /\ x \in p .. end + 1
    BY Turn
  <2>2. mark \in [DataCallbacks -> 0 .. x] /\ \A s : MarksFit(s, mark)
    BY <2>1, NoMarksType
  <2> QED
    BY <2>1, <2>2 DEF Reaches, Good, Placed, Running
<1>2. <<>> \in Seq(STRING)
  OBVIOUS
<1> QED
  BY <1>1, <1>2, CallbackIInv DEF Notify

LEMMA DeliverIInv ==
  ASSUME IInv, pc \in {"switch", "loop"}, p <= end, NEW cb \in DataCallbacks,
         NEW mk \in [DataCallbacks -> 0 .. p], \A o \in DataCallbacks : o # cb => mk[o] = 0,
         NEW last \in p - 1 .. end, NEW q, NEW c \in {"head", "switch"}, NEW x \in p .. end + 1,
         c = "switch" => x <= end, Good(q, c), DeliverMarked(mk, cb, last, q, c, x)
  PROVE  IInv'
<1>1. p \in Nat /\ end \in Nat /\ 1 <= p /\ end <= Len(data) /\ data \in Seq(STRING) /\ Len(data) \in Nat
  BY Turn
<1>2. ASSUME NEW m \in [DataCallbacks -> 0 .. p], \A o \in DataCallbacks : m[o] = 0
      PROVE  Reaches(q, c, x, m)
  <2>1. m \in [DataCallbacks -> 0 .. x] /\ MarksFit(q.state, m)
    BY <1>1, <1>2 DEF MarksFit
  <2> QED
    BY <1>1, <2>1 DEF Reaches, Good, Placed, Running
<1>3. CASE mk[cb] = 0
  <2>1. Reaches(q, c, x, mk)
    BY <1>2, <1>3
  <2> QED
    BY <1>3, <2>1, QuietLog, GotoIInv DEF DeliverMarked
<1>4. CASE mk[cb] # 0
  <2> DEFINE m == [mk EXCEPT ![cb] = 0]
             bytes == SubSeq(data, mk[cb], last)
  <2>1. Reaches(q, c, x, m)
    <3>1. m \in [DataCallbacks -> 0 .. p] /\ \A o \in DataCallbacks : m[o] = 0
      BY <1>1
    <3> HIDE DEF m
    <3> QED
      BY <3>1, <1>2
  <2>2. bytes \in Seq(STRING)
    <3>1. mk[cb] \in 1 .. p /\ mk[cb] \in Int /\ last \in Int
      BY <1>1, <1>4
    <3>2. \A i \in mk[cb] .. last : i \in 1 .. Len(data)
      BY <1>1, <3>1
    <3>3. \A i \in mk[cb] .. last : data[i] \in STRING
      BY <1>1, <3>2
    <3> QED
      BY <3>1, <3>3, SubSeqProperties
  <2>3. Callback(cb, bytes, q, c, x, m)
    BY <1>4 DEF DeliverMarked
  <2>4. cb \in Callbacks
    BY DEF Callbacks
  <2> HIDE DEF m, bytes
  <2> QED
    BY <2>1, <2>2, <2>3, <2>4, CallbackIInv
<1> QED
  BY <1>3, <1>4

-----------------------------------------------------------------------------
(* The calls and the loop's head.                                          *)

LEMMA CallIInv == ASSUME IInv, (\E n \in 1 .. Unread : pc = "idle" /\ Execute(n)) \/ ExecuteEof PROVE IInv'
<1>1. wire \in DOMAIN Traffic /\ data \in Seq(STRING) /\ Len(data) \in Nat
  BY DataType DEF IInv
<1>2. end \in 0 .. Len(data) /\ p \in 1 .. end + 1 /\ start \in 0 .. p /\ end \in Nat /\ p \in Nat
  BY <1>1 DEF IInv
<1>3. ASSUME NEW n \in 1 .. Unread, pc = "idle", Execute(n) PROVE IInv'
  <2>1. /\ end' = p + n - 1 /\ UNCHANGED <<wire, settings, parser, start>> /\ Quiet /\ data' = data
    BY <1>3 DEF Execute, data
  <2>2. n \in Nat /\ end' \in 0 .. Len(data) /\ p <= end' + 1 /\ p + n <= end' + 1 /\ p + n \in Nat
    BY <1>1, <1>2, <2>1 DEF Unread
  <2>3. log' \in LogType /\ LogOf(log') /\ torn' \in BOOLEAN
    BY <2>1, QuietLog
  <2>4. CASE parser.errno # "OK"
    <3>1. p' = p + n /\ UNCHANGED <<pc, mark>>
      BY <1>3, <2>4 DEF Execute
    <3>2. p' \in 1 .. end' + 1 /\ start' \in 0 .. p' /\ mark' \in [DataCallbacks -> 0 .. p']
      BY <1>2, <2>1, <2>2, <3>1 DEF IInv
    <3> QED
      BY <1>3, <2>1, <2>2, <2>3, <2>4, <3>1, <3>2 DEF IInv, Running
  <2>5. CASE parser.errno = "OK"
    <3>1. pc' = "head" /\ mark' = MarkAtStart(parser.state) /\ p' = p
      BY <1>3, <2>5 DEF Execute
    <3>2. mark' \in [DataCallbacks -> 0 .. p'] /\ MarksFit(parser.state, mark')
      <4>1. \/ mark' = NoMarks
            \/ mark' = [NoMarks EXCEPT !["url"] = p] /\ parser.state \in UrlStates
            \/ mark' = [NoMarks EXCEPT !["header_field"] = p] /\ parser.state = "s_header_field"
            \/ mark' = [NoMarks EXCEPT !["header_value"] = p] /\ parser.state = "s_header_value"
        BY <3>1 DEF MarkAtStart
      <4>2. p \in 0 .. p /\ 0 \in 0 .. p
        BY <1>2
      <4> QED
        BY <3>1, <4>1, <4>2 DEF NoMarks, MarksFit, Section, DataCallbacks
    <3>3. Placed(parser, "idle", p, NoMarks)
      BY <1>3, <2>5 DEF IInv
    <3>4. Placed(parser, pc, p, mark)'
      BY <2>1, <3>1, <3>2, <3>3 DEF Placed
    <3>5. p' \in 1 .. end' + 1 /\ start' \in 0 .. p' /\ end' \in 0 .. Len(data')
      BY <1>2, <2>1, <2>2, <3>1
    <3>6. IsParser(parser') /\ wire' \in DOMAIN Traffic /\ settings' \in {"chttp", "accepting"}
          /\ parser'.errno = "OK" /\ parser'.nread <= MaxHeader
      BY <2>1, <2>5 DEF IInv
    <3>7. pc' = "head" /\ mark' \in [DataCallbacks -> 0 .. p']
      BY <3>1, <3>2
    <3> QED
      BY ONLY <2>3, <3>4, <3>5, <3>6, <3>7 DEF IInv, Running
  <2> QED
    BY <2>4, <2>5
<1>4. CASE ExecuteEof
  <2>1. /\ pc' = "closed" /\ UNCHANGED <<wire, settings, p, end, start, mark>> /\ Quiet /\ data' = data
        /\ parser' \in {parser, [parser EXCEPT !.errno = "INVALID_EOF_STATE"]}
    BY <1>4 DEF ExecuteEof, data
  <2>2. IsParser(parser') /\ (parser'.errno = "OK" => parser'.nread <= MaxHeader)
    <3>1. IsParser(parser) /\ (parser.errno = "OK" => parser.nread <= MaxHeader)
      BY DEF IInv
    <3>2. CASE parser' = parser
      BY <3>1, <3>2
    <3>3. CASE parser' = [parser EXCEPT !.errno = "INVALID_EOF_STATE"]
      BY ONLY <3>1, <3>3, ErrorType
    <3> QED
      BY ONLY <2>1, <3>2, <3>3
  <2> QED
    BY <2>1, <2>2, QuietLog DEF IInv, Running
<1> QED
  BY <1>3, <1>4

\* COUNT_HEADER_SIZE, when the limit is kept.
LEMMA CountedIs ==
  ASSUME IsParser(parser), NEW n \in Nat, ~Over(n)
  PROVE  /\ IsParser(Counted(n)) /\ Counted(n).nread <= MaxHeader /\ Counted(n).nread = parser.nread + n
         /\ \A f \in Fields \ {"nread"} : Counted(n)[f] = parser[f]
<1>1. MaxHeader \in Nat /\ parser.nread \in Nat
  BY BoundsPositive DEF IsParser
<1> QED
  BY <1>1 DEF IsParser, Fields, Counted, Over

LEMMA HeadIInv == ASSUME IInv, LoopHead \/ EndOfData \/ \E cb \in DataCallbacks : Leftover(cb) PROVE IInv'
<1>1. /\ pc = "head" /\ IsParser(parser) /\ parser.errno = "OK" /\ Placed(parser, "head", p, mark)
      /\ end \in 0 .. Len(data) /\ p \in 1 .. end + 1 /\ mark \in [DataCallbacks -> 0 .. p]
      /\ data \in Seq(STRING) /\ Len(data) \in Nat
  BY DataType DEF IInv, LoopHead, EndOfData, Leftover, Running
<1>2. end \in Nat /\ p \in Nat
  BY <1>1
<1>3. CASE LoopHead
  <2>1. CASE ParsingHeader /\ Over(1)
    BY <1>3, <2>1, FailIInv DEF LoopHead
  <2>2. CASE ~(ParsingHeader /\ Over(1))
    <3> DEFINE q == IF ParsingHeader THEN Counted(1) ELSE parser
    <3>1. Reexecute(q) /\ p <= end
      BY <1>3, <2>2 DEF LoopHead
    <3>2. IsParser(q) /\ q.errno = "OK" /\ Placed(q, "switch", p, mark)
      <4>1. CASE ParsingHeader
        <5>1. /\ IsParser(Counted(1)) /\ Counted(1).nread <= MaxHeader /\ Counted(1).nread = parser.nread + 1
              /\ \A f \in Fields \ {"nread"} : Counted(1)[f] = parser[f]
          BY <1>1, <2>2, <4>1, CountedIs
        <5>2. /\ Counted(1).state = parser.state /\ Counted(1).errno = parser.errno
              /\ Counted(1).flags = parser.flags /\ Counted(1).content_length = parser.content_length
              /\ Counted(1).header_state = parser.header_state
          BY <5>1 DEF Fields
        <5>3. parser.state = "s_chunk_size_start" => parser.nread = 0
          BY <1>1 DEF Placed
        <5> HIDE DEF Counted
        <5>4. Sane(Counted(1)) /\ MarksFit(Counted(1).state, mark)
          BY <1>1, <5>1, <5>2 DEF Placed, Sane
        <5>5. Counted(1).state = "s_chunk_size_start" => Counted(1).nread = 1
          BY <5>1, <5>2, <5>3
        <5> QED
          BY <1>1, <3>1, <4>1, <5>1, <5>2, <5>4, <5>5 DEF Placed
      <4>2. CASE ~ParsingHeader
        BY <1>1, <3>1, <4>2 DEF Placed, ParsingHeader, BodyStates
      <4> QED
        BY <4>1, <4>2
    <3> HIDE DEF q
    <3>3. Reaches(q, "switch", p, mark)
      BY <1>1, <1>2, <3>1, <3>2 DEF Reaches, Running
    <3> QED
      BY <3>1, <3>3, QuietLog, GotoIInv DEF Reexecute
  <2> QED
    BY <2>1, <2>2
<1>4. CASE EndOfData
  <2>1. Placed(parser, "idle", p, NoMarks)
    BY <1>1, NoMarksType DEF Placed
  <2> QED
    BY <1>1, <1>4, <2>1, QuietLog, ReturnIInv DEF EndOfData
<1>5. ASSUME NEW cb \in DataCallbacks, Leftover(cb) PROVE IInv'
  <2> DEFINE bytes == SubSeq(data, mark[cb], end)
             m == [mark EXCEPT ![cb] = 0]
  <2>1. bytes \in Seq(STRING)
    <3>1. mark[cb] \in 1 .. p /\ mark[cb] \in Int /\ end \in Int
      BY <1>1, <1>2, <1>5 DEF Leftover
    <3>2. \A i \in mark[cb] .. end : i \in 1 .. Len(data)
      BY <1>1, <3>1
    <3>3. \A i \in mark[cb] .. end : data[i] \in STRING
      BY <1>1, <3>2
    <3> QED
      BY <3>1, <3>3, SubSeqProperties
  <2>2. m \in [DataCallbacks -> 0 .. p] /\ \A o \in DataCallbacks : m[o] # 0 => mark[o] # 0
    BY <1>1, <1>2
  <2>3. log' = Logged(cb, bytes) /\ torn' \in BOOLEAN
    BY <1>5 DEF Leftover
  <2>4. \/ /\ pc' = "raised"
           /\ UNCHANGED <<wire, settings, parser, p, end, start, mark, request>>
        \/ Goto(parser, "head", p, m)
    BY <1>5 DEF Leftover
  <2> HIDE DEF bytes, m
  <2>5. log' \in LogType /\ LogOf(log')
    BY <2>1, <2>3, LoggedType DEF Callbacks
  <2>6. CASE Goto(parser, "head", p, m)
    <3>1. Reaches(parser, "head", p, m)
      BY <1>1, <1>2, <2>2 DEF Reaches, Placed, MarksFit, Running
    <3> QED
      BY <2>3, <2>5, <2>6, <3>1, GotoIInv
  <2>7. CASE pc' = "raised" /\ UNCHANGED <<wire, settings, parser, p, end, start, mark, request>>
    <3>1. data' = data
      BY <2>7 DEF data
    <3> QED
      BY <2>3, <2>5, <2>7, <3>1 DEF IInv, Running
  <2> QED
    BY <2>4, <2>6, <2>7
<1> QED
  BY <1>3, <1>4, <1>5

-----------------------------------------------------------------------------
(* The request line.                                                       *)

LEMMA ToIs ==
  ASSUME IsParser(parser), NEW s
  PROVE  IsParser(To(s)) /\ To(s).state = s /\ \A f \in Fields \ {"state"} : To(s)[f] = parser[f]
BY DEF IsParser, Fields, To

\* On to a state where nothing but the count matters, with no mark set.
LEMMA MoveIInv ==
  ASSUME IInv, pc = "switch", mark = NoMarks, NEW q, IsParser(q), q.nread <= MaxHeader,
         q.state \notin Special, Advance(q) \/ Reexecute(q)
  PROVE  IInv'
<1>1. MarksFit(q.state, mark)
  BY NoMarksType
<1> QED
  BY <1>1, Ordinary, AdvanceIInv, ReexecuteIInv

LEMMA MoveToIInv ==
  ASSUME IInv, pc = "switch", mark = NoMarks, NEW s, s \notin Special, Advance(To(s)) \/ Reexecute(To(s))
  PROVE  IInv'
<1>1. IsParser(To(s)) /\ To(s).state = s /\ To(s).nread = parser.nread /\ parser.nread <= MaxHeader
  BY ToIs, Turn DEF Fields
<1> QED
  BY <1>1, MoveIInv

LEMMA StayIInv ==
  ASSUME IInv, pc = "switch", parser.state \notin Special, Advance(parser) \/ Reexecute(parser)
  PROVE  IInv'
<1>1. IsParser(parser) /\ parser.nread <= MaxHeader /\ MarksFit(parser.state, mark)
  BY Turn
<1> QED
  BY <1>1, Ordinary, AdvanceIInv, ReexecuteIInv

\* In a state of no section no mark is set.
LEMMA Unmarked ==
  ASSUME IInv, pc \in {"switch", "loop"}, \A cb \in DataCallbacks : parser.state \notin Section(cb)
  PROVE  mark = NoMarks
BY Turn, OneMark

LEMMA UrlStatesAre ==
  /\ \A s, c : UrlNext(s, c) \in UrlStates \cup {"s_dead"}
  /\ UrlStates \cap Special = {} /\ UrlMayEnd \subseteq UrlStates
<1>1. \A r \in UrlRules : r[3] \in UrlStates
  BY DEF UrlRules, UrlStates
<1>2. ASSUME NEW s, NEW c PROVE UrlNext(s, c) \in UrlStates \cup {"s_dead"}
  <2> DEFINE rules == {r \in UrlRules : s \in r[1] /\ c \in r[2]}
  <2>1. CASE rules = {}
    BY <2>1 DEF UrlNext
  <2>2. CASE rules # {}
    <3>1. (CHOOSE r \in rules : TRUE) \in UrlRules
      BY <2>2
    <3>2. UrlNext(s, c) = (CHOOSE r \in rules : TRUE)[3]
      BY <2>2 DEF UrlNext
    <3> QED
      BY <1>1, <3>1, <3>2
  <2> QED
    BY <2>1, <2>2
<1>3. UrlStates \cap Special = {} /\ UrlMayEnd \subseteq UrlStates
  BY DEF UrlStates, Special, ChunkStates, UrlMayEnd
<1> QED
  BY <1>2, <1>3

LEMMA DigitIs ==
  /\ \A c \in Digit : DigitValue[c] \in 0 .. 9
  /\ \A c \in DOMAIN HexValue : HexValue[c] \in 0 .. 12
<1>1. Digit = {"0", "1", "2", "9"} /\ \A c \in Digit : DigitValue[c] \in 0 .. 9
  BY DEF Digit, DigitValue
<1>2. DOMAIN HexValue = Digit \cup {"c"} /\ \A c \in Digit \cup {"c"} : HexValue[c] = IF c = "c" THEN 12 ELSE DigitValue[c]
  BY DEF HexValue
<1> QED
  BY <1>1, <1>2

\* The empty lines before a request, its method, and the start of its URL.
LEMMA MethodIInv == ASSUME IInv, Dead \/ StartReq \/ ReqMethod \/ SpacesBeforeUrl PROVE IInv'
<1>1. /\ pc = "switch" /\ parser.state \in {"s_dead", "s_start_req", "s_req_method", "s_req_spaces_before_url"}
  BY DEF Dead, StartReq, ReqMethod, SpacesBeforeUrl, On
<1>2. mark = NoMarks /\ parser.state \notin Special
  <2>1. \A cb \in DataCallbacks : parser.state \notin Section(cb)
    BY <1>1 DEF Section, UrlStates
  <2> QED
    BY <1>1, <2>1, Unmarked DEF Special, ChunkStates
<1>3. IsParser(parser) /\ parser.errno = "OK" /\ parser.nread <= MaxHeader
  BY <1>1, Turn
<1>4. CASE Dead
  BY <1>1, <1>2, <1>4, StayIInv, FailIInv DEF Dead
<1>5. CASE StartReq
  <2>1. CASE Advance(parser)
    BY <1>1, <1>2, <2>1, StayIInv
  <2>2. CASE Fail("INVALID_METHOD")
    BY <2>2, FailIInv
  <2>3. ASSUME NEW c, NEW m, m = FirstLetter[c], c \in DOMAIN FirstLetter,
               Notify("message_begin",
                  [parser EXCEPT !.state = "s_req_method", !.flags = {}, !.content_length = ULLongMax,
                                 !.method = m, !.index = 1], "head", p + 1)
        PROVE  IInv'
    <3> DEFINE q == [parser EXCEPT !.state = "s_req_method", !.flags = {}, !.content_length = ULLongMax,
                                   !.method = m, !.index = 1]
    <3>1. m \in DOMAIN MethodString
      BY <2>3 DEF FirstLetter, MethodString
    <3>2. ULLongMax \in 0 .. ULLongMax
      BY BoundsPositive
    <3>3. IsParser(q) /\ q.nread = parser.nread /\ q.state = "s_req_method"
      BY <1>3, <3>1, <3>2 DEF IsParser, Fields
    <3>4. "message_begin" \in Callbacks \ DataCallbacks
      BY DEF Callbacks, DataCallbacks
    <3>5. Notify("message_begin", q, "head", p + 1)
      BY <2>3
    <3> HIDE DEF q
    <3>6. Good(q, "head")
      BY <1>3, <3>3, Ordinary DEF Special, ChunkStates
    <3> QED
      BY <1>1, <1>2, <3>4, <3>5, <3>6, NotifyIInv
  <2> QED
    BY <1>5, <2>1, <2>2, <2>3 DEF StartReq
<1>6. CASE ReqMethod
  <2> DEFINE next == [parser EXCEPT !.index = parser.index + 1]
             other == {r \in Rewrites : r[1] = parser.method /\ r[2] = parser.index /\ r[3] = ch}
  <2>1. \/ Advance([next EXCEPT !.state = "s_req_spaces_before_url"])
        \/ Advance(next)
        \/ other # {} /\ Advance([next EXCEPT !.method = (CHOOSE r \in other : TRUE)[4]])
        \/ Fail("INVALID_METHOD")
    BY <1>6 DEF ReqMethod
  <2>2. IsParser(next) /\ next.nread = parser.nread /\ next.state = parser.state
    BY <1>3 DEF IsParser, Fields
  <2>3. ASSUME NEW q, IsParser(q), q.nread = parser.nread, Advance(q),
               q.state \in {"s_req_method", "s_req_spaces_before_url"}
        PROVE  IInv'
    <3>1. q.state \notin Special
      BY <2>3 DEF Special, ChunkStates
    <3> QED
      BY <1>1, <1>2, <1>3, <2>3, <3>1, MoveIInv
  <2> HIDE DEF next
  <2>4. CASE Advance(next)
    <3>1. parser.state = "s_req_method"
      BY <1>6 DEF ReqMethod, On
    <3> QED
      BY <2>2, <2>3, <2>4, <3>1
  <2>5. CASE Advance([next EXCEPT !.state = "s_req_spaces_before_url"])
    <3> DEFINE q == [next EXCEPT !.state = "s_req_spaces_before_url"]
    <3>1. IsParser(q) /\ q.nread = parser.nread /\ q.state = "s_req_spaces_before_url"
      BY <2>2 DEF IsParser, Fields
    <3> HIDE DEF q
    <3> QED
      BY <2>3, <2>5, <3>1 DEF q
  <2>6. CASE other # {} /\ Advance([next EXCEPT !.method = (CHOOSE r \in other : TRUE)[4]])
    <3> DEFINE m == (CHOOSE r \in other : TRUE)[4]
               q == [next EXCEPT !.method = m]
    <3>1. m \in DOMAIN MethodString
      <4>1. (CHOOSE r \in other : TRUE) \in Rewrites
        BY <2>6
      <4>2. \A r \in Rewrites : r[4] \in DOMAIN MethodString
        BY DEF Rewrites, MethodString
      <4> QED
        BY <4>1, <4>2
    <3> HIDE DEF m
    <3>2. IsParser(q) /\ q.nread = parser.nread /\ q.state = "s_req_method"
      BY <1>6, <2>2, <3>1 DEF IsParser, Fields, ReqMethod, On
    <3>3. Advance(q)
      BY <2>6 DEF m
    <3> HIDE DEF q
    <3> QED
      BY <2>3, <3>2, <3>3
  <2>7. CASE Fail("INVALID_METHOD")
    BY <2>7, FailIInv
  <2> QED
    BY <2>1, <2>4, <2>5, <2>6, <2>7
<1>7. CASE SpacesBeforeUrl
  <2>1. PICK s : /\ s \in UrlStates \cup {"s_dead"}
                 /\ \/ Advance(parser)
                    \/ Fail("INVALID_URL")
                    \/ s # "s_dead" /\ AdvanceMarking("url", To(s))
    <3> DEFINE s == UrlNext(IF parser.method = "CONNECT" THEN "s_req_server_start" ELSE parser.state, ch)
    <3>1. s \in UrlStates \cup {"s_dead"}
      BY UrlStatesAre
    <3>2. \/ Advance(parser)
          \/ Fail("INVALID_URL")
          \/ s # "s_dead" /\ AdvanceMarking("url", To(s))
      BY <1>7 DEF SpacesBeforeUrl
    <3> QED
      BY <3>1, <3>2
  <2>2. CASE Advance(parser) \/ Fail("INVALID_URL")
    BY <1>1, <1>2, <2>2, StayIInv, FailIInv
  <2>3. CASE s # "s_dead" /\ AdvanceMarking("url", To(s))
    <3>1. IsParser(To(s)) /\ To(s).state = s /\ To(s).nread = parser.nread
      BY <1>3, ToIs DEF Fields
    <3>2. s \in UrlStates /\ s \notin Special
      BY <2>1, <2>3, UrlStatesAre
    <3>3. Good(To(s), "head") /\ "url" \in DataCallbacks /\ s \in Section("url")
      BY <1>3, <3>1, <3>2, Ordinary DEF DataCallbacks, Section
    <3> QED
      BY <1>1, <1>2, <2>3, <3>1, <3>3, MarkingIInv
  <2> QED
    BY <2>1, <2>2, <2>3
<1> QED
  BY <1>4, <1>5, <1>6, <1>7

LEMMA UrlIInv == ASSUME IInv, Url PROVE IInv'
<1>1. pc = "switch" /\ parser.state \in UrlStates
  BY DEF Url
<1>2. /\ IsParser(parser) /\ parser.errno = "OK" /\ parser.nread <= MaxHeader
      /\ p \in Nat /\ end \in Nat /\ 1 <= p /\ p <= end
      /\ MarksFit(parser.state, mark) /\ mark \in [DataCallbacks -> 0 .. p]
  BY <1>1, Turn
<1>3. \A o \in DataCallbacks : o # "url" => mark[o] = 0
  <2>1. "url" \in DataCallbacks /\ parser.state \in Section("url")
    BY <1>1 DEF DataCallbacks, Section
  <2> QED
    BY <1>2, <2>1, OneMark
<1>4. ASSUME NEW q, IsParser(q), q.nread = parser.nread, q.state \notin Special,
             Deliver("url", p - 1, q, "head", p + 1)
      PROVE  IInv'
  <2>1. Good(q, "head")
    BY <1>2, <1>4, Ordinary
  <2>2. "url" \in DataCallbacks
    BY DEF DataCallbacks
  <2>3. p - 1 \in p - 1 .. end /\ p + 1 \in p .. end + 1
    BY <1>2
  <2>4. DeliverMarked(mark, "url", p - 1, q, "head", p + 1)
    BY <1>4 DEF Deliver
  <2> QED
    BY <1>1, <1>2, <1>3, <1>4, <2>1, <2>2, <2>3, <2>4, DeliverIInv
<1>5. CASE Deliver("url", p - 1, To("s_req_http_start"), "head", p + 1)
  <2>1. IsParser(To("s_req_http_start")) /\ To("s_req_http_start").state = "s_req_http_start"
        /\ To("s_req_http_start").nread = parser.nread
    BY <1>2, ToIs DEF Fields
  <2>2. "s_req_http_start" \notin Special
    BY DEF Special, ChunkStates
  <2> QED
    BY <1>4, <1>5, <2>1, <2>2
<1>6. ASSUME NEW s \in {"s_req_line_almost_done", "s_header_field_start"},
             Deliver("url", p - 1, [parser EXCEPT !.http_major = 0, !.http_minor = 9, !.state = s], "head", p + 1)
      PROVE  IInv'
  <2> DEFINE q == [parser EXCEPT !.http_major = 0, !.http_minor = 9, !.state = s]
  <2>1. 0 \in 0 .. MaxVersion /\ 9 \in 0 .. MaxVersion
    BY BoundsPositive
  <2>2. IsParser(q) /\ q.nread = parser.nread /\ q.state = s
    BY <1>2, <2>1 DEF IsParser, Fields
  <2>3. s \notin Special
    BY <1>6 DEF Special, ChunkStates
  <2>4. Deliver("url", p - 1, q, "head", p + 1)
    BY <1>6
  <2> HIDE DEF q
  <2> QED
    BY <1>4, <2>2, <2>3, <2>4
<1>7. CASE Fail("INVALID_URL")
  BY <1>7, FailIInv
<1>8. ASSUME NEW s \in UrlStates, Advance(To(s)) PROVE IInv'
  <2>1. IsParser(To(s)) /\ To(s).state = s /\ To(s).nread = parser.nread
    BY <1>2, ToIs DEF Fields
  <2>2. s \notin Special
    BY <1>8, UrlStatesAre
  <2>3. Good(To(s), "head")
    BY <1>2, <2>1, <2>2, Ordinary
  <2>4. MarksFit(s, mark)
    BY <1>3, <1>8 DEF MarksFit, Section
  <2> QED
    BY <1>1, <1>8, <2>1, <2>3, <2>4, AdvanceIInv
<1>9. UrlNext(parser.state, ch) \in UrlStates \cup {"s_dead"}
  BY UrlStatesAre
<1>10. \/ Deliver("url", p - 1, To("s_req_http_start"), "head", p + 1)
       \/ \E s \in {"s_req_line_almost_done", "s_header_field_start"} :
            Deliver("url", p - 1, [parser EXCEPT !.http_major = 0, !.http_minor = 9, !.state = s], "head", p + 1)
       \/ Fail("INVALID_URL")
       \/ \E s \in UrlStates : Advance(To(s))
  BY <1>9 DEF Url
<1> QED
  BY <1>5, <1>6, <1>7, <1>8, <1>10

LEMMA VersionIInv ==
  ASSUME IInv, HttpStart \/ HttpLiteral \/ FirstMajor \/ Major \/ FirstMinor \/ Minor \/ LineAlmostDone
  PROVE  IInv'
<1>1. /\ pc = "switch"
      /\ parser.state \in {"s_req_http_start", "s_req_http_H", "s_req_http_HT", "s_req_http_HTT", "s_req_http_HTTP",
                           "s_req_first_http_major", "s_req_http_major", "s_req_first_http_minor",
                           "s_req_http_minor", "s_req_line_almost_done"}
  BY DEF HttpStart, HttpLiteral, Wants, FirstMajor, Major, FirstMinor, Minor, LineAlmostDone, On
<1>2. mark = NoMarks /\ parser.state \notin Special
  <2>1. \A cb \in DataCallbacks : parser.state \notin Section(cb)
    BY <1>1 DEF Section, UrlStates
  <2> QED
    BY <1>1, <2>1, Unmarked DEF Special, ChunkStates
<1>3. IsParser(parser) /\ parser.errno = "OK" /\ parser.nread <= MaxHeader
  BY <1>1, Turn
<1>4. ASSUME NEW e, e # "OK", Fail(e) PROVE IInv'
  BY <1>4, FailIInv
<1>5. CASE Advance(parser)
  BY <1>1, <1>2, <1>5, StayIInv
<1>6. ASSUME NEW s, Advance(To(s)),
             s \in {"s_req_http_H", "s_req_http_HT", "s_req_http_HTT", "s_req_http_HTTP", "s_req_first_http_major",
                    "s_req_first_http_minor", "s_req_line_almost_done", "s_header_field_start"}
      PROVE  IInv'
  <2>1. s \notin Special
    BY <1>6 DEF Special, ChunkStates
  <2> QED
    BY <1>1, <1>2, <1>6, <2>1, MoveToIInv
<1>7. ASSUME NEW q, IsParser(q), q.nread = parser.nread, Advance(q),
             q.state \in {"s_req_http_major", "s_req_http_minor"}
      PROVE  IInv'
  <2>1. q.state \notin Special
    BY <1>7 DEF Special, ChunkStates
  <2> QED
    BY <1>1, <1>2, <1>3, <1>7, <2>1, MoveIInv
<1>8. \A c \in Digit : DigitValue[c] \in 0 .. MaxVersion /\ DigitValue[c] \in Nat
  BY DigitIs, BoundsPositive
<1>9. CASE HttpStart
  BY <1>4, <1>5, <1>6, <1>9 DEF HttpStart
<1>10. CASE HttpLiteral
  <2>1. \A s \in DOMAIN Wants : Wants[s][2] \in {"s_req_http_HT", "s_req_http_HTT", "s_req_http_HTTP",
                                                 "s_req_first_http_major"}
    BY DEF Wants
  <2> QED
    BY <1>4, <1>6, <1>10, <2>1 DEF HttpLiteral
<1>11. CASE FirstMajor
  <2>1. CASE ch \in Digit
    <3> DEFINE d == DigitValue[ch]
               q == [parser EXCEPT !.http_major = d, !.state = "s_req_http_major"]
    <3>1. d \in 0 .. MaxVersion
      BY <1>8, <2>1
    <3> HIDE DEF d
    <3>2. IsParser(q) /\ q.nread = parser.nread /\ q.state = "s_req_http_major"
      BY <1>3, <3>1 DEF IsParser, Fields
    <3>3. Advance(q) \/ Fail("INVALID_VERSION")
      BY <1>11 DEF FirstMajor, d
    <3> HIDE DEF q
    <3> QED
      BY <1>4, <1>7, <3>2, <3>3
  <2>2. CASE ch \notin Digit
    BY <1>4, <1>11, <2>2 DEF FirstMajor
  <2> QED
    BY <2>1, <2>2
<1>12. CASE FirstMinor
  <2>1. CASE ch \in Digit
    <3> DEFINE d == DigitValue[ch]
               q == [parser EXCEPT !.http_minor = d, !.state = "s_req_http_minor"]
    <3>1. d \in 0 .. MaxVersion
      BY <1>8, <2>1
    <3> HIDE DEF d
    <3>2. IsParser(q) /\ q.nread = parser.nread /\ q.state = "s_req_http_minor"
      BY <1>3, <3>1 DEF IsParser, Fields
    <3>3. Advance(q)
      BY <1>12, <2>1 DEF FirstMinor, d
    <3> HIDE DEF q
    <3> QED
      BY <1>7, <3>2, <3>3
  <2>2. CASE ch \notin Digit
    BY <1>4, <1>12, <2>2 DEF FirstMinor
  <2> QED
    BY <2>1, <2>2
<1>13. CASE Major
  <2>1. CASE ch \in Digit /\ parser.http_major * 10 + DigitValue[ch] <= MaxVersion
    <3> DEFINE d == parser.http_major * 10 + DigitValue[ch]
               q == [parser EXCEPT !.http_major = d]
    <3>1. d \in 0 .. MaxVersion
      <4>1. DigitValue[ch] \in Nat /\ parser.http_major \in Nat /\ MaxVersion \in Nat
        BY <1>3, <1>8, <2>1, BoundsPositive DEF IsParser
      <4> QED
        BY <2>1, <4>1
    <3>2. \/ Advance([parser EXCEPT !.http_major = @ * 10 + DigitValue[ch]])
          \/ Advance(To("s_req_first_http_minor")) \/ Fail("INVALID_VERSION")
      BY <1>13 DEF Major
    <3>3. Advance(q) \/ Advance(To("s_req_first_http_minor")) \/ Fail("INVALID_VERSION")
      BY <3>2
    <3> HIDE DEF d
    <3>4. IsParser(q) /\ q.nread = parser.nread /\ q.state = parser.state
      BY <1>3, <3>1 DEF IsParser, Fields
    <3>5. parser.state = "s_req_http_major"
      BY <1>13 DEF Major, On
    <3> HIDE DEF q
    <3> QED
      BY <1>4, <1>6, <1>7, <3>3, <3>4, <3>5
  <2>2. CASE ~(ch \in Digit /\ parser.http_major * 10 + DigitValue[ch] <= MaxVersion)
    BY <1>4, <1>6, <1>13, <2>2 DEF Major
  <2> QED
    BY <2>1, <2>2
<1>14. CASE Minor
  <2>1. CASE ch \in Digit /\ parser.http_minor * 10 + DigitValue[ch] <= MaxVersion
    <3> DEFINE d == parser.http_minor * 10 + DigitValue[ch]
               q == [parser EXCEPT !.http_minor = d]
    <3>1. d \in 0 .. MaxVersion
      <4>1. DigitValue[ch] \in Nat /\ parser.http_minor \in Nat /\ MaxVersion \in Nat
        BY <1>3, <1>8, <2>1, BoundsPositive DEF IsParser
      <4> QED
        BY <2>1, <4>1
    <3>2. \/ Advance([parser EXCEPT !.http_minor = @ * 10 + DigitValue[ch]])
          \/ Advance(To("s_req_line_almost_done")) \/ Advance(To("s_header_field_start"))
          \/ Fail("INVALID_VERSION")
      BY <1>14 DEF Minor
    <3>3. \/ Advance(q) \/ Advance(To("s_req_line_almost_done")) \/ Advance(To("s_header_field_start"))
          \/ Fail("INVALID_VERSION")
      BY <3>2
    <3> HIDE DEF d
    <3>4. IsParser(q) /\ q.nread = parser.nread /\ q.state = parser.state
      BY <1>3, <3>1 DEF IsParser, Fields
    <3>5. parser.state = "s_req_http_minor"
      BY <1>14 DEF Minor, On
    <3> HIDE DEF q
    <3> QED
      BY <1>4, <1>6, <1>7, <3>3, <3>4, <3>5
  <2>2. CASE ~(ch \in Digit /\ parser.http_minor * 10 + DigitValue[ch] <= MaxVersion)
    BY <1>4, <1>6, <1>14, <2>2 DEF Minor
  <2> QED
    BY <2>1, <2>2
<1>15. CASE LineAlmostDone
  BY <1>4, <1>6, <1>15 DEF LineAlmostDone
<1> QED
  BY <1>9, <1>10, <1>11, <1>12, <1>13, <1>14, <1>15

-----------------------------------------------------------------------------
(* The headers: their names.                                               *)

LEMMA FieldStartIInv == ASSUME IInv, HeaderFieldStart \/ EnterLoop PROVE IInv'
<1>1. CASE HeaderFieldStart
  <2>1. pc = "switch" /\ parser.state = "s_header_field_start"
    BY <1>1 DEF HeaderFieldStart, On
  <2>2. mark = NoMarks
    <3>1. \A cb \in DataCallbacks : parser.state \notin Section(cb)
      BY <2>1 DEF Section, UrlStates
    <3> QED
      BY <2>1, <3>1, Unmarked
  <2>3. IsParser(parser) /\ parser.errno = "OK" /\ parser.nread <= MaxHeader
    BY <2>1, Turn
  <2>4. \/ \E s \in {"s_headers_almost_done"} : Advance(To(s)) \/ Reexecute(To(s))
        \/ Fail("INVALID_HEADER_TOKEN")
        \/ \E h \in {"h_C", "h_matching_proxy_connection", "h_matching_transfer_encoding",
                     "h_matching_upgrade", "h_general"} :
             AdvanceMarking("header_field",
               [parser EXCEPT !.state = "s_header_field", !.index = 0, !.header_state = h])
    BY <1>1 DEF HeaderFieldStart
  <2>5. ASSUME Advance(To("s_headers_almost_done")) \/ Reexecute(To("s_headers_almost_done")) PROVE IInv'
    <3>1. "s_headers_almost_done" \notin Special
      BY DEF Special, ChunkStates
    <3> QED
      BY <2>1, <2>2, <2>5, <3>1, MoveToIInv
  <2>6. ASSUME NEW h \in {"h_C", "h_matching_proxy_connection", "h_matching_transfer_encoding",
                          "h_matching_upgrade", "h_general"},
               AdvanceMarking("header_field",
                 [parser EXCEPT !.state = "s_header_field", !.index = 0, !.header_state = h])
        PROVE  IInv'
    <3> DEFINE q == [parser EXCEPT !.state = "s_header_field", !.index = 0, !.header_state = h]
    <3>1. IsParser(q) /\ q.nread = parser.nread /\ q.state = "s_header_field" /\ q.header_state = h
      BY <2>3 DEF IsParser, Fields
    <3>2. AdvanceMarking("header_field", q)
      BY <2>6
    <3> HIDE DEF q
    <3>3. h \in FieldStates
      BY <2>6 DEF FieldStates
    <3>4. Good(q, "head")
      BY <2>3, <3>1, <3>3 DEF Good, Sane, ChunkStates
    <3>5. "header_field" \in DataCallbacks /\ q.state \in Section("header_field")
      BY <3>1 DEF DataCallbacks, Section
    <3> QED
      BY <2>1, <2>2, <3>2, <3>4, <3>5, MarkingIInv
  <2> QED
    BY <2>4, <2>5, <2>6, FailIInv
<1>2. CASE EnterLoop
  <2>1. /\ pc = "switch" /\ parser.state \in {"s_header_field", "s_header_value"} /\ pc' = "loop" /\ start' = p
        /\ UNCHANGED <<wire, settings, parser, p, end, mark>> /\ Quiet /\ data' = data
    BY <1>2 DEF EnterLoop, data
  <2>2. /\ parser.errno = "OK" /\ Sane(parser) /\ MarksFit(parser.state, mark)
        /\ p \in Nat /\ 1 <= p
    BY <2>1, Turn
  <2>3. Placed(parser, pc, p, mark)'
    BY <2>1, <2>2 DEF Placed
  <2> QED
    BY <2>1, <2>2, <2>3, QuietLog DEF IInv, Running
<1> QED
  BY <1>1, <1>2

\* What is known in the loops of a name and of a value.
LEMMA InLoopIs ==
  ASSUME IInv, pc = "loop", p <= end
  PROVE  /\ IsParser(parser) /\ parser.errno = "OK" /\ Sane(parser) /\ MarksFit(parser.state, mark)
         /\ p \in Nat /\ end \in Nat /\ 1 <= p /\ p + 1 \in p .. end + 1 /\ p - 1 \in p - 1 .. end
         /\ p \in p .. end + 1
         /\ mark \in [DataCallbacks -> 0 .. p] /\ p - start \in Nat
         /\ parser.nread <= MaxHeader
BY Turn

\* On in a loop, with a parser in the same state.
LEMMA LoopOnIInv ==
  ASSUME IInv, pc = "loop", p <= end, NEW q, IsParser(q), Sane(q), q.state = parser.state,
         NEW x \in p .. end + 1, Goto(q, "loop", x, mark) /\ Quiet
  PROVE  IInv'
<1>1. /\ p \in Nat /\ end \in Nat /\ mark \in [DataCallbacks -> 0 .. p] /\ MarksFit(q.state, mark)
      /\ q.state \in {"s_header_field", "s_header_value"}
  BY Turn
<1>2. mark \in [DataCallbacks -> 0 .. x]
  BY <1>1
<1>3. Reaches(q, "loop", x, mark)
  BY <1>1, <1>2 DEF Reaches, Placed, Running
<1> QED
  BY <1>3, QuietLog, GotoIInv

LEMMA LoopEndIInv == ASSUME IInv, LoopEnd PROVE IInv'
<1>1. /\ IsParser(parser) /\ parser.errno = "OK" /\ Sane(parser) /\ MarksFit(parser.state, mark)
      /\ p \in Nat /\ end \in Nat /\ 1 <= p /\ p <= end + 1 /\ mark \in [DataCallbacks -> 0 .. p]
      /\ start \in 0 .. p /\ parser.state \in {"s_header_field", "s_header_value"} /\ pc = "loop"
  BY Turn DEF LoopEnd
<1>2. p - start \in Nat /\ p \in p .. end + 1
  BY <1>1
<1>3. CASE Over(p - start)
  BY <1>3, FailIInv DEF LoopEnd
<1>4. CASE ~Over(p - start)
  <2> DEFINE q == Counted(p - start)
  <2>1. /\ IsParser(q) /\ q.nread <= MaxHeader /\ \A f \in Fields \ {"nread"} : q[f] = parser[f]
    BY <1>1, <1>2, <1>4, CountedIs
  <2>2. q.state = parser.state /\ q.errno = parser.errno /\ q.header_state = parser.header_state
    BY <2>1 DEF Fields
  <2>3. Goto(q, "head", p, mark) /\ Quiet
    BY <1>4 DEF LoopEnd
  <2> HIDE DEF q
  <2>4. Sane(q) /\ MarksFit(q.state, mark)
    BY <1>1, <2>1, <2>2 DEF Sane, ChunkStates
  <2>5. Reaches(q, "head", p, mark)
    BY <1>1, <1>2, <2>1, <2>2, <2>4 DEF Reaches, Placed, Running
  <2> QED
    BY <2>3, <2>5, QuietLog, GotoIInv
<1> QED
  BY <1>3, <1>4

LEMMA NextFieldIs == \A h \in FieldStates : \A i, c : NextFieldState(h, i, c) \in FieldStates
<1> SUFFICES ASSUME NEW h \in FieldStates, NEW i, NEW c PROVE NextFieldState(h, i, c) \in FieldStates
  OBVIOUS
<1>1. CASE h \in DOMAIN Matching
  <2>1. NextFieldState(h, i, c) \in {Matching[h][2], Matching[h][3], h}
    BY <1>1 DEF NextFieldState, Match, Matching
  <2>2. h \in {"h_matching_connection", "h_matching_proxy_connection", "h_matching_content_length",
               "h_matching_transfer_encoding", "h_matching_upgrade"}
    BY <1>1 DEF Matching, FieldStates
  <2>3. Matching[h][2] \in FieldStates /\ Matching[h][3] \in FieldStates
    BY <2>2 DEF Matching, FieldStates
  <2> QED
    BY <2>1, <2>3
<1>2. CASE h \notin DOMAIN Matching
  BY <1>2 DEF NextFieldState, FieldStates, Matching
<1> QED
  BY <1>1, <1>2

LEMMA FieldIInv == ASSUME IInv, FieldChar \/ FieldStop PROVE IInv'
<1>1. pc = "loop" /\ parser.state = "s_header_field" /\ p <= end
  BY DEF FieldChar, FieldStop, InLoop
<1>2. /\ IsParser(parser) /\ parser.errno = "OK" /\ Sane(parser) /\ MarksFit(parser.state, mark)
      /\ p \in Nat /\ end \in Nat /\ 1 <= p /\ p + 1 \in p .. end + 1 /\ p - 1 \in p - 1 .. end
      /\ mark \in [DataCallbacks -> 0 .. p] /\ p - start \in Nat /\ parser.nread <= MaxHeader
  BY <1>1, InLoopIs
<1>3. CASE FieldChar
  <2> DEFINE h == NextFieldState(parser.header_state, parser.index, ch)
             i == IF parser.header_state \in {"h_C", "h_CON"} \cup DOMAIN Matching
                  THEN parser.index + 1 ELSE parser.index
             next == [parser EXCEPT !.header_state = h, !.index = i]
             flagged == [next EXCEPT !.flags = @ \cup {"CONTENTLENGTH"}]
  <2>1. More(next) \/ More(flagged) \/ Fail("UNEXPECTED_CONTENT_LENGTH")
    BY <1>3 DEF FieldChar
  <2>2. h \in FieldStates /\ i \in Nat
    BY <1>1, <1>2, NextFieldIs DEF Sane, IsParser
  <2> HIDE DEF h, i
  <2>3. /\ IsParser(next) /\ IsParser(flagged)
        /\ next.state = parser.state /\ flagged.state = parser.state
        /\ next.nread = parser.nread /\ flagged.nread = parser.nread
        /\ next.header_state = h /\ flagged.header_state = h
    BY <1>2, <2>2 DEF IsParser, Fields
  <2> HIDE DEF next, flagged
  <2>4. Sane(next) /\ Sane(flagged)
    BY <1>1, <1>2, <2>2, <2>3 DEF Sane, ChunkStates
  <2> QED
    BY <1>1, <1>2, <2>1, <2>3, <2>4, LoopOnIInv, FailIInv DEF More
<1>4. CASE FieldStop
  <2>1. CASE Fail("HEADER_OVERFLOW") \/ Fail("INVALID_HEADER_TOKEN")
    BY <2>1, FailIInv
  <2>2. CASE /\ ~Over(p - start)
             /\ Deliver("header_field", p - 1,
                        [Counted(p - start) EXCEPT !.state = "s_header_value_discard_ws"], "head", p + 1)
    <3> DEFINE r == Counted(p - start)
               q == [r EXCEPT !.state = "s_header_value_discard_ws"]
    <3>1. IsParser(r) /\ r.nread <= MaxHeader
      BY <1>2, <2>2, CountedIs
    <3>2. Deliver("header_field", p - 1, q, "head", p + 1)
      BY <2>2
    <3> HIDE DEF r
    <3>3. IsParser(q) /\ q.nread <= MaxHeader /\ q.state = "s_header_value_discard_ws"
      BY <3>1 DEF IsParser, Fields
    <3> HIDE DEF q
    <3>4. Good(q, "head")
      BY <3>3, Ordinary DEF Special, ChunkStates
    <3>5. "header_field" \in DataCallbacks /\ \A o \in DataCallbacks : o # "header_field" => mark[o] = 0
      <4>1. "header_field" \in DataCallbacks /\ parser.state \in Section("header_field")
        BY <1>1 DEF DataCallbacks, Section
      <4> QED
        BY <1>2, <4>1, OneMark
    <3> QED
      BY <1>1, <1>2, <3>2, <3>4, <3>5, DeliverIInv DEF Deliver
  <2> QED
    BY <1>4, <2>1, <2>2 DEF FieldStop
<1> QED
  BY <1>3, <1>4

-----------------------------------------------------------------------------
(* The headers: their values.                                              *)

LEMMA EndFlagIs ==
  ASSUME NEW q, IsParser(q)
  PROVE  /\ IsParser(WithEndFlag(q)) /\ q.flags \subseteq WithEndFlag(q).flags
         /\ \A f \in Fields \ {"flags"} : WithEndFlag(q)[f] = q[f]
<1> DEFINE r(x) == [q EXCEPT !.flags = @ \cup {x}]
<1>1. WithEndFlag(q) = q \/ \E x : WithEndFlag(q) = r(x)
  BY DEF WithEndFlag
<1>2. ASSUME NEW x PROVE /\ IsParser(r(x)) /\ q.flags \subseteq r(x).flags
                         /\ \A f \in Fields \ {"flags"} : r(x)[f] = q[f]
  BY DEF IsParser, Fields
<1> QED
  BY <1>1, <1>2

LEMMA ConnectionTokenIs ==
  \A c, other : other \in ValueStates => ConnectionToken(c, other) \in ValueStates
BY DEF ConnectionToken, ValueStates

LEMMA FirstValueIs == \A h, c : FirstValueState(h, c) \in ValueStates
<1> SUFFICES ASSUME NEW h, NEW c PROVE FirstValueState(h, c) \in ValueStates
  OBVIOUS
<1>1. CASE h = "h_connection"
  <2>1. FirstValueState(h, c) = ConnectionToken(c, "h_matching_connection_token")
    BY <1>1 DEF FirstValueState
  <2> QED
    BY <2>1, ConnectionTokenIs DEF ValueStates
<1>2. CASE h # "h_connection"
  BY <1>2 DEF FirstValueState, ValueStates
<1> QED
  BY <1>1, <1>2

LEMMA DigitLengthIs == \A c \in Digit : DigitValue[c] \in 0 .. ULLongMax
BY DigitIs, BoundsPositive

LEMMA ValueStartIInv == ASSUME IInv, ValueStart \/ ValueDiscardWs PROVE IInv'
<1>1. pc = "switch" /\ parser.state \in {"s_header_value_start", "s_header_value_discard_ws"}
  BY DEF ValueStart, ValueDiscardWs, On
<1>2. mark = NoMarks /\ parser.state \notin Special
  <2>1. \A cb \in DataCallbacks : parser.state \notin Section(cb)
    BY <1>1 DEF Section, UrlStates
  <2> QED
    BY <1>1, <2>1, Unmarked DEF Special, ChunkStates
<1>3. IsParser(parser) /\ parser.errno = "OK" /\ parser.nread <= MaxHeader
  BY <1>1, Turn
<1>4. ASSUME NEW q, IsParser(q), q.nread = parser.nread, q.state = "s_header_value",
             q.header_state \in ValueStates, AdvanceMarking("header_value", q)
      PROVE  IInv'
  <2>1. Good(q, "head")
    BY <1>3, <1>4 DEF Good, Sane, ChunkStates
  <2>2. "header_value" \in DataCallbacks /\ q.state \in Section("header_value")
    BY <1>4 DEF DataCallbacks, Section
  <2> QED
    BY <1>1, <1>2, <1>4, <2>1, <2>2, MarkingIInv
<1>5. CASE ValueStart
  <2> DEFINE s == FirstValueState(parser.header_state, ch)
             next == [parser EXCEPT !.state = "s_header_value", !.index = 0, !.header_state = s]
             upgraded == [next EXCEPT !.flags = @ \cup {"UPGRADE"}]
             d == DigitValue[ch]
             sized == [next EXCEPT !.content_length = d]
  <2>1. \/ AdvanceMarking("header_value", next)
        \/ AdvanceMarking("header_value", upgraded)
        \/ ch \in Digit /\ AdvanceMarking("header_value", sized)
        \/ Fail("INVALID_CONTENT_LENGTH")
    BY <1>5 DEF ValueStart
  <2>2. s \in ValueStates /\ (ch \in Digit => d \in 0 .. ULLongMax)
    BY FirstValueIs, DigitLengthIs
  <2> HIDE DEF s, d
  <2>3. /\ IsParser(next) /\ next.nread = parser.nread /\ next.state = "s_header_value" /\ next.header_state = s
        /\ IsParser(upgraded) /\ upgraded.nread = parser.nread /\ upgraded.state = "s_header_value"
        /\ upgraded.header_state = s
    BY <1>3 DEF IsParser, Fields
  <2>4. ch \in Digit => /\ IsParser(sized) /\ sized.nread = parser.nread
                        /\ sized.state = "s_header_value" /\ sized.header_state = s
    BY <1>3, <2>2 DEF IsParser, Fields
  <2> HIDE DEF next, upgraded, sized
  <2> QED
    BY <1>4, <2>1, <2>2, <2>3, <2>4, FailIInv
<1>6. CASE ValueDiscardWs
  <2>1. \A s \in {"s_header_value_discard_ws_almost_done", "s_header_value_discard_lws"} : s \notin Special
    BY DEF Special, ChunkStates
  <2>2. \/ Advance(parser)
        \/ \E s \in {"s_header_value_discard_ws_almost_done", "s_header_value_discard_lws"} : Advance(To(s))
    BY <1>6 DEF ValueDiscardWs
  <2> QED
    BY <1>1, <1>2, <2>1, <2>2, StayIInv, MoveToIInv
<1> QED
  BY <1>5, <1>6

\* The first of some numbers.
LEMMA Least == ASSUME NEW S, S \subseteq Nat, S # {} PROVE \E k \in S : \A j \in S : k <= j
<1> DEFINE R == {q \in Nat \X Nat : q[1] < q[2]}
<1>1. IsWellFoundedOn(R, Nat)
  BY NatLessThanWellFounded DEF OpToRel
<1>2. PICK k \in S : \A j \in S : ~(<<j, k>> \in R)
  <2> HIDE DEF R
  <2> QED
    BY <1>1, WFMin
<1>3. ASSUME NEW j \in S PROVE k <= j
  <2>1. j \in Nat /\ k \in Nat
    OBVIOUS
  <2>2. j < k => <<j, k>> \in R
    BY <2>1
  <2> HIDE DEF R
  <2>3. ~(j < k)
    BY <1>2, <2>2
  <2> QED
    BY <2>1, <2>3
<1> QED
  BY <1>3

LEMMA SkipToIs == ASSUME IInv, pc = "loop", p <= end PROVE SkipTo \in p .. end + 1
<1> DEFINE limit == IF end - p + 1 < MaxHeader THEN end - p + 1 ELSE MaxHeader
<1>1. p \in Nat /\ end \in Nat /\ 1 <= p /\ MaxHeader \in Nat
  BY InLoopIs, BoundsPositive
<1>2. limit \in Nat /\ p + limit - 1 <= end
  BY <1>1
<1> HIDE DEF limit
<1>3. LineEnds(limit) \subseteq p .. end /\ LineEnds(limit) \subseteq Nat
  BY <1>1, <1>2 DEF LineEnds
<1>4. SkipTo = IF LineEnds(limit) = {} THEN end + 1
               ELSE CHOOSE k \in LineEnds(limit) : \A j \in LineEnds(limit) : k <= j
  BY DEF SkipTo, limit
<1>5. CASE LineEnds(limit) = {}
  BY <1>1, <1>4, <1>5
<1>6. CASE LineEnds(limit) # {}
  <2>1. \E k \in LineEnds(limit) : \A j \in LineEnds(limit) : k <= j
    BY <1>3, <1>6, Least
  <2>2. SkipTo \in LineEnds(limit)
    BY <1>4, <1>6, <2>1
  <2> QED
    BY <1>1, <1>3, <2>2
<1> QED
  BY <1>5, <1>6

LEMMA TupleRange ==
  /\ \A a, b : Range(<<a, b>>) = {a, b}
  /\ \A a, b, c : Range(<<a, b, c>>) = {a, b, c}
  /\ \A a, b, c, d : Range(<<a, b, c, d>>) = {a, b, c, d}
<1>1. ASSUME NEW a, NEW b PROVE Range(<<a, b>>) = {a, b}
  <2>1. DOMAIN <<a, b>> = {1, 2} /\ <<a, b>>[1] = a /\ <<a, b>>[2] = b
    OBVIOUS
  <2> QED
    BY <2>1 DEF Range
<1>2. ASSUME NEW a, NEW b, NEW c PROVE Range(<<a, b, c>>) = {a, b, c}
  <2>1. DOMAIN <<a, b, c>> = {1, 2, 3} /\ <<a, b, c>>[1] = a /\ <<a, b, c>>[2] = b /\ <<a, b, c>>[3] = c
    OBVIOUS
  <2> QED
    BY <2>1 DEF Range
<1>3. ASSUME NEW a, NEW b, NEW c, NEW d PROVE Range(<<a, b, c, d>>) = {a, b, c, d}
  <2>1. /\ DOMAIN <<a, b, c, d>> = {1, 2, 3, 4} /\ <<a, b, c, d>>[1] = a /\ <<a, b, c, d>>[2] = b
        /\ <<a, b, c, d>>[3] = c /\ <<a, b, c, d>>[4] = d
    OBVIOUS
  <2> QED
    BY <2>1 DEF Range
<1> QED
  BY <1>1, <1>2, <1>3

LEMMA BlankIsNoToken == " " \notin Token
<1>1. \A word \in Range(Word) : " " \notin Range(word)
  <2>1. \A word \in Range(Word) :
          \/ word = <<"c", "on", "n", "ection">> \/ word = <<"c", "on", "t", "ent-length">>
          \/ word = <<"p", "roxy-connection">> \/ word = <<"t", "ransfer-encoding">>
          \/ word = <<"u", "pgrade">> \/ word = <<"c", "hunked">>
          \/ word = <<"k", "eep-alive">> \/ word = <<"c", "lose">>
    BY DEF Word, Range
  <2>2. /\ Range(<<"c", "on", "n", "ection">>) = {"c", "on", "n", "ection"}
        /\ Range(<<"c", "on", "t", "ent-length">>) = {"c", "on", "t", "ent-length"}
        /\ Range(<<"p", "roxy-connection">>) = {"p", "roxy-connection"}
        /\ Range(<<"t", "ransfer-encoding">>) = {"t", "ransfer-encoding"}
        /\ Range(<<"u", "pgrade">>) = {"u", "pgrade"} /\ Range(<<"c", "hunked">>) = {"c", "hunked"}
        /\ Range(<<"k", "eep-alive">>) = {"k", "eep-alive"} /\ Range(<<"c", "lose">>) = {"c", "lose"}
    BY TupleRange
  <2>3. /\ " " \notin {"c", "on", "n", "ection"}
        /\ " " \notin {"c", "on", "t", "ent-length"}
        /\ " " \notin {"p", "roxy-connection"}
        /\ " " \notin {"t", "ransfer-encoding"}
        /\ " " \notin {"u", "pgrade"} /\ " " \notin {"c", "hunked"}
        /\ " " \notin {"k", "eep-alive"} /\ " " \notin {"c", "lose"}
    OBVIOUS
  <2> QED
    BY <2>1, <2>2, <2>3, Zenon
<1>2. \A word \in Range(MethodString) : " " \notin Range(word)
  <2>1. \A word \in Range(MethodString) :
          \/ word = <<"G", "ET">> \/ word = <<"P", "OST">> \/ word = <<"P", "U", "T">>
          \/ word = <<"P", "U", "R", "GE">> \/ word = <<"C", "ONNECT">>
    BY DEF MethodString, Range
  <2>2. /\ Range(<<"G", "ET">>) = {"G", "ET"} /\ Range(<<"P", "OST">>) = {"P", "OST"}
        /\ Range(<<"P", "U", "T">>) = {"P", "U", "T"}
        /\ Range(<<"P", "U", "R", "GE">>) = {"P", "U", "R", "GE"}
        /\ Range(<<"C", "ONNECT">>) = {"C", "ONNECT"}
    BY TupleRange
  <2>3. /\ " " \notin {"G", "ET"} /\ " " \notin {"P", "OST"}
        /\ " " \notin {"P", "U", "T"}
        /\ " " \notin {"P", "U", "R", "GE"}
        /\ " " \notin {"C", "ONNECT"}
    OBVIOUS
  <2> QED
    BY <2>1, <2>2, <2>3, Zenon
<1>3. " " \notin Letters
  BY <1>1, <1>2 DEF Letters
<1>4. " " \notin Digit
  BY DEF Digit, DigitValue
<1> QED
  BY <1>3, <1>4 DEF Token

LEMMA AfterValueIs ==
  ASSUME IsParser(parser), NEW h \in ValueStates, h = parser.header_state, NEW c
  PROVE  LET q == AfterValueChar(h, c)
         IN  /\ IsParser(q) /\ q.state = parser.state /\ q.nread = parser.nread
             /\ q.header_state \in ValueStates
<1> DEFINE q == AfterValueChar(h, c)
           turned(s) == [parser EXCEPT !.header_state = s]
           moved(s) == [turned(s) EXCEPT !.index = @ + 1]
           Fine(r) == /\ IsParser(r) /\ r.state = parser.state /\ r.nread = parser.nread
                      /\ r.header_state \in ValueStates
<1>1. ASSUME NEW s \in ValueStates PROVE Fine(turned(s))
  BY DEF IsParser, Fields
<1>2. ASSUME NEW s \in ValueStates PROVE Fine(moved(s))
  BY DEF IsParser, Fields
<1>3. ASSUME NEW r, IsParser(r), r.state = parser.state, r.nread = parser.nread PROVE Fine(NextToken(r))
  BY <1>3 DEF NextToken, IsParser, Fields, ValueStates
<1>4. Fine(NextToken(parser)) /\ Fine(NextToken(WithEndFlag(parser)))
  <2>1. IsParser(WithEndFlag(parser)) /\ WithEndFlag(parser).state = parser.state
        /\ WithEndFlag(parser).nread = parser.nread
    BY EndFlagIs DEF Fields
  <2> QED
    BY <1>3, <2>1
<1>5. Fine(parser)
  OBVIOUS
<1>6. /\ "h_matching_connection_token_start" \notin DOMAIN Matching
      /\ "h_matching_connection_token" \notin DOMAIN Matching
      /\ "h_transfer_encoding_chunked" \notin DOMAIN Matching /\ ConnectionDone \cap DOMAIN Matching = {}
      /\ "h_matching_connection_token" \notin ConnectionDone
      /\ "h_matching_connection_token_start" \notin ConnectionDone
      /\ "h_transfer_encoding_chunked" \notin ConnectionDone
  BY DEF Matching, ConnectionDone, EndFlag
<1>7. CASE h \in DOMAIN Matching
  <2>1. Match(h, parser.index, c) \in {Matching[h][2], Matching[h][3], h}
    BY DEF Match
  <2>2. Matching[h][2] \in ValueStates /\ Matching[h][3] \in ValueStates
    BY <1>7 DEF Matching, ValueStates
  <2> DEFINE s == Match(h, parser.index, c)
  <2>3. s \in ValueStates
    BY <2>1, <2>2
  <2>4. q = moved(s)
    BY ONLY <1>6, <1>7 DEF AfterValueChar
  <2> HIDE DEF moved, Fine, q, s
  <2>5. Fine(q)
    BY <1>2, <2>3, <2>4
  <2> QED
    BY <2>5 DEF Fine, q
<1>8. CASE h = "h_matching_connection_token_start"
  <2> DEFINE other == CASE c \in Token -> "h_matching_connection_token"
                        [] c = " " -> h
                        [] OTHER -> "h_general"
  <2>1. other \in ValueStates
    <3>1. ~(c \in Token /\ c = " ")
      BY BlankIsNoToken
    <3>2. other \in {"h_matching_connection_token", h, "h_general"}
      BY <3>1
    <3> QED
      BY <3>2 DEF ValueStates
  <2>2. q = turned(ConnectionToken(c, other))
    BY ONLY <1>6, <1>8 DEF AfterValueChar
  <2> DEFINE s == ConnectionToken(c, other)
  <2> HIDE DEF other
  <2>3. s \in ValueStates
    BY <2>1, ConnectionTokenIs
  <2> HIDE DEF turned, Fine, q, s
  <2>4. Fine(q)
    BY <1>1, <2>2, <2>3 DEF s
  <2> QED
    BY <2>4 DEF Fine, q
<1>9. CASE h \notin DOMAIN Matching /\ h # "h_matching_connection_token_start"
  <2>1. \/ q = NextToken(parser) \/ q = NextToken(WithEndFlag(parser))
        \/ q = turned("h_matching_connection_token") \/ q = turned("h_general") \/ q = parser
    BY ONLY <1>6, <1>9 DEF AfterValueChar
  <2>2. "h_matching_connection_token" \in ValueStates /\ "h_general" \in ValueStates
    BY DEF ValueStates
  <2> HIDE DEF turned, Fine, q
  <2>3. Fine(q)
    BY <1>1, <1>4, <1>5, <2>1, <2>2
  <2> QED
    BY <2>3 DEF Fine, q
<1> QED
  BY <1>7, <1>8, <1>9
\* A length one digit longer fits in an unsigned long long.
LEMMA LongerIs ==
  ASSUME IsParser(parser), NEW base \in Nat, NEW digit \in Nat
  PROVE  /\ IsParser(Longer(base, digit))
         /\ Longer(base, digit).content_length = (parser.content_length * base + digit) % (ULLongMax + 1)
         /\ \A f \in Fields \ {"content_length"} : Longer(base, digit)[f] = parser[f]
<1> DEFINE n == (parser.content_length * base + digit) % (ULLongMax + 1)
           q == [parser EXCEPT !.content_length = n]
<1>1. n \in 0 .. ULLongMax
  <2>1. parser.content_length \in Nat /\ ULLongMax \in Nat
    BY BoundsPositive DEF IsParser
  <2>2. parser.content_length * base + digit \in Nat
    BY <2>1
  <2> QED
    BY <2>1, <2>2
<1>2. Longer(base, digit) = q
  BY DEF Longer
<1> HIDE DEF n
<1>3. IsParser(q) /\ q.content_length = n /\ \A f \in Fields \ {"content_length"} : q[f] = parser[f]
  BY <1>1 DEF IsParser, Fields
<1> QED
  BY <1>2, <1>3 DEF n

LEMMA ValueCharIInv == ASSUME IInv, ValueChar PROVE IInv'
<1>1. pc = "loop" /\ parser.state = "s_header_value" /\ p <= end
  BY DEF ValueChar, InLoop
<1>2. /\ IsParser(parser) /\ Sane(parser) /\ p + 1 \in p .. end + 1 /\ p \in p .. end + 1
      /\ parser.nread <= MaxHeader /\ parser.header_state \in ValueStates
  BY <1>1, InLoopIs DEF Sane
<1>3. ASSUME NEW q, IsParser(q), q.state = parser.state, q.nread = parser.nread,
             q.header_state \in ValueStates, More(q)
      PROVE  IInv'
  <2>1. Sane(q)
    BY <1>1, <1>2, <1>3 DEF Sane, ChunkStates
  <2> QED
    BY <1>1, <1>2, <1>3, <2>1, LoopOnIInv DEF More
<1> DEFINE after == AfterValueChar(parser.header_state, ch)
           longer == Longer(10, DigitValue[ch])
<1>4. \/ Fail("INVALID_HEADER_TOKEN") \/ Fail("INVALID_CONTENT_LENGTH")
      \/ Goto(parser, "loop", SkipTo, mark) /\ Quiet
      \/ More(parser) \/ (ch \in Digit /\ More(longer)) \/ More(after)
  <2>1. " " \notin Digit
    BY BlankIsNoToken DEF Token
  <2> HIDE DEF after, longer
  <2> QED
    BY <2>1 DEF ValueChar, after, longer
<1>5. CASE Fail("INVALID_HEADER_TOKEN") \/ Fail("INVALID_CONTENT_LENGTH")
  BY <1>5, FailIInv
<1>6. CASE Goto(parser, "loop", SkipTo, mark) /\ Quiet
  BY <1>1, <1>2, <1>6, SkipToIs, LoopOnIInv
<1>7. CASE More(parser)
  BY <1>2, <1>3, <1>7
<1>8. CASE ch \in Digit /\ More(longer)
  <2>1. DigitValue[ch] \in Nat
    BY <1>8, DigitIs
  <2>2. IsParser(longer) /\ \A f \in Fields \ {"content_length"} : longer[f] = parser[f]
    BY <1>2, <2>1, LongerIs
  <2> HIDE DEF longer
  <2>3. longer.state = parser.state /\ longer.nread = parser.nread /\ longer.header_state = parser.header_state
    BY <2>2 DEF Fields
  <2> QED
    BY <1>2, <1>3, <1>8, <2>2, <2>3
<1>9. CASE More(after)
  <2>1. /\ IsParser(after) /\ after.state = parser.state /\ after.nread = parser.nread
        /\ after.header_state \in ValueStates
    BY <1>2, AfterValueIs
  <2> HIDE DEF after
  <2> QED
    BY <1>3, <1>9, <2>1
<1> QED
  BY <1>4, <1>5, <1>6, <1>7, <1>8, <1>9

\* The end of a value: the count may be too long only now.
LEMMA ValueEndIInv == ASSUME IInv, ValueCR \/ ValueLF PROVE IInv'
<1>1. pc = "loop" /\ parser.state = "s_header_value" /\ p <= end
  BY DEF ValueCR, ValueLF, InLoop
<1>2. /\ IsParser(parser) /\ MarksFit(parser.state, mark) /\ p \in Nat /\ p + 1 \in p .. end + 1
      /\ p \in p .. end + 1 /\ p - 1 \in p - 1 .. end
      /\ mark \in [DataCallbacks -> 0 .. p] /\ p - start \in Nat /\ parser.nread <= MaxHeader
  BY <1>1, InLoopIs
<1>3. "header_value" \in DataCallbacks /\ \A o \in DataCallbacks : o # "header_value" => mark[o] = 0
  <2>1. "header_value" \in DataCallbacks /\ parser.state \in Section("header_value")
    BY <1>1 DEF DataCallbacks, Section
  <2> QED
    BY <1>2, <2>1, OneMark
<1> DEFINE r == Counted(p - start)
           q == [r EXCEPT !.state = "s_header_almost_done"]
           e == [q EXCEPT !.errno = "HEADER_OVERFLOW"]
<1>4. IsParser(r) /\ (~Over(p - start) => r.nread <= MaxHeader)
  <2>1. r.nread = parser.nread + (p - start) /\ parser.nread + (p - start) \in Nat
        /\ \A f \in Fields \ {"nread"} : r[f] = parser[f]
        /\ DOMAIN r = Fields
    BY <1>2 DEF Counted, IsParser, Fields
  <2>2. IsParser(r)
    <3> HIDE DEF r
    <3> QED
      BY <1>2, <2>1 DEF IsParser, Fields
  <2>3. MaxHeader \in Nat
    BY BoundsPositive
  <2> HIDE DEF r
  <2> QED
    BY <2>1, <2>2, <2>3 DEF Over
<1>5. /\ ValueCR => Deliver("header_value", p - 1, IF Over(p - start) THEN e ELSE q, "head", p + 1)
      /\ ValueLF => \/ Fail("HEADER_OVERFLOW")
                    \/ ~Over(p - start) /\ Deliver("header_value", p - 1, q, "switch", p)
  BY DEF ValueCR, ValueLF
<1> HIDE DEF r
<1>6. IsParser(q) /\ q.state = "s_header_almost_done" /\ (~Over(p - start) => q.nread <= MaxHeader)
  BY <1>4 DEF IsParser, Fields
<1> HIDE DEF q
<1>7. Good(e, "head") /\ (~Over(p - start) => Good(q, "head") /\ Good(q, "switch"))
  <2>1. Good(e, "head")
    BY <1>6, ErrorType DEF Good
  <2>2. ~Over(p - start) => Good(q, "head") /\ Good(q, "switch")
    BY <1>6, Ordinary DEF Special, ChunkStates
  <2> QED
    BY <2>1, <2>2
<1> HIDE DEF e
<1>8. CASE ValueCR
  <2> DEFINE next == IF Over(p - start) THEN e ELSE q
  <2>1. Good(next, "head") /\ Deliver("header_value", p - 1, next, "head", p + 1)
    BY <1>5, <1>7, <1>8
  <2> HIDE DEF next
  <2> QED
    BY <1>1, <1>2, <1>3, <2>1, DeliverIInv DEF Deliver
<1>9. CASE ValueLF
  <2>1. CASE Fail("HEADER_OVERFLOW")
    BY <2>1, FailIInv
  <2>2. CASE ~Over(p - start) /\ Deliver("header_value", p - 1, q, "switch", p)
    BY <1>1, <1>2, <1>3, <1>7, <2>2, DeliverIInv DEF Deliver
  <2> QED
    BY <1>5, <1>9, <2>1, <2>2
<1> QED
  BY <1>8, <1>9
\* The lines' ends around a value, and the lines that continue it.
LEMMA ValueLinesIInv ==
  ASSUME IInv, HeaderAlmostDone \/ ValueLws \/ ValueDiscardWsAlmostDone \/ ValueDiscardLws
  PROVE  IInv'
<1>1. /\ pc = "switch"
      /\ parser.state \in {"s_header_almost_done", "s_header_value_lws",
                           "s_header_value_discard_ws_almost_done", "s_header_value_discard_lws"}
  BY DEF HeaderAlmostDone, ValueLws, ValueDiscardWsAlmostDone, ValueDiscardLws, On
<1>2. mark = NoMarks
  <2>1. \A cb \in DataCallbacks : parser.state \notin Section(cb)
    BY <1>1 DEF Section, UrlStates
  <2> QED
    BY <1>1, <2>1, Unmarked
<1>3. /\ IsParser(parser) /\ parser.nread <= MaxHeader /\ p \in Nat /\ end \in Nat /\ 1 <= p /\ p <= end
      /\ mark \in [DataCallbacks -> 0 .. p]
  BY <1>1, Turn
<1> DEFINE r == WithEndFlag(parser)
           q == [r EXCEPT !.state = "s_header_field_start"]
<1>4. IsParser(q) /\ q.nread <= MaxHeader /\ q.state = "s_header_field_start"
  <2>1. IsParser(r) /\ r.nread = parser.nread
    BY <1>3, EndFlagIs DEF Fields
  <2> HIDE DEF r
  <2> QED
    BY <1>3, <2>1 DEF IsParser, Fields
<1>5. \/ Fail("LF_EXPECTED") \/ Fail("STRICT")
      \/ \E s \in {"s_header_value_lws", "s_header_value_start", "s_header_value_discard_lws",
                   "s_header_value_discard_ws"} : Advance(To(s)) \/ Reexecute(To(s))
      \/ Reexecute(q)
      \/ DeliverMarked(Marked("header_value"), "header_value", p - 1, q, "switch", p)
  BY DEF HeaderAlmostDone, ValueLws, ValueDiscardWsAlmostDone, ValueDiscardLws
<1> HIDE DEF q
<1>6. CASE Fail("LF_EXPECTED") \/ Fail("STRICT")
  BY <1>6, FailIInv
<1>7. ASSUME NEW s \in {"s_header_value_lws", "s_header_value_start", "s_header_value_discard_lws",
                        "s_header_value_discard_ws"}, Advance(To(s)) \/ Reexecute(To(s))
      PROVE  IInv'
  <2>1. s \notin Special
    BY DEF Special, ChunkStates
  <2> QED
    BY <1>1, <1>2, <1>7, <2>1, MoveToIInv
<1>8. q.state \notin Special
  BY <1>4 DEF Special, ChunkStates
<1>9. CASE Reexecute(q)
  BY <1>1, <1>2, <1>4, <1>8, <1>9, MoveIInv
<1>10. CASE DeliverMarked(Marked("header_value"), "header_value", p - 1, q, "switch", p)
  <2>1. Marked("header_value") \in [DataCallbacks -> 0 .. p]
        /\ \A o \in DataCallbacks : o # "header_value" => Marked("header_value")[o] = 0
    <3>1. "header_value" \in DataCallbacks /\ \A o \in DataCallbacks : mark[o] = 0
      BY <1>2 DEF DataCallbacks, NoMarks
    <3> QED
      BY <1>3, <3>1, MarkedIs
  <2>2. Good(q, "switch") /\ "header_value" \in DataCallbacks
    BY <1>4, <1>8, Ordinary DEF DataCallbacks
  <2>3. p - 1 \in p - 1 .. end /\ p \in p .. end + 1
    BY <1>3
  <2> QED
    BY <1>1, <1>3, <1>10, <2>1, <2>2, <2>3, DeliverIInv
<1> QED
  BY <1>5, <1>6, <1>7, <1>9, <1>10

-----------------------------------------------------------------------------
(* The end of the headers, and bodies.                                     *)

\* A new message begins, or the connection is dead.
LEMMA NewMessageIs ==
  ASSUME NEW q, IsParser(q), q.nread <= MaxHeader
  PROVE  \A c : Good(NewMessage(q), c)
<1> DEFINE s == IF ShouldKeepAlive(q) THEN "s_start_req" ELSE "s_dead"
           r == [q EXCEPT !.state = s]
<1>1. r = NewMessage(q) /\ s \in {"s_start_req", "s_dead"}
  BY DEF NewMessage
<1> HIDE DEF s
<1>2. IsParser(r) /\ r.nread <= MaxHeader /\ r.state = s
  BY DEF IsParser, Fields
<1> HIDE DEF r
<1>3. r.state \notin Special
  BY <1>1, <1>2 DEF Special, ChunkStates
<1> QED
  BY <1>1, <1>2, <1>3, Ordinary

LEMMA HeadersIInv == ASSUME IInv, HeadersAlmostDone \/ HeadersDone PROVE IInv'
<1>1. pc = "switch" /\ parser.state \in {"s_headers_almost_done", "s_headers_done"}
  BY DEF HeadersAlmostDone, HeadersDone, On
<1>2. mark = NoMarks
  <2>1. \A cb \in DataCallbacks : parser.state \notin Section(cb)
    BY <1>1 DEF Section, UrlStates
  <2> QED
    BY <1>1, <2>1, Unmarked
<1>3. IsParser(parser) /\ parser.nread <= MaxHeader /\ MaxHeader \in Nat
  BY <1>1, Turn
<1>4. {"chunk_complete", "headers_complete", "message_complete"} \subseteq Callbacks \ DataCallbacks
  BY DEF Callbacks, DataCallbacks
<1>5. CASE HeadersAlmostDone
  <2> DEFINE u == {"UPGRADE", "CONNECTION_UPGRADE"} \subseteq parser.flags \/ parser.method = "CONNECT"
             done == [parser EXCEPT !.state = "s_headers_done", !.upgrade = u]
  <2>1. \/ Fail("STRICT") \/ Fail("UNEXPECTED_CONTENT_LENGTH")
        \/ Notify("chunk_complete", To("s_message_done"), "switch", p)
        \/ Notify("headers_complete", done, "switch", p)
    BY <1>5 DEF HeadersAlmostDone
  <2>2. u \in BOOLEAN
    OBVIOUS
  <2> HIDE DEF u
  <2>3. IsParser(done) /\ done.nread <= MaxHeader /\ done.state = "s_headers_done"
    BY <1>3, <2>2 DEF IsParser, Fields
  <2> HIDE DEF done
  <2>4. Good(done, "switch") /\ Good(To("s_message_done"), "switch")
    <3>1. Good(done, "switch")
      BY <2>3, Ordinary DEF Special, ChunkStates
    <3>2. IsParser(To("s_message_done")) /\ To("s_message_done").state = "s_message_done"
          /\ To("s_message_done").nread <= MaxHeader
      BY <1>3, ToIs DEF Fields
    <3> QED
      BY <3>1, <3>2, Ordinary DEF Special, ChunkStates
  <2> QED
    BY <1>1, <1>2, <1>4, <2>1, <2>4, FailIInv, NotifyIInv
<1>6. CASE HeadersDone
  <2> DEFINE q == [parser EXCEPT !.nread = 0]
             chunked == [q EXCEPT !.state = "s_chunk_size_start"]
             identity == [q EXCEPT !.state = "s_body_identity"]
  <2>1. \/ Fail("STRICT")
        \/ Notify("message_complete", NewMessage(q), "idle", p + 1)
        \/ Notify("message_complete", NewMessage(q), "head", p + 1)
        \/ "CHUNKED" \in q.flags /\ Advance(chunked)
        \/ HasBody(q) /\ "CHUNKED" \notin q.flags /\ Advance(identity)
    BY <1>6 DEF HeadersDone
  <2>2. IsParser(q) /\ q.nread = 0
    BY <1>3 DEF IsParser, Fields
  <2> HIDE DEF q
  <2>3. \A c : Good(NewMessage(q), c)
    BY <1>3, <2>2, NewMessageIs
  <2>4. /\ IsParser(chunked) /\ chunked.state = "s_chunk_size_start" /\ chunked.nread = 0 /\ chunked.flags = q.flags
        /\ IsParser(identity) /\ identity.state = "s_body_identity" /\ identity.nread = 0
        /\ identity.content_length = q.content_length
    BY <2>2 DEF IsParser, Fields
  <2> HIDE DEF chunked, identity
  <2>5. "CHUNKED" \in q.flags => Good(chunked, "head")
    BY <1>3, <2>4 DEF Good, Sane, ChunkStates
  <2>6. HasBody(q) /\ "CHUNKED" \notin q.flags => Good(identity, "head")
    BY <1>3, <2>4 DEF Good, Sane, ChunkStates, HasBody
  <2>7. \A s : MarksFit(s, mark)
    BY <1>2, NoMarksType
  <2> QED
    BY <1>1, <1>2, <1>4, <2>1, <2>3, <2>5, <2>6, <2>7, FailIInv, NotifyIInv, AdvanceIInv
<1> QED
  BY <1>5, <1>6
\* A part of a body or of a chunk: at least a byte, and no more than there is.
LEMMA ToReadIs ==
  ASSUME IInv, pc = "switch", parser.state \in {"s_body_identity", "s_chunk_data"}
  PROVE  /\ ToRead \in Nat /\ 1 <= ToRead /\ p + ToRead - 1 <= end
         /\ parser.content_length - ToRead \in 0 .. ULLongMax
         /\ parser.content_length - ToRead # ULLongMax
<1>1. p \in Nat /\ end \in Nat /\ p <= end /\ IsParser(parser) /\ parser.content_length \notin {0, ULLongMax}
  BY Turn DEF Sane
<1>2. parser.content_length \in 0 .. ULLongMax /\ ULLongMax \in Nat
  BY <1>1, BoundsPositive DEF IsParser
<1> QED
  BY <1>1, <1>2 DEF ToRead

\* The mark of the body, set or left alone.
LEMMA BodyMarked ==
  ASSUME IInv, pc = "switch", parser.state \in Section("body")
  PROVE  /\ Marked("body") \in [DataCallbacks -> 0 .. p] /\ "body" \in DataCallbacks
         /\ \A o \in DataCallbacks : o # "body" => mark[o] = 0 /\ Marked("body")[o] = 0
         /\ \A s \in Section("body") : MarksFit(s, Marked("body"))
<1>1. p \in Nat /\ mark \in [DataCallbacks -> 0 .. p] /\ MarksFit(parser.state, mark) /\ "body" \in DataCallbacks
  BY Turn DEF DataCallbacks
<1>2. \A o \in DataCallbacks : o # "body" => mark[o] = 0
  BY <1>1, OneMark
<1>3. /\ Marked("body") \in [DataCallbacks -> 0 .. p]
      /\ \A o \in DataCallbacks : o # "body" => Marked("body")[o] = 0
  BY <1>1, <1>2, MarkedIs
<1> QED
  BY <1>1, <1>2, <1>3 DEF MarksFit

\* On to the next bytes of a body, with the part read so far marked.
LEMMA ReadOnIInv ==
  ASSUME IInv, pc = "switch", parser.state \in {"s_body_identity", "s_chunk_data"},
         NEW q, Good(q, "head"), q.state \in Section("body"),
         Goto(q, "head", p + ToRead, Marked("body")) /\ Quiet
  PROVE  IInv'
<1>1. ToRead \in Nat /\ 1 <= ToRead /\ p + ToRead - 1 <= end /\ p \in Nat /\ end \in Nat
  BY ToReadIs, Turn
<1>2. Marked("body") \in [DataCallbacks -> 0 .. p] /\ MarksFit(q.state, Marked("body"))
  BY BodyMarked DEF Section
<1>3. p + ToRead \in p .. end + 1 /\ Marked("body") \in [DataCallbacks -> 0 .. p + ToRead]
  BY <1>1, <1>2
<1>4. q.state # "s_chunk_size_start"
  BY DEF Section
<1>5. Reaches(q, "head", p + ToRead, Marked("body"))
  BY <1>2, <1>3, <1>4 DEF Reaches, Placed, Good, Running
<1> QED
  BY <1>5, QuietLog, GotoIInv

LEMMA BodyIInv == ASSUME IInv, BodyIdentity \/ MessageDone PROVE IInv'
<1>1. /\ pc = "switch" /\ IsParser(parser) /\ Sane(parser) /\ parser.nread <= MaxHeader
      /\ p \in Nat /\ end \in Nat
  BY Turn DEF BodyIdentity, MessageDone, On
<1>2. CASE BodyIdentity
  <2> DEFINE left == parser.content_length - ToRead
             q == [parser EXCEPT !.content_length = left]
             over == [q EXCEPT !.state = "s_message_done"]
  <2>1. /\ parser.state = "s_body_identity"
        /\ \/ DeliverMarked(Marked("body"), "body", p + ToRead - 1, over, "switch", p + ToRead - 1)
           \/ left # 0 /\ Goto(q, "head", p + ToRead, Marked("body")) /\ Quiet
    BY <1>2 DEF BodyIdentity, On
  <2>2. left \in 0 .. ULLongMax /\ left # ULLongMax
    BY <1>1, <2>1, ToReadIs
  <2> HIDE DEF left
  <2>3. /\ IsParser(q) /\ q.state = "s_body_identity" /\ q.nread = parser.nread /\ q.content_length = left
        /\ IsParser(over) /\ over.state = "s_message_done" /\ over.nread = parser.nread
    BY <1>1, <2>1, <2>2 DEF IsParser, Fields
  <2> HIDE DEF q, over
  <2>4. Good(over, "switch")
    BY <1>1, <2>3, Ordinary DEF Special, ChunkStates
  <2>5. left # 0 => Good(q, "head")
    BY <1>1, <2>2, <2>3 DEF Good, Sane, ChunkStates
  <2>6. parser.state \in Section("body") /\ q.state \in Section("body")
    BY <2>1, <2>3 DEF Section
  <2>7. p + ToRead - 1 \in p - 1 .. end /\ p + ToRead - 1 \in p .. end + 1 /\ p + ToRead - 1 <= end /\ p <= end
    BY <1>1, <2>1, ToReadIs
  <2>8. CASE DeliverMarked(Marked("body"), "body", p + ToRead - 1, over, "switch", p + ToRead - 1)
    BY <1>1, <2>4, <2>6, <2>7, <2>8, BodyMarked, DeliverIInv
  <2>9. CASE left # 0 /\ Goto(q, "head", p + ToRead, Marked("body")) /\ Quiet
    BY <1>1, <2>1, <2>5, <2>6, <2>9, ReadOnIInv
  <2> QED
    BY <2>1, <2>8, <2>9
<1>3. CASE MessageDone
  <2> DEFINE c == IF parser.upgrade THEN "idle" ELSE "head"
  <2>1. parser.state = "s_message_done" /\ Notify("message_complete", NewMessage(parser), c, p + 1)
    BY <1>3 DEF MessageDone, On
  <2>2. mark = NoMarks
    <3>1. \A cb \in DataCallbacks : parser.state \notin Section(cb)
      BY <2>1 DEF Section, UrlStates
    <3> QED
      BY <1>1, <3>1, Unmarked
  <2>3. c \in {"idle", "head"} /\ Good(NewMessage(parser), c)
    BY <1>1, NewMessageIs
  <2>4. "message_complete" \in Callbacks \ DataCallbacks
    BY DEF Callbacks, DataCallbacks
  <2> HIDE DEF c
  <2> QED
    BY <1>1, <2>1, <2>2, <2>3, <2>4, NotifyIInv
<1> QED
  BY <1>2, <1>3

-----------------------------------------------------------------------------
(* Chunks.                                                                 *)

\* On to a state of a chunk's size line.
LEMMA SizeLineIInv ==
  ASSUME IInv, pc = "switch", mark = NoMarks, NEW q, IsParser(q), q.nread <= MaxHeader,
         q.state \in {"s_chunk_size", "s_chunk_parameters", "s_chunk_size_almost_done"},
         "CHUNKED" \in q.flags, q.content_length # ULLongMax, Advance(q)
  PROVE  IInv'
<1>1. Good(q, "head")
  BY DEF Good, Sane, ChunkStates
<1> QED
  BY <1>1, NoMarksType, AdvanceIInv

\* A digit the code takes leaves room for the value that means "unknown".
LEMMA LengthFits ==
  ASSUME IsParser(parser), NEW digit \in 0 .. 12, ~Overflows(16)
  PROVE  (parser.content_length * 16 + digit) % (ULLongMax + 1) # ULLongMax
<1>1. ULLongMax \in Nat /\ ULLongMax > 16 /\ parser.content_length \in Nat
  BY BoundsPositive DEF IsParser
<1>2. parser.content_length <= (ULLongMax - 16) \div 16
  BY <1>1 DEF Overflows
<1>3. parser.content_length * 16 <= ULLongMax - 16
  BY <1>1, <1>2
<1> DEFINE n == parser.content_length * 16 + digit
<1>4. n \in Nat /\ n < ULLongMax
  BY <1>1, <1>3
<1> HIDE DEF n
<1>5. n % (ULLongMax + 1) = n
  BY <1>1, <1>4
<1> QED
  BY <1>4, <1>5 DEF n

LEMMA ChunkSizeIInv ==
  ASSUME IInv, ChunkSizeStart \/ ChunkSize \/ ChunkParameters \/ ChunkSizeAlmostDone
  PROVE  IInv'
<1>1. /\ pc = "switch"
      /\ parser.state \in {"s_chunk_size_start", "s_chunk_size", "s_chunk_parameters",
                           "s_chunk_size_almost_done"}
  BY DEF ChunkSizeStart, ChunkSize, ChunkParameters, ChunkSizeAlmostDone, On
<1>2. mark = NoMarks
  <2>1. \A cb \in DataCallbacks : parser.state \notin Section(cb)
    BY <1>1 DEF Section, UrlStates
  <2> QED
    BY <1>1, <2>1, Unmarked
<1>3. /\ IsParser(parser) /\ parser.nread <= MaxHeader /\ MaxHeader \in Nat /\ "CHUNKED" \in parser.flags
      /\ parser.state # "s_chunk_size_start" => parser.content_length # ULLongMax
      /\ ULLongMax \in Nat /\ ULLongMax > 16
  BY <1>1, Turn, BoundsPositive DEF Sane, ChunkStates
<1>4. ASSUME NEW s \in {"s_chunk_size", "s_chunk_parameters", "s_chunk_size_almost_done"},
             parser.state # "s_chunk_size_start", Advance(To(s))
      PROVE  IInv'
  <2>1. /\ IsParser(To(s)) /\ To(s).state = s /\ To(s).nread = parser.nread
        /\ To(s).flags = parser.flags /\ To(s).content_length = parser.content_length
    BY <1>3, ToIs DEF Fields
  <2> QED
    BY <1>1, <1>2, <1>3, <1>4, <2>1, SizeLineIInv
<1>5. CASE ChunkSizeStart
  <2> DEFINE d == HexValue[ch]
             q == [parser EXCEPT !.content_length = d, !.state = "s_chunk_size"]
  <2>1. \/ ch \in DOMAIN HexValue /\ Advance(q)
        \/ Fail("INVALID_CHUNK_SIZE")
    BY <1>5 DEF ChunkSizeStart
  <2>2. CASE ch \in DOMAIN HexValue /\ Advance(q)
    <3>1. d \in 0 .. ULLongMax /\ d # ULLongMax
      BY <1>3, <2>2, DigitIs
    <3>2. Advance(q)
      BY <2>2
    <3> HIDE DEF d
    <3>3. /\ IsParser(q) /\ q.state = "s_chunk_size" /\ q.content_length = d /\ q.nread = parser.nread
          /\ q.flags = parser.flags
      BY <1>3, <3>1 DEF IsParser, Fields
    <3> HIDE DEF q
    <3> QED
      BY <1>1, <1>2, <1>3, <3>1, <3>2, <3>3, SizeLineIInv
  <2> QED
    BY <2>1, <2>2, FailIInv
<1>6. CASE ChunkSize
  <2> DEFINE longer == Longer(16, HexValue[ch])
  <2>1. /\ parser.state # "s_chunk_size_start"
        /\ \/ Advance(To("s_chunk_size_almost_done")) \/ Advance(To("s_chunk_parameters"))
           \/ Fail("INVALID_CONTENT_LENGTH") \/ Fail("INVALID_CHUNK_SIZE")
           \/ ch \in DOMAIN HexValue /\ ~Overflows(16) /\ Advance(longer)
    <3>1. DOMAIN HexValue = {"0", "1", "2", "9", "c"}
      BY DEF HexValue, Digit, DigitValue
    <3> HIDE DEF longer
    <3> QED
      BY <1>6, <3>1 DEF ChunkSize, On, longer
  <2>2. CASE ch \in DOMAIN HexValue /\ ~Overflows(16) /\ Advance(longer)
    <3>1. HexValue[ch] \in 0 .. 12 /\ HexValue[ch] \in Nat
      BY <2>2, DigitIs
    <3>2. /\ IsParser(longer) /\ \A f \in Fields \ {"content_length"} : longer[f] = parser[f]
          /\ longer.content_length # ULLongMax
      BY <1>3, <2>2, <3>1, LongerIs, LengthFits
    <3>3. Advance(longer)
      BY <2>2
    <3> HIDE DEF longer
    <3>4. longer.state = "s_chunk_size" /\ longer.nread = parser.nread /\ longer.flags = parser.flags
      BY <1>6, <3>2 DEF Fields, ChunkSize, On
    <3> QED
      BY <1>1, <1>2, <1>3, <3>2, <3>3, <3>4, SizeLineIInv
  <2> QED
    BY <1>4, <2>1, <2>2, FailIInv
<1>7. CASE ChunkParameters
  <2>1. /\ parser.state = "s_chunk_parameters"
        /\ (Advance(To("s_chunk_size_almost_done")) \/ Advance(parser))
    BY <1>7 DEF ChunkParameters, On
  <2> QED
    BY <1>1, <1>2, <1>3, <1>4, <2>1, SizeLineIInv
<1>8. CASE ChunkSizeAlmostDone
  <2> DEFINE last == parser.content_length = 0
             fl == IF last THEN parser.flags \cup {"TRAILING"} ELSE parser.flags
             s == IF last THEN "s_header_field_start" ELSE "s_chunk_data"
             q == [parser EXCEPT !.nread = 0, !.flags = fl, !.state = s]
  <2>1. /\ parser.state = "s_chunk_size_almost_done"
        /\ (Fail("STRICT") \/ Notify("chunk_header", q, "head", p + 1))
    BY <1>8 DEF ChunkSizeAlmostDone, On
  <2>2. /\ "CHUNKED" \in fl
        /\ \/ s = "s_header_field_start"
           \/ s = "s_chunk_data" /\ parser.content_length # 0
    BY <1>3
  <2> HIDE DEF fl, s
  <2>3. /\ IsParser(q) /\ q.nread = 0 /\ q.flags = fl /\ q.state = s
        /\ q.content_length = parser.content_length
    BY <1>3 DEF IsParser, Fields
  <2> HIDE DEF q
  <2>4. Good(q, "head")
    BY <1>3, <2>1, <2>2, <2>3 DEF Good, Sane, ChunkStates
  <2>5. "chunk_header" \in Callbacks \ DataCallbacks
    BY DEF Callbacks, DataCallbacks
  <2> QED
    BY <1>1, <1>2, <2>1, <2>4, <2>5, FailIInv, NotifyIInv
<1> QED
  BY <1>5, <1>6, <1>7, <1>8

LEMMA ChunkDataIInv == ASSUME IInv, ChunkData \/ ChunkDataAlmostDone \/ ChunkDataDone PROVE IInv'
<1>1. /\ pc = "switch"
      /\ parser.state \in {"s_chunk_data", "s_chunk_data_almost_done", "s_chunk_data_done"}
  BY DEF ChunkData, ChunkDataAlmostDone, ChunkDataDone, On
<1>2. /\ IsParser(parser) /\ parser.nread <= MaxHeader /\ MaxHeader \in Nat /\ "CHUNKED" \in parser.flags
      /\ p \in Nat /\ end \in Nat /\ 1 <= p /\ p <= end /\ mark \in [DataCallbacks -> 0 .. p]
  BY <1>1, Turn DEF Sane, ChunkStates
<1>3. CASE ChunkData
  <2> DEFINE left == parser.content_length - ToRead
             s == IF left = 0 THEN "s_chunk_data_almost_done" ELSE "s_chunk_data"
             q == [parser EXCEPT !.content_length = left, !.state = s]
  <2>1. parser.state = "s_chunk_data" /\ Goto(q, "head", p + ToRead, Marked("body")) /\ Quiet
    BY <1>3 DEF ChunkData, On
  <2>2. left \in 0 .. ULLongMax /\ left # ULLongMax
    BY <1>1, <2>1, ToReadIs
  <2>3. \/ s = "s_chunk_data_almost_done" /\ left = 0
        \/ s = "s_chunk_data" /\ left # 0
    OBVIOUS
  <2> HIDE DEF left, s
  <2>4. /\ IsParser(q) /\ q.nread = parser.nread /\ q.flags = parser.flags /\ q.state = s
        /\ q.content_length = left
    BY <1>2, <2>2 DEF IsParser, Fields
  <2> HIDE DEF q
  <2>5. Good(q, "head")
    BY <1>2, <2>2, <2>3, <2>4 DEF Good, Sane, ChunkStates
  <2>6. q.state \in Section("body")
    BY <2>3, <2>4 DEF Section
  <2> QED
    BY <1>1, <2>1, <2>5, <2>6, ReadOnIInv
<1>4. CASE ChunkDataAlmostDone
  <2>1. /\ parser.state = "s_chunk_data_almost_done"
        /\ \/ Fail("STRICT")
           \/ Deliver("body", p - 1, To("s_chunk_data_done"), "head", p + 1)
    BY <1>4 DEF ChunkDataAlmostDone, On
  <2>2. Good(To("s_chunk_data_done"), "head")
    <3>1. /\ IsParser(To("s_chunk_data_done")) /\ To("s_chunk_data_done").state = "s_chunk_data_done"
          /\ To("s_chunk_data_done").nread = parser.nread /\ To("s_chunk_data_done").flags = parser.flags
      BY <1>2, ToIs DEF Fields
    <3> QED
      BY <1>2, <3>1 DEF Good, Sane, ChunkStates
  <2>3. "body" \in DataCallbacks /\ \A o \in DataCallbacks : o # "body" => mark[o] = 0
    BY <1>1, <2>1, BodyMarked DEF Section
  <2>4. p - 1 \in p - 1 .. end /\ p + 1 \in p .. end + 1
    BY <1>2
  <2> QED
    BY <1>1, <1>2, <2>1, <2>2, <2>3, <2>4, FailIInv, DeliverIInv DEF Deliver
<1>5. CASE ChunkDataDone
  <2> DEFINE q == [parser EXCEPT !.state = "s_chunk_size_start", !.nread = 0]
  <2>1. /\ parser.state = "s_chunk_data_done"
        /\ (Fail("STRICT") \/ Notify("chunk_complete", q, "head", p + 1))
    BY <1>5 DEF ChunkDataDone, On
  <2>2. IsParser(q) /\ q.state = "s_chunk_size_start" /\ q.nread = 0 /\ q.flags = parser.flags
    BY <1>2 DEF IsParser, Fields
  <2> HIDE DEF q
  <2>3. Good(q, "head")
    BY <1>2, <2>2 DEF Good, Sane, ChunkStates
  <2>4. mark = NoMarks
    <3>1. \A cb \in DataCallbacks : parser.state \notin Section(cb)
      BY <2>1 DEF Section, UrlStates
    <3> QED
      BY <1>1, <3>1, Unmarked
  <2>5. "chunk_complete" \in Callbacks \ DataCallbacks
    BY DEF Callbacks, DataCallbacks
  <2> QED
    BY <1>1, <2>1, <2>3, <2>4, <2>5, FailIInv, NotifyIInv
<1> QED
  BY <1>3, <1>4, <1>5
-----------------------------------------------------------------------------
(* The order of the callbacks.                                             *)

Latest == IF log = <<>> THEN "none" ELSE log[Len(log)].cb

LineStates == {"s_req_http_start", "s_req_http_H", "s_req_http_HT", "s_req_http_HTT", "s_req_http_HTTP",
               "s_req_first_http_major", "s_req_http_major", "s_req_first_http_minor", "s_req_http_minor",
               "s_req_line_almost_done"}
ColonStates == {"s_header_value_discard_ws", "s_header_value_discard_ws_almost_done", "s_header_value_discard_lws"}
LwsStates == {"s_header_value_start", "s_header_value", "s_header_almost_done", "s_header_value_lws"}
SizeStates == {"s_chunk_size_start", "s_chunk_size", "s_chunk_parameters", "s_chunk_size_almost_done"}

\* The framings known in a state.
Framings == {"plain", "chunked", "trailer"}
Frames(s) ==
  IF s \in {"s_req_method", "s_req_spaces_before_url", "s_body_identity"} \cup UrlStates \cup LineStates THEN {"plain"}
  ELSE IF s = "s_headers_done" THEN {"plain", "chunked"}
  ELSE IF s \in ChunkStates THEN {"chunked"}
  ELSE IF s = "s_message_done" THEN {"plain", "trailer"}
  ELSE Framings

\* The callbacks that may have been the latest in a state in which no mark is set.
Came(s, f) ==
  IF s = "s_start_req" THEN {"none", "message_complete"}
  ELSE IF s = "s_dead" THEN {"message_complete"}
  ELSE IF s \in {"s_req_method", "s_req_spaces_before_url"} THEN {"message_begin"}
  ELSE IF s \in UrlStates \cup LineStates THEN {"url"}
  ELSE IF s \in {"s_header_field_start", "s_headers_almost_done"} THEN Messages!InHeaders(f)
  ELSE IF s \in {"s_header_field"} \cup ColonStates THEN {"header_field"}
  ELSE IF s \in LwsStates THEN {"header_value"}
  ELSE IF s = "s_headers_done" THEN {"headers_complete"}
  ELSE IF s = "s_body_identity" THEN {"headers_complete", "body"}
  ELSE IF s = "s_message_done" THEN IF f = "trailer" THEN {"chunk_complete"} ELSE {"body"}
  ELSE IF s \in SizeStates THEN {"headers_complete", "chunk_complete"}
  ELSE IF s = "s_chunk_data" THEN {"chunk_header", "body"}
  ELSE IF s \in {"s_chunk_data_almost_done", "s_chunk_data_done"} THEN {"body"}
  ELSE {}

\* l is the latest callback where the parser is q and the marks are mk.
Told(q, mk, l) ==
  /\ Framing(q.flags) \in Frames(q.state)
  /\ (\A cb \in DataCallbacks : mk[cb] = 0) => l \in Came(q.state, Framing(q.flags))
  /\ \A cb \in DataCallbacks : mk[cb] # 0 => l = cb \/ l \in Messages!Before(cb, Framing(q.flags))
  /\ q.state \in ColonStates => q.header_state \in FieldStates

OInv ==
  /\ pc \in Running => Told(parser, mark, Latest)
  /\ pc = "idle" /\ parser.errno = "OK" => Told(parser, NoMarks, Latest)
  /\ pc # "closed" => parser.errno # "INVALID_EOF_STATE"
  /\ EofExact
  /\ "last_field" \in DOMAIN request
  /\ settings = "chttp" /\ Latest = "header_field" => request.last_field # {}

\* What a step keeps: the invariant, the order, and where the glue may raise.
Ordered ==
  /\ OInv'
  /\ [Messages!Next]_(Messages!vars)
  /\ pc # "raised" /\ pc' = "raised" => Len(log') = Len(log)

Calls(l) == [i \in DOMAIN l |-> l[i].cb]

LEMMA LatestIs ==
  ASSUME log \in LogType
  PROVE  /\ Messages!last = Latest /\ Messages!vars = <<Calls(log), Framing(parser.flags)>>
         /\ Latest \in Callbacks \cup {"none"} /\ (Latest = "none" <=> log = <<>>)
         /\ Calls(log) \in Seq(Callbacks) /\ Len(Calls(log)) = Len(log)
<1> DEFINE E == [cb : Callbacks, bytes : Seq(STRING)]
           c == Calls(log)
<1>1. log \in Seq(E) /\ \A i \in 1 .. Len(log) : log[i].cb \in Callbacks
  <2>1. log \in Seq(E)
    BY DEF LogType
  <2>2. \A x \in E : x.cb \in Callbacks
    OBVIOUS
  <2> HIDE DEF E
  <2>3. \A i \in 1 .. Len(log) : log[i] \in E
    BY <2>1, ElementOfSeq
  <2> QED
    BY <2>1, <2>2, <2>3
<1>2. DOMAIN log = 1 .. Len(log) /\ Len(log) \in Nat
  BY <1>1
<1>3. c = [i \in 1 .. Len(log) |-> log[i].cb]
  BY <1>2 DEF Calls
<1>4. c \in Seq(Callbacks) /\ Len(c) = Len(log) /\ \A i \in 1 .. Len(log) : c[i] = log[i].cb
  <2> HIDE DEF c
  <2>1. c \in [1 .. Len(log) -> Callbacks]
    BY <1>1, <1>3
  <2>2. c \in Seq(Callbacks) /\ Len(c) = Len(log)
    BY <1>2, <2>1
  <2> QED
    BY <1>3, <2>2
<1>5. c = <<>> <=> log = <<>>
  <2> HIDE DEF c
  <2> QED
    BY <1>1, <1>4
<1>6. log # <<>> => Len(log) \in 1 .. Len(log)
  BY <1>1
<1>7. "none" \notin Callbacks
  BY DEF Callbacks, DataCallbacks
<1>8. Messages!last = IF c = <<>> THEN "none" ELSE c[Len(c)]
  BY DEF Messages!last, Calls
<1>9. Messages!vars = <<c, Framing(parser.flags)>>
  BY DEF Messages!vars, Calls
<1> HIDE DEF c
<1>10. Latest \in Callbacks \cup {"none"} /\ (Latest = "none" <=> log = <<>>)
  BY <1>1, <1>6, <1>7 DEF Latest
<1>11. Messages!last = Latest
  BY <1>4, <1>5, <1>6, <1>8 DEF Latest
<1> QED
  BY <1>4, <1>9, <1>10, <1>11 DEF c

\* What a callback does to the log.
LEMMA LoggedIs ==
  ASSUME log \in LogType, NEW cb \in Callbacks, NEW bytes, log' = Logged(cb, bytes)
  PROVE  /\ Latest' = cb
         /\ IF cb \in DataCallbacks /\ Latest = cb THEN Calls(log') = Calls(log) /\ Len(log') = Len(log)
            ELSE Calls(log') = Append(Calls(log), cb)
<1> DEFINE E == [cb : Callbacks, bytes : Seq(STRING)]
           n == Len(log)
<1>1. log \in Seq(E) /\ n \in Nat /\ DOMAIN log = 1 .. n /\ (log # <<>> => n \in 1 .. n)
  BY DEF LogType
<1>2. cb # "none"
  BY DEF Callbacks, DataCallbacks
<1>3. CASE cb \in DataCallbacks /\ Latest = cb
  <2>1. log # <<>> /\ log[n].cb = cb
    BY <1>2, <1>3 DEF Latest
  <2>2. log' = [log EXCEPT ![n].bytes = @ \o bytes]
    BY <1>3, <2>1 DEF Logged
  <2> DEFINE f == [log[n] EXCEPT !.bytes = @ \o bytes]
  <2>3. log' = [log EXCEPT ![n] = f]
    BY <2>2
  <2>4. f.cb = log[n].cb
    BY <1>1, <2>1
  <2> HIDE DEF f
  <2>5. DOMAIN log' = DOMAIN log /\ \A i \in DOMAIN log : log'[i] = IF i = n THEN f ELSE log[i]
    BY <2>3
  <2>6. Calls(log') = Calls(log)
    BY <2>4, <2>5 DEF Calls
  <2>7. Len(log') = n
    <3> HIDE DEF E
    <3>1. log' \in Seq(E \cup {f})
      <4>1. log \in Seq(E \cup {f}) /\ n \in 1 .. n
        BY <1>1, <2>1
      <4> QED
        BY <2>3, <4>1
    <3> QED
      BY <1>1, <2>5, <3>1
  <2>8. log' # <<>>
    BY <1>1, <2>1, <2>7
  <2>9. Latest' = cb
    <3>1. Latest' = log'[Len(log')].cb
      BY <2>8 DEF Latest
    <3>2. log'[n] = f
      BY <1>1, <2>1, <2>5
    <3> QED
      BY <2>1, <2>4, <2>7, <3>1, <3>2
  <2> QED
    BY <1>3, <2>6, <2>7, <2>9
<1>4. CASE ~(cb \in DataCallbacks /\ Latest = cb)
  <2> DEFINE e == Event(cb, bytes)
             c == Calls(log)
             d == Calls(log')
  <2>1. log' = Append(log, e)
    BY <1>4 DEF Logged, Latest
  <2>2. e.cb = cb
    BY DEF Event
  <2> HIDE DEF e, E
  <2>3. /\ log' \in Seq(E \cup {e}) /\ Len(log') = n + 1 /\ log'[n + 1] = e /\ log' # <<>>
        /\ \A i \in 1 .. n : log'[i] = log[i]
    <3>1. log \in Seq(E \cup {e})
      BY <1>1
    <3> QED
      BY <1>1, <2>1, <3>1
  <2>4. Latest' = cb
    BY <2>2, <2>3 DEF Latest
  <2>5. DOMAIN log' = 1 .. n + 1
    BY <1>1, <2>3
  <2>6. d = [i \in 1 .. n + 1 |-> log'[i].cb] /\ c = [i \in 1 .. n |-> log[i].cb]
    BY <1>1, <2>5 DEF Calls
  <2>7. c \in Seq(Callbacks) /\ Len(c) = n
    BY LatestIs
  <2> HIDE DEF c, d
  <2>8. \A i \in 1 .. n : i \in 1 .. n + 1 /\ d[i] = c[i]
    BY <1>1, <2>3, <2>6
  <2>9. n + 1 \in 1 .. n + 1 /\ d[n + 1] = cb
    BY <1>1, <2>2, <2>3, <2>6
  <2>10. d = Append(c, cb)
    <3>1. Append(c, cb) \in Seq(Callbacks) /\ Len(Append(c, cb)) = n + 1 /\ Append(c, cb)[n + 1] = cb
          /\ \A i \in 1 .. n : Append(c, cb)[i] = c[i]
      BY <2>7
    <3>2. \A i \in 1 .. n + 1 : i \in 1 .. n \/ i = n + 1
      BY <1>1
    <3>3. \A i \in 1 .. n + 1 : d[i] = Append(c, cb)[i]
      BY <2>8, <2>9, <3>1, <3>2
    <3>4. DOMAIN Append(c, cb) = 1 .. n + 1
      BY <3>1
    <3>5. Append(c, cb) = [i \in 1 .. n + 1 |-> Append(c, cb)[i]]
      <4> DEFINE a == Append(c, cb)
      <4>1. a \in Seq(Callbacks) /\ DOMAIN a = 1 .. n + 1
        BY <3>1, <3>4
      <4> HIDE DEF a
      <4>2. a = [i \in 1 .. n + 1 |-> a[i]]
        BY <4>1
      <4> QED
        BY <4>2 DEF a
    <3> DEFINE a == Append(c, cb)
    <3> HIDE DEF a
    <3>6. d = [i \in 1 .. n + 1 |-> d[i]]
      BY <2>6
    <3>7. [i \in 1 .. n + 1 |-> d[i]] = [i \in 1 .. n + 1 |-> a[i]]
      BY <3>3 DEF a
    <3> QED
      BY <3>5, <3>6, <3>7 DEF a
  <2> QED
    BY <1>4, <2>4, <2>10 DEF c, d
<1> QED
  BY <1>3, <1>4

\* What a callback does to the name of the table.
LEMMA HandleIs ==
  ASSUME "last_field" \in DOMAIN request, NEW cb, NEW bytes
  PROVE  /\ "last_field" \in DOMAIN Handle(cb, bytes)
         /\ settings = "chttp" /\ cb = "header_field" => Handle(cb, bytes).last_field # {}
BY DEF Handle, UrlCb, HeaderFieldCb, HeaderValueCb, BodyCb

\* On in the call, or out of it, with a log the state fits.
LEMMA GotoOInv ==
  ASSUME NEW q, NEW c \in {"idle"} \cup Running, NEW x, NEW mk, Goto(q, c, x, mk),
         q.errno # "INVALID_EOF_STATE",
         q.errno = "OK" => Told(q, IF c = "idle" THEN NoMarks ELSE mk, Latest'),
         "last_field" \in DOMAIN request',
         settings = "chttp" /\ Latest' = "header_field" => request'.last_field # {}
  PROVE  OInv' /\ parser' = q /\ pc' # "raised"
<1>1. settings' = settings /\ parser' = q
  BY DEF Goto, Return
<1>2. CASE q.errno # "OK" \/ c = "idle"
  <2>1. pc' = "idle"
    BY <1>2 DEF Goto, Return
  <2>2. q.errno = "OK" => Told(q, NoMarks, Latest')
    BY <1>2
  <2>3. q.errno = "OK" => Told(parser, NoMarks, Latest)'
    BY <1>1, <2>2 DEF Told
  <2> QED
    BY <1>1, <2>1, <2>3 DEF OInv, Running, EofExact
<1>3. CASE q.errno = "OK" /\ c # "idle"
  <2>1. pc' = c /\ mark' = mk /\ c \in Running
    BY <1>3 DEF Goto
  <2>2. Told(q, mk, Latest')
    BY <1>3
  <2>3. Told(parser, mark, Latest)'
    BY <1>1, <2>1, <2>2 DEF Told
  <2> QED
    BY <1>1, <2>1, <2>3 DEF OInv, Running, EofExact
<1> QED
  BY <1>2, <1>3

\* A step that makes no callback.
LEMMA QuietOrder ==
  ASSUME IInv, OInv, NEW q, NEW c \in {"idle"} \cup Running, NEW x, NEW mk, Goto(q, c, x, mk), Quiet,
         q.errno # "INVALID_EOF_STATE",
         q.errno = "OK" => Told(q, IF c = "idle" THEN NoMarks ELSE mk, Latest),
         \/ Framing(q.flags) = Framing(parser.flags)
         \/ Latest = "header_value" /\ Framing(parser.flags) = "plain" /\ Framing(q.flags) = "chunked"
  PROVE  Ordered
<1>1. log' = log /\ request' = request /\ Latest' = Latest
  BY DEF Quiet, Latest
<1>2. "last_field" \in DOMAIN request /\ (settings = "chttp" /\ Latest = "header_field" => request.last_field # {})
  BY DEF OInv
<1>3. OInv' /\ parser' = q /\ pc' # "raised"
  BY <1>1, <1>2, GotoOInv
<1>4. /\ Messages!last = Latest /\ Messages!vars = <<Calls(log), Framing(parser.flags)>>
  BY LatestIs DEF IInv
<1>5. Framing(parser.flags)' = Framing(q.flags)
  BY <1>3 DEF Framing
<1>6. [Messages!Next]_(Messages!vars)
  <2>1. CASE Framing(q.flags) = Framing(parser.flags)
    BY <1>1, <1>5, <2>1 DEF Messages!vars
  <2>2. CASE Latest = "header_value" /\ Framing(parser.flags) = "plain" /\ Framing(q.flags) = "chunked"
    BY <1>1, <1>4, <1>5, <2>2 DEF Messages!Next, Messages!SayChunked
  <2> QED
    BY <2>1, <2>2
<1> QED
  BY <1>3, <1>6 DEF Ordered

\* The framing behind a callback.
Frame(cb, q) ==
  CASE cb = "message_begin" -> Framing(q.flags) = "plain"
    [] cb = "chunk_header" -> Framing(q.flags) \in {"chunked", "trailer"}
    [] OTHER -> Framing(q.flags) = Framing(parser.flags)

\* A step that makes one.
LEMMA CallOrder ==
  ASSUME IInv, OInv, pc \in Running, NEW cb \in Callbacks, NEW bytes, log' = Logged(cb, bytes),
         NEW q, NEW c \in {"idle"} \cup Running, NEW x, NEW mk,
         \/ pc' = "raised" /\ HeaderValueRaises(cb) /\ UNCHANGED <<settings, parser, request>>
         \/ request' = Handle(cb, bytes) /\ Goto(q, c, x, mk),
         q.errno # "INVALID_EOF_STATE",
         q.errno = "OK" => Told(q, IF c = "idle" THEN NoMarks ELSE mk, cb),
         Frame(cb, q),
         (cb \in DataCallbacks /\ Latest = cb) \/ Latest \in Messages!Before(cb, Framing(parser.flags))
  PROVE  Ordered
<1>1. /\ Latest' = cb
      /\ IF cb \in DataCallbacks /\ Latest = cb THEN Calls(log') = Calls(log) /\ Len(log') = Len(log)
         ELSE Calls(log') = Append(Calls(log), cb)
  BY LoggedIs DEF IInv
<1>2. Messages!last = Latest /\ Messages!vars = <<Calls(log), Framing(parser.flags)>>
  BY LatestIs DEF IInv
<1>3. "last_field" \in DOMAIN request /\ (settings = "chttp" /\ Latest = "header_field" => request.last_field # {})
  BY DEF OInv
<1>4. CASE pc' = "raised" /\ HeaderValueRaises(cb) /\ UNCHANGED <<settings, parser, request>>
  <2>1. cb = "header_value" /\ Latest # "header_field"
    BY <1>3, <1>4 DEF HeaderValueRaises
  <2>2. Latest = cb /\ cb \in DataCallbacks
    BY <2>1 DEF Messages!Before, DataCallbacks
  <2>3. Calls(log') = Calls(log) /\ Len(log') = Len(log)
    BY <1>1, <2>2
  <2>4. Framing(parser.flags)' = Framing(parser.flags)
    BY <1>4 DEF Framing
  <2>5. UNCHANGED Messages!vars
    BY <2>3, <2>4 DEF Messages!vars, Calls
  <2>6. OInv'
    <3>1. pc' # "idle" /\ pc' # "closed" /\ pc' \notin Running /\ parser' = parser /\ request' = request
          /\ settings' = settings /\ Latest' # "header_field"
      BY <1>1, <1>4, <2>1 DEF Running
    <3>2. parser.errno = "OK"
      BY DEF IInv
    <3> QED
      BY <1>3, <3>1, <3>2 DEF OInv, EofExact
  <2> QED
    BY <2>3, <2>5, <2>6 DEF Ordered
<1>5. CASE request' = Handle(cb, bytes) /\ Goto(q, c, x, mk)
  <2>1. "last_field" \in DOMAIN request' /\ (settings = "chttp" /\ Latest' = "header_field" => request'.last_field # {})
    BY <1>1, <1>3, <1>5, HandleIs
  <2>2. OInv' /\ parser' = q /\ pc' # "raised"
    BY <1>1, <1>5, <2>1, GotoOInv
  <2>3. Framing(parser.flags)' = Framing(q.flags)
    BY <2>2 DEF Framing
  <2>4. [Messages!Next]_(Messages!vars)
    <3>1. CASE cb \in DataCallbacks /\ Latest = cb
      <4>1. Framing(q.flags) = Framing(parser.flags)
        BY <3>1 DEF Frame, DataCallbacks
      <4> QED
        BY <1>1, <2>3, <3>1, <4>1 DEF Messages!vars, Calls
    <3>2. CASE ~(cb \in DataCallbacks /\ Latest = cb)
      <4>1. Calls(log') = Append(Calls(log), cb) /\ Latest \in Messages!Before(cb, Framing(parser.flags))
        BY <1>1, <3>2
      <4>2. Messages!Call(cb)
        BY <1>2, <4>1 DEF Messages!Call, Calls
      <4>3. CASE cb = "message_begin"
        BY <2>3, <4>2, <4>3 DEF Frame, Messages!Begin, Messages!Next
      <4>4. CASE cb = "chunk_header"
        BY <2>3, <4>2, <4>4 DEF Frame, Messages!ChunkHeader, Messages!Next
      <4>5. CASE cb \notin {"message_begin", "chunk_header"}
        BY <2>3, <4>2, <4>5 DEF Frame, Messages!Other, Messages!Next, Callbacks, DataCallbacks
      <4> QED
        BY <4>3, <4>4, <4>5
    <3> QED
      BY <3>1, <3>2
  <2> QED
    BY <2>2, <2>4 DEF Ordered
<1> QED
  BY <1>4, <1>5

\* CALLBACK_NOTIFY_ and its like, with the error of a callback that refuses.
LEMMA CallbackOrder ==
  ASSUME IInv, OInv, pc \in Running, NEW cb \in Callbacks, NEW bytes,
         NEW q, NEW c \in {"idle"} \cup Running, NEW x, NEW mk, Callback(cb, bytes, q, c, x, mk),
         IsParser(q), q.errno # "INVALID_EOF_STATE",
         q.errno = "OK" => Told(q, IF c = "idle" THEN NoMarks ELSE mk, cb),
         Frame(cb, q),
         (cb \in DataCallbacks /\ Latest = cb) \/ Latest \in Messages!Before(cb, Framing(parser.flags))
  PROVE  Ordered
<1>1. log' = Logged(cb, bytes)
  BY DEF Callback
<1>2. CASE HeaderValueRaises(cb)
  <2>1. pc' = "raised" /\ UNCHANGED <<settings, parser, request>>
    BY <1>2 DEF Callback
  <2> QED
    BY <1>1, <1>2, <2>1, CallOrder
<1>3. CASE ~HeaderValueRaises(cb) /\ Refuses(cb)
  <2> DEFINE e == CallbackError[cb]
             r == [q EXCEPT !.errno = e]
  <2>1. request' = Handle(cb, bytes) /\ Return(r)
    BY <1>3 DEF Callback
  <2>2. e \in {"CB_chunk_header", "CB_chunk_complete"}
    BY <1>3 DEF Refuses, CallbackError
  <2> HIDE DEF e
  <2>3. r.errno = e /\ r.flags = q.flags
    BY DEF IsParser, Fields
  <2> HIDE DEF r
  <2>4. Goto(r, c, x, mk) /\ Frame(cb, r)
    BY <2>1, <2>2, <2>3 DEF Goto, Frame
  <2> QED
    BY <1>1, <2>1, <2>2, <2>3, <2>4, CallOrder
<1>4. CASE ~HeaderValueRaises(cb) /\ ~Refuses(cb)
  BY <1>1, <1>4, CallOrder DEF Callback
<1> QED
  BY <1>2, <1>3, <1>4

\* What is known of the latest callback when a byte is in turn.
LEMMA ToldTurn ==
  ASSUME IInv, OInv, pc \in Running
  PROVE  /\ Told(parser, mark, Latest) /\ parser.errno = "OK" /\ IsParser(parser)
         /\ Framing(parser.flags) \in Frames(parser.state)
         /\ mark = NoMarks => Latest \in Came(parser.state, Framing(parser.flags))
BY DEF OInv, IInv, Told, NoMarks

LEMMA FailOrder ==
  ASSUME IInv, OInv, NEW e, e # "OK", e # "INVALID_EOF_STATE", Fail(e)
  PROVE  Ordered
<1> DEFINE q == [parser EXCEPT !.errno = e]
<1>1. Return(q) /\ Quiet
  BY DEF Fail
<1>2. q.errno = e /\ q.flags = parser.flags
  BY DEF IInv, IsParser, Fields
<1> HIDE DEF q
<1>3. Goto(q, "idle", p, mark)
  BY <1>1 DEF Goto
<1> QED
  BY <1>1, <1>2, <1>3, QuietOrder

\* On from a state without marks to one in which the latest callback fits too.
LEMMA MoveOrder ==
  ASSUME IInv, OInv, pc = "switch", mark = NoMarks, NEW q, Advance(q) \/ Reexecute(q),
         q.errno = "OK", q.flags = parser.flags, Framing(q.flags) \in Frames(q.state),
         Latest \in Came(q.state, Framing(q.flags)), q.state \in ColonStates => q.header_state \in FieldStates
  PROVE  Ordered
<1>1. Told(q, mark, Latest)
  BY DEF Told, NoMarks
<1>2. PICK c \in {"head", "switch"}, x \in {p, p + 1} : Goto(q, c, x, mark) /\ Quiet
  BY DEF Advance, Reexecute
<1> QED
  BY <1>1, <1>2, QuietOrder DEF Running

LEMMA StayOrder ==
  ASSUME IInv, OInv, pc = "switch", Advance(parser) \/ Reexecute(parser)
  PROVE  Ordered
<1>1. PICK c \in {"head", "switch"}, x \in {p, p + 1} : Goto(parser, c, x, mark) /\ Quiet
  BY DEF Advance, Reexecute
<1>2. Told(parser, mark, Latest) /\ parser.errno = "OK"
  BY ToldTurn DEF Running
<1> QED
  BY <1>1, <1>2, QuietOrder DEF Running

LEMMA MoveToOrder ==
  ASSUME IInv, OInv, pc = "switch", mark = NoMarks, NEW s, Advance(To(s)) \/ Reexecute(To(s)),
         Framing(parser.flags) \in Frames(s), Latest \in Came(s, Framing(parser.flags)),
         s \in ColonStates => parser.header_state \in FieldStates
  PROVE  Ordered
<1>1. IsParser(parser) /\ parser.errno = "OK"
  BY ToldTurn DEF Running
<1>2. To(s).state = s /\ To(s).flags = parser.flags /\ To(s).errno = "OK" /\ To(s).header_state = parser.header_state
  BY <1>1, ToIs DEF Fields
<1> QED
  BY <1>2, MoveOrder

\* On with the mark of a callback that may be next.
LEMMA MarkingOrder ==
  ASSUME IInv, OInv, pc = "switch", mark = NoMarks, NEW cb \in DataCallbacks, NEW q, AdvanceMarking(cb, q),
         q.errno = "OK", Framing(q.flags) = Framing(parser.flags), Framing(q.flags) \in Frames(q.state),
         q.state \notin ColonStates,
         Latest = cb \/ Latest \in Messages!Before(cb, Framing(parser.flags))
  PROVE  Ordered
<1>1. p \in Nat /\ 1 <= p
  BY Turn
<1>2. Marked(cb)[cb] # 0 /\ \A o \in DataCallbacks : o # cb => Marked(cb)[o] = 0
  BY <1>1 DEF Marked, NoMarks
<1>3. Told(q, Marked(cb), Latest)
  BY <1>2 DEF Told
<1>4. Goto(q, "head", p + 1, Marked(cb)) /\ Quiet
  BY DEF AdvanceMarking
<1> QED
  BY <1>3, <1>4, QuietOrder DEF Running

LEMMA NotifyOrder ==
  ASSUME IInv, OInv, pc = "switch", mark = NoMarks, NEW cb \in Callbacks \ DataCallbacks,
         NEW q, NEW c \in {"idle", "head", "switch"}, NEW x, Notify(cb, q, c, x),
         IsParser(q), q.errno = "OK", Framing(q.flags) \in Frames(q.state), cb \in Came(q.state, Framing(q.flags)),
         q.state \notin ColonStates, Frame(cb, q), Latest \in Messages!Before(cb, Framing(parser.flags))
  PROVE  Ordered
<1>1. Told(q, NoMarks, cb)
  BY DEF Told, NoMarks
<1>2. Callback(cb, <<>>, q, c, x, mark)
  BY DEF Notify
<1> QED
  BY <1>1, <1>2, CallbackOrder DEF Running

\* A section ends: what was marked of it is reported, the rest was before.
LEMMA DeliverOrder ==
  ASSUME IInv, OInv, pc \in {"switch", "loop"}, NEW cb \in DataCallbacks,
         NEW mk \in [DataCallbacks -> 0 .. p], \A o \in DataCallbacks : o # cb => mk[o] = 0,
         NEW upto, NEW q, NEW c \in {"head", "switch"}, NEW x, DeliverMarked(mk, cb, upto, q, c, x),
         IsParser(q), q.errno # "INVALID_EOF_STATE",
         q.errno = "OK" => /\ Framing(q.flags) \in Frames(q.state)
                           /\ cb \in Came(q.state, Framing(q.flags))
                           /\ q.state \in ColonStates => q.header_state \in FieldStates,
         Framing(q.flags) = Framing(parser.flags),
         Latest = cb \/ (mk[cb] # 0 /\ Latest \in Messages!Before(cb, Framing(parser.flags)))
  PROVE  Ordered
<1>1. ASSUME NEW m, \A o \in DataCallbacks : m[o] = 0 PROVE q.errno = "OK" => Told(q, m, cb)
  BY <1>1 DEF Told
<1>2. CASE mk[cb] = 0
  <2>1. Goto(q, c, x, mk) /\ Quiet /\ Latest = cb
    BY <1>2 DEF DeliverMarked
  <2>2. q.errno = "OK" => Told(q, mk, cb)
    BY <1>1, <1>2
  <2> QED
    BY <2>1, <2>2, QuietOrder DEF Running
<1>3. CASE mk[cb] # 0
  <2> DEFINE m == [mk EXCEPT ![cb] = 0]
             bytes == SubSeq(data, mk[cb], upto)
  <2>1. Callback(cb, bytes, q, c, x, m)
    BY <1>3 DEF DeliverMarked
  <2>2. \A o \in DataCallbacks : m[o] = 0
    OBVIOUS
  <2> HIDE DEF m, bytes
  <2>3. q.errno = "OK" => Told(q, m, cb)
    BY <1>1, <2>2
  <2>4. cb \in Callbacks /\ Frame(cb, q)
    BY DEF Callbacks, Frame, DataCallbacks
  <2> QED
    BY <1>3, <2>1, <2>3, <2>4, CallbackOrder DEF Running
<1> QED
  BY <1>2, <1>3

\* In a section its callback was the latest, or may be the next.
LEMMA SectionTold ==
  ASSUME IInv, OInv, pc \in {"switch", "loop"}, NEW cb \in DataCallbacks, parser.state \in Section(cb),
         Came(parser.state, Framing(parser.flags)) = {cb}
  PROVE  /\ Latest = cb \/ (mark[cb] # 0 /\ Latest \in Messages!Before(cb, Framing(parser.flags)))
         /\ mark \in [DataCallbacks -> 0 .. p] /\ \A o \in DataCallbacks : o # cb => mark[o] = 0
<1>1. mark \in [DataCallbacks -> 0 .. p] /\ MarksFit(parser.state, mark) /\ Told(parser, mark, Latest)
  BY Turn, ToldTurn DEF Running
<1>2. \A o \in DataCallbacks : o # cb => mark[o] = 0
  BY <1>1, OneMark
<1> QED
  BY <1>1, <1>2 DEF Told

\* The states' tables, state by state.
LEMMA StartIs ==
  \A f :
    /\ Frames("s_start_req") = Framings /\ Came("s_start_req", f) = {"none", "message_complete"}
    /\ Frames("s_dead") = Framings /\ Came("s_dead", f) = {"message_complete"}
    /\ \A s \in {"s_req_method", "s_req_spaces_before_url"} : Frames(s) = {"plain"} /\ Came(s, f) = {"message_begin"}
BY DEF Frames, Came, UrlStates, LineStates, ChunkStates, Framings

LEMMA LineIs ==
  \A s \in UrlStates \cup LineStates : \A f : Frames(s) = {"plain"} /\ Came(s, f) = {"url"} /\ s \notin ColonStates
<1> TAKE s \in UrlStates \cup LineStates
<1>1. s \notin {"s_start_req", "s_dead", "s_req_method", "s_req_spaces_before_url"} \cup ColonStates
  BY DEF UrlStates, LineStates, ColonStates
<1>2. Frames(s) = {"plain"}
  BY DEF Frames
<1> HIDE DEF UrlStates, LineStates
<1>3. \A f : Came(s, f) = {"url"}
  BY <1>1 DEF Came
<1> QED
  BY <1>1, <1>2, <1>3

LEMMA HeaderIs ==
  \A f :
    /\ \A s \in {"s_header_field_start", "s_headers_almost_done"} :
         Frames(s) = Framings /\ Came(s, f) = Messages!InHeaders(f) /\ s \notin ColonStates
    /\ Frames("s_header_field") = Framings /\ Came("s_header_field", f) = {"header_field"}
    /\ \A s \in ColonStates : Frames(s) = Framings /\ Came(s, f) = {"header_field"}
    /\ \A s \in LwsStates : Frames(s) = Framings /\ Came(s, f) = {"header_value"} /\ s \notin ColonStates
<1> TAKE f
<1>1. ASSUME NEW s \in {"s_header_field_start", "s_headers_almost_done"}
      PROVE  Frames(s) = Framings /\ Came(s, f) = Messages!InHeaders(f) /\ s \notin ColonStates
  BY DEF Frames, Came, UrlStates, LineStates, ChunkStates, ColonStates, Framings
<1>2. Frames("s_header_field") = Framings /\ Came("s_header_field", f) = {"header_field"}
  BY DEF Frames, Came, UrlStates, LineStates, ChunkStates, ColonStates, Framings
<1>3. ASSUME NEW s \in ColonStates PROVE Frames(s) = Framings /\ Came(s, f) = {"header_field"}
  BY DEF Frames, Came, UrlStates, LineStates, ChunkStates, ColonStates, Framings
<1>4. ASSUME NEW s \in LwsStates PROVE Frames(s) = Framings /\ Came(s, f) = {"header_value"} /\ s \notin ColonStates
  BY DEF Frames, Came, UrlStates, LineStates, ChunkStates, ColonStates, LwsStates, Framings
<1> QED
  BY <1>1, <1>2, <1>3, <1>4

LEMMA BodyIs ==
  \A f :
    /\ Frames("s_headers_done") = {"plain", "chunked"} /\ Came("s_headers_done", f) = {"headers_complete"}
    /\ Frames("s_body_identity") = {"plain"} /\ Came("s_body_identity", f) = {"headers_complete", "body"}
    /\ Frames("s_message_done") = {"plain", "trailer"}
    /\ Came("s_message_done", f) = IF f = "trailer" THEN {"chunk_complete"} ELSE {"body"}
    /\ \A s \in SizeStates : Frames(s) = {"chunked"} /\ Came(s, f) = {"headers_complete", "chunk_complete"}
    /\ Frames("s_chunk_data") = {"chunked"} /\ Came("s_chunk_data", f) = {"chunk_header", "body"}
    /\ \A s \in {"s_chunk_data_almost_done", "s_chunk_data_done"} : Frames(s) = {"chunked"} /\ Came(s, f) = {"body"}
BY DEF Frames, Came, UrlStates, LineStates, ChunkStates, ColonStates, LwsStates, SizeStates

LEMMA ChunkBeginIs ==
  /\ Frames("s_chunk_size_start") = {"chunked"}
  /\ \A f : Came("s_chunk_size_start", f) = {"headers_complete", "chunk_complete"}
<1>1. "s_chunk_size_start" \in SizeStates
  BY DEF SizeStates
<1> QED
  BY <1>1, BodyIs

LEMMA FramingIs == \A fl : Framing(fl) \in Framings
BY DEF Framing, Framings

LEMMA MethodOrder == ASSUME IInv, OInv, Dead \/ StartReq \/ ReqMethod \/ SpacesBeforeUrl PROVE Ordered
<1>1. pc = "switch" /\ parser.state \in {"s_dead", "s_start_req", "s_req_method", "s_req_spaces_before_url"}
  BY DEF Dead, StartReq, ReqMethod, SpacesBeforeUrl, On
<1>2. mark = NoMarks
  <2>1. \A cb \in DataCallbacks : parser.state \notin Section(cb)
    BY <1>1 DEF Section, UrlStates
  <2> QED
    BY <1>1, <2>1, Unmarked
<1> DEFINE f == Framing(parser.flags)
<1>3. /\ IsParser(parser) /\ parser.errno = "OK" /\ f \in Framings
      /\ f \in Frames(parser.state) /\ Latest \in Came(parser.state, f)
  BY <1>1, <1>2, ToldTurn, FramingIs DEF Running
<1> HIDE DEF f
<1>4. CASE Dead
  BY <1>1, <1>4, StayOrder, FailOrder DEF Dead
<1>5. CASE StartReq
  <2>1. CASE Advance(parser) \/ Fail("INVALID_METHOD")
    BY <1>1, <2>1, StayOrder, FailOrder
  <2>2. ASSUME NEW m,
               Notify("message_begin",
                  [parser EXCEPT !.state = "s_req_method", !.flags = {}, !.content_length = ULLongMax,
                                 !.method = m, !.index = 1], "head", p + 1),
               m \in DOMAIN MethodString
        PROVE  Ordered
    <3> DEFINE q == [parser EXCEPT !.state = "s_req_method", !.flags = {}, !.content_length = ULLongMax,
                                   !.method = m, !.index = 1]
    <3>1. ULLongMax \in 0 .. ULLongMax
      BY BoundsPositive
    <3>2. IsParser(q) /\ q.state = "s_req_method" /\ q.flags = {} /\ q.errno = "OK"
      BY <1>3, <2>2, <3>1 DEF IsParser, Fields
    <3>3. Notify("message_begin", q, "head", p + 1)
      BY <2>2
    <3> HIDE DEF q
    <3>4. Framing(q.flags) = "plain" /\ q.state \notin ColonStates
      BY <3>2 DEF Framing, ColonStates
    <3>5. parser.state = "s_start_req"
      BY <1>5 DEF StartReq, On
    <3>6. Latest \in Messages!Before("message_begin", f)
      BY <1>3, <3>5, StartIs DEF Messages!Before
    <3>7. "message_begin" \in Callbacks \ DataCallbacks /\ Frame("message_begin", q)
      BY <3>4 DEF Callbacks, DataCallbacks, Frame
    <3>8. Framing(q.flags) \in Frames(q.state) /\ "message_begin" \in Came(q.state, Framing(q.flags))
      BY <3>2, <3>4, StartIs
    <3> QED
      BY <1>1, <1>2, <3>2, <3>3, <3>4, <3>6, <3>7, <3>8, NotifyOrder DEF f
  <2>3. \A c \in DOMAIN FirstLetter : FirstLetter[c] \in DOMAIN MethodString
    BY DEF FirstLetter, MethodString
  <2> QED
    BY <1>5, <2>1, <2>2, <2>3 DEF StartReq
<1>6. CASE ReqMethod
  <2> DEFINE next == [parser EXCEPT !.index = parser.index + 1]
             other == {r \in Rewrites : r[1] = parser.method /\ r[2] = parser.index /\ r[3] = ch}
             m == (CHOOSE r \in other : TRUE)[4]
  <2>1. \/ Advance([next EXCEPT !.state = "s_req_spaces_before_url"])
        \/ Advance(next)
        \/ Advance([next EXCEPT !.method = m])
        \/ Fail("INVALID_METHOD")
    BY <1>6 DEF ReqMethod
  <2>2. parser.state = "s_req_method"
    BY <1>6 DEF ReqMethod, On
  <2> HIDE DEF other, m
  <2>3. ASSUME NEW q, Advance(q), q.flags = parser.flags, q.errno = "OK",
               q.state \in {"s_req_method", "s_req_spaces_before_url"}
        PROVE  Ordered
    <3>1. f \in Frames(q.state) /\ Latest \in Came(q.state, f) /\ q.state \notin ColonStates
      BY <1>3, <2>2, <2>3, StartIs DEF ColonStates
    <3> QED
      BY <1>1, <1>2, <2>3, <3>1, MoveOrder DEF f
  <2>4. /\ next.flags = parser.flags /\ next.errno = "OK" /\ next.state = "s_req_method"
        /\ DOMAIN next = Fields
    BY <1>3, <2>2 DEF IsParser, Fields
  <2> HIDE DEF next
  <2>5. ASSUME NEW q \in {[next EXCEPT !.state = "s_req_spaces_before_url"], next, [next EXCEPT !.method = m]}
        PROVE  q.flags = parser.flags /\ q.errno = "OK" /\ q.state \in {"s_req_method", "s_req_spaces_before_url"}
    BY <2>4, <2>5 DEF Fields
  <2> QED
    BY <2>1, <2>3, <2>5, FailOrder
<1>7. CASE SpacesBeforeUrl
  <2>1. PICK s : /\ s \in UrlStates \cup {"s_dead"}
                 /\ \/ Advance(parser)
                    \/ Fail("INVALID_URL")
                    \/ s # "s_dead" /\ AdvanceMarking("url", To(s))
    <3> DEFINE s == UrlNext(IF parser.method = "CONNECT" THEN "s_req_server_start" ELSE parser.state, ch)
    <3>1. s \in UrlStates \cup {"s_dead"}
      BY UrlStatesAre
    <3>2. \/ Advance(parser)
          \/ Fail("INVALID_URL")
          \/ s # "s_dead" /\ AdvanceMarking("url", To(s))
      BY <1>7 DEF SpacesBeforeUrl
    <3> QED
      BY <3>1, <3>2
  <2>2. CASE Advance(parser) \/ Fail("INVALID_URL")
    BY <1>1, <2>2, StayOrder, FailOrder
  <2>3. CASE s # "s_dead" /\ AdvanceMarking("url", To(s))
    <3>1. To(s).state = s /\ To(s).flags = parser.flags /\ To(s).errno = "OK"
      BY <1>3, ToIs DEF Fields
    <3>2. s \in UrlStates /\ parser.state = "s_req_spaces_before_url"
      BY <1>7, <2>1, <2>3 DEF SpacesBeforeUrl, On
    <3>3. f = "plain" /\ Latest = "message_begin"
      BY <1>3, <3>2, StartIs
    <3>4. f \in Frames(s) /\ s \notin ColonStates /\ "url" \in DataCallbacks
      BY <3>2, <3>3, LineIs DEF DataCallbacks
    <3>5. Latest \in Messages!Before("url", f)
      BY <3>3 DEF Messages!Before
    <3> QED
      BY <1>1, <1>2, <2>3, <3>1, <3>4, <3>5, MarkingOrder DEF f
  <2> QED
    BY <2>1, <2>2, <2>3
<1> QED
  BY <1>4, <1>5, <1>6, <1>7

\* Between calls nothing is marked; a call marks the section it goes on with.
LEMMA ExecuteOrder == ASSUME IInv, OInv, \E n \in 1 .. Unread : pc = "idle" /\ Execute(n) PROVE Ordered
<1>1. PICK n \in 1 .. Unread : pc = "idle" /\ Execute(n)
  OBVIOUS
<1>2. /\ parser' = parser /\ settings' = settings /\ log' = log /\ request' = request /\ Latest' = Latest
      /\ parser.errno = "OK" => Told(parser, NoMarks, Latest)
  BY <1>1 DEF Execute, Quiet, Latest, OInv
<1>3. UNCHANGED Messages!vars
  BY <1>2 DEF Messages!vars, Framing
<1>4. CASE parser.errno # "OK"
  <2>1. pc' = "idle"
    BY <1>1, <1>4 DEF Execute
  <2> QED
    BY <1>2, <1>3, <1>4, <2>1 DEF Ordered, OInv, EofExact, Running
<1>5. CASE parser.errno = "OK"
  <2>1. pc' = "head" /\ mark' = MarkAtStart(parser.state)
    BY <1>1, <1>5 DEF Execute
  <2> DEFINE f == Framing(parser.flags)
             s == parser.state
             m == MarkAtStart(s)
  <2>2. Told(parser, NoMarks, Latest)
    BY <1>2, <1>5
  <2>3. f \in Frames(s) /\ (s \in ColonStates => parser.header_state \in FieldStates) /\ Latest \in Came(s, f)
    BY <2>2 DEF Told, NoMarks
  <2>4. \A cb \in DataCallbacks : m[cb] # 0 => Came(s, f) = {cb}
    <3>1. \/ m = NoMarks
          \/ m = [NoMarks EXCEPT !["url"] = p] /\ s \in UrlStates
          \/ m = [NoMarks EXCEPT !["header_field"] = p] /\ s = "s_header_field"
          \/ m = [NoMarks EXCEPT !["header_value"] = p] /\ s = "s_header_value"
      BY DEF MarkAtStart
    <3>2. "s_header_value" \in LwsStates
      BY DEF LwsStates
    <3> HIDE DEF m, s, f
    <3>3. \A cb \in DataCallbacks :
            m[cb] # 0 => \/ cb = "url" /\ s \in UrlStates
                         \/ cb = "header_field" /\ s = "s_header_field"
                         \/ cb = "header_value" /\ s = "s_header_value"
      BY <3>1 DEF NoMarks, DataCallbacks
    <3> QED
      BY <3>2, <3>3, LineIs, HeaderIs
  <2> HIDE DEF m
  <2>5. Told(parser, m, Latest)
    BY <2>3, <2>4 DEF Told
  <2>6. Told(parser, mark, Latest)'
    BY <1>2, <2>1, <2>5 DEF Told, m
  <2> QED
    BY <1>2, <1>3, <1>5, <2>1, <2>6 DEF Ordered, OInv, EofExact, Running
<1> QED
  BY <1>4, <1>5

\* The state in which a connection ends tells whether a request is under way.
LEMMA EofOrder == ASSUME IInv, OInv, ExecuteEof PROVE Ordered
<1>1. /\ pc = "idle" /\ pc' = "closed" /\ settings' = settings /\ log' = log /\ request' = request
      /\ Latest' = Latest
  BY DEF ExecuteEof, Quiet, Latest
<1>2. Latest = "none" <=> log = <<>>
  BY LatestIs DEF IInv
<1>3. log # <<>> => Latest = log[Len(log)].cb
  BY DEF Latest
<1> DEFINE over == Latest \in {"none", "message_complete"}
<1>4. parser'.flags = parser.flags /\ (parser'.errno \in {"OK", "INVALID_EOF_STATE"} => (parser'.errno = "OK" <=> over))
  <2>1. IsParser(parser) /\ parser.errno # "INVALID_EOF_STATE"
    BY <1>1 DEF IInv, OInv
  <2>2. CASE parser.errno # "OK"
    BY <2>1, <2>2 DEF ExecuteEof
  <2>3. CASE parser.errno = "OK"
    <3>1. Latest \in Came(parser.state, Framing(parser.flags))
      BY <1>1, <2>3 DEF OInv, Told, NoMarks
    <3>2. CASE parser.state \in {"s_dead", "s_start_req"}
      <4>1. parser' = parser
        BY <3>2 DEF ExecuteEof
      <4> QED
        BY <2>3, <3>1, <3>2, <4>1, StartIs
    <3>3. CASE parser.state \notin {"s_dead", "s_start_req"}
      <4>1. parser' = [parser EXCEPT !.errno = "INVALID_EOF_STATE"]
        BY <2>3, <3>3 DEF ExecuteEof
      <4>2. parser'.errno = "INVALID_EOF_STATE" /\ parser'.flags = parser.flags
        BY <2>1, <4>1 DEF IsParser, Fields
      <4>3. ~over
        BY <3>1, <3>3 DEF Came, Messages!InHeaders
      <4> QED
        BY <4>2, <4>3
    <3> QED
      BY <3>2, <3>3
  <2> QED
    BY <2>2, <2>3
<1>5. UNCHANGED Messages!vars
  BY <1>1, <1>4 DEF Messages!vars, Framing
<1>6. EofExact'
  BY <1>1, <1>2, <1>3, <1>4 DEF EofExact
<1> QED
  BY <1>1, <1>5, <1>6 DEF Ordered, OInv, Running

LEMMA HeadOrder == ASSUME IInv, OInv, LoopHead \/ EndOfData \/ \E cb \in DataCallbacks : Leftover(cb) PROVE Ordered
<1>1. pc = "head" /\ Told(parser, mark, Latest) /\ parser.errno = "OK" /\ IsParser(parser)
  BY ToldTurn DEF LoopHead, EndOfData, Leftover, Running
<1>2. CASE LoopHead
  <2>1. CASE ParsingHeader /\ Over(1)
    BY <1>2, <2>1, FailOrder DEF LoopHead
  <2>2. CASE ~(ParsingHeader /\ Over(1))
    <3> DEFINE q == IF ParsingHeader THEN Counted(1) ELSE parser
    <3>1. Goto(q, "switch", p, mark) /\ Quiet
      BY <1>2, <2>2 DEF LoopHead, Reexecute
    <3>2. q.errno = "OK" /\ q.flags = parser.flags /\ q.state = parser.state /\ q.header_state = parser.header_state
      BY <1>1 DEF Counted, IsParser, Fields
    <3> HIDE DEF q
    <3>3. Told(q, mark, Latest)
      BY <1>1, <3>2 DEF Told
    <3> QED
      BY <3>1, <3>2, <3>3, QuietOrder DEF Running
  <2> QED
    BY <2>1, <2>2
<1>3. CASE EndOfData
  <2>1. Goto(parser, "idle", p, mark) /\ Quiet
    BY <1>3 DEF EndOfData, Goto
  <2>2. Told(parser, NoMarks, Latest)
    BY <1>1, <1>3 DEF EndOfData
  <2> QED
    BY <1>1, <2>1, <2>2, QuietOrder
<1>4. ASSUME NEW cb \in DataCallbacks, Leftover(cb) PROVE Ordered
  <2> DEFINE bytes == SubSeq(data, mark[cb], end)
             m == [mark EXCEPT ![cb] = 0]
  <2>1. /\ log' = Logged(cb, bytes) /\ mark[cb] # 0
        /\ \/ pc' = "raised" /\ HeaderValueRaises(cb) /\ UNCHANGED <<settings, parser, request>>
           \/ request' = Handle(cb, bytes) /\ Goto(parser, "head", p, m)
    BY <1>4 DEF Leftover
  <2>2. \A o \in DataCallbacks : o # cb => mark[o] = 0
    <3>1. MarksFit(parser.state, mark) /\ mark \in [DataCallbacks -> 0 .. p]
      BY <1>1 DEF IInv, Placed, Running
    <3> QED
      BY <2>1, <3>1, OneMark DEF MarksFit
  <2>3. \A o \in DataCallbacks : m[o] = 0
    <3>1. mark \in [DataCallbacks -> 0 .. p]
      BY DEF IInv
    <3> QED
      BY <2>2, <3>1
  <2> HIDE DEF bytes, m
  <2>4. Latest = cb \/ Latest \in Messages!Before(cb, Framing(parser.flags))
    BY <1>1, <2>1 DEF Told
  <2>5. cb \in Came(parser.state, Framing(parser.flags))
    <3>1. parser.state \in Section(cb)
      BY <1>1, <2>1 DEF IInv, Placed, MarksFit, Running
    <3> QED
      BY <3>1, LineIs, HeaderIs, BodyIs DEF Section, DataCallbacks, LwsStates
  <2>6. Told(parser, m, cb)
    BY <1>1, <2>3, <2>5 DEF Told
  <2>7. cb \in Callbacks /\ Frame(cb, parser)
    BY DEF Callbacks, DataCallbacks, Frame
  <2> QED
    BY <1>1, <2>1, <2>4, <2>6, <2>7, CallOrder DEF Running
<1> QED
  BY <1>2, <1>3, <1>4

LEMMA UrlOrder == ASSUME IInv, OInv, Url PROVE Ordered
<1> DEFINE f == Framing(parser.flags)
<1>1. pc = "switch" /\ parser.state \in UrlStates /\ "url" \in DataCallbacks
  BY DEF Url, DataCallbacks
<1>2. IsParser(parser) /\ parser.errno = "OK" /\ f = "plain" /\ Came(parser.state, f) = {"url"}
      /\ Told(parser, mark, Latest)
  BY <1>1, ToldTurn, LineIs DEF Running
<1>3. /\ Latest = "url" \/ (mark["url"] # 0 /\ Latest \in Messages!Before("url", f))
      /\ mark \in [DataCallbacks -> 0 .. p] /\ \A o \in DataCallbacks : o # "url" => mark[o] = 0
  BY <1>1, <1>2, SectionTold DEF Section
<1> HIDE DEF f
<1>4. ASSUME NEW q, IsParser(q), q.errno = "OK", q.flags = parser.flags, Deliver("url", p - 1, q, "head", p + 1),
             q.state \in {"s_req_http_start", "s_req_line_almost_done", "s_header_field_start"}
      PROVE  Ordered
  <2>1. f \in Frames(q.state) /\ "url" \in Came(q.state, f) /\ q.state \notin ColonStates
    <3>1. CASE q.state = "s_header_field_start"
      BY <1>2, <3>1, HeaderIs DEF Framings, Messages!InHeaders
    <3>2. CASE q.state # "s_header_field_start"
      <4>1. q.state \in LineStates
        BY <1>4, <3>2 DEF LineStates
      <4> QED
        BY <1>2, <4>1, LineIs
    <3> QED
      BY <3>1, <3>2
  <2>2. DeliverMarked(mark, "url", p - 1, q, "head", p + 1)
    BY <1>4 DEF Deliver
  <2> QED
    BY <1>1, <1>3, <1>4, <2>1, <2>2, DeliverOrder DEF f
<1>5. CASE Deliver("url", p - 1, To("s_req_http_start"), "head", p + 1)
  <2> DEFINE q == To("s_req_http_start")
  <2>1. IsParser(q) /\ q.state = "s_req_http_start" /\ q.errno = "OK" /\ q.flags = parser.flags
    BY <1>2, ToIs DEF Fields
  <2> QED
    BY <1>4, <1>5, <2>1
<1>6. ASSUME NEW s \in {"s_req_line_almost_done", "s_header_field_start"},
             Deliver("url", p - 1, [parser EXCEPT !.http_major = 0, !.http_minor = 9, !.state = s], "head", p + 1)
      PROVE  Ordered
  <2> DEFINE q == [parser EXCEPT !.http_major = 0, !.http_minor = 9, !.state = s]
  <2>1. 0 \in 0 .. MaxVersion /\ 9 \in 0 .. MaxVersion
    BY BoundsPositive
  <2>2. IsParser(q) /\ q.state = s /\ q.errno = "OK" /\ q.flags = parser.flags
    BY <1>2, <2>1 DEF IsParser, Fields
  <2>3. Deliver("url", p - 1, q, "head", p + 1)
    BY <1>6
  <2> HIDE DEF q
  <2> QED
    BY <1>4, <2>2, <2>3
<1>7. ASSUME NEW s \in UrlStates, Advance(To(s)) PROVE Ordered
  <2> DEFINE q == To(s)
  <2>1. q.state = s /\ q.errno = "OK" /\ q.flags = parser.flags
    BY <1>2, ToIs DEF Fields
  <2>2. Goto(q, "head", p + 1, mark) /\ Quiet
    BY <1>7 DEF Advance
  <2> HIDE DEF q
  <2>3. f \in Frames(s) /\ Came(s, f) = {"url"} /\ s \notin ColonStates
    BY <1>2, LineIs
  <2>4. Told(q, mark, Latest)
    BY <1>2, <2>1, <2>3 DEF Told, f
  <2> QED
    BY <2>1, <2>2, <2>4, QuietOrder DEF Running
<1>8. UrlNext(parser.state, ch) \in UrlStates \cup {"s_dead"}
  BY UrlStatesAre
<1>9. \/ Deliver("url", p - 1, To("s_req_http_start"), "head", p + 1)
      \/ \E s \in {"s_req_line_almost_done", "s_header_field_start"} :
           Deliver("url", p - 1, [parser EXCEPT !.http_major = 0, !.http_minor = 9, !.state = s], "head", p + 1)
      \/ Fail("INVALID_URL")
      \/ \E s \in UrlStates : Advance(To(s))
  BY <1>8 DEF Url
<1> QED
  BY <1>5, <1>6, <1>7, <1>9, FailOrder

LEMMA VersionOrder ==
  ASSUME IInv, OInv, HttpStart \/ HttpLiteral \/ FirstMajor \/ Major \/ FirstMinor \/ Minor \/ LineAlmostDone
  PROVE  Ordered
<1> DEFINE f == Framing(parser.flags)
<1>1. pc = "switch" /\ parser.state \in LineStates
  BY DEF HttpStart, HttpLiteral, Wants, FirstMajor, Major, FirstMinor, Minor, LineAlmostDone, On, LineStates
<1>2. mark = NoMarks
  <2>1. \A cb \in DataCallbacks : parser.state \notin Section(cb)
    BY <1>1 DEF Section, UrlStates, LineStates
  <2> QED
    BY <1>1, <2>1, Unmarked
<1>3. IsParser(parser) /\ parser.errno = "OK" /\ f = "plain" /\ Latest = "url"
  BY <1>1, <1>2, ToldTurn, LineIs DEF Running
<1> HIDE DEF f
<1>4. ASSUME NEW q, Advance(q), q.errno = "OK", q.flags = parser.flags,
             q.state \in LineStates \cup {"s_header_field_start"}
      PROVE  Ordered
  <2>1. f \in Frames(q.state) /\ Latest \in Came(q.state, f) /\ q.state \notin ColonStates
    <3>1. CASE q.state = "s_header_field_start"
      BY <1>3, <3>1, HeaderIs DEF Framings, Messages!InHeaders
    <3>2. CASE q.state # "s_header_field_start"
      BY <1>3, <1>4, <3>2, LineIs
    <3> QED
      BY <3>1, <3>2
  <2> QED
    BY <1>1, <1>2, <1>4, <2>1, MoveOrder DEF f
<1>5. ASSUME NEW s \in LineStates \cup {"s_header_field_start"}, Advance(To(s)) PROVE Ordered
  <2> DEFINE q == To(s)
  <2>1. q.state = s /\ q.errno = "OK" /\ q.flags = parser.flags
    BY <1>3, ToIs DEF Fields
  <2> QED
    BY <1>4, <1>5, <2>1
<1>6. ASSUME NEW d, NEW s \in LineStates,
             \/ Advance([parser EXCEPT !.http_major = d, !.state = s])
             \/ Advance([parser EXCEPT !.http_minor = d, !.state = s])
      PROVE  Ordered
  <2> DEFINE major == [parser EXCEPT !.http_major = d, !.state = s]
             minor == [parser EXCEPT !.http_minor = d, !.state = s]
  <2>1. /\ major.state = s /\ major.errno = "OK" /\ major.flags = parser.flags
        /\ minor.state = s /\ minor.errno = "OK" /\ minor.flags = parser.flags
    BY <1>3 DEF IsParser, Fields
  <2>2. Advance(major) \/ Advance(minor)
    BY <1>6
  <2> HIDE DEF major, minor
  <2> QED
    BY <1>4, <2>1, <2>2
<1>7. ASSUME NEW d, \/ Advance([parser EXCEPT !.http_major = d]) \/ Advance([parser EXCEPT !.http_minor = d])
      PROVE  Ordered
  <2> DEFINE major == [parser EXCEPT !.http_major = d]
             minor == [parser EXCEPT !.http_minor = d]
  <2>1. /\ major.state = parser.state /\ major.errno = "OK" /\ major.flags = parser.flags
        /\ minor.state = parser.state /\ minor.errno = "OK" /\ minor.flags = parser.flags
    BY <1>3 DEF IsParser, Fields
  <2>2. Advance(major) \/ Advance(minor)
    BY <1>7
  <2> HIDE DEF major, minor
  <2> QED
    BY <1>1, <1>4, <2>1, <2>2
<1>8. \A s \in DOMAIN Wants : Wants[s][2] \in LineStates
  BY DEF Wants, LineStates
<1>9. {"s_req_http_H", "s_req_http_major", "s_req_first_http_minor", "s_req_http_minor", "s_req_line_almost_done"}
        \subseteq LineStates
  BY DEF LineStates
<1>10. CASE HttpStart
  BY <1>1, <1>5, <1>9, <1>10, StayOrder, FailOrder DEF HttpStart
<1>11. CASE HttpLiteral
  BY <1>5, <1>8, <1>11, FailOrder DEF HttpLiteral
<1>12. CASE FirstMajor
  BY <1>6, <1>9, <1>12, FailOrder DEF FirstMajor
<1>13. CASE FirstMinor
  BY <1>6, <1>9, <1>13, FailOrder DEF FirstMinor
<1>14. CASE Major
  <2> DEFINE d == parser.http_major * 10 + DigitValue[ch]
  <2>1. Advance([parser EXCEPT !.http_major = d]) \/ Advance(To("s_req_first_http_minor")) \/ Fail("INVALID_VERSION")
    BY <1>14 DEF Major
  <2> HIDE DEF d
  <2> QED
    BY <1>5, <1>7, <1>9, <2>1, FailOrder
<1>15. CASE Minor
  <2> DEFINE d == parser.http_minor * 10 + DigitValue[ch]
  <2>1. \/ Advance([parser EXCEPT !.http_minor = d]) \/ Advance(To("s_req_line_almost_done"))
        \/ Advance(To("s_header_field_start")) \/ Fail("INVALID_VERSION")
    BY <1>15 DEF Minor
  <2> HIDE DEF d
  <2> QED
    BY <1>5, <1>7, <1>9, <2>1, FailOrder
<1>16. CASE LineAlmostDone
  BY <1>5, <1>16, FailOrder DEF LineAlmostDone
<1> QED
  BY <1>10, <1>11, <1>12, <1>13, <1>14, <1>15, <1>16

\* On in a loop, or out of it to the loop's head, in the same state.
LEMMA LoopOrder ==
  ASSUME IInv, OInv, pc = "loop", NEW q, q.state = parser.state, q.errno = "OK",
         Framing(q.flags) = Framing(parser.flags), NEW c \in {"loop", "head"}, NEW x, Goto(q, c, x, mark), Quiet
  PROVE  Ordered
<1>1. Told(parser, mark, Latest) /\ parser.state \in {"s_header_field", "s_header_value"}
  BY ToldTurn, Turn DEF Running
<1>2. parser.state \notin ColonStates
  BY <1>1 DEF ColonStates
<1>3. Told(q, mark, Latest)
  BY <1>1, <1>2 DEF Told
<1> QED
  BY <1>3, QuietOrder DEF Running

LEMMA FieldStartOrder == ASSUME IInv, OInv, HeaderFieldStart \/ EnterLoop PROVE Ordered
<1> DEFINE f == Framing(parser.flags)
<1>1. CASE HeaderFieldStart
  <2>1. pc = "switch" /\ parser.state = "s_header_field_start"
    BY <1>1 DEF HeaderFieldStart, On
  <2>2. mark = NoMarks
    <3>1. \A cb \in DataCallbacks : parser.state \notin Section(cb)
      BY <2>1 DEF Section, UrlStates
    <3> QED
      BY <2>1, <3>1, Unmarked
  <2>3. IsParser(parser) /\ parser.errno = "OK" /\ f \in Framings /\ Latest \in Messages!InHeaders(f)
    BY <2>1, <2>2, ToldTurn, HeaderIs, FramingIs DEF Running
  <2> HIDE DEF f
  <2>4. CASE Advance(To("s_headers_almost_done")) \/ Reexecute(To("s_headers_almost_done"))
    <3>1. f \in Frames("s_headers_almost_done") /\ Latest \in Came("s_headers_almost_done", f)
          /\ "s_headers_almost_done" \notin ColonStates
      BY <2>3, HeaderIs
    <3> QED
      BY <2>1, <2>2, <2>4, <3>1, MoveToOrder DEF f
  <2>5. ASSUME NEW h,
               AdvanceMarking("header_field", [parser EXCEPT !.state = "s_header_field", !.index = 0, !.header_state = h])
        PROVE  Ordered
    <3> DEFINE q == [parser EXCEPT !.state = "s_header_field", !.index = 0, !.header_state = h]
    <3>1. q.errno = "OK" /\ q.flags = parser.flags /\ q.state = "s_header_field"
      BY <2>3 DEF IsParser, Fields
    <3>2. AdvanceMarking("header_field", q)
      BY <2>5
    <3> HIDE DEF q
    <3>3. f \in Frames("s_header_field") /\ "s_header_field" \notin ColonStates /\ "header_field" \in DataCallbacks
      BY <2>3, HeaderIs DEF ColonStates, DataCallbacks
    <3>4. Latest \in Messages!Before("header_field", f)
      BY <2>3 DEF Messages!Before
    <3> QED
      BY <2>1, <2>2, <3>1, <3>2, <3>3, <3>4, MarkingOrder DEF f
  <2> QED
    BY <1>1, <2>4, <2>5, FailOrder DEF HeaderFieldStart
<1>2. CASE EnterLoop
  <2>1. /\ pc' = "loop" /\ parser' = parser /\ settings' = settings /\ mark' = mark /\ log' = log
        /\ request' = request /\ Latest' = Latest /\ pc \in Running
    BY <1>2 DEF EnterLoop, Quiet, Latest, Running
  <2>2. Told(parser, mark, Latest)
    BY <2>1, ToldTurn
  <2>3. Told(parser, mark, Latest)'
    BY <2>1, <2>2 DEF Told
  <2>4. UNCHANGED Messages!vars
    BY <2>1 DEF Messages!vars, Framing
  <2>5. parser.errno = "OK"
    BY <2>1, ToldTurn
  <2> QED
    BY <2>1, <2>3, <2>4, <2>5 DEF Ordered, OInv, EofExact, Running
<1> QED
  BY <1>1, <1>2

LEMMA LoopEndOrder == ASSUME IInv, OInv, LoopEnd PROVE Ordered
<1>1. pc = "loop" /\ parser.errno = "OK" /\ IsParser(parser)
  BY ToldTurn DEF LoopEnd, Running
<1>2. CASE Over(p - start)
  BY <1>2, FailOrder DEF LoopEnd
<1>3. CASE ~Over(p - start)
  <2> DEFINE q == Counted(p - start)
  <2>1. Goto(q, "head", p, mark) /\ Quiet
    BY <1>3 DEF LoopEnd
  <2>2. q.state = parser.state /\ q.errno = "OK" /\ q.flags = parser.flags
    BY <1>1 DEF Counted, IsParser, Fields
  <2> HIDE DEF q
  <2> QED
    BY <1>1, <2>1, <2>2, LoopOrder
<1> QED
  BY <1>2, <1>3

LEMMA FieldOrder == ASSUME IInv, OInv, FieldChar \/ FieldStop PROVE Ordered
<1> DEFINE f == Framing(parser.flags)
<1>1. pc = "loop" /\ parser.state = "s_header_field" /\ p <= end
  BY DEF FieldChar, FieldStop, InLoop
<1>2. /\ IsParser(parser) /\ parser.errno = "OK" /\ parser.header_state \in FieldStates /\ f \in Framings
      /\ p - start \in Nat
  BY <1>1, InLoopIs, FramingIs DEF Sane
<1>3. CASE FieldChar
  <2> DEFINE h == NextFieldState(parser.header_state, parser.index, ch)
             i == IF parser.header_state \in {"h_C", "h_CON"} \cup DOMAIN Matching
                  THEN parser.index + 1 ELSE parser.index
             next == [parser EXCEPT !.header_state = h, !.index = i]
             flagged == [next EXCEPT !.flags = @ \cup {"CONTENTLENGTH"}]
  <2>1. More(next) \/ More(flagged) \/ Fail("UNEXPECTED_CONTENT_LENGTH")
    BY <1>3 DEF FieldChar
  <2> HIDE DEF h, i
  <2>2. /\ next.state = parser.state /\ next.errno = "OK" /\ next.flags = parser.flags
        /\ flagged.state = parser.state /\ flagged.errno = "OK"
        /\ flagged.flags = parser.flags \cup {"CONTENTLENGTH"}
    BY <1>2 DEF IsParser, Fields
  <2> HIDE DEF next, flagged
  <2>3. Framing(flagged.flags) = Framing(parser.flags)
    BY <2>2 DEF Framing
  <2> QED
    BY <1>1, <2>1, <2>2, <2>3, LoopOrder, FailOrder DEF More
<1>4. CASE FieldStop
  <2>1. CASE Fail("HEADER_OVERFLOW") \/ Fail("INVALID_HEADER_TOKEN")
    BY <2>1, FailOrder
  <2>2. CASE /\ ~Over(p - start)
             /\ Deliver("header_field", p - 1,
                        [Counted(p - start) EXCEPT !.state = "s_header_value_discard_ws"], "head", p + 1)
    <3> DEFINE r == Counted(p - start)
               q == [r EXCEPT !.state = "s_header_value_discard_ws"]
    <3>1. IsParser(r) /\ \A o \in Fields \ {"nread"} : r[o] = parser[o]
      BY <1>2, <2>2, CountedIs
    <3>2. r.errno = "OK" /\ r.flags = parser.flags /\ r.header_state = parser.header_state
      BY <1>2, <3>1 DEF Fields
    <3>3. Deliver("header_field", p - 1, q, "head", p + 1)
      BY <2>2
    <3> HIDE DEF r
    <3>4. IsParser(q) /\ q.errno = "OK" /\ q.flags = parser.flags /\ q.header_state = parser.header_state
          /\ q.state = "s_header_value_discard_ws"
      BY <3>1, <3>2 DEF IsParser, Fields
    <3> HIDE DEF q
    <3>5. "header_field" \in DataCallbacks /\ parser.state \in Section("header_field") /\ Came(parser.state, f) = {"header_field"}
      BY <1>1, HeaderIs DEF DataCallbacks, Section
    <3>6. /\ Latest = "header_field" \/ (mark["header_field"] # 0 /\ Latest \in Messages!Before("header_field", f))
          /\ mark \in [DataCallbacks -> 0 .. p] /\ \A o \in DataCallbacks : o # "header_field" => mark[o] = 0
      BY <1>1, <3>5, SectionTold
    <3> HIDE DEF f
    <3>7. "s_header_value_discard_ws" \in ColonStates
      BY DEF ColonStates
    <3>8. f \in Frames(q.state) /\ "header_field" \in Came(q.state, f) /\ q.header_state \in FieldStates
      BY <1>2, <3>4, <3>7, HeaderIs
    <3>9. DeliverMarked(mark, "header_field", p - 1, q, "head", p + 1)
      BY <3>3 DEF Deliver
    <3> QED
      BY <1>1, <3>4, <3>5, <3>6, <3>8, <3>9, DeliverOrder DEF f
  <2> QED
    BY <1>4, <2>1, <2>2 DEF FieldStop
<1> QED
  BY <1>3, <1>4

LEMMA ValueStartOrder == ASSUME IInv, OInv, ValueStart \/ ValueDiscardWs PROVE Ordered
<1> DEFINE f == Framing(parser.flags)
<1>1. pc = "switch" /\ parser.state \in {"s_header_value_start", "s_header_value_discard_ws"}
  BY DEF ValueStart, ValueDiscardWs, On
<1>2. mark = NoMarks
  <2>1. \A cb \in DataCallbacks : parser.state \notin Section(cb)
    BY <1>1 DEF Section, UrlStates
  <2> QED
    BY <1>1, <2>1, Unmarked
<1>3. IsParser(parser) /\ parser.errno = "OK" /\ f \in Framings /\ Latest \in Came(parser.state, f)
      /\ (parser.state \in ColonStates => parser.header_state \in FieldStates)
  BY <1>1, <1>2, ToldTurn, FramingIs DEF Running, Told
<1>4. Latest = "header_value" \/ Latest \in Messages!Before("header_value", f)
  <2>1. "s_header_value_start" \in LwsStates /\ "s_header_value_discard_ws" \in ColonStates
    BY DEF LwsStates, ColonStates
  <2>2. Latest \in {"header_field", "header_value"}
    BY <1>1, <1>3, <2>1, HeaderIs
  <2> QED
    BY <2>2 DEF Messages!Before
<1> HIDE DEF f
<1>5. ASSUME NEW q, q.errno = "OK", q.state = "s_header_value", Framing(q.flags) = f,
             AdvanceMarking("header_value", q)
      PROVE  Ordered
  <2>1. q.state \in LwsStates /\ "header_value" \in DataCallbacks
    BY <1>5 DEF LwsStates, DataCallbacks
  <2>2. f \in Frames(q.state) /\ q.state \notin ColonStates
    BY <1>3, <2>1, HeaderIs
  <2> QED
    BY <1>1, <1>2, <1>4, <1>5, <2>1, <2>2, MarkingOrder DEF f
<1>6. CASE ValueStart
  <2> DEFINE s == FirstValueState(parser.header_state, ch)
             next == [parser EXCEPT !.state = "s_header_value", !.index = 0, !.header_state = s]
             upgraded == [next EXCEPT !.flags = @ \cup {"UPGRADE"}]
             d == DigitValue[ch]
             sized == [next EXCEPT !.content_length = d]
  <2>1. \/ AdvanceMarking("header_value", next)
        \/ AdvanceMarking("header_value", upgraded)
        \/ AdvanceMarking("header_value", sized)
        \/ Fail("INVALID_CONTENT_LENGTH")
    BY <1>6 DEF ValueStart
  <2> HIDE DEF s, d
  <2>2. /\ next.errno = "OK" /\ next.state = "s_header_value" /\ next.flags = parser.flags
        /\ upgraded.errno = "OK" /\ upgraded.state = "s_header_value" /\ upgraded.flags = parser.flags \cup {"UPGRADE"}
        /\ sized.errno = "OK" /\ sized.state = "s_header_value" /\ sized.flags = parser.flags
    BY <1>3 DEF IsParser, Fields
  <2> HIDE DEF next, upgraded, sized
  <2>3. Framing(next.flags) = f /\ Framing(upgraded.flags) = f /\ Framing(sized.flags) = f
    BY <2>2 DEF f, Framing
  <2> QED
    BY <1>5, <2>1, <2>2, <2>3, FailOrder
<1>7. CASE ValueDiscardWs
  <2>1. \/ Advance(parser)
        \/ \E s \in {"s_header_value_discard_ws_almost_done", "s_header_value_discard_lws"} : Advance(To(s))
    BY <1>7 DEF ValueDiscardWs
  <2>2. ASSUME NEW s \in {"s_header_value_discard_ws_almost_done", "s_header_value_discard_lws"}, Advance(To(s))
        PROVE  Ordered
    <3>1. parser.state \in ColonStates /\ s \in ColonStates
      BY <1>7 DEF ValueDiscardWs, On, ColonStates
    <3>2. f \in Frames(s) /\ Latest \in Came(s, f) /\ parser.header_state \in FieldStates
      BY <1>3, <3>1, HeaderIs
    <3> QED
      BY <1>1, <1>2, <2>2, <3>2, MoveToOrder DEF f
  <2> QED
    BY <1>1, <2>1, <2>2, StayOrder
<1> QED
  BY <1>6, <1>7

\* The flags of a value's end say no more than how the connection is meant.
LEMMA AfterValueFlags ==
  ASSUME IsParser(parser), NEW c
  PROVE  LET q == AfterValueChar(parser.header_state, c)
         IN  q.errno = parser.errno /\ q.state = parser.state /\ Framing(q.flags) = Framing(parser.flags)
<1> DEFINE h == parser.header_state
           q == AfterValueChar(h, c)
           turned(s) == [parser EXCEPT !.header_state = s]
           moved(s) == [turned(s) EXCEPT !.index = @ + 1]
           Fine(r) == r.errno = parser.errno /\ r.state = parser.state /\ Framing(r.flags) = Framing(parser.flags)
<1>1. ASSUME NEW s PROVE Fine(turned(s)) /\ Fine(moved(s))
  BY DEF IsParser, Fields
<1>2. ASSUME NEW r, IsParser(r), Fine(r) PROVE Fine(NextToken(r))
  BY <1>2 DEF NextToken, IsParser, Fields
<1>3. Fine(NextToken(parser)) /\ Fine(parser)
  BY <1>2
<1>4. h \in ConnectionDone => Fine(NextToken(WithEndFlag(parser)))
  <2> SUFFICES ASSUME h \in ConnectionDone PROVE Fine(NextToken(WithEndFlag(parser)))
    OBVIOUS
  <2> DEFINE x == EndFlag[h]
             r == [parser EXCEPT !.flags = @ \cup {x}]
  <2>1. x \notin {"CHUNKED", "TRAILING"} /\ WithEndFlag(parser) = r
    BY DEF ConnectionDone, EndFlag, WithEndFlag
  <2> HIDE DEF x
  <2>2. IsParser(r) /\ r.errno = parser.errno /\ r.state = parser.state /\ r.flags = parser.flags \cup {x}
    BY DEF IsParser, Fields
  <2> HIDE DEF r
  <2>3. Framing(r.flags) = Framing(parser.flags)
    BY <2>1, <2>2 DEF Framing
  <2> QED
    BY <1>2, <2>1, <2>2, <2>3
<1>5. \/ \E s : q = turned(s) \/ q = moved(s)
      \/ q = NextToken(parser) \/ q = parser
      \/ h \in ConnectionDone /\ q = NextToken(WithEndFlag(parser))
  <2>1. /\ "h_matching_connection_token_start" \notin DOMAIN Matching
        /\ "h_matching_connection_token" \notin DOMAIN Matching
        /\ "h_transfer_encoding_chunked" \notin DOMAIN Matching /\ ConnectionDone \cap DOMAIN Matching = {}
        /\ "h_matching_connection_token" \notin ConnectionDone
        /\ "h_matching_connection_token_start" \notin ConnectionDone
        /\ "h_transfer_encoding_chunked" \notin ConnectionDone
    BY DEF Matching, ConnectionDone, EndFlag
  <2>2. CASE h \in DOMAIN Matching
    <3>1. q = moved(Match(h, parser.index, c))
      BY ONLY <2>1, <2>2 DEF AfterValueChar
    <3> QED
      BY <3>1
  <2>3. CASE h = "h_matching_connection_token_start"
    <3> DEFINE other == CASE c \in Token -> "h_matching_connection_token"
                          [] c = " " -> h
                          [] OTHER -> "h_general"
    <3>1. q = turned(ConnectionToken(c, other))
      BY ONLY <2>1, <2>3 DEF AfterValueChar
    <3> HIDE DEF other
    <3> QED
      BY <3>1
  <2>4. CASE h \notin DOMAIN Matching /\ h # "h_matching_connection_token_start"
    <3>1. \/ q = NextToken(parser) \/ q = NextToken(WithEndFlag(parser))
          \/ q = turned("h_matching_connection_token") \/ q = turned("h_general") \/ q = parser
      BY ONLY <2>1, <2>4 DEF AfterValueChar
    <3>2. h \notin ConnectionDone =>
            \/ q = NextToken(parser)
            \/ q = turned("h_matching_connection_token") \/ q = turned("h_general") \/ q = parser
      BY ONLY <2>1, <2>4 DEF AfterValueChar
    <3> HIDE DEF turned, q
    <3> QED
      BY <3>1, <3>2
  <2> QED
    BY <2>2, <2>3, <2>4
<1> HIDE DEF turned, moved, Fine, q
<1>6. Fine(q)
  BY <1>1, <1>3, <1>4, <1>5
<1> QED
  BY <1>6 DEF Fine, q

LEMMA ValueCharOrder == ASSUME IInv, OInv, ValueChar PROVE Ordered
<1>1. pc = "loop" /\ IsParser(parser) /\ parser.errno = "OK"
  BY ToldTurn DEF ValueChar, InLoop, Running
<1> DEFINE after == AfterValueChar(parser.header_state, ch)
           longer == Longer(10, DigitValue[ch])
<1>2. \/ Fail("INVALID_HEADER_TOKEN") \/ Fail("INVALID_CONTENT_LENGTH")
      \/ Goto(parser, "loop", SkipTo, mark) /\ Quiet
      \/ More(parser) \/ More(longer) \/ More(after)
  <2>1. " " \notin Digit
    BY BlankIsNoToken DEF Token
  <2> HIDE DEF after, longer
  <2> QED
    BY <2>1 DEF ValueChar, after, longer
<1>3. after.errno = "OK" /\ after.state = parser.state /\ Framing(after.flags) = Framing(parser.flags)
  BY <1>1, AfterValueFlags
<1>4. longer.errno = "OK" /\ longer.state = parser.state /\ longer.flags = parser.flags
  BY <1>1 DEF Longer, IsParser, Fields
<1> HIDE DEF after, longer
<1> QED
  BY <1>1, <1>2, <1>3, <1>4, LoopOrder, FailOrder DEF More

LEMMA ValueEndOrder == ASSUME IInv, OInv, ValueCR \/ ValueLF PROVE Ordered
<1> DEFINE f == Framing(parser.flags)
<1>1. pc = "loop" /\ parser.state = "s_header_value" /\ p <= end
  BY DEF ValueCR, ValueLF, InLoop
<1>2. IsParser(parser) /\ parser.errno = "OK" /\ f \in Framings /\ p - start \in Nat
  BY <1>1, InLoopIs, FramingIs
<1>3. "header_value" \in DataCallbacks /\ parser.state \in Section("header_value") /\ parser.state \in LwsStates
  BY <1>1 DEF DataCallbacks, Section, LwsStates
<1>4. /\ Latest = "header_value" \/ (mark["header_value"] # 0 /\ Latest \in Messages!Before("header_value", f))
      /\ mark \in [DataCallbacks -> 0 .. p] /\ \A o \in DataCallbacks : o # "header_value" => mark[o] = 0
  BY <1>1, <1>3, SectionTold, HeaderIs
<1> HIDE DEF f
<1> DEFINE r == Counted(p - start)
           q == [r EXCEPT !.state = "s_header_almost_done"]
           e == [q EXCEPT !.errno = "HEADER_OVERFLOW"]
<1>5. /\ ValueCR => Deliver("header_value", p - 1, IF Over(p - start) THEN e ELSE q, "head", p + 1)
      /\ ValueLF => \/ Fail("HEADER_OVERFLOW")
                    \/ Deliver("header_value", p - 1, q, "switch", p)
  BY DEF ValueCR, ValueLF
<1>6. IsParser(r) /\ r.errno = "OK" /\ r.flags = parser.flags
  <2>1. r.nread = parser.nread + (p - start) /\ parser.nread + (p - start) \in Nat
        /\ \A o \in Fields \ {"nread"} : r[o] = parser[o]
        /\ DOMAIN r = Fields
    BY <1>2 DEF Counted, IsParser, Fields
  <2> HIDE DEF r
  <2> QED
    BY <1>2, <2>1 DEF IsParser, Fields
<1> HIDE DEF r
<1>7. IsParser(q) /\ q.errno = "OK" /\ q.flags = parser.flags /\ q.state = "s_header_almost_done"
  BY <1>6 DEF IsParser, Fields
<1> HIDE DEF q
<1>8. IsParser(e) /\ e.errno = "HEADER_OVERFLOW" /\ e.flags = parser.flags
  BY <1>7 DEF IsParser, Fields
<1> HIDE DEF e
<1>9. f \in Frames("s_header_almost_done") /\ "header_value" \in Came("s_header_almost_done", f)
      /\ "s_header_almost_done" \notin ColonStates
  <2>1. "s_header_almost_done" \in LwsStates
    BY DEF LwsStates
  <2> QED
    BY <1>2, <2>1, HeaderIs
<1>10. ASSUME NEW n \in {q, e}, NEW c \in {"head", "switch"}, NEW x, Deliver("header_value", p - 1, n, c, x)
       PROVE  Ordered
  <2>1. DeliverMarked(mark, "header_value", p - 1, n, c, x)
    BY <1>10 DEF Deliver
  <2>2. IsParser(n) /\ n.errno # "INVALID_EOF_STATE" /\ n.flags = parser.flags
        /\ (n.errno = "OK" => n.state = "s_header_almost_done")
    BY <1>7, <1>8
  <2> QED
    BY <1>1, <1>3, <1>4, <1>9, <2>1, <2>2, DeliverOrder DEF f
<1> QED
  BY <1>5, <1>10, FailOrder

\* The flag of a value's end may say that the body comes in chunks; no name has one.
LEMMA EndFlagFraming ==
  ASSUME NEW q, IsParser(q)
  PROVE  /\ \/ Framing(WithEndFlag(q).flags) = Framing(q.flags)
            \/ Framing(q.flags) = "plain" /\ Framing(WithEndFlag(q).flags) = "chunked"
         /\ q.header_state \in FieldStates => WithEndFlag(q) = q
<1>1. WithEndFlag(q) = q \/ \E x : WithEndFlag(q) = [q EXCEPT !.flags = @ \cup {x}]
  BY DEF WithEndFlag
<1>2. WithEndFlag(q).flags = q.flags \/ \E x : WithEndFlag(q).flags = q.flags \cup {x} /\ x # "TRAILING"
  <2>1. \A h \in DOMAIN EndFlag : EndFlag[h] # "TRAILING"
    BY DEF EndFlag
  <2>2. CASE q.header_state \notin DOMAIN EndFlag
    BY <2>2 DEF WithEndFlag
  <2>3. CASE q.header_state \in DOMAIN EndFlag
    <3> DEFINE x == EndFlag[q.header_state]
               r == [q EXCEPT !.flags = @ \cup {x}]
    <3>1. WithEndFlag(q) = r /\ x # "TRAILING"
      BY <2>1, <2>3 DEF WithEndFlag
    <3> HIDE DEF x
    <3>2. r.flags = q.flags \cup {x}
      BY DEF IsParser, Fields
    <3> QED
      BY <3>1, <3>2
  <2> QED
    BY <2>2, <2>3
<1>3. q.header_state \in FieldStates => WithEndFlag(q) = q
  BY DEF FieldStates, WithEndFlag, EndFlag
<1>4. \/ Framing(WithEndFlag(q).flags) = Framing(q.flags)
      \/ Framing(q.flags) = "plain" /\ Framing(WithEndFlag(q).flags) = "chunked"
  <2> HIDE DEF WithEndFlag
  <2> QED
    BY <1>2 DEF Framing
<1> QED
  BY <1>3, <1>4

LEMMA ValueLinesOrder ==
  ASSUME IInv, OInv, HeaderAlmostDone \/ ValueLws \/ ValueDiscardWsAlmostDone \/ ValueDiscardLws
  PROVE  Ordered
<1> DEFINE f == Framing(parser.flags)
           Lws == {"s_header_almost_done", "s_header_value_lws", "s_header_value_start"}
           Colon == {"s_header_value_discard_ws_almost_done", "s_header_value_discard_lws", "s_header_value_discard_ws"}
<1>1. pc = "switch" /\ parser.state \in Lws \cup Colon
  BY DEF HeaderAlmostDone, ValueLws, ValueDiscardWsAlmostDone, ValueDiscardLws, On
<1>2. mark = NoMarks
  <2>1. \A cb \in DataCallbacks : parser.state \notin Section(cb)
    BY <1>1 DEF Section, UrlStates
  <2> QED
    BY <1>1, <2>1, Unmarked
<1>3. IsParser(parser) /\ parser.errno = "OK" /\ f \in Framings /\ Latest \in Came(parser.state, f)
      /\ (parser.state \in ColonStates => parser.header_state \in FieldStates)
  BY <1>1, <1>2, ToldTurn, FramingIs DEF Running, Told
<1>4. Lws \subseteq LwsStates /\ Colon \subseteq ColonStates
  BY DEF LwsStates, ColonStates
<1>5. (parser.state \in Lws => Latest = "header_value") /\ (parser.state \in Colon => Latest = "header_field")
  BY <1>3, <1>4, HeaderIs
<1> DEFINE r == WithEndFlag(parser)
           q == [r EXCEPT !.state = "s_header_field_start"]
<1>6. /\ IsParser(q) /\ q.state = "s_header_field_start" /\ q.errno = "OK"
      /\ \/ Framing(q.flags) = f
         \/ f = "plain" /\ Framing(q.flags) = "chunked"
      /\ parser.state \in Colon => Framing(q.flags) = f
  <2>1. IsParser(r) /\ r.errno = "OK"
    BY <1>3, EndFlagIs DEF Fields
  <2>2. /\ Framing(r.flags) = f \/ (f = "plain" /\ Framing(r.flags) = "chunked")
        /\ parser.state \in Colon => Framing(r.flags) = f
    BY <1>3, <1>4, EndFlagFraming
  <2> HIDE DEF r, f
  <2>3. IsParser(q) /\ q.state = "s_header_field_start" /\ q.errno = "OK" /\ q.flags = r.flags
    BY <2>1 DEF IsParser, Fields
  <2> QED
    BY <2>2, <2>3
<1>7. /\ parser.state \in Lws => \/ Fail("LF_EXPECTED") \/ Advance(To("s_header_value_lws"))
                                 \/ Reexecute(To("s_header_value_start")) \/ Reexecute(q)
      /\ parser.state \in Colon =>
           \/ Fail("STRICT")
           \/ \E s \in Colon : Advance(To(s))
           \/ DeliverMarked(Marked("header_value"), "header_value", p - 1, q, "switch", p)
  BY DEF HeaderAlmostDone, ValueLws, ValueDiscardWsAlmostDone, ValueDiscardLws, On
<1> HIDE DEF q, f
<1>8. /\ Framing(q.flags) \in Framings /\ Framing(q.flags) \in Frames(q.state) /\ "s_header_field_start" \notin ColonStates
      /\ "header_value" \in Came(q.state, Framing(q.flags))
  BY <1>6, FramingIs, HeaderIs DEF Messages!InHeaders
<1>9. CASE parser.state \in Lws
  <2>1. CASE Advance(To("s_header_value_lws")) \/ Reexecute(To("s_header_value_start"))
    <3>1. \A s \in Lws : f \in Frames(s) /\ Latest \in Came(s, f) /\ s \notin ColonStates
      BY <1>3, <1>4, <1>5, <1>9, HeaderIs
    <3> QED
      BY <1>1, <1>2, <2>1, <3>1, MoveToOrder DEF f
  <2>2. CASE Reexecute(q)
    <3>1. Told(q, mark, Latest)
      BY <1>2, <1>5, <1>6, <1>8, <1>9 DEF Told, NoMarks
    <3>2. Goto(q, "switch", p, mark) /\ Quiet
      BY <2>2 DEF Reexecute
    <3> QED
      BY <1>5, <1>6, <1>9, <3>1, <3>2, QuietOrder DEF Running, f
  <2> QED
    BY <1>7, <1>9, <2>1, <2>2, FailOrder
<1>10. CASE parser.state \in Colon
  <2>1. ASSUME NEW s \in Colon, Advance(To(s)) PROVE Ordered
    <3>1. f \in Frames(s) /\ Latest \in Came(s, f) /\ parser.header_state \in FieldStates
      BY <1>3, <1>4, <1>5, <1>10, HeaderIs
    <3> QED
      BY <1>1, <1>2, <2>1, <3>1, MoveToOrder DEF f
  <2>2. CASE DeliverMarked(Marked("header_value"), "header_value", p - 1, q, "switch", p)
    <3>1. p \in Nat /\ 1 <= p /\ mark \in [DataCallbacks -> 0 .. p] /\ "header_value" \in DataCallbacks
      BY <1>1, Turn DEF DataCallbacks
    <3>2. /\ Marked("header_value") \in [DataCallbacks -> 0 .. p] /\ Marked("header_value")["header_value"] # 0
          /\ \A o \in DataCallbacks : o # "header_value" => Marked("header_value")[o] = 0
      BY <1>2, <3>1 DEF Marked, NoMarks
    <3>3. Latest \in Messages!Before("header_value", f)
      BY <1>5, <1>10 DEF Messages!Before
    <3> QED
      BY <1>1, <1>6, <1>8, <1>10, <2>2, <3>1, <3>2, <3>3, DeliverOrder DEF f
  <2> QED
    BY <1>7, <1>10, <2>1, <2>2, FailOrder
<1> QED
  BY <1>1, <1>9, <1>10

\* A new message keeps the flags of the last: the next one's beginning drops them.
LEMMA NewMessageTold ==
  ASSUME NEW q, IsParser(q), q.errno = "OK"
  PROVE  LET m == NewMessage(q)
         IN  /\ IsParser(m) /\ m.errno = "OK" /\ m.flags = q.flags
             /\ Framing(m.flags) \in Frames(m.state) /\ m.state \notin ColonStates
             /\ "message_complete" \in Came(m.state, Framing(m.flags))
<1> DEFINE s == IF ShouldKeepAlive(q) THEN "s_start_req" ELSE "s_dead"
           r == [q EXCEPT !.state = s]
<1>1. r = NewMessage(q) /\ s \in {"s_start_req", "s_dead"}
  BY DEF NewMessage
<1> HIDE DEF s
<1>2. IsParser(r) /\ r.state = s /\ r.errno = "OK" /\ r.flags = q.flags
  BY DEF IsParser, Fields
<1> HIDE DEF r
<1>3. s \notin ColonStates
  BY <1>1 DEF ColonStates
<1>4. Framing(r.flags) \in Frames(s) /\ "message_complete" \in Came(s, Framing(r.flags))
  BY <1>1, FramingIs, StartIs
<1> QED
  BY <1>1, <1>2, <1>3, <1>4

LEMMA HeadersOrder == ASSUME IInv, OInv, HeadersAlmostDone \/ HeadersDone PROVE Ordered
<1> DEFINE f == Framing(parser.flags)
<1>1. pc = "switch" /\ parser.state \in {"s_headers_almost_done", "s_headers_done"}
  BY DEF HeadersAlmostDone, HeadersDone, On
<1>2. mark = NoMarks
  <2>1. \A cb \in DataCallbacks : parser.state \notin Section(cb)
    BY <1>1 DEF Section, UrlStates
  <2> QED
    BY <1>1, <2>1, Unmarked
<1>3. IsParser(parser) /\ parser.errno = "OK" /\ f \in Framings /\ f \in Frames(parser.state)
      /\ Latest \in Came(parser.state, f)
  BY <1>1, <1>2, ToldTurn, FramingIs DEF Running
<1>4. {"chunk_complete", "headers_complete", "message_complete"} \subseteq Callbacks \ DataCallbacks
  BY DEF Callbacks, DataCallbacks
<1>5. CASE HeadersAlmostDone
  <2> DEFINE u == {"UPGRADE", "CONNECTION_UPGRADE"} \subseteq parser.flags \/ parser.method = "CONNECT"
             done == [parser EXCEPT !.state = "s_headers_done", !.upgrade = u]
             last == To("s_message_done")
  <2>1. \/ Fail("STRICT") \/ Fail("UNEXPECTED_CONTENT_LENGTH")
        \/ "TRAILING" \in parser.flags /\ Notify("chunk_complete", last, "switch", p)
        \/ "TRAILING" \notin parser.flags /\ Notify("headers_complete", done, "switch", p)
    BY <1>5 DEF HeadersAlmostDone
  <2>2. Latest \in Messages!InHeaders(f)
    BY <1>3, <1>5, HeaderIs DEF HeadersAlmostDone, On
  <2>3. u \in BOOLEAN
    OBVIOUS
  <2> HIDE DEF u
  <2>4. IsParser(done) /\ done.errno = "OK" /\ done.state = "s_headers_done" /\ done.flags = parser.flags
    BY <1>3, <2>3 DEF IsParser, Fields
  <2>5. IsParser(last) /\ last.errno = "OK" /\ last.state = "s_message_done" /\ last.flags = parser.flags
    BY <1>3, ToIs DEF Fields
  <2> HIDE DEF done, last
  <2>6. "s_headers_done" \notin ColonStates /\ "s_message_done" \notin ColonStates
    BY DEF ColonStates
  <2>7. CASE "TRAILING" \in parser.flags /\ Notify("chunk_complete", last, "switch", p)
    <3>1. f = "trailer"
      BY <2>7 DEF Framing
    <3> HIDE DEF f
    <3>2. Latest \in Messages!Before("chunk_complete", f)
      BY <2>2, <3>1 DEF Messages!Before
    <3>3. f \in Frames("s_message_done") /\ "chunk_complete" \in Came("s_message_done", f)
      BY <3>1, BodyIs
    <3> QED
      BY <1>1, <1>2, <1>4, <2>5, <2>6, <2>7, <3>2, <3>3, NotifyOrder DEF Frame, f
  <2>8. CASE "TRAILING" \notin parser.flags /\ Notify("headers_complete", done, "switch", p)
    <3>1. f \in {"plain", "chunked"}
      BY <2>8 DEF Framing
    <3> HIDE DEF f
    <3>2. Latest \in Messages!Before("headers_complete", f)
      BY <2>2, <3>1 DEF Messages!Before
    <3>3. f \in Frames("s_headers_done") /\ "headers_complete" \in Came("s_headers_done", f)
      BY <3>1, BodyIs
    <3> QED
      BY <1>1, <1>2, <1>4, <2>4, <2>6, <2>8, <3>2, <3>3, NotifyOrder DEF Frame, f
  <2> QED
    BY <2>1, <2>7, <2>8, FailOrder
<1>6. CASE HeadersDone
  <2> DEFINE q == [parser EXCEPT !.nread = 0]
             chunked == [q EXCEPT !.state = "s_chunk_size_start"]
             identity == [q EXCEPT !.state = "s_body_identity"]
  <2>1. \/ Fail("STRICT")
        \/ Notify("message_complete", NewMessage(q), "idle", p + 1)
        \/ Notify("message_complete", NewMessage(q), "head", p + 1)
        \/ "CHUNKED" \in q.flags /\ Advance(chunked)
        \/ "CHUNKED" \notin q.flags /\ Advance(identity)
    BY <1>6 DEF HeadersDone
  <2>2. f \in {"plain", "chunked"} /\ Latest = "headers_complete"
    BY <1>3, <1>6, BodyIs DEF HeadersDone, On
  <2>3. IsParser(q) /\ q.flags = parser.flags /\ q.errno = "OK"
    BY <1>3 DEF IsParser, Fields
  <2> HIDE DEF q
  <2>4. /\ chunked.state = "s_chunk_size_start" /\ chunked.errno = "OK" /\ chunked.flags = parser.flags
        /\ identity.state = "s_body_identity" /\ identity.errno = "OK" /\ identity.flags = parser.flags
    BY <2>3 DEF IsParser, Fields
  <2> HIDE DEF chunked, identity
  <2>5. "s_chunk_size_start" \in SizeStates /\ "s_chunk_size_start" \notin ColonStates /\ "s_body_identity" \notin ColonStates
    BY DEF SizeStates, ColonStates
  <2>6. CASE "CHUNKED" \in q.flags /\ Advance(chunked)
    <3>1. f = "chunked"
      BY <2>2, <2>3, <2>6 DEF Framing
    <3>2. f \in Frames("s_chunk_size_start") /\ Latest \in Came("s_chunk_size_start", f)
      BY <2>2, <3>1, ChunkBeginIs
    <3> QED
      BY <1>1, <1>2, <2>4, <2>5, <2>6, <3>2, MoveOrder
  <2>7. CASE "CHUNKED" \notin q.flags /\ Advance(identity)
    <3>1. f = "plain"
      BY <2>2, <2>3, <2>7 DEF Framing
    <3>2. f \in Frames("s_body_identity") /\ Latest \in Came("s_body_identity", f)
      BY <2>2, <3>1, BodyIs
    <3> QED
      BY <1>1, <1>2, <2>4, <2>5, <2>7, <3>2, MoveOrder
  <2>8. ASSUME NEW c \in {"idle", "head"}, Notify("message_complete", NewMessage(q), c, p + 1) PROVE Ordered
    <3> DEFINE m == NewMessage(q)
    <3>1. /\ IsParser(m) /\ m.errno = "OK" /\ m.flags = parser.flags
          /\ Framing(m.flags) \in Frames(m.state) /\ m.state \notin ColonStates
          /\ "message_complete" \in Came(m.state, Framing(m.flags))
      BY <2>3, NewMessageTold
    <3>2. Notify("message_complete", m, c, p + 1)
      BY <2>8
    <3> HIDE DEF m, f
    <3>3. Latest \in Messages!Before("message_complete", f)
      BY <2>2 DEF Messages!Before
    <3> QED
      BY <1>1, <1>2, <1>4, <3>1, <3>2, <3>3, NotifyOrder DEF Frame, f
  <2> QED
    BY <2>1, <2>6, <2>7, <2>8, FailOrder
<1> QED
  BY <1>5, <1>6

\* More of a body or of a chunk: what is marked follows what came before.
LEMMA ReadOnOrder ==
  ASSUME IInv, OInv, pc = "switch", parser.state \in {"s_body_identity", "s_chunk_data"}
  PROVE  LET f == Framing(parser.flags)
         IN  /\ Latest = "body" \/ Latest \in Messages!Before("body", f)
             /\ Marked("body") \in [DataCallbacks -> 0 .. p] /\ Marked("body")["body"] # 0
             /\ \A o \in DataCallbacks : o # "body" => Marked("body")[o] = 0
             /\ \A q : /\ f \in Frames(q.state) /\ Framing(q.flags) = f /\ q.state \notin ColonStates
                       => Told(q, Marked("body"), Latest)
<1> DEFINE f == Framing(parser.flags)
<1>1. p \in Nat /\ 1 <= p /\ mark \in [DataCallbacks -> 0 .. p] /\ "body" \in DataCallbacks
  BY Turn DEF DataCallbacks
<1>2. parser.state \in Section("body")
  BY DEF Section
<1>3. Marked("body") \in [DataCallbacks -> 0 .. p] /\ \A o \in DataCallbacks : o # "body" => mark[o] = 0 /\ Marked("body")[o] = 0
  BY <1>2, BodyMarked
<1>4. Marked("body")["body"] # 0
  BY <1>1 DEF Marked
<1>5. Told(parser, mark, Latest)
  BY ToldTurn DEF Running
<1>6. Latest = "body" \/ Latest \in Messages!Before("body", f)
  <2>1. CASE mark["body"] # 0
    BY <1>1, <1>5, <2>1 DEF Told
  <2>2. CASE mark["body"] = 0
    <3>1. Latest \in Came(parser.state, f) /\ f \in Frames(parser.state)
      BY <1>3, <1>5, <2>2 DEF Told
    <3> HIDE DEF f
    <3>2. \/ f = "plain" /\ Latest \in {"headers_complete", "body"}
          \/ f = "chunked" /\ Latest \in {"chunk_header", "body"}
      BY <3>1, BodyIs
    <3> QED
      BY <3>2 DEF Messages!Before
  <2> QED
    BY <2>1, <2>2
<1>7. ASSUME NEW q, f \in Frames(q.state), Framing(q.flags) = f, q.state \notin ColonStates
      PROVE  Told(q, Marked("body"), Latest)
  <2>1. \A o \in DataCallbacks : Marked("body")[o] # 0 => o = "body"
    BY <1>3
  <2> QED
    BY <1>1, <1>4, <1>6, <1>7, <2>1 DEF Told
<1> QED
  BY <1>3, <1>4, <1>6, <1>7

LEMMA BodyOrder == ASSUME IInv, OInv, BodyIdentity \/ MessageDone PROVE Ordered
<1> DEFINE f == Framing(parser.flags)
<1>1. pc = "switch" /\ IsParser(parser) /\ parser.errno = "OK" /\ f \in Frames(parser.state)
  BY ToldTurn DEF BodyIdentity, MessageDone, On, Running
<1>2. CASE BodyIdentity
  <2> DEFINE left == parser.content_length - ToRead
             q == [parser EXCEPT !.content_length = left]
             over == [q EXCEPT !.state = "s_message_done"]
  <2>1. /\ parser.state = "s_body_identity"
        /\ \/ DeliverMarked(Marked("body"), "body", p + ToRead - 1, over, "switch", p + ToRead - 1)
           \/ Goto(q, "head", p + ToRead, Marked("body")) /\ Quiet
    BY <1>2 DEF BodyIdentity, On
  <2>2. left \in 0 .. ULLongMax
    BY <1>1, <2>1, ToReadIs
  <2> HIDE DEF left
  <2>3. /\ q.state = "s_body_identity" /\ q.errno = "OK" /\ q.flags = parser.flags
        /\ IsParser(over) /\ over.state = "s_message_done" /\ over.errno = "OK" /\ over.flags = parser.flags
    BY <1>1, <2>1, <2>2 DEF IsParser, Fields
  <2> HIDE DEF q, over
  <2>4. f = "plain"
    BY <1>1, <2>1, BodyIs
  <2>5. /\ Latest = "body" \/ Latest \in Messages!Before("body", f)
        /\ Marked("body") \in [DataCallbacks -> 0 .. p] /\ Marked("body")["body"] # 0
        /\ \A o \in DataCallbacks : o # "body" => Marked("body")[o] = 0
        /\ \A n : /\ f \in Frames(n.state) /\ Framing(n.flags) = f /\ n.state \notin ColonStates
                  => Told(n, Marked("body"), Latest)
    BY <1>1, <2>1, ReadOnOrder
  <2> HIDE DEF f
  <2>6. f \in Frames("s_message_done") /\ "body" \in Came("s_message_done", f) /\ f \in Frames("s_body_identity")
    BY <2>4, BodyIs
  <2>7. "s_message_done" \notin ColonStates /\ "s_body_identity" \notin ColonStates /\ "body" \in DataCallbacks
    BY DEF ColonStates, DataCallbacks
  <2>8. CASE DeliverMarked(Marked("body"), "body", p + ToRead - 1, over, "switch", p + ToRead - 1)
    BY <1>1, <2>3, <2>5, <2>6, <2>7, <2>8, DeliverOrder DEF f
  <2>9. CASE Goto(q, "head", p + ToRead, Marked("body")) /\ Quiet
    <3>1. Framing(q.flags) = f
      BY <2>3 DEF f
    <3>2. Told(q, Marked("body"), Latest)
      BY <2>3, <2>5, <2>6, <2>7, <3>1
    <3> QED
      BY <2>3, <2>9, <3>1, <3>2, QuietOrder DEF Running, f
  <2> QED
    BY <2>1, <2>8, <2>9
<1>3. CASE MessageDone
  <2> DEFINE c == IF parser.upgrade THEN "idle" ELSE "head"
             m == NewMessage(parser)
  <2>1. parser.state = "s_message_done" /\ Notify("message_complete", m, c, p + 1)
    BY <1>3 DEF MessageDone, On
  <2>2. mark = NoMarks
    <3>1. \A cb \in DataCallbacks : parser.state \notin Section(cb)
      BY <2>1 DEF Section, UrlStates
    <3> QED
      BY <1>1, <3>1, Unmarked
  <2>3. c \in {"idle", "head", "switch"} /\ "message_complete" \in Callbacks \ DataCallbacks
    BY DEF Callbacks, DataCallbacks
  <2>4. /\ IsParser(m) /\ m.errno = "OK" /\ m.flags = parser.flags
        /\ Framing(m.flags) \in Frames(m.state) /\ m.state \notin ColonStates
        /\ "message_complete" \in Came(m.state, Framing(m.flags))
    BY <1>1, NewMessageTold
  <2>5. Latest \in Came("s_message_done", f)
    BY <1>1, <2>1, <2>2, ToldTurn DEF Running
  <2> HIDE DEF c, m, f
  <2>6. Latest \in Messages!Before("message_complete", f)
    BY <1>1, <2>1, <2>5, BodyIs DEF Messages!Before
  <2> QED
    BY <1>1, <2>1, <2>2, <2>3, <2>4, <2>6, NotifyOrder DEF Frame, f
<1> QED
  BY <1>2, <1>3

LEMMA ChunkSizeOrder ==
  ASSUME IInv, OInv, ChunkSizeStart \/ ChunkSize \/ ChunkParameters \/ ChunkSizeAlmostDone
  PROVE  Ordered
<1> DEFINE f == Framing(parser.flags)
<1>1. pc = "switch" /\ parser.state \in SizeStates
  BY DEF ChunkSizeStart, ChunkSize, ChunkParameters, ChunkSizeAlmostDone, On, SizeStates
<1>2. mark = NoMarks
  <2>1. \A cb \in DataCallbacks : parser.state \notin Section(cb)
    BY <1>1 DEF Section, UrlStates, SizeStates
  <2> QED
    BY <1>1, <2>1, Unmarked
<1>3. IsParser(parser) /\ parser.errno = "OK" /\ f = "chunked" /\ Latest \in {"headers_complete", "chunk_complete"}
  BY <1>1, <1>2, ToldTurn, BodyIs DEF Running
<1>4. SizeStates \cap ColonStates = {}
  BY DEF SizeStates, ColonStates
<1> HIDE DEF f
<1>5. ASSUME NEW q, Advance(q), q.errno = "OK", q.flags = parser.flags, q.state \in SizeStates PROVE Ordered
  <2>1. f \in Frames(q.state) /\ Latest \in Came(q.state, f)
    BY <1>3, <1>5, BodyIs
  <2> QED
    BY <1>1, <1>2, <1>4, <1>5, <2>1, MoveOrder DEF f
<1>6. {"s_chunk_size", "s_chunk_parameters", "s_chunk_size_almost_done"} \subseteq SizeStates
  BY DEF SizeStates
<1>7. ASSUME NEW s \in SizeStates, Advance(To(s)) PROVE Ordered
  <2> DEFINE q == To(s)
  <2>1. q.state = s /\ q.errno = "OK" /\ q.flags = parser.flags
    BY <1>3, ToIs DEF Fields
  <2> QED
    BY <1>5, <1>7, <2>1
<1>8. CASE ChunkSizeStart
  <2> DEFINE d == HexValue[ch]
             q == [parser EXCEPT !.content_length = d, !.state = "s_chunk_size"]
  <2>1. Advance(q) \/ Fail("INVALID_CHUNK_SIZE")
    BY <1>8 DEF ChunkSizeStart
  <2> HIDE DEF d
  <2>2. q.state = "s_chunk_size" /\ q.errno = "OK" /\ q.flags = parser.flags
    BY <1>3 DEF IsParser, Fields
  <2> HIDE DEF q
  <2> QED
    BY <1>5, <1>6, <2>1, <2>2, FailOrder
<1>9. CASE ChunkSize
  <2> DEFINE longer == Longer(16, HexValue[ch])
  <2>1. \/ Advance(To("s_chunk_size_almost_done")) \/ Advance(To("s_chunk_parameters"))
        \/ Fail("INVALID_CONTENT_LENGTH") \/ Fail("INVALID_CHUNK_SIZE")
        \/ Advance(longer)
    <3>1. DOMAIN HexValue = {"0", "1", "2", "9", "c"}
      BY DEF HexValue, Digit, DigitValue
    <3> HIDE DEF longer
    <3> QED
      BY <1>9, <3>1 DEF ChunkSize, longer
  <2>2. longer.state = parser.state /\ longer.errno = "OK" /\ longer.flags = parser.flags
    BY <1>3 DEF Longer, IsParser, Fields
  <2> HIDE DEF longer
  <2> QED
    BY <1>1, <1>5, <1>6, <1>7, <2>1, <2>2, FailOrder
<1>10. CASE ChunkParameters
  <2>1. Advance(To("s_chunk_size_almost_done")) \/ Advance(parser)
    BY <1>10 DEF ChunkParameters
  <2> QED
    BY <1>1, <1>6, <1>7, <2>1, StayOrder
<1>11. CASE ChunkSizeAlmostDone
  <2> DEFINE last == parser.content_length = 0
             fl == IF last THEN parser.flags \cup {"TRAILING"} ELSE parser.flags
             s == IF last THEN "s_header_field_start" ELSE "s_chunk_data"
             q == [parser EXCEPT !.nread = 0, !.flags = fl, !.state = s]
  <2>1. Fail("STRICT") \/ Notify("chunk_header", q, "head", p + 1)
    BY <1>11 DEF ChunkSizeAlmostDone
  <2>2. \/ s = "s_header_field_start" /\ Framing(fl) = "trailer"
        \/ s = "s_chunk_data" /\ Framing(fl) = "chunked"
    <3>1. CASE last
      BY <3>1 DEF Framing
    <3>2. CASE ~last
      BY <1>3, <3>2 DEF f
    <3> QED
      BY <3>1, <3>2
  <2> HIDE DEF fl, s
  <2>3. IsParser(q) /\ q.errno = "OK" /\ q.flags = fl /\ q.state = s
    BY <1>3 DEF IsParser, Fields
  <2> HIDE DEF q
  <2>4. Framing(fl) \in Frames(s) /\ "chunk_header" \in Came(s, Framing(fl)) /\ s \notin ColonStates
    <3>1. CASE s = "s_header_field_start" /\ Framing(fl) = "trailer"
      BY <3>1, HeaderIs DEF Framings, Messages!InHeaders
    <3>2. CASE s = "s_chunk_data" /\ Framing(fl) = "chunked"
      BY <3>2, BodyIs DEF ColonStates
    <3> QED
      BY <2>2, <3>1, <3>2
  <2>5. Frame("chunk_header", q) /\ "chunk_header" \in Callbacks \ DataCallbacks
    BY <2>2, <2>3 DEF Frame, Callbacks, DataCallbacks
  <2>6. Latest \in Messages!Before("chunk_header", f)
    BY <1>3 DEF Messages!Before
  <2> QED
    BY <1>1, <1>2, <2>1, <2>3, <2>4, <2>5, <2>6, NotifyOrder, FailOrder DEF f
<1> QED
  BY <1>8, <1>9, <1>10, <1>11

LEMMA ChunkDataOrder == ASSUME IInv, OInv, ChunkData \/ ChunkDataAlmostDone \/ ChunkDataDone PROVE Ordered
<1> DEFINE f == Framing(parser.flags)
<1>1. pc = "switch" /\ parser.state \in {"s_chunk_data", "s_chunk_data_almost_done", "s_chunk_data_done"}
  BY DEF ChunkData, ChunkDataAlmostDone, ChunkDataDone, On
<1>2. IsParser(parser) /\ parser.errno = "OK" /\ f = "chunked"
  BY <1>1, ToldTurn, BodyIs DEF Running
<1> HIDE DEF f
<1>3. /\ f \in Frames("s_chunk_data") /\ f \in Frames("s_chunk_data_almost_done") /\ f \in Frames("s_chunk_data_done")
      /\ "body" \in Came("s_chunk_data_done", f) /\ Came("s_chunk_data_almost_done", f) = {"body"}
      /\ Came("s_chunk_data_done", f) = {"body"}
      /\ {"s_chunk_data", "s_chunk_data_almost_done", "s_chunk_data_done", "s_chunk_size_start"} \cap ColonStates = {}
  BY <1>2, BodyIs DEF ColonStates
<1>4. CASE ChunkData
  <2> DEFINE left == parser.content_length - ToRead
             s == IF left = 0 THEN "s_chunk_data_almost_done" ELSE "s_chunk_data"
             q == [parser EXCEPT !.content_length = left, !.state = s]
  <2>1. parser.state = "s_chunk_data" /\ Goto(q, "head", p + ToRead, Marked("body")) /\ Quiet
    BY <1>4 DEF ChunkData, On
  <2>2. s \in {"s_chunk_data_almost_done", "s_chunk_data"}
    OBVIOUS
  <2> HIDE DEF left, s
  <2>3. q.errno = "OK" /\ q.flags = parser.flags /\ q.state = s
    BY <1>2 DEF IsParser, Fields
  <2> HIDE DEF q
  <2>4. Framing(q.flags) = f /\ f \in Frames(q.state) /\ q.state \notin ColonStates
    BY <1>3, <2>2, <2>3 DEF f
  <2>5. Told(q, Marked("body"), Latest)
    BY <1>1, <2>1, <2>4, ReadOnOrder DEF f
  <2> QED
    BY <2>1, <2>3, <2>4, <2>5, QuietOrder DEF Running, f
<1>5. CASE ChunkDataAlmostDone
  <2> DEFINE q == To("s_chunk_data_done")
  <2>1. /\ parser.state = "s_chunk_data_almost_done"
        /\ Fail("STRICT") \/ Deliver("body", p - 1, q, "head", p + 1)
    BY <1>5 DEF ChunkDataAlmostDone, On
  <2>2. IsParser(q) /\ q.state = "s_chunk_data_done" /\ q.errno = "OK" /\ q.flags = parser.flags
    BY <1>2, ToIs DEF Fields
  <2> HIDE DEF q
  <2>3. "body" \in DataCallbacks /\ parser.state \in Section("body")
    BY <2>1 DEF DataCallbacks, Section
  <2>4. /\ Latest = "body" \/ (mark["body"] # 0 /\ Latest \in Messages!Before("body", f))
        /\ mark \in [DataCallbacks -> 0 .. p] /\ \A o \in DataCallbacks : o # "body" => mark[o] = 0
    BY <1>1, <1>3, <2>1, <2>3, SectionTold DEF f
  <2>5. CASE Deliver("body", p - 1, q, "head", p + 1)
    <3>1. DeliverMarked(mark, "body", p - 1, q, "head", p + 1)
      BY <2>5 DEF Deliver
    <3> QED
      BY <1>1, <1>3, <2>2, <2>3, <2>4, <3>1, DeliverOrder DEF f
  <2> QED
    BY <2>1, <2>5, FailOrder
<1>6. CASE ChunkDataDone
  <2> DEFINE q == [parser EXCEPT !.state = "s_chunk_size_start", !.nread = 0]
  <2>1. /\ parser.state = "s_chunk_data_done"
        /\ Fail("STRICT") \/ Notify("chunk_complete", q, "head", p + 1)
    BY <1>6 DEF ChunkDataDone, On
  <2>2. IsParser(q) /\ q.state = "s_chunk_size_start" /\ q.errno = "OK" /\ q.flags = parser.flags
    BY <1>2 DEF IsParser, Fields
  <2> HIDE DEF q
  <2>3. mark = NoMarks
    <3>1. \A cb \in DataCallbacks : parser.state \notin Section(cb)
      BY <2>1 DEF Section, UrlStates
    <3> QED
      BY <1>1, <3>1, Unmarked
  <2>4. Latest \in Messages!Before("chunk_complete", f)
    <3>1. Latest = "body"
      BY <1>1, <1>3, <2>1, <2>3, ToldTurn DEF Running, f
    <3> QED
      BY <1>2, <3>1 DEF Messages!Before
  <2>5. "s_chunk_size_start" \in SizeStates /\ "chunk_complete" \in Callbacks \ DataCallbacks
    BY DEF SizeStates, Callbacks, DataCallbacks
  <2>6. f \in Frames("s_chunk_size_start") /\ "chunk_complete" \in Came("s_chunk_size_start", f)
    BY <1>2, ChunkBeginIs
  <2>7. Frame("chunk_complete", q)
    BY <2>2 DEF Frame
  <2> QED
    BY <1>1, <1>3, <2>1, <2>2, <2>3, <2>4, <2>5, <2>6, <2>7, NotifyOrder, FailOrder DEF f
<1> QED
  BY <1>4, <1>5, <1>6

-----------------------------------------------------------------------------
(* The theorems.                                                           *)

LEMMA InitIInv == Init => IInv
<1> SUFFICES ASSUME Init PROVE IInv
  OBVIOUS
<1>1. /\ wire \in DOMAIN Traffic /\ settings \in {"chttp", "accepting"} /\ parser = InitialParser
      /\ p = 1 /\ end = 0 /\ start = 0 /\ mark = NoMarks /\ pc = "idle" /\ log = <<>> /\ torn = FALSE
  BY DEF Init
<1>2. Len(data) \in Nat
  BY <1>1, DataType
<1>3. IsParser(parser) /\ parser.nread = 0 /\ parser.state = "s_start_req" /\ parser.errno = "OK"
  <2>1. /\ DOMAIN parser = Fields /\ parser.nread = 0 /\ parser.state = "s_start_req" /\ parser.errno = "OK"
        /\ parser.index = 0 /\ parser.content_length = 0 /\ parser.http_major = 0 /\ parser.http_minor = 0
        /\ parser.method = "GET" /\ parser.upgrade = FALSE
    BY <1>1 DEF InitialParser, Fields
  <2>2. "GET" \in DOMAIN MethodString
    BY DEF MethodString
  <2>3. 0 \in 0 .. MaxVersion /\ 0 \in 0 .. ULLongMax /\ 0 \in Nat
    BY BoundsPositive
  <2> QED
    BY <2>1, <2>2, <2>3, Zenon DEF IsParser
<1>4. Placed(parser, pc, p, NoMarks) /\ parser.nread <= MaxHeader
  <2>1. MaxHeader \in Nat
    BY BoundsPositive
  <2> QED
    BY <1>1, <1>3, <2>1, NoMarksType DEF Placed, Sane, ChunkStates
<1>5. log \in LogType /\ LogOf(log)
  BY <1>1 DEF LogType, LogOf
<1>6. end \in 0 .. Len(data) /\ p \in 1 .. end + 1 /\ start \in 0 .. p /\ mark \in [DataCallbacks -> 0 .. p]
  BY <1>1, <1>2, NoMarksType
<1> QED
  BY <1>1, <1>3, <1>4, <1>5, <1>6 DEF IInv, Running

LEMMA StepIInv == IInv /\ [Next]_vars => IInv'
<1> SUFFICES ASSUME IInv, [Next]_vars PROVE IInv'
  OBVIOUS
<1>1. CASE (\E n \in 1 .. Unread : pc = "idle" /\ Execute(n)) \/ ExecuteEof
  BY <1>1, CallIInv
<1>2. CASE LoopHead \/ EndOfData \/ \E cb \in DataCallbacks : Leftover(cb)
  BY <1>2, HeadIInv
<1>3. CASE Dead \/ StartReq \/ ReqMethod \/ SpacesBeforeUrl
  BY <1>3, MethodIInv
<1>4. CASE Url
  BY <1>4, UrlIInv
<1>5. CASE HttpStart \/ HttpLiteral \/ FirstMajor \/ Major \/ FirstMinor \/ Minor \/ LineAlmostDone
  BY <1>5, VersionIInv
<1>6. CASE HeaderFieldStart \/ EnterLoop
  BY <1>6, FieldStartIInv
<1>7. CASE LoopEnd
  BY <1>7, LoopEndIInv
<1>8. CASE FieldChar \/ FieldStop
  BY <1>8, FieldIInv
<1>9. CASE ValueDiscardWs \/ ValueStart
  BY <1>9, ValueStartIInv
<1>10. CASE ValueChar
  BY <1>10, ValueCharIInv
<1>11. CASE ValueCR \/ ValueLF
  BY <1>11, ValueEndIInv
<1>12. CASE HeaderAlmostDone \/ ValueLws \/ ValueDiscardWsAlmostDone \/ ValueDiscardLws
  BY <1>12, ValueLinesIInv
<1>13. CASE HeadersAlmostDone \/ HeadersDone
  BY <1>13, HeadersIInv
<1>14. CASE BodyIdentity \/ MessageDone
  BY <1>14, BodyIInv
<1>15. CASE ChunkSizeStart \/ ChunkSize \/ ChunkParameters \/ ChunkSizeAlmostDone
  BY <1>15, ChunkSizeIInv
<1>16. CASE ChunkData \/ ChunkDataAlmostDone \/ ChunkDataDone
  BY <1>16, ChunkDataIInv
<1>17. CASE UNCHANGED vars
  <2>1. data' = data
    BY <1>17 DEF vars, data
  <2> QED
    BY <1>17, <2>1 DEF vars, IInv, Placed
<1> QED
  BY <1>1, <1>2, <1>3, <1>4, <1>5, <1>6, <1>7, <1>8, <1>9, <1>10, <1>11, <1>12, <1>13, <1>14, <1>15, <1>16,
     <1>17 DEF Next, Loop, Ended

LEMMA AlwaysIInv == Spec => []IInv
BY InitIInv, StepIInv, PTL DEF Spec

\* The types of the parser's fields, of its indexes into the data and of its
\* marks: whatever the bytes and the cuts, the versions and the lengths do not
\* overflow, a header without an error is within HTTP_MAX_HEADER_SIZE, and no
\* mark points behind the byte in turn.
THEOREM TypeCorrect == Spec => []TypeOK
<1>1. IInv => TypeOK
  <2> SUFFICES ASSUME IInv PROVE TypeOK
    OBVIOUS
  <2>1. parser.errno = "OK" => parser.nread <= MaxHeader
    BY DEF IInv
  <2>2. IsParser(parser) /\ pc \in {"idle", "head", "switch", "loop", "closed", "raised"}
    BY DEF IInv, Running
  <2> QED
    BY <2>1, <2>2 DEF IInv, IsParser, TypeOK
<1> QED
  BY <1>1, AlwaysIInv, PTL

\* What http_parser.c asserts holds for any bytes, however they are cut into
\* calls: no callback after an error, one mark at most at the end of the data,
\* a chunk's size counted from its first byte, lengths that are known where
\* they are used, and header states each loop has a case for.
THEOREM AssertionsHold == Spec => []AssertsHold
<1>1. IInv => AssertsHold
  <2> SUFFICES ASSUME IInv PROVE AssertsHold
    OBVIOUS
  <2>1. pc = "head" => \A a, b \in DataCallbacks : mark[a] # 0 /\ mark[b] # 0 => a = b
    <3> SUFFICES ASSUME pc = "head", NEW a \in DataCallbacks, NEW b \in DataCallbacks,
                        mark[a] # 0, mark[b] # 0
                 PROVE  a = b
      OBVIOUS
    <3>1. MarksFit(parser.state, mark) /\ mark \in [DataCallbacks -> 0 .. p]
      BY DEF IInv, Placed, Running
    <3> QED
      BY <3>1, OneMark DEF MarksFit
  <2>2. ASSUME pc \in {"switch", "loop"}
        PROVE  /\ Sane(parser)
               /\ pc = "switch" /\ parser.state = "s_chunk_size_start" => parser.nread = 1
    BY <2>2, Turn
  <2>3. pc \in Running => parser.errno = "OK"
    BY DEF IInv
  <2>4. ValueStates \cap {"h_connection", "h_transfer_encoding"} = {}
    BY DEF ValueStates
  <2>5. FieldStates \subseteq {"h_general", "h_C", "h_CON", "h_connection", "h_content_length",
                               "h_transfer_encoding", "h_upgrade"} \cup DOMAIN Matching
    BY DEF FieldStates, Matching
  <2> QED
    BY <2>1, <2>2, <2>3, <2>4, <2>5 DEF AssertsHold, Sane, ChunkStates, On, InLoop, Running
<1> QED
  BY <1>1, AlwaysIInv, PTL

\* Nothing has been reported yet.
LEMMA InitOInv == Init => OInv /\ Messages!Init
<1> SUFFICES ASSUME Init PROVE OInv /\ Messages!Init
  OBVIOUS
<1>1. parser = InitialParser /\ mark = NoMarks /\ pc = "idle" /\ log = <<>>
      /\ request = [URL |-> {}, Head |-> {}, last_field |-> {}, Body |-> {}]
  BY DEF Init
<1>2. parser.state = "s_start_req" /\ parser.flags = {} /\ parser.errno = "OK"
  BY <1>1 DEF InitialParser
<1>3. Latest = "none" /\ Framing(parser.flags) = "plain"
  BY <1>1, <1>2 DEF Latest, Framing
<1>4. Told(parser, NoMarks, Latest)
  <2>1. "plain" \in Frames("s_start_req") /\ "none" \in Came("s_start_req", "plain")
    BY StartIs DEF Framings
  <2> QED
    BY <1>2, <1>3, <2>1 DEF Told, NoMarks, ColonStates
<1>5. OInv
  BY <1>1, <1>2, <1>3, <1>4 DEF OInv, Running, EofExact
<1>6. [i \in DOMAIN log |-> log[i].cb] = <<>>
  BY <1>1
<1> QED
  BY <1>3, <1>5, <1>6 DEF Messages!Init

LEMMA StepOrder == IInv /\ OInv /\ [Next]_vars => Ordered
<1> SUFFICES ASSUME IInv, OInv, [Next]_vars PROVE Ordered
  OBVIOUS
<1>1. CASE \E n \in 1 .. Unread : pc = "idle" /\ Execute(n)
  BY <1>1, ExecuteOrder
<1>2. CASE ExecuteEof
  BY <1>2, EofOrder
<1>3. CASE LoopHead \/ EndOfData \/ \E cb \in DataCallbacks : Leftover(cb)
  BY <1>3, HeadOrder
<1>4. CASE Dead \/ StartReq \/ ReqMethod \/ SpacesBeforeUrl
  BY <1>4, MethodOrder
<1>5. CASE Url
  BY <1>5, UrlOrder
<1>6. CASE HttpStart \/ HttpLiteral \/ FirstMajor \/ Major \/ FirstMinor \/ Minor \/ LineAlmostDone
  BY <1>6, VersionOrder
<1>7. CASE HeaderFieldStart \/ EnterLoop
  BY <1>7, FieldStartOrder
<1>8. CASE LoopEnd
  BY <1>8, LoopEndOrder
<1>9. CASE FieldChar \/ FieldStop
  BY <1>9, FieldOrder
<1>10. CASE ValueDiscardWs \/ ValueStart
  BY <1>10, ValueStartOrder
<1>11. CASE ValueChar
  BY <1>11, ValueCharOrder
<1>12. CASE ValueCR \/ ValueLF
  BY <1>12, ValueEndOrder
<1>13. CASE HeaderAlmostDone \/ ValueLws \/ ValueDiscardWsAlmostDone \/ ValueDiscardLws
  BY <1>13, ValueLinesOrder
<1>14. CASE HeadersAlmostDone \/ HeadersDone
  BY <1>14, HeadersOrder
<1>15. CASE BodyIdentity \/ MessageDone
  BY <1>15, BodyOrder
<1>16. CASE ChunkSizeStart \/ ChunkSize \/ ChunkParameters \/ ChunkSizeAlmostDone
  BY <1>16, ChunkSizeOrder
<1>17. CASE ChunkData \/ ChunkDataAlmostDone \/ ChunkDataDone
  BY <1>17, ChunkDataOrder
<1>18. CASE UNCHANGED vars
  <2>1. Latest' = Latest /\ UNCHANGED Messages!vars
    BY <1>18 DEF vars, Latest, Messages!vars, Framing
  <2>2. Told(parser, mark, Latest)' = Told(parser, mark, Latest) /\ Told(parser, NoMarks, Latest)' = Told(parser, NoMarks, Latest)
    BY <1>18, <2>1 DEF vars, Told
  <2>3. OInv'
    BY <1>18, <2>1, <2>2 DEF vars, OInv, EofExact
  <2> QED
    BY <1>18, <2>1, <2>3 DEF vars, Ordered
<1> QED
  BY <1>1, <1>2, <1>3, <1>4, <1>5, <1>6, <1>7, <1>8, <1>9, <1>10, <1>11, <1>12, <1>13, <1>14, <1>15, <1>16, <1>17,
     <1>18 DEF Next, Loop, Ended

LEMMA AlwaysOInv == Spec => []OInv
<1>1. IInv /\ OInv /\ [Next]_vars => OInv'
  BY StepOrder DEF Ordered
<1> QED
  BY <1>1, InitOInv, AlwaysIInv, PTL DEF Spec

\* Whatever the bytes and the cuts, a connection that ends is in error exactly
\* when a request is under way: its latest callback is not message_complete.
THEOREM EndIsExact == Spec => []EofExact
<1>1. OInv => EofExact
  BY DEF OInv
<1> QED
  BY <1>1, AlwaysOInv, PTL

\* The glue can raise its error, of a field whose name is nil, only at a piece
\* of a value of which it has been handed one before.
THEOREM RaisesOnlyAtPieces == Spec => RaisesAtPieces
<1>1. IInv /\ OInv /\ [Next]_vars => [pc # "raised" /\ pc' = "raised" => Len(log') = Len(log)]_vars
  BY StepOrder DEF Ordered
<1> QED
  BY <1>1, AlwaysIInv, AlwaysOInv, PTL DEF Spec, RaisesAtPieces

\* http_parser_execute implements HttpMessages: for any bytes, cut anywhere,
\* the callbacks of a message come each in its place.
THEOREM InOrderAlways == Spec => InOrder
<1>1. Init => Messages!Init
  BY InitOInv
<1>2. IInv /\ OInv /\ [Next]_vars => [Messages!Next]_(Messages!vars)
  BY StepOrder DEF Ordered
<1> QED
  BY <1>1, <1>2, AlwaysIInv, AlwaysOInv, PTL DEF Spec, InOrder, Messages!Spec

=============================================================================
