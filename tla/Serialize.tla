----------------------------- MODULE Serialize -----------------------------
(***************************************************************************)
(* src/ltask/serialize.c: the arguments of a task or a message, Lua values *)
(* and tables of them, are packed into a chain of blocks that another      *)
(* thread unpacks and frees while it reads.                                *)
(*                                                                         *)
(* A step packs or unpacks one value; the recursions over tables are two   *)
(* stacks, todo and open, with the innermost table first.  A chain is the  *)
(* sequence of the bytes in its blocks, the i-th byte in BlockOf(i).  A    *)
(* byte is a record that tells what it is a byte of, so a byte read from   *)
(* the wrong place is recognised; Base is the number of values of a byte.  *)
(***************************************************************************)
EXTENDS Integers, Sequences, FiniteSets, SequencesExt

CONSTANTS BlockSize,   \* BLOCK_SIZE: 128
          Base,        \* values of a byte: 256
          MaxCookie,   \* MAX_COOKIE: 32
          MaxDepth,    \* MAX_DEPTH: 32
          Values,      \* the Lua values there are, with those inside tables
          Inputs       \* the argument lists to pack

VARIABLES input,   \* the argument list
          todo,    \* what _pack_one has still to pack, of each table it is in
          wb,      \* struct write_block and the blocks behind it
          rb,      \* struct read_block and the blocks not yet freed
          open,    \* the tables being unpacked
          result,  \* the values on the receiver's stack
          pc       \* "pack", "unpack", "done", "error", or "invalid"

vars == <<input, todo, wb, rb, open, result, pc>>

-----------------------------------------------------------------------------
\* Lua values
Nil == [t |-> "nil"]
Bool(b) == [t |-> "boolean", bool |-> b]
Num(n) == [t |-> "integer", int |-> n]
Real == [t |-> "real"]
Ptr == [t |-> "userdata"]
Str(n) == [t |-> "string", len |-> n]
Table(m) == [t |-> "table", map |-> m]         \* m is a set of <<key, value>>
Function == [t |-> "function"]
None == [t |-> "none"]                         \* no key read yet

\* The values of a signed integer of n bytes.
Power[n \in 0 .. 8] == IF n = 0 THEN 1 ELSE Base * Power[n - 1]
Ints(n) == {v \in Int : -Power[n] <= 2 * v /\ 2 * v < Power[n]}
Int32 == Ints(4)

\* A block holds the length of the chain, half of the bytes have the sign bit
\* set.  Integers have 64 bits, lengths of strings are ints, tables are finite,
\* with a value for each key and neither nil as a key nor as a value.
IsScalar(v) ==
  \/ v \in {Nil, Bool(TRUE), Bool(FALSE), Real, Ptr, Function}
  \/ v.t = "integer" /\ v = Num(v.int) /\ v.int \in Ints(8)
  \/ v.t = "string" /\ v = Str(v.len) /\ v.len \in Int32 /\ v.len >= 0
IsTable(v) ==
  /\ v.t = "table" /\ v = Table(v.map) /\ IsFiniteSet(v.map)
  /\ v.map \subseteq (Values \ {Nil}) \X (Values \ {Nil})
  /\ \A p, q \in v.map : p[1] = q[1] => p = q
ASSUME BlockHoldsHeader == BlockSize \in Nat /\ BlockSize >= 4
ASSUME BytesAreSigned == Base \in Nat /\ Base >= 2 /\ Base % 2 = 0
ASSUME LimitsAreNumbers == MaxCookie \in Nat \ {0} /\ MaxDepth \in Nat
ASSUME ValuesAreLua == Nil \in Values /\ \A v \in Values : IsScalar(v) \/ IsTable(v)
ASSUME InputsAreLists == \A list \in Inputs : list \in Seq(Values)

\* Bytes: a type byte with its cookie, a byte of an integer, the k-th byte of
\* a string or a real number, and what malloc leaves in a block.
Type(t, cookie) == [k |-> t, a |-> cookie, b |-> 0]
Byte(n) == [k |-> "byte", a |-> n, b |-> 0]
Content(k, n) == [i \in 1 .. n |-> [k |-> k, a |-> n, b |-> i]]
Garbage == [k |-> "garbage", a |-> 0, b |-> 0]

\* n bytes of an integer, the lowest first, and back with the bytes of a given
\* sign behind them.
IntBytes(v, n) ==
  LET rest[i \in 0 .. n] == IF i = 0 THEN v ELSE rest[i - 1] \div Base
  IN  [i \in 1 .. n |-> Byte(rest[i - 1] % Base)]
Number(s, sign) ==
  LET top[i \in 0 .. Len(s)] ==
        IF i = 0 THEN sign ELSE s[Len(s) + 1 - i].a + Base * top[i - 1]
  IN  top[Len(s)]
Unsigned(s) == Number(s, 0)
Signed(s) == Number(s, IF 2 * s[Len(s)].a >= Base THEN -1 ELSE 0)

-----------------------------------------------------------------------------
\* wb_push: copy s, not empty, behind what is written (w.at: current and ptr),
\* into as many blocks as it takes.
BlockOf(i) == (i + BlockSize - 1) \div BlockSize
Push(w, s) ==
  LET end == w.at + Len(s)
      room == BlockOf(end) * BlockSize
  IN  [bytes |-> [i \in 1 .. IF room > Len(w.bytes) THEN room ELSE Len(w.bytes) |->
                    IF i - w.at \in DOMAIN s THEN s[i - w.at]
                    ELSE IF i \in DOMAIN w.bytes THEN w.bytes[i] ELSE Garbage],
       at |-> end, len |-> w.len + Len(s)]

\* wb_init for a new chain: room for the length, which wb_close fills in.
Header(n) == IntBytes(n, 4)
WbInit == Push([bytes |-> <<>>, at |-> 0, len |-> 0], Header(0))
WbClose(w) == Push([w EXCEPT !.at = 0], Header(w.len))

\* Mutant: the first number too large for one byte is sent in one.
WidthByte(v) ==
  CASE v = 0 -> [cookie |-> 0, bytes |-> 0]
    [] v \notin Int32 -> [cookie |-> 6, bytes |-> 8]
    [] v \in Int32 /\ v < 0 -> [cookie |-> 4, bytes |-> 4]
    [] v \in Int32 /\ v \in 1 .. Base -> [cookie |-> 1, bytes |-> 1]
    [] v \in Int32 /\ v \in Base + 1 .. Base * Base - 1 -> [cookie |-> 2, bytes |-> 2]
    [] v \in Int32 /\ v > Base /\ v >= Base * Base -> [cookie |-> 4, bytes |-> 4]

\* wb_integer: the cookie and the width in bytes an integer travels with.
Width(v) ==
  CASE v = 0 -> [cookie |-> 0, bytes |-> 0]
    [] v \notin Int32 -> [cookie |-> 6, bytes |-> 8]
    [] v \in Int32 /\ v < 0 -> [cookie |-> 4, bytes |-> 4]
    [] v \in Int32 /\ v \in 1 .. Base - 1 -> [cookie |-> 1, bytes |-> 1]
    [] v \in Int32 /\ v \in Base .. Base * Base - 1 -> [cookie |-> 2, bytes |-> 2]
    [] v \in Int32 /\ v >= Base * Base -> [cookie |-> 4, bytes |-> 4]
WbInteger(v) == <<Type("number", Width(v).cookie)>> \o IntBytes(v, Width(v).bytes)

\* wb_string: the length is in the type byte, or in 2 or 4 bytes behind it.
LengthBytes(n) == IF n < Base * Base THEN 2 ELSE 4
WbString(n) ==
  (IF n < MaxCookie THEN <<Type("short", n)>>
   ELSE <<Type("long", LengthBytes(n))>> \o IntBytes(n, LengthBytes(n)))
  \o Content("string", n)

\* What lua_rawlen may return for a table: a border of it.
Indices(m) == {p[1].int : p \in {q \in m : q[1].t = "integer"}}
Borders(m) == {n \in {0} \cup Indices(m) : n >= 0 /\ n \in Int32 /\ n + 1 \notin Indices(m)}
ValueAt(m, i) == IF i \in Indices(m) THEN (CHOOSE p \in m : p[1] = Num(i))[2] ELSE Nil

\* wb_table_array's head, then what is packed after it: the values at 1 .. n,
\* and keys and values of the other pairs in any order (wb_table_hash).
TableHead(n) ==
  IF n >= MaxCookie - 1 THEN <<Type("table", MaxCookie - 1)>> \o WbInteger(n)
  ELSE <<Type("table", n)>>
HashPart(m, n) == {p \in m : ~(p[1].t = "integer" /\ p[1].int \in 1 .. n)}
Orders(S) == {s \in [1 .. Cardinality(S) -> S] : Range(s) = S}
TableItems(m, n, pairs) ==
  [i \in 1 .. n + 2 * Len(pairs) |->
     IF i <= n THEN ValueAt(m, i) ELSE pairs[(i - n + 1) \div 2][2 - ((i - n) % 2)]]

\* The bytes of a value that is not a table.
Plain(v) ==
  CASE v.t = "nil" -> <<Type("nil", 0)>>
    [] v.t = "boolean" -> <<Type("boolean", IF v.bool THEN 1 ELSE 0)>>
    [] v.t = "integer" -> WbInteger(v.int)
    [] v.t = "real" -> <<Type("number", 8)>> \o Content("real", 8)
    [] v.t = "userdata" -> <<Type("userdata", 0)>> \o Content("userdata", 8)
    [] v.t = "string" -> WbString(v.len)

-----------------------------------------------------------------------------
\* seri_pack starts with an empty chain and all arguments to pack.
Init ==
  /\ input \in Inputs
  /\ todo = <<input>>
  /\ wb = WbInit
  /\ rb = [bytes |-> <<>>, live |-> {}, cur |-> 1, ptr |-> 0, len |-> 0,
           data |-> <<>>, ok |-> TRUE, fault |-> FALSE]
  /\ open = <<>> /\ result = <<>>
  /\ pc = "pack"

\* The next value and its depth; the length of a chain is an int (the bound).
Packing == pc = "pack" /\ todo[1] # <<>>
Value == Head(todo[1])
TooDeep == Len(todo) - 1 > MaxDepth
WbPush(s) == wb' = Push(wb, s) /\ wb'.len \in Int32

\* _pack_one refuses the value: wb_free leaves an empty chain, an error is raised.
Refuse ==
  /\ Packing
  /\ TooDeep \/ Value.t = "function"
  /\ wb' = [bytes |-> <<>>, at |-> 0, len |-> 0]
  /\ pc' = "error"
  /\ UNCHANGED <<input, todo, rb, open, result>>

\* _pack_one packs a plain value ...
PackPlain ==
  /\ Packing /\ ~TooDeep
  /\ Value.t \notin {"table", "function"}
  /\ WbPush(Plain(Value))
  /\ todo' = [todo EXCEPT ![1] = Tail(@)]
  /\ UNCHANGED <<input, rb, open, result, pc>>

\* ... or begins a table (wb_table), whose contents are one level deeper ...
PackTable ==
  /\ Packing /\ ~TooDeep
  /\ Value.t = "table"
  /\ \E n \in Borders(Value.map) : \E pairs \in Orders(HashPart(Value.map, n)) :
       /\ WbPush(TableHead(n))
       /\ todo' = <<TableItems(Value.map, n, pairs)>> \o [todo EXCEPT ![1] = Tail(@)]
  /\ UNCHANGED <<input, rb, open, result, pc>>

\* ... and ends it with a nil.
EndTable ==
  /\ pc = "pack" /\ todo[1] = <<>> /\ Len(todo) > 1
  /\ WbPush(Plain(Nil))
  /\ todo' = Tail(todo)
  /\ UNCHANGED <<input, rb, open, result, pc>>

\* rb_init: the length announced, without the bytes that announce it.
RbInit(w) ==
  [bytes |-> w.bytes, live |-> {BlockOf(i) : i \in DOMAIN w.bytes}, cur |-> 1, ptr |-> 4,
   len |-> Signed(SubSeq(w.bytes, 1, 4)) - 4, data |-> <<>>, ok |-> TRUE, fault |-> FALSE]

\* All packed: seri_pack closes the chain, and the receiver calls seri_unpack.
HandOver ==
  /\ pc = "pack" /\ todo[1] = <<>> /\ Len(todo) = 1
  /\ wb' = WbClose(wb)
  /\ rb' = RbInit(wb')
  /\ pc' = "unpack"
  /\ UNCHANGED <<input, todo, open, result>>

-----------------------------------------------------------------------------
\* rb_read: the next n bytes, as data, if there are that many.  A block that is
\* read to its end is freed before the next read; a value that does not fit
\* (copy) frees a block in each turn of the loop, which ends in a block it does
\* not fill.  Freeing a block that is not allocated, or reading it, is a fault.
At(r) == (r.cur - 1) * BlockSize + r.ptr
\* Mutant: the loop leaves the last block of a value for the next read.
FreedShort(r, n) ==
  LET full == r.ptr = BlockSize
      copy == IF full THEN BlockSize ELSE BlockSize - r.ptr
      turns == IF n <= copy THEN 0 ELSE (n - copy) \div BlockSize
  IN  r.cur .. r.cur + (IF full THEN 1 ELSE 0) + turns - 1
Freed(r, n) ==
  LET full == r.ptr = BlockSize
      copy == IF full THEN BlockSize ELSE BlockSize - r.ptr
      turns == IF n <= copy THEN 0 ELSE (n - copy) \div BlockSize + 1
  IN  r.cur .. r.cur + (IF full THEN 1 ELSE 0) + turns - 1
RbRead(r, n) ==
  LET freed == Freed(r, n)
      cur == r.cur + Cardinality(freed)
      touched == freed \cup {BlockOf(At(r) + i) : i \in 1 .. n}
  IN  IF r.len < n THEN [r EXCEPT !.data = <<>>, !.ok = FALSE]
      ELSE [bytes |-> r.bytes, live |-> r.live \ freed,
            cur |-> cur, ptr |-> At(r) + n - (cur - 1) * BlockSize, len |-> r.len - n,
            data |-> [i \in 1 .. n |-> IF BlockOf(At(r) + i) \in r.live
                                       THEN r.bytes[At(r) + i] ELSE Garbage],
            ok |-> TRUE, fault |-> r.fault \/ ~(touched \subseteq r.live)]

\* What reading a value yields: the reader, and a value or that there is none.
Read(r, v) == [r |-> r, v |-> v]
Invalid(r) == Read(r, [t |-> "invalid"])
AreBytes(r) == \A i \in DOMAIN r.data : r.data[i].k = "byte"

\* get_integer
Bytes(cookie) == IF cookie = 6 THEN 8 ELSE cookie
GetInteger(r, cookie) ==
  LET q == RbRead(r, Bytes(cookie))
      n == IF cookie >= 4 THEN Signed(q.data) ELSE Unsigned(q.data)
  IN  IF cookie = 0 THEN Read(r, Num(0))
      ELSE IF cookie \in {1, 2, 4, 6} /\ q.ok /\ AreBytes(q) THEN Read(q, Num(n))
      ELSE Invalid(q)

\* get_real, _get_pointer and _get_buffer: n bytes of the kind k, or none.
GetContent(r, k, n, v) ==
  LET q == RbRead(r, n)
  IN  IF q.ok /\ q.data = Content(k, n) THEN Read(q, v) ELSE Invalid(q)

\* The length of a long string, then the string.
GetLong(r, cookie) ==
  LET q == RbRead(r, cookie)
  IN  IF cookie \in {2, 4} /\ q.ok /\ AreBytes(q)
      THEN GetContent(q, "string", Unsigned(q.data), Str(Unsigned(q.data)))
      ELSE Invalid(q)

\* _unpack_table's head: the size of the array part, in the cookie or behind it.
Opens(n) == [t |-> "open", want |-> n]
GetTable(r, cookie) ==
  LET q == RbRead(r, 1)
      n == GetInteger(q, q.data[1].a)
  IN  IF cookie # MaxCookie - 1 THEN Read(r, Opens(cookie))
      ELSE IF ~q.ok \/ q.data[1].k # "number" \/ q.data[1].a = 8 THEN Invalid(q)
      ELSE IF n.v.t = "invalid" THEN n
      ELSE Read(n.r, Opens(n.v.int))

\* _push_value: the value that follows the type byte b.
PushValue(r, b) ==
  CASE b.k = "nil" -> Read(r, Nil)
    [] b.k = "boolean" -> Read(r, Bool(b.a = 1))
    [] b.k = "number" /\ b.a = 8 -> GetContent(r, "real", 8, Real)
    [] b.k = "number" /\ b.a # 8 -> GetInteger(r, b.a)
    [] b.k = "userdata" -> GetContent(r, "userdata", 8, Ptr)
    [] b.k = "short" -> GetContent(r, "string", b.a, Str(b.a))
    [] b.k = "long" -> GetLong(r, b.a)
    [] b.k = "table" -> GetTable(r, b.a)
    [] OTHER -> Invalid(r)

\* A table that is being unpacked takes a value as the next of its array, as a
\* key, or under the key read before; the key nil ends it.
NewTable(n) == [want |-> n, got |-> 0, map |-> {}, key |-> None]
Into(f, v) ==
  LET store(k) == IF v = Nil THEN f.map ELSE f.map \cup {<<k, v>>}
  IN  IF f.got < f.want THEN [f EXCEPT !.got = @ + 1, !.map = store(Num(f.got + 1))]
      ELSE IF f.key # None THEN [f EXCEPT !.key = None, !.map = store(f.key)]
      ELSE [f EXCEPT !.key = v]
Ends(f, v) == f.got >= f.want /\ f.key = None /\ v = Nil

\* A value that is complete goes into the innermost table or onto the stack,
\* and so does a table that it completes.
Place(tables, out, v) ==
  IF tables = <<>> THEN [open |-> tables, result |-> Append(out, v)]
  ELSE [open |-> [tables EXCEPT ![1] = Into(@, v)], result |-> out]
Deliver(tables, out, v) ==
  IF tables # <<>> /\ Ends(tables[1], v) THEN Place(Tail(tables), out, Table(tables[1].map))
  ELSE Place(tables, out, v)

\* _unpack_one, and the loop of seri_unpack: the next value is read.
UnpackOne ==
  /\ pc = "unpack" /\ RbRead(rb, 1).ok
  /\ LET r == RbRead(rb, 1)
         g == PushValue(r, r.data[1])
         d == IF g.v.t = "open" THEN [open |-> <<NewTable(g.v.want)>> \o open, result |-> result]
              ELSE Deliver(open, result, g.v)
     IN  /\ rb' = g.r
         /\ IF g.v.t = "invalid" THEN pc' = "invalid" /\ UNCHANGED <<open, result>>
            ELSE pc' = pc /\ open' = d.open /\ result' = d.result
  /\ UNCHANGED <<input, todo, wb>>

\* Mutant: the last block is not freed.
UnpackEndLeak ==
  /\ pc = "unpack" /\ ~RbRead(rb, 1).ok
  /\ pc' = IF open = <<>> THEN "done" ELSE "invalid"
  /\ rb' = [rb EXCEPT !.len = 0, !.ptr = 0]
  /\ UNCHANGED <<input, todo, wb, open, result>>

\* No byte is left: seri_unpack frees the last blocks (rb_close); inside a
\* table that would be an invalid stream.
UnpackEnd ==
  /\ pc = "unpack" /\ ~RbRead(rb, 1).ok
  /\ pc' = IF open = <<>> THEN "done" ELSE "invalid"
  /\ rb' = [rb EXCEPT !.live = {b \in @ : b < rb.cur}, !.len = 0, !.ptr = 0]
  /\ UNCHANGED <<input, todo, wb, open, result>>

\* One of the two calls has returned or raised an error; nothing follows.
Ended == pc \in {"done", "error", "invalid"} /\ UNCHANGED vars

Next == Refuse \/ PackPlain \/ PackTable \/ EndTable \/ HandOver \/ UnpackOne \/ UnpackEnd \/ Ended

Spec == Init /\ [][Next]_vars

-----------------------------------------------------------------------------
\* Blocks are never written or read across their ends, and the two lengths
\* count the bytes between the ends of the chain: the writer's those before its
\* position, the reader's those behind it.
TypeOK ==
  /\ pc \in {"pack", "unpack", "done", "error", "invalid"}
  /\ Len(wb.bytes) % BlockSize = 0
  /\ rb.ptr \in 0 .. BlockSize
  /\ rb.live \subseteq {BlockOf(i) : i \in DOMAIN rb.bytes}
  /\ pc = "pack" => wb.len = wb.at /\ Len(wb.bytes) - wb.at \in 0 .. BlockSize - 1
  /\ pc = "unpack" => rb.len = wb.len - 4 - At(rb)

\* Whether _pack_one packs a value, with all that is inside it, when n levels
\* of tables are left.
Travels[n \in 0 .. MaxDepth + 1] ==
  [v \in Values |->
     /\ n > 0 /\ v.t # "function"
     /\ v.t = "table" => \A p \in v.map : Travels[n - 1][p[1]] /\ Travels[n - 1][p[2]]]

\* What one side packs the other unpacks: the same values in the same order,
\* with tables rebuilt pair by pair, wherever block boundaries fall between and
\* inside the values, and no stream that was packed is ever found invalid.
\* Exactly the lists with a value that cannot travel are refused.
RoundTrip ==
  /\ pc # "invalid"
  /\ pc = "done" => result = input
  /\ IsPrefix(result, input)
  /\ pc \in {"error", "unpack"} => (pc = "error" <=> \E i \in DOMAIN input : ~Travels[MaxDepth + 1][input[i]])

\* No block is read after it was freed, freed twice, or missing at the end of
\* the chain, although rb_read frees blocks while values straddle them; and when
\* unpacking is over no block is left.
FreedOnce ==
  /\ ~rb.fault
  /\ pc = "done" => rb.live = {}
=============================================================================
