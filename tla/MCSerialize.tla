---------------------------- MODULE MCSerialize ----------------------------
\* Bytes of 2 bits, blocks of 6 bytes, cookies below 3 and tables 2 deep, so
\* that every width has its boundaries among small values, and a value of 8 or
\* more bytes lies across two or three blocks.
EXTENDS Serialize

Scalars ==
  {Nil, Bool(TRUE), Bool(FALSE), Real, Ptr, Function}
    \cup {Num(n) : n \in {0, 1, 3, 4, 15, 16, 127, 128, -1, -128, -129, 32767, -32768}}
    \cup {Str(n) : n \in {0, 1, 2, 3, 9, 15, 16, 17}}
Nested == Table({<<Num(1), Table({<<Num(1), Str(2)>>})>>})
Tables ==
  {Table({}),
   Table({<<Num(1), Num(16)>>}),
   Table({<<Num(1), Real>>, <<Num(2), Str(3)>>}),
   Table({<<Num(1), Str(1)>>, <<Num(2), Num(0)>>, <<Num(4), Num(4)>>}),
   Table({<<Str(2), Num(-1)>>, <<Num(1), Ptr>>, <<Bool(FALSE), Table({})>>}),
   Table({<<Table({}), Nested>>}),
   Table({<<Num(0), Str(16)>>, <<Num(-1), Bool(TRUE)>>}),
   Nested,
   Table({<<Num(1), Nested>>}),
   Table({<<Str(0), Table({<<Num(1), Num(1)>>, <<Num(2), Function>>})>>})}
\* The argument lists hold these; the values inside tables come on top.
Tops == Scalars \cup Tables
Inner == {Str(16), Table({<<Num(1), Str(2)>>}), Table({<<Num(1), Num(1)>>, <<Num(2), Function>>})}
MCValues ==
  Tops \cup Inner \cup {Num(2)}
\* Fillers put what follows at every offset in a block.
Fillers == {<<Nil>>, <<Num(3)>>, <<Num(4)>>, <<Str(2), Nil>>, <<Num(16)>>, <<Real>>, <<Str(0), Str(3)>>}
MCInputs ==
  {<<>>} \cup {<<v>> : v \in Tops} \cup {<<v, w>> : v, w \in Tops}
    \cup {<<u, v, w>> : u, v, w \in {Nil, Num(4), Num(-129), Str(0), Str(3), Str(17), Real, Table({}), Nested}}
    \cup {f \o <<v, w>> : f \in Fillers, v \in Scalars \ {Function}, w \in {Str(0), Nil, Num(128), Table({})}}
=============================================================================
