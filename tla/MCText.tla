------------------------------- MODULE MCText --------------------------------
(* Instances of Reading for TLC: a digit, a letter, a blank and both       *)
(* halves of a line terminator; one anchor that overlaps itself and two    *)
(* that do not.  The quantities combine every occurrence with every kind   *)
(* of block and of value; some of them the loader has to refuse.           *)
EXTENDS Reading

MCAlphabet == {"1", "x", " ", "\n", "\r"}
MCDigits == {"1", "2"}
MCNeedles == {<<"1">>, <<"1", "1">>, <<"x", "1">>}
MCTables == {<<0>>, <<1, 0>>}

MCWrites == {<<"a", " ", "1", "\n">>, <<"1", " ", "1", "\n">>, <<"a", "\n">>,
             <<"1", ".", "\n">>, <<"\n">>, <<"inf", "\n">>, <<"x", "1">>,
             <<"a", "\r">>, <<"1", " ", "nan", "\n">>, <<"0x1", "\n">>,
             <<"1", "_", "1", "\n">>, <<"1", "1", "1", "1", "\n">>}

(* Two anchors, and numbers on their lines and below them, once behind the *)
(* anchor and once in front of it.                                         *)
MCSamples ==
  {<<"a", " ", "1", " ", "1", "\n", "a", " ", "1", " ", "1", "\n", "1", " ", "1", "\n">>,
   <<"2", " ", "a", " ", "2", "\n", "2", " ", "a", " ", "2", "\n">>}

S(s) == Toml("string", s)
N(n) == Toml("int", n)
T(t) == Toml("table", t)
On == Toml("bool", TRUE)

Occurrences4 == {S(First), S(Latest), S(All), N(1)}
Blocks ==
  {T([skip |-> N(1)]), T([skip |-> N(1), until |-> S(BlankUntil)]),
   T([until |-> S(<<"1">>), max_lines |-> N(2)]), T([until |-> S(<< >>)])}
Spots ==
  {T([field |-> N(1)]), T([field |-> N(0), type |-> S(StrType), strip |-> S(<<"a">>)]),
   T([field |-> N(-1), type |-> S(IntType)]), T([whole_line |-> On, type |-> S(StrType)])}
Columns ==
  {T([columns |-> T([c |-> N(0), d |-> N(1)])]),
   T([columns |-> T([c |-> N(0), d |-> N(0)]), types |-> T([c |-> S(IntType)])]),
   T([columns |-> T([c |-> N(0)]), table |-> On, strip |-> S(<<"a">>)])}
Refused ==
  {T([type |-> S(FloatType)]), T([columns |-> N(1)]), T([types |-> T([c |-> S(StrType)])]),
   T([field |-> On]), T([width |-> N(1)])}

Anchor == S(<<"a">>)
MCDocuments ==
  {[anchor |-> Anchor, occurrence |-> o, parse |-> p] : o \in Occurrences4, p \in Spots \union Columns}
  \union {[anchor |-> Anchor, occurrence |-> o, block |-> b, parse |-> p] :
            o \in Occurrences4, b \in Blocks, p \in Spots \union Columns}
  \union {[block |-> b, parse |-> p] : b \in Blocks, p \in Spots \union Columns}
  \union {[parse |-> p] : p \in Spots \union Columns \union Refused}
  \union {[anchor |-> Anchor, block |-> T([skip |-> On]), parse |-> T([field |-> N(0)])],
          [occurrence |-> S(All), parse |-> T([field |-> N(0)])],
          [anchor |-> Anchor, occurrence |-> On, parse |-> T([field |-> N(1)])],
          [anchor |-> S(<<"\n">>), occurrence |-> S(First), parse |-> T([field |-> N(0)])],
          [anchor |-> Anchor, block |-> T([skip |-> N(1)]), parse |-> T([table |-> On])]}
=============================================================================
