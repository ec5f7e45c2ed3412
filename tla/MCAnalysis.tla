----------------------------- MODULE MCAnalysis -----------------------------
EXTENDS Analysis

\* Multinames: in one kind of file nothing is called ByteArray by a QName.
Multiname(text) == [kind |-> "QName", text |-> text]
Usual  == <<Multiname("int"), Multiname("Number"),
            [kind |-> "Multiname", text |-> "ByteArray"],
            Multiname("ByteArray"), Multiname("Game"), Multiname("ByteArray")>>
Strange == SubSeq(Usual, 1, 3)
IntType == 1
NumberType == 2
BytesType == 4
GameType == 5
Ints == <<300, -5>>

Slot(type, kind, name) ==
  [kind |-> "Slot", name |-> name, type |-> type, attr |-> 0, slotKind |-> kind]
Method(params, returnType, attr, big, code, name) ==
  [kind |-> "Method", name |-> name, params |-> params, returnType |-> returnType,
   attr |-> attr, big |-> big, code |-> code]
Class(sealed, itraits, ctraits, params, cinit) ==
  [name |-> GameType, isSealed |-> sealed, isProtected |-> sealed,
   itraits |-> itraits, ctraits |-> ctraits, params |-> params, cinit |-> cinit]

Op(op)       == [op |-> op, arg |-> 0]
With(op, arg) == [op |-> op, arg |-> arg]

Any(n)   == [i \in 1..n |-> Slot(0, 0, i)]
Bytes(i) == Slot(BytesType, 0, i)
Prologue == <<Op("getlocal0"), Op("pushscope")>>
Static(type, code, name) == Method(<<>>, type, 1, FALSE, Prologue \o code, name)
Seven    == <<With("pushbyte", 7), Op("returnvalue")>>
Identity == Method(<<0>>, 0, 0, FALSE, <<>>, 1)
Handler  == Method(<<BytesType>>, 0, 0, TRUE, <<>>, 1)

\* Shapes of classes: one for each part that is reported, those that fit
\* several or none, and the ones whose buffer has any type, which fit where
\* ByteArray is unknown.
Parts == {
  Class(FALSE, <<>>, <<Identity>>, <<>>, <<>>),
  Class(FALSE, <<>>, <<Static(IntType, Seven, 1), Slot(0, 1, 2)>>, <<>>, <<>>),
  Class(TRUE, <<Bytes(1)>> \o Any(2), <<>>, <<>>, <<>>),
  Class(FALSE, Any(2) \o <<Bytes(3)>> \o Any(1), <<Identity>>, <<>>, <<>>),
  Class(FALSE, <<>>, <<Handler, Identity>>, <<>>, <<>>),
  Class(FALSE, <<Bytes(1)>>, <<>>, <<BytesType>>, <<>>) }
Shapes == Parts \cup {
  Class(TRUE, <<Bytes(1), Bytes(2), Bytes(3)>> \o Any(1), <<Handler>>, <<BytesType>>, <<>>),
  Class(TRUE, <<>>, <<>>, <<GameType>>, <<>>),
  Class(TRUE, Any(4), <<Identity>>, <<0>>, <<>>) }

File(classes, multinames) ==
  [classes |-> classes, multinames |-> multinames, ints |-> Ints]

Orders(n) == {File(cs, Usual) : cs \in [1..n -> Shapes]}
Complete  == {File(cs, Usual) : cs \in {f \in [1..6 -> Parts] :
                                           Cardinality({f[i] : i \in 1..6}) > 4}}
Unnamed   == {File(cs, Strange) : cs \in [1..2 -> Shapes]}

\* Static methods: up to two operations on constants of every kind, ways to
\* end that are none.
Pushes == {With("pushbyte", 7), With("pushbyte", 2), With("pushbyte", 251),
           With("pushshort", -3), With("pushint", 0), With("pushint", 1),
           With("pushbyte", 0)}
Folds  == {Op("add"), Op("divide")}
Bodies == {<<p, q, f, Op("returnvalue")>> : p, q \in Pushes, f \in Folds}
          \cup {<<p, q, f, p, g, Op("returnvalue")>> : p, q \in Pushes, f, g \in Folds}
          \cup {<<p, Op("returnvalue")>> : p \in Pushes}
          \cup {<<>>, <<Op("add")>>, <<Op("returnvalue")>>, <<Op("pushnull")>>}
Evaluated ==
  {File(<<Class(FALSE, <<>>, <<Static(IntType, b, 1), Static(NumberType, b, 2)>>, <<>>, <<>>)>>,
        Usual) : b \in Bodies}

\* Initialisers that assign two slots in any order, once or twice, a boolean
\* or not, by either opcode; name one of them once more; compute a value, from
\* a boolean or ending in one; or assign both with one value.
Assign(name, op) == <<With("findproperty", name), Op(op), With("initproperty", name)>>
Statements == {Assign(n, op) : n \in {1, 2, 3}, op \in {"pushtrue", "pushfalse", "pushnull"}}
              \cup {<<Op("getlocal0")>>, <<>>,
                    <<With("findproperty", 2), Op("pushfalse"), With("setproperty", 2)>>,
                    <<With("findproperty", 1), Op("getlex"), Op("not"), With("initproperty", 1)>>,
                    <<With("findproperty", 1), Op("getlex"), Op("pushtrue"), Op("equals"),
                      With("initproperty", 1)>>,
                    <<With("findproperty", 1), Op("pushtrue"), Op("not"), With("initproperty", 1)>>,
                    <<With("findproperty", 1), With("findproperty", 2), Op("pushtrue"), Op("dup"),
                      Op("setlocal1"), With("initproperty", 2), Op("getlocal1"),
                      With("initproperty", 1)>>}
Initialised ==
  {File(<<Class(FALSE, <<>>, <<Slot(0, 0, 1), Slot(0, k, 2)>>, <<>>, a \o b \o c)>>, Usual) :
     k \in {0, 6}, a, b \in Statements,
     c \in {<<>>, <<With("findproperty", 1)>>, Assign(2, "pushtrue")}}

MCFiles == Orders(1) \cup Orders(4) \cup Complete \cup Unnamed \cup Evaluated \cup Initialised
CachedFiles == MCFiles

MCInit == file \in CachedFiles /\ Init
MCSpec == MCInit /\ [][Next]_vars /\ WF_vars(Next)
=============================================================================
