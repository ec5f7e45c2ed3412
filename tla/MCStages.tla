------------------------------ MODULE MCStages ------------------------------
EXTENDS Handlers

CONSTANTS u1, u2     \* parts of texts that cannot be read
MCUnreadable == {u1, u2}
Server == <<"1.2.3.4:1", "-2">>
MCAddresses == {Server}

\* Every file starts with these multinames, each with a string of its own.
Basic == <<<<"", "doc">>, <<"", "wrap">>, <<"", "int">>, <<"", "ByteArray">>,
           <<"", "cat">>, <<"", "code">>, <<"", "handle">>>>
GameName == 1
WrapName == 2
IntName == 3
BytesName == 4
CatName == 5
CodeName == 6
HandleName == 7
N == Len(Basic)

QName(str) == [kind |-> "QName", str |-> str, ns |-> {"public"}]
PoolOf(texts) ==
  [strings |-> Basic \o texts,
   multinames |-> [i \in 1..(N + Len(texts)) |-> QName(i)], moved |-> <<>>]

NoMethod == [params |-> <<>>, returnType |-> 0, small |-> FALSE, big |-> FALSE, code |-> <<>>,
             exceptions |-> <<>>, traits |-> <<>>, stack |-> 1, paramNames |-> FALSE]
Coded(code) == [NoMethod EXCEPT !.code = code]
Trait0(kind, name, type, index) ==
  [kind |-> kind, name |-> name, type |-> type, index |-> index,
   attr |-> 0, slotId |-> 0, slotKind |-> 0, value |-> None]
Slot(name, type) == Trait0("Slot", name, type, 0)
Class0(name, super, ctraits, itraits, iinit) ==
  [name |-> name, super |-> super, ctraits |-> ctraits, itraits |-> itraits, iinit |-> iinit]
Empty(name) == Class0(name, 0, <<>>, <<>>, 1)

NoRoles == [r \in {"base_spkt", "base_cpkt", "pkt_hdlr", "varint_reader", "interface_proxy"}
              |-> Null]
Start0 == <<Empty(GameName), Empty(WrapName)>>

Plain(texts, classes, methods) ==
  [pool |-> PoolOf(texts), symbols |-> <<>>, classes |-> Start0 \o classes,
   methods |-> <<NoMethod>> \o methods,
   roles |-> [r \in DOMAIN NoRoles \cup {"wrap_class"} |-> IF r = "wrap_class" THEN 2 ELSE Null],
   statics |-> {}, byteArray |-> BytesName,
   message |-> [category |-> CatName, code |-> CodeName],
   definitions |-> <<>>, problem |-> "none", missings |-> {}, ignoreMissing |-> FALSE,
   proxy |-> FALSE]

I(op, arg) == [op |-> op, arg |-> arg, to |-> <<>>]
J(op, to) == [op |-> op, arg |-> 0, to |-> to]

-----------------------------------------------------------------------------
\* Ways to end: what stops main(), and what it crashes on.
Endings ==
  {[Plain(<<>>, <<>>, <<>>) EXCEPT !.problem = p, !.proxy = proxy, !.missings = m,
      !.ignoreMissing = i, !.roles.wrap_class = IF m = {} THEN 2 ELSE Null,
      !.pool.strings[N] = Server, !.pool.strings[WrapName] = <<"wrap", u1>>] :
     p \in {"none", "arguments", "input", "frame1", "output"}, proxy, i \in BOOLEAN,
     m \in {{}, {"wrap_class"}}}

\* Names: a class with a super, traits of two kinds, and a method with one or
\* two exceptions, whose multinames share strings.
RawTexts == {<<"", "ok">>, <<"", u1>>, <<"a_", u1>>, <<u2, "x">>, <<"q_", u2>>, <<"$", "x">>}
Injective(S, n) == {f \in [1..n -> S] : \A i, j \in 1..n : f[i] = f[j] => i = j}
NamedClass(kind, m) ==
  Class0(N + 1, N + 2, <<Trait0(kind, N + m, 0, 1)>>, <<Slot(N + 3, 0)>>, 1)
NamedMethod(errors, m) ==
  [NoMethod EXCEPT !.exceptions = errors, !.traits = <<Trait0("Const", m, 0, 1)>>]
Symbols == {<<>>, [c \in {0} |-> Basic[1]], [c \in {0, 4} |-> IF c = 0 THEN Basic[1] ELSE <<u2, "x">>],
            [c \in {4, 5, 6} |-> CASE c = 4 -> <<u2, "x">> [] c = 5 -> <<"q_", u2>> [] c = 6 -> <<"a_", u1>>]}
NamesFiles ==
  {[Plain(texts, <<NamedClass(IF m = 3 THEN "Method" ELSE "Function", m)>>, <<NamedMethod(errors, N + m - 2)>>)
      EXCEPT !.symbols = linked, !.missings = IF linked = <<>> THEN {} ELSE {"wrap_class"}] :
     texts \in Injective(RawTexts, 4), m \in {3, 4},
     errors \in {<<N + 4>>, <<N + 4, N + 1>>}, linked \in Symbols}

-----------------------------------------------------------------------------
\* Code that compares the category and then the code of a message.
Test(shape, property, value, goal) ==
  LET get == <<I("getlex", N + 1), I("getproperty", property)>>
      const == <<I("pushdouble", value)>>
  IN (IF shape = "after" THEN get \o const ELSE const \o get) \o <<J("ifne", <<goal>>)>>
New(c) == <<I("findpropstrict", c), I("getlocal1", 0), I("constructprop", c)>>
Return == <<J("returnvoid", <<>>)>>

Reader == N + 2
Body(what, class) ==
  CASE what = "new"    -> New(class) \o Return
    [] what = "on"     -> New(class)
    [] what = "none"   -> Return
    [] what = "skip"   -> <<I("nop", 0)>>
    [] what = "reader" -> New(Reader) \o <<I("setlocal", 0)>> \o New(class) \o Return

\* A category as a sequence of codes [shape, what], without any a call of its
\* own handler.
RECURSIVE Codes(_, _, _, _)
Codes(codes, value, class, start) ==
  IF codes = <<>> THEN <<>>
  ELSE LET body == Body(codes[1].what, class)
           end  == start + 4 + Len(body)
       IN Test(codes[1].shape, CodeName, value, end) \o body
            \o Codes(Tail(codes), value + 1, class + 1, end)
SubCall == <<I("getlex", N + 3), I("getlocal1", 0), I("getlex", N + 1),
             I("getproperty", CodeName), I("callpropvoid", HandleName)>> \o Return

Category(shape, codes, value, class, start) ==
  LET body == IF codes = <<>> THEN SubCall ELSE Codes(codes, 1, class, start + 4)
  IN Test(shape, CatName, value, start + 4 + Len(body)) \o body

RECURSIVE SubTests(_, _, _)
SubTests(codes, class, start) ==
  IF codes = <<>> THEN Return
  ELSE LET body == Body(codes[1].what, class)
           test == IF codes[1].shape = "after" THEN <<I("getlocal2", 0), I("pushdouble", class)>>
                   ELSE <<I("pushdouble", class), I("getlocal2", 0)>>
           end == start + 3 + Len(body)
       IN test \o <<J("ifne", <<end>>)>> \o body \o SubTests(Tail(codes), class + 1, end)

\* Classes: handler, reader, handler of a category (or its super), packets.
Packets == 4
HandleTraitOf(method) == Trait0("Method", HandleName, 0, method)
HandlerMethod(code) == [Coded(code) EXCEPT !.big = TRUE, !.params = <<BytesName>>]
DispatchFile(main, sub, inherits) ==
  LET handled == <<HandleTraitOf(3)>>
      packets == [k \in 1..Packets |-> Class0(N + 4 + k, 0, <<>>, <<Slot(CodeName, 0)>>, 1)]
      classes == <<Class0(N + 1, 0, <<HandleTraitOf(2)>>, <<>>, 1),
                   Class0(N + 2, 0, <<>>, <<Slot(CatName, BytesName)>>, 1),
                   Class0(N + 3, N + 4, IF inherits THEN <<>> ELSE handled, <<>>, 1),
                   Class0(N + 4, 0, IF inherits THEN handled ELSE <<>>, <<>>, 1)>>
  IN [Plain([k \in 1..(4 + Packets) |-> <<"k", k>>], classes \o packets,
            <<HandlerMethod(main), HandlerMethod(sub)>>)
      EXCEPT !.roles.pkt_hdlr = 3]

Shaped == {[shape |-> s, what |-> w] : s \in {"after", "before"},
                                       w \in {"new", "on", "none", "skip", "reader"}}
Firsts == {<<a>> : a \in Shaped} \cup {<<a, b>> : a, b \in Shaped}
Seconds == {<<[shape |-> "before", what |-> "new"]>>, <<[shape |-> "after", what |-> "new"]>>}
TwoCategories(s, a, t, b, end) ==
  LET one == Category(s, a, 7, N + 5, 1)
  IN one \o Category(t, b, 8, N + 7, Len(one) + 1) \o end \o Return

\* Code that ends within a comparison, or branches to its first instruction.
Sub0 == <<I("getlocal2", 0)>>
Cut(code) == SubSeq(code, 1, Len(code) - 1)
Broken ==
  {DispatchFile(main, SubTests(<<[shape |-> "after", what |-> "new"]>>, N + 5, 1), FALSE) :
     main \in {Test(s, CatName, 7, 1) : s \in {"after", "before"}}
              \cup {Cut(Test(s, CatName, 7, 1)) : s \in {"after", "before"}}
              \cup {Test("after", CatName, 7, 1) \o rest :
                      rest \in {Return, SubCall, <<I("pushdouble", 1)>>,
                               Test("before", CodeName, 1, 1) \o Return,
                               Cut(Test("before", CodeName, 1, 1))}}
              \cup {Test("after", CatName, 7, 9) \o Test("before", CodeName, 1, 9)
                       \o <<I("pushdouble", 1)>>,
                     Test("after", CatName, 60, 9) \o Test("before", CodeName, 3, 9)
                       \o <<I("nop", 0)>>}}
  \cup {DispatchFile(TwoCategories("after", <<>>, "after", <<[shape |-> "after", what |-> "new"]>>, <<>>),
                     sub, FALSE) :
          sub \in {Sub0, Sub0 \o Return, <<I("nop", 0)>> \o Sub0, Sub0 \o <<I("pushdouble", 5)>>,
                  <<I("pushdouble", 5)>> \o Sub0,
                  Sub0 \o <<I("pushdouble", 5), J("ifne", <<1>>)>> \o New(N + 5) \o Return,
                  <<I("pushdouble", 5)>> \o Sub0 \o <<I("nop", 0)>>}}

DispatchFiles == Broken \cup
  {DispatchFile(TwoCategories(s, a, t, b, <<>>), Return, FALSE) :
     s, t \in {"after", "before"}, a \in Firsts, b \in Seconds}
  \cup {DispatchFile(TwoCategories("after", a, "after", b, New(N + 8)), Return, FALSE) :
          a, b \in {<<c>> : c \in Shaped}}
  \cup {DispatchFile(TwoCategories("after", <<>>, "before", b, <<>>), SubTests(codes, N + 5, 1), i) :
          codes \in Firsts, b \in Seconds, i \in BOOLEAN}
  \cup {[DispatchFile(Category("after", <<>>, 7, 0, 1) \o Return, <<>>, TRUE)
           EXCEPT !.classes[6].ctraits = <<>>]}

-----------------------------------------------------------------------------
\* Tribulle: the handler of 3c:03, the static method it calls, and the class
\* with the method that makes packets and the one that knows their ids.
Caller0 == N + 2
Holder == N + 3
Platform == N + 4
Server1 == N + 5
Client1 == N + 7
ClientBase == N + 9
CallName == N + 10
SlotName == N + 11
MakeName == N + 12
IdName == N + 13
Nobody == N + 14

TribulleMain(getter) ==
  LET body == (IF getter THEN <<I("getlex", Caller0), I("getlex", N + 1), I("getproperty", CodeName),
                                I("callproperty", CallName), I("coerce", ClientBase)>> ELSE <<>>)
                \o Return
      end == 9 + Len(body)
  IN Test("after", CatName, 60, end) \o Test("before", CodeName, 3, end) \o body \o Return

\* The last answer, the default, is no constant of a packet.
IdsCode(ids, turns, targets, switch) ==
  LET answers == [k \in 1..(3 * Len(ids)) |->
                    CASE k % 3 = 1 -> I("label", 0)
                      [] k % 3 = 2 -> I("pushdouble", ids[(k + 2) \div 3])
                      [] OTHER -> I("returnvalue", 0)]
      default == 2 + 3 * Len(ids)
      start == default + 3
      end == start + 6 * Len(turns) + 1
      turn(k) == <<I("getlocal1", 0), I("getlex", turns[k].class), I("istypelate", 0),
                   J("iffalse", <<start + 6 * k>>), I("pushbyte", turns[k].index), J("jump", <<end>>)>>
  IN <<J("jump", <<start>>)>> \o answers
       \o <<I("label", 0), I("pushbyte", 100), I("returnvalue", 0)>>
       \o (IF turns = <<>> THEN <<>> ELSE turn(1)) \o (IF Len(turns) < 2 THEN <<>> ELSE turn(2))
       \o <<I("pushbyte", 99),
            IF switch THEN J("lookupswitch", <<default>> \o [k \in DOMAIN targets |-> 3 * targets[k] - 1])
            ELSE I("nop", 0)>>

\* The packets made: each a shape, a code and a class.
RECURSIVE Makes(_, _)
Makes(packets, start) ==
  IF packets = <<>> THEN Return
  ELSE LET p == packets[1]
           test == IF p.shape = "after" THEN <<I("getlocal2", 0), I("pushdouble", p.code)>>
                   ELSE <<I("pushdouble", p.code), I("getlocal2", 0)>>
       IN test \o <<J("ifne", <<start + 7>>)>> \o New(p.class) \o <<I("returnvalue", 0)>>
            \o Makes(Tail(packets), start + 7)

TribulleFile(getter, ids, maker) ==
  LET classes ==
        <<Class0(N + 1, 0, <<HandleTraitOf(2)>>, <<>>, 1),
          Class0(Caller0, 0, <<Trait0("Method", CallName, 0, 3)>>, <<>>, 1),
          Class0(Holder, 0, <<Slot(SlotName, Platform)>>, <<>>, 1),
          Class0(Platform, 0, <<>>,
                 <<Trait0("Method", MakeName, 0, 4), Slot(N, IntName), Trait0("Method", IdName, 0, 5)>>, 1),
          Empty(Server1), Empty(Server1 + 1), Empty(Client1), Empty(Client1 + 1), Empty(ClientBase)>>
      path == <<I("getlocal0", 0), I("getlex", Holder), I("getproperty", SlotName), I("getlocal1", 0),
                I("callproperty", MakeName), I("returnvalue", 0)>>
  IN [Plain([k \in 1..14 |-> <<"t", k>>], classes,
            <<HandlerMethod(TribulleMain(getter)), Coded(path),
              [Coded(maker) EXCEPT !.returnType = ClientBase, !.params = <<IntName, IntName>>],
              [Coded(ids) EXCEPT !.returnType = IntName, !.params = <<ClientBase>>]>>)
      EXCEPT !.roles.pkt_hdlr = 3]

Turn(class, index) == [class |-> class, index |-> index]
TurnsOf == {<<Turn(Server1, 0), Turn(Server1 + 1, 1)>>, <<Turn(Server1 + 1, 1), Turn(Server1, 0)>>,
            <<Turn(Server1, 1)>>, <<Turn(Nobody, 0), Turn(Server1, 1)>>,
            <<Turn(Server1, 2)>>, <<Turn(Server1, 3), Turn(Server1 + 1, 0)>>}
Packet(shape, code, class) == [shape |-> shape, code |-> code, class |-> class]
PacketsOf == {<<>>, <<Packet("after", 5, Client1)>>, <<Packet("before", 5, Client1), Packet("after", 6, Client1 + 1)>>,
              <<Packet("before", 5, Nobody), Packet("before", 6, Client1)>>}
Ids(turns, targets, switch) == IdsCode(<<5, 6>>, turns, targets, switch)
TwoTurns == <<Turn(Server1, 0), Turn(Server1 + 1, 1)>>
TwoPackets == <<Packet("after", 5, Client1), Packet("before", 6, Client1 + 1)>>
Common == TribulleFile(TRUE, Ids(TwoTurns, <<1, 2>>, TRUE), Makes(TwoPackets, 1))

TribulleFiles ==
  {TribulleFile(TRUE, Ids(turns, targets, switch), Makes(packets, 1)) :
     turns \in TurnsOf, targets \in {<<1, 2>>, <<2, 1>>, <<1, 1>>}, switch \in BOOLEAN,
     packets \in PacketsOf}
  \cup {TribulleFile(FALSE, <<>>, <<>>),
        TribulleFile(TRUE, Ids(<<>>, <<1, 2>>, TRUE), <<I("pushdouble", 5)>> \o Return),
        TribulleFile(TRUE, <<>>, <<>>)}
  \cup {[Common EXCEPT !.methods[5].params = <<>>],
        [Common EXCEPT !.methods[3].code[2].arg = Nobody],
        [Common EXCEPT !.methods[3].code[2].op = "nop"],
        [Common EXCEPT !.methods[3].code[3].arg = Nobody],
        [Common EXCEPT !.methods[3].code[5].arg = Nobody],
        [Common EXCEPT !.methods[3].code[5].op = "nop"],
        [Common EXCEPT !.classes[4].ctraits[1].kind = "Slot"],
        [Common EXCEPT !.classes[4].ctraits[1].name = Nobody],
        [Common EXCEPT !.classes[5].ctraits[1].type = Nobody],
        [Common EXCEPT !.classes[6].itraits[1].kind = "Slot"],
        [Common EXCEPT !.classes[4].name = Nobody],
        [Common EXCEPT !.methods[4].returnType = Nobody],
        [Common EXCEPT !.classes[4].super = ClientBase, !.classes[4].ctraits = <<>>,
                       !.classes[11].ctraits = Common.classes[4].ctraits],
        [Common EXCEPT !.classes[6].super = ClientBase, !.classes[6].itraits = <<>>,
                       !.classes[11].itraits = Common.classes[6].itraits]}

-----------------------------------------------------------------------------
\* Base classes, packets, static classes, and multinames that share a string
\* with them.
SBase == N + 1
CBase == N + 2
VarInt == N + 3
Proxied == N + 4
Packet1 == N + 5
Static1 == N + 8
Field == N + 11
Member1 == N + 19
Called0 == N + 20
Other == N + 21
Key == N + 22
LastName == N + 22

SlotsFrom(name, n) == [k \in 1..n |-> Slot(name + k - 1, BytesName)]
Calling(get, call) ==
  <<I("getlocal0", 0), I("pushscope", 0), I("getlocal0", 0), I("getproperty", get),
    I("getlocal1", 0), I(call, Called0)>>
Sends(n) == <<I("pushdouble", n), I("pushdouble", 2), I("constructsuper", 0), I("pushdouble", 9)>>

\* The writers, the readers and the constructor of the interface proxy.
BaseFile(slots, writer, reader, proxied) ==
  LET classes ==
        <<Class0(SBase, 0, <<>>, SlotsFrom(Field, slots) \o <<Trait0("Method", Field + 6, 0, 2)>>, 1),
          Class0(CBase, 0, <<>>, SlotsFrom(Field + 3, 3), 1),
          Class0(VarInt, 0, <<>>, <<Slot(Field, BytesName), Trait0("Method", Field + 7, 0, 3),
                                    Trait0("Method", Other, 0, 3)>>, 1),
          Class0(Proxied, 0, <<Trait0("Method", Member1, 0, 1)>>, <<>>, 4),
          Class0(Packet1, SBase, <<>>, <<>>, 5), Class0(Packet1 + 1, CBase, <<>>, <<>>, 1),
          Class0(Packet1 + 2, CBase, <<>>, <<>>, 1),
          Class0(Static1, Other, <<Slot(Field, 0)>>, <<>>, 1), Empty(Static1 + 1)>>
      plain == Plain([k \in 1..(LastName - N) |-> IF N + k = Member1 THEN <<u1, "m">> ELSE <<"b", k>>],
                     classes, <<writer, reader, Coded(proxied), Coded(Sends(1))>>)
  IN [plain EXCEPT
        !.roles = [base_spkt |-> 3, base_cpkt |-> 4, varint_reader |-> 5, interface_proxy |-> 6,
                   pkt_hdlr |-> Null, wrap_class |-> 2],
        !.statics = {10, 11}, !.classes[1].ctraits = <<Slot(Field, 0), Slot(Field + 1, GameName)>>]

Small(code, returnType) == [Coded(code) EXCEPT !.small = TRUE, !.returnType = returnType]
Result0 == <<I("getlocal0", 0), I("returnvalue", 0)>>
Writer(code) == Small(code \o Result0, SBase)
Writes == Calling(Field, "callpropvoid")
Writers == {Writer(Writes), Writer(Writes \o Writes), Writer(<<I("nop", 0)>> \o Writes),
            Writer(Calling(Field + 1, "callpropvoid")), Writer(Writes \o <<I("nop", 0)>> \o Writes),
            Small(Writes \o Result0, IntName), Coded(Writes \o Result0)}
Readers == {Small(<<I("getproperty", Field), I("callproperty", Called0)>>, IntName),
            Small(<<I("getproperty", Field), I("callproperty", Called0)>>, Called0),
            Small(<<I("getproperty", Other), I("callproperty", Called0)>>, IntName),
            Small(<<I("getproperty", Field), I("callpropvoid", Called0)>>, IntName),
            Coded(<<>>)}
Looks(key, name) == <<I("pushstring", key), I("getlex", Other), I("getproperty", name)>>
Proxies == {<<>>, Looks(Key, Member1), Looks(Key, Other), Looks(Key, Member1) \o Looks(Called0, Other),
            <<I("pushstring", Key)>>, <<I("getproperty", Member1)>> \o Looks(Key, Member1)}
OneBase == BaseFile(3, Writer(Writes), Coded(<<>>), Looks(Key, Member1))

\* One more multiname, of another kind or in another namespace, for each of
\* two names.
Named(kind, str, ns) == [kind |-> kind, str |-> str, ns |-> ns]
Extras == {Named("Multiname", Packet1, {"public", "inner"}), Named("QNameA", Packet1, {"public"}),
           Named("Multiname", Field, {"public"}), Named("QName", Packet1, {"inner"}),
           Named("Multiname", Static1, {"inner"}), Named("RTQName", Packet1, {"public"})}
WithNames(f, extras) == [f EXCEPT !.pool.multinames = @ \o extras]
Uses(f, m) == [f EXCEPT !.classes[7].name = m]

BaseFiles ==
  {BaseFile(3, w, r, p) : w \in Writers, r \in Readers, p \in Proxies}
  \cup {[BaseFile(2, Writer(Writes), Coded(<<>>), <<>>) EXCEPT !.classes[3].itraits = SubSeq(@, 1, n)] :
           n \in 1..3}
  \cup {[OneBase EXCEPT !.pool.strings[Called0] = <<"", "Boolean">>],
        [OneBase EXCEPT !.roles.base_cpkt = Null],
        [OneBase EXCEPT !.classes[1].ctraits = <<>>]}
  \cup {WithNames(OneBase, <<a, b>>) : a, b \in Extras}
  \cup {Uses(WithNames(OneBase, <<a>>), LastName + 1) : a \in Extras}

-----------------------------------------------------------------------------
\* Definitions of classes: all of one and two traits are tried on a file.
AnyTrait == [action |-> None, type |-> None, value |-> None, slotid |-> None, final |-> None,
             override |-> None, returnType |-> None, stack |-> None, params |-> <<>>,
             paramCount |-> None]
SlotDef(type, value, slotid) ==
  [AnyTrait EXCEPT !.type = type, !.value = value, !.slotid = slotid]
TraitDefs ==
  <<SlotDef("int", None, None), SlotDef("int", 1, None), SlotDef("int", None, 2),
    SlotDef("String", None, None), SlotDef("String", 1, None), SlotDef("Boolean", 1, None),
    SlotDef("ByteArray", None, None), AnyTrait,
    [AnyTrait EXCEPT !.returnType = "int", !.stack = 1],
    [AnyTrait EXCEPT !.params = <<"ByteArray">>], [AnyTrait EXCEPT !.paramCount = 1],
    [AnyTrait EXCEPT !.final = TRUE], [AnyTrait EXCEPT !.final = FALSE],
    [AnyTrait EXCEPT !.override = TRUE], [AnyTrait EXCEPT !.final = TRUE, !.slotid = 2],
    SlotDef("ByteArray", 1, None)>>
D == Len(TraitDefs)
AllDefinitions ==
  [k \in 1..(2 * D * (D + 1)) |->
     LET i == (k - 1) \div (2 * (D + 1)) + 1
         j == ((k - 1) \div 2) % (D + 1)
     IN [action |-> None, strict |-> k % 2 = 0,
         traits |-> IF j = 0 THEN <<TraitDefs[i]>> ELSE <<TraitDefs[i], TraitDefs[j]>>]]

StringName == N + 1
BooleanName == N + 2
Box == N + 3
Valued(kind, type, slotKind, slotId) ==
  [Trait0(kind, N + 5, type, 0) EXCEPT !.slotKind = slotKind, !.slotId = slotId,
                                       !.value = IF slotKind = 0 THEN 0 ELSE 1]
MethodIn(index, attr) == [Trait0("Method", N + 5, 0, index) EXCEPT !.attr = attr, !.slotId = index]
FileTraits ==
  <<Valued("Slot", IntName, 3, 1), Valued("Slot", IntName, 0, 2), Valued("Slot", StringName, 1, 1),
    Valued("Const", BooleanName, 11, 1), Valued("Slot", BytesName, 0, 1),
    MethodIn(2, 1), MethodIn(3, 0), MethodIn(4, 1)>>
T == Len(FileTraits)

DefinedFile(ds, one, two, inner) ==
  LET at(traits, base) == [k \in DOMAIN traits |-> [traits[k] EXCEPT !.name = base + k]]
  IN [Plain([k \in 1..10 |-> CASE k = 1 -> <<"", "String">> [] k = 2 -> <<"", "Boolean">>
                               [] OTHER -> <<"d", k>>],
            <<Class0(Box, 0, at(one, N + 4), <<>>, 1), Class0(Box + 1, 0, at(two, N + 6), inner, 1)>>,
            <<[NoMethod EXCEPT !.returnType = IntName, !.params = <<BytesName>>],
              [NoMethod EXCEPT !.stack = 2],
              [NoMethod EXCEPT !.paramNames = TRUE]>>)
      EXCEPT !.definitions = ds]

BoxDef(type) ==
  [action |-> "Box", strict |-> FALSE,
   traits |-> <<[SlotDef(type, None, None) EXCEPT !.action = "inside"]>>]
DefinitionFiles ==
  {DefinedFile(AllDefinitions, <<FileTraits[((i + j) % T) + 1]>>, <<FileTraits[i], FileTraits[j]>>,
               IF i = j THEN <<Slot(N + 10, 0)>> ELSE <<>>) :
     i \in 1..T, j \in {1, 2, 4, 6, 7}}
  \cup {DefinedFile(<<BoxDef("ByteArray"), BoxDef("Box"), BoxDef("inside")>>,
                    <<FileTraits[5]>>, <<Valued("Slot", t, 0, 1)>>, <<>>) : t \in {Box, N + 5, 0}}
  \cup {[DefinedFile(<<BoxDef("ByteArray")>>, <<FileTraits[5]>>, <<>>, <<>>)
          EXCEPT !.pool.multinames[BytesName].kind = "Typename"]}
  \cup {DefinedFile(<<[BoxDef("int") EXCEPT !.traits = <<d>>]>>, <<>>, <<>>, <<>>) :
          d \in {[AnyTrait EXCEPT !.override = o, !.final = f] : o \in {TRUE, FALSE}, f \in {TRUE, FALSE, None}}}
  \cup {DefinedFile(<<[BoxDef("int") EXCEPT !.traits = <<>>]>>, <<>>, <<>>, <<>>)}

-----------------------------------------------------------------------------
MCFiles == Endings \cup NamesFiles \cup DispatchFiles \cup TribulleFiles
             \cup BaseFiles \cup DefinitionFiles
CachedFiles == MCFiles
MCInit == file \in CachedFiles /\ Init
MCSpec == MCInit /\ [][Next]_vars
=============================================================================
