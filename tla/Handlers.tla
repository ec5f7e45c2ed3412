------------------------------ MODULE Handlers ------------------------------
(***************************************************************************)
(* What the handlers of packets and getPacketId do when the AVM2 runs      *)
(* them, and that the names say the same.  Only what they are built of is  *)
(* here; the top of the stack comes first.                                 *)
(***************************************************************************)
EXTENDS Stages

\* The operands an instruction takes, and what it leaves.
Used(op) ==
  CASE op \in {"ifne", "istypelate"} -> 2
    [] op \in {"iffalse", "lookupswitch", "getproperty", "coerce", "setlocal"} -> 1
    [] op = "constructprop" -> 2
    [] OTHER -> 0

Pushes(i, env, s) ==
  CASE i.op = "getlocal1" -> <<env.local1>>
    [] i.op = "getlocal2" -> <<env.local2>>
    [] i.op \in {"pushdouble", "pushbyte"} -> <<<<"number", i.arg>>>>
    [] i.op \in {"getlex", "findpropstrict"} -> <<<<"class", i.arg>>>>
    [] i.op = "getproperty" -> <<IF i.arg = file.message.category THEN env.category
                                 ELSE env.code>>
    [] i.op = "istypelate" -> <<<<"bool", s[2][2] = s[1][2]>>>>
    [] i.op = "constructprop" -> <<<<"object", i.arg>>>>
    [] i.op = "coerce" -> <<s[1]>>
    [] OTHER -> <<>>

\* Which way a jump goes: the number of its target, 0 for the next instruction.
Way(i, s) ==
  CASE i.op = "ifne" -> IF s[1] # s[2] THEN 1 ELSE 0
    [] i.op = "iffalse" -> IF s[1] = <<"bool", FALSE>> THEN 1 ELSE 0
    [] i.op = "lookupswitch" ->
         IF s[1][2] + 2 \in DOMAIN i.to THEN s[1][2] + 2 ELSE 1
    [] i.op = "jump" -> 1
    [] OTHER -> 0

\* The method a handler of one category is called by.
HandlerCode(class) ==
  LET c == Heir(FindClass(class))
  IN MethodOf(file.classes[c].ctraits[Own(c, "ctraits", Handle.name)]).code

\* The results of running the code from i on, of which there is one: the
\* first object it makes, a reader counting if env.reader says so, or what it
\* returns.
RECURSIVE Run(_, _, _, _)
Run(code, env, i, s) ==
  IF i \notin DOMAIN code THEN {<<"nothing", 0>>}
  ELSE LET ins == code[i]
           way == Way(ins, s)
       IN CASE ins.op = "returnvoid"  -> {<<"nothing", 0>>}
            [] ins.op = "returnvalue" -> {s[1]}
            [] ins.op = "callpropvoid" ->
                 UNION {Run(HandlerCode(s[3][2]), [env EXCEPT !.local2 = v], 1, <<>>) : v \in {s[1]}}
            [] ins.op = "constructprop" /\ (env.reader \/ ~IsReader(FindClass(ins.arg))) ->
                 {<<"object", ins.arg>>}
            [] OTHER ->
                 UNION {Run(code, env, IF way = 0 THEN i + 1 ELSE ins.to[way], t) :
                          t \in {Pushes(ins, env, s) \o SubSeq(s, Used(ins.op) + 1, Len(s))}}

Message(category, code, reader) ==
  [local1 |-> <<"object", 0>>, local2 |-> <<"number", code>>, reader |-> reader,
   category |-> <<"number", category>>, code |-> <<"number", code>>]

Handled(category, code, reader) == Run(Code, Message(category, code, reader), 1, <<>>)

Numbers ==
  {0} \cup {m.code[i].arg : <<m, i>> \in
              {<<m, i>> \in Range(file.methods) \X (1..40) :
                 i \in DOMAIN m.code /\ m.code[i].op = "pushdouble"}}

Class(c) == <<"object", Name(c)>>
HasText(c, text) == Text(pool, Name(c)) = text

\* A class is called CPacket with a category and a code only if that is the
\* message it is made for, and it is called so if it is made for no other
\* and not behind a reader of varints.  The reader itself is left out: the
\* handler of one category may give it the name of a packet.
NamedAsDispatched ==
  stage = "classdef" /\ Role("pkt_hdlr") # Null =>
    LET Messages == Numbers \X Numbers
        made   == [m \in Messages |-> Handled(m[1], m[2], FALSE)]
        direct == [m \in Messages |-> Handled(m[1], m[2], TRUE)]
    IN \A c \in {c \in DOMAIN file.classes : ~IsReader(c)}, m \in Messages :
         /\ HasText(c, CPacket(m[1], m[2])) => made[m] = {Class(c)}
         /\ /\ direct[m] = {Class(c)} /\ m # TribulleCode
            /\ \A n \in Messages : made[n] = {Class(c)} => n = m
            => HasText(c, CPacket(m[1], m[2]))

Asked(c) == Run(IdCode, [Message(0, 0, TRUE) EXCEPT !.local1 = Class(c)], 1, <<>>)
Made(n)  == Run(Method.code, Message(0, n, TRUE), 1, <<>>)

\* Tribulle's packets are called by the id that getPacketId gives them, and
\* by the one they are made from.
IdsAsComputed ==
  stage = "left" /\ scan.method # Null /\ scan.found =>
    \A c \in DOMAIN file.classes, n \in Numbers :
      /\ scan.ids # Null /\ Switch # Null =>
           (HasText(c, <<"TSPacket_", n>>) <=> Asked(c) = {<<"number", n>>})
      /\ HasText(c, <<"TCPacket_", n>>) <=> Made(n) = {Class(c)}
=============================================================================
