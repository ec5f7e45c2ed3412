------------------------------ MODULE Analysis ------------------------------
(***************************************************************************)
(* detfm::analyze() in src/detfm.cpp: one walk over the classes of a file  *)
(* that finds the wrapper, the static classes and the classes with a part  *)
(* of their own, and the constructor of StaticClass, which it calls.       *)
(*                                                                         *)
(* A class is known by its position.  Types are indices into multinames,   *)
(* 0 standing for any; a trait that is a method carries what matters of    *)
(* the method.  Of stack and local count only whether they reach the       *)
(* bounds of match_packet_handler matters (big).                           *)
(***************************************************************************)
EXTENDS Evaluate, FiniteSets

CONSTANTS Files,        \* the files considered
          ManyTraits    \* 100: how many static traits make a static class

ASSUME ManyTraitsAssumption == ManyTraits \in Nat \ {0}

\* The classes of a file are a sequence.
ASSUME FilesAssumption ==
  \A f \in Files : Len(f.classes) \in Nat /\ DOMAIN f.classes = 1..Len(f.classes)

\* What the methods of classes push has the width of its opcode.
Byte == 0..255
Short == -(2^15)..(2^15 - 1)
ASSUME CodeAssumption ==
  \A f \in Files : \A c \in DOMAIN f.classes : \A t \in DOMAIN f.classes[c].ctraits :
    LET trait == f.classes[c].ctraits[t]
    IN trait.kind = "Method" =>
         \A k \in DOMAIN trait.code :
           LET i == trait.code[k]
           IN /\ i.op = "pushbyte" => i.arg \in Byte
              /\ i.op = "pushshort" => i.arg \in Short
              /\ i.op = "pushint" => f.ints[i.arg + 1] \in Int

\* Slots are kept by their names, and no two of a class have the same.
ASSUME InitialisersAssumption ==
  \A f \in Files : \A c \in DOMAIN f.classes :
    LET traits == f.classes[c].ctraits
        code   == f.classes[c].cinit
        Slots  == {t \in DOMAIN traits : traits[t].kind = "Slot"}
    IN /\ Len(traits) \in Nat /\ DOMAIN traits = 1..Len(traits)
       /\ Len(code) \in Nat /\ DOMAIN code = 1..Len(code)
       /\ \A t, u \in Slots : traits[t].name = traits[u].name => t = u

\* The pointers that detfm keeps, and the ones in to_find, in order.
Patterns == <<"base_spkt", "base_cpkt", "pkt_hdlr", "varint_reader",
              "interface_proxy">>
PatternSet == {Patterns[i] : i \in DOMAIN Patterns}
Roles == PatternSet \cup {"wrap_class"}
Null == 0

VARIABLES file,        \* [classes, multinames, ints]
          stage,       \* "begin", "class", "traits", "init", "done", and the
                       \* ends "thrown" and "undefined" of eval_method
          byteArray,   \* detfm::ByteArray
          klass,       \* the class the walk looks at
          roles,       \* the class found for each role
          open,        \* to_find: the patterns still open
          statics,     \* the static classes
          pos,         \* the position in the constructor of StaticClass
          notdefined,  \* its slots without a value so far
          slots,       \* StaticClass::slots: pairs of class and static trait
          kinds,       \* slot.kind of every static trait
          values,      \* StaticClass::methods: class, trait and value
          ins,         \* the instruction of a static method evaluated next
          stack,       \* the stack of eval_method
          machine,     \* the AVM2's at the same instruction, a history variable
          missings     \* what analyze() reports

evalVars == <<ins, stack, machine>>
staticVars == <<pos, notdefined, slots, kinds, values, evalVars>>
vars == <<file, stage, byteArray, klass, roles, open, statics, staticVars, missings>>

Classes == DOMAIN file.classes
This == file.classes[klass]
TypeName(type) == IF type = 0 THEN "*" ELSE file.multinames[type].text
All(traits, Test(_)) == \A i \in DOMAIN traits : Test(traits[i])
Some(traits, Test(_)) == \E i \in DOMAIN traits : Test(traits[i])

-----------------------------------------------------------------------------
(***************************************************************************)
(* What a class must look like, the match_ functions without their look at *)
(* what has been found already.                                            *)
(***************************************************************************)
IsMethod(t) == t.kind = "Method"
IsBuffer(t) == t.kind = "Slot" /\ t.type = byteArray

ServerboundShape(c) ==
  /\ c.isSealed /\ c.isProtected
  /\ c.itraits # <<>> /\ IsBuffer(c.itraits[1])

ClientboundShape(c) ==
  /\ Len(c.ctraits) \in 1..9 /\ Len(c.itraits) \in 4..9
  /\ IsBuffer(c.itraits[3])

Wraps(t) == IsMethod(t) /\ t.params = <<t.returnType>>
WrapShape(c) == c.itraits = <<>> /\ c.ctraits # <<>> /\ All(c.ctraits, Wraps)

StaticMember(t) ==
  \/ t.kind = "Slot" /\ t.attr = 0
  \/ IsMethod(t) /\ t.attr % 2 = 1 /\ TypeName(t.returnType) \in ReturnTypes
SlotShape(c) ==
  c.itraits = <<>> /\ Len(c.ctraits) >= ManyTraits /\ All(c.ctraits, StaticMember)

Handles(t) == IsMethod(t) /\ t.big /\ t.params = <<byteArray>>
HandlerShape(c) == c.itraits = <<>> /\ Some(c.ctraits, Handles)

ReaderShape(c) ==
  /\ c.itraits # <<>> /\ IsBuffer(c.itraits[1])
  /\ c.params # <<>> /\ c.params[1] = byteArray

ProxyShape(c) ==
  /\ c.itraits = <<>> /\ c.ctraits = <<>> /\ c.isProtected
  /\ c.params = <<file.classes[1].name>>

Shape(pattern, c) ==
  \/ pattern = "base_spkt" /\ ServerboundShape(c)
  \/ pattern = "base_cpkt" /\ ClientboundShape(c)
  \/ pattern = "pkt_hdlr" /\ HandlerShape(c)
  \/ pattern = "varint_reader" /\ ReaderShape(c)
  \/ pattern = "interface_proxy" /\ ProxyShape(c)

\* match_packet_handler and match_varint_reader do not look at the pointer.
Matches(pattern, c) ==
  /\ pattern \in {"pkt_hdlr", "varint_reader"} \/ roles[pattern] = Null
  /\ Shape(pattern, c)

MatchWrapClass(c) == roles["wrap_class"] = Null /\ WrapShape(c)

-----------------------------------------------------------------------------
SlotKind(t) == IF t.kind = "Slot" THEN t.slotKind ELSE 0

Init ==
  /\ file \in Files
  /\ stage = "begin" /\ byteArray = 0 /\ klass = 1
  /\ roles = [r \in Roles |-> Null] /\ open = Patterns
  /\ statics = {} /\ pos = 1 /\ notdefined = {} /\ slots = {} /\ values = {}
  /\ ins = 1 /\ stack = <<>> /\ machine = <<>> /\ missings = {}
  /\ kinds = [c \in Classes |-> [i \in DOMAIN file.classes[c].ctraits |->
                                   SlotKind(file.classes[c].ctraits[i])]]

QNames(text) ==
  {i \in DOMAIN file.multinames : file.multinames[i] = [kind |-> "QName", text |-> text]}

\* Mutant: one past the last is left in the index.
FindByteArrayPast ==
  /\ stage = "begin" /\ stage' = "class"
  /\ byteArray' = IF QNames("ByteArray") = {} THEN Len(file.multinames) + 1
                  ELSE CHOOSE i \in QNames("ByteArray") : TRUE
  /\ UNCHANGED <<file, klass, roles, open, statics, staticVars, missings>>

\* The first multiname of that text, 0 if there is none.
FindByteArray ==
  /\ stage = "begin" /\ stage' = "class"
  /\ \/ QNames("ByteArray") = {} /\ byteArray' = 0
     \/ \E i \in QNames("ByteArray") :
          (\A j \in QNames("ByteArray") : i <= j) /\ byteArray' = i
  /\ UNCHANGED <<file, klass, roles, open, statics, staticVars, missings>>

NextClass == stage' = "class" /\ klass' = klass + 1

Looking == stage = "class" /\ klass \in Classes

TakeWrapper ==
  /\ Looking /\ MatchWrapClass(This)
  /\ roles' = [roles EXCEPT !["wrap_class"] = klass]
  /\ NextClass
  /\ UNCHANGED <<file, byteArray, open, statics, staticVars, missings>>

\* static_classes.classes.try_emplace(), which calls the constructor.
TakeStatic ==
  /\ Looking /\ ~MatchWrapClass(This) /\ SlotShape(This)
  /\ statics' = statics \cup {klass}
  /\ stage' = "traits" /\ pos' = 1 /\ notdefined' = {}
  /\ UNCHANGED <<file, byteArray, klass, roles, open, slots, kinds, values, evalVars, missings>>

Ordinary == Looking /\ ~MatchWrapClass(This) /\ ~SlotShape(This)

\* Mutants: the pattern stays open; all from it on are closed.
WithoutNone(s, j) == s
WithoutRest(s, j) == SubSeq(s, 1, j - 1)

Without(s, j) == SubSeq(s, 1, j - 1) \o SubSeq(s, j + 1, Len(s))

\* Mutant: the walk over the patterns goes on after one that matches.
TakePatterns ==
  /\ Ordinary
  /\ LET matching == {j \in DOMAIN open : Matches(open[j], This)}
         found == {open[j] : j \in matching}
     IN /\ matching # {}
        /\ roles' = [r \in Roles |-> IF r \in found THEN klass ELSE roles[r]]
        /\ open' = Without(open, CHOOSE j \in matching : TRUE)
  /\ NextClass
  /\ UNCHANGED <<file, byteArray, statics, staticVars, missings>>

\* The first open pattern that the class matches is closed.
TakePattern ==
  /\ Ordinary
  /\ \E j \in DOMAIN open :
       /\ Matches(open[j], This)
       /\ \A i \in 1..(j - 1) : ~Matches(open[i], This)
       /\ roles' = [roles EXCEPT ![open[j]] = klass]
       /\ open' = Without(open, j)
  /\ NextClass
  /\ UNCHANGED <<file, byteArray, statics, staticVars, missings>>

PassOver ==
  /\ Ordinary /\ \A j \in DOMAIN open : ~Matches(open[j], This)
  /\ NextClass
  /\ UNCHANGED <<file, byteArray, roles, open, statics, staticVars, missings>>

-----------------------------------------------------------------------------
(***************************************************************************)
(* The constructor of StaticClass: first the traits, then, if slots have   *)
(* no value yet, the code of the class initialiser.                        *)
(***************************************************************************)
Building == UNCHANGED <<file, byteArray, roles, open, statics, missings>>

NoteSlot ==
  /\ stage = "traits" /\ pos \in DOMAIN This.ctraits
  /\ This.ctraits[pos].kind = "Slot"
  /\ slots' = slots \cup {<<klass, pos>>}
  /\ notdefined' = IF This.ctraits[pos].slotKind = 0 THEN notdefined \cup {pos}
                   ELSE notdefined
  /\ pos' = pos + 1
  /\ Building /\ UNCHANGED <<stage, klass, kinds, values, evalVars>>

\* eval_method: what it throws nobody catches, and code without an end makes
\* it throw.
Evaluating ==
  stage = "traits" /\ pos \in DOMAIN This.ctraits /\ IsMethod(This.ctraits[pos])

TraitOf(c, t) == file.classes[c].ctraits[t]
Evaluation ==
  LET t == TraitOf(klass, pos)
  IN EvalStep(TypeName(t.returnType), file.ints, stack, t.code[ins])
InCode == ins \in DOMAIN TraitOf(klass, pos).code

EvaluateOn ==
  /\ Evaluating /\ InCode /\ Evaluation.status = "running"
  /\ stack' = Evaluation.stack
  /\ machine' = MachineStep(file.ints, machine, TraitOf(klass, pos).code[ins])
  /\ ins' = ins + 1
  /\ Building /\ UNCHANGED <<stage, klass, pos, notdefined, slots, kinds, values>>

EvaluateFails ==
  /\ Evaluating
  /\ \/ ~InCode /\ stage' = "thrown"
     \/ /\ InCode /\ Evaluation.status \in {"thrown", "undefined"}
        /\ stage' = Evaluation.status
  /\ Building /\ UNCHANGED <<klass, staticVars>>

EvaluateMethod ==
  /\ Evaluating /\ InCode /\ Evaluation.status = "returned"
  /\ values' = values \cup {<<klass, pos, stack[1]>>}
  /\ pos' = pos + 1 /\ ins' = 1 /\ stack' = <<>> /\ machine' = <<>>
  /\ Building /\ UNCHANGED <<stage, klass, notdefined, slots, kinds>>

TraitsDone ==
  /\ stage = "traits" /\ pos \notin DOMAIN This.ctraits
  /\ IF notdefined = {} THEN NextClass ELSE stage' = "init" /\ UNCHANGED klass
  /\ pos' = 1
  /\ Building /\ UNCHANGED <<notdefined, slots, kinds, values, evalVars>>

Finds(i, name) == i.op = "findproperty" /\ i.arg = name
Found(i) == {t \in notdefined : Finds(i, This.ctraits[t].name)}

\* Mutant: true and false the other way round.
DefineSlotSwapped ==
  /\ stage = "init" /\ pos + 1 \in DOMAIN This.cinit
  /\ \E t \in Found(This.cinit[pos]) :
       LET next == This.cinit[pos + 1].op
       IN /\ notdefined' = notdefined \ {t}
          /\ kinds' = CASE next = "pushfalse" -> [kinds EXCEPT ![klass][t] = 11]
                        [] next = "pushtrue"  -> [kinds EXCEPT ![klass][t] = 10]
                        [] OTHER -> kinds
          /\ slots' = IF next \in {"pushfalse", "pushtrue"} THEN slots
                      ELSE slots \ {<<klass, t>>}
  /\ pos' = pos + 2
  /\ Building /\ UNCHANGED <<stage, klass, values, evalVars>>

\* The instruction after the first findproperty of a slot says what the slot
\* holds; one that is no boolean is forgotten.
DefineSlot ==
  /\ stage = "init" /\ pos + 1 \in DOMAIN This.cinit
  /\ \E t \in Found(This.cinit[pos]) :
       LET next == This.cinit[pos + 1].op
       IN /\ notdefined' = notdefined \ {t}
          /\ kinds' = CASE next = "pushfalse" -> [kinds EXCEPT ![klass][t] = 10]
                        [] next = "pushtrue"  -> [kinds EXCEPT ![klass][t] = 11]
                        [] OTHER -> kinds
          /\ slots' = IF next \in {"pushfalse", "pushtrue"} THEN slots
                      ELSE slots \ {<<klass, t>>}
  /\ pos' = pos + 2
  /\ Building /\ UNCHANGED <<stage, klass, values, evalVars>>

WalkOn ==
  /\ stage = "init" /\ pos \in DOMAIN This.cinit
  /\ pos + 1 \notin DOMAIN This.cinit \/ Found(This.cinit[pos]) = {}
  /\ pos' = pos + 1
  /\ Building /\ UNCHANGED <<stage, klass, notdefined, slots, kinds, values, evalVars>>

\* Mutant: the class is looked at again.
InitDoneAgain ==
  /\ stage = "init" /\ pos \notin DOMAIN This.cinit
  /\ stage' = "class" /\ pos' = 1
  /\ Building /\ UNCHANGED <<klass, notdefined, slots, kinds, values, evalVars>>

InitDone ==
  /\ stage = "init" /\ pos \notin DOMAIN This.cinit
  /\ NextClass /\ pos' = 1
  /\ Building /\ UNCHANGED <<notdefined, slots, kinds, values, evalVars>>

-----------------------------------------------------------------------------
\* Mutant: neither is the reader of varints.
ReportedLess == Roles \ {"interface_proxy", "varint_reader"}

\* interface_proxy is not among the classes reported.
Reported == Roles \ {"interface_proxy"}

Report ==
  /\ stage = "class" /\ klass \notin Classes
  /\ missings' = {r \in Reported : roles[r] = Null}
                 \cup (IF byteArray = 0 THEN {"ByteArray"} ELSE {})
                 \cup (IF statics = {} THEN {"static_classes"} ELSE {})
  /\ stage' = "done"
  /\ UNCHANGED <<file, byteArray, klass, roles, open, statics, staticVars>>

Ended == stage \in {"done", "thrown", "undefined"} /\ UNCHANGED vars

Next ==
  \/ FindByteArray
  \/ TakeWrapper \/ TakeStatic \/ TakePattern \/ PassOver
  \/ NoteSlot \/ EvaluateOn \/ EvaluateFails \/ EvaluateMethod \/ TraitsDone
  \/ DefineSlot \/ WalkOn \/ InitDone
  \/ Report
  \/ Ended

Spec == Init /\ [][Next]_vars /\ WF_vars(Next)

-----------------------------------------------------------------------------
(***************************************************************************)
(* Properties.                                                             *)
(***************************************************************************)
TypeOK ==
  /\ stage \in {"begin", "class", "traits", "init", "done", "thrown", "undefined"}
  /\ byteArray \in {0} \cup DOMAIN file.multinames
  /\ klass \in 1..(Len(file.classes) + 1)
  /\ roles \in [Roles -> {Null} \cup Classes]
  /\ open \in Seq(PatternSet)
  /\ statics \subseteq Classes

Seen == {c \in Classes : c < klass}

\* No class is taken for two things: rename() (detfm.cpp:354-370) empties the
\* static classes and the wrapper, and gives the others their names.
OnePart ==
  /\ \A r, q \in Roles : roles[r] # Null /\ roles[r] = roles[q] => r = q
  /\ \A r \in Roles : roles[r] \notin statics

HasPart(c) == c \in statics \/ \E r \in Roles : roles[r] = c

\* A class that looks like something is passed over only when an earlier one
\* was found for that, or when it was itself found for something else.
NoneOverlooked ==
  \A c \in Seen, p \in PatternSet :
    Shape(p, file.classes[c]) =>
      HasPart(c) \/ (roles[p] # Null /\ roles[p] < c)

\* A class found stays found: the first one wins, also for the two patterns
\* that do not look whether one has been found.
FirstWins ==
  [][\A r \in Roles : roles[r] # Null => roles'[r] = roles[r]]_vars

\* The static slots whose value is in the initialiser.
Unset(c) ==
  {t \in DOMAIN file.classes[c].ctraits :
     file.classes[c].ctraits[t].kind = "Slot" /\ file.classes[c].ctraits[t].slotKind = 0}

IsBoolean(i) == i.op \in {"pushfalse", "pushtrue"}
KindOf(i) == CASE i.op = "pushfalse" -> 10 [] i.op = "pushtrue" -> 11 [] OTHER -> 0
Assignments(code, name) ==
  {i \in DOMAIN code : code[i].op \in {"initproperty", "setproperty"} /\ code[i].arg = name}

\* The one assignment of a slot is at i, behind the first findproperty of its
\* name, at k, which no other findproperty is in front of; and the value has
\* more to it than one instruction only if it does not begin with a boolean.
AssignedOnce(code, name, k, i) ==
  /\ Assignments(code, name) = {i} /\ k < i
  /\ Finds(code[k], name) /\ \A j \in 1..(k - 1) : ~Finds(code[j], name)
  /\ k > 1 => code[k - 1].op # "findproperty"
  /\ IsBoolean(code[k + 1]) => k + 1 = i - 1

\* A slot assigned so is resolved if its value is a boolean, and to that one;
\* with any other value it is not resolved.
SlotRight(c, t) ==
  LET code == file.classes[c].cinit
  IN \A k, i \in DOMAIN code : AssignedOnce(code, TraitOf(c, t).name, k, i) =>
       LET literal == k + 1 = i - 1 /\ IsBoolean(code[i - 1])
       IN /\ <<c, t>> \in slots <=> literal
          /\ literal => kinds[c][t] = KindOf(code[i - 1])

\* At the end every static slot without a value in its trait is right in that
\* sense, wherever in the initialiser its assignment is and whatever the code
\* around it does (StaticClass.cpp:33-54 looks at two instructions at a time).
SlotsAsInitialised ==
  stage = "done" => \A c \in statics : \A t \in Unset(c) : SlotRight(c, t)

\* eval_method reads bytes without their sign, and divides the other way
\* round.
Plain(i) ==
  /\ i.op # "divide"
  /\ i.op = "pushbyte" => i.arg < 128

\* A call of a static method is replaced by what the call would return, as
\* long as the method neither divides nor pushes a negative byte.
ValuesAsReturned ==
  [][\A v \in values' \ values :
       All(TraitOf(v[1], v[2]).code, Plain) =>
         v[3] = Returned(TypeName(TraitOf(v[1], v[2]).returnType), machine[1])]_vars

\* When nothing is reported missing, what the later stages take without asking
\* is there: the type of buffers, so that no signature was compared with "any
\* type"; the wrapper and a static class; the instance traits that rename()
\* names by position, three of the clientbound base and the first of the
\* varint reader; the trait of the handler that find_if must find
\* (detfm.cpp:415).  Of the serverbound base it is the first trait only: the
\* third, which detfm.cpp:297 names, analyze() does not make sure of.
ReadyOrReported ==
  stage = "done" /\ missings = {} =>
    /\ byteArray # 0 /\ TypeName(byteArray) = "ByteArray"
    /\ \A r \in Roles \ {"interface_proxy"} : roles[r] # Null
    /\ statics # {}
    /\ file.classes[roles["base_spkt"]].itraits # <<>>
    /\ Len(file.classes[roles["base_cpkt"]].itraits) >= 3
    /\ file.classes[roles["varint_reader"]].itraits # <<>>
    /\ Some(file.classes[roles["pkt_hdlr"]].ctraits, Handles)

\* The walk comes to an end.
Ends == <>(stage \in {"done", "thrown", "undefined"})
=============================================================================
