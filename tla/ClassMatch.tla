----------------------------- MODULE ClassMatch -----------------------------
(***************************************************************************)
(* The class definitions of --classdef (src/match/): how one is read,      *)
(* which class of the file it matches, and the names it gives.             *)
(*                                                                         *)
(* A definition, and each trait in it, is a record with None for what the  *)
(* YAML file leaves out.  One number, stack, stands for the four bounds of *)
(* a method.  What is written as params is a list of types, params, or a   *)
(* number, paramCount.  Instance traits cannot be written down.            *)
(***************************************************************************)
EXTENDS PacketNames

CONSTANT None

\* None is neither a flag nor a name.
ASSUME MatchersAssumption ==
  /\ None \notin BOOLEAN
  /\ \A f \in Files : \A d \in Range(f.definitions) :
       /\ IsSequence(d.traits)
       /\ \A t \in Range(d.traits) :
            /\ t.final \in BOOLEAN \cup {None}
            /\ t.paramCount = None \/ t.params = <<>>
            /\ \A text \in {t.type, t.returnType} \cup Range(t.params) : Fixed(text) # None

VARIABLE results   \* for each definition done with, its class or Null

definitions == file.definitions

-----------------------------------------------------------------------------
\* operator&& of MatchResult.
And(r, s) == IF r = "nomatch" \/ (r = "match" /\ s = "skip") THEN r ELSE s
Result(b) == IF b THEN "match" ELSE "nomatch"

\* CHECK_RESULT of each, and the last result as it is.
Checked(checks, last) ==
  IF "nomatch" \in Range(checks) THEN "nomatch" ELSE last

NumberMatch(wanted, value) ==
  IF wanted = None THEN "skip" ELSE Result(wanted = value)

\* MultinameMatcher; a multiname without a name has the empty text.
NameMatch(text, m) ==
  IF text = None THEN "skip"
  ELSE Result(m # 0 /\ pool.multinames[m].kind # "Typename" /\ Text(pool, m) = text)

IsSlot(t) == t.kind \in {"Slot", "Const"}

TypeMatch(d, t) == NameMatch(Fixed(d.type), t.type)

\* match_value() of the matchers for slots.  A number or a boolean is looked
\* at only when the definition has a value; a string needs one in the file.
ValueSlot(d, t, kinds) ==
  IF TypeMatch(d, t) = "nomatch" \/ d.value = None THEN TypeMatch(d, t)
  ELSE Result(t.slotKind \in kinds /\ t.value = d.value)

NumberKinds  == {3, 4, 6}
BooleanKinds == {10, 11}
NumberSlot(d, t)  == ValueSlot(d, t, NumberKinds)
BooleanSlot(d, t) == ValueSlot(d, t, BooleanKinds)

StringSlot(d, t) ==
  IF t.slotKind # 1 THEN "nomatch"
  ELSE And(TypeMatch(d, t), Result(d.value = None \/ d.value = t.value))

PlainSlot(d, t) == IF t.slotKind = 0 THEN TypeMatch(d, t) ELSE "nomatch"

SlotMatch(d, t) ==
  CASE ~IsSlot(t) -> "nomatch"
    [] IsSlot(t) /\ d.type = "String" -> StringSlot(d, t)
    [] IsSlot(t) /\ d.type \in {"Number", "int"} -> NumberSlot(d, t)
    [] IsSlot(t) /\ d.type = "Boolean" -> BooleanSlot(d, t)
    [] OTHER -> PlainSlot(d, t)

\* Types of parameters, where a list of none says nothing, or their number.
TypesMatch(params, m) ==
  IF params = <<>> THEN "skip"
  ELSE Result(/\ Len(params) = Len(m.params)
              /\ \A i \in DOMAIN params : NameMatch(Fixed(params[i]), m.params[i]) # "nomatch")
ParamsMatch(d, m) ==
  IF d.paramCount = None THEN TypesMatch(d.params, m)
  ELSE NumberMatch(d.paramCount, Len(m.params))

\* A definition has no names of parameters, so a method that has some fails.
MethodMatch(d, m) ==
  Checked(<<NameMatch(IF d.returnType = None THEN None ELSE Fixed(d.returnType), m.returnType),
            NumberMatch(d.stack, m.stack), ParamsMatch(d, m)>>,
          Result(~m.paramNames))

\* MethodTraitMatcher::parse_value(): the attributes asked for, and whether
\* they are to be absent; with an override nothing is left of them.
Attributes(d) == IF d.final # None /\ d.override = None THEN 1 ELSE 0
Parses(d) ==
  d.type = None /\ d.override # None => d.override = (d.final # FALSE)

AttrMatch(d, t) ==
  IF Attributes(d) = 0 THEN "skip"
  ELSE Result((t.attr % 2 = 1) = (d.final = TRUE))

TraitMatch(d, t) ==
  IF d.type # None THEN Checked(<<NumberMatch(d.slotid, t.slotId)>>, SlotMatch(d, t))
  ELSE Checked(<<AttrMatch(d, t), NumberMatch(d.slotid, t.slotId)>>,
               IF t.kind = "Method" THEN MethodMatch(d, MethodOf(t)) ELSE "nomatch")

\* Mutant: a trait that was taken is not removed from the list.
PicksAgain(ds, traits) ==
  [k \in DOMAIN ds |-> First(traits, 1, LAMBDA t : TraitMatch(ds[k], t) = "match")]

\* The first trait that d matches and that is left, or Null.
Pick(d, traits, taken) ==
  LET free == {i \in DOMAIN traits \ taken : TraitMatch(d, traits[i]) = "match"}
  IN IF free = {} THEN Null ELSE CHOOSE i \in free : \A j \in free : i <= j

\* What each matcher picks, after the ones before it.
Picks(ds, traits) ==
  LET pick[k \in 0..Len(ds)] ==
        IF k = 0 THEN <<>>
        ELSE Append(pick[k - 1], Pick(ds[k], traits, Range(pick[k - 1])))
  IN pick[Len(ds)]

ClassMatches(d, c) ==
  LET traits == Traits(c, "ctraits")
      picks == Picks(d.traits, traits)
      left == Traits(c, "itraits") # <<>> \/ \E i \in DOMAIN traits : i \notin Range(picks)
  IN /\ d.traits # <<>> /\ Null \notin Range(picks)
     /\ ~(d.strict /\ left)

\* execute_actions(): the class, then its traits.
Executed(d, c) ==
  LET traits == Traits(c, "ctraits")
      picks == Picks(d.traits, traits)
      action(k) == IF k = 0 THEN d.action ELSE d.traits[k].action
      name(k) == IF k = 0 THEN Name(c) ELSE traits[picks[k]].name
  IN RenameAll(pool, [k \in {k \in 0..Len(d.traits) : action(k) # None} |->
                        <<name(k), Fixed(action(k))>>])

-----------------------------------------------------------------------------
ParsesClass(d) == \A k \in DOMAIN d.traits : Parses(d.traits[k])

\* load_classdef(): nobody catches the ParserError of one that does not parse.
LoadDefinitions ==
  /\ stage = "classdef"
  /\ stage' = IF \A d \in Range(definitions) : ParsesClass(d) THEN "matching" ELSE "crashed"
  /\ next' = 1
  /\ UNCHANGED <<pool, results>> /\ Same

\* The first class that matches gets the names.
MatchDefinition ==
  /\ Loop("matching", definitions)
  /\ LET d == definitions[next]
         fits == {c \in DOMAIN file.classes : ClassMatches(d, c)}
         c == IF fits = {} THEN Null ELSE CHOOSE c \in fits : \A e \in fits : c <= e
     IN /\ pool' = IF c = Null THEN pool ELSE Executed(d, c)
        /\ results' = Append(results, c)
  /\ Same

MatchingDone ==
  /\ Leave("matching", definitions, "proxy")
  /\ UNCHANGED <<pool, results>> /\ Same

ClassMatchNext == LoadDefinitions \/ MatchDefinition \/ MatchingDone

-----------------------------------------------------------------------------
(***************************************************************************)
(* What a definition says, read without the matchers.  The code drops      *)
(* final when override is given, reads no value for a type that is none of *)
(* these, and never asks whether a slot is const.                          *)
(***************************************************************************)
HasValue(type) == type \in {"String", "Number", "int", "Boolean"}
ValueKinds(type) ==
  CASE type = "String"  -> {1}
    [] type \in {"Number", "int"} -> NumberKinds
    [] type = "Boolean" -> BooleanKinds
    [] OTHER -> {0}

Given(wanted, value) == wanted # None => wanted = value
Called(text, m) ==
  m # 0 /\ pool.multinames[m].kind # "Typename" /\ Text(pool, m) = Fixed(text)

SaysSlot(d, t) ==
  /\ IsSlot(t) /\ Given(d.slotid, t.slotId) /\ Called(d.type, t.type)
  /\ d.value # None \/ d.type \notin {"Number", "int", "Boolean"}
       => /\ t.slotKind \in ValueKinds(d.type)
          /\ HasValue(d.type) => Given(d.value, t.value)

SaysMethod(d, t) ==
  /\ t.kind = "Method" /\ Given(d.slotid, t.slotId)
  /\ d.override = None => Given(d.final, t.attr % 2 = 1)
  /\ LET m == MethodOf(t)
     IN /\ ~m.paramNames /\ Given(d.stack, m.stack)
        /\ d.returnType # None => Called(d.returnType, m.returnType)
        /\ Given(d.paramCount, Len(m.params))
        /\ d.params # <<>> =>
             Len(m.params) = Len(d.params) /\ \A i \in DOMAIN d.params : Called(d.params[i], m.params[i])

Says(d, t) == IF d.type # None THEN SaysSlot(d, t) ELSE SaysMethod(d, t)

\* An assignment of traits to all that is said of them, that leaves none out
\* if the definition is strict.
Fits(d, c) ==
  LET traits == Traits(c, "ctraits")
  IN /\ d.traits # <<>>
     /\ \E f \in [DOMAIN d.traits -> DOMAIN traits] :
          /\ \A j, k \in DOMAIN f : f[j] = f[k] => j = k
          /\ \A k \in DOMAIN f : Says(d.traits[k], traits[f[k]])
          /\ d.strict => Range(f) = DOMAIN traits /\ Traits(c, "itraits") = <<>>

\* Of two parts of the definition that the same trait fits, the later one is
\* fit by all that fit the earlier.
Ordered(d, c) ==
  LET fit(k) == {i \in DOMAIN Traits(c, "ctraits") : Says(d.traits[k], Traits(c, "ctraits")[i])}
  IN \A j, k \in DOMAIN d.traits : j < k => fit(j) \cap fit(k) = {} \/ fit(j) \subseteq fit(k)

\* A definition names the first class it describes, and none if it describes
\* none, as long as what is narrower comes first in it: a trait is never
\* given back.
DescribedIsNamed ==
  [][\A k \in DOMAIN results' \ DOMAIN results :
       LET d == definitions[k]
           fits == {c \in DOMAIN file.classes : Fits(d, c)}
       IN (\A c \in DOMAIN file.classes : Ordered(d, c)) =>
            IF fits = {} THEN results'[k] = Null
            ELSE results'[k] \in fits /\ \A c \in fits : results'[k] <= c
    ]_results
=============================================================================
