---------------------------- MODULE MatchProofs -----------------------------
(***************************************************************************)
(* The user's definitions name what they describe, for every file and      *)
(* every list of definitions.                                              *)
(*                                                                         *)
(* The matchers agree with what the definition says (MatchersAgree).  They *)
(* take traits one after the other and give none back: if narrower ones    *)
(* come first, any other assignment of traits can be changed, one matcher  *)
(* at a time, into theirs (Exchange).                                      *)
(***************************************************************************)
EXTENDS Stages, TLAPS, WellFoundedInduction

-----------------------------------------------------------------------------
(***************************************************************************)
(* Numbers.                                                                *)
(***************************************************************************)
\* A set of numbers that is not empty has a least member.
LEMMA Smallest ==
  ASSUME NEW T, T \subseteq Nat, T # {}
  PROVE  LET x == CHOOSE x \in T : \A y \in T : x <= y
         IN x \in T /\ \A y \in T : x <= y
<1> DEFINE R == OpToRel(<, Nat)
<1>1. IsWellFoundedOn(R, Nat)
  BY NatLessThanWellFounded
<1>2. \A i \in Nat, j \in Nat : i < j => <<i, j>> \in R
  BY DEF OpToRel
<1> HIDE DEF R
<1>3. PICK x \in T : \A y \in T : ~ (<<y, x>> \in R)
  BY <1>1, WFMin
<1>4. ASSUME NEW y \in T PROVE x <= y
  <2>1. ~(y < x)
    BY <1>2, <1>3
  <2> QED BY <2>1
<1> QED BY <1>4

\* A set that holds 0 and the successor of each member below n holds them all.
LEMMA InductionTo ==
  ASSUME NEW n \in Nat, NEW S, 0 \in S, \A k \in 0..(n - 1) : k \in S => k + 1 \in S
  PROVE  0..n \subseteq S
<1> SUFFICES ASSUME (0..n) \ S # {} PROVE FALSE
  OBVIOUS
<1> DEFINE T == (0..n) \ S
<1>1. PICK x \in T : \A y \in T : x <= y
  <2>1. T \subseteq Nat /\ T # {}
    OBVIOUS
  <2> HIDE DEF T
  <2> QED BY <2>1, Smallest
<1>2. x - 1 \in 0..(n - 1) /\ x - 1 \notin T /\ (x - 1) + 1 = x
  BY <1>1
<1> QED BY <1>1, <1>2

-----------------------------------------------------------------------------
(***************************************************************************)
(* Picks.                                                                  *)
(***************************************************************************)
\* The equation of its recursion, which has a solution.
Picked(pick, ds, traits) ==
  pick = [k \in 0..Len(ds) |->
            IF k = 0 THEN <<>> ELSE Append(pick[k - 1], Pick(ds[k], traits, Range(pick[k - 1])))]
LEMMA PicksExist ==
  ASSUME NEW ds, IsSequence(ds), NEW traits
  PROVE  \E pick : Picked(pick, ds, traits)
<1> DEFINE n == Len(ds)
           Then(p, k) == Append(p[k - 1], Pick(ds[k], traits, Range(p[k - 1])))
           Solves(p, m) == p[0] = <<>> /\ \A k \in 1..m : p[k] = Then(p, k)
           S == {m \in Nat : \E p : DOMAIN p = 0..n /\ Solves(p, m)}
<1>0. n \in Nat
  BY DEF IsSequence
<1>1. 0 \in S
  <2>1. Solves([k \in 0..n |-> <<>>], 0)
    BY <1>0
  <2> QED BY <2>1
<1>2. ASSUME NEW m \in 0..(n - 1), m \in S PROVE m + 1 \in S
  <2>1. PICK p : DOMAIN p = 0..n /\ Solves(p, m)
    BY <1>2
  <2> DEFINE q == [k \in 0..n |-> IF k = m + 1 THEN Then(p, m + 1) ELSE p[k]]
  <2>2. \A k \in 0..m : q[k] = p[k]
    BY <1>0
  <2>3. q[m + 1] = Then(p, m + 1)
    BY <1>0
  <2> HIDE DEF q
  <2>4. ASSUME NEW k \in 1..(m + 1) PROVE q[k] = Then(q, k)
    <3>1. q[k - 1] = p[k - 1]
      BY <2>2
    <3>2. CASE k = m + 1
      BY <2>3, <3>1, <3>2
    <3>3. CASE k # m + 1
      <4>1. k \in 1..m
        BY <3>3
      <4>2. q[k] = p[k]
        BY <2>2, <4>1
      <4> QED BY <2>1, <3>1, <4>1, <4>2
    <3> QED BY <3>2, <3>3
  <2>5. Solves(q, m + 1)
    BY <2>1, <2>2, <2>4
  <2>6. DOMAIN q = 0..n
    BY DEF q
  <2> HIDE DEF Solves
  <2> QED BY <2>5, <2>6
<1>3. n \in S
  <2> HIDE DEF S, n
  <2> QED BY <1>0, <1>1, <1>2, InductionTo
<1>4. PICK p : DOMAIN p = 0..n /\ Solves(p, n)
  <2> HIDE DEF Solves
  <2> QED BY <1>3
<1> DEFINE q == [k \in 0..n |-> p[k]]
<1>5. \A k \in 0..n : q[k] = p[k]
  OBVIOUS
<1>6. ASSUME NEW k \in 0..n
      PROVE  q[k] = IF k = 0 THEN <<>> ELSE Then(q, k)
  <2>1. CASE k = 0
    BY <1>4, <1>5, <2>1
  <2>2. CASE k # 0
    <3>1. k \in 1..n /\ k - 1 \in 0..n
      BY <1>0, <2>2
    <3>2. q[k - 1] = p[k - 1]
      BY <1>5, <3>1
    <3>3. q[k] = Then(p, k)
      BY <1>4, <1>5, <3>1
    <3> QED BY <2>2, <3>2, <3>3
  <2> QED BY <2>1, <2>2
<1>7. q = [k \in 0..n |-> IF k = 0 THEN <<>> ELSE Then(q, k)]
  <2>1. q = [k \in 0..n |-> q[k]]
    OBVIOUS
  <2> HIDE DEF q, Then
  <2> QED BY <1>6, <2>1
<1>8. Picked(q, ds, traits)
  BY <1>7, Zenon DEF Picked
<1> HIDE DEF q
<1> QED BY <1>8

\* Pick returns a trait that is there, or Null.
LEMMA PickFacts ==
  ASSUME NEW d, NEW traits, IsSequence(traits), NEW taken
  PROVE  LET free == {i \in DOMAIN traits \ taken : TraitMatch(d, traits[i]) = "match"}
             i == Pick(d, traits, taken)
         IN IF free = {} THEN i = Null ELSE i \in free /\ i # Null
<1> DEFINE free == {i \in DOMAIN traits \ taken : TraitMatch(d, traits[i]) = "match"}
<1>1. free \subseteq Nat /\ 0 \notin free
  BY DEF IsSequence
<1>2. Pick(d, traits, taken) = IF free = {} THEN Null ELSE CHOOSE i \in free : \A j \in free : i <= j
  BY DEF Pick
<1>3. SUFFICES IF free = {} THEN Pick(d, traits, taken) = Null
               ELSE Pick(d, traits, taken) \in free /\ Pick(d, traits, taken) # Null
  BY Zenon
<1> HIDE DEF free
<1>4. CASE free # {}
  BY <1>1, <1>2, <1>4, Smallest DEF Null
<1> QED BY <1>2, <1>4

\* What the k-th matcher picks, by what those before it have picked.
LEMMA PicksFacts ==
  ASSUME NEW ds, IsSequence(ds), NEW traits, IsSequence(traits)
  PROVE  LET picks == Picks(ds, traits)
         IN /\ picks \in Seq(DOMAIN traits \cup {Null}) /\ DOMAIN picks = DOMAIN ds
            /\ \A k \in DOMAIN ds :
                 picks[k] = Pick(ds[k], traits, {picks[j] : j \in 1..(k - 1)})
<1> DEFINE n == Len(ds)
           F == CHOOSE pick : Picked(pick, ds, traits)
           T == DOMAIN traits \cup {Null}
<1>0. n \in Nat /\ DOMAIN ds = 1..n
  BY DEF IsSequence
<1>1. F = [k \in 0..n |-> IF k = 0 THEN <<>> ELSE Append(F[k - 1], Pick(ds[k], traits, Range(F[k - 1])))]
  <2>1. \E pick : Picked(pick, ds, traits)
    BY PicksExist
  <2>2. Picked(F, ds, traits)
    BY <2>1
  <2> QED BY <2>2, Zenon DEF Picked
<1>2. Picks(ds, traits) = F[n]
  BY Zenon DEF Picks, Picked
<1> HIDE DEF F
<1> HIDE DEF T
<1>b. ASSUME NEW k \in 0..n
      PROVE  F[k] = IF k = 0 THEN <<>> ELSE Append(F[k - 1], Pick(ds[k], traits, Range(F[k - 1])))
  BY <1>1, Zenon
<1>3. F[0] = <<>>
  <2>1. 0 \in 0..n
    BY <1>0
  <2> QED BY <1>b, <2>1, Zenon
<1>4. ASSUME NEW k \in 1..n
      PROVE  F[k] = Append(F[k - 1], Pick(ds[k], traits, Range(F[k - 1])))
  <2>1. k \in 0..n /\ k # 0
    BY <1>0
  <2> QED BY <1>b, <2>1, Zenon
<1>e. Len(<<>>) = 0 /\ <<>> \in Seq(T)
  OBVIOUS
<1> DEFINE Right(k) ==
             /\ F[k] \in Seq(T) /\ Len(F[k]) = k
             /\ \A j \in 1..k : F[k][j] = Pick(ds[j], traits, {F[k][i] : i \in 1..(j - 1)})
           S == {k \in 0..n : Right(k)}
<1>5. 0 \in S
  <2>1. \A j \in 1..0 : FALSE
    OBVIOUS
  <2>2. Right(0)
    BY <1>3, <1>e, <2>1
  <2> HIDE DEF Right
  <2> QED BY <1>0, <2>2
<1>6. ASSUME NEW k \in 0..(n - 1), k \in S PROVE k + 1 \in S
  <2> DEFINE b == F[k]
             x == Pick(ds[k + 1], traits, Range(b))
  <2>1. b \in Seq(T) /\ Len(b) = k /\ DOMAIN b = 1..k
    BY <1>6
  <2>2. F[k + 1] = Append(b, x)
    <3>1. k + 1 \in 1..n /\ (k + 1) - 1 = k
      BY <1>0
    <3> QED BY <1>4, <3>1
  <2>3. x \in T
    <3> USE DEF T
    <3>1. \/ x = Null
          \/ x \in {i \in DOMAIN traits \ Range(b) : TraitMatch(ds[k + 1], traits[i]) = "match"}
      <4> HIDE DEF b
      <4> QED BY PickFacts, Zenon DEF x
    <3> QED BY <3>1
  <2>4. \A j \in 1..k : b[j] = Pick(ds[j], traits, {b[i] : i \in 1..(j - 1)})
    BY <1>6
  <2>5. Range(b) = {b[i] : i \in 1..k}
    BY <2>1 DEF Range
  <2> HIDE DEF b, x
  <2> DEFINE c == Append(b, x)
  <2>6. c \in Seq(T) /\ Len(c) = k + 1
    BY <2>1, <2>3
  <2>7. c[k + 1] = x /\ \A j \in 1..k : c[j] = b[j]
    BY <2>1, <2>3
  <2> HIDE DEF c
  <2>8. ASSUME NEW j \in 1..(k + 1)
        PROVE  c[j] = Pick(ds[j], traits, {c[i] : i \in 1..(j - 1)})
    <3>1. {c[i] : i \in 1..(j - 1)} = {b[i] : i \in 1..(j - 1)}
      BY <2>7
    <3>2. CASE j = k + 1
      <4>1. (k + 1) - 1 = k
        OBVIOUS
      <4> QED BY <2>5, <2>7, <3>1, <3>2, <4>1 DEF x
    <3>3. CASE j # k + 1
      <4>1. j \in 1..k
        BY <3>3
      <4> QED BY <2>4, <2>7, <3>1, <4>1
    <3> QED BY <3>2, <3>3
  <2>9. Right(k + 1)
    BY <2>2, <2>6, <2>8 DEF c
  <2> HIDE DEF Right
  <2> QED BY <1>0, <2>9
<1>7. n \in S
  <2> HIDE DEF S, n
  <2>1. n \in Nat /\ n \in 0..n
    BY <1>0
  <2>2. 0..n \subseteq S
    BY <1>5, <1>6, <2>1, InductionTo
  <2> QED BY <2>1, <2>2
<1>8. /\ F[n] \in Seq(T) /\ Len(F[n]) = n
      /\ \A j \in 1..n : F[n][j] = Pick(ds[j], traits, {F[n][i] : i \in 1..(j - 1)})
  BY <1>7
<1>9. DOMAIN F[n] = 1..n
  BY <1>8
<1> QED BY <1>0, <1>2, <1>8, <1>9 DEF T

-----------------------------------------------------------------------------
(***************************************************************************)
(* The matchers agree with what is said.                                   *)
(***************************************************************************)
\* A part of a definition.
IsPart(d) ==
  /\ d.final \in BOOLEAN \cup {None}
  /\ d.paramCount = None \/ d.params = <<>>
  /\ \A text \in {d.type, d.returnType} \cup Range(d.params) : Fixed(text) # None

LEMMA NameAgrees ==
  ASSUME NEW text, Fixed(text) # None, NEW m
  PROVE  NameMatch(Fixed(text), m) = IF Called(text, m) THEN "match" ELSE "nomatch"
  BY DEF NameMatch, Called, Result

LEMMA NumberAgrees ==
  ASSUME NEW wanted, NEW value
  PROVE  NumberMatch(wanted, value) = "nomatch" <=> ~Given(wanted, value)
  BY DEF NumberMatch, Given, Result

LEMMA SlotsAgree ==
  ASSUME NEW d, IsPart(d), NEW t
  PROVE  TraitMatch(d, t) = "match" /\ d.type # None <=> SaysSlot(d, t) /\ d.type # None
<1> SUFFICES ASSUME d.type # None
             PROVE  TraitMatch(d, t) = "match" <=> SaysSlot(d, t)
  OBVIOUS
<1> DEFINE type == TypeMatch(d, t)
           slotid == Given(d.slotid, t.slotId)
<1>1. type = IF Called(d.type, t.type) THEN "match" ELSE "nomatch"
  BY NameAgrees DEF IsPart, TypeMatch
<1>2. TraitMatch(d, t) = IF slotid THEN SlotMatch(d, t) ELSE "nomatch"
  <2>1. Range(<<NumberMatch(d.slotid, t.slotId)>>) = {NumberMatch(d.slotid, t.slotId)}
    BY DEF Range
  <2> QED BY <2>1, NumberAgrees DEF TraitMatch, Checked
<1>3. CASE ~IsSlot(t)
  BY <1>2, <1>3 DEF SlotMatch, SaysSlot
<1>4. CASE IsSlot(t) /\ d.type = "String"
  BY <1>1, <1>2, <1>4 DEF SlotMatch, StringSlot, SaysSlot, ValueKinds, HasValue, Given, And, Result
<1>5. CASE IsSlot(t) /\ d.type \in {"Number", "int"}
  BY <1>1, <1>2, <1>5 DEF SlotMatch, NumberSlot, ValueSlot, SaysSlot, ValueKinds, HasValue, Given, Result
<1>6. CASE IsSlot(t) /\ d.type = "Boolean"
  BY <1>1, <1>2, <1>6 DEF SlotMatch, BooleanSlot, ValueSlot, SaysSlot, ValueKinds, HasValue, Given, Result
<1>7. CASE IsSlot(t) /\ ~HasValue(d.type)
  BY <1>1, <1>2, <1>7 DEF SlotMatch, PlainSlot, SaysSlot, ValueKinds, HasValue, Given
<1> QED BY <1>3, <1>4, <1>5, <1>6, <1>7 DEF HasValue

LEMMA MethodsAgree ==
  ASSUME NEW d, IsPart(d), NEW t
  PROVE  TraitMatch(d, t) = "match" /\ d.type = None <=> SaysMethod(d, t) /\ d.type = None
<1> SUFFICES ASSUME d.type = None
             PROVE  TraitMatch(d, t) = "match" <=> SaysMethod(d, t)
  OBVIOUS
<1> DEFINE m == MethodOf(t)
           attr == AttrMatch(d, t)
           final == d.override = None => Given(d.final, t.attr % 2 = 1)
           returns == NameMatch(IF d.returnType = None THEN None ELSE Fixed(d.returnType), m.returnType)
           params == ParamsMatch(d, m)
<1>1. attr = "nomatch" <=> ~final
  <2> DEFINE odd == t.attr % 2 = 1
  <2>1. CASE d.override # None \/ d.final = None
    BY <2>1 DEF AttrMatch, Attributes, Given
  <2>2. CASE d.override = None /\ d.final # None
    <3>1. Attributes(d) = 1 /\ d.final \in BOOLEAN
      BY <2>2 DEF Attributes, IsPart
    <3>2. attr = Result(odd = (d.final = TRUE))
      BY <3>1 DEF AttrMatch
    <3>3. final <=> d.final = odd
      BY <2>2 DEF Given
    <3> HIDE DEF odd
    <3>4. odd = (d.final = TRUE) <=> d.final = odd
      BY <3>1
    <3> QED BY <3>2, <3>3, <3>4 DEF Result
  <2> QED BY <2>1, <2>2
<1>2. returns = "nomatch" <=> ~(d.returnType # None => Called(d.returnType, m.returnType))
  <2>1. CASE d.returnType = None
    BY <2>1 DEF NameMatch
  <2>2. CASE d.returnType # None
    BY <2>2, NameAgrees DEF IsPart
  <2> QED BY <2>1, <2>2
<1>3. params = "nomatch" <=>
        ~(/\ Given(d.paramCount, Len(m.params))
          /\ d.params # <<>> => /\ Len(m.params) = Len(d.params)
                                /\ \A i \in DOMAIN d.params : Called(d.params[i], m.params[i]))
  <2>1. ASSUME NEW i \in DOMAIN d.params
        PROVE  NameMatch(Fixed(d.params[i]), m.params[i]) # "nomatch" <=> Called(d.params[i], m.params[i])
    <3>1. Fixed(d.params[i]) # None
      BY DEF IsPart, Range
    <3> QED BY <3>1, NameAgrees
  <2> HIDE DEF m
  <2>2. CASE d.paramCount = None
    BY <2>1, <2>2 DEF ParamsMatch, TypesMatch, Result, Given
  <2>3. CASE d.paramCount # None
    <3>1. d.params = <<>>
      BY <2>3 DEF IsPart
    <3> QED BY <2>3, <3>1 DEF ParamsMatch, NumberMatch, Result, Given
  <2> QED BY <2>2, <2>3
<1> HIDE DEF attr, final, returns, params
<1>4. MethodMatch(d, m) = "match" <=>
        ~m.paramNames /\ returns # "nomatch" /\ Given(d.stack, m.stack) /\ params # "nomatch"
  <2>1. Range(<<returns, NumberMatch(d.stack, m.stack), params>>) =
          {returns, NumberMatch(d.stack, m.stack), params}
    BY DEF Range
  <2>2. MethodMatch(d, m) = Checked(<<returns, NumberMatch(d.stack, m.stack), params>>, Result(~m.paramNames))
    BY DEF MethodMatch, returns, params
  <2> QED BY <2>1, <2>2, NumberAgrees DEF Checked, Result
<1>5. TraitMatch(d, t) = "match" <=>
        /\ attr # "nomatch" /\ Given(d.slotid, t.slotId)
        /\ t.kind = "Method" /\ MethodMatch(d, m) = "match"
  <2>1. Range(<<attr, NumberMatch(d.slotid, t.slotId)>>) = {attr, NumberMatch(d.slotid, t.slotId)}
    BY DEF Range
  <2>2. TraitMatch(d, t) = Checked(<<attr, NumberMatch(d.slotid, t.slotId)>>,
                                   IF t.kind = "Method" THEN MethodMatch(d, m) ELSE "nomatch")
    BY DEF TraitMatch, attr
  <2> QED BY <2>1, <2>2, NumberAgrees DEF Checked
<1>6. SaysMethod(d, t) <=>
        /\ t.kind = "Method" /\ Given(d.slotid, t.slotId) /\ final
        /\ ~m.paramNames /\ Given(d.stack, m.stack)
        /\ d.returnType # None => Called(d.returnType, m.returnType)
        /\ Given(d.paramCount, Len(m.params))
        /\ d.params # <<>> => /\ Len(m.params) = Len(d.params)
                              /\ \A i \in DOMAIN d.params : Called(d.params[i], m.params[i])
  BY Zenon DEF SaysMethod, final
<1> HIDE DEF m
<1> QED BY <1>1, <1>2, <1>3, <1>4, <1>5, <1>6

\* A matcher takes the traits of which all is true that the definition says.
LEMMA MatchersAgree ==
  ASSUME NEW d, IsPart(d), NEW t
  PROVE  TraitMatch(d, t) = "match" <=> Says(d, t)
  BY SlotsAgree, MethodsAgree DEF Says

-----------------------------------------------------------------------------
(***************************************************************************)
(* Taking the first trait that is left.                                    *)
(***************************************************************************)
\* Each part has a trait of its own of which it is true.
Assigns(f, ds, traits) ==
  /\ f \in [DOMAIN ds -> DOMAIN traits]
  /\ \A j, k \in DOMAIN f : f[j] = f[k] => j = k
  /\ \A k \in DOMAIN f : Says(ds[k], traits[f[k]])

FitsPart(ds, traits, k) == {i \in DOMAIN traits : Says(ds[k], traits[i])}
Narrowing(ds, traits) ==
  \A j, k \in DOMAIN ds :
    j < k => \/ FitsPart(ds, traits, j) \cap FitsPart(ds, traits, k) = {}
             \/ FitsPart(ds, traits, j) \subseteq FitsPart(ds, traits, k)

\* A pick, if there is one, has the trait that it is of.
LEMMA PicksSay ==
  ASSUME NEW ds, IsSequence(ds), NEW traits, IsSequence(traits),
         \A k \in DOMAIN ds : IsPart(ds[k]),
         Null \notin Range(Picks(ds, traits))
  PROVE  Assigns(Picks(ds, traits), ds, traits)
<1> DEFINE picks == Picks(ds, traits)
           taken(k) == {picks[j] : j \in 1..(k - 1)}
           free(k) == {i \in DOMAIN traits \ taken(k) : TraitMatch(ds[k], traits[i]) = "match"}
<1>1. /\ picks \in Seq(DOMAIN traits \cup {Null}) /\ DOMAIN picks = DOMAIN ds
      /\ \A k \in DOMAIN ds : picks[k] = Pick(ds[k], traits, taken(k))
  BY PicksFacts
<1>2. DOMAIN ds \subseteq Nat \ {0}
  BY DEF IsSequence
<1>3. ASSUME NEW k \in DOMAIN ds PROVE picks[k] \in free(k)
  <2>1. picks[k] # Null
    BY <1>1 DEF Range
  <2>2. IF free(k) = {} THEN Pick(ds[k], traits, taken(k)) = Null
        ELSE Pick(ds[k], traits, taken(k)) \in free(k) /\ Pick(ds[k], traits, taken(k)) # Null
    <3> HIDE DEF taken
    <3> QED BY PickFacts, Zenon
  <2> HIDE DEF free
  <2> QED BY <1>1, <2>1, <2>2
<1> HIDE DEF picks
<1>4. ASSUME NEW k \in DOMAIN ds
      PROVE  /\ picks[k] \in DOMAIN traits /\ Says(ds[k], traits[picks[k]])
             /\ \A j \in DOMAIN ds : j < k => picks[j] # picks[k]
  <2>1. \A j \in DOMAIN ds : j < k => j \in 1..(k - 1)
    BY <1>2
  <2> QED BY <1>3, <2>1, MatchersAgree
<1>5. picks \in [DOMAIN ds -> DOMAIN traits]
  <2>1. picks = [k \in DOMAIN picks |-> picks[k]]
    BY <1>1
  <2> QED BY <1>1, <1>4, <2>1
<1>6. ASSUME NEW j \in DOMAIN ds, NEW k \in DOMAIN ds, picks[j] = picks[k] PROVE j = k
  <2>1. j \in Nat /\ k \in Nat
    BY <1>2
  <2>2. ~(j < k) /\ ~(k < j)
    BY <1>4, <1>6
  <2> QED BY <2>1, <2>2
<1>7. Assigns(picks, ds, traits)
  BY <1>1, <1>4, <1>5, <1>6 DEF Assigns
<1> QED BY <1>7 DEF picks

\* Any assignment can be changed into the one picked.
LEMMA Exchange ==
  ASSUME NEW ds, IsSequence(ds), NEW traits, IsSequence(traits),
         \A k \in DOMAIN ds : IsPart(ds[k]),
         Narrowing(ds, traits), NEW f, Assigns(f, ds, traits)
  PROVE  /\ Null \notin Range(Picks(ds, traits))
         /\ Range(f) = DOMAIN traits => Range(Picks(ds, traits)) = DOMAIN traits
<1> DEFINE n == Len(ds)
           picks == Picks(ds, traits)
           taken(k) == {picks[j] : j \in 1..(k - 1)}
           free(k) == {i \in DOMAIN traits \ taken(k) : TraitMatch(ds[k], traits[i]) = "match"}
           Full(g) == Range(f) = DOMAIN traits => Range(g) = DOMAIN traits
           Upto(g, k) == Assigns(g, ds, traits) /\ Full(g) /\ \A j \in 1..k : g[j] = picks[j]
           S == {k \in 0..n : \E g : Upto(g, k)}
<1>0. n \in Nat /\ DOMAIN ds = 1..n /\ DOMAIN traits \subseteq Nat \ {0}
  BY DEF IsSequence
<1>1. /\ picks \in Seq(DOMAIN traits \cup {Null}) /\ DOMAIN picks = DOMAIN ds
      /\ \A k \in DOMAIN ds : picks[k] = Pick(ds[k], traits, taken(k))
  BY PicksFacts
<1>2. ASSUME NEW k \in DOMAIN ds
      PROVE  IF free(k) = {} THEN picks[k] = Null ELSE picks[k] \in free(k)
  <2>1. IF free(k) = {} THEN Pick(ds[k], traits, taken(k)) = Null
        ELSE Pick(ds[k], traits, taken(k)) \in free(k) /\ Pick(ds[k], traits, taken(k)) # Null
    <3> HIDE DEF taken
    <3> QED BY PickFacts, Zenon
  <2> HIDE DEF free
  <2> QED BY <1>1, <2>1
<1> HIDE DEF picks
<1>3. 0 \in S
  <2>1. Upto(f, 0)
    OBVIOUS
  <2> HIDE DEF Upto
  <2> QED BY <1>0, <2>1
<1>4. ASSUME NEW k \in 0..(n - 1), k \in S PROVE k + 1 \in S
  <2>1. PICK g : Upto(g, k)
    BY <1>4
  <2> DEFINE a == k + 1
             x == picks[a]
  <2>2. a \in DOMAIN ds /\ a \in Nat /\ a - 1 = k /\ 1..k \subseteq DOMAIN ds
    BY <1>0
  <2>3. taken(a) = {g[j] : j \in 1..k}
    BY <2>1, <2>2
  <2>4. /\ g \in [DOMAIN ds -> DOMAIN traits]
        /\ \A i, j \in DOMAIN ds : g[i] = g[j] => i = j
        /\ \A j \in DOMAIN ds : Says(ds[j], traits[g[j]])
    BY <2>1 DEF Assigns
  <2>5. g[a] \in free(a)
    <3>1. ASSUME NEW j \in 1..k PROVE g[a] # g[j]
      BY <2>2, <2>4
    <3> QED BY <2>2, <2>3, <2>4, <3>1, MatchersAgree
  <2>6. x \in DOMAIN traits /\ x \notin taken(a) /\ Says(ds[a], traits[x])
    <3>1. x \in free(a)
      BY <1>2, <2>2, <2>5
    <3> QED BY <2>2, <3>1, MatchersAgree
  <2> SUFFICES \E h : Upto(h, a)
    <3> HIDE DEF Upto
    <3> QED BY <2>2, <1>0
  <2> HIDE DEF x, a, free
  <2>7. CASE \A m \in DOMAIN ds : g[m] # x
    <3> DEFINE h == [g EXCEPT ![a] = x]
    <3>1. h \in [DOMAIN ds -> DOMAIN traits]
      BY <2>2, <2>4, <2>6
    <3>2. \A i, j \in DOMAIN ds : h[i] = h[j] => i = j
      BY <2>2, <2>4, <2>7
    <3>3. \A j \in DOMAIN ds : Says(ds[j], traits[h[j]])
      BY <2>2, <2>4, <2>6
    <3>4. Range(g) # DOMAIN traits
      BY <2>4, <2>6, <2>7 DEF Range
    <3>5. \A j \in 1..a : h[j] = picks[j]
      <4>1. \A j \in 1..a : j \in DOMAIN ds /\ (j = a \/ (j # a /\ j \in 1..k))
        BY <1>0, <2>2 DEF a
      <4> QED BY <2>1, <2>4, <4>1 DEF x
    <3> HIDE DEF h
    <3>6. Upto(h, a)
      BY <2>1, <3>1, <3>2, <3>3, <3>4, <3>5 DEF Assigns
    <3> QED BY <3>6
  <2>8. ASSUME NEW m \in DOMAIN ds, g[m] = x PROVE \E h : Upto(h, a)
    <3> DEFINE h == [g EXCEPT ![a] = x, ![m] = g[a]]
    <3>1. m \in Nat /\ (m = a \/ a < m)
      <4>1. m \notin 1..k
        BY <2>3, <2>6, <2>8
      <4> QED BY <1>0, <2>2, <4>1 DEF a
    <3>2. Says(ds[m], traits[g[a]])
      <4>1. CASE m = a
        BY <2>2, <2>4, <4>1
      <4>2. CASE a < m
        <5>1. x \in FitsPart(ds, traits, a) /\ x \in FitsPart(ds, traits, m)
          BY <2>4, <2>6, <2>8 DEF FitsPart
        <5>2. FitsPart(ds, traits, a) \subseteq FitsPart(ds, traits, m)
          BY <2>2, <4>2, <5>1 DEF Narrowing
        <5>3. g[a] \in FitsPart(ds, traits, a)
          BY <2>2, <2>4 DEF FitsPart
        <5> QED BY <5>2, <5>3 DEF FitsPart
      <4> QED BY <3>1, <4>1, <4>2
    <3>3. h = [j \in DOMAIN ds |-> IF j = m THEN g[a] ELSE IF j = a THEN x ELSE g[j]]
      BY <2>2, <2>4
    <3> HIDE DEF h
    <3>4. h \in [DOMAIN ds -> DOMAIN traits]
      BY <2>2, <2>4, <2>6, <3>3
    <3>5. \A i, j \in DOMAIN ds : h[i] = h[j] => i = j
      BY <2>2, <2>4, <2>8, <3>3
    <3>6. \A j \in DOMAIN ds : Says(ds[j], traits[h[j]])
      BY <2>2, <2>4, <2>6, <3>2, <3>3
    <3>7. Range(h) = Range(g)
      <4>1. ASSUME NEW j \in DOMAIN ds PROVE g[j] \in Range(h)
        <5>1. h[a] = x \/ m = a
          BY <2>2, <3>3
        <5>2. h[m] = g[a] /\ (j # a /\ j # m => h[j] = g[j])
          BY <3>3
        <5> QED BY <2>2, <2>8, <3>4, <5>1, <5>2 DEF Range
      <4>2. ASSUME NEW j \in DOMAIN ds PROVE h[j] \in Range(g)
        BY <2>2, <2>4, <2>8, <3>3 DEF Range
      <4>3. DOMAIN g = DOMAIN ds /\ DOMAIN h = DOMAIN ds
        BY <2>4, <3>4
      <4> QED BY <4>1, <4>2, <4>3, Zenon DEF Range
    <3>8. \A j \in 1..a : h[j] = picks[j]
      <4>1. \A j \in 1..a : j \in DOMAIN ds /\ (j = a \/ (j # a /\ j # m /\ j \in 1..k))
        BY <1>0, <2>2, <3>1 DEF a
      <4>2. h[a] = x
        BY <2>2, <2>8, <3>3
      <4> QED BY <2>1, <3>3, <4>1, <4>2 DEF x
    <3>9. Upto(h, a)
      BY <2>1, <3>4, <3>5, <3>6, <3>7, <3>8 DEF Assigns
    <3> HIDE DEF Upto
    <3> QED BY <3>9
  <2> QED BY <2>7, <2>8
<1>5. n \in S
  <2> HIDE DEF S, n
  <2>1. 0..n \subseteq S
    BY <1>0, <1>3, <1>4, InductionTo
  <2> QED BY <1>0, <2>1
<1>6. PICK g : Upto(g, n)
  BY <1>5
<1>7. g = picks
  <2>1. DOMAIN g = DOMAIN ds /\ g = [k \in DOMAIN g |-> g[k]]
    BY <1>6 DEF Assigns
  <2>2. picks = [k \in DOMAIN ds |-> picks[k]]
    BY <1>1
  <2>3. \A k \in DOMAIN ds : g[k] = picks[k]
    BY <1>0, <1>6
  <2> QED BY <2>1, <2>2, <2>3
<1>8. Range(g) \subseteq DOMAIN traits
  BY <1>6 DEF Assigns, Range
<1>9. Null \notin DOMAIN traits
  BY <1>0 DEF Null
<1> QED BY <1>6, <1>7, <1>8, <1>9 DEF picks

-----------------------------------------------------------------------------
(***************************************************************************)
(* A class matches if and only if the definition describes it.             *)
(***************************************************************************)
\* The traits of a class, also after they were cleared.
LEMMA TraitsSequence ==
  ASSUME file \in Files, NEW c \in DOMAIN file.classes
  PROVE  IsSequence(Traits(c, "ctraits")) /\ IsSequence(Traits(c, "itraits"))
<1>1. file.classes[c] \in Range(file.classes)
  BY DEF Range
<1>2. IsSequence(file.classes[c].ctraits) /\ IsSequence(file.classes[c].itraits)
  BY <1>1, FilesAssumption
<1>3. IsSequence(<<>>)
  BY DEF IsSequence
<1> QED BY <1>2, <1>3 DEF Traits

LEMMA ClassesAgree ==
  ASSUME file \in Files, NEW d \in Range(definitions), NEW c \in DOMAIN file.classes, Ordered(d, c)
  PROVE  ClassMatches(d, c) <=> Fits(d, c)
<1> DEFINE ds == d.traits
           traits == Traits(c, "ctraits")
           inner == Traits(c, "itraits")
           picks == Picks(ds, traits)
           All == \A i \in DOMAIN traits : i \in Range(picks)
<1>1. IsSequence(ds) /\ IsSequence(traits)
  BY MatchersAssumption, TraitsSequence DEF definitions
<1>2. \A k \in DOMAIN ds : IsPart(ds[k])
  <2>1. \A k \in DOMAIN ds : ds[k] \in Range(ds)
    BY DEF Range
  <2>2. \A t \in Range(ds) : IsPart(t)
    BY MatchersAssumption DEF definitions, IsPart
  <2> QED BY <2>1, <2>2
<1>3. Narrowing(ds, traits)
  BY Zenon DEF Ordered, Narrowing, FitsPart
<1>4. ClassMatches(d, c) <=>
        ds # <<>> /\ Null \notin Range(picks) /\ ~(d.strict /\ (inner # <<>> \/ ~All))
  BY Zenon DEF ClassMatches
<1>5. Fits(d, c) <=>
        ds # <<>> /\ \E f : /\ Assigns(f, ds, traits)
                            /\ d.strict => Range(f) = DOMAIN traits /\ inner = <<>>
  BY Zenon DEF Fits, Assigns
<1> HIDE DEF ds, traits, inner
<1>6. ASSUME ClassMatches(d, c) PROVE Fits(d, c)
  <2>1. Assigns(picks, ds, traits)
    BY <1>1, <1>2, <1>4, <1>6, PicksSay
  <2>2. Range(picks) \subseteq DOMAIN traits
    BY <2>1 DEF Assigns, Range
  <2>3. All => Range(picks) = DOMAIN traits
    BY <2>2
  <2> HIDE DEF All, picks
  <2>4. d.strict => Range(picks) = DOMAIN traits /\ inner = <<>>
    BY <1>4, <1>6, <2>3, Zenon
  <2>5. ds # <<>>
    BY <1>4, <1>6, Zenon
  <2> QED BY <1>5, <2>1, <2>4, <2>5, Zenon
<1>7. ASSUME Fits(d, c) PROVE ClassMatches(d, c)
  <2>1. PICK f : Assigns(f, ds, traits) /\ (d.strict => Range(f) = DOMAIN traits /\ inner = <<>>)
    BY <1>5, <1>7, Zenon
  <2>2. Null \notin Range(picks) /\ (Range(f) = DOMAIN traits => Range(picks) = DOMAIN traits)
    BY <1>1, <1>2, <1>3, <2>1, Exchange
  <2>3. Range(picks) = DOMAIN traits => All
    OBVIOUS
  <2> HIDE DEF All, picks
  <2>4. ds # <<>>
    BY <1>5, <1>7, Zenon
  <2> QED BY <1>4, <2>1, <2>2, <2>3, <2>4, Zenon
<1> QED BY <1>6, <1>7

-----------------------------------------------------------------------------
(***************************************************************************)
(* One result per definition.                                              *)
(***************************************************************************)
Late == {"matching", "proxy", "write", "ended", "crashed"}

\* The results come one by one, once the definitions were loaded.
ResultsOK ==
  /\ file \in Files /\ results \in Seq(Nat)
  /\ stage \notin Late => results = <<>>
  /\ stage = "matching" => next = Len(results) + 1

\* The other stages come before and do not go to this one.
LEMMA PacketEarly ==
  ASSUME PacketNext
  PROVE  stage \notin Late /\ stage' # "matching" /\ file' = file
<1>1. CASE NameBases
  BY <1>1 DEF NameBases, Go, Late, Same, Rest
<1>2. CASE NameWriter \/ WritersDone \/ NameReader \/ ReadersDone
  BY <1>2 DEF NameWriter, WritersDone, NameReader, ReadersDone, Loop, Leave, Late, Same, Rest
<1>3. CASE NameProxied \/ ProxiedDone \/ NamePacket \/ PacketsDone \/ NameStatic \/ NameWrapper
  BY <1>3 DEF NameProxied, ProxiedDone, NamePacket, PacketsDone, NameStatic, NameWrapper, Loop,
              Leave, Late, Same, Rest
<1> QED BY <1>1, <1>2, <1>3 DEF PacketNext

LEMMA DispatchEarly ==
  ASSUME DispatchNext
  PROVE  stage \notin Late /\ stage' # "matching" /\ file' = file
<1>1. CASE NameHandler
  BY <1>1 DEF NameHandler, Late, Same, Rest, Walk
<1>2. CASE WalkOn \/ EnterCategory \/ EnterTribulle \/ WalkDone \/ FixSet \/ SetsDone
  BY <1>2 DEF WalkOn, EnterCategory, EnterTribulle, WalkDone, FixSet, SetsDone, Loop,
              Leave, Late, Same, Rest, Walk
<1>3. CASE NameCode
  BY <1>3 DEF NameCode, Resumed, Late, Same, Rest, Walk
<1>4. CASE LeaveCategory
  BY <1>4 DEF LeaveCategory, Resumed, Late, Same, Rest, Walk
<1>5. CASE SubOn
  BY <1>5 DEF SubOn, Late, Same, Rest, Walk
<1>6. CASE SubDone \/ ReadNull
  BY <1>6 DEF SubDone, ReadNull, Resumed, Late, Same, Rest, Walk
<1> QED BY <1>1, <1>2, <1>3, <1>4, <1>5, <1>6 DEF DispatchNext

LEMMA TribulleEarly ==
  ASSUME TribulleNext
  PROVE  stage \notin Late /\ stage' # "matching" /\ file' = file
<1>1. CASE FindCaller
  BY <1>1 DEF FindCaller, Fail, Unnamed, Late, Same, Rest, Walk
<1>2. CASE FollowPath
  BY <1>2 DEF FollowPath, Fail, Unnamed, Late, Same, Rest, Walk
<1>3. CASE FindMaker
  BY <1>3 DEF FindMaker, Fail, Unnamed, Late, Same, Rest, Walk
<1>4. CASE FindIds \/ ServerDone \/ NameClientBase \/ ClientDone
  BY <1>4 DEF FindIds, ServerDone, NameClientBase, ClientDone, Late, Same, Rest, Walk
<1>5. CASE NameServer
  BY <1>5 DEF NameServer, Late, Same, Rest, Walk
<1>6. CASE NameClient
  BY <1>6 DEF NameClient, Late, Same, Rest, Walk
<1> QED BY <1>1, <1>2, <1>3, <1>4, <1>5, <1>6 DEF TribulleNext

\* The first of the classes that match, or Null.
Matched(d) ==
  LET fits == {c \in DOMAIN file.classes : ClassMatches(d, c)}
  IN IF fits = {} THEN Null ELSE CHOOSE c \in fits : \A e \in fits : c <= e

LEMMA MatchedFirst ==
  ASSUME file \in Files, NEW d
  PROVE  /\ Matched(d) \in Nat
         /\ LET fits == {c \in DOMAIN file.classes : ClassMatches(d, c)}
            IN IF fits = {} THEN Matched(d) = Null
               ELSE Matched(d) \in fits /\ \A c \in fits : Matched(d) <= c
<1> DEFINE fits == {c \in DOMAIN file.classes : ClassMatches(d, c)}
<1>1. DOMAIN file.classes \subseteq Nat
  <2>1. ASSUME NEW s, IsSequence(s) PROVE DOMAIN s \subseteq Nat
    <3>1. s \in Seq(Range(s))
      BY <2>1, Zenon DEF IsSequence
    <3>2. ASSUME NEW S, s \in Seq(S) PROVE DOMAIN s \subseteq Nat
      <4>1. DOMAIN s = 1..Len(s) /\ Len(s) \in Nat
        BY <3>2
      <4> QED BY <4>1
    <3> QED BY <3>1, <3>2, Zenon
  <2>2. IsSequence(file.classes)
    BY FilesAssumption, Zenon
  <2> QED BY <2>1, <2>2, Zenon
<1>2. fits \subseteq Nat
  BY <1>1
<1>3. Matched(d) = IF fits = {} THEN Null ELSE CHOOSE c \in fits : \A e \in fits : c <= e
  BY Zenon DEF Matched
<1> SUFFICES /\ Matched(d) \in Nat
             /\ IF fits = {} THEN Matched(d) = Null
                ELSE Matched(d) \in fits /\ \A c \in fits : Matched(d) <= c
  BY Zenon
<1> HIDE DEF fits
<1>4. CASE fits = {}
  BY <1>3, <1>4 DEF Null
<1>5. CASE fits # {}
  BY <1>2, <1>3, <1>5, Smallest
<1> QED BY <1>4, <1>5

\* A step that gives a result gives the one of the next definition.
LEMMA ResultGiven ==
  ASSUME ResultsOK, MatchDefinition
  PROVE  /\ next = Len(results) + 1 /\ next \in DOMAIN definitions
         /\ results' = Append(results, Matched(definitions[next])) /\ ResultsOK'
<1>1. /\ stage = "matching" /\ stage' = stage /\ next \in DOMAIN definitions /\ next' = next + 1
      /\ file' = file
      /\ results' = Append(results, Matched(definitions[next]))
  BY Zenon DEF MatchDefinition, Loop, Matched, Same, Rest
<1>2. Matched(definitions[next]) \in Nat
  BY MatchedFirst DEF ResultsOK
<1> QED BY <1>1, <1>2 DEF ResultsOK, Late

LEMMA ResultsStep ==
  ASSUME ResultsOK, [Next]_vars
  PROVE  ResultsOK'
<1>1. CASE /\ UNCHANGED <<file, results>> /\ stage' # "matching" /\ (stage \in Late => stage' \in Late)
  BY <1>1 DEF ResultsOK
<1>2. CASE NamingNext /\ UNCHANGED results
  BY <1>1, <1>2 DEF NamingNext, RenameSymbol, NameGame, RenameSite, NextOwner, RenamerDone, Late,
                    symbolVars
<1>3. CASE LoadDefinitions
  BY <1>3 DEF LoadDefinitions, ResultsOK, Late, Same, Rest
<1>4. CASE MatchDefinition
  BY <1>4, ResultGiven
<1>5. CASE MatchingDone
  BY <1>1, <1>5 DEF MatchingDone, Leave, Late, Same, Rest
<1>6. CASE Read \/ Analyzed \/ Proxy \/ Write
  BY <1>1, <1>6 DEF Read, Analyzed, Proxy, Write, Stop, Others, Late, mainVars
<1>7. CASE Ended \/ UNCHANGED vars
  BY <1>7 DEF Ended, vars, ResultsOK
<1>8. CASE (PacketNext \/ DispatchNext \/ TribulleNext) /\ UNCHANGED results
  BY <1>1, <1>8, PacketEarly, DispatchEarly, TribulleEarly
<1> QED
  BY <1>2, <1>3, <1>4, <1>5, <1>6, <1>7, <1>8 DEF Next, ClassMatchNext, mainVars, handlerVars

\* Each definition names the first class it describes and none if it
\* describes none, if narrower parts come first in it.
THEOREM Described == Spec => DescribedIsNamed
<1> DEFINE Right(k, r) ==
      LET d == definitions[k]
          fits == {c \in DOMAIN file.classes : Fits(d, c)}
      IN (\A c \in DOMAIN file.classes : Ordered(d, c)) =>
           IF fits = {} THEN r = Null ELSE r \in fits /\ \A c \in fits : r <= c
<1>1. Init => ResultsOK
  BY DEF Init, ResultsOK
<1>2. ResultsOK /\ [Next]_vars => ResultsOK'
  BY ResultsStep
<1>3. ASSUME ResultsOK, MatchDefinition
      PROVE  \A k \in DOMAIN results' \ DOMAIN results : Right(k, results'[k])
  <2> DEFINE d == definitions[next]
  <2>1. /\ next = Len(results) + 1 /\ next \in DOMAIN definitions
        /\ results' = Append(results, Matched(d)) /\ results \in Seq(Nat) /\ Matched(d) \in Nat
    BY <1>3, ResultGiven, MatchedFirst DEF ResultsOK
  <2>2. \A k \in DOMAIN results' \ DOMAIN results : k = next /\ results'[k] = Matched(d)
    <3> HIDE DEF d
    <3> QED BY <2>1
  <2>3. Right(next, Matched(d))
    <3> SUFFICES ASSUME \A c \in DOMAIN file.classes : Ordered(d, c)
                 PROVE  LET fits == {c \in DOMAIN file.classes : Fits(d, c)}
                        IN IF fits = {} THEN Matched(d) = Null
                           ELSE Matched(d) \in fits /\ \A c \in fits : Matched(d) <= c
      BY Zenon
    <3>1. d \in Range(definitions) /\ file \in Files
      BY <1>3, <2>1 DEF Range, ResultsOK
    <3>2. \A c \in DOMAIN file.classes : ClassMatches(d, c) <=> Fits(d, c)
      BY <3>1, ClassesAgree
    <3> HIDE DEF d
    <3>3. {c \in DOMAIN file.classes : ClassMatches(d, c)} = {c \in DOMAIN file.classes : Fits(d, c)}
      BY <3>2
    <3> QED BY <3>1, <3>3, MatchedFirst
  <2> HIDE DEF Right
  <2> QED BY <2>2, <2>3
<1>4. ASSUME ResultsOK, [Next]_vars
      PROVE  [\A k \in DOMAIN results' \ DOMAIN results : Right(k, results'[k])]_results
  <2>1. MatchDefinition \/ UNCHANGED results
    BY <1>4 DEF Next, vars, ClassMatchNext, LoadDefinitions, MatchingDone, Read, Analyzed, Proxy,
                Write, Ended, Others
  <2> HIDE DEF Right
  <2> QED BY <1>3, <1>4, <2>1
<1> QED BY <1>1, <1>2, <1>4, PTL DEF Spec, DescribedIsNamed
=============================================================================
