--------------------------- MODULE AnalysisProofs ---------------------------
(***************************************************************************)
(* What analyze() finds, for every file: proofs of Analysis's properties.  *)
(*                                                                         *)
(* None of the properties is inductive by itself.  What makes them so is   *)
(* that every class found lies in front of the one looked at (FoundBefore),*)
(* and that a pattern is open exactly as long as its class has not been    *)
(* found (OpenRight), although two of the patterns never look.             *)
(***************************************************************************)
EXTENDS Analysis, SequenceTheorems, FiniteSetTheorems, TLAPS

InStatic == stage \in {"traits", "init", "thrown", "undefined"}

FoundBefore ==
  /\ \A r \in Roles : roles[r] # Null => roles[r] < klass
  /\ \A c \in statics : c < klass \/ (c = klass /\ InStatic)
  /\ InStatic => klass \in statics
  /\ stage = "begin" => klass = 1

OpenRight ==
  /\ \A i \in DOMAIN open : roles[open[i]] = Null
  /\ \A i, j \in DOMAIN open : open[i] = open[j] => i = j
  /\ \A p \in PatternSet : roles[p] = Null => \E i \in DOMAIN open : open[i] = p

\* What has been found has the shape, and what is reported is what was not.
ShapesRight ==
  \A p \in PatternSet, c \in Classes :
    roles[p] = c => stage # "begin" /\ Shape(p, file.classes[c])

FoundFits ==
  /\ ShapesRight
  /\ byteArray # 0 => TypeName(byteArray) = "ByteArray"
  /\ stage = "done" /\ missings = {} =>
       byteArray # 0 /\ statics # {} /\ \A r \in Reported : roles[r] # Null

FileOK == file \in Files

Inv == FileOK /\ TypeOK /\ FoundBefore /\ OpenRight

-----------------------------------------------------------------------------
\* A slice of a sequence.
LEMMA Slice ==
  ASSUME NEW S, NEW s \in Seq(S), NEW m \in 1..(Len(s) + 1), NEW n \in 0..Len(s), m <= n + 1
  PROVE  /\ SubSeq(s, m, n) \in Seq(S) /\ Len(SubSeq(s, m, n)) = n - m + 1
         /\ \A i \in 1..(n - m + 1) : SubSeq(s, m, n)[i] = s[m + i - 1]
<1>1. \A i \in m..n : s[i] \in S
  OBVIOUS
<1>2. m \in Int /\ n \in Int /\ Len(s) \in Nat
  OBVIOUS
<1>3. /\ SubSeq(s, m, n) \in Seq(S)
      /\ Len(SubSeq(s, m, n)) = IF m <= n THEN n - m + 1 ELSE 0
      /\ \A i \in 1..n - m + 1 : SubSeq(s, m, n)[i] = s[m + i - 1]
  BY <1>1, <1>2, SubSeqProperties
<1>4. (IF m <= n THEN n - m + 1 ELSE 0) = n - m + 1
  BY <1>2
<1> QED BY <1>3, <1>4

\* Taking an element out of a sequence without duplicates.
LEMMA WithoutOne ==
  ASSUME NEW S, NEW s \in Seq(S), NEW j \in DOMAIN s,
         \A i, k \in DOMAIN s : s[i] = s[k] => i = k
  PROVE  /\ Without(s, j) \in Seq(S)
         /\ \A i \in DOMAIN Without(s, j) :
              \E k \in DOMAIN s \ {j} : Without(s, j)[i] = s[k]
         /\ \A i, k \in DOMAIN Without(s, j) :
              Without(s, j)[i] = Without(s, j)[k] => i = k
         /\ \A k \in DOMAIN s \ {j} : \E i \in DOMAIN Without(s, j) : Without(s, j)[i] = s[k]
<1> DEFINE front == SubSeq(s, 1, j - 1)
           back  == SubSeq(s, j + 1, Len(s))
           w     == front \o back
<1>1. /\ j \in 1..Len(s) /\ Len(s) \in Nat /\ j \in Nat /\ DOMAIN s = 1..Len(s)
      /\ \A i \in 1..Len(s) : s[i] \in S
  OBVIOUS
<1>2. /\ front \in Seq(S) /\ Len(front) = j - 1
      /\ \A i \in 1..(j - 1) : front[i] = s[i]
  <2>1. /\ 1 \in 1..(Len(s) + 1) /\ j - 1 \in 0..Len(s) /\ 1 <= (j - 1) + 1
        /\ (j - 1) - 1 + 1 = j - 1 /\ \A i \in 1..(j - 1) : 1 + i - 1 = i
    BY <1>1
  <2> QED BY <2>1, Slice
<1>3. /\ back \in Seq(S) /\ Len(back) = Len(s) - j
      /\ \A i \in 1..(Len(s) - j) : back[i] = s[i + j]
  <2> DEFINE n == Len(s)
  <2>1. j \in 1..n /\ n \in Nat /\ j \in Nat
    BY <1>1
  <2> HIDE DEF n
  <2>2. /\ j + 1 \in 1..(n + 1) /\ n \in 0..n /\ j + 1 <= n + 1
        /\ n - (j + 1) + 1 = n - j
    BY <2>1
  <2>3. \A i \in 1..(n - j) : j + 1 + i - 1 = i + j
    BY <2>1
  <2> QED BY <2>2, <2>3, Slice DEF n
<1>4. /\ w \in Seq(S) /\ Len(w) = Len(s) - 1 /\ DOMAIN w = 1..(Len(s) - 1)
      /\ \A i \in 1..(Len(s) - 1) : w[i] = IF i < j THEN s[i] ELSE s[i + 1]
  <2> HIDE DEF front, back
  <2>0. /\ w \in Seq(S) /\ Len(w) = Len(front) + Len(back)
        /\ \A i \in 1..(Len(front) + Len(back)) :
             w[i] = IF i <= Len(front) THEN front[i] ELSE back[i - Len(front)]
    <3>1. front \in Seq(S) /\ back \in Seq(S)
      BY <1>2, <1>3
    <3> QED BY <3>1, ConcatProperties
  <2> HIDE DEF w
  <2>1. w \in Seq(S) /\ Len(w) = Len(s) - 1 /\ DOMAIN w = 1..(Len(s) - 1)
    BY <1>1, <1>2, <1>3, <2>0
  <2>2. ASSUME NEW i \in 1..(Len(s) - 1)
        PROVE  w[i] = IF i < j THEN s[i] ELSE s[i + 1]
    <3>1. i \in 1..(Len(front) + Len(back))
      BY <1>1, <1>2, <1>3
    <3>2. CASE i < j
      BY <1>1, <1>2, <1>3, <2>0, <3>1, <3>2
    <3>3. CASE ~(i < j)
      <4>1. ~(i <= Len(front)) /\ i - Len(front) \in 1..(Len(s) - j)
            /\ i - Len(front) + j = i + 1
        BY <1>1, <1>2, <3>3
      <4>2. w[i] = back[i - Len(front)]
        BY <2>0, <3>1, <4>1
      <4> QED BY <1>3, <3>3, <4>1, <4>2
    <3> QED BY <3>2, <3>3
  <2> QED BY <2>1, <2>2
<1> HIDE DEF w
<1>5. \A k \in DOMAIN s \ {j} : \E i \in DOMAIN w : w[i] = s[k]
  <2> TAKE k \in DOMAIN s \ {j}
  <2>1. CASE k < j
    BY <1>1, <1>4, <2>1
  <2>2. CASE k > j
    <3>1. k - 1 \in DOMAIN w /\ w[k - 1] = s[k]
      BY <1>1, <1>4, <2>2
    <3> QED BY <3>1
  <2> QED BY <1>1, <2>1, <2>2
<1>6. \A i \in DOMAIN w : \E k \in DOMAIN s \ {j} : w[i] = s[k]
  <2> TAKE i \in DOMAIN w
  <2>1. CASE i < j
    BY <1>1, <1>4, <2>1
  <2>2. CASE ~(i < j)
    <3>1. i + 1 \in DOMAIN s \ {j} /\ w[i] = s[i + 1]
      BY <1>1, <1>4, <2>2
    <3> QED BY <3>1
  <2> QED BY <2>1, <2>2
<1>7. \A i, k \in DOMAIN w : w[i] = w[k] => i = k
  <2> DEFINE old(i) == IF i < j THEN i ELSE i + 1
  <2> HIDE DEF w
  <2>1. ASSUME NEW i \in DOMAIN w PROVE old(i) \in DOMAIN s /\ w[i] = s[old(i)]
    BY <1>1, <1>4
  <2> TAKE i, k \in DOMAIN w
  <2> HAVE w[i] = w[k]
  <2>2. old(i) \in DOMAIN s /\ old(k) \in DOMAIN s /\ s[old(i)] = s[old(k)]
    BY <2>1
  <2> HIDE DEF old
  <2>3. old(i) = old(k)
    BY <2>2
  <2>4. i \in Nat /\ k \in Nat
    BY <1>1, <1>4
  <2> QED BY <1>1, <2>3, <2>4 DEF old
<1> QED BY <1>4, <1>5, <1>6, <1>7 DEF Without, w

-----------------------------------------------------------------------------
LEMMA NullNoClass == FileOK => Classes = 1..Len(file.classes) /\ Len(file.classes) \in Nat
BY FilesAssumption DEF FileOK, Classes

LEMMA InitInv == Init => Inv
<1> SUFFICES ASSUME Init PROVE Inv
  OBVIOUS
<1>1. FileOK
  BY DEF Init, FileOK
<1>2. TypeOK
  BY <1>1, NullNoClass DEF Init, TypeOK, Patterns, PatternSet, Classes
<1>3. FoundBefore
  BY DEF Init, FoundBefore, InStatic
<1>4. OpenRight
  BY DEF Init, OpenRight, Patterns, PatternSet, Roles
<1> QED BY <1>1, <1>2, <1>3, <1>4 DEF Inv

\* The classes and the patterns are as they were.
Kept == UNCHANGED <<file, byteArray, roles, open, statics>>

LEMMA StepInv == Inv /\ [Next]_vars => Inv'
<1> SUFFICES ASSUME Inv, [Next]_vars PROVE Inv'
  OBVIOUS
<1> USE DEF Inv
<1>0. /\ Classes = 1..Len(file.classes) /\ Len(file.classes) \in Nat
      /\ 0 \notin Classes
  BY NullNoClass
<1>1. CASE Kept /\ UNCHANGED klass /\ stage' = stage
  BY <1>1 DEF Kept, FileOK, TypeOK, FoundBefore, OpenRight, InStatic, Classes
<1>2. CASE FindByteArray
  BY <1>2 DEF FindByteArray, FileOK, TypeOK, FoundBefore, OpenRight, InStatic, Classes, QNames
<1>3. CASE TakeWrapper
  <2> USE <1>3 DEF TakeWrapper, Looking, NextClass
  <2>1. TypeOK'
    BY <1>0 DEF TypeOK, Classes, Roles
  <2>2. FoundBefore'
    BY <1>0 DEF TypeOK, FoundBefore, InStatic, Classes, Roles, Null
  <2>3. OpenRight'
    BY DEF TypeOK, OpenRight, Roles, PatternSet, Patterns
  <2> QED BY <2>1, <2>2, <2>3 DEF FileOK
<1>4. CASE TakeStatic
  BY <1>0, <1>4 DEF TakeStatic, Looking, FileOK, TypeOK, FoundBefore, OpenRight, InStatic, Classes
<1>5. CASE TakePattern
  <2> USE <1>5 DEF TakePattern, Ordinary, Looking, NextClass
  <2>1. PICK j \in DOMAIN open : /\ roles' = [roles EXCEPT ![open[j]] = klass]
                                 /\ open' = Without(open, j)
    OBVIOUS
  <2>2. open[j] \in PatternSet /\ open[j] \in Roles /\ open \in Seq(PatternSet)
    BY DEF TypeOK, Roles
  <2>3. /\ open' \in Seq(PatternSet)
        /\ \A i \in DOMAIN open' : \E k \in DOMAIN open \ {j} : open'[i] = open[k]
        /\ \A i, k \in DOMAIN open' : open'[i] = open'[k] => i = k
        /\ \A k \in DOMAIN open \ {j} : \E i \in DOMAIN open' : open'[i] = open[k]
    BY <2>1, <2>2, WithoutOne DEF OpenRight
  <2>4. TypeOK'
    <3>1. roles' \in [Roles -> {Null} \cup Classes]
      BY <2>1, <2>2 DEF TypeOK
    <3>2. klass' \in 1..(Len(file.classes) + 1)
      BY <1>0 DEF TypeOK, Classes
    <3> QED BY <2>3, <3>1, <3>2 DEF TypeOK, Classes
  <2>5. FoundBefore'
    <3>1. \A r \in Roles : roles'[r] = roles[r] \/ roles'[r] = klass
      BY <2>1, <2>2 DEF TypeOK
    <3>2. klass \in Nat /\ klass' = klass + 1 /\ stage = "class" /\ stage' = "class"
          /\ statics' = statics
      <4>1. klass \in 1..(Len(file.classes) + 1)
        BY DEF TypeOK
      <4> QED BY <1>0, <4>1
    <3>3. \A r \in Roles : roles'[r] # Null => roles'[r] < klass'
      BY <1>0, <3>1, <3>2 DEF TypeOK, FoundBefore, Null
    <3>4. \A c \in statics : c < klass'
      BY <1>0, <3>2 DEF TypeOK, FoundBefore, InStatic
    <3> QED BY <3>2, <3>3, <3>4 DEF FoundBefore, InStatic
  <2>6. OpenRight'
    <3>1. ASSUME NEW i \in DOMAIN open' PROVE roles'[open'[i]] = Null
      BY <2>1, <2>2, <2>3 DEF OpenRight, TypeOK
    <3>2. ASSUME NEW p \in PatternSet, roles'[p] = Null
          PROVE  \E i \in DOMAIN open' : open'[i] = p
      <4>1. p # open[j] /\ roles[p] = Null
        BY <1>0, <2>1, <2>2, <3>2 DEF TypeOK, Null, Roles
      <4>2. PICK k \in DOMAIN open : open[k] = p
        BY <4>1 DEF OpenRight
      <4> QED BY <2>3, <4>1, <4>2
    <3> QED BY <2>3, <3>1, <3>2 DEF OpenRight
  <2> QED BY <2>4, <2>5, <2>6 DEF FileOK
<1>6. CASE PassOver
  BY <1>0, <1>6 DEF PassOver, Ordinary, Looking, NextClass, FileOK, TypeOK, FoundBefore, OpenRight,
     InStatic, Classes, Null
<1>7. CASE EvaluateFails
  BY <1>7 DEF EvaluateFails, Evaluating, Building, staticVars, FileOK, TypeOK, FoundBefore, OpenRight,
     InStatic, Classes
<1>8. CASE TraitsDone \/ InitDone
  <2>1. /\ Kept /\ InStatic
        /\ NextClass \/ (stage' = "init" /\ klass' = klass)
    BY <1>8 DEF TraitsDone, InitDone, Building, Kept, InStatic
  <2> QED BY <1>0, <2>1 DEF Kept, NextClass, FileOK, TypeOK, FoundBefore, OpenRight, InStatic, Classes,
            Null
<1>9. CASE Report
  BY <1>9 DEF Report, FileOK, TypeOK, FoundBefore, OpenRight, InStatic, Classes
<1>10. CASE NoteSlot \/ EvaluateOn \/ EvaluateMethod \/ DefineSlot \/ WalkOn
  BY <1>1, <1>10 DEF NoteSlot, EvaluateOn, EvaluateMethod, DefineSlot, WalkOn, Building, Kept
<1>11. CASE Ended \/ UNCHANGED vars
  BY <1>1, <1>11 DEF Ended, vars, Kept
<1> QED BY <1>2, <1>3, <1>4, <1>5, <1>6, <1>7, <1>8, <1>9, <1>10, <1>11 DEF Next

LEMMA Invariance == Spec => []Inv
BY InitInv, StepInv, PTL DEF Spec

\* Type correctness, for every file.
THEOREM Typing == Spec => []TypeOK
BY Invariance, PTL DEF Inv

\* A class is taken while it is the one looked at, and all found so far lie
\* before it.
LEMMA OnePartStep == Inv /\ OnePart /\ [Next]_vars => OnePart'
<1> SUFFICES ASSUME Inv, OnePart, [Next]_vars PROVE OnePart'
  OBVIOUS
<1> USE DEF Inv
<1>0. /\ Classes = 1..Len(file.classes) /\ Len(file.classes) \in Nat
      /\ klass \in Nat \ {0} /\ \A r \in Roles : roles[r] \in Nat
      /\ statics \subseteq Nat \ {0}
  <2>1. /\ Classes = 1..Len(file.classes) /\ Len(file.classes) \in Nat
    BY NullNoClass
  <2> QED BY <2>1 DEF TypeOK, Null
<1>1. CASE UNCHANGED <<roles, statics>>
  BY <1>1 DEF OnePart
<1>2. CASE TakeStatic
  <2>1. /\ roles' = roles /\ statics' = statics \cup {klass} /\ stage = "class"
    BY <1>2 DEF TakeStatic, Looking
  <2> QED BY <1>0, <2>1 DEF OnePart, FoundBefore, InStatic, Null
<1>3. ASSUME NEW q \in Roles, roles' = [roles EXCEPT ![q] = klass], statics' = statics,
             stage = "class"
      PROVE  OnePart'
  <2>1. /\ roles'[q] = klass /\ \A r \in Roles \ {q} : roles'[r] = roles[r]
    BY <1>3 DEF TypeOK
  <2>2. \A r \in Roles : roles[r] # klass
    BY <1>0 DEF FoundBefore, Null
  <2>3. klass \notin statics
    BY <1>0, <1>3 DEF FoundBefore, InStatic
  <2> QED BY <1>3, <2>1, <2>2, <2>3 DEF OnePart
<1>4. CASE TakeWrapper
  BY <1>3, <1>4 DEF TakeWrapper, Looking, Roles
<1>5. CASE TakePattern
  <2>1. PICK j \in DOMAIN open : roles' = [roles EXCEPT ![open[j]] = klass]
    BY <1>5 DEF TakePattern
  <2>2. open[j] \in Roles
    BY DEF TypeOK, Roles
  <2> QED BY <1>3, <1>5, <2>1, <2>2 DEF TakePattern, Ordinary, Looking
<1>6. CASE FindByteArray \/ PassOver \/ NoteSlot \/ EvaluateOn \/ EvaluateFails \/ EvaluateMethod
           \/ TraitsDone \/ DefineSlot \/ WalkOn \/ InitDone \/ Report \/ Ended \/ UNCHANGED vars
  <2>1. UNCHANGED <<roles, statics>>
    BY <1>6 DEF FindByteArray, PassOver, NoteSlot, EvaluateOn, EvaluateFails, EvaluateMethod,
       TraitsDone, DefineSlot, WalkOn, InitDone, Report, Ended, Building, vars
  <2> QED BY <1>1, <2>1
<1> QED BY <1>2, <1>4, <1>5, <1>6 DEF Next

\* No class is taken for two things.
THEOREM TakenOnce == Spec => []OnePart
<1>1. Init => OnePart
  BY DEF Init, OnePart, Null
<1> QED BY <1>1, Invariance, OnePartStep, PTL DEF Spec

-----------------------------------------------------------------------------
\* What a step does to what has been found.
LEMMA StepFinds ==
  Inv /\ [Next]_vars =>
    /\ \A r \in Roles : roles[r] # Null => roles'[r] = roles[r]
    /\ statics \subseteq statics'
    /\ file' = file
<1> SUFFICES ASSUME Inv, [Next]_vars
    PROVE  /\ \A r \in Roles : roles[r] # Null => roles'[r] = roles[r]
           /\ statics \subseteq statics'
           /\ file' = file
  OBVIOUS
<1>1. CASE TakePattern
  <2>1. PICK j \in DOMAIN open : roles' = [roles EXCEPT ![open[j]] = klass]
    BY <1>1 DEF TakePattern
  <2>2. roles[open[j]] = Null
    BY DEF Inv, OpenRight
  <2> QED BY <1>1, <2>1, <2>2 DEF Inv, TypeOK, TakePattern
<1>2. CASE TakeWrapper
  BY <1>2 DEF TakeWrapper, MatchWrapClass, Inv, TypeOK
<1>3. CASE TakeStatic
  BY <1>3 DEF TakeStatic
<1>4. CASE FindByteArray \/ PassOver \/ NoteSlot \/ EvaluateOn \/ EvaluateFails \/ EvaluateMethod
           \/ TraitsDone \/ DefineSlot \/ WalkOn \/ InitDone \/ Report \/ Ended \/ UNCHANGED vars
  BY <1>4 DEF FindByteArray, PassOver, NoteSlot, EvaluateOn, EvaluateFails, EvaluateMethod,
     TraitsDone, DefineSlot, WalkOn, InitDone, Report, Ended, Building, vars
<1> QED BY <1>1, <1>2, <1>3, <1>4 DEF Next

\* The first class found for a part stays the one.
THEOREM FoundForGood == Spec => FirstWins
<1>1. Inv /\ [Next]_vars => [\A r \in Roles : roles[r] # Null => roles'[r] = roles[r]]_vars
  BY StepFinds
<1> QED BY <1>1, Invariance, PTL DEF Spec, FirstWins

-----------------------------------------------------------------------------
LEMMA ShapeKept ==
  ASSUME file' = file, byteArray' = byteArray, NEW CONSTANT p, NEW CONSTANT c
  PROVE  Shape(p, file.classes[c])' <=> Shape(p, file.classes[c])
<1>1. ServerboundShape(file.classes[c])' <=> ServerboundShape(file.classes[c])
  BY DEF ServerboundShape, IsBuffer
<1>2. ClientboundShape(file.classes[c])' <=> ClientboundShape(file.classes[c])
  BY DEF ClientboundShape, IsBuffer
<1>3. HandlerShape(file.classes[c])' <=> HandlerShape(file.classes[c])
  BY DEF HandlerShape, Some, Handles, IsMethod
<1>4. ReaderShape(file.classes[c])' <=> ReaderShape(file.classes[c])
  BY DEF ReaderShape, IsBuffer
<1>5. ProxyShape(file.classes[c])' <=> ProxyShape(file.classes[c])
  BY DEF ProxyShape
<1> QED BY <1>1, <1>2, <1>3, <1>4, <1>5 DEF Shape

Overlooked(c, p) ==
  /\ Shape(p, file.classes[c])
  /\ ~HasPart(c) /\ ~(roles[p] # Null /\ roles[p] < c)

\* A class that was not overlooked before is not so after.
LEMMA NotLater ==
  ASSUME Inv, [Next]_vars, byteArray' = byteArray, NEW p \in PatternSet, NEW c \in Classes,
         ~Overlooked(c, p)
  PROVE  ~Overlooked(c, p)'
<1>1. /\ \A r \in Roles : roles[r] # Null => roles'[r] = roles[r]
      /\ statics \subseteq statics' /\ file' = file
  BY StepFinds
<1>2. p \in Roles /\ c # Null
  BY NullNoClass DEF Roles, Null, Inv
<1>3. HasPart(c) => HasPart(c)'
  BY <1>1, <1>2 DEF HasPart
<1>4. Shape(p, file.classes[c])' => Shape(p, file.classes[c])
  BY <1>1, ShapeKept
<1> QED BY <1>1, <1>2, <1>3, <1>4 DEF Overlooked

LEMMA NoneOverlookedStep == Inv /\ NoneOverlooked /\ [Next]_vars => NoneOverlooked'
<1> SUFFICES ASSUME Inv, NoneOverlooked, [Next]_vars PROVE NoneOverlooked'
  OBVIOUS
<1>0. /\ Classes = 1..Len(file.classes) /\ Len(file.classes) \in Nat /\ klass \in Nat \ {0}
      /\ file' = file /\ Classes' = Classes
  <2>1. /\ Classes = 1..Len(file.classes) /\ Len(file.classes) \in Nat /\ file' = file
    BY NullNoClass, StepFinds DEF Inv
  <2> QED BY <2>1 DEF Inv, TypeOK, Classes
<1>1. SUFFICES ASSUME NEW c \in Seen', NEW p \in PatternSet PROVE ~Overlooked(c, p)'
  BY DEF NoneOverlooked, Overlooked
<1>2. c \in Classes /\ c < klass' /\ c \in Nat \ {0}
  BY <1>0 DEF Seen
<1>3. CASE byteArray' = byteArray /\ klass' = klass
  <2>1. ~Overlooked(c, p)
    BY <1>2, <1>3 DEF NoneOverlooked, Overlooked, Seen
  <2> QED BY <1>2, <1>3, <2>1, NotLater
<1>4. CASE FindByteArray
  <2>1. klass' = 1
    BY <1>4 DEF FindByteArray, Inv, FoundBefore
  <2> QED BY <1>2, <2>1
<1>5. CASE NextClass /\ byteArray' = byteArray /\ c # klass
  <2>1. c \in Seen
    BY <1>0, <1>2, <1>5 DEF NextClass, Seen
  <2>2. ~Overlooked(c, p)
    BY <2>1 DEF NoneOverlooked, Overlooked
  <2> QED BY <1>2, <1>5, <2>2, NotLater
<1>6. CASE HasPart(c)'
  BY <1>6 DEF Overlooked
<1>7. CASE TakeWrapper
  <2>1. /\ "wrap_class" \in Roles /\ roles'["wrap_class"] = klass
        /\ NextClass /\ byteArray' = byteArray
    BY <1>7 DEF TakeWrapper, Inv, TypeOK, Roles
  <2>2. c = klass => HasPart(c)'
    BY <2>1 DEF HasPart
  <2> QED BY <1>5, <1>6, <2>1, <2>2
<1>8. CASE TakePattern
  <2>1. PICK j \in DOMAIN open : roles' = [roles EXCEPT ![open[j]] = klass]
    BY <1>8 DEF TakePattern
  <2>2. open[j] \in Roles
    BY DEF Inv, TypeOK, Roles
  <2>3. roles'[open[j]] = klass /\ NextClass /\ byteArray' = byteArray
    BY <1>8, <2>1, <2>2 DEF TakePattern, Inv, TypeOK
  <2>4. c = klass => HasPart(c)'
    BY <2>2, <2>3 DEF HasPart
  <2> QED BY <1>5, <1>6, <2>3, <2>4
<1>9. CASE PassOver
  <2>1. NextClass /\ UNCHANGED <<file, byteArray, roles, statics>>
    BY <1>9 DEF PassOver
  <2>2. CASE c = klass
    <3>1. SUFFICES ASSUME Shape(p, file.classes[c])
                   PROVE  roles[p] # Null /\ roles[p] < c
      BY <2>1, ShapeKept DEF Overlooked
    <3>2. roles[p] # Null
      <4>1. SUFFICES ASSUME roles[p] = Null PROVE FALSE
        OBVIOUS
      <4>2. PICK i \in DOMAIN open : open[i] = p
        BY <4>1 DEF Inv, OpenRight
      <4>3. ~Matches(p, This)
        BY <1>9, <4>2 DEF PassOver
      <4> QED BY <2>2, <3>1, <4>1, <4>3 DEF Matches, This
    <3>3. p \in Roles
      BY DEF Roles
    <3> QED BY <2>2, <3>2, <3>3 DEF Inv, FoundBefore
  <2> QED BY <1>5, <2>1, <2>2
<1>10. CASE TraitsDone \/ InitDone
  <2>1. /\ klass' = klass \/ NextClass
        /\ byteArray' = byteArray /\ statics' = statics /\ klass \in statics
    BY <1>10 DEF TraitsDone, InitDone, Building, Inv, FoundBefore, InStatic
  <2>2. c = klass => HasPart(c)'
    BY <2>1 DEF HasPart
  <2> QED BY <1>3, <1>5, <1>6, <2>1, <2>2
<1>11. CASE TakeStatic \/ NoteSlot \/ EvaluateOn \/ EvaluateFails \/ EvaluateMethod \/ DefineSlot
            \/ WalkOn \/ Report \/ Ended \/ UNCHANGED vars
  <2>1. byteArray' = byteArray /\ klass' = klass
    BY <1>11 DEF TakeStatic, NoteSlot, EvaluateOn, EvaluateFails, EvaluateMethod, DefineSlot, WalkOn,
       Report, Ended, Building, vars
  <2> QED BY <1>3, <2>1
<1> QED BY <1>4, <1>7, <1>8, <1>9, <1>10, <1>11 DEF Next

\* A class is passed over only when its part was found before.
THEOREM Overlooks == Spec => []NoneOverlooked
<1>1. Init => NoneOverlooked
  BY NullNoClass DEF Init, NoneOverlooked, Seen, FileOK
<1> QED BY <1>1, Invariance, NoneOverlookedStep, PTL DEF Spec

-----------------------------------------------------------------------------
LEMMA FoundFitsStep == Inv /\ FoundFits /\ [Next]_vars => FoundFits'
<1> SUFFICES ASSUME Inv, FoundFits, [Next]_vars PROVE FoundFits'
  OBVIOUS
<1>0. file' = file /\ Classes' = Classes /\ \A c \in Classes : c # Null
  BY StepFinds, NullNoClass DEF Inv, Classes, Null
<1>1. CASE byteArray' = byteArray /\ roles' = roles /\ (stage' = "begin" => stage = "begin")
           /\ (stage' = "done" => stage = "done" /\ UNCHANGED <<missings, statics>>)
  <2>1. ShapesRight'
    BY <1>0, <1>1, ShapeKept DEF FoundFits, ShapesRight
  <2> QED BY <1>0, <1>1, <2>1 DEF FoundFits, TypeName
<1>2. CASE FindByteArray
  <2>1. /\ byteArray' # 0 => byteArray' \in QNames("ByteArray")
        /\ roles' = roles /\ stage = "begin" /\ stage' = "class"
    BY <1>2 DEF FindByteArray
  <2>2. ShapesRight'
    BY <1>0, <2>1 DEF FoundFits, ShapesRight
  <2> QED BY <1>0, <2>1, <2>2 DEF FoundFits, TypeName, QNames
<1>3. CASE TakeWrapper
  <2>1. /\ stage' = "class" /\ byteArray' = byteArray
        /\ \A p \in PatternSet : roles'[p] = roles[p]
    BY <1>3 DEF TakeWrapper, NextClass, PatternSet, Patterns, Inv, TypeOK
  <2>2. ShapesRight'
    BY <1>0, <2>1, ShapeKept DEF FoundFits, ShapesRight
  <2> QED BY <1>0, <2>1, <2>2 DEF FoundFits, TypeName
<1>4. CASE TakePattern
  <2>1. PICK j \in DOMAIN open : /\ Matches(open[j], This)
                                 /\ roles' = [roles EXCEPT ![open[j]] = klass]
    BY <1>4 DEF TakePattern
  <2>2. stage' = "class" /\ byteArray' = byteArray
    BY <1>4 DEF TakePattern, NextClass
  <2>3. ASSUME NEW p \in PatternSet, NEW c \in Classes, roles'[p] = c
        PROVE  Shape(p, file.classes[c])
    <3>1. CASE roles[p] = c
      BY <3>1 DEF FoundFits, ShapesRight
    <3>2. CASE roles[p] # c
      <4>1. p = open[j] /\ c = klass
        BY <2>1, <2>3, <3>2 DEF Inv, TypeOK, Roles
      <4> QED BY <2>1, <4>1 DEF Matches, This
    <3> QED BY <3>1, <3>2
  <2>4. ShapesRight'
    BY <1>0, <2>2, <2>3, ShapeKept DEF ShapesRight
  <2> QED BY <1>0, <2>2, <2>4 DEF FoundFits, TypeName
<1>5. CASE Report
  <2>1. /\ UNCHANGED <<byteArray, roles, statics>> /\ stage' = "done"
        /\ missings' = {r \in Reported : roles[r] = Null}
                 \cup (IF byteArray = 0 THEN {"ByteArray"} ELSE {})
                 \cup (IF statics = {} THEN {"static_classes"} ELSE {})
    BY <1>5 DEF Report
  <2>2. ShapesRight'
    BY <1>0, <1>5, <2>1, ShapeKept DEF FoundFits, ShapesRight, Report
  <2>3. missings' = {} => byteArray # 0 /\ statics # {} /\ \A r \in Reported : roles[r] # Null
    BY <2>1
  <2> QED BY <1>0, <2>1, <2>2, <2>3 DEF FoundFits, TypeName, Reported
<1>6. CASE PassOver \/ TakeStatic \/ TraitsDone \/ InitDone \/ NoteSlot \/ EvaluateOn
           \/ EvaluateFails \/ EvaluateMethod \/ DefineSlot \/ WalkOn \/ Ended \/ UNCHANGED vars
  BY <1>1, <1>6 DEF PassOver, TakeStatic, NextClass, TraitsDone, InitDone, NoteSlot, EvaluateOn,
     EvaluateFails, Evaluation, EvaluateMethod, DefineSlot, WalkOn, Building, Ended, vars
<1> QED BY <1>2, <1>3, <1>4, <1>5, <1>6 DEF Next

\* With nothing reported missing, ByteArray, the wrapper, a static class, the
\* handler's trait and the instance traits that rename() names by position are
\* there, but for the serverbound base's, of which only the first is.
THEOREM Ready == Spec => []ReadyOrReported
<1>1. Init => FoundFits
  <2> SUFFICES ASSUME Init PROVE FoundFits
    OBVIOUS
  <2>1. ShapesRight
    BY NullNoClass DEF Init, ShapesRight, FileOK, Null, Roles
  <2> QED BY <2>1 DEF Init, FoundFits
<1>2. Inv /\ FoundFits => ReadyOrReported
  <2> SUFFICES ASSUME Inv, FoundFits, stage = "done", missings = {} PROVE ReadyOrReported
    BY DEF ReadyOrReported
  <2>1. \A r \in Roles \ {"interface_proxy"} : roles[r] # Null
    BY DEF FoundFits, Reported
  <2>2. ASSUME NEW p \in {"base_spkt", "base_cpkt", "varint_reader", "pkt_hdlr"}
        PROVE  Shape(p, file.classes[roles[p]])
    <3>1. p \in PatternSet /\ p \in Roles /\ roles[p] # Null
      BY <2>1 DEF Roles, PatternSet, Patterns
    <3>2. roles[p] \in Classes
      BY <3>1 DEF Inv, TypeOK
    <3> QED BY <3>1, <3>2 DEF FoundFits, ShapesRight
  <2>3. ServerboundShape(file.classes[roles["base_spkt"]])
    BY <2>2 DEF Shape
  <2>4. ClientboundShape(file.classes[roles["base_cpkt"]])
    BY <2>2 DEF Shape
  <2>5. ReaderShape(file.classes[roles["varint_reader"]])
    BY <2>2 DEF Shape
  <2>6. HandlerShape(file.classes[roles["pkt_hdlr"]])
    BY <2>2 DEF Shape
  <2>7. Len(file.classes[roles["base_cpkt"]].itraits) >= 3
    BY <2>4 DEF ClientboundShape
  <2>8. file.classes[roles["base_spkt"]].itraits # <<>>
    BY <2>3 DEF ServerboundShape
  <2>9. file.classes[roles["varint_reader"]].itraits # <<>>
    BY <2>5 DEF ReaderShape
  <2>10. Some(file.classes[roles["pkt_hdlr"]].ctraits, Handles)
    BY <2>6 DEF HandlerShape
  <2>11. byteArray # 0 /\ TypeName(byteArray) = "ByteArray" /\ statics # {}
    BY DEF FoundFits
  <2> QED BY <2>1, <2>7, <2>8, <2>9, <2>10, <2>11 DEF ReadyOrReported
<1> QED BY <1>1, <1>2, Invariance, FoundFitsStep, PTL DEF Spec

-----------------------------------------------------------------------------
(***************************************************************************)
(* What eval_method returns.                                               *)
(***************************************************************************)
Wholes == {Whole(n) : n \in Int}

\* The two machines have the same stack of whole numbers.
Agree(s, m) == s = m /\ s \in Seq(Wholes)

\* While a method is evaluated in which all is plain.
Compares == All(TraitOf(klass, pos).code, Plain) => Agree(stack, machine)
EvalInv ==
  \/ ins = 1 /\ stack = <<>> /\ machine = <<>>
  \/ /\ stage \in {"traits", "thrown", "undefined"} /\ klass \in Classes
     /\ pos \in DOMAIN This.ctraits /\ IsMethod(This.ctraits[pos])
     /\ Compares

LEMMA WholesAdd ==
  ASSUME NEW p \in Wholes, NEW q \in Wholes
  PROVE  Plus(p, q) \in Wholes /\ Plus(p, q) = Plus(q, p)
<1>1. PICK a \in Int : p = Whole(a)
  BY DEF Wholes
<1>2. PICK b \in Int : q = Whole(b)
  BY DEF Wholes
<1>3. /\ Plus(p, q) = Reduced(a * 1 + b * 1, 1 * 1) /\ Plus(q, p) = Reduced(b * 1 + a * 1, 1 * 1)
  BY <1>1, <1>2 DEF Plus, Whole
<1>4. a * 1 + b * 1 = a + b /\ b * 1 + a * 1 = a + b /\ 1 * 1 = 1 /\ a + b \in Int
  OBVIOUS
<1>5. Reduced(a + b, 1) = Whole(a + b)
  BY DEF Reduced
<1> QED BY <1>3, <1>4, <1>5 DEF Wholes

LEMMA Remainder ==
  ASSUME NEW m \in Nat \ {0}, NEW x \in 0..(m - 1)
  PROVE  x % m = x
  OBVIOUS

\* Reading the field back: m values, the numbers from -h on.
LEMMA InHalf ==
  ASSUME NEW h \in Nat \ {0}, NEW m \in Nat, m = h + h, NEW x \in Int, -h <= x, x < h
  PROVE  ((x + h) % m) - h = x
<1>1. x + h \in 0..(m - 1) /\ m \in Nat \ {0}
  OBVIOUS
<1>2. (x + h) % m = x + h
  BY <1>1, Remainder
<1> QED BY <1>2

LEMMA ShortAsWritten ==
  ASSUME NEW x \in Short
  PROVE  Signed(x, 16) = x /\ x \in Int
<1>1. x \in Int /\ -32768 <= x /\ x < 32768
  BY DEF Short
<1>2. PICK h \in Nat \ {0} : h = 32768
  OBVIOUS
<1>3. PICK m \in Nat : m = 65536
  OBVIOUS
<1>4. 2^(16 - 1) = h /\ 2^16 = m
  BY <1>2, <1>3
<1>5. m = h + h /\ -h <= x /\ x < h
  BY <1>1, <1>2, <1>3
<1>6. ((x + h) % m) - h = x
  BY <1>1, <1>5, InHalf
<1> QED BY <1>1, <1>4, <1>6 DEF Signed

\* Where it pushes what the machine pushes.
LEMMA PushesAgree ==
  ASSUME NEW i, NEW ints, Plain(i),
         i.op = "pushbyte" => i.arg \in Byte,
         i.op = "pushshort" => i.arg \in Short,
         i.op = "pushint" => ints[i.arg + 1] \in Int,
         i.op \in {"pushbyte", "pushshort", "pushint"}, NEW s
  PROVE  /\ MachineStep(ints, s, i) = <<Whole(Operand(i, ints))>> \o s
         /\ Whole(Operand(i, ints)) \in Wholes
<1>1. CASE i.op = "pushbyte"
  <2>1. i.arg \in 0..127
    BY <1>1 DEF Plain, Byte
  <2>2. i.arg % 256 = i.arg /\ (i.arg + 128) % 256 = i.arg + 128
    BY <2>1, Remainder
  <2>3. Signed(i.arg, 8) = i.arg
    <3>1. 2^(8 - 1) = 128 /\ 2^8 = 256
      OBVIOUS
    <3> QED BY <2>1, <2>2, <3>1 DEF Signed
  <2> QED BY <1>1, <2>1, <2>2, <2>3 DEF MachineStep, Operand, Wholes
<1>2. CASE i.op = "pushshort"
  <2>1. Signed(i.arg, 16) = i.arg /\ i.arg \in Int
    <3>1. i.arg \in Short
      BY <1>2
    <3> QED BY <3>1, ShortAsWritten
  <2> QED BY <1>2, <2>1 DEF MachineStep, Operand, Wholes
<1>3. CASE i.op = "pushint"
  BY <1>3 DEF MachineStep, Operand, Wholes
<1> QED BY <1>1, <1>2, <1>3

\* A step that goes on keeps the stacks the same.
LEMMA StepAgrees ==
  ASSUME NEW i, NEW ints, NEW type, NEW s, NEW m, Plain(i), Agree(s, m),
         i.op = "pushbyte" => i.arg \in Byte,
         i.op = "pushshort" => i.arg \in Short,
         i.op = "pushint" => ints[i.arg + 1] \in Int,
         EvalStep(type, ints, s, i).status = "running"
  PROVE  Agree(EvalStep(type, ints, s, i).stack, MachineStep(ints, m, i))
<1> USE DEF Agree
<1>1. CASE i.op \in {"getlocal0", "pushscope"}
  BY <1>1 DEF EvalStep, MachineStep
<1>2. CASE i.op \in {"pushbyte", "pushshort", "pushint"}
  <2>1. EvalStep(type, ints, s, i).stack = <<Whole(Operand(i, ints))>> \o s
    BY <1>2 DEF EvalStep
  <2>2. /\ MachineStep(ints, s, i) = <<Whole(Operand(i, ints))>> \o s
        /\ Whole(Operand(i, ints)) \in Wholes
    BY <1>2, PushesAgree
  <2>3. \A x \in Wholes : <<x>> \o s \in Seq(Wholes)
    OBVIOUS
  <2> QED BY <2>1, <2>2, <2>3
<1>3. CASE i.op = "add"
  <2>1. Len(s) > 1 /\ EvalStep(type, ints, s, i).stack = Folded(s, Plus(s[1], s[2]))
    BY <1>3 DEF EvalStep
  <2>2. s[1] \in Wholes /\ s[2] \in Wholes
    BY <2>1
  <2>3. MachineStep(ints, s, i) = Folded(s, Plus(s[2], s[1]))
    BY <1>3 DEF MachineStep
  <2>4. Plus(s[1], s[2]) \in Wholes /\ Plus(s[1], s[2]) = Plus(s[2], s[1])
    BY <2>2, WholesAdd
  <2>5. SubSeq(s, 3, Len(s)) \in Seq(Wholes)
    <3>1. /\ 3 \in 1..(Len(s) + 1) /\ Len(s) \in 0..Len(s) /\ 3 <= Len(s) + 1
      BY <2>1
    <3> QED BY <3>1, Slice
  <2>6. Folded(s, Plus(s[1], s[2])) \in Seq(Wholes)
    BY <2>4, <2>5 DEF Folded
  <2> QED BY <2>1, <2>3, <2>4, <2>6
<1>4. CASE i.op \notin {"getlocal0", "pushscope", "pushbyte", "pushshort", "pushint", "add"}
  BY <1>4 DEF EvalStep, Plain
<1> QED BY <1>1, <1>2, <1>3, <1>4

\* A whole number is returned as it is, in either type.
LEMMA WholesReturned ==
  ASSUME NEW q \in Wholes, NEW type
  PROVE  Returned(type, q) = q
<1>1. PICK n \in Int : q = <<n, 1>>
  BY DEF Wholes, Whole
<1>2. n < 0 => -((-n) \div 1) = n
  OBVIOUS
<1>3. n \div 1 = n
  OBVIOUS
<1>4. Truncated(q) = q
  BY <1>1, <1>2, <1>3 DEF Truncated, Whole
<1> QED BY <1>1, <1>4 DEF Returned

LEMMA Compared ==
  ASSUME EvalInv, All(TraitOf(klass, pos).code, Plain)
  PROVE  Agree(stack, machine)
<1>1. CASE stack = <<>> /\ machine = <<>>
  BY <1>1 DEF Agree
<1>2. CASE Compares
  BY <1>2 DEF Compares, All
<1> QED BY <1>1, <1>2 DEF EvalInv

LEMMA EvalStepInv == Inv /\ EvalInv /\ [Next]_vars => EvalInv'
<1> SUFFICES ASSUME Inv, EvalInv, [Next]_vars PROVE EvalInv'
  OBVIOUS
<1>1. CASE UNCHANGED evalVars /\ ins = 1 /\ stack = <<>> /\ machine = <<>>
  BY <1>1 DEF EvalInv, evalVars
<1>2. ASSUME stage \notin {"traits", "thrown", "undefined"}, UNCHANGED evalVars PROVE EvalInv'
  BY <1>1, <1>2 DEF EvalInv
<1>3. CASE EvaluateOn
  <2> DEFINE trait == TraitOf(klass, pos)
             i == trait.code[ins]
             type == TypeName(trait.returnType)
  <2>1. /\ stage = "traits" /\ stage' = stage /\ klass' = klass /\ pos' = pos /\ file' = file
        /\ pos \in DOMAIN This.ctraits /\ IsMethod(This.ctraits[pos])
        /\ ins \in DOMAIN trait.code
        /\ EvalStep(type, file.ints, stack, i).status = "running"
        /\ stack' = EvalStep(type, file.ints, stack, i).stack
        /\ machine' = MachineStep(file.ints, machine, i)
    BY <1>3 DEF EvaluateOn, Evaluating, Evaluation, InCode, Building
  <2>2. klass \in Classes
    BY <1>3, NullNoClass DEF Inv, FoundBefore, InStatic, TypeOK, EvaluateOn, Evaluating
  <2>3. ASSUME All(trait.code, Plain) PROVE Agree(stack', machine')
    <3>1. Agree(stack, machine)
      BY <2>3, Compared
    <3>2. Plain(i)
      BY <2>1, <2>3 DEF All
    <3>3. /\ i.op = "pushbyte" => i.arg \in Byte
          /\ i.op = "pushshort" => i.arg \in Short
          /\ i.op = "pushint" => file.ints[i.arg + 1] \in Int
      BY <2>1, <2>2, CodeAssumption DEF Inv, FileOK, Classes, TraitOf, This, IsMethod
    <3> HIDE DEF i, type
    <3> QED BY <2>1, <3>1, <3>2, <3>3, StepAgrees
  <2>4. Compares'
    BY <2>1, <2>3 DEF Compares, TraitOf, All
  <2> QED BY <2>1, <2>2, <2>4 DEF EvalInv, Classes, This
<1>4. CASE EvaluateFails
  BY <1>1, <1>4 DEF EvaluateFails, Evaluating, Building, EvalInv, Compares, Classes, This, TraitOf,
                    staticVars, evalVars, Agree, All
<1>5. CASE EvaluateMethod
  BY <1>5 DEF EvaluateMethod, EvalInv
<1>6. CASE FindByteArray \/ TakeWrapper \/ TakeStatic \/ TakePattern \/ PassOver
  BY <1>2, <1>6 DEF FindByteArray, TakeWrapper, TakeStatic, TakePattern, PassOver, Ordinary, Looking,
                    staticVars
<1>7. CASE NoteSlot \/ TraitsDone
  BY <1>1, <1>7 DEF NoteSlot, TraitsDone, EvalInv, IsMethod
<1>8. CASE DefineSlot \/ WalkOn \/ InitDone \/ Report
  BY <1>2, <1>8 DEF DefineSlot, WalkOn, InitDone, Report, staticVars
<1>9. CASE Ended \/ UNCHANGED vars
  BY <1>9 DEF Ended, vars, staticVars, evalVars, EvalInv, Compares, Classes, This, TraitOf, Agree, All
<1> QED BY <1>3, <1>4, <1>5, <1>6, <1>7, <1>8, <1>9 DEF Next

\* A call of a static method is replaced by what the machine would return, if
\* the method neither divides nor pushes a byte of 128 or more.
THEOREM Returns == Spec => ValuesAsReturned
<1> DEFINE Right(v) ==
      All(TraitOf(v[1], v[2]).code, Plain) =>
        v[3] = Returned(TypeName(TraitOf(v[1], v[2]).returnType), machine[1])
<1>1. Init => EvalInv
  BY DEF Init, EvalInv
<1>2. Inv /\ EvalInv /\ [Next]_vars => EvalInv'
  BY EvalStepInv
<1>3. ASSUME Inv, EvalInv, EvaluateMethod
      PROVE  \A v \in values' \ values : Right(v)
  <2>1. \A v \in values' \ values : v = <<klass, pos, stack[1]>>
    BY <1>3 DEF EvaluateMethod
  <2>2. ASSUME All(TraitOf(klass, pos).code, Plain)
        PROVE  stack[1] = Returned(TypeName(TraitOf(klass, pos).returnType), machine[1])
    <3>1. Agree(stack, machine)
      BY <1>3, <2>2, Compared
    <3>2. Len(stack) > 0
      <4>1. Evaluation.status = "returned"
        BY <1>3 DEF EvaluateMethod
      <4> QED BY <4>1 DEF Evaluation, EvalStep
    <3>3. stack[1] \in Wholes
      BY <3>1, <3>2 DEF Agree
    <3> QED BY <3>1, <3>3, WholesReturned DEF Agree
  <2> QED BY <2>1, <2>2
<1>4. ASSUME Inv, EvalInv, [Next]_vars
      PROVE  [\A v \in values' \ values : Right(v)]_vars
  <2>1. EvaluateMethod \/ UNCHANGED values
    BY <1>4 DEF Next, vars, staticVars, FindByteArray, TakeWrapper, TakeStatic, TakePattern, PassOver,
                NoteSlot, EvaluateOn, EvaluateFails, TraitsDone, DefineSlot, WalkOn, InitDone,
                Report, Ended
  <2> HIDE DEF Right
  <2> QED BY <1>3, <1>4, <2>1
<1> QED BY <1>1, <1>2, <1>4, Invariance, PTL DEF Spec, ValuesAsReturned
-----------------------------------------------------------------------------
(***************************************************************************)
(* What the slots of a static class are found to hold.                     *)
(***************************************************************************)
\* Slot t is assigned once, in the way that AssignedOnce says.
Once(c, t) ==
  \E k, i \in DOMAIN file.classes[c].cinit :
    AssignedOnce(file.classes[c].cinit, TraitOf(c, t).name, k, i)

\* Slot t waits for its first findproperty, which the walk has not reached.
Waits(t) ==
  /\ t \in notdefined /\ <<klass, t>> \in slots
  /\ \A j \in 1..(pos - 1) : j \in DOMAIN This.cinit =>
       ~Finds(This.cinit[j], TraitOf(klass, t).name)

KindsOK ==
  /\ DOMAIN kinds = Classes
  /\ \A c \in Classes : DOMAIN kinds[c] = DOMAIN file.classes[c].ctraits

SlotsDone ==
  /\ \A c \in statics : c < klass => \A t \in Unset(c) : SlotRight(c, t)
  /\ stage = "done" => klass \notin Classes
  /\ stage = "init" => pos \in Nat \ {0} /\ notdefined \subseteq Unset(klass)
                       /\ \A t \in Unset(klass) : Once(klass, t) =>
                            Waits(t) \/ (t \notin notdefined /\ SlotRight(klass, t))
  /\ stage = "traits" => pos \in Nat \ {0} /\ notdefined = {t \in Unset(klass) : t < pos}
                         /\ \A t \in notdefined : <<klass, t>> \in slots

SlotInv == KindsOK /\ SlotsDone

\* What is assumed of the class under the walk.
LEMMA ClassFacts ==
  ASSUME FileOK, NEW c \in Classes
  PROVE  LET traits == file.classes[c].ctraits
             code   == file.classes[c].cinit
         IN /\ Len(traits) \in Nat /\ DOMAIN traits = 1..Len(traits)
            /\ Len(code) \in Nat /\ DOMAIN code = 1..Len(code)
            /\ \A t, u \in Unset(c) : TraitOf(c, t).name = TraitOf(c, u).name => t = u
BY InitialisersAssumption DEF FileOK, Classes, Unset, TraitOf

\* A class the walk has left keeps what was found.
LEMMA SlotKept ==
  ASSUME NEW c, NEW t, SlotRight(c, t), file' = file, kinds'[c][t] = kinds[c][t],
         <<c, t>> \in slots' <=> <<c, t>> \in slots
  PROVE  SlotRight(c, t)'
BY DEF SlotRight, TraitOf

LEMMA TraitsStep ==
  ASSUME Inv, SlotInv,
         FindByteArray \/ TakeWrapper \/ TakeStatic \/ TakePattern \/ PassOver \/ NoteSlot
           \/ EvaluateOn \/ EvaluateFails \/ EvaluateMethod \/ TraitsDone \/ Report
  PROVE  SlotInv'
<1> USE DEF SlotInv, SlotsDone, KindsOK, Inv
<1>0. file' = file /\ kinds' = kinds /\ Classes' = Classes /\ Classes = 1..Len(file.classes)
      /\ Len(file.classes) \in Nat /\ klass \in Nat
  BY FilesAssumption DEF FindByteArray, TakeWrapper, TakeStatic, TakePattern, PassOver, NoteSlot,
    EvaluateOn, EvaluateFails, EvaluateMethod, TraitsDone, Report, Building, staticVars, Classes,
    FileOK, TypeOK
<1>1. KindsOK'
  BY <1>0 DEF Classes
<1>2. ASSUME slots' = slots,
             \A c \in statics' : c < klass' => c \in statics /\ c < klass,
             stage' \notin {"traits", "init"}, stage' = "done" => klass' \notin Classes
      PROVE  SlotInv'
  <2>1. ASSUME NEW c \in statics', c < klass', NEW t \in Unset(c)' PROVE SlotRight(c, t)'
    BY <1>0, <1>2, <2>1, SlotKept DEF Unset
  <2> QED BY <1>0, <1>1, <1>2, <2>1
<1>3. CASE FindByteArray
  BY <1>2, <1>3 DEF FindByteArray, FoundBefore, staticVars
<1>4. CASE TakeWrapper \/ TakePattern \/ PassOver
  <2>1. slots' = slots /\ statics' = statics /\ stage = "class" /\ stage' = "class"
    BY <1>4 DEF TakeWrapper, TakePattern, PassOver, Ordinary, Looking, NextClass, staticVars
  <2> QED BY <1>2, <2>1 DEF FoundBefore, InStatic
<1>5. CASE Report
  <2>1. slots' = slots /\ statics' = statics /\ klass' = klass /\ klass \notin Classes /\ stage' = "done"
    BY <1>5 DEF Report, staticVars
  <2> QED BY <1>2, <2>1
<1>6. CASE TakeStatic
  <2>1. /\ stage' = "traits" /\ pos' = 1 /\ notdefined' = {} /\ slots' = slots /\ klass' = klass
        /\ statics' = statics \cup {klass} /\ klass \in Classes
    BY <1>6 DEF TakeStatic, Looking
  <2>2. ASSUME NEW c \in statics', c < klass', NEW t \in Unset(c)' PROVE SlotRight(c, t)'
    <3>1. c \in statics /\ c < klass
      BY <1>0, <2>1, <2>2
    <3> QED BY <1>0, <2>1, <2>2, <3>1, SlotKept DEF Unset
  <2>3. notdefined' = {t \in Unset(klass)' : t < pos'}
    BY <1>0, <2>1, ClassFacts DEF Unset
  <2> QED BY <1>1, <2>1, <2>2, <2>3
<1>7. CASE NoteSlot \/ EvaluateOn \/ EvaluateMethod
  <2>1. /\ stage = "traits" /\ stage' = "traits" /\ klass' = klass /\ statics' = statics
        /\ klass \in Classes /\ pos \in DOMAIN This.ctraits
    BY <1>7 DEF NoteSlot, EvaluateOn, EvaluateMethod, Evaluating, Building, FoundBefore, InStatic,
      TypeOK
  <2>2. pos' \in Nat \ {0} /\ notdefined' = {t \in Unset(klass)' : t < pos'}
    <3>1. \A t \in Unset(klass) : t \in Nat
      BY <2>1, ClassFacts DEF Unset
    <3>2. CASE EvaluateOn
      BY <1>0, <2>1, <3>2 DEF EvaluateOn, Unset
    <3>3. CASE NoteSlot
      <4>1. pos' = pos + 1 /\ pos \in Nat \ {0}
        BY <2>1, <3>3 DEF NoteSlot
      <4>2. pos \in Unset(klass) <=> This.ctraits[pos].slotKind = 0
        BY <2>1, <3>3 DEF NoteSlot, Unset, This
      <4>3. \A t \in Unset(klass) : t < pos + 1 <=> t < pos \/ t = pos
        BY <3>1, <4>1
      <4>4. notdefined' = IF pos \in Unset(klass) THEN notdefined \cup {pos} ELSE notdefined
        BY <3>3, <4>2 DEF NoteSlot
      <4>5. notdefined = {t \in Unset(klass) : t < pos}
        BY <2>1
      <4>6. Unset(klass)' = Unset(klass)
        BY <1>0, <2>1 DEF Unset
      <4> QED BY <4>1, <4>3, <4>4, <4>5, <4>6
    <3>4. CASE EvaluateMethod
      <4>1. pos' = pos + 1 /\ pos \in Nat \ {0} /\ notdefined' = notdefined
        BY <2>1, <3>4 DEF EvaluateMethod
      <4>2. pos \notin Unset(klass)
        BY <3>4 DEF EvaluateMethod, Evaluating, IsMethod, Unset, This
      <4>3. \A t \in Unset(klass) : t < pos + 1 <=> t < pos \/ t = pos
        BY <3>1, <4>1
      <4>4. Unset(klass)' = Unset(klass)
        BY <1>0, <2>1 DEF Unset
      <4> QED BY <2>1, <4>1, <4>2, <4>3, <4>4
    <3> QED BY <1>7, <3>2, <3>3, <3>4
  <2>3. ASSUME NEW c \in statics', c < klass', NEW t \in Unset(c)' PROVE SlotRight(c, t)'
    <3>1. c \in statics /\ c < klass /\ c # klass
      BY <1>0, <2>1, <2>3
    <3>2. slots' = slots \/ slots' = slots \cup {<<klass, pos>>}
      BY <1>7 DEF NoteSlot, EvaluateOn, EvaluateMethod
    <3>3. <<c, t>> \in slots' <=> <<c, t>> \in slots
      BY <3>1, <3>2
    <3> QED BY <1>0, <2>3, <3>1, <3>3, SlotKept DEF Unset
  <2>4. \A t \in notdefined' : <<klass', t>> \in slots'
    <3>1. CASE NoteSlot
      BY <2>1, <3>1 DEF NoteSlot
    <3>2. CASE EvaluateOn \/ EvaluateMethod
      BY <2>1, <3>2 DEF EvaluateOn, EvaluateMethod
    <3> QED BY <1>7, <3>1, <3>2
  <2> QED BY <1>1, <2>1, <2>2, <2>3, <2>4
<1>8. CASE EvaluateFails
  <2>1. /\ slots' = slots /\ statics' = statics /\ klass' = klass
        /\ stage' \in {"thrown", "undefined"}
    BY <1>8 DEF EvaluateFails, Building, staticVars
  <2> QED BY <1>2, <2>1
<1>9. CASE TraitsDone
  <2>1. /\ stage = "traits" /\ pos \notin DOMAIN This.ctraits /\ klass \in Classes
        /\ statics' = statics /\ slots' = slots /\ pos' = 1 /\ notdefined' = notdefined
    BY <1>9 DEF TraitsDone, Building, FoundBefore, InStatic, TypeOK
  <2>2. notdefined = Unset(klass)
    <3>1. \A t \in Unset(klass) : t < pos
      BY <2>1, ClassFacts DEF Unset, This
    <3> QED BY <2>1, <3>1
  <2>3. CASE notdefined = {}
    <3>1. stage' = "class" /\ klass' = klass + 1
      BY <1>9, <2>3 DEF TraitsDone, NextClass
    <3>2. ASSUME NEW c \in statics', c < klass', NEW t \in Unset(c)' PROVE SlotRight(c, t)'
      <4>1. c \in Nat /\ c \in statics
        BY <1>0, <2>1, <3>2 DEF TypeOK
      <4>2. t \in Unset(c)
        BY <1>0, <3>2 DEF Unset
      <4>3. c < klass
        <5>1. c # klass
          BY <2>2, <2>3, <4>2
        <5> QED BY <1>0, <3>1, <3>2, <4>1, <5>1
      <4> QED BY <1>0, <2>1, <4>1, <4>2, <4>3, SlotKept
    <3> QED BY <1>1, <3>1, <3>2
  <2>4. CASE notdefined # {}
    <3>1. stage' = "init" /\ klass' = klass
      BY <1>9, <2>4 DEF TraitsDone
    <3>2. ASSUME NEW c \in statics', c < klass', NEW t \in Unset(c)' PROVE SlotRight(c, t)'
      BY <1>0, <2>1, <3>1, <3>2, SlotKept DEF Unset
    <3>3. Unset(klass)' = Unset(klass)
      BY <1>0, <3>1 DEF Unset
    <3>4. ASSUME NEW t \in Unset(klass) PROVE Waits(t)'
      <4>1. 1..(pos' - 1) = {}
        BY <2>1
      <4>2. t \in notdefined' /\ <<klass', t>> \in slots'
        BY <2>1, <2>2, <3>1
      <4> QED BY <4>1, <4>2 DEF Waits
    <3> QED BY <1>1, <2>1, <2>2, <3>1, <3>2, <3>3, <3>4
  <2> QED BY <2>3, <2>4
<1> QED BY <1>3, <1>4, <1>5, <1>6, <1>7, <1>8, <1>9

\* A slot that waits and is assigned once is found at k, which the walk has
\* not reached.
LEMMA FirstFound ==
  ASSUME FileOK, klass \in Classes, NEW t \in Unset(klass), Waits(t), pos \in Nat \ {0},
         NEW k \in DOMAIN This.cinit, NEW i \in DOMAIN This.cinit,
         AssignedOnce(This.cinit, TraitOf(klass, t).name, k, i)
  PROVE  k \in Nat /\ pos <= k /\ k + 1 \in DOMAIN This.cinit
<1> DEFINE code == This.cinit
           name == TraitOf(klass, t).name
<1>1. Len(code) \in Nat /\ DOMAIN code = 1..Len(code)
  BY ClassFacts DEF This
<1>2. k < i /\ Finds(code[k], name)
  BY DEF AssignedOnce
<1>3. \A j \in DOMAIN code : j < pos => ~Finds(code[j], name)
  BY <1>1 DEF Waits
<1> HIDE DEF code, name
<1>4. k \in 1..Len(code) /\ i \in 1..Len(code)
  BY <1>1 DEF code
<1>5. ~(k < pos)
  BY <1>1, <1>2, <1>3, <1>4
<1> QED BY <1>1, <1>2, <1>4, <1>5 DEF code

\* While the initialiser is looked through.
LEMMA WalkStep ==
  ASSUME Inv, SlotInv, DefineSlot \/ WalkOn \/ InitDone
  PROVE  SlotInv'
<1> USE DEF SlotInv, SlotsDone, KindsOK, Inv
<1> DEFINE code == This.cinit
<1>0. /\ file' = file /\ Classes' = Classes /\ statics' = statics /\ stage = "init"
      /\ klass \in Classes /\ klass \in Nat /\ Classes \subseteq Nat
      /\ Unset(klass)' = Unset(klass) \/ InitDone
  BY FilesAssumption DEF DefineSlot, WalkOn, InitDone, Building, Classes, FileOK, TypeOK, FoundBefore,
     InStatic, Unset
<1>1. Len(code) \in Nat /\ DOMAIN code = 1..Len(code)
  BY <1>0, ClassFacts DEF This
<1>2. CASE InitDone
  <2>1. /\ stage' = "class" /\ klass' = klass + 1 /\ kinds' = kinds /\ slots' = slots
        /\ pos \notin DOMAIN code
    BY <1>2 DEF InitDone, NextClass
  <2>2. ASSUME NEW t \in Unset(klass) PROVE SlotRight(klass, t)
    <3>1. CASE Once(klass, t)
      <4>1. ASSUME Waits(t) PROVE FALSE
        <5>1. PICK k \in DOMAIN code : pos <= k
          BY <1>0, <1>1, <3>1, <4>1, FirstFound DEF Once, This
        <5> HIDE DEF code
        <5> QED BY <1>0, <1>1, <2>1, <5>1
      <4> QED BY <1>0, <3>1, <4>1
    <3>2. CASE ~Once(klass, t)
      BY <3>2 DEF Once, SlotRight
    <3> QED BY <3>1, <3>2
  <2>3. ASSUME NEW c \in statics', c < klass', NEW t \in Unset(c)' PROVE SlotRight(c, t)'
    <3>1. c \in statics /\ t \in Unset(c) /\ c \in Nat
      BY <1>0, <2>3 DEF Unset, TypeOK
    <3>2. c < klass \/ c = klass
      BY <1>0, <2>1, <2>3, <3>1
    <3>3. SlotRight(c, t)
      BY <2>2, <3>1, <3>2
    <3> QED BY <1>0, <2>1, <3>3, SlotKept
  <2> QED BY <1>0, <2>1, <2>3
<1>3. CASE WalkOn
  <2>1. /\ stage' = "init" /\ klass' = klass /\ kinds' = kinds /\ slots' = slots
        /\ notdefined' = notdefined /\ pos' = pos + 1 /\ pos \in Nat \ {0}
        /\ pos + 1 \notin DOMAIN code \/ Found(code[pos]) = {}
    BY <1>0, <1>3 DEF WalkOn
  <2>2. ASSUME NEW t \in Unset(klass), Once(klass, t)'
        PROVE  (Waits(t) \/ (t \notin notdefined /\ SlotRight(klass, t)))'
    <3>0. Once(klass, t)
      BY <1>0, <2>1, <2>2 DEF Once, TraitOf
    <3>1. CASE Waits(t)
      <4>1. PICK k \in Nat : /\ pos <= k /\ k + 1 \in DOMAIN code
                             /\ Finds(code[k], TraitOf(klass, t).name)
                             /\ \A j \in 1..(k - 1) : ~Finds(code[j], TraitOf(klass, t).name)
        BY <1>0, <2>1, <3>0, <3>1, FirstFound DEF Once, AssignedOnce, This
      <4>2. k # pos
        BY <2>1, <3>1, <4>1 DEF Waits, Found, TraitOf, This
      <4>3. \A j \in 1..pos : ~Finds(code[j], TraitOf(klass, t).name)
        BY <2>1, <4>1, <4>2
      <4>4. pos' - 1 = pos
        BY <2>1
      <4> QED BY <1>0, <2>1, <3>1, <4>3, <4>4 DEF Waits, This, TraitOf
    <3>2. CASE t \notin notdefined /\ SlotRight(klass, t)
      BY <1>0, <2>1, <3>2, SlotKept
    <3> QED BY <1>0, <3>0, <3>1, <3>2
  <2>3. ASSUME NEW c \in statics', c < klass', NEW t \in Unset(c)' PROVE SlotRight(c, t)'
    BY <1>0, <2>1, <2>3, SlotKept DEF Unset
  <2>4. Unset(klass)' = Unset(klass) /\ pos + 1 \in Nat \ {0}
    BY <1>0, <2>1 DEF Unset
  <2> QED BY <1>0, <2>1, <2>2, <2>3, <2>4
<1>4. CASE DefineSlot
  <2>1. PICK u \in Found(code[pos]) :
          LET op == code[pos + 1].op
          IN /\ notdefined' = notdefined \ {u}
             /\ kinds' = CASE op = "pushfalse" -> [kinds EXCEPT ![klass][u] = 10]
                           [] op = "pushtrue"  -> [kinds EXCEPT ![klass][u] = 11]
                           [] OTHER -> kinds
             /\ slots' = IF op \in {"pushfalse", "pushtrue"} THEN slots
                         ELSE slots \ {<<klass, u>>}
    BY <1>4 DEF DefineSlot
  <2>2. /\ stage' = "init" /\ klass' = klass /\ pos' = pos + 2 /\ pos \in Nat \ {0}
        /\ pos + 1 \in DOMAIN code
    BY <1>0, <1>4 DEF DefineSlot
  <2>3. /\ u \in notdefined /\ u \in Unset(klass) /\ Finds(code[pos], TraitOf(klass, u).name)
        /\ u \in DOMAIN kinds[klass]
    BY <1>0, <2>1 DEF Found, TraitOf, This, Unset
  <2>4. KindsOK'
    <3>1. CASE code[pos + 1].op = "pushfalse"
      BY <1>0, <2>1, <3>1 DEF Classes
    <3>2. CASE code[pos + 1].op = "pushtrue"
      BY <1>0, <2>1, <3>2 DEF Classes
    <3>3. CASE code[pos + 1].op \notin {"pushfalse", "pushtrue"}
      BY <1>0, <2>1, <3>3 DEF Classes
    <3> QED BY <3>1, <3>2, <3>3
  <2>5. ASSUME NEW c \in Classes, NEW t \in Unset(c), c # klass \/ t # u
        PROVE  kinds'[c][t] = kinds[c][t]
    <3>1. CASE code[pos + 1].op = "pushfalse"
      BY <1>0, <2>1, <2>5, <3>1
    <3>2. CASE code[pos + 1].op = "pushtrue"
      BY <1>0, <2>1, <2>5, <3>2
    <3>3. CASE code[pos + 1].op \notin {"pushfalse", "pushtrue"}
      BY <1>0, <2>1, <2>5, <3>3
    <3> QED BY <3>1, <3>2, <3>3
  <2>6. ASSUME NEW c, NEW t, c # klass \/ t # u
        PROVE  <<c, t>> \in slots' <=> <<c, t>> \in slots
    BY <2>1, <2>6
  <2>7. ASSUME NEW c \in statics', c < klass', NEW t \in Unset(c)' PROVE SlotRight(c, t)'
    <3>1. c \in Classes /\ c \in statics /\ c # klass /\ t \in Unset(c)
      BY <1>0, <2>2, <2>7 DEF Unset, TypeOK
    <3> QED BY <1>0, <2>2, <2>5, <2>6, <2>7, <3>1, SlotKept
  <2>8. ASSUME Once(klass, u) PROVE SlotRight(klass, u)'
    <3> DEFINE name == TraitOf(klass, u).name
    <3>1. Waits(u)
      BY <1>0, <2>3, <2>8
    <3>2. SUFFICES ASSUME NEW k \in DOMAIN code, NEW i \in DOMAIN code,
                          AssignedOnce(code, name, k, i)
                   PROVE  LET literal == k + 1 = i - 1 /\ IsBoolean(code[i - 1])
                          IN /\ <<klass, u>> \in slots' <=> literal
                             /\ literal => kinds'[klass][u] = KindOf(code[i - 1])
      BY <1>0, <2>2 DEF SlotRight, TraitOf, This
    <3>3. /\ k < i /\ Finds(code[k], name) /\ \A j \in 1..(k - 1) : ~Finds(code[j], name)
          /\ IsBoolean(code[k + 1]) => k + 1 = i - 1
      BY <3>2 DEF AssignedOnce
    <3>4. k = pos
      <4>1. pos <= k /\ k \in Nat
        BY <1>0, <2>2, <2>3, <3>1, <3>2, FirstFound
      <4>2. Finds(code[pos], name)
        BY <2>3
      <4> HIDE DEF code, name
      <4>3. ~(pos \in 1..(k - 1))
        BY <3>3, <4>2
      <4> QED BY <2>2, <4>1, <4>3
    <3>5. <<klass, u>> \in slots
      BY <3>1 DEF Waits
    <3>6. CASE code[pos + 1].op = "pushfalse"
      <4>1. kinds'[klass][u] = 10 /\ slots' = slots
        BY <1>0, <2>1, <2>3, <3>6
      <4> QED BY <3>3, <3>4, <3>5, <3>6, <4>1 DEF IsBoolean, KindOf
    <3>7. CASE code[pos + 1].op = "pushtrue"
      <4>1. kinds'[klass][u] = 11 /\ slots' = slots
        BY <1>0, <2>1, <2>3, <3>7
      <4> QED BY <3>3, <3>4, <3>5, <3>7, <4>1 DEF IsBoolean, KindOf
    <3>8. CASE ~IsBoolean(code[pos + 1])
      <4>1. <<klass, u>> \notin slots'
        BY <2>1, <3>8 DEF IsBoolean
      <4>2. k + 1 = i - 1 => ~IsBoolean(code[i - 1])
        BY <3>4, <3>8
      <4> QED BY <4>1, <4>2
    <3> QED BY <3>6, <3>7, <3>8 DEF IsBoolean
  <2>9. ASSUME NEW t \in Unset(klass), Once(klass, t), t # u, Waits(t) PROVE Waits(t)'
    <3> DEFINE name == TraitOf(klass, t).name
    <3>1. ~Finds(code[pos], name)
      BY <1>0, <2>3, <2>9, ClassFacts DEF Finds
    <3>2. ~Finds(code[pos + 1], name)
      <4>1. PICK k \in Nat : /\ pos <= k /\ Finds(code[k], name)
                             /\ \A j \in 1..(k - 1) : ~Finds(code[j], name)
                             /\ k > 1 => code[k - 1].op # "findproperty"
        BY <1>0, <2>2, <2>9, FirstFound DEF Once, AssignedOnce, This
      <4>2. code[pos].op = "findproperty"
        BY <2>3 DEF Finds
      <4> HIDE DEF code, name
      <4>3. k # pos /\ k # pos + 1
        BY <2>2, <3>1, <4>1, <4>2
      <4>4. pos + 1 \in 1..(k - 1)
        BY <2>2, <4>1, <4>3
      <4> QED BY <4>1, <4>4
    <3>3. \A j \in 1..(pos - 1) : j \in DOMAIN code => ~Finds(code[j], name)
      BY <2>9 DEF Waits
    <3>4. \A j \in 1..(pos' - 1) : j \in 1..(pos - 1) \/ j = pos \/ j = pos + 1
      BY <2>2
    <3>5. \A j \in 1..(pos' - 1) : j \in DOMAIN code => ~Finds(code[j], name)
      BY <3>1, <3>2, <3>3, <3>4
    <3>6. t \in notdefined' /\ <<klass, t>> \in slots'
      BY <2>1, <2>6, <2>9 DEF Waits
    <3> QED BY <1>0, <2>2, <3>5, <3>6 DEF Waits, This, TraitOf
  <2>10. ASSUME NEW t \in Unset(klass), Once(klass, t)'
         PROVE  (Waits(t) \/ (t \notin notdefined /\ SlotRight(klass, t)))'
    <3>0. Once(klass, t)
      BY <1>0, <2>2, <2>10 DEF Once, TraitOf
    <3>1. CASE t = u
      BY <2>1, <2>8, <3>0, <3>1
    <3>2. CASE t # u /\ Waits(t)
      BY <2>9, <3>0, <3>2
    <3>3. CASE t # u /\ t \notin notdefined /\ SlotRight(klass, t)
      <4>1. SlotRight(klass, t)'
        BY <1>0, <2>2, <2>5, <2>6, <3>3, SlotKept
      <4> QED BY <2>1, <3>3, <4>1
    <3> QED BY <1>0, <3>0, <3>1, <3>2, <3>3
  <2>11. Unset(klass)' = Unset(klass) /\ pos + 2 \in Nat \ {0} /\ notdefined' \subseteq Unset(klass)
    BY <1>0, <2>1, <2>2 DEF Unset
  <2> QED BY <1>0, <2>2, <2>4, <2>7, <2>10, <2>11
<1> QED BY <1>2, <1>3, <1>4

LEMMA SlotStep == Inv /\ SlotInv /\ [Next]_vars => SlotInv'
<1>1. ASSUME Inv, SlotInv, Ended \/ UNCHANGED vars PROVE SlotInv'
  <2>1. UNCHANGED vars
    BY <1>1 DEF Ended
  <2>2. KindsOK' = KindsOK
    BY <2>1 DEF vars, staticVars, KindsOK, Waits, Once, Unset, Classes, This, TraitOf
  <2>3. SlotsDone' = SlotsDone
    BY <2>1 DEF vars, staticVars, SlotsDone, SlotRight, Waits, Once, Unset, Classes, This, TraitOf
  <2> QED BY <1>1, <2>2, <2>3 DEF SlotInv
<1> QED BY <1>1, TraitsStep, WalkStep DEF Next

\* However the initialiser goes on, a static slot that it assigns once, in the
\* way AssignedOnce says, is resolved just when the value is a boolean, and to
\* that boolean.
THEOREM Initialised == Spec => []SlotsAsInitialised
<1>1. Init => SlotInv
  BY DEF Init, SlotInv, KindsOK, SlotsDone, Classes
<1>2. Inv /\ SlotInv => SlotsAsInitialised
  <2> SUFFICES ASSUME Inv, SlotInv, stage = "done", NEW c \in statics, NEW t \in Unset(c)
               PROVE  SlotRight(c, t)
    BY DEF SlotsAsInitialised
  <2>1. c \in Classes /\ c < klass
    BY FilesAssumption DEF Inv, FileOK, TypeOK, SlotInv, SlotsDone, Classes
  <2> QED BY <2>1 DEF SlotInv, SlotsDone
<1> QED BY <1>1, <1>2, Invariance, SlotStep, PTL DEF Spec
=============================================================================
