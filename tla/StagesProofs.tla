---------------------------- MODULE StagesProofs ----------------------------
(***************************************************************************)
(* Proofs about main(), for every file: that the names can be read once    *)
(* Renamer is done and to the end of the run, and the types.               *)
(*                                                                         *)
(* Renamer has seen to the names of the sites it is past (NamesClear); a   *)
(* later stage only gives texts that can be read (Keeps): words, numbers   *)
(* that the code compares with, and what the file's code calls.  That they *)
(* are numbers needs to be known of the methods and classes which the walk *)
(* was led to (ScanOK).                                                    *)
(***************************************************************************)
EXTENDS NamesProofs, WellFoundedInduction, FiniteSetTheorems

-----------------------------------------------------------------------------
(***************************************************************************)
(* Once the names can be read they stay so: the program gives only texts   *)
(* that can be read (Keeps), in each of its steps.                         *)
(***************************************************************************)
Keeps(p, q) ==
  /\ DOMAIN q.strings = DOMAIN p.strings
  /\ \A i \in DOMAIN p.strings : q.strings[i] = p.strings[i] \/ ~Invalid(q.strings[i])

LEMMA KeepsNot == ASSUME NEW p PROVE Keeps(p, p)
  BY DEF Keeps

LEMMA KeepsOn ==
  ASSUME NEW p, NEW q, NEW r, Keeps(p, q), Keeps(q, r)
  PROVE  Keeps(p, r)
  BY DEF Keeps

LEMMA WordClear == ASSUME NEW w \in Words PROVE ~Invalid(Fixed(w))
<1>1. w \notin Unreadable /\ "" \notin Unreadable
  BY UnreadableAssumption DEF Words
<1> QED BY <1>1 DEF Invalid, Fixed

LEMMA NumberClear ==
  ASSUME NEW w \in Words, NEW n \in Nat \cup (Nat \X Nat)
  PROVE  ~Invalid(<<w, n>>)
<1>1. w \notin Unreadable /\ n \notin Unreadable
  BY UnreadableAssumption
<1> QED BY <1>1 DEF Invalid

LEMMA RenameKeeps ==
  ASSUME NEW p, WellFormed(p), NEW m, NEW text, ~Invalid(text)
  PROVE  Keeps(p, Rename(p, m, text))
<1> DEFINE s == [p.strings EXCEPT ![p.multinames[m].str] = text]
<1>1. Rename(p, m, text) = [strings |-> s, multinames |-> p.multinames, moved |-> p.moved]
  BY DEF Rename, WellFormed
<1>2. DOMAIN s = DOMAIN p.strings /\ \A i \in DOMAIN p.strings : s[i] = p.strings[i] \/ s[i] = text
  OBVIOUS
<1> HIDE DEF s
<1> QED BY <1>1, <1>2 DEF Keeps

LEMMA PlaceKeeps ==
  ASSUME NEW p, WellFormed(p), NEW m, NEW package
  PROVE  Keeps(p, Place(p, m, package))
<1>1. Place(p, m, package).strings = p.strings
  BY DEF Place, WellFormed
<1> QED BY <1>1 DEF Keeps

LEMMA KnownKeeps ==
  ASSUME NEW p, WellFormed(p), NEW c, NEW text, NEW package, ~Invalid(text)
  PROVE  Keeps(p, Known(p, c, text, package))
<1> DEFINE r == Rename(p, Name(c), text)
<1>1. Keeps(p, r) /\ WellFormed(r)
  BY RenameKeeps, RenameRetexts DEF Moves
<1> HIDE DEF r
<1>2. Keeps(r, Place(r, Name(c), package))
  BY <1>1, PlaceKeeps
<1>3. Keeps(p, Place(r, Name(c), package))
  BY <1>1, <1>2, KeepsOn
<1> QED BY <1>3 DEF Known, r

\* A set of numbers that is not empty has a least member, and a greatest one
\* if it is bounded.
LEMMA Least ==
  ASSUME NEW T, T \subseteq Nat, T # {}
  PROVE  LET x == CHOOSE x \in T : \A y \in T : x <= y
         IN x \in T /\ \A y \in T : x <= y
<1> DEFINE R == OpToRel(<, Nat)
<1>1. IsWellFoundedOn(R, Nat)
  BY NatLessThanWellFounded
<1>2. \A i \in Nat, j \in Nat : i < j => <<i, j>> \in R
  BY DEF OpToRel
<1> HIDE DEF R
<1>3. PICK x \in T : \A y \in T : ~ (<<y, x>> \in R)
  BY <1>1, WFMin
<1>4. ASSUME NEW y \in T PROVE x <= y
  <2>1. ~(y < x)
    BY <1>2, <1>3
  <2> QED BY <2>1
<1> QED BY <1>4

LEMMA Greatest ==
  ASSUME NEW n \in Nat, NEW T, T \subseteq 0..n, T # {}
  PROVE  (CHOOSE x \in T : \A y \in T : y <= x) \in T
<1> DEFINE U == {k \in Nat : k <= n /\ n - k \in T}
<1>1. PICK t \in T : TRUE
  OBVIOUS
<1>2. n - t \in U
  <2>1. t \in 0..n
    BY <1>1
  <2>2. n - t \in Nat /\ n - t <= n /\ n - (n - t) = t
    BY <2>1
  <2> QED BY <2>2, <1>1
<1>3. PICK k \in U : \A j \in U : k <= j
  <2>1. U \subseteq Nat /\ U # {}
    BY <1>2
  <2> HIDE DEF U
  <2> QED BY <2>1, Least
<1>4. ASSUME NEW y \in T PROVE y <= n - k
  <2>1. y \in 0..n
    OBVIOUS
  <2>2. n - y \in U
    <3>1. n - y \in Nat /\ n - y <= n /\ n - (n - y) = y
      BY <2>1
    <3> QED BY <3>1
  <2>3. k <= n - y
    BY <1>3, <2>2
  <2> QED BY <2>1, <2>3
<1> QED BY <1>3, <1>4

LEMMA RenameAllKeeps ==
  ASSUME NEW p, WellFormed(p), NEW n \in Nat, NEW renames, DOMAIN renames \subseteq 0..n,
         \A k \in DOMAIN renames : ~Invalid(renames[k][2])
  PROVE  Keeps(p, RenameAll(p, renames))
<1> DEFINE of(i) == {k \in DOMAIN renames : p.multinames[renames[k][1]].str = i}
           last(i) == CHOOSE k \in of(i) : \A j \in of(i) : j <= k
           s == [i \in DOMAIN p.strings |->
                   IF of(i) = {} THEN p.strings[i] ELSE renames[last(i)][2]]
<1>1. RenameAll(p, renames) = [strings |-> s, multinames |-> p.multinames, moved |-> p.moved]
  <2>1. RenameAll(p, renames) = [p EXCEPT !.strings = s]
    BY Zenon DEF RenameAll
  <2> HIDE DEF s
  <2> QED BY <2>1 DEF WellFormed
<1>2. ASSUME NEW i, of(i) # {} PROVE last(i) \in DOMAIN renames
  <2>1. of(i) \subseteq 0..n /\ of(i) \subseteq DOMAIN renames
    OBVIOUS
  <2> HIDE DEF of
  <2>2. last(i) \in of(i)
    BY <1>2, <2>1, Greatest
  <2> HIDE DEF last
  <2> QED BY <2>1, <2>2
<1> HIDE DEF of, last
<1>3. \A i \in DOMAIN p.strings : s[i] = p.strings[i] \/ ~Invalid(s[i])
  BY <1>2
<1>4. DOMAIN s = DOMAIN p.strings
  OBVIOUS
<1> HIDE DEF s
<1> QED BY <1>1, <1>3, <1>4 DEF Keeps

LEMMA BaseKeeps ==
  ASSUME NEW p, WellFormed(p), NEW role, NEW text \in Words, NEW first, NEW texts, NEW n \in Nat,
         DOMAIN texts \subseteq 0..n, \A k \in DOMAIN texts : texts[k] \in Words
  PROVE  Keeps(p, Base(p, role, text, first, texts))
<1> DEFINE known == Known(p, Role(role), Fixed(text), "packets")
           itrait(k) == file.classes[Role(role)].itraits[first + k - 1]
           renames == [k \in DOMAIN texts |-> <<itrait(k).name, Fixed(texts[k])>>]
<1>1. Keeps(p, known) /\ WellFormed(known)
  BY WordClear, KnownKeeps, KnownMoves DEF Moves
<1>2. DOMAIN renames \subseteq 0..n /\ \A k \in DOMAIN renames : ~Invalid(renames[k][2])
  BY WordClear
<1>3. Base(p, role, text, first, texts) = IF Role(role) = Null THEN p ELSE RenameAll(known, renames)
  BY DEF Base
<1> HIDE DEF known, renames
<1>4. Keeps(known, RenameAll(known, renames))
  BY <1>1, <1>2, RenameAllKeeps
<1> QED BY <1>1, <1>3, <1>4, KeepsOn, KeepsNot

LEMMA ClientboundKeeps ==
  ASSUME WellFormed(pool), NEW c, NEW category \in Nat, NEW code \in Nat
  PROVE  Keeps(pool, Clientbound(c, category, code))
<1>1. ~Invalid(CPacket(category, code))
  BY NumberClear DEF CPacket, Words
<1> QED BY <1>1, KnownKeeps, KeepsNot DEF Clientbound

LEMMA WithSetKeeps ==
  ASSUME NEW p, WellFormed(p), NEW m
  PROVE  Keeps(p, WithSet(p, m))
<1>1. WithSet(p, m).strings = p.strings
  BY DEF WithSet, WellFormed
<1> QED BY <1>1 DEF Keeps

-----------------------------------------------------------------------------
(***************************************************************************)
(* The invariant.                                                          *)
(***************************************************************************)
\* While the dispatching code is walked over.
Walking == {"walk", "codes", "left", "sub", "tribulle", "path", "community", "server",
            "client base", "client"}

StageOK == stage \notin {"start", "ended"} => file.problem \notin Unread

ScanOK ==
  /\ DOMAIN scan = DOMAIN Start /\ scan.category \in Nat
  /\ stage \in Walking => Role("pkt_hdlr") # Null
  /\ stage = "sub" => Heir(scan.sub) # Null
  /\ stage \in {"path", "community", "client base", "client", "server"} =>
       scan.method \in DOMAIN file.methods
  /\ stage = "community" => scan.sub \in DOMAIN file.classes
  /\ stage = "server" => scan.ids \in DOMAIN file.methods

TextsOK ==
  /\ DOMAIN pool.strings = Strings
  /\ \A m \in Multinames : pool.multinames[m].str \in Strings
  /\ \A i \in Strings : Now(i) = Old(i) \/ ~Invalid(Now(i))

PlacesOK ==
  /\ next \in Nat \ {0} /\ item \in Nat \ {0} /\ counters \in [Counted -> Nat]
  /\ cleared \subseteq (file.statics \cup {Role("wrap_class")}) \ {Null}

StringOf(m) == file.pool.multinames[m].str
ClearName(m) == m # 0 => ~Invalid(Now(StringOf(m)))

NamesClear ==
  /\ stage = "renamer" =>
       \A k \in Owners : \A j \in DOMAIN Sites(k) :
         k < next \/ (k = next /\ j < item) => ClearName(Sites(k)[j].name)
  /\ Renamed => \A m \in NamesUsed(file) : ClearName(m)

ReadInv == StageOK /\ TextsOK /\ PlacesOK /\ ScanOK /\ NamesClear

-----------------------------------------------------------------------------
(***************************************************************************)
(* What the assumptions say of the things the steps look at.               *)
(***************************************************************************)
LEMMA RoleClass ==
  ASSUME file \in Files, NEW r \in Roles, Role(r) # Null
  PROVE  Role(r) \in DOMAIN file.classes
  BY PartsAssumption DEF Role

LEMMA TraitMethod ==
  ASSUME file \in Files, NEW c \in DOMAIN file.classes, NEW side \in {"ctraits", "itraits"},
         NEW i \in DOMAIN file.classes[c][side], file.classes[c][side][i].kind = "Method"
  PROVE  /\ file.classes[c][side][i].index \in DOMAIN file.methods
         /\ MethodOf(file.classes[c][side][i]) \in Range(file.methods)
<1>1. file.classes[c] \in Range(file.classes)
  BY DEF Range
<1>2. /\ \A t \in Range(file.classes[c].ctraits) : t.kind = "Method" => t.index \in DOMAIN file.methods
      /\ \A t \in Range(file.classes[c].itraits) : t.kind = "Method" => t.index \in DOMAIN file.methods
  BY <1>1, PartsAssumption
<1>3. file.classes[c][side][i].index \in DOMAIN file.methods
  <2>1. CASE side = "ctraits"
    BY <1>2, <2>1 DEF Range
  <2>2. CASE side = "itraits"
    BY <1>2, <2>2 DEF Range
  <2> QED BY <2>1, <2>2
<1> QED BY <1>3 DEF MethodOf, Range

LEMMA MethodCode ==
  ASSUME file \in Files, NEW m \in Range(file.methods)
  PROVE  /\ Len(m.code) \in Nat /\ DOMAIN m.code = 1..Len(m.code)
         /\ \A i \in DOMAIN m.code :
              /\ m.code[i].op = "pushdouble" => m.code[i].arg \in Int
              /\ m.code[i].op \in {"callproperty", "callpropvoid"} =>
                   /\ m.code[i].arg \in Multinames
                   /\ \/ \E n \in NamesUsed(file) : StringOf(n) = StringOf(m.code[i].arg)
                      \/ ~Invalid(Old(StringOf(m.code[i].arg)))
<1>1. m.code \in Seq(Range(m.code))
  BY CodeAssumption DEF IsSequence
<1>2. \A i \in DOMAIN m.code : m.code[i] \in Range(m.code)
  BY DEF Range
<1>3. Len(m.code) \in Nat /\ DOMAIN m.code = 1..Len(m.code)
  BY <1>1
<1> SUFFICES ASSUME NEW i \in DOMAIN m.code
             PROVE  /\ m.code[i].op = "pushdouble" => m.code[i].arg \in Int
                    /\ m.code[i].op \in {"callproperty", "callpropvoid"} =>
                         /\ m.code[i].arg \in Multinames
                         /\ \/ \E n \in NamesUsed(file) : StringOf(n) = StringOf(m.code[i].arg)
                            \/ ~Invalid(Old(StringOf(m.code[i].arg)))
  BY <1>3
<1> QED BY <1>2, CodeAssumption DEF Multinames, StringOf, Old

\* What is called has a name that can be read.
LEMMA CallClear ==
  ASSUME file \in Files, TextsOK, StageOK, NamesClear, stage \in {"writers", "readers"},
         \A n \in Multinames : SameString(n),
         NEW m \in Range(file.methods), NEW i \in DOMAIN m.code,
         m.code[i].op \in {"callproperty", "callpropvoid"}
  PROVE  ~Invalid(Text(pool, m.code[i].arg))
<1> DEFINE name == m.code[i].arg
<1>1. /\ name \in Multinames
      /\ \/ \E n \in NamesUsed(file) : StringOf(n) = StringOf(name)
         \/ ~Invalid(Old(StringOf(name)))
  BY MethodCode
<1>2. Text(pool, name) = Now(StringOf(name)) /\ StringOf(name) \in Strings
  BY <1>1 DEF Text, Now, SameString, StringOf, TextsOK
<1>3. Renamed
  BY DEF Renamed, StageOK
<1>4. \A n \in NamesUsed(file) : n # 0 /\ ~Invalid(Now(StringOf(n)))
  <2>1. 0 \notin NamesUsed(file)
    BY Zenon DEF NamesUsed
  <2> QED BY <1>3, <2>1 DEF NamesClear, ClearName
<1> QED BY <1>1, <1>2, <1>4 DEF TextsOK

LEMMA Induction ==
  ASSUME NEW S, 0 \in S, \A n \in Nat : n \in S => n + 1 \in S
  PROVE  Nat \subseteq S
<1> SUFFICES ASSUME Nat \ S # {} PROVE FALSE
  OBVIOUS
<1>1. PICK x \in Nat \ S : \A y \in Nat \ S : x <= y
  <2> DEFINE T == Nat \ S
  <2>1. T \subseteq Nat /\ T # {}
    OBVIOUS
  <2> HIDE DEF T
  <2>2. \E x \in T : \A y \in T : x <= y
    BY <2>1, Least
  <2> QED BY <2>2 DEF T
<1>2. x - 1 \in Nat /\ x - 1 \notin Nat \ S
  BY <1>1
<1> QED BY <1>1, <1>2

\* The sum of what a constructor pushes is a number.
LEMMA PushedInt ==
  ASSUME NEW code, Len(code) \in Nat, DOMAIN code = 1..Len(code),
         \A i \in DOMAIN code : code[i].op = "pushdouble" => code[i].arg \in Int
  PROVE  Pushed(code) \in Int
<1> DEFINE n == Len(code)
<1>n. /\ n \in Nat /\ DOMAIN code = 1..n
      /\ \A i \in 1..n : code[i].op = "pushdouble" => code[i].arg \in Int
  OBVIOUS
<1> HIDE DEF n
<1> USE <1>n
<1> DEFINE After(f, k) == IF code[k].op = "pushdouble" THEN 256 * f[k - 1] + code[k].arg
                          ELSE f[k - 1]
           Done(f, m) == f \in [0..n -> Int] /\ f[0] = 0 /\ \A k \in 1..n : k <= m => f[k] = After(f, k)
           T == {m \in Nat : m <= n => \E f : Done(f, m)}
<1>1. 0 \in T
  <2>1. Done([k \in 0..n |-> 0], 0)
    OBVIOUS
  <2> QED BY <2>1
<1>2. ASSUME NEW m \in Nat, m \in T PROVE m + 1 \in T
  <2> SUFFICES ASSUME m + 1 <= n PROVE \E f : Done(f, m + 1)
    OBVIOUS
  <2>1. PICK f : Done(f, m)
    BY <1>2
  <2> DEFINE g == [f EXCEPT ![m + 1] = After(f, m + 1)]
  <2>2. f[m] \in Int /\ m + 1 \in 1..n /\ (m + 1) - 1 = m
    BY <2>1
  <2>3. After(f, m + 1) \in Int
    BY <2>2
  <2>4. /\ g \in [0..n -> Int] /\ g[m + 1] = After(f, m + 1)
        /\ \A k \in 0..n : k # m + 1 => g[k] = f[k]
    <3> HIDE DEF After
    <3> QED BY <2>1, <2>2, <2>3
  <2> HIDE DEF g
  <2>5. ASSUME NEW k \in 1..n, k <= m + 1 PROVE g[k] = After(g, k)
    <3>1. k - 1 \in 0..n /\ k - 1 # m + 1
      BY <2>5
    <3>2. After(g, k) = After(f, k)
      BY <2>4, <3>1
    <3> HIDE DEF After
    <3>3. CASE k = m + 1
      BY <2>4, <3>2, <3>3
    <3>4. CASE k # m + 1
      BY <2>1, <2>4, <2>5, <3>2, <3>4
    <3> QED BY <3>3, <3>4
  <2>6. g[0] = 0
    BY <2>1, <2>4
  <2> QED BY <2>4, <2>5, <2>6
<1>3. n \in T
  <2> HIDE DEF T
  <2> QED BY <1>1, <1>2, Induction
<1>4. PICK f : Done(f, n)
  <2> HIDE DEF Done
  <2> QED BY <1>3
<1>5. f = [k \in 0..n |-> IF k = 0 THEN 0
                         ELSE IF code[k].op = "pushdouble" THEN 256 * f[k - 1] + code[k].arg
                         ELSE f[k - 1]]
  <2>1. \A k \in 0..n : f[k] = IF k = 0 THEN 0 ELSE After(f, k)
    <3> HIDE DEF After
    <3> QED BY <1>4
  <2>2. f = [k \in 0..n |-> f[k]]
    BY <1>4
  <2> QED BY <2>1, <2>2, Zenon
<1> DEFINE p == CHOOSE p : p = [k \in 0..n |-> IF k = 0 THEN 0
                         ELSE IF code[k].op = "pushdouble" THEN 256 * p[k - 1] + code[k].arg
                         ELSE p[k - 1]]
<1>6. p = [k \in 0..n |-> IF k = 0 THEN 0
                         ELSE IF code[k].op = "pushdouble" THEN 256 * p[k - 1] + code[k].arg
                         ELSE p[k - 1]]
  BY <1>5, Zenon
<1> HIDE DEF p
<1> DEFINE U == {m \in Nat : m <= n => p[m] \in Int}
<1>7. 0 \in U
  BY <1>6
<1>8. ASSUME NEW m \in Nat, m \in U PROVE m + 1 \in U
  <2> SUFFICES ASSUME m + 1 <= n PROVE p[m + 1] \in Int
    OBVIOUS
  <2>1. m + 1 \in 0..n /\ m + 1 \in 1..n /\ m + 1 # 0 /\ (m + 1) - 1 = m /\ p[m] \in Int
    BY <1>8
  <2>2. p[m + 1] = IF code[m + 1].op = "pushdouble" THEN 256 * p[m] + code[m + 1].arg ELSE p[m]
    BY <1>6, <2>1
  <2> QED BY <2>1, <2>2
<1>9. \A m \in 0..n : p[m] \in Int
  <2>1. Nat \subseteq U
    <3> HIDE DEF U
    <3> QED BY <1>7, <1>8, Induction
  <2> QED BY <2>1
<1> DEFINE found == {i \in DOMAIN code : i >= 1 /\ code[i].op = "constructsuper"}
           super == IF found = {} THEN Null ELSE CHOOSE i \in found : \A j \in found : i <= j
           before == IF super = Null THEN n ELSE super - 1
<1>10. before \in 0..n
  <2>1. CASE found = {}
    BY <2>1
  <2>2. CASE found # {}
    <3>1. super \in 1..n
      <4>1. found \subseteq Nat /\ found \subseteq 1..n
        OBVIOUS
      <4> HIDE DEF found
      <4> QED BY <2>2, <4>1, Least
    <3> HIDE DEF super
    <3> QED BY <3>1 DEF Null
  <2> QED BY <2>1, <2>2
<1>11. Pushed(code) = p[before]
  BY Zenon DEF Pushed, First, p, n
<1> HIDE DEF before
<1> QED BY <1>9, <1>10, <1>11

\* The code of the interface proxy: its keys are strings of the pool.
LEMMA ProxyKeys ==
  ASSUME file \in Files, next \in Nat, NextGet # Null
  PROVE  /\ NextGet \in Nat \ {0}
         /\ ProxyCode[NextKey].arg \in Strings
<1>1. Role("interface_proxy") # Null
  <2> SUFFICES ASSUME Role("interface_proxy") = Null PROVE FALSE
    OBVIOUS
  <2>1. ProxyCode = <<>>
    BY DEF ProxyCode
  <2>2. NextKey = Null
    BY <2>1 DEF NextKey, First
  <2> QED BY <2>2 DEF NextGet
<1> DEFINE c == file.classes[Role("interface_proxy")]
           m == file.methods[c.iinit]
<1>2. ProxyCode = m.code
  BY <1>1 DEF ProxyCode
<1>3. c \in Range(file.classes) /\ m \in Range(file.methods)
  <2>1. Role("interface_proxy") \in DOMAIN file.classes
    BY <1>1, RoleClass DEF Roles
  <2>2. c \in Range(file.classes)
    BY <2>1 DEF Range
  <2>3. c.iinit \in DOMAIN file.methods
    BY <2>2, PartsAssumption
  <2> QED BY <2>2, <2>3 DEF Range
<1>4. \A i \in DOMAIN ProxyCode : ProxyCode[i].op = "pushstring" => ProxyCode[i].arg \in Strings
  BY <1>1, <1>2, PartsAssumption DEF Strings, Role, Range
<1>5. DOMAIN ProxyCode \subseteq Nat \ {0}
  BY <1>2, <1>3, MethodCode
<1> DEFINE keys == {i \in DOMAIN ProxyCode : i >= next /\ ProxyCode[i].op = "pushstring"}
<1>6. NextKey = IF keys = {} THEN Null ELSE CHOOSE i \in keys : \A j \in keys : i <= j
  BY Zenon DEF NextKey, First
<1>7. NextKey # Null
  BY DEF NextGet
<1>8. keys \subseteq Nat /\ \A i \in keys : i \in DOMAIN ProxyCode /\ ProxyCode[i].op = "pushstring"
  BY <1>5
<1> HIDE DEF keys
<1>9. NextKey \in keys
  BY <1>6, <1>7, <1>8, Least
<1> DEFINE gets == {i \in DOMAIN ProxyCode : i >= NextKey /\ ProxyCode[i].op = "getproperty"}
<1>10. NextGet = IF gets = {} THEN Null ELSE CHOOSE i \in gets : \A j \in gets : i <= j
  BY <1>7, Zenon DEF NextGet, First
<1>11. gets \subseteq Nat \ {0}
  BY <1>5
<1> HIDE DEF gets
<1>12. NextGet \in gets
  BY <1>10, <1>11, Least
<1> QED BY <1>4, <1>8, <1>9, <1>11, <1>12

-----------------------------------------------------------------------------
(***************************************************************************)
(* The steps of the later stages give texts that can be read.              *)
(***************************************************************************)
Giving ==
  /\ UNCHANGED <<file, item>> /\ Keeps(pool, pool') /\ PlacesOK'

\* A position in the traits of a role's class, which has one then.
LEMMA RoleTrait ==
  ASSUME file \in Files, NEW role \in Roles, NEW i \in DOMAIN RoleTraits(role),
         RoleTraits(role)[i].kind = "Method"
  PROVE  MethodOf(RoleTraits(role)[i]) \in Range(file.methods)
<1>1. RoleTraits(role) # <<>>
  OBVIOUS
<1>2. Role(role) # Null /\ RoleTraits(role) = file.classes[Role(role)]["itraits"]
  BY <1>1 DEF RoleTraits, Traits
<1>3. Role(role) \in DOMAIN file.classes
  BY <1>2, RoleClass
<1> QED BY <1>2, <1>3, TraitMethod

LEMMA WrittenCall ==
  ASSUME NEW code, NEW buffer, Written(code, buffer) # Null
  PROVE  \E i \in DOMAIN code : code[i].op = "callpropvoid" /\ Written(code, buffer) = code[i].arg
<1>1. PICK calls : /\ \A i \in calls : i \in DOMAIN code /\ code[i].op = "callpropvoid"
                   /\ Cardinality(calls) = 1
                   /\ Written(code, buffer) = code[CHOOSE i \in calls : TRUE].arg
  BY DEF Written
<1>2. calls # {}
  BY <1>1, FS_EmptySet
<1> QED BY <1>1, <1>2

LEMMA SPacketClear == ASSUME NEW code \in Int PROVE ~Invalid(SPacket(code))
<1>1. (code \div 256) % 256 \in Nat /\ code % 256 \in Nat
  OBVIOUS
<1> DEFINE n == <<(code \div 256) % 256, code % 256>>
<1>2. n \in Nat \X Nat
  BY <1>1
<1>3. SPacket(code) = <<"SPacket", n>> /\ "SPacket" \in Words
  BY DEF SPacket, Words
<1> HIDE DEF n
<1> QED BY <1>2, <1>3, NumberClear

LEMMA RestPlaces ==
  ASSUME PlacesOK, Rest, next' \in Nat \ {0}, counters' \in [Counted -> Nat]
  PROVE  UNCHANGED <<file, item>> /\ PlacesOK'
  BY DEF PlacesOK, Rest, symbolVars, packetVars, Role

LEMMA PacketGives ==
  ASSUME file \in Files, WellFormed(pool), ReadInv, PacketNext,
         stage \in {"writers", "readers"} => \A n \in Multinames : SameString(n)
  PROVE  Giving
<1> USE DEF ReadInv
<1>0. /\ next \in Nat \ {0} /\ next + 1 \in Nat \ {0} /\ 1 \in Nat \ {0} /\ item \in Nat \ {0}
      /\ counters \in [Counted -> Nat]
      /\ cleared \subseteq (file.statics \cup {Role("wrap_class")}) \ {Null}
  BY DEF PlacesOK
<1>1. CASE NameBases
  <2>1. Keeps(pool, pool')
    <3> DEFINE b == Base(pool, "base_spkt", "SPacketBase", 3, <<"pcode">>)
               q == Base(b, "base_cpkt", "CPacketBase", 1, <<"pcode0", "pcode1", "buffer">>)
               r == Base(q, "varint_reader", "VarIntReader", 1, <<"buffer">>)
               three == <<"pcode0", "pcode1", "buffer">>
    <3>1. DOMAIN <<"pcode">> = 1..1 /\ DOMAIN <<"buffer">> = 1..1 /\ DOMAIN three = 1..3
          /\ three[1] = "pcode0" /\ three[2] = "pcode1" /\ three[3] = "buffer"
      OBVIOUS
    <3>2. /\ \A k \in DOMAIN <<"pcode">> : <<"pcode">>[k] \in Words
          /\ \A k \in DOMAIN <<"buffer">> : <<"buffer">>[k] \in Words
          /\ \A k \in DOMAIN three : three[k] \in Words
      <4>1. {"pcode", "buffer", "pcode0", "pcode1"} \subseteq Words
        BY DEF Words
      <4>2. \A k \in 1..3 : three[k] \in {"pcode", "buffer", "pcode0", "pcode1"}
        OBVIOUS
      <4> QED BY <3>1, <4>1, <4>2
    <3>3. 1..1 \subseteq 0..3 /\ 1..3 \subseteq 0..3 /\ 3 \in Nat
      OBVIOUS
    <3>4. {"SPacketBase", "CPacketBase", "VarIntReader"} \subseteq Words
      BY DEF Words
    <3>5. Keeps(pool, b) /\ WellFormed(b)
      BY <3>1, <3>2, <3>3, <3>4, BaseKeeps, BaseMoves DEF Moves
    <3> HIDE DEF b
    <3>6. Keeps(b, q) /\ WellFormed(q)
      BY <3>1, <3>2, <3>3, <3>4, <3>5, BaseKeeps, BaseMoves DEF Moves
    <3> HIDE DEF q
    <3>7. Keeps(q, r)
      BY <3>1, <3>2, <3>3, <3>4, <3>6, BaseKeeps
    <3>8. pool' = pool \/ pool' = r
      BY <1>1 DEF NameBases, b, q
    <3> HIDE DEF r
    <3> QED BY <3>5, <3>6, <3>7, <3>8, KeepsOn, KeepsNot
  <2> QED BY <1>0, <1>1, <2>1, RestPlaces DEF NameBases, Go, Same, Giving
<1>2. CASE NameWriter
  <2> DEFINE traits == RoleTraits("base_spkt")
             trait == traits[next]
             call == Written(MethodOf(trait).code, traits[1].name)
  <2>1. next \in DOMAIN traits /\ stage = "writers"
    BY <1>2 DEF NameWriter, Loop
  <2>2. \/ pool' = pool
        \/ trait.kind = "Method" /\ call # Null /\ pool' = Rename(pool, trait.name, Text(pool, call))
    BY <1>2 DEF NameWriter
  <2>3. ASSUME trait.kind = "Method", call # Null
        PROVE  ~Invalid(Text(pool, call))
    <3>1. MethodOf(trait) \in Range(file.methods)
      BY <2>1, <2>3, RoleTrait DEF Roles, BaseRoles
    <3>2. PICK i \in DOMAIN MethodOf(trait).code :
            MethodOf(trait).code[i].op = "callpropvoid" /\ call = MethodOf(trait).code[i].arg
      BY <2>3, WrittenCall
    <3> HIDE DEF trait, call
    <3> QED BY <2>1, <3>1, <3>2, CallClear
  <2> HIDE DEF trait, call
  <2>4. Keeps(pool, pool')
    BY <2>2, <2>3, RenameKeeps, KeepsNot
  <2> QED BY <1>0, <1>2, <2>4, RestPlaces DEF NameWriter, Loop, Same, Giving
<1>3. CASE WritersDone
  BY <1>0, <1>3, KeepsNot, RestPlaces DEF WritersDone, Leave, Same, Giving
<1>4. CASE NameReader
  <2> DEFINE traits == RoleTraits("varint_reader")
             trait == traits[next]
             m == MethodOf(trait)
             get == First(m.code, 1, LAMBDA i : i.op = "getproperty")
             text == IF m.returnType # 0 /\ Text(pool, m.returnType) = Fixed("Boolean")
                     THEN Fixed("readBoolean") ELSE Text(pool, m.code[get + 1].arg)
  <2>1. next \in DOMAIN traits /\ stage = "readers"
    BY <1>4 DEF NameReader, Loop
  <2>2. \/ /\ trait.kind = "Method" /\ get + 1 \in DOMAIN m.code
           /\ m.code[get + 1].op = "callproperty"
           /\ pool' = Rename(pool, trait.name, text) /\ counters' = counters
        \/ /\ pool' = Titled(pool, trait.name, "readVarInt")
           /\ counters' = [counters EXCEPT !["readVarInt"] = 1]
        \/ pool' = pool /\ counters' = counters
    BY <1>4, Zenon DEF NameReader
  <2>3. ASSUME trait.kind = "Method", get + 1 \in DOMAIN m.code, m.code[get + 1].op = "callproperty"
        PROVE  ~Invalid(text)
    <3>1. m \in Range(file.methods)
      BY <2>1, <2>3, RoleTrait DEF Roles
    <3> HIDE DEF m, get
    <3>2. ~Invalid(Text(pool, m.code[get + 1].arg))
      BY <2>1, <2>3, <3>1, CallClear
    <3>3. ~Invalid(Fixed("readBoolean"))
      BY WordClear DEF Words
    <3> QED BY <3>2, <3>3
  <2> HIDE DEF trait, m, get, text
  <2>4. Keeps(pool, pool')
    <3>1. ~Invalid(Fixed("readVarInt"))
      BY WordClear DEF Words, Counted
    <3> QED BY <2>2, <2>3, <3>1, RenameKeeps, KeepsNot DEF Titled
  <2>5. counters' \in [Counted -> Nat]
    BY <1>0, <2>2
  <2> QED BY <1>0, <1>4, <2>4, <2>5, RestPlaces DEF NameReader, Loop, Giving
<1>5. CASE ReadersDone
  <2>1. ~Invalid(Fixed("InterfaceProxy"))
    BY WordClear DEF Words
  <2>2. Keeps(pool, pool')
    BY <1>5, <2>1, RenameKeeps, KeepsNot DEF ReadersDone, Titled
  <2> QED BY <1>0, <1>5, <2>2, RestPlaces DEF ReadersDone, Leave, Same, Giving
<1>6. CASE NameProxied
  <2>1. pool'.strings = pool.strings
    BY <1>6 DEF NameProxied, WellFormed
  <2>2. Keeps(pool, pool')
    BY <2>1 DEF Keeps
  <2>3. next' \in Nat \ {0}
    BY <1>0, <1>6, ProxyKeys DEF NameProxied
  <2> QED BY <1>0, <1>6, <2>2, <2>3, RestPlaces DEF NameProxied, Same, Giving
<1>7. CASE ProxiedDone
  BY <1>0, <1>7, KeepsNot DEF ProxiedDone, symbolVars, Giving, PlacesOK, Role
<1>8. CASE NamePacket
  <2> DEFINE count == counters["CPacket_u"] + 1
             code == Pushed(file.methods[file.classes[next].iinit].code)
  <2>1. \/ pool' = Known(pool, next, SPacket(code), "packets.serverbound") /\ counters' = counters
        \/ /\ pool' = Known(pool, next, <<"CPacket_u", count>>, "packets.clientbound")
           /\ counters' = [counters EXCEPT !["CPacket_u"] = count]
        \/ pool' = pool /\ counters' = counters
    BY <1>8, Zenon DEF NamePacket
  <2>2. code \in Int
    <3> DEFINE m == file.methods[file.classes[next].iinit]
    <3>1. next \in DOMAIN file.classes
      BY <1>8 DEF NamePacket, Loop
    <3>2. file.classes[next] \in Range(file.classes)
      BY <3>1 DEF Range
    <3>3. m \in Range(file.methods)
      BY <3>2, PartsAssumption DEF Range
    <3> HIDE DEF m
    <3>4. Pushed(m.code) \in Int
      BY <3>3, MethodCode, PushedInt
    <3> QED BY <3>4 DEF m
  <2>3. count \in Nat
    BY <1>0 DEF Counted
  <2> HIDE DEF count, code
  <2>4. ~Invalid(SPacket(code)) /\ ~Invalid(<<"CPacket_u", count>>)
    BY <2>2, <2>3, SPacketClear, NumberClear DEF Words, Counted
  <2>5. Keeps(pool, pool')
    BY <2>1, <2>4, KnownKeeps, KeepsNot
  <2>6. counters' \in [Counted -> Nat]
    BY <1>0, <2>1, <2>3
  <2> QED BY <1>0, <1>8, <2>5, <2>6, RestPlaces DEF NamePacket, Loop, Giving
<1>9. CASE PacketsDone
  BY <1>0, <1>9, KeepsNot, RestPlaces DEF PacketsDone, Leave, Same, Giving
<1>10. CASE NameStatic
  <2>1. ~Invalid(<<"$StaticClass_", next>>)
    BY <1>0, NumberClear DEF Words
  <2>2. Keeps(pool, pool')
    BY <1>10, <2>1, KnownKeeps DEF NameStatic
  <2>3. 0 \notin file.statics
    <3>1. file.statics \subseteq DOMAIN file.classes /\ IsSequence(file.classes)
      BY PartsAssumption, FilesAssumption
    <3> QED BY <3>1 DEF IsSequence
  <2> QED BY <1>0, <1>10, <2>2, <2>3 DEF NameStatic, symbolVars, Giving, PlacesOK, Role, Null
<1>11. CASE NameWrapper
  <2> DEFINE k == Known(pool, Role("wrap_class"), Fixed("$WrapperClass"), "com.obfuscate")
  <2>1. ~Invalid(Fixed("$WrapperClass")) /\ ~Invalid(Fixed("instance"))
    BY WordClear DEF Words
  <2>2. Keeps(pool, k) /\ WellFormed(k)
    BY <2>1, KnownKeeps, KnownMoves DEF Moves
  <2>3. PICK i : pool' \in {pool, k, Titled(k, file.classes[1].ctraits[i].name, "instance")}
    BY <1>11 DEF NameWrapper
  <2> HIDE DEF k
  <2>4. Keeps(k, Titled(k, file.classes[1].ctraits[i].name, "instance"))
    BY <2>1, <2>2, RenameKeeps DEF Titled
  <2>5. Keeps(pool, pool')
    BY <2>2, <2>3, <2>4, KeepsOn, KeepsNot
  <2>6. cleared' \subseteq (file.statics \cup {Role("wrap_class")}) \ {Null}
    BY <1>0, <1>11 DEF NameWrapper
  <2> QED BY <1>0, <1>11, <2>5, <2>6 DEF NameWrapper, symbolVars, Giving, PlacesOK, Role
<1> QED
  BY <1>1, <1>2, <1>3, <1>4, <1>5, <1>6, <1>7, <1>8, <1>9, <1>10, <1>11 DEF PacketNext

-----------------------------------------------------------------------------
\* The method the walk is over: traits of the handler are never cleared.
LEMMA HandlerFacts ==
  ASSUME file \in Files, PlacesOK, Role("pkt_hdlr") # Null
  PROVE  /\ Handle \in Range(file.classes[Role("pkt_hdlr")].ctraits)
         /\ Handles(file, Handle) /\ MethodOf(Handle) \in Range(file.methods)
<1> DEFINE c == Role("pkt_hdlr")
           traits == file.classes[c].ctraits
           found == {i \in DOMAIN traits : i >= 1 /\ Handles(file, traits[i])}
<1>1. c \in DOMAIN file.classes /\ c \notin cleared
  <2>1. c \notin file.statics \cup {Role("wrap_class")}
    BY PartsAssumption DEF Role
  <2>2. c \in DOMAIN file.classes
    BY RoleClass DEF Roles
  <2> QED BY <2>1, <2>2 DEF PlacesOK
<1>2. Traits(c, "ctraits") = traits
  BY <1>1 DEF Traits
<1>3. DOMAIN traits \subseteq Nat \ {0}
  <2>1. file.classes[c] \in Range(file.classes)
    BY <1>1 DEF Range
  <2>2. IsSequence(traits)
    BY <2>1, FilesAssumption
  <2> HIDE DEF traits
  <2> QED BY <2>2 DEF IsSequence
<1>4. found # {}
  <2>1. PICK t \in Range(traits) : Handles(file, t)
    BY PartsAssumption DEF Role
  <2>2. PICK i \in DOMAIN traits : traits[i] = t
    BY <2>1 DEF Range
  <2>3. i >= 1
    BY <1>3
  <2> QED BY <2>1, <2>2, <2>3
<1>5. HandleTrait = CHOOSE i \in found : \A j \in found : i <= j
  <2>1. HandleTrait =
          First(traits, 1, LAMBDA t : /\ t.kind = "Method" /\ MethodOf(t).big
                                      /\ MethodOf(t).params = <<file.byteArray>>)
    BY <1>2, Zenon DEF HandleTrait
  <2>2. found = {i \in DOMAIN traits :
                   i >= 1 /\ /\ traits[i].kind = "Method" /\ MethodOf(traits[i]).big
                             /\ MethodOf(traits[i]).params = <<file.byteArray>>}
    BY Zenon DEF Handles, MethodOf
  <2> HIDE DEF traits
  <2> QED BY <1>4, <2>1, <2>2, Zenon DEF First
<1>6. HandleTrait \in found
  <2>1. found \subseteq Nat
    BY <1>3
  <2> HIDE DEF found
  <2> QED BY <1>4, <1>5, <2>1, Least
<1>7. Handle = traits[HandleTrait] /\ Handle.kind = "Method"
  BY <1>2, <1>6 DEF Handle, Handles
<1>8. Handle \in Range(traits) /\ Handles(file, Handle)
  BY <1>6, <1>7 DEF Range
<1>9. MethodOf(Handle) \in Range(file.methods)
  <2> HIDE DEF found
  <2>1. HandleTrait \in DOMAIN file.classes[c]["ctraits"]
    BY <1>6 DEF found
  <2> QED BY <1>1, <1>7, <2>1, TraitMethod
<1> QED BY <1>8, <1>9

LEMMA CodeFacts ==
  ASSUME file \in Files, PlacesOK, Role("pkt_hdlr") # Null
  PROVE  \A i \in DOMAIN Code : Code[i].op = "pushdouble" => Code[i].arg \in Int
<1>1. MethodOf(Handle) \in Range(file.methods)
  BY HandlerFacts
<1> QED BY <1>1, MethodCode DEF Code

\* The constants compared with are bytes.
LEMMA PacketCodeByte ==
  ASSUME file \in Files, PlacesOK, Role("pkt_hdlr") # Null, NEW i
  PROVE  PacketCode(i).value \in Nat
<1>1. ASSUME NEW j, Op(Code, j) = "pushdouble" PROVE Code[j].arg % 256 \in Nat
  <2>1. j \in DOMAIN Code /\ Code[j].op = "pushdouble"
    BY <1>1 DEF Op
  <2>2. Code[j].arg \in Int
    BY <2>1, CodeFacts
  <2> QED BY <2>2
<1> DEFINE read(value, at) == [ok |-> Op(Code, at) = "ifne", value |-> value % 256, ins |-> at]
           none == [ok |-> FALSE, value |-> 0, ins |-> i]
<1>2. PacketCode(i) \in {none} \/
      \E j, at : Op(Code, j) = "pushdouble" /\ PacketCode(i) = read(Code[j].arg, at)
  BY ZenonT(60) DEF PacketCode
<1>3. none.value = 0 /\ \A v, at : read(v, at).value = v % 256
  OBVIOUS
<1> QED BY <1>1, <1>2, <1>3

LEMMA OwnTrait ==
  ASSUME file \in Files, NEW c \in DOMAIN file.classes, NEW side \in {"ctraits", "itraits"},
         NEW name, Own(c, side, name) # Null
  PROVE  /\ Own(c, side, name) \in DOMAIN file.classes[c][side]
         /\ file.classes[c][side][Own(c, side, name)].name = name
<1> DEFINE s == file.classes[c][side]
           found == {i \in DOMAIN s : i >= 1 /\ s[i].name = name}
<1>1. found \subseteq Nat
  <2>1. file.classes[c] \in Range(file.classes)
    BY DEF Range
  <2>2. IsSequence(file.classes[c].ctraits) /\ IsSequence(file.classes[c].itraits)
    BY <2>1, FilesAssumption
  <2>3. IsSequence(s)
    BY <2>2
  <2>4. DOMAIN s \subseteq Nat
    <3> HIDE DEF s
    <3> QED BY <2>3 DEF IsSequence
  <2> QED BY <2>4
<1>2. Own(c, side, name) = IF found = {} THEN Null ELSE CHOOSE i \in found : \A j \in found : i <= j
  BY Zenon DEF Own, First
<1>3. Own(c, side, name) \in found
  <2> HIDE DEF found
  <2> QED BY <1>1, <1>2, Least
<1> QED BY <1>3

\* The class up from c that has the trait.
LEMMA UpwardsOwns ==
  ASSUME file \in Files, NEW c, NEW side, NEW name, Upwards(c, side, name) # Null
  PROVE  /\ Upwards(c, side, name) \in DOMAIN file.classes
         /\ Own(Upwards(c, side, name), side, name) # Null
<1> DEFINE up[n \in 0..Len(file.classes)] ==
             IF n = 0 THEN c
             ELSE IF up[n - 1] = Null THEN Null ELSE FindClass(file.classes[up[n - 1]].super)
           owners == {n \in 0..Len(file.classes) :
                        up[n] \in DOMAIN file.classes /\ Own(up[n], side, name) # Null}
<1>1. Upwards(c, side, name) =
        IF owners = {} THEN Null ELSE up[CHOOSE n \in owners : \A k \in owners : n <= k]
  BY Zenon DEF Upwards
<1> HIDE DEF up
<1>2. owners # {} /\ Upwards(c, side, name) = up[CHOOSE n \in owners : \A k \in owners : n <= k]
  BY <1>1
<1>3. owners \subseteq Nat
  OBVIOUS
<1> HIDE DEF owners
<1>4. (CHOOSE n \in owners : \A k \in owners : n <= k) \in owners
  BY <1>2, <1>3, Least
<1> QED BY <1>2, <1>4 DEF owners

LEMMA HeirKept ==
  ASSUME UNCHANGED <<file, cleared>>, NEW c, c = scan.sub'
  PROVE  Heir(scan.sub)' = Heir(c)
  BY DEF Heir, Upwards, Own, First, FindClass, Handle, HandleTrait, Traits, Role, MethodOf

\* The code of a handler of one category is a method's.
LEMMA SubCodeFacts ==
  ASSUME file \in Files, PlacesOK, Role("pkt_hdlr") # Null, Heir(scan.sub) # Null
  PROVE  \A i \in DOMAIN SubCode : SubCode[i].op = "pushdouble" => SubCode[i].arg \in Int
<1> DEFINE heir == Heir(scan.sub)
           own == Own(heir, "ctraits", Handle.name)
           t == file.classes[heir].ctraits[own]
<1>1. heir \in DOMAIN file.classes /\ own # Null
  BY UpwardsOwns DEF Heir
<1>2. own \in DOMAIN file.classes[heir]["ctraits"] /\ file.classes[heir]["ctraits"][own].name = Handle.name
  <2> HIDE DEF heir
  <2> QED BY <1>1, OwnTrait
<1>3. file.classes[heir] \in Range(file.classes)
  BY <1>1 DEF Range
<1>4. t \in Range(file.classes[heir].ctraits) /\ t.name = Handle.name
  BY <1>2 DEF Range
<1>5. t.kind = "Method"
  <2> HIDE DEF t, heir
  <2> QED BY <1>3, <1>4, HandlerFacts, PartsAssumption DEF Role
<1>6. MethodOf(t) \in Range(file.methods)
  <2> HIDE DEF heir, own
  <2> QED BY <1>1, <1>2, <1>5, TraitMethod
<1>7. SubCode = MethodOf(t).code
  BY DEF SubCode
<1> HIDE DEF t
<1> QED BY <1>6, <1>7, MethodCode

LEMMA SubTestByte ==
  ASSUME file \in Files, PlacesOK, Role("pkt_hdlr") # Null, Heir(scan.sub) # Null, NEW i
  PROVE  SubTest(i).value \in Nat
<1>1. ASSUME NEW j, Op(SubCode, j) = "pushdouble" PROVE SubCode[j].arg % 256 \in Nat
  <2>1. j \in DOMAIN SubCode /\ SubCode[j].op = "pushdouble"
    BY <1>1 DEF Op
  <2>2. SubCode[j].arg \in Int
    BY <2>1, SubCodeFacts
  <2> QED BY <2>2
<1>2. PICK j : SubTest(i).value =
                 IF Op(SubCode, j) = "pushdouble" THEN SubCode[j].arg % 256 ELSE 0
  BY DEF SubTest
<1> QED BY <1>1, <1>2

LEMMA WalkKeeps ==
  ASSUME PlacesOK, Walk
  PROVE  UNCHANGED <<file, item>> /\ PlacesOK'
  BY DEF PlacesOK, Walk, Same, Rest, symbolVars, packetVars, Role

\* Stages in which the walk knows a handler, and nothing more.
Plain == {"walk", "codes", "left", "tribulle"}

LEMMA ScanPlain ==
  ASSUME file' = file, DOMAIN scan' = DOMAIN Start, scan'.category \in Nat,
         stage' \in Walking => Role("pkt_hdlr") # Null /\ stage' \in Plain
  PROVE  ScanOK'
<1>1. Role("pkt_hdlr")' = Role("pkt_hdlr")
  BY DEF Role
<1>2. (DOMAIN Start)' = DOMAIN Start
  BY DEF Start
<1> QED BY <1>1, <1>2 DEF ScanOK, Plain, Walking

LEMMA StartFacts ==
  DOMAIN Start = {"ins", "category", "target", "found", "sub", "method", "ids", "subIns"}
  /\ Start.category = 0
  BY DEF Start

LEMMA DispatchGives ==
  ASSUME file \in Files, WellFormed(pool), ReadInv, DispatchNext
  PROVE  Giving /\ ScanOK'
<1> USE DEF ReadInv
<1>0. /\ DOMAIN scan = DOMAIN Start /\ scan.category \in Nat
      /\ stage \in Walking => Role("pkt_hdlr") # Null
      /\ stage = "sub" => Heir(scan.sub) # Null
  BY DEF ScanOK
<1>1. CASE NameHandler
  <2> DEFINE k == Known(pool, Role("pkt_hdlr"), Fixed("PacketHandler"), "packets")
  <2>1. ~Invalid(Fixed("PacketHandler")) /\ ~Invalid(Fixed("handle_packet"))
    BY WordClear DEF Words
  <2>2. Keeps(pool, k) /\ WellFormed(k)
    BY <2>1, KnownKeeps, KnownMoves DEF Moves
  <2>3. pool' \in {pool, Titled(k, Handle.name, "handle_packet")}
    BY <1>1 DEF NameHandler
  <2> HIDE DEF k
  <2>4. Keeps(k, Titled(k, Handle.name, "handle_packet"))
    BY <2>1, <2>2, RenameKeeps DEF Titled
  <2>5. Keeps(pool, pool')
    BY <2>2, <2>3, <2>4, KeepsOn, KeepsNot
  <2>6. Walk /\ scan' = Start /\ (stage' = "sets" \/ (stage' = "walk" /\ Role("pkt_hdlr") # Null))
    BY <1>1 DEF NameHandler
  <2>7. UNCHANGED <<file, item>> /\ PlacesOK'
    BY <2>6, WalkKeeps
  <2>8. ScanOK'
    <3>1. DOMAIN scan' = DOMAIN Start /\ scan'.category \in Nat
      BY <2>6, StartFacts
    <3>2. stage' \in Walking => Role("pkt_hdlr") # Null /\ stage' \in Plain
      BY <2>6 DEF Walking, Plain
    <3> QED BY <2>7, <3>1, <3>2, ScanPlain
  <2> QED BY <2>5, <2>7, <2>8 DEF Giving
<1>2. CASE WalkOn
  <2>1. UNCHANGED <<file, item>> /\ PlacesOK'
    BY <1>2, WalkKeeps DEF WalkOn
  <2>2. scan'.category = scan.category /\ DOMAIN scan' = DOMAIN scan /\ stage' = "walk" /\ pool' = pool
    BY <1>0, <1>2, StartFacts DEF WalkOn
  <2>3. ScanOK'
    BY <1>0, <1>2, <2>1, <2>2, ScanPlain DEF Walking, Plain, WalkOn
  <2> QED BY <2>1, <2>2, <2>3, KeepsNot DEF Giving
<1>3. CASE EnterCategory
  <2>1. UNCHANGED <<file, item>> /\ PlacesOK' /\ Role("pkt_hdlr") # Null
    BY <1>0, <1>3, WalkKeeps DEF EnterCategory, Walking
  <2> DEFINE value == PacketCode(scan.ins).value
  <2>2. value \in Nat
    BY <2>1, PacketCodeByte
  <2>3. scan'.category = value /\ DOMAIN scan' = DOMAIN scan /\ stage' = "codes" /\ pool' = pool
    <3> HIDE DEF value
    <3>1. \E target, ins : scan' = [scan EXCEPT !.category = value, !.target = target,
                                               !.found = FALSE, !.ins = ins]
      BY <1>3 DEF EnterCategory, value
    <3> QED BY <1>0, <1>3, <3>1, StartFacts DEF EnterCategory
  <2> HIDE DEF value
  <2>4. ScanOK'
    BY <1>0, <2>1, <2>2, <2>3, ScanPlain DEF Plain
  <2> QED BY <2>1, <2>3, <2>4, KeepsNot DEF Giving
<1>4. CASE NameCode
  <2>1. UNCHANGED <<file, item>> /\ PlacesOK' /\ Role("pkt_hdlr") # Null
    BY <1>0, <1>4, WalkKeeps DEF NameCode, Walking
  <2> DEFINE value == PacketCode(scan.ins).value
             c == Constructed(Code, PacketCode(scan.ins).ins, Len(Code))
  <2>2. value \in Nat
    BY <2>1, PacketCodeByte
  <2>3. \E ins : scan' = [scan EXCEPT !.found = TRUE, !.ins = ins]
    BY <1>4 DEF NameCode
  <2>4. stage' \in {"walk", "codes", "crashed"}
    BY <1>4 DEF NameCode, Resumed
  <2>5. pool' = pool \/ pool' = Clientbound(c, scan.category, value)
    BY <1>4 DEF NameCode
  <2> HIDE DEF value, c
  <2>6. Keeps(pool, pool')
    BY <1>0, <2>2, <2>5, ClientboundKeeps, KeepsNot
  <2>7. scan'.category = scan.category /\ DOMAIN scan' = DOMAIN scan
    BY <1>0, <2>3, StartFacts
  <2>8. ScanOK'
    BY <1>0, <2>1, <2>4, <2>7, ScanPlain DEF Plain, Walking
  <2> QED BY <2>1, <2>6, <2>8 DEF Giving
<1>5. CASE EnterTribulle
  <2>1. UNCHANGED <<file, item>> /\ PlacesOK'
    BY <1>5, WalkKeeps DEF EnterTribulle
  <2>2. scan'.category = scan.category /\ DOMAIN scan' = DOMAIN scan /\ stage' = "tribulle" /\ pool' = pool
    BY <1>0, <1>5, StartFacts DEF EnterTribulle
  <2>3. ScanOK'
    BY <1>0, <1>5, <2>1, <2>2, ScanPlain DEF Walking, Plain, EnterTribulle
  <2> QED BY <2>1, <2>2, <2>3, KeepsNot DEF Giving
<1>6. CASE LeaveCategory
  <2>1. UNCHANGED <<file, item>> /\ PlacesOK' /\ Role("pkt_hdlr") # Null /\ cleared' = cleared
    BY <1>0, <1>6, WalkKeeps DEF LeaveCategory, Walking, Walk, Same, Rest, packetVars
  <2>2. PICK sub :
          /\ \/ stage' = "walk" /\ pool' = pool
             \/ stage' = "crashed" /\ pool' = pool
             \/ /\ stage' = "sub" /\ Heir(sub) # Null
                /\ pool' = Known(pool, sub, <<"PacketSubHandler_", scan.category>>, "packets")
          /\ scan' = [scan EXCEPT !.ins = scan.target, !.sub = sub, !.subIns = 1]
    BY <1>6 DEF LeaveCategory, Resumed
  <2>3. /\ scan'.category = scan.category /\ scan'.sub = sub
        /\ DOMAIN scan' = DOMAIN scan
    BY <1>0, <2>2, StartFacts
  <2>4. ~Invalid(<<"PacketSubHandler_", scan.category>>)
    BY <1>0, NumberClear DEF Words
  <2>5. Keeps(pool, pool')
    BY <2>2, <2>4, KnownKeeps, KeepsNot
  <2>6. ScanOK'
    <3>1. CASE stage' \in {"walk", "crashed"}
      BY <1>0, <2>1, <2>3, <3>1, ScanPlain DEF Plain, Walking
    <3>2. CASE stage' = "sub"
      <4>1. Heir(sub) # Null
        BY <2>2, <3>2
      <4>2. Heir(scan.sub)' = Heir(sub)
        BY <2>1, <2>3, HeirKept
      <4>3. Role("pkt_hdlr")' # Null
        BY <2>1 DEF Role
      <4>4. (DOMAIN Start)' = DOMAIN Start
        BY DEF Start
      <4> QED BY <1>0, <2>3, <3>2, <4>1, <4>2, <4>3, <4>4 DEF ScanOK, Null
    <3> QED BY <2>2, <3>1, <3>2
  <2> QED BY <2>1, <2>5, <2>6 DEF Giving
<1>7. CASE SubOn
  <2>1. /\ UNCHANGED <<file, item>> /\ PlacesOK' /\ Role("pkt_hdlr") # Null /\ cleared' = cleared
        /\ stage = "sub" /\ stage' \in {"sub", "crashed"}
    BY <1>0, <1>7, WalkKeeps DEF SubOn, Walking, Walk, Same, Rest, packetVars
  <2> DEFINE value == SubTest(scan.subIns).value
  <2>2. value \in Nat
    BY <1>0, <2>1, SubTestByte
  <2>3. \E ins : scan' = [scan EXCEPT !.subIns = ins]
    BY <1>7 DEF SubOn
  <2>4. pool' = pool \/ \E c : pool' = Clientbound(c, scan.category, value)
    BY <1>7 DEF SubOn
  <2> HIDE DEF value
  <2>5. Keeps(pool, pool')
    BY <1>0, <2>2, <2>4, ClientboundKeeps, KeepsNot
  <2>6. /\ scan'.category = scan.category /\ scan'.sub = scan.sub
        /\ DOMAIN scan' = DOMAIN scan
    BY <1>0, <2>3, StartFacts
  <2>7. Heir(scan.sub)' = Heir(scan.sub)
    BY <2>1, <2>6, HeirKept
  <2>8. ScanOK'
    <3>1. Role("pkt_hdlr")' # Null
      BY <2>1 DEF Role
    <3>2. (DOMAIN Start)' = DOMAIN Start
      BY DEF Start
    <3> QED BY <1>0, <2>1, <2>6, <2>7, <3>1, <3>2 DEF ScanOK, Null, Walking
  <2> QED BY <2>1, <2>5, <2>8 DEF Giving
<1>8. CASE SubDone
  <2>1. UNCHANGED <<file, item>> /\ PlacesOK' /\ Role("pkt_hdlr") # Null
    BY <1>0, <1>8, WalkKeeps DEF SubDone, Walking
  <2>2. ScanOK'
    BY <1>0, <1>8, <2>1, ScanPlain DEF Plain, Walking, SubDone, Resumed
  <2> QED BY <1>8, <2>1, <2>2, KeepsNot DEF Giving, SubDone
<1>9. CASE WalkDone \/ FixSet \/ SetsDone
  <2>1. UNCHANGED <<file, item, counters, cleared, scan>> /\ next' \in Nat \ {0}
    BY <1>9 DEF WalkDone, FixSet, SetsDone, Loop, Leave, Same, Rest, symbolVars, packetVars, PlacesOK
  <2>2. PlacesOK'
    BY <2>1 DEF PlacesOK, Role
  <2>3. stage' \notin Walking
    BY <1>9 DEF WalkDone, FixSet, SetsDone, Loop, Leave, Walking
  <2>4. pool' = pool \/ pool' = WithSet(pool, next)
    BY <1>9 DEF WalkDone, FixSet, SetsDone
  <2>5. Keeps(pool, pool')
    BY <2>4, WithSetKeeps, KeepsNot
  <2>6. ScanOK'
    BY <1>0, <2>1, <2>3, ScanPlain
  <2> QED BY <2>1, <2>2, <2>5, <2>6 DEF Giving
<1>10. CASE ReadNull
  <2>1. UNCHANGED <<file, item>> /\ PlacesOK'
    BY <1>10, WalkKeeps DEF ReadNull
  <2>2. ScanOK'
    BY <1>0, <1>10, <2>1, ScanPlain DEF Walking, ReadNull
  <2> QED BY <1>10, <2>1, <2>2, KeepsNot DEF Giving, ReadNull
<1> QED
  BY <1>1, <1>2, <1>3, <1>4, <1>5, <1>6, <1>7, <1>8, <1>9, <1>10 DEF DispatchNext

LEMMA TraitFound ==
  ASSUME file \in Files, NEW c, NEW side \in {"ctraits", "itraits"}, NEW name,
         Trait(c, side, name).kind = "Method"
  PROVE  /\ Trait(c, side, name).index \in DOMAIN file.methods
         /\ Upwards(c, side, name) \in DOMAIN file.classes
<1> DEFINE holder == IF c = Null THEN Null ELSE Upwards(c, side, name)
<1>1. holder # Null /\ holder = Upwards(c, side, name)
        /\ Trait(c, side, name) = file.classes[holder][side][Own(holder, side, name)]
  <2>1. Trait(c, side, name) # [kind |-> "none"]
    OBVIOUS
  <2> QED BY <2>1 DEF Trait
<1> HIDE DEF holder
<1>2. holder \in DOMAIN file.classes /\ Own(holder, side, name) # Null
  BY <1>1, UpwardsOwns
<1>3. Own(holder, side, name) \in DOMAIN file.classes[holder][side]
  BY <1>2, OwnTrait
<1> QED BY <1>1, <1>2, <1>3, TraitMethod

LEMMA IdTraitMethod ==
  ASSUME file \in Files, scan.sub \in DOMAIN file.classes, IdTrait # Null
  PROVE  file.classes[scan.sub].itraits[IdTrait].index \in DOMAIN file.methods
<1> DEFINE s == file.classes[scan.sub].itraits
           found == {i \in DOMAIN s :
                       i >= 1 /\ /\ s[i].kind = "Method" /\ Len(MethodOf(s[i]).params) = 1
                                 /\ MethodOf(s[i]).returnType # 0
                                 /\ Text(pool, MethodOf(s[i]).returnType) = Fixed("int")}
<1>1. IdTrait = IF found = {} THEN Null ELSE CHOOSE i \in found : \A j \in found : i <= j
  BY Zenon DEF IdTrait, First
<1>2. found \subseteq Nat
  <2>1. file.classes[scan.sub] \in Range(file.classes)
    BY DEF Range
  <2>2. IsSequence(s)
    BY <2>1, FilesAssumption
  <2>3. DOMAIN s \subseteq Nat
    <3> HIDE DEF s
    <3> QED BY <2>2 DEF IsSequence
  <2> QED BY <2>3
<1>3. IdTrait \in found
  <2> HIDE DEF found
  <2> QED BY <1>1, <1>2, Least
<1>4. IdTrait \in DOMAIN file.classes[scan.sub]["itraits"]
        /\ file.classes[scan.sub]["itraits"][IdTrait].kind = "Method"
  BY <1>3
<1> HIDE DEF found
<1> QED BY <1>4, TraitMethod

\* The steps of Tribulle's part that go on with what they found.
LEMMA ScanPath ==
  ASSUME file' = file, DOMAIN scan' = DOMAIN Start, scan'.category \in Nat,
         Role("pkt_hdlr") # Null, stage' \in Walking \ {"sub"},
         stage' \notin Plain => scan'.method \in DOMAIN file.methods,
         stage' = "community" => scan'.sub \in DOMAIN file.classes,
         stage' = "server" => scan'.ids \in DOMAIN file.methods
  PROVE  ScanOK'
<1>1. Role("pkt_hdlr")' = Role("pkt_hdlr")
  BY DEF Role
<1>2. (DOMAIN Start)' = DOMAIN Start
  BY DEF Start
<1>3. stage' = "server" => scan'.method \in DOMAIN file.methods
  BY DEF Plain
<1> QED BY <1>1, <1>2, <1>3 DEF ScanOK, Plain, Walking

LEMMA IdNat == ASSUME NEW value \in Int PROVE Id(value) \in Nat
  BY DEF Id

LEMMA TribulleGives ==
  ASSUME file \in Files, WellFormed(pool), ReadInv, TribulleNext
  PROVE  Giving /\ ScanOK'
<1> USE DEF ReadInv
<1>0. /\ DOMAIN scan = DOMAIN Start /\ scan.category \in Nat
      /\ stage \in Walking => Role("pkt_hdlr") # Null
      /\ stage \in {"path", "community", "client base", "client", "server"} =>
           scan.method \in DOMAIN file.methods
      /\ stage = "community" => scan.sub \in DOMAIN file.classes
      /\ stage = "server" => scan.ids \in DOMAIN file.methods
  BY DEF ScanOK
<1>00. /\ Walk
       /\ stage \in {"tribulle", "path", "community", "server", "client base", "client"}
       /\ Role("pkt_hdlr") # Null
  <2>1. /\ Walk
        /\ stage \in {"tribulle", "path", "community", "server", "client base", "client"}
    BY DEF TribulleNext, FindCaller, FollowPath, FindMaker, FindIds, NameServer, ServerDone,
           NameClientBase, NameClient, ClientDone, Unnamed
  <2> QED BY <1>0, <2>1 DEF Walking
<1>000. UNCHANGED <<file, item>> /\ PlacesOK'
  BY <1>00, WalkKeeps
<1>1. CASE FindCaller
  <2>1. PICK caller, c, at :
          \/ Fail
          \/ /\ stage' = "path" /\ caller.kind = "Method"
             /\ \/ caller = [kind |-> "none"]
                \/ \E d, name : caller = Trait(d, "ctraits", name)
             /\ scan' = [scan EXCEPT !.method = caller.index, !.sub = c, !.subIns = at]
          \/ stage' = "crashed" /\ UNCHANGED scan
    <3> DEFINE stops == {i \in DOMAIN Code : /\ i >= scan.ins
                                             /\ Code[i].op = "returnvoid" \/ Is(Code, i, Getter)}
               i == CHOOSE i \in stops : \A j \in stops : i <= j
               caller == IF Code[i].op = "returnvoid" THEN [kind |-> "none"]
                         ELSE Trait(FindClass(Code[i].arg), "ctraits", Code[i + 3].arg)
               path == MethodOf(caller).code
               start == OpAt(path, 1, "getlex")
               c == IF caller.kind # "Method" \/ start = Null THEN Null ELSE FindClass(path[start].arg)
    <3>1. IF stops = {} THEN stage' = "crashed" /\ UNCHANGED scan
          ELSE IF c = Null THEN Fail
          ELSE /\ stage' = "path"
               /\ scan' = [scan EXCEPT !.method = caller.index, !.sub = c, !.subIns = start + 1]
      BY <1>1, Zenon DEF FindCaller
    <3>2. caller = [kind |-> "none"] \/ \E d, name : caller = Trait(d, "ctraits", name)
      BY Zenon
    <3>3. c # Null => caller.kind = "Method"
      OBVIOUS
    <3> HIDE DEF stops, caller, c, start
    <3> QED BY <3>1, <3>2, <3>3
  <2>2. scan'.category = scan.category /\ DOMAIN scan' = DOMAIN scan
    BY <1>0, <2>1, StartFacts DEF Fail
  <2>3. \/ stage' \in {"left", "crashed"}
        \/ stage' = "path" /\ scan'.method \in DOMAIN file.methods
    <3>1. CASE Fail \/ stage' = "crashed"
      BY <3>1 DEF Fail
    <3>2. CASE ~Fail /\ stage' # "crashed"
      <4>1. [kind |-> "none"].kind # "Method"
        OBVIOUS
      <4>2. caller.index \in DOMAIN file.methods
        BY <2>1, <3>2, <4>1, TraitFound
      <4> QED BY <1>0, <2>1, <3>2, <4>2, StartFacts
    <3> QED BY <3>1, <3>2
  <2>4. ScanOK'
    <3>1. CASE stage' = "crashed"
      BY <1>0, <1>000, <2>2, <3>1, ScanPlain DEF Walking
    <3>2. CASE stage' # "crashed"
      BY <1>0, <1>00, <1>000, <2>2, <2>3, <3>2, ScanPath DEF Plain, Walking
    <3> QED BY <3>1, <3>2
  <2> QED BY <1>1, <1>000, <2>4, KeepsNot DEF Giving, FindCaller, Unnamed
<1>2. CASE FollowPath
  <2>1. \/ Fail
        \/ stage' = "path" /\ \E c, at : scan' = [scan EXCEPT !.sub = c, !.subIns = at]
    BY <1>2 DEF FollowPath
  <2>2. /\ scan'.category = scan.category /\ DOMAIN scan' = DOMAIN scan
        /\ scan'.method = scan.method /\ stage' \in {"left", "path"}
    BY <1>0, <2>1, StartFacts DEF Fail
  <2>3. stage = "path"
    BY <1>2 DEF FollowPath
  <2>4. ScanOK'
    BY <1>0, <1>00, <1>000, <2>2, <2>3, ScanPath DEF Plain, Walking
  <2> QED BY <1>2, <1>000, <2>4, KeepsNot DEF Giving, FollowPath, Unnamed
<1>3. CASE FindMaker
  <2>1. PICK name, maker :
          \/ Fail
          \/ /\ stage' = "community" /\ maker.kind = "Method"
             /\ maker \in {[kind |-> "none"], Trait(scan.sub, "itraits", name)}
             /\ scan' = [scan EXCEPT !.sub = Upwards(scan.sub, "itraits", name),
                                     !.method = maker.index]
    <3> DEFINE call == OpAt(Method.code, scan.subIns, "callproperty")
               name == Method.code[call].arg
               maker == IF call = Null THEN [kind |-> "none"] ELSE Trait(scan.sub, "itraits", name)
    <3>1. IF maker.kind # "Method" THEN Fail
          ELSE /\ stage' = "community"
               /\ scan' = [scan EXCEPT !.sub = Upwards(@, "itraits", name), !.method = maker.index]
      BY <1>3, Zenon DEF FindMaker
    <3>2. maker \in {[kind |-> "none"], Trait(scan.sub, "itraits", name)}
      BY Zenon
    <3> HIDE DEF maker, name
    <3> QED BY <3>1, <3>2
  <2>2. scan'.category = scan.category /\ DOMAIN scan' = DOMAIN scan
    BY <1>0, <2>1, StartFacts DEF Fail
  <2>3. \/ stage' = "left"
        \/ /\ stage' = "community" /\ scan'.method \in DOMAIN file.methods
           /\ scan'.sub \in DOMAIN file.classes
    <3>1. CASE Fail
      BY <3>1 DEF Fail
    <3>2. CASE ~Fail
      <4>1. [kind |-> "none"].kind # "Method"
        OBVIOUS
      <4>2. maker = Trait(scan.sub, "itraits", name) /\ maker.kind = "Method"
        BY <2>1, <3>2, <4>1
      <4>3. maker.index \in DOMAIN file.methods /\ Upwards(scan.sub, "itraits", name) \in DOMAIN file.classes
        BY <4>2, TraitFound
      <4> QED BY <1>0, <2>1, <3>2, <4>3, StartFacts
    <3> QED BY <3>1, <3>2
  <2>4. ScanOK'
    BY <1>0, <1>00, <1>000, <2>2, <2>3, ScanPath DEF Plain, Walking
  <2> QED BY <1>3, <1>000, <2>4, KeepsNot DEF Giving, FindMaker, Unnamed
<1>4. CASE FindIds
  <2> DEFINE trait == file.classes[scan.sub].itraits[IdTrait]
  <2>1. \/ stage' = "client base" /\ UNCHANGED <<pool, scan>>
        \/ /\ IdTrait # Null /\ pool' = Titled(pool, trait.name, "getPacketId")
           /\ stage' = "server" /\ scan' = [scan EXCEPT !.ids = trait.index]
    BY <1>4 DEF FindIds
  <2>2. stage = "community"
    BY <1>4 DEF FindIds
  <2>3. IdTrait # Null => trait.index \in DOMAIN file.methods
    BY <1>0, <2>2, IdTraitMethod
  <2> HIDE DEF trait
  <2>4. /\ scan'.category = scan.category /\ DOMAIN scan' = DOMAIN scan
        /\ scan'.method = scan.method /\ stage' \in {"client base", "server"}
        /\ stage' = "server" => scan'.ids \in DOMAIN file.methods
    BY <1>0, <2>1, <2>3, StartFacts
  <2>5. ScanOK'
    BY <1>0, <1>00, <1>000, <2>2, <2>4, ScanPath DEF Plain, Walking
  <2>6. ~Invalid(Fixed("getPacketId"))
    BY WordClear DEF Words
  <2>7. Keeps(pool, pool')
    BY <2>1, <2>6, RenameKeeps, KeepsNot DEF Titled
  <2> QED BY <1>000, <2>5, <2>7 DEF Giving
<1>5. CASE NameServer
  <2>1. PICK index \in Indices :
          LET c == ClassOf(index)
              goal == Targets[index + 2]
          IN /\ stage' \in {stage, "crashed"}
             /\ \/ pool' = pool
                \/ /\ AnswerAt(goal)
                   /\ pool' = Known(pool, c, <<"TSPacket_", Id(IdCode[goal + 1].arg)>>,
                                    "packets.tribulle.serverbound")
    BY <1>5 DEF NameServer
  <2> DEFINE goal == Targets[index + 2]
  <2>2. stage = "server" /\ scan' = scan
    BY <1>5 DEF NameServer
  <2>3. AnswerAt(goal) => ~Invalid(<<"TSPacket_", Id(IdCode[goal + 1].arg)>>)
    <3> SUFFICES ASSUME AnswerAt(goal) PROVE ~Invalid(<<"TSPacket_", Id(IdCode[goal + 1].arg)>>)
      OBVIOUS
    <3> HIDE DEF goal
    <3>1. file.methods[scan.ids] \in Range(file.methods)
      BY <1>0, <2>2 DEF Range
    <3>2. DOMAIN IdCode \subseteq Nat
      BY <3>1, MethodCode DEF IdCode
    <3>3. goal \in Nat /\ Is(IdCode, goal, ReturnId)
      BY <3>2 DEF AnswerAt
    <3>4. 2 \in DOMAIN ReturnId /\ ReturnId[2] = "pushdouble" /\ goal + 2 - 1 = goal + 1
      BY <3>3 DEF ReturnId
    <3>5. goal + 1 \in DOMAIN IdCode /\ IdCode[goal + 1].op = "pushdouble"
      BY <3>3, <3>4 DEF Is
    <3>6. IdCode[goal + 1].arg \in Int
      BY <3>1, <3>5, MethodCode DEF IdCode
    <3> QED BY <3>6, IdNat, NumberClear DEF Words
  <2>4. Keeps(pool, pool')
    <3> HIDE DEF goal
    <3> QED BY <2>1, <2>3, KnownKeeps, KeepsNot DEF goal
  <2>5. ScanOK'
    <3>1. CASE stage' = stage
      BY <1>0, <1>00, <1>000, <2>2, <3>1, ScanPath DEF Plain, Walking
    <3>2. CASE stage' = "crashed"
      BY <1>0, <1>00, <1>000, <2>2, <3>2, ScanPlain DEF Plain, Walking
    <3> QED BY <2>1, <3>1, <3>2
  <2> QED BY <1>000, <2>4, <2>5 DEF Giving
<1>6. CASE ServerDone
  <2>1. ScanOK'
    BY <1>0, <1>00, <1>000, <1>6, ScanPath DEF ServerDone, Plain, Walking
  <2> QED BY <1>6, <1>000, <2>1, KeepsNot DEF Giving, ServerDone
<1>7. CASE NameClientBase
  <2>1. /\ scan'.category = scan.category /\ DOMAIN scan' = DOMAIN scan
        /\ scan'.method = scan.method /\ stage' = "client" /\ stage = "client base"
    BY <1>0, <1>7, StartFacts DEF NameClientBase
  <2>2. ScanOK'
    BY <1>0, <1>00, <1>000, <2>1, ScanPath DEF Plain, Walking
  <2>3. ~Invalid(Fixed("TCPacketBase"))
    BY WordClear DEF Words
  <2>4. Keeps(pool, pool')
    BY <1>7, <2>3, KnownKeeps, KeepsNot DEF NameClientBase
  <2> QED BY <1>000, <2>2, <2>4 DEF Giving
<1>8. CASE NameClient
  <2> DEFINE i == scan.subIns
             at == OpAt(Method.code, i, "findpropstrict")
             c == FindClass(Method.code[at].arg)
             text == <<"TCPacket_", Id(Method.code[i].arg)>>
  <2>1. /\ stage = "client" /\ i \in DOMAIN Method.code
        /\ stage' \in {"client", "crashed"}
        /\ scan' = scan \/ \E n : scan' = [scan EXCEPT !.subIns = n]
        /\ \/ pool' = pool
           \/ /\ Method.code[i].op = "pushdouble"
              /\ pool' = Known(pool, c, text, "packets.tribulle.clientbound")
    <3>1. CASE Method.code[i].op # "pushdouble"
      BY <1>8, <3>1 DEF NameClient
    <3>2. CASE Method.code[i].op = "pushdouble" /\ at = Null
      BY <1>8, <3>2 DEF NameClient
    <3>3. CASE Method.code[i].op = "pushdouble" /\ at # Null
      BY <1>8, <3>3 DEF NameClient
    <3> QED BY <3>1, <3>2, <3>3
  <2>2. Method.code[i].op = "pushdouble" => ~Invalid(text)
    <3> SUFFICES ASSUME Method.code[i].op = "pushdouble" PROVE ~Invalid(text)
      OBVIOUS
    <3>1. Method \in Range(file.methods)
      BY <1>0, <2>1 DEF Range, Method
    <3>2. Method.code[i].arg \in Int
      BY <2>1, <3>1, MethodCode
    <3> QED BY <3>2, IdNat, NumberClear DEF Words
  <2> HIDE DEF i, c, text
  <2>3. Keeps(pool, pool')
    BY <2>1, <2>2, KnownKeeps, KeepsNot
  <2>4. /\ scan'.category = scan.category /\ DOMAIN scan' = DOMAIN scan
        /\ scan'.method = scan.method
    BY <1>0, <2>1, StartFacts
  <2>5. ScanOK'
    <3>1. CASE stage' = "client"
      BY <1>0, <1>00, <1>000, <2>1, <2>4, <3>1, ScanPath DEF Plain, Walking
    <3>2. CASE stage' = "crashed"
      BY <1>0, <1>00, <1>000, <2>4, <3>2, ScanPlain DEF Plain, Walking
    <3> QED BY <2>1, <3>1, <3>2
  <2> QED BY <1>000, <2>3, <2>5 DEF Giving
<1>9. CASE ClientDone
  <2>1. /\ scan'.category = scan.category /\ DOMAIN scan' = DOMAIN scan /\ stage' = "left"
    BY <1>0, <1>9, StartFacts DEF ClientDone
  <2>2. ScanOK'
    BY <1>0, <1>00, <1>000, <2>1, ScanPath DEF Plain, Walking
  <2> QED BY <1>9, <1>000, <2>2, KeepsNot DEF Giving, ClientDone
<1> QED
  BY <1>1, <1>2, <1>3, <1>4, <1>5, <1>6, <1>7, <1>8, <1>9 DEF TribulleNext

LEMMA ExecutedKeeps ==
  ASSUME file \in Files, WellFormed(pool), NEW d \in Range(definitions), NEW c
  PROVE  Keeps(pool, Executed(d, c))
<1> DEFINE action(k) == IF k = 0 THEN d.action ELSE d.traits[k].action
           picks == Picks(d.traits, Traits(c, "ctraits"))
           name(k) == IF k = 0 THEN Name(c) ELSE Traits(c, "ctraits")[picks[k]].name
           renames == [k \in {k \in 0..Len(d.traits) : action(k) # None} |-> <<name(k), Fixed(action(k))>>]
<1>1. Len(d.traits) \in Nat /\ DOMAIN d.traits = 1..Len(d.traits)
  BY DefinitionsAssumption DEF definitions, IsSequence
<1>2. ASSUME NEW k \in 0..Len(d.traits) PROVE ~Invalid(Fixed(action(k)))
  <2>1. action(k) \notin Unreadable
    <3>1. CASE k = 0
      BY <3>1, DefinitionsAssumption DEF definitions
    <3>2. CASE k # 0
      <4>1. d.traits[k] \in Range(d.traits)
        BY <1>1, <3>2 DEF Range
      <4> QED BY <3>2, <4>1, DefinitionsAssumption DEF definitions
    <3> QED BY <3>1, <3>2
  <2>2. "" \notin Unreadable
    BY UnreadableAssumption DEF Words
  <2> HIDE DEF action
  <2> QED BY <2>1, <2>2 DEF Invalid, Fixed
<1>3. DOMAIN renames \subseteq 0..Len(d.traits) /\ \A k \in DOMAIN renames : ~Invalid(renames[k][2])
  <2> HIDE DEF action, name
  <2> QED BY <1>2
<1>4. Executed(d, c) = RenameAll(pool, renames)
  BY Zenon DEF Executed
<1> HIDE DEF renames
<1> QED BY <1>1, <1>3, <1>4, RenameAllKeeps

LEMMA MatchGives ==
  ASSUME file \in Files, WellFormed(pool), PlacesOK, ClassMatchNext
  PROVE  Giving
<1>1. /\ UNCHANGED <<file, item, counters, cleared>> /\ next' \in Nat \ {0}
  BY DEF PlacesOK, ClassMatchNext, LoadDefinitions, MatchDefinition, MatchingDone, Loop, Leave,
         Same, Rest, symbolVars, packetVars
<1>2. pool' = pool \/ \E c : next \in DOMAIN definitions /\ pool' = Executed(definitions[next], c)
  BY DEF ClassMatchNext, LoadDefinitions, MatchDefinition, MatchingDone, Loop
<1>3. Keeps(pool, pool')
  BY <1>2, ExecutedKeeps, KeepsNot DEF Range
<1>4. PlacesOK'
  BY <1>1 DEF PlacesOK, Role
<1> QED BY <1>1, <1>3, <1>4 DEF Giving

LEMMA MainGives ==
  ASSUME file \in Files, WellFormed(pool), PlacesOK, Read \/ Analyzed \/ Proxy \/ Write \/ UNCHANGED vars
  PROVE  Giving
<1>1. /\ UNCHANGED <<file, item, next, counters, cleared>>
  BY DEF Read, Analyzed, Proxy, Write, Others, vars, packetVars
<1>2. PlacesOK'
  BY <1>1 DEF PlacesOK, Role
<1>3. pool' = pool \/ \E i : pool' = [pool EXCEPT !.strings[i] = Fixed("127.0.0.1")]
  BY DEF Read, Analyzed, Proxy, Write, Others, vars
<1>4. ASSUME NEW i, pool' = [pool EXCEPT !.strings[i] = Fixed("127.0.0.1")] PROVE Keeps(pool, pool')
  <2>1. ~Invalid(Fixed("127.0.0.1"))
    BY WordClear DEF Words
  <2> DEFINE s == [pool.strings EXCEPT ![i] = Fixed("127.0.0.1")]
  <2>2. pool' = [strings |-> s, multinames |-> pool.multinames, moved |-> pool.moved]
    BY <1>4 DEF WellFormed
  <2>3. DOMAIN s = DOMAIN pool.strings /\ \A j \in DOMAIN s : s[j] \in {pool.strings[j], Fixed("127.0.0.1")}
    OBVIOUS
  <2> HIDE DEF s
  <2> QED BY <2>1, <2>2, <2>3 DEF Keeps
<1> QED BY <1>1, <1>2, <1>3, <1>4, KeepsNot DEF Giving

LEMMA NamesThere ==
  ASSUME file \in Files
  PROVE  \A m \in NamesUsed(file) : m # 0 /\ m \in Multinames /\ StringOf(m) \in Strings
<1>1. 0 \notin NamesUsed(file)
  BY Zenon DEF NamesUsed
<1>2. /\ NamesUsed(file) \subseteq Multinames
      /\ \A m \in Multinames : StringOf(m) \in Strings
  BY NamesAssumption DEF Multinames, Strings, StringOf
<1> QED BY <1>1, <1>2

LEMMA NamesOwned ==
  ASSUME file \in Files
  PROVE  /\ \A k \in Owners : OwnerNames(k) \ {0} \subseteq NamesUsed(file)
         /\ \A m \in NamesUsed(file) : \E k \in Owners : m \in OwnerNames(k)
<1> DEFINE OfClass(c) == {c.name, c.super} \cup NamesIn(c.ctraits) \cup NamesIn(c.itraits)
           OfMethod(m) == NamesIn(m.traits) \cup Range(m.exceptions)
           a == Len(file.classes)
           b == Len(file.methods)
<1>1. a \in Nat /\ b \in Nat /\ DOMAIN file.classes = 1..a /\ DOMAIN file.methods = 1..b
  BY FilesAssumption DEF IsSequence
<1>2. NamesUsed(file) = (UNION ({OfClass(c) : c \in Range(file.classes)}
                                \cup {OfMethod(m) : m \in Range(file.methods)})) \ {0}
  BY Zenon DEF NamesUsed
<1>3. Owners = 1..(a + b)
  BY DEF Owners
<1>4. \A k : OwnerNames(k) = IF k <= a THEN OfClass(file.classes[k]) ELSE OfMethod(file.methods[k - a])
  BY Zenon DEF OwnerNames
<1> HIDE DEF OfClass, OfMethod, a, b
<1>5. ASSUME NEW k \in Owners, NEW n \in OwnerNames(k), n # 0 PROVE n \in NamesUsed(file)
  <2>1. CASE k <= a
    <3>1. file.classes[k] \in Range(file.classes)
      BY <1>1, <1>3, <2>1 DEF Range
    <3> QED BY <1>2, <1>4, <1>5, <2>1, <3>1
  <2>2. CASE ~(k <= a)
    <3>1. file.methods[k - a] \in Range(file.methods)
      BY <1>1, <1>3, <2>2, Past DEF Range
    <3> QED BY <1>2, <1>4, <1>5, <2>2, <3>1
  <2> QED BY <2>1, <2>2
<1>6. ASSUME NEW n \in NamesUsed(file) PROVE \E k \in Owners : n \in OwnerNames(k)
  <2>1. \/ \E c \in Range(file.classes) : n \in OfClass(c)
        \/ \E m \in Range(file.methods) : n \in OfMethod(m)
    BY <1>2
  <2>2. CASE \E c \in Range(file.classes) : n \in OfClass(c)
    <3>1. PICK k \in 1..a : n \in OfClass(file.classes[k])
      BY <1>1, <2>2 DEF Range
    <3>2. k <= a /\ k \in 1..(a + b)
      BY <1>1
    <3> QED BY <1>3, <1>4, <3>1, <3>2
  <2>3. CASE \E m \in Range(file.methods) : n \in OfMethod(m)
    <3>1. PICK k \in 1..b : n \in OfMethod(file.methods[k])
      BY <1>1, <2>3 DEF Range
    <3>2. ~(a + k <= a) /\ a + k \in 1..(a + b) /\ (a + k) - a = k
      BY <1>1
    <3> QED BY <1>3, <1>4, <3>1, <3>2
  <2> QED BY <2>1, <2>2, <2>3
<1> QED BY <1>5, <1>6

LEMMA OwnerNumbers ==
  ASSUME file \in Files
  PROVE  /\ Owners \subseteq Nat \ {0}
         /\ \A n \in Nat \ {0} : n \notin Owners => \A k \in Owners : k < n
<1> DEFINE a == Len(file.classes)
           b == Len(file.methods)
<1>1. a \in Nat /\ b \in Nat
  BY FilesAssumption DEF IsSequence
<1>2. Owners = 1..(a + b)
  BY DEF Owners
<1> HIDE DEF a, b
<1> QED BY <1>1, <1>2

\* The name of a site has a string.
LEMMA SiteFacts ==
  ASSUME file \in Files, NEW k \in Owners, NEW j \in DOMAIN Sites(k)
  PROVE  /\ SiteOK(Sites(k)[j])
         /\ Sites(k)[j].name # 0 => Sites(k)[j].name \in Multinames /\ StringOf(Sites(k)[j].name) \in Strings
<1>1. SitesFor(Sites(k), OwnerNames(k))
  BY SitesGiven
<1>2. SiteOK(Sites(k)[j]) /\ Sites(k)[j].name \in OwnerNames(k)
  BY <1>1 DEF SitesFor
<1> QED BY <1>2, NamesOwned, NamesThere

LEMMA SiteNumbers ==
  ASSUME file \in Files, NEW k \in Owners
  PROVE  Len(Sites(k)) \in Nat /\ DOMAIN Sites(k) = 1..Len(Sites(k))
<1>1. IsSequence(Sites(k))
  BY SitesGiven DEF SitesFor
<1> QED BY <1>1 DEF IsSequence

LEMMA TextsKept ==
  ASSUME TextsOK, UNCHANGED file, Keeps(pool, pool'),
         \A m \in Multinames : pool'.multinames[m].str \in Strings
  PROVE  TextsOK'
  BY DEF TextsOK, Keeps, Strings, Multinames, Old, Now, Invalid

LEMMA ClearKept ==
  ASSUME TextsOK, UNCHANGED file, Keeps(pool, pool'), NEW m, m # 0 => StringOf(m) \in Strings, ClearName(m)
  PROVE  ClearName(m)'
  BY DEF TextsOK, Keeps, Strings, StringOf, ClearName, Now, Invalid

-----------------------------------------------------------------------------
LEMMA InitRead == Init => ReadInv
<1> SUFFICES ASSUME Init PROVE ReadInv
  OBVIOUS
<1>1. /\ file \in Files /\ stage = "start" /\ pool = file.pool /\ next = 1 /\ item = 1
      /\ counters = [f \in Counted |-> 0] /\ cleared = {} /\ scan = Start
  BY DEF Init, NamingInit, PacketInit, DispatchInit
<1>2. TextsOK
  BY <1>1, NamesAssumption DEF TextsOK, Multinames, Strings, Now, Old
<1>3. PlacesOK
  BY <1>1 DEF PlacesOK
<1>4. ScanOK
  BY <1>1, StartFacts DEF ScanOK, Walking
<1> QED BY <1>1, <1>2, <1>3, <1>4 DEF ReadInv, StageOK, NamesClear, Renamed

\* Renamer goes over every name there is.
LEMMA NamingRead ==
  ASSUME ReadInv, PackagesInv, NamesInv, NamesInv', NamingNext, UNCHANGED <<packetVars, handlerVars>>
  PROVE  ReadInv'
<1>0. /\ StageOK /\ TextsOK /\ PlacesOK /\ ScanOK /\ NamesClear /\ file \in Files
      /\ PoolRight
  BY DEF ReadInv, PackagesInv, PoolKept, NamesInv, Beginning, Naming, NamingNext, RenameSymbol,
         NameGame, RenameSite, NextOwner, RenamerDone
<1>1. UNCHANGED <<file, cleared, scan>> /\ stage \in {"symbols", "renamer"}
      /\ stage' \in {"symbols", "renamer", "analysis"}
  BY DEF NamingNext, RenameSymbol, NameGame, RenameSite, NextOwner, RenamerDone, symbolVars,
         packetVars, handlerVars
<1>2. StageOK'
  BY <1>0, <1>1 DEF StageOK
<1>3. ScanOK'
  BY <1>0, <1>1, ScanPlain DEF ScanOK, Walking
<1>4. /\ \A m \in Multinames : pool'.multinames[m].str \in Strings
      /\ WellFormed(pool)
  <2>1. Moves(pool, pool')
    BY NamingPlaces DEF PackagesInv, PoolKept, Placing
  <2> QED BY <1>0, <2>1 DEF Moves, TextsOK, PackagesInv, PoolKept
<1>5. CASE RenameSymbol
  <2>1. UNCHANGED <<next, item>> /\ stage' = "symbols"
    BY <1>5 DEF RenameSymbol
  <2>2. PoolRight' /\ SymbolsRight'
    BY <2>1 DEF NamesInv, Beginning
  <2>3. TextsOK'
    BY <1>1, <1>4, <2>2 DEF TextsOK, PoolRight, SymbolsRight, Strings, Multinames
  <2>4. PlacesOK'
    BY <1>0, <1>1, <2>1, <2>2 DEF PlacesOK, PoolRight, Role
  <2>5. NamesClear'
    BY <2>1 DEF NamesClear, Renamed
  <2> QED BY <1>2, <1>3, <2>3, <2>4, <2>5 DEF ReadInv
<1>6. CASE NameGame
  <2>1. /\ next' = 1 /\ item' = 1 /\ counters' = counters /\ stage' = "renamer"
        /\ pool' = Rename(pool, file.classes[1].name, Game)
    BY <1>6 DEF NameGame
  <2>2. Keeps(pool, pool')
    <3>1. ~Invalid(Game)
      BY WordClear DEF Game, Words
    <3> QED BY <1>4, <2>1, <3>1, RenameKeeps
  <2>3. TextsOK'
    BY <1>0, <1>1, <1>4, <2>2, TextsKept
  <2>4. PlacesOK'
    BY <1>0, <1>1, <2>1 DEF PlacesOK, Role
  <2>5. NamesClear'
    <3>1. ASSUME NEW k \in Owners, NEW j \in DOMAIN Sites(k), k < 1 \/ (k = 1 /\ j < 1) PROVE FALSE
      <4>1. k \in Nat \ {0} /\ j \in Nat \ {0}
        <5>1. Len(Sites(k)) \in Nat /\ DOMAIN Sites(k) = 1..Len(Sites(k))
          BY <1>0, SiteNumbers
        <5> QED BY <1>0, <5>1, OwnerNumbers
      <4> QED BY <3>1, <4>1
    <3>2. Owners' = Owners /\ \A k \in Owners : Sites(k)' = Sites(k)
      BY <1>1 DEF Owners, Sites
    <3> QED BY <2>1, <3>1, <3>2 DEF NamesClear, Renamed
  <2> QED BY <1>2, <1>3, <2>3, <2>4, <2>5 DEF ReadInv
<1>7. CASE RenameSite
  <2> DEFINE site == Sites(next)[item]
             renames == site.name # 0 /\ Invalid(Text(pool, site.name))
             counts == renames /\ site.format \in Formats
             number == IF counts THEN counters[site.format] + 1 ELSE site.number
  <2>1. /\ next \in Owners /\ item \in DOMAIN Sites(next) /\ stage' = "renamer" /\ stage = "renamer"
        /\ next' = next /\ item' = item + 1
        /\ counters' = IF counts THEN [counters EXCEPT ![site.format] = number] ELSE counters
        /\ pool' = IF renames THEN Rename(pool, site.name, <<site.format, number>>) ELSE pool
    BY <1>7 DEF RenameSite
  <2>2. SiteOK(site)
    BY <1>0, <2>1, SiteFacts
  <2>3. site.name # 0 => site.name \in Multinames /\ StringOf(site.name) \in Strings
    BY <1>0, <2>1, SiteFacts
  <2>4. counters \in [Counted -> Nat] /\ item \in Nat \ {0} /\ next \in Nat \ {0}
    BY <1>0 DEF PlacesOK
  <2>5. renames => ~Invalid(<<site.format, number>>)
    <3> SUFFICES ASSUME renames PROVE ~Invalid(<<site.format, number>>)
      OBVIOUS
    <3>1. site.format \in Words
      BY <2>2 DEF SiteOK, Words, Counted
    <3>2. number \in Nat
      <4>1. CASE site.format \in Formats
        <5>1. counters[site.format] \in Nat
          BY <2>4, <4>1 DEF Counted
        <5> QED BY <4>1, <5>1
      <4>2. CASE site.format \notin Formats
        BY <2>2, <4>2 DEF SiteOK
      <4> QED BY <4>1, <4>2
    <3> HIDE DEF number, site
    <3> QED BY <3>1, <3>2, NumberClear
  <2>6. counters' \in [Counted -> Nat]
    <3>1. counts => number \in Nat
      <4> SUFFICES ASSUME counts PROVE number \in Nat
        OBVIOUS
      <4>1. counters[site.format] \in Nat
        BY <2>4 DEF Counted
      <4> QED BY <4>1
    <3> HIDE DEF counts, number
    <3> QED BY <2>1, <2>4, <3>1
  <2>7. Keeps(pool, pool')
    <3> HIDE DEF renames, number, site
    <3> QED BY <1>4, <2>1, <2>5, RenameKeeps, KeepsNot
  <2>8. TextsOK'
    BY <1>0, <1>1, <1>4, <2>7, TextsKept
  <2>9. PlacesOK'
    <3>1. item + 1 \in Nat \ {0}
      BY <2>4
    <3> HIDE DEF counts, number, site
    <3> QED BY <1>0, <1>1, <2>1, <2>6, <3>1 DEF PlacesOK, Role
  <2>10. PICK m : m = site.name
    OBVIOUS
  <2>11. ClearName(m)'
    <3> HIDE DEF number
    <3>1. CASE m = 0
      BY <3>1 DEF ClearName
    <3>2. CASE m # 0 /\ ~renames
      <4>1. Text(pool, m) = Now(StringOf(m))
        BY <1>0, <2>3, <2>10, <3>2 DEF Text, Now, StringOf, PoolRight
      <4>2. ClearName(m)
        BY <2>10, <3>2, <4>1 DEF ClearName
      <4> HIDE DEF site, renames
      <4> QED BY <1>0, <1>1, <2>3, <2>7, <2>10, <4>2, ClearKept
    <3>3. CASE renames
      <4>1. m \in Multinames /\ StringOf(m) \in Strings
        BY <2>3, <2>10, <3>3
      <4>2. PICK s : s = StringOf(m)
        OBVIOUS
      <4>3. pool.multinames[m].str = s /\ s \in DOMAIN pool.strings
        BY <1>0, <4>1, <4>2 DEF PoolRight, StringOf
      <4>4. PICK text : pool' = Rename(pool, m, text) /\ ~Invalid(text)
        BY <2>1, <2>5, <2>10, <3>3
      <4>5. pool'.strings[s] = text
        BY <1>4, <4>3, <4>4 DEF Rename, WellFormed
      <4>6. StringOf(m)' = s
        BY <1>1, <4>2 DEF StringOf
      <4> HIDE DEF site, renames
      <4> QED BY <4>4, <4>5, <4>6 DEF ClearName, Invalid, Now
    <3> QED BY <2>10, <3>1, <3>2, <3>3
  <2>12. NamesClear'
    <3>1. Owners' = Owners /\ \A k \in Owners : Sites(k)' = Sites(k)
      BY <1>1 DEF Owners, Sites
    <3>2. ASSUME NEW k \in Owners, NEW j \in DOMAIN Sites(k), k < next \/ (k = next /\ j < item + 1),
                 NEW n, n = Sites(k)[j].name
          PROVE  ClearName(n)'
      <4>1. j \in Nat
        BY <1>0, SiteNumbers
      <4>2. CASE k = next /\ j = item
        BY <2>10, <2>11, <3>2, <4>2
      <4>3. CASE k < next \/ (k = next /\ j < item)
        <5>1. ClearName(n)
          BY <1>0, <2>1, <3>2, <4>3 DEF NamesClear
        <5>2. n # 0 => StringOf(n) \in Strings
          BY <1>0, <3>2, SiteFacts
        <5> QED BY <1>0, <1>1, <2>7, <5>1, <5>2, ClearKept
      <4> QED BY <2>4, <3>2, <4>1, <4>2, <4>3
    <3> HIDE DEF site, renames, counts, number
    <3>3. ASSUME NEW k \in Owners, NEW j \in DOMAIN Sites(k), k < next \/ (k = next /\ j < item + 1)
          PROVE  ClearName(Sites(k)[j].name)'
      <4>1. PICK n : n = Sites(k)[j].name
        OBVIOUS
      <4>2. ClearName(n)'
        BY <3>2, <3>3, <4>1
      <4>3. (Sites(k)[j].name)' = n
        BY <3>1, <4>1
      <4> QED BY <4>2, <4>3 DEF ClearName, StringOf, Invalid, Now
    <3> QED BY <2>1, <3>1, <3>3 DEF NamesClear, Renamed
  <2> QED BY <1>2, <1>3, <2>8, <2>9, <2>12 DEF ReadInv
<1>8. CASE NextOwner
  <2>1. /\ next \in Owners /\ item \notin DOMAIN Sites(next) /\ stage = "renamer" /\ stage' = "renamer"
        /\ next' = next + 1 /\ item' = 1 /\ UNCHANGED <<pool, counters>>
    BY <1>8 DEF NextOwner
  <2>2. TextsOK'
    BY <1>0, <1>1, <1>4, <2>1, KeepsNot, TextsKept
  <2>3. PlacesOK'
    BY <1>0, <1>1, <2>1 DEF PlacesOK, Role
  <2>4. NamesClear'
    <3>1. Owners' = Owners /\ \A k \in Owners : Sites(k)' = Sites(k)
      BY <1>1 DEF Owners, Sites
    <3>2. ASSUME NEW k \in Owners, NEW j \in DOMAIN Sites(k), k < next + 1 \/ (k = next + 1 /\ j < 1)
          PROVE  ClearName(Sites(k)[j].name)
      <4>1. j \in Nat \ {0} /\ k \in Nat /\ next \in Nat /\ item \in Nat \ {0}
        <5>1. Len(Sites(k)) \in Nat /\ DOMAIN Sites(k) = 1..Len(Sites(k))
          BY <1>0, SiteNumbers
        <5>2. j \in Nat \ {0}
          BY <5>1
        <5> QED BY <1>0, <5>2, OwnerNumbers DEF PlacesOK
      <4>2. k < next \/ k = next
        BY <3>2, <4>1
      <4>3. k = next => j < item
        <5>1. Len(Sites(next)) \in Nat /\ DOMAIN Sites(next) = 1..Len(Sites(next))
          BY <1>0, <2>1, SiteNumbers
        <5> QED BY <2>1, <4>1, <5>1
      <4> QED BY <1>0, <2>1, <4>2, <4>3 DEF NamesClear
    <3>3. \A m : ClearName(m)' = ClearName(m)
      BY <1>1, <2>1 DEF ClearName, StringOf, Now, Invalid
    <3> QED BY <2>1, <3>1, <3>2, <3>3 DEF NamesClear, Renamed
  <2> QED BY <1>2, <1>3, <2>2, <2>3, <2>4 DEF ReadInv
<1>9. CASE RenamerDone
  <2>1. /\ next \notin Owners /\ stage = "renamer" /\ stage' = "analysis"
        /\ next' = 1 /\ UNCHANGED <<pool, counters, item>>
    BY <1>9 DEF RenamerDone, symbolVars
  <2>2. TextsOK'
    BY <1>0, <1>1, <1>4, <2>1, KeepsNot, TextsKept
  <2>3. PlacesOK'
    BY <1>0, <1>1, <2>1 DEF PlacesOK, Role
  <2>4. NamesClear'
    <3>1. ASSUME NEW m \in NamesUsed(file) PROVE ClearName(m)
      <4>1. PICK k \in Owners : m \in OwnerNames(k)
        BY <1>0, NamesOwned
      <4>2. PICK j \in DOMAIN Sites(k) : Sites(k)[j].name = m
        BY <1>0, <4>1, SitesGiven DEF SitesFor
      <4>3. k < next
        BY <1>0, <2>1, OwnerNumbers DEF PlacesOK
      <4> QED BY <1>0, <2>1, <4>2, <4>3 DEF NamesClear
    <3>2. \A m : ClearName(m)' = ClearName(m)
      BY <1>1, <2>1 DEF ClearName, StringOf, Now, Invalid
    <3>3. NamesUsed(file)' = NamesUsed(file)
      BY <1>1
    <3> QED BY <2>1, <3>1, <3>2, <3>3 DEF NamesClear
  <2> QED BY <1>2, <1>3, <2>2, <2>3, <2>4 DEF ReadInv
<1> QED BY <1>5, <1>6, <1>7, <1>8, <1>9 DEF NamingNext

LEMMA ReadRead ==
  ASSUME ReadInv, file \in Files, WellFormed(pool), Read
  PROVE  ReadInv'
<1>1. /\ UNCHANGED <<file, pool, next, item, counters, cleared, scan>>
      /\ stage' = "ended" \/ (stage' = "symbols" /\ file.problem \notin Unread)
      /\ stage' = "ended" => file.problem \in Unread
  BY DEF Read, Stop, Others, packetVars, handlerVars, Unread
<1>2. TextsOK' /\ PlacesOK'
  BY <1>1 DEF ReadInv, TextsOK, PlacesOK, Strings, Multinames, Old, Now, Invalid, Role
<1>3. ScanOK'
  BY <1>1, ScanPlain DEF ReadInv, ScanOK, Walking
<1>4. StageOK' /\ NamesClear'
  BY <1>1 DEF StageOK, NamesClear, Renamed
<1> QED BY <1>2, <1>3, <1>4 DEF ReadInv

\* A step of the later stages, of which the invariant asks that it gives texts
\* that can be read.
LEMMA LaterRead ==
  ASSUME ReadInv, file \in Files, Later, Later', Giving, ScanOK',
         stage = "ended" => stage' = "ended",
         \A m \in Multinames : pool'.multinames[m].str \in Strings
  PROVE  ReadInv'
<1>1. TextsOK'
  BY TextsKept DEF ReadInv, Giving
<1>2. PlacesOK' /\ UNCHANGED file
  BY DEF Giving
<1>3. StageOK'
  BY <1>2 DEF ReadInv, StageOK, Later
<1>4. ASSUME Renamed', NEW m \in NamesUsed(file) PROVE ClearName(m)'
  <2>1. Renamed
    BY <1>2, <1>4 DEF Renamed, Later, Naming
  <2>2. ClearName(m)
    BY <2>1 DEF ReadInv, NamesClear
  <2> QED BY <1>2, <2>2, NamesThere, ClearKept DEF ReadInv, Giving
<1>5. NamesClear'
  <2>1. NamesUsed(file)' = NamesUsed(file)
    BY <1>2
  <2>2. stage' # "renamer"
    BY DEF Later, Naming
  <2> QED BY <1>4, <2>1, <2>2 DEF NamesClear
<1> QED BY <1>1, <1>2, <1>3, <1>5 DEF ReadInv

LEMMA StringsStay ==
  ASSUME TextsOK, PoolKept, Moves(pool, pool')
  PROVE  \A m \in Multinames : pool'.multinames[m].str \in Strings
  BY DEF TextsOK, PoolKept, Moves

\* A property that takes over the string of its key has a string.
LEMMA ProxiedStrings ==
  ASSUME TextsOK, PlacesOK, PoolKept, NameProxied
  PROVE  \A m \in Multinames : pool'.multinames[m].str \in Strings
<1>1. NextGet # Null /\ next \in Nat
  BY DEF NameProxied, PlacesOK
<1>2. ProxyCode[NextKey].arg \in Strings
  BY <1>1, ProxyKeys DEF PoolKept
<1>3. PICK n : pool' \in {pool, [pool EXCEPT !.multinames[n].str = ProxyCode[NextKey].arg]}
  BY DEF NameProxied
<1> DEFINE k == ProxyCode[NextKey].arg
           names == pool.multinames
           to == [names EXCEPT ![n].str = k]
<1> HIDE DEF k
<1>4. CASE pool' = pool
  BY <1>4 DEF TextsOK
<1>5. CASE pool' = [pool EXCEPT !.multinames[n].str = k]
  <2>1. pool' = [strings |-> pool.strings, multinames |-> to, moved |-> pool.moved]
    BY <1>5 DEF PoolKept, WellFormed
  <2>2. \A m \in DOMAIN names : to[m].str \in {names[m].str, k}
    <3>1. names = [m \in DOMAIN names |-> [kind |-> names[m].kind, str |-> names[m].str,
                                           ns |-> names[m].ns]]
      BY DEF PoolKept, WellFormed
    <3>2. \A m \in DOMAIN names :
            names[m] = [kind |-> names[m].kind, str |-> names[m].str, ns |-> names[m].ns]
      BY <3>1
    <3> HIDE DEF names
    <3> QED BY <3>2
  <2> HIDE DEF to
  <2>3. pool'.multinames = to
    BY <2>1
  <2> QED BY <1>2, <2>2, <2>3 DEF TextsOK, PoolKept, k
<1> QED BY <1>3, <1>4, <1>5 DEF k

LEMMA FixSetStrings ==
  ASSUME TextsOK, PoolKept, FixSet
  PROVE  \A m \in Multinames : pool'.multinames[m].str \in Strings
<1>1. PICK n, ns : pool' \in {pool, [pool EXCEPT !.multinames[n].ns = ns]}
  BY DEF FixSet, WithSet
<1> DEFINE names == pool.multinames
           to == [names EXCEPT ![n].ns = ns]
<1>2. CASE pool' = pool
  BY <1>2 DEF TextsOK
<1>3. CASE pool' = [pool EXCEPT !.multinames[n].ns = ns]
  <2>1. pool' = [strings |-> pool.strings, multinames |-> to, moved |-> pool.moved]
    BY <1>3 DEF PoolKept, WellFormed
  <2>2. \A m \in DOMAIN names : to[m].str = names[m].str
    <3>1. names = [m \in DOMAIN names |-> [kind |-> names[m].kind, str |-> names[m].str,
                                           ns |-> names[m].ns]]
      BY DEF PoolKept, WellFormed
    <3>2. \A m \in DOMAIN names :
            names[m] = [kind |-> names[m].kind, str |-> names[m].str, ns |-> names[m].ns]
      BY <3>1
    <3> HIDE DEF names
    <3> QED BY <3>2
  <2> HIDE DEF to
  <2>3. pool'.multinames = to
    BY <2>1
  <2> QED BY <2>2, <2>3 DEF TextsOK, PoolKept
<1> QED BY <1>1, <1>2, <1>3

\* The steps in front of the walk, and past it, end up outside of it.
LEMMA ScanStays ==
  ASSUME ScanOK, UNCHANGED <<file, scan>>, stage' \notin Walking
  PROVE  ScanOK'
  BY ScanPlain DEF ScanOK

LEMMA PacketOutside == ASSUME PacketNext PROVE stage' \notin Walking
<1>1. CASE NameBases \/ NameWriter \/ WritersDone \/ NameReader \/ ReadersDone
  BY <1>1 DEF NameBases, NameWriter, WritersDone, NameReader, ReadersDone, Go, Loop, Leave, Walking
<1>2. CASE NameProxied \/ ProxiedDone \/ NamePacket \/ PacketsDone \/ NameStatic \/ NameWrapper
  BY <1>2 DEF NameProxied, ProxiedDone, NamePacket, PacketsDone, NameStatic, NameWrapper, Loop,
              Leave, Walking
<1> QED BY <1>1, <1>2 DEF PacketNext

LEMMA ReadStep ==
  ASSUME ReadInv, PackagesInv, NamesInv, NamesInv', [Next]_vars
  PROVE  ReadInv'
<1>0. /\ StageOK /\ TextsOK /\ PlacesOK /\ ScanOK /\ NamesClear /\ PoolKept
      /\ file \in Files /\ WellFormed(pool)
  BY DEF ReadInv, PackagesInv, PoolKept
<1>1. CASE Read
  BY <1>0, <1>1, ReadRead
<1>2. CASE NamingNext /\ UNCHANGED <<packetVars, handlerVars, results, mainVars>>
  BY <1>2, NamingRead
<1>3. CASE PacketNext /\ UNCHANGED <<handlerVars, results, mainVars>>
  <2>1. stage \in {"writers", "readers"} => \A m \in Multinames : SameString(m)
    BY DEF PackagesInv, MovedFollowed, Before
  <2>2. Giving
    BY <1>0, <1>3, <2>1, PacketGives
  <2>3. Placing \/ NameProxied
    BY <1>0, <1>3, PacketPlaces
  <2>4. /\ stage # "ended"
        /\ \A m \in Multinames : pool'.multinames[m].str \in Strings
    <3>1. CASE Placing
      BY <1>0, <3>1, StringsStay DEF Placing
    <3>2. CASE NameProxied
      <4>1. stage # "ended"
        BY <3>2 DEF NameProxied
      <4> QED BY <1>0, <3>2, <4>1, ProxiedStrings
    <3> QED BY <2>3, <3>1, <3>2
  <2>5. ScanOK'
    BY <1>0, <1>3, <2>2, PacketOutside, ScanStays DEF handlerVars, Giving
  <2> QED BY <1>0, <1>3, <2>2, <2>4, <2>5, PacketLater, LaterRead
<1>4. CASE DispatchNext /\ UNCHANGED <<named, results, mainVars>>
  <2>1. Giving /\ ScanOK'
    BY <1>0, <1>4, DispatchGives
  <2>2. Placing \/ EnterSets \/ FixSet \/ SetsDone
    BY <1>0, <1>4, DispatchPlaces
  <2>3. /\ stage # "ended"
        /\ \A m \in Multinames : pool'.multinames[m].str \in Strings
    <3>1. CASE Placing
      BY <1>0, <3>1, StringsStay DEF Placing
    <3>2. CASE EnterSets
      BY <1>0, <3>2 DEF EnterSets, TextsOK
    <3>3. CASE FixSet
      <4>1. stage # "ended"
        BY <3>3 DEF FixSet, Loop
      <4> QED BY <1>0, <3>3, <4>1, FixSetStrings
    <3>4. CASE SetsDone
      BY <1>0, <3>4 DEF SetsDone, Leave, TextsOK
    <3> QED BY <2>2, <3>1, <3>2, <3>3, <3>4
  <2> QED BY <1>0, <1>4, <2>1, <2>3, DispatchLater, LaterRead
<1>5. CASE TribulleNext /\ UNCHANGED <<results, mainVars>>
  <2>1. Giving /\ ScanOK'
    BY <1>0, <1>5, TribulleGives
  <2>2. Placing
    BY <1>0, <1>5, TribullePlaces
  <2>3. /\ stage # "ended"
        /\ \A m \in Multinames : pool'.multinames[m].str \in Strings
    BY <1>0, <2>2, StringsStay DEF Placing
  <2> QED BY <1>0, <1>5, <2>1, <2>3, TribulleLater, LaterRead
<1>6. CASE ClassMatchNext /\ UNCHANGED <<handlerVars, mainVars>>
  <2>1. Giving
    BY <1>0, <1>6, MatchGives
  <2>2. Retexting
    BY <1>0, <1>6, MatchRetexts
  <2>3. /\ stage # "ended"
        /\ \A m \in Multinames : pool'.multinames[m].str \in Strings
    BY <1>0, <2>2, StringsStay DEF Retexting
  <2>4. stage' \notin Walking
    BY <1>6 DEF ClassMatchNext, LoadDefinitions, MatchDefinition, MatchingDone, Loop, Leave, Walking
  <2>5. ScanOK'
    BY <1>0, <1>6, <2>2, <2>4, ScanStays DEF handlerVars, Retexting
  <2> QED BY <1>0, <1>6, <2>1, <2>3, <2>5, MatchLater, LaterRead
<1>7. CASE Analyzed \/ Proxy \/ Write
  <2>1. Giving
    BY <1>0, <1>7, MainGives
  <2>2. /\ stage \in {"analysis", "proxy", "write"} /\ stage' \in {"ended", "rename", "write"}
        /\ UNCHANGED <<file, scan>>
    BY <1>7 DEF Analyzed, Proxy, Write, Stop, Others, handlerVars
  <2>3. Later /\ Later' /\ stage' \notin Walking
    BY <2>2 DEF Later, Naming, Walking
  <2>4. \A m \in Multinames : pool'.multinames[m].str \in Strings
    <3>1. CASE Analyzed \/ Proxy
      BY <1>0, <3>1, MainRetexts, StringsStay DEF Retexting
    <3>2. CASE Write
      <4>1. pool' = pool
        BY <3>2 DEF Write, Others
      <4> QED BY <1>0, <4>1 DEF TextsOK
    <3> QED BY <1>7, <3>1, <3>2
  <2>5. ScanOK'
    BY <1>0, <2>2, <2>3, ScanStays
  <2> QED BY <1>0, <2>1, <2>2, <2>3, <2>4, <2>5, LaterRead
<1>8. CASE Ended \/ UNCHANGED vars
  <2>1. UNCHANGED <<file, stage, pool, next, item, counters, cleared, scan>>
    BY <1>8 DEF Ended, vars, packetVars
  <2>2. TextsOK' /\ PlacesOK'
    BY <1>0, <2>1 DEF TextsOK, PlacesOK, Strings, Multinames, Old, Now, Invalid, Role
  <2>3. ScanOK'
    <3>1. Heir(scan.sub)' = Heir(scan.sub)
      BY <2>1, HeirKept
    <3>2. Role("pkt_hdlr")' = Role("pkt_hdlr") /\ (DOMAIN Start)' = DOMAIN Start /\ Null' = Null
      BY <2>1 DEF Role, Start, Null
    <3> QED BY <1>0, <2>1, <3>1, <3>2 DEF ScanOK
  <2>4. StageOK'
    BY <1>0, <2>1 DEF StageOK
  <2>5. NamesClear'
    <3>1. Owners' = Owners /\ (\A k \in Owners : Sites(k)' = Sites(k)) /\ Renamed' = Renamed
      BY <2>1 DEF Owners, Sites, Renamed
    <3>2. \A m : ClearName(m)' = ClearName(m)
      BY <2>1 DEF ClearName, StringOf, Now, Invalid
    <3>3. NamesUsed(file)' = NamesUsed(file)
      BY <2>1
    <3> QED BY <1>0, <2>1, <3>1, <3>2, <3>3 DEF NamesClear
  <2> QED BY <2>2, <2>3, <2>4, <2>5 DEF ReadInv
<1> QED BY <1>1, <1>2, <1>3, <1>4, <1>5, <1>6, <1>7, <1>8 DEF Next

LEMMA ReadInvariant == Spec => []ReadInv
<1>1. Init => ReadInv
  BY InitRead
<1>2. ReadInv /\ PackagesInv /\ NamesInv /\ NamesInv' /\ [Next]_vars => ReadInv'
  BY ReadStep
<1> QED BY <1>1, <1>2, PackagesInvariant, NamesInvariant, PTL DEF Spec

\* Every name of a class, a trait or an exception can be read once Renamer has
\* gone over them all, and whatever the later stages do to the strings.
THEOREM Readable == Spec => []NamesReadable
<1>1. ReadInv /\ PackagesInv => NamesReadable
  <2> SUFFICES ASSUME ReadInv, PackagesInv, Renamed, NEW m \in NamesUsed(file), SameString(m)
               PROVE  ~Invalid(Text(pool, m))
    BY DEF NamesReadable
  <2>1. m # 0 /\ ClearName(m)
    BY NamesThere DEF ReadInv, NamesClear, PackagesInv, PoolKept
  <2>2. Text(pool, m) = Now(StringOf(m))
    BY <2>1 DEF Text, SameString, Now, StringOf
  <2> QED BY <2>1, <2>2 DEF ClearName
<1> QED BY <1>1, ReadInvariant, PackagesInvariant, PTL

-----------------------------------------------------------------------------
(***************************************************************************)
(* Types.                                                                  *)
(***************************************************************************)
AllStages ==
  {"start", "symbols", "renamer", "analysis", "rename", "writers", "readers", "proxied",
   "packets", "statics", "handler", "walk", "codes", "left", "sub", "tribulle", "path",
   "community", "server", "client base", "client", "sets", "classdef", "matching", "proxy",
   "write", "ended", "crashed"}

\* The program has a result once it has ended, and not before.
EndsOK ==
  /\ stage \in AllStages
  /\ exit \in {Running, 0, 1, 2, 3} /\ (exit # Running) = (stage = "ended")

LEMMA PacketStages ==
  ASSUME PacketNext
  PROVE  stage # "ended" /\ stage' \in AllStages \ {"ended"}
<1>1. CASE NameBases
  BY <1>1 DEF NameBases, Go, AllStages
<1>2. CASE NameWriter \/ WritersDone \/ NameReader \/ ReadersDone
  BY <1>2 DEF NameWriter, WritersDone, NameReader, ReadersDone, Loop, Leave, AllStages
<1>3. CASE NameProxied \/ ProxiedDone \/ NamePacket \/ PacketsDone \/ NameStatic \/ NameWrapper
  BY <1>3 DEF NameProxied, ProxiedDone, NamePacket, PacketsDone, NameStatic, NameWrapper, Loop,
              Leave, AllStages
<1> QED BY <1>1, <1>2, <1>3 DEF PacketNext

LEMMA DispatchStages ==
  ASSUME DispatchNext
  PROVE  stage # "ended" /\ stage' \in AllStages \ {"ended"}
<1>1. CASE NameHandler
  BY <1>1 DEF NameHandler, AllStages
<1>2. CASE WalkOn \/ EnterCategory \/ EnterTribulle \/ WalkDone \/ FixSet \/ SetsDone
  BY <1>2 DEF WalkOn, EnterCategory, EnterTribulle, WalkDone, FixSet, SetsDone, Loop,
              Leave, AllStages
<1>3. CASE NameCode
  BY <1>3 DEF NameCode, Resumed, AllStages
<1>4. CASE LeaveCategory
  BY <1>4 DEF LeaveCategory, Resumed, AllStages
<1>5. CASE SubOn
  BY <1>5 DEF SubOn, AllStages
<1>6. CASE SubDone \/ ReadNull
  BY <1>6 DEF SubDone, ReadNull, Resumed, AllStages
<1> QED BY <1>1, <1>2, <1>3, <1>4, <1>5, <1>6 DEF DispatchNext

LEMMA TribulleStages ==
  ASSUME TribulleNext
  PROVE  stage # "ended" /\ stage' \in AllStages \ {"ended"}
<1>1. CASE FindCaller
  BY <1>1 DEF FindCaller, Fail, AllStages
<1>2. CASE FollowPath
  BY <1>2 DEF FollowPath, Fail, AllStages
<1>3. CASE FindMaker
  BY <1>3 DEF FindMaker, Fail, AllStages
<1>4. CASE FindIds \/ ServerDone \/ NameClientBase \/ ClientDone
  BY <1>4 DEF FindIds, ServerDone, NameClientBase, ClientDone, AllStages
<1>5. CASE NameServer
  BY <1>5 DEF NameServer, AllStages
<1>6. CASE NameClient
  BY <1>6 DEF NameClient, AllStages
<1> QED BY <1>1, <1>2, <1>3, <1>4, <1>5, <1>6 DEF TribulleNext

LEMMA EndsStep ==
  ASSUME EndsOK, [Next]_vars
  PROVE  EndsOK'
<1>1. CASE UNCHANGED mainVars /\ stage # "ended" /\ stage' \in AllStages \ {"ended"}
  BY <1>1 DEF EndsOK, mainVars
<1>2. CASE NamingNext /\ UNCHANGED mainVars
  BY <1>1, <1>2 DEF NamingNext, RenameSymbol, NameGame, RenameSite, NextOwner, RenamerDone, AllStages
<1>3. CASE ClassMatchNext /\ UNCHANGED mainVars
  BY <1>1, <1>3 DEF ClassMatchNext, LoadDefinitions, MatchDefinition, MatchingDone, Loop, Leave, AllStages
<1>4. CASE Proxy
  BY <1>1, <1>4 DEF Proxy, AllStages
<1>5. ASSUME exit' \in {0, 1, 2, 3}, stage' = "ended" PROVE EndsOK'
  <2>1. exit' # Running
    BY <1>5 DEF Running
  <2> QED BY <1>5, <2>1 DEF EndsOK, AllStages, Running
<1>6. CASE Read \/ Analyzed \/ Write
  <2>1. stage # "ended"
    BY <1>6 DEF Read, Analyzed, Write
  <2>2. \/ exit' \in {0, 1, 2, 3} /\ stage' = "ended"
        \/ UNCHANGED mainVars /\ stage' \in {"symbols", "rename"}
    <3>1. CASE Read
      BY <3>1 DEF Read, Stop
    <3>2. CASE Analyzed
      BY <3>2 DEF Analyzed, Stop
    <3>3. CASE Write
      BY <3>3 DEF Write, Stop
    <3> QED BY <1>6, <3>1, <3>2, <3>3
  <2> QED BY <1>1, <1>5, <2>1, <2>2 DEF AllStages
<1>7. CASE Ended \/ UNCHANGED vars
  BY <1>7 DEF Ended, vars, EndsOK
<1> QED
  BY <1>1, <1>2, <1>3, <1>4, <1>5, <1>6, <1>7, PacketStages, DispatchStages, TribulleStages DEF Next

\* Every name keeps a string of the file, every stage is one of main()'s, and
\* the program has a result when it has ended and not before.
THEOREM Typing == Spec => []TypeOK
<1>1. Init => EndsOK
  BY DEF Init, EndsOK, AllStages, Running
<1>2. EndsOK /\ [Next]_vars => EndsOK'
  BY EndsStep
<1>3. EndsOK /\ ReadInv /\ PackagesInv => TypeOK
  <2> SUFFICES ASSUME EndsOK, ReadInv, PackagesInv PROVE TypeOK
    OBVIOUS
  <2>1. /\ DOMAIN pool.strings = DOMAIN file.pool.strings
        /\ \A m \in DOMAIN pool.multinames : pool.multinames[m].str \in DOMAIN pool.strings
    BY DEF ReadInv, TextsOK, Strings, PackagesInv, PoolKept
  <2>2. cleared \subseteq DOMAIN file.classes
    <3>1. file.statics \subseteq DOMAIN file.classes
      BY PartsAssumption DEF PackagesInv, PoolKept
    <3>2. Role("wrap_class") # Null => Role("wrap_class") \in DOMAIN file.classes
      BY RoleClass DEF Roles, PackagesInv, PoolKept
    <3> QED BY <3>1, <3>2 DEF ReadInv, PlacesOK
  <2> QED BY <2>1, <2>2 DEF TypeOK, EndsOK, AllStages, ReadInv, PlacesOK
<1> QED BY <1>1, <1>2, <1>3, ReadInvariant, PackagesInvariant, PTL DEF Spec
=============================================================================
