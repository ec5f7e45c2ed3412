------------------------- MODULE UnscrambleMeaning --------------------------
(***************************************************************************)
(* unscramble() against the machine that runs its methods: what it writes  *)
(* computes what it read computed.                                         *)
(***************************************************************************)
EXTENDS Unscramble

Machine == INSTANCE Avm2

ASSUME CodeAssumption ==
  /\ \A m \in Methods :
       /\ m = [i \in Ins |-> m[i]]
       /\ \A i \in Ins : m[i].argc \in Nat /\ m[i].op \in DOMAIN OpSize
  /\ {"pushint", "pushdouble", "pushstring", "pushtrue", "pushfalse"} \subseteq DOMAIN OpSize
  /\ \A op \in DOMAIN OpSize : OpSize[op] \in Nat \ {0}

ASSUME ClassesAssumption == DOMAIN Slots = DOMAIN Consts

ASSUME PoolsAssumption == \A pool \in {IntPool, DoublePool} :
  Len(pool) \in Nat /\ pool = [k \in 1..Len(pool) |-> pool[k]]

-----------------------------------------------------------------------------
(***************************************************************************)
(* The methods that unscramble() is made for.  It recognises instructions  *)
(* by opcode and name and never looks at the stack, so that its edits are  *)
(* right for methods whose stack holds, wherever it acts, what it takes    *)
(* for granted.  Shape says of each place of the method what is on the     *)
(* stack there: "kept" stands for any value, the other marks for what the  *)
(* code written does not compute any more.                                 *)
(***************************************************************************)
\* The getlex and the member access that unscramble() resolves together.
PairAt(i) ==
  /\ i < N
  /\ orig[i].op = "getlex" /\ orig[i].arg \in DOMAIN Slots
  /\ \/ orig[i+1].op = "getproperty" /\ orig[i+1].arg \in DOMAIN Slots[orig[i].arg]
     \/ orig[i+1].op = "callproperty" /\ orig[i+1].arg \in DOMAIN Consts[orig[i].arg]

Resolved(i) == i > 1 /\ PairAt(i - 1)

WrapAt(i, op) == orig[i].op = op /\ orig[i].arg \in WrapMethods /\ ~Resolved(i)

WrapClassAt(i) ==
  orig[i].op = "getlex" /\ orig[i].arg \notin DOMAIN Slots /\ orig[i].arg = WrapName

\* open counts the wrappers met whose call is still to come.
CallAt(i, open, op) == orig[i].op = op /\ open > 0

MarkOf(i, open) ==
  CASE PairAt(i)                         -> "static"
    [] WrapClassAt(i)                    -> "class"
    [] WrapAt(i, "getproperty")          -> "wrapper"
    [] CallAt(i, open, "getglobalscope") -> "scope"
    [] OTHER -> "kept"

ShapeAfter(s, i) ==
  [ open  |-> CASE WrapAt(i, "getproperty")    -> s.open + 1
                [] CallAt(i, s.open, "call") -> s.open - 1
                [] OTHER -> s.open,
    marks |-> SubSeq(s.marks, 1, Len(s.marks) - Machine!Takes(orig[i]))
                \o (IF orig[i].op \in Machine!Producers THEN <<MarkOf(i, s.open)>> ELSE <<>>) ]

Shape ==
  LET shape[i \in 1..(N+1)] ==
        IF i = 1 THEN [open |-> 0, marks |-> <<>>] ELSE ShapeAfter(shape[i - 1], i - 1)
  IN shape

\* The instructions that unscramble() removes.
Gone(i) ==
  \/ PairAt(i) \/ WrapClassAt(i)
  \/ \E op \in {"getproperty", "callproperty"} : WrapAt(i, op)
  \/ \E op \in {"call", "getglobalscope"} : CallAt(i, Shape[i].open, op)

\* An instruction that goes finds the operands that make its removal right,
\* one that stays depends on nothing that goes.
OperandsRight(i, s) ==
  LET n   == Len(s.marks) - Machine!Takes(orig[i])
      top == SubSeq(s.marks, n + 1, Len(s.marks))
  IN /\ n >= 0
     /\ CASE Resolved(i)                -> top = <<"static">>
          [] WrapAt(i, "getproperty")   -> top = <<"class">>
          [] WrapAt(i, "callproperty")  -> top = <<"class", "kept">>
          [] CallAt(i, s.open, "call")  -> top = <<"wrapper", "scope", "kept">>
          [] OTHER -> \A j \in DOMAIN top : top[j] = "kept"

\* Every index into a pool is one, and a slot that is resolved has one of the
\* kinds that unscramble() has a constant for.
IndicesRight ==
  /\ \A i \in Ins : /\ orig[i].op = "pushint" => orig[i].arg + 1 \in DOMAIN IntPool
                    /\ orig[i].op = "pushdouble" => orig[i].arg + 1 \in DOMAIN DoublePool
  /\ \A c \in DOMAIN Slots : \A n \in DOMAIN Slots[c] :
       /\ Slots[c][n].kind \in {1, 6, 10, 11}
       /\ Slots[c][n].kind = 6 => Slots[c][n].index + 1 \in DOMAIN DoublePool

\* Control enters with an empty stack, and the targets of a jump stay apart.
EntriesRight ==
  LET empty(t) == Shape[t].marks = <<>>
      target(j, i) == ResolveOffset(j, args[j][i])
  IN /\ \A j \in Ins : \A i \in DOMAIN args[j] :
          /\ empty(target(j, i))
          /\ \A h \in 1..(i-1) :
               ~Together({o \in Ins : ~Gone(o)}, target(j, h), target(j, i))
     /\ \A e \in Errs : empty(table[e]["target"])

WellMade ==
  /\ WrapName \notin DOMAIN Slots
  /\ \A i \in Ins : OperandsRight(i, Shape[i])
  /\ Shape[N+1].marks = <<>> /\ ~Gone(N)
  /\ IndicesRight /\ EntriesRight
  /\ Dangling = {}

-----------------------------------------------------------------------------
PoolsBefore == [ints |-> IntPool, doubles |-> DoublePool]
PoolsAfter  == [ints |-> ints, doubles |-> doubles]

\* The instructions written at an address.
Decoded(a) == {k \in DOMAIN out.code : Position(out.code, DOMAIN out.code, k) = a}

SameFrom(a, t) ==
  \E k \in Decoded(a) :
    Machine!Outcome(out.code, k, PoolsAfter) = Machine!Outcome(orig, t, PoolsBefore)

\* The k-th instruction written is in the range of exception entry e.
Covered(e, k) ==
  LET a == Position(out.code, DOMAIN out.code, k)
  IN out.exc[e]["from"] <= a /\ a < out.exc[e]["to"]

\* From the first instruction, from every target of a jump and from every
\* exception handler on, the code written stores the same values into the
\* locals and leaves the same stack as the code read, and an exception entry
\* covers the instructions it covered before: "removing useless wrapper methods
\* and resolving static slots" changes nothing else.
MeaningKept ==
  stage = "written" =>
    /\ SameFrom(0, 1)
    /\ \A j \in Ins : \A i \in DOMAIN args[j] :
         \E k \in DOMAIN out.jumps :
           /\ Walk(list)[k] = j
           /\ SameFrom(out.jumps[k][i], ResolveOffset(j, args[j][i]))
    /\ \A e \in Errs :
         /\ SameFrom(out.exc[e]["target"], table[e]["target"])
         /\ \A k \in DOMAIN out.code :
              LET o == Walk(list)[k]
              IN Covered(e, k) <=> table[e]["from"] <= o /\ o < table[e]["to"]
=============================================================================
