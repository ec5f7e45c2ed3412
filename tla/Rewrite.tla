------------------------------ MODULE Rewrite -------------------------------
(***************************************************************************)
(* The life of one method's instruction list under any sequence of         *)
(* OpInfo::remove calls on instructions that are still in it: what         *)
(* unscramble() and simplify_expressions() have in common.                 *)
(***************************************************************************)
EXTENDS OpInfo

CONSTANTS JumpTables,   \* offsets of the jumps of each instruction, per method
          ErrorTables   \* exception tables of the methods considered

ASSUME JumpTablesAssumption ==
  \A a \in JumpTables :
    /\ a \in [Ins -> Seq(0..N)]
    /\ \A i \in DOMAIN a[N] : a[N][i] \in Ins

ASSUME ErrorTablesAssumption == ErrorTables \subseteq [Errs -> [ErrorField -> Ins]]

VARIABLES args,    \* offsets the method's jumps were parsed with
          table,   \* exception table the method was parsed with
          list,    \* the list being edited
          kept     \* history: the instructions not removed so far

listVars == <<args, table, list, kept>>

ListInit ==
  /\ args \in JumpTables
  /\ table \in ErrorTables
  /\ list = Register(args, table)
  /\ kept = Ins

RemoveIns(o) ==
  /\ list' = Remove(list, o)
  /\ kept' = IF Removed(list, o) THEN kept ELSE kept \ {o}
  /\ UNCHANGED <<args, table>>

ListNext == \E o \in kept : RemoveIns(o)

ListSpec == ListInit /\ [][ListNext]_listVars

-----------------------------------------------------------------------------
ListType ==
  [ begin     : Ins,
    next      : [Ins -> 0..N],
    prev      : [Ins -> 0..N],
    opnext    : [Ins -> 0..N],
    jumpsTo   : [Ins -> Seq(Ins)],
    jumpsHere : [Ins -> SUBSET Ins],
    exc       : [Errs -> [ErrorField -> Ins]],
    errors    : [Ins -> SUBSET (ErrorField \X Errs)] ]

\* Every field keeps its type: no removal makes a pointer null that the
\* code goes on to dereference.
ListOK ==
  /\ args \in JumpTables
  /\ table \in ErrorTables
  /\ list \in ListType
  /\ kept \subseteq Ins

\* Both chains and their back pointers agree on the instructions left, in
\* the order of the method, whatever was removed before (OpInfo::remove
\* keeps Instruction::next/prev, OpInfo::next and Parser::begin by hand).
Chained ==
  /\ N \in kept
  /\ Survivor(kept, 1, list.begin)
  /\ \A o \in kept :
       /\ o = N => list.next[o] = Null
       /\ o # N => Survivor(kept, o + 1, list.next[o])
       /\ list.opnext[o] = list.next[o]
       /\ \/ list.prev[o] = Null /\ \A m \in kept : o <= m
          \/ /\ list.prev[o] \in kept
             /\ list.prev[o] < o
             /\ \A m \in kept : m < o => m <= list.prev[o]

\* An instruction that is left knows every jump that leads to it, however
\* many removed instructions handed theirs on to it, and a jump that leads to
\* an instruction left leads to the right one.
JumpsKnown ==
  \A j \in Ins : \A i \in DOMAIN list.jumpsTo[j] :
    list.jumpsTo[j][i] \in kept =>
      /\ j \in list.jumpsHere[list.jumpsTo[j][i]]
      /\ Survivor(kept, ResolveOffset(j, args[j][i]), list.jumpsTo[j][i])

\* A jump leads to the first instruction left at or after its original
\* target.  Of several targets of one jump that have come together this is
\* promised for the first only: remove() stops at the first match.
JumpsFollow ==
  \A j \in Ins :
    /\ DOMAIN list.jumpsTo[j] = DOMAIN args[j]
    /\ \A i \in DOMAIN args[j] :
         (\A k \in 1..(i-1) : ~Together(kept, ResolveOffset(j, args[j][k]),
                                              ResolveOffset(j, args[j][i])))
         => Survivor(kept, ResolveOffset(j, args[j][i]), list.jumpsTo[j][i])

\* The bounds and the handler of a try block move to the first instruction
\* left at or after them, for the entries whose ErrorInfo stayed where the
\* OpInfos point.
ErrorsFollow ==
  \A e \in Errs \ Dangling : \A f \in ErrorField :
    /\ Survivor(kept, table[e][f], list.exc[e][f])
    /\ \A o \in kept : <<f, e>> \in list.errors[o] <=> o = list.exc[e][f]

-----------------------------------------------------------------------------
(***************************************************************************)
(* The list implements a sequence of instructions.                         *)
(***************************************************************************)
\* The instructions met by following next from begin.
Walk(L) ==
  LET from[o \in 0..N] == IF o = Null THEN <<>> ELSE <<o>> \o from[L.next[o]]
  IN from[L.begin]

FirstTarget(L) ==
  LET jumps == {j \in Ins : L.jumpsTo[j] # <<>>}
  IN [j \in jumps |-> L.jumpsTo[j][1]]

Edit == INSTANCE CodeEdit WITH code <- Walk(list), dest <- FirstTarget(list)

\* Every removal takes one instruction out of the walked code and sends the
\* jumps that led to it to its successor.
Implements == Edit!Spec
=============================================================================
