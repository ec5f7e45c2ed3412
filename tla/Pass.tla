-------------------------------- MODULE Pass --------------------------------
(***************************************************************************)
(* What unscramble(method) and simplify_expressions(method) do alike: a    *)
(* cursor goes once over the instruction list of a method and edits it,    *)
(* and the code, its jump offsets and its exception table are written back *)
(* when it has modified something (detfm.cpp, detfm/simplify.cpp).         *)
(*                                                                         *)
(* An instruction has an opcode, its first operand arg (a name, an index   *)
(* into a pool, a number) and argc, the number of arguments it calls with. *)
(* The offsets of a jump are in args, whatever its kind.                   *)
(***************************************************************************)
EXTENDS Rewrite

CONSTANTS Methods,   \* the methods considered: [Ins -> Instruction]
          OpSize     \* Instruction::size() of each opcode

VARIABLES orig,      \* history: the method as parsed
          prog,      \* the instructions, opcodes and operands edited in place
          ins,       \* the cursor; Null once it is past the last instruction
          modified,
          stage,     \* "edit", then "written" or, when unmodified, "left"; a pass
                     \* may have more
          out        \* what was written into the method

passVars == <<orig, prog, ins, modified, stage, out>>

Op(o)  == prog[o].op
Arg(o) == prog[o].arg

JumpOps == {"jump", "iffalse", "iftrue", "ifeq", "lookupswitch"}    \* isJump()

PassInit ==
  /\ ListInit
  /\ orig \in Methods
  /\ \A o \in Ins : args[o] # <<>> <=> orig[o].op \in JumpOps
  /\ prog = orig
  /\ ins = list.begin
  /\ modified = FALSE
  /\ stage = "edit" /\ out = <<>>

AtIns == stage = "edit" /\ ins # Null

-----------------------------------------------------------------------------
(***************************************************************************)
(* Writing.  addr is recomputed for the instructions met from begin on;    *)
(* the OpInfo of a removed one keeps the address it was parsed with.       *)
(***************************************************************************)
\* pos at the instruction x, when those of S are left.
Position(code, S, x) ==
  LET pos[i \in Ins] ==
        IF i = 1 THEN 0
        ELSE IF i - 1 \in S THEN pos[i - 1] + OpSize[code[i - 1].op] ELSE pos[i - 1]
  IN pos[x]

\* Mutant: the sizes are those of the instructions as parsed.
NewAddrOldSizes(code) ==
  LET left == {code[k] : k \in DOMAIN code}
  IN [x \in Ins |-> IF x \in left THEN Position(orig, left, x)
                                       ELSE Position(orig, Ins, x)]

NewAddr(code) ==
  LET left == {code[k] : k \in DOMAIN code}
  IN [x \in Ins |-> IF x \in left THEN Position(prog, left, x)
                                       ELSE Position(orig, Ins, x)]

\* What is written: the instructions left, their offsets, the exception table.
Output ==
  LET code == Walk(list)
      addr == NewAddr(code)
  IN [ code  |-> [k \in DOMAIN code |-> prog[code[k]]],
       jumps |-> [k \in DOMAIN code |->
                    [i \in DOMAIN list.jumpsTo[code[k]] |->
                       addr[list.jumpsTo[code[k]][i]]]],
       exc   |-> [e \in Errs |->
                    [f \in ErrorField |-> addr[list.exc[e][f]]]] ]

WriteBack ==
  /\ stage = "edit" /\ ins = Null /\ modified
  /\ out' = Output
  /\ stage' = "written"
  /\ UNCHANGED <<orig, prog, ins, modified, listVars>>

LeaveAlone ==
  /\ stage = "edit" /\ ins = Null /\ ~modified
  /\ stage' = "left"
  /\ UNCHANGED <<orig, prog, ins, modified, out, listVars>>

-----------------------------------------------------------------------------
\* Every offset written, of a jump or of an exception entry, is the address
\* of the first instruction written at or after the original target, save
\* for the twin targets and the ErrorInfos that Rewrite excludes.
OffsetsWritten ==
  stage = "written" =>
    LET left == Walk(list)
        at(t, a) == \E k \in DOMAIN left :
                      /\ Survivor(kept, t, left[k])
                      /\ a = Position(out.code, DOMAIN left, k)
        target(j, i) == ResolveOffset(j, args[j][i])
    IN /\ \A k \in DOMAIN left : \A i \in DOMAIN args[left[k]] :
            \/ \E h \in 1..(i-1) : Together(kept, target(left[k], h), target(left[k], i))
            \/ at(target(left[k], i), out.jumps[k][i])
       /\ \A e \in Errs \ Dangling : \A f \in ErrorField :
            at(table[e][f], out.exc[e][f])
=============================================================================
