----------------------------- MODULE Unscramble -----------------------------
(***************************************************************************)
(* detfm::unscramble(method) (src/detfm.cpp): a pass that takes the calls  *)
(* of the wrapper class out and puts constants in the place of the members *)
(* of static classes.  Opcodes that unscramble() does not look at are told *)
(* apart by the programs only.                                             *)
(***************************************************************************)
EXTENDS Pass

CONSTANTS WrapName,       \* wrap_class->name()
          WrapMethods,    \* wrap_class->methods, names
          Slots,          \* static_classes: class name -> name -> kind, index
          Consts,         \* static_classes: class name -> name -> double, value
          IntPool,        \* the constant pools before
          DoublePool

ASSUME MethodsAssumption ==
  \A m \in Methods : DOMAIN m = 1..N /\ m[N].op # "getlex"

VARIABLES pending,         \* remove_next_call
          ints, doubles    \* abc->cpool.integers, abc->cpool.doubles

vars == <<pending, ints, doubles, passVars, listVars>>

-----------------------------------------------------------------------------
(***************************************************************************)
(* What the pass recognises: WrapClass::is_wrap, the lambda is_call,       *)
(* StaticClass::is_slot and is_method.                                     *)
(***************************************************************************)
IsWrap(o) == Op(o) \in {"callproperty", "getproperty"} /\ Arg(o) \in WrapMethods
IsCall(o) == Op(o) \in {"call", "getglobalscope"}

\* Mutant: any call is taken for the call of a wrapper.
AnnouncedAlways(o) == IsCall(o)

Announced(o) == pending > 0 /\ IsCall(o)

IsStatic(o) == Op(o) = "getlex" /\ Arg(o) \in DOMAIN Slots
IsSlot(c, o)   == Op(o) = "getproperty" /\ Arg(o) \in DOMAIN Slots[c]
IsMethod(c, o) == Op(o) = "callproperty" /\ Arg(o) \in DOMAIN Consts[c]

\* The constant that takes the place of a slot; a slot of any other kind
\* keeps its getproperty.
SlotLoad(slot, default) ==
  CASE slot.kind = 1  -> [op |-> "pushstring", arg |-> slot.index, argc |-> 0]
    [] slot.kind = 6  -> [op |-> "pushdouble", arg |-> slot.index, argc |-> 0]
    [] slot.kind = 10 -> [op |-> "pushfalse", arg |-> 0, argc |-> 0]
    [] slot.kind = 11 -> [op |-> "pushtrue", arg |-> 0, argc |-> 0]
    [] OTHER -> default

-----------------------------------------------------------------------------
Init ==
  /\ PassInit
  /\ pending = 0
  /\ ints = IntPool /\ doubles = DoublePool

\* callproperty and getproperty of a wrapper.  The getproperty announces a
\* call that goes with it.
DropWrap ==
  /\ AtIns /\ IsWrap(ins)
  /\ RemoveIns(ins)
  /\ pending' = IF Op(ins) = "getproperty" THEN pending + 1 ELSE pending
  /\ modified' = TRUE
  /\ ins' = list.next[ins]
  /\ UNCHANGED <<orig, prog, ints, doubles, stage, out>>

DropCall ==
  /\ AtIns /\ ~IsWrap(ins) /\ Announced(ins)
  /\ pending' = IF Op(ins) = "call" THEN pending - 1 ELSE pending
  /\ RemoveIns(ins)
  /\ ins' = list.next[ins]
  /\ UNCHANGED <<orig, prog, modified, ints, doubles, stage, out>>

\* Mutant: modified is not set.
ResolveSlotUnmarked ==
  LET next == list.next[ins]
      c    == Arg(ins)
  IN /\ AtIns /\ IsStatic(ins) /\ IsSlot(c, next)
     /\ prog' = [prog EXCEPT ![next] = SlotLoad(Slots[c][Arg(next)], prog[next])]
     /\ RemoveIns(ins)
     /\ ins' = list.next[next]
     /\ UNCHANGED <<orig, pending, modified, ints, doubles, stage, out>>

\* The instruction after the getlex becomes the constant, the getlex goes.
ResolveSlot ==
  LET next == list.next[ins]
      c    == Arg(ins)
  IN /\ AtIns /\ IsStatic(ins) /\ IsSlot(c, next)
     /\ prog' = [prog EXCEPT ![next] = SlotLoad(Slots[c][Arg(next)], prog[next])]
     /\ RemoveIns(ins)
     /\ modified' = TRUE
     /\ ins' = list.next[next]
     /\ UNCHANGED <<orig, pending, ints, doubles, stage, out>>

\* Mutant: the size is read after the push_back.
PoolIndexAfter(pool) == Len(pool) + 1

\* Where the value appended next will be.  Indices start at 0.
PoolIndex(pool) == Len(pool)

\* The value is appended to a pool and the instruction refers to it.
ResolveMethod ==
  LET next  == list.next[ins]
      c     == Arg(ins)
      const == Consts[c][Arg(next)]
      load(op, pool) == [op |-> op, arg |-> PoolIndex(pool), argc |-> 0]
  IN /\ AtIns /\ IsStatic(ins) /\ ~IsSlot(c, next) /\ IsMethod(c, next)
     /\ prog' = [prog EXCEPT ![next] = IF const.double THEN load("pushdouble", doubles)
                                       ELSE load("pushint", ints)]
     /\ RemoveIns(ins)
     /\ doubles' = IF const.double THEN Append(doubles, const.value) ELSE doubles
     /\ ints' = IF const.double THEN ints ELSE Append(ints, const.value)
     /\ modified' = TRUE
     /\ ins' = list.next[next]
     /\ UNCHANGED <<orig, pending, stage, out>>

\* Mutant: the loop is continued without moving the cursor.
DropWrapClassAgain ==
  /\ AtIns /\ Op(ins) = "getlex" /\ ~IsStatic(ins) /\ Arg(ins) = WrapName
  /\ RemoveIns(ins)
  /\ modified' = TRUE
  /\ UNCHANGED <<orig, prog, pending, ins, ints, doubles, stage, out>>

DropWrapClass ==
  /\ AtIns /\ Op(ins) = "getlex" /\ ~IsStatic(ins) /\ Arg(ins) = WrapName
  /\ RemoveIns(ins)
  /\ modified' = TRUE
  /\ ins' = list.next[ins]
  /\ UNCHANGED <<orig, prog, pending, ints, doubles, stage, out>>

Skip ==
  /\ AtIns /\ ~IsWrap(ins) /\ ~Announced(ins)
  /\ IsStatic(ins) => LET next == list.next[ins]
                      IN ~IsSlot(Arg(ins), next) /\ ~IsMethod(Arg(ins), next)
  /\ ~(Op(ins) = "getlex" /\ ~IsStatic(ins) /\ Arg(ins) = WrapName)
  /\ ins' = list.next[ins]
  /\ UNCHANGED <<orig, prog, pending, modified, ints, doubles, stage, out, listVars>>

-----------------------------------------------------------------------------
Write == WriteBack /\ UNCHANGED <<pending, ints, doubles>>
Leave == LeaveAlone /\ UNCHANGED <<pending, ints, doubles>>

Next ==
  \/ DropWrap \/ DropCall
  \/ ResolveSlot \/ ResolveMethod \/ DropWrapClass
  \/ Skip
  \/ Write \/ Leave

\* The pass is a loop of one thread.
Spec == Init /\ [][Next]_vars /\ WF_vars(Next)

-----------------------------------------------------------------------------
TypeOK ==
  /\ ListOK
  /\ ins \in Ins \cup {Null}
  /\ pending \in Nat
  /\ modified \in BOOLEAN
  /\ stage \in {"edit", "written", "left"}

\* No edit is lost: DropCall does not set modified, and the method is
\* written again all the same whenever something was taken out of it.
EditsWritten == stage = "left" => kept = Ins /\ prog = orig

\* The pass comes to an end.
Terminates == <>(stage # "edit")
=============================================================================
