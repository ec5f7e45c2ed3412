------------------------------- MODULE Stages -------------------------------
(***************************************************************************)
(* main() in src/main.cpp for one file: the stages in their order, each    *)
(* with the ways it can end the program.  What analyze() reports missing,  *)
(* and the classes it found, are given with the file (module Analysis);    *)
(* unscrambling does not touch names (modules Unscramble, WorkerPool).     *)
(***************************************************************************)
EXTENDS Tribulle, ClassMatch

CONSTANTS Addresses    \* texts that proxy2localhost takes for the server's

VARIABLES exit,     \* main()'s result, or Running
          written   \* the pool as it was written, or None

(***************************************************************************)
(* What a file is: the loader and analyze() see to it (OnePart of module   *)
(* Analysis: a class has one part).                                        *)
(***************************************************************************)
\* Names are multinames, their strings are there.
ASSUME NamesAssumption ==
  \A f \in Files :
    /\ NamesUsed(f) \subseteq DOMAIN f.pool.multinames
    /\ \A m \in DOMAIN f.pool.multinames : f.pool.multinames[m].str \in DOMAIN f.pool.strings

\* What code calls is a name of the file, or has one that can be read: it is
\* the player's.
ASSUME CodeAssumption ==
  \A f \in Files :
    LET string(m) == f.pool.multinames[m].str
    IN \A m \in Range(f.methods) :
         /\ IsSequence(m.code)
         /\ \A i \in Range(m.code) :
              /\ i.op = "pushdouble" => i.arg \in Int
              /\ i.op \in {"callproperty", "callpropvoid"} =>
                   /\ i.arg \in DOMAIN f.pool.multinames
                   /\ \/ \E n \in NamesUsed(f) : string(n) = string(i.arg)
                      \/ ~Invalid(f.pool.strings[string(i.arg)])

Roles == BaseRoles \cup {"varint_reader", "interface_proxy", "wrap_class", "pkt_hdlr"}
Handles(f, t) ==
  t.kind = "Method" /\ f.methods[t.index].big /\ f.methods[t.index].params = <<f.byteArray>>

\* A message handler has the method it was found by, and the classes that have
\* a trait of that name have a method.
ASSUME PartsAssumption ==
  \A f \in Files :
    /\ \A c \in Range(f.classes) :
         /\ c.iinit \in DOMAIN f.methods
         /\ \A t \in Range(c.ctraits) \cup Range(c.itraits) :
              t.kind = "Method" => t.index \in DOMAIN f.methods
    /\ \A r \in Roles : f.roles[r] # Null => f.roles[r] \in DOMAIN f.classes
    /\ f.statics \subseteq DOMAIN f.classes
    /\ f.roles.pkt_hdlr # Null =>
         /\ f.roles.pkt_hdlr \notin f.statics \cup {f.roles.wrap_class}
         /\ \E t \in Range(f.classes[f.roles.pkt_hdlr].ctraits) : Handles(f, t)
         /\ \A t \in Range(f.classes[f.roles.pkt_hdlr].ctraits), c \in Range(f.classes) :
              Handles(f, t) =>
                \A u \in Range(c.ctraits) : u.name = t.name => u.kind = "Method"
    /\ f.roles.interface_proxy # Null =>
         \A i \in Range(f.methods[f.classes[f.roles.interface_proxy].iinit].code) :
           i.op = "pushstring" => i.arg \in DOMAIN f.pool.strings

\* The names that definitions give can be read.
ASSUME DefinitionsAssumption ==
  \A f \in Files : \A d \in Range(f.definitions) :
    /\ IsSequence(d.traits)
    /\ d.action \notin Unreadable /\ \A t \in Range(d.traits) : t.action \notin Unreadable

Running == -1

vars == <<file, stage, pool, symbols, todo, next, item, counters, packetVars, scan, named,
          results, exit, written>>
mainVars == <<exit, written>>
handlerVars == <<scan, named>>

Init ==
  /\ file \in Files
  /\ stage = "start" /\ exit = Running /\ written = None
  /\ NamingInit /\ PacketInit /\ DispatchInit /\ TribulleInit
  /\ results = <<>>

\* Mutant: without the return.
StopLater(code) == exit' = code /\ UNCHANGED <<stage, written>>

Others == UNCHANGED <<file, pool, symbols, todo, next, item, counters, packetVars, handlerVars, results>>
Stop(code) == exit' = code /\ stage' = "ended" /\ UNCHANGED written

\* Wrong arguments, a file that cannot be read, one without frame1.
Read ==
  /\ stage = "start"
  /\ CASE file.problem = "arguments" -> Stop(1)
       [] file.problem \in {"input", "frame1"} -> Stop(2)
       [] OTHER -> stage' = "symbols" /\ UNCHANGED mainVars
  /\ Others

\* unscramble() comes before rename().
Analyzed ==
  /\ stage = "analysis"
  /\ IF file.missings # {} /\ ~file.ignoreMissing THEN Stop(3)
     ELSE stage' = "rename" /\ UNCHANGED mainVars
  /\ Others

\* proxy2localhost(): the first string that looks like addresses.
Proxy ==
  /\ stage = "proxy" /\ stage' = "write"
  /\ LET i == First(pool.strings, 1, LAMBDA t : t \in Addresses)
     IN pool' = IF file.proxy /\ i # Null
                THEN [pool EXCEPT !.strings[i] = Fixed("127.0.0.1")] ELSE pool
  /\ UNCHANGED <<file, symbols, todo, next, item, counters, packetVars, handlerVars, results, mainVars>>

\* Standard output may not be there to be written to.
Write ==
  /\ stage = "write"
  /\ IF file.problem = "output" THEN Stop(2)
     ELSE written' = pool /\ exit' = 0 /\ stage' = "ended"
  /\ Others

Ended == stage \in {"ended", "crashed"} /\ UNCHANGED vars

Next ==
  \/ Read
  \/ NamingNext /\ UNCHANGED <<packetVars, handlerVars, results, mainVars>>
  \/ Analyzed
  \/ PacketNext /\ UNCHANGED <<handlerVars, results, mainVars>>
  \/ DispatchNext /\ UNCHANGED <<named, results, mainVars>>
  \/ TribulleNext /\ UNCHANGED <<results, mainVars>>
  \/ ClassMatchNext /\ UNCHANGED <<handlerVars, mainVars>>
  \/ Proxy \/ Write
  \/ Ended

Spec == Init /\ [][Next]_vars

-----------------------------------------------------------------------------
(***************************************************************************)
(* Properties.                                                             *)
(***************************************************************************)
TypeOK ==
  /\ stage \in {"start", "symbols", "renamer", "analysis", "rename", "writers", "readers",
                "proxied", "packets", "statics", "handler", "walk", "codes", "left", "sub",
                "tribulle", "path", "community", "server", "client base", "client", "sets", "classdef",
                "matching", "proxy", "write", "ended", "crashed"}
  /\ exit \in {Running, 0, 1, 2, 3} /\ (exit # Running) = (stage = "ended")
  /\ DOMAIN pool.strings = DOMAIN file.pool.strings
  /\ \A m \in DOMAIN pool.multinames : pool.multinames[m].str \in DOMAIN pool.strings
  /\ next \in Nat \ {0} /\ cleared \subseteq DOMAIN file.classes

\* What a multiname found in the file it finds in the one written, whatever
\* packages the classes were moved to, as long as the key of the interface
\* proxy is not its name now.  Multinames with other kinds are not moved.
StillReachable ==
  written # None =>
    \A u, d \in DOMAIN file.pool.multinames :
      /\ Finds(file.pool, u, d) /\ SameString(u) /\ SameString(d)
      /\ file.pool.multinames[u].kind \in QNameKinds \cup {"Multiname"}
      /\ file.pool.multinames[d].kind \in QNameKinds
      => Finds(written, u, d)
=============================================================================
