------------------------------ MODULE Renaming ------------------------------
(***************************************************************************)
(* The first names of a run: the symbols and the Game class                *)
(* (src/main.cpp), then everything unreadable (Renamer in                  *)
(* src/renamer.cpp).                                                       *)
(*                                                                         *)
(* The formats are the ones of Fmt: a text in front of a number.           *)
(***************************************************************************)
EXTENDS Pool, SequencesExt, FiniteSets

CONSTANTS Files,        \* the files considered
          Unreadable    \* parts of texts with a character that is not printed

\* A file has a pool, its classes, methods and what these hold are sequences,
\* its characters have names of their own, and its multinames have one; what
\* is made up can be read.
IsSequence(s) == s \in Seq(Range(s))
ASSUME FilesAssumption ==
  \A f \in Files :
    /\ f.pool = [strings |-> f.pool.strings, multinames |-> f.pool.multinames,
                 moved |-> f.pool.moved]
    /\ \A s, t \in DOMAIN f.symbols : f.symbols[s] = f.symbols[t] => s = t
    /\ IsSequence(f.classes) /\ IsSequence(f.methods)
    /\ \A c \in Range(f.classes) : IsSequence(c.ctraits) /\ IsSequence(c.itraits)
    /\ \A m \in Range(f.methods) : IsSequence(m.traits) /\ IsSequence(m.exceptions)
ASSUME MultinamesAssumption ==
  \A f \in Files :
    /\ IsSequence(f.pool.multinames)
    /\ \A m \in Range(f.pool.multinames) :
         m = [kind |-> m.kind, str |-> m.str, ns |-> m.ns] /\ m.str # 0

VARIABLES file,      \* as it was read
          stage,     \* how far main() is
          pool,      \* strings, multinames, moved
          symbols,   \* the name of each character
          todo,      \* the symbols not looked at so far
          next,      \* the position of the loop that runs
          item,      \* the position of the loop in it
          counters   \* how many names each format has given

symbolVars == <<symbols, todo, item>>

Text0(m) == Text(file.pool, m)
Invalid(text) == text[1] \in Unreadable \/ text[2] \in Unreadable

Formats == {"class_", "const_", "method_", "function_", "name_"}
Counted == Formats \cup {"ClassSymbol_", "CPacket_u", "readVarInt"}

\* What the program makes up, here and in the later stages, can be read: its
\* words, the numbers and the pairs of bytes it adds to them.
Words ==
  Counted \cup
  {"", "Game", "error", "SPacketBase", "pcode", "CPacketBase", "pcode0", "pcode1", "buffer",
   "VarIntReader", "readBoolean", "InterfaceProxy", "SPacket", "$StaticClass_", "$WrapperClass",
   "instance", "PacketHandler", "handle_packet", "CPacket", "PacketSubHandler_", "getPacketId",
   "TSPacket_", "TCPacketBase", "TCPacket_", "127.0.0.1"}
ASSUME UnreadableAssumption == Unreadable \cap (Words \cup Nat \cup (Nat \X Nat)) = {}

NamingInit ==
  /\ pool = file.pool /\ symbols = file.symbols
  /\ todo = DOMAIN file.symbols /\ next = 1 /\ item = 1
  /\ counters = [f \in Counted |-> 0]

-----------------------------------------------------------------------------
\* "$" and what follows the first underscore, unless that is unreadable too.
SymbolName(old) ==
  LET name == <<"$", old[2]>>
  IN IF Invalid(name) THEN <<"ClassSymbol_", counters["ClassSymbol_"]>> ELSE name

\* Mutant: the strings keep the old name.
RenameSymbolAlone ==
  /\ stage = "symbols"
  /\ \E s \in todo :
       LET old == symbols[s]
           new == IF Invalid(old) THEN SymbolName(old) ELSE old
       IN /\ symbols' = [symbols EXCEPT ![s] = new]
          /\ counters' = IF new[1] = "ClassSymbol_" /\ Invalid(old)
                         THEN [counters EXCEPT !["ClassSymbol_"] = @ + 1] ELSE counters
          /\ todo' = todo \ {s}
  /\ UNCHANGED <<file, stage, next, item, pool>>

\* Every string of that text changes with the symbol.
RenameSymbol ==
  /\ stage = "symbols"
  /\ \E s \in todo :
       LET old == symbols[s]
           new == IF Invalid(old) THEN SymbolName(old) ELSE old
       IN /\ symbols' = [symbols EXCEPT ![s] = new]
          /\ pool' = [pool EXCEPT !.strings =
                        [i \in DOMAIN @ |-> IF @[i] = old THEN new ELSE @[i]]]
          /\ counters' = IF new[1] = "ClassSymbol_" /\ Invalid(old)
                         THEN [counters EXCEPT !["ClassSymbol_"] = @ + 1] ELSE counters
          /\ todo' = todo \ {s}
  /\ UNCHANGED <<file, stage, next, item>>

Fixed(text) == <<"", text>>
Game == Fixed("Game")

NameGame ==
  /\ stage = "symbols" /\ todo = {}
  /\ symbols' = Extended(symbols, 0, Game)
  /\ pool' = Rename(pool, file.classes[1].name, Game)
  /\ stage' = "renamer" /\ next' = 1 /\ item' = 1
  /\ UNCHANGED <<file, todo, counters>>

-----------------------------------------------------------------------------
(***************************************************************************)
(* Renamer::rename() goes over the classes and then the methods, and in    *)
(* each over the names it has: a multiname, and the format or the text it  *)
(* is given.                                                               *)
(***************************************************************************)
Site(m, format) == [name |-> m, format |-> format, number |-> -1]

TraitFormat(kind) ==
  CASE kind = "Const"    -> "const_"
    [] kind = "Method"   -> "method_"
    [] kind = "Function" -> "function_"
    [] OTHER -> "name_"
TraitSites(traits) ==
  [i \in DOMAIN traits |-> Site(traits[i].name, TraitFormat(traits[i].kind))]

\* Mutant: without the class it extends, which may be no class of the file.
ClassSitesOwn(c) ==
  <<Site(c.name, "class_")>> \o TraitSites(c.ctraits) \o TraitSites(c.itraits)

ClassSites(c) ==
  <<Site(c.name, "class_"), Site(c.super, "class_")>>
    \o TraitSites(c.ctraits) \o TraitSites(c.itraits)

\* The exceptions are numbered within their method, a single one is not.
ErrorSites(errors) ==
  [i \in DOMAIN errors |->
     [name |-> errors[i], format |-> "error",
      number |-> IF Len(errors) = 1 THEN 0 ELSE i]]
MethodSites(m) == ErrorSites(m.exceptions) \o TraitSites(m.traits)

Owners == 1..(Len(file.classes) + Len(file.methods))
Sites(k) ==
  IF k <= Len(file.classes) THEN ClassSites(file.classes[k])
  ELSE MethodSites(file.methods[k - Len(file.classes)])

\* Mutant: the count stays.
RenameSiteAgain ==
  /\ stage = "renamer" /\ next \in Owners /\ item \in DOMAIN Sites(next)
  /\ LET site == Sites(next)[item]
         renames == site.name # 0 /\ Invalid(Text(pool, site.name))
         number == IF site.format \in Formats THEN counters[site.format] + 1 ELSE site.number
     IN pool' = IF renames THEN Rename(pool, site.name, <<site.format, number>>) ELSE pool
  /\ item' = item + 1
  /\ UNCHANGED <<file, stage, next, symbols, todo, counters>>

RenameSite ==
  /\ stage = "renamer" /\ next \in Owners /\ item \in DOMAIN Sites(next)
  /\ LET site == Sites(next)[item]
         renames == site.name # 0 /\ Invalid(Text(pool, site.name))
         counts == renames /\ site.format \in Formats
         number == IF counts THEN counters[site.format] + 1 ELSE site.number
     IN /\ counters' = IF counts THEN [counters EXCEPT ![site.format] = number]
                       ELSE counters
        /\ pool' = IF renames THEN Rename(pool, site.name, <<site.format, number>>)
                   ELSE pool
  /\ item' = item + 1
  /\ UNCHANGED <<file, stage, next, symbols, todo>>

NextOwner ==
  /\ stage = "renamer" /\ next \in Owners /\ item \notin DOMAIN Sites(next)
  /\ next' = next + 1 /\ item' = 1
  /\ UNCHANGED <<file, stage, pool, symbols, todo, counters>>

RenamerDone ==
  /\ stage = "renamer" /\ next \notin Owners
  /\ stage' = "analysis" /\ next' = 1
  /\ UNCHANGED <<file, pool, symbolVars, counters>>

NamingNext == RenameSymbol \/ NameGame \/ RenameSite \/ NextOwner \/ RenamerDone

-----------------------------------------------------------------------------
(***************************************************************************)
(* Properties.                                                             *)
(***************************************************************************)
Naming == stage \in {"symbols", "renamer"}

\* The interface proxy gives a multiname the string of its key instead.
SameString(m) == pool.multinames[m].str = file.pool.multinames[m].str

NamesIn(traits) == {t.name : t \in Range(traits)}
NamesUsed(f) ==
  LET classes == {{c.name, c.super} \cup NamesIn(c.ctraits) \cup NamesIn(c.itraits) :
                    c \in Range(f.classes)}
      methods == {NamesIn(m.traits) \cup Range(m.exceptions) : m \in Range(f.methods)}
  IN (UNION (classes \cup methods)) \ {0}

\* A file main() did not get to read has the names it had.
Unread == {"arguments", "input", "frame1"}
Renamed == stage \notin {"start", "symbols", "renamer"} /\ file.problem \notin Unread

\* Once Renamer is done, and to the end of the run, every name of a class, a
\* trait or an exception can be read, whatever strings they share and
\* whatever names the later stages give.
NamesReadable ==
  Renamed =>
    \A m \in NamesUsed(file) : SameString(m) => ~Invalid(Text(pool, m))

\* A symbol and the class it stands for keep the same name, by which the
\* loader finds the class, whatever Renamer does to the names after.
LinkKept ==
  Naming =>
    \A s \in DOMAIN file.symbols \ {0}, i \in DOMAIN file.pool.strings :
      /\ file.pool.strings[i] = file.symbols[s]
      /\ i # file.pool.multinames[file.classes[1].name].str
      => pool.strings[i] = symbols[s]

\* The texts that two names may come to share.
Shared(text) ==
  \/ text \in Range(file.pool.strings) \/ text[1] = "error"
  \/ /\ text[1] = "$"
     /\ \E s, t \in DOMAIN file.symbols : s # t /\ file.symbols[s][2] = file.symbols[t][2]
                                       /\ file.symbols[s][2] = text[2]

\* Two strings that differ get different names, but for the names of
\* exceptions, the symbols that differ in front of the underscore alone, and
\* texts the file already has.
StillDistinct ==
  Naming =>
    \A i, j \in DOMAIN pool.strings :
      /\ file.pool.strings[i] # file.pool.strings[j]
      /\ pool.strings[i] = pool.strings[j]
      => Shared(pool.strings[i])
=============================================================================
