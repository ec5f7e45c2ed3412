-------------------------------- MODULE Pool --------------------------------
(***************************************************************************)
(* The part of the constant pool that names are made of, and what          *)
(* src/detfm.cpp does to it.  A text is a pair: what comes up to the first *)
(* underscore, and what comes after it.  A multiname has its string and    *)
(* the set of its namespaces; a QName has one.  moved is ns_class_map.     *)
(***************************************************************************)
EXTENDS Integers, Sequences

QNameKinds == {"QName", "QNameA"}

Text(pool, m) == pool.strings[pool.multinames[m].str]

\* rename() of a class or of a trait, in the library: the string changes in
\* place, for all that share it.
Rename(pool, m, text) ==
  [pool EXCEPT !.strings[pool.multinames[m].str] = text]

\* One rename after the other, of pairs of a multiname and a text: of those
\* that share a string the last one counts.
RenameAll(pool, renames) ==
  LET of(i) == {k \in DOMAIN renames : pool.multinames[renames[k][1]].str = i}
  IN [pool EXCEPT !.strings =
        [i \in DOMAIN @ |->
           IF of(i) = {} THEN @[i]
           ELSE renames[CHOOSE k \in of(i) : \A j \in of(i) : j <= k][2]]]

Extended(f, x, y) == [z \in DOMAIN f \cup {x} |-> IF z = x THEN y ELSE f[z]]

\* set_class_ns(); the packages of create_package() are namespaces of their own.
Place(pool, m, package) ==
  LET name == pool.multinames[m]
  IN IF name.kind \notin QNameKinds THEN pool
     ELSE [pool EXCEPT !.multinames[m].ns = {package},
                       !.moved = IF name.str = 0 THEN @
                                 ELSE Extended(@, name.str, package)]

\* Mutant: Multinames, which have a set of namespaces, are not looked at.
WithSetQNames(pool, m) ==
  LET name == pool.multinames[m]
  IN IF name.kind \in QNameKinds /\ name.str \in DOMAIN pool.moved
     THEN [pool EXCEPT !.multinames[m].ns = {pool.moved[name.str]}]
     ELSE pool

\* One turn of create_missing_sets().
WithSet(pool, m) ==
  LET name == pool.multinames[m]
  IN IF name.kind \in QNameKinds \cup {"Multiname"} /\ name.str \in DOMAIN pool.moved
     THEN [pool EXCEPT !.multinames[m].ns = {pool.moved[name.str]}]
     ELSE pool

\* On the AVM2, multiname u finds what multiname d defines.
Finds(pool, u, d) ==
  /\ pool.multinames[u].str = pool.multinames[d].str
  /\ pool.multinames[u].ns \cap pool.multinames[d].ns # {}
=============================================================================
