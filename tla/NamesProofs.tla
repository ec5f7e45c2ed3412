----------------------------- MODULE NamesProofs -----------------------------
(***************************************************************************)
(* Proofs about the names main() gives, for every file.                    *)
(*                                                                         *)
(* Packages (create_package, set_class_ns and create_missing_sets in       *)
(* src/detfm.cpp): what found a name before finds it still in the file     *)
(* that is written.  Up to create_missing_sets() a multiname is moved only *)
(* together with its string (Moves), so that whatever shares the string    *)
(* is found in moved; create_missing_sets() moves those too (FixSetKeeps), *)
(* and after it only strings change.                                       *)
(*                                                                         *)
(* The first names: that a symbol and its class stay linked, and that      *)
(* names stay distinct.  Both need to know what has been replaced so far:  *)
(* an unreadable text is replaced once, by one that can be read            *)
(* (SymbolsRight), and every new text says where it is from, a symbol or a *)
(* count (Origins).                                                        *)
(***************************************************************************)
EXTENDS Stages, TLAPS, SequenceTheorems

Multinames == DOMAIN file.pool.multinames
Before == {"start", "symbols", "renamer", "analysis", "rename", "writers", "readers"}
Late   == {"classdef", "matching", "proxy", "write"}

WellFormed(p) ==
  /\ p = [strings |-> p.strings, multinames |-> p.multinames, moved |-> p.moved]
  /\ p.multinames = [m \in DOMAIN p.multinames |->
                       [kind |-> p.multinames[m].kind, str |-> p.multinames[m].str,
                        ns |-> p.multinames[m].ns]]

\* Pool q is p with other texts, and with some multinames in another package,
\* each of them together with its string.
Moves(p, q) ==
  /\ WellFormed(q)
  /\ DOMAIN q.multinames = DOMAIN p.multinames
  /\ DOMAIN p.moved \subseteq DOMAIN q.moved
  /\ \A m \in DOMAIN p.multinames :
       /\ q.multinames[m].kind = p.multinames[m].kind
       /\ q.multinames[m].str = p.multinames[m].str
       /\ q.multinames[m].ns # p.multinames[m].ns =>
            p.multinames[m].str = 0 \/ p.multinames[m].str \in DOMAIN q.moved

-----------------------------------------------------------------------------
LEMMA MovesNot == ASSUME NEW p, WellFormed(p) PROVE Moves(p, p)
  BY DEF Moves

LEMMA MovesOn ==
  ASSUME NEW p, NEW q, NEW r, Moves(p, q), Moves(q, r)
  PROVE  Moves(p, r)
  BY DEF Moves

\* Other texts.
LEMMA Retexts ==
  ASSUME NEW p, WellFormed(p), NEW s
  PROVE  LET q == [p EXCEPT !.strings = s]
         IN Moves(p, q) /\ q.multinames = p.multinames /\ q.moved = p.moved
<1> DEFINE q == [p EXCEPT !.strings = s]
<1>1. q = [strings |-> s, multinames |-> p.multinames, moved |-> p.moved]
  BY DEF WellFormed
<1>2. q.multinames = p.multinames /\ q.moved = p.moved /\ q.strings = s
  BY <1>1
<1>3. WellFormed(q)
  BY <1>1, <1>2 DEF WellFormed
<1> QED BY <1>2, <1>3 DEF Moves

LEMMA RenameRetexts ==
  ASSUME NEW p, WellFormed(p), NEW m, NEW text
  PROVE  Moves(p, Rename(p, m, text))
<1>1. Rename(p, m, text) = [p EXCEPT !.strings = [p.strings EXCEPT ![p.multinames[m].str] = text]]
  BY DEF Rename, WellFormed
<1> QED BY <1>1, Retexts

LEMMA RenameAllRetexts ==
  ASSUME NEW p, WellFormed(p), NEW renames
  PROVE  /\ Moves(p, RenameAll(p, renames))
         /\ RenameAll(p, renames).multinames = p.multinames
         /\ RenameAll(p, renames).moved = p.moved
<1>1. PICK s : RenameAll(p, renames) = [p EXCEPT !.strings = s]
  BY DEF RenameAll, WellFormed
<1> QED BY <1>1, Retexts

\* A multiname in another package.
LEMMA PlaceMoves ==
  ASSUME NEW p, WellFormed(p), NEW m, NEW package
  PROVE  Moves(p, Place(p, m, package))
<1> DEFINE names == p.multinames
           to == [names EXCEPT ![m].ns = {package}]
           moved == IF names[m].str = 0 THEN p.moved ELSE Extended(p.moved, names[m].str, package)
           q == [strings |-> p.strings, multinames |-> to, moved |-> moved]
<1>1. CASE names[m].kind \notin QNameKinds
  BY <1>1, MovesNot DEF Place
<1>2. CASE names[m].kind \in QNameKinds
  <2>1. Place(p, m, package) = q
    BY <1>2 DEF Place, WellFormed
  <2>2. /\ DOMAIN to = DOMAIN names
        /\ \A k \in DOMAIN names :
             to[k] = [kind |-> names[k].kind, str |-> names[k].str,
                      ns |-> IF k = m THEN {package} ELSE names[k].ns]
    BY DEF WellFormed
  <2>3. \A k \in DOMAIN names :
          /\ to[k].kind = names[k].kind /\ to[k].str = names[k].str
          /\ to[k].ns # names[k].ns => k = m
    BY <2>2
  <2>4. DOMAIN p.moved \subseteq DOMAIN moved /\ (names[m].str # 0 => names[m].str \in DOMAIN moved)
    BY DEF Extended
  <2>5. to = [k \in DOMAIN to |-> [kind |-> to[k].kind, str |-> to[k].str, ns |-> to[k].ns]]
    <3>1. \A k \in DOMAIN to : to[k] = [kind |-> to[k].kind, str |-> to[k].str, ns |-> to[k].ns]
      BY <2>2
    <3>2. to = [k \in DOMAIN to |-> to[k]]
      OBVIOUS
    <3> HIDE DEF to
    <3> QED BY <3>1, <3>2
  <2> HIDE DEF to, moved
  <2>6. WellFormed(q)
    BY <2>5 DEF WellFormed
  <2>7. q.multinames = to /\ q.moved = moved
    OBVIOUS
  <2> HIDE DEF q
  <2>8. \A k \in DOMAIN names :
          /\ q.multinames[k].kind = names[k].kind /\ q.multinames[k].str = names[k].str
          /\ q.multinames[k].ns # names[k].ns => k = m
    BY <2>3, <2>7
  <2> QED BY <2>1, <2>2, <2>4, <2>6, <2>7, <2>8 DEF Moves
<1> QED BY <1>1, <1>2

LEMMA KnownMoves ==
  ASSUME NEW p, WellFormed(p), NEW c, NEW text, NEW package
  PROVE  Moves(p, Known(p, c, text, package))
<1> DEFINE r == Rename(p, Name(c), text)
<1>1. Moves(p, r)
  BY RenameRetexts
<1>2. WellFormed(r)
  BY <1>1 DEF Moves
<1>3. Moves(r, Place(r, Name(c), package))
  BY <1>2, PlaceMoves
<1> HIDE DEF r
<1>4. Moves(p, Place(r, Name(c), package))
  BY <1>1, <1>3, MovesOn
<1> QED BY <1>4 DEF Known, r

LEMMA BaseMoves ==
  ASSUME NEW p, WellFormed(p), NEW role, NEW text, NEW first, NEW texts
  PROVE  Moves(p, Base(p, role, text, first, texts))
<1> DEFINE k == Known(p, Role(role), Fixed(text), "packets")
<1>1. Moves(p, k)
  BY KnownMoves
<1>2. WellFormed(k)
  BY <1>1 DEF Moves
<1> HIDE DEF k
<1>3. PICK renames : Base(p, role, text, first, texts)
                       = IF Role(role) = Null THEN p ELSE RenameAll(k, renames)
  BY DEF Base, k
<1>4. Moves(k, RenameAll(k, renames))
  BY <1>2, RenameAllRetexts
<1> QED BY <1>1, <1>3, <1>4, MovesOn, MovesNot

LEMMA ClientboundMoves ==
  ASSUME WellFormed(pool), NEW c, NEW category, NEW code
  PROVE  Moves(pool, Clientbound(c, category, code))
  BY KnownMoves, MovesNot DEF Clientbound

-----------------------------------------------------------------------------
(***************************************************************************)
(* Every step before create_missing_sets() moves multinames so, but for    *)
(* the ones of the interface proxy, which give a multiname another string. *)
(***************************************************************************)
Placing ==
  /\ UNCHANGED file /\ Moves(pool, pool')
  /\ stage # "ended" /\ stage' \notin Late \cup {"sets", "ended"}
  /\ stage' \in Before \cup {"proxied"} => stage \in Before
  /\ stage' = "handler" => next' = 1

LEMMA NamingPlaces == ASSUME NamingNext, WellFormed(pool) PROVE Placing
<1>1. CASE RenameSymbol
  <2>1. PICK s : pool' = [pool EXCEPT !.strings = s]
    BY <1>1 DEF RenameSymbol, WellFormed
  <2> QED BY <1>1, <2>1, Retexts DEF RenameSymbol, Placing, Before, Late
<1>2. CASE NameGame
  BY <1>2, RenameRetexts DEF NameGame, Placing, Before, Late
<1>3. CASE RenameSite
  <2>1. Moves(pool, pool')
    BY <1>3, RenameRetexts, MovesNot DEF RenameSite
  <2> QED BY <1>3, <2>1 DEF RenameSite, Placing, Before, Late
<1>4. CASE NextOwner
  BY <1>4, MovesNot DEF NextOwner, Placing, Before, Late
<1>5. CASE RenamerDone
  BY <1>5, MovesNot DEF RenamerDone, Placing, Before, Late
<1> QED BY <1>1, <1>2, <1>3, <1>4, <1>5 DEF NamingNext

LEMMA PacketPlaces == ASSUME PacketNext, WellFormed(pool) PROVE Placing \/ NameProxied
<1>1. CASE NameBases
  <2>1. Moves(pool, pool')
    <3> DEFINE b == Base(pool, "base_spkt", "SPacketBase", 3, <<"pcode">>)
               q == Base(b, "base_cpkt", "CPacketBase", 1, <<"pcode0", "pcode1", "buffer">>)
               r == Base(q, "varint_reader", "VarIntReader", 1, <<"buffer">>)
    <3>1. Moves(pool, b)
      BY BaseMoves
    <3>2. WellFormed(b)
      BY <3>1 DEF Moves
    <3>3. Moves(b, q)
      BY <3>2, BaseMoves
    <3>4. WellFormed(q)
      BY <3>3 DEF Moves
    <3>5. Moves(q, r)
      BY <3>4, BaseMoves
    <3>6. pool' = pool \/ pool' = r
      BY <1>1 DEF NameBases
    <3> HIDE DEF b, q, r
    <3>7. Moves(pool, r)
      BY <3>1, <3>3, <3>5, MovesOn
    <3> QED BY <3>6, <3>7, MovesNot
  <2> QED BY <1>1, <2>1 DEF NameBases, Go, Same, Rest, Placing, Before, Late
<1>2. CASE NameWriter
  <2>1. Moves(pool, pool')
    BY <1>2, RenameRetexts, MovesNot DEF NameWriter
  <2> QED BY <1>2, <2>1 DEF NameWriter, Loop, Same, Rest, Placing, Before, Late
<1>3. CASE WritersDone
  BY <1>3, MovesNot DEF WritersDone, Leave, Same, Rest, Placing, Before, Late
<1>4. CASE NameReader
  <2>1. Moves(pool, pool')
    BY <1>4, RenameRetexts, MovesNot DEF NameReader, Titled
  <2> QED BY <1>4, <2>1 DEF NameReader, Loop, Rest, Placing, Before, Late
<1>5. CASE ReadersDone
  <2>1. Moves(pool, pool')
    BY <1>5, RenameRetexts, MovesNot DEF ReadersDone, Titled
  <2> QED BY <1>5, <2>1 DEF ReadersDone, Leave, Same, Rest, Placing, Before, Late
<1>6. CASE ProxiedDone
  BY <1>6, MovesNot DEF ProxiedDone, Placing, Before, Late
<1>7. CASE NamePacket
  <2>1. Moves(pool, pool')
    BY <1>7, KnownMoves, MovesNot DEF NamePacket
  <2> QED BY <1>7, <2>1 DEF NamePacket, Loop, Rest, Placing, Before, Late
<1>8. CASE PacketsDone
  BY <1>8, MovesNot DEF PacketsDone, Leave, Same, Rest, Placing, Before, Late
<1>9. CASE NameStatic
  <2>1. Moves(pool, pool')
    BY <1>9, KnownMoves DEF NameStatic
  <2> QED BY <1>9, <2>1 DEF NameStatic, Placing, Before, Late
<1>10. CASE NameWrapper
  <2> DEFINE k == Known(pool, Role("wrap_class"), Fixed("$WrapperClass"), "com.obfuscate")
  <2>1. Moves(pool, k) /\ WellFormed(k)
    BY KnownMoves DEF Moves
  <2>2. PICK i : pool' \in {pool, k, Titled(k, file.classes[1].ctraits[i].name, "instance")}
    BY <1>10 DEF NameWrapper
  <2> HIDE DEF k
  <2>3. Moves(k, Titled(k, file.classes[1].ctraits[i].name, "instance"))
    BY <2>1, RenameRetexts DEF Titled
  <2>4. Moves(pool, pool')
    BY <2>1, <2>2, <2>3, MovesOn, MovesNot
  <2> QED BY <1>10, <2>4 DEF NameWrapper, Placing, Before, Late
<1> QED
  BY <1>1, <1>2, <1>3, <1>4, <1>5, <1>6, <1>7, <1>8, <1>9, <1>10 DEF PacketNext

EnterSets ==
  /\ UNCHANGED <<file, pool>> /\ stage' = "sets"
  /\ stage \in {"handler", "walk"} /\ next' = IF stage = "handler" THEN next ELSE 1

LEMMA DispatchPlaces ==
  ASSUME DispatchNext, WellFormed(pool)
  PROVE  Placing \/ EnterSets \/ FixSet \/ SetsDone
<1>1. CASE NameHandler
  <2> DEFINE k == Known(pool, Role("pkt_hdlr"), Fixed("PacketHandler"), "packets")
  <2>1. Moves(pool, k) /\ WellFormed(k)
    BY KnownMoves DEF Moves
  <2>2. pool' = pool \/ pool' = Titled(k, Handle.name, "handle_packet")
    BY <1>1 DEF NameHandler
  <2> HIDE DEF k
  <2>3. Moves(k, Titled(k, Handle.name, "handle_packet"))
    BY <2>1, RenameRetexts DEF Titled
  <2>4. Moves(pool, pool')
    BY <2>1, <2>2, <2>3, MovesOn, MovesNot
  <2> QED BY <1>1, <2>4 DEF NameHandler, Walk, Same, Rest, Placing, EnterSets, Before, Late
<1>2. CASE WalkOn
  <2>1. Moves(pool, pool')
    BY <1>2, MovesNot DEF WalkOn
  <2> QED BY <1>2, <2>1 DEF WalkOn, Walk, Same, Rest, Placing, Before, Late
<1>3. CASE EnterCategory
  <2>1. Moves(pool, pool')
    BY <1>3, MovesNot DEF EnterCategory
  <2> QED BY <1>3, <2>1 DEF EnterCategory, Walk, Same, Rest, Placing, Before, Late
<1>4. CASE NameCode
  <2>1. Moves(pool, pool')
    BY <1>4, ClientboundMoves, MovesNot DEF NameCode
  <2> QED BY <1>4, <2>1 DEF NameCode, Resumed, Walk, Same, Rest, Placing, Before, Late
<1>5. CASE EnterTribulle
  <2>1. Moves(pool, pool')
    BY <1>5, MovesNot DEF EnterTribulle
  <2> QED BY <1>5, <2>1 DEF EnterTribulle, Walk, Same, Rest, Placing, Before, Late
<1>6. CASE LeaveCategory
  <2>1. Moves(pool, pool')
    BY <1>6, KnownMoves, MovesNot DEF LeaveCategory
  <2> QED BY <1>6, <2>1 DEF LeaveCategory, Resumed, Walk, Same, Rest, Placing, Before, Late
<1>7. CASE SubOn
  <2>1. Moves(pool, pool')
    BY <1>7, ClientboundMoves, MovesNot DEF SubOn
  <2> QED BY <1>7, <2>1 DEF SubOn, Walk, Same, Rest, Placing, Before, Late
<1>8. CASE SubDone
  <2>1. Moves(pool, pool')
    BY <1>8, MovesNot DEF SubDone
  <2> QED BY <1>8, <2>1 DEF SubDone, Resumed, Walk, Same, Rest, Placing, Before, Late
<1>9. CASE WalkDone
  BY <1>9 DEF WalkDone, Same, Rest, EnterSets
<1>10. CASE ReadNull
  <2>1. Moves(pool, pool')
    BY <1>10, MovesNot DEF ReadNull
  <2> QED BY <1>10, <2>1 DEF ReadNull, Walk, Same, Rest, Placing, Before, Late
<1> QED BY <1>1, <1>2, <1>3, <1>4, <1>5, <1>6, <1>7, <1>8, <1>9, <1>10 DEF DispatchNext

LEMMA TribullePlaces == ASSUME TribulleNext, WellFormed(pool) PROVE Placing
<1>1. CASE FindCaller
  <2>1. Moves(pool, pool')
    BY <1>1, MovesNot DEF FindCaller, Unnamed
  <2> QED BY <1>1, <2>1 DEF FindCaller, Fail, Unnamed, Walk, Same, Rest, Placing, Before, Late
<1>2. CASE FollowPath
  <2>1. Moves(pool, pool')
    BY <1>2, MovesNot DEF FollowPath, Unnamed
  <2> QED BY <1>2, <2>1 DEF FollowPath, Fail, Unnamed, Walk, Same, Rest, Placing, Before, Late
<1>3. CASE FindMaker
  <2>1. Moves(pool, pool')
    BY <1>3, MovesNot DEF FindMaker, Unnamed
  <2> QED BY <1>3, <2>1 DEF FindMaker, Fail, Unnamed, Walk, Same, Rest, Placing, Before, Late
<1>4. CASE FindIds
  <2>1. Moves(pool, pool')
    BY <1>4, RenameRetexts, MovesNot DEF FindIds, Titled
  <2> QED BY <1>4, <2>1 DEF FindIds, Walk, Same, Rest, Placing, Before, Late
<1>5. CASE NameServer
  <2>1. Moves(pool, pool')
    BY <1>5, KnownMoves, MovesNot DEF NameServer
  <2> QED BY <1>5, <2>1 DEF NameServer, Walk, Same, Rest, Placing, Before, Late
<1>6. CASE ServerDone
  <2>1. Moves(pool, pool')
    BY <1>6, MovesNot DEF ServerDone
  <2> QED BY <1>6, <2>1 DEF ServerDone, Walk, Same, Rest, Placing, Before, Late
<1>7. CASE NameClientBase
  <2>1. Moves(pool, pool')
    BY <1>7, KnownMoves, MovesNot DEF NameClientBase
  <2> QED BY <1>7, <2>1 DEF NameClientBase, Walk, Same, Rest, Placing, Before, Late
<1>8. CASE NameClient
  <2> DEFINE i == scan.subIns
             at == OpAt(Method.code, i, "findpropstrict")
             c == FindClass(Method.code[at].arg)
             k == Known(pool, c, <<"TCPacket_", Id(Method.code[i].arg)>>,
                        "packets.tribulle.clientbound")
  <2>1. \/ pool' = pool /\ stage' \in {stage, "crashed"}
        \/ pool' = k /\ stage' = stage
    <3>1. CASE Method.code[i].op # "pushdouble"
      BY <1>8, <3>1 DEF NameClient
    <3>2. CASE Method.code[i].op = "pushdouble" /\ at = Null
      BY <1>8, <3>2 DEF NameClient
    <3>3. CASE Method.code[i].op = "pushdouble" /\ at # Null
      BY <1>8, <3>3 DEF NameClient
    <3> QED BY <3>1, <3>2, <3>3
  <2>2. stage = "client" /\ UNCHANGED file
    BY <1>8 DEF NameClient, Walk, Same, Rest
  <2>3. Moves(pool, k)
    BY KnownMoves
  <2> HIDE DEF k
  <2> QED BY <2>1, <2>2, <2>3, MovesNot DEF Placing, Before, Late
<1>9. CASE ClientDone
  <2>1. Moves(pool, pool')
    BY <1>9, MovesNot DEF ClientDone
  <2> QED BY <1>9, <2>1 DEF ClientDone, Walk, Same, Rest, Placing, Before, Late
<1> QED BY <1>1, <1>2, <1>3, <1>4, <1>5, <1>6, <1>7, <1>8, <1>9 DEF TribulleNext

\* The steps after it, and those that end the program, only change strings.
Retexting ==
  /\ UNCHANGED file /\ Moves(pool, pool')
  /\ pool'.multinames = pool.multinames /\ pool'.moved = pool.moved
  /\ stage \notin {"sets", "ended"} /\ stage' \notin {"sets", "handler"}
  /\ stage' \in Before \cup {"proxied"} => stage \in Before
  /\ stage' \in Late => stage \in Late

LEMMA MatchRetexts == ASSUME ClassMatchNext, WellFormed(pool) PROVE Retexting
<1>1. CASE LoadDefinitions
  BY <1>1, MovesNot DEF LoadDefinitions, Same, Rest, Retexting, Before, Late
<1>2. CASE MatchDefinition
  <2>1. pool' = pool \/ \E d, c : pool' = Executed(d, c)
    BY <1>2 DEF MatchDefinition
  <2>2. /\ Moves(pool, pool')
        /\ pool'.multinames = pool.multinames /\ pool'.moved = pool.moved
    <3>1. CASE pool' = pool
      BY <3>1, MovesNot
    <3>2. CASE \E d, c : pool' = Executed(d, c)
      <4>1. PICK renames : pool' = RenameAll(pool, renames)
        BY <3>2 DEF Executed
      <4>2. /\ Moves(pool, RenameAll(pool, renames))
            /\ RenameAll(pool, renames).multinames = pool.multinames
            /\ RenameAll(pool, renames).moved = pool.moved
        BY RenameAllRetexts, Zenon
      <4> QED BY <4>1, <4>2, Zenon
    <3> QED BY <2>1, <3>1, <3>2
  <2> QED BY <1>2, <2>2 DEF MatchDefinition, Loop, Same, Rest, Retexting, Before, Late
<1>3. CASE MatchingDone
  BY <1>3, MovesNot DEF MatchingDone, Leave, Same, Rest, Retexting, Before, Late
<1> QED BY <1>1, <1>2, <1>3 DEF ClassMatchNext

LEMMA MainRetexts == ASSUME Read \/ Analyzed \/ Proxy, WellFormed(pool) PROVE Retexting
<1>1. CASE Read
  BY <1>1, MovesNot DEF Read, Stop, Others, Retexting, Before, Late
<1>2. CASE Analyzed
  BY <1>2, MovesNot DEF Analyzed, Stop, Others, Retexting, Before, Late
<1>3. CASE Proxy
  <2>1. pool' = pool \/ \E s : pool' = [pool EXCEPT !.strings = s]
    BY <1>3 DEF Proxy, WellFormed
  <2>2. /\ Moves(pool, pool')
        /\ pool'.multinames = pool.multinames /\ pool'.moved = pool.moved
    <3>1. CASE pool' = pool
      BY <3>1, MovesNot
    <3>2. CASE \E s : pool' = [pool EXCEPT !.strings = s]
      BY <3>2, Retexts
    <3> QED BY <2>1, <3>1, <3>2
  <2> QED BY <1>3, <2>2 DEF Proxy, Retexting, Before, Late
<1> QED BY <1>1, <1>2, <1>3

-----------------------------------------------------------------------------
(***************************************************************************)
(* The invariant.                                                          *)
(***************************************************************************)
Changed(m)  == pool.multinames[m].ns # file.pool.multinames[m].ns
Followed(m) == file.pool.multinames[m].str \in DOMAIN pool.moved
Settled(m) ==
  LET name == pool.multinames[m]
  IN name.kind \in QNameKinds \cup {"Multiname"} /\ name.str \in DOMAIN pool.moved =>
       name.ns = {pool.moved[name.str]}

PoolKept ==
  /\ file \in Files /\ WellFormed(pool) /\ DOMAIN pool.multinames = Multinames
  /\ \A m \in Multinames : pool.multinames[m].kind = file.pool.multinames[m].kind

\* The strings are the file's up to the interface proxy, so that whatever has
\* moved is followed; after it, what still has its string.
MovedFollowed ==
  /\ stage \in Before => \A m \in Multinames : SameString(m)
  /\ stage \in Before \cup {"proxied"} => \A m \in Multinames : Changed(m) => Followed(m)
  /\ \A m \in Multinames : SameString(m) /\ Changed(m) => Followed(m)

SetsFixed ==
  /\ stage = "handler" => next = 1
  /\ stage = "sets" => next \in Nat \ {0} /\ \A m \in Multinames : m < next => Settled(m)
  /\ stage \in Late \/ written # None => \A m \in Multinames : Settled(m)
  /\ written # None => stage = "ended" /\ written = pool

PackagesInv == PoolKept /\ MovedFollowed /\ SetsFixed

LEMMA FileNames ==
  ASSUME file \in Files
  PROVE  /\ WellFormed(file.pool)
         /\ Len(file.pool.multinames) \in Nat /\ Multinames = 1..Len(file.pool.multinames)
         /\ \A m \in Multinames : file.pool.multinames[m].str # 0
<1> DEFINE names == file.pool.multinames
<1>1. names \in Seq(Range(names))
  BY MultinamesAssumption DEF IsSequence
<1>2. Len(names) \in Nat /\ DOMAIN names = 1..Len(names) /\ names = [m \in 1..Len(names) |-> names[m]]
  BY <1>1
<1>3. \A m \in DOMAIN names : names[m] \in Range(names)
  BY DEF Range
<1>4. \A m \in DOMAIN names :
        /\ names[m] = [kind |-> names[m].kind, str |-> names[m].str, ns |-> names[m].ns]
        /\ names[m].str # 0
  BY <1>3, MultinamesAssumption
<1>5. file.pool = [strings |-> file.pool.strings, multinames |-> names, moved |-> file.pool.moved]
  BY FilesAssumption
<1> HIDE DEF names
<1>6. names = [m \in DOMAIN names |-> [kind |-> names[m].kind, str |-> names[m].str, ns |-> names[m].ns]]
  BY <1>2, <1>4
<1>7. WellFormed(file.pool)
  BY <1>5, <1>6 DEF WellFormed, names
<1> QED BY <1>2, <1>4, <1>7 DEF names, Multinames

LEMMA InitPackages == Init => PackagesInv
<1> SUFFICES ASSUME Init PROVE PackagesInv
  OBVIOUS
<1>1. file \in Files /\ stage = "start" /\ pool = file.pool /\ written = None
  BY DEF Init, NamingInit
<1>2. PoolKept
  BY <1>1, FileNames DEF PoolKept
<1>3. MovedFollowed
  BY <1>1 DEF MovedFollowed, SameString, Changed
<1>4. SetsFixed
  BY <1>1 DEF SetsFixed, Late
<1> QED BY <1>2, <1>3, <1>4 DEF PackagesInv

LEMMA MovesKeep ==
  ASSUME PoolKept, MovedFollowed, Moves(pool, pool'), UNCHANGED file,
         stage' \in Before \cup {"proxied"} => stage \in Before
  PROVE  PoolKept' /\ MovedFollowed'
<1>1. PoolKept'
  BY DEF PoolKept, Moves, Multinames
<1>2. \A m \in Multinames : SameString(m)' = SameString(m)
  BY DEF SameString, PoolKept, Moves
<1>3. \A m \in Multinames : Followed(m) => Followed(m)'
  BY DEF Followed, Moves
<1>4. \A m \in Multinames : SameString(m) /\ Changed(m)' => Followed(m)'
  <2> SUFFICES ASSUME NEW m \in Multinames, SameString(m), Changed(m)' PROVE Followed(m)'
    OBVIOUS
  <2>1. CASE Changed(m)
    BY <1>3, <2>1 DEF MovedFollowed
  <2>2. CASE ~Changed(m)
    <3>1. pool'.multinames[m].ns # pool.multinames[m].ns
      BY <2>2 DEF Changed
    <3>2. pool.multinames[m].str \in DOMAIN pool'.moved \/ pool.multinames[m].str = 0
      BY <3>1 DEF Moves, PoolKept
    <3>3. pool.multinames[m].str # 0
      BY FileNames DEF PoolKept, SameString
    <3> QED BY <3>2, <3>3 DEF SameString, Followed
  <2> QED BY <2>1, <2>2
<1>5. MovedFollowed'
  BY <1>2, <1>4 DEF MovedFollowed, Multinames
<1> QED BY <1>1, <1>5

LEMMA PlacingKeeps ==
  ASSUME PackagesInv, Placing, UNCHANGED written
  PROVE  PackagesInv'
<1>1. PoolKept' /\ MovedFollowed'
  BY MovesKeep DEF PackagesInv, Placing
<1>2. SetsFixed'
  BY DEF PackagesInv, SetsFixed, Placing
<1> QED BY <1>1, <1>2 DEF PackagesInv

LEMMA RetextingKeeps ==
  ASSUME PackagesInv, Retexting, UNCHANGED written
  PROVE  PackagesInv'
<1>1. PoolKept' /\ MovedFollowed'
  BY MovesKeep DEF PackagesInv, Retexting
<1>2. \A m \in Multinames : Settled(m)' = Settled(m)
  BY DEF Settled, Retexting
<1>3. SetsFixed'
  BY <1>2 DEF PackagesInv, SetsFixed, Retexting, Multinames
<1> QED BY <1>1, <1>3 DEF PackagesInv

\* A property takes over the string of its key.
LEMMA ProxiedKeeps ==
  ASSUME PackagesInv, NameProxied, UNCHANGED written
  PROVE  PackagesInv'
<1> DEFINE names == pool.multinames
<1>1. UNCHANGED file /\ stage = "proxied" /\ stage' = "proxied"
  BY DEF NameProxied, Same, Rest
<1>2. PICK m, k : pool' \in {pool, [pool EXCEPT !.multinames[m].str = k]}
  BY DEF NameProxied
<1>3. /\ WellFormed(pool') /\ pool'.moved = pool.moved /\ DOMAIN pool'.multinames = DOMAIN names
      /\ \A j \in DOMAIN names :
           pool'.multinames[j].kind = names[j].kind /\ pool'.multinames[j].ns = names[j].ns
  <2>1. CASE pool' = pool
    BY <2>1 DEF PackagesInv, PoolKept
  <2>2. CASE pool' = [pool EXCEPT !.multinames[m].str = k]
    <3> DEFINE to == [names EXCEPT ![m].str = k]
    <3>1. pool' = [strings |-> pool.strings, multinames |-> to, moved |-> pool.moved]
      BY <2>2 DEF PackagesInv, PoolKept, WellFormed
    <3>2. /\ DOMAIN to = DOMAIN names
          /\ \A j \in DOMAIN names :
               to[j] = [kind |-> names[j].kind, str |-> IF j = m THEN k ELSE names[j].str,
                        ns |-> names[j].ns]
      BY DEF PackagesInv, PoolKept, WellFormed
    <3>3. \A j \in DOMAIN names : to[j].kind = names[j].kind /\ to[j].ns = names[j].ns
      BY <3>2
    <3>4. \A j \in DOMAIN to : to[j] = [kind |-> to[j].kind, str |-> to[j].str, ns |-> to[j].ns]
      BY <3>2
    <3>5. to = [j \in DOMAIN to |-> to[j]]
      OBVIOUS
    <3> HIDE DEF to
    <3>6. to = [j \in DOMAIN to |-> [kind |-> to[j].kind, str |-> to[j].str, ns |-> to[j].ns]]
      BY <3>4, <3>5
    <3>7. pool'.multinames = to /\ pool'.moved = pool.moved /\ pool'.strings = pool.strings
      BY <3>1
    <3>8. WellFormed(pool')
      BY <3>1, <3>6, <3>7 DEF WellFormed
    <3> QED BY <3>2, <3>3, <3>7, <3>8
  <2> QED BY <1>2, <2>1, <2>2
<1>4. PoolKept'
  BY <1>1, <1>3 DEF PackagesInv, PoolKept, Multinames
<1>5. \A j \in Multinames : Changed(j)' = Changed(j) /\ Followed(j)' = Followed(j)
  BY <1>1, <1>3 DEF Changed, Followed, PackagesInv, PoolKept
<1>6. MovedFollowed'
  BY <1>1, <1>5 DEF PackagesInv, MovedFollowed, Before, Multinames
<1>7. SetsFixed'
  BY <1>1 DEF PackagesInv, SetsFixed, Late
<1> QED BY <1>4, <1>6, <1>7 DEF PackagesInv

LEMMA EnterSetsKeeps ==
  ASSUME PackagesInv, EnterSets, UNCHANGED written
  PROVE  PackagesInv'
<1>1. PoolKept' /\ MovedFollowed'
  BY DEF PackagesInv, EnterSets, PoolKept, MovedFollowed, Before, SameString, Changed, Followed, Multinames
<1>2. next' = 1 /\ written = None /\ stage' = "sets"
  BY DEF PackagesInv, EnterSets, SetsFixed
<1>3. \A m \in Multinames' : ~(m < 1)
  BY <1>1, FileNames DEF PackagesInv, PoolKept, EnterSets
<1>4. SetsFixed'
  BY <1>2, <1>3 DEF SetsFixed, Late
<1> QED BY <1>1, <1>4 DEF PackagesInv

\* One turn of create_missing_sets(): the multiname goes where its string went.
LEMMA FixSetKeeps ==
  ASSUME PackagesInv, FixSet, UNCHANGED written
  PROVE  PackagesInv'
<1> DEFINE names == pool.multinames
           n == next
           fixes == /\ names[n].kind \in QNameKinds \cup {"Multiname"}
                    /\ names[n].str \in DOMAIN pool.moved
           ns == {pool.moved[names[n].str]}
           to == [names EXCEPT ![n].ns = ns]
<1>1. /\ UNCHANGED file /\ stage = "sets" /\ stage' = "sets" /\ next' = n + 1
      /\ n \in Multinames /\ n \in Nat /\ written = None
  BY DEF FixSet, Loop, Same, Rest, PackagesInv, PoolKept, SetsFixed
<1>2. pool' = IF fixes THEN [pool EXCEPT !.multinames[n].ns = ns] ELSE pool
  BY DEF FixSet, WithSet
<1>3. /\ WellFormed(pool') /\ pool'.moved = pool.moved /\ DOMAIN pool'.multinames = DOMAIN names
      /\ \A m \in DOMAIN names :
           /\ pool'.multinames[m].kind = names[m].kind /\ pool'.multinames[m].str = names[m].str
           /\ pool'.multinames[m].ns = IF m = n /\ fixes THEN ns ELSE names[m].ns
  <2>1. CASE ~fixes
    BY <1>2, <2>1 DEF PackagesInv, PoolKept
  <2>2. CASE fixes
    <3> HIDE DEF fixes, ns
    <3>1. pool' = [strings |-> pool.strings, multinames |-> to, moved |-> pool.moved]
      BY <1>2, <2>2 DEF PackagesInv, PoolKept, WellFormed
    <3>2. /\ DOMAIN to = DOMAIN names
          /\ \A m \in DOMAIN names :
               to[m] = [kind |-> names[m].kind, str |-> names[m].str,
                        ns |-> IF m = n THEN ns ELSE names[m].ns]
      BY DEF PackagesInv, PoolKept, WellFormed
    <3>3. \A m \in DOMAIN names :
            /\ to[m].kind = names[m].kind /\ to[m].str = names[m].str
            /\ to[m].ns = IF m = n THEN ns ELSE names[m].ns
      BY <3>2
    <3>4. \A m \in DOMAIN to : to[m] = [kind |-> to[m].kind, str |-> to[m].str, ns |-> to[m].ns]
      BY <3>2
    <3>5. to = [m \in DOMAIN to |-> to[m]]
      OBVIOUS
    <3> HIDE DEF to
    <3>6. to = [m \in DOMAIN to |-> [kind |-> to[m].kind, str |-> to[m].str, ns |-> to[m].ns]]
      BY <3>4, <3>5
    <3>7. pool'.multinames = to /\ pool'.moved = pool.moved /\ pool'.strings = pool.strings
      BY <3>1
    <3>8. WellFormed(pool')
      BY <3>1, <3>6, <3>7 DEF WellFormed
    <3> QED BY <2>2, <3>2, <3>3, <3>7, <3>8
  <2> QED BY <2>1, <2>2
<1>4. PoolKept'
  BY <1>1, <1>3 DEF PackagesInv, PoolKept, Multinames
<1>5. \A m \in Multinames :
        /\ SameString(m)' = SameString(m) /\ Followed(m)' = Followed(m)
        /\ SameString(m) /\ Changed(m)' => Changed(m) \/ Followed(m)
  BY <1>1, <1>3 DEF SameString, Changed, Followed, PackagesInv, PoolKept
<1>6. MovedFollowed'
  BY <1>1, <1>5 DEF PackagesInv, MovedFollowed, Before, Multinames
<1>7. ASSUME NEW m \in Multinames, m < n + 1
      PROVE  Settled(m)'
  <2>1. CASE m = n
    BY <1>3, <2>1 DEF Settled, PackagesInv, PoolKept
  <2>2. CASE m # n
    <3>1. Settled(m)
      BY <1>1, <1>7, <2>2, FileNames DEF PackagesInv, PoolKept, SetsFixed
    <3> QED BY <1>3, <2>2, <3>1 DEF Settled, PackagesInv, PoolKept
  <2> QED BY <2>1, <2>2
<1>8. SetsFixed'
  BY <1>1, <1>7 DEF SetsFixed, Late, Multinames
<1> QED BY <1>4, <1>6, <1>8 DEF PackagesInv

LEMMA SetsDoneKeeps ==
  ASSUME PackagesInv, SetsDone, UNCHANGED written
  PROVE  PackagesInv'
<1>1. /\ UNCHANGED <<file, pool>> /\ stage = "sets" /\ stage' = "classdef"
      /\ next \notin Multinames /\ next \in Nat \ {0} /\ written = None
  BY DEF SetsDone, Leave, Same, Rest, PackagesInv, PoolKept, SetsFixed
<1>2. PoolKept' /\ MovedFollowed'
  BY <1>1 DEF PackagesInv, PoolKept, MovedFollowed, Before, SameString, Changed, Followed, Multinames
<1>3. \A m \in Multinames : m < next
  BY <1>1, FileNames DEF PackagesInv, PoolKept
<1>4. \A m \in Multinames : Settled(m)
  BY <1>1, <1>3 DEF PackagesInv, SetsFixed
<1>5. SetsFixed'
  BY <1>1, <1>4 DEF SetsFixed, Settled, Multinames
<1> QED BY <1>2, <1>5 DEF PackagesInv

LEMMA WriteKeeps == ASSUME PackagesInv, Write PROVE PackagesInv'
<1>1. UNCHANGED <<file, pool>> /\ stage = "write" /\ stage' = "ended" /\ written' \in {written, pool}
  BY DEF Write, Stop, Others
<1>2. PoolKept' /\ MovedFollowed'
  BY <1>1 DEF PackagesInv, PoolKept, MovedFollowed, Before, SameString, Changed, Followed, Multinames
<1>3. written = None /\ \A m \in Multinames : Settled(m)
  BY <1>1 DEF PackagesInv, SetsFixed, Late
<1>4. SetsFixed'
  BY <1>1, <1>3 DEF SetsFixed, Settled, Late, Multinames
<1> QED BY <1>2, <1>4 DEF PackagesInv

LEMMA PackagesStutter == ASSUME PackagesInv, UNCHANGED vars PROVE PackagesInv'
<1>1. UNCHANGED <<file, stage, pool, next, written>>
  BY DEF vars
<1> QED
  BY <1>1 DEF PackagesInv, PoolKept, MovedFollowed, SetsFixed, SameString, Changed, Followed,
              Settled, Multinames

LEMMA PackagesStep == ASSUME PackagesInv, [Next]_vars PROVE PackagesInv'
<1>1. WellFormed(pool)
  BY DEF PackagesInv, PoolKept
<1>2. CASE NamingNext /\ UNCHANGED mainVars
  BY <1>1, <1>2, NamingPlaces, PlacingKeeps DEF mainVars
<1>3. CASE PacketNext /\ UNCHANGED mainVars
  BY <1>1, <1>3, PacketPlaces, PlacingKeeps, ProxiedKeeps DEF mainVars
<1>4. CASE DispatchNext /\ UNCHANGED mainVars
  BY <1>1, <1>4, DispatchPlaces, PlacingKeeps, EnterSetsKeeps, FixSetKeeps, SetsDoneKeeps
     DEF mainVars
<1>5. CASE TribulleNext /\ UNCHANGED mainVars
  BY <1>1, <1>5, TribullePlaces, PlacingKeeps DEF mainVars
<1>6. CASE ClassMatchNext /\ UNCHANGED mainVars
  BY <1>1, <1>6, MatchRetexts, RetextingKeeps DEF mainVars
<1>7. CASE Read \/ Analyzed \/ Proxy
  <2>1. UNCHANGED written
    BY <1>7 DEF Read, Analyzed, Proxy, Stop, mainVars
  <2> QED BY <1>1, <1>7, <2>1, MainRetexts, RetextingKeeps
<1>8. CASE Write
  BY <1>8, WriteKeeps
<1>9. CASE Ended \/ UNCHANGED vars
  BY <1>9, PackagesStutter DEF Ended
<1> QED BY <1>2, <1>3, <1>4, <1>5, <1>6, <1>7, <1>8, <1>9 DEF Next

LEMMA PackagesInvariant == Spec => []PackagesInv
  BY InitPackages, PackagesStep, PTL DEF Spec

\* Whatever is moved to a package, and whatever shares its string, a multiname
\* that found a name in the file read finds it in the file written: the
\* namespaces of one string are changed together or not at all.
THEOREM Reachable == Spec => []StillReachable
<1>1. PackagesInv => StillReachable
  <2> SUFFICES ASSUME PackagesInv, written # None,
                      NEW u \in Multinames, NEW d \in Multinames,
                      Finds(file.pool, u, d), SameString(u), SameString(d),
                      file.pool.multinames[u].kind \in QNameKinds \cup {"Multiname"},
                      file.pool.multinames[d].kind \in QNameKinds
               PROVE  Finds(pool, u, d)
    BY DEF StillReachable, Multinames, PackagesInv, SetsFixed
  <2>1. pool.multinames[u].str = pool.multinames[d].str
    BY DEF Finds, SameString
  <2>2. CASE pool.multinames[u].str \in DOMAIN pool.moved
    <3>1. Settled(u) /\ Settled(d)
      BY DEF PackagesInv, SetsFixed
    <3>2. pool.multinames[u].ns = pool.multinames[d].ns /\ pool.multinames[d].ns # {}
      BY <2>1, <2>2, <3>1 DEF Settled, PackagesInv, PoolKept
    <3> QED BY <2>1, <3>2 DEF Finds
  <2>3. CASE pool.multinames[u].str \notin DOMAIN pool.moved
    <3>1. ~Changed(u) /\ ~Changed(d)
      BY <2>1, <2>3 DEF PackagesInv, MovedFollowed, Followed, SameString
    <3> QED BY <2>1, <3>1 DEF Finds, Changed
  <2> QED BY <2>2, <2>3
<1> QED BY <1>1, PackagesInvariant, PTL
-----------------------------------------------------------------------------
(***************************************************************************)
(* The first names.                                                        *)
(***************************************************************************)

Old(i) == file.pool.strings[i]
Now(i) == pool.strings[i]
Strings == DOMAIN file.pool.strings
GameString == file.pool.multinames[file.classes[1].name].str

PoolRight ==
  /\ file \in Files
  /\ pool = [strings |-> pool.strings, multinames |-> pool.multinames, moved |-> pool.moved]
  /\ DOMAIN pool.strings = Strings /\ pool.multinames = file.pool.multinames
  /\ counters \in [Counted -> Nat]

SymbolsRight ==
  /\ todo \subseteq DOMAIN file.symbols /\ DOMAIN symbols = DOMAIN file.symbols
  /\ \A s \in todo : symbols[s] = file.symbols[s]
  /\ \A s \in DOMAIN file.symbols \ todo : ~Invalid(symbols[s])
  /\ \A s \in DOMAIN file.symbols, i \in Strings :
       Old(i) = file.symbols[s] => Now(i) = symbols[s]
  /\ \A i \in Strings : Now(i) # Old(i) => ~Invalid(Now(i))

LinksRight ==
  \A s \in DOMAIN file.symbols \ {0}, i \in Strings :
    Old(i) = file.symbols[s] /\ i # GameString => Now(i) = symbols[s] /\ ~Invalid(symbols[s])

FromSymbol(i) ==
  \E s \in DOMAIN file.symbols :
    Old(i) = file.symbols[s] /\ Now(i) = <<"$", file.symbols[s][2]>>
FromCount(i) ==
  \E f \in Counted, n \in Nat :
    /\ Now(i) = <<f, n>>
    /\ n <= counters[f] /\ (f = "ClassSymbol_" => n < counters[f])

Origins ==
  /\ \A i \in Strings :
       Now(i) # Old(i) =>
         \/ Now(i)[1] = "error" \/ (i = GameString /\ Now(i) = Game)
         \/ FromSymbol(i) \/ FromCount(i)
  /\ \A i, j \in Strings : Old(i) # Old(j) /\ Now(i) = Now(j) => Shared(Now(i))

Beginning == stage \in {"start", "symbols"}
NamesInv ==
  /\ Beginning \/ Naming => PoolRight /\ Origins
  /\ Beginning => SymbolsRight
  /\ stage = "renamer" => LinksRight

-----------------------------------------------------------------------------
LEMMA InitNames == Init => NamesInv
<1> SUFFICES ASSUME Init PROVE NamesInv
  OBVIOUS
<1>1. /\ file \in Files /\ stage = "start" /\ pool = file.pool /\ symbols = file.symbols
      /\ todo = DOMAIN file.symbols /\ counters = [f \in Counted |-> 0]
  BY DEF Init, NamingInit
<1>2. PoolRight
  BY <1>1, FilesAssumption DEF PoolRight, Strings
<1>3. Origins
  BY <1>1 DEF Origins, Old, Now, Strings, Shared
<1>4. SymbolsRight
  BY <1>1 DEF SymbolsRight, Old, Now, Strings
<1> QED BY <1>1, <1>2, <1>3, <1>4 DEF NamesInv, Beginning, Naming

LEMMA SymbolStep ==
  ASSUME PoolRight, Origins, SymbolsRight, RenameSymbol
  PROVE  PoolRight' /\ Origins' /\ SymbolsRight'
<1>1. PICK s \in todo :
        LET old == symbols[s]
            new == IF Invalid(old) THEN SymbolName(old) ELSE old
        IN /\ symbols' = [symbols EXCEPT ![s] = new]
           /\ pool' = [pool EXCEPT !.strings =
                         [i \in DOMAIN @ |-> IF @[i] = old THEN new ELSE @[i]]]
           /\ counters' = IF new[1] = "ClassSymbol_" /\ Invalid(old)
                          THEN [counters EXCEPT !["ClassSymbol_"] = @ + 1] ELSE counters
           /\ todo' = todo \ {s}
  BY DEF RenameSymbol
<1> DEFINE old == symbols[s]
           new == IF Invalid(old) THEN SymbolName(old) ELSE old
<1>2. /\ symbols' = [symbols EXCEPT ![s] = new] /\ todo' = todo \ {s}
      /\ pool' = [pool EXCEPT !.strings =
                    [i \in DOMAIN pool.strings |-> IF pool.strings[i] = old THEN new
                                                   ELSE pool.strings[i]]]
      /\ counters' = IF new[1] = "ClassSymbol_" /\ Invalid(old)
                     THEN [counters EXCEPT !["ClassSymbol_"] = @ + 1] ELSE counters
      /\ file' = file
  BY <1>1 DEF RenameSymbol
<1>3. old = file.symbols[s] /\ s \in DOMAIN file.symbols /\ s \in todo
  BY DEF SymbolsRight
<1>4. /\ ~Invalid(new)
      /\ ~Invalid(old) => new = old
      /\ Invalid(old) => \/ new = <<"$", old[2]>>
                         \/ new = <<"ClassSymbol_", counters["ClassSymbol_"]>>
  <2>1. counters["ClassSymbol_"] \in Nat
    BY DEF PoolRight, Counted
  <2>2. "ClassSymbol_" \notin Unreadable /\ counters["ClassSymbol_"] \notin Unreadable
    BY <2>1, UnreadableAssumption DEF Words, Counted
  <2> QED BY <2>2 DEF SymbolName, Invalid
<1> HIDE DEF old, new
<1>5. /\ Strings' = Strings /\ \A i \in Strings : Old(i)' = Old(i)
      /\ \A i \in Strings : Now(i)' = IF Now(i) = old THEN new ELSE Now(i)
  BY <1>2 DEF Strings, Old, Now, PoolRight
<1>6. PoolRight'
  <2>1. counters' \in [Counted -> Nat]
    BY <1>2 DEF PoolRight, Counted
  <2>2. /\ pool' = [strings |-> pool'.strings, multinames |-> pool'.multinames, moved |-> pool'.moved]
        /\ DOMAIN pool'.strings = Strings /\ pool'.multinames = pool.multinames
    BY <1>2 DEF PoolRight
  <2> QED BY <1>2, <1>5, <2>1, <2>2 DEF PoolRight
<1>7. SymbolsRight'
  <2>1. /\ todo' \subseteq DOMAIN file'.symbols /\ DOMAIN symbols' = DOMAIN file'.symbols
        /\ \A t \in todo' : symbols'[t] = file'.symbols[t]
        /\ \A t \in DOMAIN file.symbols : symbols'[t] = IF t = s THEN new ELSE symbols[t]
    BY <1>2, <1>3 DEF SymbolsRight
  <2>2. \A t \in DOMAIN file.symbols \ todo' : ~Invalid(symbols'[t])
    BY <1>2, <1>3, <1>4, <2>1 DEF SymbolsRight
  <2>3. ASSUME NEW t \in DOMAIN file.symbols, NEW i \in Strings, Old(i) = file.symbols[t]
        PROVE  Now(i)' = symbols'[t]
    <3>1. Now(i) = symbols[t]
      BY <2>3 DEF SymbolsRight
    <3>2. CASE t = s
      BY <1>5, <2>1, <3>1, <3>2 DEF old
    <3>3. CASE t # s /\ t \in todo
      <4>1. symbols[t] # old
        BY <1>3, <3>3, FilesAssumption DEF SymbolsRight, PoolRight
      <4> QED BY <1>5, <2>1, <3>1, <3>3, <4>1
    <3>4. CASE t # s /\ t \notin todo
      <4>1. ~Invalid(symbols[t])
        BY <3>4 DEF SymbolsRight
      <4> QED BY <1>4, <1>5, <2>1, <3>1, <3>4, <4>1
    <3> QED BY <3>2, <3>3, <3>4
  <2>4. \A i \in Strings : Now(i)' # Old(i)' => ~Invalid(Now(i)')
    BY <1>4, <1>5 DEF SymbolsRight
  <2> QED BY <1>2, <1>5, <2>1, <2>2, <2>3, <2>4 DEF SymbolsRight, Invalid
<1>8. ASSUME NEW i \in Strings, Now(i)' # Now(i)
      PROVE  /\ Now(i) = old /\ Now(i)' = new /\ Invalid(old)
             /\ Old(i) = old /\ Old(i) = file.symbols[s]
  <2>1. Now(i) = old /\ Now(i)' = new /\ Invalid(old)
    BY <1>4, <1>5, <1>8
  <2> QED BY <1>3, <2>1 DEF SymbolsRight
<1>9. \A f \in Counted : counters'[f] \in Nat /\ counters[f] \in Nat /\ counters'[f] >= counters[f]
  BY <1>2 DEF PoolRight, Counted
<1>10. ASSUME NEW i \in Strings, FromCount(i), Now(i)' = Now(i)
       PROVE  FromCount(i)'
  BY <1>9, <1>10 DEF FromCount
<1>11. ASSUME NEW i \in Strings, FromSymbol(i), Now(i)' = Now(i)
       PROVE  FromSymbol(i)'
  BY <1>2, <1>5, <1>11 DEF FromSymbol
<1>12. ASSUME NEW i \in Strings, Now(i)' # Now(i)
       PROVE  FromSymbol(i)' \/ FromCount(i)'
  <2>1. CASE new = <<"$", old[2]>>
    BY <1>2, <1>3, <1>5, <1>8, <1>12, <2>1 DEF FromSymbol
  <2>2. CASE new = <<"ClassSymbol_", counters["ClassSymbol_"]>>
    <3>1. counters' = [counters EXCEPT !["ClassSymbol_"] = @ + 1]
      BY <1>2, <1>8, <1>12, <2>2
    <3>2. /\ "ClassSymbol_" \in Counted /\ counters["ClassSymbol_"] \in Nat
          /\ counters'["ClassSymbol_"] = counters["ClassSymbol_"] + 1
      BY <3>1 DEF PoolRight, Counted
    <3> QED BY <1>8, <1>12, <2>2, <3>2 DEF FromCount
  <2> QED BY <1>4, <1>8, <1>12, <2>1, <2>2
<1>13. ASSUME NEW i \in Strings, Now(i)' # Old(i)'
       PROVE  \/ Now(i)'[1] = "error" \/ (i = GameString' /\ Now(i)' = Game)
              \/ FromSymbol(i)' \/ FromCount(i)'
  <2>1. CASE Now(i)' # Now(i)
    BY <1>12, <2>1
  <2>2. CASE Now(i)' = Now(i)
    <3>1. GameString' = GameString
      BY <1>2 DEF GameString
    <3>2. \/ Now(i)[1] = "error" \/ (i = GameString /\ Now(i) = Game)
          \/ FromSymbol(i) \/ FromCount(i)
      BY <1>5, <1>13, <2>2 DEF Origins
    <3> QED BY <1>10, <1>11, <2>2, <3>1, <3>2
  <2> QED BY <2>1, <2>2
<1>14. ASSUME NEW i \in Strings, NEW j \in Strings, Old(i) # Old(j), Now(i)' = new,
              Now(i)' # Now(i), Now(j)' = new
       PROVE  Shared(new)
  <2>1. Now(j)' = Now(j)
    BY <1>8, <1>14
  <2>2. CASE Now(j) = Old(j)
    BY <1>14, <2>1, <2>2 DEF Shared, Range, Old, Strings
  <2>3. CASE Now(j)[1] = "error"
    BY <1>14, <2>1, <2>3 DEF Shared
  <2>4. Now(j) # Game
    <3>1. new[1] \in {"$", "ClassSymbol_"} /\ Game[1] = ""
      BY <1>4, <1>8, <1>14 DEF Game, Fixed
    <3> QED BY <1>14, <2>1, <3>1
  <2>5. CASE FromSymbol(j)
    <3>1. PICK t \in DOMAIN file.symbols :
            Old(j) = file.symbols[t] /\ Now(j) = <<"$", file.symbols[t][2]>>
      BY <2>5 DEF FromSymbol
    <3>2. t # s /\ new = <<"$", old[2]>> /\ file.symbols[s][2] = file.symbols[t][2]
      BY <1>3, <1>4, <1>8, <1>14, <2>1, <3>1
    <3> QED BY <1>3, <3>2 DEF Shared
  <2>6. CASE FromCount(j)
    <3>1. PICK f \in Counted, n \in Nat :
            Now(j) = <<f, n>> /\ (f = "ClassSymbol_" => n < counters[f])
      BY <2>6 DEF FromCount
    <3>2. f # "$"
      BY DEF Counted, Formats
    <3>3. new = <<"ClassSymbol_", counters["ClassSymbol_"]>> /\ f = "ClassSymbol_"
          /\ n = counters["ClassSymbol_"]
      BY <1>4, <1>8, <1>14, <2>1, <3>1, <3>2
    <3> QED BY <1>9, <3>1, <3>3
  <2> QED BY <2>2, <2>3, <2>4, <2>5, <2>6 DEF Origins
<1>15. ASSUME NEW i \in Strings, NEW j \in Strings, Old(i) # Old(j), Now(i)' = Now(j)'
       PROVE  Shared(Now(i)')
  <2>1. CASE Now(i)' # Now(i)
    BY <1>8, <1>14, <1>15, <2>1
  <2>2. CASE Now(j)' # Now(j)
    BY <1>8, <1>14, <1>15, <2>2
  <2>3. CASE Now(i)' = Now(i) /\ Now(j)' = Now(j)
    BY <1>15, <2>3 DEF Origins
  <2> QED BY <2>1, <2>2, <2>3
<1>16. Origins'
  <2>1. \A i, j \in Strings :
          Old(i)' # Old(j)' /\ Now(i)' = Now(j)' => Shared(Now(i))'
    BY <1>2, <1>5, <1>15 DEF Shared
  <2> QED BY <1>5, <1>13, <2>1 DEF Origins
<1> QED BY <1>6, <1>7, <1>16

LEMMA GameStep ==
  ASSUME PoolRight, Origins, SymbolsRight, NameGame
  PROVE  PoolRight' /\ Origins' /\ LinksRight'
<1>1. /\ todo = {} /\ symbols' = Extended(symbols, 0, Game) /\ file' = file
      /\ counters' = counters
      /\ pool' = [pool EXCEPT !.strings[GameString] = Game]
  BY DEF NameGame, Rename, GameString, PoolRight
<1>2. /\ Strings' = Strings /\ \A i \in Strings : Old(i)' = Old(i)
      /\ \A i \in Strings : Now(i)' = IF i = GameString THEN Game ELSE Now(i)
      /\ GameString' = GameString
  BY <1>1 DEF Strings, Old, Now, PoolRight, GameString
<1>3. PoolRight'
  <2>1. /\ pool' = [strings |-> pool'.strings, multinames |-> pool'.multinames, moved |-> pool'.moved]
        /\ DOMAIN pool'.strings = Strings /\ pool'.multinames = pool.multinames
    BY <1>1 DEF PoolRight
  <2> QED BY <1>1, <1>2, <2>1 DEF PoolRight
<1>4. ASSUME NEW t \in DOMAIN file.symbols, t # 0
      PROVE  symbols'[t] = symbols[t] /\ ~Invalid(symbols[t])
  BY <1>1, <1>4 DEF Extended, SymbolsRight
<1>5. LinksRight'
  <2>1. ASSUME NEW t \in DOMAIN file.symbols \ {0}, NEW i \in Strings,
               Old(i) = file.symbols[t], i # GameString
        PROVE  Now(i)' = symbols'[t] /\ ~Invalid(symbols'[t])
    BY <1>2, <1>4, <2>1 DEF SymbolsRight
  <2> QED BY <1>1, <1>2, <2>1 DEF LinksRight, Invalid
<1>6. ASSUME NEW i \in Strings, Now(i)' = Now(i)
      PROVE  FromSymbol(i)' = FromSymbol(i) /\ FromCount(i)' = FromCount(i)
  BY <1>1, <1>2, <1>6 DEF FromSymbol, FromCount
<1>7. ASSUME NEW j \in Strings, j # GameString, Now(j) = Game
      PROVE  Now(j) = Old(j)
  <2>1. Game[1] = ""
    BY DEF Game, Fixed
  <2>2. FromSymbol(j) => Now(j)[1] = "$"
    BY DEF FromSymbol
  <2>3. FromCount(j) => Now(j)[1] \in Counted
    BY DEF FromCount
  <2>4. "" \notin Counted
    BY DEF Counted, Formats
  <2> QED BY <1>7, <2>1, <2>2, <2>3, <2>4 DEF Origins
<1>8. ASSUME NEW i \in Strings, NEW j \in Strings, Old(i) # Old(j), Now(i)' = Now(j)'
      PROVE  Shared(Now(i)')
  <2>1. CASE i = GameString
    <3>1. Now(i)' = Old(j)
      BY <1>2, <1>7, <1>8, <2>1
    <3> QED BY <3>1 DEF Shared, Range, Old, Strings
  <2>2. CASE j = GameString
    <3>1. Now(i)' = Old(i)
      BY <1>2, <1>7, <1>8, <2>2
    <3> QED BY <3>1 DEF Shared, Range, Old, Strings
  <2>3. CASE i # GameString /\ j # GameString
    BY <1>2, <1>8, <2>3 DEF Origins
  <2> QED BY <2>1, <2>2, <2>3
<1>9. Origins'
  <2>1. \A i, j \in Strings :
          Old(i)' # Old(j)' /\ Now(i)' = Now(j)' => Shared(Now(i))'
    BY <1>1, <1>2, <1>8 DEF Shared
  <2>2. ASSUME NEW i \in Strings, Now(i)' # Old(i)'
        PROVE  \/ Now(i)'[1] = "error" \/ (i = GameString' /\ Now(i)' = Game)
               \/ FromSymbol(i)' \/ FromCount(i)'
    BY <1>2, <1>6, <2>2 DEF Origins
  <2> QED BY <1>2, <2>1, <2>2 DEF Origins
<1> QED BY <1>3, <1>5, <1>9

-----------------------------------------------------------------------------
(***************************************************************************)
(* The sites: their formats, and the names they are for.                   *)
(***************************************************************************)
SiteOK(site) ==
  site.format \in Formats \/ (site.format = "error" /\ site.number \in Nat)
SitesFor(s, names) ==
  /\ IsSequence(s) /\ \A i \in DOMAIN s : SiteOK(s[i])
  /\ {s[i].name : i \in DOMAIN s} = names

OwnerNames(k) ==
  IF k <= Len(file.classes)
  THEN LET c == file.classes[k]
       IN {c.name, c.super} \cup NamesIn(c.ctraits) \cup NamesIn(c.itraits)
  ELSE LET m == file.methods[k - Len(file.classes)]
       IN NamesIn(m.traits) \cup Range(m.exceptions)

LEMMA IsSeq ==
  ASSUME NEW s, NEW n \in Nat, DOMAIN s = 1..n, s = [i \in 1..n |-> s[i]]
  PROVE  IsSequence(s)
BY DEF IsSequence, Range

LEMMA SeqIs ==
  ASSUME NEW S, NEW s \in Seq(S)
  PROVE  IsSequence(s)
BY DEF IsSequence, Range

LEMMA Past ==
  ASSUME NEW a \in Nat, NEW b \in Nat, NEW k \in 1..(a + b), ~(k <= a)
  PROVE  k - a \in 1..b
OBVIOUS

LEMMA Concat ==
  ASSUME NEW s, NEW t, NEW names, NEW others, SitesFor(s, names), SitesFor(t, others)
  PROVE  SitesFor(s \o t, names \cup others)
<1>1. s \in Seq(Range(s) \cup Range(t)) /\ t \in Seq(Range(s) \cup Range(t))
  BY DEF SitesFor, IsSequence, Range
<1>2. /\ s \o t \in Seq(Range(s) \cup Range(t)) /\ Len(s \o t) = Len(s) + Len(t)
      /\ \A i \in 1..Len(s) + Len(t) :
           (s \o t)[i] = IF i <= Len(s) THEN s[i] ELSE t[i - Len(s)]
  BY <1>1, ConcatProperties
<1>3. /\ DOMAIN (s \o t) = 1..(Len(s) + Len(t)) /\ DOMAIN s = 1..Len(s) /\ DOMAIN t = 1..Len(t)
      /\ Len(s) \in Nat /\ Len(t) \in Nat
  BY <1>1, <1>2
<1>4. IsSequence(s \o t)
  BY <1>2, SeqIs
<1>5. ASSUME NEW i \in DOMAIN (s \o t)
      PROVE  SiteOK((s \o t)[i]) /\ (s \o t)[i].name \in names \cup others
  <2>1. CASE i <= Len(s)
    BY <1>2, <1>3, <2>1 DEF SitesFor
  <2>2. CASE ~(i <= Len(s))
    <3>1. i - Len(s) \in DOMAIN t
      BY <1>3, <2>2, Past
    <3> QED BY <1>2, <1>3, <2>2, <3>1 DEF SitesFor
  <2> QED BY <2>1, <2>2
<1>6. ASSUME NEW n \in names \cup others
      PROVE  \E i \in DOMAIN (s \o t) : (s \o t)[i].name = n
  <2>1. CASE n \in names
    <3>1. PICK i \in DOMAIN s : s[i].name = n
      BY <2>1 DEF SitesFor
    <3>2. i \in 1..(Len(s) + Len(t)) /\ i <= Len(s)
      BY <1>3
    <3> QED BY <1>2, <1>3, <3>1, <3>2
  <2>2. CASE n \in others
    <3>1. PICK i \in DOMAIN t : t[i].name = n
      BY <2>2 DEF SitesFor
    <3>2. /\ Len(s) + i \in 1..(Len(s) + Len(t)) /\ ~(Len(s) + i <= Len(s))
          /\ (Len(s) + i) - Len(s) = i
      BY <1>3
    <3> QED BY <1>2, <1>3, <3>1, <3>2
  <2> QED BY <2>1, <2>2
<1> QED BY <1>4, <1>5, <1>6 DEF SitesFor

LEMMA TraitsGiven ==
  ASSUME NEW traits, IsSequence(traits)
  PROVE  SitesFor(TraitSites(traits), NamesIn(traits))
<1>1. DOMAIN TraitSites(traits) = 1..Len(traits) /\ Len(traits) \in Nat
  BY DEF TraitSites, IsSequence
<1>2. \A kind : TraitFormat(kind) \in Formats
  BY Zenon DEF TraitFormat, Formats
<1>3. \A i \in DOMAIN TraitSites(traits) :
        TraitSites(traits)[i].format \in Formats /\ TraitSites(traits)[i].name = traits[i].name
  BY <1>2 DEF TraitSites, Site
<1>4. IsSequence(TraitSites(traits))
  BY <1>1, IsSeq DEF TraitSites
<1>5. DOMAIN TraitSites(traits) = DOMAIN traits
  BY DEF TraitSites
<1>6. {TraitSites(traits)[i].name : i \in DOMAIN TraitSites(traits)} = NamesIn(traits)
  BY <1>3, <1>5 DEF NamesIn, Range
<1> QED BY <1>3, <1>4, <1>6 DEF SitesFor, SiteOK

LEMMA SitesGiven ==
  ASSUME file \in Files, NEW k \in Owners
  PROVE  SitesFor(Sites(k), OwnerNames(k))
<1>1. ASSUME NEW c \in Range(file.classes)
      PROVE  SitesFor(ClassSites(c), {c.name, c.super} \cup NamesIn(c.ctraits) \cup NamesIn(c.itraits))
  <2> DEFINE both == <<Site(c.name, "class_"), Site(c.super, "class_")>>
  <2>1. SitesFor(both, {c.name, c.super})
    <3>1. /\ Site(c.name, "class_").format = "class_" /\ Site(c.super, "class_").format = "class_"
          /\ Site(c.name, "class_").name = c.name /\ Site(c.super, "class_").name = c.super
      BY DEF Site
    <3>2. /\ both[1].format = "class_" /\ both[2].format = "class_" /\ DOMAIN both = {1, 2}
          /\ both[1].name = c.name /\ both[2].name = c.super
      BY <3>1
    <3>3. both \in Seq({Site(c.name, "class_"), Site(c.super, "class_")})
      OBVIOUS
    <3>4. IsSequence(both)
      BY <3>3, SeqIs
    <3> HIDE DEF both
    <3> QED BY <3>2, <3>4 DEF SitesFor, SiteOK, Formats
  <2>2. /\ SitesFor(TraitSites(c.ctraits), NamesIn(c.ctraits))
        /\ SitesFor(TraitSites(c.itraits), NamesIn(c.itraits))
    BY TraitsGiven, FilesAssumption
  <2> HIDE DEF both
  <2>3. SitesFor(both \o TraitSites(c.ctraits), {c.name, c.super} \cup NamesIn(c.ctraits))
    BY <2>1, <2>2, Concat
  <2>4. SitesFor((both \o TraitSites(c.ctraits)) \o TraitSites(c.itraits),
                 ({c.name, c.super} \cup NamesIn(c.ctraits)) \cup NamesIn(c.itraits))
    BY <2>2, <2>3, Concat
  <2> QED BY <2>4 DEF ClassSites, both
<1>2. ASSUME NEW m \in Range(file.methods)
      PROVE  SitesFor(MethodSites(m), NamesIn(m.traits) \cup Range(m.exceptions))
  <2> DEFINE errors == m.exceptions
  <2>1. SitesFor(ErrorSites(errors), Range(errors))
    <3>1. DOMAIN ErrorSites(errors) = 1..Len(errors) /\ DOMAIN errors = 1..Len(errors)
          /\ Len(errors) \in Nat
      BY FilesAssumption DEF ErrorSites, IsSequence
    <3>2. IsSequence(ErrorSites(errors))
      BY <3>1, IsSeq DEF ErrorSites
    <3>3. \A e \in 1..Len(errors) : e \in Nat
      OBVIOUS
    <3>4. \A e \in DOMAIN ErrorSites(errors) :
            /\ ErrorSites(errors)[e].format = "error" /\ ErrorSites(errors)[e].number \in Nat
            /\ ErrorSites(errors)[e].name = errors[e]
      BY <3>1, <3>3 DEF ErrorSites
    <3>5. {ErrorSites(errors)[e].name : e \in DOMAIN ErrorSites(errors)} = Range(errors)
      BY <3>1, <3>4 DEF Range
    <3> QED BY <3>2, <3>4, <3>5 DEF SitesFor, SiteOK
  <2>2. SitesFor(TraitSites(m.traits), NamesIn(m.traits))
    BY TraitsGiven, FilesAssumption
  <2>3. SitesFor(ErrorSites(errors) \o TraitSites(m.traits), Range(errors) \cup NamesIn(m.traits))
    BY <2>1, <2>2, Concat
  <2>4. Range(errors) \cup NamesIn(m.traits) = NamesIn(m.traits) \cup Range(errors)
    OBVIOUS
  <2> QED BY <2>3, <2>4 DEF MethodSites
<1>3. IsSequence(file.classes) /\ IsSequence(file.methods)
  BY FilesAssumption
<1>4. CASE k <= Len(file.classes)
  <2>1. file.classes[k] \in Range(file.classes)
    BY <1>3, <1>4 DEF Owners, IsSequence, Range
  <2> QED BY <1>1, <1>4, <2>1 DEF Sites, OwnerNames
<1>5. CASE ~(k <= Len(file.classes))
  <2>1. file.methods[k - Len(file.classes)] \in Range(file.methods)
    <3>1. /\ Len(file.classes) \in Nat /\ Len(file.methods) \in Nat
          /\ DOMAIN file.methods = 1..Len(file.methods)
      BY <1>3 DEF IsSequence
    <3>2. k \in 1..(Len(file.classes) + Len(file.methods))
      BY DEF Owners
    <3>3. k - Len(file.classes) \in 1..Len(file.methods)
      BY <1>5, <3>1, <3>2, Past
    <3> QED BY <3>1, <3>3 DEF Range
  <2> QED BY <1>2, <1>5, <2>1 DEF Sites, OwnerNames
<1> QED BY <1>4, <1>5

LEMMA SiteStep ==
  ASSUME PoolRight, Origins, LinksRight, RenameSite
  PROVE  PoolRight' /\ Origins' /\ LinksRight'
<1> DEFINE site == Sites(next)[item]
           renames == site.name # 0 /\ Invalid(Text(pool, site.name))
           counts == renames /\ site.format \in Formats
           number == IF counts THEN counters[site.format] + 1 ELSE site.number
           place == pool.multinames[site.name].str
           new == <<site.format, number>>
<1>1. /\ file' = file /\ symbols' = symbols /\ stage = "renamer"
      /\ next \in Owners /\ item \in DOMAIN Sites(next)
      /\ counters' = IF counts THEN [counters EXCEPT ![site.format] = number] ELSE counters
      /\ pool' = IF renames THEN [pool EXCEPT !.strings[place] = new] ELSE pool
  BY DEF RenameSite, Rename
<1>2. renames => Invalid(pool.strings[place])
  BY DEF Text
<1>3. site.format \in Formats \cup {"error"}
  BY <1>1, SitesGiven DEF PoolRight, SitesFor, SiteOK
<1>4. renames => \/ new[1] = "error"
                 \/ /\ site.format \in Formats /\ new = <<site.format, counters[site.format] + 1>>
                    /\ counters' = [counters EXCEPT ![site.format] = counters[site.format] + 1]
  BY <1>1, <1>3
<1> HIDE DEF renames, counts, number, place, new, site
<1>5. /\ Strings' = Strings /\ \A i \in Strings : Old(i)' = Old(i)
      /\ \A i \in Strings : Now(i)' = IF renames /\ i = place THEN new ELSE Now(i)
      /\ GameString' = GameString
  BY <1>1 DEF Strings, Old, Now, PoolRight, GameString
<1>6. counters' \in [Counted -> Nat] /\ \A f \in Counted :
        counters[f] \in Nat /\ counters'[f] >= counters[f]
        /\ counters'["ClassSymbol_"] = counters["ClassSymbol_"]
  <2>1. counters \in [Counted -> Nat] /\ "ClassSymbol_" \notin Formats
    BY DEF PoolRight, Formats
  <2>2. \A f \in Formats : f \in Counted
    BY DEF Counted
  <2>3. counts => number = counters[site.format] + 1 /\ site.format \in Formats
    BY DEF counts, number
  <2> QED BY <1>1, <2>1, <2>2, <2>3
<1>7. PoolRight'
  <2>1. /\ pool' = [strings |-> pool'.strings, multinames |-> pool'.multinames, moved |-> pool'.moved]
        /\ DOMAIN pool'.strings = Strings /\ pool'.multinames = pool.multinames
    BY <1>1 DEF PoolRight
  <2> QED BY <1>1, <1>5, <1>6, <2>1 DEF PoolRight
<1>8. LinksRight'
  <2>1. ASSUME NEW t \in DOMAIN file.symbols \ {0}, NEW i \in Strings,
               Old(i) = file.symbols[t], i # GameString
        PROVE  Now(i)' = symbols[t] /\ ~Invalid(symbols[t])
    <3>1. Now(i) = symbols[t] /\ ~Invalid(symbols[t])
      BY <2>1 DEF LinksRight
    <3>2. ~(renames /\ i = place)
      BY <1>2, <3>1 DEF Now
    <3> QED BY <1>5, <3>1, <3>2
  <2> QED BY <1>1, <1>5, <2>1 DEF LinksRight, Invalid
<1>9. ASSUME NEW i \in Strings, Now(i)' = Now(i)
      PROVE  FromSymbol(i)' = FromSymbol(i) /\ (FromCount(i) => FromCount(i)')
  <2>1. FromSymbol(i)' = FromSymbol(i)
    BY <1>1, <1>5, <1>9 DEF FromSymbol
  <2>2. ASSUME FromCount(i) PROVE FromCount(i)'
    BY <1>6, <1>9, <2>2 DEF FromCount
  <2> QED BY <2>1, <2>2
<1>10. ASSUME renames, NEW i \in Strings, i = place
       PROVE  new[1] = "error" \/ FromCount(i)'
  <2>1. ASSUME site.format \in Formats, new = <<site.format, counters[site.format] + 1>>,
               counters' = [counters EXCEPT ![site.format] = counters[site.format] + 1]
        PROVE  FromCount(i)'
    <3>1. /\ site.format \in Counted /\ site.format # "ClassSymbol_"
          /\ counters[site.format] \in Nat
          /\ counters'[site.format] = counters[site.format] + 1
      BY <2>1 DEF Counted, Formats, PoolRight
    <3>2. Now(i)' = <<site.format, counters[site.format] + 1>>
      BY <1>5, <1>10, <2>1
    <3> QED BY <3>1, <3>2 DEF FromCount
  <2> QED BY <1>4, <1>10, <2>1
<1>11. ASSUME renames, NEW j \in Strings, Now(j) = new
       PROVE  Shared(new)
  <2>1. CASE new[1] = "error"
    BY <2>1 DEF Shared
  <2>2. CASE site.format \in Formats /\ new = <<site.format, counters[site.format] + 1>>
    <3>1. Now(j)[1] \in Formats /\ Now(j)[1] \notin {"$", "error"}
      BY <1>11, <2>2 DEF Formats
    <3>2. "" \notin Formats /\ Game[1] = ""
      BY DEF Formats, Game, Fixed
    <3>3. FromSymbol(j) => Now(j)[1] = "$"
      BY DEF FromSymbol
    <3>4. ~FromCount(j)
      <4>1. SUFFICES ASSUME NEW f \in Counted, NEW n \in Nat, Now(j) = <<f, n>>,
                            n <= counters[f]
                     PROVE  FALSE
        BY DEF FromCount
      <4>2. f = site.format /\ n = counters[site.format] + 1
        BY <1>11, <2>2, <4>1
      <4> QED BY <1>6, <4>1, <4>2
    <3>5. Now(j) # Game
      BY <3>1, <3>2
    <3>6. Now(j) = Old(j)
      BY <3>1, <3>3, <3>4, <3>5 DEF Origins
    <3> QED BY <1>11, <3>6 DEF Shared, Range, Old, Strings
  <2> QED BY <1>4, <1>11, <2>1, <2>2
<1>12. ASSUME NEW i \in Strings, NEW j \in Strings, Old(i) # Old(j), Now(i)' = Now(j)'
       PROVE  Shared(Now(i)')
  <2>1. CASE renames /\ i = place
    BY <1>5, <1>11, <1>12, <2>1
  <2>2. CASE renames /\ j = place
    BY <1>5, <1>11, <1>12, <2>2
  <2>3. CASE ~(renames /\ i = place) /\ ~(renames /\ j = place)
    BY <1>5, <1>12, <2>3 DEF Origins
  <2> QED BY <2>1, <2>2, <2>3
<1>13. ASSUME NEW i \in Strings, Now(i)' # Old(i)'
       PROVE  \/ Now(i)'[1] = "error" \/ (i = GameString' /\ Now(i)' = Game)
              \/ FromSymbol(i)' \/ FromCount(i)'
  <2>1. CASE renames /\ i = place
    BY <1>5, <1>10, <2>1
  <2>2. CASE ~(renames /\ i = place)
    BY <1>5, <1>9, <1>13, <2>2 DEF Origins
  <2> QED BY <2>1, <2>2
<1>14. Origins'
  <2>1. \A i, j \in Strings :
          Old(i)' # Old(j)' /\ Now(i)' = Now(j)' => Shared(Now(i))'
    BY <1>1, <1>5, <1>12 DEF Shared
  <2> QED BY <1>5, <1>13, <2>1 DEF Origins
<1> QED BY <1>7, <1>8, <1>14

-----------------------------------------------------------------------------
(***************************************************************************)
(* Nothing goes back to the first stages.                                  *)
(***************************************************************************)
Later == ~Naming /\ stage # "start"

LEMMA PacketLater ==
  ASSUME PacketNext
  PROVE  Later /\ Later'
<1>1. CASE NameBases
  BY <1>1 DEF NameBases, Later, Naming, Go, Loop, Leave, Fail
<1>2. CASE NameWriter
  BY <1>2 DEF NameWriter, Later, Naming, Go, Loop, Leave, Fail
<1>3. CASE WritersDone
  BY <1>3 DEF WritersDone, Later, Naming, Go, Loop, Leave, Fail
<1>4. CASE NameReader
  BY <1>4 DEF NameReader, Later, Naming, Go, Loop, Leave, Fail
<1>5. CASE ReadersDone
  BY <1>5 DEF ReadersDone, Later, Naming, Go, Loop, Leave, Fail
<1>6. CASE NameProxied
  BY <1>6 DEF NameProxied, Later, Naming, Go, Loop, Leave, Fail
<1>7. CASE ProxiedDone
  BY <1>7 DEF ProxiedDone, Later, Naming, Go, Loop, Leave, Fail
<1>8. CASE NamePacket
  BY <1>8 DEF NamePacket, Later, Naming, Go, Loop, Leave, Fail
<1>9. CASE PacketsDone
  BY <1>9 DEF PacketsDone, Later, Naming, Go, Loop, Leave, Fail
<1>10. CASE NameStatic
  BY <1>10 DEF NameStatic, Later, Naming, Go, Loop, Leave, Fail
<1>11. CASE NameWrapper
  BY <1>11 DEF NameWrapper, Later, Naming, Go, Loop, Leave, Fail
<1> QED BY <1>1, <1>2, <1>3, <1>4, <1>5, <1>6, <1>7, <1>8, <1>9, <1>10, <1>11 DEF PacketNext

LEMMA DispatchLater ==
  ASSUME DispatchNext
  PROVE  Later /\ Later'
<1>1. CASE NameHandler
  BY <1>1 DEF NameHandler, Later, Naming, Go, Loop, Leave, Fail
<1>2. CASE WalkOn
  BY <1>2 DEF WalkOn, Later, Naming, Go, Loop, Leave, Fail
<1>3. CASE EnterCategory
  BY <1>3 DEF EnterCategory, Later, Naming, Go, Loop, Leave, Fail
<1>4. CASE NameCode
  BY <1>4 DEF NameCode, Resumed, Later, Naming, Go, Loop, Leave, Fail
<1>5. CASE EnterTribulle
  BY <1>5 DEF EnterTribulle, Later, Naming, Go, Loop, Leave, Fail
<1>6. CASE LeaveCategory
  BY <1>6 DEF LeaveCategory, Resumed, Later, Naming, Go, Loop, Leave, Fail
<1>7. CASE SubOn
  BY <1>7 DEF SubOn, Later, Naming, Go, Loop, Leave, Fail
<1>8. CASE SubDone
  BY <1>8 DEF SubDone, Resumed, Later, Naming, Go, Loop, Leave, Fail
<1>9. CASE WalkDone
  BY <1>9 DEF WalkDone, Later, Naming, Go, Loop, Leave, Fail
<1>10. CASE FixSet
  BY <1>10 DEF FixSet, Later, Naming, Go, Loop, Leave, Fail
<1>11. CASE SetsDone
  BY <1>11 DEF SetsDone, Later, Naming, Go, Loop, Leave, Fail
<1>12. CASE ReadNull
  BY <1>12 DEF ReadNull, Later, Naming, Go, Loop, Leave, Fail
<1> QED
  BY <1>1, <1>2, <1>3, <1>4, <1>5, <1>6, <1>7, <1>8, <1>9, <1>10, <1>11, <1>12 DEF DispatchNext

LEMMA TribulleLater ==
  ASSUME TribulleNext
  PROVE  Later /\ Later'
<1>1. CASE FindCaller
  BY <1>1 DEF FindCaller, Later, Naming, Go, Loop, Leave, Fail
<1>2. CASE FollowPath
  BY <1>2 DEF FollowPath, Later, Naming, Go, Loop, Leave, Fail
<1>3. CASE FindMaker
  BY <1>3 DEF FindMaker, Later, Naming, Go, Loop, Leave, Fail
<1>4. CASE FindIds
  BY <1>4 DEF FindIds, Later, Naming, Go, Loop, Leave, Fail
<1>5. CASE NameServer
  BY <1>5 DEF NameServer, Later, Naming, Go, Loop, Leave, Fail
<1>6. CASE ServerDone
  BY <1>6 DEF ServerDone, Later, Naming, Go, Loop, Leave, Fail
<1>7. CASE NameClientBase
  BY <1>7 DEF NameClientBase, Later, Naming, Go, Loop, Leave, Fail
<1>8. CASE NameClient
  BY <1>8 DEF NameClient, Later, Naming, Go, Loop, Leave, Fail
<1>9. CASE ClientDone
  BY <1>9 DEF ClientDone, Later, Naming, Go, Loop, Leave, Fail
<1> QED BY <1>1, <1>2, <1>3, <1>4, <1>5, <1>6, <1>7, <1>8, <1>9 DEF TribulleNext

LEMMA MatchLater ==
  ASSUME ClassMatchNext
  PROVE  Later /\ Later'
<1>1. CASE LoadDefinitions
  BY <1>1 DEF LoadDefinitions, Later, Naming, Go, Loop, Leave, Fail
<1>2. CASE MatchDefinition
  BY <1>2 DEF MatchDefinition, Later, Naming, Go, Loop, Leave, Fail
<1>3. CASE MatchingDone
  BY <1>3 DEF MatchingDone, Later, Naming, Go, Loop, Leave, Fail
<1> QED BY <1>1, <1>2, <1>3 DEF ClassMatchNext

LEMMA NextLater ==
  ASSUME Later, Next
  PROVE  Later'
<1>1. CASE NamingNext
  BY <1>1 DEF Later, Naming, NamingNext, RenameSymbol, NameGame, RenameSite, NextOwner, RenamerDone
<1>2. CASE Analyzed
  BY <1>2 DEF Later, Naming, Analyzed, Stop
<1>3. CASE Proxy \/ Write
  BY <1>3 DEF Later, Naming, Proxy, Write, Stop
<1>4. CASE Read
  BY <1>4 DEF Later, Read
<1>5. CASE Ended
  BY <1>5 DEF Later, Ended, Naming, vars
<1> QED
  BY <1>1, <1>2, <1>3, <1>4, <1>5, PacketLater, DispatchLater, TribulleLater, MatchLater DEF Next

-----------------------------------------------------------------------------
LEMMA Kept ==
  ASSUME UNCHANGED <<file, pool, symbols, todo, counters>>
  PROVE  /\ PoolRight => PoolRight'
         /\ SymbolsRight => SymbolsRight'
         /\ LinksRight => LinksRight'
         /\ Origins => Origins'
<1>1. /\ UNCHANGED <<Strings, GameString>>
      /\ \A i \in Strings : Old(i)' = Old(i) /\ Now(i)' = Now(i)
      /\ \A i \in Strings : FromSymbol(i)' = FromSymbol(i) /\ FromCount(i)' = FromCount(i)
  BY DEF Strings, GameString, Old, Now, FromSymbol, FromCount
<1>2. /\ PoolRight => PoolRight'
      /\ SymbolsRight => SymbolsRight'
      /\ LinksRight => LinksRight'
  BY <1>1 DEF PoolRight, SymbolsRight, LinksRight, Invalid
<1>3. Origins => Origins'
  BY <1>1 DEF Origins, Shared
<1> QED BY <1>2, <1>3

LEMMA Stays ==
  ASSUME NamesInv, UNCHANGED <<file, stage, pool, symbols, todo, counters>>
  PROVE  NamesInv'
<1>1. stage' = stage /\ UNCHANGED <<file, pool, symbols, todo, counters>>
  OBVIOUS
<1>2. /\ PoolRight => PoolRight'
      /\ SymbolsRight => SymbolsRight'
      /\ LinksRight => LinksRight'
      /\ Origins => Origins'
  BY <1>1, Kept
<1>3. Beginning' \/ Naming' => PoolRight' /\ Origins'
  BY <1>1, <1>2 DEF NamesInv, Beginning, Naming
<1>4. Beginning' => SymbolsRight'
  BY <1>1, <1>2 DEF NamesInv, Beginning
<1>5. stage' = "renamer" => LinksRight'
  BY <1>1, <1>2 DEF NamesInv
<1> QED BY <1>3, <1>4, <1>5 DEF NamesInv

LEMMA NamesStep ==
  ASSUME NamesInv, [Next]_vars
  PROVE  NamesInv'
<1>1. CASE Later
  <2>1. CASE Next
    BY <1>1, <2>1, NextLater DEF Later, NamesInv, Beginning, Naming
  <2>2. CASE UNCHANGED vars
    BY <2>2, Stays DEF vars
  <2> QED BY <2>1, <2>2
<1>2. CASE ~Later /\ Next
  <2>1. CASE Read
    <3>1. SymbolsRight /\ PoolRight /\ Origins /\ stage = "start"
      BY <2>1 DEF Read, NamesInv, Beginning
    <3>2. UNCHANGED <<file, pool, symbols, todo, counters>>
      BY <2>1 DEF Read, Others
    <3>3. stage' \in {"symbols", "ended"}
      BY <2>1 DEF Read, Stop
    <3>4. PoolRight' /\ SymbolsRight' /\ Origins'
      BY <3>1, <3>2, Kept
    <3> QED BY <3>3, <3>4 DEF NamesInv, Beginning, Naming
  <2>2. CASE RenameSymbol
    BY <2>2, SymbolStep DEF NamesInv, Beginning, Naming, RenameSymbol
  <2>3. CASE NameGame
    BY <2>3, GameStep DEF NamesInv, Beginning, Naming, NameGame
  <2>4. CASE RenameSite
    BY <2>4, SiteStep DEF NamesInv, Beginning, Naming, RenameSite
  <2>5. CASE NextOwner
    BY <2>5, Stays DEF NextOwner
  <2>6. CASE RenamerDone
    BY <2>6 DEF RenamerDone, NamesInv, Beginning, Naming
  <2>7. CASE Ended
    BY <2>7, Stays DEF Ended, vars
  <2>8. CASE Analyzed \/ Proxy \/ Write
    BY <1>2, <2>8 DEF Analyzed, Proxy, Write, Later, Naming
  <2>9. ~PacketNext /\ ~DispatchNext /\ ~TribulleNext /\ ~ClassMatchNext
    BY <1>2, PacketLater, DispatchLater, TribulleLater, MatchLater
  <2> QED BY <1>2, <2>1, <2>2, <2>3, <2>4, <2>5, <2>6, <2>7, <2>8, <2>9 DEF Next, NamingNext
<1>3. CASE UNCHANGED vars
  BY <1>3, Stays DEF vars
<1> QED BY <1>1, <1>2, <1>3

LEMMA NamesInvariant == Spec => []NamesInv
<1>1. Init => NamesInv
  BY InitNames
<1>2. NamesInv /\ [Next]_vars => NamesInv'
  BY NamesStep
<1> QED BY <1>1, <1>2, PTL DEF Spec

\* A symbol and the class of its name stay linked through both first stages,
\* for every file whose characters have names of their own.
THEOREM Linked == Spec => []LinkKept
<1>1. NamesInv => LinkKept
  BY DEF NamesInv, LinkKept, Naming, Beginning, PoolRight, SymbolsRight, LinksRight,
         Strings, Old, Now, GameString
<1> QED BY <1>1, NamesInvariant, PTL

\* Two strings that differ get the same name only where the formats or the
\* file itself bring it about.
THEOREM Distinct == Spec => []StillDistinct
<1>1. NamesInv => StillDistinct
  BY DEF NamesInv, StillDistinct, Naming, Beginning, PoolRight, Origins, Strings, Old, Now
<1> QED BY <1>1, NamesInvariant, PTL
=============================================================================
