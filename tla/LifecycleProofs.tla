-------------------------- MODULE LifecycleProofs ---------------------------
(***************************************************************************)
(* Threads that use the map of types agree on every name, for any number   *)
(* of threads and types; links are mutual, every exit is noticed and       *)
(* await_all_actors_done() does not return early, for any number of actors *)
(* and proxies.  Zenon is the first prover; leaves with arithmetic or      *)
(* records name SMT.                                                       *)
(***************************************************************************)
EXTENDS ActorLifecycle, TypeMap, TLAPS

USE Zenon, SMT, Z3

-----------------------------------------------------------------------------
(* The map of types.                                                       *)

Entry == [name : Nat, ptr : Nat, elements : Seq(Int)]
ByName(types) == \A i, j \in DOMAIN types : i < j => types[i].name < types[j].name

(* find_name in a sorted list of types.                                    *)
Find(types, x) ==
  IF x \in Builtin THEN -x
  ELSE IF Known(types, x) THEN types[lower_bound(types, x)].ptr ELSE 0

LEMMA Joined ==
  ASSUME NEW S, NEW s \in Seq(S), NEW t \in Seq(S)
  PROVE  s \o t \in Seq(S) /\ Len(s \o t) = Len(s) + Len(t)
OBVIOUS

LEMMA EntryFacts ==
  ASSUME NEW types \in Seq(Entry)
  PROVE  /\ Len(types) \in Nat /\ DOMAIN types = 1..Len(types)
         /\ \A i \in 1..Len(types) : types[i] \in Entry /\ types[i].name \in Nat
<1>1. /\ Len(types) \in Nat /\ DOMAIN types = 1..Len(types)
      /\ \A i \in 1..Len(types) : types[i] \in Entry
  BY SMT
<1>2. \A e \in Entry : e.name \in Nat
  BY SMT DEF Entry
<1> QED
  BY <1>1, <1>2

(* lower_bound divides a sorted list: the smaller names before it, the     *)
(* others from it on.  This is shown at the end, from the theories of      *)
(* well-founded relations and finite sets, which no obligation before      *)
(* needs to carry.                                                         *)
Divides ==
  \A types \in Seq(Entry), x \in Nat : ByName(types) =>
    /\ lower_bound(types, x) \in 1..(Len(types) + 1)
    /\ \A j \in DOMAIN types : types[j].name < x <=> j < lower_bound(types, x)

(* A type is found at its place, and only a name in the list is known.     *)
LEMMA KnownPlace ==
  ASSUME Divides, NEW types \in Seq(Entry), ByName(types), NEW x \in Nat
  PROVE  /\ \A i \in DOMAIN types : types[i].name = x => lower_bound(types, x) = i /\ Known(types, x)
         /\ Known(types, x) => /\ lower_bound(types, x) \in DOMAIN types
                               /\ types[lower_bound(types, x)].name = x
<1> DEFINE b == lower_bound(types, x)
<1>1. /\ b \in 1..(Len(types) + 1)
      /\ \A j \in DOMAIN types : types[j].name < x <=> j < b
  BY Zenon DEF Divides
<1>2. /\ Len(types) \in Nat /\ DOMAIN types = 1..Len(types)
      /\ \A i \in 1..Len(types) : types[i].name \in Nat
  BY EntryFacts
<1> HIDE DEF b
<1>3. ASSUME NEW i \in DOMAIN types, types[i].name = x PROVE b = i
  <2>1. ~(i < b)
    BY <1>1, <1>2, <1>3, SMT
  <2>2. CASE b < i
    <3>1. b \in 1..Len(types)
      BY <1>1, <1>2, <2>2, SMT
    <3>2. types[b].name < x
      BY <1>2, <1>3, <2>2, <3>1 DEF ByName
    <3>3. b < b
      BY <1>1, <1>2, <3>1, <3>2
    <3> QED
      BY <1>1, <1>2, <3>3, SMT
  <2> QED
    BY <1>1, <1>2, <2>1, <2>2, SMT
<1>4. Known(types, x) <=> b <= Len(types) /\ types[b].name = x
  BY DEF Known, b
<1>5. ASSUME NEW i \in DOMAIN types, types[i].name = x PROVE Known(types, x)
  <2>1. b = i
    BY <1>3, <1>5
  <2> QED
    BY <1>2, <1>4, <1>5, <2>1, SMT
<1>6. Known(types, x) => b \in DOMAIN types /\ types[b].name = x
  BY <1>1, <1>2, <1>4, SMT
<1> QED
  BY <1>3, <1>5, <1>6 DEF b

(* What a search answers.                                                  *)
LEMMA FindSpec ==
  ASSUME Divides, NEW types \in Seq(Entry), ByName(types), NEW x \in Nat \ Builtin
  PROVE  /\ \A i \in DOMAIN types : types[i].name = x => Find(types, x) = types[i].ptr
         /\ (\A i \in DOMAIN types : types[i].name # x) => Find(types, x) = 0
BY KnownPlace DEF Find

(* The elements of a list with e inserted before place b.                  *)
LEMMA InsertedAt ==
  ASSUME NEW types \in Seq(Entry), NEW e \in Entry, NEW b \in 1..(Len(types) + 1)
  PROVE  LET r == InsertAt(types, b, e)
         IN /\ r \in Seq(Entry) /\ Len(r) = Len(types) + 1
            /\ \A k \in 1..(b - 1) : r[k] = types[k]
            /\ r[b] = e
            /\ \A k \in (b + 1)..(Len(types) + 1) : r[k] = types[k - 1]
<1> DEFINE p == SubSeq(types, 1, b - 1)
           q == SubSeq(types, b, Len(types))
           c == p \o <<e>>
<1>1. Len(types) \in Nat /\ DOMAIN types = 1..Len(types)
  BY EntryFacts
<1>2. p \in Seq(Entry) /\ Len(p) = b - 1 /\ \A k \in 1..(b - 1) : p[k] = types[k]
  BY <1>1, SMT, Z3
<1>3. /\ q \in Seq(Entry) /\ Len(q) = Len(types) - b + 1
      /\ \A k \in 1..(Len(types) - b + 1) : q[k] = types[b - 1 + k]
  BY <1>1, SMT, Z3
<1>4. InsertAt(types, b, e) = c \o q
  BY DEF InsertAt
<1> HIDE DEF p, q
<1>5. c \in Seq(Entry) /\ Len(c) = b /\ c[b] = e /\ \A k \in 1..(b - 1) : c[k] = types[k]
  BY <1>1, <1>2, SMT, Z3
<1> HIDE DEF c
<1> DEFINE r == c \o q
<1>6. r \in Seq(Entry) /\ Len(r) = Len(types) + 1
  <2>1. r \in Seq(Entry) /\ Len(r) = Len(c) + Len(q)
    BY <1>3, <1>5, Joined
  <2>2. b + (Len(types) - b + 1) = Len(types) + 1
    BY <1>1, SMT
  <2> QED
    BY <1>3, <1>5, <2>1, <2>2
<1>7. \A k \in 1..b : r[k] = c[k]
  BY <1>1, <1>3, <1>5, SMT, Z3
<1>8. ASSUME NEW k \in (b + 1)..(Len(types) + 1) PROVE r[k] = types[k - 1]
  <2>1. r[k] = q[k - b] /\ k - b \in 1..(Len(types) - b + 1) /\ b - 1 + (k - b) = k - 1
    BY <1>1, <1>3, <1>5, SMT, Z3
  <2>2. q[k - b] = types[b - 1 + (k - b)]
    BY <1>3, <2>1
  <2> QED
    BY <2>1, <2>2
<1>9. r[b] = e /\ \A k \in 1..(b - 1) : r[k] = types[k]
  <2>1. b \in 1..b /\ \A k \in 1..(b - 1) : k \in 1..b
    BY <1>1, SMT
  <2> QED
    BY <1>5, <1>7, <2>1
<1> HIDE DEF r
<1> QED
  BY <1>4, <1>6, <1>8, <1>9 DEF r

(* An unknown type that is inserted at its lower bound keeps the list      *)
(* sorted; it is found from then on, and every other search answers as     *)
(* before.                                                                 *)
LEMMA InsertedType ==
  ASSUME Divides, NEW types \in Seq(Entry), ByName(types), NEW e \in Entry, e.name \notin Builtin,
         ~Known(types, e.name)
  PROVE  LET r == InsertAt(types, lower_bound(types, e.name), e)
         IN /\ r \in Seq(Entry) /\ ByName(r)
            /\ \A i \in DOMAIN r : r[i] = e \/ \E j \in DOMAIN types : r[i] = types[j]
            /\ Find(r, e.name) = e.ptr
            /\ \A y \in Nat : y # e.name => Find(r, y) = Find(types, y)
<1> DEFINE n == Len(types)
           x == e.name
           b == lower_bound(types, x)
           r == InsertAt(types, b, e)
<1>1. /\ n \in Nat /\ DOMAIN types = 1..n
      /\ \A i \in 1..n : types[i] \in Entry /\ types[i].name \in Nat
  BY EntryFacts
<1>2. x \in Nat /\ e.ptr \in Nat
  BY SMT DEF Entry
<1>3. /\ b \in 1..(n + 1)
      /\ \A j \in 1..n : types[j].name < x <=> j < b
  BY <1>1, <1>2, Zenon DEF Divides
<1>4. \A j \in 1..n : types[j].name # x
  BY <1>1, <1>2, KnownPlace
<1> HIDE DEF b
<1>5. /\ r \in Seq(Entry) /\ Len(r) = n + 1
      /\ \A k \in 1..(b - 1) : r[k] = types[k]
      /\ r[b] = e
      /\ \A k \in (b + 1)..(n + 1) : r[k] = types[k - 1]
  BY <1>3, InsertedAt
<1>6. DOMAIN r = 1..(n + 1)
  BY <1>5, EntryFacts
<1> HIDE DEF r, x, n
<1>7. \A j \in 1..n : j < b => j \in 1..(b - 1)
  BY <1>1, <1>3, SMT
<1>8. ASSUME NEW k \in 1..(n + 1)
      PROVE  \/ k \in 1..(b - 1) /\ k \in 1..n
             \/ k = b
             \/ k \in (b + 1)..(n + 1) /\ k - 1 \in 1..n /\ ~(k - 1 < b)
  BY <1>1, <1>3, SMT
<1>9. ByName(r)
  <2> SUFFICES ASSUME NEW i \in 1..(n + 1), NEW j \in 1..(n + 1), i < j
               PROVE  r[i].name < r[j].name
    BY <1>6 DEF ByName
  <2>1. CASE i \in 1..(b - 1) /\ i \in 1..n
    <3>1. r[i] = types[i] /\ types[i].name < x
      BY <1>3, <1>5, <2>1, SMT
    <3>2. CASE j \in 1..(b - 1) /\ j \in 1..n
      BY <1>1, <1>5, <2>1, <3>1, <3>2 DEF ByName
    <3>3. CASE j = b
      BY <1>5, <3>1, <3>3 DEF x
    <3>4. CASE j \in (b + 1)..(n + 1) /\ j - 1 \in 1..n /\ ~(j - 1 < b)
      <4>1. i < j - 1
        BY <1>1, <1>3, <2>1, <3>4, SMT
      <4>2. types[i].name < types[j - 1].name
        BY <1>1, <2>1, <3>4, <4>1 DEF ByName
      <4> QED
        BY <1>5, <3>1, <3>4, <4>2
    <3> QED
      BY <1>8, <3>2, <3>3, <3>4
  <2>2. CASE i = b
    <3>1. j \in (b + 1)..(n + 1) /\ j - 1 \in 1..n /\ ~(j - 1 < b)
      BY <1>1, <1>3, <2>2, SMT
    <3>2. ~(types[j - 1].name < x) /\ types[j - 1].name # x /\ types[j - 1].name \in Nat
      BY <1>1, <1>3, <1>4, <3>1
    <3>3. x < types[j - 1].name
      BY <1>2, <3>2, SMT
    <3> QED
      BY <1>5, <2>2, <3>1, <3>3 DEF x
  <2>3. CASE i \in (b + 1)..(n + 1) /\ i - 1 \in 1..n /\ ~(i - 1 < b)
    <3>1. j \in (b + 1)..(n + 1) /\ j - 1 \in 1..n /\ i - 1 < j - 1
      BY <1>1, <1>3, <2>3, SMT
    <3>2. types[i - 1].name < types[j - 1].name
      BY <1>1, <2>3, <3>1 DEF ByName
    <3> QED
      BY <1>5, <2>3, <3>1, <3>2
  <2> QED
    BY <1>8, <2>1, <2>2, <2>3
<1>10. \A i \in DOMAIN r : r[i] = e \/ \E j \in DOMAIN types : r[i] = types[j]
  BY <1>1, <1>5, <1>6, <1>8
<1>11. \A j \in DOMAIN types : \E i \in DOMAIN r : r[i] = types[j]
  <2> SUFFICES ASSUME NEW j \in 1..n PROVE \E i \in 1..(n + 1) : r[i] = types[j]
    BY <1>1, <1>6
  <2>1. CASE j < b
    <3>1. j \in 1..(b - 1) /\ j \in 1..(n + 1)
      BY <1>1, <1>3, <2>1, SMT
    <3> QED
      BY <1>5, <3>1
  <2>2. CASE ~(j < b)
    <3>1. j + 1 \in (b + 1)..(n + 1) /\ j + 1 \in 1..(n + 1) /\ (j + 1) - 1 = j
      BY <1>1, <1>3, <2>2, SMT
    <3>2. r[j + 1] = types[j]
      BY <1>5, <3>1
    <3> QED
      BY <3>1, <3>2
  <2> QED
    BY <2>1, <2>2
<1>12. Find(r, x) = e.ptr
  <2>1. b \in DOMAIN r /\ r[b].name = x
    BY <1>3, <1>5, <1>6 DEF x
  <2>2. x \in Nat \ Builtin
    BY <1>2 DEF x
  <2>3. Find(r, x) = r[b].ptr
    BY <1>5, <1>9, <2>1, <2>2, FindSpec
  <2> QED
    BY <1>5, <2>3
<1>13. ASSUME NEW y \in Nat, y # x PROVE Find(r, y) = Find(types, y)
  <2>1. CASE y \in Builtin
    BY <2>1 DEF Find
  <2>2. CASE y \notin Builtin /\ \E j \in DOMAIN types : types[j].name = y
    <3>1. PICK j \in DOMAIN types : types[j].name = y
      BY <2>2
    <3>2. PICK i \in DOMAIN r : r[i] = types[j]
      BY <1>11
    <3> QED
      BY <1>5, <1>9, <2>2, <3>1, <3>2, FindSpec
  <2>3. CASE y \notin Builtin /\ \A j \in DOMAIN types : types[j].name # y
    <3>1. \A i \in DOMAIN r : r[i].name # y
      BY <1>10, <1>13, <2>3 DEF x
    <3> QED
      BY <1>5, <1>9, <2>3, <3>1, FindSpec
  <2> QED
    BY <2>1, <2>2, <2>3
<1> QED
  BY <1>5, <1>9, <1>10, <1>12, <1>13 DEF b, x, r

-----------------------------------------------------------------------------
Places == {"idle", "lock", "initialize", "store", "have", "elements", "insert"}
Types == maps[1].types
Map == [ready : BOOLEAN, types : Seq(Entry)]

TypesTyped ==
  /\ s_map \in {0, 1} /\ s_mtx \in Users \cup {NoUser}
  /\ maps \in Seq(Map) /\ Len(maps) \in {0, 1}
  /\ utis \in Nat
  /\ where \in [Users -> Places]
  /\ uti_map \in [Users -> {0, 1}]
  /\ call \in [Users -> (TypeNames \cup {0}) \X BOOLEAN]
  /\ uti \in [Users -> Entry]
  /\ answers \in [TypeNames -> Int]

(* There is one map at most; whoever creates it holds the mutex until the  *)
(* pointer is stored, and nobody has the pointer before.                   *)
MapInv ==
  /\ \A t \in Users : s_mtx = t <=> where[t] \in {"initialize", "store"}
  /\ Len(maps) = 0 <=> s_map = 0 /\ s_mtx = NoUser
  /\ s_mtx # NoUser => s_map = 0 /\ Types = <<>> /\ uti_map[s_mtx] = 1
  /\ \A t \in Users : where[t] = "store" => maps[1].ready
  /\ s_map = 1 => maps[1].ready
  /\ \A t \in Users : where[t] \in {"have", "elements", "insert"} => s_map = 1 /\ uti_map[t] = 1

(* A type of the user: its elements are those that a search finds, or null *)
(* if they were not known then.                                            *)
EntryOK(types, e) ==
  /\ e.ptr # 0 /\ e.name \in UserTypes \cup Tuples
  /\ \A k \in DOMAIN e.elements :
       LET x == ElementsOf[e.name][k]
       IN x \in TypeNames /\ e.elements[k] \in {0, Find(types, x)}

TypesOK(types) == ByName(types) /\ \A i \in DOMAIN types : EntryOK(types, types[i])

(* What a thread is about to look up, make or insert.                      *)
CallInv ==
  \A t \in Users :
    /\ where[t] # "idle" => call[t][1] \in TypeNames /\ (call[t][2] => call[t][1] \in UserTypes)
    /\ where[t] \in {"elements", "insert"} => EntryOK(Types, uti[t]) /\ uti[t].name = call[t][1]
    /\ where[t] = "elements" => call[t][1] \in Tuples

(* Every answer that is not null is the one a search gives now.            *)
AnswerInv == \A x \in TypeNames : answers[x] # 0 => s_map = 1 /\ answers[x] = Find(Types, x)

TypesInv == /\ TypesTyped /\ MapInv /\ CallInv /\ AnswerInv
            /\ Len(maps) = 1 => TypesOK(Types)

LEMMA TypesInvInit == TypesInit => TypesInv
<1> SUFFICES ASSUME TypesInit PROVE TypesInv
  OBVIOUS
<1> USE DEF TypesInit
<1>1. NoUti \in Entry
  BY SMT DEF NoUti, Entry
<1>2. maps \in Seq(Map) /\ Len(maps) = 0
  BY SMT
<1>3. TypesTyped
  <2>1. <<0, FALSE>> \in (TypeNames \cup {0}) \X BOOLEAN
    OBVIOUS
  <2> QED
    BY <1>1, <1>2, <2>1, SMT DEF TypesTyped, Places
<1>4. MapInv /\ CallInv /\ AnswerInv
  BY <1>2, TypeNamesAssumption, SMT DEF MapInv, CallInv, AnswerInv
<1> QED
  BY <1>2, <1>3, <1>4, SMT DEF TypesInv

(* The first load of the pointer: a thread that sees it has the map.       *)
LEMMA LazyGetStep ==
  ASSUME TypesInv, NEW t \in Users, lazy_get(t)
  PROVE  TypesInv' /\ answers' = answers
<1>1. PICK c \in (TypeNames \X {FALSE}) \cup (UserTypes \X {TRUE}) :
        call' = [call EXCEPT ![t] = c]
  BY DEF lazy_get
<1>2. /\ c \in (TypeNames \cup {0}) \X BOOLEAN
      /\ c[1] \in TypeNames /\ (c[2] => c[1] \in UserTypes)
  BY DEF TypeNames
<1>3. /\ UNCHANGED <<s_map, s_mtx, maps, utis, uti, answers>> /\ where[t] = "idle"
      /\ uti_map' = [uti_map EXCEPT ![t] = s_map]
  BY DEF lazy_get
<1>4. PICK p \in {"lock", "have"} : where' = [where EXCEPT ![t] = p] /\ (p = "have" <=> s_map # 0)
  BY DEF lazy_get, Goes
<1>5. TypesTyped'
  BY <1>1, <1>2, <1>3, <1>4 DEF TypesInv, TypesTyped, Places
<1>6. /\ where'[t] = p /\ call'[t] = c /\ uti_map'[t] = s_map
      /\ \A u \in Users \ {t} : where'[u] = where[u] /\ call'[u] = call[u] /\ uti_map'[u] = uti_map[u]
  BY <1>1, <1>3, <1>4 DEF TypesInv, TypesTyped
<1>7. MapInv'
  <2>1. s_mtx # t
    BY <1>3 DEF TypesInv, MapInv
  <2>2. s_mtx # NoUser => s_mtx \in Users \ {t}
    BY <2>1 DEF TypesInv, TypesTyped
  <2>3. Types' = Types
    BY <1>3 DEF Types
  <2> QED
    BY <1>3, <1>4, <1>6, <2>1, <2>2, <2>3, SMT DEF TypesInv, TypesTyped, MapInv
<1>8. CallInv'
  BY <1>2, <1>3, <1>4, <1>6, SMT DEF TypesInv, CallInv, Types
<1>9. AnswerInv' /\ (Len(maps) = 1 => TypesOK(Types))'
  BY <1>3 DEF TypesInv, AnswerInv, Types
<1> QED
  BY <1>3, <1>5, <1>7, <1>8, <1>9 DEF TypesInv

(* Under the mutex: the map of another thread, or a new one.               *)
LEMMA CreateStep ==
  ASSUME TypesInv, NEW t \in Users, create_singleton(t)
  PROVE  TypesInv' /\ answers' = answers
<1>1. /\ UNCHANGED <<s_map, utis, call, uti, calls, answers>>
      /\ where[t] = "lock" /\ s_mtx = NoUser
  BY DEF create_singleton
<1>2. CASE s_map # 0
  <2>1. /\ uti_map' = [uti_map EXCEPT ![t] = s_map] /\ where' = [where EXCEPT ![t] = "have"]
        /\ UNCHANGED <<s_mtx, maps>>
    BY <1>2 DEF create_singleton, Goes
  <2>2. /\ where'[t] = "have" /\ uti_map'[t] = s_map
        /\ \A u \in Users \ {t} : where'[u] = where[u] /\ uti_map'[u] = uti_map[u]
    BY <2>1 DEF TypesInv, TypesTyped
  <2>3. TypesTyped'
    BY <1>1, <2>1 DEF TypesInv, TypesTyped, Places
  <2>4. MapInv'
    BY <1>1, <1>2, <2>1, <2>2, TypeNamesAssumption, SMT DEF TypesInv, TypesTyped, MapInv, Types
  <2>5. CallInv'
    BY <1>1, <2>1, <2>2, SMT DEF TypesInv, CallInv, Types
  <2>6. AnswerInv' /\ (Len(maps) = 1 => TypesOK(Types))'
    BY <1>1, <2>1 DEF TypesInv, AnswerInv, Types
  <2> QED
    BY <1>1, <2>3, <2>4, <2>5, <2>6 DEF TypesInv
<1>3. CASE s_map = 0
  <2> DEFINE new == [ready |-> FALSE, types |-> <<>>]
  <2>1. /\ maps' = Append(maps, new) /\ s_mtx' = t
        /\ uti_map' = [uti_map EXCEPT ![t] = Len(maps')] /\ where' = [where EXCEPT ![t] = "initialize"]
    BY <1>3 DEF create_singleton, Goes
  <2>2. Len(maps) = 0
    BY <1>1, <1>3 DEF TypesInv, MapInv
  <2>3. new \in Map
    BY SMT DEF Map
  <2>4. /\ maps' \in Seq(Map) /\ Len(maps') = 1
        /\ maps'[1] = new
    <3> HIDE DEF new
    <3> QED
      BY <2>1, <2>2, <2>3, SMT DEF TypesInv, TypesTyped
  <2>5. Types' = <<>>
    BY <2>4 DEF Types
  <2>6. /\ where'[t] = "initialize" /\ uti_map'[t] = 1
        /\ \A u \in Users \ {t} : where'[u] = where[u] /\ uti_map'[u] = uti_map[u]
    BY <2>1, <2>4 DEF TypesInv, TypesTyped
  <2>7. TypesTyped'
    BY <1>1, <2>1, <2>4 DEF TypesInv, TypesTyped, Places
  <2>8. t # NoUser
    BY TypeNamesAssumption
  <2>9. \A u \in Users : where[u] \notin {"initialize", "store", "have", "elements", "insert"}
    BY <1>1, <1>3, TypeNamesAssumption, SMT DEF TypesInv, MapInv
  <2>10. MapInv'
    BY <1>1, <1>3, <2>1, <2>4, <2>5, <2>6, <2>8, <2>9, SMT DEF MapInv
  <2>11. CallInv'
    BY <1>1, <2>6, <2>9, SMT DEF TypesInv, CallInv
  <2>12. AnswerInv'
    BY <1>1, <1>3, SMT DEF TypesInv, AnswerInv
  <2>13. TypesOK(Types)'
    BY <2>5, SMT DEF TypesOK, ByName
  <2> QED
    BY <1>1, <2>7, <2>10, <2>11, <2>12, <2>13 DEF TypesInv
<1> QED
  BY <1>2, <1>3

LEMMA OnlyMap ==
  ASSUME NEW m \in Seq(Map), Len(m) = 1, NEW f \in Map
  PROVE  LET n == [m EXCEPT ![1] = f] IN n \in Seq(Map) /\ Len(n) = 1 /\ n[1] = f
BY SMT

LEMMA FirstMap ==
  ASSUME NEW m \in Seq(Map), Len(m) = 1
  PROVE  m[1] \in Map
BY SMT

LEMMA MapFacts ==
  ASSUME NEW m \in Map
  PROVE  /\ [m EXCEPT !.ready = TRUE] \in Map
         /\ [m EXCEPT !.ready = TRUE].types = m.types
         /\ [m EXCEPT !.ready = TRUE].ready
         /\ \A types \in Seq(Entry) :
              /\ [m EXCEPT !.types = types] \in Map
              /\ [m EXCEPT !.types = types].types = types
              /\ [m EXCEPT !.types = types].ready = m.ready
         /\ m.types \in Seq(Entry)
BY DEF Map

(* initialize() and the store of the pointer, by the holder of the mutex.  *)
LEMMA InitializeStep ==
  ASSUME TypesInv, NEW t \in Users, initialize(t)
  PROVE  TypesInv' /\ answers' = answers
<1>1. /\ UNCHANGED <<s_map, s_mtx, utis, uti_map, call, uti, answers>>
      /\ where[t] = "initialize" /\ where' = [where EXCEPT ![t] = "store"]
      /\ maps' = [maps EXCEPT ![uti_map[t]].ready = TRUE]
  BY DEF initialize, Goes
<1>2. s_mtx = t /\ t # NoUser
  BY <1>1, TypeNamesAssumption, SMT DEF TypesInv, MapInv
<1>3. uti_map[t] = 1 /\ s_map = 0 /\ Len(maps) = 1
  BY <1>2, SMT DEF TypesInv, TypesTyped, MapInv
<1>4. /\ maps' \in Seq(Map) /\ Len(maps') = 1
      /\ maps'[1].ready /\ maps'[1].types = maps[1].types
  <2> DEFINE f == [maps[1] EXCEPT !.ready = TRUE]
  <2>1. maps' = [maps EXCEPT ![1] = f]
    BY <1>1, <1>3
  <2>2. maps \in Seq(Map) /\ maps[1] \in Map
    BY <1>3, FirstMap DEF TypesInv, TypesTyped
  <2>3. f \in Map /\ f.types = maps[1].types /\ f.ready
    BY <2>2, MapFacts
  <2> HIDE DEF f
  <2> QED
    BY <1>3, <2>1, <2>2, <2>3, OnlyMap
<1>5. Types' = Types
  BY <1>4 DEF Types
<1>6. /\ where'[t] = "store" /\ \A u \in Users \ {t} : where'[u] = where[u]
  BY <1>1 DEF TypesInv, TypesTyped
<1>7. TypesTyped'
  BY <1>1, <1>4 DEF TypesInv, TypesTyped, Places
<1>8. MapInv'
  BY <1>1, <1>2, <1>3, <1>4, <1>5, <1>6, SMT DEF TypesInv, MapInv
<1>9. CallInv'
  BY <1>1, <1>5, <1>6, SMT DEF TypesInv, CallInv
<1>10. AnswerInv' /\ (Len(maps) = 1 => TypesOK(Types))'
  BY <1>1, <1>3, <1>5 DEF TypesInv, AnswerInv
<1> QED
  BY <1>1, <1>7, <1>8, <1>9, <1>10 DEF TypesInv

LEMMA StoreStep ==
  ASSUME TypesInv, NEW t \in Users, store(t)
  PROVE  TypesInv' /\ answers' = answers
<1>1. /\ UNCHANGED <<maps, utis, uti_map, call, uti, answers>>
      /\ where[t] = "store" /\ where' = [where EXCEPT ![t] = "have"]
      /\ s_map' = uti_map[t] /\ s_mtx' = NoUser
  BY DEF store, Goes
<1>2. s_mtx = t /\ t # NoUser
  BY <1>1, TypeNamesAssumption, SMT DEF TypesInv, MapInv
<1>3. uti_map[t] = 1 /\ s_map = 0 /\ Len(maps) = 1 /\ maps[1].ready
  BY <1>1, <1>2, SMT DEF TypesInv, TypesTyped, MapInv
<1>4. Types' = Types
  BY <1>1 DEF Types
<1>5. /\ where'[t] = "have" /\ \A u \in Users \ {t} : where'[u] = where[u]
  BY <1>1 DEF TypesInv, TypesTyped
<1>6. \A u \in Users \ {t} : where[u] \notin {"initialize", "store", "have", "elements", "insert"}
  BY <1>2, <1>3, SMT DEF TypesInv, MapInv
<1>7. TypesTyped'
  BY <1>1, <1>3 DEF TypesInv, TypesTyped, Places
<1>8. MapInv'
  BY <1>1, <1>3, <1>5, <1>6, TypeNamesAssumption, SMT DEF MapInv
<1>9. CallInv'
  BY <1>1, <1>4, <1>5, SMT DEF TypesInv, CallInv
<1>10. AnswerInv' /\ (Len(maps) = 1 => TypesOK(Types))'
  BY <1>1, <1>3, <1>4, SMT DEF TypesInv, AnswerInv
<1> QED
  BY <1>1, <1>7, <1>8, <1>9, <1>10 DEF TypesInv

(* A thread that has the map goes on to a place where it still has it, and *)
(* the map stays as it is.                                                 *)
LEMMA HaveMoves ==
  ASSUME TypesInv, NEW t \in Users, where[t] \in {"have", "elements", "insert"},
         NEW p \in {"idle", "elements", "insert"}, where' = [where EXCEPT ![t] = p],
         UNCHANGED <<s_map, s_mtx, uti_map>>, Len(maps') = Len(maps), maps'[1].ready = maps[1].ready
  PROVE  MapInv'
<1>1. where'[t] = p /\ \A u \in Users \ {t} : where'[u] = where[u]
  BY DEF TypesInv, TypesTyped
<1>2. s_map = 1 /\ uti_map[t] = 1
  BY DEF TypesInv, MapInv
<1>3. s_mtx = NoUser
  BY <1>2, SMT DEF TypesInv, MapInv
<1> QED
  BY <1>1, <1>2, <1>3, TypeNamesAssumption, SMT DEF TypesInv, MapInv

(* announce() and a search for an unknown tuple make a new type, whose     *)
(* elements are still to come.                                             *)
LEMMA NewType ==
  ASSUME TypesInv, NEW t \in Users, where[t] = "have", call[t][1] \in UserTypes \cup Tuples,
         NEW p \in {"elements", "insert"}, where' = [where EXCEPT ![t] = p],
         p = "elements" => call[t][1] \in Tuples,
         utis' = utis + 1,
         uti' = [uti EXCEPT ![t] = [name |-> call[t][1], ptr |-> utis', elements |-> <<>>]],
         UNCHANGED <<s_map, s_mtx, maps, uti_map, call, answers>>
  PROVE  TypesInv'
<1> DEFINE e == [name |-> call[t][1], ptr |-> utis', elements |-> <<>>]
<1>1. utis' \in Nat /\ utis' # 0
  BY SMT DEF TypesInv, TypesTyped
<1>2. call[t][1] \in Nat
  BY TypeNamesAssumption DEF TypeNames
<1>3. e \in Entry /\ e.ptr = utis' /\ e.name = call[t][1] /\ e.elements = <<>>
  BY <1>1, <1>2, SMT DEF Entry
<1>4. EntryOK(Types, e)
  <2>1. DOMAIN e.elements = {}
    BY <1>3, SMT
  <2> QED
    BY <1>1, <1>3, <2>1 DEF EntryOK
<1> HIDE DEF e
<1>5. /\ uti' = [uti EXCEPT ![t] = e]
      /\ uti'[t] = e /\ where'[t] = p
      /\ \A u \in Users \ {t} : uti'[u] = uti[u] /\ where'[u] = where[u]
  BY DEF TypesInv, TypesTyped, e
<1>6. TypesTyped'
  BY <1>1, <1>3, <1>5 DEF TypesInv, TypesTyped, Places
<1>7. MapInv'
  BY HaveMoves
<1>8. CallInv'
  <2>1. Types' = Types
    BY DEF Types
  <2>2. call[t][1] \in TypeNames /\ (call[t][2] => call[t][1] \in UserTypes)
    BY SMT DEF TypesInv, CallInv
  <2> QED
    BY <1>3, <1>4, <1>5, <2>1, <2>2, SMT DEF TypesInv, CallInv
<1>9. AnswerInv' /\ (Len(maps) = 1 => TypesOK(Types))'
  BY DEF TypesInv, AnswerInv, Types
<1> QED
  BY <1>6, <1>7, <1>8, <1>9 DEF TypesInv

LEMMA FindName ==
  ASSUME NEW x
  PROVE  find_name(1, x) = Find(Types, x)
BY DEF find_name, Find, Known, Types

(* What a search answers is a number; nothing but a builtin type is        *)
(* negative.                                                               *)
LEMMA FindInt ==
  ASSUME Divides, NEW types \in Seq(Entry), ByName(types), NEW x \in Nat
  PROVE  Find(types, x) \in Int
<1>1. CASE x \in Builtin
  BY <1>1, SMT DEF Find
<1>2. CASE x \notin Builtin /\ Known(types, x)
  <2>1. PICK i : i = lower_bound(types, x)
    OBVIOUS
  <2>2. types[i] \in Entry
    BY <1>2, <2>1, KnownPlace, EntryFacts
  <2>3. types[i].ptr \in Nat
    BY <2>2, SMT DEF Entry
  <2>4. Find(types, x) = types[i].ptr
    BY <1>2, <2>1 DEF Find
  <2> QED
    BY <2>3, <2>4, SMT
<1>3. CASE x \notin Builtin /\ ~Known(types, x)
  BY <1>3, SMT DEF Find
<1> QED
  BY <1>1, <1>2, <1>3

(* What a thread that has the map sees.                                    *)
LEMMA HaveMap ==
  ASSUME TypesInv, NEW t \in Users, where[t] \in {"have", "elements", "insert"}
  PROVE  /\ s_map = 1 /\ uti_map[t] = 1 /\ Len(maps) = 1 /\ maps[1] \in Map
         /\ Types \in Seq(Entry) /\ TypesOK(Types) /\ ByName(Types)
         /\ call[t][1] \in TypeNames /\ call[t][1] \in Nat
         /\ \A x \in TypeNames : x \in Nat
<1>1. s_map = 1 /\ uti_map[t] = 1
  BY DEF TypesInv, MapInv
<1>2. Len(maps) = 1
  BY <1>1, SMT DEF TypesInv, TypesTyped, MapInv
<1>3. maps[1] \in Map
  BY <1>2, FirstMap DEF TypesInv, TypesTyped
<1>4. Types \in Seq(Entry) /\ TypesOK(Types)
  BY <1>2, <1>3, MapFacts DEF TypesInv, Types
<1>5. call[t][1] \in TypeNames
  BY SMT DEF TypesInv, CallInv
<1>6. \A x \in TypeNames : x \in Nat
  BY TypeNamesAssumption
<1> QED
  BY <1>1, <1>2, <1>3, <1>4, <1>5, <1>6 DEF TypesOK

(* A list that grows keeps the elements of its types right.                *)
LEMMA GrownOK ==
  ASSUME NEW types, NEW more, NEW e, EntryOK(types, e),
         \A x \in TypeNames : Find(types, x) # 0 => Find(more, x) = Find(types, x)
  PROVE  EntryOK(more, e)
BY DEF EntryOK

LEMMA AnnounceStep ==
  ASSUME TypesInv, NEW t \in Users, announce(t)
  PROVE  TypesInv' /\ answers' = answers
<1>1. call[t][1] \in UserTypes
  BY SMT DEF announce, TypesInv, CallInv
<1> QED
  BY <1>1, NewType DEF announce, Goes

(* The answer of thread t is what a search for its name gives afterwards;  *)
(* if it gave something before, that is the same.                          *)
LEMMA AnswerGiven ==
  ASSUME TypesInv, NEW t \in Users, where[t] \in {"have", "insert"},
         NEW ptr \in Int, Answer(t, ptr),
         UNCHANGED <<s_map, s_mtx, utis, uti_map, call>>,
         maps' \in Seq(Map), Len(maps') = 1, maps'[1].ready = maps[1].ready, TypesOK(Types'),
         ptr = Find(Types', call[t][1]),
         \A x \in TypeNames : Find(Types, x) # 0 => Find(Types', x) = Find(Types, x)
  PROVE  /\ TypesInv'
         /\ \A x \in TypeNames : answers[x] # 0 => answers'[x] = answers[x]
<1> DEFINE y == call[t][1]
<1>1. /\ s_map = 1 /\ uti_map[t] = 1 /\ Len(maps) = 1 /\ call[t][1] \in TypeNames
      /\ \A x \in TypeNames : x \in Nat
  BY HaveMap
<1>2. /\ answers' = [answers EXCEPT ![y] = ptr]
      /\ where' = [where EXCEPT ![t] = "idle"] /\ uti' = [uti EXCEPT ![t] = NoUti]
  BY DEF Answer, Goes
<1>3. NoUti \in Entry
  BY SMT DEF NoUti, Entry
<1>4. TypesTyped'
  BY <1>1, <1>2, <1>3 DEF TypesInv, TypesTyped, Places
<1>5. MapInv'
  BY <1>1, <1>2, HaveMoves
<1>6. /\ where'[t] = "idle"
      /\ \A u \in Users \ {t} : where'[u] = where[u] /\ uti'[u] = uti[u] /\ uti[u] \in Entry
  BY <1>2 DEF TypesInv, TypesTyped
<1>7. CallInv'
  BY <1>6, GrownOK DEF TypesInv, CallInv
<1>8. ASSUME NEW x \in TypeNames, answers[x] # 0
      PROVE  answers'[x] = answers[x] /\ answers[x] = Find(Types', x)
  <2>1. answers[x] = Find(Types, x) /\ Find(Types', x) = Find(Types, x)
    BY <1>8 DEF TypesInv, AnswerInv
  <2> QED
    BY <1>1, <1>2, <2>1 DEF TypesInv, TypesTyped
<1>9. AnswerInv'
  <2> SUFFICES ASSUME NEW x \in TypeNames, answers'[x] # 0 PROVE s_map' = 1 /\ answers'[x] = Find(Types', x)
    BY DEF AnswerInv
  <2>1. CASE x = y
    BY <1>1, <1>2, <2>1 DEF TypesInv, TypesTyped
  <2>2. CASE x # y
    <3>1. answers'[x] = answers[x]
      BY <1>1, <1>2, <2>2 DEF TypesInv, TypesTyped
    <3> QED
      BY <1>1, <1>8, <3>1
  <2> QED
    BY <2>1, <2>2
<1> QED
  BY <1>4, <1>5, <1>7, <1>8, <1>9 DEF TypesInv

(* A search answers at once, or a tuple is to be made.                     *)
LEMMA SearchStep ==
  ASSUME Divides, TypesInv, NEW t \in Users, by_uniform_name(t)
  PROVE  /\ TypesInv'
         /\ \A x \in TypeNames : answers[x] # 0 => answers'[x] = answers[x]
<1> DEFINE y == call[t][1]
           result == find_name(uti_map[t], y)
<1>1. where[t] = "have" /\ UNCHANGED <<s_map, s_mtx, maps, uti_map, call>>
  BY DEF by_uniform_name
<1>2. /\ s_map = 1 /\ uti_map[t] = 1 /\ Len(maps) = 1 /\ maps \in Seq(Map)
      /\ Types \in Seq(Entry) /\ TypesOK(Types) /\ ByName(Types)
      /\ y \in TypeNames /\ y \in Nat
  BY <1>1, HaveMap DEF TypesInv, TypesTyped
<1>3. Types' = Types
  BY <1>1 DEF Types
<1>4. CASE result = 0 /\ y \in Tuples
  <2>1. /\ utis' = utis + 1 /\ where' = [where EXCEPT ![t] = "elements"] /\ answers' = answers
        /\ uti' = [uti EXCEPT ![t] = [name |-> y, ptr |-> utis', elements |-> <<>>]]
    BY <1>4 DEF by_uniform_name, Goes
  <2>2. TypesInv'
    BY <1>1, <1>4, <2>1, NewType
  <2> QED
    BY <2>1, <2>2
<1>5. CASE ~(result = 0 /\ y \in Tuples)
  <2>1. Answer(t, result) /\ utis' = utis
    BY <1>5 DEF by_uniform_name
  <2>2. result = Find(Types, y)
    BY <1>2, FindName
  <2>3. result \in Int
    BY <1>2, <2>2, FindInt
  <2> HIDE DEF result
  <2> QED
    BY <1>1, <1>2, <1>3, <2>1, <2>2, <2>3, AnswerGiven
<1> QED
  BY <1>4, <1>5

(* One element of a tuple is looked up.                                    *)
LEMMA ElementStep ==
  ASSUME Divides, TypesInv, NEW t \in Users, default_meta_message(t)
  PROVE  TypesInv' /\ answers' = answers
<1> DEFINE e == uti[t]
           names == ElementsOf[e.name]
           k == Len(e.elements) + 1
<1>1. where[t] = "elements" /\ UNCHANGED <<s_map, s_mtx, maps, utis, uti_map, call, answers>>
  BY DEF default_meta_message
<1>2. /\ s_map = 1 /\ uti_map[t] = 1 /\ Len(maps) = 1 /\ maps \in Seq(Map)
      /\ Types \in Seq(Entry) /\ TypesOK(Types) /\ ByName(Types)
      /\ \A x \in TypeNames : x \in Nat
  BY <1>1, HaveMap DEF TypesInv, TypesTyped
<1>3. Types' = Types
  BY <1>1 DEF Types
<1>4. e \in Entry /\ EntryOK(Types, e) /\ e.name = call[t][1] /\ e.name \in Tuples
  BY <1>1 DEF TypesInv, TypesTyped, CallInv
<1>5. AnswerInv' /\ (Len(maps) = 1 => TypesOK(Types))'
  BY <1>1, <1>3 DEF TypesInv, AnswerInv
<1>6. CASE k > Len(names)
  <2>1. where' = [where EXCEPT ![t] = "insert"] /\ uti' = uti
    BY <1>6 DEF default_meta_message, Goes
  <2>2. where'[t] = "insert" /\ \A u \in Users \ {t} : where'[u] = where[u]
    BY <2>1 DEF TypesInv, TypesTyped
  <2>3. TypesTyped'
    BY <1>1, <2>1 DEF TypesInv, TypesTyped, Places
  <2>4. MapInv'
    BY <1>1, <2>1, HaveMoves
  <2>5. CallInv'
    BY <1>1, <1>3, <2>1, <2>2, SMT DEF TypesInv, CallInv
  <2> QED
    BY <1>1, <1>5, <2>3, <2>4, <2>5 DEF TypesInv
<1>7. CASE ~(k > Len(names))
  <2> DEFINE g == find_name(uti_map[t], names[k])
             f == [e EXCEPT !.elements = Append(@, g)]
  <2>1. where' = where /\ uti' = [uti EXCEPT ![t] = f]
    BY <1>7 DEF default_meta_message
  <2>2. e.elements \in Seq(Int) /\ names \in Seq(Builtin \cup UserTypes)
    BY <1>4, TypeNamesAssumption, SMT DEF Entry
  <2>3. names[k] \in TypeNames
    <3>1. k \in 1..Len(names)
      BY <1>7, <2>2, SMT
    <3> HIDE DEF names, k
    <3>2. names[k] \in Builtin \cup UserTypes
      BY <2>2, <3>1, SMT
    <3> QED
      BY <3>2 DEF TypeNames
  <2>4. g = Find(Types, names[k])
    BY <1>2, FindName
  <2>5. g \in Int
    BY <1>2, <2>3, <2>4, FindInt
  <2> HIDE DEF g
  <2>6. Append(e.elements, g) \in Seq(Int)
    BY <2>2, <2>5, SMT
  <2>7. f \in Entry /\ f.name = e.name /\ f.ptr = e.ptr /\ f.elements = Append(e.elements, g)
    BY <1>4, <2>6 DEF Entry
  <2> HIDE DEF f
  <2>8. EntryOK(Types, f)
    <3> SUFFICES ASSUME NEW j \in DOMAIN f.elements
                 PROVE  names[j] \in TypeNames /\ f.elements[j] \in {0, Find(Types, names[j])}
      BY <1>4, <2>7 DEF EntryOK
    <3>1. CASE j = k
      <4>1. Append(e.elements, g)[k] = g
        BY <2>2, <2>5, SMT
      <4> QED
        BY <2>3, <2>4, <2>7, <3>1, <4>1
    <3>2. CASE j # k
      <4>1. j \in DOMAIN e.elements /\ Append(e.elements, g)[j] = e.elements[j]
        BY <2>2, <2>5, <2>7, <3>2, SMT
      <4> QED
        BY <1>4, <2>7, <4>1 DEF EntryOK
    <3> QED
      BY <3>1, <3>2
  <2>9. uti'[t] = f /\ \A u \in Users \ {t} : uti'[u] = uti[u]
    BY <2>1 DEF TypesInv, TypesTyped
  <2>10. TypesTyped'
    BY <1>1, <2>1, <2>7 DEF TypesInv, TypesTyped
  <2>11. MapInv'
    BY <1>1, <1>3, <2>1 DEF TypesInv, MapInv
  <2>12. CallInv'
    BY <1>1, <1>3, <1>4, <2>1, <2>7, <2>8, <2>9 DEF TypesInv, CallInv
  <2> QED
    BY <1>1, <1>5, <2>10, <2>11, <2>12 DEF TypesInv
<1> QED
  BY <1>6, <1>7

(* A known type is answered instead of the one made in the meantime; an    *)
(* unknown one gets its place.                                             *)
LEMMA InsertStep ==
  ASSUME Divides, TypesInv, NEW t \in Users, insert_type(t)
  PROVE  /\ TypesInv'
         /\ \A x \in TypeNames : answers[x] # 0 => answers'[x] = answers[x]
<1> DEFINE e == uti[t]
<1>1. where[t] = "insert" /\ UNCHANGED <<s_map, s_mtx, utis, uti_map, call>>
  BY DEF insert_type
<1>2. /\ s_map = 1 /\ uti_map[t] = 1 /\ Len(maps) = 1 /\ maps \in Seq(Map) /\ maps[1] \in Map
      /\ Types \in Seq(Entry) /\ TypesOK(Types) /\ ByName(Types)
      /\ \A x \in TypeNames : x \in Nat
  BY <1>1, HaveMap DEF TypesInv, TypesTyped
<1>3. e \in Entry /\ EntryOK(Types, e) /\ e.name = call[t][1]
  BY <1>1 DEF TypesInv, TypesTyped, CallInv
<1>4. e.name \notin Builtin /\ e.name \in TypeNames
  BY <1>3, TypeNamesAssumption DEF EntryOK, TypeNames
<1>5. e.ptr \in Int /\ e.name \in Nat
  BY <1>3, SMT DEF Entry
<1> HIDE DEF e
<1>6. CASE Known(Types, e.name)
  <2>1. PICK ptr : ptr = Types[lower_bound(Types, e.name)].ptr
    OBVIOUS
  <2>2. Answer(t, ptr) /\ maps' = maps
    BY <1>2, <1>6, <2>1 DEF insert_type, e, Types
  <2>3. Types' = Types
    BY <2>2 DEF Types
  <2>4. ptr = Find(Types, e.name)
    BY <1>4, <1>6, <2>1 DEF Find
  <2>5. ptr \in Int
    BY <1>2, <1>5, <2>4, FindInt
  <2> QED
    BY <1>1, <1>2, <1>3, <2>2, <2>3, <2>4, <2>5, AnswerGiven
<1>7. CASE ~Known(Types, e.name)
  <2> DEFINE r == InsertAt(Types, lower_bound(Types, e.name), e)
             f == [maps[1] EXCEPT !.types = r]
  <2>1. Answer(t, e.ptr) /\ maps' = [maps EXCEPT ![1] = f]
    BY <1>2, <1>7 DEF insert_type, e, Types
  <2>2. /\ r \in Seq(Entry) /\ ByName(r)
        /\ \A i \in DOMAIN r : r[i] = e \/ \E j \in DOMAIN Types : r[i] = Types[j]
        /\ Find(r, e.name) = e.ptr
        /\ \A y \in Nat : y # e.name => Find(r, y) = Find(Types, y)
    BY <1>2, <1>3, <1>4, <1>7, InsertedType
  <2> HIDE DEF r
  <2>3. f \in Map /\ f.types = r /\ f.ready = maps[1].ready
    BY <1>2, <2>2, MapFacts
  <2> HIDE DEF f
  <2>4. maps' \in Seq(Map) /\ Len(maps') = 1 /\ maps'[1] = f
    BY <1>2, <2>1, <2>3, OnlyMap
  <2>5. Types' = r
    BY <2>3, <2>4 DEF Types
  <2>6. Find(Types, e.name) = 0
    BY <1>4, <1>7 DEF Find
  <2>7. \A x \in TypeNames : Find(Types, x) # 0 => Find(Types', x) = Find(Types, x)
    BY <1>2, <2>2, <2>5, <2>6
  <2>8. TypesOK(Types')
    <3>1. \A i \in DOMAIN Types : EntryOK(Types, Types[i])
      BY <1>2 DEF TypesOK
    <3>2. \A i \in DOMAIN r : EntryOK(Types, r[i])
      BY <1>3, <2>2, <3>1
    <3>3. \A i \in DOMAIN r : EntryOK(r, r[i])
      BY <2>5, <2>7, <3>2, GrownOK
    <3> QED
      BY <2>2, <2>5, <3>3 DEF TypesOK
  <2> QED
    BY <1>1, <1>2, <1>3, <1>5, <2>1, <2>2, <2>3, <2>4, <2>5, <2>7, <2>8, AnswerGiven
<1> QED
  BY <1>6, <1>7

(* What the invariant says of the lists.                                   *)
LEMMA TypesInvSorted == TypesInv => OneMap /\ TypesSorted
<1> SUFFICES ASSUME TypesInv PROVE OneMap /\ TypesSorted
  OBVIOUS
<1>1. OneMap
  BY DEF TypesInv, MapInv, OneMap
<1>2. TypesSorted
  <2> SUFFICES ASSUME NEW m \in DOMAIN maps
               PROVE  LET types == maps[m].types
                      IN /\ \A i, j \in DOMAIN types : i < j => types[i].name < types[j].name
                         /\ \A i \in DOMAIN types : \A k \in DOMAIN types[i].elements :
                              types[i].elements[k] \in {0, find_name(m, ElementsOf[types[i].name][k])}
    BY DEF TypesSorted
  <2>1. m = 1 /\ Len(maps) = 1
    BY SMT DEF TypesInv, TypesTyped
  <2>2. TypesOK(Types)
    BY <2>1 DEF TypesInv
  <2>3. \A x : find_name(1, x) = Find(Types, x)
    BY FindName
  <2> QED
    BY <2>1, <2>2, <2>3 DEF TypesOK, ByName, EntryOK, Types
<1> QED
  BY <1>1, <1>2

-----------------------------------------------------------------------------
(* Actors, their links and the registry.                                   *)

(* A lock is held by the thread that links or unlinks.                     *)
LockOK(t) == \A x \in All : mtx[x] = t <=> at(t) \in {"link", "unlink"} /\ self(t) = x
LockInv == \A t \in Threads : LockOK(t)

(* What a thread works on at each point, and that nothing is left to call  *)
(* outside of attach() and cleanup().                                      *)
JobOK(t) ==
  /\ at(t) \in {"link", "unlink"} => self(t) \in All /\ other(t) \in All /\ self(t) # other(t)
  /\ at(t) \in {"call", "cleanup"} => self(t) \in All /\ exited(self(t))
  /\ at(t) \notin {"call", "cleanup"} => \A i \in Attachables : todo[t][i] = 0
  /\ at(t) = "call" => \A i \in Attachables : todo[t][i] <= 1
  /\ at(t) = "call" /\ t # Broker => todo[t][functor] = 0
  /\ at(t) = "cleanup" => t = Cleaner(self(t))
  /\ at(t) = "put" => t = Broker /\ self(t) \in Actors
  /\ at(t) \in {"new", "wake", "done"} => t # Broker
  /\ at(t) \in {"wake", "done"} => exited(t)
JobInv == \A t \in Threads : JobOK(t)

(* An actor that ended holds no attachables.                               *)
ListInv == \A x \in All : exited(x) => \A i \in Attachables : attached[x][i] = 0

Unlinking(x, y) == \E t \in Threads : at(t) = "unlink" /\ self(t) = x /\ other(t) = y

(* The two ends of a link agree unless one of them is being unlinked.      *)
LinkInv == \A x, y \in All : x # y =>
  /\ attached[x][link(y)] <= 1
  /\ Unlinking(x, y) => attached[x][link(y)] = 0
  /\ ~exited(x) /\ ~exited(y) /\ ~Unlinking(x, y) /\ ~Unlinking(y, x)
       => attached[x][link(y)] = attached[y][link(x)]

(* A link to an actor that ended comes with its exit_msg.                  *)
DeadInv == \A x, y \in All :
  x # y /\ ~exited(x) /\ exited(y) /\ attached[x][link(y)] > 0
    => \/ inbox[x][link(y)] > 0
       \/ \E t \in Threads : self(t) = y /\ todo[t][link(x)] > 0

(* An entry that is live has its functor, or is about to.                  *)
EntryInv == \A a \in All :
  /\ entry[a] \in Reasons => entry[a] = exitReason[a]
  /\ entry[a] = "live" =>
       \/ attached[a][functor] > 0
       \/ at(Broker) = "put" /\ self(Broker) = a
       \/ \E t \in Threads : self(t) = a /\ todo[t][functor] > 0

(* m_running counts the actors that have not told the registry.            *)
Unfinished == {a \in Actors : at(a) \notin {"new", "wake", "done"}}
CountInv == running = Cardinality(Unfinished) /\ (waiter = "done" => Unfinished = {})

LifeInv == /\ LifeTypeOK /\ LockInv /\ JobInv /\ ListInv /\ LinkInv /\ DeadInv
           /\ DownForEveryMonitor /\ EntryInv /\ CountInv

-----------------------------------------------------------------------------
(* The kinds of attachables are apart, and so are threads and actors.      *)
LEMMA Items ==
  /\ functor \in Attachables
  /\ \A x \in All : link(x) \in Attachables /\ make_monitor(x) \in Attachables
                    /\ link(x) # functor /\ make_monitor(x) # functor
  /\ \A x, y \in All : /\ link(x) # make_monitor(y)
                       /\ link(x) = link(y) => x = y
                       /\ make_monitor(x) = make_monitor(y) => x = y
  /\ \A i \in Attachables : i = functor \/ (\E x \in All : i = link(x)) \/ (\E x \in All : i = make_monitor(x))
  BY SMT, Z3 DEF Attachables, link, make_monitor, functor

LEMMA Parties ==
  /\ \A x \in Actors : x \in All /\ x \in Threads /\ x # Broker
  /\ Broker \in Threads /\ Broker \notin All
  /\ \A t \in Threads : t # Broker => t \in Actors
  /\ \A y \in All : Cleaner(y) \in Threads /\ (y \in Actors => Cleaner(y) = y) /\ (y \notin Actors => Cleaner(y) = Broker)
  /\ \A t \in Threads : t # "free"
  BY LifecycleAssumption DEF All, Threads, Cleaner

(* A table of counts in which one count changes.                           *)
LEMMA OneCount ==
  ASSUME NEW A, NEW B, NEW f \in [A -> [B -> Nat]], NEW x \in A, NEW i \in B, NEW e \in Nat,
         NEW g, g = [f EXCEPT ![x][i] = e]
  PROVE  /\ g \in [A -> [B -> Nat]]
         /\ g[x][i] = e
         /\ \A v \in A : \A j \in B : (v # x \/ j # i) => g[v][j] = f[v][j]
         /\ \A v \in A : v # x => g[v] = f[v]
<1>1. g = [f EXCEPT ![x] = [f[x] EXCEPT ![i] = e]]
  OBVIOUS
<1>2. [f[x] EXCEPT ![i] = e] \in [B -> Nat]
  OBVIOUS
<1> QED
  BY <1>1, <1>2

(* A thread goes to another step of its own; the others stay.              *)
Steps == {"new", "idle", "link", "unlink", "call", "cleanup", "wake", "done", "put"}

LEMMA DoesFacts ==
  ASSUME LifeTypeOK, NEW t \in Threads, NEW step \in Steps, NEW x \in All \cup Threads, NEW y \in All \cup Threads,
         Does(t, step, x, y)
  PROVE  /\ job' \in [Threads -> [at : Steps, self : All \cup Threads, other : All \cup Threads]]
         /\ at(t)' = step /\ self(t)' = x /\ other(t)' = y
         /\ \A u \in Threads : u # t => job'[u] = job[u]
         /\ \A u \in Threads : u # t => at(u)' = at(u) /\ self(u)' = self(u) /\ other(u)' = other(u)
<1>1. job \in [Threads -> [at : Steps, self : All \cup Threads, other : All \cup Threads]]
  BY DEF LifeTypeOK, Steps
<1>2. Job(step, x, y) \in [at : Steps, self : All \cup Threads, other : All \cup Threads]
  BY DEF Job
<1>3. job' = [job EXCEPT ![t] = Job(step, x, y)]
  BY DEF Does
<1>4. \A u \in Threads : u # t => job'[u] = job[u]
  BY <1>1, <1>3
<1> QED
  BY <1>1, <1>2, <1>3, <1>4 DEF Job, at, self, other

(* What a step leaves to the other threads.                                *)
OthersStay(t) == \A u \in Threads : u # t => /\ job'[u] = job[u] /\ todo'[u] = todo[u]
                                             /\ at(u)' = at(u) /\ self(u)' = self(u) /\ other(u)' = other(u)

LEMMA JobKept ==
  ASSUME JobInv, NEW t \in Threads, OthersStay(t), JobOK(t)', \A x \in All : exited(x) => exited(x)'
  PROVE  JobInv'
<1> SUFFICES ASSUME NEW u \in Threads, u # t PROVE JobOK(u)'
  BY DEF JobInv
<1>1. JobOK(u) /\ at(u)' = at(u) /\ self(u)' = self(u) /\ other(u)' = other(u) /\ todo'[u] = todo[u]
  BY DEF JobInv, OthersStay
<1>2. at(u) \in {"wake", "done"} => u \in All
  BY <1>1, Parties DEF JobOK
<1> QED
  BY <1>1, <1>2 DEF JobOK, Cleaner

LEMMA LockKept ==
  ASSUME LifeTypeOK, LockInv, NEW t \in Threads, OthersStay(t), LockOK(t)',
         \A x \in All : mtx'[x] = mtx[x] \/ (mtx[x] \in {t, "free"} /\ mtx'[x] \in {t, "free"})
  PROVE  LockInv'
<1> SUFFICES ASSUME NEW u \in Threads, u # t PROVE LockOK(u)'
  BY DEF LockInv
<1>1. LockOK(u) /\ at(u)' = at(u) /\ self(u)' = self(u) /\ u # "free"
  BY Parties DEF LockInv, OthersStay
<1> QED
  BY <1>1 DEF LockOK

(* A step that changes nothing.                                            *)
LEMMA StutterInv ==
  ASSUME LifeInv, UNCHANGED lifeVars
  PROVE  LifeInv'
<1>1. /\ exitReason' = exitReason /\ attached' = attached /\ mtx' = mtx /\ job' = job /\ todo' = todo
      /\ inbox' = inbox /\ owed' = owed /\ entry' = entry /\ running' = running
      /\ waiter' = waiter /\ ops' = ops
  BY DEF lifeVars
<1>2. LifeTypeOK'
  BY <1>1 DEF LifeInv, LifeTypeOK
<1>3. LockInv'
  BY <1>1, SMT, Z3 DEF LifeInv, LockInv, LockOK, at, self
<1>4. JobInv'
  BY <1>1 DEF LifeInv, JobInv, JobOK, at, self, other, exited
<1>5. ListInv'
  BY <1>1 DEF LifeInv, ListInv, exited
<1>6. LinkInv'
  BY <1>1 DEF LifeInv, LinkInv, Unlinking, at, self, other, exited
<1>7. DeadInv'
  BY <1>1, SMT, Z3 DEF LifeInv, DeadInv, self, exited
<1>8. DownForEveryMonitor'
  BY <1>1, SMT, Z3 DEF LifeInv, DownForEveryMonitor, Swapped, Late, at, self
<1>9. EntryInv'
  BY <1>1 DEF LifeInv, EntryInv, at, self
<1>10. CountInv'
  BY <1>1 DEF LifeInv, CountInv, Unfinished, at
<1> QED
  BY <1>2, <1>3, <1>4, <1>5, <1>6, <1>7, <1>8, <1>9, <1>10 DEF LifeInv

(* No down message is due from t, before or after.                         *)
LEMMA CallsKept ==
  ASSUME NEW t \in Threads, OthersStay(t),
         \A x \in All : todo[t][make_monitor(x)] = 0 /\ todo'[t][make_monitor(x)] = 0
  PROVE  \A x, y \in All : Swapped(x, y)' = Swapped(x, y) /\ Late(x, y)' = Late(x, y)
<1> SUFFICES ASSUME NEW x \in All, NEW y \in All
             PROVE  Swapped(x, y)' = Swapped(x, y) /\ Late(x, y)' = Late(x, y)
  OBVIOUS
<1>1. Swapped(x, y)' = Swapped(x, y)
  <2>1. PICK c \in Threads : c = Cleaner(y)
    BY Parties
  <2>2. CASE c = t
    BY <2>1, <2>2 DEF Swapped, Cleaner
  <2>3. CASE c # t
    <3>1. at(c)' = at(c) /\ self(c)' = self(c) /\ todo'[c] = todo[c]
      BY <2>3 DEF OthersStay
    <3> QED
      BY <2>1, <3>1 DEF Swapped, Cleaner
  <2> QED
    BY <2>2, <2>3
<1>2. Late(x, y)' = Late(x, y)
  BY SMT, Z3 DEF Late, OthersStay
<1> QED
  BY <1>1, <1>2

LEMMA DownKept ==
  ASSUME DownForEveryMonitor, UNCHANGED owed,
         \A x, y \in All : Swapped(x, y)' = Swapped(x, y) /\ Late(x, y)' = Late(x, y),
         \A x, y \in All : attached'[y][make_monitor(x)] = attached[y][make_monitor(x)],
         \A x, y \in All : inbox'[x][make_monitor(y)] = inbox[x][make_monitor(y)]
  PROVE  DownForEveryMonitor'
  BY SMT, Z3 DEF DownForEveryMonitor

LEMMA CountKept ==
  ASSUME CountInv, NEW t \in Threads, OthersStay(t),
         t \in Actors => (at(t) \in {"new", "wake", "done"} <=> at(t)' \in {"new", "wake", "done"}),
         UNCHANGED <<running, waiter>>
  PROVE  CountInv'
<1>1. Unfinished' = Unfinished
  BY Parties DEF Unfinished, OthersStay
<1> QED
  BY <1>1 DEF CountInv

LEMMA Quiet ==
  ASSUME JobInv, NEW t \in Threads, at(t) \notin {"call", "cleanup"}
  PROVE  \A i \in Attachables : todo[t][i] = 0
  BY DEF JobInv, JobOK

LEMMA UnlinkKept ==
  ASSUME NEW t \in Threads, OthersStay(t), at(t) # "unlink", at(t)' # "unlink"
  PROVE  \A x, y \in All : Unlinking(x, y)' <=> Unlinking(x, y)
  BY DEF Unlinking, OthersStay

LEMMA LinkKept ==
  ASSUME LinkInv, \A x, y \in All : Unlinking(x, y)' <=> Unlinking(x, y),
         \A x, y \in All : attached'[x][link(y)] = attached[x][link(y)],
         UNCHANGED exitReason
  PROVE  LinkInv'
  BY SMT, Z3 DEF LinkInv, exited

LEMMA DeadKept ==
  ASSUME DeadInv, NEW t \in Threads, OthersStay(t), \A i \in Attachables : todo[t][i] = 0,
         \A x, y \in All : exited(y) /\ attached'[x][link(y)] > 0 => attached[x][link(y)] > 0,
         \A x, y \in All : inbox[x][link(y)] > 0 => inbox'[x][link(y)] > 0,
         UNCHANGED exitReason
  PROVE  DeadInv'
<1> SUFFICES ASSUME NEW x \in All, NEW y \in All,
                    x # y, ~exited(x), exited(y), attached[x][link(y)] > 0
             PROVE  \/ inbox'[x][link(y)] > 0
                    \/ \E u \in Threads : self(u)' = y /\ todo'[u][link(x)] > 0
  BY DEF DeadInv, exited
<1>1. CASE inbox[x][link(y)] > 0
  BY <1>1
<1>2. CASE \E u \in Threads : self(u) = y /\ todo[u][link(x)] > 0
  <2>1. PICK u \in Threads : self(u) = y /\ todo[u][link(x)] > 0
    BY <1>2
  <2>2. u # t
    BY <2>1, Items, SMT, Z3
  <2> QED
    BY <2>1, <2>2 DEF OthersStay
<1> QED
  BY <1>1, <1>2 DEF DeadInv

LEMMA EntryKept ==
  ASSUME EntryInv, NEW t \in Threads, OthersStay(t), todo[t][functor] = 0, at(t) # "put",
         \A x \in All : attached'[x][functor] = attached[x][functor],
         UNCHANGED <<exitReason, entry>>
  PROVE  EntryInv'
<1> SUFFICES ASSUME NEW a \in All, entry[a] = "live"
             PROVE  \/ attached'[a][functor] > 0
                    \/ at(Broker)' = "put" /\ self(Broker)' = a
                    \/ \E u \in Threads : self(u)' = a /\ todo'[u][functor] > 0
  BY DEF EntryInv
<1>1. CASE attached[a][functor] > 0
  BY <1>1
<1>2. CASE at(Broker) = "put" /\ self(Broker) = a
  BY <1>2, Parties DEF OthersStay
<1>3. CASE \E u \in Threads : self(u) = a /\ todo[u][functor] > 0
  <2>1. PICK u \in Threads : self(u) = a /\ todo[u][functor] > 0
    BY <1>3
  <2>2. u # t
    BY <2>1, SMT, Z3
  <2> QED
    BY <2>1, <2>2 DEF OthersStay
<1> QED
  BY <1>1, <1>2, <1>3 DEF EntryInv

(* A thread that calls nothing moves on, and the lists stay.               *)
LEMMA QuietLists ==
  ASSUME LifeInv, NEW t \in Threads, OthersStay(t), at(t) # "unlink", at(t)' # "unlink",
         \A i \in Attachables : todo[t][i] = 0 /\ todo'[t][i] = 0,
         \A x, y \in All : inbox[x][link(y)] > 0 => inbox'[x][link(y)] > 0,
         \A x, y \in All : inbox'[x][make_monitor(y)] = inbox[x][make_monitor(y)],
         UNCHANGED <<exitReason, attached, owed>>
  PROVE  ListInv' /\ LinkInv' /\ DeadInv' /\ DownForEveryMonitor'
<1>1. ListInv'
  BY DEF LifeInv, ListInv, exited
<1>2. LinkInv'
  BY UnlinkKept, LinkKept DEF LifeInv
<1>3. DeadInv'
  BY DeadKept DEF LifeInv
<1>4. DownForEveryMonitor'
  BY CallsKept, DownKept, Items DEF LifeInv
<1> QED
  BY <1>1, <1>2, <1>3, <1>4

LEMMA QuietStep ==
  ASSUME LifeInv, NEW t \in Threads, OthersStay(t),
         at(t) \notin {"unlink", "put"}, at(t)' # "unlink",
         \A i \in Attachables : todo[t][i] = 0 /\ todo'[t][i] = 0,
         \A x, y \in All : inbox[x][link(y)] > 0 => inbox'[x][link(y)] > 0,
         \A x, y \in All : inbox'[x][make_monitor(y)] = inbox[x][make_monitor(y)],
         UNCHANGED <<exitReason, attached, owed, entry>>
  PROVE  ListInv' /\ LinkInv' /\ DeadInv' /\ DownForEveryMonitor' /\ EntryInv'
<1>1. ListInv' /\ LinkInv' /\ DeadInv' /\ DownForEveryMonitor'
  BY QuietLists
<1>2. EntryInv'
  BY EntryKept, Items DEF LifeInv
<1> QED
  BY <1>1, <1>2

LEMMA LockSame ==
  ASSUME LifeInv, NEW t \in Threads, OthersStay(t), UNCHANGED mtx,
         at(t) \notin {"link", "unlink"}, at(t)' \notin {"link", "unlink"}
  PROVE  LockInv'
<1>1. LockOK(t)'
  BY DEF LifeInv, LockInv, LockOK
<1> QED
  BY <1>1, LockKept DEF LifeInv

LEMMA AllCalledFacts ==
  ASSUME NEW t \in Threads, AllCalled(t)
  PROVE  \A i \in Attachables : todo[t][i] = 0
  BY DEF AllCalled, NoAttachables

LEMMA ReturnInv ==
  ASSUME LifeInv, NEW t \in Threads, Return(t)
  PROVE  LifeInv'
<1>2. Does(t, "idle", t, t) /\ at(t) \in {"call", "cleanup"} /\ AllCalled(t) /\ LifeTypeOK
  BY DEF Return, GoesIdle, LifeInv
<1>3. /\ job' \in [Threads -> [at : Steps, self : All \cup Threads, other : All \cup Threads]]
      /\ at(t)' = "idle" /\ self(t)' = t /\ OthersStay(t)
  BY <1>2, DoesFacts DEF Steps, OthersStay, Return
<1>4. UNCHANGED <<exitReason, attached, mtx, todo, inbox, owed, entry, running, waiter, ops>>
  BY DEF Return, registry
<1>5. \A i \in Attachables : todo[t][i] = 0
  BY <1>2, AllCalledFacts
<1>6. ListInv' /\ LinkInv' /\ DeadInv' /\ DownForEveryMonitor' /\ EntryInv'
  BY <1>2, <1>3, <1>4, <1>5, QuietStep
<1>7. LifeTypeOK'
  BY <1>2, <1>3, <1>4 DEF LifeTypeOK, Steps
<1>8. LockInv'
  BY <1>2, <1>3, <1>4, LockSame
<1>9. JobInv'
  <2>1. JobOK(t)'
    BY <1>3, <1>4, <1>5 DEF JobOK
  <2> QED
    BY <1>3, <1>4, <2>1, JobKept DEF LifeInv, exited
<1>10. CountInv'
  BY <1>2, <1>3, <1>4, CountKept DEF LifeInv
<1> QED
  BY <1>6, <1>7, <1>8, <1>9, <1>10 DEF LifeInv

LEMMA NotifyInv ==
  ASSUME LifeInv, NEW t \in Threads, notify_all(t)
  PROVE  LifeInv'
<1>2. Does(t, "done", t, t) /\ at(t) = "wake" /\ LifeTypeOK
  BY DEF notify_all, LifeInv
<1>3. /\ job' \in [Threads -> [at : Steps, self : All \cup Threads, other : All \cup Threads]]
      /\ at(t)' = "done" /\ self(t)' = t /\ OthersStay(t)
  BY <1>2, DoesFacts DEF Steps, OthersStay, notify_all
<1>4. /\ UNCHANGED <<exitReason, attached, mtx, todo, inbox, owed, entry, running, ops>>
      /\ waiter' \in {"check", waiter}
  BY DEF notify_all
<1>5. \A i \in Attachables : todo[t][i] = 0
  BY <1>2, Quiet DEF LifeInv
<1>6. ListInv' /\ LinkInv' /\ DeadInv' /\ DownForEveryMonitor' /\ EntryInv'
  BY <1>2, <1>3, <1>4, <1>5, QuietStep
<1>7. LifeTypeOK'
  BY <1>2, <1>3, <1>4 DEF LifeTypeOK, Steps
<1>8. LockInv'
  BY <1>2, <1>3, <1>4, LockSame
<1>9. JobInv'
  <2>1. JobOK(t)'
    BY <1>2, <1>3, <1>4, <1>5 DEF LifeInv, JobInv, JobOK, exited
  <2> QED
    BY <1>3, <1>4, <2>1, JobKept DEF LifeInv, exited
<1>10. CountInv'
  <2>1. Unfinished' = Unfinished
    BY <1>2, <1>3, Parties DEF Unfinished, OthersStay
  <2> QED
    BY <1>4, <2>1 DEF LifeInv, CountInv
<1> QED
  BY <1>6, <1>7, <1>8, <1>9, <1>10 DEF LifeInv

LEMMA StartsFacts ==
  ASSUME LifeInv, NEW t \in Threads, Starts(t)
  PROVE  /\ at(t) = "idle" /\ ops' \in 0..MaxOps /\ (t \in Actors => ~exited(t))
         /\ \A i \in Attachables : todo[t][i] = 0
<1>1. at(t) = "idle" /\ (t \in Actors => ~exited(t)) /\ ops \in 0..MaxOps /\ ops < MaxOps /\ ops' = ops + 1
  BY DEF Starts, Idle, LifeInv, LifeTypeOK
<1>2. ops' \in 0..MaxOps
  BY <1>1, LifecycleAssumption, SMT, Z3
<1> QED
  BY <1>1, <1>2, Quiet DEF LifeInv

LEMMA MtxFacts ==
  ASSUME LifeInv, NEW x \in All, NEW v \in Threads \cup {"free"}, mtx' = [mtx EXCEPT ![x] = v]
  PROVE  /\ mtx' \in [All -> Threads \cup {"free"}] /\ mtx'[x] = v
         /\ \A y \in All : y # x => mtx'[y] = mtx[y]
  BY DEF LifeInv, LifeTypeOK

(* The thread that releases its lock held it, and holds none afterwards.   *)
LEMMA ReleaseFacts ==
  ASSUME LifeInv, NEW t \in Threads, at(t) \in {"link", "unlink"}, Release(t), UNCHANGED <<exitReason, todo>>
  PROVE  /\ job' \in [Threads -> [at : Steps, self : All \cup Threads, other : All \cup Threads]]
         /\ mtx' \in [All -> Threads \cup {"free"}]
         /\ at(t)' = "idle" /\ OthersStay(t)
         /\ self(t) \in All /\ other(t) \in All /\ self(t) # other(t) /\ mtx[self(t)] = t
         /\ \A i \in Attachables : todo[t][i] = 0
         /\ LockInv' /\ JobInv'
<1>1. LifeTypeOK /\ Does(t, "idle", t, t) /\ mtx' = [mtx EXCEPT ![self(t)] = "free"]
  BY DEF LifeInv, Release, GoesIdle
<1>2. /\ job' \in [Threads -> [at : Steps, self : All \cup Threads, other : All \cup Threads]]
      /\ at(t)' = "idle" /\ OthersStay(t)
  BY <1>1, DoesFacts DEF Steps, OthersStay
<1>3. self(t) \in All /\ other(t) \in All /\ self(t) # other(t) /\ mtx[self(t)] = t
  BY DEF LifeInv, LockInv, LockOK, JobInv, JobOK
<1>4. /\ mtx' \in [All -> Threads \cup {"free"}] /\ mtx'[self(t)] = "free"
      /\ \A y \in All : y # self(t) => mtx'[y] = mtx[y]
  BY <1>1, <1>3, MtxFacts
<1>5. \A i \in Attachables : todo[t][i] = 0
  BY Quiet DEF LifeInv
<1>6. LockInv'
  <2>1. LockOK(t)'
    BY <1>2, <1>3, <1>4, Parties, SMT, Z3 DEF LockOK, LifeInv, LockInv
  <2> QED
    BY <1>2, <1>3, <1>4, <2>1, LockKept DEF LifeInv
<1>7. JobInv'
  <2>1. JobOK(t)'
    BY <1>2, <1>5 DEF JobOK
  <2> QED
    BY <1>2, <2>1, JobKept DEF LifeInv, exited
<1> QED
  BY <1>2, <1>3, <1>4, <1>5, <1>6, <1>7

LEMMA EstablishLinkInv ==
  ASSUME LifeInv, NEW t \in Threads, NEW x \in All, NEW y \in All, establish_link(t, x, y)
  PROVE  LifeInv'
<1>1. Starts(t) /\ x # y /\ mtx[x] = "free" /\ mtx' = [mtx EXCEPT ![x] = t] /\ LifeTypeOK /\ Does(t, "link", x, y)
  BY DEF establish_link, LifeInv
<1>2. at(t) = "idle" /\ ops' \in 0..MaxOps /\ \A i \in Attachables : todo[t][i] = 0
  BY <1>1, StartsFacts
<1>3. /\ job' \in [Threads -> [at : Steps, self : All \cup Threads, other : All \cup Threads]]
      /\ at(t)' = "link" /\ self(t)' = x /\ other(t)' = y /\ OthersStay(t)
  BY <1>1, DoesFacts DEF Steps, OthersStay, establish_link
<1>4. UNCHANGED <<exitReason, attached, todo, inbox, owed, entry, running, waiter>>
  BY DEF establish_link, registry
<1>5. /\ mtx' \in [All -> Threads \cup {"free"}] /\ mtx'[x] = t
      /\ \A v \in All : v # x => mtx'[v] = mtx[v]
  BY <1>1, MtxFacts
<1>6. ListInv' /\ LinkInv' /\ DeadInv' /\ DownForEveryMonitor' /\ EntryInv'
  BY <1>2, <1>3, <1>4, QuietStep
<1>7. LifeTypeOK'
  BY <1>1, <1>2, <1>3, <1>4, <1>5 DEF LifeTypeOK, Steps
<1>8. LockInv'
  <2>1. LockOK(t)'
    BY <1>2, <1>3, <1>5 DEF LockOK, LifeInv, LockInv
  <2> QED
    BY <1>1, <1>3, <1>5, <2>1, LockKept DEF LifeInv
<1>9. JobInv'
  <2>1. JobOK(t)'
    BY <1>1, <1>2, <1>3, <1>4 DEF JobOK
  <2> QED
    BY <1>3, <1>4, <2>1, JobKept DEF LifeInv, exited
<1>10. CountInv'
  BY <1>2, <1>3, <1>4, CountKept DEF LifeInv
<1> QED
  BY <1>6, <1>7, <1>8, <1>9, <1>10 DEF LifeInv

LEMMA LinkMail ==
  ASSUME LifeTypeOK, NEW x \in All, NEW y \in All, Deliver("link", x, y)
  PROVE  /\ inbox' \in [All -> [Attachables -> Nat]]
         /\ inbox'[y][link(x)] > 0
         /\ \A v, w \in All : inbox[v][link(w)] > 0 => inbox'[v][link(w)] > 0
         /\ \A v, w \in All : inbox'[v][make_monitor(w)] = inbox[v][make_monitor(w)]
<1>1. inbox \in [All -> [Attachables -> Nat]] /\ link(x) \in Attachables
  BY Items DEF LifeTypeOK
<1>2. inbox[y][link(x)] + 1 \in Nat
  BY <1>1, SMT, Z3
<1>3. inbox' = [inbox EXCEPT ![y][link(x)] = inbox[y][link(x)] + 1]
  BY DEF Deliver, link
<1>4. /\ inbox' \in [All -> [Attachables -> Nat]]
      /\ inbox'[y][link(x)] = inbox[y][link(x)] + 1
      /\ \A v \in All : \A j \in Attachables : (v # y \/ j # link(x)) => inbox'[v][j] = inbox[v][j]
  BY <1>1, <1>2, <1>3, OneCount, SMT, Z3
<1>5. inbox'[y][link(x)] > 0
  BY <1>1, <1>4, SMT, Z3
<1> QED
  BY <1>4, <1>5, Items

LEMMA EstablishLinkExitedInv ==
  ASSUME LifeInv, NEW t \in Threads, establish_link_exited(t)
  PROVE  LifeInv'
<1>1. /\ at(t) = "link" /\ Release(t) /\ LifeTypeOK
      /\ UNCHANGED <<exitReason, attached, todo, owed, entry, running, waiter, ops>>
  BY DEF establish_link_exited, LifeInv, registry
<1>2. PICK x \in All, y \in All : x = self(t) /\ y = other(t) /\ x # y
  BY <1>1, ReleaseFacts, SMT, Z3
<1>3. /\ job' \in [Threads -> [at : Steps, self : All \cup Threads, other : All \cup Threads]]
      /\ mtx' \in [All -> Threads \cup {"free"}]
      /\ at(t)' = "idle" /\ OthersStay(t) /\ (\A i \in Attachables : todo[t][i] = 0)
      /\ LockInv' /\ JobInv'
  BY <1>1, ReleaseFacts
<1>4. Deliver("link", x, y)
  BY <1>2 DEF establish_link_exited
<1>5. ListInv' /\ LinkInv' /\ DeadInv' /\ DownForEveryMonitor' /\ EntryInv'
  BY <1>1, <1>3, <1>4, LinkMail, QuietStep
<1>6. LifeTypeOK'
  BY <1>1, <1>3, <1>4, LinkMail DEF LifeTypeOK, Steps
<1>7. CountInv'
  BY <1>1, <1>3, CountKept DEF LifeInv
<1> QED
  BY <1>3, <1>5, <1>6, <1>7 DEF LifeInv

(* Nobody is unlinking an actor whose lock is free.                        *)
LEMMA FreeNotUnlinking ==
  ASSUME LifeInv, NEW x \in All, mtx[x] = "free"
  PROVE  \A y \in All : ~Unlinking(x, y)
  BY Parties, SMT, Z3 DEF LifeInv, LockInv, LockOK, Unlinking

(* Only links change.                                                      *)
LEMMA LinkStep ==
  ASSUME LifeInv, NEW t \in Threads, OthersStay(t), at(t) # "put",
         \A i \in Attachables : todo[t][i] = 0 /\ todo'[t][i] = 0,
         \A v \in All : \A j \in Attachables :
           (\A w \in All : j # link(w)) => attached'[v][j] = attached[v][j],
         UNCHANGED <<exitReason, inbox, owed, entry>>
  PROVE  DownForEveryMonitor' /\ EntryInv'
<1>1. \A v, w \in All : attached'[v][make_monitor(w)] = attached[v][make_monitor(w)]
  BY Items
<1>2. \A v \in All : attached'[v][functor] = attached[v][functor]
  BY Items
<1>3. DownForEveryMonitor'
  BY <1>1, CallsKept, DownKept, Items DEF LifeInv
<1>4. EntryInv'
  BY <1>2, EntryKept, Items DEF LifeInv
<1> QED
  BY <1>3, <1>4

LEMMA BacklinkInv ==
  ASSUME LifeInv, NEW t \in Threads, establish_backlink(t)
  PROVE  LifeInv'
<1>1. /\ at(t) = "link" /\ Release(t) /\ LifeTypeOK
      /\ UNCHANGED <<exitReason, todo, owed, entry, running, waiter, ops>>
  BY DEF establish_backlink, LifeInv, registry
<1>2. PICK x \in All, y \in All : x = self(t) /\ y = other(t) /\ x # y /\ mtx[x] = t
  BY <1>1, ReleaseFacts
<1>3. /\ job' \in [Threads -> [at : Steps, self : All \cup Threads, other : All \cup Threads]]
      /\ mtx' \in [All -> Threads \cup {"free"}]
      /\ at(t)' = "idle" /\ OthersStay(t) /\ (\A i \in Attachables : todo[t][i] = 0)
      /\ LockInv' /\ JobInv'
  BY <1>1, ReleaseFacts
<1>4. CountInv'
  BY <1>1, <1>3, CountKept DEF LifeInv
<1>5. CASE Deliver("link", y, x) /\ UNCHANGED attached
  <2>1. ListInv' /\ LinkInv' /\ DeadInv' /\ DownForEveryMonitor' /\ EntryInv'
    BY <1>1, <1>3, <1>5, LinkMail, QuietStep
  <2>2. LifeTypeOK'
    BY <1>1, <1>3, <1>5, LinkMail DEF LifeTypeOK, Steps
  <2> QED
    BY <1>3, <1>4, <2>1, <2>2 DEF LifeInv
<1>6. CASE UNCHANGED <<attached, inbox>>
  <2>1. ListInv' /\ LinkInv' /\ DeadInv' /\ DownForEveryMonitor' /\ EntryInv'
    BY <1>1, <1>3, <1>6, QuietStep
  <2>2. LifeTypeOK'
    BY <1>1, <1>3, <1>6 DEF LifeTypeOK, Steps
  <2> QED
    BY <1>3, <1>4, <2>1, <2>2 DEF LifeInv
<1>7. CASE /\ ~exited(x) /\ ~exited(y) /\ mtx[y] = "free" /\ attached[y][link(x)] = 0
           /\ attached' = [attached EXCEPT ![y][link(x)] = @ + 1, ![x][link(y)] = @ + 1]
           /\ UNCHANGED inbox
  <2>1. \A v \in All : ~Unlinking(y, v) /\ ~Unlinking(x, v)
    <3>1. \A v \in All : ~Unlinking(y, v)
      BY <1>7, FreeNotUnlinking
    <3>2. \A v \in All : ~Unlinking(x, v)
      BY <1>1, <1>2 DEF LifeInv, LockInv, LockOK, Unlinking
    <3> QED
      BY <3>1, <3>2
  <2>2. attached[x][link(y)] = 0
    BY <1>2, <1>7, <2>1 DEF LifeInv, LinkInv
  <2>3. /\ attached \in [All -> [Attachables -> Nat]]
        /\ link(x) \in Attachables /\ link(y) \in Attachables /\ 1 \in Nat
    BY <1>1, Items DEF LifeTypeOK
  <2>4. PICK f : f = [attached EXCEPT ![y][link(x)] = 1]
    OBVIOUS
  <2>5. /\ f \in [All -> [Attachables -> Nat]] /\ f[y][link(x)] = 1
        /\ \A v \in All : \A j \in Attachables : (v # y \/ j # link(x)) => f[v][j] = attached[v][j]
    BY <2>3, <2>4, OneCount, SMT, Z3
  <2>6. attached' = [f EXCEPT ![x][link(y)] = 1]
    <3>1. attached' = [[attached EXCEPT ![y][link(x)] = attached[y][link(x)] + 1]
                         EXCEPT ![x][link(y)] = attached[x][link(y)] + 1]
      BY <1>2, <1>7, <2>3
    <3> QED
      BY <1>7, <2>2, <2>4, <3>1, SMT, Z3
  <2>7. /\ attached' \in [All -> [Attachables -> Nat]] /\ attached'[x][link(y)] = 1
        /\ \A v \in All : \A j \in Attachables : (v # x \/ j # link(y)) => attached'[v][j] = f[v][j]
    BY <2>3, <2>5, <2>6, OneCount, SMT, Z3
  <2>8. /\ attached'[x][link(y)] = 1 /\ attached'[y][link(x)] = 1
        /\ \A v, w \in All : ~(v = x /\ w = y) /\ ~(v = y /\ w = x)
             => attached'[v][link(w)] = attached[v][link(w)]
        /\ \A v \in All : \A j \in Attachables :
             (\A w \in All : j # link(w)) => attached'[v][j] = attached[v][j]
    BY <1>2, <2>5, <2>7, Items, SMT, Z3
  <2>9. LifeTypeOK'
    BY <1>1, <1>3, <1>7, <2>7 DEF LifeTypeOK, Steps
  <2>10. DownForEveryMonitor' /\ EntryInv'
    BY <1>1, <1>3, <1>7, <2>8, LinkStep
  <2>11. ListInv'
    <3>1. \A v \in All : v # x /\ v # y => \A j \in Attachables : attached'[v][j] = attached[v][j]
      BY <2>5, <2>7, SMT, Z3
    <3> QED
      BY <1>1, <1>7, <3>1 DEF LifeInv, ListInv, exited
  <2>12. LinkInv'
    <3>1. \A v, w \in All : Unlinking(v, w)' <=> Unlinking(v, w)
      BY <1>1, <1>3, UnlinkKept
    <3>2. LinkInv /\ \A v \in All : exited(v)' <=> exited(v)
      BY <1>1 DEF LifeInv, exited
    <3> QED
      BY <1>2, <2>1, <2>8, <3>1, <3>2, SMT, Z3 DEF LinkInv
  <2>13. DeadInv'
    <3>1. \A v, w \in All : exited(w) /\ attached'[v][link(w)] > 0 => attached[v][link(w)] > 0
      BY <1>1, <1>7, <2>8
    <3>2. \A v, w \in All : inbox[v][link(w)] > 0 => inbox'[v][link(w)] > 0
      BY <1>7
    <3> QED
      BY <1>1, <1>3, <1>7, <3>1, <3>2, DeadKept DEF LifeInv
  <2> QED
    BY <1>3, <1>4, <2>9, <2>10, <2>11, <2>12, <2>13 DEF LifeInv
<1> QED
  BY <1>2, <1>5, <1>6, <1>7 DEF establish_backlink

LEMMA RemoveLinkInv ==
  ASSUME LifeInv, NEW t \in Threads, NEW x \in All, NEW y \in All, remove_link(t, x, y)
  PROVE  LifeInv'
<1>1. Starts(t) /\ x # y /\ mtx[x] = "free" /\ mtx' = [mtx EXCEPT ![x] = t] /\ LifeTypeOK /\ Does(t, "unlink", x, y)
  BY DEF remove_link, LifeInv
<1>2. at(t) = "idle" /\ ops' \in 0..MaxOps /\ \A i \in Attachables : todo[t][i] = 0
  BY <1>1, StartsFacts
<1>3. /\ job' \in [Threads -> [at : Steps, self : All \cup Threads, other : All \cup Threads]]
      /\ at(t)' = "unlink" /\ self(t)' = x /\ other(t)' = y /\ OthersStay(t)
  BY <1>1, DoesFacts DEF Steps, OthersStay, remove_link
<1>4. UNCHANGED <<exitReason, todo, inbox, owed, entry, running, waiter>>
  BY DEF remove_link, registry
<1>5. /\ mtx' \in [All -> Threads \cup {"free"}] /\ mtx'[x] = t
      /\ \A v \in All : v # x => mtx'[v] = mtx[v]
  BY <1>1, MtxFacts
<1>6. attached[x][link(y)] = 1
  <2>1. attached[x][link(y)] \in Nat /\ attached[x][link(y)] > 0
    BY <1>1, Items, SMT, Z3 DEF LifeTypeOK, remove_link
  <2> QED
    BY <1>1, <2>1, SMT, Z3 DEF LifeInv, LinkInv
<1>7. /\ attached' \in [All -> [Attachables -> Nat]] /\ attached'[x][link(y)] = 0
      /\ \A v \in All : \A j \in Attachables : (v # x \/ j # link(y)) => attached'[v][j] = attached[v][j]
  <2>1. attached \in [All -> [Attachables -> Nat]] /\ link(y) \in Attachables /\ 0 \in Nat
    BY <1>1, Items DEF LifeTypeOK
  <2>2. attached' = [attached EXCEPT ![x][link(y)] = 0]
    BY <1>6, <2>1, SMT, Z3 DEF remove_link
  <2> QED
    BY <2>1, <2>2, OneCount, SMT, Z3
<1>8. /\ \A v, w \in All : v # x \/ w # y => attached'[v][link(w)] = attached[v][link(w)]
      /\ \A v \in All : \A j \in Attachables :
           (\A w \in All : j # link(w)) => attached'[v][j] = attached[v][j]
  BY <1>7, Items
<1>9. LifeTypeOK'
  BY <1>1, <1>2, <1>3, <1>4, <1>5, <1>7 DEF LifeTypeOK, Steps
<1>10. LockInv'
  <2>1. LockOK(t)'
    BY <1>2, <1>3, <1>5 DEF LockOK, LifeInv, LockInv
  <2> QED
    BY <1>1, <1>3, <1>5, <2>1, LockKept DEF LifeInv
<1>11. JobInv'
  <2>1. JobOK(t)'
    BY <1>1, <1>2, <1>3, <1>4 DEF JobOK
  <2> QED
    BY <1>3, <1>4, <2>1, JobKept DEF LifeInv, exited
<1>12. CountInv'
  BY <1>2, <1>3, <1>4, CountKept DEF LifeInv
<1>13. DownForEveryMonitor' /\ EntryInv'
  BY <1>2, <1>3, <1>4, <1>8, LinkStep
<1>14. ListInv'
  <2>1. \A v \in All : \A j \in Attachables : attached[v][j] = 0 => attached'[v][j] = 0
    BY <1>7
  <2> QED
    BY <1>4, <2>1 DEF LifeInv, ListInv, exited
<1>15. LinkInv'
  <2>1. Unlinking(x, y)'
    BY <1>3 DEF Unlinking
  <2>2. \A v, w \in All : v # x \/ w # y => (Unlinking(v, w)' <=> Unlinking(v, w))
    BY <1>2, <1>3 DEF Unlinking, OthersStay
  <2>3. LinkInv /\ \A v \in All : exited(v)' <=> exited(v)
    BY <1>4 DEF LifeInv, exited
  <2> QED
    BY <1>7, <1>8, <2>1, <2>2, <2>3, SMT, Z3 DEF LinkInv
<1>16. DeadInv'
  <2>1. \A v, w \in All : exited(w) /\ attached'[v][link(w)] > 0 => attached[v][link(w)] > 0
    BY <1>7, <1>8, SMT, Z3
  <2> QED
    BY <1>2, <1>3, <1>4, <2>1, DeadKept DEF LifeInv
<1> QED
  BY <1>9, <1>10, <1>11, <1>12, <1>13, <1>14, <1>15, <1>16 DEF LifeInv

LEMMA RemoveBacklinkInv ==
  ASSUME LifeInv, NEW t \in Threads, remove_backlink(t)
  PROVE  LifeInv'
<1>1. /\ at(t) = "unlink" /\ Release(t) /\ LifeTypeOK
      /\ UNCHANGED <<exitReason, todo, inbox, owed, entry, running, waiter, ops>>
  BY DEF remove_backlink, LifeInv, registry
<1>2. PICK x \in All, y \in All : x = self(t) /\ y = other(t) /\ x # y /\ mtx[x] = t
  BY <1>1, ReleaseFacts
<1>3. /\ job' \in [Threads -> [at : Steps, self : All \cup Threads, other : All \cup Threads]]
      /\ mtx' \in [All -> Threads \cup {"free"}]
      /\ at(t)' = "idle" /\ OthersStay(t) /\ (\A i \in Attachables : todo[t][i] = 0)
      /\ LockInv' /\ JobInv'
  BY <1>1, ReleaseFacts
<1>4. CountInv'
  BY <1>1, <1>3, CountKept DEF LifeInv
<1>5. attached[y][link(x)] \in {0, 1} /\ mtx[y] = "free"
  <2>1. attached[y][link(x)] \in Nat
    BY <1>1, Items, SMT, Z3 DEF LifeTypeOK
  <2> QED
    BY <1>2, <2>1, SMT, Z3 DEF LifeInv, LinkInv, remove_backlink
<1>6. /\ attached' \in [All -> [Attachables -> Nat]] /\ attached'[y][link(x)] = 0
      /\ \A v \in All : \A j \in Attachables : (v # y \/ j # link(x)) => attached'[v][j] = attached[v][j]
  <2>1. attached \in [All -> [Attachables -> Nat]] /\ link(x) \in Attachables /\ 0 \in Nat
    BY <1>1, Items DEF LifeTypeOK
  <2>2. attached' = [attached EXCEPT ![y][link(x)] = IF attached[y][link(x)] > 0 THEN attached[y][link(x)] - 1 ELSE 0]
    BY <1>2 DEF remove_backlink
  <2>3. (IF attached[y][link(x)] > 0 THEN attached[y][link(x)] - 1 ELSE 0) = 0
    BY <1>5, SMT, Z3
  <2> QED
    BY <2>1, <2>2, <2>3, OneCount, SMT, Z3
<1>7. /\ \A v, w \in All : v # y \/ w # x => attached'[v][link(w)] = attached[v][link(w)]
      /\ \A v \in All : \A j \in Attachables :
           (\A w \in All : j # link(w)) => attached'[v][j] = attached[v][j]
  BY <1>6, Items
<1>8. LifeTypeOK'
  BY <1>1, <1>3, <1>6 DEF LifeTypeOK, Steps
<1>9. DownForEveryMonitor' /\ EntryInv'
  BY <1>1, <1>3, <1>7, LinkStep
<1>10. ListInv'
  <2>1. \A v \in All : \A j \in Attachables : attached[v][j] = 0 => attached'[v][j] = 0
    BY <1>6
  <2> QED
    BY <1>1, <2>1 DEF LifeInv, ListInv, exited
<1>11. LinkInv'
  <2>1. \A v, w \in All : v # x \/ w # y => (Unlinking(v, w)' <=> Unlinking(v, w))
    BY <1>1, <1>2, <1>3 DEF Unlinking, OthersStay
  <2>2. Unlinking(x, y) /\ attached[x][link(y)] = 0
    BY <1>1, <1>2 DEF Unlinking, LifeInv, LinkInv
  <2>3. attached'[x][link(y)] = 0
    BY <1>2, <1>7, <2>2
  <2>4. LinkInv /\ \A v \in All : exited(v)' <=> exited(v)
    BY <1>1 DEF LifeInv, exited
  <2> QED
    BY <1>6, <1>7, <2>1, <2>3, <2>4, SMT, Z3 DEF LinkInv
<1>12. DeadInv'
  <2>1. \A v, w \in All : exited(w) /\ attached'[v][link(w)] > 0 => attached[v][link(w)] > 0
    BY <1>6, <1>7, SMT, Z3
  <2> QED
    BY <1>1, <1>3, <2>1, DeadKept DEF LifeInv
<1> QED
  BY <1>3, <1>4, <1>8, <1>9, <1>10, <1>11, <1>12 DEF LifeInv

-----------------------------------------------------------------------------
LEMMA PutInv ==
  ASSUME LifeInv, NEW x \in Actors, put(x)
  PROVE  LifeInv'
<1>0. x \in All /\ Broker \in Threads
  BY Parties
<1>1. Starts(Broker) /\ LifeTypeOK /\ Does(Broker, "put", x, x) /\ entry' = [entry EXCEPT ![x] = "live"]
  BY DEF put, LifeInv
<1>2. at(Broker) = "idle" /\ ops' \in 0..MaxOps /\ \A i \in Attachables : todo[Broker][i] = 0
  BY <1>0, <1>1, StartsFacts
<1>3. /\ job' \in [Threads -> [at : Steps, self : All \cup Threads, other : All \cup Threads]]
      /\ at(Broker)' = "put" /\ self(Broker)' = x /\ OthersStay(Broker)
  BY <1>0, <1>1, DoesFacts DEF Steps, OthersStay, put
<1>4. UNCHANGED <<exitReason, attached, mtx, todo, inbox, owed, running, waiter>>
  BY DEF put
<1>5. ListInv' /\ LinkInv' /\ DeadInv' /\ DownForEveryMonitor'
  BY <1>0, <1>2, <1>3, <1>4, QuietLists
<1>6. LifeTypeOK'
  <2>1. entry' \in [All -> Reasons \cup {"none", "live"}]
    BY <1>0, <1>1 DEF LifeTypeOK
  <2> QED
    BY <1>1, <1>2, <1>3, <1>4, <2>1 DEF LifeTypeOK, Steps
<1>7. LockInv'
  BY <1>0, <1>2, <1>3, <1>4, LockSame
<1>8. JobInv'
  <2>1. JobOK(Broker)'
    BY <1>2, <1>3, <1>4 DEF JobOK
  <2> QED
    BY <1>0, <1>3, <1>4, <2>1, JobKept DEF LifeInv, exited
<1>9. CountInv'
  BY <1>0, <1>2, <1>3, <1>4, Parties, CountKept DEF LifeInv
<1>10. EntryInv'
  <2> SUFFICES ASSUME NEW a \in All
               PROVE  /\ entry'[a] \in Reasons => entry'[a] = exitReason[a]
                      /\ entry'[a] = "live" =>
                           \/ attached[a][functor] > 0
                           \/ at(Broker)' = "put" /\ self(Broker)' = a
                           \/ \E u \in Threads : self(u)' = a /\ todo'[u][functor] > 0
    BY <1>4 DEF EntryInv
  <2>1. CASE a = x
    BY <1>0, <1>1, <1>3, <2>1 DEF LifeTypeOK, Reasons
  <2>2. CASE a # x
    <3>1. entry'[a] = entry[a]
      BY <1>0, <1>1, <2>2 DEF LifeTypeOK
    <3>2. ASSUME NEW u \in Threads, self(u) = a, todo[u][functor] > 0
          PROVE  self(u)' = a /\ todo'[u][functor] > 0
      <4>1. u # Broker
        BY <1>2, <1>3, <3>2, Items, SMT, Z3
      <4> QED
        BY <1>3, <3>2, <4>1 DEF OthersStay
    <3> QED
      BY <1>2, <3>1, <3>2 DEF LifeInv, EntryInv
  <2> QED
    BY <2>1, <2>2
<1> QED
  BY <1>5, <1>6, <1>7, <1>8, <1>9, <1>10 DEF LifeInv

(* attach() of a monitor or a functor.                                     *)
LEMMA AttachFacts ==
  ASSUME LifeInv, NEW t \in Threads, NEW x \in All, NEW item \in Attachables,
         \A w \in All : item # link(w), item = functor => t = Broker,
         at(t) \in {"idle", "put"}, attach(t, x, item), UNCHANGED <<exitReason, mtx, inbox, running, waiter>>
  PROVE  /\ job' \in [Threads -> [at : Steps, self : All \cup Threads, other : All \cup Threads]]
         /\ todo' \in [Threads -> [Attachables -> Nat]] /\ attached' \in [All -> [Attachables -> Nat]]
         /\ OthersStay(t) /\ (\A i \in Attachables : todo[t][i] = 0)
         /\ \A v \in All : \A j \in Attachables : (v # x \/ j # item) => attached'[v][j] = attached[v][j]
         /\ \A j \in Attachables : j # item => todo'[t][j] = 0
         /\ \/ /\ exited(x) /\ UNCHANGED attached /\ todo'[t][item] = 1
               /\ at(t)' = "call" /\ self(t)' = x
            \/ /\ ~exited(x) /\ attached'[x][item] = attached[x][item] + 1 /\ todo'[t][item] = 0
               /\ at(t)' = "idle"
         /\ LockInv' /\ JobInv' /\ ListInv' /\ LinkInv' /\ DeadInv' /\ CountInv'
<1>1. LifeTypeOK /\ todo \in [Threads -> [Attachables -> Nat]] /\ attached \in [All -> [Attachables -> Nat]]
  BY DEF LifeInv, LifeTypeOK
<1>2. \A i \in Attachables : todo[t][i] = 0
  BY Quiet DEF LifeInv
<1>3. CASE exited(x)
  <2>1. todo' = [todo EXCEPT ![t][item] = 1] /\ Does(t, "call", x, x) /\ UNCHANGED attached
    BY <1>3 DEF attach
  <2>2. /\ todo' \in [Threads -> [Attachables -> Nat]] /\ todo'[t][item] = 1
        /\ \A u \in Threads : \A j \in Attachables : (u # t \/ j # item) => todo'[u][j] = todo[u][j]
        /\ \A u \in Threads : u # t => todo'[u] = todo[u]
    BY <1>1, <2>1, OneCount, SMT, Z3
  <2>3. /\ job' \in [Threads -> [at : Steps, self : All \cup Threads, other : All \cup Threads]]
        /\ at(t)' = "call" /\ self(t)' = x /\ OthersStay(t)
    BY <1>1, <2>1, <2>2, DoesFacts, SMT, Z3 DEF Steps, OthersStay
  <2>4. \A j \in Attachables : j # item => todo'[t][j] = 0
    BY <1>2, <2>2
  <2>5. LockInv' /\ CountInv'
    BY <2>3, LockSame, CountKept DEF LifeInv
  <2>6. JobInv'
    <3>1. JobOK(t)'
      BY <1>3, <2>2, <2>3, <2>4, Items, SMT, Z3 DEF JobOK, exited
    <3> QED
      BY <2>3, <3>1, JobKept DEF LifeInv, exited
  <2>7. ListInv' /\ LinkInv' /\ DeadInv'
    <3>1. ListInv'
      BY <2>1 DEF LifeInv, ListInv, exited
    <3>2. LinkInv'
      BY <2>1, <2>3, UnlinkKept, LinkKept DEF LifeInv
    <3>3. DeadInv'
      BY <1>2, <2>1, <2>3, DeadKept DEF LifeInv
    <3> QED
      BY <3>1, <3>2, <3>3
  <2> QED
    BY <1>1, <1>2, <1>3, <2>1, <2>2, <2>3, <2>4, <2>5, <2>6, <2>7
<1>4. CASE ~exited(x)
  <2>1. attached' = [attached EXCEPT ![x][item] = attached[x][item] + 1] /\ Does(t, "idle", t, t) /\ UNCHANGED todo
    BY <1>4 DEF attach, GoesIdle
  <2>2. attached[x][item] + 1 \in Nat
    BY <1>1, SMT, Z3
  <2>3. /\ attached' \in [All -> [Attachables -> Nat]] /\ attached'[x][item] = attached[x][item] + 1
        /\ \A v \in All : \A j \in Attachables : (v # x \/ j # item) => attached'[v][j] = attached[v][j]
    BY <1>1, <2>1, <2>2, OneCount, SMT, Z3
  <2>4. /\ job' \in [Threads -> [at : Steps, self : All \cup Threads, other : All \cup Threads]]
        /\ at(t)' = "idle" /\ OthersStay(t)
    BY <1>1, <2>1, DoesFacts DEF Steps, OthersStay
  <2>5. LockInv' /\ CountInv'
    BY <2>4, LockSame, CountKept DEF LifeInv
  <2>6. JobInv'
    <3>1. JobOK(t)'
      BY <1>2, <2>1, <2>4 DEF JobOK
    <3> QED
      BY <2>4, <3>1, JobKept DEF LifeInv, exited
  <2>7. \A v, w \in All : attached'[v][link(w)] = attached[v][link(w)]
    BY <2>3, Items
  <2>8. ListInv' /\ LinkInv' /\ DeadInv'
    <3>1. ListInv'
      BY <1>4, <2>3 DEF LifeInv, ListInv, exited
    <3>2. LinkInv'
      BY <2>4, <2>7, UnlinkKept, LinkKept DEF LifeInv
    <3>3. DeadInv'
      BY <1>2, <2>4, <2>7, DeadKept DEF LifeInv
    <3> QED
      BY <3>1, <3>2, <3>3
  <2> QED
    BY <1>1, <1>2, <1>4, <2>1, <2>3, <2>4, <2>5, <2>6, <2>8
<1> QED
  BY <1>3, <1>4

LEMMA PutAttachInv ==
  ASSUME LifeInv, put_attach
  PROVE  LifeInv'
<1>1. /\ at(Broker) = "put" /\ LifeTypeOK
      /\ UNCHANGED <<exitReason, mtx, inbox, owed, entry, running, waiter, ops>>
  BY DEF put_attach, LifeInv, registry
<1>2. Broker \in Threads /\ functor \in Attachables /\ \A w \in All : functor # link(w)
  BY Parties, Items
<1>3. PICK x \in All : x = self(Broker) /\ attach(Broker, x, functor)
  BY <1>1, <1>2, Parties DEF put_attach, LifeInv, JobInv, JobOK
<1>4. /\ job' \in [Threads -> [at : Steps, self : All \cup Threads, other : All \cup Threads]]
      /\ todo' \in [Threads -> [Attachables -> Nat]] /\ attached' \in [All -> [Attachables -> Nat]]
      /\ OthersStay(Broker) /\ (\A i \in Attachables : todo[Broker][i] = 0)
      /\ \A v \in All : \A j \in Attachables : (v # x \/ j # functor) => attached'[v][j] = attached[v][j]
      /\ \A j \in Attachables : j # functor => todo'[Broker][j] = 0
      /\ \/ todo'[Broker][functor] = 1 /\ self(Broker)' = x /\ UNCHANGED attached
         \/ attached'[x][functor] = attached[x][functor] + 1
      /\ LockInv' /\ JobInv' /\ ListInv' /\ LinkInv' /\ DeadInv' /\ CountInv'
  BY <1>1, <1>2, <1>3, AttachFacts, SMT, Z3
<1>5. LifeTypeOK'
  BY <1>1, <1>4 DEF LifeTypeOK, Steps
<1>6. DownForEveryMonitor'
  <2>1. \A v, w \in All : attached'[v][make_monitor(w)] = attached[v][make_monitor(w)]
    BY <1>4, Items
  <2>2. \A v \in All : todo[Broker][make_monitor(v)] = 0 /\ todo'[Broker][make_monitor(v)] = 0
    BY <1>4, Items
  <2> QED
    BY <1>1, <1>2, <1>4, <2>1, <2>2, CallsKept, DownKept DEF LifeInv
<1>7. EntryInv'
  <2> SUFFICES ASSUME NEW a \in All, entry[a] = "live"
               PROVE  \/ attached'[a][functor] > 0
                      \/ \E u \in Threads : self(u)' = a /\ todo'[u][functor] > 0
    BY <1>1 DEF LifeInv, EntryInv
  <2>1. CASE a = x
    <3>1. attached[x][functor] \in Nat
      BY <1>1, <1>2, SMT, Z3 DEF LifeTypeOK
    <3> QED
      BY <1>2, <1>4, <2>1, <3>1, SMT, Z3
  <2>2. CASE a # x
    <3>1. attached'[a][functor] = attached[a][functor]
      BY <1>2, <1>4, <2>2
    <3>2. ASSUME NEW u \in Threads, self(u) = a, todo[u][functor] > 0
          PROVE  self(u)' = a /\ todo'[u][functor] > 0
      BY <1>2, <1>4, <3>2, SMT, Z3 DEF OthersStay
    <3> QED
      BY <1>3, <2>2, <3>1, <3>2 DEF LifeInv, EntryInv
  <2> QED
    BY <2>1, <2>2
<1> QED
  BY <1>4, <1>5, <1>6, <1>7 DEF LifeInv

-----------------------------------------------------------------------------
(* How many threads a set has.  This is shown at the end, from the theory  *)
(* of finite sets, which no obligation before needs to carry.              *)
Counting ==
  /\ Cardinality({}) = 0 /\ \A t \in Threads : Cardinality({t}) = 1
  /\ \A S \in SUBSET Threads :
       /\ Cardinality(S) \in Nat /\ (Cardinality(S) = 0 => S = {})
       /\ \A t \in Threads : /\ t \notin S => Cardinality(S \cup {t}) = Cardinality(S) + 1
                             /\ t \in S => Cardinality(S \ {t}) = Cardinality(S) - 1

LEMMA SomeThreads == Unfinished \in SUBSET Threads /\ \A x, y : Late(x, y) \in SUBSET Threads
  BY DEF Unfinished, Late, Threads

LEMMA LifeInitInv ==
  ASSUME Counting, LifeInit
  PROVE  LifeInv
<1>1. NoAttachables \in [Attachables -> Nat] /\ \A i \in Attachables : NoAttachables[i] = 0
  BY DEF NoAttachables
<1>2. job \in [Threads -> [at : Steps, self : All \cup Threads, other : All \cup Threads]]
  BY DEF LifeInit, Job, Steps
<1>3. LifeTypeOK
  BY <1>1, <1>2, LifecycleAssumption, SMT, Z3 DEF LifeInit, LifeTypeOK, Steps
<1>4. \A t \in Threads : /\ at(t) = IF t \in {Root, Broker} THEN "idle" ELSE "new"
                         /\ \A i \in Attachables : todo[t][i] = 0
  BY <1>1 DEF LifeInit, Job, at
<1>5. \A x \in All : ~exited(x) /\ mtx[x] = "free" /\ entry[x] = "none" /\ \A i \in Attachables : attached[x][i] = 0 /\ inbox[x][i] = 0
  BY <1>1 DEF LifeInit, exited
<1>6. LockInv
  BY <1>4, <1>5, Parties DEF LockInv, LockOK
<1>7. JobInv
  BY <1>4 DEF JobInv, JobOK
<1>8. ListInv /\ DeadInv
  BY <1>5 DEF ListInv, DeadInv
<1>9. LinkInv
  BY <1>4, <1>5, Items, SMT, Z3 DEF LinkInv, Unlinking
<1>10. DownForEveryMonitor
  <2> SUFFICES ASSUME NEW x \in All, NEW y \in All
               PROVE  owed[x][y] = attached[y][make_monitor(x)] + Swapped(x, y)
                                   + Cardinality(Late(x, y)) + inbox[x][make_monitor(y)]
    BY DEF DownForEveryMonitor
  <2>1. Late(x, y) = {}
    BY <1>4 DEF Late
  <2>2. Swapped(x, y) = 0
    BY <1>4, Parties DEF Swapped
  <2>3. owed[x][y] = 0 /\ attached[y][make_monitor(x)] = 0 /\ inbox[x][make_monitor(y)] = 0
    BY <1>5, Items DEF LifeInit
  <2>4. Cardinality(Late(x, y)) = 0
    BY <2>1 DEF Counting
  <2> QED
    BY <2>2, <2>3, <2>4, SMT, Z3
<1>11. EntryInv
  BY <1>5 DEF EntryInv, Reasons
<1>12. CountInv
  <2>1. Unfinished = {Root}
    BY <1>4, Parties, LifecycleAssumption DEF Unfinished
  <2> QED
    BY <2>1, Parties, LifecycleAssumption DEF CountInv, LifeInit, Counting
<1> QED
  BY <1>3, <1>6, <1>7, <1>8, <1>9, <1>10, <1>11, <1>12 DEF LifeInv

-----------------------------------------------------------------------------
LEMMA SpawnInv ==
  ASSUME Counting, LifeInv, NEW t \in Actors, NEW y \in Actors, spawn(t, y)
  PROVE  LifeInv'
<1>1. y \in Threads /\ y \in All \cup Threads /\ y \in All /\ t \in Threads
  BY Parties
<1>2. Does(y, "idle", y, y) /\ at(y) = "new" /\ at(t) = "idle" /\ ~exited(t) /\ LifeTypeOK
  BY DEF spawn, GoesIdle, Idle, LifeInv
<1>3. /\ job' \in [Threads -> [at : Steps, self : All \cup Threads, other : All \cup Threads]]
      /\ at(y)' = "idle" /\ self(y)' = y /\ OthersStay(y)
  BY <1>1, <1>2, DoesFacts DEF Steps, OthersStay, spawn
<1>4. UNCHANGED <<exitReason, attached, mtx, todo, inbox, owed, entry, waiter, ops>> /\ running' = running + 1
  BY DEF spawn
<1>5. \A i \in Attachables : todo[y][i] = 0
  BY <1>1, <1>2, Quiet DEF LifeInv
<1>6. ListInv' /\ LinkInv' /\ DeadInv' /\ DownForEveryMonitor' /\ EntryInv'
  BY <1>1, <1>2, <1>3, <1>4, <1>5, QuietStep
<1>7. LifeTypeOK'
  BY <1>2, <1>3, <1>4, SMT, Z3 DEF LifeTypeOK, Steps
<1>8. LockInv'
  <2>1. LockOK(y)'
    BY <1>1, <1>2, <1>3, <1>4 DEF LifeInv, LockInv, LockOK
  <2> QED
    BY <1>1, <1>2, <1>3, <1>4, <2>1, LockKept DEF LifeInv
<1>9. JobInv'
  <2>1. JobOK(y)'
    BY <1>3, <1>4, <1>5 DEF JobOK
  <2> QED
    BY <1>1, <1>3, <1>4, <2>1, JobKept DEF LifeInv, exited
<1>10. CountInv'
  <2>1. Unfinished' = Unfinished \cup {y} /\ y \notin Unfinished /\ t \in Unfinished
    BY <1>1, <1>2, <1>3, Parties, SMT, Z3 DEF Unfinished, OthersStay
  <2>2. Unfinished \in SUBSET Threads
    BY SomeThreads
  <2>3. Cardinality(Unfinished \cup {y}) = Cardinality(Unfinished) + 1
    BY <1>1, <2>1, <2>2 DEF Counting
  <2>4. waiter # "done" /\ running = Cardinality(Unfinished)
    BY <2>1 DEF LifeInv, CountInv
  <2> QED
    BY <1>4, <2>1, <2>3, <2>4 DEF CountInv
<1> QED
  BY <1>6, <1>7, <1>8, <1>9, <1>10 DEF LifeInv

LEMMA DecRunningInv ==
  ASSUME Counting, LifeInv, NEW t \in Threads, dec_running(t)
  PROVE  LifeInv'
<1>1. PICK step \in {"wake", "done"} : Does(t, step, t, t)
  BY DEF dec_running
<1>2. step \in Steps /\ at(t) = "cleanup" /\ t \in Actors /\ t \in All /\ AllCalled(t) /\ LifeTypeOK
  BY Parties DEF dec_running, LifeInv, Steps
<1>3. /\ job' \in [Threads -> [at : Steps, self : All \cup Threads, other : All \cup Threads]]
      /\ at(t)' \in {"wake", "done"} /\ self(t)' = t /\ OthersStay(t)
  BY <1>1, <1>2, DoesFacts DEF OthersStay, dec_running
<1>4. /\ UNCHANGED <<exitReason, attached, mtx, todo, inbox, owed, entry, waiter, ops>>
      /\ running' = running - 1
  BY DEF dec_running
<1>5. \A i \in Attachables : todo[t][i] = 0
  BY <1>2, AllCalledFacts
<1>6. ListInv' /\ LinkInv' /\ DeadInv' /\ DownForEveryMonitor' /\ EntryInv'
  BY <1>2, <1>3, <1>4, <1>5, QuietStep
<1>7. LifeTypeOK'
  BY <1>2, <1>3, <1>4, SMT, Z3 DEF LifeTypeOK, Steps
<1>8. LockInv'
  BY <1>2, <1>3, <1>4, LockSame
<1>9. JobInv'
  <2>1. self(t) \in All /\ exited(self(t)) /\ t = Cleaner(self(t))
    BY <1>2 DEF LifeInv, JobInv, JobOK
  <2>2. self(t) = t
    BY <1>2, <2>1, Parties
  <2>3. JobOK(t)'
    BY <1>2, <1>3, <1>4, <1>5, <2>1, <2>2, Parties DEF JobOK, exited
  <2> QED
    BY <1>3, <1>4, <2>3, JobKept DEF LifeInv, exited
<1>10. CountInv'
  <2>1. Unfinished' = Unfinished \ {t} /\ t \in Unfinished
    BY <1>2, <1>3, Parties, SMT, Z3 DEF Unfinished, OthersStay
  <2>2. Unfinished \in SUBSET Threads
    BY SomeThreads
  <2>3. Cardinality(Unfinished \ {t}) = Cardinality(Unfinished) - 1
    BY <2>1, <2>2 DEF Counting
  <2>4. waiter # "done" /\ running = Cardinality(Unfinished)
    BY <2>1 DEF LifeInv, CountInv
  <2> QED
    BY <1>4, <2>1, <2>3, <2>4 DEF CountInv
<1> QED
  BY <1>6, <1>7, <1>8, <1>9, <1>10 DEF LifeInv

LEMMA AwaitInv ==
  ASSUME Counting, LifeInv, await_running_count_equal
  PROVE  LifeInv'
<1>1. UNCHANGED <<exitReason, attached, mtx, job, todo, inbox, owed, entry, running, ops>>
  BY DEF await_running_count_equal
<1>2. LifeTypeOK'
  BY <1>1 DEF LifeInv, LifeTypeOK, await_running_count_equal
<1>3. LockInv' /\ JobInv'
  BY <1>1 DEF LifeInv, LockInv, LockOK, JobInv, JobOK, exited, at, self, other
<1>4. ListInv' /\ LinkInv' /\ DeadInv'
  BY <1>1, SMT, Z3 DEF LifeInv, ListInv, LinkInv, DeadInv, Unlinking, exited, at, self, other
<1>5. DownForEveryMonitor' /\ EntryInv'
  BY <1>1, SMT, Z3 DEF LifeInv, DownForEveryMonitor, Swapped, Late, EntryInv, at, self
<1>6. CountInv'
  <2>1. Unfinished' = Unfinished
    BY <1>1 DEF Unfinished, at
  <2>2. Unfinished \in SUBSET Threads
    BY SomeThreads
  <2>3. running = 0 => Unfinished = {}
    BY <2>2 DEF Counting, LifeInv, CountInv
  <2> QED
    BY <1>1, <2>1, <2>3 DEF LifeInv, CountInv, await_running_count_equal
<1> QED
  BY <1>2, <1>3, <1>4, <1>5, <1>6 DEF LifeInv

-----------------------------------------------------------------------------
LEMMA LateCounts ==
  ASSUME Counting
  PROVE  \A x, y \in All : Cardinality(Late(x, y)) \in Nat
BY SomeThreads DEF Counting

(* The counts of DownForEveryMonitor are natural numbers.                  *)
LEMMA DownTypes ==
  ASSUME Counting, LifeTypeOK, NEW x \in All, NEW y \in All
  PROVE  /\ owed[x][y] \in Nat /\ attached[y][make_monitor(x)] \in Nat
         /\ Swapped(x, y) \in Nat /\ Cardinality(Late(x, y)) \in Nat
         /\ inbox[x][make_monitor(y)] \in Nat
<1>1. owed[x][y] \in Nat /\ attached[y][make_monitor(x)] \in Nat /\ inbox[x][make_monitor(y)] \in Nat
  BY Items, SMT, Z3 DEF LifeTypeOK
<1>2. Swapped(x, y) \in Nat
  BY Items, Parties, SMT, Z3 DEF LifeTypeOK, Swapped
<1> QED
  BY <1>1, <1>2, LateCounts

LEMMA MonitorInv ==
  ASSUME Counting, LifeInv, NEW t \in Actors, NEW y \in All, monitor(t, y)
  PROVE  LifeInv'
<1>1. /\ Starts(t) /\ LifeTypeOK /\ attach(t, y, make_monitor(t))
      /\ owed' = [owed EXCEPT ![t][y] = owed[t][y] + 1]
      /\ UNCHANGED <<exitReason, mtx, inbox, entry, running, waiter>>
  BY DEF monitor, LifeInv, registry
<1>2. /\ t \in Threads /\ t \in All /\ make_monitor(t) \in Attachables /\ make_monitor(t) # functor
      /\ \A w \in All : make_monitor(t) # link(w)
  BY Parties, Items
<1>3. at(t) = "idle" /\ ops' \in 0..MaxOps
  BY <1>1, <1>2, StartsFacts
<1>4. /\ job' \in [Threads -> [at : Steps, self : All \cup Threads, other : All \cup Threads]]
      /\ todo' \in [Threads -> [Attachables -> Nat]] /\ attached' \in [All -> [Attachables -> Nat]]
      /\ OthersStay(t) /\ (\A i \in Attachables : todo[t][i] = 0)
      /\ \A v \in All : \A j \in Attachables : (v # y \/ j # make_monitor(t)) => attached'[v][j] = attached[v][j]
      /\ \A j \in Attachables : j # make_monitor(t) => todo'[t][j] = 0
      /\ \/ /\ UNCHANGED attached /\ todo'[t][make_monitor(t)] = 1
            /\ at(t)' = "call" /\ self(t)' = y
         \/ /\ attached'[y][make_monitor(t)] = attached[y][make_monitor(t)] + 1
            /\ todo'[t][make_monitor(t)] = 0 /\ at(t)' = "idle"
      /\ LockInv' /\ JobInv' /\ ListInv' /\ LinkInv' /\ DeadInv' /\ CountInv'
  BY <1>1, <1>2, <1>3, AttachFacts, SMT, Z3
<1>5. /\ owed' \in [All -> [All -> Nat]] /\ owed'[t][y] = owed[t][y] + 1
      /\ \A v, w \in All : (v # t \/ w # y) => owed'[v][w] = owed[v][w]
  <2>1. owed \in [All -> [All -> Nat]]
    BY <1>1 DEF LifeTypeOK
  <2>2. owed[t][y] + 1 \in Nat
    BY <1>2, <2>1, SMT, Z3
  <2> QED
    BY <1>1, <1>2, <2>1, <2>2, OneCount
<1>6. LifeTypeOK'
  BY <1>1, <1>3, <1>4, <1>5 DEF LifeTypeOK, Steps
<1>7. EntryInv'
  <2>1. \A v \in All : attached'[v][functor] = attached[v][functor]
    BY <1>2, <1>4, Items
  <2> QED
    BY <1>1, <1>2, <1>3, <1>4, <2>1, EntryKept, Items DEF LifeInv
<1>8. DownForEveryMonitor'
  <2>1. \A v, w \in All : w # y \/ v # t => attached'[w][make_monitor(v)] = attached[w][make_monitor(v)]
    BY <1>2, <1>4, Items
  <2>2. CASE todo'[t][make_monitor(t)] = 0 /\ attached'[y][make_monitor(t)] = attached[y][make_monitor(t)] + 1
    <3>1. \A v \in All : todo[t][make_monitor(v)] = 0 /\ todo'[t][make_monitor(v)] = 0
      BY <1>2, <1>4, <2>2, Items
    <3>2. \A v, w \in All : Swapped(v, w)' = Swapped(v, w) /\ Late(v, w)' = Late(v, w)
      BY <1>2, <1>4, <3>1, CallsKept
    <3> SUFFICES ASSUME NEW v \in All, NEW w \in All
                 PROVE  owed'[v][w] = attached'[w][make_monitor(v)] + Swapped(v, w)'
                                      + Cardinality(Late(v, w)') + inbox'[v][make_monitor(w)]
      BY DEF DownForEveryMonitor
    <3>3. owed[v][w] = attached[w][make_monitor(v)] + Swapped(v, w)
                       + Cardinality(Late(v, w)) + inbox[v][make_monitor(w)]
      BY DEF LifeInv, DownForEveryMonitor
    <3>4. CASE v = t /\ w = y
      <4>1. PICK o \in Nat, m \in Nat, p \in Nat, q \in Nat, k \in Nat :
              /\ o = owed[v][w] /\ m = attached[w][make_monitor(v)] /\ p = Swapped(v, w)
              /\ q = Cardinality(Late(v, w)) /\ k = inbox[v][make_monitor(w)]
        BY <1>1, DownTypes
      <4>2. o = m + p + q + k
        BY <3>3, <4>1
      <4>3. /\ owed'[v][w] = o + 1 /\ attached'[w][make_monitor(v)] = m + 1 /\ Swapped(v, w)' = p
            /\ Cardinality(Late(v, w)') = q /\ inbox'[v][make_monitor(w)] = k
        BY <1>1, <1>5, <2>2, <3>2, <3>4, <4>1
      <4> QED
        BY <4>2, <4>3, SMT, Z3
    <3>5. CASE v # t \/ w # y
      BY <1>1, <1>5, <2>1, <3>2, <3>3, <3>5
    <3> QED
      BY <3>4, <3>5
  <2>3. CASE UNCHANGED attached /\ todo'[t][make_monitor(t)] = 1 /\ at(t)' = "call" /\ self(t)' = y
    <3>1. \A v, w \in All : Swapped(v, w)' = Swapped(v, w)
      <4> SUFFICES ASSUME NEW v \in All, NEW w \in All PROVE Swapped(v, w)' = Swapped(v, w)
        OBVIOUS
      <4>1. PICK c \in Threads : c = Cleaner(w)
        BY Parties
      <4>2. CASE c = t
        BY <1>3, <2>3, <4>1, <4>2 DEF Swapped, Cleaner
      <4>3. CASE c # t
        <5>1. at(c)' = at(c) /\ self(c)' = self(c) /\ todo'[c] = todo[c]
          BY <1>4, <4>3 DEF OthersStay
        <5> QED
          BY <4>1, <5>1 DEF Swapped, Cleaner
      <4> QED
        BY <4>2, <4>3
    <3>2. Late(t, y)' = Late(t, y) \cup {t} /\ t \notin Late(t, y)
      BY <1>2, <1>3, <1>4, <2>3, SMT, Z3 DEF Late, OthersStay
    <3>3. \A v, w \in All : v # t \/ w # y => Late(v, w)' = Late(v, w)
      <4> SUFFICES ASSUME NEW v \in All, NEW w \in All, v # t \/ w # y PROVE Late(v, w)' = Late(v, w)
        OBVIOUS
      <4>1. ~(at(t)' = "call" /\ self(t)' = w /\ todo'[t][make_monitor(v)] > 0)
        BY <1>2, <1>4, <2>3, Items, SMT, Z3
      <4>2. ~(at(t) = "call" /\ self(t) = w /\ todo[t][make_monitor(v)] > 0)
        BY <1>3
      <4> QED
        BY <1>2, <1>4, <4>1, <4>2 DEF Late, OthersStay
    <3>4. Cardinality(Late(t, y) \cup {t}) = Cardinality(Late(t, y)) + 1
      BY <1>2, <3>2, SomeThreads DEF Counting
    <3> SUFFICES ASSUME NEW v \in All, NEW w \in All
                 PROVE  owed'[v][w] = attached'[w][make_monitor(v)] + Swapped(v, w)'
                                      + Cardinality(Late(v, w)') + inbox'[v][make_monitor(w)]
      BY DEF DownForEveryMonitor
    <3>5. owed[v][w] = attached[w][make_monitor(v)] + Swapped(v, w)
                       + Cardinality(Late(v, w)) + inbox[v][make_monitor(w)]
      BY DEF LifeInv, DownForEveryMonitor
    <3>6. CASE v = t /\ w = y
      <4>1. PICK o \in Nat, m \in Nat, p \in Nat, q \in Nat, k \in Nat :
              /\ o = owed[v][w] /\ m = attached[w][make_monitor(v)] /\ p = Swapped(v, w)
              /\ q = Cardinality(Late(v, w)) /\ k = inbox[v][make_monitor(w)]
        BY <1>1, DownTypes
      <4>2. o = m + p + q + k
        BY <3>5, <4>1
      <4>3. /\ owed'[v][w] = o + 1 /\ attached'[w][make_monitor(v)] = m /\ Swapped(v, w)' = p
            /\ Cardinality(Late(v, w)') = q + 1 /\ inbox'[v][make_monitor(w)] = k
        BY <1>1, <1>5, <2>3, <3>1, <3>2, <3>4, <3>6, <4>1
      <4> QED
        BY <4>2, <4>3, SMT, Z3
    <3>7. CASE v # t \/ w # y
      BY <1>1, <1>5, <2>3, <3>1, <3>3, <3>5, <3>7, SMT, Z3
    <3> QED
      BY <3>6, <3>7
  <2> QED
    BY <1>4, <2>2, <2>3
<1> QED
  BY <1>4, <1>6, <1>7, <1>8 DEF LifeInv

LEMMA DemonitorInv ==
  ASSUME Counting, LifeInv, NEW t \in Actors, NEW y \in All, demonitor(t, y)
  PROVE  LifeInv'
<1>1. /\ Starts(t) /\ LifeTypeOK
      /\ owed' = [owed EXCEPT ![t][y] = owed[t][y] - attached[y][make_monitor(t)]]
      /\ attached' = [attached EXCEPT ![y][make_monitor(t)] = 0]
      /\ UNCHANGED <<exitReason, mtx, job, todo, inbox, entry, running, waiter>>
  BY DEF demonitor, LifeInv, registry
<1>2. /\ t \in Threads /\ t \in All /\ make_monitor(t) \in Attachables /\ make_monitor(t) # functor
      /\ \A w \in All : make_monitor(t) # link(w)
  BY Parties, Items
<1>3. at(t) = "idle" /\ ops' \in 0..MaxOps /\ (\A i \in Attachables : todo[t][i] = 0) /\ OthersStay(t)
  BY <1>1, <1>2, StartsFacts DEF OthersStay, at, self, other
<1>4. PICK o \in Nat, m \in Nat, p \in Nat, q \in Nat, k \in Nat :
        /\ o = owed[t][y] /\ m = attached[y][make_monitor(t)] /\ p = Swapped(t, y)
        /\ q = Cardinality(Late(t, y)) /\ k = inbox[t][make_monitor(y)]
  BY <1>1, <1>2, DownTypes
<1>5. o = m + p + q + k
  BY <1>2, <1>4 DEF LifeInv, DownForEveryMonitor
<1>6. o - m \in Nat /\ o - m = 0 + p + q + k
  BY <1>5, SMT, Z3
<1>7. /\ owed' \in [All -> [All -> Nat]] /\ owed'[t][y] = o - m
      /\ \A v, w \in All : (v # t \/ w # y) => owed'[v][w] = owed[v][w]
  <2>1. owed \in [All -> [All -> Nat]] /\ owed' = [owed EXCEPT ![t][y] = o - m]
    BY <1>1, <1>4 DEF LifeTypeOK
  <2> QED
    BY <1>2, <1>6, <2>1, OneCount
<1>8. /\ attached' \in [All -> [Attachables -> Nat]] /\ attached'[y][make_monitor(t)] = 0
      /\ \A v \in All : \A j \in Attachables : (v # y \/ j # make_monitor(t)) => attached'[v][j] = attached[v][j]
  <2>1. attached \in [All -> [Attachables -> Nat]] /\ 0 \in Nat
    BY <1>1 DEF LifeTypeOK
  <2> QED
    BY <1>1, <1>2, <2>1, OneCount, SMT, Z3
<1>9. \A v, w \in All : attached'[v][link(w)] = attached[v][link(w)]
  BY <1>2, <1>8, Items
<1>10. LifeTypeOK'
  BY <1>1, <1>3, <1>7, <1>8 DEF LifeTypeOK
<1>11. LockInv' /\ JobInv'
  BY <1>1 DEF LifeInv, LockInv, LockOK, JobInv, JobOK, exited, at, self, other
<1>12. ListInv' /\ LinkInv' /\ DeadInv'
  <2>1. ListInv'
    <3>1. \A v \in All : \A j \in Attachables : attached[v][j] = 0 => attached'[v][j] = 0
      BY <1>8
    <3> QED
      BY <1>1, <3>1 DEF LifeInv, ListInv, exited
  <2>2. LinkInv'
    <3>1. \A v, w \in All : Unlinking(v, w)' <=> Unlinking(v, w)
      BY <1>1 DEF Unlinking, at, self, other
    <3> QED
      BY <1>1, <1>9, <3>1, LinkKept DEF LifeInv
  <2>3. DeadInv'
    BY <1>1, <1>2, <1>3, <1>9, DeadKept DEF LifeInv
  <2> QED
    BY <2>1, <2>2, <2>3
<1>13. EntryInv'
  <2>1. \A v \in All : attached'[v][functor] = attached[v][functor]
    BY <1>2, <1>8, Items
  <2> QED
    BY <1>1, <1>2, <1>3, <2>1, EntryKept, Items DEF LifeInv
<1>14. CountInv'
  BY <1>1, <1>2, <1>3, CountKept DEF LifeInv, at
<1>15. DownForEveryMonitor'
  <2>1. \A v, w \in All : Swapped(v, w)' = Swapped(v, w) /\ Late(v, w)' = Late(v, w)
    BY <1>1 DEF Swapped, Late, at, self
  <2> SUFFICES ASSUME NEW v \in All, NEW w \in All
               PROVE  owed'[v][w] = attached'[w][make_monitor(v)] + Swapped(v, w)'
                                    + Cardinality(Late(v, w)') + inbox'[v][make_monitor(w)]
    BY DEF DownForEveryMonitor
  <2>2. CASE v = t /\ w = y
    <3>1. /\ owed'[v][w] = o - m /\ attached'[w][make_monitor(v)] = 0 /\ Swapped(v, w)' = p
          /\ Cardinality(Late(v, w)') = q /\ inbox'[v][make_monitor(w)] = k
      BY <1>1, <1>4, <1>7, <1>8, <2>1, <2>2
    <3> QED
      BY <1>6, <3>1
  <2>3. CASE v # t \/ w # y
    <3>1. attached'[w][make_monitor(v)] = attached[w][make_monitor(v)]
      BY <1>2, <1>8, <2>3, Items
    <3> QED
      BY <1>1, <1>7, <2>1, <2>3, <3>1, SMT, Z3 DEF LifeInv, DownForEveryMonitor
  <2> QED
    BY <2>2, <2>3
<1> QED
  BY <1>10, <1>11, <1>12, <1>13, <1>14, <1>15 DEF LifeInv

-----------------------------------------------------------------------------
LEMMA CleanupInv ==
  ASSUME Counting, LifeInv, NEW t \in Threads, NEW x \in All, t = Cleaner(x), NEW reason \in Reasons, cleanup(t, x, reason)
  PROVE  LifeInv'
<1>1. /\ at(t) = "idle" /\ mtx[x] = "free" /\ exitReason[x] = "none" /\ LifeTypeOK
      /\ exitReason' = [exitReason EXCEPT ![x] = reason]
      /\ todo' = [todo EXCEPT ![t] = attached[x]]
      /\ attached' = [attached EXCEPT ![x] = NoAttachables]
      /\ Does(t, "cleanup", x, x)
      /\ UNCHANGED <<mtx, inbox, owed, entry, running, waiter, ops>>
  BY DEF cleanup, Idle, LifeInv, registry, exited
<1>2. \A i \in Attachables : todo[t][i] = 0
  BY <1>1, Quiet DEF LifeInv
<1>3. /\ exitReason' \in [All -> Reasons \cup {"none"}] /\ exitReason'[x] = reason /\ exited(x)' /\ ~exited(x)
      /\ \A v \in All : v # x => exitReason'[v] = exitReason[v] /\ (exited(v)' <=> exited(v))
  BY <1>1 DEF LifeTypeOK, exited, Reasons
<1>4. /\ attached' \in [All -> [Attachables -> Nat]]
      /\ \A j \in Attachables : attached'[x][j] = 0
      /\ \A v \in All : v # x => attached'[v] = attached[v]
  <2>1. NoAttachables \in [Attachables -> Nat] /\ \A j \in Attachables : NoAttachables[j] = 0
    BY DEF NoAttachables
  <2> QED
    BY <1>1, <2>1 DEF LifeTypeOK
<1>5. /\ todo' \in [Threads -> [Attachables -> Nat]] /\ todo'[t] = attached[x]
      /\ \A u \in Threads : u # t => todo'[u] = todo[u]
  BY <1>1 DEF LifeTypeOK
<1>6. /\ job' \in [Threads -> [at : Steps, self : All \cup Threads, other : All \cup Threads]]
      /\ at(t)' = "cleanup" /\ self(t)' = x /\ OthersStay(t)
  BY <1>1, <1>5, DoesFacts DEF Steps, OthersStay
<1>7. LifeTypeOK'
  BY <1>1, <1>3, <1>4, <1>5, <1>6 DEF LifeTypeOK, Steps
<1>8. LockInv'
  BY <1>1, <1>6, LockSame
<1>9. JobInv'
  <2>1. JobOK(t)'
    BY <1>3, <1>6 DEF JobOK, Cleaner
  <2>2. \A v \in All : exited(v) => exited(v)'
    BY <1>3
  <2> QED
    BY <1>6, <2>1, <2>2, JobKept DEF LifeInv
<1>10. CountInv'
  BY <1>1, <1>6, CountKept DEF LifeInv
<1>11. ListInv'
  BY <1>3, <1>4, SMT, Z3 DEF LifeInv, ListInv
<1>12. LinkInv'
  <2>1. \A v, w \in All : Unlinking(v, w)' <=> Unlinking(v, w)
    BY <1>1, <1>6, UnlinkKept
  <2>2. \A v, w \in All : attached'[v][link(w)] = IF v = x THEN 0 ELSE attached[v][link(w)]
    BY <1>4, Items
  <2> QED
    BY <1>3, <2>1, <2>2, SMT, Z3 DEF LifeInv, LinkInv
<1>13. DeadInv'
  <2> SUFFICES ASSUME NEW v \in All, NEW w \in All,
                      v # w, ~exited(v)', exited(w)', attached'[v][link(w)] > 0
               PROVE  \/ inbox[v][link(w)] > 0
                      \/ \E u \in Threads : self(u)' = w /\ todo'[u][link(v)] > 0
    BY <1>1 DEF DeadInv
  <2>1. v # x /\ ~exited(v) /\ attached[v][link(w)] > 0
    BY <1>3, <1>4
  <2>2. CASE w = x
    <3>1. ~Unlinking(v, x) /\ ~Unlinking(x, v)
      <4>1. ~Unlinking(x, v)
        BY <1>1, FreeNotUnlinking
      <4>2. ~Unlinking(v, x)
        BY <2>1, <2>2, SMT, Z3 DEF LifeInv, LinkInv
      <4> QED
        BY <4>1, <4>2
    <3>2. attached[x][link(v)] > 0
      BY <1>3, <2>1, <2>2, <3>1 DEF LifeInv, LinkInv
    <3> QED
      BY <1>5, <1>6, <2>2, <3>2
  <2>3. CASE w # x
    <3>1. exited(w)
      BY <1>3, <2>3
    <3>2. ASSUME NEW u \in Threads, self(u) = w, todo[u][link(v)] > 0
          PROVE  self(u)' = w /\ todo'[u][link(v)] > 0
      BY <1>2, <1>6, <3>2, Items, SMT, Z3 DEF OthersStay
    <3> QED
      BY <2>1, <3>1, <3>2 DEF LifeInv, DeadInv
  <2> QED
    BY <2>2, <2>3
<1>14. EntryInv'
  <2> SUFFICES ASSUME NEW a \in All
               PROVE  /\ entry[a] \in Reasons => entry[a] = exitReason'[a]
                      /\ entry[a] = "live" =>
                           \/ attached'[a][functor] > 0
                           \/ at(Broker)' = "put" /\ self(Broker)' = a
                           \/ \E u \in Threads : self(u)' = a /\ todo'[u][functor] > 0
    BY <1>1 DEF EntryInv
  <2>1. entry[a] \in Reasons => entry[a] = exitReason'[a]
    BY <1>1, <1>3 DEF LifeInv, EntryInv, Reasons
  <2>2. ASSUME at(Broker) = "put", self(Broker) = a PROVE at(Broker)' = "put" /\ self(Broker)' = a
    BY <1>1, <1>6, <2>2, Parties DEF OthersStay
  <2>3. ASSUME NEW u \in Threads, self(u) = a, todo[u][functor] > 0
        PROVE  self(u)' = a /\ todo'[u][functor] > 0
    BY <1>2, <1>6, <2>3, Items, SMT, Z3 DEF OthersStay
  <2>4. attached[a][functor] > 0 => attached'[a][functor] > 0 \/ (self(t)' = a /\ todo'[t][functor] > 0)
    BY <1>4, <1>5, <1>6
  <2> QED
    BY <2>1, <2>2, <2>3, <2>4 DEF LifeInv, EntryInv
<1>15. DownForEveryMonitor'
  <2>1. \A v, w \in All : Late(v, w)' = Late(v, w)
    BY <1>1, <1>6 DEF Late, OthersStay
  <2>2. \A v \in All : Swapped(v, x) = 0 /\ Swapped(v, x)' = attached[x][make_monitor(v)]
    BY <1>1, <1>5, <1>6 DEF Swapped, Cleaner
  <2>3. \A v, w \in All : w # x => Swapped(v, w)' = Swapped(v, w)
    <3> SUFFICES ASSUME NEW v \in All, NEW w \in All, w # x PROVE Swapped(v, w)' = Swapped(v, w)
      OBVIOUS
    <3>1. PICK c \in Threads : c = Cleaner(w)
      BY Parties
    <3>2. CASE c = t
      BY <1>1, <1>6, <3>1, <3>2 DEF Swapped, Cleaner
    <3>3. CASE c # t
      <4>1. at(c)' = at(c) /\ self(c)' = self(c) /\ todo'[c] = todo[c]
        BY <1>6, <3>3 DEF OthersStay
      <4> QED
        BY <3>1, <4>1 DEF Swapped, Cleaner
    <3> QED
      BY <3>2, <3>3
  <2> SUFFICES ASSUME NEW v \in All, NEW w \in All
               PROVE  owed'[v][w] = attached'[w][make_monitor(v)] + Swapped(v, w)'
                                    + Cardinality(Late(v, w)') + inbox'[v][make_monitor(w)]
    BY DEF DownForEveryMonitor
  <2>4. owed[v][w] = attached[w][make_monitor(v)] + Swapped(v, w)
                     + Cardinality(Late(v, w)) + inbox[v][make_monitor(w)]
    BY DEF LifeInv, DownForEveryMonitor
  <2>5. CASE w = x
    <3>1. PICK m \in Nat, q \in Nat, k \in Nat :
            /\ m = attached[w][make_monitor(v)] /\ q = Cardinality(Late(v, w)) /\ k = inbox[v][make_monitor(w)]
      BY <1>1, DownTypes
    <3>2. /\ owed'[v][w] = m + 0 + q + k /\ attached'[w][make_monitor(v)] = 0 /\ Swapped(v, w)' = m
          /\ Cardinality(Late(v, w)') = q /\ inbox'[v][make_monitor(w)] = k
      BY <1>1, <1>4, <2>1, <2>2, <2>4, <2>5, <3>1, Items
    <3> QED
      BY <3>2, SMT, Z3
  <2>6. CASE w # x
    BY <1>1, <1>4, <2>1, <2>3, <2>4, <2>6
  <2> QED
    BY <2>5, <2>6
<1> QED
  BY <1>7, <1>8, <1>9, <1>10, <1>11, <1>12, <1>13, <1>14, <1>15 DEF LifeInv

LEMMA ActorExitedInv ==
  ASSUME Counting, LifeInv, NEW t \in Threads, actor_exited(t)
  PROVE  LifeInv'
<1>1. /\ at(t) \in {"call", "cleanup"} /\ LifeTypeOK
      /\ UNCHANGED <<exitReason, attached, mtx, job, owed, running, waiter, ops>>
  BY DEF actor_exited, LifeInv
<1>2. PICK i \in Attachables :
        /\ todo[t][i] > 0 /\ todo' = [todo EXCEPT ![t][i] = todo[t][i] - 1]
        /\ IF i = functor
           THEN entry' = [entry EXCEPT ![self(t)] = exitReason[self(t)]] /\ UNCHANGED inbox
           ELSE Deliver(i[1], self(t), i[2]) /\ UNCHANGED entry
  BY DEF actor_exited
<1>3. PICK y \in All : y = self(t) /\ exited(y) /\ (at(t) = "cleanup" => t = Cleaner(y))
  BY <1>1 DEF LifeInv, JobInv, JobOK
<1>4. todo[t][i] \in Nat \ {0} /\ todo[t][i] - 1 \in Nat
  BY <1>1, <1>2, SMT, Z3 DEF LifeTypeOK
<1>5. /\ todo' \in [Threads -> [Attachables -> Nat]] /\ todo'[t][i] = todo[t][i] - 1
      /\ \A u \in Threads : \A j \in Attachables : (u # t \/ j # i) => todo'[u][j] = todo[u][j]
      /\ \A u \in Threads : u # t => todo'[u] = todo[u]
  <2>1. todo \in [Threads -> [Attachables -> Nat]]
    BY <1>1 DEF LifeTypeOK
  <2> QED
    BY <1>2, <1>4, <2>1, OneCount, SMT, Z3
<1>6. \A u \in Threads : at(u)' = at(u) /\ self(u)' = self(u) /\ other(u)' = other(u) /\ job'[u] = job[u]
  BY <1>1 DEF at, self, other
<1>7. OthersStay(t)
  BY <1>5, <1>6 DEF OthersStay
<1>8. LockInv'
  BY <1>1, <1>6 DEF LifeInv, LockInv, LockOK
<1>9. JobInv'
  <2>1. \A j \in Attachables : (todo[t][j] = 0 => todo'[t][j] = 0) /\ (todo[t][j] <= 1 => todo'[t][j] <= 1)
    <3>1. PICK n \in Nat : n + 1 = todo[t][i] /\ n = todo[t][i] - 1
      BY <1>4, SMT, Z3
    <3>2. todo'[t][i] = n /\ \A j \in Attachables : j # i => todo'[t][j] = todo[t][j]
      BY <1>5, <3>1
    <3>3. (todo[t][i] = 0 => todo'[t][i] = 0) /\ (todo[t][i] <= 1 => todo'[t][i] <= 1)
      BY <3>1, <3>2, SMT, Z3
    <3> QED
      BY <3>2, <3>3
  <2>2. JobOK(t) /\ functor \in Attachables
    BY Items DEF LifeInv, JobInv
  <2>3. JobOK(t)'
    BY <1>1, <1>6, <2>1, <2>2 DEF JobOK, exited, Cleaner
  <2> QED
    BY <1>1, <1>7, <2>3, JobKept DEF LifeInv, exited
<1>10. CountInv'
  BY <1>1, <1>6, <1>7, CountKept DEF LifeInv
<1>11. ListInv'
  BY <1>1 DEF LifeInv, ListInv, exited
<1>12. LinkInv'
  <2>1. \A v, w \in All : Unlinking(v, w)' <=> Unlinking(v, w)
    BY <1>6 DEF Unlinking
  <2> QED
    BY <1>1, <2>1, LinkKept DEF LifeInv
<1>13. ASSUME \A v \in All : i # make_monitor(v),
              \A v, w \in All : inbox'[v][make_monitor(w)] = inbox[v][make_monitor(w)]
       PROVE  DownForEveryMonitor'
  <2>1. \A u \in Threads : \A v \in All : todo'[u][make_monitor(v)] = todo[u][make_monitor(v)]
    BY <1>5, <1>13, Items
  <2>2. \A v, w \in All : Swapped(v, w)' = Swapped(v, w) /\ Late(v, w)' = Late(v, w)
    <3> SUFFICES ASSUME NEW v \in All, NEW w \in All
                 PROVE  Swapped(v, w)' = Swapped(v, w) /\ Late(v, w)' = Late(v, w)
      OBVIOUS
    <3>1. Late(v, w)' = Late(v, w)
      BY <1>6, <2>1 DEF Late
    <3>2. PICK c \in Threads : c = Cleaner(w)
      BY Parties
    <3>3. Swapped(v, w)' = Swapped(v, w)
      BY <1>6, <2>1, <3>2 DEF Swapped, Cleaner
    <3> QED
      BY <3>1, <3>3
  <2> QED
    BY <1>1, <1>13, <2>2, DownKept DEF LifeInv
<1>14. ASSUME i # functor, UNCHANGED entry PROVE EntryInv'
  <2>1. \A u \in Threads : todo'[u][functor] = todo[u][functor]
    BY <1>5, <1>14, Items
  <2>2. Broker \in Threads
    BY Parties
  <2> QED
    BY <1>1, <1>6, <1>14, <2>1, <2>2, SMT, Z3 DEF LifeInv, EntryInv
<1>15. ASSUME \A v \in All : i # link(v),
              \A v, w \in All : inbox[v][link(w)] > 0 => inbox'[v][link(w)] > 0
       PROVE  DeadInv'
  <2>1. \A u \in Threads : \A v \in All : todo'[u][link(v)] = todo[u][link(v)]
    BY <1>5, <1>15, Items
  <2> QED
    BY <1>1, <1>6, <1>15, <2>1, SMT, Z3 DEF LifeInv, DeadInv, exited
<1>16. CASE i = functor
  <2>1. /\ entry' \in [All -> Reasons \cup {"none", "live"}] /\ entry'[y] = exitReason[y] /\ UNCHANGED inbox
        /\ exitReason[y] \in Reasons /\ \A a \in All : a # y => entry'[a] = entry[a]
    BY <1>1, <1>2, <1>3, <1>16 DEF LifeTypeOK, exited
  <2>2. DownForEveryMonitor' /\ DeadInv'
    BY <1>13, <1>15, <1>16, <2>1, Items
  <2>3. LifeTypeOK'
    BY <1>1, <1>5, <2>1 DEF LifeTypeOK
  <2>4. EntryInv'
    <3> SUFFICES ASSUME NEW a \in All
                 PROVE  /\ entry'[a] \in Reasons => entry'[a] = exitReason[a]
                        /\ entry'[a] = "live" =>
                             \/ attached[a][functor] > 0
                             \/ at(Broker)' = "put" /\ self(Broker)' = a
                             \/ \E u \in Threads : self(u)' = a /\ todo'[u][functor] > 0
      BY <1>1 DEF EntryInv
    <3>1. CASE a = y
      BY <2>1, <3>1 DEF Reasons
    <3>2. CASE a # y
      <4>1. ASSUME NEW u \in Threads, self(u) = a, todo[u][functor] > 0
            PROVE  self(u)' = a /\ todo'[u][functor] > 0
        BY <1>3, <1>5, <1>6, <3>2, <4>1
      <4>2. at(Broker)' = at(Broker) /\ self(Broker)' = self(Broker)
        BY <1>6, Parties
      <4> QED
        BY <2>1, <3>2, <4>1, <4>2 DEF LifeInv, EntryInv
    <3> QED
      BY <3>1, <3>2
  <2> QED
    BY <1>8, <1>9, <1>10, <1>11, <1>12, <2>2, <2>3, <2>4 DEF LifeInv
<1>17. ASSUME NEW z \in All, i = link(z) PROVE LifeInv'
  <2>1. Deliver("link", y, z) /\ UNCHANGED entry /\ i # functor
    BY <1>2, <1>3, <1>17, Items DEF link
  <2>2. /\ inbox' \in [All -> [Attachables -> Nat]] /\ inbox'[z][link(y)] > 0
        /\ \A v, w \in All : inbox[v][link(w)] > 0 => inbox'[v][link(w)] > 0
        /\ \A v, w \in All : inbox'[v][make_monitor(w)] = inbox[v][make_monitor(w)]
    BY <1>1, <2>1, LinkMail
  <2>3. LifeTypeOK'
    BY <1>1, <1>5, <2>1, <2>2 DEF LifeTypeOK
  <2>4. DownForEveryMonitor' /\ EntryInv'
    BY <1>13, <1>14, <1>17, <2>1, <2>2, Items
  <2>5. DeadInv'
    <3> SUFFICES ASSUME NEW v \in All, NEW w \in All,
                        v # w, ~exited(v), exited(w), attached[v][link(w)] > 0
                 PROVE  \/ inbox'[v][link(w)] > 0
                        \/ \E u \in Threads : self(u)' = w /\ todo'[u][link(v)] > 0
      BY <1>1 DEF DeadInv, exited
    <3>1. ASSUME NEW u \in Threads, self(u) = w, todo[u][link(v)] > 0
          PROVE  inbox'[v][link(w)] > 0 \/ (self(u)' = w /\ todo'[u][link(v)] > 0)
      <4>1. CASE u = t /\ v = z
        BY <1>3, <2>2, <3>1, <4>1
      <4>2. CASE u # t \/ v # z
        <5>1. todo'[u][link(v)] = todo[u][link(v)]
          BY <1>5, <1>17, <4>2, Items
        <5> QED
          BY <1>6, <3>1, <5>1
      <4> QED
        BY <4>1, <4>2
    <3> QED
      BY <2>2, <3>1 DEF LifeInv, DeadInv
  <2> QED
    BY <1>8, <1>9, <1>10, <1>11, <1>12, <2>3, <2>4, <2>5 DEF LifeInv
<1>18. ASSUME NEW z \in All, i = make_monitor(z) PROVE LifeInv'
  <2>1. inbox' = [inbox EXCEPT ![z][make_monitor(y)] = inbox[z][make_monitor(y)] + 1] /\ UNCHANGED entry /\ i # functor
    BY <1>2, <1>3, <1>18, Items DEF make_monitor, Deliver
  <2>2. /\ inbox' \in [All -> [Attachables -> Nat]]
        /\ inbox'[z][make_monitor(y)] = inbox[z][make_monitor(y)] + 1
        /\ \A v \in All : \A j \in Attachables : (v # z \/ j # make_monitor(y)) => inbox'[v][j] = inbox[v][j]
    <3>1. inbox \in [All -> [Attachables -> Nat]] /\ make_monitor(y) \in Attachables
      BY <1>1, Items DEF LifeTypeOK
    <3>2. inbox[z][make_monitor(y)] + 1 \in Nat
      BY <3>1, SMT, Z3
    <3> QED
      BY <2>1, <3>1, <3>2, OneCount, SMT, Z3
  <2>3. LifeTypeOK'
    BY <1>1, <1>5, <2>1, <2>2 DEF LifeTypeOK
  <2>4. EntryInv' /\ DeadInv'
    BY <1>14, <1>15, <1>18, <2>1, <2>2, Items, SMT, Z3
  <2>5. \A u \in Threads : \A v \in All : u # t \/ v # z => todo'[u][make_monitor(v)] = todo[u][make_monitor(v)]
    BY <1>5, <1>18, Items
  <2>6. \A v, w \in All : v # z \/ w # y => Swapped(v, w)' = Swapped(v, w) /\ Late(v, w)' = Late(v, w)
    <3> SUFFICES ASSUME NEW v \in All, NEW w \in All, v # z \/ w # y
                 PROVE  Swapped(v, w)' = Swapped(v, w) /\ Late(v, w)' = Late(v, w)
      OBVIOUS
    <3>1. \A u \in Threads : self(u) = w => todo'[u][make_monitor(v)] = todo[u][make_monitor(v)]
      BY <1>3, <2>5
    <3>2. Late(v, w)' = Late(v, w)
      BY <1>6, <3>1 DEF Late
    <3>3. PICK c \in Threads : c = Cleaner(w)
      BY Parties
    <3>4. Swapped(v, w)' = Swapped(v, w)
      BY <1>6, <3>1, <3>3 DEF Swapped, Cleaner
    <3> QED
      BY <3>2, <3>4
  <2>7. PICK o \in Nat, m \in Nat, p \in Nat, q \in Nat, k \in Nat :
          /\ o = owed[z][y] /\ m = attached[y][make_monitor(z)] /\ p = Swapped(z, y)
          /\ q = Cardinality(Late(z, y)) /\ k = inbox[z][make_monitor(y)]
    BY <1>1, DownTypes
  <2>8. o = m + p + q + k
    BY <2>7 DEF LifeInv, DownForEveryMonitor
  <2>9. o = m + Swapped(z, y)' + Cardinality(Late(z, y)') + (k + 1)
    <3>1. CASE at(t) = "cleanup"
      <4>1. t = Cleaner(y) /\ at(t)' = "cleanup" /\ self(t) = y /\ self(t)' = y
        BY <1>3, <1>6, <3>1
      <4>2. p = todo[t][make_monitor(z)]
        BY <2>7, <3>1, <4>1 DEF Swapped
      <4>3. Swapped(z, y)' = p - 1
        <5>1. Swapped(z, y)' = todo'[t][make_monitor(z)]
          BY <4>1 DEF Swapped, Cleaner
        <5> QED
          BY <1>5, <1>18, <4>2, <5>1
      <4>4. Late(z, y)' = Late(z, y)
        BY <1>6, <2>5, <3>1 DEF Late
      <4> QED
        BY <2>7, <2>8, <4>3, <4>4, SMT, Z3
    <3>2. CASE at(t) = "call"
      <4>1. todo[t][make_monitor(z)] = 1
        <5>1. todo[t][i] <= 1
          BY <3>2 DEF LifeInv, JobInv, JobOK
        <5> QED
          BY <1>4, <1>18, <5>1, SMT, Z3
      <4>2. todo'[t][make_monitor(z)] = 0
        BY <1>5, <1>18, <4>1, SMT, Z3
      <4>3. Late(z, y)' = Late(z, y) \ {t} /\ t \in Late(z, y)
        <5>1. t \in Late(z, y) /\ t \notin Late(z, y)'
          BY <1>3, <3>2, <4>1, <4>2, SMT, Z3 DEF Late
        <5>2. \A u \in Threads : u # t => (u \in Late(z, y)' <=> u \in Late(z, y))
          BY <1>6, <2>5 DEF Late
        <5>3. Late(z, y) \subseteq Threads /\ Late(z, y)' \subseteq Threads
          BY DEF Late
        <5> QED
          BY <5>1, <5>2, <5>3
      <4>4. Cardinality(Late(z, y) \ {t}) = q - 1
        BY <2>7, <4>3, SomeThreads DEF Counting
      <4>5. Swapped(z, y)' = p
        <5>1. PICK c \in Threads : c = Cleaner(y)
          BY Parties
        <5>2. at(c)' = at(c) /\ self(c)' = self(c)
              /\ (at(c) = "cleanup" => todo'[c][make_monitor(z)] = todo[c][make_monitor(z)])
          BY <1>6, <2>5, <3>2
        <5> QED
          BY <2>7, <5>1, <5>2 DEF Swapped, Cleaner
      <4> QED
        BY <2>8, <4>3, <4>4, <4>5, SMT, Z3
    <3> QED
      BY <1>1, <3>1, <3>2
  <2>10. DownForEveryMonitor'
    <3> SUFFICES ASSUME NEW v \in All, NEW w \in All
                 PROVE  owed'[v][w] = attached'[w][make_monitor(v)] + Swapped(v, w)'
                                      + Cardinality(Late(v, w)') + inbox'[v][make_monitor(w)]
      BY DEF DownForEveryMonitor
    <3>1. CASE v = z /\ w = y
      BY <1>1, <2>2, <2>7, <2>9, <3>1
    <3>2. CASE v # z \/ w # y
      <4>1. inbox'[v][make_monitor(w)] = inbox[v][make_monitor(w)]
        BY <2>2, <3>2, Items
      <4> QED
        BY <1>1, <2>6, <3>2, <4>1 DEF LifeInv, DownForEveryMonitor
    <3> QED
      BY <3>1, <3>2
  <2> QED
    BY <1>8, <1>9, <1>10, <1>11, <1>12, <2>3, <2>4, <2>10 DEF LifeInv
<1> QED
  BY <1>16, <1>17, <1>18, Items

-----------------------------------------------------------------------------
LEMMA LifeStepInv ==
  ASSUME Counting, LifeInv, [LifeNext]_lifeVars
  PROVE  LifeInv'
<1>1. ASSUME NEW t \in Threads, Proceed(t) PROVE LifeInv'
  BY <1>1, EstablishLinkExitedInv, BacklinkInv, RemoveBacklinkInv, ActorExitedInv, ReturnInv,
     DecRunningInv, NotifyInv, PutAttachInv DEF Proceed
<1>2. ASSUME NEW t \in Actors, NEW y \in Existing, monitor(t, y) \/ demonitor(t, y) PROVE LifeInv'
  BY <1>2, MonitorInv, DemonitorInv DEF Existing
<1>3. ASSUME NEW t \in Threads, NEW x \in Existing, NEW y \in Existing,
             establish_link(t, x, y) \/ remove_link(t, x, y)
      PROVE  LifeInv'
  BY <1>3, EstablishLinkInv, RemoveLinkInv DEF Existing
<1>4. ASSUME NEW a \in Actors, exit_msg(a) \/ \E r \in Reasons : quit(a, r) PROVE LifeInv'
  <2>1. a \in Threads /\ a \in All /\ a = Cleaner(a)
    BY Parties
  <2>2. PICK r \in Reasons : cleanup(a, a, r)
    BY <1>4 DEF exit_msg, quit, Reasons
  <2> QED
    BY <2>1, <2>2, CleanupInv
<1>5. ASSUME NEW p \in Proxies, NEW r \in Reasons, kill_proxy(p, r) PROVE LifeInv'
  <2>1. Broker \in Threads /\ p \in All /\ Broker = Cleaner(p)
    BY LifecycleAssumption, Parties DEF All, Cleaner
  <2> QED
    BY <1>5, <2>1, CleanupInv DEF kill_proxy
<1> QED
  BY <1>1, <1>2, <1>3, <1>4, <1>5, StutterInv, SpawnInv, PutInv, AwaitInv DEF LifeNext

-----------------------------------------------------------------------------
INSTANCE FiniteSetTheorems

LEMMA ThreadsFinite == \A S \in SUBSET Threads : IsFiniteSet(S)
<1>1. IsFiniteSet(Actors)
  BY LifecycleAssumption
<1>2. IsFiniteSet(Actors \cup {Broker})
  BY <1>1, FS_AddElement
<1>3. IsFiniteSet(Threads)
  BY <1>2 DEF Threads
<1> QED
  BY <1>3, FS_Subset

LEMMA CountingHolds == Counting
<1>1. Cardinality({}) = 0 /\ \A t \in Threads : Cardinality({t}) = 1
  BY FS_EmptySet, FS_Singleton
<1>2. ASSUME NEW S \in SUBSET Threads
      PROVE  /\ Cardinality(S) \in Nat /\ (Cardinality(S) = 0 => S = {})
             /\ \A t \in Threads : /\ t \notin S => Cardinality(S \cup {t}) = Cardinality(S) + 1
                                   /\ t \in S => Cardinality(S \ {t}) = Cardinality(S) - 1
  <2>1. IsFiniteSet(S)
    BY ThreadsFinite
  <2>2. Cardinality(S) \in Nat /\ (Cardinality(S) = 0 => S = {})
    BY <2>1, FS_CardinalityType, FS_EmptySet
  <2>3. ASSUME NEW t \in Threads
        PROVE  /\ t \notin S => Cardinality(S \cup {t}) = Cardinality(S) + 1
               /\ t \in S => Cardinality(S \ {t}) = Cardinality(S) - 1
    BY <2>1, FS_AddElement, FS_RemoveElement
  <2> QED
    BY <2>2, <2>3
<1> QED
  BY <1>1, <1>2 DEF Counting

(* The inductive invariant of abstract_actor, its attachables, m_mtx and   *)
(* the actor_registry (abstract_actor.cpp:68-244, actor_registry.cpp:40).  *)
THEOREM LifeInvariant == LifeSpec => []LifeInv
<1>1. LifeInit => LifeInv
  BY CountingHolds, LifeInitInv
<1>2. LifeInv /\ [LifeNext]_lifeVars => LifeInv'
  BY CountingHolds, LifeStepInv
<1> QED
  BY <1>1, <1>2, PTL DEF LifeSpec

(* For any actors, proxies and interleaving of link_to(), unlink_from()    *)
(* and cleanup(): two running actors whose locks are free hold each        *)
(* other's link once or not at all, and one that still holds a link to a   *)
(* terminated actor has its exit_msg or is about to get it                 *)
(* (abstract_actor.cpp:128-244).                                           *)
THEOREM LifeLinksKept == LifeSpec => []LinksKept
<1>1. ASSUME LifeInv PROVE LinksKept
  <2>1. LinksMutual
    BY <1>1, FreeNotUnlinking DEF LinksMutual, LifeInv, LinkInv
  <2>2. DeadLinkNotified
    BY <1>1 DEF DeadLinkNotified, LifeInv, DeadInv, exited
  <2> QED
    BY <1>1, <2>1, <2>2 DEF LinksKept, LifeInv
<1> QED
  BY <1>1, LifeInvariant, PTL

(* For any actors: every monitor() that was not withdrawn is answered by   *)
(* exactly one down_msg, however it races with cleanup(), and the registry *)
(* forgets every actor that ended, whether its functor was attached before *)
(* or after (abstract_actor.cpp:68, 203, actor_registry.cpp:60).           *)
THEOREM LifeExitNoticed == LifeSpec => []ExitNoticed
<1>1. ASSUME LifeInv PROVE RegistryForgets
  <2> SUFFICES ASSUME NEW a \in Actors, at(a) \in {"wake", "done"}, entry[a] # "none",
                      ~(at(Broker) # "idle" /\ self(Broker) = a)
               PROVE  entry[a] = exitReason[a]
    BY DEF RegistryForgets
  <2>1. a \in All /\ a \in Threads /\ a # Broker /\ Broker \in Threads
    BY Parties
  <2>2. attached[a][functor] = 0
    BY <1>1, <2>1, Items DEF LifeInv, JobInv, JobOK, ListInv
  <2>3. ASSUME NEW u \in Threads, self(u) = a, todo[u][functor] > 0 PROVE FALSE
    <3>1. at(u) \in {"call", "cleanup"} /\ (at(u) = "call" => u = Broker) /\ (at(u) = "cleanup" => u = Cleaner(a))
      BY <1>1, <2>3, Items, SMT, Z3 DEF LifeInv, JobInv, JobOK
    <3>2. at(u) # "cleanup"
      BY <2>1, <3>1, Parties
    <3> QED
      BY <2>3, <3>1, <3>2
  <2>4. entry[a] # "live"
    BY <1>1, <2>1, <2>2, <2>3, SMT, Z3 DEF LifeInv, EntryInv
  <2> QED
    BY <1>1, <2>1, <2>4 DEF LifeInv, LifeTypeOK, EntryInv
<1>2. ASSUME LifeInv PROVE ExitNoticed
  BY <1>1, <1>2 DEF ExitNoticed, LifeInv
<1> QED
  BY <1>2, LifeInvariant, PTL

(* The safety half of AwaitExact, for any actors: await_all_actors_done()  *)
(* returns only after every actor that was spawned has ended and has told  *)
(* all its observers (actor_registry.cpp:105, local_actor.cpp:161).        *)
THEOREM LifeAwaitSound == LifeSpec => []AwaitSound
<1>1. ASSUME LifeInv, waiter = "done", NEW a \in Actors, at(a) # "new"
      PROVE  exited(a) /\ AllCalled(a)
  <2>1. a \in Threads /\ a \in All
    BY Parties
  <2>2. at(a) \in {"wake", "done"}
    BY <1>1 DEF LifeInv, CountInv, Unfinished
  <2>3. exited(a) /\ (\A i \in Attachables : todo[a][i] = 0) /\ todo[a] \in [Attachables -> Nat]
    BY <1>1, <2>1, <2>2 DEF LifeInv, LifeTypeOK, JobInv, JobOK
  <2> QED
    BY <2>3 DEF AllCalled, NoAttachables
<1>2. ASSUME LifeInv PROVE AwaitSound
  BY <1>1, <1>2 DEF AwaitSound
<1> QED
  BY <1>2, LifeInvariant, PTL

-----------------------------------------------------------------------------
LEMMA LeastElement ==
  ASSUME NEW S \in SUBSET Nat, S # {}
  PROVE  \E m \in S : \A l \in S : m <= l
<1> DEFINE R == OpToRel(<, Nat)
<1>1. PICK m \in S : \A l \in S : ~(<<l, m>> \in R)
  <2>1. IsWellFoundedOn(R, Nat)
    BY NatLessThanWellFounded
  <2> HIDE DEF R
  <2> QED
    BY <2>1, WFMin
<1>2. \A l \in S : m <= l
  <2>1. SUFFICES ASSUME NEW l \in S, l < m PROVE FALSE
    BY SMT
  <2>2. <<l, m>> \in R
    BY <2>1, SMT DEF OpToRel
  <2> QED
    BY <1>1, <2>2
<1> QED
  BY <1>2

LEMMA LowerBound ==
  ASSUME NEW types \in Seq(Entry), ByName(types), NEW x \in Nat
  PROVE  /\ lower_bound(types, x) \in 1..(Len(types) + 1)
         /\ \A j \in DOMAIN types : types[j].name < x <=> j < lower_bound(types, x)
<1> DEFINE n == Len(types)
           S == {i \in DOMAIN types : types[i].name < x}
           C == (1..(n + 1)) \ S
<1>1. n \in Nat /\ DOMAIN types = 1..n /\ \A i \in 1..n : types[i].name \in Nat
  BY EntryFacts
<1>2. C \in SUBSET Nat /\ n + 1 \in C
  BY <1>1, SMT
<1>3. PICK l \in C : \A j \in C : l <= j
  BY <1>2, LeastElement
<1>4. l \in 1..(n + 1) /\ l \notin S
  BY <1>3
<1>5. ASSUME NEW j \in 1..n PROVE types[j].name < x <=> j < l
  <2>1. CASE j < l
    <3>1. j \notin C
      BY <1>1, <1>3, <1>4, <2>1, SMT
    <3>2. j \in 1..(n + 1)
      BY <1>1, SMT
    <3> QED
      BY <2>1, <3>1, <3>2
  <2>2. CASE j = l
    BY <1>1, <1>4, <2>2, SMT
  <2>3. CASE l < j
    <3>1. l \in 1..n
      BY <1>1, <1>4, <2>3, SMT
    <3>2. types[l].name < types[j].name
      BY <1>1, <2>3, <3>1 DEF ByName
    <3>3. ~(types[l].name < x)
      BY <1>1, <1>4, <3>1
    <3> QED
      BY <1>1, <2>3, <3>1, <3>2, <3>3, SMT
  <2>4. j < l \/ j = l \/ l < j
    BY <1>1, <1>4, SMT
  <2> QED
    BY <2>1, <2>2, <2>3, <2>4
<1>6. S = 1..(l - 1)
  <2>1. \A j : j \in S <=> j \in 1..n /\ j < l
    BY <1>1, <1>5
  <2>2. \A j : j \in 1..n /\ j < l <=> j \in 1..(l - 1)
    BY <1>1, <1>4, SMT
  <2> HIDE DEF S
  <2> QED
    BY <2>1, <2>2
<1>7. Cardinality(1..(l - 1)) = l - 1
  <2>1. 1 \in Int /\ l - 1 \in Int /\ l \in Nat /\ l >= 1
    BY <1>1, <1>4, SMT
  <2>2. Cardinality(1..(l - 1)) = IF 1 > l - 1 THEN 0 ELSE (l - 1) - 1 + 1
    BY <2>1, FS_Interval
  <2> QED
    BY <2>1, <2>2, SMT
<1>8. lower_bound(types, x) = l
  <2>1. lower_bound(types, x) = 1 + Cardinality(S)
    BY DEF lower_bound
  <2>2. 1 + (l - 1) = l
    BY <1>1, <1>4, SMT
  <2> HIDE DEF S
  <2> QED
    BY <1>6, <1>7, <2>1, <2>2
<1> QED
  BY <1>1, <1>4, <1>5, <1>8

LEMMA DividesHolds == Divides
BY LowerBound, Zenon DEF Divides

(* Threads that create the map of types, look names up, announce types and *)
(* make tuples on the fly use one map that is ready, whose list of types   *)
(* stays sorted, and a name that somebody got a type for keeps that type   *)
(* (singletons.hpp:88, uniform_type_info_map.cpp:719, 743), for any number *)
(* of threads, names and calls.                                            *)
THEOREM TypesAgreeHolds == TypesSpec => TypesAgree
<1> DEFINE Stays == \A x \in TypeNames : answers[x] # 0 => answers'[x] = answers[x]
<1>1. TypesInv /\ [TypesNext]_typeVars => TypesInv' /\ Stays
  <2> SUFFICES ASSUME TypesInv, [TypesNext]_typeVars PROVE TypesInv' /\ Stays
    OBVIOUS
  <2>1. CASE UNCHANGED typeVars
    <3>1. TypesInv'
      BY <2>1 DEF typeVars, TypesInv, TypesTyped, MapInv, CallInv, AnswerInv, Types
    <3>2. Stays
      BY <2>1 DEF typeVars
    <3> QED
      BY <3>1, <3>2
  <2>2. ASSUME NEW t \in Users, UserStep(t) PROVE TypesInv' /\ Stays
    <3>1. CASE lazy_get(t) \/ create_singleton(t) \/ initialize(t) \/ store(t) \/ announce(t)
               \/ default_meta_message(t)
      BY <3>1, LazyGetStep, CreateStep, InitializeStep, StoreStep, AnnounceStep, ElementStep,
         DividesHolds
    <3>2. CASE by_uniform_name(t) \/ insert_type(t)
      BY <3>2, SearchStep, InsertStep, DividesHolds
    <3> QED
      BY <2>2, <3>1, <3>2 DEF UserStep
  <2> QED
    BY <2>1, <2>2 DEF TypesNext
<1>2. TypesInv => OneMap /\ TypesSorted
  BY TypesInvSorted
<1>3. TypesInv /\ [TypesNext]_typeVars => TypesInv' /\ [Stays]_typeVars
  BY <1>1
<1> QED
  BY <1>2, <1>3, TypesInvInit, PTL DEF TypesSpec, TypesAgree
=============================================================================
