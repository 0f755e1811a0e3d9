------------------------------- MODULE TypeMap ------------------------------
(***************************************************************************)
(* Threads that create the map of uniform types on first use, look types   *)
(* up by name and announce new ones.  The meta information of a tuple is   *)
(* made on the fly, between a search under the shared lock and an          *)
(* insertion under the exclusive one; GroupLookup shows that the sections  *)
(* of this lock exclude each other, so each is one step here.  A name is a *)
(* number, whose order is that of strcmp.                                  *)
(***************************************************************************)
EXTENDS Integers, SeqOps

CONSTANTS Users,       \* threads
          Builtin,     \* names in m_builtin_types
          UserTypes,   \* names that are announced
          ElementsOf,  \* the elements of each name that begins with "@<>"
          MaxCalls     \* calls of each thread

Tuples == DOMAIN ElementsOf
TypeNames == Builtin \cup UserTypes \cup Tuples

NoUser == 0

ASSUME TypeNamesAssumption ==
  /\ NoUser \notin Users
  /\ TypeNames \subseteq Nat \ {0} /\ MaxCalls \in Nat
  /\ Builtin \cap (UserTypes \cup Tuples) = {} /\ UserTypes \cap Tuples = {}
  /\ \A x \in Tuples : ElementsOf[x] \in Seq(Builtin \cup UserTypes)

VARIABLES s_map,    \* s_uniform_type_info_map: number of a map, 0 is nullptr
          s_mtx,    \* who holds s_uniform_type_info_map_mtx
          maps,     \* maps[i]: its m_user_types, and whether initialize() is done
          utis,     \* number of user types created; a pointer is such a number
          where,    \* where[t]: the place of thread t
          uti_map,  \* uti_map[t]: result of lazy_get
          call,     \* call[t]: the name, and whether it is announced
          uti,      \* uti[t]: the argument of insert
          calls,    \* calls[t]: how many calls t has made
          answers   \* the last answer given for each name, a history

typeVars == <<s_map, s_mtx, maps, utis, where, uti_map, call, uti, calls, answers>>

NoUti == [name |-> 0, ptr |-> 0, elements |-> <<>>]

TypesInit ==
  /\ s_map = 0 /\ s_mtx = NoUser /\ maps = <<>> /\ utis = 0
  /\ where = [t \in Users |-> "idle"] /\ uti_map = [t \in Users |-> 0]
  /\ call = [t \in Users |-> <<0, FALSE>>] /\ uti = [t \in Users |-> NoUti]
  /\ calls = [t \in Users |-> 0] /\ answers = [x \in TypeNames |-> 0]

Goes(t, place) == where' = [where EXCEPT ![t] = place]

-----------------------------------------------------------------------------
(* The first load of lazy_get.                                             *)
lazy_get(t) ==
  /\ where[t] = "idle" /\ calls[t] < MaxCalls
  /\ calls' = [calls EXCEPT ![t] = @ + 1]
  /\ \E c \in (TypeNames \X {FALSE}) \cup (UserTypes \X {TRUE}) :
       call' = [call EXCEPT ![t] = c]
  /\ uti_map' = [uti_map EXCEPT ![t] = s_map]
  /\ Goes(t, IF s_map = 0 THEN "lock" ELSE "have")
  /\ UNCHANGED <<s_map, s_mtx, maps, utis, uti, answers>>

(* The lock and the second load; a new map if there is still none.         *)
create_singleton(t) ==
  /\ where[t] = "lock" /\ s_mtx = NoUser
  /\ IF s_map # 0
     THEN /\ uti_map' = [uti_map EXCEPT ![t] = s_map] /\ Goes(t, "have")
          /\ UNCHANGED <<s_mtx, maps>>
     ELSE /\ s_mtx' = t /\ maps' = Append(maps, [ready |-> FALSE, types |-> <<>>])
          /\ uti_map' = [uti_map EXCEPT ![t] = Len(maps')] /\ Goes(t, "initialize")
  /\ UNCHANGED <<s_map, utis, call, uti, calls, answers>>

initialize(t) ==
  /\ where[t] = "initialize" /\ maps' = [maps EXCEPT ![uti_map[t]].ready = TRUE]
  /\ Goes(t, "store")
  /\ UNCHANGED <<s_map, s_mtx, utis, uti_map, call, uti, calls, answers>>

store(t) ==
  /\ where[t] = "store" /\ s_map' = uti_map[t] /\ s_mtx' = NoUser /\ Goes(t, "have")
  /\ UNCHANGED <<maps, utis, uti_map, call, uti, calls, answers>>

-----------------------------------------------------------------------------
(* A builtin type is its own pointer, with a sign.                         *)
lower_bound(types, x) ==
  1 + Cardinality({i \in DOMAIN types : types[i].name < x})

find_name(m, x) ==
  LET types == maps[m].types
      i == lower_bound(types, x)
  IN IF x \in Builtin THEN -x
     ELSE IF i <= Len(types) /\ types[i].name = x THEN types[i].ptr ELSE 0

Answer(t, ptr) == /\ answers' = [answers EXCEPT ![call[t][1]] = ptr] /\ Goes(t, "idle")
                  /\ uti' = [uti EXCEPT ![t] = NoUti]

(* announce() comes with its type.                                         *)
announce(t) ==
  /\ where[t] = "have" /\ call[t][2] /\ utis' = utis + 1 /\ Goes(t, "insert")
  /\ uti' = [uti EXCEPT ![t] = [name |-> call[t][1], ptr |-> utis', elements |-> <<>>]]
  /\ UNCHANGED <<s_map, s_mtx, maps, uti_map, call, calls, answers>>

by_uniform_name(t) ==
  LET x == call[t][1]
      result == find_name(uti_map[t], x)
  IN /\ where[t] = "have" /\ ~call[t][2]
     /\ IF result = 0 /\ x \in Tuples
        THEN /\ utis' = utis + 1 /\ Goes(t, "elements")
             /\ uti' = [uti EXCEPT ![t] = [name |-> x, ptr |-> utis', elements |-> <<>>]]
             /\ UNCHANGED answers
        ELSE Answer(t, result) /\ UNCHANGED utis
     /\ UNCHANGED <<s_map, s_mtx, maps, uti_map, call, calls>>

(* One round of the constructor's loop.  An unknown name is pushed as a    *)
(* null pointer: by_uniform_name does not throw.                           *)
default_meta_message(t) ==
  LET names == ElementsOf[uti[t].name]
      k == Len(uti[t].elements) + 1
  IN /\ where[t] = "elements"
     /\ IF k > Len(names) THEN Goes(t, "insert") /\ UNCHANGED uti
        ELSE /\ uti' = [uti EXCEPT ![t].elements = Append(@, find_name(uti_map[t], names[k]))]
             /\ UNCHANGED where
     /\ UNCHANGED <<s_map, s_mtx, maps, utis, uti_map, call, calls, answers>>

(* A mutant of Known: every type is taken to be new.                       *)
NeverKnown(types, x) == FALSE

Known(types, x) == LET i == lower_bound(types, x)
                   IN i <= Len(types) /\ types[i].name = x

(* The argument is deleted if the type is known.                           *)
insert_type(t) ==
  LET types == maps[uti_map[t]].types
      x == uti[t].name
  IN /\ where[t] = "insert"
     /\ IF Known(types, x)
        THEN Answer(t, types[lower_bound(types, x)].ptr) /\ UNCHANGED maps
        ELSE /\ Answer(t, uti[t].ptr)
             /\ maps' = [maps EXCEPT ![uti_map[t]].types =
                                        InsertAt(@, lower_bound(@, x), uti[t])]
     /\ UNCHANGED <<s_map, s_mtx, utis, uti_map, call, calls>>

UserStep(t) == \/ lazy_get(t) \/ create_singleton(t) \/ initialize(t) \/ store(t)
               \/ announce(t) \/ by_uniform_name(t) \/ default_meta_message(t)
               \/ insert_type(t)

TypesNext == \E t \in Users : UserStep(t)
TypesSpec == TypesInit /\ [][TypesNext]_typeVars

-----------------------------------------------------------------------------
(* Nobody gets a map that is not initialised or that others do not see,    *)
(* although several threads find none at first (singletons.hpp:88).        *)
OneMap == \A t \in Users : where[t] \in {"have", "elements", "insert"} =>
            uti_map[t] = s_map /\ maps[s_map].ready

(* The user types stay sorted by name without doubles, which lower_bound   *)
(* needs, and the elements of a tuple are types of the same map, or null   *)
(* (uniform_type_info_map.cpp:743).                                        *)
TypesSorted ==
  \A m \in DOMAIN maps :
    LET types == maps[m].types
    IN /\ \A i, j \in DOMAIN types : i < j => types[i].name < types[j].name
       /\ \A i \in DOMAIN types : \A k \in DOMAIN types[i].elements :
            types[i].elements[k] \in {0, find_name(m, ElementsOf[types[i].name][k])}

(* A name keeps its meaning: once somebody has got a type for it, from a   *)
(* search, an announcement or a tuple made on the fly, everybody gets that *)
(* one, from the one map there is (uniform_type_info_map.cpp:719).         *)
TypesAgree ==
  /\ [](OneMap /\ TypesSorted)
  /\ [][\A x \in TypeNames : answers[x] # 0 => answers'[x] = answers[x]]_typeVars
=============================================================================
