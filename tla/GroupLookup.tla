----------------------------- MODULE GroupLookup ----------------------------
(***************************************************************************)
(* Threads that call get() of the local group module for one identifier.   *)
(* The map of instances is guarded by a shared_spinlock that get() holds   *)
(* shared for the search and upgrades to insert.  Every access to the      *)
(* atomic m_flag is a step.  compare_exchange_weak may fail spuriously,    *)
(* which changes nothing.                                                  *)
(***************************************************************************)
EXTENDS Integers, FiniteSets

CONSTANTS Callers,
          LongBound  \* min_long() is -LongBound

ASSUME LookAssumption == IsFiniteSet(Callers) /\ LongBound \in Nat \ {0}

MinLong == -LongBound

VARIABLES flag,      \* m_flag
          at,        \* at[t]: where thread t is
          v,         \* v[t]: the local v of lock() and lock_shared()
          instance,  \* m_instances: the group, 0 if there is none
          made,      \* groups that were created
          mine,      \* mine[t]: tmp
          found      \* found[t]: what get() returned

lookVars == <<flag, at, v, instance, made, mine, found>>

LookInit == /\ flag = 0 /\ instance = 0 /\ made = 0
            /\ at = [t \in Callers |-> "idle"] /\ v = [t \in Callers |-> 0]
            /\ mine = [t \in Callers |-> 0] /\ found = [t \in Callers |-> 0]

Go(t, where) == at' = [at EXCEPT ![t] = where]
LoadFlag(t) == v' = [v EXCEPT ![t] = flag]

-----------------------------------------------------------------------------
(* A mutant of lock: it looks and stores instead of compare and exchange.  *)
LockStores(t) ==
  /\ at[t] = "lock"
  /\ IF v[t] # 0 THEN LoadFlag(t) /\ UNCHANGED <<flag, at>>
     ELSE flag' = MinLong /\ Go(t, "insert") /\ UNCHANGED v
  /\ UNCHANGED <<instance, made, mine, found>>

lock(t) ==
  /\ at[t] = "lock"
  /\ IF v[t] # 0 \/ flag # v[t] THEN LoadFlag(t) /\ UNCHANGED <<flag, at>>
     ELSE flag' = MinLong /\ Go(t, "insert") /\ UNCHANGED v
  /\ UNCHANGED <<instance, made, mine, found>>

lock_shared(t) ==
  /\ at[t] = "lock_shared"
  /\ IF v[t] < 0 \/ flag # v[t] THEN LoadFlag(t) /\ UNCHANGED <<flag, at>>
     ELSE flag' = flag + 1 /\ Go(t, "find") /\ UNCHANGED v
  /\ UNCHANGED <<instance, made, mine, found>>

unlock_shared(t) == flag' = flag - 1

unlock == flag' = 0

-----------------------------------------------------------------------------
get(t) == /\ at[t] = "idle" /\ LoadFlag(t) /\ Go(t, "lock_shared")
          /\ UNCHANGED <<flag, instance, made, mine, found>>

(* The search.  The destructor of the guard releases the lock.             *)
find(t) ==
  /\ at[t] = "find"
  /\ IF instance # 0 THEN found' = [found EXCEPT ![t] = instance] /\ Go(t, "return")
                          /\ UNCHANGED <<made, mine>>
     ELSE made' = made + 1 /\ mine' = [mine EXCEPT ![t] = made'] /\ Go(t, "upgrade")
          /\ UNCHANGED found
  /\ UNCHANGED <<flag, v, instance>>

Return(t) == /\ at[t] = "return" /\ unlock_shared(t) /\ Go(t, "done")
             /\ UNCHANGED <<v, instance, made, mine, found>>

(* unlock_upgrade_and_lock; the first load of lock() is a step as well.    *)
upgrade(t) ==
  /\ \/ at[t] = "upgrade" /\ unlock_shared(t) /\ Go(t, "load") /\ UNCHANGED v
     \/ at[t] = "load" /\ LoadFlag(t) /\ Go(t, "lock") /\ UNCHANGED flag
  /\ UNCHANGED <<instance, made, mine, found>>

(* A mutant of Inserted: the own group replaces the one that is there.     *)
InsertedAlways(t) == mine[t]

Inserted(t) == IF instance = 0 THEN mine[t] ELSE instance

insert(t) ==
  /\ at[t] = "insert" /\ Go(t, "unlock")
  /\ instance' = Inserted(t) /\ found' = [found EXCEPT ![t] = instance']
  /\ UNCHANGED <<flag, v, made, mine>>

Unlock(t) == /\ at[t] = "unlock" /\ unlock /\ Go(t, "done")
             /\ UNCHANGED <<v, instance, made, mine, found>>

Step(t) == \/ get(t) \/ lock_shared(t) \/ find(t) \/ Return(t) \/ upgrade(t)
           \/ lock(t) \/ insert(t) \/ Unlock(t)

LookNext == \E t \in Callers : Step(t)
LookSpec == LookInit /\ [][LookNext]_lookVars
LookFairSpec == LookSpec /\ \A t \in Callers : WF_lookVars(Step(t))

-----------------------------------------------------------------------------
Readers == {t \in Callers : at[t] \in {"find", "return", "upgrade"}}
Writers == {t \in Callers : at[t] \in {"insert", "unlock"}}

(* m_flag is min_long for the writer or a number of readers, a thread      *)
(* loads no other value, and get() goes through its steps                  *)
(* (shared_spinlock.cpp:41).                                               *)
LookTypeOK ==
  /\ flag \in {MinLong} \cup Nat /\ v \in [Callers -> {MinLong} \cup Nat]
  /\ at \in [Callers -> {"idle", "lock_shared", "find", "return", "upgrade", "load",
                         "lock", "insert", "unlock", "done"}]
  /\ instance \in Nat /\ made \in Nat
  /\ mine \in [Callers -> Nat] /\ found \in [Callers -> Nat]

(* While one thread inserts, no other thread reads or changes the map      *)
(* (shared_spinlock.cpp:41, 62).                                           *)
MapExclusive == \A t \in Writers : Writers = {t} /\ Readers = {}

(* Everyone who asks for an identifier gets the same group, although two   *)
(* threads may have created one each between search and insert             *)
(* (group_manager.cpp:270).                                                *)
OneGroup == \A t, u \in Callers :
              found[t] # 0 /\ found[u] # 0 => found[t] = found[u]

(* get() returns, in spite of the upgrade that waits for all readers       *)
(* (locks.hpp:30).                                                         *)
GetReturns == \A t \in Callers : at[t] # "idle" ~> at[t] = "done"
=============================================================================
