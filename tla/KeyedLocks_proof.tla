-------------------------- MODULE KeyedLocks_proof --------------------------
(***************************************************************************)
(* For every set of goroutines, keys and addresses: the lock table of      *)
(* locks.go keeps its types, never lets two goroutines hold one key, never *)
(* loses or leaks an entry, and implements KeyMutex.                       *)
(***************************************************************************)
EXTENDS KeyedLocks, FiniteSetTheorems, TLAPS

\* Different keys have different mutex objects.
EntriesDistinct == \A j, k \in Keys : locks[j] # None /\ locks[j] = locks[k] => j = k

\* A goroutine that is outside holds no pointer; one inside has both.
PointersMatch == \A p \in Procs :
  IF pc[p] = "idle" THEN lk[p] = None /\ key[p] = None
                    ELSE lk[p] \in Objs /\ key[p] \in Keys

\* The mutex of an object belongs to exactly the goroutine inside it.
OwnersMatch ==
  /\ \A p \in Procs : pc[p] = "held" => owner[lk[p]] = p
  /\ \A o \in Objs : owner[o] # None => pc[owner[o]] = "held" /\ lk[owner[o]] = o

IInv == /\ TypeOK /\ PointersMatch /\ EntriesDistinct /\ OwnersMatch
        /\ EntriesCounted /\ NoLeakedEntry

-----------------------------------------------------------------------------
LEMMA UsersFinite == \A k \in Keys : IsFiniteSet(Users(k)) /\ Cardinality(Users(k)) \in Nat
<1> TAKE k \in Keys
<1>1. Users(k) \subseteq Procs
  BY DEF Users
<1> QED
  BY <1>1, ProcsAssumption, FS_Subset, FS_CardinalityType

LEMMA InitIInv == Init => IInv
<1> SUFFICES ASSUME Init PROVE IInv
  OBVIOUS
<1> USE NoneAssumption DEF Init
<1>1. TypeOK /\ PointersMatch /\ EntriesDistinct /\ OwnersMatch
  BY DEF TypeOK, PointersMatch, EntriesDistinct, OwnersMatch, States
<1>2. EntriesCounted /\ NoLeakedEntry
  BY DEF EntriesCounted, NoLeakedEntry
<1> QED
  BY <1>1, <1>2 DEF IInv

LEMMA EnterIInv == ASSUME IInv, NEW p \in Procs, NEW k \in Keys, Enter(p, k) PROVE IInv'
<1> USE NoneAssumption
<1>1. PICK o \in Objs :
        /\ \/ locks[k] = o /\ refs' = [refs EXCEPT ![o] = @ + 1] /\ UNCHANGED <<locks, owner>>
           \/ /\ locks[k] = None /\ Fresh(o)
              /\ locks' = [locks EXCEPT ![k] = o]
              /\ refs' = [refs EXCEPT ![o] = 1]
              /\ owner' = [owner EXCEPT ![o] = None]
        /\ lk' = [lk EXCEPT ![p] = o]
  BY DEF Enter
<1>2. /\ pc[p] = "idle" /\ lk[p] = None /\ key[p] = None
      /\ key' = [key EXCEPT ![p] = k] /\ pc' = [pc EXCEPT ![p] = "waiting"]
  BY DEF Enter, IInv, PointersMatch
<1>3. TypeOK'
  BY <1>1, <1>2 DEF IInv, TypeOK, States
<1>4. PointersMatch'
  BY <1>1, <1>2 DEF IInv, TypeOK, PointersMatch
<1>5. EntriesDistinct'
  BY <1>1 DEF IInv, TypeOK, EntriesDistinct, Fresh
<1>6. OwnersMatch'
  BY <1>1, <1>2 DEF IInv, TypeOK, OwnersMatch, PointersMatch, Fresh
<1>7. Users(k)' = Users(k) \cup {p} /\ p \notin Users(k)
  BY <1>2 DEF IInv, TypeOK, Users
<1>8. \A j \in Keys : j # k => Users(j)' = Users(j)
  BY <1>2 DEF IInv, TypeOK, Users
<1>9. Cardinality(Users(k)') = Cardinality(Users(k)) + 1
  BY <1>7, UsersFinite, FS_AddElement
<1>10. locks[k] = None => Users(k) = {} /\ Cardinality(Users(k)) = 0
  BY FS_EmptySet DEF IInv, EntriesCounted, PointersMatch, Users
<1>11. EntriesCounted'
  <2>1. ASSUME NEW q \in Procs, pc'[q] # "idle" PROVE locks'[key'[q]] = lk'[q]
    BY <1>1, <1>2, <2>1 DEF IInv, TypeOK, EntriesCounted, PointersMatch
  <2>2. ASSUME NEW j \in Keys, locks'[j] # None
        PROVE  refs'[locks'[j]] = Cardinality(Users(j)')
    <3>1. CASE j = k
      BY <1>1, <1>9, <1>10, <3>1 DEF IInv, TypeOK, EntriesCounted
    <3>2. CASE j # k
      <4>1. locks'[j] = locks[j] /\ locks[j] \in Objs /\ locks[j] # o
        BY <1>1, <2>2, <3>2 DEF IInv, TypeOK, EntriesDistinct, Fresh
      <4> QED
        BY <1>1, <1>8, <3>2, <4>1 DEF IInv, TypeOK, EntriesCounted
    <3> QED
      BY <3>1, <3>2
  <2> QED
    BY <2>1, <2>2 DEF EntriesCounted
<1>12. NoLeakedEntry'
  BY <1>1, <1>7, <1>8 DEF IInv, TypeOK, NoLeakedEntry
<1> QED
  BY <1>3, <1>4, <1>5, <1>6, <1>11, <1>12 DEF IInv

LEMMA AcquireIInv == ASSUME IInv, NEW p \in Procs, Acquire(p) PROVE IInv'
<1> USE NoneAssumption DEF Acquire
<1>1. lk[p] \in Objs
  BY DEF IInv, PointersMatch
<1>2. \A k \in Keys : Users(k)' = Users(k)
  BY DEF IInv, TypeOK, Users
<1>3. TypeOK' /\ PointersMatch' /\ EntriesDistinct'
  BY <1>1 DEF IInv, TypeOK, PointersMatch, EntriesDistinct, States
<1>4. OwnersMatch'
  BY <1>1 DEF IInv, TypeOK, OwnersMatch
<1>5. EntriesCounted' /\ NoLeakedEntry'
  BY <1>2 DEF IInv, TypeOK, EntriesCounted, NoLeakedEntry
<1> QED
  BY <1>3, <1>4, <1>5 DEF IInv

LEMMA UnlockIInv == ASSUME IInv, NEW p \in Procs, Unlock(p) PROVE IInv'
<1> USE NoneAssumption DEF Unlock
<1>1. lk[p] \in Objs /\ owner[lk[p]] = p
  BY DEF IInv, PointersMatch, OwnersMatch
<1>2. \A k \in Keys : Users(k)' = Users(k)
  BY DEF IInv, TypeOK, Users
<1>3. TypeOK' /\ PointersMatch' /\ EntriesDistinct'
  BY <1>1 DEF IInv, TypeOK, PointersMatch, EntriesDistinct, States
<1>4. OwnersMatch'
  BY <1>1 DEF IInv, TypeOK, OwnersMatch
<1>5. EntriesCounted' /\ NoLeakedEntry'
  BY <1>2 DEF IInv, TypeOK, EntriesCounted, NoLeakedEntry
<1> QED
  BY <1>3, <1>4, <1>5 DEF IInv

LEMMA LeaveIInv == ASSUME IInv, NEW p \in Procs, Leave(p) PROVE IInv'
<1> USE NoneAssumption
<1>0. PICK k \in Keys, o \in Objs : key[p] = k /\ lk[p] = o
  BY DEF Leave, IInv, PointersMatch
<1>1. /\ locks[k] = o /\ p \in Users(k)
      /\ refs[o] = Cardinality(Users(k)) /\ pc[p] = "leaving"
  BY <1>0 DEF Leave, IInv, EntriesCounted, Users
<1>2. /\ lk' = [lk EXCEPT ![p] = None] /\ key' = [key EXCEPT ![p] = None]
      /\ pc' = [pc EXCEPT ![p] = "idle"] /\ owner' = owner
      /\ refs' = [refs EXCEPT ![o] = @ - 1]
      /\ locks' = IF refs[o] = 1 THEN [locks EXCEPT ![k] = None] ELSE locks
  BY <1>0 DEF Leave
<1>3. Users(k)' = Users(k) \ {p}
  BY <1>1, <1>2 DEF IInv, TypeOK, Users
<1>4. Cardinality(Users(k)') = Cardinality(Users(k)) - 1
  BY <1>1, <1>3, UsersFinite, FS_RemoveElement
<1>5. \A j \in Keys : j # k => Users(j)' = Users(j)
  BY <1>0, <1>1, <1>2 DEF IInv, TypeOK, Users
<1>6. refs[o] >= 1
  BY <1>1, UsersFinite, FS_EmptySet
<1>7. TypeOK'
  BY <1>1, <1>2, <1>6 DEF IInv, TypeOK, States
<1>8. PointersMatch' /\ EntriesDistinct'
  BY <1>1, <1>2 DEF IInv, TypeOK, PointersMatch, EntriesDistinct
<1>9. OwnersMatch'
  BY <1>1, <1>2 DEF IInv, TypeOK, OwnersMatch
<1>10. refs[o] = 1 => Users(k)' = {}
  <2> SUFFICES ASSUME refs[o] = 1 PROVE Users(k)' = {}
    OBVIOUS
  <2>1. IsFiniteSet(Users(k)') /\ Cardinality(Users(k)') = 0
    BY <1>1, <1>3, <1>4, UsersFinite, FS_Subset
  <2> QED
    BY <2>1, FS_EmptySet
<1>11. EntriesCounted'
  <2>1. ASSUME NEW q \in Procs, pc'[q] # "idle" PROVE locks'[key'[q]] = lk'[q]
    <3>1. q # p /\ pc[q] # "idle" /\ key'[q] = key[q] /\ lk'[q] = lk[q] /\ key[q] \in Keys
      BY <1>1, <1>2, <2>1 DEF IInv, TypeOK, PointersMatch
    <3>2. refs[o] = 1 => key[q] # k
      BY <1>10, <2>1, <3>1 DEF Users
    <3> QED
      BY <1>1, <1>2, <3>1, <3>2 DEF IInv, TypeOK, EntriesCounted
  <2>2. ASSUME NEW j \in Keys, locks'[j] # None
        PROVE  refs'[locks'[j]] = Cardinality(Users(j)')
    <3>1. locks'[j] = locks[j] /\ locks[j] \in Objs
      BY <1>1, <1>2, <2>2 DEF IInv, TypeOK
    <3>2. CASE j = k
      BY <1>1, <1>2, <1>4, <3>1, <3>2 DEF IInv, TypeOK
    <3>3. CASE j # k
      <4>1. locks[j] # o
        BY <1>1, <3>3 DEF IInv, EntriesDistinct
      <4> QED
        BY <1>1, <1>2, <1>5, <3>1, <3>3, <4>1 DEF IInv, TypeOK, EntriesCounted
    <3> QED
      BY <3>2, <3>3
  <2> QED
    BY <2>1, <2>2 DEF EntriesCounted
<1>12. NoLeakedEntry'
  <2> SUFFICES ASSUME NEW j \in Keys, locks'[j] # None PROVE Users(j)' # {}
    BY DEF NoLeakedEntry
  <2>1. CASE j # k
    BY <1>1, <1>2, <1>5, <2>1 DEF IInv, TypeOK, NoLeakedEntry
  <2>2. CASE j = k
    <3>1. Cardinality(Users(k)') # 0
      BY <1>1, <1>2, <1>4, <1>6, <2>2 DEF IInv, TypeOK
    <3> QED
      BY <2>2, <3>1, FS_EmptySet
  <2> QED
    BY <2>1, <2>2
<1> QED
  BY <1>7, <1>8, <1>9, <1>11, <1>12 DEF IInv

LEMMA NextIInv == IInv /\ [Next]_vars => IInv'
<1> SUFFICES ASSUME IInv, [Next]_vars PROVE IInv'
  OBVIOUS
<1>1. CASE UNCHANGED vars
  BY <1>1 DEF vars, IInv, TypeOK, PointersMatch, EntriesDistinct, OwnersMatch, EntriesCounted,
              NoLeakedEntry, Users
<1>2. CASE Next
  BY <1>2, EnterIInv, AcquireIInv, UnlockIInv, LeaveIInv DEF Next
<1> QED
  BY <1>1, <1>2

-----------------------------------------------------------------------------
\* The strengthened invariant of locks.go: besides the types, every goroutine
\* inside uses the table's current entry, whose count is exact.
THEOREM IInvariant == Spec => []IInv
<1> QED
  BY InitIInv, NextIInv, PTL DEF Spec

\* lock/unlock keep the table, the counts and the pointers well-typed; in
\* particular refs never goes below zero.
THEOREM TypeCorrect == Spec => []TypeOK
<1>1. IInv => TypeOK
  BY DEF IInv
<1> QED
  BY <1>1, IInvariant, PTL

\* No two goroutines are ever past lock() for the same key at once.
THEOREM MutualExclusionHolds == Spec => []MutualExclusion
<1>1. IInv => MutualExclusion
  BY DEF IInv, MutualExclusion, EntriesCounted, OwnersMatch
<1> QED
  BY <1>1, IInvariant, PTL

\* keyedLock.refs of an entry is the number of goroutines between lock and the
\* end of unlock, and they all use the table's entry.
THEOREM EntriesCountedHolds == Spec => []EntriesCounted
<1>1. IInv => EntriesCounted
  BY DEF IInv
<1> QED
  BY <1>1, IInvariant, PTL

\* unlock deletes the entry with its last user, so none survives it.
THEOREM NoLeakedEntryHolds == Spec => []NoLeakedEntry
<1>1. IInv => NoLeakedEntry
  BY DEF IInv
<1> QED
  BY <1>1, IInvariant, PTL

-----------------------------------------------------------------------------
\* The abstract state a lock table stands for.
Holder == [k \in Keys |-> IF locks[k] = None THEN None ELSE owner[locks[k]]]
Want == [p \in Procs |-> IF pc[p] \in {"waiting", "held"} THEN key[p] ELSE None]

\* Steps of the abstract mutex, in terms of that state.
LEMMA RefineEnter == ASSUME IInv, NEW p \in Procs, NEW k \in Keys, Enter(p, k)
                     PROVE  Mutex!Request(p, k)
<1> USE NoneAssumption
<1>1. Want[p] = None /\ Want' = [Want EXCEPT ![p] = k]
  BY DEF Enter, IInv, TypeOK, Want
<1>2. Holder' = Holder
  BY DEF Enter, IInv, TypeOK, Holder, OwnersMatch, Fresh, EntriesDistinct
<1> QED
  BY <1>1, <1>2 DEF Mutex!Request, Want, Holder

LEMMA RefineAcquire == ASSUME IInv, NEW p \in Procs, Acquire(p) PROVE Mutex!Grant(p)
<1> USE NoneAssumption DEF Acquire
<1>1. PICK k \in Keys, o \in Objs : key[p] = k /\ lk[p] = o /\ locks[k] = o
  BY DEF IInv, PointersMatch, EntriesCounted
<1>2. Want[p] = k /\ Want' = Want
  BY <1>1 DEF IInv, TypeOK, Want
<1>3. \A j \in Keys : j # k => locks[j] # o
  BY <1>1 DEF IInv, EntriesDistinct
<1>4. \A j \in Keys : Holder'[j] = IF j = k THEN p ELSE Holder[j]
  BY <1>1, <1>3 DEF IInv, TypeOK, Holder
<1>5. Holder[k] = None
  BY <1>1 DEF IInv, TypeOK, Holder
<1>6. DOMAIN Holder = Keys /\ Holder' = [j \in Keys |-> Holder'[j]]
  BY DEF Holder
<1>7. Holder' = [Holder EXCEPT ![k] = p]
  BY <1>4, <1>6
<1> QED
  BY <1>1, <1>2, <1>5, <1>7 DEF Mutex!Grant, Want, Holder

LEMMA RefineUnlock == ASSUME IInv, NEW p \in Procs, Unlock(p) PROVE Mutex!Release(p)
<1> USE NoneAssumption DEF Unlock
<1>1. PICK k \in Keys, o \in Objs : key[p] = k /\ lk[p] = o /\ locks[k] = o
  BY DEF IInv, PointersMatch, EntriesCounted
<1>2. Want[p] = k /\ Want' = [Want EXCEPT ![p] = None]
  BY <1>1 DEF IInv, TypeOK, Want
<1>3. \A j \in Keys : j # k => locks[j] # o
  BY <1>1 DEF IInv, EntriesDistinct
<1>4. \A j \in Keys : Holder'[j] = IF j = k THEN None ELSE Holder[j]
  BY <1>1, <1>3 DEF IInv, TypeOK, Holder
<1>5. Holder[k] = p
  BY <1>1 DEF IInv, TypeOK, Holder, OwnersMatch
<1>6. DOMAIN Holder = Keys /\ Holder' = [j \in Keys |-> Holder'[j]]
  BY DEF Holder
<1>7. Holder' = [Holder EXCEPT ![k] = None]
  BY <1>4, <1>6
<1> QED
  BY <1>1, <1>2, <1>5, <1>7 DEF Mutex!Release, Want, Holder

\* Dropping a reference is invisible: a deleted entry's mutex is free.
LEMMA RefineLeave == ASSUME IInv, NEW p \in Procs, Leave(p) PROVE UNCHANGED Mutex!vars
<1> USE NoneAssumption
<1>1. PICK k \in Keys, o \in Objs : key[p] = k /\ lk[p] = o /\ locks[k] = o
  BY DEF Leave, IInv, PointersMatch, EntriesCounted
<1>2. Want' = Want
  BY <1>1 DEF Leave, IInv, TypeOK, Want
<1>3. p \in Users(k) /\ IsFiniteSet(Users(k)) /\ refs[o] = Cardinality(Users(k))
  BY <1>1, UsersFinite DEF Leave, IInv, EntriesCounted, Users
<1>4. refs[o] = 1 => Users(k) = {p}
  <2> SUFFICES ASSUME refs[o] = 1 PROVE Users(k) = {p}
    OBVIOUS
  <2>1. IsFiniteSet(Users(k) \ {p}) /\ Cardinality(Users(k) \ {p}) = 0
    <3>1. Cardinality(Users(k)) = 1
      BY <1>3
    <3> QED
      BY <1>3, <3>1, FS_RemoveElement
  <2>2. Users(k) \ {p} = {}
    BY <2>1, FS_EmptySet
  <2> QED
    BY <1>3, <2>2
<1>5. refs[o] = 1 => owner[o] = None
  <2> SUFFICES ASSUME refs[o] = 1, owner[o] # None PROVE FALSE
    OBVIOUS
  <2>1. owner[o] \in Procs /\ pc[owner[o]] = "held" /\ lk[owner[o]] = o
    BY DEF IInv, TypeOK, OwnersMatch
  <2>2. key[owner[o]] \in Keys /\ locks[key[owner[o]]] = o
    BY <2>1 DEF IInv, PointersMatch, EntriesCounted
  <2>3. key[owner[o]] = k
    BY <1>1, <2>2 DEF IInv, EntriesDistinct
  <2>4. owner[o] = p
    BY <1>4, <2>1, <2>3 DEF Users
  <2> QED
    BY <2>1, <2>4 DEF Leave
<1>6. Holder' = Holder
  BY <1>1, <1>5 DEF Leave, IInv, TypeOK, Holder
<1> QED
  BY <1>2, <1>6 DEF Mutex!vars, Want, Holder

\* The lock table of locks.go implements one mutex per key: entries that are
\* created, counted and deleted behave like mutexes that were always there.
THEOREM Refinement == Spec => ImplementsKeyMutex
<1>1. Init => Mutex!Init
  BY NoneAssumption DEF Init, Mutex!Init
<1>2. IInv /\ [Next]_vars => [Mutex!Next]_(Mutex!vars)
  <2> SUFFICES ASSUME IInv, [Next]_vars PROVE [Mutex!Next]_(Mutex!vars)
    OBVIOUS
  <2>1. CASE UNCHANGED vars
    BY <2>1 DEF vars, Mutex!vars
  <2>2. ASSUME NEW p \in Procs, NEW k \in Keys, Enter(p, k) PROVE Mutex!Next
    BY <2>2, RefineEnter DEF Mutex!Next
  <2>3. ASSUME NEW p \in Procs, Acquire(p) PROVE Mutex!Next
    BY <2>3, RefineAcquire DEF Mutex!Next
  <2>4. ASSUME NEW p \in Procs, Unlock(p) PROVE Mutex!Next
    BY <2>4, RefineUnlock DEF Mutex!Next
  <2>5. ASSUME NEW p \in Procs, Leave(p) PROVE UNCHANGED Mutex!vars
    BY <2>5, RefineLeave
  <2> QED
    BY <2>1, <2>2, <2>3, <2>4, <2>5 DEF Next
<1> QED
  BY <1>1, <1>2, IInvariant, PTL DEF Spec, ImplementsKeyMutex, Mutex!Spec
=============================================================================
