----------------------------- MODULE KeyedLocks -----------------------------
(***************************************************************************)
(* internal/recorder/locks.go: a table of reference-counted mutexes, one   *)
(* per object key, whose entries are deleted when the last user leaves.    *)
(* The sections under keyedLocks.mu touch nothing but the table, so each   *)
(* is one step; blocking on the entry's own mutex is a step of its own,    *)
(* and so is the gap between releasing that mutex and dropping the         *)
(* reference.  Entries are heap objects: a caller keeps its pointer while  *)
(* the table may already have forgotten the object or replaced it, which   *)
(* is exactly what the reference count must prevent.                       *)
(***************************************************************************)
EXTENDS Integers, FiniteSets

CONSTANTS Procs,  \* goroutines calling lock and unlock
          Keys,   \* object keys
          Objs,   \* addresses a keyedLock can be allocated at
          None    \* nil pointer, unlocked mutex, no key

ASSUME ProcsAssumption == IsFiniteSet(Procs)
ASSUME NoneAssumption  == None \notin Procs /\ None \notin Keys /\ None \notin Objs

VARIABLES locks,  \* keyedLocks.locks: key -> *keyedLock (None: absent)
          refs,   \* keyedLock.refs per object
          owner,  \* who holds the object's mutex (keyedLock.mu), or None
          pc,     \* where each goroutine is in lock/unlock
          lk,     \* the goroutine's local l
          key     \* the key it called lock with

vars == <<locks, refs, owner, pc, lk, key>>

States == {"idle",      \* outside
           "waiting",   \* counted in refs, blocked in l.mu.Lock()
           "held",      \* lock returned
           "leaving"}   \* unlock: l.mu released, reference not yet dropped

Init == /\ locks = [k \in Keys |-> None]
        /\ refs = [o \in Objs |-> 0]
        /\ owner = [o \in Objs |-> None]
        /\ pc = [p \in Procs |-> "idle"]
        /\ lk = [p \in Procs |-> None]
        /\ key = [p \in Procs |-> None]

\* An address the allocator may hand out: nothing reachable points to it.
Fresh(o) == /\ \A k \in Keys : locks[k] # o
            /\ \A p \in Procs : lk[p] # o

-----------------------------------------------------------------------------
\* Mutants: plausible bugs in lock and unlock, each of which breaks a property.

\* The reference is only taken by the goroutine that creates the entry.
EnterUncounted(p, k) ==
  /\ pc[p] = "idle"
  /\ \E o \in Objs :
       /\ \/ locks[k] = o /\ UNCHANGED <<locks, owner, refs>>
          \/ /\ locks[k] = None
             /\ Fresh(o)
             /\ locks' = [locks EXCEPT ![k] = o]
             /\ refs' = [refs EXCEPT ![o] = 1]
             /\ owner' = [owner EXCEPT ![o] = None]
       /\ lk' = [lk EXCEPT ![p] = o]
  /\ key' = [key EXCEPT ![p] = k]
  /\ pc' = [pc EXCEPT ![p] = "waiting"]

\* The entry is never deleted.
LeaveKeeps(p) ==
  /\ pc[p] = "leaving"
  /\ refs' = [refs EXCEPT ![lk[p]] = @ - 1]
  /\ lk' = [lk EXCEPT ![p] = None]
  /\ key' = [key EXCEPT ![p] = None]
  /\ pc' = [pc EXCEPT ![p] = "idle"]
  /\ UNCHANGED <<owner, locks>>

\* The last user deletes the entry without looking at the count.
LeaveDeletes(p) ==
  /\ pc[p] = "leaving"
  /\ refs' = [refs EXCEPT ![lk[p]] = @ - 1]
  /\ locks' = [locks EXCEPT ![key[p]] = None]
  /\ lk' = [lk EXCEPT ![p] = None]
  /\ key' = [key EXCEPT ![p] = None]
  /\ pc' = [pc EXCEPT ![p] = "idle"]
  /\ UNCHANGED owner

\* A caller that finds the mutex taken leaves without it (TryLock).
AcquireTries(p) ==
  /\ pc[p] = "waiting"
  /\ IF owner[lk[p]] = None
       THEN owner' = [owner EXCEPT ![lk[p]] = p] /\ pc' = [pc EXCEPT ![p] = "held"]
       ELSE owner' = owner /\ pc' = [pc EXCEPT ![p] = "leaving"]
  /\ UNCHANGED <<locks, refs, lk, key>>
-----------------------------------------------------------------------------
\* lock, first half, under keyedLocks.mu: find or create the entry and count
\* the caller in before it blocks on the entry's mutex.
Enter(p, k) ==
  /\ pc[p] = "idle"
  /\ \E o \in Objs :
       /\ \/ /\ locks[k] = o
             /\ refs' = [refs EXCEPT ![o] = @ + 1]
             /\ UNCHANGED <<locks, owner>>
          \/ /\ locks[k] = None
             /\ Fresh(o)
             /\ locks' = [locks EXCEPT ![k] = o]
             /\ refs' = [refs EXCEPT ![o] = 1]
             /\ owner' = [owner EXCEPT ![o] = None]
       /\ lk' = [lk EXCEPT ![p] = o]
  /\ key' = [key EXCEPT ![p] = k]
  /\ pc' = [pc EXCEPT ![p] = "waiting"]

\* lock, second half: l.mu.Lock() returns.
Acquire(p) ==
  /\ pc[p] = "waiting"
  /\ owner[lk[p]] = None
  /\ owner' = [owner EXCEPT ![lk[p]] = p]
  /\ pc' = [pc EXCEPT ![p] = "held"]
  /\ UNCHANGED <<locks, refs, lk, key>>

\* unlock, first half: l.mu.Unlock().
Unlock(p) ==
  /\ pc[p] = "held"
  /\ owner' = [owner EXCEPT ![lk[p]] = None]
  /\ pc' = [pc EXCEPT ![p] = "leaving"]
  /\ UNCHANGED <<locks, refs, lk, key>>

\* unlock, second half, under keyedLocks.mu: drop the reference and, at zero,
\* the table entry (by key, whatever object it holds).
Leave(p) ==
  /\ pc[p] = "leaving"
  /\ refs' = [refs EXCEPT ![lk[p]] = @ - 1]
  /\ locks' = IF refs[lk[p]] = 1 THEN [locks EXCEPT ![key[p]] = None] ELSE locks
  /\ lk' = [lk EXCEPT ![p] = None]
  /\ key' = [key EXCEPT ![p] = None]
  /\ pc' = [pc EXCEPT ![p] = "idle"]
  /\ UNCHANGED owner

Next == \E p \in Procs : \/ \E k \in Keys : Enter(p, k)
                         \/ Acquire(p) \/ Unlock(p) \/ Leave(p)

Spec == Init /\ [][Next]_vars

\* A caller runs on, and sync.Mutex hands itself to a starving waiter (its
\* starvation mode), so acquiring is strongly fair.
Fairness == \A p \in Procs : SF_vars(Acquire(p)) /\ WF_vars(Unlock(p)) /\ WF_vars(Leave(p))

FairSpec == Spec /\ Fairness
-----------------------------------------------------------------------------
\* The goroutines counted (or still to be discounted) on key k.
Users(k) == {p \in Procs : pc[p] # "idle" /\ key[p] = k}

TypeOK == /\ locks \in [Keys -> Objs \cup {None}]
          /\ refs \in [Objs -> Nat]
          /\ owner \in [Objs -> Procs \cup {None}]
          /\ pc \in [Procs -> States]
          /\ lk \in [Procs -> Objs \cup {None}]
          /\ key \in [Procs -> Keys \cup {None}]

\* Two goroutines never hold the same key's mutex, although entries come and
\* go: a waiter is never left on an object the table has replaced.
MutualExclusion == \A p, q \in Procs :
  pc[p] = "held" /\ pc[q] = "held" /\ key[p] = key[q] => p = q

\* Everybody between lock and the end of unlock uses the table's entry for its
\* key, and that entry's count is exactly the number of such goroutines.
EntriesCounted ==
  /\ \A p \in Procs : pc[p] # "idle" => locks[key[p]] = lk[p]
  /\ \A k \in Keys : locks[k] # None => refs[locks[k]] = Cardinality(Users(k))

\* "Entries disappear once unused": no entry outlives its last user.
NoLeakedEntry == \A k \in Keys : locks[k] # None => Users(k) # {}

\* A goroutine blocked in lock gets the mutex, provided holders return.
WaiterServed == \A p \in Procs : pc[p] = "waiting" ~> pc[p] = "held"

\* The table of mutexes implements one mutex per key.
Mutex == INSTANCE KeyMutex WITH
  holder <- [k \in Keys |-> IF locks[k] = None THEN None ELSE owner[locks[k]]],
  want <- [p \in Procs |-> IF pc[p] \in {"waiting", "held"} THEN key[p] ELSE None]

\* Every step of the code's lock table is a step of the abstract key mutex.
ImplementsKeyMutex == Mutex!Spec
=============================================================================
