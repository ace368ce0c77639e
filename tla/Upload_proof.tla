---------------------------- MODULE Upload_proof ----------------------------
(***************************************************************************)
(* For every number of sessions and workers, every limit and any number of *)
(* faults: the upload path keeps its types, two attempts never handle the  *)
(* same session, every object holds its sessions in capture order, and no  *)
(* session with audio on disk is marked failed.  And where the store       *)
(* enforces conditional writes, or nobody else writes to the bucket and no *)
(* PUT is applied after its answer: captured audio is never lost or given  *)
(* up, a sidecar that says "uploaded" is right, no object loses a part and *)
(* no foreign object is replaced.                                          *)
(*                                                                         *)
(* None of the safety properties is inductive.  AudioSafe speaks of the    *)
(* sidecars, but captures are deleted on the word of memory, so it needs   *)
(* its twin about memory (MemorySafe, MemoryRight); deleting a capture     *)
(* rests on what the attempt saw when it wrote the object, so the attempt  *)
(* carries its own promise (AttemptOK); and a PUT that is applied late     *)
(* must not drop a part either (LateOK).  What a PUT that is applied does  *)
(* to the object rests on Preconditions: the store's, or the key's mutex   *)
(* (QuietInv).                                                             *)
(***************************************************************************)
EXTENDS Upload, SequenceTheorems, TLAPS

\* Sessions that have no finished capture yet.
Early == {"none", "recording"}
Late(s) == mem[s].state \notin Early

MemorySafe == \A s \in Sessions :
  Kind[s] = "audio" /\ Late(s) => file[s] = "audio" \/ Stored(s)

MemoryRight == \A s \in Sessions :
  mem[s].state = "uploaded" => StoredAt(s, mem[s].key)

\* What the attempt of loop s rests on: it handles finished sessions, the
\* object it saw lists those it did not add, and the members whose sidecars
\* are still to be written are stored.
AttemptOK(s) ==
  LET a == att[s]
  IN /\ pc[s] # "off" => Late(s)
     /\ \A x \in a.group \cup a.add \cup a.done : Late(x)
     /\ a.done \subseteq Listed(a.remote)
     /\ a.remote.by \in {"none", "us"}
     /\ \A x \in a.todo : StoredAt(x, a.dest)
     /\ a.cur # Nobody => Stored(a.cur)
     /\ pc[s] = "remove" => a.cur # Nobody
     /\ pc[s] \in {"fbhead", "fbput"} => a.remote = Absent

\* A PUT that may still be applied keeps the parts it saw.
LateOK == \A p \in inflight : /\ p.remote.by \in {"none", "us"}
                              /\ p.obj.by = "us"
                              /\ Held(p.remote) \subseteq Held(p.obj)

\* What makes a PUT harmless: where it may be applied, the object is still the
\* one that was seen.  Conditional writes enforce it; without them nobody else
\* may write.
Checked(k, remote) == MayPut(k, remote) => bucket[k] = remote
Preconditions ==
  /\ \A s \in Sessions : /\ pc[s] = "put" => Checked(att[s].key, att[s].remote)
                         /\ pc[s] = "fbput" => Checked(FallbackKey(att[s].key), Absent)
  /\ \A p \in inflight : Checked(p.key, p.remote)

IInv == /\ TypeOK
        /\ AudioSafe /\ UploadedIsStored
        /\ MemorySafe /\ MemoryRight
        /\ \A s \in Sessions : AttemptOK(s)
        /\ LateOK

-----------------------------------------------------------------------------
\* Types of the values the actions write.

LEMMA KeyTypes ==
  /\ BaseKey \in Keys
  /\ \A k \in Keys : FallbackKey(k) \in Keys
  /\ \A k \in Keys, r \in 0 .. MaxKeyRenames : r < MaxKeyRenames => WithSuffix(k, r + 2) \in Keys
<1>1. BaseKey \in Keys
  BY DEF Keys, BaseKey
<1>2. ASSUME NEW k \in Keys PROVE FallbackKey(k) \in Keys
  BY DEF Keys, FallbackKey
<1>3. ASSUME NEW k \in Keys, NEW r \in 0 .. MaxKeyRenames, r < MaxKeyRenames
      PROVE  WithSuffix(k, r + 2) \in Keys
  <2>1. MaxKeyRenames \in Nat
    BY LimitsAssumption
  <2>2. r + 2 \in 2 .. MaxKeyRenames + 1
    BY <1>3, <2>1
  <2> QED
    BY <2>2 DEF Keys, WithSuffix
<1> QED
  BY <1>1, <1>2, <1>3

LEMMA ObjectTypes ==
  /\ Absent \in Objects
  /\ \A o \in Objects, S \in SUBSET Sessions : Built(o, S) \in Objects
<1>1. Absent \in Objects
  BY DEF Absent, Objects, Writers
<1>2. ASSUME NEW o \in Objects, NEW S \in SUBSET Sessions PROVE Built(o, S) \in Objects
  BY DEF Built, Objects, Writers
<1> QED
  BY <1>1, <1>2

LEMMA IdleType == Idle \in Attempts
BY KeyTypes, ObjectTypes DEF Idle, Attempts, Outcomes

\* save() leaves every sidecar as it was or equal to memory.
LEMMA SaveType ==
  ASSUME NEW S, S \subseteq Sessions, disk \in [Sessions -> SessionRecords],
         mem' \in [Sessions -> SessionRecords], faults \in [FaultKinds -> Nat], Save(S)
  PROVE  /\ disk' \in [Sessions -> SessionRecords]
         /\ faults' \in [FaultKinds -> Nat]
         /\ \A x \in Sessions : disk'[x] = disk[x] \/ (x \in S /\ disk'[x] = mem'[x])
<1>1. PICK W \in SUBSET S :
        /\ W # S => faults["sidecar"] > 0
        /\ disk' = [s \in Sessions |-> IF s \in W THEN mem'[s] ELSE disk[s]]
        /\ faults' = IF W = S THEN faults ELSE [faults EXCEPT !["sidecar"] = @ - 1]
  BY DEF Save
<1>2. faults' \in [FaultKinds -> Nat]
  BY <1>1 DEF FaultKinds
<1> QED
  BY <1>1, <1>2

LEMMA SetStateType ==
  ASSUME NEW S, NEW st \in SessionStates, mem \in [Sessions -> SessionRecords]
  PROVE  SetState(S, st) \in [Sessions -> SessionRecords]
BY DEF SetState, SessionRecords

-----------------------------------------------------------------------------
\* Type correctness, one lemma per helper and action.  The variables come in
\* two halves: what a helper writes, and the rest.

SessionsTyped == /\ mem \in [Sessions -> SessionRecords]
                 /\ disk \in [Sessions -> SessionRecords]
                 /\ faults \in [FaultKinds -> Nat]
LoopsTyped == /\ pc \in [Sessions -> PCs]
              /\ att \in [Sessions -> Attempts]
              /\ remuxFailures \in [Keys -> Nat]
StoreTyped == /\ bucket \in [Keys -> Objects]
              /\ \A p \in inflight : p \in [key : Keys, remote : Objects, obj : Objects]
RestTyped == /\ file \in [Sessions -> {"none"} \cup Kinds]
             /\ imm \in [Sessions -> 0 .. MaxImmediate]
             /\ holder \in [Keys -> Sessions \cup {Nobody}]
             /\ phase \in {"up", "draining", "cancelled"}

LEMMA TypeParts == /\ TypeOK <=> SessionsTyped /\ LoopsTyped /\ StoreTyped /\ RestTyped
                   /\ TypeOK' <=> SessionsTyped' /\ LoopsTyped' /\ StoreTyped' /\ RestTyped'
BY DEF TypeOK, SessionsTyped, LoopsTyped, StoreTyped, RestTyped

LEMMA ReturnType ==
  ASSUME LoopsTyped, NEW s \in Sessions, NEW err \in Outcomes, Return(s, err)
  PROVE  pc' \in [Sessions -> PCs] /\ att' \in [Sessions -> Attempts]
BY DEF Return, LoopsTyped, Attempts, PCs

LEMMA FailType ==
  ASSUME SessionsTyped, LoopsTyped, NEW s \in Sessions, NEW F, F \subseteq Sessions,
         NEW err \in Outcomes, FailThenReturn(s, F, err)
  PROVE  SessionsTyped' /\ LoopsTyped'
<1>1. mem' \in [Sessions -> SessionRecords]
  BY SetStateType DEF FailThenReturn, SessionsTyped, SessionStates
<1>2. SessionsTyped'
  BY <1>1, SaveType DEF FailThenReturn, SessionsTyped
<1> QED
  BY <1>2, ReturnType DEF FailThenReturn, LoopsTyped

LEMMA RenameType ==
  ASSUME SessionsTyped, LoopsTyped, NEW s \in Sessions, NEW F, F \subseteq Sessions,
         RenameGroup(s, F)
  PROVE  SessionsTyped' /\ LoopsTyped'
<1> DEFINE g == att[s].group
<1>1. g \subseteq Sessions /\ att[s].key \in Keys
  BY DEF LoopsTyped, Attempts
<1>2. PICK r \in {mem[x].renames : x \in g} :
        \/ r >= MaxKeyRenames /\ FailThenReturn(s, F, "permanent")
        \/ /\ r < MaxKeyRenames
           /\ mem' = [x \in Sessions |->
                        IF x \in g THEN [state |-> "finalized", renames |-> r + 1,
                                         key |-> WithSuffix(att[s].key, r + 2)]
                                   ELSE mem[x]]
           /\ Save(g)
           /\ remuxFailures' = [remuxFailures EXCEPT ![att[s].key] = 0]
           /\ Return(s, "again")
  BY DEF RenameGroup
<1>3. r \in 0 .. MaxKeyRenames
  BY <1>1, <1>2 DEF SessionsTyped, SessionRecords
<1>4. CASE FailThenReturn(s, F, "permanent")
  BY <1>4, FailType DEF Outcomes
<1>5. CASE ~FailThenReturn(s, F, "permanent")
  <2>1. r < MaxKeyRenames /\ r + 1 \in 0 .. MaxKeyRenames
    BY <1>2, <1>3, <1>5, LimitsAssumption
  <2>2. WithSuffix(att[s].key, r + 2) \in Keys
    BY <1>1, <1>3, <2>1, KeyTypes
  <2>3. [state |-> "finalized", renames |-> r + 1, key |-> WithSuffix(att[s].key, r + 2)] \in SessionRecords
    BY <2>1, <2>2 DEF SessionRecords, SessionStates
  <2>4. mem' \in [Sessions -> SessionRecords]
    BY <1>2, <1>5, <2>3 DEF SessionsTyped
  <2>5. SessionsTyped'
    BY <1>1, <1>2, <1>5, <2>4, SaveType DEF SessionsTyped
  <2>6. remuxFailures' \in [Keys -> Nat]
    BY <1>2, <1>5 DEF LoopsTyped
  <2> QED
    BY <1>2, <1>5, <2>5, <2>6, ReturnType DEF LoopsTyped, Outcomes
<1> QED
  BY <1>4, <1>5

LEMMA CompleteType ==
  ASSUME SessionsTyped, LoopsTyped, NEW s \in Sessions, NEW M, M \subseteq Sessions,
         NEW F, F \subseteq Sessions, NEW dest \in Keys, CompleteGroup(s, M, dest, F)
  PROVE  SessionsTyped' /\ LoopsTyped'
<1>1. SetState(F, "failed") \in [Sessions -> SessionRecords]
  BY SetStateType DEF SessionsTyped, SessionStates
<1>2. mem' \in [Sessions -> SessionRecords]
  <2>1. \A x \in Sessions : /\ SetState(F, "failed")[x] \in SessionRecords
                            /\ [mem[x] EXCEPT !.state = "uploaded", !.key = dest] \in SessionRecords
    BY <1>1 DEF SessionsTyped, SessionRecords, SessionStates
  <2> QED
    BY <2>1 DEF CompleteGroup
<1>3. SessionsTyped'
  BY <1>2, SaveType DEF CompleteGroup, SessionsTyped
<1>4. att' \in [Sessions -> Attempts]
  <2>1. [att[s] EXCEPT !.todo = M, !.dest = dest] \in Attempts
    <3>1. att[s] \in Attempts /\ M \in SUBSET Sessions
      BY DEF LoopsTyped
    <3> QED
      BY <3>1 DEF Attempts
  <2>2. att' = [att EXCEPT ![s] = [att[s] EXCEPT !.todo = M, !.dest = dest]]
    BY DEF CompleteGroup, LoopsTyped
  <2> QED
    BY <2>1, <2>2 DEF LoopsTyped
<1>5. pc' \in [Sessions -> PCs] /\ remuxFailures' \in [Keys -> Nat]
  BY DEF CompleteGroup, LoopsTyped, PCs
<1> QED
  BY <1>3, <1>4, <1>5 DEF LoopsTyped

LEMMA PutObjectType ==
  ASSUME SessionsTyped, LoopsTyped, StoreTyped, NEW s \in Sessions, NEW k \in Keys,
         NEW remote \in Objects, NEW o \in Objects, PutObject(s, k, remote, o)
  PROVE  SessionsTyped' /\ LoopsTyped' /\ StoreTyped'
<1>1. att[s].add \cup att[s].done \subseteq Sessions
  BY DEF LoopsTyped, Attempts
<1>2. StoreTyped'
  BY DEF PutObject, StoreTyped, storeVars
<1>3. CASE CompleteGroup(s, att[s].add \cup att[s].done, k, {})
  BY <1>1, <1>2, <1>3, CompleteType
<1>4. CASE Return(s, "again") /\ UNCHANGED <<mem, disk, faults, remuxFailures>>
  BY <1>2, <1>4, ReturnType DEF SessionsTyped, LoopsTyped, Outcomes
<1> QED
  BY <1>3, <1>4 DEF PutObject

LEMMA PutFailsType ==
  ASSUME SessionsTyped, LoopsTyped, StoreTyped, NEW s \in Sessions, NEW k \in Keys,
         NEW remote \in Objects, NEW o \in Objects, PutFails(s, k, remote, o)
  PROVE  SessionsTyped' /\ LoopsTyped' /\ StoreTyped'
<1>1. StoreTyped'
  BY DEF PutFails, StoreTyped, storeVars
<1>2. SessionsTyped'
  BY DEF PutFails, SessionsTyped, storeVars, FaultKinds
<1> QED
  BY <1>1, <1>2, ReturnType DEF PutFails, LoopsTyped, Outcomes

-----------------------------------------------------------------------------
\* One lemma per group of similar actions.

LEMMA LifecycleType ==
  ASSUME TypeOK, NEW s \in Sessions, StartSession(s) \/ Finalize(s) \/ Retire(s)
  PROVE  TypeOK'
<1> SUFFICES SessionsTyped' /\ LoopsTyped' /\ StoreTyped' /\ RestTyped'
  BY TypeParts
<1>0. SessionsTyped /\ LoopsTyped /\ StoreTyped /\ RestTyped
  BY TypeParts
<1>1. CASE StartSession(s)
  <2>1. PICK pin \in SessionRecords : /\ mem' = [mem EXCEPT ![s] = pin]
                                      /\ disk' = [disk EXCEPT ![s] = pin]
    BY <1>1 DEF StartSession
  <2>2. SessionsTyped'
    BY <1>0, <1>1, <2>1 DEF StartSession, SessionsTyped
  <2> QED
    BY <1>0, <1>1, <2>2 DEF StartSession, LoopsTyped, StoreTyped, RestTyped, storeVars, Kinds
<1>2. CASE Finalize(s)
  <2>1. mem' \in [Sessions -> SessionRecords]
    BY <1>0, <1>2 DEF Finalize, SessionsTyped, SessionRecords, SessionStates
  <2>2. SessionsTyped'
    BY <1>0, <1>2, <2>1, SaveType DEF Finalize, SessionsTyped
  <2> QED
    BY <1>0, <1>2, <2>2, KindAssumption
    DEF Finalize, LoopsTyped, StoreTyped, RestTyped, storeVars, Kinds, PCs
<1>3. CASE Retire(s)
  <2>1. SessionsTyped'
    BY <1>0, <1>3 DEF Retire, SessionsTyped, SessionRecords, SessionStates
  <2> QED
    BY <1>0, <1>3, <2>1 DEF Retire, LoopsTyped, StoreTyped, RestTyped, storeVars, Kinds
<1> QED
  BY <1>1, <1>2, <1>3

LEMMA WaitingType ==
  ASSUME TypeOK, NEW s \in Sessions,
         ReadKey(s) \/ AcquireKey(s) \/ AcquireSlot(s) \/ LoopCancelled(s) \/ Recorded(s) \/ Unlock(s)
  PROVE  TypeOK'
<1> SUFFICES SessionsTyped' /\ LoopsTyped' /\ StoreTyped' /\ RestTyped'
  BY TypeParts
<1>0. SessionsTyped /\ LoopsTyped /\ StoreTyped /\ RestTyped
  BY TypeParts
<1>1. SessionsTyped' /\ StoreTyped'
  BY <1>0 DEF SessionsTyped, StoreTyped, storeVars, ReadKey, AcquireKey, AcquireSlot,
              LoopCancelled, Recorded, Unlock
<1>2. RestTyped'
  BY <1>0, LimitsAssumption DEF RestTyped, LoopsTyped, Attempts, ReadKey, AcquireKey, AcquireSlot,
              LoopCancelled, Recorded, Unlock, Return
<1>3. att' \in [Sessions -> Attempts]
  <2>1. mem[s].key \in Keys /\ att[s].err \in Outcomes
    BY <1>0 DEF SessionsTyped, LoopsTyped, SessionRecords, Attempts
  <2>2. /\ [Idle EXCEPT !.key = mem[s].key, !.dest = mem[s].key] \in Attempts
        /\ [Idle EXCEPT !.err = att[s].err] \in Attempts
    BY <2>1, IdleType DEF Attempts
  <2>3. CASE Recorded(s)
    BY <1>0, <2>3, ReturnType DEF Recorded, Outcomes
  <2> QED
    BY <1>0, <2>2, <2>3, IdleType DEF LoopsTyped, ReadKey, AcquireKey, AcquireSlot, LoopCancelled, Unlock
<1>4. pc' \in [Sessions -> PCs] /\ remuxFailures' \in [Keys -> Nat]
  BY <1>0 DEF LoopsTyped, PCs, ReadKey, AcquireKey, AcquireSlot, LoopCancelled, Recorded, Unlock, Return
<1> QED
  BY <1>1, <1>2, <1>3, <1>4 DEF LoopsTyped

LEMMA ClaimType == ASSUME TypeOK, NEW s \in Sessions, ClaimGroup(s) PROVE TypeOK'
<1> SUFFICES SessionsTyped' /\ LoopsTyped' /\ StoreTyped' /\ RestTyped'
  BY TypeParts
<1>0. SessionsTyped /\ LoopsTyped /\ StoreTyped /\ RestTyped
  BY TypeParts
<1>1. StoreTyped' /\ RestTyped'
  BY <1>0 DEF ClaimGroup, StoreTyped, RestTyped, storeVars
<1>2. CASE UNCHANGED <<mem, disk, faults>> /\ \E err \in {"nil", "again"} : Return(s, err)
  BY <1>0, <1>1, <1>2, ReturnType DEF ClaimGroup, SessionsTyped, LoopsTyped, Outcomes
<1>3. CASE UNCHANGED mem /\ Save({s}) /\ Return(s, "deferred")
  BY <1>0, <1>1, <1>3, ReturnType, SaveType DEF ClaimGroup, SessionsTyped, LoopsTyped, Outcomes
<1>4. CASE /\ mem' = SetState(Group(att[s].key), "uploading")
           /\ Save(Group(att[s].key))
           /\ att' = [att EXCEPT ![s].group = Group(att[s].key)]
           /\ pc' = [pc EXCEPT ![s] = "examine"]
  <2>1. Group(att[s].key) \subseteq Sessions
    BY DEF Group
  <2>2. SessionsTyped'
    BY <1>0, <1>4, <2>1, SetStateType, SaveType DEF SessionsTyped, SessionStates
  <2>3. LoopsTyped'
    BY <1>0, <1>4, <2>1 DEF ClaimGroup, LoopsTyped, Attempts, PCs
  <2> QED
    BY <1>1, <2>2, <2>3
<1> QED
  BY <1>2, <1>3, <1>4 DEF ClaimGroup

\* The sets Examine splits a group into stay inside the group.
LEMMA Splits ==
  ASSUME NEW g, NEW o
  PROVE  /\ Empties(g) \subseteq g /\ Failed(g, o) \subseteq g
         /\ New(g, o) \subseteq g /\ Done(g, o) \subseteq g /\ Done(g, o) \subseteq Listed(o)
BY DEF Empties, Failed, New, Done, Locals, Missing

\* What Examine does, without the guards the types do not need.
ExamineSteps(s) ==
  \/ \E F \in SUBSET att[s].group :
       RenameGroup(s, F) \/ (\E err \in {"nil", "permanent"} : FailThenReturn(s, F, err))
  \/ \E F \in SUBSET att[s].group :
       CompleteGroup(s, Done(att[s].group, bucket[att[s].key]), att[s].key, F)
  \/ \E F, add \in SUBSET att[s].group :
       /\ bucket[att[s].key].by \in {"none", "us"}
       /\ mem' = SetState(F, "failed")
       /\ Save(F \cup add)
       /\ att' = [att EXCEPT ![s].add = add, ![s].done = Done(att[s].group, bucket[att[s].key]),
                             ![s].remote = bucket[att[s].key]]
       /\ pc' = [pc EXCEPT ![s] = "build"]
       /\ UNCHANGED remuxFailures

LEMMA ExamineShape == ASSUME NEW s \in Sessions, Examine(s) PROVE ExamineSteps(s)
<1> DEFINE g == att[s].group
           o == bucket[att[s].key]
           junk == {x \in New(g, o) : file[x] = "junk"}
           add == New(g, o) \ junk
<1> HIDE DEF g, o, junk, add
<1>1. /\ Empties(g) \in SUBSET g /\ Failed(g, o) \in SUBSET g
      /\ Failed(g, o) \cup junk \in SUBSET g /\ add \in SUBSET g
  BY Splits DEF junk, add
<1>2. \/ RenameGroup(s, Empties(g))
      \/ FailThenReturn(s, Empties(g), "permanent")
      \/ RenameGroup(s, Failed(g, o))
      \/ FailThenReturn(s, Failed(g, o) \cup junk, "nil")
      \/ CompleteGroup(s, Done(g, o), att[s].key, Failed(g, o) \cup junk)
      \/ RenameGroup(s, Failed(g, o) \cup junk)
      \/ /\ o.by \in {"none", "us"}
         /\ mem' = SetState(Failed(g, o) \cup junk, "failed")
         /\ Save(Failed(g, o) \cup junk \cup add)
         /\ att' = [att EXCEPT ![s].add = add, ![s].done = Done(g, o), ![s].remote = o]
         /\ pc' = [pc EXCEPT ![s] = "build"]
         /\ UNCHANGED remuxFailures
  BY DEF Examine, g, o, junk, add
<1>3. CASE RenameGroup(s, Empties(g)) \/ RenameGroup(s, Failed(g, o)) \/ RenameGroup(s, Failed(g, o) \cup junk)
  BY <1>1, <1>3 DEF ExamineSteps, g
<1>4. CASE FailThenReturn(s, Empties(g), "permanent") \/ FailThenReturn(s, Failed(g, o) \cup junk, "nil")
  BY <1>1, <1>4 DEF ExamineSteps, g
<1>5. CASE CompleteGroup(s, Done(g, o), att[s].key, Failed(g, o) \cup junk)
  BY <1>1, <1>5 DEF ExamineSteps, g, o
<1>6. CASE /\ o.by \in {"none", "us"}
           /\ mem' = SetState(Failed(g, o) \cup junk, "failed")
           /\ Save(Failed(g, o) \cup junk \cup add)
           /\ att' = [att EXCEPT ![s].add = add, ![s].done = Done(g, o), ![s].remote = o]
           /\ pc' = [pc EXCEPT ![s] = "build"]
           /\ UNCHANGED remuxFailures
  BY <1>1, <1>6 DEF ExamineSteps, g, o
<1> QED
  BY <1>2, <1>3, <1>4, <1>5, <1>6

LEMMA ExamineType == ASSUME TypeOK, NEW s \in Sessions, Examine(s) PROVE TypeOK'
<1> SUFFICES SessionsTyped' /\ LoopsTyped' /\ StoreTyped' /\ RestTyped'
  BY TypeParts
<1>0. SessionsTyped /\ LoopsTyped /\ StoreTyped /\ RestTyped
  BY TypeParts
<1> DEFINE g == att[s].group
           o == bucket[att[s].key]
<1>1. StoreTyped' /\ RestTyped'
  BY <1>0 DEF Examine, StoreTyped, RestTyped, storeVars
<1>2. att[s] \in Attempts /\ g \in SUBSET Sessions /\ att[s].key \in Keys /\ o \in Objects
  BY <1>0 DEF LoopsTyped, Attempts, StoreTyped
<1>3. Done(g, o) \subseteq Sessions
  BY <1>2, Splits
<1>4. ASSUME NEW F \in SUBSET g, RenameGroup(s, F) \/ \E err \in {"nil", "permanent"} : FailThenReturn(s, F, err)
      PROVE  SessionsTyped' /\ LoopsTyped'
  BY <1>0, <1>2, <1>4, RenameType, FailType DEF Outcomes
<1>5. ASSUME NEW F \in SUBSET g, CompleteGroup(s, Done(g, o), att[s].key, F)
      PROVE  SessionsTyped' /\ LoopsTyped'
  BY <1>0, <1>2, <1>3, <1>5, CompleteType
<1>6. ASSUME NEW F \in SUBSET g, NEW add \in SUBSET g,
             mem' = SetState(F, "failed"), Save(F \cup add),
             att' = [att EXCEPT ![s].add = add, ![s].done = Done(g, o), ![s].remote = o],
             pc' = [pc EXCEPT ![s] = "build"], UNCHANGED remuxFailures
      PROVE  SessionsTyped' /\ LoopsTyped'
  <2>1. SessionsTyped'
    BY <1>0, <1>2, <1>6, SetStateType, SaveType DEF SessionsTyped, SessionStates
  <2>2. [att[s] EXCEPT !.add = add, !.done = Done(g, o), !.remote = o] \in Attempts
    <3>1. add \in SUBSET Sessions /\ Done(g, o) \in SUBSET Sessions
      BY <1>2, <1>3
    <3> HIDE DEF g, o
    <3> QED
      BY <1>2, <3>1 DEF Attempts
  <2>3. att' = [att EXCEPT ![s] = [att[s] EXCEPT !.add = add, !.done = Done(g, o), !.remote = o]]
    BY <1>0, <1>6 DEF LoopsTyped
  <2>4. att' \in [Sessions -> Attempts]
    BY <1>0, <2>2, <2>3 DEF LoopsTyped
  <2> QED
    BY <1>0, <1>6, <2>1, <2>4 DEF LoopsTyped, PCs
<1> QED
  BY <1>1, <1>4, <1>5, <1>6, ExamineShape DEF ExamineSteps

LEMMA BuildType ==
  ASSUME TypeOK, NEW s \in Sessions, AttemptError(s) \/ Build(s) \/ RemuxFails(s)
  PROVE  TypeOK'
<1> SUFFICES SessionsTyped' /\ LoopsTyped' /\ StoreTyped' /\ RestTyped'
  BY TypeParts
<1>0. SessionsTyped /\ LoopsTyped /\ StoreTyped /\ RestTyped
  BY TypeParts
<1>1. StoreTyped' /\ RestTyped'
  BY <1>0 DEF AttemptError, Build, RemuxFails, StoreTyped, RestTyped, storeVars
<1>2. att[s].group \subseteq Sessions /\ att[s].key \in Keys
  BY <1>0 DEF LoopsTyped, Attempts
<1>3. CASE AttemptError(s)
  <2>1. PICK F \in SUBSET Sessions : FailThenReturn(s, F, "retry")
    BY <1>2, <1>3, Splits DEF AttemptError
  <2> QED
    BY <1>0, <1>1, <2>1, FailType DEF Outcomes
<1>4. CASE Build(s)
  BY <1>0, <1>1, <1>4, ReturnType DEF Build, SessionsTyped, LoopsTyped, PCs, Outcomes
<1>5. CASE RemuxFails(s)
  <2>1. CASE RenameGroup(s, {})
    BY <1>0, <1>1, <2>1, RenameType
  <2>2. CASE Return(s, "retry") /\ UNCHANGED <<mem, disk, faults>>
             /\ remuxFailures' = [remuxFailures EXCEPT ![att[s].key] = remuxFailures[att[s].key] + 1]
    BY <1>0, <1>1, <1>2, <2>2, ReturnType DEF SessionsTyped, LoopsTyped, Outcomes
  <2>3. CASE pc' = [pc EXCEPT ![s] = "fbhead"] /\ UNCHANGED <<mem, disk, faults, att, remuxFailures>>
    BY <1>0, <1>1, <2>3 DEF SessionsTyped, LoopsTyped, PCs
  <2> QED
    BY <1>5, <2>1, <2>2, <2>3 DEF RemuxFails
<1> QED
  BY <1>3, <1>4, <1>5

LEMMA PutType ==
  ASSUME TypeOK, NEW s \in Sessions,
         Put(s) \/ PutError(s) \/ FallbackHead(s) \/ FallbackPut(s) \/ FallbackPutError(s)
  PROVE  TypeOK'
<1> SUFFICES SessionsTyped' /\ LoopsTyped' /\ StoreTyped' /\ RestTyped'
  BY TypeParts
<1>0. SessionsTyped /\ LoopsTyped /\ StoreTyped /\ RestTyped
  BY TypeParts
<1>1. RestTyped'
  BY <1>0 DEF Put, PutError, FallbackHead, FallbackPut, FallbackPutError, RestTyped
<1>2. /\ att[s].add \in SUBSET Sessions /\ att[s].done \in SUBSET Sessions
      /\ att[s].remote \in Objects /\ att[s].key \in Keys /\ FallbackKey(att[s].key) \in Keys
  BY <1>0, KeyTypes DEF LoopsTyped, Attempts
<1>3. Built(att[s].remote, att[s].add) \in Objects /\ Built(Absent, att[s].add) \in Objects /\ Absent \in Objects
  BY <1>2, ObjectTypes
<1>4. CASE Put(s) \/ FallbackPut(s)
  BY <1>0, <1>1, <1>2, <1>3, <1>4, PutObjectType DEF Put, FallbackPut
<1>5. CASE PutError(s) \/ FallbackPutError(s)
  BY <1>0, <1>1, <1>2, <1>3, <1>5, PutFailsType DEF PutError, FallbackPutError
<1>6. CASE FallbackHead(s)
  <2>1. StoreTyped'
    BY <1>0, <1>6 DEF FallbackHead, StoreTyped, storeVars
  <2>2. CASE RenameGroup(s, {})
    BY <1>0, <1>1, <2>1, <2>2, RenameType
  <2>3. CASE CompleteGroup(s, att[s].add \cup att[s].done, FallbackKey(att[s].key), {})
    BY <1>0, <1>1, <1>2, <2>1, <2>3, CompleteType
  <2>4. CASE pc' = [pc EXCEPT ![s] = "fbput"] /\ UNCHANGED <<mem, disk, att, remuxFailures, faults>>
    BY <1>0, <1>1, <2>1, <2>4 DEF SessionsTyped, LoopsTyped, PCs
  <2> QED
    BY <1>6, <2>2, <2>3, <2>4 DEF FallbackHead
<1> QED
  BY <1>4, <1>5, <1>6

LEMMA RecordType ==
  ASSUME TypeOK, NEW s \in Sessions, RecordUpload(s) \/ RemoveCapture(s)
  PROVE  TypeOK'
<1> SUFFICES SessionsTyped' /\ LoopsTyped' /\ StoreTyped' /\ RestTyped'
  BY TypeParts
<1>0. SessionsTyped /\ LoopsTyped /\ StoreTyped /\ RestTyped
  BY TypeParts
<1>1. StoreTyped' /\ RestTyped'
  BY <1>0 DEF RecordUpload, RemoveCapture, StoreTyped, RestTyped, storeVars
<1>2. pc' \in [Sessions -> PCs] /\ remuxFailures' \in [Keys -> Nat]
  BY <1>0 DEF RecordUpload, RemoveCapture, LoopsTyped, PCs
<1>3. att[s] \in Attempts /\ att[s].todo \in SUBSET Sessions /\ att[s].dest \in Keys
  BY <1>0 DEF LoopsTyped, Attempts
<1>4. faults' \in [FaultKinds -> Nat]
  <2>1. faults' = faults \/ (faults["sidecar"] > 0 /\ faults' = [faults EXCEPT !["sidecar"] = @ - 1])
    BY DEF RecordUpload, RemoveCapture
  <2> QED
    BY <1>0, <2>1 DEF SessionsTyped, FaultKinds
<1>5. CASE RecordUpload(s)
  <2>1. PICK x \in att[s].todo :
          \/ /\ disk' = [disk EXCEPT ![x] = [state |-> "uploaded", key |-> att[s].dest,
                                             renames |-> mem[x].renames]]
             /\ att' = [att EXCEPT ![s].todo = @ \ {x}, ![s].cur = x]
          \/ /\ att' = [att EXCEPT ![s].todo = @ \ {x}, ![s].lost = TRUE]
             /\ UNCHANGED disk
    BY <1>5 DEF RecordUpload
  <2>2. x \in Sessions /\ mem[x].renames \in 0 .. MaxKeyRenames
    BY <1>0, <1>3, <2>1 DEF SessionsTyped, SessionRecords
  <2>3. SessionsTyped'
    BY <1>0, <1>3, <1>4, <1>5, <2>1, <2>2 DEF RecordUpload, SessionsTyped, SessionRecords, SessionStates
  <2>4. att' \in [Sessions -> Attempts]
    <3>1. /\ [att[s] EXCEPT !.todo = att[s].todo \ {x}, !.cur = x] \in Attempts
          /\ [att[s] EXCEPT !.todo = att[s].todo \ {x}, !.lost = TRUE] \in Attempts
      BY <1>3, <2>2 DEF Attempts
    <3>2. \/ att' = [att EXCEPT ![s] = [att[s] EXCEPT !.todo = att[s].todo \ {x}, !.cur = x]]
          \/ att' = [att EXCEPT ![s] = [att[s] EXCEPT !.todo = att[s].todo \ {x}, !.lost = TRUE]]
      BY <1>0, <2>1 DEF LoopsTyped
    <3> QED
      BY <1>0, <3>1, <3>2 DEF LoopsTyped
  <2> QED
    BY <1>1, <1>2, <2>3, <2>4 DEF LoopsTyped
<1>6. CASE RemoveCapture(s)
  BY <1>0, <1>1, <1>2, <1>4, <1>6 DEF RemoveCapture, SessionsTyped, LoopsTyped, Attempts
<1> QED
  BY <1>5, <1>6

LEMMA OutcomeType == ASSUME TypeOK, NEW s \in Sessions, Outcome(s) PROVE TypeOK'
<1> SUFFICES SessionsTyped' /\ LoopsTyped' /\ StoreTyped' /\ RestTyped'
  BY TypeParts
<1>0. SessionsTyped /\ LoopsTyped /\ StoreTyped /\ RestTyped
  BY TypeParts
<1>1. StoreTyped'
  BY <1>0 DEF Outcome, StoreTyped, storeVars
<1>2. LoopEnds(s) \/ \E n \in 0 .. MaxImmediate : LoopRepeats(s, n)
  <2>1. 0 \in 0 .. MaxImmediate /\ (imm[s] < MaxImmediate => imm[s] + 1 \in 0 .. MaxImmediate)
    BY <1>0, LimitsAssumption DEF RestTyped
  <2> QED
    BY <2>1 DEF Outcome
<1>3. LoopsTyped' /\ RestTyped'
  <2>1. pc' \in [Sessions -> PCs] /\ imm' \in [Sessions -> 0 .. MaxImmediate]
    BY <1>0, <1>2, LimitsAssumption DEF LoopsTyped, RestTyped, PCs, LoopEnds, LoopRepeats
  <2>2. att' \in [Sessions -> Attempts]
    BY <1>0, <1>2, IdleType DEF LoopsTyped, LoopEnds, LoopRepeats
  <2> QED
    BY <1>0, <2>1, <2>2 DEF LoopsTyped, RestTyped, Outcome
<1>4. \/ UNCHANGED <<mem, disk, faults>>
      \/ mem' = [mem EXCEPT ![s].state = "finalized"] /\ Save({s})
  BY DEF Outcome
<1>5. SessionsTyped'
  <2>1. [mem EXCEPT ![s].state = "finalized"] \in [Sessions -> SessionRecords]
    BY <1>0 DEF SessionsTyped, SessionRecords, SessionStates
  <2> QED
    BY <1>0, <1>4, <2>1, SaveType DEF SessionsTyped
<1> QED
  BY <1>1, <1>3, <1>5


LEMMA ProcessType ==
  ASSUME TypeOK, Shutdown \/ CancelUploads \/ Restart
  PROVE  TypeOK'
<1> SUFFICES SessionsTyped' /\ LoopsTyped' /\ StoreTyped' /\ RestTyped'
  BY TypeParts
<1>0. SessionsTyped /\ LoopsTyped /\ StoreTyped /\ RestTyped
  BY TypeParts
<1>1. CASE Shutdown \/ CancelUploads
  BY <1>0, <1>1 DEF Shutdown, CancelUploads, SessionsTyped, LoopsTyped, StoreTyped, RestTyped,
                    storeVars, FaultKinds
<1>2. CASE Restart
  <2>1. PICK lender \in [Sessions -> Sessions \cup {Nobody}] :
          /\ mem' = [s \in Sessions |-> [Migrated(s, lender[s]) EXCEPT !.state = RecoveredState(s)]]
          /\ disk' = [s \in Sessions |-> IF Superseded(s) THEN mem'[s] ELSE Migrated(s, lender[s])]
    BY <1>2 DEF Restart
  <2>2. ASSUME NEW s \in Sessions
        PROVE  Migrated(s, lender[s]) \in SessionRecords /\ RecoveredState(s) \in SessionStates
    <3>1. disk[s] \in SessionRecords
      BY <1>0 DEF SessionsTyped
    <3>2. lender[s] # Nobody => disk[lender[s]] \in SessionRecords
      BY <1>0 DEF SessionsTyped
    <3>3. Migrated(s, lender[s]) \in SessionRecords
      BY <3>1, <3>2, KeyTypes DEF Migrated, SessionRecords
    <3>4. RecoveredState(s) \in SessionStates
      BY <3>1 DEF RecoveredState, SessionRecords, SessionStates
    <3> QED
      BY <3>3, <3>4
  <2>3. mem' \in [Sessions -> SessionRecords]
    BY <2>1, <2>2 DEF SessionRecords
  <2>4. disk' \in [Sessions -> SessionRecords]
    BY <2>1, <2>2, <2>3
  <2>5. faults' \in [FaultKinds -> Nat]
    BY <1>0, <1>2 DEF Restart, SessionsTyped, FaultKinds
  <2>6. LoopsTyped'
    BY <1>2, IdleType DEF Restart, LoopsTyped, PCs
  <2>7. StoreTyped'
    BY <1>0, <1>2 DEF Restart, StoreTyped, storeVars
  <2>8. RestTyped'
    <3>1. file' \in [Sessions -> {"none"} \cup Kinds]
      BY <1>0, <1>2, KindAssumption DEF Restart, RestTyped
    <3> QED
      BY <1>2, <3>1, LimitsAssumption DEF Restart, RestTyped
  <2> QED
    BY <2>3, <2>4, <2>5, <2>6, <2>7, <2>8 DEF SessionsTyped
<1> QED
  BY <1>1, <1>2

LEMMA BucketType ==
  ASSUME TypeOK, LateLand \/ \E k \in Keys, by \in {"foreign", "corrupt"} : ForeignPut(k, by)
  PROVE  TypeOK'
<1> SUFFICES SessionsTyped' /\ LoopsTyped' /\ StoreTyped' /\ RestTyped'
  BY TypeParts
<1>0. SessionsTyped /\ LoopsTyped /\ StoreTyped /\ RestTyped
  BY TypeParts
<1>1. CASE LateLand
  <2>1. PICK p \in inflight :
          /\ inflight' = inflight \ {p}
          /\ bucket' = IF MayPut(p.key, p.remote) THEN [bucket EXCEPT ![p.key] = p.obj] ELSE bucket
    BY <1>1 DEF LateLand
  <2>2. p \in [key : Keys, remote : Objects, obj : Objects]
    BY <1>0 DEF StoreTyped
  <2>3. StoreTyped'
    BY <1>0, <2>1, <2>2 DEF StoreTyped
  <2> QED
    BY <1>0, <1>1, <2>3 DEF LateLand, SessionsTyped, LoopsTyped, RestTyped
<1>2. CASE \E k \in Keys, by \in {"foreign", "corrupt"} : ForeignPut(k, by)
  <2>1. PICK k \in Keys, by \in {"foreign", "corrupt"} : ForeignPut(k, by)
    BY <1>2
  <2>a. bucket \in [Keys -> Objects] /\ bucket' = [bucket EXCEPT ![k].by = by] /\ by \in Writers
    BY <1>0, <2>1 DEF ForeignPut, StoreTyped, Writers
  <2>b. [bucket[k] EXCEPT !.by = by] \in Objects
    BY <2>a DEF Objects
  <2>c. bucket' \in [Keys -> Objects]
    BY <2>a, <2>b
  <2>2. StoreTyped'
    BY <1>0, <2>1, <2>c DEF ForeignPut, StoreTyped
  <2>3. faults' \in [FaultKinds -> Nat]
    BY <1>0, <2>1 DEF ForeignPut, SessionsTyped, FaultKinds
  <2> QED
    BY <1>0, <2>1, <2>2, <2>3 DEF ForeignPut, SessionsTyped, LoopsTyped, RestTyped
<1> QED
  BY <1>1, <1>2

LEMMA InitType == Init => TypeOK
<1> SUFFICES ASSUME Init PROVE TypeOK
  OBVIOUS
<1>1. [state |-> "none", key |-> BaseKey, renames |-> 0] \in SessionRecords
  BY KeyTypes, LimitsAssumption DEF SessionRecords, SessionStates
<1> QED
  BY <1>1, IdleType, ObjectTypes, LimitsAssumption, FaultsAssumption DEF Init, TypeOK, PCs

LEMMA LoopType == ASSUME TypeOK, NEW s \in Sessions, LoopStep(s) PROVE TypeOK'
BY WaitingType, ClaimType, ExamineType, BuildType, PutType, RecordType, OutcomeType DEF LoopStep

\* The state of the upload path stays well-typed: in particular no rename count
\* exceeds maxKeyRenames and no key carries a suffix past it.
THEOREM TypeCorrect == Spec => []TypeOK
<1>1. TypeOK /\ UNCHANGED vars => TypeOK'
  BY DEF TypeOK, vars, storeVars
<1>2. TypeOK /\ Next => TypeOK'
  BY LifecycleType, LoopType, ProcessType, BucketType DEF Next
<1> QED
  BY <1>1, <1>2, InitType, PTL DEF Spec

-----------------------------------------------------------------------------
\* What every step but a restart may do to the store, to memory, to a sidecar
\* and to a capture.

StoredAtNext(x, k) == bucket'[k].by = "us" /\ x \in Held(bucket'[k])
StoredNext(x) == \E k \in Keys : StoredAtNext(x, k)

StoreKept == \A x \in Sessions, k \in Keys : StoredAt(x, k) => StoredAtNext(x, k)
LateKept == \A x \in Sessions : Late(x) => Late(x)'
MemStep(x) ==
  /\ mem'[x].state = "uploaded" => mem'[x] = mem[x] \/ StoredAtNext(x, mem'[x].key)
  /\ Late(x)' => Late(x) \/ file'[x] = Kind[x]
DiskStep(x) ==
  \/ disk'[x] = disk[x] \/ disk'[x] = mem'[x]
  \/ StoredAtNext(x, disk'[x].key)
  \/ disk'[x].state # "uploaded" /\ Late(x)'
FileStep(x) ==
  Kind[x] = "audio" /\ file[x] = "audio" =>
    \/ file'[x] = "audio" \/ StoredNext(x)
    \/ mem'[x].state \in Early /\ disk'[x].state \in Early

SafeStep == /\ StoreKept /\ LateKept
            /\ \A x \in Sessions : MemStep(x) /\ DiskStep(x) /\ FileStep(x)

LEMMA StoredPrimed == \A x \in Sessions : /\ Stored(x)' <=> StoredNext(x)
                                          /\ \A k \in Keys : StoredAt(x, k)' <=> StoredAtNext(x, k)
BY DEF Stored, StoredAt, StoredNext, StoredAtNext

LEMMA StoredStays == StoreKept => \A x \in Sessions : Stored(x) => StoredNext(x)
BY DEF StoreKept, Stored, StoredNext

LEMMA SafetyKept ==
  ASSUME IInv, TypeOK', SafeStep
  PROVE  AudioSafe' /\ UploadedIsStored' /\ MemorySafe' /\ MemoryRight'
<1>1. \A x \in Sessions : mem'[x].key \in Keys /\ disk'[x].key \in Keys /\ mem[x].key \in Keys /\ disk[x].key \in Keys
  BY DEF IInv, TypeOK, SessionRecords
<1>2. \A x \in Sessions : Stored(x) => StoredNext(x)
  BY StoredStays DEF SafeStep
<1>3. ASSUME NEW x \in Sessions, mem'[x].state = "uploaded" PROVE StoredAtNext(x, mem'[x].key)
  BY <1>1, <1>3 DEF IInv, SafeStep, MemoryRight, MemStep, StoreKept
<1>4. ASSUME NEW x \in Sessions, Kind[x] = "audio", mem'[x].state \notin Early
      PROVE  file'[x] = "audio" \/ StoredNext(x)
  BY <1>2, <1>4 DEF IInv, SafeStep, MemorySafe, MemStep, FileStep, Late
<1>5. ASSUME NEW x \in Sessions, disk'[x].state = "uploaded" PROVE StoredAtNext(x, disk'[x].key)
  BY <1>1, <1>3, <1>5 DEF IInv, SafeStep, UploadedIsStored, DiskStep, StoreKept
<1>6. ASSUME NEW x \in Sessions, Kind[x] = "audio", disk'[x].state \notin Early
      PROVE  file'[x] = "audio" \/ StoredNext(x)
  <2>1. CASE disk'[x] = disk[x]
    BY <1>2, <1>6, <2>1 DEF IInv, SafeStep, AudioSafe, FileStep, Early
  <2>2. CASE disk'[x] = mem'[x] \/ Late(x)'
    BY <1>4, <1>6, <2>2 DEF Late
  <2>3. CASE StoredAtNext(x, disk'[x].key)
    BY <1>1, <2>3 DEF StoredNext
  <2> QED
    BY <2>1, <2>2, <2>3 DEF SafeStep, DiskStep
<1>7. UploadedIsStored' /\ MemoryRight'
  BY <1>3, <1>5 DEF UploadedIsStored, MemoryRight, StoredAt, StoredAtNext
<1>8. AudioSafe' /\ MemorySafe'
  BY <1>4, <1>6, StoredPrimed DEF AudioSafe, MemorySafe, Late, Early
<1> QED
  BY <1>7, <1>8

\* The promises of an attempt, after a step.
AttemptOKNext(r) ==
  LET a == att'[r]
  IN /\ pc'[r] # "off" => Late(r)'
     /\ \A x \in a.group \cup a.add \cup a.done : Late(x)'
     /\ a.done \subseteq Listed(a.remote)
     /\ a.remote.by \in {"none", "us"}
     /\ \A x \in a.todo : StoredAtNext(x, a.dest)
     /\ a.cur # Nobody => StoredNext(a.cur)
     /\ pc'[r] = "remove" => a.cur # Nobody
     /\ pc'[r] \in {"fbhead", "fbput"} => a.remote = Absent

LEMMA AttemptPrimed == \A r \in Sessions : AttemptOK(r)' <=> AttemptOKNext(r)
BY DEF AttemptOK, AttemptOKNext, Late, Stored, StoredNext, StoredAt, StoredAtNext

\* An attempt keeps them through a step that leaves its own data alone.
LEMMA AttemptKept ==
  ASSUME TypeOK, StoreKept, LateKept, NEW r \in Sessions, AttemptOK(r),
         att'[r] = att[r] \/ (\E err \in Outcomes : att'[r] = [att[r] EXCEPT !.err = err]),
         pc'[r] = pc[r] \/ (pc[r] # "off" /\ pc'[r] \notin {"remove", "fbhead", "fbput"})
  PROVE  AttemptOKNext(r)
<1> DEFINE a == att[r]
<1>1. a \in Attempts
  BY DEF TypeOK
<1>2. /\ att'[r].group = a.group /\ att'[r].add = a.add /\ att'[r].done = a.done
      /\ att'[r].remote = a.remote /\ att'[r].todo = a.todo /\ att'[r].dest = a.dest
      /\ att'[r].cur = a.cur
  BY <1>1 DEF Attempts
<1>3. /\ a.group \cup a.add \cup a.done \subseteq Sessions /\ a.todo \subseteq Sessions /\ a.dest \in Keys
      /\ a.cur \in Sessions \cup {Nobody}
  BY <1>1 DEF Attempts
<1>4. (pc[r] # "off" => Late(r)) /\ (pc'[r] # "off" => Late(r)')
  BY DEF AttemptOK, LateKept
<1>5. \A x \in a.group \cup a.add \cup a.done : Late(x)'
  BY <1>3 DEF AttemptOK, LateKept
<1>6. (\A x \in a.todo : StoredAtNext(x, a.dest)) /\ (a.cur # Nobody => StoredNext(a.cur))
  BY <1>3, StoredStays DEF AttemptOK, StoreKept
<1>7. /\ a.done \subseteq Listed(a.remote)
      /\ a.remote.by \in {"none", "us"}
      /\ pc'[r] = "remove" => a.cur # Nobody
      /\ pc'[r] \in {"fbhead", "fbput"} => a.remote = Absent
  BY DEF AttemptOK
<1> HIDE DEF a
<1> QED
  BY <1>2, <1>4, <1>5, <1>6, <1>7 DEF AttemptOKNext

LEMMA Conclude ==
  ASSUME IInv, TypeOK', SafeStep, \A r \in Sessions : AttemptOKNext(r), LateOK'
  PROVE  IInv'
BY SafetyKept, AttemptPrimed DEF IInv

LEMMA StoreUnchanged == UNCHANGED bucket => StoreKept
BY DEF StoreKept, StoredAt, StoredAtNext

\* Attempts of the other loops, when only loop s moves.
LEMMA OthersKept ==
  ASSUME IInv, StoreKept, LateKept, NEW s \in Sessions, NEW a, NEW p,
         att' = [att EXCEPT ![s] = a], pc' = [pc EXCEPT ![s] = p], AttemptOKNext(s)
  PROVE  \A r \in Sessions : AttemptOKNext(r)
<1> SUFFICES ASSUME NEW r \in Sessions, r # s PROVE AttemptOKNext(r)
  OBVIOUS
<1>1. att'[r] = att[r] /\ pc'[r] = pc[r]
  BY DEF IInv, TypeOK
<1> QED
  BY <1>1, AttemptKept DEF IInv

\* A loop that returns from its attempt, or moves on with the same data.
LEMMA OwnKept ==
  ASSUME IInv, StoreKept, LateKept, NEW s \in Sessions, NEW p,
         pc[s] # "off", p \notin {"remove", "fbhead", "fbput"},
         att' = att \/ (\E err \in Outcomes : att' = [att EXCEPT ![s].err = err]),
         pc' = [pc EXCEPT ![s] = p]
  PROVE  \A r \in Sessions : AttemptOKNext(r)
<1>1. TypeOK /\ AttemptOK(s)
  BY DEF IInv
<1>2. pc'[s] = p /\ \A r \in Sessions : r # s => pc'[r] = pc[r]
  BY <1>1 DEF TypeOK
<1>3. att'[s] = att[s] \/ (\E err \in Outcomes : att'[s] = [att[s] EXCEPT !.err = err])
  BY <1>1 DEF TypeOK
<1>4. \A r \in Sessions : r # s => att'[r] = att[r]
  BY <1>1 DEF TypeOK
<1>5. AttemptOKNext(s)
  BY <1>1, <1>2, <1>3, AttemptKept
<1>6. ASSUME NEW r \in Sessions, r # s PROVE AttemptOKNext(r)
  BY <1>1, <1>2, <1>4, <1>6, AttemptKept DEF IInv
<1> QED
  BY <1>5, <1>6

\* Memory and sidecars change only for finished sessions, which stay finished
\* and do not become uploaded: nothing is lost.
LEMMA SafeSaves ==
  ASSUME IInv, UNCHANGED <<file, bucket>>,
         \A x \in Sessions : mem'[x] = mem[x] \/ (Late(x) /\ Late(x)' /\ mem'[x].state # "uploaded"),
         \A x \in Sessions : disk'[x] = disk[x] \/ disk'[x] = mem'[x]
  PROVE  SafeStep
<1>1. StoreKept
  BY StoreUnchanged
<1>2. LateKept
  BY DEF LateKept, Late
<1>3. ASSUME NEW x \in Sessions PROVE MemStep(x) /\ DiskStep(x) /\ FileStep(x)
  BY DEF MemStep, DiskStep, FileStep, Late
<1> QED
  BY <1>1, <1>2, <1>3 DEF SafeStep

LEMMA SetStateStep ==
  ASSUME NEW S, S \subseteq Sessions, NEW st \in SessionStates, st \notin Early \cup {"uploaded"},
         TypeOK, \A x \in S : Late(x), mem' = SetState(S, st)
  PROVE  \A x \in Sessions : mem'[x] = mem[x] \/ (Late(x) /\ Late(x)' /\ mem'[x].state # "uploaded")
<1> SUFFICES ASSUME NEW x \in Sessions
             PROVE  mem'[x] = mem[x] \/ (Late(x) /\ Late(x)' /\ mem'[x].state # "uploaded")
  OBVIOUS
<1>1. mem[x] \in SessionRecords
  BY DEF TypeOK
<1>2. mem'[x] = IF x \in S THEN [mem[x] EXCEPT !.state = st] ELSE mem[x]
  BY DEF SetState
<1>3. x \in S => mem'[x].state = st
  BY <1>1, <1>2 DEF SessionRecords
<1> QED
  BY <1>2, <1>3 DEF Late

LEMMA FailStep ==
  ASSUME IInv, TypeOK', NEW s \in Sessions, pc[s] # "off", NEW F, F \subseteq att[s].group,
         NEW err \in Outcomes, FailThenReturn(s, F, err), UNCHANGED <<file, bucket>>
  PROVE  SafeStep /\ \A r \in Sessions : AttemptOKNext(r)
<1>1. F \subseteq Sessions /\ \A x \in F : Late(x)
  BY DEF IInv, TypeOK, Attempts, AttemptOK
<1>2. \A x \in Sessions : mem'[x] = mem[x] \/ (Late(x) /\ Late(x)' /\ mem'[x].state # "uploaded")
  BY <1>1, SetStateStep DEF FailThenReturn, IInv, SessionStates, Early
<1>3. \A x \in Sessions : disk'[x] = disk[x] \/ disk'[x] = mem'[x]
  BY <1>1, SaveType DEF FailThenReturn, IInv, TypeOK
<1>4. SafeStep
  BY <1>2, <1>3, SafeSaves
<1>5. \A r \in Sessions : AttemptOKNext(r)
  BY <1>4, OwnKept DEF FailThenReturn, Return, SafeStep
<1> QED
  BY <1>4, <1>5

LEMMA RenameStep ==
  ASSUME IInv, TypeOK', NEW s \in Sessions, pc[s] # "off", NEW F, F \subseteq att[s].group,
         RenameGroup(s, F), UNCHANGED <<file, bucket>>
  PROVE  SafeStep /\ \A r \in Sessions : AttemptOKNext(r)
<1> DEFINE g == att[s].group
<1>1. g \subseteq Sessions /\ \A x \in g : Late(x)
  BY DEF IInv, TypeOK, Attempts, AttemptOK
<1>2. PICK r \in {mem[x].renames : x \in g} :
        \/ FailThenReturn(s, F, "permanent")
        \/ /\ mem' = [x \in Sessions |->
                        IF x \in g THEN [state |-> "finalized", renames |-> r + 1,
                                         key |-> WithSuffix(att[s].key, r + 2)]
                                   ELSE mem[x]]
           /\ Save(g)
           /\ Return(s, "again")
  BY DEF RenameGroup
<1>3. CASE FailThenReturn(s, F, "permanent")
  BY <1>3, FailStep DEF Outcomes
<1>4. CASE ~FailThenReturn(s, F, "permanent")
  <2>1. \A x \in Sessions : mem'[x] = mem[x] \/ (Late(x) /\ Late(x)' /\ mem'[x].state # "uploaded")
    BY <1>1, <1>2, <1>4 DEF Late, Early
  <2>2. \A x \in Sessions : disk'[x] = disk[x] \/ disk'[x] = mem'[x]
    BY <1>1, <1>2, <1>4, SaveType DEF IInv, TypeOK
  <2>3. SafeStep
    BY <2>1, <2>2, SafeSaves
  <2>4. \A r1 \in Sessions : AttemptOKNext(r1)
    BY <1>2, <1>4, <2>3, OwnKept DEF Return, SafeStep, Outcomes
  <2> QED
    BY <2>3, <2>4
<1> QED
  BY <1>3, <1>4

\* completeGroup is right when every member is in the object it names.
LEMMA CompleteStep ==
  ASSUME IInv, TypeOK', NEW s \in Sessions, pc[s] # "off", StoreKept, UNCHANGED file,
         NEW M, M \subseteq att[s].group \cup att[s].add \cup att[s].done,
         NEW F, F \subseteq att[s].group, NEW dest \in Keys,
         \A x \in M : StoredAtNext(x, dest), CompleteGroup(s, M, dest, F)
  PROVE  SafeStep /\ \A r \in Sessions : AttemptOKNext(r)
<1>1. M \subseteq Sessions /\ F \subseteq Sessions /\ \A x \in M \cup F : Late(x)
  BY DEF IInv, TypeOK, Attempts, AttemptOK
<1>2. ASSUME NEW x \in Sessions
      PROVE  /\ x \in M => mem'[x].state = "uploaded" /\ mem'[x].key = dest
             /\ x \notin M /\ x \in F => mem'[x].state = "failed"
             /\ x \notin M /\ x \notin F => mem'[x] = mem[x]
  <2>1. mem[x] \in SessionRecords
    BY DEF IInv, TypeOK
  <2>2. mem'[x] = IF x \in M THEN [mem[x] EXCEPT !.state = "uploaded", !.key = dest]
                             ELSE SetState(F, "failed")[x]
    BY DEF CompleteGroup
  <2>3. SetState(F, "failed")[x] = IF x \in F THEN [mem[x] EXCEPT !.state = "failed"] ELSE mem[x]
    BY DEF SetState
  <2> QED
    BY <2>1, <2>2, <2>3 DEF SessionRecords
<1>3. \A x \in Sessions : disk'[x] = disk[x] \/ disk'[x] = mem'[x]
  BY <1>1, SaveType DEF CompleteGroup, IInv, TypeOK
<1>4. LateKept
  BY <1>1, <1>2 DEF LateKept, Late, Early
<1>5. ASSUME NEW x \in Sessions PROVE MemStep(x) /\ DiskStep(x) /\ FileStep(x)
  BY <1>1, <1>2, <1>3 DEF MemStep, DiskStep, FileStep, Late
<1>6. SafeStep
  BY <1>4, <1>5 DEF SafeStep
<1>7. AttemptOKNext(s)
  <2> DEFINE a == att[s]
  <2>1. a \in Attempts /\ pc'[s] = "record"
    BY DEF CompleteGroup, IInv, TypeOK
  <2>2. att'[s] = [a EXCEPT !.todo = M, !.dest = dest]
    BY DEF CompleteGroup, IInv, TypeOK
  <2>3. /\ att'[s].group = a.group /\ att'[s].add = a.add /\ att'[s].done = a.done
        /\ att'[s].remote = a.remote /\ att'[s].todo = M /\ att'[s].dest = dest
        /\ att'[s].cur = a.cur
    BY <2>1, <2>2 DEF Attempts
  <2>4. a.group \cup a.add \cup a.done \subseteq Sessions /\ a.cur \in Sessions \cup {Nobody} /\ AttemptOK(s)
    BY <2>1 DEF Attempts, IInv
  <2>5. Late(s)' /\ \A x \in a.group \cup a.add \cup a.done : Late(x)'
    BY <1>4, <2>4 DEF AttemptOK, LateKept
  <2>6. a.cur # Nobody => StoredNext(a.cur)
    BY <2>4, StoredStays DEF AttemptOK
  <2>7. /\ a.done \subseteq Listed(a.remote)
        /\ a.remote.by \in {"none", "us"}
    BY <2>4 DEF AttemptOK
  <2> HIDE DEF a
  <2> QED
    BY <2>1, <2>3, <2>5, <2>6, <2>7 DEF AttemptOKNext
<1>8. \A r \in Sessions : AttemptOKNext(r)
  <2>1. att' = [att EXCEPT ![s] = [att[s] EXCEPT !.todo = M, !.dest = dest]]
    BY DEF CompleteGroup, IInv, TypeOK
  <2> QED
    BY <1>4, <1>7, <2>1, OthersKept DEF CompleteGroup
<1> QED
  BY <1>6, <1>8

-----------------------------------------------------------------------------
\* Every action keeps the invariant.

LEMMA LateUnchanged == LateOK /\ UNCHANGED inflight => LateOK'
BY DEF LateOK

LEMMA LifecycleInv ==
  ASSUME IInv, NEW s \in Sessions, StartSession(s) \/ Finalize(s) \/ Retire(s)
  PROVE  IInv'
<1>1. TypeOK /\ TypeOK'
  BY LifecycleType DEF IInv
<1>2. StoreKept /\ LateOK'
  BY StoreUnchanged, LateUnchanged DEF IInv, StartSession, Finalize, Retire, storeVars
<1>3. CASE StartSession(s)
  <2>1. PICK pin \in SessionRecords : /\ pin.state = "recording"
                                      /\ mem' = [mem EXCEPT ![s] = pin]
                                      /\ disk' = [disk EXCEPT ![s] = pin]
    <3>1. PICK pin \in SessionRecords :
            /\ \/ pin = [state |-> "recording", key |-> BaseKey, renames |-> 0]
               \/ \E o \in Known : pin = [mem[o] EXCEPT !.state = "recording"]
            /\ mem' = [mem EXCEPT ![s] = pin]
            /\ disk' = [disk EXCEPT ![s] = pin]
      BY <1>3 DEF StartSession
    <3>2. pin.state = "recording"
      BY <1>1, <3>1 DEF TypeOK, SessionRecords, Known
    <3> QED
      BY <3>1, <3>2
  <2>2. mem'[s].state = "recording" /\ disk'[s].state = "recording" /\ mem[s].state = "none"
    BY <1>1, <1>3, <2>1 DEF TypeOK, StartSession
  <2>3. \A x \in Sessions : x # s => mem'[x] = mem[x] /\ disk'[x] = disk[x] /\ file'[x] = file[x]
    BY <1>1, <1>3, <2>1 DEF TypeOK, StartSession
  <2>4. LateKept
    BY <2>2, <2>3 DEF LateKept, Late, Early
  <2>5. ASSUME NEW x \in Sessions PROVE MemStep(x) /\ DiskStep(x) /\ FileStep(x)
    <3>1. CASE x = s
      BY <1>1, <2>1, <2>2, <3>1 DEF MemStep, DiskStep, FileStep, Late, Early, TypeOK
    <3>2. CASE x # s
      BY <2>3, <3>2 DEF MemStep, DiskStep, FileStep, Late
    <3> QED
      BY <3>1, <3>2
  <2>6. \A r \in Sessions : AttemptOKNext(r)
    BY <1>1, <1>2, <1>3, <2>4, AttemptKept DEF StartSession, IInv
  <2> QED
    BY <1>1, <1>2, <2>4, <2>5, <2>6, Conclude DEF SafeStep
<1>4. CASE Finalize(s)
  <2>1. mem[s].state = "recording" /\ mem'[s].state = "finalized" /\ file'[s] = Kind[s]
    BY <1>1, <1>4 DEF Finalize, TypeOK, SessionRecords
  <2>2. \A x \in Sessions : x # s => mem'[x] = mem[x] /\ file'[x] = file[x]
    BY <1>1, <1>4 DEF Finalize, TypeOK
  <2>3. \A x \in Sessions : disk'[x] = disk[x] \/ disk'[x] = mem'[x]
    BY <1>1, <1>4, SaveType DEF Finalize, TypeOK
  <2>4. LateKept
    BY <2>1, <2>2 DEF LateKept, Late, Early
  <2>5. ASSUME NEW x \in Sessions PROVE MemStep(x) /\ DiskStep(x) /\ FileStep(x)
    <3>1. CASE x = s
      BY <2>1, <2>3, <3>1 DEF MemStep, DiskStep, FileStep
    <3>2. CASE x # s
      BY <2>2, <2>3, <3>2 DEF MemStep, DiskStep, FileStep, Late
    <3> QED
      BY <3>1, <3>2
  <2>6. \A r \in Sessions : AttemptOKNext(r)
    <3>1. AttemptOKNext(s)
      <4>1. Late(s)' /\ pc[s] = "off" /\ att'[s] = att[s] /\ pc'[s] \in {"off", "start"}
        BY <1>1, <1>4, <2>1 DEF Finalize, TypeOK, IInv, AttemptOK, Late, Early
      <4>2. AttemptOK(s) /\ att[s].group \cup att[s].add \cup att[s].done \subseteq Sessions /\ att[s].todo \subseteq Sessions
            /\ att[s].dest \in Keys /\ att[s].cur \in Sessions \cup {Nobody}
        BY <1>1 DEF IInv, TypeOK, Attempts
      <4> QED
        BY <1>2, <2>4, <4>1, <4>2, StoredStays DEF AttemptOK, AttemptOKNext, LateKept, StoreKept
    <3>2. ASSUME NEW r \in Sessions, r # s PROVE AttemptOKNext(r)
      BY <1>1, <1>2, <1>4, <2>4, <3>2, AttemptKept DEF Finalize, IInv, TypeOK
    <3> QED
      BY <3>1, <3>2
  <2> QED
    BY <1>1, <1>2, <2>4, <2>5, <2>6, Conclude DEF SafeStep
<1>5. CASE Retire(s)
  <2>1. /\ mem[s].state \in Terminal /\ mem'[s].state = "gone" /\ disk'[s].state = "gone"
        /\ file[s] # "audio"
    BY <1>1, <1>5 DEF Retire, TypeOK, SessionRecords, Terminal
  <2>2. \A x \in Sessions : x # s => mem'[x] = mem[x] /\ disk'[x] = disk[x] /\ file'[x] = file[x]
    BY <1>1, <1>5 DEF Retire, TypeOK
  <2>3. LateKept
    BY <2>1, <2>2 DEF LateKept, Late, Early
  <2>4. ASSUME NEW x \in Sessions PROVE MemStep(x) /\ DiskStep(x) /\ FileStep(x)
    <3>1. CASE x = s
      BY <2>1, <3>1 DEF MemStep, DiskStep, FileStep, Late, Early, Terminal
    <3>2. CASE x # s
      BY <2>2, <3>2 DEF MemStep, DiskStep, FileStep, Late
    <3> QED
      BY <3>1, <3>2
  <2>5. \A r \in Sessions : AttemptOKNext(r)
    BY <1>1, <1>2, <1>5, <2>3, AttemptKept DEF Retire, IInv
  <2> QED
    BY <1>1, <1>2, <2>3, <2>4, <2>5, Conclude DEF SafeStep
<1> QED
  BY <1>3, <1>4, <1>5

\* An idle attempt promises nothing.
LEMMA IdleOK ==
  ASSUME NEW r \in Sessions, att'[r].group = {}, att'[r].add = {}, att'[r].done = {},
         att'[r].remote = Absent, att'[r].todo = {}, att'[r].cur = Nobody,
         pc'[r] # "remove", pc'[r] # "off" => Late(r)'
  PROVE  AttemptOKNext(r)
BY DEF AttemptOKNext, Absent

LEMMA WaitingInv ==
  ASSUME IInv, NEW s \in Sessions,
         ReadKey(s) \/ AcquireKey(s) \/ AcquireSlot(s) \/ LoopCancelled(s) \/ Recorded(s) \/ Unlock(s)
  PROVE  IInv'
<1>1. TypeOK /\ TypeOK'
  BY WaitingType DEF IInv
<1>2. UNCHANGED <<mem, disk, file, bucket, inflight>>
  BY DEF ReadKey, AcquireKey, AcquireSlot, LoopCancelled, Recorded, Unlock, storeVars
<1>3. SafeStep /\ LateOK'
  BY <1>2, SafeSaves, LateUnchanged DEF IInv
<1>4. StoreKept /\ LateKept /\ (pc[s] # "off" => Late(s)') /\ pc[s] # "off"
  BY <1>3 DEF SafeStep, IInv, AttemptOK, LateKept, ReadKey, AcquireKey, AcquireSlot, LoopCancelled,
              Recorded, Unlock
<1>5. CASE AcquireKey(s) \/ AcquireSlot(s) \/ Recorded(s)
  <2>1. /\ \/ att' = att \/ (\E err \in Outcomes : att' = [att EXCEPT ![s].err = err])
        /\ \E p \in {"slot", "claim", "unlock"} : pc' = [pc EXCEPT ![s] = p]
    BY <1>5 DEF AcquireKey, AcquireSlot, Recorded, Return, Outcomes
  <2>2. \A r \in Sessions : AttemptOKNext(r)
    BY <1>4, <2>1, OwnKept
  <2> QED
    BY <1>1, <1>3, <2>2, Conclude
<1>6. CASE ReadKey(s) \/ LoopCancelled(s) \/ Unlock(s)
  <2>1. PICK a, p : /\ att' = [att EXCEPT ![s] = a] /\ pc' = [pc EXCEPT ![s] = p]
                    /\ \/ a = [Idle EXCEPT !.key = mem[s].key, !.dest = mem[s].key]
                       \/ a = Idle \/ a = [Idle EXCEPT !.err = att[s].err]
                    /\ p \in {"lock", "off", "outcome"}
    BY <1>6 DEF ReadKey, LoopCancelled, Unlock
  <2>2. /\ a.group = {} /\ a.add = {} /\ a.done = {} /\ a.remote = Absent
        /\ a.todo = {} /\ a.cur = Nobody
    <3>1. CASE a = [Idle EXCEPT !.key = mem[s].key, !.dest = mem[s].key]
      BY <3>1, IdleType DEF Idle, Attempts
    <3>2. CASE a = Idle
      BY <3>2 DEF Idle
    <3>3. CASE a = [Idle EXCEPT !.err = att[s].err]
      BY <3>3, IdleType DEF Idle, Attempts
    <3> QED
      BY <2>1, <3>1, <3>2, <3>3
  <2>3. att'[s] = a /\ pc'[s] = p
    BY <1>1, <2>1 DEF TypeOK
  <2>4. AttemptOKNext(s)
    BY <1>4, <2>1, <2>2, <2>3, IdleOK
  <2>5. \A r \in Sessions : AttemptOKNext(r)
    BY <1>4, <2>1, <2>4, OthersKept
  <2> QED
    BY <1>1, <1>3, <2>5, Conclude
<1> QED
  BY <1>5, <1>6


LEMMA ClaimInv == ASSUME IInv, NEW s \in Sessions, ClaimGroup(s) PROVE IInv'
<1>1. TypeOK /\ TypeOK' /\ pc[s] # "off" /\ AttemptOK(s)
  BY ClaimType DEF IInv, ClaimGroup
<1>2. UNCHANGED <<file, bucket, inflight>> /\ LateOK'
  BY LateUnchanged DEF IInv, ClaimGroup, storeVars
<1>3. CASE /\ UNCHANGED mem
           /\ UNCHANGED disk \/ Save({s})
           /\ \E err \in {"nil", "again", "deferred"} : Return(s, err)
  <2>1. \A x \in Sessions : disk'[x] = disk[x] \/ disk'[x] = mem'[x]
    BY <1>1, <1>3, SaveType DEF TypeOK
  <2>2. SafeStep
    BY <1>2, <1>3, <2>1, SafeSaves
  <2>3. \A r \in Sessions : AttemptOKNext(r)
    BY <1>1, <1>3, <2>2, OwnKept DEF SafeStep, Return, Outcomes
  <2> QED
    BY <1>1, <1>2, <2>2, <2>3, Conclude
<1>4. CASE /\ mem' = SetState(Group(att[s].key), "uploading")
           /\ Save(Group(att[s].key))
           /\ att' = [att EXCEPT ![s].group = Group(att[s].key)]
           /\ pc' = [pc EXCEPT ![s] = "examine"]
  <2> DEFINE g == Group(att[s].key)
  <2>1. g \subseteq Sessions /\ \A x \in g : Late(x)
    BY DEF Group, Late, Early
  <2>2. \A x \in Sessions : mem'[x] = mem[x] \/ (Late(x) /\ Late(x)' /\ mem'[x].state # "uploaded")
    BY <1>1, <1>4, <2>1, SetStateStep DEF SessionStates, Early
  <2>3. \A x \in Sessions : disk'[x] = disk[x] \/ disk'[x] = mem'[x]
    BY <1>1, <1>4, <2>1, SaveType DEF TypeOK
  <2>4. SafeStep
    BY <1>2, <2>2, <2>3, SafeSaves
  <2>5. LateKept /\ StoreKept
    BY <2>4 DEF SafeStep
  <2>6. AttemptOKNext(s)
    <3>1. att[s] \in Attempts /\ att'[s] = [att[s] EXCEPT !.group = g] /\ pc'[s] = "examine"
      BY <1>1, <1>4 DEF TypeOK
    <3>2. /\ att'[s].group = g /\ att'[s].add = att[s].add /\ att'[s].done = att[s].done
          /\ att'[s].remote = att[s].remote /\ att'[s].todo = att[s].todo
          /\ att'[s].dest = att[s].dest /\ att'[s].cur = att[s].cur
      BY <3>1 DEF Attempts
    <3>3. /\ att[s].add \cup att[s].done \subseteq Sessions /\ att[s].todo \subseteq Sessions
          /\ att[s].dest \in Keys /\ att[s].cur \in Sessions \cup {Nobody}
      BY <3>1 DEF Attempts
    <3>4. Late(s)' /\ \A x \in g \cup att[s].add \cup att[s].done : Late(x)'
      BY <1>1, <2>1, <2>5, <3>3 DEF AttemptOK, LateKept
    <3>5. (\A x \in att[s].todo : StoredAtNext(x, att[s].dest)) /\ (att[s].cur # Nobody => StoredNext(att[s].cur))
      BY <1>1, <2>5, <3>3, StoredStays DEF AttemptOK, StoreKept
    <3>6. att[s].done \subseteq Listed(att[s].remote) /\ att[s].remote.by \in {"none", "us"}
      BY <1>1 DEF AttemptOK
    <3> HIDE DEF g
    <3> QED
      BY <3>1, <3>2, <3>4, <3>5, <3>6 DEF AttemptOKNext
  <2>7. \A r \in Sessions : AttemptOKNext(r)
    <3>1. att' = [att EXCEPT ![s] = [att[s] EXCEPT !.group = g]]
      BY <1>1, <1>4 DEF TypeOK
    <3> QED
      BY <1>4, <2>5, <2>6, <3>1, OthersKept
  <2> QED
    BY <1>1, <1>2, <2>4, <2>7, Conclude
<1> QED
  BY <1>3, <1>4 DEF ClaimGroup


LEMMA ExamineInv == ASSUME IInv, NEW s \in Sessions, Examine(s) PROVE IInv'
<1> DEFINE g == att[s].group
           o == bucket[att[s].key]
<1>1. TypeOK /\ TypeOK' /\ pc[s] # "off" /\ AttemptOK(s)
  BY ExamineType DEF IInv, Examine
<1>2. UNCHANGED <<file, bucket, inflight>> /\ LateOK' /\ StoreKept
  BY LateUnchanged, StoreUnchanged DEF IInv, Examine, storeVars
<1>3. att[s] \in Attempts /\ att[s].key \in Keys /\ g \subseteq Sessions
  BY <1>1 DEF TypeOK, Attempts
<1>4. ASSUME NEW F \in SUBSET g, RenameGroup(s, F) \/ \E err \in {"nil", "permanent"} : FailThenReturn(s, F, err)
      PROVE  IInv'
  BY <1>1, <1>2, <1>4, RenameStep, FailStep, Conclude DEF Outcomes
<1>5. ASSUME NEW F \in SUBSET g, CompleteGroup(s, Done(g, o), att[s].key, F)
      PROVE  IInv'
  <2>1. Done(g, o) \subseteq g /\ Done(g, o) \subseteq Listed(o)
    BY Splits
  <2>2. \A x \in Done(g, o) : StoredAtNext(x, att[s].key)
    BY <1>2, <2>1 DEF Listed, StoredAtNext
  <2>3. SafeStep /\ \A r \in Sessions : AttemptOKNext(r)
    BY <1>1, <1>2, <1>3, <1>5, <2>1, <2>2, CompleteStep
  <2> QED
    BY <1>1, <1>2, <2>3, Conclude
<1>6. ASSUME NEW F \in SUBSET g, NEW add \in SUBSET g, o.by \in {"none", "us"},
             mem' = SetState(F, "failed"), Save(F \cup add),
             att' = [att EXCEPT ![s].add = add, ![s].done = Done(g, o), ![s].remote = o],
             pc' = [pc EXCEPT ![s] = "build"]
      PROVE  IInv'
  <2>1. F \subseteq Sessions /\ add \subseteq Sessions /\ \A x \in g : Late(x)
    BY <1>1, <1>3 DEF AttemptOK
  <2>2. \A x \in Sessions : mem'[x] = mem[x] \/ (Late(x) /\ Late(x)' /\ mem'[x].state # "uploaded")
    BY <1>1, <1>6, <2>1, SetStateStep DEF SessionStates, Early
  <2>3. \A x \in Sessions : disk'[x] = disk[x] \/ disk'[x] = mem'[x]
    BY <1>1, <1>6, <2>1, SaveType DEF TypeOK
  <2>4. SafeStep
    BY <1>2, <2>2, <2>3, SafeSaves
  <2>5. att' = [att EXCEPT ![s] = [att[s] EXCEPT !.add = add, !.done = Done(g, o), !.remote = o]]
    BY <1>1, <1>6 DEF TypeOK
  <2>6. AttemptOKNext(s)
    <3>1. att'[s] = [att[s] EXCEPT !.add = add, !.done = Done(g, o), !.remote = o] /\ pc'[s] = "build"
      BY <1>1, <1>6, <2>5 DEF TypeOK
    <3>2. /\ att'[s].group = g /\ att'[s].add = add /\ att'[s].done = Done(g, o)
          /\ att'[s].remote = o /\ att'[s].todo = att[s].todo
          /\ att'[s].dest = att[s].dest /\ att'[s].cur = att[s].cur
      BY <1>3, <3>1 DEF Attempts
    <3>3. /\ att[s].todo \subseteq Sessions
          /\ att[s].dest \in Keys /\ att[s].cur \in Sessions \cup {Nobody}
      BY <1>3 DEF Attempts
    <3>4. Done(g, o) \subseteq g /\ Done(g, o) \subseteq Listed(o)
      BY Splits
    <3>5. Late(s)' /\ \A x \in g \cup add \cup Done(g, o) : Late(x)'
      BY <1>1, <1>3, <2>1, <2>4, <3>4 DEF SafeStep, AttemptOK, LateKept
    <3>6. (\A x \in att[s].todo : StoredAtNext(x, att[s].dest)) /\ (att[s].cur # Nobody => StoredNext(att[s].cur))
      BY <1>1, <1>2, <3>3, StoredStays DEF AttemptOK, StoreKept
    <3> HIDE DEF g, o
    <3> QED
      BY <1>6, <3>1, <3>2, <3>4, <3>5, <3>6 DEF AttemptOKNext
  <2>7. \A r \in Sessions : AttemptOKNext(r)
    BY <1>6, <2>4, <2>5, <2>6, OthersKept DEF SafeStep
  <2> QED
    BY <1>1, <1>2, <2>4, <2>7, Conclude
<1> QED
  BY <1>4, <1>5, <1>6, ExamineShape DEF ExamineSteps

LEMMA BuildInv ==
  ASSUME IInv, NEW s \in Sessions, AttemptError(s) \/ Build(s) \/ RemuxFails(s)
  PROVE  IInv'
<1>1. TypeOK /\ TypeOK' /\ pc[s] # "off" /\ AttemptOK(s)
  BY BuildType DEF IInv, AttemptError, Build, RemuxFails
<1>2. UNCHANGED <<file, bucket, inflight>> /\ LateOK' /\ StoreKept
  BY LateUnchanged, StoreUnchanged DEF IInv, AttemptError, Build, RemuxFails, storeVars
<1>3. CASE AttemptError(s)
  <2>1. PICK F \in SUBSET att[s].group : FailThenReturn(s, F, "retry")
    BY <1>3, Splits DEF AttemptError
  <2> QED
    BY <1>1, <1>2, <2>1, FailStep, Conclude DEF Outcomes
<1>4. CASE RenameGroup(s, {})
  BY <1>1, <1>2, <1>4, RenameStep, Conclude
<1>5. CASE /\ UNCHANGED <<mem, disk>>
           /\ \/ Return(s, "again") \/ Return(s, "retry")
              \/ pc' = [pc EXCEPT ![s] = "put"] /\ UNCHANGED att
  <2>1. SafeStep
    BY <1>2, <1>5, SafeSaves
  <2>2. \A r \in Sessions : AttemptOKNext(r)
    BY <1>1, <1>5, <2>1, OwnKept DEF SafeStep, Return, Outcomes
  <2> QED
    BY <1>1, <1>2, <2>1, <2>2, Conclude
<1>6. CASE /\ att[s].remote = Absent /\ pc' = [pc EXCEPT ![s] = "fbhead"]
           /\ UNCHANGED <<mem, disk, att>>
  <2>1. SafeStep
    BY <1>2, <1>6, SafeSaves
  <2>2. ASSUME NEW r \in Sessions, r # s PROVE AttemptOKNext(r)
    BY <1>1, <1>6, <2>1, <2>2, AttemptKept DEF TypeOK, IInv, SafeStep
  <2>3. AttemptOKNext(s)
    <3>1. pc'[s] = "fbhead" /\ att'[s] = att[s] /\ Late(s)' /\ att[s] \in Attempts
      BY <1>1, <1>6, <2>1 DEF TypeOK, AttemptOK, SafeStep, LateKept
    <3>2. /\ att[s].group \cup att[s].add \cup att[s].done \subseteq Sessions /\ att[s].todo \subseteq Sessions
          /\ att[s].dest \in Keys /\ att[s].cur \in Sessions \cup {Nobody}
      BY <3>1 DEF Attempts
    <3> QED
      BY <1>1, <1>6, <2>1, <3>1, <3>2, StoredStays DEF AttemptOK, AttemptOKNext, SafeStep, LateKept, StoreKept
  <2> QED
    BY <1>1, <1>2, <2>1, <2>2, <2>3, Conclude
<1> QED
  BY <1>3, <1>4, <1>5, <1>6 DEF Build, RemuxFails


\* A merge appends: the object built holds what the old one held, and the new
\* sessions.
LEMMA HeldBuilt ==
  ASSUME NEW o \in Objects, NEW S \in SUBSET Sessions
  PROVE  Built(o, S).by = "us" /\ Held(Built(o, S)) = Held(o) \cup S
<1> DEFINE p == o.parts
           q == Append(p, S)
<1>1. p \in Seq(SUBSET Sessions)
  BY DEF Objects
<1>2. /\ DOMAIN q = 1 .. Len(p) + 1 /\ DOMAIN p = 1 .. Len(p) /\ Len(p) \in Nat
      /\ \A i \in DOMAIN p : q[i] = p[i]
      /\ q[Len(p) + 1] = S
  BY <1>1
<1> HIDE DEF p, q
<1>3. UNION {q[i] : i \in DOMAIN q} = (UNION {p[i] : i \in DOMAIN p}) \cup S
  <2>1. ASSUME NEW x \in UNION {q[i] : i \in DOMAIN q} PROVE x \in (UNION {p[i] : i \in DOMAIN p}) \cup S
    BY <1>2
  <2>2. ASSUME NEW x \in UNION {p[i] : i \in DOMAIN p} PROVE x \in UNION {q[i] : i \in DOMAIN q}
    <3>1. PICK i \in DOMAIN p : x \in p[i]
      OBVIOUS
    <3> QED
      BY <1>2, <3>1
  <2>3. ASSUME NEW x \in S PROVE x \in UNION {q[i] : i \in DOMAIN q}
    <3>1. Len(p) + 1 \in DOMAIN q
      BY <1>2
    <3> QED
      BY <1>2, <2>3, <3>1
  <2> QED
    BY <2>1, <2>2, <2>3
<1> QED
  BY <1>3 DEF Held, Built, p, q

\* A PUT whose precondition holds keeps every part, and its object holds the
\* attempt's sessions.
LEMMA Replaced ==
  ASSUME TypeOK, NEW k \in Keys, NEW remote \in Objects, NEW o \in Objects,
         remote.by \in {"none", "us"}, o.by = "us", Held(remote) \subseteq Held(o),
         bucket[k] = remote, bucket' = [bucket EXCEPT ![k] = o]
  PROVE  /\ StoreKept /\ bucket'[k] = o
         /\ \A j \in Keys : Held(bucket[j]) \subseteq Held(bucket'[j])
         /\ \A j \in Keys : bucket[j].by = "us" => bucket'[j].by = "us"
         /\ \A j \in Keys : bucket[j].by \in {"foreign", "corrupt"} => bucket'[j] = bucket[j]
<1>1. bucket[k] = remote /\ bucket'[k] = o /\ \A j \in Keys : j # k => bucket'[j] = bucket[j]
  BY DEF TypeOK
<1> QED
  BY <1>1 DEF StoreKept, StoredAt, StoredAtNext

LEMMA PutObjectStep ==
  ASSUME IInv, TypeOK', NEW s \in Sessions, pc[s] # "off",
         NEW k \in Keys, NEW remote \in Objects, Checked(k, remote), remote.by \in {"none", "us"},
         att[s].done \subseteq Listed(remote),
         PutObject(s, k, remote, Built(remote, att[s].add)), UNCHANGED file
  PROVE  SafeStep /\ LateOK' /\ \A r \in Sessions : AttemptOKNext(r)
<1> DEFINE o == Built(remote, att[s].add)
<1>1. att[s].add \in SUBSET Sessions /\ att[s].done \subseteq Sessions
  BY DEF IInv, TypeOK, Attempts
<1>2. o \in Objects /\ o.by = "us" /\ Held(o) = Held(remote) \cup att[s].add
  BY <1>1, HeldBuilt, ObjectTypes
<1>3. \A x \in att[s].add \cup att[s].done : x \in Held(o)
  BY <1>2 DEF Listed
<1>4. inflight' = inflight /\ LateOK'
  BY LateUnchanged DEF PutObject, storeVars, IInv
<1> HIDE DEF o
<1>5. CASE /\ StoreKept /\ bucket'[k] = o
           /\ CompleteGroup(s, att[s].add \cup att[s].done, k, {})
  <2>1. \A x \in att[s].add \cup att[s].done : StoredAtNext(x, k)
    BY <1>2, <1>3, <1>5 DEF StoredAtNext
  <2> QED
    BY <1>4, <1>5, <2>1, CompleteStep
<1>6. CASE Return(s, "again") /\ UNCHANGED <<mem, disk, bucket>>
  <2>1. SafeStep
    BY <1>6, SafeSaves
  <2>2. \A r \in Sessions : AttemptOKNext(r)
    BY <1>6, <2>1, OwnKept DEF SafeStep, Return, Outcomes
  <2> QED
    BY <1>4, <2>1, <2>2
<1>7. CASE MayPut(k, remote) /\ bucket' = [bucket EXCEPT ![k] = o] /\ CompleteGroup(s, att[s].add \cup att[s].done, k, {})
  BY <1>2, <1>5, <1>7, Replaced DEF IInv, Checked
<1>8. CASE bucket[k] = o /\ UNCHANGED bucket /\ CompleteGroup(s, att[s].add \cup att[s].done, k, {})
  BY <1>5, <1>8, StoreUnchanged
<1> QED
  BY <1>6, <1>7, <1>8 DEF PutObject, storeVars, o

LEMMA PutFailsStep ==
  ASSUME IInv, TypeOK', NEW s \in Sessions, pc[s] # "off",
         NEW k \in Keys, NEW remote \in Objects, Checked(k, remote), remote.by \in {"none", "us"},
         PutFails(s, k, remote, Built(remote, att[s].add)), UNCHANGED file
  PROVE  SafeStep /\ LateOK' /\ \A r \in Sessions : AttemptOKNext(r)
<1> DEFINE o == Built(remote, att[s].add)
<1>1. att[s].add \in SUBSET Sessions
  BY DEF IInv, TypeOK, Attempts
<1>2. o \in Objects /\ o.by = "us" /\ Held(remote) \subseteq Held(o)
  BY <1>1, HeldBuilt, ObjectTypes
<1> HIDE DEF o
<1>3. /\ UNCHANGED <<mem, disk>> /\ Return(s, "retry")
      /\ \/ MayPut(k, remote) /\ bucket' = [bucket EXCEPT ![k] = o] /\ inflight' = inflight
         \/ bucket' = bucket /\ inflight' = inflight
         \/ bucket' = bucket /\ inflight' = inflight \cup {[key |-> k, remote |-> remote, obj |-> o]}
  BY DEF PutFails, storeVars, o
<1>4. LateOK'
  BY <1>2, <1>3 DEF LateOK, IInv
<1>5. StoreKept
  BY <1>2, <1>3, Replaced, StoreUnchanged DEF IInv, Checked
<1>6. LateKept
  BY <1>3 DEF LateKept, Late
<1>7. SafeStep
  BY <1>3, <1>5, <1>6 DEF SafeStep, MemStep, DiskStep, FileStep, Late
<1>8. \A r \in Sessions : AttemptOKNext(r)
  BY <1>3, <1>5, <1>6, OwnKept DEF Return, Outcomes
<1> QED
  BY <1>4, <1>7, <1>8

LEMMA PutInv ==
  ASSUME IInv, Preconditions, NEW s \in Sessions,
         Put(s) \/ PutError(s) \/ FallbackHead(s) \/ FallbackPut(s) \/ FallbackPutError(s)
  PROVE  IInv'
<1>1. TypeOK /\ TypeOK' /\ pc[s] # "off" /\ AttemptOK(s) /\ UNCHANGED file
  BY PutType DEF IInv, Put, PutError, FallbackHead, FallbackPut, FallbackPutError
<1>2. att[s].key \in Keys /\ att[s].remote \in Objects /\ FallbackKey(att[s].key) \in Keys /\ Absent \in Objects
  BY <1>1, KeyTypes, ObjectTypes DEF TypeOK, Attempts
<1>3. att[s].remote.by \in {"none", "us"} /\ att[s].done \subseteq Listed(att[s].remote) /\ Absent.by = "none"
  BY <1>1 DEF AttemptOK, Absent
<1>4. pc[s] \in {"fbhead", "fbput"} => att[s].remote = Absent
  BY <1>1 DEF AttemptOK
<1>5. CASE Put(s)
  BY <1>1, <1>2, <1>3, <1>5, PutObjectStep, Conclude DEF Put, Preconditions
<1>6. CASE PutError(s)
  BY <1>1, <1>2, <1>3, <1>6, PutFailsStep, Conclude DEF PutError, Preconditions
<1>7. CASE FallbackPut(s)
  BY <1>1, <1>2, <1>3, <1>4, <1>7, PutObjectStep, Conclude DEF FallbackPut, Preconditions
<1>8. CASE FallbackPutError(s)
  BY <1>1, <1>2, <1>3, <1>4, <1>8, PutFailsStep, Conclude DEF FallbackPutError, Preconditions
<1>9. CASE FallbackHead(s)
  <2> DEFINE k == FallbackKey(att[s].key)
  <2>1. LateOK' /\ StoreKept /\ UNCHANGED bucket
    BY <1>9, LateUnchanged, StoreUnchanged DEF FallbackHead, storeVars, IInv
  <2>2. att[s].done = {} /\ att[s].remote = Absent
    BY <1>3, <1>4, <1>9 DEF FallbackHead, Listed, Absent
  <2>3. CASE RenameGroup(s, {})
    BY <1>1, <2>1, <2>3, RenameStep, Conclude
  <2>4. CASE /\ bucket[k].by = "us" /\ att[s].add \subseteq Held(bucket[k])
             /\ CompleteGroup(s, att[s].add \cup att[s].done, k, {})
    <3>1. \A x \in att[s].add \cup att[s].done : StoredAtNext(x, k)
      BY <2>1, <2>2, <2>4 DEF StoredAtNext
    <3> QED
      BY <1>1, <1>2, <2>1, <2>4, <3>1, CompleteStep, Conclude
  <2>5. CASE pc' = [pc EXCEPT ![s] = "fbput"] /\ UNCHANGED <<mem, disk, att>>
    <3>1. SafeStep
      BY <1>1, <2>1, <2>5, SafeSaves
    <3>2. ASSUME NEW r \in Sessions, r # s PROVE AttemptOKNext(r)
      BY <1>1, <2>5, <3>1, <3>2, AttemptKept DEF TypeOK, IInv, SafeStep
    <3>3. AttemptOKNext(s)
      <4>1. pc'[s] = "fbput" /\ att'[s] = att[s] /\ Late(s)' /\ att[s] \in Attempts
        BY <1>1, <2>5, <3>1 DEF TypeOK, AttemptOK, SafeStep, LateKept
      <4>2. /\ att[s].group \cup att[s].add \cup att[s].done \subseteq Sessions /\ att[s].todo \subseteq Sessions
            /\ att[s].dest \in Keys /\ att[s].cur \in Sessions \cup {Nobody}
        BY <4>1 DEF Attempts
      <4> QED
        BY <1>1, <2>2, <3>1, <4>1, <4>2, StoredStays DEF AttemptOK, AttemptOKNext, SafeStep, LateKept, StoreKept
    <3> QED
      BY <1>1, <2>1, <3>1, <3>2, <3>3, Conclude
  <2> QED
    BY <1>9, <2>3, <2>4, <2>5 DEF FallbackHead
<1> QED
  BY <1>5, <1>6, <1>7, <1>8, <1>9


LEMMA RecordInv ==
  ASSUME IInv, NEW s \in Sessions, RecordUpload(s) \/ RemoveCapture(s)
  PROVE  IInv'
<1>1. TypeOK /\ TypeOK' /\ AttemptOK(s) /\ att[s] \in Attempts
  BY RecordType DEF IInv, TypeOK
<1>2. UNCHANGED <<mem, bucket, inflight>> /\ StoreKept /\ LateKept /\ LateOK'
  BY StoreUnchanged, LateUnchanged DEF IInv, RecordUpload, RemoveCapture, storeVars, LateKept, Late
<1>3. /\ att[s].group \cup att[s].add \cup att[s].done \subseteq Sessions /\ att[s].todo \subseteq Sessions
      /\ att[s].dest \in Keys /\ att[s].cur \in Sessions \cup {Nobody}
  BY <1>1 DEF Attempts
<1>4. /\ Late(s)' /\ \A x \in att[s].group \cup att[s].add \cup att[s].done : Late(x)'
      /\ att[s].done \subseteq Listed(att[s].remote) /\ att[s].remote.by \in {"none", "us"}
      /\ \A x \in att[s].todo : StoredAtNext(x, att[s].dest)
      /\ att[s].cur # Nobody => StoredNext(att[s].cur)
  BY <1>1, <1>2, <1>3, StoredStays DEF AttemptOK, LateKept, StoreKept, RecordUpload, RemoveCapture
<1>5. ASSUME RecordUpload(s) PROVE SafeStep /\ \A r \in Sessions : AttemptOKNext(r)
  <2>1. PICK x \in att[s].todo :
          \/ /\ disk' = [disk EXCEPT ![x] = [state |-> "uploaded", key |-> att[s].dest,
                                             renames |-> mem[x].renames]]
             /\ att' = [att EXCEPT ![s].todo = @ \ {x}, ![s].cur = x]
             /\ pc' = [pc EXCEPT ![s] = "remove"]
          \/ /\ att' = [att EXCEPT ![s].todo = @ \ {x}, ![s].lost = TRUE]
             /\ UNCHANGED <<disk, pc>>
    BY <1>5 DEF RecordUpload
  <2>2. x \in Sessions /\ x # Nobody /\ StoredAtNext(x, att[s].dest) /\ StoredNext(x)
    BY <1>3, <1>4, SessionsAssumption DEF StoredNext
  <2>3. \A y \in Sessions : disk'[y] = disk[y] \/ StoredAtNext(y, disk'[y].key)
    BY <1>1, <2>1, <2>2 DEF TypeOK
  <2>4. SafeStep
    BY <1>2, <1>5, <2>3 DEF RecordUpload, SafeStep, MemStep, DiskStep, FileStep, Late
  <2>5. CASE /\ att' = [att EXCEPT ![s].todo = @ \ {x}, ![s].cur = x]
             /\ pc' = [pc EXCEPT ![s] = "remove"]
    <3>1. att' = [att EXCEPT ![s] = [att[s] EXCEPT !.todo = att[s].todo \ {x}, !.cur = x]]
      BY <1>1, <2>5 DEF TypeOK
    <3>2. /\ att'[s].group = att[s].group /\ att'[s].add = att[s].add /\ att'[s].done = att[s].done
          /\ att'[s].remote = att[s].remote /\ att'[s].todo = att[s].todo \ {x}
          /\ att'[s].dest = att[s].dest /\ att'[s].cur = x /\ pc'[s] = "remove"
      BY <1>1, <2>5, <3>1 DEF TypeOK, Attempts
    <3>3. AttemptOKNext(s)
      BY <1>4, <2>2, <3>2 DEF AttemptOKNext
    <3> QED
      BY <1>2, <2>4, <2>5, <3>1, <3>3, OthersKept
  <2>6. CASE /\ att' = [att EXCEPT ![s].todo = @ \ {x}, ![s].lost = TRUE]
             /\ UNCHANGED pc
    <3>1. att' = [att EXCEPT ![s] = [att[s] EXCEPT !.todo = att[s].todo \ {x}, !.lost = TRUE]]
      BY <1>1, <2>6 DEF TypeOK
    <3>2. /\ att'[s].group = att[s].group /\ att'[s].add = att[s].add /\ att'[s].done = att[s].done
          /\ att'[s].remote = att[s].remote /\ att'[s].todo = att[s].todo \ {x}
          /\ att'[s].dest = att[s].dest /\ att'[s].cur = att[s].cur
      BY <1>1, <3>1 DEF TypeOK, Attempts
    <3>3. pc[s] = "record" /\ pc'[s] = "record" /\ pc' = [pc EXCEPT ![s] = "record"]
      BY <1>1, <1>5, <2>6 DEF RecordUpload, TypeOK
    <3>4. AttemptOKNext(s)
      BY <1>4, <3>2, <3>3 DEF AttemptOKNext
    <3> QED
      BY <1>2, <2>4, <3>1, <3>3, <3>4, OthersKept
  <2> QED
    BY <2>1, <2>5, <2>6
<1>6. ASSUME RemoveCapture(s) PROVE SafeStep /\ \A r \in Sessions : AttemptOKNext(r)
  <2>1. StoredNext(att[s].cur)
    BY <1>1, <1>4, <1>6 DEF RemoveCapture, AttemptOK
  <2>2. \A x \in Sessions : file'[x] = file[x] \/ StoredNext(x)
    BY <1>1, <1>6, <2>1 DEF RemoveCapture, TypeOK
  <2>3. SafeStep
    BY <1>2, <1>6, <2>2 DEF RemoveCapture, SafeStep, MemStep, DiskStep, FileStep, Late
  <2>4. att' = [att EXCEPT ![s] = [att[s] EXCEPT !.cur = Nobody]] /\ pc' = [pc EXCEPT ![s] = "record"]
    BY <1>1, <1>6 DEF RemoveCapture, TypeOK
  <2>5. /\ att'[s].group = att[s].group /\ att'[s].add = att[s].add /\ att'[s].done = att[s].done
        /\ att'[s].remote = att[s].remote /\ att'[s].todo = att[s].todo
        /\ att'[s].dest = att[s].dest /\ att'[s].cur = Nobody /\ pc'[s] = "record"
    BY <1>1, <2>4 DEF TypeOK, Attempts
  <2>6. AttemptOKNext(s)
    BY <1>4, <2>5 DEF AttemptOKNext
  <2>7. \A r \in Sessions : AttemptOKNext(r)
    BY <1>2, <2>4, <2>6, OthersKept
  <2> QED
    BY <2>3, <2>7
<1> QED
  BY <1>1, <1>2, <1>5, <1>6, Conclude

LEMMA OutcomeInv == ASSUME IInv, NEW s \in Sessions, Outcome(s) PROVE IInv'
<1>1. TypeOK /\ TypeOK' /\ Late(s)
  BY OutcomeType DEF IInv, Outcome, AttemptOK
<1>2. UNCHANGED <<file, bucket, inflight>> /\ LateOK'
  BY LateUnchanged DEF IInv, Outcome, storeVars
<1>3. \/ UNCHANGED <<mem, disk>>
      \/ mem' = [mem EXCEPT ![s].state = "finalized"] /\ Save({s})
  BY DEF Outcome
<1>4. \A x \in Sessions : mem'[x] = mem[x] \/ (Late(x) /\ Late(x)' /\ mem'[x].state # "uploaded")
  BY <1>1, <1>3 DEF TypeOK, SessionRecords, Late, Early
<1>5. \A x \in Sessions : disk'[x] = disk[x] \/ disk'[x] = mem'[x]
  BY <1>1, <1>3, SaveType DEF TypeOK
<1>6. SafeStep
  BY <1>2, <1>4, <1>5, SafeSaves
<1>7. att' = [att EXCEPT ![s] = Idle] /\ \E p \in {"off", "start"} : pc' = [pc EXCEPT ![s] = p]
  BY DEF Outcome, LoopEnds, LoopRepeats
<1>8. AttemptOKNext(s)
  <2>1. att'[s] = Idle /\ pc'[s] \in {"off", "start"} /\ Late(s)'
    BY <1>1, <1>6, <1>7 DEF TypeOK, SafeStep, LateKept
  <2> QED
    BY <2>1, IdleOK DEF Idle
<1>9. \A r \in Sessions : AttemptOKNext(r)
  BY <1>6, <1>7, <1>8, OthersKept DEF SafeStep
<1> QED
  BY <1>1, <1>2, <1>6, <1>9, Conclude

LEMMA ProcessInv ==
  ASSUME IInv, Shutdown \/ CancelUploads
  PROVE  IInv'
<1>1. TypeOK /\ TypeOK' /\ LateOK' /\ UNCHANGED <<mem, disk, file, bucket, pc, att>>
  BY ProcessType, LateUnchanged DEF IInv, Shutdown, CancelUploads, storeVars
<1>2. SafeStep
  BY <1>1, SafeSaves
<1>3. \A r \in Sessions : AttemptOKNext(r)
  BY <1>1, <1>2, AttemptKept DEF IInv, SafeStep
<1> QED
  BY <1>1, <1>2, <1>3, Conclude

\* A restart reads memory back from the sidecars: what they say was right.
LEMMA RestartInv == ASSUME IInv, Restart PROVE IInv'
<1>1. TypeOK /\ TypeOK' /\ AudioSafe /\ UploadedIsStored
  BY ProcessType DEF IInv
<1>2. UNCHANGED bucket /\ LateOK' /\ StoreKept
  BY LateUnchanged, StoreUnchanged DEF IInv, Restart, storeVars
<1>3. PICK lender \in [Sessions -> Sessions \cup {Nobody}] :
        /\ mem' = [s \in Sessions |-> [Migrated(s, lender[s]) EXCEPT !.state = RecoveredState(s)]]
        /\ disk' = [s \in Sessions |-> IF Superseded(s) THEN mem'[s] ELSE Migrated(s, lender[s])]
  BY DEF Restart
<1>4. ASSUME NEW s \in Sessions
      PROVE  /\ mem'[s].state = RecoveredState(s) /\ mem'[s].key = Migrated(s, lender[s]).key
             /\ Migrated(s, lender[s]).state = disk[s].state
             /\ disk[s].state \in Terminal => Migrated(s, lender[s]) = disk[s]
             /\ file'[s] = IF Superseded(s) THEN Kind[s] ELSE file[s]
             /\ pc'[s] = IF RecoveredState(s) = "finalized" THEN "start" ELSE "off"
             /\ att'[s] = Idle
  <2>1. disk[s] \in SessionRecords
    BY <1>1 DEF TypeOK
  <2>2. Migrated(s, lender[s]).state = disk[s].state /\ (disk[s].state \in Terminal => Migrated(s, lender[s]) = disk[s])
    BY <2>1 DEF Migrated, SessionRecords
  <2>3. \E S, K, N : Migrated(s, lender[s]) = [state |-> S, key |-> K, renames |-> N]
    BY <2>1 DEF Migrated, SessionRecords
  <2>4. mem'[s] = [Migrated(s, lender[s]) EXCEPT !.state = RecoveredState(s)]
    BY <1>3
  <2>5. mem'[s].state = RecoveredState(s) /\ mem'[s].key = Migrated(s, lender[s]).key
    BY <2>3, <2>4
  <2> QED
    BY <2>2, <2>5 DEF Restart
<1>5. ASSUME NEW s \in Sessions
      PROVE  /\ Superseded(s) => disk[s].state = "recording" /\ RecoveredState(s) = "finalized"
             /\ RecoveredState(s) = "uploaded" => disk[s].state = "uploaded"
             /\ RecoveredState(s) \notin Early => disk[s].state \notin Early \/ Superseded(s)
  BY DEF RecoveredState, Superseded, Early
<1>6. MemoryRight' /\ UploadedIsStored'
  <2>1. ASSUME NEW s \in Sessions, mem'[s].state = "uploaded" PROVE StoredAtNext(s, mem'[s].key)
    <3>1. disk[s].state = "uploaded" /\ mem'[s].key = disk[s].key
      BY <1>4, <1>5, <2>1 DEF Terminal
    <3> QED
      BY <1>1, <1>2, <3>1 DEF UploadedIsStored, StoreKept, TypeOK, SessionRecords
  <2>2. ASSUME NEW s \in Sessions, disk'[s].state = "uploaded" PROVE StoredAtNext(s, disk'[s].key)
    <3>1. ~Superseded(s)
      BY <1>3, <1>4, <1>5, <2>2
    <3>2. disk'[s] = disk[s]
      BY <1>3, <1>4, <2>2, <3>1 DEF Terminal
    <3> QED
      BY <1>1, <1>2, <2>2, <3>2 DEF UploadedIsStored, StoreKept, TypeOK, SessionRecords
  <2> QED
    BY <2>1, <2>2 DEF MemoryRight, UploadedIsStored, StoredAt, StoredAtNext
<1>7. ASSUME NEW s \in Sessions, Kind[s] = "audio", disk[s].state \notin Early \/ Superseded(s)
      PROVE  file'[s] = "audio" \/ StoredNext(s)
  BY <1>1, <1>2, <1>4, <1>7, StoredStays DEF AudioSafe, Early, Superseded
<1>8. MemorySafe' /\ AudioSafe'
  <2>1. ASSUME NEW s \in Sessions, mem'[s].state \notin Early PROVE disk[s].state \notin Early \/ Superseded(s)
    BY <1>4, <1>5, <2>1
  <2>2. ASSUME NEW s \in Sessions, disk'[s].state \notin Early PROVE disk[s].state \notin Early \/ Superseded(s)
    BY <1>3, <1>4, <2>2
  <2> QED
    BY <1>7, <2>1, <2>2, StoredPrimed DEF MemorySafe, AudioSafe, Late, Early
<1>9. ASSUME NEW r \in Sessions PROVE AttemptOKNext(r)
  <2>1. pc'[r] # "off" => Late(r)'
    BY <1>4 DEF Late, Early
  <2> QED
    BY <1>4, <2>1, IdleOK DEF Idle
<1> QED
  BY <1>1, <1>2, <1>6, <1>8, <1>9, AttemptPrimed DEF IInv

LEMMA BucketInv ==
  ASSUME IInv, Preconditions,
         LateLand \/ \E k \in Keys, by \in {"foreign", "corrupt"} : ForeignPut(k, by)
  PROVE  IInv'
<1>1. TypeOK /\ TypeOK' /\ UNCHANGED <<mem, disk, file, pc, att>>
  BY BucketType DEF IInv, LateLand, ForeignPut
<1>2. LateKept
  BY <1>1 DEF LateKept, Late
<1>3. StoreKept /\ LateOK'
  <2>1. CASE LateLand
    <3>1. PICK p \in inflight :
            /\ inflight' = inflight \ {p}
            /\ bucket' = IF MayPut(p.key, p.remote) THEN [bucket EXCEPT ![p.key] = p.obj] ELSE bucket
      BY <2>1 DEF LateLand
    <3>2. p.key \in Keys /\ p.remote \in Objects /\ p.obj \in Objects
      BY <1>1 DEF TypeOK
    <3>3. StoreKept
      BY <1>1, <3>1, <3>2, Replaced, StoreUnchanged DEF IInv, LateOK, Preconditions, Checked
    <3> QED
      BY <3>1, <3>3 DEF IInv, LateOK
  <2>2. CASE \E k \in Keys, by \in {"foreign", "corrupt"} : ForeignPut(k, by)
    <3>1. PICK k \in Keys, by \in {"foreign", "corrupt"} : ForeignPut(k, by)
      BY <2>2
    <3>2. bucket[k].by = "none" /\ \A j \in Keys : j # k => bucket'[j] = bucket[j]
      BY <1>1, <3>1 DEF ForeignPut, Absent, TypeOK
    <3>3. inflight' = inflight
      BY <3>1 DEF ForeignPut
    <3> QED
      BY <3>2, <3>3, LateUnchanged DEF StoreKept, StoredAt, StoredAtNext, IInv
  <2> QED
    BY <2>1, <2>2
<1>4. SafeStep
  BY <1>1, <1>2, <1>3 DEF SafeStep, MemStep, DiskStep, FileStep, Late
<1>5. \A r \in Sessions : AttemptOKNext(r)
  BY <1>1, <1>2, <1>3, AttemptKept DEF IInv
<1> QED
  BY <1>1, <1>3, <1>4, <1>5, Conclude

LEMMA StutterInv == IInv /\ UNCHANGED vars => IInv'
<1> SUFFICES ASSUME IInv, UNCHANGED vars PROVE IInv'
  OBVIOUS
<1>1. TypeOK /\ TypeOK' /\ LateOK' /\ UNCHANGED <<mem, disk, file, bucket, pc, att>>
  BY LateUnchanged DEF IInv, TypeOK, vars, storeVars
<1>2. SafeStep
  BY <1>1, SafeSaves
<1>3. \A r \in Sessions : AttemptOKNext(r)
  BY <1>1, <1>2, AttemptKept DEF IInv, SafeStep
<1> QED
  BY <1>1, <1>2, <1>3, Conclude

LEMMA InitInv == Init => IInv
<1> SUFFICES ASSUME Init PROVE IInv
  OBVIOUS
<1>1. TypeOK
  BY InitType
<1>2. \A s \in Sessions : mem[s].state = "none" /\ disk[s].state = "none" /\ pc[s] = "off" /\ att[s] = Idle
  BY DEF Init
<1>3. AudioSafe /\ UploadedIsStored /\ MemorySafe /\ MemoryRight
  BY <1>2 DEF AudioSafe, UploadedIsStored, MemorySafe, MemoryRight, Late, Early
<1>4. \A s \in Sessions : AttemptOK(s)
  BY <1>2 DEF AttemptOK, Idle, Absent
<1>5. LateOK
  BY DEF Init, LateOK
<1> QED
  BY <1>1, <1>3, <1>4, <1>5 DEF IInv

LEMMA NextInv == ASSUME IInv, Preconditions, [Next]_vars PROVE IInv'
<1>1. ASSUME NEW s \in Sessions, LoopStep(s) PROVE IInv'
  BY <1>1, WaitingInv, ClaimInv, ExamineInv, BuildInv, PutInv, RecordInv, OutcomeInv DEF LoopStep
<1> QED
  BY <1>1, LifecycleInv, ProcessInv, RestartInv, BucketInv, StutterInv DEF Next


\* What any step does to the bucket.
LEMMA BucketStep ==
  ASSUME IInv, Preconditions, [Next]_vars
  PROVE  \A k \in Keys : /\ Held(bucket[k]) \subseteq Held(bucket'[k])
                         /\ bucket[k].by = "us" => bucket'[k].by = "us"
                         /\ bucket[k].by \in {"foreign", "corrupt"} => bucket'[k] = bucket[k]
<1>0. TypeOK /\ Absent \in Objects /\ Absent.by = "none" /\ Held(Absent) = {}
  BY ObjectTypes DEF IInv, Absent, Held
<1>1. CASE UNCHANGED bucket
  BY <1>1
<1>2. ASSUME NEW s \in Sessions, NEW k \in Keys, NEW remote \in Objects, remote.by \in {"none", "us"},
             bucket[k] = remote, bucket' = [bucket EXCEPT ![k] = Built(remote, att[s].add)]
      PROVE  \A j \in Keys : /\ Held(bucket[j]) \subseteq Held(bucket'[j])
                             /\ bucket[j].by = "us" => bucket'[j].by = "us"
                             /\ bucket[j].by \in {"foreign", "corrupt"} => bucket'[j] = bucket[j]
  <2>1. att[s].add \in SUBSET Sessions
    BY <1>0 DEF TypeOK, Attempts
  <2>2. /\ Built(remote, att[s].add) \in Objects /\ Built(remote, att[s].add).by = "us"
        /\ Held(remote) \subseteq Held(Built(remote, att[s].add))
    BY <2>1, HeldBuilt, ObjectTypes
  <2> QED
    BY <1>0, <1>2, <2>2, Replaced
<1>3. ASSUME NEW s \in Sessions, Put(s) \/ PutError(s) \/ FallbackPut(s) \/ FallbackPutError(s)
      PROVE  \/ UNCHANGED bucket
             \/ \E k \in Keys, remote \in Objects :
                  /\ remote.by \in {"none", "us"} /\ bucket[k] = remote
                  /\ bucket' = [bucket EXCEPT ![k] = Built(remote, att[s].add)]
  <2>1. att[s].key \in Keys /\ att[s].remote \in Objects /\ FallbackKey(att[s].key) \in Keys
    BY <1>0, KeyTypes DEF TypeOK, Attempts
  <2>2. att[s].remote.by \in {"none", "us"}
    BY DEF IInv, AttemptOK
  <2> QED
    BY <1>0, <1>3, <2>1, <2>2
    DEF Put, PutError, FallbackPut, FallbackPutError, PutObject, PutFails, storeVars, Preconditions, Checked
<1>4. CASE LateLand
  <2>1. PICK p \in inflight :
          bucket' = IF MayPut(p.key, p.remote) THEN [bucket EXCEPT ![p.key] = p.obj] ELSE bucket
    BY <1>4 DEF LateLand
  <2>2. p.key \in Keys /\ p.remote \in Objects /\ p.obj \in Objects
    BY <1>0 DEF TypeOK
  <2> QED
    BY <1>0, <2>1, <2>2, Replaced DEF IInv, LateOK, Preconditions, Checked
<1>5. CASE \E k \in Keys, by \in {"foreign", "corrupt"} : ForeignPut(k, by)
  <2>1. PICK k \in Keys, by \in {"foreign", "corrupt"} :
          bucket[k] = Absent /\ bucket' = [bucket EXCEPT ![k].by = by]
    BY <1>5 DEF ForeignPut
  <2>2. \A j \in Keys : j # k => bucket'[j] = bucket[j]
    BY <1>0, <2>1 DEF TypeOK
  <2> QED
    BY <1>0, <2>1, <2>2
<1>6. ASSUME NEW s \in Sessions, StartSession(s) \/ Finalize(s) \/ Retire(s) \/ ReadKey(s) \/ AcquireKey(s)
               \/ AcquireSlot(s) \/ LoopCancelled(s) \/ ClaimGroup(s) \/ Examine(s) \/ AttemptError(s)
               \/ Build(s) \/ RemuxFails(s) \/ FallbackHead(s) \/ RecordUpload(s) \/ RemoveCapture(s)
               \/ Recorded(s) \/ Unlock(s) \/ Outcome(s)
      PROVE  UNCHANGED bucket
  BY <1>6 DEF StartSession, Finalize, Retire, ReadKey, AcquireKey, AcquireSlot, LoopCancelled, ClaimGroup,
     Examine, AttemptError, Build, RemuxFails, FallbackHead, RecordUpload, RemoveCapture, Recorded,
     Unlock, Outcome, storeVars
<1>7. Shutdown \/ CancelUploads \/ Restart \/ UNCHANGED vars => UNCHANGED bucket
  BY DEF Shutdown, CancelUploads, Restart, vars, storeVars
<1> QED
  BY <1>1, <1>2, <1>3, <1>4, <1>5, <1>6, <1>7 DEF Next, LoopStep

-----------------------------------------------------------------------------
(* With or without conditional writes: two attempts that may still write   *)
(* to the bucket never handle the same session.  uploadLoop reads the key  *)
(* before it takes the key's mutex, and renameGroup changes keys while     *)
(* other loops wait: the invariant says that the members of a running      *)
(* attempt keep the key whose mutex the attempt holds.                     *)

LockHeld == \A s \in Sessions : pc[s] \in Locked => holder[att[s].key] = s
MembersShareKey == \A s \in Sessions :
  pc[s] \in Attempting =>
    /\ \A x \in att[s].group : mem[x].key = att[s].key
    /\ pc[s] # "examine" => att[s].add \cup att[s].done \subseteq att[s].group

\* A session that has not started is in no attempt.
MembersStarted == \A s \in Sessions :
  pc[s] \in Attempting => \A x \in att[s].group : mem[x].state # "none"

MutexInv == TypeOK /\ LockHeld /\ MembersShareKey /\ MembersStarted

-----------------------------------------------------------------------------
\* A step of loop s or of session s: keys change only for sessions that start
\* or that s's running attempt handles.
KeyStep(s) == \A x \in Sessions :
  /\ mem[x].state # "none" => mem'[x].state # "none"
  /\ \/ mem'[x].key = mem[x].key \/ mem[x].state = "none"
     \/ pc[s] \in Attempting /\ x \in att[s].group
OthersStay(s) == \A r \in Sessions : r # s =>
  /\ pc'[r] = pc[r] /\ att'[r] = att[r]
  /\ pc[r] \in Locked => holder'[att[r].key] = holder[att[r].key]
OwnLock(s) == pc'[s] \in Locked => holder'[att'[s].key] = s
OwnMembers(s) == pc'[s] \in Attempting =>
  /\ \A x \in att'[s].group : mem'[x].key = att'[s].key /\ mem'[x].state # "none"
  /\ pc'[s] # "examine" => att'[s].add \cup att'[s].done \subseteq att'[s].group

LEMMA MutexKept ==
  ASSUME MutexInv, TypeOK', NEW s \in Sessions, KeyStep(s), OthersStay(s), OwnLock(s), OwnMembers(s)
  PROVE  MutexInv'
<1>0. Attempting \subseteq Locked
  BY DEF Attempting, Locked, PCs
<1>1. LockHeld'
  BY DEF MutexInv, LockHeld, OthersStay, OwnLock
<1>2. ASSUME NEW r \in Sessions, r # s, pc[r] \in Attempting, NEW x \in att[r].group
      PROVE  mem'[x].key = att[r].key /\ mem'[x].state # "none"
  <2>1. x \in Sessions /\ mem[x].key = att[r].key /\ mem[x].state # "none"
    BY <1>2 DEF MutexInv, TypeOK, Attempts, MembersShareKey, MembersStarted
  <2>2. ~(pc[s] \in Attempting /\ x \in att[s].group)
    BY <1>0, <1>2, <2>1 DEF MutexInv, MembersShareKey, LockHeld
  <2> QED
    BY <2>1, <2>2 DEF KeyStep
<1>3. MembersShareKey' /\ MembersStarted'
  BY <1>2 DEF MutexInv, MembersShareKey, MembersStarted, OthersStay, OwnMembers
<1> QED
  BY <1>1, <1>3 DEF MutexInv

\* The attempt of s has sent its last request.
Ends(s) == /\ KeyStep(s) /\ UNCHANGED holder
           /\ \E a \in Attempts, p \in {"unlock", "record"} :
                /\ a.key = att[s].key
                /\ att' = [att EXCEPT ![s] = a] /\ pc' = [pc EXCEPT ![s] = p]

LEMMA EndsInv ==
  ASSUME MutexInv, TypeOK', NEW s \in Sessions, pc[s] \in Locked, Ends(s)
  PROVE  MutexInv'
<1>1. PICK a \in Attempts, p \in {"unlock", "record"} :
        /\ a.key = att[s].key
        /\ att' = [att EXCEPT ![s] = a] /\ pc' = [pc EXCEPT ![s] = p]
  BY DEF Ends
<1>2. att'[s] = a /\ pc'[s] = p /\ OthersStay(s)
  BY <1>1 DEF MutexInv, TypeOK, OthersStay, Ends
<1>3. OwnLock(s) /\ OwnMembers(s)
  BY <1>1, <1>2 DEF OwnLock, OwnMembers, Ends, MutexInv, LockHeld, Attempting
<1> QED
  BY <1>2, <1>3, MutexKept DEF Ends

LEMMA ReturnEnds ==
  ASSUME TypeOK, NEW s \in Sessions, NEW err \in Outcomes, Return(s, err), KeyStep(s), UNCHANGED holder
  PROVE  Ends(s)
<1>1. att[s] \in Attempts
  BY DEF TypeOK
<1>2. [att[s] EXCEPT !.err = err] \in Attempts /\ [att[s] EXCEPT !.err = err].key = att[s].key
  BY <1>1 DEF Attempts
<1>3. att' = [att EXCEPT ![s] = [att[s] EXCEPT !.err = err]]
  BY DEF Return, TypeOK
<1> QED
  BY <1>2, <1>3 DEF Ends, Return

LEMMA SameKeys == ASSUME UNCHANGED mem, NEW s PROVE KeyStep(s)
BY DEF KeyStep

LEMMA SetStateKeys ==
  ASSUME TypeOK, NEW S, NEW st, st # "none", mem' = SetState(S, st), NEW s
  PROVE  KeyStep(s)
<1> SUFFICES ASSUME NEW x \in Sessions
             PROVE  mem'[x].key = mem[x].key /\ (mem[x].state # "none" => mem'[x].state # "none")
  BY DEF KeyStep
<1>1. mem[x] \in SessionRecords /\ mem'[x] = IF x \in S THEN [mem[x] EXCEPT !.state = st] ELSE mem[x]
  BY DEF TypeOK, SetState
<1> QED
  BY <1>1 DEF SessionRecords

LEMMA FailEnds ==
  ASSUME TypeOK, NEW s \in Sessions, NEW F, NEW err \in Outcomes, FailThenReturn(s, F, err), UNCHANGED holder
  PROVE  Ends(s)
BY SetStateKeys, ReturnEnds DEF FailThenReturn

LEMMA RenameEnds ==
  ASSUME TypeOK, NEW s \in Sessions, pc[s] \in Attempting, NEW F, RenameGroup(s, F), UNCHANGED holder
  PROVE  Ends(s)
<1>1. PICK r \in {mem[x].renames : x \in att[s].group} :
        \/ FailThenReturn(s, F, "permanent")
        \/ /\ mem' = [x \in Sessions |->
                        IF x \in att[s].group
                          THEN [state |-> "finalized", renames |-> r + 1, key |-> WithSuffix(att[s].key, r + 2)]
                          ELSE mem[x]]
           /\ Return(s, "again")
  BY DEF RenameGroup
<1>2. CASE FailThenReturn(s, F, "permanent")
  BY <1>2, FailEnds DEF Outcomes
<1>3. CASE ~FailThenReturn(s, F, "permanent")
  <2>1. KeyStep(s)
    BY <1>1, <1>3 DEF KeyStep
  <2> QED
    BY <1>1, <1>3, <2>1, ReturnEnds DEF Outcomes
<1> QED
  BY <1>2, <1>3

LEMMA CompleteEnds ==
  ASSUME TypeOK, NEW s \in Sessions, pc[s] \in Attempting, NEW M, M \subseteq att[s].group,
         NEW F, NEW dest \in Keys, CompleteGroup(s, M, dest, F), UNCHANGED holder
  PROVE  Ends(s)
<1>1. att[s] \in Attempts /\ M \in SUBSET Sessions
  BY DEF TypeOK, Attempts
<1>2. KeyStep(s)
  <2> SUFFICES ASSUME NEW x \in Sessions
               PROVE  /\ mem[x].state # "none" => mem'[x].state # "none"
                      /\ mem'[x].key = mem[x].key \/ x \in att[s].group
    BY DEF KeyStep
  <2>1. mem[x] \in SessionRecords
    BY DEF TypeOK
  <2>2. mem'[x] = IF x \in M THEN [mem[x] EXCEPT !.state = "uploaded", !.key = dest]
                  ELSE IF x \in F THEN [mem[x] EXCEPT !.state = "failed"] ELSE mem[x]
    BY DEF CompleteGroup, SetState
  <2> QED
    BY <2>1, <2>2 DEF SessionRecords
<1>3. [att[s] EXCEPT !.todo = M, !.dest = dest] \in Attempts
      /\ [att[s] EXCEPT !.todo = M, !.dest = dest].key = att[s].key
  BY <1>1 DEF Attempts
<1>4. att' = [att EXCEPT ![s] = [att[s] EXCEPT !.todo = M, !.dest = dest]]
  BY DEF CompleteGroup, TypeOK
<1> QED
  BY <1>2, <1>3, <1>4 DEF Ends, CompleteGroup

\* A step inside an attempt that only moves on.
LEMMA MovesOn ==
  ASSUME MutexInv, TypeOK', NEW s \in Sessions, pc[s] \in Attempting \ {"examine"},
         NEW p \in Attempting \ {"examine"}, pc' = [pc EXCEPT ![s] = p], UNCHANGED <<mem, att, holder>>
  PROVE  MutexInv'
<1>1. pc'[s] = p /\ OthersStay(s)
  BY DEF MutexInv, TypeOK, OthersStay
<1>2. OwnLock(s) /\ OwnMembers(s)
  BY <1>1 DEF MutexInv, LockHeld, MembersShareKey, MembersStarted, OwnLock, OwnMembers, Attempting, Locked, PCs
<1> QED
  BY <1>1, <1>2, SameKeys, MutexKept

-----------------------------------------------------------------------------
\* Every action keeps the invariant.

\* Loop s, its attempt and the mutexes stay; keys change at most for sessions
\* that start.
LEMMA Bystander ==
  ASSUME MutexInv, TypeOK', NEW s \in Sessions, UNCHANGED <<att, holder>>,
         pc' = pc \/ \E p \in {"off", "start"} : pc' = [pc EXCEPT ![s] = p],
         \A x \in Sessions : mem[x].state # "none" => mem'[x].state # "none" /\ mem'[x].key = mem[x].key
  PROVE  MutexInv'
<1>1. KeyStep(s)
  BY DEF KeyStep
<1>2. OthersStay(s) /\ (pc'[s] = pc[s] \/ pc'[s] \in {"off", "start"})
  BY DEF OthersStay, MutexInv, TypeOK
<1>3. OwnLock(s)
  BY <1>2 DEF OwnLock, MutexInv, LockHeld, Locked
<1>4. OwnMembers(s)
  <2>1. att[s].group \subseteq Sessions
    BY DEF MutexInv, TypeOK, Attempts
  <2> QED
    BY <1>2, <2>1 DEF OwnMembers, MutexInv, MembersShareKey, MembersStarted, Attempting
<1> QED
  BY <1>1, <1>2, <1>3, <1>4, MutexKept

LEMMA LifecycleMutex ==
  ASSUME MutexInv, TypeOK', NEW s \in Sessions, StartSession(s) \/ Finalize(s) \/ Retire(s)
  PROVE  MutexInv'
<1>1. \A x \in Sessions : mem[x] \in SessionRecords
  BY DEF MutexInv, TypeOK
<1>2. \A x \in Sessions : mem[x].state # "none" => mem'[x].state # "none" /\ mem'[x].key = mem[x].key
  <2>1. CASE StartSession(s)
    <3>1. \A x \in Sessions : x # s => mem'[x] = mem[x]
      BY <2>1 DEF StartSession, MutexInv, TypeOK
    <3> QED
      BY <2>1, <3>1 DEF StartSession
  <2>2. CASE Finalize(s)
    BY <1>1, <2>2 DEF Finalize, MutexInv, TypeOK, SessionRecords
  <2>3. CASE Retire(s)
    BY <1>1, <2>3 DEF Retire, MutexInv, TypeOK, SessionRecords
  <2> QED
    BY <2>1, <2>2, <2>3
<1>3. /\ UNCHANGED <<att, holder>>
      /\ pc' = pc \/ \E p \in {"off", "start"} : pc' = [pc EXCEPT ![s] = p]
  BY DEF StartSession, Finalize, Retire
<1> QED
  BY <1>2, <1>3, Bystander

LEMMA WaitingMutex ==
  ASSUME MutexInv, TypeOK', NEW s \in Sessions,
         ReadKey(s) \/ AcquireKey(s) \/ AcquireSlot(s) \/ LoopCancelled(s) \/ Recorded(s) \/ Unlock(s)
         \/ Outcome(s)
  PROVE  MutexInv'
<1>0. TypeOK /\ att[s] \in Attempts /\ att[s].key \in Keys
  BY DEF MutexInv, TypeOK, Attempts
<1>1. CASE Recorded(s)
  BY <1>0, <1>1, ReturnEnds, SameKeys, EndsInv DEF Recorded, Outcomes, Locked, PCs
<1>2. CASE ~Recorded(s)
  <2>1. KeyStep(s)
    <3>1. UNCHANGED mem \/ mem' = [mem EXCEPT ![s].state = "finalized"]
      BY <1>2 DEF ReadKey, AcquireKey, AcquireSlot, LoopCancelled, Unlock, Outcome
    <3>2. \A x \in Sessions : mem[x] \in SessionRecords
      BY <1>0 DEF TypeOK
    <3> QED
      BY <1>0, <3>1, <3>2 DEF KeyStep, TypeOK, SessionRecords
  <2>2. \E a, p : /\ att' = [att EXCEPT ![s] = a] /\ pc' = [pc EXCEPT ![s] = p]
                  /\ p \in {"lock", "slot", "claim", "off", "outcome", "start"}
                  /\ p \in {"slot", "claim"} => a = att[s]
    <3>1. att = [att EXCEPT ![s] = att[s]]
      BY <1>0 DEF TypeOK
    <3> QED
      BY <1>2, <3>1 DEF ReadKey, AcquireKey, AcquireSlot, LoopCancelled, Unlock, Outcome, LoopEnds, LoopRepeats
  <2>3. \A r \in Sessions : r # s => pc'[r] = pc[r] /\ att'[r] = att[r]
    BY <1>0, <2>2 DEF TypeOK
  <2>4. /\ pc'[s] \in {"lock", "slot", "claim", "off", "outcome", "start"}
        /\ pc'[s] \in {"slot", "claim"} => att'[s] = att[s]
    BY <1>0, <2>2 DEF TypeOK
  <2>5. OwnMembers(s)
    BY <2>4 DEF OwnMembers, Attempting
  <2>6. CASE AcquireKey(s)
    <3>1. holder[att[s].key] = Nobody /\ holder' = [holder EXCEPT ![att[s].key] = s]
      BY <2>6 DEF AcquireKey
    <3>2. \A r \in Sessions : pc[r] \in Locked => att[r].key # att[s].key
      BY <3>1, SessionsAssumption DEF MutexInv, LockHeld
    <3>3. \A r \in Sessions : att[r].key \in Keys
      BY <1>0 DEF TypeOK, Attempts
    <3>4. OthersStay(s)
      BY <1>0, <2>3, <3>1, <3>2, <3>3 DEF OthersStay, TypeOK
    <3>5. OwnLock(s)
      BY <1>0, <2>6, <3>1 DEF AcquireKey, OwnLock, TypeOK
    <3> QED
      BY <2>1, <2>5, <3>4, <3>5, MutexKept
  <2>7. CASE ~AcquireKey(s)
    <3>1. \/ holder' = holder
          \/ pc[s] \in Locked /\ holder' = [holder EXCEPT ![att[s].key] = Nobody] /\ pc'[s] \notin Locked
      BY <1>0, <1>2, <2>4, <2>7
      DEF ReadKey, AcquireSlot, LoopCancelled, Unlock, Outcome, Locked, PCs, TypeOK
    <3>2. \A r \in Sessions : r # s /\ pc[r] \in Locked /\ pc[s] \in Locked => att[r].key # att[s].key
      BY DEF MutexInv, LockHeld
    <3>3. \A r \in Sessions : att[r].key \in Keys
      BY <1>0 DEF TypeOK, Attempts
    <3>4. OthersStay(s)
      BY <1>0, <2>3, <3>1, <3>2, <3>3 DEF OthersStay, TypeOK
    <3>5. pc'[s] \in Locked => pc[s] \in Locked /\ att'[s] = att[s] /\ holder' = holder
      <4>1. pc'[s] \in Locked => AcquireSlot(s)
        BY <1>0, <1>2, <2>7 DEF ReadKey, LoopCancelled, Unlock, Outcome, LoopEnds, LoopRepeats, Locked, TypeOK
      <4> QED
        BY <1>0, <4>1 DEF AcquireSlot, Locked, PCs, TypeOK
    <3>6. OwnLock(s)
      BY <3>5 DEF OwnLock, MutexInv, LockHeld
    <3> QED
      BY <2>1, <2>5, <3>4, <3>6, MutexKept
  <2> QED
    BY <2>6, <2>7
<1> QED
  BY <1>1, <1>2


LEMMA ClaimMutex == ASSUME MutexInv, TypeOK', NEW s \in Sessions, ClaimGroup(s) PROVE MutexInv'
<1>0. TypeOK /\ att[s] \in Attempts /\ pc[s] \in Locked /\ UNCHANGED holder
  BY DEF MutexInv, TypeOK, ClaimGroup, Locked, PCs
<1>1. CASE UNCHANGED mem /\ \E err \in {"nil", "again", "deferred"} : Return(s, err)
  BY <1>0, <1>1, SameKeys, ReturnEnds, EndsInv DEF Outcomes
<1>2. CASE /\ mem' = SetState(Group(att[s].key), "uploading")
           /\ att' = [att EXCEPT ![s].group = Group(att[s].key)]
           /\ pc' = [pc EXCEPT ![s] = "examine"]
  <2>1. KeyStep(s)
    BY <1>0, <1>2, SetStateKeys
  <2>2. pc'[s] = "examine" /\ att'[s].group = Group(att[s].key) /\ att'[s].key = att[s].key
    BY <1>0, <1>2 DEF TypeOK, Attempts
  <2>3. OthersStay(s)
    BY <1>0, <1>2 DEF OthersStay, TypeOK
  <2>4. OwnLock(s)
    BY <1>0, <2>2 DEF OwnLock, MutexInv, LockHeld
  <2>5. \A x \in Group(att[s].key) : mem'[x].key = att[s].key /\ mem'[x].state # "none"
    <3> SUFFICES ASSUME NEW x \in Group(att[s].key)
                 PROVE  mem'[x].key = att[s].key /\ mem'[x].state # "none"
      OBVIOUS
    <3>1. x \in Sessions /\ mem[x].key = att[s].key
      BY DEF Group
    <3>2. mem[x] \in SessionRecords /\ mem'[x] = [mem[x] EXCEPT !.state = "uploading"]
      BY <1>0, <1>2, <3>1 DEF TypeOK, SetState
    <3> QED
      BY <3>1, <3>2 DEF SessionRecords
  <2>6. OwnMembers(s)
    BY <2>2, <2>5 DEF OwnMembers
  <2> QED
    BY <2>1, <2>3, <2>4, <2>6, MutexKept
<1> QED
  BY <1>1, <1>2 DEF ClaimGroup

LEMMA ExamineMutex == ASSUME MutexInv, TypeOK', NEW s \in Sessions, Examine(s) PROVE MutexInv'
<1> DEFINE g == att[s].group
           o == bucket[att[s].key]
<1>0. /\ TypeOK /\ att[s] \in Attempts /\ pc[s] \in Locked /\ pc[s] \in Attempting /\ UNCHANGED holder
      /\ att[s].key \in Keys /\ g \subseteq Sessions
  BY DEF MutexInv, TypeOK, Examine, Locked, PCs, Attempting, Attempts
<1>1. ASSUME NEW F, RenameGroup(s, F) \/ \E err \in {"nil", "permanent"} : FailThenReturn(s, F, err)
      PROVE  MutexInv'
  BY <1>0, <1>1, RenameEnds, FailEnds, EndsInv DEF Outcomes
<1>2. ASSUME NEW F, CompleteGroup(s, Done(g, o), att[s].key, F)
      PROVE  MutexInv'
  BY <1>0, <1>2, Splits, CompleteEnds, EndsInv
<1>3. ASSUME NEW F, NEW add \in SUBSET g, mem' = SetState(F, "failed"),
             att' = [att EXCEPT ![s].add = add, ![s].done = Done(g, o), ![s].remote = o],
             pc' = [pc EXCEPT ![s] = "build"]
      PROVE  MutexInv'
  <2>1. KeyStep(s)
    BY <1>0, <1>3, SetStateKeys
  <2>2. att'[s] = [att[s] EXCEPT !.add = add, !.done = Done(g, o), !.remote = o] /\ pc'[s] = "build"
    BY <1>0, <1>3 DEF TypeOK
  <2>3. att'[s].group = g /\ att'[s].key = att[s].key /\ att'[s].add = add /\ att'[s].done = Done(g, o)
    BY <1>0, <2>2 DEF Attempts
  <2>4. OthersStay(s)
    BY <1>0, <1>3 DEF OthersStay, TypeOK
  <2>5. OwnLock(s)
    BY <1>0, <2>3 DEF OwnLock, MutexInv, LockHeld
  <2>6. \A x \in g : mem'[x].key = att[s].key /\ mem'[x].state # "none"
    <3> SUFFICES ASSUME NEW x \in g PROVE mem'[x].key = att[s].key /\ mem'[x].state # "none"
      OBVIOUS
    <3>1. x \in Sessions /\ mem[x].key = att[s].key /\ mem[x].state # "none"
      BY <1>0 DEF MutexInv, MembersShareKey, MembersStarted
    <3>2. mem[x] \in SessionRecords /\ mem'[x] = IF x \in F THEN [mem[x] EXCEPT !.state = "failed"] ELSE mem[x]
      BY <1>0, <1>3, <3>1 DEF TypeOK, SetState
    <3> QED
      BY <3>1, <3>2 DEF SessionRecords
  <2>7. OwnMembers(s)
    BY <2>3, <2>6, Splits DEF OwnMembers
  <2> QED
    BY <2>1, <2>4, <2>5, <2>7, MutexKept
<1> QED
  BY <1>1, <1>2, <1>3, ExamineShape DEF ExamineSteps

LEMMA BuildMutex ==
  ASSUME MutexInv, TypeOK', NEW s \in Sessions, AttemptError(s) \/ Build(s) \/ RemuxFails(s)
  PROVE  MutexInv'
<1>0. TypeOK /\ pc[s] \in Locked /\ pc[s] \in Attempting /\ UNCHANGED holder
  BY DEF MutexInv, AttemptError, Build, RemuxFails, Locked, PCs, Attempting
<1>1. CASE AttemptError(s)
  BY <1>0, <1>1, FailEnds, EndsInv DEF AttemptError, Outcomes
<1>2. CASE RenameGroup(s, {})
  BY <1>0, <1>2, RenameEnds, EndsInv
<1>3. CASE UNCHANGED mem /\ \E err \in {"again", "retry"} : Return(s, err)
  BY <1>0, <1>3, SameKeys, ReturnEnds, EndsInv DEF Outcomes
<1>4. CASE pc[s] = "build" /\ \E p \in {"put", "fbhead"} :
             pc' = [pc EXCEPT ![s] = p] /\ UNCHANGED <<mem, att>>
  BY <1>0, <1>4, MovesOn DEF Attempting
<1> QED
  BY <1>1, <1>2, <1>3, <1>4 DEF Build, RemuxFails

LEMMA PutMutex ==
  ASSUME MutexInv, TypeOK', NEW s \in Sessions,
         Put(s) \/ PutError(s) \/ FallbackHead(s) \/ FallbackPut(s) \/ FallbackPutError(s)
  PROVE  MutexInv'
<1>0. /\ TypeOK /\ pc[s] \in Locked /\ pc[s] \in Attempting \ {"examine"} /\ UNCHANGED holder
  BY DEF MutexInv, Put, PutError, FallbackHead, FallbackPut, FallbackPutError, Locked, PCs, Attempting
<1>1. /\ att[s].add \cup att[s].done \subseteq att[s].group
      /\ att[s].key \in Keys /\ FallbackKey(att[s].key) \in Keys
  BY <1>0, KeyTypes DEF MutexInv, MembersShareKey, TypeOK, Attempts
<1>2. ASSUME NEW k \in Keys, CompleteGroup(s, att[s].add \cup att[s].done, k, {})
      PROVE  MutexInv'
  BY <1>0, <1>1, <1>2, CompleteEnds, EndsInv
<1>3. CASE UNCHANGED mem /\ \E err \in {"again", "retry"} : Return(s, err)
  BY <1>0, <1>3, SameKeys, ReturnEnds, EndsInv DEF Outcomes
<1>4. CASE RenameGroup(s, {})
  BY <1>0, <1>4, RenameEnds, EndsInv
<1>5. CASE pc' = [pc EXCEPT ![s] = "fbput"] /\ UNCHANGED <<mem, att>>
  BY <1>0, <1>5, MovesOn DEF Attempting
<1>6. CASE Put(s) \/ FallbackPut(s)
  BY <1>1, <1>2, <1>3, <1>6 DEF Put, FallbackPut, PutObject
<1>7. CASE PutError(s) \/ FallbackPutError(s)
  BY <1>3, <1>7 DEF PutError, FallbackPutError, PutFails
<1>8. CASE FallbackHead(s)
  BY <1>1, <1>2, <1>4, <1>5, <1>8 DEF FallbackHead
<1> QED
  BY <1>6, <1>7, <1>8

LEMMA RecordMutex ==
  ASSUME MutexInv, TypeOK', NEW s \in Sessions, RecordUpload(s) \/ RemoveCapture(s)
  PROVE  MutexInv'
<1>0. TypeOK /\ att[s] \in Attempts /\ pc[s] \in {"record", "remove"} /\ UNCHANGED <<mem, holder>>
  BY DEF MutexInv, TypeOK, RecordUpload, RemoveCapture
<1>1. att'[s].key = att[s].key /\ pc'[s] \in {"record", "remove"}
      /\ \A r \in Sessions : r # s => pc'[r] = pc[r] /\ att'[r] = att[r]
  <2>1. CASE RecordUpload(s)
    <3>1. PICK x \in att[s].todo :
            \/ /\ att' = [att EXCEPT ![s].todo = @ \ {x}, ![s].cur = x]
               /\ pc' = [pc EXCEPT ![s] = "remove"]
            \/ /\ att' = [att EXCEPT ![s].todo = @ \ {x}, ![s].lost = TRUE]
               /\ UNCHANGED pc
      BY <2>1 DEF RecordUpload
    <3>2. \/ att'[s] = [att[s] EXCEPT !.todo = att[s].todo \ {x}, !.cur = x]
          \/ att'[s] = [att[s] EXCEPT !.todo = att[s].todo \ {x}, !.lost = TRUE]
      BY <1>0, <3>1 DEF TypeOK
    <3>3. att'[s].key = att[s].key
      BY <1>0, <3>2 DEF Attempts
    <3>4. pc'[s] \in {"record", "remove"} /\ \A r \in Sessions : r # s => pc'[r] = pc[r] /\ att'[r] = att[r]
      BY <1>0, <3>1 DEF TypeOK
    <3> QED
      BY <3>3, <3>4
  <2>2. CASE RemoveCapture(s)
    BY <1>0, <2>2 DEF RemoveCapture, TypeOK, Attempts
  <2> QED
    BY <2>1, <2>2
<1>2. OthersStay(s) /\ OwnLock(s) /\ OwnMembers(s)
  BY <1>0, <1>1 DEF OthersStay, OwnLock, OwnMembers, MutexInv, LockHeld, Locked, PCs, Attempting
<1> QED
  BY <1>0, <1>2, SameKeys, MutexKept

LEMMA OtherMutex ==
  ASSUME MutexInv, TypeOK',
         \/ Shutdown \/ CancelUploads \/ Restart \/ LateLand \/ UNCHANGED vars
         \/ \E k \in Keys, by \in {"foreign", "corrupt"} : ForeignPut(k, by)
  PROVE  MutexInv'
<1>1. CASE Restart
  <2>1. \A s \in Sessions : pc'[s] \in {"start", "off"}
    BY <1>1 DEF Restart
  <2> QED
    BY <2>1 DEF MutexInv, LockHeld, MembersShareKey, MembersStarted, Locked, Attempting
<1>2. CASE ~Restart
  <2>1. UNCHANGED <<mem, pc, att, holder>>
    BY <1>2 DEF Shutdown, CancelUploads, LateLand, ForeignPut, vars
  <2> QED
    BY <2>1 DEF MutexInv, LockHeld, MembersShareKey, MembersStarted
<1> QED
  BY <1>1, <1>2

LEMMA NextMutex == MutexInv /\ [Next]_vars => MutexInv'
<1> SUFFICES ASSUME MutexInv, [Next]_vars PROVE MutexInv'
  OBVIOUS
<1>1. TypeOK'
  <2>1. TypeOK /\ UNCHANGED vars => TypeOK'
    BY DEF TypeOK, vars, storeVars
  <2> QED
    BY <2>1, LifecycleType, LoopType, ProcessType, BucketType DEF Next, MutexInv
<1>2. ASSUME NEW s \in Sessions, LoopStep(s) PROVE MutexInv'
  BY <1>1, <1>2, WaitingMutex, ClaimMutex, ExamineMutex, BuildMutex, PutMutex, RecordMutex DEF LoopStep
<1> QED
  BY <1>1, <1>2, LifecycleMutex, OtherMutex DEF Next

LEMMA InitMutex == Init => MutexInv
BY InitType DEF Init, MutexInv, LockHeld, MembersShareKey, MembersStarted, Locked, Attempting

\* Loops that share an object are serialised by the key's mutex although keys
\* change while loops wait for it: no session is in two attempts that may still
\* write.
THEOREM AttemptsDisjointHolds == Spec => []AttemptsDisjoint
<1>1. MutexInv => AttemptsDisjoint
  BY DEF MutexInv, AttemptsDisjoint, LockHeld, MembersShareKey, Attempting, Locked, PCs
<1> QED
  BY <1>1, InitMutex, NextMutex, PTL DEF Spec

-----------------------------------------------------------------------------
(* On any endpoint: every object of this recorder holds its sessions in    *)
(* capture order.  The order is decided when the object is looked at, and  *)
(* what is written then is what was seen and the attempt's sessions behind *)
(* it: so an attempt carries the order of what it would write with it, and *)
(* so does a PUT that may still be applied.                                *)

InOrder(q) == \A i, j \in DOMAIN q : i < j => \A x \in q[i], y \in q[j] : x < y

\* What the attempt of loop s would write.
SightInOrder(s) == InOrder(Append(att[s].remote.parts, att[s].add))
\* Only an object of this recorder has parts.
Blank == \A k \in Keys : bucket[k].by # "us" => bucket[k].parts = <<>>
LatesInOrder == \A p \in inflight : InOrder(p.obj.parts) /\ p.obj.by = "us"

OrderInv == TypeOK /\ MergedInOrder /\ Blank /\ LatesInOrder /\ \A s \in Sessions : SightInOrder(s)

LEMMA NextType == ASSUME TypeOK, [Next]_vars PROVE TypeOK'
<1>1. TypeOK /\ UNCHANGED vars => TypeOK'
  BY DEF TypeOK, vars, storeVars
<1> QED
  BY <1>1, LifecycleType, LoopType, ProcessType, BucketType DEF Next

LEMMA OrderAppend ==
  ASSUME NEW p \in Seq(SUBSET Sessions), NEW S \in SUBSET Sessions, InOrder(p),
         \A i \in DOMAIN p : \A x \in p[i], y \in S : x < y
  PROVE  InOrder(Append(p, S))
<1> DEFINE q == Append(p, S)
<1>1. /\ DOMAIN q = 1 .. Len(p) + 1 /\ DOMAIN p = 1 .. Len(p) /\ Len(p) \in Nat
      /\ \A i \in DOMAIN p : q[i] = p[i]
      /\ q[Len(p) + 1] = S
  OBVIOUS
<1> HIDE DEF q
<1>2. ASSUME NEW i \in DOMAIN q, NEW j \in DOMAIN q, i < j, NEW x \in q[i], NEW y \in q[j] PROVE x < y
  <2>1. i \in DOMAIN p /\ q[i] = p[i]
    BY <1>1, <1>2
  <2>2. CASE j \in DOMAIN p
    BY <1>1, <1>2, <2>1, <2>2 DEF InOrder
  <2>3. CASE j \notin DOMAIN p
    <3>1. q[j] = S
      BY <1>1, <2>3
    <3> QED
      BY <1>2, <2>1, <3>1
  <2> QED
    BY <2>2, <2>3
<1>3. InOrder(q)
  BY <1>2 DEF InOrder
<1> QED
  BY <1>3 DEF q

LEMMA OneInOrder == ASSUME NEW S \in SUBSET Sessions PROVE InOrder(Append(<<>>, S))
<1>1. InOrder(<<>>) /\ <<>> \in Seq(SUBSET Sessions) /\ DOMAIN <<>> = {}
  BY DEF InOrder
<1> QED
  BY <1>1, OrderAppend

\* What an attempt may write, with its key.
Writes(s, o) ==
  \/ o = Built(att[s].remote, att[s].add)
  \/ o = Built(Absent, att[s].add)

\* What a step does to the store.
StoreStep ==
  \/ UNCHANGED <<bucket, inflight>>
  \/ \E s \in Sessions, k \in Keys, o \in Objects :
       /\ Writes(s, o)
       /\ \/ bucket' = [bucket EXCEPT ![k] = o] /\ UNCHANGED inflight
          \/ UNCHANGED bucket /\ \E remote : inflight' = inflight \cup {[key |-> k, remote |-> remote, obj |-> o]}
  \/ \E p \in inflight : /\ inflight' = inflight \ {p}
                         /\ bucket' = bucket \/ bucket' = [bucket EXCEPT ![p.key] = p.obj]
  \/ \E k \in Keys, by \in {"foreign", "corrupt"} :
       bucket[k] = Absent /\ bucket' = [bucket EXCEPT ![k].by = by] /\ UNCHANGED inflight

LEMMA StoreSteps == ASSUME TypeOK, [Next]_vars PROVE StoreStep
<1>1. ASSUME NEW s \in Sessions, Put(s) \/ PutError(s) \/ FallbackPut(s) \/ FallbackPutError(s)
      PROVE  StoreStep
  <2>1. /\ att[s].key \in Keys /\ FallbackKey(att[s].key) \in Keys
        /\ att[s].remote \in Objects /\ att[s].add \in SUBSET Sessions /\ Absent \in Objects
    BY KeyTypes, ObjectTypes DEF TypeOK, Attempts
  <2>2. Built(att[s].remote, att[s].add) \in Objects /\ Built(Absent, att[s].add) \in Objects
    BY <2>1, ObjectTypes
  <2>3. ASSUME NEW k \in Keys, NEW remote \in Objects, NEW o \in Objects, Writes(s, o),
               PutObject(s, k, remote, o) \/ PutFails(s, k, remote, o)
        PROVE  StoreStep
    BY <2>3 DEF StoreStep, PutObject, PutFails, storeVars
  <2> QED
    BY <1>1, <2>1, <2>2, <2>3 DEF Put, PutError, FallbackPut, FallbackPutError, Writes
<1>2. ASSUME NEW s \in Sessions, StartSession(s) \/ Finalize(s) \/ Retire(s) \/ ReadKey(s) \/ AcquireKey(s)
               \/ AcquireSlot(s) \/ LoopCancelled(s) \/ ClaimGroup(s) \/ Examine(s) \/ AttemptError(s)
               \/ Build(s) \/ RemuxFails(s) \/ FallbackHead(s) \/ RecordUpload(s) \/ RemoveCapture(s)
               \/ Recorded(s) \/ Unlock(s) \/ Outcome(s)
      PROVE  UNCHANGED <<bucket, inflight>>
  BY <1>2 DEF StartSession, Finalize, Retire, ReadKey, AcquireKey, AcquireSlot, LoopCancelled, ClaimGroup,
     Examine, AttemptError, Build, RemuxFails, FallbackHead, RecordUpload, RemoveCapture, Recorded,
     Unlock, Outcome, storeVars
<1>3. Shutdown \/ CancelUploads \/ Restart \/ UNCHANGED vars => UNCHANGED <<bucket, inflight>>
  BY DEF Shutdown, CancelUploads, Restart, vars, storeVars
<1>4. LateLand \/ (\E k \in Keys, by \in {"foreign", "corrupt"} : ForeignPut(k, by)) => StoreStep
  BY DEF LateLand, ForeignPut, StoreStep
<1> QED
  BY <1>1, <1>2, <1>3, <1>4 DEF Next, LoopStep, StoreStep

\* What the attempt of loop r has seen stays, or is forgotten, or it looks anew.
SightStays(r) == \/ att'[r].remote = att[r].remote /\ att'[r].add = att[r].add
                 \/ att'[r].remote = Absent /\ att'[r].add = {}
Looks(r) ==
  LET g == att[r].group
      o == bucket[att[r].key]
  IN /\ o.by \in {"none", "us"} /\ ~OutOfOrder(g, o)
     /\ att'[r].remote = o /\ att'[r].add \subseteq New(g, o)

LEMMA SightSteps ==
  ASSUME TypeOK, [Next]_vars
  PROVE  \A r \in Sessions : SightStays(r) \/ Looks(r)
<1>0. \A r \in Sessions : att[r] \in Attempts
  BY DEF TypeOK
<1>1. CASE UNCHANGED att
  BY <1>1 DEF SightStays
<1>2. ASSUME NEW s \in Sessions, NEW a, att' = [att EXCEPT ![s] = a],
             \/ a.remote = att[s].remote /\ a.add = att[s].add
             \/ a.remote = Absent /\ a.add = {}
      PROVE  \A r \in Sessions : SightStays(r)
  <2>1. att'[s] = a /\ \A r \in Sessions : r # s => att'[r] = att[r]
    BY <1>2 DEF TypeOK
  <2>2. SightStays(s)
    BY <1>2, <2>1 DEF SightStays
  <2>3. \A r \in Sessions : r # s => SightStays(r)
    BY <2>1 DEF SightStays
  <2> QED
    BY <2>2, <2>3
<1>3. ASSUME NEW s \in Sessions, NEW err, Return(s, err)
      PROVE  \A r \in Sessions : SightStays(r)
  <2>1. [att[s] EXCEPT !.err = err].remote = att[s].remote /\ [att[s] EXCEPT !.err = err].add = att[s].add
    BY <1>0 DEF Attempts
  <2>2. att' = [att EXCEPT ![s] = [att[s] EXCEPT !.err = err]]
    BY <1>3 DEF Return, TypeOK
  <2> QED
    BY <1>2, <2>1, <2>2
<1>4. ASSUME NEW s \in Sessions, NEW F, RenameGroup(s, F) \/ \E err : FailThenReturn(s, F, err)
      PROVE  \A r \in Sessions : SightStays(r)
  BY <1>3, <1>4 DEF RenameGroup, FailThenReturn
<1>5. ASSUME NEW s \in Sessions, NEW M, NEW dest, NEW F, CompleteGroup(s, M, dest, F)
      PROVE  \A r \in Sessions : SightStays(r)
  <2>1. /\ [att[s] EXCEPT !.todo = M, !.dest = dest].remote = att[s].remote
        /\ [att[s] EXCEPT !.todo = M, !.dest = dest].add = att[s].add
    BY <1>0 DEF Attempts
  <2>2. att' = [att EXCEPT ![s] = [att[s] EXCEPT !.todo = M, !.dest = dest]]
    BY <1>5 DEF CompleteGroup, TypeOK
  <2> QED
    BY <1>2, <2>1, <2>2
<1>i. Idle.remote = Absent /\ Idle.add = {}
  BY DEF Idle
<1>6. ASSUME NEW s \in Sessions, ReadKey(s) \/ LoopCancelled(s) \/ Unlock(s) \/ Outcome(s)
      PROVE  \A r \in Sessions : SightStays(r)
  <2>1. CASE ReadKey(s)
    <3>1. /\ [Idle EXCEPT !.key = mem[s].key, !.dest = mem[s].key].remote = Absent
          /\ [Idle EXCEPT !.key = mem[s].key, !.dest = mem[s].key].add = {}
      BY DEF Idle
    <3> QED
      BY <1>2, <2>1, <3>1 DEF ReadKey
  <2>2. CASE Unlock(s)
    <3>1. [Idle EXCEPT !.err = att[s].err].remote = Absent /\ [Idle EXCEPT !.err = att[s].err].add = {}
      BY DEF Idle
    <3> QED
      BY <1>2, <2>2, <3>1 DEF Unlock
  <2>3. CASE LoopCancelled(s) \/ Outcome(s)
    <3>1. att' = [att EXCEPT ![s] = Idle]
      BY <2>3 DEF LoopCancelled, Outcome, LoopEnds, LoopRepeats
    <3> QED
      BY <1>2, <1>i, <3>1
  <2> QED
    BY <1>6, <2>1, <2>2, <2>3
<1>7. ASSUME NEW s \in Sessions, ClaimGroup(s)
      PROVE  \A r \in Sessions : SightStays(r)
  <2>1. CASE \E err : Return(s, err)
    BY <1>3, <2>1
  <2>2. CASE att' = [att EXCEPT ![s].group = Group(att[s].key)]
    <3>1. /\ [att[s] EXCEPT !.group = Group(att[s].key)].remote = att[s].remote
          /\ [att[s] EXCEPT !.group = Group(att[s].key)].add = att[s].add
      BY <1>0 DEF Attempts
    <3>2. att' = [att EXCEPT ![s] = [att[s] EXCEPT !.group = Group(att[s].key)]]
      BY <2>2 DEF TypeOK
    <3> QED
      BY <1>2, <3>1, <3>2
  <2> QED
    BY <1>7, <2>1, <2>2 DEF ClaimGroup
<1>8. ASSUME NEW s \in Sessions, Examine(s)
      PROVE  \A r \in Sessions : SightStays(r) \/ Looks(r)
  <2> DEFINE g == att[s].group
             o == bucket[att[s].key]
             junk == {x \in New(g, o) : file[x] = "junk"}
             add == New(g, o) \ junk
  <2>1. \/ \E F : RenameGroup(s, F) \/ \E err : FailThenReturn(s, F, err)
        \/ \E M, F : CompleteGroup(s, M, att[s].key, F)
        \/ /\ o.by \in {"none", "us"} /\ ~OutOfOrder(g, o)
           /\ att' = [att EXCEPT ![s].add = add, ![s].done = Done(g, o), ![s].remote = o]
    <3> HIDE DEF g, o, junk, add
    <3> QED
      BY <1>8 DEF Examine, g, o, junk, add
  <2>2. CASE /\ o.by \in {"none", "us"} /\ ~OutOfOrder(g, o)
             /\ att' = [att EXCEPT ![s].add = add, ![s].done = Done(g, o), ![s].remote = o]
    <3>1. att'[s] = [att[s] EXCEPT !.add = add, !.done = Done(g, o), !.remote = o]
          /\ \A r \in Sessions : r # s => att'[r] = att[r]
      BY <2>2 DEF TypeOK
    <3>2. att'[s].remote = o /\ att'[s].add = add
      BY <1>0, <3>1 DEF Attempts
    <3>3. Looks(s)
      BY <2>2, <3>2 DEF Looks
    <3>4. \A r \in Sessions : r # s => SightStays(r)
      BY <3>1 DEF SightStays
    <3> QED
      BY <3>3, <3>4
  <2> QED
    BY <1>4, <1>5, <2>1, <2>2
<1>9. ASSUME NEW s \in Sessions, AttemptError(s) \/ Build(s) \/ RemuxFails(s) \/ FallbackHead(s)
                                 \/ Put(s) \/ PutError(s) \/ FallbackPut(s) \/ FallbackPutError(s) \/ Recorded(s)
      PROVE  \A r \in Sessions : SightStays(r)
  <2>1. \/ UNCHANGED att
        \/ \E err : Return(s, err)
        \/ \E F : RenameGroup(s, F) \/ \E err : FailThenReturn(s, F, err)
        \/ \E M, dest, F : CompleteGroup(s, M, dest, F)
    BY <1>9 DEF AttemptError, Build, RemuxFails, FallbackHead, Put, PutError, FallbackPut, FallbackPutError,
                Recorded, PutObject, PutFails
  <2> QED
    BY <1>3, <1>4, <1>5, <2>1 DEF SightStays
<1>10. ASSUME NEW s \in Sessions, RecordUpload(s) \/ RemoveCapture(s)
       PROVE  \A r \in Sessions : SightStays(r)
  <2>1. \E a : /\ att' = [att EXCEPT ![s] = a] /\ a.remote = att[s].remote /\ a.add = att[s].add
    <3>1. CASE RecordUpload(s)
      <4>1. PICK x \in att[s].todo :
              \/ att' = [att EXCEPT ![s].todo = @ \ {x}, ![s].cur = x]
              \/ att' = [att EXCEPT ![s].todo = @ \ {x}, ![s].lost = TRUE]
        BY <3>1 DEF RecordUpload
      <4>2. \/ att' = [att EXCEPT ![s] = [att[s] EXCEPT !.todo = att[s].todo \ {x}, !.cur = x]]
            \/ att' = [att EXCEPT ![s] = [att[s] EXCEPT !.todo = att[s].todo \ {x}, !.lost = TRUE]]
        BY <4>1 DEF TypeOK
      <4>3. /\ [att[s] EXCEPT !.todo = att[s].todo \ {x}, !.cur = x].remote = att[s].remote
            /\ [att[s] EXCEPT !.todo = att[s].todo \ {x}, !.cur = x].add = att[s].add
            /\ [att[s] EXCEPT !.todo = att[s].todo \ {x}, !.lost = TRUE].remote = att[s].remote
            /\ [att[s] EXCEPT !.todo = att[s].todo \ {x}, !.lost = TRUE].add = att[s].add
        BY <1>0 DEF Attempts
      <4> QED
        BY <4>2, <4>3
    <3>2. CASE RemoveCapture(s)
      <4>1. att' = [att EXCEPT ![s] = [att[s] EXCEPT !.cur = Nobody]]
        BY <3>2 DEF RemoveCapture, TypeOK
      <4>2. /\ [att[s] EXCEPT !.cur = Nobody].remote = att[s].remote
            /\ [att[s] EXCEPT !.cur = Nobody].add = att[s].add
        BY <1>0 DEF Attempts
      <4> QED
        BY <4>1, <4>2
    <3> QED
      BY <1>10, <3>1, <3>2
  <2> QED
    BY <1>2, <2>1
<1>11. CASE Restart
  BY <1>11, <1>i DEF Restart, SightStays
<1>12. ASSUME NEW s \in Sessions, LoopStep(s) \/ StartSession(s) \/ Finalize(s) \/ Retire(s)
       PROVE  \A r \in Sessions : SightStays(r) \/ Looks(r)
  <2>1. AcquireKey(s) \/ AcquireSlot(s) \/ StartSession(s) \/ Finalize(s) \/ Retire(s) => UNCHANGED att
    BY DEF AcquireKey, AcquireSlot, StartSession, Finalize, Retire
  <2> QED
    BY <1>1, <1>6, <1>7, <1>8, <1>9, <1>10, <1>12, <2>1 DEF LoopStep
<1>13. Shutdown \/ CancelUploads \/ LateLand \/ UNCHANGED vars
       \/ (\E k \in Keys, by \in {"foreign", "corrupt"} : ForeignPut(k, by)) => UNCHANGED att
  BY DEF Shutdown, CancelUploads, LateLand, vars, ForeignPut
<1> QED
  BY <1>1, <1>11, <1>12, <1>13 DEF Next

LEMMA OrderInductive == ASSUME OrderInv, [Next]_vars PROVE OrderInv'
<1>0. TypeOK /\ TypeOK'
  BY NextType DEF OrderInv
<1>1. StoreStep /\ \A r \in Sessions : SightStays(r) \/ Looks(r)
  BY <1>0, StoreSteps, SightSteps
<1>2. ASSUME NEW s \in Sessions PROVE SightInOrder(s)'
  <2>1. CASE att'[s].remote = att[s].remote /\ att'[s].add = att[s].add
    BY <2>1 DEF OrderInv, SightInOrder
  <2>2. CASE att'[s].remote = Absent /\ att'[s].add = {}
    BY <2>2, OneInOrder DEF SightInOrder, Absent
  <2>3. CASE Looks(s)
    <3> DEFINE g == att[s].group
               o == bucket[att[s].key]
    <3>1. /\ o.by \in {"none", "us"} /\ ~OutOfOrder(g, o)
          /\ att'[s].remote = o /\ att'[s].add \subseteq New(g, o)
      BY <2>3 DEF Looks
    <3>2. /\ att[s].key \in Keys /\ g \subseteq Sessions /\ o \in Objects
          /\ att'[s].add \in SUBSET Sessions
      BY <1>0 DEF TypeOK, Attempts
    <3>3. o.parts \in Seq(SUBSET Sessions) /\ InOrder(o.parts)
      BY <3>2 DEF Objects, OrderInv, MergedInOrder, InOrder
    <3>4. \A i \in DOMAIN o.parts : \A x \in o.parts[i], y \in att'[s].add : x < y
      <4> SUFFICES ASSUME NEW i \in DOMAIN o.parts, NEW x \in o.parts[i], NEW y \in att'[s].add
                   PROVE  x < y
        OBVIOUS
      <4>1. o.by = "us"
        BY <3>1, <3>2 DEF OrderInv, Blank
      <4>2. x \in Listed(o)
        BY <4>1 DEF Listed, Held
      <4>3. y \in New(g, o) /\ y \notin Listed(o)
        BY <3>1 DEF New
      <4>4. ~(y < x) /\ x # y
        BY <3>1, <4>2, <4>3 DEF OutOfOrder
      <4>5. x \in Nat /\ y \in Nat
        BY <3>2, <3>3, SessionsAssumption
      <4> QED
        BY <4>4, <4>5
    <3> HIDE DEF o
    <3> QED
      BY <3>1, <3>2, <3>3, <3>4, OrderAppend DEF SightInOrder
  <2> QED
    BY <1>1, <2>1, <2>2, <2>3 DEF SightStays
<1>3. ASSUME NEW s \in Sessions, NEW o, Writes(s, o) PROVE InOrder(o.parts) /\ o.by = "us"
  <2>1. att[s].add \in SUBSET Sessions
    BY <1>0 DEF TypeOK, Attempts
  <2>2. o.parts = Append(att[s].remote.parts, att[s].add) \/ o.parts = Append(<<>>, att[s].add)
    BY <1>3 DEF Writes, Built, Absent
  <2>3. o.by = "us"
    BY <1>3 DEF Writes, Built
  <2>4. InOrder(Append(<<>>, att[s].add))
    BY <2>1, OneInOrder
  <2>5. InOrder(Append(att[s].remote.parts, att[s].add))
    BY DEF OrderInv, SightInOrder
  <2> QED
    BY <2>2, <2>3, <2>4, <2>5
<1>4. ASSUME NEW k \in Keys, NEW o, InOrder(o.parts), o.by = "us", bucket' = [bucket EXCEPT ![k] = o]
      PROVE  MergedInOrder' /\ Blank'
  <2>1. bucket'[k] = o /\ \A j \in Keys : j # k => bucket'[j] = bucket[j]
    BY <1>0, <1>4 DEF TypeOK
  <2> QED
    BY <1>4, <2>1 DEF OrderInv, MergedInOrder, Blank, InOrder
<1>5. MergedInOrder' /\ Blank' /\ LatesInOrder'
  <2>1. CASE UNCHANGED <<bucket, inflight>>
    BY <2>1 DEF OrderInv, MergedInOrder, Blank, LatesInOrder
  <2>2. ASSUME NEW s \in Sessions, NEW k \in Keys, NEW o \in Objects, Writes(s, o),
               \/ bucket' = [bucket EXCEPT ![k] = o] /\ UNCHANGED inflight
               \/ UNCHANGED bucket /\ \E remote : inflight' = inflight \cup {[key |-> k, remote |-> remote, obj |-> o]}
        PROVE  MergedInOrder' /\ Blank' /\ LatesInOrder'
    <3>1. InOrder(o.parts) /\ o.by = "us"
      BY <1>3, <2>2
    <3>2. LatesInOrder'
      BY <2>2, <3>1 DEF OrderInv, LatesInOrder
    <3>3. MergedInOrder' /\ Blank'
      <4>1. CASE UNCHANGED bucket
        BY <4>1 DEF OrderInv, MergedInOrder, Blank
      <4> QED
        BY <1>4, <2>2, <3>1, <4>1
    <3> QED
      BY <3>2, <3>3
  <2>3. ASSUME NEW p \in inflight, inflight' = inflight \ {p},
               bucket' = bucket \/ bucket' = [bucket EXCEPT ![p.key] = p.obj]
        PROVE  MergedInOrder' /\ Blank' /\ LatesInOrder'
    <3>1. p.key \in Keys /\ InOrder(p.obj.parts) /\ p.obj.by = "us"
      BY <1>0 DEF TypeOK, OrderInv, LatesInOrder
    <3>2. LatesInOrder'
      BY <2>3 DEF OrderInv, LatesInOrder
    <3>3. MergedInOrder' /\ Blank'
      <4>1. CASE UNCHANGED bucket
        BY <4>1 DEF OrderInv, MergedInOrder, Blank
      <4> QED
        BY <1>4, <2>3, <3>1, <4>1
    <3> QED
      BY <3>2, <3>3
  <2>4. ASSUME NEW k \in Keys, NEW by \in {"foreign", "corrupt"},
               bucket[k] = Absent, bucket' = [bucket EXCEPT ![k].by = by], UNCHANGED inflight
        PROVE  MergedInOrder' /\ Blank' /\ LatesInOrder'
    <3>1. bucket'[k].parts = <<>> /\ \A j \in Keys : j # k => bucket'[j] = bucket[j]
      BY <1>0, <2>4 DEF TypeOK, Absent
    <3>2. MergedInOrder' /\ Blank'
      BY <3>1 DEF OrderInv, MergedInOrder, Blank
    <3> QED
      BY <2>4, <3>2 DEF OrderInv, LatesInOrder
  <2> QED
    BY <1>1, <2>1, <2>2, <2>3, <2>4 DEF StoreStep
<1> QED
  BY <1>0, <1>2, <1>5 DEF OrderInv

LEMMA InitOrder == Init => OrderInv
<1> SUFFICES ASSUME Init PROVE OrderInv
  OBVIOUS
<1>1. \A k \in Keys : bucket[k].parts = <<>>
  BY DEF Init, Absent
<1>2. \A s \in Sessions : att[s].remote.parts = <<>> /\ att[s].add = {}
  BY DEF Init, Idle, Absent
<1>3. \A s \in Sessions : SightInOrder(s)
  BY <1>2, OneInOrder DEF SightInOrder
<1> QED
  BY <1>1, <1>3, InitType DEF OrderInv, MergedInOrder, Blank, LatesInOrder, Init

\* An object of this recorder holds every session once, in capture order, on any
\* endpoint and through any crashes, retries, renames and late PUTs.
THEOREM MergedInOrderHolds == Spec => []MergedInOrder
<1>1. OrderInv /\ [Next]_vars => OrderInv'
  BY OrderInductive
<1>2. OrderInv => MergedInOrder
  BY DEF OrderInv
<1> QED
  BY <1>1, <1>2, InitOrder, PTL DEF Spec

-----------------------------------------------------------------------------
(* Without conditional writes.  Where no foreign object appears and no PUT *)
(* is applied after its answer, the key's mutex takes the place of the     *)
(* precondition: an attempt that goes on to a PUT found nothing under the  *)
(* key (MayMerge), only the holder of the key's mutex writes under it or   *)
(* under its .aac key, and no attempt writes under an .aac key as its own, *)
(* for a session whose key is one is stored there.                         *)

Undisturbed == \A f \in Faults : f["late"] = 0 /\ f["foreign"] = 0

\* On the way to a PUT.
Writing == {"build", "put", "fbhead", "fbput"}

NoIntruder == faults["late"] = 0 /\ faults["foreign"] = 0 /\ inflight = {}
\* A session's key names an .aac only where uploadFallback stored it.
FallbackIsStored == \A x \in Sessions :
  /\ mem[x].key.ext = "aac" => StoredAt(x, mem[x].key)
  /\ disk[x].key.ext = "aac" => StoredAt(x, disk[x].key)
NothingThere(s) ==
  /\ pc[s] \in Writing => /\ att[s].key.ext = "m4a"
                          /\ att[s].remote = Absent /\ bucket[att[s].key] = Absent
  /\ pc[s] = "fbput" => bucket[FallbackKey(att[s].key)] = Absent

QuietInv == /\ IInv /\ MutexInv /\ OrderInv
            /\ NoIntruder /\ FallbackIsStored
            /\ \A s \in Sessions : NothingThere(s)

LEMMA QuietChecked == QuietInv => Preconditions
BY DEF QuietInv, NoIntruder, NothingThere, Writing, Preconditions, Checked

\* No fault but a crash, a shutdown and a failed sidecar is spent.
Spent == \/ UNCHANGED faults
         \/ \E f \in {"crash", "shutdown", "sidecar"} : faults' = [faults EXCEPT ![f] = @ - 1]

LEMMA SaveSpends == ASSUME NEW S, Save(S) PROVE Spent
BY DEF Save, Spent

LEMMA FailSpends ==
  ASSUME NEW s, NEW F, RenameGroup(s, F) \/ (\E err : FailThenReturn(s, F, err))
                       \/ (\E M, dest : CompleteGroup(s, M, dest, F))
  PROVE  Spent
BY SaveSpends DEF RenameGroup, FailThenReturn, CompleteGroup

LEMMA NoIntruderStays ==
  ASSUME TypeOK, NoIntruder, [Next]_vars
  PROVE  NoIntruder'
<1>1. ASSUME NEW s \in Sessions, Finalize(s) \/ ClaimGroup(s) \/ Outcome(s) PROVE Spent
  BY <1>1, SaveSpends DEF Finalize, ClaimGroup, Outcome, Spent
<1>2. ASSUME NEW s \in Sessions, Examine(s) PROVE Spent
  <2>1. \/ \E F : RenameGroup(s, F) \/ (\E err : FailThenReturn(s, F, err)) \/ (\E M, dest : CompleteGroup(s, M, dest, F))
        \/ \E S : Save(S)
    BY <1>2, ExamineShape DEF ExamineSteps
  <2> QED
    BY <2>1, FailSpends, SaveSpends
<1>3. ASSUME NEW s \in Sessions, AttemptError(s) \/ Build(s) \/ RemuxFails(s) \/ FallbackHead(s) \/ Put(s) \/ FallbackPut(s)
      PROVE  Spent
  BY <1>3, FailSpends DEF AttemptError, Build, RemuxFails, FallbackHead, Put, FallbackPut, PutObject, Spent
<1>4. ASSUME NEW s \in Sessions, PutError(s) \/ FallbackPutError(s) PROVE Spent
  BY <1>4 DEF PutError, FallbackPutError, PutFails, Spent, NoIntruder
<1>5. ASSUME NEW s \in Sessions, StartSession(s) \/ Retire(s) \/ ReadKey(s) \/ AcquireKey(s) \/ AcquireSlot(s)
               \/ LoopCancelled(s) \/ RecordUpload(s) \/ RemoveCapture(s) \/ Recorded(s) \/ Unlock(s)
      PROVE  Spent
  BY <1>5 DEF StartSession, Retire, ReadKey, AcquireKey, AcquireSlot, LoopCancelled, RecordUpload, RemoveCapture,
     Recorded, Unlock, Spent
<1>6. Shutdown \/ CancelUploads \/ Restart \/ UNCHANGED vars => Spent
  BY DEF Shutdown, CancelUploads, Restart, vars, Spent
<1>7. ~LateLand /\ \A k \in Keys, by \in {"foreign", "corrupt"} : ~ForeignPut(k, by)
  BY DEF NoIntruder, LateLand, ForeignPut
<1>8. Spent
  BY <1>1, <1>2, <1>3, <1>4, <1>5, <1>6, <1>7 DEF Next, LoopStep
<1>9. faults'["late"] = 0 /\ faults'["foreign"] = 0
  <2>1. \A f \in {"crash", "shutdown", "sidecar"} : "late" # f /\ "foreign" # f
    OBVIOUS
  <2>2. faults \in [FaultKinds -> Nat] /\ {"late", "foreign"} \subseteq FaultKinds
    BY DEF TypeOK, FaultKinds
  <2> QED
    BY <1>8, <2>1, <2>2 DEF Spent, NoIntruder
<1>10. inflight' = {}
  <2>1. ASSUME NEW s \in Sessions, Put(s) \/ PutError(s) \/ FallbackPut(s) \/ FallbackPutError(s)
        PROVE  UNCHANGED inflight
    BY <2>1 DEF Put, PutError, FallbackPut, FallbackPutError, PutObject, PutFails, storeVars, NoIntruder
  <2>2. ASSUME NEW s \in Sessions, StartSession(s) \/ Finalize(s) \/ Retire(s) \/ ReadKey(s) \/ AcquireKey(s)
                 \/ AcquireSlot(s) \/ LoopCancelled(s) \/ ClaimGroup(s) \/ Examine(s) \/ AttemptError(s)
                 \/ Build(s) \/ RemuxFails(s) \/ FallbackHead(s) \/ RecordUpload(s) \/ RemoveCapture(s)
                 \/ Recorded(s) \/ Unlock(s) \/ Outcome(s)
        PROVE  UNCHANGED inflight
    BY <2>2 DEF StartSession, Finalize, Retire, ReadKey, AcquireKey, AcquireSlot, LoopCancelled, ClaimGroup,
       Examine, AttemptError, Build, RemuxFails, FallbackHead, RecordUpload, RemoveCapture, Recorded,
       Unlock, Outcome, storeVars
  <2>3. Shutdown \/ CancelUploads \/ Restart \/ UNCHANGED vars => UNCHANGED inflight
    BY DEF Shutdown, CancelUploads, Restart, vars, storeVars
  <2> QED
    BY <1>7, <2>1, <2>2, <2>3 DEF Next, LoopStep, NoIntruder
<1> QED
  BY <1>9, <1>10 DEF NoIntruder

-----------------------------------------------------------------------------
\* Keys: where a step takes one from.
MemKey(x)  == \/ mem'[x].key = mem[x].key
              \/ mem'[x].key.ext = "m4a"
              \/ mem'[x].key = disk[x].key
              \/ mem'[x].state = "uploaded"
DiskKey(x) == \/ disk'[x].key = disk[x].key
              \/ disk'[x].key.ext = "m4a"
              \/ disk'[x].key = mem'[x].key
              \/ disk'[x].state = "uploaded"
KeysKnown == \A x \in Sessions : MemKey(x) /\ DiskKey(x)

LEMMA FallbackStays ==
  ASSUME TypeOK, TypeOK', FallbackIsStored, StoreKept, MemoryRight', UploadedIsStored', KeysKnown
  PROVE  FallbackIsStored'
<1> SUFFICES ASSUME NEW x \in Sessions
             PROVE  /\ mem'[x].key.ext = "aac" => StoredAtNext(x, mem'[x].key)
                    /\ disk'[x].key.ext = "aac" => StoredAtNext(x, disk'[x].key)
  BY StoredPrimed DEF FallbackIsStored, StoredAt, StoredAtNext
<1>1. mem[x].key \in Keys /\ disk[x].key \in Keys
  BY DEF TypeOK, SessionRecords
<1>2. /\ mem'[x].state = "uploaded" => StoredAtNext(x, mem'[x].key)
      /\ disk'[x].state = "uploaded" => StoredAtNext(x, disk'[x].key)
  BY DEF MemoryRight, UploadedIsStored, StoredAt, StoredAtNext
<1>3. mem'[x].key.ext = "aac" => StoredAtNext(x, mem'[x].key)
  BY <1>1, <1>2 DEF KeysKnown, MemKey, FallbackIsStored, StoreKept
<1> QED
  BY <1>1, <1>2, <1>3 DEF KeysKnown, DiskKey, FallbackIsStored, StoreKept

LEMMA SavedKeys == ASSUME NEW S, Save(S) PROVE \A x \in Sessions : disk'[x] = mem'[x] \/ disk'[x] = disk[x]
BY DEF Save

LEMMA SavesKnown ==
  ASSUME \A x \in Sessions : MemKey(x), UNCHANGED disk \/ \E S : Save(S)
  PROVE  KeysKnown
BY SavedKeys DEF KeysKnown, DiskKey

LEMMA StatesKnown ==
  ASSUME TypeOK, NEW S, NEW st, mem' = SetState(S, st), UNCHANGED disk \/ \E T : Save(T)
  PROVE  KeysKnown
<1>1. ASSUME NEW x \in Sessions PROVE MemKey(x)
  <2>1. mem[x] \in SessionRecords /\ mem'[x] = IF x \in S THEN [mem[x] EXCEPT !.state = st] ELSE mem[x]
    BY DEF TypeOK, SetState
  <2> QED
    BY <2>1 DEF SessionRecords, MemKey
<1> QED
  BY <1>1, SavesKnown

LEMMA SameKnown == ASSUME UNCHANGED mem, UNCHANGED disk \/ \E T : Save(T) PROVE KeysKnown
BY SavesKnown DEF MemKey

LEMMA FailKnown == ASSUME TypeOK, NEW s, NEW F, NEW err, FailThenReturn(s, F, err) PROVE KeysKnown
BY StatesKnown DEF FailThenReturn

LEMMA RenameKnown ==
  ASSUME TypeOK, NEW s \in Sessions, NEW F, RenameGroup(s, F), att[s].key.ext = "m4a"
  PROVE  KeysKnown
<1>1. PICK r \in {mem[x].renames : x \in att[s].group} :
        \/ FailThenReturn(s, F, "permanent")
        \/ /\ mem' = [x \in Sessions |->
                        IF x \in att[s].group
                          THEN [state |-> "finalized", renames |-> r + 1, key |-> WithSuffix(att[s].key, r + 2)]
                          ELSE mem[x]]
           /\ \E S : Save(S)
  BY DEF RenameGroup
<1>2. CASE FailThenReturn(s, F, "permanent")
  BY <1>2, FailKnown
<1>3. CASE ~FailThenReturn(s, F, "permanent")
  <2>1. att[s].key \in Keys
    BY DEF TypeOK, Attempts
  <2>2. \A n : WithSuffix(att[s].key, n).ext = "m4a"
    BY <2>1 DEF WithSuffix, Keys
  <2>3. \A x \in Sessions : MemKey(x)
    BY <1>1, <1>3, <2>2 DEF MemKey
  <2> QED
    BY <1>1, <1>3, <2>3, SavesKnown
<1> QED
  BY <1>2, <1>3

LEMMA CompleteKnown ==
  ASSUME TypeOK, NEW s \in Sessions, NEW M, NEW dest, NEW F, CompleteGroup(s, M, dest, F)
  PROVE  KeysKnown
<1>1. ASSUME NEW x \in Sessions PROVE MemKey(x)
  <2>1. mem[x] \in SessionRecords
    BY DEF TypeOK
  <2>2. mem'[x] = IF x \in M THEN [mem[x] EXCEPT !.state = "uploaded", !.key = dest]
                  ELSE IF x \in F THEN [mem[x] EXCEPT !.state = "failed"] ELSE mem[x]
    BY DEF CompleteGroup, SetState
  <2> QED
    BY <2>1, <2>2 DEF SessionRecords, MemKey
<1> QED
  BY <1>1, SavesKnown DEF CompleteGroup

\* An attempt on an .aac key has nothing to add: the group is stored there.
LEMMA NothingNew ==
  ASSUME QuietInv, NEW s \in Sessions, pc[s] = "examine", att[s].key.ext = "aac", att[s].group # {}
  PROVE  New(att[s].group, bucket[att[s].key]) = {}
<1>1. att[s].group \subseteq Sessions
  BY DEF QuietInv, MutexInv, TypeOK, Attempts
<1>2. \A x \in att[s].group : mem[x].key = att[s].key
  BY DEF QuietInv, MutexInv, MembersShareKey, Attempting
<1>3. \A x \in att[s].group : StoredAt(x, att[s].key)
  BY <1>1, <1>2 DEF QuietInv, FallbackIsStored
<1>4. att[s].group \subseteq Listed(bucket[att[s].key])
  BY <1>3 DEF StoredAt, Listed
<1> QED
  BY <1>4 DEF New, Locals

\* An attempt that goes on found nothing under its key, an .m4a; one that moves
\* its group away is about an .m4a as well.
LEMMA ExamineQuietly ==
  ASSUME QuietInv, CondWrites = FALSE, NEW s \in Sessions, Examine(s)
  PROVE  \/ \E F, err : FailThenReturn(s, F, err)
         \/ \E M, F : CompleteGroup(s, M, att[s].key, F)
         \/ \E F : RenameGroup(s, F) /\ att[s].key.ext = "m4a"
         \/ /\ att[s].key.ext = "m4a" /\ bucket[att[s].key] = Absent
            /\ \E add, S, T : /\ mem' = SetState(S, "failed") /\ Save(T)
                              /\ att' = [att EXCEPT ![s].add = add, ![s].done = Done(att[s].group, Absent),
                                                    ![s].remote = Absent]
                              /\ pc' = [pc EXCEPT ![s] = "build"]
<1> DEFINE g == att[s].group
           o == bucket[att[s].key]
           junk == {x \in New(g, o) : file[x] = "junk"}
           add == New(g, o) \ junk
<1>0. TypeOK /\ att[s].key \in Keys /\ o \in Objects /\ att[s].group \subseteq Sessions
  BY DEF QuietInv, IInv, TypeOK, Attempts
<1>1. att[s].key.ext \in {"m4a", "aac"}
  BY <1>0 DEF Keys
<1>2. ASSUME att[s].key.ext = "aac", NEW F, RenameGroup(s, F) PROVE add = {} /\ ~OutOfOrder(g, o) /\ ~PartsCap(g, o) /\ o.by = "us"
  <2>1. g # {}
    BY <1>2 DEF RenameGroup
  <2>2. New(g, o) = {}
    BY <1>2, <2>1, NothingNew DEF Examine
  <2>3. PICK x \in g : TRUE
    BY <2>1
  <2>4. StoredAt(x, att[s].key)
    <3>1. x \in Sessions /\ mem[x].key = att[s].key
      BY <1>0, <2>3 DEF Examine, QuietInv, MutexInv, MembersShareKey, Attempting
    <3> QED
      BY <1>2, <3>1 DEF QuietInv, FallbackIsStored
  <2> QED
    BY <2>2, <2>4 DEF OutOfOrder, PartsCap, StoredAt
<1>3. o.by = "none" => o = Absent
  <2>1. o.by = "none" => o.parts = <<>>
    BY <1>0 DEF QuietInv, OrderInv, Blank
  <2> QED
    BY <1>0, <2>1 DEF Objects, Absent
<1>4. MayMerge(o) => o.by # "us"
  BY DEF MayMerge
<1>5. \/ \E F, err : FailThenReturn(s, F, err)
      \/ \E M, F : CompleteGroup(s, M, att[s].key, F)
      \/ \E F : RenameGroup(s, F) /\ (o.by = "foreign" \/ OutOfOrder(g, o) \/ PartsCap(g, o) \/ add # {})
      \/ /\ o.by \in {"none", "us"} /\ add # {} /\ MayMerge(o)
         /\ \E S, T : mem' = SetState(S, "failed") /\ Save(T)
         /\ att' = [att EXCEPT ![s].add = add, ![s].done = Done(g, o), ![s].remote = o]
         /\ pc' = [pc EXCEPT ![s] = "build"]
  <2> HIDE DEF g, o, junk, add
  <2> QED
    BY DEF Examine, g, o, junk, add
<1>6. add # {} => att[s].key.ext = "m4a"
  <2>1. add # {} => g # {} /\ New(g, o) # {}
    BY DEF New, Locals
  <2> QED
    BY <1>1, <2>1, NothingNew DEF Examine
<1> HIDE DEF g, o, junk, add
<1>7. CASE \E F : RenameGroup(s, F) /\ (o.by = "foreign" \/ OutOfOrder(g, o) \/ PartsCap(g, o) \/ add # {})
  BY <1>1, <1>2, <1>7
<1>8. CASE /\ o.by \in {"none", "us"} /\ add # {} /\ MayMerge(o)
           /\ \E S, T : mem' = SetState(S, "failed") /\ Save(T)
           /\ att' = [att EXCEPT ![s].add = add, ![s].done = Done(g, o), ![s].remote = o]
           /\ pc' = [pc EXCEPT ![s] = "build"]
  BY <1>3, <1>4, <1>6, <1>8 DEF g, o
<1> QED
  BY <1>5, <1>7, <1>8

LEMMA LifecycleKnown ==
  ASSUME TypeOK, NEW s \in Sessions, StartSession(s) \/ Finalize(s) \/ Retire(s)
  PROVE  KeysKnown
<1>0. \A x \in Sessions : mem[x] \in SessionRecords /\ disk[x] \in SessionRecords
  BY DEF TypeOK
<1>1. CASE StartSession(s)
  <2>1. PICK pin \in SessionRecords :
          /\ pin.key.ext = "m4a"
          /\ mem' = [mem EXCEPT ![s] = pin]
          /\ disk' = [disk EXCEPT ![s] = pin]
    <3>1. PICK pin \in SessionRecords :
            /\ \/ pin = [state |-> "recording", key |-> BaseKey, renames |-> 0]
               \/ \E o \in Known : mem[o].key.ext = "m4a" /\ pin = [mem[o] EXCEPT !.state = "recording"]
            /\ mem' = [mem EXCEPT ![s] = pin]
            /\ disk' = [disk EXCEPT ![s] = pin]
      BY <1>1 DEF StartSession
    <3>2. CASE pin = [state |-> "recording", key |-> BaseKey, renames |-> 0]
      BY <3>1, <3>2 DEF BaseKey
    <3>3. CASE \E o \in Known : mem[o].key.ext = "m4a" /\ pin = [mem[o] EXCEPT !.state = "recording"]
      <4>1. PICK o \in Sessions : mem[o].key.ext = "m4a" /\ pin = [mem[o] EXCEPT !.state = "recording"]
        BY <3>3 DEF Known
      <4>2. pin.key = mem[o].key
        BY <1>0, <4>1 DEF SessionRecords
      <4> QED
        BY <3>1, <4>1, <4>2
    <3> QED
      BY <3>1, <3>2, <3>3
  <2> QED
    BY <2>1 DEF TypeOK, KeysKnown, MemKey, DiskKey
<1>2. CASE Finalize(s)
  <2>1. \A x \in Sessions : mem'[x] = mem[x] \/ mem'[x] = [mem[x] EXCEPT !.state = "finalized"]
    BY <1>2 DEF Finalize, TypeOK
  <2>2. \A x \in Sessions : MemKey(x)
    BY <1>0, <2>1 DEF SessionRecords, MemKey
  <2> QED
    BY <1>2, <2>2, SavesKnown DEF Finalize
<1>3. CASE Retire(s)
  <2>1. \A x \in Sessions : /\ mem'[x] = mem[x] \/ mem'[x] = [mem[x] EXCEPT !.state = "gone"]
                            /\ disk'[x] = disk[x] \/ disk'[x] = [disk[x] EXCEPT !.state = "gone"]
    BY <1>3 DEF Retire, TypeOK
  <2>2. \A x \in Sessions : mem'[x].key = mem[x].key /\ disk'[x].key = disk[x].key
    BY <1>0, <2>1 DEF SessionRecords
  <2> QED
    BY <2>2 DEF KeysKnown, MemKey, DiskKey
<1> QED
  BY <1>1, <1>2, <1>3

LEMMA LoopKnown ==
  ASSUME QuietInv, CondWrites = FALSE, NEW s \in Sessions, LoopStep(s)
  PROVE  KeysKnown
<1>0. TypeOK /\ \A x \in Sessions : mem[x] \in SessionRecords /\ disk[x] \in SessionRecords
  BY DEF QuietInv, IInv, TypeOK
<1>1. CASE ReadKey(s) \/ AcquireKey(s) \/ AcquireSlot(s) \/ LoopCancelled(s) \/ RemoveCapture(s) \/ Recorded(s)
           \/ Unlock(s) \/ Build(s) \/ PutError(s) \/ FallbackPutError(s)
  BY <1>1, SameKnown DEF ReadKey, AcquireKey, AcquireSlot, LoopCancelled, RemoveCapture, Recorded, Unlock, Build,
     PutError, FallbackPutError, PutFails
<1>2. CASE ClaimGroup(s)
  <2>1. \/ UNCHANGED mem /\ (UNCHANGED disk \/ \E T : Save(T))
        \/ mem' = SetState(Group(att[s].key), "uploading") /\ Save(Group(att[s].key))
    BY <1>2 DEF ClaimGroup
  <2> QED
    BY <1>0, <2>1, SameKnown, StatesKnown
<1>3. CASE Examine(s)
  <2>1. CASE \E F, err : FailThenReturn(s, F, err)
    BY <1>0, <2>1, FailKnown
  <2>2. CASE \E M, F : CompleteGroup(s, M, att[s].key, F)
    BY <1>0, <2>2, CompleteKnown
  <2>3. CASE \E F : RenameGroup(s, F) /\ att[s].key.ext = "m4a"
    BY <1>0, <2>3, RenameKnown
  <2>4. CASE \E S, T : mem' = SetState(S, "failed") /\ Save(T)
    BY <1>0, <2>4, StatesKnown
  <2> QED
    BY <1>3, <2>1, <2>2, <2>3, <2>4, ExamineQuietly
<1>4. CASE AttemptError(s) \/ RemuxFails(s) \/ FallbackHead(s) \/ Put(s) \/ FallbackPut(s)
  <2>1. pc[s] # "examine" => pc[s] \in Writing /\ att[s].key.ext = "m4a"
    BY <1>4 DEF AttemptError, RemuxFails, FallbackHead, Put, FallbackPut, Writing, QuietInv, NothingThere
  <2>2. CASE \E F, err : FailThenReturn(s, F, err)
    BY <1>0, <2>2, FailKnown
  <2>3. CASE \E M, dest, F : CompleteGroup(s, M, dest, F)
    BY <1>0, <2>3, CompleteKnown
  <2>4. CASE \E F : RenameGroup(s, F) /\ pc[s] # "examine"
    BY <1>0, <2>1, <2>4, RenameKnown
  <2>5. CASE UNCHANGED mem /\ UNCHANGED disk
    BY <2>5, SameKnown
  <2> QED
    BY <1>4, <2>2, <2>3, <2>4, <2>5 DEF AttemptError, RemuxFails, FallbackHead, Put, FallbackPut, PutObject
<1>5. CASE RecordUpload(s)
  <2>1. UNCHANGED mem
    BY <1>5 DEF RecordUpload
  <2>2. \A x \in Sessions : disk'[x] = disk[x] \/ disk'[x].state = "uploaded"
    BY <1>0, <1>5 DEF RecordUpload, TypeOK, QuietInv, IInv
  <2> QED
    BY <2>1, <2>2 DEF KeysKnown, MemKey, DiskKey
<1>6. CASE Outcome(s)
  <2>1. /\ \A x \in Sessions : mem'[x] = mem[x] \/ mem'[x] = [mem[x] EXCEPT !.state = "finalized"]
        /\ UNCHANGED disk \/ \E T : Save(T)
    BY <1>0, <1>6 DEF Outcome, TypeOK
  <2>2. \A x \in Sessions : MemKey(x)
    BY <1>0, <2>1 DEF SessionRecords, MemKey
  <2> QED
    BY <2>1, <2>2, SavesKnown
<1> QED
  BY <1>1, <1>2, <1>3, <1>4, <1>5, <1>6 DEF LoopStep

LEMMA RestartKnown == ASSUME TypeOK, Restart PROVE KeysKnown
<1>1. PICK lender \in [Sessions -> Sessions \cup {Nobody}] :
        /\ \A s \in Sessions : NewestOf(lender[s], Lenders(s))
        /\ mem' = [s \in Sessions |-> [Migrated(s, lender[s]) EXCEPT !.state = RecoveredState(s)]]
        /\ disk' = [s \in Sessions |-> IF Superseded(s) THEN mem'[s] ELSE Migrated(s, lender[s])]
  BY DEF Restart
<1>2. ASSUME NEW s \in Sessions
      PROVE  /\ mem'[s].key = Migrated(s, lender[s]).key
             /\ disk'[s] = mem'[s] \/ disk'[s] = Migrated(s, lender[s])
             /\ Migrated(s, lender[s]).key = disk[s].key \/ Migrated(s, lender[s]).key.ext = "m4a"
  <2>1. disk[s] \in SessionRecords
    BY DEF TypeOK
  <2>2. \E S, K, N : /\ Migrated(s, lender[s]) = [state |-> S, key |-> K, renames |-> N]
                     /\ K = disk[s].key \/ K.ext = "m4a"
    <3>1. lender[s] # Nobody => disk[lender[s]].key.ext = "m4a"
      <4>1. NewestOf(lender[s], Lenders(s)) /\ lender[s] \in Sessions \cup {Nobody}
        BY <1>1
      <4> QED
        BY <4>1 DEF NewestOf, Lenders
    <3>2. BaseKey.ext = "m4a"
      BY DEF BaseKey
    <3> QED
      BY <2>1, <3>1, <3>2 DEF Migrated, SessionRecords
  <2>3. mem'[s] = [Migrated(s, lender[s]) EXCEPT !.state = RecoveredState(s)]
    BY <1>1
  <2>4. mem'[s].key = Migrated(s, lender[s]).key /\ (Migrated(s, lender[s]).key = disk[s].key \/ Migrated(s, lender[s]).key.ext = "m4a")
    BY <2>2, <2>3
  <2> QED
    BY <1>1, <2>4
<1> QED
  BY <1>2 DEF KeysKnown, MemKey, DiskKey

LEMMA AllKnown == ASSUME QuietInv, CondWrites = FALSE, [Next]_vars PROVE KeysKnown
<1>1. TypeOK
  BY DEF QuietInv, IInv
<1>2. Shutdown \/ CancelUploads \/ LateLand \/ UNCHANGED vars
      \/ (\E k \in Keys, by \in {"foreign", "corrupt"} : ForeignPut(k, by)) => UNCHANGED <<mem, disk>>
  BY DEF Shutdown, CancelUploads, LateLand, vars, ForeignPut
<1> QED
  BY <1>1, <1>2, SameKnown, LifecycleKnown, LoopKnown, RestartKnown DEF Next

-----------------------------------------------------------------------------
\* Nothing is stored under the keys of an attempt until its own PUT.

LEMMA ReturnAlone ==
  ASSUME TypeOK, NEW r \in Sessions,
         \/ \E err : Return(r, err)
         \/ \E F : RenameGroup(r, F) \/ \E err : FailThenReturn(r, F, err)
         \/ \E M, dest, F : CompleteGroup(r, M, dest, F)
  PROVE  /\ pc'[r] \notin Writing
         /\ \A s \in Sessions : s # r => pc'[s] = pc[s] /\ att'[s] = att[s]
BY DEF TypeOK, Return, RenameGroup, FailThenReturn, CompleteGroup, Writing

\* A loop touches only its own attempt.
LEMMA LoopAlone ==
  ASSUME TypeOK, NEW r \in Sessions, LoopStep(r)
  PROVE  \A s \in Sessions : s # r => pc'[s] = pc[s] /\ att'[s] = att[s]
<1>1. CASE ReadKey(r) \/ AcquireKey(r) \/ AcquireSlot(r) \/ LoopCancelled(r) \/ Unlock(r) \/ RecordUpload(r) \/ RemoveCapture(r)
  BY <1>1 DEF ReadKey, AcquireKey, AcquireSlot, LoopCancelled, Unlock, RecordUpload, RemoveCapture, TypeOK
<1>2. CASE Outcome(r)
  BY <1>2 DEF Outcome, LoopEnds, LoopRepeats, TypeOK
<1>3. CASE ClaimGroup(r)
  <2>1. (\E err : Return(r, err)) \/ (att' = [att EXCEPT ![r].group = Group(att[r].key)] /\ pc' = [pc EXCEPT ![r] = "examine"])
    BY <1>3 DEF ClaimGroup
  <2> QED
    BY <2>1, ReturnAlone DEF TypeOK
<1>4. CASE Examine(r)
  <2>1. \/ \E F : RenameGroup(r, F) \/ \E err : FailThenReturn(r, F, err)
        \/ \E M, dest, F : CompleteGroup(r, M, dest, F)
        \/ \E F, add \in SUBSET att[r].group :
             /\ att' = [att EXCEPT ![r].add = add, ![r].done = Done(att[r].group, bucket[att[r].key]),
                                   ![r].remote = bucket[att[r].key]]
             /\ pc' = [pc EXCEPT ![r] = "build"]
    BY <1>4, ExamineShape DEF ExamineSteps
  <2> QED
    BY <2>1, ReturnAlone DEF TypeOK
<1>5. CASE AttemptError(r) \/ Build(r) \/ RemuxFails(r) \/ FallbackHead(r) \/ Put(r) \/ PutError(r)
           \/ FallbackPut(r) \/ FallbackPutError(r) \/ Recorded(r)
  <2>1. \/ \E err : Return(r, err)
        \/ \E F : RenameGroup(r, F) \/ \E err : FailThenReturn(r, F, err)
        \/ \E M, dest, F : CompleteGroup(r, M, dest, F)
        \/ (\E p : pc' = [pc EXCEPT ![r] = p]) /\ UNCHANGED att
    BY <1>5 DEF AttemptError, Build, RemuxFails, FallbackHead, Put, PutError, FallbackPut, FallbackPutError, Recorded,
       PutObject, PutFails
  <2> QED
    BY <2>1, ReturnAlone DEF TypeOK
<1> QED
  BY <1>1, <1>2, <1>3, <1>4, <1>5 DEF LoopStep

\* ... and writes only under the keys of that attempt.
LEMMA LoopWrites ==
  ASSUME NEW r \in Sessions, LoopStep(r)
  PROVE  \/ UNCHANGED bucket
         \/ pc[r] = "put" /\ \E o : bucket' = [bucket EXCEPT ![att[r].key] = o]
         \/ pc[r] = "fbput" /\ \E o : bucket' = [bucket EXCEPT ![FallbackKey(att[r].key)] = o]
<1>1. CASE Put(r) \/ PutError(r) \/ FallbackPut(r) \/ FallbackPutError(r)
  BY <1>1 DEF Put, PutError, FallbackPut, FallbackPutError, PutObject, PutFails, storeVars
<1>2. CASE ReadKey(r) \/ AcquireKey(r) \/ AcquireSlot(r) \/ LoopCancelled(r) \/ ClaimGroup(r) \/ Examine(r)
           \/ AttemptError(r) \/ Build(r) \/ RemuxFails(r) \/ FallbackHead(r) \/ RecordUpload(r)
           \/ RemoveCapture(r) \/ Recorded(r) \/ Unlock(r) \/ Outcome(r)
  BY <1>2 DEF ReadKey, AcquireKey, AcquireSlot, LoopCancelled, ClaimGroup, Examine, AttemptError, Build, RemuxFails,
     FallbackHead, RecordUpload, RemoveCapture, Recorded, Unlock, Outcome, storeVars
<1> QED
  BY <1>1, <1>2 DEF LoopStep

LEMMA KeysApart ==
  ASSUME NEW k \in Keys, NEW j \in Keys, k.ext = "m4a", j.ext = "m4a", k # j
  PROVE  FallbackKey(k) # FallbackKey(j) /\ FallbackKey(k) # j /\ FallbackKey(j) # k
BY DEF Keys, FallbackKey

LEMMA OwnAttempt ==
  ASSUME QuietInv, CondWrites = FALSE, NEW s \in Sessions, LoopStep(s)
  PROVE  NothingThere(s)'
<1>0. TypeOK
  BY DEF QuietInv, IInv
<1>1. pc'[s] \notin Writing => NothingThere(s)'
  BY DEF NothingThere, Writing
<1>2. CASE ReadKey(s) \/ AcquireKey(s) \/ AcquireSlot(s) \/ LoopCancelled(s) \/ RecordUpload(s) \/ RemoveCapture(s) \/ Unlock(s)
  <2>1. pc'[s] \notin Writing
    BY <1>0, <1>2 DEF ReadKey, AcquireKey, AcquireSlot, LoopCancelled, Unlock, RecordUpload, RemoveCapture, TypeOK, Writing
  <2> QED
    BY <1>1, <2>1
<1>3. CASE Outcome(s)
  <2>1. pc'[s] \notin Writing
    BY <1>0, <1>3 DEF Outcome, LoopEnds, LoopRepeats, TypeOK, Writing
  <2> QED
    BY <1>1, <2>1
<1>4. CASE ClaimGroup(s)
  <2>1. (\E err : Return(s, err)) \/ pc' = [pc EXCEPT ![s] = "examine"]
    BY <1>4 DEF ClaimGroup
  <2>2. pc'[s] \notin Writing
    BY <1>0, <2>1, ReturnAlone DEF TypeOK, Writing
  <2> QED
    BY <1>1, <2>2
<1>5. CASE Examine(s)
  <2>1. CASE \/ \E F : RenameGroup(s, F) \/ \E err : FailThenReturn(s, F, err)
             \/ \E M, dest, F : CompleteGroup(s, M, dest, F)
    BY <1>0, <1>1, <2>1, ReturnAlone
  <2>2. CASE /\ att[s].key.ext = "m4a" /\ bucket[att[s].key] = Absent
             /\ \E add, S, T : /\ mem' = SetState(S, "failed") /\ Save(T)
                               /\ att' = [att EXCEPT ![s].add = add, ![s].done = Done(att[s].group, Absent),
                                                     ![s].remote = Absent]
                               /\ pc' = [pc EXCEPT ![s] = "build"]
    <3>1. att[s] \in Attempts /\ UNCHANGED bucket
      BY <1>0, <1>5 DEF TypeOK, Examine, storeVars
    <3>2. PICK add : att'[s] = [att[s] EXCEPT !.add = add, !.done = Done(att[s].group, Absent), !.remote = Absent]
      <4>1. PICK add : att' = [att EXCEPT ![s].add = add, ![s].done = Done(att[s].group, Absent), ![s].remote = Absent]
        BY <2>2
      <4> QED
        BY <1>0, <4>1 DEF TypeOK
    <3>3. att'[s].key = att[s].key /\ att'[s].remote = Absent
      BY <3>1, <3>2 DEF Attempts
    <3>4. pc'[s] = "build"
      BY <1>0, <2>2 DEF TypeOK
    <3> QED
      BY <2>2, <3>1, <3>3, <3>4 DEF NothingThere
  <2> QED
    BY <1>5, <2>1, <2>2, ExamineQuietly
<1>6. CASE Put(s) \/ PutError(s) \/ FallbackPut(s) \/ FallbackPutError(s) \/ AttemptError(s) \/ Recorded(s)
  <2>1. \/ \E err : Return(s, err)
        \/ \E F : RenameGroup(s, F) \/ \E err : FailThenReturn(s, F, err)
        \/ \E M, dest, F : CompleteGroup(s, M, dest, F)
    BY <1>6 DEF Put, PutError, FallbackPut, FallbackPutError, AttemptError, Recorded, PutObject, PutFails
  <2> QED
    BY <1>0, <1>1, <2>1, ReturnAlone
<1>7. CASE Build(s) \/ RemuxFails(s) \/ FallbackHead(s)
  <2>1. CASE \/ \E err : Return(s, err)
             \/ \E F : RenameGroup(s, F) \/ \E err : FailThenReturn(s, F, err)
             \/ \E M, dest, F : CompleteGroup(s, M, dest, F)
    BY <1>0, <1>1, <2>1, ReturnAlone
  <2>2. CASE /\ pc' = [pc EXCEPT ![s] = "put"] \/ pc' = [pc EXCEPT ![s] = "fbhead"]
                \/ (pc' = [pc EXCEPT ![s] = "fbput"] /\ bucket[FallbackKey(att[s].key)] = Absent)
             /\ UNCHANGED <<att, bucket>> /\ pc[s] \in Writing
    <3>1. \/ pc'[s] \in {"put", "fbhead"}
          \/ pc'[s] = "fbput" /\ bucket[FallbackKey(att[s].key)] = Absent
      BY <1>0, <2>2 DEF TypeOK
    <3>2. NothingThere(s)
      BY DEF QuietInv
    <3> QED
      BY <2>2, <3>1, <3>2 DEF NothingThere
  <2> QED
    BY <1>7, <2>1, <2>2 DEF Build, RemuxFails, FallbackHead, Writing, storeVars
<1> QED
  BY <1>2, <1>3, <1>4, <1>5, <1>6, <1>7 DEF LoopStep

LEMMA OtherAttempt ==
  ASSUME QuietInv, NEW r \in Sessions, LoopStep(r), NEW s \in Sessions, s # r
  PROVE  NothingThere(s)'
<1>0. TypeOK /\ att[s].key \in Keys /\ att[r].key \in Keys
  BY DEF QuietInv, IInv, TypeOK, Attempts
<1>1. pc'[s] = pc[s] /\ att'[s] = att[s] /\ NothingThere(s) /\ NothingThere(r)
  BY <1>0, LoopAlone DEF QuietInv
<1>2. CASE pc[s] \notin Writing
  BY <1>1, <1>2 DEF NothingThere, Writing
<1>3. CASE pc[s] \in Writing /\ UNCHANGED bucket
  BY <1>1, <1>3 DEF NothingThere
<1>4. CASE pc[s] \in Writing /\ pc[r] \in {"put", "fbput"}
  <2>1. att[s].key # att[r].key
    BY <1>4 DEF QuietInv, MutexInv, LockHeld, Locked, PCs, Writing
  <2>2. att[s].key.ext = "m4a" /\ att[r].key.ext = "m4a"
    BY <1>1, <1>4 DEF NothingThere, Writing
  <2>3. /\ FallbackKey(att[s].key) # FallbackKey(att[r].key)
        /\ FallbackKey(att[s].key) # att[r].key /\ FallbackKey(att[r].key) # att[s].key
    BY <1>0, <2>1, <2>2, KeysApart
  <2>4. FallbackKey(att[s].key) \in Keys
    BY <1>0, KeyTypes
  <2>5. bucket'[att[s].key] = bucket[att[s].key] /\ bucket'[FallbackKey(att[s].key)] = bucket[FallbackKey(att[s].key)]
    BY <1>0, <2>1, <2>3, <2>4, LoopWrites DEF TypeOK
  <2> QED
    BY <1>1, <2>5 DEF NothingThere
<1> QED
  BY <1>2, <1>3, <1>4, LoopWrites

LEMMA NothingThereStays ==
  ASSUME QuietInv, CondWrites = FALSE, [Next]_vars
  PROVE  \A s \in Sessions : NothingThere(s)'
<1>0. TypeOK /\ \A s \in Sessions : NothingThere(s)
  BY DEF QuietInv, IInv
<1>1. ASSUME NEW r \in Sessions, LoopStep(r) PROVE \A s \in Sessions : NothingThere(s)'
  BY <1>1, OwnAttempt, OtherAttempt
<1>2. CASE UNCHANGED <<pc, att, bucket>>
  BY <1>0, <1>2 DEF NothingThere
<1>3. ASSUME NEW r \in Sessions, Finalize(r) PROVE \A s \in Sessions : NothingThere(s)'
  <2>1. UNCHANGED <<att, bucket>> /\ \A s \in Sessions : pc'[s] = pc[s] \/ pc'[s] = "start"
    BY <1>0, <1>3 DEF Finalize, storeVars, TypeOK
  <2> QED
    BY <1>0, <2>1 DEF NothingThere, Writing
<1>4. CASE Restart
  <2>1. \A s \in Sessions : pc'[s] \in {"start", "off"}
    BY <1>4 DEF Restart
  <2> QED
    BY <2>1 DEF NothingThere, Writing
<1>5. ~LateLand /\ \A k \in Keys, by \in {"foreign", "corrupt"} : ~ForeignPut(k, by)
  BY DEF QuietInv, NoIntruder, LateLand, ForeignPut
<1>6. ASSUME NEW r \in Sessions, StartSession(r) \/ Retire(r) PROVE UNCHANGED <<pc, att, bucket>>
  BY <1>6 DEF StartSession, Retire, storeVars
<1>7. Shutdown \/ CancelUploads \/ UNCHANGED vars => UNCHANGED <<pc, att, bucket>>
  BY DEF Shutdown, CancelUploads, vars, storeVars
<1> QED
  BY <1>1, <1>2, <1>3, <1>4, <1>5, <1>6, <1>7 DEF Next

LEMMA QuietInductive == ASSUME QuietInv, CondWrites = FALSE, [Next]_vars PROVE QuietInv'
<1>1. TypeOK /\ Preconditions /\ IInv /\ MutexInv /\ OrderInv /\ NoIntruder /\ FallbackIsStored
  BY QuietChecked DEF QuietInv, IInv
<1>2. IInv' /\ MutexInv' /\ OrderInv' /\ NoIntruder'
  BY <1>1, NextInv, NextMutex, OrderInductive, NoIntruderStays
<1>3. StoreKept
  BY <1>1, BucketStep DEF StoreKept, StoredAt, StoredAtNext
<1>4. FallbackIsStored'
  BY <1>1, <1>2, <1>3, AllKnown, FallbackStays DEF IInv
<1> QED
  BY <1>2, <1>4, NothingThereStays DEF QuietInv

LEMMA QuietInit == ASSUME Undisturbed, Init PROVE QuietInv
<1>1. \A s \in Sessions : mem[s].key = BaseKey /\ disk[s].key = BaseKey /\ pc[s] = "off"
  BY DEF Init
<1>2. NoIntruder /\ FallbackIsStored /\ \A s \in Sessions : NothingThere(s)
  BY <1>1 DEF Init, NoIntruder, Undisturbed, FallbackIsStored, BaseKey, NothingThere, Writing
<1> QED
  BY <1>2, InitInv, InitMutex, InitOrder DEF QuietInv

-----------------------------------------------------------------------------
(* A session is given up (failed) only without audio on disk.              *)

NoAudioFailed == \A s \in Sessions :
  mem[s].state = "failed" \/ disk[s].state = "failed" => file[s] # "audio"
EarlyNotFailed == \A s \in Sessions : mem[s].state \in Early => disk[s].state # "failed"
FailedInv == TypeOK /\ NoAudioFailed /\ EarlyNotFailed

\* What a step may do to the word "failed" and to the files.
FailFrame(x) ==
  /\ mem'[x].state = "failed" => mem[x].state = "failed" \/ disk[x].state = "failed" \/ file[x] # "audio"
  /\ disk'[x].state = "failed" => mem'[x].state = "failed" \/ disk[x].state = "failed"
  /\ file'[x] = "audio" => file[x] = "audio" \/ (mem'[x].state # "failed" /\ disk'[x].state # "failed")
  /\ mem'[x].state \in Early => mem[x].state \in Early \/ (Restart /\ disk'[x].state # "failed")

LEMMA FailedKept ==
  ASSUME FailedInv, TypeOK', \A x \in Sessions : FailFrame(x)
  PROVE  FailedInv'
<1>1. EarlyNotFailed'
  BY DEF FailedInv, EarlyNotFailed, FailFrame, Early
<1>2. NoAudioFailed'
  BY DEF FailedInv, NoAudioFailed, FailFrame
<1> QED
  BY <1>1, <1>2 DEF FailedInv

LEMMA SaveFrame ==
  ASSUME UNCHANGED file, UNCHANGED disk \/ \E S : Save(S),
         \A x \in Sessions : /\ mem'[x].state = "failed" => mem[x].state = "failed" \/ file[x] # "audio"
                             /\ mem'[x].state \in Early => mem[x].state \in Early
  PROVE  \A x \in Sessions : FailFrame(x)
BY SavedKeys DEF FailFrame

LEMMA SetStateFrame ==
  ASSUME TypeOK, UNCHANGED file, NEW S, NEW st, mem' = SetState(S, st), UNCHANGED disk \/ \E T : Save(T),
         st \notin Early, st = "failed" => \A x \in S : file[x] # "audio"
  PROVE  \A x \in Sessions : FailFrame(x)
<1>1. ASSUME NEW x \in Sessions
      PROVE  mem'[x].state = mem[x].state \/ (x \in S /\ mem'[x].state = st)
  <2>1. mem[x] \in SessionRecords /\ mem'[x] = IF x \in S THEN [mem[x] EXCEPT !.state = st] ELSE mem[x]
    BY DEF TypeOK, SetState
  <2> QED
    BY <2>1 DEF SessionRecords
<1> QED
  BY <1>1, SaveFrame

\* Sessions without audio on disk.
Mute(F) == \A x \in F : file[x] # "audio"

LEMMA FailFails ==
  ASSUME TypeOK, UNCHANGED file, NEW s, NEW F, Mute(F), NEW err, FailThenReturn(s, F, err)
  PROVE  \A x \in Sessions : FailFrame(x)
BY SetStateFrame DEF FailThenReturn, Mute, Early

LEMMA RenameFails ==
  ASSUME TypeOK, UNCHANGED file, NEW s \in Sessions, NEW F, Mute(F), RenameGroup(s, F)
  PROVE  \A x \in Sessions : FailFrame(x)
<1>1. PICK r \in {mem[x].renames : x \in att[s].group} :
        \/ FailThenReturn(s, F, "permanent")
        \/ /\ mem' = [x \in Sessions |->
                        IF x \in att[s].group
                          THEN [state |-> "finalized", renames |-> r + 1, key |-> WithSuffix(att[s].key, r + 2)]
                          ELSE mem[x]]
           /\ \E S : Save(S)
  BY DEF RenameGroup
<1>2. CASE FailThenReturn(s, F, "permanent")
  BY <1>2, FailFails
<1>3. CASE ~FailThenReturn(s, F, "permanent")
  <2>1. \A x \in Sessions : mem'[x].state = "finalized" \/ mem'[x].state = mem[x].state
    BY <1>1, <1>3
  <2> QED
    BY <1>1, <1>3, <2>1, SaveFrame DEF Early
<1> QED
  BY <1>2, <1>3

LEMMA CompleteFails ==
  ASSUME TypeOK, UNCHANGED file, NEW s \in Sessions, NEW M, NEW dest, NEW F, Mute(F), CompleteGroup(s, M, dest, F)
  PROVE  \A x \in Sessions : FailFrame(x)
<1>1. ASSUME NEW x \in Sessions
      PROVE  \/ mem'[x].state = "uploaded" \/ mem'[x].state = mem[x].state
             \/ mem'[x].state = "failed" /\ x \in F
  <2>1. mem[x] \in SessionRecords
    BY DEF TypeOK
  <2>2. mem'[x] = IF x \in M THEN [mem[x] EXCEPT !.state = "uploaded", !.key = dest]
                  ELSE IF x \in F THEN [mem[x] EXCEPT !.state = "failed"] ELSE mem[x]
    BY DEF CompleteGroup, SetState
  <2> QED
    BY <2>1, <2>2 DEF SessionRecords
<1>2. \E S : Save(S)
  BY DEF CompleteGroup
<1> QED
  BY <1>1, <1>2, SaveFrame DEF Mute, Early

LEMMA LifecycleFails ==
  ASSUME FailedInv, NEW s \in Sessions, StartSession(s) \/ Finalize(s) \/ Retire(s)
  PROVE  \A x \in Sessions : FailFrame(x)
<1>0. \A x \in Sessions : mem[x] \in SessionRecords /\ disk[x] \in SessionRecords
  BY DEF FailedInv, TypeOK
<1>1. CASE StartSession(s)
  <2>1. PICK pin \in SessionRecords :
          /\ pin.state = "recording"
          /\ mem' = [mem EXCEPT ![s] = pin]
          /\ disk' = [disk EXCEPT ![s] = pin]
    <3>1. PICK pin \in SessionRecords :
            /\ \/ pin = [state |-> "recording", key |-> BaseKey, renames |-> 0]
               \/ \E o \in Known : pin = [mem[o] EXCEPT !.state = "recording"]
            /\ mem' = [mem EXCEPT ![s] = pin]
            /\ disk' = [disk EXCEPT ![s] = pin]
      BY <1>1 DEF StartSession
    <3>2. pin.state = "recording"
      BY <1>0, <3>1 DEF Known, SessionRecords
    <3> QED
      BY <3>1, <3>2
  <2>2. file' = [file EXCEPT ![s] = "empty"] /\ mem[s].state \in Early
    BY <1>1 DEF StartSession, Early
  <2>3. FailFrame(s)
    BY <2>1, <2>2 DEF FailedInv, TypeOK, FailFrame
  <2>4. \A x \in Sessions : x # s => FailFrame(x)
    BY <2>1, <2>2 DEF FailedInv, TypeOK, FailFrame
  <2> QED
    BY <2>3, <2>4
<1>2. CASE Finalize(s)
  <2>1. /\ mem'[s] = [mem[s] EXCEPT !.state = "finalized"] /\ mem[s].state = "recording"
        /\ file'[s] = Kind[s]
        /\ \A x \in Sessions : disk'[x] = mem'[x] \/ disk'[x] = disk[x]
        /\ \A x \in Sessions : x # s => mem'[x] = mem[x] /\ file'[x] = file[x] /\ disk'[x] = disk[x]
    <3>1. \E W \in SUBSET {s} : disk' = [x \in Sessions |-> IF x \in W THEN mem'[x] ELSE disk[x]]
      BY <1>2 DEF Finalize, Save
    <3> QED
      BY <1>2, <3>1 DEF Finalize, FailedInv, TypeOK
  <2>2. mem'[s].state = "finalized"
    BY <1>0, <2>1 DEF SessionRecords
  <2>3. disk[s].state # "failed"
    BY <2>1 DEF FailedInv, EarlyNotFailed, Early
  <2>4. FailFrame(s)
    BY <2>1, <2>2, <2>3 DEF FailFrame, Early
  <2>5. \A x \in Sessions : x # s => FailFrame(x)
    BY <2>1 DEF FailFrame
  <2> QED
    BY <2>4, <2>5
<1>3. CASE Retire(s)
  <2>1. /\ mem'[s].state = "gone" /\ disk'[s].state = "gone" /\ file'[s] = "none"
        /\ \A x \in Sessions : x # s => mem'[x] = mem[x] /\ disk'[x] = disk[x] /\ file'[x] = file[x]
    BY <1>0, <1>3 DEF Retire, FailedInv, TypeOK, SessionRecords
  <2>2. FailFrame(s)
    BY <2>1 DEF FailFrame, Early
  <2>3. \A x \in Sessions : x # s => FailFrame(x)
    BY <2>1 DEF FailFrame
  <2> QED
    BY <2>2, <2>3
<1> QED
  BY <1>1, <1>2, <1>3

LEMMA ExamineFails ==
  ASSUME FailedInv, NEW s \in Sessions, Examine(s)
  PROVE  \A x \in Sessions : FailFrame(x)
<1> DEFINE g == att[s].group
           o == bucket[att[s].key]
           junk == {x \in New(g, o) : file[x] = "junk"}
           add == New(g, o) \ junk
<1>1. Mute(Empties(g)) /\ Mute(Failed(g, o)) /\ Mute(Failed(g, o) \cup junk)
  BY DEF Mute, Failed, Empties, Missing
<1> HIDE DEF g, o, junk, add
<1>2. UNCHANGED file
  BY <1>1 DEF Examine
<1>3. \/ RenameGroup(s, Empties(g))
      \/ FailThenReturn(s, Empties(g), "permanent")
      \/ RenameGroup(s, Failed(g, o))
      \/ FailThenReturn(s, Failed(g, o) \cup junk, "nil")
      \/ CompleteGroup(s, Done(g, o), att[s].key, Failed(g, o) \cup junk)
      \/ RenameGroup(s, Failed(g, o) \cup junk)
      \/ mem' = SetState(Failed(g, o) \cup junk, "failed") /\ Save(Failed(g, o) \cup junk \cup add)
  BY DEF Examine, g, o, junk, add
<1>4. CASE mem' = SetState(Failed(g, o) \cup junk, "failed") /\ Save(Failed(g, o) \cup junk \cup add)
  BY <1>1, <1>2, <1>4, SetStateFrame DEF FailedInv, Mute, Early
<1> QED
  BY <1>1, <1>2, <1>3, <1>4, FailFails, RenameFails, CompleteFails DEF FailedInv

LEMMA LoopFails ==
  ASSUME FailedInv, NEW s \in Sessions, LoopStep(s)
  PROVE  \A x \in Sessions : FailFrame(x)
<1>0. TypeOK /\ Mute({}) /\ \A x \in Sessions : mem[x] \in SessionRecords /\ disk[x] \in SessionRecords
  BY DEF FailedInv, TypeOK, Mute
<1>1. CASE ReadKey(s) \/ AcquireKey(s) \/ AcquireSlot(s) \/ LoopCancelled(s) \/ Recorded(s)
           \/ Unlock(s) \/ Build(s) \/ PutError(s) \/ FallbackPutError(s)
  <2>1. UNCHANGED <<mem, disk, file>>
    BY <1>1 DEF ReadKey, AcquireKey, AcquireSlot, LoopCancelled, Recorded, Unlock, Build, PutError, FallbackPutError, PutFails
  <2> QED
    BY <2>1, SaveFrame
<1>2. CASE ClaimGroup(s)
  <2>1. UNCHANGED file
    BY <1>2 DEF ClaimGroup
  <2>2. \/ UNCHANGED mem /\ (UNCHANGED disk \/ \E T : Save(T))
        \/ mem' = SetState(Group(att[s].key), "uploading") /\ Save(Group(att[s].key))
    BY <1>2 DEF ClaimGroup
  <2>3. CASE UNCHANGED mem /\ (UNCHANGED disk \/ \E T : Save(T))
    BY <2>1, <2>3, SaveFrame
  <2>4. CASE mem' = SetState(Group(att[s].key), "uploading") /\ Save(Group(att[s].key))
    BY <1>0, <2>1, <2>4, SetStateFrame DEF Early
  <2> QED
    BY <2>2, <2>3, <2>4
<1>3. CASE Examine(s)
  BY <1>3, ExamineFails
<1>4. CASE AttemptError(s)
  <2>1. \E F : Mute(F) /\ FailThenReturn(s, F, "retry")
    BY <1>4 DEF AttemptError, Mute, Empties
  <2>2. UNCHANGED file
    BY <1>4 DEF AttemptError
  <2> QED
    BY <1>0, <2>1, <2>2, FailFails
<1>5. CASE RemuxFails(s) \/ FallbackHead(s) \/ Put(s) \/ FallbackPut(s)
  <2>1. UNCHANGED file
    BY <1>5 DEF RemuxFails, FallbackHead, Put, FallbackPut
  <2>2. \/ UNCHANGED <<mem, disk>>
        \/ RenameGroup(s, {})
        \/ \E M, dest : CompleteGroup(s, M, dest, {})
    BY <1>5 DEF RemuxFails, FallbackHead, Put, FallbackPut, PutObject
  <2>3. CASE UNCHANGED <<mem, disk>>
    BY <2>1, <2>3, SaveFrame
  <2> QED
    BY <1>0, <2>1, <2>2, <2>3, RenameFails, CompleteFails
<1>6. CASE RecordUpload(s)
  <2>1. UNCHANGED <<mem, file>> /\ \A x \in Sessions : disk'[x] = disk[x] \/ disk'[x].state = "uploaded"
    BY <1>0, <1>6 DEF RecordUpload, TypeOK
  <2> QED
    BY <2>1 DEF FailFrame
<1>7. CASE RemoveCapture(s)
  <2>1. UNCHANGED <<mem, disk>> /\ \A x \in Sessions : file'[x] = file[x] \/ file'[x] = "none"
    BY <1>0, <1>7 DEF RemoveCapture, TypeOK
  <2> QED
    BY <2>1 DEF FailFrame
<1>8. CASE Outcome(s)
  <2>1. /\ \A x \in Sessions : mem'[x] = mem[x] \/ mem'[x] = [mem[x] EXCEPT !.state = "finalized"]
        /\ UNCHANGED disk \/ \E T : Save(T)
        /\ UNCHANGED file
    BY <1>0, <1>8 DEF Outcome, TypeOK
  <2>2. \A x \in Sessions : mem'[x].state = mem[x].state \/ mem'[x].state = "finalized"
    BY <1>0, <2>1 DEF SessionRecords
  <2> QED
    BY <2>1, <2>2, SaveFrame DEF Early
<1> QED
  BY <1>1, <1>2, <1>3, <1>4, <1>5, <1>6, <1>7, <1>8 DEF LoopStep

LEMMA RestartFails == ASSUME FailedInv, Restart PROVE \A x \in Sessions : FailFrame(x)
<1>1. PICK lender \in [Sessions -> Sessions \cup {Nobody}] :
        /\ mem' = [s \in Sessions |-> [Migrated(s, lender[s]) EXCEPT !.state = RecoveredState(s)]]
        /\ disk' = [s \in Sessions |-> IF Superseded(s) THEN mem'[s] ELSE Migrated(s, lender[s])]
  BY DEF Restart
<1> SUFFICES ASSUME NEW s \in Sessions PROVE FailFrame(s)
  OBVIOUS
<1>2. disk[s] \in SessionRecords
  BY DEF FailedInv, TypeOK
<1>3. \E K, N : Migrated(s, lender[s]) = [state |-> disk[s].state, key |-> K, renames |-> N]
  BY <1>2 DEF Migrated, SessionRecords
<1>4. mem'[s] = [Migrated(s, lender[s]) EXCEPT !.state = RecoveredState(s)]
      /\ disk'[s] = IF Superseded(s) THEN mem'[s] ELSE Migrated(s, lender[s])
  BY <1>1
<1>5. mem'[s].state = RecoveredState(s) /\ Migrated(s, lender[s]).state = disk[s].state
  BY <1>3, <1>4
<1>6. disk'[s].state = IF Superseded(s) THEN RecoveredState(s) ELSE disk[s].state
  BY <1>4, <1>5
<1>7. file'[s] = IF Superseded(s) THEN Kind[s] ELSE file[s]
  BY DEF Restart
<1>8. CASE Superseded(s)
  <2>1. RecoveredState(s) = "finalized"
    BY <1>8 DEF RecoveredState, Superseded
  <2> QED
    BY <1>5, <1>6, <1>8, <2>1 DEF FailFrame, Early
<1>9. CASE ~Superseded(s)
  <2>1. /\ RecoveredState(s) = "failed" => disk[s].state = "failed"
        /\ RecoveredState(s) \in Early => disk[s].state = RecoveredState(s)
    BY <1>9 DEF RecoveredState, Early
  <2> QED
    BY <1>5, <1>6, <1>7, <1>9, <2>1 DEF FailFrame, Early
<1> QED
  BY <1>8, <1>9

LEMMA FailFrames == ASSUME FailedInv, [Next]_vars PROVE \A x \in Sessions : FailFrame(x)
<1>1. Shutdown \/ CancelUploads \/ LateLand \/ UNCHANGED vars
      \/ (\E k \in Keys, by \in {"foreign", "corrupt"} : ForeignPut(k, by)) => UNCHANGED <<mem, disk, file>>
  BY DEF Shutdown, CancelUploads, LateLand, vars, ForeignPut
<1>2. UNCHANGED <<mem, disk, file>> => \A x \in Sessions : FailFrame(x)
  BY DEF FailFrame
<1> QED
  BY <1>1, <1>2, LifecycleFails, LoopFails, RestartFails DEF Next

LEMMA FailedInductive == ASSUME FailedInv, [Next]_vars PROVE FailedInv'
BY NextType, FailFrames, FailedKept DEF FailedInv

\* No session is marked failed, in memory or in its sidecar, while its capture
\* has audio: on any endpoint, whatever faults happen.
THEOREM NoAudioFailedHolds == Spec => []NoAudioFailed
<1>1. Init => FailedInv
  BY InitType DEF Init, FailedInv, NoAudioFailed, EarlyNotFailed
<1>2. FailedInv /\ [Next]_vars => FailedInv'
  BY FailedInductive
<1>3. FailedInv => NoAudioFailed
  BY DEF FailedInv
<1> QED
  BY <1>1, <1>2, <1>3, PTL DEF Spec

-----------------------------------------------------------------------------
(* Only a finished session has a loop: Finalize starts it, and no session  *)
(* goes back to recording while its loop runs.                             *)

LoopsFinished == \A s \in Sessions : mem[s].state \in Early => pc[s] = "off"
LoopInv == FailedInv /\ MutexInv /\ LoopsFinished

LEMMA LoopsStayFinished == ASSUME LoopInv, [Next]_vars PROVE LoopsFinished'
<1>0. TypeOK
  BY DEF LoopInv, FailedInv
<1>1. \A x \in Sessions : FailFrame(x)
  BY FailFrames DEF LoopInv
<1>2. CASE Restart
  <2>1. ASSUME NEW s \in Sessions
        PROVE  mem'[s].state = RecoveredState(s)
    <3>1. disk[s] \in SessionRecords
      BY <1>0 DEF TypeOK
    <3>2. PICK l : mem'[s] = [Migrated(s, l) EXCEPT !.state = RecoveredState(s)]
      BY <1>2 DEF Restart
    <3>3. \E K, N : Migrated(s, l) = [state |-> disk[s].state, key |-> K, renames |-> N]
      BY <3>1 DEF Migrated, SessionRecords
    <3> QED
      BY <3>2, <3>3
  <2>2. \A s \in Sessions : pc'[s] = IF RecoveredState(s) = "finalized" THEN "start" ELSE "off"
    BY <1>2 DEF Restart
  <2> QED
    BY <2>1, <2>2 DEF LoopsFinished, Early
<1>3. CASE ~Restart
  <2>1. \A x \in Sessions : mem'[x].state \in Early => pc[x] = "off"
    BY <1>1, <1>3 DEF FailFrame, LoopInv, LoopsFinished
  <2>2. ASSUME NEW s \in Sessions, LoopStep(s)
        PROVE  LoopsFinished'
    <3>1. pc[s] # "off"
      BY <2>2 DEF LoopStep, ReadKey, AcquireKey, AcquireSlot, LoopCancelled, ClaimGroup, Examine, AttemptError,
         Build, RemuxFails, Put, PutError, FallbackHead, FallbackPut, FallbackPutError, RecordUpload,
         RemoveCapture, Recorded, Unlock, Outcome
    <3> QED
      BY <1>0, <2>1, <2>2, <3>1, LoopAlone DEF LoopsFinished
  <2>3. ASSUME NEW s \in Sessions, Finalize(s)
        PROVE  LoopsFinished'
    <3>1. mem'[s].state = "finalized" /\ \A x \in Sessions : x # s => pc'[x] = pc[x]
      BY <1>0, <2>3 DEF Finalize, TypeOK, SessionRecords
    <3> QED
      BY <2>1, <3>1 DEF LoopsFinished, Early
  <2>4. CASE UNCHANGED pc
    BY <2>1, <2>4 DEF LoopsFinished
  <2>5. \/ \E s \in Sessions : StartSession(s) \/ Retire(s)
        \/ Shutdown \/ CancelUploads \/ LateLand \/ UNCHANGED vars
        \/ \E k \in Keys, by \in {"foreign", "corrupt"} : ForeignPut(k, by)
        => UNCHANGED pc
    BY DEF StartSession, Retire, Shutdown, CancelUploads, LateLand, ForeignPut, vars
  <2> QED
    BY <1>3, <2>2, <2>3, <2>4, <2>5 DEF Next
<1> QED
  BY <1>2, <1>3

-----------------------------------------------------------------------------
(* The loops as callers of KeyMutex.  A loop works for one key from        *)
(* ReadKey to Unlock, whatever becomes of its session's key; so every step *)
(* between AcquireKey and Unlock is invisible to the mutexes.              *)

LockVars == <<holder, Want>>

\* A step of an attempt: loop s keeps its mutex.
HoldsOn(s) ==
  /\ pc[s] \in Locked /\ UNCHANGED holder
  /\ \E a, p : /\ a.key = att[s].key /\ p \in Locked
               /\ att' = [att EXCEPT ![s] = a] /\ pc' = [pc EXCEPT ![s] = p]

LEMMA AttemptInvisible == ASSUME TypeOK, NEW s \in Sessions, HoldsOn(s) PROVE UNCHANGED LockVars
<1>1. PICK a, p : /\ a.key = att[s].key /\ p \in Locked
                  /\ att' = [att EXCEPT ![s] = a] /\ pc' = [pc EXCEPT ![s] = p]
  BY DEF HoldsOn
<1>2. att'[s].key = att[s].key /\ pc'[s] \in Locked
  BY <1>1 DEF TypeOK
<1>3. \A r \in Sessions : r # s => att'[r] = att[r] /\ pc'[r] = pc[r]
  BY <1>1 DEF TypeOK
<1> QED
  BY <1>2, <1>3 DEF HoldsOn, LockVars, Want

LEMMA EndsHoldsOn == ASSUME NEW s \in Sessions, pc[s] \in Locked, Ends(s) PROVE HoldsOn(s)
BY DEF Ends, HoldsOn, Locked, PCs

LEMMA ClaimHoldsOn == ASSUME MutexInv, NEW s \in Sessions, ClaimGroup(s) PROVE HoldsOn(s)
<1>0. TypeOK /\ att[s] \in Attempts /\ pc[s] \in Locked /\ UNCHANGED holder
  BY DEF MutexInv, TypeOK, ClaimGroup, Locked, PCs
<1>1. CASE UNCHANGED mem /\ \E err \in {"nil", "again", "deferred"} : Return(s, err)
  BY <1>0, <1>1, SameKeys, ReturnEnds, EndsHoldsOn DEF Outcomes
<1>2. CASE /\ att' = [att EXCEPT ![s].group = Group(att[s].key)]
           /\ pc' = [pc EXCEPT ![s] = "examine"]
  <2> DEFINE a == [att[s] EXCEPT !.group = Group(att[s].key)]
  <2>1. att' = [att EXCEPT ![s] = a]
    BY <1>0, <1>2 DEF TypeOK
  <2>2. a.key = att[s].key
    BY <1>0 DEF Attempts
  <2> QED
    BY <1>0, <1>2, <2>1, <2>2 DEF HoldsOn, Locked, PCs
<1> QED
  BY <1>1, <1>2 DEF ClaimGroup

LEMMA ExamineHoldsOn == ASSUME MutexInv, NEW s \in Sessions, Examine(s) PROVE HoldsOn(s)
<1> DEFINE g == att[s].group
           o == bucket[att[s].key]
<1>0. /\ TypeOK /\ att[s] \in Attempts /\ pc[s] \in Locked /\ pc[s] \in Attempting /\ UNCHANGED holder
      /\ att[s].key \in Keys
  BY DEF MutexInv, TypeOK, Examine, Locked, PCs, Attempting, Attempts
<1>1. ASSUME NEW F, RenameGroup(s, F) \/ \E err \in {"nil", "permanent"} : FailThenReturn(s, F, err)
      PROVE  HoldsOn(s)
  BY <1>0, <1>1, RenameEnds, FailEnds, EndsHoldsOn DEF Outcomes
<1>2. ASSUME NEW F, CompleteGroup(s, Done(g, o), att[s].key, F)
      PROVE  HoldsOn(s)
  BY <1>0, <1>2, Splits, CompleteEnds, EndsHoldsOn
<1>3. ASSUME NEW add, att' = [att EXCEPT ![s].add = add, ![s].done = Done(g, o), ![s].remote = o],
             pc' = [pc EXCEPT ![s] = "build"]
      PROVE  HoldsOn(s)
  <2> DEFINE a == [att[s] EXCEPT !.add = add, !.done = Done(g, o), !.remote = o]
  <2>1. att' = [att EXCEPT ![s] = a]
    BY <1>0, <1>3 DEF TypeOK
  <2>2. a.key = att[s].key
    BY <1>0 DEF Attempts
  <2> QED
    BY <1>0, <1>3, <2>1, <2>2 DEF HoldsOn, Locked, PCs
<1> QED
  BY <1>1, <1>2, <1>3, ExamineShape DEF ExamineSteps

LEMMA RequestsHoldOn ==
  ASSUME MutexInv, NEW s \in Sessions,
         AttemptError(s) \/ Build(s) \/ RemuxFails(s) \/ Put(s) \/ PutError(s) \/ FallbackHead(s)
         \/ FallbackPut(s) \/ FallbackPutError(s)
  PROVE  HoldsOn(s)
<1>0. TypeOK /\ pc[s] \in Locked /\ pc[s] \in Attempting /\ UNCHANGED holder
  BY DEF MutexInv, AttemptError, Build, RemuxFails, Put, PutError, FallbackHead, FallbackPut, FallbackPutError,
     Locked, PCs, Attempting
<1>2. CASE RenameGroup(s, {})
  BY <1>0, <1>2, RenameEnds, EndsHoldsOn
<1>3. CASE UNCHANGED mem /\ \E err \in {"again", "retry"} : Return(s, err)
  BY <1>0, <1>3, SameKeys, ReturnEnds, EndsHoldsOn DEF Outcomes
<1>4. CASE UNCHANGED att /\ \E p \in Attempting : pc' = [pc EXCEPT ![s] = p]
  <2>1. att' = [att EXCEPT ![s] = att[s]]
    BY <1>0, <1>4 DEF TypeOK
  <2> QED
    BY <1>0, <1>4, <2>1 DEF HoldsOn, Attempting, Locked, PCs
<1>5. ASSUME NEW k \in Keys, pc[s] # "examine", CompleteGroup(s, att[s].add \cup att[s].done, k, {})
      PROVE  HoldsOn(s)
  <2>1. att[s].add \cup att[s].done \subseteq att[s].group
    BY <1>0, <1>5 DEF MutexInv, MembersShareKey
  <2> QED
    BY <1>0, <1>5, <2>1, CompleteEnds, EndsHoldsOn
<1>6. att[s].key \in Keys /\ FallbackKey(att[s].key) \in Keys
  BY <1>0, KeyTypes DEF TypeOK, Attempts
<1>7. CASE AttemptError(s)
  BY <1>0, <1>7, FailEnds, EndsHoldsOn DEF AttemptError, Outcomes
<1>8. CASE Build(s) \/ RemuxFails(s)
  BY <1>2, <1>3, <1>4, <1>8 DEF Build, RemuxFails, Attempting
<1>9. CASE Put(s) \/ FallbackPut(s)
  BY <1>3, <1>5, <1>6, <1>9 DEF Put, FallbackPut, PutObject
<1>10. CASE PutError(s) \/ FallbackPutError(s)
  BY <1>3, <1>10 DEF PutError, FallbackPutError, PutFails
<1>11. CASE FallbackHead(s)
  BY <1>2, <1>4, <1>5, <1>6, <1>11 DEF FallbackHead, Attempting
<1> QED
  BY <1>7, <1>8, <1>9, <1>10, <1>11

LEMMA RecordingHoldsOn ==
  ASSUME MutexInv, NEW s \in Sessions,
         AcquireSlot(s) \/ RecordUpload(s) \/ RemoveCapture(s) \/ Recorded(s)
  PROVE  HoldsOn(s)
<1>0. TypeOK /\ att[s] \in Attempts /\ pc[s] \in Locked /\ UNCHANGED holder
  BY DEF MutexInv, TypeOK, AcquireSlot, RecordUpload, RemoveCapture, Recorded, Locked, PCs
<1>1. att = [att EXCEPT ![s] = att[s]] /\ pc = [pc EXCEPT ![s] = pc[s]]
  BY <1>0 DEF TypeOK
<1>2. CASE AcquireSlot(s)
  BY <1>0, <1>1, <1>2 DEF AcquireSlot, HoldsOn, Locked, PCs
<1>3. CASE RecordUpload(s)
  <2>1. PICK x \in att[s].todo :
          \/ /\ att' = [att EXCEPT ![s].todo = @ \ {x}, ![s].cur = x]
             /\ pc' = [pc EXCEPT ![s] = "remove"]
          \/ /\ att' = [att EXCEPT ![s].todo = @ \ {x}, ![s].lost = TRUE]
             /\ UNCHANGED pc
    BY <1>3 DEF RecordUpload
  <2> DEFINE a == [att[s] EXCEPT !.todo = att[s].todo \ {x}, !.cur = x]
             b == [att[s] EXCEPT !.todo = att[s].todo \ {x}, !.lost = TRUE]
  <2>2. a.key = att[s].key /\ b.key = att[s].key
    BY <1>0 DEF Attempts
  <2>3. CASE att' = [att EXCEPT ![s] = a] /\ pc' = [pc EXCEPT ![s] = "remove"]
    BY <1>0, <2>2, <2>3 DEF HoldsOn, Locked, PCs
  <2>4. CASE att' = [att EXCEPT ![s] = b] /\ UNCHANGED pc
    BY <1>0, <1>1, <2>2, <2>4 DEF HoldsOn
  <2> QED
    BY <1>0, <2>1, <2>3, <2>4 DEF TypeOK
<1>4. CASE RemoveCapture(s)
  <2> DEFINE a == [att[s] EXCEPT !.cur = Nobody]
  <2>1. a.key = att[s].key
    BY <1>0 DEF Attempts
  <2>2. att' = [att EXCEPT ![s] = a] /\ pc' = [pc EXCEPT ![s] = "record"]
    BY <1>0, <1>4 DEF RemoveCapture, TypeOK
  <2> QED
    BY <1>0, <2>1, <2>2 DEF HoldsOn, Locked, PCs
<1>5. CASE Recorded(s)
  BY <1>0, <1>5, SameKeys, ReturnEnds, EndsHoldsOn DEF Recorded, Outcomes
<1> QED
  BY <1>2, <1>3, <1>4, <1>5

\* The steps a loop makes outside: it asks for a key, is granted it, gives it back.
LEMMA LoopLocks ==
  ASSUME MutexInv, NEW s \in Sessions,
         ReadKey(s) \/ AcquireKey(s) \/ LoopCancelled(s) \/ Unlock(s) \/ Outcome(s)
  PROVE  Mutexes!Next \/ UNCHANGED LockVars
<1>0. TypeOK /\ att[s] \in Attempts /\ att[s].key \in Keys
  BY DEF MutexInv, TypeOK, Attempts
<1>1. \A r \in Sessions : r # s => pc'[r] = pc[r] /\ att'[r] = att[r]
  BY <1>0 DEF ReadKey, AcquireKey, LoopCancelled, Unlock, Outcome, LoopEnds, LoopRepeats, TypeOK
<1>2. Want' = [Want EXCEPT ![s] = Want'[s]]
  BY <1>1 DEF Want
<1>3. CASE ReadKey(s)
  <2>1. Want[s] = Nobody /\ UNCHANGED holder
    BY <1>3 DEF ReadKey, Want, Locked
  <2>2. pc'[s] = "lock" /\ att'[s] = [Idle EXCEPT !.key = mem[s].key, !.dest = mem[s].key]
    BY <1>0, <1>3 DEF ReadKey, TypeOK
  <2>3. Want'[s] = mem[s].key
    BY <2>2 DEF Want, Idle
  <2>4. mem[s].key \in Keys
    BY <1>0 DEF TypeOK, SessionRecords
  <2> QED
    BY <1>2, <2>1, <2>3, <2>4 DEF Mutexes!Next, Mutexes!Request
<1>4. CASE AcquireKey(s)
  <2>1. Want[s] = att[s].key
    BY <1>4 DEF AcquireKey, Want
  <2>2. pc'[s] = "slot" /\ att' = att
    BY <1>0, <1>4 DEF AcquireKey, TypeOK
  <2>3. Want' = Want
    BY <1>1, <2>1, <2>2 DEF Want, Locked, PCs
  <2> QED
    BY <1>0, <1>4, <2>1, <2>3 DEF AcquireKey, Mutexes!Next, Mutexes!Grant
<1>5. CASE Unlock(s) \/ (LoopCancelled(s) /\ pc[s] = "slot")
  <2>1. pc[s] \in Locked /\ holder' = [holder EXCEPT ![att[s].key] = Nobody] /\ pc'[s] \in {"outcome", "off"}
    BY <1>0, <1>5 DEF Unlock, LoopCancelled, Locked, PCs, TypeOK
  <2>2. Want[s] = att[s].key /\ holder[att[s].key] = s /\ Want'[s] = Nobody
    BY <2>1 DEF Want, Locked, MutexInv, LockHeld
  <2> QED
    BY <1>0, <1>2, <2>1, <2>2 DEF Mutexes!Next, Mutexes!Release
<1>6. CASE Outcome(s) \/ (LoopCancelled(s) /\ pc[s] # "slot")
  <2>1. pc[s] \in {"outcome", "start"} /\ UNCHANGED holder /\ pc'[s] \in {"off", "start"}
    BY <1>0, <1>6 DEF Outcome, LoopCancelled, LoopEnds, LoopRepeats, TypeOK
  <2>2. Want[s] = Nobody /\ Want'[s] = Nobody
    BY <2>1 DEF Want, Locked
  <2>3. Want' = Want
    BY <1>1, <2>2 DEF Want
  <2> QED
    BY <2>1, <2>3 DEF LockVars
<1> QED
  BY <1>3, <1>4, <1>5, <1>6

\* Whoever is no loop does not touch the mutexes.
LEMMA OthersInvisible ==
  ASSUME LoopInv,
         \/ \E s \in Sessions : StartSession(s) \/ Finalize(s) \/ Retire(s)
         \/ Shutdown \/ CancelUploads \/ LateLand \/ UNCHANGED vars
         \/ \E k \in Keys, by \in {"foreign", "corrupt"} : ForeignPut(k, by)
  PROVE  UNCHANGED LockVars
<1>1. ASSUME NEW s \in Sessions, Finalize(s)
      PROVE  UNCHANGED LockVars
  <2>1. UNCHANGED <<att, holder>> /\ pc[s] = "off"
    BY <1>1 DEF Finalize, LoopInv, LoopsFinished, Early
  <2>2. \A x \in Sessions : pc'[x] = pc[x] \/ (x = s /\ pc'[x] = "start")
    BY <1>1 DEF Finalize, LoopInv, MutexInv, TypeOK
  <2>3. \A x \in Sessions : pc'[x] \in Locked \cup {"lock"} <=> pc[x] \in Locked \cup {"lock"}
    BY <2>1, <2>2 DEF Locked
  <2> QED
    BY <2>1, <2>3 DEF LockVars, Want
<1>2. CASE UNCHANGED <<pc, att, holder>>
  BY <1>2 DEF LockVars, Want
<1>3. \/ \E s \in Sessions : StartSession(s) \/ Retire(s)
      \/ Shutdown \/ CancelUploads \/ LateLand \/ UNCHANGED vars
      \/ \E k \in Keys, by \in {"foreign", "corrupt"} : ForeignPut(k, by)
      => UNCHANGED <<pc, att, holder>>
  BY DEF StartSession, Retire, Shutdown, CancelUploads, LateLand, ForeignPut, vars
<1> QED
  BY <1>1, <1>2, <1>3

LEMMA LoopInductive == ASSUME LoopInv, [Next]_vars PROVE LoopInv'
BY FailedInductive, NextMutex, LoopsStayFinished DEF LoopInv

\* The loops use the mutexes as KeyMutex, which KeyedLocks implements, has its
\* callers use them: uploadLoop locks the key it has read and unlocks that key,
\* whatever renameGroup or completeGroup makes of its session's key meanwhile;
\* a mutex changes hands in no other way, except that the process ends.
THEOREM UsesKeyMutexHolds == Spec => UsesKeyMutex
<1>1. Init => LoopInv /\ Mutexes!Init
  <2>1. Init => FailedInv
    BY InitType DEF Init, FailedInv, NoAudioFailed, EarlyNotFailed
  <2>2. Init => LoopsFinished /\ Mutexes!Init
    BY DEF Init, LoopsFinished, Mutexes!Init, Want, Locked
  <2> QED
    BY <2>1, <2>2, InitMutex DEF LoopInv
<1>2. LoopInv /\ [Next]_vars => LoopInv'
  BY LoopInductive
<1>3. LoopInv /\ [Next]_vars => [Mutexes!Next \/ Restart]_(Mutexes!vars)
  <2> SUFFICES ASSUME LoopInv, [Next]_vars
               PROVE  Mutexes!Next \/ Restart \/ UNCHANGED LockVars
    BY DEF LockVars, Mutexes!vars
  <2>0. TypeOK /\ MutexInv
    BY DEF LoopInv, MutexInv
  <2>1. ASSUME NEW s \in Sessions, LoopStep(s)
        PROVE  Mutexes!Next \/ UNCHANGED LockVars
    <3>1. \/ HoldsOn(s)
          \/ ReadKey(s) \/ AcquireKey(s) \/ LoopCancelled(s) \/ Unlock(s) \/ Outcome(s)
      BY <2>0, <2>1, ClaimHoldsOn, ExamineHoldsOn, RequestsHoldOn, RecordingHoldsOn DEF LoopStep
    <3> QED
      BY <2>0, <3>1, AttemptInvisible, LoopLocks
  <2> QED
    BY <2>1, OthersInvisible DEF Next
<1> QED
  BY <1>1, <1>2, <1>3, PTL DEF Spec, UsesKeyMutex

-----------------------------------------------------------------------------
\* The theorems below are about endpoints that enforce If-Match and
\* If-None-Match, under any faults; and about the others as long as no foreign
\* object appears and no PUT is applied after its answer.
Trusted == CondWrites = TRUE \/ Undisturbed

THEOREM IInvariant == ASSUME Trusted PROVE Spec => [](IInv /\ Preconditions)
<1>1. CASE CondWrites = TRUE
  <2>1. Preconditions
    BY <1>1 DEF Preconditions, Checked, MayPut
  <2>2. IInv /\ [Next]_vars => IInv'
    BY <2>1, NextInv
  <2>3. IInv => Preconditions
    BY <1>1 DEF Preconditions, Checked, MayPut
  <2> QED
    BY <2>2, <2>3, InitInv, PTL DEF Spec
<1>2. CASE CondWrites = FALSE /\ Undisturbed
  <2>1. Init => QuietInv
    BY <1>2, QuietInit
  <2>2. QuietInv /\ [Next]_vars => QuietInv'
    BY <1>2, QuietInductive
  <2>3. QuietInv => IInv /\ Preconditions
    BY QuietChecked DEF QuietInv
  <2> QED
    BY <2>1, <2>2, <2>3, PTL DEF Spec
<1> QED
  BY <1>1, <1>2, SwitchAssumption DEF Trusted

\* Captured audio is never lost: completeGroup removes a capture only when its
\* sidecar is written and the object in the bucket holds it, through any number
\* of crashes, failed sidecar writes and ambiguous PUTs, and late ones where
\* writes are conditional.
THEOREM AudioSafeHolds == ASSUME Trusted PROVE Spec => []AudioSafe
<1>1. IInv => AudioSafe
  BY DEF IInv
<1> QED
  BY <1>1, IInvariant, PTL

\* A sidecar that says "uploaded" names a key whose object holds the session.
THEOREM UploadedIsStoredHolds == ASSUME Trusted PROVE Spec => []UploadedIsStored
<1>1. IInv => UploadedIsStored
  BY DEF IInv
<1> QED
  BY <1>1, IInvariant, PTL

\* A session is never given up while its audio is only on disk: what is marked
\* failed has none, and what is marked uploaded is stored.
THEOREM NothingAbandonedHolds == ASSUME Trusted PROVE Spec => []NothingAbandoned
<1>1. IInv /\ NoAudioFailed => NothingAbandoned
  <2> SUFFICES ASSUME IInv, NoAudioFailed, NEW s \in Sessions, mem[s].state \in Terminal, file[s] = "audio"
               PROVE  Stored(s)
    BY DEF NothingAbandoned
  <2>1. mem[s].state = "uploaded" /\ mem[s].key \in Keys
    BY DEF Terminal, NoAudioFailed, IInv, TypeOK, SessionRecords
  <2> QED
    BY <2>1 DEF IInv, MemoryRight, Stored
<1> QED
  BY <1>1, IInvariant, NoAudioFailedHolds, PTL

\* No merge, retry, fallback or late PUT drops a part an object holds.
THEOREM PartsKeptHolds == ASSUME Trusted PROVE Spec => PartsKept
<1>1. IInv /\ Preconditions /\ [Next]_vars => [\A k \in Keys : Held(bucket[k]) \subseteq Held(bucket'[k])]_vars
  BY BucketStep
<1> QED
  BY <1>1, IInvariant, PTL DEF Spec, PartsKept

\* An object without this recording's manifest is never replaced.
THEOREM ForeignKeptHolds == ASSUME Trusted PROVE Spec => ForeignKept
<1>1. IInv /\ Preconditions /\ [Next]_vars =>
        [\A k \in Keys : bucket[k].by \in {"foreign", "corrupt"} => bucket'[k] = bucket[k]]_vars
  BY BucketStep
<1> QED
  BY <1>1, IInvariant, PTL DEF Spec, ForeignKept
=============================================================================
