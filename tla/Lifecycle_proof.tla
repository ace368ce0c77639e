--------------------------- MODULE Lifecycle_proof --------------------------
(***************************************************************************)
(* For every set of recordings, every schedule, any clock and any number   *)
(* of faults: Reconcile, finalize, Shutdown and Recover keep their types,  *)
(* a session that says "recording" always has somebody who finishes it,    *)
(* and nobody else.                                                        *)
(***************************************************************************)
EXTENDS Lifecycle, TLAPS

\* The active captures are recording sessions of their ids that nobody stops.
ActiveOK == \A i \in Ids : active[i] # None =>
  /\ active[i][1] = i
  /\ mem[active[i]].state = "recording"
  /\ \A e \in stopping : e.s # active[i]

\* A finalizer's session is still recording and has one finalizer; parked
\* sessions exist only while the process goes down.
StoppingOK ==
  /\ \A e \in stopping : mem[e.s].state = "recording" /\ (e.why = "shutdown" => phase = "down")
  /\ \A e, f \in stopping : e.s = f.s => e = f

\* After Shutdown nothing is captured.
DownOK == phase = "down" => \A i \in Ids : active[i] = None

IInv == TypeOK /\ ActiveOK /\ StoppingOK /\ NoOrphan /\ DownOK

-----------------------------------------------------------------------------
LEMMA Pairs == \A s \in Sessions : s[1] \in Ids /\ s[2] \in 1 .. MaxParts /\ s = <<s[1], s[2]>>
BY DEF Sessions

LEMMA HappensType ==
  ASSUME NEW kind \in FaultKinds, faults \in [FaultKinds -> Nat], Happens(kind)
  PROVE  faults' \in [FaultKinds -> Nat]
BY DEF Happens

LEMMA ReasonType == \A i \in Ids : StopReason(i) \in Reasons
BY DEF StopReason, Reasons

LEMMA AppliedType ==
  ASSUME TypeOK, NEW i \in Ids, active[i] # None
  PROVE  Applied(i) \in SessionRecords /\ Applied(i).state = mem[active[i]].state
<1>1. mem[active[i]] \in SessionRecords
  BY DEF TypeOK
<1>2. Valid(i) => sched[i].end \in Nat /\ sched[i].late \in Nat
  BY ItemsAssumption DEF Valid
<1>3. [mem[active[i]] EXCEPT !.end = sched[i].end, !.late = sched[i].late].state = mem[active[i]].state
  BY <1>1 DEF SessionRecords
<1>4. Valid(i) => [mem[active[i]] EXCEPT !.end = sched[i].end, !.late = sched[i].late] \in SessionRecords
  BY <1>1, <1>2 DEF SessionRecords
<1> QED
  BY <1>1, <1>3, <1>4 DEF Applied

\* What Reconcile does: stops and starts are disjoint, new sessions are unused.
ReconcileTo(starts, left, new) ==
  /\ starts \subseteq Ids /\ left \subseteq Recording /\ starts \cap left = {}
  /\ new \subseteq {s \in Sessions : mem[s].state = "none" /\ s[1] \in starts /\ InWindow(s[1])}
  /\ mem' = [s \in Sessions |-> CASE s \in new -> Started(s)
                                  [] s = active[s[1]] -> Applied(s[1])
                                  [] OTHER -> mem[s]]
  /\ disk' = [s \in Sessions |-> IF s \in new THEN mem'[s] ELSE disk[s]]
  /\ \A s, t \in new : s[1] = t[1] => s = t
  /\ \A i \in starts : \E s \in new : s[1] = i
  /\ active' = [i \in Ids |-> IF i \in starts THEN CHOOSE s \in new : s[1] = i
                              ELSE IF i \in left THEN active[i] ELSE None]
  /\ supervised' = left \cup starts
  /\ stopping' = stopping \cup {[s |-> active[i], why |-> StopReason(i)] : i \in Recording \ left}
  /\ faults' = faults \/ Happens("start")

LEMMA ReconcileShape ==
  ASSUME IInv, Reconcile
  PROVE  \E starts, left, new : ReconcileTo(starts, left, new)
<1> DEFINE stops  == {i \in Recording : StopReason(i) # "none"}
           left   == Recording \ stops
           wanted == {i \in Ids \ left : InWindow(i) /\ ~Covered(i)}
<1>1. PICK starts \in SUBSET wanted :
        LET new == {s \in Sessions : s[1] \in starts /\ s[2] \in NextPart(s[1])}
        IN /\ faults' = faults \/ Happens("start")
           /\ \A i \in wanted : NextPart(i) # {}
           /\ mem' = [s \in Sessions |-> CASE s \in new -> Started(s)
                                           [] s = active[s[1]] -> Applied(s[1])
                                           [] OTHER -> mem[s]]
           /\ disk' = [s \in Sessions |-> IF s \in new THEN mem'[s] ELSE disk[s]]
           /\ active' = [i \in Ids |-> IF i \in starts THEN CHOOSE s \in new : s[1] = i
                                       ELSE IF i \in left THEN active[i] ELSE None]
           /\ supervised' = left \cup starts
           /\ stopping' = stopping \cup {[s |-> active[i], why |-> StopReason(i)] : i \in stops}
  BY DEF Reconcile
<1> DEFINE new == {s \in Sessions : s[1] \in starts /\ s[2] \in NextPart(s[1])}
<1>2. starts \subseteq Ids /\ starts \cap left = {} /\ \A i \in starts : InWindow(i)
  OBVIOUS
<1>3. \A s \in new : mem[s].state = "none"
  BY Pairs DEF NextPart
<1>4. \A s, t \in new : s[1] = t[1] => s = t
  <2> SUFFICES ASSUME NEW s \in new, NEW t \in new, s[1] = t[1] PROVE s[2] = t[2]
    BY Pairs
  <2>1. s[2] \in NextPart(s[1]) /\ t[2] \in NextPart(s[1])
    OBVIOUS
  <2>2. s[2] \in 1 .. MaxParts /\ t[2] \in 1 .. MaxParts /\ MaxParts \in Nat
    BY Pairs, BoundsAssumption
  <2> QED
    BY <2>1, <2>2 DEF NextPart
<1>5. \A i \in starts : \E s \in new : s[1] = i
  <2> SUFFICES ASSUME NEW i \in starts PROVE \E s \in new : s[1] = i
    OBVIOUS
  <2>1. PICK n \in 1 .. MaxParts : n \in NextPart(i)
    BY <1>1 DEF NextPart
  <2>2. <<i, n>> \in new
    BY <2>1 DEF Sessions
  <2> QED
    BY <2>2
<1>6. stops = Recording \ left
  OBVIOUS
<1>7. new \subseteq {s \in Sessions : mem[s].state = "none" /\ s[1] \in starts /\ InWindow(s[1])}
  BY <1>2, <1>3
<1> HIDE DEF stops, left, wanted, new
<1>8. left \subseteq Recording
  BY DEF left
<1>9. /\ faults' = faults \/ Happens("start")
      /\ mem' = [s \in Sessions |-> CASE s \in new -> Started(s)
                                      [] s = active[s[1]] -> Applied(s[1])
                                      [] OTHER -> mem[s]]
      /\ disk' = [s \in Sessions |-> IF s \in new THEN mem'[s] ELSE disk[s]]
      /\ active' = [i \in Ids |-> IF i \in starts THEN CHOOSE s \in new : s[1] = i
                                  ELSE IF i \in left THEN active[i] ELSE None]
      /\ supervised' = left \cup starts
      /\ stopping' = stopping \cup {[s |-> active[i], why |-> StopReason(i)] : i \in Recording \ left}
  BY <1>1, <1>6 DEF new
<1>10. ReconcileTo(starts, left, new)
  BY <1>2, <1>4, <1>5, <1>7, <1>8, <1>9 DEF ReconcileTo
<1> QED
  BY <1>10


LEMMA ReconcileInv == ASSUME IInv, Reconcile PROVE IInv'
<1>0. TypeOK /\ ActiveOK /\ StoppingOK /\ NoOrphan /\ phase = "up"
      /\ UNCHANGED <<sched, cache, diskLow, now, phase>>
  BY DEF IInv, Reconcile
<1>1. PICK starts, left, new : ReconcileTo(starts, left, new)
  BY ReconcileShape
<1>2. ASSUME NEW s \in Sessions
      PROVE  /\ mem'[s] = CASE s \in new -> Started(s)
                            [] s = active[s[1]] -> Applied(s[1])
                            [] OTHER -> mem[s]
             /\ disk'[s] = IF s \in new THEN mem'[s] ELSE disk[s]
  BY <1>1 DEF ReconcileTo
<1>3. ASSUME NEW s \in Sessions
      PROVE  /\ s \in new => mem[s].state = "none" /\ mem'[s] = Started(s) /\ mem'[s].state = "recording"
             /\ s \notin new => mem'[s].state = mem[s].state
             /\ mem'[s] \in SessionRecords
  <2>1. s \in new => /\ mem[s].state = "none" /\ mem'[s] = Started(s)
                     /\ Started(s).state = "recording" /\ Started(s) \in SessionRecords
    <3> SUFFICES ASSUME s \in new
                 PROVE  /\ mem[s].state = "none" /\ mem'[s] = Started(s)
                        /\ Started(s).state = "recording" /\ Started(s) \in SessionRecords
      OBVIOUS
    <3>1. mem[s].state = "none" /\ InWindow(s[1])
      BY <1>1 DEF ReconcileTo
    <3>2. mem'[s] = Started(s)
      <4>1. s = active[s[1]] => mem[s].state = "recording"
        BY <1>0, Pairs, ValuesAssumption DEF ActiveOK
      <4> QED
        BY <1>2, <3>1, <4>1
    <3>3. sched[s[1]].end \in Nat /\ sched[s[1]].late \in Nat
      BY <3>1, ItemsAssumption DEF InWindow, Valid
    <3> QED
      BY <1>0, <3>1, <3>2, <3>3 DEF Started, SessionRecords, Reasons, TypeOK
  <2>2. s \notin new /\ s = active[s[1]] =>
          mem'[s] = Applied(s[1]) /\ Applied(s[1]) \in SessionRecords /\ Applied(s[1]).state = mem[s].state
    BY <1>0, <1>2, Pairs, ValuesAssumption, AppliedType
  <2>3. s \notin new /\ s # active[s[1]] => mem'[s] = mem[s] /\ mem[s] \in SessionRecords
    BY <1>0, <1>2 DEF TypeOK
  <2> QED
    BY <2>1, <2>2, <2>3
<1>4. /\ \A i \in starts : active'[i] \in new /\ active'[i][1] = i
      /\ \A s, t \in new : s[1] = t[1] => s = t
  BY <1>1 DEF ReconcileTo
<1>5. /\ new \subseteq Sessions /\ starts \subseteq Ids /\ left \subseteq Ids
      /\ \A i \in left : i \notin starts /\ active[i] # None /\ active'[i] = active[i]
      /\ \A i \in Ids : i \notin starts /\ i \notin left => active'[i] = None
      /\ supervised' = left \cup starts
  BY <1>1 DEF ReconcileTo, Recording
<1>6. /\ \A e \in stopping' : \/ e \in stopping
                              \/ \E i \in Recording \ left : e = [s |-> active[i], why |-> StopReason(i)]
      /\ stopping \subseteq stopping'
      /\ \A i \in Recording \ left : [s |-> active[i], why |-> StopReason(i)] \in stopping'
  BY <1>1 DEF ReconcileTo
<1>7. TypeOK'
  <2>1. mem' \in [Sessions -> SessionRecords]
    BY <1>1, <1>3 DEF ReconcileTo
  <2>2. disk' \in [Sessions -> SessionRecords]
    BY <1>0, <1>1, <1>2, <1>3 DEF ReconcileTo, TypeOK
  <2>3. active' \in [Ids -> Sessions \cup {None}]
    <3>1. \A i \in Ids : active'[i] \in Sessions \cup {None}
      BY <1>0, <1>4, <1>5 DEF TypeOK
    <3> QED
      BY <1>1, <3>1 DEF ReconcileTo
  <2>4. supervised' \subseteq Recording'
    BY <1>4, <1>5, ValuesAssumption DEF Recording
  <2>5. stopping' \subseteq [s : Sessions, why : Reasons \cup {"shutdown"}]
    <3>1. \A i \in Recording : [s |-> active[i], why |-> StopReason(i)] \in [s : Sessions, why : Reasons \cup {"shutdown"}]
      BY <1>0, ReasonType DEF Recording, TypeOK
    <3> QED
      BY <1>0, <1>6, <3>1 DEF TypeOK
  <2>6. faults' \in [FaultKinds -> Nat]
    BY <1>0, <1>1, HappensType DEF ReconcileTo, TypeOK, FaultKinds
  <2> QED
    BY <1>0, <2>1, <2>2, <2>3, <2>4, <2>5, <2>6 DEF TypeOK
<1>8. \A i \in Recording : /\ active[i] \in Sessions /\ active[i][1] = i
                           /\ mem[active[i]].state = "recording" /\ \A e \in stopping : e.s # active[i]
  BY <1>0 DEF ActiveOK, Recording, TypeOK
<1>9. \A e \in stopping : e.s \in Sessions /\ mem[e.s].state = "recording" /\ e.why # "shutdown"
  BY <1>0 DEF StoppingOK, TypeOK
<1>10. ActiveOK'
  <2> SUFFICES ASSUME NEW i \in Ids, active'[i] # None
               PROVE  /\ active'[i][1] = i /\ mem'[active'[i]].state = "recording"
                      /\ \A e \in stopping' : e.s # active'[i]
    BY DEF ActiveOK
  <2>1. CASE i \in starts
    <3>1. active'[i] \in new /\ active'[i][1] = i /\ mem[active'[i]].state = "none"
          /\ mem'[active'[i]].state = "recording"
      BY <1>3, <1>4, <1>5, <2>1
    <3>2. \A e \in stopping' : mem[e.s].state = "recording"
      BY <1>6, <1>8, <1>9
    <3> QED
      BY <3>1, <3>2
  <2>2. CASE i \in left
    <3>1. active'[i] = active[i] /\ i \in Recording
      BY <1>5, <2>2 DEF Recording
    <3>2. mem'[active[i]].state = "recording"
      BY <1>3, <1>8, <3>1
    <3>3. \A e \in stopping' : e.s # active[i]
      BY <1>6, <1>8, <2>2, <3>1
    <3> QED
      BY <1>8, <3>1, <3>2, <3>3
  <2> QED
    BY <1>5, <2>1, <2>2
<1>11. StoppingOK'
  <2>1. \A e \in stopping' : mem[e.s].state = "recording" /\ e.s \in Sessions /\ e.why # "shutdown"
    BY <1>6, <1>8, <1>9, ReasonType DEF Reasons, Recording
  <2>2. \A e \in stopping' : mem'[e.s].state = "recording"
    BY <1>3, <2>1
  <2>3. ASSUME NEW e \in stopping', NEW f \in stopping', e.s = f.s PROVE e = f
    <3>1. CASE e \in stopping /\ f \in stopping
      BY <1>0, <2>3, <3>1 DEF StoppingOK
    <3>2. CASE \E i \in Recording : e = [s |-> active[i], why |-> StopReason(i)]
      BY <1>6, <1>8, <2>3, <3>2
    <3>3. CASE \E i \in Recording : f = [s |-> active[i], why |-> StopReason(i)]
      BY <1>6, <1>8, <2>3, <3>3
    <3> QED
      BY <1>6, <3>1, <3>2, <3>3
  <2> QED
    BY <2>1, <2>2, <2>3 DEF StoppingOK
<1>12. NoOrphan'
  <2> SUFFICES ASSUME NEW s \in Sessions, mem'[s].state = "recording"
               PROVE  active'[s[1]] = s \/ \E e \in stopping' : e.s = s
    BY DEF NoOrphan
  <2>1. CASE s \in new
    <3>1. s[1] \in starts
      BY <1>1, <2>1 DEF ReconcileTo
    <3>2. PICK t \in new : t = active'[s[1]] /\ t[1] = s[1]
      BY <1>4, <3>1
    <3>3. t = s
      BY <1>4, <2>1, <3>2
    <3> QED
      BY <3>2, <3>3
  <2>2. CASE s \notin new
    <3>1. active[s[1]] = s \/ \E e \in stopping : e.s = s
      BY <1>0, <1>3, <2>2 DEF NoOrphan
    <3>2. CASE active[s[1]] = s
      <4>1. s[1] \in Recording
        BY <3>2, Pairs, ValuesAssumption DEF Recording
      <4>2. CASE s[1] \in left
        BY <1>5, <3>2, <4>2
      <4>3. CASE s[1] \notin left
        <5>1. [s |-> active[s[1]], why |-> StopReason(s[1])] \in stopping'
          BY <1>6, <4>1, <4>3
        <5>2. [s |-> active[s[1]], why |-> StopReason(s[1])].s = s
          BY <3>2
        <5> QED
          BY <5>1, <5>2
      <4> QED
        BY <4>2, <4>3
    <3> QED
      BY <1>6, <3>1, <3>2
  <2> QED
    BY <2>1, <2>2
<1>13. DownOK'
  BY <1>0 DEF DownOK
<1> QED
  BY <1>7, <1>10, <1>11, <1>12, <1>13 DEF IInv


LEMMA FinalizeInv == ASSUME IInv, NEW e \in stopping, Finalize(e) PROVE IInv'
<1>0. /\ TypeOK /\ ActiveOK /\ StoppingOK /\ NoOrphan /\ DownOK
      /\ UNCHANGED <<active, supervised, sched, cache, diskLow, now, phase>>
      /\ stopping' = stopping \ {e}
  BY DEF IInv, Finalize
<1>1. e.s \in Sessions /\ e.why \in Reasons \cup {"shutdown"} /\ mem[e.s].state = "recording"
  BY <1>0 DEF TypeOK, StoppingOK
<1>2. /\ \A s \in Sessions : s # e.s => mem'[s] = mem[s]
      /\ e.why = "shutdown" => mem' = mem
      /\ e.why # "shutdown" => mem'[e.s].state = "finished"
      /\ mem' \in [Sessions -> SessionRecords]
  <2>1. CASE e.why = "shutdown"
    BY <1>0, <2>1 DEF Finalize, TypeOK
  <2>2. CASE e.why # "shutdown"
    BY <1>0, <1>1, <2>2 DEF Finalize, TypeOK, SessionRecords
  <2> QED
    BY <2>1, <2>2
<1>3. TypeOK'
  <2>1. disk' \in [Sessions -> SessionRecords]
    BY <1>0, <1>1, <1>2 DEF Finalize, TypeOK
  <2>2. faults' \in [FaultKinds -> Nat]
    BY <1>0, HappensType DEF Finalize, TypeOK, FaultKinds
  <2> QED
    BY <1>0, <1>2, <2>1, <2>2 DEF TypeOK, Recording
<1>4. ActiveOK'
  <2> SUFFICES ASSUME NEW i \in Ids, active[i] # None
               PROVE  active[i][1] = i /\ mem'[active[i]].state = "recording" /\ \A f \in stopping' : f.s # active[i]
    BY <1>0 DEF ActiveOK
  <2> QED
    BY <1>0, <1>2 DEF ActiveOK, TypeOK
<1>5. StoppingOK'
  BY <1>0, <1>2 DEF StoppingOK, TypeOK
<1>6. NoOrphan'
  <2> SUFFICES ASSUME NEW s \in Sessions, mem'[s].state = "recording"
               PROVE  active[s[1]] = s \/ (\E f \in stopping' : f.s = s) \/ phase = "down"
    BY <1>0 DEF NoOrphan
  <2>1. CASE s = e.s
    BY <1>0, <1>2, <2>1 DEF StoppingOK
  <2>2. CASE s # e.s
    BY <1>0, <1>2, <2>2 DEF NoOrphan
  <2> QED
    BY <2>1, <2>2
<1>7. DownOK'
  BY <1>0 DEF DownOK
<1> QED
  BY <1>3, <1>4, <1>5, <1>6, <1>7 DEF IInv

LEMMA ForgetInv == ASSUME IInv, NEW s \in Sessions, Forget(s) PROVE IInv'
<1>0. /\ TypeOK /\ ActiveOK /\ StoppingOK /\ NoOrphan /\ DownOK
      /\ UNCHANGED <<active, supervised, stopping, sched, cache, diskLow, now, phase, faults>>
      /\ mem[s].state = "finished"
  BY DEF IInv, Forget
<1>1. /\ mem'[s].state = "gone" /\ \A x \in Sessions : x # s => mem'[x] = mem[x]
      /\ mem' \in [Sessions -> SessionRecords] /\ disk' \in [Sessions -> SessionRecords]
  BY <1>0 DEF Forget, TypeOK, SessionRecords
<1>2. TypeOK'
  BY <1>0, <1>1 DEF TypeOK, Recording
<1>3. ActiveOK' /\ StoppingOK'
  BY <1>0, <1>1 DEF ActiveOK, StoppingOK, TypeOK
<1>4. NoOrphan' /\ DownOK'
  BY <1>0, <1>1 DEF NoOrphan, DownOK
<1> QED
  BY <1>2, <1>3, <1>4 DEF IInv

LEMMA ShutdownInv == ASSUME IInv, Shutdown PROVE IInv'
<1>0. /\ TypeOK /\ ActiveOK /\ StoppingOK /\ NoOrphan
      /\ UNCHANGED <<mem, disk, sched, cache, diskLow, now>>
      /\ phase' = "down" /\ active' = [i \in Ids |-> None] /\ supervised' = {}
      /\ stopping' = stopping \cup {[s |-> active[i], why |-> "shutdown"] : i \in Recording}
  BY DEF IInv, Shutdown
<1>1. \A i \in Recording : /\ i \in Ids /\ active[i] \in Sessions /\ active[i][1] = i
                           /\ mem[active[i]].state = "recording" /\ \A e \in stopping : e.s # active[i]
  BY <1>0 DEF ActiveOK, Recording, TypeOK
<1>2. TypeOK'
  <2>1. faults' \in [FaultKinds -> Nat]
    BY <1>0, HappensType DEF Shutdown, TypeOK, FaultKinds
  <2>2. stopping' \subseteq [s : Sessions, why : Reasons \cup {"shutdown"}]
    BY <1>0, <1>1 DEF TypeOK
  <2> QED
    BY <1>0, <2>1, <2>2 DEF TypeOK, Recording
<1>3. StoppingOK'
  <2>1. \A e \in stopping' : mem[e.s].state = "recording"
    BY <1>0, <1>1 DEF StoppingOK
  <2>2. \A e, f \in stopping' : e.s = f.s => e = f
    BY <1>0, <1>1 DEF StoppingOK
  <2> QED
    BY <1>0, <2>1, <2>2 DEF StoppingOK
<1> QED
  BY <1>0, <1>2, <1>3 DEF IInv, ActiveOK, NoOrphan, DownOK

LEMMA RestartInv == ASSUME IInv, Restart PROVE IInv'
<1>0. TypeOK /\ supervised' = {} /\ stopping' = {} /\ sched' = NoSchedule /\ phase' = "up"
      /\ UNCHANGED <<cache, diskLow, now>>
  BY DEF IInv, Restart
<1>1. PICK newest \in [Ids -> Sessions \cup {None}], errors \in SUBSET Sessions :
        /\ \A i \in Ids : IsNewest(newest[i], Unfinished(i))
        /\ mem' = [s \in Sessions |-> Recovered(s, RecoverAs(s, newest, errors))]
        /\ disk' = mem'
        /\ active' = [i \in Ids |-> IF newest[i] \in errors THEN None ELSE newest[i]]
  BY DEF Restart
<1>2. \A i \in Ids : newest[i] # None =>
        newest[i] \in Sessions /\ newest[i][1] = i /\ disk[newest[i]].state = "recording"
  BY <1>1 DEF IsNewest, Unfinished
<1>3. ASSUME NEW s \in Sessions
      PROVE  /\ mem'[s] \in SessionRecords
             /\ mem'[s].state = "recording" <=> disk[s].state = "recording" /\ s \notin errors /\ s = newest[s[1]]
  <2>1. disk[s] \in SessionRecords /\ RecoverAs(s, newest, errors) \in Reasons
    BY <1>0 DEF TypeOK, RecoverAs, Reasons
  <2>2. RecoverAs(s, newest, errors) = "none" <=> s \notin errors /\ s = newest[s[1]]
    BY DEF RecoverAs
  <2>3. mem'[s] = IF disk[s].state = "recording" /\ RecoverAs(s, newest, errors) # "none"
                    THEN [disk[s] EXCEPT !.state = "finished", !.reason = RecoverAs(s, newest, errors)]
                    ELSE disk[s]
    BY <1>1 DEF Recovered
  <2> QED
    BY <2>1, <2>2, <2>3 DEF SessionRecords
<1>4. \A i \in Ids : active'[i] = IF newest[i] \in errors THEN None ELSE newest[i]
  BY <1>1
<1>5. TypeOK'
  <2>1. mem' \in [Sessions -> SessionRecords] /\ disk' \in [Sessions -> SessionRecords]
    BY <1>1, <1>3
  <2>2. active' \in [Ids -> Sessions \cup {None}]
    BY <1>1
  <2>3. faults' \in [FaultKinds -> Nat]
    BY <1>0, HappensType DEF Restart, TypeOK, FaultKinds
  <2> QED
    BY <1>0, <2>1, <2>2, <2>3 DEF TypeOK, Recording
<1>6. ActiveOK'
  BY <1>0, <1>2, <1>3, <1>4 DEF ActiveOK
<1>7. NoOrphan'
  BY <1>3, <1>4, Pairs DEF NoOrphan
<1>8. StoppingOK' /\ DownOK'
  BY <1>0 DEF StoppingOK, DownOK
<1> QED
  BY <1>5, <1>6, <1>7, <1>8 DEF IInv

LEMMA OtherInv ==
  ASSUME IInv, \/ Persist \/ LoadCache \/ Tick \/ StepBack \/ DiskChanges \/ UNCHANGED vars
               \/ \E doc \in Schedules : Fetch(doc)
  PROVE  IInv'
<1>0. /\ TypeOK /\ ActiveOK /\ StoppingOK /\ NoOrphan /\ DownOK
      /\ UNCHANGED <<mem, active, supervised, stopping, phase>>
  BY DEF IInv, Persist, LoadCache, Tick, StepBack, DiskChanges, Fetch, vars
<1>1. TypeOK'
  <2>1. faults' \in [FaultKinds -> Nat]
    <3>1. \/ faults' = faults \/ \E kind \in FaultKinds : Happens(kind)
          \/ /\ faults["fetch"] > 0 /\ faults["cache"] > 0
             /\ faults' = [faults EXCEPT !["fetch"] = @ - 1, !["cache"] = @ - 1]
      BY DEF Persist, LoadCache, Tick, StepBack, DiskChanges, Fetch, vars, FaultKinds
    <3> QED
      BY <1>0, <3>1, HappensType DEF TypeOK, FaultKinds
  <2>2. disk' \in [Sessions -> SessionRecords]
    BY <1>0 DEF TypeOK, Persist, LoadCache, Tick, StepBack, DiskChanges, Fetch, vars
  <2>3. sched' \in Schedules \cup {NoSchedule} /\ cache' \in Schedules \cup {NoSchedule}
    BY <1>0 DEF TypeOK, Persist, LoadCache, Tick, StepBack, DiskChanges, Fetch, vars
  <2>4. diskLow' \in BOOLEAN
    BY <1>0 DEF TypeOK, Persist, LoadCache, Tick, StepBack, DiskChanges, Fetch, vars
  <2>5. now' \in Time
    BY <1>0, BoundsAssumption DEF TypeOK, Time, Persist, LoadCache, Tick, StepBack, DiskChanges, Fetch, vars
  <2> QED
    BY <1>0, <2>1, <2>2, <2>3, <2>4, <2>5 DEF TypeOK, Recording
<1>2. ActiveOK' /\ StoppingOK' /\ NoOrphan' /\ DownOK'
  BY <1>0 DEF ActiveOK, StoppingOK, NoOrphan, DownOK
<1> QED
  BY <1>1, <1>2 DEF IInv

LEMMA InitInv == Init => IInv
<1> SUFFICES ASSUME Init PROVE IInv
  OBVIOUS
<1>1. NoSession \in SessionRecords /\ 0 \in Time
  BY BoundsAssumption DEF NoSession, SessionRecords, Reasons, Time
<1>2. TypeOK
  BY <1>1, FaultsAssumption DEF Init, TypeOK, Recording
<1> QED
  BY <1>2 DEF Init, IInv, ActiveOK, StoppingOK, NoOrphan, DownOK, NoSession

-----------------------------------------------------------------------------
\* The strengthened invariant of Reconcile, finalize, Shutdown and Recover.
THEOREM IInvariant == Spec => []IInv
<1>1. IInv /\ [Next]_vars => IInv'
  BY ReconcileInv, FinalizeInv, ForgetInv, ShutdownInv, RestartInv, OtherInv DEF Next
<1> QED
  BY <1>1, InitInv, PTL DEF Spec

\* Every session, schedule and finalizer stays well-typed; a supervisor runs
\* only for an active capture.
THEOREM TypeCorrect == Spec => []TypeOK
<1>1. IInv => TypeOK
  BY DEF IInv
<1> QED
  BY <1>1, IInvariant, PTL

\* No crash, restart or schedule change leaves a session "recording" that
\* neither the active map nor a finalizer knows.
THEOREM NoOrphanHolds == Spec => []NoOrphan
<1>1. IInv => NoOrphan
  BY DEF IInv
<1> QED
  BY <1>1, IInvariant, PTL

\* A session is captured or being stopped, never both, and has one finalizer.
THEOREM OneOwnerHolds == Spec => []OneOwner
<1>1. IInv => OneOwner
  BY DEF IInv, OneOwner, ActiveOK, StoppingOK, Recording
<1> QED
  BY <1>1, IInvariant, PTL

\* Reconcile never stops or replaces a capture for another reason than an item
\* absent from a known schedule, an end that has passed, or a rotation; besides
\* it only Shutdown and Recover after a restart touch Manager.active.
THEOREM StopsOnlyWhenDueHolds == Spec => StopsOnlyWhenDue
<1>1. ASSUME NEW i \in Ids, Next, Stops(i)
      PROVE  Removed(i) \/ Due(i) \/ Rotates(i) \/ ProcessStops
  <2>1. CASE Reconcile
    <3>1. PICK starts \in SUBSET (Ids \ (Recording \ {j \in Recording : StopReason(j) # "none"})) :
            active'[i] = IF i \in starts THEN active'[i]
                         ELSE IF i \in Recording \ {j \in Recording : StopReason(j) # "none"}
                              THEN active[i] ELSE None
      BY <1>1, <2>1 DEF Reconcile
    <3>2. StopReason(i) # "none"
      BY <1>1, <3>1 DEF Stops, Recording
    <3> QED
      BY <3>2 DEF StopReason, Gone, Removed, Due, Rotates, Applied
  <2>2. CASE Shutdown
    BY <2>2 DEF Shutdown, ProcessStops
  <2>3. CASE Restart
    BY <2>3 DEF Restart, ProcessStops
  <2>4. CASE active' = active
    BY <1>1, <2>4 DEF Stops
  <2>5. Reconcile \/ Shutdown \/ Restart \/ active' = active
    BY <1>1 DEF Next, Persist, LoadCache, Finalize, Forget, Fetch, Tick, StepBack, DiskChanges
  <2> QED
    BY <2>1, <2>2, <2>3, <2>4, <2>5
<1>2. ASSUME NEW i \in Ids, UNCHANGED vars, Stops(i) PROVE FALSE
  BY <1>2 DEF Stops, vars
<1>3. [Next]_vars => [\A i \in Ids : Stops(i) => Removed(i) \/ Due(i) \/ Rotates(i) \/ ProcessStops]_vars
  BY <1>1, <1>2
<1> QED
  BY <1>3, PTL DEF Spec, StopsOnlyWhenDue
=============================================================================
