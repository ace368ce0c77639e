------------------------- MODULE SchedulePoller_proof -------------------------
(***************************************************************************)
(* Proofs about SchedulePoller.  First which document is in force, for     *)
(* which it does not matter what Parse returns.  Then what Parse returns:  *)
(* its loops are recursive functions, whose existence and whose values are *)
(* found by induction on the number of entries, an induction over sets of  *)
(* naturals (UpwardFromZero).  Last, both together: what is in force is a  *)
(* right reading of what was served.                                       *)
(***************************************************************************)
EXTENDS SchedulePoller, SequenceTheorems, WellFoundedInduction, TLAPS

\* The environment is well typed.
Typed ==
  /\ url \in Urls
  /\ served \in [Urls -> Seq(Documents)]
  /\ \A u \in Urls : Len(served[u]) >= 1
  /\ faults \in [FaultKinds -> Nat]
  /\ \A k \in FaultKinds : faults[k] <= Faults[k]

\* The document on its way is one that the URL has served.
AnswerKnown ==
  pc \in {"answered", "stored"} =>
    /\ answer.version \in 1 .. Len(served[url])
    /\ answer.doc = served[url][answer.version]

\* The ETag names the document that is in force, or that is about to be.
TagMatches ==
  /\ pc \in {"start", "idle", "asked", "answered", "stored"}
  /\ pc = "start" => etag = NoTag
  /\ pc \in {"idle", "asked", "answered"} /\ etag # NoTag =>
       etag \in 1 .. Len(served[url]) /\ sched = Version(etag)
  /\ pc = "stored" => etag \in {NoTag, answer.version}

TagInv == Typed /\ AnswerKnown /\ TagMatches

\* A version that has been served stays what it is.
LEMMA PublishKeeps ==
  ASSUME Typed, NEW u \in Urls, NEW d \in Documents, Publish(u, d)
  PROVE  /\ Typed'
         /\ Len(served'[url]) \in Nat /\ Len(served[url]) \in Nat
         /\ Len(served'[url]) >= Len(served[url])
         /\ \A n \in 1 .. Len(served[url]) : served'[url][n] = served[url][n]
         /\ \A v \in Urls : Len(served[v]) \in Nat /\ Len(served'[v]) \in Nat
                            /\ Len(served'[v]) >= Len(served[v])
                            /\ \A n \in 1 .. Len(served[v]) : served'[v][n] = served[v][n]
<1>1. served[u] \in Seq(Documents) /\ served[url] \in Seq(Documents)
  BY DEF Typed
<1>2. served' = [served EXCEPT ![u] = Append(served[u], d)]
  BY DEF Publish
<1>3. /\ served'[u] = Append(served[u], d)
      /\ \A v \in Urls : v # u => served'[v] = served[v]
  BY <1>2 DEF Typed
<1>4. Append(served[u], d) \in Seq(Documents)
  BY <1>1
<1>6. \A v \in Urls : /\ Len(served[v]) \in Nat /\ Len(served'[v]) \in Nat
                      /\ Len(served'[v]) >= Len(served[v])
                      /\ \A n \in 1 .. Len(served[v]) : served'[v][n] = served[v][n]
  <2> SUFFICES ASSUME NEW v \in Urls
               PROVE  /\ Len(served[v]) \in Nat /\ Len(served'[v]) \in Nat
                      /\ Len(served'[v]) >= Len(served[v])
                      /\ \A n \in 1 .. Len(served[v]) : served'[v][n] = served[v][n]
    OBVIOUS
  <2>1. served[v] \in Seq(Documents)
    BY DEF Typed
  <2>2. CASE v = u
    <3> DEFINE w == served[u]
               z == Append(w, d)
    <3>1. /\ Len(w) \in Nat /\ Len(z) = Len(w) + 1
          /\ \A n \in 1 .. Len(w) : z[n] = w[n]
      <4> HIDE DEF w
      <4>1. w \in Seq(Documents)
        BY <1>1 DEF w
      <4> QED
        BY <4>1
    <3>2. served[v] = w /\ served'[v] = z
      BY <1>3, <2>2
    <3> HIDE DEF w, z
    <3> QED
      BY <3>1, <3>2
  <2>3. CASE v # u
    BY <1>3, <2>1, <2>3
  <2> QED
    BY <2>2, <2>3
<1>7. served' \in [Urls -> Seq(Documents)]
  BY <1>2, <1>4 DEF Typed
<1>8. \A v \in Urls : Len(served'[v]) >= 1
  BY <1>6 DEF Typed
<1> QED
  BY <1>6, <1>7, <1>8 DEF Typed, Publish

LEMMA TypedInductive ==
  ASSUME Typed, [Next]_vars
  PROVE  Typed'
<1>1. CASE UNCHANGED vars
  BY <1>1 DEF vars, Typed
<1>2. ASSUME NEW k \in FaultKinds, Happens(k)
      PROVE  faults' \in [FaultKinds -> Nat] /\ \A x \in FaultKinds : faults'[x] <= Faults[x]
  <2>1. /\ faults \in [FaultKinds -> Nat] /\ faults[k] \in Nat /\ faults[k] > 0
        /\ Faults[k] \in Nat
    BY <1>2, FaultsAssumption DEF Happens, Typed
  <2>2. faults' = [faults EXCEPT ![k] = faults[k] - 1]
    BY <1>2 DEF Happens
  <2>3. /\ faults'[k] = faults[k] - 1
        /\ \A x \in FaultKinds : x # k => faults'[x] = faults[x]
    BY <2>1, <2>2
  <2>4. \A x \in FaultKinds : faults'[x] <= Faults[x]
    BY <2>1, <2>3 DEF Typed
  <2> QED
    BY <2>1, <2>2, <2>4
<1>3. CASE Poll /\ UNCHANGED faults
  BY <1>3 DEF Poll, LoadCache, Ask, FetchFails, NotModified, Answered, Rejected, Stored, Apply, Typed
<1>4. CASE Stored /\ Happens("cache")
  BY <1>2, <1>4 DEF Stored, Typed, FaultKinds
<1>5. CASE Restart
  BY <1>2, <1>5 DEF Restart, Typed, FaultKinds
<1>6. ASSUME NEW u \in Urls, NEW d \in Documents, Publish(u, d)
      PROVE  Typed'
  BY <1>6, PublishKeeps
<1>7. Poll => UNCHANGED faults \/ (Stored /\ Happens("cache"))
  BY DEF Poll, LoadCache, Ask, FetchFails, NotModified, Answered, Rejected, Stored, Apply
<1> QED
  BY <1>1, <1>3, <1>4, <1>5, <1>6, <1>7 DEF Next

LEMMA InitTagInv == Init => TagInv
<1> SUFFICES ASSUME Init
             PROVE  TagInv
  OBVIOUS
<1>1. \A d \in Documents : <<d>> \in Seq(Documents) /\ Len(<<d>>) = 1
  OBVIOUS
<1>a. \A u \in Urls : \E d \in Documents : served[u] = <<d>>
  BY DEF Init
<1>b. served = [u \in Urls |-> served[u]]
  BY DEF Init
<1>2. served \in [Urls -> Seq(Documents)] /\ \A u \in Urls : Len(served[u]) >= 1
  <2>1. ASSUME NEW u \in Urls
        PROVE  served[u] \in Seq(Documents) /\ Len(served[u]) >= 1
    <3>1. PICK d \in Documents : served[u] = <<d>>
      BY <1>a
    <3> QED
      BY <1>1, <3>1
  <2> QED
    BY <1>b, <2>1
<1> QED
  BY <1>2, FaultsAssumption DEF Init, TagInv, Typed, AnswerKnown, TagMatches

LEMMA TagInductive ==
  ASSUME TagInv, [Next]_vars
  PROVE  TagInv'
<1> USE DEF TagInv
<1>0. Typed'
  BY TypedInductive
<1>l. /\ Len(served[url]) \in Nat
      /\ NoTag \notin Nat
  BY NoneAssumption DEF Typed
<1>1. CASE UNCHANGED vars
  BY <1>0, <1>1 DEF vars, AnswerKnown, TagMatches, Version
<1>2. CASE LoadCache
  BY <1>0, <1>2 DEF LoadCache, AnswerKnown, TagMatches
<1>3. CASE Ask \/ FetchFails \/ NotModified
  BY <1>0, <1>3 DEF Ask, FetchFails, NotModified, AnswerKnown, TagMatches, Version
<1>4. CASE Answered
  <2>1. Len(served[url]) \in 1 .. Len(served[url])
    BY <1>l DEF Typed
  <2> QED
    BY <1>0, <2>1, <1>4 DEF Answered, AnswerKnown, TagMatches, Version
<1>5. CASE Rejected
  BY <1>0, <1>5 DEF Rejected, AnswerKnown, TagMatches, Version
<1>6. CASE Stored
  BY <1>0, <1>6 DEF Stored, Tag, AnswerKnown, TagMatches, Version
<1>7. CASE Apply
  BY <1>0, <1>7 DEF Apply, AnswerKnown, TagMatches, Version
<1>8. CASE Restart
  BY <1>0, <1>8 DEF Restart, AnswerKnown, TagMatches
<1>9. ASSUME NEW u \in Urls, NEW d \in Documents, Publish(u, d)
      PROVE  TagInv'
  BY <1>0, <1>l, <1>9, PublishKeeps DEF Publish, AnswerKnown, TagMatches, Version
<1> QED
  BY <1>1, <1>2, <1>3, <1>4, <1>5, <1>6, <1>7, <1>8, <1>9 DEF Next, Poll

\* After a 304 the poller keeps what it has, and rightly: whenever a request carries an
\* ETag, the schedule in force is that of the document the ETag names.
THEOREM UnmodifiedIsCurrentHolds == Spec => []UnmodifiedIsCurrent
<1>1. TagInv => UnmodifiedIsCurrent
  BY DEF TagInv, TagMatches, UnmodifiedIsCurrent
<1> QED
  BY InitTagInv, TagInductive, <1>1, PTL DEF Spec

-----------------------------------------------------------------------------
\* No file and no schedule is newer than what was served, or than what is on its way.
VersionsKnown ==
  /\ \A c \in cache : c.url \in Urls /\ c.version \in 1 .. Len(served[c.url])
  /\ sched # NoSchedule => sched.version \in 1 .. Len(served[url])
  /\ sched # NoSchedule /\ pc \in {"answered", "stored"} => sched.version <= answer.version
  /\ pc = "start" => sched = NoSchedule

\* What is about to be in force is in the cache already.
CacheAhead ==
  faults["cache"] = Faults["cache"] /\ pc = "stored" =>
    \E c \in cache : c.url = url /\ c.version = answer.version

CacheInv == TagInv /\ VersionsKnown /\ CacheAhead /\ CacheCurrent

LEMMA InitCacheInv == Init => CacheInv
  BY InitTagInv DEF Init, CacheInv, VersionsKnown, CacheAhead, CacheCurrent

LEMMA CacheInductive ==
  ASSUME CacheInv, [Next]_vars
  PROVE  CacheInv'
<1> USE DEF CacheInv
<1>0. TagInv'
  BY TagInductive
<1>f. /\ faults["cache"] \in Nat /\ Faults["cache"] \in Nat
      /\ faults["cache"] <= Faults["cache"]
      /\ \A u \in Urls : Len(served[u]) \in Nat /\ Len(served[u]) >= 1
  BY FaultsAssumption DEF TagInv, Typed, FaultKinds
<1>1. CASE UNCHANGED vars
  BY <1>0, <1>1 DEF vars, VersionsKnown, CacheAhead, CacheCurrent
<1>2. CASE LoadCache
  <2>1. CASE UNCHANGED sched
    BY <1>0, <1>2, <2>1 DEF LoadCache, VersionsKnown, CacheAhead, CacheCurrent
  <2>2. ASSUME NEW c \in cache, Usable(c), sched' = Loaded(c)
        PROVE  CacheInv'
    <3>1. sched'.version = c.version /\ c.url = url
      BY <2>2 DEF Loaded, Schedule, Usable
    <3>2. c.version \in 1 .. Len(served[url]) /\ c.version >= c.version
      BY <3>1, <1>f DEF VersionsKnown
    <3> QED
      BY <1>0, <1>2, <3>1, <3>2 DEF LoadCache, VersionsKnown, CacheAhead, CacheCurrent
  <2> QED
    BY <1>2, <2>1, <2>2 DEF LoadCache
<1>3. CASE Ask \/ FetchFails \/ NotModified \/ Rejected
  BY <1>0, <1>3 DEF Ask, FetchFails, NotModified, Rejected, VersionsKnown, CacheAhead, CacheCurrent
<1>4. CASE Answered
  <2>1. answer'.version = Len(served[url])
    BY <1>4 DEF Answered
  <2> QED
    BY <1>0, <1>f, <1>4, <2>1 DEF Answered, TagInv, Typed, VersionsKnown, CacheAhead, CacheCurrent
<1>5. CASE Stored
  <2>1. /\ answer.version \in 1 .. Len(served[url])
        /\ sched # NoSchedule => answer.version >= sched.version /\ sched.version \in 1 .. Len(served[url])
        /\ url \in Urls /\ Len(served[url]) \in Nat
    BY <1>5, <1>f DEF Stored, TagInv, Typed, AnswerKnown, VersionsKnown
  <2>2. CASE cache' = {Cached(Schedule(answer.version, Parsed(answer.doc)))}
    <3>1. \A c \in cache' : c.url = url /\ c.version = answer.version
      BY <2>2 DEF Cached, Schedule
    <3>2. cache' # {}
      BY <2>2
    <3> QED
      BY <1>0, <1>5, <2>1, <3>1, <3>2 DEF Stored, VersionsKnown, CacheAhead, CacheCurrent
  <2>3. CASE Happens("cache") /\ UNCHANGED cache
    <3>2. faults'["cache"] # Faults["cache"]
      BY <1>f, <2>3 DEF Happens, TagInv, Typed, FaultKinds
    <3> QED
      BY <1>0, <1>5, <2>1, <2>3, <3>2 DEF Stored, VersionsKnown, CacheAhead, CacheCurrent
  <2> QED
    BY <1>5, <2>2, <2>3 DEF Stored
<1>6. CASE Apply
  <2>1. sched'.version = answer.version
    BY <1>6 DEF Apply, Schedule
  <2>2. answer.version \in 1 .. Len(served[url]) /\ answer.version >= answer.version
    BY <1>6, <1>f DEF Apply, TagInv, Typed, AnswerKnown
  <2> QED
    BY <1>0, <1>6, <2>1, <2>2 DEF Apply, VersionsKnown, CacheAhead, CacheCurrent
<1>7. CASE Restart
  BY <1>0, <1>7 DEF Restart, VersionsKnown, CacheAhead, CacheCurrent
<1>8. ASSUME NEW u \in Urls, NEW d \in Documents, Publish(u, d)
      PROVE  CacheInv'
  <2>1. \A v \in Urls : Len(served[v]) \in Nat /\ Len(served'[v]) \in Nat
                         /\ Len(served'[v]) >= Len(served[v])
    BY <1>8, PublishKeeps DEF TagInv
  <2> QED
    BY <1>0, <1>8, <2>1 DEF Publish, TagInv, Typed, VersionsKnown, CacheAhead, CacheCurrent
<1> QED
  BY <1>1, <1>2, <1>3, <1>4, <1>5, <1>6, <1>7, <1>8 DEF Next, Poll

\* As long as the cache file could be written, a restart resumes from nothing older than
\* the schedule that was in force (saveCache comes before applyScheduleLocked).
THEOREM CacheCurrentHolds == Spec => []CacheCurrent
<1>1. CacheInv => CacheCurrent
  BY DEF CacheInv
<1> QED
  BY InitCacheInv, CacheInductive, <1>1, PTL DEF Spec
-----------------------------------------------------------------------------
\* A nonempty set of naturals has a smallest element.
LEMMA SmallestOf ==
  ASSUME NEW T \in SUBSET Nat, T # {}
  PROVE  \E x \in T : \A y \in T : x <= y
<1> DEFINE Less == {p \in Nat \X Nat : p[1] < p[2]}
<1>1. IsWellFoundedOn(Less, Nat)
  BY NatLessThanWellFounded DEF OpToRel
<1>2. PICK x \in T : \A y \in T : <<y, x>> \notin Less
  <2> HIDE DEF Less
  <2> QED
    BY <1>1, WFMin
<1>3. ASSUME NEW y \in T PROVE x <= y
  <2>1. <<y, x>> \in Nat \X Nat /\ <<y, x>> \notin Less
    BY <1>2, <1>3
  <2>2. ~(y < x)
    BY <2>1
  <2> QED
    BY <2>2
<1> QED
  BY <1>3

\* Induction, for a set in the place of a predicate.
LEMMA UpwardFromZero ==
  ASSUME NEW S \in SUBSET Nat, 0 \in S, \A n \in S : n + 1 \in S
  PROVE  S = Nat
<1> DEFINE T == Nat \ S
<1>1. SUFFICES ASSUME T # {} PROVE FALSE
  OBVIOUS
<1>2. PICK x \in T : \A y \in T : x <= y
  BY <1>1, SmallestOf
<1>3. x \in Nat /\ x # 0
  OBVIOUS
<1>4. x - 1 \in Nat /\ x - 1 + 1 = x
  BY <1>3
<1>5. x - 1 \notin T
  <2> HIDE DEF T
  <2> QED
    BY <1>2, <1>3, <1>4
<1> QED
  BY <1>4, <1>5

\* The loops, as functions of the number of entries.
Kept(st, items) ==
  CHOOSE f : f = [i \in 0 .. Len(items) |->
                    IF i = 0 THEN <<>>
                    ELSE IF items[i].start = st THEN Append(f[i - 1], items[i]) ELSE f[i - 1]]

Accs == [items : Seq(Items), invalid : SUBSET (Ids \cup {NoId})]
FirstOf(doc) ==
  CHOOSE f : f = [i \in 0 .. Len(doc) |->
                    IF i = 0 THEN [items |-> <<>>, invalid |-> {}] ELSE Round(doc[i])[f[i - 1]]]

\* The model's definitions are these recursions.
LEMMA StartingAtIsKept ==
  \A st, items : StartingAt(st, items) = Kept(st, items)[Len(items)]
BY Zenon DEF StartingAt, Kept

LEMMA ParsedIsFirst ==
  \A doc : Parsed(doc) = [items |-> ByStart(FirstOf(doc)[Len(doc)].items),
                          invalid |-> FirstOf(doc)[Len(doc)].invalid \ {NoId}]
BY Zenon DEF Parsed, FirstOf

LEMMA TrimmedKeys == \A k \in Keys : TrimmedKey(k) \in Keys
  BY DEF TrimmedKey, Keys, NoKey

\* What a round does to the items and to the rejected ids.
Accepted(p, e) == e.ok /\ \A k \in DOMAIN p.items : ~Conflict(p.items[k], ParsedItem(e))

LEMMA RoundIs ==
  ASSUME NEW p \in Accs, NEW e \in Entries
  PROVE  /\ Accepted(p, e) => /\ Round(e)[p].items = Append(p.items, ParsedItem(e))
                              /\ Round(e)[p].invalid = p.invalid
         /\ ~Accepted(p, e) => /\ Round(e)[p].items = p.items
                               /\ Round(e)[p].invalid = p.invalid \cup {e.id}
         /\ Round(e)[p] = [items |-> Round(e)[p].items, invalid |-> Round(e)[p].invalid]
<1>1. Round(e)[p] = IF Accepted(p, e) THEN [p EXCEPT !.items = Append(p.items, ParsedItem(e))]
                                       ELSE [p EXCEPT !.invalid = p.invalid \cup {e.id}]
  BY DEF Round, Accs, Accepted
<1>2. p = [items |-> p.items, invalid |-> p.invalid]
  BY DEF Accs
<1> QED
  BY <1>1, <1>2

LEMMA RoundTyped ==
  ASSUME NEW p \in Accs, NEW e \in Entries, e.ok => e.id # NoId
  PROVE  Round(e)[p] \in Accs
<1>1. p.items \in Seq(Items) /\ p.invalid \in SUBSET (Ids \cup {NoId})
  BY DEF Accs
<1>2. e.id \in Ids \cup {NoId} /\ e.start \in {1, 2} /\ e.key \in Keys
  BY DEF Entries
<1>3. e.ok => ParsedItem(e) \in Items
  BY <1>2, TrimmedKeys DEF ParsedItem, Items
<1> DEFINE q == Round(e)[p]
<1>4. q = [items |-> q.items, invalid |-> q.invalid]
  BY RoundIs
<1>5. q.items \in Seq(Items) /\ q.invalid \in SUBSET (Ids \cup {NoId})
  <2>1. CASE Accepted(p, e)
    <3>1. ParsedItem(e) \in Items
      BY <1>3, <2>1 DEF Accepted
    <3>2. Append(p.items, ParsedItem(e)) \in Seq(Items)
      BY <1>1, <3>1
    <3> QED
      BY <1>1, <2>1, <3>2, RoundIs
  <2>2. CASE ~Accepted(p, e)
    <3>1. q.items = p.items /\ q.invalid = p.invalid \cup {e.id}
      BY <2>2, RoundIs
    <3> HIDE DEF q
    <3> QED
      BY <1>1, <1>2, <3>1
  <2> QED
    BY <2>1, <2>2
<1> HIDE DEF q
<1>6. q \in Accs
  BY <1>4, <1>5 DEF Accs
<1> QED
  BY <1>6 DEF q

\* f is the recursion from a on with this step, up to n.
Solves(f, a, n, step) == f = [i \in 0 .. n |-> IF i = 0 THEN a ELSE step[i][f[i - 1]]]

\* A recursion whose step stays in A has a solution.
LEMMA RecursionSolved ==
  ASSUME NEW A, NEW a \in A, NEW n \in Nat, NEW step \in [1 .. n -> [A -> A]]
  PROVE  \E f \in [0 .. n -> A] : Solves(f, a, n, step)
<1> DEFINE Body(f, m) == [i \in 0 .. m |-> IF i = 0 THEN a ELSE step[i][f[i - 1]]]
           S == {m \in Nat : m <= n => \E f \in [0 .. m -> A] : f = Body(f, m)}
<1>1. 0 \in S
  <2> DEFINE f == [i \in 0 .. 0 |-> a]
  <2>1. f \in [0 .. 0 -> A] /\ f = Body(f, 0)
    OBVIOUS
  <2> HIDE DEF Body, f
  <2> QED
    BY <2>1
<1>2. ASSUME NEW m \in S PROVE m + 1 \in S
  <2>a. m \in Nat /\ m + 1 \in Nat
    OBVIOUS
  <2>0. SUFFICES ASSUME m + 1 <= n PROVE \E g \in [0 .. m + 1 -> A] : g = Body(g, m + 1)
    <3> HIDE DEF Body
    <3> QED
      BY <2>a
  <2>1. PICK f \in [0 .. m -> A] : f = Body(f, m)
    <3> HIDE DEF Body
    <3> QED
      BY <2>0, <2>a
  <2> DEFINE last == step[m + 1][f[m]]
             g == [i \in 0 .. m + 1 |-> IF i = m + 1 THEN last ELSE f[i]]
  <2>l. last \in A
    BY <2>0, <2>1
  <2>2. g \in [0 .. m + 1 -> A] /\ \A i \in 0 .. m : g[i] = f[i]
    <3> HIDE DEF last
    <3> QED
      BY <2>l, <2>1
  <2>3. \A i \in 0 .. m : f[i] = Body(f, m)[i]
    BY <2>1
  <2>4. \A i \in 0 .. m + 1 : g[i] = Body(g, m + 1)[i]
    <3> SUFFICES ASSUME NEW i \in 0 .. m + 1 PROVE g[i] = Body(g, m + 1)[i]
      OBVIOUS
    <3>1. CASE i = 0
      <4>1. 0 \in 0 .. m
        OBVIOUS
      <4> HIDE DEF g
      <4> QED
        BY <2>2, <2>3, <3>1, <4>1
    <3>2. CASE i \in 1 .. m
      <4>1. i \in 0 .. m /\ i - 1 \in 0 .. m
        BY <3>2
      <4>2. g[i] = f[i] /\ g[i - 1] = f[i - 1]
        BY <4>1, <2>2
      <4>3. f[i] = Body(f, m)[i]
        BY <4>1, <2>3
      <4> HIDE DEF g, last
      <4> QED
        BY <3>2, <4>1, <4>2, <4>3
    <3>3. CASE i = m + 1
      <4>1. m \in 0 .. m /\ i - 1 = m /\ i # 0
        BY <3>3
      <4>2. g[i] = last /\ g[m] = f[m]
        BY <3>3, <4>1, <2>2
      <4> HIDE DEF g
      <4> QED
        BY <3>3, <4>1, <4>2
    <3> QED
      BY <3>1, <3>2, <3>3
  <2>5. g = Body(g, m + 1)
    <3>1. /\ g = [i \in 0 .. m + 1 |-> g[i]]
          /\ Body(g, m + 1) = [i \in 0 .. m + 1 |-> Body(g, m + 1)[i]]
      OBVIOUS
    <3> HIDE DEF g, Body
    <3> QED
      BY <2>4, <3>1
  <2> HIDE DEF g, Body
  <2> QED
    BY <2>2, <2>5
<1>3. S = Nat
  <2> HIDE DEF S
  <2>1. S \in SUBSET Nat
    BY DEF S
  <2> QED
    BY <1>1, <1>2, <2>1, UpwardFromZero
<1> HIDE DEF Body
<1>4. n <= n => \E f \in [0 .. n -> A] : f = Body(f, n)
  BY <1>3
<1>5. PICK f \in [0 .. n -> A] : f = Body(f, n)
  BY <1>4
<1>6. Solves(f, a, n, step)
  BY <1>5 DEF Body, Solves
<1> QED
  BY <1>6

\* So have the two loops.
LEMMA KeptSolved ==
  ASSUME NEW st, NEW items \in Seq(Items)
  PROVE  Kept(st, items) = [i \in 0 .. Len(items) |->
           IF i = 0 THEN <<>>
           ELSE IF items[i].start = st THEN Append(Kept(st, items)[i - 1], items[i])
                                       ELSE Kept(st, items)[i - 1]]
<1> DEFINE n == Len(items)
           A == Seq(Items)
           step == [i \in 1 .. n |-> [x \in A |-> IF items[i].start = st THEN Append(x, items[i]) ELSE x]]
           Body(f) == [i \in 0 .. n |->
             IF i = 0 THEN <<>>
             ELSE IF items[i].start = st THEN Append(f[i - 1], items[i]) ELSE f[i - 1]]
<1>1. n \in Nat /\ <<>> \in A
  OBVIOUS
<1>2. \A i \in 1 .. n : items[i] \in Items
  OBVIOUS
<1>3. step \in [1 .. n -> [A -> A]]
  <2>1. \A i \in 1 .. n, x \in A : (IF items[i].start = st THEN Append(x, items[i]) ELSE x) \in A
    <3> HIDE DEF n
    <3> QED
      BY <1>2
  <2> HIDE DEF n, A
  <2> QED
    BY <2>1
<1>4. PICK f \in [0 .. n -> A] : Solves(f, <<>>, n, step)
  <2> DEFINE a == <<>>
  <2>1. n \in Nat /\ a \in A /\ step \in [1 .. n -> [A -> A]]
    BY <1>1, <1>3
  <2> HIDE DEF n, A, step, a
  <2>2. \E f \in [0 .. n -> A] : Solves(f, a, n, step)
    BY <2>1, RecursionSolved
  <2> QED
    BY <2>2 DEF a
<1>5. \A i \in 0 .. n : i # 0 => step[i][f[i - 1]] = IF items[i].start = st THEN Append(f[i - 1], items[i]) ELSE f[i - 1]
  <2> HIDE DEF n, A
  <2>1. f \in [0 .. n -> A]
    BY <1>4
  <2>2. \A i \in 0 .. n : i # 0 => i \in 1 .. n /\ f[i - 1] \in A
    BY <1>1, <2>1
  <2> QED
    BY <2>2
<1>6. f = Body(f)
  <2> HIDE DEF n, A, step
  <2>1. [i \in 0 .. n |-> IF i = 0 THEN <<>> ELSE step[i][f[i - 1]]] = Body(f)
    BY <1>5
  <2> HIDE DEF Body
  <2> QED
    BY <1>4, <2>1 DEF Solves
<1> QED
  BY <1>6, Zenon DEF Kept

LEMMA FirstSolved ==
  ASSUME NEW doc \in Seq(Entries), \A i \in DOMAIN doc : doc[i].ok => doc[i].id # NoId
  PROVE  FirstOf(doc) = [i \in 0 .. Len(doc) |->
           IF i = 0 THEN [items |-> <<>>, invalid |-> {}] ELSE Round(doc[i])[FirstOf(doc)[i - 1]]]
<1> DEFINE n == Len(doc)
           step == [i \in 1 .. n |-> [x \in Accs |-> Round(doc[i])[x]]]
           Body(f) == [i \in 0 .. n |->
             IF i = 0 THEN [items |-> <<>>, invalid |-> {}] ELSE Round(doc[i])[f[i - 1]]]
<1>1. n \in Nat /\ [items |-> <<>>, invalid |-> {}] \in Accs
  BY DEF Accs
<1>2. \A i \in 1 .. n : doc[i] \in Entries /\ (doc[i].ok => doc[i].id # NoId)
  OBVIOUS
<1>3. step \in [1 .. n -> [Accs -> Accs]]
  <2>1. \A i \in 1 .. n, x \in Accs : Round(doc[i])[x] \in Accs
    <3> HIDE DEF n
    <3> QED
      BY <1>2, RoundTyped
  <2> HIDE DEF n
  <2> QED
    BY <2>1
<1>4. PICK f \in [0 .. n -> Accs] : Solves(f, [items |-> <<>>, invalid |-> {}], n, step)
  <2> DEFINE a == [items |-> <<>>, invalid |-> {}]
  <2>1. n \in Nat /\ a \in Accs /\ step \in [1 .. n -> [Accs -> Accs]]
    BY <1>1, <1>3
  <2> HIDE DEF n, step, a
  <2>2. \E f \in [0 .. n -> Accs] : Solves(f, a, n, step)
    BY <2>1, RecursionSolved
  <2> QED
    BY <2>2 DEF a
<1>5. \A i \in 0 .. n : i # 0 => step[i][f[i - 1]] = Round(doc[i])[f[i - 1]]
  <2> HIDE DEF n
  <2>1. f \in [0 .. n -> Accs]
    BY <1>4
  <2>2. \A i \in 0 .. n : i # 0 => i \in 1 .. n /\ f[i - 1] \in Accs
    BY <1>1, <2>1
  <2> QED
    BY <2>2
<1>6. f = Body(f)
  <2> HIDE DEF n, step
  <2>1. [i \in 0 .. n |-> IF i = 0 THEN [items |-> <<>>, invalid |-> {}] ELSE step[i][f[i - 1]]] = Body(f)
    BY <1>5
  <2> HIDE DEF Body
  <2> QED
    BY <1>4, <2>1 DEF Solves
<1> QED
  BY <1>6, Zenon DEF FirstOf

\* x is in the list.
In(s, x) == \E k \in DOMAIN s : s[k] = x

\* No item has the id or the key of one before it.
Apart(s) == \A k \in DOMAIN s : \A l \in 1 .. k - 1 : ~Conflict(s[k], s[l])

LEMMA ConflictSymmetric == \A x, y : Conflict(x, y) => Conflict(y, x)
  BY DEF Conflict

LEMMA InAppend ==
  ASSUME NEW T, NEW s \in Seq(T), NEW x \in T
  PROVE  \A y : In(Append(s, x), y) <=> In(s, y) \/ y = x
<1>1. /\ DOMAIN s = 1 .. Len(s) /\ DOMAIN Append(s, x) = 1 .. Len(s) + 1 /\ Len(s) \in Nat
      /\ \A k \in 1 .. Len(s) : Append(s, x)[k] = s[k]
      /\ Append(s, x)[Len(s) + 1] = x
  OBVIOUS
<1> DEFINE a == Append(s, x)
<1> HIDE DEF a
<1>2. \A k \in 1 .. Len(s) + 1 : k \in 1 .. Len(s) \/ k = Len(s) + 1
  BY <1>1
<1> QED
  BY <1>1, <1>2 DEF In, a

LEMMA ApartAppend ==
  ASSUME NEW T, NEW s \in Seq(T), NEW x \in T, Apart(s),
         \A y : In(s, y) => ~Conflict(x, y)
  PROVE  Apart(Append(s, x))
<1>1. /\ DOMAIN s = 1 .. Len(s) /\ DOMAIN Append(s, x) = 1 .. Len(s) + 1 /\ Len(s) \in Nat
      /\ \A k \in 1 .. Len(s) : Append(s, x)[k] = s[k]
      /\ Append(s, x)[Len(s) + 1] = x
  OBVIOUS
<1> DEFINE a == Append(s, x)
<1> HIDE DEF a
<1>2. SUFFICES ASSUME NEW k \in 1 .. Len(s) + 1, NEW l \in 1 .. k - 1
               PROVE  ~Conflict(a[k], a[l])
  BY <1>1 DEF Apart, a
<1>3. l \in 1 .. Len(s) /\ a[l] = s[l] /\ In(s, s[l])
  BY <1>1 DEF a, In
<1>4. CASE k = Len(s) + 1
  BY <1>1, <1>3, <1>4 DEF a
<1>5. CASE k # Len(s) + 1
  <2>1. k \in 1 .. Len(s) /\ a[k] = s[k]
    BY <1>1, <1>5 DEF a
  <2> QED
    BY <1>1, <1>3, <2>1 DEF Apart
<1> QED
  BY <1>4, <1>5

\* What StartingAt has put together after i items.
KeptRight(s, st, items, i) ==
  /\ s \in Seq(Items)
  /\ \A y : In(s, y) => \E j \in 1 .. i : y = items[j] /\ y.start = st
  /\ \A j \in 1 .. i : items[j].start = st => In(s, items[j])
  /\ Apart(items) => Apart(s)

\* One more item.
LEMMA KeptStep ==
  ASSUME NEW st, NEW items \in Seq(Items), NEW i \in Nat, i + 1 <= Len(items),
         NEW s, KeptRight(s, st, items, i)
  PROVE  KeptRight(IF items[i + 1].start = st THEN Append(s, items[i + 1]) ELSE s, st, items, i + 1)
<1> DEFINE x == items[i + 1]
<1>1. /\ x \in Items /\ i + 1 \in DOMAIN items
      /\ \A j \in 1 .. i : j \in DOMAIN items /\ j \in 1 .. i + 1 - 1 /\ j \in 1 .. i + 1
      /\ \A j \in 1 .. i + 1 : j \in 1 .. i \/ j = i + 1
      /\ i + 1 \in 1 .. i + 1
  OBVIOUS
<1>2. s \in Seq(Items) /\ \A y : In(s, y) => \E j \in 1 .. i : y = items[j] /\ y.start = st
  BY DEF KeptRight
<1>3. CASE x.start = st
  <2> DEFINE a == Append(s, x)
  <2>1. a \in Seq(Items)
    BY <1>1, <1>2
  <2>2. \A y : In(a, y) <=> In(s, y) \/ y = x
    <3> HIDE DEF x
    <3> QED
      BY <1>1, <1>2, InAppend
  <2>3. Apart(items) => Apart(a)
    <3>1. SUFFICES ASSUME Apart(items) PROVE Apart(a)
      OBVIOUS
    <3>2. Apart(s)
      BY <3>1 DEF KeptRight
    <3>3. \A y : In(s, y) => ~Conflict(x, y)
      BY <1>1, <1>2, <3>1 DEF Apart
    <3> HIDE DEF x
    <3> QED
      BY <1>1, <1>2, <3>2, <3>3, ApartAppend
  <2> HIDE DEF a
  <2>4. KeptRight(a, st, items, i + 1)
    <3>1. \A y : In(a, y) => \E j \in 1 .. i + 1 : y = items[j] /\ y.start = st
      BY <1>1, <1>2, <1>3, <2>2
    <3>2. \A j \in 1 .. i + 1 : items[j].start = st => In(a, items[j])
      BY <1>1, <1>3, <2>2 DEF KeptRight
    <3> QED
      BY <2>1, <2>3, <3>1, <3>2 DEF KeptRight
  <2> QED
    BY <1>3, <2>4 DEF a
<1>4. CASE x.start # st
  <2>1. \A j \in 1 .. i + 1 : items[j].start = st => In(s, items[j])
    BY <1>1, <1>4 DEF KeptRight
  <2>2. \A y : In(s, y) => \E j \in 1 .. i + 1 : y = items[j] /\ y.start = st
    BY <1>1, <1>2
  <2>3. KeptRight(s, st, items, i + 1)
    BY <1>2, <2>1, <2>2 DEF KeptRight
  <2> QED
    BY <1>4, <2>3
<1> QED
  BY <1>3, <1>4

LEMMA StartingAtRight ==
  ASSUME NEW st, NEW items \in Seq(Items)
  PROVE  KeptRight(StartingAt(st, items), st, items, Len(items))
<1> DEFINE n == Len(items)
           K == Kept(st, items)
           S == {i \in Nat : i <= n => KeptRight(K[i], st, items, i)}
<1>1. n \in Nat
  OBVIOUS
<1>2. /\ K[0] = <<>>
      /\ \A i \in Nat : i + 1 <= n => K[i + 1] = IF items[i + 1].start = st THEN Append(K[i], items[i + 1]) ELSE K[i]
  <2>1. \A i \in 0 .. n : K[i] = IF i = 0 THEN <<>>
                                ELSE IF items[i].start = st THEN Append(K[i - 1], items[i]) ELSE K[i - 1]
    <3>1. K = [i \in 0 .. n |-> IF i = 0 THEN <<>>
                 ELSE IF items[i].start = st THEN Append(K[i - 1], items[i]) ELSE K[i - 1]]
      BY KeptSolved, Zenon
    <3> HIDE DEF K, n
    <3> QED
      BY <3>1
  <2> HIDE DEF K, n
  <2>2. \A i \in Nat : i + 1 <= n => i + 1 \in 0 .. n /\ i + 1 # 0 /\ i + 1 - 1 = i
    BY <1>1
  <2> QED
    BY <1>1, <2>1, <2>2
<1> HIDE DEF K
<1>3. 0 \in S
  <2>1. /\ <<>> \in Seq(Items) /\ \A y : ~In(<<>>, y) /\ Apart(<<>>) /\ 1 .. 0 = {}
    BY DEF In, Apart
  <2>2. KeptRight(<<>>, st, items, 0)
    BY <2>1 DEF KeptRight
  <2> QED
    BY <1>2, <2>2
<1>4. ASSUME NEW i \in S PROVE i + 1 \in S
  <2>1. i \in Nat /\ i + 1 \in Nat
    OBVIOUS
  <2>2. ASSUME i + 1 <= n PROVE KeptRight(K[i + 1], st, items, i + 1)
    <3>1. KeptRight(K[i], st, items, i)
      BY <1>1, <2>1, <2>2
    <3> QED
      BY <1>2, <2>1, <2>2, <3>1, KeptStep
  <2> QED
    BY <2>1, <2>2
<1>5. S = Nat
  <2>1. S \in SUBSET Nat
    OBVIOUS
  <2> HIDE DEF S
  <2> QED
    BY <1>3, <1>4, <2>1, UpwardFromZero
<1>6. KeptRight(K[n], st, items, n)
  BY <1>1, <1>5
<1> QED
  BY <1>6, StartingAtIsKept DEF K

\* The order of the starts.
Sorted(s) == \A k \in DOMAIN s : \A l \in 1 .. k - 1 : s[l].start <= s[k].start

LEMMA ByStartRight ==
  ASSUME NEW items \in Seq(Items)
  PROVE  /\ ByStart(items) \in Seq(Items)
         /\ \A y : In(ByStart(items), y) <=> In(items, y)
         /\ Sorted(ByStart(items))
         /\ Apart(items) => Apart(ByStart(items))
<1> DEFINE u == StartingAt(1, items)
           v == StartingAt(2, items)
           r == u \o v
<1>1. KeptRight(u, 1, items, Len(items)) /\ KeptRight(v, 2, items, Len(items))
  BY StartingAtRight
<1>2. u \in Seq(Items) /\ v \in Seq(Items)
  BY <1>1 DEF KeptRight
<1>d. DOMAIN items = 1 .. Len(items) /\ Len(items) \in Nat /\ \A j \in 1 .. Len(items) : items[j] \in Items
  OBVIOUS
<1>u. \A y : In(u, y) => y.start = 1 /\ \E j \in 1 .. Len(items) : y = items[j]
  BY <1>1 DEF KeptRight
<1>v. \A y : In(v, y) => y.start = 2 /\ \E j \in 1 .. Len(items) : y = items[j]
  BY <1>1 DEF KeptRight
<1>w. \A j \in 1 .. Len(items) : In(u, items[j]) \/ In(v, items[j])
  <2>1. \A j \in 1 .. Len(items) : items[j].start \in {1, 2}
    BY <1>d DEF Items
  <2> QED
    BY <1>1, <2>1 DEF KeptRight
<1> HIDE DEF u, v
<1>3. /\ r \in Seq(Items)
      /\ DOMAIN r = 1 .. Len(u) + Len(v) /\ Len(u) \in Nat /\ Len(v) \in Nat
      /\ DOMAIN u = 1 .. Len(u) /\ DOMAIN v = 1 .. Len(v)
      /\ \A k \in 1 .. Len(u) : r[k] = u[k]
      /\ \A k \in Len(u) + 1 .. Len(u) + Len(v) : r[k] = v[k - Len(u)]
  BY <1>2
<1> HIDE DEF r
<1>4. \A k \in DOMAIN r : \/ k \in 1 .. Len(u) /\ r[k] = u[k] /\ In(u, r[k])
                         \/ /\ k \in Len(u) + 1 .. Len(u) + Len(v) /\ k - Len(u) \in 1 .. Len(v)
                            /\ r[k] = v[k - Len(u)] /\ In(v, r[k])
  <2> SUFFICES ASSUME NEW k \in DOMAIN r
               PROVE  \/ k \in 1 .. Len(u) /\ r[k] = u[k] /\ In(u, r[k])
                      \/ /\ k \in Len(u) + 1 .. Len(u) + Len(v) /\ k - Len(u) \in 1 .. Len(v)
                         /\ r[k] = v[k - Len(u)] /\ In(v, r[k])
    OBVIOUS
  <2>1. CASE k \in 1 .. Len(u)
    BY <1>3, <2>1 DEF In
  <2>2. CASE k \notin 1 .. Len(u)
    <3>1. k \in Len(u) + 1 .. Len(u) + Len(v) /\ k - Len(u) \in 1 .. Len(v)
      BY <1>3, <2>2
    <3> QED
      BY <1>3, <3>1 DEF In
  <2> QED
    BY <2>1, <2>2
<1>5. \A y : In(r, y) <=> In(u, y) \/ In(v, y)
  <2>1. ASSUME NEW y, In(r, y) PROVE In(u, y) \/ In(v, y)
    BY <1>4, <2>1 DEF In
  <2>2. ASSUME NEW y, In(u, y) PROVE In(r, y)
    <3>1. PICK k \in 1 .. Len(u) : u[k] = y
      BY <1>3, <2>2 DEF In
    <3>2. k \in DOMAIN r /\ r[k] = y
      BY <1>3, <3>1
    <3> QED
      BY <3>2 DEF In
  <2>3. ASSUME NEW y, In(v, y) PROVE In(r, y)
    <3>1. PICK k \in 1 .. Len(v) : v[k] = y
      BY <1>3, <2>3 DEF In
    <3>2. k + Len(u) \in DOMAIN r /\ k + Len(u) \in Len(u) + 1 .. Len(u) + Len(v) /\ k + Len(u) - Len(u) = k
      BY <1>3, <3>1
    <3>3. r[k + Len(u)] = y
      BY <1>3, <3>1, <3>2
    <3> QED
      BY <3>2, <3>3 DEF In
  <2> QED
    BY <2>1, <2>2, <2>3
<1>6. \A y : In(r, y) <=> In(items, y)
  <2>1. \A y : In(items, y) <=> \E j \in 1 .. Len(items) : y = items[j]
    BY <1>d DEF In
  <2> QED
    BY <1>5, <1>u, <1>v, <1>w, <2>1
<1>7. Sorted(r)
  <2> SUFFICES ASSUME NEW k \in DOMAIN r, NEW l \in 1 .. k - 1
               PROVE  r[l].start <= r[k].start
    BY DEF Sorted
  <2>1. l \in DOMAIN r /\ k \in Int /\ l \in Int /\ l < k
    BY <1>3
  <2>2. CASE k \in 1 .. Len(u)
    <3>1. l \in 1 .. Len(u)
      BY <1>3, <2>1, <2>2
    <3>2. In(u, r[l]) /\ In(u, r[k])
      BY <1>3, <2>2, <3>1 DEF In
    <3> QED
      BY <1>u, <3>2
  <2>3. CASE In(v, r[k])
    <3>1. r[k].start = 2
      BY <1>v, <2>3
    <3>2. r[l].start = 1 \/ r[l].start = 2
      BY <1>4, <2>1, <1>u, <1>v
    <3> QED
      BY <3>1, <3>2
  <2> QED
    BY <1>4, <2>2, <2>3
<1>8. ASSUME Apart(items) PROVE Apart(r)
  <2>a. Apart(u) /\ Apart(v)
    BY <1>1, <1>8 DEF KeptRight
  <2> SUFFICES ASSUME NEW k \in DOMAIN r, NEW l \in 1 .. k - 1
               PROVE  ~Conflict(r[k], r[l])
    BY DEF Apart
  <2>1. l \in DOMAIN r /\ k \in Int /\ l \in Int /\ l < k
    BY <1>3
  <2>2. CASE k \in 1 .. Len(u)
    <3>1. l \in 1 .. Len(u)
      BY <1>3, <2>1, <2>2
    <3> QED
      BY <1>3, <2>2, <3>1, <2>a DEF Apart
  <2>3. CASE k \notin 1 .. Len(u) /\ l \in 1 .. Len(u)
    <3>1. In(v, r[k]) /\ In(u, r[l])
      BY <1>4, <2>1, <2>3, <1>3 DEF In
    <3>2. r[k].start = 2 /\ r[l].start = 1
      BY <3>1, <1>u, <1>v
    <3>3. PICK i \in 1 .. Len(items) : r[k] = items[i]
      BY <3>1, <1>v
    <3>4. PICK j \in 1 .. Len(items) : r[l] = items[j]
      BY <3>1, <1>u
    <3>5. i # j
      BY <3>2, <3>3, <3>4
    <3>6. j \in 1 .. i - 1 \/ i \in 1 .. j - 1
      BY <3>5, <1>d
    <3>7. ~Conflict(items[i], items[j])
      BY <1>8, <1>d, <3>6, ConflictSymmetric DEF Apart
    <3> QED
      BY <3>3, <3>4, <3>7
  <2>4. CASE l \notin 1 .. Len(u)
    <3>1. k \notin 1 .. Len(u)
      BY <1>3, <2>1, <2>4
    <3>2. /\ k - Len(u) \in 1 .. Len(v) /\ r[k] = v[k - Len(u)]
          /\ l - Len(u) \in 1 .. Len(v) /\ r[l] = v[l - Len(u)]
      BY <1>4, <2>1, <2>4, <3>1
    <3>3. l - Len(u) \in 1 .. k - Len(u) - 1
      BY <1>3, <2>1, <3>2
    <3> QED
      BY <1>3, <2>a, <3>2, <3>3 DEF Apart
  <2> QED
    BY <2>2, <2>3, <2>4
<1>9. ByStart(items) = r
  BY DEF ByStart, r, u, v
<1> QED
  BY <1>3, <1>6, <1>7, <1>8, <1>9

\* What the loop has made of the first i entries.
FirstRight(p, doc, i) ==
  /\ p \in Accs
  /\ \A y : In(p.items, y) => \E j \in 1 .. i : doc[j].ok /\ y = ParsedItem(doc[j])
  /\ Apart(p.items)
  /\ \A j \in 1 .. i : doc[j].ok /\ ~In(p.items, ParsedItem(doc[j])) =>
       \E h \in 1 .. j - 1 : /\ doc[h].ok /\ In(p.items, ParsedItem(doc[h]))
                             /\ Conflict(ParsedItem(doc[j]), ParsedItem(doc[h]))
  /\ \A j \in 1 .. i : doc[j].id \in p.invalid \/ \E y : In(p.items, y) /\ y.id = doc[j].id

\* A document that is a list.
Documented(doc) == doc \in Seq(Entries) /\ \A i \in DOMAIN doc : doc[i].ok => doc[i].id # NoId

\* One more entry.
LEMMA FirstStep ==
  ASSUME NEW doc, Documented(doc), NEW i \in Nat, i + 1 <= Len(doc),
         NEW p, FirstRight(p, doc, i)
  PROVE  FirstRight(Round(doc[i + 1])[p], doc, i + 1)
<1> DEFINE e == doc[i + 1]
           q == Round(e)[p]
<1>1. /\ e \in Entries /\ i + 1 \in DOMAIN doc /\ (e.ok => e.id # NoId)
      /\ \A j \in 1 .. i : j \in 1 .. i + 1 - 1 /\ j \in 1 .. i + 1
      /\ \A j \in 1 .. i + 1 : j \in 1 .. i \/ j = i + 1
      /\ i + 1 \in 1 .. i + 1
  BY DEF Documented
<1>2. p \in Accs /\ p.items \in Seq(Items) /\ Apart(p.items)
  BY DEF FirstRight, Accs
<1>3. q \in Accs
  <2> HIDE DEF e
  <2> QED
    BY <1>1, <1>2, RoundTyped
<1>4. CASE Accepted(p, e)
  <2> DEFINE x == ParsedItem(e)
  <2>1. q.items = Append(p.items, x) /\ q.invalid = p.invalid
    <3> HIDE DEF e
    <3> QED
      BY <1>1, <1>2, <1>4, RoundIs
  <2>2. x \in Items
    <3>1. e.id \in Ids /\ e.start \in {1, 2} /\ e.key \in Keys
      BY <1>1, <1>4 DEF Accepted, Entries
    <3> QED
      BY <3>1, TrimmedKeys DEF ParsedItem, Items
  <2>x. x.id = e.id /\ e.ok
    BY <1>4 DEF ParsedItem, Accepted
  <2> HIDE DEF q, x
  <2>3. \A y : In(q.items, y) <=> In(p.items, y) \/ y = x
    BY <1>2, <2>1, <2>2, InAppend
  <2>4. Apart(q.items)
    <3>1. \A y : In(p.items, y) => ~Conflict(x, y)
      BY <1>4, ConflictSymmetric DEF Accepted, In, x
    <3> QED
      BY <1>2, <2>1, <2>2, <3>1, ApartAppend
  <2>5. \A y : In(q.items, y) => \E j \in 1 .. i + 1 : doc[j].ok /\ y = ParsedItem(doc[j])
    BY <1>1, <2>3, <2>x DEF FirstRight, x
  <2>6. \A j \in 1 .. i + 1 : doc[j].ok /\ ~In(q.items, ParsedItem(doc[j])) =>
          \E h \in 1 .. j - 1 : /\ doc[h].ok /\ In(q.items, ParsedItem(doc[h]))
                                /\ Conflict(ParsedItem(doc[j]), ParsedItem(doc[h]))
    BY <1>1, <2>3 DEF FirstRight, x
  <2>7. \A j \in 1 .. i + 1 : doc[j].id \in q.invalid \/ \E y : In(q.items, y) /\ y.id = doc[j].id
    BY <1>1, <2>1, <2>3, <2>x DEF FirstRight, x
  <2> QED
    BY <1>3, <2>4, <2>5, <2>6, <2>7 DEF FirstRight, q
<1>5. CASE ~Accepted(p, e)
  <2>1. q.items = p.items /\ q.invalid = p.invalid \cup {e.id}
    <3> HIDE DEF e
    <3> QED
      BY <1>1, <1>2, <1>5, RoundIs
  <2> HIDE DEF q
  <2>2. e.ok => \E h \in 1 .. i : /\ doc[h].ok /\ In(p.items, ParsedItem(doc[h]))
                                   /\ Conflict(ParsedItem(e), ParsedItem(doc[h]))
    <3> SUFFICES ASSUME e.ok
                 PROVE  \E h \in 1 .. i : /\ doc[h].ok /\ In(p.items, ParsedItem(doc[h]))
                                          /\ Conflict(ParsedItem(e), ParsedItem(doc[h]))
      OBVIOUS
    <3>1. PICK k \in DOMAIN p.items : Conflict(p.items[k], ParsedItem(e))
      BY <1>5 DEF Accepted
    <3>2. In(p.items, p.items[k])
      BY DEF In
    <3>3. PICK h \in 1 .. i : doc[h].ok /\ p.items[k] = ParsedItem(doc[h])
      BY <3>2 DEF FirstRight
    <3> QED
      BY <3>1, <3>2, <3>3, ConflictSymmetric
  <2>5. \A y : In(q.items, y) => \E j \in 1 .. i + 1 : doc[j].ok /\ y = ParsedItem(doc[j])
    BY <1>1, <2>1 DEF FirstRight
  <2>6. \A j \in 1 .. i + 1 : doc[j].ok /\ ~In(q.items, ParsedItem(doc[j])) =>
          \E h \in 1 .. j - 1 : /\ doc[h].ok /\ In(q.items, ParsedItem(doc[h]))
                                /\ Conflict(ParsedItem(doc[j]), ParsedItem(doc[h]))
    BY <1>1, <2>1, <2>2 DEF FirstRight
  <2>7. \A j \in 1 .. i + 1 : doc[j].id \in q.invalid \/ \E y : In(q.items, y) /\ y.id = doc[j].id
    BY <1>1, <2>1 DEF FirstRight
  <2> QED
    BY <1>2, <1>3, <2>1, <2>5, <2>6, <2>7 DEF FirstRight, q
<1> QED
  BY <1>4, <1>5

LEMMA FirstOfRight ==
  ASSUME NEW doc, Documented(doc)
  PROVE  FirstRight(FirstOf(doc)[Len(doc)], doc, Len(doc))
<1> DEFINE n == Len(doc)
           K == FirstOf(doc)
           nothing == [items |-> <<>>, invalid |-> {}]
           S == {i \in Nat : i <= n => FirstRight(K[i], doc, i)}
<1>1. n \in Nat /\ doc \in Seq(Entries) /\ \A i \in DOMAIN doc : doc[i].ok => doc[i].id # NoId
  BY DEF Documented
<1>2. /\ K[0] = nothing
      /\ \A i \in Nat : i + 1 <= n => K[i + 1] = Round(doc[i + 1])[K[i]]
  <2>1. \A i \in 0 .. n : K[i] = IF i = 0 THEN nothing ELSE Round(doc[i])[K[i - 1]]
    <3>1. K = [i \in 0 .. n |-> IF i = 0 THEN nothing ELSE Round(doc[i])[K[i - 1]]]
      BY <1>1, FirstSolved, Zenon
    <3> HIDE DEF K, n, nothing
    <3> QED
      BY <3>1
  <2> HIDE DEF K, n, nothing
  <2>2. \A i \in Nat : i + 1 <= n => i + 1 \in 0 .. n /\ i + 1 # 0 /\ i + 1 - 1 = i
    BY <1>1
  <2> QED
    BY <1>1, <2>1, <2>2
<1> HIDE DEF K
<1>3. 0 \in S
  <2>1. nothing.items = <<>> /\ nothing \in Accs
    BY DEF Accs
  <2>2. \A y : ~In(<<>>, y)
    BY DEF In
  <2>3. Apart(<<>>) /\ 1 .. 0 = {}
    BY DEF Apart
  <2> HIDE DEF nothing
  <2>4. FirstRight(nothing, doc, 0)
    BY <2>1, <2>2, <2>3 DEF FirstRight
  <2> QED
    BY <1>2, <2>4
<1>4. ASSUME NEW i \in S PROVE i + 1 \in S
  <2>1. i \in Nat /\ i + 1 \in Nat
    OBVIOUS
  <2>2. ASSUME i + 1 <= n PROVE FirstRight(K[i + 1], doc, i + 1)
    <3>1. FirstRight(K[i], doc, i)
      BY <1>1, <2>1, <2>2
    <3> QED
      BY <1>2, <2>1, <2>2, <3>1, FirstStep
  <2> QED
    BY <2>1, <2>2
<1>5. S = Nat
  <2>1. S \in SUBSET Nat
    OBVIOUS
  <2> HIDE DEF S
  <2> QED
    BY <1>3, <1>4, <2>1, UpwardFromZero
<1>6. FirstRight(K[n], doc, n)
  BY <1>1, <1>5
<1> QED
  BY <1>6 DEF K

\* What Parse returns for a document that it does not refuse is a right reading of it,
\* whatever the number of entries and however their ids and keys collide.
THEOREM ParsedRight ==
  ASSUME NEW doc, Documented(doc), NEW version, Parses(doc)
  PROVE  /\ IsScheduleOf(Schedule(version, Parsed(doc)), doc)
         /\ Parsed(doc).items \in Seq(Items)
         /\ Parsed(doc).invalid \in SUBSET Ids
<1> DEFINE p == FirstOf(doc)[Len(doc)]
           s == Schedule(version, Parsed(doc))
<1>1. FirstRight(p, doc, Len(doc))
  BY FirstOfRight
<1> HIDE DEF p
<1>2. p.items \in Seq(Items)
  BY <1>1 DEF FirstRight, Accs
<1>3. Parsed(doc) = [items |-> ByStart(p.items), invalid |-> p.invalid \ {NoId}]
  BY ParsedIsFirst DEF p
<1>4. s.items = ByStart(p.items) /\ s.invalid = p.invalid \ {NoId} /\ Parsed(doc).items = s.items
  BY <1>3 DEF Schedule
<1> HIDE DEF s
<1>5. /\ s.items \in Seq(Items) /\ Sorted(s.items) /\ Apart(s.items)
      /\ \A y : In(s.items, y) <=> In(p.items, y)
  BY <1>1, <1>2, <1>4, ByStartRight DEF FirstRight
<1>6. doc # Malformed /\ (doc # <<>> => s.items # <<>>)
  BY <1>4 DEF Parses
<1>7. DOMAIN doc = 1 .. Len(doc) /\ Len(doc) \in Nat
  BY DEF Documented
<1> DEFINE taken(i) == doc[i].ok /\ \E k \in DOMAIN s.items : s.items[k] = ParsedItem(doc[i])
<1>8. \A i : taken(i) <=> doc[i].ok /\ In(p.items, ParsedItem(doc[i]))
  BY <1>5 DEF In
<1> HIDE DEF taken
<1>9. \A k \in DOMAIN s.items : \E i \in DOMAIN doc : taken(i) /\ s.items[k] = ParsedItem(doc[i])
  <2> SUFFICES ASSUME NEW k \in DOMAIN s.items
               PROVE  \E i \in DOMAIN doc : taken(i) /\ s.items[k] = ParsedItem(doc[i])
    OBVIOUS
  <2>1. In(p.items, s.items[k])
    BY <1>5 DEF In
  <2> QED
    BY <1>1, <1>7, <1>8, <2>1 DEF FirstRight
<1>10. \A i \in DOMAIN doc : doc[i].ok /\ ~taken(i) =>
          \E j \in 1 .. i - 1 : taken(j) /\ Conflict(ParsedItem(doc[i]), ParsedItem(doc[j]))
  BY <1>1, <1>7, <1>8 DEF FirstRight
<1>11. \A i \in DOMAIN doc : doc[i].id # NoId =>
          doc[i].id \in s.invalid \cup {s.items[k].id : k \in DOMAIN s.items}
  <2> SUFFICES ASSUME NEW i \in DOMAIN doc, doc[i].id # NoId, doc[i].id \notin s.invalid
               PROVE  doc[i].id \in {s.items[k].id : k \in DOMAIN s.items}
    OBVIOUS
  <2>1. PICK y : In(p.items, y) /\ y.id = doc[i].id
    BY <1>1, <1>4, <1>7 DEF FirstRight
  <2>2. PICK k \in DOMAIN s.items : s.items[k] = y
    BY <1>5, <2>1 DEF In
  <2> QED
    BY <2>1, <2>2
<1>12. IsScheduleOf(s, doc)
  BY <1>5, <1>6, <1>9, <1>10, <1>11 DEF IsScheduleOf, Sorted, Apart, taken
<1>13. Parsed(doc).invalid \in SUBSET Ids
  BY <1>1, <1>3 DEF FirstRight, Accs
<1> QED
  BY <1>4, <1>5, <1>12, <1>13 DEF s

\* The items of a schedule, read again, are entries.
LEMMA AsEntriesTyped ==
  ASSUME NEW items \in Seq(Items)
  PROVE  /\ AsEntries(items) \in Seq(Entries)
         /\ \A i \in DOMAIN AsEntries(items) : AsEntries(items)[i].id # NoId
<1>1. DOMAIN items = 1 .. Len(items) /\ Len(items) \in Nat /\ \A i \in 1 .. Len(items) : items[i] \in Items
  OBVIOUS
<1> DEFINE a == AsEntries(items)
<1>2. /\ a = [i \in 1 .. Len(items) |-> a[i]]
      /\ \A i \in 1 .. Len(items) : a[i] \in Entries /\ a[i].id # NoId
  BY <1>1, NoneAssumption DEF AsEntries, Entries, Items
<1> HIDE DEF a
<1>3. a \in Seq(Entries)
  BY <1>1, <1>2, SeqDef
<1> QED
  BY <1>1, <1>2, <1>3 DEF a

\* The version does not matter.
LEMMA SameReading ==
  ASSUME NEW s, NEW t, NEW doc, s.items = t.items, s.invalid = t.invalid, IsScheduleOf(s, doc)
  PROVE  IsScheduleOf(t, doc)
  BY DEF IsScheduleOf

\* Parsing what was parsed changes nothing that a schedule says of its document.
LEMMA LoadedRight ==
  ASSUME NEW doc, Documented(doc), SingleSlashes(doc), NEW c,
         c.items \in Seq(Items), Parses(AsEntries(c.items)), IsScheduleOf(c, doc)
  PROVE  IsScheduleOf(Loaded(c), doc)
<1> DEFINE again == AsEntries(c.items)
           s == Schedule(c.version, Parsed(again))
           r == Loaded(c)
<1>1. /\ DOMAIN again = DOMAIN c.items /\ DOMAIN c.items = 1 .. Len(c.items) /\ Len(c.items) \in Nat
      /\ \A k \in DOMAIN c.items : /\ c.items[k] \in Items
                                 /\ again[k] = [id |-> c.items[k].id, start |-> c.items[k].start,
                                                key |-> c.items[k].key, ok |-> TRUE]
  BY DEF AsEntries
<1>2. Documented(again)
  BY AsEntriesTyped DEF Documented
<1>3. IsScheduleOf(s, again)
  BY <1>2, ParsedRight
<1>4. /\ r.items = s.items /\ r.invalid = s.invalid \cup c.invalid
  BY DEF Loaded, Schedule
<1>5. \A k \in DOMAIN c.items : ParsedItem(again[k]) = c.items[k] /\ again[k].ok
  <2> SUFFICES ASSUME NEW k \in DOMAIN c.items
               PROVE  ParsedItem(again[k]) = c.items[k] /\ again[k].ok
    OBVIOUS
  <2> DEFINE x == c.items[k]
  <2>1. PICK i \in DOMAIN doc : c.items[k] = ParsedItem(doc[i])
    BY DEF IsScheduleOf
  <2>2. doc[i].key \in Keys /\ doc[i].key <= 1
    <3>1. doc \in Seq(Entries)
      BY DEF Documented
    <3>2. doc[i] \in Entries
      BY <3>1
    <3> QED
      BY <3>2 DEF Entries, SingleSlashes
  <2>3. x.key = TrimmedKey(doc[i].key)
    BY <2>1 DEF ParsedItem
  <2>4. x \in Items /\ again[k] = [id |-> x.id, start |-> x.start, key |-> x.key, ok |-> TRUE]
    BY <1>1
  <2> HIDE DEF x, again
  <2>5. TrimmedKey(x.key) = x.key
    BY <2>2, <2>3 DEF TrimmedKey, Keys, NoKey
  <2>6. x = [id |-> x.id, start |-> x.start, key |-> x.key]
    BY <2>4 DEF Items
  <2>7. ParsedItem(again[k]) = x /\ again[k].ok
    BY <2>4, <2>5, <2>6 DEF ParsedItem
  <2> QED
    BY <2>7 DEF x
<1> HIDE DEF again, s, r
<1>6. \A k \in DOMAIN s.items : In(c.items, s.items[k])
  BY <1>1, <1>3, <1>5 DEF IsScheduleOf, In
<1>7. \A i \in DOMAIN c.items : In(s.items, c.items[i])
  <2> SUFFICES ASSUME NEW i \in DOMAIN c.items, ~In(s.items, c.items[i])
               PROVE  FALSE
    OBVIOUS
  <2>1. again[i].ok /\ i \in DOMAIN again /\ ~\E k \in DOMAIN s.items : s.items[k] = ParsedItem(again[i])
    BY <1>1, <1>5 DEF In
  <2>2. PICK j \in 1 .. i - 1 : Conflict(ParsedItem(again[i]), ParsedItem(again[j]))
    BY <1>3, <2>1 DEF IsScheduleOf
  <2>3. j \in DOMAIN c.items
    BY <1>1
  <2>4. Conflict(c.items[i], c.items[j])
    BY <1>5, <2>2, <2>3
  <2> QED
    BY <2>2, <2>4 DEF IsScheduleOf
<1>8. \A y : In(s.items, y) <=> In(c.items, y)
  BY <1>6, <1>7 DEF In
<1>9. /\ Sorted(s.items) /\ Apart(s.items)
  BY <1>3 DEF IsScheduleOf, Sorted, Apart
<1>10. doc # Malformed /\ (doc # <<>> => r.items # <<>>)
  <2>1. c.items # <<>> => 1 \in DOMAIN c.items
    BY <1>1
  <2>2. \A y : ~In(<<>>, y)
    BY DEF In
  <2> QED
    BY <1>4, <1>7, <2>1, <2>2 DEF IsScheduleOf
<1> DEFINE took(t, i) == doc[i].ok /\ In(t, ParsedItem(doc[i]))
<1>11. \A i : took(r.items, i) <=> took(c.items, i)
  BY <1>4, <1>8
<1>12. \A k \in DOMAIN r.items : \E i \in DOMAIN doc : took(r.items, i) /\ r.items[k] = ParsedItem(doc[i])
  <2> SUFFICES ASSUME NEW k \in DOMAIN r.items
               PROVE  \E i \in DOMAIN doc : took(r.items, i) /\ r.items[k] = ParsedItem(doc[i])
    OBVIOUS
  <2>1. PICK l \in DOMAIN c.items : c.items[l] = r.items[k]
    BY <1>4, <1>6 DEF In
  <2>2. PICK i \in DOMAIN doc : took(c.items, i) /\ c.items[l] = ParsedItem(doc[i])
    BY DEF IsScheduleOf, In
  <2> HIDE DEF took
  <2> QED
    BY <1>11, <2>1, <2>2
<1>13. \A i \in DOMAIN doc : doc[i].ok /\ ~took(r.items, i) =>
          \E j \in 1 .. i - 1 : took(r.items, j) /\ Conflict(ParsedItem(doc[i]), ParsedItem(doc[j]))
  <2>1. \A i \in DOMAIN doc : doc[i].ok /\ ~took(c.items, i) =>
          \E j \in 1 .. i - 1 : took(c.items, j) /\ Conflict(ParsedItem(doc[i]), ParsedItem(doc[j]))
    BY DEF IsScheduleOf, In
  <2> HIDE DEF took
  <2> QED
    BY <1>11, <2>1
<1>14. \A i \in DOMAIN doc : doc[i].id # NoId =>
          doc[i].id \in r.invalid \cup {r.items[k].id : k \in DOMAIN r.items}
  <2> SUFFICES ASSUME NEW i \in DOMAIN doc, doc[i].id # NoId, doc[i].id \notin r.invalid
               PROVE  doc[i].id \in {r.items[k].id : k \in DOMAIN r.items}
    OBVIOUS
  <2>1. PICK l \in DOMAIN c.items : c.items[l].id = doc[i].id
    BY <1>4 DEF IsScheduleOf
  <2>2. PICK k \in DOMAIN r.items : r.items[k] = c.items[l]
    BY <1>4, <1>7 DEF In
  <2> QED
    BY <2>1, <2>2
<1>15. IsScheduleOf(r, doc)
  BY <1>4, <1>9, <1>10, <1>12, <1>13, <1>14 DEF IsScheduleOf, Sorted, Apart, In
<1> QED
  BY <1>15 DEF r
-----------------------------------------------------------------------------
\* A document that the server has is one that Parse can read or refuse.
LEMMA KnownDocument ==
  ASSUME NEW doc \in Documents, Parses(doc)
  PROVE  Documented(doc)
  BY DocumentsAssumption DEF Parses, Documented

\* Every file holds what Parse made of the document that it names.
CacheRight ==
  \A c \in cache :
    LET doc == served[c.url][c.version]
    IN Documented(doc) /\ (SingleSlashes(doc) => IsScheduleOf(c, doc))

\* What is about to be in force has been parsed.
StoredParses == pc = "stored" => Parses(answer.doc)

ForceInv == CacheInv /\ TypeOK /\ CacheRight /\ StoredParses /\ InForceWasServed

LEMMA InitForceInv == Init => ForceInv
<1> SUFFICES ASSUME Init
             PROVE  ForceInv
  OBVIOUS
<1>1. CacheInv
  BY InitCacheInv
<1>2. TypeOK
  BY <1>1 DEF Init, TypeOK, CacheInv, TagInv, Typed
<1> QED
  BY <1>1, <1>2 DEF Init, ForceInv, CacheRight, StoredParses, InForceWasServed

\* The document on its way, and what Parse makes of it.
LEMMA AnswerParsed ==
  ASSUME ForceInv, pc \in {"answered", "stored"}, Parses(answer.doc)
  PROVE  /\ answer.version \in 1 .. Len(served[url]) /\ answer.version \in Nat
         /\ answer.doc = served[url][answer.version]
         /\ Documented(answer.doc)
         /\ \A v : IsScheduleOf(Schedule(v, Parsed(answer.doc)), answer.doc)
         /\ Parsed(answer.doc).items \in Seq(Items)
         /\ Parsed(answer.doc).invalid \in SUBSET Ids
<1>1. /\ answer.version \in 1 .. Len(served[url])
      /\ answer.doc = served[url][answer.version]
      /\ served[url] \in Seq(Documents)
  BY DEF ForceInv, CacheInv, TagInv, Typed, AnswerKnown
<1>2. answer.doc \in Documents /\ answer.version \in Nat
  BY <1>1
<1>3. Documented(answer.doc)
  BY <1>2, KnownDocument
<1> QED
  BY <1>1, <1>2, <1>3, ParsedRight

\* What LoadCache makes of a file.
LEMMA LoadedTyped ==
  ASSUME TypeOK, NEW c \in cache, Parses(AsEntries(c.items))
  PROVE  Loaded(c) \in Schedules
<1>1. c.items \in Seq(Items) /\ c.invalid \in SUBSET Ids /\ c.version \in Nat
  BY DEF TypeOK
<1> DEFINE again == AsEntries(c.items)
<1>2. Documented(again)
  BY <1>1, AsEntriesTyped DEF Documented
<1>3. Parsed(again).items \in Seq(Items) /\ Parsed(again).invalid \in SUBSET Ids
  BY <1>2, ParsedRight
<1>4. Parsed(again) = [items |-> Parsed(again).items, invalid |-> Parsed(again).invalid]
  BY ParsedIsFirst
<1>5. Loaded(c) = Schedule(c.version, [Parsed(again) EXCEPT !.invalid = Parsed(again).invalid \cup c.invalid])
  BY DEF Loaded
<1> HIDE DEF again
<1>6. Loaded(c) = [version |-> c.version, items |-> Parsed(again).items, invalid |-> Parsed(again).invalid \cup c.invalid]
  BY <1>4, <1>5 DEF Schedule
<1> QED
  BY <1>1, <1>3, <1>6 DEF Schedules

LEMMA TypeInductive ==
  ASSUME ForceInv, [Next]_vars
  PROVE  TypeOK'
<1> USE DEF ForceInv, CacheInv, TagInv
<1>0. Typed'
  BY TypedInductive
<1>t. /\ TypeOK /\ Typed
      /\ Len(served[url]) \in Nat /\ served[url][Len(served[url])] \in Documents
  <2>1. served[url] \in Seq(Documents) /\ Len(served[url]) >= 1
    BY DEF Typed
  <2> QED
    BY <2>1
<1>1. CASE UNCHANGED vars
  BY <1>1, <1>t DEF vars, TypeOK
<1>2. CASE LoadCache
  <2>1. sched' = NoSchedule \/ sched' \in Schedules
    BY <1>2, <1>t, LoadedTyped DEF LoadCache, Usable, TypeOK
  <2> QED
    BY <1>0, <1>2, <1>t, <2>1 DEF LoadCache, TypeOK, Typed
<1>3. CASE Ask \/ FetchFails \/ NotModified \/ Rejected
  BY <1>0, <1>3, <1>t DEF Ask, FetchFails, NotModified, Rejected, TypeOK, Typed
<1>4. CASE Answered
  <2>1. answer' \in [version : Nat, doc : Documents, tagged : BOOLEAN]
    BY <1>4, <1>t DEF Answered
  <2> QED
    BY <1>0, <1>4, <1>t, <2>1 DEF Answered, TypeOK, Typed
<1>5. CASE Stored
  <2>0. /\ answer.version \in Nat
        /\ Parsed(answer.doc).items \in Seq(Items)
        /\ Parsed(answer.doc).invalid \in SUBSET Ids
    BY <1>5, AnswerParsed DEF Stored
  <2>1. etag' \in Nat \cup {NoTag}
    BY <1>5, <2>0 DEF Stored, Tag
  <2>2. Cached(Schedule(answer.version, Parsed(answer.doc)))
          \in [url : Urls, version : Nat, items : Seq(Items), invalid : SUBSET Ids]
    BY <1>t, <2>0 DEF Cached, Schedule, Typed
  <2>3. cache' \subseteq [url : Urls, version : Nat, items : Seq(Items), invalid : SUBSET Ids]
    BY <1>5, <1>t, <2>2 DEF Stored, TypeOK
  <2> QED
    BY <1>0, <1>5, <1>t, <2>1, <2>3 DEF Stored, TypeOK, Typed
<1>6. CASE Apply
  <2>0. /\ answer.version \in Nat
        /\ Parsed(answer.doc).items \in Seq(Items)
        /\ Parsed(answer.doc).invalid \in SUBSET Ids
    BY <1>6, AnswerParsed DEF Apply, StoredParses
  <2>1. sched' \in Schedules
    BY <1>6, <2>0 DEF Apply, Schedule, Schedules
  <2> QED
    BY <1>0, <1>6, <1>t, <2>1 DEF Apply, TypeOK, Typed
<1>7. CASE Restart
  BY <1>0, <1>7, <1>t DEF Restart, TypeOK, Typed
<1>8. ASSUME NEW u \in Urls, NEW d \in Documents, Publish(u, d)
      PROVE  TypeOK'
  BY <1>0, <1>8, <1>t DEF Publish, TypeOK, Typed
<1> QED
  BY <1>1, <1>2, <1>3, <1>4, <1>5, <1>6, <1>7, <1>8 DEF Next, Poll

LEMMA ForceInductive ==
  ASSUME ForceInv, [Next]_vars
  PROVE  ForceInv'
<1>0. CacheInv' /\ TypeOK'
  BY CacheInductive, TypeInductive DEF ForceInv
<1>t. /\ TypeOK /\ Typed /\ VersionsKnown /\ CacheRight /\ StoredParses /\ InForceWasServed
  BY DEF ForceInv, CacheInv, TagInv
<1>v. sched' # NoSchedule => sched'.version \in 1 .. Len(served'[url'])
  BY <1>0 DEF CacheInv, VersionsKnown
<1>1. CASE UNCHANGED vars
  BY <1>0, <1>1, <1>t DEF vars, ForceInv, CacheRight, StoredParses, InForceWasServed
<1>2. CASE LoadCache
  <2>1. ASSUME NEW c \in cache, Usable(c), sched' = Loaded(c)
        PROVE  InForceWasServed'
    <3> DEFINE doc == served[url][c.version]
    <3>1. c.url = url /\ Parses(AsEntries(c.items)) /\ c.items \in Seq(Items)
      BY <1>t, <2>1 DEF Usable, TypeOK
    <3>2. Documented(doc) /\ (SingleSlashes(doc) => IsScheduleOf(c, doc))
      BY <1>t, <3>1 DEF CacheRight
    <3>3. sched'.version = c.version
      BY <2>1 DEF Loaded, Schedule
    <3>4. SingleSlashes(doc) => IsScheduleOf(sched', doc)
      BY <2>1, <3>1, <3>2, LoadedRight
    <3>5. served'[url'] = served[url]
      BY <1>2 DEF LoadCache
    <3> QED
      BY <1>v, <3>3, <3>4, <3>5 DEF InForceWasServed
  <2>2. ASSUME UNCHANGED sched
        PROVE  InForceWasServed'
    BY <1>2, <1>t, <2>2 DEF LoadCache, InForceWasServed
  <2>3. InForceWasServed'
    BY <1>2, <2>1, <2>2 DEF LoadCache
  <2> QED
    BY <1>0, <1>2, <1>t, <2>3 DEF LoadCache, ForceInv, CacheRight, StoredParses
<1>3. CASE Ask \/ FetchFails \/ NotModified \/ Rejected \/ Answered
  BY <1>0, <1>3, <1>t DEF Ask, FetchFails, NotModified, Rejected, Answered,
       ForceInv, CacheRight, StoredParses, InForceWasServed
<1>5. CASE Stored
  <2>1. /\ answer.doc = served[url][answer.version]
        /\ Documented(answer.doc)
        /\ IsScheduleOf(Schedule(answer.version, Parsed(answer.doc)), answer.doc)
    BY <1>5, AnswerParsed DEF Stored
  <2>2. CacheRight'
    <3>1. CASE cache' = {Cached(Schedule(answer.version, Parsed(answer.doc)))}
      <4> DEFINE s == Schedule(answer.version, Parsed(answer.doc))
                 c == Cached(s)
      <4>1. /\ c.url = url /\ c.version = answer.version
            /\ c.items = s.items /\ c.invalid = s.invalid
        BY DEF Cached, Schedule
      <4>2. IsScheduleOf(s, answer.doc)
        BY <2>1
      <4>3. cache' = {c}
        BY <3>1
      <4> HIDE DEF s, c
      <4>4. IsScheduleOf(c, answer.doc)
        BY <4>1, <4>2, SameReading
      <4> QED
        BY <1>5, <2>1, <4>1, <4>3, <4>4 DEF Stored, CacheRight
    <3>2. CASE UNCHANGED cache
      BY <1>5, <1>t, <3>2 DEF Stored, CacheRight
    <3> QED
      BY <1>5, <3>1, <3>2 DEF Stored
  <2> QED
    BY <1>0, <1>5, <1>t, <2>2 DEF Stored, ForceInv, StoredParses, InForceWasServed
<1>6. CASE Apply
  <2>1. /\ answer.doc = served[url][answer.version]
        /\ IsScheduleOf(sched', answer.doc)
    BY <1>6, <1>t, AnswerParsed DEF Apply, StoredParses
  <2>2. sched'.version = answer.version
    BY <1>6 DEF Apply, Schedule
  <2>3. InForceWasServed'
    BY <1>6, <1>v, <2>1, <2>2 DEF Apply, InForceWasServed
  <2> QED
    BY <1>0, <1>6, <1>t, <2>3 DEF Apply, ForceInv, CacheRight, StoredParses
<1>7. CASE Restart
  BY <1>0, <1>7, <1>t DEF Restart, ForceInv, CacheRight, StoredParses, InForceWasServed
<1>8. ASSUME NEW u \in Urls, NEW d \in Documents, Publish(u, d)
      PROVE  ForceInv'
  <2>1. \A v \in Urls : \A n \in 1 .. Len(served[v]) : served'[v][n] = served[v][n]
    BY <1>8, <1>t, PublishKeeps
  <2>2. \A c \in cache : c.url \in Urls /\ c.version \in 1 .. Len(served[c.url])
    BY <1>t DEF VersionsKnown
  <2>3. CacheRight'
    BY <1>8, <1>t, <2>1, <2>2 DEF Publish, CacheRight
  <2>4. InForceWasServed'
    BY <1>8, <1>t, <1>v, <2>1 DEF Publish, InForceWasServed, Typed
  <2> QED
    BY <1>0, <1>8, <1>t, <2>3, <2>4 DEF Publish, ForceInv, StoredParses
<1> QED
  BY <1>1, <1>2, <1>3, <1>5, <1>6, <1>7, <1>8 DEF Next, Poll

\* Every variable of the poller keeps its type, whatever the server sends.
THEOREM TypeCorrect == Spec => []TypeOK
<1>1. ForceInv => TypeOK
  BY DEF ForceInv
<1> QED
  BY InitForceInv, ForceInductive, <1>1, PTL DEF Spec

\* The schedule in force is a right reading of a document that the configured URL has
\* served, whether Parse made it or LoadCache read it back from the file.
THEOREM InForceWasServedHolds == Spec => []InForceWasServed
<1>1. ForceInv => InForceWasServed
  BY DEF ForceInv
<1> QED
  BY InitForceInv, ForceInductive, <1>1, PTL DEF Spec
===============================================================================
